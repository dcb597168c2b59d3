---------------------------- MODULE CommandService ----------------------------
(***************************************************************************)
(* The command service and the Host's lifecycle: HTTP threads bring        *)
(* commands, each under a request id its client may repeat; the service    *)
(* keeps one durable row per id, runs one command at a time, and may be    *)
(* drained, interrupted or killed between any two durable writes.          *)
(*                                                                         *)
(* A step of an HTTP thread ends with a committed ledger transaction or    *)
(* with the answer.  What a command does is abstracted to its kind; the    *)
(* jobs it leaves behind are UpdateCoordinator's.                          *)
(***************************************************************************)
EXTENDS Naturals

CONSTANTS
  Requests,    \* request ids
  Clients,     \* HTTP connections, each with its handler thread
  ShutdownIds, \* ids of shutdown requests
  MaxSends,    \* bound: commands sent
  MaxStops     \* bound: interruptions and crashes

ASSUME LimitsAssumption == MaxSends \in Nat /\ MaxStops \in Nat

VARIABLES
  \* durable: the commands table and the jobs table
  commands, jobs,
  \* the Host process
  host, mode, closed, executor, decisions, handler,
  \* history: dispatches and answers per request id, ids whose row a provider
  \* error left open, and the bounds already used
  dispatched, answers, refused, used

vars == <<commands, jobs, host, mode, closed, executor, decisions, handler,
          dispatched, answers, refused, used>>

\* "submit" creates a job, "change" acts at once, and "read" stands for the
\* operations of COMMANDS_ALLOWED_WHILE_DRAINING.  Commands of one kind are
\* the same command.
Kinds == {"submit", "change", "read"}
Answers == {"accepted", "completed", "failed", "state_unknown"}

NoCommand == [kind |-> "none", state |-> "none", answer |-> "none"]
InProgress(k) == [kind |-> k, state |-> "in_progress", answer |-> "none"]
\* Mutant: the row is completed without its response.
CompletedSilently(k, a) == [kind |-> k, state |-> "completed", answer |-> "none"]
Completed(k, a) == [kind |-> k, state |-> "completed", answer |-> a]

Quiet == [pc |-> "idle", request |-> "none", kind |-> "none", answer |-> "none"]

Up == host # "stopped"
\* The thread holds _execute_lock.
Holds(c) == handler[c].pc \in {"dispatch", "complete"}
LockFree == \A c \in Clients : ~Holds(c)

\* Mutant: every row of the table counts, settled or not.
ActiveJobsAnyState == {r \in Requests : jobs[r] # "none"}
\* Mutant: a job that waits for the Editor does not count.
QueuedJobs == {r \in Requests : jobs[r] = "queued"}
\* list_active_jobs: "parked" is a row that no thread of the process works on.
ActiveJobs == {r \in Requests : jobs[r] \in {"queued", "parked"}}

-----------------------------------------------------------------------------
(* Commands.                                                               *)

Send(c, r, k) ==
  /\ Up /\ handler[c].pc = "idle" /\ used.sends < MaxSends
  /\ handler' = [handler EXCEPT ![c] = [Quiet EXCEPT !.pc = "waiting",
                                          !.request = r, !.kind = k]]
  /\ used' = [used EXCEPT !.sends = @ + 1]
  /\ UNCHANGED <<commands, jobs, host, mode, closed, executor, decisions,
                 dispatched, answers, refused>>

Waits(c) == Up /\ handler[c].pc = "waiting" /\ LockFree
Row(c) == commands[handler[c].request]
SameCommand(c) == Row(c).kind = handler[c].kind

\* The answer a client of this very command gets.
Answer(c, a) ==
  /\ answers' = [answers EXCEPT ![handler[c].request] = @ \cup {a}]
  /\ handler' = [handler EXCEPT ![c] = Quiet]

\* replay_command: the stored answer, or that the first attempt left none.
Replay(c) ==
  /\ Waits(c) /\ Row(c) # NoCommand /\ SameCommand(c)
  /\ \/ Row(c).state = "completed" /\ Answer(c, Row(c).answer)
     \/ Row(c).state = "in_progress" /\ Answer(c, "orphan")
  /\ UNCHANGED <<commands, jobs, host, mode, closed, executor, decisions,
                 dispatched, refused, used>>

\* Mutant: draining refuses nothing.
AllowedAlways(k) == TRUE
\* allows_command
Allowed(k) == mode = "running" \/ k = "read"

\* Mutant: an attempt that left no answer may be tried again.
IsNewOrOpen(r) == commands[r].state # "completed"
IsNew(r) == commands[r].state = "none"

\* Another command under the same id, or new work for a draining Host: the
\* client is told so and nothing is registered.
Refuse(c) ==
  /\ Waits(c)
  /\ \/ Row(c) # NoCommand /\ ~SameCommand(c)
     \/ Row(c) = NoCommand /\ ~Allowed(handler[c].kind)
  /\ handler' = [handler EXCEPT ![c] = Quiet]
  /\ UNCHANGED <<commands, jobs, host, mode, closed, executor, decisions,
                 dispatched, answers, refused, used>>

\* begin_command: the row is durable before anything is done.
Begin(c) ==
  /\ Waits(c) /\ IsNew(handler[c].request) /\ Allowed(handler[c].kind)
  /\ commands' = [commands EXCEPT ![handler[c].request] = InProgress(handler[c].kind)]
  /\ handler' = [handler EXCEPT ![c].pc = "dispatch"]
  /\ UNCHANGED <<jobs, host, mode, closed, executor, decisions, dispatched,
                 answers, refused, used>>

\* What _dispatch may come back with: the answer of its kind, or an error of
\* whatever provider it called, which may be the Player's own refusal of a
\* request with the stage "idempotency".
Outcomes(k) ==
  {IF k = "submit" THEN "accepted" ELSE "completed",
   "failed", "state_unknown", "idempotency"}

\* A submission commits its job row, then finds the executor open or closed;
\* a source edit leaves its job with the Editor.
NewJob(r, outcome) ==
  \/ /\ outcome = "accepted" /\ ~closed
     /\ jobs' = [jobs EXCEPT ![r] = "queued"]
     /\ executor' = executor \cup {r}
  \/ /\ outcome = "accepted"
     /\ jobs' = [jobs EXCEPT ![r] = "parked"]
     /\ UNCHANGED executor
  \/ /\ outcome = "failed" /\ closed
     /\ jobs' = [jobs EXCEPT ![r] = "queued"]
     /\ UNCHANGED executor
  \/ /\ outcome # "accepted"
     /\ UNCHANGED <<jobs, executor>>

\* job.status refreshes a job the Editor has answered.
RefreshJob ==
  /\ UNCHANGED executor
  /\ \/ UNCHANGED jobs
     \/ \E r \in Requests : jobs[r] = "parked" /\ jobs' = [jobs EXCEPT ![r] = "settled"]

\* Mutant: any error is returned without completing the row.
LeavesRowOpenOnError(outcome) == outcome \notin {"accepted", "completed"}
\* if error.stage == "idempotency": return response
LeavesRowOpen(outcome) == outcome = "idempotency"

Dispatch(c) ==
  /\ Up /\ handler[c].pc = "dispatch"
  /\ LET r == handler[c].request
         k == handler[c].kind IN
       /\ dispatched' = [dispatched EXCEPT ![r] = @ + 1]
       /\ \E outcome \in Outcomes(k) :
            /\ CASE k = "submit" -> NewJob(r, outcome)
                 [] k = "change" -> UNCHANGED <<jobs, executor>>
                 [] k = "read" -> RefreshJob
            /\ refused' = IF outcome = "idempotency" THEN refused \cup {r} ELSE refused
            /\ \/ /\ LeavesRowOpen(outcome)
                  /\ Answer(c, "failed")
               \/ /\ ~LeavesRowOpen(outcome)
                  /\ handler' = [handler EXCEPT ![c].pc = "complete",
                                                ![c].answer = outcome]
                  /\ UNCHANGED answers
  /\ UNCHANGED <<commands, host, mode, closed, decisions, used>>

\* complete_command, then the response; the lock is released.
Complete(c) ==
  /\ Up /\ handler[c].pc = "complete"
  /\ LET h == handler[c] IN
       commands' = [commands EXCEPT ![h.request] = Completed(h.kind, h.answer)]
  /\ Answer(c, handler[c].answer)
  /\ UNCHANGED <<jobs, host, mode, closed, executor, decisions, dispatched,
                 refused, used>>

\* The executor settles a job or, waiting for the Editor in vain, parks it.
FinishJob(r) ==
  /\ Up /\ r \in executor
  /\ executor' = executor \ {r}
  /\ \E state \in {"settled", "parked"} : jobs' = [jobs EXCEPT ![r] = state]
  /\ UNCHANGED <<commands, host, mode, closed, decisions, handler, dispatched,
                 answers, refused, used>>

-----------------------------------------------------------------------------
(* The lifecycle of the Host.                                              *)

Undecided == [wait |-> FALSE, verdict |-> "none"]

\* request_shutdown, under the execute lock; a repeated id gets its decision
\* again and changes nothing.
RequestShutdown(id, wait) ==
  /\ Up /\ LockFree /\ decisions[id] = Undecided
  /\ \/ /\ mode = "running" /\ ActiveJobs # {} /\ ~wait
        /\ decisions' = [decisions EXCEPT ![id] = [wait |-> wait, verdict |-> "conflict"]]
        /\ UNCHANGED mode
     \/ /\ mode = "draining" \/ ActiveJobs = {} \/ wait
        /\ decisions' = [decisions EXCEPT ![id] = [wait |-> wait, verdict |-> "accepted"]]
        /\ mode' = "draining"
  /\ UNCHANGED <<commands, jobs, host, closed, executor, handler, dispatched,
                 answers, refused, used>>

\* _shutdown_when_safe: the poll that finds the drain done stops the server.
LeaveWhenSafe ==
  /\ host = "up" /\ mode = "draining" /\ ActiveJobs = {}
  /\ host' = "leaving"
  /\ UNCHANGED <<commands, jobs, mode, closed, executor, decisions, handler,
                 dispatched, answers, refused, used>>

\* KeyboardInterrupt ends serve_forever; the handler threads go on.
Interrupt ==
  /\ host = "up" /\ used.stops < MaxStops
  /\ host' = "interrupted"
  /\ used' = [used EXCEPT !.stops = @ + 1]
  /\ UNCHANGED <<commands, jobs, mode, closed, executor, decisions, handler,
                 dispatched, answers, refused>>

\* service.close: no submission from here on, and the executor is drained.
CloseService ==
  /\ host \in {"leaving", "interrupted"} /\ ~closed
  /\ closed' = TRUE
  /\ UNCHANGED <<commands, jobs, host, mode, executor, decisions, handler,
                 dispatched, answers, refused, used>>

\* The process is gone, and its daemon threads with it.
Gone ==
  /\ host' = "stopped"
  /\ executor' = {}
  /\ handler' = [c \in Clients |-> Quiet]
  /\ UNCHANGED <<commands, jobs, mode, closed, decisions, dispatched, answers,
                 refused>>

Exit ==
  /\ host \in {"leaving", "interrupted"} /\ closed /\ executor = {}
  /\ Gone
  /\ UNCHANGED used

Crash ==
  /\ Up /\ used.stops < MaxStops
  /\ Gone
  /\ used' = [used EXCEPT !.stops = @ + 1]

\* A new process; recover_pending resubmits the queued jobs and asks for the
\* answers the parked ones wait for.
Start ==
  /\ host = "stopped"
  /\ host' = "up" /\ mode' = "running" /\ closed' = FALSE
  /\ decisions' = [id \in ShutdownIds |-> Undecided]
  /\ executor' = {r \in Requests : jobs[r] = "queued"}
  /\ \E answered \in SUBSET {r \in Requests : jobs[r] = "parked"} :
       jobs' = [r \in Requests |-> IF r \in answered THEN "settled" ELSE jobs[r]]
  /\ UNCHANGED <<commands, handler, dispatched, answers, refused, used>>

-----------------------------------------------------------------------------

Init ==
  /\ commands = [r \in Requests |-> NoCommand]
  /\ jobs = [r \in Requests |-> "none"]
  /\ host = "up" /\ mode = "running" /\ closed = FALSE
  /\ executor = {}
  /\ decisions = [id \in ShutdownIds |-> Undecided]
  /\ handler = [c \in Clients |-> Quiet]
  /\ dispatched = [r \in Requests |-> 0]
  /\ answers = [r \in Requests |-> {}]
  /\ refused = {}
  /\ used = [sends |-> 0, stops |-> 0]

\* One HTTP handler thread.
Handle(c) == Replay(c) \/ Refuse(c) \/ Begin(c) \/ Dispatch(c) \/ Complete(c)

Next ==
  \/ \E c \in Clients, r \in Requests, k \in Kinds : Send(c, r, k)
  \/ \E c \in Clients : Handle(c)
  \/ \E r \in Requests : FinishJob(r)
  \/ \E id \in ShutdownIds, wait \in BOOLEAN : RequestShutdown(id, wait)
  \/ LeaveWhenSafe \/ CloseService \/ Exit
  \/ Interrupt \/ Crash \/ Start

Spec == Init /\ [][Next]_vars

\* The operating system runs the executor and the polling thread; a handler
\* that holds the lock goes on.
FairSpec ==
  /\ Spec
  /\ \A r \in Requests : WF_vars(FinishJob(r))
  /\ \A c \in Clients : WF_vars(Dispatch(c) \/ Complete(c))
  /\ WF_vars(LeaveWhenSafe)

-----------------------------------------------------------------------------
(* Properties.                                                             *)

CommandType ==
  {NoCommand} \cup {InProgress(k) : k \in Kinds}
              \cup [kind : Kinds, state : {"completed"}, answer : Answers]
HandlerType ==
  [pc : {"idle", "waiting", "dispatch", "complete"},
   request : Requests \cup {"none"}, kind : Kinds \cup {"none"},
   answer : Answers \cup {"none"}]
DecisionType == [wait : BOOLEAN, verdict : {"none", "conflict", "accepted"}]

\* Every variable keeps its shape; a completed row has its response.
TypeOK ==
  /\ commands \in [Requests -> CommandType]
  /\ jobs \in [Requests -> {"none", "queued", "parked", "settled"}]
  /\ host \in {"up", "leaving", "interrupted", "stopped"}
  /\ mode \in {"running", "draining"} /\ closed \in BOOLEAN
  /\ executor \subseteq Requests /\ refused \subseteq Requests
  /\ decisions \in [ShutdownIds -> DecisionType]
  /\ handler \in [Clients -> HandlerType]
  /\ dispatched \in [Requests -> Nat]
  /\ answers \in [Requests -> SUBSET (Answers \cup {"orphan"})]
  /\ used \in [sends : Nat, stops : Nat]

\* A request id is dispatched once, however often it is sent, by whomever,
\* before and after any stop of the Host (contracts/README.md:8).
DispatchedOnce == \A r \in Requests : dispatched[r] <= 1

\* Every client of a command gets the same answer; that the first attempt left
\* none is an answer that nobody contradicts later (replay_command).  Left out
\* are the rows that a provider's error of the stage "idempotency" leaves open:
\* the first answer to these says failed and a repeat says state_unknown.
OneAnswer == \A r \in Requests \ refused : \A a, b \in answers[r] : a = b

\* From the moment a shutdown is accepted no job is added and nothing but a
\* command of COMMANDS_ALLOWED_WHILE_DRAINING is executed, though the check of
\* allows_command and the dispatch are steps apart (service.py:111-138).
NoNewWork ==
  [][mode = "draining" =>
       \A r \in Requests :
         /\ jobs[r] = "none" => jobs'[r] = "none"
         /\ dispatched'[r] # dispatched[r] => commands[r].kind = "read"]_vars

\* The server stops by itself only when no job is active, and from then on
\* none becomes active until the next start (_shutdown_when_safe).
ExitSafe ==
  host = "leaving" =>
    executor = {} /\ \A r \in Requests : jobs[r] \in {"none", "settled"}

\* A drain ends, or a job is left that no thread of the process works on.
DrainStops ==
  host = "up" /\ mode = "draining"
    ~> host # "up" \/ \E r \in Requests : jobs[r] = "parked"
=============================================================================
