------------------------- MODULE CommandServiceProofs -------------------------
(***************************************************************************)
(* What CommandService promises for any number of requests, clients,       *)
(* sends and stops: an id is dispatched once, its clients get one answer,  *)
(* a draining Host takes no new work and leaves with nothing running.      *)
(***************************************************************************)
EXTENDS CommandService, TLAPS

\* At most one thread is inside _execute_lock.
Mutex == \A c, d \in Clients : Holds(c) /\ Holds(d) => c = d

\* A thread inside it works on an open row nobody has been answered about.
Holding ==
  \A c \in Clients :
    /\ handler[c].pc # "idle" => handler[c].request \in Requests /\ handler[c].kind \in Kinds
    /\ Holds(c) => /\ Up
                   /\ commands[handler[c].request] = InProgress(handler[c].kind)
                   /\ answers[handler[c].request] = {}
    /\ handler[c].pc = "dispatch" => dispatched[handler[c].request] = 0
    /\ handler[c].pc = "complete" => handler[c].answer \in Answers

\* What was answered, by the state of the row.
Answered ==
  \A r \in Requests :
    /\ dispatched[r] <= 1
    /\ commands[r].state = "none" => dispatched[r] = 0 /\ answers[r] = {}
    /\ commands[r].state = "in_progress" /\ r \notin refused => answers[r] \subseteq {"orphan"}
    /\ commands[r].state = "completed" => answers[r] \subseteq {commands[r].answer}

\* A job belongs to a dispatched command; the executor works on queued jobs.
Owned ==
  \A r \in Requests :
    /\ dispatched[r] = 0 => jobs[r] = "none"
    /\ r \in executor => jobs[r] = "queued"

\* A drain begins with the lock free, and the way out begins with no job.
Draining ==
  /\ mode = "draining" => \A c \in Clients : Holds(c) => handler[c].kind = "read"
  /\ host = "leaving" => mode = "draining"
                           /\ \A r \in Requests : jobs[r] \in {"none", "settled"}

IInv == TypeOK /\ Mutex /\ Holding /\ Answered /\ Owned /\ Draining

-----------------------------------------------------------------------------

LEMMA InitIInv == Init => IInv
<1> SUFFICES ASSUME Init PROVE IInv
  OBVIOUS
<1>1. TypeOK
  BY DEF Init, TypeOK, CommandType, HandlerType, DecisionType, NoCommand, Quiet, Undecided
<1>2. Mutex
  BY DEF Init, Mutex, Holds, Quiet
<1>3. Holding
  BY DEF Init, Holding, Holds, Quiet
<1>4. Answered
  <2> SUFFICES ASSUME NEW r \in Requests
               PROVE  /\ dispatched[r] <= 1
                      /\ dispatched[r] = 0 /\ answers[r] = {}
                      /\ commands[r].state # "completed"
    BY DEF Answered
  <2>1. dispatched[r] = 0 /\ answers[r] = {} /\ commands[r] = NoCommand
    BY DEF Init
  <2> QED BY <2>1 DEF NoCommand
<1>5. Owned
  BY DEF Init, Owned
<1>6. Draining
  BY DEF Init, Draining, Holds, Quiet
<1>7. QED BY <1>1, <1>2, <1>3, <1>4, <1>5, <1>6 DEF IInv

\* The steps of a handler thread, one by one.
LEMMA SendStep ==
  ASSUME IInv, NEW c \in Clients, NEW r \in Requests, NEW k \in Kinds, Send(c, r, k)
  PROVE  IInv'
<1>1. TypeOK'
  <2>1. [Quiet EXCEPT !.pc = "waiting", !.request = r, !.kind = k] \in HandlerType
    BY DEF Quiet, HandlerType
  <2>2. used' \in [sends : Nat, stops : Nat]
    BY DEF Send, IInv, TypeOK
  <2> QED BY <2>1, <2>2 DEF Send, IInv, TypeOK
<1>2. Mutex'
  BY DEF Send, IInv, TypeOK, HandlerType, Mutex, Holds, LockFree, Quiet
<1>3. Holding'
  BY DEF Send, IInv, TypeOK, HandlerType, Holding, Holds, Mutex, LockFree, Up, Quiet
<1>4. Answered'
  BY DEF Send, IInv, TypeOK, HandlerType, CommandType, Answered, Holding, Holds, Quiet
<1>5. Owned'
  BY DEF Send, IInv, TypeOK, HandlerType, Owned, Answered, Holding, Holds
<1>6. Draining'
  BY DEF Send, IInv, TypeOK, HandlerType, Draining, Owned, Holding, Holds, LockFree, Up, Quiet
<1>7. QED BY <1>1, <1>2, <1>3, <1>4, <1>5, <1>6 DEF IInv

LEMMA ReplayStep ==
  ASSUME IInv, NEW c \in Clients, Replay(c)
  PROVE  IInv'
<1>1. TypeOK'
  <2>1. Quiet \in HandlerType
    BY DEF Quiet, HandlerType
  <2>2. handler[c].request \in Requests
    BY DEF Replay, Waits, IInv, Holding
  <2>3. Row(c).state = "completed" => Row(c).answer \in Answers
    BY <2>2 DEF Row, IInv, TypeOK, CommandType, NoCommand, InProgress
  <2> QED BY <2>1, <2>2, <2>3 DEF Replay, Answer, IInv, TypeOK
<1>2. Mutex'
  BY DEF Replay, Waits, Row, SameCommand, Answer, IInv, TypeOK, HandlerType, Mutex, Holds, LockFree, Quiet
<1>3. Holding'
  BY DEF Replay, Waits, Row, SameCommand, Answer, InProgress, IInv, TypeOK, HandlerType, Holding, Holds, Mutex, LockFree, Up, Quiet
<1>4. Answered'
  BY DEF Replay, Waits, Row, SameCommand, Answer, InProgress, NoCommand, IInv, TypeOK, HandlerType, CommandType, Answered, Holding, Holds, Quiet
<1>5. Owned'
  BY DEF Replay, Waits, Row, SameCommand, Answer, IInv, TypeOK, HandlerType, Owned, Answered, Holding, Holds
<1>6. Draining'
  BY DEF Replay, Waits, Row, SameCommand, Answer, IInv, TypeOK, HandlerType, Draining, Owned, Holding, Holds, LockFree, Up, Quiet
<1>7. QED BY <1>1, <1>2, <1>3, <1>4, <1>5, <1>6 DEF IInv

LEMMA RefuseStep ==
  ASSUME IInv, NEW c \in Clients, Refuse(c)
  PROVE  IInv'
<1>1. TypeOK'
  BY DEF Refuse, Waits, IInv, TypeOK, HandlerType, CommandType, DecisionType, Quiet, Holding
<1>2. Mutex'
  BY DEF Refuse, Waits, IInv, TypeOK, HandlerType, Mutex, Holds, LockFree, Quiet
<1>3. Holding'
  BY DEF Refuse, Waits, IInv, TypeOK, HandlerType, Holding, Holds, Mutex, LockFree, Up, Quiet
<1>4. Answered'
  BY DEF Refuse, Waits, IInv, TypeOK, HandlerType, CommandType, Answered, Holding, Holds, Quiet
<1>5. Owned'
  BY DEF Refuse, Waits, IInv, TypeOK, HandlerType, Owned, Answered, Holding, Holds
<1>6. Draining'
  BY DEF Refuse, Waits, IInv, TypeOK, HandlerType, Draining, Owned, Holding, Holds, LockFree, Up, Quiet
<1>7. QED BY <1>1, <1>2, <1>3, <1>4, <1>5, <1>6 DEF IInv

LEMMA BeginStep ==
  ASSUME IInv, NEW c \in Clients, Begin(c)
  PROVE  IInv'
<1>1. TypeOK'
  <2>1. handler[c].request \in Requests /\ handler[c].kind \in Kinds
    BY DEF Begin, Waits, IInv, Holding
  <2>2. InProgress(handler[c].kind) \in CommandType
    BY <2>1 DEF CommandType
  <2>3. [handler[c] EXCEPT !.pc = "dispatch"] \in HandlerType
    BY DEF IInv, TypeOK, HandlerType
  <2> QED BY <2>1, <2>2, <2>3 DEF Begin, IInv, TypeOK
<1>2. Mutex'
  BY DEF Begin, Waits, IsNew, Allowed, IInv, TypeOK, HandlerType, Mutex, Holds, LockFree, Quiet
<1>3. Holding'
  <2>1. handler[c].request \in Requests /\ handler[c].kind \in Kinds
    BY DEF Begin, Waits, IInv, Holding
  <2>2. commands[handler[c].request].state = "none"
    BY DEF Begin, IsNew
  <2>3. dispatched[handler[c].request] = 0 /\ answers[handler[c].request] = {}
    BY <2>1, <2>2 DEF IInv, Answered
  <2>4. \A d \in Clients : ~Holds(d)
    BY DEF Begin, Waits, LockFree
  <2>5. /\ handler' = [handler EXCEPT ![c].pc = "dispatch"]
        /\ commands' = [commands EXCEPT ![handler[c].request] = InProgress(handler[c].kind)]
        /\ UNCHANGED <<dispatched, answers, host>> /\ Up
    BY DEF Begin, Waits
  <2> QED BY <2>1, <2>3, <2>4, <2>5 DEF IInv, TypeOK, HandlerType, Holding, Holds, Up
<1>4. Answered'
  BY DEF Begin, Waits, IsNew, Allowed, InProgress, IInv, TypeOK, HandlerType, CommandType, Answered, Holding, Holds, Quiet
<1>5. Owned'
  BY DEF Begin, Waits, IsNew, Allowed, IInv, TypeOK, HandlerType, Owned, Answered, Holding, Holds
<1>6. Draining'
  BY DEF Begin, Waits, IsNew, Allowed, IInv, TypeOK, HandlerType, Draining, Owned, Holding, Holds, LockFree, Up, Quiet
<1>7. QED BY <1>1, <1>2, <1>3, <1>4, <1>5, <1>6 DEF IInv


\* What holds of the thread that executes the command.
LEMMA Holder ==
  ASSUME IInv, NEW c \in Clients, Holds(c)
  PROVE  /\ handler[c].request \in Requests /\ handler[c].kind \in Kinds
         /\ commands[handler[c].request] = InProgress(handler[c].kind)
         /\ answers[handler[c].request] = {}
         /\ Up
         /\ \A d \in Clients : Holds(d) => d = c
         /\ mode = "draining" => handler[c].kind = "read"
  BY DEF IInv, Holding, Mutex, Draining, Holds

\* Whatever a dispatch leaves behind, it is the job of this command, and
\* nothing at all while the Host drains.
LEMMA DispatchJobs ==
  ASSUME IInv, NEW c \in Clients, Dispatch(c), handler[c].pc = "dispatch"
  PROVE  /\ jobs' \in [Requests -> {"none", "queued", "parked", "settled"}]
         /\ executor' \subseteq Requests
         /\ \A r \in Requests :
              /\ r \in executor' => jobs'[r] = "queued"
              /\ r # handler[c].request /\ jobs[r] = "none" => jobs'[r] = "none"
              /\ mode = "draining" /\ jobs[r] \in {"none", "settled"} => jobs'[r] = jobs[r]
<1>1. Holds(c)
  BY DEF Holds
<1>2. handler[c].request \in Requests /\ handler[c].kind \in Kinds
      /\ (mode = "draining" => handler[c].kind = "read")
  BY <1>1, Holder
<1>3. jobs[handler[c].request] = "none"
  BY <1>2 DEF IInv, Holding, Owned
<1>4. CASE handler[c].kind = "submit"
  <2>1. PICK outcome \in Outcomes(handler[c].kind) : NewJob(handler[c].request, outcome)
    BY <1>4 DEF Dispatch
  <2> QED BY <1>2, <1>3, <1>4, <2>1 DEF NewJob, IInv, TypeOK, Owned
<1>5. CASE handler[c].kind = "change"
  <2>1. UNCHANGED <<jobs, executor>>
    BY <1>5 DEF Dispatch
  <2> QED BY <2>1 DEF IInv, TypeOK, Owned
<1>6. CASE handler[c].kind = "read"
  <2>1. RefreshJob
    BY <1>6 DEF Dispatch
  <2> QED BY <2>1 DEF RefreshJob, IInv, TypeOK, Owned
<1> QED BY <1>2, <1>4, <1>5, <1>6 DEF Kinds

\* The outcome of a dispatch: an answer at once, or one to be stored first.
LEMMA DispatchOutcome ==
  ASSUME IInv, NEW c \in Clients, Dispatch(c)
  PROVE  \E outcome \in Outcomes(handler[c].kind) :
           /\ refused' = IF outcome = "idempotency"
                           THEN refused \cup {handler[c].request} ELSE refused
           /\ \/ /\ outcome = "idempotency"
                 /\ Answer(c, "failed")
              \/ /\ outcome # "idempotency"
                 /\ handler' = [handler EXCEPT ![c].pc = "complete", ![c].answer = outcome]
                 /\ UNCHANGED answers
  BY DEF Dispatch, LeavesRowOpen

LEMMA DispatchStep ==
  ASSUME IInv, NEW c \in Clients, Dispatch(c)
  PROVE  IInv'
<1>1. Holds(c) /\ handler[c].pc = "dispatch"
  BY DEF Dispatch, Holds
<1>2. /\ handler[c].request \in Requests /\ handler[c].kind \in Kinds
      /\ commands[handler[c].request] = InProgress(handler[c].kind)
      /\ answers[handler[c].request] = {}
      /\ dispatched[handler[c].request] = 0
      /\ Up
      /\ \A d \in Clients : Holds(d) => d = c
  BY <1>1, Holder DEF IInv, Holding
<1>3. PICK outcome \in Outcomes(handler[c].kind) :
           /\ refused' = IF outcome = "idempotency"
                           THEN refused \cup {handler[c].request} ELSE refused
           /\ \/ /\ outcome = "idempotency"
                 /\ Answer(c, "failed")
              \/ /\ outcome # "idempotency"
                 /\ handler' = [handler EXCEPT ![c].pc = "complete", ![c].answer = outcome]
                 /\ UNCHANGED answers
  BY DispatchOutcome
<1>4. outcome \in Answers \cup {"idempotency"}
  BY <1>2, <1>3 DEF Outcomes, Answers, Kinds
<1>5. /\ dispatched' = [dispatched EXCEPT ![handler[c].request] = 1]
      /\ UNCHANGED <<commands, host, mode, closed, decisions, used>>
  BY <1>2 DEF Dispatch, IInv, TypeOK
<1>6. TypeOK'
  <2>1. handler' \in [Clients -> HandlerType]
    BY <1>3, <1>4 DEF IInv, TypeOK, HandlerType, Answer, Quiet
  <2>2. answers' \in [Requests -> SUBSET (Answers \cup {"orphan"})]
    BY <1>3 DEF IInv, TypeOK, Answer, Answers
  <2>3. refused' \subseteq Requests
    BY <1>2, <1>3 DEF IInv, TypeOK
  <2>4. dispatched' \in [Requests -> Nat]
    BY <1>5 DEF IInv, TypeOK
  <2> QED BY <1>1, <1>5, <2>1, <2>2, <2>3, <2>4, DispatchJobs DEF IInv, TypeOK
<1>7. Mutex'
  BY <1>2, <1>3 DEF IInv, TypeOK, Mutex, Holds, Answer, Quiet, HandlerType
<1>8. Holding'
  <2>1. ASSUME NEW d \in Clients, d # c
        PROVE  handler'[d] = handler[d] /\ ~Holds(d)
    BY <1>2, <1>3, <2>1 DEF IInv, TypeOK, Answer
  <2>2. /\ handler'[c].pc \in {"idle", "complete"}
        /\ handler'[c].pc # "idle" =>
             /\ outcome # "idempotency" /\ handler'[c].answer = outcome
             /\ handler'[c].request = handler[c].request
             /\ handler'[c].kind = handler[c].kind
             /\ UNCHANGED answers
    BY <1>3 DEF IInv, TypeOK, HandlerType, Answer, Quiet
  <2> QED BY <1>2, <1>4, <1>5, <2>1, <2>2 DEF IInv, Holding, Holds, Up
<1>9. Answered'
  BY <1>2, <1>3, <1>5 DEF IInv, TypeOK, Answered, Answer, InProgress
<1>10. Owned'
  BY <1>1, <1>5, DispatchJobs DEF IInv, TypeOK, Owned
<1>11. Draining'
  <2>1. mode = "draining" => handler[c].kind = "read"
    BY <1>1, Holder
  <2>2. \A d \in Clients : Holds(d)' => d = c /\ handler'[d].kind = handler[c].kind
    BY <1>2, <1>3 DEF IInv, TypeOK, HandlerType, Holds, Answer, Quiet
  <2>3. host = "leaving" =>
          mode = "draining" /\ \A r \in Requests : jobs'[r] \in {"none", "settled"}
    BY <1>1, DispatchJobs DEF IInv, Draining
  <2> QED BY <1>5, <2>1, <2>2, <2>3 DEF Draining
<1> QED BY <1>6, <1>7, <1>8, <1>9, <1>10, <1>11 DEF IInv

LEMMA CompleteStep ==
  ASSUME IInv, NEW c \in Clients, Complete(c)
  PROVE  IInv'
<1>1. Holds(c) /\ handler[c].pc = "complete"
  BY DEF Complete, Holds
<1>2. /\ handler[c].request \in Requests /\ handler[c].kind \in Kinds
      /\ answers[handler[c].request] = {}
      /\ handler[c].answer \in Answers
      /\ Up
      /\ \A d \in Clients : Holds(d) => d = c
  BY <1>1, Holder DEF IInv, Holding
<1>3. /\ commands' = [commands EXCEPT ![handler[c].request] =
                                        Completed(handler[c].kind, handler[c].answer)]
      /\ answers' = [answers EXCEPT ![handler[c].request] = {handler[c].answer}]
      /\ handler' = [handler EXCEPT ![c] = Quiet]
      /\ UNCHANGED <<jobs, host, mode, closed, executor, decisions, dispatched, refused, used>>
  BY <1>2 DEF Complete, Answer, IInv, TypeOK
<1>4. TypeOK'
  <2>1. Completed(handler[c].kind, handler[c].answer) \in CommandType
    BY <1>2 DEF Completed, CommandType
  <2>2. Quiet \in HandlerType
    BY DEF Quiet, HandlerType
  <2> QED BY <1>2, <1>3, <2>1, <2>2 DEF IInv, TypeOK
<1>5. Mutex'
  BY <1>2, <1>3 DEF IInv, TypeOK, Mutex, Holds, Quiet
<1>6. Holding'
  BY <1>2, <1>3 DEF IInv, TypeOK, Holding, Holds, Quiet
<1>7. Answered'
  <2> SUFFICES ASSUME NEW r \in Requests
               PROVE  /\ dispatched[r] <= 1
                      /\ commands'[r].state = "none" => dispatched[r] = 0 /\ answers'[r] = {}
                      /\ commands'[r].state = "in_progress" /\ r \notin refused
                           => answers'[r] \subseteq {"orphan"}
                      /\ commands'[r].state = "completed" => answers'[r] \subseteq {commands'[r].answer}
    BY <1>3 DEF Answered
  <2>1. CASE r = handler[c].request
    <3>1. commands'[r].state = "completed" /\ answers'[r] = {commands'[r].answer}
      BY <1>2, <1>3, <2>1 DEF IInv, TypeOK, Completed
    <3> QED BY <3>1 DEF IInv, Answered
  <2>2. CASE r # handler[c].request
    <3>1. commands'[r] = commands[r] /\ answers'[r] = answers[r]
      BY <1>2, <1>3, <2>2 DEF IInv, TypeOK
    <3> QED BY <3>1 DEF IInv, Answered
  <2> QED BY <2>1, <2>2
<1>8. Owned'
  BY <1>3 DEF IInv, Owned
<1>9. Draining'
  BY <1>2, <1>3 DEF IInv, TypeOK, Draining, Holds, Quiet
<1> QED BY <1>4, <1>5, <1>6, <1>7, <1>8, <1>9 DEF IInv


-----------------------------------------------------------------------------
\* The executor, the drain and the stops of the Host.

LEMMA FinishJobStep ==
  ASSUME IInv, NEW r \in Requests, FinishJob(r)
  PROVE  IInv'
<1>1. jobs[r] = "queued" /\ dispatched[r] # 0 /\ host # "leaving"
  BY DEF FinishJob, IInv, Owned, Draining
<1>2. PICK state \in {"settled", "parked"} : jobs' = [jobs EXCEPT ![r] = state]
  BY DEF FinishJob
<1>3. /\ executor' = executor \ {r}
      /\ UNCHANGED <<commands, host, mode, closed, decisions, handler, dispatched,
                     answers, refused, used>>
  BY DEF FinishJob
<1>4. TypeOK'
  BY <1>2, <1>3 DEF IInv, TypeOK
<1>5. Mutex' /\ Holding' /\ Answered'
  BY <1>3 DEF IInv, Mutex, Holding, Answered, Holds, Up
<1>6. Owned'
  BY <1>1, <1>2, <1>3 DEF IInv, TypeOK, Owned
<1>7. Draining'
  BY <1>1, <1>3 DEF IInv, Draining, Holds
<1> QED BY <1>4, <1>5, <1>6, <1>7 DEF IInv

LEMMA RequestShutdownStep ==
  ASSUME IInv, NEW id \in ShutdownIds, NEW wait \in BOOLEAN, RequestShutdown(id, wait)
  PROVE  IInv'
<1>1. /\ mode' \in {"running", "draining"}
      /\ mode = "draining" => mode' = "draining"
      /\ \A c \in Clients : ~Holds(c)
      /\ UNCHANGED <<commands, jobs, host, closed, executor, handler, dispatched,
                     answers, refused, used>>
  BY DEF RequestShutdown, LockFree, IInv, TypeOK
<1>2. TypeOK'
  <2>1. decisions' \in [ShutdownIds -> DecisionType]
    BY DEF RequestShutdown, IInv, TypeOK, DecisionType
  <2> QED BY <1>1, <2>1 DEF IInv, TypeOK
<1>3. Mutex' /\ Holding' /\ Answered' /\ Owned'
  BY <1>1 DEF IInv, Mutex, Holding, Answered, Owned, Holds, Up
<1>4. Draining'
  BY <1>1 DEF IInv, Draining, Holds
<1> QED BY <1>2, <1>3, <1>4 DEF IInv

LEMMA LeaveStep ==
  ASSUME IInv, LeaveWhenSafe
  PROVE  IInv'
<1>1. TypeOK'
  BY DEF LeaveWhenSafe, IInv, TypeOK
<1>2. Mutex' /\ Holding' /\ Answered' /\ Owned'
  BY DEF LeaveWhenSafe, IInv, Mutex, Holding, Answered, Owned, Holds, Up
<1>3. Draining'
  BY DEF LeaveWhenSafe, ActiveJobs, IInv, TypeOK, Draining, Holds
<1> QED BY <1>1, <1>2, <1>3 DEF IInv

LEMMA InterruptStep ==
  ASSUME IInv, Interrupt \/ CloseService
  PROVE  IInv'
<1>1. TypeOK'
  <2>1. CASE Interrupt
    BY <2>1 DEF Interrupt, IInv, TypeOK
  <2>2. CASE CloseService
    BY <2>2 DEF CloseService, IInv, TypeOK
  <2> QED BY <2>1, <2>2
<1>2. Mutex' /\ Holding' /\ Answered' /\ Owned'
  BY DEF Interrupt, CloseService, IInv, Mutex, Holding, Answered, Owned, Holds, Up
<1>3. Draining'
  BY DEF Interrupt, CloseService, IInv, Draining, Holds
<1> QED BY <1>1, <1>2, <1>3 DEF IInv

LEMMA GoneStep ==
  ASSUME IInv, Exit \/ Crash
  PROVE  IInv'
<1>1. TypeOK'
  <2>1. Quiet \in HandlerType
    BY DEF Quiet, HandlerType
  <2> QED BY <2>1 DEF Exit, Crash, Gone, IInv, TypeOK
<1>2. \A c \in Clients : handler'[c].pc = "idle"
  BY DEF Exit, Crash, Gone, Quiet
<1>3. Mutex' /\ Holding'
  BY <1>2 DEF Mutex, Holding, Holds
<1>4. Answered' /\ Owned' /\ Draining'
  BY <1>2 DEF Exit, Crash, Gone, IInv, Answered, Owned, Draining, Holds
<1> QED BY <1>1, <1>3, <1>4 DEF IInv

LEMMA StartStep ==
  ASSUME IInv, Start
  PROVE  IInv'
<1>1. PICK answered \in SUBSET {r \in Requests : jobs[r] = "parked"} :
        jobs' = [r \in Requests |-> IF r \in answered THEN "settled" ELSE jobs[r]]
  BY DEF Start
<1>2. TypeOK'
  BY <1>1 DEF Start, Undecided, DecisionType, IInv, TypeOK
<1>3. Mutex' /\ Holding' /\ Answered'
  BY DEF Start, IInv, Mutex, Holding, Answered, Holds, Up
<1>4. Owned'
  BY <1>1 DEF Start, IInv, TypeOK, Owned
<1>5. Draining'
  BY DEF Start, Draining
<1> QED BY <1>2, <1>3, <1>4, <1>5 DEF IInv

LEMMA Stutter ==
  ASSUME IInv, UNCHANGED vars
  PROVE  IInv'
  BY DEF vars, IInv, TypeOK, Mutex, Holding, Answered, Owned, Draining, Holds, Up

\* IInv is inductive: one case per action of Next.
LEMMA NextIInv ==
  ASSUME IInv, [Next]_vars
  PROVE  IInv'
<1>1. ASSUME NEW c \in Clients, NEW r \in Requests, NEW k \in Kinds, Send(c, r, k)
      PROVE  IInv'
  BY <1>1, SendStep
<1>2. ASSUME NEW c \in Clients, Handle(c)
      PROVE  IInv'
  BY <1>2, ReplayStep, RefuseStep, BeginStep, DispatchStep, CompleteStep DEF Handle
<1>3. ASSUME NEW r \in Requests, FinishJob(r)
      PROVE  IInv'
  BY <1>3, FinishJobStep
<1>4. ASSUME NEW id \in ShutdownIds, NEW wait \in BOOLEAN, RequestShutdown(id, wait)
      PROVE  IInv'
  BY <1>4, RequestShutdownStep
<1>5. ASSUME LeaveWhenSafe \/ CloseService \/ Exit \/ Interrupt \/ Crash \/ Start
      PROVE  IInv'
  BY <1>5, LeaveStep, InterruptStep, GoneStep, StartStep
<1> QED BY <1>1, <1>2, <1>3, <1>4, <1>5, Stutter DEF Next

\* IInv, and with it the shape of every variable, holds in every state.
THEOREM Invariance == Spec => []IInv
<1>1. Init => IInv
  BY InitIInv
<1>2. IInv /\ [Next]_vars => IInv'
  BY NextIInv
<1> QED BY <1>1, <1>2, PTL DEF Spec

\* Every variable keeps its shape (the rows, the handler threads, the drain).
THEOREM Typing == Spec => []TypeOK
<1>1. IInv => TypeOK
  BY DEF IInv
<1> QED BY <1>1, Invariance, PTL

\* No request id is dispatched twice: CommandService.execute is at most once.
THEOREM AtMostOnce == Spec => []DispatchedOnce
<1>1. IInv => DispatchedOnce
  BY DEF IInv, Answered, DispatchedOnce
<1> QED BY <1>1, Invariance, PTL

\* The clients of an id get one answer, unless a provider's error left its
\* row open.
THEOREM SingleAnswer == Spec => []OneAnswer
<1>1. IInv => OneAnswer
  <2> SUFFICES ASSUME IInv, NEW r \in Requests \ refused, NEW a \in answers[r], NEW b \in answers[r]
               PROVE  a = b
    BY DEF OneAnswer
  <2>1. commands[r].state \in {"none", "in_progress", "completed"}
    BY DEF IInv, TypeOK, CommandType, NoCommand, InProgress
  <2> QED BY <2>1 DEF IInv, Answered
<1> QED BY <1>1, Invariance, PTL

\* The Host that leaves by itself leaves nothing running, queued or parked.
THEOREM SafeExit == Spec => []ExitSafe
<1>1. IInv => ExitSafe
  BY DEF IInv, TypeOK, Owned, Draining, ExitSafe
<1> QED BY <1>1, Invariance, PTL

\* A draining Host adds no job and executes nothing that is not allowed then.
THEOREM DrainTakesNoWork == Spec => NoNewWork
<1> DEFINE Kept == mode = "draining" =>
      \A r \in Requests :
        /\ jobs[r] = "none" => jobs'[r] = "none"
        /\ dispatched'[r] # dispatched[r] => commands[r].kind = "read"
<1>1. IInv /\ [Next]_vars => Kept
  <2> SUFFICES ASSUME IInv, [Next]_vars, mode = "draining", NEW r \in Requests
               PROVE  /\ jobs[r] = "none" => jobs'[r] = "none"
                      /\ dispatched'[r] # dispatched[r] => commands[r].kind = "read"
    OBVIOUS
  <2>1. ASSUME NEW c \in Clients, Dispatch(c)
        PROVE  /\ jobs[r] = "none" => jobs'[r] = "none"
               /\ dispatched'[r] # dispatched[r] => commands[r].kind = "read"
    <3>1. Holds(c) /\ handler[c].pc = "dispatch"
      BY <2>1 DEF Dispatch, Holds
    <3>2. handler[c].request \in Requests /\ handler[c].kind = "read"
          /\ commands[handler[c].request] = InProgress("read")
      BY <3>1, Holder
    <3>4. InProgress("read").kind = "read"
      BY DEF InProgress
    <3>3. dispatched' = [dispatched EXCEPT ![handler[c].request] = @ + 1]
      BY <2>1 DEF Dispatch
    <3> QED BY <2>1, <3>1, <3>2, <3>3, <3>4, DispatchJobs DEF IInv, TypeOK
  <2>2. ASSUME NEW q \in Requests, FinishJob(q)
        PROVE  /\ jobs[r] = "none" => jobs'[r] = "none"
               /\ dispatched' = dispatched
    BY <2>2 DEF FinishJob, IInv, TypeOK, Owned
  <2>3. ASSUME Start
        PROVE  /\ jobs[r] = "none" => jobs'[r] = "none"
               /\ dispatched' = dispatched
    BY <2>3 DEF Start
  <2>4. ASSUME NEW c \in Clients,
               \/ Replay(c) \/ Refuse(c) \/ Begin(c) \/ Complete(c)
               \/ \E q \in Requests, k \in Kinds : Send(c, q, k)
        PROVE  UNCHANGED <<jobs, dispatched>>
    BY <2>4 DEF Replay, Refuse, Begin, Complete, Send
  <2>5. ASSUME \/ \E id \in ShutdownIds, wait \in BOOLEAN : RequestShutdown(id, wait)
               \/ LeaveWhenSafe \/ CloseService \/ Exit \/ Interrupt \/ Crash
               \/ UNCHANGED vars
        PROVE  UNCHANGED <<jobs, dispatched>>
    BY <2>5 DEF RequestShutdown, LeaveWhenSafe, CloseService, Exit, Interrupt, Crash, Gone, vars
  <2> QED BY <2>1, <2>2, <2>3, <2>4, <2>5 DEF Next, Handle
<1> QED BY <1>1, Invariance, PTL DEF Spec, NoNewWork
=============================================================================
