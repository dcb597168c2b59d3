---------------------------- MODULE RuntimeBridge ----------------------------
(***************************************************************************)
(* The runtime transport between the Host and the Player, and the Player's *)
(* bridge behind it: host/runtime_transport.py and the provider's reading  *)
(* of a reply on one side; LoopbackRuntimePlayerTransport,                 *)
(* RuntimeBridgeCore, MainThreadDispatcher and RuntimeRevisionClock on the *)
(* other.                                                                  *)
(*                                                                         *)
(* The Host has one request under way at a time; the Player serves one     *)
(* connection and takes the next request when it has answered the last.    *)
(* Its handlers run on the main thread: to their end when the bridge has a *)
(* synchronous handler, in turns when it has an asynchronous one, which a  *)
(* deadline may outrun.  A request is told by its number in "sent"; its id *)
(* is that number too, or that of an earlier request which it repeats.     *)
(* Authentication, framing and the form of a result are assumed right, the *)
(* session is the right one.                                               *)
(***************************************************************************)
EXTENDS Naturals, Sequences

CONSTANTS
    MaxSends,     \* bound: requests sent
    MaxTracked,   \* _limits.MaximumTrackedRequests
    MaxPending,   \* _maximumPending of the dispatcher
    MaxRevision,  \* bound: revisions a handler may publish
    MaxLosses     \* bound: connections the Player drops and restarts of the Host

ASSUME BridgeAssumption ==
    /\ MaxSends \in Nat /\ MaxTracked \in Nat \ {0} /\ MaxPending \in Nat \ {0}
    /\ MaxRevision \in Nat /\ MaxLosses \in Nat

VARIABLES
    \* the Host
    hostRev,      \* _expected_runtime_revision
    waiting,      \* the request whose reply invoke awaits, or 0
    latched,      \* _session_uncertain of the runtime update provider
    sent,         \* history: the requests, in order
    verdicts,     \* history: what each caller was told of "runtimeChanged"
    \* the connection: who believes in it, and the frames under way
    link, wire, back,
    losses,
    \* the Player
    async,        \* the bridge has an asynchronous handler
    serving,      \* HandleRequestAsync: the request and the task it waits for
    table,        \* _requests in _requestOrder, by the request that made the task
    queue,        \* the dispatcher's queue
    alive,        \* ~_stopping
    revision,     \* the clock's current revision
    published,    \* _publishedRevisions
    tasks,        \* the state of each request's task
    results,      \* and its result
    runs          \* its handler: running or not, the revision it saw, whether
                  \* it published a transition

hostVars   == <<hostRev, waiting, latched, sent, verdicts>>
linkVars   == <<link, wire, back>>
bridgeVars == <<serving, table>>
threadVars == <<queue, alive>>
clockVars  == <<revision, published>>
taskVars   == <<tasks, results, runs>>
vars == <<hostVars, linkVars, losses, async, bridgeVars, threadVars, clockVars,
          taskVars>>

Requests  == 1 .. MaxSends
Revisions == 0 .. MaxRevision
Changes   == {"yes", "no", "null"}       \* runtimeChanged

\* Of the error codes only the timeouts are told apart.
Result == [code : {"none", "completed", "timeout", "failed"},
           changed : Changes, after : Revisions]

Failed(c) == [code |-> "failed", changed |-> c, after |-> 0]
TimedOut  == [code |-> "timeout", changed |-> "no", after |-> 0]
NoResult  == [code |-> "none", changed |-> "null", after |-> 0]
NoRun    == [state |-> "none", before |-> 0, published |-> FALSE]
NoReply  == [of |-> 0, result |-> NoResult]
Reading  == [pc |-> "reading", request |-> 0, task |-> 0]

TypeOK ==
    /\ hostRev \in Revisions /\ waiting \in 0 .. MaxSends /\ latched \in BOOLEAN
    /\ sent \in Seq([id : Requests, op : {"change", "read"}, expected : Revisions])
    /\ Len(sent) <= MaxSends
    /\ verdicts \in [Requests -> Changes \cup {"none"}]
    /\ link \in {"both", "host", "player", "none"} /\ wire \in 0 .. MaxSends
    /\ back \in [of : 0 .. MaxSends, result : Result]
    /\ losses \in 0 .. MaxLosses /\ async \in BOOLEAN
    /\ serving \in [pc : {"reading", "admitting", "waiting"},
                    request : 0 .. MaxSends, task : 0 .. MaxSends]
    /\ table \in Seq(Requests) /\ Len(table) <= MaxTracked
    /\ queue \in Seq(Requests) /\ Len(queue) <= MaxPending
    /\ alive \in BOOLEAN
    /\ revision \in Revisions /\ published \subseteq Revisions
    /\ tasks \in [Requests -> {"none", "queued", "running", "done"}]
    /\ results \in [Requests -> Result]
    /\ runs \in [Requests -> [state : {"none", "running", "ended"},
                              before : Revisions, published : BOOLEAN]]

Init ==
    /\ hostRev = 0 /\ waiting = 0 /\ latched = FALSE
    /\ sent = <<>> /\ verdicts = [x \in Requests |-> "none"]
    /\ link = "none" /\ wire = 0 /\ back = NoReply
    /\ losses = 0 /\ async \in BOOLEAN
    /\ serving = Reading /\ table = <<>>
    /\ queue = <<>> /\ alive = TRUE
    /\ revision = 0 /\ published = {0}
    /\ tasks = [x \in Requests |-> "none"]
    /\ results = [x \in Requests |-> NoResult]
    /\ runs = [x \in Requests |-> NoRun]

\* Mutant: every revision passes for the current one.
AnyRevision(x) == sent[x].expected \in Revisions

\* CaptureIfCurrent of the revision clock, before a request is admitted and
\* again on the main thread.
IsCurrent(x) == sent[x].expected = revision

-----------------------------------------------------------------------------
(* The Host: runtime_transport.py, and _invoke of the update provider, which *)
(* sends the changes and alone moves the expected revision.                  *)

Loss == losses < MaxLosses /\ losses' = losses + 1

\* _discard_session: the Player may still be at work on the closed connection.
Discarded == IF link \in {"both", "player"} THEN "player" ELSE "none"

\* A "change" is a request of the update provider (one that only reads publishes
\* nothing), a "read" one of execute: it does not move the expected revision.
Send(id, op) ==
    sent' = Append(sent, [id |-> id, op |-> op, expected |-> hostRev])

KnownIds == {sent[x].id : x \in DOMAIN sent}

MaySend(op) ==
    /\ waiting = 0 /\ Len(sent) < MaxSends
    /\ op = "change" => ~latched

Invoke(id, op) ==
    LET x == Len(sent) + 1 IN
    /\ MaySend(op) /\ link = "both"
    /\ Send(id, op)
    /\ waiting' = x /\ wire' = x
    /\ UNCHANGED <<hostRev, latched, verdicts, link, back, losses, async,
                   bridgeVars, threadVars, clockVars, taskVars>>

\* What the caller is told ends the call; an unknown effect of a change latches
\* the provider.
Told(c) ==
    /\ verdicts' = [verdicts EXCEPT ![waiting] = c]
    /\ latched' = (latched \/ (c = "null" /\ sent[waiting].op = "change"))
    /\ waiting' = 0

\* The Host learns of a connection that the Player dropped only here: the frame
\* cannot be sent, or the reply never comes.
InvokeOnDeadLink(id, op) ==
    LET x == Len(sent) + 1 IN
    /\ MaySend(op) /\ link = "host"
    /\ Send(id, op)
    /\ \E c \in {"no", "null"} :
         /\ verdicts' = [verdicts EXCEPT ![x] = c]
         /\ latched' = (latched \/ (c = "null" /\ op = "change"))
    /\ link' = "none"
    /\ UNCHANGED <<hostRev, waiting, wire, back, losses, async, bridgeVars,
                   threadVars, clockVars, taskVars>>

\* Mutant: the connection is kept after a timeout.
GiveUpKeeps ==
    /\ waiting # 0
    /\ Told("null")
    /\ UNCHANGED <<hostRev, sent, linkVars, losses, async, bridgeVars,
                   threadVars, clockVars, taskVars>>

\* A timeout, the end of the connection or a reply to another id: STATE_UNKNOWN,
\* and never a replay.
GiveUp ==
    /\ waiting # 0
    /\ Told("null")
    /\ link' = Discarded /\ back' = NoReply
    /\ UNCHANGED <<hostRev, sent, wire, losses, async, bridgeVars, threadVars,
                   clockVars, taskVars>>

\* An error carries its attribution; one that is unknown retires the session.
ReadError ==
    /\ waiting # 0 /\ back.of # 0 /\ back.result.code # "completed"
    /\ sent[back.of].id = sent[waiting].id
    /\ Told(back.result.changed)
    /\ link' = IF back.result.changed = "null" THEN Discarded ELSE link
    /\ back' = NoReply
    /\ UNCHANGED <<hostRev, sent, wire, losses, async, bridgeVars, threadVars,
                   clockVars, taskVars>>

\* The provider compares attribution and revision before it believes a reply,
\* and then moves the expected revision; other callers take it as it is.
ReadResponse ==
    LET r == back.result
        agrees == (r.changed = "yes") = (r.after # hostRev)
    IN
    /\ waiting # 0 /\ back.of # 0 /\ r.code = "completed"
    /\ sent[back.of].id = sent[waiting].id
    /\ back' = NoReply
    /\ waiting' = 0
    /\ IF sent[waiting].op = "change" /\ ~agrees
       THEN verdicts' = [verdicts EXCEPT ![waiting] = "null"]
       ELSE verdicts' = [verdicts EXCEPT ![waiting] = r.changed]
    /\ hostRev' = IF sent[waiting].op = "change" /\ agrees THEN r.after
                  ELSE hostRev
    /\ UNCHANGED <<latched, sent, link, wire, losses, async, bridgeVars,
                   threadVars, clockVars, taskVars>>

\* A new Host begins with the configured revision and no memory; the job of the
\* request under way is the coordinator's to reconcile.
HostRestarts ==
    /\ Loss
    /\ verdicts' = [x \in Requests |->
                      IF x = waiting THEN "null" ELSE verdicts[x]]
    /\ hostRev' = 0 /\ waiting' = 0 /\ latched' = FALSE
    /\ link' = Discarded /\ back' = NoReply
    /\ UNCHANGED <<sent, wire, async, bridgeVars, threadVars, clockVars,
                   taskVars>>

HostStep ==
    \/ GiveUp \/ ReadError \/ ReadResponse \/ HostRestarts
    \/ \E id \in KnownIds \cup {Len(sent) + 1}, op \in {"change", "read"} :
         Invoke(id, op) \/ InvokeOnDeadLink(id, op)

-----------------------------------------------------------------------------
(* The Player's transport.                                                   *)

\* The handshake: the Host must name the Player's revision, and have no other
\* connection it believes in; otherwise the Player tries again.
Reconnect ==
    /\ link = "none" /\ serving = Reading /\ hostRev = revision
    /\ link' = "both"
    /\ UNCHANGED <<hostVars, wire, back, losses, async, bridgeVars, threadVars,
                   clockVars, taskVars>>

\* No frame came in time, or the socket failed.
PlayerDrops ==
    /\ Loss /\ link = "both" /\ serving = Reading
    /\ link' = "host" /\ wire' = 0
    /\ UNCHANGED <<hostVars, back, async, bridgeVars, threadVars, clockVars,
                   taskVars>>

\* The Host closed the connection: frames it sent before may be lost.
NoticeClose ==
    /\ link = "player" /\ serving = Reading
    /\ link' = "none" /\ wire' = 0
    /\ UNCHANGED <<hostVars, back, losses, async, bridgeVars, threadVars,
                   clockVars, taskVars>>

\* A reply that cannot be written ends the connection.
Replies(x, r) ==
    /\ serving' = Reading
    /\ IF link = "both"
       THEN back' = [of |-> x, result |-> r] /\ UNCHANGED link
       ELSE link' = "none" /\ UNCHANGED back

AnswerReady ==
    /\ serving.pc = "waiting" /\ tasks[serving.task] = "done"
    /\ Replies(serving.request, results[serving.task])
    /\ UNCHANGED <<hostVars, wire, losses, async, table, threadVars, clockVars,
                   taskVars>>

\* _options.RequestWaitTimeout.
AnswerTimesOut ==
    /\ serving.pc = "waiting" /\ tasks[serving.task] # "done"
    /\ Replies(serving.request, Failed("null"))
    /\ UNCHANGED <<hostVars, wire, losses, async, table, threadVars, clockVars,
                   taskVars>>

-----------------------------------------------------------------------------
(* ScheduleAuthenticated(Async) of the bridge.                               *)

Tracked(x) == {i \in DOMAIN table : sent[table[i]].id = sent[x].id}

\* TrimTrackedRequests: the oldest goes, once it is done.
Trimmed ==
    IF Len(table) >= MaxTracked /\ tasks[Head(table)] = "done" THEN Tail(table)
    ELSE table

\* Mutant: the capacity is not looked at.
AlwaysRoom == TRUE

HasRoom == Len(Trimmed) < MaxTracked

Arrives(x) ==
    /\ serving = Reading /\ wire = x /\ x # 0
    /\ wire' = 0
    /\ UNCHANGED <<hostVars, losses, async, threadVars, clockVars, runs>>

ReceiveStale(x) ==
    /\ Arrives(x) /\ ~IsCurrent(x)
    /\ Replies(x, Failed("no"))
    /\ UNCHANGED <<table, tasks, results>>

\* An exact repetition shares the task; another payload under the id does not.
ReceiveRepeated(x) ==
    /\ Arrives(x) /\ IsCurrent(x)
    /\ \E i \in Tracked(x) :
         IF sent[table[i]].op = sent[x].op
         THEN /\ serving' = [pc |-> "waiting", request |-> x, task |-> table[i]]
              /\ UNCHANGED <<link, back>>
         ELSE Replies(x, Failed("no"))
    /\ UNCHANGED <<table, tasks, results>>

IsNew(x) == IsCurrent(x) /\ Tracked(x) = {}

ReceiveTableFull(x) ==
    /\ Arrives(x) /\ IsNew(x) /\ ~HasRoom
    /\ Replies(x, Failed("no"))
    /\ UNCHANGED <<table, tasks, results>>

\* Schedule of the dispatcher answers at once; the answer is tracked as well.
ReceiveRefused(x) ==
    /\ Arrives(x) /\ IsNew(x) /\ HasRoom
    /\ ~alive \/ Len(queue) >= MaxPending
    /\ tasks' = [tasks EXCEPT ![x] = "done"]
    /\ results' = [results EXCEPT ![x] =
                     Failed(IF alive THEN "no" ELSE "null")]
    /\ table' = Append(Trimmed, x)
    /\ serving' = [pc |-> "waiting", request |-> x, task |-> x]
    /\ UNCHANGED <<link, back>>

\* The dispatcher may be destroyed between its test and the queue.
ReceiveAdmitted(x) ==
    /\ Arrives(x) /\ IsNew(x) /\ HasRoom
    /\ alive /\ Len(queue) < MaxPending
    /\ table' = Trimmed
    /\ serving' = [pc |-> "admitting", request |-> x, task |-> x]
    /\ UNCHANGED <<link, back, tasks, results>>

Admit ==
    /\ serving.pc = "admitting"
    /\ queue' = Append(queue, serving.request)
    /\ table' = Append(table, serving.request)
    /\ tasks' = [tasks EXCEPT ![serving.request] = "queued"]
    /\ serving' = [serving EXCEPT !.pc = "waiting"]
    /\ UNCHANGED <<hostVars, linkVars, losses, async, alive, clockVars, results,
                   runs>>

TransportStep ==
    \/ Reconnect \/ PlayerDrops \/ NoticeClose \/ AnswerReady \/ AnswerTimesOut
    \/ Admit
    \/ \E x \in Requests :
         \/ ReceiveStale(x) \/ ReceiveRepeated(x) \/ ReceiveTableFull(x)
         \/ ReceiveRefused(x) \/ ReceiveAdmitted(x)

-----------------------------------------------------------------------------
(* The main thread: the dispatcher, the adapter and the handlers.            *)

Completes(x, r) ==
    /\ tasks' = [tasks EXCEPT ![x] = "done"]
    /\ results' = [results EXCEPT ![x] = r]

ThreadLeaves == UNCHANGED <<hostVars, linkVars, losses, async, bridgeVars, alive>>

\* A synchronous handler keeps the thread until it returns.
MainFree == alive /\ (async \/ \A y \in Requests : runs[y].state # "running")

Dequeues(x) ==
    /\ MainFree /\ queue # <<>> /\ x = Head(queue)
    /\ queue' = Tail(queue)
    /\ UNCHANGED clockVars /\ ThreadLeaves

\* The deadline passed in the queue.
Expire(x) ==
    /\ Dequeues(x)
    /\ Completes(x, TimedOut)
    /\ UNCHANGED runs

StartStale(x) ==
    /\ Dequeues(x) /\ ~IsCurrent(x)
    /\ Completes(x, Failed("no"))
    /\ UNCHANGED runs

Start(x) ==
    /\ Dequeues(x) /\ IsCurrent(x)
    /\ tasks' = [tasks EXCEPT ![x] = "running"]
    /\ runs' = [runs EXCEPT ![x] = [state |-> "running", before |-> revision,
                                    published |-> FALSE]]
    /\ UNCHANGED results

\* Mutant: a revision may come back.
OtherRevisions == Revisions \ {revision}

\* Revisions that were never published; their names do not matter, the first will
\* do.
NewRevisions ==
    LET free == Revisions \ published
    IN  {r \in free : \A s \in free : r <= s}

\* PublishAuthorizedCompletedTransition for the revision the request named.
Publish(x) ==
    /\ runs[x].state = "running" /\ sent[x].op = "change" /\ IsCurrent(x)
    /\ \E r \in NewRevisions :
         revision' = r /\ published' = published \cup {r}
    /\ runs' = [runs EXCEPT ![x].published = TRUE]
    /\ UNCHANGED <<tasks, results, queue>> /\ ThreadLeaves

\* The adapter's judgement of what the handler did: by the revision it saw
\* before and the one it sees now.
Moved(x) == runs[x].before # revision

\* Mutant: the revision is compared only after a success.
JudgedByReport(x) ==
    {[code |-> "completed", changed |-> IF Moved(x) THEN "yes" ELSE "no",
      after |-> revision]} \cup {Failed(c) : c \in Changes}

\* A success may say itself that the effect is unknown; a failure may report
\* any change, or none, or be an exception.
Judged(x) ==
    {[code |-> "completed", changed |-> IF Moved(x) THEN "yes" ELSE "no",
      after |-> revision], Failed("null")}
    \cup {Failed(IF Moved(x) THEN "yes" ELSE "no")}

\* A handler that outran its deadline returns to nobody.
Return(x) ==
    /\ runs[x].state = "running"
    /\ runs' = [runs EXCEPT ![x].state = "ended"]
    /\ IF tasks[x] = "running"
       THEN \E r \in Judged(x) : Completes(x, r)
       ELSE UNCHANGED <<tasks, results>>
    /\ UNCHANGED <<queue, clockVars>> /\ ThreadLeaves

\* Mutant: asynchronous handlers have no deadline.
NeverOverrun(x) == FALSE

\* CompleteAsync: the deadline passed while the handler runs; it is not stopped.
Overrun(x) ==
    /\ async /\ tasks[x] = "running"
    /\ Completes(x, TimedOut)
    /\ UNCHANGED <<runs, queue, clockVars>> /\ ThreadLeaves

\* OnDestroy.
Destroy ==
    /\ MainFree
    /\ alive' = FALSE /\ queue' = <<>>
    /\ tasks' = [x \in Requests |->
                   IF tasks[x] = "queued" THEN "done" ELSE tasks[x]]
    /\ results' = [x \in Requests |->
                     IF tasks[x] = "queued" THEN Failed("null")
                     ELSE results[x]]
    /\ UNCHANGED <<hostVars, linkVars, losses, async, bridgeVars, clockVars, runs>>

Dequeue(x) == Expire(x) \/ StartStale(x) \/ Start(x)

ThreadStep ==
    \/ Destroy
    \/ \E x \in Requests :
         Dequeue(x) \/ Publish(x) \/ Return(x) \/ Overrun(x)

-----------------------------------------------------------------------------
Next == HostStep \/ TransportStep \/ ThreadStep

Spec == Init /\ [][Next]_vars

\* Frames come while the dispatcher lives, deadlines pass, and a synchronous
\* handler returns.  Nothing is asked of an asynchronous one.
FairSpec ==
    /\ Spec
    /\ WF_vars(\E x \in Requests : Dequeue(x))
    /\ WF_vars(\E x \in Requests : Overrun(x))
    /\ WF_vars(~async /\ \E x \in Requests : Return(x))

-----------------------------------------------------------------------------
(* Properties.                                                               *)

\* The request's handler was still at work when its deadline answered for it.
Outrun(x) == results[x].code = "timeout" /\ runs[x].state # "none"

\* A caller that is told "unchanged" was told the truth: the handler of its
\* request has published nothing and never will, in whatever order replies,
\* losses and timeouts came (the adapter's revisionBefore and revisionAfter, the
\* transports' runtimeChanged = null).  Deadlines that outrun a handler are left
\* out: CompleteAsync answers "false" for them.
HonestUnlessOutrun ==
    \A x \in Requests :
      verdicts[x] = "no" /\ ~Outrun(x) => /\ ~runs[x].published
                                          /\ runs[x].state # "running"

\* Two requests never change the runtime from the same revision: not a repeated
\* id whose first task was trimmed, not a handler that outlived its deadline or
\* its connection (RuntimeRevisionClock's compare and publish).
ChangesOncePerRevision ==
    \A x, y \in Requests :
      runs[x].published /\ runs[y].published /\ x # y =>
        sent[x].expected # sent[y].expected

\* The reply the Host reads is that of the request it waits for, although ids may
\* repeat and late replies exist: a connection is discarded with the request that
\* timed out on it (_discard_session).
ReplyIsAwaited == back.of # 0 /\ waiting # 0 => back.of = waiting

\* Some caller that named the revision x changed was told of a change.
Reported(x) ==
    \E z \in DOMAIN sent :
      verdicts[z] = "yes" /\ sent[z].expected = sent[x].expected

\* Nothing runs on top of a change the Host was not told of: when a handler
\* starts, every transition published before was reported as a change from the
\* revision it left, though replies are lost, deadlines outrun handlers and Hosts
\* restart (the expected revision that request and handshake carry, checked again
\* on the main thread).
LostChangeStopsTheSession ==
    [][\A y \in Requests :
         runs[y].state = "none" /\ runs'[y].state = "running" =>
           \A x \in Requests : runs[x].published => Reported(x)]_vars

\* A table of tracked requests that is full behind an unfinished one does not
\* stay so while the dispatcher lives, although handlers may never return
\* (TrimTrackedRequests stops at the oldest unfinished request; MainThreadTimeout
\* ends it).
Blocked == Len(table) >= MaxTracked /\ tasks[Head(table)] # "done"

TableUnblocks == Blocked ~> ~Blocked \/ ~alive
=============================================================================
