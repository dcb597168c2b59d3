----------------------- MODULE UpdateCoordinatorSafety -----------------------
(***************************************************************************)
(* What the update coordinator promises about the Player, proved for any   *)
(* number of jobs and any number of edits, crashes, losses and foreign     *)
(* transitions: one thread applies at a time, only an approved plan, only  *)
(* to the runtime it was prepared for and by one job only, a settled row   *)
(* tells the truth about what was executed, and the whole implements       *)
(* ApplyOnce.                                                              *)
(*                                                                         *)
(* Two arguments carry the rest.  The rows of queued jobs are the newest,  *)
(* so while main recovers a row that is past its queue the executor has    *)
(* nothing to run, and the two threads never work at the same time: the    *)
(* provider's state is the applying thread's own.  And what was executed   *)
(* for the job being applied can be read off the thread's step, the        *)
(* request in flight, the journal entry and the provider's revision, until *)
(* a reply is lost or refused; from there on the provider says it does not *)
(* know, or expects a revision that the next observation finds stale.      *)
(***************************************************************************)
EXTENDS UpdateCoordinatorProofs, UpdateCoordinatorRefinement, SequenceTheorems

Queued(j) == jobs[j].stage \in QueuedStages
Working(t) == thr[t].pc # "idle"
Applies(t, j) == thr[t].pc \in ApplySteps /\ thr[t].job = j
NoWorker == queue = <<>> /\ ~Working("worker")

-----------------------------------------------------------------------------
(* Who works when                                                          *)

\* Rows are entered in order, and the active rows still queued are the last.
InOrder ==
  /\ \A i, j \in Jobs : i < j /\ jobs[i].op = "none" => jobs[j].op = "none"
  /\ \A i, j \in Jobs : i < j /\ Active(i) /\ Active(j) /\ Queued(i) => Queued(j)

\* The executor's job, its queue and the rows to be recovered, in this order,
\* are those of ever newer jobs.
Lined ==
  /\ \A i, k \in 1..Len(queue) : i < k => queue[i] < queue[k]
  /\ \A i \in 1..Len(queue), j \in todo : queue[i] < j
  /\ Working("worker") =>
       /\ \A i \in 1..Len(queue) : thr["worker"].job < queue[i]
       /\ \A j \in todo : thr["worker"].job < j

\* A queued job that is not to be recovered is the executor's.
Waiting ==
  \A j \in Jobs : Active(j) /\ Queued(j) /\ host # "down" =>
    InQueue(j) \/ j \in todo \/ Runs("worker", j)

\* Main works only while it recovers, and then the executor does not.
Alone ==
  /\ host # "recovering" => todo = {} /\ ~Working("main")
  /\ Working("main") => NoWorker /\ ~Queued(thr["main"].job)
  /\ (\E j \in todo : ~Queued(j)) => NoWorker

Turns == InOrder /\ Lined /\ Waiting /\ Alone

-----------------------------------------------------------------------------
(* What the Player was asked, and what it did                              *)

Binding(j) == plans[PlanOf(j)].binding
Route(j) == plans[PlanOf(j)].route
Ops(j) == Operations(Route(j))
InFlight(j) == wire.job = j /\ wire.reply = "pending"
Nothing(j) == executed[j] = <<>>

\* The first n operations of the job's plan were executed, and nothing else.
Done(j, n) ==
  /\ Len(executed[j]) = n
  /\ \A i \in 1..n : executed[j][i] = Ops(j)[i]

\* Before its dispatch a job has no part in the Player.
Untouched(j) ==
  applies[j] = 0 =>
    /\ Nothing(j) /\ base[j] = NoState /\ wire.job # j
    /\ jobs[j].entry = "none" /\ ~jobs[j].acked

\* What was dispatched has a plan that needs no approval any more.
Ready(p) == HasPlan(p) /\ plans[p].approval # "required"
Approved(j) == applies[j] = 1 => Ready(PlanOf(j))

\* A job dispatched and not settled is being applied, or a crash cut it short.
CutShort(j) ==
  Active(j) /\ jobs[j].stage \in RuntimeStages =>
    j \in interrupted \/ \E t \in Threads : Applies(t, j)

\* Only a composite stage is journaled.
Staged(j) == jobs[j].stage = "runtime_stage" => Route(j) = "composite"

\* Since the dispatch only transitions to new revisions changed the runtime
\* that the plan was prepared for.
Since(j) ==
  /\ player.rev >= Binding(j).rev
  /\ player.rev = Binding(j).rev => player.gen = Binding(j).gen
Targeted(j) ==
  /\ applies[j] = 1 => Since(j)
  /\ wire.job = j /\ Nothing(j) => wire.rev = Binding(j).rev
  /\ Nothing(j) <=> base[j] = NoState
  /\ base[j] # NoState => /\ base[j] = [rev |-> Binding(j).rev,
                                        gen |-> Binding(j).gen]
                          /\ player.rev > Binding(j).rev

\* A settled row says what was executed, and nothing is executed afterwards
\* that it does not allow for.
Honest(j) ==
  j \notin interrupted /\ Terminal(j) =>
    /\ jobs[j].changed # "unknown" => ~InFlight(j)
    /\ jobs[j].changed = "no" => Nothing(j)
    /\ jobs[j].changed = "yes" /\ applies[j] = 1 => ~Nothing(j)
    /\ jobs[j].changed = "yes"
       /\ jobs[j].stage \in {"runtime_reconciled", "runtime_failed"} => applies[j] = 1

\* A recorded apply was a whole one.
Recorded(j) ==
  j \in facts \/ (jobs[j].state = "completed" /\ jobs[j].stage = "runtime_reconciled")
Whole(j) ==
  Recorded(j) => applies[j] = 1 /\ ~InFlight(j) /\ Done(j, Len(Ops(j)))

\* The journal and the revision the provider expects at the n-th stage.
Progress(j, n) ==
  /\ prov.rev >= Binding(j).rev
  /\ n > 1 <=> prov.rev > Binding(j).rev
  /\ n > 1 => prov.started
  /\ IF Route(j) = "composite" THEN jobs[j].acked <=> n > 1
                               ELSE jobs[j].entry = "none" /\ ~jobs[j].acked

\* The revision the provider expects tells whether anything was executed.
Told(j) == Nothing(j) <=> prov.rev = Binding(j).rev

\* The Player is past the revision the provider expects, as the next
\* observation finds out.
Behind == player.rev > prov.rev

Sending(j, n) == wire.job # j /\ Done(j, n - 1) /\ Progress(j, n)
Awaiting(j, n) ==
  /\ wire.job = j /\ wire.op = Ops(j)[n] /\ wire.rev = prov.rev /\ Progress(j, n)
  /\ wire.reply \in {"pending", "rejected"} => Done(j, n - 1)
  /\ wire.reply = "completed" => Done(j, n)
  /\ wire.reply = "failed_with_transition" => ~Nothing(j)
  /\ wire.reply \in {"completed", "failed_with_transition"} => Behind
Verifying(j) ==
  /\ wire.job # j /\ Done(j, Len(Ops(j))) /\ prov.started
  /\ jobs[j].entry \in {"none", "acknowledged"}
Reconciling(j) ==
  \/ Behind
  \/ /\ jobs[j].entry \in {"rejected", "failed_with_transition"} =>
          /\ ~InFlight(j) /\ Told(j)
          /\ Nothing(j) <=> jobs[j].entry = "rejected" /\ ~jobs[j].acked
     /\ jobs[j].entry = "none" /\ ~prov.started => ~InFlight(j) /\ Nothing(j)
Concluding(j, out) ==
  \/ Behind /\ out.status # "completed"
  \/ /\ out.changed # "unknown" => ~InFlight(j)
     /\ out.changed = "no" => Nothing(j)
     /\ out.changed = "yes" => ~Nothing(j)
     /\ out.matched = "no" => out.changed # "unknown" /\ Told(j)
     /\ out.matched = "yes" => out.status = "completed"
     /\ out.status = "completed" => out.changed = "yes" /\ Done(j, Len(Ops(j)))

\* What a thread at step pc of job j, at its n-th stage, has learnt from it.
Learnt(j, pc, n, out) ==
  /\ pc \in ApplySteps \cup {"preflight"} => Ready(PlanOf(j))
  /\ pc \in ApplySteps => Since(j) /\ (pc # "apply" => applies[j] = 1)
  /\ pc = "apply" => prov.rev = Binding(j).rev
  /\ pc = "send" => Sending(j, n)
  /\ pc = "await" => Awaiting(j, n)
  /\ pc = "verify" => Verifying(j)
  /\ pc = "reconcile" => Reconciling(j)
  /\ pc \in {"after", "facts", "close"} => Concluding(j, out)
  /\ pc \in {"facts", "close"} => out.status = "completed"
  /\ pc = "reconcile_job" => j \in interrupted
Applying(t) == Learnt(thr[t].job, thr[t].pc, thr[t].step, thr[t].out)

JobTrue(j) == /\ Untouched(j) /\ Approved(j) /\ CutShort(j) /\ Staged(j)
              /\ Targeted(j) /\ Honest(j) /\ Whole(j)

Attribution ==
  /\ player.rev >= 0
  /\ \A j \in Jobs : JobTrue(j)
  /\ \A t \in Threads : Applying(t)

IInv == Inv /\ Turns /\ Attribution

-----------------------------------------------------------------------------
(* What a thread's step before the dispatch, or in a recovery, does        *)

\* The thread's row keeps its journal, and the provider its expectation.
KeepsJournal(j) ==
  jobs'[j].entry = jobs[j].entry /\ jobs'[j].acked = jobs[j].acked
KeepsTarget ==
  prov'.rev = prov.rev /\ prov'.gen = prov.gen /\ prov'.started = prov.started

Outside == <<player, wire, executed, base, interrupted>>

\* Preparation goes on, stops short of the dispatch, or dispatches.
Prepares(t) == LET j == thr[t].job
                   r == jobs'[j]
                   next == thr'[t].pc IN
  /\ next \in PrepareSteps \cup {"apply", "idle"}
  /\ next \in PrepareSteps => r.stage = jobs[j].stage \/ r.stage \in PrepareStages
  /\ next = "apply" => r.stage = "runtime_apply"
  /\ next = "idle" =>
       /\ r.stage \in {"prepare_editor_wait", "error", "prepared", "approval_required"}
       /\ r.state # "none"

\* A reconciled row never says completed.
Reconciles(t) == LET r == jobs'[thr[t].job] IN
  /\ thr'[t].pc = "idle" /\ r.state # "none"
  /\ r.stage = "error" \/ (r.stage = "runtime_reconciled" /\ r.state # "completed")

LEMMA RowKeeps ==
  ASSUME TypeOK, NEW j \in Jobs, NEW state, NEW stage, NEW changed
  PROVE  LET r == Row(j, state, stage, changed)
             Same3(s) == /\ s.entry = jobs[j].entry /\ s.acked = jobs[j].acked
                         /\ s.stage = stage /\ s.state = state
                         /\ s.changed = changed IN
           /\ Same3(r)
           /\ \A b : Same3([r EXCEPT !.binding = b])
           /\ Same3([r EXCEPT !.envelope = TRUE])
           /\ Same3([r EXCEPT !.saved = TRUE])
<1>1. jobs[j] \in RowType
  BY DEF TypeOK
<1> QED
  BY <1>1 DEF Row, RowType

LEMMA Left ==
  ASSUME TypeOK, NEW t \in Threads, thr[t].job \in Jobs, NEW r, Leave(t, r)
  PROVE  thr'[t].pc = "idle" /\ jobs'[thr[t].job] = r
BY DEF Leave, TypeOK, Idle

LEMMA Saved ==
  ASSUME TypeOK, NEW t \in Threads, thr[t].job \in Jobs, NEW r, NEW pc,
         Save(t, r, pc)
  PROVE  thr'[t].pc = pc /\ jobs'[thr[t].job] = r
BY GoneTo DEF Save, TypeOK

LEMMA Observes ==
  ASSUME TypeOK, NEW r, Observe(r)
  PROVE  KeepsTarget /\ (r = "ok" => Observed = "ok" /\ ~Behind)
<1>1. prov \in ProvType /\ player \in PlayerType
  BY DEF TypeOK
<1>2. KeepsTarget /\ (r = "ok" => Observed = "ok")
  BY <1>1 DEF Observe, KeepsTarget, Retired, ProvType
<1>3. Observed = "ok" => prov.rev = player.rev
  BY DEF Observed, Reachable
<1>4. Behind => prov.rev # player.rev
  BY <1>1 DEF ProvType, PlayerType, Behind
<1> QED
  BY <1>2, <1>3, <1>4

LEMMA PreparesEffect ==
  ASSUME Inv, NEW t \in Threads,
         \/ PreparePlan(t) \/ SaveEnvelope(t) \/ SubmitCompile(t) \/ SaveTicket(t)
         \/ CompileResult(t) \/ DeferEditorTimeout(t) \/ FinalizePlan(t)
         \/ CreatePlan(t) \/ BindPlan(t) \/ StartApply(t) \/ RecoverPrepare(t)
  PROVE  /\ KeepsJournal(thr[t].job) /\ KeepsTarget /\ UNCHANGED Outside
         /\ UNCHANGED <<applies, facts>> /\ Prepares(t)
<1> DEFINE j == thr[t].job
           Row3(r) == r.entry = jobs[j].entry /\ r.acked = jobs[j].acked
           Stops(r) == /\ Row3(r) /\ r.state # "none"
                       /\ r.stage \in {"prepare_editor_wait", "error", "prepared",
                                       "approval_required"}
           Goes(r) == /\ Row3(r)
                      /\ r.stage = jobs[j].stage \/ r.stage \in PrepareStages
           Goal == KeepsJournal(j) /\ Prepares(t)
<1>1. TypeOK /\ j \in Jobs /\ jobs[j] \in RowType /\ PrepareSteps \cap {"apply", "idle"} = {}
  <2>1. TypeOK /\ j \in Jobs
    BY OwnedJob DEF Inv, PreparePlan, SaveEnvelope, SubmitCompile, SaveTicket,
       CompileResult, DeferEditorTimeout, FinalizePlan, CreatePlan, BindPlan,
       StartApply, RecoverPrepare
  <2> QED
    BY <2>1 DEF TypeOK, PrepareSteps
<1>2. ASSUME NEW r, Leave(t, r), Stops(r) PROVE Goal
  BY <1>1, <1>2, Left DEF KeepsJournal, Prepares
<1>3. ASSUME NEW r, NEW pc \in PrepareSteps, Save(t, r, pc), Goes(r) PROVE Goal
  BY <1>1, <1>3, Saved DEF KeepsJournal, Prepares
<1>4. ASSUME NEW pc \in PrepareSteps, Goto(t, pc), UNCHANGED jobs PROVE Goal
  BY <1>1, <1>4, GoneTo DEF KeepsJournal, Prepares
<1>5. /\ \A r : Stops(ErrorRow(j, r))
      /\ Stops(FailedRow(j)) /\ Stops(UnknownRow(j))
      /\ \A c \in Changes : Stops(Row(j, "state_unknown", "error", c))
      /\ \A c \in Changes : Stops(Row(j, "running", "prepare_editor_wait", c))
      /\ Stops(Row(j, "completed", "prepared", "no"))
  BY <1>1, RowKeeps DEF ErrorRow, ErrorState, FailedRow, UnknownRow
<1>6. \A s \in PrepareStages : LET r == Row(j, "running", s, "no") IN
        /\ Goes(r) /\ Goes([r EXCEPT !.envelope = TRUE])
        /\ Goes([r EXCEPT !.saved = TRUE]) /\ \A b : Goes([r EXCEPT !.binding = b])
  BY <1>1, RowKeeps
<1>7. /\ {"prepare_running", "prepare_editor_dispatching", "prepare_editor_wait",
          "prepare_candidate_ready", "prepare_plan_creating"} \subseteq PrepareStages
      /\ {"envelope", "submit", "submitted", "wait", "finalize", "create", "bind",
          "preflight"} \subseteq PrepareSteps
      /\ {"yes", "no"} \subseteq Changes
  BY DEF PrepareStages, PrepareSteps, Changes
<1>8. LET bound == [jobs[j] EXCEPT !.plan = PlanOf(j)] IN
        /\ Goes(bound)
        /\ Stops([bound EXCEPT !.state = "completed", !.changed = "no",
                               !.stage = "approval_required"])
  BY <1>1 DEF RowType
<1> HIDE DEF Goal, Stops, Goes
<1>9. Goal
  <2>1. CASE PreparePlan(t)
    BY <1>2, <1>3, <1>5, <1>6, <1>7, <2>1 DEF PreparePlan
  <2>2. CASE SaveEnvelope(t) \/ SubmitCompile(t) \/ SaveTicket(t)
    BY <1>2, <1>3, <1>4, <1>5, <1>6, <1>7, <2>2
       DEF SaveEnvelope, SubmitCompile, SaveTicket
  <2>3. CASE CompileResult(t) \/ DeferEditorTimeout(t) \/ FinalizePlan(t)
    BY <1>2, <1>3, <1>5, <1>6, <1>7, <2>3
       DEF CompileResult, DeferEditorTimeout, FinalizePlan
  <2>4. CASE CreatePlan(t) \/ BindPlan(t)
    BY <1>2, <1>3, <1>4, <1>5, <1>7, <1>8, <2>4 DEF CreatePlan, BindPlan
  <2>5. CASE StartApply(t)
    <3>1. CASE Save(t, Row(j, "running", "runtime_apply", "unknown"), "apply")
      BY <1>1, <3>1, Saved, RowKeeps DEF Goal, KeepsJournal, Prepares
    <3> QED
      BY <1>2, <1>5, <2>5, <3>1 DEF StartApply
  <2>6. CASE RecoverPrepare(t)
    <3>1. \A r : Stops(IF task = jobs[j].binding.task THEN ErrorRow(j, r)
                                                  ELSE FailedRow(j))
      BY <1>5
    <3>2. Stops(CASE editor[j] = "none" -> Row(j, "state_unknown", "error", "no")
                  [] editor[j] = "requested" -> UnknownRow(j)
                  [] editor[j] \in {"done", "failed"} -> FailedRow(j))
      <4>1. editor[j] \in {"none", "requested", "done", "failed"}
        BY <1>1 DEF TypeOK
      <4> QED
        BY <1>5, <1>7, <4>1
    <3>3. \/ \E r : Leave(t, r) /\ Stops(r)
          \/ Goto(t, "finalize") /\ UNCHANGED jobs
          \/ Save(t, [Row(j, "running", "prepare_candidate_ready", "no")
                        EXCEPT !.saved = TRUE], "finalize")
      BY <1>5, <2>6, <3>1, <3>2 DEF RecoverPrepare
    <3> QED
      BY <1>2, <1>3, <1>4, <1>6, <1>7, <3>3
  <2> QED
    BY <2>1, <2>2, <2>3, <2>4, <2>5, <2>6
<1>10. KeepsTarget
  <2>1. UNCHANGED prov \/ \E r : Observe(r)
    BY DEF PreparePlan, SaveEnvelope, SubmitCompile, SaveTicket,
       CompileResult, DeferEditorTimeout, FinalizePlan, CreatePlan, BindPlan,
       StartApply, RecoverPrepare
  <2> QED
    BY <1>1, <2>1, Observes DEF KeepsTarget
<1>11. UNCHANGED Outside /\ UNCHANGED <<applies, facts>>
  BY DEF PreparePlan, SaveEnvelope, SubmitCompile, SaveTicket,
     CompileResult, DeferEditorTimeout, FinalizePlan, CreatePlan, BindPlan,
     StartApply, RecoverPrepare, Outside, world, history
<1> QED
  BY <1>9, <1>10, <1>11 DEF Goal

LEMMA ReconcilesEffect ==
  ASSUME Inv, NEW t \in Threads, RecoverApply(t)
  PROVE  /\ KeepsJournal(thr[t].job) /\ KeepsTarget /\ UNCHANGED Outside
         /\ UNCHANGED <<applies, facts, plans>> /\ Reconciles(t)
<1> DEFINE j == thr[t].job
           out == ReconcileOutcome(j)
           Stops(r) == /\ r.entry = jobs[j].entry /\ r.acked = jobs[j].acked
                       /\ r.state # "none"
                       /\ \/ r.stage = "error"
                          \/ r.stage = "runtime_reconciled" /\ r.state # "completed"
<1>1. TypeOK /\ j \in Jobs
  BY OwnedJob DEF Inv, RecoverApply
<1>2. out.status # "completed" /\ out.status # "none"
  BY DEF ReconcileOutcome, FailedOutcome, Unknown
<1> HIDE DEF out
<1>3. /\ \A r : Stops(ErrorRow(j, r))
      /\ Stops(FailedRow(j)) /\ Stops(UnknownRow(j))
      /\ Stops(Row(j, out.status, "runtime_reconciled", out.changed))
  BY <1>1, <1>2, RowKeeps DEF ErrorRow, ErrorState, FailedRow, UnknownRow
<1>4. \E r \in Results : Observe(r)
      /\ (Leave(t, Row(j, out.status, "runtime_reconciled", out.changed))
          \/ Leave(t, FailedRow(j)) \/ Leave(t, UnknownRow(j))
          \/ Leave(t, ErrorRow(j, r)))
  BY DEF RecoverApply, out
<1> HIDE DEF Stops
<1>5. \E r : Leave(t, r) /\ Stops(r)
  BY <1>3, <1>4
<1>6. KeepsJournal(j) /\ Reconciles(t)
  BY <1>1, <1>5, Left DEF KeepsJournal, Reconciles, Stops
<1> QED
  BY <1>1, <1>4, <1>6, Observes DEF RecoverApply, Outside, world, history

-----------------------------------------------------------------------------
(* The threads take turns                                                  *)

\* A queued row stays so only with its thread.
StaysQueued(t) == LET j == thr[t].job IN
  jobs'[j].stage \in QueuedStages =>
    Settles(jobs'[j]) \/ (Queued(j) /\ thr'[t].pc # "idle")

LEMMA StagesApart ==
  /\ \A s \in QueuedStages : s \notin PrepareStages \cup RuntimeStages \cup FinalStages
  /\ \A s \in RuntimeStages : s \notin QueuedStages \cup PrepareStages \cup FinalStages
BY DEF QueuedStages, PrepareStages, RuntimeStages, FinalStages

LEMMA QueuedKept ==
  ASSUME Inv, NEW t \in Threads, RunJob(t) \/ RecoverApply(t) \/ RecoverPrepare(t)
  PROVE  StaysQueued(t)
<1> DEFINE j == thr[t].job
<1>1. CASE \/ PreparePlan(t) \/ SaveEnvelope(t) \/ SubmitCompile(t) \/ SaveTicket(t)
           \/ CompileResult(t) \/ DeferEditorTimeout(t) \/ FinalizePlan(t)
           \/ CreatePlan(t) \/ BindPlan(t) \/ StartApply(t) \/ RecoverPrepare(t)
  <2>1. Prepares(t)
    BY <1>1, PreparesEffect
  <2>2. /\ "idle" \notin PrepareSteps \cup {"apply"}
        /\ {"prepare_editor_wait", "error", "prepared", "approval_required",
            "runtime_apply"} \cap QueuedStages = {}
    BY DEF PrepareSteps, QueuedStages
  <2> QED
    BY <2>1, <2>2, StagesApart DEF Prepares, StaysQueued, Queued
<1>2. CASE RecoverApply(t)
  <2>1. jobs'[j].stage \in {"error", "runtime_reconciled"}
    BY <1>2, ReconcilesEffect DEF Reconciles
  <2> QED
    BY <2>1 DEF StaysQueued, QueuedStages
<1>3. CASE \/ ApplyPrelude(t) \/ SendStage(t) \/ ReceiveReply(t) \/ LoseReply(t)
           \/ VerifyApplied(t) \/ ReconcileApply(t) \/ ObserveAfter(t)
           \/ RecordFacts(t) \/ CloseApply(t)
  <2>1. thr[t].pc \in ApplySteps
    BY <1>3 DEF ApplyPrelude, SendStage, ReceiveReply, LoseReply, VerifyApplied,
       ReconcileApply, ObserveAfter, RecordFacts, CloseApply, Awaited, At, ApplySteps
  <2>2. jobs[j].stage \in RuntimeStages
    BY <2>1 DEF Inv, SafetyInv, Applied
  <2>3. Advance(t)
    BY ThreadsAdvance
  <2>4. jobs'[j].stage \in RuntimeStages \/ Settles(jobs'[j])
    BY <2>1, <2>2, <2>3
       DEF Advance, Releases, Continues, PrepareSteps, ApplySteps
  <2> QED
    BY <2>4, StagesApart DEF StaysQueued
<1> QED
  BY <1>1, <1>2, <1>3 DEF RunJob

LEMMA Places ==
  ASSUME Inv, NEW t \in Threads, Working(t)
  PROVE  /\ thr[t].job \in Jobs /\ Active(thr[t].job)
         /\ \A u \in Threads \ {t} : ~Runs(u, thr[t].job)
         /\ thr[t].job \notin todo /\ ~InQueue(thr[t].job)
<1>1. thr[t].job \in Jobs /\ Runs(t, thr[t].job)
  BY DEF Inv, TypeInv, OperationsExist, Working, Runs
<1> QED
  BY <1>1 DEF Inv, SafetyInv, Owned, Working, InQueue

LEMMA ActiveEntered ==
  ASSUME Inv, NEW j \in Jobs, Active(j)
  PROVE  jobs[j].op # "none"
BY DEF Inv, SafetyInv, Entered, Active, NoRow

\* A step that leaves the queue, the list and the Host as they are, and
\* no queued row with a thread that was not there before.
LEMMA AdvanceTurns ==
  ASSUME Inv, Turns, NEW t \in Threads, Advance(t), StaysQueued(t)
  PROVE  Turns'
<1> DEFINE j == thr[t].job
<1>0. TypeOK
  BY DEF Inv, TypeInv
<1>1. /\ j \in Jobs /\ Working(t) /\ UNCHANGED <<queue, todo, host>>
      /\ \A u \in Threads \ {t} : thr'[u] = thr[u]
      /\ \A i \in Jobs \ {j} : jobs'[i] = jobs[i]
      /\ \A i \in Jobs : jobs'[i].op = jobs[i].op
      /\ thr'[t].pc = "idle" \/ thr'[t].job = j
  BY DEF Advance, Working, control, Same, Releases, Continues
<1>2. Active(j) /\ j \notin todo /\ ~InQueue(j)
      /\ \A u \in Threads \ {t} : ~Runs(u, j)
  BY <1>1, Places
<1>3. \A i \in Jobs : /\ Active(i)' => Active(i)
                      /\ Active(i)' /\ Queued(i)' => Queued(i)
  BY <1>1, <1>2 DEF StaysQueued, Active, Settles, Queued
<1>4. InOrder'
  <2>1. ASSUME NEW a \in Jobs, NEW b \in Jobs, a < b, Active(a)', Active(b)', Queued(a)'
        PROVE  Queued(b)'
    <3>1. Active(a) /\ Active(b) /\ Queued(a) /\ Queued(b)
      BY <1>3, <2>1 DEF Turns, InOrder
    <3>2. CASE b # j
      BY <1>1, <3>1, <3>2 DEF Queued
    <3>3. CASE b = j
      <4>1. InQueue(a) \/ a \in todo \/ Runs("worker", a)
        BY <1>1, <3>1 DEF Turns, Waiting, Advance
      <4>2. t = "worker"
        BY <1>1, <3>1, <3>3 DEF Turns, Alone, Threads
      <4>3. InQueue(a) => j < a
        BY <1>0, <1>1, <4>2 DEF InQueue, Turns, Lined
      <4>4. a \in todo => j < a
        BY <1>1, <4>2 DEF Turns, Lined
      <4>5. Runs("worker", a) => a = j
        BY <4>2 DEF Runs
      <4> QED
        BY <2>1, <3>3, <4>1, <4>3, <4>4, <4>5 DEF Jobs
    <3> QED
      BY <3>2, <3>3
  <2> QED
    BY <1>1, <2>1 DEF Turns, InOrder
<1>5. Lined'
  <2>1. Working("worker")' => Working("worker") /\ thr'["worker"].job = thr["worker"].job
    BY <1>1 DEF Working, Threads
  <2> QED
    BY <1>1, <2>1 DEF Turns, Lined
<1>6. Waiting'
  <2>1. ASSUME NEW a \in Jobs, Active(a)', Queued(a)', host' # "down"
        PROVE  InQueue(a)' \/ a \in todo' \/ Runs("worker", a)'
    <3>1. InQueue(a) \/ a \in todo \/ Runs("worker", a)
      BY <1>1, <1>3, <2>1 DEF Turns, Waiting
    <3>2. CASE t = "worker" /\ a = j
      <4>1. thr'[t].pc # "idle"
        BY <2>1, <3>2 DEF StaysQueued, Queued, Active, Settles
      <4> QED
        BY <1>1, <3>2, <4>1 DEF Runs
    <3>3. CASE t = "worker" /\ a # j
      BY <1>1, <3>1, <3>3 DEF Runs, InQueue
    <3>4. CASE t # "worker"
      BY <1>1, <3>1, <3>4 DEF Runs, InQueue, Threads
    <3> QED
      BY <3>2, <3>3, <3>4
  <2> QED
    BY <2>1 DEF Waiting
<1>7. Alone'
  <2>1. Working("main")' => Working("main")
    BY <1>1 DEF Working, Threads
  <2>2. CASE t = "main"
    <3>1. NoWorker /\ NoWorker' /\ ~Queued(j)
      BY <1>1, <2>2 DEF Turns, Alone, NoWorker, Working, Threads
    <3>2. thr'["main"].pc # "idle" => thr'["main"].job = j /\ ~Queued(j)'
      BY <1>1, <1>2, <2>2, <3>1
         DEF StaysQueued, Queued, Advance, Releases, Continues, Settles
    <3> QED
      BY <1>1, <2>1, <2>2, <3>1, <3>2 DEF Turns, Alone, Working, Queued
  <2>3. CASE t = "worker"
    <3>1. ~NoWorker
      BY <1>1, <2>3 DEF NoWorker
    <3>2. ~Working("main") /\ \A i \in todo : Queued(i)
      BY <3>1 DEF Turns, Alone
    <3>3. \A i \in todo : Queued(i)'
      BY <1>0, <1>1, <1>2, <3>2 DEF Queued, TypeOK
    <3> QED
      BY <1>1, <2>1, <3>2, <3>3 DEF Turns, Alone
  <2> QED
    BY <2>2, <2>3 DEF Threads
<1> QED
  BY <1>4, <1>5, <1>6, <1>7 DEF Turns

LEMMA TakeJobTurns ==
  ASSUME Inv, Turns, TakeJob
  PROVE  Turns'
<1> DEFINE h == queue[1]
           rest == Tail(queue)
<1>0. TypeOK /\ queue \in Seq(Jobs) /\ queue # <<>>
  BY DEF Inv, TypeInv, TypeOK, TakeJob
<1>1. /\ h \in Jobs /\ rest \in Seq(Jobs) /\ Len(rest) = Len(queue) - 1
      /\ \A i \in 1..Len(rest) : i + 1 \in 1..Len(queue) /\ rest[i] = queue[i + 1]
      /\ 1 \in 1..Len(queue)
  BY <1>0
<1>2. /\ UNCHANGED <<jobs, todo, host>> /\ queue' = rest
      /\ thr'["worker"].job = h /\ thr'["worker"].pc # "idle"
      /\ thr'["main"] = thr["main"]
  BY <1>0 DEF TakeJob, TypeOK, Threads, Idle, history, Working
<1>3. ~NoWorker /\ ~Working("main") /\ \A i \in todo : Queued(i)
  BY <1>0 DEF NoWorker, Turns, Alone
<1>4. InOrder'
  BY <1>2 DEF Turns, InOrder, Active, Queued
<1>5. Lined'
  <2>1. \A i, k \in 1..Len(rest) : i < k => rest[i] < rest[k]
    BY <1>1 DEF Turns, Lined
  <2>2. \A i \in 1..Len(rest), j \in todo : rest[i] < j
    BY <1>1 DEF Turns, Lined
  <2>3. \A i \in 1..Len(rest) : h < rest[i]
    BY <1>1 DEF Turns, Lined
  <2>4. \A j \in todo : h < j
    BY <1>1 DEF Turns, Lined
  <2> HIDE DEF rest, h
  <2> QED
    BY <1>2, <2>1, <2>2, <2>3, <2>4 DEF Lined
<1>6. Waiting'
  <2>1. ASSUME NEW a \in Jobs, Active(a), Queued(a), host # "down"
        PROVE  InQueue(a)' \/ a \in todo \/ Runs("worker", a)'
    <3>1. InQueue(a) \/ a \in todo
      BY <2>1 DEF Turns, Waiting, Runs, TakeJob
    <3>2. ASSUME NEW i \in 1..Len(queue), queue[i] = a
          PROVE  InQueue(a)' \/ Runs("worker", a)'
      <4>1. CASE i = 1
        BY <1>2, <3>2, <4>1 DEF Runs
      <4>2. CASE i # 1
        <5>1. i - 1 \in 1..Len(rest) /\ rest[i - 1] = a
          BY <1>0, <1>1, <3>2, <4>2
        <5> QED
          BY <1>2, <5>1 DEF InQueue
      <4> QED
        BY <4>1, <4>2
    <3> QED
      BY <3>1, <3>2 DEF InQueue
  <2> QED
    BY <1>2, <2>1 DEF Waiting, Active, Queued
<1>7. Alone'
  BY <1>2, <1>3 DEF Turns, Alone, Working, Queued
<1> QED
  BY <1>4, <1>5, <1>6, <1>7 DEF Turns

\* What is said of a queue after one more entry.
LEMMA Appended ==
  ASSUME NEW q \in Seq(Jobs), NEW j \in Jobs
  PROVE  /\ Len(Append(q, j)) = Len(q) + 1
         /\ \A i \in 1..Len(q) : Append(q, j)[i] = q[i]
         /\ Append(q, j)[Len(q) + 1] = j
         /\ \A i \in 1..(Len(q) + 1) : i \in 1..Len(q) \/ i = Len(q) + 1
OBVIOUS

LEMMA EnqueueTurns ==
  ASSUME Inv, Turns, NEW j \in Jobs, NEW op \in {"prepare", "iterate"}, NEW p,
         Enqueue(j, op, p)
  PROVE  Turns'
<1>0. TypeOK /\ queue \in Seq(Jobs)
  BY DEF Inv, TypeInv, TypeOK
<1>1. /\ jobs[j].op = "none" /\ \A i \in 1..(j - 1) : jobs[i].op # "none"
      /\ host = "serving" /\ UNCHANGED <<host, todo, thr>>
      /\ queue' = Append(queue, j)
      /\ jobs'[j] = NewRow(op, p) /\ \A i \in Jobs \ {j} : jobs'[i] = jobs[i]
  BY <1>0 DEF Enqueue, NextJob, TypeOK
<1>2. /\ jobs'[j].op # "none" /\ Active(j)' /\ Queued(j)'
  BY <1>1 DEF NewRow, NoRow, Active, Queued, QueuedStages
<1>3. todo = {} /\ ~Working("main")
  BY <1>1 DEF Turns, Alone
<1>4. \A i \in Jobs : Active(i) => i < j
  <2> SUFFICES ASSUME NEW i \in Jobs, Active(i) PROVE i < j
    OBVIOUS
  <2>1. jobs[i].op # "none"
    BY ActiveEntered
  <2>2. ~(j < i)
    BY <1>1, <2>1 DEF Turns, InOrder
  <2> QED
    BY <1>1, <2>1, <2>2 DEF Jobs
<1>5. InOrder'
  <2>1. ASSUME NEW a \in Jobs, NEW b \in Jobs, a < b, jobs'[a].op = "none"
        PROVE  jobs'[b].op = "none"
    <3>1. a # j /\ jobs[a].op = "none"
      BY <1>1, <1>2, <2>1
    <3>2. ~(a < j)
      BY <1>1, <3>1 DEF Jobs
    <3>3. b # j /\ jobs[b].op = "none"
      BY <2>1, <3>1, <3>2 DEF Turns, InOrder
    <3> QED
      BY <1>1, <3>3
  <2>2. ASSUME NEW a \in Jobs, NEW b \in Jobs, a < b, Active(a)', Active(b)', Queued(a)'
        PROVE  Queued(b)'
    <3>1. CASE b = j
      BY <1>2, <3>1
    <3>2. CASE b # j
      <4>1. Active(b) /\ b < j
        BY <1>1, <1>4, <2>2, <3>2 DEF Active
      <4>2. a # j
        BY <2>2, <4>1 DEF Jobs
      <4> QED
        BY <1>1, <2>2, <3>2, <4>1, <4>2 DEF Turns, InOrder, Active, Queued
    <3> QED
      BY <3>1, <3>2
  <2> QED
    BY <2>1, <2>2 DEF InOrder
<1>6. \A i \in 1..Len(queue) : queue[i] \in Jobs /\ queue[i] < j
  BY <1>0, <1>4 DEF Inv, SafetyInv, Owned
<1>7. Working("worker") => thr["worker"].job < j
  BY <1>4, Places DEF Threads
<1>8. Lined'
  <2>1. \A i, k \in 1..(Len(queue) + 1) : i < k => queue'[i] < queue'[k]
    BY <1>0, <1>1, <1>6, Appended DEF Turns, Lined
  <2>2. Working("worker") =>
          \A i \in 1..(Len(queue) + 1) : thr["worker"].job < queue'[i]
    BY <1>0, <1>1, <1>7, Appended DEF Turns, Lined
  <2>3. Len(queue') = Len(queue) + 1
    BY <1>0, <1>1, Appended
  <2> QED
    BY <1>1, <1>3, <2>1, <2>2, <2>3 DEF Lined, Working
<1>9. Waiting'
  <2>1. \A a : InQueue(a) \/ a = j => InQueue(a)'
    <3>1. /\ Len(queue) \in Nat /\ Len(queue') = Len(queue) + 1
          /\ \A i \in 1..Len(queue) : queue'[i] = queue[i]
          /\ queue'[Len(queue) + 1] = j
      BY <1>0, <1>1, Appended
    <3> QED
      BY <3>1 DEF InQueue
  <2> QED
    BY <1>1, <2>1 DEF Turns, Waiting, Active, Queued, Runs
<1>10. Alone'
  BY <1>1, <1>3 DEF Turns, Alone, Working
<1> QED
  BY <1>5, <1>8, <1>9, <1>10 DEF Turns

LEMMA RecoverJobTurns ==
  ASSUME Inv, Turns, RecoverJob
  PROVE  Turns'
<1>0. TypeOK /\ queue \in Seq(Jobs) /\ todo \subseteq Jobs
  BY DEF Inv, TypeInv, TypeOK
<1>1. PICK j \in todo : FirstPending(j) /\ todo' = todo \ {j} /\
        \/ /\ Recovery(jobs[j].stage) = "resubmit"
           /\ queue' = Append(queue, j) /\ UNCHANGED <<jobs, thr>>
        \/ \E kind \in {"reconcile_job", "prepare_job"} :
             /\ Recovery(jobs[j].stage) = kind
             /\ thr' = [thr EXCEPT !["main"] = [Idle EXCEPT !.pc = kind, !.job = j]]
             /\ UNCHANGED <<jobs, queue>>
        \/ /\ jobs' = [jobs EXCEPT ![j] = UnknownRow(j)] /\ UNCHANGED <<thr, queue>>
  BY DEF RecoverJob
<1>2. /\ j \in Jobs /\ Active(j) /\ ~InQueue(j) /\ ~Runs("worker", j)
      /\ \A i \in todo : Active(i)
      /\ host' = host /\ host = "recovering" /\ ~Working("main")
      /\ \A k \in todo' : k \in todo /\ j < k
  BY <1>0, <1>1 DEF Inv, SafetyInv, Owned, InQueue, Threads, RecoverJob, Working,
     FirstPending, Jobs
<1>3. CASE /\ Recovery(jobs[j].stage) = "resubmit"
           /\ queue' = Append(queue, j) /\ UNCHANGED <<jobs, thr>>
  <2>1. Queued(j)
    BY <1>3 DEF Recovery, Queued, QueuedStages, PrepareStages
  <2>2. InOrder'
    BY <1>3 DEF Turns, InOrder, Active, Queued
  <2>3. /\ Len(queue) \in Nat /\ Len(queue') = Len(queue) + 1
        /\ \A i \in 1..Len(queue) : queue'[i] = queue[i] /\ queue'[i] \in Jobs
        /\ queue'[Len(queue) + 1] = j
        /\ \A i \in 1..(Len(queue) + 1) : i \in 1..Len(queue) \/ i = Len(queue) + 1
    BY <1>0, <1>2, <1>3, Appended
  <2>4. Lined'
    <3>1. \A i \in 1..Len(queue) : queue[i] < j
      BY DEF Turns, Lined
    <3>2. \A i, k \in 1..(Len(queue) + 1) : i < k => queue'[i] < queue'[k]
      BY <2>3, <3>1 DEF Turns, Lined
    <3>3. \A i \in 1..(Len(queue) + 1), k \in todo' : queue'[i] < k
      BY <1>2, <2>3 DEF Turns, Lined
    <3>4. Working("worker") =>
            /\ \A i \in 1..(Len(queue) + 1) : thr["worker"].job < queue'[i]
            /\ \A k \in todo' : thr["worker"].job < k
      BY <1>2, <2>3 DEF Turns, Lined
    <3> QED
      BY <1>3, <2>3, <3>2, <3>3, <3>4 DEF Lined, Working
  <2>5. Waiting'
    <3>1. \A a : InQueue(a) \/ a = j => InQueue(a)'
      BY <2>3 DEF InQueue
    <3> QED
      BY <1>1, <1>2, <1>3, <3>1 DEF Turns, Waiting, Active, Queued, Runs
  <2>6. Alone'
    <3>1. \A k \in todo' : Queued(k)
      BY <1>0, <1>2, <2>1 DEF Turns, InOrder
    <3> QED
      BY <1>2, <1>3, <3>1 DEF Turns, Alone, Working, Queued
  <2> QED
    BY <2>2, <2>4, <2>5, <2>6 DEF Turns
<1>4. ASSUME NEW kind \in {"reconcile_job", "prepare_job"},
             Recovery(jobs[j].stage) = kind,
             thr' = [thr EXCEPT !["main"] = [Idle EXCEPT !.pc = kind, !.job = j]],
             UNCHANGED <<jobs, queue>>
      PROVE  Turns'
  <2>1. ~Queued(j)
    BY <1>4 DEF Recovery, Queued, QueuedStages, PrepareStages
  <2>2. NoWorker
    BY <2>1 DEF Turns, Alone
  <2>3. /\ thr'["worker"] = thr["worker"] /\ thr'["main"].job = j
        /\ thr'["main"].pc # "idle"
    BY <1>0, <1>4 DEF TypeOK, Threads, Idle
  <2>4. InOrder'
    BY <1>4 DEF Turns, InOrder, Active, Queued
  <2>5. Lined'
    BY <1>2, <1>4, <2>3 DEF Turns, Lined, Working
  <2>6. Waiting'
    BY <1>1, <1>2, <1>4, <2>1, <2>3 DEF Turns, Waiting, Active, Queued, Runs, InQueue
  <2>7. Alone'
    BY <1>2, <1>4, <2>1, <2>2, <2>3 DEF Alone, NoWorker, Working, Queued
  <2> QED
    BY <2>4, <2>5, <2>6, <2>7 DEF Turns
<1>5. CASE /\ jobs' = [jobs EXCEPT ![j] = UnknownRow(j)] /\ UNCHANGED <<thr, queue>>
  <2>1. /\ ~Active(j)' /\ jobs'[j].op = jobs[j].op
        /\ \A i \in Jobs \ {j} : jobs'[i] = jobs[i]
    <3>1. Same(UnknownRow(j), j) /\ Settles(UnknownRow(j))
      BY <1>0, <1>2, RowFields
    <3> QED
      BY <1>0, <1>2, <1>5, <3>1 DEF TypeOK, Same, Settles, Active
  <2>2. InOrder'
    BY <2>1 DEF Turns, InOrder, Active, Queued
  <2>3. Lined'
    BY <1>2, <1>5 DEF Turns, Lined, Working
  <2>4. Waiting'
    BY <1>1, <1>2, <1>5, <2>1 DEF Turns, Waiting, Active, Queued, Runs, InQueue
  <2>5. Alone'
    <3>1. \A k \in todo' : jobs'[k] = jobs[k]
      BY <1>0, <1>1, <2>1
    <3> QED
      BY <1>1, <1>2, <1>5, <3>1 DEF Turns, Alone, NoWorker, Working, Queued
  <2> QED
    BY <2>2, <2>3, <2>4, <2>5 DEF Turns
<1> QED
  BY <1>1, <1>3, <1>4, <1>5

LEMMA RestartTurns ==
  ASSUME Inv, Turns, Start \/ Crash
  PROVE  Turns'
<1>1. InOrder'
  BY DEF Start, Crash, Turns, InOrder, Active, Queued
<1>2. /\ queue' = <<>> /\ ~Working("worker")' /\ ~Working("main")'
      /\ \/ host' = "down" /\ todo' = {}
         \/ host' = "recovering" /\ todo' = PendingJobs
      /\ jobs' = jobs
  BY DEF Start, Crash, Inv, SafetyInv, DownIdle, Threads, Idle, Working
<1>3. Len(queue') = 0
  BY <1>2
<1>4. Lined' /\ Waiting' /\ Alone'
  BY <1>2, <1>3 DEF Lined, Waiting, Alone, NoWorker, Working, PendingJobs, Active
<1> QED
  BY <1>1, <1>4 DEF Turns

\* The other steps touch neither rows nor threads nor the queue.
LEMMA QuietTurns ==
  ASSUME Turns, UNCHANGED <<jobs, thr, queue, todo>>,
         host' = host \/ RecoveryDone \/ RequestShutdown \/ ExitWhenSafe
  PROVE  Turns'
<1>1. InOrder' /\ Lined'
  BY DEF Turns, InOrder, Lined, Active, Queued, Working
<1>2. Waiting'
  BY DEF Turns, Waiting, Active, Queued, InQueue, Runs, RecoveryDone,
     RequestShutdown, ExitWhenSafe
<1>3. Alone'
  BY DEF Turns, Alone, NoWorker, Working, Queued, RecoveryDone, RequestShutdown,
     ExitWhenSafe
<1> QED
  BY <1>1, <1>2, <1>3 DEF Turns

LEMMA NextTurns ==
  ASSUME Inv, Turns, [Next]_vars
  PROVE  Turns'
<1>1. ASSUME NEW t \in Threads, RunJob(t) \/ RecoverApply(t) \/ RecoverPrepare(t)
      PROVE  Turns'
  BY <1>1, AdvanceTurns, ThreadsAdvance, QueuedKept
<1>2. CASE Submit
  <2>1. PICK j \in Jobs, op \in {"prepare", "iterate"}, p \in 0..NJobs : Enqueue(j, op, p)
    BY <1>2, BoundsAssumption DEF Submit, EnqueuePrepare, EnqueueIterate
  <2> QED
    BY <2>1, EnqueueTurns
<1>3. CASE \/ PlayerExecute \/ DropOrphan \/ (Environment /\ ~Crash)
           \/ RecoveryDone \/ ExitWhenSafe \/ UNCHANGED vars
  <2>1. /\ UNCHANGED <<jobs, thr, queue, todo>>
        /\ host' = host \/ RecoveryDone \/ RequestShutdown \/ ExitWhenSafe
    BY <1>3 DEF PlayerExecute, DropOrphan, Environment, ApprovePlan, EditSource,
       EditTask, CompileFinish, ExternalTransition, LinkUp, LinkDown, control, vars,
       RecoveryDone, RequestShutdown, ExitWhenSafe
  <2> QED
    BY <2>1, QuietTurns
<1> QED
  BY <1>1, <1>2, <1>3, TakeJobTurns, RecoverJobTurns, RestartTurns
     DEF Next, Recover, Environment, Threads

LEMMA InitTurns == Init => Turns
<1> SUFFICES ASSUME Init PROVE Turns
  OBVIOUS
<1>1. /\ \A j \in Jobs : jobs[j] = NoRow /\ ~Active(j)
      /\ ~Working("main") /\ ~Working("worker") /\ todo = {} /\ Len(queue) = 0
  BY DEF Init, Active, NoRow, Working, Idle, Threads
<1> QED
  BY <1>1 DEF Turns, InOrder, Lined, Waiting, Alone, NoRow

-----------------------------------------------------------------------------
(* Frames                                                                  *)

LEMMA OnlyOne ==
  ASSUME Turns, NEW t \in Threads, NEW u \in Threads \ {t}, Working(t)
  PROVE  ~Working(u)
BY DEF Turns, Alone, NoWorker, Threads

LEMMA AppliesIs ==
  ASSUME Inv, NEW j \in Jobs
  PROVE  /\ applies[j] \in {0, 1}
         /\ applies[j] = 1 /\ ~Terminal(j) => jobs[j].stage \in RuntimeStages
BY DEF Inv, SafetyInv, Applied

\* A plan that exists is never changed, and never needs approval again.
LEMMA PlansFixed ==
  ASSUME Inv, [Next]_vars, NEW p \in Jobs, HasPlan(p)
  PROVE  /\ plans'[p].binding = plans[p].binding
         /\ plans'[p].route = plans[p].route
         /\ Ready(p) => Ready(p)'
<1>0. TypeOK /\ plans \in [Jobs -> PlanType]
  BY DEF Inv, TypeInv, TypeOK
<1>1. CASE UNCHANGED plans
  BY <1>1 DEF Ready, HasPlan
<1>2. ASSUME NEW t \in Threads, CreatePlan(t)
      PROVE  UNCHANGED plans \/ plans'[p] = plans[p]
  <2>1. ~HasPlan(thr[t].job) \/ plans[thr[t].job] # NoPlan
    BY BoundsAssumption DEF HasPlan, NoPlan
  <2>2. UNCHANGED plans \/ (plans[thr[t].job] = NoPlan /\
          \E row : plans' = [plans EXCEPT ![thr[t].job] = row])
    BY <1>2 DEF CreatePlan
  <2> QED
    BY <1>0, <2>1, <2>2
<1>3. ASSUME NEW i \in Jobs, ApprovePlan(i)
      PROVE  /\ plans'[p].binding = plans[p].binding
             /\ plans'[p].route = plans[p].route
             /\ Ready(p) => Ready(p)'
  <2>1. plans[i] \in PlanType /\ plans' = [plans EXCEPT ![i].approval = "approved"]
    BY <1>0, <1>3 DEF ApprovePlan
  <2>2. CASE i = p
    BY <1>0, <2>1, <2>2 DEF PlanType, Ready, HasPlan
  <2>3. CASE i # p
    BY <1>0, <2>1, <2>3 DEF Ready, HasPlan
  <2> QED
    BY <2>2, <2>3
<1>4. UNCHANGED plans \/ (\E t \in Threads : CreatePlan(t)) \/ \E i \in Jobs : ApprovePlan(i)
  BY DEF Next, vars, RunJob, Recover, Environment, Submit, EnqueuePrepare,
     EnqueueIterate, Enqueue, TakeJob, Start, RecoverJob, RecoveryDone, ExitWhenSafe,
     PlayerExecute, DropOrphan, RequestShutdown, EditSource, EditTask, CompileFinish,
     ExternalTransition, LinkUp, LinkDown, Crash, PreparePlan, SaveEnvelope, SubmitCompile,
     SaveTicket, CompileResult, DeferEditorTimeout, FinalizePlan, BindPlan, StartApply,
     ApplyPrelude, SendStage, ReceiveReply, LoseReply, VerifyApplied, ReconcileApply,
     ObserveAfter, RecordFacts, CloseApply, RecoverApply, RecoverPrepare
<1>5. CASE plans'[p] = plans[p]
  BY <1>5 DEF Ready, HasPlan
<1> QED
  BY <1>1, <1>2, <1>3, <1>4, <1>5

LEMMA BindingKept ==
  ASSUME Inv, [Next]_vars, NEW i \in Jobs, Same(jobs'[i], i), HasPlan(PlanOf(i))
  PROVE  /\ Binding(i)' = Binding(i) /\ Route(i)' = Route(i) /\ Ops(i)' = Ops(i)
         /\ Ready(PlanOf(i)) => Ready(PlanOf(i))'
<1>1. PICK p \in Jobs : p = PlanOf(i) /\ p = PlanOf(i)'
  BY PlanKept
<1>2. /\ plans'[p].binding = plans[p].binding
      /\ plans'[p].route = plans[p].route
      /\ Ready(p) => Ready(p)'
  BY <1>1, PlansFixed
<1>3. Binding(i)' = Binding(i) /\ Route(i)' = Route(i)
  BY <1>1, <1>2 DEF Binding, Route
<1>4. Ready(PlanOf(i)) => Ready(PlanOf(i))'
  BY <1>1, <1>2 DEF Ready, HasPlan
<1> QED
  BY <1>3, <1>4 DEF Ops

\* The Player has moved on, or is as it was.
MovesOn ==
  /\ player'.rev >= player.rev
  /\ player'.rev = player.rev => player'.gen = player.gen

LEMMA SinceKept ==
  ASSUME Inv, TypeOK', [Next]_vars, NEW i \in Jobs, Same(jobs'[i], i), HasPlan(PlanOf(i)),
         Since(i), MovesOn
  PROVE  Since(i)'
<1>1. Binding(i)' = Binding(i)
  BY BindingKept
<1>2. PlanOf(i) \in Jobs
  BY PlanKept
<1>3. Binding(i).rev \in Int /\ player.rev \in Int /\ player'.rev \in Int
  BY <1>2 DEF Inv, TypeInv, TypeOK, PlanType, BindingOf, PlayerType, Binding
<1> QED
  BY <1>1, <1>3 DEF Since, MovesOn

LEMMA NextInv ==
  ASSUME Inv, [Next]_vars
  PROVE  Inv'
<1>1. TypeInv'
  BY NextTyped, PlansKept, OperationsKept DEF TypeInv, Inv
<1>2. SafetyInv'
  BY NextPlaced, OutcomeKept, PublishedKept DEF SafetyInv, Placed
<1> QED
  BY <1>1, <1>2 DEF Inv

\* What a step does for a job that it leaves alone.
Unmoved(i) ==
  /\ jobs'[i] = jobs[i] /\ applies'[i] = applies[i]
  /\ executed'[i] = executed[i] /\ base'[i] = base[i]
  /\ i \in facts' => i \in facts
  /\ interrupted \subseteq interrupted'
  /\ wire' = wire \/ wire'.job # i

LEMMA Bystander ==
  ASSUME Inv, Attribution, [Next]_vars, NEW i \in Jobs, Unmoved(i), MovesOn,
         i \in interrupted' \/ \A t \in Threads : Applies(t, i) => Applies(t, i)'
  PROVE  JobTrue(i)'
<1>1. JobTrue(i) /\ applies[i] \in {0, 1} /\ Same(jobs'[i], i)
  BY AppliesIs DEF Attribution, Unmoved, Same
<1>2. Inv' /\ TypeOK /\ TypeOK'
  BY NextInv DEF Inv, TypeInv
<1>3. applies[i] = 1 =>
        /\ HasPlan(PlanOf(i)) /\ Since(i) /\ Since(i)' /\ Ready(PlanOf(i))'
        /\ Binding(i)' = Binding(i) /\ Ops(i)' = Ops(i)
  BY <1>1, <1>2, BindingKept, SinceKept DEF JobTrue, Approved, Ready, Targeted
<1>4. Untouched(i)' /\ Approved(i)'
  BY <1>1, <1>3 DEF Unmoved, JobTrue, Untouched, Approved, Nothing
<1>5. CutShort(i)'
  BY <1>1 DEF Unmoved, JobTrue, CutShort, Active
<1>6. Staged(i)'
  <2> SUFFICES ASSUME jobs[i].stage = "runtime_stage" PROVE Route(i)' = "composite"
    BY DEF Staged, Unmoved
  <2>1. Route(i) = "composite" /\ PlanOf(i) \in Jobs
    BY <1>1, PlanKept DEF JobTrue, Staged
  <2>2. HasPlan(PlanOf(i))
    BY <2>1 DEF Route, NoPlan, Inv, TypeInv, PlansExist
  <2> QED
    BY <1>1, <2>1, <2>2, BindingKept
<1>7. Targeted(i)'
  <2>1. CASE applies[i] = 0
    BY <1>1, <2>1 DEF Unmoved, JobTrue, Untouched, Targeted, Nothing
  <2>2. CASE applies[i] = 1
    <3>1. PlanOf(i) \in Jobs
      BY <1>1, PlanKept
    <3>2. Binding(i).rev \in Int /\ player.rev \in Int /\ player'.rev \in Int
      BY <1>2, <3>1 DEF TypeOK, PlanType, BindingOf, PlayerType, Binding
    <3>3. base[i] # NoState => player'.rev > Binding(i).rev
      BY <1>1, <3>2 DEF JobTrue, Targeted, MovesOn
    <3> QED
      BY <1>1, <1>3, <2>2, <3>3 DEF Unmoved, JobTrue, Targeted, Nothing
  <2> QED
    BY <1>1, <2>1, <2>2
<1>8. Honest(i)'
  BY <1>1 DEF Unmoved, JobTrue, Honest, Terminal, InFlight, Nothing
<1>9. Whole(i)'
  BY <1>1, <1>3 DEF Unmoved, JobTrue, Whole, Recorded, InFlight, Done
<1> QED
  BY <1>4, <1>5, <1>6, <1>7, <1>8, <1>9 DEF JobTrue

\* A job the Player has nothing to do with any more is settled, truthfully or
\* without any claim; or it goes on.
LEMMA RowSettles ==
  ASSUME Inv, Attribution, [Next]_vars, NEW j \in Jobs, Same(jobs'[j], j),
         UNCHANGED <<applies, executed, base, wire, facts>>, MovesOn,
         interrupted' = interrupted,
         KeepsJournal(j),
         jobs'[j].stage # "runtime_stage",
         Recorded(j)' => Recorded(j),
         Active(j)' /\ jobs'[j].stage \in RuntimeStages =>
           \E t \in Threads : Applies(t, j)',
         Terminal(j)' => \/ jobs'[j].changed = "unknown"
                         \/ j \in interrupted
                         \/ /\ applies[j] = 0
                            /\ jobs'[j].stage \notin {"runtime_reconciled", "runtime_failed"}
  PROVE  JobTrue(j)'
<1>1. JobTrue(j) /\ applies[j] \in {0, 1}
  BY AppliesIs DEF Attribution
<1>2. Inv' /\ TypeOK /\ TypeOK'
  BY NextInv DEF Inv, TypeInv
<1>3. applies[j] = 1 =>
        /\ HasPlan(PlanOf(j)) /\ Since(j) /\ Since(j)' /\ Ready(PlanOf(j))'
        /\ Binding(j)' = Binding(j) /\ Ops(j)' = Ops(j)
  BY <1>1, <1>2, BindingKept, SinceKept DEF JobTrue, Approved, Ready, Targeted
<1>4. Untouched(j)' /\ Approved(j)'
  BY <1>1, <1>3 DEF JobTrue, Untouched, Approved, Nothing, KeepsJournal
<1>5. CutShort(j)' /\ Staged(j)'
  BY DEF CutShort, Staged
<1>6. Targeted(j)'
  <2>1. CASE applies[j] = 0
    BY <1>1, <2>1 DEF JobTrue, Untouched, Targeted, Nothing
  <2>2. CASE applies[j] = 1
    <3>1. PlanOf(j) \in Jobs
      BY PlanKept
    <3>2. Binding(j).rev \in Int /\ player.rev \in Int /\ player'.rev \in Int
      BY <1>2, <3>1 DEF TypeOK, PlanType, BindingOf, PlayerType, Binding
    <3>3. base[j] # NoState => player'.rev > Binding(j).rev
      BY <1>1, <3>2 DEF JobTrue, Targeted, MovesOn
    <3> QED
      BY <1>1, <1>3, <2>2, <3>3 DEF JobTrue, Targeted, Nothing
  <2> QED
    BY <1>1, <2>1, <2>2
<1>7. Honest(j)'
  BY <1>1 DEF JobTrue, Untouched, Honest, Terminal, InFlight, Nothing
<1>8. Whole(j)'
  BY <1>1, <1>3 DEF JobTrue, Whole, InFlight, Done
<1> QED
  BY <1>4, <1>5, <1>6, <1>7, <1>8 DEF JobTrue

\* What a thread has learnt stays true while others leave its job, the
\* provider's expectation and the request in flight alone.
LEMMA StillLearnt ==
  ASSUME Inv, [Next]_vars, NEW j \in Jobs, NEW pc, NEW n, NEW out,
         Learnt(j, pc, n, out),
         jobs'[j] = jobs[j] /\ applies'[j] = applies[j] /\ executed'[j] = executed[j],
         wire' = wire \/ (wire'.job # j /\ pc # "await"),
         KeepsTarget, MovesOn, interrupted \subseteq interrupted'
  PROVE  Learnt(j, pc, n, out)'
<1>1. TypeOK /\ TypeOK' /\ Same(jobs'[j], j)
  BY NextInv DEF Inv, TypeInv, Same
<1>2. CASE pc \notin ApplySteps \cup {"preflight"}
  BY <1>2 DEF Learnt, ApplySteps
<1>3. CASE pc \in ApplySteps \cup {"preflight"}
  <2>1. /\ Ready(PlanOf(j))' /\ Binding(j)' = Binding(j)
        /\ Route(j)' = Route(j) /\ Ops(j)' = Ops(j)
    BY <1>1, <1>3, BindingKept DEF Learnt, Ready
  <2>2. pc \in ApplySteps => Since(j)'
    BY <1>1, <1>3, SinceKept DEF Learnt, Ready
  <2>3. /\ \A m : Progress(j, m) => Progress(j, m)'
        /\ \A m : Done(j, m) => Done(j, m)'
        /\ Nothing(j)' <=> Nothing(j)
        /\ Told(j)' <=> Told(j)
        /\ InFlight(j)' => InFlight(j)
        /\ Behind => Behind'
    <3>1. prov \in ProvType /\ player \in PlayerType /\ player' \in PlayerType
      BY <1>1 DEF TypeOK
    <3>2. Behind => Behind'
      BY <3>1 DEF Behind, KeepsTarget, MovesOn, ProvType, PlayerType
    <3> QED
      BY <2>1, <3>2 DEF Progress, Done, Nothing, Told, InFlight, KeepsTarget
  <2>4. pc = "send" => Sending(j, n)'
    BY <2>3 DEF Learnt, Sending
  <2>5. pc = "await" => Awaiting(j, n)'
    BY <2>1, <2>3 DEF Learnt, Awaiting, KeepsTarget
  <2>6. pc = "verify" => Verifying(j)'
    BY <2>1, <2>3 DEF Learnt, Verifying, KeepsTarget
  <2>7. pc = "reconcile" => Reconciling(j)'
    BY <2>3 DEF Learnt, Reconciling, KeepsTarget
  <2>8. pc \in {"after", "facts", "close"} => Concluding(j, out)'
    BY <2>1, <2>3 DEF Learnt, Concluding
  <2> QED
    BY <2>1, <2>2, <2>4, <2>5, <2>6, <2>7, <2>8 DEF Learnt, KeepsTarget
<1> QED
  BY <1>2, <1>3

\* Nothing is learnt before the preflight.
LEMMA NotYet ==
  ASSUME NEW t \in Threads,
         thr'[t].pc \in {"idle", "prepare_job"} \cup (PrepareSteps \ {"preflight"})
  PROVE  Applying(t)'
BY DEF Applying, Learnt, PrepareSteps, ApplySteps

LEMMA StillApplying ==
  ASSUME Inv, Attribution, [Next]_vars, NEW t \in Threads, thr'[t] = thr[t],
         Working(t) =>
           LET j == thr[t].job IN
             /\ jobs'[j] = jobs[j] /\ applies'[j] = applies[j]
             /\ executed'[j] = executed[j]
             /\ wire' = wire \/ (wire'.job # j /\ thr[t].pc # "await")
             /\ KeepsTarget,
         MovesOn, interrupted \subseteq interrupted'
  PROVE  Applying(t)'
<1>1. CASE ~Working(t)
  BY <1>1, NotYet DEF Working
<1>2. CASE Working(t)
  <2>1. thr[t].job \in Jobs
    BY <1>2, Places
  <2>2. PICK j, pc, n, out : /\ j = thr[t].job /\ j \in Jobs /\ pc = thr[t].pc
                             /\ n = thr[t].step /\ out = thr[t].out
    BY <2>1
  <2>3. Learnt(j, pc, n, out)'
    BY <1>2, <2>2, StillLearnt DEF Attribution, Applying
  <2> QED
    BY <2>2, <2>3 DEF Applying
<1> QED
  BY <1>1, <1>2

-----------------------------------------------------------------------------
(* The steps around the threads                                            *)

LEMMA QuietAttribution ==
  ASSUME Inv, Attribution, [Next]_vars,
         UNCHANGED <<jobs, applies, executed, base, facts, thr, interrupted>>,
         \/ wire' = wire
         \/ wire' = NoRequest /\ \A t \in Threads : thr[t].pc # "await",
         KeepsTarget, MovesOn, player'.rev >= 0
  PROVE  Attribution'
<1>1. \A j \in Jobs : NoRequest.job # j
  BY DEF NoRequest, Jobs
<1>2. ASSUME NEW i \in Jobs PROVE JobTrue(i)'
  BY <1>1, Bystander DEF Unmoved, Applies
<1>3. ASSUME NEW t \in Threads PROVE Applying(t)'
  BY <1>1, StillApplying, Places
<1> QED
  BY <1>2, <1>3 DEF Attribution

LEMMA EnvironmentAttribution ==
  ASSUME Inv, Attribution, [Next]_vars,
         \/ RecoveryDone \/ ExitWhenSafe \/ DropOrphan \/ UNCHANGED vars
         \/ Environment /\ ~Crash
  PROVE  Attribution'
<1>0. TypeOK /\ player.rev >= 0 /\ player \in PlayerType /\ prov \in ProvType
  BY DEF Inv, TypeInv, TypeOK, Attribution
<1>1. CASE ExternalTransition
  <2>1. player' = [player EXCEPT !.rev = @ + 1]
    BY <1>1 DEF ExternalTransition
  <2>2. player'.rev = player.rev + 1 /\ player.rev \in Int
    BY <1>0, <2>1 DEF PlayerType
  <2>3. MovesOn /\ player'.rev >= 0
    BY <1>0, <2>2 DEF MovesOn
  <2>4. /\ UNCHANGED <<jobs, applies, executed, base, facts, thr, interrupted, wire>>
        /\ KeepsTarget
    BY <1>1 DEF ExternalTransition, KeepsTarget
  <2> QED
    BY <2>3, <2>4, QuietAttribution
<1>2. CASE ~ExternalTransition
  <2>1. UNCHANGED player /\ MovesOn /\ player'.rev >= 0
    BY <1>0, <1>2 DEF RecoveryDone, ExitWhenSafe, DropOrphan, vars, Environment,
       RequestShutdown, ApprovePlan, EditSource, EditTask, CompileFinish, LinkUp,
       LinkDown, world, MovesOn, PlayerType
  <2>2. UNCHANGED <<jobs, applies, executed, base, facts, thr, interrupted>>
    BY <1>2 DEF RecoveryDone, ExitWhenSafe, DropOrphan, vars, Environment,
       RequestShutdown, ApprovePlan, EditSource, EditTask, CompileFinish, LinkUp,
       LinkDown, history
  <2>3. \/ wire' = wire
        \/ wire' = NoRequest /\ \A t \in Threads : thr[t].pc # "await"
    BY <1>2 DEF RecoveryDone, ExitWhenSafe, DropOrphan, vars, Environment,
       RequestShutdown, ApprovePlan, EditSource, EditTask, CompileFinish, LinkUp,
       LinkDown
  <2>4. prov' = prov \/ \E b \in BOOLEAN : prov' = [prov EXCEPT !.link = b]
    BY <1>2 DEF RecoveryDone, ExitWhenSafe, DropOrphan, vars, Environment,
       RequestShutdown, ApprovePlan, EditSource, EditTask, CompileFinish, LinkUp,
       LinkDown
  <2>5. KeepsTarget
    BY <1>0, <2>4 DEF KeepsTarget, ProvType
  <2> QED
    BY <2>1, <2>2, <2>3, <2>5, QuietAttribution
<1> QED
  BY <1>1, <1>2

LEMMA TakeJobAttribution ==
  ASSUME Inv, Turns, Attribution, TakeJob
  PROVE  Attribution'
<1>0. TypeOK /\ player \in PlayerType /\ [Next]_vars
  BY DEF Inv, TypeInv, TypeOK, Next
<1>1. /\ UNCHANGED <<jobs, applies, executed, base, facts, wire, interrupted, player, prov>>
      /\ thr["worker"].pc = "idle" /\ thr'["worker"].pc \in {"prepare", "bind"}
      /\ thr'["main"] = thr["main"]
  BY <1>0 DEF TakeJob, history, world, TypeOK, Threads, Idle
<1>2. MovesOn /\ KeepsTarget
  BY <1>0, <1>1 DEF MovesOn, KeepsTarget, PlayerType
<1>3. ASSUME NEW i \in Jobs PROVE JobTrue(i)'
  BY <1>0, <1>1, <1>2, <1>3, Bystander DEF Unmoved, Applies, ApplySteps, Threads
<1>4. Applying("worker")'
  BY <1>1, NotYet DEF Threads, PrepareSteps
<1>5. Applying("main")'
  BY <1>0, <1>1, <1>2, StillApplying DEF Threads
<1> QED
  BY <1>1, <1>3, <1>4, <1>5 DEF Attribution, Threads

LEMMA EnqueueAttribution ==
  ASSUME Inv, Attribution, NEW j \in Jobs, NEW op \in {"prepare", "iterate"},
         NEW p, Enqueue(j, op, p), [Next]_vars
  PROVE  Attribution'
<1>0. TypeOK /\ player \in PlayerType
  BY DEF Inv, TypeInv, TypeOK
<1>1. /\ UNCHANGED <<applies, executed, base, facts, wire, interrupted, player, prov, thr>>
      /\ jobs'[j] = NewRow(op, p) /\ \A i \in Jobs \ {j} : jobs'[i] = jobs[i]
      /\ jobs[j].op = "none"
  BY <1>0 DEF Enqueue, NextJob, history, world, TypeOK
<1>2. MovesOn /\ KeepsTarget
  BY <1>0, <1>1 DEF MovesOn, KeepsTarget, PlayerType
<1>3. ASSUME NEW i \in Jobs \ {j} PROVE JobTrue(i)'
  BY <1>1, <1>2, Bystander DEF Unmoved, Applies
<1>4. JobTrue(j)'
  <2>1. jobs[j] = NoRow
    BY <1>1 DEF Inv, SafetyInv, Entered
  <2>2. applies[j] = 0 /\ j \notin facts
    BY <2>1, AppliesIs DEF NoRow, Terminal, RuntimeStages, Attribution, JobTrue,
       Whole, Recorded
  <2>3. Untouched(j) /\ JobTrue(j)
    BY DEF Attribution, JobTrue
  <2>4. /\ jobs'[j].entry = "none" /\ ~jobs'[j].acked /\ jobs'[j].state = "queued"
        /\ jobs'[j].stage \in QueuedStages
    BY <1>1 DEF NewRow, NoRow, QueuedStages
  <2>5. /\ jobs'[j].stage \notin RuntimeStages /\ jobs'[j].stage # "runtime_stage"
    BY <2>4 DEF QueuedStages, RuntimeStages
  <2> QED
    BY <1>1, <2>2, <2>3, <2>4, <2>5 DEF JobTrue, Untouched, Approved, CutShort, Staged,
       Targeted, Honest, Whole, Nothing, Terminal, Recorded
<1>5. ASSUME NEW t \in Threads PROVE Applying(t)'
  <2>1. Working(t) => thr[t].job \in Jobs \ {j}
    BY <1>1, Places, ActiveEntered
  <2> QED
    BY <1>1, <1>2, <2>1, StillApplying
<1> QED
  BY <1>1, <1>3, <1>4, <1>5 DEF Attribution

LEMMA RestartAttribution ==
  ASSUME Inv, Attribution, Start \/ Crash
  PROVE  Attribution'
<1>0. TypeOK /\ player \in PlayerType /\ [Next]_vars
  BY DEF Inv, TypeInv, TypeOK, Next, Environment
<1>1. /\ UNCHANGED <<jobs, applies, executed, base, facts, wire, player>>
      /\ interrupted \subseteq interrupted'
      /\ \A t \in Threads : thr'[t].pc = "idle"
  BY DEF Start, Crash, Inv, SafetyInv, DownIdle, Idle, world, history
<1>2. MovesOn
  BY <1>0, <1>1 DEF MovesOn, PlayerType
<1>3. ASSUME NEW i \in Jobs, NEW t \in Threads, Applies(t, i)
      PROVE  i \in interrupted'
  <2>1. Working(t) /\ Active(i) /\ jobs[i].stage \in RuntimeStages
    BY <1>3, Places DEF Applies, Working, ApplySteps, Inv, SafetyInv, Applied
  <2>2. Crash
    BY <2>1 DEF Start, Inv, SafetyInv, DownIdle, Working
  <2> QED
    BY <2>1, <2>2 DEF Crash
<1>4. ASSUME NEW i \in Jobs PROVE JobTrue(i)'
  <2>1. i \in interrupted' \/ \A t \in Threads : Applies(t, i) => Applies(t, i)'
    BY <1>3
  <2> QED
    BY <1>0, <1>1, <1>2, <2>1, Bystander DEF Unmoved
<1> QED
  BY <1>1, <1>4, NotYet DEF Attribution

LEMMA RecoverJobAttribution ==
  ASSUME Inv, Attribution, RecoverJob
  PROVE  Attribution'
<1>0. TypeOK /\ player \in PlayerType /\ [Next]_vars /\ todo \subseteq Jobs
  BY DEF Inv, TypeInv, TypeOK, Next, Recover
<1>1. /\ UNCHANGED <<applies, executed, base, facts, wire, interrupted, player, prov>>
      /\ ~Working("main")
  BY DEF RecoverJob, history, world, Working
<1>2. MovesOn /\ KeepsTarget
  BY <1>0, <1>1 DEF MovesOn, KeepsTarget, PlayerType
<1>3. PICK j \in todo :
        \/ UNCHANGED <<jobs, thr>>
        \/ \E kind \in {"reconcile_job", "prepare_job"} :
             /\ Recovery(jobs[j].stage) = kind
             /\ thr' = [thr EXCEPT !["main"] = [Idle EXCEPT !.pc = kind, !.job = j]]
             /\ UNCHANGED jobs
        \/ /\ jobs' = [jobs EXCEPT ![j] = UnknownRow(j)] /\ UNCHANGED thr
  BY DEF RecoverJob
<1>4. j \in Jobs /\ Active(j) /\ \A t \in Threads : ~Runs(t, j)
  BY <1>0 DEF Inv, SafetyInv, Owned
<1>5. CASE UNCHANGED <<jobs, thr>>
  BY <1>0, <1>1, <1>2, <1>5, QuietAttribution DEF PlayerType, Attribution
<1>6. ASSUME NEW kind \in {"reconcile_job", "prepare_job"},
             Recovery(jobs[j].stage) = kind,
             thr' = [thr EXCEPT !["main"] = [Idle EXCEPT !.pc = kind, !.job = j]],
             UNCHANGED jobs
      PROVE  Attribution'
  <2>1. /\ thr'["worker"] = thr["worker"] /\ thr'["main"].pc = kind
        /\ thr'["main"].job = j
    BY <1>0, <1>6 DEF TypeOK, Threads, Idle
  <2>2. ASSUME NEW i \in Jobs PROVE JobTrue(i)'
    <3>1. ~Applies("main", i)
      BY <1>1 DEF Applies, ApplySteps, Working
    <3>2. \A t \in Threads : Applies(t, i) => Applies(t, i)'
      BY <2>1, <3>1 DEF Applies, Threads
    <3> QED
      BY <1>0, <1>1, <1>2, <1>6, <3>2, Bystander DEF Unmoved
  <2>3. Applying("worker")'
    BY <1>0, <1>1, <1>2, <1>6, <2>1, StillApplying DEF Threads
  <2>4. Applying("main")'
    <3>1. CASE kind = "prepare_job"
      BY <2>1, <3>1, NotYet DEF Threads
    <3>2. CASE kind = "reconcile_job"
      <4>1. jobs[j].stage \in RuntimeStages
        BY <1>6, <3>2 DEF Recovery, RuntimeStages, PrepareStages, QueuedStages
      <4>2. j \in interrupted
        BY <1>4, <4>1 DEF Attribution, JobTrue, CutShort, Applies, Runs, ApplySteps
      <4> QED
        BY <1>1, <2>1, <3>2, <4>2 DEF Applying, Learnt, ApplySteps
    <3> QED
      BY <3>1, <3>2
  <2> QED
    BY <1>1, <2>2, <2>3, <2>4 DEF Attribution, Threads
<1>7. CASE jobs' = [jobs EXCEPT ![j] = UnknownRow(j)] /\ UNCHANGED thr
  <2>1. \A i \in Jobs \ {j} : jobs'[i] = jobs[i]
    BY <1>0, <1>7 DEF TypeOK
  <2>2. /\ jobs'[j].entry = jobs[j].entry /\ jobs'[j].acked = jobs[j].acked
        /\ jobs'[j].stage = "error" /\ jobs'[j].state = "state_unknown"
        /\ jobs'[j].changed = "unknown" /\ Same(jobs'[j], j)
    <3>1. jobs'[j] = UnknownRow(j) /\ Same(UnknownRow(j), j)
      BY <1>0, <1>4, <1>7, RowFields DEF TypeOK
    <3> QED
      BY <1>0, <1>4, <3>1, RowKeeps DEF UnknownRow
  <2>3. ASSUME NEW i \in Jobs \ {j} PROVE JobTrue(i)'
    BY <1>0, <1>1, <1>2, <1>7, <2>1, Bystander DEF Unmoved, Applies
  <2>4. JobTrue(j)'
    <3>1. KeepsJournal(j) /\ jobs'[j].stage # "runtime_stage" /\ ~Active(j)'
          /\ (Recorded(j)' => Recorded(j))
      BY <1>1, <2>2 DEF KeepsJournal, Active, Recorded
    <3> QED
      BY <1>0, <1>1, <1>2, <1>4, <2>2, <3>1, RowSettles
  <2>5. ASSUME NEW t \in Threads PROVE Applying(t)'
    <3>1. Working(t) => thr[t].job \in Jobs \ {j}
      BY <1>4, Places DEF Runs, Working
    <3> QED
      BY <1>0, <1>1, <1>2, <1>7, <2>1, <3>1, StillApplying
  <2> QED
    BY <1>1, <2>3, <2>4, <2>5 DEF Attribution
<1> QED
  BY <1>3, <1>5, <1>6, <1>7

\* What the Player does with the request in flight.
LEMMA Executes ==
  ASSUME Inv, Attribution, PlayerExecute
  PROVE  LET j == wire.job IN
    /\ j \in Jobs /\ InFlight(j) /\ ~InFlight(j)' /\ applies[j] = 1
    /\ wire'.job = j /\ wire'.op = wire.op /\ wire'.rev = wire.rev
    /\ \A i \in Jobs \ {j} : executed'[i] = executed[i] /\ base'[i] = base[i]
    /\ UNCHANGED <<jobs, plans, facts, thr, prov, applies, interrupted>>
    /\ \/ /\ UNCHANGED <<player, executed, base>> /\ wire'.reply = "rejected"
       \/ /\ wire.rev = player.rev /\ player'.rev = player.rev + 1
          /\ base'[j] = IF base[j] # NoState THEN base[j]
                        ELSE [rev |-> player.rev, gen |-> player.gen]
          /\ \E op \in MutatingOps \cup {"failed"} :
               /\ executed'[j] = Append(executed[j], op)
               /\ \/ wire'.reply = "completed" /\ op = wire.op
                  \/ wire'.reply = "failed_with_transition"
<1> DEFINE j == wire.job
<1>0. TypeOK /\ wire.reply = "pending" /\ player \in PlayerType
  BY DEF Inv, TypeInv, TypeOK, PlayerExecute
<1>1. wire \in RequestType /\ j \in Jobs
  BY <1>0 DEF TypeOK, WireType, NoRequest, RequestType
<1>2. applies[j] = 1
  BY <1>1, AppliesIs DEF Attribution, JobTrue, Untouched
<1>3. ASSUME NEW reply \in {"rejected", "completed", "failed_with_transition"},
             wire' = [wire EXCEPT !.reply = reply]
      PROVE  /\ wire'.job = j /\ wire'.op = wire.op /\ wire'.rev = wire.rev
             /\ wire'.reply = reply /\ ~InFlight(j)'
  BY <1>1, <1>3 DEF RequestType, InFlight
<1>4. /\ UNCHANGED <<jobs, plans, facts, thr, prov, applies, interrupted>>
  BY DEF PlayerExecute
<1>5. CASE wire' = [wire EXCEPT !.reply = "rejected"] /\ UNCHANGED <<player, executed, base>>
  BY <1>0, <1>1, <1>2, <1>3, <1>4, <1>5 DEF InFlight
<1>6. ASSUME NEW reply \in {"completed", "failed_with_transition"},
             NEW op \in MutatingOps \cup {"failed"},
             reply = "completed" => op = wire.op,
             wire' = [wire EXCEPT !.reply = reply], wire.rev = player.rev,
             player' \in {Effect(wire.op), [player EXCEPT !.rev = @ + 1]},
             executed' = [executed EXCEPT ![j] = Append(@, op)],
             base' = IF base[j] # NoState THEN base
                     ELSE [base EXCEPT ![j] = [rev |-> player.rev, gen |-> player.gen]]
      PROVE  /\ \A i \in Jobs \ {j} : executed'[i] = executed[i] /\ base'[i] = base[i]
             /\ player'.rev = player.rev + 1
             /\ base'[j] = IF base[j] # NoState THEN base[j]
                           ELSE [rev |-> player.rev, gen |-> player.gen]
             /\ executed'[j] = Append(executed[j], op)
  <2>1. player'.rev = player.rev + 1
    <3>1. Effect(wire.op).rev = player.rev + 1
      BY DEF Effect
    <3>2. [player EXCEPT !.rev = @ + 1].rev = player.rev + 1
      BY <1>0 DEF PlayerType
    <3> QED
      BY <1>6, <3>1, <3>2
  <2>2. /\ \A i \in Jobs \ {j} : executed'[i] = executed[i]
        /\ executed'[j] = Append(executed[j], op)
    BY <1>0, <1>1, <1>6 DEF TypeOK
  <2>3. /\ \A i \in Jobs \ {j} : base'[i] = base[i]
        /\ base'[j] = IF base[j] # NoState THEN base[j]
                      ELSE [rev |-> player.rev, gen |-> player.gen]
    BY <1>0, <1>1, <1>6 DEF TypeOK
  <2> QED
    BY <2>1, <2>2, <2>3
<1>7. \/ wire' = [wire EXCEPT !.reply = "rejected"] /\ UNCHANGED <<player, executed, base>>
      \/ \E reply \in {"completed", "failed_with_transition"},
            op \in MutatingOps \cup {"failed"} :
              /\ reply = "completed" => op = wire.op
              /\ wire' = [wire EXCEPT !.reply = reply] /\ wire.rev = player.rev
              /\ player' \in {Effect(wire.op), [player EXCEPT !.rev = @ + 1]}
              /\ executed' = [executed EXCEPT ![j] = Append(@, op)]
              /\ base' = IF base[j] # NoState THEN base
                         ELSE [base EXCEPT ![j] = [rev |-> player.rev,
                                                   gen |-> player.gen]]
  BY <1>1 DEF PlayerExecute, RequestType
<1>8. CASE \E reply \in {"completed", "failed_with_transition"},
            op \in MutatingOps \cup {"failed"} :
              /\ reply = "completed" => op = wire.op
              /\ wire' = [wire EXCEPT !.reply = reply] /\ wire.rev = player.rev
              /\ player' \in {Effect(wire.op), [player EXCEPT !.rev = @ + 1]}
              /\ executed' = [executed EXCEPT ![j] = Append(@, op)]
              /\ base' = IF base[j] # NoState THEN base
                         ELSE [base EXCEPT ![j] = [rev |-> player.rev,
                                                   gen |-> player.gen]]
  <2>1. PICK reply \in {"completed", "failed_with_transition"},
             op \in MutatingOps \cup {"failed"} :
              /\ reply = "completed" => op = wire.op
              /\ wire' = [wire EXCEPT !.reply = reply] /\ wire.rev = player.rev
              /\ player' \in {Effect(wire.op), [player EXCEPT !.rev = @ + 1]}
              /\ executed' = [executed EXCEPT ![j] = Append(@, op)]
              /\ base' = IF base[j] # NoState THEN base
                         ELSE [base EXCEPT ![j] = [rev |-> player.rev,
                                                   gen |-> player.gen]]
    BY <1>8
  <2>2. /\ \A i \in Jobs \ {j} : executed'[i] = executed[i] /\ base'[i] = base[i]
        /\ player'.rev = player.rev + 1
        /\ base'[j] = IF base[j] # NoState THEN base[j]
                      ELSE [rev |-> player.rev, gen |-> player.gen]
        /\ executed'[j] = Append(executed[j], op)
    BY <1>6, <2>1
  <2>3. /\ wire'.job = j /\ wire'.op = wire.op /\ wire'.rev = wire.rev
        /\ wire'.reply = reply /\ ~InFlight(j)'
    BY <1>3, <2>1
  <2> QED
    BY <1>0, <1>1, <1>2, <1>4, <2>1, <2>2, <2>3 DEF InFlight
<1> QED
  BY <1>5, <1>7, <1>8

\* What the thread that applies the job may believe after the execution.
LEMMA ExecutesLearnt ==
  ASSUME Inv, Attribution, PlayerExecute, [Next]_vars, NEW j, j = wire.job,
         NEW pc, NEW n \in 0..5, NEW out, Learnt(j, pc, n, out),
         pc = "apply" => applies[j] = 0,
         pc = "await" => n > 0
  PROVE  Learnt(j, pc, n, out)'
<1>0. /\ TypeOK /\ TypeOK' /\ player \in PlayerType
      /\ executed[j] \in Seq(MutatingOps \cup {"failed"})
      /\ j \in Jobs /\ InFlight(j) /\ ~InFlight(j)' /\ applies[j] = 1 /\ Same(jobs'[j], j)
      /\ UNCHANGED <<jobs, plans, prov, applies, interrupted>>
      /\ wire'.job = j /\ wire'.op = wire.op /\ wire'.rev = wire.rev
  BY Executes, NextInv DEF Inv, TypeInv, TypeOK, Same
<1>1. /\ HasPlan(PlanOf(j)) /\ PlanOf(j) \in Jobs
      /\ Binding(j)' = Binding(j) /\ Route(j)' = Route(j) /\ Ops(j)' = Ops(j)
      /\ Ready(PlanOf(j))'
  <2>1. Ready(PlanOf(j))
    BY <1>0 DEF Attribution, JobTrue, Approved
  <2> QED
    BY <1>0, <2>1, BindingKept, PlanKept DEF Ready
<1>2. MovesOn
  BY <1>0, Executes DEF MovesOn, PlayerType
<1>3. Since(j)'
  BY <1>0, <1>1, <1>2, SinceKept DEF Attribution, JobTrue, Targeted
<1>4. \A m : Progress(j, m) => Progress(j, m)'
  BY <1>0, <1>1 DEF Progress
<1>7. prov.rev \in Int /\ player.rev \in Int /\ player'.rev \in Int
  BY <1>0 DEF TypeOK, ProvType, PlayerType
<1>8. Behind => Behind'
  BY <1>0, <1>2, <1>7 DEF Behind, MovesOn
<1>5. CASE UNCHANGED executed /\ wire'.reply = "rejected"
  <2>1. \A m : Done(j, m) => Done(j, m)'
    BY <1>1, <1>5 DEF Done
  <2>2. pc = "await" => Awaiting(j, n)'
    BY <1>0, <1>1, <1>4, <1>5, <2>1 DEF Learnt, Awaiting, InFlight
  <2>3. pc = "reconcile" => Reconciling(j)'
    BY <1>0, <1>5, <1>8 DEF Learnt, Reconciling
  <2>4. pc \notin {"send", "verify", "apply"}
    BY <1>0 DEF Learnt, Sending, Verifying, InFlight
  <2>5. pc \in {"after", "facts", "close"} => Concluding(j, out)'
    BY <1>0, <1>8 DEF Learnt, Concluding
  <2> QED
    BY <1>0, <1>1, <1>3, <2>2, <2>3, <2>4, <2>5 DEF Learnt
<1>6. ASSUME NEW op \in MutatingOps \cup {"failed"},
             executed'[j] = Append(executed[j], op),
             \/ wire'.reply = "completed" /\ op = wire.op
             \/ wire'.reply = "failed_with_transition",
             wire'.rev = wire.rev, wire.rev = player.rev, player'.rev = player.rev + 1
      PROVE  Learnt(j, pc, n, out)'
  <2>1. /\ Len(executed'[j]) = Len(executed[j]) + 1 /\ ~Nothing(j)'
        /\ executed'[j][Len(executed[j]) + 1] = op
        /\ \A i \in 1..Len(executed[j]) : executed'[j][i] = executed[j][i]
    BY <1>0, <1>6 DEF Nothing
  <2>2. pc = "await" => Awaiting(j, n)'
    <3> SUFFICES ASSUME pc = "await" PROVE Awaiting(j, n)'
      OBVIOUS
    <3>1. Awaiting(j, n) /\ Done(j, n - 1) /\ n \in 1..5
      BY <1>0 DEF Learnt, Awaiting, InFlight
    <3>2. wire'.reply = "completed" => Done(j, n)'
      <4> SUFFICES ASSUME op = Ops(j)[n] PROVE Done(j, n)'
        BY <1>6, <3>1 DEF Awaiting
      <4>1. \A i \in 1..n : i \in 1..(n - 1) \/ i = n
        BY <3>1
      <4> QED
        BY <1>1, <2>1, <3>1, <4>1 DEF Done
    <3> QED
      BY <1>0, <1>1, <1>4, <1>6, <1>7, <2>1, <3>1, <3>2 DEF Awaiting, Behind
  <2>3. pc = "reconcile" => Reconciling(j)'
    BY <1>0, <1>8 DEF Learnt, Reconciling
  <2>4. pc \notin {"send", "verify", "apply"}
    BY <1>0 DEF Learnt, Sending, Verifying, InFlight
  <2>5. pc \in {"after", "facts", "close"} => Concluding(j, out)'
    BY <1>0, <1>8 DEF Learnt, Concluding
  <2> QED
    BY <1>0, <1>1, <1>3, <2>2, <2>3, <2>4, <2>5 DEF Learnt
<1> QED
  BY <1>0, <1>5, <1>6, Executes

LEMMA ExecutesTrue ==
  ASSUME Inv, Attribution, PlayerExecute, [Next]_vars, NEW j, j = wire.job
  PROVE  JobTrue(j)'
<1>0. /\ TypeOK /\ TypeOK' /\ player \in PlayerType /\ player.rev \in Int
      /\ executed[j] \in Seq(MutatingOps \cup {"failed"})
      /\ j \in Jobs /\ InFlight(j) /\ ~InFlight(j)' /\ applies[j] = 1 /\ Same(jobs'[j], j)
      /\ UNCHANGED <<jobs, plans, facts, thr, prov, applies, interrupted>>
      /\ wire'.job = j /\ wire'.rev = wire.rev /\ JobTrue(j) /\ player.rev >= 0
  BY Executes, NextInv DEF Inv, TypeInv, TypeOK, Same, Attribution, PlayerType
<1>1. /\ HasPlan(PlanOf(j)) /\ PlanOf(j) \in Jobs
      /\ Binding(j)' = Binding(j) /\ Route(j)' = Route(j) /\ Ops(j)' = Ops(j)
      /\ Ready(PlanOf(j))'
  <2>1. Ready(PlanOf(j))
    BY <1>0 DEF JobTrue, Approved
  <2> QED
    BY <1>0, <2>1, BindingKept, PlanKept DEF Ready
<1>2. MovesOn
  BY <1>0, Executes DEF MovesOn, PlayerType
<1>3. Since(j) /\ Since(j)' /\ Binding(j).rev \in Int
  BY <1>0, <1>1, <1>2, SinceKept
     DEF JobTrue, Targeted, TypeOK, PlanType, BindingOf, Binding
<1>4. Untouched(j)' /\ Approved(j)' /\ CutShort(j)' /\ Staged(j)'
  BY <1>0, <1>1 DEF JobTrue, Untouched, Approved, CutShort, Staged, Active, Applies
<1>5. Honest(j)' /\ Whole(j)'
  BY <1>0 DEF JobTrue, Honest, Whole, Terminal, Recorded
<1>6. Targeted(j)'
  <2>1. CASE UNCHANGED <<player, executed, base>>
    BY <1>0, <1>1, <1>3, <2>1 DEF JobTrue, Targeted, Nothing
  <2>2. ASSUME NEW op, executed'[j] = Append(executed[j], op),
               wire.rev = player.rev, player'.rev = player.rev + 1,
               base'[j] = IF base[j] # NoState THEN base[j]
                          ELSE [rev |-> player.rev, gen |-> player.gen]
        PROVE  Targeted(j)'
    <3>1. ~Nothing(j)'
      BY <1>0, <2>2 DEF Nothing
    <3>2. player'.rev > Binding(j).rev
      BY <1>3, <2>2, <1>0 DEF Since
    <3>3. base'[j] # NoState
      BY <1>0, <2>2 DEF NoState
    <3>4. base'[j] = [rev |-> Binding(j).rev, gen |-> Binding(j).gen]
      <4>1. CASE base[j] # NoState
        BY <1>0, <2>2, <4>1 DEF JobTrue, Targeted
      <4>2. CASE base[j] = NoState
        <5>1. player.rev = Binding(j).rev
          BY <1>0, <2>2, <4>2 DEF JobTrue, Targeted, InFlight
        <5> QED
          BY <1>3, <2>2, <4>2, <5>1 DEF Since
      <4> QED
        BY <4>1, <4>2
    <3> QED
      BY <1>0, <1>1, <1>3, <3>1, <3>2, <3>3, <3>4 DEF Targeted
  <2> QED
    BY <1>0, <2>1, <2>2, Executes
<1> QED
  BY <1>4, <1>5, <1>6 DEF JobTrue

LEMMA PlayerExecuteAttribution ==
  ASSUME Inv, Attribution, PlayerExecute
  PROVE  Attribution'
<1>0. [Next]_vars /\ TypeOK /\ player \in PlayerType /\ player.rev >= 0
  BY DEF Next, Inv, TypeInv, TypeOK, Attribution
<1>1. PICK j \in Jobs : j = wire.job
  BY Executes
<1>2. /\ UNCHANGED <<jobs, facts, thr, prov, applies, interrupted>>
      /\ \A i \in Jobs \ {j} : executed'[i] = executed[i] /\ base'[i] = base[i]
      /\ wire'.job = j /\ player'.rev >= 0 /\ MovesOn /\ KeepsTarget
      /\ applies[j] = 1
  BY <1>0, <1>1, Executes DEF MovesOn, PlayerType, KeepsTarget
<1>3. ASSUME NEW i \in Jobs PROVE JobTrue(i)'
  <2>1. CASE i = j
    BY <1>0, <1>1, <2>1, ExecutesTrue
  <2>2. CASE i # j
    BY <1>0, <1>2, <2>2, Bystander DEF Unmoved, Applies
  <2> QED
    BY <2>1, <2>2
<1>4. ASSUME NEW t \in Threads PROVE Applying(t)'
  <2>1. CASE ~Working(t) \/ thr[t].job # j
    <3>1. Working(t) => thr[t].job \in Jobs \ {j} /\ thr[t].pc # "await"
      BY <1>1, <2>1, Places DEF Attribution, Applying, Learnt, Awaiting
    <3> QED
      BY <1>0, <1>2, <3>1, StillApplying
  <2>2. CASE Working(t) /\ thr[t].job = j
    <3>1. thr[t].step \in 0..5
      BY <1>0 DEF TypeOK, ThreadType
    <3>2. PICK n, pc, out : /\ n = thr[t].step /\ n \in 0..5
                            /\ pc = thr[t].pc /\ out = thr[t].out
      BY <3>1
    <3>3. /\ Learnt(j, pc, n, out) /\ (pc = "apply" => applies[j] = 0)
          /\ pc = "await" => n > 0
      BY <2>2, <3>2 DEF Attribution, Applying, Inv, SafetyInv, Applied, TypeInv,
         OperationsExist
    <3>4. Learnt(j, pc, n, out)'
      BY <1>0, <1>1, <3>2, <3>3, ExecutesLearnt
    <3> QED
      BY <1>2, <2>2, <3>2, <3>4 DEF Applying
  <2> QED
    BY <2>1, <2>2
<1> QED
  BY <1>2, <1>3, <1>4 DEF Attribution

-----------------------------------------------------------------------------
(* The steps of the thread at work: up to the dispatch, and in a recovery  *)

\* Only its own job, and only its own belief, are in question: the other
\* thread does not work.
LEMMA OwnStep ==
  ASSUME Inv, Turns, Attribution, [Next]_vars, NEW t \in Threads,
         RunJob(t) \/ RecoverApply(t) \/ RecoverPrepare(t),
         NEW j \in Jobs, j = thr[t].job,
         UNCHANGED <<player, executed, base, interrupted>>,
         facts' \subseteq facts \cup {j},
         wire' = wire \/ wire'.job = j \/ wire' = NoRequest,
         JobTrue(j)', Applying(t)'
  PROVE  Attribution'
<1>1. Advance(t) /\ Working(t)
  BY ThreadsAdvance DEF Advance, Working
<1>2. MovesOn /\ player'.rev >= 0 /\ \A i \in Jobs : NoRequest.job # i
  BY DEF Attribution, Inv, TypeInv, TypeOK, PlayerType, MovesOn, NoRequest, Jobs
<1>3. ASSUME NEW i \in Jobs \ {j} PROVE JobTrue(i)'
  <2>1. Unmoved(i)
    BY <1>1, <1>2 DEF Advance, Unmoved
  <2>2. \A u \in Threads : Applies(u, i) => Applies(u, i)'
    BY <1>1 DEF Advance, Applies
  <2> QED
    BY <1>2, <2>1, <2>2, Bystander
<1>4. ASSUME NEW u \in Threads \ {t} PROVE Applying(u)'
  BY <1>1, <1>2, <1>4, OnlyOne, StillApplying DEF Advance
<1> QED
  BY <1>2, <1>3, <1>4 DEF Attribution

LEMMA ObservedTarget ==
  ASSUME TypeOK, Observed = "ok"
  PROVE  prov.rev = player.rev /\ prov.gen = player.gen
<1>1. prov.uncertain \in BOOLEAN /\ prov.link \in BOOLEAN
  BY DEF TypeOK, ProvType
<1> QED
  BY <1>1 DEF Observed, Reachable

\* The dispatch finds the runtime that the plan was prepared for.
LEMMA Dispatched ==
  ASSUME Inv, Turns, Attribution, [Next]_vars, NEW t \in Threads, StartApply(t),
         thr'[t].pc = "apply", KeepsTarget, UNCHANGED player
  PROVE  Applying(t)'
<1>1. PICK j \in Jobs : j = thr[t].job
  BY OwnedJob DEF Inv, StartApply
<1>2. TypeOK /\ TypeOK' /\ Advance(t) /\ thr[t].pc = "preflight"
  BY NextInv, ThreadsAdvance DEF Inv, TypeInv, RunJob, StartApply, At
<1>3. Same(jobs'[j], j) /\ thr'[t].job = j
  BY <1>1, <1>2 DEF Advance, Releases, Continues
<1>4. Ready(PlanOf(j)) /\ HasPlan(PlanOf(j)) /\ PlanOf(j) \in Jobs
  BY <1>1, <1>2, <1>3, PlanKept DEF Attribution, Applying, Learnt, Ready
<1>5. Observed = "ok" /\ TargetIsCurrent(PlanOf(j))
  <2>1. \A r : ~Leave(t, r)
    BY <1>1, <1>2, Left
  <2> QED
    BY <1>1, <1>2, <2>1, Observes DEF StartApply
<1>6. prov.rev = Binding(j).rev /\ prov.gen = Binding(j).gen
  BY <1>5 DEF TargetIsCurrent, Seen, Binding
<1>7. Since(j)
  <2>1. player.rev \in Int
    BY <1>2 DEF TypeOK, PlayerType
  <2> QED
    BY <1>2, <1>5, <1>6, <2>1, ObservedTarget DEF Since
<1>8. MovesOn
  BY <1>2 DEF MovesOn, TypeOK, PlayerType
<1>9. Since(j)' /\ Ready(PlanOf(j))' /\ Binding(j)' = Binding(j)
  BY <1>2, <1>3, <1>4, <1>7, <1>8, SinceKept, BindingKept
<1>10. \A n, out : Learnt(j, "apply", n, out)'
  BY <1>6, <1>9 DEF Learnt, KeepsTarget
<1> QED
  BY <1>3, <1>10 DEF Applying

LEMMA PrepareAttribution ==
  ASSUME Inv, Turns, Attribution, [Next]_vars, NEW t \in Threads,
         \/ PreparePlan(t) \/ SaveEnvelope(t) \/ SubmitCompile(t) \/ SaveTicket(t)
         \/ CompileResult(t) \/ DeferEditorTimeout(t) \/ FinalizePlan(t)
         \/ CreatePlan(t) \/ BindPlan(t) \/ StartApply(t) \/ RecoverPrepare(t)
  PROVE  Attribution'
<1>0. /\ Advance(t) /\ KeepsJournal(thr[t].job) /\ KeepsTarget /\ UNCHANGED Outside
      /\ UNCHANGED <<applies, facts>> /\ Prepares(t)
  BY PreparesEffect, ThreadsAdvance DEF RunJob
<1>1. thr[t].pc \in PrepareSteps \cup {"prepare_job"}
  BY DEF PreparePlan, SaveEnvelope, SubmitCompile, SaveTicket, CompileResult,
     DeferEditorTimeout, FinalizePlan, CreatePlan, BindPlan, StartApply,
     RecoverPrepare, At, PrepareSteps
<1>2. PICK j \in Jobs : j = thr[t].job
  BY <1>0 DEF Advance
<1>3. Active(j) /\ jobs[j].stage \notin RuntimeStages /\ applies[j] = 0
  <2>1. Active(j) /\ jobs[j].stage \notin RuntimeStages
    BY <1>0, <1>1, <1>2, Places DEF Advance, Working, Inv, SafetyInv, Applied
  <2> QED
    BY <2>1, AppliesIs DEF Active, Terminal
<1>4. /\ Same(jobs'[j], j) /\ KeepsJournal(j)
      /\ UNCHANGED <<player, wire, executed, base, interrupted>>
  BY <1>0, <1>2 DEF Advance, Outside
<1>5. MovesOn
  BY <1>4 DEF MovesOn, Inv, TypeInv, TypeOK, PlayerType
<1>6. \/ thr'[t].pc = "idle"
      \/ /\ thr'[t].pc \in PrepareSteps /\ thr'[t].job = j
         /\ jobs'[j].state \in {"queued", "running"}
         /\ jobs'[j].stage \notin RuntimeStages
      \/ /\ thr'[t].pc = "apply" /\ thr'[t].job = j /\ thr[t].pc = "preflight"
         /\ jobs'[j].state \in {"queued", "running"}
  BY <1>0, <1>1, <1>2 DEF Advance, Releases, Continues, PrepareSteps, ApplySteps
<1>7. JobTrue(j)'
  <2>1. thr'[t].pc = "idle" =>
          jobs'[j].stage \in {"prepare_editor_wait", "error", "prepared",
                              "approval_required"}
    BY <1>0, <1>2 DEF Prepares
  <2>2. thr'[t].pc = "apply" => jobs'[j].stage = "runtime_apply" /\ Applies(t, j)'
    BY <1>0, <1>2, <1>6 DEF Prepares, Applies, PrepareSteps, ApplySteps
  <2>3. jobs'[j].stage # "runtime_stage" /\ (Recorded(j)' => Recorded(j))
    BY <1>0, <1>6, <2>1, <2>2 DEF Recorded, RuntimeStages
  <2>4. Active(j)' /\ jobs'[j].stage \in RuntimeStages => Applies(t, j)'
    BY <1>6, <2>1, <2>2 DEF RuntimeStages
  <2>5. Terminal(j)' => jobs'[j].stage \notin {"runtime_reconciled", "runtime_failed"}
    BY <1>6, <2>1 DEF Terminal
  <2> QED
    BY <1>0, <1>3, <1>4, <1>5, <2>3, <2>4, <2>5, RowSettles
<1>8. Applying(t)'
  <2>1. CASE thr'[t].pc \in {"idle"} \cup (PrepareSteps \ {"preflight"})
    BY <2>1, NotYet
  <2>2. CASE thr'[t].pc = "preflight"
    <3>1. thr[t].pc = "bind" /\ thr'[t].job = j
      BY <1>6, <2>2, NextStep DEF RunJob, PrepareSteps
    <3>2. ~NeedsApproval(PlanOf(j)) /\ HasPlan(PlanOf(j))
      <4>1. BindPlan(t) /\ HasPlan(PlanOf(j))
        BY <1>2, <3>1 DEF PreparePlan, SaveEnvelope, SubmitCompile, SaveTicket,
           CompileResult, DeferEditorTimeout, FinalizePlan, CreatePlan, StartApply,
           RecoverPrepare, At, Inv, TypeInv, OperationsExist, BoundSteps
      <4>2. \A r : ~Leave(t, r)
        BY <1>2, <2>2, Left DEF Inv, TypeInv
      <4> QED
        BY <1>2, <4>1, <4>2 DEF BindPlan
    <3>3. Ready(PlanOf(j))'
      BY <1>4, <3>2, BindingKept DEF Ready, NeedsApproval
    <3>4. \A n, out : Learnt(j, "preflight", n, out)'
      BY <3>3 DEF Learnt, ApplySteps
    <3> QED
      BY <2>2, <3>1, <3>4 DEF Applying
  <2>3. CASE thr'[t].pc = "apply"
    <3>1. thr[t].pc = "preflight"
      BY <1>6, <2>3 DEF PrepareSteps
    <3>2. StartApply(t)
      BY <3>1 DEF PreparePlan, SaveEnvelope, SubmitCompile, SaveTicket,
         CompileResult, DeferEditorTimeout, FinalizePlan, CreatePlan, BindPlan,
         RecoverPrepare, At
    <3> QED
      BY <1>0, <1>4, <2>3, <3>2, Dispatched
  <2> QED
    BY <1>6, <2>1, <2>2, <2>3
<1> QED
  BY <1>0, <1>2, <1>4, <1>7, <1>8, OwnStep DEF RunJob

LEMMA RecoverApplyAttribution ==
  ASSUME Inv, Turns, Attribution, [Next]_vars, NEW t \in Threads, RecoverApply(t)
  PROVE  Attribution'
<1>0. /\ Advance(t) /\ KeepsJournal(thr[t].job) /\ UNCHANGED Outside
      /\ UNCHANGED <<applies, facts>> /\ Reconciles(t)
  BY ReconcilesEffect, ThreadsAdvance
<1>1. PICK j \in Jobs : j = thr[t].job
  BY <1>0 DEF Advance
<1>2. /\ Same(jobs'[j], j) /\ KeepsJournal(j) /\ thr'[t].pc = "idle"
      /\ jobs'[j].stage \in {"error", "runtime_reconciled"}
      /\ (Recorded(j)' => Recorded(j))
      /\ UNCHANGED <<player, wire, executed, base, interrupted>>
  BY <1>0, <1>1 DEF Advance, Outside, Reconciles, Recorded
<1>3. j \in interrupted
  BY <1>1 DEF Attribution, Applying, Learnt, RecoverApply, At
<1>4. MovesOn
  BY <1>2 DEF MovesOn, Inv, TypeInv, TypeOK, PlayerType
<1>5. JobTrue(j)'
  BY <1>0, <1>2, <1>3, <1>4, RowSettles DEF RuntimeStages
<1> QED
  BY <1>0, <1>1, <1>2, <1>5, NotYet, OwnStep

-----------------------------------------------------------------------------
(* The steps of the thread at work: the application                        *)

\* What the applying thread knows of its job's plan.
LEMMA Applier ==
  ASSUME Inv, Attribution, [Next]_vars, NEW t \in Threads,
         thr[t].pc \in ApplySteps, Advance(t), UNCHANGED player,
         NEW j \in Jobs, j = thr[t].job
  PROVE  /\ TypeOK /\ TypeOK' /\ JobTrue(j)
         /\ Active(j) /\ jobs[j].stage \in RuntimeStages /\ Same(jobs'[j], j)
         /\ HasPlan(PlanOf(j)) /\ PlanOf(j) \in Jobs /\ Ready(PlanOf(j))'
         /\ Binding(j)' = Binding(j) /\ Route(j)' = Route(j) /\ Ops(j)' = Ops(j)
         /\ Binding(j).rev \in Int /\ prov.rev \in Int
         /\ Since(j) /\ Since(j)'
         /\ Ops(j) \in Seq(MutatingOps) /\ Len(Ops(j)) \in 1..5
         /\ applies[j] = IF thr[t].pc = "apply" THEN 0 ELSE 1
<1>1. Working(t) /\ TypeOK /\ TypeOK' /\ Same(jobs'[j], j)
  BY NextInv DEF Working, ApplySteps, Inv, TypeInv, Advance
<1>2. Active(j) /\ jobs[j].stage \in RuntimeStages /\ JobTrue(j)
  BY <1>1, Places DEF Inv, SafetyInv, Applied, Attribution
<1>3. Learnt(j, thr[t].pc, thr[t].step, thr[t].out)
  BY DEF Attribution, Applying
<1>4. Ready(PlanOf(j)) /\ HasPlan(PlanOf(j)) /\ Since(j) /\ PlanOf(j) \in Jobs
  BY <1>1, <1>3, PlanKept DEF Learnt, Ready
<1>5. MovesOn
  BY <1>1 DEF MovesOn, TypeOK, PlayerType
<1>6. /\ Ready(PlanOf(j))' /\ Since(j)'
      /\ Binding(j)' = Binding(j) /\ Route(j)' = Route(j) /\ Ops(j)' = Ops(j)
  BY <1>1, <1>4, <1>5, BindingKept, SinceKept
<1>7. Binding(j).rev \in Int /\ prov.rev \in Int
  BY <1>1, <1>4 DEF TypeOK, PlanType, BindingOf, Binding, ProvType
<1>8. Ops(j) \in Seq(MutatingOps) /\ Len(Ops(j)) \in 1..5
  <2>1. Route(j) \in Routes
    BY <1>4 DEF HasPlan, Route
  <2> QED
    BY <2>1, OperationsTyped DEF Ops
<1>9. applies[j] = IF thr[t].pc = "apply" THEN 0 ELSE 1
  <2>1. thr[t].pc = "apply" => applies[j] = 0
    BY DEF Inv, SafetyInv, Applied
  <2> QED
    BY <1>3, <2>1 DEF Learnt
<1> QED
  BY <1>1, <1>2, <1>4, <1>6, <1>7, <1>8, <1>9

\* The thread goes on with the application.
LEMMA ApplierGoesOn ==
  ASSUME Inv, Attribution, [Next]_vars, NEW t \in Threads,
         thr[t].pc \in ApplySteps, Advance(t),
         UNCHANGED <<player, executed, base, interrupted>>,
         NEW j \in Jobs, j = thr[t].job,
         thr'[t].pc # "idle",
         jobs'[j].stage = "runtime_stage" =>
           jobs[j].stage = "runtime_stage" \/ Route(j) = "composite",
         \/ wire' = wire \/ wire' = NoRequest
         \/ /\ wire'.job = j /\ j \notin facts
            /\ Nothing(j) => wire'.rev = Binding(j).rev,
         \/ facts' = facts
         \/ facts' = facts \cup {j} /\ ~InFlight(j)' /\ Done(j, Len(Ops(j)))
  PROVE  /\ JobTrue(j)' /\ thr'[t].job = j
         /\ thr'[t].pc \in ApplySteps \ {"apply"} /\ applies'[j] = 1
<1>1. /\ JobTrue(j) /\ Since(j)' /\ Ready(PlanOf(j))'
      /\ Binding(j)' = Binding(j) /\ Route(j)' = Route(j) /\ Ops(j)' = Ops(j)
      /\ applies[j] = IF thr[t].pc = "apply" THEN 0 ELSE 1
  BY Applier
<1>2. /\ thr'[t].job = j /\ thr'[t].pc \in ApplySteps \ {"apply"}
      /\ jobs'[j].state \in {"queued", "running"} /\ applies'[j] = 1
  BY <1>1 DEF Advance, Releases, Continues, PrepareSteps, ApplySteps
<1>3. NoRequest.job # j /\ NoRequest.reply # "pending"
  BY DEF NoRequest, Jobs
<1>4. Untouched(j)' /\ Approved(j)' /\ CutShort(j)'
  BY <1>1, <1>2 DEF Untouched, Approved, CutShort, Applies
<1>5. Staged(j)' /\ Honest(j)'
  BY <1>1, <1>2 DEF JobTrue, Staged, Honest, Terminal
<1>6. Targeted(j)'
  BY <1>1, <1>3 DEF JobTrue, Targeted, Nothing
<1>7. Whole(j)'
  BY <1>1, <1>2, <1>3 DEF JobTrue, Whole, Recorded, InFlight, Done
<1> QED
  BY <1>2, <1>4, <1>5, <1>6, <1>7 DEF JobTrue

\* The thread settles the job it applied.
LEMMA ApplierLeaves ==
  ASSUME Inv, Attribution, [Next]_vars, NEW t \in Threads,
         thr[t].pc \in ApplySteps \ {"apply"}, Advance(t),
         UNCHANGED <<player, executed, base, interrupted, wire, facts>>,
         NEW j \in Jobs, j = thr[t].job,
         thr'[t].pc = "idle",
         jobs'[j].stage \in {"error", "runtime_failed", "runtime_reconciled"},
         jobs'[j].changed # "unknown" => ~InFlight(j),
         jobs'[j].changed = "no" => Nothing(j),
         jobs'[j].changed = "yes" => ~Nothing(j),
         jobs'[j].state = "completed" /\ jobs'[j].stage = "runtime_reconciled" =>
           ~InFlight(j) /\ Done(j, Len(Ops(j)))
  PROVE  JobTrue(j)'
<1>1. /\ JobTrue(j) /\ Since(j)' /\ Ready(PlanOf(j))'
      /\ Binding(j)' = Binding(j) /\ Ops(j)' = Ops(j) /\ applies[j] = 1
  BY Applier
<1>2. applies'[j] = 1
  BY <1>1 DEF Advance, Releases, Continues, PrepareSteps, ApplySteps
<1>3. Untouched(j)' /\ Approved(j)' /\ CutShort(j)' /\ Staged(j)'
  BY <1>1, <1>2 DEF Untouched, Approved, CutShort, Staged, RuntimeStages
<1>4. Targeted(j)'
  BY <1>1, <1>2 DEF JobTrue, Targeted, Nothing
<1>5. Honest(j)'
  BY <1>2 DEF Honest, InFlight, Nothing
<1>6. Whole(j)'
  BY <1>1, <1>2 DEF JobTrue, Whole, Recorded, InFlight, Done
<1> QED
  BY <1>3, <1>4, <1>5, <1>6 DEF JobTrue

\* What the journal writes leave in the row.
LEMMA JournalRows ==
  ASSUME TypeOK, NEW j \in Jobs, NEW entry
  PROVE  /\ Route(j) = "composite" =>
              /\ Journaled(j, entry).entry = entry
              /\ RaisedAfter(j, entry).entry = entry
              /\ Journaled(j, entry).acked <=> jobs[j].acked \/ entry = "acknowledged"
              /\ RaisedAfter(j, entry).acked <=> jobs[j].acked \/ entry = "acknowledged"
         /\ Route(j) # "composite" =>
              /\ Journaled(j, entry) = jobs[j]
              /\ RaisedAfter(j, entry).entry = jobs[j].entry
              /\ RaisedAfter(j, entry).acked = jobs[j].acked
         /\ RaisedAfter(j, entry).stage = "runtime_reconcile"
         /\ Raised(j).stage = "runtime_reconcile"
         /\ Raised(j).entry = jobs[j].entry /\ Raised(j).acked = jobs[j].acked
<1>1. jobs[j] \in RowType
  BY DEF TypeOK
<1>2. /\ Raised(j).stage = "runtime_reconcile"
      /\ Raised(j).entry = jobs[j].entry /\ Raised(j).acked = jobs[j].acked
  BY <1>1 DEF Raised, Row, RowType
<1>3. CASE Route(j) = "composite"
  <2> DEFINE row == Row(j, "running", "runtime_stage", "unknown")
             filled == [row EXCEPT !.entry = entry,
                                   !.acked = @ \/ entry = "acknowledged",
                                   !.after = RevisionAfter(entry)]
  <2>1. Journaled(j, entry) = filled
    BY <1>3 DEF Journaled, Route
  <2>2. DOMAIN row = DOMAIN NoRow /\ row.acked = jobs[j].acked
    BY <1>1 DEF Row, RowType, NoRow
  <2>3. /\ filled.entry = entry /\ DOMAIN filled = DOMAIN NoRow
        /\ filled.acked <=> row.acked \/ entry = "acknowledged"
    BY <1>1, <2>2 DEF NoRow
  <2> HIDE DEF filled
  <2>4. LET r == [filled EXCEPT !.stage = "runtime_reconcile"] IN
          /\ r.stage = "runtime_reconcile"
          /\ r.entry = filled.entry /\ r.acked = filled.acked
    BY <2>3 DEF NoRow
  <2> QED
    BY <1>2, <1>3, <2>1, <2>2, <2>3, <2>4 DEF RaisedAfter
<1>4. CASE Route(j) # "composite"
  <2>1. Journaled(j, entry) = jobs[j]
    BY <1>4 DEF Journaled, Route
  <2> QED
    BY <1>1, <1>2, <1>4, <2>1 DEF RaisedAfter, RowType
<1> QED
  BY <1>3, <1>4

\* A stage that was refused leaves what the stages before it left.
LEMMA Refused ==
  ASSUME NEW j \in Jobs, NEW n \in Nat \ {0}, Done(j, n - 1), Progress(j, n),
         Binding(j).rev \in Int, prov.rev \in Int, TypeOK
  PROVE  /\ Nothing(j) <=> n = 1
         /\ Nothing(j) => prov.rev = Binding(j).rev
         /\ Told(j)
         /\ ~prov.started => Nothing(j)
         /\ Route(j) = "composite" => (Nothing(j) <=> ~jobs[j].acked)
         /\ Route(j) # "composite" => jobs[j].entry = "none"
<1>1. Nothing(j) <=> n = 1
  <2>1. executed[j] \in Seq(MutatingOps \cup {"failed"})
    BY DEF TypeOK
  <2> QED
    BY <2>1 DEF Done, Nothing
<1> QED
  BY <1>1 DEF Progress, Told

\* What the thread must have learnt when it goes on with the application.
LEMMA GoesOn ==
  ASSUME Inv, Turns, Attribution, [Next]_vars, NEW t \in Threads,
         thr[t].pc \in ApplySteps, RunJob(t),
         UNCHANGED <<player, executed, base, interrupted>>,
         NEW j \in Jobs, j = thr[t].job,
         NEW pc, pc = thr'[t].pc, pc # "idle",
         NEW n, n = thr'[t].step, NEW out, out = thr'[t].out,
         jobs'[j].stage = "runtime_stage" =>
           jobs[j].stage = "runtime_stage" \/ Route(j) = "composite",
         \/ wire' = wire \/ wire' = NoRequest
         \/ /\ wire'.job = j /\ j \notin facts
            /\ Nothing(j) => wire'.rev = Binding(j).rev,
         \/ facts' = facts
         \/ facts' = facts \cup {j} /\ ~InFlight(j)' /\ Done(j, Len(Ops(j))),
         pc = "send" => Sending(j, n)',
         pc = "await" => Awaiting(j, n)',
         pc = "verify" => Verifying(j)',
         pc = "reconcile" => Reconciling(j)',
         pc \in {"after", "facts", "close"} => Concluding(j, out)',
         pc \in {"facts", "close"} => out.status = "completed"
  PROVE  Attribution'
<1>1. Advance(t)
  BY ThreadsAdvance
<1>2. /\ JobTrue(j)' /\ thr'[t].job = j
      /\ pc \in ApplySteps \ {"apply"} /\ applies'[j] = 1
  BY <1>1, ApplierGoesOn
<1>3. Ready(PlanOf(j))' /\ Since(j)'
  BY <1>1, Applier
<1>4. Learnt(j, pc, n, out)'
  BY <1>2, <1>3 DEF Learnt, ApplySteps
<1>5. Applying(t)'
  BY <1>2, <1>4 DEF Applying
<1>6. facts' \subseteq facts \cup {j} /\ (wire' = wire \/ wire'.job = j \/ wire' = NoRequest)
  OBVIOUS
<1> QED
  BY <1>2, <1>5, <1>6, OwnStep

LEMMA ApplyPreludeAttribution ==
  ASSUME Inv, Turns, Attribution, [Next]_vars, NEW t \in Threads, ApplyPrelude(t)
  PROVE  Attribution'
<1>0. /\ RunJob(t) /\ Advance(t) /\ TypeOK /\ thr[t].pc = "apply"
      /\ UNCHANGED <<player, executed, base, interrupted, wire, facts>>
  BY ThreadsAdvance DEF RunJob, ApplyPrelude, At, Inv, TypeInv, world
<1>1. PICK j \in Jobs : j = thr[t].job
  BY <1>0 DEF Advance
<1>2. /\ JobTrue(j) /\ applies[j] = 0 /\ Binding(j)' = Binding(j) /\ Route(j)' = Route(j)
      /\ Ops(j)' = Ops(j) /\ Binding(j).rev \in Int /\ thr[t].pc \in ApplySteps
  BY <1>0, <1>1, Applier DEF ApplySteps
<1>3. /\ Nothing(j) /\ wire.job # j /\ jobs[j].entry = "none" /\ ~jobs[j].acked
      /\ prov.rev = Binding(j).rev
  BY <1>0, <1>1, <1>2 DEF JobTrue, Untouched, Attribution, Applying, Learnt
<1>4. CASE Save(t, Raised(j), "reconcile")
  <2>1. thr'[t].pc = "reconcile" /\ jobs'[j] = Raised(j)
    BY <1>0, <1>1, <1>4, Saved
  <2>2. jobs'[j].entry = "none" /\ jobs'[j].stage = "runtime_reconcile"
    BY <1>0, <1>3, <2>1, JournalRows
  <2>3. Reconciling(j)'
    BY <1>0, <1>3, <2>2 DEF Reconciling, InFlight, Nothing
  <2>4. PICK pc, n, out : pc = thr'[t].pc /\ n = thr'[t].step /\ out = thr'[t].out
    OBVIOUS
  <2>5. pc = "reconcile"
    BY <2>1, <2>4
  <2> QED
    BY <1>0, <1>1, <1>2, <2>2, <2>3, <2>4, <2>5, GoesOn
<1>5. CASE /\ thr' = [thr EXCEPT ![t].pc = "send", ![t].step = 1]
           /\ prov' = [prov EXCEPT !.started = FALSE] /\ UNCHANGED jobs
  <2>1. thr'[t].pc = "send" /\ thr'[t].step = 1
    BY <1>0, <1>5 DEF TypeOK, ThreadType
  <2>2. prov'.rev = prov.rev
    BY <1>0, <1>5 DEF TypeOK, ProvType
  <2>3. Progress(j, 1)'
    BY <1>2, <1>3, <1>5, <2>2 DEF Progress
  <2>4. Sending(j, 1)'
    BY <1>0, <1>3, <2>3 DEF Sending, Done, Nothing
  <2>5. PICK pc, n, out : pc = thr'[t].pc /\ n = thr'[t].step /\ out = thr'[t].out
    OBVIOUS
  <2>6. pc = "send" /\ n = 1
    BY <2>1, <2>5
  <2> QED
    BY <1>0, <1>1, <1>2, <1>5, <2>4, <2>5, <2>6, GoesOn
<1> QED
  BY <1>1, <1>4, <1>5 DEF ApplyPrelude

LEMMA SendStageAttribution ==
  ASSUME Inv, Turns, Attribution, [Next]_vars, NEW t \in Threads, SendStage(t)
  PROVE  Attribution'
<1>0. /\ RunJob(t) /\ Advance(t) /\ TypeOK /\ thr[t].pc = "send"
      /\ UNCHANGED <<player, executed, base, interrupted, facts, prov>>
  BY ThreadsAdvance DEF RunJob, SendStage, At, Inv, TypeInv, world, history
<1>1. PICK j \in Jobs : j = thr[t].job
  BY <1>0 DEF Advance
<1>2. /\ JobTrue(j) /\ Binding(j)' = Binding(j) /\ Route(j)' = Route(j)
      /\ Ops(j)' = Ops(j) /\ Binding(j).rev \in Int /\ prov.rev \in Int
      /\ Len(Ops(j)) \in 1..5 /\ thr[t].pc \in ApplySteps
  BY <1>0, <1>1, Applier DEF ApplySteps
<1>3. PICK n \in Nat \ {0} : n = thr[t].step /\ n <= Len(Ops(j))
  <2>1. thr[t].step \in 1..Len(Ops(j))
    BY <1>0, <1>1 DEF Inv, TypeInv, OperationsExist, Ops, Route
  <2> QED
    BY <1>2, <2>1
<1>4. Sending(j, n)
  BY <1>0, <1>1, <1>3 DEF Attribution, Applying, Learnt
<1>5. /\ wire.job # j /\ Done(j, n - 1) /\ Progress(j, n)
      /\ Nothing(j) <=> n = 1
      /\ Nothing(j) => prov.rev = Binding(j).rev
      /\ Told(j)
      /\ ~prov.started => Nothing(j)
      /\ Route(j) = "composite" => (Nothing(j) <=> ~jobs[j].acked)
      /\ Route(j) # "composite" => jobs[j].entry = "none"
  <2>1. wire.job # j /\ Done(j, n - 1) /\ Progress(j, n)
    BY <1>4 DEF Sending
  <2> QED
    BY <1>0, <1>2, <2>1, Refused
<1>6. CASE /\ wire' = [job |-> j, op |-> Op(t), rev |-> prov.rev, reply |-> "pending"]
           /\ Save(t, Journaled(j, "dispatching"), "await")
  <2>1. /\ thr'[t].pc = "await" /\ thr'[t].step = n
        /\ jobs'[j] = Journaled(j, "dispatching")
    BY <1>0, <1>1, <1>3, <1>6, Saved, GoneTo DEF Save
  <2>2. j \notin facts
    <3>1. ~Done(j, Len(Ops(j)))
      BY <1>2, <1>3, <1>5 DEF Done
    <3> QED
      BY <1>2, <3>1 DEF JobTrue, Whole, Recorded
  <2>3. Op(t) = Ops(j)[n]
    BY <1>1, <1>3 DEF Op, Ops, Route
  <2>4. /\ jobs'[j].acked <=> jobs[j].acked
        /\ Route(j) # "composite" => jobs'[j] = jobs[j]
    BY <1>0, <2>1, JournalRows
  <2>5. Progress(j, n)'
    BY <1>0, <1>2, <1>5, <2>4 DEF Progress
  <2>6. wire'.job = j /\ wire'.op = Ops(j)[n] /\ wire'.rev = prov.rev /\ wire'.reply = "pending"
    BY <1>6, <2>3
  <2>7. Awaiting(j, n)'
    BY <1>0, <1>2, <1>5, <2>5, <2>6 DEF Awaiting, Done
  <2>8. jobs'[j].stage = "runtime_stage" =>
          jobs[j].stage = "runtime_stage" \/ Route(j) = "composite"
    BY <2>4
  <2> QED
    BY <1>0, <1>1, <1>2, <1>5, <2>1, <2>2, <2>6, <2>7, <2>8, GoesOn
<1>7. ASSUME NEW entry \in {"unknown", "rejected"},
             Save(t, RaisedAfter(j, entry), "reconcile"), UNCHANGED wire
      PROVE  Attribution'
  <2>1. thr'[t].pc = "reconcile" /\ jobs'[j] = RaisedAfter(j, entry)
    BY <1>0, <1>1, <1>7, Saved
  <2>2. /\ jobs'[j].stage = "runtime_reconcile"
        /\ Route(j) = "composite" =>
             jobs'[j].entry = entry /\ (jobs'[j].acked <=> jobs[j].acked)
        /\ Route(j) # "composite" => jobs'[j].entry = "none"
    BY <1>0, <1>5, <2>1, JournalRows
  <2>3. ~InFlight(j)' /\ (Told(j)' <=> Told(j)) /\ (Nothing(j)' <=> Nothing(j))
    BY <1>0, <1>2, <1>5, <1>7 DEF InFlight, Told, Nothing
  <2>4. Reconciling(j)'
    BY <1>0, <1>5, <2>2, <2>3 DEF Reconciling
  <2> QED
    BY <1>0, <1>1, <1>2, <1>7, <2>1, <2>2, <2>4, GoesOn
<1> QED
  BY <1>1, <1>6, <1>7 DEF SendStage

\* The thread's step before the outcome is known ends in a reconciliation.
LEMMA Reconciled ==
  ASSUME Inv, Turns, Attribution, [Next]_vars, NEW t \in Threads,
         thr[t].pc \in ApplySteps, RunJob(t),
         UNCHANGED <<player, executed, base, interrupted, facts>>,
         wire' = wire \/ wire' = NoRequest,
         NEW j \in Jobs, j = thr[t].job,
         thr'[t].pc = "reconcile", jobs'[j].stage = "runtime_reconcile",
         Reconciling(j)'
  PROVE  Attribution'
<1>1. PICK pc, n, out : pc = thr'[t].pc /\ n = thr'[t].step /\ out = thr'[t].out
  OBVIOUS
<1>2. pc = "reconcile"
  BY <1>1
<1> QED
  BY <1>1, <1>2, GoesOn

LEMMA ReceiveReplyAttribution ==
  ASSUME Inv, Turns, Attribution, [Next]_vars, NEW t \in Threads, ReceiveReply(t)
  PROVE  Attribution'
<1>0. /\ RunJob(t) /\ Advance(t) /\ TypeOK /\ thr[t].pc = "await"
      /\ wire.job = thr[t].job /\ wire.reply # "pending" /\ wire' = NoRequest
      /\ UNCHANGED <<player, executed, base, interrupted, facts>>
  BY ThreadsAdvance
     DEF RunJob, ReceiveReply, Awaited, At, Inv, TypeInv, world, history
<1>1. PICK j \in Jobs : j = thr[t].job
  BY <1>0 DEF Advance
<1>2. /\ JobTrue(j) /\ Binding(j)' = Binding(j) /\ Route(j)' = Route(j)
      /\ Ops(j)' = Ops(j) /\ Binding(j).rev \in Int /\ prov.rev \in Int
      /\ Len(Ops(j)) \in 1..5 /\ thr[t].pc \in ApplySteps
  BY <1>0, <1>1, Applier DEF ApplySteps
<1>3. PICK n \in Nat \ {0} : n = thr[t].step /\ n <= Len(Ops(j))
  <2>1. thr[t].step \in 1..Len(Ops(j))
    BY <1>0, <1>1 DEF Inv, TypeInv, OperationsExist, Ops, Route
  <2> QED
    BY <1>2, <2>1
<1>4. Awaiting(j, n) /\ Progress(j, n)
  BY <1>0, <1>1, <1>3 DEF Attribution, Applying, Learnt, Awaiting
<1>5. wire'.job # j /\ ~InFlight(j)'
  BY <1>0 DEF NoRequest, Jobs, InFlight
<1>6. CASE /\ wire.reply = "completed"
           /\ prov' = [prov EXCEPT !.rev = @ + 1, !.started = TRUE,
                         !.gen = IF Op(t) = "module.load" THEN @ + 1 ELSE @]
           /\ jobs' = [jobs EXCEPT ![j] = Journaled(j, "acknowledged")]
           /\ thr' = [thr EXCEPT ![t].pc = IF LastStep(t) THEN "verify" ELSE "send",
                                 ![t].step = IF LastStep(t) THEN @ ELSE @ + 1]
  <2>1. prov'.rev = prov.rev + 1 /\ prov'.started
    BY <1>0, <1>6 DEF TypeOK, ProvType
  <2>2. jobs'[j] = Journaled(j, "acknowledged")
    BY <1>0, <1>6 DEF TypeOK
  <2>3. /\ Route(j) = "composite" => jobs'[j].entry = "acknowledged" /\ jobs'[j].acked
        /\ Route(j) # "composite" => jobs'[j] = jobs[j]
    BY <1>0, <2>2, JournalRows
  <2>4. Done(j, n) /\ Done(j, n)'
    BY <1>0, <1>2, <1>4, <1>6 DEF Awaiting, Done
  <2>5. LastStep(t) <=> n = Len(Ops(j))
    BY <1>1, <1>3 DEF LastStep, Ops, Route
  <2>6. PICK pc, m, out : pc = thr'[t].pc /\ m = thr'[t].step /\ out = thr'[t].out
    OBVIOUS
  <2>7. jobs'[j].stage = "runtime_stage" =>
          jobs[j].stage = "runtime_stage" \/ Route(j) = "composite"
    BY <2>3
  <2>8. CASE LastStep(t)
    <3>1. pc = "verify"
      BY <1>0, <1>6, <2>6, <2>8 DEF TypeOK, ThreadType
    <3>2. jobs'[j].entry \in {"none", "acknowledged"}
      BY <1>4, <2>3 DEF Progress
    <3>3. Verifying(j)'
      BY <1>2, <1>5, <2>1, <2>4, <2>5, <2>8, <3>2 DEF Verifying
    <3> QED
      BY <1>0, <1>1, <1>2, <2>6, <2>7, <3>1, <3>3, GoesOn
  <2>9. CASE ~LastStep(t)
    <3>1. pc = "send" /\ m = n + 1
      <4>1. thr[t] \in ThreadType
        BY <1>0 DEF TypeOK
      <4>2. thr'[t].pc = "send" /\ thr'[t].step = thr[t].step + 1
        BY <1>0, <1>6, <2>9, <4>1 DEF TypeOK, ThreadType
      <4> QED
        BY <1>3, <2>6, <4>2
    <3>2. Progress(j, m)'
      BY <1>2, <1>3, <1>4, <2>1, <2>3, <3>1 DEF Progress
    <3>3. Done(j, m - 1)'
      BY <1>3, <2>4, <3>1
    <3>4. Sending(j, m)'
      BY <1>5, <3>2, <3>3 DEF Sending
    <3> QED
      BY <1>0, <1>1, <1>2, <2>6, <2>7, <3>1, <3>4, GoesOn
  <2> QED
    BY <2>8, <2>9
<1>7. ASSUME prov' = [prov EXCEPT !.rev = @ + 1, !.started = TRUE],
             NEW entry \in {"acknowledged", "failed_with_transition"},
             entry = "failed_with_transition" => wire.reply = entry,
             Save(t, RaisedAfter(j, entry), "reconcile")
      PROVE  Attribution'
  <2>1. prov'.rev = prov.rev + 1 /\ prov'.started
    BY <1>0, <1>7 DEF TypeOK, ProvType
  <2>2. thr'[t].pc = "reconcile" /\ jobs'[j] = RaisedAfter(j, entry)
    BY <1>0, <1>1, <1>7, Saved
  <2>3. /\ jobs'[j].stage = "runtime_reconcile"
        /\ Route(j) = "composite" => jobs'[j].entry = entry
        /\ Route(j) # "composite" => jobs'[j].entry = "none"
    BY <1>0, <1>4, <2>2, JournalRows DEF Progress
  <2>4. entry = "failed_with_transition" => ~Nothing(j)'
    BY <1>0, <1>4, <1>7 DEF Awaiting, Nothing
  <2>5. ~(prov'.rev = Binding(j).rev)
    BY <1>2, <1>4, <2>1 DEF Progress
  <2>6. Reconciling(j)'
    BY <1>2, <1>5, <2>1, <2>3, <2>4, <2>5 DEF Reconciling, Told
  <2> QED
    BY <1>0, <1>1, <1>2, <2>2, <2>3, <2>6, Reconciled
<1>8. CASE /\ wire.reply = "rejected" /\ UNCHANGED prov
           /\ Save(t, RaisedAfter(j, "rejected"), "reconcile")
  <2>1. /\ Nothing(j) => prov.rev = Binding(j).rev
        /\ Told(j)
        /\ ~prov.started => Nothing(j)
        /\ Route(j) = "composite" => (Nothing(j) <=> ~jobs[j].acked)
        /\ Route(j) # "composite" => jobs[j].entry = "none"
    <3>1. Done(j, n - 1)
      BY <1>4, <1>8 DEF Awaiting
    <3> QED
      BY <1>0, <1>2, <1>4, <3>1, Refused
  <2>2. thr'[t].pc = "reconcile" /\ jobs'[j] = RaisedAfter(j, "rejected")
    BY <1>0, <1>1, <1>8, Saved
  <2>3. /\ jobs'[j].stage = "runtime_reconcile"
        /\ Route(j) = "composite" =>
             jobs'[j].entry = "rejected" /\ (jobs'[j].acked <=> jobs[j].acked)
        /\ Route(j) # "composite" => jobs'[j].entry = "none"
    BY <1>0, <2>1, <2>2, JournalRows
  <2>4. (Told(j)' <=> Told(j)) /\ (Nothing(j)' <=> Nothing(j))
    BY <1>0, <1>2, <1>8 DEF Told, Nothing
  <2>5. Reconciling(j)'
    BY <1>5, <1>8, <2>1, <2>3, <2>4 DEF Reconciling
  <2> QED
    BY <1>0, <1>1, <1>2, <2>2, <2>3, <2>5, Reconciled
<1>9. ASSUME wire.reply \in {"completed", "failed_with_transition"}, UNCHANGED prov,
             Save(t, RaisedAfter(j, "failed_with_transition"), "reconcile")
      PROVE  Attribution'
  <2>1. thr'[t].pc = "reconcile" /\ jobs'[j] = RaisedAfter(j, "failed_with_transition")
    BY <1>0, <1>1, <1>9, Saved
  <2>2. jobs'[j].stage = "runtime_reconcile"
    BY <1>0, <2>1, JournalRows
  <2>3. Reconciling(j)'
    BY <1>0, <1>4, <1>9 DEF Awaiting, Behind, Reconciling
  <2> QED
    BY <1>0, <1>1, <1>2, <2>1, <2>2, <2>3, Reconciled
<1>10. ASSUME prov' = prov \/ prov' = [prov EXCEPT !.started = TRUE],
              Save(t, RaisedAfter(j, "unknown"), "reconcile")
       PROVE  Attribution'
  <2>1. thr'[t].pc = "reconcile" /\ jobs'[j] = RaisedAfter(j, "unknown")
    BY <1>0, <1>1, <1>10, Saved
  <2>2. /\ jobs'[j].stage = "runtime_reconcile"
        /\ jobs'[j].entry \in {"none", "unknown"}
    BY <1>0, <1>4, <2>1, JournalRows DEF Progress
  <2>3. prov'.rev = prov.rev /\ (prov'.started \/ prov' = prov)
    BY <1>0, <1>10 DEF TypeOK, ProvType
  <2>4. Reconciling(j)'
    <3>1. CASE prov'.started
      BY <2>2, <3>1 DEF Reconciling
    <3>2. CASE wire.reply = "rejected" /\ prov' = prov
      <4>1. Done(j, n - 1)
        BY <1>4, <3>2 DEF Awaiting
      <4>2. ~prov.started => Nothing(j)
        BY <1>0, <1>2, <1>4, <4>1, Refused
      <4> QED
        BY <1>0, <1>5, <2>2, <3>2, <4>2 DEF Reconciling, Nothing
    <3>3. CASE wire.reply # "rejected" /\ prov' = prov
      <4>1. Behind
        <5>1. wire.reply \in {"completed", "failed_with_transition"}
          BY <1>0, <1>1, <3>3 DEF TypeOK, WireType, RequestType, NoRequest, Jobs
        <5> QED
          BY <1>4, <5>1 DEF Awaiting
      <4> QED
        BY <1>0, <3>3, <4>1 DEF Behind, Reconciling
    <3> QED
      BY <2>3, <3>1, <3>2, <3>3
  <2> QED
    BY <1>0, <1>1, <1>2, <2>1, <2>2, <2>4, Reconciled
<1> QED
  BY <1>1, <1>6, <1>7, <1>8, <1>9, <1>10 DEF ReceiveReply

LEMMA LoseReplyAttribution ==
  ASSUME Inv, Turns, Attribution, [Next]_vars, NEW t \in Threads, LoseReply(t)
  PROVE  Attribution'
<1>0. /\ RunJob(t) /\ Advance(t) /\ TypeOK /\ thr[t].pc = "await"
      /\ UNCHANGED <<player, executed, base, interrupted, facts, wire>>
  BY ThreadsAdvance DEF RunJob, LoseReply, At, Inv, TypeInv, world, history
<1>1. PICK j \in Jobs : j = thr[t].job
  BY <1>0 DEF Advance
<1>2. thr[t].pc \in ApplySteps
  BY <1>0 DEF ApplySteps
<1>3. Route(j) # "composite" => jobs[j].entry = "none"
  BY <1>0, <1>1 DEF Attribution, Applying, Learnt, Awaiting, Progress
<1>4. prov'.started
  <2>1. DOMAIN Retired = DOMAIN prov /\ "started" \in DOMAIN prov
    BY <1>0 DEF Retired, TypeOK, ProvType
  <2> QED
    BY <2>1 DEF LoseReply
<1>5. thr'[t].pc = "reconcile" /\ jobs'[j] = RaisedAfter(j, "unknown")
  BY <1>0, <1>1, Saved DEF LoseReply
<1>6. jobs'[j].stage = "runtime_reconcile" /\ jobs'[j].entry \in {"none", "unknown"}
  BY <1>0, <1>3, <1>5, JournalRows
<1>7. Reconciling(j)'
  BY <1>4, <1>6 DEF Reconciling
<1> QED
  BY <1>0, <1>1, <1>2, <1>5, <1>6, <1>7, Reconciled

LEMMA VerifyAppliedAttribution ==
  ASSUME Inv, Turns, Attribution, [Next]_vars, NEW t \in Threads, VerifyApplied(t)
  PROVE  Attribution'
<1>0. /\ RunJob(t) /\ Advance(t) /\ TypeOK /\ thr[t].pc = "verify"
      /\ UNCHANGED <<player, executed, base, interrupted, facts, wire>>
  BY ThreadsAdvance DEF RunJob, VerifyApplied, At, Inv, TypeInv, world, history
<1>1. PICK j \in Jobs : j = thr[t].job
  BY <1>0 DEF Advance
<1>2. /\ Ops(j)' = Ops(j) /\ Len(Ops(j)) \in 1..5 /\ thr[t].pc \in ApplySteps
  BY <1>0, <1>1, Applier DEF ApplySteps
<1>3. Verifying(j)
  BY <1>0, <1>1 DEF Attribution, Applying, Learnt
<1>4. KeepsTarget
  BY <1>0, Observes DEF VerifyApplied
<1>5. CASE /\ thr' = [thr EXCEPT ![t].pc = "after",
                 ![t].out = [status |-> "completed", changed |-> "yes",
                             matched |-> "yes"]]
           /\ UNCHANGED jobs
  <2>1. /\ thr'[t].pc = "after"
        /\ thr'[t].out = [status |-> "completed", changed |-> "yes", matched |-> "yes"]
    BY <1>0, <1>5 DEF TypeOK, ThreadType
  <2>2. PICK pc, n, out : pc = thr'[t].pc /\ n = thr'[t].step /\ out = thr'[t].out
    OBVIOUS
  <2>3. pc = "after" /\ out.status = "completed" /\ out.changed = "yes" /\ out.matched = "yes"
    BY <2>1, <2>2
  <2>4. ~InFlight(j)' /\ Done(j, Len(Ops(j)))' /\ ~Nothing(j)'
    <3>1. Len(executed[j]) # 0
      <4>1. Len(executed[j]) = Len(Ops(j))
        BY <1>3 DEF Verifying, Done
      <4> QED
        BY <1>2, <4>1
    <3>2. ~Nothing(j)'
      BY <1>0, <3>1 DEF Nothing
    <3>3. ~InFlight(j)' /\ Done(j, Len(Ops(j)))'
      BY <1>0, <1>2, <1>3 DEF Verifying, InFlight, Done
    <3> QED
      BY <3>2, <3>3
  <2>5. Concluding(j, out)'
    BY <2>3, <2>4 DEF Concluding
  <2> QED
    BY <1>0, <1>1, <1>2, <1>5, <2>2, <2>3, <2>5, GoesOn
<1>6. CASE Save(t, Raised(j), "reconcile")
  <2>1. thr'[t].pc = "reconcile" /\ jobs'[j] = Raised(j)
    BY <1>0, <1>1, <1>6, Saved
  <2>2. jobs'[j].stage = "runtime_reconcile" /\ jobs'[j].entry \in {"none", "acknowledged"}
    BY <1>0, <1>3, <2>1, JournalRows DEF Verifying
  <2>3. Reconciling(j)'
    BY <1>3, <1>4, <2>2 DEF Reconciling, Verifying, KeepsTarget
  <2> QED
    BY <1>0, <1>1, <1>2, <2>1, <2>2, <2>3, Reconciled
<1> QED
  BY <1>1, <1>5, <1>6 DEF VerifyApplied

LEMMA ReconcileApplyAttribution ==
  ASSUME Inv, Turns, Attribution, [Next]_vars, NEW t \in Threads, ReconcileApply(t)
  PROVE  Attribution'
<1>0. /\ RunJob(t) /\ Advance(t) /\ TypeOK /\ thr[t].pc = "reconcile"
      /\ UNCHANGED <<player, executed, base, interrupted, facts, wire, jobs>>
  BY ThreadsAdvance DEF RunJob, ReconcileApply, At, Inv, TypeInv, world, history
<1>1. PICK j \in Jobs : j = thr[t].job
  BY <1>0 DEF Advance
<1>2. Binding(j)' = Binding(j) /\ thr[t].pc \in ApplySteps
  BY <1>0, <1>1, Applier DEF ApplySteps
<1>3. Reconciling(j)
  BY <1>0, <1>1 DEF Attribution, Applying, Learnt
<1>4. prov'.rev = prov.rev
  BY <1>0 DEF ReconcileApply, Retired, TypeOK, ProvType
<1>5. PICK pc, n, out : /\ pc = thr'[t].pc /\ n = thr'[t].step /\ out = thr'[t].out
                        /\ pc = "after" /\ out = ReconcileOutcome(j)
  BY <1>0, <1>1 DEF ReconcileApply, TypeOK, ThreadType
<1>6. (Told(j)' <=> Told(j)) /\ (Nothing(j)' <=> Nothing(j)) /\ (InFlight(j)' <=> InFlight(j))
  BY <1>0, <1>2, <1>4 DEF Told, Nothing, InFlight
<1>7. ASSUME ~Behind, jobs[j].entry \in {"rejected", "failed_with_transition"},
             out = FailedOutcome(IF \/ jobs[j].acked
                                    \/ jobs[j].entry = "failed_with_transition"
                                 THEN "yes" ELSE "no", "no")
      PROVE  Concluding(j, out)'
  <2>1. /\ ~InFlight(j)' /\ Told(j)'
        /\ Nothing(j)' <=> jobs[j].entry = "rejected" /\ ~jobs[j].acked
    BY <1>3, <1>6, <1>7 DEF Reconciling
  <2>2. /\ out.status = "failed" /\ out.matched = "no"
        /\ out.changed = IF \/ jobs[j].acked
                             \/ jobs[j].entry = "failed_with_transition"
                          THEN "yes" ELSE "no"
    BY <1>7 DEF FailedOutcome
  <2> QED
    BY <1>7, <2>1, <2>2 DEF Concluding
<1>8. ASSUME ~Behind, jobs[j].entry = "none", ~prov.started,
             out = FailedOutcome("no", "none")
      PROVE  Concluding(j, out)'
  <2>1. ~InFlight(j)' /\ Nothing(j)'
    BY <1>3, <1>6, <1>8 DEF Reconciling
  <2> QED
    BY <1>8, <2>1 DEF Concluding, FailedOutcome
<1>9. ASSUME out = Unknown PROVE Concluding(j, out)'
  BY <1>9 DEF Concluding, Unknown
<1>10. CASE Behind
  <2>1. out.status # "completed"
    BY <1>5 DEF ReconcileOutcome, FailedOutcome, Unknown
  <2>2. Behind'
    BY <1>0, <1>4, <1>10 DEF Behind
  <2> QED
    BY <1>0, <1>1, <1>2, <1>5, <2>1, <2>2, GoesOn DEF Concluding
<1>11. CASE ~Behind
  <2>1. Concluding(j, out)'
    BY <1>5, <1>7, <1>8, <1>9, <1>11 DEF ReconcileOutcome
  <2> QED
    BY <1>0, <1>1, <1>2, <1>5, <2>1, GoesOn
<1> QED
  BY <1>10, <1>11

LEMMA ObserveAfterAttribution ==
  ASSUME Inv, Turns, Attribution, [Next]_vars, NEW t \in Threads, ObserveAfter(t)
  PROVE  Attribution'
<1>0. /\ RunJob(t) /\ Advance(t) /\ TypeOK /\ thr[t].pc = "after"
      /\ UNCHANGED <<player, executed, base, interrupted, facts, wire>>
  BY ThreadsAdvance DEF RunJob, ObserveAfter, At, Inv, TypeInv, world, history
<1>1. PICK j, out : j \in Jobs /\ j = thr[t].job /\ out = thr[t].out
  BY <1>0 DEF Advance
<1>2. /\ Binding(j)' = Binding(j) /\ Ops(j)' = Ops(j)
      /\ thr[t].pc \in ApplySteps \ {"apply"}
  BY <1>0, <1>1, Applier DEF ApplySteps
<1>3. Concluding(j, out)
  BY <1>0, <1>1 DEF Attribution, Applying, Learnt
<1>4. KeepsTarget
  BY <1>0, Observes DEF ObserveAfter
<1> DEFINE moved == IF RevisionMoved(PlanOf(j)) THEN "yes" ELSE "no"
<1>5. CASE Goto(t, "facts") /\ UNCHANGED jobs /\ out.status = "completed"
  <2>1. thr'[t].pc = "facts" /\ thr'[t].out = out
    BY <1>0, <1>1, <1>5, GoneTo
  <2>2. PICK pc, n : pc = "facts" /\ pc = thr'[t].pc /\ n = thr'[t].step
    BY <2>1
  <2>3. Concluding(j, out)'
    BY <1>0, <1>2, <1>3, <1>4, <1>5 DEF Concluding, InFlight, Nothing, Told, KeepsTarget, Done
  <2> QED
    BY <1>0, <1>1, <1>2, <1>5, <2>1, <2>2, <2>3, GoesOn
<1>6. ASSUME NEW state, NEW stage \in {"error", "runtime_failed"}, NEW changed,
             Leave(t, Row(j, state, stage, changed)),
             changed # "unknown" => ~InFlight(j),
             changed = "no" => Nothing(j), changed = "yes" => ~Nothing(j)
      PROVE  Attribution'
  <2>1. thr'[t].pc = "idle" /\ jobs'[j] = Row(j, state, stage, changed)
    BY <1>0, <1>1, <1>6, Left
  <2>2. jobs'[j].stage = stage /\ jobs'[j].changed = changed
    BY <1>0, <1>1, <2>1, RowKeeps
  <2>3. JobTrue(j)'
    BY <1>0, <1>1, <1>2, <1>6, <2>1, <2>2, ApplierLeaves
  <2> QED
    BY <1>0, <1>1, <2>1, <2>3, NotYet, OwnStep
<1>7. CASE /\ ~Behind /\ out.matched = "none"
           /\ Leave(t, Row(j, out.status, "runtime_failed", out.changed))
  BY <1>3, <1>6, <1>7 DEF Concluding
<1>8. CASE /\ ~Behind /\ out.matched # "none" /\ out.status # "completed"
           /\ Leave(t, Row(j, "failed", "error", moved))
  <2>1. out.matched = "no"
    <3>1. out.matched \in {"none", "yes", "no"}
      BY <1>0, <1>1 DEF TypeOK, ThreadType, OutcomeType
    <3> QED
      BY <1>3, <1>8, <3>1 DEF Concluding
  <2>2. ~InFlight(j) /\ Told(j)
    BY <1>3, <1>8, <2>1 DEF Concluding
  <2>3. (moved = "no" => Nothing(j)) /\ (moved = "yes" => ~Nothing(j))
    BY <2>2 DEF Told, RevisionMoved, Binding
  <2> QED
    BY <1>6, <1>8, <2>2, <2>3
<1>9. CASE Leave(t, UnknownRow(j))
  BY <1>6, <1>9 DEF UnknownRow
<1>10. \A r : Observe(r) /\ r = "ok" => ~Behind
  BY <1>0, Observes
<1> QED
  BY <1>1, <1>5, <1>7, <1>8, <1>9, <1>10 DEF ObserveAfter

LEMMA RecordsAttribution ==
  ASSUME Inv, Turns, Attribution, [Next]_vars, NEW t \in Threads,
         RecordFacts(t) \/ CloseApply(t)
  PROVE  Attribution'
<1>0. /\ RunJob(t) /\ Advance(t) /\ TypeOK /\ thr[t].pc \in {"facts", "close"}
      /\ UNCHANGED <<player, executed, base, interrupted, wire, prov>>
  BY ThreadsAdvance DEF RunJob, RecordFacts, CloseApply, At, Inv, TypeInv, world, history
<1>1. PICK j, out : j \in Jobs /\ j = thr[t].job /\ out = thr[t].out
  BY <1>0 DEF Advance
<1>2. /\ Binding(j)' = Binding(j) /\ Ops(j)' = Ops(j)
      /\ thr[t].pc \in ApplySteps \ {"apply"}
  BY <1>0, <1>1, Applier DEF ApplySteps
<1>3. /\ Concluding(j, out) /\ out.status = "completed" /\ out.changed = "yes"
      /\ ~InFlight(j) /\ ~Nothing(j) /\ Done(j, Len(Ops(j)))
  BY <1>0, <1>1 DEF Attribution, Applying, Learnt, Concluding
<1>4. CASE RecordFacts(t)
  <2>1. /\ thr'[t].pc = "close" /\ thr'[t].out = out
        /\ UNCHANGED jobs /\ facts' = facts \cup {j}
    BY <1>0, <1>1, <1>4, GoneTo DEF RecordFacts
  <2>2. PICK pc, n : pc = "close" /\ pc = thr'[t].pc /\ n = thr'[t].step
    BY <2>1
  <2>3. Concluding(j, out)' /\ ~InFlight(j)'
    BY <1>0, <1>2, <1>3 DEF Concluding, InFlight, Nothing, Told, Done
  <2> QED
    BY <1>0, <1>1, <1>2, <1>3, <2>1, <2>2, <2>3, GoesOn
<1>5. CASE CloseApply(t)
  <2>1. /\ thr'[t].pc = "idle" /\ UNCHANGED facts
        /\ jobs'[j] = Row(j, out.status, "runtime_reconciled", out.changed)
    BY <1>0, <1>1, <1>5, Left DEF CloseApply
  <2>2. jobs'[j].stage = "runtime_reconciled" /\ jobs'[j].changed = "yes"
    BY <1>0, <1>1, <1>3, <2>1, RowKeeps
  <2>3. JobTrue(j)'
    BY <1>0, <1>1, <1>2, <1>3, <2>1, <2>2, ApplierLeaves
  <2> QED
    BY <1>0, <1>1, <2>1, <2>3, NotYet, OwnStep
<1> QED
  BY <1>4, <1>5

-----------------------------------------------------------------------------
(* The inductive invariant                                                 *)

LEMMA RunAttribution ==
  ASSUME Inv, Turns, Attribution, [Next]_vars, NEW t \in Threads,
         RunJob(t) \/ RecoverApply(t) \/ RecoverPrepare(t)
  PROVE  Attribution'
BY PrepareAttribution, ApplyPreludeAttribution, SendStageAttribution,
   ReceiveReplyAttribution, LoseReplyAttribution, VerifyAppliedAttribution,
   ReconcileApplyAttribution, ObserveAfterAttribution, RecordsAttribution,
   RecoverApplyAttribution DEF RunJob

LEMMA NextAttribution ==
  ASSUME Inv, Turns, Attribution, [Next]_vars
  PROVE  Attribution'
<1>1. ASSUME NEW t \in Threads, RunJob(t) \/ RecoverApply(t) \/ RecoverPrepare(t)
      PROVE  Attribution'
  BY <1>1, RunAttribution
<1>2. CASE Submit
  <2>1. PICK j \in Jobs, op \in {"prepare", "iterate"}, p \in 0..NJobs : Enqueue(j, op, p)
    BY <1>2, BoundsAssumption DEF Submit, EnqueuePrepare, EnqueueIterate
  <2> QED
    BY <2>1, EnqueueAttribution
<1>3. CASE \/ RecoveryDone \/ ExitWhenSafe \/ DropOrphan \/ UNCHANGED vars
           \/ Environment /\ ~Crash
  BY <1>3, EnvironmentAttribution
<1>4. CASE Start \/ Crash
  BY <1>4, RestartAttribution
<1> QED
  BY <1>1, <1>2, <1>3, <1>4, TakeJobAttribution, RecoverJobAttribution,
     PlayerExecuteAttribution DEF Next, Recover, Threads

LEMMA InitAttribution == Init => Attribution
<1> SUFFICES ASSUME Init PROVE Attribution
  OBVIOUS
<1>1. ASSUME NEW j \in Jobs
      PROVE  /\ jobs[j] = NoRow /\ applies[j] = 0 /\ Nothing(j) /\ base[j] = NoState
             /\ wire.job # j /\ j \notin facts
  BY DEF Init, Nothing, NoRequest, Jobs
<1>2. ASSUME NEW j \in Jobs PROVE JobTrue(j)
  <2>1. /\ jobs[j].entry = "none" /\ ~jobs[j].acked /\ jobs[j].stage = "none"
        /\ jobs[j].state = "none"
    BY <1>1 DEF NoRow
  <2> QED
    BY <1>1, <2>1 DEF JobTrue, Untouched, Approved, CutShort, Staged, Targeted,
       Honest, Whole, Recorded, Terminal, RuntimeStages
<1>3. ASSUME NEW t \in Threads PROVE Applying(t)
  BY DEF Init, Idle, Applying, Learnt, ApplySteps
<1> QED
  BY <1>2, <1>3 DEF Attribution, Init

LEMMA Invariant == Spec => []IInv
<1>1. Init => IInv
  BY InitSafe, InitTurns, InitAttribution DEF IInv
<1>2. IInv /\ [Next]_vars => IInv'
  BY NextInv, NextTurns, NextAttribution DEF IInv
<1> QED
  BY <1>1, <1>2, PTL DEF Spec

-----------------------------------------------------------------------------
(* What the applications promise                                           *)

\* While one thread is past the dispatch of its job the other one is not: the
\* order in which recover_pending handles the rows keeps them apart, and
\* nothing else does.
THEOREM OneApplier == Spec => []SingleApplier
<1>1. IInv => SingleApplier
  <2> SUFFICES ASSUME Turns PROVE SingleApplier
    BY DEF IInv
  <2>1. ~Working("main") \/ ~Working("worker")
    BY OnlyOne DEF Threads
  <2> QED
    BY <2>1 DEF Working, SingleApplier, ApplySteps, Threads
<1> QED
  BY <1>1, Invariant, PTL

\* Whatever was dispatched, by the executor or after a recovery, was dispatched
\* from a plan that no longer waits for its approval.
THEOREM ApprovedFirst == Spec => []ApprovalRespected
<1>1. IInv => ApprovalRespected
  <2> SUFFICES ASSUME IInv, NEW j \in Jobs, applies[j] > 0
               PROVE  plans[PlanOf(j)].approval # "required"
    BY DEF ApprovalRespected
  <2>1. applies[j] = 1
    BY AppliesIs DEF IInv
  <2> QED
    BY <2>1 DEF IInv, Attribution, JobTrue, Approved, Ready
<1> QED
  BY <1>1, Invariant, PTL

\* The first request of a job that the Player executes meets the revision and
\* generation its plan was prepared for, although others may publish
\* transitions between the preflight and the dispatch.
THEOREM PreparedTargetMet == Spec => []MutatesPreparedState
<1>1. IInv => MutatesPreparedState
  BY DEF IInv, Attribution, JobTrue, Targeted, Binding, MutatesPreparedState
<1> QED
  BY <1>1, Invariant, PTL

\* runtimeChanged of a settled row is true of what the Player executed, then
\* and for ever: a lost reply, a late execution or a refused journal entry
\* leaves "unknown" and never a guess.
THEOREM AttributionHonest == Spec => []HonestAttribution
<1>1. IInv => HonestAttribution
  <2> SUFFICES ASSUME IInv, NEW j \in Jobs \ interrupted, Terminal(j)
               PROVE  /\ jobs[j].changed = "no" => executed[j] = <<>>
                      /\ /\ jobs[j].changed = "yes"
                         /\ jobs[j].stage \in {"runtime_reconciled", "runtime_failed"}
                         => executed[j] # <<>>
    BY DEF HonestAttribution
  <2>1. Honest(j)
    BY DEF IInv, Attribution, JobTrue
  <2> QED
    BY <2>1 DEF Honest, Nothing
<1> QED
  BY <1>1, Invariant, PTL

\* A recorded fact, and a row that completed its apply, mean that every
\* operation of the plan was executed, once each and in order, and nothing
\* else.
THEOREM CompletedIsWhole == Spec => []CompletedMeansApplied
<1>1. IInv => CompletedMeansApplied
  <2> SUFFICES ASSUME IInv, NEW j \in Jobs, Recorded(j)
               PROVE  executed[j] = Operations(plans[PlanOf(j)].route)
    BY DEF CompletedMeansApplied, Recorded
  <2>1. applies[j] = 1 /\ Done(j, Len(Ops(j))) /\ HasPlan(PlanOf(j))
    BY DEF IInv, Attribution, JobTrue, Whole, Approved, Ready
  <2>2. executed[j] \in Seq(MutatingOps \cup {"failed"})
    BY DEF IInv, Inv, TypeInv, TypeOK
  <2>3. Ops(j) \in Seq(MutatingOps \cup {"failed"})
    <3>1. Ops(j) \in Seq(MutatingOps)
      BY <2>1, OperationsTyped DEF Ops, Route, HasPlan
    <3> QED
      BY <3>1
  <2>4. executed[j] = Ops(j)
    BY <2>1, <2>2, <2>3, SeqEqual DEF Done
  <2> QED
    BY <2>4 DEF Ops, Route
<1> QED
  BY <1>1, Invariant, PTL

\* While a request of an active job may still change the Player, the row is at
\* a runtime stage; without a composite plan it is at one of the two that
\* lifecycle.py and job.cancel know as not to be interrupted.
MutationVisible ==
  \A j \in Jobs : Active(j) /\ InFlight(j) =>
    /\ jobs[j].stage \in RuntimeStages
    /\ Route(j) # "composite" => jobs[j].stage \in {"runtime_apply", "runtime_reconcile"}

\* The row of a job whose mutation is in flight shows it, whatever its route:
\* only a composite stage's journal renames it.
THEOREM MutationsShown == Spec => []MutationVisible
<1>1. IInv => MutationVisible
  <2> SUFFICES ASSUME IInv, NEW j \in Jobs, Active(j), InFlight(j)
               PROVE  /\ jobs[j].stage \in RuntimeStages
                      /\ Route(j) # "composite" =>
                           jobs[j].stage \in {"runtime_apply", "runtime_reconcile"}
    BY DEF MutationVisible
  <2>1. JobTrue(j) /\ applies[j] = 1
    BY AppliesIs DEF IInv, Attribution, JobTrue, Untouched, InFlight
  <2>2. jobs[j].stage \in RuntimeStages
    BY <2>1, AppliesIs DEF IInv, Active, Terminal
  <2> QED
    BY <2>1, <2>2 DEF JobTrue, Staged, RuntimeStages
<1> QED
  BY <1>1, Invariant, PTL

\* A job that changed the Player, or may still change it, is at a stage that
\* recovery reconciles or gives up: at a runtime stage, whatever its route and
\* whatever the journal has made of the stage.
THEOREM TouchedNotReplayed == Spec => []TouchedNeverReplayed
<1>1. IInv => TouchedNeverReplayed
  <2> SUFFICES ASSUME IInv, NEW j \in Jobs, Active(j),
                      executed[j] # <<>> \/ (wire.job = j /\ wire.reply = "pending")
               PROVE  Recovery(jobs[j].stage) \in {"reconcile_job", "fail"}
    BY DEF TouchedNeverReplayed
  <2>1. applies[j] = 1
    BY AppliesIs DEF IInv, Attribution, JobTrue, Untouched, InFlight, Nothing
  <2>2. jobs[j].stage \in RuntimeStages
    BY <2>1, AppliesIs DEF IInv, Active, Terminal
  <2> QED
    BY <2>2 DEF Recovery, RuntimeStages, PrepareStages, QueuedStages
<1> QED
  BY <1>1, Invariant, PTL

\* Only the Player executes.
LEMMA OnlyPlayerExecutes ==
  ASSUME [Next]_vars, ~PlayerExecute
  PROVE  UNCHANGED executed
BY DEF Next, vars, RunJob, Recover, Environment, Submit, EnqueuePrepare, EnqueueIterate,
   Enqueue, TakeJob, Start, RecoverJob, RecoveryDone, ExitWhenSafe, DropOrphan,
   RequestShutdown, ApprovePlan, EditSource, EditTask, CompileFinish,
   ExternalTransition, LinkUp, LinkDown, Crash, PreparePlan, SaveEnvelope,
   SubmitCompile, SaveTicket, CompileResult, DeferEditorTimeout, FinalizePlan,
   CreatePlan, BindPlan, StartApply, ApplyPrelude, SendStage, ReceiveReply, LoseReply,
   VerifyApplied, ReconcileApply, ObserveAfter, RecordFacts, CloseApply, RecoverApply,
   RecoverPrepare, history

\* A job that touched the Player keeps its plan.
LEMMA ToucherKept ==
  ASSUME IInv, [Next]_vars, NEW i \in Jobs, applies[i] = 1
  PROVE  PlanOf(i)' = PlanOf(i)
<1>1. jobs[i].op # "none"
  <2>1. Terminal(i) \/ jobs[i].stage \in RuntimeStages
    BY AppliesIs DEF IInv
  <2>2. jobs[i] # NoRow
    BY <2>1 DEF NoRow, Terminal, RuntimeStages
  <2> QED
    BY <2>2 DEF IInv, Inv, SafetyInv, Entered
<1>2. Same(jobs'[i], i)
  BY <1>1, RowsBound DEF IInv
<1> QED
  BY <1>2, PlanKept DEF IInv

\* The first execution leaves the revision that the plan was prepared for, and
\* a second job could begin only there.
LEMMA OncePerPlan ==
  ASSUME IInv, PlanAppliedOnce, [Next]_vars
  PROVE  PlanAppliedOnce'
<1>1. \A i \in Jobs : ~Nothing(i) => applies[i] = 1
  BY AppliesIs DEF IInv, Attribution, JobTrue, Untouched
<1>2. CASE ~PlayerExecute
  <2> SUFFICES ASSUME NEW i \in Jobs, NEW j \in Jobs, i # j,
                      executed'[i] # <<>>, executed'[j] # <<>>
               PROVE  PlanOf(i)' # PlanOf(j)'
    BY DEF PlanAppliedOnce
  <2>1. ~Nothing(i) /\ ~Nothing(j)
    BY <1>2, OnlyPlayerExecutes DEF Nothing
  <2> QED
    BY <1>1, <2>1, ToucherKept DEF PlanAppliedOnce, Nothing
<1>3. CASE PlayerExecute
  <2>1. PICK j \in Jobs : j = wire.job
    BY <1>3, Executes DEF IInv
  <2>2. /\ InFlight(j) /\ applies[j] = 1 /\ Targeted(j)
        /\ \A i \in Jobs \ {j} : executed'[i] = executed[i]
        /\ UNCHANGED jobs
        /\ executed'[j] = executed[j] \/ wire.rev = player.rev
    BY <1>3, <2>1, Executes DEF IInv, Attribution, JobTrue
  <2>3. ASSUME NEW i \in Jobs \ {j}, ~Nothing(i), executed'[j] # <<>>
        PROVE  PlanOf(i) # PlanOf(j)
    <3>1. CASE ~Nothing(j)
      BY <2>3, <3>1 DEF PlanAppliedOnce, Nothing
    <3>2. CASE Nothing(j)
      <4>1. player.rev = Binding(j).rev
        BY <2>2, <2>3, <3>2 DEF Targeted, InFlight, Nothing
      <4>2. player.rev > Binding(i).rev
        BY <2>3 DEF IInv, Attribution, JobTrue, Targeted
      <4>3. player.rev \in Int
        BY DEF IInv, Inv, TypeInv, TypeOK, PlayerType
      <4> QED
        BY <4>1, <4>2, <4>3 DEF Binding
    <3> QED
      BY <3>1, <3>2
  <2>4. \A i \in Jobs : PlanOf(i)' = PlanOf(i)
    BY <2>2 DEF PlanOf
  <2> QED
    BY <2>2, <2>3, <2>4 DEF PlanAppliedOnce, Nothing
<1> QED
  BY <1>2, <1>3

\* Two commands that iterate one plan never both change the Player: the second
\* one's first request is refused by the revision it names.
THEOREM OneJobPerPlan == Spec => []PlanAppliedOnce
<1>1. Init => PlanAppliedOnce
  BY DEF Init, PlanAppliedOnce
<1>2. IInv /\ PlanAppliedOnce /\ [Next]_vars => PlanAppliedOnce'
  BY OncePerPlan
<1> QED
  BY <1>1, <1>2, Invariant, PTL DEF Spec

-----------------------------------------------------------------------------
(* The coordinator implements ApplyOnce                                    *)

\* A row that was entered is active or settled.
Stated == \A j \in Jobs : jobs[j].op # "none" => jobs[j].state # "none"

Verdict(j) == IF Terminal(j) THEN jobs[j].changed ELSE "no"

\* The abstract state of j is the same after the step.
Keeps(j) == PhaseOf(j)' = PhaseOf(j) /\ Verdict(j)' = Verdict(j)
KeepsOthers(j) == \A i \in Jobs \ {j} : Keeps(i)

\* How the row shows the phase.
PhaseShown(j) ==
  /\ jobs[j].op # "none" => Active(j) \/ Terminal(j)
  /\ jobs[j].op = "none" => PhaseOf(j) = "absent" /\ ~Active(j) /\ ~Terminal(j)
  /\ Terminal(j) => PhaseOf(j) = "settled" /\ ~Active(j)
  /\ Active(j) /\ jobs[j].stage \in RuntimeStages => PhaseOf(j) = "dispatched"
  /\ Active(j) /\ jobs[j].stage \notin RuntimeStages => PhaseOf(j) = "pending"

LEMMA PhaseIs == Inv /\ Stated => \A j \in Jobs : PhaseShown(j)
<1> SUFFICES ASSUME Inv, Stated, NEW j \in Jobs PROVE PhaseShown(j)
  OBVIOUS
<1>1. jobs[j].state \in States
  BY DEF Inv, TypeInv, TypeOK, RowType
<1>2. jobs[j].op # "none" => Active(j) \/ Terminal(j)
  BY <1>1 DEF Stated, States, Active, Terminal
<1>3. ~(Active(j) /\ Terminal(j))
  BY DEF Active, Terminal
<1>4. jobs[j].op = "none" => ~Active(j) /\ ~Terminal(j)
  BY DEF Inv, SafetyInv, Entered, NoRow, Active, Terminal
<1> QED
  BY <1>2, <1>3, <1>4 DEF PhaseShown, PhaseOf

LEMMA PhaseNext == (Inv /\ Stated => \A j \in Jobs : PhaseShown(j))'
BY PhaseIs, PTL

\* A step writes the row of the thread's job, of a job it recovers, or of a new
\* one.
LEMMA WhoseRow ==
  ASSUME Inv, [Next]_vars
  PROVE  \/ UNCHANGED jobs
         \/ \E t \in Threads : /\ RunJob(t) \/ RecoverApply(t) \/ RecoverPrepare(t)
                               /\ Advance(t)
         \/ \E j \in Jobs, op \in {"prepare", "iterate"}, p \in 0..NJobs : Enqueue(j, op, p)
         \/ RecoverJob
<1>1. CASE Submit
  BY <1>1, BoundsAssumption DEF Submit, EnqueuePrepare, EnqueueIterate
<1>2. ASSUME NEW t \in Threads, RunJob(t) \/ RecoverApply(t) \/ RecoverPrepare(t)
      PROVE  Advance(t)
  BY <1>2, ThreadsAdvance
<1>3. CASE ~Submit /\ ~RecoverJob
           /\ \A t \in Threads : ~(RunJob(t) \/ RecoverApply(t) \/ RecoverPrepare(t))
  BY <1>3 DEF Next, vars, Recover, Environment, TakeJob, Start, RecoveryDone,
     ExitWhenSafe, PlayerExecute, DropOrphan, RequestShutdown, ApprovePlan, EditSource,
     EditTask, CompileFinish, ExternalTransition, LinkUp, LinkDown, Crash, Threads
<1> QED
  BY <1>1, <1>2, <1>3

\* A thread that gives its job up leaves it settled, or running.
LEMMA LeavesState ==
  ASSUME Inv, NEW t \in Threads,
         RunJob(t) \/ RecoverApply(t) \/ RecoverPrepare(t),
         Advance(t), NEW j \in Jobs, j = thr[t].job
  PROVE  jobs'[j].state # "none"
<1>1. CASE Continues(t) \/ Settles(jobs'[j])
  BY <1>1 DEF Continues, Settles
<1>2. CASE Releases(t) /\ ~Settles(jobs'[j])
  <2>1. thr[t].pc \notin ApplySteps /\ thr'[t].pc = "idle"
    BY <1>2 DEF Releases, Inv, SafetyInv, Applied
  <2>2. CASE RecoverApply(t)
    BY <2>2, ReconcilesEffect DEF Reconciles
  <2>3. CASE \/ PreparePlan(t) \/ SaveEnvelope(t) \/ SubmitCompile(t) \/ SaveTicket(t)
             \/ CompileResult(t) \/ DeferEditorTimeout(t) \/ FinalizePlan(t)
             \/ CreatePlan(t) \/ BindPlan(t) \/ StartApply(t) \/ RecoverPrepare(t)
    BY <2>1, <2>3, PreparesEffect DEF Prepares
  <2>4. ~(\/ ApplyPrelude(t) \/ SendStage(t) \/ ReceiveReply(t) \/ LoseReply(t)
          \/ VerifyApplied(t) \/ ReconcileApply(t) \/ ObserveAfter(t)
          \/ RecordFacts(t) \/ CloseApply(t))
    BY <2>1 DEF ApplyPrelude, SendStage, ReceiveReply, LoseReply, VerifyApplied,
       ReconcileApply, ObserveAfter, RecordFacts, CloseApply, Awaited, At, ApplySteps
  <2> QED
    BY <2>2, <2>3, <2>4 DEF RunJob
<1> QED
  BY <1>1, <1>2 DEF Advance

LEMMA RecoversRow ==
  ASSUME Inv, RecoverJob
  PROVE  \/ UNCHANGED jobs
         \/ \E j \in Jobs : /\ Active(j) /\ jobs' = [jobs EXCEPT ![j] = UnknownRow(j)]
                            /\ jobs'[j].state = "state_unknown"
                            /\ jobs'[j].changed = "unknown"
                            /\ jobs'[j].op = jobs[j].op
<1>1. CASE ~UNCHANGED jobs
  <2>1. PICK j \in todo : jobs' = [jobs EXCEPT ![j] = UnknownRow(j)]
    BY <1>1 DEF RecoverJob
  <2>2. j \in Jobs /\ Active(j) /\ TypeOK
    BY DEF Inv, TypeInv, TypeOK, SafetyInv, Owned
  <2>3. jobs'[j] = UnknownRow(j)
    BY <2>1, <2>2 DEF TypeOK
  <2>4. /\ UnknownRow(j).state = "state_unknown" /\ UnknownRow(j).changed = "unknown"
        /\ UnknownRow(j).op = jobs[j].op
    BY <2>2, RowKeeps, RowFields DEF UnknownRow, Same
  <2> QED
    BY <2>1, <2>2, <2>3, <2>4
<1> QED
  BY <1>1

LEMMA StatedKept ==
  ASSUME Inv, Stated, [Next]_vars
  PROVE  Stated'
<1>0. TypeOK
  BY DEF Inv, TypeInv
<1>1. CASE UNCHANGED jobs
  BY <1>1 DEF Stated
<1>2. ASSUME NEW t \in Threads, Advance(t),
             RunJob(t) \/ RecoverApply(t) \/ RecoverPrepare(t)
      PROVE  Stated'
  <2>1. PICK j \in Jobs : j = thr[t].job
    BY <1>2 DEF Advance
  <2> QED
    BY <1>2, <2>1, LeavesState DEF Advance, Stated
<1>3. ASSUME NEW j \in Jobs, NEW op, NEW p, Enqueue(j, op, p)
      PROVE  Stated'
  <2>1. jobs'[j].state = "queued" /\ \A i \in Jobs \ {j} : jobs'[i] = jobs[i]
    BY <1>0, <1>3 DEF Enqueue, TypeOK, NewRow, NoRow
  <2> QED
    BY <2>1 DEF Stated
<1>4. CASE RecoverJob
  <2>1. CASE ~UNCHANGED jobs
    <3>1. PICK j \in Jobs : /\ jobs' = [jobs EXCEPT ![j] = UnknownRow(j)]
                            /\ jobs'[j].state = "state_unknown"
      BY <1>4, <2>1, RecoversRow
    <3>2. \A i \in Jobs \ {j} : jobs'[i] = jobs[i]
      BY <1>0, <3>1 DEF TypeOK
    <3> QED
      BY <3>1, <3>2 DEF Stated
  <2> QED
    BY <1>1, <2>1
<1> QED
  BY <1>1, <1>2, <1>3, <1>4, WhoseRow

\* The abstract steps, in terms of the coordinator's rows.
LEMMA MapsToSubmit ==
  ASSUME NEW j \in Jobs, PhaseOf(j) = "absent", PhaseOf(j)' = "pending",
         Verdict(j)' = Verdict(j), KeepsOthers(j), UNCHANGED <<executed, interrupted>>
  PROVE  Abstract!Submit(j)
BY DEF Abstract!Submit, KeepsOthers, Keeps, Verdict

LEMMA MapsToDispatch ==
  ASSUME NEW j \in Jobs, PhaseOf(j) = "pending", PhaseOf(j)' = "dispatched",
         Verdict(j)' = Verdict(j), KeepsOthers(j), UNCHANGED <<executed, interrupted>>
  PROVE  Abstract!Dispatch(j)
BY DEF Abstract!Dispatch, KeepsOthers, Keeps, Verdict

LEMMA MapsToSettle ==
  ASSUME NEW j \in Jobs, PhaseOf(j) \in {"pending", "dispatched"},
         PhaseOf(j)' = "settled", NEW v, Verdict(j)' = v,
         v = "no" => Nothing(j) \/ j \in interrupted,
         v = "yes" /\ PhaseOf(j) = "dispatched" => ~Nothing(j) \/ j \in interrupted,
         KeepsOthers(j), UNCHANGED <<executed, interrupted>>
  PROVE  Abstract!Settle(j, v)
BY DEF Abstract!Settle, KeepsOthers, Keeps, Verdict, Nothing

LEMMA MapsToTouch ==
  ASSUME NEW j \in Jobs, PhaseOf(j) \in {"dispatched", "settled"},
         PhaseOf(j) = "settled" => Verdict(j) = "unknown" \/ j \in interrupted,
         executed'[j] # <<>>, \A i \in Jobs \ {j} : executed'[i] = executed[i],
         \A i \in Jobs : Keeps(i), UNCHANGED interrupted
  PROVE  Abstract!Touch(j)
<1>1. {i \in Jobs : executed[i] # <<>>}' = {i \in Jobs : executed[i] # <<>>} \cup {j}
  OBVIOUS
<1> QED
  BY <1>1 DEF Abstract!Touch, Keeps, Verdict

LEMMA MapsToCrash ==
  ASSUME \A i \in Jobs : Keeps(i), UNCHANGED executed,
         interrupted' = interrupted \cup {j \in Jobs : PhaseOf(j) = "dispatched"}
  PROVE  Abstract!Crash
<1>1. {j \in Jobs : [i \in Jobs |-> PhaseOf(i)][j] = "dispatched"}
        = {j \in Jobs : PhaseOf(j) = "dispatched"}
  OBVIOUS
<1> QED
  BY <1>1 DEF Abstract!Crash, Keeps, Verdict

LEMMA MapsToStutter ==
  ASSUME \A i \in Jobs : Keeps(i), UNCHANGED <<executed, interrupted>>
  PROVE  UNCHANGED Abstract!avars
BY DEF Abstract!avars, Keeps, Verdict

LEMMA SameRowKeeps ==
  ASSUME NEW i \in Jobs, jobs'[i] = jobs[i]
  PROVE  Keeps(i)
BY DEF Keeps, PhaseOf, Verdict, Active, Terminal

LEMMA RunsQuietly ==
  ASSUME NEW t \in Threads, RunJob(t) \/ RecoverApply(t) \/ RecoverPrepare(t)
  PROVE  UNCHANGED <<executed, interrupted>>
BY DEF RunJob, PreparePlan, SaveEnvelope,
   SubmitCompile, SaveTicket, CompileResult, DeferEditorTimeout, FinalizePlan,
   CreatePlan, BindPlan, StartApply, ApplyPrelude, SendStage, ReceiveReply, LoseReply,
   VerifyApplied, ReconcileApply, ObserveAfter, RecordFacts, CloseApply, RecoverApply,
   RecoverPrepare, history

\* A thread that applied its job settles it truthfully.
LEMMA ThreadImplements ==
  ASSUME IInv, IInv', Stated, Stated', [Next]_vars, NEW t \in Threads,
         RunJob(t) \/ RecoverApply(t) \/ RecoverPrepare(t)
  PROVE  Abstract!Next \/ UNCHANGED Abstract!avars
<1>0. /\ Inv /\ Inv' /\ Advance(t) /\ UNCHANGED <<executed, interrupted>>
  BY RunsQuietly, ThreadsAdvance DEF IInv
<1>1. PICK j \in Jobs : j = thr[t].job
  BY <1>0 DEF Advance
<1>2. /\ Active(j) /\ jobs[j].op # "none" /\ jobs'[j].op = jobs[j].op
      /\ Working(t)
  BY <1>0, <1>1, Places, ActiveEntered DEF Advance, Working, Same
<1>3. KeepsOthers(j)
  BY <1>0, <1>1, SameRowKeeps DEF Advance, KeepsOthers
<1>4. /\ jobs[j].stage \in RuntimeStages => PhaseOf(j) = "dispatched"
      /\ jobs[j].stage \notin RuntimeStages => PhaseOf(j) = "pending"
      /\ Verdict(j) = "no"
  BY <1>0, <1>2, PhaseIs DEF PhaseShown, Verdict
<1>5. /\ Active(j)' /\ jobs'[j].stage \in RuntimeStages => PhaseOf(j)' = "dispatched"
      /\ Active(j)' /\ jobs'[j].stage \notin RuntimeStages => PhaseOf(j)' = "pending"
      /\ Active(j)' => Verdict(j)' = "no"
      /\ Terminal(j)' => PhaseOf(j)' = "settled" /\ Verdict(j)' = jobs'[j].changed
      /\ Active(j)' \/ Terminal(j)'
  BY <1>0, <1>2, PhaseNext DEF PhaseShown, Verdict
<1>6. CASE /\ Active(j)'
           /\ jobs'[j].stage \in RuntimeStages <=> jobs[j].stage \in RuntimeStages
  <2>1. \A i \in Jobs : Keeps(i)
    BY <1>3, <1>4, <1>5, <1>6 DEF Keeps, KeepsOthers
  <2> QED
    BY <1>0, <2>1, MapsToStutter
<1>7. CASE /\ Active(j)'
           /\ jobs'[j].stage \in RuntimeStages /\ jobs[j].stage \notin RuntimeStages
  BY <1>0, <1>3, <1>4, <1>5, <1>7, MapsToDispatch DEF Abstract!Next
<1>8. CASE Terminal(j)'
  <2>1. PICK v : v = jobs'[j].changed
    OBVIOUS
  <2>2. v \in {"no", "yes", "unknown"}
    BY <1>0, <2>1 DEF Inv, TypeInv, TypeOK, RowType, Changes
  <2>3. Honest(j)'
    BY DEF IInv, Attribution, JobTrue
  <2>4. v = "no" => Nothing(j) \/ j \in interrupted
    BY <1>0, <1>8, <2>1, <2>3 DEF Honest, Nothing
  <2>5. v = "yes" /\ PhaseOf(j) = "dispatched" => ~Nothing(j) \/ j \in interrupted
    <3> SUFFICES ASSUME v = "yes", jobs[j].stage \in RuntimeStages, j \notin interrupted
                 PROVE  ~Nothing(j)
      BY <1>4
    <3>1. thr[t].pc \in ApplySteps
      <4>1. PICK u \in Threads : Applies(u, j)
        BY <1>2 DEF IInv, Attribution, JobTrue, CutShort
      <4>2. Runs(u, j)
        BY <4>1 DEF Applies, Runs, ApplySteps
      <4> QED
        BY <1>0, <1>1, <1>2, <4>1, <4>2, Places DEF Applies
    <3>2. thr'[t].pc = "idle"
      BY <1>0, <1>1, <1>8 DEF Advance, Releases, Continues, Terminal
    <3>3. thr[t].pc # "apply"
      <4>1. CASE thr[t].pc = "apply"
        <5>1. ApplyPrelude(t)
          BY <4>1 DEF RunJob, PreparePlan, SaveEnvelope,
             SubmitCompile, SaveTicket, CompileResult, DeferEditorTimeout, FinalizePlan,
             CreatePlan, BindPlan, StartApply, SendStage, ReceiveReply, LoseReply,
             Awaited, VerifyApplied, ReconcileApply, ObserveAfter, RecordFacts,
             CloseApply, RecoverApply, RecoverPrepare, At
        <5>2. thr'[t].pc \in {"reconcile", "send"}
          BY <5>1 DEF ApplyPrelude, Save, Goto, IInv, Inv, TypeInv, TypeOK, ThreadType
        <5> QED
          BY <3>2, <5>2
      <4> QED
        BY <4>1
    <3>4. applies'[j] = 1
      <4>1. applies[j] = 1
        BY <1>1, <3>1, <3>3 DEF IInv, Attribution, Applying, Learnt
      <4> QED
        BY <1>0, <1>1, <3>2, <3>1, <4>1 DEF Advance, Releases, Continues, PrepareSteps, ApplySteps
    <3> QED
      BY <1>0, <1>8, <2>1, <2>3, <3>4 DEF Honest, Nothing
  <2>6. Abstract!Settle(j, v)
    BY <1>0, <1>3, <1>4, <1>5, <1>8, <2>1, <2>4, <2>5, MapsToSettle
  <2> QED
    BY <2>2, <2>6 DEF Abstract!Next, Abstract!Verdicts
<1> QED
  <2>1. Active(j)' => \/ jobs[j].stage \notin RuntimeStages
                      \/ jobs'[j].stage \in RuntimeStages
    BY <1>0, <1>1 DEF Advance, Releases, Continues, Settles, Active, Inv, SafetyInv,
       Applied
  <2> QED
    BY <1>5, <1>6, <1>7, <1>8, <2>1

\* The steps that write no row.
LEMMA RowlessImplements ==
  ASSUME IInv, IInv', Stated, [Next]_vars, UNCHANGED jobs
  PROVE  Abstract!Next \/ UNCHANGED Abstract!avars
<1>0. Inv /\ \A i \in Jobs : Keeps(i)
  BY SameRowKeeps DEF IInv
<1>1. CASE Crash
  <2>1. interrupted' = interrupted \cup {j \in Jobs : Active(j) /\ jobs[j].stage \in RuntimeStages}
    BY <1>1 DEF Crash
  <2>2. \A j \in Jobs :
          Active(j) /\ jobs[j].stage \in RuntimeStages <=> PhaseOf(j) = "dispatched"
    BY <1>0, PhaseIs DEF PhaseShown
  <2>3. UNCHANGED executed
    BY <1>1 DEF Crash
  <2>4. {j \in Jobs : Active(j) /\ jobs[j].stage \in RuntimeStages}
          = {j \in Jobs : PhaseOf(j) = "dispatched"}
    BY <2>2
  <2> QED
    BY <1>0, <2>1, <2>3, <2>4, MapsToCrash DEF Abstract!Next
<1>2. CASE PlayerExecute
  <2>1. PICK j \in Jobs : j = wire.job
    BY <1>0, <1>2, Executes DEF IInv
  <2>2. /\ InFlight(j) /\ applies[j] = 1 /\ UNCHANGED interrupted
        /\ \A i \in Jobs \ {j} : executed'[i] = executed[i]
        /\ UNCHANGED executed \/ \E op : executed'[j] = Append(executed[j], op)
    BY <1>0, <1>2, <2>1, Executes DEF IInv
  <2>3. CASE UNCHANGED executed
    BY <1>0, <2>2, <2>3, MapsToStutter
  <2>4. CASE \E op : executed'[j] = Append(executed[j], op)
    <3>1. executed'[j] # <<>>
      <4>1. executed[j] \in Seq(MutatingOps \cup {"failed"})
        BY <1>0 DEF Inv, TypeInv, TypeOK
      <4> QED
        BY <2>4, <4>1
    <3>2. PhaseOf(j) \in {"dispatched", "settled"}
      <4>1. Terminal(j) \/ jobs[j].stage \in RuntimeStages
        BY <1>0, <2>2, AppliesIs
      <4>2. jobs[j].op # "none"
        <5>1. jobs[j] # NoRow
          BY <4>1 DEF NoRow, Terminal, RuntimeStages
        <5> QED
          BY <1>0, <5>1 DEF Inv, SafetyInv, Entered
      <4> QED
        BY <1>0, <4>1, <4>2, PhaseIs DEF PhaseShown
    <3>3. PhaseOf(j) = "settled" => Verdict(j) = "unknown" \/ j \in interrupted
      <4>1. PhaseOf(j) = "settled" => Terminal(j)
        BY <1>0, PhaseIs DEF PhaseShown
      <4>2. Honest(j)
        BY DEF IInv, Attribution, JobTrue
      <4> QED
        BY <2>2, <4>1, <4>2 DEF Honest, Verdict
    <3> QED
      BY <1>0, <2>2, <3>1, <3>2, <3>3, MapsToTouch DEF Abstract!Next
  <2> QED
    BY <2>2, <2>3, <2>4
<1>3. CASE ~Crash /\ ~PlayerExecute
  <2>1. UNCHANGED executed
    BY <1>3, OnlyPlayerExecutes
  <2>2. UNCHANGED interrupted
    <3>1. CASE \E t \in Threads : RunJob(t) \/ RecoverApply(t) \/ RecoverPrepare(t)
      BY <3>1, RunsQuietly
    <3>2. CASE ~\E t \in Threads : RunJob(t) \/ RecoverApply(t) \/ RecoverPrepare(t)
      BY <1>3, <3>2 DEF Next, vars, Recover, Environment, Submit, EnqueuePrepare,
         EnqueueIterate, Enqueue, TakeJob, Start, RecoverJob, RecoveryDone,
         ExitWhenSafe, DropOrphan, RequestShutdown, ApprovePlan, EditSource,
         EditTask, CompileFinish, ExternalTransition, LinkUp, LinkDown, history,
         Threads
    <3> QED
      BY <3>1, <3>2
  <2> QED
    BY <1>0, <2>1, <2>2, MapsToStutter
<1> QED
  BY <1>1, <1>2, <1>3

LEMMA StepImplements ==
  ASSUME IInv, IInv', Stated, Stated', [Next]_vars
  PROVE  Abstract!Next \/ UNCHANGED Abstract!avars
<1>0. Inv /\ Inv' /\ TypeOK
  BY DEF IInv, Inv, TypeInv
<1>1. CASE UNCHANGED jobs
  BY <1>1, RowlessImplements
<1>2. ASSUME NEW t \in Threads, RunJob(t) \/ RecoverApply(t) \/ RecoverPrepare(t)
      PROVE  Abstract!Next \/ UNCHANGED Abstract!avars
  BY <1>2, ThreadImplements
<1>3. ASSUME NEW j \in Jobs, NEW op \in {"prepare", "iterate"}, NEW p, Enqueue(j, op, p)
      PROVE  Abstract!Next
  <2>1. /\ jobs[j].op = "none" /\ \A i \in Jobs \ {j} : jobs'[i] = jobs[i]
        /\ jobs'[j] = NewRow(op, p) /\ UNCHANGED <<executed, interrupted>>
    BY <1>0, <1>3 DEF Enqueue, NextJob, TypeOK, history
  <2>2. jobs'[j].state = "queued" /\ jobs'[j].stage \notin RuntimeStages
    BY <2>1 DEF NewRow, NoRow, RuntimeStages
  <2>3. Active(j)' /\ ~Terminal(j)'
    BY <2>2 DEF Active, Terminal
  <2>4. /\ PhaseOf(j) = "absent" /\ Verdict(j) = "no"
        /\ PhaseOf(j)' = "pending" /\ Verdict(j)' = "no"
    BY <1>0, <2>1, <2>2, <2>3, PhaseIs, PhaseNext DEF PhaseShown, Verdict
  <2>5. KeepsOthers(j)
    BY <2>1, SameRowKeeps DEF KeepsOthers
  <2> QED
    BY <2>1, <2>4, <2>5, MapsToSubmit DEF Abstract!Next
<1>4. CASE RecoverJob /\ ~UNCHANGED jobs
  <2>1. PICK j \in Jobs : /\ Active(j) /\ jobs' = [jobs EXCEPT ![j] = UnknownRow(j)]
                          /\ jobs'[j].state = "state_unknown"
                          /\ jobs'[j].changed = "unknown"
    BY <1>0, <1>4, RecoversRow
  <2>2. Terminal(j)' /\ \A i \in Jobs \ {j} : jobs'[i] = jobs[i]
    BY <1>0, <2>1 DEF TypeOK, Terminal
  <2>3. /\ PhaseOf(j) \in {"pending", "dispatched"}
        /\ PhaseOf(j)' = "settled" /\ Verdict(j)' = "unknown"
    BY <1>0, <2>1, <2>2, PhaseIs, PhaseNext DEF PhaseShown, Verdict
  <2>4. KeepsOthers(j) /\ UNCHANGED <<executed, interrupted>>
    BY <1>4, <2>2, SameRowKeeps DEF KeepsOthers, RecoverJob, history
  <2>5. Abstract!Settle(j, "unknown")
    BY <2>3, <2>4, MapsToSettle
  <2> QED
    BY <2>5 DEF Abstract!Next, Abstract!Verdicts
<1> QED
  BY <1>0, <1>1, <1>2, <1>3, <1>4, WhoseRow

\* The coordinator implements ApplyOnce: a job is dispatched at most once, it
\* touches the Player only from then on, and it settles once, with a verdict
\* that no late execution, lost reply or crash can belie; only the jobs whose
\* apply a crash cut short are without that promise.
THEOREM CoordinatorRefines == Spec => ImplementsApplyOnce
<1>1. Init => Abstract!Init /\ Stated
  <2> SUFFICES ASSUME Init PROVE Abstract!Init /\ Stated
    OBVIOUS
  <2>1. /\ \A j \in Jobs : jobs[j] = NoRow /\ executed[j] = <<>>
        /\ interrupted = {}
    BY DEF Init
  <2>2. Stated
    BY <2>1 DEF Stated, NoRow
  <2>3. Inv
    BY InitSafe
  <2>4. \A j \in Jobs : PhaseOf(j) = "absent" /\ ~Terminal(j)
    BY <2>1, <2>2, <2>3, PhaseIs DEF PhaseShown, NoRow
  <2> QED
    BY <2>1, <2>2, <2>4 DEF Abstract!Init
<1>2. IInv /\ Stated /\ [Next]_vars => Stated'
  BY StatedKept DEF IInv
<1>3. IInv /\ IInv' /\ Stated /\ Stated' /\ [Next]_vars => [Abstract!Next]_(Abstract!avars)
  BY StepImplements
<1> QED
  BY <1>1, <1>2, <1>3, Invariant, PTL DEF Spec, ImplementsApplyOnce, Abstract!Spec
=============================================================================
