-------------------------- MODULE UpdateCoordinator --------------------------
(***************************************************************************)
(* The Host's update coordinator: the durable job rows of prepare and      *)
(* iterate commands, the single executor thread that runs them, the main   *)
(* thread that recovers them after a restart, the runtime update provider  *)
(* it calls, and as much of the Editor and of the Player as those calls    *)
(* can observe.                                                            *)
(*                                                                         *)
(* Two threads run the same job code: "worker" is the one thread of the    *)
(* coordinator's ThreadPoolExecutor, "main" is the thread that calls       *)
(* recover_pending before the HTTP server starts.  A step of a thread is   *)
(* what it does up to and including its next durable write (a committed    *)
(* ledger transaction, a file published to the Editor mailbox) or its next *)
(* exchange with the Player: a crash falls between two steps.              *)
(***************************************************************************)
EXTENDS Integers, Sequences, FiniteSets

CONSTANTS
  NJobs,        \* jobs are numbered in the order of their created_at
  Routes,       \* routes the preparation may choose
  MaxEdits,     \* bound: edits of the configured source inputs
  MaxTaskEdits, \* bound: edits of the task's goal or scope
  MaxCrashes,   \* bound: Host crashes
  MaxDrops,     \* bound: losses of the authenticated Player connection
  MaxExternal   \* bound: revision transitions published by someone else

ASSUME BoundsAssumption ==
  /\ NJobs \in Nat \ {0}
  /\ Routes # {} /\ Routes \subseteq {"hotfix", "reload", "composite"}
  /\ {MaxEdits, MaxTaskEdits, MaxCrashes, MaxDrops, MaxExternal} \subseteq Nat

VARIABLES
  \* durable: the SQLite ledger, the source tree, the Editor mailbox
  jobs, plans, facts, savedGen, input, task, editor,
  \* the Host process
  host, queue, todo, thr, prov,
  \* the Player and the one request frame that may be in flight
  player, wire,
  \* history: what really happened, and the bounds already used
  submits, applies, executed, base, interrupted, used

vars == <<jobs, plans, facts, savedGen, input, task, editor, host, queue,
          todo, thr, prov, player, wire, submits, applies, executed, base,
          interrupted, used>>

world == <<input, task, player>>
control == <<host, queue, todo>>
history == <<submits, applies, executed, base, interrupted, used>>

Jobs == 1..NJobs
Threads == {"worker", "main"}
\* The host is up, and its executor can run a job.
HostUp == host \in {"recovering", "serving", "draining"}

-----------------------------------------------------------------------------
(* Job rows and plan rows.                                                 *)

QueuedStages == {"prepare_queued", "iteration_queued"}
PrepareStages == {"prepare_running", "prepare_editor_dispatching",
                  "prepare_editor_wait", "prepare_candidate_ready",
                  "prepare_plan_creating"}
\* "runtime_stage" stands for runtime_stage_<operation>.
RuntimeStages == {"runtime_apply", "runtime_stage", "runtime_reconcile"}
FinalStages == {"prepared", "approval_required", "runtime_reconciled",
                "runtime_failed", "error"}
Stages == QueuedStages \cup PrepareStages \cup RuntimeStages
          \cup FinalStages \cup {"none"}
States == {"none", "queued", "running", "completed", "failed", "state_unknown"}

\* A journal entry that ends a composite apply, or the last one so far.
JournalEntries == {"none", "dispatching", "acknowledged", "unknown",
                   "rejected", "failed_with_transition"}

NoBinding == [task |-> -1, input |-> -1, rev |-> -1, gen |-> -1]
NoRow == [op |-> "none", plan |-> 0, state |-> "none", stage |-> "none",
          changed |-> "no", binding |-> NoBinding, envelope |-> FALSE,
          saved |-> FALSE, entry |-> "none", acked |-> FALSE, after |-> -1]
NewRow(op, p) ==
  [NoRow EXCEPT !.op = op, !.plan = p, !.state = "queued",
                !.stage = IF op = "prepare" THEN "prepare_queued"
                                            ELSE "iteration_queued"]
NoPlan == [binding |-> NoBinding, route |-> "none", approval |-> "none"]

\* The steps a thread is at, and those from provider.apply's call on.
PrepareSteps == {"prepare", "envelope", "submit", "submitted", "wait",
                 "finalize", "create", "bind", "preflight"}
ApplySteps == {"apply", "send", "await", "verify", "reconcile", "after",
               "facts", "close"}
Steps == PrepareSteps \cup ApplySteps
         \cup {"idle", "reconcile_job", "prepare_job"}
MutatingOps == {"hotfix", "module.quiesce", "module.dispose", "module.load",
                "module.restore", "resource.activate"}

Active(j) == jobs[j].state \in {"queued", "running"}
Terminal(j) == jobs[j].state \in {"completed", "failed", "state_unknown"}
PlanOf(j) == IF jobs[j].plan = 0 THEN j ELSE jobs[j].plan

\* What update_job leaves in the row: its state, stage and runtimeChanged.
Row(j, state, stage, changed) ==
  [jobs[j] EXCEPT !.state = state, !.stage = stage, !.changed = changed]

\* The next row create_job inserts.
NextJob == {j \in Jobs : jobs[j].op = "none"
                         /\ \A i \in 1..(j - 1) : jobs[i].op # "none"}

-----------------------------------------------------------------------------
(* The runtime operations of a plan and what each does to the Player.      *)

Operations(route) ==
  CASE route = "hotfix" -> <<"hotfix">>
    [] route = "reload" -> <<"module.quiesce", "module.dispose",
                             "module.load", "module.restore">>
    [] route = "composite" -> <<"module.quiesce", "module.dispose",
                                "module.load", "resource.activate",
                                "module.restore">>

Effect(op) ==
  [rev    |-> player.rev + 1,
   gen    |-> IF op = "module.load" THEN player.gen + 1 ELSE player.gen,
   active |-> CASE op = "module.quiesce" -> FALSE
                [] op = "module.restore" -> TRUE
                [] OTHER -> player.active]

NoRequest == [job |-> 0, op |-> "none", rev |-> -1, reply |-> "none"]
NoState == [rev |-> -1, gen |-> -1]
NoOutcome == [status |-> "none", changed |-> "no", matched |-> "none"]
Idle == [pc |-> "idle", job |-> 0, step |-> 0, out |-> NoOutcome]

At(t, pc) == HostUp /\ thr[t].pc = pc
Goto(t, pc) == thr' = [thr EXCEPT ![t].pc = pc]

\* The job of thread t ends (or is left) with row r; the thread is free.
Leave(t, r) ==
  /\ jobs' = [jobs EXCEPT ![thr[t].job] = r]
  /\ thr' = [thr EXCEPT ![t] = Idle]

\* The thread writes row r and goes on at pc.
Save(t, r, pc) ==
  /\ jobs' = [jobs EXCEPT ![thr[t].job] = r]
  /\ Goto(t, pc)

-----------------------------------------------------------------------------
(* The provider's observation of the Player (observe_task_state).          *)

Reachable == prov.link /\ ~prov.uncertain

Observed ==
  CASE prov.uncertain -> "unknown"
    [] ~prov.uncertain /\ ~prov.link -> "unavailable"
    [] Reachable /\ (prov.rev # player.rev \/ prov.gen # player.gen) -> "stale"
    [] Reachable /\ prov.rev = player.rev /\ prov.gen = player.gen
         -> IF player.active THEN "ok" ELSE "unknown"

\* The reply never comes: the connection is discarded, the session latched.
Retired == [prov EXCEPT !.link = FALSE, !.uncertain = TRUE]
Seen == [rev |-> prov.rev, gen |-> prov.gen]

\* The Player's main thread serves requests in order, so a read waits for
\* the request in flight.
Observe(r) ==
  /\ Reachable => wire = NoRequest
  /\ \/ /\ r = Observed /\ r = "ok"
        /\ prov' = [prov EXCEPT !.known = Seen]
        /\ savedGen' = prov.gen
     \/ /\ r = Observed /\ r # "ok"
        /\ UNCHANGED <<prov, savedGen>>
     \/ /\ r = "unknown" /\ Reachable
        /\ prov' = Retired
        /\ UNCHANGED savedGen

\* How _fail_job records the CommandError of a failed observation.
ErrorState(r) == IF r = "unknown" THEN "state_unknown" ELSE "failed"
\* Mutant: the observation's result, not the tri-state it stands for.
ErrorChangedUnmapped(r) == r
ErrorChanged(r) == IF r = "unknown" THEN "unknown" ELSE "no"
ErrorRow(j, r) == Row(j, ErrorState(r), "error", ErrorChanged(r))
FailedRow(j) == Row(j, "failed", "error", "no")
\* Mutant: CommandError's default, runtime_changed=False, is not overridden.
UnknownRowDefaulted(j) == Row(j, "state_unknown", "error", "no")
UnknownRow(j) == Row(j, "state_unknown", "error", "unknown")
Results == {"ok", "stale", "unavailable", "unknown"}
-----------------------------------------------------------------------------
(* Submission: enqueue_prepare and enqueue_iterate, called by the HTTP     *)
(* threads one at a time; the row and the executor entry are one step, as  *)
(* a crash between them leaves what a crash after them leaves.             *)

Enqueue(j, op, p) ==
  /\ host = "serving"
  /\ j \in NextJob
  /\ jobs' = [jobs EXCEPT ![j] = NewRow(op, p)]
  /\ queue' = Append(queue, j)
  /\ UNCHANGED <<plans, facts, savedGen, editor, host, todo, thr, prov, wire,
                 world, history>>

EnqueuePrepare(j) == Enqueue(j, "prepare", 0)

\* An iterate command names an existing plan or prepares its own.
EnqueueIterate(j, p) ==
  /\ p # 0 => plans[p] # NoPlan
  /\ Enqueue(j, "iterate", p)

\* The executor thread takes the next entry: _run_prepare_job or
\* _run_iterate_job.
TakeJob ==
  /\ HostUp /\ thr["worker"].pc = "idle" /\ queue # <<>>
  /\ LET j == Head(queue) IN
       thr' = [thr EXCEPT !["worker"] =
                 [Idle EXCEPT !.job = j,
                              !.pc = IF jobs[j].plan = 0 THEN "prepare"
                                                         ELSE "bind"]]
  /\ queue' = Tail(queue)
  /\ UNCHANGED <<jobs, plans, facts, savedGen, editor, host, todo, prov, wire,
                 world, history>>

-----------------------------------------------------------------------------
(* Preparation: _prepare_plan, the Native compile provider's prepare, and  *)
(* _finalize_prepared_plan.                                                *)

\* Read the task, observe the runtime, snapshot the source; the binding is
\* durable before anything is sent to the Editor.
PreparePlan(t) ==
  /\ At(t, "prepare")
  /\ LET j == thr[t].job
         binding == [task |-> task, input |-> input,
                     rev |-> prov.rev, gen |-> prov.gen] IN
       \E r \in Results :
         /\ Observe(r)
         /\ \/ /\ r = "ok"
               /\ Save(t, [Row(j, "running", "prepare_running", "no")
                            EXCEPT !.binding = binding], "envelope")
            \/ /\ r = "ok"      \* the command asked for another snapshot
               /\ Leave(t, FailedRow(j))
            \/ /\ r # "ok"
               /\ Leave(t, ErrorRow(j, r))
  /\ UNCHANGED <<plans, facts, editor, control, wire, world, history>>

\* The exact Editor request is durable before it is submitted.
SaveEnvelope(t) ==
  /\ At(t, "envelope")
  /\ LET j == thr[t].job IN
       \/ /\ input = jobs[j].binding.input
          /\ Save(t, [Row(j, "running", "prepare_editor_dispatching", "no")
                       EXCEPT !.envelope = TRUE], "submit")
       \/ /\ input # jobs[j].binding.input
          /\ Leave(t, FailedRow(j))
  /\ UNCHANGED <<plans, facts, savedGen, editor, control, prov, wire, world,
                 history>>

\* EditorJobTransport.enqueue publishes a request only for a caller that may
\* submit, and never when the mailbox knows the job already.
\* Mutant: a lookup publishes again while no result is sealed.
MayPublishAgain(j, allowSubmit) == allowSubmit \/ editor[j] # "done"
MayPublish(j, allowSubmit) == allowSubmit /\ editor[j] = "none"

EditorEnqueue(j, allowSubmit) ==
  /\ editor' = IF MayPublish(j, allowSubmit)
                 THEN [editor EXCEPT ![j] = "requested"] ELSE editor
  /\ submits' = IF MayPublish(j, allowSubmit)
                  THEN [submits EXCEPT ![j] = @ + 1] ELSE submits

SubmitCompile(t) ==
  /\ At(t, "submit")
  /\ EditorEnqueue(thr[t].job, TRUE)
  /\ Goto(t, "submitted")
  /\ UNCHANGED <<jobs, plans, facts, savedGen, control, prov, wire, world,
                 applies, executed, base, interrupted, used>>

SaveTicket(t) ==
  /\ At(t, "submitted")
  /\ Save(t, Row(thr[t].job, "running", "prepare_editor_wait", "no"), "wait")
  /\ UNCHANGED <<plans, facts, savedGen, editor, control, prov, wire, world,
                 history>>

\* The Editor's sealed result, validated: its candidate is durable.
CompileResult(t) ==
  /\ At(t, "wait")
  /\ LET j == thr[t].job IN
       \/ /\ editor[j] = "done"
          /\ Save(t, [Row(j, "running", "prepare_candidate_ready", "no")
                       EXCEPT !.saved = TRUE], "finalize")
       \/ /\ editor[j] \in {"done", "failed"}      \* a failure, or a refused result
          /\ Leave(t, FailedRow(j))
  /\ UNCHANGED <<plans, facts, savedGen, editor, control, prov, wire, world,
                 history>>

\* _defer_editor_timeout: the wait ran out, the job stays running and the
\* thread forgets it.
DeferEditorTimeout(t) ==
  /\ At(t, "wait") /\ editor[thr[t].job] = "requested"
  /\ Leave(t, Row(thr[t].job, "running", "prepare_editor_wait", "no"))
  /\ UNCHANGED <<plans, facts, savedGen, editor, control, prov, wire, world,
                 history>>

\* Nothing the plan was prepared from may have changed meanwhile.
FinalizePlan(t) ==
  /\ At(t, "finalize")
  /\ LET j == thr[t].job
         b == jobs[j].binding
         kept == Seen = [rev |-> b.rev, gen |-> b.gen]
         current == task = b.task /\ input = b.input /\ kept IN
       \E r \in Results :
         /\ Observe(r)
         /\ \/ /\ r = "ok" /\ current
               /\ Save(t, Row(j, "running", "prepare_plan_creating", "no"),
                       "create")
            \/ /\ r = "ok" /\ task = b.task /\ ~kept
               /\ Leave(t, Row(j, "state_unknown", "error", "yes"))
            \/ /\ r = "ok" /\ (task # b.task \/ kept)  \* or the result is refused
               /\ Leave(t, FailedRow(j))
            \/ /\ r # "ok"
               /\ Leave(t, ErrorRow(j, r))
  /\ UNCHANGED <<plans, facts, editor, control, wire, world, history>>

\* The plan's identity is derived from the job's, so a second attempt finds
\* the first one's row.
CreatePlan(t) ==
  /\ At(t, "create")
  /\ LET j == thr[t].job IN
       /\ \/ /\ plans[j] # NoPlan
             /\ UNCHANGED plans
          \/ /\ plans[j] = NoPlan
             /\ \E route \in Routes, approval \in {"free", "required"} :
                  plans' = [plans EXCEPT ![j] =
                              [binding |-> jobs[j].binding, route |-> route,
                               approval |-> approval]]
       /\ \/ /\ jobs[j].op = "prepare"
             /\ Leave(t, Row(j, "completed", "prepared", "no"))
          \/ /\ jobs[j].op = "iterate"
             /\ Goto(t, "bind") /\ UNCHANGED jobs
  /\ UNCHANGED <<facts, savedGen, editor, control, prov, wire, world, history>>

-----------------------------------------------------------------------------
(* Application: _run_iterate_job from the bound plan on, and _apply_plan.  *)

\* Mutant: the approval is not looked at.
NeedsApprovalNever(p) == FALSE
NeedsApproval(p) == plans[p].approval = "required"

\* The row is bound to its plan, and stops there while approval is missing.
BindPlan(t) ==
  /\ At(t, "bind")
  /\ LET j == thr[t].job
         p == PlanOf(j)
         bound == [jobs[j] EXCEPT !.plan = p] IN
       \/ /\ NeedsApproval(p)
          /\ Leave(t, [bound EXCEPT !.state = "completed", !.changed = "no",
                                    !.stage = "approval_required"])
       \/ /\ ~NeedsApproval(p)
          /\ Save(t, bound, "preflight")
  /\ UNCHANGED <<plans, facts, savedGen, editor, control, prov, wire, world,
                 history>>

\* What _apply_plan compares with the plan just before it applies it.
\* Mutant: the target is not compared with the plan's binding.
TargetIsCurrentAssumed(p) == TRUE
TargetIsCurrent(p) ==
  Seen = [rev |-> plans[p].binding.rev, gen |-> plans[p].binding.gen]
InputIsCurrent(p) ==
  task = plans[p].binding.task /\ input = plans[p].binding.input

\* The dispatch point: from here on the row says runtimeChanged = null.
StartApply(t) ==
  /\ At(t, "preflight")
  /\ LET j == thr[t].job
         p == PlanOf(j) IN
       \E r \in Results :
         /\ Observe(r)
         /\ \/ /\ r = "ok" /\ InputIsCurrent(p) /\ TargetIsCurrent(p)
               /\ Save(t, Row(j, "running", "runtime_apply", "unknown"), "apply")
            \/ /\ r = "ok" /\ ~(InputIsCurrent(p) /\ TargetIsCurrent(p))
               /\ Leave(t, FailedRow(j))
            \/ /\ r # "ok"
               /\ Leave(t, ErrorRow(j, r))
  /\ UNCHANGED <<plans, facts, editor, control, wire, world, history>>

\* provider.apply raised: the row says so before the provider reconciles.
Raised(j) == Row(j, "running", "runtime_reconcile", "unknown")

\* provider.apply up to its first mutation: its configuration, and the
\* read-only preflight of a reload.
ApplyPrelude(t) ==
  /\ At(t, "apply")
  /\ applies' = [applies EXCEPT ![thr[t].job] = @ + 1]
  /\ LET j == thr[t].job
         preflight == plans[PlanOf(j)].route # "hotfix"
         ready == [prov EXCEPT !.started = FALSE] IN
       \/ /\ ~Reachable \/ jobs[j].entry # "none"
          /\ Save(t, Raised(j), "reconcile")
          /\ UNCHANGED prov
       \/ /\ Reachable /\ jobs[j].entry = "none"
          /\ preflight => wire = NoRequest /\ Observed = "ok"
          /\ thr' = [thr EXCEPT ![t].pc = "send", ![t].step = 1]
          /\ prov' = ready
          /\ UNCHANGED jobs
       \/ /\ Reachable /\ preflight /\ wire = NoRequest /\ Observed # "ok"
          /\ Save(t, Raised(j), "reconcile")
          /\ prov' = ready
       \/ /\ Reachable /\ preflight                  \* its reply is lost
          /\ Save(t, Raised(j), "reconcile")
          /\ prov' = [Retired EXCEPT !.started = FALSE]
  /\ UNCHANGED <<plans, facts, savedGen, editor, control, wire, world, submits,
                 executed, base, interrupted, used>>

\* The revision a journal entry records once the stage has ended.
RevisionAfter(entry) ==
  CASE entry \in {"acknowledged", "failed_with_transition"} -> prov.rev + 1
    [] entry = "rejected" -> prov.rev
    [] OTHER -> -1

\* A composite stage is journaled around its request; the journal write
\* renames the job's stage.
Journaled(j, entry) ==
  IF plans[PlanOf(j)].route = "composite"
  THEN [Row(j, "running", "runtime_stage", "unknown") EXCEPT
          !.entry = entry, !.acked = @ \/ entry = "acknowledged",
          !.after = RevisionAfter(entry)]
  ELSE jobs[j]
RaisedAfter(j, entry) ==
  [Journaled(j, entry) EXCEPT !.stage = "runtime_reconcile"]

Op(t) == Operations(plans[PlanOf(thr[t].job)].route)[thr[t].step]
LastStep(t) == thr[t].step = Len(Operations(plans[PlanOf(thr[t].job)].route))

\* The request frame leaves the Host, or the connection is found gone first.
SendStage(t) ==
  /\ At(t, "send")
  /\ LET j == thr[t].job IN
       \/ /\ Reachable /\ wire = NoRequest
          /\ wire' = [job |-> j, op |-> Op(t), rev |-> prov.rev,
                      reply |-> "pending"]
          /\ Save(t, Journaled(j, "dispatching"), "await")
       \/ /\ ~Reachable
          /\ Save(t, RaisedAfter(j, IF prov.uncertain THEN "unknown" ELSE "rejected"),
                  "reconcile")
          /\ UNCHANGED wire
  /\ UNCHANGED <<plans, facts, savedGen, editor, control, prov, world, history>>

\* The Player's main thread executes the request in flight; it refuses one
\* addressed to another revision, and a provider may refuse or fail late.
PlayerExecute ==
  /\ wire.reply = "pending"
  /\ LET j == wire.job
         partial == [player EXCEPT !.rev = @ + 1]
         Execute(reply, effects, op) ==
           /\ wire' = [wire EXCEPT !.reply = reply]
           /\ player' \in effects
           /\ executed' = [executed EXCEPT ![j] = Append(@, op)]
     IN
       \/ /\ wire' = [wire EXCEPT !.reply = "rejected"]
          /\ UNCHANGED <<player, executed, base>>
       \/ /\ wire.rev = player.rev
          /\ \/ Execute("completed", {Effect(wire.op)}, wire.op)
             \/ Execute("failed_with_transition", {Effect(wire.op), partial}, "failed")
          /\ base' = IF base[j] # NoState THEN base
                     ELSE [base EXCEPT ![j] = [rev |-> player.rev,
                                               gen |-> player.gen]]
  /\ UNCHANGED <<jobs, plans, facts, savedGen, input, task, editor, control,
                 thr, prov, submits, applies, interrupted, used>>

Awaited(t) == At(t, "await") /\ wire.job = thr[t].job

\* An authenticated reply arrives.  One whose payload is malformed, or denies the
\* change its frame attributes, is refused before the expected revision moves.
ReceiveReply(t) ==
  /\ Awaited(t) /\ Reachable /\ wire.reply # "pending"
  /\ wire' = NoRequest
  /\ LET j == thr[t].job
         advanced == [prov EXCEPT !.rev = @ + 1, !.started = TRUE,
                        !.gen = IF Op(t) = "module.load" THEN @ + 1 ELSE @] IN
       \/ /\ wire.reply = "completed"
          /\ prov' = advanced
          /\ jobs' = [jobs EXCEPT ![j] = Journaled(j, "acknowledged")]
          /\ thr' = [thr EXCEPT ![t].pc = IF LastStep(t) THEN "verify" ELSE "send",
                                ![t].step = IF LastStep(t) THEN @ ELSE @ + 1]
       \/ /\ wire.reply = "completed"       \* but its result is refused
          /\ prov' = [prov EXCEPT !.rev = @ + 1, !.started = TRUE]
          /\ Save(t, RaisedAfter(j, "acknowledged"), "reconcile")
       \/ /\ wire.reply = "failed_with_transition"
          /\ prov' = [prov EXCEPT !.rev = @ + 1, !.started = TRUE]
          /\ Save(t, RaisedAfter(j, "failed_with_transition"), "reconcile")
       \/ /\ wire.reply = "rejected"
          /\ Save(t, RaisedAfter(j, "rejected"), "reconcile")
          /\ UNCHANGED prov
       \/ /\ wire.reply \in {"completed", "failed_with_transition"}
          /\ Save(t, RaisedAfter(j, "failed_with_transition"), "reconcile")
          /\ UNCHANGED prov
       \/ /\ prov' \in {prov, [prov EXCEPT !.started = TRUE]}
          /\ Save(t, RaisedAfter(j, "unknown"), "reconcile")
  /\ UNCHANGED <<plans, facts, savedGen, editor, control, world, history>>

\* The whole frame was sent and no reply came: attribution is unknown.
LoseReply(t) ==
  /\ At(t, "await")
  /\ prov' = [Retired EXCEPT !.started = TRUE]
  /\ Save(t, RaisedAfter(thr[t].job, "unknown"), "reconcile")
  /\ UNCHANGED <<plans, facts, savedGen, editor, control, wire, world, history>>

\* provider.apply observes the Player once more before it reports success.
VerifyApplied(t) ==
  /\ At(t, "verify")
  /\ \E r \in Results :
       /\ Observe(r)
       /\ \/ /\ r = "ok"
             /\ thr' = [thr EXCEPT ![t].pc = "after",
                   ![t].out = [status |-> "completed", changed |-> "yes",
                               matched |-> "yes"]]
             /\ UNCHANGED jobs
          \/ /\ r # "ok"
             /\ Save(t, Raised(thr[t].job), "reconcile")
  /\ UNCHANGED <<plans, facts, editor, control, wire, world, history>>

Unknown == [status |-> "state_unknown", changed |-> "unknown", matched |-> "none"]
FailedOutcome(changed, matched) ==
  [status |-> "failed", changed |-> changed, matched |-> matched]

\* provider.reconcile: the stage journal first, then whether a mutation may
\* have started in this process, then the last observation.
\* Mutant: a transition that was observed counts as a completed apply.
ReconcileOutcomeByTransition(j) ==
  IF prov.started
  THEN [status |-> "completed", changed |-> "yes", matched |-> "yes"]
  ELSE Unknown
ReconcileOutcome(j) ==
  LET row == jobs[j] IN
    CASE row.entry \in {"rejected", "failed_with_transition"} ->
           FailedOutcome(IF row.acked \/ row.entry = "failed_with_transition"
                         THEN "yes" ELSE "no", "no")
      [] row.entry = "none" /\ ~prov.started
         /\ prov.known.rev = plans[PlanOf(j)].binding.rev ->
           FailedOutcome("no", "none")
      [] OTHER -> Unknown

ReconcileApply(t) ==
  /\ At(t, "reconcile")
  /\ thr' = [thr EXCEPT ![t].pc = "after", ![t].out = ReconcileOutcome(thr[t].job)]
  /\ \/ UNCHANGED prov
     \/ /\ prov.started /\ Reachable   \* the diagnostic module.reconcile is lost
        /\ prov' = Retired
  /\ UNCHANGED <<jobs, plans, facts, savedGen, editor, control, wire, world,
                 history>>

GenAfter(p) == IF plans[p].route = "hotfix" THEN plans[p].binding.gen
                                           ELSE plans[p].binding.gen + 1
RevisionMoved(p) == prov.rev # plans[p].binding.rev

\* The observation after the apply is checked against what the provider says.
\* A failed outcome that carries a fact breaks the apply contract.
ObserveAfter(t) ==
  /\ At(t, "after")
  /\ LET j == thr[t].job
         p == PlanOf(j)
         out == thr[t].out
         moved == IF RevisionMoved(p) THEN "yes" ELSE "no"
         credible == /\ out.status = "completed" =>
                          RevisionMoved(p) /\ prov.gen = GenAfter(p)
                     /\ out = FailedOutcome("no", "none") => ~RevisionMoved(p)
     IN
       \E r \in Results :
         /\ Observe(r)
         /\ \/ /\ r = "ok" /\ credible /\ out.status = "completed"
               /\ Goto(t, "facts") /\ UNCHANGED jobs
            \/ /\ r = "ok" /\ credible /\ out.status # "completed"
               /\ Leave(t, IF out.matched = "none"
                           THEN Row(j, out.status, "runtime_failed", out.changed)
                           ELSE Row(j, "failed", "error", moved))
            \/ /\ r # "ok" \/ ~credible
               /\ Leave(t, UnknownRow(j))
  /\ UNCHANGED <<plans, facts, editor, control, wire, world, history>>

\* The fact and its evidence are one transaction, the job row the next.
RecordFacts(t) ==
  /\ At(t, "facts")
  /\ facts' = facts \cup {thr[t].job}
  /\ Goto(t, "close")
  /\ UNCHANGED <<jobs, plans, savedGen, editor, control, prov, wire, world,
                 history>>

CloseApply(t) ==
  /\ At(t, "close")
  /\ LET out == thr[t].out IN
       Leave(t, Row(thr[t].job, out.status, "runtime_reconciled", out.changed))
  /\ UNCHANGED <<plans, facts, savedGen, editor, control, prov, wire, world,
                 history>>

-----------------------------------------------------------------------------
(* Crash, restart and recover_pending.                                     *)

FreshProvider(rev) ==
  [link |-> FALSE, rev |-> rev, gen |-> savedGen, known |-> NoState,
   started |-> FALSE, uncertain |-> FALSE]

Crash ==
  /\ HostUp /\ used.crashes < MaxCrashes
  /\ host' = "down"
  /\ queue' = <<>> /\ todo' = {}
  /\ thr' = [t \in Threads |-> Idle]
  /\ prov' = FreshProvider(0)
  /\ interrupted' = interrupted \cup
       {j \in Jobs : Active(j) /\ jobs[j].stage \in RuntimeStages}
  /\ used' = [used EXCEPT !.crashes = @ + 1]
  /\ UNCHANGED <<jobs, plans, facts, savedGen, editor, wire, world, submits,
                 applies, executed, base>>

\* Mutants: settled rows are selected too; queued rows are not.
PendingJobsAnyState == {j \in Jobs : jobs[j].op # "none"}
PendingJobsRunning == {j \in Jobs : jobs[j].state = "running"}
\* The rows recover_pending selects.
PendingJobs == {j \in Jobs : Active(j)}

\* The session file names the Player's launch revision, or was refreshed.
Start ==
  /\ host = "down"
  /\ host' = "recovering"
  /\ todo' = PendingJobs
  /\ \E rev \in {0, player.rev} : prov' = FreshProvider(rev)
  /\ UNCHANGED <<jobs, plans, facts, savedGen, editor, queue, thr, wire, world,
                 history>>

\* Mutant: ORDER BY created_at DESC
LastPending(j) == \A k \in todo : k <= j
\* ORDER BY created_at
FirstPending(j) == \A k \in todo : j <= k

\* Mutant: an interrupted apply is queued again.
RecoveryRetries(stage) ==
  CASE stage \in QueuedStages \cup RuntimeStages -> "resubmit"
    [] stage \in PrepareStages -> "prepare_job"
    [] OTHER -> "fail"
\* Mutant: a stage that recovery does not know is queued again.
RecoveryRequeues(stage) ==
  CASE stage \in {"runtime_apply", "runtime_reconcile"} -> "reconcile_job"
    [] stage \in PrepareStages -> "prepare_job"
    [] OTHER -> "resubmit"
Recovery(stage) ==
  CASE stage \in {"runtime_apply", "runtime_reconcile"} -> "reconcile_job"
    [] stage \in PrepareStages -> "prepare_job"
    [] stage \in QueuedStages -> "resubmit"
    [] OTHER -> "fail"

RecoverJob ==
  /\ host = "recovering" /\ thr["main"].pc = "idle"
  /\ \E j \in todo :
       /\ FirstPending(j)
       /\ todo' = todo \ {j}
       /\ LET kind == Recovery(jobs[j].stage) IN
            \/ /\ kind = "resubmit"
               /\ queue' = Append(queue, j)
               /\ UNCHANGED <<jobs, thr>>
            \/ /\ kind \in {"reconcile_job", "prepare_job"}
               /\ thr' = [thr EXCEPT !["main"] = [Idle EXCEPT !.pc = kind, !.job = j]]
               /\ UNCHANGED <<jobs, queue>>
            \/ /\ kind = "fail"
               /\ jobs' = [jobs EXCEPT ![j] = UnknownRow(j)]
               /\ UNCHANGED <<thr, queue>>
  /\ UNCHANGED <<plans, facts, savedGen, editor, host, prov, wire, world, history>>

\* An interrupted apply is reconciled, never applied again.
RecoverApply(t) ==
  /\ At(t, "reconcile_job")
  /\ LET j == thr[t].job
         out == ReconcileOutcome(j)
         credible == /\ out = FailedOutcome("no", "none") => ~RevisionMoved(PlanOf(j))
                     /\ out.matched = "no" => jobs[j].after = prov.rev
     IN
       \E r \in Results :
         /\ Observe(r)
         /\ \/ /\ r = "ok" /\ credible
               /\ Leave(t, IF out.matched = "none"
                           THEN Row(j, out.status, "runtime_reconciled", out.changed)
                           ELSE FailedRow(j))
            \/ /\ r = "ok" /\ ~credible
               /\ Leave(t, UnknownRow(j))
            \/ /\ r # "ok"
               /\ Leave(t, ErrorRow(j, r))
  /\ UNCHANGED <<plans, facts, editor, control, wire, world, history>>

\* _recover_prepare_job: the binding must still describe the task, the
\* runtime and the source; a compile is only looked up, never resubmitted.
RecoverPrepare(t) ==
  /\ At(t, "prepare_job")
  /\ LET j == thr[t].job
         b == jobs[j].binding
         current == /\ task = b.task /\ input = b.input
                    /\ Seen = [rev |-> b.rev, gen |-> b.gen] IN
       \/ \E r \in Results :
            /\ Observe(r)
            /\ \/ r = "ok" /\ ~current /\ Leave(t, FailedRow(j))
               \/ r # "ok" /\ Leave(t, IF task = b.task THEN ErrorRow(j, r)
                                                      ELSE FailedRow(j))
            /\ UNCHANGED <<editor, submits>>
       \/ /\ Observe("ok") /\ current
          /\ \/ /\ jobs[j].saved
                /\ Goto(t, "finalize")
                /\ UNCHANGED <<jobs, editor, submits>>
             \/ /\ ~jobs[j].saved /\ ~jobs[j].envelope
                /\ Leave(t, UnknownRow(j))
                /\ UNCHANGED <<editor, submits>>
             \/ /\ ~jobs[j].saved /\ jobs[j].envelope
                /\ EditorEnqueue(j, FALSE)
                /\ \/ /\ editor[j] = "done"
                      /\ Save(t, [Row(j, "running", "prepare_candidate_ready", "no")
                                   EXCEPT !.saved = TRUE], "finalize")
                   \/ Leave(t, CASE editor[j] = "none" ->
                                      Row(j, "state_unknown", "error", "no")
                                 [] editor[j] = "requested" -> UnknownRow(j)
                                 [] editor[j] \in {"done", "failed"} -> FailedRow(j))
  /\ UNCHANGED <<plans, facts, control, wire, world, applies, executed, base,
                 interrupted, used>>

RecoveryDone ==
  /\ host = "recovering" /\ todo = {} /\ thr["main"].pc = "idle"
  /\ host' = "serving"
  /\ UNCHANGED <<jobs, plans, facts, savedGen, editor, queue, todo, thr, prov,
                 wire, world, history>>

-----------------------------------------------------------------------------
(* Everything else: the lifecycle endpoint, the user, Editor and Player.   *)

RequestShutdown ==
  /\ host = "serving"
  /\ host' = "draining"
  /\ UNCHANGED <<jobs, plans, facts, savedGen, editor, queue, todo, thr, prov,
                 wire, world, history>>

\* _shutdown_when_safe: no queued or running job is left in the ledger.
ExitWhenSafe ==
  /\ host = "draining" /\ PendingJobs = {}
  /\ host' = "stopped"
  /\ UNCHANGED <<jobs, plans, facts, savedGen, editor, queue, todo, thr, prov,
                 wire, world, history>>

ApprovePlan(p) ==
  /\ host = "serving" /\ plans[p].approval = "required"
  /\ plans' = [plans EXCEPT ![p].approval = "approved"]
  /\ UNCHANGED <<jobs, facts, savedGen, editor, control, thr, prov, wire, world,
                 history>>

EditSource ==
  /\ input < MaxEdits
  /\ input' = input + 1
  /\ UNCHANGED <<jobs, plans, facts, savedGen, editor, control, thr, prov, wire,
                 task, player, history>>

EditTask ==
  /\ host = "serving" /\ task < MaxTaskEdits
  /\ task' = task + 1
  /\ UNCHANGED <<jobs, plans, facts, savedGen, editor, control, thr, prov, wire,
                 input, player, history>>

\* The Editor seals a result; it compiles only the snapshot it was asked for.
CompileFinish(j) ==
  /\ editor[j] = "requested"
  /\ \/ /\ input = jobs[j].binding.input
        /\ editor' = [editor EXCEPT ![j] = "done"]
     \/ editor' = [editor EXCEPT ![j] = "failed"]
  /\ UNCHANGED <<jobs, plans, facts, savedGen, control, thr, prov, wire, world,
                 history>>

ExternalTransition ==
  /\ used.external < MaxExternal
  /\ player' = [player EXCEPT !.rev = @ + 1]
  /\ used' = [used EXCEPT !.external = @ + 1]
  /\ UNCHANGED <<jobs, plans, facts, savedGen, editor, control, thr, prov, wire,
                 input, task, submits, applies, executed, base, interrupted>>

\* The handshake refuses a Player at another revision than the Host expects.
LinkUp ==
  /\ HostUp /\ ~prov.link /\ ~prov.uncertain /\ prov.rev = player.rev
  /\ prov' = [prov EXCEPT !.link = TRUE]
  /\ UNCHANGED <<jobs, plans, facts, savedGen, editor, control, thr, wire, world,
                 history>>

\* A loss while a reply is awaited is LoseReply.
LinkDown ==
  /\ HostUp /\ prov.link /\ used.drops < MaxDrops
  /\ \A t \in Threads : thr[t].pc # "await"
  /\ prov' = [prov EXCEPT !.link = FALSE]
  /\ used' = [used EXCEPT !.drops = @ + 1]
  /\ UNCHANGED <<jobs, plans, facts, savedGen, editor, control, thr, wire, world,
                 submits, applies, executed, base, interrupted>>

\* A request nobody waits for is dropped, or its reply is.
DropOrphan ==
  /\ wire # NoRequest /\ \A t \in Threads : thr[t].pc # "await"
  /\ wire' = NoRequest
  /\ UNCHANGED <<jobs, plans, facts, savedGen, editor, control, thr, prov, world,
                 history>>

-----------------------------------------------------------------------------

Init ==
  /\ jobs = [j \in Jobs |-> NoRow]
  /\ plans = [j \in Jobs |-> NoPlan]
  /\ facts = {}
  /\ savedGen = 0 /\ input = 0 /\ task = 0
  /\ editor = [j \in Jobs |-> "none"]
  /\ host = "serving" /\ queue = <<>> /\ todo = {}
  /\ thr = [t \in Threads |-> Idle]
  /\ prov = [link |-> TRUE, rev |-> 0, gen |-> 0, known |-> NoState,
             started |-> FALSE, uncertain |-> FALSE]
  /\ player = [rev |-> 0, gen |-> 0, active |-> TRUE]
  /\ wire = NoRequest
  /\ submits = [j \in Jobs |-> 0]
  /\ applies = [j \in Jobs |-> 0]
  /\ executed = [j \in Jobs |-> <<>>]
  /\ base = [j \in Jobs |-> NoState]
  /\ interrupted = {}
  /\ used = [crashes |-> 0, drops |-> 0, external |-> 0]

\* The steps a thread takes while it runs a job.
RunJob(t) ==
  \/ PreparePlan(t) \/ SaveEnvelope(t) \/ SubmitCompile(t) \/ SaveTicket(t)
  \/ CompileResult(t) \/ DeferEditorTimeout(t) \/ FinalizePlan(t)
  \/ CreatePlan(t) \/ BindPlan(t) \/ StartApply(t) \/ ApplyPrelude(t)
  \/ SendStage(t) \/ ReceiveReply(t) \/ LoseReply(t) \/ VerifyApplied(t)
  \/ ReconcileApply(t) \/ ObserveAfter(t) \/ RecordFacts(t) \/ CloseApply(t)

Recover == RecoverJob \/ RecoverApply("main") \/ RecoverPrepare("main")
           \/ RecoveryDone

Submit == \E j \in Jobs : EnqueuePrepare(j) \/ \E p \in 0..NJobs : EnqueueIterate(j, p)

Environment ==
  \/ RequestShutdown \/ \E p \in Jobs : ApprovePlan(p)
  \/ EditSource \/ EditTask \/ \E j \in Jobs : CompileFinish(j)
  \/ ExternalTransition \/ LinkUp \/ LinkDown \/ Crash

Next ==
  \/ TakeJob \/ \E t \in Threads : RunJob(t)
  \/ Start \/ Recover \/ ExitWhenSafe
  \/ PlayerExecute \/ DropOrphan
  \/ Submit \/ Environment

Spec == Init /\ [][Next]_vars

\* The operating system keeps running both threads, a crashed Host is started
\* again, and a request that nobody waits for does not stay in flight.
Fairness ==
  /\ WF_vars(TakeJob) /\ \A t \in Threads : WF_vars(RunJob(t))
  /\ WF_vars(Start) /\ WF_vars(Recover) /\ WF_vars(ExitWhenSafe)
  /\ WF_vars(DropOrphan)

FairSpec == Spec /\ Fairness

\* The same with an Editor that answers every request.
AnsweringSpec == FairSpec /\ \A j \in Jobs : WF_vars(CompileFinish(j))
-----------------------------------------------------------------------------
(* Properties.                                                             *)

StateOf == [rev : Int, gen : Int]
BindingOf == [task : Int, input : Int, rev : Int, gen : Int]
Changes == {"no", "yes", "unknown"}
RowType ==
  [op : {"none", "prepare", "iterate"}, plan : 0..NJobs, state : States,
   stage : Stages, changed : Changes, binding : BindingOf,
   envelope : BOOLEAN, saved : BOOLEAN, entry : JournalEntries,
   acked : BOOLEAN, after : Int]
PlanType ==
  [binding : BindingOf, route : Routes \cup {"none"},
   approval : {"none", "free", "required", "approved"}]
OutcomeType ==
  [status : {"none", "completed", "failed", "state_unknown"},
   changed : Changes, matched : {"none", "yes", "no"}]
ThreadType == [pc : Steps, job : 0..NJobs, step : 0..5, out : OutcomeType]
ProvType == [link : BOOLEAN, rev : Int, gen : Int, known : StateOf,
             started : BOOLEAN, uncertain : BOOLEAN]
PlayerType == [rev : Int, gen : Int, active : BOOLEAN]
RequestType ==
  [job : Jobs, op : MutatingOps, rev : Int,
   reply : {"pending", "completed", "rejected", "failed_with_transition"}]
WireType == RequestType \cup {NoRequest}

\* Every variable keeps the shape the code gives it.
TypeOK ==
  /\ jobs \in [Jobs -> RowType]
  /\ plans \in [Jobs -> PlanType]
  /\ facts \subseteq Jobs /\ interrupted \subseteq Jobs /\ todo \subseteq Jobs
  /\ savedGen \in Int /\ input \in Int /\ task \in Int
  /\ editor \in [Jobs -> {"none", "requested", "done", "failed"}]
  /\ host \in {"serving", "draining", "stopped", "down", "recovering"}
  /\ queue \in Seq(Jobs)
  /\ thr \in [Threads -> ThreadType]
  /\ prov \in ProvType /\ player \in PlayerType
  /\ wire \in WireType
  /\ submits \in [Jobs -> Int] /\ applies \in [Jobs -> Int]
  /\ executed \in [Jobs -> Seq(MutatingOps \cup {"failed"})]
  /\ base \in [Jobs -> StateOf]
  /\ used \in [crashes : Int, drops : Int, external : Int]

\* No job's plan is handed to provider.apply twice, whatever crashes: an
\* interrupted apply is reconciled and never repeated (recover_pending).
AtMostOnceApply == \A j \in Jobs : applies[j] <= 1

\* No compile request is published to the Editor mailbox twice for a job, not
\* by a retry and not by a recovery (EditorJobTransport.enqueue).
AtMostOnceCompile == \A j \in Jobs : submits[j] <= 1

\* The recovering main thread and the executor never apply at the same time
\* although nothing but the order of the recovered rows keeps them apart.
SingleApplier == \E t \in Threads : thr[t].pc \notin ApplySteps

\* A settled job says what it did to the Player: runtimeChanged = false only
\* if none of its requests was executed, then or later, and a reconciled
\* runtimeChanged = true only if one was.  (The rows of an apply that a crash
\* interrupted are HonestAfterRestart's.)
HonestAttribution ==
  \A j \in Jobs \ interrupted :
    Terminal(j) =>
      /\ jobs[j].changed = "no" => executed[j] = <<>>
      /\ jobs[j].changed = "yes" /\ jobs[j].stage \in {"runtime_reconciled", "runtime_failed"}
           => executed[j] # <<>>

\* The same of every job, as contracts/native-runtime-update-host.md:23 has
\* it: lost attribution is STATE_UNKNOWN with runtimeChanged null.
HonestAfterRestart ==
  \A j \in Jobs : Terminal(j) /\ jobs[j].changed = "no" => executed[j] = <<>>

\* Nothing is applied from a plan that still waits for approval, not even by
\* the recovery of the iterate job that created it.
ApprovalRespected ==
  \A j \in Jobs : applies[j] > 0 => ~plans[PlanOf(j)].approval = "required"

\* The first mutation of a job meets the very runtime its plan was prepared
\* for: no transition of anyone slips in between preflight and dispatch.
MutatesPreparedState ==
  \A j \in Jobs : base[j] # NoState =>
    LET b == plans[PlanOf(j)].binding IN base[j] = [rev |-> b.rev, gen |-> b.gen]

\* Two commands that iterate one plan never both change the Player.
PlanAppliedOnce ==
  \A i, j \in Jobs : i # j /\ executed[i] # <<>> /\ executed[j] # <<>>
                       => PlanOf(i) # PlanOf(j)

\* A job whose fact is recorded, or that completed its apply, has had every
\* one of its operations executed, once each and in order, and none failed.
CompletedMeansApplied ==
  \A j \in Jobs :
    j \in facts \/ (jobs[j].state = "completed" /\ jobs[j].stage = "runtime_reconciled")
      => executed[j] = Operations(plans[PlanOf(j)].route)

\* A settled row is final: no late thread and no recovery rewrites it.
TerminalSticky ==
  [][\A j \in Jobs : Terminal(j) => UNCHANGED <<jobs[j], applies[j]>>]_vars

\* A job that changed the Player, or whose request may still do so, is never at
\* a stage from which a recovery would run it again, whenever the Host dies:
\* not while a composite stage's journal renames it, and not with a request of
\* the dead Host still on its way ("must not be terminated or replayed",
\* contracts/host-lifecycle.md:17; recover_pending goes by the stage alone).
TouchedNeverReplayed ==
  \A j \in Jobs :
    Active(j) /\ (executed[j] # <<>> \/ (wire.job = j /\ wire.reply = "pending"))
      => Recovery(jobs[j].stage) \in {"reconcile_job", "fail"}

\* A job forgotten by _defer_editor_timeout: only a restart resumes it.
Deferred(j) ==
  /\ HostUp /\ jobs[j].state = "running" /\ jobs[j].stage = "prepare_editor_wait"
  /\ \A t \in Threads : thr[t].job # j

\* Every accepted job settles or is deferred, across crashes, lost replies and
\* a Player that never comes back.
JobSettles == \A j \in Jobs : Active(j) ~> (Terminal(j) \/ Deferred(j))

\* A draining Host stops (contracts/host-lifecycle.md:33).
DrainCompletes == host = "draining" ~> host # "draining"
=============================================================================
