----------------------- MODULE UpdateCoordinatorTyping -----------------------
(***************************************************************************)
(* Every step of the update coordinator keeps its variables typed, for any *)
(* number of jobs, any routes, and any number of edits, crashes, losses    *)
(* and transitions.                                                        *)
(*                                                                         *)
(* A request carries an operation only because the plan of a job that is   *)
(* being applied exists, which is part of the invariant.  That the plan    *)
(* does not change under a thread needs to know which jobs threads run,    *)
(* and is proved in UpdateCoordinatorProofs.                               *)
(***************************************************************************)
EXTENDS UpdateCoordinator, TLAPS

HasPlan(p) == plans[p].route \in Routes

\* A job refers to a plan that exists; a plan that exists has a route.
PlansExist ==
  /\ \A p \in Jobs : plans[p] # NoPlan => HasPlan(p)
  /\ \A j \in Jobs : jobs[j].plan # 0 => HasPlan(jobs[j].plan)

BoundSteps == (ApplySteps \cup {"bind", "preflight"})

\* A thread that binds or applies a plan finds it, and its next operation.
OperationsExist ==
  \A t \in Threads :
    /\ thr[t].pc # "idle" => thr[t].job \in Jobs
    /\ thr[t].pc \in BoundSteps => HasPlan(PlanOf(thr[t].job))
    /\ thr[t].pc \in {"send", "await"} =>
         thr[t].step \in 1..Len(Operations(plans[PlanOf(thr[t].job)].route))

TypeInv == TypeOK /\ PlansExist /\ OperationsExist

LEMMA RowTyped ==
  ASSUME TypeOK, NEW j \in Jobs, NEW state \in States, NEW stage \in Stages,
         NEW changed \in Changes
  PROVE  Row(j, state, stage, changed) \in RowType
<1>1. jobs[j] \in RowType
  BY DEF TypeOK
<1>. QED
  BY <1>1 DEF RowType, Row

LEMMA OperationsTyped ==
  ASSUME NEW route \in Routes
  PROVE  /\ Operations(route) \in Seq(MutatingOps)
         /\ Len(Operations(route)) \in 1..5
<1>1. route \in {"hotfix", "reload", "composite"}
  BY BoundsAssumption
<1>2. CASE route = "hotfix"
  <2>1. Operations(route) = <<"hotfix">>
    BY <1>2 DEF Operations
  <2>. QED
    BY <2>1 DEF MutatingOps
<1>3. CASE route = "reload"
  <2>1. Operations(route) = <<"module.quiesce", "module.dispose",
                              "module.load", "module.restore">>
    BY <1>3 DEF Operations
  <2>. QED
    BY <2>1 DEF MutatingOps
<1>4. CASE route = "composite"
  <2>1. Operations(route) = <<"module.quiesce", "module.dispose", "module.load",
                              "resource.activate", "module.restore">>
    BY <1>4 DEF Operations
  <2>. QED
    BY <2>1 DEF MutatingOps
<1>. QED
  BY <1>1, <1>2, <1>3, <1>4

LEMMA InitTyped == Init => TypeInv
<1>. SUFFICES ASSUME Init PROVE TypeInv
  OBVIOUS
<1>1. TypeOK
  BY BoundsAssumption DEF Init, TypeOK, Jobs, NoRow, NoPlan, NoBinding, NoState, NoRequest, Idle,
     NoOutcome, RowType, PlanType, ThreadType, OutcomeType, ProvType, PlayerType,
     WireType, RequestType, BindingOf, StateOf,
     States, Stages, QueuedStages, PrepareStages, RuntimeStages, FinalStages,
     JournalEntries, Changes, Steps, PrepareSteps, ApplySteps, MutatingOps, Threads
<1>2. PlansExist /\ OperationsExist
  BY DEF Init, PlansExist, OperationsExist, NoRow, Idle, BoundSteps, ApplySteps, Threads
<1>. QED
  BY <1>1, <1>2 DEF TypeInv

LEMMA GotoTyped ==
  ASSUME TypeOK, NEW t \in Threads, NEW pc \in Steps, Goto(t, pc)
  PROVE  thr' \in [Threads -> ThreadType]
<1>1. thr[t] \in ThreadType
  BY DEF TypeOK
<1>2. [thr[t] EXCEPT !.pc = pc] \in ThreadType
  BY <1>1 DEF ThreadType
<1>. QED
  BY <1>2 DEF TypeOK, Goto

LEMMA SaveTyped ==
  ASSUME TypeOK, NEW t \in Threads, NEW r \in RowType, NEW pc \in Steps,
         Save(t, r, pc)
  PROVE  jobs' \in [Jobs -> RowType] /\ thr' \in [Threads -> ThreadType]
BY GotoTyped DEF TypeOK, Save

LEMMA LeaveTyped ==
  ASSUME TypeOK, NEW t \in Threads, NEW r \in RowType, Leave(t, r)
  PROVE  jobs' \in [Jobs -> RowType] /\ thr' \in [Threads -> ThreadType]
<1>1. Idle \in ThreadType
  BY BoundsAssumption DEF Idle, NoOutcome, ThreadType, OutcomeType, Steps, Changes
<1>. QED
  BY <1>1 DEF TypeOK, Leave

LEMMA ObserveTyped ==
  ASSUME TypeOK, NEW r \in Results, Observe(r)
  PROVE  prov' \in ProvType /\ savedGen' \in Int
<1>1. prov \in ProvType /\ savedGen \in Int
  BY DEF TypeOK, ProvType
<1>2. Retired \in ProvType
  BY <1>1 DEF Retired, ProvType
<1>. QED
  BY <1>1, <1>2 DEF Observe, Seen, ProvType, StateOf

LEMMA ErrorRowTyped ==
  ASSUME TypeOK, NEW j \in Jobs, NEW r \in Results
  PROVE  /\ ErrorRow(j, r) \in RowType
         /\ FailedRow(j) \in RowType /\ UnknownRow(j) \in RowType
<1>1. /\ ErrorState(r) \in States /\ ErrorChanged(r) \in Changes
      /\ "error" \in Stages /\ {"failed", "state_unknown"} \subseteq States
      /\ {"no", "unknown"} \subseteq Changes
  BY DEF ErrorState, ErrorChanged, States, Changes, Stages, FinalStages
<1>. QED
  BY <1>1, RowTyped DEF ErrorRow, FailedRow, UnknownRow

LEMMA NamesTyped ==
  /\ {"queued", "running", "completed", "failed", "state_unknown"} \subseteq States
  /\ QueuedStages \cup PrepareStages \cup RuntimeStages \cup FinalStages \subseteq Stages
  /\ PrepareSteps \cup ApplySteps \cup {"idle", "reconcile_job", "prepare_job"} \subseteq Steps
  /\ Changes = {"no", "yes", "unknown"}
BY DEF States, Stages, Steps, Changes

LEMMA RowFieldsTyped ==
  ASSUME NEW r \in RowType
  PROVE  /\ [r EXCEPT !.envelope = TRUE] \in RowType
         /\ [r EXCEPT !.saved = TRUE] \in RowType
         /\ \A b \in BindingOf : [r EXCEPT !.binding = b] \in RowType
         /\ \A p \in 0..NJobs : [r EXCEPT !.plan = p] \in RowType
BY DEF RowType

LEMMA ThreadFieldsTyped ==
  ASSUME NEW th \in ThreadType, NEW pc \in Steps
  PROVE  /\ [th EXCEPT !.pc = pc] \in ThreadType
         /\ \A n \in 0..5 : [[th EXCEPT !.pc = pc] EXCEPT !.step = n] \in ThreadType
         /\ \A o \in OutcomeType : [[th EXCEPT !.pc = pc] EXCEPT !.out = o] \in ThreadType
<1>1. [th EXCEPT !.pc = pc] \in ThreadType
  BY DEF ThreadType
<1>2. \A u \in ThreadType, n \in 0..5 : [u EXCEPT !.step = n] \in ThreadType
  BY DEF ThreadType
<1>3. \A u \in ThreadType, o \in OutcomeType : [u EXCEPT !.out = o] \in ThreadType
  BY DEF ThreadType
<1>. QED
  BY <1>1, <1>2, <1>3

LEMMA RunningRowTyped ==
  ASSUME TypeOK, NEW j \in Jobs
  PROVE  \A stage \in PrepareStages \cup RuntimeStages, c \in Changes :
           Row(j, "running", stage, c) \in RowType
BY RowTyped, NamesTyped

\* The job of a thread that is at a step is one of the jobs.
LEMMA OwnedJob ==
  ASSUME TypeInv, NEW t \in Threads, NEW pc, pc # "idle", At(t, pc)
  PROVE  TypeOK /\ thr[t].job \in Jobs
BY DEF TypeInv, OperationsExist, At

-----------------------------------------------------------------------------
(* The steps that write a row: preparation.                                *)

LEMMA PreparePlanTyped ==
  ASSUME TypeInv, NEW t \in Threads, PreparePlan(t)
  PROVE  TypeOK'
<1> DEFINE j == thr[t].job
           b == [task |-> task, input |-> input, rev |-> prov.rev, gen |-> prov.gen]
           row == [Row(j, "running", "prepare_running", "no") EXCEPT !.binding = b]
<1>0. TypeOK /\ j \in Jobs
  BY OwnedJob DEF PreparePlan
<1>1. PICK r \in Results :
        /\ Observe(r)
        /\ Save(t, row, "envelope") \/ Leave(t, FailedRow(j)) \/ Leave(t, ErrorRow(j, r))
  BY DEF PreparePlan
<1>2. prov' \in ProvType /\ savedGen' \in Int
  BY <1>0, <1>1, ObserveTyped
<1>3. row \in RowType
  <2>1. b \in BindingOf
    BY <1>0 DEF TypeOK, ProvType, BindingOf
  <2>. QED
    BY <1>0, <2>1, RunningRowTyped, RowFieldsTyped DEF PrepareStages, Changes
<1>4. jobs' \in [Jobs -> RowType] /\ thr' \in [Threads -> ThreadType]
  BY <1>0, <1>1, <1>3, SaveTyped, LeaveTyped, ErrorRowTyped, NamesTyped
     DEF PrepareSteps
<1>. QED
  BY <1>0, <1>2, <1>4 DEF TypeOK, PreparePlan, world, control, history

LEMMA SaveEnvelopeTyped ==
  ASSUME TypeInv, NEW t \in Threads, SaveEnvelope(t)
  PROVE  TypeOK'
<1> DEFINE j == thr[t].job
           row == [Row(j, "running", "prepare_editor_dispatching", "no")
                     EXCEPT !.envelope = TRUE]
<1>0. TypeOK /\ j \in Jobs
  BY OwnedJob DEF SaveEnvelope
<1>1. row \in RowType
  BY <1>0, RunningRowTyped, RowFieldsTyped DEF PrepareStages, Changes
<1>2. jobs' \in [Jobs -> RowType] /\ thr' \in [Threads -> ThreadType]
  BY <1>0, <1>1, SaveTyped, LeaveTyped, ErrorRowTyped, NamesTyped
     DEF PrepareSteps, SaveEnvelope, Results
<1>. QED
  BY <1>0, <1>2 DEF TypeOK, SaveEnvelope, world, history, control

LEMMA EditorEnqueueTyped ==
  ASSUME TypeOK, NEW j \in Jobs, NEW allowed \in BOOLEAN, EditorEnqueue(j, allowed)
  PROVE  /\ editor' \in [Jobs -> {"none", "requested", "done", "failed"}]
         /\ submits' \in [Jobs -> Int]
BY DEF TypeOK, EditorEnqueue

LEMMA SubmitCompileTyped ==
  ASSUME TypeInv, NEW t \in Threads, SubmitCompile(t)
  PROVE  TypeOK'
<1>0. TypeOK /\ thr[t].job \in Jobs
  BY OwnedJob DEF SubmitCompile
<1>1. thr' \in [Threads -> ThreadType]
  BY <1>0, GotoTyped, NamesTyped DEF SubmitCompile, PrepareSteps
<1>2. /\ editor' \in [Jobs -> {"none", "requested", "done", "failed"}]
      /\ submits' \in [Jobs -> Int]
  BY <1>0, EditorEnqueueTyped DEF SubmitCompile
<1>. QED
  BY <1>0, <1>1, <1>2 DEF TypeOK, SubmitCompile, world, control

LEMMA EditorWaitTyped ==
  ASSUME TypeInv, NEW t \in Threads,
         SaveTicket(t) \/ CompileResult(t) \/ DeferEditorTimeout(t)
  PROVE  TypeOK'
<1> DEFINE j == thr[t].job
<1>0. TypeOK /\ j \in Jobs
  BY OwnedJob DEF SaveTicket, CompileResult, DeferEditorTimeout
<1>1. /\ Row(j, "running", "prepare_editor_wait", "no") \in RowType
      /\ [Row(j, "running", "prepare_candidate_ready", "no") EXCEPT !.saved = TRUE]
           \in RowType
  BY <1>0, RunningRowTyped, RowFieldsTyped DEF PrepareStages, Changes
<1>2. jobs' \in [Jobs -> RowType] /\ thr' \in [Threads -> ThreadType]
  BY <1>0, <1>1, SaveTyped, LeaveTyped, ErrorRowTyped, NamesTyped
     DEF PrepareSteps, SaveTicket, CompileResult, DeferEditorTimeout, Results
<1>. QED
  BY <1>0, <1>2 DEF TypeOK, SaveTicket, CompileResult, DeferEditorTimeout,
                    world, history, control

LEMMA FinalizePlanTyped ==
  ASSUME TypeInv, NEW t \in Threads, FinalizePlan(t)
  PROVE  TypeOK'
<1> DEFINE j == thr[t].job
<1>0. TypeOK /\ j \in Jobs
  BY OwnedJob DEF FinalizePlan
<1>1. PICK r \in Results :
        /\ Observe(r)
        /\ \/ Save(t, Row(j, "running", "prepare_plan_creating", "no"), "create")
           \/ Leave(t, Row(j, "state_unknown", "error", "yes"))
           \/ Leave(t, FailedRow(j)) \/ Leave(t, ErrorRow(j, r))
  BY DEF FinalizePlan
<1>2. prov' \in ProvType /\ savedGen' \in Int
  BY <1>0, <1>1, ObserveTyped
<1>3. /\ Row(j, "running", "prepare_plan_creating", "no") \in RowType
      /\ Row(j, "state_unknown", "error", "yes") \in RowType
  BY <1>0, RunningRowTyped, RowTyped, NamesTyped DEF PrepareStages, FinalStages, Changes
<1>4. jobs' \in [Jobs -> RowType] /\ thr' \in [Threads -> ThreadType]
  BY <1>0, <1>1, <1>3, SaveTyped, LeaveTyped, ErrorRowTyped, NamesTyped
     DEF PrepareSteps
<1>. QED
  BY <1>0, <1>2, <1>4 DEF TypeOK, FinalizePlan, world, control, history

LEMMA CreatePlanTyped ==
  ASSUME TypeInv, NEW t \in Threads, CreatePlan(t)
  PROVE  TypeOK'
<1> DEFINE j == thr[t].job
<1>0. TypeOK /\ j \in Jobs
  BY OwnedJob DEF CreatePlan
<1>1. jobs[j].binding \in BindingOf
  BY <1>0 DEF TypeOK, RowType
<1>2. plans' \in [Jobs -> PlanType]
  <2>1. CASE UNCHANGED plans
    BY <1>0, <2>1 DEF TypeOK
  <2>2. ASSUME NEW route \in Routes, NEW approval \in {"free", "required"},
               plans' = [plans EXCEPT ![j] =
                 [binding |-> jobs[j].binding, route |-> route, approval |-> approval]]
        PROVE  plans' \in [Jobs -> PlanType]
    <3>1. [binding |-> jobs[j].binding, route |-> route, approval |-> approval]
            \in PlanType
      BY <1>1 DEF PlanType
    <3>. QED
      BY <1>0, <2>2, <3>1 DEF TypeOK
  <2>. QED
    BY <2>1, <2>2 DEF CreatePlan
<1>3. Row(j, "completed", "prepared", "no") \in RowType
  BY <1>0, RowTyped, NamesTyped DEF FinalStages, Changes
<1>4. jobs' \in [Jobs -> RowType] /\ thr' \in [Threads -> ThreadType]
  <2>1. CASE Leave(t, Row(j, "completed", "prepared", "no"))
    BY <1>0, <1>3, <2>1, LeaveTyped
  <2>2. CASE Goto(t, "bind") /\ UNCHANGED jobs
    BY <1>0, <2>2, GotoTyped, NamesTyped DEF PrepareSteps, TypeOK
  <2>. QED
    BY <2>1, <2>2 DEF CreatePlan
<1>. QED
  BY <1>0, <1>2, <1>4 DEF TypeOK, CreatePlan, world, control, history

-----------------------------------------------------------------------------
(* The steps that write a row: application.                                *)

LEMMA BindPlanTyped ==
  ASSUME TypeInv, NEW t \in Threads, BindPlan(t)
  PROVE  TypeOK'
<1> DEFINE j == thr[t].job
           bound == [jobs[j] EXCEPT !.plan = PlanOf(j)]
           stopped == [bound EXCEPT !.state = "completed", !.changed = "no",
                                    !.stage = "approval_required"]
<1>0. TypeOK /\ j \in Jobs
  BY OwnedJob DEF BindPlan
<1>1. bound \in RowType
  <2>1. jobs[j] \in RowType
    BY <1>0 DEF TypeOK
  <2>2. PlanOf(j) \in 0..NJobs
    BY <1>0, <2>1 DEF PlanOf, RowType, Jobs
  <2>. QED
    BY <2>1, <2>2, RowFieldsTyped
<1>2. stopped \in RowType
  <2>1. "completed" \in States /\ "no" \in Changes /\ "approval_required" \in Stages
    BY NamesTyped DEF FinalStages, Changes
  <2>. QED
    BY <1>1, <2>1 DEF RowType
<1>3. Leave(t, stopped) \/ Save(t, bound, "preflight")
  BY DEF BindPlan
<1>4. jobs' \in [Jobs -> RowType] /\ thr' \in [Threads -> ThreadType]
  BY <1>0, <1>1, <1>2, <1>3, SaveTyped, LeaveTyped, NamesTyped DEF PrepareSteps
<1>. QED
  BY <1>0, <1>4 DEF TypeOK, BindPlan, world, control, history

LEMMA StartApplyTyped ==
  ASSUME TypeInv, NEW t \in Threads, StartApply(t)
  PROVE  TypeOK'
<1> DEFINE j == thr[t].job
<1>0. TypeOK /\ j \in Jobs
  BY OwnedJob DEF StartApply
<1>1. PICK r \in Results :
        /\ Observe(r)
        /\ \/ Save(t, Row(j, "running", "runtime_apply", "unknown"), "apply")
           \/ Leave(t, FailedRow(j)) \/ Leave(t, ErrorRow(j, r))
  BY DEF StartApply
<1>2. prov' \in ProvType /\ savedGen' \in Int
  BY <1>0, <1>1, ObserveTyped
<1>3. Row(j, "running", "runtime_apply", "unknown") \in RowType
  BY <1>0, RunningRowTyped DEF RuntimeStages, Changes
<1>4. jobs' \in [Jobs -> RowType] /\ thr' \in [Threads -> ThreadType]
  BY <1>0, <1>1, <1>3, SaveTyped, LeaveTyped, ErrorRowTyped, NamesTyped
     DEF ApplySteps
<1>. QED
  BY <1>0, <1>2, <1>4 DEF TypeOK, StartApply, world, control, history

LEMMA RaisedTyped ==
  ASSUME TypeOK, NEW j \in Jobs, NEW entry \in JournalEntries
  PROVE  /\ Raised(j) \in RowType
         /\ Journaled(j, entry) \in RowType
         /\ RaisedAfter(j, entry) \in RowType
<1>1. Raised(j) \in RowType
  BY RunningRowTyped DEF Raised, RuntimeStages, Changes
<1>2. Journaled(j, entry) \in RowType
  <2>1. jobs[j] \in RowType
    BY DEF TypeOK
  <2>2. Row(j, "running", "runtime_stage", "unknown") \in RowType
    BY RunningRowTyped DEF RuntimeStages, Changes
  <2>3. RevisionAfter(entry) \in Int
    BY DEF TypeOK, ProvType, RevisionAfter
  <2>. QED
    BY <2>1, <2>2, <2>3 DEF RowType, Journaled
<1>3. RaisedAfter(j, entry) \in RowType
  <2>1. "runtime_reconcile" \in Stages
    BY NamesTyped DEF RuntimeStages
  <2>. QED
    BY <1>2, <2>1 DEF RowType, RaisedAfter
<1>. QED
  BY <1>1, <1>2, <1>3

LEMMA ApplyPreludeTyped ==
  ASSUME TypeInv, NEW t \in Threads, ApplyPrelude(t)
  PROVE  TypeOK'
<1> DEFINE j == thr[t].job
<1>0. TypeOK /\ j \in Jobs
  BY OwnedJob DEF ApplyPrelude
<1>1. prov' \in ProvType
  <2>1. prov \in ProvType
    BY <1>0 DEF TypeOK
  <2>2. /\ [prov EXCEPT !.started = FALSE] \in ProvType
        /\ [Retired EXCEPT !.started = FALSE] \in ProvType
    BY <2>1 DEF ProvType, Retired
  <2>. QED
    BY <2>1, <2>2 DEF ApplyPrelude
<1>2. jobs' \in [Jobs -> RowType] /\ thr' \in [Threads -> ThreadType]
  <2>1. CASE Save(t, Raised(j), "reconcile")
    BY <1>0, <2>1, SaveTyped, RaisedTyped, NamesTyped DEF ApplySteps, JournalEntries
  <2>2. CASE UNCHANGED jobs /\ thr' = [thr EXCEPT ![t].pc = "send", ![t].step = 1]
    <3>1. thr[t] \in ThreadType /\ "send" \in Steps
      BY <1>0, NamesTyped DEF TypeOK, ApplySteps
    <3>2. [[thr[t] EXCEPT !.pc = "send"] EXCEPT !.step = 1] \in ThreadType
      <4>1. \A n \in 0..5 : [[thr[t] EXCEPT !.pc = "send"] EXCEPT !.step = n] \in ThreadType
        BY <3>1, ThreadFieldsTyped
      <4>2. 1 \in 0..5
        OBVIOUS
      <4>. QED
        BY <4>1, <4>2
    <3>. QED
      BY <1>0, <2>2, <3>2 DEF TypeOK
  <2>. QED
    BY <2>1, <2>2 DEF ApplyPrelude
<1>3. applies' \in [Jobs -> Int]
  BY <1>0 DEF TypeOK, ApplyPrelude
<1>. QED
  BY <1>0, <1>1, <1>2, <1>3 DEF TypeOK, ApplyPrelude, world, control

LEMMA SendStageTyped ==
  ASSUME TypeInv, NEW t \in Threads, SendStage(t)
  PROVE  TypeOK'
<1> DEFINE j == thr[t].job
<1>0. TypeOK /\ j \in Jobs
  BY OwnedJob DEF SendStage
<1>1. Op(t) \in MutatingOps
  <2>1. plans[PlanOf(j)].route \in Routes
        /\ thr[t].step \in 1..Len(Operations(plans[PlanOf(j)].route))
    BY DEF TypeInv, OperationsExist, HasPlan, SendStage, At, BoundSteps, ApplySteps
  <2>. QED
    BY <2>1, OperationsTyped DEF Op
<1>2. wire' \in WireType
  <2>1. prov.rev \in Int /\ wire \in WireType
    BY <1>0 DEF TypeOK, ProvType
  <2>2. [job |-> j, op |-> Op(t), rev |-> prov.rev, reply |-> "pending"] \in WireType
    BY <1>0, <1>1, <2>1 DEF WireType, RequestType
  <2>. QED
    BY <2>1, <2>2 DEF SendStage
<1>3. jobs' \in [Jobs -> RowType] /\ thr' \in [Threads -> ThreadType]
  BY <1>0, SaveTyped, RaisedTyped, NamesTyped DEF SendStage, ApplySteps, JournalEntries
<1>. QED
  BY <1>0, <1>2, <1>3 DEF TypeOK, SendStage, world, control, history

LEMMA LoseReplyTyped ==
  ASSUME TypeInv, NEW t \in Threads, LoseReply(t)
  PROVE  TypeOK'
<1>0. TypeOK /\ thr[t].job \in Jobs
  BY OwnedJob DEF LoseReply
<1>1. prov' \in ProvType
  BY <1>0 DEF TypeOK, LoseReply, Retired, ProvType
<1>2. jobs' \in [Jobs -> RowType] /\ thr' \in [Threads -> ThreadType]
  BY <1>0, SaveTyped, RaisedTyped, NamesTyped DEF LoseReply, ApplySteps, JournalEntries
<1>. QED
  BY <1>0, <1>1, <1>2 DEF TypeOK, LoseReply, world, control, history

LEMMA OutcomesTyped ==
  /\ Unknown \in OutcomeType
  /\ \A c \in {"yes", "no"}, m \in {"none", "yes", "no"} : FailedOutcome(c, m) \in OutcomeType
  /\ [status |-> "completed", changed |-> "yes", matched |-> "yes"] \in OutcomeType
  /\ \A j \in Jobs : ReconcileOutcome(j) \in OutcomeType
<1>1. /\ Unknown \in OutcomeType
      /\ \A c \in {"yes", "no"}, m \in {"none", "yes", "no"} :
           FailedOutcome(c, m) \in OutcomeType
      /\ [status |-> "completed", changed |-> "yes", matched |-> "yes"] \in OutcomeType
  BY DEF Unknown, FailedOutcome, OutcomeType, Changes
<1>. QED
  BY <1>1 DEF ReconcileOutcome

LEMMA ProvFieldsTyped ==
  ASSUME NEW q \in ProvType
  PROVE  /\ \A n \in Int : [q EXCEPT !.rev = n] \in ProvType
         /\ \A n \in Int : [q EXCEPT !.gen = n] \in ProvType
         /\ [q EXCEPT !.started = TRUE] \in ProvType
BY DEF ProvType

LEMMA ReceiveReplyTyped ==
  ASSUME TypeInv, NEW t \in Threads, ReceiveReply(t)
  PROVE  TypeOK'
<1> DEFINE j == thr[t].job
<1>0. TypeOK /\ j \in Jobs
  BY OwnedJob DEF ReceiveReply, Awaited
<1>1. prov' \in ProvType
  <2>1. prov \in ProvType
    BY <1>0 DEF TypeOK
  <2>2. prov.rev + 1 \in Int /\ prov.gen \in Int /\ prov.gen + 1 \in Int
    BY <2>1 DEF ProvType
  <2>3. [[prov EXCEPT !.rev = prov.rev + 1] EXCEPT !.started = TRUE] \in ProvType
    BY <2>1, <2>2, ProvFieldsTyped
  <2>4. \A n \in {prov.gen, prov.gen + 1} :
          [[[prov EXCEPT !.rev = prov.rev + 1] EXCEPT !.started = TRUE]
             EXCEPT !.gen = n] \in ProvType
    BY <2>2, <2>3, ProvFieldsTyped
  <2>5. [prov EXCEPT !.started = TRUE] \in ProvType
    BY <2>1, ProvFieldsTyped
  <2>. QED
    BY <2>1, <2>3, <2>4, <2>5 DEF ReceiveReply
<1>2. wire' \in WireType
  BY DEF ReceiveReply, WireType
<1>3. jobs' \in [Jobs -> RowType]
  <2>1. jobs \in [Jobs -> RowType]
    BY <1>0 DEF TypeOK
  <2>. QED
    BY <1>0, <2>1, SaveTyped, RaisedTyped, NamesTyped
       DEF ReceiveReply, ApplySteps, JournalEntries
<1>4. thr' \in [Threads -> ThreadType]
  <2>1. CASE \E entry \in JournalEntries : Save(t, RaisedAfter(j, entry), "reconcile")
    BY <1>0, <2>1, SaveTyped, RaisedTyped, NamesTyped DEF ApplySteps
  <2>2. CASE thr' = [thr EXCEPT ![t].pc = IF LastStep(t) THEN "verify" ELSE "send",
                                ![t].step = IF LastStep(t) THEN @ ELSE @ + 1]
    <3>1. thr[t] \in ThreadType /\ {"verify", "send"} \subseteq Steps
      BY <1>0, NamesTyped DEF TypeOK, ApplySteps
    <3>2. (IF LastStep(t) THEN thr[t].step ELSE thr[t].step + 1) \in 0..5
      <4>1. plans[PlanOf(j)].route \in Routes
            /\ thr[t].step \in 1..Len(Operations(plans[PlanOf(j)].route))
        BY DEF TypeInv, OperationsExist, HasPlan, ReceiveReply, Awaited, At,
               BoundSteps, ApplySteps
      <4> DEFINE L == Len(Operations(plans[PlanOf(j)].route))
                 n == thr[t].step
      <4>2. L \in 1..5 /\ n \in 1..L
        BY <4>1, OperationsTyped
      <4>3. LastStep(t) <=> n = L
        BY DEF LastStep
      <4> HIDE DEF L, n
      <4>4. n \in 0..5 /\ (n # L => n + 1 \in 0..5)
        BY <4>2
      <4>5. (IF LastStep(t) THEN n ELSE n + 1) \in 0..5
        BY <4>3, <4>4
      <4>. QED
        BY <4>5 DEF n
    <3>. QED
      BY <1>0, <2>2, <3>1, <3>2, ThreadFieldsTyped DEF TypeOK
  <2>. QED
    BY <2>1, <2>2 DEF ReceiveReply, JournalEntries
<1>. QED
  BY <1>0, <1>1, <1>2, <1>3, <1>4 DEF TypeOK, ReceiveReply, world, control, history

LEMMA VerifyAppliedTyped ==
  ASSUME TypeInv, NEW t \in Threads, VerifyApplied(t)
  PROVE  TypeOK'
<1> DEFINE j == thr[t].job
           done == [status |-> "completed", changed |-> "yes", matched |-> "yes"]
<1>0. TypeOK /\ j \in Jobs
  BY OwnedJob DEF VerifyApplied
<1>1. PICK r \in Results :
        /\ Observe(r)
        /\ \/ thr' = [thr EXCEPT ![t].pc = "after", ![t].out = done] /\ UNCHANGED jobs
           \/ Save(t, Raised(j), "reconcile")
  BY DEF VerifyApplied
<1>2. prov' \in ProvType /\ savedGen' \in Int
  BY <1>0, <1>1, ObserveTyped
<1>3. jobs' \in [Jobs -> RowType] /\ thr' \in [Threads -> ThreadType]
  <2>1. CASE Save(t, Raised(j), "reconcile")
    BY <1>0, <2>1, SaveTyped, RaisedTyped, NamesTyped DEF ApplySteps, JournalEntries
  <2>2. CASE thr' = [thr EXCEPT ![t].pc = "after", ![t].out = done] /\ UNCHANGED jobs
    <3>1. thr[t] \in ThreadType /\ "after" \in Steps
      BY <1>0, NamesTyped DEF TypeOK, ApplySteps
    <3>. QED
      BY <1>0, <2>2, <3>1, ThreadFieldsTyped, OutcomesTyped DEF TypeOK
  <2>. QED
    BY <1>1, <2>1, <2>2
<1>. QED
  BY <1>0, <1>2, <1>3 DEF TypeOK, VerifyApplied, world, control, history

LEMMA ReconcileApplyTyped ==
  ASSUME TypeInv, NEW t \in Threads, ReconcileApply(t)
  PROVE  TypeOK'
<1>0. TypeOK /\ thr[t].job \in Jobs
  BY OwnedJob DEF ReconcileApply
<1>1. prov' \in ProvType
  BY <1>0 DEF TypeOK, ReconcileApply, Retired, ProvType
<1>2. thr' \in [Threads -> ThreadType]
  <2>1. thr[t] \in ThreadType /\ "after" \in Steps
    BY <1>0, NamesTyped DEF TypeOK, ApplySteps
  <2>. QED
    BY <1>0, <2>1, ThreadFieldsTyped, OutcomesTyped DEF TypeOK, ReconcileApply
<1>. QED
  BY <1>0, <1>1, <1>2 DEF TypeOK, ReconcileApply, world, control, history

LEMMA ObserveAfterTyped ==
  ASSUME TypeInv, NEW t \in Threads, ObserveAfter(t)
  PROVE  TypeOK'
<1> DEFINE j == thr[t].job
           out == thr[t].out
<1>0. TypeOK /\ j \in Jobs
  BY OwnedJob DEF ObserveAfter
<1>1. PICK r \in Results, moved \in {"yes", "no"} :
        /\ Observe(r)
        /\ \/ Goto(t, "facts") /\ UNCHANGED jobs
           \/ /\ out.status # "completed"
              /\ Leave(t, IF out.matched = "none"
                          THEN Row(j, out.status, "runtime_failed", out.changed)
                          ELSE Row(j, "failed", "error", moved))
           \/ Leave(t, UnknownRow(j))
  BY DEF ObserveAfter
<1>2. prov' \in ProvType /\ savedGen' \in Int
  BY <1>0, <1>1, ObserveTyped
<1>3. /\ Row(j, out.status, "runtime_failed", out.changed) \in RowType
      /\ Row(j, "failed", "error", moved) \in RowType
  <2>1. out \in OutcomeType
    BY <1>0 DEF TypeOK, ThreadType
  <2>2. out.status \in States /\ out.changed \in Changes
    BY <2>1 DEF OutcomeType, States
  <2>. QED
    BY <1>0, <2>2, RowTyped, NamesTyped DEF FinalStages, Changes
<1>4. jobs' \in [Jobs -> RowType] /\ thr' \in [Threads -> ThreadType]
  <2>1. CASE Goto(t, "facts") /\ UNCHANGED jobs
    BY <1>0, <2>1, GotoTyped, NamesTyped DEF TypeOK, ApplySteps
  <2>. QED
    BY <1>0, <1>1, <1>3, <2>1, LeaveTyped, ErrorRowTyped DEF Results
<1>. QED
  BY <1>0, <1>2, <1>4 DEF TypeOK, ObserveAfter, world, control, history

LEMMA CloseApplyTyped ==
  ASSUME TypeInv, NEW t \in Threads, RecordFacts(t) \/ CloseApply(t)
  PROVE  TypeOK'
<1> DEFINE j == thr[t].job
           out == thr[t].out
<1>0. TypeOK /\ j \in Jobs
  BY OwnedJob DEF RecordFacts, CloseApply
<1>1. Row(j, out.status, "runtime_reconciled", out.changed) \in RowType
  <2>1. out \in OutcomeType
    BY <1>0 DEF TypeOK, ThreadType
  <2>2. out.status \in States /\ out.changed \in Changes
    BY <2>1 DEF OutcomeType, States
  <2>. QED
    BY <1>0, <2>2, RowTyped, NamesTyped DEF FinalStages
<1>2. jobs' \in [Jobs -> RowType] /\ thr' \in [Threads -> ThreadType]
  <2>1. CASE Goto(t, "close") /\ UNCHANGED jobs
    BY <1>0, <2>1, GotoTyped, NamesTyped DEF TypeOK, ApplySteps
  <2>2. CASE Leave(t, Row(j, out.status, "runtime_reconciled", out.changed))
    BY <1>0, <1>1, <2>2, LeaveTyped
  <2>. QED
    BY <2>1, <2>2 DEF RecordFacts, CloseApply
<1>. QED
  BY <1>0, <1>2 DEF TypeOK, RecordFacts, CloseApply, world, control, history

-----------------------------------------------------------------------------
(* Submission, recovery and the environment.                               *)

LEMMA ThreadForJob ==
  ASSUME NEW j \in Jobs, NEW pc \in Steps
  PROVE  /\ [Idle EXCEPT !.job = j, !.pc = pc] \in ThreadType
         /\ [Idle EXCEPT !.pc = pc, !.job = j] \in ThreadType
<1>1. NoOutcome \in OutcomeType
  BY DEF NoOutcome, OutcomeType, Changes
<1>2. j \in 0..NJobs /\ 0 \in 0..5
  BY DEF Jobs
<1>. QED
  BY <1>1, <1>2 DEF Idle, ThreadType

LEMMA SubmitTyped ==
  ASSUME TypeOK, Submit \/ TakeJob
  PROVE  TypeOK'
<1>1. CASE Submit
  <2>1. PICK j \in Jobs, op \in {"prepare", "iterate"}, p \in 0..NJobs : Enqueue(j, op, p)
    BY <1>1, BoundsAssumption DEF Submit, EnqueuePrepare, EnqueueIterate
  <2>2. NewRow(op, p) \in RowType
    <3>1. NoRow \in RowType
      BY BoundsAssumption DEF NoRow, NoBinding, RowType, BindingOf, States, Stages,
         JournalEntries, Changes
    <3>2. {"prepare_queued", "iteration_queued"} \subseteq Stages /\ "queued" \in States
      BY NamesTyped DEF QueuedStages
    <3>. QED
      BY <3>1, <3>2 DEF NewRow, RowType
  <2>3. jobs' \in [Jobs -> RowType] /\ queue' \in Seq(Jobs)
    BY <2>1, <2>2 DEF TypeOK, Enqueue
  <2>. QED
    BY <2>1, <2>3 DEF TypeOK, Enqueue, world, history
<1>2. CASE TakeJob
  <2>1. queue \in Seq(Jobs) /\ queue # <<>>
    BY <1>2 DEF TypeOK, TakeJob
  <2>2. Head(queue) \in Jobs /\ queue' \in Seq(Jobs)
    BY <1>2, <2>1 DEF TakeJob
  <2>3. \A j \in Jobs, pc \in {"prepare", "bind"} :
          [Idle EXCEPT !.job = j, !.pc = pc] \in ThreadType
    BY ThreadForJob, NamesTyped DEF PrepareSteps
  <2>4. PICK pc \in {"prepare", "bind"} :
          thr' = [thr EXCEPT !["worker"] = [Idle EXCEPT !.job = Head(queue), !.pc = pc]]
    BY <1>2 DEF TakeJob
  <2>5. thr' \in [Threads -> ThreadType]
    BY <2>2, <2>3, <2>4 DEF TypeOK
  <2>. QED
    BY <1>2, <2>2, <2>5 DEF TypeOK, TakeJob, world, history
<1>. QED
  BY <1>1, <1>2

LEMMA PlayerExecuteTyped ==
  ASSUME TypeOK, PlayerExecute
  PROVE  TypeOK'
<1>1. player \in PlayerType /\ wire \in WireType
  BY DEF TypeOK
<1>2. wire \in RequestType /\ wire' \in WireType
  <2>1. wire \in RequestType
    BY <1>1 DEF PlayerExecute, WireType, NoRequest
  <2>. QED
    BY <2>1 DEF PlayerExecute, WireType, RequestType
<1>3. player' \in PlayerType
  <2>1. [player EXCEPT !.rev = player.rev + 1] \in PlayerType
    BY <1>1 DEF PlayerType
  <2>2. Effect(wire.op) \in PlayerType
    <3>1. player.rev + 1 \in Int /\ player.gen \in Int /\ player.gen + 1 \in Int
      BY <1>1 DEF PlayerType
    <3>2. (CASE wire.op = "module.quiesce" -> FALSE
             [] wire.op = "module.restore" -> TRUE
             [] OTHER -> player.active) \in BOOLEAN
      BY <1>1 DEF PlayerType
    <3>. QED
      BY <3>1, <3>2 DEF Effect, PlayerType
  <2>. QED
    BY <1>1, <2>1, <2>2 DEF PlayerExecute
<1>4. executed' \in [Jobs -> Seq(MutatingOps \cup {"failed"})]
  <2>0. executed \in [Jobs -> Seq(MutatingOps \cup {"failed"})]
    BY DEF TypeOK
  <2>1. wire.op \in MutatingOps /\ wire.job \in Jobs
    BY <1>2 DEF RequestType
  <2>2. CASE UNCHANGED executed
    BY <2>0, <2>2
  <2>3. ASSUME NEW op \in MutatingOps \cup {"failed"},
               executed' = [executed EXCEPT ![wire.job] = Append(@, op)]
        PROVE  executed' \in [Jobs -> Seq(MutatingOps \cup {"failed"})]
    BY <2>0, <2>1, <2>3
  <2>. QED
    BY <2>1, <2>2, <2>3 DEF PlayerExecute
<1>5. base' \in [Jobs -> StateOf]
  <2>1. [rev |-> player.rev, gen |-> player.gen] \in StateOf
    BY <1>1 DEF PlayerType, StateOf
  <2>. QED
    BY <2>1 DEF TypeOK, PlayerExecute
<1>. QED
  BY <1>2, <1>3, <1>4, <1>5 DEF TypeOK, PlayerExecute, control

\* Counting one more of a bounded event.
LEMMA UsedTyped ==
  ASSUME NEW u \in [crashes : Int, drops : Int, external : Int]
  PROVE  /\ [u EXCEPT !.crashes = @ + 1] \in [crashes : Int, drops : Int, external : Int]
         /\ [u EXCEPT !.drops = @ + 1] \in [crashes : Int, drops : Int, external : Int]
         /\ [u EXCEPT !.external = @ + 1] \in [crashes : Int, drops : Int, external : Int]
<1>1. \A n \in Int : n + 1 \in Int
  OBVIOUS
<1>2. u.crashes + 1 \in Int /\ u.drops + 1 \in Int /\ u.external + 1 \in Int
  BY <1>1
<1>. QED
  BY <1>2

LEMMA CrashTyped ==
  ASSUME TypeOK, Crash \/ Start
  PROVE  TypeOK'
<1>1. \A rev \in Int : FreshProvider(rev) \in ProvType
  BY DEF TypeOK, FreshProvider, ProvType, NoState, StateOf
<1>2. prov' \in ProvType
  <2>1. player.rev \in Int /\ 0 \in Int
    BY DEF TypeOK, PlayerType
  <2>. QED
    BY <1>1, <2>1 DEF Crash, Start
<1>3. thr' \in [Threads -> ThreadType]
  <2>1. Idle \in ThreadType
    BY BoundsAssumption DEF Idle, NoOutcome, ThreadType, OutcomeType, Steps, Changes
  <2>. QED
    BY <2>1 DEF TypeOK, Crash, Start
<1>4. queue' \in Seq(Jobs) /\ todo' \subseteq Jobs /\ interrupted' \subseteq Jobs
  <2>1. queue' \in Seq(Jobs)
    <3>1. queue \in Seq(Jobs) /\ <<>> \in Seq(Jobs)
      BY DEF TypeOK
    <3>. QED
      BY <3>1 DEF Crash, Start
  <2>2. todo' \subseteq Jobs
    BY DEF Crash, Start, PendingJobs
  <2>3. interrupted' \subseteq Jobs
    BY DEF TypeOK, Crash, Start, history
  <2>. QED
    BY <2>1, <2>2, <2>3
<1>5. used' \in [crashes : Int, drops : Int, external : Int]
  BY UsedTyped DEF TypeOK, Crash, Start, history
<1>. QED
  BY <1>2, <1>3, <1>4, <1>5 DEF TypeOK, Crash, Start, world, history

LEMMA RecoverJobTyped ==
  ASSUME TypeOK, RecoverJob
  PROVE  TypeOK'
<1>1. PICK j \in todo :
        LET kind == Recovery(jobs[j].stage) IN
            \/ /\ kind = "resubmit"
               /\ queue' = Append(queue, j)
               /\ UNCHANGED <<jobs, thr>>
            \/ /\ kind \in {"reconcile_job", "prepare_job"}
               /\ thr' = [thr EXCEPT !["main"] = [Idle EXCEPT !.pc = kind, !.job = j]]
               /\ UNCHANGED <<jobs, queue>>
            \/ /\ kind = "fail"
               /\ jobs' = [jobs EXCEPT ![j] = UnknownRow(j)]
               /\ UNCHANGED <<thr, queue>>
  BY DEF RecoverJob
<1>2. j \in Jobs
  BY DEF TypeOK
<1>3. jobs' \in [Jobs -> RowType]
  BY <1>1, <1>2, ErrorRowTyped DEF TypeOK, Results
<1>4. thr' \in [Threads -> ThreadType]
  <2>1. \A kind \in {"reconcile_job", "prepare_job"} :
          [Idle EXCEPT !.pc = kind, !.job = j] \in ThreadType
    BY <1>2, ThreadForJob, NamesTyped
  <2>. QED
    BY <1>1, <2>1 DEF TypeOK
<1>5. queue' \in Seq(Jobs)
  <2>1. queue \in Seq(Jobs)
    BY DEF TypeOK
  <2>2. Append(queue, j) \in Seq(Jobs)
    BY <1>2, <2>1
  <2>. QED
    BY <1>1, <2>1, <2>2
<1>. QED
  BY <1>3, <1>4, <1>5 DEF TypeOK, RecoverJob, world, history

LEMMA RecoverApplyTyped ==
  ASSUME TypeInv, RecoverApply("main")
  PROVE  TypeOK'
<1> DEFINE t == "main"
           j == thr[t].job
           out == ReconcileOutcome(j)
<1>0. TypeOK /\ j \in Jobs /\ t \in Threads
  BY OwnedJob DEF RecoverApply, Threads
<1>1. PICK r \in Results :
        /\ Observe(r)
        /\ \/ Leave(t, Row(j, out.status, "runtime_reconciled", out.changed))
           \/ Leave(t, FailedRow(j)) \/ Leave(t, UnknownRow(j)) \/ Leave(t, ErrorRow(j, r))
  BY DEF RecoverApply
<1>2. prov' \in ProvType /\ savedGen' \in Int
  BY <1>0, <1>1, ObserveTyped
<1>3. Row(j, out.status, "runtime_reconciled", out.changed) \in RowType
  <2>1. out.status \in States /\ out.changed \in Changes
    BY <1>0, OutcomesTyped DEF OutcomeType, States
  <2>. QED
    BY <1>0, <2>1, RowTyped, NamesTyped DEF FinalStages
<1>4. jobs' \in [Jobs -> RowType] /\ thr' \in [Threads -> ThreadType]
  BY <1>0, <1>1, <1>3, LeaveTyped, ErrorRowTyped
<1>. QED
  BY <1>0, <1>2, <1>4 DEF TypeOK, RecoverApply, world, control, history

LEMMA RecoverPrepareTyped ==
  ASSUME TypeInv, RecoverPrepare("main")
  PROVE  TypeOK'
<1> DEFINE t == "main"
           j == thr[t].job
           saved == [Row(j, "running", "prepare_candidate_ready", "no")
                       EXCEPT !.saved = TRUE]
<1>0. TypeOK /\ j \in Jobs /\ t \in Threads
  BY OwnedJob DEF RecoverPrepare, Threads
<1>1. PICK r \in Results :
        /\ Observe(r)
        /\ UNCHANGED <<editor, submits>> \/ EditorEnqueue(j, FALSE)
        /\ \/ Leave(t, FailedRow(j)) \/ Leave(t, UnknownRow(j)) \/ Leave(t, ErrorRow(j, r))
           \/ Leave(t, Row(j, "state_unknown", "error", "no"))
           \/ Goto(t, "finalize") /\ UNCHANGED jobs
           \/ Save(t, saved, "finalize")
  <2>1. editor[j] \in {"none", "requested", "done", "failed"} /\ "ok" \in Results
    BY <1>0 DEF TypeOK, Results
  <2>. QED
    BY <2>1 DEF RecoverPrepare
<1>2. prov' \in ProvType /\ savedGen' \in Int
  BY <1>0, <1>1, ObserveTyped
<1>3. /\ saved \in RowType
      /\ Row(j, "state_unknown", "error", "no") \in RowType
  BY <1>0, RunningRowTyped, RowFieldsTyped, RowTyped, NamesTyped
     DEF PrepareStages, FinalStages, Changes
<1>4. jobs' \in [Jobs -> RowType] /\ thr' \in [Threads -> ThreadType]
  <2>1. CASE Goto(t, "finalize") /\ UNCHANGED jobs
    BY <1>0, <2>1, GotoTyped, NamesTyped DEF TypeOK, PrepareSteps
  <2>2. CASE Save(t, saved, "finalize")
    BY <1>0, <1>3, <2>2, SaveTyped, NamesTyped DEF PrepareSteps
  <2>. QED
    BY <1>0, <1>1, <1>3, <2>1, <2>2, LeaveTyped, ErrorRowTyped
<1>5. /\ editor' \in [Jobs -> {"none", "requested", "done", "failed"}]
      /\ submits' \in [Jobs -> Int]
  BY <1>0, <1>1, EditorEnqueueTyped DEF TypeOK
<1>. QED
  BY <1>0, <1>2, <1>4, <1>5 DEF TypeOK, RecoverPrepare, world, control

LEMMA HostTyped ==
  ASSUME TypeOK, RecoveryDone \/ RequestShutdown \/ ExitWhenSafe
  PROVE  TypeOK'
BY DEF TypeOK, RecoveryDone, RequestShutdown, ExitWhenSafe, world, history

LEMMA EnvironmentTyped ==
  ASSUME TypeOK,
         \/ \E p \in Jobs : ApprovePlan(p)
         \/ EditSource \/ EditTask \/ \E j \in Jobs : CompileFinish(j)
         \/ ExternalTransition \/ LinkUp \/ LinkDown \/ DropOrphan
  PROVE  TypeOK'
<1>1. CASE \E p \in Jobs : ApprovePlan(p)
  <2>1. PICK p \in Jobs : ApprovePlan(p)
    BY <1>1
  <2>2. [plans[p] EXCEPT !.approval = "approved"] \in PlanType
    <3>1. plans[p] \in PlanType
      BY DEF TypeOK
    <3>. QED
      BY <3>1 DEF PlanType
  <2>3. plans' \in [Jobs -> PlanType]
    BY <2>1, <2>2 DEF TypeOK, ApprovePlan
  <2>. QED
    BY <2>1, <2>3 DEF TypeOK, ApprovePlan, control, world, history
<1>2. CASE EditSource \/ EditTask
  BY <1>2 DEF TypeOK, EditSource, EditTask, control, history
<1>3. CASE \E j \in Jobs : CompileFinish(j)
  <2>1. PICK j \in Jobs : CompileFinish(j)
    BY <1>3
  <2>2. editor' \in [Jobs -> {"none", "requested", "done", "failed"}]
    BY <2>1 DEF TypeOK, CompileFinish
  <2>. QED
    BY <2>1, <2>2 DEF TypeOK, CompileFinish, control, world, history
<1>4. CASE ExternalTransition
  <2>1. player' \in PlayerType
    <3>1. player \in PlayerType /\ player.rev + 1 \in Int
      BY DEF TypeOK, PlayerType
    <3>. QED
      BY <1>4, <3>1 DEF ExternalTransition, PlayerType
  <2>2. used' \in [crashes : Int, drops : Int, external : Int]
    BY <1>4, UsedTyped DEF TypeOK, ExternalTransition
  <2>. QED
    BY <1>4, <2>1, <2>2 DEF TypeOK, ExternalTransition, control
<1>5. CASE LinkUp \/ LinkDown
  <2>1. prov' \in ProvType
    BY <1>5 DEF TypeOK, LinkUp, LinkDown, ProvType
  <2>2. used' \in [crashes : Int, drops : Int, external : Int]
    BY <1>5, UsedTyped DEF TypeOK, LinkUp, LinkDown, history
  <2>. QED
    BY <1>5, <2>1, <2>2 DEF TypeOK, LinkUp, LinkDown, control, world, history
<1>6. CASE DropOrphan
  BY <1>6 DEF TypeOK, DropOrphan, WireType, control, world, history
<1>. QED
  BY <1>1, <1>2, <1>3, <1>4, <1>5, <1>6

LEMMA NextTyped ==
  ASSUME TypeInv, [Next]_vars
  PROVE  TypeOK'
<1>. TypeOK
  BY DEF TypeInv
<1>1. ASSUME NEW t \in Threads, RunJob(t) PROVE TypeOK'
  BY <1>1, PreparePlanTyped, SaveEnvelopeTyped, SubmitCompileTyped, EditorWaitTyped,
     FinalizePlanTyped, CreatePlanTyped, BindPlanTyped, StartApplyTyped,
     ApplyPreludeTyped, SendStageTyped, ReceiveReplyTyped, LoseReplyTyped,
     VerifyAppliedTyped, ReconcileApplyTyped, ObserveAfterTyped, CloseApplyTyped
     DEF RunJob
<1>2. CASE Submit \/ TakeJob
  BY <1>2, SubmitTyped
<1>3. CASE Start \/ Crash
  BY <1>3, CrashTyped
<1>4. CASE Recover
  BY <1>4, RecoverJobTyped, RecoverApplyTyped, RecoverPrepareTyped, HostTyped DEF Recover
<1>5. CASE ExitWhenSafe \/ RequestShutdown
  BY <1>5, HostTyped
<1>6. CASE PlayerExecute
  BY <1>6, PlayerExecuteTyped
<1>7. CASE DropOrphan \/ (Environment /\ ~(Crash \/ RequestShutdown))
  BY <1>7, EnvironmentTyped DEF Environment
<1>8. CASE UNCHANGED vars
  BY <1>8 DEF TypeOK, vars
<1>. QED
  BY <1>1, <1>2, <1>3, <1>4, <1>5, <1>6, <1>7, <1>8 DEF Next, Environment
=============================================================================
