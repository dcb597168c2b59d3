----------------------- MODULE UpdateCoordinatorProofs -----------------------
(***************************************************************************)
(* What is proved of the update coordinator, for any number of jobs, any   *)
(* routes, and any number of edits, crashes, losses and transitions.       *)
(*                                                                         *)
(* The argument is one of ownership: an active job is in one place only,   *)
(* in the executor's queue, on the list of the recovering thread, with one *)
(* of the two threads, or forgotten until a restart.  Hence only one       *)
(* thread changes the row, and the row's stage tells whether its plan was  *)
(* already handed to provider.apply.                                       *)
(***************************************************************************)
EXTENDS UpdateCoordinatorTyping

Runs(t, j) == thr[t].pc # "idle" /\ thr[t].job = j
InQueue(j) == \E i \in 1..Len(queue) : queue[i] = j

\* Only entered rows are active or settled.
Entered == \A j \in Jobs : jobs[j].op = "none" => jobs[j] = NoRow

\* An active job is in at most one place.
Owned ==
  /\ \A t \in Threads : thr[t].pc # "idle" =>
       /\ Active(thr[t].job)
       /\ \A u \in Threads \ {t} : ~Runs(u, thr[t].job)
  /\ \A i \in 1..Len(queue) :
       /\ Active(queue[i]) /\ jobs[queue[i]].stage \in QueuedStages
       /\ \A t \in Threads : ~Runs(t, queue[i])
       /\ \A k \in 1..Len(queue) : queue[i] = queue[k] => i = k
  /\ \A j \in todo :
       Active(j) /\ ~InQueue(j) /\ \A t \in Threads : ~Runs(t, j)

\* A Host that is down holds no job.
DownIdle ==
  host = "down" => queue = <<>> /\ todo = {} /\ \A t \in Threads : thr[t].pc = "idle"

\* The stage of an unsettled job tells whether it was applied, and a thread's
\* step agrees with it.
Applied ==
  /\ \A j \in Jobs :
       /\ applies[j] \in {0, 1}
       /\ applies[j] = 1 /\ ~Terminal(j) => jobs[j].stage \in RuntimeStages
  /\ \A t \in Threads : LET j == thr[t].job IN
       /\ thr[t].pc \in PrepareSteps \cup {"prepare_job"} =>
            jobs[j].stage \notin RuntimeStages
       /\ thr[t].pc = "apply" => applies[j] = 0
       /\ thr[t].pc \in ApplySteps => jobs[j].stage \in RuntimeStages

\* An outcome was received or reconciled before it is recorded.
OutcomeKnown ==
  \A t \in Threads :
    thr[t].pc \in {"after", "facts", "close"} => thr[t].out.status # "none"

\* A compile request was published once if the Editor knows the job.
Published ==
  \A j \in Jobs : submits[j] = IF editor[j] = "none" THEN 0 ELSE 1

SafetyInv == Entered /\ Owned /\ DownIdle /\ Applied /\ OutcomeKnown /\ Published
Inv == TypeInv /\ SafetyInv

LEMMA InitSafe == Init => Inv
<1>. SUFFICES ASSUME Init PROVE Inv
  OBVIOUS
<1>1. \A j \in Jobs : jobs[j] = NoRow /\ applies[j] = 0 /\ submits[j] = 0 /\ editor[j] = "none"
  BY DEF Init
<1>2. \A t \in Threads : thr[t].pc = "idle"
  BY DEF Init, Idle, Threads
<1>3. queue = <<>> /\ todo = {} /\ Len(queue) = 0
  BY DEF Init
<1>4. Entered /\ Owned /\ DownIdle /\ OutcomeKnown /\ Published
  BY <1>1, <1>2, <1>3 DEF Entered, Owned, DownIdle, OutcomeKnown, Published
<1>5. Applied
  BY <1>1, <1>2 DEF Applied, PrepareSteps, ApplySteps
<1>. QED
  BY <1>4, <1>5, InitTyped DEF Inv, SafetyInv

-----------------------------------------------------------------------------
(* What a step of a thread that runs a job does to jobs and threads.       *)

\* A new row of the job keeps its operation, and its plan if it has one.
Same(r, j) ==
  /\ r.op = jobs[j].op
  /\ r.plan = jobs[j].plan \/ (r.plan = PlanOf(j) /\ HasPlan(PlanOf(j)))

Settles(r) == r.state \in {"completed", "failed", "state_unknown"}

\* The thread gives its job up: it is settled, or still waits for the Editor.
Releases(t) == LET j == thr[t].job IN
  /\ thr'[t].pc = "idle"
  /\ applies'[j] = applies[j]
  /\ Settles(jobs'[j]) \/ (jobs[j].stage \notin RuntimeStages
                           /\ jobs'[j].stage \notin RuntimeStages)

\* The thread goes on with its job.
Continues(t) == LET j == thr[t].job
                    pc == thr'[t].pc IN
  /\ thr'[t].job = j
  /\ jobs'[j].state \in {"queued", "running"}
  /\ \/ /\ pc \in PrepareSteps /\ thr[t].pc \in PrepareSteps \cup {"prepare_job"}
        /\ jobs'[j].stage \notin RuntimeStages
        /\ applies'[j] = applies[j]
     \/ /\ pc = "apply" /\ thr[t].pc = "preflight"
        /\ jobs'[j].stage \in RuntimeStages
        /\ applies'[j] = applies[j]
     \/ /\ pc \in ApplySteps \ {"apply"} /\ thr[t].pc \in ApplySteps
        /\ jobs'[j].stage \in RuntimeStages
        /\ applies'[j] = IF thr[t].pc = "apply" THEN applies[j] + 1 ELSE applies[j]

Advance(t) == LET j == thr[t].job IN
  /\ thr[t].pc # "idle" /\ host # "down" /\ j \in Jobs
  /\ UNCHANGED control
  /\ \A u \in Threads \ {t} : thr'[u] = thr[u]
  /\ \A i \in Jobs \ {j} : jobs'[i] = jobs[i] /\ applies'[i] = applies[i]
  /\ Same(jobs'[j], j)
  /\ Releases(t) \/ Continues(t)

\* A step of thread t at pc, of a job that is not idle.
Step(t, pc) ==
  /\ At(t, pc) /\ pc # "idle"
  /\ UNCHANGED control

LEMMA RowFields ==
  ASSUME TypeOK, NEW j \in Jobs
  PROVE  /\ \A state, stage, changed :
              LET r == Row(j, state, stage, changed) IN
                Same(r, j) /\ r.state = state /\ r.stage = stage
         /\ \A r \in Results : Same(ErrorRow(j, r), j) /\ Settles(ErrorRow(j, r))
         /\ Same(FailedRow(j), j) /\ Settles(FailedRow(j))
         /\ Same(UnknownRow(j), j) /\ Settles(UnknownRow(j))
<1>1. jobs[j] \in RowType
  BY DEF TypeOK
<1>2. \A state, stage, changed :
        LET r == Row(j, state, stage, changed) IN
          Same(r, j) /\ r.state = state /\ r.stage = stage
  BY <1>1 DEF Row, RowType, Same
<1>. QED
  BY <1>2 DEF ErrorRow, ErrorState, FailedRow, UnknownRow, Settles

LEMMA LeaveAdvances ==
  ASSUME Inv, NEW t \in Threads, NEW pc, Step(t, pc), NEW r,
         Leave(t, r), UNCHANGED applies,
         Same(r, thr[t].job),
         \/ Settles(r)
         \/ thr[t].pc \in PrepareSteps /\ r.stage \notin RuntimeStages
  PROVE  Advance(t)
<1>1. TypeOK /\ thr[t].job \in Jobs
  BY OwnedJob DEF Inv, Step
<1>2. thr'[t].pc = "idle" /\ \A u \in Threads \ {t} : thr'[u] = thr[u]
  BY <1>1 DEF TypeOK, Leave, Idle
<1>3. jobs'[thr[t].job] = r /\ \A i \in Jobs \ {thr[t].job} : jobs'[i] = jobs[i]
  BY <1>1 DEF TypeOK, Leave
<1>4. Releases(t)
  BY <1>2, <1>3 DEF Releases, Inv, SafetyInv, Applied
<1>. QED
  BY <1>1, <1>2, <1>3, <1>4 DEF Advance, Step, At, HostUp

\* The thread's next step and its row, written or not.
LEMMA SaveAdvances ==
  ASSUME Inv, NEW t \in Threads, NEW pc, Step(t, pc), NEW r, NEW next,
         jobs' = [jobs EXCEPT ![thr[t].job] = r],
         \A u \in Threads \ {t} : thr'[u] = thr[u],
         thr'[t].job = thr[t].job, thr'[t].pc = next,
         Same(r, thr[t].job), r.state \in {"queued", "running"},
         \/ /\ next \in PrepareSteps /\ pc \in PrepareSteps \cup {"prepare_job"}
            /\ r.stage \notin RuntimeStages /\ UNCHANGED applies
         \/ /\ next = "apply" /\ pc = "preflight"
            /\ r.stage \in RuntimeStages /\ UNCHANGED applies
         \/ /\ next \in ApplySteps \ {"apply"} /\ pc \in ApplySteps
            /\ r.stage \in RuntimeStages
            /\ IF pc = "apply" THEN applies' = [applies EXCEPT ![thr[t].job] = @ + 1]
                               ELSE UNCHANGED applies
  PROVE  Advance(t)
<1>1. TypeOK /\ thr[t].job \in Jobs /\ thr[t].pc = pc
  BY OwnedJob DEF Inv, Step, At
<1>2. jobs'[thr[t].job] = r /\ \A i \in Jobs \ {thr[t].job} : jobs'[i] = jobs[i]
  BY <1>1 DEF TypeOK
<1>3. /\ applies'[thr[t].job] = IF pc = "apply" THEN applies[thr[t].job] + 1
                                               ELSE applies[thr[t].job]
      /\ \A i \in Jobs \ {thr[t].job} : applies'[i] = applies[i]
  BY <1>1 DEF TypeOK, PrepareSteps
<1>4. Continues(t)
  BY <1>1, <1>2, <1>3 DEF Continues, PrepareSteps
<1>. QED
  BY <1>1, <1>2, <1>3, <1>4 DEF Advance, Step, At, HostUp

\* A step of the preparation that stays in it.
LEMMA PrepareGoes ==
  ASSUME Inv, NEW t \in Threads, NEW pc \in PrepareSteps \cup {"prepare_job"}, Step(t, pc),
         NEW next \in PrepareSteps, UNCHANGED applies, NEW r,
         \/ Save(t, r, next)
         \/ Goto(t, next) /\ UNCHANGED jobs /\ r = jobs[thr[t].job],
         Same(r, thr[t].job), r.state \in {"queued", "running"},
         r.stage \notin RuntimeStages
  PROVE  Advance(t)
<1>1. TypeOK /\ thr[t].job \in Jobs
  BY OwnedJob DEF Inv, Step
<1>2. jobs' = [jobs EXCEPT ![thr[t].job] = r]
  BY <1>1 DEF TypeOK, Save
<1>3. /\ thr'[t].job = thr[t].job /\ thr'[t].pc = next
      /\ \A u \in Threads \ {t} : thr'[u] = thr[u]
  <2>1. Goto(t, next) /\ thr[t] \in ThreadType
    BY <1>1 DEF Save, TypeOK
  <2>. QED
    BY <1>1, <2>1 DEF Goto, TypeOK, ThreadType
<1>. QED
  BY <1>2, <1>3, SaveAdvances

\* A thread that prepares a job may leave its row as it is.
LEMMA RowKept ==
  ASSUME Inv, NEW t \in Threads, NEW pc \in PrepareSteps \cup {"prepare_job"}, Step(t, pc)
  PROVE  LET r == jobs[thr[t].job] IN
           Same(r, thr[t].job) /\ r.state \in {"queued", "running"} /\ r.stage \notin RuntimeStages
BY DEF Inv, SafetyInv, Owned, Active, Applied, Step, At, Same

LEMMA PreparationAdvances ==
  ASSUME Inv, NEW t \in Threads,
         \/ PreparePlan(t) \/ SaveEnvelope(t) \/ SubmitCompile(t) \/ SaveTicket(t)
         \/ CompileResult(t) \/ DeferEditorTimeout(t) \/ FinalizePlan(t)
  PROVE  Advance(t)
<1> DEFINE j == thr[t].job
<1> USE DEF PrepareSteps
<1>0. TypeOK /\ j \in Jobs /\ jobs[j] \in RowType
  <2>1. TypeOK /\ j \in Jobs
    BY OwnedJob DEF Inv, PreparePlan, SaveEnvelope, SubmitCompile, SaveTicket, CompileResult,
       DeferEditorTimeout, FinalizePlan
  <2>. QED
    BY <2>1 DEF TypeOK
<1>1. CASE PreparePlan(t)
  <2> DEFINE row == [Row(j, "running", "prepare_running", "no") EXCEPT !.binding =
               [task |-> task, input |-> input, rev |-> prov.rev, gen |-> prov.gen]]
  <2>1. Step(t, "prepare") /\ UNCHANGED applies
    BY <1>1 DEF PreparePlan, Step, history
  <2>2. PICK r \in Results : Save(t, row, "envelope") \/ Leave(t, FailedRow(j)) \/ Leave(t, ErrorRow(j, r))
    BY <1>1 DEF PreparePlan
  <2>3. Same(row, j) /\ row.state = "running" /\ row.stage = "prepare_running"
    BY <1>0 DEF Row, RowType, Same
  <2> HIDE DEF row
  <2>. QED
    BY <1>0, <2>1, <2>2, <2>3, RowFields, PrepareGoes, LeaveAdvances DEF RuntimeStages
<1>2. CASE SaveEnvelope(t)
  <2> DEFINE row == [Row(j, "running", "prepare_editor_dispatching", "no") EXCEPT !.envelope = TRUE]
  <2>1. Step(t, "envelope") /\ UNCHANGED applies
    BY <1>2 DEF SaveEnvelope, Step, history
  <2>2. Save(t, row, "submit") \/ Leave(t, FailedRow(j))
    BY <1>2 DEF SaveEnvelope
  <2>3. Same(row, j) /\ row.state = "running" /\ row.stage = "prepare_editor_dispatching"
    BY <1>0 DEF Row, RowType, Same
  <2> HIDE DEF row
  <2>. QED
    BY <1>0, <2>1, <2>2, <2>3, RowFields, PrepareGoes, LeaveAdvances DEF RuntimeStages
<1>3. CASE SubmitCompile(t)
  <2>1. Step(t, "submit") /\ UNCHANGED <<applies, jobs>> /\ Goto(t, "submitted")
    BY <1>3 DEF SubmitCompile, Step
  <2>. QED
    BY <2>1, RowKept, PrepareGoes
<1>4. CASE SaveTicket(t)
  <2> DEFINE row == Row(j, "running", "prepare_editor_wait", "no")
  <2>1. Step(t, "submitted") /\ UNCHANGED applies /\ Save(t, row, "wait")
    BY <1>4 DEF SaveTicket, Step, history
  <2>2. Same(row, j) /\ row.state = "running" /\ row.stage = "prepare_editor_wait"
    BY <1>0, RowFields
  <2>. QED
    BY <2>1, <2>2, PrepareGoes DEF RuntimeStages
<1>5. CASE CompileResult(t)
  <2> DEFINE row == [Row(j, "running", "prepare_candidate_ready", "no") EXCEPT !.saved = TRUE]
  <2>1. Step(t, "wait") /\ UNCHANGED applies
    BY <1>5 DEF CompileResult, Step, history
  <2>2. Save(t, row, "finalize") \/ Leave(t, FailedRow(j))
    BY <1>5 DEF CompileResult
  <2>3. Same(row, j) /\ row.state = "running" /\ row.stage = "prepare_candidate_ready"
    BY <1>0 DEF Row, RowType, Same
  <2> HIDE DEF row
  <2>. QED
    BY <1>0, <2>1, <2>2, <2>3, RowFields, PrepareGoes, LeaveAdvances DEF RuntimeStages
<1>6. CASE DeferEditorTimeout(t)
  <2> DEFINE row == Row(j, "running", "prepare_editor_wait", "no")
  <2>1. Step(t, "wait") /\ UNCHANGED applies /\ Leave(t, row) /\ thr[t].pc = "wait"
    BY <1>6 DEF DeferEditorTimeout, Step, history, At
  <2>2. Same(row, j) /\ row.stage = "prepare_editor_wait"
    BY <1>0, RowFields
  <2>. QED
    BY <2>1, <2>2, LeaveAdvances DEF RuntimeStages
<1>7. CASE FinalizePlan(t)
  <2> DEFINE row == Row(j, "running", "prepare_plan_creating", "no")
             moved == Row(j, "state_unknown", "error", "yes")
  <2>1. Step(t, "finalize") /\ UNCHANGED applies
    BY <1>7 DEF FinalizePlan, Step, history
  <2>2. PICK r \in Results :
          \/ Save(t, row, "create") \/ Leave(t, moved)
          \/ Leave(t, FailedRow(j)) \/ Leave(t, ErrorRow(j, r))
    BY <1>7 DEF FinalizePlan
  <2>3. /\ Same(row, j) /\ row.state = "running" /\ row.stage = "prepare_plan_creating"
        /\ Same(moved, j) /\ Settles(moved)
    BY <1>0, RowFields DEF Settles
  <2>. QED
    BY <1>0, <2>1, <2>2, <2>3, RowFields, PrepareGoes, LeaveAdvances DEF RuntimeStages
<1>. QED
  BY <1>1, <1>2, <1>3, <1>4, <1>5, <1>6, <1>7

\* The row of a job that is being applied keeps a runtime stage, journaled or not.
LEMMA ApplyRows ==
  ASSUME Inv, NEW t \in Threads, NEW pc \in ApplySteps, Step(t, pc)
  PROVE  LET j == thr[t].job
             Kept(r) == /\ Same(r, j) /\ r.state \in {"queued", "running"}
                        /\ r.stage \in RuntimeStages IN
           /\ Kept(jobs[j]) /\ Kept(Raised(j))
           /\ \A entry : Kept(Journaled(j, entry)) /\ Kept(RaisedAfter(j, entry))
<1> DEFINE j == thr[t].job
<1>1. TypeOK /\ j \in Jobs /\ jobs[j] \in RowType
  <2>1. TypeOK /\ j \in Jobs
    BY OwnedJob DEF Inv, Step, ApplySteps
  <2>. QED
    BY <2>1 DEF TypeOK
<1>2. /\ Same(jobs[j], j)
      /\ jobs[j].state \in {"queued", "running"} /\ jobs[j].stage \in RuntimeStages
  BY DEF Inv, SafetyInv, Owned, Active, Applied, Step, At, ApplySteps, Same
<1>3. \A entry : /\ Journaled(j, entry) = jobs[j] \/ Journaled(j, entry).stage = "runtime_stage"
                 /\ Same(Journaled(j, entry), j)
                 /\ Journaled(j, entry).state \in {"queued", "running"}
  BY <1>1, <1>2 DEF Journaled, Row, RowType, Same
<1>4. \A entry : /\ RaisedAfter(j, entry).stage = "runtime_reconcile"
                 /\ Same(RaisedAfter(j, entry), j)
                 /\ RaisedAfter(j, entry).state \in {"queued", "running"}
  BY <1>1, <1>2 DEF RaisedAfter, Journaled, Row, RowType, Same
<1>5. Raised(j).stage = "runtime_reconcile" /\ Same(Raised(j), j) /\ Raised(j).state = "running"
  BY <1>1, RowFields DEF Raised
<1>. QED
  BY <1>2, <1>3, <1>4, <1>5 DEF RuntimeStages

\* A step of the application that stays in it, after provider.apply's call.
LEMMA ApplyMoves ==
  ASSUME Inv, NEW t \in Threads, NEW pc \in ApplySteps \ {"apply"}, Step(t, pc),
         NEW next \in ApplySteps \ {"apply"}, UNCHANGED applies, NEW r,
         jobs' = [jobs EXCEPT ![thr[t].job] = r],
         \A u \in Threads \ {t} : thr'[u] = thr[u],
         thr'[t].job = thr[t].job, thr'[t].pc = next,
         Same(r, thr[t].job), r.state \in {"queued", "running"},
         r.stage \in RuntimeStages
  PROVE  Advance(t)
<1>1. pc # "apply" /\ pc \in ApplySteps /\ next \in ApplySteps \ {"apply"}
  OBVIOUS
<1>. QED
  BY <1>1, SaveAdvances

LEMMA ApplyGoes ==
  ASSUME Inv, NEW t \in Threads, NEW pc \in ApplySteps \ {"apply"}, Step(t, pc),
         NEW next \in ApplySteps \ {"apply"}, UNCHANGED applies, NEW r,
         \/ Save(t, r, next)
         \/ Goto(t, next) /\ UNCHANGED jobs /\ r = jobs[thr[t].job],
         Same(r, thr[t].job), r.state \in {"queued", "running"},
         r.stage \in RuntimeStages
  PROVE  Advance(t)
<1>1. TypeOK /\ thr[t].job \in Jobs
  BY OwnedJob DEF Inv, Step
<1>2. jobs' = [jobs EXCEPT ![thr[t].job] = r]
  BY <1>1 DEF TypeOK, Save
<1>3. /\ thr'[t].job = thr[t].job /\ thr'[t].pc = next
      /\ \A u \in Threads \ {t} : thr'[u] = thr[u]
  <2>1. Goto(t, next) /\ thr[t] \in ThreadType
    BY <1>1 DEF Save, TypeOK
  <2>. QED
    BY <1>1, <2>1 DEF Goto, TypeOK, ThreadType
<1>. QED
  BY <1>2, <1>3, SaveAdvances

LEMMA PlanAdvances ==
  ASSUME Inv, NEW t \in Threads, CreatePlan(t) \/ BindPlan(t) \/ StartApply(t)
  PROVE  Advance(t)
<1> DEFINE j == thr[t].job
<1>0. TypeOK /\ j \in Jobs /\ jobs[j] \in RowType /\ thr[t] \in ThreadType
  <2>1. TypeOK /\ j \in Jobs
    BY OwnedJob DEF Inv, CreatePlan, BindPlan, StartApply
  <2>. QED
    BY <2>1 DEF TypeOK
<1>1. CASE CreatePlan(t)
  <2> DEFINE row == Row(j, "completed", "prepared", "no")
  <2>1. Step(t, "create") /\ UNCHANGED applies
    BY <1>1 DEF CreatePlan, Step, history
  <2>2. Leave(t, row) \/ (Goto(t, "bind") /\ UNCHANGED jobs)
    BY <1>1 DEF CreatePlan
  <2>3. Same(row, j) /\ Settles(row)
    BY <1>0, RowFields DEF Settles
  <2>. QED
    BY <1>0, <2>1, <2>2, <2>3, RowKept, PrepareGoes, LeaveAdvances DEF PrepareSteps
<1>2. CASE BindPlan(t)
  <2> DEFINE bound == [jobs[j] EXCEPT !.plan = PlanOf(j)]
             stop == [bound EXCEPT !.state = "completed", !.changed = "no",
                                   !.stage = "approval_required"]
  <2>1. Step(t, "bind") /\ UNCHANGED applies
    BY <1>2 DEF BindPlan, Step, history
  <2>2. Leave(t, stop) \/ Save(t, bound, "preflight")
    BY <1>2 DEF BindPlan
  <2>3. /\ Same(bound, j) /\ bound.state = jobs[j].state /\ bound.stage = jobs[j].stage
        /\ Same(stop, j) /\ Settles(stop)
    <3>1. HasPlan(PlanOf(j))
      BY <2>1 DEF Inv, TypeInv, OperationsExist, Step, At, BoundSteps
    <3>. QED
      BY <1>0, <3>1 DEF RowType, Settles, Same
  <2>. QED
    BY <1>0, <2>1, <2>2, <2>3, RowKept, PrepareGoes, LeaveAdvances DEF PrepareSteps
<1>3. CASE StartApply(t)
  <2> DEFINE row == Row(j, "running", "runtime_apply", "unknown")
  <2>1. Step(t, "preflight") /\ UNCHANGED applies
    BY <1>3 DEF StartApply, Step, history
  <2>2. PICK r \in Results :
          Save(t, row, "apply") \/ Leave(t, FailedRow(j)) \/ Leave(t, ErrorRow(j, r))
    BY <1>3 DEF StartApply
  <2>3. Same(row, j) /\ row.state = "running" /\ row.stage = "runtime_apply"
    BY <1>0, RowFields
  <2>4. CASE Save(t, row, "apply")
    <3>1. /\ thr'[t].job = j /\ thr'[t].pc = "apply"
          /\ \A u \in Threads \ {t} : thr'[u] = thr[u]
      BY <1>0, <2>4 DEF Save, Goto, TypeOK, ThreadType
    <3>. QED
      BY <2>1, <2>3, <2>4, <3>1, SaveAdvances DEF Save, RuntimeStages
  <2>. QED
    BY <1>0, <2>1, <2>2, <2>4, RowFields, LeaveAdvances
<1>. QED
  BY <1>1, <1>2, <1>3

LEMMA PreludeAdvances ==
  ASSUME Inv, NEW t \in Threads, ApplyPrelude(t)
  PROVE  Advance(t)
<1> DEFINE j == thr[t].job
<1>0. TypeOK /\ j \in Jobs /\ thr[t] \in ThreadType
  <2>1. TypeOK /\ j \in Jobs
    BY OwnedJob DEF Inv, ApplyPrelude
  <2>. QED
    BY <2>1 DEF TypeOK
<1>1. Step(t, "apply") /\ applies' = [applies EXCEPT ![j] = @ + 1]
  BY DEF ApplyPrelude, Step
<1>2. PICK r \in {jobs[j], Raised(j)}, next \in {"send", "reconcile"} :
        /\ jobs' = [jobs EXCEPT ![j] = r]
        /\ thr'[t].job = j /\ thr'[t].pc = next
        /\ \A u \in Threads \ {t} : thr'[u] = thr[u]
  <2>1. CASE Save(t, Raised(j), "reconcile")
    BY <1>0, <2>1 DEF Save, Goto, TypeOK, ThreadType
  <2>2. CASE thr' = [thr EXCEPT ![t].pc = "send", ![t].step = 1] /\ UNCHANGED jobs
    BY <1>0, <2>2 DEF TypeOK, ThreadType
  <2>. QED
    BY <2>1, <2>2 DEF ApplyPrelude
<1>3. Same(r, j) /\ r.state \in {"queued", "running"} /\ r.stage \in RuntimeStages
  BY <1>1, <1>2, ApplyRows DEF ApplySteps
<1>. QED
  BY <1>1, <1>2, <1>3, SaveAdvances DEF ApplySteps

LEMMA StagesAdvance ==
  ASSUME Inv, NEW t \in Threads,
         SendStage(t) \/ ReceiveReply(t) \/ LoseReply(t) \/ VerifyApplied(t) \/ ReconcileApply(t)
  PROVE  Advance(t)
<1> DEFINE j == thr[t].job
<1> USE DEF ApplySteps
<1>0. TypeOK /\ j \in Jobs /\ thr[t] \in ThreadType
  <2>1. TypeOK /\ j \in Jobs
    BY OwnedJob DEF Inv, SendStage, ReceiveReply, Awaited, LoseReply, VerifyApplied, ReconcileApply
  <2>. QED
    BY <2>1 DEF TypeOK
<1>1. CASE SendStage(t)
  <2>1. Step(t, "send") /\ UNCHANGED applies
    BY <1>1 DEF SendStage, Step, history
  <2>2. \/ Save(t, Journaled(j, "dispatching"), "await")
        \/ \E entry : Save(t, RaisedAfter(j, entry), "reconcile")
    BY <1>1 DEF SendStage
  <2>. QED
    BY <2>1, <2>2, ApplyRows, ApplyGoes
<1>2. CASE ReceiveReply(t)
  <2>1. Step(t, "await") /\ UNCHANGED applies
    BY <1>2 DEF ReceiveReply, Awaited, Step, history
  <2>2. CASE \E entry : Save(t, RaisedAfter(j, entry), "reconcile")
    BY <2>1, <2>2, ApplyRows, ApplyGoes
  <2>3. CASE /\ jobs' = [jobs EXCEPT ![j] = Journaled(j, "acknowledged")]
             /\ thr' = [thr EXCEPT ![t].pc = IF LastStep(t) THEN "verify" ELSE "send",
                                   ![t].step = IF LastStep(t) THEN @ ELSE @ + 1]
    <3>1. PICK next \in {"verify", "send"} :
            /\ thr'[t].job = j /\ thr'[t].pc = next
            /\ \A u \in Threads \ {t} : thr'[u] = thr[u]
      BY <1>0, <2>3 DEF TypeOK, ThreadType
    <3>. QED
      <4>1. LET r == Journaled(j, "acknowledged") IN
              Same(r, j) /\ r.state \in {"queued", "running"} /\ r.stage \in RuntimeStages
        BY <2>1, ApplyRows
      <4>. QED
        BY <2>1, <2>3, <3>1, <4>1, ApplyMoves
  <2>. QED
    BY <1>2, <2>2, <2>3 DEF ReceiveReply
<1>3. CASE LoseReply(t)
  <2>1. Step(t, "await") /\ UNCHANGED applies /\ Save(t, RaisedAfter(j, "unknown"), "reconcile")
    BY <1>3 DEF LoseReply, Step, history
  <2>. QED
    BY <2>1, ApplyRows, ApplyGoes
<1>4. CASE VerifyApplied(t)
  <2>1. Step(t, "verify") /\ UNCHANGED applies
    BY <1>4 DEF VerifyApplied, Step, history
  <2>2. CASE Save(t, Raised(j), "reconcile")
    BY <2>1, <2>2, ApplyRows, ApplyGoes
  <2>3. CASE /\ thr' = [thr EXCEPT ![t].pc = "after",
                   ![t].out = [status |-> "completed", changed |-> "yes",
                               matched |-> "yes"]]
             /\ UNCHANGED jobs
    <3>1. /\ thr'[t].job = j /\ thr'[t].pc = "after"
          /\ \A u \in Threads \ {t} : thr'[u] = thr[u]
      BY <1>0, <2>3 DEF TypeOK, ThreadType
    <3>2. jobs' = [jobs EXCEPT ![j] = jobs[j]]
      BY <1>0, <2>3 DEF TypeOK
    <3>. QED
      <4>1. LET r == jobs[j] IN
              Same(r, j) /\ r.state \in {"queued", "running"} /\ r.stage \in RuntimeStages
        BY <2>1, ApplyRows
      <4>. QED
        BY <2>1, <3>1, <3>2, <4>1, ApplyMoves
  <2>. QED
    BY <1>4, <2>2, <2>3 DEF VerifyApplied
<1>5. CASE ReconcileApply(t)
  <2>1. Step(t, "reconcile") /\ UNCHANGED <<applies, jobs>>
    BY <1>5 DEF ReconcileApply, Step, history
  <2>2. /\ thr'[t].job = j /\ thr'[t].pc = "after"
        /\ \A u \in Threads \ {t} : thr'[u] = thr[u]
    BY <1>0, <1>5 DEF ReconcileApply, TypeOK, ThreadType
  <2>3. jobs' = [jobs EXCEPT ![j] = jobs[j]]
    BY <1>0, <2>1 DEF TypeOK
  <2>. QED
    <3>1. LET r == jobs[j] IN
            Same(r, j) /\ r.state \in {"queued", "running"} /\ r.stage \in RuntimeStages
      BY <2>1, ApplyRows
    <3>. QED
      BY <2>1, <2>2, <2>3, <3>1, ApplyMoves
<1>. QED
  BY <1>1, <1>2, <1>3, <1>4, <1>5

\* An outcome that reaches a row is a settled one.
LEMMA CloseAdvances ==
  ASSUME Inv, NEW t \in Threads, ObserveAfter(t) \/ RecordFacts(t) \/ CloseApply(t)
  PROVE  Advance(t)
<1> DEFINE j == thr[t].job
           out == thr[t].out
<1> USE DEF ApplySteps
<1>0. TypeOK /\ j \in Jobs
  BY OwnedJob DEF Inv, ObserveAfter, RecordFacts, CloseApply
<1>1. out.status \in {"completed", "failed", "state_unknown"}
  <2>1. out \in OutcomeType
    BY <1>0 DEF TypeOK, ThreadType
  <2>2. out.status # "none"
    BY DEF Inv, SafetyInv, OutcomeKnown, ObserveAfter, RecordFacts, CloseApply, At
  <2>. QED
    BY <2>1, <2>2 DEF OutcomeType
<1>2. \A stage, changed : LET r == Row(j, out.status, stage, changed) IN
        Same(r, j) /\ Settles(r)
  BY <1>0, <1>1, RowFields DEF Settles
<1>3. CASE ObserveAfter(t)
  <2>1. Step(t, "after") /\ UNCHANGED applies
    BY <1>3 DEF ObserveAfter, Step, history
  <2>2. PICK moved \in {"yes", "no"} :
          \/ Goto(t, "facts") /\ UNCHANGED jobs
          \/ Leave(t, Row(j, out.status, "runtime_failed", out.changed))
          \/ Leave(t, Row(j, "failed", "error", moved))
          \/ Leave(t, UnknownRow(j))
    BY <1>3 DEF ObserveAfter
  <2>3. Same(Row(j, "failed", "error", moved), j) /\ Settles(Row(j, "failed", "error", moved))
    BY <1>0, RowFields DEF Settles
  <2>4. CASE Goto(t, "facts") /\ UNCHANGED jobs
    BY <2>1, <2>4, ApplyRows, ApplyGoes
  <2>5. Same(UnknownRow(j), j) /\ Settles(UnknownRow(j))
    BY <1>0, RowFields
  <2>. QED
    BY <1>2, <2>1, <2>2, <2>3, <2>4, <2>5, LeaveAdvances
<1>4. CASE RecordFacts(t)
  <2>1. Step(t, "facts") /\ UNCHANGED <<applies, jobs>> /\ Goto(t, "close")
    BY <1>4 DEF RecordFacts, Step, history
  <2>. QED
    BY <2>1, ApplyRows, ApplyGoes
<1>5. CASE CloseApply(t)
  <2>1. /\ Step(t, "close") /\ UNCHANGED applies
        /\ Leave(t, Row(j, out.status, "runtime_reconciled", out.changed))
    BY <1>5 DEF CloseApply, Step, history
  <2>. QED
    BY <1>2, <2>1, LeaveAdvances
<1>. QED
  BY <1>3, <1>4, <1>5

\* The two steps of the recovering thread that run a job.
LEMMA RecoveryAdvances ==
  ASSUME Inv, NEW t \in Threads, RecoverApply(t) \/ RecoverPrepare(t)
  PROVE  Advance(t)
<1> DEFINE j == thr[t].job
<1>0. TypeOK /\ j \in Jobs /\ jobs[j] \in RowType
  <2>1. TypeOK /\ j \in Jobs
    BY OwnedJob DEF Inv, RecoverApply, RecoverPrepare
  <2>. QED
    BY <2>1 DEF TypeOK
<1>1. CASE RecoverApply(t)
  <2> DEFINE out == ReconcileOutcome(j)
             row == Row(j, out.status, "runtime_reconciled", out.changed)
  <2>1. Step(t, "reconcile_job") /\ UNCHANGED applies
    BY <1>1 DEF RecoverApply, Step, history
  <2>2. PICK r \in Results :
          \/ Leave(t, row) \/ Leave(t, FailedRow(j)) \/ Leave(t, UnknownRow(j))
          \/ Leave(t, ErrorRow(j, r))
    BY <1>1 DEF RecoverApply
  <2>3. Same(row, j) /\ Settles(row)
    <3>1. out.status \in {"completed", "failed", "state_unknown"}
      BY DEF ReconcileOutcome, FailedOutcome, Unknown
    <3>. QED
      BY <1>0, <3>1, RowFields DEF Settles
  <2>. QED
    BY <1>0, <2>1, <2>2, <2>3, RowFields, LeaveAdvances
<1>2. CASE RecoverPrepare(t)
  <2> DEFINE saved == [Row(j, "running", "prepare_candidate_ready", "no") EXCEPT !.saved = TRUE]
             lost == Row(j, "state_unknown", "error", "no")
  <2>1. Step(t, "prepare_job") /\ UNCHANGED applies
    BY <1>2 DEF RecoverPrepare, Step
  <2>2. PICK r \in Results :
          \/ Leave(t, FailedRow(j)) \/ Leave(t, UnknownRow(j)) \/ Leave(t, ErrorRow(j, r))
          \/ Leave(t, lost)
          \/ Goto(t, "finalize") /\ UNCHANGED jobs
          \/ Save(t, saved, "finalize")
    <3>1. editor[j] \in {"none", "requested", "done", "failed"} /\ "ok" \in Results
      BY <1>0 DEF TypeOK, Results
    <3>. QED
      BY <1>2, <3>1 DEF RecoverPrepare
  <2>3. /\ Same(saved, j) /\ saved.state = "running"
        /\ saved.stage = "prepare_candidate_ready"
    BY <1>0 DEF Row, RowType, Same
  <2>4. Same(lost, j) /\ Settles(lost)
    BY <1>0, RowFields DEF Settles
  <2>5. CASE Goto(t, "finalize") /\ UNCHANGED jobs
    BY <2>1, <2>5, RowKept, PrepareGoes DEF PrepareSteps
  <2>6. CASE Save(t, saved, "finalize")
    BY <2>1, <2>3, <2>6, PrepareGoes DEF PrepareSteps, RuntimeStages
  <2>. QED
    BY <1>0, <2>1, <2>2, <2>4, <2>5, <2>6, RowFields, LeaveAdvances
<1>. QED
  BY <1>1, <1>2

LEMMA ThreadsAdvance ==
  ASSUME Inv, NEW t \in Threads, RunJob(t) \/ RecoverApply(t) \/ RecoverPrepare(t)
  PROVE  Advance(t)
BY PreparationAdvances, PlanAdvances, PreludeAdvances, StagesAdvance, CloseAdvances,
   RecoveryAdvances DEF RunJob

-----------------------------------------------------------------------------
(* Ownership and the stages of applied jobs are kept by every step.        *)

Placed == Entered /\ Owned /\ DownIdle /\ Applied

LEMMA AdvancePlaced ==
  ASSUME Inv, NEW t \in Threads, Advance(t)
  PROVE  Placed'
<1> DEFINE j == thr[t].job
<1>0. /\ TypeOK /\ Entered /\ Owned /\ DownIdle /\ Applied
      /\ j \in Jobs /\ thr[t].pc # "idle" /\ Active(j)
  BY DEF Inv, TypeInv, SafetyInv, Advance, Owned
<1>1. Entered'
  <2>1. jobs[j].op # "none"
    BY <1>0 DEF Entered, Active, NoRow
  <2>. QED
    BY <1>0, <2>1 DEF Advance, Entered, Same
<1>2. DownIdle'
  BY DEF Advance, DownIdle, control
<1>3. \A u \in Threads : thr'[u].pc # "idle" =>
        /\ thr'[u].job = thr[u].job /\ thr[u].pc # "idle"
        /\ jobs'[thr[u].job].state \in {"queued", "running"}
  <2>1. ASSUME NEW u \in Threads \ {t}, thr'[u].pc # "idle"
        PROVE  /\ thr'[u].job = thr[u].job /\ thr[u].pc # "idle"
               /\ jobs'[thr[u].job].state \in {"queued", "running"}
    <3>1. thr'[u] = thr[u] /\ Active(thr[u].job) /\ thr[u].job # j
      BY <1>0, <2>1 DEF Advance, Owned, Runs
    <3>2. thr[u].job \in Jobs
      BY <2>1, <3>1 DEF Inv, TypeInv, OperationsExist
    <3>. QED
      BY <2>1, <3>1, <3>2 DEF Advance, Active
  <2>2. ASSUME thr'[t].pc # "idle"
        PROVE  thr'[t].job = j /\ jobs'[j].state \in {"queued", "running"}
    BY <2>2 DEF Advance, Releases, Continues
  <2>. QED
    BY <1>0, <2>1, <2>2
<1>4. \A u \in Threads, i \in Jobs : Runs(u, i)' => Runs(u, i)
  BY <1>3 DEF Runs
<1>5. Owned'
  <2>0. UNCHANGED <<queue, todo>>
    BY DEF Advance, control
  <2>1. ASSUME NEW u \in Threads, thr'[u].pc # "idle"
        PROVE  Active(thr[u].job)' /\ \A v \in Threads \ {u} : ~Runs(v, thr[u].job)'
    <3>1. thr[u].job \in Jobs /\ thr[u].pc # "idle"
      BY <1>3, <2>1 DEF Inv, TypeInv, OperationsExist
    <3>2. PICK i \in Jobs : i = thr[u].job /\ i = thr'[u].job
      BY <1>3, <2>1, <3>1
    <3>3. \A v \in Threads \ {u} : ~Runs(v, i)
      BY <1>0, <3>1, <3>2 DEF Owned
    <3>4. Active(i)'
      BY <1>3, <2>1, <3>2 DEF Active
    <3>. QED
      BY <1>4, <3>2, <3>3, <3>4
  <2>2. ASSUME NEW i \in 1..Len(queue)
        PROVE  /\ Active(queue[i])' /\ jobs'[queue[i]].stage \in QueuedStages
               /\ \A u \in Threads : ~Runs(u, queue[i])'
    <3>1. queue[i] \in Jobs /\ queue[i] # j
      BY <1>0 DEF TypeOK, Owned, Runs
    <3>2. PICK q \in Jobs : q = queue[i] /\ q = queue'[i] /\ q # j
      BY <2>0, <3>1
    <3>3. jobs'[q] = jobs[q]
      BY <3>2 DEF Advance
    <3>4. Active(q) /\ jobs[q].stage \in QueuedStages /\ \A u \in Threads : ~Runs(u, q)
      BY <1>0, <3>2 DEF Owned
    <3>. QED
      BY <1>4, <3>2, <3>3, <3>4 DEF Active
  <2>3. ASSUME NEW i \in todo
        PROVE  Active(i)' /\ ~InQueue(i)' /\ \A u \in Threads : ~Runs(u, i)'
    <3>1. i \in Jobs /\ i # j
      BY <1>0 DEF TypeOK, Owned, Runs
    <3>2. jobs'[i] = jobs[i]
      BY <3>1 DEF Advance
    <3>. QED
      BY <1>0, <1>4, <2>0, <3>1, <3>2 DEF Owned, Active, InQueue
  <2>4. \A i, k \in 1..Len(queue) : queue[i] = queue[k] => i = k
    BY <1>0 DEF Owned
  <2>. QED
    BY <1>3, <2>0, <2>1, <2>2, <2>3, <2>4 DEF Owned
<1>6. Applied'
  <2>1. ASSUME NEW i \in Jobs
        PROVE  /\ applies'[i] \in {0, 1}
               /\ applies'[i] = 1 /\ ~Terminal(i)' => jobs'[i].stage \in RuntimeStages
    <3>1. CASE i # j
      BY <1>0, <3>1 DEF Advance, Applied, Terminal
    <3>2. CASE i = j /\ Releases(t)
      BY <1>0, <3>2 DEF Releases, Settles, Applied, Terminal, Active
    <3>3. CASE i = j /\ Continues(t)
      BY <1>0, <3>3 DEF Continues, Applied, Terminal, Active
    <3>. QED
      BY <3>1, <3>2, <3>3 DEF Advance
  <2>2. ASSUME NEW u \in Threads
        PROVE  LET i == thr'[u].job IN
               /\ thr'[u].pc \in PrepareSteps \cup {"prepare_job"} =>
                    jobs'[i].stage \notin RuntimeStages
               /\ thr'[u].pc = "apply" => applies'[i] = 0
               /\ thr'[u].pc \in ApplySteps => jobs'[i].stage \in RuntimeStages
    <3>1. CASE thr'[u].pc = "idle"
      BY <3>1 DEF PrepareSteps, ApplySteps
    <3>2. CASE u # t /\ thr'[u].pc # "idle"
      <4>1. thr'[u] = thr[u] /\ thr[u].job \in Jobs /\ thr[u].job # j
        BY <1>0, <3>2 DEF Advance, Owned, Runs, Inv, TypeInv, OperationsExist
      <4>2. jobs'[thr[u].job] = jobs[thr[u].job] /\ applies'[thr[u].job] = applies[thr[u].job]
        BY <4>1 DEF Advance
      <4>. QED
        BY <1>0, <4>1, <4>2 DEF Applied
    <3>3. CASE u = t /\ Continues(t)
      <4>1. CASE thr'[t].pc = "apply"
        <5>1. jobs[j].stage \notin RuntimeStages
          BY <1>0, <3>3, <4>1 DEF Continues, Applied, PrepareSteps
        <5>2. applies[j] = 0
          BY <1>0, <5>1 DEF Applied, Active, Terminal
        <5>. QED
          BY <3>3, <4>1, <5>2 DEF Continues, PrepareSteps, ApplySteps
      <4>. QED
        BY <3>3, <4>1 DEF Continues, PrepareSteps, ApplySteps
    <3>. QED
      BY <3>1, <3>2, <3>3 DEF Advance, Releases
  <2>. QED
    BY <2>1, <2>2 DEF Applied
<1>. QED
  BY <1>1, <1>2, <1>5, <1>6 DEF Placed

\* A job that enters the queue is active, queued, and nowhere else.
LEMMA QueuePlaced ==
  ASSUME TypeOK, Owned, NEW j \in Jobs,
         queue' = Append(queue, j), UNCHANGED thr, todo' \subseteq todo \ {j},
         \A i \in Jobs \ {j} : jobs'[i] = jobs[i],
         jobs'[j].state \in {"queued", "running"}, jobs'[j].stage \in QueuedStages,
         ~InQueue(j), \A t \in Threads : ~Runs(t, j),
         \A t \in Threads : thr[t].pc # "idle" => thr[t].job \in Jobs
  PROVE  Owned'
<1>1. /\ queue \in Seq(Jobs) /\ todo \subseteq Jobs
      /\ \A i \in 1..Len(queue) : queue[i] \in Jobs /\ queue[i] # j
  BY DEF TypeOK, InQueue
<1>2. /\ Len(queue') = Len(queue) + 1 /\ Len(queue) \in Nat
      /\ \A i \in 1..Len(queue) : queue'[i] = queue[i]
      /\ queue'[Len(queue) + 1] = j
  BY <1>1
<1>3. \A t \in Threads, i \in Jobs : Runs(t, i)' <=> Runs(t, i)
  BY DEF Runs
<1>4. \A i \in Jobs \ {j} : (Active(i) => Active(i)') /\ jobs'[i].stage = jobs[i].stage
  BY DEF Active
<1>5. Active(j)'
  BY DEF Active
<1>6. ASSUME NEW t \in Threads, thr'[t].pc # "idle"
      PROVE  Active(thr[t].job)' /\ \A u \in Threads \ {t} : ~Runs(u, thr[t].job)'
  <2>1. PICK i \in Jobs : i = thr[t].job /\ i = thr'[t].job
    BY <1>6
  <2>2. Active(i) /\ \A u \in Threads \ {t} : ~Runs(u, i)
    BY <1>6, <2>1 DEF Owned
  <2>. QED
    BY <1>3, <1>4, <1>5, <2>1, <2>2
<1>7. ASSUME NEW i \in 1..Len(queue')
      PROVE  /\ Active(queue[i])' /\ jobs'[queue'[i]].stage \in QueuedStages
             /\ \A t \in Threads : ~Runs(t, queue[i])'
             /\ \A k \in 1..Len(queue') : queue'[i] = queue'[k] => i = k
  <2>1. PICK q \in Jobs : q = queue'[i]
    BY <1>1, <1>2
  <2>2. CASE i = Len(queue) + 1
    BY <1>1, <1>2, <1>3, <1>5, <2>2
  <2>3. CASE i \in 1..Len(queue)
    <3>1. /\ q = queue[i] /\ q # j /\ Active(q) /\ jobs[q].stage \in QueuedStages
          /\ \A t \in Threads : ~Runs(t, q)
          /\ \A k \in 1..Len(queue) : q = queue[k] => i = k
      BY <1>1, <1>2, <2>1, <2>3 DEF Owned
    <3>2. \A k \in 1..Len(queue') : q = queue'[k] => i = k
      <4>1. ASSUME NEW k \in 1..Len(queue'), q = queue'[k] PROVE i = k
        <5>1. k \in 1..Len(queue) \/ k = Len(queue) + 1
          BY <1>2
        <5>. QED
          BY <1>2, <3>1, <4>1, <5>1
      <4>. QED
        BY <4>1
    <3>. QED
      BY <1>3, <1>4, <2>1, <3>1, <3>2
  <2>. QED
    BY <1>2, <2>2, <2>3
<1>8. ASSUME NEW i \in todo'
      PROVE  Active(i)' /\ ~InQueue(i)' /\ \A t \in Threads : ~Runs(t, i)'
  <2>1. i \in Jobs /\ i # j /\ Active(i) /\ ~InQueue(i) /\ \A t \in Threads : ~Runs(t, i)
    BY <1>1, <1>8 DEF Owned
  <2>2. ~InQueue(i)'
    <3>1. ASSUME NEW k \in 1..Len(queue'), queue'[k] = i PROVE FALSE
      <4>1. k \in 1..Len(queue) \/ k = Len(queue) + 1
        BY <1>2
      <4>. QED
        BY <1>2, <2>1, <3>1, <4>1 DEF InQueue
    <3>. QED
      BY <3>1 DEF InQueue
  <2>. QED
    BY <1>3, <1>4, <2>1, <2>2
<1>. QED
  BY <1>6, <1>7, <1>8 DEF Owned

LEMMA EnqueuePlaced ==
  ASSUME Inv, Submit
  PROVE  Placed'
<1>0. TypeOK /\ Entered /\ Owned /\ Applied
  BY DEF Inv, TypeInv, SafetyInv
<1>1. PICK j \in Jobs, op \in {"prepare", "iterate"}, p \in 0..NJobs : Enqueue(j, op, p)
  BY BoundsAssumption DEF Submit, EnqueuePrepare, EnqueueIterate
<1>2. jobs[j] = NoRow /\ ~Active(j)
  <2>1. jobs[j] = NoRow
    BY <1>0, <1>1 DEF Enqueue, NextJob, Entered
  <2>. QED
    BY <2>1 DEF NoRow, Active
<1>3. /\ jobs' = [jobs EXCEPT ![j] = NewRow(op, p)]
      /\ queue' = Append(queue, j) /\ UNCHANGED <<thr, todo, applies, host>>
      /\ host = "serving"
  BY <1>1 DEF Enqueue, history
<1>4. /\ jobs'[j] = NewRow(op, p) /\ \A i \in Jobs \ {j} : jobs'[i] = jobs[i]
      /\ NewRow(op, p).op = op /\ NewRow(op, p).state = "queued"
      /\ NewRow(op, p).stage \in QueuedStages
  BY <1>0, <1>3 DEF TypeOK, NewRow, NoRow, QueuedStages
<1>5. j \notin todo /\ ~InQueue(j) /\ \A t \in Threads : ~Runs(t, j)
  BY <1>0, <1>2 DEF Owned, InQueue, Runs
<1>6. \A t \in Threads : thr[t].pc # "idle" => thr[t].job \in Jobs
  BY DEF Inv, TypeInv, OperationsExist
<1>7. Owned'
  BY <1>0, <1>3, <1>4, <1>5, <1>6, QueuePlaced
<1>8. Entered'
  BY <1>0, <1>4 DEF Entered
<1>9. DownIdle'
  BY <1>3 DEF DownIdle
<1>10. Applied'
  <2>1. applies[j] = 0
    BY <1>0, <1>2 DEF Applied, Terminal, NoRow, RuntimeStages
  <2>2. \A t \in Threads : thr[t].pc # "idle" => thr[t].job \in Jobs \ {j}
    BY <1>5, <1>6 DEF Runs
  <2>. QED
    BY <1>0, <1>3, <1>4, <2>1, <2>2 DEF Applied, Terminal, PrepareSteps, ApplySteps
<1>. QED
  BY <1>7, <1>8, <1>9, <1>10 DEF Placed

LEMMA TakeJobPlaced ==
  ASSUME Inv, TakeJob
  PROVE  Placed'
<1>0. TypeOK /\ Entered /\ Owned /\ DownIdle /\ Applied
  BY DEF Inv, TypeInv, SafetyInv
<1>1. /\ UNCHANGED <<jobs, todo, host, applies>> /\ queue' = Tail(queue)
      /\ queue # <<>> /\ thr["worker"].pc = "idle" /\ host # "down"
  BY DEF TakeJob, HostUp, history
<1>2. PICK j \in Jobs, pc \in {"prepare", "bind"} :
        /\ thr' = [thr EXCEPT !["worker"] = [Idle EXCEPT !.job = j, !.pc = pc]]
        /\ j = Head(queue)
  <2>1. Head(queue) \in Jobs
    BY <1>0, <1>1 DEF TypeOK
  <2>. QED
    BY <2>1 DEF TakeJob
<1>3. /\ "worker" \in Threads /\ thr'["worker"].pc = pc /\ thr'["worker"].job = j
      /\ \A t \in Threads \ {"worker"} : thr'[t] = thr[t]
  BY <1>0, <1>2 DEF TypeOK, Idle, Threads
<1>4. /\ Len(queue) \in Nat \ {0} /\ 1 \in 1..Len(queue) /\ j = queue[1]
      /\ \A i \in 1..Len(queue) : queue[i] \in Jobs
      /\ Len(queue') = Len(queue) - 1
      /\ \A i \in 1..Len(queue') : queue'[i] = queue[i + 1] /\ i + 1 \in 1..Len(queue)
  <2>1. queue \in Seq(Jobs) /\ queue # <<>>
    BY <1>0, <1>1 DEF TypeOK
  <2>. QED
    BY <1>1, <1>2, <2>1
<1>5. /\ Active(j) /\ jobs[j].stage \in QueuedStages /\ \A t \in Threads : ~Runs(t, j)
      /\ \A i \in 1..Len(queue) : queue[i] = j => i = 1
      /\ j \notin todo
  BY <1>0, <1>4 DEF Owned, InQueue
<1>6. \A t \in Threads, i \in Jobs \ {j} : Runs(t, i)' => Runs(t, i)
  BY <1>3 DEF Runs
<1>7. \A i \in Jobs : Active(i)' <=> Active(i)
  BY <1>1 DEF Active
<1>8. Owned'
  <2>1. ASSUME NEW t \in Threads, thr'[t].pc # "idle"
        PROVE  Active(thr[t].job)' /\ \A u \in Threads \ {t} : ~Runs(u, thr[t].job)'
    <3>1. CASE t = "worker"
      <4>1. \A u \in Threads \ {t} : ~Runs(u, j)'
        BY <1>3, <1>5, <3>1 DEF Runs
      <4>. QED
        BY <1>3, <1>4, <1>5, <1>7, <3>1, <4>1
    <3>2. CASE t # "worker"
      <4>1. PICK i \in Jobs : i = thr[t].job /\ i = thr'[t].job
        BY <1>3, <2>1, <3>2 DEF Inv, TypeInv, OperationsExist
      <4>2. i # j /\ Active(i) /\ \A u \in Threads \ {t} : ~Runs(u, i)
        BY <1>0, <1>3, <1>5, <2>1, <3>2, <4>1 DEF Owned, Runs
      <4>. QED
        BY <1>6, <1>7, <4>1, <4>2
    <3>. QED
      BY <3>1, <3>2
  <2>2. ASSUME NEW i \in 1..Len(queue')
        PROVE  /\ Active(queue[i])' /\ jobs'[queue'[i]].stage \in QueuedStages
               /\ \A t \in Threads : ~Runs(t, queue[i])'
               /\ \A k \in 1..Len(queue') : queue'[i] = queue'[k] => i = k
    <3>1. PICK q \in Jobs : q = queue'[i] /\ q = queue[i + 1] /\ i + 1 \in 1..Len(queue)
      BY <1>4
    <3>2. q # j /\ Active(q) /\ jobs[q].stage \in QueuedStages /\ \A t \in Threads : ~Runs(t, q)
      BY <1>0, <1>4, <1>5, <3>1 DEF Owned
    <3>3. ASSUME NEW k \in 1..Len(queue'), q = queue'[k] PROVE i = k
      <4>1. k + 1 \in 1..Len(queue) /\ queue[k + 1] = q
        BY <1>4, <3>3
      <4>2. i + 1 = k + 1
        BY <1>0, <3>1, <4>1 DEF Owned
      <4>. QED
        BY <4>2
    <3>. QED
      BY <1>1, <1>6, <1>7, <3>1, <3>2, <3>3
  <2>3. ASSUME NEW i \in todo
        PROVE  Active(i)' /\ ~InQueue(i)' /\ \A t \in Threads : ~Runs(t, i)'
    <3>1. /\ i \in Jobs /\ i # j /\ Active(i) /\ \A t \in Threads : ~Runs(t, i)
          /\ ~InQueue(i)
      BY <1>0, <1>5 DEF TypeOK, Owned
    <3>2. ~InQueue(i)'
      BY <1>4, <3>1 DEF InQueue
    <3>. QED
      BY <1>6, <1>7, <3>1, <3>2
  <2>. QED
    BY <1>1, <2>1, <2>2, <2>3 DEF Owned
<1>9. Applied'
  <2>1. jobs[j].stage \notin RuntimeStages
    BY <1>5 DEF QueuedStages, RuntimeStages
  <2>. QED
    BY <1>0, <1>1, <1>3, <2>1 DEF Applied, Terminal, ApplySteps
<1>. QED
  BY <1>0, <1>1, <1>8, <1>9 DEF Placed, Entered, DownIdle

\* Steps that touch no job: everything the environment does but a crash.
LEMMA QuietPlaced ==
  ASSUME Inv, UNCHANGED <<jobs, thr, queue, todo, applies>>,
         host' # "down" \/ UNCHANGED host
  PROVE  Placed'
<1>1. Entered /\ Owned /\ DownIdle /\ Applied
  BY DEF Inv, SafetyInv
<1>2. Entered'
  BY <1>1 DEF Entered
<1>3. DownIdle'
  BY <1>1 DEF DownIdle
<1>4. Applied'
  BY <1>1 DEF Applied, Terminal
<1>5. Owned'
  BY <1>1 DEF Owned, Active, Runs, InQueue
<1>. QED
  BY <1>2, <1>3, <1>4, <1>5 DEF Placed

LEMMA RestartPlaced ==
  ASSUME Inv, Crash \/ Start
  PROVE  Placed'
<1>0. Entered /\ Owned /\ DownIdle /\ Applied
  BY DEF Inv, SafetyInv
<1>1. UNCHANGED <<jobs, applies>>
  BY DEF Crash, Start, history
<1>2. /\ queue' = <<>> /\ \A t \in Threads : thr'[t].pc = "idle"
      /\ todo' \subseteq {j \in Jobs : Active(j)}
      /\ host' = "down" => todo' = {}
  BY <1>0 DEF Crash, Start, DownIdle, Idle, PendingJobs
<1>3. Owned'
  <2>1. Len(queue') = 0
    BY <1>2
  <2>. QED
    BY <1>1, <1>2, <2>1 DEF Owned, Active, Runs, InQueue
<1>4. Applied'
  BY <1>0, <1>1, <1>2 DEF Applied, Terminal, PrepareSteps, ApplySteps
<1>. QED
  BY <1>0, <1>1, <1>2, <1>3, <1>4 DEF Placed, Entered, DownIdle

LEMMA RecoverJobPlaced ==
  ASSUME Inv, RecoverJob
  PROVE  Placed'
<1>0. TypeOK /\ Entered /\ Owned /\ DownIdle /\ Applied
  BY DEF Inv, TypeInv, SafetyInv
<1>1. PICK j \in todo :
        /\ todo' = todo \ {j}
        /\ LET kind == Recovery(jobs[j].stage) IN
            \/ /\ kind = "resubmit"
               /\ queue' = Append(queue, j)
               /\ UNCHANGED <<jobs, thr>>
            \/ /\ kind \in {"reconcile_job", "prepare_job"}
               /\ thr' = [thr EXCEPT !["main"] = [Idle EXCEPT !.pc = kind, !.job = j]]
               /\ UNCHANGED <<jobs, queue>>
            \/ /\ kind = "fail"
               /\ jobs' = [jobs EXCEPT ![j] = UnknownRow(j)]
               /\ UNCHANGED <<thr, queue>>
  BY DEF RecoverJob
<1>2. /\ thr["main"].pc = "idle" /\ host = "recovering" /\ UNCHANGED <<host, applies>>
      /\ "main" \in Threads
  BY DEF RecoverJob, history, Threads
<1>3. /\ j \in Jobs /\ Active(j) /\ ~InQueue(j) /\ \A t \in Threads : ~Runs(t, j)
      /\ todo \subseteq Jobs /\ j \notin todo'
  BY <1>0, <1>1 DEF TypeOK, Owned
<1>4. /\ \A t \in Threads : thr[t].pc # "idle" => thr[t].job \in Jobs
      /\ \A i \in 1..Len(queue) : queue[i] \in Jobs /\ queue[i] # j
  <2>1. \A i \in 1..Len(queue) : queue[i] \in Jobs
    BY <1>0 DEF TypeOK
  <2>. QED
    BY <1>3, <2>1 DEF Inv, TypeInv, OperationsExist, InQueue
<1>5. DownIdle'
  BY <1>2 DEF DownIdle
<1>6. CASE Recovery(jobs[j].stage) = "resubmit"
  <2>1. jobs[j].stage \in QueuedStages
    BY <1>6 DEF Recovery, PrepareStages
  <2>2. queue' = Append(queue, j) /\ UNCHANGED <<jobs, thr>>
    BY <1>1, <1>6
  <2>3. Owned'
    BY <1>0, <1>1, <1>3, <1>4, <2>1, <2>2, QueuePlaced DEF Active
  <2>4. Entered' /\ Applied'
    BY <1>0, <1>2, <2>2 DEF Entered, Applied, Terminal
  <2>. QED
    BY <1>5, <2>3, <2>4 DEF Placed
<1>7. ASSUME NEW kind \in {"reconcile_job", "prepare_job"}, Recovery(jobs[j].stage) = kind
      PROVE  Placed'
  <2>1. /\ thr' = [thr EXCEPT !["main"] = [Idle EXCEPT !.pc = kind, !.job = j]]
        /\ UNCHANGED <<jobs, queue>>
    BY <1>1, <1>7
  <2>2. /\ thr'["main"].pc = kind /\ thr'["main"].job = j
        /\ \A t \in Threads \ {"main"} : thr'[t] = thr[t]
    BY <1>0, <1>2, <2>1 DEF TypeOK, Idle
  <2>3. \A t \in Threads, i \in Jobs \ {j} : Runs(t, i)' => Runs(t, i)
    BY <2>2 DEF Runs
  <2>4. \A i \in Jobs : Active(i)' <=> Active(i)
    BY <2>1 DEF Active
  <2>5. ASSUME NEW t \in Threads, thr'[t].pc # "idle"
        PROVE  Active(thr[t].job)' /\ \A u \in Threads \ {t} : ~Runs(u, thr[t].job)'
    <3>1. CASE t = "main"
      <4>1. \A u \in Threads \ {t} : ~Runs(u, j)'
        BY <1>3, <2>2, <3>1 DEF Runs
      <4>. QED
        BY <1>3, <2>2, <2>4, <3>1, <4>1
    <3>2. CASE t # "main"
      <4>1. PICK i \in Jobs : i = thr[t].job /\ i = thr'[t].job
        BY <1>4, <2>2, <2>5, <3>2
      <4>2. i # j /\ Active(i) /\ \A u \in Threads \ {t} : ~Runs(u, i)
        BY <1>0, <1>3, <2>2, <2>5, <3>2, <4>1 DEF Owned, Runs
      <4>. QED
        BY <2>3, <2>4, <4>1, <4>2
    <3>. QED
      BY <3>1, <3>2
  <2>6. ASSUME NEW i \in 1..Len(queue)
        PROVE  /\ Active(queue[i])' /\ jobs'[queue[i]].stage \in QueuedStages
               /\ \A t \in Threads : ~Runs(t, queue[i])'
    <3>1. PICK q \in Jobs : q = queue[i] /\ q = queue'[i] /\ q # j
      BY <1>4, <2>1
    <3>2. Active(q) /\ jobs[q].stage \in QueuedStages /\ \A t \in Threads : ~Runs(t, q)
      BY <1>0, <3>1 DEF Owned
    <3>. QED
      BY <2>1, <2>3, <2>4, <3>1, <3>2
  <2>7. ASSUME NEW i \in todo'
        PROVE  Active(i)' /\ ~InQueue(i)' /\ \A t \in Threads : ~Runs(t, i)'
    <3>1. /\ i \in Jobs /\ i # j /\ Active(i) /\ ~InQueue(i)
          /\ \A t \in Threads : ~Runs(t, i)
      BY <1>0, <1>1, <1>3, <2>7 DEF Owned
    <3>. QED
      BY <2>1, <2>3, <2>4, <3>1 DEF InQueue
  <2>8. \A i, k \in 1..Len(queue) : queue[i] = queue[k] => i = k
    BY <1>0 DEF Owned
  <2>9. Owned'
    BY <2>1, <2>5, <2>6, <2>7, <2>8 DEF Owned
  <2>10. kind = "prepare_job" => jobs[j].stage \notin RuntimeStages
    BY <1>7 DEF Recovery, PrepareStages, RuntimeStages, QueuedStages
  <2>11. Entered' /\ Applied'
    BY <1>0, <1>2, <2>1, <2>2, <2>10 DEF Entered, Applied, Terminal, PrepareSteps, ApplySteps
  <2>. QED
    BY <1>5, <2>9, <2>11 DEF Placed
<1>8. CASE Recovery(jobs[j].stage) = "fail"
  <2>1. jobs' = [jobs EXCEPT ![j] = UnknownRow(j)] /\ UNCHANGED <<thr, queue>>
    BY <1>1, <1>8
  <2>2. /\ \A i \in Jobs \ {j} : jobs'[i] = jobs[i]
        /\ jobs'[j].op = jobs[j].op /\ Settles(jobs'[j])
    BY <1>0, <1>3, <2>1, RowFields DEF TypeOK, Same
  <2>3. Entered'
    <3>1. jobs[j].op # "none"
      BY <1>0, <1>3 DEF Entered, Active, NoRow
    <3>. QED
      BY <1>0, <2>2, <3>1 DEF Entered
  <2>4. \A t \in Threads, i \in Jobs : Runs(t, i)' <=> Runs(t, i)
    BY <2>1 DEF Runs
  <2>5. \A i \in Jobs \ {j} : (Active(i)' <=> Active(i)) /\ jobs'[i].stage = jobs[i].stage
    BY <2>2 DEF Active
  <2>6. ASSUME NEW t \in Threads, thr'[t].pc # "idle"
        PROVE  Active(thr[t].job)' /\ \A u \in Threads \ {t} : ~Runs(u, thr[t].job)'
    <3>1. PICK i \in Jobs : i = thr[t].job /\ i = thr'[t].job
      BY <1>4, <2>1, <2>6
    <3>2. i # j /\ Active(i) /\ \A u \in Threads \ {t} : ~Runs(u, i)
      BY <1>0, <1>3, <2>1, <2>6, <3>1 DEF Owned, Runs
    <3>. QED
      BY <2>4, <2>5, <3>1, <3>2
  <2>7. ASSUME NEW i \in 1..Len(queue)
        PROVE  /\ Active(queue[i])' /\ jobs'[queue[i]].stage \in QueuedStages
               /\ \A t \in Threads : ~Runs(t, queue[i])'
    <3>1. PICK q \in Jobs : q = queue[i] /\ q = queue'[i] /\ q # j
      BY <1>4, <2>1
    <3>2. Active(q) /\ jobs[q].stage \in QueuedStages /\ \A t \in Threads : ~Runs(t, q)
      BY <1>0, <3>1 DEF Owned
    <3>. QED
      BY <2>4, <2>5, <3>1, <3>2
  <2>8. ASSUME NEW i \in todo'
        PROVE  Active(i)' /\ ~InQueue(i)' /\ \A t \in Threads : ~Runs(t, i)'
    <3>1. /\ i \in Jobs /\ i # j /\ Active(i) /\ ~InQueue(i)
          /\ \A t \in Threads : ~Runs(t, i)
      BY <1>0, <1>1, <1>3, <2>8 DEF Owned
    <3>. QED
      BY <2>1, <2>4, <2>5, <3>1 DEF InQueue
  <2>9. \A i, k \in 1..Len(queue) : queue[i] = queue[k] => i = k
    BY <1>0 DEF Owned
  <2>10. Owned'
    BY <2>1, <2>6, <2>7, <2>8, <2>9 DEF Owned
  <2>11. Applied'
    <3>1. \A t \in Threads : thr[t].pc # "idle" => thr[t].job \in Jobs \ {j}
      BY <1>3, <1>4 DEF Runs
    <3>. QED
      BY <1>0, <1>2, <2>1, <2>2, <3>1
         DEF Applied, Terminal, Settles, PrepareSteps, ApplySteps
  <2>. QED
    BY <1>5, <2>3, <2>10, <2>11 DEF Placed
<1>. QED
  BY <1>1, <1>6, <1>7, <1>8

LEMMA NextPlaced ==
  ASSUME Inv, [Next]_vars
  PROVE  Placed'
<1>1. CASE \E t \in Threads : RunJob(t)
  BY <1>1, ThreadsAdvance, AdvancePlaced
<1>2. CASE RecoverApply("main") \/ RecoverPrepare("main")
  BY <1>2, ThreadsAdvance, AdvancePlaced DEF Threads
<1>3. CASE TakeJob \/ Submit \/ RecoverJob \/ Start \/ Crash
  BY <1>3, TakeJobPlaced, EnqueuePlaced, RecoverJobPlaced, RestartPlaced
<1>4. CASE RecoveryDone \/ ExitWhenSafe \/ RequestShutdown
  BY <1>4, QuietPlaced DEF RecoveryDone, ExitWhenSafe, RequestShutdown, history
<1>5. CASE PlayerExecute \/ DropOrphan \/ (Environment /\ ~(Crash \/ RequestShutdown))
  <2>1. UNCHANGED <<jobs, thr, queue, todo, applies, host>>
    BY <1>5 DEF PlayerExecute, DropOrphan, Environment, ApprovePlan, EditSource, EditTask,
       CompileFinish, ExternalTransition, LinkUp, LinkDown, control, history
  <2>. QED
    BY <2>1, QuietPlaced
<1>6. CASE UNCHANGED vars
  BY <1>6, QuietPlaced DEF vars
<1>. QED
  BY <1>1, <1>2, <1>3, <1>4, <1>5, <1>6 DEF Next, Recover, Environment

-----------------------------------------------------------------------------
(* The rest of the invariant: outcomes, operations, plans and requests.    *)

\* A step of thread t from pc to next that keeps the rest of the thread.
LEMMA GoneTo ==
  ASSUME TypeOK, NEW t \in Threads, NEW next, Goto(t, next)
  PROVE  /\ thr'[t].pc = next /\ thr'[t].job = thr[t].job
         /\ thr'[t].step = thr[t].step /\ thr'[t].out = thr[t].out
<1>1. thr[t] \in ThreadType
  BY DEF TypeOK
<1>. QED
  BY <1>1 DEF TypeOK, Goto, ThreadType

\* What a thread finds when it binds or applies, and when it records.
LEMMA NextStep ==
  ASSUME Inv, NEW t \in Threads, RunJob(t) \/ RecoverApply(t) \/ RecoverPrepare(t)
  PROVE  LET next == thr'[t].pc IN
           /\ next = "bind" => CreatePlan(t)
           /\ next = "preflight" => thr[t].pc = "bind"
           /\ next = "await" => thr[t].pc = "send" /\ thr'[t].step = thr[t].step
           /\ next = "send" => \/ thr[t].pc = "apply" /\ thr'[t].step = 1
                               \/ /\ thr[t].pc = "await" /\ ~LastStep(t)
                                  /\ thr'[t].step = thr[t].step + 1
           /\ next \in {"after", "facts", "close"} => thr'[t].out.status # "none"
<1> DEFINE Plain == {"envelope", "submit", "submitted", "wait", "finalize", "create",
                     "apply", "reconcile", "idle"}
<1>0. TypeOK /\ OutcomeKnown /\ thr[t] \in ThreadType
  BY DEF Inv, TypeInv, TypeOK, SafetyInv
<1>1. CASE thr'[t].pc \in Plain
  BY <1>1
<1>2. CASE \/ PreparePlan(t) \/ SaveEnvelope(t) \/ SubmitCompile(t) \/ SaveTicket(t)
           \/ CompileResult(t) \/ DeferEditorTimeout(t) \/ FinalizePlan(t) \/ StartApply(t)
           \/ LoseReply(t) \/ CloseApply(t) \/ RecoverApply(t) \/ RecoverPrepare(t)
  <2>1. (\E next \in Plain : Goto(t, next)) \/ thr' = [thr EXCEPT ![t] = Idle]
    BY <1>2 DEF PreparePlan, SaveEnvelope, SubmitCompile, SaveTicket, CompileResult,
       DeferEditorTimeout, FinalizePlan, StartApply, LoseReply, CloseApply, RecoverApply,
       RecoverPrepare, Save, Leave
  <2>2. CASE thr' = [thr EXCEPT ![t] = Idle]
    <3>1. thr'[t].pc = "idle"
      BY <1>0, <2>2 DEF TypeOK, Idle
    <3>. QED
      BY <1>1, <3>1
  <2>. QED
    BY <1>0, <1>1, <2>1, <2>2, GoneTo
<1>3. CASE CreatePlan(t) \/ BindPlan(t)
  <2>1. CASE thr' = [thr EXCEPT ![t] = Idle]
    <3>1. thr'[t].pc = "idle"
      BY <1>0, <2>1 DEF TypeOK, Idle
    <3>. QED
      BY <1>1, <3>1
  <2>2. \/ thr' = [thr EXCEPT ![t] = Idle]
        \/ Goto(t, "bind") /\ CreatePlan(t)
        \/ Goto(t, "preflight") /\ thr[t].pc = "bind"
    BY <1>3 DEF CreatePlan, BindPlan, Leave, Save, At
  <2>. QED
    BY <1>0, <2>1, <2>2, GoneTo
<1>4. CASE ApplyPrelude(t)
  <2>1. CASE Save(t, Raised(thr[t].job), "reconcile")
    BY <1>0, <1>1, <2>1, GoneTo DEF Save
  <2>2. CASE thr' = [thr EXCEPT ![t].pc = "send", ![t].step = 1]
    BY <1>0, <1>4, <2>2 DEF TypeOK, ThreadType, ApplyPrelude, At
  <2>. QED
    BY <1>4, <2>1, <2>2 DEF ApplyPrelude
<1>5. CASE SendStage(t)
  <2>1. thr[t].pc = "send" /\ (Goto(t, "await") \/ Goto(t, "reconcile"))
    BY <1>5 DEF SendStage, Save, At
  <2>. QED
    BY <1>0, <1>1, <2>1, GoneTo
<1>6. CASE ReceiveReply(t)
  <2>1. CASE Goto(t, "reconcile")
    BY <1>0, <1>1, <2>1, GoneTo
  <2>2. CASE thr' = [thr EXCEPT ![t].pc = IF LastStep(t) THEN "verify" ELSE "send",
                                ![t].step = IF LastStep(t) THEN @ ELSE @ + 1]
    <3>1. thr[t].pc = "await"
      BY <1>6 DEF ReceiveReply, Awaited, At
    <3>2. CASE LastStep(t)
      <4>1. thr'[t].pc = "verify"
        BY <1>0, <2>2, <3>2 DEF TypeOK, ThreadType
      <4>. QED
        BY <4>1
    <3>3. CASE ~LastStep(t)
      <4>1. thr'[t].pc = "send" /\ thr'[t].step = thr[t].step + 1
        BY <1>0, <2>2, <3>3 DEF TypeOK, ThreadType
      <4>. QED
        BY <3>1, <3>3, <4>1
    <3>. QED
      BY <3>2, <3>3
  <2>. QED
    BY <1>6, <2>1, <2>2 DEF ReceiveReply, Save
<1>7. CASE VerifyApplied(t)
  <2>1. CASE Goto(t, "reconcile")
    BY <1>0, <1>1, <2>1, GoneTo
  <2>2. CASE thr' = [thr EXCEPT ![t].pc = "after",
                   ![t].out = [status |-> "completed", changed |-> "yes",
                               matched |-> "yes"]]
    BY <1>0, <2>2 DEF TypeOK, ThreadType
  <2>. QED
    BY <1>7, <2>1, <2>2 DEF VerifyApplied, Save
<1>8. CASE ReconcileApply(t)
  <2>1. ReconcileOutcome(thr[t].job).status # "none"
    BY DEF ReconcileOutcome, FailedOutcome, Unknown
  <2>2. /\ thr'[t].pc = "after"
        /\ thr'[t].out = ReconcileOutcome(thr[t].job)
    BY <1>0, <1>8 DEF ReconcileApply, TypeOK, ThreadType
  <2>. QED
    BY <2>1, <2>2
<1>9. CASE ObserveAfter(t) \/ RecordFacts(t)
  <2>1. thr[t].out.status # "none"
    BY <1>0, <1>9 DEF ObserveAfter, RecordFacts, At, OutcomeKnown
  <2>2. Goto(t, "facts") \/ Goto(t, "close") \/ thr' = [thr EXCEPT ![t] = Idle]
    BY <1>9 DEF ObserveAfter, RecordFacts, Leave
  <2>3. CASE thr' = [thr EXCEPT ![t] = Idle]
    <3>1. thr'[t].pc = "idle"
      BY <1>0, <2>3 DEF TypeOK, Idle
    <3>. QED
      BY <1>1, <3>1
  <2>. QED
    BY <1>0, <2>1, <2>2, <2>3, GoneTo
<1>. QED
  BY <1>2, <1>3, <1>4, <1>5, <1>6, <1>7, <1>8, <1>9 DEF RunJob

\* A plan, once created, keeps its route.
LEMMA PlansGrow ==
  ASSUME Inv, [Next]_vars, NEW p \in Jobs
  PROVE  /\ HasPlan(p) => plans'[p].route = plans[p].route
         /\ plans'[p] # NoPlan => HasPlan(p)'
<1>0. TypeOK /\ PlansExist /\ plans \in [Jobs -> PlanType]
  BY DEF Inv, TypeInv, TypeOK
<1>1. CASE UNCHANGED plans
  BY <1>0, <1>1 DEF PlansExist, HasPlan
<1>2. ASSUME NEW t \in Threads, CreatePlan(t)
      PROVE  /\ HasPlan(p) => plans'[p].route = plans[p].route
             /\ plans'[p] # NoPlan => HasPlan(p)'
  <2>1. CASE plans[thr[t].job] = NoPlan
    <3>1. PICK route \in Routes, approval \in {"free", "required"} :
            plans' = [plans EXCEPT ![thr[t].job] =
                        [binding |-> jobs[thr[t].job].binding, route |-> route,
                         approval |-> approval]]
      BY <1>2, <2>1 DEF CreatePlan
    <3>2. ~HasPlan(thr[t].job)
      BY <2>1, BoundsAssumption DEF HasPlan, NoPlan
    <3>3. CASE p = thr[t].job
      BY <1>0, <3>1, <3>2, <3>3 DEF HasPlan
    <3>4. CASE p # thr[t].job
      <4>1. plans'[p] = plans[p]
        BY <1>0, <3>1, <3>4
      <4>. QED
        BY <1>0, <4>1 DEF PlansExist, HasPlan
    <3>. QED
      BY <3>3, <3>4
  <2>. QED
    BY <1>1, <1>2, <2>1 DEF CreatePlan
<1>3. ASSUME NEW i \in Jobs, ApprovePlan(i)
      PROVE  /\ HasPlan(p) => plans'[p].route = plans[p].route
             /\ plans'[p] # NoPlan => HasPlan(p)'
  <2>1. plans[i] # NoPlan
    BY <1>3 DEF ApprovePlan, NoPlan
  <2>2. plans[i] \in PlanType /\ plans' = [plans EXCEPT ![i].approval = "approved"]
    BY <1>0, <1>3 DEF ApprovePlan
  <2>3. plans'[p].route = plans[p].route
    BY <1>0, <2>2 DEF PlanType
  <2>4. p # i => plans'[p] = plans[p]
    BY <1>0, <2>2
  <2>5. plans'[p] # NoPlan => plans[p] # NoPlan
    BY <2>1, <2>4
  <2>. QED
    BY <1>0, <2>3, <2>5 DEF PlansExist, HasPlan
<1>. QED
  BY <1>1, <1>2, <1>3 DEF Next, vars, RunJob, Recover, Environment, Submit, EnqueuePrepare,
     EnqueueIterate, Enqueue, TakeJob, Start, RecoverJob, RecoveryDone, ExitWhenSafe,
     PlayerExecute, DropOrphan, RequestShutdown, EditSource, EditTask, CompileFinish,
     ExternalTransition, LinkUp, LinkDown, Crash, PreparePlan, SaveEnvelope, SubmitCompile,
     SaveTicket, CompileResult, DeferEditorTimeout, FinalizePlan, BindPlan, StartApply,
     ApplyPrelude, SendStage, ReceiveReply, LoseReply, VerifyApplied, ReconcileApply,
     ObserveAfter, RecordFacts, CloseApply, RecoverApply, RecoverPrepare

\* An entered row keeps its plan or is bound to the one it implies; a row that
\* is entered names an existing plan or none.
LEMMA RowsBound ==
  ASSUME Inv, [Next]_vars, NEW i \in Jobs
  PROVE  \/ Same(jobs'[i], i)
         \/ jobs[i].op = "none" /\ (jobs'[i].plan # 0 => HasPlan(jobs'[i].plan))
<1>0. TypeOK /\ PlansExist
  BY DEF Inv, TypeInv
<1>1. CASE UNCHANGED jobs
  BY <1>1 DEF Same
<1>2. ASSUME NEW t \in Threads, Advance(t)
      PROVE  Same(jobs'[i], i)
  <2>1. CASE i = thr[t].job
    BY <1>2, <2>1 DEF Advance
  <2>2. CASE i # thr[t].job
    BY <1>2, <2>2 DEF Advance, Same
  <2>. QED
    BY <2>1, <2>2
<1>3. CASE Submit
  <2>1. PICK j \in Jobs, op \in {"prepare", "iterate"}, p \in 0..NJobs :
          Enqueue(j, op, p) /\ (p # 0 => plans[p] # NoPlan)
    BY <1>3, BoundsAssumption DEF Submit, EnqueuePrepare, EnqueueIterate
  <2>2. /\ jobs[j].op = "none" /\ jobs' = [jobs EXCEPT ![j] = NewRow(op, p)]
        /\ NewRow(op, p).plan = p
    BY <2>1 DEF Enqueue, NextJob, NewRow, NoRow
  <2>3. p # 0 => HasPlan(p)
    <3>1. p # 0 => p \in Jobs
      BY BoundsAssumption DEF Jobs
    <3>. QED
      BY <1>0, <2>1, <3>1 DEF PlansExist
  <2>. QED
    BY <1>0, <2>2, <2>3 DEF TypeOK, Same
<1>4. CASE RecoverJob
  <2>1. UNCHANGED jobs \/ \E j \in todo : jobs' = [jobs EXCEPT ![j] = UnknownRow(j)]
    BY <1>4 DEF RecoverJob
  <2>2. ASSUME NEW j \in todo, jobs' = [jobs EXCEPT ![j] = UnknownRow(j)]
        PROVE  Same(jobs'[i], i)
    <3>1. j \in Jobs
      BY <1>0 DEF TypeOK
    <3>2. CASE i = j
      BY <1>0, <2>2, <3>1, <3>2, RowFields DEF TypeOK
    <3>3. CASE i # j
      BY <1>0, <2>2, <3>3 DEF TypeOK, Same
    <3>. QED
      BY <3>2, <3>3
  <2>. QED
    BY <1>1, <2>1, <2>2
<1>5. CASE \/ \E t \in Threads : RunJob(t)
           \/ RecoverApply("main") \/ RecoverPrepare("main")
  BY <1>2, <1>5, ThreadsAdvance DEF Threads
<1>. QED
  BY <1>1, <1>3, <1>4, <1>5 DEF Next, vars, Recover, Environment, TakeJob, Start, Crash,
     RecoveryDone, ExitWhenSafe, PlayerExecute, DropOrphan, RequestShutdown, ApprovePlan,
     EditSource, EditTask, CompileFinish, ExternalTransition, LinkUp, LinkDown

\* A thread either keeps still, advances its job, is idle, or is given a job.
LEMMA ThreadCases ==
  ASSUME Inv, [Next]_vars, NEW t \in Threads
  PROVE  \/ thr'[t] = thr[t]
         \/ (RunJob(t) \/ RecoverApply(t) \/ RecoverPrepare(t)) /\ Advance(t)
         \/ thr'[t].pc = "idle"
         \/ /\ thr'[t].job \in Jobs /\ UNCHANGED jobs
            /\ \/ thr'[t].pc \in {"prepare", "reconcile_job", "prepare_job"}
               \/ thr'[t].pc = "bind" /\ jobs[thr'[t].job].plan # 0
<1>0. TypeOK
  BY DEF Inv, TypeInv
<1>1. CASE UNCHANGED thr
  BY <1>1
<1>2. CASE \/ \E u \in Threads : RunJob(u)
           \/ RecoverApply("main") \/ RecoverPrepare("main")
  <2>1. PICK u \in Threads : RunJob(u) \/ RecoverApply(u) \/ RecoverPrepare(u)
    BY <1>2 DEF Threads
  <2>2. Advance(u)
    BY <2>1, ThreadsAdvance
  <2>. QED
    BY <2>1, <2>2 DEF Advance
<1>3. CASE TakeJob
  <2>1. PICK j \in Jobs, pc \in {"prepare", "bind"} :
          /\ thr' = [thr EXCEPT !["worker"] = [Idle EXCEPT !.job = j, !.pc = pc]]
          /\ pc = "bind" => jobs[j].plan # 0
    <3>1. queue \in Seq(Jobs) /\ queue # <<>>
      BY <1>0, <1>3 DEF TypeOK, TakeJob
    <3>2. Head(queue) \in Jobs
      BY <3>1
    <3>. QED
      BY <1>3, <3>2 DEF TakeJob
  <2>2. CASE t = "worker"
    BY <1>0, <1>3, <2>1, <2>2 DEF TypeOK, Idle, TakeJob
  <2>3. CASE t # "worker"
    BY <1>0, <2>1, <2>3 DEF TypeOK
  <2>. QED
    BY <2>2, <2>3
<1>4. CASE RecoverJob
  <2>1. \/ UNCHANGED thr
        \/ /\ UNCHANGED jobs
           /\ \E j \in todo, kind \in {"reconcile_job", "prepare_job"} :
                thr' = [thr EXCEPT !["main"] = [Idle EXCEPT !.pc = kind, !.job = j]]
    BY <1>4 DEF RecoverJob
  <2>2. ASSUME NEW j \in todo, NEW kind \in {"reconcile_job", "prepare_job"}, UNCHANGED jobs,
               thr' = [thr EXCEPT !["main"] = [Idle EXCEPT !.pc = kind, !.job = j]]
        PROVE  \/ thr'[t] = thr[t]
               \/ thr'[t].job \in Jobs /\ thr'[t].pc = kind
    BY <1>0, <2>2 DEF TypeOK, Idle
  <2>. QED
    BY <1>1, <2>1, <2>2
<1>5. CASE Crash
  BY <1>5 DEF Crash, Idle
<1>. QED
  BY <1>1, <1>2, <1>3, <1>4, <1>5 DEF Next, vars, Recover, Environment, Submit, EnqueuePrepare,
     EnqueueIterate, Enqueue, Start, RecoveryDone, ExitWhenSafe, PlayerExecute, DropOrphan,
     RequestShutdown, ApprovePlan, EditSource, EditTask, CompileFinish, ExternalTransition,
     LinkUp, LinkDown

LEMMA OutcomeKept ==
  ASSUME Inv, [Next]_vars
  PROVE  OutcomeKnown'
<1>. SUFFICES ASSUME NEW t \in Threads, thr'[t].pc \in {"after", "facts", "close"}
              PROVE  thr'[t].out.status # "none"
  BY DEF OutcomeKnown
<1>. QED
  BY ThreadCases, NextStep DEF Inv, SafetyInv, OutcomeKnown

\* The plan a running job is bound to, and its route.
LEMMA PlanKept ==
  ASSUME Inv, [Next]_vars, NEW i \in Jobs, Same(jobs'[i], i)
  PROVE  /\ PlanOf(i)' = PlanOf(i) /\ PlanOf(i) \in Jobs
         /\ HasPlan(PlanOf(i)) => /\ HasPlan(PlanOf(i))'
                                  /\ plans'[PlanOf(i)].route = plans[PlanOf(i)].route
<1>1. jobs[i].plan \in 0..NJobs
  BY DEF Inv, TypeInv, TypeOK, RowType
<1>2. PlanOf(i) \in Jobs /\ i # 0
  BY <1>1, BoundsAssumption DEF PlanOf, Jobs
<1>3. PlanOf(i)' = PlanOf(i)
  BY <1>2 DEF PlanOf, Same
<1>4. PICK p \in Jobs : p = PlanOf(i) /\ p = PlanOf(i)'
  BY <1>2, <1>3
<1>5. HasPlan(p) => HasPlan(p)' /\ plans'[p].route = plans[p].route
  BY PlansGrow DEF HasPlan
<1>. QED
  BY <1>4, <1>5 DEF HasPlan

LEMMA PlansKept ==
  ASSUME Inv, [Next]_vars
  PROVE  PlansExist'
<1>0. PlansExist /\ TypeOK
  BY DEF Inv, TypeInv
<1>1. ASSUME NEW p \in Jobs, HasPlan(p) PROVE HasPlan(p)'
  BY <1>1, PlansGrow DEF HasPlan
<1>2. ASSUME NEW i \in Jobs, jobs'[i].plan # 0
      PROVE  HasPlan(jobs[i].plan)'
  <2>1. jobs[i].plan \in 0..NJobs /\ PlanOf(i) \in Jobs
    <3>1. jobs[i].plan \in 0..NJobs
      BY <1>0 DEF TypeOK, RowType
    <3>. QED
      BY <3>1, BoundsAssumption DEF PlanOf, Jobs
  <2>2. TypeOK'
    BY NextTyped DEF Inv
  <2>3. jobs'[i].plan \in Jobs
    <3>1. jobs'[i].plan \in 0..NJobs
      BY <2>2 DEF TypeOK, RowType
    <3>. QED
      BY <1>2, <3>1, BoundsAssumption DEF Jobs
  <2>4. HasPlan(jobs'[i].plan)
    BY <1>0, <1>2, <2>1, RowsBound DEF PlansExist, Same
  <2>5. PICK p \in Jobs : p = jobs'[i].plan
    BY <2>3
  <2>. QED
    BY <1>1, <2>4, <2>5
<1>. QED
  BY <1>2, PlansGrow DEF PlansExist

LEMMA OperationsKept ==
  ASSUME Inv, [Next]_vars
  PROVE  OperationsExist'
<1>0. TypeOK /\ PlansExist /\ OperationsExist /\ Owned /\ Entered
  BY DEF Inv, TypeInv, SafetyInv
<1>1. ASSUME NEW t \in Threads
      PROVE  /\ thr'[t].pc # "idle" => thr'[t].job \in Jobs
             /\ thr'[t].pc \in BoundSteps => HasPlan(PlanOf(thr[t].job))'
             /\ thr'[t].pc \in {"send", "await"} =>
                  thr'[t].step \in 1..Len(Operations(plans[PlanOf(thr[t].job)].route))'
  <2>1. CASE thr'[t].pc = "idle"
    BY <2>1 DEF BoundSteps, ApplySteps
  \* the thread keeps still, and so does the plan of its job
  <2>2. CASE thr'[t] = thr[t] /\ thr[t].pc # "idle"
    <3>1. PICK i \in Jobs : i = thr[t].job /\ i = thr'[t].job
      BY <1>0, <2>2 DEF OperationsExist
    <3>2. jobs[i].op # "none"
      BY <1>0, <2>2, <3>1 DEF Owned, Entered, Active, NoRow
    <3>3. Same(jobs'[i], i)
      BY <3>2, RowsBound
    <3>4. PICK p \in Jobs : p = PlanOf(i) /\ p = PlanOf(i)'
      BY <3>3, PlanKept
    <3>5. HasPlan(p) => HasPlan(p)' /\ plans'[p].route = plans[p].route
      BY <3>3, <3>4, PlanKept
    <3>6. /\ thr[t].pc \in BoundSteps => HasPlan(p)
          /\ thr[t].pc \in {"send", "await"} =>
               /\ thr[t].pc \in BoundSteps
               /\ thr[t].step \in 1..Len(Operations(plans[p].route))
      BY <1>0, <3>1, <3>4 DEF OperationsExist, BoundSteps, ApplySteps
    <3>7. thr[t].pc \in {"send", "await"} =>
            thr[t].step \in 1..Len(Operations(plans'[p].route))
      BY <3>5, <3>6
    <3>. QED
      BY <2>2, <3>1, <3>4, <3>5, <3>6, <3>7
  \* the thread is given a job
  <2>3. CASE /\ thr'[t].job \in Jobs /\ UNCHANGED jobs
             /\ \/ thr'[t].pc \in {"prepare", "reconcile_job", "prepare_job"}
                \/ thr'[t].pc = "bind" /\ jobs[thr'[t].job].plan # 0
    <3>1. PICK i \in Jobs : i = thr'[t].job
      BY <2>3
    <3>2. thr'[t].pc = "bind" => HasPlan(PlanOf(i))'
      <4>1. Same(jobs'[i], i)
        BY <2>3 DEF Same
      <4>2. jobs[i].plan # 0 => HasPlan(PlanOf(i))
        BY <1>0 DEF PlansExist, PlanOf
      <4>3. PICK p \in Jobs : p = PlanOf(i) /\ p = PlanOf(i)'
        BY <4>1, PlanKept
      <4>. QED
        BY <2>3, <3>1, <4>1, <4>2, <4>3, PlanKept
    <3>. QED
      BY <2>3, <3>1, <3>2 DEF BoundSteps, ApplySteps
  \* the thread advances its job
  <2>4. CASE /\ RunJob(t) \/ RecoverApply(t) \/ RecoverPrepare(t)
             /\ Advance(t) /\ thr'[t].pc # "idle"
    <3>1. Continues(t) /\ Same(jobs'[thr[t].job], thr[t].job)
      BY <2>4 DEF Advance, Releases
    <3>2. PICK i \in Jobs : i = thr[t].job /\ i = thr'[t].job
      BY <2>4, <3>1 DEF Advance, Continues
    <3>3. PICK p \in Jobs : p = PlanOf(i) /\ p = PlanOf(i)'
      BY <3>1, <3>2, PlanKept
    <3>4. HasPlan(p) => HasPlan(p)' /\ plans'[p].route = plans[p].route
      BY <3>1, <3>2, <3>3, PlanKept
    <3>5. thr[t].pc \in BoundSteps => HasPlan(p)
      BY <1>0, <3>2, <3>3 DEF OperationsExist
    <3>6. thr'[t].pc \in BoundSteps => HasPlan(p)'
      <4>1. CASE thr'[t].pc = "bind"
        <5>1. CreatePlan(t)
          BY <2>4, <4>1, NextStep
        <5>2. plans'[i] # NoPlan
          <6>1. CASE plans[i] # NoPlan
            BY <3>2, <5>1, <6>1 DEF CreatePlan
          <6>2. CASE plans[i] = NoPlan
            <7>1. PICK route \in Routes, approval \in {"free", "required"} :
                    plans' = [plans EXCEPT ![i] =
                                [binding |-> jobs[i].binding, route |-> route,
                                 approval |-> approval]]
              BY <3>2, <5>1, <6>2 DEF CreatePlan
            <7>2. plans'[i].route = route
              BY <1>0, <7>1 DEF TypeOK
            <7>. QED
              BY <7>2, BoundsAssumption DEF NoPlan
          <6>. QED
            BY <6>1, <6>2
        <5>3. HasPlan(i)'
          BY <5>2, PlansGrow
        <5>4. CASE jobs[i].plan = 0
          BY <3>3, <5>3, <5>4 DEF PlanOf
        <5>5. CASE jobs[i].plan # 0
          BY <1>0, <3>3, <3>4, <5>5 DEF PlanOf, PlansExist
        <5>. QED
          BY <5>4, <5>5
      <4>2. CASE thr'[t].pc = "preflight"
        BY <2>4, <3>4, <3>5, <4>2, NextStep DEF BoundSteps
      <4>3. CASE thr'[t].pc \in ApplySteps
        BY <3>1, <3>4, <3>5, <4>3 DEF BoundSteps, Continues, PrepareSteps, ApplySteps
      <4>. QED
        BY <4>1, <4>2, <4>3 DEF BoundSteps
    <3>7. thr'[t].pc \in {"send", "await"} =>
            thr'[t].step \in 1..Len(Operations(plans'[p].route))
      <4>1. HasPlan(p) => Len(Operations(plans[p].route)) \in 1..5
        BY OperationsTyped DEF HasPlan
      <4>2. CASE thr'[t].pc = "await"
        <5>1. thr[t].pc = "send" /\ thr'[t].step = thr[t].step
          BY <2>4, <4>2, NextStep
        <5>2. thr[t].step \in 1..Len(Operations(plans[p].route))
          BY <1>0, <3>2, <3>3, <5>1 DEF OperationsExist
        <5>. QED
          BY <3>4, <3>5, <5>1, <5>2 DEF BoundSteps, ApplySteps
      <4>3. CASE thr'[t].pc = "send" /\ thr[t].pc = "apply" /\ thr'[t].step = 1
        <5>1. HasPlan(p)
          BY <3>5, <4>3 DEF BoundSteps, ApplySteps
        <5>2. 1 \in 1..Len(Operations(plans[p].route))
          <6>1. \A n \in 1..5 : 1 \in 1..n
            OBVIOUS
          <6>. QED
            BY <4>1, <5>1, <6>1
        <5>. QED
          BY <3>4, <4>3, <5>1, <5>2
      <4>4. CASE /\ thr'[t].pc = "send" /\ thr[t].pc = "await" /\ ~LastStep(t)
                 /\ thr'[t].step = thr[t].step + 1
        <5>1. HasPlan(p)
          BY <3>5, <4>4 DEF BoundSteps, ApplySteps
        <5>2. /\ thr[t].step \in 1..Len(Operations(plans[p].route))
              /\ thr[t].step # Len(Operations(plans[p].route))
          BY <1>0, <3>2, <3>3, <4>4 DEF OperationsExist, LastStep
        <5>3. thr[t].step + 1 \in 1..Len(Operations(plans[p].route))
          BY <4>1, <5>1, <5>2
        <5>. QED
          BY <3>4, <4>4, <5>1, <5>3
      <4>. QED
        BY <2>4, <4>2, <4>3, <4>4, NextStep
    <3>. QED
      BY <3>2, <3>3, <3>6, <3>7
  <2>. QED
    BY <2>1, <2>2, <2>3, <2>4, ThreadCases
<1>. QED
  BY <1>1 DEF OperationsExist

\* The mailbox is written by one publication and by the Editor's answer.
LEMMA PublishedKept ==
  ASSUME Inv, [Next]_vars
  PROVE  Published'
<1>0. TypeOK /\ Published
  BY DEF Inv, TypeInv, SafetyInv
<1>1. CASE UNCHANGED <<editor, submits>>
  BY <1>0, <1>1 DEF Published
<1>2. ASSUME NEW j \in Jobs, NEW allowed \in BOOLEAN, EditorEnqueue(j, allowed)
      PROVE  Published'
  BY <1>0, <1>2 DEF TypeOK, Published, EditorEnqueue, MayPublish
<1>3. ASSUME NEW t \in Threads, SubmitCompile(t) \/ RecoverPrepare(t) PROVE Published'
  <2>1. thr[t].job \in Jobs
    BY <1>3, OwnedJob DEF Inv, SubmitCompile, RecoverPrepare
  <2>. QED
    BY <1>1, <1>2, <1>3, <2>1 DEF SubmitCompile, RecoverPrepare
<1>4. ASSUME NEW j \in Jobs, CompileFinish(j) PROVE Published'
  <2>1. UNCHANGED submits /\ editor[j] = "requested"
        /\ \E e \in {"done", "failed"} : editor' = [editor EXCEPT ![j] = e]
    BY <1>4 DEF CompileFinish, history
  <2>. QED
    BY <1>0, <2>1 DEF TypeOK, Published
<1>. QED
  BY <1>1, <1>3, <1>4 DEF Next, vars, RunJob, Recover, Environment, Submit, EnqueuePrepare,
     EnqueueIterate, Enqueue, TakeJob, Start, RecoverJob, RecoveryDone, ExitWhenSafe,
     PlayerExecute, DropOrphan, RequestShutdown, EditSource, EditTask, ApprovePlan,
     ExternalTransition, LinkUp, LinkDown, Crash, PreparePlan, SaveEnvelope, CreatePlan,
     SaveTicket, CompileResult, DeferEditorTimeout, FinalizePlan, BindPlan, StartApply,
     ApplyPrelude, SendStage, ReceiveReply, LoseReply, VerifyApplied, ReconcileApply,
     ObserveAfter, RecordFacts, CloseApply, RecoverApply, history, Threads

-----------------------------------------------------------------------------
(* Theorems.                                                               *)

LEMMA Inductive == Spec => []Inv
<1>1. Init => Inv
  BY InitSafe
<1>2. Inv /\ [Next]_vars => Inv'
  <2>. SUFFICES ASSUME Inv, [Next]_vars PROVE Inv'
    OBVIOUS
  <2>1. TypeInv'
    BY NextTyped, PlansKept, OperationsKept DEF TypeInv, Inv
  <2>2. SafetyInv'
    BY NextPlaced, OutcomeKept, PublishedKept DEF SafetyInv, Placed
  <2>. QED
    BY <2>1, <2>2 DEF Inv
<1>. QED
  BY <1>1, <1>2, PTL DEF Spec

\* Every variable keeps the shape the code gives it, whatever happens.
THEOREM TypeCorrect == Spec => []TypeOK
<1>1. Inv => TypeOK
  BY DEF Inv, TypeInv
<1>. QED
  BY <1>1, Inductive, PTL

\* However often the Host crashes and recovers, no job's plan is handed to
\* provider.apply twice: recover_pending reconciles an interrupted apply.
THEOREM AppliedAtMostOnce == Spec => []AtMostOnceApply
<1>1. Inv => AtMostOnceApply
  BY DEF Inv, SafetyInv, Applied, AtMostOnceApply
<1>. QED
  BY <1>1, Inductive, PTL

\* No lookup, retry or recovery publishes a second compile request for a job
\* (EditorJobTransport.enqueue).
THEOREM CompiledAtMostOnce == Spec => []AtMostOnceCompile
<1>1. Inv => AtMostOnceCompile
  BY DEF Inv, SafetyInv, Published, AtMostOnceCompile
<1>. QED
  BY <1>1, Inductive, PTL

LEMMA SettledKept ==
  ASSUME Inv, [Next]_vars, NEW j \in Jobs, Terminal(j)
  PROVE  jobs'[j] = jobs[j] /\ applies'[j] = applies[j]
<1>0. TypeOK /\ Owned /\ Entered
  BY DEF Inv, TypeInv, SafetyInv
<1>1. CASE UNCHANGED <<jobs, applies>>
  BY <1>1
<1>2. ASSUME NEW t \in Threads, Advance(t)
      PROVE  jobs'[j] = jobs[j] /\ applies'[j] = applies[j]
  <2>1. thr[t].job # j
    BY <1>0, <1>2 DEF Advance, Owned, Active, Terminal
  <2>. QED
    BY <1>2, <2>1 DEF Advance
<1>3. CASE Submit
  <2>1. PICK i \in Jobs : /\ jobs[i].op = "none" /\ UNCHANGED applies
                          /\ \E row : jobs' = [jobs EXCEPT ![i] = row]
    BY <1>3, BoundsAssumption
       DEF Submit, EnqueuePrepare, EnqueueIterate, Enqueue, NextJob, history
  <2>2. i # j
    <3>1. jobs[i] = NoRow
      BY <1>0, <2>1 DEF Entered
    <3>. QED
      BY <3>1 DEF NoRow, Terminal
  <2>. QED
    BY <1>0, <2>1, <2>2 DEF TypeOK
<1>4. CASE RecoverJob
  <2>1. /\ UNCHANGED applies
        /\ UNCHANGED jobs \/ \E i \in todo : jobs' = [jobs EXCEPT ![i] = UnknownRow(i)]
    BY <1>4 DEF RecoverJob, history
  <2>2. j \notin todo
    BY <1>0 DEF Owned, Active, Terminal
  <2>. QED
    BY <1>0, <2>1, <2>2 DEF TypeOK
<1>5. CASE \/ \E t \in Threads : RunJob(t)
           \/ RecoverApply("main") \/ RecoverPrepare("main")
  BY <1>2, <1>5, ThreadsAdvance DEF Threads
<1>. QED
  BY <1>1, <1>3, <1>4, <1>5 DEF Next, vars, Recover, Environment, TakeJob, Start, Crash,
     RecoveryDone, ExitWhenSafe, PlayerExecute, DropOrphan, RequestShutdown, ApprovePlan,
     EditSource, EditTask, CompileFinish, ExternalTransition, LinkUp, LinkDown, history

\* A settled row is final, whatever threads and recoveries follow.
THEOREM SettledIsFinal == Spec => TerminalSticky
<1>1. Inv /\ [Next]_vars => [\A j \in Jobs : Terminal(j) => UNCHANGED <<jobs[j], applies[j]>>]_vars
  BY SettledKept
<1>. QED
  BY <1>1, Inductive, PTL DEF Spec, TerminalSticky
=============================================================================
