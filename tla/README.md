# Relay LiveLoop: a TLA+ verification project

Relay LiveLoop is a local service (the *Host*) that lets a command line, an
HTTP client or an MCP client change a running Unity *Player*: it prepares an
update in the Unity *Editor*, applies it to the Player over one authenticated
loopback connection, and keeps a durable ledger of tasks, plans, jobs, facts
and evidence. Its promise is not that an update always succeeds. Its promise
is that what it *says* about an update is true: nothing is applied twice, an
unknown effect is never reported as "unchanged", and a fact is written only
with the evidence for it. That promise must survive Host crashes, lost
replies, a Player that moves on by itself and an Editor that answers late.
These modules state it, check it and, for the safety of every modelled
component, prove it.

## 1. Inventory

| Part | Source | State it keeps | Operations | What makes it correct |
| --- | --- | --- | --- | --- |
| Update coordinator | `host/coordinator.py` | job rows in the ledger, an executor with one thread | enqueue prepare / iterate, run, apply, reconcile, recover after a restart | an apply is dispatched at most once; the row tells the truth about the Player; recovery and executor never apply together |
| Runtime update provider | `host/runtime_update_provider.py`, `composite_update.py` | last authenticated revision and generations, "a mutation may have started", "session uncertain", the stage journal in the job row | observe, apply (hotfix, module reload, composite), reconcile | each stage sent once, journaled before and after; unknown attribution latches the session |
| Native compile provider | `host/native_compile_*.py`, `change_routing.py`, `compile_invocations.py`, `applied_compile_baseline.py` | binding, Editor request and result in the job row | prepare, reconcile_prepare, verify receipt | the binding is durable before the request; a candidate is used only for the input it was built from |
| Command service | `host/service.py`, `ledger.py` (commands) | one row per request id | execute, replay | one effect and one answer per request id |
| Host lifecycle | `host/lifecycle.py`, `api/http_server.py`, `relay_liveloop.py` | running / draining, cached shutdown decisions | request_shutdown, status, exit when safe | no new work while draining, exit only when the ledger has no active job |
| Ledger, artifacts, evidence | `host/ledger.py`, `artifacts.py`, `evidence.py`, `result_policy.py` | SQLite tables, immutable files | tasks, plans, approvals, facts, evidence | the facts are what the evidence says, and no verdict outlives the save that overtook it |
| Runtime transport | `host/runtime_transport.py`, `LoopbackRuntimePlayerTransport.cs`, `SessionAuthentication.cs`, `BoundedMessageFramer.cs` | one connection, sequence numbers, expected revision | accept, authenticate, invoke, retire, reconnect | a reply belongs to its request; a lost reply discards the connection |
| Player bridge | `RuntimeBridgeCore.cs`, `RuntimeRevisionClock.cs`, `MainThreadDispatcher.cs`, `FreshFrameCaptureService.cs`, `ObjectHandleRegistry.cs` and others | revision, tracked requests, the main-thread queue | schedule, execute, publish a transition | a request runs once, on the main thread, at the revision it names |
| Editor mailbox | `host/editor_transport.py`, `AtomicEditorJobStore.cs`, `RelayLiveLoopEditorWorker.cs`, `NeutralEditorProviderHub.cs` | files: incoming, processing, results, submissions, attempts | enqueue, poll, claim, begin attempt, seal, publish | a job is published once, attempted once, and sealed once |
| Source save | `host/source_save.py`, `DurableSourceEdit.cs` | source job row, journal, the asset file | locate, edit, refresh, recover | an asset is written once and the receipt tells what is on disk |
| Player process provider | `host/player_process_provider.py`, `player_process_composition.py` | state file with its unresolved marker, registration of the process, the adapter's handles | start, attach, stop | one Player of a baseline at a time; a running one is never forgotten; no process is stopped that it did not start |
| Deployment scripts | `scripts/` | files on disk, process ids | bootstrap, update, portable package | pure I/O around the Host |
| Adapters | `api/`, `mcp/`, `clients/` | none | translate requests | the command service does the work |

How they interact: HTTP threads call the command service under one lock; it
inserts the command row, calls the coordinator or a provider, and completes
the row. The coordinator writes a job row and hands the job to its executor
thread. That thread calls the compile provider, which writes files the Editor
polls, and the runtime provider, which exchanges request and reply frames with
the Player. After a restart the main thread runs `recover_pending` before the
HTTP server answers.

What is hard: a crash between any two durable writes; a reply that never comes
for a request that may still be executed; the recovering main thread beside
the executor thread; a plan that became stale between its check and its use;
a drain that races with everything else. `PROJECT.json` lists these hazards at
their lines, with the property that covers each.

## 2. Modules

| Module | What it is | Composes with |
| --- | --- | --- |
| `UpdateCoordinator` | the coordinator, its two threads, the provider calls, and as much of the Editor and the Player as those calls can observe | |
| `ApplyOnce` | the abstract promise about one job and the Player | |
| `UpdateCoordinatorRefinement` | `UpdateCoordinator` with the mapping of its rows to `ApplyOnce` | `UpdateCoordinator`, `ApplyOnce` |
| `UpdateCoordinatorTyping`, `UpdateCoordinatorProofs` | theorems of `UpdateCoordinator`: typing, ownership of jobs, what happens once | `UpdateCoordinator` |
| `UpdateCoordinatorSafety` | its theorems about the Player, and the refinement of `ApplyOnce` | `UpdateCoordinatorProofs`, `UpdateCoordinatorRefinement` |
| `CommandService` | request ids, the execute lock, the lifecycle, the drain and the process | abstracts `UpdateCoordinator`'s jobs to queued, parked and settled |
| `CommandServiceProofs` | theorems of `CommandService` | `CommandService` |
| `EditorMailbox` | the files between Host and Editor: `enqueue` and the Editor's worker | |
| `DurableSourceEdit` | the transactional save of one asset, its rollback and its recovery | `EditorMailbox` |
| `SourceSave` | a source edit from its command to its row, both processes and their mishaps | `EditorMailbox`, `DurableSourceEdit` |
| `SourceSaveProofs` | theorems of `SourceSave` | `SourceSave` |
| `PlayerProcess`, `MCPlayerProcess` | starting, re-attaching and stopping the Player over the provider's files and the Windows adapter | |
| `PlayerProcessProofs` | theorems of `PlayerProcess` | `PlayerProcess` |
| `TaskFacts` | the facts of one task and their evidence, under saves, applies and verifications | gives `SourceSave`'s and `UpdateCoordinator`'s jobs one outcome each |
| `TaskFactsProofs` | theorems of `TaskFacts` | `TaskFacts` |
| `RuntimeBridge` | a request from the Host's transport to the Player's main thread and back, with what both remember of it | the detail of `UpdateCoordinator`'s frames and Player |
| `RuntimeBridgeProofs` | theorems of `RuntimeBridge` | `RuntimeBridge` |

### UpdateCoordinator

*State.* `jobs` are the durable rows of the jobs table (operation, plan,
state, stage, `runtimeChanged`, binding, the last journal entry), numbered in
the order of `created_at`; `plans` the plan rows with route, binding and
approval; `facts` the jobs whose `runtimeMatched` was recorded; `editor` the
mailbox of each job. `host`, `queue`, `todo` and `thr` are the process: its
life, the executor's queue, the rows the recovering thread has still to visit,
and where each of the two threads stands. `prov` is the runtime provider's
memory, `player` and `wire` are the Player and the one request in flight.
`submits`, `applies`, `executed`, `base`, `interrupted` and `used` are history:
no action reads them except to respect a bound.

*Steps.* A step of a thread runs up to and including its next durable write (a
committed transaction, a published file) or its next exchange with the Player,
since a crash can be told apart only there. `RunJob` follows
`_run_prepare_job` and `_run_iterate_job` through `_prepare_plan`, `_apply_plan`
and the provider's stages to the outcome; every early return and every
`CommandError` is a disjunct that ends in the row `_fail_job` writes. `Recover`
is one turn of the loop of `recover_pending` and runs the job on the main
thread with the same actions. `PlayerExecute`, `DropOrphan` and the loss of the
link are the other end of the wire; `Environment` edits sources and the task,
approves plans, answers compile requests, publishes foreign transitions and
crashes the Host.

*Abstraction.* A source tree, a task version, a revision and a generation are
integers; digests, manifests and artifacts are equal exactly when those are. A
provider call that only reads is part of the step that uses its answer.

### ApplyOnce and the refinement

`ApplyOnce` has four phases per job and no threads: absent, pending,
dispatched, settled. It may touch the Player only after dispatch, settles once,
and its verdict "no" excludes a touch before or after. A crash weakens the
promise for the jobs it finds dispatched (`lost`). The mapping reads the phase
from the durable row alone, so that it survives the crash of the process.

### CommandService

*State.* `commands` is the commands table, `jobs` the jobs table of the same
ledger, both durable. `host`, `mode`, `closed`, `executor` and `decisions` are
the process: serving, leaving after a finished drain, interrupted or stopped;
running or draining; the closed coordinator; the jobs the executor still works
on; the cached shutdown decisions. `handler` is one HTTP thread per client.

*Steps.* `Begin`, `Dispatch` and `Complete` are the three transactions of
`CommandService.execute` under the execute lock, `Replay` and `Refuse` its early
returns. `RequestShutdown` runs under the same lock; `LeaveWhenSafe` is the
polling thread, which does not take it. `CloseService` and `Exit` are the
`finally` block of `_serve`; `Gone` ends the daemon threads, which lose their
answers. `Start` is `_serve` with `recover_pending`.

*Abstraction.* A command is a kind: `submit` creates a job (prepare, iterate,
a source edit), `change` acts at once, `read` is allowed while draining. A job
is `queued` (in the executor or due to be resubmitted), `parked` (waiting for
the Editor, worked on by no thread) or `settled`.

### EditorMailbox, DurableSourceEdit, SourceSave

*State.* The directories of the mailbox are sets of job ids (`incoming`,
`processing`, `invalid`, the Host's submission tombstones `reserved`, the
attempt records `started` and attempt tombstones `prior`) and a table of
`results`. `worker` is the Editor's worker in memory, `call` the Host's one call
in progress. `disk` is the asset file, `journal` the save journals, `edit` the
running operation; `rows`, `changed` and `facts` are the ledger. `begun`,
`wrote` and `undone` are history.

*Steps.* A step ends with one test, rename or write of a file, because either
process may stop, and the other may act, between any two of them. The enqueue
is therefore seven actions (the two `exists` of `_find_existing_request` are
two of them), a claim, its attempt, its tombstone, the provider, the seal and
the three moves of `Publish` one each. `CheckTarget` to `Prove` are the journal
writes of `DurableSourceEdit.Begin`; `Throws` and `SavesBadly` are its catch
blocks. `Refresh` to `CompleteRow` follow `refresh_job`.

*Abstraction.* Request bytes are stored before they are sent, so that a file of
another digest does not occur and a job id is the whole request. A content of
the asset is a number, new with each write; hash and property comparisons are
equalities of that number. Two branches of `SweepIncoming` and one of `Resume`
defend against duplicates this Host never makes and do not fire.
`job.cancel` is accepted only in stage `source_queued`, which the row leaves
within the call that made it (or within recovery), so that it is left out.

### PlayerProcess

*State.* `file` is the state file (the record of the session's Player, the
start intents and the blocked baselines), `marker` its `.unresolved` file and
`reg` the registration of the started process; these three outlive the Host.
`volatile` is the provider's memory of a block it could not write, `owned` and
`pending` the adapter's Popen handles and started sessions, `auth` what the
runtime transport says of the Player. `running` and `starts` are the machine,
`op` the operation in progress. `faults`, `stales` and `crashes` count mishaps
against their bounds; `launched` is history.

*Steps.* The provider serves one operation at a time. A start is a chain:
`StartIntends` (the intent is durable), `Launch`, `Register`, `Record`, each
with its failure (`LaunchFails`, `RegisterFails`, `RecordFails`), which
terminates what was started and keeps the start unresolved. `StartBlocks`,
`StartReconciles` and `StartAdopts` are its other ends. A stop is two steps,
the termination and the record of it. The operations of the adapter follow
`locate`, `attach` and `stop` of `WindowsProcessAdapter`: what is found depends
on the registration, the authenticated session and the process that has the pid
now. A write of the state (`Writes`) replaces the file and unlinks the marker,
and may leave it behind; a failed one goes to the marker, and if that fails too,
only to memory. In the environment the Player connects, disconnects or exits,
somebody else starts a program, and the Host dies.

*Abstraction.* A process is its pid, start time and executable; the executable
is named by the baseline. There is one runtime session, as the composition has
it. Authorization, the resolver and the operations that only answer change
nothing and are left out.

### TaskFacts

*State.* `facts` are the fact columns of one task, `records` the evidence
records in the order of their transactions, each with the stamp it is read by
(`at`). `save`, `plan`, `apply` and `call` are the source edit that is pending,
the prepared plan, the iterate job and the verification or lookup in progress;
`done` the plans whose row says completed; `input` and `player` the source on
disk and what the Player runs; `clock` the wall clock; `mode` where the Host is
between a crash and serving.

*Steps.* Every recording is a chain: the answer is judged (`SaveChecked`,
`ApplyAnswered`, `Verifies`, `Locates`), `apply_task_facts` takes its stamp
(`SaveStamped`, `ApplyStamped`, `CallStamped`), and then its transaction
(`SaveRecorded`, `ApplyRecorded`, `CallRecorded`), the rows of a job coming last
(`SaveRow`, `ApplyRow`). A command of the service does all of it under the
execute lock, so that a verification excludes the refresh of a source edit
(`LockIsFree`, `MayRefresh`); the apply runs on the coordinator's thread beside
both. Its stamp and its transaction may therefore fall on either side of those of
a command: the order in which `list_task` reads the evidence (`ORDER BY
created_at, evidence_id`, the id being random) is not the order of the
transactions. After a `Crash` the provider looks at the source edit, then the
coordinator at the apply, then the Host serves (`relay_liveloop.py:274-277`).

*Abstraction.* A snapshot of the source is the number of writes that made it,
so that "newer" is "larger"; `seen` of a record is how many records there were
when its evidence was gathered. The clock does not run backwards and may stand
still between two stamps. What `bind_fresh_frame` and `validate` compare
(sessions, plans, frames, hashes of files) decides between `CallStamped` and
`CallRefused` and nothing else. How an edit or an apply comes to its outcome
is in the other modules.

### RuntimeBridge

*State.* On the Host `hostRev` is the revision it expects, `waiting` the request
whose reply `invoke` reads, `latched` the provider's uncertain session; `sent`
and `verdicts` are history. `link` says who believes in the connection, `wire` and
`back` are the request and the reply under way. In the Player `serving` is
`HandleRequestAsync`, `table` the tracked requests in their order, `queue` the
dispatcher's queue, `alive` whether it is not destroyed, `revision` and
`published` the revision clock; `tasks`, `results` and `runs` are the completion,
its result and the handler of each request, three things that end at different
moments.

*Steps.* `Invoke` takes `_command_lock` for one request; it ends in `GiveUp`,
`ReadError` or `ReadResponse`, which for a request of the update provider
includes what `_invoke` compares before it moves the expected revision. The
Player takes a frame when it has answered the last one (`Receive...`, one for each
way out of `ScheduleAuthenticated`), waits for the task, and answers
(`AnswerReady`, `AnswerTimesOut`). The main thread takes items in order
(`Expire`, `StartStale`, `Start`); a handler publishes at most what the clock lets
it (`Publish`), returns (`Return`) or is outrun by its deadline (`Overrun`);
`Destroy` is `OnDestroy`, which may come between the test of `_stopping` and the
enqueue (`ReceiveAdmitted`, `Admit`). Connections are dropped, closed and opened
again (`PlayerDrops`, `NoticeClose`, `Reconnect`), and the Host restarts.

*Abstraction.* Session, proof, sequence and hash of a frame are right; so is the
form of a result. The two halves of the handshake are one step: both compare the
revision. A revision is a number, a published one the next that is free, since
only its being new matters. Any id that was sent may be sent again, which the
bridge allows every caller (the provider makes a new one each time). A bridge has
an asynchronous handler or not from the beginning. The cancellation of a whole
transport, when the Player shuts down, is left out.

## 3. Runs

Every run sets `CHECK_DEADLOCK FALSE`: the counters that bound the environment
run out, a Host may be asked to exit, and nothing forces a client to send.

| Run | Bounds | What it shows |
| --- | --- | --- |
| `hotfix` | 2 jobs, hotfix, 2 crashes, 1 lost link, 1 foreign transition | at most one apply per job, one applier at a time, honest rows, the prepared runtime is the one mutated, one plan changes the Player once, settled rows stay, and the whole implements `ApplyOnce` |
| `routes` | 1 job, all routes, 1 edit, 1 task edit, 2 crashes, 1 transition, any replies lost, fair | typing, one compile publication, approval respected through recovery, completion means every operation ran, what touched the Player is never run again by a recovery, the job settles or is deferred |
| `commands` | 2 ids, 2 clients, 3 sends, 1 shutdown id, 2 stops, fair | one dispatch and one answer per id, nothing new in a draining Host, nothing left in a leaving one, a drain ends or only the Editor is awaited |
| `source_save` | 2 edits of one asset, any 2 mishaps | no edit begun twice, a recorded save was made and kept, a denied change left nothing, an answer is final |
| `source_settles` | 1 edit, any 4 mishaps, fair | the row of an edit settles |
| `player` | 2 baselines, 2 pids, 3 processes, 1 store fault, 2 markers left behind, 1 crash | one Player of a baseline, no running one forgotten, only launched processes terminated, a stopped one does not run |
| `facts` | 2 writes, 1 apply, 3 evidence transactions, 2 milliseconds, 1 crash, 1 acceptance fact | the record shown last gives the fact's value unless an apply and a command passed each other, a matched runtime runs the saved source unless a save overtook the apply, verdicts are younger than the save beside them, completed rows have evidence |
| `bridge` | 3 requests, table of 2, queue of 1, 3 revisions, 1 loss, fair | "unchanged" is true of every request not outrun, one change of a revision, replies belong to their requests, nothing starts on top of a change the Host was not told of, a full table frees itself |
| `restart`, `drain`, `source_retry`, `facts_saved` | small | disagreements of section 6 |

*Why the bounds are enough.* Two jobs are needed for anything about order
(one queued behind the other, one recovered while the other runs), and the
executor has one thread, so that a third only repeats the second. Two crashes
allow a crash during the recovery from a crash. One lost link (`hotfix`; in
`routes` a connection is lost only with the reply it was to carry) and one foreign
transition are enough to fall into each window of one apply; the theorems of
section 5 remove these bounds for the properties they state. Two request ids
over two connections contain both the repeat of an id and the collision of two
commands behind one lock; three sends let an id be sent again after its first
attempt died, beside a send of the other. A mishap is a reload of the Editor, a
Host crash, an expired request, a write of the asset by others, or an exception;
two of them contain a second failure in the handling of the first, and two edits
let one save be the change the other one meets. Liveness is checked with one
edit and four mishaps, because its cost doubles with the second edit. Two
baselines and two pids make a start of one baseline meet the Player of the other
and a pid change hands; the third process is the one that takes over a pid, or
the second Player a wrong provider would start. A store fault is an episode: the
write and its marker fail together. Two markers left behind are one more than
`NoForgottenPlayer` allows for, so that its condition is not idle, and the other
properties are checked with both. Two writes of the source put one before and one
after the check of an apply; three evidence transactions hold a save, an apply and
a verdict, and two milliseconds order any two of their stamps or make them equal.
One acceptance fact stands for the three, which no action tells apart, and one
apply is enough because a second starts only when the first has its row. Three
requests are a change, a second one beside its late handler, and a third that
finds the table of two full or the first id forgotten; one loss is a dropped
connection or a restart of the Host, beside the timeouts, which are not counted.
The two pids and the two baselines are interchangeable and taken as
symmetric. Jobs are numbered, so that no symmetry applies to them; request
ids and clients are model values.

Most of the runs split on routes because the stages of a composite apply
multiply the states of everything else; the properties that need two jobs do
not depend on the number of stages, and the one that does
(`CompletedMeansApplied`) is checked on all routes with one job.

## 4. Fairness

`UpdateCoordinator!FairSpec` asks weak fairness of the Host's own steps (the
executor thread, the recovering thread, the polling thread), of the restart of
a stopped Host, and of the transport's deadline for a request nobody waits for.
The operating system schedules the threads, every wait in them has a timeout
whose expiry is one of the outcomes of the step, and an operator restarts the
Host. Nothing is asked of the Player, the Editor, the user or the network:
`JobSettles` holds with a Player that never answers. It is checked with one job on
every route: a second one waits in the queue until the first has left it.
`AnsweringSpec` adds an Editor that answers, which makes the counterexample of
`drain` stronger.

`CommandService!FairSpec` asks weak fairness of the executor, of the polling
thread and of a thread inside the lock. `FinishJob` ends in "settled" or in
"parked", which is `JobSettles` of the coordinator in this module's words.

`SourceSave!FairSpec` asks weak fairness of the Host's call in progress and of
the Editor's worker (`Tick` is called on every update of an open Editor; a
closed one is a reload that takes longer), and strong fairness of `Refresh`:
nothing in the Host looks at a source job by itself, so that its client has to
ask `job.status` again and again, and its calls share one lock with others.

`RuntimeBridge!FairSpec` asks weak fairness of the dequeue (Unity calls `Update`
in every frame while the dispatcher lives), of the deadline of an asynchronous
handler, and of the return of a synchronous one, which holds the main thread and
with it every frame. An asynchronous handler may never return, and nothing is
asked of the network or the Host.

## 5. What is proved

All theorems are about every value of the constants: any number of jobs,
requests, clients, baselines and processes, and no bound on crashes, losses,
edits, sends, failed writes or evidence records.

*UpdateCoordinator, each job.* `TypeCorrect`, `AppliedAtMostOnce`,
`CompiledAtMostOnce` and `SettledIsFinal` (`TypeOK`, `AtMostOnceApply`,
`AtMostOnceCompile`, `TerminalSticky`). None of the last three is inductive. "Not
applied twice" needs to know that an unapplied row is not in a runtime stage when
a thread reaches the apply, that stages of a row agree with the step of the thread
that runs it, and that no other thread runs the same job. The invariant is therefore
one of *ownership* (`Owned`): an active job is in at most one place, in the
queue, on the recovery list, or with one thread. From it follow the
relations between stage and history (`Applied`, `Published`) and that a thread
is never late: what it rewrites is still active. `UpdateCoordinatorTyping`
proves typing, with the extra fact that a thread at a runtime step has a plan
whose operations exist; `UpdateCoordinatorProofs` the rest, one step per action.

*UpdateCoordinator and the Player.* `UpdateCoordinatorSafety` adds two parts to
that invariant, and with them proves every other safety property of the runs.

- `Turns`: who works when. Nothing in the code keeps the recovering main thread
  and the executor apart but the order of recovery. The invariant states that
  order: rows are entered in order and the active rows that are still queued are
  the newest (`InOrder`); the executor's job, its queue and the rows still to be
  recovered are ever newer (`Lined`); a queued job is waiting somewhere
  (`Waiting`). A row past its queue is therefore recovered before anything is
  handed to the executor (`Alone`), and the two threads never work at once:
  `OneApplier`. That also makes the provider's memory the applying thread's own,
  which the second part needs.
- `Attribution`: what was executed. At each step of an apply (`Learnt`) the step,
  the request in flight, the journal entry of the row and the revision that the
  provider expects determine what the Player has executed for the job
  (`Sending`, `Awaiting`, `Verifying`), until a reply is lost or refused; from there
  on `Reconciling` and `Concluding` say only what the provider may still claim:
  "unchanged" when nothing was executed and nothing is in flight, "changed" when
  something was. A reply that is refused before the expected revision moves
  (`_invoke`, `runtime_update_provider.py:1053-1076`) may leave a wrong claim, but
  then the Player is past that revision (`Behind`), the observation after the
  reconciliation is stale, and the row says unknown. A settled row keeps this
  (`Honest`), because the Player executes a request only at the revision it names
  and the row's owner is gone.
  `Targeted` relates the runtime to the one the plan was prepared for, `Whole` a
  recorded fact to the operations of the plan, on every route.

From them: `AttributionHonest` (`HonestAttribution`), `CompletedIsWhole`
(`CompletedMeansApplied`), `PreparedTargetMet` (`MutatesPreparedState`),
`ApprovedFirst` (`ApprovalRespected`) and `OneJobPerPlan` (`PlanAppliedOnce`, with
an induction of its own: the first execution leaves the revision from which a
second job could begin). `MutationsShown`: a row whose mutation
is in flight is at a runtime stage, whatever the route. `TouchedNotReplayed`
(`TouchedNeverReplayed`) goes further, and to what `recover_pending` makes of the row:
a composite plan's journal renames the stage before and after every operation,
recovery decides by the stage alone, and yet an active job that has changed the
Player, or whose request may still do so, is never at a stage that is queued or
prepared again. It needs `Attribution` and that an applied row is at a runtime stage
(`AppliesIs`), and assumes nothing of the routes.

`CoordinatorRefines` is the refinement: `Init` maps to the initial states of
`ApplyOnce`, and each step of `Next` to one of its actions or to a stutter. There
is one lemma for each abstract action (`MapsToSubmit`, `MapsToDispatch`,
`MapsToSettle`, `MapsToTouch`, `MapsToCrash`) with the facts that make a concrete
step one of it; a thread's step dispatches, settles or stutters
(`ThreadImplements`), the Player's touches, and a crash loses what it interrupts.
It needs the invariant at both ends of the step, and that an entered row has a
state (`Stated`).

*SourceSave.* `TypeCorrect`, `BegunAtMostOnce` (`SavedOnce`), `SavedFactIsTrue`
(`SavedFactTrue`), `DenialIsTrue` (`FailedUnchanged`) and `AnswerIsFinal`
(`AnswerStays`). The argument goes from the file to the row. A provider has begun
a job only behind its attempt tombstone (`Attempts`), and the job being worked on
has no answer until its own is published (`Unanswered`). The phase of a journal
says what the job has done to the file (`Journalled`, `Staged`), and "failed" that no
content of the job is in the file *and that no running save can bring one back*
(`Denied`): a rollback writes the content its own job was accepted for, so that one
job may restore what another one wrote. Contents are numbered by their writes
(`Numbered`), so that a job's own are newer than the one it was accepted for and a
proven rollback leaves none of them; a later save begins only on the content that
is in the file then, which is not one of them either. A receipt has the
phase of its journal (`Receipted`), what the Host records that of the receipt
(`Consumed`).

*CommandService.* `Typing`, `AtMostOnce`, `SingleAnswer`, `SafeExit` and
`DrainTakesNoWork`. The inductive invariant `IInv` says: at most one thread is
inside the lock (`Mutex`), and it holds an open row nobody was answered about
(`Holding`); answers agree with the state of the row (`Answered`); a job
belongs to a dispatched command and the executor only works on queued jobs
(`Owned`); a drain began with the lock free, so that whoever is inside since
executes a read (`Draining`).

*PlayerProcess.* `TypeCorrect`, `OnePlayer`, `StopsLaunched`, `NoneForgotten`
(`NoForgottenPlayer`) and `StoppedAreAbsent` (`StoppedMeansAbsent`). A second start
of a baseline must be refused although records, intents, the registration and
the marker may each be missing or old. The inductive invariant says why:
every running Player the provider started is *guarded* (`AllGuarded`), by an
unresolved start of its baseline or by a registration of its pid, which makes
`locate` answer anything but `not_found`. `RecordsTrue` carries that through
`attach`, which settles an unresolved record: a record names a launched process,
and one this Host remembers by its pid is registered under it. `OpTrue` does the
same for the start or stop in progress, `Processes` says that start times grow
and a pid has one process, which is what makes the match of pid and start time
in `StopsLaunched` mean the same process. A marker left behind is covered,
since it may only add to what is unresolved and its record is as true as the
file's. The last two theorems rest on a second invariant, `Remembers`, relative to
the first. `RecordsTell`: no record, of the file or of the marker, calls a running
process stopped, and one without an identity leaves its baseline unresolved.
`AllNamed`: the files name every running Player, while `stales <= 1`. A marker that
stays behind hides the record of the state written over it, and this is harmful
only for the record of a new Player; `IntentSurvives` says why it takes two: the
marker found then holds the intent of that start, unless the write of the intent
had left a marker behind itself.

*TaskFacts.* `TypeCorrect`, `ReportAgrees` (`ReportAgreesUnlessPassed`),
`CompletedRecorded`, `VerdictsFollow` and `MatchedIsSaved` (the first is proved
only, no run checks it). `ReportAgrees` has two halves. In the order of the
transactions the columns are exactly what the last record that speaks of a fact
says (`FactsFollowRecords`); and the stamps follow that order among the locked
commands, and among the applies, because whoever stamps next finds every record of
its own thread no younger than the clock. Only an apply and a command can pass each
other, and they share no fact but `runtimeMatched`, so that this is all the
property leaves out, besides records of one millisecond. `MatchedIsSaved` needs the
most: between the check of a plan and its record the facts may change in every way,
so that the invariant relates the apply in progress to the records (`ApplyCovers`:
every save is no newer than the plan, or was recorded since the apply began), a
recorded apply to the records before it (`RecordsCover`), and says that nothing
recorded is newer than the source (`NothingNewer`) and that only applies say
matched (`OnlyApplies`). The other parts are one each: `RecordedHasEvidence` for the
crash between evidence and row, `CallHolds` for the lock around a command.

*RuntimeBridge.* `TypeCorrect`, `ReplyAwaited`, `OnceChanged`, `Honest` and
`LostChangeStops`. The inductive invariant has a part for each question.
`Connection`: a connection both ends believe in carries the awaited request, or
the Player serves it, or its reply is under way, and any other carries nothing
the Host could read. `Clock`: every revision that anything names was published,
and none a handler changed is current again, so that a second change from it is
impossible whoever still holds it. `Reports`: who names the current revision,
as the Host or in a request still on its way, knows every change; that holds
through a reply because a request in service leaves at most the changes from its
own revision to report, of which its reply tells (other requests may name the
same revision, only one of them changes it). `Fates`: a request is in
one place at a time (`Progress`), and a "no" in a result, a reply or a verdict
means that its handler never ran and never will, or ended without publishing,
or was outrun; a repeated id must be covered too, since it is answered with
the result of another request's task.

*Assumptions.* `BoundsAssumption`, `LimitsAssumption`, `PlayerAssumption`,
`TaskFactsAssumption` and `BridgeAssumption`: the bounds are natural numbers,
the capacities of table and queue positive, the routes are among the
three of the code and the acceptance facts among its columns; `NoneAssumption`:
`None` is no baseline, identity, record or state.

Where a run takes a fair specification, the theorem is about `Spec`, from which
fairness only takes behaviours away.

*Only model-checked.* The liveness properties (`JobSettles`, `DrainStops`,
`RowSettles`, `TableUnblocks`), which are out of the prover's reach, and the four
violations of section 6, which are counterexamples. Every other property of a run
is a theorem.

## 6. Disagreements met while modelling

- **A recovered apply may deny a change** (`restart`, `HonestAfterRestart`).
  After a crash during an apply, `recover_pending` reconciles and then observes
  the Player; an error of that observation carries `runtimeChanged=false` and is
  stored for a job whose request may have been executed.
- **A drain may never end** (`drain`, `DrainCompletes`). A prepare deferred by
  `_defer_editor_timeout` stays `running` until the next start.
- **A repeated submission may miss its own request** (`source_retry`,
  `RetryIsRecognised`). `_find_existing_request` tests two directories while the
  Editor moves the file from one to the other; the row is settled as failed or
  unknown while the edit goes on. An ordinary `job.status` is enough.
- **Saved and matched may be of two sources** (`facts_saved`, `MatchedMeansSaved`).
  An apply compares the source with its plan before it dispatches and records
  `runtimeMatched` afterwards (`coordinator.py:1142`); a save recorded in between
  clears the fact, and the apply of the older source sets it again, against
  `contracts/source-save-provider.md:43`. After a crash the save is even always
  recovered first. `MatchedMeansSavedUnlessOvertaken` leaves this case out, and with
  it says what is left: the check of the plan holds for everything recorded before.

These are in the modules too, without a run of their own:

- The evidence a report shows last need not be the one that set the column.
  `apply_task_facts` stamps before its transaction (`evidence.py:58`, `:61`), in
  milliseconds, and `list_task` reads by the stamp and then by a random id (`:99`):
  when an apply and a source lookup record `runtimeMatched` at the same time, they may
  be read in the other order. `ReportAgreesUnlessPassed` leaves this out; no document
  promises an order. `report` (`service.py:273-283`) moreover reads the columns and
  the evidence in two transactions, so that an apply may be recorded between them.
- A deadline denies a change that may still come. `CompleteAsync`
  (`MainThreadDispatcher.cs:236`) answers `TIMEOUT` with the default
  `runtimeChanged=false` (`BridgePrimitives.cs:126`) while the handler goes on and
  may publish; the 15 s of `MainThreadTimeout` pass before the 30 s of
  `RequestWaitTimeout`, whose answer would be "unknown". `HonestUnlessOutrun` leaves
  it out; the next request is refused by the revision, which
  `LostChangeStopsTheSession` shows.
- Two asynchronous handlers may overlap after such a deadline, and the adapter
  attributes by revision before and after: one is told "changed" for the
  other's transition. It is a change from the revision both named, so that
  `Reported` speaks of revisions and not of requests.
- An exact repetition after a change gets `STALE_TARGET` and not the shared result:
  the revision is compared before the tracked requests are looked up
  (`RuntimeBridgeCore.cs:132`, against the comment at
  `RuntimeTransportContracts.cs:61`).
- An item enqueued while `OnDestroy` empties the queue is never answered by the
  dispatcher; the transport's own timeout answers "unknown". A `BUSY` of the
  dispatcher is tracked like a result, and repeats of that id get it again.

- A composite stage looks interruptible. Its journal
  (`runtime_update_provider.py:887`) renames the row's stage to one that neither
  `lifecycle.py:13` nor `job.cancel` knows, against
  `contracts/host-lifecycle.md:17`. The status of such a job does not show it as
  non-interruptible; what the page asks of recovery, that it is not replayed, holds
  (`TouchedNeverReplayed`). `job.cancel` only sets a flag that the coordinator never
  reads, and has no action in the model.
- A command may leave its own row open. `execute` (`service.py:147`) takes every
  error of the stage "idempotency" for a collision with another row; the Player
  sends that stage as well. The first answer is "failed", a repeat's
  `STATE_UNKNOWN`; `OneAnswer` leaves these rows out.
- An interrupted attempt may never be answered. `TryGetRecovery`
  (`AtomicEditorJobStore.cs:88`) tests the expiry before the attempt record,
  against `contracts/editor-transport.md:42`; the Host settles its row as unknown
  only because the tombstone is left.
- After an interrupt, a submission that meets the closed executor has committed
  its job row already: its command is answered "failed" and the job runs at the
  next start (`NewJob` with `closed`, `coordinator.py:131`).
- `waitForActiveJobs=false` has no effect once a drain was accepted
  (`RequestShutdown`, `lifecycle.py:142`), although
  `contracts/host-lifecycle.md:33` promises `CONFLICT` for any active job.
- One session may have two Players. A Host that dies between starting a process
  and registering it leaves a Player that `locate` (`player_process_composition.py:694`)
  calls `not_found`; its intent blocks only its own baseline, and another baseline
  starts a second one. `ProcessObservation` calls `not_found` "a definite absence".
- The expected revision of the transport moves with every hot update, the
  session file is read once (`player_process_composition.py:461`): from the first
  update on (`auth = "drifted"`) an inspection is unknown, and `stop` gives up the
  provider's own Player.
- A Player that ended by itself can never be verified again: its unresolved
  record blocks its baseline for good.
- The unlink of the marker may fail silently (`player_process_provider.py:398`).
  Left behind once, the marker only adds to what is unresolved; twice, it may hide
  the record written over it, which is why `NoForgottenPlayer` counts them.
- A verdict of a check stays beside a later apply: only a save clears it. A save
  whose row fails after a crash between fact and row, because somebody wrote the
  file since, leaves its fact behind. `runtimeMatched` stays true when a later
  apply ends unknown (`coordinator.py:1053`), or when the task's goal or scope is
  updated (`ledger.py:307`). No document says otherwise of these.
- The failed outcome of a composite reconciliation carries `runtimeMatched: False`
  (`runtime_update_provider.py:514`), which the coordinator refuses as
  `CONTRACT_MISMATCH` (`coordinator.py:1063`).

## 7. What is not modelled, and the plan

What could follow, in this order:

1. The rest of the Player: the two halves of the handshake with their limits and
   lifetimes, object handles, the capture of a fresh frame over several frames;
   and `RuntimeBridge` as what `UpdateCoordinator`'s frames and Player abstract.
2. **RuntimeUpdate**: the stages of a composite apply with their journal in detail.
3. Facts across versions of a task, and the immutable artifact files.
4. Proofs: an abstract mailbox (published, attempted and answered once) that
   `EditorMailbox` implements and that replaces `editor` of the coordinator; the
   command table as what an idempotent service promises, and `CommandService` as
   its implementation; that the executor's `FinishJob` of `CommandService` is a
   settled or deferred row of `UpdateCoordinator`.

The validation of compile receipts and of change routes
(`native_compile_receipt.py`, `change_routing.py` and their like) is a long list
of comparisons without state; the coordinator's module has their verdicts.

Not planned: the deployment scripts (file copies and process starts on one
machine), the MCP and HTTP client adapters and request validation (stateless),
rendering, image encoding and the walk over Unity objects (no protocol of their
own), the cryptography of the session handshake (assumed to authenticate).
The ledger's ordering of jobs is by creation; a wall clock that repeats or runs
backwards between two rows is not modelled. SQLite transactions are atomic and
durable, file renames and links are atomic.
