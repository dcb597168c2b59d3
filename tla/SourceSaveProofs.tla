--------------------------- MODULE SourceSaveProofs ---------------------------
(***************************************************************************)
(* Proofs about a source edit: a provider begins a job once, an answer is  *)
(* final, and what a row says of the file is so.                           *)
(*                                                                         *)
(* The argument goes from the file to the row.  The phase of a journal     *)
(* says what the job has done to the file (Journalled), and "failed" says  *)
(* that no content of the job will come back (Denied).  A receipt has the  *)
(* phase of its journal (Receipted), and what the Host records has the     *)
(* phase of the receipt (Consumed).                                        *)
(***************************************************************************)
EXTENDS SourceSave, TLAPS

-----------------------------------------------------------------------------
(* The inductive invariant.                                                *)

\* Who works on what: a call and a claim have a job, a save runs in a poll,
\* and a job without a row is nowhere.
Occupied ==
  /\ call.pc # "idle" => call.job \in Jobs
  /\ worker.pc # "idle" => worker.job \in Jobs
  /\ edit.pc # "idle" => worker.pc = "polling"

Known ==
  \A j \in Jobs : rows[j] = "none" =>
    j \notin incoming \cup processing /\ worker.job # j /\ call.job # j

\* Nor has it written anything.
Unwritten == \A j \in Jobs : rows[j] = "none" => wrote[j] = {}

\* A provider has begun a job only behind its attempt tombstone, and a claim
\* that is about to begin a job is the first to do so.
Attempts ==
  /\ \A j \in Jobs : begun[j] = 0 \/ (begun[j] = 1 /\ j \in prior)
  /\ worker.pc \in {"attempt", "tombstone", "provider"} /\ ~worker.recovering
       => begun[worker.job] = 0
  /\ worker.pc = "provider" => worker.job \in prior

\* The job being worked on has no answer until its result is published.
Unanswered ==
  worker.pc \in {"attempt", "tombstone", "provider", "polling", "sealing",
                 "publish"} => ~HasResult(worker.job)

\* An outcome that carries a receipt has the phase of the job's journal.
Receipted(o, j) ==
  /\ o.status = "completed" => o.receipt # "none"
  /\ o.receipt \in {"completed", "failed"} => journal[j].phase = o.receipt

Receipting ==
  /\ \A j \in Jobs : Receipted(results[j], j)
  /\ worker.pc \in {"sealing", "publish"} =>
       Receipted(worker.outcome, worker.job)
  /\ edit.pc = "receipt" =>
       Receipted(Outcome("completed", edit.receipt), worker.job)

\* Where the running save stands, its journal stands.
Staged ==
  LET phase == journal[worker.job].phase IN
  /\ edit.pc = "check" => phase = "none"
  /\ edit.pc = "modify" => phase = "mutating"
  /\ edit.pc \in {"save", "verify"} => phase = "saving"
  /\ edit.pc = "undo" => phase \in {"mutating", "saving"}
  /\ edit.pc \in {"restore", "prove"} => phase = "rolling_back"
  /\ edit.pc = "verify" => edit.saved \in wrote[worker.job]

\* What a journal says of the file's history.
Journalled ==
  \A j \in Jobs :
    /\ journal[j].phase \in {"none", "mutating"} => wrote[j] = {}
    /\ journal[j].phase \in {"none", "mutating", "saving", "completed"} =>
         j \notin undone
    /\ journal[j].phase = "completed" => wrote[j] # {}

\* Contents are numbered in the order of their writes; a job writes after it
\* was accepted.
Numbered ==
  /\ disk <= contents
  /\ \A j \in Jobs : /\ expected[j] <= contents
                     /\ \A c \in wrote[j] : expected[j] < c /\ c <= contents

\* No content of the job is in the file, and no running save can restore one.
Restorable == {"modify", "save", "verify", "undo", "restore"}
Gone(j) ==
  /\ disk \notin wrote[j]
  /\ edit.pc \in Restorable => expected[worker.job] \notin wrote[j]

Denied == \A j \in Jobs : journal[j].phase = "failed" => Gone(j)

\* What the Host has recorded, or is about to, is the phase of the receipt.
Consumed ==
  /\ call.pc \in {"facts", "row"} => results[call.job].receipt = "completed"
  /\ \A j \in Jobs : /\ rows[j] = "completed" \/ j \in facts =>
                          results[j].receipt = "completed"
                     /\ changed[j] = "no" => results[j].receipt = "failed"

IInv ==
  /\ TypeOK /\ Occupied /\ Known /\ Unwritten /\ Attempts /\ Unanswered
  /\ Receipting /\ Staged /\ Journalled /\ Numbered /\ Denied /\ Consumed

-----------------------------------------------------------------------------
(* Typing, and who works on what.                                          *)

\* The steps by the party that takes them.
HostMoves ==
  \/ \E j \in Jobs : SubmitEdit(j) \/ Refresh(j)
  \/ HostStep \/ BindingIsStale \/ HostCrash
WorkerMoves ==
  (WorkerStep \/ WorkerFault) /\ UNCHANGED <<assetVars, hostVars>>
EditMoves ==
  /\ EditStep \/ EditFault
  /\ UNCHANGED <<files, worker, begun, call, hostVars>>
Turns == EnterEdit \/ EndEdit \/ EditEscapes \/ EditorReload
Outside == OthersWrite \/ \E j \in Jobs : RequestExpires(j)

LEMMA Movers ==
  ASSUME [Next]_vars
  PROVE  \/ HostMoves \/ WorkerMoves \/ EditMoves \/ Turns \/ Outside
         \/ UNCHANGED vars
  BY DEF Next, HostMoves, WorkerMoves, EditMoves, Turns, Outside, EditorStep,
         EditorFault

\* What each party leaves alone.
LEMMA HostFrame ==
  ASSUME HostMoves
  PROVE  UNCHANGED <<processing, invalid, started, prior, results, expired,
                     worker, begun, disk, contents, journal, edit, wrote,
                     undone>>
  <1> DEFINE Kept ==
        UNCHANGED <<processing, invalid, started, prior, results, expired,
                    worker, begun, disk, contents, journal, edit, wrote,
                    undone>>
  <1> SUFFICES Kept
    OBVIOUS
  <1>1. ASSUME NEW j \in Jobs, SubmitEdit(j) \/ Refresh(j)
        PROVE  Kept
    BY <1>1 DEF SubmitEdit, Refresh, HostLeaves, files, assetVars
  <1>2. CASE Enqueue /\ UNCHANGED <<assetVars, hostVars, mishaps>>
    BY <1>2 DEF Enqueue, LookIncoming, LookProcessing, ReadRequest,
                RequestMoved, LookResult, Reserve, PublishRequest, files,
                assetVars
  <1>3. CASE \/ StoreEnvelope \/ CheckBinding \/ EnqueueRefused
             \/ RecordDispatch \/ NoAnswerYet \/ ConsumeError
             \/ ConsumeReceipt \/ RecordFacts \/ CompleteRow
    BY <1>3 DEF StoreEnvelope, CheckBinding, EnqueueRefused, RecordDispatch,
                NoAnswerYet, ConsumeError, ConsumeReceipt, RecordFacts,
                CompleteRow, HostLeaves, files, assetVars
  <1>4. CASE BindingIsStale \/ HostCrash
    BY <1>4 DEF BindingIsStale, HostCrash, files, assetVars
  <1> HIDE DEF Kept
  <1>5. QED
    BY <1>1, <1>2, <1>3, <1>4 DEF HostMoves, HostStep

LEMMA WorkerFrame ==
  ASSUME WorkerMoves
  PROVE  UNCHANGED <<reserved, expired, call, disk, contents, expected,
                     journal, edit, wrote, undone, rows, changed, facts, due>>
  <1> DEFINE Kept == UNCHANGED <<reserved, expired, call>>
  <1>1. Kept
    <2>1. ASSUME NEW j \in Jobs, SweepProcessing(j) \/ SweepIncoming(j)
          PROVE  Kept
      BY <2>1 DEF SweepProcessing, SweepIncoming
    <2>2. CASE RecordAttempt \/ RecordTombstone \/ Seal
      BY <2>2 DEF RecordAttempt, RecordTombstone, Seal, files
    <2>3. CASE PublishResult \/ ArchiveRequest \/ ArchiveAttempt
      BY <2>3 DEF PublishResult, ArchiveRequest, ArchiveAttempt, files
    <2>4. CASE StartOperation \/ SealFails
      BY <2>4 DEF StartOperation, SealFails, files
    <2>5. CASE RefuseOperation
      BY <2>5 DEF RefuseOperation, files
    <2> HIDE DEF Kept
    <2>6. QED
      BY <2>1, <2>2, <2>3, <2>4, <2>5 DEF WorkerMoves, WorkerStep, WorkerFault
  <1>2. QED
    BY <1>1 DEF WorkerMoves, assetVars, hostVars

LEMMA EditFrame ==
  ASSUME EditMoves
  PROVE  UNCHANGED <<incoming, processing, invalid, reserved, started, prior,
                     results, expired, worker, begun, call, rows, changed,
                     facts, due, expected>>
  BY DEF EditMoves, EditStep, EditFault, CheckTarget, Modify, Save, Verify,
         Undo, Restore, Prove, Recover, Throws, SavesBadly, files, hostVars

LEMMA TurnFrame ==
  ASSUME Turns
  PROVE  UNCHANGED <<incoming, processing, invalid, reserved, started, prior,
                     results, expired, begun, call, disk, contents, expected,
                     journal, wrote, undone, rows, changed, facts, due>>
  BY DEF Turns, EnterEdit, EndEdit, EditEscapes, EditorReload, Reload, files,
         hostVars

LEMMA OutsideFrame ==
  ASSUME Outside
  PROVE  UNCHANGED <<incoming, processing, invalid, reserved, started, prior,
                     results, worker, begun, call, expected, journal, edit,
                     wrote, undone, rows, changed, facts, due>>
  BY DEF Outside, OthersWrite, ForeignWrite, RequestExpires, Expire, files,
         assetVars, hostVars

-----------------------------------------------------------------------------
(* Typing.                                                                 *)

Calls == [pc : {"idle", "envelope", "check", "incoming", "processing",
                "read_incoming", "read_processing", "result", "reserve",
                "publish", "ticket", "refused", "poll", "facts", "row"},
          job : Jobs \cup {"none"}, found : BOOLEAN, allow : BOOLEAN,
          error : {"none", "mismatch", "unknown", "conflict"}]
States == {"none", "created", "queued", "dispatched", "completed", "failed",
           "state_unknown"}
HostTypeOK ==
  /\ call \in Calls /\ rows \in [Jobs -> States]
  /\ changed \in [Jobs -> {"null", "yes", "no"}]
  /\ facts \subseteq Jobs /\ due \subseteq Jobs
  /\ reserved \subseteq Jobs /\ incoming \subseteq Jobs
  /\ expected \in [Jobs -> Nat]
HasJob == call.pc # "idle" => call.job \in Jobs

LEMMA MishapCount ==
  ASSUME [Next]_vars, mishaps \in 0..MaxMishaps
  PROVE  mishaps' \in 0..MaxMishaps
  <1> DEFINE Counted ==
        \/ mishaps' = mishaps
        \/ mishaps < MaxMishaps /\ mishaps' = mishaps + 1
  <1> USE DEF Mishap
  <1> SUFFICES Counted
    BY MaxMishapsAssumption
  <1>1. ASSUME NEW j \in Jobs, SubmitEdit(j) \/ Refresh(j) \/ RequestExpires(j)
        PROVE  Counted
    BY <1>1 DEF SubmitEdit, Refresh, RequestExpires, HostLeaves
  <1>2. CASE HostStep
    BY <1>2 DEF HostStep, StoreEnvelope, CheckBinding, EnqueueRefused,
                RecordDispatch, NoAnswerYet, ConsumeError, ConsumeReceipt,
                RecordFacts, CompleteRow, HostLeaves
  <1>3. CASE BindingIsStale \/ HostCrash \/ EditorReload \/ OthersWrite
    BY <1>3 DEF BindingIsStale, HostCrash, EditorReload, OthersWrite
  <1>4. CASE EditorStep
    BY <1>4 DEF EditorStep, EnterEdit, EndEdit
  <1>5. CASE EditorFault
    BY <1>5 DEF EditorFault, EditEscapes
  <1>6. CASE UNCHANGED vars
    BY <1>6 DEF vars
  <1> HIDE DEF Counted
  <1>7. QED
    BY <1>1, <1>2, <1>3, <1>4, <1>5, <1>6 DEF Next

\* Enqueue keeps a call of its job.
LEMMA EnqueueTyped ==
  ASSUME HostTypeOK, HasJob, Enqueue, UNCHANGED <<assetVars, hostVars>>
  PROVE  HostTypeOK' /\ HasJob'
  <1> USE DEF HostTypeOK, HasJob, Calls
  <1>1. call.pc # "idle" /\ call.job \in Jobs
    BY DEF Enqueue, LookIncoming, LookProcessing, ReadRequest, RequestMoved,
           LookResult, Reserve, PublishRequest
  <1>2. call' \in Calls /\ call'.job = call.job
    <2>1. CASE LookIncoming
      <3>1. PICK b \in BOOLEAN :
              call' = [call EXCEPT !.pc = "processing", !.found = b]
        <4> DEFINE here == call.job \in incoming
        <4>1. here \in BOOLEAN
          OBVIOUS
        <4>2. call' = [call EXCEPT !.pc = "processing", !.found = here]
          BY <2>1 DEF LookIncoming
        <4> HIDE DEF here
        <4>3. QED
          BY <4>1, <4>2
      <3>2. QED
        BY <1>1, <3>1
    <2>2. CASE LookProcessing
      BY <1>1, <2>2 DEF LookProcessing, Refused
    <2>3. CASE ReadRequest \/ RequestMoved
      BY <1>1, <2>3 DEF ReadRequest, RequestMoved, Ticket, Refused
    <2>4. CASE LookResult
      <3>1. \/ call' = Ticket \/ call' = Refused("unknown")
            \/ call' = Refused("conflict")
            \/ call' = [call EXCEPT !.pc = "reserve"]
        BY <2>4 DEF LookResult
      <3>2. QED
        BY <1>1, <3>1 DEF Ticket, Refused
    <2>5. CASE Reserve \/ PublishRequest
      BY <1>1, <2>5 DEF Reserve, PublishRequest, Ticket
    <2>6. QED
      BY <2>1, <2>2, <2>3, <2>4, <2>5 DEF Enqueue
  <1>3. /\ reserved' \in {reserved, reserved \cup {call.job}}
        /\ incoming' \in {incoming, incoming \cup {call.job}}
    BY DEF Enqueue, LookIncoming, LookProcessing, ReadRequest, RequestMoved,
           LookResult, Reserve, PublishRequest, files
  <1>4. QED
    BY <1>1, <1>2, <1>3 DEF hostVars, assetVars

LEMMA SettlesTyped ==
  ASSUME HostTypeOK, call.job \in Jobs, NEW s \in States,
         NEW c \in {"null", "yes", "no"}, Settles(s, c),
         UNCHANGED <<files, assetVars>>
  PROVE  HostTypeOK' /\ HasJob'
  BY DEF HostTypeOK, HasJob, Calls, Settles, Row, Quiet, files, assetVars

LEMMA HostTyped ==
  ASSUME TypeOK, Occupied, Receipting, HostMoves
  PROVE  HostTypeOK' /\ HasJob'
  <1>0. HostTypeOK /\ HasJob
    BY DEF TypeOK, MailboxTypeOK, AssetTypeOK, HostTypeOK, HasJob, Calls,
           States, Occupied
  <1> DEFINE Goal == HostTypeOK' /\ HasJob'
  <1> SUFFICES Goal
    OBVIOUS
  <1> USE DEF HostTypeOK, HasJob, Calls, States, HostLeaves, files, assetVars,
              hostVars, Quiet, Row
  <1>1. ASSUME NEW j \in Jobs, SubmitEdit(j)
        PROVE  Goal
    <2>1. disk \in Nat
      BY DEF TypeOK, AssetTypeOK
    <2>2. QED
      BY <1>0, <1>1, <2>1 DEF SubmitEdit
  <1>2. ASSUME NEW j \in Jobs, Refresh(j)
        PROVE  Goal
    BY <1>0, <1>2 DEF Refresh
  <1>3. CASE StoreEnvelope \/ RecordDispatch
    BY <1>0, <1>3 DEF StoreEnvelope, RecordDispatch
  <1>4. CASE CheckBinding
    <2>1. call.job \in Jobs
      BY <1>0, <1>4 DEF CheckBinding
    <2>2. \/ Settles("failed", "null")
          \/ call' = [call EXCEPT !.pc = "incoming",
                                  !.allow = rows[call.job] = "queued"]
             /\ UNCHANGED hostVars
      BY <1>4 DEF CheckBinding
    <2>3. UNCHANGED <<files, assetVars>>
      BY <1>4 DEF CheckBinding
    <2>4. QED
      BY <1>0, <2>1, <2>2, <2>3, SettlesTyped
  <1>5. CASE EnqueueRefused \/ ConsumeError \/ BindingIsStale \/ CompleteRow
    <2>1. call.job \in Jobs /\ UNCHANGED <<files, assetVars>>
      BY <1>0, <1>5 DEF EnqueueRefused, ConsumeError, BindingIsStale,
                        CompleteRow
    <2>2. \E s \in States, c \in {"null", "yes", "no"} : Settles(s, c)
      BY <1>5 DEF EnqueueRefused, ConsumeError, BindingIsStale, CompleteRow
    <2>3. QED
      BY <1>0, <2>1, <2>2, SettlesTyped
  <1>6. CASE NoAnswerYet \/ RecordFacts
    <2>1. CASE NoAnswerYet
      BY <1>0, <2>1 DEF NoAnswerYet
    <2>2. CASE RecordFacts
      BY <1>0, <2>2 DEF RecordFacts
    <2>3. QED
      BY <1>6, <2>1, <2>2
  <1>7. CASE ConsumeReceipt
    <2>1. /\ call.pc = "poll" /\ call.job \in Jobs
          /\ results[call.job].receipt
               \in {"completed", "failed", "state_unknown"}
      BY <1>0, <1>7 DEF ConsumeReceipt, TypeOK, MailboxTypeOK, Outcomes,
                        Receipts, Receipting, Receipted
    <2>2. \/ call' = [call EXCEPT !.pc = "facts"] /\ UNCHANGED hostVars
          \/ \E s \in States, c \in {"null", "yes", "no"} : Settles(s, c)
      BY <1>7, <2>1 DEF ConsumeReceipt, ConsumedPhase
    <2>3. UNCHANGED <<files, assetVars>>
      BY <1>7 DEF ConsumeReceipt
    <2>4. QED
      BY <1>0, <2>1, <2>2, <2>3, SettlesTyped
  <1>8. CASE HostCrash
    BY <1>0, <1>8 DEF HostCrash
  <1>9. CASE Enqueue /\ UNCHANGED <<assetVars, hostVars, mishaps>>
    BY <1>0, <1>9, EnqueueTyped DEF Goal
  <1> HIDE DEF Goal
  <1>10. QED
    BY <1>1, <1>2, <1>3, <1>4, <1>5, <1>6, <1>7, <1>8, <1>9
    DEF HostMoves, HostStep

Claims == [pc : {"idle", "attempt", "tombstone", "provider", "polling",
                 "sealing", "publish", "archive", "archive_attempt"},
           job : Jobs \cup {"none"}, recovering : BOOLEAN,
           outcome : Outcomes]
WorkerTypeOK ==
  /\ incoming \subseteq Jobs /\ processing \subseteq Jobs
  /\ invalid \subseteq Jobs /\ started \subseteq Jobs /\ prior \subseteq Jobs
  /\ results \in [Jobs -> Outcomes] /\ begun \in [Jobs -> Nat]
  /\ worker \in Claims
HasClaim == worker.pc # "idle" => worker.job \in Jobs

\* Every outcome the worker makes up is one.
LEMMA OutcomeTyped ==
  ASSUME NEW s \in {"none", "completed", "failed", "state_unknown"},
         NEW r \in Receipts
  PROVE  Outcome(s, r) \in Outcomes
  BY DEF Outcome, Outcomes

LEMMA ClaimTyped ==
  ASSUME NEW j \in Jobs, NEW b \in BOOLEAN,
         NEW pc \in {"attempt", "tombstone", "publish"}, NEW o \in Outcomes,
         Claim(j, b, pc, o)
  PROVE  worker' \in Claims /\ HasClaim'
  BY DEF Claim, Claims, HasClaim

LEMMA WorkerTyped ==
  ASSUME WorkerTypeOK, HasClaim, WorkerStep \/ WorkerFault
  PROVE  WorkerTypeOK' /\ HasClaim'
  <1> DEFINE Goal == WorkerTypeOK' /\ HasClaim'
  <1> SUFFICES Goal
    OBVIOUS
  <1>0. /\ NoOutcome \in Outcomes
        /\ \A s \in {"failed", "state_unknown"} :
             Outcome(s, "none") \in Outcomes
    BY OutcomeTyped DEF NoOutcome, Receipts
  <1>1. ASSUME NEW j \in Jobs, SweepProcessing(j)
        PROVE  Goal
    <2>1. \/ UNCHANGED worker
          \/ \E b \in BOOLEAN, pc \in {"attempt", "tombstone", "publish"},
                o \in Outcomes : Claim(j, b, pc, o)
      <3>1. CASE Resume(j)
        BY <1>0, <3>1 DEF Resume
      <3>2. QED
        BY <1>1, <3>1 DEF SweepProcessing
    <2>2. worker' \in Claims /\ HasClaim'
      BY <2>1, ClaimTyped DEF WorkerTypeOK, HasClaim
    <2>3. /\ processing' \subseteq Jobs /\ invalid' \subseteq Jobs
          /\ started' \subseteq Jobs
          /\ UNCHANGED <<incoming, prior, results, begun>>
      BY <1>1 DEF SweepProcessing, WorkerTypeOK
    <2>4. QED
      BY <2>2, <2>3 DEF WorkerTypeOK
  <1>2. ASSUME NEW j \in Jobs, SweepIncoming(j)
        PROVE  Goal
    <2>1. \/ UNCHANGED worker
          \/ \E b \in BOOLEAN, pc \in {"attempt", "tombstone", "publish"},
                o \in Outcomes : Claim(j, b, pc, o)
      BY <1>0, <1>2 DEF SweepIncoming
    <2>2. worker' \in Claims /\ HasClaim'
      BY <2>1, ClaimTyped DEF WorkerTypeOK, HasClaim
    <2>3. /\ processing' \subseteq Jobs /\ invalid' \subseteq Jobs
          /\ incoming' \subseteq Jobs
          /\ UNCHANGED <<started, prior, results, begun>>
      BY <1>2 DEF SweepIncoming, WorkerTypeOK
    <2>4. QED
      BY <2>2, <2>3 DEF WorkerTypeOK
  <1>3. CASE RecordAttempt
    BY <1>3 DEF RecordAttempt, WorkerTypeOK, Claims, HasClaim
  <1>4. CASE RecordTombstone
    BY <1>4 DEF RecordTombstone, WorkerTypeOK, Claims, HasClaim
  <1>5. ASSUME worker.pc = "provider", Entered
        PROVE  begun' \in [Jobs -> Nat]
    <2>1. CASE worker.recovering
      BY <1>5, <2>1 DEF Entered, WorkerTypeOK
    <2>2. CASE ~worker.recovering
      BY <1>5, <2>2 DEF Entered, WorkerTypeOK, HasClaim
    <2>3. QED
      BY <2>1, <2>2
  <1>6. CASE StartOperation
    BY <1>5, <1>6 DEF StartOperation, WorkerTypeOK, Claims, HasClaim, files
  <1>7. CASE RefuseOperation
    <2>1. PICK o \in Outcomes :
            worker' = [worker EXCEPT !.pc = "publish", !.outcome = o]
      BY <1>0, <1>7 DEF RefuseOperation
    <2>2. /\ worker.pc = "provider" /\ Entered /\ UNCHANGED files
      BY <1>7 DEF RefuseOperation
    <2>3. QED
      BY <1>5, <2>1, <2>2 DEF WorkerTypeOK, Claims, HasClaim, files
  <1>8. CASE Seal
    BY <1>8 DEF Seal, WorkerTypeOK, Claims, HasClaim, files
  <1>9. CASE SealFails
    <2>1. PICK o \in Outcomes :
            worker' = [worker EXCEPT !.pc = "publish", !.outcome = o]
      BY <1>0, <1>9 DEF SealFails
    <2>2. QED
      BY <1>9, <2>1 DEF SealFails, WorkerTypeOK, Claims, HasClaim, files
  <1>10. CASE PublishResult
    <2>1. worker.job \in Jobs /\ worker.outcome \in Outcomes
      BY <1>10 DEF PublishResult, WorkerTypeOK, Claims, HasClaim
    <2>2. QED
      BY <1>10, <2>1 DEF PublishResult, WorkerTypeOK, Claims, HasClaim
  <1>11. CASE ArchiveRequest
    BY <1>11 DEF ArchiveRequest, WorkerTypeOK, Claims, HasClaim
  <1>12. CASE ArchiveAttempt
    BY <1>0, <1>12 DEF ArchiveAttempt, WorkerTypeOK, Claims, HasClaim,
                       Unclaimed
  <1> HIDE DEF Goal
  <1>13. QED
    BY <1>1, <1>2, <1>3, <1>4, <1>6, <1>7, <1>8, <1>9, <1>10, <1>11, <1>12
    DEF WorkerStep, WorkerFault

Edits == [pc : {"idle", "check", "modify", "save", "verify", "undo",
                "restore", "prove", "recover", "receipt"},
          saved : Nat, rewrite : BOOLEAN, receipt : Receipts]
Entries == [phase : {"none", "mutating", "saving", "completed",
                     "rolling_back", "failed", "state_unknown"},
            after : Nat]
EditTypeOK ==
  /\ disk \in Nat /\ contents \in Nat /\ journal \in [Jobs -> Entries]
  /\ edit \in Edits /\ wrote \in [Jobs -> SUBSET Nat] /\ undone \subseteq Jobs

\* The ways in which a step of the save writes a journal, moves on or ends.
LEMMA EditWrites ==
  ASSUME EditTypeOK, worker.job \in Jobs
  PROVE  /\ \A ph \in {"mutating", "saving", "completed", "rolling_back",
                       "failed", "state_unknown"}, a \in Nat :
              Journal(ph, a) => journal' \in [Jobs -> Entries]
         /\ \A pc \in {"modify", "save", "verify", "undo", "restore",
                       "prove"} : Goto(pc) => edit' \in Edits
         /\ \A r \in Receipts : Ends(r) => edit' \in Edits
         /\ Overwrite => /\ contents' \in Nat /\ disk' \in Nat
                         /\ wrote' \in [Jobs -> SUBSET Nat]
  <1>1. \A ph \in {"mutating", "saving", "completed", "rolling_back",
                   "failed", "state_unknown"}, a \in Nat :
          Journal(ph, a) => journal' \in [Jobs -> Entries]
    BY DEF EditTypeOK, Journal, Entries
  <1>2. \A pc \in {"modify", "save", "verify", "undo", "restore", "prove"} :
          Goto(pc) => edit' \in Edits
    BY DEF EditTypeOK, Goto, Edits
  <1>3. \A r \in Receipts : Ends(r) => edit' \in Edits
    BY DEF EditTypeOK, Ends, Edits
  <1>4. Overwrite => /\ contents' \in Nat /\ disk' \in Nat
                     /\ wrote' \in [Jobs -> SUBSET Nat]
    BY DEF EditTypeOK, Overwrite
  <1>5. QED
    BY <1>1, <1>2, <1>3, <1>4

LEMMA EditTyped ==
  ASSUME EditTypeOK, expected \in [Jobs -> Nat], worker.job \in Jobs,
         EditStep \/ EditFault
  PROVE  EditTypeOK'
  <1> DEFINE Goal == EditTypeOK'
  <1> SUFFICES Goal
    OBVIOUS
  <1>0. Before \in Nat /\ NoContent \in Nat
    BY DEF Before, NoContent
  <1>1. CASE CheckTarget
    BY <1>0, <1>1, EditWrites DEF CheckTarget, EditTypeOK, Receipts
  <1>2. CASE Modify
    BY <1>0, <1>2, EditWrites DEF Modify, EditTypeOK
  <1>3. CASE Save
    <2>1. edit' \in Edits
      <3>1. ASSUME NEW n \in Nat,
                   edit' = [edit EXCEPT !.pc = "verify", !.saved = n]
            PROVE  edit' \in Edits
        BY <3>1 DEF EditTypeOK, Edits
      <3>2. edit' = [edit EXCEPT !.pc = "verify", !.saved = contents + 1]
        BY <1>3 DEF Save
      <3>3. contents + 1 \in Nat
        BY DEF EditTypeOK
      <3>4. QED
        BY <3>1, <3>2, <3>3
    <2>2. QED
      BY <1>3, <2>1, EditWrites DEF Save, EditTypeOK
  <1>4. CASE Verify
    BY <1>0, <1>4, EditWrites DEF Verify, EditTypeOK, Receipts
  <1>5. ASSUME GivesUp
        PROVE  journal' \in [Jobs -> Entries] /\ edit' \in Edits
    BY <1>0, <1>5, EditWrites DEF GivesUp, Receipts
  <1>6. CASE Undo
    <2>1. CASE Attributable
      <3>1. PICK b \in BOOLEAN :
              edit' = [edit EXCEPT !.pc = "restore", !.rewrite = b]
        <4> DEFINE rewrites == disk # Before
        <4>1. rewrites \in BOOLEAN
          OBVIOUS
        <4>2. edit' = [edit EXCEPT !.pc = "restore", !.rewrite = rewrites]
          BY <1>6, <2>1 DEF Undo
        <4> HIDE DEF rewrites
        <4>3. QED
          BY <4>1, <4>2
      <3>2. edit' \in Edits
        BY <3>1 DEF EditTypeOK, Edits
      <3>3. QED
        BY <1>0, <1>6, <2>1, <3>2, EditWrites DEF Undo, EditTypeOK
    <2>2. CASE ~Attributable
      BY <1>5, <1>6, <2>2 DEF Undo, EditTypeOK
    <2>3. QED
      BY <2>1, <2>2
  <1>7. CASE Restore
    BY <1>0, <1>7, EditWrites DEF Restore, EditTypeOK
  <1>8. CASE Prove
    BY <1>0, <1>5, <1>8, EditWrites DEF Prove, EditTypeOK, Receipts
  <1>9. CASE Recover
    <2>1. Recovered \in Receipts
      BY DEF Recovered, Receipts
    <2>2. QED
      BY <1>9, <2>1, EditWrites DEF Recover, EditTypeOK
  <1>10. CASE Throws
    BY <1>0, <1>5, <1>10, EditWrites DEF Throws, EditTypeOK, Receipts
  <1>11. CASE SavesBadly
    BY <1>11, EditWrites DEF SavesBadly, EditTypeOK
  <1> HIDE DEF Goal
  <1>12. QED
    BY <1>1, <1>2, <1>3, <1>4, <1>6, <1>7, <1>8, <1>9, <1>10, <1>11
    DEF EditStep, EditFault

LEMMA TypeParts ==
  TypeOK /\ Occupied <=>
    /\ HostTypeOK /\ HasJob /\ WorkerTypeOK /\ HasClaim /\ EditTypeOK
    /\ expired \subseteq Jobs /\ mishaps \in 0..MaxMishaps
    /\ edit.pc # "idle" => worker.pc = "polling"
  BY DEF TypeOK, Occupied, HostTypeOK, HasJob, WorkerTypeOK, HasClaim,
         EditTypeOK, MailboxTypeOK, AssetTypeOK, Calls, States, Claims, Edits,
         Entries

\* A save takes a step only while its job is being polled.
LEMMA EditsInPoll ==
  ASSUME Occupied, EditMoves
  PROVE  worker.pc = "polling" /\ worker.job \in Jobs
  <1>1. edit.pc # "idle"
    BY DEF EditMoves, EditStep, EditFault, CheckTarget, Modify, Save, Verify,
           Undo, Restore, Prove, Recover, Throws, SavesBadly, At
  <1>2. QED
    BY <1>1 DEF Occupied

\* No claim is touched by the worker while its job is being polled.
LEMMA WorkerWaits ==
  ASSUME WorkerMoves
  PROVE  worker.pc # "polling"
  <1>1. ASSUME NEW j \in Jobs, SweepProcessing(j) \/ SweepIncoming(j)
        PROVE  worker.pc # "polling"
    BY <1>1 DEF SweepProcessing, SweepIncoming
  <1>2. CASE RecordAttempt \/ RecordTombstone \/ Seal \/ StartOperation
    BY <1>2 DEF RecordAttempt, RecordTombstone, Seal, StartOperation
  <1>3. CASE PublishResult \/ ArchiveRequest \/ ArchiveAttempt
    BY <1>3 DEF PublishResult, ArchiveRequest, ArchiveAttempt
  <1>4. CASE WorkerFault
    BY <1>4 DEF WorkerFault, RefuseOperation, SealFails
  <1>5. QED
    BY <1>1, <1>2, <1>3, <1>4 DEF WorkerMoves, WorkerStep

LEMMA TurnTyped ==
  ASSUME WorkerTypeOK, HasClaim, EditTypeOK, Occupied, Turns
  PROVE  /\ worker' \in Claims /\ HasClaim' /\ edit' \in Edits
         /\ edit'.pc # "idle" => worker'.pc = "polling"
  <1>0. NoEdit \in Edits /\ NoEdit.pc = "idle"
    BY DEF NoEdit, Edits, NoContent, Receipts
  <1>1. CASE EnterEdit
    <2>1. \/ edit' = [NoEdit EXCEPT !.pc = "recover"]
          \/ edit' = [NoEdit EXCEPT !.pc = "check"]
      BY <1>1 DEF EnterEdit
    <2>2. edit' \in Edits
      BY <1>0, <2>1 DEF Edits
    <2>3. worker.pc = "polling" /\ UNCHANGED worker
      BY <1>1 DEF EnterEdit
    <2>4. QED
      BY <2>2, <2>3 DEF WorkerTypeOK, HasClaim
  <1>2. ASSUME NEW pc \in {"sealing", "publish"}, NEW o \in Outcomes,
               worker' = [worker EXCEPT !.pc = pc, !.outcome = o],
               edit.pc # "idle"
        PROVE  worker' \in Claims /\ HasClaim'
    BY <1>2 DEF Occupied, WorkerTypeOK, HasClaim, Claims
  <1>3. CASE EndEdit
    <2>1. edit.receipt \in Receipts
      BY DEF EditTypeOK, Edits
    <2>2. Outcome("completed", edit.receipt) \in Outcomes
      BY <2>1, OutcomeTyped
    <2>3. QED
      BY <1>0, <1>2, <1>3, <2>2 DEF EndEdit, PollCompletes
  <1>4. CASE EditEscapes
    <2>1. Outcome("state_unknown", "none") \in Outcomes
      BY OutcomeTyped DEF Receipts
    <2>2. QED
      BY <1>0, <1>2, <1>4, <2>1 DEF EditEscapes, PollFails
  <1>5. CASE EditorReload
    <2>1. Unclaimed \in Claims /\ Unclaimed.pc = "idle"
      BY OutcomeTyped DEF Unclaimed, Claims, NoOutcome, Receipts
    <2>2. QED
      BY <1>0, <1>5, <2>1 DEF EditorReload, Reload, HasClaim
  <1>6. QED
    BY <1>1, <1>3, <1>4, <1>5 DEF Turns

LEMMA TypeInvariance ==
  ASSUME TypeOK, Occupied, Receipting, [Next]_vars
  PROVE  TypeOK' /\ Occupied'
  <1>0. /\ HostTypeOK /\ HasJob /\ WorkerTypeOK /\ HasClaim /\ EditTypeOK
        /\ expired \subseteq Jobs /\ mishaps \in 0..MaxMishaps
        /\ edit.pc # "idle" => worker.pc = "polling"
    BY TypeParts
  <1>1. mishaps' \in 0..MaxMishaps
    BY <1>0, MishapCount
  <1> SUFFICES
        /\ HostTypeOK' /\ HasJob' /\ WorkerTypeOK' /\ HasClaim' /\ EditTypeOK'
        /\ expired' \subseteq Jobs
        /\ edit'.pc # "idle" => worker'.pc = "polling"
    BY <1>1 DEF TypeOK, Occupied, HostTypeOK, HasJob, WorkerTypeOK, HasClaim,
                EditTypeOK, MailboxTypeOK, AssetTypeOK, Calls, States,
                Claims, Edits, Entries
  <1>2. CASE HostMoves
    <2>1. HostTypeOK' /\ HasJob'
      BY <1>2, HostTyped
    <2>2. incoming' \subseteq Jobs
      BY <2>1 DEF HostTypeOK
    <2>3. QED
      BY <1>0, <1>2, <2>1, <2>2, HostFrame
      DEF WorkerTypeOK, HasClaim, EditTypeOK
  <1>3. CASE WorkerMoves
    <2>1. WorkerTypeOK' /\ HasClaim'
      BY <1>0, <1>3, WorkerTyped DEF WorkerMoves
    <2>2. incoming' \subseteq Jobs
      BY <2>1 DEF WorkerTypeOK
    <2>3. edit.pc = "idle"
      BY <1>0, <1>3, WorkerWaits
    <2>4. QED
      BY <1>0, <1>3, <2>1, <2>2, <2>3, WorkerFrame
      DEF HostTypeOK, HasJob, EditTypeOK
  <1>4. CASE EditMoves
    <2>1. worker.pc = "polling" /\ worker.job \in Jobs
      BY <1>4, EditsInPoll
    <2>2. EditTypeOK'
      BY <1>0, <1>4, <2>1, EditTyped DEF EditMoves, HostTypeOK
    <2>3. QED
      BY <1>0, <1>4, <2>1, <2>2, EditFrame
      DEF HostTypeOK, HasJob, WorkerTypeOK, HasClaim
  <1>5. CASE Turns
    BY <1>0, <1>5, TurnTyped, TurnFrame
    DEF HostTypeOK, HasJob, WorkerTypeOK, HasClaim, EditTypeOK
  <1>6. CASE Outside
    <2>1. disk' \in Nat /\ contents' \in Nat /\ expired' \subseteq Jobs
      <3>1. CASE OthersWrite
        BY <1>0, <3>1 DEF OthersWrite, ForeignWrite, EditTypeOK, files
      <3>2. ASSUME NEW j \in Jobs, RequestExpires(j)
            PROVE  /\ disk' \in Nat /\ contents' \in Nat
                   /\ expired' \subseteq Jobs
        BY <1>0, <3>2 DEF RequestExpires, Expire, EditTypeOK, assetVars
      <3>3. QED
        BY <1>6, <3>1, <3>2 DEF Outside
    <2>2. QED
      BY <1>0, <1>6, <2>1, OutsideFrame
      DEF HostTypeOK, HasJob, WorkerTypeOK, HasClaim, EditTypeOK
  <1>7. CASE UNCHANGED vars
    BY <1>0, <1>7 DEF vars, hostVars, assetVars, files, HostTypeOK, HasJob,
                      WorkerTypeOK, HasClaim, EditTypeOK
  <1>8. QED
    BY <1>2, <1>3, <1>4, <1>5, <1>6, <1>7, Movers

-----------------------------------------------------------------------------
(* Jobs without a row, attempts and answers.                               *)

\* Where the beginning and the end of a save leave the claim and the save.
LEMMA TurnMoves ==
  ASSUME TypeOK, Occupied, Turns
  PROVE  \/ /\ UNCHANGED worker /\ worker.pc = "polling"
            /\ \/ edit'.pc = "check" /\ journal[worker.job] = NoJournal
               \/ edit'.pc = "recover"
         \/ /\ edit.pc = "receipt" /\ worker'.pc = "sealing"
            /\ worker'.outcome = Outcome("completed", edit.receipt)
            /\ worker'.job = worker.job /\ worker.pc = "polling"
            /\ edit'.pc = "idle"
         \/ /\ worker'.pc = "publish"
            /\ worker'.outcome = Outcome("state_unknown", "none")
            /\ worker'.job = worker.job /\ worker.pc = "polling"
            /\ edit'.pc = "idle"
         \/ worker'.pc = "idle" /\ worker'.job = "none" /\ edit'.pc = "idle"
  <1> USE DEF WorkerTypeOK, Claims
  <1>0. WorkerTypeOK /\ (edit.pc # "idle" => worker.pc = "polling")
    BY TypeParts
  <1>1. NoEdit.pc = "idle"
    BY DEF NoEdit
  <1>2. CASE EnterEdit
    <2>1. \/ edit' = [NoEdit EXCEPT !.pc = "recover"]
          \/ edit' = [NoEdit EXCEPT !.pc = "check"]
             /\ journal[worker.job] = NoJournal
      BY <1>2 DEF EnterEdit
    <2>2. CASE edit' = [NoEdit EXCEPT !.pc = "recover"]
      <3>1. edit'.pc = "recover"
        BY <2>2 DEF NoEdit
      <3>2. QED
        BY <1>2, <3>1 DEF EnterEdit
    <2>3. CASE /\ edit' = [NoEdit EXCEPT !.pc = "check"]
               /\ journal[worker.job] = NoJournal
      <3>1. edit'.pc = "check"
        BY <2>3 DEF NoEdit
      <3>2. QED
        BY <1>2, <2>3, <3>1 DEF EnterEdit
    <2>4. QED
      BY <2>1, <2>2, <2>3
  <1>3. CASE EndEdit
    BY <1>0, <1>1, <1>3 DEF EndEdit, PollCompletes
  <1>4. CASE EditEscapes
    BY <1>0, <1>1, <1>4 DEF EditEscapes, PollFails
  <1>5. CASE EditorReload
    BY <1>1, <1>5 DEF EditorReload, Reload, Unclaimed
  <1>6. QED
    BY <1>2, <1>3, <1>4, <1>5 DEF Turns

\* A row does not go away, and a call names a job that has one.
LEMMA RowsStay ==
  ASSUME TypeOK, Occupied, Receipting, Known, HostMoves
  PROVE  \A i \in Jobs : rows'[i] = "none" =>
           rows[i] = "none" /\ i \notin incoming' /\ call'.job # i
  <1>0. /\ HostTypeOK /\ HasJob /\ WorkerTypeOK /\ HasClaim
    BY TypeParts
  <1> DEFINE Kept == \A i \in Jobs : rows'[i] = "none" =>
               rows[i] = "none" /\ i \notin incoming' /\ call'.job # i
  <1> SUFFICES Kept
    OBVIOUS
  <1> USE DEF HostLeaves, files, assetVars, hostVars, Quiet, Row
  <1>1. ASSUME NEW j \in Jobs, SubmitEdit(j)
        PROVE  Kept
    BY <1>0, <1>1 DEF SubmitEdit, Known, HostTypeOK, Calls
  <1>2. ASSUME NEW j \in Jobs, Refresh(j)
        PROVE  Kept
    <2>1. call'.job \in {"none", j}
      <3>1. call' = Quiet \/ call' = [Quiet EXCEPT !.pc = "check", !.job = j]
        BY <1>2 DEF Refresh
      <3>2. /\ Quiet.job = "none"
            /\ [Quiet EXCEPT !.pc = "check", !.job = j].job = j
        OBVIOUS
      <3>3. QED
        BY <3>1, <3>2, Zenon
    <2>2. rows[j] # "none" /\ incoming' = incoming
      BY <1>2 DEF Refresh, Pending
    <2>3. \A i \in Jobs : rows'[i] = "none" => rows[i] = "none"
      BY <1>0, <1>2 DEF Refresh, HostTypeOK
    <2>4. QED
      BY <2>1, <2>2, <2>3, JobsAssumption, <1>2 DEF Known, Refresh
  <1>3. ASSUME NEW s \in States \ {"none"}, NEW c, Settles(s, c),
               UNCHANGED <<files, assetVars>>
        PROVE  Kept
    BY <1>0, <1>3, JobsAssumption DEF Settles, Known, HostTypeOK
  <1>4. CASE StoreEnvelope \/ RecordDispatch
    BY <1>0, <1>4 DEF StoreEnvelope, RecordDispatch, Known, HostTypeOK,
                      Calls
  <1>5. CASE CheckBinding
    <2>1. \/ Settles("failed", "null")
          \/ call' = [call EXCEPT !.pc = "incoming",
                                  !.allow = rows[call.job] = "queued"]
             /\ UNCHANGED hostVars
      BY <1>5 DEF CheckBinding
    <2>2. UNCHANGED <<files, assetVars>>
      BY <1>5 DEF CheckBinding
    <2>3. CASE Settles("failed", "null")
      BY <1>3, <2>2, <2>3 DEF States
    <2>4. CASE /\ call' = [call EXCEPT !.pc = "incoming",
                                       !.allow = rows[call.job] = "queued"]
               /\ UNCHANGED hostVars
      <3>1. call'.job = call.job
        BY <1>0, <2>4 DEF HostTypeOK, Calls
      <3>2. QED
        BY <2>2, <2>4, <3>1 DEF Known
    <2>5. QED
      BY <2>1, <2>3, <2>4
  <1>6. CASE EnqueueRefused \/ ConsumeError \/ BindingIsStale \/ CompleteRow
    <2>1. UNCHANGED <<files, assetVars>>
      BY <1>6 DEF EnqueueRefused, ConsumeError, BindingIsStale, CompleteRow
    <2>2. \E s \in States \ {"none"}, c \in {"null", "yes", "no"} :
            Settles(s, c)
      BY <1>6 DEF EnqueueRefused, ConsumeError, BindingIsStale, CompleteRow,
                  States
    <2>3. QED
      BY <1>3, <2>1, <2>2
  <1>7. CASE ConsumeReceipt
    <2>1. results[call.job].receipt
            \in {"completed", "failed", "state_unknown"}
      BY <1>0, <1>7 DEF ConsumeReceipt, HasJob, WorkerTypeOK, Outcomes,
                        Receipts, Receipting, Receipted
    <2>2. \/ call' = [call EXCEPT !.pc = "facts"] /\ UNCHANGED hostVars
          \/ \E s \in States \ {"none"}, c \in {"null", "yes", "no"} :
               Settles(s, c)
      BY <1>7, <2>1 DEF ConsumeReceipt, ConsumedPhase, States
    <2>3. UNCHANGED <<files, assetVars>>
      BY <1>7 DEF ConsumeReceipt
    <2>4. CASE call' = [call EXCEPT !.pc = "facts"] /\ UNCHANGED hostVars
      BY <1>0, <2>3, <2>4 DEF Known, HostTypeOK, Calls
    <2>5. QED
      BY <1>3, <2>2, <2>3, <2>4
  <1>8. CASE NoAnswerYet
    BY <1>8, JobsAssumption DEF NoAnswerYet, Known
  <1>9. CASE RecordFacts
    BY <1>0, <1>9 DEF RecordFacts, Known, HostTypeOK, Calls
  <1>10. CASE HostCrash
    BY <1>10, JobsAssumption DEF HostCrash, Known
  <1>11. CASE Enqueue /\ UNCHANGED <<assetVars, hostVars, mishaps>>
    <2>1. call.job \in Jobs
      BY <1>0, <1>11 DEF HasJob, Enqueue, LookIncoming, LookProcessing,
                         ReadRequest, RequestMoved, LookResult, Reserve,
                         PublishRequest
    <2>2. call'.job = call.job
      BY <1>0, <1>11 DEF HostTypeOK, Calls, Enqueue, LookIncoming,
            LookProcessing, ReadRequest, RequestMoved, LookResult, Reserve,
            PublishRequest, Ticket, Refused
    <2>3. incoming' \in {incoming, incoming \cup {call.job}}
      BY <1>11 DEF Enqueue, LookIncoming, LookProcessing, ReadRequest,
                   RequestMoved, LookResult, Reserve, PublishRequest
    <2>4. UNCHANGED rows
      BY <1>11
    <2>5. QED
      BY <2>1, <2>2, <2>3, <2>4 DEF Known
  <1> HIDE DEF Kept
  <1>12. QED
    BY <1>1, <1>2, <1>4, <1>5, <1>6, <1>7, <1>8, <1>9, <1>10, <1>11
    DEF HostMoves, HostStep

LEMMA KnownInvariance ==
  ASSUME TypeOK, Occupied, Receipting, Known, [Next]_vars
  PROVE  Known'
  <1>0. /\ HostTypeOK /\ HasJob /\ WorkerTypeOK /\ HasClaim
    BY TypeParts
  <1>1. CASE HostMoves
    BY <1>1, RowsStay, HostFrame DEF Known
  <1>2. CASE WorkerMoves
    <2> DEFINE Kept == /\ incoming' \cup processing'
                            \subseteq incoming \cup processing
                       /\ worker'.job \in {worker.job, "none"}
                                            \cup incoming \cup processing
    <2>1. Kept
      <3>1. ASSUME NEW j \in Jobs, SweepProcessing(j)
            PROVE  Kept
        <4>1. worker'.job \in {worker.job, j}
          BY <3>1 DEF SweepProcessing, Resume, Claim
        <4>2. QED
          BY <3>1, <4>1 DEF SweepProcessing
      <3>2. ASSUME NEW j \in Jobs, SweepIncoming(j)
            PROVE  Kept
        <4>1. worker'.job \in {worker.job, j}
          BY <3>2 DEF SweepIncoming, Claim
        <4>2. QED
          BY <3>2, <4>1 DEF SweepIncoming
      <3>3. CASE RecordAttempt \/ RecordTombstone \/ Seal
        BY <1>0, <3>3 DEF RecordAttempt, RecordTombstone, Seal, files,
                          WorkerTypeOK, Claims
      <3>4. CASE PublishResult \/ ArchiveRequest \/ ArchiveAttempt
        BY <1>0, <3>4 DEF PublishResult, ArchiveRequest, ArchiveAttempt,
                          WorkerTypeOK, Claims, Unclaimed
      <3>5. CASE StartOperation \/ SealFails
        BY <1>0, <3>5 DEF StartOperation, SealFails, files, WorkerTypeOK,
                          Claims
      <3>6. CASE RefuseOperation
        BY <1>0, <3>6 DEF RefuseOperation, files, WorkerTypeOK, Claims
      <3> HIDE DEF Kept
      <3>7. QED
        BY <1>2, <3>1, <3>2, <3>3, <3>4, <3>5, <3>6
        DEF WorkerMoves, WorkerStep, WorkerFault
    <2>2. QED
      BY <1>2, <2>1, WorkerFrame, JobsAssumption DEF Known
  <1>3. CASE EditMoves
    BY <1>3, EditFrame DEF Known
  <1>4. CASE Turns
    BY <1>4, TurnMoves, TurnFrame, JobsAssumption DEF Known
  <1>5. CASE Outside
    BY <1>5, OutsideFrame DEF Known
  <1>6. CASE UNCHANGED vars
    BY <1>6 DEF vars, files, hostVars, Known
  <1>7. QED
    BY <1>1, <1>2, <1>3, <1>4, <1>5, <1>6, Movers

\* The provider's Start is behind the tombstone, and a claim that means to
\* begin a job is the first.
LEMMA AttemptsInvariance ==
  ASSUME TypeOK, Occupied, Attempts, [Next]_vars
  PROVE  Attempts'
  <1>0. WorkerTypeOK /\ HasClaim
    BY TypeParts
  <1>1. CASE HostMoves
    BY <1>1, HostFrame DEF Attempts
  <1>2. CASE EditMoves
    BY <1>2, EditFrame DEF Attempts
  <1>3. CASE Outside
    BY <1>3, OutsideFrame DEF Attempts
  <1>4. CASE Turns
    BY <1>4, TurnMoves, TurnFrame DEF Attempts
  <1>5. CASE WorkerMoves
    <2>1. ASSUME NEW j \in Jobs, SweepProcessing(j) \/ SweepIncoming(j)
          PROVE  Attempts'
      <3>1. \/ UNCHANGED worker
            \/ worker'.pc = "publish"
            \/ worker'.pc = "tombstone" /\ worker'.recovering
            \/ worker'.pc = "attempt" /\ worker'.job = j /\ j \notin prior
        <4>1. CASE SweepProcessing(j)
          BY <4>1 DEF SweepProcessing, Resume, Claim
        <4>2. CASE SweepIncoming(j)
          BY <4>2 DEF SweepIncoming, Claim
        <4>3. QED
          BY <2>1, <4>1, <4>2
      <3>2. UNCHANGED <<prior, begun>>
        BY <2>1 DEF SweepProcessing, SweepIncoming
      <3>3. QED
        BY <3>1, <3>2 DEF Attempts
    <2>2. CASE RecordAttempt
      BY <1>0, <2>2 DEF RecordAttempt, Attempts, WorkerTypeOK, Claims
    <2>3. CASE RecordTombstone
      BY <1>0, <2>3 DEF RecordTombstone, Attempts, WorkerTypeOK, Claims
    <2>4. CASE StartOperation \/ RefuseOperation
      <3>1. worker.pc = "provider" /\ Entered /\ UNCHANGED prior
        BY <2>4 DEF StartOperation, RefuseOperation, files
      <3>2. worker'.pc \in {"polling", "publish"}
        BY <1>0, <2>4 DEF StartOperation, RefuseOperation, WorkerTypeOK,
                          Claims
      <3>3. worker.job \in Jobs /\ worker.job \in prior
        BY <1>0, <3>1 DEF HasClaim, Attempts
      <3>4. CASE worker.recovering
        BY <3>1, <3>2, <3>4 DEF Entered, Attempts
      <3>5. CASE ~worker.recovering
        <4>1. begun[worker.job] = 0
          BY <3>1, <3>5 DEF Attempts
        <4>2. begun' = [begun EXCEPT ![worker.job] = begun[worker.job] + 1]
          BY <3>1, <3>5 DEF Entered
        <4>3. begun' = [begun EXCEPT ![worker.job] = 1]
          BY <4>1, <4>2
        <4>4. QED
          BY <1>0, <3>1, <3>2, <3>3, <4>3 DEF Attempts, WorkerTypeOK
      <3>6. QED
        BY <3>4, <3>5
    <2>5. CASE \/ Seal \/ SealFails \/ PublishResult \/ ArchiveRequest
               \/ ArchiveAttempt
      <3>1. worker'.pc \in {"publish", "archive", "archive_attempt", "idle"}
        <4>1. CASE Seal \/ SealFails
          BY <1>0, <4>1 DEF Seal, SealFails, WorkerTypeOK, Claims
        <4>2. CASE PublishResult \/ ArchiveRequest \/ ArchiveAttempt
          BY <1>0, <4>2 DEF PublishResult, ArchiveRequest, ArchiveAttempt,
                            Unclaimed, WorkerTypeOK, Claims
        <4>3. QED
          BY <2>5, <4>1, <4>2
      <3>2. UNCHANGED <<prior, begun>>
        BY <2>5 DEF Seal, SealFails, PublishResult, ArchiveRequest,
                    ArchiveAttempt, files
      <3>3. QED
        BY <3>1, <3>2 DEF Attempts
    <2>6. QED
      BY <1>5, <2>1, <2>2, <2>3, <2>4, <2>5
      DEF WorkerMoves, WorkerStep, WorkerFault
  <1>6. CASE UNCHANGED vars
    BY <1>6 DEF vars, files, Attempts
  <1>7. QED
    BY <1>1, <1>2, <1>3, <1>4, <1>5, <1>6, Movers

\* Where a step of the worker leaves the claim, and which result it writes.
LEMMA ClaimMoves ==
  ASSUME TypeOK, Occupied, WorkerMoves
  PROVE  \/ UNCHANGED <<worker, results>>
         \/ /\ worker.pc = "idle" /\ ~HasResult(worker'.job)
            /\ \/ worker'.pc \in {"attempt", "tombstone"}
               \/ worker'.pc = "publish"
                  /\ worker'.outcome = Outcome("state_unknown", "none")
            /\ UNCHANGED results
         \/ /\ worker.pc \in {"attempt", "tombstone", "provider"}
            /\ worker'.pc \in {"tombstone", "provider", "polling"}
            /\ worker'.job = worker.job /\ UNCHANGED results
         \/ /\ worker.pc = "sealing" /\ worker'.pc = "publish"
            /\ worker'.outcome = worker.outcome
            /\ worker'.job = worker.job /\ UNCHANGED results
         \/ /\ worker.pc \in {"provider", "sealing"} /\ worker'.pc = "publish"
            /\ \E s \in {"failed", "state_unknown"} :
                 worker'.outcome = Outcome(s, "none")
            /\ worker'.job = worker.job /\ UNCHANGED results
         \/ /\ worker.pc = "publish" /\ worker'.pc = "archive"
            /\ results' = [results EXCEPT ![worker.job] = worker.outcome]
            /\ worker'.job = worker.job
         \/ /\ worker'.pc \in {"archive_attempt", "idle"}
            /\ UNCHANGED results
  <1> USE DEF WorkerTypeOK, Claims, files
  <1>0. WorkerTypeOK /\ HasClaim
    BY TypeParts
  <1>1. ASSUME NEW j \in Jobs, SweepProcessing(j)
        PROVE  \/ UNCHANGED <<worker, results>>
               \/ /\ worker.pc = "idle" /\ ~HasResult(worker'.job)
                  /\ \/ worker'.pc \in {"attempt", "tombstone"}
                     \/ worker'.pc = "publish"
                        /\ worker'.outcome = Outcome("state_unknown", "none")
                  /\ UNCHANGED results
    BY <1>1 DEF SweepProcessing, Answered, Resume, Claim
  <1>2. ASSUME NEW j \in Jobs, SweepIncoming(j)
        PROVE  \/ UNCHANGED <<worker, results>>
               \/ /\ worker.pc = "idle" /\ ~HasResult(worker'.job)
                  /\ \/ worker'.pc \in {"attempt", "tombstone"}
                     \/ worker'.pc = "publish"
                        /\ worker'.outcome = Outcome("state_unknown", "none")
                  /\ UNCHANGED results
    BY <1>2 DEF SweepIncoming, Answered, Claim
  <1>3. CASE RecordAttempt \/ RecordTombstone \/ StartOperation
    BY <1>0, <1>3 DEF RecordAttempt, RecordTombstone, StartOperation
  <1>4. CASE Seal
    BY <1>0, <1>4 DEF Seal
  <1>5. CASE RefuseOperation
    BY <1>0, <1>5 DEF RefuseOperation
  <1>6. CASE SealFails
    BY <1>0, <1>6 DEF SealFails
  <1>7. CASE PublishResult
    BY <1>0, <1>7 DEF PublishResult
  <1>8. CASE ArchiveRequest \/ ArchiveAttempt
    BY <1>0, <1>8 DEF ArchiveRequest, ArchiveAttempt, Unclaimed
  <1>9. QED
    BY <1>1, <1>2, <1>3, <1>4, <1>5, <1>6, <1>7, <1>8
    DEF WorkerMoves, WorkerStep, WorkerFault

LEMMA UnansweredInvariance ==
  ASSUME TypeOK, Occupied, Unanswered, [Next]_vars
  PROVE  Unanswered'
  <1> USE DEF HasResult
  <1>1. CASE HostMoves
    BY <1>1, HostFrame DEF Unanswered
  <1>2. CASE EditMoves
    BY <1>2, EditFrame DEF Unanswered
  <1>3. CASE Outside
    BY <1>3, OutsideFrame DEF Unanswered
  <1>4. CASE Turns
    BY <1>4, TurnMoves, TurnFrame DEF Unanswered
  <1>5. CASE WorkerMoves
    BY <1>5, ClaimMoves DEF Unanswered
  <1>6. CASE UNCHANGED vars
    BY <1>6 DEF vars, files, Unanswered
  <1>7. QED
    BY <1>1, <1>2, <1>3, <1>4, <1>5, <1>6, Movers

\* Only the worker writes a result, and only of the job it has claimed.
LEMMA AnswerKept ==
  ASSUME TypeOK, Occupied, Unanswered, [Next]_vars,
         NEW j \in Jobs, HasResult(j)
  PROVE  results'[j] = results[j]
  <1>1. CASE WorkerMoves
    <2>1. \/ UNCHANGED results
          \/ /\ worker.pc = "publish"
             /\ results' = [results EXCEPT ![worker.job] = worker.outcome]
      BY <1>1, ClaimMoves
    <2>2. results \in [Jobs -> Outcomes]
      BY DEF TypeOK, MailboxTypeOK
    <2>3. QED
      BY <2>1, <2>2 DEF Unanswered, HasResult
  <1>2. CASE HostMoves \/ EditMoves \/ Turns \/ Outside \/ UNCHANGED vars
    BY <1>2, HostFrame, EditFrame, TurnFrame, OutsideFrame DEF vars, files
  <1>3. QED
    BY <1>1, <1>2, Movers

-----------------------------------------------------------------------------
(* What a step of the save does to the journal and to the file.            *)

FileKept == UNCHANGED <<disk, contents, wrote, undone>>

LEMMA JournalWrites ==
  ASSUME TypeOK, worker.job \in Jobs, NEW ph, NEW a, Journal(ph, a)
  PROVE  /\ journal'[worker.job].phase = ph
         /\ \A k \in Jobs \ {worker.job} : journal'[k] = journal[k]
  BY DEF TypeOK, AssetTypeOK, Journal

LEMMA GoesTo ==
  ASSUME TypeOK, NEW pc, Goto(pc)
  PROVE  edit'.pc = pc
  BY DEF TypeOK, AssetTypeOK, Goto

LEMMA Finishes ==
  ASSUME TypeOK, NEW r, Ends(r)
  PROVE  edit'.pc = "receipt" /\ edit'.receipt = r
  BY DEF TypeOK, AssetTypeOK, Ends

LEMMA Overwrites ==
  ASSUME TypeOK, worker.job \in Jobs, Overwrite
  PROVE  /\ disk' = contents + 1 /\ contents' = contents + 1
         /\ wrote'[worker.job] = wrote[worker.job] \cup {contents + 1}
         /\ \A k \in Jobs \ {worker.job} : wrote'[k] = wrote[k]
  BY DEF TypeOK, AssetTypeOK, Overwrite

\* The phase that the step writes into the job's journal, the pc it goes to
\* and the receipt it ends with.
Writes(from, to, phase) ==
  /\ edit.pc = from /\ edit'.pc = to
  /\ journal'[worker.job].phase = phase
  /\ \A k \in Jobs \ {worker.job} : journal'[k] = journal[k]
Reports(from, r) == Writes(from, "receipt", r) /\ edit'.receipt = r
Passes(from, to) ==
  edit.pc = from /\ edit'.pc = to /\ UNCHANGED journal

EditEffect ==
  \/ /\ FileKept
     /\ \/ Writes("check", "modify", "mutating") /\ disk = Before
        \/ Reports("check", "failed")
        \/ Writes("modify", "save", "saving")
        \/ \E pc \in {"modify", "save", "verify"} : Passes(pc, "undo")
        \/ Reports("verify", "completed") /\ disk = edit.saved
        \/ Writes("undo", "restore", "rolling_back")
        \/ \E pc \in {"undo", "restore", "prove"} :
             Reports(pc, "state_unknown")
        \/ Passes("restore", "prove")
        \/ Reports("prove", "failed") /\ disk = Before
        \/ /\ Passes("recover", "receipt")
           /\ edit'.receipt \in {"completed", "failed"} =>
                journal[worker.job].phase = edit'.receipt
           /\ edit'.receipt # "none"
  \/ /\ Overwrite /\ UNCHANGED undone
     /\ \/ Passes("save", "verify") /\ edit'.saved = contents + 1
        \/ Passes("save", "undo")
  \/ /\ Passes("restore", "prove")
     /\ undone' = undone \cup {worker.job}
     /\ \/ Overwrite
        \/ disk' = Before /\ UNCHANGED <<contents, wrote>>

LEMMA EditEffects ==
  ASSUME TypeOK, Occupied, EditMoves
  PROVE  EditEffect
  <1> USE DEF EditEffect
  <1>0. worker.job \in Jobs
    BY EditsInPoll
  <1> USE DEF At
  <1>1. CASE CheckTarget
    <2>1. FileKept
      BY <1>1 DEF CheckTarget, FileKept
    <2>2. CASE disk = Before
      <3>1. Writes("check", "modify", "mutating")
        BY <1>0, <1>1, <2>2, JournalWrites, GoesTo DEF CheckTarget, Writes
      <3>2. QED
        BY <2>1, <2>2, <3>1
    <2>3. CASE disk # Before
      <3>1. Reports("check", "failed")
        BY <1>0, <1>1, <2>3, JournalWrites, Finishes
        DEF CheckTarget, Writes, Reports
      <3>2. QED
        BY <2>1, <3>1
    <2>4. QED
      BY <2>2, <2>3
  <1>2. CASE Modify
    <2>1. FileKept
      BY <1>2 DEF Modify, FileKept
    <2>2. \/ Writes("modify", "save", "saving") \/ Passes("modify", "undo")
      BY <1>0, <1>2, JournalWrites, GoesTo DEF Modify, Writes, Passes
    <2>3. QED
      BY <2>1, <2>2
  <1>3. CASE Save
    <2>1. Passes("save", "verify") /\ edit'.saved = contents + 1
      BY <1>3 DEF Save, Passes, TypeOK, AssetTypeOK
    <2>2. QED
      BY <1>3, <2>1 DEF Save
  <1>4. CASE Verify
    <2>1. FileKept
      BY <1>4 DEF Verify, FileKept
    <2>2. \/ Reports("verify", "completed") /\ disk = edit.saved
          \/ Passes("verify", "undo")
      BY <1>0, <1>4, JournalWrites, GoesTo, Finishes
      DEF Verify, Reports, Writes, Passes
    <2>3. QED
      BY <2>1, <2>2
  <1>5. ASSUME NEW pc, GivesUp, edit.pc = pc
        PROVE  Reports(pc, "state_unknown")
    BY <1>0, <1>5, JournalWrites, Finishes DEF GivesUp, Reports, Writes
  <1>6. CASE Undo
    <2>1. FileKept
      BY <1>6 DEF Undo, FileKept
    <2>2. \/ Writes("undo", "restore", "rolling_back")
          \/ Reports("undo", "state_unknown")
      <3>1. CASE Attributable
        <4>1. edit'.pc = "restore"
          BY <1>6, <3>1 DEF Undo, TypeOK, AssetTypeOK
        <4>2. QED
          BY <1>0, <1>6, <3>1, <4>1, JournalWrites DEF Undo, Writes
      <3>2. CASE ~Attributable
        BY <1>5, <1>6, <3>2 DEF Undo
      <3>3. QED
        BY <3>1, <3>2
    <2>3. QED
      BY <2>1, <2>2
  <1>7. CASE Restore
    <2>1. Passes("restore", "prove")
      BY <1>7, GoesTo DEF Restore, Passes
    <2>2. \/ FileKept
          \/ /\ undone' = undone \cup {worker.job}
             /\ disk' = Before /\ UNCHANGED <<contents, wrote>>
      BY <1>7 DEF Restore, FileKept
    <2>3. QED
      BY <2>1, <2>2
  <1>8. CASE Prove
    <2>1. FileKept
      BY <1>8 DEF Prove, FileKept
    <2>2. \/ Reports("prove", "failed") /\ disk = Before
          \/ Reports("prove", "state_unknown")
      BY <1>0, <1>5, <1>8, JournalWrites, Finishes
      DEF Prove, Restored, Reports, Writes
    <2>3. QED
      BY <2>1, <2>2
  <1>9. CASE Recover
    <2>1. FileKept /\ UNCHANGED journal /\ edit.pc = "recover"
      BY <1>9 DEF Recover, FileKept
    <2>2. edit'.pc = "receipt" /\ edit'.receipt = Recovered
      BY <1>9, Finishes DEF Recover
    <2>3. /\ Recovered \in {"completed", "failed"} =>
               journal[worker.job].phase = Recovered
          /\ Recovered # "none"
      BY DEF Recovered, Proved
    <2>4. QED
      BY <2>1, <2>2, <2>3 DEF Passes
  <1>10. CASE Throws
    <2>1. FileKept
      BY <1>10 DEF Throws, FileKept
    <2>2. CASE At("check") /\ Journal("failed", NoContent) /\ Ends("failed")
      <3>1. Reports("check", "failed")
        BY <1>0, <2>2, JournalWrites, Finishes DEF Writes, Reports
      <3>2. QED
        BY <2>1, <3>1
    <2>3. CASE edit.pc \in {"modify", "save", "verify"} /\ Goto("undo")
               /\ UNCHANGED journal
      BY <2>1, <2>3, GoesTo DEF Passes
    <2>4. CASE edit.pc \in {"restore", "prove"} /\ GivesUp
      BY <1>5, <2>1, <2>4
    <2>5. CASE At("recover") /\ Ends("state_unknown") /\ UNCHANGED journal
      BY <2>1, <2>5, Finishes DEF Passes
    <2>6. QED
      BY <1>10, <2>2, <2>3, <2>4, <2>5 DEF Throws
  <1>11. CASE SavesBadly
    BY <1>11, GoesTo DEF SavesBadly, Passes
  <1> HIDE DEF EditEffect
  <1>12. QED
    BY <1>1, <1>2, <1>3, <1>4, <1>6, <1>7, <1>8, <1>9, <1>10, <1>11
    DEF EditMoves, EditStep, EditFault

LEMMA ReceiptingInvariance ==
  ASSUME TypeOK, Occupied, Unanswered, Receipting, [Next]_vars
  PROVE  Receipting'
  <1> USE DEF Receipted, Outcome, NoOutcome
  <1>0. /\ results \in [Jobs -> Outcomes]
        /\ edit.pc # "idle" => worker.pc = "polling"
        /\ worker.pc # "idle" => worker.job \in Jobs
    BY DEF TypeOK, MailboxTypeOK, Occupied
  <1>1. CASE HostMoves
    BY <1>1, HostFrame DEF Receipting
  <1>2. CASE Outside
    BY <1>2, OutsideFrame DEF Receipting
  <1>3. CASE Turns
    BY <1>3, TurnMoves, TurnFrame DEF Receipting
  <1>4. CASE WorkerMoves
    <2>1. edit.pc = "idle"
      BY <1>0, <1>4, WorkerWaits
    <2>2. UNCHANGED <<journal, edit>>
      BY <1>4, WorkerFrame
    <2>3. \A j \in Jobs : Receipted(results'[j], j)
      <3>1. \/ UNCHANGED results
            \/ /\ worker.pc = "publish"
               /\ results' = [results EXCEPT ![worker.job] = worker.outcome]
        BY <1>4, ClaimMoves
      <3>2. QED
        BY <1>0, <3>1 DEF Receipting
    <2>4. worker'.pc \in {"sealing", "publish"} =>
            Receipted(worker'.outcome, worker'.job)
      BY <1>4, ClaimMoves DEF Receipting
    <2>5. QED
      BY <2>1, <2>2, <2>3, <2>4 DEF Receipting
  <1>5. CASE EditMoves
    <2>1. /\ worker.pc = "polling" /\ worker.job \in Jobs
          /\ UNCHANGED <<worker, results>>
      BY <1>5, EditsInPoll, EditFrame
    <2>2. results[worker.job] = NoOutcome
      BY <2>1 DEF Unanswered, HasResult
    <2>3. \A k \in Jobs \ {worker.job} : journal'[k] = journal[k]
      BY <1>5, EditEffects
      DEF EditEffect, Writes, Reports, Passes
    <2>4. edit'.pc = "receipt" =>
            /\ edit'.receipt # "none"
            /\ edit'.receipt \in {"completed", "failed"} =>
                 journal'[worker.job].phase = edit'.receipt
      BY <1>5, EditEffects
      DEF EditEffect, Writes, Reports, Passes
    <2>5. QED
      BY <2>1, <2>2, <2>3, <2>4 DEF Receipting
  <1>6. CASE UNCHANGED vars
    BY <1>6 DEF vars, files, assetVars, Receipting
  <1>7. QED
    BY <1>1, <1>2, <1>3, <1>4, <1>5, <1>6, Movers

\* The journal follows the save, and the file follows the journal.
LEMMA JournalInvariance ==
  ASSUME TypeOK, Occupied, Staged, Journalled, [Next]_vars
  PROVE  Staged' /\ Journalled'
  <1>0. /\ edit.pc # "idle" => worker.pc = "polling"
        /\ worker.pc # "idle" => worker.job \in Jobs
    BY DEF Occupied
  <1>1. CASE HostMoves
    BY <1>1, HostFrame DEF Staged, Journalled
  <1>2. CASE Outside
    BY <1>2, OutsideFrame DEF Staged, Journalled
  <1>3. CASE Turns
    <2>1. Staged'
      BY <1>3, TurnMoves, TurnFrame DEF Staged, NoJournal
    <2>2. QED
      BY <1>3, <2>1, TurnFrame DEF Journalled
  <1>4. CASE WorkerMoves
    <2>1. edit.pc = "idle"
      BY <1>0, <1>4, WorkerWaits
    <2>2. QED
      BY <1>4, <2>1, WorkerFrame DEF Staged, Journalled
  <1>5. CASE EditMoves
    <2> DEFINE w == worker.job
    <2>1. w \in Jobs /\ UNCHANGED worker
      BY <1>5, EditsInPoll, EditFrame
    <2>2. \A k \in Jobs \ {w} : /\ journal'[k] = journal[k]
                                /\ wrote'[k] = wrote[k]
                                /\ k \in undone' <=> k \in undone
      <3>1. \A k \in Jobs \ {w} : journal'[k] = journal[k]
        BY <1>5, EditEffects
        DEF EditEffect, Writes, Reports, Passes
      <3>2. \A k \in Jobs \ {w} : wrote'[k] = wrote[k]
        BY <1>5, <2>1, EditEffects, Overwrites DEF EditEffect, FileKept
      <3>3. undone' \in {undone, undone \cup {w}}
        BY <1>5, EditEffects DEF EditEffect, FileKept
      <3>4. QED
        BY <3>1, <3>2, <3>3
    <2>3. Staged'
      BY <1>5, <2>1, EditEffects, Overwrites
      DEF Staged, EditEffect, FileKept, Writes, Reports, Passes
    <2>4. LET phase == journal'[w].phase IN
          /\ phase \in {"none", "mutating"} => wrote'[w] = {}
          /\ phase \in {"none", "mutating", "saving", "completed"} =>
               w \notin undone'
          /\ phase = "completed" => wrote'[w] # {}
      BY <1>5, <2>1, EditEffects, Overwrites
      DEF Staged, Journalled, EditEffect, FileKept, Writes, Reports, Passes
    <2>5. QED
      BY <2>2, <2>3, <2>4 DEF Journalled
  <1>6. CASE UNCHANGED vars
    BY <1>6 DEF vars, files, assetVars, Staged, Journalled
  <1>7. QED
    BY <1>1, <1>2, <1>3, <1>4, <1>5, <1>6, Movers

-----------------------------------------------------------------------------
(* The numbers of the contents, and what will not come back.               *)

\* Only the acceptance of a job sets what it expects, and it has not been
\* there before.
LEMMA ExpectedKept ==
  ASSUME TypeOK, Occupied, [Next]_vars
  PROVE  \/ UNCHANGED expected
         \/ \E j \in Jobs : /\ SubmitEdit(j) /\ rows[j] = "none"
                            /\ expected' = [expected EXCEPT ![j] = disk]
  <1>1. CASE HostMoves
    <2>1. ASSUME NEW j \in Jobs, SubmitEdit(j)
          PROVE  /\ rows[j] = "none"
                 /\ expected' = [expected EXCEPT ![j] = disk]
      BY <2>1 DEF SubmitEdit
    <2>2. ASSUME NEW j \in Jobs, Refresh(j)
          PROVE  UNCHANGED expected
      BY <2>2 DEF Refresh, HostLeaves, assetVars
    <2>3. CASE HostStep \/ BindingIsStale \/ HostCrash
      BY <2>3 DEF HostStep, BindingIsStale, HostCrash, StoreEnvelope,
           CheckBinding, EnqueueRefused, RecordDispatch, NoAnswerYet,
           ConsumeError, ConsumeReceipt, RecordFacts, CompleteRow,
           HostLeaves, assetVars
    <2>4. QED
      BY <1>1, <2>1, <2>2, <2>3 DEF HostMoves
  <1>2. CASE \/ WorkerMoves \/ EditMoves \/ Turns \/ Outside
             \/ UNCHANGED vars
    BY <1>2, WorkerFrame, EditFrame, TurnFrame, OutsideFrame
    DEF vars, assetVars
  <1>3. QED
    BY <1>1, <1>2, Movers

LEMMA UnwrittenInvariance ==
  ASSUME TypeOK, Occupied, Receipting, Known, Unwritten, [Next]_vars
  PROVE  Unwritten'
  <1>0. rows \in [Jobs -> States]
    BY DEF TypeOK, States
  <1>1. CASE HostMoves
    <2>1. \A j \in Jobs : rows'[j] = "none" => rows[j] = "none"
      BY <1>1, RowsStay
    <2>2. QED
      BY <1>1, <2>1, HostFrame DEF Unwritten
  <1>2. CASE WorkerMoves \/ Turns \/ Outside \/ UNCHANGED vars
    BY <1>2, WorkerFrame, TurnFrame, OutsideFrame
    DEF vars, assetVars, hostVars, Unwritten
  <1>3. CASE EditMoves
    <2>1. worker.job \in Jobs /\ UNCHANGED rows
      BY <1>3, EditsInPoll, EditFrame
    <2>2. rows[worker.job] # "none"
      BY <2>1 DEF Known
    <2>3. \A k \in Jobs \ {worker.job} : wrote'[k] = wrote[k]
      BY <1>3, <2>1, EditEffects, Overwrites DEF EditEffect, FileKept
    <2>4. QED
      BY <2>1, <2>2, <2>3 DEF Unwritten
  <1>4. QED
    BY <1>1, <1>2, <1>3, Movers

LEMMA NumberedInvariance ==
  ASSUME TypeOK, Occupied, Unwritten, Numbered, [Next]_vars
  PROVE  Numbered'
  <1>0. /\ disk \in Nat /\ contents \in Nat /\ expected \in [Jobs -> Nat]
        /\ wrote \in [Jobs -> SUBSET Nat]
    BY DEF TypeOK, AssetTypeOK
  <1>1. CASE UNCHANGED <<disk, contents, wrote>>
    <2>1. CASE UNCHANGED expected
      BY <1>1, <2>1 DEF Numbered
    <2>2. ASSUME NEW j \in Jobs, rows[j] = "none",
                 expected' = [expected EXCEPT ![j] = disk]
          PROVE  Numbered'
      <3>1. wrote[j] = {}
        BY <2>2 DEF Unwritten
      <3>2. QED
        BY <1>0, <1>1, <2>2, <3>1 DEF Numbered
    <2>3. QED
      BY <2>1, <2>2, ExpectedKept
  <1>2. CASE EditMoves
    <2>1. worker.job \in Jobs /\ UNCHANGED expected
      BY <1>2, EditsInPoll, EditFrame
    <2>2. CASE Overwrite
      <3>1. /\ disk' = contents + 1 /\ contents' = contents + 1
            /\ wrote'[worker.job] = wrote[worker.job] \cup {contents + 1}
            /\ \A k \in Jobs \ {worker.job} : wrote'[k] = wrote[k]
        BY <2>1, <2>2, Overwrites
      <3>2. QED
        BY <1>0, <2>1, <3>1 DEF Numbered
    <2>3. CASE disk' \in {disk, Before} /\ UNCHANGED <<contents, wrote>>
      BY <1>0, <2>1, <2>3 DEF Numbered, Before
    <2>4. QED
      BY <1>2, <2>2, <2>3, EditEffects DEF EditEffect, FileKept
  <1>3. CASE Outside
    <2>1. \/ UNCHANGED <<disk, contents>>
          \/ disk' = contents + 1 /\ contents' = contents + 1
      BY <1>3 DEF Outside, OthersWrite, ForeignWrite, RequestExpires,
                  assetVars
    <2>2. UNCHANGED <<expected, wrote>>
      BY <1>3, OutsideFrame
    <2>3. QED
      BY <1>0, <2>1, <2>2 DEF Numbered
  <1>4. CASE HostMoves \/ WorkerMoves \/ Turns \/ UNCHANGED vars
    BY <1>1, <1>4, HostFrame, WorkerFrame, TurnFrame DEF vars, assetVars
  <1>5. QED
    BY <1>2, <1>3, <1>4, Movers

\* A failed job's contents stay out of the file: nobody saves them again, and
\* a running save restores the content it found in the file.
LEMMA DeniedInvariance ==
  ASSUME TypeOK, Occupied, Known, Staged, Journalled, Numbered, Denied,
         [Next]_vars
  PROVE  Denied'
  <1> USE DEF Restorable
  <1>0. /\ disk \in Nat /\ contents \in Nat /\ expected \in [Jobs -> Nat]
        /\ wrote \in [Jobs -> SUBSET Nat]
    BY DEF TypeOK, AssetTypeOK
  <1>1. CASE HostMoves
    <2>1. UNCHANGED <<disk, worker, journal, edit, wrote>>
      BY <1>1, HostFrame
    <2>2. edit.pc \in Restorable =>
            expected'[worker.job] = expected[worker.job]
      <3>1. ASSUME NEW j \in Jobs, rows[j] = "none",
                   expected' = [expected EXCEPT ![j] = disk]
            PROVE  edit.pc \in Restorable =>
                     expected'[worker.job] = expected[worker.job]
        <4>1. worker.job # j
          BY <3>1 DEF Known
        <4>2. edit.pc \in Restorable => worker.job \in Jobs
          BY DEF Occupied
        <4>3. QED
          BY <1>0, <3>1, <4>1, <4>2
      <3>2. QED
        BY <3>1, ExpectedKept
    <2>3. QED
      BY <2>1, <2>2 DEF Denied, Gone
  <1>2. CASE WorkerMoves
    <2>1. edit.pc = "idle"
      BY <1>2, WorkerWaits DEF Occupied
    <2>2. QED
      BY <1>2, <2>1, WorkerFrame DEF Denied, Gone
  <1>3. CASE Turns
    <2>1. edit'.pc \notin Restorable
      BY <1>3, TurnMoves
    <2>2. QED
      BY <1>3, <2>1, TurnFrame DEF Denied, Gone
  <1>4. CASE Outside
    <2>1. disk' \in {disk, contents + 1}
      BY <1>4 DEF Outside, OthersWrite, ForeignWrite, RequestExpires,
                  assetVars
    <2>2. UNCHANGED <<expected, worker, journal, edit, wrote>>
      BY <1>4, OutsideFrame
    <2>3. \A j \in Jobs : contents + 1 \notin wrote[j]
      BY <1>0 DEF Numbered
    <2>4. QED
      BY <2>1, <2>2, <2>3 DEF Denied, Gone
  <1>5. CASE EditMoves
    <2> DEFINE w == worker.job
    <2>1. w \in Jobs /\ UNCHANGED <<worker, expected>>
      BY <1>5, EditsInPoll, EditFrame
    <2>2. \A j \in Jobs : contents + 1 \notin wrote[j]
      BY <1>0 DEF Numbered
    <2>3. edit'.pc \in Restorable =>
            \/ edit.pc \in Restorable
            \/ disk = expected[w] /\ UNCHANGED disk
      BY <1>5, EditEffects
      DEF EditEffect, FileKept, Writes, Reports, Passes, Before
    <2>4. \/ UNCHANGED disk
          \/ disk' = contents + 1
          \/ disk' = expected[w] /\ edit.pc \in Restorable
      BY <1>5, <2>1, EditEffects, Overwrites
      DEF EditEffect, FileKept, Passes, Before
    <2>5. ASSUME NEW j \in Jobs \ {w}, journal'[j].phase = "failed"
          PROVE  Gone(j)'
      <3>1. journal'[j] = journal[j]
        BY <1>5, <2>5, EditEffects
        DEF EditEffect, Writes, Reports, Passes
      <3>2. wrote'[j] = wrote[j]
        BY <1>5, <2>1, <2>5, EditEffects, Overwrites DEF EditEffect, FileKept
      <3>3. Gone(j)
        BY <2>5, <3>1 DEF Denied
      <3>4. QED
        BY <2>1, <2>2, <2>3, <2>4, <3>2, <3>3 DEF Gone
    <2>6. ASSUME journal'[w].phase = "failed"
          PROVE  Gone(w)'
      <3>1. edit'.pc \notin Restorable /\ UNCHANGED <<disk, wrote>>
        BY <1>5, <2>6, EditEffects
        DEF EditEffect, FileKept, Writes, Reports, Passes, Staged
      <3>2. \/ edit.pc = "check"
            \/ disk = expected[w]
            \/ edit.pc = "recover" /\ journal[w].phase = "failed"
        BY <1>5, <2>6, EditEffects
        DEF EditEffect, FileKept, Writes, Reports, Passes, Staged, Before
      <3>3. disk \notin wrote[w]
        <4>1. CASE edit.pc = "check"
          BY <2>1, <4>1 DEF Staged, Journalled
        <4>2. CASE disk = expected[w]
          BY <1>0, <2>1, <4>2 DEF Numbered
        <4>3. CASE edit.pc = "recover" /\ journal[w].phase = "failed"
          BY <2>1, <4>3 DEF Denied, Gone
        <4>4. QED
          BY <3>2, <4>1, <4>2, <4>3
      <3>4. QED
        BY <2>1, <3>1, <3>3 DEF Gone
    <2>7. QED
      BY <2>1, <2>5, <2>6 DEF Denied
  <1>6. CASE UNCHANGED vars
    BY <1>6 DEF vars, files, assetVars, Denied, Gone
  <1>7. QED
    BY <1>1, <1>2, <1>3, <1>4, <1>5, <1>6, Movers

-----------------------------------------------------------------------------
(* What the Host records is what the receipt says.                         *)

LEMMA ConsumedInvariance ==
  ASSUME TypeOK, Occupied, Unanswered, Receipting, Consumed, [Next]_vars
  PROVE  Consumed'
  <1>0. /\ HostTypeOK /\ HasJob
    BY TypeParts
  <1>1. CASE HostMoves
    <2> USE DEF HostLeaves, files, assetVars, hostVars, Quiet, Row
    <2>0. UNCHANGED results
      BY <1>1, HostFrame
    <2>1. ASSUME NEW j \in Jobs, SubmitEdit(j)
          PROVE  Consumed'
      <3>1. call'.pc = "envelope"
        BY <2>1 DEF SubmitEdit
      <3>2. rows' = [rows EXCEPT ![j] = "created"]
            /\ UNCHANGED <<changed, facts>>
        BY <2>1 DEF SubmitEdit
      <3>3. QED
        BY <1>0, <2>0, <3>1, <3>2 DEF Consumed, HostTypeOK
    <2>2. ASSUME NEW j \in Jobs, Refresh(j)
          PROVE  Consumed'
      <3>1. call'.pc \in {"idle", "check"}
        <4>1. call' = Quiet \/ call' = [Quiet EXCEPT !.pc = "check", !.job = j]
          BY <2>2 DEF Refresh
        <4>2. CASE call' = Quiet
          BY <4>2
        <4>3. CASE call' = [Quiet EXCEPT !.pc = "check", !.job = j]
          BY <4>3
        <4>4. QED
          BY <4>1, <4>2, <4>3
      <3>2. \/ rows' = [rows EXCEPT ![j] = "state_unknown"]
            \/ UNCHANGED rows
        BY <2>2 DEF Refresh
      <3>3. UNCHANGED <<changed, facts>>
        BY <2>2 DEF Refresh
      <3>4. QED
        BY <1>0, <2>0, <3>1, <3>2, <3>3 DEF Consumed, HostTypeOK
    <2>3. ASSUME NEW s \in States \ {"completed"}, NEW c \in {"null", "yes"},
                 Settles(s, c), call.job \in Jobs
          PROVE  Consumed'
      BY <1>0, <2>0, <2>3 DEF Settles, Consumed, HostTypeOK
    <2>4. CASE StoreEnvelope \/ RecordDispatch
      <3>1. call'.pc \in {"check", "poll"} /\ call.job \in Jobs
        BY <1>0, <2>4 DEF StoreEnvelope, RecordDispatch, HostTypeOK, Calls,
                          HasJob
      <3>2. \E s \in {"queued", "dispatched"} :
              rows' = [rows EXCEPT ![call.job] = s]
        BY <2>4 DEF StoreEnvelope, RecordDispatch
      <3>3. UNCHANGED <<changed, facts>>
        BY <2>4 DEF StoreEnvelope, RecordDispatch
      <3>4. QED
        BY <1>0, <2>0, <3>1, <3>2, <3>3 DEF Consumed, HostTypeOK
    <2>5. CASE CheckBinding
      <3>1. call.job \in Jobs
        BY <1>0, <2>5 DEF CheckBinding, HasJob
      <3>2. \/ Settles("failed", "null")
            \/ call' = [call EXCEPT !.pc = "incoming",
                                    !.allow = rows[call.job] = "queued"]
               /\ UNCHANGED hostVars
        BY <2>5 DEF CheckBinding
      <3>3. CASE Settles("failed", "null")
        BY <2>3, <3>1, <3>3 DEF States
      <3>4. CASE /\ call' = [call EXCEPT !.pc = "incoming",
                                         !.allow = rows[call.job] = "queued"]
                 /\ UNCHANGED hostVars
        <4>1. call'.pc = "incoming"
          BY <1>0, <3>4 DEF HostTypeOK, Calls
        <4>2. QED
          BY <2>0, <3>4, <4>1 DEF Consumed
      <3>5. QED
        BY <3>2, <3>3, <3>4
    <2>6. CASE EnqueueRefused \/ ConsumeError \/ BindingIsStale
      <3>1. call.job \in Jobs
        BY <1>0, <2>6 DEF EnqueueRefused, ConsumeError, BindingIsStale, HasJob
      <3>2. \E s \in States \ {"completed"} : Settles(s, "null")
        BY <2>6 DEF EnqueueRefused, ConsumeError, BindingIsStale, States
      <3>3. QED
        BY <2>3, <3>1, <3>2
    <2>7. CASE CompleteRow
      <3>1. call.pc = "row" /\ call.job \in Jobs /\ Settles("completed", "yes")
        BY <1>0, <2>7 DEF CompleteRow, HasJob
      <3>2. QED
        BY <1>0, <2>0, <3>1 DEF Settles, Consumed, HostTypeOK
    <2>8. CASE ConsumeReceipt
      <3> DEFINE phase == results[call.job].receipt
      <3>1. call.job \in Jobs /\ call.pc = "poll"
        BY <1>0, <2>8 DEF ConsumeReceipt, HasJob
      <3>2. phase \in {"completed", "failed", "state_unknown"}
        BY <1>0, <2>8, <3>1 DEF ConsumeReceipt, Receipting, Receipted, TypeOK,
                                MailboxTypeOK, Outcomes, Receipts
      <3>3. \/ /\ phase = "completed" /\ call' = [call EXCEPT !.pc = "facts"]
               /\ UNCHANGED hostVars
            \/ phase = "failed" /\ Settles("failed", "no")
            \/ \E s \in {"failed", "state_unknown"} : Settles(s, "null")
        BY <2>8, <3>2 DEF ConsumeReceipt, ConsumedPhase
      <3>4. CASE /\ phase = "completed" /\ call' = [call EXCEPT !.pc = "facts"]
                 /\ UNCHANGED hostVars
        <4>1. call'.job = call.job
          BY <1>0, <3>4 DEF HostTypeOK, Calls
        <4>2. QED
          BY <2>0, <3>4, <4>1 DEF Consumed
      <3>5. CASE phase = "failed" /\ Settles("failed", "no")
        BY <1>0, <2>0, <3>1, <3>5 DEF Settles, Consumed, HostTypeOK
      <3>6. CASE \E s \in {"failed", "state_unknown"} : Settles(s, "null")
        BY <2>3, <3>1, <3>6 DEF States
      <3>7. QED
        BY <3>3, <3>4, <3>5, <3>6
    <2>9. CASE NoAnswerYet \/ HostCrash
      BY <2>0, <2>9 DEF NoAnswerYet, HostCrash, Consumed
    <2>10. CASE RecordFacts
      <3>1. call.pc = "facts" /\ facts' = facts \cup {call.job}
            /\ UNCHANGED <<rows, changed>>
        BY <2>10 DEF RecordFacts
      <3>2. call'.job = call.job
        BY <1>0, <2>10 DEF RecordFacts, HostTypeOK, Calls
      <3>3. QED
        BY <2>0, <3>1, <3>2 DEF Consumed
    <2>11. CASE Enqueue /\ UNCHANGED <<assetVars, hostVars, mishaps>>
      <3>1. call'.pc \notin {"facts", "row"}
        <4>1. CASE LookIncoming \/ LookProcessing
          BY <1>0, <4>1 DEF LookIncoming, LookProcessing, Refused,
                            HostTypeOK, Calls
        <4>2. CASE ReadRequest \/ RequestMoved \/ LookResult
          BY <1>0, <4>2 DEF ReadRequest, RequestMoved, LookResult, Refused,
                            Ticket, HostTypeOK, Calls
        <4>3. CASE Reserve \/ PublishRequest
          BY <1>0, <4>3 DEF Reserve, PublishRequest, Ticket, HostTypeOK, Calls
        <4>4. QED
          BY <2>11, <4>1, <4>2, <4>3 DEF Enqueue
      <3>2. QED
        BY <2>0, <2>11, <3>1 DEF Consumed
    <2>12. QED
      BY <1>1, <2>1, <2>2, <2>4, <2>5, <2>6, <2>7, <2>8, <2>9, <2>10, <2>11
      DEF HostMoves, HostStep
  <1>2. CASE WorkerMoves \/ EditMoves \/ Turns \/ Outside \/ UNCHANGED vars
    <2>1. UNCHANGED <<call, rows, changed, facts>>
      BY <1>2, WorkerFrame, EditFrame, TurnFrame, OutsideFrame
      DEF vars, hostVars
    <2>2. \A j \in Jobs : results[j].receipt \in {"completed", "failed"} =>
            results'[j] = results[j]
      BY AnswerKept DEF HasResult, NoOutcome, Outcome
    <2>3. call.pc \in {"facts", "row"} => call.job \in Jobs
      BY <1>0 DEF HasJob
    <2>4. QED
      BY <2>1, <2>2, <2>3 DEF Consumed
  <1>3. QED
    BY <1>1, <1>2, Movers

-----------------------------------------------------------------------------
(* The invariant and the theorems.                                         *)

LEMMA InvariantInit ==
  ASSUME Init
  PROVE  IInv
  <1> USE JobsAssumption, MaxMishapsAssumption
      DEF Init, MailboxInit, AssetInit, Quiet, Unclaimed, NoEdit, NoOutcome,
          Outcome, NoJournal, NoContent
  <1>1. TypeOK
    BY DEF TypeOK, MailboxTypeOK, AssetTypeOK, Outcomes, Receipts
  <1>2. Occupied /\ Known /\ Unwritten /\ Attempts /\ Unanswered
    BY DEF Occupied, Known, Unwritten, Attempts, Unanswered
  <1>3. Receipting /\ Staged /\ Journalled
    BY DEF Receipting, Receipted, Staged, Journalled
  <1>4. Numbered /\ Denied /\ Consumed
    BY DEF Numbered, Denied, Gone, Consumed, Restorable
  <1>5. QED
    BY <1>1, <1>2, <1>3, <1>4 DEF IInv

LEMMA InvariantStep ==
  ASSUME IInv, [Next]_vars
  PROVE  IInv'
  BY TypeInvariance, KnownInvariance, UnwrittenInvariance,
     AttemptsInvariance, UnansweredInvariance, ReceiptingInvariance,
     JournalInvariance, NumberedInvariance, DeniedInvariance,
     ConsumedInvariance
  DEF IInv

LEMMA InvariantHolds == Spec => []IInv
  BY InvariantInit, InvariantStep, PTL DEF Spec

\* Every variable keeps its type, however many jobs there are and whatever
\* goes wrong (the mailbox's files, the worker, the save and the rows).
THEOREM TypeCorrect == Spec => []TypeOK
  <1>1. IInv => TypeOK
    BY DEF IInv
  <1>2. QED
    BY <1>1, InvariantHolds, PTL

\* A provider begins a job at most once: no reload between the attempt record,
\* its tombstone and the result makes a second worker call Start instead of
\* Recover (AtomicEditorJobStore).
THEOREM BegunAtMostOnce == Spec => []SavedOnce
  <1>1. IInv => SavedOnce
    <2> SUFFICES ASSUME IInv, NEW j \in Jobs
                 PROVE  begun[j] <= 1
      BY DEF SavedOnce
    <2>1. begun[j] = 0 \/ begun[j] = 1
      BY DEF IInv, Attempts
    <2>2. QED
      BY <2>1
  <1>2. QED
    BY <1>1, InvariantHolds, PTL

\* A row that says "source_saved", and the sourceSaved fact, are about a save
\* of this job that was not undone (refresh_job over DurableSourceEdit).
THEOREM SavedFactIsTrue == Spec => []SavedFactTrue
  <1>1. IInv => SavedFactTrue
    <2> SUFFICES ASSUME IInv, NEW j \in Jobs,
                        rows[j] = "completed" \/ j \in facts
                 PROVE  wrote[j] # {} /\ j \notin undone
      BY DEF SavedFactTrue
    <2>1. results[j].receipt = "completed"
      BY DEF IInv, Consumed
    <2>2. journal[j].phase = "completed"
      BY <2>1 DEF IInv, Receipting, Receipted
    <2>3. QED
      BY <2>2 DEF IInv, Journalled
  <1>2. QED
    BY <1>1, InvariantHolds, PTL

\* A row that denies a change is right for good: no later save, rollback or
\* recovery, of any job, brings a content of this one back into the file.
THEOREM DenialIsTrue == Spec => []FailedUnchanged
  <1>1. IInv => FailedUnchanged
    <2> SUFFICES ASSUME IInv, NEW j \in Jobs, changed[j] = "no"
                 PROVE  disk \notin wrote[j]
      BY DEF FailedUnchanged
    <2>1. results[j].receipt = "failed"
      BY DEF IInv, Consumed
    <2>2. journal[j].phase = "failed"
      BY <2>1 DEF IInv, Receipting, Receipted
    <2>3. QED
      BY <2>2 DEF IInv, Denied, Gone
  <1>2. QED
    BY <1>1, InvariantHolds, PTL

\* The Editor's first answer to a job is its last (HasMatchingResult).
THEOREM AnswerIsFinal == Spec => AnswerStays
  <1>1. IInv /\ [Next]_vars =>
          [\A j \in Jobs : HasResult(j) => results'[j] = results[j]]_vars
    <2> SUFFICES ASSUME IInv, [Next]_vars
                 PROVE  \A j \in Jobs :
                          HasResult(j) => results'[j] = results[j]
      OBVIOUS
    <2>1. QED
      BY AnswerKept DEF IInv
  <1>2. QED
    BY <1>1, InvariantHolds, PTL DEF Spec, AnswerStays

=============================================================================
