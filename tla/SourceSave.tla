------------------------------ MODULE SourceSave ------------------------------
(***************************************************************************)
(* A source edit from its command to its row: the Host's source provider,  *)
(* the mailbox, the Editor's worker and the transactional save, with       *)
(* restarts of either process, expired requests and other writers of the   *)
(* asset.                                                                  *)
(*                                                                         *)
(* The Host works under the lock of the command service or before it       *)
(* serves, so that it has one call at a time; it looks at a job only when  *)
(* a client asks for its status or when it recovers.                       *)
(***************************************************************************)
EXTENDS DurableSourceEdit

CONSTANT
  MaxMishaps  \* bound: reloads of the Editor, crashes of the Host, expired
              \* requests, writes of the asset by others and exceptions

ASSUME MaxMishapsAssumption == MaxMishaps \in Nat

VARIABLES
  \* the jobs table: the state of a row and its "sourceChanged"
  rows, changed,
  \* the jobs whose sourceSaved fact is recorded
  facts,
  \* jobs that the restarted Host has yet to look at
  due,
  \* the mishaps so far
  mishaps

hostVars == <<rows, changed, facts, due>>
vars == <<files, worker, begun, call, assetVars, hostVars, mishaps>>

Pending(j) == rows[j] \in {"created", "queued", "dispatched"}

TypeOK ==
  /\ MailboxTypeOK /\ AssetTypeOK
  /\ rows \in [Jobs -> {"none", "created", "queued", "dispatched",
                        "completed", "failed", "state_unknown"}]
  /\ changed \in [Jobs -> {"null", "yes", "no"}]
  /\ facts \subseteq Jobs /\ due \subseteq Jobs
  /\ call \in [pc : {"idle", "envelope", "check", "incoming", "processing",
                     "read_incoming", "read_processing", "result", "reserve",
                     "publish", "ticket", "refused", "poll", "facts", "row"},
               job : Jobs \cup {"none"}, found : BOOLEAN, allow : BOOLEAN,
               error : {"none", "mismatch", "unknown", "conflict"}]
  /\ mishaps \in 0..MaxMishaps

Init ==
  /\ MailboxInit /\ AssetInit
  /\ rows = [j \in Jobs |-> "none"] /\ changed = [j \in Jobs |-> "null"]
  /\ facts = {} /\ due = {}
  /\ mishaps = 0

Mishap == mishaps < MaxMishaps /\ mishaps' = mishaps + 1

-----------------------------------------------------------------------------
(* The Host's source provider.                                             *)

HostLeaves == UNCHANGED <<files, worker, begun, assetVars, mishaps>>
Row(j, s) == rows' = [rows EXCEPT ![j] = s]
Settles(s, c) ==
  /\ Row(call.job, s) /\ changed' = [changed EXCEPT ![call.job] = c]
  /\ call' = Quiet /\ UNCHANGED <<facts, due>>

\* source.edit: the binding is made for the file as it is, the row committed.
SubmitEdit(j) ==
  /\ call = Quiet /\ due = {} /\ rows[j] = "none"
  /\ expected' = [expected EXCEPT ![j] = disk]
  /\ Row(j, "created")
  /\ call' = [Quiet EXCEPT !.pc = "envelope", !.job = j]
  /\ UNCHANGED <<files, worker, begun, disk, contents, journal, edit, wrote,
                 undone, changed, facts, due, mishaps>>

StoreEnvelope ==
  /\ call.pc = "envelope"
  /\ Row(call.job, "queued")
  /\ call' = [call EXCEPT !.pc = "check"]
  /\ UNCHANGED <<changed, facts, due>> /\ HostLeaves

\* refresh_job, by job.status or by recover_pending, which comes first.
Refresh(j) ==
  /\ call = Quiet /\ Pending(j) /\ (due = {} \/ j \in due)
  /\ due' = due \ {j}
  /\ IF rows[j] = "created"
     THEN Row(j, "state_unknown") /\ UNCHANGED call
     ELSE UNCHANGED rows /\ call' = [Quiet EXCEPT !.pc = "check", !.job = j]
  /\ UNCHANGED <<changed, facts>> /\ HostLeaves

\* _check_binding: the Player's page may have moved on at any time; the file
\* is compared as long as nothing shows that the job was dispatched.
BindingIsStale ==
  /\ call.pc = "check" /\ Mishap
  /\ \E s \in {"failed", "state_unknown"} : Settles(s, "null")
  /\ UNCHANGED <<files, worker, begun, assetVars>>

CheckBinding ==
  /\ call.pc = "check"
  /\ IF \/ rows[call.job] = "dispatched" \/ DispatchEvidence(call.job)
        \/ disk = expected[call.job]
     THEN /\ call' = [call EXCEPT !.pc = "incoming",
                                  !.allow = rows[call.job] = "queued"]
          /\ UNCHANGED hostVars
     ELSE Settles("failed", "null")
  /\ HostLeaves

\* enqueue raised: only STATE_UNKNOWN, or an exception of another type, leaves
\* the row unknown.
EnqueueRefused ==
  /\ call.pc = "refused"
  /\ Settles(IF call.error = "unknown" THEN "state_unknown" ELSE "failed",
             "null")
  /\ HostLeaves

RecordDispatch ==
  /\ call.pc = "ticket"
  /\ Row(call.job, "dispatched")
  /\ call' = [call EXCEPT !.pc = "poll"]
  /\ UNCHANGED <<changed, facts, due>> /\ HostLeaves

\* Mutant: the phase of a receipt is not looked at.
ConsumedPhaseIgnored(r) == IF r = "none" THEN r ELSE "completed"
ConsumedPhase(r) == r

NoAnswerYet ==
  /\ call.pc = "poll" /\ ~HasResult(call.job)
  /\ call' = Quiet
  /\ UNCHANGED hostVars /\ HostLeaves

ConsumeError ==
  /\ call.pc = "poll" /\ results[call.job].status \in {"failed", "state_unknown"}
  /\ Settles(results[call.job].status, "null")
  /\ HostLeaves

\* A completed job carries the receipt, whose hash the file must still have.
ConsumeReceipt ==
  LET phase == ConsumedPhase(results[call.job].receipt)
      after == journal[call.job].after
  IN
  /\ call.pc = "poll" /\ results[call.job].status = "completed"
  /\ CASE phase = "completed" /\ disk = after ->
            call' = [call EXCEPT !.pc = "facts"] /\ UNCHANGED hostVars
       [] phase = "completed" /\ disk # after -> Settles("failed", "null")
       [] phase = "failed" -> Settles("failed", "no")
       [] phase = "state_unknown" -> Settles("state_unknown", "null")
  /\ HostLeaves

RecordFacts ==
  /\ call.pc = "facts"
  /\ facts' = facts \cup {call.job}
  /\ call' = [call EXCEPT !.pc = "row"]
  /\ UNCHANGED <<rows, changed, due>> /\ HostLeaves

CompleteRow ==
  /\ call.pc = "row" /\ Settles("completed", "yes") /\ HostLeaves

HostStep ==
  \/ StoreEnvelope \/ CheckBinding
  \/ EnqueueRefused \/ RecordDispatch \/ NoAnswerYet \/ ConsumeError
  \/ ConsumeReceipt \/ RecordFacts \/ CompleteRow
  \/ Enqueue /\ UNCHANGED <<assetVars, hostVars, mishaps>>

HostCrash ==
  /\ Mishap
  /\ call' = Quiet /\ due' = {j \in Jobs : Pending(j)}
  /\ UNCHANGED <<files, worker, begun, assetVars, rows, changed, facts>>

-----------------------------------------------------------------------------
(* The Editor.                                                             *)

\* SourceOperation.Poll: everything happens in one poll.
EnterEdit ==
  /\ worker.pc = "polling" /\ edit = NoEdit
  /\ edit' = [NoEdit EXCEPT !.pc =
                IF worker.recovering \/ journal[worker.job] # NoJournal
                THEN "recover" ELSE "check"]
  /\ UNCHANGED <<files, worker, begun, call, disk, contents, expected, journal,
                 wrote, undone, hostVars, mishaps>>

\* The receipt file is written and the operation ends; or a journal or receipt
\* cannot be written, and the exception becomes the hub's STATE_UNKNOWN.
EndEdit ==
  /\ edit.pc = "receipt" /\ PollCompletes(edit.receipt)
  /\ edit' = NoEdit
  /\ UNCHANGED <<files, begun, call, disk, contents, expected, journal, wrote,
                 undone, hostVars, mishaps>>

EditEscapes ==
  /\ edit.pc \in {"check", "undo", "prove", "receipt"} /\ PollFails
  /\ Mishap
  /\ edit' = NoEdit
  /\ UNCHANGED <<files, begun, call, disk, contents, expected, journal, wrote,
                 undone, hostVars>>

EditorStep ==
  \/ WorkerStep /\ UNCHANGED <<assetVars, hostVars, mishaps>>
  \/ EditStep /\ UNCHANGED <<files, worker, begun, call, hostVars, mishaps>>
  \/ EnterEdit \/ EndEdit

EditorFault ==
  \/ Mishap /\ WorkerFault /\ UNCHANGED <<assetVars, hostVars>>
  \/ /\ Mishap /\ EditFault
     /\ UNCHANGED <<files, worker, begun, call, hostVars>>
  \/ EditEscapes

EditorReload ==
  /\ Mishap /\ Reload
  /\ edit' = NoEdit
  /\ UNCHANGED <<disk, contents, expected, journal, wrote, undone, hostVars>>

RequestExpires(j) ==
  /\ rows[j] \notin {"none", "created"}
  /\ Mishap /\ Expire(j)
  /\ UNCHANGED <<assetVars, hostVars>>

OthersWrite ==
  /\ Mishap /\ ForeignWrite
  /\ UNCHANGED <<files, worker, begun, call, hostVars>>

-----------------------------------------------------------------------------
Next ==
  \/ \E j \in Jobs : SubmitEdit(j) \/ Refresh(j) \/ RequestExpires(j)
  \/ HostStep \/ BindingIsStale \/ HostCrash
  \/ EditorStep \/ EditorFault \/ EditorReload \/ OthersWrite

Spec == Init /\ [][Next]_vars

\* The Host finishes its calls, the Editor keeps ticking and its save ends,
\* and the client of a job asks for its status until the row is terminal.
FairSpec ==
  /\ Spec /\ WF_vars(HostStep) /\ WF_vars(EditorStep)
  /\ \A j \in Jobs : SF_vars(Refresh(j))

-----------------------------------------------------------------------------
(* Properties.                                                             *)

\* A provider begins a job at most once, whatever reloads, crashes and repeated
\* submissions happen: after an attempt only Recover is called
\* (AtomicEditorJobStore's attempt record and tombstone).
SavedOnce ==
  \A j \in Jobs : begun[j] <= 1

\* A row that says "source_saved", and the sourceSaved fact, are about a save
\* this job made and did not undo (refresh_job's reading of the receipt, with
\* DurableSourceEdit's rollback and recovery behind it).
SavedFactTrue ==
  \A j \in Jobs : rows[j] = "completed" \/ j \in facts =>
                    wrote[j] # {} /\ j \notin undone

\* A row that denies a change is right: nothing this job wrote is in the file
\* (a receipt of phase "failed" proves that the original state is back).
FailedUnchanged ==
  \A j \in Jobs : changed[j] = "no" => disk \notin wrote[j]

\* The first answer of the Editor is final: a request found again after a
\* reload, or a second publication, does not replace it (HasMatchingResult).
AnswerStays ==
  [][\A j \in Jobs : HasResult(j) => results'[j] = results[j]]_vars

\* A submitted source edit settles, in every mixture of reloads, crashes,
\* expired requests and failures, if its client keeps asking.
RowSettles == \A j \in Jobs : rows[j] = "queued" ~> ~Pending(j)

\* A repeated submission of a request that is waiting, in processing or answered
\* is recognised as the same one (contracts/editor-transport.md, "An exact
\* retry"; _find_existing_request and _require_same_request of enqueue).
RetryIsRecognised ==
  call.pc = "refused" /\ call.error \in {"mismatch", "unknown"} =>
    call.job \notin incoming \cup processing /\ ~HasResult(call.job)
=============================================================================
