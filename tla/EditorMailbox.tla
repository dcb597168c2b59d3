---------------------------- MODULE EditorMailbox ----------------------------
(***************************************************************************)
(* The durable mailbox between the Host and the Unity Editor: directories  *)
(* of JSON files that the Host's EditorJobTransport fills and that the     *)
(* Editor's worker empties, with no lock between the two.                  *)
(*                                                                         *)
(* A job id names one request, for its bytes are stored in the job row     *)
(* before they are sent: a file of another digest does not occur.  A step  *)
(* ends with one test, rename or write of a file; either process may be    *)
(* gone after any of them.  What the Editor's provider does, and what the  *)
(* Host makes of a ticket, is left to the module that extends this one.    *)
(***************************************************************************)
EXTENDS Naturals

CONSTANT
  Jobs  \* the job ids, which are also the names of the files

ASSUME JobsAssumption == "none" \notin Jobs

VARIABLES
  \* the files: requests by directory, submission tombstones, attempt records,
  \* attempt tombstones, results, and the requests whose expiry has passed
  incoming, processing, invalid, reserved, started, prior, results, expired,
  \* the Editor's worker, and how often a provider began each job
  worker, begun,
  \* the Host's current call
  call

files == <<incoming, processing, invalid, reserved, started, prior, results,
           expired>>

Receipts == {"none", "completed", "failed", "state_unknown"}
Outcome(s, r) == [status |-> s, receipt |-> r]
NoOutcome == Outcome("none", "none")
Outcomes == [status : {"none", "completed", "failed", "state_unknown"},
             receipt : Receipts]

Unclaimed == [pc |-> "idle", job |-> "none", recovering |-> FALSE,
              outcome |-> NoOutcome]
Quiet == [pc |-> "idle", job |-> "none", found |-> FALSE, allow |-> FALSE,
          error |-> "none"]

MailboxTypeOK ==
  /\ incoming \subseteq Jobs /\ processing \subseteq Jobs
  /\ invalid \subseteq Jobs /\ reserved \subseteq Jobs
  /\ started \subseteq Jobs /\ prior \subseteq Jobs /\ expired \subseteq Jobs
  /\ results \in [Jobs -> Outcomes]
  /\ begun \in [Jobs -> Nat]
  /\ worker \in [pc : {"idle", "attempt", "tombstone", "provider", "polling",
                       "sealing", "publish", "archive", "archive_attempt"},
                 job : Jobs \cup {"none"}, recovering : BOOLEAN,
                 outcome : Outcomes]

MailboxInit ==
  /\ incoming = {} /\ processing = {} /\ invalid = {} /\ reserved = {}
  /\ started = {} /\ prior = {} /\ expired = {}
  /\ results = [j \in Jobs |-> NoOutcome]
  /\ worker = Unclaimed /\ begun = [j \in Jobs |-> 0]
  /\ call = Quiet

-----------------------------------------------------------------------------
(* The Host: EditorJobTransport.enqueue, one test of a file at a time.     *)

Ticket == [call EXCEPT !.pc = "ticket"]
Refused(e) == [call EXCEPT !.pc = "refused", !.error = e]

LookIncoming ==
  /\ call.pc = "incoming"
  /\ call' = [call EXCEPT !.pc = "processing", !.found = call.job \in incoming]
  /\ UNCHANGED <<files, worker, begun>>

\* _find_existing_request: a request seen in both directories is refused.
LookProcessing ==
  /\ call.pc = "processing"
  /\ call' = IF call.found
             THEN IF call.job \in processing THEN Refused("mismatch")
                  ELSE [call EXCEPT !.pc = "read_incoming"]
             ELSE IF call.job \in processing
                  THEN [call EXCEPT !.pc = "read_processing"]
                  ELSE [call EXCEPT !.pc = "result"]
  /\ UNCHANGED <<files, worker, begun>>

\* _require_same_request and _ensure_submission_tombstone; a file that has
\* moved on raises FileNotFoundError, which nobody below the provider catches.
ReadRequest ==
  /\ \/ call.pc = "read_incoming" /\ call.job \in incoming
     \/ call.pc = "read_processing" /\ call.job \in processing
  /\ call' = Ticket
  /\ reserved' = reserved \cup {call.job}
  /\ UNCHANGED <<incoming, processing, invalid, started, prior, results,
                 expired, worker, begun>>

RequestMoved ==
  /\ \/ call.pc = "read_incoming" /\ call.job \notin incoming
     \/ call.pc = "read_processing" /\ call.job \notin processing
  /\ call' = Refused("unknown")
  /\ UNCHANGED <<files, worker, begun>>

HasResult(j) == results[j] # NoOutcome

LookResult ==
  /\ call.pc = "result"
  /\ IF HasResult(call.job)
     THEN /\ call' = Ticket /\ reserved' = reserved \cup {call.job}
     ELSE /\ UNCHANGED reserved
          /\ call' = IF call.job \in reserved \/ ~call.allow
                     THEN Refused("unknown")
                     ELSE IF call.job \in expired THEN Refused("conflict")
                     ELSE [call EXCEPT !.pc = "reserve"]
  /\ UNCHANGED <<incoming, processing, invalid, started, prior, results,
                 expired, worker, begun>>

\* The tombstone is linked before the request is: the Host process is alone.
Reserve ==
  /\ call.pc = "reserve"
  /\ reserved' = reserved \cup {call.job}
  /\ call' = [call EXCEPT !.pc = "publish"]
  /\ UNCHANGED <<incoming, processing, invalid, started, prior, results,
                 expired, worker, begun>>

PublishRequest ==
  /\ call.pc = "publish"
  /\ incoming' = incoming \cup {call.job}
  /\ call' = Ticket
  /\ UNCHANGED <<processing, invalid, reserved, started, prior, results,
                 expired, worker, begun>>

Enqueue == \/ LookIncoming \/ LookProcessing \/ ReadRequest \/ RequestMoved
           \/ LookResult \/ Reserve \/ PublishRequest

DispatchEvidence(j) == \/ j \in incoming \cup processing \cup reserved
                       \/ HasResult(j)

-----------------------------------------------------------------------------
(* The Editor: RelayLiveLoopEditorWorker.Tick over AtomicEditorJobStore.   *)

\* Mutant: a result on disk is not looked for.
NeverAnswered(j) == FALSE
Answered(j) == HasResult(j)

\* Mutant: a claim that never became an attempt is left where it is.
RecoverableStarted(j) == j \in started
Recoverable(j) == TRUE

\* TryReadRequest: an expired request is invalid wherever it is found.
Readable(j) == j \notin expired

Claim(j, recovering, pc, o) ==
  worker' = [pc |-> pc, job |-> j, recovering |-> recovering, outcome |-> o]

\* Mutant: an attempt record is no reason not to begin.
ResumeFresh(j) == Claim(j, FALSE, "attempt", NoOutcome)
\* An attempt without its record but with its tombstone is answered unknown.
Resume(j) ==
  CASE j \in started -> Claim(j, TRUE, "tombstone", NoOutcome)
    [] j \in prior \ started ->
         Claim(j, TRUE, "publish", Outcome("state_unknown", "none"))
    [] OTHER -> Claim(j, FALSE, "attempt", NoOutcome)

\* TryGetRecovery, one file of processing at a time.
SweepProcessing(j) ==
  /\ worker.pc = "idle" /\ j \in processing
  /\ IF ~Readable(j)
     THEN /\ processing' = processing \ {j} /\ invalid' = invalid \cup {j}
          /\ UNCHANGED <<started, worker>>
     ELSE IF Answered(j)
     THEN /\ processing' = processing \ {j} /\ started' = started \ {j}
          /\ UNCHANGED <<invalid, worker>>
     ELSE /\ Recoverable(j) /\ Resume(j)
          /\ UNCHANGED <<processing, invalid, started>>
  /\ UNCHANGED <<incoming, reserved, prior, results, expired, begun, call>>

\* TryClaimNext, reached when processing holds nothing to recover.
SweepIncoming(j) ==
  /\ worker.pc = "idle" /\ j \in incoming
  /\ \A i \in processing : ~Recoverable(i)
  /\ incoming' = incoming \ {j}
  /\ IF ~Readable(j)
     THEN /\ invalid' = invalid \cup {j} /\ UNCHANGED <<processing, worker>>
     ELSE IF Answered(j) THEN UNCHANGED <<processing, invalid, worker>>
     ELSE /\ processing' = processing \cup {j} /\ UNCHANGED invalid
          /\ IF j \in prior
             THEN Claim(j, TRUE, "publish", Outcome("state_unknown", "none"))
             ELSE Claim(j, FALSE, "attempt", NoOutcome)
  /\ UNCHANGED <<reserved, started, prior, results, expired, begun, call>>

\* BeginAttempt: the record, then its tombstone.
RecordAttempt ==
  /\ worker.pc = "attempt"
  /\ started' = started \cup {worker.job}
  /\ worker' = [worker EXCEPT !.pc = "tombstone"]
  /\ UNCHANGED <<incoming, processing, invalid, reserved, prior, results,
                 expired, begun, call>>

RecordTombstone ==
  /\ worker.pc = "tombstone"
  /\ prior' = prior \cup {worker.job}
  /\ worker' = [worker EXCEPT !.pc = "provider"]
  /\ UNCHANGED <<incoming, processing, invalid, reserved, started, results,
                 expired, begun, call>>

Entered == begun' = IF worker.recovering THEN begun
                    ELSE [begun EXCEPT ![worker.job] = @ + 1]

StartOperation ==
  /\ worker.pc = "provider"
  /\ worker' = [worker EXCEPT !.pc = "polling"]
  /\ Entered
  /\ UNCHANGED <<files, call>>

\* NeutralEditorProviderHub: no adapter is registered, or it throws.
RefuseOperation ==
  /\ worker.pc = "provider"
  /\ \E s \in IF worker.recovering THEN {"state_unknown"}
              ELSE {"failed", "state_unknown"} :
       worker' = [worker EXCEPT !.pc = "publish",
                                !.outcome = Outcome(s, "none")]
  /\ Entered
  /\ UNCHANGED <<files, call>>

\* A poll that ends the operation: a receipt to seal, or an error.
PollCompletes(r) == worker' = [worker EXCEPT !.pc = "sealing",
                                 !.outcome = Outcome("completed", r)]
PollFails == worker' = [worker EXCEPT !.pc = "publish",
                                 !.outcome = Outcome("state_unknown", "none")]

Seal ==
  /\ worker.pc = "sealing"
  /\ worker' = [worker EXCEPT !.pc = "publish"]
  /\ UNCHANGED <<files, begun, call>>

SealFails ==
  /\ worker.pc = "sealing"
  /\ worker' = [worker EXCEPT !.pc = "publish",
                              !.outcome = Outcome("failed", "none")]
  /\ UNCHANGED <<files, begun, call>>

\* Publish: the result, then the request and the attempt into the archive.
PublishResult ==
  /\ worker.pc = "publish"
  /\ results' = [results EXCEPT ![worker.job] = worker.outcome]
  /\ worker' = [worker EXCEPT !.pc = "archive"]
  /\ UNCHANGED <<incoming, processing, invalid, reserved, started, prior,
                 expired, begun, call>>

ArchiveRequest ==
  /\ worker.pc = "archive"
  /\ processing' = processing \ {worker.job}
  /\ worker' = [worker EXCEPT !.pc = "archive_attempt"]
  /\ UNCHANGED <<incoming, invalid, reserved, started, prior, results,
                 expired, begun, call>>

ArchiveAttempt ==
  /\ worker.pc = "archive_attempt"
  /\ started' = started \ {worker.job}
  /\ worker' = Unclaimed
  /\ UNCHANGED <<incoming, processing, invalid, reserved, prior, results,
                 expired, begun, call>>

WorkerStep ==
  \/ \E j \in Jobs : SweepProcessing(j) \/ SweepIncoming(j)
  \/ RecordAttempt \/ RecordTombstone \/ StartOperation
  \/ Seal \/ PublishResult \/ ArchiveRequest \/ ArchiveAttempt

WorkerFault == RefuseOperation \/ SealFails

\* A domain reload or the end of the Editor: the next worker knows the files.
Reload ==
  /\ worker # Unclaimed
  /\ worker' = Unclaimed
  /\ UNCHANGED <<files, begun, call>>

\* expiresAtUtc passes, an hour after the request was made.
Expire(j) ==
  /\ j \notin expired
  /\ expired' = expired \cup {j}
  /\ UNCHANGED <<incoming, processing, invalid, reserved, started, prior,
                 results, worker, begun, call>>
=============================================================================
