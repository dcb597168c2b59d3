------------------------------ MODULE TaskFacts ------------------------------
(***************************************************************************)
(* The facts of one task and the evidence they stand on: what EvidenceStore *)
(* records for a saved source, a runtime apply, a verification and a source *)
(* lookup, after ProviderResultPolicy and the coordinator let it through.   *)
(*                                                                         *)
(* Commands run one at a time under the execute lock of the service; an     *)
(* apply runs beside them on the coordinator's thread, between its check of *)
(* the plan and its record.  A crash of the Host loses both; the next Host  *)
(* looks at the source edit first, then at the apply, then serves.  How a   *)
(* save and an apply get to their outcome is modelled by SourceSave and     *)
(* UpdateCoordinator; here they have one.                                   *)
(*                                                                         *)
(* A snapshot of the source is the number of writes that made it, so that   *)
(* a larger one is newer.  The clock counts milliseconds, of which nothing   *)
(* matters but how they compare.                                            *)
(***************************************************************************)
EXTENDS Naturals, Sequences

CONSTANTS
  Acceptance,    \* the acceptance facts a verification may claim
  MaxInputs,     \* bound: writes of the source
  MaxApplies,    \* bound: plans the Player applies
  MaxRecords,    \* bound: transactions that record evidence
  MaxCrashes,    \* bound: deaths of the Host
  MaxClock,      \* bound: milliseconds that pass
  None           \* no plan

ASSUME TaskFactsAssumption ==
  /\ Acceptance \subseteq {"checksPassed", "visualReviewed", "freshVerified"}
  /\ MaxInputs \in Nat /\ MaxApplies \in Nat /\ MaxRecords \in Nat
  /\ MaxCrashes \in Nat /\ MaxClock \in Nat
  /\ None \notin [input : Nat, revision : Nat]

VARIABLES
  input,      \* the snapshot of the source on disk
  player,     \* what the Player runs, at which revision
  facts,      \* the fact columns of the task
  records,    \* the evidence records, one entry for each transaction
  save,       \* the source edit that is pending
  plan,       \* the prepared plan
  apply,      \* the iterate job in progress
  done,       \* the plans whose iterate row says completed
  call,       \* the verification or lookup in progress
  clock,      \* what the next transaction may be stamped with
  mode,       \* where the Host is
  crashes

vars == <<input, player, facts, records, save, plan, apply,
          done, call, clock, mode, crashes>>

task == <<facts, records>>
machine == <<input, player>>

Facts == {"sourceSaved", "runtimeMatched"} \cup Acceptance
Values == {"null", "true", "false"}
Claims == [Facts -> Values]
Silent == [f \in Facts |-> "null"]

Plans == [input : Nat, revision : Nat]
NoSave == [pc |-> "none", input |-> 0, at |-> 0]
NoApply == [pc |-> "idle", plan |-> None, saved |-> "null", seen |-> 0,
            at |-> 0]
NoCall == [pc |-> "idle", op |-> "verify", claim |-> Silent, seen |-> 0,
           at |-> 0]

Operations == {"source.edit", "source.locate", "iterate", "verify"}

\* A record: the operation, the facts it gives a value, its stamp, and what
\* its evidence is about: the plan, the snapshot that was saved or applied,
\* and how many records there were when it was gathered.
Records == [op : Operations, claim : Claims, at : Nat,
            plan : Plans \cup {None}, input : Nat, seen : Nat]

TypeOK ==
  /\ input \in Nat
  /\ player \in [input : Nat, revision : Nat]
  /\ facts \in Claims /\ records \in Seq(Records)
  /\ save \in [pc : {"none", "pending", "written", "checked", "stamped",
                     "recorded"}, input : Nat, at : Nat]
  /\ plan \in Plans \cup {None}
  /\ (apply.pc = "idle") = (apply.plan = None)
  /\ apply \in [pc : {"idle", "dispatched", "answered", "stamped",
                      "recorded"}, plan : Plans \cup {None},
                saved : {"null", "true"}, seen : Nat, at : Nat]
  /\ done \subseteq Plans
  /\ call \in [pc : {"idle", "answered", "stamped"}, op : Operations,
               claim : Claims, seen : Nat, at : Nat]
  /\ clock \in Nat
  /\ mode \in {"serving", "providers", "jobs"}
  /\ crashes \in Nat

Init ==
  /\ input = 0 /\ player = [input |-> 0, revision |-> 0]
  /\ facts = Silent /\ records = <<>>
  /\ save = NoSave /\ plan = None /\ apply = NoApply /\ done = {}
  /\ call = NoCall /\ clock = 0
  /\ mode = "serving" /\ crashes = 0

-----------------------------------------------------------------------------
(* The evidence store                                                      *)

\* Only a saved source clears facts.
Clears(r) == r.op = "source.edit" /\ r.claim["sourceSaved"] = "true"

Updated(r) ==
  [f \in Facts |-> IF r.claim[f] # "null" THEN r.claim[f]
                   ELSE IF Clears(r) THEN "null" ELSE facts[f]]

\* The stamp is taken before the transaction, for all of its records: two
\* threads may commit in the other order, or within one millisecond.
Now == {now \in {clock, clock + 1} : now <= MaxClock}

\* The transaction: a row for each fact the result claims, and the columns.
Stores(r) ==
  /\ Len(records) < MaxRecords
  /\ records' = Append(records, r)
  /\ facts' = Updated(r)

Says(fact, value) == [Silent EXCEPT ![fact] = value]

-----------------------------------------------------------------------------
(* The world: the Editor, other writers, the Player                        *)

\* source.edit is accepted, which may claim no fact.
EditAccepted ==
  /\ mode = "serving" /\ call.pc = "idle" /\ save.pc = "none"
  /\ save' = [NoSave EXCEPT !.pc = "pending"]
  /\ UNCHANGED <<machine, task, plan, apply, done, call, clock, mode, crashes>>

EditorSaves ==
  /\ save.pc = "pending" /\ input < MaxInputs
  /\ input' = input + 1
  /\ save' = [NoSave EXCEPT !.pc = "written", !.input = input + 1]
  /\ UNCHANGED <<player, task, plan, apply, done, call, clock, mode, crashes>>

SomebodyEdits ==
  /\ input < MaxInputs /\ input' = input + 1
  /\ UNCHANGED <<player, task, save, plan, apply, done, call, clock, mode,
                 crashes>>

\* The dispatched plan runs in the Player, once.
PlayerApplies ==
  /\ apply.pc = "dispatched" /\ player.revision = apply.plan.revision
  /\ player.revision < MaxApplies
  /\ player' = [input |-> apply.plan.input, revision |-> player.revision + 1]
  /\ UNCHANGED <<input, task, save, plan, apply, done, call, clock, mode,
                 crashes>>

-----------------------------------------------------------------------------
(* refresh_job of a source edit: job.status, or the recovery                *)

\* Mutant: a poll of the job does not take the execute lock.
MayRefreshUnlocked == mode \in {"serving", "providers"}
MayRefresh == mode \in {"serving", "providers"} /\ call.pc = "idle"

\* The file must still be the one the Editor saved when it is looked at.
SaveChecked ==
  /\ MayRefresh /\ save.pc = "written" /\ input = save.input
  /\ save' = [save EXCEPT !.pc = "checked"]
  /\ UNCHANGED <<machine, task, plan, apply, done, call, clock, mode, crashes>>

SaveStamped ==
  /\ save.pc = "checked"
  /\ \E now \in Now :
       clock' = now /\ save' = [save EXCEPT !.pc = "stamped", !.at = now]
  /\ UNCHANGED <<machine, task, plan, apply, done, call, mode, crashes>>

SaveRecord == [op |-> "source.edit", claim |-> Says("sourceSaved", "true"),
               at |-> save.at, plan |-> None, input |-> save.input,
               seen |-> Len(records)]

SaveRecorded ==
  /\ save.pc = "stamped" /\ Stores(SaveRecord)
  /\ save' = [save EXCEPT !.pc = "recorded"]
  /\ UNCHANGED <<machine, plan, apply, done, call, clock, mode, crashes>>

SaveRow ==
  /\ save.pc = "recorded"
  /\ save' = NoSave
  /\ UNCHANGED <<machine, task, plan, apply, done, call, clock, mode, crashes>>

\* The Editor failed, somebody wrote the file since, or the launch, page or
\* owner the edit was bound to is gone.
SaveFails ==
  /\ MayRefresh /\ save.pc \in {"pending", "written"}
  /\ save' = NoSave
  /\ UNCHANGED <<machine, task, plan, apply, done, call, clock, mode, crashes>>

-----------------------------------------------------------------------------
(* The coordinator: prepare and iterate                                    *)

Prepares ==
  /\ mode = "serving" /\ apply.pc = "idle"
  /\ plan' = [input |-> input, revision |-> player.revision]
  /\ UNCHANGED <<machine, task, save, apply, done, call, clock, mode, crashes>>

\* Mutant: the source is not compared with the plan's snapshot again.
StillValidByRuntime == plan.revision = player.revision
StillValid == plan.input = input /\ plan.revision = player.revision

ApplyStarts ==
  /\ mode = "serving" /\ apply.pc = "idle" /\ plan # None /\ StillValid
  /\ apply' = [NoApply EXCEPT !.pc = "dispatched", !.plan = plan,
                              !.seen = Len(records)]
  /\ plan' = None
  /\ UNCHANGED <<machine, task, save, done, call, clock, mode, crashes>>

Working == mode \in {"serving", "jobs"}

\* The answer of the Player, or what reconcile makes of a lost one.  It may
\* say that the plan's source is the one on disk: that is checked now, and an
\* apply that says it wrongly fails.
ApplyAnswered ==
  /\ Working /\ apply.pc = "dispatched"
  /\ player.revision > apply.plan.revision
  /\ \E saved \in {"null", "true"} :
       /\ saved = "true" => input = apply.plan.input
       /\ apply' = [apply EXCEPT !.pc = "answered", !.saved = saved]
  /\ UNCHANGED <<machine, task, save, plan, done, call, clock, mode, crashes>>

\* Failed or unknown: the row says so and no fact is written.
ApplyFails ==
  /\ Working /\ apply.pc \in {"dispatched", "answered"}
  /\ apply' = NoApply
  /\ UNCHANGED <<machine, task, save, plan, done, call, clock, mode, crashes>>

ApplyStamped ==
  /\ Working /\ apply.pc = "answered"
  /\ \E now \in Now :
       clock' = now /\ apply' = [apply EXCEPT !.pc = "stamped", !.at = now]
  /\ UNCHANGED <<machine, task, save, plan, done, call, mode, crashes>>

ApplyRecord ==
  [op |-> "iterate",
   claim |-> [Says("runtimeMatched", "true")
                EXCEPT !["sourceSaved"] = apply.saved],
   at |-> apply.at, plan |-> apply.plan, input |-> apply.plan.input,
   seen |-> apply.seen]

ApplyRecorded ==
  /\ Working /\ apply.pc = "stamped" /\ Stores(ApplyRecord)
  /\ apply' = [apply EXCEPT !.pc = "recorded"]
  /\ UNCHANGED <<machine, save, plan, done, call, clock, mode, crashes>>

\* Mutant: the row is completed before the facts are recorded.
RowComesFirst == apply.pc = "answered"
RowIsDue == apply.pc = "recorded"

ApplyRow ==
  /\ Working /\ RowIsDue
  /\ done' = done \cup {apply.plan}
  /\ apply' = NoApply
  /\ UNCHANGED <<machine, task, save, plan, call, clock, mode, crashes>>

-----------------------------------------------------------------------------
(* Verification and lookup, under the execute lock                         *)

\* Mutant: a command does not wait for a poll that records a saved source.
LockIsTaken == mode = "serving" /\ call.pc = "idle"
LockIsFree ==
  /\ mode = "serving" /\ call.pc = "idle"
  /\ save.pc \in {"none", "pending", "written"}

Verdicts == {c \in Claims : /\ c["sourceSaved"] = "null"
                            /\ c["runtimeMatched"] = "null" /\ c # Silent}

\* The provider answers about what the Player runs at that moment.
Verifies ==
  /\ LockIsFree
  /\ \E c \in Verdicts :
       call' = [NoCall EXCEPT !.pc = "answered", !.claim = c,
                              !.seen = Len(records)]
  /\ UNCHANGED <<machine, task, save, plan, apply, done, clock, mode, crashes>>

\* source.locate: a saved source that the Player does not run yet.
Locates ==
  /\ LockIsFree /\ player.input # input
  /\ \E i \in DOMAIN records : records[i].op = "source.edit"
  /\ call' = [NoCall EXCEPT !.pc = "answered", !.op = "source.locate",
                            !.claim = Says("runtimeMatched", "false"),
                            !.seen = Len(records)]
  /\ UNCHANGED <<machine, task, save, plan, apply, done, clock, mode, crashes>>

\* bind_fresh_frame and validate refuse an answer as a whole: a claim without
\* its evidence, a frame, plan, session or file of something else, a file
\* whose bytes have changed ...
CallRefused ==
  /\ call.pc = "answered"
  /\ call' = NoCall
  /\ UNCHANGED <<machine, task, save, plan, apply, done, clock, mode, crashes>>

\* ... or let it pass.
CallStamped ==
  /\ call.pc = "answered"
  /\ \E now \in Now :
       clock' = now /\ call' = [call EXCEPT !.pc = "stamped", !.at = now]
  /\ UNCHANGED <<machine, task, save, plan, apply, done, mode, crashes>>

CallRecord == [op |-> call.op, claim |-> call.claim, at |-> call.at,
               plan |-> None, input |-> 0, seen |-> call.seen]

CallRecorded ==
  /\ call.pc = "stamped" /\ Stores(CallRecord)
  /\ call' = NoCall
  /\ UNCHANGED <<machine, save, plan, apply, done, clock, mode, crashes>>

-----------------------------------------------------------------------------
(* The Host dies and comes back                                            *)

\* The rows say what was under way.
Resumed ==
  IF apply.pc = "idle" THEN apply
  ELSE [apply EXCEPT !.pc = "dispatched", !.saved = "null", !.at = 0]

Crash ==
  /\ crashes < MaxCrashes /\ crashes' = crashes + 1
  /\ mode' = "providers"
  /\ save' = IF save.pc \in {"none", "pending"} THEN save
             ELSE [save EXCEPT !.pc = "written", !.at = 0]
  /\ apply' = Resumed
  /\ call' = NoCall
  /\ UNCHANGED <<machine, task, plan, done, clock>>

\* The source edit was looked at: settled, or without an answer yet.
ProvidersRecovered ==
  /\ mode = "providers" /\ save.pc \in {"none", "pending"}
  /\ mode' = "jobs"
  /\ UNCHANGED <<machine, task, save, plan, apply, done, call, clock, crashes>>

Serves ==
  /\ mode = "jobs" /\ apply.pc = "idle"
  /\ mode' = "serving"
  /\ UNCHANGED <<machine, task, save, plan, apply, done, call, clock, crashes>>

Next ==
  \/ EditAccepted \/ EditorSaves \/ SomebodyEdits \/ PlayerApplies
  \/ SaveChecked \/ SaveStamped \/ SaveRecorded \/ SaveRow \/ SaveFails
  \/ Prepares \/ ApplyStarts \/ ApplyAnswered \/ ApplyFails
  \/ ApplyStamped \/ ApplyRecorded \/ ApplyRow
  \/ Verifies \/ Locates \/ CallRefused \/ CallStamped \/ CallRecorded
  \/ Crash \/ ProvidersRecovered \/ Serves

Spec == Init /\ [][Next]_vars

-----------------------------------------------------------------------------
(* Properties                                                              *)

Speaks(i, f) ==
  records[i].claim[f] # "null" \/ Clears(records[i])

\* A report may show j last of the records that speak of f: it reads them by
\* their stamps, in any order within one millisecond (EvidenceStore.list_task).
ShownLast(j, f) ==
  /\ Speaks(j, f)
  /\ \A i \in DOMAIN records : Speaks(i, f) => records[i].at <= records[j].at

\* A report shows the facts of a task beside its evidence records, and the
\* record it shows last of a fact gives the fact's value.  Two cases are left
\* to the stamps: records of one millisecond, and an apply that was stamped
\* before a record of the locked commands and committed after it, or the other
\* way round, which concerns runtimeMatched alone.  A fact that no record
\* speaks of is unknown (EvidenceStore.apply_task_facts).
ReportAgreesUnlessPassed ==
  \A f \in Facts :
    /\ (\A i \in DOMAIN records : ~Speaks(i, f)) => facts[f] = "null"
    /\ \A j \in DOMAIN records : ShownLast(j, f) =>
         \/ facts[f] = records[j].claim[f]
         \/ \E i \in DOMAIN records :
              /\ i > j /\ Speaks(i, f) /\ facts[f] = records[i].claim[f]
              /\ \/ records[i].at = records[j].at
                 \/ /\ f = "runtimeMatched"
                    /\ (records[i].op = "iterate") # (records[j].op = "iterate")

SaysTrue(i, f) == records[i].claim[f] = "true"

LastTrue(i, f) ==
  /\ SaysTrue(i, f)
  /\ \A j \in DOMAIN records : j > i => ~SaysTrue(j, f)

\* A save was recorded after the evidence was gathered and before it was
\* recorded itself.
Overtaken(j) ==
  \E k \in DOMAIN records :
    k > records[j].seen /\ k < j /\ Clears(records[k])

\* A task whose facts say that its source is saved and that the runtime matches
\* was applied from the saved source or a newer one, but for an apply that a save
\* overtook: its check of the source and the clearing of the facts together keep
\* an apply of an older source from being taken for one of the saved source.
MatchedMeansSavedUnlessOvertaken ==
  facts["sourceSaved"] = "true" /\ facts["runtimeMatched"] = "true" =>
    \A i, j \in DOMAIN records :
      /\ LastTrue(i, "sourceSaved") /\ LastTrue(j, "runtimeMatched")
      /\ ~Overtaken(j)
      => records[j].input >= records[i].input

\* A task whose facts say saved and matched runs the saved source or a newer
\* one: "A new saved-source fact atomically clears previous runtime/check/
\* review/fresh facts to unknown" and "The next actual apply and verification
\* commands must establish them again for the saved inputs."
\* (contracts/source-save-provider.md, The source.edit result.)
MatchedMeansSaved ==
  facts["sourceSaved"] = "true" /\ facts["runtimeMatched"] = "true" =>
    \A i, j \in DOMAIN records :
      LastTrue(i, "sourceSaved") /\ LastTrue(j, "runtimeMatched") =>
        records[j].input >= records[i].input

\* A verification is never overtaken: the verdict a task shows beside a saved
\* source was given after that save was recorded.  The execute lock, which a
\* verification holds from the question to the record, is all that keeps it
\* so (CommandService.execute).
VerdictsFollowSave ==
  \A j \in DOMAIN records : records[j].op = "verify" => ~Overtaken(j)

\* An iterate row that says completed has its evidence: the facts are
\* committed before the row, and a crash in between loses neither.
CompletedHasEvidence ==
  \A p \in done :
    \E i \in DOMAIN records :
      /\ records[i].op = "iterate" /\ records[i].plan = p
      /\ SaysTrue(i, "runtimeMatched")
=============================================================================
