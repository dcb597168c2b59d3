-------------------------- MODULE DurableSourceEdit --------------------------
(***************************************************************************)
(* The Editor's transactional save of one asset: a journal is written      *)
(* before the asset is, a failed save is undone when the file can be       *)
(* attributed to it, and a recovery reads the journal and writes nothing.  *)
(*                                                                         *)
(* A content of the asset file is a number; every save and every write of  *)
(* somebody else makes a new one.  The property values are those of the    *)
(* content, so that the hash comparisons stand for the value comparisons.  *)
(***************************************************************************)
EXTENDS EditorMailbox

VARIABLES
  \* the asset file, the number of its latest content, the content each job
  \* was accepted for, and the journals in the attempt directories
  disk, contents, expected, journal,
  \* the running operation
  edit,
  \* history: the contents each job's own save wrote, and the jobs undone
  wrote, undone

assetVars == <<disk, contents, expected, journal, edit, wrote, undone>>

NoContent == 0
NoJournal == [phase |-> "none", after |-> NoContent]
NoEdit == [pc |-> "idle", saved |-> NoContent, rewrite |-> FALSE,
           receipt |-> "none"]

AssetTypeOK ==
  /\ disk \in Nat /\ contents \in Nat
  /\ expected \in [Jobs -> Nat]
  /\ journal \in [Jobs -> [phase : {"none", "mutating", "saving", "completed",
                                    "rolling_back", "failed", "state_unknown"},
                           after : Nat]]
  /\ edit \in [pc : {"idle", "check", "modify", "save", "verify", "undo",
                     "restore", "prove", "recover", "receipt"},
               saved : Nat, rewrite : BOOLEAN, receipt : Receipts]
  /\ wrote \in [Jobs -> SUBSET Nat] /\ undone \subseteq Jobs

AssetInit ==
  /\ disk = 1 /\ contents = 1
  /\ expected = [j \in Jobs |-> NoContent]
  /\ journal = [j \in Jobs |-> NoJournal]
  /\ edit = NoEdit
  /\ wrote = [j \in Jobs |-> {}] /\ undone = {}

At(pc) == edit.pc = pc
Goto(pc) == edit' = [edit EXCEPT !.pc = pc]
Ends(r) == edit' = [edit EXCEPT !.pc = "receipt", !.receipt = r]
Before == expected[worker.job]
Journal(phase, after) ==
  journal' = [journal EXCEPT ![worker.job] = [phase |-> phase, after |-> after]]

\* A new content of the file, written by this job.
Overwrite ==
  /\ contents' = contents + 1 /\ disk' = contents + 1
  /\ wrote' = [wrote EXCEPT ![worker.job] = @ \cup {contents + 1}]

-----------------------------------------------------------------------------
(* Begin.                                                                  *)

\* The file is still what was accepted; "prepared" and "mutating" are written
\* one after the other and read alike.
CheckTarget ==
  /\ At("check")
  /\ IF disk = Before THEN Journal("mutating", NoContent) /\ Goto("modify")
                      ELSE Journal("failed", NoContent) /\ Ends("failed")
  /\ UNCHANGED <<disk, contents, expected, wrote, undone>>

\* The properties are set in memory; the file must not have changed meanwhile.
Modify ==
  /\ At("modify")
  /\ IF disk = Before THEN Journal("saving", NoContent) /\ Goto("save")
                      ELSE Goto("undo") /\ UNCHANGED journal
  /\ UNCHANGED <<disk, contents, expected, wrote, undone>>

Save ==
  /\ At("save") /\ Overwrite
  /\ edit' = [edit EXCEPT !.pc = "verify", !.saved = contents + 1]
  /\ UNCHANGED <<expected, journal, undone>>

Verify ==
  /\ At("verify")
  /\ IF disk = edit.saved THEN Journal("completed", disk) /\ Ends("completed")
                          ELSE Goto("undo") /\ UNCHANGED journal
  /\ UNCHANGED <<disk, contents, expected, wrote, undone>>

-----------------------------------------------------------------------------
(* The rollback of a save that failed after the target was modified.       *)

Attributable == disk = Before \/ (edit.saved # NoContent /\ disk = edit.saved)
GivesUp == Journal("state_unknown", NoContent) /\ Ends("state_unknown")

Undo ==
  /\ At("undo")
  /\ IF Attributable
     THEN /\ Journal("rolling_back", NoContent)
          /\ edit' = [edit EXCEPT !.pc = "restore", !.rewrite = disk # Before]
     ELSE GivesUp
  /\ UNCHANGED <<disk, contents, expected, wrote, undone>>

\* The original values are set again; the file is saved only if it changed.
Restore ==
  /\ At("restore") /\ Goto("prove")
  /\ IF edit.rewrite THEN disk' = Before /\ undone' = undone \cup {worker.job}
                     ELSE UNCHANGED <<disk, undone>>
  /\ UNCHANGED <<contents, expected, journal, wrote>>

\* Mutant: the rollback is taken for granted.
RestoredAssumed == TRUE
Restored == disk = Before

Prove ==
  /\ At("prove")
  /\ IF Restored THEN Journal("failed", Before) /\ Ends("failed") ELSE GivesUp
  /\ UNCHANGED <<disk, contents, expected, wrote, undone>>

-----------------------------------------------------------------------------
(* Recover: a terminal journal that the file still agrees with.            *)

Proved(phase) ==
  /\ journal[worker.job].phase = phase
  /\ disk = IF phase = "completed" THEN journal[worker.job].after ELSE Before

\* Mutant: the phase of the journal is the answer, whatever it is.
RecoveredUnchecked == journal[worker.job].phase
Recovered == IF Proved("completed") THEN "completed"
             ELSE IF Proved("failed") THEN "failed" ELSE "state_unknown"

Recover ==
  /\ At("recover") /\ Ends(Recovered)
  /\ UNCHANGED <<disk, contents, expected, journal, wrote, undone>>

-----------------------------------------------------------------------------
(* The backend and the disk may fail anywhere.                             *)

\* An exception: before the target was modified, while it is, during the
\* rollback, and during a recovery.
Throws ==
  /\ \/ At("check") /\ Journal("failed", NoContent) /\ Ends("failed")
     \/ edit.pc \in {"modify", "save", "verify"} /\ Goto("undo")
        /\ UNCHANGED journal
     \/ edit.pc \in {"restore", "prove"} /\ GivesUp
     \/ At("recover") /\ Ends("state_unknown") /\ UNCHANGED journal
  /\ UNCHANGED <<disk, contents, expected, wrote, undone>>

\* SaveTarget throws although it wrote, or a rollback writes other bytes.
SavesBadly ==
  /\ Overwrite
  /\ \/ At("save") /\ Goto("undo") /\ UNCHANGED undone
     \/ At("restore") /\ edit.rewrite /\ Goto("prove")
        /\ undone' = undone \cup {worker.job}
  /\ UNCHANGED <<expected, journal>>

EditFault == Throws \/ SavesBadly

EditStep == \/ CheckTarget \/ Modify \/ Save \/ Verify \/ Undo \/ Restore
            \/ Prove \/ Recover

\* Somebody else writes the file.
ForeignWrite ==
  /\ contents' = contents + 1 /\ disk' = contents + 1
  /\ UNCHANGED <<expected, journal, edit, wrote, undone>>
=============================================================================
