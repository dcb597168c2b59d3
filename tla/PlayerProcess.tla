---------------------------- MODULE PlayerProcess ----------------------------
(***************************************************************************)
(* The Player process provider of the Host (host/player_process_provider.  *)
(* py) over its Windows adapter (host/player_process_composition.py): it   *)
(* starts, re-attaches and stops the Player of the one runtime session the *)
(* machine is configured with.                                             *)
(*                                                                         *)
(* Three things outlive the Host: the state file, its .unresolved marker   *)
(* and the registration of the started process.  The Host may die between  *)
(* any two durable steps, a Player may exit at any moment, its pid may be  *)
(* reused, and the state file may refuse a write.  The provider runs one   *)
(* operation at a time under its lock.                                     *)
(*                                                                         *)
(* A process is its identity: pid, start time and executable.  Every       *)
(* baseline has its own executable, named by the baseline.  Operations     *)
(* that only answer (not authorized, not registered, refused) change       *)
(* nothing and are left out.                                               *)
(***************************************************************************)
EXTENDS Naturals, FiniteSets

CONSTANTS
    Baselines,    \* the Player builds of the catalog
    Pids,         \* process ids the system hands out
    MaxStarts,    \* bound: processes ever started on the machine
    MaxFaults,    \* bound: times the store fails to write
    MaxStales,    \* bound: markers left behind after a write
    MaxCrashes,   \* bound: deaths of the Host
    None          \* no record, no identity, no marker, no registration

ASSUME PlayerAssumption ==
    /\ MaxStarts \in Nat /\ MaxFaults \in Nat /\ MaxStales \in Nat
    /\ MaxCrashes \in Nat

VARIABLES
    file,         \* the state file
    marker,       \* its .unresolved marker, or None
    reg,          \* the registration of the session's process, or None
    volatile,     \* _volatile_blocked_baselines, lost with the Host
    owned,        \* the adapter's _owned Popen handles, lost with the Host
    pending,      \* the pids of its _pending_sessions, lost with the Host
    auth,         \* the runtime transport: "off", "match" or "drifted"
    running,      \* the processes alive on the machine
    starts,       \* the start times handed out
    op,           \* the operation in progress
    faults,       \* times the store failed to write
    stales,       \* writes that left the marker behind
    crashes,
    launched      \* history: every process the provider started

vars == <<file, marker, reg, volatile, owned, pending, auth, running, starts,
          op, faults, stales, crashes, launched>>

disk   == <<file, marker>>
memory == <<volatile, owned, pending>>
world  == <<auth, running, starts>>

Identity == [pid : Pids, start : 1 .. MaxStarts, exe : Baselines]

SessionRecord == [state : {"started", "attached", "unknown", "stopped"},
                  owned : BOOLEAN, id : Identity \cup {None},
                  baseline : Baselines]

PlayerState == [rec : SessionRecord \cup {None},
                intents : SUBSET Baselines, blocked : SUBSET Baselines]

EmptyState == [rec |-> None, intents |-> {}, blocked |-> {}]

Idle == [pc |-> "idle", base |-> None, st |-> EmptyState, id |-> None]

Operation == [pc : {"idle", "intended", "launched", "registered", "stopping"},
              base : Baselines \cup {None}, st : PlayerState,
              id : Identity \cup {None}]

ASSUME NoneAssumption ==
    /\ None \notin Baselines /\ None \notin Identity
    /\ None \notin SessionRecord /\ None \notin PlayerState

-----------------------------------------------------------------------------
(* The state file                                                          *)

\* Mutant: the start intents of the marker are not merged.
ReadWithoutIntents ==
    IF marker = None THEN file
    ELSE [file EXCEPT !.rec = IF marker.rec = None THEN @ ELSE marker.rec,
                      !.blocked = @ \cup marker.blocked]

\* read: a marker left behind overlays the primary file
Read ==
    IF marker = None THEN file
    ELSE [rec     |-> IF marker.rec = None THEN file.rec ELSE marker.rec,
          intents |-> file.intents \cup marker.intents,
          blocked |-> file.blocked \cup marker.blocked]

\* write, the count of faults becoming n: the file is replaced atomically,
\* then the marker is unlinked; it stays when the unlink fails, which is
\* ignored, or when the Host dies in between
Writes(s, n) ==
    /\ file' = s
    /\ faults' = n
    /\ \/ marker' = None /\ UNCHANGED stales
       \/ /\ marker # None /\ stales < MaxStales
          /\ stales' = stales + 1
          /\ UNCHANGED marker

\* the write raises; the same state goes to the marker instead
MarksUnresolved(s) ==
    /\ faults < MaxFaults
    /\ marker' = s
    /\ faults' = faults + 1
    /\ UNCHANGED <<file, stales>>

\* both fail: only this instance of the provider remembers the block
KeepsVolatile(b) ==
    /\ faults < MaxFaults
    /\ volatile' = volatile \cup {b}
    /\ faults' = faults + 1
    /\ UNCHANGED <<disk, stales>>

\* _persist_unresolved
PersistsUnresolved(s, b, n) ==
    \/ (Writes(s, n) \/ MarksUnresolved(s)) /\ UNCHANGED volatile
    \/ KeepsVolatile(b)

Block(s, b) == [s EXCEPT !.blocked = @ \cup {b}]

Unblock(s, b) == [s EXCEPT !.blocked = @ \ {b}, !.intents = @ \ {b}]

UnknownRecord(s) ==
    Block([s EXCEPT !.rec = [@ EXCEPT !.state = "unknown", !.owned = FALSE]],
          s.rec.baseline)

\* _mark_unknown: the record gives up its ownership and blocks its baseline
MarksUnknown(s) ==
    PersistsUnresolved(UnknownRecord(s), s.rec.baseline, faults)

\* Mutant: the record of an unknown start loses its baseline.
UnknownStartUnnamed(s, b, id) ==
    [Block(s, b) EXCEPT
        !.rec = [state |-> "unknown", owned |-> FALSE, id |-> id, baseline |-> None],
        !.intents = @ \cup {b}]

UnknownStart(s, b, id) ==
    [Block(s, b) EXCEPT
        !.rec = [state |-> "unknown", owned |-> FALSE, id |-> id, baseline |-> b],
        !.intents = @ \cup {b}]

\* _save_unknown_start
SavesUnknownStart(s, b, id, n) ==
    PersistsUnresolved(UnknownStart(s, b, id), b, n)

\* Mutant: a start looks at the blocked baselines only.
UnresolvedByBlock(b) == b \in Read.blocked \cup volatile

Unresolved(b) == b \in Read.intents \cup Read.blocked \cup volatile

-----------------------------------------------------------------------------
(* The Windows adapter                                                     *)

\* attach opens whatever process has the pid now
Occupant(p) == {h \in running : h.pid = p}

\* a Popen that has exited is dropped when its pid is attached
StillOwned(p) == {o \in owned : o.pid = p => o \in running}

\* _session_for_process: without an authenticated Player only the sessions
\* of this Host's own starts are known
SessionKnown(p) ==
    LET registered == reg # None /\ reg.pid = p
    IN  CASE auth = "match"   -> p \in pending \/ registered
          [] auth = "drifted" -> FALSE
          [] auth = "off"     -> p \in pending

\* Mutant: the start time is not compared.
MatchesExecutable(h, r) ==
    h.pid = r.id.pid /\ h.exe = r.id.exe /\ SessionKnown(h.pid)

\* _observation_matches_record: the process opened under the record's pid is
\* the recorded one, by pid, start time and executable, and it answers for
\* the session
MatchesRecord(h, r) == h = r.id /\ SessionKnown(h.pid)

\* locate, when it is conclusive; reading the registration or the identity
\* can always fail, which is unknown.  A handle to a process that has exited
\* shows its end
Located ==
    CASE reg = None -> "not_found"
      [] reg # None /\ auth # "match" -> "unknown"
      [] reg # None /\ auth = "match" ->
            IF Occupant(reg.pid) = {} THEN "not_found"
            ELSE IF reg \in running THEN "running" ELSE "unknown"

\* the lookup attaches the registered pid once the session is authenticated
Looked ==
    IF reg # None /\ auth = "match" THEN StillOwned(reg.pid) ELSE owned

\* remove: only the registration of this very process
Forgotten(id) == IF reg = id THEN None ELSE reg

\* Mutant: a stop that timed out counts as one that was verified.
TerminatesUnverified(h, verified) ==
    /\ running' \in {running, running \ {h}}
    /\ owned' = owned \ {h}
    /\ pending' = IF h \in owned THEN pending \ {h.pid} ELSE pending

\* stop on the handle of a process: it may end, survive the timeout, or end
\* without the adapter learning of it.  A Popen is given up in every case
Terminates(h, verified) ==
    /\ \/ running' = running \ {h}
       \/ ~verified /\ UNCHANGED running
    /\ owned' = owned \ {h}
    /\ pending' = IF h \in owned THEN pending \ {h.pid} ELSE pending

-----------------------------------------------------------------------------
(* player.start                                                            *)

CanStart(b) == op = Idle /\ ~Unresolved(b)

Existing(b) ==
    Read.rec # None /\ Read.rec.baseline = b /\ Read.rec.state # "stopped"

\* the resolver raised, or the lookup failed, was not conclusive, or found the
\* Player of another baseline: the start is blocked from now on
StartBlocks(b) ==
    /\ CanStart(b)
    /\ PersistsUnresolved(Block(Read, b), b, faults)
    /\ owned' \in {owned, Looked}
    /\ UNCHANGED <<reg, pending, world, op, crashes, launched>>

\* _reconcile_existing_start, when the recorded Player cannot be verified
StartReconciles(b) ==
    /\ CanStart(b) /\ Existing(b)
    /\ Read.rec.state # "unknown"
    /\ MarksUnknown(Read)
    /\ owned' = StillOwned(Read.rec.id.pid)
    /\ UNCHANGED <<reg, pending, world, op, crashes, launched>>

\* a registered Player of this baseline runs: it is preserved, not owned
StartAdopts(b) ==
    /\ CanStart(b) /\ ~Existing(b)
    /\ Located = "running" /\ reg.exe = b
    /\ Writes([Read EXCEPT !.rec = [state |-> "attached", owned |-> FALSE,
                                    id |-> reg, baseline |-> b]], faults)
    /\ UNCHANGED <<reg, memory, world, op, crashes, launched>>

\* no Player is found: the intent becomes durable before anything is started
StartIntends(b) ==
    /\ CanStart(b) /\ ~Existing(b)
    /\ Located = "not_found"
    /\ LET s == [Read EXCEPT !.intents = @ \cup {b}]
       IN  \/ /\ Writes(s, faults) \/ MarksUnresolved(s)
              /\ op' = [pc |-> "intended", base |-> b, st |-> s, id |-> None]
              /\ UNCHANGED volatile
           \/ KeepsVolatile(b) /\ UNCHANGED op
    /\ owned' = Looked
    /\ UNCHANGED <<reg, pending, world, crashes, launched>>

\* a new process; Windows reuses a pid only when nobody holds a handle to it
Fresh(b) ==
    {h \in Identity : /\ h.start = starts + 1 /\ h.exe = b
                      /\ Occupant(h.pid) = {}
                      /\ \A o \in owned : o.pid # h.pid}

\* adapter.start and prepare_started_session
Launch ==
    /\ op.pc = "intended"
    /\ \E h \in Fresh(op.base) :
          /\ running' = running \cup {h}
          /\ owned' = owned \cup {h}
          /\ pending' = pending \cup {h.pid}
          /\ launched' = launched \cup {h}
          /\ op' = [op EXCEPT !.pc = "launched", !.id = h]
    /\ starts' = starts + 1
    /\ UNCHANGED <<disk, reg, volatile, auth, faults, stales, crashes>>

\* adapter.start raised; the provider does not learn that no process exists
LaunchFails ==
    /\ op.pc = "intended"
    /\ SavesUnknownStart(op.st, op.base, None, faults)
    /\ op' = Idle
    /\ UNCHANGED <<reg, owned, pending, world, crashes, launched>>

\* the started process answers for the session: it is registered
Register ==
    /\ op.pc = "launched"
    /\ op.id \in running /\ SessionKnown(op.id.pid)
    /\ reg' = op.id
    /\ op' = [op EXCEPT !.pc = "registered"]
    /\ UNCHANGED <<disk, memory, world, faults, stales, crashes, launched>>

\* it does not, it has exited, or the registration could not be written:
\* _cleanup_started_process, and the start is unknown
RegisterFails ==
    /\ op.pc = "launched"
    /\ \E id \in {None} \cup ({op.id} \cap running) :
          SavesUnknownStart(op.st, op.base, id, faults)
    /\ Terminates(op.id, FALSE)
    /\ op' = Idle
    /\ UNCHANGED <<reg, auth, starts, crashes, launched>>

Started ==
    [op.st EXCEPT !.rec = [state |-> "started", owned |-> TRUE, id |-> op.id,
                           baseline |-> op.base],
                  !.intents = @ \ {op.base}]

Record ==
    /\ op.pc = "registered"
    /\ Writes(Started, faults)
    /\ op' = Idle
    /\ UNCHANGED <<reg, memory, world, crashes, launched>>

\* the state could not be written: the process is cleaned up, and forgotten
\* once it is verified absent
RecordFails ==
    /\ op.pc = "registered"
    /\ faults < MaxFaults
    /\ SavesUnknownStart(Started, op.base, op.id, faults + 1)
    /\ \E verified \in BOOLEAN :
          /\ Terminates(op.id, verified)
          /\ reg' = IF verified THEN Forgotten(op.id) ELSE reg
    /\ op' = Idle
    /\ UNCHANGED <<auth, starts, crashes, launched>>

-----------------------------------------------------------------------------
(* player.attach                                                           *)

CanAttach ==
    /\ op = Idle
    /\ Cardinality(Read.intents) <= 1
    /\ Read.rec # None => Read.rec.state # "stopped"

Identified == Read.rec # None /\ Read.rec.id # None

\* the recorded process is verified again: an unresolved record is settled,
\* as an attached one
AttachRebinds ==
    /\ CanAttach /\ Identified
    /\ \E h \in Occupant(Read.rec.id.pid) : MatchesRecord(h, Read.rec)
    /\ Read.rec.state = "unknown"
    /\ LET r == Read.rec
       IN  Writes([Unblock(Read, r.baseline) EXCEPT
                      !.rec = [r EXCEPT !.state = IF r.owned THEN "started"
                                                             ELSE "attached"]],
                  faults)
    /\ UNCHANGED <<reg, memory, world, op, crashes, launched>>

\* it cannot be verified
AttachLoses ==
    /\ CanAttach /\ Identified
    /\ MarksUnknown(Read)
    /\ owned' = StillOwned(Read.rec.id.pid)
    /\ UNCHANGED <<reg, pending, world, op, crashes, launched>>

\* without a recorded identity: the baseline of the record, else of the one
\* unresolved start
PriorBaselines ==
    IF Read.rec # None THEN {Read.rec.baseline} ELSE Read.intents

AttachFinds ==
    /\ CanAttach /\ ~Identified
    /\ Located = "running"
    /\ \E b \in PriorBaselines :
          /\ reg.exe = b
          /\ Writes([Unblock(Read, b) EXCEPT
                        !.rec = [state |-> "attached", owned |-> FALSE,
                                 id |-> reg, baseline |-> b]], faults)
    /\ UNCHANGED <<reg, memory, world, op, crashes, launched>>

AttachMismatches ==
    /\ CanAttach /\ ~Identified
    /\ Located = "running"
    /\ Read.rec # None /\ reg.exe # Read.rec.baseline
    /\ MarksUnknown(Read)
    /\ UNCHANGED <<reg, owned, pending, world, op, crashes, launched>>

-----------------------------------------------------------------------------
(* player.stop                                                             *)

CanStop ==
    /\ op = Idle
    /\ Read.rec # None
    /\ Read.rec.state \notin {"stopped", "unknown"}
    /\ Read.rec.owned

\* the identity is verified and the same handle is terminated
StopKills ==
    /\ CanStop
    /\ \E h \in Occupant(Read.rec.id.pid) :
          /\ MatchesRecord(h, Read.rec)
          /\ Terminates(h, TRUE)
          /\ op' = [Idle EXCEPT !.pc = "stopping", !.id = h]
    /\ UNCHANGED <<disk, reg, volatile, auth, starts, faults, stales, crashes, launched>>

\* the process could not be attached or verified: nothing is stopped
StopRefuses ==
    /\ CanStop
    /\ MarksUnknown(Read)
    /\ owned' = StillOwned(Read.rec.id.pid)
    /\ UNCHANGED <<reg, pending, world, op, crashes, launched>>

\* the request timed out or its outcome is unknown
StopUnverified ==
    /\ CanStop
    /\ \E h \in Occupant(Read.rec.id.pid) :
          MatchesRecord(h, Read.rec) /\ Terminates(h, FALSE)
    /\ MarksUnknown(Read)
    /\ UNCHANGED <<reg, auth, starts, op, crashes, launched>>

\* the process is verified absent: registration and record follow
StopRecords ==
    /\ op.pc = "stopping"
    /\ Writes([Read EXCEPT !.rec = [@ EXCEPT !.state = "stopped"],
                           !.blocked = @ \ {Read.rec.baseline}], faults)
    /\ reg' \in {reg, Forgotten(op.id)}
    /\ op' = Idle
    /\ UNCHANGED <<memory, world, crashes, launched>>

\* the write raises: the record still says started
StopWriteFails ==
    /\ op.pc = "stopping"
    /\ faults < MaxFaults
    /\ faults' = faults + 1
    /\ reg' \in {reg, Forgotten(op.id)}
    /\ op' = Idle
    /\ UNCHANGED <<disk, memory, world, stales, crashes, launched>>

-----------------------------------------------------------------------------
(* The world                                                               *)

\* the Player authenticates; its connection matches the session file, or the
\* runtime revision has moved on since the file was written
Connect ==
    /\ running # {}
    /\ auth' \in {"match", "drifted"} \ {auth}
    /\ UNCHANGED <<disk, reg, memory, running, starts, op, faults, stales, crashes, launched>>

Disconnect ==
    /\ auth # "off"
    /\ auth' = "off"
    /\ UNCHANGED <<disk, reg, memory, running, starts, op, faults, stales, crashes, launched>>

Exits(h) ==
    /\ running' = running \ {h}
    /\ UNCHANGED <<disk, reg, memory, auth, starts, op, faults, stales, crashes, launched>>

\* somebody else starts a program, possibly a copy of a Player build
OtherStarts ==
    /\ \E b \in Baselines : \E h \in Fresh(b) : running' = running \cup {h}
    /\ starts' = starts + 1
    /\ UNCHANGED <<disk, reg, memory, auth, op, faults, stales, crashes, launched>>

\* the Host dies and a new one reads the files
HostCrash ==
    /\ crashes < MaxCrashes
    /\ crashes' = crashes + 1
    /\ volatile' = {} /\ owned' = {} /\ pending' = {}
    /\ auth' = "off"
    /\ op' = Idle
    /\ UNCHANGED <<disk, reg, running, starts, faults, stales, launched>>

-----------------------------------------------------------------------------

Init ==
    /\ file = EmptyState /\ marker = None /\ reg = None
    /\ volatile = {} /\ owned = {} /\ pending = {}
    /\ auth = "off" /\ running = {} /\ starts = 0
    /\ op = Idle
    /\ faults = 0 /\ stales = 0 /\ crashes = 0
    /\ launched = {}

StartSteps ==
    \/ \E b \in Baselines : \/ StartBlocks(b) \/ StartReconciles(b)
                            \/ StartAdopts(b) \/ StartIntends(b)
    \/ Launch \/ LaunchFails
    \/ Register \/ RegisterFails
    \/ Record \/ RecordFails

AttachSteps ==
    AttachRebinds \/ AttachLoses \/ AttachFinds \/ AttachMismatches

StopSteps ==
    StopKills \/ StopRefuses \/ StopUnverified \/ StopRecords \/ StopWriteFails

World ==
    \/ Connect \/ Disconnect \/ OtherStarts \/ HostCrash
    \/ \E h \in running : Exits(h)

Next == StartSteps \/ AttachSteps \/ StopSteps \/ World

Spec == Init /\ [][Next]_vars

-----------------------------------------------------------------------------
(* Properties                                                              *)

\* The files, the adapter's tables and the operation have the shapes the code
\* gives them.
TypeOK ==
    /\ file \in PlayerState
    /\ marker \in PlayerState \cup {None}
    /\ reg \in Identity \cup {None}
    /\ volatile \subseteq Baselines
    /\ owned \subseteq Identity
    /\ pending \subseteq Pids
    /\ auth \in {"off", "match", "drifted"}
    /\ running \subseteq Identity
    /\ starts \in 0 .. MaxStarts
    /\ op \in Operation
    /\ faults \in 0 .. MaxFaults
    /\ stales \in 0 .. MaxStales
    /\ crashes \in 0 .. MaxCrashes
    /\ launched \subseteq Identity

\* the Players of a baseline that the provider started and that still run
Alive(b) == {h \in running \cap launched : h.exe = b}

\* No sequence of starts, failed writes, dead Hosts and reused pids makes the
\* provider run two Players of one baseline: the durable intent, the record
\* and the registration together refuse the second start.
OnePlayerPerBaseline == \A b \in Baselines : Cardinality(Alive(b)) <= 1

\* A running Player that the provider started is never forgotten: the files a
\* restarted Host reads name it, by its record or by an unresolved start of
\* its baseline.  A marker that stays behind twice breaks this: it hides the
\* record written over it.
NoForgottenPlayer ==
    stales <= 1 => \A h \in running \cap launched :
        \/ h.exe \in Read.intents \cup Read.blocked
        \/ Read.rec # None /\ Read.rec.id = h /\ Read.rec.state # "stopped"

\* The provider never terminates a process it did not start, whatever process
\* has taken over a recorded pid.  A process that goes in a step that touches
\* neither the files nor the operation has exited by itself.
StopsOnlyLaunched ==
    [][\A h \in running \ running' :
          h \in launched \/ UNCHANGED <<disk, op, faults>>]_vars

\* A Player recorded as stopped, which a further stop answers without looking,
\* does not run.  A marker left behind may still show an older record.
StoppedMeansAbsent ==
    marker = None /\ file.rec # None /\ file.rec.state = "stopped"
        => file.rec.id \notin running
=============================================================================
