------------------------- MODULE PlayerProcessProofs -------------------------
(***************************************************************************)
(* What PlayerProcess promises for any number of baselines, process ids,   *)
(* starts, failed writes, markers left behind and dead Hosts: one Player   *)
(* of a baseline at a time, no process terminated that the provider did    *)
(* not start, no running Player forgotten by the files and none that runs  *)
(* recorded as stopped.                                                    *)
(*                                                                         *)
(* The second start of a baseline is refused because every running Player  *)
(* is guarded: its start is unresolved in the files, or the registration   *)
(* holds its pid, so that looking for the session's process cannot report  *)
(* not_found.  The rest of the invariant carries this through a start in   *)
(* progress and through the settling of an unresolved record.              *)
(*                                                                         *)
(* What the files remember is a second invariant, relative to the first.   *)
(* A marker that stays behind hides the record of the state written over   *)
(* it.  That does no harm as long as it happens once: the marker that      *)
(* hides the record of a started Player also holds its intent, unless the  *)
(* write of the intent had left a marker behind already.                   *)
(***************************************************************************)
EXTENDS PlayerProcess, FiniteSetTheorems, TLAPS

AlivePlayers == running \cap launched

Unres(s) == s.intents \cup s.blocked

RegisteredPid(p) == reg # None /\ reg.pid = p

Records == {file.rec} \cup (IF marker = None THEN {} ELSE {marker.rec})

\* Start times are handed out in order, and a pid has one process.
Processes ==
    /\ \A h \in launched \cup running : h.start <= starts
    /\ \A g, h \in running : g.pid = h.pid => g = h

OnePerBaseline == \A g, h \in AlivePlayers : g.exe = h.exe => g = h

\* A record names a process the provider started.  One whose session this
\* Host still remembers by its pid is registered under that pid.
RecordTrue(r) ==
    r # None /\ r.id # None =>
        /\ r.id \in launched
        /\ r.baseline = r.id.exe
        /\ r.id \in running /\ r.id.pid \in pending => RegisteredPid(r.id.pid)

RecordsTrue ==
    /\ reg # None => reg \in launched
    /\ \A r \in Records : RecordTrue(r)

Guarded(h) == h.exe \in Unres(Read) \/ RegisteredPid(h.pid)

AllGuarded == \A h \in AlivePlayers : Guarded(h)

\* The start in progress is unresolved in the files; until its process is
\* registered every other running Player is unresolved too.
StartTrue ==
    /\ op.pc \in {"intended", "launched", "registered"} =>
          /\ op.base \in Baselines
          /\ op.base \in op.st.intents
          /\ Unres(op.st) \subseteq Unres(Read)
          /\ \A h \in AlivePlayers \ {op.id} :
                h.exe \in Unres(op.st) /\ h.exe # op.base
    /\ op.pc = "intended" => op.id = None
    /\ op.pc \in {"intended", "launched"} =>
          \A h \in AlivePlayers \ {op.id} : ~RegisteredPid(h.pid)
    /\ op.pc \in {"launched", "registered"} =>
          op.id \in launched /\ op.id \in owned /\ op.id.exe = op.base
    /\ op.pc = "registered" => reg = op.id

\* The process of a stop in progress is gone.
StopTrue ==
    op.pc = "stopping" =>
        /\ op.id \in launched
        /\ Read.rec # None /\ Read.rec.id = op.id
        /\ \A h \in AlivePlayers : h.pid # op.id.pid /\ h.exe # op.id.exe

OpTrue == StartTrue /\ StopTrue

IInv == /\ TypeOK /\ Processes /\ OnePerBaseline
        /\ RecordsTrue /\ AllGuarded /\ OpTrue

-----------------------------------------------------------------------------
(* The state file                                                          *)

LEMMA ReadType ==
  ASSUME TypeOK
  PROVE  /\ Read \in PlayerState
         /\ Read.rec \in Records
BY DEF TypeOK, Read, PlayerState, Records

LEMMA WritesType ==
  ASSUME TypeOK, NEW s \in PlayerState, NEW n \in 0 .. MaxFaults, Writes(s, n)
  PROVE  /\ file' \in PlayerState
         /\ marker' \in PlayerState \cup {None}
         /\ faults' \in 0 .. MaxFaults
         /\ stales' \in 0 .. MaxStales
         /\ Unres(s) \subseteq Unres(Read')
         /\ Records' \subseteq Records \cup {s.rec}
<1>1. /\ file' = s /\ faults' = n
      /\ marker' = None \/ marker' = marker
      /\ stales' = stales \/ (stales < MaxStales /\ stales' = stales + 1)
  BY DEF Writes
<1>2. /\ file' \in PlayerState /\ marker' \in PlayerState \cup {None}
      /\ faults' \in 0 .. MaxFaults
  BY <1>1 DEF TypeOK
<1>3. stales' \in 0 .. MaxStales
  BY <1>1, PlayerAssumption DEF TypeOK
<1>4. Unres(s) \subseteq Unres(Read')
  BY <1>1, <1>2 DEF Unres, Read, PlayerState
<1>5. Records' \subseteq Records \cup {s.rec}
  BY <1>1 DEF Records
<1> QED
  BY <1>2, <1>3, <1>4, <1>5

LEMMA MarksType ==
  ASSUME TypeOK, NEW s \in PlayerState, MarksUnresolved(s)
  PROVE  /\ file' \in PlayerState
         /\ marker' \in PlayerState \cup {None}
         /\ faults' \in 0 .. MaxFaults
         /\ stales' \in 0 .. MaxStales
         /\ Unres(s) \subseteq Unres(Read')
         /\ Records' \subseteq Records \cup {s.rec}
<1>1. /\ file' = file /\ marker' = s /\ stales' = stales
      /\ faults < MaxFaults /\ faults' = faults + 1
  BY DEF MarksUnresolved
<1>2. faults' \in 0 .. MaxFaults
  BY <1>1, PlayerAssumption DEF TypeOK
<1>3. Unres(s) \subseteq Unres(Read')
  BY <1>1, NoneAssumption DEF Unres, Read, PlayerState, TypeOK
<1>4. Records' \subseteq Records \cup {s.rec}
  BY <1>1 DEF Records
<1> QED
  BY <1>1, <1>2, <1>3, <1>4 DEF TypeOK

\* Whatever the store does, what the files block stays blocked and what the
\* state to be persisted shares with them too.
LEMMA PersistsType ==
  ASSUME TypeOK, NEW s \in PlayerState, NEW b \in Baselines,
         NEW n \in 0 .. MaxFaults, PersistsUnresolved(s, b, n)
  PROVE  /\ file' \in PlayerState
         /\ marker' \in PlayerState \cup {None}
         /\ volatile' \subseteq Baselines
         /\ faults' \in 0 .. MaxFaults
         /\ stales' \in 0 .. MaxStales
         /\ Unres(s) \cap Unres(Read) \subseteq Unres(Read')
         /\ Records' \subseteq Records \cup {s.rec}
<1>1. CASE Writes(s, n) /\ UNCHANGED volatile
  BY <1>1, WritesType DEF TypeOK
<1>2. CASE MarksUnresolved(s) /\ UNCHANGED volatile
  BY <1>2, MarksType DEF TypeOK
<1>3. CASE KeepsVolatile(b)
  <2>1. /\ file' = file /\ marker' = marker /\ stales' = stales
        /\ faults < MaxFaults /\ faults' = faults + 1
        /\ volatile' = volatile \cup {b}
    BY <1>3 DEF KeepsVolatile, disk
  <2>2. faults' \in 0 .. MaxFaults
    BY <2>1, PlayerAssumption DEF TypeOK
  <2>3. Read' = Read /\ Records' = Records
    BY <2>1 DEF Read, Records
  <2> QED
    BY <2>1, <2>2, <2>3 DEF TypeOK
<1> QED
  BY <1>1, <1>2, <1>3 DEF PersistsUnresolved

LEMMA UnknownRecordType ==
  ASSUME NEW s \in PlayerState, s.rec # None
  PROVE  /\ UnknownRecord(s) \in PlayerState
         /\ s.rec.baseline \in Baselines
         /\ Unres(s) \subseteq Unres(UnknownRecord(s))
         /\ UnknownRecord(s).rec.id = s.rec.id
         /\ UnknownRecord(s).rec.baseline = s.rec.baseline
         /\ UnknownRecord(s).rec # None
BY NoneAssumption DEF UnknownRecord, Block, PlayerState, SessionRecord, Unres

LEMMA UnknownStartType ==
  ASSUME NEW s \in PlayerState, NEW b \in Baselines, NEW id \in Identity \cup {None}
  PROVE  /\ UnknownStart(s, b, id) \in PlayerState
         /\ Unres(UnknownStart(s, b, id)) = Unres(s) \cup {b}
         /\ UnknownStart(s, b, id).rec.id = id
         /\ UnknownStart(s, b, id).rec.baseline = b
BY DEF UnknownStart, Block, PlayerState, SessionRecord, Unres

-----------------------------------------------------------------------------
(* What a step that ends an operation has to show                          *)

LEMMA Shrinking ==
  ASSUME Processes, OnePerBaseline, running' \subseteq running,
         UNCHANGED <<launched, starts>>
  PROVE  /\ Processes' /\ OnePerBaseline'
         /\ AlivePlayers' \subseteq AlivePlayers
BY DEF Processes, OnePerBaseline, AlivePlayers

LEMMA RecordStays ==
  ASSUME NEW r, RecordTrue(r), running' \subseteq running,
         pending' \subseteq pending, launched' = launched, reg' = reg
  PROVE  RecordTrue(r)'
BY DEF RecordTrue, RegisteredPid

LEMMA IdleTrue ==
  ASSUME op' = Idle
  PROVE  OpTrue' /\ op' \in Operation
<1>1. Idle.pc = "idle" /\ Idle \in Operation
  BY DEF Idle, Operation, EmptyState, PlayerState
<1> QED
  BY <1>1 DEF OpTrue, StartTrue, StopTrue

\* The step leaves the invariant true once the files are well typed, no
\* running Player has lost its guard and every record is still true.
LEMMA Ends ==
  ASSUME IInv, op' = Idle,
         running' \subseteq running, owned' \subseteq owned,
         pending' \subseteq pending, reg' \in {reg, None} \cup launched,
         UNCHANGED <<auth, starts, crashes, launched>>,
         file' \in PlayerState, marker' \in PlayerState \cup {None},
         volatile' \subseteq Baselines,
         faults' \in 0 .. MaxFaults, stales' \in 0 .. MaxStales,
         \A h \in AlivePlayers' : Guarded(h)',
         \A r \in Records' : RecordTrue(r)'
  PROVE  IInv'
<1>1. Processes' /\ OnePerBaseline'
  BY Shrinking DEF IInv
<1>2. OpTrue' /\ op' \in Operation
  BY IdleTrue
<1>3. reg' # None => reg' \in launched'
  BY DEF IInv, RecordsTrue
<1>4. TypeOK'
  BY <1>2 DEF IInv, TypeOK
<1> QED
  BY <1>1, <1>2, <1>3, <1>4 DEF IInv, RecordsTrue, AllGuarded

LEMMA WritesEnds ==
  ASSUME IInv, op' = Idle, NEW s \in PlayerState, Writes(s, faults),
         running' \subseteq running, pending' \subseteq pending,
         reg' \in {reg, None} \cup launched,
         UNCHANGED <<volatile, owned, auth, starts, crashes, launched>>,
         \A h \in AlivePlayers' : h.exe \in Unres(s) \/ RegisteredPid(h.pid)',
         \A r \in Records \cup {s.rec} : RecordTrue(r)'
  PROVE  IInv'
<1>1. /\ file' \in PlayerState /\ marker' \in PlayerState \cup {None}
      /\ faults' \in 0 .. MaxFaults /\ stales' \in 0 .. MaxStales
      /\ Unres(s) \subseteq Unres(Read')
      /\ Records' \subseteq Records \cup {s.rec}
  BY WritesType DEF IInv, TypeOK
<1>2. \A h \in AlivePlayers' : Guarded(h)'
  BY <1>1 DEF Guarded, Unres
<1>3. volatile' \subseteq Baselines
  BY DEF IInv, TypeOK
<1> QED
  BY <1>1, <1>2, <1>3, Ends

LEMMA PersistsEnds ==
  ASSUME IInv, op' = Idle,
         NEW s \in PlayerState, NEW b \in Baselines, NEW n \in 0 .. MaxFaults,
         PersistsUnresolved(s, b, n),
         running' \subseteq running, owned' \subseteq owned,
         pending' \subseteq pending, reg' \in {reg, None},
         UNCHANGED <<auth, starts, crashes, launched>>,
         \A h \in AlivePlayers' : \/ h.exe \in Unres(s) \cap Unres(Read)
                                  \/ RegisteredPid(h.pid)',
         \A r \in Records \cup {s.rec} : RecordTrue(r)'
  PROVE  IInv'
<1>1. /\ file' \in PlayerState /\ marker' \in PlayerState \cup {None}
      /\ volatile' \subseteq Baselines
      /\ faults' \in 0 .. MaxFaults /\ stales' \in 0 .. MaxStales
      /\ Unres(s) \cap Unres(Read) \subseteq Unres(Read')
      /\ Records' \subseteq Records \cup {s.rec}
  BY PersistsType DEF IInv
<1>2. \A h \in AlivePlayers' : Guarded(h)'
  BY <1>1 DEF Guarded, Unres
<1> QED
  BY <1>1, <1>2, Ends

\* _mark_unknown, with nothing else changing but processes that go.
LEMMA MarksUnknownEnds ==
  ASSUME IInv, op' = Idle, MarksUnknown(Read), Read.rec # None,
         running' \subseteq running, owned' \subseteq owned,
         pending' \subseteq pending,
         UNCHANGED <<reg, auth, starts, crashes, launched>>
  PROVE  IInv'
<1>1. Read \in PlayerState /\ Read.rec \in Records
  BY ReadType DEF IInv
<1>2. PICK s \in PlayerState :
         /\ PersistsUnresolved(s, Read.rec.baseline, faults)
         /\ Unres(Read) \subseteq Unres(s)
         /\ s.rec # None /\ s.rec.id = Read.rec.id
         /\ s.rec.baseline = Read.rec.baseline
  BY <1>1, UnknownRecordType DEF MarksUnknown
<1>3. Read.rec.baseline \in Baselines /\ faults \in 0 .. MaxFaults
  BY <1>1, UnknownRecordType DEF IInv, TypeOK
<1>4. \A r \in Records \cup {s.rec} : RecordTrue(r)
  BY <1>1, <1>2 DEF IInv, RecordsTrue, RecordTrue
<1>5. \A r \in Records \cup {s.rec} : RecordTrue(r)'
  BY <1>4, RecordStays
<1>6. \A h \in AlivePlayers' : \/ h.exe \in Unres(s) \cap Unres(Read)
                               \/ RegisteredPid(h.pid)'
  <2>1. AlivePlayers' \subseteq AlivePlayers
    BY Shrinking DEF IInv
  <2> QED
    BY <1>2, <2>1 DEF IInv, AllGuarded, Guarded, RegisteredPid
<1> QED
  BY <1>2, <1>3, <1>5, <1>6, PersistsEnds

\* _save_unknown_start of the operation in progress.
LEMMA SavesUnknownEnds ==
  ASSUME IInv, op' = Idle, op.pc \in {"intended", "launched", "registered"},
         NEW t \in PlayerState, Unres(op.st) \subseteq Unres(t) \cup {op.base},
         NEW id \in Identity \cup {None}, NEW n \in 0 .. MaxFaults,
         SavesUnknownStart(t, op.base, id, n),
         id # None => id \in launched /\ id.exe = op.base /\ id.pid \notin pending',
         running' \subseteq running, owned' \subseteq owned,
         pending' \subseteq pending,
         reg' = reg \/ (reg' = None /\ reg = op.id /\ reg.pid \notin pending'),
         op.id # None => op.id.exe = op.base,
         UNCHANGED <<auth, starts, crashes, launched>>
  PROVE  IInv'
<1>1. op.base \in Baselines /\ op.base \in op.st.intents
  BY DEF IInv, OpTrue, StartTrue
<1>2. PICK s \in PlayerState :
         /\ PersistsUnresolved(s, op.base, n)
         /\ Unres(s) = Unres(t) \cup {op.base}
         /\ s.rec.id = id /\ s.rec.baseline = op.base
  BY <1>1, UnknownStartType DEF SavesUnknownStart
<1>3. \A r \in Records \cup {s.rec} : RecordTrue(r)'
  <2>1. RecordTrue(s.rec)'
    BY <1>2 DEF RecordTrue
  <2>2. ASSUME NEW r \in Records PROVE RecordTrue(r)'
    <3>1. RecordTrue(r)
      BY DEF IInv, RecordsTrue
    <3>2. CASE reg' = reg
      BY <3>1, <3>2, RecordStays
    <3>3. CASE reg' = None /\ reg = op.id /\ reg.pid \notin pending'
      BY <3>1, <3>3 DEF RecordTrue, RegisteredPid
    <3> QED
      BY <3>2, <3>3
  <2> QED
    BY <2>1, <2>2
<1>4. \A h \in AlivePlayers' : h.exe \in Unres(s) \cap Unres(Read)
  <2>1. AlivePlayers' \subseteq AlivePlayers
    BY Shrinking DEF IInv
  <2>2. ASSUME NEW h \in AlivePlayers
        PROVE  h.exe \in Unres(op.st) \cup {op.base}
    <3>1. CASE h = op.id
      BY <3>1, NoneAssumption DEF IInv, TypeOK, AlivePlayers
    <3>2. CASE h # op.id
      BY <3>2 DEF IInv, OpTrue, StartTrue
    <3> QED
      BY <3>1, <3>2
  <2>3. op.base \in Unres(op.st) /\ Unres(op.st) \subseteq Unres(Read)
    BY <1>1 DEF IInv, OpTrue, StartTrue, Unres
  <2> QED
    BY <1>2, <2>1, <2>2, <2>3
<1>5. reg' \in {reg, None}
  OBVIOUS
<1> QED
  BY <1>1, <1>2, <1>3, <1>4, <1>5, PersistsEnds

-----------------------------------------------------------------------------
(* player.start                                                            *)

\* An unresolved start is refused, and looking for the session's process
\* finds every running Player that is only registered.
LEMMA StartFinds ==
  ASSUME IInv, NEW b \in Baselines, CanStart(b), Located = "not_found"
  PROVE  \A h \in AlivePlayers : /\ h.exe \in Unres(Read) /\ h.exe # b
                                 /\ ~RegisteredPid(h.pid)
<1> SUFFICES ASSUME NEW h \in AlivePlayers
             PROVE  h.exe \in Unres(Read) /\ h.exe # b /\ ~RegisteredPid(h.pid)
  OBVIOUS
<1>1. ~RegisteredPid(h.pid)
  <2> SUFFICES ASSUME reg # None, reg.pid = h.pid PROVE FALSE
    BY DEF RegisteredPid
  <2>1. h \in Occupant(reg.pid)
    BY DEF Occupant, AlivePlayers
  <2> QED
    BY <2>1 DEF Located, IInv, TypeOK
<1>2. h.exe \in Unres(Read)
  BY <1>1 DEF IInv, AllGuarded, Guarded
<1>3. b \notin Unres(Read)
  BY DEF CanStart, Unresolved, Unres
<1> QED
  BY <1>1, <1>2, <1>3

LEMMA LookedOwned ==
  ASSUME IInv
  PROVE  Looked \subseteq owned /\ \A p : StillOwned(p) \subseteq owned
BY DEF Looked, StillOwned

LEMMA StartBlocksIInv ==
  ASSUME IInv, NEW b \in Baselines, StartBlocks(b)
  PROVE  IInv'
<1> DEFINE s == Block(Read, b)
<1>1. Read \in PlayerState /\ Read.rec \in Records
  BY ReadType DEF IInv
<1>2. s \in PlayerState /\ Unres(Read) \subseteq Unres(s) /\ s.rec = Read.rec
  BY <1>1 DEF Block, PlayerState, Unres
<1>3. PICK t \in PlayerState : t = s
  BY <1>2
<1>4. /\ op' = Idle /\ PersistsUnresolved(t, b, faults) /\ owned' \subseteq owned
      /\ running' = running /\ pending' = pending /\ reg' = reg
      /\ UNCHANGED <<auth, starts, crashes, launched>>
      /\ faults \in 0 .. MaxFaults
  BY <1>3, LookedOwned DEF StartBlocks, CanStart, world, IInv, TypeOK
<1>5. \A r \in Records \cup {t.rec} : RecordTrue(r)'
  <2>1. \A r \in Records \cup {t.rec} : RecordTrue(r)
    BY <1>1, <1>2, <1>3 DEF IInv, RecordsTrue
  <2> QED
    BY <1>4, <2>1, RecordStays
<1>6. \A h \in AlivePlayers' : \/ h.exe \in Unres(t) \cap Unres(Read)
                               \/ RegisteredPid(h.pid)'
  BY <1>2, <1>3, <1>4 DEF IInv, AllGuarded, Guarded, RegisteredPid, AlivePlayers
<1> HIDE DEF s
<1> QED
  BY <1>4, <1>5, <1>6, PersistsEnds

LEMMA StartReconcilesIInv ==
  ASSUME IInv, NEW b \in Baselines, StartReconciles(b)
  PROVE  IInv'
<1>1. /\ op' = Idle /\ MarksUnknown(Read) /\ Read.rec # None
      /\ owned' \subseteq owned
      /\ running' = running /\ pending' = pending
      /\ UNCHANGED <<reg, auth, starts, crashes, launched>>
  BY LookedOwned DEF StartReconciles, CanStart, Existing, world
<1> QED
  BY <1>1, MarksUnknownEnds

\* A record of the registered process is true.
LEMMA RegisteredRecord ==
  ASSUME IInv, NEW r, r # None, r.id = reg, r.baseline = reg.exe
  PROVE  RecordTrue(r)
BY DEF IInv, RecordsTrue, RecordTrue, RegisteredPid

LEMMA StartAdoptsIInv ==
  ASSUME IInv, NEW b \in Baselines, StartAdopts(b)
  PROVE  IInv'
<1> DEFINE u == [state |-> "attached", owned |-> FALSE, id |-> reg, baseline |-> b]
           s == [Read EXCEPT !.rec = u]
<1>1. Read \in PlayerState
  BY ReadType DEF IInv
<1>2. u \in SessionRecord
  BY DEF IInv, TypeOK, SessionRecord
<1>3. s \in PlayerState /\ Unres(s) = Unres(Read) /\ s.rec = u
  BY <1>1, <1>2 DEF PlayerState, Unres
<1>4. PICK t \in PlayerState : t = s
  BY <1>3
<1>5. /\ op' = Idle /\ Writes(t, faults) /\ reg.exe = b
      /\ UNCHANGED <<volatile, owned, pending, running, reg, auth, starts,
                     crashes, launched>>
  BY <1>4 DEF StartAdopts, CanStart, world, memory
<1>6. \A r \in Records \cup {t.rec} : RecordTrue(r)'
  <2>1. RecordTrue(t.rec)
    BY <1>3, <1>4, <1>5, <1>2, NoneAssumption, RegisteredRecord
  <2>2. \A r \in Records : RecordTrue(r)
    BY DEF IInv, RecordsTrue
  <2> QED
    BY <1>5, <2>1, <2>2, RecordStays
<1>7. \A h \in AlivePlayers' : h.exe \in Unres(t) \/ RegisteredPid(h.pid)'
  BY <1>3, <1>4, <1>5 DEF IInv, AllGuarded, Guarded, RegisteredPid, AlivePlayers
<1> HIDE DEF s, u
<1> QED
  BY <1>5, <1>6, <1>7, WritesEnds

LEMMA LaunchFailsIInv ==
  ASSUME IInv, LaunchFails
  PROVE  IInv'
<1>1. PICK t \in PlayerState : t = op.st
  BY DEF IInv, TypeOK, Operation
<1>2. /\ op' = Idle /\ op.pc = "intended" /\ op.id = None
      /\ SavesUnknownStart(t, op.base, None, faults)
      /\ UNCHANGED <<reg, owned, pending, running, auth, starts, crashes, launched>>
      /\ faults \in 0 .. MaxFaults
  BY <1>1 DEF LaunchFails, world, IInv, TypeOK, OpTrue, StartTrue
<1>3. Unres(op.st) \subseteq Unres(t) \cup {op.base}
  BY <1>1
<1> QED
  BY <1>2, <1>3, SavesUnknownEnds

LEMMA TerminatesOwned ==
  ASSUME IInv, NEW h \in owned, NEW v \in BOOLEAN, Terminates(h, v)
  PROVE  /\ running' \subseteq running /\ owned' \subseteq owned
         /\ pending' = pending \ {h.pid}
BY DEF Terminates

LEMMA RegisterFailsIInv ==
  ASSUME IInv, RegisterFails
  PROVE  IInv'
<1>1. PICK t \in PlayerState : t = op.st
  BY DEF IInv, TypeOK, Operation
<1>2. /\ op.id \in owned /\ op.id \in launched /\ op.id.exe = op.base
      /\ op.id \in Identity
  BY DEF RegisterFails, IInv, OpTrue, StartTrue, TypeOK
<1>3. PICK id \in {None} \cup ({op.id} \cap running) :
         SavesUnknownStart(t, op.base, id, faults)
  BY <1>1 DEF RegisterFails
<1>4. /\ running' \subseteq running /\ owned' \subseteq owned
      /\ pending' = pending \ {op.id.pid}
  BY <1>2, TerminatesOwned DEF RegisterFails
<1>5. /\ op' = Idle /\ op.pc = "launched"
      /\ UNCHANGED <<reg, auth, starts, crashes, launched>>
      /\ faults \in 0 .. MaxFaults
  BY DEF RegisterFails, IInv, TypeOK
<1>6. Unres(op.st) \subseteq Unres(t) \cup {op.base}
  BY <1>1
<1> QED
  BY <1>2, <1>3, <1>4, <1>5, <1>6, SavesUnknownEnds

LEMMA StartedType ==
  ASSUME IInv, op.pc = "registered"
  PROVE  /\ Started \in PlayerState
         /\ Unres(op.st) \subseteq Unres(Started) \cup {op.base}
         /\ Started.rec # None
         /\ Started.rec.id = op.id /\ Started.rec.baseline = op.base
<1>1. op.st \in PlayerState /\ op.base \in Baselines /\ op.id \in Identity
  BY DEF IInv, TypeOK, Operation, OpTrue, StartTrue
<1>2. [state |-> "started", owned |-> TRUE, id |-> op.id, baseline |-> op.base]
         \in SessionRecord
  BY <1>1 DEF SessionRecord
<1> QED
  BY <1>1, <1>2, NoneAssumption DEF Started, PlayerState, Unres

LEMMA RecordIInv ==
  ASSUME IInv, Record
  PROVE  IInv'
<1>1. PICK t \in PlayerState : /\ t = Started
                               /\ Unres(op.st) \subseteq Unres(t) \cup {op.base}
                               /\ t.rec # None
                               /\ t.rec.id = op.id /\ t.rec.baseline = op.base
  BY StartedType DEF Record
<1>2. /\ op' = Idle /\ Writes(t, faults) /\ op.pc = "registered"
      /\ UNCHANGED <<volatile, owned, pending, running, reg, auth, starts,
                     crashes, launched>>
  BY <1>1 DEF Record, world, memory
<1>3. reg = op.id /\ op.id.exe = op.base /\ reg # None
  BY <1>2, NoneAssumption DEF IInv, OpTrue, StartTrue, TypeOK
<1>4. \A r \in Records \cup {t.rec} : RecordTrue(r)'
  <2>1. RecordTrue(t.rec)
    BY <1>1, <1>3, RegisteredRecord
  <2>2. \A r \in Records : RecordTrue(r)
    BY DEF IInv, RecordsTrue
  <2> QED
    BY <1>2, <2>1, <2>2, RecordStays
<1>5. \A h \in AlivePlayers' : h.exe \in Unres(t) \/ RegisteredPid(h.pid)'
  <2> SUFFICES ASSUME NEW h \in AlivePlayers
               PROVE  h.exe \in Unres(t) \/ (reg # None /\ reg.pid = h.pid)
    BY <1>2 DEF AlivePlayers, RegisteredPid
  <2>1. CASE h = op.id
    BY <2>1, <1>3
  <2>2. CASE h # op.id
    BY <2>2, <1>1, <1>2 DEF IInv, OpTrue, StartTrue
  <2> QED
    BY <2>1, <2>2
<1> QED
  BY <1>2, <1>4, <1>5, WritesEnds

LEMMA RecordFailsIInv ==
  ASSUME IInv, RecordFails
  PROVE  IInv'
<1>1. PICK t \in PlayerState : /\ t = Started
                               /\ Unres(op.st) \subseteq Unres(t) \cup {op.base}
  BY StartedType DEF RecordFails
<1>2. /\ op' = Idle /\ op.pc = "registered"
      /\ SavesUnknownStart(t, op.base, op.id, faults + 1)
      /\ UNCHANGED <<auth, starts, crashes, launched>>
      /\ faults < MaxFaults
  BY <1>1 DEF RecordFails
<1>3. faults + 1 \in 0 .. MaxFaults
  BY <1>2, PlayerAssumption DEF IInv, TypeOK
<1>4. /\ op.id \in owned /\ op.id \in launched /\ op.id.exe = op.base
      /\ op.id \in Identity /\ reg = op.id
  BY <1>2 DEF IInv, OpTrue, StartTrue, TypeOK
<1>5. PICK v \in BOOLEAN : /\ Terminates(op.id, v)
                           /\ reg' = IF v THEN Forgotten(op.id) ELSE reg
  BY DEF RecordFails
<1>6. /\ running' \subseteq running /\ owned' \subseteq owned
      /\ pending' = pending \ {op.id.pid}
  BY <1>4, <1>5, TerminatesOwned
<1>7. reg' = reg \/ (reg' = None /\ reg = op.id /\ reg.pid \notin pending')
  BY <1>4, <1>5, <1>6 DEF Forgotten
<1> QED
  BY <1>1, <1>2, <1>3, <1>4, <1>6, <1>7, SavesUnknownEnds

LEMMA StartIntendsIInv ==
  ASSUME IInv, NEW b \in Baselines, StartIntends(b)
  PROVE  IInv'
<1> DEFINE s == [Read EXCEPT !.intents = @ \cup {b}]
<1>1. Read \in PlayerState /\ Read.rec \in Records
  BY ReadType DEF IInv
<1>a. /\ s \in PlayerState /\ s.rec = Read.rec /\ b \in s.intents
      /\ Unres(s) = Unres(Read) \cup {b}
  BY <1>1 DEF PlayerState, Unres
<1>2. PICK t \in PlayerState : /\ t = s /\ t.rec = Read.rec
                               /\ b \in t.intents
                               /\ Unres(t) = Unres(Read) \cup {b}
  BY <1>a
<1>3. /\ op = Idle /\ owned' \subseteq owned
      /\ UNCHANGED <<reg, pending, auth, running, starts, crashes, launched>>
      /\ faults \in 0 .. MaxFaults
  BY LookedOwned DEF StartIntends, CanStart, world, IInv, TypeOK
<1>4. CASE KeepsVolatile(b) /\ UNCHANGED op
  <2>1. /\ PersistsUnresolved(t, b, faults) /\ op' = Idle
    BY <1>3, <1>4 DEF PersistsUnresolved
  <2>2. \A r \in Records \cup {t.rec} : RecordTrue(r)'
    <3>1. \A r \in Records \cup {t.rec} : RecordTrue(r)
      BY <1>1, <1>2 DEF IInv, RecordsTrue
    <3> QED
      BY <1>3, <3>1, RecordStays
  <2>3. \A h \in AlivePlayers' : \/ h.exe \in Unres(t) \cap Unres(Read)
                                 \/ RegisteredPid(h.pid)'
    BY <1>2, <1>3 DEF IInv, AllGuarded, Guarded, RegisteredPid, AlivePlayers
  <2> HIDE DEF s
  <2> QED
    BY <1>3, <2>1, <2>2, <2>3, PersistsEnds
<1>5. CASE /\ Writes(t, faults) \/ MarksUnresolved(t)
           /\ op' = [pc |-> "intended", base |-> b, st |-> t, id |-> None]
           /\ UNCHANGED volatile
  <2>1. /\ file' \in PlayerState /\ marker' \in PlayerState \cup {None}
        /\ faults' \in 0 .. MaxFaults /\ stales' \in 0 .. MaxStales
        /\ Unres(t) \subseteq Unres(Read')
        /\ Records' \subseteq Records \cup {t.rec}
    BY <1>3, <1>5, WritesType, MarksType DEF IInv
  <2>2. op' \in Operation
    BY <1>5 DEF Operation
  <2>3. TypeOK'
    BY <1>3, <1>5, <2>1, <2>2 DEF IInv, TypeOK
  <2>4. Processes' /\ OnePerBaseline'
    BY <1>3, Shrinking DEF IInv
  <2>5. RecordsTrue'
    <3>1. \A r \in Records \cup {t.rec} : RecordTrue(r)
      BY <1>1, <1>2 DEF IInv, RecordsTrue
    <3>2. \A r \in Records \cup {t.rec} : RecordTrue(r)'
      BY <1>3, <3>1, RecordStays
    <3> QED
      BY <1>3, <2>1, <3>2 DEF IInv, RecordsTrue
  <2>6. AllGuarded'
    BY <1>2, <1>3, <2>1
       DEF IInv, AllGuarded, Guarded, RegisteredPid, AlivePlayers, Unres
  <2>7. \A h \in AlivePlayers : /\ h.exe \in Unres(Read) /\ h.exe # b
                                /\ ~RegisteredPid(h.pid)
    BY StartFinds DEF StartIntends
  <2>8. StartTrue'
    <3>1. \A h \in AlivePlayers' : /\ h.exe \in Unres(t) /\ h.exe # b
                                   /\ ~RegisteredPid(h.pid)'
      BY <1>2, <1>3, <2>7 DEF AlivePlayers, RegisteredPid
    <3>2. /\ op'.pc = "intended" /\ op'.base = b /\ op'.st = t /\ op'.id = None
      BY <1>5
    <3>3. Unres(op.st)' = Unres(t)
      BY <3>2 DEF Unres
    <3> QED
      BY <1>2, <2>1, <3>1, <3>2, <3>3 DEF StartTrue, AlivePlayers, RegisteredPid, Unres
  <2>9. StopTrue'
    BY <1>5 DEF StopTrue
  <2> QED
    BY <2>3, <2>4, <2>5, <2>6, <2>8, <2>9 DEF IInv, OpTrue
<1> QED
  BY <1>2, <1>4, <1>5 DEF StartIntends

LEMMA LaunchIInv ==
  ASSUME IInv, Launch
  PROVE  IInv'
<1>1. PICK h \in Fresh(op.base) :
         /\ running' = running \cup {h}
         /\ owned' = owned \cup {h}
         /\ pending' = pending \cup {h.pid}
         /\ launched' = launched \cup {h}
         /\ op' = [op EXCEPT !.pc = "launched", !.id = h]
  BY DEF Launch
<1>2. /\ op.pc = "intended" /\ op.id = None /\ op \in Operation
      /\ starts' = starts + 1
      /\ UNCHANGED <<file, marker, reg, volatile, auth, faults, stales, crashes>>
  BY DEF Launch, disk, IInv, OpTrue, StartTrue, TypeOK
<1>3. /\ h \in Identity /\ h.start = starts + 1 /\ h.exe = op.base
      /\ \A g \in running : g.pid # h.pid
  BY <1>1 DEF Fresh, Occupant
<1>4. starts \in Nat /\ h.start \in 1 .. MaxStarts /\ h.pid \in Pids
  BY <1>3 DEF IInv, TypeOK, Identity
<1>5. \A g \in launched \cup running : g.start \in Nat /\ g.start <= starts
  BY DEF IInv, Processes, TypeOK, Identity
<1>6. h \notin launched \cup running
  BY <1>3, <1>4, <1>5
<1>7. /\ op'.pc = "launched" /\ op'.id = h /\ op'.base = op.base
      /\ op'.st = op.st /\ op' \in Operation
  BY <1>1, <1>2, <1>3 DEF Operation
<1>8. TypeOK'
  <2>1. starts' \in 0 .. MaxStarts
    BY <1>2, <1>3, <1>4
  <2> QED
    BY <1>1, <1>2, <1>3, <1>4, <1>7, <2>1 DEF IInv, TypeOK
<1>9. AlivePlayers' = AlivePlayers \cup {h}
  BY <1>1, <1>6 DEF AlivePlayers
<1>10. /\ op.base \in Baselines /\ op.base \in op.st.intents
       /\ Unres(op.st) \subseteq Unres(Read)
       /\ \A g \in AlivePlayers : /\ g.exe \in Unres(op.st) /\ g.exe # op.base
                                  /\ ~RegisteredPid(g.pid)
  BY <1>2, NoneAssumption DEF IInv, OpTrue, StartTrue, AlivePlayers, TypeOK
<1>11. Processes'
  <2>1. ASSUME NEW g \in launched' \cup running' PROVE g.start <= starts'
    <3>1. CASE g = h
      BY <3>1, <1>2, <1>3, <1>4
    <3>2. CASE g \in launched \cup running
      BY <3>2, <1>2, <1>4, <1>5
    <3> QED
      BY <1>1, <3>1, <3>2
  <2>2. ASSUME NEW f \in running', NEW g \in running', f.pid = g.pid PROVE f = g
    BY <1>1, <1>3, <2>2 DEF IInv, Processes
  <2> QED
    BY <2>1, <2>2 DEF Processes
<1>12. OnePerBaseline'
  BY <1>3, <1>9, <1>10 DEF IInv, OnePerBaseline
<1>13. Read' = Read /\ Records' = Records
  BY <1>2 DEF Read, Records
<1>14. RecordsTrue'
  <2>1. ASSUME NEW r \in Records PROVE RecordTrue(r)'
    <3>1. RecordTrue(r)
      BY DEF IInv, RecordsTrue
    <3> QED
      BY <1>1, <1>2, <1>3, <1>6, <3>1 DEF RecordTrue, RegisteredPid
  <2> QED
    BY <1>1, <1>2, <1>13, <2>1 DEF IInv, RecordsTrue
<1>15. AllGuarded'
  BY <1>3, <1>9, <1>10, <1>13 DEF AllGuarded, Guarded, Unres
<1>16. OpTrue'
  <2>1. Unres(op.st)' = Unres(op.st)
    BY <1>7 DEF Unres
  <2>2. \A g \in AlivePlayers' \ {op'.id} :
           g.exe \in Unres(op.st)' /\ g.exe # op'.base /\ ~RegisteredPid(g.pid)'
    BY <1>2, <1>7, <1>9, <1>10, <2>1 DEF RegisteredPid
  <2> QED
    BY <1>1, <1>3, <1>7, <1>10, <1>13, <2>1, <2>2 DEF OpTrue, StartTrue, StopTrue, Unres
<1> QED
  BY <1>8, <1>11, <1>12, <1>14, <1>15, <1>16 DEF IInv

LEMMA RegisterIInv ==
  ASSUME IInv, Register
  PROVE  IInv'
<1>1. /\ op.pc = "launched" /\ reg' = op.id
      /\ op' = [op EXCEPT !.pc = "registered"]
      /\ UNCHANGED <<file, marker, volatile, owned, pending, auth, running,
                     starts, faults, stales, crashes, launched>>
  BY DEF Register, disk, memory, world
<1>2. /\ op.id \in launched /\ op.id \in Identity /\ op \in Operation
  BY <1>1 DEF IInv, OpTrue, StartTrue, TypeOK
<1>3. /\ op'.pc = "registered" /\ op'.id = op.id /\ op'.base = op.base
      /\ op'.st = op.st /\ op' \in Operation
  BY <1>1, <1>2 DEF Operation
<1>4. TypeOK'
  BY <1>1, <1>2, <1>3 DEF IInv, TypeOK
<1>5. Processes' /\ OnePerBaseline' /\ AlivePlayers' = AlivePlayers
  BY <1>1, Shrinking DEF IInv, AlivePlayers
<1>6. Read' = Read /\ Records' = Records /\ Unres(op.st)' = Unres(op.st)
  BY <1>1, <1>3 DEF Read, Records, Unres
<1>7. \A g \in AlivePlayers \ {op.id} :
         g.exe \in Unres(op.st) /\ g.exe # op.base /\ ~RegisteredPid(g.pid)
  BY <1>1 DEF IInv, OpTrue, StartTrue
<1>8. RecordsTrue'
  <2>1. ASSUME NEW r \in Records PROVE RecordTrue(r)'
    <3>1. RecordTrue(r)
      BY DEF IInv, RecordsTrue
    <3>2. ASSUME r # None, r.id # None, r.id \in running, r.id.pid \in pending
          PROVE  r.id = op.id
      BY <3>1, <3>2, <1>7 DEF RecordTrue, AlivePlayers
    <3> QED
      BY <1>1, <1>2, <3>1, <3>2, NoneAssumption DEF RecordTrue, RegisteredPid
  <2> QED
    BY <1>1, <1>2, <1>6, <2>1 DEF RecordsTrue
<1>9. AllGuarded'
  <2> SUFFICES ASSUME NEW g \in AlivePlayers
               PROVE  g.exe \in Unres(Read)' \/ RegisteredPid(g.pid)'
    BY <1>5 DEF AllGuarded, Guarded
  <2>1. CASE g = op.id
    BY <2>1, <1>1, <1>2, NoneAssumption DEF RegisteredPid
  <2>2. CASE g # op.id
    <3>1. g.exe \in Unres(Read)
      BY <2>2, <1>1, <1>7 DEF IInv, OpTrue, StartTrue
    <3> QED
      BY <3>1, <1>6 DEF Unres
  <2> QED
    BY <2>1, <2>2
<1>10. OpTrue'
  <2>1. /\ op.base \in Baselines /\ op.base \in op.st.intents
        /\ Unres(op.st) \subseteq Unres(Read)
        /\ op.id \in owned /\ op.id.exe = op.base
    BY <1>1 DEF IInv, OpTrue, StartTrue
  <2> QED
    BY <1>1, <1>2, <1>3, <1>5, <1>6, <1>7, <2>1 DEF OpTrue, StartTrue, StopTrue, Unres
<1> QED
  BY <1>4, <1>5, <1>8, <1>9, <1>10 DEF IInv

-----------------------------------------------------------------------------
(* player.attach                                                           *)

\* A recorded process whose session is known is registered, and no other
\* running Player shares its baseline.
LEMMA Verified ==
  ASSUME IInv, NEW h \in Occupant(Read.rec.id.pid), Read.rec # None,
         MatchesRecord(h, Read.rec)
  PROVE  /\ h \in AlivePlayers /\ h = Read.rec.id
         /\ h.exe = Read.rec.baseline
         /\ RegisteredPid(h.pid)
         /\ \A g \in AlivePlayers : g # h => g.pid # h.pid /\ g.exe # h.exe
<1>1. h \in running /\ h = Read.rec.id /\ SessionKnown(h.pid) /\ h \in Identity
  BY DEF Occupant, MatchesRecord, IInv, TypeOK
<1>2. RecordTrue(Read.rec)
  BY ReadType DEF IInv, RecordsTrue
<1>3. h \in launched /\ Read.rec.baseline = h.exe
  BY <1>1, <1>2, NoneAssumption DEF RecordTrue
<1>4. h.pid \in pending \/ RegisteredPid(h.pid)
  BY <1>1 DEF SessionKnown, RegisteredPid, IInv, TypeOK
<1>5. RegisteredPid(h.pid)
  BY <1>1, <1>2, <1>4, NoneAssumption DEF RecordTrue
<1> QED
  BY <1>1, <1>3, <1>5 DEF AlivePlayers, IInv, Processes, OnePerBaseline

\* Settling the baseline of a registered Player leaves every other Player
\* guarded.
LEMMA Settles ==
  ASSUME IInv, op = Idle, NEW s \in PlayerState, Writes(s, faults),
         NEW h \in AlivePlayers, RegisteredPid(h.pid),
         Unres(s) = Unres(Read) \ {h.exe},
         RecordTrue(s.rec),
         UNCHANGED <<reg, memory, world, op, crashes, launched>>
  PROVE  IInv'
<1>1. /\ op' = Idle
      /\ UNCHANGED <<reg, volatile, owned, pending, auth, running, starts, crashes, launched>>
  BY DEF memory, world
<1>2. \A r \in Records \cup {s.rec} : RecordTrue(r)'
  BY <1>1, RecordStays DEF IInv, RecordsTrue
<1>3. \A g \in AlivePlayers' : g.exe \in Unres(s) \/ RegisteredPid(g.pid)'
  BY <1>1 DEF IInv, AllGuarded, Guarded, OnePerBaseline, AlivePlayers, RegisteredPid
<1> QED
  BY <1>1, <1>2, <1>3, WritesEnds

LEMMA AttachRebindsIInv ==
  ASSUME IInv, AttachRebinds
  PROVE  IInv'
<1> DEFINE r == Read.rec
           u == [r EXCEPT !.state = IF r.owned THEN "started" ELSE "attached"]
           s == [Unblock(Read, r.baseline) EXCEPT !.rec = u]
<1>1. Read \in PlayerState /\ Read.rec \in Records /\ Read.rec # None
  BY ReadType DEF IInv, AttachRebinds, Identified
<1>2. r \in SessionRecord
  BY <1>1 DEF PlayerState
<1>3. u \in SessionRecord /\ u.id = r.id /\ u.baseline = r.baseline
  BY <1>2 DEF SessionRecord
<1>4. PICK h \in Occupant(Read.rec.id.pid) : MatchesRecord(h, Read.rec)
  BY DEF AttachRebinds
<1>5. /\ h \in AlivePlayers /\ h = r.id /\ h.exe = r.baseline
      /\ RegisteredPid(h.pid)
  BY <1>1, <1>4, Verified
<1>6. /\ s \in PlayerState /\ s.rec = u
      /\ Unres(s) = Unres(Read) \ {r.baseline}
  BY <1>1, <1>3 DEF PlayerState, Unres, Unblock
<1>7. RecordTrue(r)
  BY <1>1 DEF IInv, RecordsTrue
<1>8. RecordTrue(u)
  BY <1>1, <1>3, <1>7 DEF RecordTrue
<1>9. PICK t \in PlayerState : t = s /\ RecordTrue(t.rec)
                                  /\ Unres(t) = Unres(Read) \ {h.exe}
  BY <1>5, <1>6, <1>8
<1>10. /\ op = Idle /\ Writes(t, faults)
       /\ UNCHANGED <<reg, memory, world, op, crashes, launched>>
  BY <1>9 DEF AttachRebinds, CanAttach
<1> HIDE DEF s, u, r
<1> QED
  BY <1>5, <1>9, <1>10, Settles

LEMMA AttachFindsIInv ==
  ASSUME IInv, AttachFinds
  PROVE  IInv'
<1>1. Read \in PlayerState
  BY ReadType DEF IInv
<1>2. /\ reg # None /\ reg \in running
  BY DEF AttachFinds, Located
<1>3. reg \in AlivePlayers /\ RegisteredPid(reg.pid) /\ reg \in Identity
  BY <1>2 DEF IInv, RecordsTrue, AlivePlayers, RegisteredPid, TypeOK
<1>4. PICK b \in PriorBaselines :
         /\ reg.exe = b
         /\ Writes([Unblock(Read, b) EXCEPT
                       !.rec = [state |-> "attached", owned |-> FALSE,
                                id |-> reg, baseline |-> b]], faults)
  BY DEF AttachFinds
<1> DEFINE u == [state |-> "attached", owned |-> FALSE, id |-> reg, baseline |-> b]
           s == [Unblock(Read, b) EXCEPT !.rec = u]
<1>5. u \in SessionRecord
  BY <1>3, <1>4 DEF SessionRecord, Identity
<1>6. /\ s \in PlayerState /\ s.rec = u /\ Unres(s) = Unres(Read) \ {b}
  BY <1>1, <1>5 DEF PlayerState, Unres, Unblock
<1>7. RecordTrue(u)
  BY <1>4, <1>5, NoneAssumption, RegisteredRecord
<1>8. PICK h \in AlivePlayers : h = reg
  BY <1>3
<1>9. PICK t \in PlayerState : t = s /\ RecordTrue(t.rec)
                                  /\ Unres(t) = Unres(Read) \ {h.exe}
  BY <1>4, <1>6, <1>7, <1>8
<1>10. /\ op = Idle /\ Writes(t, faults)
       /\ UNCHANGED <<reg, memory, world, op, crashes, launched>>
  BY <1>4, <1>9 DEF AttachFinds, CanAttach
<1>11. RegisteredPid(h.pid)
  BY <1>3, <1>8
<1> HIDE DEF s, u
<1> QED
  BY <1>9, <1>10, <1>11, Settles

LEMMA AttachLosesIInv ==
  ASSUME IInv, AttachLoses \/ AttachMismatches
  PROVE  IInv'
<1>1. /\ op = Idle /\ op' = Idle /\ MarksUnknown(Read) /\ Read.rec # None
      /\ owned' \subseteq owned
      /\ running' = running /\ pending' = pending
      /\ UNCHANGED <<reg, auth, starts, crashes, launched>>
  BY LookedOwned DEF AttachLoses, AttachMismatches, CanAttach, Identified, world
<1> QED
  BY <1>1, MarksUnknownEnds

-----------------------------------------------------------------------------
(* player.stop                                                             *)

LEMMA StopKillsIInv ==
  ASSUME IInv, StopKills
  PROVE  IInv'
<1>1. PICK h \in Occupant(Read.rec.id.pid) :
         /\ MatchesRecord(h, Read.rec)
         /\ Terminates(h, TRUE)
         /\ op' = [Idle EXCEPT !.pc = "stopping", !.id = h]
  BY DEF StopKills
<1>2. /\ Read.rec # None
      /\ UNCHANGED <<file, marker, reg, volatile, auth, starts, faults,
                     stales, crashes, launched>>
  BY <1>1 DEF StopKills, CanStop, disk
<1>3. /\ h \in AlivePlayers /\ h = Read.rec.id /\ RegisteredPid(h.pid)
      /\ \A g \in AlivePlayers : g # h => g.pid # h.pid /\ g.exe # h.exe
  BY <1>1, <1>2, Verified
<1>4. running' = running \ {h} /\ owned' \subseteq owned /\ pending' \subseteq pending
  BY <1>1 DEF Terminates
<1>5. h \in Identity /\ h \in launched
  BY <1>3 DEF AlivePlayers, IInv, TypeOK
<1>6. op'.pc = "stopping" /\ op'.id = h /\ op' \in Operation
  BY <1>1, <1>5 DEF Idle, Operation, EmptyState, PlayerState
<1>7. TypeOK'
  BY <1>2, <1>4, <1>6 DEF IInv, TypeOK
<1>8. Processes' /\ OnePerBaseline' /\ AlivePlayers' \subseteq AlivePlayers \ {h}
  BY <1>2, <1>4, Shrinking DEF IInv, AlivePlayers
<1>9. Read' = Read /\ Records' = Records
  BY <1>2 DEF Read, Records
<1>10. RecordsTrue'
  <2>1. \A r \in Records : RecordTrue(r)'
    BY <1>2, <1>4, RecordStays DEF IInv, RecordsTrue
  <2> QED
    BY <1>2, <1>9, <2>1 DEF IInv, RecordsTrue
<1>11. AllGuarded'
  BY <1>2, <1>8, <1>9 DEF IInv, AllGuarded, Guarded, RegisteredPid, Unres
<1>12. OpTrue'
  BY <1>2, <1>3, <1>5, <1>6, <1>8, <1>9 DEF OpTrue, StartTrue, StopTrue
<1> QED
  BY <1>7, <1>8, <1>10, <1>11, <1>12 DEF IInv

LEMMA StopRefusesIInv ==
  ASSUME IInv, StopRefuses
  PROVE  IInv'
<1>1. /\ op = Idle /\ op' = Idle /\ MarksUnknown(Read) /\ Read.rec # None
      /\ owned' \subseteq owned
      /\ running' = running /\ pending' = pending
      /\ UNCHANGED <<reg, auth, starts, crashes, launched>>
  BY LookedOwned DEF StopRefuses, CanStop, world
<1> QED
  BY <1>1, MarksUnknownEnds

LEMMA StopUnverifiedIInv ==
  ASSUME IInv, StopUnverified
  PROVE  IInv'
<1>1. PICK h \in Occupant(Read.rec.id.pid) : Terminates(h, FALSE)
  BY DEF StopUnverified
<1>2. /\ op = Idle /\ op' = Idle /\ MarksUnknown(Read) /\ Read.rec # None
      /\ UNCHANGED <<reg, auth, starts, crashes, launched>>
  BY DEF StopUnverified, CanStop
<1>3. running' \subseteq running /\ owned' \subseteq owned /\ pending' \subseteq pending
  BY <1>1 DEF Terminates
<1> QED
  BY <1>2, <1>3, MarksUnknownEnds

\* The registration goes with the stopped process only.
LEMMA ForgetsStopped ==
  ASSUME IInv, op.pc = "stopping", reg' \in {reg, Forgotten(op.id)},
         UNCHANGED <<running, pending, launched>>
  PROVE  /\ reg' \in {reg, None}
         /\ \A g \in AlivePlayers : RegisteredPid(g.pid) => RegisteredPid(g.pid)'
         /\ \A r \in Records : RecordTrue(r)'
<1>1. \A g \in AlivePlayers : g.pid # op.id.pid
  BY DEF IInv, OpTrue, StopTrue
<1>2. reg' = reg \/ (reg' = None /\ reg = op.id)
  BY DEF Forgotten
<1>3. \A g \in AlivePlayers : RegisteredPid(g.pid) => RegisteredPid(g.pid)'
  BY <1>1, <1>2 DEF RegisteredPid
<1>4. ASSUME NEW r \in Records PROVE RecordTrue(r)'
  <2>1. RecordTrue(r)
    BY DEF IInv, RecordsTrue
  <2> QED
    BY <1>3, <2>1 DEF RecordTrue, AlivePlayers
<1> QED
  BY <1>2, <1>3, <1>4

LEMMA StopRecordsIInv ==
  ASSUME IInv, StopRecords
  PROVE  IInv'
<1> DEFINE r == Read.rec
           s == [Read EXCEPT !.rec = [@ EXCEPT !.state = "stopped"],
                             !.blocked = @ \ {Read.rec.baseline}]
<1>1. /\ Read \in PlayerState /\ r \in Records
      /\ op.pc = "stopping" /\ r # None /\ r.id = op.id /\ op.id \in launched
      /\ op.id # None
  BY ReadType, NoneAssumption
     DEF StopRecords, IInv, OpTrue, StopTrue, TypeOK
<1>2. r \in SessionRecord
  BY <1>1 DEF PlayerState
<1>3. /\ s \in PlayerState /\ s.rec.id = r.id /\ s.rec.baseline = r.baseline
      /\ Unres(Read) \ {r.baseline} \subseteq Unres(s)
  BY <1>1, <1>2 DEF PlayerState, SessionRecord, Unres
<1>4. r.baseline = op.id.exe
  BY <1>1 DEF IInv, RecordsTrue, RecordTrue
<1>5. PICK t \in PlayerState : /\ t = s
                               /\ t.rec.id = r.id /\ t.rec.baseline = r.baseline
                               /\ Unres(Read) \ {op.id.exe} \subseteq Unres(t)
  BY <1>3, <1>4
<1>6. /\ reg' \in {reg, Forgotten(op.id)} /\ op' = Idle /\ Writes(t, faults)
      /\ UNCHANGED <<volatile, owned, pending, auth, running, starts, crashes, launched>>
  BY <1>5 DEF StopRecords, memory, world
<1> HIDE DEF s
<1>7. /\ reg' \in {reg, None}
      /\ \A g \in AlivePlayers : RegisteredPid(g.pid) => RegisteredPid(g.pid)'
      /\ \A q \in Records : RecordTrue(q)'
  BY <1>1, <1>6, ForgetsStopped
<1>8. PICK q \in Records : q = r
  BY <1>1
<1>9. RecordTrue(t.rec)'
  <2>1. RecordTrue(q)' /\ q # None /\ t.rec.id = q.id /\ t.rec.baseline = q.baseline
    BY <1>1, <1>5, <1>7, <1>8
  <2> QED
    BY <2>1 DEF RecordTrue
<1>10. \A g \in AlivePlayers' : g.exe \in Unres(t) \/ RegisteredPid(g.pid)'
  <2>1. \A g \in AlivePlayers : g.exe # op.id.exe
    BY <1>1 DEF IInv, OpTrue, StopTrue
  <2>2. AlivePlayers' = AlivePlayers
    BY <1>6 DEF AlivePlayers
  <2> QED
    BY <1>5, <1>7, <2>1, <2>2 DEF IInv, AllGuarded, Guarded
<1> QED
  BY <1>6, <1>7, <1>9, <1>10, WritesEnds

LEMMA StopWriteFailsIInv ==
  ASSUME IInv, StopWriteFails
  PROVE  IInv'
<1>1. /\ op.pc = "stopping" /\ reg' \in {reg, Forgotten(op.id)} /\ op' = Idle
      /\ faults < MaxFaults /\ faults' = faults + 1
      /\ UNCHANGED <<file, marker, volatile, owned, pending, auth, running,
                     starts, stales, crashes, launched>>
  BY DEF StopWriteFails, disk, memory, world
<1>2. /\ reg' \in {reg, None}
      /\ \A g \in AlivePlayers : RegisteredPid(g.pid) => RegisteredPid(g.pid)'
      /\ \A r \in Records : RecordTrue(r)'
  BY <1>1, ForgetsStopped
<1>3. Read' = Read /\ Records' = Records /\ AlivePlayers' = AlivePlayers
  BY <1>1 DEF Read, Records, AlivePlayers
<1>4. \A g \in AlivePlayers' : Guarded(g)'
  BY <1>2, <1>3 DEF IInv, AllGuarded, Guarded, Unres
<1>5. /\ file' \in PlayerState /\ marker' \in PlayerState \cup {None}
      /\ volatile' \subseteq Baselines
      /\ faults' \in 0 .. MaxFaults /\ stales' \in 0 .. MaxStales
  BY <1>1, PlayerAssumption DEF IInv, TypeOK
<1> QED
  BY <1>1, <1>2, <1>3, <1>4, <1>5, Ends

-----------------------------------------------------------------------------
(* The world                                                               *)

\* A step that leaves the files and the operation alone, while processes go.
LEMMA Quiet ==
  ASSUME IInv, running' \subseteq running, auth' \in {"off", "match", "drifted"},
         UNCHANGED <<disk, reg, memory, starts, op, faults, stales, crashes, launched>>
  PROVE  IInv'
<1>1. UNCHANGED <<file, marker, reg, volatile, owned, pending, starts, op,
                  faults, stales, crashes, launched>>
  BY DEF disk, memory
<1>2. TypeOK'
  BY <1>1 DEF IInv, TypeOK
<1>3. Processes' /\ OnePerBaseline' /\ AlivePlayers' \subseteq AlivePlayers
  BY <1>1, Shrinking DEF IInv
<1>4. Read' = Read /\ Records' = Records /\ Unres(op.st)' = Unres(op.st)
      /\ Unres(Read)' = Unres(Read)
  BY <1>1 DEF Read, Records, Unres
<1>5. RecordsTrue'
  <2>1. \A r \in Records : RecordTrue(r)'
    BY <1>1, RecordStays DEF IInv, RecordsTrue
  <2> QED
    BY <1>1, <1>4, <2>1 DEF IInv, RecordsTrue
<1>6. AllGuarded'
  BY <1>1, <1>3, <1>4 DEF IInv, AllGuarded, Guarded, RegisteredPid
<1>7. StartTrue'
  BY <1>1, <1>3, <1>4 DEF IInv, OpTrue, StartTrue, RegisteredPid
<1>8. StopTrue'
  BY <1>1, <1>3, <1>4 DEF IInv, OpTrue, StopTrue
<1> QED
  BY <1>2, <1>3, <1>5, <1>6, <1>7, <1>8 DEF IInv, OpTrue

LEMMA OtherStartsIInv ==
  ASSUME IInv, OtherStarts
  PROVE  IInv'
<1>1. PICK b \in Baselines : \E h \in Fresh(b) : running' = running \cup {h}
  BY DEF OtherStarts
<1>2. PICK h \in Fresh(b) : running' = running \cup {h}
  BY <1>1
<1>3. /\ starts' = starts + 1
      /\ UNCHANGED <<file, marker, reg, volatile, owned, pending, auth, op,
                     faults, stales, crashes, launched>>
  BY DEF OtherStarts, disk, memory
<1>4. /\ h \in Identity /\ h.start = starts + 1
      /\ \A g \in running : g.pid # h.pid
  BY DEF Fresh, Occupant
<1>5. starts \in Nat /\ h.start \in 1 .. MaxStarts
  BY <1>4 DEF IInv, TypeOK, Identity
<1>6. \A g \in launched \cup running : g.start \in Nat /\ g.start <= starts
  BY DEF IInv, Processes, TypeOK, Identity
<1>7. h \notin launched
  BY <1>4, <1>5, <1>6
<1>8. TypeOK'
  <2>1. starts' \in 0 .. MaxStarts
    BY <1>3, <1>4, <1>5
  <2> QED
    BY <1>2, <1>3, <1>4, <2>1 DEF IInv, TypeOK
<1>9. AlivePlayers' = AlivePlayers
  BY <1>2, <1>3, <1>7 DEF AlivePlayers
<1>10. Processes'
  <2>1. ASSUME NEW g \in launched' \cup running' PROVE g.start <= starts'
    <3>1. CASE g = h
      BY <3>1, <1>3, <1>4, <1>5
    <3>2. CASE g \in launched \cup running
      BY <3>2, <1>3, <1>5, <1>6
    <3> QED
      BY <1>2, <1>3, <3>1, <3>2
  <2>2. ASSUME NEW f \in running', NEW g \in running', f.pid = g.pid PROVE f = g
    BY <1>2, <1>4, <2>2 DEF IInv, Processes
  <2> QED
    BY <2>1, <2>2 DEF Processes
<1>11. Read' = Read /\ Records' = Records /\ Unres(op.st)' = Unres(op.st)
       /\ Unres(Read)' = Unres(Read)
  BY <1>3 DEF Read, Records, Unres
<1>12. RecordsTrue'
  <2>1. ASSUME NEW r \in Records PROVE RecordTrue(r)'
    <3>1. RecordTrue(r)
      BY DEF IInv, RecordsTrue
    <3> QED
      BY <1>2, <1>3, <1>7, <3>1 DEF RecordTrue, RegisteredPid
  <2> QED
    BY <1>3, <1>11, <2>1 DEF IInv, RecordsTrue
<1>13. OnePerBaseline' /\ AllGuarded'
  BY <1>3, <1>9, <1>11 DEF IInv, OnePerBaseline, AllGuarded, Guarded, RegisteredPid
<1>14. StartTrue' /\ StopTrue'
  BY <1>3, <1>9, <1>11 DEF IInv, OpTrue, StartTrue, StopTrue, RegisteredPid
<1> QED
  BY <1>8, <1>10, <1>12, <1>13, <1>14 DEF IInv, OpTrue

\* The Host may die anywhere: the files alone guard every running Player.
LEMMA HostCrashIInv ==
  ASSUME IInv, HostCrash
  PROVE  IInv'
<1>1. /\ crashes < MaxCrashes /\ crashes' = crashes + 1 /\ auth' = "off"
      /\ volatile' = {} /\ owned' = {} /\ pending' = {} /\ op' = Idle
      /\ UNCHANGED <<file, marker, reg, running, starts, faults, stales, launched>>
  BY DEF HostCrash, disk
<1>2. OpTrue' /\ op' \in Operation
  BY <1>1, IdleTrue
<1>3. TypeOK'
  BY <1>1, <1>2, PlayerAssumption DEF IInv, TypeOK
<1>4. Processes' /\ OnePerBaseline' /\ AlivePlayers' = AlivePlayers
  BY <1>1, Shrinking DEF IInv, AlivePlayers
<1>5. Read' = Read /\ Records' = Records /\ Unres(Read)' = Unres(Read)
  BY <1>1 DEF Read, Records, Unres
<1>6. RecordsTrue'
  <2>1. \A r \in Records : RecordTrue(r)'
    BY <1>1, RecordStays DEF IInv, RecordsTrue
  <2> QED
    BY <1>1, <1>5, <2>1 DEF IInv, RecordsTrue
<1>7. AllGuarded'
  BY <1>1, <1>4, <1>5 DEF IInv, AllGuarded, Guarded, RegisteredPid
<1> QED
  BY <1>2, <1>3, <1>4, <1>6, <1>7 DEF IInv

-----------------------------------------------------------------------------

LEMMA InitIInv ==
  ASSUME Init
  PROVE  IInv
<1>1. EmptyState \in PlayerState /\ EmptyState.rec = None
  BY DEF EmptyState, PlayerState
<1>2. Idle \in Operation /\ Idle.pc = "idle"
  BY <1>1 DEF Idle, Operation
<1>3. TypeOK
  BY <1>1, <1>2, PlayerAssumption DEF Init, TypeOK
<1>4. Processes /\ OnePerBaseline /\ AllGuarded
  BY DEF Init, Processes, OnePerBaseline, AllGuarded, AlivePlayers
<1>5. RecordsTrue
  BY <1>1 DEF Init, RecordsTrue, Records, RecordTrue
<1>6. OpTrue
  BY <1>2 DEF Init, OpTrue, StartTrue, StopTrue
<1> QED
  BY <1>3, <1>4, <1>5, <1>6 DEF IInv

LEMMA NextIInv ==
  ASSUME IInv, [Next]_vars
  PROVE  IInv'
<1>1. CASE StartSteps
  BY <1>1, StartBlocksIInv, StartReconcilesIInv, StartAdoptsIInv,
     StartIntendsIInv, LaunchIInv, LaunchFailsIInv, RegisterIInv,
     RegisterFailsIInv, RecordIInv, RecordFailsIInv
     DEF StartSteps
<1>2. CASE AttachSteps
  BY <1>2, AttachRebindsIInv, AttachLosesIInv, AttachFindsIInv DEF AttachSteps
<1>3. CASE StopSteps
  BY <1>3, StopKillsIInv, StopRefusesIInv, StopUnverifiedIInv,
     StopRecordsIInv, StopWriteFailsIInv DEF StopSteps
<1>4. CASE Connect \/ Disconnect
  BY <1>4, Quiet DEF Connect, Disconnect
<1>5. ASSUME NEW h \in running, Exits(h) PROVE IInv'
  BY <1>5, Quiet DEF Exits, IInv, TypeOK
<1>6. CASE OtherStarts \/ HostCrash
  BY <1>6, OtherStartsIInv, HostCrashIInv
<1>7. CASE UNCHANGED vars
  BY <1>7, Quiet DEF vars, disk, memory, IInv, TypeOK
<1> QED
  BY <1>1, <1>2, <1>3, <1>4, <1>5, <1>6, <1>7 DEF Next, World

LEMMA Invariance == Spec => []IInv
<1>1. Init => IInv
  BY InitIInv
<1>2. IInv /\ [Next]_vars => IInv'
  BY NextIInv
<1> QED
  BY <1>1, <1>2, PTL DEF Spec

\* The files, the adapter's tables and the operation stay well typed.
THEOREM TypeCorrect == Spec => []TypeOK
<1>1. IInv => TypeOK
  BY DEF IInv
<1> QED
  BY <1>1, Invariance, PTL

\* The provider never runs two Players of one baseline: _start refuses an
\* unresolved baseline, and locate finds a registered Player or is not
\* conclusive.
THEOREM OnePlayer == Spec => []OnePlayerPerBaseline
<1>1. IInv => OnePlayerPerBaseline
  <2> SUFFICES ASSUME IInv, NEW b \in Baselines
               PROVE  Cardinality(Alive(b)) <= 1
    BY DEF OnePlayerPerBaseline
  <2>1. \A g, h \in Alive(b) : g = h
    BY DEF IInv, OnePerBaseline, Alive, AlivePlayers
  <2>2. CASE Alive(b) = {}
    BY <2>2, FS_EmptySet
  <2>3. CASE Alive(b) # {}
    <3>1. PICK h \in Alive(b) : Alive(b) = {h}
      BY <2>1, <2>3
    <3> QED
      BY <3>1, FS_Singleton
  <2> QED
    BY <2>2, <2>3
<1> QED
  BY <1>1, Invariance, PTL

\* stop and the cleanup of a failed start terminate only processes the
\* provider started, though a recorded pid may belong to another process by
\* then: the process is matched by its start time too.
THEOREM StopsLaunched == Spec => StopsOnlyLaunched
<1> DEFINE A == \A h \in running \ running' :
                   h \in launched \/ UNCHANGED <<disk, op, faults>>
<1>1. IInv /\ [Next]_vars => [A]_vars
  <2> SUFFICES ASSUME IInv, Next, NEW g \in running \ running'
               PROVE  g \in launched \/ UNCHANGED <<disk, op, faults>>
    OBVIOUS
  <2>1. CASE StartSteps
    <3>1. RegisterFails \/ RecordFails
      BY <2>1 DEF StartSteps, StartBlocks, StartReconciles, StartAdopts,
                  StartIntends, Launch, LaunchFails, Register, Record,
                  memory, world
    <3>2. g = op.id
      BY <3>1 DEF RegisterFails, RecordFails, Terminates
    <3> QED
      BY <3>1, <3>2 DEF RegisterFails, RecordFails, IInv, OpTrue, StartTrue
  <2>2. CASE AttachSteps
    BY <2>2 DEF AttachSteps, AttachRebinds, AttachLoses, AttachFinds,
                AttachMismatches, world
  <2>3. CASE StopSteps
    <3>1. StopKills \/ StopUnverified
      BY <2>3 DEF StopSteps, StopRefuses, StopRecords, StopWriteFails, world
    <3>2. PICK h \in Occupant(Read.rec.id.pid) :
             MatchesRecord(h, Read.rec) /\ g = h
      BY <3>1 DEF StopKills, StopUnverified, Terminates
    <3>3. Read.rec # None
      BY <3>1 DEF StopKills, StopUnverified, CanStop
    <3> QED
      BY <3>2, <3>3, Verified DEF AlivePlayers
  <2>4. CASE World
    BY <2>4 DEF World, Connect, Disconnect, OtherStarts, HostCrash, Exits
  <2> QED
    BY <2>1, <2>2, <2>3, <2>4 DEF Next
<1> QED
  BY <1>1, Invariance, PTL DEF Spec, StopsOnlyLaunched

-----------------------------------------------------------------------------
(* What the files say of Players that run and of Players that do not       *)

\* A record of a stopped Player is about a process that is gone.
StoppedGone(r) == r # None /\ r.state = "stopped" => r.id \notin running

\* A record without an identity leaves its baseline unresolved.
UnnamedUnresolved(s) ==
    s.rec # None /\ s.rec.id = None => s.rec.baseline \in Unres(s)

RecordsTell ==
    /\ \A r \in Records : StoppedGone(r)
    /\ UnnamedUnresolved(file)
    /\ marker # None => UnnamedUnresolved(marker)

Named(h, s) ==
    h.exe \in Unres(s) \/ (s.rec # None /\ s.rec.id = h /\ s.rec.state # "stopped")

AllNamed == \A h \in AlivePlayers : Named(h, Read)

\* The marker a start in progress finds when it records its Player: there is
\* none, or the intent went to it, or it has stayed behind once already.
IntentSurvives ==
    op.pc \in {"intended", "launched", "registered"} =>
        marker = None \/ op.base \in Unres(marker) \/ stales >= 1

Remembers ==
    RecordsTell /\ IntentSurvives /\ (stales <= 1 => AllNamed)

\* What a step that persists a state does to the files, whether the store
\* works or not.
Stored(s, n) ==
    Writes(s, n) \/ MarksUnresolved(s) \/ UNCHANGED <<disk, stales>>

LEMMA PersistsStores ==
  ASSUME NEW s, NEW b, NEW n, PersistsUnresolved(s, b, n)
  PROVE  Stored(s, n)
BY DEF PersistsUnresolved, KeepsVolatile, Stored

LEMMA StoredFiles ==
  ASSUME TypeOK, NEW s \in PlayerState, NEW n, Stored(s, n)
  PROVE  /\ file' \in {file, s} /\ marker' \in {marker, s, None}
         /\ Records' \subseteq Records \cup {s.rec}
         /\ stales' <= 1 => stales <= 1
<1>1. /\ file' \in {file, s} /\ marker' \in {marker, s, None}
      /\ stales' \in {stales, stales + 1}
  BY DEF Stored, Writes, MarksUnresolved, disk
<1>2. Records' \subseteq Records \cup {s.rec}
  BY <1>1 DEF Records
<1>3. stales' <= 1 => stales <= 1
  BY <1>1, PlayerAssumption DEF TypeOK
<1> QED
  BY <1>1, <1>2, <1>3

LEMMA ReadTells ==
  ASSUME TypeOK, RecordsTell
  PROVE  StoppedGone(Read.rec) /\ UnnamedUnresolved(Read)
<1>1. StoppedGone(Read.rec)
  BY ReadType DEF RecordsTell
<1>2. UnnamedUnresolved(Read)
  BY DEF RecordsTell, UnnamedUnresolved, Read, Unres
<1> QED
  BY <1>1, <1>2

\* The records still tell the truth when the state persisted does.
LEMMA StoredTells ==
  ASSUME TypeOK, RecordsTell, NEW s \in PlayerState, NEW n, Stored(s, n),
         StoppedGone(s.rec), UnnamedUnresolved(s), running' \subseteq running
  PROVE  RecordsTell'
<1>1. /\ file' \in {file, s} /\ marker' \in {marker, s, None}
      /\ Records' \subseteq Records \cup {s.rec}
  BY StoredFiles
<1>2. \A r \in Records' : StoppedGone(r)'
  BY <1>1 DEF RecordsTell, StoppedGone
<1>3. UnnamedUnresolved(file') /\ (marker' # None => UnnamedUnresolved(marker'))
  BY <1>1 DEF RecordsTell
<1> QED
  BY <1>2, <1>3 DEF RecordsTell, UnnamedUnresolved, Unres

\* A Player named by the files and by the state persisted is named by the
\* files that result, unless the state settles its start: then the record of a
\* marker may hide that of the state.
LEMMA StoredNames ==
  ASSUME TypeOK, NEW s \in PlayerState, NEW n, Stored(s, n), NEW h,
         Named(h, Read), Named(h, s), h.exe \in Unres(Read) => h.exe \in Unres(s)
  PROVE  Named(h, Read')
<1>1. CASE Writes(s, n) /\ marker' = None
  <2>1. Read' = s
    BY <1>1 DEF Writes, Read
  <2> QED
    BY <2>1
<1>2. CASE Writes(s, n) /\ marker' = marker /\ marker # None
  <2>1. /\ Unres(s) \subseteq Unres(Read')
        /\ Read'.rec = IF marker.rec = None THEN s.rec ELSE marker.rec
        /\ Read.rec = IF marker.rec = None THEN file.rec ELSE marker.rec
    BY <1>2 DEF Writes, Read, Unres
  <2> QED
    BY <2>1 DEF Named
<1>3. CASE MarksUnresolved(s)
  <2>1. /\ Unres(s) \subseteq Unres(Read')
        /\ s.rec # None => Read'.rec = s.rec
    BY <1>3, NoneAssumption DEF MarksUnresolved, Read, Unres
  <2> QED
    BY <2>1 DEF Named
<1>4. CASE UNCHANGED <<disk, stales>>
  <2>1. Read' = Read
    BY <1>4 DEF disk, Read
  <2> QED
    BY <2>1
<1> QED
  BY <1>1, <1>2, <1>3, <1>4 DEF Stored, Writes

\* The same when a state that keeps what the files say is persisted, its
\* record left alone or made unknown.
LEMMA StoredKeeps ==
  ASSUME TypeOK, Remembers, NEW s \in PlayerState, NEW n, Stored(s, n),
         Unres(Read) \subseteq Unres(s),
         \/ s.rec = Read.rec
         \/ /\ s.rec # None /\ Read.rec # None
            /\ s.rec.id = Read.rec.id /\ s.rec.baseline = Read.rec.baseline
            /\ s.rec.state = "unknown",
         running' \subseteq running, launched' = launched
  PROVE  RecordsTell' /\ (stales' <= 1 => AllNamed')
<1>1. StoppedGone(Read.rec) /\ UnnamedUnresolved(Read)
  BY ReadTells DEF Remembers
<1>2. StoppedGone(s.rec) /\ UnnamedUnresolved(s)
  BY <1>1 DEF StoppedGone, UnnamedUnresolved
<1>3. RecordsTell'
  BY <1>2, StoredTells DEF Remembers
<1>4. ASSUME stales' <= 1, NEW h \in AlivePlayers' PROVE Named(h, Read')
  <2>1. h \in AlivePlayers
    BY DEF AlivePlayers
  <2>2. Named(h, Read)
    BY <1>4, <2>1, StoredFiles DEF Remembers, AllNamed
  <2>3. Named(h, s)
    BY <2>2 DEF Named
  <2> QED
    BY <2>2, <2>3, StoredNames
<1>5. stales' <= 1 => AllNamed'
  BY <1>4 DEF AllNamed, Named, Unres
<1> QED
  BY <1>3, <1>5

LEMMA IdleSurvives ==
  ASSUME op' = Idle
  PROVE  IntentSurvives'
BY DEF IntentSurvives, Idle

LEMMA MarksUnknownRemembers ==
  ASSUME IInv, Remembers, op' = Idle, MarksUnknown(Read), Read.rec # None,
         running' \subseteq running, launched' = launched
  PROVE  Remembers'
<1>1. Read \in PlayerState
  BY ReadType DEF IInv
<1>2. PICK s \in PlayerState :
         /\ PersistsUnresolved(s, Read.rec.baseline, faults)
         /\ Unres(Read) \subseteq Unres(s)
         /\ s.rec # None /\ s.rec.id = Read.rec.id
         /\ s.rec.baseline = Read.rec.baseline /\ s.rec.state = "unknown"
  <2>1. UnknownRecord(Read).rec.state = "unknown"
    BY <1>1, NoneAssumption DEF UnknownRecord, Block, PlayerState, SessionRecord
  <2> QED
    BY <1>1, <2>1, UnknownRecordType DEF MarksUnknown
<1>3. Stored(s, faults)
  BY <1>2, PersistsStores
<1>4. RecordsTell' /\ (stales' <= 1 => AllNamed')
  BY <1>2, <1>3, StoredKeeps DEF IInv
<1> QED
  BY <1>4, IdleSurvives DEF Remembers

\* An unknown start leaves every running Player unresolved: those the start
\* found, and its own.
LEMMA SavesUnknownRemembers ==
  ASSUME IInv, Remembers, op' = Idle,
         op.pc \in {"intended", "launched", "registered"},
         NEW t \in PlayerState, Unres(op.st) \subseteq Unres(t) \cup {op.base},
         NEW id \in Identity \cup {None}, NEW n \in 0 .. MaxFaults,
         SavesUnknownStart(t, op.base, id, n),
         op.id # None => op.id.exe = op.base,
         running' \subseteq running, launched' = launched
  PROVE  Remembers'
<1>1. op.base \in Baselines /\ op.base \in op.st.intents
  BY DEF IInv, OpTrue, StartTrue
<1>2. PICK s \in PlayerState :
         /\ PersistsUnresolved(s, op.base, n)
         /\ Unres(s) = Unres(t) \cup {op.base}
         /\ s.rec.baseline = op.base /\ s.rec.state = "unknown"
  <2>1. UnknownStart(t, op.base, id).rec.state = "unknown"
    BY DEF UnknownStart, Block, PlayerState
  <2> QED
    BY <1>1, <2>1, UnknownStartType DEF SavesUnknownStart
<1>3. StoppedGone(s.rec) /\ UnnamedUnresolved(s)
  BY <1>2 DEF StoppedGone, UnnamedUnresolved
<1>4. RecordsTell'
  BY <1>2, <1>3, PersistsStores, StoredTells DEF IInv, Remembers
<1>5. Unres(s) \cap Unres(Read) \subseteq Unres(Read')
  BY <1>1, <1>2, PersistsType DEF IInv
<1>6. ASSUME NEW h \in AlivePlayers PROVE h.exe \in Unres(s) \cap Unres(Read)
  <2>1. op.base \in Unres(op.st) /\ Unres(op.st) \subseteq Unres(Read)
    BY <1>1 DEF IInv, OpTrue, StartTrue, Unres
  <2>2. CASE h = op.id
    BY <1>2, <2>1, <2>2, NoneAssumption DEF IInv, TypeOK, AlivePlayers
  <2>3. CASE h # op.id
    <3>1. h.exe \in Unres(op.st)
      BY <2>3 DEF IInv, OpTrue, StartTrue
    <3> QED
      BY <1>2, <2>1, <3>1
  <2> QED
    BY <2>2, <2>3
<1>7. AlivePlayers' \subseteq AlivePlayers
  BY DEF AlivePlayers
<1>8. AllNamed'
  BY <1>5, <1>6, <1>7 DEF AllNamed, Named, Unres
<1> QED
  BY <1>4, <1>8, IdleSurvives DEF Remembers

\* A state is written that settles the start of its record: every running
\* Player but that of the record has to be unresolved in it.
LEMMA WritesRemembers ==
  ASSUME IInv, Remembers, op' = Idle, NEW s \in PlayerState, Writes(s, faults),
         s.rec # None, s.rec.id # None, s.rec.state # "stopped",
         running' = running, launched' = launched,
         stales' <= 1 => \A h \in AlivePlayers : h = s.rec.id \/ h.exe \in Unres(s),
         marker' = marker /\ marker # None /\ stales' <= 1 =>
            \/ marker.rec = None \/ s.rec.id.exe \in Unres(marker)
            \/ marker.rec.id = s.rec.id /\ marker.rec.state # "stopped"
  PROVE  Remembers'
<1>1. StoppedGone(s.rec) /\ UnnamedUnresolved(s)
  BY DEF StoppedGone, UnnamedUnresolved
<1>2. RecordsTell'
  BY <1>1, StoredTells DEF Stored, IInv, Remembers
<1>3. ASSUME stales' <= 1, NEW h \in AlivePlayers PROVE Named(h, Read')
  <2>1. CASE h.exe \in Unres(s)
    BY <2>1, WritesType DEF Named, IInv, TypeOK
  <2>2. CASE h = s.rec.id /\ marker' = None
    <3>1. Read' = s
      BY <2>2 DEF Writes, Read
    <3> QED
      BY <2>2, <3>1 DEF Named
  <2>3. CASE h = s.rec.id /\ marker' = marker /\ marker # None
    <3>1. /\ Unres(marker) \subseteq Unres(Read')
          /\ Read'.rec = IF marker.rec = None THEN s.rec ELSE marker.rec
      BY <2>3 DEF Writes, Read, Unres
    <3> QED
      BY <1>3, <2>3, <3>1 DEF Named
  <2> QED
    BY <1>3, <2>1, <2>2, <2>3 DEF Writes
<1>4. stales' <= 1 => AllNamed'
  BY <1>3 DEF AllNamed, AlivePlayers, Named, Unres
<1> QED
  BY <1>2, <1>4, IdleSurvives DEF Remembers

-----------------------------------------------------------------------------
(* Each step keeps the files telling the truth                             *)

LEMMA StartBlocksRemembers ==
  ASSUME IInv, Remembers, NEW b \in Baselines, StartBlocks(b)
  PROVE  Remembers'
<1>1. Read \in PlayerState
  BY ReadType DEF IInv
<1>2. PICK s \in PlayerState : /\ s = Block(Read, b)
                               /\ Unres(Read) \subseteq Unres(s) /\ s.rec = Read.rec
  <2>1. /\ Block(Read, b) \in PlayerState /\ Block(Read, b).rec = Read.rec
        /\ Unres(Read) \subseteq Unres(Block(Read, b))
    BY <1>1 DEF Block, PlayerState, Unres
  <2> QED
    BY <2>1
<1>3. /\ op' = Idle /\ PersistsUnresolved(s, b, faults)
      /\ running' = running /\ launched' = launched
  BY <1>2 DEF StartBlocks, CanStart, world
<1>4. RecordsTell' /\ (stales' <= 1 => AllNamed')
  BY <1>2, <1>3, PersistsStores, StoredKeeps DEF IInv
<1> QED
  BY <1>3, <1>4, IdleSurvives DEF Remembers

LEMMA StartIntendsRemembers ==
  ASSUME IInv, Remembers, NEW b \in Baselines, StartIntends(b)
  PROVE  Remembers'
<1>1. Read \in PlayerState
  BY ReadType DEF IInv
<1>2. PICK s \in PlayerState :
         /\ s = [Read EXCEPT !.intents = @ \cup {b}]
         /\ Unres(Read) \subseteq Unres(s) /\ s.rec = Read.rec /\ b \in Unres(s)
  <2> DEFINE s == [Read EXCEPT !.intents = @ \cup {b}]
  <2>1. /\ s \in PlayerState /\ s.rec = Read.rec
        /\ Unres(Read) \subseteq Unres(s) /\ b \in Unres(s)
    BY <1>1 DEF PlayerState, Unres
  <2> QED
    BY <2>1
<1>3. /\ \/ /\ Writes(s, faults) \/ MarksUnresolved(s)
            /\ op' = [pc |-> "intended", base |-> b, st |-> s, id |-> None]
         \/ KeepsVolatile(b) /\ op' = Idle
      /\ running' = running /\ launched' = launched
  BY <1>2 DEF StartIntends, CanStart, world
<1>4. Stored(s, faults)
  BY <1>3 DEF Stored, KeepsVolatile
<1>5. RecordsTell' /\ (stales' <= 1 => AllNamed')
  BY <1>2, <1>3, <1>4, StoredKeeps DEF IInv
<1>6. IntentSurvives'
  <2>1. CASE KeepsVolatile(b) /\ op' = Idle
    BY <2>1, IdleSurvives
  <2>2. CASE MarksUnresolved(s) /\ op'.base = b
    BY <1>2, <2>2 DEF MarksUnresolved, IntentSurvives, Unres
  <2>3. CASE Writes(s, faults)
    BY <2>3 DEF Writes, IntentSurvives, IInv, TypeOK
  <2> QED
    BY <1>3, <2>1, <2>2, <2>3
<1> QED
  BY <1>5, <1>6 DEF Remembers

\* A registered Player of this baseline that runs is named by the files, and
\* not by an unresolved start, which would have refused this one: the record
\* names it, and would have settled this start.
LEMMA StartAdoptsRemembers ==
  ASSUME IInv, Remembers, NEW b \in Baselines, StartAdopts(b)
  PROVE  Remembers'
<1>1. Read \in PlayerState
  BY ReadType DEF IInv
<1>2. reg \in running /\ reg # None /\ reg.exe = b /\ reg \in launched
  BY DEF StartAdopts, Located, IInv, RecordsTrue
<1>3. PICK s \in PlayerState :
         /\ s = [Read EXCEPT !.rec = [state |-> "attached", owned |-> FALSE,
                                      id |-> reg, baseline |-> b]]
         /\ Unres(s) = Unres(Read) /\ s.rec.id = reg /\ s.rec # None
         /\ s.rec.state = "attached"
  <2> DEFINE u == [state |-> "attached", owned |-> FALSE, id |-> reg, baseline |-> b]
             s == [Read EXCEPT !.rec = u]
  <2>1. u \in SessionRecord /\ u # None /\ u.id = reg /\ u.state = "attached"
    <3>1. u \in SessionRecord
      BY DEF IInv, TypeOK, SessionRecord
    <3> QED
      BY <3>1, NoneAssumption
  <2>2. s \in PlayerState /\ s.rec = u /\ Unres(s) = Unres(Read)
    BY <1>1, <2>1 DEF PlayerState, Unres
  <2> QED
    BY <2>1, <2>2
<1>4. /\ op' = Idle /\ Writes(s, faults)
      /\ running' = running /\ launched' = launched
  BY <1>3 DEF StartAdopts, CanStart, world
<1>5. ASSUME NEW h \in AlivePlayers PROVE h = reg \/ h.exe \in Unres(s)
  BY <1>2, <1>3 DEF IInv, AllGuarded, Guarded, RegisteredPid, Processes, AlivePlayers
<1>6. stales > 1
  <2> SUFFICES ASSUME stales <= 1 PROVE FALSE
    BY DEF IInv, TypeOK
  <2>1. Named(reg, Read)
    BY <1>2 DEF Remembers, AllNamed, AlivePlayers
  <2>2. b \notin Unres(Read)
    BY DEF StartAdopts, CanStart, Unresolved, Unres
  <2>3. Read.rec # None /\ Read.rec.id = reg /\ Read.rec.state # "stopped"
    BY <1>2, <2>1, <2>2 DEF Named
  <2>4. Read.rec.baseline = b
    BY <1>2, <2>3, ReadType DEF IInv, RecordsTrue, RecordTrue
  <2> QED
    BY <2>3, <2>4 DEF StartAdopts, Existing
<1>7. stales' > 1
  BY <1>4, <1>6 DEF Writes, IInv, TypeOK
<1>8. ~(stales' <= 1)
  BY <1>4, <1>7 DEF Writes, IInv, TypeOK
<1> QED
  BY <1>2, <1>3, <1>4, <1>5, <1>8, WritesRemembers

LEMMA RecordRemembers ==
  ASSUME IInv, Remembers, Record
  PROVE  Remembers'
<1>1. /\ op.pc = "registered" /\ op.id # None /\ op.id.exe = op.base
  BY NoneAssumption DEF Record, IInv, OpTrue, StartTrue, TypeOK
<1>2. PICK s \in PlayerState :
         /\ s = Started
         /\ Unres(op.st) \subseteq Unres(s) \cup {op.base}
         /\ s.rec # None /\ s.rec.id = op.id /\ s.rec.state = "started"
  <2>1. Started.rec.state = "started"
    BY DEF Started, IInv, TypeOK, Operation, PlayerState
  <2> QED
    BY <1>1, <2>1, StartedType
<1>3. /\ op' = Idle /\ Writes(s, faults)
      /\ running' = running /\ launched' = launched
  BY <1>2 DEF Record, world
<1>4. ASSUME NEW h \in AlivePlayers PROVE h = op.id \/ h.exe \in Unres(s)
  BY <1>1, <1>2 DEF IInv, OpTrue, StartTrue
<1>5. marker' = marker /\ marker # None /\ stales' <= 1 => op.base \in Unres(marker)
  <2> SUFFICES ASSUME marker' = marker, marker # None, stales' <= 1
               PROVE  op.base \in Unres(marker)
    OBVIOUS
  <2>1. stales' = stales + 1
    BY <1>3 DEF Writes
  <2> QED
    BY <1>1, <2>1 DEF Remembers, IntentSurvives, IInv, TypeOK
<1> QED
  BY <1>1, <1>2, <1>3, <1>4, <1>5, WritesRemembers

LEMMA UnknownStartsRemember ==
  ASSUME IInv, Remembers, LaunchFails \/ RegisterFails \/ RecordFails
  PROVE  Remembers'
<1>1. PICK st \in PlayerState : st = op.st
  BY DEF IInv, TypeOK, Operation
<1>2. /\ op' = Idle /\ launched' = launched
      /\ op.pc \in {"intended", "launched", "registered"}
      /\ op.id # None => op.id.exe = op.base
      /\ Unres(op.st) \subseteq Unres(st) \cup {op.base}
  BY <1>1 DEF LaunchFails, RegisterFails, RecordFails, IInv, OpTrue, StartTrue
<1>3. running' \subseteq running
  BY DEF LaunchFails, RegisterFails, RecordFails, Terminates, world
<1>4. faults \in 0 .. MaxFaults
  BY DEF IInv, TypeOK
<1>5. CASE LaunchFails
  <2>1. SavesUnknownStart(st, op.base, None, faults)
    BY <1>1, <1>5 DEF LaunchFails
  <2> QED
    BY <1>2, <1>3, <1>4, <2>1, SavesUnknownRemembers
<1>6. CASE RegisterFails
  <2>1. PICK id \in Identity \cup {None} :
           SavesUnknownStart(st, op.base, id, faults)
    BY <1>1, <1>6 DEF RegisterFails, IInv, TypeOK
  <2> QED
    BY <1>2, <1>3, <1>4, <2>1, SavesUnknownRemembers
<1>7. CASE RecordFails
  <2>1. PICK u \in PlayerState : /\ u = Started
                                 /\ Unres(op.st) \subseteq Unres(u) \cup {op.base}
    BY <1>7, StartedType DEF RecordFails
  <2>2. /\ SavesUnknownStart(u, op.base, op.id, faults + 1)
        /\ op.id \in Identity \cup {None} /\ faults + 1 \in 0 .. MaxFaults
    BY <1>7, <2>1, PlayerAssumption DEF RecordFails, IInv, TypeOK, Operation
  <2> QED
    BY <1>2, <1>3, <2>1, <2>2, SavesUnknownRemembers
<1> QED
  BY <1>5, <1>6, <1>7

\* The record of a marker left behind hides the one just written: it is then
\* the record that was settled.
LEMMA AttachRebindsRemembers ==
  ASSUME IInv, Remembers, AttachRebinds
  PROVE  Remembers'
<1> DEFINE r == Read.rec
<1>1. Read \in PlayerState /\ r \in Records /\ r # None /\ r.id # None
  BY ReadType DEF AttachRebinds, Identified, IInv
<1>2. r \in SessionRecord /\ r.state = "unknown"
  BY <1>1 DEF AttachRebinds, PlayerState
<1>3. r.id \in AlivePlayers /\ r.baseline = r.id.exe
  BY <1>1 DEF AttachRebinds, Occupant, MatchesRecord, AlivePlayers,
              IInv, RecordsTrue, RecordTrue
<1>4. PICK s \in PlayerState :
         /\ Writes(s, faults)
         /\ s.rec # None /\ s.rec.id = r.id /\ s.rec.state # "stopped"
         /\ Unres(Read) \ {r.baseline} \subseteq Unres(s)
  <2> DEFINE u == [r EXCEPT !.state = IF r.owned THEN "started" ELSE "attached"]
             s == [Unblock(Read, r.baseline) EXCEPT !.rec = u]
  <2>1. /\ u \in SessionRecord /\ u # None /\ u.id = r.id
        /\ u.state \in {"started", "attached"}
    BY <1>2, NoneAssumption DEF SessionRecord
  <2>2. /\ s \in PlayerState /\ s.rec = u
        /\ Unres(Read) \ {r.baseline} \subseteq Unres(s)
    BY <1>1, <2>1 DEF Unblock, PlayerState, Unres
  <2>3. Writes(s, faults)
    BY DEF AttachRebinds
  <2> QED
    BY <2>1, <2>2, <2>3
<1>5. op' = Idle /\ running' = running /\ launched' = launched
  BY DEF AttachRebinds, CanAttach, world
<1>6. ASSUME stales' <= 1, NEW h \in AlivePlayers
      PROVE  h = r.id \/ h.exe \in Unres(s)
  <2>1. stales <= 1
    BY <1>4, <1>6 DEF Writes, IInv, TypeOK
  <2>2. Named(h, Read)
    BY <2>1 DEF Remembers, AllNamed
  <2>3. h.exe = r.baseline => h = r.id
    BY <1>3 DEF IInv, OnePerBaseline
  <2> QED
    BY <1>4, <2>2, <2>3 DEF Named
<1>7. marker # None => \/ marker.rec = None
                       \/ marker.rec.id = r.id /\ marker.rec.state # "stopped"
  BY <1>2 DEF Read
<1> QED
  BY <1>1, <1>4, <1>5, <1>6, <1>7, WritesRemembers

\* Without an identity the record of the marker, if it has one, still has its
\* baseline unresolved.
LEMMA AttachFindsRemembers ==
  ASSUME IInv, Remembers, AttachFinds
  PROVE  Remembers'
<1>1. Read \in PlayerState
  BY ReadType DEF IInv
<1>2. PICK b \in PriorBaselines :
         /\ reg.exe = b
         /\ Writes([Unblock(Read, b) EXCEPT
                      !.rec = [state |-> "attached", owned |-> FALSE,
                               id |-> reg, baseline |-> b]], faults)
  BY DEF AttachFinds
<1>3. reg \in running /\ reg # None /\ reg \in launched /\ reg \in Identity
  BY DEF AttachFinds, Located, IInv, RecordsTrue, TypeOK
<1>4. PICK s \in PlayerState :
         /\ Writes(s, faults)
         /\ s.rec # None /\ s.rec.id = reg /\ s.rec.state # "stopped"
         /\ Unres(Read) \ {b} \subseteq Unres(s)
  <2> DEFINE u == [state |-> "attached", owned |-> FALSE, id |-> reg, baseline |-> b]
             s == [Unblock(Read, b) EXCEPT !.rec = u]
  <2>1. u \in SessionRecord /\ u # None /\ u.id = reg /\ u.state = "attached"
    <3>1. b \in Baselines
      BY <1>2, <1>3 DEF Identity
    <3>2. u \in SessionRecord
      BY <1>3, <3>1 DEF SessionRecord
    <3> QED
      BY <3>2, NoneAssumption
  <2>2. /\ s \in PlayerState /\ s.rec = u
        /\ Unres(Read) \ {b} \subseteq Unres(s)
    BY <1>1, <2>1 DEF Unblock, PlayerState, Unres
  <2>3. Writes(s, faults)
    BY <1>2
  <2> QED
    BY <2>1, <2>2, <2>3
<1>5. op' = Idle /\ running' = running /\ launched' = launched
  BY DEF AttachFinds, CanAttach, world
<1>6. ASSUME stales' <= 1, NEW h \in AlivePlayers
      PROVE  h = reg \/ h.exe \in Unres(s)
  <2>1. stales <= 1
    BY <1>4, <1>6 DEF Writes, IInv, TypeOK
  <2>2. Named(h, Read)
    BY <2>1 DEF Remembers, AllNamed
  <2>3. h.exe \in Unres(Read)
    BY <2>2, NoneAssumption DEF Named, AttachFinds, Identified, AlivePlayers, IInv, TypeOK
  <2>4. h.exe = b => h = reg
    BY <1>2, <1>3 DEF IInv, OnePerBaseline, AlivePlayers
  <2> QED
    BY <1>4, <2>3, <2>4
<1>7. marker # None => marker.rec = None \/ reg.exe \in Unres(marker)
  <2> SUFFICES ASSUME marker # None, marker.rec # None
               PROVE  reg.exe \in Unres(marker)
    OBVIOUS
  <2>1. Read.rec = marker.rec
    BY DEF Read
  <2>2. marker.rec.id = None
    BY <2>1 DEF AttachFinds, Identified
  <2>3. marker.rec.baseline \in Unres(marker)
    BY <2>2 DEF Remembers, RecordsTell, UnnamedUnresolved
  <2>4. b = marker.rec.baseline
    BY <2>1 DEF PriorBaselines
  <2> QED
    BY <1>2, <2>3, <2>4
<1> QED
  BY <1>3, <1>4, <1>5, <1>6, <1>7, WritesRemembers

LEMMA UnknownMarksRemember ==
  ASSUME IInv, Remembers,
         \/ \E b \in Baselines : StartReconciles(b)
         \/ AttachLoses \/ AttachMismatches \/ StopRefuses \/ StopUnverified
  PROVE  Remembers'
<1>1. /\ op' = Idle /\ MarksUnknown(Read) /\ Read.rec # None
      /\ launched' = launched
  BY DEF StartReconciles, CanStart, Existing, AttachLoses, AttachMismatches,
         CanAttach, Identified, StopRefuses, StopUnverified, CanStop
<1>2. running' \subseteq running
  BY DEF StartReconciles, AttachLoses, AttachMismatches, StopRefuses,
         StopUnverified, Terminates, world
<1> QED
  BY <1>1, <1>2, MarksUnknownRemembers

\* The record of a stop is written once its process is gone.
LEMMA StopRecordsRemembers ==
  ASSUME IInv, Remembers, StopRecords
  PROVE  Remembers'
<1> DEFINE r == Read.rec
<1>1. /\ Read \in PlayerState /\ r # None /\ r \in Records
      /\ r.id = op.id /\ op.id \in launched /\ op.id # None
      /\ \A h \in AlivePlayers : h.pid # op.id.pid /\ h.exe # op.id.exe
  BY ReadType, NoneAssumption DEF StopRecords, IInv, OpTrue, StopTrue, TypeOK
<1>2. r \in SessionRecord /\ r.baseline = op.id.exe /\ op.id \notin running
  BY <1>1 DEF PlayerState, IInv, RecordsTrue, RecordTrue, AlivePlayers
<1>3. PICK s \in PlayerState :
         /\ Writes(s, faults)
         /\ s.rec # None /\ s.rec.id = op.id
         /\ Unres(Read) \ {op.id.exe} \subseteq Unres(s)
  <2> DEFINE u == [r EXCEPT !.state = "stopped"]
             s == [Read EXCEPT !.rec = u, !.blocked = @ \ {r.baseline}]
  <2>1. u \in SessionRecord /\ u # None /\ u.id = r.id
    BY <1>2, NoneAssumption DEF SessionRecord
  <2>2. /\ s \in PlayerState /\ s.rec = u
        /\ Unres(Read) \ {op.id.exe} \subseteq Unres(s)
    BY <1>1, <1>2, <2>1 DEF PlayerState, Unres
  <2>3. Writes(s, faults)
    BY <1>1 DEF StopRecords
  <2> QED
    BY <1>1, <2>1, <2>2, <2>3
<1>4. op' = Idle /\ running' = running /\ launched' = launched
  BY DEF StopRecords, world
<1>5. StoppedGone(s.rec) /\ UnnamedUnresolved(s)
  BY <1>1, <1>2, <1>3 DEF StoppedGone, UnnamedUnresolved
<1>6. RecordsTell'
  BY <1>3, <1>4, <1>5, StoredTells DEF Stored, IInv, Remembers
<1>7. ASSUME stales' <= 1, NEW h \in AlivePlayers PROVE Named(h, Read')
  <2>1. stales <= 1
    BY <1>3, <1>7 DEF Writes, IInv, TypeOK
  <2>2. Named(h, Read) /\ h # op.id /\ h.exe # op.id.exe
    BY <1>1, <2>1 DEF Remembers, AllNamed
  <2>3. h.exe \in Unres(s)
    BY <1>1, <1>3, <2>2 DEF Named
  <2> QED
    BY <1>3, <2>3, WritesType DEF Named, IInv, TypeOK
<1>8. stales' <= 1 => AllNamed'
  BY <1>4, <1>7 DEF AllNamed, AlivePlayers, Named, Unres
<1> QED
  BY <1>4, <1>6, <1>8, IdleSurvives DEF Remembers

\* A step that leaves the files alone and starts no Player.
LEMMA FilesAlone ==
  ASSUME IInv, Remembers, UNCHANGED <<file, marker, stales>>,
         AlivePlayers' \subseteq AlivePlayers,
         \A r \in Records : StoppedGone(r)',
         op' = op \/ op'.pc \in {"idle", "stopping"} \/
            (op.pc = "launched" /\ op'.base = op.base)
  PROVE  Remembers'
<1>1. Read' = Read /\ Records' = Records
  BY DEF Read, Records
<1>2. RecordsTell'
  BY <1>1 DEF Remembers, RecordsTell, UnnamedUnresolved, Unres
<1>3. IntentSurvives'
  BY DEF Remembers, IntentSurvives, Unres
<1>4. stales' <= 1 => AllNamed'
  BY <1>1 DEF Remembers, AllNamed, Named, Unres
<1> QED
  BY <1>2, <1>3, <1>4 DEF Remembers

LEMMA ProcessesGoRemembers ==
  ASSUME IInv, Remembers,
         \/ Register \/ StopKills \/ StopWriteFails \/ Connect \/ Disconnect
         \/ HostCrash \/ (\E h \in running : Exits(h)) \/ UNCHANGED vars
  PROVE  Remembers'
<1>1. UNCHANGED <<file, marker, stales, launched>>
  BY DEF Register, StopKills, StopWriteFails, Connect, Disconnect, HostCrash,
         Exits, vars, disk
<1>2. running' \subseteq running
  BY DEF Register, StopKills, StopWriteFails, Connect, Disconnect, HostCrash,
         Exits, vars, world, Terminates
<1>3. \A r \in Records : StoppedGone(r)'
  BY <1>2 DEF Remembers, RecordsTell, StoppedGone
<1>4. op' = op \/ op'.pc \in {"idle", "stopping"} \/
         (op.pc = "launched" /\ op'.base = op.base)
  <2>1. CASE Register
    BY <2>1 DEF Register, IInv, TypeOK, Operation
  <2>2. CASE StopKills
    BY <2>2 DEF StopKills, Idle
  <2>3. CASE StopWriteFails \/ HostCrash
    BY <2>3 DEF StopWriteFails, HostCrash, Idle
  <2>4. CASE op' = op
    BY <2>4
  <2> QED
    BY <2>1, <2>2, <2>3, <2>4 DEF Connect, Disconnect, Exits, vars
<1> QED
  BY <1>1, <1>2, <1>3, <1>4, FilesAlone DEF AlivePlayers

\* A new process has a start time of its own: no record is about it.
LEMMA FreshUnrecorded ==
  ASSUME IInv, NEW b, NEW h \in Fresh(b), running' = running \cup {h},
         NEW r \in Records, StoppedGone(r)
  PROVE  h \notin launched /\ StoppedGone(r)'
<1>1. h \in Identity /\ h.start = starts + 1 /\ starts \in Nat
  BY DEF Fresh, IInv, TypeOK
<1>2. h \notin launched
  <2>1. h \in launched => h.start <= starts
    BY DEF IInv, Processes
  <2> QED
    BY <1>1, <2>1
<1>3. h # None
  BY <1>1, NoneAssumption
<1> QED
  BY <1>2, <1>3 DEF StoppedGone, IInv, RecordsTrue, RecordTrue

LEMMA OtherStartsRemembers ==
  ASSUME IInv, Remembers, OtherStarts
  PROVE  Remembers'
<1>1. PICK b \in Baselines : \E h \in Fresh(b) : running' = running \cup {h}
  BY DEF OtherStarts
<1>2. PICK h \in Fresh(b) : running' = running \cup {h}
  BY <1>1
<1>3. UNCHANGED <<file, marker, stales, launched, op>>
  BY DEF OtherStarts, disk
<1>4. \A r \in Records : h \notin launched /\ StoppedGone(r)'
  BY <1>2, FreshUnrecorded DEF Remembers, RecordsTell
<1>5. AlivePlayers' \subseteq AlivePlayers
  BY <1>2, <1>3, <1>4 DEF AlivePlayers, Records
<1> QED
  BY <1>3, <1>4, <1>5, FilesAlone

\* The started Player is named by its durable intent.
LEMMA LaunchRemembers ==
  ASSUME IInv, Remembers, Launch
  PROVE  Remembers'
<1>1. PICK h \in Fresh(op.base) : /\ running' = running \cup {h}
                                  /\ launched' = launched \cup {h}
                                  /\ op' = [op EXCEPT !.pc = "launched", !.id = h]
  BY DEF Launch
<1>2. UNCHANGED <<file, marker, stales>> /\ op.pc = "intended"
  BY DEF Launch, disk
<1>3. op'.base = op.base /\ op'.pc = "launched"
  BY <1>1 DEF IInv, TypeOK, Operation
<1>4. Read' = Read /\ Records' = Records
  BY <1>2 DEF Read, Records
<1>5. \A r \in Records : StoppedGone(r)'
  BY <1>1, FreshUnrecorded DEF Remembers, RecordsTell
<1>6. RecordsTell'
  BY <1>2, <1>4, <1>5 DEF Remembers, RecordsTell, UnnamedUnresolved, Unres
<1>7. IntentSurvives'
  BY <1>2, <1>3 DEF Remembers, IntentSurvives, Unres
<1>8. h.exe \in Unres(Read)
  BY <1>1, <1>2 DEF Fresh, IInv, OpTrue, StartTrue, Unres
<1>9. AlivePlayers' \subseteq AlivePlayers \cup {h}
  BY <1>1 DEF AlivePlayers, IInv, Processes, Fresh
<1>10. stales' <= 1 => AllNamed'
  BY <1>2, <1>4, <1>8, <1>9 DEF Remembers, AllNamed, Named, Unres
<1> QED
  BY <1>6, <1>7, <1>10 DEF Remembers

LEMMA NextRemembers ==
  ASSUME IInv, Remembers, [Next]_vars
  PROVE  Remembers'
<1>1. CASE StartSteps
  BY <1>1, StartBlocksRemembers, UnknownMarksRemember, StartAdoptsRemembers,
     StartIntendsRemembers, LaunchRemembers, UnknownStartsRemember,
     ProcessesGoRemembers, RecordRemembers
     DEF StartSteps
<1>2. CASE AttachSteps
  BY <1>2, AttachRebindsRemembers, AttachFindsRemembers, UnknownMarksRemember
     DEF AttachSteps
<1>3. CASE StopSteps
  BY <1>3, ProcessesGoRemembers, UnknownMarksRemember, StopRecordsRemembers
     DEF StopSteps
<1>4. CASE World
  BY <1>4, ProcessesGoRemembers, OtherStartsRemembers DEF World
<1>5. CASE UNCHANGED vars
  BY <1>5, ProcessesGoRemembers
<1> QED
  BY <1>1, <1>2, <1>3, <1>4, <1>5 DEF Next

LEMMA InitRemembers ==
  ASSUME Init
  PROVE  Remembers
<1>1. EmptyState.rec = None /\ Idle.pc = "idle"
  BY DEF EmptyState, Idle
<1> QED
  BY <1>1 DEF Init, Remembers, RecordsTell, StoppedGone, UnnamedUnresolved,
              Records, IntentSurvives, AllNamed, AlivePlayers

LEMMA Remembering == Spec => [](IInv /\ Remembers)
<1>1. Init => Remembers
  BY InitRemembers
<1>2. IInv /\ Remembers /\ [Next]_vars => Remembers'
  BY NextRemembers
<1> QED
  BY <1>1, <1>2, Invariance, PTL DEF Spec

\* No running Player that the provider started is forgotten: read, with the
\* marker merged over the state file, names it by its record or leaves its
\* baseline unresolved, as long as a marker has stayed behind at most once.
THEOREM NoneForgotten == Spec => []NoForgottenPlayer
<1>1. IInv /\ Remembers => NoForgottenPlayer
  BY DEF Remembers, AllNamed, Named, AlivePlayers, Unres, NoForgottenPlayer
<1> QED
  BY <1>1, Remembering, PTL

\* A Player recorded as stopped is gone: _stop writes the record only once the
\* process is verified absent, and a later process, though it may have the
\* pid, is not the one recorded.
THEOREM StoppedAreAbsent == Spec => []StoppedMeansAbsent
<1>1. IInv /\ Remembers => StoppedMeansAbsent
  BY DEF Remembers, RecordsTell, StoppedGone, Records, StoppedMeansAbsent
<1> QED
  BY <1>1, Remembering, PTL

=============================================================================
