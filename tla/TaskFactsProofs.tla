-------------------------- MODULE TaskFactsProofs --------------------------
(***************************************************************************)
(* What TaskFacts promises for any number of saves, applies, verifications, *)
(* lookups and crashes.  Every action adds at most one record (Grows), and   *)
(* a proper one; the lemmas say what a proper record preserves.             *)
(***************************************************************************)
EXTENDS TaskFacts, TLAPS

\* In the order of their transactions the records give the facts: the last
\* one that speaks of a fact gives its value, where a saved source speaks of
\* all of them.
FactsFollowRecords ==
  \A f \in Facts :
    \/ /\ facts[f] = "null"
       /\ \A i \in DOMAIN records : ~Speaks(i, f)
    \/ \E i \in DOMAIN records :
         /\ Speaks(i, f) /\ facts[f] = records[i].claim[f]
         /\ \A j \in DOMAIN records : j > i => ~Speaks(j, f)

\* Only an apply and a locked command pass each other between stamp and
\* transaction, and no record is stamped ahead of the clock.
Passed(i, j) == (records[i].op = "iterate") # (records[j].op = "iterate")

StampsOrder ==
  /\ \A i \in DOMAIN records : records[i].at <= clock
  /\ \A i, j \in DOMAIN records :
       i < j /\ records[j].at < records[i].at => Passed(i, j)

\* The same of a record that is stamped and not committed.
PendingStamps ==
  /\ save.at <= clock /\ apply.at <= clock /\ call.at <= clock
  /\ \A i \in DOMAIN records :
       /\ save.pc = "stamped" /\ save.at < records[i].at =>
            records[i].op = "iterate"
       /\ call.pc = "stamped" /\ call.at < records[i].at =>
            records[i].op = "iterate"
       /\ apply.pc = "stamped" /\ apply.at < records[i].at =>
            records[i].op # "iterate"

\* No record denies that the source is saved, and no apply speaks of
\* acceptance.
ClaimsKnown ==
  \A i \in DOMAIN records :
    /\ records[i].claim["sourceSaved"] \in {"null", "true"}
    /\ records[i].op = "iterate" =>
         \A f \in Acceptance : records[i].claim[f] = "null"

\* A recorded apply has its evidence before its row.
RecordedHasEvidence ==
  apply.pc = "recorded" =>
    \E i \in DOMAIN records :
      /\ records[i].op = "iterate" /\ records[i].plan = apply.plan
      /\ SaysTrue(i, "runtimeMatched")

\* Nothing recorded, planned or applied is newer than the source.
NothingNewer ==
  /\ \A i \in DOMAIN records : records[i].input <= input
  /\ save.input <= input
  /\ plan # None => plan.input <= input
  /\ apply.plan # None => apply.plan.input <= input

\* A call claims neither a saved source nor a matched runtime, and no save is
\* being recorded or was recorded under it.
CallHolds ==
  /\ call.op # "iterate" /\ call.claim["sourceSaved"] = "null"
  /\ call.claim["runtimeMatched"] # "true"
  /\ call.pc # "idle" =>
       /\ save.pc \in {"none", "pending", "written"}
       /\ \A k \in DOMAIN records : k > call.seen => ~Clears(records[k])

\* Only an apply says that the runtime matches, and only such an apply or a
\* save, which clears, says that the source is saved.
OnlyApplies ==
  \A i \in DOMAIN records :
    /\ SaysTrue(i, "runtimeMatched") => records[i].op = "iterate"
    /\ SaysTrue(i, "sourceSaved") =>
         Clears(records[i]) \/ SaysTrue(i, "runtimeMatched")

\* A saved source is no newer than a later apply, unless the save was recorded
\* during the apply.
Covered(i, snapshot, seen) ==
  SaysTrue(i, "sourceSaved") =>
    \/ records[i].input <= snapshot
    \/ i > seen /\ Clears(records[i])

ApplyCovers ==
  apply.pc # "idle" =>
    /\ apply.seen <= Len(records)
    /\ \A i \in DOMAIN records : Covered(i, apply.plan.input, apply.seen)

RecordsCover ==
  \A j \in DOMAIN records :
    records[j].op = "iterate" =>
      \A i \in DOMAIN records :
        i <= j => Covered(i, records[j].input, records[j].seen)

IInv ==
  /\ TypeOK
  /\ FactsFollowRecords
  /\ StampsOrder /\ PendingStamps /\ ClaimsKnown
  /\ CompletedHasEvidence /\ RecordedHasEvidence
  /\ VerdictsFollowSave /\ CallHolds
  /\ NothingNewer /\ OnlyApplies /\ ApplyCovers /\ RecordsCover

\* The record is one the apply in progress covers.
CoveredBy(r, snapshot, seen) ==
  r.claim["sourceSaved"] = "true" =>
    r.input <= snapshot \/ (seen <= Len(records) /\ Clears(r))

\* What keeps the invariant when it is added.
Proper(r) ==
  /\ r.input <= input /\ r.at <= clock
  /\ r.op = "verify" => \A k \in DOMAIN records :
                          k > r.seen => ~Clears(records[k])
  /\ r.claim["runtimeMatched"] = "true" => r.op = "iterate"
  /\ r.claim["sourceSaved"] \in {"null", "true"}
  /\ r.claim["sourceSaved"] = "true" =>
       Clears(r) \/ r.claim["runtimeMatched"] = "true"
  /\ r.op = "iterate" =>
       /\ \A f \in Acceptance : r.claim[f] = "null"
       /\ \A i \in DOMAIN records : Covered(i, r.input, r.seen)
  /\ \A i \in DOMAIN records :
       r.at < records[i].at =>
         (records[i].op = "iterate") # (r.op = "iterate")
  /\ call' = call /\ call.pc # "idle" => r.op = "iterate"
  /\ save' = save /\ save.pc = "stamped" => r.op = "iterate"
  /\ apply' = apply /\ apply.pc = "stamped" => r.op # "iterate"
  /\ apply.pc # "idle" => CoveredBy(r, apply.plan.input, apply.seen)

\* A step adds a proper record and updates the facts by it, or does nothing.
Adds(r) ==
  /\ records' = Append(records, r) /\ facts' = Updated(r)
  /\ Proper(r)

Grows(r) == UNCHANGED task \/ Adds(r)

-----------------------------------------------------------------------------
(* The records that are added                                              *)

LEMMA SilentType == Silent \in Claims
BY DEF Silent, Claims, Values

LEMMA SaysType ==
  ASSUME NEW f \in Facts, NEW v \in Values
  PROVE  Says(f, v) \in Claims
BY DEF Says, Silent, Claims, Values

LEMMA SaveType ==
  ASSUME TypeOK
  PROVE  /\ SaveRecord \in Records /\ Clears(SaveRecord)
         /\ SaveRecord.op = "source.edit" /\ SaveRecord.input = save.input
         /\ SaveRecord.at = save.at
         /\ SaveRecord.claim["sourceSaved"] = "true"
         /\ SaveRecord.claim["runtimeMatched"] = "null"
<1>1. Says("sourceSaved", "true") \in Claims
  BY SaysType DEF Facts, Values
<1>2. save.input \in Nat /\ save.at \in Nat /\ Len(records) \in Nat
  BY DEF TypeOK
<1>3. SaveRecord \in Records
  BY <1>1, <1>2 DEF SaveRecord, Records, Operations
<1>4. /\ Says("sourceSaved", "true")["sourceSaved"] = "true"
      /\ Says("sourceSaved", "true")["runtimeMatched"] = "null"
  BY DEF Says, Silent, Facts
<1> QED
  BY <1>3, <1>4 DEF SaveRecord, Clears

LEMMA ApplyType ==
  ASSUME TypeOK, apply.pc # "idle"
  PROVE  /\ ApplyRecord \in Records /\ ~Clears(ApplyRecord)
         /\ ApplyRecord.op = "iterate" /\ ApplyRecord.plan = apply.plan
         /\ ApplyRecord.input = apply.plan.input
         /\ ApplyRecord.seen = apply.seen /\ ApplyRecord.at = apply.at
         /\ ApplyRecord.claim["runtimeMatched"] = "true"
         /\ ApplyRecord.claim["sourceSaved"] \in {"null", "true"}
         /\ \A f \in Acceptance : ApplyRecord.claim[f] = "null"
<1> DEFINE claim == [Says("runtimeMatched", "true")
                       EXCEPT !["sourceSaved"] = apply.saved]
<1>1. /\ claim \in Claims /\ claim["runtimeMatched"] = "true"
      /\ claim["sourceSaved"] \in {"null", "true"}
  BY DEF Says, Silent, Facts, Claims, Values, TypeOK
<1>2. \A f \in Acceptance : claim[f] = "null"
  BY TaskFactsAssumption DEF Says, Silent, Facts
<1>3. apply.plan \in Plans /\ apply.seen \in Nat /\ apply.at \in Nat
  BY DEF TypeOK
<1>4. apply.plan.input \in Nat
  BY <1>3 DEF Plans
<1>5. ApplyRecord \in Records
  BY <1>1, <1>3, <1>4 DEF ApplyRecord, Records, Operations
<1> QED
  BY <1>1, <1>2, <1>5 DEF ApplyRecord, Clears

LEMMA CallType ==
  ASSUME TypeOK, CallHolds
  PROVE  /\ CallRecord \in Records /\ ~Clears(CallRecord)
         /\ CallRecord.op # "iterate" /\ CallRecord.input = 0
         /\ CallRecord.seen = call.seen /\ CallRecord.at = call.at
         /\ CallRecord.claim["sourceSaved"] = "null"
         /\ CallRecord.claim["runtimeMatched"] # "true"
<1>1. /\ call.claim \in Claims /\ call.seen \in Nat /\ call.at \in Nat
      /\ call.op \in Operations
  BY DEF TypeOK
<1>2. CallRecord \in Records
  BY <1>1 DEF CallRecord, Records
<1> QED
  BY <1>2 DEF CallRecord, Clears, CallHolds

-----------------------------------------------------------------------------
(* What one more record preserves                                          *)

LEMMA GrowsType ==
  ASSUME TypeOK, NEW r \in Records, Grows(r)
  PROVE  records' \in Seq(Records) /\ facts' \in Claims
<1>1. CASE UNCHANGED task
  BY <1>1 DEF task, TypeOK
<1>2. CASE Adds(r)
  <2>1. r.claim \in Claims
    BY DEF Records
  <2>2. facts' \in Claims
    BY <1>2, <2>1 DEF Adds, Updated, Claims, Values, TypeOK
  <2> QED
    BY <1>2, <2>2 DEF Adds, TypeOK
<1> QED
  BY <1>1, <1>2 DEF Grows

LEMMA AppendIndices ==
  ASSUME NEW s \in Seq(Records), NEW r \in Records
  PROVE  /\ Append(s, r) \in Seq(Records)
         /\ Len(s) \in Nat
         /\ DOMAIN s = 1 .. Len(s)
         /\ DOMAIN Append(s, r) = 1 .. (Len(s) + 1)
         /\ Append(s, r)[Len(s) + 1] = r
         /\ \A i \in 1 .. Len(s) : Append(s, r)[i] = s[i]
OBVIOUS

AddedAt(n, r) ==
  /\ n > 0 /\ n = Len(records) + 1
  /\ DOMAIN records = 1 .. (n - 1) /\ DOMAIN records' = 1 .. n
  /\ records'[n] = r /\ \A i \in 1 .. (n - 1) : records'[i] = records[i]

LEMMA AppendAdds ==
  ASSUME TypeOK, NEW r \in Records, Adds(r)
  PROVE  \E n \in Nat : AddedAt(n, r)
<1>1. Len(records) + 1 \in Nat /\ (Len(records) + 1) - 1 = Len(records)
  BY AppendIndices DEF TypeOK
<1> QED
  BY <1>1, AppendIndices DEF TypeOK, AddedAt, Adds

LEMMA GrowsFollow ==
  ASSUME TypeOK, FactsFollowRecords, NEW r \in Records, Grows(r)
  PROVE  FactsFollowRecords'
<1>1. CASE UNCHANGED task
  BY <1>1 DEF task, FactsFollowRecords, Speaks
<1>2. CASE Adds(r)
  <2>1. PICK n \in Nat : AddedAt(n, r)
    BY <1>2, AppendAdds
  <2> USE <2>1 DEF AddedAt
  <2> SUFFICES ASSUME NEW f \in Facts
               PROVE  \/ /\ facts'[f] = "null"
                         /\ \A i \in DOMAIN records' : ~Speaks(i, f)'
                      \/ \E i \in DOMAIN records' :
                           /\ Speaks(i, f)' /\ facts'[f] = records'[i].claim[f]
                           /\ \A j \in DOMAIN records' : j > i => ~Speaks(j, f)'
    BY DEF FactsFollowRecords
  <2>2. \A i \in 1 .. (n - 1) : Speaks(i, f)' <=> Speaks(i, f)
    BY <2>1 DEF Speaks
  <2>3. Speaks(n, f)' <=> (r.claim[f] # "null" \/ Clears(r))
    BY <2>1 DEF Speaks, Clears
  <2>4. CASE Speaks(n, f)'
    <3>1. facts'[f] = r.claim[f]
      BY <1>2, <2>3, <2>4 DEF Adds, Updated
    <3>2. n \in DOMAIN records' /\ \A j \in DOMAIN records' : ~(j > n)
      BY <2>1
    <3> QED
      BY <2>1, <2>4, <3>1, <3>2
  <2>5. CASE ~Speaks(n, f)'
    <3>1. facts'[f] = facts[f]
      BY <1>2, <2>3, <2>5 DEF Adds, Updated
    <3>2. CASE /\ facts[f] = "null"
               /\ \A i \in DOMAIN records : ~Speaks(i, f)
      <4>1. \A i \in DOMAIN records' : ~Speaks(i, f)'
        BY <2>1, <2>2, <2>5, <3>2
      <4> QED
        BY <3>1, <3>2, <4>1
    <3>3. CASE \E i \in DOMAIN records :
                 /\ Speaks(i, f) /\ facts[f] = records[i].claim[f]
                 /\ \A j \in DOMAIN records : j > i => ~Speaks(j, f)
      <4>1. PICK i \in DOMAIN records :
              /\ Speaks(i, f) /\ facts[f] = records[i].claim[f]
              /\ \A j \in DOMAIN records : j > i => ~Speaks(j, f)
        BY <3>3
      <4>2. i \in DOMAIN records' /\ Speaks(i, f)'
        BY <2>1, <2>2, <4>1
      <4>3. facts'[f] = records'[i].claim[f]
        BY <2>1, <3>1, <4>1
      <4>4. \A j \in DOMAIN records' : j > i => ~Speaks(j, f)'
        BY <2>1, <2>2, <2>5, <4>1
      <4> QED
        BY <4>2, <4>3, <4>4
    <3> QED
      BY <3>2, <3>3 DEF FactsFollowRecords
  <2> QED
    BY <2>4, <2>5
<1> QED
  BY <1>1, <1>2 DEF Grows

LEMMA GrowsEvidence ==
  ASSUME TypeOK, NEW r \in Records, Grows(r), NEW p,
         \E i \in DOMAIN records :
           /\ records[i].op = "iterate" /\ records[i].plan = p
           /\ SaysTrue(i, "runtimeMatched")
  PROVE  \E i \in DOMAIN records' :
           /\ records'[i].op = "iterate" /\ records'[i].plan = p
           /\ SaysTrue(i, "runtimeMatched")'
<1>1. CASE UNCHANGED task
  BY <1>1 DEF task, SaysTrue
<1>2. CASE Adds(r)
  <2>1. PICK n \in Nat : AddedAt(n, r)
    BY <1>2, AppendAdds
  <2>2. PICK i \in DOMAIN records :
          /\ records[i].op = "iterate" /\ records[i].plan = p
          /\ SaysTrue(i, "runtimeMatched")
    OBVIOUS
  <2>3. i \in DOMAIN records' /\ records'[i] = records[i]
    BY <2>1, <2>2 DEF AddedAt
  <2> QED
    BY <2>2, <2>3 DEF SaysTrue
<1> QED
  BY <1>1, <1>2 DEF Grows

LEMMA GrowsVerdicts ==
  ASSUME TypeOK, VerdictsFollowSave, NEW r \in Records, Grows(r)
  PROVE  VerdictsFollowSave'
<1>1. CASE UNCHANGED task
  BY <1>1 DEF task, VerdictsFollowSave, Overtaken
<1>2. CASE Adds(r)
  <2>1. PICK n \in Nat : AddedAt(n, r)
    BY <1>2, AppendAdds
  <2> SUFFICES ASSUME NEW j \in DOMAIN records', records'[j].op = "verify",
                      NEW k \in DOMAIN records', k > records'[j].seen, k < j,
                      Clears(records'[k])
               PROVE  FALSE
    BY DEF VerdictsFollowSave, Overtaken, Clears
  <2>2. k \in DOMAIN records /\ records'[k] = records[k]
    BY <2>1 DEF AddedAt
  <2>3. CASE j = n
    BY <1>2, <2>1, <2>2, <2>3 DEF AddedAt, Adds, Proper
  <2>4. CASE j # n
    <3>1. j \in DOMAIN records /\ records'[j] = records[j]
      BY <2>1, <2>4 DEF AddedAt
    <3> QED
      BY <2>2, <3>1 DEF VerdictsFollowSave, Overtaken
  <2> QED
    BY <2>3, <2>4
<1> QED
  BY <1>1, <1>2 DEF Grows

LEMMA GrowsUnderCall ==
  ASSUME TypeOK, CallHolds, NEW r \in Records, Grows(r), call' = call,
         call.pc # "idle"
  PROVE  \A k \in DOMAIN records' : k > call.seen => ~Clears(records'[k])
<1>1. CASE UNCHANGED task
  BY <1>1 DEF task, CallHolds
<1>2. CASE Adds(r)
  <2>1. PICK n \in Nat : AddedAt(n, r)
    BY <1>2, AppendAdds
  <2>2. ~Clears(r)
    BY <1>2 DEF Adds, Proper, Clears
  <2> QED
    BY <2>1, <2>2 DEF AddedAt, CallHolds
<1> QED
  BY <1>1, <1>2 DEF Grows

LEMMA GrowsNotNewer ==
  ASSUME TypeOK, NothingNewer, NEW r \in Records, Grows(r),
         input <= input', input' \in Nat
  PROVE  \A i \in DOMAIN records' : records'[i].input <= input'
<1>1. \A i \in DOMAIN records : records[i].input \in Nat
  <2>1. \A i \in DOMAIN records : records[i] \in Records
    BY DEF TypeOK
  <2> QED
    BY <2>1 DEF Records
<1>2. r.input \in Nat /\ input \in Nat
  BY DEF TypeOK, Records
<1>3. CASE UNCHANGED task
  BY <1>1, <1>2, <1>3 DEF task, NothingNewer
<1>4. CASE Adds(r)
  <2>1. PICK n \in Nat : AddedAt(n, r)
    BY <1>4, AppendAdds
  <2> QED
    BY <1>1, <1>2, <1>4, <2>1 DEF AddedAt, NothingNewer, Adds, Proper
<1> QED
  BY <1>3, <1>4 DEF Grows

LEMMA GrowsOnly ==
  ASSUME TypeOK, OnlyApplies, NEW r \in Records, Grows(r)
  PROVE  OnlyApplies'
<1>1. CASE UNCHANGED task
  BY <1>1 DEF task, OnlyApplies, SaysTrue, Clears
<1>2. CASE Adds(r)
  <2>1. PICK n \in Nat : AddedAt(n, r)
    BY <1>2, AppendAdds
  <2> QED
    BY <1>2, <2>1 DEF AddedAt, OnlyApplies, SaysTrue, Clears, Adds, Proper
<1> QED
  BY <1>1, <1>2 DEF Grows

LEMMA GrowsCovers ==
  ASSUME TypeOK, NEW r \in Records, Grows(r), NEW n \in Nat, NEW m \in Nat,
         m <= Len(records), Proper(r) => CoveredBy(r, n, m),
         \A i \in DOMAIN records : Covered(i, n, m)
  PROVE  /\ m <= Len(records')
         /\ \A i \in DOMAIN records' : Covered(i, n, m)'
<1>1. CASE UNCHANGED task
  BY <1>1 DEF task, Covered, SaysTrue
<1>2. CASE Adds(r)
  <2>1. PICK k \in Nat : AddedAt(k, r)
    BY <1>2, AppendAdds
  <2>2. Len(records) \in Nat /\ Len(records') = Len(records) + 1
    BY <1>2 DEF Adds, TypeOK
  <2>3. ASSUME NEW i \in DOMAIN records', i # k
        PROVE  Covered(i, n, m)'
    <3>1. i \in DOMAIN records /\ records'[i] = records[i]
      BY <2>1, <2>3 DEF AddedAt
    <3> QED
      BY <3>1 DEF Covered, SaysTrue, Clears
  <2>4. Covered(k, n, m)'
    BY <1>2, <2>1, <2>2 DEF AddedAt, Covered, CoveredBy, SaysTrue, Adds
  <2> QED
    BY <2>2, <2>3, <2>4
<1> QED
  BY <1>1, <1>2 DEF Grows

LEMMA GrowsRecordsCover ==
  ASSUME TypeOK, RecordsCover, NEW r \in Records, Grows(r)
  PROVE  RecordsCover'
<1>1. CASE UNCHANGED task
  BY <1>1 DEF task, RecordsCover, Covered, SaysTrue
<1>2. CASE Adds(r)
  <2>1. PICK n \in Nat : AddedAt(n, r)
    BY <1>2, AppendAdds
  <2> SUFFICES ASSUME NEW j \in DOMAIN records', records'[j].op = "iterate",
                      NEW i \in DOMAIN records', i <= j,
                      SaysTrue(i, "sourceSaved")'
               PROVE  \/ records'[i].input <= records'[j].input
                      \/ i > records'[j].seen /\ Clears(records'[i])
    BY DEF RecordsCover, Covered, Clears
  <2>2. CASE i = n
    <3>1. j = n /\ r.input \in Nat
      BY <2>1, <2>2 DEF AddedAt, Records
    <3> QED
      BY <2>1, <2>2, <3>1 DEF AddedAt
  <2>3. CASE i # n
    <3>1. i \in DOMAIN records /\ records'[i] = records[i]
      BY <2>1, <2>3 DEF AddedAt
    <3>2. CASE j = n
      BY <1>2, <2>1, <3>1, <3>2 DEF AddedAt, Covered, SaysTrue, Adds, Proper
    <3>3. CASE j # n
      <4>1. j \in DOMAIN records /\ records'[j] = records[j]
        BY <2>1, <3>3 DEF AddedAt
      <4> QED
        BY <3>1, <4>1 DEF RecordsCover, Covered, SaysTrue
    <3> QED
      BY <3>2, <3>3
  <2> QED
    BY <2>2, <2>3
<1> QED
  BY <1>1, <1>2 DEF Grows

LEMMA GrowsClaims ==
  ASSUME TypeOK, ClaimsKnown, NEW r \in Records, Grows(r)
  PROVE  ClaimsKnown'
<1>1. CASE UNCHANGED task
  BY <1>1 DEF task, ClaimsKnown
<1>2. CASE Adds(r)
  <2>1. PICK n \in Nat : AddedAt(n, r)
    BY <1>2, AppendAdds
  <2> QED
    BY <1>2, <2>1 DEF AddedAt, ClaimsKnown, Adds, Proper
<1> QED
  BY <1>1, <1>2 DEF Grows

LEMMA StampTypes ==
  ASSUME TypeOK
  PROVE  \A i \in DOMAIN records : records[i].at \in Nat
<1>1. \A i \in DOMAIN records : records[i] \in Records
  BY DEF TypeOK
<1> QED
  BY <1>1 DEF Records

LEMMA GrowsStamps ==
  ASSUME TypeOK, StampsOrder, NEW r \in Records, Grows(r),
         clock' \in Nat, clock <= clock'
  PROVE  StampsOrder'
<1>1. \A i \in DOMAIN records : records[i].at \in Nat
  BY StampTypes
<1>2. clock \in Nat /\ r.at \in Nat
  BY DEF TypeOK, Records
<1>3. CASE UNCHANGED task
  BY <1>1, <1>2, <1>3 DEF task, StampsOrder, Passed
<1>4. CASE Adds(r)
  <2>1. PICK n \in Nat : AddedAt(n, r)
    BY <1>4, AppendAdds
  <2>2. \A i \in DOMAIN records' : records'[i].at <= clock'
    BY <1>1, <1>2, <1>4, <2>1 DEF AddedAt, StampsOrder, Adds, Proper
  <2>3. ASSUME NEW i \in DOMAIN records', NEW j \in DOMAIN records', i < j,
               records'[j].at < records'[i].at
        PROVE  Passed(i, j)'
    <3>1. i \in DOMAIN records /\ records'[i] = records[i]
      BY <2>1, <2>3 DEF AddedAt
    <3>2. CASE j = n
      BY <1>4, <2>1, <2>3, <3>1, <3>2 DEF AddedAt, Adds, Proper, Passed
    <3>3. CASE j # n
      <4>1. j \in DOMAIN records /\ records'[j] = records[j]
        BY <2>1, <3>3 DEF AddedAt
      <4> QED
        BY <2>3, <3>1, <4>1 DEF StampsOrder, Passed
    <3> QED
      BY <3>2, <3>3
  <2> QED
    BY <2>2, <2>3 DEF StampsOrder
<1> QED
  BY <1>3, <1>4 DEF Grows

-----------------------------------------------------------------------------
(* Every step records at most one record, and a proper one                 *)

Quiet ==
  \/ EditAccepted \/ EditorSaves \/ SomebodyEdits \/ PlayerApplies
  \/ SaveChecked \/ SaveStamped \/ SaveRow \/ SaveFails
  \/ Prepares \/ ApplyStarts \/ ApplyAnswered \/ ApplyFails \/ ApplyStamped
  \/ ApplyRow
  \/ Verifies \/ Locates \/ CallRefused \/ CallStamped
  \/ Crash \/ ProvidersRecovered \/ Serves

Recording == SaveRecorded \/ ApplyRecorded \/ CallRecorded

LEMMA NextSplits ==
  ASSUME [Next]_vars
  PROVE  UNCHANGED task \/ Recording
<1>1. Next => Quiet \/ Recording
  BY DEF Next, Quiet, Recording
<1>2. Quiet => UNCHANGED task
  BY DEF Quiet, EditAccepted, EditorSaves, SomebodyEdits, PlayerApplies,
         SaveChecked, SaveStamped, SaveRow, SaveFails, Prepares, ApplyStarts,
         ApplyAnswered, ApplyFails, ApplyStamped, ApplyRow, Verifies, Locates,
         CallRefused, CallStamped, Crash, ProvidersRecovered, Serves, task,
         NoSave, NoApply, NoCall
<1> QED
  BY <1>1, <1>2 DEF vars, task

LEMMA SaveAdds ==
  ASSUME IInv, SaveRecorded
  PROVE  Adds(SaveRecord)
<1>1. /\ records' = Append(records, SaveRecord)
      /\ facts' = Updated(SaveRecord)
  BY DEF SaveRecorded, Stores
<1>2. save.pc = "stamped" /\ save'.pc = "recorded" /\ call.pc = "idle"
  BY DEF SaveRecorded, IInv, CallHolds, TypeOK
<1>3. save.input <= input /\ save.at <= clock
  BY DEF IInv, NothingNewer, PendingStamps
<1>4. \A i \in DOMAIN records :
        save.at < records[i].at => records[i].op = "iterate"
  BY <1>2 DEF IInv, PendingStamps
<1>5. apply.pc # "idle" => apply.seen <= Len(records)
  BY DEF IInv, ApplyCovers
<1>6. Proper(SaveRecord)
  BY <1>2, <1>3, <1>4, <1>5, SaveType DEF IInv, Proper, CoveredBy
<1> QED
  BY <1>1, <1>6 DEF Adds

LEMMA ApplyAdds ==
  ASSUME IInv, ApplyRecorded
  PROVE  Adds(ApplyRecord)
<1>1. /\ records' = Append(records, ApplyRecord)
      /\ facts' = Updated(ApplyRecord)
  BY DEF ApplyRecorded, Stores
<1>2. apply.pc = "stamped" /\ apply.pc # "idle" /\ apply'.pc = "recorded"
  BY DEF ApplyRecorded, IInv, TypeOK
<1>3. apply.plan # None /\ apply.plan \in Plans
  BY <1>2 DEF IInv, TypeOK
<1>4. apply.plan.input <= input /\ apply.plan.input \in Nat
  BY <1>3 DEF IInv, NothingNewer, Plans
<1>5. \A i \in DOMAIN records : Covered(i, apply.plan.input, apply.seen)
  BY <1>2 DEF IInv, ApplyCovers
<1>6. /\ apply.at <= clock
      /\ \A i \in DOMAIN records :
           apply.at < records[i].at => records[i].op # "iterate"
  BY <1>2 DEF IInv, PendingStamps
<1>7. Proper(ApplyRecord)
  BY <1>2, <1>4, <1>5, <1>6, ApplyType DEF IInv, Proper, CoveredBy
<1> QED
  BY <1>1, <1>7 DEF Adds

LEMMA CallAdds ==
  ASSUME IInv, CallRecorded
  PROVE  Adds(CallRecord)
<1>1. /\ records' = Append(records, CallRecord)
      /\ facts' = Updated(CallRecord)
  BY DEF CallRecorded, Stores
<1>2. call.pc = "stamped" /\ call.pc # "idle" /\ call'.pc = "idle"
  BY DEF CallRecorded, NoCall
<1>3. 0 <= input /\ call.at <= clock
  BY DEF IInv, TypeOK, PendingStamps
<1>4. /\ \A k \in DOMAIN records : k > call.seen => ~Clears(records[k])
      /\ save.pc # "stamped"
  BY <1>2 DEF IInv, CallHolds
<1>5. \A i \in DOMAIN records :
        call.at < records[i].at => records[i].op = "iterate"
  BY <1>2 DEF IInv, PendingStamps
<1>6. Proper(CallRecord)
  BY <1>2, <1>3, <1>4, <1>5, CallType DEF IInv, Proper, CoveredBy
<1> QED
  BY <1>1, <1>6 DEF Adds

LEMMA StepRecords ==
  ASSUME IInv, [Next]_vars
  PROVE  \E r \in Records : Grows(r)
<1>1. SaveRecord \in Records
  BY SaveType DEF IInv
<1>2. CASE UNCHANGED task
  BY <1>1, <1>2 DEF Grows
<1>3. CASE SaveRecorded
  BY <1>1, <1>3, SaveAdds DEF Grows
<1>4. CASE ApplyRecorded
  <2>1. ApplyRecord \in Records
    BY <1>4, ApplyType DEF IInv, ApplyRecorded
  <2> QED
    BY <1>4, <2>1, ApplyAdds DEF Grows
<1>5. CASE CallRecorded
  <2>1. CallRecord \in Records
    BY CallType DEF IInv
  <2> QED
    BY <1>5, <2>1, CallAdds DEF Grows
<1> QED
  BY <1>2, <1>3, <1>4, <1>5, NextSplits DEF Recording

-----------------------------------------------------------------------------
(* The conjuncts one by one                                                *)

LEMMA TypeStep ==
  ASSUME IInv, [Next]_vars
  PROVE  TypeOK'
<1>1. records' \in Seq(Records) /\ facts' \in Claims
  BY StepRecords, GrowsType DEF IInv
<1>2. Silent \in Claims /\ Len(records) \in Nat
  BY SilentType DEF IInv, TypeOK
<1>3. \A now \in Now : now \in Nat
  BY DEF IInv, TypeOK, Now
<1> USE <1>1, <1>2, <1>3 DEF IInv, TypeOK
<1>4. CASE EditAccepted
  BY <1>4 DEF EditAccepted, NoSave, machine
<1>5. CASE EditorSaves
  <2>1. save' = [pc |-> "written", input |-> input + 1, at |-> 0]
    BY <1>5 DEF EditorSaves, NoSave
  <2> QED
    BY <1>5, <2>1 DEF EditorSaves
<1>6. CASE SomebodyEdits
  BY <1>6 DEF SomebodyEdits
<1>7. CASE PlayerApplies
  <2>1. apply.plan \in Plans
    BY <1>7 DEF PlayerApplies
  <2> QED
    BY <1>7, <2>1 DEF PlayerApplies, Plans
<1>8. CASE SaveChecked \/ SaveStamped \/ SaveRecorded
  BY <1>8 DEF SaveChecked, SaveStamped, SaveRecorded, machine
<1>9. CASE SaveRow \/ SaveFails
  BY <1>9 DEF SaveRow, SaveFails, NoSave, machine
<1>10. CASE Prepares
  BY <1>10 DEF Prepares, machine, Plans
<1>11. CASE ApplyStarts
  <2>1. plan # None /\ plan \in Plans
    BY <1>11 DEF ApplyStarts, NoApply
  <2> QED
    BY <1>11, <2>1 DEF ApplyStarts, NoApply, machine
<1>12. CASE ApplyAnswered \/ ApplyStamped \/ ApplyRecorded
  BY <1>12 DEF ApplyAnswered, ApplyStamped, ApplyRecorded, machine
<1>13. CASE ApplyFails
  BY <1>13 DEF ApplyFails, NoApply, machine
<1>14. CASE ApplyRow
  <2>1. apply.plan \in Plans
    BY <1>14 DEF ApplyRow, RowIsDue
  <2> QED
    BY <1>14, <2>1 DEF ApplyRow, NoApply, machine
<1>15. CASE Verifies
  <2>1. PICK c \in Claims :
          call' = [NoCall EXCEPT !.pc = "answered", !.claim = c,
                                 !.seen = Len(records)]
    BY <1>15 DEF Verifies, Verdicts
  <2>2. call' = [pc |-> "answered", op |-> "verify", claim |-> c,
                 seen |-> Len(records), at |-> 0]
    BY <2>1 DEF NoCall
  <2>3. call' \in [pc : {"idle", "answered", "stamped"}, op : Operations,
                   claim : Claims, seen : Nat, at : Nat]
    BY <2>2 DEF Operations
  <2> QED
    BY <1>15, <2>3 DEF Verifies, machine
<1>16. CASE Locates
  <2>1. Says("runtimeMatched", "false") \in Claims
    BY SaysType DEF Facts, Values
  <2> QED
    BY <1>16, <2>1 DEF Locates, NoCall, Operations, machine
<1>17. CASE CallRefused \/ CallStamped \/ CallRecorded
  <2>1. NoCall \in [pc : {"idle", "answered", "stamped"}, op : Operations,
                    claim : Claims, seen : Nat, at : Nat]
    BY DEF NoCall, Operations
  <2> QED
    BY <1>17, <2>1 DEF CallRefused, CallStamped, CallRecorded, machine
<1>18. CASE Crash
  <2>1. NoCall \in [pc : {"idle", "answered", "stamped"}, op : Operations,
                    claim : Claims, seen : Nat, at : Nat]
    BY DEF NoCall, Operations
  <2>2. Resumed \in [pc : {"idle", "dispatched", "answered", "stamped",
                          "recorded"}, plan : Plans \cup {None},
                    saved : {"null", "true"}, seen : Nat, at : Nat]
    BY DEF Resumed
  <2>3. (Resumed.pc = "idle") = (Resumed.plan = None)
    BY DEF Resumed
  <2>4. save' \in [pc : {"none", "pending", "written", "checked", "stamped",
                        "recorded"}, input : Nat, at : Nat]
    BY <1>18 DEF Crash
  <2>5. apply' = Resumed /\ call' = NoCall
    BY <1>18 DEF Crash
  <2>6. /\ mode' = "providers" /\ crashes' = crashes + 1
        /\ UNCHANGED <<input, player, plan, done, clock>>
    BY <1>18 DEF Crash, machine
  <2>7. crashes' \in Nat
    BY <2>6
  <2> QED
    BY <2>1, <2>2, <2>3, <2>4, <2>5, <2>6, <2>7
<1>19. CASE ProvidersRecovered \/ Serves
  BY <1>19 DEF ProvidersRecovered, Serves, machine
<1>20. CASE UNCHANGED vars
  BY <1>20 DEF vars
<1> QED
  BY <1>4, <1>5, <1>6, <1>7, <1>8, <1>9, <1>10, <1>11, <1>12, <1>13, <1>14,
     <1>15, <1>16, <1>17, <1>18, <1>19, <1>20 DEF Next

\* What a step may do to the save, the apply and the call, whose action it is
\* or is not.
Moves ==
  /\ clock' \in Nat /\ clock <= clock' /\ input' \in Nat /\ input <= input'
  /\ save'.at <= clock' /\ apply'.at <= clock' /\ call'.at <= clock'
  /\ save'.input <= input'
  /\ save'.pc = "stamped" => save' = save \/ SaveStamped
  /\ call'.pc = "stamped" => call' = call \/ CallStamped
  /\ apply'.pc = "stamped" => apply' = apply \/ ApplyStamped
  /\ apply'.pc = "recorded" => apply' = apply \/ ApplyRecorded
  /\ \/ apply'.pc = "idle" /\ apply'.plan = None
     \/ ApplyStarts /\ apply'.plan = plan
     \/ /\ apply.pc # "idle" /\ apply'.plan = apply.plan
        /\ apply'.seen = apply.seen

LEMMA StepMoves ==
  ASSUME IInv, [Next]_vars
  PROVE  Moves
<1>1. /\ clock \in Nat /\ input \in Nat /\ \A n \in Nat : 0 <= n
      /\ \A now \in Now : now \in Nat /\ clock <= now
  BY DEF IInv, TypeOK, Now
<1>2. /\ save.at \in Nat /\ save.at <= clock /\ save.input \in Nat
      /\ save.input <= input
      /\ apply.at \in Nat /\ apply.at <= clock
      /\ call.at \in Nat /\ call.at <= clock
  BY DEF IInv, TypeOK, PendingStamps, NothingNewer
<1>3. (apply.pc = "idle") = (apply.plan = None)
  BY DEF IInv, TypeOK
<1>4. /\ DOMAIN save = {"pc", "input", "at"}
      /\ DOMAIN apply = {"pc", "plan", "saved", "seen", "at"}
      /\ DOMAIN call = {"pc", "op", "claim", "seen", "at"}
  BY DEF IInv, TypeOK
<1> USE <1>1, <1>2, <1>3, <1>4 DEF Moves
<1>5. CASE EditAccepted
  BY <1>5 DEF EditAccepted, NoSave, machine
<1>6. CASE EditorSaves
  BY <1>6 DEF EditorSaves, NoSave
<1>7. CASE SomebodyEdits \/ PlayerApplies
  BY <1>7 DEF SomebodyEdits, PlayerApplies
<1>8. CASE SaveChecked \/ SaveStamped \/ SaveRecorded
  <2>1. CASE SaveChecked
    BY <2>1 DEF SaveChecked, machine
  <2>2. CASE SaveStamped
    <3>1. PICK now \in Now :
            clock' = now /\ save' = [save EXCEPT !.pc = "stamped", !.at = now]
      BY <2>2 DEF SaveStamped
    <3>2. UNCHANGED <<input, apply, call>>
      BY <2>2 DEF SaveStamped, machine
    <3>3. save'.at = now /\ save'.input = save.input
      BY <3>1
    <3> QED
      BY <2>2, <3>1, <3>2, <3>3
  <2>3. CASE SaveRecorded
    BY <2>3 DEF SaveRecorded, machine
  <2> QED
    BY <1>8, <2>1, <2>2, <2>3
<1>9. CASE SaveRow \/ SaveFails
  BY <1>9 DEF SaveRow, SaveFails, NoSave, machine
<1>10. CASE Prepares
  BY <1>10 DEF Prepares, machine
<1>11. CASE ApplyStarts
  BY <1>11 DEF ApplyStarts, NoApply, machine
<1>12. CASE ApplyAnswered
  BY <1>12 DEF ApplyAnswered, machine
<1>13. CASE ApplyStamped \/ ApplyRecorded
  <2>1. CASE ApplyStamped
    <3>1. PICK now \in Now :
            clock' = now /\ apply' = [apply EXCEPT !.pc = "stamped", !.at = now]
      BY <2>1 DEF ApplyStamped
    <3>2. UNCHANGED <<input, save, call>> /\ apply.pc # "idle"
      BY <2>1 DEF ApplyStamped, machine
    <3>3. apply'.at = now /\ apply'.plan = apply.plan /\ apply'.seen = apply.seen
      BY <3>1
    <3> QED
      BY <2>1, <3>1, <3>2, <3>3
  <2>2. CASE ApplyRecorded
    BY <2>2 DEF ApplyRecorded, machine
  <2> QED
    BY <1>13, <2>1, <2>2
<1>14. CASE ApplyFails \/ ApplyRow
  BY <1>14 DEF ApplyFails, ApplyRow, NoApply, machine
<1>15. CASE Verifies
  BY <1>15 DEF Verifies, NoCall, machine
<1>16. CASE Locates
  BY <1>16 DEF Locates, NoCall, machine
<1>17. CASE CallRefused \/ CallStamped \/ CallRecorded
  <2>1. CASE CallRefused
    BY <2>1 DEF CallRefused, machine, NoCall
  <2>2. CASE CallStamped
    <3>1. PICK now \in Now :
            clock' = now /\ call' = [call EXCEPT !.pc = "stamped", !.at = now]
      BY <2>2 DEF CallStamped
    <3>2. UNCHANGED <<input, save, apply>>
      BY <2>2 DEF CallStamped, machine
    <3>3. call'.at = now
      BY <3>1
    <3> QED
      BY <2>2, <3>1, <3>2, <3>3
  <2>3. CASE CallRecorded
    BY <2>3 DEF CallRecorded, machine, NoCall
  <2> QED
    BY <1>17, <2>1, <2>2, <2>3
<1>18. CASE Crash
  BY <1>18 DEF Crash, Resumed, NoCall, machine
<1>19. CASE ProvidersRecovered \/ Serves
  BY <1>19 DEF ProvidersRecovered, Serves, machine
<1>20. CASE UNCHANGED vars
  BY <1>20 DEF vars
<1> QED
  BY <1>5, <1>6, <1>7, <1>8, <1>9, <1>10, <1>11, <1>12, <1>13,
     <1>14, <1>15, <1>16, <1>17, <1>18, <1>19, <1>20 DEF Next

LEMMA CompletedStep ==
  ASSUME IInv, [Next]_vars
  PROVE  CompletedHasEvidence'
<1> DEFINE E(p) == \E i \in DOMAIN records :
                     /\ records[i].op = "iterate" /\ records[i].plan = p
                     /\ SaysTrue(i, "runtimeMatched")
           F(p) == \E i \in DOMAIN records' :
                     /\ records'[i].op = "iterate" /\ records'[i].plan = p
                     /\ SaysTrue(i, "runtimeMatched")'
<1>1. \A p : E(p) => F(p)
  <2>1. PICK r \in Records : Grows(r)
    BY StepRecords
  <2> QED
    BY <2>1, GrowsEvidence DEF IInv
<1>2. \A p \in done : E(p)
  BY DEF IInv, CompletedHasEvidence
<1>3. \A p \in done' : E(p)
  <2>1. CASE ApplyRow
    <3>1. E(apply.plan)
      BY <2>1 DEF ApplyRow, RowIsDue, IInv, RecordedHasEvidence
    <3> QED
      BY <1>2, <2>1, <3>1 DEF ApplyRow
  <2>2. CASE ~ApplyRow
    <3>1. done' = done
      BY <2>2 DEF Next, vars, EditAccepted, EditorSaves, SomebodyEdits,
         PlayerApplies, SaveChecked, SaveStamped, SaveRecorded, SaveRow,
         SaveFails, Prepares, ApplyStarts, ApplyAnswered, ApplyFails,
         ApplyStamped, ApplyRecorded, Verifies, Locates, CallRefused,
         CallStamped, CallRecorded, Crash, ProvidersRecovered, Serves,
         NoSave, NoApply, NoCall
    <3> QED
      BY <1>2, <3>1
  <2> QED
    BY <2>1, <2>2
<1>4. \A p \in done' : F(p)
  BY <1>1, <1>3
<1> QED
  BY <1>4 DEF CompletedHasEvidence

LEMMA RecordedStep ==
  ASSUME IInv, [Next]_vars
  PROVE  RecordedHasEvidence'
<1> SUFFICES ASSUME apply'.pc = "recorded"
             PROVE  \E i \in DOMAIN records' :
                      /\ records'[i].op = "iterate"
                      /\ records'[i].plan = apply'.plan
                      /\ SaysTrue(i, "runtimeMatched")'
  BY DEF RecordedHasEvidence
<1>1. CASE ApplyRecorded
  <2>1. apply.pc # "idle" /\ apply'.plan = apply.plan
    BY <1>1 DEF ApplyRecorded, IInv, TypeOK
  <2>2. /\ ApplyRecord \in Records /\ ApplyRecord.op = "iterate"
        /\ ApplyRecord.plan = apply.plan
        /\ ApplyRecord.claim["runtimeMatched"] = "true"
    BY <2>1, ApplyType DEF IInv
  <2>3. PICK n \in Nat : AddedAt(n, ApplyRecord)
    BY <1>1, <2>2, ApplyAdds, AppendAdds DEF IInv
  <2>4. n \in DOMAIN records' /\ records'[n] = ApplyRecord
    BY <2>3 DEF AddedAt
  <2> QED
    BY <2>1, <2>2, <2>4 DEF SaysTrue
<1>2. CASE ~ApplyRecorded
  <2>1. apply' = apply
    BY <1>2, StepMoves DEF Moves
  <2>2. PICK r \in Records : Grows(r)
    BY StepRecords
  <2> QED
    BY <2>1, <2>2, GrowsEvidence DEF IInv, RecordedHasEvidence
<1> QED
  BY <1>1, <1>2

LEMMA CallStep ==
  ASSUME IInv, [Next]_vars
  PROVE  CallHolds'
<1>1. PICK r \in Records : Grows(r)
  BY StepRecords
<1>2. CASE call' = call
  <2>1. call.pc # "idle" => save'.pc \in {"none", "pending", "written"}
    BY <1>2 DEF IInv, CallHolds, TypeOK, Next, vars, EditAccepted,
       EditorSaves, SomebodyEdits, PlayerApplies, SaveChecked, SaveStamped,
       SaveRecorded, SaveRow, SaveFails, Prepares, ApplyStarts,
       ApplyAnswered, ApplyFails, ApplyStamped, ApplyRecorded, ApplyRow,
       Verifies, Locates, CallRefused, CallStamped, CallRecorded, Crash,
       ProvidersRecovered, Serves, MayRefresh, NoSave, NoApply, NoCall
  <2> QED
    BY <1>1, <1>2, <2>1, GrowsUnderCall DEF IInv, CallHolds, Clears
<1>3. CASE Verifies \/ Locates
  <2>1. Len(records) \in Nat /\ DOMAIN records = 1 .. Len(records)
    BY DEF IInv, TypeOK
  <2>2. /\ records' = records /\ save' = save
        /\ save.pc \in {"none", "pending", "written"}
    BY <1>3 DEF Verifies, Locates, LockIsFree, task, NoCall
  <2>3. /\ call'.op \in {"verify", "source.locate"}
        /\ call'.seen = Len(records)
        /\ call'.claim["sourceSaved"] = "null"
        /\ call'.claim["runtimeMatched"] # "true"
    BY <1>3 DEF Verifies, Locates, Verdicts, NoCall, Says, Silent, Facts
  <2> QED
    BY <2>1, <2>2, <2>3 DEF CallHolds
<1>4. CASE CallStamped
  BY <1>4 DEF CallStamped, CallHolds, IInv, TypeOK, task, Clears
<1>5. CASE call' = NoCall
  BY <1>5 DEF CallHolds, NoCall, Silent, Facts
<1> QED
  BY <1>2, <1>3, <1>4, <1>5 DEF Next, vars, EditAccepted, EditorSaves,
     SomebodyEdits, PlayerApplies, SaveChecked, SaveStamped, SaveRecorded,
     SaveRow, SaveFails, Prepares, ApplyStarts, ApplyAnswered, ApplyFails,
     ApplyStamped, ApplyRecorded, ApplyRow, CallRefused, CallRecorded, Crash,
     ProvidersRecovered, Serves, NoSave, NoApply

LEMMA PendingStep ==
  ASSUME IInv, [Next]_vars
  PROVE  PendingStamps'
<1>1. clock \in Nat /\ Moves
  BY StepMoves DEF IInv, TypeOK
<1>2. \A i \in DOMAIN records :
        records[i].at \in Nat /\ records[i].at <= clock
  BY StampTypes DEF IInv, StampsOrder
<1>3. /\ save'.at <= clock' /\ apply'.at <= clock' /\ call'.at <= clock'
  BY <1>1 DEF Moves
<1>4. CASE SaveStamped \/ ApplyStamped \/ CallStamped
  <2>1. records' = records
    BY <1>4 DEF SaveStamped, ApplyStamped, CallStamped, task
  <2>2. clock' \in Nat /\ clock <= clock'
    BY <1>1 DEF Moves
  <2>3. \A i \in DOMAIN records : ~(clock' < records[i].at)
    BY <1>1, <1>2, <2>2
  <2>4. /\ save' = save \/ save'.at = clock'
        /\ apply' = apply \/ apply'.at = clock'
        /\ call' = call \/ call'.at = clock'
    BY <1>4 DEF SaveStamped, ApplyStamped, CallStamped, IInv, TypeOK
  <2> QED
    BY <1>3, <2>1, <2>3, <2>4 DEF IInv, PendingStamps
<1>5. CASE ~(SaveStamped \/ ApplyStamped \/ CallStamped)
  <2>1. /\ save'.pc = "stamped" => save' = save
        /\ apply'.pc = "stamped" => apply' = apply
        /\ call'.pc = "stamped" => call' = call
    BY <1>1, <1>5 DEF Moves
  <2>2. PICK r \in Records : Grows(r)
    BY StepRecords
  <2>3. CASE UNCHANGED task
    BY <1>3, <2>1, <2>3 DEF task, IInv, PendingStamps
  <2>4. CASE Adds(r)
    <3>1. PICK n \in Nat : AddedAt(n, r)
      BY <2>4, AppendAdds DEF IInv
    <3>2. /\ save'.pc = "stamped" => r.op = "iterate"
          /\ call'.pc = "stamped" => r.op = "iterate"
          /\ apply'.pc = "stamped" => r.op # "iterate"
      BY <2>1, <2>4 DEF Adds, Proper
    <3> QED
      BY <1>3, <2>1, <3>1, <3>2 DEF AddedAt, IInv, PendingStamps
  <2> QED
    BY <2>2, <2>3, <2>4 DEF Grows
<1> QED
  BY <1>4, <1>5

LEMMA NewerStep ==
  ASSUME IInv, [Next]_vars
  PROVE  NothingNewer'
<1>1. input \in Nat /\ input' \in Nat /\ input <= input'
  BY StepMoves DEF Moves, IInv, TypeOK
<1>2. \A i \in DOMAIN records' : records'[i].input <= input'
  <2>1. PICK r \in Records : Grows(r)
    BY StepRecords
  <2> QED
    BY <1>1, <2>1, GrowsNotNewer DEF IInv
<1>3. /\ plan # None => plan.input \in Nat
      /\ apply.plan # None => apply.plan.input \in Nat
  BY DEF IInv, TypeOK, Plans
<1>4. \/ plan' = plan \/ plan' = None \/ Prepares
  BY DEF Next, vars, EditAccepted, EditorSaves, SomebodyEdits, PlayerApplies,
     SaveChecked, SaveStamped, SaveRecorded, SaveRow, SaveFails, ApplyStarts,
     ApplyAnswered, ApplyFails, ApplyStamped, ApplyRecorded, ApplyRow,
     Verifies, Locates, CallRefused, CallStamped, CallRecorded, Crash,
     ProvidersRecovered, Serves, NoSave, NoApply, NoCall
<1>5. plan' # None => plan'.input <= input'
  <2>1. CASE Prepares
    BY <1>1, <2>1 DEF Prepares, machine
  <2>2. CASE plan' = plan
    BY <1>1, <1>3, <2>2 DEF IInv, NothingNewer
  <2> QED
    BY <1>4, <2>1, <2>2
<1>6. apply'.plan # None => apply'.plan.input <= input'
  <2>1. apply'.plan \in {apply.plan, plan, None}
    BY StepMoves DEF Moves
  <2> QED
    BY <1>1, <1>3, <2>1 DEF IInv, NothingNewer
<1>7. save'.input <= input'
  BY StepMoves DEF Moves
<1> QED
  BY <1>2, <1>5, <1>6, <1>7 DEF NothingNewer

LEMMA CoversStep ==
  ASSUME IInv, [Next]_vars
  PROVE  ApplyCovers'
<1>1. CASE ApplyStarts
  <2>1. /\ records' = records /\ apply'.plan.input = input
        /\ apply'.seen = Len(records)
    BY <1>1 DEF ApplyStarts, StillValid, NoApply, task, IInv, TypeOK
  <2>2. \A i \in DOMAIN records : records[i].input <= input
    BY DEF IInv, NothingNewer
  <2>3. Len(records) <= Len(records)
    BY DEF IInv, TypeOK
  <2> QED
    BY <2>1, <2>2, <2>3 DEF ApplyCovers, Covered
<1>2. CASE apply'.pc = "idle"
  BY <1>2 DEF ApplyCovers
<1>3. CASE /\ ~ApplyStarts /\ apply'.pc # "idle"
  <2>1. apply.pc # "idle" /\ apply'.plan = apply.plan
        /\ apply'.seen = apply.seen
    BY <1>3, StepMoves DEF Moves
  <2>2. apply.seen \in Nat /\ apply.plan.input \in Nat
    BY <2>1 DEF IInv, TypeOK, Plans
  <2>3. PICK r \in Records : Grows(r)
    BY StepRecords
  <2>4. /\ apply.seen <= Len(records)
        /\ \A i \in DOMAIN records :
             Covered(i, apply.plan.input, apply.seen)
    BY <2>1 DEF IInv, ApplyCovers
  <2>5. Proper(r) => CoveredBy(r, apply.plan.input, apply.seen)
    BY <2>1 DEF Proper
  <2>6. PICK n \in Nat, m \in Nat :
          n = apply.plan.input /\ m = apply.seen
    BY <2>2
  <2>7. /\ m <= Len(records')
        /\ \A i \in DOMAIN records' : Covered(i, n, m)'
    BY <2>3, <2>4, <2>5, <2>6, GrowsCovers DEF IInv
  <2> QED
    BY <2>1, <2>6, <2>7 DEF ApplyCovers, Covered
<1> QED
  BY <1>1, <1>2, <1>3

LEMMA InvariantStep ==
  ASSUME IInv, [Next]_vars
  PROVE  IInv'
<1>1. PICK r \in Records : Grows(r)
  BY StepRecords
<1>2. FactsFollowRecords'
  BY <1>1, GrowsFollow DEF IInv
<1>3. VerdictsFollowSave'
  BY <1>1, GrowsVerdicts DEF IInv
<1>4. OnlyApplies'
  BY <1>1, GrowsOnly DEF IInv
<1>5. RecordsCover'
  BY <1>1, GrowsRecordsCover DEF IInv
<1>6. ClaimsKnown'
  BY <1>1, GrowsClaims DEF IInv
<1>7. StampsOrder'
  BY <1>1, StepMoves, GrowsStamps DEF IInv, Moves
<1> QED
  BY <1>2, <1>3, <1>4, <1>5, <1>6, <1>7, TypeStep, CompletedStep,
     RecordedStep, CallStep, PendingStep, NewerStep, CoversStep DEF IInv

LEMMA InvariantHolds == Spec => []IInv
<1>1. Init => IInv
  <2> SUFFICES ASSUME Init PROVE IInv
    OBVIOUS
  <2>1. TypeOK
    BY SilentType, TaskFactsAssumption
       DEF Init, TypeOK, NoSave, NoApply, NoCall, Operations
  <2>2. FactsFollowRecords
    BY DEF Init, FactsFollowRecords, Silent
  <2>3. StampsOrder /\ PendingStamps /\ ClaimsKnown
    BY DEF Init, StampsOrder, PendingStamps, ClaimsKnown, NoSave, NoApply,
       NoCall
  <2>4. NothingNewer
    BY DEF Init, NothingNewer, NoSave, NoApply
  <2> QED
    BY <2>1, <2>2, <2>3, <2>4 DEF Init, IInv, CompletedHasEvidence,
       RecordedHasEvidence, VerdictsFollowSave, CallHolds, OnlyApplies,
       ApplyCovers, RecordsCover, NoApply, NoCall, Silent, Facts
<1>2. IInv /\ [Next]_vars => IInv'
  BY InvariantStep
<1> QED
  BY <1>1, <1>2, PTL DEF Spec

-----------------------------------------------------------------------------
(* The theorems                                                            *)

\* The variables keep their types, and an apply in progress has its plan.
THEOREM TypeCorrect == Spec => []TypeOK
BY InvariantHolds, PTL DEF IInv

\* What a report shows last of a fact is the fact's value, in whatever order
\* saves, applies, verifications and crashes come, but for records of one
\* millisecond and an apply and a locked command that passed each other: the
\* execute lock keeps the locked commands in order, and an apply has only
\* runtimeMatched to disagree about.
THEOREM ReportAgrees == Spec => []ReportAgreesUnlessPassed
<1>1. IInv => ReportAgreesUnlessPassed
  <2> SUFFICES ASSUME IInv, NEW f \in Facts
               PROVE  /\ (\A i \in DOMAIN records : ~Speaks(i, f)) =>
                           facts[f] = "null"
                      /\ \A j \in DOMAIN records : ShownLast(j, f) =>
                           \/ facts[f] = records[j].claim[f]
                           \/ \E i \in DOMAIN records :
                                /\ i > j /\ Speaks(i, f)
                                /\ facts[f] = records[i].claim[f]
                                /\ \/ records[i].at = records[j].at
                                   \/ f = "runtimeMatched" /\ Passed(i, j)
    BY DEF ReportAgreesUnlessPassed, Passed
  <2>1. (\A i \in DOMAIN records : ~Speaks(i, f)) => facts[f] = "null"
    BY DEF IInv, FactsFollowRecords
  <2>2. ASSUME NEW j \in DOMAIN records, ShownLast(j, f)
        PROVE  \/ facts[f] = records[j].claim[f]
               \/ \E i \in DOMAIN records :
                    /\ i > j /\ Speaks(i, f) /\ facts[f] = records[i].claim[f]
                    /\ \/ records[i].at = records[j].at
                       \/ f = "runtimeMatched" /\ Passed(i, j)
    <3>1. PICK i \in DOMAIN records :
            /\ Speaks(i, f) /\ facts[f] = records[i].claim[f]
            /\ \A k \in DOMAIN records : k > i => ~Speaks(k, f)
      BY <2>2 DEF IInv, FactsFollowRecords, ShownLast
    <3>2. /\ Speaks(j, f) /\ records[i].at <= records[j].at
          /\ records[i].at \in Nat /\ records[j].at \in Nat
          /\ i \in Nat /\ j \in Nat
      BY <2>2, <3>1, StampTypes DEF ShownLast, IInv, TypeOK
    <3>3. i = j \/ i > j
      BY <3>1, <3>2
    <3>4. CASE i > j /\ records[i].at < records[j].at
      <4>1. Passed(j, i) /\ Passed(i, j)
        BY <3>4 DEF IInv, StampsOrder, Passed
      <4>2. CASE f = "sourceSaved"
        BY <3>1, <3>2, <4>2 DEF IInv, ClaimsKnown, Speaks, Clears
      <4>3. CASE f \in Acceptance
        BY <3>1, <3>2, <4>1, <4>3 DEF IInv, ClaimsKnown, Speaks, Clears,
           Passed
      <4> QED
        BY <3>1, <3>4, <4>1, <4>2, <4>3 DEF Facts
    <3>5. CASE i > j /\ records[i].at = records[j].at
      BY <3>1, <3>5
    <3> QED
      BY <3>1, <3>2, <3>3, <3>4, <3>5
  <2> QED
    BY <2>1, <2>2
<1> QED
  BY <1>1, InvariantHolds, PTL

\* A completed iterate row has its evidence, across crashes between the two.
THEOREM CompletedRecorded == Spec => []CompletedHasEvidence
BY InvariantHolds, PTL DEF IInv

\* No save is recorded between the answer of a verification and its record.
THEOREM VerdictsFollow == Spec => []VerdictsFollowSave
BY InvariantHolds, PTL DEF IInv

\* A task whose facts say saved and matched was applied from the saved source
\* or a newer one, unless a save overtook the apply: the check of the source
\* before the apply, the clearing of the facts by a save and the order of the
\* two in the evidence are enough.
THEOREM MatchedIsSaved == Spec => []MatchedMeansSavedUnlessOvertaken
<1>1. IInv => MatchedMeansSavedUnlessOvertaken
  <2> SUFFICES ASSUME IInv, facts["runtimeMatched"] = "true",
                      NEW i \in DOMAIN records, NEW j \in DOMAIN records,
                      LastTrue(i, "sourceSaved"),
                      LastTrue(j, "runtimeMatched"), ~Overtaken(j)
               PROVE  records[j].input >= records[i].input
    BY DEF MatchedMeansSavedUnlessOvertaken
  <2>1. SaysTrue(i, "sourceSaved") /\ SaysTrue(j, "runtimeMatched")
    BY DEF LastTrue
  <2>2. records[j].op = "iterate"
    BY <2>1 DEF IInv, OnlyApplies
  <2>3. records \in Seq(Records)
    BY DEF IInv, TypeOK
  <2>4. i \in Nat /\ j \in Nat /\ records[i] \in Records /\ records[j] \in Records
    BY <2>3
  <2>5. CASE i <= j
    <3>1. Covered(i, records[j].input, records[j].seen)
      BY <2>2, <2>5 DEF IInv, RecordsCover
    <3>2. CASE i > records[j].seen /\ Clears(records[i])
      <4>1. i # j
        BY <2>2, <3>2 DEF Clears
      <4> QED
        BY <2>4, <2>5, <3>2, <4>1 DEF Overtaken
    <3>3. CASE records[i].input <= records[j].input
      BY <2>4, <3>3 DEF Records
    <3> QED
      BY <2>1, <3>1, <3>2, <3>3 DEF Covered
  <2>6. CASE i > j
    <3>1. Speaks(i, "runtimeMatched") /\ Speaks(j, "runtimeMatched")
      BY <2>1 DEF IInv, OnlyApplies, Speaks, SaysTrue
    <3>2. PICK k \in DOMAIN records :
            /\ facts["runtimeMatched"] = records[k].claim["runtimeMatched"]
            /\ \A l \in DOMAIN records :
                 l > k => ~Speaks(l, "runtimeMatched")
      BY <3>1 DEF IInv, FactsFollowRecords, Facts
    <3>3. SaysTrue(k, "runtimeMatched")
      BY <3>2 DEF SaysTrue
    <3>4. k \in Nat /\ ~(i > k) /\ ~(k > j)
      BY <2>3, <3>1, <3>2, <3>3 DEF LastTrue
    <3> QED
      BY <2>4, <2>6, <3>4
  <2> QED
    BY <2>4, <2>5, <2>6
<1> QED
  BY <1>1, InvariantHolds, PTL
=============================================================================
