------------------------- MODULE RuntimeBridgeProofs -------------------------
(***************************************************************************)
(* What RuntimeBridge promises for any number of requests, revisions and   *)
(* losses and any capacity of the table and the queue.  The invariant has  *)
(* five parts, each proved from the ones before it: types and places,      *)
(* the connection, the clock, what was reported, and the fate of requests. *)
(***************************************************************************)
EXTENDS RuntimeBridge, SequenceTheorems, TLAPS

\* Requests in any place were sent, and what is being admitted has its room.
Places ==
  /\ waiting # 0 => waiting \in DOMAIN sent
  /\ wire # 0 => wire \in DOMAIN sent
  /\ serving.pc # "reading" => /\ serving.request \in DOMAIN sent
                               /\ serving.task \in DOMAIN sent
  /\ serving.pc = "admitting" => /\ Len(queue) < MaxPending
                                 /\ Len(table) < MaxTracked
                                 /\ serving.task = serving.request
  /\ \A i \in DOMAIN table : table[i] \in DOMAIN sent
  /\ \A i \in DOMAIN queue : queue[i] \in DOMAIN sent

Typed == TypeOK /\ Places

\* TypeOK by the variables that change together.
HostTyped ==
  /\ hostRev \in Revisions /\ waiting \in 0 .. MaxSends /\ latched \in BOOLEAN
  /\ sent \in Seq([id : Requests, op : {"change", "read"}, expected : Revisions])
  /\ Len(sent) <= MaxSends
  /\ verdicts \in [Requests -> Changes \cup {"none"}]

LinkTyped ==
  /\ link \in {"both", "host", "player", "none"} /\ wire \in 0 .. MaxSends
  /\ back \in [of : 0 .. MaxSends, result : Result]

BridgeTyped ==
  /\ serving \in [pc : {"reading", "admitting", "waiting"},
                  request : 0 .. MaxSends, task : 0 .. MaxSends]
  /\ table \in Seq(Requests) /\ Len(table) <= MaxTracked

ThreadTyped ==
  /\ queue \in Seq(Requests) /\ Len(queue) <= MaxPending
  /\ alive \in BOOLEAN

ClockTyped == revision \in Revisions /\ published \subseteq Revisions

TasksTyped ==
  /\ tasks \in [Requests -> {"none", "queued", "running", "done"}]
  /\ results \in [Requests -> Result]
  /\ runs \in [Requests -> [state : {"none", "running", "ended"},
                            before : Revisions, published : BOOLEAN]]

MiscTyped == losses \in 0 .. MaxLosses /\ async \in BOOLEAN

\* A connection both ends believe in carries the awaited request, or the
\* Player serves it, or its reply is under way; no other carries anything the
\* Host could read.
Connection ==
  /\ back.of # 0 => waiting = back.of
  /\ link \in {"player", "none"} => back.of = 0
  /\ link \in {"host", "none"} => wire = 0 /\ serving = Reading
  /\ serving.pc # "reading" => wire = 0
  /\ link = "both" /\ wire # 0 => waiting = wire
  /\ link = "both" /\ serving.pc # "reading" => waiting = serving.request
  /\ link = "both" /\ back.of # 0 => wire = 0 /\ serving = Reading

\* Whatever names a revision names a published one, and none that was changed
\* is current again.
Clock ==
  /\ {0, revision, hostRev, back.result.after} \subseteq published
  /\ \A y \in DOMAIN sent : sent[y].expected \in published
  /\ \A x \in Requests :
       /\ results[x].after \in published
       /\ runs[x].before \in published
       /\ runs[x].state # "none" => x \in DOMAIN sent
       /\ runs[x].published => /\ runs[x].state # "none"
                               /\ runs[x].before # revision
                               /\ sent[x].expected # revision
                               /\ revision # 0

AllReported == \A x \in Requests : runs[x].published => Reported(x)

\* The awaited request is being served over the awaited connection, or its
\* result is under way.
InService ==
  \/ link = "both" /\ serving.pc # "reading"
  \/ back.of # 0 /\ back.result.code = "completed"

\* Who names the current revision knows every change; and the request in
\* service leaves at most the changes from its own revision to report.
Reports ==
  /\ \A x \in Requests :
       x \notin DOMAIN sent \/ x = waiting => verdicts[x] = "none"
  /\ hostRev = revision => AllReported
  /\ \A y \in DOMAIN sent : sent[y].expected = revision => AllReported
  /\ InService =>
       /\ \A x \in Requests :
            runs[x].published =>
              Reported(x) \/ sent[x].expected = sent[waiting].expected
       /\ \/ revision = sent[waiting].expected
          \/ \A y \in DOMAIN sent : sent[y].expected # revision

\* The handler of x has published nothing and never will.
NeverMore(x) ==
  /\ ~runs[x].published /\ runs[x].state # "running"
  /\ \A i \in DOMAIN queue : queue[i] # x
  /\ wire # x
  /\ ~(serving.pc = "admitting" /\ serving.request = x)

\* What a "no" about x means.
Denied(x) == NeverMore(x) \/ Outrun(x)

\* A request is in one place at a time, and its task, result and handler agree.
Progress ==
  /\ wire # 0 => tasks[wire] = "none"
  /\ serving.pc = "admitting" => tasks[serving.request] = "none"
  /\ \A i \in DOMAIN queue : tasks[queue[i]] = "queued"
  /\ \A i, j \in DOMAIN queue : queue[i] = queue[j] => i = j
  /\ \A x \in Requests :
       /\ x \notin DOMAIN sent => tasks[x] = "none"
       /\ tasks[x] # "done" => results[x] = NoResult
       /\ tasks[x] \in {"none", "queued"} => runs[x].state = "none"
       /\ tasks[x] = "running" => runs[x].state = "running"

Fates ==
  /\ Progress
  /\ \A x \in Requests :
       /\ tasks[x] = "done" /\ results[x].changed = "no" => Denied(x)
       /\ verdicts[x] = "no" => Denied(x)
  /\ serving.pc = "waiting" /\ serving.task # serving.request =>
       NeverMore(serving.request)
  /\ back.of # 0 /\ back.result.changed = "no" => Denied(back.of)

IInv ==
  Typed /\ Connection /\ Clock /\ ChangesOncePerRevision /\ Reports /\ Fates

-----------------------------------------------------------------------------
(* Types and places.                                                         *)

LEMMA Appended ==
  ASSUME NEW S, NEW s \in Seq(S), NEW e \in S
  PROVE  /\ Append(s, e) \in Seq(S) /\ Len(Append(s, e)) = Len(s) + 1
         /\ \A i \in DOMAIN s : i \in DOMAIN Append(s, e) /\ Append(s, e)[i] = s[i]
         /\ \A i \in DOMAIN Append(s, e) : i \in DOMAIN s \/ i = Len(s) + 1
         /\ Append(s, e)[Len(s) + 1] = e
         /\ Len(s) \in Nat /\ DOMAIN s = 1 .. Len(s)
<1>1. /\ Append(s, e) \in Seq(S) /\ Len(Append(s, e)) = Len(s) + 1
      /\ Append(s, e)[Len(s) + 1] = e
      /\ \A i \in 1 .. Len(s) : Append(s, e)[i] = s[i]
  BY AppendProperties
<1>2. /\ Len(s) \in Nat /\ DOMAIN s = 1 .. Len(s)
      /\ DOMAIN Append(s, e) = 1 .. Len(Append(s, e))
  BY <1>1, LenProperties
<1> QED
  BY <1>1, <1>2

LEMMA Tailed ==
  ASSUME NEW S, NEW s \in Seq(S), s # <<>>
  PROVE  /\ Tail(s) \in Seq(S) /\ Len(Tail(s)) = Len(s) - 1
         /\ Head(s) \in S /\ Head(s) = s[1] /\ 1 \in DOMAIN s
         /\ \A i \in DOMAIN Tail(s) : /\ i + 1 \in DOMAIN s /\ i + 1 # 1
                                     /\ Tail(s)[i] = s[i + 1]
                                     /\ i \in Nat
         /\ Len(s) \in Nat
<1>1. /\ Tail(s) \in Seq(S) /\ Len(Tail(s)) = Len(s) - 1
      /\ Head(s) \in S
      /\ \A i \in 1 .. Len(Tail(s)) : Tail(s)[i] = s[i + 1]
  BY HeadTailProperties
<1>2. /\ Len(s) \in Nat \ {0} /\ DOMAIN s = 1 .. Len(s)
      /\ DOMAIN Tail(s) = 1 .. Len(Tail(s))
  BY <1>1, LenProperties, EmptySeq
<1>3. Head(s) = s[1]
  BY <1>2
<1> QED
  BY <1>1, <1>2, <1>3

LEMMA TypedParts ==
  TypeOK <=> /\ HostTyped /\ LinkTyped /\ BridgeTyped /\ ThreadTyped
             /\ ClockTyped /\ TasksTyped /\ MiscTyped
BY DEF TypeOK, HostTyped, LinkTyped, BridgeTyped, ThreadTyped, ClockTyped,
       TasksTyped, MiscTyped

LEMMA TypedPartsNext ==
  TypeOK' <=> /\ HostTyped' /\ LinkTyped' /\ BridgeTyped' /\ ThreadTyped'
              /\ ClockTyped' /\ TasksTyped' /\ MiscTyped'
BY DEF TypeOK, HostTyped, LinkTyped, BridgeTyped, ThreadTyped, ClockTyped,
       TasksTyped, MiscTyped

LEMMA Frames ==
  ASSUME TypeOK
  PROVE  /\ UNCHANGED hostVars => HostTyped'
         /\ UNCHANGED linkVars => LinkTyped'
         /\ UNCHANGED bridgeVars => BridgeTyped'
         /\ UNCHANGED threadVars => ThreadTyped'
         /\ UNCHANGED clockVars => ClockTyped'
         /\ UNCHANGED taskVars => TasksTyped'
         /\ UNCHANGED <<losses, async>> => MiscTyped'
<1>1. UNCHANGED hostVars => HostTyped'
  BY TypedParts DEF HostTyped, hostVars
<1>2. UNCHANGED linkVars => LinkTyped'
  BY TypedParts DEF LinkTyped, linkVars
<1>3. UNCHANGED bridgeVars => BridgeTyped'
  BY TypedParts DEF BridgeTyped, bridgeVars
<1>4. UNCHANGED threadVars => ThreadTyped'
  BY TypedParts DEF ThreadTyped, threadVars
<1>5. UNCHANGED clockVars => ClockTyped'
  BY TypedParts DEF ClockTyped, clockVars
<1>6. UNCHANGED taskVars => TasksTyped'
  BY TypedParts DEF TasksTyped, taskVars
<1>7. UNCHANGED <<losses, async>> => MiscTyped'
  BY TypedParts DEF MiscTyped
<1> QED
  BY <1>1, <1>2, <1>3, <1>4, <1>5, <1>6, <1>7

LEMMA ResultTypes ==
  /\ 0 \in Revisions
  /\ \A c \in Changes : Failed(c) \in Result
  /\ TimedOut \in Result /\ NoResult \in Result
BY BridgeAssumption DEF Revisions, Changes, Failed, Result, TimedOut, NoResult

LEMMA JudgedTypes ==
  ASSUME Typed, NEW x \in Requests, NEW r \in Judged(x)
  PROVE  r \in Result
BY ResultTypes DEF Typed, TypeOK, Judged, Changes, Result

LEMMA SentDomain ==
  ASSUME TypeOK
  PROVE  /\ Len(sent) \in Nat /\ DOMAIN sent = 1 .. Len(sent)
         /\ DOMAIN sent \subseteq Requests /\ 0 \notin DOMAIN sent
         /\ Len(sent) + 1 \notin DOMAIN sent
<1> DEFINE Sends == [id : Requests, op : {"change", "read"}, expected : Revisions]
<1>1. sent \in Seq(Sends) /\ Len(sent) <= MaxSends
  BY DEF TypeOK
<1> HIDE DEF Sends
<1> QED
  BY <1>1, LenProperties, BridgeAssumption DEF Requests

LEMMA SentTyped ==
  ASSUME TypeOK, NEW y \in DOMAIN sent
  PROVE  sent[y] \in [id : Requests, op : {"change", "read"}, expected : Revisions]
<1> DEFINE Sends == [id : Requests, op : {"change", "read"}, expected : Revisions]
<1>1. sent \in Seq(Sends)
  BY DEF TypeOK
<1> HIDE DEF Sends
<1>2. sent[y] \in Sends
  BY <1>1, LenProperties, ElementOfSeq
<1> QED
  BY <1>2 DEF Sends

LEMMA SendTyped ==
  ASSUME Typed, Len(sent) < MaxSends,
         NEW id \in KnownIds \cup {Len(sent) + 1}, NEW op \in {"change", "read"},
         Send(id, op)
  PROVE  /\ sent' \in Seq([id : Requests, op : {"change", "read"},
                           expected : Revisions])
         /\ Len(sent') = Len(sent) + 1
         /\ Len(sent) + 1 \in Requests
         /\ \A y \in DOMAIN sent : y \in DOMAIN sent' /\ sent'[y] = sent[y]
         /\ \A y \in DOMAIN sent' : y \in DOMAIN sent \/ y = Len(sent) + 1
         /\ sent'[Len(sent) + 1].expected = hostRev
<1> DEFINE Sends == [id : Requests, op : {"change", "read"}, expected : Revisions]
           e == [id |-> id, op |-> op, expected |-> hostRev]
<1>1. sent \in Seq(Sends) /\ hostRev \in Revisions
  BY DEF Typed, TypeOK
<1>2. Len(sent) + 1 \in Requests
  BY <1>1, BridgeAssumption DEF Requests
<1>3. id \in Requests
  <2>1. \A y \in DOMAIN sent : sent[y].id \in Requests
    BY SentTyped DEF Typed
  <2> QED
    BY <1>2, <2>1 DEF KnownIds
<1>4. e \in Sends /\ e.expected = hostRev
  BY <1>1, <1>3
<1>5. sent' = Append(sent, e)
  BY DEF Send
<1> HIDE DEF Sends, e
<1>6. /\ Append(sent, e) \in Seq(Sends) /\ Len(Append(sent, e)) = Len(sent) + 1
      /\ \A y \in DOMAIN sent : /\ y \in DOMAIN Append(sent, e)
                               /\ Append(sent, e)[y] = sent[y]
      /\ \A y \in DOMAIN Append(sent, e) : y \in DOMAIN sent \/ y = Len(sent) + 1
      /\ Append(sent, e)[Len(sent) + 1] = e
  BY <1>1, <1>4, Appended
<1>7. sent' \in Seq(Sends)
  BY <1>5, <1>6
<1>8. sent'[Len(sent) + 1].expected = hostRev
  BY <1>4, <1>5, <1>6
<1>9. /\ Len(sent') = Len(sent) + 1
      /\ \A y \in DOMAIN sent : y \in DOMAIN sent' /\ sent'[y] = sent[y]
      /\ \A y \in DOMAIN sent' : y \in DOMAIN sent \/ y = Len(sent) + 1
  BY <1>5, <1>6
<1> QED
  BY <1>2, <1>7, <1>8, <1>9 DEF Sends

LEMMA TypedHolds == Typed /\ [Next]_vars => Typed'
<1> SUFFICES ASSUME Typed, [Next]_vars
             PROVE  TypeOK' /\ Places'
  BY DEF Typed
<1>t. /\ TypeOK /\ Places /\ HostTyped /\ LinkTyped /\ BridgeTyped
      /\ ThreadTyped /\ ClockTyped /\ TasksTyped /\ MiscTyped
  BY TypedParts DEF Typed
<1>1. ASSUME NEW id \in KnownIds \cup {Len(sent) + 1},
             NEW op \in {"change", "read"},
             Invoke(id, op) \/ InvokeOnDeadLink(id, op)
      PROVE  TypeOK' /\ Places'
  <2>1. Send(id, op) /\ Len(sent) < MaxSends /\ waiting = 0
    BY <1>1 DEF Invoke, InvokeOnDeadLink, MaySend
  <2>2. /\ HostTyped' /\ Len(sent) + 1 \in Requests
        /\ \A y \in DOMAIN sent : y \in DOMAIN sent'
    <3>1. hostRev' = hostRev /\ (waiting' = 0 \/ waiting' = Len(sent) + 1)
      BY <1>1, <2>1 DEF Invoke, InvokeOnDeadLink
    <3>2. latched' \in BOOLEAN /\ verdicts' \in [Requests -> Changes \cup {"none"}]
      BY <1>1, <1>t DEF Invoke, InvokeOnDeadLink, HostTyped, Changes
    <3>3. /\ sent' \in Seq([id : Requests, op : {"change", "read"},
                            expected : Revisions])
          /\ Len(sent') = Len(sent) + 1 /\ Len(sent) + 1 \in Requests
          /\ \A y \in DOMAIN sent : y \in DOMAIN sent'
      BY <2>1, SendTyped
    <3>4. waiting' \in 0 .. MaxSends /\ Len(sent') <= MaxSends
      BY <1>t, <2>1, <3>1, <3>3, SentDomain, BridgeAssumption DEF Requests
    <3> QED
      BY <1>t, <3>1, <3>2, <3>3, <3>4 DEF HostTyped
  <2>3. Len(sent) + 1 \in DOMAIN sent'
    <3>1. Len(sent') = Len(sent) + 1
      BY <2>1, SendTyped
    <3>2. DOMAIN sent' = 1 .. Len(sent')
      <4> DEFINE Sends == [id : Requests, op : {"change", "read"},
                           expected : Revisions]
      <4>1. sent' \in Seq(Sends)
        BY <2>1, SendTyped
      <4> HIDE DEF Sends
      <4> QED
        BY <4>1, LenProperties
    <3> QED
      BY <1>t, <3>1, <3>2, SentDomain
  <2>4. LinkTyped'
    BY <1>1, <1>t, <2>2 DEF Invoke, InvokeOnDeadLink, LinkTyped, Requests
  <2>5. Places'
    BY <1>1, <1>t, <2>1, <2>2, <2>3
       DEF Invoke, InvokeOnDeadLink, Places, bridgeVars, threadVars
  <2>6. UNCHANGED <<losses, async, bridgeVars, threadVars, clockVars, taskVars>>
    BY <1>1 DEF Invoke, InvokeOnDeadLink
  <2> QED
    BY <1>t, <2>2, <2>4, <2>5, <2>6, Frames, TypedPartsNext
<1>2. CASE GiveUp \/ ReadError \/ ReadResponse \/ HostRestarts
  <2>1. /\ UNCHANGED <<sent, wire, async, bridgeVars, threadVars, clockVars,
                       taskVars>>
        /\ waiting' = 0
    BY <1>2 DEF GiveUp, ReadError, ReadResponse, HostRestarts, Told
  <2>2. /\ verdicts' \in [Requests -> Changes \cup {"none"}]
        /\ latched' \in BOOLEAN /\ hostRev' \in Revisions
    BY <1>2, <1>t, ResultTypes
       DEF GiveUp, ReadError, ReadResponse, HostRestarts, Told, HostTyped,
           LinkTyped, Changes, Result
  <2>3. HostTyped'
    BY <1>t, <2>1, <2>2, BridgeAssumption DEF HostTyped
  <2>4. LinkTyped'
    BY <1>2, <1>t, <2>1, ResultTypes, BridgeAssumption
       DEF GiveUp, ReadError, ReadResponse, HostRestarts, Discarded, NoReply,
           LinkTyped
  <2>5. MiscTyped'
    BY <1>2, <1>t, <2>1, BridgeAssumption
       DEF GiveUp, ReadError, ReadResponse, HostRestarts, Loss, MiscTyped
  <2>6. Places'
    BY <1>t, <2>1 DEF Places, bridgeVars, threadVars
  <2> QED
    BY <1>t, <2>1, <2>3, <2>4, <2>5, <2>6, Frames, TypedPartsNext
<1>3. CASE Reconnect \/ PlayerDrops \/ NoticeClose
  <2>1. UNCHANGED <<hostVars, async, bridgeVars, threadVars, clockVars, taskVars>>
    BY <1>3 DEF Reconnect, PlayerDrops, NoticeClose
  <2>2. LinkTyped' /\ MiscTyped'
    BY <1>3, <1>t, BridgeAssumption
       DEF Reconnect, PlayerDrops, NoticeClose, Loss, LinkTyped, MiscTyped
  <2>3. Places'
    BY <1>3, <1>t, <2>1
       DEF Reconnect, PlayerDrops, NoticeClose, Places, hostVars, bridgeVars,
           threadVars
  <2> QED
    BY <1>t, <2>1, <2>2, <2>3, Frames, TypedPartsNext
<1>4. CASE AnswerReady \/ AnswerTimesOut
  <2>1. /\ UNCHANGED <<hostVars, wire, losses, async, table, threadVars, clockVars,
                       taskVars>>
        /\ serving' = Reading /\ serving.pc = "waiting"
    BY <1>4 DEF AnswerReady, AnswerTimesOut, Replies
  <2>2. serving.task \in Requests
    BY <1>t, <2>1, SentDomain DEF Places
  <2>3. LinkTyped'
    BY <1>4, <1>t, <2>1, <2>2, ResultTypes
       DEF AnswerReady, AnswerTimesOut, Replies, LinkTyped, BridgeTyped,
           TasksTyped, Changes
  <2>4. BridgeTyped'
    BY <1>t, <2>1, BridgeAssumption DEF BridgeTyped, Reading
  <2>5. Places'
    BY <1>t, <2>1 DEF Places, hostVars, threadVars, Reading
  <2> QED
    BY <1>t, <2>1, <2>3, <2>4, <2>5, Frames, TypedPartsNext
<1>5. ASSUME NEW x \in Requests, Arrives(x),
             ReceiveStale(x) \/ ReceiveRepeated(x) \/ ReceiveTableFull(x)
      PROVE  TypeOK' /\ Places'
  <2>1. /\ wire' = 0 /\ x \in DOMAIN sent
        /\ UNCHANGED <<hostVars, losses, async, threadVars, runs, clockVars, table,
                       tasks, results>>
    BY <1>5, <1>t
       DEF Arrives, ReceiveStale, ReceiveRepeated, ReceiveTableFull, Places,
           clockVars
  <2>2. LinkTyped'
    BY <1>5, <1>t, <2>1, ResultTypes, BridgeAssumption
       DEF ReceiveStale, ReceiveRepeated, ReceiveTableFull, Replies, LinkTyped,
           Changes, Requests
  <2>3. \/ serving' = Reading
        \/ \E i \in DOMAIN table :
             serving' = [pc |-> "waiting", request |-> x, task |-> table[i]]
    BY <1>5 DEF ReceiveStale, ReceiveRepeated, ReceiveTableFull, Replies, Tracked
  <2>4. \A i \in DOMAIN table :
          table[i] \in DOMAIN sent /\ table[i] \in 0 .. MaxSends
    BY <1>t, SentDomain DEF Places, Requests
  <2>5. BridgeTyped'
    BY <1>t, <2>1, <2>3, <2>4, BridgeAssumption DEF BridgeTyped, Reading, Requests
  <2>6. Places'
    BY <1>t, <2>1, <2>3, <2>4 DEF Places, hostVars, threadVars, Reading
  <2> QED
    BY <1>t, <2>1, <2>2, <2>5, <2>6, Frames, TypedPartsNext DEF taskVars
<1>6. ASSUME NEW x \in Requests, ReceiveRefused(x) \/ ReceiveAdmitted(x)
      PROVE  TypeOK' /\ Places'
  <2>1. /\ wire' = 0 /\ x \in DOMAIN sent
        /\ UNCHANGED <<hostVars, losses, async, threadVars, runs, clockVars, link,
                       back>>
    BY <1>6, <1>t
       DEF Arrives, ReceiveRefused, ReceiveAdmitted, Places, clockVars
  <2>2. LinkTyped'
    BY <1>t, <2>1, BridgeAssumption DEF LinkTyped
  <2>3. TasksTyped'
    BY <1>6, <1>t, <2>1, ResultTypes
       DEF ReceiveRefused, ReceiveAdmitted, TasksTyped, Changes
  <2>4. /\ Trimmed \in Seq(Requests) /\ Len(Trimmed) < MaxTracked
        /\ \A i \in DOMAIN Trimmed : Trimmed[i] \in DOMAIN sent
    <3>1. Len(Trimmed) < MaxTracked
      BY <1>6 DEF ReceiveRefused, ReceiveAdmitted, HasRoom
    <3>2. CASE Trimmed = table
      BY <1>t, <3>1, <3>2 DEF BridgeTyped, Places
    <3>3. CASE Len(table) >= MaxTracked /\ Trimmed = Tail(table)
      <4>1. table \in Seq(Requests) /\ table # <<>>
        BY <1>t, <3>3, BridgeAssumption, EmptySeq DEF BridgeTyped
      <4> QED
        BY <1>t, <3>1, <3>3, <4>1, Tailed DEF Places
    <3> QED
      BY <3>2, <3>3 DEF Trimmed
  <2>5. CASE ReceiveRefused(x)
    <3>1. /\ table' = Append(Trimmed, x)
          /\ serving' = [pc |-> "waiting", request |-> x, task |-> x]
      BY <2>5 DEF ReceiveRefused
    <3>2. /\ table' \in Seq(Requests) /\ Len(table') <= MaxTracked
          /\ \A i \in DOMAIN table' : table'[i] \in DOMAIN sent
      BY <2>1, <2>4, <3>1, Appended, BridgeAssumption
    <3>3. BridgeTyped'
      BY <3>1, <3>2 DEF BridgeTyped, Requests
    <3>4. Places'
      BY <1>t, <2>1, <3>1, <3>2 DEF Places, hostVars, threadVars
    <3> QED
      BY <1>t, <2>1, <2>2, <2>3, <3>3, <3>4, Frames, TypedPartsNext
  <2>6. CASE ReceiveAdmitted(x)
    <3>1. /\ table' = Trimmed /\ Len(queue) < MaxPending
          /\ serving' = [pc |-> "admitting", request |-> x, task |-> x]
      BY <2>6 DEF ReceiveAdmitted
    <3>2. BridgeTyped'
      BY <2>4, <3>1, LenProperties, BridgeAssumption DEF BridgeTyped, Requests
    <3>3. Places'
      BY <1>t, <2>1, <2>4, <3>1 DEF Places, hostVars, threadVars
    <3> QED
      BY <1>t, <2>1, <2>2, <2>3, <3>2, <3>3, Frames, TypedPartsNext
  <2> QED
    BY <1>6, <2>5, <2>6
<1>7. CASE Admit
  <2> DEFINE x == serving.request
  <2>1. /\ queue' = Append(queue, x) /\ table' = Append(table, x)
        /\ tasks' = [tasks EXCEPT ![x] = "queued"]
        /\ serving' = [serving EXCEPT !.pc = "waiting"]
        /\ serving.pc = "admitting"
        /\ UNCHANGED <<hostVars, linkVars, losses, async, alive, clockVars, results,
                       runs>>
    BY <1>7 DEF Admit
  <2>2. /\ x \in DOMAIN sent /\ x \in Requests
        /\ Len(queue) < MaxPending /\ Len(table) < MaxTracked
    BY <1>t, <2>1, SentDomain DEF Places
  <2>3. /\ table' \in Seq(Requests) /\ Len(table') <= MaxTracked
        /\ \A i \in DOMAIN table' : table'[i] \in DOMAIN sent
    BY <1>t, <2>1, <2>2, Appended, BridgeAssumption DEF BridgeTyped, Places
  <2>4. /\ queue' \in Seq(Requests) /\ Len(queue') <= MaxPending
        /\ \A i \in DOMAIN queue' : queue'[i] \in DOMAIN sent
    BY <1>t, <2>1, <2>2, Appended, BridgeAssumption DEF ThreadTyped, Places
  <2>5. BridgeTyped'
    BY <1>t, <2>1, <2>3 DEF BridgeTyped
  <2>6. ThreadTyped' /\ TasksTyped'
    BY <1>t, <2>1, <2>2, <2>4 DEF ThreadTyped, TasksTyped
  <2>7. Places'
    BY <1>t, <2>1, <2>3, <2>4 DEF Places, BridgeTyped, hostVars, linkVars
  <2> QED
    BY <1>t, <2>1, <2>5, <2>6, <2>7, Frames, TypedPartsNext
<1>8. ASSUME NEW x \in Requests, Dequeue(x)
      PROVE  TypeOK' /\ Places'
  <2>1. /\ queue # <<>> /\ queue' = Tail(queue)
        /\ UNCHANGED <<hostVars, linkVars, losses, async, bridgeVars, alive,
                       clockVars>>
    BY <1>8 DEF Dequeue, Expire, StartStale, Start, Dequeues, ThreadLeaves
  <2>2. TasksTyped'
    <3>1. CASE Expire(x) \/ StartStale(x)
      BY <1>t, <3>1, ResultTypes
         DEF Expire, StartStale, Completes, TasksTyped, Changes
    <3>2. CASE Start(x)
      BY <1>t, <3>2 DEF Start, TasksTyped, ClockTyped
    <3> QED
      BY <1>8, <3>1, <3>2 DEF Dequeue
  <2>3. /\ queue' \in Seq(Requests) /\ Len(queue') = Len(queue) - 1
        /\ Len(queue) \in Nat
        /\ \A i \in DOMAIN queue' : queue'[i] \in DOMAIN sent
    BY <1>t, <2>1, Tailed DEF ThreadTyped, Places
  <2>4. ThreadTyped'
    BY <1>t, <2>1, <2>3, BridgeAssumption DEF ThreadTyped
  <2>5. Places'
    BY <1>t, <2>1, <2>3, BridgeAssumption DEF Places, hostVars, linkVars, bridgeVars
  <2> QED
    BY <1>t, <2>1, <2>2, <2>4, <2>5, Frames, TypedPartsNext
<1>9. ASSUME NEW x \in Requests, Publish(x) \/ Return(x) \/ Overrun(x)
      PROVE  TypeOK' /\ Places'
  <2>1. UNCHANGED <<hostVars, linkVars, losses, async, bridgeVars, queue, alive>>
    BY <1>9 DEF Publish, Return, Overrun, ThreadLeaves
  <2>2. TasksTyped'
    <3>1. CASE Publish(x)
      BY <1>t, <3>1 DEF Publish, TasksTyped
    <3>2. CASE Return(x)
      BY <1>t, <3>2, JudgedTypes DEF Return, Completes, TasksTyped, Typed
    <3>3. CASE Overrun(x)
      BY <1>t, <3>3, ResultTypes DEF Overrun, Completes, TasksTyped
    <3> QED
      BY <1>9, <3>1, <3>2, <3>3
  <2>3. ClockTyped'
    BY <1>9, <1>t DEF Publish, Return, Overrun, NewRevisions, ClockTyped, clockVars
  <2>4. Places'
    BY <1>t, <2>1 DEF Places, hostVars, linkVars, bridgeVars
  <2> QED
    BY <1>t, <2>1, <2>2, <2>3, <2>4, Frames, TypedPartsNext DEF threadVars
<1>10. CASE Destroy
  <2>1. /\ queue' = <<>> /\ alive' = FALSE
        /\ UNCHANGED <<hostVars, linkVars, losses, async, bridgeVars, clockVars>>
    BY <1>10 DEF Destroy
  <2>2. TasksTyped'
    BY <1>10, <1>t, ResultTypes DEF Destroy, TasksTyped, Changes
  <2>3. ThreadTyped' /\ Places'
    <3>1. queue' \in Seq(Requests) /\ Len(queue') = 0
          /\ \A i \in DOMAIN queue' : FALSE
      BY <2>1, EmptySeq
    <3>2. /\ alive' \in BOOLEAN
          /\ UNCHANGED <<waiting, sent, wire, serving, table>>
      BY <2>1 DEF hostVars, linkVars, bridgeVars
    <3>3. ThreadTyped'
      <4>1. Len(queue') <= MaxPending
        BY <3>1, BridgeAssumption
      <4> QED
        BY <3>1, <3>2, <4>1 DEF ThreadTyped
    <3>4. Places'
      BY <1>t, <3>1, <3>2, BridgeAssumption DEF Places
    <3> QED
      BY <3>3, <3>4
  <2> QED
    BY <1>t, <2>1, <2>2, <2>3, Frames, TypedPartsNext
<1>11. CASE UNCHANGED vars
  <2>1. Places'
    BY <1>t, <1>11
       DEF vars, Places, hostVars, linkVars, bridgeVars, threadVars
  <2> QED
    BY <1>t, <1>11, <2>1, Frames, TypedPartsNext DEF vars
<1> QED
  BY <1>1, <1>2, <1>3, <1>4, <1>5, <1>6, <1>7, <1>8, <1>9, <1>10, <1>11
     DEF Next, HostStep, TransportStep, ThreadStep, ReceiveStale, ReceiveRepeated,
         ReceiveTableFull

-----------------------------------------------------------------------------
(* The connection.                                                           *)

LEMMA ConnectionHolds == Typed /\ Connection /\ [Next]_vars => Connection'
<1> SUFFICES ASSUME Typed, Connection, [Next]_vars
             PROVE  Connection'
  OBVIOUS
<1>t. /\ Places /\ LinkTyped /\ 0 \notin DOMAIN sent /\ Len(sent) \in Nat
  BY TypedParts, SentDomain DEF Typed
<1>1. ASSUME NEW id \in KnownIds \cup {Len(sent) + 1},
             NEW op \in {"change", "read"},
             Invoke(id, op) \/ InvokeOnDeadLink(id, op)
      PROVE  Connection'
  <2>1. waiting = 0 /\ UNCHANGED <<back, serving>>
    BY <1>1 DEF Invoke, InvokeOnDeadLink, MaySend, bridgeVars
  <2>2. back.of = 0
    BY <2>1 DEF Connection
  <2>3. CASE Invoke(id, op)
    <3>1. link = "both" /\ link' = link /\ waiting' = wire'
      BY <2>3 DEF Invoke
    <3>2. serving.pc = "reading"
      BY <1>t, <2>1, <3>1 DEF Connection, Places
    <3> QED
      BY <2>1, <2>2, <3>1, <3>2 DEF Connection
  <2>4. CASE InvokeOnDeadLink(id, op)
    BY <2>1, <2>2, <2>4 DEF InvokeOnDeadLink, Connection
  <2> QED
    BY <1>1, <2>3, <2>4
<1>2. CASE GiveUp \/ HostRestarts
  <2>1. /\ link' = Discarded /\ back' = NoReply /\ waiting' = 0
        /\ UNCHANGED <<wire, serving>>
    BY <1>2 DEF GiveUp, HostRestarts, Told, bridgeVars
  <2> QED
    BY <1>t, <2>1 DEF Connection, Discarded, NoReply, LinkTyped
<1>3. CASE ReadError \/ ReadResponse
  <2>1. /\ back.of # 0 /\ back' = NoReply /\ waiting' = 0
        /\ link' = link \/ link' = Discarded
        /\ UNCHANGED <<wire, serving>>
    BY <1>3 DEF ReadError, ReadResponse, Told, bridgeVars
  <2> QED
    BY <1>t, <2>1 DEF Connection, Discarded, NoReply, LinkTyped, Reading
<1>4. CASE Reconnect \/ PlayerDrops \/ NoticeClose
  BY <1>4, <1>t
     DEF Reconnect, PlayerDrops, NoticeClose, Connection, hostVars, bridgeVars,
         Reading
<1>5. CASE AnswerReady \/ AnswerTimesOut
  <2>1. /\ UNCHANGED <<waiting, wire>> /\ serving.pc = "waiting"
        /\ serving' = Reading
        /\ \/ link = "both" /\ back'.of = serving.request /\ link' = link
           \/ link # "both" /\ link' = "none" /\ back' = back
    BY <1>5 DEF AnswerReady, AnswerTimesOut, Replies, hostVars
  <2> QED
    BY <1>t, <2>1 DEF Connection, Places, Reading, LinkTyped
<1>6. ASSUME NEW x \in Requests, Arrives(x),
             \/ ReceiveStale(x) \/ ReceiveRepeated(x) \/ ReceiveTableFull(x)
             \/ ReceiveRefused(x) \/ ReceiveAdmitted(x)
      PROVE  Connection'
  <2>1. /\ wire = x /\ x # 0 /\ wire' = 0 /\ serving = Reading
        /\ waiting' = waiting
    BY <1>6 DEF Arrives, hostVars
  <2>2. \/ /\ serving' = Reading
           /\ \/ link = "both" /\ back'.of = x /\ link' = link
              \/ link # "both" /\ link' = "none" /\ back' = back
        \/ serving'.request = x /\ serving'.pc # "reading"
           /\ UNCHANGED <<link, back>>
    BY <1>6
       DEF ReceiveStale, ReceiveRepeated, ReceiveTableFull, ReceiveRefused,
           ReceiveAdmitted, Replies
  <2> QED
    BY <1>t, <2>1, <2>2 DEF Connection, Reading, LinkTyped
<1>7. CASE Admit
  <2>1. /\ UNCHANGED <<waiting, link, wire, back>> /\ serving.pc = "admitting"
        /\ serving' = [serving EXCEPT !.pc = "waiting"]
    BY <1>7 DEF Admit, hostVars, linkVars
  <2>2. serving'.pc = "waiting" /\ serving'.request = serving.request
    BY <2>1, TypedParts DEF Typed, BridgeTyped
  <2> QED
    BY <2>1, <2>2 DEF Connection, Reading
<1>8. CASE ThreadStep
  <2>1. UNCHANGED <<waiting, link, wire, back, serving>>
    BY <1>8
       DEF ThreadStep, Destroy, Dequeue, Expire, StartStale, Start, Dequeues,
           Publish, Return, Overrun, ThreadLeaves, hostVars, linkVars, bridgeVars
  <2> QED
    BY <2>1 DEF Connection
<1>9. CASE UNCHANGED vars
  BY <1>9 DEF vars, Connection, hostVars, linkVars, bridgeVars
<1> QED
  BY <1>1, <1>2, <1>3, <1>4, <1>5, <1>6, <1>7, <1>8, <1>9
     DEF Next, HostStep, TransportStep, ReceiveStale, ReceiveRepeated,
         ReceiveTableFull, ReceiveRefused, ReceiveAdmitted

-----------------------------------------------------------------------------
(* The clock.                                                                *)

\* Requests that were sent stay as they are; others are new.
LEMMA SentGrows ==
  ASSUME Typed, [Next]_vars
  PROVE  /\ \A y \in DOMAIN sent : y \in DOMAIN sent' /\ sent'[y] = sent[y]
         /\ \A y \in DOMAIN sent' :
              y \notin DOMAIN sent => sent'[y].expected = hostRev
         /\ waiting # 0 => UNCHANGED sent
<1>1. CASE UNCHANGED sent
  BY <1>1
<1>2. ASSUME NEW id \in KnownIds \cup {Len(sent) + 1},
             NEW op \in {"change", "read"}, Len(sent) < MaxSends, Send(id, op)
      PROVE  /\ \A y \in DOMAIN sent : y \in DOMAIN sent' /\ sent'[y] = sent[y]
             /\ \A y \in DOMAIN sent' :
                  y \notin DOMAIN sent => sent'[y].expected = hostRev
  BY <1>2, SendTyped
<1> QED
  BY <1>1, <1>2
     DEF Next, HostStep, TransportStep, ThreadStep, Invoke, InvokeOnDeadLink,
         MaySend, GiveUp, ReadError, ReadResponse, HostRestarts, Reconnect,
         PlayerDrops, NoticeClose, AnswerReady, AnswerTimesOut, Admit, Arrives,
         ReceiveStale, ReceiveRepeated, ReceiveTableFull, ReceiveRefused,
         ReceiveAdmitted, Destroy, Dequeue, Expire, StartStale, Start, Dequeues,
         Publish, Return, Overrun, ThreadLeaves, vars, hostVars

\* Steps that publish nothing and start no handler.
LEMMA ClockFrame ==
  ASSUME Typed, Clock, [Next]_vars, UNCHANGED clockVars,
         hostRev' \in published, back'.result.after \in published,
         \A x \in Requests : results'[x].after \in published,
         \A x \in Requests :
           /\ runs'[x].before = runs[x].before
           /\ runs'[x].published = runs[x].published
           /\ runs'[x].state # "none" <=> runs[x].state # "none"
  PROVE  Clock'
<1>1. /\ \A y \in DOMAIN sent : y \in DOMAIN sent' /\ sent'[y] = sent[y]
      /\ \A y \in DOMAIN sent' :
           y \notin DOMAIN sent => sent'[y].expected = hostRev
  BY SentGrows
<1>2. UNCHANGED <<revision, published>>
  BY DEF clockVars
<1>3. \A y \in DOMAIN sent' : sent'[y].expected \in published
  BY <1>1 DEF Clock
<1> QED
  BY <1>1, <1>2, <1>3 DEF Clock

LEMMA ClockHolds == Typed /\ Clock /\ [Next]_vars => Clock'
<1> SUFFICES ASSUME Typed, Clock, [Next]_vars
             PROVE  Clock'
  OBVIOUS
<1>t. /\ Places /\ TasksTyped /\ 0 \in published
      /\ DOMAIN sent \subseteq Requests
  BY TypedParts, SentDomain DEF Typed, Clock
<1>1. CASE HostStep
  <2>1. /\ UNCHANGED <<clockVars, taskVars>>
        /\ back' = back \/ back' = NoReply
        /\ hostRev' \in {hostRev, 0, back.result.after}
    BY <1>1
       DEF HostStep, GiveUp, ReadError, ReadResponse, HostRestarts, Invoke,
           InvokeOnDeadLink, hostVars, linkVars
  <2> QED
    BY <2>1, ClockFrame DEF Clock, NoReply, NoResult, taskVars
<1>2. CASE TransportStep
  <2>1. /\ UNCHANGED <<clockVars, hostRev, runs>>
    BY <1>2
       DEF TransportStep, Reconnect, PlayerDrops, NoticeClose, AnswerReady,
           AnswerTimesOut, Admit, Arrives, ReceiveStale, ReceiveRepeated,
           ReceiveTableFull, ReceiveRefused, ReceiveAdmitted, hostVars, taskVars
  <2>2. back'.result.after \in published
    <3>1. CASE AnswerReady
      BY <1>t, <3>1 DEF AnswerReady, Replies, Clock, Places
    <3>2. CASE AnswerTimesOut
      BY <1>t, <3>2 DEF AnswerTimesOut, Replies, Clock, Failed
    <3>3. ASSUME NEW x \in Requests,
                 \/ ReceiveStale(x) \/ ReceiveRepeated(x) \/ ReceiveTableFull(x)
                 \/ ReceiveRefused(x) \/ ReceiveAdmitted(x)
          PROVE  back'.result.after \in published
      BY <1>t, <3>3
         DEF ReceiveStale, ReceiveRepeated, ReceiveTableFull, ReceiveRefused,
             ReceiveAdmitted, Replies, Clock, Failed
    <3>4. CASE Reconnect \/ PlayerDrops \/ NoticeClose \/ Admit
      BY <3>4 DEF Reconnect, PlayerDrops, NoticeClose, Admit, linkVars, Clock
    <3> QED
      BY <1>2, <3>1, <3>2, <3>3, <3>4 DEF TransportStep
  <2>3. \A x \in Requests : results'[x].after \in published
    <3>1. \/ results' = results
          \/ \E x \in Requests, c \in Changes :
               results' = [results EXCEPT ![x] = Failed(c)]
      BY <1>2
         DEF TransportStep, Reconnect, PlayerDrops, NoticeClose, AnswerReady,
             AnswerTimesOut, Admit, Arrives, ReceiveStale, ReceiveRepeated,
             ReceiveTableFull, ReceiveRefused, ReceiveAdmitted, taskVars, Changes
    <3> QED
      BY <1>t, <3>1 DEF Clock, Failed, TasksTyped
  <2> QED
    BY <2>1, <2>2, <2>3, ClockFrame DEF Clock
<1>3. ASSUME NEW x \in Requests, Expire(x) \/ StartStale(x) \/ Overrun(x)
      PROVE  Clock'
  <2>1. /\ UNCHANGED <<clockVars, hostVars, linkVars, runs>>
        /\ results' = [results EXCEPT ![x] = TimedOut]
           \/ results' = [results EXCEPT ![x] = Failed("no")]
    BY <1>3
       DEF Expire, StartStale, Overrun, Dequeues, ThreadLeaves, Completes
  <2>2. \A y \in Requests : results'[y].after \in published
    BY <1>t, <2>1 DEF Clock, TimedOut, Failed, TasksTyped
  <2>3. UNCHANGED <<hostRev, back, clockVars, runs>>
    BY <2>1 DEF hostVars, linkVars
  <2> QED
    BY <2>2, <2>3, ClockFrame DEF Clock
<1>4. ASSUME NEW x \in Requests, Start(x)
      PROVE  Clock'
  <2>1. /\ UNCHANGED <<hostRev, sent, back, revision, published, results>>
        /\ runs' = [runs EXCEPT ![x] = [state |-> "running", before |-> revision,
                                       published |-> FALSE]]
        /\ queue # <<>> /\ x = Head(queue)
    BY <1>4
       DEF Start, Dequeues, ThreadLeaves, clockVars, hostVars, linkVars
  <2>2. x \in DOMAIN sent
    BY <1>t, <2>1, Tailed, TypedParts DEF Typed, ThreadTyped, Places
  <2> QED
    BY <1>t, <2>1, <2>2 DEF Clock, TasksTyped
<1>5. ASSUME NEW x \in Requests, Publish(x)
      PROVE  Clock'
  <2>1. /\ UNCHANGED <<hostRev, sent, back, results>>
        /\ revision' \notin published /\ published' = published \cup {revision'}
        /\ runs' = [runs EXCEPT ![x].published = TRUE]
        /\ runs[x].state = "running" /\ sent[x].expected = revision
    BY <1>5
       DEF Publish, NewRevisions, ThreadLeaves, hostVars, linkVars, IsCurrent
  <2>2. \A y \in Requests : /\ runs'[y].state = runs[y].state
                            /\ runs'[y].before = runs[y].before
                            /\ y # x => runs'[y] = runs[y]
    BY <1>t, <2>1 DEF TasksTyped
  <2>3. /\ \A y \in DOMAIN sent : sent[y].expected # revision'
        /\ \A y \in Requests : runs[y].before # revision'
        /\ revision' # 0
    BY <2>1 DEF Clock
  <2>4. \A y \in Requests : runs[y].state # "none" => y \in DOMAIN sent
    BY DEF Clock
  <2> QED
    BY <1>t, <2>1, <2>2, <2>3, <2>4 DEF Clock
<1>6. ASSUME NEW x \in Requests, Return(x)
      PROVE  Clock'
  <2>1. /\ UNCHANGED <<clockVars, hostRev, back>>
        /\ runs' = [runs EXCEPT ![x].state = "ended"]
        /\ runs[x].state = "running"
        /\ \/ results' = results
           \/ \E r \in Judged(x) : results' = [results EXCEPT ![x] = r]
    BY <1>6 DEF Return, Completes, ThreadLeaves, hostVars, linkVars
  <2>2. \A r \in Judged(x) : r.after \in published
    BY <1>t DEF Judged, Failed, Clock
  <2>3. \A y \in Requests : results'[y].after \in published
    BY <1>t, <2>1, <2>2 DEF Clock, TasksTyped
  <2>4. \A y \in Requests : /\ runs'[y].before = runs[y].before
                            /\ runs'[y].published = runs[y].published
                            /\ runs'[y].state # "none" <=> runs[y].state # "none"
    BY <1>t, <2>1 DEF TasksTyped
  <2> QED
    BY <2>1, <2>3, <2>4, ClockFrame DEF Clock
<1>7. CASE Destroy
  <2>1. /\ UNCHANGED <<clockVars, hostRev, back, runs>>
        /\ \A x \in Requests : results'[x] \in {Failed("null"), results[x]}
    BY <1>7 DEF Destroy, hostVars, linkVars
  <2> QED
    BY <1>t, <2>1, ClockFrame DEF Clock, Failed
<1>8. CASE UNCHANGED vars
  BY <1>8 DEF vars, Clock, hostVars, linkVars, clockVars, taskVars
<1> QED
  BY <1>1, <1>2, <1>3, <1>4, <1>5, <1>6, <1>7, <1>8 DEF Next, ThreadStep, Dequeue

\* A handler changes the runtime only from the revision its request names, and
\* that is current then; afterwards it never is again.
LEMMA ChangesOnce ==
  ASSUME Typed, Clock, ChangesOncePerRevision, [Next]_vars
  PROVE  ChangesOncePerRevision'
<1>t. TasksTyped
  BY TypedParts DEF Typed
<1>1. \A y \in DOMAIN sent : y \in DOMAIN sent' /\ sent'[y] = sent[y]
  BY SentGrows
<1>2. \A y \in Requests : runs[y].published => y \in DOMAIN sent
  BY DEF Clock
<1>3. CASE \A y \in Requests : runs'[y].published => runs[y].published
  BY <1>1, <1>2, <1>3 DEF ChangesOncePerRevision
<1>4. ASSUME NEW x \in Requests, Publish(x)
      PROVE  ChangesOncePerRevision'
  <2>1. /\ UNCHANGED sent /\ sent[x].expected = revision
        /\ \A y \in Requests : runs'[y].published => y = x \/ runs[y].published
    BY <1>4, <1>t DEF Publish, IsCurrent, ThreadLeaves, hostVars, TasksTyped
  <2>2. \A y \in Requests : runs[y].published => sent[y].expected # revision
    BY DEF Clock
  <2> QED
    BY <2>1, <2>2 DEF ChangesOncePerRevision
<1>5. ASSUME ~(\E x \in Requests : Publish(x))
      PROVE  \A y \in Requests : runs'[y].published => runs[y].published
  <2>1. CASE UNCHANGED runs
    BY <2>1
  <2>2. ASSUME NEW x \in Requests, Start(x) \/ Return(x)
        PROVE  \A y \in Requests : runs'[y].published => runs[y].published
    BY <1>t, <2>2 DEF Start, Return, TasksTyped
  <2> QED
    BY <1>5, <2>1, <2>2
       DEF Next, HostStep, TransportStep, ThreadStep, Invoke, InvokeOnDeadLink,
           GiveUp, ReadError, ReadResponse, HostRestarts, Reconnect,
           PlayerDrops, NoticeClose, AnswerReady, AnswerTimesOut, Admit, Arrives,
           ReceiveStale, ReceiveRepeated, ReceiveTableFull, ReceiveRefused,
           ReceiveAdmitted, Destroy, Dequeue, Expire, StartStale, Overrun, vars,
           taskVars
<1> QED
  BY <1>3, <1>4, <1>5
-----------------------------------------------------------------------------
(* What was reported.                                                        *)

\* Everybody is told once: a verdict is never overwritten, so what was reported
\* stays reported.
LEMMA VerdictsStay ==
  ASSUME Typed, Reports, [Next]_vars
  PROVE  /\ \A x \in Requests :
              x \notin DOMAIN sent' \/ x = waiting' => verdicts'[x] = "none"
         /\ \A x \in DOMAIN sent : Reported(x) => Reported(x)'
<1>t. /\ HostTyped /\ Places /\ DOMAIN sent \subseteq Requests
      /\ Len(sent) + 1 \notin DOMAIN sent /\ 0 \notin DOMAIN sent
  BY TypedParts, SentDomain DEF Typed
<1>0. \A x \in Requests :
        x \notin DOMAIN sent \/ x = waiting => verdicts[x] = "none"
  BY DEF Reports
<1>s. \A y \in DOMAIN sent : y \in DOMAIN sent' /\ sent'[y] = sent[y]
  BY SentGrows
<1>1. /\ \A x \in Requests :
           x \notin DOMAIN sent' \/ x = waiting' => verdicts'[x] = "none"
      /\ \A x \in Requests : verdicts[x] = "yes" => verdicts'[x] = "yes"
  <2>1. ASSUME NEW id \in KnownIds \cup {Len(sent) + 1},
               NEW op \in {"change", "read"},
               Invoke(id, op) \/ InvokeOnDeadLink(id, op)
        PROVE  /\ \A x \in Requests :
                    x \notin DOMAIN sent' \/ x = waiting' =>
                      verdicts'[x] = "none"
               /\ \A x \in Requests : verdicts[x] = "yes" => verdicts'[x] = "yes"
    <3>1. /\ Send(id, op) /\ Len(sent) < MaxSends /\ waiting = 0
          /\ \/ waiting' = Len(sent) + 1 /\ verdicts' = verdicts
             \/ waiting' = 0 /\ \E c \in Changes :
                  verdicts' = [verdicts EXCEPT ![Len(sent) + 1] = c]
      BY <2>1 DEF Invoke, InvokeOnDeadLink, MaySend, Changes
    <3>2. Len(sent) + 1 \in DOMAIN sent'
      <4> DEFINE Sends == [id : Requests, op : {"change", "read"},
                           expected : Revisions]
      <4>1. sent' \in Seq(Sends) /\ Len(sent') = Len(sent) + 1
        BY <3>1, SendTyped
      <4> HIDE DEF Sends
      <4>2. DOMAIN sent' = 1 .. Len(sent')
        BY <4>1, LenProperties
      <4> QED
        BY <4>1, <4>2, SentDomain DEF Typed
    <3>3. Len(sent) + 1 \in Requests
      BY <3>1, SendTyped
    <3>4. \A x \in Requests : x \notin DOMAIN sent => verdicts[x] = "none"
      BY <1>0
    <3>5. \A x \in Requests : x \notin DOMAIN sent' => x # Len(sent) + 1
                                                  /\ x \notin DOMAIN sent
      BY <1>s, <3>2
    <3>6. CASE waiting' = Len(sent) + 1 /\ verdicts' = verdicts
      BY <1>t, <3>4, <3>5, <3>6
    <3>7. CASE /\ waiting' = 0
               /\ \E c \in Changes :
                    verdicts' = [verdicts EXCEPT ![Len(sent) + 1] = c]
      <4>1. \A x \in Requests :
              x # Len(sent) + 1 => verdicts'[x] = verdicts[x]
        BY <1>t, <3>7 DEF HostTyped
      <4>2. verdicts[Len(sent) + 1] = "none" /\ 0 \notin Requests
        BY <1>t, <3>3, <3>4, BridgeAssumption DEF Requests
      <4> QED
        BY <3>4, <3>5, <3>7, <4>1, <4>2
    <3> QED
      BY <3>1, <3>6, <3>7
  <2>2. CASE GiveUp \/ ReadError \/ ReadResponse \/ HostRestarts
    <3>1. /\ UNCHANGED sent /\ waiting' = 0
          /\ \A x \in Requests : x # waiting => verdicts'[x] = verdicts[x]
      BY <1>t, <2>2
         DEF GiveUp, ReadError, ReadResponse, HostRestarts, Told, HostTyped
    <3>2. waiting # 0 => waiting \in DOMAIN sent
      BY <1>t DEF Places
    <3> QED
      BY <1>t, <1>0, <3>1, <3>2 DEF Requests
  <2>3. CASE UNCHANGED <<sent, waiting, verdicts>>
    BY <1>0, <2>3
  <2>4. TransportStep \/ ThreadStep \/ UNCHANGED vars =>
          UNCHANGED <<sent, waiting, verdicts>>
    BY DEF TransportStep, ThreadStep, Reconnect, PlayerDrops, NoticeClose,
           AnswerReady, AnswerTimesOut, Admit, Arrives, ReceiveStale,
           ReceiveRepeated, ReceiveTableFull, ReceiveRefused, ReceiveAdmitted,
           Destroy, Dequeue, Expire, StartStale, Start, Dequeues, Publish,
           Return, Overrun, ThreadLeaves, vars, hostVars
  <2> QED
    BY <2>1, <2>2, <2>3, <2>4 DEF Next, HostStep
<1>2. ASSUME NEW x \in DOMAIN sent, Reported(x)
      PROVE  Reported(x)'
  BY <1>t, <1>s, <1>1, <1>2 DEF Reported
<1> QED
  BY <1>1, <1>2

\* Steps after which the clock stands where it stood and the Host no further.
LEMMA ReportsFrame ==
  ASSUME Typed, Clock, Reports, [Next]_vars,
         revision' = revision, hostRev' \in {hostRev, 0},
         \A x \in Requests : runs'[x].published => runs[x].published,
         InService' => /\ waiting' = waiting /\ waiting \in DOMAIN sent
                       /\ InService \/ sent[waiting].expected = revision
  PROVE  Reports'
<1>t. 0 \notin DOMAIN sent
  BY SentDomain DEF Typed
<1>1. /\ \A x \in Requests :
           x \notin DOMAIN sent' \/ x = waiting' => verdicts'[x] = "none"
      /\ \A x \in DOMAIN sent : Reported(x) => Reported(x)'
  BY VerdictsStay
<1>2. /\ \A y \in DOMAIN sent : y \in DOMAIN sent' /\ sent'[y] = sent[y]
      /\ \A y \in DOMAIN sent' :
           y \notin DOMAIN sent => sent'[y].expected = hostRev
  BY SentGrows
<1>3. \A x \in Requests : runs'[x].published => x \in DOMAIN sent /\ revision # 0
  BY DEF Clock
<1>4. AllReported => AllReported'
  BY <1>1, <1>3 DEF AllReported
<1>5. hostRev' = revision' => AllReported'
  <2>1. CASE hostRev' = hostRev
    BY <1>4, <2>1 DEF Reports
  <2>2. CASE hostRev' = 0 /\ revision = 0
    BY <1>3, <2>2 DEF AllReported
  <2> QED
    BY <2>1, <2>2
<1>6. \A y \in DOMAIN sent' : sent'[y].expected = revision' => AllReported'
  BY <1>2, <1>4 DEF Reports
<1>7. ASSUME InService'
      PROVE  /\ \A x \in Requests :
                  runs'[x].published =>
                    Reported(x)' \/ sent'[x].expected = sent'[waiting'].expected
             /\ \/ revision' = sent'[waiting'].expected
                \/ \A y \in DOMAIN sent' : sent'[y].expected # revision'
  <2>1. /\ waiting' = waiting /\ waiting \in DOMAIN sent
        /\ sent'[waiting'] = sent[waiting]
    BY <1>2, <1>7
  <2>2. CASE sent[waiting].expected = revision
    <3>1. AllReported'
      BY <1>4, <2>1, <2>2 DEF Reports
    <3> QED
      BY <2>1, <2>2, <3>1 DEF AllReported
  <2>3. CASE InService /\ sent[waiting].expected # revision
    <3>1. /\ \A x \in Requests :
               runs[x].published =>
                 Reported(x) \/ sent[x].expected = sent[waiting].expected
          /\ \A y \in DOMAIN sent : sent[y].expected # revision
      BY <2>3 DEF Reports
    <3>2. \A x \in Requests :
            runs'[x].published =>
              Reported(x)' \/ sent'[x].expected = sent'[waiting'].expected
      BY <1>1, <1>2, <1>3, <2>1, <3>1
    <3>3. UNCHANGED sent
      BY <1>t, <2>1, SentGrows
    <3> QED
      BY <3>1, <3>2, <3>3
  <2> QED
    BY <1>7, <2>2, <2>3
<1> QED
  BY <1>1, <1>5, <1>6, <1>7 DEF Reports

LEMMA ReportsHold ==
  ASSUME Typed, Typed', Connection, Connection', Clock, Reports, [Next]_vars
  PROVE  Reports'
<1>t. /\ Places /\ Places' /\ TasksTyped /\ HostTyped /\ LinkTyped
      /\ 0 \notin DOMAIN sent /\ 0 \notin DOMAIN sent'
      /\ DOMAIN sent \subseteq Requests /\ 0 \notin Requests
  <2>1. Places /\ Places' /\ TasksTyped /\ HostTyped /\ LinkTyped
    BY TypedParts DEF Typed
  <2>2. 0 \notin DOMAIN sent /\ DOMAIN sent \subseteq Requests
    BY SentDomain DEF Typed
  <2>3. 0 \notin DOMAIN sent'
    <3> DEFINE Sends == [id : Requests, op : {"change", "read"},
                         expected : Revisions]
    <3>1. sent' \in Seq(Sends)
      BY DEF Typed, TypeOK
    <3> HIDE DEF Sends
    <3> QED
      BY <3>1, LenProperties
  <2> QED
    BY <2>1, <2>2, <2>3, BridgeAssumption DEF Requests
<1>s. DOMAIN sent \subseteq DOMAIN sent' /\ (waiting # 0 => UNCHANGED sent)
  BY SentGrows
<1>1. CASE HostStep /\ ~ReadResponse
  <2>1. /\ revision' = revision /\ runs' = runs /\ hostRev' \in {hostRev, 0}
        /\ \/ waiting' = 0
           \/ link' = "both" /\ wire' # 0
    BY <1>1, <1>t, SentDomain
       DEF HostStep, GiveUp, ReadError, HostRestarts, Told, Invoke,
           InvokeOnDeadLink, MaySend, clockVars, taskVars, hostVars, Typed
  <2>2. ~InService'
    BY <1>t, <2>1 DEF InService, Connection, Places, Reading
  <2> QED
    BY <2>1, <2>2, ReportsFrame
<1>2. CASE ReadResponse
  <2> DEFINE r == back.result
  <2>1. /\ back.of # 0 /\ r.code = "completed" /\ waiting = back.of
        /\ waiting' = 0 /\ back' = NoReply
        /\ UNCHANGED <<revision, runs, sent, link, serving>>
    BY <1>2
       DEF ReadResponse, Connection, clockVars, taskVars, bridgeVars
  <2>2. /\ waiting \in DOMAIN sent
        /\ \A x \in Requests :
             runs[x].published =>
               Reported(x) \/ sent[x].expected = sent[waiting].expected
    BY <1>t, <2>1 DEF Reports, InService, Places
  <2>3. ~InService'
    BY <1>t, <2>1 DEF InService, Connection, Places, NoReply, Reading
  <2>4. CASE hostRev' = hostRev
    BY <2>1, <2>3, <2>4, ReportsFrame
  <2>5. CASE hostRev' # hostRev
    <3>1. verdicts'[waiting] = "yes"
      BY <1>2, <1>t, <2>2, <2>5 DEF ReadResponse, HostTyped
    <3>2. AllReported'
      <4> SUFFICES ASSUME NEW x \in Requests, runs'[x].published
                   PROVE  Reported(x)'
        BY DEF AllReported
      <4>1. x \in DOMAIN sent
        BY <2>1 DEF Clock
      <4>2. CASE Reported(x)
        BY <4>1, <4>2, VerdictsStay
      <4>3. CASE sent[x].expected = sent[waiting].expected
        BY <2>1, <2>2, <3>1, <4>3 DEF Reported
      <4> QED
        BY <2>1, <2>2, <4>2, <4>3
    <3> QED
      BY <2>3, <3>2, VerdictsStay DEF Reports
  <2> QED
    BY <2>4, <2>5
<1>3. CASE TransportStep
  <2>1. UNCHANGED <<hostVars, clockVars, runs>>
    BY <1>3
       DEF TransportStep, Reconnect, PlayerDrops, NoticeClose, AnswerReady,
           AnswerTimesOut, Admit, Arrives, ReceiveStale, ReceiveRepeated,
           ReceiveTableFull, ReceiveRefused, ReceiveAdmitted, taskVars
  <2>2. UNCHANGED <<hostRev, waiting, sent, revision>>
    BY <2>1 DEF hostVars, clockVars
  <2>3. InService => waiting \in DOMAIN sent
    BY <1>t DEF InService, Connection, Places
  <2>4. InService' => InService \/ /\ waiting \in DOMAIN sent
                                   /\ sent[waiting].expected = revision
    <3>1. CASE Reconnect \/ PlayerDrops \/ NoticeClose
      BY <1>t, <3>1
         DEF Reconnect, PlayerDrops, NoticeClose, InService, Connection, Reading,
             bridgeVars
    <3>2. CASE AnswerReady \/ AnswerTimesOut
      <4>1. /\ serving' = Reading /\ serving.pc = "waiting"
            /\ link # "both" => link' = "none"
        BY <3>2 DEF AnswerReady, AnswerTimesOut, Replies
      <4> QED
        BY <4>1 DEF InService, Connection, Reading
    <3>3. CASE Admit
      BY <3>3 DEF Admit, InService, linkVars
    <3>4. ASSUME NEW x \in Requests,
                 \/ ReceiveStale(x) \/ ReceiveRepeated(x) \/ ReceiveTableFull(x)
                 \/ ReceiveRefused(x) \/ ReceiveAdmitted(x)
          PROVE  InService' => InService \/ /\ waiting \in DOMAIN sent
                                            /\ sent[waiting].expected = revision
      <4>1. wire = x /\ x # 0 /\ x \in DOMAIN sent
        BY <1>t, <3>4
           DEF ReceiveStale, ReceiveRepeated, ReceiveTableFull, ReceiveRefused,
               ReceiveAdmitted, Arrives, Places
      <4>2. \/ /\ serving' = Reading
               /\ \/ back'.result.code = "failed"
                  \/ link' = "none"
            \/ UNCHANGED <<link, back>> /\ IsCurrent(x)
        BY <3>4
           DEF ReceiveStale, ReceiveRepeated, ReceiveTableFull, ReceiveRefused,
               ReceiveAdmitted, Replies, IsNew, Failed
      <4> QED
        BY <4>1, <4>2 DEF InService, Connection, Reading, IsCurrent
    <3> QED
      BY <1>3, <3>1, <3>2, <3>3, <3>4 DEF TransportStep
  <2> QED
    BY <2>1, <2>2, <2>3, <2>4, ReportsFrame
<1>4. CASE ThreadStep \/ UNCHANGED vars
  <2>1. UNCHANGED <<hostRev, waiting, sent, verdicts, link, back, serving>>
    BY <1>4
       DEF ThreadStep, Destroy, Dequeue, Expire, StartStale, Start, Dequeues,
           Publish, Return, Overrun, ThreadLeaves, vars, hostVars, linkVars,
           bridgeVars
  <2>2. InService' => InService /\ waiting \in DOMAIN sent
    BY <1>t, <2>1 DEF InService, Connection, Places
  <2>3. CASE ~(\E x \in Requests : Publish(x))
    <3>1. revision' = revision
      BY <1>4, <2>3
         DEF ThreadStep, Destroy, Dequeue, Expire, StartStale, Start, Dequeues,
             Return, Overrun, vars, clockVars
    <3>2. \A x \in Requests : runs'[x].published => runs[x].published
      <4>1. CASE UNCHANGED runs
        BY <4>1
      <4>2. ASSUME NEW x \in Requests, Start(x) \/ Return(x)
            PROVE  \A y \in Requests : runs'[y].published => runs[y].published
        BY <1>t, <4>2 DEF Start, Return, TasksTyped
      <4> QED
        BY <1>4, <2>3, <4>1, <4>2
           DEF ThreadStep, Destroy, Dequeue, Expire, StartStale, Overrun, vars,
               taskVars
    <3> QED
      BY <2>1, <2>2, <3>1, <3>2, ReportsFrame
  <2>4. ASSUME NEW x \in Requests, Publish(x)
        PROVE  Reports'
    <3>1. /\ sent[x].expected = revision /\ revision' \notin published
          /\ runs[x].state = "running"
          /\ \A y \in Requests : runs'[y].published => y = x \/ runs[y].published
      BY <1>t, <2>4 DEF Publish, IsCurrent, NewRevisions, TasksTyped
    <3>2. /\ hostRev # revision' /\ x \in DOMAIN sent
          /\ \A y \in DOMAIN sent : sent[y].expected # revision'
      BY <3>1 DEF Clock
    <3>3. ASSUME InService'
          PROVE  \A y \in Requests :
                   runs'[y].published =>
                     Reported(y)' \/ sent[y].expected = sent[waiting].expected
      <4>1. /\ \A y \in Requests :
                 runs[y].published =>
                   Reported(y) \/ sent[y].expected = sent[waiting].expected
            /\ \/ revision = sent[waiting].expected
               \/ \A y \in DOMAIN sent : sent[y].expected # revision
        BY <2>2, <3>3 DEF Reports
      <4>2. \A y \in Requests : Reported(y) => Reported(y)'
        BY <2>1 DEF Reported
      <4> QED
        BY <3>1, <3>2, <4>1, <4>2
    <3> QED
      BY <2>1, <3>2, <3>3, VerdictsStay DEF Reports
  <2> QED
    BY <2>3, <2>4
<1> QED
  BY <1>1, <1>2, <1>3, <1>4 DEF Next

-----------------------------------------------------------------------------
(* The fate of a request.                                                    *)

\* Nothing was done about a request that has no task.
LEMMA Untouched ==
  ASSUME Clock, Progress, NEW x \in Requests, tasks[x] = "none"
  PROVE  /\ ~runs[x].published /\ runs[x].state = "none"
         /\ \A i \in DOMAIN queue : queue[i] # x
BY DEF Clock, Progress

\* What a step of the dispatcher takes from the queue is nowhere else.
LEMMA Dequeued ==
  ASSUME Typed, Progress, NEW x \in Requests, Dequeues(x)
  PROVE  /\ x \in DOMAIN sent /\ tasks[x] = "queued"
         /\ \E i \in DOMAIN queue : queue[i] = x
         /\ \A i \in DOMAIN queue' :
              \E j \in DOMAIN queue : queue'[i] = queue[j] /\ queue[j] # x
         /\ \A i, j \in DOMAIN queue' : queue'[i] = queue'[j] => i = j
         /\ UNCHANGED <<sent, wire, back, verdicts, serving>>
<1>1. /\ queue \in Seq(Requests) /\ Places
      /\ queue # <<>> /\ x = Head(queue) /\ queue' = Tail(queue)
      /\ UNCHANGED <<sent, wire, back, verdicts, serving>>
  BY TypedParts
     DEF Typed, ThreadTyped, Dequeues, ThreadLeaves, hostVars, linkVars, bridgeVars
<1>2. /\ x = queue[1] /\ 1 \in DOMAIN queue
      /\ \A i \in DOMAIN queue' : /\ i + 1 \in DOMAIN queue /\ i + 1 # 1
                                  /\ queue'[i] = queue[i + 1] /\ i \in Nat
  BY <1>1, Tailed
<1>3. \A i, j \in DOMAIN queue : queue[i] = queue[j] => i = j
  BY DEF Progress
<1>4. x \in DOMAIN sent /\ tasks[x] = "queued"
  BY <1>1, <1>2 DEF Places, Progress
<1>5. \A i \in DOMAIN queue' :
        \E j \in DOMAIN queue : queue'[i] = queue[j] /\ queue[j] # x
  BY <1>2, <1>3
<1>6. ASSUME NEW i \in DOMAIN queue', NEW j \in DOMAIN queue',
             queue'[i] = queue'[j]
      PROVE  i = j
  <2>1. i + 1 = j + 1
    BY <1>2, <1>3, <1>6
  <2> QED
    BY <1>2, <2>1
<1> QED
  BY <1>1, <1>2, <1>4, <1>5, <1>6

LEMMA ProgressHolds ==
  ASSUME Typed, Connection, Progress, [Next]_vars
  PROVE  Progress'
<1>t. /\ Places /\ TasksTyped /\ BridgeTyped /\ LinkTyped
      /\ DOMAIN sent \subseteq DOMAIN sent'
      /\ DOMAIN sent \subseteq Requests /\ Len(sent) + 1 \notin DOMAIN sent
  BY TypedParts, SentDomain, SentGrows DEF Typed
<1>h. ASSUME UNCHANGED <<serving, queue, tasks, results, runs>>,
             \/ wire' = wire
             \/ wire' = Len(sent) + 1 /\ Len(sent) + 1 \in Requests
      PROVE  Progress'
  <2>1. wire' # 0 => tasks[wire'] = "none"
    BY <1>t, <1>h DEF Progress
  <2> QED
    BY <1>t, <1>h, <2>1 DEF Progress
<1>1. ASSUME NEW id \in KnownIds \cup {Len(sent) + 1},
             NEW op \in {"change", "read"},
             Invoke(id, op) \/ InvokeOnDeadLink(id, op)
      PROVE  Progress'
  <2>1. Len(sent) + 1 \in Requests
    BY <1>1, SendTyped DEF Invoke, InvokeOnDeadLink, MaySend
  <2>2. /\ UNCHANGED <<serving, queue, tasks, results, runs>>
        /\ wire' = wire \/ wire' = Len(sent) + 1
    BY <1>1 DEF Invoke, InvokeOnDeadLink, bridgeVars, threadVars, taskVars
  <2> QED
    BY <1>h, <2>1, <2>2
<1>0. CASE GiveUp \/ ReadError \/ ReadResponse \/ HostRestarts
  <2>1. UNCHANGED <<wire, serving, queue, tasks, results, runs>>
    BY <1>0
       DEF GiveUp, ReadError, ReadResponse, HostRestarts, bridgeVars,
           threadVars, taskVars
  <2> QED
    BY <1>h, <2>1
<1>2. ASSUME UNCHANGED <<queue, tasks, results, runs>>, wire' \in {wire, 0},
             serving'.pc = "admitting" => tasks[serving'.request] = "none"
      PROVE  Progress'
  BY <1>t, <1>2 DEF Progress
<1>3. CASE \/ Reconnect \/ PlayerDrops \/ NoticeClose \/ AnswerReady
           \/ AnswerTimesOut
           \/ \E x \in Requests : ReceiveStale(x) \/ ReceiveRepeated(x)
                                  \/ ReceiveTableFull(x) \/ ReceiveAdmitted(x)
  <2>1. /\ UNCHANGED <<queue, tasks, results, runs>> /\ wire' \in {wire, 0}
        /\ \/ serving' = serving
           \/ serving'.pc # "admitting"
           \/ serving'.request = wire /\ wire # 0
    BY <1>3
       DEF Reconnect, PlayerDrops, NoticeClose, AnswerReady, AnswerTimesOut,
           Arrives, ReceiveStale, ReceiveRepeated, ReceiveTableFull,
           ReceiveAdmitted, Replies, Reading, bridgeVars, threadVars, taskVars
  <2> QED
    BY <1>2, <2>1 DEF Progress
<1>4. ASSUME NEW x \in Requests, ReceiveRefused(x)
      PROVE  Progress'
  <2>1. /\ UNCHANGED <<sent, queue, runs>> /\ wire = x /\ x # 0 /\ wire' = 0
        /\ serving'.pc # "admitting"
        /\ \A y \in Requests : y # x => /\ tasks'[y] = tasks[y]
                                        /\ results'[y] = results[y]
        /\ tasks'[x] = "done" /\ x \in DOMAIN sent /\ tasks[x] = "none"
    BY <1>t, <1>4
       DEF ReceiveRefused, Arrives, hostVars, threadVars, TasksTyped, Places,
           Progress
  <2> QED
    BY <1>t, <2>1 DEF Progress, Places
<1>5. CASE Admit
  <2> DEFINE x == serving.request
  <2>1. /\ UNCHANGED <<sent, wire, runs, results>> /\ serving.pc = "admitting"
        /\ queue' = Append(queue, x) /\ x \in DOMAIN sent /\ x \in Requests
        /\ tasks' = [tasks EXCEPT ![x] = "queued"] /\ tasks[x] = "none"
        /\ serving'.pc = "waiting" /\ wire = 0
    BY <1>t, <1>5
       DEF Admit, hostVars, linkVars, BridgeTyped, Places, Progress, Connection
  <2>2. /\ \A i \in DOMAIN queue' :
             \/ i \in DOMAIN queue /\ queue'[i] = queue[i]
             \/ i = Len(queue) + 1 /\ queue'[i] = x
        /\ \A i \in DOMAIN queue : queue[i] # x
    <3>1. queue \in Seq(Requests)
      BY TypedParts DEF Typed, ThreadTyped
    <3>2. \A i \in DOMAIN queue : queue[i] # x
      BY <2>1 DEF Progress
    <3> QED
      BY <2>1, <3>1, <3>2, Appended
  <2>3. \A i \in DOMAIN queue' : tasks'[queue'[i]] = "queued"
    BY <1>t, <2>1, <2>2 DEF Progress, TasksTyped, Places
  <2>4. \A i, j \in DOMAIN queue' : queue'[i] = queue'[j] => i = j
    BY <2>2 DEF Progress
  <2>5. \A y \in Requests : y # x => tasks'[y] = tasks[y]
    BY <1>t, <2>1 DEF TasksTyped
  <2>6. tasks'[x] = "queued"
    BY <1>t, <2>1 DEF TasksTyped
  <2> HIDE DEF x
  <2> QED
    BY <1>t, <2>1, <2>3, <2>4, <2>5, <2>6 DEF Progress
<1>6. ASSUME NEW x \in Requests, Dequeue(x)
      PROVE  Progress'
  <2>1. /\ x \in DOMAIN sent /\ tasks[x] = "queued"
        /\ \A i \in DOMAIN queue' :
             \E j \in DOMAIN queue : queue'[i] = queue[j] /\ queue[j] # x
        /\ \A i, j \in DOMAIN queue' : queue'[i] = queue'[j] => i = j
        /\ UNCHANGED <<sent, wire, serving>>
    BY <1>6, Dequeued DEF Dequeue, Expire, StartStale, Start
  <2>2. /\ \A y \in Requests : y # x => /\ tasks'[y] = tasks[y]
                                        /\ results'[y] = results[y]
                                        /\ runs'[y] = runs[y]
        /\ \/ tasks'[x] = "done"
           \/ /\ tasks'[x] = "running" /\ runs'[x].state = "running"
              /\ results'[x] = results[x]
    BY <1>t, <1>6
       DEF Dequeue, Expire, StartStale, Start, Completes, TasksTyped
  <2>3. \A i \in DOMAIN queue' : tasks'[queue'[i]] = "queued"
    BY <1>t, <2>1, <2>2 DEF Progress, Places
  <2>4. /\ wire' # 0 => wire # x /\ tasks'[wire'] = "none"
        /\ serving'.pc = "admitting" => tasks'[serving'.request] = "none"
    BY <1>t, <2>1, <2>2 DEF Progress, Places
  <2> QED
    BY <1>t, <2>1, <2>2, <2>3, <2>4 DEF Progress
<1>7. ASSUME NEW x \in Requests, Publish(x) \/ Return(x) \/ Overrun(x)
      PROVE  Progress'
  <2>1. UNCHANGED <<sent, wire, serving, queue>>
    BY <1>7
       DEF Publish, Return, Overrun, ThreadLeaves, hostVars, linkVars, bridgeVars
  <2>2. /\ \A y \in Requests : y # x => /\ tasks'[y] = tasks[y]
                                        /\ results'[y] = results[y]
                                        /\ runs'[y] = runs[y]
        /\ runs[x].state = "running"
        /\ \/ tasks'[x] = tasks[x] /\ results'[x] = results[x]
              /\ runs'[x].state = runs[x].state
           \/ tasks'[x] = tasks[x] /\ results'[x] = results[x]
              /\ tasks[x] # "running"
           \/ tasks[x] = "running" /\ tasks'[x] = "done"
    BY <1>t, <1>7
       DEF Publish, Return, Overrun, Completes, TasksTyped, Progress
  <2>3. tasks[x] \in {"running", "done"}
    BY <1>t, <2>2 DEF Progress, TasksTyped
  <2>4. \A y \in Requests :
          tasks[y] \in {"none", "queued"} => tasks'[y] = tasks[y]
    BY <2>2, <2>3
  <2>5. /\ wire' # 0 => tasks'[wire'] = "none"
        /\ serving'.pc = "admitting" => tasks'[serving'.request] = "none"
        /\ \A i \in DOMAIN queue' : tasks'[queue'[i]] = "queued"
    BY <1>t, <2>1, <2>4 DEF Progress, Places
  <2> QED
    BY <1>t, <2>1, <2>2, <2>3, <2>5 DEF Progress
<1>8. CASE Destroy
  <2>1. /\ UNCHANGED <<sent, wire, serving, runs>> /\ queue' = <<>>
        /\ \A y \in Requests :
             IF tasks[y] = "queued" THEN tasks'[y] = "done"
             ELSE tasks'[y] = tasks[y] /\ results'[y] = results[y]
    BY <1>8 DEF Destroy, hostVars, linkVars, bridgeVars
  <2>2. DOMAIN queue' = {}
    BY <2>1, EmptySeq
  <2>3. /\ wire' # 0 => tasks'[wire'] = "none"
        /\ serving'.pc = "admitting" => tasks'[serving'.request] = "none"
    BY <1>t, <2>1 DEF Progress, Places
  <2> QED
    BY <1>t, <2>1, <2>2, <2>3 DEF Progress
<1>9. CASE UNCHANGED vars
  BY <1>2, <1>9 DEF vars, linkVars, bridgeVars, threadVars, taskVars, Progress
<1> QED
  BY <1>0, <1>1, <1>3, <1>4, <1>5, <1>6, <1>7, <1>8, <1>9
     DEF Next, HostStep, TransportStep, ThreadStep

\* What is denied stays denied: a handler that never began does not begin, one
\* that ended does not go on, and an answer given stays as it is.
LEMMA NeverMoreStays ==
  ASSUME Typed, Progress, NEW x \in DOMAIN sent, NeverMore(x), [Next]_vars
  PROVE  NeverMore(x)'
<1>t. /\ TasksTyped /\ x \in Requests /\ x # Len(sent) + 1 /\ x # 0
  BY TypedParts, SentDomain DEF Typed
<1>0. /\ ~runs[x].published /\ runs[x].state # "running"
      /\ \A i \in DOMAIN queue : queue[i] # x
      /\ wire # x
      /\ ~(serving.pc = "admitting" /\ serving.request = x)
  BY DEF NeverMore
<1>1. ASSUME UNCHANGED <<queue, runs>>, wire' \in {wire, 0, Len(sent) + 1},
             \/ serving' = serving
             \/ serving'.pc # "admitting"
             \/ serving'.request = wire
      PROVE  NeverMore(x)'
  BY <1>t, <1>0, <1>1 DEF NeverMore
<1>2. HostStep \/ UNCHANGED vars =>
        /\ UNCHANGED <<queue, runs, serving>>
        /\ wire' \in {wire, 0, Len(sent) + 1}
  BY DEF HostStep, GiveUp, ReadError, ReadResponse, HostRestarts, Invoke,
         InvokeOnDeadLink, bridgeVars, threadVars, taskVars, linkVars, vars
<1>3. TransportStep /\ ~Admit =>
        /\ UNCHANGED <<queue, runs>> /\ wire' \in {wire, 0}
        /\ \/ serving' = serving
           \/ serving'.pc # "admitting"
           \/ serving'.request = wire
  BY DEF TransportStep, Reconnect, PlayerDrops, NoticeClose, AnswerReady,
         AnswerTimesOut, Arrives, ReceiveStale, ReceiveRepeated, ReceiveTableFull,
         ReceiveRefused, ReceiveAdmitted, Replies, Reading, bridgeVars,
         threadVars, taskVars
<1>4. CASE Admit
  <2>1. /\ UNCHANGED <<wire, runs>> /\ serving.pc = "admitting"
        /\ queue' = Append(queue, serving.request) /\ queue \in Seq(Requests)
        /\ serving.request \in Requests /\ serving'.pc = "waiting"
    BY <1>4, TypedParts, SentDomain
       DEF Admit, linkVars, Typed, ThreadTyped, BridgeTyped, Places
  <2>2. \A i \in DOMAIN queue' : queue'[i] # x
    BY <1>0, <2>1, Appended
  <2> QED
    BY <1>0, <2>1, <2>2 DEF NeverMore
<1>5. ASSUME NEW y \in Requests, Dequeue(y)
      PROVE  NeverMore(x)'
  <2>1. /\ \E i \in DOMAIN queue : queue[i] = y
        /\ \A i \in DOMAIN queue' : \E j \in DOMAIN queue : queue'[i] = queue[j]
        /\ UNCHANGED <<wire, serving>>
    BY <1>5, Dequeued DEF Dequeue, Expire, StartStale, Start
  <2>2. runs'[x] = runs[x]
    BY <1>t, <1>0, <1>5, <2>1
       DEF Dequeue, Expire, StartStale, Start, TasksTyped
  <2> QED
    BY <1>0, <2>1, <2>2 DEF NeverMore
<1>6. ASSUME NEW y \in Requests, Publish(y) \/ Return(y) \/ Overrun(y)
      PROVE  NeverMore(x)'
  <2>1. /\ UNCHANGED <<wire, serving, queue>> /\ runs'[x] = runs[x]
    BY <1>t, <1>0, <1>6
       DEF Publish, Return, Overrun, ThreadLeaves, linkVars, bridgeVars,
           TasksTyped
  <2> QED
    BY <1>0, <2>1 DEF NeverMore
<1>7. CASE Destroy
  <2>1. UNCHANGED <<wire, serving, runs>> /\ DOMAIN queue' = {}
    BY <1>7, EmptySeq DEF Destroy, linkVars, bridgeVars
  <2> QED
    BY <1>0, <2>1 DEF NeverMore
<1> QED
  BY <1>1, <1>2, <1>3, <1>4, <1>5, <1>6, <1>7 DEF Next, ThreadStep

LEMMA DoneStays ==
  ASSUME Typed, Progress, NEW x \in Requests, tasks[x] = "done", [Next]_vars
  PROVE  /\ tasks'[x] = "done" /\ results'[x] = results[x]
         /\ runs[x].state # "none" => runs'[x].state # "none"
<1>t. TasksTyped /\ Places
  BY TypedParts DEF Typed
<1>1. HostStep \/ UNCHANGED vars => UNCHANGED <<tasks, results, runs>>
  BY DEF HostStep, GiveUp, ReadError, ReadResponse, HostRestarts, Invoke,
         InvokeOnDeadLink, taskVars, vars
<1>2. CASE TransportStep
  <2> DEFINE OneStarts ==
               \E y \in Requests :
                 /\ tasks[y] # "done" /\ UNCHANGED runs
                 /\ \E t : tasks' = [tasks EXCEPT ![y] = t]
                 /\ \/ results' = results
                    \/ \E r : results' = [results EXCEPT ![y] = r]
  <2>1. OneStarts \/ UNCHANGED <<tasks, results, runs>>
    <3>1. ASSUME NEW y \in Requests, ReceiveRefused(y)
          PROVE  OneStarts
      BY <1>t, <3>1 DEF ReceiveRefused, Arrives, Progress
    <3>2. CASE Admit
      BY <1>t, <3>2, SentDomain DEF Admit, Progress, Places, Typed
    <3> QED
      BY <1>2, <3>1, <3>2
         DEF TransportStep, Reconnect, PlayerDrops, NoticeClose, AnswerReady,
             AnswerTimesOut, Arrives, ReceiveStale, ReceiveRepeated,
             ReceiveTableFull, ReceiveAdmitted, taskVars
  <2> QED
    BY <1>t, <2>1 DEF TasksTyped
<1>3. ASSUME NEW y \in Requests, Dequeue(y)
      PROVE  /\ tasks'[x] = "done" /\ results'[x] = results[x]
             /\ runs'[x] = runs[x]
  <2>1. tasks[y] = "queued"
    BY <1>3, Dequeued DEF Dequeue, Expire, StartStale, Start
  <2> QED
    BY <1>t, <1>3, <2>1
       DEF Dequeue, Expire, StartStale, Start, Completes, TasksTyped
<1>4. ASSUME NEW y \in Requests, Publish(y) \/ Return(y) \/ Overrun(y)
      PROVE  /\ tasks'[x] = "done" /\ results'[x] = results[x]
             /\ runs[x].state # "none" => runs'[x].state # "none"
  BY <1>t, <1>4 DEF Publish, Return, Overrun, Completes, TasksTyped
<1>5. CASE Destroy
  BY <1>t, <1>5 DEF Destroy
<1> QED
  BY <1>1, <1>2, <1>3, <1>4, <1>5 DEF Next, ThreadStep

LEMMA DeniedStays ==
  ASSUME Typed, Progress, NEW x \in DOMAIN sent, Denied(x), [Next]_vars
  PROVE  Denied(x)'
<1>1. CASE NeverMore(x)
  BY <1>1, NeverMoreStays DEF Denied
<1>2. CASE Outrun(x)
  <2>1. x \in Requests
    BY SentDomain DEF Typed
  <2>2. tasks[x] = "done"
    BY <1>2, <2>1 DEF Outrun, Progress, NoResult
  <2> QED
    BY <1>2, <2>1, <2>2, DoneStays DEF Outrun, Denied
<1> QED
  BY <1>1, <1>2 DEF Denied

\* A task ends with "no" only when its handler never ran, ran and published
\* nothing, or was outrun.
LEMMA Completed ==
  ASSUME Typed, Clock, Progress, [Next]_vars, NEW x \in Requests,
         tasks[x] # "done", tasks'[x] = "done", results'[x].changed = "no"
  PROVE  Denied(x)'
<1>t. TasksTyped /\ Places /\ x # 0 /\ 0 \notin Requests
  BY TypedParts, BridgeAssumption DEF Typed, Requests
<1>1. /\ tasks[x] # "none" =>
           wire # x /\ ~(serving.pc = "admitting" /\ serving.request = x)
      /\ tasks[x] # "queued" => \A i \in DOMAIN queue : queue[i] # x
      /\ tasks[x] \in {"none", "queued"} =>
           runs[x].state = "none" /\ ~runs[x].published
      /\ tasks[x] = "running" => runs[x].state = "running"
  BY <1>t DEF Progress, Clock
<1>2. ~(HostStep \/ UNCHANGED vars)
  BY DEF HostStep, GiveUp, ReadError, ReadResponse, HostRestarts, Invoke,
         InvokeOnDeadLink, taskVars, vars
<1>3. CASE TransportStep
  <2>1. ~Admit
    BY <1>t, BridgeAssumption DEF Admit, TasksTyped
  <2>2. PICK y \in Requests : ReceiveRefused(y)
    BY <1>3, <2>1
       DEF TransportStep, Reconnect, PlayerDrops, NoticeClose, AnswerReady,
           AnswerTimesOut, Arrives, ReceiveStale, ReceiveRepeated,
           ReceiveTableFull, ReceiveAdmitted, taskVars
  <2>3. x = y /\ wire = x
    BY <1>t, <2>2 DEF ReceiveRefused, Arrives, TasksTyped
  <2>4. UNCHANGED <<queue, runs>> /\ wire' = 0 /\ serving'.pc = "waiting"
    BY <2>2 DEF ReceiveRefused, Arrives, threadVars
  <2>5. tasks[x] = "none"
    BY <1>t, <2>3 DEF Progress
  <2> QED
    BY <1>t, <1>1, <2>4, <2>5 DEF Denied, NeverMore
<1>4. ASSUME NEW y \in Requests, Dequeue(y)
      PROVE  Denied(x)'
  <2>1. x = y /\ UNCHANGED runs /\ Dequeues(x)
    BY <1>t, <1>4
       DEF Dequeue, Expire, StartStale, Start, Completes, TasksTyped
  <2>2. /\ tasks[x] = "queued" /\ UNCHANGED <<wire, serving>>
        /\ \A i \in DOMAIN queue' : queue'[i] # x
    BY <2>1, Dequeued
  <2> QED
    BY <1>1, <2>1, <2>2 DEF Denied, NeverMore
<1>5. ASSUME NEW y \in Requests, Return(y)
      PROVE  Denied(x)'
  <2>1. /\ x = y /\ tasks[x] = "running"
        /\ \E r \in Judged(x) : results' = [results EXCEPT ![x] = r]
        /\ runs' = [runs EXCEPT ![x].state = "ended"]
        /\ UNCHANGED <<wire, serving, queue>>
    BY <1>t, <1>5
       DEF Return, Completes, TasksTyped, ThreadLeaves, linkVars, bridgeVars
  <2>2. ~Moved(x)
    BY <1>t, <2>1 DEF Judged, Failed, TasksTyped
  <2>3. ~runs[x].published
    BY <2>2 DEF Moved, Clock
  <2>4. runs'[x].state = "ended" /\ runs'[x].published = runs[x].published
    BY <1>t, <2>1 DEF TasksTyped
  <2> QED
    BY <1>1, <2>1, <2>3, <2>4 DEF Denied, NeverMore
<1>6. ASSUME NEW y \in Requests, Overrun(y)
      PROVE  Denied(x)'
  <2>1. /\ x = y /\ tasks[x] = "running" /\ UNCHANGED runs
        /\ results'[x] = TimedOut
    BY <1>t, <1>6 DEF Overrun, Completes, TasksTyped
  <2> QED
    BY <1>1, <2>1 DEF Denied, Outrun, TimedOut
<1>7. ~(\E y \in Requests : Publish(y)) /\ ~Destroy
  BY DEF Publish, Destroy, Failed
<1> QED
  BY <1>2, <1>3, <1>4, <1>5, <1>6, <1>7 DEF Next, ThreadStep

LEMMA FatesHold ==
  ASSUME Typed, Connection, Clock, Reports, Fates, [Next]_vars
  PROVE  Fates'
<1>t. /\ Progress /\ Places /\ TasksTyped /\ HostTyped /\ BridgeTyped
      /\ 0 \notin DOMAIN sent /\ Len(sent) + 1 \notin DOMAIN sent
      /\ DOMAIN sent \subseteq Requests
  BY TypedParts, SentDomain DEF Typed, Fates
<1>0. Progress'
  BY <1>t, ProgressHolds
<1>s. \A x \in DOMAIN sent : Denied(x) => Denied(x)'
  BY <1>t, DeniedStays
\* Done tasks.
<1>1. ASSUME NEW x \in Requests, tasks'[x] = "done", results'[x].changed = "no"
      PROVE  Denied(x)'
  <2>1. CASE tasks[x] = "done"
    <3>1. x \in DOMAIN sent
      BY <2>1, <1>t DEF Progress
    <3>2. results'[x] = results[x]
      BY <1>t, <2>1, DoneStays
    <3> QED
      BY <1>1, <1>s, <2>1, <3>1, <3>2 DEF Fates
  <2>2. CASE tasks[x] # "done"
    BY <1>1, <1>t, <2>2, Completed
  <2> QED
    BY <2>1, <2>2
\* A request whose frame arrives without a task of its own.
<1>a. ASSUME NEW x \in Requests, Arrives(x), UNCHANGED <<queue, runs>>,
             serving'.pc # "admitting"
      PROVE  NeverMore(x)'
  <2>1. wire = x /\ x # 0 /\ wire' = 0
    BY <1>a DEF Arrives
  <2>2. tasks[x] = "none"
    BY <1>t, <2>1 DEF Progress
  <2> QED
    BY <1>t, <1>a, <2>1, <2>2, Untouched DEF NeverMore
\* Verdicts.
<1>2. ASSUME NEW x \in Requests, verdicts'[x] = "no"
      PROVE  Denied(x)'
  <2>1. CASE verdicts[x] = "no"
    <3>1. x \in DOMAIN sent
      BY <2>1 DEF Reports
    <3> QED
      BY <1>s, <2>1, <3>1 DEF Fates
  <2>2. ASSUME verdicts[x] # "no", ReadError \/ ReadResponse
        PROVE  Denied(x)'
    <3>1. x = waiting /\ back.of = waiting /\ waiting # 0
          /\ back.result.changed = "no"
      BY <1>t, <1>2, <2>2
         DEF ReadError, ReadResponse, Told, Connection, HostTyped
    <3>2. x \in DOMAIN sent
      BY <1>t, <3>1 DEF Places
    <3> QED
      BY <1>s, <3>1, <3>2 DEF Fates
  <2>3. ASSUME verdicts[x] # "no",
               NEW id \in KnownIds \cup {Len(sent) + 1},
               NEW op \in {"change", "read"}, InvokeOnDeadLink(id, op)
        PROVE  Denied(x)'
    <3>1. /\ x = Len(sent) + 1 /\ UNCHANGED <<wire, serving, queue, runs>>
      BY <1>t, <1>2, <2>3
         DEF InvokeOnDeadLink, HostTyped, bridgeVars, threadVars, taskVars
    <3>2. /\ x \notin DOMAIN sent /\ x # 0 /\ tasks[x] = "none"
      BY <1>t, <3>1, BridgeAssumption DEF Progress, Requests
    <3> QED
      BY <1>t, <3>1, <3>2, Untouched DEF Denied, NeverMore, Places
  <2>4. GiveUp \/ HostRestarts => verdicts[x] = "no"
    BY <1>t, <1>2 DEF GiveUp, HostRestarts, Told, HostTyped
  <2>5. TransportStep \/ ThreadStep \/ UNCHANGED vars => verdicts' = verdicts
    BY DEF TransportStep, ThreadStep, Reconnect, PlayerDrops, NoticeClose,
           AnswerReady, AnswerTimesOut, Admit, Arrives, ReceiveStale,
           ReceiveRepeated, ReceiveTableFull, ReceiveRefused, ReceiveAdmitted,
           Destroy, Dequeue, Expire, StartStale, Start, Dequeues, Publish,
           Return, Overrun, ThreadLeaves, vars, hostVars
  <2>6. ASSUME NEW id, NEW op, Invoke(id, op)
        PROVE  verdicts' = verdicts
    BY <2>6 DEF Invoke
  <2> QED
    BY <1>2, <2>1, <2>2, <2>3, <2>4, <2>5, <2>6 DEF Next, HostStep
\* A request that shares the task of another.
<1>3. (serving.pc = "waiting" /\ serving.task # serving.request =>
         NeverMore(serving.request))'
  <2> SUFFICES ASSUME serving'.pc = "waiting", serving'.task # serving'.request
               PROVE  NeverMore(serving.request)'
    OBVIOUS
  <2>0. ASSUME NEW x, serving'.request = x, NeverMore(x)'
        PROVE  NeverMore(serving.request)'
    BY <2>0 DEF NeverMore
  <2>1. CASE serving' = serving
    <3>1. PICK x \in DOMAIN sent : x = serving.request /\ NeverMore(x)
      BY <1>t, <2>1 DEF Fates, Places
    <3>2. NeverMore(x)'
      BY <1>t, <3>1, NeverMoreStays
    <3> QED
      BY <2>0, <2>1, <3>1, <3>2
  <2>2. ASSUME NEW x \in Requests, ReceiveRepeated(x)
        PROVE  NeverMore(serving.request)'
    <3>1. /\ Arrives(x) /\ UNCHANGED <<queue, runs>> /\ serving'.request = x
      BY <2>2 DEF ReceiveRepeated, Replies, Reading, Arrives, threadVars
    <3>2. NeverMore(x)'
      BY <1>a, <3>1
    <3> QED
      BY <2>0, <3>1, <3>2
  <2>3. ~Admit
    BY <1>t DEF Admit, Places, BridgeTyped
  <2>4. \/ serving' = serving \/ Admit
        \/ \E x \in Requests : ReceiveRepeated(x)
    <3>1. HostStep \/ ThreadStep \/ UNCHANGED vars => serving' = serving
      BY DEF HostStep, GiveUp, ReadError, ReadResponse, HostRestarts, Invoke,
             InvokeOnDeadLink, ThreadStep, Destroy, Dequeue, Expire, StartStale,
             Start, Dequeues, Publish, Return, Overrun, ThreadLeaves, vars,
             bridgeVars
    <3>2. Reconnect \/ PlayerDrops \/ NoticeClose => serving' = serving
      BY DEF Reconnect, PlayerDrops, NoticeClose, bridgeVars
    <3>3. ~AnswerReady /\ ~AnswerTimesOut
      BY DEF AnswerReady, AnswerTimesOut, Replies, Reading
    <3>4. ASSUME NEW x \in Requests
          PROVE  ~(ReceiveStale(x) \/ ReceiveTableFull(x) \/ ReceiveRefused(x)
                     \/ ReceiveAdmitted(x))
      BY DEF ReceiveStale, ReceiveTableFull, ReceiveRefused, ReceiveAdmitted,
             Replies, Reading
    <3> QED
      BY <3>1, <3>2, <3>3, <3>4 DEF Next, TransportStep
  <2> QED
    BY <2>1, <2>2, <2>3, <2>4
\* Replies.
<1>4. (back.of # 0 /\ back.result.changed = "no" => Denied(back.of))'
  <2> SUFFICES ASSUME back'.of # 0, back'.result.changed = "no"
               PROVE  Denied(back.of)'
    OBVIOUS
  <2>0. ASSUME NEW x, back'.of = x, Denied(x)'
        PROVE  Denied(back.of)'
    BY <2>0 DEF Denied, NeverMore, Outrun
  <2>1. CASE back' = back
    <3>1. PICK x \in DOMAIN sent : x = back.of /\ Denied(x)
      BY <1>t, <2>1 DEF Fates, Places, Connection
    <3>2. Denied(x)'
      BY <1>s, <3>1
    <3> QED
      BY <2>0, <2>1, <3>1, <3>2
  <2>2. CASE AnswerReady /\ back' # back
    <3>1. /\ serving.pc = "waiting" /\ tasks[serving.task] = "done"
          /\ back'.of = serving.request /\ results[serving.task].changed = "no"
      BY <2>2 DEF AnswerReady, Replies
    <3>2. PICK x \in DOMAIN sent : x = serving.request
      BY <1>t, <3>1 DEF Places
    <3>3. serving.task \in Requests
      BY <1>t, <3>1 DEF Places
    <3>4. Denied(x)
      BY <3>1, <3>2, <3>3 DEF Fates, Denied
    <3>5. Denied(x)'
      BY <1>s, <3>2, <3>4
    <3> QED
      BY <2>0, <3>1, <3>2, <3>5
  <2>3. ASSUME NEW x \in Requests, back' # back,
               ReceiveStale(x) \/ ReceiveRepeated(x) \/ ReceiveTableFull(x)
        PROVE  Denied(back.of)'
    <3>1. /\ Arrives(x) /\ UNCHANGED <<queue, runs>> /\ serving' = Reading
          /\ back'.of = x
      BY <2>3
         DEF ReceiveStale, ReceiveRepeated, ReceiveTableFull, Replies, Arrives,
             threadVars
    <3>2. NeverMore(x)'
      BY <1>a, <3>1 DEF Reading
    <3> QED
      BY <2>0, <3>1, <3>2 DEF Denied
  <2>4. back' # NoReply
    BY DEF NoReply
  <2>5. \/ back' = back \/ AnswerReady
        \/ \E x \in Requests :
             ReceiveStale(x) \/ ReceiveRepeated(x) \/ ReceiveTableFull(x)
    <3>1. HostStep \/ ThreadStep \/ UNCHANGED vars => back' = back
      BY <2>4
         DEF HostStep, GiveUp, ReadError, ReadResponse, HostRestarts, Invoke,
             InvokeOnDeadLink, ThreadStep, Destroy, Dequeue, Expire, StartStale,
             Start, Dequeues, Publish, Return, Overrun, ThreadLeaves, vars,
             linkVars
    <3>2. Reconnect \/ PlayerDrops \/ NoticeClose \/ Admit => back' = back
      BY DEF Reconnect, PlayerDrops, NoticeClose, Admit, linkVars
    <3>3. AnswerTimesOut => back' = back
      BY DEF AnswerTimesOut, Replies, Failed
    <3>4. ASSUME NEW x \in Requests, ReceiveRefused(x) \/ ReceiveAdmitted(x)
          PROVE  back' = back
      BY <3>4 DEF ReceiveRefused, ReceiveAdmitted
    <3> QED
      BY <3>1, <3>2, <3>3, <3>4 DEF Next, TransportStep
  <2> QED
    BY <2>1, <2>2, <2>3, <2>5
<1> QED
  BY <1>0, <1>1, <1>2, <1>3, <1>4 DEF Fates

-----------------------------------------------------------------------------
(* The theorems.                                                             *)

LEMMA InvariantInit == Init => IInv
<1> SUFFICES ASSUME Init
             PROVE  IInv
  OBVIOUS
<1>1. /\ DOMAIN sent = {} /\ DOMAIN table = {} /\ DOMAIN queue = {}
      /\ Len(sent) = 0 /\ Len(table) = 0 /\ Len(queue) = 0
  BY EmptySeq DEF Init
<1>2. TypeOK
  <2>1. 0 \in 0 .. MaxSends /\ 0 \in 0 .. MaxLosses /\ 0 \in Revisions
    BY BridgeAssumption DEF Revisions
  <2>2. /\ HostTyped /\ LinkTyped /\ BridgeTyped /\ ThreadTyped
        /\ ClockTyped /\ TasksTyped /\ MiscTyped
    <3>1. HostTyped
      <4> DEFINE Sends == [id : Requests, op : {"change", "read"},
                           expected : Revisions]
      <4>1. sent \in Seq(Sends)
        BY EmptySeq DEF Init
      <4>2. verdicts \in [Requests -> Changes \cup {"none"}]
        BY DEF Init
      <4>3. /\ hostRev \in Revisions /\ waiting \in 0 .. MaxSends
            /\ latched \in BOOLEAN
        BY <2>1 DEF Init
      <4>4. Len(sent) <= MaxSends
        BY <1>1, BridgeAssumption
      <4> QED
        BY <4>1, <4>2, <4>3, <4>4 DEF HostTyped
    <3>2. LinkTyped /\ MiscTyped
      BY <2>1, ResultTypes DEF Init, LinkTyped, MiscTyped, NoReply
    <3>3. BridgeTyped /\ ThreadTyped
      BY <1>1, <2>1, BridgeAssumption, EmptySeq
         DEF Init, BridgeTyped, ThreadTyped, Reading
    <3>4. ClockTyped /\ TasksTyped
      BY <2>1, ResultTypes DEF Init, ClockTyped, TasksTyped, NoRun
    <3> QED
      BY <3>1, <3>2, <3>3, <3>4
  <2> QED
    BY <2>2, TypedParts
<1>3. Places
  BY <1>1 DEF Init, Places, Reading
<1>4. Connection
  BY DEF Init, Connection, NoReply
<1>5. Clock /\ ChangesOncePerRevision
  BY <1>1
     DEF Init, Clock, ChangesOncePerRevision, NoReply, NoResult, NoRun
<1>6. Reports
  BY <1>1
     DEF Init, Reports, AllReported, InService, NoReply, NoResult, NoRun, Reading
<1>7. Fates
  <2>1. Progress
    BY <1>1 DEF Init, Progress, Reading, NoRun
  <2> QED
    BY <1>1, <2>1 DEF Init, Fates, NoReply, Reading
<1> QED
  BY <1>2, <1>3, <1>4, <1>5, <1>6, <1>7 DEF IInv, Typed

LEMMA InvariantStep == IInv /\ [Next]_vars => IInv'
<1> SUFFICES ASSUME IInv, [Next]_vars
             PROVE  IInv'
  OBVIOUS
<1>1. /\ Typed /\ Connection /\ Clock /\ ChangesOncePerRevision /\ Reports
      /\ Fates
  BY DEF IInv
<1>2. Typed' /\ Connection'
  BY <1>1, TypedHolds, ConnectionHolds
<1>3. Clock' /\ ChangesOncePerRevision'
  BY <1>1, ClockHolds, ChangesOnce
<1>4. Reports' /\ Fates'
  BY <1>1, <1>2, ReportsHold, FatesHold
<1> QED
  BY <1>2, <1>3, <1>4 DEF IInv

LEMMA InvariantHolds == Spec => []IInv
BY InvariantInit, InvariantStep, PTL DEF Spec

\* Every variable keeps its type: the table of tracked requests and the queue of
\* the main thread stay within their capacities.
THEOREM TypeCorrect == Spec => []TypeOK
<1>1. IInv => TypeOK
  BY DEF IInv, Typed
<1> QED
  BY <1>1, InvariantHolds, PTL

\* The reply the Host reads is that of the request it waits for, whatever ids
\* repeat and whatever replies come late.
THEOREM ReplyAwaited == Spec => []ReplyIsAwaited
<1>1. IInv => ReplyIsAwaited
  BY DEF IInv, Connection, ReplyIsAwaited
<1> QED
  BY <1>1, InvariantHolds, PTL

\* Two requests never change the runtime from the same revision, however many
\* handlers are at work and whoever still waits for them.
THEOREM OnceChanged == Spec => []ChangesOncePerRevision
<1>1. IInv => ChangesOncePerRevision
  BY DEF IInv
<1> QED
  BY <1>1, InvariantHolds, PTL

\* A caller that is told "unchanged" is told the truth about its request, unless
\* a deadline outran the handler.
THEOREM Honest == Spec => []HonestUnlessOutrun
<1>1. IInv => HonestUnlessOutrun
  BY DEF IInv, Fates, Denied, NeverMore, HonestUnlessOutrun
<1> QED
  BY <1>1, InvariantHolds, PTL

\* No handler starts on top of a change the Host was not told of.
THEOREM LostChangeStops == Spec => LostChangeStopsTheSession
<1> DEFINE A == \A y \in Requests :
                  runs[y].state = "none" /\ runs'[y].state = "running" =>
                    \A x \in Requests : runs[x].published => Reported(x)
<1>1. IInv /\ [Next]_vars => [A]_vars
  <2> SUFFICES ASSUME IInv, Next, NEW y \in Requests,
                      runs[y].state = "none", runs'[y].state = "running"
               PROVE  AllReported
    BY DEF AllReported
  <2>1. Typed /\ Progress /\ Reports /\ TasksTyped
    BY TypedParts DEF IInv, Fates, Typed
  <2>2. Start(y)
    <3>1. runs' # runs
      OBVIOUS
    <3>2. \E x \in Requests : Start(x) \/ Publish(x) \/ Return(x)
      BY <3>1
         DEF Next, HostStep, GiveUp, ReadError, ReadResponse, HostRestarts,
             Invoke, InvokeOnDeadLink, TransportStep, ThreadStep, Reconnect,
             PlayerDrops, NoticeClose, AnswerReady, AnswerTimesOut, Admit,
             Arrives, ReceiveStale, ReceiveRepeated, ReceiveTableFull,
             ReceiveRefused, ReceiveAdmitted, Destroy, Dequeue, Expire,
             StartStale, Overrun, taskVars
    <3> QED
      BY <2>1, <3>2 DEF Start, Publish, Return, TasksTyped
  <2>3. y \in DOMAIN sent /\ sent[y].expected = revision
    BY <2>1, <2>2, Dequeued DEF Start, IsCurrent
  <2> QED
    BY <2>1, <2>3 DEF Reports
<1> QED
  BY <1>1, InvariantHolds, PTL DEF Spec, LostChangeStopsTheSession
=============================================================================
