----------------------------- MODULE LiveProofs -----------------------------
(***************************************************************************)
(* A live session of any kind, length, chunk and backlog: what it says of  *)
(* its recording and its server when it ends, that only the device fails   *)
(* it while it records, that no audio is recognized out of order and that  *)
(* a streaming session loses none.                                         *)
(***************************************************************************)
EXTENDS LiveSession, SequenceTheorems, TLAPS

USE DEF capVars, mainVars

-----------------------------------------------------------------------------
(* What the session is made of. *)

LTypeOK ==
  /\ kind \in SessionKinds
  /\ stopEvent \in BOOLEAN /\ errors \in BOOLEAN /\ tailed \in BOOLEAN /\ failing \in BOOLEAN
  /\ device \in {"ok", "missing", "broken", "hung"}
  /\ cap \in {"none", "select", "open", "check", "record", "flush", "put", "drop", "again",
              "raise", "end", "done"}
  /\ main \in {"load", "get", "take", "idle", "drain", "feed", "leave", "stop", "join", "release",
               "judge", "end"}
  /\ wav \in {"off", "none", "open", "closed"}
  /\ server \in {"unused", "starting", "up", "dead"}
  /\ result \in {"none", "ok", "fail"}
  /\ recorded \in Nat
  /\ pending \in Seq(Nat) /\ batch \in Seq(Nat) /\ fed \in Seq(Nat)
  /\ chunks \in Seq(Seq(Nat))

\* The capture thread alone fills the queue, so the room it made is still there.
QueueInv ==
  /\ ~Streams => Len(chunks) <= Backlog
  /\ cap = "drop" => ~Streams
  /\ cap = "again" => ~Streams /\ Len(chunks) < Backlog

\* An error is on its way or recorded exactly when the device broke.
DeviceInv ==
  /\ cap = "raise" \/ errors => device = "broken"
  /\ device = "broken" => cap = "raise" \/ errors
  /\ errors => cap \in {"end", "done"}

\* The WAV is opened once, and closed before the thread is over: by the tail or by
\* the exception of a device.
WavInv ==
  /\ main = "load" => cap = "none"
  /\ cap \in {"none", "select", "open"} => wav \in {"off", "none"} /\ ~tailed
  /\ cap \in {"raise", "end", "done"} \/ tailed => wav # "open"
  /\ wav = "closed" => tailed \/ device = "broken"

\* The server is up only while somebody knows of it.
ServerInv ==
  /\ ~HasServer => server = "unused"
  /\ (main # "load" /\ cap = "none") \/ main = "judge" \/ result # "none"
       => server \notin {"starting", "up"}
  /\ result # "none" <=> main = "end"
  /\ result = "ok" => CaptureGone /\ ~errors

Sorted(s)    == \A i, j \in 1..Len(s) : i < j => s[i] < s[j]
Before(s, t) == \A i \in 1..Len(s), j \in 1..Len(t) : s[i] < t[j]
Recorded(s)  == \A i \in 1..Len(s) : s[i] <= recorded

\* The blocks lie in the order of recording: recognized, with the main thread, in
\* the queue from its head on, about to be queued.
OrderInv ==
  /\ Sorted(fed) /\ Sorted(batch) /\ Sorted(pending)
  /\ \A k \in 1..Len(chunks) : Sorted(chunks[k])
  /\ Before(fed, batch) /\ Before(fed, pending) /\ Before(batch, pending)
  /\ \A k \in 1..Len(chunks) :
       Before(fed, chunks[k]) /\ Before(batch, chunks[k]) /\ Before(chunks[k], pending)
  /\ \A k, m \in 1..Len(chunks) : k < m => Before(chunks[k], chunks[m])
  /\ Recorded(fed) /\ Recorded(batch) /\ Recorded(pending)
  /\ \A k \in 1..Len(chunks) : Recorded(chunks[k])

ThreadInv == QueueInv /\ DeviceInv /\ WavInv /\ ServerInv

LInv == LTypeOK /\ ThreadInv /\ OrderInv

-----------------------------------------------------------------------------
(* Blocks in order. *)

\* A sequence put behind another is in order when both are and the one comes before
\* the other.
LEMMA ConcatSorted ==
  ASSUME NEW s \in Seq(Nat), NEW t \in Seq(Nat), Sorted(s), Sorted(t), Before(s, t)
  PROVE  s \o t \in Seq(Nat) /\ Sorted(s \o t)
<1>1. /\ s \o t \in Seq(Nat) /\ Len(s \o t) = Len(s) + Len(t)
      /\ \A i \in 1..Len(s) + Len(t) : (s \o t)[i] = IF i <= Len(s) THEN s[i] ELSE t[i - Len(s)]
      /\ Len(s) \in Nat /\ Len(t) \in Nat
  BY ConcatProperties, LenProperties
<1>2. ASSUME NEW i \in 1..Len(s) + Len(t), NEW j \in 1..Len(s) + Len(t), i < j
      PROVE  (s \o t)[i] < (s \o t)[j]
  <2>1. CASE j <= Len(s)
    BY <1>1, <1>2, <2>1 DEF Sorted
  <2>2. CASE i > Len(s)
    <3>1. i - Len(s) \in 1..Len(t) /\ j - Len(s) \in 1..Len(t) /\ i - Len(s) < j - Len(s)
      BY <1>1, <1>2, <2>2
    <3>2. (s \o t)[i] = t[i - Len(s)] /\ (s \o t)[j] = t[j - Len(s)]
      BY <1>1, <1>2, <2>2
    <3> QED BY <3>1, <3>2 DEF Sorted
  <2>3. CASE i <= Len(s) /\ j > Len(s)
    <3>1. i \in 1..Len(s) /\ j - Len(s) \in 1..Len(t)
      BY <1>1, <1>2, <2>3
    <3>2. (s \o t)[i] = s[i] /\ (s \o t)[j] = t[j - Len(s)]
      BY <1>1, <1>2, <2>3
    <3> QED BY <3>1, <3>2 DEF Before
  <2> QED BY <1>1, <2>1, <2>2, <2>3
<1> QED BY <1>1, <1>2 DEF Sorted

\* It comes before, and after, what both come before, and after.
LEMMA ConcatBefore ==
  ASSUME NEW s \in Seq(Nat), NEW t \in Seq(Nat), NEW u \in Seq(Nat)
  PROVE  /\ Before(s, u) /\ Before(t, u) => Before(s \o t, u)
         /\ Before(u, s) /\ Before(u, t) => Before(u, s \o t)
<1>1. /\ s \o t \in Seq(Nat) /\ Len(s \o t) = Len(s) + Len(t)
      /\ \A i \in 1..Len(s) + Len(t) : (s \o t)[i] = IF i <= Len(s) THEN s[i] ELSE t[i - Len(s)]
      /\ Len(s) \in Nat /\ Len(t) \in Nat
  BY ConcatProperties, LenProperties
<1>2. ASSUME NEW i \in 1..Len(s) + Len(t)
      PROVE  \/ \E j \in 1..Len(s) : (s \o t)[i] = s[j]
             \/ \E j \in 1..Len(t) : (s \o t)[i] = t[j]
  <2>1. CASE i <= Len(s)
    BY <1>1, <2>1
  <2>2. CASE i > Len(s)
    <3>1. i - Len(s) \in 1..Len(t) /\ (s \o t)[i] = t[i - Len(s)]
      BY <1>1, <2>2
    <3> QED BY <3>1
  <2> QED BY <1>1, <2>1, <2>2
<1> QED BY <1>1, <1>2 DEF Before

\* Nothing in it was recorded later than the latest of both.
LEMMA ConcatRecorded ==
  ASSUME NEW s \in Seq(Nat), NEW t \in Seq(Nat), Recorded(s), Recorded(t)
  PROVE  Recorded(s \o t)
<1>1. /\ Len(s \o t) = Len(s) + Len(t)
      /\ \A i \in 1..Len(s) + Len(t) : (s \o t)[i] = IF i <= Len(s) THEN s[i] ELSE t[i - Len(s)]
      /\ Len(s) \in Nat /\ Len(t) \in Nat
  BY ConcatProperties, LenProperties
<1>2. ASSUME NEW i \in 1..Len(s) + Len(t), i > Len(s) PROVE i - Len(s) \in 1..Len(t)
  BY <1>1, <1>2
<1> QED BY <1>1, <1>2 DEF Recorded

\* The block recorded next comes after all of them.
LEMMA NextBlock ==
  ASSUME NEW s \in Seq(Nat), recorded \in Nat, Recorded(s)
  PROVE  /\ <<recorded + 1>> \in Seq(Nat) /\ Sorted(<<recorded + 1>>)
         /\ Before(s, <<recorded + 1>>)
         /\ Append(s, recorded + 1) = s \o <<recorded + 1>>
<1>1. \A i \in 1..Len(s) : s[i] \in Nat
  BY ElementOfSeq
<1> QED BY <1>1 DEF Sorted, Before, Recorded

\* The queue without its head.
LEMMA RestOfQueue ==
  ASSUME LTypeOK, chunks # <<>>
  PROVE  /\ Len(chunks) \in Nat \ {0} /\ 1 \in 1..Len(chunks)
         /\ Head(chunks) = chunks[1] /\ Head(chunks) \in Seq(Nat)
         /\ Tail(chunks) \in Seq(Seq(Nat)) /\ Len(Tail(chunks)) = Len(chunks) - 1
         /\ \A k \in 1..Len(Tail(chunks)) :
              k + 1 \in 1..Len(chunks) /\ 1 < k + 1 /\ Tail(chunks)[k] = chunks[k + 1]
BY EmptySeq, HeadTailProperties DEF LTypeOK

-----------------------------------------------------------------------------
(* The steps that move blocks. *)

Blocks == <<recorded, pending, chunks, batch, fed>>

\* A new block is the last of those about to be queued.
LEMMA RecordKeeps ==
  ASSUME LTypeOK, OrderInv,
         recorded' = recorded + 1, pending' = Append(pending, recorded + 1),
         UNCHANGED <<chunks, batch, fed>>
  PROVE  OrderInv'
<1> DEFINE new == <<recorded + 1>>
<1>1. /\ recorded \in Nat /\ pending \in Seq(Nat) /\ batch \in Seq(Nat) /\ fed \in Seq(Nat)
      /\ \A k \in 1..Len(chunks) : chunks[k] \in Seq(Nat)
  BY ElementOfSeq DEF LTypeOK
<1>2. /\ new \in Seq(Nat) /\ Sorted(new) /\ pending' = pending \o new
      /\ Before(pending, new) /\ Before(batch, new) /\ Before(fed, new)
      /\ \A k \in 1..Len(chunks) : Before(chunks[k], new)
  BY <1>1, NextBlock DEF OrderInv
<1>3. \A s \in Seq(Nat) : Recorded(s) => \A i \in 1..Len(s) : s[i] <= recorded + 1
  BY <1>1, ElementOfSeq DEF Recorded
<1>4. \A i \in 1..Len(pending') : pending'[i] <= recorded + 1
  <2>1. Len(pending') = Len(pending) + 1
        /\ \A i \in 1..Len(pending) : pending'[i] = pending[i] /\ pending[i] <= recorded + 1
    BY <1>1, <1>3 DEF OrderInv
  <2>2. pending'[Len(pending) + 1] = recorded + 1
    BY <1>1
  <2> QED BY <1>1, <2>1, <2>2
<1> HIDE DEF new
<1>5. /\ Sorted(pending') /\ Before(batch, pending') /\ Before(fed, pending')
      /\ \A k \in 1..Len(chunks) : Before(chunks[k], pending')
  <2>1. Sorted(pending) /\ Before(batch, pending) /\ Before(fed, pending)
        /\ \A k \in 1..Len(chunks) : Before(chunks[k], pending)
    BY DEF OrderInv
  <2>2. Sorted(pending \o new)
    BY <1>1, <1>2, <2>1, ConcatSorted
  <2>3. \A s \in Seq(Nat) : Before(s, pending) /\ Before(s, new) => Before(s, pending \o new)
    BY <1>1, <1>2, ConcatBefore
  <2> QED BY <1>1, <1>2, <2>1, <2>2, <2>3
<1>6. /\ Sorted(pending)' /\ Before(batch, pending)' /\ Before(fed, pending)'
      /\ \A k \in 1..Len(chunks') : Before(chunks[k], pending)'
  BY <1>5 DEF Sorted, Before
<1>7. /\ Recorded(fed)' /\ Recorded(batch)' /\ Recorded(pending)'
      /\ \A k \in 1..Len(chunks') : Recorded(chunks[k])'
  BY <1>1, <1>3, <1>4 DEF OrderInv, Recorded
<1> QED BY <1>6, <1>7 DEF OrderInv, Sorted, Before

\* What was about to be queued is the last of the queue.
LEMMA PutKeeps ==
  ASSUME LTypeOK, OrderInv,
         chunks' = Append(chunks, pending), pending' = <<>>, UNCHANGED <<recorded, batch, fed>>
  PROVE  OrderInv'
<1>1. /\ Len(chunks) \in Nat /\ Len(chunks') = Len(chunks) + 1
      /\ chunks'[Len(chunks) + 1] = pending
      /\ \A k \in 1..Len(chunks) : chunks'[k] = chunks[k]
      /\ \A k \in 1..Len(chunks') : k = Len(chunks) + 1 \/ k \in 1..Len(chunks)
  BY DEF LTypeOK
<1>2. Len(pending') = 0
  OBVIOUS
<1>3. \A k \in 1..Len(chunks') :
        /\ Sorted(chunks'[k]) /\ Recorded(chunks'[k])
        /\ Before(fed, chunks'[k]) /\ Before(batch, chunks'[k])
  BY <1>1 DEF OrderInv
<1>4. \A k, m \in 1..Len(chunks') : k < m => Before(chunks'[k], chunks'[m])
  BY <1>1 DEF OrderInv
<1>5. \A s : Before(s, <<>>)
  BY DEF Before
<1>6. Sorted(<<>>) /\ Recorded(<<>>)
  BY DEF Sorted, Recorded
<1> QED BY <1>3, <1>4, <1>5, <1>6 DEF OrderInv, Sorted, Before, Recorded

\* A dropped chunk leaves the others in order, and a taken one comes before them.
LEMMA TakeKeeps ==
  ASSUME LTypeOK, OrderInv, chunks # <<>>, chunks' = Tail(chunks),
         batch' \in {batch, Head(chunks), batch \o Head(chunks)},
         UNCHANGED <<recorded, pending, fed>>
  PROVE  OrderInv'
<1> DEFINE head == chunks[1]
<1>1. /\ batch' \in {batch, head, batch \o head} /\ head \in Seq(Nat) /\ batch \in Seq(Nat)
      /\ fed \in Seq(Nat) /\ pending \in Seq(Nat)
      /\ \A k \in 1..Len(chunks') :
           k + 1 \in 1..Len(chunks) /\ 1 < k + 1 /\ chunks'[k] = chunks[k + 1]
      /\ \A k \in 1..Len(chunks) : chunks[k] \in Seq(Nat)
      /\ 1 \in 1..Len(chunks)
  BY RestOfQueue, ElementOfSeq DEF LTypeOK
<1>2. /\ Sorted(batch') /\ Recorded(batch') /\ Before(fed, batch') /\ Before(batch', pending)
      /\ \A k \in 1..Len(chunks') : Before(batch', chunks'[k])
  <2>1. /\ Sorted(head) /\ Recorded(head) /\ Before(fed, head) /\ Before(batch, head)
        /\ Before(head, pending) /\ \A k \in 1..Len(chunks') : Before(head, chunks[k + 1])
    BY <1>1 DEF OrderInv
  <2>2. /\ Sorted(batch) /\ Recorded(batch) /\ Before(fed, batch) /\ Before(batch, pending)
        /\ \A k \in 1..Len(chunks') : Before(batch, chunks[k + 1])
    BY <1>1 DEF OrderInv
  <2> HIDE DEF head
  <2>3. /\ Sorted(batch \o head) /\ Recorded(batch \o head) /\ Before(fed, batch \o head)
        /\ Before(batch \o head, pending)
        /\ \A k \in 1..Len(chunks') : Before(batch \o head, chunks[k + 1])
    BY <1>1, <2>1, <2>2, ConcatSorted, ConcatBefore, ConcatRecorded
  <2> QED BY <1>1, <2>1, <2>2, <2>3
<1>3. /\ \A k \in 1..Len(chunks') :
           /\ Sorted(chunks'[k]) /\ Recorded(chunks'[k])
           /\ Before(fed, chunks'[k]) /\ Before(chunks'[k], pending)
      /\ \A k, m \in 1..Len(chunks') : k < m => Before(chunks'[k], chunks'[m])
  BY <1>1 DEF OrderInv
<1>4. /\ Sorted(fed) /\ Sorted(pending) /\ Recorded(fed) /\ Recorded(pending)
      /\ Before(fed, pending)
  BY DEF OrderInv
<1> QED BY <1>2, <1>3, <1>4 DEF OrderInv, Sorted, Before, Recorded

\* What the main thread held comes after all it recognized before.
LEMMA FeedKeeps ==
  ASSUME LTypeOK, OrderInv, fed' = fed \o batch, batch' = <<>>,
         UNCHANGED <<recorded, pending, chunks>>
  PROVE  OrderInv'
<1>1. /\ batch \in Seq(Nat) /\ fed \in Seq(Nat) /\ pending \in Seq(Nat)
      /\ \A k \in 1..Len(chunks) : chunks[k] \in Seq(Nat)
  BY ElementOfSeq DEF LTypeOK
<1>2. /\ Sorted(fed') /\ Recorded(fed') /\ Before(fed', pending)
      /\ \A k \in 1..Len(chunks) : Before(fed', chunks[k])
  BY <1>1, ConcatSorted, ConcatBefore, ConcatRecorded DEF OrderInv
<1>3. Sorted(<<>>) /\ Recorded(<<>>) /\ \A s : Before(s, <<>>) /\ Before(<<>>, s)
  BY DEF Sorted, Recorded, Before
<1>4. /\ Sorted(fed)' /\ Sorted(batch)' /\ Recorded(fed)' /\ Recorded(batch)'
      /\ Before(fed, batch)' /\ Before(fed, pending)' /\ Before(batch, pending)'
      /\ \A k \in 1..Len(chunks') : Before(fed, chunks[k])' /\ Before(batch, chunks[k])'
  BY <1>2, <1>3 DEF Sorted, Before, Recorded
<1>5. /\ Sorted(pending)' /\ Recorded(pending)'
      /\ \A k \in 1..Len(chunks') :
           Sorted(chunks[k])' /\ Recorded(chunks[k])' /\ Before(chunks[k], pending)'
      /\ \A k, m \in 1..Len(chunks') : k < m => Before(chunks[k], chunks[m])'
  BY DEF OrderInv, Sorted, Before, Recorded
<1> QED BY <1>4, <1>5 DEF OrderInv

-----------------------------------------------------------------------------
(* Every step of every thread. *)

\* The steps of the capture thread, its failures among them.
Capture == CaptureWork \/ CapBreaks \/ CapHangs

USE DEF Capture, CaptureWork, UnchangedByCapture, CapGoto, UnchangedByMain, MainGoto, Fail,
        PutSucceeds, AfterPut, DropsOldest

\* Blocks stay sequences of numbers, and every thread is somewhere.
LEMMA TypeKeeps == LTypeOK /\ [SNext]_svars => LTypeOK'
<1> SUFFICES ASSUME LTypeOK, [SNext]_svars PROVE LTypeOK'
  OBVIOUS
<1>1. CASE AppAsksStop \/ WatcherSees \/ UNCHANGED svars
  BY <1>1 DEF AppAsksStop, WatcherSees, svars, LTypeOK
<1>2. CASE CapSelects \/ CapOpens \/ CapChecks \/ CapRaises \/ CapEnds \/ CapBreaks \/ CapHangs
  <2>1. CASE CapSelects \/ CapOpens \/ CapChecks
    BY <2>1 DEF CapSelects, CapOpens, CapChecks, LTypeOK
  <2>2. CASE CapRaises \/ CapEnds \/ CapBreaks \/ CapHangs
    BY <2>2 DEF CapRaises, CapEnds, CapBreaks, CapHangs, LTypeOK
  <2> QED BY <1>2, <2>1, <2>2
<1>3. CASE CapRecords \/ CapFlushes
  <2>1. recorded' \in Nat /\ pending' \in Seq(Nat)
    <3>1. recorded' = recorded + 1 /\ pending' = Append(pending, recorded + 1)
      BY <1>3 DEF CapRecords, CapFlushes
    <3>2. recorded \in Nat /\ pending \in Seq(Nat)
      BY DEF LTypeOK
    <3> QED BY <3>1, <3>2
  <2> QED BY <1>3, <2>1 DEF CapRecords, CapFlushes, LTypeOK
<1>4. CASE CapPuts \/ CapPutsAgain
  <2>1. pending' \in Seq(Nat) /\ chunks' \in Seq(Seq(Nat))
    <3>1. /\ pending' = <<>> \/ pending' = pending
          /\ chunks' = Append(chunks, pending) \/ chunks' = chunks
      BY <1>4 DEF CapPuts, CapPutsAgain
    <3>2. pending \in Seq(Nat) /\ chunks \in Seq(Seq(Nat)) /\ <<>> \in Seq(Nat)
      BY EmptySeq DEF LTypeOK
    <3>3. Append(chunks, pending) \in Seq(Seq(Nat))
      BY <3>2
    <3> QED BY <3>1, <3>2, <3>3, Zenon
  <2> QED BY <1>4, <2>1 DEF CapPuts, CapPutsAgain, LTypeOK
<1>5. CASE CapDrops
  <2>1. chunks' \in Seq(Seq(Nat))
    BY <1>5, RestOfQueue DEF CapDrops, LTypeOK
  <2> QED BY <1>5, <2>1 DEF CapDrops, LTypeOK
<1>6. CASE MainLoads \/ MainLoadFails \/ MainLoops \/ MainTimesOut \/ MainIdles
  BY <1>6 DEF MainLoads, MainLoadFails, MainLoops, MainTimesOut, MainIdles, CleanedUp, LTypeOK
<1>7. CASE MainTakes \/ MainDrains
  <2>1. chunks # <<>> => Tail(chunks) \in Seq(Seq(Nat)) /\ Head(chunks) \in Seq(Nat)
    BY RestOfQueue
  <2>2. chunks \in Seq(Seq(Nat)) /\ batch \in Seq(Nat)
    BY DEF LTypeOK
  <2>3. \/ chunks' = chunks /\ batch' = batch
        \/ chunks # <<>> /\ chunks' = Tail(chunks) /\ batch' \in {Head(chunks), batch \o Head(chunks)}
    BY <1>7 DEF MainTakes, MainDrains
  <2>4. chunks' \in Seq(Seq(Nat)) /\ batch' \in Seq(Nat)
    BY <2>1, <2>2, <2>3, ConcatProperties
  <2>5. /\ main' \in {"drain", "feed"}
        /\ UNCHANGED <<kind, stopEvent, errors, tailed, failing, device, cap, wav, server, result,
                       recorded, pending, fed>>
    BY <1>7 DEF MainTakes, MainDrains
  <2> QED BY <2>4, <2>5 DEF LTypeOK
<1>8. CASE MainFeeds
  <2>1. fed' \in Seq(Nat) /\ batch' \in Seq(Nat)
    <3>1. (fed' = fed \/ fed' = fed \o batch) /\ (batch' = batch \/ batch' = <<>>)
      BY <1>8 DEF MainFeeds
    <3>2. fed \in Seq(Nat) /\ batch \in Seq(Nat) /\ <<>> \in Seq(Nat)
      BY EmptySeq DEF LTypeOK
    <3>3. fed \o batch \in Seq(Nat)
      BY <3>2, ConcatProperties
    <3> QED BY <3>1, <3>2, <3>3
  <2>2. /\ main' \in {"get", "stop"} /\ failing' \in BOOLEAN
        /\ UNCHANGED <<kind, stopEvent, errors, tailed, device, cap, wav, server, result, recorded,
                       pending, chunks>>
    BY <1>8 DEF MainFeeds, LTypeOK
  <2> QED BY <2>1, <2>2 DEF LTypeOK
<1>9. CASE MainLeaves \/ MainStops \/ MainJoins \/ MainReleases \/ MainEnds
  BY <1>9 DEF MainLeaves, MainStops, MainJoins, MainReleases, MainEnds, LTypeOK
<1> QED BY <1>1, <1>2, <1>3, <1>4, <1>5, <1>6, <1>7, <1>8, <1>9 DEF SNext, Main

\* Blocks move from the recorder to the recognizer and overtake none.
LEMMA OrderKeeps == LTypeOK /\ OrderInv /\ [SNext]_svars => OrderInv'
<1> SUFFICES ASSUME LTypeOK, OrderInv, [SNext]_svars PROVE OrderInv'
  OBVIOUS
<1>1. CASE UNCHANGED Blocks
  <2>1. UNCHANGED <<recorded, pending, chunks, batch, fed>>
    BY <1>1 DEF Blocks
  <2>2. \A s : Recorded(s)' <=> Recorded(s)
    BY <2>1 DEF Recorded
  <2> QED BY <2>1, <2>2 DEF OrderInv, Recorded
<1>2. CASE CapRecords \/ CapFlushes
  BY <1>2, RecordKeeps DEF CapRecords, CapFlushes
<1>3. CASE CapPuts \/ CapPutsAgain
  <2>1. CASE ~Full
    BY <1>3, <2>1, PutKeeps DEF CapPuts, CapPutsAgain
  <2>2. CASE Full
    BY <1>1, <1>3, <2>2 DEF CapPuts, CapPutsAgain, Blocks
  <2> QED BY <2>1, <2>2
<1>4. CASE CapDrops
  <2>1. CASE chunks = <<>>
    BY <1>1, <1>4, <2>1 DEF CapDrops, Blocks
  <2>2. CASE chunks # <<>>
    BY <1>4, <2>2, TakeKeeps DEF CapDrops
  <2> QED BY <2>1, <2>2
<1>5. CASE MainTakes
  BY <1>5, TakeKeeps DEF MainTakes
<1>6. CASE MainDrains
  <2>1. CASE chunks = <<>>
    BY <1>1, <1>6, <2>1 DEF MainDrains, Blocks
  <2>2. CASE chunks # <<>>
    BY <1>6, <2>2, TakeKeeps DEF MainDrains
  <2> QED BY <2>1, <2>2
<1>7. CASE MainFeeds
  <2>1. CASE fed' = fed \o batch /\ batch' = <<>>
    BY <1>7, <2>1, FeedKeeps DEF MainFeeds
  <2>2. CASE UNCHANGED <<fed, batch>>
    BY <1>1, <1>7, <2>2 DEF MainFeeds, Blocks
  <2> QED BY <1>7, <2>1, <2>2 DEF MainFeeds
<1>8. CASE AppAsksStop \/ WatcherSees \/ UNCHANGED svars
  BY <1>1, <1>8 DEF AppAsksStop, WatcherSees, svars, Blocks
<1>9. CASE CapSelects \/ CapOpens \/ CapChecks \/ CapRaises \/ CapEnds \/ CapBreaks \/ CapHangs
  BY <1>1, <1>9 DEF CapSelects, CapOpens, CapChecks, CapRaises, CapEnds, CapBreaks, CapHangs, Blocks
<1>10. CASE \/ MainLoads \/ MainLoadFails \/ MainLoops \/ MainTimesOut \/ MainIdles
            \/ MainLeaves \/ MainStops \/ MainJoins \/ MainReleases \/ MainEnds
  BY <1>1, <1>10 DEF MainLoads, MainLoadFails, MainLoops, MainTimesOut, MainIdles, MainLeaves,
                     MainStops, MainJoins, MainReleases, MainEnds, Blocks
<1> QED BY <1>2, <1>3, <1>4, <1>5, <1>6, <1>7, <1>8, <1>9, <1>10 DEF SNext, Main

\* The capture thread leaves room it made, an error it met and a WAV it closed.
LEMMA CaptureKeeps == LTypeOK /\ ThreadInv /\ result = "none" /\ Capture => ThreadInv'
<1> SUFFICES ASSUME LTypeOK, ThreadInv, result = "none", Capture PROVE ThreadInv'
  OBVIOUS
<1> USE DEF LTypeOK, ThreadInv
<1>1. QueueInv'
  <2>1. CASE UNCHANGED chunks /\ cap' # "drop" /\ cap' # "again"
    BY <2>1 DEF QueueInv, Streams, CapSelects, CapOpens, CapChecks, CapRecords, CapFlushes,
                CapPuts, CapDrops, CapPutsAgain, CapRaises, CapEnds, CapBreaks, CapHangs
  <2>2. CASE CapPuts \/ CapPutsAgain
    <3>1. Len(chunks') = Len(chunks) \/ (Len(chunks') = Len(chunks) + 1 /\ ~Full)
      <4>1. chunks' = chunks \/ (chunks' = Append(chunks, pending) /\ ~Full)
        BY <2>2 DEF CapPuts, CapPutsAgain
      <4> QED BY <4>1
    <3> QED BY <2>2, <3>1, SessionBounds DEF QueueInv, Streams, Full, CapPuts, CapPutsAgain
  <2>3. CASE CapDrops
    <3>1. CASE chunks = <<>>
      <4>1. chunks' = <<>> /\ Len(chunks') = 0
        BY <2>3, <3>1 DEF CapDrops
      <4> QED BY <2>3, <4>1, SessionBounds DEF CapDrops, QueueInv, Streams
    <3>2. CASE chunks # <<>>
      <4>1. Len(chunks') = Len(chunks) - 1 /\ Len(chunks) \in Nat
        BY <2>3, <3>2, RestOfQueue DEF CapDrops
      <4> QED BY <2>3, <4>1, SessionBounds DEF CapDrops, QueueInv, Streams
    <3> QED BY <3>1, <3>2
  <2> QED BY <2>1, <2>2, <2>3 DEF CapSelects, CapOpens, CapChecks, CapRecords, CapFlushes,
                                  CapRaises, CapEnds, CapBreaks, CapHangs
<1>2. cap = "again" => ~Full
  <2>1. Backlog \in Nat /\ Len(chunks) \in Nat
    BY SessionBounds
  <2> QED BY <2>1 DEF QueueInv, Full
<1>3. DeviceInv'
  <2>1. CASE CapSelects \/ CapOpens \/ CapChecks \/ CapEnds \/ CapRaises
    BY <2>1 DEF DeviceInv, CapSelects, CapOpens, CapChecks, CapEnds, CapRaises
  <2>2. CASE CapRecords \/ CapFlushes
    BY <2>2 DEF DeviceInv, CapRecords, CapFlushes
  <2>3. CASE CapPuts \/ CapDrops \/ CapPutsAgain
    BY <1>2, <2>3 DEF DeviceInv, CapPuts, CapDrops, CapPutsAgain
  <2>4. CASE CapBreaks \/ CapHangs
    BY <2>4 DEF DeviceInv, CapBreaks, CapHangs
  <2> QED BY <2>1, <2>2, <2>3, <2>4
<1>4. WavInv'
  <2>1. CASE CapSelects \/ CapOpens \/ CapChecks \/ CapEnds \/ CapRaises
    BY <2>1 DEF WavInv, CapSelects, CapOpens, CapChecks, CapEnds, CapRaises
  <2>2. CASE CapRecords \/ CapFlushes
    BY <2>2 DEF WavInv, CapRecords, CapFlushes
  <2>3. CASE CapPuts \/ CapDrops \/ CapPutsAgain
    BY <1>2, <2>3 DEF WavInv, CapPuts, CapDrops, CapPutsAgain
  <2>4. CASE CapBreaks \/ CapHangs
    BY <2>4 DEF WavInv, CapBreaks, CapHangs
  <2> QED BY <2>1, <2>2, <2>3, <2>4
<1>5. ServerInv'
  BY DEF ServerInv, HasServer, CapSelects, CapOpens, CapChecks, CapRecords, CapFlushes, CapPuts,
         CapDrops, CapPutsAgain, CapRaises, CapEnds, CapBreaks, CapHangs
<1> QED BY <1>1, <1>3, <1>4, <1>5

\* The main thread makes room, releases the server it knows and judges what it sees.
LEMMA MainKeeps == LTypeOK /\ ThreadInv /\ result = "none" /\ Main => ThreadInv'
<1> SUFFICES ASSUME LTypeOK, ThreadInv, result = "none", Main PROVE ThreadInv'
  OBVIOUS
<1> USE DEF LTypeOK, ThreadInv
<1>1. QueueInv'
  <2>1. CASE UNCHANGED chunks
    BY <2>1 DEF QueueInv, Streams, Main, MainLoads, MainLoadFails, MainLoops, MainTakes, MainTimesOut,
                MainIdles, MainDrains, MainFeeds, MainLeaves, MainStops, MainJoins, MainReleases, MainEnds
  <2>2. CASE chunks # <<>> /\ chunks' = Tail(chunks) /\ UNCHANGED <<kind, cap>>
    <3>1. Len(chunks') = Len(chunks) - 1 /\ Len(chunks) \in Nat
      BY <2>2, RestOfQueue
    <3> QED BY <2>2, <3>1, SessionBounds DEF QueueInv, Streams
  <2> QED BY <2>1, <2>2 DEF Main, MainLoads, MainLoadFails, MainLoops, MainTakes, MainTimesOut,
                            MainIdles, MainDrains, MainFeeds, MainLeaves, MainStops, MainJoins,
                            MainReleases, MainEnds
<1>2. DeviceInv'
  BY DEF DeviceInv, WavInv, Main, MainLoads, MainLoadFails, MainLoops, MainTakes, MainTimesOut,
         MainIdles, MainDrains, MainFeeds, MainLeaves, MainStops, MainJoins, MainReleases, MainEnds
<1>3. WavInv'
  BY DEF WavInv, Main, MainLoads, MainLoadFails, MainLoops, MainTakes, MainTimesOut,
         MainIdles, MainDrains, MainFeeds, MainLeaves, MainStops, MainJoins, MainReleases, MainEnds
<1>4. ServerInv'
  BY DEF ServerInv, HasServer, CleanedUp, CaptureGone, Main, MainLoads, MainLoadFails, MainLoops,
         MainTakes, MainTimesOut, MainIdles, MainDrains, MainFeeds, MainLeaves, MainStops, MainJoins,
         MainReleases, MainEnds
<1> QED BY <1>1, <1>2, <1>3, <1>4

-----------------------------------------------------------------------------
(* Streaming sessions: no audio is lost, and how much a good end may leave. *)

\* The queue of a streaming session holds single blocks, and every block stands where
\* its number says: recognized, with the main thread, queued, about to be queued.
PlaceInv ==
  /\ pending = IF cap = "put" THEN <<recorded>> ELSE <<>>
  /\ main \in {"load", "get", "take", "idle"} => batch = <<>>
  /\ \A i \in 1..Len(fed) : fed[i] = i
  /\ \A i \in 1..Len(batch) : batch[i] = Len(fed) + i
  /\ \A k \in 1..Len(chunks) : chunks[k] = <<Len(fed) + Len(batch) + k>>
  /\ Len(fed) + Len(batch) + Len(chunks) + Len(pending) = recorded

\* How many blocks the capture thread still records once it must see the stop event.
ToCome ==
  IF cap = "record" THEN 2
  ELSE IF cap \in {"none", "select", "open", "check", "flush"} \/ (cap = "put" /\ ~tailed) THEN 1
  ELSE 0

Closing == {"leave", "stop", "join", "release", "judge", "end"}

\* Between the empty queue and the look at the stop event, and from there on.
BacklogInv ==
  /\ tailed => cap \in {"put", "end", "done"}
  /\ main = "idle" => Len(chunks) + Len(pending) <= IF tailed THEN 2 ELSE 1
  /\ main \in Closing /\ ~failing =>
       stopEvent /\ batch = <<>> /\ Len(chunks) + Len(pending) + ToCome <= 3
  /\ result = "ok" => ~failing

StreamInv == Streams => PlaceInv /\ BacklogInv

\* A sequence that counts on where another stopped.
LEMMA ConcatCounts ==
  ASSUME NEW s \in Seq(Nat), NEW t \in Seq(Nat),
         \A i \in 1..Len(s) : s[i] = i, \A i \in 1..Len(t) : t[i] = Len(s) + i
  PROVE  /\ s \o t \in Seq(Nat) /\ Len(s \o t) = Len(s) + Len(t)
         /\ \A i \in 1..Len(s) + Len(t) : (s \o t)[i] = i
<1>1. /\ s \o t \in Seq(Nat) /\ Len(s \o t) = Len(s) + Len(t)
      /\ \A i \in 1..Len(s) + Len(t) : (s \o t)[i] = IF i <= Len(s) THEN s[i] ELSE t[i - Len(s)]
      /\ Len(s) \in Nat /\ Len(t) \in Nat
  BY ConcatProperties, LenProperties
<1>2. ASSUME NEW i \in 1..Len(s) + Len(t) PROVE (s \o t)[i] = i
  <2>1. CASE i <= Len(s)
    <3>1. i \in 1..Len(s)
      BY <1>1, <2>1
    <3> QED BY <1>1, <2>1, <3>1
  <2>2. CASE i > Len(s)
    <3>1. i - Len(s) \in 1..Len(t) /\ Len(s) + (i - Len(s)) = i
      BY <1>1, <2>2
    <3>2. (s \o t)[i] = t[i - Len(s)]
      BY <1>1, <2>2
    <3> QED BY <3>1, <3>2
  <2> QED BY <1>1, <2>1, <2>2
<1> QED BY <1>1, <1>2

\* How much each of them holds.
LEMMA BlockLengths ==
  ASSUME LTypeOK
  PROVE  /\ Len(fed) \in Nat /\ Len(batch) \in Nat /\ Len(chunks) \in Nat /\ Len(pending) \in Nat
         /\ recorded \in Nat
BY DEF LTypeOK

\* A session stays of its kind.
LEMMA KindKeeps == [SNext]_svars => kind' = kind /\ (Streams' <=> Streams)
<1> SUFFICES ASSUME [SNext]_svars PROVE kind' = kind
  BY DEF Streams
<1>1. CASE AppAsksStop \/ WatcherSees \/ UNCHANGED svars
  BY <1>1 DEF AppAsksStop, WatcherSees, svars
<1>2. CASE Capture
  BY <1>2 DEF CapSelects, CapOpens, CapChecks, CapRecords, CapFlushes, CapPuts, CapDrops,
              CapPutsAgain, CapRaises, CapEnds, CapBreaks, CapHangs
<1>3. CASE Main
  BY <1>3 DEF Main, MainLoads, MainLoadFails, MainLoops, MainTakes, MainTimesOut, MainIdles,
              MainDrains, MainFeeds, MainLeaves, MainStops, MainJoins, MainReleases, MainEnds
<1> QED BY <1>1, <1>2, <1>3 DEF SNext

\* The streaming queue never is full, so its put always succeeds and nothing is dropped.
LEMMA StreamPuts ==
  ASSUME LTypeOK, QueueInv, PlaceInv, Streams, CapPuts \/ CapDrops \/ CapPutsAgain
  PROVE  /\ cap = "put" /\ pending = <<recorded>>
         /\ chunks' = Append(chunks, <<recorded>>) /\ pending' = <<>>
         /\ cap' = IF tailed THEN "end" ELSE "check"
         /\ UNCHANGED <<kind, main, batch, fed, failing, result, recorded, tailed, stopEvent>>
BY DEF QueueInv, PlaceInv, CapPuts, CapDrops, CapPutsAgain, Full

\* Every step of a streaming session keeps every block in its place.
LEMMA PlaceKeeps ==
  ASSUME LTypeOK, ThreadInv, PlaceInv, Streams, SNext
  PROVE  PlaceInv'
<1> USE BlockLengths
<1>1. CASE AppAsksStop \/ WatcherSees
  BY <1>1 DEF AppAsksStop, WatcherSees, PlaceInv
<1>2. CASE CapSelects \/ CapOpens \/ CapChecks \/ CapRaises \/ CapEnds \/ CapBreaks \/ CapHangs
  <2>1. /\ cap # "put" /\ cap' # "put"
        /\ UNCHANGED <<pending, chunks, recorded, main, batch, fed, failing>>
    BY <1>2 DEF CapSelects, CapOpens, CapChecks, CapRaises, CapEnds, CapBreaks, CapHangs
  <2> QED BY <2>1 DEF PlaceInv
<1>3. CASE CapRecords \/ CapFlushes
  <2>1. /\ cap # "put" /\ cap' = "put" /\ recorded' = recorded + 1
        /\ pending' = Append(pending, recorded + 1)
        /\ UNCHANGED <<chunks, main, batch, fed, failing>>
    BY <1>3 DEF CapRecords, CapFlushes
  <2>2. pending = <<>> /\ pending' = <<recorded + 1>>
    BY <2>1 DEF PlaceInv
  <2> QED BY <2>1, <2>2 DEF PlaceInv
<1>4. CASE CapPuts \/ CapDrops \/ CapPutsAgain
  <2> DEFINE block == <<recorded>>
  <2>1. /\ cap = "put" /\ pending = block /\ chunks' = Append(chunks, block) /\ pending' = <<>>
        /\ cap' # "put" /\ UNCHANGED <<main, batch, fed, failing, recorded>>
    BY <1>4, StreamPuts DEF ThreadInv
  <2>2. Len(pending) = 1 /\ Len(pending') = 0 /\ block \in Seq(Nat) /\ chunks \in Seq(Seq(Nat))
    BY <2>1 DEF LTypeOK
  <2> HIDE DEF block
  <2>3. /\ Len(chunks') = Len(chunks) + 1 /\ chunks'[Len(chunks) + 1] = block
        /\ \A k \in 1..Len(chunks) : chunks'[k] = chunks[k]
    BY <2>1, <2>2, AppendProperties
  <2>4. recorded = Len(fed) + Len(batch) + (Len(chunks) + 1)
    BY <2>2 DEF PlaceInv
  <2>5. ASSUME NEW k \in 1..Len(chunks') PROVE chunks'[k] = <<Len(fed) + Len(batch) + k>>
    <3>1. CASE k \in 1..Len(chunks)
      BY <3>1, <2>3 DEF PlaceInv
    <3>2. CASE k = Len(chunks) + 1
      BY <3>2, <2>3, <2>4 DEF block
    <3> QED BY <2>3, <3>1, <3>2
  <2> QED BY <2>1, <2>2, <2>3, <2>5 DEF PlaceInv
<1>5. CASE MainLoads \/ MainLoadFails \/ MainLoops \/ MainTimesOut \/ MainIdles \/ MainLeaves
           \/ MainStops \/ MainJoins \/ MainReleases \/ MainEnds
  <2>1. /\ cap # "put" => cap' # "put"
        /\ cap = "put" => cap' = "put"
        /\ UNCHANGED <<pending, chunks, recorded, batch, fed>>
        /\ main' \in {"load", "get", "take", "idle"} => main \in {"load", "get", "take", "idle"}
    <3>1. CASE MainLoads \/ MainLoadFails
      BY <3>1 DEF MainLoads, MainLoadFails, ThreadInv, WavInv
    <3>2. CASE MainLoops \/ MainTimesOut \/ MainIdles \/ MainLeaves
      BY <3>2 DEF MainLoops, MainTimesOut, MainIdles, MainLeaves
    <3>3. CASE MainStops \/ MainJoins \/ MainReleases \/ MainEnds
      BY <3>3 DEF MainStops, MainJoins, MainReleases, MainEnds
    <3> QED BY <1>5, <3>1, <3>2, <3>3
  <2> QED BY <2>1 DEF PlaceInv
<1>6. CASE MainTakes \/ (MainDrains /\ chunks # <<>>)
  <2> DEFINE block == <<Len(fed) + Len(batch) + 1>>
  <2>1. chunks # <<>> /\ chunks' = Tail(chunks) /\ main' = "drain"
        /\ UNCHANGED <<cap, pending, recorded, fed, failing>>
        /\ (MainTakes => batch' = Head(chunks)) /\ (MainDrains => batch' = batch \o Head(chunks))
    BY <1>6 DEF MainTakes, MainDrains, SkipsStale, Streams
  <2>2. /\ Len(chunks) \in Nat \ {0} /\ Len(chunks') = Len(chunks) - 1 /\ Head(chunks) = block
        /\ \A k \in 1..Len(chunks') : k + 1 \in 1..Len(chunks) /\ chunks'[k] = chunks[k + 1]
    BY <2>1, RestOfQueue DEF PlaceInv
  <2>3. batch \in Seq(Nat) /\ block \in Seq(Nat) /\ Len(block) = 1 /\ block[1] = Len(fed) + Len(batch) + 1
    BY DEF LTypeOK
  <2>4. batch' = batch \o block
    <3>1. CASE MainTakes
      <4>1. batch = <<>> /\ batch' = block
        BY <3>1, <2>1, <2>2 DEF MainTakes, PlaceInv
      <4> QED BY <4>1, <2>3
    <3>2. CASE MainDrains
      BY <3>2, <2>1, <2>2
    <3> QED BY <1>6, <3>1, <3>2
  <2> HIDE DEF block
  <2>5. /\ Len(batch') = Len(batch) + 1 /\ batch'[Len(batch) + 1] = Len(fed) + Len(batch) + 1
        /\ \A i \in 1..Len(batch) : batch'[i] = batch[i]
    <3>1. /\ Len(batch \o block) = Len(batch) + Len(block)
          /\ \A i \in 1..Len(batch) + Len(block) :
               (batch \o block)[i] = IF i <= Len(batch) THEN batch[i] ELSE block[i - Len(batch)]
      BY <2>3, ConcatProperties
    <3>2. Len(batch) + 1 \in 1..Len(batch) + Len(block) /\ (Len(batch) + 1) - Len(batch) = 1
      BY <2>3
    <3>3. (batch \o block)[Len(batch) + 1] = block[1]
      BY <3>1, <3>2
    <3> QED BY <2>3, <2>4, <3>1, <3>3
  <2>6. ASSUME NEW i \in 1..Len(batch') PROVE batch'[i] = Len(fed) + i
    <3>1. CASE i \in 1..Len(batch)
      BY <2>5, <3>1 DEF PlaceInv
    <3>2. CASE i = Len(batch) + 1
      BY <2>5, <3>2
    <3> QED BY <2>5, <3>1, <3>2
  <2>7. ASSUME NEW k \in 1..Len(chunks') PROVE chunks'[k] = <<Len(fed) + Len(batch') + k>>
    <3>1. chunks'[k] = <<Len(fed) + Len(batch) + (k + 1)>>
      BY <2>2 DEF PlaceInv
    <3>2. Len(fed) + Len(batch) + (k + 1) = Len(fed) + Len(batch') + k
      BY <2>2, <2>5
    <3> QED BY <3>1, <3>2
  <2>8. Len(pending') = Len(pending) /\ Len(fed') = Len(fed) /\ recorded' = recorded
    BY <2>1
  <2>9. Len(fed') + Len(batch') + Len(chunks') + Len(pending') = recorded'
    BY <2>2, <2>5, <2>8 DEF PlaceInv
  <2> QED BY <2>1, <2>6, <2>7, <2>9 DEF PlaceInv
<1>7. CASE MainDrains /\ chunks = <<>>
  BY <1>7 DEF MainDrains, PlaceInv
<1>8. CASE MainFeeds
  <2>1. CASE UNCHANGED <<fed, batch>> /\ main' = "stop"
    BY <1>8, <2>1 DEF MainFeeds, PlaceInv
  <2>2. CASE fed' = fed \o batch /\ batch' = <<>>
    <3>1. batch' = <<>> /\ UNCHANGED <<cap, pending, chunks, recorded>> /\ Len(batch') = 0
      BY <1>8, <2>2 DEF MainFeeds
    <3>2. Len(fed') = Len(fed) + Len(batch) /\ \A i \in 1..Len(fed) + Len(batch) : fed'[i] = i
      BY <2>2, ConcatCounts DEF LTypeOK, PlaceInv
    <3> QED BY <3>1, <3>2 DEF PlaceInv
  <2> QED BY <1>8, <2>1, <2>2 DEF MainFeeds
<1> QED BY <1>1, <1>2, <1>3, <1>4, <1>5, <1>6, <1>7, <1>8 DEF SNext, Main

\* The capture thread on its way out of the loop: what it records, it no longer has to.
LEMMA CaptureWorksOff ==
  ASSUME LTypeOK, ThreadInv, PlaceInv, BacklogInv, Streams, Capture
  PROVE  BacklogInv'
<1> USE BlockLengths
<1>1. UNCHANGED <<main, failing, result, batch>> /\ (stopEvent => stopEvent')
  BY DEF CapSelects, CapOpens, CapChecks, CapRecords, CapFlushes, CapPuts, CapDrops,
         CapPutsAgain, CapRaises, CapEnds, CapBreaks, CapHangs
<1>2. CASE CapSelects \/ CapOpens \/ CapChecks \/ CapRaises \/ CapEnds \/ CapBreaks \/ CapHangs
  <2>1. UNCHANGED <<chunks, pending, tailed>> /\ (tailed => cap' \in {"put", "end", "done"})
    BY <1>2 DEF CapSelects, CapOpens, CapChecks, CapRaises, CapEnds, CapBreaks, CapHangs,
                BacklogInv, ThreadInv, WavInv
  <2>2. stopEvent => ToCome' <= ToCome
    <3>1. CASE CapSelects \/ CapOpens
      <4>1. cap \in {"select", "open"} /\ cap' \in {"open", "check", "end"}
        BY <3>1 DEF CapSelects, CapOpens
      <4> QED BY <4>1 DEF ToCome
    <3>2. CASE CapChecks
      <4>1. stopEvent => cap = "check" /\ cap' = "flush"
        BY <3>2 DEF CapChecks
      <4> QED BY <4>1 DEF ToCome
    <3>3. CASE CapRaises \/ CapEnds \/ CapBreaks \/ CapHangs
      <4>1. cap' = cap \/ cap' \in {"end", "done", "raise"}
        BY <3>3 DEF CapRaises, CapEnds, CapBreaks, CapHangs
      <4> QED BY <2>1, <4>1 DEF ToCome
    <3> QED BY <1>2, <3>1, <3>2, <3>3
  <2>3. ToCome \in 0..2 /\ ToCome' \in 0..2
    BY DEF ToCome
  <2> HIDE DEF ToCome
  <2> QED BY <1>1, <2>1, <2>2, <2>3 DEF BacklogInv
<1>3. CASE CapRecords \/ CapFlushes
  <2>1. /\ cap # "put" /\ cap' = "put" /\ pending' = Append(pending, recorded + 1) /\ chunks' = chunks
        /\ (cap = "record" /\ tailed' = tailed) \/ (cap = "flush" /\ tailed' = TRUE)
        /\ cap = "record" /\ main = "idle" => chunks = <<>>
    BY <1>3 DEF CapRecords, CapFlushes
  <2>4. pending = <<>> /\ pending' = <<recorded + 1>>
    BY <2>1 DEF PlaceInv
  <2>6. ~tailed
    BY <2>1 DEF BacklogInv
  <2>7. (ToCome = 2 /\ ToCome' = 1) \/ (ToCome = 1 /\ ToCome' = 0)
    BY <2>1, <2>6 DEF ToCome
  <2>2. Len(pending) = 0 /\ Len(pending') = 1 /\ Len(chunks') = Len(chunks)
    BY <2>1, <2>4
  <2>5. main = "idle" => Len(chunks) <= IF cap = "record" THEN 0 ELSE 1
    BY <2>1, <2>2, <2>6 DEF BacklogInv
  <2>8. main' = "idle" => Len(chunks') + Len(pending') <= IF tailed' THEN 2 ELSE 1
    BY <1>1, <2>1, <2>2, <2>5, <2>6
  <2>9. main' \in Closing /\ ~failing' =>
          stopEvent' /\ batch' = <<>> /\ Len(chunks') + Len(pending') + ToCome' <= 3
    <3> SUFFICES ASSUME main \in Closing, ~failing
                 PROVE  stopEvent' /\ batch' = <<>> /\ Len(chunks') + Len(pending') + ToCome' <= 3
      BY <1>1
    <3>1. stopEvent /\ batch = <<>> /\ Len(chunks) + Len(pending) + ToCome <= 3
      BY DEF BacklogInv
    <3>2. Len(chunks) \in Nat /\ Len(chunks) + ToCome <= 3
      BY <2>2, <2>7, <3>1
    <3>3. Len(chunks') + Len(pending') + ToCome' = Len(chunks) + ToCome
      BY <2>2, <2>7, <3>2
    <3> QED BY <1>1, <3>1, <3>2, <3>3
  <2> QED BY <1>1, <2>1, <2>8, <2>9 DEF BacklogInv
<1>4. CASE CapPuts \/ CapDrops \/ CapPutsAgain
  <2>1. /\ cap = "put" /\ pending = <<recorded>> /\ pending' = <<>> /\ tailed' = tailed
        /\ chunks' = Append(chunks, <<recorded>>) /\ cap' = IF tailed THEN "end" ELSE "check"
    BY <1>4, StreamPuts DEF ThreadInv
  <2>2. Len(pending) = 1 /\ Len(pending') = 0 /\ Len(chunks') = Len(chunks) + 1
    BY <2>1 DEF LTypeOK
  <2>3. ToCome' = ToCome /\ ToCome \in 0..2
    BY <2>1 DEF ToCome
  <2> QED BY <1>1, <2>1, <2>2, <2>3 DEF BacklogInv
<1> QED BY <1>2, <1>3, <1>4

\* The main thread leaves only an empty queue behind, and what arrived since.
LEMMA MainWorksOff ==
  ASSUME LTypeOK, ThreadInv, PlaceInv, BacklogInv, Streams, Main
  PROVE  BacklogInv'
<1> USE BlockLengths
<1>1. CASE MainLoads \/ MainLoadFails
  <2>1. cap = "none" /\ ~tailed /\ tailed' = tailed /\ main' # "idle"
    BY <1>1 DEF MainLoads, MainLoadFails, ThreadInv, WavInv
  <2>2. main' \in Closing => failing'
    BY <1>1 DEF MainLoads, MainLoadFails, Closing
  <2>3. result = "none" /\ result' # "ok"
    BY <1>1 DEF MainLoads, MainLoadFails, ThreadInv, ServerInv, LTypeOK
  <2> QED BY <2>1, <2>2, <2>3 DEF BacklogInv
<1>2. CASE MainLoops \/ MainTakes \/ MainDrains \/ MainFeeds
  <2>1. /\ UNCHANGED <<tailed, cap, result, stopEvent>>
        /\ main \notin Closing \cup {"idle"}
        /\ main' \in Closing => failing'
        /\ main' # "idle"
    BY <1>2 DEF MainLoops, MainTakes, MainDrains, MainFeeds, Leaves, Closing
  <2>2. result = "none"
    BY <2>1 DEF ThreadInv, ServerInv, Closing, LTypeOK
  <2> QED BY <2>1, <2>2 DEF BacklogInv
<1>3. CASE MainTimesOut
  <2>1. /\ UNCHANGED <<tailed, cap, result, stopEvent, chunks, pending, batch, failing>>
        /\ main = "take" /\ main' = "idle" /\ Len(chunks) = 0 /\ Len(pending) <= 1
    BY <1>3 DEF MainTimesOut, TimesOut, PlaceInv
  <2> QED BY <2>1 DEF BacklogInv, Closing
<1>4. CASE MainIdles
  <2>1. /\ UNCHANGED <<tailed, cap, result, stopEvent, chunks, pending, batch, failing>>
        /\ main = "idle" /\ main' = IF stopEvent THEN "leave" ELSE "get"
        /\ batch = <<>>
    BY <1>4 DEF MainIdles, PlaceInv
  <2>2. Len(chunks) + Len(pending) + ToCome <= 3
    BY <2>1 DEF BacklogInv, ToCome
  <2>3. ToCome' = ToCome
    BY <2>1 DEF ToCome
  <2> QED BY <2>1, <2>2, <2>3 DEF BacklogInv, Closing
<1>5. CASE MainLeaves \/ MainStops \/ MainJoins \/ MainReleases \/ MainEnds
  <2>1. /\ UNCHANGED <<tailed, cap, chunks, pending, batch>> /\ (stopEvent => stopEvent')
        /\ main \in Closing /\ main' # "idle" /\ (failing => failing')
        /\ result' = "ok" => ~failing' \/ result = "ok"
    BY <1>5 DEF MainLeaves, MainStops, MainJoins, MainReleases, MainEnds, Closing
  <2>2. ToCome' = ToCome
    BY <2>1 DEF ToCome
  <2>3. result = "none"
    BY <1>5 DEF MainLeaves, MainStops, MainJoins, MainReleases, MainEnds, ThreadInv, ServerInv, LTypeOK
  <2> QED BY <2>1, <2>2, <2>3 DEF BacklogInv
<1> QED BY <1>1, <1>2, <1>3, <1>4, <1>5 DEF Main

-----------------------------------------------------------------------------
\* The inductive invariant of a session.
THEOREM SessionKeepsInvariant == SSpec => []LInv
<1>1. SInit => LInv
  <2> SUFFICES ASSUME SInit PROVE LInv
    OBVIOUS
  <2>1. <<>> \in Seq(Nat) /\ <<>> \in Seq(Seq(Nat)) /\ Len(<<>>) = 0
    BY EmptySeq
  <2>2. LTypeOK
    BY <2>1 DEF SInit, LTypeOK
  <2>3. ThreadInv
    BY <2>1, SessionBounds DEF SInit, ThreadInv, QueueInv, DeviceInv, WavInv, ServerInv, CaptureGone
  <2>4. OrderInv
    BY <2>1 DEF SInit, OrderInv, Sorted, Before, Recorded
  <2> QED BY <2>2, <2>3, <2>4 DEF LInv
<1>2. LInv /\ [SNext]_svars => LInv'
  <2> SUFFICES ASSUME LInv, [SNext]_svars PROVE LInv'
    OBVIOUS
  <2>1. LTypeOK' /\ OrderInv'
    BY TypeKeeps, OrderKeeps DEF LInv
  <2>2. ThreadInv'
    <3>1. CASE AppAsksStop \/ WatcherSees \/ UNCHANGED svars
      BY <3>1 DEF AppAsksStop, WatcherSees, svars, LInv, ThreadInv, QueueInv, DeviceInv, WavInv,
                  ServerInv, CaptureGone, Streams, HasServer
    <3>2. CASE result = "none" /\ Capture
      BY <3>2, CaptureKeeps DEF LInv
    <3>3. CASE result = "none" /\ Main
      BY <3>3, MainKeeps DEF LInv
    <3> QED BY <3>1, <3>2, <3>3 DEF SNext
  <2> QED BY <2>1, <2>2 DEF LInv
<1> QED BY <1>1, <1>2, PTL DEF SSpec

\* FedInOrder: whatever an overloaded queue drops and the server's loop skips, no
\* block is recognized twice or after a later one.
THEOREM FedInOrderHolds == SSpec => []FedInOrder
<1>1. LInv => FedInOrder
  BY DEF LInv, OrderInv, Sorted, FedInOrder
<1> QED BY <1>1, SessionKeepsInvariant, PTL

\* OnlyDevicesFail: the second put_nowait of enqueue_chunk never finds the queue full.
THEOREM OnlyDevicesFailHolds == SSpec => []OnlyDevicesFail
<1>1. LInv => OnlyDevicesFail
  BY DEF LInv, ThreadInv, DeviceInv, OnlyDevicesFail
<1> QED BY <1>1, SessionKeepsInvariant, PTL

\* OkMeansWavClosed: exit code 0 says that the recording has everything and is closed.
THEOREM OkMeansWavClosedHolds == SSpec => []OkMeansWavClosed
<1>1. LInv => OkMeansWavClosed
  BY DEF LInv, LTypeOK, ThreadInv, DeviceInv, WavInv, ServerInv, CaptureGone, OkMeansWavClosed
<1> QED BY <1>1, SessionKeepsInvariant, PTL

\* NoServerLeft: no way out of the session leaves the server up.
THEOREM NoServerLeftHolds == SSpec => []NoServerLeft
<1>1. LInv => NoServerLeft
  BY DEF LInv, ThreadInv, ServerInv, NoServerLeft
<1> QED BY <1>1, SessionKeepsInvariant, PTL

\* A streaming session keeps every block in its place and works off its backlog.
THEOREM StreamKeepsInvariant == SSpec => []StreamInv
<1>1. SInit => StreamInv
  <2> SUFFICES ASSUME SInit PROVE PlaceInv /\ BacklogInv
    BY DEF StreamInv
  <2>1. Len(<<>>) = 0 /\ 0 \in Nat /\ 1..0 = {}
    OBVIOUS
  <2>2. PlaceInv
    BY <2>1 DEF SInit, PlaceInv
  <2>3. BacklogInv
    BY <2>1 DEF SInit, BacklogInv, Closing
  <2> QED BY <2>2, <2>3
<1>2. LInv /\ StreamInv /\ [SNext]_svars => StreamInv'
  <2> SUFFICES ASSUME LInv, PlaceInv, BacklogInv, Streams, [SNext]_svars
               PROVE  PlaceInv' /\ BacklogInv'
    BY KindKeeps DEF StreamInv
  <2>1. LTypeOK /\ ThreadInv
    BY DEF LInv
  <2>2. CASE UNCHANGED svars
    BY <2>2 DEF svars, PlaceInv, BacklogInv, ToCome
  <2>3. CASE AppAsksStop \/ WatcherSees
    <3>1. UNCHANGED <<tailed, cap, main, result, chunks, pending, batch, fed, failing, recorded>>
          /\ (stopEvent => stopEvent')
      BY <2>3 DEF AppAsksStop, WatcherSees
    <3>2. PlaceInv'
      BY <3>1 DEF PlaceInv
    <3>3. BacklogInv'
      BY <3>1 DEF BacklogInv, ToCome
    <3> QED BY <3>2, <3>3
  <2>4. CASE Capture
    BY <2>1, <2>2, <2>4, PlaceKeeps, CaptureWorksOff
  <2>5. CASE Main
    BY <2>1, <2>2, <2>5, PlaceKeeps, MainWorksOff
  <2> QED BY <2>2, <2>3, <2>4, <2>5 DEF SNext
<1> QED BY <1>1, <1>2, SessionKeepsInvariant, PTL DEF SSpec

\* StreamKeepsAll: however busy the recognition, every block recorded is recognized,
\* held, queued or about to be queued, in order, and a session that ends well has left
\* three of them at most, for any length of the recording.
THEOREM StreamKeepsAllHolds == SSpec => []StreamKeepsAll
<1>1. LInv /\ StreamInv => StreamKeepsAll
  <2> SUFFICES ASSUME LInv, StreamInv, Streams PROVE StreamKeepsAll
    BY DEF StreamKeepsAll
  <2> DEFINE queued == [k \in 1..Len(chunks) |-> chunks[k][1]]
             front  == fed \o batch
             most   == front \o queued
             all    == most \o pending
             held   == Len(fed) + Len(batch)
  <2>1. /\ fed \in Seq(Nat) /\ batch \in Seq(Nat) /\ pending \in Seq(Nat) /\ recorded \in Nat
        /\ Len(fed) \in Nat /\ Len(batch) \in Nat /\ Len(chunks) \in Nat /\ Len(pending) \in Nat
    BY BlockLengths DEF LInv, LTypeOK
  <2>2. PlaceInv /\ BacklogInv
    BY DEF StreamInv
  <2> HIDE DEF held
  <2>3. held \in Nat /\ held + Len(chunks) + Len(pending) = recorded
    BY <2>1, <2>2 DEF PlaceInv, held
  <2>4. /\ \A k \in 1..Len(chunks) : Len(chunks[k]) = 1 /\ chunks[k][1] = held + k
        /\ queued \in Seq(Nat) /\ Len(queued) = Len(chunks)
        /\ \A k \in 1..Len(chunks) : queued[k] = held + k
    <3>1. ASSUME NEW k \in 1..Len(chunks)
          PROVE  Len(chunks[k]) = 1 /\ chunks[k][1] = held + k
      <4>1. chunks[k] = <<held + k>>
        BY <2>2 DEF PlaceInv, held
      <4> QED BY <4>1
    <3>2. queued \in [1..Len(chunks) -> Nat] /\ \A k \in 1..Len(chunks) : queued[k] = held + k
      BY <2>1, <2>3, <3>1
    <3>3. queued \in Seq(Nat)
      BY <2>1, <3>2, SeqDef
    <3> HIDE DEF queued
    <3> QED BY <2>1, <3>1, <3>2, <3>3, LenProperties
  <2> HIDE DEF queued
  <2>5. front \in Seq(Nat) /\ Len(front) = held /\ \A i \in 1..held : front[i] = i
    BY <2>1, <2>2, ConcatCounts DEF PlaceInv, held
  <2> HIDE DEF front
  <2>6. /\ most \in Seq(Nat) /\ Len(most) = held + Len(chunks)
        /\ \A i \in 1..held + Len(chunks) : most[i] = i
    <3>1. front \in Seq(Nat) /\ queued \in Seq(Nat)
      BY <2>4, <2>5
    <3>2. (\A i \in 1..Len(front) : front[i] = i)
          /\ \A i \in 1..Len(queued) : queued[i] = Len(front) + i
      BY <2>4, <2>5
    <3>3. /\ most \in Seq(Nat) /\ Len(most) = Len(front) + Len(queued)
          /\ \A i \in 1..Len(front) + Len(queued) : most[i] = i
      BY <3>1, <3>2, ConcatCounts
    <3> QED BY <2>4, <2>5, <3>3
  <2> HIDE DEF most
  <2>7. \A i \in 1..Len(pending) : pending[i] = Len(most) + i
    <3>1. CASE pending = <<recorded>>
      <4>1. Len(pending) = 1 /\ pending[1] = recorded /\ Len(most) + 1 = recorded
        BY <2>1, <2>3, <2>6, <3>1
      <4> QED BY <4>1
    <3>2. CASE pending = <<>>
      BY <3>2
    <3> QED BY <2>2, <3>1, <3>2 DEF PlaceInv
  <2>8. all \in Seq(Nat) /\ Len(all) = recorded /\ \A i \in 1..recorded : all[i] = i
    BY <2>1, <2>3, <2>6, <2>7, ConcatCounts
  <2> HIDE DEF all
  <2>9. all = [i \in 1..recorded |-> i]
    BY <2>1, <2>8, LenProperties
  <2>10. result = "ok" => recorded - Len(fed) <= 3
    <3> SUFFICES ASSUME result = "ok" PROVE recorded - Len(fed) <= 3
      OBVIOUS
    <3>1. main \in Closing /\ ~failing
      BY <2>2 DEF LInv, ThreadInv, ServerInv, BacklogInv, Closing
    <3>2. batch = <<>> /\ Len(chunks) + Len(pending) + ToCome <= 3
      BY <2>2, <3>1 DEF BacklogInv
    <3>3. ToCome = 0 \/ ToCome = 1 \/ ToCome = 2
      BY DEF ToCome
    <3>4. Len(batch) = 0 /\ Len(chunks) + Len(pending) <= 3
      BY <2>1, <3>2, <3>3
    <3> QED BY <2>1, <2>3, <3>4 DEF held
  <2> QED BY <2>4, <2>9, <2>10 DEF StreamKeepsAll, all, most, front, queued
<1> QED BY <1>1, SessionKeepsInvariant, StreamKeepsInvariant, PTL
=============================================================================
