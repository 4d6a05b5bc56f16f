--------------------------- MODULE LoopbackProofs ---------------------------
(***************************************************************************)
(* Proofs about the loopback program, for every size of the ring, every    *)
(* packet, every text and every command line.                              *)
(***************************************************************************)
EXTENDS LoopbackStream, SequenceTheorems, WellFoundedInduction, TLAPS

-----------------------------------------------------------------------------
(* The ring of captured audio: a reader of the whole ring gets the newest      *)
(* samples in their order.  Length and position after a step get names of     *)
(* their own where the arithmetic is done.                                     *)

\* A remainder is below the divisor and not above the number.
LEMMA RemainderBound ==
  ASSUME NEW a \in Nat, NEW b \in Nat, b > 0
  PROVE  a % b \in 0..(b - 1) /\ a % b <= a
OBVIOUS

\* A remainder below the divisor is the number itself.
LEMMA RemainderSmall ==
  ASSUME NEW a \in Nat, NEW b \in Nat, b > 0, a < b
  PROVE  a % b = a /\ (a + b) % b = a
OBVIOUS

\* A position past the end of the ring goes round once.
LEMMA GoingRound ==
  ASSUME NEW x \in Nat, x < Size + Size
  PROVE  x % Size = IF x < Size THEN x ELSE x - Size
<1>1. Size \in Nat /\ Size > 0
  BY RingSizeAssumption
<1>2. CASE x < Size
  BY <1>1, <1>2, RemainderSmall
<1>3. CASE ~(x < Size)
  <2> DEFINE y == x - Size
  <2>1. y \in Nat /\ y < Size /\ x = y + Size
    BY <1>1, <1>3
  <2>2. (y + Size) % Size = y
    BY <1>1, <2>1, RemainderSmall
  <2> QED BY <1>3, <2>1, <2>2
<1> QED BY <1>2, <1>3

\* The part of a packet that is kept.
LEMMA KeptPart ==
  ASSUME NEW s \in Seq(Samples)
  PROVE  /\ NewestPart(s) \in Seq(Samples)
         /\ Len(NewestPart(s)) = IF Len(s) > Size THEN Size ELSE Len(s)
         /\ \A k \in 1..Len(NewestPart(s)) : NewestPart(s)[k] = s[Len(s) - Len(NewestPart(s)) + k]
<1>1. CASE Len(s) > Size
  <2>1. NewestPart(s) = SubSeq(s, Len(s) - Size + 1, Len(s))
    BY <1>1 DEF NewestPart
  <2> QED BY <1>1, <2>1, RingSizeAssumption, SubSeqProperties
<1>2. CASE ~(Len(s) > Size)
  BY <1>2 DEF NewestPart
<1> QED BY <1>1, <1>2

\* Positions going round backwards.
Wrap(i) == IF i < 0 THEN i + Size ELSE i

\* The body of Get for any content of the ring.
Read(a, p, l, n) ==
  LET count == IF n < l THEN n ELSE l
      s0    == IF p - count < 0 THEN p - count + Size ELSE p - count
  IN  [k \in 1..count |-> a[IF s0 + k - 1 >= Size THEN s0 + k - 1 - Size ELSE s0 + k - 1]]

\* A reader of n samples gets those of the n slots behind the write position.
LEMMA ReadFacts ==
  ASSUME NEW a \in [Slots -> Samples], NEW p \in 0..(Size - 1), NEW l \in 0..Size, NEW n \in Nat
  PROVE  /\ Read(a, p, l, n) \in Seq(Samples)
         /\ Len(Read(a, p, l, n)) = IF n < l THEN n ELSE l
         /\ \A k \in 1..Len(Read(a, p, l, n)) :
              Read(a, p, l, n)[k] = a[Wrap(p - Len(Read(a, p, l, n)) + k - 1)]
<1> DEFINE count == IF n < l THEN n ELSE l
           s0    == IF p - count < 0 THEN p - count + Size ELSE p - count
           e(k)  == a[IF s0 + k - 1 >= Size THEN s0 + k - 1 - Size ELSE s0 + k - 1]
<1>1. count \in 0..Size /\ Size \in Nat \ {0}
  BY RingSizeAssumption
<1>2. Read(a, p, l, n) = [k \in 1..count |-> e(k)]
  BY DEF Read
<1>3. ASSUME NEW k \in 1..count
      PROVE  e(k) = a[Wrap(p - count + k - 1)] /\ e(k) \in Samples
  <2>1. (IF s0 + k - 1 >= Size THEN s0 + k - 1 - Size ELSE s0 + k - 1) = Wrap(p - count + k - 1)
    BY <1>1 DEF Wrap
  <2>2. Wrap(p - count + k - 1) \in Slots
    BY <1>1 DEF Wrap, Slots
  <2> QED BY <2>1, <2>2
<1> HIDE DEF count, e
<1>4. Read(a, p, l, n) \in Seq(Samples) /\ Len(Read(a, p, l, n)) = count
  BY <1>1, <1>2, <1>3
<1>5. \A k \in 1..count : Read(a, p, l, n)[k] = a[Wrap(p - count + k - 1)]
  BY <1>2, <1>3
<1> QED BY <1>4, <1>5 DEF count

\* Appending keeps the types and turns the newest samples into the newest of them
\* with the packet.
LEMMA AppendEffect ==
  ASSUME RingTypeOK, NEW s \in Seq(Samples), AppendSamples(s)
  PROVE  /\ RingTypeOK'
         /\ pos' = Wrap(pos + Len(NewestPart(s)) - Size)
         /\ len' = IF len + Len(NewestPart(s)) < Size THEN len + Len(NewestPart(s)) ELSE Size
         /\ \A i \in Slots : audio'[i] = IF Offset(i) < Len(NewestPart(s))
                                         THEN NewestPart(s)[Offset(i) + 1] ELSE audio[i]
<1> DEFINE part == NewestPart(s)
           n    == Len(part)
<1>1. part \in Seq(Samples) /\ n \in 0..Size /\ Size \in Nat \ {0}
  BY KeptPart, RingSizeAssumption
<1>2. pos \in 0..(Size - 1) /\ len \in 0..Size
  BY DEF RingTypeOK, Slots
<1>3. /\ audio' = [i \in Slots |-> IF Offset(i) < n THEN part[Offset(i) + 1] ELSE audio[i]]
      /\ pos' = (pos + n) % Size
      /\ len' = IF len + n < Size THEN len + n ELSE Size
  BY DEF AppendSamples
<1> HIDE DEF part
<1>4. pos' = Wrap(pos + n - Size)
  <2> DEFINE x == pos + n
  <2>1. x \in Nat /\ x < Size + Size
    BY <1>1, <1>2
  <2> HIDE DEF x
  <2>2. x % Size = IF x < Size THEN x ELSE x - Size
    BY <2>1, GoingRound
  <2> QED BY <1>1, <1>2, <1>3, <2>1, <2>2 DEF Wrap, x
<1>5. ASSUME NEW i \in Slots
      PROVE  (IF Offset(i) < n THEN part[Offset(i) + 1] ELSE audio[i]) \in Samples
  <2>1. Offset(i) \in 0..(Size - 1)
    BY <1>1, <1>2 DEF Offset, Slots
  <2> QED BY <1>1, <2>1 DEF RingTypeOK
<1>6. audio' \in [Slots -> Samples]
  BY <1>3, <1>5
<1>7. pos' \in Slots /\ len' \in 0..Size
  BY <1>1, <1>2, <1>3, <1>4 DEF Wrap, Slots
<1>8. RingTypeOK'
  BY <1>6, <1>7 DEF RingTypeOK, Slots
<1>9. \A i \in Slots : audio'[i] = IF Offset(i) < n THEN part[Offset(i) + 1] ELSE audio[i]
  BY <1>3
<1> QED BY <1>3, <1>4, <1>8, <1>9 DEF part

\* Position and length after a packet of n, the slot the k-th sample is read from and
\* how far a slot lies behind a position.
PosAfter(p, n)    == Wrap(p + n - Size)
LenAfter(l, n)    == IF l + n < Size THEN l + n ELSE Size
SlotRead(q, m, k) == Wrap(q - m + k - 1)
Behind(i, p)      == IF i >= p THEN i - p ELSE i - p + Size

\* The k-th sample read after a packet of n lies in a slot the packet went to if it is
\* one of the last n, and else where it was read from before.
LEMMA SlotArithmetic ==
  ASSUME NEW p \in 0..(Size - 1), NEW l \in 0..Size, NEW n \in 0..Size, NEW k \in 1..LenAfter(l, n)
  PROVE  LET m == LenAfter(l, n)
             i == SlotRead(PosAfter(p, n), m, k)
             o == Behind(i, p)
         IN  /\ i \in Slots
             /\ k > m - n => o < n /\ o + 1 = k - (m - n)
             /\ ~(k > m - n) => /\ ~(o < n) /\ l + n - m + k \in 1..l
                                /\ i = Wrap(p - l + (l + n - m + k) - 1)
<1> DEFINE q == PosAfter(p, n)
           m == LenAfter(l, n)
           i == SlotRead(q, m, k)
           o == Behind(i, p)
<1>0. /\ q = Wrap(p + n - Size) /\ m = (IF l + n < Size THEN l + n ELSE Size) /\ k \in 1..m
      /\ i = Wrap(q - m + k - 1) /\ o = IF i >= p THEN i - p ELSE i - p + Size
  BY DEF PosAfter, LenAfter, SlotRead, Behind
<1> HIDE DEF q, m, i, o
<1>1. Size \in Nat \ {0}
  BY RingSizeAssumption
<1>2. q \in 0..(Size - 1) /\ m \in 0..Size /\ k \in 1..Size /\ k <= m
  BY <1>0, <1>1 DEF Wrap
<1>3. i \in 0..(Size - 1)
  BY <1>0, <1>1, <1>2 DEF Wrap
<1>4. q = IF p + n < Size THEN p + n ELSE p + n - Size
  BY <1>0, <1>1 DEF Wrap
<1>5. i = IF q - m + k - 1 < 0 THEN q - m + k - 1 + Size ELSE q - m + k - 1
  BY <1>0, <1>1, <1>2 DEF Wrap
<1>6. ASSUME k > m - n
      PROVE  o < n /\ o + 1 = k - (m - n)
  <2>1. o = k - (m - n) - 1
    BY <1>0, <1>1, <1>2, <1>3, <1>4, <1>5, <1>6
  <2> QED BY <1>0, <1>1, <1>2, <1>3, <1>6, <2>1
<1>7. ASSUME ~(k > m - n)
      PROVE  ~(o < n) /\ l + n - m + k \in 1..l /\ i = Wrap(p - l + (l + n - m + k) - 1)
  <2>1. m <= l + n /\ l + n - m + k \in 1..l
    BY <1>0, <1>1, <1>2, <1>7
  <2>2. i = Wrap(p - l + (l + n - m + k) - 1)
    BY <1>0, <1>1, <1>2, <1>4, <1>5, <1>7, <2>1 DEF Wrap
  <2>3. ~(o < n)
    BY <1>0, <1>1, <1>2, <1>3, <1>4, <1>5, <1>7, <2>1
  <2> QED BY <2>1, <2>2, <2>3
<1> QED BY <1>3, <1>6, <1>7 DEF q, m, i, o, Slots

\* Where a reader of the whole ring finds its samples after a packet: the end of
\* what it gets is the packet's, the rest what it would have got before.
LEMMA AppendedRead ==
  ASSUME RingTypeOK, NEW s \in Seq(Samples), AppendSamples(s)
  PROVE  /\ Get(Size) \in Seq(Samples) /\ Len(Get(Size)) = len
         /\ Get(Size)' \in Seq(Samples) /\ Len(Get(Size)') = len'
         /\ \A k \in 1..len' :
              Get(Size)'[k] = IF k > len' - Len(NewestPart(s))
                              THEN NewestPart(s)[k - (len' - Len(NewestPart(s)))]
                              ELSE Get(Size)[len + Len(NewestPart(s)) - len' + k]
<1> DEFINE part == NewestPart(s)
           n    == Len(part)
<1>1. part \in Seq(Samples) /\ n \in 0..Size /\ Size \in Nat \ {0}
  BY KeptPart, RingSizeAssumption
<1>2. audio \in [Slots -> Samples] /\ pos \in 0..(Size - 1) /\ len \in 0..Size
  BY DEF RingTypeOK, Slots
<1>3. /\ pos' = Wrap(pos + n - Size)
      /\ len' = IF len + n < Size THEN len + n ELSE Size
      /\ \A j \in Slots : audio'[j] = IF Offset(j) < n THEN part[Offset(j) + 1] ELSE audio[j]
  BY AppendEffect
<1>4. audio' \in [Slots -> Samples] /\ pos' \in 0..(Size - 1) /\ len' \in 0..Size
  BY AppendEffect DEF RingTypeOK, Slots
<1>5. Get(Size) = Read(audio, pos, len, Size) /\ Get(Size)' = Read(audio', pos', len', Size)
  BY DEF Get, Read
<1>6. /\ Get(Size) \in Seq(Samples) /\ Len(Get(Size)) = len
      /\ \A j \in 1..len : Get(Size)[j] = audio[Wrap(pos - len + j - 1)]
  <2>1. (IF Size < len THEN Size ELSE len) = len
    BY <1>1, <1>2
  <2> DEFINE r == Read(audio, pos, len, Size)
  <2>2. /\ r \in Seq(Samples) /\ Len(r) = IF Size < len THEN Size ELSE len
        /\ \A j \in 1..Len(r) : r[j] = audio[Wrap(pos - Len(r) + j - 1)]
    <3>1. Size \in Nat
      BY <1>1
    <3> QED BY <1>2, <3>1, ReadFacts, Zenon
  <2> HIDE DEF r
  <2>3. Len(r) = len
    BY <2>1, <2>2
  <2> QED BY <1>5, <2>2, <2>3 DEF r
<1>7. /\ Get(Size)' \in Seq(Samples) /\ Len(Get(Size)') = len'
      /\ \A j \in 1..len' : Get(Size)'[j] = audio'[Wrap(pos' - len' + j - 1)]
  <2>1. (IF Size < len' THEN Size ELSE len') = len'
    BY <1>1, <1>4
  <2> DEFINE r == Read(audio', pos', len', Size)
  <2>2. /\ r \in Seq(Samples) /\ Len(r) = IF Size < len' THEN Size ELSE len'
        /\ \A j \in 1..Len(r) : r[j] = audio'[Wrap(pos' - Len(r) + j - 1)]
    <3>1. Size \in Nat
      BY <1>1
    <3> QED BY <1>4, <3>1, ReadFacts, Zenon
  <2> HIDE DEF r
  <2>3. Len(r) = len'
    BY <2>1, <2>2
  <2> QED BY <1>5, <2>2, <2>3 DEF r
<1> HIDE DEF part
<1>8. ASSUME NEW k \in 1..len'
      PROVE  Get(Size)'[k] = IF k > len' - n THEN part[k - (len' - n)] ELSE Get(Size)[len + n - len' + k]
  <2> DEFINE i == Wrap(pos' - len' + k - 1)
  <2>1. /\ i \in Slots
        /\ k > len' - n => Offset(i) < n /\ Offset(i) + 1 = k - (len' - n)
        /\ ~(k > len' - n) => /\ ~(Offset(i) < n) /\ len + n - len' + k \in 1..len
                               /\ i = Wrap(pos - len + (len + n - len' + k) - 1)
    <3>1. pos' = PosAfter(pos, n) /\ len' = LenAfter(len, n)
      BY <1>3 DEF PosAfter, LenAfter
    <3>2. i = SlotRead(PosAfter(pos, n), LenAfter(len, n), k) /\ Offset(i) = Behind(i, pos)
      BY <3>1 DEF SlotRead, Behind, Offset
    <3>3. n \in 0..Size /\ k \in 1..LenAfter(len, n)
      BY <1>1, <3>1
    <3> HIDE DEF i, n
    <3> QED BY <1>2, <3>1, <3>2, <3>3, SlotArithmetic
  <2>2. Get(Size)'[k] = audio'[i]
    BY <1>7
  <2> HIDE DEF i, n
  <2>3. audio'[i] = IF Offset(i) < n THEN part[Offset(i) + 1] ELSE audio[i]
    BY <1>3, <2>1 DEF n
  <2> QED BY <1>6, <2>1, <2>2, <2>3
<1> QED BY <1>6, <1>7, <1>8 DEF part

\* So what a reader gets after a packet are the newest of what it got and the packet.
LEMMA AppendIsHear ==
  ASSUME RingTypeOK, NEW s \in Seq(Samples), AppendSamples(s)
  PROVE  Get(Size)' = Held!Newest(Get(Size) \o s, Size)
<1> DEFINE part == NewestPart(s)
           n    == Len(part)
           g    == Get(Size)
           h    == Get(Size)'
           t    == g \o s
           m    == IF Size < Len(t) THEN Size ELSE Len(t)
<1>1. /\ part \in Seq(Samples) /\ n = (IF Len(s) > Size THEN Size ELSE Len(s))
      /\ \A k \in 1..n : part[k] = s[Len(s) - n + k]
  BY KeptPart
<1>2. /\ g \in Seq(Samples) /\ Len(g) = len /\ h \in Seq(Samples) /\ Len(h) = len'
      /\ \A k \in 1..len' : h[k] = IF k > len' - n THEN part[k - (len' - n)] ELSE g[len + n - len' + k]
  BY AppendedRead
<1>3. len \in 0..Size /\ Size \in Nat \ {0} /\ len' = IF len + n < Size THEN len + n ELSE Size
  BY AppendEffect, RingSizeAssumption DEF RingTypeOK
<1> HIDE DEF part, g, h
<1>4. /\ t \in Seq(Samples) /\ Len(t) = len + Len(s)
      /\ \A i \in 1..(len + Len(s)) : t[i] = IF i <= len THEN g[i] ELSE s[i - len]
  BY <1>2, ConcatProperties
<1> HIDE DEF t
<1> HIDE DEF n, m
<1>a. /\ len \in Nat /\ len <= Size /\ Size \in Nat /\ Size > 0 /\ Len(s) \in Nat
      /\ n = (IF Len(s) > Size THEN Size ELSE Len(s))
      /\ len' = (IF len + n < Size THEN len + n ELSE Size)
      /\ Len(t) = len + Len(s)
  BY <1>1, <1>3, <1>4
<1>b. m = IF Size < Len(t) THEN Size ELSE Len(t)
  BY DEF m
<1>5. /\ m = len' /\ len' \in Nat /\ n \in Nat /\ len' <= Len(t) /\ n <= len'
      /\ n <= Len(s) /\ (n < Len(s) => len' = n)
  BY <1>a, <1>b
<1>c. /\ Len(s) \in Nat /\ Len(t) = len + Len(s) /\ len \in Nat /\ len' \in Nat /\ n \in Nat
      /\ len' <= Len(t) /\ n <= len' /\ n <= Len(s)
  BY <1>a, <1>5
<1> DEFINE u == SubSeq(t, Len(t) - len' + 1, Len(t))
<1>6. Held!Newest(g \o s, Size) = u
  <2>1. Held!Lesser(Size, Len(t)) = len'
    BY <1>5 DEF Held!Lesser, m
  <2> QED BY <2>1 DEF Held!Newest, t
<1>7. /\ u \in Seq(Samples) /\ Len(u) = len'
      /\ \A k \in 1..len' : u[k] = t[Len(t) - len' + k]
  <2>1. \A i \in (Len(t) - len' + 1)..Len(t) : t[i] \in Samples
    BY <1>4, <1>c, ElementOfSeq
  <2>2. Len(t) - len' + 1 \in Int /\ Len(t) \in Int
    BY <1>c
  <2>3. /\ u \in Seq(Samples)
        /\ Len(u) = IF Len(t) - len' + 1 <= Len(t) THEN Len(t) - (Len(t) - len' + 1) + 1 ELSE 0
        /\ \A k \in 1..(Len(t) - (Len(t) - len' + 1) + 1) : u[k] = t[(Len(t) - len' + 1) + k - 1]
    BY <2>1, <2>2, SubSeqProperties
  <2> HIDE DEF u
  <2>4. Len(u) = len' /\ Len(t) - (Len(t) - len' + 1) + 1 = len'
    BY <2>3, <1>c
  <2>5. ASSUME NEW k \in 1..len' PROVE u[k] = t[Len(t) - len' + k]
    <3>1. (Len(t) - len' + 1) + k - 1 = Len(t) - len' + k
      BY <1>c
    <3> QED BY <2>3, <2>4, <3>1
  <2> QED BY <2>3, <2>4, <2>5
<1> HIDE DEF u
<1> DEFINE ls == Len(s)
           lt == Len(t)
           after == len'
<1>d. /\ ls \in Nat /\ lt = len + ls /\ len \in Nat /\ after \in Nat /\ n \in Nat
      /\ after <= lt /\ n <= after /\ n <= ls /\ (n < ls => after = n)
  BY <1>c, <1>5
<1>e. /\ \A j \in 1..n : part[j] = s[ls - n + j]
      /\ \A i \in 1..(len + ls) : t[i] = IF i <= len THEN g[i] ELSE s[i - len]
  BY <1>1, <1>4
<1>f. \A k \in 1..after : h[k] = IF k > after - n THEN part[k - (after - n)] ELSE g[len + n - after + k]
  BY <1>2
<1> HIDE DEF ls, lt, after
<1>8. ASSUME NEW k \in 1..after
      PROVE  h[k] = t[lt - after + k]
  <2>1. lt - after + k \in 1..(len + ls)
    BY <1>d
  <2>2. CASE k > after - n
    <3>1. /\ k - (after - n) \in 1..n /\ ~(lt - after + k <= len)
          /\ ls - n + (k - (after - n)) = (lt - after + k) - len
      BY <1>d, <2>2
    <3>2. h[k] = part[k - (after - n)]
      BY <1>f, <2>2
    <3>3. part[k - (after - n)] = s[ls - n + (k - (after - n))]
      BY <1>e, <3>1
    <3>4. t[lt - after + k] = s[(lt - after + k) - len]
      BY <1>e, <2>1, <3>1
    <3> QED BY <3>1, <3>2, <3>3, <3>4
  <2>3. CASE ~(k > after - n)
    <3>1. lt - after + k <= len /\ lt - after + k = len + n - after + k
      BY <1>d, <2>3
    <3>2. h[k] = g[len + n - after + k]
      BY <1>f, <2>3
    <3>3. t[lt - after + k] = g[lt - after + k]
      BY <1>e, <2>1, <3>1
    <3> QED BY <3>1, <3>2, <3>3
  <2> QED BY <2>2, <2>3
<1>9. h = u
  BY <1>2, <1>7, <1>8, SeqEqual DEF lt, after
<1> QED BY <1>6, <1>9 DEF g, h

\* A cleared ring has nothing for its reader.
LEMMA ClearIsForget ==
  ASSUME RingTypeOK, Clear
  PROVE  RingTypeOK' /\ Get(Size)' = <<>>
<1>1. RingTypeOK'
  BY RingSizeAssumption DEF RingTypeOK, Clear, Slots
<1>2. Get(Size)' \in Seq(Samples) /\ Len(Get(Size)') = 0
  <2>1. Get(Size)' = Read(audio', pos', len', Size)
    BY DEF Get, Read
  <2>2. /\ audio' \in [Slots -> Samples] /\ pos' \in 0..(Size - 1) /\ len' \in 0..Size
        /\ Size \in Nat /\ len' = 0
    BY <1>1, RingSizeAssumption DEF RingTypeOK, Clear, Slots
  <2>3. /\ Read(audio', pos', len', Size) \in Seq(Samples)
        /\ Len(Read(audio', pos', len', Size)) = IF Size < len' THEN Size ELSE len'
    BY <2>2, ReadFacts, Zenon
  <2> QED BY <2>1, <2>2, <2>3
<1> QED BY <1>1, <1>2

\* A new ring is well-typed and has nothing for its reader.
LEMMA RingInitHolds == RingInit => RingTypeOK /\ Get(Size) = <<>>
<1> SUFFICES ASSUME RingInit PROVE RingTypeOK /\ Get(Size) = <<>>
  OBVIOUS
<1>1. RingTypeOK
  BY RingSizeAssumption, SilenceAssumption DEF RingInit, RingTypeOK, Slots
<1>2. Get(Size) \in Seq(Samples) /\ Len(Get(Size)) = 0
  <2>1. Get(Size) = Read(audio, pos, len, Size)
    BY DEF Get, Read
  <2>2. /\ audio \in [Slots -> Samples] /\ pos \in 0..(Size - 1) /\ len \in 0..Size
        /\ Size \in Nat /\ len = 0
    BY <1>1, RingSizeAssumption DEF RingTypeOK, RingInit, Slots
  <2>3. /\ Read(audio, pos, len, Size) \in Seq(Samples)
        /\ Len(Read(audio, pos, len, Size)) = IF Size < len THEN Size ELSE len
    BY <2>2, ReadFacts, Zenon
  <2> QED BY <2>1, <2>2, <2>3
<1> QED BY <1>1, <1>2

\* The ring implements NewestSamples.
THEOREM RingImplements == RingSpec => RingHoldsNewest
<1>1. RingInit => RingTypeOK /\ Held!NInit
  BY RingInitHolds DEF Held!NInit
<1>2. RingTypeOK /\ [RingNext]_ringVars => RingTypeOK' /\ [Held!NNext]_(Get(Size))
  <2> SUFFICES ASSUME RingTypeOK, [RingNext]_ringVars
               PROVE  RingTypeOK' /\ [Held!NNext]_(Get(Size))
    OBVIOUS
  <2>1. ASSUME NEW s \in Packets, AppendSamples(s)
        PROVE  RingTypeOK' /\ [Held!NNext]_(Get(Size))
    <3>1. s \in Seq(Samples)
      BY RingPacketsAssumption
    <3>2. RingTypeOK' /\ Get(Size)' = Held!Newest(Get(Size) \o s, Size)
      BY <2>1, <3>1, AppendEffect, AppendIsHear
    <3> QED BY <2>1, <3>2 DEF Held!NNext, Held!Hear
  <2>2. CASE Clear
    BY <2>2, ClearIsForget DEF Held!NNext, Held!Forget
  <2>3. CASE UNCHANGED ringVars
    <3>1. Get(Size)' = Get(Size)
      BY <2>3 DEF ringVars, Get
    <3> QED BY <2>3, <3>1 DEF ringVars, RingTypeOK, Slots
  <2> QED BY <2>1, <2>2, <2>3 DEF RingNext
<1> QED BY <1>1, <1>2, PTL DEF RingSpec, RingHoldsNewest, Held!NSpec

-----------------------------------------------------------------------------
(* Suppressing overlaps. *)

\* A set of natural numbers below a bound that is not empty has a largest one.
LEMMA LongestIsMember ==
  ASSUME NEW b \in Nat, NEW S \in SUBSET (0..b), S # {}
  PROVE  Longest(S) \in S
<1> DEFINE T == {b - n : n \in S}
<1>1. T \subseteq Nat /\ T # {}
  <2>1. \A n \in S : b - n \in Nat
    OBVIOUS
  <2> QED BY <2>1, Zenon
<1>2. \E x \in T : \A y \in T : ~(<<y, x>> \in OpToRel(<, Nat))
  BY <1>1, NatLessThanWellFounded, WFMin
<1>3. PICK x \in T : \A y \in T : ~(y < x)
  BY <1>1, <1>2 DEF OpToRel
<1>4. PICK n \in S : x = b - n
  BY <1>3
<1>5. \A m \in S : m <= n
  BY <1>3, <1>4
<1> QED BY <1>4, <1>5 DEF Longest

\* What is left of t after n words.
LEMMA RestFacts ==
  ASSUME NEW t \in Seq(Words), NEW n \in 0..Len(t)
  PROVE  /\ Rest(t, n) \in Seq(Words)
         /\ Len(Rest(t, n)) = Len(t) - n
         /\ \A k \in 1..(Len(t) - n) : Rest(t, n)[k] = t[n + k]
BY DEF Rest

\* Printing n words less of a text whose first n words end what was printed before
\* leaves the whole text at the end of what is printed.
LEMMA JoinedAtOverlap ==
  ASSUME NEW t \in Seq(Words), NEW s \in Seq(Words), NEW n \in 0..Len(t),
         n <= Len(s), \A k \in 1..n : t[k] = s[Len(s) - n + k]
  PROVE  Suffix(t, s \o Rest(t, n))
<1> DEFINE r == Rest(t, n)
<1>1. /\ r \in Seq(Words) /\ Len(r) = Len(t) - n
      /\ \A k \in 1..(Len(t) - n) : r[k] = t[n + k]
  BY RestFacts
<1> HIDE DEF r
<1>2. Len(s \o r) = Len(s) + Len(r)
  BY <1>1, ConcatProperties
<1>3. ASSUME NEW k \in 1..Len(t)
      PROVE  t[k] = (s \o r)[Len(s \o r) - Len(t) + k]
  <2>1. CASE k <= n
    <3>1. (s \o r)[Len(s) - n + k] = s[Len(s) - n + k]
      BY <1>1, <2>1, ConcatProperties
    <3> QED BY <1>1, <1>2, <2>1, <3>1
  <2>2. CASE k > n
    <3>1. (s \o r)[Len(s) + (k - n)] = r[k - n]
      BY <1>1, <2>2, ConcatProperties
    <3>2. r[k - n] = t[k]
      BY <1>1, <2>2
    <3> QED BY <1>1, <1>2, <2>2, <3>1, <3>2
  <2>3. k <= n \/ k > n
    OBVIOUS
  <2> QED BY <2>1, <2>2, <2>3
<1>4. Len(t) <= Len(s \o r)
  BY <1>1, <1>2, LenProperties
<1>5. InfixAt(t, s \o r, Len(s \o r) - Len(t))
  BY <1>3 DEF InfixAt
<1>6. Suffix(t, s \o r)
  BY <1>4, <1>5 DEF Suffix
<1> QED BY <1>6 DEF r

\* The contract of suppress_plain_overlap: if the last text ends what was printed,
\* then either nothing is left to print and the text stands there, or what is left
\* makes the text the end of what is printed.
LEMMA OverlapContract ==
  ASSUME NEW t \in Seq(Words), NEW p \in Seq(Words), NEW s \in Seq(Words), Suffix(p, s)
  PROVE  /\ suppress_plain_overlap(t, p) \in Seq(Words)
         /\ suppress_plain_overlap(t, p) = <<>> => Infix(t, s)
         /\ Suffix(t, s \o suppress_plain_overlap(t, p)) \/ suppress_plain_overlap(t, p) = <<>>
<1> DEFINE f == suppress_plain_overlap(t, p)
<1>1. CASE t = <<>>
  <2>1. f = <<>> BY <1>1 DEF suppress_plain_overlap
  <2>2. Infix(t, s) BY <1>1 DEF Infix, InfixAt
  <2> QED BY <2>1, <2>2
<1>2. CASE t # <<>> /\ p = <<>>
  <2>1. f = t BY <1>2 DEF suppress_plain_overlap
  <2>2. Suffix(t, s \o t) BY DEF Suffix, InfixAt
  <2> QED BY <1>2, <2>1, <2>2
<1>3. CASE t # <<>> /\ p # <<>> /\ Infix(t, p)
  <2>1. f = <<>> BY <1>3 DEF suppress_plain_overlap
  <2>2. PICK d \in 0..(Len(p) - Len(t)) : InfixAt(t, p, d) BY <1>3 DEF Infix
  <2>3. InfixAt(t, s, Len(s) - Len(p) + d) BY <2>2 DEF Suffix, InfixAt
  <2>4. Len(s) - Len(p) + d \in 0..(Len(s) - Len(t)) BY <2>2 DEF Suffix
  <2> QED BY <2>1, <2>3, <2>4 DEF Infix
<1>4. CASE t # <<>> /\ p # <<>> /\ ~Infix(t, p) /\ Prefix(p, t)
  <2>1. f = Rest(t, Len(p)) BY <1>4 DEF suppress_plain_overlap
  <2>2. Len(p) \in 0..Len(t) /\ Len(p) <= Len(s) BY <1>4 DEF Prefix, Suffix
  <2>3. \A k \in 1..Len(p) : t[k] = s[Len(s) - Len(p) + k]
    BY <1>4 DEF Prefix, Suffix, InfixAt
  <2>4. Suffix(t, s \o f) BY <2>1, <2>2, <2>3, JoinedAtOverlap
  <2>5. f \in Seq(Words) /\ Len(f) = Len(t) - Len(p) BY <2>1, <2>2, RestFacts
  <2>6. f # <<>>
    <3> SUFFICES ASSUME f = <<>> PROVE FALSE
      OBVIOUS
    <3>1. Len(t) = Len(p) BY <2>5
    <3>2. InfixAt(t, p, 0) BY <1>4, <3>1 DEF Prefix, InfixAt
    <3> QED BY <1>4, <3>1, <3>2 DEF Infix
  <2> QED BY <2>4, <2>5, <2>6
<1>5. CASE t # <<>> /\ p # <<>> /\ ~Infix(t, p) /\ ~Prefix(p, t) /\ Overlaps(t, p) # {}
  <2> DEFINE n == Longest(Overlaps(t, p))
  <2>1. f = Rest(t, n) BY <1>5 DEF suppress_plain_overlap, CutOverlap
  <2>2. Overlaps(t, p) \in SUBSET (0..Len(t)) BY MinOverlapAssumption DEF Overlaps
  <2>3. n \in Overlaps(t, p)
    <3>1. Len(t) \in Nat OBVIOUS
    <3> QED BY <1>5, <2>2, <3>1, LongestIsMember
  <2>4. /\ n \in 0..Len(t) /\ n <= Len(p)
        /\ \A k \in 1..n : t[k] = p[Len(p) - n + k]
    BY <2>2, <2>3 DEF Overlaps
  <2> HIDE DEF n
  <2>5. n <= Len(s) /\ \A k \in 1..n : t[k] = s[Len(s) - n + k]
    BY <2>4 DEF Suffix, InfixAt
  <2>6. Suffix(t, s \o f) BY <2>1, <2>4, <2>5, JoinedAtOverlap
  <2>7. f \in Seq(Words) /\ Len(f) = Len(t) - n BY <2>1, <2>4, RestFacts
  <2>8. f # <<>>
    <3> SUFFICES ASSUME f = <<>> PROVE FALSE
      OBVIOUS
    <3>1. Len(t) = n BY <2>4, <2>7
    <3>2. InfixAt(t, p, Len(p) - n) BY <2>4, <3>1 DEF InfixAt
    <3> QED BY <1>5, <2>4, <3>1, <3>2 DEF Infix
  <2> QED BY <2>6, <2>7, <2>8
<1>6. CASE t # <<>> /\ p # <<>> /\ ~Infix(t, p) /\ ~Prefix(p, t) /\ Overlaps(t, p) = {}
  <2>1. f = t BY <1>6 DEF suppress_plain_overlap
  <2>2. Suffix(t, s \o t) BY DEF Suffix, InfixAt
  <2> QED BY <1>6, <2>1, <2>2
<1> QED BY <1>1, <1>2, <1>3, <1>4, <1>5, <1>6

\* What stands in the printed text goes on standing there.
LEMMA InfixKept ==
  ASSUME NEW t \in Seq(Words), NEW s \in Seq(Words), NEW r \in Seq(Words), Infix(t, s)
  PROVE  Infix(t, s \o r)
<1>1. PICK d \in 0..(Len(s) - Len(t)) : InfixAt(t, s, d)
  BY DEF Infix
<1>2. /\ Len(s \o r) = Len(s) + Len(r)
      /\ \A i \in 1..(Len(s) + Len(r)) : (s \o r)[i] = IF i <= Len(s) THEN s[i] ELSE r[i - Len(s)]
  BY ConcatProperties
<1>3. \A k \in 1..Len(t) : (s \o r)[d + k] = s[d + k]
  BY <1>2
<1>4. InfixAt(t, s \o r, d)
  BY <1>1, <1>3 DEF InfixAt
<1>5. d \in 0..(Len(s \o r) - Len(t))
  BY <1>2
<1> QED BY <1>4, <1>5 DEF Infix

\* The end of a text is part of it, and a text that was printed is its end.
LEMMA SuffixIsInfix ==
  ASSUME NEW t \in Seq(Words), NEW s \in Seq(Words), Suffix(t, s)
  PROVE  Infix(t, s)
BY DEF Suffix, Infix

\* A text printed whole is at the end of what is printed.
LEMMA PrintedIsSuffix ==
  ASSUME NEW t \in Seq(Words), NEW s \in Seq(Words)
  PROVE  Suffix(t, s \o t)
<1>1. /\ Len(s \o t) = Len(s) + Len(t)
      /\ \A i \in 1..(Len(s) + Len(t)) : (s \o t)[i] = IF i <= Len(s) THEN s[i] ELSE t[i - Len(s)]
  BY ConcatProperties
<1> QED BY <1>1 DEF Suffix, InfixAt

-----------------------------------------------------------------------------
(* The texts of LoopbackText.  What holds: the text last printed, or last  *)
(* committed, ends what was printed; so an overlap with it can be left out.*)

EndInv ==
  /\ Suffix(lastPlain, shown) /\ Suffix(lastCommitted, shown)
  /\ lastPlain # <<>> => Mode("plain", FALSE)
  /\ lastCommitted # <<>> => mode.output # "plain"

\* A preview that is not committed is the unfinished line.
PendingInv == mode.output = "preview" /\ pending => unfinished = lastPartial

TextInv == TextTypeOK /\ EndInv /\ PendingInv /\ NothingSaidIsLost /\ PreviewIsResolved

\* A step that prints `more` and takes `t` for final keeps what was final before.
LEMMA SaidKept ==
  ASSUME TextTypeOK, NothingSaidIsLost, NEW t \in Seq(Words), NEW more \in Seq(Words),
         shown' = shown \o more, said' = said \cup {t}, Infix(t, shown \o more)
  PROVE  NothingSaidIsLost' /\ shown' \in Seq(Words) /\ said' \subseteq Seq(Words)
<1>1. \A u \in said : Infix(u, shown \o more)
  BY InfixKept DEF TextTypeOK, NothingSaidIsLost
<1>2. shown \o more \in Seq(Words)
  BY ConcatProperties DEF TextTypeOK
<1> QED BY <1>1, <1>2 DEF NothingSaidIsLost, TextTypeOK

\* Leaving out an overlap with the last text t0, which ends what was printed: the
\* text is in what is printed, and it ends that unless nothing was left of it.
LEMMA OverlapLeftOut ==
  ASSUME TextTypeOK, NEW t \in Seq(Words), NEW t0 \in Seq(Words), Suffix(t0, shown)
  PROVE  LET f == suppress_plain_overlap(t, t0) IN
         /\ f \in Seq(Words)
         /\ Infix(t, shown \o f)
         /\ IF f = <<>> THEN shown \o f = shown ELSE Suffix(t, shown \o f)
<1> DEFINE f == suppress_plain_overlap(t, t0)
<1>1. shown \in Seq(Words)
  BY DEF TextTypeOK
<1>2. f \in Seq(Words) /\ (f = <<>> => Infix(t, shown)) /\ (Suffix(t, shown \o f) \/ f = <<>>)
  BY <1>1, OverlapContract
<1> HIDE DEF f
<1>3. CASE f = <<>>
  BY <1>1, <1>2, <1>3, ConcatEmptySeq DEF f
<1>4. CASE f # <<>>
  <2>1. shown \o f \in Seq(Words)
    BY <1>1, <1>2, ConcatProperties
  <2> QED BY <1>2, <1>4, <2>1, SuffixIsInfix DEF f
<1> QED BY <1>3, <1>4

\* Nothing is printed at the start.
LEMMA TextInitHolds == TextInit => TextInv
<1> SUFFICES ASSUME TextInit PROVE TextInv
  OBVIOUS
<1>1. TextTypeOK
  <2>1. <<>> \in Seq(Words)
    OBVIOUS
  <2>2. 0 \in 0..StablePartials /\ 0 \in 0..CommitChecks
    BY StableAssumption, CommitAssumption
  <2> QED BY <2>1, <2>2 DEF TextInit, TextTypeOK
<1>2. EndInv /\ PendingInv /\ NothingSaidIsLost
  BY DEF TextInit, EndInv, PendingInv, NothingSaidIsLost, Suffix, InfixAt
<1>3. PreviewIsResolved
  BY DEF TextInit, PreviewIsResolved, Infix, InfixAt
<1> QED BY <1>1, <1>2, <1>3 DEF TextInv

\* Empty texts end everything.
LEMMA EmptyIsSuffix ==
  ASSUME NEW s \in Seq(Words)
  PROVE  Suffix(<<>>, s) /\ Infix(<<>>, s)
BY DEF Suffix, Infix, InfixAt

\* A text printed as it is.
LEMMA PlainVadKeeps ==
  ASSUME TextInv, NEW t \in Seq(Words), PlainVad(t)
  PROVE  TextInv'
<1> USE DEF TextInv, PlainVad, Say
<1>1. Infix(t, shown \o t) /\ shown \o t \in Seq(Words)
  BY PrintedIsSuffix, SuffixIsInfix, ConcatProperties DEF TextTypeOK
<1>2. NothingSaidIsLost' /\ shown' \in Seq(Words) /\ said' \subseteq Seq(Words)
  BY <1>1, SaidKept
<1>3. TextTypeOK'
  BY <1>2 DEF TextTypeOK
<1>4. lastPlain = <<>> /\ lastCommitted = <<>>
  BY DEF EndInv, Mode
<1>5. EndInv'
  BY <1>2, <1>4, EmptyIsSuffix DEF EndInv, Mode
<1>6. PendingInv' /\ PreviewIsResolved'
  BY DEF PendingInv, PreviewIsResolved, Mode
<1> QED BY <1>2, <1>3, <1>5, <1>6

\* A text printed without what it shares with the last one.
LEMMA PlainStepKeeps ==
  ASSUME TextInv, NEW t \in Seq(Words), PlainStep(t)
  PROVE  TextInv'
<1> USE DEF TextInv, PlainStep
<1> DEFINE f == suppress_plain_overlap(t, lastPlain)
<1>1. /\ f \in Seq(Words) /\ Infix(t, shown \o f)
      /\ IF f = <<>> THEN shown \o f = shown ELSE Suffix(t, shown \o f)
  BY OverlapLeftOut DEF TextTypeOK, EndInv
<1>2. shown' = shown \o f /\ said' = said \cup {t} /\ lastPlain' = IF f # <<>> THEN t ELSE lastPlain
  BY DEF Remembered
<1> HIDE DEF f
<1>3. NothingSaidIsLost' /\ shown' \in Seq(Words) /\ said' \subseteq Seq(Words)
  BY <1>1, <1>2, SaidKept
<1>4. TextTypeOK'
  BY <1>2, <1>3 DEF TextTypeOK
<1>5. lastCommitted = <<>>
  BY DEF EndInv, Mode
<1>6. EndInv'
  BY <1>1, <1>2, <1>3, <1>5, EmptyIsSuffix DEF EndInv, Mode
<1>7. PendingInv' /\ PreviewIsResolved'
  BY DEF PendingInv, PreviewIsResolved, Mode
<1> QED BY <1>3, <1>4, <1>6, <1>7

\* A preview.
LEMMA PreviewKeeps ==
  ASSUME TextInv, NEW t \in Seq(Words), Preview(t)
  PROVE  TextInv'
BY DEF TextInv, Preview, TextTypeOK, EndInv, PendingInv, NothingSaidIsLost, PreviewIsResolved, Mode

\* What a commit does.
LEMMA CommitFacts ==
  ASSUME TextInv, NEW t \in Seq(Words), mode.output # "plain", mode' = mode,
         lastPlain' = lastPlain, NEW line \in Seq(Words),
         LET f == suppress_plain_overlap(t, lastCommitted) IN
         /\ shown' = shown \o f /\ said' = said \cup {t}
         /\ lastCommitted' = IF f = <<>> THEN lastCommitted ELSE t
         /\ unfinished' = IF f = <<>> THEN line ELSE <<>>
  PROVE  /\ NothingSaidIsLost' /\ shown' \in Seq(Words) /\ said' \subseteq Seq(Words)
         /\ lastCommitted' \in Seq(Words) /\ unfinished' \in Seq(Words)
         /\ EndInv' /\ Infix(t, shown') /\ unfinished' \in {line, <<>>}
<1> USE DEF TextInv
<1> DEFINE f == suppress_plain_overlap(t, lastCommitted)
<1>1. /\ f \in Seq(Words) /\ Infix(t, shown \o f)
      /\ IF f = <<>> THEN shown \o f = shown ELSE Suffix(t, shown \o f)
  BY OverlapLeftOut DEF TextTypeOK, EndInv
<1>2. /\ shown' = shown \o f /\ said' = said \cup {t}
      /\ lastCommitted' = IF f = <<>> THEN lastCommitted ELSE t
      /\ unfinished' = IF f = <<>> THEN line ELSE <<>>
  OBVIOUS
<1> HIDE DEF f
<1>3. NothingSaidIsLost' /\ shown' \in Seq(Words) /\ said' \subseteq Seq(Words)
  BY <1>1, <1>2, SaidKept
<1>4. lastCommitted' \in Seq(Words) /\ unfinished' \in Seq(Words) /\ unfinished' \in {line, <<>>}
  <2>1. <<>> \in Seq(Words)
    OBVIOUS
  <2> QED BY <1>2, <2>1 DEF TextTypeOK
<1>5. lastPlain = <<>>
  BY DEF EndInv, Mode
<1>6. EndInv'
  BY <1>1, <1>2, <1>3, <1>5, EmptyIsSuffix DEF EndInv, Mode
<1> QED BY <1>1, <1>2, <1>3, <1>4, <1>6

\* A silent check, and the commit of a preview.
LEMMA PreviewSilenceKeeps ==
  ASSUME TextInv, PreviewSilence
  PROVE  TextInv'
<1> USE DEF TextInv, PreviewSilence, SilenceGrown
<1>1. CASE silence + 1 < CommitChecks
  <2>1. silence' \in 0..CommitChecks
    BY <1>1, CommitAssumption DEF TextTypeOK
  <2> QED BY <1>1, <2>1 DEF TextTypeOK, EndInv, PendingInv, NothingSaidIsLost, PreviewIsResolved, Mode
<1>2. CASE ~(silence + 1 < CommitChecks)
  <2>1. /\ lastPartial \in Seq(Words) /\ unfinished \in Seq(Words) /\ unfinished = lastPartial
        /\ mode.output # "plain" /\ lastPlain' = lastPlain /\ mode' = mode
    BY DEF TextTypeOK, PendingInv, Mode
  <2>2. Commit(lastPartial) /\ lastPartial' = <<>> /\ pending' = FALSE /\ silence' = 0
    BY <1>2
  <2>3. LET f == suppress_plain_overlap(lastPartial, lastCommitted) IN
        /\ shown' = shown \o f /\ said' = said \cup {lastPartial}
        /\ lastCommitted' = IF f = <<>> THEN lastCommitted ELSE lastPartial
        /\ unfinished' = IF f = <<>> THEN unfinished ELSE <<>>
    BY <2>2 DEF Commit
  <2>4. /\ NothingSaidIsLost' /\ shown' \in Seq(Words) /\ said' \subseteq Seq(Words)
        /\ lastCommitted' \in Seq(Words) /\ unfinished' \in Seq(Words)
        /\ EndInv' /\ Infix(lastPartial, shown') /\ unfinished' \in {unfinished, <<>>}
    BY <2>1, <2>3, CommitFacts
  <2>5. TextTypeOK'
    <3>1. <<>> \in Seq(Words) /\ 0 \in 0..CommitChecks
      BY CommitAssumption
    <3> QED BY <2>2, <2>4, <3>1 DEF TextTypeOK
  <2>6. PendingInv' /\ PreviewIsResolved'
    BY <2>1, <2>2, <2>4, EmptyIsSuffix DEF PendingInv, PreviewIsResolved
  <2> QED BY <2>4, <2>5, <2>6
<1> QED BY <1>1, <1>2

\* A text committed at a pause.
LEMMA HybridVadKeeps ==
  ASSUME TextInv, NEW t \in Seq(Words), HybridVad(t)
  PROVE  TextInv'
<1> USE DEF TextInv, HybridVad
<1>0. <<>> \in Seq(Words) /\ 0 \in 0..StablePartials
  BY StableAssumption
<1>1. CASE t = <<>>
  BY <1>0, <1>1 DEF TextTypeOK, EndInv, PendingInv, NothingSaidIsLost, PreviewIsResolved, Mode
<1>2. CASE t # <<>>
  <2>1. shown' = shown \o t /\ said' = said \cup {t} /\ lastCommitted' = t /\ unfinished' = <<>>
    BY <1>2 DEF Say
  <2>2. Suffix(t, shown \o t) /\ Infix(t, shown \o t) /\ shown \o t \in Seq(Words)
    BY PrintedIsSuffix, SuffixIsInfix, ConcatProperties DEF TextTypeOK
  <2>3. NothingSaidIsLost' /\ shown' \in Seq(Words) /\ said' \subseteq Seq(Words)
    BY <2>1, <2>2, SaidKept
  <2>4. TextTypeOK'
    BY <1>0, <2>1, <2>3 DEF TextTypeOK
  <2>5. lastPlain = <<>>
    BY DEF EndInv, Mode
  <2>6. EndInv'
    BY <2>1, <2>2, <2>3, <2>5, EmptyIsSuffix DEF EndInv, Mode
  <2>7. PendingInv' /\ PreviewIsResolved'
    BY DEF PendingInv, PreviewIsResolved, Mode
  <2> QED BY <2>3, <2>4, <2>6, <2>7
<1> QED BY <1>1, <1>2

\* A step of hybrid output: with a commit or without.
LEMMA HybridStepKeeps ==
  ASSUME TextInv, NEW t \in Seq(Words), NEW similar \in BOOLEAN, NEW pause \in BOOLEAN,
         NEW late \in BOOLEAN, HybridStep(t, similar, pause, late)
  PROVE  TextInv'
<1> DEFINE count == IF t = <<>> THEN stableCount
                    ELSE IF lastPartial # <<>> /\ similar
                    THEN IF stableCount < StablePartials THEN stableCount + 1 ELSE stableCount
                    ELSE 1
           partial   == IF t = <<>> THEN lastPartial ELSE t
           steady    == IF t # <<>> /\ count >= StablePartials THEN t ELSE stable
           candidate == IF steady # <<>> THEN steady ELSE partial
           line      == IF t = <<>> THEN unfinished ELSE t
           commits   == candidate # <<>> /\ pause /\ (count >= StablePartials \/ late)
<1> USE DEF TextInv
<1>0. <<>> \in Seq(Words) /\ 0 \in 0..StablePartials
  BY StableAssumption
<1>1. count \in 0..StablePartials
  BY StableAssumption DEF TextTypeOK
<1>2. partial \in Seq(Words) /\ steady \in Seq(Words) /\ candidate \in Seq(Words) /\ line \in Seq(Words)
  BY DEF TextTypeOK
<1>3. /\ Mode("hybrid", FALSE) /\ lastPartial' = partial
      /\ mode' = mode /\ lastPlain' = lastPlain /\ pending' = pending /\ silence' = silence
  BY DEF HybridStep
<1>4. CASE commits
  <2>1. LET f == suppress_plain_overlap(candidate, lastCommitted) IN
        /\ shown' = shown \o f /\ said' = said \cup {candidate}
        /\ lastCommitted' = IF f = <<>> THEN lastCommitted ELSE candidate
        /\ unfinished' = IF f = <<>> THEN line ELSE <<>>
    BY <1>4 DEF HybridStep
  <2>2. stable' = <<>> /\ stableCount' = 0
    BY <1>4 DEF HybridStep
  <2> HIDE DEF count, partial, steady, candidate, line, commits
  <2>3. /\ NothingSaidIsLost' /\ shown' \in Seq(Words) /\ said' \subseteq Seq(Words)
        /\ lastCommitted' \in Seq(Words) /\ unfinished' \in Seq(Words) /\ EndInv'
    BY <1>2, <1>3, <2>1, CommitFacts DEF Mode
  <2>4. TextTypeOK'
    BY <1>0, <1>2, <1>3, <2>2, <2>3 DEF TextTypeOK
  <2>5. PendingInv' /\ PreviewIsResolved'
    BY <1>3 DEF PendingInv, PreviewIsResolved, Mode
  <2> QED BY <2>3, <2>4, <2>5
<1>5. CASE ~commits
  <2>1. /\ stable' = steady /\ stableCount' = count /\ unfinished' = line
        /\ UNCHANGED <<lastCommitted, shown, said>>
    BY <1>5 DEF HybridStep
  <2> HIDE DEF count, partial, steady, candidate, line, commits
  <2>2. TextTypeOK'
    BY <1>1, <1>2, <1>3, <2>1 DEF TextTypeOK
  <2> QED BY <1>3, <2>1, <2>2 DEF EndInv, PendingInv, NothingSaidIsLost, PreviewIsResolved, Mode
<1> QED BY <1>4, <1>5

\* Every step keeps the invariant.
LEMMA TextStepHolds == TextInv /\ [TextNext]_textVars => TextInv'
<1> SUFFICES ASSUME TextInv, [TextNext]_textVars PROVE TextInv'
  OBVIOUS
<1>1. CASE UNCHANGED textVars
  BY <1>1 DEF textVars, TextInv, TextTypeOK, EndInv, PendingInv, NothingSaidIsLost, PreviewIsResolved, Mode
<1>2. CASE SilenceBroken
  <2>1. 0 \in 0..CommitChecks
    BY CommitAssumption
  <2> QED BY <1>2, <2>1 DEF SilenceBroken, TextInv, TextTypeOK, EndInv, PendingInv,
                            NothingSaidIsLost, PreviewIsResolved, Mode
<1>3. ASSUME NEW t \in Seq(Words), Recognized(t) PROVE TextInv'
  BY <1>1, <1>3, PlainVadKeeps, PlainStepKeeps, PreviewKeeps, HybridVadKeeps, HybridStepKeeps
     DEF Recognized
<1> QED BY <1>1, <1>2, <1>3, PreviewSilenceKeeps DEF TextNext

-----------------------------------------------------------------------------
(* The program as a whole.  The ring holds the last numbers captured; what *)
(* is left of earlier windows was captured before anything in the ring.    *)

InOrder(s) == \A i, j \in 1..Len(s) : i < j => s[i] < s[j]
Below(s, b) == \A i \in 1..Len(s) : s[i] <= b

RingInv ==
  /\ RingTypeOK
  /\ heard \in Nat /\ len <= heard
  /\ \A k \in 1..len : Get(Size)[k] = heard - len + k

WindowInv ==
  /\ recent \in Seq(Nat) /\ old \in Seq(Nat) /\ window \in Seq(Nat)
  /\ InOrder(old) /\ InOrder(window) /\ Below(old, heard - len)
  /\ main = "clear" => /\ InOrder(recent) /\ Below(recent, heard) /\ Len(recent) <= Size
                       /\ \A i \in 1..Len(old), j \in 1..Len(recent) : old[i] < recent[j]

WavInv ==
  /\ written \in Nat /\ header \in Nat /\ toWrite \in Nat
  /\ header <= written
  /\ capture = "opening" => heard = 0 /\ written = 0
  /\ capture = "writing" => recording
  /\ capture = "loop" /\ ~recording => written = 0
  /\ capture # "writing" => toWrite = 0
  /\ Recorded => written + toWrite <= heard
  /\ Recorded /\ capture # "killed" => written + toWrite = heard
  /\ WavReadable

\* A reader of n samples gets the last numbers captured.
LEMMA ReadIsNumbered ==
  ASSUME RingInv, NEW n \in Nat
  PROVE  /\ Get(n) \in Seq(Nat) /\ Len(Get(n)) <= len
         /\ \A k \in 1..Len(Get(n)) : Get(n)[k] = heard - Len(Get(n)) + k
         /\ InOrder(Get(n)) /\ Below(Get(n), heard)
<1> DEFINE g == Get(n)
           c == IF n < len THEN n ELSE len
<1>1. /\ audio \in [Slots -> Samples] /\ pos \in 0..(Size - 1) /\ len \in 0..Size
      /\ Size \in Nat \ {0} /\ heard \in Nat /\ len <= heard
  BY RingSizeAssumption DEF RingInv, RingTypeOK, Slots
<1>b. audio \in [Slots -> Samples] /\ pos \in 0..(Size - 1) /\ len \in 0..Size
  BY <1>1
<1>2. g = Read(audio, pos, len, n) /\ Get(Size) = Read(audio, pos, len, Size)
  BY DEF Get, Read
<1>3. /\ g \in Seq(Samples) /\ Len(g) = c
      /\ \A k \in 1..c : g[k] = audio[Wrap(pos - c + k - 1)]
  <2> DEFINE r == Read(audio, pos, len, n)
  <2>1. /\ r \in Seq(Samples) /\ Len(r) = IF n < len THEN n ELSE len
        /\ \A k \in 1..Len(r) : r[k] = audio[Wrap(pos - Len(r) + k - 1)]
    BY <1>b, ReadFacts, Zenon
  <2> HIDE DEF r
  <2>2. g = r /\ Len(r) = c
    BY <1>2, <2>1 DEF r
  <2> HIDE DEF g, c
  <2> QED BY <2>1, <2>2
<1>4. \A k \in 1..len : Get(Size)[k] = audio[Wrap(pos - len + k - 1)]
  <2> DEFINE r == Read(audio, pos, len, Size)
  <2>1. (IF Size < len THEN Size ELSE len) = len
    BY <1>1
  <2>a. Size \in Nat
    BY <1>1
  <2>2. Len(r) = IF Size < len THEN Size ELSE len
    BY <1>b, <2>a, ReadFacts, Zenon
  <2>3. \A k \in 1..Len(r) : r[k] = audio[Wrap(pos - Len(r) + k - 1)]
    BY <1>b, <2>a, ReadFacts, Zenon
  <2> HIDE DEF r
  <2>4. Len(r) = len
    BY <2>1, <2>2
  <2> QED BY <1>2, <2>3, <2>4 DEF r
<1>5. c \in Nat /\ c <= len
  BY <1>1
<1> HIDE DEF g, c
<1>6. ASSUME NEW k \in 1..c
      PROVE  g[k] = heard - c + k
  <2>1. len - c + k \in 1..len /\ pos - len + (len - c + k) - 1 = pos - c + k - 1
    BY <1>1, <1>5
  <2>2. g[k] = Get(Size)[len - c + k]
    BY <1>3, <1>4, <2>1
  <2>3. Get(Size)[len - c + k] = heard - len + (len - c + k)
    BY <2>1 DEF RingInv
  <2> QED BY <1>1, <1>5, <2>2, <2>3
<1>7. \A k \in 1..c : g[k] \in Nat /\ g[k] <= heard
  BY <1>1, <1>5, <1>6
<1>8. g \in Seq(Nat)
  <2>1. g \in [1..Len(g) -> Samples] /\ Len(g) \in Nat
    BY <1>3
  <2>2. g \in [1..Len(g) -> Nat]
    BY <1>3, <1>7, <2>1
  <2> QED BY <2>1, <2>2, SeqDef
<1>9. InOrder(g)
  BY <1>1, <1>3, <1>5, <1>6 DEF InOrder
<1> QED BY <1>1, <1>3, <1>5, <1>6, <1>7, <1>8, <1>9 DEF g, Below

\* The texts recognized in a window are texts.
LEMMA TextsAreTexts ==
  ASSUME NEW w \in Seq(Nat), NEW text \in TextsOf(w)
  PROVE  text \in Seq(Words)
<1>1. PICK n \in 0..(IF Len(w) < MaxText THEN Len(w) ELSE MaxText) : text \in [1..n -> Words]
  BY DEF TextsOf
<1>2. n \in Nat
  BY <1>1, StreamBounds
<1> QED BY <1>1, <1>2, SeqDef

\* A packet is numbered on from the samples before it, and what leaves the ring was
\* captured before what stays.
LEMMA PacketKeepsRing ==
  ASSUME RingInv, NEW packet \in Packets, AppendSamples(packet),
         \A k \in 1..Len(packet) : packet[k] = heard + k, heard' = heard + Len(packet)
  PROVE  RingInv' /\ heard - len <= heard' - len' /\ heard <= heard'
<1> DEFINE n == Len(NewestPart(packet))
           m == Len(packet)
           after == len'
           now == heard'
           g == Get(Size)
           h == Get(Size)'
<1>1. packet \in Seq(Samples) /\ RingTypeOK
  BY RingPacketsAssumption DEF RingInv
<1>2. /\ n = (IF m > Size THEN Size ELSE m)
      /\ \A k \in 1..n : NewestPart(packet)[k] = packet[m - n + k]
  BY <1>1, KeptPart
<1>3. /\ RingTypeOK'
      /\ after = IF len + n < Size THEN len + n ELSE Size
  BY <1>1, AppendEffect
<1>4. \A k \in 1..after : h[k] = IF k > after - n THEN NewestPart(packet)[k - (after - n)]
                                                 ELSE g[len + n - after + k]
  BY <1>1, AppendedRead
<1>5. /\ m \in Nat /\ Size \in Nat \ {0} /\ len \in 0..Size /\ heard \in Nat /\ len <= heard
      /\ \A k \in 1..len : g[k] = heard - len + k
  BY <1>1, RingSizeAssumption DEF RingInv, RingTypeOK
<1>6. now = heard + m /\ \A k \in 1..m : packet[k] = heard + k
  OBVIOUS
<1> HIDE DEF n, m, after, now, g, h
<1>7. n \in Nat /\ n <= m /\ (n < m => after = n) /\ after \in 0..Size /\ n <= after
  BY <1>2, <1>3, <1>5
<1>8. now \in Nat /\ after <= now /\ heard - len <= now - after /\ heard <= now
  BY <1>3, <1>5, <1>6, <1>7
<1>9. ASSUME NEW k \in 1..after
      PROVE  h[k] = now - after + k
  <2>1. CASE k > after - n
    <3>1. k - (after - n) \in 1..n /\ m - n + (k - (after - n)) \in 1..m
      BY <1>7, <1>5, <2>1
    <3>2. h[k] = heard + (m - n + (k - (after - n)))
      BY <1>2, <1>4, <1>6, <2>1, <3>1
    <3> QED BY <1>5, <1>6, <1>7, <3>2
  <2>2. CASE ~(k > after - n)
    <3>1. n = m /\ len + n - after + k \in 1..len
      BY <1>3, <1>5, <1>7, <2>2
    <3>2. h[k] = heard - len + (len + n - after + k)
      BY <1>4, <1>5, <2>2, <3>1
    <3> QED BY <1>5, <1>6, <1>7, <3>1, <3>2
  <2> QED BY <2>1, <2>2
<1> QED BY <1>3, <1>8, <1>9 DEF RingInv, after, now, h

\* A cleared ring is in order again from the next sample on.
LEMMA ClearKeepsRing ==
  ASSUME RingInv, Clear, heard' = heard
  PROVE  RingInv' /\ len' = 0
<1>1. RingTypeOK' /\ len' = 0
  BY ClearIsForget DEF RingInv, Clear
<1>2. heard' \in Nat /\ len' <= heard' /\ 1..len' = {}
  BY <1>1 DEF RingInv
<1> QED BY <1>1, <1>2 DEF RingInv

\* The window of a step: the end of the old one and the new samples.
LEMMA WindowJoins ==
  ASSUME NEW o \in Seq(Nat), NEW r \in Seq(Nat), NEW b \in Nat, NEW t \in 0..Len(o),
         InOrder(o), InOrder(r), Below(o, b), Below(r, b),
         \A i \in 1..Len(o), j \in 1..Len(r) : o[i] < r[j]
  PROVE  LET w == SubSeq(o, Len(o) - t + 1, Len(o)) \o r
         IN  w \in Seq(Nat) /\ InOrder(w) /\ Below(w, b)
<1> DEFINE u == SubSeq(o, Len(o) - t + 1, Len(o))
           w == u \o r
<1>1. u \in Seq(Nat) /\ Len(u) = t /\ \A k \in 1..t : u[k] = o[Len(o) - t + k]
  <2>1. \A i \in (Len(o) - t + 1)..Len(o) : o[i] \in Nat
    BY ElementOfSeq
  <2>2. Len(o) - t + 1 \in Int /\ Len(o) \in Int
    OBVIOUS
  <2>3. /\ u \in Seq(Nat)
        /\ Len(u) = IF Len(o) - t + 1 <= Len(o) THEN Len(o) - (Len(o) - t + 1) + 1 ELSE 0
        /\ \A k \in 1..(Len(o) - (Len(o) - t + 1) + 1) : u[k] = o[(Len(o) - t + 1) + k - 1]
    BY <2>1, <2>2, SubSeqProperties
  <2> HIDE DEF u
  <2>4. Len(u) = t /\ Len(o) - (Len(o) - t + 1) + 1 = t
    BY <2>3
  <2>5. ASSUME NEW k \in 1..t PROVE u[k] = o[Len(o) - t + k]
    <3>1. (Len(o) - t + 1) + k - 1 = Len(o) - t + k
      OBVIOUS
    <3> QED BY <2>3, <2>4, <3>1
  <2> QED BY <2>3, <2>4, <2>5
<1> HIDE DEF u
<1>2. /\ w \in Seq(Nat) /\ Len(w) = t + Len(r)
      /\ \A k \in 1..(t + Len(r)) : w[k] = IF k <= t THEN u[k] ELSE r[k - t]
  BY <1>1, ConcatProperties
<1> HIDE DEF w
<1>3. ASSUME NEW k \in 1..Len(w), k <= t
      PROVE  Len(o) - t + k \in 1..Len(o) /\ w[k] = o[Len(o) - t + k]
  <2>1. k \in 1..t /\ k \in 1..(t + Len(r)) /\ Len(o) - t + k \in 1..Len(o)
    BY <1>2, <1>3
  <2>2. w[k] = u[k] /\ u[k] = o[Len(o) - t + k]
    BY <1>1, <1>2, <1>3, <2>1
  <2> QED BY <2>1, <2>2
<1>4. ASSUME NEW k \in 1..Len(w), ~(k <= t)
      PROVE  k - t \in 1..Len(r) /\ w[k] = r[k - t]
  BY <1>2, <1>4
<1>5. Below(w, b)
  BY <1>3, <1>4 DEF Below
<1>6. ASSUME NEW i \in 1..Len(w), NEW j \in 1..Len(w), i < j
      PROVE  w[i] < w[j]
  <2>1. CASE j <= t
    <3>1. i <= t /\ Len(o) - t + i < Len(o) - t + j
      BY <1>6, <2>1
    <3> QED BY <1>3, <2>1, <3>1 DEF InOrder
  <2>2. CASE i <= t /\ ~(j <= t)
    BY <1>3, <1>4, <2>2
  <2>3. CASE ~(i <= t)
    <3>1. ~(j <= t) /\ i - t < j - t
      BY <1>6, <2>3
    <3> QED BY <1>4, <2>3, <3>1 DEF InOrder
  <2> QED BY <2>1, <2>2, <2>3
<1> QED BY <1>2, <1>5, <1>6 DEF InOrder, w, u

-----------------------------------------------------------------------------
(* One step of the program. *)

StreamInv == TextInv /\ RingInv /\ WindowInv /\ WavInv

\* What a step is for the ring and for the texts.
StepIsParts == [RingNext]_ringVars /\ [TextNext]_textVars

\* A window stays as it is while the ring only moves on.
LEMMA WindowStays ==
  ASSUME WindowInv, RingInv, RingInv', heard - len <= heard' - len', heard <= heard',
         UNCHANGED <<recent, old, window>>, main' = "clear" => main = "clear"
  PROVE  WindowInv'
<1> DEFINE gone == heard - len
           goneNow == heard' - len'
           now == heard'
<1>1. gone \in Int /\ goneNow \in Int /\ gone <= goneNow /\ heard \in Nat /\ now \in Nat /\ heard <= now
  <2> DEFINE left == len'
  <2>1. heard \in Nat /\ len \in 0..Size /\ now \in Nat /\ left \in 0..Size /\ Size \in Nat
    BY RingSizeAssumption DEF RingInv, RingTypeOK
  <2>2. goneNow = now - left /\ gone <= goneNow /\ heard <= now
    OBVIOUS
  <2> HIDE DEF left, now, goneNow
  <2> QED BY <2>1, <2>2
<1>2. /\ recent' = recent /\ old' = old /\ window' = window
      /\ recent \in Seq(Nat) /\ old \in Seq(Nat) /\ window \in Seq(Nat)
  BY DEF WindowInv
<1> HIDE DEF gone, goneNow, now
<1>3. ASSUME NEW q \in Seq(Nat), Below(q, gone) PROVE Below(q, goneNow)
  BY <1>1, <1>3 DEF Below
<1>4. ASSUME NEW q \in Seq(Nat), Below(q, heard) PROVE Below(q, now)
  BY <1>1, <1>4 DEF Below
<1>5. Below(old, goneNow) /\ (main = "clear" => Below(recent, now))
  BY <1>2, <1>3, <1>4 DEF WindowInv, gone
<1>6. /\ InOrder(old) /\ InOrder(window)
      /\ main = "clear" => InOrder(recent) /\ \A i \in 1..Len(old), j \in 1..Len(recent) : old[i] < recent[j]
  BY DEF WindowInv
<1> QED BY <1>2, <1>5, <1>6 DEF WindowInv, goneNow, now

\* The steps of the capture thread.
LEMMA CaptureKeeps ==
  ASSUME StreamInv, Capture \/ DeviceFails
  PROVE  StreamInv' /\ StepIsParts
<1>1. CASE \E packet \in Packets : CaptureHears(packet)
  <2>1. PICK packet \in Packets : CaptureHears(packet)
    BY <1>1
  <2>2. /\ AppendSamples(packet) /\ heard' = heard + Len(packet)
        /\ \A k \in 1..Len(packet) : packet[k] = heard + k
        /\ UNCHANGED <<textVars, recording, written, header, mainVars>>
        /\ capture = "loop" /\ capture' \in {"loop", "writing"}
    BY <2>1 DEF CaptureHears
  <2>3. RingInv' /\ heard - len <= heard' - len' /\ heard <= heard'
    BY <2>2, PacketKeepsRing DEF StreamInv
  <2>4. WindowInv'
    BY <2>2, <2>3, WindowStays DEF StreamInv, mainVars
  <2>5. WavInv'
    <3>1. /\ heard \in Nat /\ Len(packet) \in Nat /\ written \in Nat
          /\ IF recording THEN capture' = "writing" /\ toWrite' = Len(packet)
                          ELSE UNCHANGED <<capture, toWrite>>
      BY <2>1, LenProperties, RingPacketsAssumption DEF CaptureHears, StreamInv, WavInv, RingInv
    <3>2. CASE recording
      <4>1. written + toWrite' = heard' /\ heard' - heard = Len(packet)
        BY <2>2, <3>1, <3>2 DEF StreamInv, WavInv, Recorded
      <4>2. WavReadable'
        BY <2>2, <3>1, <3>2, <4>1 DEF StreamInv, WavInv, WavReadable, RecordingKept, Recorded
      <4> QED BY <2>2, <3>1, <3>2, <4>1, <4>2 DEF StreamInv, WavInv, Recorded
    <3>3. CASE ~recording
      <4>1. ~Recorded'
        BY <2>2, <3>3 DEF StreamInv, WavInv, Recorded
      <4>2. WavReadable'
        BY <2>2, <4>1 DEF StreamInv, WavInv, WavReadable, RecordingKept
      <4> QED BY <2>2, <3>1, <3>3, <4>1, <4>2 DEF StreamInv, WavInv
    <3> QED BY <3>2, <3>3
  <2>6. TextInv' /\ StepIsParts
    BY <2>2, TextStepHolds DEF StreamInv, StepIsParts, RingNext
  <2> QED BY <2>3, <2>4, <2>5, <2>6 DEF StreamInv
<1>2. CASE ~(\E packet \in Packets : CaptureHears(packet))
  <2>1. UNCHANGED <<ringVars, textVars, heard, mainVars>>
    BY <1>2 DEF Capture, CaptureOpens, CaptureWrites, CaptureUpdatesHeader, CaptureStops,
                DeviceFails, CaptureCloses
  <2>2. RingInv'
    BY <2>1 DEF StreamInv, RingInv, RingTypeOK, ringVars, Get
  <2>3. heard - len <= heard' - len' /\ heard <= heard'
    BY <2>1 DEF StreamInv, RingInv, RingTypeOK, ringVars
  <2>4. WindowInv'
    BY <2>1, <2>2, <2>3, WindowStays DEF StreamInv, mainVars
  <2>5. WavInv'
    <3> USE DEF StreamInv, WavInv
    <3>0. heard' = heard /\ heard \in Nat
      BY <2>1 DEF RingInv
    <3>1. CASE CaptureOpens
      BY <3>0, <3>1 DEF CaptureOpens, WavReadable, RecordingKept, Recorded
    <3>2. CASE CaptureStops \/ DeviceFails
      <4>1. /\ capture \in {"opening", "loop"} /\ capture' = "closed" /\ recording' = FALSE
            /\ UNCHANGED <<toWrite, written, header>>
        BY <3>2 DEF CaptureStops, DeviceFails, CaptureCloses
      <4>2. Recorded' => Recorded
        BY <4>1 DEF Recorded
      <4>3. WavReadable'
        BY <3>0, <4>1, <4>2 DEF WavReadable, RecordingKept
      <4>4. /\ written' \in Nat /\ header' \in Nat /\ header' <= written' /\ toWrite' = 0
            /\ Recorded' => written' + toWrite' = heard' /\ written' + toWrite' <= heard'
        BY <3>0, <4>1, <4>2
      <4>5. capture' = "closed" /\ 0 \in Nat
        BY <4>1
      <4> HIDE DEF StreamInv
      <4> QED BY <4>3, <4>4, <4>5
    <3>3. CASE CaptureWrites
      <4>1. /\ capture = "writing" /\ toWrite > 0 /\ written' = written + 1 /\ toWrite' = toWrite - 1
            /\ UNCHANGED <<capture, recording, header>>
        BY <3>3 DEF CaptureWrites
      <4>2. recording /\ Recorded /\ Recorded' /\ WavReadable
        BY <3>0, <4>1 DEF Recorded
      <4>3. WavReadable'
        <5>1. /\ written \in Nat /\ header \in Nat /\ header <= written /\ header <= written + 1
              /\ written' < WavLimit => written < WavLimit
          BY <4>1, StreamBounds
        <5> HIDE DEF StreamInv, WavInv
        <5> QED BY <3>0, <4>1, <4>2, <5>1 DEF WavReadable, RecordingKept
      <4>4. /\ written' \in Nat /\ header' \in Nat /\ toWrite' \in Nat /\ header' <= written'
            /\ written' + toWrite' = heard' /\ written' + toWrite' <= heard'
        BY <3>0, <4>1, <4>2
      <4>5. capture' = "writing" /\ recording'
        BY <4>1, <4>2
      <4> HIDE DEF StreamInv
      <4> QED BY <4>3, <4>4, <4>5
    <3>4. CASE CaptureUpdatesHeader
      <4>1. written \in Nat /\ WavLimit \in Nat /\ WavLimit > 0
        BY StreamBounds
      <4>2. written % WavLimit \in 0..(WavLimit - 1) /\ written % WavLimit <= written
        BY <4>1, RemainderBound
      <4>3. /\ header' = written % WavLimit /\ capture = "writing" /\ capture' = "loop"
            /\ toWrite = 0 /\ recording
            /\ UNCHANGED <<recording, toWrite, written>>
        BY <3>4 DEF CaptureUpdatesHeader, DataSize
      <4>4. written = heard
        BY <4>1, <4>3, <3>0 DEF Recorded
      <4>5. written < WavLimit => written % WavLimit = written
        BY <4>1, RemainderSmall
      <4>6. WavReadable'
        BY <3>0, <4>3, <4>4, <4>5 DEF WavReadable, RecordingKept
      <4> QED BY <3>0, <4>1, <4>2, <4>3, <4>4, <4>6 DEF Recorded
    <3> QED BY <1>2, <3>1, <3>2, <3>3, <3>4 DEF Capture
  <2>6. TextInv' /\ StepIsParts
    BY <2>1, TextStepHolds DEF StreamInv, StepIsParts
  <2> QED BY <2>2, <2>4, <2>5, <2>6 DEF StreamInv
<1> QED BY <1>1, <1>2

\* A step that leaves ring, recording and what was heard alone.
LEMMA QuietStep ==
  ASSUME StreamInv, [TextNext]_textVars, UNCHANGED <<ringVars, captureVars>>,
         WindowInv'
  PROVE  StreamInv' /\ StepIsParts
<1>1. TextInv'
  BY TextStepHolds DEF StreamInv
<1>2. RingInv'
  BY DEF StreamInv, RingInv, RingTypeOK, ringVars, captureVars, Get
<1>3. WavInv'
  BY DEF StreamInv, WavInv, WavReadable, RecordingKept, Recorded, captureVars
<1> QED BY <1>1, <1>2, <1>3 DEF StreamInv, StepIsParts

\* The steps of main().
LEMMA MainKeeps ==
  ASSUME StreamInv, Main
  PROVE  StreamInv' /\ StepIsParts
<1>0. /\ RingInv /\ WindowInv /\ RingTypeOK
      /\ {Step, Keep, Check, TailSize, Size} \subseteq Nat
      /\ heard \in Nat /\ len \in 0..Size /\ len <= heard
  BY StepAssumption, RingSizeAssumption DEF StreamInv, RingInv, RingTypeOK
<1>1. ASSUME UNCHANGED <<ringVars, captureVars, recent, old, window>>, [TextNext]_textVars,
             main' # "clear"
      PROVE  StreamInv' /\ StepIsParts
  <2>1. WindowInv'
    BY <1>0, <1>1 DEF WindowInv, ringVars, captureVars
  <2> QED BY <1>1, <2>1, QuietStep
<1>2. CASE MainLoads \/ MainFails \/ MainJoins
  BY <1>1, <1>2 DEF MainLoads, MainFails, MainJoins, MainGoes
<1>3. CASE MainReads
  <2>1. /\ recent' = Get(Step) /\ UNCHANGED <<ringVars, captureVars, textVars, old, window>>
    BY <1>3 DEF MainReads, MainGoes
  <2>2. /\ Get(Step) \in Seq(Nat) /\ Len(Get(Step)) <= len /\ Len(Get(Step)) \in Nat
        /\ \A k \in 1..Len(Get(Step)) : Get(Step)[k] = heard - Len(Get(Step)) + k
        /\ InOrder(Get(Step)) /\ Below(Get(Step), heard)
    <3>1. Step \in Nat
      BY <1>0
    <3>2. /\ Get(Step) \in Seq(Nat) /\ Len(Get(Step)) <= len
          /\ \A k \in 1..Len(Get(Step)) : Get(Step)[k] = heard - Len(Get(Step)) + k
          /\ InOrder(Get(Step)) /\ Below(Get(Step), heard)
      BY <1>0, <3>1, ReadIsNumbered, Zenon
    <3> QED BY <3>2, LenProperties
  <2>3. ASSUME NEW i \in 1..Len(old), NEW j \in 1..Len(Get(Step))
        PROVE  old[i] < Get(Step)[j]
    <3>1. old[i] <= heard - len /\ old[i] \in Nat
      BY <1>0, ElementOfSeq DEF WindowInv, Below
    <3>2. PICK g \in Nat : g = Len(Get(Step)) /\ g <= len
      BY <2>2
    <3>3. Get(Step)[j] = heard - g + j /\ j \in 1..g
      BY <2>2, <3>2
    <3>4. heard - len < heard - g + j
      BY <1>0, <3>2, <3>3
    <3> QED BY <1>0, <3>1, <3>3, <3>4
  <2>4. WindowInv'
    <3>1. Len(Get(Step)) <= Size
      BY <1>0, <2>2
    <3> QED BY <1>0, <2>1, <2>2, <2>3, <3>1 DEF WindowInv, ringVars, captureVars
  <2> QED BY <2>1, <2>4, QuietStep
<1>4. CASE MainClears
  <2> DEFINE room == Keep + Size - Len(recent)
             take == IF Len(old) < room THEN Len(old) ELSE room
             w == SubSeq(old, Len(old) - take + 1, Len(old)) \o recent
  <2>1. /\ main = "clear" /\ Clear /\ main' = "infer" /\ window' = w /\ old' = w
        /\ UNCHANGED <<textVars, captureVars, recent>>
    BY <1>4 DEF MainClears, Cleared
  <2>2. RingInv' /\ len' = 0 /\ heard' = heard
    BY <1>0, <2>1, ClearKeepsRing DEF captureVars
  <2>3. w \in Seq(Nat) /\ InOrder(w) /\ Below(w, heard)
    <3>1. /\ recent \in Seq(Nat) /\ old \in Seq(Nat) /\ InOrder(old) /\ InOrder(recent)
          /\ Below(recent, heard) /\ Len(recent) <= Size
          /\ \A i \in 1..Len(old), j \in 1..Len(recent) : old[i] < recent[j]
      BY <1>0, <2>1 DEF WindowInv
    <3>2. take \in 0..Len(old)
      BY <1>0, <3>1
    <3>3. Below(old, heard)
      BY <1>0, <3>1, ElementOfSeq DEF WindowInv, Below
    <3> HIDE DEF take
    <3> QED BY <1>0, <3>1, <3>2, <3>3, WindowJoins
  <2>4. WindowInv'
    <3> HIDE DEF w
    <3>1. recent' \in Seq(Nat) /\ old' = w /\ window' = w /\ main' # "clear"
      BY <1>0, <2>1 DEF WindowInv
    <3>2. heard' - len' = heard
      BY <1>0, <2>2
    <3> QED BY <2>3, <3>1, <3>2 DEF WindowInv
  <2>5. TextInv' /\ WavInv' /\ StepIsParts
    BY <2>1, TextStepHolds
       DEF StreamInv, WavInv, WavReadable, RecordingKept, Recorded, captureVars, StepIsParts, RingNext
  <2> QED BY <2>2, <2>4, <2>5 DEF StreamInv
<1>5. CASE MainHearsPause \/ MainHearsNone
  <2>1. /\ recent' = Get(Check) /\ UNCHANGED <<ringVars, captureVars, old, window>>
        /\ main' # "clear" /\ [TextNext]_textVars
    BY <1>5 DEF MainHearsPause, MainHearsNone, MainGoes, TextNext
  <2>2. Get(Check) \in Seq(Nat)
    BY <1>0, ReadIsNumbered
  <2>3. WindowInv'
    BY <1>0, <2>1, <2>2 DEF WindowInv, ringVars, captureVars
  <2> QED BY <2>1, <2>3, QuietStep
<1>6. CASE MainFetches
  <2>1. /\ window' = Get(Size) /\ UNCHANGED <<ringVars, captureVars, textVars, recent, old>>
        /\ main' # "clear"
    BY <1>6 DEF MainFetches, MainGoes
  <2>2. Get(Size) \in Seq(Nat) /\ InOrder(Get(Size))
    BY <1>0, ReadIsNumbered
  <2>3. WindowInv'
    BY <1>0, <2>1, <2>2 DEF WindowInv, ringVars, captureVars
  <2> QED BY <2>1, <2>3, QuietStep
<1>7. CASE MainInfers
  <2>1. PICK text \in TextsOf(window) : Recognized(text)
    BY <1>7 DEF MainInfers
  <2>2. text \in Seq(Words)
    BY <1>0, TextsAreTexts DEF WindowInv
  <2>3. TextNext
    BY <2>1, <2>2 DEF TextNext
  <2> QED BY <1>1, <1>7, <2>3 DEF MainInfers, MainGoes
<1> QED BY <1>2, <1>3, <1>4, <1>5, <1>6, <1>7 DEF Main

\* Every step of the program keeps the invariant and is a step of its parts.
LEMMA StreamStepHolds == StreamInv /\ [StreamNext]_streamVars => StreamInv' /\ StepIsParts
<1> SUFFICES ASSUME StreamInv, [StreamNext]_streamVars PROVE StreamInv' /\ StepIsParts
  OBVIOUS
<1>1. CASE Capture \/ DeviceFails
  BY <1>1, CaptureKeeps
<1>2. CASE Main
  BY <1>2, MainKeeps
<1>3. CASE Killed
  <2>1. /\ main' = "killed" /\ capture' = "killed" /\ recording' = FALSE /\ toWrite' = 0
        /\ UNCHANGED <<ringVars, textVars, heard, written, header, recent, old, window>>
    BY <1>3 DEF Killed
  <2>2. WavInv'
    BY <2>1 DEF StreamInv, WavInv, RingInv, WavReadable, RecordingKept, Recorded
  <2> QED BY <2>1, <2>2, TextStepHolds
          DEF StreamInv, RingInv, RingTypeOK, ringVars, Get, WindowInv, StepIsParts
<1>4. CASE Repaired
  <2>1. /\ header' = written /\ 0 < written
        /\ UNCHANGED <<ringVars, textVars, capture, heard, recording, toWrite, written, mainVars>>
    BY <1>4 DEF Repaired
  <2>2. WavInv'
    <3>1. heard \in Nat /\ written \in Nat /\ header \in Nat /\ header <= written /\ written <= heard
      BY <2>1 DEF StreamInv, WavInv, RingInv, Recorded
    <3> QED BY <2>1, <3>1 DEF StreamInv, WavInv, WavReadable, RecordingKept, Recorded
  <2>4. RingInv' /\ WindowInv'
    BY <2>1 DEF StreamInv, RingInv, RingTypeOK, ringVars, mainVars, Get, WindowInv
  <2> QED BY <2>1, <2>2, <2>4, TextStepHolds DEF StreamInv, StepIsParts
<1>5. CASE UNCHANGED streamVars
  <2>1. UNCHANGED <<ringVars, textVars, captureVars, main, recent, old, window>>
    BY <1>5 DEF streamVars, mainVars
  <2>2. WindowInv'
    BY <2>1 DEF StreamInv, WindowInv, ringVars, captureVars
  <2> QED BY <2>1, <2>2, QuietStep
<1> QED BY <1>1, <1>2, <1>3, <1>4, <1>5 DEF StreamNext

\* The program starts in the invariant.
LEMMA StreamInitHolds == StreamInit => StreamInv
<1> SUFFICES ASSUME StreamInit PROVE StreamInv
  OBVIOUS
<1>1. RingInv
  <2>1. RingTypeOK /\ heard = 0 /\ len = 0 /\ 1..len = {}
    BY RingInitHolds DEF StreamInit, RingInit
  <2> QED BY <2>1 DEF RingInv
<1>2. WindowInv
  <2>1. recent = <<>> /\ old = <<>> /\ window = <<>> /\ main = "load"
    BY DEF StreamInit
  <2>2. <<>> \in Seq(Nat) /\ 1..Len(<<>>) = {}
    OBVIOUS
  <2> QED BY <2>1, <2>2 DEF WindowInv, InOrder, Below
<1>3. WavInv
  BY DEF WavInv, WavReadable, RecordingKept, Recorded, StreamInit
<1> QED BY <1>1, <1>2, <1>3, TextInitHolds DEF StreamInv, StreamInit

\* The invariant of the program holds, and each of its steps is a step of the ring
\* and of the texts, or leaves them alone.
THEOREM StreamKeepsInvariant == StreamSpec => []StreamInv /\ [][StepIsParts]_streamVars
<1>1. StreamInv /\ [StreamNext]_streamVars => [StepIsParts]_streamVars
  BY StreamStepHolds
<1> QED BY <1>1, StreamInitHolds, StreamStepHolds, PTL DEF StreamSpec

\* The program is its ring, driven by its two threads: whatever they do, it implements
\* the promise of NewestSamples.
THEOREM StreamRingHoldsNewest == StreamSpec => RingHoldsNewest
<1>1. StreamInit => RingInit
  BY DEF StreamInit
<1>2. StreamInv /\ [StreamNext]_streamVars => StreamInv' /\ [RingNext]_ringVars
  BY StreamStepHolds DEF StepIsParts
<1>3. StreamSpec => RingSpec
  BY <1>1, <1>2, StreamInitHolds, PTL DEF StreamSpec, RingSpec
<1> QED BY <1>3, RingImplements

\* What was taken for final stands in the printed text whole, for every text and
\* every mode.
THEOREM StreamLosesNothing == StreamSpec => []NothingSaidIsLost
<1>1. StreamInv => NothingSaidIsLost
  BY DEF StreamInv, TextInv
<1> QED BY <1>1, StreamInitHolds, StreamStepHolds, PTL DEF StreamSpec

\* A preview that is over left nothing unsaid on the reader's unfinished line.
THEOREM StreamResolvesPreview == StreamSpec => []PreviewIsResolved
<1>1. StreamInv => PreviewIsResolved
  BY DEF StreamInv, TextInv
<1> QED BY <1>1, StreamInitHolds, StreamStepHolds, PTL DEF StreamSpec

\* No window has a sample twice or out of order, for every size of steps and ring.
THEOREM StreamWindowInOrder == StreamSpec => []WindowInOrder
<1>1. StreamInv => WindowInOrder
  <2> SUFFICES ASSUME StreamInv, NEW k \in 1..(Len(window) - 1)
               PROVE  window[k] < window[k + 1]
    BY DEF WindowInOrder
  <2>1. window \in Seq(Nat) /\ InOrder(window)
    BY DEF StreamInv, WindowInv
  <2>2. k \in 1..Len(window) /\ k + 1 \in 1..Len(window) /\ k < k + 1
    BY <2>1
  <2> QED BY <2>1, <2>2 DEF InOrder
<1> QED BY <1>1, StreamInitHolds, StreamStepHolds, PTL DEF StreamSpec

\* While the size of the WAV fits in 32 bits, a kill at any moment leaves a header that
\* covers all that was captured but at most one packet, whatever the packets are.
THEOREM StreamWavReadable == StreamSpec => []WavReadable
<1>1. StreamInv => WavReadable
  BY DEF StreamInv, WavInv, WavReadable
<1> QED BY <1>1, StreamInitHolds, StreamStepHolds, PTL DEF StreamSpec
=============================================================================
