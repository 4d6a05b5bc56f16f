---------------------------- MODULE CaptionProofs ----------------------------
(***************************************************************************)
(* Captions from the audio to the page.  Whoever applies every update of   *)
(* captions.rs has the transcript, and the page, which applies them in     *)
(* batches and sees jobs come and go, does: for any texts and merges,      *)
(* however many lines, sessions and reads.  And of the audio, in whatever  *)
(* blocks it comes, the segmenter makes finals that lose no speech and say *)
(* none twice: for all durations in the proportions of the code.           *)
(***************************************************************************)
EXTENDS CaptionView, Segmenter, SequenceTheorems, WellFoundedInduction, TLAPS

USE DEF capVars, mirrorVars, NoLine, Clean

-----------------------------------------------------------------------------
\* Transcripts are the short enough sequences of texts.
LEMMA LinesAreShort == \A s : s \in Lines <=> s \in Seq(Texts) /\ Len(s) <= MaxLines
<1>1. ASSUME NEW s \in Lines PROVE s \in Seq(Texts) /\ Len(s) <= MaxLines
  <2>1. PICK n \in 0..MaxLines : s \in [1..n -> Texts]
    BY DEF Lines
  <2> QED BY <2>1, SeqDef, MaxLinesAssumption
<1>2. ASSUME NEW s \in Seq(Texts), Len(s) <= MaxLines PROVE s \in Lines
  <2>1. s \in [1..Len(s) -> Texts] /\ Len(s) \in 0..MaxLines
    BY <1>2, LenProperties, MaxLinesAssumption
  <2> QED BY <2>1 DEF Lines
<1> QED BY <1>1, <1>2

\* The empty transcript is one.
LEMMA NoLines == <<>> \in Lines
<1>1. <<>> \in Seq(Texts) /\ Len(<<>>) = 0 /\ 0 <= MaxLines
  BY EmptySeq, MaxLinesAssumption
<1> QED BY <1>1, LinesAreShort

\* What stands before a place of a transcript: a transcript, and the same one when
\* lines are put behind it.
LEMMA BeforePlace ==
  ASSUME NEW s \in Seq(Texts), NEW n \in 0..Len(s), NEW t \in Texts
  PROVE  /\ SubSeq(s, 1, n) \in Seq(Texts) /\ Len(SubSeq(s, 1, n)) = n
         /\ Append(SubSeq(s, 1, n), t) \in Seq(Texts)
         /\ Len(Append(SubSeq(s, 1, n), t)) = n + 1
         /\ \A m \in 0..n : SubSeq(Append(SubSeq(s, 1, n), t), 1, m) = SubSeq(s, 1, m)
<1>1. \A i \in 1..n : s[i] \in Texts
  BY ElementOfSeq
<1>2. SubSeq(s, 1, n) \in Seq(Texts) /\ Len(SubSeq(s, 1, n)) = n
      /\ \A i \in 1..n : SubSeq(s, 1, n)[i] = s[i]
  BY <1>1, SubSeqProperties
<1> DEFINE u == Append(SubSeq(s, 1, n), t)
<1>3. u \in Seq(Texts) /\ Len(u) = n + 1 /\ \A i \in 1..n : u[i] = s[i]
  BY <1>2
<1> HIDE DEF u
<1>4. ASSUME NEW m \in 0..n PROVE SubSeq(u, 1, m) = SubSeq(s, 1, m)
  <2>1. \A i \in 1..m : u[i] \in Texts /\ s[i] \in Texts /\ u[i] = s[i]
    BY <1>1, <1>3
  <2>2. /\ SubSeq(u, 1, m) \in Seq(Texts) /\ Len(SubSeq(u, 1, m)) = m
        /\ \A i \in 1..m : SubSeq(u, 1, m)[i] = u[i]
    BY <2>1, SubSeqProperties
  <2>3. /\ SubSeq(s, 1, m) \in Seq(Texts) /\ Len(SubSeq(s, 1, m)) = m
        /\ \A i \in 1..m : SubSeq(s, 1, m)[i] = s[i]
    BY <2>1, SubSeqProperties
  <2> QED BY <2>1, <2>2, <2>3, SeqEqual
<1> QED BY <1>2, <1>3, <1>4 DEF u

\* Two transcripts that agree up to a place agree up to every earlier one.
LEMMA EarlierPlace ==
  ASSUME NEW s \in Seq(Texts), NEW r \in Seq(Texts), NEW n \in 0..Len(s), n <= Len(r),
         SubSeq(s, 1, n) = SubSeq(r, 1, n), NEW m \in 0..n
  PROVE  SubSeq(s, 1, m) = SubSeq(r, 1, m)
<1>1. n \in 0..Len(r) /\ m \in 0..Len(s) /\ m \in 0..Len(r) /\ Len(r) \in Nat
  OBVIOUS
<1>2. CASE m = 0
  BY <1>2, SubSeqEmpty
<1>3. CASE m # 0
  <2>1. SubSeq(SubSeq(s, 1, n), 1, m) = SubSeq(s, 1, m)
    BY <1>1, <1>3, SubSeqOfSubSeq
  <2>2. SubSeq(SubSeq(r, 1, n), 1, m) = SubSeq(r, 1, m)
    BY <1>1, <1>3, SubSeqOfSubSeq
  <2> QED BY <2>1, <2>2
<1> QED BY <1>2, <1>3

-----------------------------------------------------------------------------
\* The parts of MirrorInv that the lines, and that the unfinished line, are in.
LinesInv ==
  /\ lines \in Lines /\ mirror \in Lines
  /\ dirtyFrom \in {Clean} \cup 0..MaxLines
  /\ IF dirtyFrom = Clean
     THEN mirror = lines
     ELSE /\ dirtyFrom <= Len(mirror) /\ dirtyFrom < Len(lines)
          /\ SubSeq(lines, 1, dirtyFrom) = SubSeq(mirror, 1, dirtyFrom)

PartialInv ==
  /\ loopback \in BOOLEAN /\ partialDirty \in BOOLEAN
  /\ partial \in {NoLine} \cup {{t} : t \in Texts}
  /\ mirrorPartial \in {NoLine} \cup {{t} : t \in Texts}
  /\ partialDirty \/ mirrorPartial = partial

\* A line put behind the first `start` lines, which stand as they were, is marked.
LEMMA RewriteKeeps ==
  ASSUME LinesInv, NEW start \in 0..Len(lines), start < MaxLines, NEW line \in Texts,
         dirtyFrom' = Marked(start), lines' = Append(SubSeq(lines, 1, start), line),
         mirror' = mirror
  PROVE  LinesInv'
<1>1. lines \in Seq(Texts) /\ mirror \in Seq(Texts) /\ Len(lines) \in Nat /\ Len(mirror) \in Nat
      /\ start \in Nat /\ MaxLines \in Nat
  BY LinesAreShort, MaxLinesAssumption DEF LinesInv
<1>2. /\ lines' \in Seq(Texts) /\ Len(lines') = start + 1
      /\ \A m \in 0..start : SubSeq(lines', 1, m) = SubSeq(lines, 1, m)
  BY <1>1, BeforePlace
<1>3. lines' \in Lines
  <2>1. Len(lines') <= MaxLines
    BY <1>1, <1>2
  <2> QED BY <1>2, <2>1, LinesAreShort
<1>4. CASE dirtyFrom = Clean
  <2>1. dirtyFrom' = start /\ mirror = lines
    BY <1>4 DEF Marked, LinesInv
  <2> QED BY <1>1, <1>2, <1>3, <2>1 DEF LinesInv
<1>5. CASE dirtyFrom # Clean
  <2>1. /\ dirtyFrom \in 0..MaxLines /\ dirtyFrom <= Len(mirror) /\ dirtyFrom < Len(lines)
        /\ SubSeq(lines, 1, dirtyFrom) = SubSeq(mirror, 1, dirtyFrom)
    BY <1>5 DEF LinesInv
  <2>2. dirtyFrom' \in 0..start /\ dirtyFrom' \in 0..dirtyFrom
    BY <1>1, <1>5, <2>1 DEF Marked
  <2>3. SubSeq(lines, 1, dirtyFrom') = SubSeq(mirror, 1, dirtyFrom')
    BY <1>1, <2>1, <2>2, EarlierPlace
  <2> QED BY <1>1, <1>2, <1>3, <2>1, <2>2, <2>3 DEF LinesInv
<1> QED BY <1>4, <1>5

\* A pushed line stands behind all of them.
LEMMA PushKeeps ==
  ASSUME LinesInv, NEW line \in Texts, Push(line), mirror' = mirror
  PROVE  LinesInv'
<1>1. lines \in Seq(Texts) /\ Len(lines) \in Nat /\ Len(lines) < MaxLines
  BY LinesAreShort DEF LinesInv, Push
<1>2. SubSeq(lines, 1, Len(lines)) = lines
  BY <1>1, SubSeqFull
<1> QED BY <1>1, <1>2, RewriteKeeps DEF Push

\* Whatever becomes of a final text, the first line that changed is marked.
LEMMA MergeKeeps ==
  ASSUME LinesInv, NEW line \in Texts, Merge(line), mirror' = mirror
  PROVE  LinesInv'
<1>1. CASE KeepLines
  BY <1>1 DEF KeepLines, LinesInv
<1>2. CASE Push(line)
  BY <1>2, PushKeeps
<1>3. ASSUME NEW count \in 1..4, count <= Len(lines), ReplaceTail(Len(lines) - count, line)
      PROVE  LinesInv'
  <2>1. /\ lines \in Seq(Texts) /\ Len(lines) \in Nat /\ Len(lines) <= MaxLines
        /\ MaxLines \in Nat
    BY LinesAreShort, MaxLinesAssumption DEF LinesInv
  <2>2. Len(lines) - count \in 0..Len(lines) /\ Len(lines) - count < MaxLines
    BY <1>3, <2>1
  <2>3. CASE SameTail(Len(lines) - count, line)
    BY <1>3, <2>3 DEF ReplaceTail, LinesInv
  <2>4. CASE ~SameTail(Len(lines) - count, line)
    BY <1>3, <2>2, <2>4, RewriteKeeps DEF ReplaceTail
  <2> QED BY <2>3, <2>4
<1> QED BY <1>1, <1>2, <1>3 DEF Merge

\* No line of output is taken in unmarked.
LEMMA IngestKeeps == MirrorInv /\ Ingest => MirrorInv'
<1> SUFFICES ASSUME LinesInv, PartialInv, Ingest PROVE LinesInv' /\ PartialInv'
  BY DEF MirrorInv, CapTypeOK, LinesInv, PartialInv
<1>1. mirror' = mirror /\ mirrorPartial' = mirrorPartial /\ loopback' = loopback
  BY DEF Ingest, IngestPartial, IngestFinal, IngestLoopbackFinal, IngestLoopbackLine, IngestStamped
<1>2. LinesInv'
  <2>1. CASE IngestPartial
    BY <2>1 DEF IngestPartial, LinesInv
  <2>2. CASE IngestFinal \/ IngestStamped
    <3>1. KeepLines \/ \E t \in Texts : Push(t)
      BY <2>2 DEF IngestFinal, IngestStamped, CommitUtterance
    <3> QED BY <1>1, <3>1, PushKeeps DEF KeepLines, LinesInv
  <2>3. CASE IngestLoopbackFinal \/ IngestLoopbackLine
    <3>1. \E t \in Texts : Merge(t)
      BY <2>3 DEF IngestLoopbackFinal, IngestLoopbackLine
    <3> QED BY <1>1, <3>1, MergeKeeps
  <2> QED BY <2>1, <2>2, <2>3 DEF Ingest
<1>3. PartialInv'
  <2>1. \/ \E line \in {NoLine} \cup {{t} : t \in Partials} : SetPartial(line)
        \/ UNCHANGED <<partial, partialDirty>>
    BY DEF Ingest, IngestPartial, IngestFinal, IngestLoopbackFinal, IngestLoopbackLine, IngestStamped
  <2> QED BY <1>1, <2>1, PartialsAssumption DEF SetPartial, PartialInv
<1> QED BY <1>2, <1>3

\* After an update the observer has the transcript.
LEMMA UpdateKeeps == MirrorInv /\ TakeUpdate => MirrorInv'
<1> SUFFICES ASSUME LinesInv, PartialInv, TakeUpdate PROVE LinesInv' /\ PartialInv'
  BY DEF MirrorInv, CapTypeOK, LinesInv, PartialInv
<1>1. lines \in Seq(Texts) /\ mirror \in Seq(Texts) /\ Len(lines) \in Nat /\ Len(mirror) \in Nat
  BY LinesAreShort DEF LinesInv
<1>2. /\ From \in 0..Len(lines) /\ From <= Len(mirror)
      /\ SubSeq(mirror, 1, From) = SubSeq(lines, 1, From)
  <2>1. CASE dirtyFrom = Clean
    BY <1>1, <2>1 DEF From, LinesInv
  <2>2. CASE dirtyFrom # Clean
    BY <1>1, <2>2, MaxLinesAssumption DEF From, LinesInv
  <2> QED BY <2>1, <2>2
<1>3. SubSeq(lines, 1, From) \o SubSeq(lines, From + 1, Len(lines)) = lines
  <2>1. SubSeq(lines, 1, From) \o SubSeq(lines, From + 1, Len(lines)) = SubSeq(lines, 1, Len(lines))
    <3>1. 1 \in 1..(Len(lines) + 1) /\ From \in (1 - 1)..Len(lines) /\ Len(lines) \in From..Len(lines)
      BY <1>1, <1>2
    <3> QED BY <1>1, <3>1, ConcatAdjacentSubSeq
  <2> QED BY <1>1, <2>1, SubSeqFull
<1>4. (IF From < Len(mirror) THEN From ELSE Len(mirror)) = From
  BY <1>1, <1>2
<1>5. mirror' = lines
  BY <1>2, <1>3, <1>4 DEF TakeUpdate, Patched, Update
<1>6. mirrorPartial' = partial
  BY DEF TakeUpdate, Update
<1> QED BY <1>5, <1>6 DEF TakeUpdate, LinesInv, PartialInv

\* A new reader has a transcript of its own, empty as the page's.
LEMMA FreshKeeps == ASSUME NEW stream \in BOOLEAN, Fresh(stream) PROVE MirrorInv'
BY NoLines DEF MirrorInv, CapTypeOK, Fresh

-----------------------------------------------------------------------------
\* MirrorInv: an observer that applies every update is behind by what the next one
\* reports and by nothing else, whatever is merged into which line.
THEOREM MirrorHolds == VSpec => []MirrorInv
<1>1. VInit => MirrorInv
  BY NoLines DEF VInit, MirrorInv, CapTypeOK
<1>2. MirrorInv /\ [VNext]_vvars => MirrorInv'
  <2> SUFFICES ASSUME MirrorInv, [VNext]_vvars PROVE MirrorInv'
    OBVIOUS
  <2>1. CASE UNCHANGED <<capVars, mirrorVars>>
    BY <2>1 DEF MirrorInv, CapTypeOK
  <2>2. CASE BackendStarts
    BY <2>2, FreshKeeps DEF BackendStarts
  <2>3. CASE ReaderIngests
    BY <2>3, IngestKeeps DEF ReaderIngests
  <2>4. CASE ReaderSends
    BY <2>4, UpdateKeeps DEF ReaderSends
  <2>5. CASE BackendRefuses \/ JobExits \/ VPage \/ UNCHANGED vvars
    BY <2>1, <2>5 DEF BackendRefuses, JobExits, VPage, PageRuns, PageHearsReply, PageHears,
                      PageFlushes, vvars
  <2> QED BY <2>2, <2>3, <2>4, <2>5 DEF VNext, VBackend
<1> QED BY <1>1, <1>2, PTL DEF VSpec

-----------------------------------------------------------------------------
(* Counting up: what a function defined from each place to the next is. *)

\* A set of numbers that is not empty has a least one.
LEMMA LeastNumber ==
  ASSUME NEW T \in SUBSET Nat, T # {}
  PROVE  \E x \in T : \A y \in T : x <= y
<1> DEFINE R == OpToRel(<, Nat)
<1>1. IsWellFoundedOn(R, Nat)
  BY NatLessThanWellFounded
<1> HIDE DEF R
<1>2. PICK x \in T : \A y \in T : ~(<<y, x>> \in R)
  BY <1>1, WFMin
<1>3. \A y \in T : <<y, x>> \in R <=> y < x
  BY DEF R, OpToRel
<1>4. \A y \in T : x \in Nat /\ y \in Nat /\ ~(y < x)
  BY <1>2, <1>3
<1> QED BY <1>4

\* A set with 0 and with the successors of its members has every number.
LEMMA CountingUp ==
  ASSUME NEW P \in SUBSET Nat, 0 \in P, \A n \in P : n + 1 \in P
  PROVE  \A n \in Nat : n \in P
<1> SUFFICES ASSUME Nat \ P # {} PROVE FALSE
  OBVIOUS
<1>1. PICK x \in Nat \ P : \A y \in Nat \ P : x <= y
  BY LeastNumber
<1>2. x # 0 /\ x - 1 \in Nat
  BY <1>1
<1>3. x - 1 \in P
  BY <1>1, <1>2
<1> QED BY <1>1, <1>2, <1>3

\* So has one with 0 and with each of some numbers after the one before.
LEMMA StepByStep ==
  ASSUME NEW N \in Nat, NEW P \in SUBSET Nat, 0 \in P, \A n \in 1..N : n - 1 \in P => n \in P
  PROVE  \A n \in 0..N : n \in P
<1> DEFINE D == (0..N) \ P
<1> SUFFICES ASSUME D # {} PROVE FALSE
  OBVIOUS
<1>1. PICK n \in D : \A m \in D : n <= m
  <2>1. D \in SUBSET Nat
    OBVIOUS
  <2> HIDE DEF D
  <2> QED BY <2>1, LeastNumber
<1>2. n \in 1..N /\ n - 1 \in 0..N /\ n - 1 \notin D
  BY <1>1
<1> QED BY <1>1, <1>2

\* There is a function that starts and goes on as one likes.
LEMMA StepsExist ==
  ASSUME NEW V, NEW a \in V, NEW N \in Nat, NEW step \in [1..N -> [V -> V]]
  PROVE  \E f \in [0..N -> V] : f[0] = a /\ \A n \in 1..N : f[n] = step[n][f[n - 1]]
<1> DEFINE Goes(f, n) == f[0] = a /\ \A k \in 1..n : f[k] = step[k][f[k - 1]]
           P == {n \in Nat : n <= N => \E f \in [0..n -> V] : Goes(f, n)}
<1>1. 0 \in P
  <2>1. [k \in 0..0 |-> a] \in [0..0 -> V] /\ Goes([k \in 0..0 |-> a], 0)
    OBVIOUS
  <2> QED BY <2>1
<1>2. ASSUME NEW n \in P PROVE n + 1 \in P
  <2>1. CASE n + 1 <= N
    <3>1. PICK f \in [0..n -> V] : Goes(f, n)
      BY <2>1
    <3> DEFINE g == [k \in 0..(n + 1) |-> IF k <= n THEN f[k] ELSE step[n + 1][f[n]]]
    <3>2. n + 1 \in 1..N /\ n \in 0..n /\ f[n] \in V /\ step[n + 1][f[n]] \in V
      BY <2>1, <3>1
    <3>3. g \in [0..(n + 1) -> V]
      BY <3>1, <3>2
    <3>4. g[0] = a
      BY <3>1
    <3>5. ASSUME NEW k \in 1..(n + 1) PROVE g[k] = step[k][g[k - 1]]
      <4>1. CASE k <= n
        <5>1. k \in 1..n /\ k - 1 \in 0..n /\ k \in 0..(n + 1) /\ k - 1 \in 0..(n + 1)
          BY <4>1
        <5> QED BY <3>1, <4>1, <5>1
      <4>2. CASE k = n + 1
        <5>1. k - 1 = n /\ n \in 0..(n + 1) /\ k \in 0..(n + 1) /\ ~(k <= n)
          BY <4>2
        <5> QED BY <3>1, <4>2, <5>1
      <4> QED BY <4>1, <4>2
    <3> HIDE DEF g
    <3>6. Goes(g, n + 1)
      BY <3>4, <3>5
    <3> HIDE DEF Goes
    <3>7. \E f2 \in [0..(n + 1) -> V] : Goes(f2, n + 1)
      BY <3>3, <3>6
    <3> QED BY <3>7
  <2> QED BY <2>1
<1>3. \A n \in Nat : n \in P
  <2> HIDE DEF P
  <2> QED BY <1>1, <1>2, CountingUp DEF P
<1> QED BY <1>3

-----------------------------------------------------------------------------
(* What the updates on their way will do. *)

\* PatchedUpTo is any account of the lines after each update.
LEMMA PatchedSteps ==
  ASSUME NEW updates, NEW N \in Nat, N = Len(updates), NEW V, NEW T \in [0..N -> V],
         \A n \in 1..N : T[n] = Patched(T[n - 1], updates[n])
  PROVE  \A n \in 0..N : PatchedUpTo(T[0], updates)[n] = T[n]
<1> DEFINE F(f) == [n \in 0..N |-> IF n = 0 THEN T[0] ELSE Patched(f[n - 1], updates[n])]
           P == PatchedUpTo(T[0], updates)
<1>1. T = F(T)
  <2>1. ASSUME NEW n \in 0..N
        PROVE  T[n] = IF n = 0 THEN T[0] ELSE Patched(T[n - 1], updates[n])
    <3>1. n = 0 \/ n \in 1..N
      OBVIOUS
    <3> QED BY <3>1
  <2> QED BY <2>1
<1>2. P = CHOOSE f : f = F(f)
  BY DEF PatchedUpTo
<1> HIDE DEF P, F
<1>3. P = F(P)
  BY <1>1, <1>2
<1>4. P[0] = T[0] /\ \A n \in 1..N : P[n] = Patched(P[n - 1], updates[n])
  BY <1>3 DEF F
<1>5. \A n \in 1..N : P[n - 1] = T[n - 1] => P[n] = T[n]
  BY <1>4
<1>6. \A n \in 0..N : P[n] = T[n]
  <2> DEFINE S == {n \in 0..N : P[n] = T[n]}
  <2>1. S \in SUBSET Nat /\ 0 \in S
    BY <1>4
  <2>2. ASSUME NEW n \in 1..N, n - 1 \in S PROVE n \in S
    BY <1>5, <2>2
  <2> HIDE DEF S
  <2>3. \A n \in 0..N : n \in S
    BY <2>1, <2>2, StepByStep
  <2> QED BY <2>3 DEF S
<1> QED BY <1>6 DEF P

Updates == [from : Nat, lines : Seq(Texts), partial : SUBSET Texts]

After(sequence, number, before, n) ==
  IF IsUpdate(sequence[n], number) THEN Append(before, sequence[n].update) ELSE before

Sendable == [type : {"start", "exit"}, job : Nat]
            \cup [type : {"captions"}, job : Nat, update : Updates]

\* UpdatesUpTo is the account of the updates among the first events.
LEMMA UpdatesSteps ==
  ASSUME NEW sequence \in Seq(Sendable), NEW number
  PROVE  /\ UpdatesUpTo(sequence, number) \in [0..Len(sequence) -> Seq(Updates)]
         /\ UpdatesUpTo(sequence, number)[0] = <<>>
         /\ \A n \in 1..Len(sequence) :
              UpdatesUpTo(sequence, number)[n]
                = After(sequence, number, UpdatesUpTo(sequence, number)[n - 1], n)
<1> DEFINE F(f) == [n \in 0..Len(sequence) |->
                      IF n = 0 THEN <<>>
                      ELSE IF IsUpdate(sequence[n], number) THEN Append(f[n - 1], sequence[n].update)
                      ELSE f[n - 1]]
           C == UpdatesUpTo(sequence, number)
           step == [n \in 1..Len(sequence) |->
                      [v \in Seq(Updates) |-> After(sequence, number, v, n)]]
<1>0. PICK N \in Nat : N = Len(sequence)
  BY LenProperties
<1>1. N \in Nat /\ step \in [1..N -> [Seq(Updates) -> Seq(Updates)]]
  <2>1. ASSUME NEW n \in 1..Len(sequence), NEW v \in Seq(Updates)
        PROVE  After(sequence, number, v, n) \in Seq(Updates)
    <3>1. sequence[n] \in Sendable
      BY ElementOfSeq
    <3>2. IsUpdate(sequence[n], number) => sequence[n].update \in Updates
      BY <3>1 DEF IsUpdate, Sendable
    <3> QED BY <3>2, AppendProperties DEF After
  <2> QED BY <1>0, <2>1, LenProperties
<1>2. PICK U \in [0..N -> Seq(Updates)] :
        U[0] = <<>> /\ \A n \in 1..N : U[n] = step[n][U[n - 1]]
  <2>1. <<>> \in Seq(Updates)
    BY EmptySeq
  <2>2. PICK V, go, a : V = Seq(Updates) /\ go = step /\ a = <<>>
    OBVIOUS
  <2>3. go \in [1..N -> [V -> V]] /\ a \in V
    BY <1>1, <2>1, <2>2
  <2>4. \E f \in [0..N -> V] : f[0] = a /\ \A n \in 1..N : f[n] = go[n][f[n - 1]]
    BY <2>3, StepsExist
  <2> QED BY <2>2, <2>4
<1>3. \A n \in 1..N : U[n] = After(sequence, number, U[n - 1], n)
  <2>1. \A n \in 1..N : U[n - 1] \in Seq(Updates)
    BY <1>1
  <2> QED BY <1>0, <1>2, <2>1
<1>4. U = F(U)
  <2>1. ASSUME NEW n \in 0..N PROVE U[n] = F(U)[n]
    <3>1. n = 0 \/ n \in 1..N
      BY <1>1
    <3> QED BY <1>0, <1>2, <1>3, <3>1 DEF After
  <2> QED BY <1>0, <2>1
<1>5. C = CHOOSE f : f = F(f)
  BY DEF UpdatesUpTo
<1> HIDE DEF F, C
<1>6. C = F(C)
  BY <1>4, <1>5
<1>7. C[0] = <<>> /\ \A n \in 1..N : C[n] = After(sequence, number, C[n - 1], n)
  <2>1. \A n \in 0..N : C[n] = F(C)[n]
    BY <1>6
  <2>2. C[0] = <<>>
    BY <1>0, <1>1, <2>1 DEF F
  <2>3. ASSUME NEW n \in 1..N PROVE C[n] = After(sequence, number, C[n - 1], n)
    <3>1. n \in 0..N /\ n # 0
      BY <1>1
    <3>2. C[n] = F(C)[n]
      BY <2>1, <3>1
    <3> QED BY <1>0, <3>1, <3>2 DEF F, After
  <2> QED BY <2>2, <2>3
<1>8. \A n \in 0..N : C[n] = U[n]
  <2> DEFINE P == {n \in 0..N : C[n] = U[n]}
  <2>1. P \in SUBSET Nat /\ 0 \in P
    BY <1>2, <1>7
  <2>2. ASSUME NEW n \in 1..N, n - 1 \in P PROVE n \in P
    BY <1>3, <1>7, <2>2
  <2> HIDE DEF P
  <2>3. \A n \in 0..N : n \in P
    BY <2>1, <2>2, StepByStep
  <2> QED BY <2>3 DEF P
<1>9. C \in [0..N -> Seq(Updates)]
  <2>1. C = [n \in 0..N |-> C[n]]
    BY <1>0, <1>6 DEF F
  <2>2. \A n \in 0..N : C[n] \in Seq(Updates)
    BY <1>8
  <2> QED BY <2>1, <2>2
<1> QED BY <1>0, <1>7, <1>9 DEF C

\* No event, no update.
LEMMA UpdatesOfNone == ASSUME NEW number PROVE UpdatesIn(<<>>, number) = <<>>
<1>1. <<>> \in Seq(Sendable) /\ Len(<<>>) = 0
  BY EmptySeq
<1> QED BY <1>1, UpdatesSteps DEF UpdatesIn

\* Updates are some, and an event that is sent is one more of them or none.
LEMMA UpdatesAppend ==
  ASSUME NEW s \in Seq(Sendable), NEW e \in Sendable, NEW number
  PROVE  /\ UpdatesIn(s, number) \in Seq(Updates)
         /\ UpdatesIn(Append(s, e), number)
              = IF IsUpdate(e, number) THEN Append(UpdatesIn(s, number), e.update)
                ELSE UpdatesIn(s, number)
<1>0. PICK N \in Nat : N = Len(s)
  BY LenProperties
<1>1. PICK t : t = Append(s, e)
  OBVIOUS
<1>2. /\ N \in Nat /\ t \in Seq(Sendable) /\ Len(t) = N + 1 /\ t[N + 1] = e
      /\ \A n \in 1..N : t[n] = s[n]
  BY <1>0, <1>1, AppendProperties
<1>3. PICK U, W : U = UpdatesUpTo(s, number) /\ W = UpdatesUpTo(t, number)
  OBVIOUS
<1>4. /\ U \in [0..N -> Seq(Updates)] /\ U[0] = <<>> /\ UpdatesIn(s, number) = U[N]
      /\ \A n \in 1..N : U[n] = After(s, number, U[n - 1], n)
  BY <1>0, <1>3, UpdatesSteps DEF UpdatesIn
<1>5. /\ W[0] = <<>> /\ UpdatesIn(t, number) = W[N + 1]
      /\ \A n \in 1..(N + 1) : W[n] = After(t, number, W[n - 1], n)
  BY <1>2, <1>3, UpdatesSteps DEF UpdatesIn
<1>6. ASSUME NEW n \in 1..N, W[n - 1] = U[n - 1] PROVE W[n] = U[n]
  <2>1. n \in 1..(N + 1)
    BY <1>2
  <2> QED BY <1>2, <1>4, <1>5, <1>6, <2>1 DEF After
<1>7. W[N] = U[N]
  <2> DEFINE P == {n \in 0..N : W[n] = U[n]}
  <2>1. P \in SUBSET Nat /\ 0 \in P
    BY <1>4, <1>5
  <2>2. ASSUME NEW n \in 1..N, n - 1 \in P PROVE n \in P
    BY <1>6, <2>2
  <2> HIDE DEF P
  <2>3. \A n \in 0..N : n \in P
    BY <2>1, <2>2, StepByStep
  <2> QED BY <2>3 DEF P
<1>8. W[N + 1] = After(t, number, W[N], N + 1)
  <2>1. N + 1 \in 1..(N + 1) /\ (N + 1) - 1 = N
    BY <1>2
  <2> QED BY <1>5, <2>1
<1>9. U[N] \in Seq(Updates)
  BY <1>2, <1>4
<1> QED BY <1>1, <1>2, <1>4, <1>5, <1>7, <1>8, <1>9 DEF After

\* What is put behind what stands behind a first part.
LEMMA AppendBehind ==
  ASSUME NEW h \in Seq(Updates), NEW v \in Seq(Updates), NEW x \in Updates
  PROVE  Append(h \o v, x) = h \o Append(v, x)
<1>1. h \o v \in Seq(Updates) /\ <<x>> \in Seq(Updates)
  BY ConcatProperties
<1>2. Append(h \o v, x) = (h \o v) \o <<x>> /\ Append(v, x) = v \o <<x>>
  BY <1>1, AppendIsConcat
<1> QED BY <1>1, <1>2, ConcatAssociative

\* The first event on its way is the first of them or none.
LEMMA UpdatesTail ==
  ASSUME NEW s \in Seq(Sendable), s # <<>>, NEW number
  PROVE  /\ Tail(s) \in Seq(Sendable) /\ s[1] \in Sendable
         /\ UpdatesIn(Tail(s), number) \in Seq(Updates)
         /\ IsUpdate(s[1], number) => s[1].update \in Updates
         /\ UpdatesIn(s, number)
              = IF IsUpdate(s[1], number) THEN <<s[1].update>> \o UpdatesIn(Tail(s), number)
                ELSE UpdatesIn(Tail(s), number)
<1>0. PICK t : t = Tail(s)
  OBVIOUS
<1>1. PICK N \in Nat : N = Len(t)
  BY <1>0, HeadTailProperties, LenProperties
<1>2. /\ t \in Seq(Sendable) /\ Len(s) = N + 1 /\ N \in Nat /\ s[1] \in Sendable
      /\ \A n \in 1..N : t[n] = s[n + 1] /\ t[n] \in Sendable
  <2>1. /\ t \in Seq(Sendable) /\ Len(t) = Len(s) - 1 /\ Len(s) \in Nat \ {0}
        /\ \A n \in 1..Len(t) : t[n] = s[n + 1]
    BY <1>0, HeadTailProperties, LenProperties, EmptySeq
  <2>2. Len(s) = N + 1 /\ N \in Nat /\ s[1] \in Sendable
    BY <1>1, <2>1, ElementOfSeq
  <2> QED BY <1>1, <2>1, <2>2, ElementOfSeq
<1>3. PICK U, W : U = UpdatesUpTo(t, number) /\ W = UpdatesUpTo(s, number)
  OBVIOUS
<1>4. /\ U \in [0..N -> Seq(Updates)] /\ U[0] = <<>> /\ UpdatesIn(t, number) = U[N]
      /\ \A n \in 1..N : U[n] = After(t, number, U[n - 1], n)
  BY <1>1, <1>2, <1>3, UpdatesSteps DEF UpdatesIn
<1>5. /\ W[0] = <<>> /\ UpdatesIn(s, number) = W[N + 1]
      /\ \A n \in 1..(N + 1) : W[n] = After(s, number, W[n - 1], n)
  BY <1>2, <1>3, UpdatesSteps DEF UpdatesIn
<1>6. PICK h : h = IF IsUpdate(s[1], number) THEN <<s[1].update>> ELSE <<>>
  OBVIOUS
<1>7. /\ IsUpdate(s[1], number) => s[1].update \in Updates
      /\ h \in Seq(Updates) /\ h \o <<>> = h
  <2>1. IsUpdate(s[1], number) => s[1].update \in Updates
    BY <1>2 DEF IsUpdate, Sendable
  <2>2. h \in Seq(Updates)
    BY <1>6, <2>1
  <2> QED BY <2>1, <2>2, ConcatEmptySeq
<1>8. W[1] = h
  <2>1. 1 \in 1..(N + 1) /\ 1 - 1 = 0
    BY <1>2
  <2>2. W[1] = After(s, number, <<>>, 1)
    BY <1>5, <2>1
  <2> QED BY <1>6, <2>2 DEF After
<1>9. ASSUME NEW n \in 1..N, W[n] = h \o U[n - 1] PROVE W[n + 1] = h \o U[n]
  <2>1. n + 1 \in 1..(N + 1) /\ (n + 1) - 1 = n /\ U[n - 1] \in Seq(Updates)
    BY <1>2, <1>4
  <2>2. t[n] = s[n + 1] /\ t[n] \in Sendable
    BY <1>2
  <2>3. /\ W[n + 1] = IF IsUpdate(t[n], number) THEN Append(W[n], t[n].update) ELSE W[n]
        /\ U[n] = IF IsUpdate(t[n], number) THEN Append(U[n - 1], t[n].update) ELSE U[n - 1]
    BY <1>4, <1>5, <2>1, <2>2 DEF After
  <2>4. IsUpdate(t[n], number) => t[n].update \in Updates
    BY <2>2 DEF IsUpdate, Sendable
  <2>5. CASE IsUpdate(t[n], number)
    <3>1. Append(h \o U[n - 1], t[n].update) = h \o Append(U[n - 1], t[n].update)
      BY <1>7, <2>1, <2>4, <2>5, AppendBehind
    <3> QED BY <1>9, <2>3, <2>5, <3>1
  <2>6. CASE ~IsUpdate(t[n], number)
    BY <1>9, <2>3, <2>6
  <2> QED BY <2>5, <2>6
<1>10. W[N + 1] = h \o U[N]
  <2> DEFINE P == {n \in 0..N : W[n + 1] = h \o U[n]}
  <2>1. P \in SUBSET Nat /\ 0 \in P
    <3>1. W[0 + 1] = h \o U[0]
      BY <1>4, <1>7, <1>8
    <3> QED BY <3>1
  <2>2. ASSUME NEW n \in 1..N, n - 1 \in P PROVE n \in P
    <3>1. (n - 1) + 1 = n
      OBVIOUS
    <3>2. W[n] = h \o U[n - 1]
      BY <2>2, <3>1
    <3>3. W[n + 1] = h \o U[n]
      BY <1>9, <3>2
    <3> QED BY <3>3
  <2> HIDE DEF P
  <2>3. \A n \in 0..N : n \in P
    BY <2>1, <2>2, StepByStep
  <2> QED BY <2>3 DEF P
<1>11. U[N] \in Seq(Updates) /\ \A v \in Seq(Updates) : <<>> \o v = v
  BY <1>2, <1>4, ConcatEmptySeq
<1> QED BY <1>0, <1>2, <1>4, <1>5, <1>6, <1>7, <1>10, <1>11

-----------------------------------------------------------------------------
(* What a row of updates makes of a transcript. *)

\* The updates lead from one transcript to another, and each finds the lines it
\* counts on.
Leads(start, updates, end) ==
  \E T \in [0..Len(updates) -> Seq(Texts)] :
    /\ T[0] = start /\ T[Len(updates)] = end
    /\ \A n \in 1..Len(updates) :
         T[n] = Patched(T[n - 1], updates[n]) /\ updates[n].from <= Len(T[n - 1])

\* A patched transcript is one.
LEMMA PatchedType ==
  ASSUME NEW s \in Seq(Texts), NEW u \in Updates
  PROVE  Patched(s, u) \in Seq(Texts)
<1>1. Len(s) \in Nat /\ u.from \in Nat /\ u.lines \in Seq(Texts)
  BY LenProperties DEF Updates
<1>2. PICK m \in 0..Len(s) : m = IF u.from < Len(s) THEN u.from ELSE Len(s)
  BY <1>1
<1>3. SubSeq(s, 1, m) \in Seq(Texts)
  <2>1. \A i \in 1..m : s[i] \in Texts
    BY <1>1, ElementOfSeq
  <2> QED BY <1>1, <2>1, SubSeqProperties
<1> QED BY <1>1, <1>2, <1>3, ConcatProperties DEF Patched

\* No update leads nowhere.
LEMMA LeadsNone == ASSUME NEW s \in Seq(Texts) PROVE Leads(s, <<>>, s)
<1>1. PICK u : u = <<>>
  OBVIOUS
<1>2. Len(u) = 0
  BY <1>1
<1>3. PICK T : T = [n \in 0..0 |-> s]
  OBVIOUS
<1>4. T \in [0..0 -> Seq(Texts)] /\ T[0] = s /\ 1..0 = {}
  BY <1>3
<1>5. Leads(s, u, s)
  BY <1>2, <1>4 DEF Leads
<1> QED BY <1>1, <1>5

\* One more update leads further.
LEMMA LeadsFurther ==
  ASSUME NEW a, NEW b, NEW u \in Seq(Updates), NEW x \in Updates,
         Leads(a, u, b), x.from <= Len(b)
  PROVE  Leads(a, Append(u, x), Patched(b, x))
<1>1. PICK N \in Nat : N = Len(u)
  BY LenProperties
<1>2. PICK v : v = Append(u, x)
  OBVIOUS
<1>3. v \in Seq(Updates) /\ Len(v) = N + 1 /\ v[N + 1] = x /\ \A n \in 1..N : v[n] = u[n]
  BY <1>1, <1>2, AppendProperties
<1>4. PICK T \in [0..N -> Seq(Texts)] :
        /\ T[0] = a /\ T[N] = b
        /\ \A n \in 1..N : T[n] = Patched(T[n - 1], u[n]) /\ u[n].from <= Len(T[n - 1])
  BY <1>1 DEF Leads
<1>5. PICK c : c = Patched(b, x)
  OBVIOUS
<1>6. b \in Seq(Texts) /\ c \in Seq(Texts)
  BY <1>4, <1>5, PatchedType
<1> DEFINE W == [n \in 0..(N + 1) |-> IF n <= N THEN T[n] ELSE c]
<1>7. W \in [0..(N + 1) -> Seq(Texts)]
  <2>1. ASSUME NEW n \in 0..(N + 1), n <= N PROVE T[n] \in Seq(Texts)
    BY <2>1
  <2> QED BY <1>6, <2>1
<1>8. W[0] = a /\ W[N + 1] = c
  BY <1>4
<1>9. ASSUME NEW n \in 1..(N + 1)
      PROVE  W[n] = Patched(W[n - 1], v[n]) /\ v[n].from <= Len(W[n - 1])
  <2>1. CASE n \in 1..N
    <3>1. W[n] = T[n] /\ W[n - 1] = T[n - 1]
      BY <2>1
    <3> HIDE DEF W
    <3> QED BY <1>3, <1>4, <2>1, <3>1
  <2>2. CASE n = N + 1
    <3>1. W[n] = c /\ W[n - 1] = b
      BY <1>4, <2>2
    <3> HIDE DEF W
    <3> QED BY <1>3, <1>5, <2>2, <3>1
  <2> QED BY <2>1, <2>2
<1> HIDE DEF W
<1>10. Leads(a, v, c)
  BY <1>3, <1>7, <1>8, <1>9 DEF Leads
<1> QED BY <1>2, <1>5, <1>10

\* The transcript after all of the updates, and after each.
LEMMA LeadsThere ==
  ASSUME NEW a, NEW b, NEW u \in Seq(Updates), Leads(a, u, b)
  PROVE  /\ PatchedAll(a, u) = b /\ a \in Seq(Texts) /\ b \in Seq(Texts)
         /\ \A n \in 1..Len(u) : u[n].from <= Len(PatchedUpTo(a, u)[n - 1])
<1>1. PICK N \in Nat : N = Len(u)
  BY LenProperties
<1>2. PICK T \in [0..N -> Seq(Texts)] :
        /\ T[0] = a /\ T[N] = b
        /\ \A n \in 1..N : T[n] = Patched(T[n - 1], u[n]) /\ u[n].from <= Len(T[n - 1])
  <2>1. PICK T \in [0..Len(u) -> Seq(Texts)] :
          /\ T[0] = a /\ T[Len(u)] = b
          /\ \A n \in 1..Len(u) : T[n] = Patched(T[n - 1], u[n]) /\ u[n].from <= Len(T[n - 1])
    BY Zenon DEF Leads
  <2> QED BY <1>1, <2>1
<1>3. PICK P : P = PatchedUpTo(a, u)
  OBVIOUS
<1>4. \A n \in 0..N : P[n] = T[n]
  <2>1. \A n \in 1..N : T[n] = Patched(T[n - 1], u[n])
    BY <1>2
  <2>2. \A n \in 0..N : PatchedUpTo(T[0], u)[n] = T[n]
    BY <1>1, <2>1, PatchedSteps
  <2> QED BY <1>2, <1>3, <2>2
<1>5. ASSUME NEW n \in 1..N PROVE u[n].from <= Len(P[n - 1])
  <2>1. n - 1 \in 0..N
    OBVIOUS
  <2>2. P[n - 1] = T[n - 1]
    BY <1>4, <2>1
  <2> QED BY <1>2, <2>2
<1>6. P[N] = b /\ a \in Seq(Texts) /\ b \in Seq(Texts)
  BY <1>2, <1>4
<1> QED BY <1>1, <1>3, <1>5, <1>6 DEF PatchedAll

\* Once the first of them are applied, the others lead from there.
LEMMA LeadsOn ==
  ASSUME NEW a, NEW b, NEW u \in Seq(Updates), NEW v \in Seq(Updates), Leads(a, u \o v, b)
  PROVE  PatchedAll(a, u) \in Seq(Texts) /\ Leads(PatchedAll(a, u), v, b)
<1>1. PICK N \in Nat, M \in Nat : N = Len(u) /\ M = Len(v)
  BY LenProperties
<1>2. PICK w : w = u \o v
  OBVIOUS
<1>3. /\ Len(w) = N + M /\ \A n \in 1..N : w[n] = u[n]
      /\ \A n \in 1..M : w[N + n] = v[n]
  <2>1. Len(w) = N + M
        /\ \A n \in 1..(N + M) : w[n] = IF n <= N THEN u[n] ELSE v[n - N]
    BY <1>1, <1>2, ConcatProperties
  <2>2. ASSUME NEW n \in 1..M PROVE N + n \in 1..(N + M) /\ ~(N + n <= N) /\ (N + n) - N = n
    OBVIOUS
  <2> QED BY <2>1, <2>2
<1>4. PICK T \in [0..(N + M) -> Seq(Texts)] :
        /\ T[0] = a /\ T[N + M] = b
        /\ \A n \in 1..(N + M) : T[n] = Patched(T[n - 1], w[n]) /\ w[n].from <= Len(T[n - 1])
  BY <1>2, <1>3 DEF Leads
<1> DEFINE F == [n \in 0..N |-> T[n]]
           R == [n \in 0..M |-> T[N + n]]
<1>5. Leads(a, u, T[N])
  <2>1. F \in [0..N -> Seq(Texts)] /\ F[0] = a /\ F[N] = T[N]
    BY <1>4
  <2>2. ASSUME NEW n \in 1..N PROVE F[n] = Patched(F[n - 1], u[n]) /\ u[n].from <= Len(F[n - 1])
    <3>1. n \in 1..(N + M) /\ F[n] = T[n] /\ F[n - 1] = T[n - 1] /\ w[n] = u[n]
      BY <1>3
    <3> HIDE DEF F
    <3> QED BY <1>4, <3>1
  <2> HIDE DEF F
  <2> QED BY <1>1, <2>1, <2>2 DEF Leads
<1>6. PICK c : c = T[N]
  OBVIOUS
<1>7. Leads(c, v, b)
  <2>1. R \in [0..M -> Seq(Texts)] /\ R[0] = c /\ R[M] = b
    BY <1>4, <1>6
  <2>2. ASSUME NEW n \in 1..M PROVE R[n] = Patched(R[n - 1], v[n]) /\ v[n].from <= Len(R[n - 1])
    <3>1. /\ N + n \in 1..(N + M) /\ R[n] = T[N + n] /\ R[n - 1] = T[(N + n) - 1]
          /\ w[N + n] = v[n]
      BY <1>3
    <3> HIDE DEF R
    <3> QED BY <1>4, <3>1
  <2> HIDE DEF R
  <2> QED BY <1>1, <2>1, <2>2 DEF Leads
<1>8. PatchedAll(a, u) = c /\ c \in Seq(Texts)
  BY <1>5, <1>6, LeadsThere
<1> QED BY <1>7, <1>8

-----------------------------------------------------------------------------
(* What is on its way to the page, and which job the page takes it for. *)

\* The page has still to hear of the start of the job.
Started == events # <<>> /\ events[1].type = "start"

TypesInv ==
  /\ job \in Nat
  /\ bPhase \in {"none", "reading", "over"}
  /\ launching \in {"none", "sent", "accepted"}
  /\ events \in Seq(Sendable)
  /\ captionQueue \in Seq(Updates)

\* The events on their way are all of the latest job: its start first, its exit last.
EventsInv ==
  /\ \A i \in 1..Len(events) :
       /\ events[i].job = job
       /\ events[i].type = "start" => i = 1
       /\ events[i].type = "exit" => i = Len(events) /\ bPhase = "over"
  /\ bPhase = "over" => events = <<>> \/ events[Len(events)].type = "exit"

\* The page listens to the latest job from the reply or the start event to the
\* exit event, and starts another only with nothing on its way.
ActiveInv ==
  /\ activeId \in {0, job}
  /\ launching = "sent" => bPhase = "none"
  /\ launching = "accepted" => bPhase # "none"
  /\ bPhase # "none" => job >= 1
  /\ bPhase = "none" =>
       activeId = 0 /\ events = <<>> /\ captionQueue = <<>> /\ shown = <<>> /\ shownPartial = NoLine
  /\ Started /\ launching = "none" => activeId = job
  /\ ~Started /\ (bPhase = "reading" \/ events # <<>>) => activeId = job

ChannelInv == TypesInv /\ EventsInv /\ ActiveInv

\* An event put behind the others.
LEMMA EventBehind ==
  ASSUME TypesInv, NEW e \in Sendable, events' = Append(events, e)
  PROVE  /\ events' \in Seq(Sendable) /\ events' # <<>>
         /\ Len(events') = Len(events) + 1 /\ events'[Len(events) + 1] = e
         /\ \A i \in 1..Len(events) : events'[i] = events[i]
         /\ Len(events) \in Nat /\ (events = <<>> <=> Len(events) = 0)
<1>1. PICK s \in Seq(Sendable) : s = events
  BY DEF TypesInv
<1>2. /\ Append(s, e) \in Seq(Sendable) /\ Append(s, e) # <<>>
      /\ Len(Append(s, e)) = Len(s) + 1 /\ Append(s, e)[Len(s) + 1] = e
      /\ \A i \in 1..Len(s) : Append(s, e)[i] = s[i]
  BY <1>1, AppendProperties
<1>3. Len(s) \in Nat /\ (s = <<>> <=> Len(s) = 0)
  BY <1>1, LenProperties, EmptySeq
<1> QED BY <1>1, <1>2, <1>3

\* The update a reader takes is one, and finds its lines.
LEMMA UpdateIsOne ==
  ASSUME MirrorInv
  PROVE  Update \in Updates /\ Update.from <= Len(mirror) /\ Update.partial = partial
<1>1. lines \in Seq(Texts) /\ mirror \in Seq(Texts) /\ Len(lines) \in Nat /\ Len(mirror) \in Nat
  BY LinesAreShort DEF MirrorInv, CapTypeOK
<1>2. From \in 0..Len(lines) /\ From <= Len(mirror)
  BY <1>1, MaxLinesAssumption DEF From, MirrorInv, CapTypeOK
<1>3. SubSeq(lines, From + 1, Len(lines)) \in Seq(Texts)
  <2>1. \A i \in (From + 1)..Len(lines) : lines[i] \in Texts
    BY <1>1, <1>2, ElementOfSeq
  <2> QED BY <1>1, <1>2, <2>1, SubSeqProperties
<1>4. partial \in SUBSET Texts
  BY DEF MirrorInv, CapTypeOK
<1> QED BY <1>2, <1>3, <1>4 DEF Update, Updates

\* A new job: its start is all that is on its way.
LEMMA StartKeeps == ChannelInv /\ BackendStarts => ChannelInv'
<1> SUFFICES ASSUME ChannelInv, BackendStarts PROVE ChannelInv'
  OBVIOUS
<1>1. PICK e : e = [type |-> "start", job |-> job + 1]
  OBVIOUS
<1>2. e \in Sendable /\ e.type = "start" /\ e.job = job + 1
  BY <1>1 DEF Sendable, ChannelInv, TypesInv
<1>3. /\ launching = "sent" /\ bPhase = "none" /\ activeId = 0 /\ events = <<>>
      /\ job' = job + 1 /\ bPhase' = "reading" /\ launching' = "accepted"
      /\ events' = Append(events, e)
      /\ activeId' = activeId /\ captionQueue' = captionQueue
  BY <1>1 DEF BackendStarts, ChannelInv, ActiveInv, viewVars
<1>4. /\ events' \in Seq(Sendable) /\ Len(events') = 1 /\ events'[1] = e /\ events' # <<>>
  BY <1>2, <1>3, EventBehind DEF ChannelInv
<1>5. TypesInv'
  BY <1>3, <1>4 DEF ChannelInv, TypesInv
<1>6. EventsInv'
  BY <1>2, <1>3, <1>4 DEF EventsInv
<1>7. ActiveInv'
  BY <1>2, <1>3, <1>4 DEF ChannelInv, TypesInv, ActiveInv, Started
<1> QED BY <1>5, <1>6, <1>7 DEF ChannelInv

\* Nothing follows the exit of a job but another run.
LEMMA SendKeeps ==
  ASSUME ChannelInv, bPhase = "reading", NEW e \in Sendable,
         e.job = job,
         (e.type = "captions" /\ bPhase' = "reading") \/ (e.type = "exit" /\ bPhase' = "over"),
         events' = Append(events, e),
         UNCHANGED <<job, launching, activeId, captionQueue>>
  PROVE  ChannelInv'
<1>1. PICK N \in Nat : N = Len(events)
  BY EventBehind DEF ChannelInv
<1>2. /\ events' \in Seq(Sendable) /\ Len(events') = N + 1 /\ events'[N + 1] = e /\ events' # <<>>
      /\ \A i \in 1..N : events'[i] = events[i]
      /\ events = <<>> <=> N = 0
  BY <1>1, EventBehind DEF ChannelInv
<1>3. TypesInv'
  BY <1>2 DEF ChannelInv, TypesInv
<1>4. EventsInv'
  <2>1. ASSUME NEW i \in 1..(N + 1)
        PROVE  /\ events'[i].job = job
               /\ events'[i].type = "start" => i = 1
               /\ events'[i].type = "exit" => i = N + 1 /\ bPhase' = "over"
    <3>1. CASE i \in 1..N
      BY <1>1, <1>2, <3>1 DEF ChannelInv, EventsInv
    <3>2. CASE i = N + 1
      BY <1>2, <3>2
    <3>3. i \in 1..N \/ i = N + 1
      OBVIOUS
    <3> QED BY <3>1, <3>2, <3>3
  <2>2. bPhase' = "over" => events'[N + 1].type = "exit"
    BY <1>2
  <2> QED BY <1>2, <2>1, <2>2 DEF EventsInv
<1>5. Started' <=> Started
  <2>1. N # 0 => 1 \in 1..N
    OBVIOUS
  <2> QED BY <1>2, <2>1 DEF Started
<1>6. ActiveInv'
  BY <1>2, <1>5 DEF ChannelInv, ActiveInv
<1> QED BY <1>3, <1>4, <1>6 DEF ChannelInv

\* An event that was heard: of the others there is no start.
LEMMA HearKeeps == ChannelInv /\ PageHears => ChannelInv'
<1> SUFFICES ASSUME ChannelInv, PageHears PROVE ChannelInv'
  OBVIOUS
<1>1. PICK h, t : h = Head(events) /\ t = Tail(events)
  OBVIOUS
<1>2. events \in Seq(Sendable) /\ events # <<>>
  BY DEF ChannelInv, TypesInv, PageHears
<1>3. PICK N \in Nat : N = Len(t)
  BY <1>1, <1>2, HeadTailProperties, LenProperties
<1>4. /\ h = events[1] /\ h \in Sendable /\ t \in Seq(Sendable) /\ Len(events) = N + 1
      /\ \A i \in 1..N : t[i] = events[i + 1]
      /\ t = <<>> <=> N = 0
  <2>1. /\ h = events[1] /\ h \in Sendable /\ t \in Seq(Sendable) /\ N = Len(events) - 1
        /\ \A i \in 1..N : t[i] = events[i + 1]
    BY <1>1, <1>2, <1>3, HeadTailProperties, UpdatesTail
  <2>2. t = <<>> <=> N = 0
    BY <1>3, <2>1, EmptySeq
  <2>3. Len(events) \in Nat
    BY <1>2, LenProperties
  <2> QED BY <2>1, <2>2, <2>3
<1>5. /\ h.job = job
      /\ h.type = "exit" => N = 0
      /\ events[N + 1].type = "exit" \/ bPhase # "over"
      /\ bPhase # "none"
  BY <1>2, <1>4 DEF ChannelInv, EventsInv, ActiveInv
<1>6. /\ events' = t
      /\ h.type = "start" => activeId' = h.job
      /\ h.type = "exit" /\ h.job = activeId => activeId' = 0
      /\ h.type # "start" /\ ~(h.type = "exit" /\ h.job = activeId) => activeId' = activeId
      /\ captionQueue' = IF h.type = "captions" /\ h.job = activeId
                         THEN Append(captionQueue, h.update) ELSE captionQueue
      /\ job' = job /\ bPhase' = bPhase /\ launching' = launching
  BY <1>1 DEF PageHears, backVars
<1>7. TypesInv'
  <2>1. h.type = "captions" => h.update \in Updates
    BY <1>4 DEF Sendable
  <2>2. captionQueue' \in Seq(Updates)
    BY <1>6, <2>1, AppendProperties DEF ChannelInv, TypesInv
  <2> QED BY <1>4, <1>6, <2>2 DEF ChannelInv, TypesInv
<1>8. ASSUME NEW i \in 1..N
      PROVE  /\ t[i].job = job /\ t[i].type # "start"
             /\ t[i].type = "exit" => i = N /\ bPhase = "over"
  <2>1. i + 1 \in 1..(N + 1) /\ i + 1 # 1
    OBVIOUS
  <2>2. t[i] = events[i + 1]
    BY <1>4
  <2> QED BY <1>4, <2>1, <2>2 DEF ChannelInv, EventsInv
<1>9. EventsInv'
  <2>1. bPhase = "over" => t = <<>> \/ t[N].type = "exit"
    <3>1. N # 0 => N \in 1..N
      OBVIOUS
    <3> QED BY <1>4, <1>5, <3>1
  <2> QED BY <1>3, <1>6, <1>8, <2>1 DEF EventsInv
<1>10. ~Started'
  <2>1. N # 0 => 1 \in 1..N
    OBVIOUS
  <2> QED BY <1>4, <1>6, <1>8, <2>1 DEF Started
<1>11. ActiveInv'
  <2>1. CASE h.type = "start"
    <3>1. activeId' = job
      BY <1>5, <1>6, <2>1
    <3> QED BY <1>5, <1>6, <1>10, <3>1 DEF ChannelInv, ActiveInv
  <2>2. CASE h.type # "start"
    <3>1. activeId = job
      BY <1>2, <1>4, <2>2 DEF Started, ChannelInv, ActiveInv
    <3>2. CASE h.type = "exit"
      <4>1. activeId' = 0 /\ t = <<>> /\ bPhase = "over"
        <5>1. 1 \in 1..Len(events)
          BY <1>4
        <5> QED BY <1>4, <1>5, <1>6, <2>2, <3>1, <3>2, <5>1 DEF ChannelInv, EventsInv
      <4> QED BY <1>5, <1>6, <1>10, <4>1 DEF ChannelInv, ActiveInv
    <3>3. CASE h.type # "exit"
      <4>1. activeId' = job
        BY <1>6, <2>2, <3>1, <3>3
      <4> QED BY <1>5, <1>6, <1>10, <4>1 DEF ChannelInv, ActiveInv
    <3> QED BY <3>2, <3>3
  <2> QED BY <2>1, <2>2
<1> QED BY <1>7, <1>9, <1>11 DEF ChannelInv

\* The other steps of the page.
LEMMA RunKeeps == ChannelInv /\ PageRuns => ChannelInv' /\ events = <<>> /\ bPhase' = "none"
<1> SUFFICES ASSUME ChannelInv, PageRuns PROVE ChannelInv' /\ events = <<>> /\ bPhase' = "none"
  OBVIOUS
<1>1. events = <<>>
  BY DEF ChannelInv, TypesInv, ActiveInv, PageRuns
<1>2. /\ activeId = 0 /\ bPhase' = "none" /\ launching' = "sent" /\ captionQueue' = <<>>
      /\ shown' = <<>> /\ shownPartial' = NoLine
      /\ job' = job /\ events' = events /\ activeId' = activeId
  BY DEF PageRuns, QueueCleared
<1>3. Len(events') = 0
  BY <1>1, <1>2
<1>4. TypesInv' /\ EventsInv'
  BY <1>1, <1>2, <1>3, EmptySeq DEF ChannelInv, TypesInv, EventsInv
<1>5. ActiveInv'
  BY <1>1, <1>2 DEF ActiveInv, Started
<1> QED BY <1>1, <1>2, <1>4, <1>5 DEF ChannelInv

LEMMA ReplyKeeps == ChannelInv /\ PageHearsReply => ChannelInv'
<1> SUFFICES ASSUME ChannelInv, PageHearsReply PROVE ChannelInv'
  OBVIOUS
<1>1. /\ launching = "accepted" /\ launching' = "none" /\ bPhase # "none"
      /\ job' = job /\ bPhase' = bPhase /\ events' = events /\ captionQueue' = captionQueue
      /\ activeId' = IF Contains(events, Told("start")) THEN job ELSE activeId
  BY DEF ChannelInv, ActiveInv, PageHearsReply, backVars
<1>2. Started => Contains(events, Told("start"))
  <2> SUFFICES ASSUME Started PROVE Contains(events, Told("start"))
    OBVIOUS
  <2>1. events \in Seq(Sendable) /\ 1 \in 1..Len(events)
    BY LenProperties, EmptySeq DEF Started, ChannelInv, TypesInv
  <2>2. events[1] \in Sendable /\ events[1].type = "start" /\ events[1].job = job
    BY <2>1, ElementOfSeq DEF Started, ChannelInv, EventsInv
  <2>3. events[1] = Told("start")
    BY <2>2 DEF Sendable, Told
  <2> QED BY <2>1, <2>3 DEF Contains
<1>3. TypesInv' /\ EventsInv'
  BY <1>1 DEF ChannelInv, TypesInv, EventsInv
<1>4. Started' <=> Started
  BY <1>1 DEF Started
<1>5. ActiveInv'
  BY <1>1, <1>2, <1>4 DEF ChannelInv, ActiveInv
<1> QED BY <1>3, <1>5 DEF ChannelInv

-----------------------------------------------------------------------------
(* The page, the updates under way and the observer that applied each. *)

Follows(start, line, coming, end, endLine) ==
  /\ Leads(start, coming, end)
  /\ (IF coming = <<>> THEN line ELSE Last(coming).partial) = endLine

ViewInv ==
  bPhase # "none" => Follows(shown, shownPartial, Coming, mirror, mirrorPartial)

\* The reader takes one more.
LEMMA FollowsFurther ==
  ASSUME NEW a, NEW b, NEW p, NEW q, NEW u \in Seq(Updates), NEW x \in Updates,
         Follows(a, p, u, b, q), x.from <= Len(b)
  PROVE  Follows(a, p, Append(u, x), Patched(b, x), x.partial)
<1>1. PICK v : v = Append(u, x)
  OBVIOUS
<1>2. v # <<>> /\ Last(v) = x
  BY <1>1, AppendProperties DEF Last
<1>3. Leads(a, v, Patched(b, x))
  BY <1>1, LeadsFurther DEF Follows
<1> QED BY <1>1, <1>2, <1>3 DEF Follows

\* The page applies the first of them.
LEMMA FollowsOn ==
  ASSUME NEW a, NEW b, NEW p, NEW q, NEW u \in Seq(Updates), NEW v \in Seq(Updates),
         u # <<>>, Follows(a, p, u \o v, b, q)
  PROVE  Follows(PatchedAll(a, u), Last(u).partial, v, b, q)
<1>1. PICK w : w = u \o v
  OBVIOUS
<1>2. PICK N \in Nat, M \in Nat : N = Len(u) /\ M = Len(v)
  BY LenProperties
<1>3. /\ w \in Seq(Updates) /\ Len(w) = N + M
      /\ \A n \in 1..(N + M) : w[n] = IF n <= N THEN u[n] ELSE v[n - N]
  BY <1>1, <1>2, ConcatProperties
<1>4. N # 0 /\ (v = <<>> <=> M = 0)
  BY <1>2, EmptySeq
<1>5. w # <<>>
  <2>1. Len(w) # 0
    BY <1>2, <1>3, <1>4
  <2> QED BY <1>3, <2>1, EmptySeq
<1>6. w[N + M].partial = q
  BY <1>1, <1>3, <1>5 DEF Follows, Last
<1>7. (IF v = <<>> THEN u[N].partial ELSE v[M].partial) = q
  <2>1. CASE M = 0
    <3>1. w[N + M] = u[N]
      BY <1>2, <1>3, <1>4, <2>1
    <3> QED BY <1>4, <1>6, <2>1, <3>1
  <2>2. CASE M # 0
    <3>1. N + M \in 1..(N + M) /\ ~(N + M <= N) /\ (N + M) - N = M
      BY <2>2
    <3>2. w[N + M] = v[M]
      BY <1>3, <3>1
    <3> QED BY <1>4, <1>6, <2>2, <3>2
  <2> QED BY <2>1, <2>2
<1>8. Leads(PatchedAll(a, u), v, b)
  BY LeadsOn DEF Follows
<1> QED BY <1>2, <1>7, <1>8 DEF Follows, Last

\* A new transcript is empty, and so is the page.
LEMMA StartFollows == ChannelInv /\ BackendStarts => ViewInv'
<1> SUFFICES ASSUME ChannelInv, BackendStarts PROVE ViewInv'
  OBVIOUS
<1>1. PICK e, s, c, j : e = [type |-> "start", job |-> job + 1] /\ s = events /\ c = events' /\ j = job'
  OBVIOUS
<1>2. /\ s = <<>> /\ captionQueue' = <<>> /\ shown' = <<>> /\ shownPartial' = NoLine
      /\ mirror' = <<>> /\ mirrorPartial' = NoLine /\ c = Append(s, e)
  BY <1>1 DEF BackendStarts, Fresh, ChannelInv, ActiveInv, viewVars
<1>3. s \in Seq(Sendable) /\ e \in Sendable /\ ~IsUpdate(e, j)
  BY <1>1 DEF ChannelInv, TypesInv, Sendable, IsUpdate
<1>4. UpdatesIn(c, j) = <<>>
  BY <1>2, <1>3, UpdatesAppend, UpdatesOfNone
<1>5. Coming' = <<>>
  <2>1. <<>> \o <<>> = <<>>
    BY EmptySeq, ConcatEmptySeq
  <2> QED BY <1>1, <1>2, <1>4, <2>1 DEF Coming
<1>6. Leads(<<>>, <<>>, <<>>)
  BY LeadsNone, EmptySeq
<1>7. Follows(<<>>, NoLine, <<>>, <<>>, NoLine)
  BY <1>6 DEF Follows
<1> QED BY <1>2, <1>5, <1>7 DEF ViewInv

\* An update that is sent is one more of those under way, for the observer that
\* applied it as for the page that will.
LEMMA SendFollows ==
  ASSUME ChannelInv, ViewInv, MirrorInv, ReaderSends PROVE ViewInv'
<1>1. PICK e, x, s, U : /\ x = Update /\ e = [type |-> "captions", job |-> job, update |-> x]
                        /\ s = events /\ U = UpdatesIn(s, job)
  OBVIOUS
<1>2. /\ events' = Append(s, e) /\ mirror' = Patched(mirror, x) /\ mirrorPartial' = x.partial
      /\ bPhase = "reading" /\ bPhase' = bPhase /\ job' = job
      /\ captionQueue' = captionQueue /\ shown' = shown /\ shownPartial' = shownPartial
  BY <1>1 DEF ReaderSends, TakeUpdate, viewVars, backVars
<1>3. x \in Updates /\ x.from <= Len(mirror)
  BY <1>1, UpdateIsOne
<1>4. s \in Seq(Sendable) /\ e \in Sendable /\ IsUpdate(e, job) /\ e.update = x
      /\ captionQueue \in Seq(Updates)
  BY <1>1, <1>3 DEF ChannelInv, TypesInv, Sendable, IsUpdate
<1>5. U \in Seq(Updates) /\ UpdatesIn(Append(s, e), job) = Append(U, x)
  BY <1>1, <1>4, UpdatesAppend
<1>6. PICK c : c = captionQueue \o U
  OBVIOUS
<1>7. c = Coming /\ c \in Seq(Updates)
  BY <1>1, <1>4, <1>5, <1>6, ConcatProperties DEF Coming
<1>8. Coming' = Append(c, x)
  BY <1>2, <1>3, <1>4, <1>5, <1>6, AppendBehind DEF Coming
<1>9. Follows(shown, shownPartial, c, mirror, mirrorPartial)
  BY <1>2, <1>7 DEF ViewInv
<1>10. Follows(shown, shownPartial, Append(c, x), Patched(mirror, x), x.partial)
  BY <1>3, <1>7, <1>9, FollowsFurther
<1> QED BY <1>2, <1>8, <1>10 DEF ViewInv

\* An exit carries no update.
LEMMA ExitFollows == ASSUME ChannelInv, ViewInv, JobExits PROVE ViewInv'
<1>1. PICK e, s : e = Told("exit") /\ s = events
  OBVIOUS
<1>2. s \in Seq(Sendable) /\ e \in Sendable /\ ~IsUpdate(e, job)
  BY <1>1 DEF ChannelInv, TypesInv, Sendable, IsUpdate, Told
<1>3. /\ events' = Append(s, e) /\ job' = job /\ bPhase = "reading"
      /\ UNCHANGED <<captionQueue, shown, shownPartial, mirror, mirrorPartial>>
  BY <1>1 DEF JobExits, viewVars
<1>4. UpdatesIn(Append(s, e), job) = UpdatesIn(s, job)
  BY <1>2, UpdatesAppend
<1>5. Coming' = Coming
  BY <1>1, <1>3, <1>4 DEF Coming
<1> QED BY <1>3, <1>5 DEF ViewInv

\* An update that is heard is the next one the page will apply.
LEMMA HearFollows == ASSUME ChannelInv, ViewInv, PageHears PROVE ViewInv'
<1>1. PICK s, t, h, V : s = events /\ t = Tail(s) /\ h = s[1] /\ V = UpdatesIn(t, job)
  OBVIOUS
<1>2. s \in Seq(Sendable) /\ s # <<>> /\ captionQueue \in Seq(Updates)
  BY <1>1 DEF ChannelInv, TypesInv, PageHears
<1>3. /\ V \in Seq(Updates) /\ h \in Sendable /\ Head(s) = h
      /\ IsUpdate(h, job) => h.update \in Updates
      /\ UpdatesIn(s, job) = IF IsUpdate(h, job) THEN <<h.update>> \o V ELSE V
  BY <1>1, <1>2, UpdatesTail, HeadTailProperties
<1>4. /\ events' = t /\ UNCHANGED <<job, bPhase, shown, shownPartial, mirror, mirrorPartial>>
      /\ captionQueue' = IF h.type = "captions" /\ h.job = activeId
                         THEN Append(captionQueue, h.update) ELSE captionQueue
  BY <1>1, <1>3 DEF PageHears, backVars
<1>5. h.job = job /\ (h.type = "captions" => activeId = job)
  <2>1. 1 \in 1..Len(s)
    BY <1>2, LenProperties, EmptySeq
  <2> QED BY <1>1, <1>2, <2>1 DEF ChannelInv, EventsInv, ActiveInv, Started
<1>6. Coming' = captionQueue' \o V
  BY <1>1, <1>4 DEF Coming
<1>7. Coming' = Coming
  <2>1. CASE h.type = "captions"
    <3>1. captionQueue' = Append(captionQueue, h.update) /\ h.update \in Updates
          /\ UpdatesIn(s, job) = <<h.update>> \o V
      BY <1>3, <1>4, <1>5, <2>1 DEF IsUpdate
    <3>2. PICK x \in Updates : x = h.update
      BY <3>1
    <3>3. <<x>> \in Seq(Updates) /\ Append(captionQueue, x) = captionQueue \o <<x>>
      BY <1>2, AppendIsConcat
    <3>4. (captionQueue \o <<x>>) \o V = captionQueue \o (<<x>> \o V)
      BY <1>2, <1>3, <3>3, ConcatAssociative
    <3> QED BY <1>1, <1>6, <3>1, <3>2, <3>3, <3>4 DEF Coming
  <2>2. CASE h.type # "captions"
    BY <1>1, <1>3, <1>4, <1>6, <2>2 DEF Coming, IsUpdate
  <2> QED BY <2>1, <2>2
<1> QED BY <1>4, <1>7 DEF ViewInv

\* A frame applies those that wait.
LEMMA FlushFollows == ASSUME ChannelInv, ViewInv, PageFlushes PROVE ViewInv'
<1>1. PICK q, V : q = captionQueue /\ V = UpdatesIn(events, job)
  OBVIOUS
<1>2. q \in Seq(Updates) /\ q # <<>> /\ events \in Seq(Sendable) /\ bPhase # "none"
  BY <1>1 DEF ChannelInv, TypesInv, ActiveInv, PageFlushes
<1>3. V \in Seq(Updates)
  <2>1. PICK s \in Seq(Sendable) : s = events
    BY <1>2
  <2>2. PICK e \in Sendable : e = [type |-> "start", job |-> 0]
    BY DEF Sendable
  <2> QED BY <1>1, <2>1, <2>2, UpdatesAppend
<1>4. Follows(shown, shownPartial, q \o V, mirror, mirrorPartial)
  BY <1>1, <1>2 DEF ViewInv, Coming
<1>5. Follows(PatchedAll(shown, q), Last(q).partial, V, mirror, mirrorPartial)
  BY <1>2, <1>3, <1>4, FollowsOn
<1>6. /\ shown' = PatchedAll(shown, q) /\ shownPartial' = Last(q).partial
      /\ captionQueue' = <<>> /\ UNCHANGED <<job, bPhase, events, mirror, mirrorPartial>>
  BY <1>1 DEF PageFlushes, backVars
<1>7. Coming' = V
  BY <1>1, <1>3, <1>6, ConcatEmptySeq DEF Coming
<1> QED BY <1>5, <1>6, <1>7 DEF ViewInv

-----------------------------------------------------------------------------
\* The invariant: one job's events at a time, the page listening to that job until
\* its exit, and the updates under way leading from the lines on the page to the
\* lines of the observer that applied each as it was taken.
THEOREM ViewKeepsInvariant == VSpec => [](MirrorInv /\ ChannelInv /\ ViewInv)
<1>1. VInit => ChannelInv /\ ViewInv
  <2>1. Len(<<>>) = 0 /\ <<>> \in Seq(Sendable) /\ <<>> \in Seq(Updates)
    BY EmptySeq
  <2> QED BY <2>1 DEF VInit, ChannelInv, TypesInv, EventsInv, ActiveInv, Started, ViewInv
<1>2. MirrorInv /\ ChannelInv /\ ViewInv /\ [VNext]_vvars => ChannelInv' /\ ViewInv'
  <2> SUFFICES ASSUME MirrorInv, ChannelInv, ViewInv, [VNext]_vvars PROVE ChannelInv' /\ ViewInv'
    OBVIOUS
  <2>1. CASE BackendStarts
    BY <2>1, StartKeeps, StartFollows
  <2>2. CASE ReaderSends
    <3>1. PICK e : e = [type |-> "captions", job |-> job, update |-> Update]
      OBVIOUS
    <3>2. /\ e \in Sendable /\ e.job = job /\ e.type = "captions"
      BY <3>1, UpdateIsOne DEF ChannelInv, TypesInv, Sendable
    <3>3. /\ bPhase = "reading" /\ bPhase' = "reading" /\ events' = Append(events, e)
          /\ UNCHANGED <<job, launching, activeId, captionQueue>>
      BY <2>2, <3>1 DEF ReaderSends, backVars, viewVars
    <3> QED BY <2>2, <3>2, <3>3, SendKeeps, SendFollows
  <2>3. CASE JobExits
    <3>1. PICK e : e = Told("exit")
      OBVIOUS
    <3>2. /\ e \in Sendable /\ e.job = job /\ e.type = "exit"
      BY <3>1 DEF ChannelInv, TypesInv, Sendable, Told
    <3>3. /\ bPhase = "reading" /\ bPhase' = "over" /\ events' = Append(events, e)
          /\ UNCHANGED <<job, launching, activeId, captionQueue>>
      BY <2>3, <3>1 DEF JobExits, viewVars
    <3> QED BY <2>3, <3>2, <3>3, SendKeeps, ExitFollows
  <2>4. CASE PageHears
    BY <2>4, HearKeeps, HearFollows
  <2>5. CASE PageFlushes
    <3>1. /\ captionQueue # <<>> /\ captionQueue' = <<>>
          /\ UNCHANGED <<job, bPhase, launching, events, activeId>>
      BY <2>5 DEF PageFlushes, backVars
    <3>2. ChannelInv'
      BY <3>1, EmptySeq DEF ChannelInv, TypesInv, EventsInv, ActiveInv, Started
    <3> QED BY <2>5, <3>2, FlushFollows
  <2>6. CASE PageRuns
    BY <2>6, RunKeeps DEF ViewInv
  <2>7. CASE PageHearsReply
    <3>1. UNCHANGED <<job, bPhase, events, captionQueue, shown, shownPartial, mirror, mirrorPartial>>
      BY <2>7 DEF PageHearsReply, backVars
    <3> QED BY <2>7, <3>1, ReplyKeeps DEF ViewInv, Coming
  <2>8. CASE BackendRefuses
    <3>1. /\ launching = "sent" /\ launching' = "none"
          /\ UNCHANGED <<job, bPhase, events, viewVars, mirrorVars>>
      BY <2>8 DEF BackendRefuses, backVars
    <3> QED BY <3>1 DEF ChannelInv, TypesInv, EventsInv, ActiveInv, Started, ViewInv, Coming,
                        viewVars
  <2>9. CASE ReaderIngests
    <3>1. UNCHANGED mirrorVars
      BY <2>9 DEF ReaderIngests, Ingest, IngestPartial, IngestFinal, IngestLoopbackFinal,
                  IngestLoopbackLine, IngestStamped
    <3>2. UNCHANGED <<job, bPhase, launching, events, viewVars>>
      BY <2>9 DEF ReaderIngests, backVars
    <3> QED BY <3>1, <3>2 DEF ChannelInv, TypesInv, EventsInv, ActiveInv, Started, ViewInv,
                              Coming, viewVars
  <2>10. CASE UNCHANGED vvars
    BY <2>10 DEF vvars, backVars, viewVars, ChannelInv, TypesInv, EventsInv, ActiveInv, Started,
                 ViewInv, Coming
  <2> QED BY <2>1, <2>2, <2>3, <2>4, <2>5, <2>6, <2>7, <2>8, <2>9, <2>10
          DEF VNext, VBackend, VPage
<1> QED BY <1>1, <1>2, MirrorHolds, PTL DEF VSpec

\* ViewFollows: whatever is under way, applying it to the page gives the app's
\* transcript, and each update finds the lines it counts on, for any number of
\* lines, sessions and waiting updates.
THEOREM ViewFollowsHolds == VSpec => []ViewFollows
<1>1. ChannelInv /\ ViewInv => ViewFollows
  <2> SUFFICES ASSUME ChannelInv, ViewInv, bPhase # "none" PROVE ViewFollows
    BY DEF ViewFollows
  <2>1. PICK c : c = Coming
    OBVIOUS
  <2>2. c \in Seq(Updates)
    <3>1. PICK s \in Seq(Sendable) : s = events
      BY DEF ChannelInv, TypesInv
    <3>2. PICK e \in Sendable : e = [type |-> "start", job |-> 0]
      BY DEF Sendable
    <3>3. UpdatesIn(s, job) \in Seq(Updates)
      BY <3>1, <3>2, UpdatesAppend
    <3> QED BY <2>1, <3>1, <3>3, ConcatProperties DEF Coming, ChannelInv, TypesInv
  <2>3. Follows(shown, shownPartial, c, mirror, mirrorPartial)
    BY <2>1 DEF ViewInv
  <2>4. /\ PatchedAll(shown, c) = mirror
        /\ \A n \in 1..Len(c) : c[n].from <= Len(PatchedUpTo(shown, c)[n - 1])
    BY <2>2, <2>3, LeadsThere DEF Follows
  <2> QED BY <2>1, <2>3, <2>4 DEF ViewFollows, Follows
<1> QED BY <1>1, ViewKeepsInvariant, PTL

-----------------------------------------------------------------------------
(* The segmenter's voice detector. *)

LEMMA TwoNumbers ==
  ASSUME NEW a \in Int, NEW b \in Int
  PROVE  /\ Max({a, b}) = IF a >= b THEN a ELSE b
         /\ Min({a, b}) = IF a <= b THEN a ELSE b
<1>1. PICK h : h = IF a >= b THEN a ELSE b
  OBVIOUS
<1>2. PICK l : l = IF a <= b THEN a ELSE b
  OBVIOUS
<1>3. h \in {a, b} /\ \A y \in {a, b} : h >= y
  BY <1>1
<1>4. l \in {a, b} /\ \A y \in {a, b} : l <= y
  BY <1>2
<1>5. \A x \in {a, b} : (\A y \in {a, b} : x >= y) => x = h
  BY <1>1
<1>6. \A x \in {a, b} : (\A y \in {a, b} : x <= y) => x = l
  BY <1>2
<1>7. Max({a, b}) = h
  BY <1>3, <1>5 DEF Max
<1>8. Min({a, b}) = l
  BY <1>4, <1>6 DEF Min
<1> QED BY <1>1, <1>2, <1>7, <1>8

\* The code's durations, one by one.
LEMMA DurationsAre ==
  /\ MinSpeech \in Nat /\ MinSilence \in Nat /\ Pad \in Nat /\ ShortSilence \in Nat
  /\ PreRoll \in Nat /\ EndMargin \in Nat /\ PreviewEvery \in Nat /\ MinPreview \in Nat
  /\ SplitAfter \in Nat /\ MinSplit \in Nat /\ MaxUtterance \in Nat
BY Durations

\* The least and the greatest of some numbers.
LEMMA LeastOf ==
  ASSUME NEW S \in SUBSET Nat, S # {}
  PROVE  Min(S) \in S /\ \A y \in S : Min(S) <= y
<1>1. \E x \in S : \A y \in S : x =< y
  BY LeastNumber
<1> QED BY <1>1 DEF Min

LEMMA GreatestOf ==
  ASSUME NEW N \in Nat, NEW S \in SUBSET (0..N), S # {}
  PROVE  \E x \in S : x = Max(S) /\ \A y \in S : y <= x
<1> DEFINE D == {N - y : y \in S}
<1>1. D \in SUBSET Nat /\ D # {}
  <2>1. PICK z : z \in S
    OBVIOUS
  <2>2. N - z \in D
    BY <2>1
  <2>3. \A y \in S : y \in 0..N /\ N - y \in Nat
    OBVIOUS
  <2>4. \A d \in D : d \in Nat
    BY <2>3
  <2> QED BY <2>2, <2>4
<1> HIDE DEF D
<1>2. PICK d \in D : \A e \in D : d <= e
  BY <1>1, LeastNumber
<1>3. PICK x \in S : d = N - x
  BY DEF D
<1>4. ASSUME NEW y \in S PROVE x >= y
  <2>1. N - y \in D
    BY DEF D
  <2> QED BY <1>2, <1>3, <2>1
<1>5. Max(S) \in S /\ \A y \in S : Max(S) >= y
  BY <1>4 DEF Max
<1>6. \A y \in S : y <= Max(S)
  BY <1>5
<1> QED BY <1>5, <1>6

\* A run ends where it starts or later: at the first silence, or with the audio.
LEMMA EndOfRun ==
  ASSUME NEW a \in Seq(BOOLEAN), NEW gap \in Nat, NEW i \in 1..Len(a)
  PROVE  /\ EndOf(a, i, gap) \in i..Len(a)
         /\ \A j \in i..Len(a) : Stop(a, j, gap) => EndOf(a, i, gap) <= j
         /\ EndOf(a, i, gap) = Len(a) \/ Stop(a, EndOf(a, i, gap), gap)
<1>1. PICK N \in Nat : N = Len(a)
  BY LenProperties
<1>2. PICK S : S = {j \in i..N : Stop(a, j, gap)}
  OBVIOUS
<1>3. EndOf(a, i, gap) = IF S = {} THEN N ELSE Min(S)
  BY <1>1, <1>2 DEF EndOf
<1>4. S # {} => Min(S) \in S /\ \A y \in S : Min(S) <= y
  <2>1. S \in SUBSET Nat
    BY <1>1, <1>2
  <2> QED BY <2>1, LeastOf
<1> QED BY <1>1, <1>2, <1>3, <1>4

\* Speech of the least length is in a run that starts with it or before and does not
\* end before it does.
LEMMA RunCovers ==
  ASSUME NEW a \in Seq(BOOLEAN), NEW gap \in Nat \ {0}, NEW p \in 1..Len(a),
         NEW q \in p..Len(a), q - p + 1 >= MinSpeech, \A j \in p..q : a[j]
  PROVE  \E r \in 1..p : IsRun(a, r, gap) /\ EndOf(a, r, gap) >= q
<1>1. PICK N \in Nat : N = Len(a)
  BY LenProperties
<1> DEFINE T == {i \in 1..p : a[i]}
           S == {i \in 1..p : Start(a, i, gap)}
<1>2. S # {} /\ S \in SUBSET (0..p) /\ p \in Nat
  <2>1. T \in SUBSET Nat /\ p \in T
    OBVIOUS
  <2> HIDE DEF T
  <2>2. PICK f \in T : \A y \in T : f <= y
    BY <2>1, LeastNumber
  <2>3. f \in 1..p /\ a[f]
    BY <2>2 DEF T
  <2>4. ASSUME NEW j \in 1..(f - 1) PROVE ~a[j]
    BY <2>2, <2>3 DEF T
  <2>5. Start(a, f, gap)
    BY <2>3, <2>4 DEF Start
  <2> QED BY <2>3, <2>5
<1> HIDE DEF S
<1>3. PICK r \in S : \A y \in S : y <= r
  BY <1>2, GreatestOf
<1>4. r \in 1..p /\ r \in 1..N /\ Start(a, r, gap)
  BY <1>1, <1>3 DEF S
<1>5. PICK e : e = EndOf(a, r, gap)
  OBVIOUS
<1>6. e \in r..N /\ (e = N \/ Stop(a, e, gap))
  BY <1>1, <1>4, <1>5, EndOfRun
<1>7. e >= q
  <2> SUFFICES ASSUME e < q PROVE FALSE
    BY <1>1, <1>4, <1>6
  <2>1. Stop(a, e, gap)
    BY <1>1, <1>6
  <2>2. e + gap <= N /\ \A j \in (e + 1)..(e + gap) : ~a[j]
    BY <1>1, <2>1 DEF Stop
  <2>3. CASE e >= p
    <3>1. e + 1 \in p..q /\ e + 1 \in (e + 1)..(e + gap)
      BY <1>6, <2>3
    <3> QED BY <2>2, <3>1
  <2>4. CASE e < p
    <3> DEFINE L == {i \in (e + 1)..p : a[i]}
    <3>1. L \in SUBSET Nat /\ p \in L
      <4>1. e + 1 \in Nat /\ p \in (e + 1)..p /\ a[p]
        BY <1>1, <1>4, <1>6, <2>4
      <4> QED BY <4>1
    <3> HIDE DEF L
    <3>2. PICK m \in L : \A y \in L : m <= y
      BY <3>1, LeastNumber
    <3>3. m \in (e + 1)..p /\ a[m]
      BY <3>2 DEF L
    <3>4. m > e + gap
      BY <1>6, <2>2, <3>3
    <3>5. ASSUME NEW j \in 1..(m - 1), j >= m - gap PROVE ~a[j]
      <4>1. j \in (e + 1)..p /\ j < m
        BY <1>6, <3>3, <3>4, <3>5
      <4> QED BY <3>2, <4>1 DEF L
    <3>6. Start(a, m, gap)
      BY <3>3, <3>5 DEF Start
    <3>7. m \in S /\ m > r
      BY <1>6, <3>3, <3>6 DEF S
    <3> QED BY <1>3, <1>4, <3>3, <3>7
  <2> QED BY <1>6, <2>3, <2>4
<1>8. e - r + 1 >= MinSpeech
  BY <1>4, <1>6, <1>7, DurationsAre
<1> QED BY <1>4, <1>5, <1>7, <1>8 DEF IsRun

\* A silence is between one run and the next.
LEMMA RunsApart ==
  ASSUME NEW a \in Seq(BOOLEAN), NEW gap \in Nat, NEW r \in 1..Len(a), NEW q \in 1..Len(a),
         r < q, IsRun(a, r, gap), IsRun(a, q, gap)
  PROVE  EndOf(a, r, gap) + gap < q
<1>1. PICK N \in Nat : N = Len(a)
  BY LenProperties
<1> DEFINE S == {j \in r..(q - 1) : a[j]}
<1>2. a[r] /\ a[q] /\ \A j \in 1..(q - 1) : j >= q - gap => ~a[j]
  BY DEF IsRun, Start
<1>3. S \in SUBSET (0..q) /\ r \in S /\ q \in Nat
  BY <1>2
<1> HIDE DEF S
<1>4. PICK m \in S : \A y \in S : y <= m
  BY <1>3, GreatestOf
<1>5. m \in r..(q - 1) /\ a[m]
  BY <1>4 DEF S
<1>6. m < q - gap
  BY <1>2, <1>5
<1>7. ASSUME NEW j \in (m + 1)..(m + gap) PROVE ~a[j]
  BY <1>4, <1>5, <1>6 DEF S
<1>8. Stop(a, m, gap) /\ m \in r..N
  BY <1>1, <1>5, <1>6, <1>7 DEF Stop
<1>9. EndOf(a, r, gap) <= m /\ EndOf(a, r, gap) \in r..N
  BY <1>1, <1>8, EndOfRun
<1> QED BY <1>5, <1>6, <1>9

\* The span of a run: around it, and within the audio.
LEMMA SpanAround ==
  ASSUME NEW a \in Seq(BOOLEAN), NEW gap \in Nat, NEW pad \in Nat, NEW r \in 1..Len(a)
  PROVE  /\ Span(a, r, gap, pad) \in [start : Nat, end : Nat]
         /\ Span(a, r, gap, pad).start < r /\ r - 1 - pad <= Span(a, r, gap, pad).start
         /\ EndOf(a, r, gap) <= Span(a, r, gap, pad).end
         /\ Span(a, r, gap, pad).end <= Len(a)
         /\ Span(a, r, gap, pad).end <= EndOf(a, r, gap) + pad
<1>0. PICK N \in Nat : N = Len(a)
  BY LenProperties
<1>1. PICK e : N = Len(a) /\ e = EndOf(a, r, gap)
  BY <1>0
<1>2. e \in r..N
  BY <1>1, EndOfRun
<1>3. PICK x, y : x = r - 1 - pad /\ y = e + pad
  OBVIOUS
<1>4. x \in Int /\ y \in Int /\ N \in Int
  BY <1>2, <1>3
<1>5. Max({0, x}) = IF 0 >= x THEN 0 ELSE x
  BY <1>4, TwoNumbers
<1>6. Min({N, y}) = IF N <= y THEN N ELSE y
  BY <1>4, TwoNumbers
<1>7. Span(a, r, gap, pad) = [start |-> Max({0, x}), end |-> Min({N, y})]
  BY <1>1, <1>3 DEF Span
<1> QED BY <1>1, <1>2, <1>3, <1>4, <1>5, <1>6, <1>7
\* RunsUpTo is the account of the runs among the first samples.
LEMMA RunsSteps ==
  ASSUME NEW a \in Seq(BOOLEAN), NEW gap
  PROVE  /\ RunsUpTo(a, gap) \in [0..Len(a) -> Seq(1..Len(a))]
         /\ RunsUpTo(a, gap)[0] = <<>>
         /\ \A n \in 1..Len(a) :
              RunsUpTo(a, gap)[n]
                = IF IsRun(a, n, gap) THEN Append(RunsUpTo(a, gap)[n - 1], n)
                  ELSE RunsUpTo(a, gap)[n - 1]
<1>0. PICK N \in Nat : N = Len(a)
  BY LenProperties
<1> DEFINE F(f) == [n \in 0..N |-> IF n = 0 THEN <<>>
                                   ELSE IF IsRun(a, n, gap) THEN Append(f[n - 1], n)
                                   ELSE f[n - 1]]
           C == RunsUpTo(a, gap)
           step == [n \in 1..N |-> [s \in Seq(1..N) |-> IF IsRun(a, n, gap) THEN Append(s, n) ELSE s]]
<1>1. step \in [1..N -> [Seq(1..N) -> Seq(1..N)]]
  <2>1. ASSUME NEW n \in 1..N, NEW s \in Seq(1..N) PROVE Append(s, n) \in Seq(1..N)
    BY AppendProperties
  <2> QED BY <2>1
<1>2. PICK U \in [0..N -> Seq(1..N)] :
        U[0] = <<>> /\ \A n \in 1..N : U[n] = step[n][U[n - 1]]
  <2>1. PICK V, go, b : V = Seq(1..N) /\ go = step /\ b = <<>>
    OBVIOUS
  <2> HIDE DEF F, C, step
  <2>2. go \in [1..N -> [V -> V]] /\ b \in V
    BY <1>1, <2>1, EmptySeq
  <2>3. \E f \in [0..N -> V] : f[0] = b /\ \A n \in 1..N : f[n] = go[n][f[n - 1]]
    BY <2>2, StepsExist
  <2> QED BY <2>1, <2>3
<1>3. \A n \in 1..N : U[n] = IF IsRun(a, n, gap) THEN Append(U[n - 1], n) ELSE U[n - 1]
  <2>1. \A n \in 1..N : U[n - 1] \in Seq(1..N)
    BY <1>0
  <2> QED BY <1>2, <2>1
<1>4. U = F(U)
  <2>1. ASSUME NEW n \in 0..N PROVE U[n] = F(U)[n]
    <3>1. n = 0 \/ n \in 1..N
      BY <1>0
    <3> QED BY <1>2, <1>3, <3>1
  <2> QED BY <2>1
<1>5. C = CHOOSE f : f = F(f)
  BY <1>0 DEF RunsUpTo
<1> HIDE DEF F, C
<1>6. C = F(C)
  BY <1>4, <1>5
<1>7. /\ C[0] = <<>>
      /\ \A n \in 1..N : C[n] = IF IsRun(a, n, gap) THEN Append(C[n - 1], n) ELSE C[n - 1]
  <2>1. \A n \in 0..N : C[n] = F(C)[n]
    BY <1>6
  <2>2. C[0] = <<>>
    BY <1>0, <2>1 DEF F
  <2>3. ASSUME NEW n \in 1..N
        PROVE  C[n] = IF IsRun(a, n, gap) THEN Append(C[n - 1], n) ELSE C[n - 1]
    <3>1. n \in 0..N /\ n # 0
      BY <1>0
    <3>2. C[n] = F(C)[n]
      BY <2>1, <3>1
    <3> QED BY <3>1, <3>2 DEF F
  <2> QED BY <2>2, <2>3
<1>8. \A n \in 0..N : C[n] = U[n]
  <2> DEFINE P == {n \in 0..N : C[n] = U[n]}
  <2>1. P \in SUBSET Nat /\ 0 \in P
    BY <1>0, <1>2, <1>7
  <2>2. ASSUME NEW n \in 1..N, n - 1 \in P PROVE n \in P
    BY <1>0, <1>3, <1>7, <2>2
  <2> HIDE DEF P
  <2>3. \A n \in 0..N : n \in P
    BY <1>0, <2>1, <2>2, StepByStep
  <2> QED BY <2>3 DEF P
<1>9. C \in [0..N -> Seq(1..N)]
  <2>1. C = [n \in 0..N |-> C[n]]
    BY <1>6 DEF F
  <2>2. \A n \in 0..N : C[n] \in Seq(1..N)
    BY <1>8
  <2> QED BY <2>1, <2>2
<1> QED BY <1>0, <1>7, <1>9 DEF C

\* The runs in order: each of them once, the earlier first.
Runs(a, gap) == RunsUpTo(a, gap)[Len(a)]

LEMMA RunsInOrder ==
  ASSUME NEW a \in Seq(BOOLEAN), NEW gap
  PROVE  /\ Runs(a, gap) \in Seq(1..Len(a))
         /\ \A k \in 1..Len(Runs(a, gap)) : IsRun(a, Runs(a, gap)[k], gap)
         /\ \A k, l \in 1..Len(Runs(a, gap)) : k < l => Runs(a, gap)[k] < Runs(a, gap)[l]
         /\ \A r \in 1..Len(a) : IsRun(a, r, gap) => \E k \in 1..Len(Runs(a, gap)) : Runs(a, gap)[k] = r
<1>1. PICK N \in Nat : N = Len(a)
  BY LenProperties
<1>2. PICK U : U = RunsUpTo(a, gap)
  OBVIOUS
<1>3. /\ U \in [0..N -> Seq(1..N)] /\ U[0] = <<>>
      /\ \A n \in 1..N : U[n] = IF IsRun(a, n, gap) THEN Append(U[n - 1], n) ELSE U[n - 1]
  BY <1>1, <1>2, RunsSteps
<1> DEFINE Good(n) ==
      /\ \A k \in 1..Len(U[n]) : U[n][k] \in 1..n /\ IsRun(a, U[n][k], gap)
      /\ \A k, l \in 1..Len(U[n]) : k < l => U[n][k] < U[n][l]
      /\ \A r \in 1..n : IsRun(a, r, gap) => \E k \in 1..Len(U[n]) : U[n][k] = r
<1>4. Good(0)
  <2>1. Len(U[0]) = 0
    BY <1>3
  <2> QED BY <2>1
<1>5. ASSUME NEW n \in 1..N, Good(n - 1) PROVE Good(n)
  <2>1. PICK s, t : s = U[n - 1] /\ t = U[n]
    OBVIOUS
  <2>2. s \in Seq(1..N) /\ t = IF IsRun(a, n, gap) THEN Append(s, n) ELSE s
    <3>1. n - 1 \in 0..N
      OBVIOUS
    <3>2. s \in Seq(1..N)
      BY <1>3, <2>1, <3>1
    <3> QED BY <1>3, <2>1, <3>2
  <2>3. PICK K \in Nat : K = Len(s)
    BY <2>2, LenProperties
  <2>4. /\ \A k \in 1..K : s[k] \in 1..(n - 1) /\ IsRun(a, s[k], gap)
        /\ \A k, l \in 1..K : k < l => s[k] < s[l]
        /\ \A r \in 1..(n - 1) : IsRun(a, r, gap) => \E k \in 1..K : s[k] = r
    BY <1>5, <2>1, <2>3
  <2> HIDE DEF Good
  <2>5. CASE ~IsRun(a, n, gap)
    <3>1. t = s
      BY <2>2, <2>5
    <3>2. \A k \in 1..K : s[k] \in 1..n
      BY <2>4
    <3>3. ASSUME NEW r \in 1..n, IsRun(a, r, gap) PROVE \E k \in 1..K : s[k] = r
      <4>1. r \in 1..(n - 1)
        BY <2>5, <3>3
      <4> QED BY <2>4, <3>3, <4>1
    <3> QED BY <2>1, <2>3, <2>4, <3>1, <3>2, <3>3 DEF Good
  <2>6. CASE IsRun(a, n, gap)
    <3>1. Len(t) = K + 1 /\ t[K + 1] = n /\ \A k \in 1..K : t[k] = s[k]
      BY <2>2, <2>3, <2>6, AppendProperties
    <3>2. ASSUME NEW k \in 1..(K + 1) PROVE t[k] \in 1..n /\ IsRun(a, t[k], gap)
      <4>1. k \in 1..K \/ k = K + 1
        OBVIOUS
      <4> QED BY <2>4, <2>6, <3>1, <4>1
    <3>3. ASSUME NEW k \in 1..(K + 1), NEW l \in 1..(K + 1), k < l PROVE t[k] < t[l]
      <4>1. k \in 1..K /\ (l \in 1..K \/ l = K + 1)
        BY <3>3
      <4> QED BY <2>4, <3>1, <3>3, <4>1
    <3>4. ASSUME NEW r \in 1..n, IsRun(a, r, gap) PROVE \E k \in 1..(K + 1) : t[k] = r
      <4>1. CASE r = n
        <5>1. K + 1 \in 1..(K + 1)
          OBVIOUS
        <5> QED BY <3>1, <4>1, <5>1
      <4>2. CASE r \in 1..(n - 1)
        <5>1. PICK k \in 1..K : s[k] = r
          BY <2>4, <3>4, <4>2
        <5>2. k \in 1..(K + 1) /\ t[k] = r
          BY <3>1, <5>1
        <5> QED BY <5>2
      <4> QED BY <4>1, <4>2
    <3> QED BY <2>1, <3>1, <3>2, <3>3, <3>4 DEF Good
  <2> QED BY <2>5, <2>6
<1>6. Good(N)
  <2> DEFINE P == {n \in 0..N : Good(n)}
  <2> HIDE DEF Good
  <2>1. P \in SUBSET Nat /\ 0 \in P
    BY <1>4
  <2>2. ASSUME NEW n \in 1..N, n - 1 \in P PROVE n \in P
    BY <1>5, <2>2
  <2> HIDE DEF P
  <2>3. \A n \in 0..N : n \in P
    BY <2>1, <2>2, StepByStep
  <2> QED BY <2>3 DEF P
<1>7. U[N] \in Seq(1..N)
  BY <1>3
<1> QED BY <1>1, <1>2, <1>6, <1>7 DEF Runs

\* What the detector promises: spans within the audio, in order and, with padding
\* less than half the silence, apart; and speech of the least length neither before
\* the first of them nor outside all of them.
LEMMA VadFinds ==
  ASSUME NEW a \in Seq(BOOLEAN), NEW gap \in Nat, NEW pad \in Nat
  PROVE  /\ Vad(a, gap, pad) \in Seq([start : Nat, end : Nat])
         /\ \A k \in 1..Len(Vad(a, gap, pad)) :
              /\ Vad(a, gap, pad)[k].start < Vad(a, gap, pad)[k].end
              /\ Vad(a, gap, pad)[k].end <= Len(a)
         /\ 2 * pad <= gap =>
              \A k \in 1..(Len(Vad(a, gap, pad)) - 1) :
                Vad(a, gap, pad)[k].end <= Vad(a, gap, pad)[k + 1].start
         /\ gap # 0 =>
              \A p \in 1..Len(a) : \A q \in p..Len(a) :
                q - p + 1 >= MinSpeech /\ (\A j \in p..q : a[j]) =>
                  /\ Vad(a, gap, pad) # <<>> /\ Vad(a, gap, pad)[1].start < p
                  /\ \E k \in 1..Len(Vad(a, gap, pad)) :
                       Vad(a, gap, pad)[k].start < p /\ q <= Vad(a, gap, pad)[k].end
<1>1. PICK N \in Nat : N = Len(a)
  BY LenProperties
<1>2. PICK R : R = Runs(a, gap)
  OBVIOUS
<1>3. /\ R \in Seq(1..N)
      /\ \A k \in 1..Len(R) : IsRun(a, R[k], gap)
      /\ \A k, l \in 1..Len(R) : k < l => R[k] < R[l]
      /\ \A r \in 1..N : IsRun(a, r, gap) => \E k \in 1..Len(R) : R[k] = r
  BY <1>1, <1>2, RunsInOrder
<1>4. PICK K \in Nat : K = Len(R)
  BY <1>3, LenProperties
<1>5. \A k \in 1..K : R[k] \in 1..N
  BY <1>3, <1>4, ElementOfSeq
<1>6. PICK S : S = [k \in 1..K |-> Span(a, R[k], gap, pad)]
  OBVIOUS
<1>7. S = Vad(a, gap, pad)
  BY <1>2, <1>4, <1>6 DEF Vad, Runs
<1>8. ASSUME NEW k \in 1..K
      PROVE  /\ S[k] \in [start : Nat, end : Nat]
             /\ S[k].start < R[k] /\ R[k] - 1 - pad <= S[k].start
             /\ EndOf(a, R[k], gap) <= S[k].end /\ S[k].end <= N
             /\ S[k].end <= EndOf(a, R[k], gap) + pad
             /\ EndOf(a, R[k], gap) \in R[k]..N
  <2>1. PICK r \in 1..N : r = R[k]
    BY <1>5
  <2>2. PICK x, e : x = Span(a, r, gap, pad) /\ e = EndOf(a, r, gap)
    OBVIOUS
  <2>3. S[k] = x
    BY <1>6, <2>1, <2>2
  <2>4. e \in r..N
    BY <1>1, <2>1, <2>2, EndOfRun
  <2>5. /\ x \in [start : Nat, end : Nat]
        /\ x.start < r /\ r - 1 - pad <= x.start
        /\ e <= x.end /\ x.end <= N /\ x.end <= e + pad
    BY <1>1, <2>1, <2>2, SpanAround
  <2> QED BY <2>1, <2>2, <2>3, <2>4, <2>5
<1>9. S \in Seq([start : Nat, end : Nat]) /\ Len(S) = K
  <2>1. PICK X : X = [start : Nat, end : Nat]
    OBVIOUS
  <2>2. S \in [1..K -> X]
    BY <1>6, <1>8, <2>1
  <2>3. S \in Seq(X) /\ DOMAIN S = 1..K
    BY <2>2, SeqDef
  <2>4. Len(S) \in Nat /\ DOMAIN S = 1..Len(S)
    BY <2>3, LenProperties
  <2>5. Len(S) = K
    BY <2>3, <2>4
  <2> QED BY <2>1, <2>3, <2>5
<1>10. \A k \in 1..K : S[k].start < S[k].end /\ S[k].end <= N
  BY <1>5, <1>8
<1>11. ASSUME 2 * pad <= gap, NEW k \in 1..(K - 1) PROVE S[k].end <= S[k + 1].start
  <2>1. k \in 1..K /\ k + 1 \in 1..K /\ k < k + 1
    OBVIOUS
  <2>2. PICK r \in 1..N, q \in 1..N : r = R[k] /\ q = R[k + 1]
    BY <1>5, <2>1
  <2>3. r < q /\ IsRun(a, r, gap) /\ IsRun(a, q, gap)
    BY <1>3, <1>4, <2>1, <2>2
  <2>4. EndOf(a, r, gap) + gap < q
    BY <1>1, <2>3, RunsApart
  <2>5. S[k].end <= EndOf(a, r, gap) + pad /\ S[k].end \in Nat /\ EndOf(a, r, gap) \in Nat
    <3>1. S[k].end <= EndOf(a, R[k], gap) + pad /\ S[k].end \in Nat
          /\ EndOf(a, R[k], gap) \in R[k]..N
      BY <1>8, <2>1
    <3>2. EndOf(a, r, gap) \in r..N
      BY <2>2, <3>1
    <3>3. EndOf(a, r, gap) \in Nat
      BY <3>2
    <3> QED BY <2>2, <3>1, <3>3
  <2>6. q - 1 - pad <= S[k + 1].start /\ S[k + 1].start \in Nat
    BY <1>8, <2>1, <2>2
  <2> QED BY <1>11, <2>4, <2>5, <2>6
<1>12. ASSUME gap # 0, NEW p \in 1..N, NEW q \in p..N, q - p + 1 >= MinSpeech, \A j \in p..q : a[j]
       PROVE  /\ S # <<>> /\ S[1].start < p
              /\ \E k \in 1..K : S[k].start < p /\ q <= S[k].end
  <2>1. PICK r \in 1..p : IsRun(a, r, gap) /\ EndOf(a, r, gap) >= q
    <3>1. gap \in Nat \ {0}
      BY <1>12
    <3> QED BY <1>1, <1>12, <3>1, RunCovers
  <2>2. PICK k \in 1..K : R[k] = r
    BY <1>3, <1>4, <2>1
  <2>3. S[k].start < p /\ q <= S[k].end
    <3>1. /\ S[k] \in [start : Nat, end : Nat] /\ S[k].start < r
          /\ EndOf(a, r, gap) <= S[k].end /\ EndOf(a, r, gap) \in r..N
      BY <1>8, <2>2
    <3>2. EndOf(a, r, gap) \in Nat
      BY <3>1
    <3> QED BY <2>1, <3>1, <3>2
  <2>4. 1 \in 1..K /\ R[1] <= r
    <3>1. 1 \in 1..K /\ R[1] \in 1..N /\ (1 < k => R[1] < R[k])
      BY <1>3, <1>4, <1>5
    <3> QED BY <2>2, <3>1
  <2>5. S[1].start < p
    <3>1. S[1] \in [start : Nat, end : Nat] /\ S[1].start < R[1] /\ R[1] \in 1..N
      BY <1>5, <1>8, <2>4
    <3> QED BY <2>1, <2>4, <3>1
  <2>6. S # <<>>
    BY <1>9, <2>4
  <2> QED BY <2>3, <2>5, <2>6
<1> QED BY <1>1, <1>7, <1>9, <1>10, <1>11, <1>12
-----------------------------------------------------------------------------
(* One pass of the loop. *)

\* Is sample j in one of some finals?
IsFinal(done, j) == \E k \in 1..Len(done) : done[k][1] < j /\ j <= done[k][2]

\* The finals made when n samples are before `pending`: in order, apart, none too
\* long and none of what is pending.
FinalsInv(done, n) ==
  /\ \A k \in 1..Len(done) :
       /\ done[k][1] < done[k][2] /\ done[k][2] <= n
       /\ done[k][2] - done[k][1] < MaxUtterance + MaxBlock
  /\ \A k \in 1..(Len(done) - 1) : done[k][2] <= done[k + 1][1]

\* Of every stretch of the least speech that starts before `pending`, a sample that
\* was heard is silent or final.
HeardInv(audio, done, n) ==
  \A i \in 1..n : \E j \in i..(i + MinSpeech - 1) : j <= Len(audio) /\ (~audio[j] \/ IsFinal(done, j))

\* Speech of the least length is not in the first samples.
QuietUpTo(pending, start) ==
  \A p \in 1..Len(pending) : \A q \in p..Len(pending) :
    q - p + 1 >= MinSpeech /\ (\A j \in p..q : pending[j]) => start < p

Intervals == Seq(Nat \X Nat)
LoopStates == [base : Nat, last : Nat, finals : Intervals, partial : SUBSET (Nat \X Nat),
               again : BOOLEAN]

LoopInv(audio, s) ==
  /\ s.base <= Len(audio)
  /\ FinalsInv(s.finals, s.base)
  /\ HeardInv(audio, s.finals, s.base)
  /\ \A p \in s.partial : s.base <= p[1]
  /\ s.again => s.partial = {}
  /\ Len(audio) - s.base < MaxUtterance + MaxBlock
  /\ ~s.again => Len(audio) - s.base < MaxUtterance

\* `pending` is the rest of the audio.
LEMMA PendingIs ==
  ASSUME NEW audio \in Seq(BOOLEAN), NEW n \in Nat, n <= Len(audio)
  PROVE  /\ Pending(audio, n) \in Seq(BOOLEAN)
         /\ Len(Pending(audio, n)) = Len(audio) - n
         /\ \A i \in 1..(Len(audio) - n) : Pending(audio, n)[i] = audio[n + i]
<1>1. PICK N \in Nat : N = Len(audio)
  BY LenProperties
<1>2. \A i \in (n + 1)..N : audio[i] \in BOOLEAN
  BY <1>1, ElementOfSeq
<1>3. PICK p : p = SubSeq(audio, n + 1, N)
  OBVIOUS
<1>4. /\ p \in Seq(BOOLEAN) /\ Len(p) = IF n + 1 <= N THEN N - (n + 1) + 1 ELSE 0
      /\ \A i \in 1..(N - (n + 1) + 1) : p[i] = audio[(n + 1) + i - 1]
  BY <1>2, <1>3, SubSeqProperties
<1>5. Len(p) = N - n
  BY <1>1, <1>4
<1>6. ASSUME NEW i \in 1..(N - n) PROVE p[i] = audio[n + i]
  <2>1. i \in 1..(N - (n + 1) + 1) /\ (n + 1) + i - 1 = n + i
    OBVIOUS
  <2> QED BY <1>4, <2>1
<1> QED BY <1>1, <1>3, <1>4, <1>5, <1>6 DEF Pending

\* The middle of two numbers is no further than they are.
LEMMA HalfWay ==
  ASSUME NEW m \in Nat, NEW x \in 0..m, NEW y \in 0..m
  PROVE  (x + y) \div 2 \in 0..m
<1>1. PICK z \in Nat : z = x + y /\ z <= 2 * m
  OBVIOUS
<1>2. z \div 2 \in Int /\ 2 * (z \div 2) <= z /\ z < 2 * (z \div 2) + 2
  OBVIOUS
<1>3. z \div 2 \in 0..m
  BY <1>1, <1>2
<1> QED BY <1>1, <1>3

\* A split leaves something of the utterance on its left, and is within the audio.
LEMMA CutWithin ==
  ASSUME NEW pending \in Seq(BOOLEAN), NEW start \in Nat, start <= Len(pending)
  PROVE  ShortPauseCuts(pending, start) \in SUBSET ((start + 1)..Len(pending))
<1>1. PICK N \in Nat : N = Len(pending)
  BY LenProperties
<1>2. PICK rest : rest = SubSeq(pending, start + 1, N)
  OBVIOUS
<1>3. rest \in Seq(BOOLEAN) /\ Len(rest) = N - start
  BY <1>1, <1>2, PendingIs DEF Pending
<1>4. PICK S : S = Vad(rest, ShortSilence, 0)
  OBVIOUS
<1>5. /\ S \in Seq([start : Nat, end : Nat])
      /\ \A k \in 1..Len(S) : S[k].start < S[k].end /\ S[k].end <= N - start
  <2>1. ShortSilence \in Nat /\ 0 \in Nat
    BY DurationsAre
  <2> QED BY <1>3, <1>4, <2>1, VadFinds
<1>6. PICK K \in Nat : K = Len(S)
  BY <1>5, LenProperties
<1>7. \A k \in 1..K : S[k].start \in Nat /\ S[k].end \in Nat /\ S[k].start <= N - start
                      /\ S[k].end <= N - start
  <2>1. ASSUME NEW k \in 1..K PROVE S[k] \in [start : Nat, end : Nat]
    BY <1>5, <1>6, ElementOfSeq
  <2> QED BY <1>1, <1>5, <1>6, <2>1
<1>8. ASSUME NEW k \in 1..(K - 1) PROVE (S[k].end + S[k + 1].start) \div 2 \in 0..(N - start)
  <2>1. k \in 1..K /\ k + 1 \in 1..K
    OBVIOUS
  <2>2. PICK x \in Nat, y \in Nat :
          x = S[k].end /\ y = S[k + 1].start /\ x <= N - start /\ y <= N - start
    BY <1>7, <2>1
  <2>3. (x + y) \div 2 \in 0..(N - start)
    <3>1. PICK m \in Nat : m = N - start
      BY <2>2
    <3>2. x \in 0..m /\ y \in 0..m
      BY <2>2, <3>1
    <3>3. (x + y) \div 2 \in 0..m
      BY <3>2, HalfWay
    <3> QED BY <3>1, <3>3
  <2> QED BY <2>2, <2>3
<1>9. ASSUME NEW cut \in ShortPauseCuts(pending, start) PROVE cut \in (start + 1)..N
  <2>1. PICK k \in 1..(K - 1) : cut = start + (S[k].end + S[k + 1].start) \div 2
    BY <1>1, <1>2, <1>4, <1>6, <1>9 DEF ShortPauseCuts
  <2>2. cut - start >= MinSplit
    BY <1>9 DEF ShortPauseCuts
  <2>3. PICK h \in 0..(N - start) : h = (S[k].end + S[k + 1].start) \div 2
    BY <1>8
  <2>4. MinSplit \in Nat /\ 0 < MinSplit
    BY DurationsAre, Proportions
  <2> QED BY <1>1, <2>1, <2>2, <2>3, <2>4
<1> QED BY <1>1, <1>9

\* One more final.
LEMMA FinalAdded ==
  ASSUME NEW done \in Intervals, NEW u \in Nat, NEW v \in Nat
  PROVE  /\ Append(done, <<u, v>>) \in Intervals
         /\ \A j \in Nat : IsFinal(done, j) => IsFinal(Append(done, <<u, v>>), j)
         /\ \A j \in (u + 1)..v : IsFinal(Append(done, <<u, v>>), j)
<1>1. PICK K \in Nat : K = Len(done)
  BY LenProperties DEF Intervals
<1>2. PICK x : x = <<u, v>>
  OBVIOUS
<1>3. x \in Nat \X Nat /\ x[1] = u /\ x[2] = v
  BY <1>2
<1>4. PICK d : d = Append(done, x)
  OBVIOUS
<1>5. /\ d \in Seq(Nat \X Nat) /\ Len(d) = K + 1 /\ d[K + 1] = x
      /\ \A k \in 1..K : d[k] = done[k]
  BY <1>1, <1>3, <1>4, AppendProperties DEF Intervals
<1>6. ASSUME NEW j \in Nat, IsFinal(done, j) PROVE IsFinal(d, j)
  <2>1. PICK k \in 1..K : done[k][1] < j /\ j <= done[k][2]
    BY <1>1, <1>6 DEF IsFinal
  <2>2. k \in 1..(K + 1) /\ d[k] = done[k]
    BY <1>5
  <2> QED BY <1>5, <2>1, <2>2 DEF IsFinal
<1>7. ASSUME NEW j \in (u + 1)..v PROVE IsFinal(d, j)
  <2>1. K + 1 \in 1..(K + 1) /\ u < j /\ j <= v
    OBVIOUS
  <2> QED BY <1>3, <1>5, <2>1 DEF IsFinal
<1> QED BY <1>2, <1>4, <1>5, <1>6, <1>7 DEF Intervals

\* A final from where the first samples end leaves nothing of the least length
\* behind, whatever ends it.
LEMMA FinalKeeps ==
  ASSUME NEW audio \in Seq(BOOLEAN), NEW done \in Intervals, NEW n \in Nat, n <= Len(audio),
         FinalsInv(done, n), HeardInv(audio, done, n),
         Len(audio) - n < MaxUtterance + MaxBlock,
         NEW start \in Nat, NEW stop \in Nat, start < stop, stop <= Len(audio) - n,
         QuietUpTo(Pending(audio, n), start)
  PROVE  /\ FinalsInv(Append(done, <<n + start, n + stop>>), n + stop)
         /\ HeardInv(audio, Append(done, <<n + start, n + stop>>), n + stop)
<1>1. PICK N \in Nat : N = Len(audio)
  BY LenProperties
<1>0. PICK u \in Nat, v \in Nat : u = n + start /\ v = n + stop
  OBVIOUS
<1>2. PICK d : d = Append(done, <<u, v>>)
  OBVIOUS
<1>3. /\ d \in Intervals
      /\ \A j \in Nat : IsFinal(done, j) => IsFinal(d, j)
      /\ \A j \in (u + 1)..v : IsFinal(d, j)
  BY <1>2, FinalAdded
<1>4. PICK pending : pending = Pending(audio, n)
  OBVIOUS
<1>5. /\ pending \in Seq(BOOLEAN) /\ Len(pending) = N - n
      /\ \A i \in 1..(N - n) : pending[i] = audio[n + i]
  BY <1>1, <1>4, PendingIs
<1>6. /\ MinSpeech \in Nat /\ 0 < MinSpeech /\ MaxUtterance \in Nat /\ MaxBlock \in Nat
      /\ u < v /\ v <= N /\ n <= u /\ v - u < MaxUtterance + MaxBlock
  <2>1. /\ MinSpeech \in Nat /\ 0 < MinSpeech /\ MaxUtterance \in Nat /\ MaxBlock \in Nat
    BY DurationsAre, Proportions, SegmenterBounds
  <2>2. N - n < MaxUtterance + MaxBlock /\ stop <= N - n
    BY <1>1
  <2> QED BY <1>0, <2>1, <2>2
<1>7. ASSUME NEW p \in 1..(N - n), NEW q \in p..(N - n), q - p + 1 >= MinSpeech,
             \A j \in p..q : pending[j]
      PROVE  n + p > u
  <2>1. start < p
    BY <1>4, <1>5, <1>7 DEF QuietUpTo
  <2> QED BY <1>0, <2>1
<1>8. HeardInv(audio, d, v)
  <2>1. ASSUME NEW i \in 1..v
        PROVE  \E j \in i..(i + MinSpeech - 1) : j <= N /\ (~audio[j] \/ IsFinal(d, j))
    <3>1. CASE i <= n
      <4>1. PICK j \in i..(i + MinSpeech - 1) : j <= N /\ (~audio[j] \/ IsFinal(done, j))
        BY <1>1, <3>1 DEF HeardInv
      <4>2. j \in Nat
        OBVIOUS
      <4> QED BY <1>3, <4>1, <4>2
    <3>2. CASE i > u
      <4>1. i \in i..(i + MinSpeech - 1) /\ i <= N /\ i \in (u + 1)..v
        BY <1>1, <1>6, <3>2
      <4> QED BY <1>3, <4>1
    <3>3. CASE n < i /\ i <= u /\ u < i + MinSpeech - 1
      <4>1. /\ u + 1 \in i..(i + MinSpeech - 1) /\ u + 1 <= N
            /\ u + 1 \in (u + 1)..v
        BY <1>1, <1>6, <3>3
      <4> QED BY <1>3, <4>1
    <3>4. CASE n < i /\ i <= u /\ i + MinSpeech - 1 <= u
      <4>1. PICK p \in Nat, q \in Nat : p = i - n /\ q = p + MinSpeech - 1
        BY <1>6, <3>4
      <4>2. p \in 1..(N - n) /\ q \in p..(N - n) /\ q - p + 1 >= MinSpeech /\ ~(n + p > u)
        BY <1>1, <1>6, <3>4, <4>1
      <4>3. PICK k \in p..q : ~pending[k]
        BY <1>7, <4>2
      <4>4. k \in 1..(N - n) /\ n + k \in i..(i + MinSpeech - 1) /\ n + k <= N
        BY <1>1, <1>6, <4>1, <4>2
      <4>5. ~audio[n + k]
        BY <1>5, <4>3, <4>4
      <4> QED BY <4>4, <4>5
    <3>5. i <= n \/ i > u \/ (n < i /\ i <= u)
      BY <1>6
    <3>6. u < i + MinSpeech - 1 \/ i + MinSpeech - 1 <= u
      BY <1>6
    <3> QED BY <3>1, <3>2, <3>3, <3>4, <3>5, <3>6
  <2> QED BY <1>1, <2>1 DEF HeardInv
<1>9. FinalsInv(d, v)
  <2>1. PICK K \in Nat : K = Len(done)
    BY LenProperties DEF Intervals
  <2>2. PICK x : x = <<u, v>>
    OBVIOUS
  <2>3. x \in Nat \X Nat /\ x[1] = u /\ x[2] = v
    BY <2>2
  <2>4. Len(d) = K + 1 /\ d[K + 1] = x /\ \A k \in 1..K : d[k] = done[k]
    BY <1>2, <2>1, <2>2, <2>3, AppendProperties DEF Intervals
  <2>5. \A k \in 1..K : done[k] \in Nat \X Nat
    BY <2>1, ElementOfSeq DEF Intervals
  <2>0. n <= v
    BY <1>6
  <2>6. ASSUME NEW k \in 1..(K + 1)
        PROVE  /\ d[k][1] < d[k][2] /\ d[k][2] <= v
               /\ d[k][2] - d[k][1] < MaxUtterance + MaxBlock
    <3>1. CASE k \in 1..K
      <4>1. /\ done[k][1] < done[k][2] /\ done[k][2] <= n
            /\ done[k][2] - done[k][1] < MaxUtterance + MaxBlock
            /\ done[k][1] \in Nat /\ done[k][2] \in Nat
        BY <2>1, <2>5, <3>1 DEF FinalsInv
      <4>2. d[k] = done[k]
        BY <2>4, <3>1
      <4>3. PICK y \in Nat : y = done[k][2] /\ y <= n
        BY <4>1
      <4>4. y <= v
        BY <2>0, <4>3
      <4> QED BY <4>1, <4>2, <4>3, <4>4
    <3>2. CASE k = K + 1
      BY <1>6, <2>3, <2>4, <3>2
    <3>3. k \in 1..K \/ k = K + 1
      OBVIOUS
    <3> QED BY <3>1, <3>2, <3>3
  <2>7. ASSUME NEW k \in 1..K PROVE d[k][2] <= d[k + 1][1]
    <3>1. CASE k \in 1..(K - 1)
      <4>1. k \in 1..K /\ k + 1 \in 1..K
        BY <3>1
      <4>2. done[k][2] <= done[k + 1][1]
        BY <2>1, <3>1 DEF FinalsInv
      <4> QED BY <2>4, <4>1, <4>2
    <3>2. CASE k = K
      <4>1. done[k][2] <= n /\ done[k][2] \in Nat
        BY <2>1, <2>5 DEF FinalsInv
      <4> QED BY <1>6, <2>3, <2>4, <3>2, <4>1
    <3>3. k \in 1..(K - 1) \/ k = K
      OBVIOUS
    <3> QED BY <3>1, <3>2, <3>3
  <2> QED BY <2>4, <2>6, <2>7 DEF FinalsInv
<1> QED BY <1>0, <1>2, <1>8, <1>9
\* The state after a final from the first span to `stop`, with more to look at or
\* nothing.
LEMMA FinalIs ==
  ASSUME NEW audio \in Seq(BOOLEAN), NEW s \in LoopStates, LoopInv(audio, s), s.again,
         NEW start \in Nat, NEW stop \in Nat, start < stop, stop <= Len(audio) - s.base,
         QuietUpTo(Pending(audio, s.base), start),
         NEW t, NEW go \in BOOLEAN, go \/ ~(stop < Len(audio) - s.base),
         t = [s EXCEPT !.base = Len(audio) - (Len(Pending(audio, s.base)) - stop),
                       !.last = Len(audio),
                       !.finals = Append(@, <<s.base + start, s.base + stop>>),
                       !.again = go]
  PROVE  t \in LoopStates /\ LoopInv(audio, t) /\ t.base > s.base
<1>1. PICK N \in Nat, n \in Nat, done \in Intervals :
        N = Len(audio) /\ n = s.base /\ done = s.finals
  BY LenProperties DEF LoopStates
<1>2. /\ n <= N /\ s.partial = {} /\ FinalsInv(done, n) /\ HeardInv(audio, done, n)
      /\ N - n < MaxUtterance + MaxBlock /\ stop <= N - n
  BY <1>1 DEF LoopInv
<1>3. Len(Pending(audio, n)) = N - n
  BY <1>1, <1>2, PendingIs
<1>4. PICK d : d = Append(done, <<n + start, n + stop>>)
  OBVIOUS
<1>5. d \in Intervals
  <2>1. PICK u \in Nat, v \in Nat : u = n + start /\ v = n + stop
    OBVIOUS
  <2> QED BY <1>4, <2>1, FinalAdded
<1>6. FinalsInv(d, n + stop) /\ HeardInv(audio, d, n + stop)
  BY <1>1, <1>2, <1>4, FinalKeeps
<1>7. N - (Len(Pending(audio, n)) - stop) = n + stop
  BY <1>2, <1>3
<1>8. /\ t.base = n + stop /\ t.last = N /\ t.finals = d /\ t.partial = {} /\ t.again = go
      /\ t \in LoopStates
  <2>1. PICK b \in Nat : b = n + stop
    OBVIOUS
  <2>2. t = [s EXCEPT !.base = b, !.last = N, !.finals = d, !.again = go]
    <3>1. Append(s.finals, <<s.base + start, s.base + stop>>) = d
      BY <1>1, <1>4
    <3>2. Len(audio) - (Len(Pending(audio, s.base)) - stop) = b
      BY <1>1, <1>7, <2>1
    <3> QED BY <1>1, <3>1, <3>2 DEF LoopStates
  <2>3. /\ t.base = b /\ t.last = N /\ t.finals = d /\ t.partial = s.partial /\ t.again = go
        /\ t \in LoopStates
    BY <1>5, <2>2 DEF LoopStates
  <2> QED BY <1>2, <2>1, <2>3
<1>9. 0 < MaxUtterance /\ MaxUtterance \in Nat /\ MaxBlock \in Nat
  <2>1. PreRoll \in Nat /\ MaxUtterance \in Nat /\ MaxBlock \in Nat
    BY DurationsAre, SegmenterBounds
  <2> QED BY <2>1, Proportions
<1>10. N - (n + stop) < MaxUtterance + MaxBlock /\ n + stop <= N /\ n + stop > n
  BY <1>2, <1>9
<1>11. ~go => N - (n + stop) < MaxUtterance
  BY <1>1, <1>2, <1>9
<1> QED BY <1>1, <1>6, <1>8, <1>10, <1>11 DEF LoopInv

\* A pass keeps the loop's invariant, and goes round again only after a final.
LEMMA PassKeeps ==
  ASSUME NEW audio \in Seq(BOOLEAN), NEW s \in LoopStates, LoopInv(audio, s), s.again
  PROVE  /\ Pass(audio, s) \in LoopStates /\ LoopInv(audio, Pass(audio, s))
         /\ Pass(audio, s).again => Pass(audio, s).base > s.base
<1>1. PICK N \in Nat, n \in Nat : N = Len(audio) /\ n = s.base
  BY LenProperties DEF LoopStates
<1>2. n <= N
  BY <1>1 DEF LoopInv
<1>3. PICK pending, spans : pending = Pending(audio, n) /\ spans = Vad(pending, MinSilence, Pad)
  OBVIOUS
<1>4. pending \in Seq(BOOLEAN) /\ Len(pending) = N - n
      /\ \A i \in 1..(N - n) : pending[i] = audio[n + i]
  BY <1>1, <1>2, <1>3, PendingIs
<1>5. /\ MinSpeech \in Nat /\ 0 < MinSpeech /\ MinSpeech <= PreRoll
      /\ MinSilence \in Nat /\ MinSilence # 0 /\ Pad \in Nat /\ PreRoll \in Nat /\ EndMargin \in Nat
      /\ MaxUtterance \in Nat /\ MaxBlock \in Nat /\ PreRoll < MaxUtterance
  <2>1. /\ MinSpeech \in Nat /\ MinSilence \in Nat /\ Pad \in Nat /\ PreRoll \in Nat
        /\ EndMargin \in Nat /\ MaxUtterance \in Nat /\ MaxBlock \in Nat
    BY DurationsAre, SegmenterBounds
  <2> QED BY <2>1, Proportions
<1>6. /\ spans \in Seq([start : Nat, end : Nat])
      /\ \A k \in 1..Len(spans) : spans[k].start < spans[k].end /\ spans[k].end <= N - n
      /\ \A p \in 1..(N - n) : \A q \in p..(N - n) :
           q - p + 1 >= MinSpeech /\ (\A j \in p..q : pending[j]) =>
             spans # <<>> /\ spans[1].start < p
  <2>1. /\ spans \in Seq([start : Nat, end : Nat])
        /\ \A k \in 1..Len(spans) : spans[k].start < spans[k].end /\ spans[k].end <= Len(pending)
        /\ \A p \in 1..Len(pending) : \A q \in p..Len(pending) :
             q - p + 1 >= MinSpeech /\ (\A j \in p..q : pending[j]) =>
               spans # <<>> /\ spans[1].start < p
    <3>1. pending \in Seq(BOOLEAN)
      BY <1>4
    <3> QED BY <1>3, <1>5, <3>1, VadFinds
  <2> QED BY <1>4, <2>1
<1>7. CASE pending = <<>>
  <2>1. Pass(audio, s) = [s EXCEPT !.again = FALSE]
    BY <1>1, <1>3, <1>7 DEF Pass
  <2>2. N - n = 0
    BY <1>4, <1>7
  <2>3. PICK t : t = [s EXCEPT !.again = FALSE]
    OBVIOUS
  <2>4. /\ t \in LoopStates /\ t.base = n /\ t.finals = s.finals /\ t.partial = s.partial
        /\ t.again = FALSE
    BY <1>1, <2>3 DEF LoopStates
  <2>5. N - n < MaxUtterance
    BY <1>5, <2>2
  <2>6. LoopInv(audio, t)
    BY <1>1, <2>4, <2>5 DEF LoopInv
  <2> QED BY <2>1, <2>3, <2>4, <2>6
<1>8. CASE pending # <<>> /\ spans = <<>>
  <2>1. PICK b : b = N - PreRollKept(pending)
    OBVIOUS
  <2>2. PICK t : t = [s EXCEPT !.base = b, !.again = FALSE]
    OBVIOUS
  <2>3. Pass(audio, s) = t
    BY <1>1, <1>3, <1>8, <2>1, <2>2 DEF Pass
  <2>4. PreRollKept(pending) = IF PreRoll <= N - n THEN PreRoll ELSE N - n
    <3>1. PICK m \in Int, l \in Int : m = N - n /\ l = PreRoll
      BY <1>5
    <3>2. Min({l, m}) = IF l <= m THEN l ELSE m
      BY TwoNumbers
    <3> QED BY <1>4, <3>1, <3>2 DEF PreRollKept
  <2>5. b \in Nat /\ n <= b /\ b <= N /\ N - b <= PreRoll /\ (b = n \/ b = N - PreRoll)
    BY <1>2, <1>5, <2>1, <2>4
  <2>6. t \in LoopStates /\ t.base = b /\ t.finals = s.finals /\ t.partial = {} /\ t.again = FALSE
    BY <2>2, <2>5 DEF LoopStates, LoopInv
  <2>7. HeardInv(audio, s.finals, b)
    <3>1. ASSUME NEW i \in 1..b
          PROVE  \E j \in i..(i + MinSpeech - 1) : j <= N /\ (~audio[j] \/ IsFinal(s.finals, j))
      <4>1. CASE i <= n
        BY <1>1, <4>1 DEF LoopInv, HeardInv
      <4>2. CASE i > n
        <5>1. PICK p \in Nat, q \in Nat : p = i - n /\ q = p + MinSpeech - 1
          BY <1>5, <4>2
        <5>2. p \in 1..(N - n) /\ q \in p..(N - n) /\ q - p + 1 >= MinSpeech
          BY <1>5, <2>5, <4>2, <5>1
        <5>3. PICK k \in p..q : ~pending[k]
          BY <1>6, <1>8, <5>2
        <5>4. k \in 1..(N - n) /\ n + k \in i..(i + MinSpeech - 1) /\ n + k <= N
          BY <1>2, <1>5, <5>1, <5>2
        <5>5. ~audio[n + k]
          BY <1>4, <5>3, <5>4
        <5> QED BY <5>4, <5>5
      <4> QED BY <2>5, <4>1, <4>2
    <3> QED BY <1>1, <3>1 DEF HeardInv
  <2>8. FinalsInv(s.finals, b)
    <3>1. \A k \in 1..Len(s.finals) : s.finals[k] \in Nat \X Nat
      BY ElementOfSeq DEF LoopStates, Intervals
    <3> QED BY <1>1, <2>5, <3>1 DEF LoopInv, FinalsInv
  <2>9. N - b < MaxUtterance
    BY <1>5, <2>5
  <2>10. LoopInv(audio, t)
    BY <1>1, <1>5, <2>5, <2>6, <2>7, <2>8, <2>9 DEF LoopInv
  <2> QED BY <2>3, <2>6, <2>10
<1>9. CASE pending # <<>> /\ spans # <<>>
  <2>1. PICK start \in Nat, end \in Nat : start = spans[1].start /\ end = spans[1].end
    <3>1. 1 \in 1..Len(spans)
      BY <1>6, <1>9, LenProperties, EmptySeq
    <3>2. spans[1] \in [start : Nat, end : Nat]
      BY <1>6, <3>1, ElementOfSeq
    <3> QED BY <3>2
  <2>2. start < end /\ end <= N - n
    <3>1. 1 \in 1..Len(spans)
      BY <1>6, <1>9, LenProperties, EmptySeq
    <3> QED BY <1>6, <2>1, <3>1
  <2>3. QuietUpTo(Pending(audio, n), start)
    BY <1>3, <1>4, <1>6, <2>1 DEF QuietUpTo
  <2> DEFINE due == N - s.last >= PreviewEvery
  <2>5. PICK cuts : cuts = IF due THEN ShortPauseCuts(pending, start) ELSE {}
    OBVIOUS
  <2>6. cuts \in SUBSET ((start + 1)..(N - n))
    <3>1. pending \in Seq(BOOLEAN) /\ start <= Len(pending)
      BY <1>4, <2>2
    <3>2. ShortPauseCuts(pending, start) \in SUBSET ((start + 1)..Len(pending))
      BY <3>1, CutWithin
    <3> QED BY <1>4, <2>5, <3>2
  <2> DEFINE Final(stop, m) == [s EXCEPT !.base = N - m, !.last = N,
                                         !.finals = Append(@, <<n + start, n + stop>>)]
  <2>7. Pass(audio, s) =
          IF Len(spans) > 1 \/ end + EndMargin < Len(pending) THEN Final(end, Len(pending) - end)
          ELSE IF TooLong(pending)
          THEN [Final(Len(pending), NothingLeft(pending)) EXCEPT !.again = FALSE]
          ELSE IF cuts # {} THEN Final(Max(cuts), Len(pending) - Max(cuts))
          ELSE IF due /\ Len(pending) - start >= MinPreview
               THEN [s EXCEPT !.partial = {<<n + start, N>>}, !.last = N, !.again = FALSE]
          ELSE [s EXCEPT !.again = FALSE]
    BY <1>1, <1>3, <1>9, <2>1, <2>5 DEF Pass
  <2>8. ASSUME NEW stop \in Nat, start < stop, stop <= N - n,
               Pass(audio, s) = Final(stop, Len(pending) - stop)
        PROVE  /\ Pass(audio, s) \in LoopStates /\ LoopInv(audio, Pass(audio, s))
               /\ Pass(audio, s).base > s.base
    <3>1. PICK t : t = Pass(audio, s)
      OBVIOUS
    <3>2. t = [s EXCEPT !.base = Len(audio) - (Len(Pending(audio, s.base)) - stop),
                        !.last = Len(audio),
                        !.finals = Append(@, <<s.base + start, s.base + stop>>),
                        !.again = TRUE]
      BY <1>1, <1>3, <2>8, <3>1 DEF LoopStates
    <3>3. stop <= Len(audio) - s.base /\ QuietUpTo(Pending(audio, s.base), start)
      BY <1>1, <2>3, <2>8
    <3>4. t \in LoopStates /\ LoopInv(audio, t) /\ t.base > s.base
      BY <2>8, <3>2, <3>3, FinalIs
    <3> QED BY <3>1, <3>4
  <2>9. CASE Len(spans) > 1 \/ end + EndMargin < Len(pending)
    BY <2>2, <2>7, <2>8, <2>9
  <2>10. CASE ~(Len(spans) > 1 \/ end + EndMargin < Len(pending)) /\ TooLong(pending)
    <3>1. PICK t, stop : t = Pass(audio, s) /\ stop = N - n /\ stop \in Nat
      BY <1>2
    <3>2. t = [s EXCEPT !.base = Len(audio) - (Len(Pending(audio, s.base)) - stop),
                        !.last = Len(audio),
                        !.finals = Append(@, <<s.base + start, s.base + stop>>),
                        !.again = FALSE]
      <4>1. Len(Pending(audio, s.base)) - stop = 0 /\ stop = Len(pending)
        BY <1>1, <1>3, <1>4, <3>1
      <4> QED BY <1>1, <2>7, <2>10, <3>1, <4>1 DEF LoopStates, NothingLeft
    <3>3. /\ start < stop /\ stop <= Len(audio) - s.base /\ ~(stop < Len(audio) - s.base)
          /\ QuietUpTo(Pending(audio, s.base), start)
      BY <1>1, <2>2, <2>3, <3>1
    <3>4. PICK go \in BOOLEAN : go = FALSE
      OBVIOUS
    <3>5. t = [s EXCEPT !.base = Len(audio) - (Len(Pending(audio, s.base)) - stop),
                        !.last = Len(audio),
                        !.finals = Append(@, <<s.base + start, s.base + stop>>),
                        !.again = go]
      BY <3>2, <3>4
    <3>6. stop \in Nat /\ t \in LoopStates /\ LoopInv(audio, t) /\ t.base > s.base
      BY <3>1, <3>3, <3>5, FinalIs
    <3> QED BY <3>1, <3>6
  <2>11. CASE /\ ~(Len(spans) > 1 \/ end + EndMargin < Len(pending)) /\ ~TooLong(pending)
              /\ cuts # {}
    <3>1. PICK stop \in cuts : stop = Max(cuts)
      <4>1. cuts \in SUBSET (0..N) /\ cuts # {}
        BY <1>2, <2>6, <2>11
      <4> QED BY <4>1, GreatestOf
    <3>2. stop \in Nat /\ start < stop /\ stop <= N - n
      BY <1>2, <2>6, <3>1
    <3>3. Pass(audio, s) = Final(stop, Len(pending) - stop)
      BY <2>7, <2>11, <3>1
    <3> QED BY <2>8, <3>2, <3>3
  <2>12. CASE /\ ~(Len(spans) > 1 \/ end + EndMargin < Len(pending)) /\ ~TooLong(pending)
              /\ cuts = {}
    <3>1. N - n < MaxUtterance
      BY <1>4, <1>5, <2>12 DEF TooLong
    <3>2. PICK t, P : /\ t = Pass(audio, s)
                      /\ P = IF due /\ Len(pending) - start >= MinPreview
                             THEN {<<n + start, N>>} ELSE {}
      OBVIOUS
    <3>3. t = [s EXCEPT !.partial = P, !.last = t.last, !.again = FALSE] /\ t.last \in {s.last, N}
      BY <2>7, <2>12, <3>2 DEF LoopStates, LoopInv
    <3>4. P \in SUBSET (Nat \X Nat) /\ \A p \in P : n <= p[1]
      BY <3>2
    <3>5. /\ t \in LoopStates /\ t.base = n /\ t.finals = s.finals /\ t.partial = P
          /\ t.again = FALSE
      BY <1>1, <3>3, <3>4 DEF LoopStates
    <3> QED BY <1>1, <3>1, <3>2, <3>4, <3>5 DEF LoopInv
  <2> QED BY <2>9, <2>10, <2>11, <2>12
<1> QED BY <1>7, <1>8, <1>9
-----------------------------------------------------------------------------
(* The loop, and the segmenter. *)

\* The ways to go n steps from a within a set: there is one.
Walks(V, a, N, step) ==
  {f \in [0..N -> V] : f[0] = a /\ \A n \in 1..N : f[n] = step[n][f[n - 1]]}

LEMMA WalkExists ==
  ASSUME NEW V, NEW a \in V, NEW N \in Nat, NEW step \in [1..N -> [V -> V]]
  PROVE  Walks(V, a, N, step) # {}
BY StepsExist DEF Walks

\* Passes is the account of the states after so many passes; all are good, and the
\* loop has ended after the last of them.
LEMMA LoopKeeps ==
  ASSUME NEW audio \in Seq(BOOLEAN), NEW s \in LoopStates, LoopInv(audio, s)
  PROVE  /\ Loop(audio, s) \in LoopStates /\ LoopInv(audio, Loop(audio, s))
         /\ ~Loop(audio, s).again
<1>0. PICK M \in Nat : M = Len(audio) + 1
  BY LenProperties
<1> DEFINE States == {t \in LoopStates : LoopInv(audio, t)}
           Onward(t) == IF t.again THEN Pass(audio, t) ELSE t
           F(f) == [n \in 0..M |-> IF n = 0 THEN s ELSE Onward(f[n - 1])]
           C == Passes(audio, s)
           stride == [n \in 1..M |-> [t \in States |-> Onward(t)]]
<1>1. s \in States
  OBVIOUS
<1>2. ASSUME NEW t \in States PROVE Onward(t) \in States /\ (Onward(t).again => Onward(t).base > t.base /\ t.again)
  <2>1. t \in LoopStates /\ LoopInv(audio, t)
    OBVIOUS
  <2>2. CASE t.again
    <3>1. /\ Pass(audio, t) \in LoopStates /\ LoopInv(audio, Pass(audio, t))
          /\ Pass(audio, t).again => Pass(audio, t).base > t.base
      BY <2>1, <2>2, PassKeeps
    <3> QED BY <2>2, <3>1
  <2>3. CASE ~t.again
    BY <2>3
  <2> QED BY <2>2, <2>3
<1> HIDE DEF States, Onward
<1>3. stride \in [1..M -> [States -> States]]
  BY <1>2
<1>4. PICK U \in [0..M -> States] : U[0] = s /\ \A n \in 1..M : U[n] = stride[n][U[n - 1]]
  <2> HIDE DEF F, C, stride
  <2>1. Walks(States, s, M, stride) # {}
    BY <1>1, <1>3, WalkExists
  <2> QED BY <2>1 DEF Walks
<1>5. \A n \in 1..M : U[n - 1] \in States /\ U[n] = Onward(U[n - 1])
  <2>1. \A n \in 1..M : U[n - 1] \in States
    OBVIOUS
  <2> QED BY <1>4, <2>1
<1>6. U = F(U)
  <2>1. ASSUME NEW n \in 0..M PROVE U[n] = F(U)[n]
    <3>1. n = 0 \/ n \in 1..M
      OBVIOUS
    <3> QED BY <1>4, <1>5, <3>1
  <2> QED BY <2>1
<1>7. C = CHOOSE f : f = F(f)
  BY <1>0 DEF Passes, Onward
<1> HIDE DEF F, C
<1>8. C = F(C)
  BY <1>6, <1>7
<1>9. C[0] = s /\ \A n \in 1..M : C[n] = Onward(C[n - 1])
  <2>1. \A n \in 0..M : C[n] = F(C)[n]
    BY <1>8
  <2>2. C[0] = s
    BY <2>1 DEF F
  <2>3. ASSUME NEW n \in 1..M PROVE C[n] = Onward(C[n - 1])
    <3>1. n \in 0..M /\ n # 0
      OBVIOUS
    <3>2. C[n] = F(C)[n]
      BY <2>1, <3>1
    <3> QED BY <3>1, <3>2 DEF F
  <2> QED BY <2>2, <2>3
<1>10. ASSUME NEW n \in 0..M PROVE C[n] = U[n] /\ (U[n].again => U[n].base >= n)
  <2> DEFINE P == {k \in 0..M : C[k] = U[k] /\ (U[k].again => U[k].base >= k)}
  <2>1. P \in SUBSET Nat /\ 0 \in P
    <3>1. U[0].base \in Nat
      BY <1>4 DEF LoopStates
    <3> QED BY <1>4, <1>9, <3>1
  <2>2. ASSUME NEW k \in 1..M, k - 1 \in P PROVE k \in P
    <3>1. PICK t : t = U[k - 1]
      OBVIOUS
    <3>2. t \in States /\ U[k] = Onward(t) /\ C[k] = Onward(t) /\ (t.again => t.base >= k - 1)
      BY <1>5, <1>9, <2>2, <3>1
    <3>3. t.base \in Nat /\ U[k].base \in Nat
      <4>1. t \in LoopStates /\ Onward(t) \in LoopStates
        BY <1>2, <3>2 DEF States
      <4> QED BY <3>2, <4>1 DEF LoopStates
    <3>4. U[k].again => U[k].base >= k
      BY <1>2, <3>2, <3>3
    <3> QED BY <3>2, <3>4
  <2> HIDE DEF P
  <2>3. \A k \in 0..M : k \in P
    BY <2>1, <2>2, StepByStep
  <2> QED BY <2>3 DEF P
<1>11. PICK e : e = U[M]
  OBVIOUS
<1>12. Loop(audio, s) = e
  <2>1. Loop(audio, s) = C[M]
    BY <1>0 DEF Loop, C
  <2> QED BY <1>10, <1>11, <2>1
<1>13. e \in LoopStates /\ LoopInv(audio, e) /\ (e.again => e.base >= M)
  <2>1. e \in States
    BY <1>11
  <2> QED BY <1>10, <1>11, <2>1 DEF States
<1>14. ~e.again
  <2>1. e.base \in Nat /\ e.base <= Len(audio) /\ Len(audio) \in Nat
    BY <1>13, LenProperties DEF LoopStates, LoopInv
  <2> QED BY <1>0, <1>13, <2>1
<1> QED BY <1>12, <1>13, <1>14

\* No stretch of the least speech among the first n samples has neither silence nor
\* a final sample.
NoneLost(audio, done, n) ==
  \A i \in 1..(n - MinSpeech + 1) :
    \E j \in i..(i + MinSpeech - 1) : ~audio[j] \/ IsFinal(done, j)

SegmentInv ==
  /\ heard \in Seq(BOOLEAN) /\ base \in Nat /\ base <= Len(heard) /\ lastPreview \in Nat
  /\ finals \in Intervals /\ partials \in SUBSET (Nat \X Nat) /\ finished \in BOOLEAN
  /\ FinalsInv(finals, base)
  /\ \A p \in partials : base <= p[1]
  /\ IF finished THEN NoneLost(heard, finals, base) /\ base = Len(heard)
     ELSE HeardInv(heard, finals, base) /\ Len(heard) - base < MaxUtterance

LEMMA FeedKeeps ==
  ASSUME SegmentInv, NEW n \in BlockSizes, NEW block \in [1..n -> BOOLEAN], Feed(block)
  PROVE  SegmentInv'
<1>1. PICK N \in Nat, b \in Nat : N = Len(heard) /\ b = base
  BY LenProperties DEF SegmentInv
<1>0. PICK audio, old, done : audio = heard' /\ old = heard /\ done = finals
  OBVIOUS
<1>2. n \in Nat /\ n <= MaxBlock /\ MaxBlock \in Nat /\ MaxUtterance \in Nat
  BY SegmenterBounds, DurationsAre
<1>3. /\ old \in Seq(BOOLEAN) /\ done \in Intervals /\ ~finished /\ b <= N /\ N - b < MaxUtterance
      /\ FinalsInv(done, b) /\ HeardInv(old, done, b)
  BY <1>1, <1>0 DEF SegmentInv, Feed
<1>4. audio \in Seq(BOOLEAN) /\ Len(audio) = N + n /\ \A i \in 1..N : audio[i] = old[i]
  <2>1. block \in Seq(BOOLEAN) /\ Len(block) = n
    <3>1. block \in Seq(BOOLEAN) /\ DOMAIN block = 1..n
      BY <1>2, SeqDef
    <3>2. Len(block) \in Nat /\ DOMAIN block = 1..Len(block)
      BY <3>1, LenProperties
    <3> QED BY <1>2, <3>1, <3>2
  <2>2. audio = old \o block
    BY <1>0 DEF Feed
  <2>3. /\ old \o block \in Seq(BOOLEAN) /\ Len(old \o block) = Len(old) + Len(block)
        /\ \A i \in 1..(Len(old) + Len(block)) :
             (old \o block)[i] = IF i <= Len(old) THEN old[i] ELSE block[i - Len(old)]
    BY <1>3, <2>1, ConcatProperties
  <2> QED BY <1>1, <1>2, <1>0, <2>1, <2>2, <2>3
<1>5. HeardInv(audio, done, b)
  <2>1. ASSUME NEW i \in 1..b
        PROVE  \E j \in i..(i + MinSpeech - 1) : j <= N + n /\ (~audio[j] \/ IsFinal(done, j))
    <3>1. PICK j \in i..(i + MinSpeech - 1) : j <= N /\ (~old[j] \/ IsFinal(done, j))
      BY <1>1, <1>3, <1>0 DEF HeardInv
    <3>2. j \in 1..N /\ j <= N + n
      BY <1>2, <3>1
    <3> QED BY <1>4, <3>1, <3>2
  <2> QED BY <1>4, <2>1 DEF HeardInv
<1>6. PICK s : s = [base |-> b, last |-> lastPreview, finals |-> done, partial |-> {}, again |-> TRUE]
  OBVIOUS
<1>7. /\ s \in LoopStates /\ s.base = b /\ s.finals = done /\ s.partial = {} /\ s.again = TRUE
  BY <1>3, <1>6 DEF SegmentInv, LoopStates
<1>8. LoopInv(audio, s)
  BY <1>2, <1>3, <1>4, <1>5, <1>7 DEF LoopInv
<1>9. PICK e : e = Loop(audio, s)
  OBVIOUS
<1>10. e \in LoopStates /\ LoopInv(audio, e) /\ ~e.again
  BY <1>4, <1>7, <1>8, <1>9, LoopKeeps
<1>11. /\ heard' = audio /\ base' = e.base /\ lastPreview' = e.last /\ finals' = e.finals
       /\ partials' = e.partial /\ finished' = finished /\ ~finished
  BY <1>1, <1>6, <1>9, <1>0 DEF Feed
<1>12. /\ e.base \in Nat /\ e.last \in Nat /\ e.finals \in Intervals
       /\ e.partial \in SUBSET (Nat \X Nat)
  BY <1>10 DEF LoopStates
<1> QED BY <1>4, <1>10, <1>11, <1>12 DEF LoopInv, SegmentInv

\* finish() makes every span that is left final.
LEMMA FinishKeeps == ASSUME SegmentInv, Finish PROVE SegmentInv'
<1>1. PICK N \in Nat, n \in Nat, done \in Intervals :
        N = Len(heard) /\ n = base /\ done = finals
  BY LenProperties DEF SegmentInv
<1>2. /\ n <= N /\ N - n < MaxUtterance /\ FinalsInv(done, n) /\ HeardInv(heard, done, n)
      /\ heard \in Seq(BOOLEAN)
  BY <1>1 DEF SegmentInv, Finish
<1>3. PICK pending, S : pending = Pending(heard, n) /\ S = Vad(pending, MinSilence, Pad)
  OBVIOUS
<1>4. pending \in Seq(BOOLEAN) /\ Len(pending) = N - n
      /\ \A i \in 1..(N - n) : pending[i] = heard[n + i]
  BY <1>1, <1>2, <1>3, PendingIs
<1>5. /\ MinSpeech \in Nat /\ 0 < MinSpeech /\ MinSilence \in Nat /\ MinSilence # 0 /\ Pad \in Nat
      /\ 2 * Pad <= MinSilence /\ MaxUtterance \in Nat /\ MaxBlock \in Nat
  <2>1. /\ MinSpeech \in Nat /\ MinSilence \in Nat /\ Pad \in Nat /\ EndMargin \in Nat
        /\ MaxUtterance \in Nat /\ MaxBlock \in Nat
    BY DurationsAre, SegmenterBounds
  <2> QED BY <2>1, Proportions
<1>6. /\ S \in Seq([start : Nat, end : Nat])
      /\ \A k \in 1..Len(S) : S[k].start < S[k].end /\ S[k].end <= N - n
      /\ \A k \in 1..(Len(S) - 1) : S[k].end <= S[k + 1].start
      /\ \A p \in 1..(N - n) : \A q \in p..(N - n) :
           q - p + 1 >= MinSpeech /\ (\A j \in p..q : pending[j]) =>
             \E k \in 1..Len(S) : S[k].start < p /\ q <= S[k].end
  <2>1. /\ S \in Seq([start : Nat, end : Nat])
        /\ \A k \in 1..Len(S) : S[k].start < S[k].end /\ S[k].end <= Len(pending)
        /\ \A k \in 1..(Len(S) - 1) : S[k].end <= S[k + 1].start
        /\ \A p \in 1..Len(pending) : \A q \in p..Len(pending) :
             q - p + 1 >= MinSpeech /\ (\A j \in p..q : pending[j]) =>
               \E k \in 1..Len(S) : S[k].start < p /\ q <= S[k].end
    <3>1. pending \in Seq(BOOLEAN)
      BY <1>4
    <3> QED BY <1>3, <1>5, <3>1, VadFinds
  <2> QED BY <1>4, <2>1
<1>7. PICK K \in Nat, L \in Nat : K = Len(S) /\ L = Len(done)
  BY <1>6, LenProperties DEF Intervals
<1>8. ASSUME NEW k \in 1..K PROVE S[k].start \in Nat /\ S[k].end \in Nat
  <2>1. S[k] \in [start : Nat, end : Nat]
    BY <1>6, <1>7, ElementOfSeq
  <2> QED BY <2>1
<1>9. PICK R : R = [k \in 1..K |-> <<n + S[k].start, n + S[k].end>>]
  OBVIOUS
<1>10. R \in Intervals /\ Len(R) = K
       /\ \A k \in 1..K : R[k][1] = n + S[k].start /\ R[k][2] = n + S[k].end
  <2>1. PICK X : X = Nat \X Nat
    OBVIOUS
  <2>2. R \in [1..K -> X]
    BY <1>8, <1>9, <2>1
  <2>3. R \in Seq(X) /\ DOMAIN R = 1..K
    BY <2>2, SeqDef
  <2>4. Len(R) \in Nat /\ DOMAIN R = 1..Len(R)
    BY <2>3, LenProperties
  <2>5. Len(R) = K
    BY <2>3, <2>4
  <2> QED BY <1>9, <2>1, <2>3, <2>5 DEF Intervals
<1>11. PICK d : d = done \o R
  OBVIOUS
<1>12. /\ d \in Intervals /\ Len(d) = L + K
       /\ \A k \in 1..L : d[k] = done[k]
       /\ \A k \in 1..K : d[L + k] = R[k]
  <2>1. /\ done \o R \in Seq(Nat \X Nat) /\ Len(done \o R) = Len(done) + Len(R)
        /\ \A i \in 1..(Len(done) + Len(R)) :
             (done \o R)[i] = IF i <= Len(done) THEN done[i] ELSE R[i - Len(done)]
    BY <1>10, ConcatProperties DEF Intervals
  <2>2. ASSUME NEW k \in 1..K PROVE L + k \in 1..(L + K) /\ ~(L + k <= L) /\ (L + k) - L = k
    OBVIOUS
  <2>3. \A k \in 1..L : k \in 1..(L + K) /\ k <= L
    OBVIOUS
  <2>4. /\ d \in Seq(Nat \X Nat) /\ Len(d) = L + K
        /\ \A i \in 1..(L + K) : d[i] = IF i <= L THEN done[i] ELSE R[i - L]
    BY <1>7, <1>10, <1>11, <2>1
  <2>5. ASSUME NEW k \in 1..K PROVE d[L + k] = R[k]
    BY <2>2, <2>4
  <2> QED BY <2>3, <2>4, <2>5 DEF Intervals
<1>13. /\ heard' = heard /\ base' = N /\ finals' = d /\ partials' = {} /\ finished' = TRUE
       /\ lastPreview' = lastPreview
  BY <1>1, <1>3, <1>7, <1>9, <1>11 DEF Finish
<1>14. \A k \in 1..L : /\ done[k][1] \in Nat /\ done[k][2] \in Nat
                       /\ done[k][1] < done[k][2] /\ done[k][2] <= n
                       /\ done[k][2] - done[k][1] < MaxUtterance + MaxBlock
  <2>1. \A k \in 1..L : done[k] \in Nat \X Nat
    BY <1>7, ElementOfSeq DEF Intervals
  <2> QED BY <1>2, <1>7, <2>1 DEF FinalsInv
<1>15. FinalsInv(d, N)
  <2>1. ASSUME NEW k \in 1..(L + K)
        PROVE  /\ d[k][1] < d[k][2] /\ d[k][2] <= N
               /\ d[k][2] - d[k][1] < MaxUtterance + MaxBlock
    <3>1. CASE k \in 1..L
      <4>1. d[k] = done[k] /\ done[k][2] <= n /\ done[k][2] \in Nat
        BY <1>12, <1>14, <3>1
      <4> QED BY <1>2, <1>14, <3>1, <4>1
    <3>2. CASE k \in (L + 1)..(L + K)
      <4>1. PICK l \in 1..K : k = L + l
        <5>1. k - L \in 1..K /\ k = L + (k - L)
          BY <3>2
        <5> QED BY <5>1
      <4>2. d[k] = R[l]
        BY <1>12, <4>1
      <4>3. PICK x \in Nat, y \in Nat : x = S[l].start /\ y = S[l].end /\ x < y /\ y <= N - n
        BY <1>6, <1>7, <1>8
      <4>4. d[k][1] = n + x /\ d[k][2] = n + y
        BY <1>10, <4>2, <4>3
      <4>5. n + x < n + y /\ n + y <= N /\ (n + y) - (n + x) < MaxUtterance + MaxBlock
        <5>1. x < y /\ y <= N - n
          BY <4>3
        <5> QED BY <1>2, <1>5, <5>1
      <4> QED BY <4>4, <4>5
    <3>3. k \in 1..L \/ k \in (L + 1)..(L + K)
      OBVIOUS
    <3> QED BY <3>1, <3>2, <3>3
  <2>2. ASSUME NEW k \in 1..(L + K - 1) PROVE d[k][2] <= d[k + 1][1]
    <3>1. CASE k \in 1..(L - 1)
      <4>1. k \in 1..L /\ k + 1 \in 1..L /\ k \in 1..(L - 1)
        BY <3>1
      <4>2. done[k][2] <= done[k + 1][1]
        BY <1>2, <1>7, <4>1 DEF FinalsInv
      <4> QED BY <1>12, <4>1, <4>2
    <3>2. CASE k = L
      <4>1. 1 \in 1..K /\ k \in 1..L
        BY <3>2
      <4>2. d[k] = done[k] /\ d[k + 1] = R[1]
        BY <1>12, <3>2, <4>1
      <4>3. d[k + 1][1] = n + S[1].start /\ S[1].start \in Nat
        BY <1>8, <1>10, <4>1, <4>2
      <4>4. done[k][2] <= n /\ done[k][2] \in Nat
        BY <1>14, <4>1
      <4> QED BY <4>2, <4>3, <4>4
    <3>3. CASE k \in (L + 1)..(L + K - 1)
      <4>1. PICK l \in 1..(K - 1) : k = L + l
        <5>1. k - L \in 1..(K - 1) /\ k = L + (k - L)
          BY <3>3
        <5> QED BY <5>1
      <4>2. l \in 1..K /\ l + 1 \in 1..K /\ k + 1 = L + (l + 1)
        BY <4>1
      <4>3. d[k] = R[l] /\ d[k + 1] = R[l + 1]
        BY <1>12, <4>1, <4>2
      <4>4. PICK x \in Nat, y \in Nat : x = S[l].end /\ y = S[l + 1].start /\ x <= y
        BY <1>6, <1>7, <1>8, <4>1, <4>2
      <4>5. d[k][2] = n + x /\ d[k + 1][1] = n + y
        BY <1>10, <4>2, <4>3, <4>4
      <4> QED BY <4>4, <4>5
    <3>4. k \in 1..(L - 1) \/ k = L \/ k \in (L + 1)..(L + K - 1)
      OBVIOUS
    <3> QED BY <3>1, <3>2, <3>3, <3>4
  <2> QED BY <1>12, <2>1, <2>2 DEF FinalsInv
<1>16. NoneLost(heard, d, N)
  <2>1. ASSUME NEW j, IsFinal(done, j) PROVE IsFinal(d, j)
    <3>1. PICK k \in 1..L : done[k][1] < j /\ j <= done[k][2]
      BY <1>7, <2>1 DEF IsFinal
    <3>2. k \in 1..(L + K) /\ d[k] = done[k]
      BY <1>12
    <3> QED BY <1>12, <3>1, <3>2 DEF IsFinal
  <2>2. ASSUME NEW i \in 1..(N - MinSpeech + 1)
        PROVE  \E j \in i..(i + MinSpeech - 1) : ~heard[j] \/ IsFinal(d, j)
    <3>1. CASE i <= n
      <4>1. i \in 1..n
        BY <3>1
      <4>2. PICK j \in i..(i + MinSpeech - 1) : ~heard[j] \/ IsFinal(done, j)
        BY <1>2, <4>1 DEF HeardInv
      <4> QED BY <2>1, <4>2
    <3>2. CASE i > n
      <4>1. PICK p \in Nat, q \in Nat : p = i - n /\ q = p + MinSpeech - 1
        BY <1>5, <3>2
      <4>2. p \in 1..(N - n) /\ q \in p..(N - n) /\ q - p + 1 >= MinSpeech
        BY <1>5, <3>2, <4>1
      <4>3. CASE \A j \in p..q : pending[j]
        <5>1. PICK k \in 1..K : S[k].start < p /\ q <= S[k].end
          BY <1>6, <1>7, <4>2, <4>3
        <5>2. L + k \in 1..(L + K) /\ d[L + k] = R[k]
          BY <1>12
        <5>3. d[L + k][1] = n + S[k].start /\ d[L + k][2] = n + S[k].end
          BY <1>10, <5>2
        <5>4. n + S[k].start < i /\ i <= n + S[k].end
          BY <1>5, <1>8, <4>1, <4>2, <5>1
        <5>5. IsFinal(d, i)
          BY <1>12, <5>2, <5>3, <5>4 DEF IsFinal
        <5>6. i \in i..(i + MinSpeech - 1)
          BY <1>5
        <5> QED BY <5>5, <5>6
      <4>4. CASE ~(\A j \in p..q : pending[j])
        <5>1. PICK k \in p..q : ~pending[k]
          BY <4>4
        <5>2. k \in 1..(N - n) /\ n + k \in i..(i + MinSpeech - 1)
          BY <1>5, <4>1, <4>2
        <5>3. ~heard[n + k]
          BY <1>4, <5>1, <5>2
        <5> QED BY <5>2, <5>3
      <4> QED BY <4>3, <4>4
    <3> QED BY <1>5, <3>1, <3>2
  <2> QED BY <2>2 DEF NoneLost
<1>17. N = Len(heard') /\ N \in Nat /\ lastPreview \in Nat
  BY <1>1, <1>13 DEF SegmentInv
<1> QED BY <1>2, <1>12, <1>13, <1>15, <1>16, <1>17 DEF SegmentInv

\* The invariant of the segmenter.
THEOREM SegmentKeepsInvariant == GSpec => []SegmentInv
<1>1. GInit => SegmentInv
  <2> SUFFICES ASSUME GInit PROVE SegmentInv
    OBVIOUS
  <2>1. Len(<<>>) = 0 /\ <<>> \in Seq(BOOLEAN) /\ <<>> \in Seq(Nat \X Nat)
    BY EmptySeq
  <2>2. 0 < MaxUtterance
    <3>1. PreRoll \in Nat /\ MaxUtterance \in Nat
      BY DurationsAre
    <3> QED BY <3>1, Proportions
  <2>3. FinalsInv(<<>>, 0) /\ HeardInv(<<>>, <<>>, 0)
    BY <2>1 DEF FinalsInv, HeardInv
  <2>4. /\ heard \in Seq(BOOLEAN) /\ Len(heard) = 0 /\ base = 0 /\ lastPreview = 0
        /\ finals \in Intervals /\ partials = {} /\ finished = FALSE
    BY <2>1 DEF GInit, Intervals
  <2>5. FinalsInv(finals, base)
    BY <2>3 DEF GInit
  <2>6. HeardInv(heard, finals, base)
    BY <2>3 DEF GInit
  <2>7. /\ base <= Len(heard) /\ Len(heard) - base < MaxUtterance
        /\ \A p \in partials : base <= p[1]
    BY <2>2, <2>4
  <2> QED BY <2>4, <2>5, <2>6, <2>7 DEF SegmentInv
<1>2. SegmentInv /\ [GNext]_gvars => SegmentInv'
  <2> SUFFICES ASSUME SegmentInv, [GNext]_gvars PROVE SegmentInv'
    OBVIOUS
  <2>1. CASE Finish
    BY <2>1, FinishKeeps
  <2>2. ASSUME NEW n \in BlockSizes, NEW block \in [1..n -> BOOLEAN], Feed(block)
        PROVE  SegmentInv'
    BY <2>2, FeedKeeps
  <2>3. CASE UNCHANGED gvars
    BY <2>3 DEF gvars, SegmentInv
  <2> QED BY <2>1, <2>2, <2>3 DEF GNext
<1> QED BY <1>1, <1>2, PTL DEF GSpec

\* SpeechFinalOnce: no sample is final twice, none that is final is pending, and no
\* speech of the detector's least length is lost, for every sequence of blocks and
\* all durations in the code's proportions.
THEOREM SpeechFinalOnceHolds == GSpec => []SpeechFinalOnce
<1>1. SegmentInv => SpeechFinalOnce
  <2> SUFFICES ASSUME SegmentInv PROVE SpeechFinalOnce
    OBVIOUS
  <2>1. \A k \in 1..Len(finals) : finals[k][1] < finals[k][2] /\ finals[k][2] <= base
    BY DEF SegmentInv, FinalsInv
  <2>2. \A k \in 1..(Len(finals) - 1) : finals[k][2] <= finals[k + 1][1]
    BY DEF SegmentInv, FinalsInv
  <2>3. MinSpeech \in Nat /\ 0 < MinSpeech /\ base \in Nat
    BY DurationsAre, Proportions DEF SegmentInv
  <2>4. ASSUME NEW i \in 1..(base - MinSpeech + 1)
        PROVE  \E j \in i..(i + MinSpeech - 1) : ~heard[j] \/ Finalized(j)
    <3>1. \A j : IsFinal(finals, j) => Finalized(j)
      BY DEF IsFinal, Finalized
    <3>2. CASE finished
      BY <3>1, <3>2 DEF SegmentInv, NoneLost
    <3>3. CASE ~finished
      <4>1. i \in 1..base
        BY <2>3
      <4> QED BY <3>1, <3>3, <4>1 DEF SegmentInv, HeardInv
    <3> QED BY <3>2, <3>3
  <2> QED BY <2>1, <2>2, <2>4 DEF SpeechFinalOnce
<1> QED BY <1>1, SegmentKeepsInvariant, PTL

\* PreviewIsUnfinished: a preview starts where the last final ends, or later.
THEOREM PreviewIsUnfinishedHolds == GSpec => []PreviewIsUnfinished
<1>1. SegmentInv => PreviewIsUnfinished
  <2> SUFFICES ASSUME SegmentInv, NEW p \in partials, NEW k \in 1..Len(finals)
               PROVE  finals[k][2] <= p[1]
    BY DEF PreviewIsUnfinished
  <2>1. finals[k] \in Nat \X Nat /\ finals[k][2] <= base /\ base <= p[1] /\ base \in Nat
        /\ p \in Nat \X Nat
    BY ElementOfSeq DEF SegmentInv, FinalsInv, Intervals
  <2> QED BY <2>1
<1> QED BY <1>1, SegmentKeepsInvariant, PTL

\* PendingBounded: less than the limit is pending after any feed, however long.
THEOREM PendingBoundedHolds == GSpec => []PendingBounded
<1>1. SegmentInv => PendingBounded
  <2> SUFFICES ASSUME SegmentInv PROVE Len(heard) - base < MaxUtterance
    BY DEF PendingBounded
  <2>1. CASE finished
    <3>1. Len(heard) = base /\ base \in Nat
      BY <2>1 DEF SegmentInv
    <3>2. PreRoll \in Nat /\ MaxUtterance \in Nat /\ PreRoll < MaxUtterance
      BY DurationsAre, Proportions
    <3> QED BY <3>1, <3>2
  <2>2. CASE ~finished
    BY <2>2 DEF SegmentInv
  <2> QED BY <2>1, <2>2
<1> QED BY <1>1, SegmentKeepsInvariant, PTL
=============================================================================
