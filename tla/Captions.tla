------------------------------ MODULE Captions ------------------------------
(***************************************************************************)
(* The transcript of one live job as the desktop app keeps it:             *)
(* desktop/src-tauri/src/captions.rs.  The reader thread ingests the lines *)
(* of one read and then takes one update, which says from which line the   *)
(* transcript changed since the update before.                             *)
(*                                                                         *)
(* A Line is a time with a cleaned text.  What the text functions decide   *)
(* (is it empty, a hallucination, a repeat, related to the last lines) is  *)
(* left open: every outcome they can have is an outcome here.              *)
(***************************************************************************)
EXTENDS Integers, Sequences

CONSTANTS
  Texts,     \* lines, as times with texts
  Partials,  \* those of them that unfinished lines are made of
  MaxLines   \* bound: lines of a transcript

ASSUME PartialsAssumption == Partials \subseteq Texts
ASSUME MaxLinesAssumption == MaxLines \in Nat \ {0}

VARIABLES
  loopback,      \* Captions.loopback_stream
  lines,         \* Captions.lines
  partial,       \* Captions.partial, a set of at most one line
  dirtyFrom,     \* Captions.dirty_from: how many lines did not change, or Clean
  partialDirty,  \* Captions.partial_dirty
  mirror,        \* history: the lines of an observer that applied every update taken
  mirrorPartial  \* history: its unfinished line

capVars == <<loopback, lines, partial, dirtyFrom, partialDirty>>
mirrorVars == <<mirror, mirrorPartial>>

Clean  == -1
NoLine == {}
Lines  == UNION {[1..n -> Texts] : n \in 0..MaxLines}

Fresh(stream) ==
  /\ loopback' = stream
  /\ lines' = <<>> /\ partial' = NoLine
  /\ dirtyFrom' = Clean /\ partialDirty' = FALSE
  /\ mirror' = <<>> /\ mirrorPartial' = NoLine

-----------------------------------------------------------------------------
\* self.dirty_from.map_or(from, |current| current.min(from)); mutated: the last
\* change wins.
MarkedLast(from) == from
Marked(from) == IF dirtyFrom = Clean \/ from < dirtyFrom THEN from ELSE dirtyFrom

\* set_partial
SetPartial(line) ==
  /\ partial' = line
  /\ partialDirty' = (partialDirty \/ partial # line)

Push(line) ==
  /\ Len(lines) < MaxLines
  /\ dirtyFrom' = Marked(Len(lines))
  /\ lines' = Append(lines, line)

\* `start` counts the lines before the replaced ones.
SameTail(start, line) == Len(lines) = start + 1 /\ lines[start + 1] = line

ReplaceTail(start, line) ==
  IF SameTail(start, line)
  THEN UNCHANGED <<lines, dirtyFrom>>
  ELSE /\ dirtyFrom' = Marked(start)
       /\ lines' = Append(SubSeq(lines, 1, start), line)

KeepLines == UNCHANGED <<lines, dirtyFrom>>

\* commit_utterance_line: a hallucination is dropped, anything else is a line.
CommitUtterance == KeepLines \/ \E t \in Texts : Push(t)

\* append_or_merge_final_line: dropped, merged into one of the last four lines,
\* or a line of its own.
Merge(line) ==
  \/ KeepLines
  \/ Push(line)
  \/ \E count \in 1..4 : count <= Len(lines) /\ ReplaceTail(Len(lines) - count, line)

-----------------------------------------------------------------------------
\* "@@PARTIAL": the cleaned text may be empty.
IngestPartial ==
  /\ \E line \in {NoLine} \cup {{t} : t \in Partials} : SetPartial(line)
  /\ UNCHANGED <<loopback, lines, dirtyFrom, mirrorVars>>

\* "@@FINAL" of a Python script: whatever becomes of it, the unfinished line is over.
IngestFinal ==
  /\ ~loopback
  /\ SetPartial(NoLine)
  /\ CommitUtterance
  /\ UNCHANGED <<loopback, mirrorVars>>

\* "@@FINAL" of the loopback stream.
IngestLoopbackFinal ==
  /\ loopback
  /\ SetPartial(NoLine)
  /\ \E t \in Texts : Merge(t)
  /\ UNCHANGED <<loopback, mirrorVars>>

\* A plain line of the loopback stream is a hypothesis; it leaves the unfinished
\* line alone.
IngestLoopbackLine ==
  /\ loopback
  /\ \E t \in Texts : Merge(t)
  /\ UNCHANGED <<loopback, partial, partialDirty, mirrorVars>>

\* "[HH:MM:SS] text" of the older scripts, unless the transcript already has it.
IngestStamped ==
  /\ ~loopback
  /\ KeepLines \/ \E t \in Texts : Push(t)
  /\ UNCHANGED <<loopback, partial, partialDirty, mirrorVars>>

Ingest == \/ IngestPartial \/ IngestFinal \/ IngestLoopbackFinal \/ IngestLoopbackLine
          \/ IngestStamped

-----------------------------------------------------------------------------
Dirty == dirtyFrom # Clean \/ partialDirty

\* dirty_from.take().unwrap_or(lines.len()).min(lines.len())
From == IF dirtyFrom = Clean \/ dirtyFrom > Len(lines) THEN Len(lines) ELSE dirtyFrom

Update == [from |-> From, lines |-> SubSeq(lines, From + 1, Len(lines)), partial |-> partial]

\* What the page does with an update: drop the lines from `from` on, append.
Patched(shown, update) ==
  SubSeq(shown, 1, IF update.from < Len(shown) THEN update.from ELSE Len(shown)) \o update.lines

\* take_update, when there is one.
TakeUpdate ==
  /\ Dirty
  /\ dirtyFrom' = Clean
  /\ partialDirty' = FALSE
  /\ mirror' = Patched(mirror, Update)
  /\ mirrorPartial' = Update.partial
  /\ UNCHANGED <<loopback, lines, partial>>

-----------------------------------------------------------------------------
CapTypeOK ==
  /\ loopback \in BOOLEAN
  /\ lines \in Lines /\ mirror \in Lines
  /\ dirtyFrom \in {Clean} \cup 0..MaxLines
  /\ partial \in {NoLine} \cup {{t} : t \in Texts}
  /\ mirrorPartial \in {NoLine} \cup {{t} : t \in Texts}
  /\ partialDirty \in BOOLEAN

\* An observer that applied every update is behind by what take_update would now
\* report and by nothing else: the lines before dirty_from are its own, and
\* without a mark it has the transcript.
MirrorInv ==
  /\ CapTypeOK
  /\ IF dirtyFrom = Clean
     THEN mirror = lines
     ELSE /\ dirtyFrom <= Len(mirror) /\ dirtyFrom < Len(lines)
          /\ SubSeq(lines, 1, dirtyFrom) = SubSeq(mirror, 1, dirtyFrom)
  /\ partialDirty \/ mirrorPartial = partial
=============================================================================
