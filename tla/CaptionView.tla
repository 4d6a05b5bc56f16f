----------------------------- MODULE CaptionView -----------------------------
(***************************************************************************)
(* The transcript on the page against the transcript of the app: the       *)
(* "captions" events of desktop/src-tauri/src/jobs.rs, and run,            *)
(* onProcessEvent, flushStreams and clearCaptions of desktop/ui/app.js.    *)
(*                                                                         *)
(* The page never asks for a line again: it only applies the updates, in   *)
(* the order of the one event channel, in batches of one animation frame,  *)
(* and must have the app's lines all the same.                             *)
(***************************************************************************)
EXTENDS Captions, SequencesExt

CONSTANTS
  MaxSessions,  \* bound: live jobs started one after the other
  MaxWaiting    \* bound: updates on their way or waiting for a frame

ASSUME ViewBounds == MaxSessions \in Nat /\ MaxWaiting \in Nat

VARIABLES
  job,         \* the number of the backend's latest job
  bPhase,      \* of that job: none, reading, over
  launching,   \* the page's run_command call: none, sent, accepted
  events,      \* process events on their way
  activeId,    \* state.activeId, 0 for null
  captionQueue,\* updates waiting for an animation frame
  shown,       \* the children of #caption-lines
  shownPartial \* #caption-partial, hidden without a line

backVars  == <<job, bPhase>>
viewVars  == <<activeId, captionQueue, shown, shownPartial>>
vvars == <<capVars, mirrorVars, backVars, launching, events, viewVars>>

VInit ==
  /\ loopback \in BOOLEAN
  /\ lines = <<>> /\ partial = NoLine /\ dirtyFrom = Clean /\ partialDirty = FALSE
  /\ mirror = <<>> /\ mirrorPartial = NoLine
  /\ job = 0
  /\ bPhase = "none"
  /\ launching = "none"
  /\ events = <<>>
  /\ activeId = 0
  /\ captionQueue = <<>>
  /\ shown = <<>>
  /\ shownPartial = NoLine

Told(type) == [type |-> type, job |-> job]
Waiting == Len(SelectSeq(events, LAMBDA e : e.type = "captions")) + Len(captionQueue)

-----------------------------------------------------------------------------
(* The backend. *)

\* The start event is sent before the reader, with its own Captions, exists.
BackendStarts ==
  /\ launching = "sent"
  /\ job' = job + 1
  /\ bPhase' = "reading"
  /\ \E stream \in BOOLEAN : Fresh(stream)
  /\ launching' = "accepted"
  /\ events' = Append(events, [type |-> "start", job |-> job'])
  /\ UNCHANGED viewVars

BackendRefuses ==
  /\ launching = "sent"
  /\ launching' = "none"
  /\ UNCHANGED <<capVars, mirrorVars, backVars, events, viewVars>>

ReaderIngests ==
  /\ bPhase = "reading"
  /\ Ingest
  /\ UNCHANGED <<backVars, launching, events, viewVars>>

ReaderSends ==
  /\ bPhase = "reading"
  /\ Waiting < MaxWaiting
  /\ TakeUpdate
  /\ events' = Append(events, [type |-> "captions", job |-> job, update |-> Update])
  /\ UNCHANGED <<backVars, launching, viewVars>>

\* The update after the last read of a reader that is joined before the exit
\* event; mutated: the rest of the output is not looked at.
RestIgnored == TRUE
RestTaken   == ~Dirty

JobExits ==
  /\ bPhase = "reading"
  /\ RestTaken
  /\ bPhase' = "over"
  /\ events' = Append(events, Told("exit"))
  /\ UNCHANGED <<capVars, mirrorVars, job, launching, viewVars>>

-----------------------------------------------------------------------------
(* The page. *)

\* clearCaptions: the lines, and the updates that wait for a frame.  Mutated:
\* the waiting updates stay.
QueueKept    == captionQueue
QueueCleared == <<>>

\* run() of a live kind.
PageRuns ==
  /\ launching = "none" /\ activeId = 0
  /\ job < MaxSessions
  /\ bPhase # "reading"
  /\ bPhase' = "none"
  /\ launching' = "sent"
  /\ captionQueue' = QueueCleared
  /\ shown' = <<>>
  /\ shownPartial' = NoLine
  /\ UNCHANGED <<capVars, mirrorVars, job, events, activeId>>

\* The reply adopts the job unless its start event was heard first.
PageHearsReply ==
  /\ launching = "accepted"
  /\ launching' = "none"
  /\ activeId' = IF Contains(events, Told("start")) THEN job ELSE activeId
  /\ UNCHANGED <<capVars, mirrorVars, backVars, events, captionQueue, shown, shownPartial>>

\* onProcessEvent: events of a job that is not the active one are dropped.
PageHears ==
  /\ events # <<>>
  /\ LET event == Head(events)
     IN  /\ activeId' = CASE event.type = "start" -> event.job
                          [] event.type = "exit" /\ event.job = activeId -> 0
                          [] OTHER -> activeId
         /\ captionQueue' = IF event.type = "captions" /\ event.job = activeId
                            THEN Append(captionQueue, event.update) ELSE captionQueue
  /\ events' = Tail(events)
  /\ UNCHANGED <<capVars, mirrorVars, backVars, launching, shown, shownPartial>>

\* Every update of the frame, in order: the lines after each of them, and after all.
PatchedUpTo(start, updates) ==
  LET upTo[n \in 0..Len(updates)] ==
        IF n = 0 THEN start ELSE Patched(upTo[n - 1], updates[n])
  IN  upTo
PatchedAll(start, updates) == PatchedUpTo(start, updates)[Len(updates)]

\* flushStreams
PageFlushes ==
  /\ captionQueue # <<>>
  /\ shown' = PatchedAll(shown, captionQueue)
  /\ shownPartial' = Last(captionQueue).partial
  /\ captionQueue' = <<>>
  /\ UNCHANGED <<capVars, mirrorVars, backVars, launching, events, activeId>>

-----------------------------------------------------------------------------
VBackend == BackendStarts \/ BackendRefuses \/ ReaderIngests \/ ReaderSends \/ JobExits
VPage    == PageRuns \/ PageHearsReply \/ PageHears \/ PageFlushes

VNext == VBackend \/ VPage

\* Events arrive and frames are drawn; the speaker, the user and the end of the
\* job promise nothing.
VFairness ==
  /\ WF_vvars(PageHears) /\ WF_vvars(PageFlushes) /\ WF_vvars(PageHearsReply)

VSpec == VInit /\ [][VNext]_vvars /\ VFairness

-----------------------------------------------------------------------------
\* The updates of a job among the first n events of some, and among all.
IsUpdate(event, number) == event.type = "captions" /\ event.job = number

UpdatesUpTo(sequence, number) ==
  LET upTo[n \in 0..Len(sequence)] ==
        IF n = 0 THEN <<>>
        ELSE IF IsUpdate(sequence[n], number) THEN Append(upTo[n - 1], sequence[n].update)
        ELSE upTo[n - 1]
  IN  upTo
UpdatesIn(sequence, number) == UpdatesUpTo(sequence, number)[Len(sequence)]

\* The updates of the current job the page has still to apply.
Coming == captionQueue \o UpdatesIn(events, job)

\* The page's transcript, with the updates under way applied, is the app's as of
\* the last update taken: no update is lost, applied twice or to the lines of an
\* earlier session, whatever stop, exit, new start and frame come between.  And an
\* update finds the lines it counts on: the loop that removes lines down to `from`
\* never starts with fewer.
ViewFollows ==
  bPhase # "none" =>
    LET coming == Coming
    IN  /\ PatchedAll(shown, coming) = mirror
        /\ (IF coming = <<>> THEN shownPartial ELSE Last(coming).partial) = mirrorPartial
        /\ \A i \in 1..Len(coming) :
             coming[i].from <= Len(PatchedUpTo(shown, coming)[i - 1])

\* The last words before a stop are shown: once a job is over the page comes to
\* show its whole transcript, unless another job is started.
TranscriptShown ==
  (bPhase = "over") ~> (bPhase = "none" \/ (shown = lines /\ shownPartial = partial))
=============================================================================
