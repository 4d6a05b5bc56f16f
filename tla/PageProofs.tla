----------------------------- MODULE PageProofs -----------------------------
(***************************************************************************)
(* The page agrees with the backend about the one job, for any number of   *)
(* jobs and stop calls: events and replies travel apart, but one launch    *)
(* after the other goes through the same few stages.                       *)
(***************************************************************************)
EXTENDS JobPage, SequenceTheorems, TLAPS

USE DEF lifeVars, callVars, pageVars, NoJob, NoCall

-----------------------------------------------------------------------------
PTypeOK ==
  /\ nextId \in 1..(MaxJobs + 1)
  /\ phase \in [Ids -> {"new", "refused", "live", "over", "told"}]
  /\ runCall.st \in {"none", "sent", "accepted", "ok", "error"}
  /\ stopCall \in [StopCalls -> [st : {"none", "sent", "leads", "joined", "true", "false", "error"},
                                 id : Ids \cup {NoJob}]]
  /\ \A c \in StopCalls : stopCall[c].st # "none" => stopCall[c].id \in Ids
  /\ launchPending \in BOOLEAN
  /\ exitSeen \subseteq Ids

\* The latest job, 0 before the first.
last == nextId - 1

Done(i) == phase[i] \in {"refused", "told"}

\* Only the latest job can be live or under way.
PastInv ==
  /\ \A i \in Ids : i < last => Done(i)
  /\ \A i \in Ids : i >= nextId => phase[i] = "new" /\ i \notin announced /\ i \notin exitSeen

AllDone == \A i \in Ids : i < nextId => Done(i)

\* The events of the latest job still to be handled.
StartEvent         == Told("start", last, FALSE)
ExitEvent(stopped) == Told("exit", last, stopped)

StartLeft ==
  IF phase[last] = "told"
  THEN \E stopped \in BOOLEAN : events = <<StartEvent, ExitEvent(stopped)>>
  ELSE events = <<StartEvent>>

EndLeft ==
  IF phase[last] = "told"
  THEN \E stopped \in BOOLEAN : events = <<ExitEvent(stopped)>>
  ELSE events = <<>>

OkReply == launchPending /\ runCall = [st |-> "ok", id |-> last]
NoReply == ~launchPending /\ runCall = NoCall

\* The stages of a launch.
Idle ==
  /\ NoReply
  /\ activeId = NoJob /\ pPhase \notin {"starting", "stopping"}
  /\ events = <<>> /\ AllDone

Sent ==
  /\ launchPending /\ runCall.st \in {"sent", "error"}
  /\ activeId = NoJob /\ pPhase = "starting"
  /\ events = <<>> /\ AllDone

Accepted ==
  /\ launchPending /\ runCall = [st |-> "accepted", id |-> last]
  /\ activeId = NoJob /\ pPhase = "starting"
  /\ events = <<>>
  /\ last \in Ids /\ phase[last] = "live" /\ last \notin announced

\* Announced, and its end not yet heard.
Known ==
  /\ last \in Ids /\ last \in announced
  /\ phase[last] \in {"live", "over", "told"}

Unheard ==
  /\ Known /\ OkReply /\ StartLeft
  /\ activeId = NoJob /\ pPhase = "starting"

Shown ==
  /\ Known
  /\ (NoReply /\ (StartLeft \/ EndLeft)) \/ (OkReply /\ EndLeft)
  /\ activeId = last /\ pPhase \in {"running", "stopping"}

EndHeard ==
  /\ OkReply
  /\ activeId = NoJob /\ pPhase \notin {"starting", "stopping"}
  /\ events = <<>> /\ AllDone

\* The end of the latest job is not heard while it has a stage to go.
SeenInv ==
  /\ \A i \in exitSeen : phase[i] = "told"
  /\ Accepted \/ Unheard \/ Shown => last \notin exitSeen

StageInv == Idle \/ Sent \/ Accepted \/ Unheard \/ Shown \/ EndHeard

PageInv == PTypeOK /\ PastInv /\ SeenInv /\ StageInv

-----------------------------------------------------------------------------
\* A queue of at most two events.
LEMMA ShortQueues ==
  \A a, b : /\ Append(<<>>, a) = <<a>> /\ Append(<<a>>, b) = <<a, b>>
            /\ Head(<<a>>) = a /\ Tail(<<a>>) = <<>> /\ <<a>> # <<>>
            /\ Head(<<a, b>>) = a /\ Tail(<<a, b>>) = <<b>> /\ <<a, b>> # <<>>
<1> TAKE a, b
<1> DEFINE S == {a, b}
<1>1. <<>> \in Seq(S) /\ <<a>> \in Seq(S) /\ <<b>> \in Seq(S) /\ <<a, b>> \in Seq(S)
  OBVIOUS
<1>2. Append(<<>>, a) = <<a>>
  OBVIOUS
<1>3. Append(<<a>>, b) = <<a, b>>
  <2>1. /\ Append(<<a>>, b) \in Seq(S) /\ Len(Append(<<a>>, b)) = 2
        /\ Append(<<a>>, b)[1] = a /\ Append(<<a>>, b)[2] = b
    BY <1>1
  <2>2. Len(<<a, b>>) = 2 /\ <<a, b>>[1] = a /\ <<a, b>>[2] = b
    OBVIOUS
  <2>3. \A i \in 1..2 : i = 1 \/ i = 2
    OBVIOUS
  <2>4. \A i \in 1..Len(Append(<<a>>, b)) : Append(<<a>>, b)[i] = <<a, b>>[i]
    BY <2>1, <2>2, <2>3
  <2> QED BY <1>1, <2>1, <2>2, <2>4, SeqEqual
<1>4. Head(<<a>>) = a /\ <<a>> # <<>>
  OBVIOUS
<1>5. Tail(<<a>>) = <<>>
  OBVIOUS
<1>6. Head(<<a, b>>) = a /\ <<a, b>> # <<>>
  OBVIOUS
<1>7. Tail(<<a, b>>) = <<b>>
  OBVIOUS
<1> QED BY <1>2, <1>3, <1>4, <1>5, <1>6, <1>7

\* Ids are numbers, and none is the page's "no job".
LEMMA IdsAreNumbers == \A i \in Ids : i \in Nat /\ i # NoJob /\ MaxJobs \in Nat
BY IdsAssumption DEF Ids

\* The stage that each state of the call goes with.
LEMMA StageOfCall ==
  ASSUME StageInv
  PROVE  /\ runCall.st \in {"sent", "error"} => Sent
         /\ runCall.st = "accepted" => Accepted
         /\ runCall.st = "ok" => Unheard \/ (Shown /\ OkReply) \/ EndHeard
         /\ runCall.st = "none" => Idle \/ (Shown /\ NoReply)
BY DEF StageInv, Idle, Sent, Accepted, Unheard, Shown, EndHeard, OkReply, NoReply

\* With all launched jobs done, none is live.
LEMMA DoneIsNotLive ==
  ASSUME PTypeOK, PastInv, AllDone
  PROVE  Live = {} /\ \A i \in Ids : phase[i] # "over"
<1>1. \A i \in Ids : i < nextId \/ i >= nextId
  BY IdsAreNumbers DEF PTypeOK
<1> QED BY <1>1 DEF PTypeOK, PastInv, AllDone, Done, Live

\* The only job that is live or over is the latest, and its start was announced
\* unless the call is still about to.
LEMMA OnlyTheLatest ==
  ASSUME PTypeOK, PastInv, StageInv, NEW i \in Ids, phase[i] \in {"live", "over"}
  PROVE  i = last /\ (Accepted \/ Unheard \/ Shown)
<1>1. ~Done(i) /\ phase[i] # "new"
  BY DEF Done
<1>2. i = last
  BY <1>1, IdsAreNumbers DEF PTypeOK, PastInv, last
<1>3. i < nextId
  BY <1>2, IdsAreNumbers DEF PTypeOK, last
<1> QED BY <1>1, <1>2, <1>3 DEF StageInv, Idle, Sent, EndHeard, AllDone

\* A step that touches no part of a stage keeps it.
LEMMA StageStays ==
  ASSUME PastInv, SeenInv, StageInv,
         UNCHANGED <<nextId, phase, announced, events, runCall, pageVars>>
  PROVE  PastInv' /\ SeenInv' /\ StageInv'
<1>1. last' = last /\ StartLeft' = StartLeft /\ EndLeft' = EndLeft
  BY DEF last, StartLeft, EndLeft, StartEvent, ExitEvent, Told
<1>2. /\ Idle' = Idle /\ Sent' = Sent /\ Accepted' = Accepted /\ Unheard' = Unheard
      /\ Shown' = Shown /\ EndHeard' = EndHeard
  BY <1>1 DEF Idle, Sent, Accepted, Unheard, Shown, EndHeard, Known, OkReply, NoReply, AllDone, Done
<1> QED BY <1>1, <1>2 DEF PastInv, SeenInv, StageInv, Done

-----------------------------------------------------------------------------
(* The backend. *)

\* A spawn: the new job is the latest, live and not announced.
LEMMA AcceptKeeps == ASSUME PageInv, NEW i \in Ids, BackendAccepts(i) PROVE PageInv'
<1>1. Sent
  BY StageOfCall DEF PageInv, BackendAccepts
<1>2. /\ i = nextId /\ nextId' = i + 1 /\ phase' = [phase EXCEPT ![i] = "live"]
      /\ runCall' = [st |-> "accepted", id |-> i]
      /\ UNCHANGED <<announced, events, stopCall, pageVars>>
  BY DEF BackendAccepts, Start
<1>3. i \in Nat /\ MaxJobs \in Nat /\ i <= MaxJobs /\ last' = i /\ last = i - 1
  BY <1>2, IdsAreNumbers DEF Ids, last
<1>4. PTypeOK'
  BY <1>2, <1>3 DEF PageInv, PTypeOK
<1>5. \A j \in Ids : j # i => phase'[j] = phase[j]
  BY <1>2 DEF PageInv, PTypeOK
<1>6. phase'[i] = "live" /\ i \notin announced /\ i \notin exitSeen
  BY <1>2, <1>3 DEF PageInv, PTypeOK, PastInv
<1>7. PastInv'
  BY <1>1, <1>2, <1>3, <1>5, IdsAreNumbers DEF PageInv, PastInv, Sent, AllDone, Done
<1>8. Accepted'
  BY <1>1, <1>2, <1>3, <1>6 DEF Accepted, Sent
<1>9. SeenInv'
  BY <1>2, <1>3, <1>5, <1>6 DEF PageInv, PTypeOK, SeenInv
<1> QED BY <1>4, <1>7, <1>8, <1>9 DEF PageInv, StageInv

\* A start is refused only by a failed spawn: the page never asks while a job lives.
LEMMA RefuseKeeps == ASSUME PageInv, BackendRefuses PROVE PageInv'
<1>1. Sent /\ Live = {}
  BY StageOfCall, DoneIsNotLive DEF PageInv, BackendRefuses, Sent
<1>2. PICK i \in Ids : Refuse(i)
  BY <1>1 DEF BackendRefuses
<1>3. /\ i = nextId /\ nextId' = i + 1 /\ phase' = [phase EXCEPT ![i] = "refused"]
      /\ runCall' = [st |-> "error", id |-> NoJob]
      /\ UNCHANGED <<announced, events, stopCall, pageVars>>
  BY <1>2 DEF BackendRefuses, Refuse
<1>4. i \in Nat /\ MaxJobs \in Nat /\ i <= MaxJobs /\ last' = i /\ last = i - 1
  BY <1>3, IdsAreNumbers DEF Ids, last
<1>5. PTypeOK'
  BY <1>3, <1>4 DEF PageInv, PTypeOK
<1>6. phase'[i] = "refused" /\ (\A j \in Ids : j # i => phase'[j] = phase[j]) /\ i \notin exitSeen
  BY <1>3, <1>4 DEF PageInv, PTypeOK, PastInv
<1>7. PastInv'
  BY <1>1, <1>3, <1>4, <1>6, IdsAreNumbers DEF PageInv, PastInv, Sent, AllDone, Done
<1>8. Sent'
  BY <1>1, <1>3, <1>4, <1>6, IdsAreNumbers DEF Sent, AllDone, Done
<1>9. SeenInv'
  BY <1>3, <1>4, <1>6 DEF PageInv, PTypeOK, SeenInv
<1> QED BY <1>5, <1>7, <1>8, <1>9 DEF PageInv, StageInv

\* The start event is the only event.
LEMMA AnnounceKeeps == ASSUME PageInv, BackendAnnounces PROVE PageInv'
<1>1. Accepted
  BY StageOfCall DEF PageInv, BackendAnnounces
<1>2. /\ announced' = announced \cup {last} /\ events' = <<StartEvent>>
      /\ runCall' = [st |-> "ok", id |-> last]
      /\ UNCHANGED <<nextId, phase, stopCall, pageVars>>
  BY <1>1, ShortQueues DEF Accepted, BackendAnnounces, Announce, StartEvent
<1>3. last' = last /\ last \in Ids /\ phase[last] = "live" /\ StartEvent' = StartEvent
  BY <1>1, <1>2 DEF last, Accepted, StartEvent, Told
<1>4. PTypeOK'
  BY <1>2 DEF PageInv, PTypeOK
<1>5. PastInv'
  BY <1>2, <1>3, IdsAreNumbers DEF PageInv, PTypeOK, PastInv, Done, last
<1>6. Unheard'
  BY <1>1, <1>2, <1>3 DEF Accepted, Unheard, Known, OkReply, StartLeft
<1>7. SeenInv'
  BY <1>1, <1>2, <1>3 DEF PageInv, SeenInv
<1> QED BY <1>4, <1>5, <1>6, <1>7 DEF PageInv, StageInv

\* The latest job leaves the table; nothing is sent yet.
LEMMA FinishKeeps == ASSUME PageInv, NEW i \in Ids, BackendFinishes(i) PROVE PageInv'
<1>1. /\ phase[i] = "live" /\ i \in announced /\ phase' = [phase EXCEPT ![i] = "over"]
      /\ UNCHANGED <<nextId, announced, callVars, pageVars>>
  BY DEF BackendFinishes, Finish, Live
<1>2. i = last /\ (Unheard \/ Shown)
  BY <1>1, OnlyTheLatest DEF PageInv, Accepted
<1>3. last' = last /\ phase'[last] = "over" /\ \A j \in Ids : j # last => phase'[j] = phase[j]
  BY <1>1, <1>2 DEF PageInv, PTypeOK, last
<1>4. PTypeOK'
  BY <1>1 DEF PageInv, PTypeOK
<1>5. PastInv'
  BY <1>1, <1>2, <1>3, IdsAreNumbers DEF PageInv, PTypeOK, PastInv, Done, last
<1>6. StartLeft' = StartLeft /\ EndLeft' = EndLeft
  BY <1>1, <1>2, <1>3 DEF StartLeft, EndLeft, StartEvent, ExitEvent, Told
<1>7. (Unheard => Unheard') /\ (Shown => Shown')
  BY <1>1, <1>3, <1>6 DEF Unheard, Shown, Known, OkReply, NoReply
<1>8. last \notin exitSeen
  BY <1>2 DEF PageInv, SeenInv
<1>9. SeenInv'
  BY <1>1, <1>3, <1>8 DEF PageInv, PTypeOK, SeenInv
<1> QED BY <1>2, <1>4, <1>5, <1>7, <1>9 DEF PageInv, StageInv

\* The exit event comes behind the start event, or alone.
LEMMA TellKeeps == ASSUME PageInv, NEW i \in Ids, BackendTells(i) PROVE PageInv'
<1>1. /\ phase[i] = "over" /\ phase' = [phase EXCEPT ![i] = "told"]
      /\ \E stopped \in BOOLEAN : events' = Append(events, Told("exit", i, stopped))
      /\ UNCHANGED <<nextId, announced, runCall, stopCall, pageVars>>
  BY DEF BackendTells, Tell
<1>2. i = last /\ (Unheard \/ Shown)
  BY <1>1, OnlyTheLatest DEF PageInv, Accepted
<1>3. last' = last /\ phase'[last] = "told" /\ \A j \in Ids : j # last => phase'[j] = phase[j]
  BY <1>1, <1>2 DEF PageInv, PTypeOK, last
<1>4. PTypeOK'
  BY <1>1 DEF PageInv, PTypeOK
<1>5. PastInv'
  BY <1>1, <1>2, <1>3, IdsAreNumbers DEF PageInv, PTypeOK, PastInv, Done, last
<1>6. PICK stopped \in BOOLEAN : events' = Append(events, ExitEvent(stopped))
  BY <1>1, <1>2 DEF ExitEvent
<1>7. StartEvent' = StartEvent /\ ExitEvent(stopped)' = ExitEvent(stopped)
  BY <1>3 DEF StartEvent, ExitEvent, Told
<1>8. (StartLeft => StartLeft') /\ (EndLeft => EndLeft')
  <2>1. CASE events = <<StartEvent>>
    <3>1. events' = <<StartEvent, ExitEvent(stopped)>>
      BY <1>6, <2>1, ShortQueues
    <3>2. ~EndLeft
      BY <1>1, <1>2, <2>1, ShortQueues DEF EndLeft
    <3> QED BY <1>3, <1>7, <3>1, <3>2 DEF StartLeft
  <2>2. CASE events = <<>>
    <3>1. events' = <<ExitEvent(stopped)>>
      BY <1>6, <2>2, ShortQueues
    <3>2. ~StartLeft
      BY <1>1, <1>2, <2>2, ShortQueues DEF StartLeft
    <3> QED BY <1>3, <1>7, <3>1, <3>2 DEF EndLeft
  <2>3. StartLeft \/ EndLeft => events = <<StartEvent>> \/ events = <<>>
    BY <1>1, <1>2 DEF StartLeft, EndLeft
  <2> QED BY <2>1, <2>2, <2>3
<1>9. (Unheard => Unheard') /\ (Shown => Shown')
  BY <1>1, <1>3, <1>8 DEF Unheard, Shown, Known, OkReply, NoReply
<1>10. SeenInv'
  <2>1. last \notin exitSeen
    BY <1>2 DEF PageInv, SeenInv
  <2> QED BY <1>1, <1>3, <2>1 DEF PageInv, PTypeOK, SeenInv
<1> QED BY <1>2, <1>4, <1>5, <1>9, <1>10 DEF PageInv, StageInv

\* Stops ask and answer; what they ask for shows only at the end.
LEMMA StopCallKeeps ==
  ASSUME PageInv, NEW c \in StopCalls, BackendTakesStop(c) \/ BackendAnswersStop(c)
  PROVE  PageInv'
<1>1. UNCHANGED <<nextId, phase, announced, events, runCall, pageVars>>
  BY DEF BackendTakesStop, BackendAnswersStop, Request, Withdraw
<1>2. PICK place \in {"leads", "joined", "true", "false", "error"} :
        stopCall' = [stopCall EXCEPT ![c].st = place]
  BY DEF BackendTakesStop, BackendAnswersStop
<1>3. stopCall[c].st # "none"
  BY DEF BackendTakesStop, BackendAnswersStop
<1>4. PTypeOK'
  BY <1>1, <1>2, <1>3 DEF PageInv, PTypeOK
<1> QED BY <1>1, <1>4, StageStays DEF PageInv

-----------------------------------------------------------------------------
(* The page. *)

USE DEF last

\* While the page changes only what it shows, the past is the past.
LEMMA PageKeepsPast ==
  ASSUME PageInv, UNCHANGED <<lifeVars, stopCall, exitSeen>>,
         runCall'.st \in {"none", "sent", "accepted", "ok", "error"}, launchPending' \in BOOLEAN
  PROVE  /\ PTypeOK' /\ PastInv' /\ last' = last /\ AllDone' = AllDone /\ Known' = Known
         /\ \A i \in exitSeen' : phase'[i] = "told"
BY DEF PageInv, PTypeOK, PastInv, SeenInv, AllDone, Done, Known

\* The page launches only when nothing is left of the launch before.
LEMMA PageRunKeeps == ASSUME PageInv, PageRuns PROVE PageInv'
<1>1. Idle
  BY IdsAreNumbers DEF PageInv, StageInv, PageRuns, PageIsRunning, Sent, Accepted, Unheard, Shown,
                       EndHeard, OkReply, Known
<1>2. /\ launchPending' = TRUE /\ pPhase' = "starting" /\ runCall'.st = "sent"
      /\ UNCHANGED <<lifeVars, events, stopCall, activeId, exitSeen>>
  BY DEF PageRuns
<1>3. PTypeOK' /\ PastInv' /\ AllDone' = AllDone /\ \A i \in exitSeen' : phase'[i] = "told"
  BY <1>2, PageKeepsPast
<1>4. Sent'
  BY <1>1, <1>2, <1>3 DEF Idle, Sent
<1>5. ~(Accepted \/ Unheard \/ Shown)'
  BY <1>2, <1>3 DEF Accepted, Unheard, Shown, Known, OkReply, NoReply
<1> QED BY <1>3, <1>4, <1>5 DEF PageInv, StageInv, SeenInv

\* The reply adopts the job if no event told of it, and is too late otherwise.
LEMMA RunOkKeeps == ASSUME PageInv, PageHearsRunOk PROVE PageInv'
<1>1. /\ runCall.st = "ok" /\ launchPending' = FALSE /\ runCall' = NoCall
      /\ UNCHANGED <<lifeVars, events, stopCall, exitSeen>>
  BY DEF PageHearsRunOk
<1>2. Unheard \/ (Shown /\ OkReply) \/ EndHeard
  BY <1>1, StageOfCall DEF PageInv
<1>3. /\ PTypeOK' /\ PastInv' /\ last' = last /\ AllDone' = AllDone /\ Known' = Known
      /\ \A i \in exitSeen' : phase'[i] = "told"
  BY <1>1, PageKeepsPast
<1>4. StartLeft' = StartLeft /\ EndLeft' = EndLeft
  BY <1>1 DEF StartLeft, EndLeft, StartEvent, ExitEvent, Told
<1>5. CASE Unheard
  <2>1. activeId' = last /\ pPhase' = "running"
    BY <1>5 DEF PageHearsRunOk, Adopts, Unheard, OkReply
  <2>2. Shown'
    BY <1>1, <1>3, <1>4, <1>5, <2>1 DEF Shown, Unheard, NoReply
  <2> QED BY <1>1, <1>3, <1>5, <2>2 DEF PageInv, StageInv, SeenInv
<1>6. CASE Shown /\ OkReply
  <2>1. UNCHANGED <<activeId, pPhase>>
    BY <1>6, IdsAreNumbers DEF PageHearsRunOk, Adopts, Shown, Known
  <2>2. Shown'
    BY <1>1, <1>3, <1>4, <1>6, <2>1 DEF Shown, NoReply, OkReply
  <2> QED BY <1>1, <1>3, <1>6, <2>2 DEF PageInv, StageInv, SeenInv
<1>7. CASE EndHeard
  <2>1. UNCHANGED <<activeId, pPhase>>
    BY <1>7 DEF PageHearsRunOk, Adopts, EndHeard
  <2>2. Idle'
    BY <1>1, <1>3, <1>7, <2>1 DEF EndHeard, Idle, NoReply
  <2>3. ~(Accepted \/ Unheard \/ Shown)'
    BY <1>1, <1>3, <1>7, <2>1, IdsAreNumbers DEF EndHeard, Accepted, Unheard, Shown, Known, OkReply
  <2> QED BY <1>3, <2>2, <2>3 DEF PageInv, StageInv, SeenInv
<1> QED BY <1>2, <1>5, <1>6, <1>7

\* A refused launch leaves nothing behind.
LEMMA RunErrorKeeps == ASSUME PageInv, PageHearsRunError PROVE PageInv'
<1>1. /\ runCall.st = "error" /\ pPhase' = "error" /\ launchPending' = FALSE /\ runCall' = NoCall
      /\ UNCHANGED <<lifeVars, events, stopCall, activeId, exitSeen>>
  BY DEF PageHearsRunError
<1>2. Sent
  BY <1>1, StageOfCall DEF PageInv
<1>3. PTypeOK' /\ PastInv' /\ AllDone' = AllDone /\ \A i \in exitSeen' : phase'[i] = "told"
  BY <1>1, PageKeepsPast
<1>4. Idle'
  BY <1>1, <1>2, <1>3 DEF Sent, Idle, NoReply
<1>5. ~(Accepted \/ Unheard \/ Shown)'
  BY <1>1 DEF Accepted, Unheard, Shown
<1> QED BY <1>3, <1>4, <1>5 DEF PageInv, StageInv, SeenInv

\* Stops change the word the page shows for a job it has, and no other.
LEMMA PageStopKeeps ==
  ASSUME PageInv, NEW c \in StopCalls, PageStops(c) \/ PageHearsStop(c)
  PROVE  PageInv'
<1>1. UNCHANGED <<lifeVars, events, runCall, activeId, launchPending, exitSeen>>
  BY DEF PageStops, PageHearsStop
<1>2. \/ pPhase' = pPhase
      \/ activeId # NoJob /\ pPhase' \in {"running", "stopping"}
  BY IdsAreNumbers DEF PageStops, PageHearsStop, PageInv, PTypeOK
<1>3. activeId # NoJob => activeId \in Ids /\ Shown
  BY DEF PageInv, StageInv, Idle, Sent, Accepted, Unheard, EndHeard, Shown, Known
<1>4. PTypeOK'
  <2>1. CASE PageStops(c)
    BY <1>1, <1>3, <2>1 DEF PageStops, PageInv, PTypeOK
  <2>2. CASE PageHearsStop(c)
    BY <1>1, <2>2 DEF PageHearsStop, PageInv, PTypeOK
  <2> QED BY <2>1, <2>2
<1>5. CASE pPhase' = pPhase
  <2>1. /\ Idle' = Idle /\ Sent' = Sent /\ Accepted' = Accepted /\ Unheard' = Unheard
        /\ Shown' = Shown /\ EndHeard' = EndHeard
    BY <1>1, <1>5 DEF Idle, Sent, Accepted, Unheard, Shown, EndHeard, Known, OkReply, NoReply, AllDone,
                      Done, StartLeft, EndLeft, StartEvent, ExitEvent, Told
  <2> QED BY <1>1, <1>4, <2>1 DEF PageInv, StageInv, SeenInv, PastInv, Done
<1>6. CASE activeId # NoJob /\ pPhase' \in {"running", "stopping"}
  <2>1. Shown /\ Shown'
    BY <1>1, <1>3, <1>6 DEF Shown, Known, OkReply, NoReply, StartLeft, EndLeft, StartEvent, ExitEvent,
                            Told
  <2> QED BY <1>1, <1>4, <2>1 DEF PageInv, StageInv, SeenInv, PastInv, Done
<1> QED BY <1>2, <1>5, <1>6

\* A start event shows the job, unless the reply did before.
LEMMA HearStartKeeps == ASSUME PageInv, PageHearsStart PROVE PageInv'
<1>1. /\ events # <<>> /\ Head(events).type = "start" /\ events' = Tail(events)
      /\ UNCHANGED <<lifeVars, runCall, stopCall, launchPending, exitSeen>>
  BY DEF PageHearsStart
<1>2. Unheard \/ (Shown /\ StartLeft)
  <2>1. Unheard \/ Shown
    BY <1>1 DEF PageInv, StageInv, Idle, Sent, Accepted, EndHeard
  <2>2. EndLeft => Head(events).type # "start"
    BY <1>1, ShortQueues DEF EndLeft, ExitEvent, Told
  <2> QED BY <1>1, <2>1, <2>2 DEF Shown
<1>3. StartLeft /\ Known /\ (NoReply \/ OkReply)
  BY <1>2 DEF Unheard, Shown
<1>4. Head(events) = StartEvent
  BY <1>3, ShortQueues DEF StartLeft
<1>5. /\ PTypeOK' /\ PastInv' /\ last' = last /\ Known' = Known
      /\ \A i \in exitSeen' : phase'[i] = "told"
  <2>1. runCall'.st \in {"none", "sent", "accepted", "ok", "error"} /\ launchPending' \in BOOLEAN
    BY <1>1 DEF PageInv, PTypeOK
  <2> QED BY <1>1, <2>1, PageKeepsPast
<1>6. EndLeft'
  <2>1. \A stopped \in BOOLEAN : ExitEvent(stopped)' = ExitEvent(stopped)
    BY <1>5 DEF ExitEvent, Told
  <2>2. phase' = phase
    BY <1>1
  <2>3. CASE phase[last] = "told"
    <3>1. PICK stopped \in BOOLEAN : events = <<StartEvent, ExitEvent(stopped)>>
      BY <1>3, <2>3 DEF StartLeft
    <3>2. events' = <<ExitEvent(stopped)>>
      BY <1>1, <3>1, ShortQueues
    <3>3. events' = <<ExitEvent(stopped)'>>
      BY <2>1, <3>2
    <3> QED BY <1>5, <2>2, <2>3, <3>3 DEF EndLeft
  <2>4. CASE phase[last] # "told"
    <3>1. events' = <<>>
      BY <1>1, <1>3, <2>4, ShortQueues DEF StartLeft
    <3> QED BY <1>5, <2>2, <2>4, <3>1 DEF EndLeft
  <2> QED BY <2>3, <2>4
<1>7. activeId' = last /\ pPhase' \in {"running", "stopping"}
  BY <1>2, <1>4, IdsAreNumbers DEF PageHearsStart, StartEvent, Told, Unheard, Shown, Known
<1>8. (NoReply \/ OkReply)'
  BY <1>1, <1>3, <1>5 DEF NoReply, OkReply
<1>9. Shown'
  BY <1>3, <1>5, <1>6, <1>7, <1>8 DEF Shown
<1> QED BY <1>1, <1>2, <1>5, <1>9 DEF PageInv, StageInv, SeenInv

\* An exit event ends the job the page shows; a reply still to come finds it ended.
LEMMA HearExitKeeps == ASSUME PageInv, PageHearsExit PROVE PageInv'
<1>1. /\ events # <<>> /\ Head(events).type = "exit" /\ events' = Tail(events)
      /\ exitSeen' = exitSeen \cup {Head(events).id}
      /\ UNCHANGED <<lifeVars, runCall, stopCall, launchPending>>
  BY DEF PageHearsExit
<1>2. Shown /\ EndLeft
  <2>1. Unheard \/ Shown
    BY <1>1 DEF PageInv, StageInv, Idle, Sent, Accepted, EndHeard
  <2>2. StartLeft => Head(events).type # "exit"
    BY <1>1, ShortQueues DEF StartLeft, StartEvent, Told
  <2> QED BY <1>1, <2>1, <2>2 DEF Shown, Unheard
<1>3. phase[last] = "told" /\ last \in Ids
  BY <1>1, <1>2 DEF EndLeft, Shown, Known
<1>4. PICK stopped \in BOOLEAN : events = <<ExitEvent(stopped)>>
  BY <1>2, <1>3 DEF EndLeft
<1>5. Head(events) = ExitEvent(stopped) /\ events' = <<>> /\ Head(events).id = last
  BY <1>1, <1>4, ShortQueues DEF ExitEvent, Told
<1>6. activeId' = NoJob /\ pPhase' \in {"stopped", "complete"}
  BY <1>2, <1>5 DEF PageHearsExit, ConcernsActive, Shown
<1>7. PTypeOK'
  BY <1>1, <1>3, <1>5 DEF PageInv, PTypeOK
<1>8. AllDone'
  BY <1>1, <1>3, IdsAreNumbers DEF PageInv, PTypeOK, PastInv, AllDone, Done
<1>9. PastInv'
  BY <1>1, <1>3, <1>5, IdsAreNumbers DEF PageInv, PTypeOK, PastInv, Done
<1>10. (Idle \/ EndHeard)'
  BY <1>1, <1>2, <1>5, <1>6, <1>8 DEF Idle, EndHeard, Shown, NoReply, OkReply
<1>11. ~(Accepted \/ Unheard \/ Shown)'
  BY <1>1, <1>3, <1>6, IdsAreNumbers DEF Accepted, Unheard, Shown, Known
<1>12. \A i \in exitSeen' : phase'[i] = "told"
  BY <1>1, <1>3, <1>5 DEF PageInv, SeenInv
<1> QED BY <1>7, <1>9, <1>10, <1>11, <1>12 DEF PageInv, StageInv, SeenInv

-----------------------------------------------------------------------------
\* The inductive invariant of the page, its calls and its events.
THEOREM PageKeepsInvariant == PSpec => []PageInv
<1>1. PInit => PageInv
  <2> SUFFICES ASSUME PInit PROVE PageInv
    OBVIOUS
  <2>1. PTypeOK
    <3>1. nextId \in 1..(MaxJobs + 1) /\ phase \in [Ids -> {"new", "refused", "live", "over", "told"}]
      BY IdsAssumption DEF PInit, Init
    <3>2. stopCall = [c \in StopCalls |-> [st |-> "none", id |-> 0]]
      BY DEF PInit
    <3>3. runCall.st = "none" /\ launchPending = FALSE /\ exitSeen = {}
      BY DEF PInit
    <3> QED BY <3>1, <3>2, <3>3 DEF PTypeOK
  <2>2. Idle /\ PastInv /\ SeenInv
    BY IdsAreNumbers DEF PInit, Init, Idle, NoReply, AllDone, Done, PastInv, SeenInv, Accepted,
                         Unheard, Shown, Known
  <2> QED BY <2>1, <2>2 DEF PageInv, StageInv
<1>2. PageInv /\ [PNext]_allVars => PageInv'
  <2> SUFFICES ASSUME PageInv, [PNext]_allVars PROVE PageInv'
    OBVIOUS
  <2>1. CASE Backend
    BY <2>1, AcceptKeeps, RefuseKeeps, AnnounceKeeps, FinishKeeps, TellKeeps, StopCallKeeps
       DEF Backend
  <2>2. CASE Page
    BY <2>2, PageRunKeeps, RunOkKeeps, RunErrorKeeps, PageStopKeeps, HearStartKeeps, HearExitKeeps
       DEF Page
  <2>3. CASE UNCHANGED allVars
    <3>1. PTypeOK'
      BY <2>3 DEF allVars, PageInv, PTypeOK
    <3> QED BY <2>3, <3>1, StageStays DEF allVars, PageInv
  <2> QED BY <2>1, <2>2, <2>3 DEF PNext
<1> QED BY <1>1, <1>2, PTL DEF PSpec

\* PageMatchesBackend: an ended job never comes back to the page, and with nothing on
\* its way the page has the live job or none, and its Start button is released.
THEOREM PageMatchesBackendHolds == PSpec => []PageMatchesBackend
<1>1. PageInv => PageMatchesBackend
  <2> SUFFICES ASSUME PageInv PROVE PageMatchesBackend
    OBVIOUS
  <2>1. activeId \notin exitSeen
    BY IdsAreNumbers DEF PageInv, PTypeOK, StageInv, SeenInv, Idle, Sent, Accepted, Unheard, Shown,
                         EndHeard
  <2>2. ASSUME Calm
        PROVE  /\ ~launchPending
               /\ IF Live = {} THEN activeId = NoJob /\ ~PageIsRunning
                  ELSE activeId \in Live /\ pPhase \in {"running", "stopping"}
    <3>1. Idle \/ (Shown /\ NoReply)
      BY <2>2, StageOfCall DEF Calm, PageInv
    <3>2. CASE Idle
      <4>1. Live = {}
        BY <3>2, DoneIsNotLive DEF Idle, PageInv
      <4> QED BY <3>2, <4>1 DEF Idle, NoReply, PageIsRunning
    <3>3. CASE Shown
      <4>1. phase[last] = "live" /\ last \in Ids
        BY <2>2, <3>3, ShortQueues DEF Calm, Shown, Known, StartLeft, EndLeft
      <4> QED BY <3>1, <3>3, <4>1 DEF Shown, Live, NoReply, Idle
    <3> QED BY <3>1, <3>2, <3>3
  <2> QED BY <2>1, <2>2 DEF PageMatchesBackend
<1> QED BY <1>1, PageKeepsInvariant, PTL
=============================================================================
