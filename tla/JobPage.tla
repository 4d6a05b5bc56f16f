------------------------------- MODULE JobPage -------------------------------
(***************************************************************************)
(* The page's view of the one job: run, stop and onProcessEvent of         *)
(* desktop/ui/app.js, against the supervisor's lifecycle (JobLifecycle).   *)
(*                                                                         *)
(* "Events and replies travel separately" (app.js:885): events reach the   *)
(* page in the order they were sent; the reply of a call is independent of *)
(* them and of the replies of other calls.                                 *)
(***************************************************************************)
EXTENDS JobLifecycle, Sequences

CONSTANT StopCalls   \* the stop_command calls the page can have under way

NoJob == 0

VARIABLES
  events,         \* process events sent and not yet handled
  runCall,        \* the run_command call: none, sent, accepted, announced, ok, error
  stopCall,       \* each stop_command call: its job and where it is
  pPhase,         \* state.phase
  activeId,       \* state.activeId
  stoppingId,     \* state.stoppingId
  launchPending,  \* state.launchPending
  exitSeen        \* history: ids whose exit event reached the page

pageVars == <<pPhase, activeId, stoppingId, launchPending, exitSeen>>
callVars == <<events, runCall, stopCall>>
allVars == <<lifeVars, callVars, pageVars>>

NoCall == [st |-> "none", id |-> NoJob]
Told(type, i, stopped) == [type |-> type, id |-> i, stopped |-> stopped]

PInit ==
  /\ Init
  /\ events = <<>>
  /\ runCall = NoCall
  /\ stopCall = [c \in StopCalls |-> NoCall]
  /\ pPhase = "idle"
  /\ activeId = NoJob
  /\ stoppingId = NoJob
  /\ launchPending = FALSE
  /\ exitSeen = {}

-----------------------------------------------------------------------------
(* The backend: lifecycle steps, with what they send to the page. *)

BackendAccepts(i) ==
  /\ runCall.st = "sent"
  /\ Start(i)
  /\ runCall' = [st |-> "accepted", id |-> i]
  /\ UNCHANGED <<events, stopCall, pageVars>>

\* A job is live, or the spawn fails.
BackendRefuses ==
  /\ runCall.st = "sent"
  /\ (Live # {} /\ UNCHANGED lifeVars) \/ \E i \in Ids : Refuse(i)
  /\ runCall' = [st |-> "error", id |-> NoJob]
  /\ UNCHANGED <<events, stopCall, pageVars>>

BackendAnnounces ==
  /\ runCall.st = "accepted"
  /\ Announce(runCall.id)
  /\ events' = Append(events, Told("start", runCall.id, FALSE))
  /\ runCall' = [runCall EXCEPT !.st = "ok"]
  /\ UNCHANGED <<stopCall, pageVars>>

BackendFinishes(i) ==
  /\ Finish(i)
  /\ UNCHANGED <<callVars, pageVars>>

BackendTells(i) ==
  /\ Tell(i)
  /\ events' = Append(events, Told("exit", i, verdict[i] = "stopped"))
  /\ UNCHANGED <<runCall, stopCall, pageVars>>

\* stop_blocking begins: nothing to stop, the first stop of the job, or a join.
BackendTakesStop(c) ==
  /\ stopCall[c].st = "sent"
  /\ IF stopCall[c].id \in Live
     THEN /\ Request(stopCall[c].id)
          /\ stopCall' = [stopCall EXCEPT ![c].st =
                            IF stopCall[c].id \in requested THEN "joined" ELSE "leads"]
     ELSE /\ UNCHANGED lifeVars
          /\ stopCall' = [stopCall EXCEPT ![c].st = "false"]
  /\ UNCHANGED <<events, runCall, pageVars>>

\* It returns: Ok(true); an error of the stop file, which leaves the request in
\* force; an error of the kill, which withdraws it.
BackendAnswersStop(c) ==
  /\ stopCall[c].st \in {"leads", "joined"}
  /\ LET i == stopCall[c].id
         leads == stopCall[c].st = "leads"
     IN  \/ /\ leads => i \notin Live \/ i \in requested
            /\ stopCall' = [stopCall EXCEPT ![c].st = "true"]
            /\ UNCHANGED lifeVars
         \/ /\ leads
            /\ stopCall' = [stopCall EXCEPT ![c].st = "error"]
            /\ UNCHANGED lifeVars \/ Withdraw(i)
  /\ UNCHANGED <<events, runCall, pageVars>>

-----------------------------------------------------------------------------
(* The page. *)

PageIsRunning == activeId # NoJob \/ pPhase \in {"starting", "stopping"}

\* startOrStop -> run
PageRuns ==
  /\ ~PageIsRunning
  /\ ~launchPending
  /\ nextId \in Ids
  /\ launchPending' = TRUE
  /\ pPhase' = "starting"
  /\ runCall' = [st |-> "sent", id |-> NoJob]
  /\ UNCHANGED <<lifeVars, events, stopCall, activeId, stoppingId, exitSeen>>

\* The reply adopts the job only if no event said anything about it; mutated:
\* whenever the page has no job.
AdoptsAnyway == activeId = NoJob
Adopts == activeId = NoJob /\ pPhase = "starting"

PageHearsRunOk ==
  /\ runCall.st = "ok"
  /\ IF Adopts
     THEN activeId' = runCall.id /\ pPhase' = "running"
     ELSE UNCHANGED <<activeId, pPhase>>
  /\ launchPending' = FALSE
  /\ runCall' = NoCall
  /\ UNCHANGED <<lifeVars, events, stopCall, stoppingId, exitSeen>>

\* The same with an error: run()'s `finally` releases the Start button here too.
PageHearsRunError ==
  /\ runCall.st = "error"
  /\ pPhase' = "error"
  /\ launchPending' = FALSE
  /\ runCall' = NoCall
  /\ UNCHANGED <<lifeVars, events, stopCall, activeId, stoppingId, exitSeen>>

PageStops(c) ==
  /\ activeId # NoJob
  /\ stoppingId # activeId
  /\ stopCall[c].st = "none"
  /\ stoppingId' = activeId
  /\ pPhase' = "stopping"
  /\ stopCall' = [stopCall EXCEPT ![c] = [st |-> "sent", id |-> activeId]]
  /\ UNCHANGED <<lifeVars, events, runCall, activeId, launchPending, exitSeen>>

\* A refused stop, or a "nothing to stop" while the page still shows the job,
\* gives the job back to the user; every other reply changes nothing.
PageHearsStop(c) ==
  /\ stopCall[c].st \in {"true", "false", "error"}
  /\ IF stopCall[c].st = "error" \/ (stopCall[c].st = "false" /\ activeId = stopCall[c].id)
     THEN /\ stoppingId' = NoJob
          /\ pPhase' = IF activeId = stopCall[c].id THEN "running" ELSE pPhase
     ELSE UNCHANGED <<stoppingId, pPhase>>
  /\ stopCall' = [stopCall EXCEPT ![c] = NoCall]
  /\ UNCHANGED <<lifeVars, events, runCall, activeId, launchPending, exitSeen>>

PageHearsStart ==
  /\ events # <<>>
  /\ Head(events).type = "start"
  /\ IF activeId = Head(events).id
     THEN UNCHANGED <<activeId, pPhase>>
     ELSE activeId' = Head(events).id /\ pPhase' = "running"
  /\ events' = Tail(events)
  /\ UNCHANGED <<lifeVars, runCall, stopCall, stoppingId, launchPending, exitSeen>>

\* An exit of another job is dropped; a failed and a completed job are one here.
\* Mutated: the exit of a job being stopped is left to the reply of the stop.
ConcernsUnstopped(event) == event.id = activeId /\ stoppingId # event.id
ConcernsActive(event) == event.id = activeId

PageHearsExit ==
  /\ events # <<>>
  /\ Head(events).type = "exit"
  /\ exitSeen' = exitSeen \cup {Head(events).id}
  /\ IF ConcernsActive(Head(events))
     THEN /\ activeId' = NoJob
          /\ stoppingId' = NoJob
          /\ pPhase' = IF Head(events).stopped \/ stoppingId = Head(events).id
                       THEN "stopped" ELSE "complete"
     ELSE UNCHANGED <<activeId, stoppingId, pPhase>>
  /\ events' = Tail(events)
  /\ UNCHANGED <<lifeVars, runCall, stopCall, launchPending>>

-----------------------------------------------------------------------------
Backend == \/ BackendRefuses \/ BackendAnnounces
           \/ \E i \in Ids : BackendAccepts(i) \/ BackendFinishes(i) \/ BackendTells(i)
           \/ \E c \in StopCalls : BackendTakesStop(c) \/ BackendAnswersStop(c)
Page    == \/ PageRuns \/ PageHearsRunOk \/ PageHearsRunError \/ PageHearsStart \/ PageHearsExit
           \/ \E c \in StopCalls : PageStops(c) \/ PageHearsStop(c)

PNext == Backend \/ Page

\* Calls are answered and messages arrive; a job need not end, a user need not act.
PFairness ==
  /\ WF_allVars(BackendRefuses \/ \E i \in Ids : BackendAccepts(i))
  /\ WF_allVars(BackendAnnounces)
  /\ \A i \in Ids : WF_allVars(BackendTells(i))
  /\ \A c \in StopCalls : WF_allVars(BackendTakesStop(c) \/ BackendAnswersStop(c) \/ PageHearsStop(c))
  /\ WF_allVars(PageHearsRunOk \/ PageHearsRunError)
  /\ WF_allVars(PageHearsStart \/ PageHearsExit)

PSpec == PInit /\ [][PNext]_allVars /\ PFairness

-----------------------------------------------------------------------------
\* Nothing is on its way between the app and the page.
Calm == /\ events = <<>>
        /\ runCall.st = "none"
        /\ \A c \in StopCalls : stopCall[c].st = "none"
        /\ \A i \in Ids : phase[i] # "over"

\* A job whose exit the page has handled never becomes its active job again,
\* whichever of its start event, exit event and run reply came first.  And the user
\* can start a job exactly when none is live: with nothing on its way, no launch
\* holds the Start button, the page shows the live job as its own, and no job as
\* running without one.
PageMatchesBackend ==
  /\ activeId \notin exitSeen
  /\ Calm => /\ ~launchPending
             /\ IF Live = {} THEN activeId = NoJob /\ ~PageIsRunning
                ELSE activeId \in Live /\ pPhase \in {"running", "stopping"}

\* The end of a job reaches the page: it stops showing it as its active job.
EndReachesPage ==
  \A i \in Ids : (phase[i] = "over") ~> (i \in exitSeen /\ activeId # i)
=============================================================================
