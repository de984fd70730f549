-------------------------------- MODULE SimSession --------------------------------
(***************************************************************************)
(* The connection to the simulator and the session over it                 *)
(* (IntegratorRuntime, SimConnectSession and the transport below, which    *)
(* reports a connection that breaks as the simulator's quit, once).  The   *)
(* simulator may not run, accept a connection and not answer, break it at  *)
(* any time, and load and end flights.  The client exits when a simulator  *)
(* it was connected to quits.                                              *)
(***************************************************************************)
EXTENDS Integers, Sequences, SequencesExt

CONSTANTS
  OpenDeadline, \* openReplyMs, in rounds of Dispatch
  MaxWire,      \* bound on the messages under way
  MaxFaults     \* bound on broken and unanswered connections

VARIABLES
  app, \* the runtime
  sim, \* the simulator and its side of the connection (environment)
  past \* whether this connection was answered, whether an unanswered one was reported

sessionVars == <<app, sim, past>>

Cameras == {"menu", "loading", "cockpit"}
NotRead == "none"

\* "knows" is for the camera's variable, which the gateway keeps once it was read.
Disconnected ==
  [knows |-> FALSE, version |-> "none", connected |-> FALSE, answered |-> FALSE, timer |-> TRUE, active |-> FALSE,
   camera |-> NotRead, quitPending |-> FALSE, waited |-> 0, exited |-> FALSE]

-----------------------------------------------------------------------------
(***************************************************************************)
(* HandleDisconnected: the session ends with the connection, which is      *)
(* tried again, and the pilot is told when a simulator that answered has   *)
(* gone: the client then exits.                                            *)
(***************************************************************************)
HandleDisconnected(a) == [Disconnected EXCEPT !.knows = a.knows, !.exited = a.answered]

(***************************************************************************)
(* The handlers of the messages: OnSimOpen, OnSimRunningChanged, Update.   *)
(***************************************************************************)
OnSimRunningChanged(a, running) == [a EXCEPT !.active = running]
\* A camera that was not read yet is in the cockpit, but for MSFS 2024.
IsSessionReady(a) == a.camera = "cockpit" \/ (a.camera = NotRead /\ a.version # "2024")
Update(a) ==
  [a EXCEPT !.knows = TRUE,
            !.active = IF a.camera = "menu" /\ @ THEN FALSE ELSE @ \/ IsSessionReady(a)]

Handled(a, m) ==
  CASE m = "open" -> [a EXCEPT !.answered = TRUE, !.version = sim.version]
    [] m \in {"running", "stopped"} -> OnSimRunningChanged(a, m = "running")
    [] m = "second" -> Update(a)
    [] m = "quit" -> [a EXCEPT !.quitPending = TRUE]
    [] OTHER -> [a EXCEPT !.camera = m]

(***************************************************************************)
(* Dispatch: everything that has come is handled, then a quit, a broken    *)
(* connection or one that is not answered in time.                         *)
(***************************************************************************)
HasBroken(a) == a.quitPending \/ sim.link = "gone"
IsGivenUp(a) == ~a.answered /\ a.waited + 1 > OpenDeadline
Dispatched(a) ==
  IF HasBroken(a) \/ IsGivenUp(a) THEN HandleDisconnected(a)
  ELSE [a EXCEPT !.waited = IF a.answered THEN 0 ELSE @ + 1]

Dispatch ==
  /\ app.connected
  /\ app' = Dispatched(FoldLeft(Handled, app, sim.wire))
  /\ sim' = [sim EXCEPT !.wire = << >>, !.link = IF app'.connected THEN @ ELSE "none"]
  /\ past' = [past EXCEPT
       !.answered = (@ \/ Contains(sim.wire, "open")) /\ app'.connected,
       !.misreported = @ \/ (app'.exited /\ ~(past.answered \/ Contains(sim.wire, "open")))]

(***************************************************************************)
(* TryConnect, as often as the timer fires: a simulator that answers says  *)
(* so, and whether a flight runs.  A subscription fails when the           *)
(* connection breaks first.                                                *)
(***************************************************************************)
Opened ==
  [Disconnected EXCEPT !.knows = app.knows, !.connected = TRUE, !.timer = FALSE]
Greeting == <<"open", IF sim.camera = "cockpit" THEN "running" ELSE "stopped">>

TryConnect ==
  /\ app.timer /\ ~app.exited
  /\ sim.up
  /\ \/ /\ app' = Opened
        /\ sim' = [sim EXCEPT !.link = "ok", !.wire = IF sim.answers THEN Greeting ELSE << >>,
                              !.shown = NotRead]
        /\ UNCHANGED past
     \/ /\ past.faults < MaxFaults
        /\ app' = HandleDisconnected(Opened)
        /\ past' = [past EXCEPT !.faults = @ + 1]
        /\ UNCHANGED sim

-----------------------------------------------------------------------------
(***************************************************************************)
(* The simulator.                                                          *)
(***************************************************************************)
Starts ==
  /\ ~sim.up
  /\ sim' = [sim EXCEPT !.up = TRUE, !.camera = "menu"]
  /\ UNCHANGED <<app, past>>

\* What answers the connection comes later than what accepts it.
Answers ==
  /\ sim.up /\ ~sim.answers
  /\ sim' = [sim EXCEPT !.answers = TRUE,
                        !.wire = IF sim.link = "ok" THEN Greeting ELSE @]
  /\ UNCHANGED <<app, past>>

Breaks ==
  /\ sim.link = "ok" /\ past.faults < MaxFaults
  /\ sim' = [sim EXCEPT !.link = "gone"]
  /\ past' = [past EXCEPT !.faults = @ + 1]
  /\ UNCHANGED app

Quits ==
  /\ sim.up /\ past.faults < MaxFaults
  /\ sim' = [sim EXCEPT !.up = FALSE, !.answers = FALSE,
                        !.link = IF @ = "ok" THEN "gone" ELSE @,
                        !.wire = IF sim.link = "ok" /\ sim.answers THEN Append(@, "quit") ELSE @]
  /\ past' = [past EXCEPT !.faults = @ + 1]
  /\ UNCHANGED app

IsTold == sim.link = "ok" /\ sim.answers
\* A flight is loaded from the menu, and left for it; the running of the
\* simulator is told at once, the camera with the next second.
Flies ==
  /\ sim.up
  /\ \E camera \in Cameras \ {sim.camera} :
       /\ camera = "cockpit" => sim.camera = "loading"
       /\ camera = "loading" => sim.camera = "menu"
       /\ IsTold => Len(sim.wire) < MaxWire
       /\ sim' = [sim EXCEPT !.camera = camera,
            !.wire = CASE ~IsTold -> @
                       [] camera = "cockpit" -> Append(@, "running")
                       [] camera = "menu" /\ sim.camera = "cockpit" -> Append(@, "stopped")
                       [] OTHER -> @]
  /\ UNCHANGED <<app, past>>

Second ==
  /\ IsTold /\ Len(sim.wire) < MaxWire
  /\ sim' = [sim EXCEPT !.wire = IF sim.shown = sim.camera \/ ~app.knows
                                 THEN Append(@, "second")
                                 ELSE @ \o <<sim.camera, "second">>,
                        !.shown = IF app.knows THEN sim.camera ELSE @]
  /\ UNCHANGED <<app, past>>

Relaunch ==
  /\ app.exited
  /\ app' = Disconnected
  /\ UNCHANGED <<sim, past>>

Init ==
  /\ app = Disconnected
  /\ sim \in [version : {"2020", "2024"}, up : BOOLEAN, answers : {FALSE}, camera : {"menu", "cockpit"},
              link : {"none"}, wire : {<< >>}, shown : {NotRead}]
  /\ past = [answered |-> FALSE, misreported |-> FALSE, faults |-> 0]

Next ==
  \/ Dispatch \/ TryConnect
  \/ Starts \/ Answers \/ Breaks \/ Quits \/ Flies \/ Second \/ Relaunch

Spec == Init /\ [][Next]_sessionVars

\* The timers of the client fire, and a simulator that runs answers and ticks.
Fairness ==
  /\ WF_sessionVars(Dispatch) /\ WF_sessionVars(TryConnect)
  /\ WF_sessionVars(Answers) /\ SF_sessionVars(Second)

FairSpec == Spec /\ Fairness

-----------------------------------------------------------------------------
(***************************************************************************)
(* A session needs a connection, and an unconnected client tries again.    *)
(***************************************************************************)
TypeOK ==
  /\ app.active \/ app.answered => app.connected
  /\ app.connected = ~app.timer
  /\ app.waited \in 0 .. OpenDeadline
  /\ app.connected = (sim.link # "none")

(***************************************************************************)
(* The client exits only when a simulator that answered has gone, never    *)
(* because one took long to start, whatever breaks in between.             *)
(***************************************************************************)
ExitsOnlyWithTheSimulator == ~past.misreported

(***************************************************************************)
(* While the simulator runs, the client gets its answer in the end.        *)
(***************************************************************************)
ReachesTheSimulator == <>[]sim.up => <>[](app.answered \/ app.exited)

(***************************************************************************)
(* The session follows the flight, also when the client connected late or  *)
(* the running of the simulator is told before the camera.                 *)
(***************************************************************************)
SessionFollowsTheFlight ==
  /\ <>[](sim.up /\ sim.camera = "cockpit") => <>[](app.active \/ app.exited)
  /\ <>[](sim.up /\ sim.camera = "menu") => <>[]~app.active
=============================================================================
