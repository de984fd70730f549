------------------------------- MODULE IFlyDoors -------------------------------
(***************************************************************************)
(* A door of the iFly 737 MAX over a button that only toggles              *)
(* (IFly737MaxDoorsFollowLoaderCycleRule): it is opened for a vehicle the  *)
(* aircraft leaves waiting, closed once its loader is done or the cycle is *)
(* over, and closed for the departure.  A press is held for a tick and     *)
(* given time to show; presses are lost, the pilot has a hand in it and    *)
(* the client may end with the button down.                                *)
(*                                                                         *)
(* One door is modelled, a cargo door or one for stairs; the closer stays  *)
(* armed for the work of the other cargo door too.                         *)
(***************************************************************************)
EXTENDS Integers

CONSTANTS
  SettleTicks,       \* kPulseSettleTicks
  MaxPulseAttempts,  \* kMaxDoorPulseAttempts
  OpensItselfTicks,  \* kAircraftOpensItselfTicks
  MaxFaults          \* bound on lost presses, the pilot's toggles and relaunches

VARIABLES
  follow,  \* the rule
  door,    \* the door and its button
  gsx      \* the services, the vehicle at the door and the hold of the departure

iflyVars == <<follow, door, gsx>>

None == "none"
Open == 2
AtDoor == {"waiting", "serving"}

-----------------------------------------------------------------------------
Cargo == door.kind = "cargo"
WantsOpen == gsx.vehicle \in AtDoor
IsHeldClosed == gsx.hold = "departure" \/ (~Cargo /\ gsx.hold = "passengers")
IsClosingForDeparture == IsHeldClosed \/ (gsx.close /\ ~WantsOpen)

CurrentCargoCycle == IF gsx.service \in {"boarding", "deboarding"} THEN gsx.service ELSE None

ResetTracking(f) == [f EXCEPT !.servedSeen = FALSE, !.loaderDone = FALSE, !.attempts = 0]

HoldBegan ==
  \/ gsx.hold = "departure" /\ follow.hold # "departure"
  \/ gsx.hold = "passengers" /\ follow.hold = None
FollowAircraftCommands(f) ==
  LET g == [f EXCEPT !.hold = gsx.hold, !.closeSeen = gsx.close] IN
  IF ~Cargo /\ (HoldBegan \/ (gsx.close /\ ~f.closeSeen)) THEN ResetTracking(g) ELSE g

\* The button found down is released once it is read; [follow, button].
ReleaseStuckToggles(f) ==
  IF ~(f.releasePending /\ door.read) THEN [follow |-> f, down |-> door.down]
  ELSE [follow |-> [f EXCEPT !.releasePending = FALSE], down |-> door.down /\ f.pulseHigh]

ArmCloser(f) ==
  IF CurrentCargoCycle \in {None, f.armed} THEN f
  ELSE LET g == [f EXCEPT !.armed = CurrentCargoCycle, !.complete = FALSE] IN
    IF Cargo THEN ResetTracking(g) ELSE g

\* A cycle that was running and no longer is has ended, whatever its state says.
LatchCycleCompletion(f) ==
  [f EXCEPT !.complete = @ \/ (f.armed # None /\ gsx.service # f.armed)]

TrackBaggageLoader(f) ==
  IF ~Cargo \/ f.armed # "deboarding" THEN f
  ELSE IF gsx.vehicle = "away" THEN [f EXCEPT !.loaderDone = @ \/ f.servedSeen]
  ELSE [f EXCEPT !.servedSeen = @ \/ gsx.vehicle = "serving",
                 !.loaderDone = FALSE, !.attempts = 0]

TrackDoor(f) ==
  TrackBaggageLoader(
    IF ~WantsOpen THEN [f EXCEPT !.wantsOpenTicks = 0, !.openAttempts = 0]
    ELSE [f EXCEPT !.wantsOpenTicks = IF @ < OpensItselfTicks THEN @ + 1 ELSE @])

IsDoorReleased(f) ==
  \/ IsClosingForDeparture
  \/ Cargo /\ ~WantsOpen /\ IF f.armed = "boarding" THEN f.complete
                            ELSE f.loaderDone \/ (f.complete /\ f.servedSeen)

IsDoorCloseable(f) ==
  IsDoorReleased(f) /\ ~door.moving /\ f.attempts < MaxPulseAttempts /\ door.at = Open

IsDoorOpenable(f) ==
  /\ ~IsHeldClosed /\ f.wantsOpenTicks >= OpensItselfTicks /\ ~door.moving
  /\ f.openAttempts < MaxPulseAttempts /\ door.read /\ door.at # Open

IsDoorClosePending(f) ==
  IsDoorCloseable(f)
    \/ IF f.armed = "boarding" THEN ~f.complete ELSE f.servedSeen /\ ~f.loaderDone
HasPendingCargoDoorWork(f) == Cargo /\ (gsx.vehicle # "away" \/ IsDoorClosePending(f))

Pulse(f) == [follow |-> [f EXCEPT !.pulseHigh = TRUE], down |-> TRUE, busy |-> TRUE]
Left(f, down, busy) == [follow |-> f, down |-> down, busy |-> busy]

AdvancePulse(f, down) ==
  IF f.pulseHigh
  THEN Left([f EXCEPT !.pulseHigh = FALSE, !.settleTicks = SettleTicks], FALSE, TRUE)
  ELSE IF f.settleTicks > 0 THEN Left([f EXCEPT !.settleTicks = @ - 1], down, TRUE)
  ELSE IF IsDoorOpenable(f) THEN Pulse([f EXCEPT !.openAttempts = @ + 1])
  ELSE IF IsDoorCloseable(f) THEN Pulse([f EXCEPT !.attempts = @ + 1])
  ELSE Left(f, down, FALSE)

DisarmCloser(d) ==
  IF d.busy \/ CurrentCargoCycle # None \/ HasPendingCargoDoorWork(d.follow) THEN d
  ELSE [d EXCEPT !.follow.armed = None, !.follow.complete = FALSE]

Acted ==
  LET released == ReleaseStuckToggles(FollowAircraftCommands(follow)) IN
  DisarmCloser(AdvancePulse(TrackDoor(LatchCycleCompletion(ArmCloser(released.follow))),
                            released.down))

-----------------------------------------------------------------------------
(***************************************************************************)
(* The door moves a step towards its goal between two ticks.  A press on   *)
(* it turns its goal round, also in the middle of its travel; only a       *)
(* button that comes down presses.                                         *)
(***************************************************************************)
Moved(d) ==
  IF d.at = d.goal THEN [d EXCEPT !.moving = FALSE]
  ELSE [d EXCEPT !.moving = TRUE, !.at = IF d.at < d.goal THEN @ + 1 ELSE @ - 1]
Pressed(d) == [d EXCEPT !.goal = Open - @]

Fault == door.faults < MaxFaults
Faulty(d) == [d EXCEPT !.faults = @ + 1]

Act ==
  /\ door.up
  /\ \E done \in {Acted} :
       LET pressed == done.down /\ ~door.down
           worked == [door EXCEPT !.down = done.down]
           tells == [worked EXCEPT
                       !.reversed = @ \/ (pressed /\ door.at # door.goal),
                       !.shut = @ \/ (pressed /\ WantsOpen /\ ~IsHeldClosed /\ door.goal = Open)]
       IN /\ follow' = done.follow
          /\ \/ door' = Moved(IF pressed THEN Pressed(tells) ELSE worked)
             \/ Fault /\ pressed /\ door' = Faulty(Moved(worked))
  /\ gsx' = [gsx EXCEPT !.looked = TRUE]

Receives == /\ door.up /\ ~door.read
            /\ door' = [door EXCEPT !.read = TRUE]
            /\ UNCHANGED <<follow, gsx>>

\* Aircraft opens its door by itself, before the rule would.
AircraftOpens ==
  /\ WantsOpen /\ door.goal = 0 /\ door.at = 0 /\ follow.wantsOpenTicks < OpensItselfTicks - 1
  /\ ~IsHeldClosed /\ ~door.down
  /\ door' = Pressed(door)
  /\ UNCHANGED <<follow, gsx>>

PilotToggles ==
  /\ Fault /\ ~door.down /\ gsx.vehicle = "away"
  /\ door' = [Faulty(Pressed(door)) EXCEPT !.pilots = TRUE]
  /\ UNCHANGED <<follow, gsx>>

-----------------------------------------------------------------------------
(***************************************************************************)
(* What the client asks of the aircraft (IFly737Max), and its relaunch.    *)
(***************************************************************************)
CloseAllDoors ==
  /\ door.up /\ ~gsx.close /\ gsx.service = None /\ gsx.hold = None
  /\ gsx' = [gsx EXCEPT !.close = TRUE]
  /\ UNCHANGED <<follow, door>>

HoldDoors ==
  /\ door.up /\ gsx.service = None
  /\ \E to \in {"passengers", "departure"} :
       /\ <<gsx.hold, to>> \in {<<None, "passengers">>, <<None, "departure">>,
                                <<"passengers", "departure">>}
       /\ to = "passengers" => ~Cargo
       /\ gsx' = [gsx EXCEPT !.hold = to]
  /\ UNCHANGED <<follow, door>>

OnTurnaroundStarted ==
  /\ door.up /\ gsx.service = None /\ gsx.hold = "departure" /\ gsx.vehicle = "away"
  /\ door.at = door.goal
  /\ gsx' = [gsx EXCEPT !.close = FALSE, !.hold = None]
  /\ follow' = [follow EXCEPT !.closeSeen = FALSE]
  /\ UNCHANGED door

NewFollow ==
  [hold |-> None, closeSeen |-> FALSE, releasePending |-> FALSE, armed |-> None,
   complete |-> FALSE, servedSeen |-> FALSE, loaderDone |-> FALSE, attempts |-> 0,
   openAttempts |-> 0, wantsOpenTicks |-> 0, pulseHigh |-> FALSE, settleTicks |-> 0]

ClientEnds ==
  /\ door.up /\ Fault
  /\ door' = [Faulty(door) EXCEPT !.up = FALSE, !.read = FALSE, !.relaunched = TRUE]
  /\ follow' = NewFollow
  /\ UNCHANGED gsx

OnTurnaroundResumed ==
  /\ ~door.up
  /\ door' = [door EXCEPT !.up = TRUE]
  /\ follow' = [follow EXCEPT !.releasePending = TRUE]
  /\ UNCHANGED gsx

-----------------------------------------------------------------------------
(***************************************************************************)
(* GSX, a step of which is looked at before the next; a service is begun   *)
(* when the work of the one before is over.                                *)
(***************************************************************************)
ServiceMoves ==
  /\ gsx.looked
  /\ \E to \in {None, "boarding", "deboarding"} :
       /\ (gsx.service = None) # (to = None)
       /\ to # None => gsx.hold = None /\ ~gsx.close /\ gsx.vehicle = "away" /\ door.up
                   /\ follow.armed = None /\ door.moving = FALSE
       /\ gsx' = [gsx EXCEPT !.service = to, !.looked = FALSE]
  /\ UNCHANGED <<follow, door>>

VehicleComes ==
  /\ gsx.looked /\ gsx.service # None /\ gsx.vehicle = "away" /\ gsx.hold = None
  /\ gsx' = [gsx EXCEPT !.vehicle = "waiting", !.looked = FALSE, !.served = FALSE]
  /\ UNCHANGED <<follow, door>>

VehicleServes ==
  /\ gsx.looked /\ gsx.vehicle = "waiting" /\ door.at = Open
  /\ gsx' = [gsx EXCEPT !.vehicle = "serving", !.looked = FALSE]
  /\ UNCHANGED <<follow, door>>

VehicleLeaves ==
  /\ gsx.looked /\ gsx.vehicle \in AtDoor
  /\ gsx' = [gsx EXCEPT !.vehicle = "away", !.looked = FALSE, !.served = gsx.vehicle = "serving"]
  /\ UNCHANGED <<follow, door>>

-----------------------------------------------------------------------------
Init ==
  /\ follow = NewFollow
  /\ door \in [kind : {"cargo", "stairs"}, at : {0}, goal : {0}, moving : {FALSE},
               down : {FALSE}, read : {TRUE}, up : {TRUE}, pilots : {FALSE},
               relaunched : {FALSE}, reversed : {FALSE}, shut : {FALSE}, faults : {0}]
  /\ gsx = [service |-> None, vehicle |-> "away", hold |-> None, close |-> FALSE,
            looked |-> TRUE, served |-> FALSE]

Next ==
  \/ Act \/ Receives \/ AircraftOpens \/ PilotToggles \/ CloseAllDoors \/ HoldDoors
  \/ OnTurnaroundStarted \/ ClientEnds \/ OnTurnaroundResumed \/ ServiceMoves
  \/ VehicleComes \/ VehicleServes \/ VehicleLeaves

Spec == Init /\ [][Next]_iflyVars
ServiceEnds == gsx.service # None /\ ServiceMoves
FairSpec ==
  /\ Spec /\ WF_iflyVars(Act) /\ WF_iflyVars(Receives) /\ WF_iflyVars(OnTurnaroundResumed)
  /\ WF_iflyVars(ServiceEnds) /\ WF_iflyVars(VehicleLeaves)

-----------------------------------------------------------------------------
TypeOK ==
  /\ door.at \in 0 .. Open /\ door.goal \in {0, Open}
  /\ follow.attempts \in 0 .. MaxPulseAttempts /\ follow.openAttempts \in 0 .. MaxPulseAttempts
  /\ follow.settleTicks \in 0 .. SettleTicks
  /\ follow.pulseHigh => door.down

(***************************************************************************)
(* A press never turns a door round in the middle of its travel, the       *)
(* pilot's presses and a relaunch in between aside, and never closes the   *)
(* door on a vehicle that waits or works at it but for a hold.             *)
(***************************************************************************)
PressesAreMeant ==
  /\ door.reversed => door.pilots \/ door.relaunched
  /\ ~door.shut

(***************************************************************************)
(* The button is not left down, a cargo door whose loader has left is      *)
(* closed once the cycle is over, and a door held for the departure is     *)
(* closed, with a press lost on the way.                                   *)
(***************************************************************************)
ButtonComesUp == []<>(~door.down)
LeftDoorCloses ==
  []<>(gsx.served /\ door.kind = "cargo" => door.at = 0 \/ door.pilots \/ door.relaunched
                                              \/ gsx.vehicle # "away")
HeldDoorCloses == []<>(gsx.hold = "departure" => door.at = 0 \/ door.pilots)
=============================================================================
