------------------------------ MODULE GsxDoorSync ------------------------------
(***************************************************************************)
(* A door that follows the vehicle GSX brings to it (GsxDoorSync): the     *)
(* target last commanded, the transit of a door that has been told to move *)
(* and still reads as it was, the states of vehicles that a dead GSX has   *)
(* left behind, the hold of the departure, and what a relaunch brings back *)
(* of all that.  One door with one vehicle.                                *)
(***************************************************************************)
EXTENDS Integers

CONSTANTS
  BoundTicks,  \* kBoundTicks
  Travel,      \* ticks a door may take (1 .. Travel), less than BoundTicks
  MaxFaults    \* bound on deaths of GSX, relaunches and moves by the pilot

VARIABLES
  sync,     \* GsxDoorSync
  door,     \* the door, and what can be read of it (environment)
  vehicle,  \* the vehicle and its variable (environment)
  host      \* GSX, the memory on disk, the faults so far

doorVars == <<sync, door, vehicle, host>>

Placed == {"open", "closed"}
Idle == -1

-----------------------------------------------------------------------------
(***************************************************************************)
(* What the client reads.                                                  *)
(***************************************************************************)
PositionOf(d) ==
  IF d.kind # "reads" THEN "notRead" ELSE IF d.read THEN d.at ELSE "pending"

\* What A:EXIT OPEN shows: it changes all the while the door travels.
Exit(d) == <<d.at, d.left>>

Distrusted(s) ==
  [s EXCEPT !.awaiting = ~vehicle.received,
            !.stale = IF vehicle.received THEN vehicle.state ELSE "none"]
Inherited(s) ==
  IF s.awaiting /\ vehicle.received
  THEN [s EXCEPT !.awaiting = FALSE, !.stale = vehicle.state] ELSE s

Sampled(s, d) ==
  [s EXCEPT !.moving = d.kind = "exits" /\ s.exit # <<>> /\ s.exit # Exit(d),
            !.exit = Exit(d)]

Observed(s) ==
  IF ~host.couatl THEN [s EXCEPT !.restarting = s.seenStarted]
  ELSE [Inherited(IF s.restarting THEN Distrusted(s) ELSE s)
          EXCEPT !.restarting = FALSE, !.seenStarted = TRUE]

-----------------------------------------------------------------------------
(***************************************************************************)
(* Sync, in its stages.                                                    *)
(***************************************************************************)
IsInTransit(s, position) ==
  s.transit # Idle /\ position \in Placed /\ s.target \in Placed /\ position # s.target

AgeTransit(s, position) ==
  [s EXCEPT !.transit =
     IF @ = Idle \/ position = s.target \/ @ + 1 > BoundTicks THEN Idle ELSE @ + 1]

\* A value left behind is not believed until it changes; it is not looked at
\* while the door is held.
Distrusts(s) == s.stale # "none" /\ s.stale = vehicle.state
Looked(s) == IF s.held \/ ~vehicle.received \/ Distrusts(s) THEN s ELSE [s EXCEPT !.stale = "none"]
IsDesiredOpen(s) ==
  ~s.held /\ vehicle.received /\ vehicle.state = "serves" /\ ~Distrusts(s)

RecordedAsInherited(s, target) == [s EXCEPT !.target = target]
Recorded(s, target) == [s EXCEPT !.target = target, !.inherited = FALSE]
Written(s, target) == [Recorded(s, target) EXCEPT !.transit = 0]

WaitsForNothing(s, open) == FALSE
WaitingForItsVehicles(s, open) == ~open /\ s.inherited /\ ~s.held
Pending(s, open) == IF open THEN s.target # "open" ELSE s.target = "open"

CommandDoor(d, target) ==
  IF target = (IF d.left = 0 THEN d.at ELSE d.to) THEN door' = d
  ELSE \E left \in 1 .. Travel :
         door' = [d EXCEPT !.to = target, !.left = left,
                           !.by = IF d.left = 0 THEN "client" ELSE @]

\* What one tick makes of the door, when it has been observed as s.
Decided(s, open, position) ==
  LET wanted == IF open THEN "open" ELSE "closed"
      wait == \/ ~Pending(s, open) \/ WaitingForItsVehicles(s, open)
              \/ s.moving \/ IsInTransit(s, position) \/ position = "pending"
  IN  IF wait THEN [s |-> s, write |-> "none"]
      ELSE IF position = wanted THEN [s |-> Recorded(s, wanted), write |-> "none"]
      ELSE [s |-> Written(s, wanted), write |-> wanted]

Aged(s, position) ==
  [AgeTransit(s, position) EXCEPT !.inherited = @ /\ ~vehicle.received]

Sync(s, position) ==
  LET aged == Aged(s, position)
      decided == Decided(Looked(aged), IsDesiredOpen(aged), position)
  IN  IF host.couatl THEN decided ELSE [s |-> s, write |-> "none"]

-----------------------------------------------------------------------------
(***************************************************************************)
(* A tick of the client: Observe, then Sync; the memory is saved with the  *)
(* turnaround.  A travelling door has moved on since the tick before.      *)
(***************************************************************************)
Memory(s) == [target |-> s.target, same |-> host.couatl]

MovedOn(d) ==
  IF d.left = 0 THEN d
  ELSE [d EXCEPT !.left = @ - 1, !.at = IF d.left = 1 THEN d.to ELSE @]

Tick ==
  \E d \in {MovedOn(door)} : \E done \in {Sync(Observed(Sampled(sync, d)), PositionOf(d))} :
    /\ sync' = done.s
    /\ IF done.write = "none" THEN door' = d ELSE CommandDoor(d, done.write)
    /\ vehicle' = [vehicle EXCEPT !.looked = TRUE]
    /\ host' = [host EXCEPT !.wrote = done.write, !.disk = Memory(done.s)]

\* CloseAll and HoldClosedForDeparture, as the ground equipment is removed.
DepartureBegins ==
  /\ ~sync.held
  /\ IF PositionOf(door) = "closed" /\ ~IsInTransit(sync, PositionOf(door))
     THEN sync' = [Recorded(sync, "closed") EXCEPT !.held = TRUE] /\ door' = door
     ELSE sync' = [Written(sync, "closed") EXCEPT !.held = TRUE] /\ CommandDoor(door, "closed")
  /\ host' = [host EXCEPT !.wrote = "none"]
  /\ UNCHANGED vehicle

HoldIsReleased ==
  /\ sync.held /\ ~vehicle.there /\ vehicle.state # "comes"
  /\ sync' = [sync EXCEPT !.held = FALSE]
  /\ host' = [host EXCEPT !.wrote = "none"]
  /\ UNCHANGED <<door, vehicle>>

NoSync ==
  [target |-> "none", inherited |-> FALSE, transit |-> Idle, held |-> FALSE,
   awaiting |-> FALSE, stale |-> "none", seenStarted |-> FALSE, restarting |-> FALSE,
   moving |-> FALSE, exit |-> <<>>]

\* RestoreMemory, after the first look of a client that finds GSX running.
Restored(target, restarted) ==
  [NoSync EXCEPT !.target = target, !.inherited = target = "open", !.seenStarted = TRUE,
                 !.awaiting = restarted]

\* What is distrusted is not saved, and after a restart of GSX a vehicle that
\* came while the client was away is distrusted too.
MixesNothingUp ==
  IF host.disk.same THEN ~Distrusts(sync) /\ ~sync.awaiting ELSE ~vehicle.there

\* A relaunch takes longer than a door does.
Relaunch ==
  /\ host.faults < MaxFaults /\ host.couatl /\ door.left = 0
  /\ MixesNothingUp
  /\ sync' = [Restored(host.disk.target, ~host.disk.same) EXCEPT !.held = sync.held]
  /\ door' = [door EXCEPT !.read = FALSE]
  /\ vehicle' = [vehicle EXCEPT !.received = FALSE]
  /\ host' = [host EXCEPT !.wrote = "none", !.faults = @ + 1]

-----------------------------------------------------------------------------
(***************************************************************************)
(* The door, the vehicle, and GSX.  A vehicle takes longer than a tick for *)
(* each thing it does, comes to no door that is held, and not before its   *)
(* variable has been seen once since GSX started.                          *)
(***************************************************************************)
Quietly == host' = [host EXCEPT !.wrote = "none"]

PilotMoves ==
  /\ host.faults < MaxFaults /\ door.left = 0
  /\ \E to \in Placed \ {door.at} :
       door' = [door EXCEPT !.to = to, !.left = 1, !.by = "pilot"]
  /\ host' = [host EXCEPT !.wrote = "none", !.faults = @ + 1]
  /\ UNCHANGED <<sync, vehicle>>

Becomes(state) ==
  /\ host.couatl /\ vehicle.looked
  /\ vehicle' = [vehicle EXCEPT !.state = state, !.there = state = "serves", !.looked = FALSE]
  /\ Quietly /\ UNCHANGED <<sync, door>>

VehicleComes ==
  vehicle.state # "comes" /\ ~vehicle.there /\ ~sync.held /\ Becomes("comes")
VehicleServes ==
  /\ vehicle.state = "comes" /\ ~sync.held
  /\ vehicle.received /\ ~sync.awaiting /\ ~sync.restarting
  /\ Becomes("serves")
VehicleLeaves == vehicle.state # "away" /\ Becomes("away")

\* What GSX wrote last stays when it dies; it is down for longer than a tick,
\* and the client has seen it run.
CouatlDies ==
  /\ host.couatl /\ sync.seenStarted /\ host.faults < MaxFaults
  /\ host' = [host EXCEPT !.couatl = FALSE, !.wrote = "none", !.disk.same = FALSE,
                          !.faults = @ + 1]
  /\ vehicle' = [vehicle EXCEPT !.there = FALSE, !.looked = FALSE]
  /\ UNCHANGED <<sync, door>>
CouatlStarts ==
  /\ ~host.couatl /\ vehicle.looked
  /\ host' = [host EXCEPT !.couatl = TRUE, !.wrote = "none"]
  /\ UNCHANGED <<sync, door, vehicle>>

VariableArrives ==
  /\ ~vehicle.received
  /\ vehicle' = [vehicle EXCEPT !.received = TRUE, !.looked = FALSE]
  /\ Quietly /\ UNCHANGED <<sync, door>>
PositionArrives ==
  /\ ~door.read
  /\ door' = [door EXCEPT !.read = TRUE]
  /\ Quietly /\ UNCHANGED <<sync, vehicle>>

Init ==
  /\ sync = NoSync
  /\ door \in [kind : {"bare", "reads", "exits"}, read : {FALSE}, at : Placed,
               to : {"closed"}, left : {0}, by : {"pilot"}]
  /\ vehicle = [state |-> "away", there |-> FALSE, received |-> FALSE, looked |-> FALSE]
  /\ host = [couatl |-> FALSE, wrote |-> "none", faults |-> 0,
             disk |-> [target |-> "none", same |-> TRUE]]

Next ==
  \/ Tick \/ DepartureBegins \/ HoldIsReleased \/ Relaunch
  \/ PilotMoves \/ VehicleComes \/ VehicleServes \/ VehicleLeaves
  \/ CouatlDies \/ CouatlStarts \/ VariableArrives \/ PositionArrives

Spec == Init /\ [][Next]_doorVars

\* The client ticks, GSX starts again, and variables arrive.
Fairness ==
  /\ WF_doorVars(Tick)
  /\ WF_doorVars(CouatlStarts) /\ WF_doorVars(VariableArrives) /\ WF_doorVars(PositionArrives)

FairSpec == Spec /\ Fairness

-----------------------------------------------------------------------------
TypeOK ==
  /\ sync.target \in Placed \cup {"none"} /\ sync.transit \in Idle .. BoundTicks
  /\ sync.stale \in {"none", "away", "comes", "serves"}
  /\ sync.inherited => sync.target = "open"
  /\ sync.awaiting => sync.stale = "none"

(***************************************************************************)
(* The client opens a door only for a vehicle that is really there, and    *)
(* does not close it on one unless the departure holds it closed: not on a *)
(* state a dead GSX left behind, and not because a state has not come yet. *)
(***************************************************************************)
FollowsRealVehicles ==
  [][ /\ host'.wrote = "open" => vehicle.there
      /\ host'.wrote = "closed" => ~vehicle.there \/ sync.held ]_doorVars

(***************************************************************************)
(* A door whose position or exit can be read is not written while it still *)
(* travels to where the client has sent it.  One that was sent back before *)
(* it had left its place reads as it is wanted at once, and is not waited  *)
(* for (DoorTransit).                                                      *)
(***************************************************************************)
LetsTheDoorArrive ==
  [][ host'.wrote # "none" /\ door.left > 1 /\ door.at # door.to /\ door.by = "client"
        => door.kind = "bare" ]_doorVars

(***************************************************************************)
(* With a vehicle at it for good and no hold, the door comes to be open;   *)
(* with none, it comes to be closed.  Unless the pilot moves it.           *)
(***************************************************************************)
Wanted == vehicle.there /\ ~sync.held
DoorFollowsItsVehicle ==
  /\ <>[](Wanted /\ door.by = "client") => <>[](door.at = "open")
  /\ <>[](~Wanted /\ vehicle.state # "serves" /\ host.couatl /\ door.by = "client") => <>[](door.at = "closed")
=============================================================================
