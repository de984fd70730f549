---------------------------- MODULE AvroRjAirstair ----------------------------
(***************************************************************************)
(* The own airstair of the Just Flight Avro RJ and the front door it goes  *)
(* out of (AvroRjHoldForOwnAirstairRule, AvroRjPaxDoorsServeTheAirstair-   *)
(* Rule, with the requests AvroRj keeps for them).  Without a jetway the   *)
(* phase that calls the services wants the stair out; GSX's stairs, a      *)
(* jetway and the departure want it back in; the door opens before it and  *)
(* closes behind it.  The aft door, which is only kept closed, is left out. *)
(***************************************************************************)
EXTENDS Integers

CONSTANTS
  Travel,     \* the steps of the stair's travel, positive
  MaxFaults   \* bound on relaunches, ends of couatl and switches moved by the pilot

VARIABLES
  airstair,  \* the two rules and AvroRjAirstairState
  plane,     \* the stair, its switch and pressure, the door, the readings received
  stand      \* the jetway, GSX's stairs, couatl, the phase's need and its hold

airstairVars == <<airstair, plane, stand>>

None == "none"
Inputs == {"jetway", "stairs", "position"}
SettledHoldTicks == 2

-----------------------------------------------------------------------------
Sees(what) == what \in plane.received
Held == stand.hold = "held"
IsJetwayAvailable == Sees("jetway") /\ stand.jetway # None
IsOwnAirstairTheWayIn == Sees("jetway") /\ stand.jetway = None
IsJetwayDocked == Sees("jetway") /\ stand.jetway = "docked"
AreStairsArriving == Sees("stairs") /\ stand.stairs = "arriving"
IsFrontDoorServedByGsx == IsJetwayAvailable \/ (Sees("stairs") /\ stand.stairs # "away")
IsOutOfItsWell == Sees("position") /\ plane.stair > 0
IsMoving(a) == Sees("position") /\ a.still < SettledHoldTicks

IsWanted(a) == ~Held /\ a.requested /\ stand.couatl /\ ~IsFrontDoorServedByGsx
MustStow == Held \/ (stand.couatl /\ IsFrontDoorServedByGsx)

(***************************************************************************)
(* A resumed turnaround wants the stair again unless there is a jetway.    *)
(***************************************************************************)
ResolveTheResumedAirstairRequest(a) ==
  IF a.awaitsTheJetway /\ Sees("jetway")
  THEN [a EXCEPT !.requested = ~IsJetwayAvailable, !.awaitsTheJetway = FALSE]
  ELSE a

(***************************************************************************)
(* The front door: open for what comes to it, closed once nothing does and *)
(* the stair is in its well.                                               *)
(***************************************************************************)
IsFrontDoorWanted(a) == ~Held /\ (IsJetwayDocked \/ a.requested \/ AreStairsArriving)

AwaitsTheVehicles(a) ==
  a.restoredOpen /\ ~({"jetway", "stairs"} \subseteq plane.received) /\ ~Held

MayClose(a) ==
  /\ a.target = "open" /\ a.stowed /\ ~AwaitsTheVehicles(a)
  /\ Sees("position") /\ plane.stair = 0

DriveFrontDoor(a) ==
  IF ~stand.couatl THEN a
  ELSE IF IsFrontDoorWanted(a) THEN [a EXCEPT !.target = "open"]
  ELSE IF MayClose(a) THEN [a EXCEPT !.target = "closed"]
  ELSE a

(***************************************************************************)
(* The stair: where it stands still, one press or switch at a tick.        *)
(***************************************************************************)
ObserveTravel(a) ==
  LET still == IF ~Sees("position") \/ plane.changed THEN 0
               ELSE IF a.still < SettledHoldTicks THEN a.still + 1 ELSE a.still
  IN [a EXCEPT !.still = still,
               !.settled = a.phase = "extended" /\ IsOutOfItsWell /\ still >= SettledHoldTicks]

Request(a) == [a EXCEPT !.requested = @ \/ (stand.need /\ IsOwnAirstairTheWayIn)]

Left(a) == [a |-> a, switch |-> plane.switch]
ToPhase(a, phase, switch) == [a |-> [a EXCEPT !.phase = phase], switch |-> switch]

DriveStowed(a) ==
  IF plane.switch = "extended" /\ IsOutOfItsWell THEN ToPhase(a, "extended", plane.switch)
  ELSE IF IsWanted(a) /\ plane.door = "open" /\ plane.pressure
       THEN ToPhase(a, "arming", plane.switch)
  ELSE Left(a)

DriveExtended(a) ==
  IF plane.switch = "retracted" THEN ToPhase(a, "stowed", plane.switch)
  ELSE IF MustStow /\ plane.pressure THEN ToPhase(a, "unarming", "retracted")
  ELSE Left(a)

Drive(a) ==
  IF IsMoving(a) THEN Left(a)
  ELSE CASE a.phase = "stowed" -> DriveStowed(a)
         [] a.phase = "arming" -> ToPhase(a, "extended", "extended")
         [] a.phase = "extended" -> DriveExtended(a)
         [] a.phase = "unarming" -> ToPhase(a, "stowed", plane.switch)

\* The rules of a tick in their order: the door, then the stair.
Doored == DriveFrontDoor(ResolveTheResumedAirstairRequest(airstair))

\* A stair under way moves at every tick; it may start one tick late.
TickInTime == plane.changed \/ plane.stair \in {0, Travel}

Act ==
  /\ plane.up /\ TickInTime
  /\ \E doored \in {Doored} :
       \E done \in {Drive(Request(ObserveTravel(doored)))} :
         /\ airstair' = [done.a EXCEPT !.stowed = done.a.phase = "stowed"]
         /\ plane' = [plane EXCEPT
              !.switch = done.switch, !.changed = FALSE,
              !.door = IF doored.target # airstair.target THEN doored.target ELSE @]
  /\ UNCHANGED stand

-----------------------------------------------------------------------------
Receives ==
  /\ plane.up
  /\ \E what \in Inputs \ plane.received : plane' = [plane EXCEPT !.received = @ \cup {what}]
  /\ UNCHANGED <<airstair, stand>>

\* HoldDoorsClosed, on and off once for a departure.
HoldDoorsClosed ==
  /\ plane.up /\ stand.hold # "over" /\ ~stand.need
  /\ stand' = [stand EXCEPT !.hold = IF Held THEN "over" ELSE "held"]
  /\ UNCHANGED <<airstair, plane>>

OnTurnaroundStarted ==
  /\ plane.up /\ stand.hold = "over"
  /\ airstair' = [airstair EXCEPT !.requested = FALSE, !.awaitsTheJetway = FALSE]
  /\ stand' = [stand EXCEPT !.hold = None, !.called = FALSE]
  /\ UNCHANGED plane

ClientEnds ==
  /\ plane.up /\ stand.faults < MaxFaults
  /\ plane' = [plane EXCEPT !.up = FALSE, !.received = {}]
  /\ stand' = [stand EXCEPT !.faults = @ + 1]
  /\ UNCHANGED airstair

NewAirstair(target) ==
  [phase |-> "stowed", requested |-> FALSE, awaitsTheJetway |-> FALSE, stowed |-> TRUE,
   settled |-> FALSE, still |-> 0, target |-> target, restoredOpen |-> target = "open"]

\* Only the door's target is remembered; a relaunch outlasts a travel's start.
OnTurnaroundResumed ==
  /\ ~plane.up /\ (plane.switch = "extended" => plane.stair > 0)
  /\ airstair' = [NewAirstair(airstair.target) EXCEPT !.awaitsTheJetway = stand.called]
  /\ plane' = [plane EXCEPT !.up = TRUE]
  /\ UNCHANGED stand

-----------------------------------------------------------------------------
\* The stair follows its switch, and may use up the pressure as it starts.
StairMoves ==
  LET goal == IF plane.switch = "extended" THEN Travel ELSE 0
  IN /\ plane.stair # goal /\ (plane.changed => ~plane.up)
     /\ \E pressure \in {plane.pressure} \cup
                          (IF plane.stair \in {0, Travel} THEN {FALSE} ELSE {}) :
          plane' = [plane EXCEPT !.stair = IF goal = 0 THEN @ - 1 ELSE @ + 1,
                                 !.changed = TRUE, !.pressure = pressure]
     /\ UNCHANGED <<airstair, stand>>

PilotRechargesTheAccumulator ==
  /\ ~plane.pressure
  /\ plane' = [plane EXCEPT !.pressure = TRUE]
  /\ UNCHANGED <<airstair, stand>>

PilotMovesTheSwitch ==
  /\ stand.faults < MaxFaults /\ plane.door = "open"
  /\ plane' = [plane EXCEPT !.switch = IF @ = "extended" THEN "retracted" ELSE "extended"]
  /\ stand' = [stand EXCEPT !.faults = @ + 1]
  /\ UNCHANGED airstair

\* The phase that calls the services begins to need an access, and has it.
NeedChanges ==
  /\ plane.up /\ (stand.need \/ (stand.hold = None /\ ~stand.called))
  /\ stand' = [stand EXCEPT !.need = ~@, !.called = TRUE]
  /\ UNCHANGED <<airstair, plane>>

JetwayMoves ==
  /\ stand.jetway # None /\ stand.couatl
  /\ stand' = [stand EXCEPT !.jetway = IF @ = "free" THEN "docked" ELSE "free"]
  /\ UNCHANGED <<airstair, plane>>

\* Dispatched or driving away, approaching or in place, or away.
StairsMove ==
  /\ stand.couatl /\ stand.jetway = None
  /\ stand' = [stand EXCEPT !.stairs = IF @ = "near" THEN "arriving" ELSE "near"]
  /\ UNCHANGED <<airstair, plane>>

StairsAreGone ==
  /\ stand.stairs = "near"
  /\ stand' = [stand EXCEPT !.stairs = "away"]
  /\ UNCHANGED <<airstair, plane>>

CouatlEnds ==
  /\ stand.couatl /\ stand.faults < MaxFaults
  /\ stand' = [stand EXCEPT !.couatl = FALSE, !.stairs = "away",
                            !.jetway = IF @ = "docked" THEN "free" ELSE @, !.faults = @ + 1]
  /\ UNCHANGED <<airstair, plane>>

CouatlStarts ==
  /\ ~stand.couatl
  /\ stand' = [stand EXCEPT !.couatl = TRUE]
  /\ UNCHANGED <<airstair, plane>>

-----------------------------------------------------------------------------
Init ==
  /\ airstair = NewAirstair(None)
  /\ plane = [stair |-> 0, switch |-> "retracted", changed |-> FALSE, pressure |-> TRUE,
              door |-> "closed", received |-> Inputs, up |-> TRUE]
  /\ \E jetway \in {None, "free"} :
       stand = [jetway |-> jetway, stairs |-> "away", couatl |-> TRUE, need |-> FALSE,
                called |-> FALSE, hold |-> None, faults |-> 0]

Next ==
  \/ Act \/ Receives \/ HoldDoorsClosed \/ OnTurnaroundStarted \/ ClientEnds
  \/ OnTurnaroundResumed \/ StairMoves \/ PilotRechargesTheAccumulator
  \/ PilotMovesTheSwitch \/ NeedChanges \/ JetwayMoves \/ StairsMove
  \/ StairsAreGone \/ CouatlEnds \/ CouatlStarts

Spec == Init /\ [][Next]_airstairVars
FairSpec ==
  /\ Spec /\ WF_airstairVars(Act) /\ WF_airstairVars(Receives)
  /\ WF_airstairVars(OnTurnaroundResumed) /\ WF_airstairVars(StairMoves)
  /\ WF_airstairVars(PilotRechargesTheAccumulator)

-----------------------------------------------------------------------------
TypeOK ==
  /\ airstair.phase \in {"stowed", "arming", "extended", "unarming"}
  /\ airstair.target \in {None, "open", "closed"}
  /\ airstair.still \in 0..SettledHoldTicks
  /\ plane.stair \in 0..Travel
  /\ plane.door = "open" => airstair.target = "open"

(***************************************************************************)
(* The front door is not closed on a stair out of its well, also after a   *)
(* relaunch that takes the stair for stowed and reads the stand bit by bit *)
(* (MayClose); and a stair is called settled only once it is all out.      *)
(***************************************************************************)
DoorIsNotClosedOnTheStair ==
  [][/\ (plane.door = "open" /\ plane'.door = "closed" => plane.stair = 0)
     /\ (airstair'.settled /\ ~airstair.settled => plane.stair = Travel)]_airstairVars

(***************************************************************************)
(* Passengers who need an access that GSX does not bring come to have the  *)
(* stair; GSX's access and the departure come to find it in, and the       *)
(* departure the door closed.                                              *)
(***************************************************************************)
AirstairServes ==
  /\ []<>(stand.need /\ stand.jetway = None /\ stand.stairs = "away" /\ stand.couatl
            => airstair.settled)
  /\ []<>(stand.couatl /\ (stand.stairs # "away" \/ stand.jetway # None) => plane.stair = 0)
  /\ []<>(Held => plane.stair = 0)
  /\ []<>(Held /\ stand.couatl => plane.door = "closed")
=============================================================================
