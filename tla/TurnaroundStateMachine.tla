----------------------- MODULE TurnaroundStateMachine -----------------------
(***************************************************************************)
(* The engine every phase of the turnaround runs on                        *)
(* (TurnaroundStateMachine): which phase a tick evaluates, how a           *)
(* transition is applied at once or after a delay, how an airborne         *)
(* aircraft leaves the stand phases, when a touch of the pilot counts, and *)
(* how a reset or a resumed checkpoint puts the machine somewhere else.    *)
(*                                                                         *)
(* What a phase reads and decides is left open here: a tick may stay or    *)
(* take any transition its phase has.  StandPreparation,                   *)
(* FlightPlanCapture, DepartureAndArrival and RuleHolds extend this        *)
(* module, replace that choice by what the phases and the rules decide,    *)
(* and implement MachineSpec.                                              *)
(*                                                                         *)
(* A definition that no other one uses (WaitingWithoutTheGuard,            *)
(* KeepAppTouch, ...) stands just before the one it is a mutation of: a    *)
(* likely mistake in that code, which a property has to find.              *)
(***************************************************************************)
EXTENDS Integers

(***************************************************************************)
(* The phases (TurnaroundPhase.h), as the integers of the enumeration: the *)
(* code compares them with < and <=.                                       *)
(***************************************************************************)
WaitingSupportedAircraft == 0
WaitingAircraftReady == 1
RepositionAircraft == 2
PlaceGroundEquipment == 3
CallServices == 4
WaitingFlightPlan == 5
WaitingPowerOn == 6
CallCatering == 7
RequestFuel == 8
Loading == 9
WaitingReadyToPush == 10
WaitCatering == 11
RemoveGroundEquipment == 12
RequestPushback == 13
WaitingPushbackToStart == 14
WaitingForEngines == 15
WaitingDeparture == 16
OnFlight == 17
WaitingEngineShutdown == 18
PlaceArrivalGroundEquipment == 19
RequestDeboarding == 20
Deboarding == 21
CabinServices == 22
WaitingNewFlight == 23

Phases == WaitingSupportedAircraft .. WaitingNewFlight

\* The phases a saved turnaround can be resumed in.
IsResumablePhase(p) == RepositionAircraft <= p /\ p <= CabinServices

\* The phases in which a touch of the pilot means something (PilotTouch).
PilotTouchPhases ==
  {RequestFuel, WaitingReadyToPush, WaitingForEngines, WaitingNewFlight}

\* The phases whose gate a touch opens (PilotUnlock).
PilotUnlockPhases == {WaitingReadyToPush}

\* Where a transition comes from (TransitionOrigin).
Origins == {"Reading", "Pilot"}

-----------------------------------------------------------------------------

CONSTANTS
  AirborneTicksToLeaveForTheFlight,  \* airborne ticks that end a stand phase
  ReadyToPushDelayTicks,             \* Loading -> WaitingReadyToPush
  OnFlightDelayTicks,                \* WaitingDeparture -> OnFlight
  ExitDelayTicks,                    \* CabinServices -> WaitingNewFlight
  MaxRestarts                        \* bound on resets and resumes

ASSUME MachineConstants ==
  /\ AirborneTicksToLeaveForTheFlight \in Nat \ {0}
  /\ ReadyToPushDelayTicks \in Nat \ {0}
  /\ OnFlightDelayTicks \in Nat \ {0}
  /\ ExitDelayTicks \in Nat \ {0}
  /\ MaxRestarts \in Nat

VARIABLES
  phase,                 \* phase_
  pendingPhase,          \* pendingPhase_, the target of a delayed transition
  pendingOrigin,         \* pendingOrigin_
  ticksRemaining,        \* ticksRemaining_, 0 when no transition is delayed
  lastTransitionOrigin,  \* lastTransitionOrigin_
  airborneTicks,         \* airborneTicks_
  appTouch,              \* appTouchPending_: the phase the touch was accepted
                         \* in, or NoTouch
  onGround,              \* what GSX reads as SIM ON GROUND (environment)
  skyStreak,             \* history: airborne evaluations since the last one
                         \* on the ground, in the phases that count them
  restarts               \* history: resets and resumes so far

machineVars == <<phase, pendingPhase, pendingOrigin, ticksRemaining,
                 lastTransitionOrigin, airborneTicks, appTouch, onGround,
                 skyStreak, restarts>>

NoTouch == -1

(***************************************************************************)
(* A tick that finds a delayed transition expiring applies it first and    *)
(* evaluates the phase it leads to in the same tick.                       *)
(***************************************************************************)
Waiting == ticksRemaining > 1
Expiring == ticksRemaining = 1
Evaluates == ticksRemaining <= 1
Evaluated == IF Expiring THEN pendingPhase ELSE phase
OriginSoFar == IF Expiring THEN pendingOrigin ELSE lastTransitionOrigin

\* The phases without an airborne exit of their own.
HasNoAirborneExitOfItsOwn(p) == WaitingAircraftReady <= p /\ p <= RequestPushback

IsAirborneWithoutAnExitOfItsOwn ==
  HasNoAirborneExitOfItsOwn(Evaluated) /\ ~onGround

(***************************************************************************)
(* The outcomes of an evaluation: no transition, one that is applied at    *)
(* once, and one that waits.                                               *)
(***************************************************************************)
Stay ==
  /\ phase' = Evaluated
  /\ ticksRemaining' = 0
  /\ lastTransitionOrigin' = OriginSoFar
  /\ UNCHANGED <<pendingPhase, pendingOrigin>>

GoAs(next, origin) ==
  /\ phase' = next
  /\ ticksRemaining' = 0
  /\ lastTransitionOrigin' = origin
  /\ UNCHANGED <<pendingPhase, pendingOrigin>>

GoKeepingTheOrigin(next) == GoAs(next, lastTransitionOrigin)
Go(next) == GoAs(next, "Reading")

GoAfter(next, delay) ==
  /\ phase' = Evaluated
  /\ pendingPhase' = next
  /\ pendingOrigin' = "Reading"
  /\ ticksRemaining' = delay
  /\ lastTransitionOrigin' = OriginSoFar

(***************************************************************************)
(* ResolvePilotTouch: every tick spends the touch of the app, whatever it  *)
(* does with it, and adds the one of the aircraft's own switch.            *)
(***************************************************************************)
SpendAppTouch == appTouch' = NoTouch
PilotTouched(smartSwitch) == smartSwitch \/ appTouch # NoTouch

\* Step, while a delayed transition still waits: only the fast rules act.
DelayTick ==
  /\ Waiting
  /\ ticksRemaining' = ticksRemaining - 1
  /\ SpendAppTouch
  /\ UNCHANGED <<phase, pendingPhase, pendingOrigin, lastTransitionOrigin,
                 airborneTicks, onGround, skyStreak, restarts>>

(***************************************************************************)
(* CountTheAirborneTick: the count starts over on any evaluation on the    *)
(* ground and on any transition, and ends the stand phase when it is full. *)
(***************************************************************************)
AirborneTicksSoFar == IF Expiring THEN 0 ELSE airborneTicks

CountTheAirborneTick ==
  \/ /\ AirborneTicksSoFar + 1 < AirborneTicksToLeaveForTheFlight
     /\ airborneTicks' = AirborneTicksSoFar + 1
     /\ Stay
  \/ /\ AirborneTicksSoFar + 1 >= AirborneTicksToLeaveForTheFlight
     /\ airborneTicks' = 0
     /\ Go(OnFlight)

KeepTheAirborneCount == UNCHANGED airborneTicks
StartTheAirborneCountOver == airborneTicks' = 0

NextSkyStreak == IF skyStreak < AirborneTicksToLeaveForTheFlight
                 THEN skyStreak + 1 ELSE skyStreak

AirborneTick ==
  /\ Evaluates
  /\ IsAirborneWithoutAnExitOfItsOwn
  /\ SpendAppTouch
  /\ CountTheAirborneTick
  /\ skyStreak' = NextSkyStreak
  /\ UNCHANGED <<onGround, restarts>>

\* What every other evaluation of phase p has in common.
PhaseTick(p) ==
  /\ Evaluates
  /\ Evaluated = p
  /\ ~IsAirborneWithoutAnExitOfItsOwn
  /\ SpendAppTouch
  /\ StartTheAirborneCountOver
  /\ skyStreak' = 0
  /\ UNCHANGED <<onGround, restarts>>

(***************************************************************************)
(* The transitions the phases return, and their delays.                    *)
(***************************************************************************)
Transitions ==
  {<<WaitingSupportedAircraft, WaitingAircraftReady>>,
   <<WaitingAircraftReady, RepositionAircraft>>,
   <<RepositionAircraft, PlaceGroundEquipment>>,
   <<PlaceGroundEquipment, CallServices>>,
   <<CallServices, WaitingFlightPlan>>,
   <<WaitingFlightPlan, WaitingPowerOn>>,
   <<WaitingPowerOn, CallCatering>>,
   <<CallCatering, RequestFuel>>,
   <<RequestFuel, Loading>>,
   <<Loading, WaitingReadyToPush>>,
   <<WaitingReadyToPush, WaitCatering>>,
   <<WaitCatering, RemoveGroundEquipment>>,
   <<RemoveGroundEquipment, RequestPushback>>,
   <<RequestPushback, WaitingPushbackToStart>>,
   <<RequestPushback, WaitingDeparture>>,
   <<WaitingPushbackToStart, WaitingForEngines>>,
   <<WaitingPushbackToStart, WaitingDeparture>>,
   <<WaitingForEngines, WaitingDeparture>>,
   <<WaitingDeparture, WaitingForEngines>>,
   <<WaitingDeparture, OnFlight>>,
   <<OnFlight, WaitingEngineShutdown>>,
   <<WaitingEngineShutdown, PlaceArrivalGroundEquipment>>,
   <<PlaceArrivalGroundEquipment, RequestDeboarding>>,
   <<RequestDeboarding, Deboarding>>,
   <<Deboarding, CabinServices>>,
   <<CabinServices, WaitingNewFlight>>,
   <<WaitingNewFlight, WaitingSupportedAircraft>>}

DelayTicks(from, next) ==
  CASE from = Loading -> ReadyToPushDelayTicks
    [] from = CabinServices -> ExitDelayTicks
    [] from = WaitingDeparture /\ next = OnFlight -> OnFlightDelayTicks
    [] OTHER -> 0

\* Apply the transition a phase returned, at once or after its delay.
Take(from, next) ==
  IF DelayTicks(from, next) = 0
  THEN Go(next)
  ELSE GoAfter(next, DelayTicks(from, next))

(***************************************************************************)
(* An evaluation that is left open.  Two transitions need the pilot: the   *)
(* one out of WaitingNewFlight, and the unlocked one out of                *)
(* WaitingReadyToPush.                                                     *)
(***************************************************************************)
OpenTick(p) ==
  /\ PhaseTick(p)
  /\ \/ Stay
     \/ \E next \in Phases :
          /\ <<p, next>> \in Transitions
          /\ p # WaitingNewFlight
          /\ Take(p, next)
     \/ \E smartSwitch \in BOOLEAN :
          /\ PilotTouched(smartSwitch)
          /\ \/ /\ p = WaitingNewFlight
                /\ Go(WaitingSupportedAircraft)
             \/ /\ p \in PilotUnlockPhases
                /\ GoAs(WaitCatering, "Pilot")

Tick == DelayTick \/ AirborneTick \/ \E p \in Phases : OpenTick(p)

(***************************************************************************)
(* AcceptPilotTouch of the service: the app sends the phase its screen     *)
(* showed, and a touch for a phase the machine has left is refused.        *)
(***************************************************************************)
AcceptPilotTouch(stamped) ==
  /\ stamped = phase
  /\ stamped \in PilotTouchPhases
  /\ appTouch' = stamped
  /\ UNCHANGED <<phase, pendingPhase, pendingOrigin, ticksRemaining,
                 lastTransitionOrigin, airborneTicks, onGround, skyStreak,
                 restarts>>

\* StandAt: the machine is put in a phase, with nothing waiting.
StandAt(p) ==
  /\ appTouch' = NoTouch
  /\ phase' = p
  /\ airborneTicks' = 0
  /\ pendingPhase' = p
  /\ pendingOrigin' = "Reading"
  /\ lastTransitionOrigin' = "Reading"
  /\ ticksRemaining' = 0

Restarting ==
  /\ restarts < MaxRestarts
  /\ restarts' = restarts + 1
  /\ skyStreak' = 0
  /\ UNCHANGED onGround

\* Reset: a new session, a restarted flow.
Reset == Restarting /\ StandAt(WaitingSupportedAircraft)

\* ResumeFrom a saved checkpoint of phase p.
ResumeFrom(p) == Restarting /\ IsResumablePhase(p) /\ StandAt(p)

\* The aircraft leaves or meets the ground between two ticks.
TakeOffOrLand ==
  /\ onGround' = ~onGround
  /\ UNCHANGED <<phase, pendingPhase, pendingOrigin, ticksRemaining,
                 lastTransitionOrigin, airborneTicks, appTouch, skyStreak,
                 restarts>>

MachineInit ==
  /\ phase = WaitingSupportedAircraft
  /\ pendingPhase = WaitingSupportedAircraft
  /\ pendingOrigin = "Reading"
  /\ lastTransitionOrigin = "Reading"
  /\ ticksRemaining = 0
  /\ airborneTicks = 0
  /\ appTouch = NoTouch
  /\ onGround \in BOOLEAN
  /\ skyStreak = 0
  /\ restarts = 0

MachineNext ==
  \/ Tick
  \/ \E stamped \in Phases : AcceptPilotTouch(stamped)
  \/ Reset
  \/ \E p \in Phases : ResumeFrom(p)
  \/ TakeOffOrLand

(***************************************************************************)
(* What the modules of the phases and of the rules implement: whatever a   *)
(* phase reads and decides, it moves the machine along Transitions only,   *)
(* with the delay that goes with the transition, in a tick that spends the *)
(* touch and counts the airborne ticks (Tick, EvaluateCurrentPhase,        *)
(* TransitionTo).                                                          *)
(***************************************************************************)
MachineSpec == MachineInit /\ [][MachineNext]_machineVars

\* The simulator's one-second event keeps calling Tick while a session runs.
FairMachineSpec == MachineSpec /\ WF_machineVars(Tick)
-----------------------------------------------------------------------------
\* The types of the machine's fields.
MachineTypeOK ==
  /\ phase \in Phases
  /\ pendingPhase \in Phases
  /\ pendingOrigin \in Origins
  /\ lastTransitionOrigin \in Origins
  /\ ticksRemaining \in Nat
  /\ airborneTicks \in Nat
  /\ appTouch \in PilotTouchPhases \cup {NoTouch}
  /\ onGround \in BOOLEAN
  /\ skyStreak \in Nat
  /\ restarts \in Nat

(***************************************************************************)
(* A touch of the app acts in the phase it was accepted for and in no      *)
(* other: while one is pending, the phase the next tick evaluates is that  *)
(* phase, although ticks, delays, resets and resumes come in between       *)
(* (ResolvePilotTouch, StandAt and the stamp the service compares).        *)
(***************************************************************************)
AppTouchActsWhereAccepted ==
  appTouch # NoTouch => ticksRemaining = 0 /\ Evaluated = appTouch

(***************************************************************************)
(* The transition that is reported as unlocked by the pilot is the one     *)
(* into WaitCatering, and the report ends with that phase: neither a       *)
(* delay, a reset nor a resume carries it to another phase.                *)
(***************************************************************************)
PilotOriginBelongsToTheUnlockedGate ==
  lastTransitionOrigin = "Pilot" => phase = WaitCatering

(***************************************************************************)
(* A stand phase is left for the flight only after                         *)
(* AirborneTicksToLeaveForTheFlight evaluations in a row read the aircraft *)
(* airborne: a bump, a landing or a restart in between starts the count    *)
(* over (CountTheAirborneTick, EvaluateCurrentPhase, StandAt).             *)
(***************************************************************************)
LeavesTheStandOnlyWhenLongAirborne ==
  [][(/\ HasNoAirborneExitOfItsOwn(phase)
      /\ phase' = OnFlight
      /\ restarts' = restarts)
       => skyStreak' = AirborneTicksToLeaveForTheFlight]_machineVars

(***************************************************************************)
(* An aircraft that stays airborne does not leave the machine in the stand *)
(* phases for good, whatever the phase it was in waits for.                *)
(***************************************************************************)
AirborneEndsTheStandPhases ==
  <>[](~onGround) => []<>(~HasNoAirborneExitOfItsOwn(phase))

\* A delayed transition is applied in the end.
DelayIsOver == ticksRemaining = 0
DelayedTransitionsAreApplied == []<>DelayIsOver

(***************************************************************************)
(* What the pilot does in the app acts where it was accepted, and is       *)
(* reported of the phase it led to.                                        *)
(***************************************************************************)
PilotActsWhereMeant ==
  AppTouchActsWhereAccepted /\ PilotOriginBelongsToTheUnlockedGate
=============================================================================
