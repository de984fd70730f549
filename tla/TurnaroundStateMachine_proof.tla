-------------------- MODULE TurnaroundStateMachine_proof --------------------
(***************************************************************************)
(* Proofs about the engine of the turnaround, for every length of its      *)
(* delays and of the airborne count.                                       *)
(***************************************************************************)
EXTENDS TurnaroundStateMachine, TLAPS

USE DEF WaitingSupportedAircraft, WaitingAircraftReady, RepositionAircraft,
        PlaceGroundEquipment, CallServices, WaitingFlightPlan, WaitingPowerOn,
        CallCatering, RequestFuel, Loading, WaitingReadyToPush, WaitCatering,
        RemoveGroundEquipment, RequestPushback, WaitingPushbackToStart,
        WaitingForEngines, WaitingDeparture, OnFlight, WaitingEngineShutdown,
        PlaceArrivalGroundEquipment, RequestDeboarding, Deboarding,
        CabinServices, WaitingNewFlight

(***************************************************************************)
(* The inductive invariant.  A delayed transition is one of the three that *)
(* have a delay, it is never the pilot's, and it is applied exactly as it  *)
(* was returned; none of the three phases takes a touch.                   *)
(***************************************************************************)
DelayedTransition ==
  ticksRemaining > 0 =>
    /\ \/ phase = Loading /\ pendingPhase = WaitingReadyToPush
       \/ phase = CabinServices /\ pendingPhase = WaitingNewFlight
       \/ phase = WaitingDeparture /\ pendingPhase = OnFlight
    /\ pendingOrigin = "Reading"

TouchInvariant == appTouch # NoTouch => ticksRemaining = 0 /\ phase = appTouch

AirborneInvariant ==
  /\ airborneTicks < AirborneTicksToLeaveForTheFlight
  /\ airborneTicks <= skyStreak
  /\ skyStreak <= AirborneTicksToLeaveForTheFlight

MachineInv ==
  /\ MachineTypeOK
  /\ DelayedTransition
  /\ TouchInvariant
  /\ PilotOriginBelongsToTheUnlockedGate
  /\ AirborneInvariant
-----------------------------------------------------------------------------
\* What an evaluated phase may do next, and what it leaves behind: Stay, Go,
\* GoAs and GoAfter keep the types, as long as the phase they name is one.
LEMMA EvaluatedIsAPhase ==
  ASSUME MachineTypeOK
  PROVE  Evaluated \in Phases /\ OriginSoFar \in Origins
BY DEF MachineTypeOK, Evaluated, OriginSoFar

\* A transition that waits is one of three, and none starts in a phase that
\* takes a touch of the pilot.
LEMMA DelayedTransitions ==
  ASSUME NEW p \in Phases, NEW next \in Phases,
         <<p, next>> \in Transitions, DelayTicks(p, next) # 0
  PROVE  \/ p = Loading /\ next = WaitingReadyToPush
         \/ p = CabinServices /\ next = WaitingNewFlight
         \/ p = WaitingDeparture /\ next = OnFlight
BY DEF DelayTicks, Transitions, Phases

LEMMA DelaysAreNatural ==
  ASSUME NEW p \in Phases, NEW next \in Phases
  PROVE  DelayTicks(p, next) \in Nat
BY MachineConstants DEF DelayTicks

\* OnFlight is entered from WaitingDeparture, and only after a delay.
LEMMA OnFlightIsEnteredAfterADelay ==
  ASSUME NEW p \in Phases, <<p, OnFlight>> \in Transitions
  PROVE  p = WaitingDeparture /\ DelayTicks(p, OnFlight) # 0
BY MachineConstants DEF Transitions, Phases, DelayTicks

\* The engine starts with nothing pending.
LEMMA InitInvariant == MachineInit => MachineInv
BY MachineConstants
   DEF MachineInit, MachineInv, MachineTypeOK, DelayedTransition,
       TouchInvariant, PilotOriginBelongsToTheUnlockedGate, AirborneInvariant,
       Phases, Origins, NoTouch
-----------------------------------------------------------------------------
(***************************************************************************)
(* Every step of the engine preserves the invariant.                       *)
(***************************************************************************)
LEMMA DelayTickPreserves ==
  ASSUME MachineInv, DelayTick
  PROVE  MachineInv'
BY DEF MachineInv, DelayTick, Waiting, SpendAppTouch, MachineTypeOK, DelayedTransition,
       TouchInvariant, PilotOriginBelongsToTheUnlockedGate, AirborneInvariant,
       NoTouch

LEMMA AirborneTickPreserves ==
  ASSUME MachineInv, AirborneTick
  PROVE  MachineInv'
<1>1. /\ appTouch' = NoTouch
      /\ onGround' = onGround
      /\ restarts' = restarts
      /\ ticksRemaining' = 0
  BY DEF AirborneTick, SpendAppTouch, CountTheAirborneTick, Stay, Go, GoAs
<1>2. AirborneTicksSoFar \in Nat /\ AirborneTicksSoFar <= airborneTicks
  BY DEF AirborneTicksSoFar, MachineInv, MachineTypeOK
<1>3. skyStreak' = NextSkyStreak /\ NextSkyStreak \in Nat
  BY DEF AirborneTick, NextSkyStreak, MachineInv, MachineTypeOK
<1>4. AirborneInvariant' /\ airborneTicks' \in Nat
  BY <1>2, <1>3, MachineConstants
     DEF AirborneTick, CountTheAirborneTick, NextSkyStreak, MachineInv,
         MachineTypeOK, AirborneInvariant
<1>5. CASE Stay
  <2>1. phase' \in Phases /\ lastTransitionOrigin' \in Origins
    BY <1>5, EvaluatedIsAPhase DEF Stay, MachineInv
  <2>2. lastTransitionOrigin' = "Pilot" => phase' = WaitCatering
    BY <1>5 DEF Stay, Evaluated, OriginSoFar, Expiring, MachineInv,
       MachineTypeOK, DelayedTransition, PilotOriginBelongsToTheUnlockedGate
  <2> QED
    BY <1>1, <1>3, <1>4, <1>5, <2>1, <2>2
       DEF MachineInv, MachineTypeOK, DelayedTransition, TouchInvariant, Stay,
           PilotOriginBelongsToTheUnlockedGate, NoTouch
<1>6. CASE Go(OnFlight)
  BY <1>1, <1>3, <1>4, <1>6
     DEF MachineInv, MachineTypeOK, DelayedTransition, TouchInvariant, Go, GoAs,
         PilotOriginBelongsToTheUnlockedGate, NoTouch, Phases, Origins
<1> QED
  BY <1>5, <1>6 DEF AirborneTick, CountTheAirborneTick

\* What PhaseTick fixes of the next state whatever the phase decides.
LEMMA PhaseTickEffects ==
  ASSUME NEW p \in Phases, MachineInv, PhaseTick(p)
  PROVE  /\ AirborneInvariant'
         /\ airborneTicks' \in Nat /\ skyStreak' \in Nat
         /\ appTouch' = NoTouch
         /\ onGround' \in BOOLEAN /\ restarts' \in Nat
BY MachineConstants
   DEF PhaseTick, StartTheAirborneCountOver, SpendAppTouch, MachineInv, MachineTypeOK, AirborneInvariant

\* The outcomes of an evaluation after PhaseTick.
LEMMA StayPreserves ==
  ASSUME NEW p \in Phases, MachineInv, PhaseTick(p), Stay
  PROVE  MachineInv'
<1>1. phase' \in Phases /\ lastTransitionOrigin' \in Origins
  BY EvaluatedIsAPhase DEF Stay, MachineInv
<1>2. lastTransitionOrigin' = "Pilot" => phase' = WaitCatering
  BY DEF Stay, Evaluated, OriginSoFar, Expiring, MachineInv,
         MachineTypeOK, DelayedTransition, PilotOriginBelongsToTheUnlockedGate
<1> QED
  BY <1>1, <1>2, PhaseTickEffects
     DEF Stay, MachineInv, MachineTypeOK, DelayedTransition, TouchInvariant,
         PilotOriginBelongsToTheUnlockedGate, NoTouch

LEMMA GoPreserves ==
  ASSUME NEW p \in Phases, NEW next \in Phases, NEW origin \in Origins,
         MachineInv, PhaseTick(p), GoAs(next, origin),
         origin = "Pilot" => next = WaitCatering
  PROVE  MachineInv'
BY PhaseTickEffects
   DEF GoAs, MachineInv, MachineTypeOK, DelayedTransition, TouchInvariant,
       PilotOriginBelongsToTheUnlockedGate, NoTouch

LEMMA GoAfterPreserves ==
  ASSUME NEW p \in Phases, NEW next \in Phases,
         MachineInv, PhaseTick(p), <<p, next>> \in Transitions,
         DelayTicks(p, next) # 0, GoAfter(next, DelayTicks(p, next))
  PROVE  MachineInv'
<1>1. phase' = p /\ lastTransitionOrigin' \in Origins
  BY EvaluatedIsAPhase DEF GoAfter, PhaseTick, MachineInv
<1>2. lastTransitionOrigin' = "Pilot" => phase' = WaitCatering
  BY DEF GoAfter, Evaluated, OriginSoFar, Expiring, MachineInv,
         MachineTypeOK, DelayedTransition, PilotOriginBelongsToTheUnlockedGate
<1>3. DelayedTransition'
  BY <1>1, DelayedTransitions DEF GoAfter, DelayedTransition
<1> QED
  BY <1>1, <1>2, <1>3, DelaysAreNatural, PhaseTickEffects
     DEF GoAfter, MachineInv, MachineTypeOK, TouchInvariant, Origins,
         PilotOriginBelongsToTheUnlockedGate, NoTouch

LEMMA OpenTickPreserves ==
  ASSUME NEW p \in Phases, MachineInv, OpenTick(p)
  PROVE  MachineInv'
<1>1. PhaseTick(p)
  BY DEF OpenTick
<1>2. CASE Stay
  BY <1>1, <1>2, StayPreserves
<1>3. ASSUME NEW next \in Phases, <<p, next>> \in Transitions, Take(p, next)
      PROVE  MachineInv'
  <2>1. CASE DelayTicks(p, next) = 0
    BY <1>1, <1>3, <2>1, GoPreserves DEF Take, Go, Origins
  <2>2. CASE DelayTicks(p, next) # 0
    BY <1>1, <1>3, <2>2, GoAfterPreserves DEF Take
  <2> QED
    BY <2>1, <2>2
<1>4. CASE p = WaitingNewFlight /\ Go(WaitingSupportedAircraft)
  BY <1>1, <1>4, GoPreserves DEF Go, Origins, Phases
<1>5. CASE p \in PilotUnlockPhases /\ GoAs(WaitCatering, "Pilot")
  BY <1>1, <1>5, GoPreserves DEF Origins, Phases
<1> QED
  BY <1>2, <1>3, <1>4, <1>5 DEF OpenTick

LEMMA StandAtPreserves ==
  ASSUME NEW p \in Phases, MachineInv, Restarting, StandAt(p)
  PROVE  MachineInv'
BY MachineConstants
   DEF MachineInv, Restarting, StandAt, MachineTypeOK, DelayedTransition,
       TouchInvariant, PilotOriginBelongsToTheUnlockedGate, AirborneInvariant,
       Origins, NoTouch

LEMMA AcceptPilotTouchPreserves ==
  ASSUME NEW p \in Phases, MachineInv, AcceptPilotTouch(p)
  PROVE  MachineInv'
BY DEF MachineInv, AcceptPilotTouch, MachineTypeOK, DelayedTransition,
       TouchInvariant, PilotOriginBelongsToTheUnlockedGate, AirborneInvariant,
       PilotTouchPhases, NoTouch

LEMMA InvariantIsPreserved ==
  MachineInv /\ [MachineNext]_machineVars => MachineInv'
<1> SUFFICES ASSUME MachineInv, [MachineNext]_machineVars
             PROVE  MachineInv'
  OBVIOUS
<1>1. CASE DelayTick
  BY <1>1, DelayTickPreserves
<1>2. CASE AirborneTick
  BY <1>2, AirborneTickPreserves
<1>3. CASE \E p \in Phases : OpenTick(p)
  BY <1>3, OpenTickPreserves
<1>4. CASE \E stamped \in Phases : AcceptPilotTouch(stamped)
  BY <1>4, AcceptPilotTouchPreserves
<1>5. CASE Reset
  BY <1>5, StandAtPreserves DEF Reset, Phases
<1>6. CASE \E p \in Phases : ResumeFrom(p)
  BY <1>6, StandAtPreserves DEF ResumeFrom
<1>7. CASE TakeOffOrLand
  BY <1>7 DEF MachineInv, TakeOffOrLand, MachineTypeOK, DelayedTransition,
     TouchInvariant, PilotOriginBelongsToTheUnlockedGate, AirborneInvariant
<1>8. CASE UNCHANGED machineVars
  BY <1>8 DEF MachineInv, machineVars, MachineTypeOK, DelayedTransition,
     TouchInvariant, PilotOriginBelongsToTheUnlockedGate, AirborneInvariant
<1> QED
  BY <1>1, <1>2, <1>3, <1>4, <1>5, <1>6, <1>7, <1>8 DEF MachineNext, Tick

THEOREM InvariantHolds == MachineSpec => []MachineInv
BY InitInvariant, InvariantIsPreserved, PTL DEF MachineSpec
-----------------------------------------------------------------------------
\* The fields of the machine keep their types.
THEOREM TypeCorrect == MachineSpec => []MachineTypeOK
<1>1. MachineInv => MachineTypeOK
  BY DEF MachineInv
<1> QED
  BY <1>1, InvariantHolds, PTL

\* A touch accepted for one phase never acts in another, whatever delays,
\* resets and resumes come in between.
THEOREM TouchSafe == MachineSpec => []AppTouchActsWhereAccepted
<1>1. MachineInv => AppTouchActsWhereAccepted
  BY DEF MachineInv, TouchInvariant, AppTouchActsWhereAccepted, Evaluated,
     Expiring
<1> QED
  BY <1>1, InvariantHolds, PTL

\* The report that the pilot unlocked a gate stays with WaitCatering.
THEOREM PilotOriginSafe == MachineSpec => []PilotOriginBelongsToTheUnlockedGate
<1>1. MachineInv => PilotOriginBelongsToTheUnlockedGate
  BY DEF MachineInv
<1> QED
  BY <1>1, InvariantHolds, PTL

\* A step of the engine into OnFlight from a stand phase is the airborne tick
\* that fills the count.
LEMMA StandIsLeftWithAFullCount ==
  ASSUME MachineInv, [MachineNext]_machineVars,
         HasNoAirborneExitOfItsOwn(phase), phase' = OnFlight,
         restarts' = restarts
  PROVE  skyStreak' = AirborneTicksToLeaveForTheFlight
<1>1. phase \in Phases /\ phase # OnFlight
  BY DEF MachineInv, MachineTypeOK, HasNoAirborneExitOfItsOwn
<1>2. CASE AirborneTick
  <2>1. Evaluated # OnFlight
    BY <1>2 DEF AirborneTick, IsAirborneWithoutAnExitOfItsOwn,
       HasNoAirborneExitOfItsOwn
  <2>2. AirborneTicksSoFar + 1 >= AirborneTicksToLeaveForTheFlight
    BY <1>2, <2>1 DEF AirborneTick, CountTheAirborneTick, Stay
  <2>3. AirborneTicksSoFar <= skyStreak /\ AirborneTicksSoFar \in Nat
    BY DEF AirborneTicksSoFar, MachineInv, MachineTypeOK, AirborneInvariant
  <2> QED
    BY <1>2, <2>2, <2>3, MachineConstants
       DEF AirborneTick, NextSkyStreak, MachineInv, MachineTypeOK,
           AirborneInvariant
<1>3. ASSUME NEW p \in Phases, OpenTick(p)
      PROVE  FALSE
  <2>1. p # WaitingDeparture /\ p # OnFlight
    BY <1>3 DEF OpenTick, PhaseTick, Evaluated, Expiring, MachineInv,
       MachineTypeOK, DelayedTransition, HasNoAirborneExitOfItsOwn
  <2>2. phase' # p
    BY <2>1
  <2>3. ~Stay
    BY <1>3, <2>2 DEF OpenTick, PhaseTick, Stay
  <2>4. PICK next \in Phases : <<p, next>> \in Transitions /\ Take(p, next)
    BY <1>3, <2>3 DEF OpenTick, Go, GoAs
  <2> QED
    BY <1>3, <2>1, <2>2, <2>4, OnFlightIsEnteredAfterADelay
       DEF Take, Go, GoAs, GoAfter, OpenTick, PhaseTick
<1> QED
  BY <1>1, <1>2, <1>3
     DEF MachineNext, Tick, DelayTick, AcceptPilotTouch, Reset, ResumeFrom,
         Restarting, TakeOffOrLand, MachineInv, MachineTypeOK, machineVars

\* No stand phase is left for the flight before the airborne count is full.
THEOREM AirborneExitIsLong == MachineSpec => LeavesTheStandOnlyWhenLongAirborne
<1>1. MachineInv /\ [MachineNext]_machineVars
        => [(/\ HasNoAirborneExitOfItsOwn(phase)
             /\ phase' = OnFlight
             /\ restarts' = restarts)
              => skyStreak' = AirborneTicksToLeaveForTheFlight]_machineVars
  BY StandIsLeftWithAFullCount
<1> QED
  BY <1>1, InvariantHolds, PTL
     DEF MachineSpec, LeavesTheStandOnlyWhenLongAirborne
\* A touch of the app acts where it was accepted, and is reported there.
THEOREM PilotActsSafely == MachineSpec => []PilotActsWhereMeant
BY TouchSafe, PilotOriginSafe, PTL DEF PilotActsWhereMeant
=============================================================================
