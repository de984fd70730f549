---------------------- MODULE DepartureAndArrival_proof ----------------------
(***************************************************************************)
(* From the loaded aircraft to the next flight, the phases implement the   *)
(* machine, keep their types, and do nothing twice: for any aircraft, any  *)
(* number of cabin services, and any number of relaunches and of restarts  *)
(* of GSX.                                                                 *)
(***************************************************************************)
EXTENDS DepartureAndArrival, TurnaroundStateMachine_proof, WellFoundedInduction

USE DEF WaitingSupportedAircraft, WaitingAircraftReady, Loading,
        WaitingReadyToPush, WaitCatering, RemoveGroundEquipment,
        RequestPushback, WaitingPushbackToStart, WaitingForEngines,
        WaitingDeparture, OnFlight, WaitingEngineShutdown,
        PlaceArrivalGroundEquipment, RequestDeboarding, Deboarding,
        CabinServices, WaitingNewFlight, FlightPhases, PushPhases

-----------------------------------------------------------------------------
(***************************************************************************)
(* Every tick of these phases stays, takes a transition the machine has,   *)
(* or leaves one of the two that wait for the pilot after a touch.         *)
(***************************************************************************)
LEMMA FlightTransitions ==
  /\ <<WaitingReadyToPush, WaitCatering>> \in Transitions
  /\ <<WaitCatering, RemoveGroundEquipment>> \in Transitions
  /\ <<RemoveGroundEquipment, RequestPushback>> \in Transitions
  /\ <<RequestPushback, WaitingPushbackToStart>> \in Transitions
  /\ <<RequestPushback, WaitingDeparture>> \in Transitions
  /\ <<WaitingPushbackToStart, WaitingForEngines>> \in Transitions
  /\ <<WaitingPushbackToStart, WaitingDeparture>> \in Transitions
  /\ <<WaitingForEngines, WaitingDeparture>> \in Transitions
  /\ <<WaitingDeparture, WaitingForEngines>> \in Transitions
  /\ <<WaitingDeparture, OnFlight>> \in Transitions
  /\ <<OnFlight, WaitingEngineShutdown>> \in Transitions
  /\ <<WaitingEngineShutdown, PlaceArrivalGroundEquipment>> \in Transitions
  /\ <<PlaceArrivalGroundEquipment, RequestDeboarding>> \in Transitions
  /\ <<RequestDeboarding, Deboarding>> \in Transitions
  /\ <<Deboarding, CabinServices>> \in Transitions
  /\ <<CabinServices, WaitingNewFlight>> \in Transitions
BY DEF Transitions

LEMMA FlightPhasesArePhases == FlightPhases \subseteq Phases
BY DEF Phases

\* A transition of these phases is applied at once but for two.
LEMMA GoIsAnOpenTick ==
  ASSUME NEW p \in FlightPhases \ {WaitingNewFlight, CabinServices},
         NEW next \in Phases \ {OnFlight},
         <<p, next>> \in Transitions, PhaseTick(p), Go(next)
  PROVE  OpenTick(p)
<1>1. DelayTicks(p, next) = 0
  BY DEF DelayTicks
<1> QED
  BY <1>1 DEF OpenTick, Take

LEMMA GoAfterIsAnOpenTick ==
  ASSUME NEW p, NEW next, PhaseTick(p),
         \/ p = WaitingDeparture /\ next = OnFlight
            /\ GoAfter(next, OnFlightDelayTicks)
         \/ p = CabinServices /\ next = WaitingNewFlight
            /\ GoAfter(next, ExitDelayTicks)
  PROVE  OpenTick(p)
<1>1. next \in Phases /\ <<p, next>> \in Transitions
  BY DEF Phases, Transitions
<1>2. p = WaitingDeparture => DelayTicks(p, next) = OnFlightDelayTicks
  BY DEF DelayTicks
<1>3. p = CabinServices => DelayTicks(p, next) = ExitDelayTicks
  BY DEF DelayTicks
<1> QED
  BY <1>1, <1>2, <1>3, MachineConstants DEF OpenTick, Take

\* The next service is one of those that are left.
LEMMA LeastElement ==
  ASSUME NEW some, some \subseteq Nat, some # {}
  PROVE  \E s \in some : \A other \in some : s <= other
<1> DEFINE less == OpToRel(<, Nat)
<1>1. PICK s \in some : \A other \in some : <<other, s>> \notin less
  BY NatLessThanWellFounded, WFMin
<1>2. ASSUME NEW other \in some, other < s
      PROVE  FALSE
  <2>1. <<other, s>> \in less
    BY <1>2 DEF OpToRel
  <2> QED
    BY <1>1, <2>1
<1>3. \A other \in some : s <= other
  BY <1>2
<1> QED
  BY <1>3

LEMMA NextServiceIsLeft ==
  ASSUME data.requested \subseteq Services, ToDispatch # {}
  PROVE  NextService \in ToDispatch /\ NextService \in Services
<1>1. ToDispatch \subseteq Nat /\ ToDispatch \subseteq Services
  BY DepartureConstants DEF ToDispatch, Services
<1>2. \E s \in ToDispatch : \A other \in ToDispatch : s <= other
  BY <1>1, LeastElement
<1>3. NextService \in ToDispatch
  BY <1>2 DEF NextService
<1> QED
  BY <1>1, <1>3

\* What the body of a phase comes down to.
Outcome(p) ==
  \/ Stay
  \/ \E next \in Phases \ {OnFlight} :
       /\ p \notin {WaitingNewFlight, CabinServices}
       /\ <<p, next>> \in Transitions
       /\ Go(next)
  \/ p = WaitingDeparture /\ GoAfter(OnFlight, OnFlightDelayTicks)
  \/ p = CabinServices /\ GoAfter(WaitingNewFlight, ExitDelayTicks)
  \/ \E smartSwitch \in BOOLEAN :
       /\ PilotTouched(smartSwitch)
       /\ \/ p = WaitingNewFlight /\ Go(WaitingSupportedAircraft)
          \/ p = WaitingReadyToPush /\ GoAs(WaitCatering, "Pilot")

LEMMA OutcomesAreOpen ==
  ASSUME NEW p \in FlightPhases, PhaseTick(p), Outcome(p)
  PROVE  OpenTick(p)
<1>1. p \in Phases
  BY FlightPhasesArePhases
<1>2. CASE Stay
  BY <1>2 DEF OpenTick
<1>3. ASSUME NEW next \in Phases \ {OnFlight}, <<p, next>> \in Transitions,
             p \notin {WaitingNewFlight, CabinServices}, Go(next)
      PROVE  OpenTick(p)
  BY <1>3, GoIsAnOpenTick
<1>4. CASE \/ p = WaitingDeparture /\ GoAfter(OnFlight, OnFlightDelayTicks)
           \/ p = CabinServices /\ GoAfter(WaitingNewFlight, ExitDelayTicks)
  BY <1>4, GoAfterIsAnOpenTick
<1>5. ASSUME NEW smartSwitch \in BOOLEAN, PilotTouched(smartSwitch),
             \/ p = WaitingNewFlight /\ Go(WaitingSupportedAircraft)
             \/ p = WaitingReadyToPush /\ GoAs(WaitCatering, "Pilot")
      PROVE  OpenTick(p)
  BY <1>5 DEF OpenTick, PilotUnlockPhases
<1> QED
  BY <1>2, <1>3, <1>4, <1>5 DEF Outcome

LEMMA BodiesHaveOutcomes ==
  ASSUME NEW p \in FlightPhases, PhaseBody(p)
  PROVE  Outcome(p)
<1> DEFINE Leaves(next) == Stay \/ Go(next)
<1>1. {WaitCatering, RemoveGroundEquipment, RequestPushback,
       WaitingPushbackToStart, WaitingForEngines, WaitingDeparture,
       WaitingEngineShutdown, PlaceArrivalGroundEquipment, RequestDeboarding,
       Deboarding, CabinServices} \subseteq Phases \ {OnFlight}
  BY DEF Phases
<1>2. CASE p = WaitingReadyToPush
  <2>1. PICK ready, open, switch \in BOOLEAN : ReadyToPushTick(ready, open, switch)
    BY <1>2 DEF PhaseBody
  <2>2. \/ Stay \/ Go(WaitCatering)
        \/ PilotTouched(switch) /\ GoAs(WaitCatering, "Pilot")
    BY <2>1 DEF ReadyToPushTick, StayUncounted, GoWith
  <2> QED
    BY <1>1, <1>2, <2>2, FlightTransitions DEF Outcome
<1>3. CASE p = WaitCatering
  <2>1. Leaves(RemoveGroundEquipment)
    BY <1>3 DEF PhaseBody, WaitCateringTick, StayWith, GoWith
  <2> QED
    BY <1>1, <1>3, <2>1, FlightTransitions DEF Outcome
<1>4. CASE p = RemoveGroundEquipment
  <2>1. PICK own, brake \in BOOLEAN, power \in PowerReadings :
          RemoveEquipmentTick(own, brake, power)
    BY <1>4 DEF PhaseBody
  <2>2. Leaves(RequestPushback)
    BY <2>1 DEF RemoveEquipmentTick, StayWith, GoWith
  <2> QED
    BY <1>1, <1>4, <2>2, FlightTransitions DEF Outcome
<1>5. CASE p = RequestPushback
  <2>1. Leaves(WaitingPushbackToStart) \/ Leaves(WaitingDeparture)
    BY <1>5 DEF PhaseBody, PushbackTick, StayWith, GoWith
  <2> QED
    BY <1>1, <1>5, <2>1, FlightTransitions DEF Outcome
<1>6. CASE p = WaitingPushbackToStart
  <2>1. Leaves(WaitingForEngines) \/ Leaves(WaitingDeparture)
    BY <1>6 DEF PhaseBody, PushbackToStartTick, StayUncounted, GoWith
  <2> QED
    BY <1>1, <1>6, <2>1, FlightTransitions DEF Outcome
<1>7. CASE p = WaitingForEngines
  <2>1. Leaves(WaitingDeparture)
    BY <1>7 DEF PhaseBody, EnginesTick, StayUncounted, GoWith
  <2> QED
    BY <1>1, <1>7, <2>1, FlightTransitions DEF Outcome
<1>8. CASE p = WaitingDeparture
  <2>1. Leaves(WaitingForEngines) \/ GoAfter(OnFlight, OnFlightDelayTicks)
    BY <1>8 DEF PhaseBody, DepartureTick, StayUncounted, GoWith, TakesOff
  <2> QED
    BY <1>1, <1>8, <2>1, FlightTransitions DEF Outcome
<1>9. CASE p = OnFlight
  <2>1. Leaves(WaitingEngineShutdown)
    BY <1>9 DEF PhaseBody, OnFlightTick, StayUncounted, GoWith
  <2> QED
    BY <1>1, <1>9, <2>1, FlightTransitions DEF Outcome
<1>10. CASE p = WaitingEngineShutdown
  <2>1. Leaves(PlaceArrivalGroundEquipment)
    BY <1>10 DEF PhaseBody, EngineShutdownTick, StayUncounted, GoWith
  <2> QED
    BY <1>1, <1>10, <2>1, FlightTransitions DEF Outcome
<1>11. CASE p = PlaceArrivalGroundEquipment
  <2>1. PICK power \in PowerReadings, chocks \in BOOLEAN :
          PlaceEquipmentTick(power, chocks)
    BY <1>11 DEF PhaseBody
  <2>2. Leaves(RequestDeboarding)
    BY <2>1 DEF PlaceEquipmentTick, StayWith, GoWith
  <2> QED
    BY <1>1, <1>11, <2>2, FlightTransitions DEF Outcome
<1>12. CASE p = RequestDeboarding
  <2>1. Leaves(Deboarding)
    BY <1>12 DEF PhaseBody, RequestDeboardingTick, StayWith, GoWith
  <2> QED
    BY <1>1, <1>12, <2>1, FlightTransitions DEF Outcome
<1>13. CASE p = Deboarding
  <2>1. Leaves(CabinServices)
    BY <1>13 DEF PhaseBody, DeboardingTick, StayUncounted, GoWith
  <2> QED
    BY <1>1, <1>13, <2>1, FlightTransitions DEF Outcome
<1>14. CASE p = CabinServices
  <2>1. PICK working \in SUBSET Services : CabinServicesTick(working)
    BY <1>14 DEF PhaseBody
  <2>2. Stay \/ GoAfter(WaitingNewFlight, ExitDelayTicks)
    BY <2>1, Zenon DEF CabinServicesTick, StayWith
  <2> QED
    BY <1>14, <2>2 DEF Outcome
<1>15. CASE p = WaitingNewFlight
  <2>1. PICK switch \in BOOLEAN : NewFlightTick(switch)
    BY <1>15 DEF PhaseBody
  <2>2. Stay \/ (PilotTouched(switch) /\ Go(WaitingSupportedAircraft))
    BY <2>1 DEF NewFlightTick, StayUncounted, GoWith
  <2> QED
    BY <1>15, <2>2 DEF Outcome
<1> QED
  BY <1>2, <1>3, <1>4, <1>5, <1>6, <1>7, <1>8, <1>9, <1>10, <1>11, <1>12,
     <1>13, <1>14, <1>15

LEMMA FlightStepsAreMachineSteps ==
  ASSUME [Next]_vars
  PROVE  [MachineNext]_machineVars
<1>1. CASE EngineTick
  BY <1>1 DEF EngineTick, MachineNext, Tick
<1>2. ASSUME NEW p \in FlightPhases, FlightTick(p)
      PROVE  MachineNext
  <2>1. OpenTick(p)
    BY <1>2, BodiesHaveOutcomes, OutcomesAreOpen DEF FlightTick
  <2> QED
    BY <2>1, FlightPhasesArePhases DEF MachineNext, Tick
<1>3. CASE Relaunch
  <2>1. phase \in Phases
    BY <1>3, DepartureConstants, FlightPhasesArePhases DEF Relaunch
  <2> QED
    BY <1>3, <2>1 DEF Relaunch, MachineNext
<1>4. CASE RestartFlow
  BY <1>4 DEF RestartFlow, MachineNext
<1>5. CASE Environment
  BY <1>5 DEF Environment, GsxHears, GsxMisses, Gsx, GsxPushes,
     EnginesConfirmedElsewhere, GsxDeboards, GsxMovesTheGpu, DeiceStartsOrEnds,
     GsxRestarts, ParkOrStart
<1>6. CASE (\E p \in Phases : AcceptPilotTouch(p)) \/ TakeOffOrLand
  BY <1>6 DEF MachineNext
<1>7. CASE UNCHANGED vars
  BY <1>7 DEF vars
<1> QED
  BY <1>1, <1>2, <1>3, <1>4, <1>5, <1>6, <1>7 DEF Next

\* What the phases from the loaded aircraft to the next flight decide is a
\* choice the machine leaves open.
THEOREM FlightImplementsTheMachine == Spec => MachineSpec
<1>1. Init => MachineInit
  BY DEF Init
<1>2. [Next]_vars => [MachineNext]_machineVars
  BY FlightStepsAreMachineSteps
<1> QED
  BY <1>1, <1>2, PTL DEF Spec, MachineSpec
-----------------------------------------------------------------------------
(***************************************************************************)
(* The types, and that nothing is done twice.  What was asked for is not   *)
(* asked for again because the data say so, which a relaunch restores; the *)
(* counts are those of the phase they belong to.                           *)
(***************************************************************************)
FlightData ==
  [ticks : 0 .. TickBound, intervals : Nat, chocksOut : BOOLEAN,
   dismissed : BOOLEAN, pushAsked : BOOLEAN, pushPending : BOOLEAN,
   pushLost : BOOLEAN, interrupted : BOOLEAN, resumed : BOOLEAN,
   sent : BOOLEAN, chocksIn : BOOLEAN, gpuAsked : BOOLEAN,
   gpuTicks : 0 .. ConfirmationGiveUpTicks,
   equipTicks : 0 .. EquipmentGiveUpTicks - 1, deboardAsked : BOOLEAN,
   baselined : BOOLEAN,
   asked : SUBSET Services, requested : SUBSET Services, seen : SUBSET Services]

Histories == [power : Nat, asks : [Services -> Nat], dropped : BOOLEAN, resumes : Nat]

FlightTypes ==
  /\ data \in FlightData
  /\ craft \in Crafts
  /\ parked \in BOOLEAN
  /\ menu \subseteq Asks
  /\ hist \in Histories

AskedOnce ==
  /\ hist.power <= 1
  /\ hist.power # 0 => phase = PlaceArrivalGroundEquipment /\ data.gpuAsked
  /\ \A s \in Services :
       /\ hist.asks[s] <= 1
       /\ hist.asks[s] # 0 => phase = CabinServices /\ s \in data.asked
  /\ hist.resumes <= 1
  /\ hist.resumes # 0 =>
       phase \in {WaitingForEngines, WaitingDeparture} /\ data.resumed

FlightInv == FlightTypes /\ AskedOnce

\* Nothing of what is counted has been done.
Quiet(h) ==
  h.power = 0 /\ h.resumes = 0 /\ \A s \in Services : h.asks[s] = 0

LEMMA FreshIsTyped ==
  /\ FreshData \in FlightData
  /\ NoHistory \in Histories /\ Quiet(NoHistory)
<1>1. /\ 0 \in 0 .. TickBound /\ 0 \in 0 .. ConfirmationGiveUpTicks
      /\ 0 \in 0 .. EquipmentGiveUpTicks - 1
  BY DepartureConstants
<1>2. FreshData \in FlightData
  BY <1>1 DEF FreshData, FlightData
<1>3. NoHistory \in Histories /\ Quiet(NoHistory)
  BY DEF NoHistory, Histories, Quiet
<1> QED
  BY <1>2, <1>3

\* What a transition keeps of the data.
LEMMA KeptIsTyped ==
  ASSUME NEW d \in FlightData, NEW next
  PROVE  /\ Kept(next, d) \in FlightData
         /\ next \in {WaitingForEngines, WaitingDeparture} =>
              Kept(next, d).resumed = d.resumed
<1>1. FreshData \in FlightData /\ 0 \in 0 .. TickBound
  BY FreshIsTyped, DepartureConstants
<1>2. CASE next \in {RequestPushback, WaitingPushbackToStart}
  <2>1. Kept(next, d) = [FreshData EXCEPT !.pushLost = d.pushLost,
                                          !.pushPending = d.pushPending]
    BY <1>2 DEF Kept
  <2>2. d.pushLost \in BOOLEAN /\ d.pushPending \in BOOLEAN
    BY DEF FlightData
  <2>3. Kept(next, d) \in FlightData
    BY <1>1, <2>1, <2>2 DEF FlightData
  <2> QED
    BY <1>2, <2>3
<1>3. CASE next \in {WaitingForEngines, WaitingDeparture}
  <2>1. Kept(next, d) = [FreshData EXCEPT !.resumed = d.resumed]
    BY <1>3 DEF Kept
  <2> QED
    BY <1>1, <1>3, <2>1 DEF FlightData
<1>4. CASE next \in {WaitCatering, RemoveGroundEquipment}
  <2>1. Kept(next, d) = [d EXCEPT !.ticks = 0]
    BY <1>4 DEF Kept
  <2> QED
    BY <1>1, <1>4, <2>1 DEF FlightData
<1>5. CASE next \notin {RequestPushback, WaitingPushbackToStart, WaitingForEngines,
                      WaitingDeparture, WaitCatering, RemoveGroundEquipment}
  <2>1. Kept(next, d) = FreshData
    BY <1>5 DEF Kept
  <2> QED
    BY <1>1, <1>5, <2>1
<1> QED
  BY <1>2, <1>3, <1>4, <1>5

\* What a tick that stays keeps.
LEMMA StayIsTyped ==
  ASSUME FlightTypes, NEW d \in FlightData, StayWith(d) \/ StayUncounted(d)
  PROVE  /\ data' \in FlightData /\ phase' = Evaluated
         /\ data'.gpuAsked = d.gpuAsked /\ data'.asked = d.asked
         /\ data'.resumed = d.resumed
<1>1. CASE StayWith(d)
  <2> DEFINE n == Counted(data.ticks)
  <2>1. n \in 0 .. TickBound
    BY DepartureConstants DEF FlightTypes, FlightData, Counted
  <2>2. data' = [d EXCEPT !.ticks = n] /\ phase' = Evaluated
    BY <1>1 DEF StayWith, Stay
  <2> HIDE DEF n
  <2> QED
    BY <2>1, <2>2 DEF FlightData
<1>2. CASE StayUncounted(d)
  BY <1>2 DEF StayUncounted, Stay
<1> QED
  BY <1>1, <1>2

LEMMA GoIsTyped ==
  ASSUME NEW d \in FlightData, NEW next, GoWith(next, d)
  PROVE  /\ data' \in FlightData /\ phase' = next
         /\ next \in {WaitingForEngines, WaitingDeparture} =>
              data'.resumed = d.resumed
BY KeptIsTyped DEF GoWith, Go, GoAs

LEMMA AskIsTyped ==
  ASSUME FlightTypes, NEW what, what \subseteq Asks, Ask(what)
  PROVE  menu' \subseteq Asks
BY DEF Ask, FlightTypes

\* The phases something is counted in, and how the counts are forgotten.
CountingPhases == {WaitingForEngines, WaitingDeparture,
                   PlaceArrivalGroundEquipment, CabinServices}

LEMMA QuietElsewhere ==
  ASSUME FlightInv, phase \notin CountingPhases
  PROVE  Quiet(hist)
BY DEF FlightInv, FlightTypes, Histories, AskedOnce, CountingPhases, Quiet

LEMMA QuietIsOnce ==
  ASSUME Quiet(hist')
  PROVE  AskedOnce'
BY DEF Quiet, AskedOnce

LEMMA HistoryIsKept ==
  ASSUME FlightInv, KeepHistory,
         phase \notin CountingPhases \/ (phase' # phase /\ phase' \notin PushPhases)
  PROVE  hist' \in Histories /\ Quiet(hist')
<1>1. hist \in Histories
  BY DEF FlightInv, FlightTypes
<1>2. CASE hist' = NoHistory
  BY <1>2, FreshIsTyped
<1>3. CASE hist' = hist /\ hist' # NoHistory
  <2>1. phase \notin CountingPhases
    BY <1>3 DEF KeepHistory
  <2> QED
    BY <1>1, <1>3, <2>1, QuietElsewhere
<1> QED
  BY <1>2, <1>3 DEF KeepHistory

\* The phase a tick evaluates is the one the machine is in, unless a delayed
\* transition expires; then that phase is left.
LEMMA EvaluatedHere ==
  ASSUME MachineInv
  PROVE  /\ \/ Evaluated = phase
            \/ phase = Loading /\ Evaluated = WaitingReadyToPush
            \/ phase = CabinServices /\ Evaluated = WaitingNewFlight
            \/ phase = WaitingDeparture /\ Evaluated = OnFlight
         /\ Evaluated \in CountingPhases => Evaluated = phase
BY DEF MachineInv, DelayedTransition, Evaluated, Expiring, CountingPhases

LEMMA TickIsTyped ==
  ASSUME FlightTypes, NEW d \in FlightData,
         StayWith(d) \/ StayUncounted(d) \/ \E next : GoWith(next, d)
  PROVE  data' \in FlightData
BY StayIsTyped, GoIsTyped

-----------------------------------------------------------------------------
\* What a tick of these phases has to give.
Typed == data' \in FlightData /\ menu' \subseteq Asks
Silent == Typed /\ hist' \in Histories /\ Quiet(hist')

\* Where the phases that a delayed transition leads to go.
LEMMA PhasesBehindADelay ==
  ASSUME NEW p \in {WaitingReadyToPush, WaitingNewFlight, OnFlight}, NEW next,
         <<p, next>> \in Transitions
  PROVE  next \in {WaitCatering, WaitingSupportedAircraft, WaitingEngineShutdown}
BY DEF Transitions, RepositionAircraft, PlaceGroundEquipment, CallServices,
   WaitingFlightPlan, WaitingPowerOn, CallCatering, RequestFuel

\* A tick of a phase in which nothing is counted, and its asks.
LEMMA QuietTick ==
  ASSUME FlightInv, MachineInv, NEW p \in FlightPhases \ CountingPhases,
         Evaluated = p,
         phase' = p \/ <<p, phase'>> \in Transitions,
         KeepHistory
  PROVE  hist' \in Histories /\ Quiet(hist')
<1>1. CASE Evaluated = phase
  BY <1>1, HistoryIsKept
<1>2. CASE Evaluated # phase
  <2>1. /\ phase \in {Loading, CabinServices, WaitingDeparture}
        /\ p \in {WaitingReadyToPush, WaitingNewFlight, OnFlight}
    BY <1>2, EvaluatedHere
  <2>2. phase' \in {p, WaitCatering, WaitingSupportedAircraft, WaitingEngineShutdown}
    BY <2>1, PhasesBehindADelay
  <2> QED
    BY <2>1, <2>2, HistoryIsKept
<1> QED
  BY <1>1, <1>2

LEMMA GateTicksAreSilent ==
  ASSUME FlightInv, MachineInv, NEW p \in {WaitingReadyToPush, WaitCatering},
         Evaluated = p, PhaseBody(p)
  PROVE  Silent
<1>1. data \in FlightData /\ FlightTypes
  BY DEF FlightInv, FlightTypes
<1>2. p \in FlightPhases \ CountingPhases
  BY DEF CountingPhases
<1>3. <<WaitingReadyToPush, WaitCatering>> \in Transitions
      /\ <<WaitCatering, RemoveGroundEquipment>> \in Transitions
  BY FlightTransitions
<1>4. CASE p = WaitingReadyToPush
  <2>1. PICK ready, open, switch \in BOOLEAN : ReadyToPushTick(ready, open, switch)
    BY <1>4 DEF PhaseBody
  <2>2. \/ StayUncounted(data)
        \/ phase' = WaitCatering /\ data' = Kept(WaitCatering, data)
    BY <2>1 DEF ReadyToPushTick, GoWith, Go, GoAs
  <2>3. data' \in FlightData
    BY <1>1, <2>2, TickIsTyped, KeptIsTyped
  <2>4. phase' \in {p, WaitCatering}
    BY <1>4, <2>2 DEF StayUncounted, Stay
  <2>5. Ask({}) /\ KeepHistory
    BY <2>1 DEF ReadyToPushTick, NothingElse
  <2> QED
    BY <1>1, <1>2, <1>3, <1>4, <2>3, <2>4, <2>5, AskIsTyped, QuietTick
       DEF Silent, Typed
<1>5. CASE p = WaitCatering
  <2>1. PICK inProgress \in BOOLEAN : WaitCateringTick(inProgress)
    BY <1>5 DEF PhaseBody
  <2> DEFINE due == TickCondition(WaitTicks)
             d == [data EXCEPT !.intervals = IF due THEN @ + 1 ELSE @]
  <2>2. d \in FlightData
    BY <1>1 DEF FlightData
  <2>3. GoWith(RemoveGroundEquipment, data) \/ StayWith(d)
    BY <2>1 DEF WaitCateringTick
  <2> HIDE DEF d
  <2>4. data' \in FlightData
    BY <1>1, <2>2, <2>3, TickIsTyped
  <2>5. phase' \in {p, RemoveGroundEquipment}
    BY <1>5, <2>3 DEF StayWith, Stay, GoWith, Go, GoAs
  <2>6. Ask({}) /\ KeepHistory
    BY <2>1 DEF WaitCateringTick, NothingElse
  <2> QED
    BY <1>1, <1>2, <1>3, <1>5, <2>4, <2>5, <2>6, AskIsTyped, QuietTick
       DEF Silent, Typed
<1> QED
  BY <1>4, <1>5

LEMMA RemovalTicksAreSilent ==
  ASSUME FlightInv, MachineInv, Evaluated = RemoveGroundEquipment,
         PhaseBody(RemoveGroundEquipment)
  PROVE  Silent
<1>1. data \in FlightData /\ FlightTypes
  BY DEF FlightInv, FlightTypes
<1>2. PICK own, brake \in BOOLEAN, power \in PowerReadings :
        RemoveEquipmentTick(own, brake, power)
  BY DEF PhaseBody
<1> DEFINE d == [data EXCEPT !.chocksOut = @ \/ "chocks" \in craft.wish]
           e == [d EXCEPT !.dismissed = TRUE]
<1>3. d \in FlightData
  BY <1>1 DEF FlightData
<1>4. e \in FlightData
  BY <1>3 DEF FlightData
<1>5. \/ StayWith(data) \/ StayWith(d) \/ StayWith(e)
      \/ GoWith(RequestPushback, d)
  BY <1>2, Zenon DEF RemoveEquipmentTick
<1>6. (Ask({}) \/ Ask({"ToggleGpu"})) /\ KeepHistory
  BY <1>2, Zenon DEF RemoveEquipmentTick
<1> HIDE DEF d, e
<1>7. data' \in FlightData
  BY <1>1, <1>3, <1>4, <1>5, TickIsTyped
<1>8. phase' \in {RemoveGroundEquipment, RequestPushback}
  BY <1>5 DEF StayWith, Stay, GoWith, Go, GoAs
<1>9. menu' \subseteq Asks
  <2>1. {} \subseteq Asks /\ {"ToggleGpu"} \subseteq Asks
    BY DEF Asks
  <2> QED
    BY <1>1, <1>6, <2>1, AskIsTyped
<1>10. RemoveGroundEquipment \in FlightPhases \ CountingPhases
  BY DEF CountingPhases
<1>11. hist' \in Histories /\ Quiet(hist')
  BY <1>6, <1>8, <1>10, QuietTick, FlightTransitions
<1> QED
  BY <1>7, <1>9, <1>11 DEF Silent, Typed

LEMMA PushbackTicksAreSilent ==
  ASSUME FlightInv, MachineInv, Evaluated = RequestPushback,
         PhaseBody(RequestPushback)
  PROVE  Silent
<1>1. data \in FlightData /\ FlightTypes
  BY DEF FlightInv, FlightTypes
<1>2. PushbackTick
  BY DEF PhaseBody
<1> DEFINE forget == ForgetThePushAsk
           d == [data EXCEPT !.pushAsked = TRUE]
           e == [data EXCEPT !.pushAsked = ~forget]
<1>3. d \in FlightData /\ e \in FlightData
  BY <1>1 DEF FlightData
<1>4. \/ StayWith(data) \/ StayWith(e)
      \/ GoWith(WaitingDeparture, d) \/ GoWith(WaitingPushbackToStart, data)
  BY <1>2, Zenon DEF PushbackTick
<1>5. (Ask({}) \/ Ask({"Clearance"}) \/ Ask({"Pushback"})) /\ KeepHistory
  BY <1>2, Zenon DEF PushbackTick
<1> HIDE DEF d, e
<1>6. data' \in FlightData
  BY <1>1, <1>3, <1>4, TickIsTyped
<1>7. phase' \in {RequestPushback, WaitingDeparture, WaitingPushbackToStart}
  BY <1>4 DEF StayWith, Stay, GoWith, Go, GoAs
<1>8. menu' \subseteq Asks
  <2>1. {} \subseteq Asks /\ {"Clearance"} \subseteq Asks /\ {"Pushback"} \subseteq Asks
    BY DEF Asks
  <2> QED
    BY <1>1, <1>5, <2>1, AskIsTyped
<1>9. RequestPushback \in FlightPhases \ CountingPhases
  BY DEF CountingPhases
<1>10. hist' \in Histories /\ Quiet(hist')
  BY <1>5, <1>7, <1>9, QuietTick, FlightTransitions
<1> QED
  BY <1>6, <1>8, <1>10 DEF Silent, Typed

LEMMA TowTicksAreSilent ==
  ASSUME FlightInv, MachineInv, Evaluated = WaitingPushbackToStart,
         PhaseBody(WaitingPushbackToStart)
  PROVE  Silent
<1>1. data \in FlightData /\ FlightTypes /\ hist \in Histories
  BY DEF FlightInv, FlightTypes
<1>2. PICK taxiing \in BOOLEAN : PushbackToStartTick(taxiing)
  BY DEF PhaseBody
<1>3. NotedPushback \in FlightData
  <2> DEFINE lost == \/ data.pushPending /\ gsx.down
                     \/ data.pushLost /\ ~(PushPending /\ ~data.pushPending)
             pending == PushPending
             shown == lost /\ ~pending
  <2>1. lost \in BOOLEAN /\ pending \in BOOLEAN /\ shown \in BOOLEAN
    BY DEF PushPending
  <2>2. NotedPushback = [data EXCEPT !.pushPending = pending, !.pushLost = lost,
                                     !.interrupted = shown]
    BY Zenon DEF NotedPushback
  <2> HIDE DEF lost, pending, shown
  <2> QED
    BY <1>1, <2>1, <2>2 DEF FlightData
<1>4. \/ StayUncounted(NotedPushback)
      \/ GoWith(WaitingDeparture, data) \/ GoWith(WaitingForEngines, data)
  BY <1>2 DEF PushbackToStartTick
<1>5. data' \in FlightData
  BY <1>1, <1>3, <1>4, TickIsTyped
<1>6. menu' \subseteq Asks
  BY <1>1, <1>2, AskIsTyped DEF PushbackToStartTick
<1>7. Quiet(hist)
  <2>1. phase = WaitingPushbackToStart
    BY EvaluatedHere
  <2> QED
    BY <2>1, QuietElsewhere DEF CountingPhases
<1>8. hist' \in Histories /\ Quiet(hist')
  <2> DEFINE dropped == hist.dropped /\ phase' = phase
                        /\ ~(PushPending /\ ~data.pushPending)
  <2>1. dropped \in BOOLEAN
    BY DEF PushPending
  <2>2. hist' = [hist EXCEPT !.dropped = dropped]
    BY <1>2 DEF PushbackToStartTick
  <2> HIDE DEF dropped
  <2> QED
    BY <1>1, <1>7, <2>1, <2>2 DEF Histories, Quiet
<1> QED
  BY <1>5, <1>6, <1>8 DEF Silent, Typed

\* What the other phases in which nothing is counted come down to.
LEMMA SilentByOutcome ==
  ASSUME FlightInv, MachineInv, NEW p \in FlightPhases \ CountingPhases,
         Evaluated = p, NEW d \in FlightData, NEW next,
         <<p, next>> \in Transitions,
         StayWith(d) \/ StayUncounted(d) \/ GoWith(next, data),
         NEW what, what \subseteq Asks, Ask(what), KeepHistory
  PROVE  Silent
<1>1. data \in FlightData /\ FlightTypes
  BY DEF FlightInv, FlightTypes
<1>2. data' \in FlightData
  BY <1>1, TickIsTyped
<1>3. phase' = p \/ phase' = next
  BY DEF StayWith, StayUncounted, Stay, GoWith, Go, GoAs
<1>4. hist' \in Histories /\ Quiet(hist')
  BY <1>3, QuietTick
<1> QED
  BY <1>1, <1>2, <1>4, AskIsTyped DEF Silent, Typed

LEMMA FlightTicksAreSilent ==
  ASSUME FlightInv, MachineInv,
         NEW p \in {OnFlight, WaitingEngineShutdown, RequestDeboarding,
                    Deboarding, WaitingNewFlight},
         Evaluated = p, PhaseBody(p)
  PROVE  Silent
<1>1. /\ data \in FlightData /\ FlightTypes /\ FreshData \in FlightData
      /\ {} \subseteq Asks /\ {"Deboarding"} \subseteq Asks
  BY FreshIsTyped DEF FlightInv, FlightTypes, Asks
<1>2. p \in FlightPhases \ CountingPhases
  BY DEF CountingPhases
<1>3. CASE p = OnFlight
  <2>1. (StayUncounted(FreshData) \/ GoWith(WaitingEngineShutdown, data))
        /\ Ask({}) /\ KeepHistory
    BY <1>3 DEF PhaseBody, OnFlightTick, NothingElse
  <2> QED
    BY <1>1, <1>2, <1>3, <2>1, SilentByOutcome, FlightTransitions
<1>4. CASE p = WaitingEngineShutdown
  <2>1. (StayUncounted(data) \/ GoWith(PlaceArrivalGroundEquipment, data))
        /\ Ask({}) /\ KeepHistory
    BY <1>4 DEF PhaseBody, EngineShutdownTick, NothingElse
  <2> QED
    BY <1>1, <1>2, <1>4, <2>1, SilentByOutcome, FlightTransitions
<1>5. CASE p = RequestDeboarding
  <2> DEFINE asks == parked /\ gsx.deboard = "Callable" /\ ~data.deboardAsked
             kept == (data.deboardAsked \/ asks) /\ ~ForgetTheDeboardingAsk
             d == [data EXCEPT !.deboardAsked = kept]
  <2>1. RequestDeboardingTick(parked)
    BY <1>5 DEF PhaseBody
  <2>2. /\ StayWith(d) \/ GoWith(Deboarding, data)
        /\ Ask({}) \/ Ask({"Deboarding"})
        /\ KeepHistory
    BY <2>1, Zenon DEF RequestDeboardingTick
  <2>3. kept \in BOOLEAN
    BY DEF ForgetTheDeboardingAsk
  <2> HIDE DEF kept
  <2>4. d \in FlightData
    BY <1>1, <2>3 DEF FlightData
  <2> HIDE DEF d
  <2> QED
    BY <1>1, <1>2, <1>5, <2>2, <2>4, SilentByOutcome, FlightTransitions
<1>6. CASE p = Deboarding
  <2> DEFINE shown == gsx.deboard = "Callable" /\ data.baselined
             based == data.baselined \/ gsx.deboard \in {"Active", "Moving"}
             d == [data EXCEPT !.interrupted = shown, !.baselined = based]
  <2>1. DeboardingTick
    BY <1>6 DEF PhaseBody
  <2>2. /\ StayUncounted(d) \/ GoWith(CabinServices, data)
        /\ Ask({}) /\ KeepHistory
    BY <2>1, Zenon DEF DeboardingTick, NothingElse
  <2>3. shown \in BOOLEAN /\ based \in BOOLEAN
    BY <1>1 DEF FlightData
  <2> HIDE DEF shown, based
  <2>4. d \in FlightData
    BY <1>1, <2>3 DEF FlightData
  <2> HIDE DEF d
  <2> QED
    BY <1>1, <1>2, <1>6, <2>2, <2>4, SilentByOutcome, FlightTransitions
<1>7. CASE p = WaitingNewFlight
  <2>1. PICK switch \in BOOLEAN : NewFlightTick(switch)
    BY <1>7 DEF PhaseBody
  <2>2. (StayUncounted(FreshData) \/ GoWith(WaitingSupportedAircraft, data))
        /\ Ask({}) /\ KeepHistory
    BY <2>1 DEF NewFlightTick, NothingElse
  <2>3. <<WaitingNewFlight, WaitingSupportedAircraft>> \in Transitions
    BY DEF Transitions
  <2> QED
    BY <1>1, <1>2, <1>7, <2>2, <2>3, SilentByOutcome
<1> QED
  BY <1>3, <1>4, <1>5, <1>6, <1>7

-----------------------------------------------------------------------------
\* The phases in which something is counted.
Once == Typed /\ hist' \in Histories /\ AskedOnce'

LEMMA KeptIsOnce ==
  ASSUME FlightInv, phase' = phase, data'.gpuAsked = data.gpuAsked,
         data'.asked = data.asked, data'.resumed = data.resumed,
         hist'.power = hist.power, hist'.asks = hist.asks,
         hist'.resumes = hist.resumes
  PROVE  AskedOnce'
BY DEF FlightInv, AskedOnce

LEMMA EngineWaitIsOnce ==
  ASSUME FlightInv, phase \in {WaitingForEngines, WaitingDeparture},
         phase' \in {WaitingForEngines, WaitingDeparture},
         hist' = hist, data'.resumed = data.resumed
  PROVE  hist' \in Histories /\ AskedOnce'
BY DEF FlightInv, FlightTypes, AskedOnce

LEMMA EngineTicksAskOnce ==
  ASSUME FlightInv, MachineInv, Evaluated = WaitingForEngines,
         PhaseBody(WaitingForEngines)
  PROVE  Once
<1>1. /\ data \in FlightData /\ FlightTypes /\ phase = WaitingForEngines
      /\ {} \subseteq Asks /\ {"CompletePushback"} \subseteq Asks
      /\ {"ConfirmEngines"} \subseteq Asks
  BY EvaluatedHere DEF FlightInv, FlightTypes, CountingPhases, Asks
<1>2. PICK taxiing, brake, switch \in BOOLEAN : EnginesTick(taxiing, brake, switch)
  BY DEF PhaseBody
<1> DEFINE d == [data EXCEPT !.sent = TRUE]
<1>3. d \in FlightData /\ d.resumed = data.resumed
  BY <1>1 DEF FlightData
<1>4. /\ GoWith(WaitingDeparture, data) \/ StayUncounted(data) \/ StayUncounted(d)
      /\ Ask({}) \/ Ask({"CompletePushback"}) \/ Ask({"ConfirmEngines"})
      /\ KeepHistory
  BY <1>2, Zenon DEF EnginesTick
<1> HIDE DEF d
<1>5. /\ data' \in FlightData /\ data'.resumed = data.resumed
      /\ phase' \in {WaitingForEngines, WaitingDeparture}
  BY <1>1, <1>3, <1>4, StayIsTyped, GoIsTyped
<1>6. menu' \subseteq Asks
  BY <1>1, <1>4, AskIsTyped
<1>7. hist' = hist
  BY <1>1, <1>4, <1>5 DEF KeepHistory
<1>8. hist' \in Histories /\ AskedOnce'
  BY <1>1, <1>5, <1>7, EngineWaitIsOnce
<1> QED
  BY <1>5, <1>6, <1>8 DEF Once, Typed

LEMMA DepartureTicksAskOnce ==
  ASSUME FlightInv, MachineInv, Evaluated = WaitingDeparture,
         PhaseBody(WaitingDeparture)
  PROVE  Once
<1>1. /\ data \in FlightData /\ FlightTypes /\ phase = WaitingDeparture
      /\ hist \in Histories /\ {} \subseteq Asks
  BY EvaluatedHere DEF FlightInv, FlightTypes, CountingPhases
<1>2. PICK taxiing \in BOOLEAN : DepartureTick(taxiing)
  BY DEF PhaseBody
<1>3. menu' \subseteq Asks
  BY <1>1, <1>2, AskIsTyped DEF DepartureTick
<1>4. CASE ((TakesOff /\ UNCHANGED data) \/ StayUncounted(data)) /\ KeepHistory
  <2>1. data' = data /\ phase' = WaitingDeparture
    BY <1>1, <1>4 DEF TakesOff, GoAfter, StayUncounted, Stay
  <2>2. hist' = hist
    BY <1>1, <1>4, <2>1 DEF KeepHistory
  <2>3. hist' \in Histories /\ AskedOnce'
    BY <1>1, <2>1, <2>2, EngineWaitIsOnce
  <2> QED
    BY <1>1, <1>3, <2>1, <2>3 DEF Once, Typed
<1> DEFINE d == [data EXCEPT !.resumed = TRUE, !.sent = FALSE]
<1>5. CASE /\ GsxStillAsks(taxiing)
           /\ GoWith(WaitingForEngines, d)
           /\ hist' = [hist EXCEPT !.resumes = IF @ < 2 THEN @ + 1 ELSE @]
  <2>1. d \in FlightData /\ d.resumed
    BY <1>1 DEF FlightData
  <2> HIDE DEF d
  <2>2. data' \in FlightData /\ data'.resumed = d.resumed /\ phase' = WaitingForEngines
    BY <1>5, <2>1, GoIsTyped
  <2>3. hist.resumes = 0
    BY <1>1, <1>5 DEF GsxStillAsks, FlightInv, AskedOnce
  <2>4. hist' = [hist EXCEPT !.resumes = 1]
    BY <1>1, <1>5, <2>3 DEF Histories
  <2>5. /\ hist' \in Histories /\ hist'.resumes = 1
        /\ hist'.power = hist.power /\ hist'.asks = hist.asks
    BY <1>1, <2>4 DEF Histories
  <2>6. hist.power = 0 /\ \A s \in Services : hist.asks[s] = 0
    BY <1>1 DEF FlightInv, AskedOnce, Histories
  <2>7. AskedOnce'
    BY <2>1, <2>2, <2>5, <2>6 DEF AskedOnce
  <2> QED
    BY <1>3, <2>2, <2>5, <2>7 DEF Once, Typed
<1> QED
  BY <1>2, <1>4, <1>5, Zenon DEF DepartureTick

LEMMA EquipmentTicksAskOnce ==
  ASSUME FlightInv, MachineInv, Evaluated = PlaceArrivalGroundEquipment,
         PhaseBody(PlaceArrivalGroundEquipment)
  PROVE  Once
<1>1. /\ data \in FlightData /\ FlightTypes /\ phase = PlaceArrivalGroundEquipment
      /\ hist \in Histories /\ {} \subseteq Asks /\ {"ToggleGpu"} \subseteq Asks
  BY EvaluatedHere DEF FlightInv, FlightTypes, CountingPhases, Asks
<1>2. PICK power \in PowerReadings, chocksPlaced \in BOOLEAN :
        PlaceEquipmentTick(power, chocksPlaced)
  BY DEF PhaseBody
<1> DEFINE chocksIn == "chocks" \in craft.wish
           counted == [data EXCEPT !.equipTicks = EquipmentWait, !.chocksIn = chocksIn]
           asked == [counted EXCEPT !.gpuAsked = TRUE]
           waited == [asked EXCEPT !.gpuTicks = @ + 1]
           asks == AsksForTheArrivalPower(power)
           h == [hist EXCEPT !.power = IF asks /\ @ < 2 THEN @ + 1 ELSE @]
<1>3. ASSUME ~GivesUpOnTheEquipment
      PROVE  /\ counted \in FlightData /\ asked \in FlightData
             /\ counted.gpuAsked = data.gpuAsked /\ asked.gpuAsked
             /\ asked.gpuTicks = data.gpuTicks
             /\ \A d \in {counted, asked} : d.asked = data.asked /\ d.resumed = data.resumed
  <2>1. data.equipTicks \in Nat /\ data.gpuTicks \in Nat
    BY <1>1, DepartureConstants DEF FlightData
  <2>2. EquipmentWait \in 0 .. EquipmentGiveUpTicks - 1
    BY <1>3, <2>1, DepartureConstants DEF GivesUpOnTheEquipment, EquipmentWait
  <2>3. chocksIn \in BOOLEAN
    OBVIOUS
  <2> HIDE DEF chocksIn
  <2>4. /\ counted \in FlightData /\ counted.gpuAsked = data.gpuAsked
        /\ counted.asked = data.asked /\ counted.resumed = data.resumed
        /\ counted.gpuTicks = data.gpuTicks
    BY <1>1, <2>2, <2>3 DEF FlightData
  <2> HIDE DEF counted
  <2>5. /\ asked \in FlightData /\ asked.gpuAsked /\ asked.asked = counted.asked
        /\ asked.resumed = counted.resumed /\ asked.gpuTicks = counted.gpuTicks
    BY <2>4 DEF FlightData
  <2> HIDE DEF asked
  <2> QED
    BY <2>4, <2>5
<1>4. ASSUME ~GivesUpOnTheEquipment, data.gpuTicks < ConfirmationGiveUpTicks
      PROVE  /\ waited \in FlightData /\ waited.gpuAsked
             /\ waited.asked = data.asked /\ waited.resumed = data.resumed
  <2>1. /\ asked \in FlightData /\ asked.gpuAsked /\ asked.gpuTicks = data.gpuTicks
        /\ asked.asked = data.asked /\ asked.resumed = data.resumed
    BY <1>3, <1>4
  <2> HIDE DEF asked
  <2>2. asked.gpuTicks + 1 \in 0 .. ConfirmationGiveUpTicks
    BY <1>1, <1>4, <2>1, DepartureConstants DEF FlightData
  <2> QED
    BY <2>1, <2>2 DEF FlightData
<1>5. CASE GoWith(RequestDeboarding, data) /\ NothingElse
  <2>1. data' \in FlightData /\ phase' = RequestDeboarding /\ menu' \subseteq Asks
    BY <1>1, <1>5, GoIsTyped, AskIsTyped DEF NothingElse
  <2>2. hist' = NoHistory
    BY <1>1, <1>5, <2>1 DEF NothingElse, KeepHistory
  <2> QED
    BY <2>1, <2>2, FreshIsTyped, QuietIsOnce DEF Once, Typed
<1>6. ASSUME NEW d \in FlightData, d.gpuAsked = data.gpuAsked,
             d.asked = data.asked, d.resumed = data.resumed,
             StayWith(d), NothingElse
      PROVE  Once
  <2>1. /\ data' \in FlightData /\ phase' = phase /\ menu' \subseteq Asks
        /\ data'.gpuAsked = data.gpuAsked /\ data'.asked = data.asked
        /\ data'.resumed = data.resumed
    BY <1>1, <1>6, StayIsTyped, AskIsTyped DEF NothingElse
  <2>2. hist' = hist
    BY <1>6, <2>1 DEF NothingElse, KeepHistory
  <2> QED
    BY <1>1, <2>1, <2>2, KeptIsOnce DEF Once, Typed
<1>7. ASSUME NEW d \in FlightData, d.gpuAsked,
             d.asked = data.asked, d.resumed = data.resumed,
             StayWith(d) \/ GoWith(RequestDeboarding, d),
             Ask({}) \/ Ask({"ToggleGpu"}),
             hist' = IF phase' # phase THEN NoHistory ELSE h
      PROVE  Once
  <2>1. data' \in FlightData /\ menu' \subseteq Asks
    BY <1>1, <1>7, TickIsTyped, AskIsTyped
  <2>2. CASE GoWith(RequestDeboarding, d)
    <3>1. phase' = RequestDeboarding
      BY <2>2 DEF GoWith, Go, GoAs
    <3>2. hist' = NoHistory
      BY <1>1, <1>7, <3>1
    <3> QED
      BY <2>1, <3>2, FreshIsTyped, QuietIsOnce DEF Once, Typed
  <2>3. CASE StayWith(d)
    <3>1. phase' = phase /\ data'.gpuAsked
      BY <1>1, <1>7, <2>3, StayIsTyped
    <3>2. hist' = h
      BY <1>7, <3>1
    <3>3. hist.power \in Nat /\ hist.power <= 1 /\ (asks => hist.power = 0)
      BY <1>1 DEF FlightInv, AskedOnce, Histories, AsksForTheArrivalPower
    <3>4. /\ h \in Histories /\ h.power <= 1
          /\ h.asks = hist.asks /\ h.resumes = hist.resumes
      BY <1>1, <3>3 DEF Histories
    <3>5. hist.resumes = 0 /\ \A s \in Services : hist.asks[s] = 0
      BY <1>1 DEF FlightInv, AskedOnce, Histories
    <3> HIDE DEF h
    <3>6. AskedOnce'
      BY <1>1, <3>1, <3>2, <3>4, <3>5 DEF AskedOnce
    <3> QED
      BY <2>1, <3>2, <3>4, <3>6 DEF Once, Typed
  <2> QED
    BY <1>7, <2>2, <2>3
<1>8. \/ (GoWith(RequestDeboarding, data) \/ StayWith(data)) /\ NothingElse
      \/ ~GivesUpOnTheEquipment /\ StayWith(counted) /\ NothingElse
      \/ /\ ~GivesUpOnTheEquipment
         /\ \/ StayWith(asked) \/ GoWith(RequestDeboarding, asked)
            \/ ~(data.gpuTicks >= ConfirmationGiveUpTicks) /\ StayWith(waited)
         /\ Ask({}) \/ Ask({"ToggleGpu"})
         /\ hist' = IF phase' # phase THEN NoHistory ELSE h
  BY <1>2, Zenon DEF PlaceEquipmentTick
<1>9. ~(data.gpuTicks >= ConfirmationGiveUpTicks) => data.gpuTicks < ConfirmationGiveUpTicks
  BY <1>1, DepartureConstants DEF FlightData
<1> HIDE DEF counted, asked, waited, h
<1> QED
  BY <1>1, <1>3, <1>4, <1>5, <1>6, <1>7, <1>8, <1>9

\* A service that is asked for joins the ones that were.
LEMMA DispatchedIsTyped ==
  ASSUME FlightTypes, NEW working \in SUBSET Services, ToDispatch # {}
  PROVE  /\ Dispatched(working) \in FlightData
         /\ Dispatched(working).gpuAsked = data.gpuAsked
         /\ Dispatched(working).resumed = data.resumed
         /\ Dispatched(working).pushPending = data.pushPending
         /\ Dispatched(working).pushLost = data.pushLost
         /\ data.asked \subseteq Dispatched(working).asked
         /\ AsksForTheService(working) => NextService \in Dispatched(working).asked
<1>1. data \in FlightData /\ data.requested \subseteq Services
  BY DEF FlightTypes, FlightData
<1> DEFINE s == NextService
<1>2. s \in Services
  BY <1>1, NextServiceIsLeft
<1>3. Dispatched(working) =
        IF s \in working
        THEN [data EXCEPT !.requested = @ \cup {s}, !.seen = @ \cup {s}]
        ELSE IF s \notin data.asked THEN [data EXCEPT !.asked = @ \cup {s}]
        ELSE IF TickCondition(WaitTicks) THEN [data EXCEPT !.requested = @ \cup {s}]
        ELSE data
  BY DEF Dispatched
<1>4. AsksForTheService(working) <=> s \notin working /\ s \notin data.asked
  BY DEF AsksForTheService
<1> DEFINE taken == [data EXCEPT !.requested = @ \cup {s}, !.seen = @ \cup {s}]
           asking == [data EXCEPT !.asked = @ \cup {s}]
           given == [data EXCEPT !.requested = @ \cup {s}]
<1>5. /\ taken \in FlightData /\ taken.asked = data.asked
      /\ taken.gpuAsked = data.gpuAsked /\ taken.resumed = data.resumed
      /\ taken.pushPending = data.pushPending /\ taken.pushLost = data.pushLost
  BY <1>1, <1>2 DEF FlightData
<1>6. /\ asking \in FlightData /\ asking.asked = data.asked \cup {s}
      /\ asking.gpuAsked = data.gpuAsked /\ asking.resumed = data.resumed
      /\ asking.pushPending = data.pushPending /\ asking.pushLost = data.pushLost
  BY <1>1, <1>2 DEF FlightData
<1>7. /\ given \in FlightData /\ given.asked = data.asked
      /\ given.gpuAsked = data.gpuAsked /\ given.resumed = data.resumed
      /\ given.pushPending = data.pushPending /\ given.pushLost = data.pushLost
  BY <1>1, <1>2 DEF FlightData
<1>8. Dispatched(working) \in {taken, asking, given, data}
      /\ (Dispatched(working) = asking \/ ~AsksForTheService(working))
  BY <1>3, <1>4
<1> HIDE DEF taken, asking, given
<1> QED
  BY <1>1, <1>5, <1>6, <1>7, <1>8

LEMMA CabinTicksAskOnce ==
  ASSUME FlightInv, MachineInv, Evaluated = CabinServices,
         PhaseBody(CabinServices)
  PROVE  Once
<1>1. /\ data \in FlightData /\ FlightTypes /\ phase = CabinServices
      /\ hist \in Histories /\ {} \subseteq Asks
  BY EvaluatedHere DEF FlightInv, FlightTypes, CountingPhases
<1>2. PICK working \in SUBSET Services : CabinServicesTick(working)
  BY DEF PhaseBody
<1>3. menu' \subseteq Asks
  BY <1>1, <1>2, AskIsTyped, Zenon DEF CabinServicesTick, NothingElse
<1> DEFINE sent == Dispatched(working)
           asks == AsksForTheService(working)
<1>4. CASE /\ ToDispatch # {} /\ StayWith(sent)
           /\ hist' = IF asks /\ hist.asks[NextService] < 2
                      THEN [hist EXCEPT !.asks[NextService] = @ + 1] ELSE hist
  <2>1. /\ sent \in FlightData /\ sent.gpuAsked = data.gpuAsked
        /\ sent.resumed = data.resumed /\ data.asked \subseteq sent.asked
        /\ asks => NextService \in sent.asked
    BY <1>1, <1>4, DispatchedIsTyped
  <2>2. NextService \in Services
    BY <1>1, <1>4, NextServiceIsLeft DEF FlightData
  <2> HIDE DEF sent
  <2>3. /\ data' \in FlightData /\ phase' = phase /\ data'.asked = sent.asked
        /\ data'.gpuAsked = sent.gpuAsked /\ data'.resumed = sent.resumed
    BY <1>1, <1>4, <2>1, StayIsTyped
  <2>4. asks => hist.asks[NextService] = 0
    BY <1>1, <2>2 DEF AsksForTheService, FlightInv, AskedOnce, Histories
  <2>5. hist.power = 0 /\ hist.resumes = 0
    BY <1>1 DEF FlightInv, AskedOnce, Histories
  <2>6. /\ hist' \in Histories /\ hist'.power = 0 /\ hist'.resumes = 0
        /\ \A s \in Services :
             IF asks /\ s = NextService THEN hist'.asks[s] = 1
             ELSE hist'.asks[s] = hist.asks[s]
    <3>1. CASE asks
      <4>1. hist' = [hist EXCEPT !.asks = [hist.asks EXCEPT ![NextService] = 1]]
        BY <1>1, <1>4, <2>2, <2>4, <3>1 DEF Histories
      <4>2. hist.asks \in [Services -> Nat]
        BY <1>1 DEF Histories
      <4>3. hist'.asks = [hist.asks EXCEPT ![NextService] = 1]
            /\ hist'.power = hist.power /\ hist'.resumes = hist.resumes
            /\ hist' \in Histories
        BY <1>1, <2>2, <4>1, <4>2 DEF Histories
      <4> QED
        BY <2>2, <2>5, <3>1, <4>2, <4>3
    <3>2. CASE ~asks
      BY <1>1, <1>4, <2>5, <3>2
    <3> QED
      BY <3>1, <3>2
  <2>7. \A s \in Services : hist'.asks[s] <= 1
                            /\ (hist'.asks[s] # 0 => s \in data'.asked)
    BY <2>1, <2>3, <2>6 DEF FlightInv, AskedOnce
  <2>8. AskedOnce'
    BY <1>1, <2>3, <2>6, <2>7 DEF AskedOnce
  <2> QED
    BY <1>3, <2>3, <2>6, <2>8 DEF Once, Typed
<1>5. CASE GoAfter(WaitingNewFlight, ExitDelayTicks) /\ UNCHANGED data /\ NothingElse
  <2>1. phase' = phase /\ data' = data
    BY <1>1, <1>5 DEF GoAfter
  <2>2. hist' = hist
    BY <1>5, <2>1 DEF NothingElse, KeepHistory
  <2>3. AskedOnce'
    BY <2>1, <2>2, KeptIsOnce
  <2> QED
    BY <1>1, <1>3, <2>1, <2>2, <2>3 DEF Once, Typed
<1> DEFINE due == TickCondition(WaitTicks)
           seen == data.seen \cup working
           looked == [data EXCEPT !.seen = seen,
                        !.intervals = IF due THEN IntervalsSoFar(working) ELSE @]
<1>6. CASE StayWith(looked) /\ NothingElse
  <2>1. IntervalsSoFar(working) \in Nat /\ seen \in SUBSET Services
    BY <1>1 DEF IntervalsSoFar, FlightData
  <2> HIDE DEF seen
  <2>2. /\ looked \in FlightData /\ looked.asked = data.asked
        /\ looked.gpuAsked = data.gpuAsked /\ looked.resumed = data.resumed
    BY <1>1, <2>1 DEF FlightData
  <2> HIDE DEF looked
  <2>3. /\ data' \in FlightData /\ phase' = phase /\ data'.asked = data.asked
        /\ data'.gpuAsked = data.gpuAsked /\ data'.resumed = data.resumed
    BY <1>1, <1>6, <2>2, StayIsTyped
  <2>4. hist' = hist
    BY <1>6, <2>3 DEF NothingElse, KeepHistory
  <2>5. AskedOnce'
    BY <2>3, <2>4, KeptIsOnce
  <2> QED
    BY <1>1, <1>3, <2>3, <2>4, <2>5 DEF Once, Typed
<1> QED
  BY <1>2, <1>4, <1>5, <1>6, Zenon DEF CabinServicesTick

-----------------------------------------------------------------------------
\* A tick of these phases.
LEMMA FlightTicksAskOnce ==
  ASSUME FlightInv, MachineInv, NEW p \in FlightPhases, FlightTick(p)
  PROVE  FlightInv'
<1>1. Evaluated = p /\ PhaseBody(p)
  BY DEF FlightTick, PhaseTick
<1>2. CASE p \in CountingPhases
  <2>1. Once
    BY <1>1, <1>2, EngineTicksAskOnce, DepartureTicksAskOnce,
       EquipmentTicksAskOnce, CabinTicksAskOnce DEF CountingPhases
  <2> QED
    BY <2>1 DEF FlightTick, FlightInv, FlightTypes, Once, Typed, ParkedPhases
<1>3. CASE p \notin CountingPhases
  <2>1. p \in {WaitingReadyToPush, WaitCatering, RemoveGroundEquipment,
               RequestPushback, WaitingPushbackToStart, OnFlight,
               WaitingEngineShutdown, RequestDeboarding, Deboarding, WaitingNewFlight}
    BY <1>3 DEF CountingPhases
  <2>2. Silent
    BY <1>1, <2>1, GateTicksAreSilent, RemovalTicksAreSilent,
       PushbackTicksAreSilent, TowTicksAreSilent, FlightTicksAreSilent
  <2> QED
    BY <2>2, QuietIsOnce
       DEF FlightTick, FlightInv, FlightTypes, Silent, Typed, ParkedPhases
<1> QED
  BY <1>2, <1>3

\* The ticks of the engine and of the earlier phases.
LEMMA OtherTicksAskOnce ==
  ASSUME FlightInv, MachineInv, EngineTick
  PROVE  FlightInv'
<1>1. /\ data \in FlightData /\ hist \in Histories /\ FlightTypes
      /\ FreshData \in FlightData /\ NoHistory \in Histories /\ Quiet(NoHistory)
  BY FreshIsTyped DEF FlightInv, FlightTypes
<1>2. hist' \in {hist, NoHistory} /\ hist' \in Histories
  BY <1>1 DEF EngineTick
<1>3. data' \in FlightData
  <2>1. Counted(data.ticks) \in 0 .. TickBound
    BY <1>1, DepartureConstants DEF FlightData, Counted
  <2>2. [data EXCEPT !.ticks = Counted(@)] \in FlightData
    BY <1>1, <2>1 DEF FlightData
  <2> QED
    BY <1>1, <2>2 DEF EngineTick
<1>4. AskedOnce'
  <2>1. CASE hist' = NoHistory
    BY <1>1, <2>1, QuietIsOnce
  <2>2. CASE DelayTick /\ UNCHANGED data /\ hist' = hist
    BY <2>2, KeptIsOnce DEF DelayTick
  <2>3. CASE phase \notin CountingPhases /\ hist' = hist
    BY <2>3, QuietElsewhere, QuietIsOnce
  <2>4. CASE AirborneTick
    <3>1. Evaluated \in WaitingAircraftReady .. RequestPushback
      BY <2>4 DEF AirborneTick, IsAirborneWithoutAnExitOfItsOwn, MachineInv,
         HasNoAirborneExitOfItsOwn, MachineTypeOK, Evaluated, Phases
    <3>2. phase \notin CountingPhases
      BY <3>1, EvaluatedHere DEF CountingPhases
    <3> QED
      BY <1>2, <2>1, <2>3, <3>2
  <2>5. ASSUME NEW p \in Phases \ FlightPhases, OpenTick(p)
        PROVE  AskedOnce'
    <3>1. Evaluated = p
      BY <2>5 DEF OpenTick, PhaseTick
    <3>2. phase \notin CountingPhases
      BY <3>1, EvaluatedHere DEF CountingPhases
    <3> QED
      BY <1>2, <2>1, <2>3, <3>2
  <2> QED
    BY <1>2, <2>1, <2>2, <2>4, <2>5 DEF EngineTick
<1>5. craft' \in Crafts /\ parked' \in BOOLEAN /\ menu' \subseteq Asks
  BY <1>1 DEF EngineTick, FlightTypes
<1> QED
  BY <1>2, <1>3, <1>4, <1>5 DEF FlightInv, FlightTypes

\* A relaunch restores what was asked for, a restarted flow forgets it.
LEMMA RestartsAskOnce ==
  ASSUME FlightInv, Relaunch \/ RestartFlow
  PROVE  FlightInv'
<1>1. /\ data \in FlightData /\ hist \in Histories /\ FlightTypes
      /\ FreshData \in FlightData /\ NoHistory \in Histories /\ Quiet(NoHistory)
  BY FreshIsTyped DEF FlightInv, FlightTypes
<1>2. CASE Relaunch
  <2> DEFINE lost == data.pushLost \/ (data.pushPending /\ gsx.down)
             d == [data EXCEPT !.ticks = 0, !.gpuTicks = 0, !.equipTicks = 0,
                               !.interrupted = FALSE, !.pushLost = lost]
  <2>1. data' = d
    BY <1>2 DEF Relaunch, Restored
  <2>2. /\ lost \in BOOLEAN /\ 0 \in 0 .. TickBound
        /\ 0 \in 0 .. ConfirmationGiveUpTicks /\ 0 \in 0 .. EquipmentGiveUpTicks - 1
    <3>1. data.pushLost \in BOOLEAN /\ data.pushPending \in BOOLEAN
      BY <1>1 DEF FlightData
    <3>2. CASE data.pushLost
      BY <3>1, <3>2, DepartureConstants
    <3>3. CASE ~data.pushLost
      <4>1. lost \in BOOLEAN
        OBVIOUS
      <4> QED
        BY <4>1, DepartureConstants
    <3> QED
      BY <3>2, <3>3
  <2> HIDE DEF lost
  <2>3. /\ d \in FlightData /\ d.gpuAsked = data.gpuAsked
        /\ d.asked = data.asked /\ d.resumed = data.resumed
    BY <1>1, <2>2 DEF FlightData
  <2> HIDE DEF d
  <2>4. phase' = phase /\ hist' = hist
    BY <1>2 DEF Relaunch, ResumeFrom, StandAt
  <2>5. AskedOnce'
    BY <2>1, <2>3, <2>4, KeptIsOnce
  <2> QED
    BY <1>1, <1>2, <2>1, <2>3, <2>4, <2>5 DEF FlightInv, FlightTypes, Relaunch
<1>3. CASE RestartFlow
  <2>1. hist' = NoHistory /\ data' = FreshData
    BY <1>3 DEF RestartFlow
  <2>2. AskedOnce'
    BY <1>1, <2>1, QuietIsOnce
  <2> QED
    BY <1>1, <1>3, <2>1, <2>2 DEF FlightInv, FlightTypes, RestartFlow
<1> QED
  BY <1>2, <1>3

\* GSX and the pilot do not touch the data.
LEMMA EnvironmentAsksNothing ==
  ASSUME FlightInv, Environment
  PROVE  FlightInv'
<1>1. /\ data \in FlightData /\ hist \in Histories /\ FlightTypes
  BY DEF FlightInv, FlightTypes
<1>2. CASE GsxRestarts
  <2> DEFINE dropped == hist.dropped
               \/ (phase = WaitingPushbackToStart /\ data.pushPending)
  <2>1. hist' = [hist EXCEPT !.dropped = dropped]
    BY <1>2 DEF GsxRestarts
  <2>2. dropped \in BOOLEAN
    BY <1>1 DEF Histories, FlightData
  <2> HIDE DEF dropped
  <2>3. /\ hist' \in Histories /\ hist'.power = hist.power
        /\ hist'.asks = hist.asks /\ hist'.resumes = hist.resumes
    BY <1>1, <2>1, <2>2 DEF Histories
  <2>4. data' = data /\ phase' = phase
    BY <1>2 DEF GsxRestarts, machineVars
  <2>5. AskedOnce'
    BY <2>3, <2>4, KeptIsOnce
  <2> QED
    BY <1>1, <1>2, <2>3, <2>4, <2>5 DEF FlightInv, FlightTypes, GsxRestarts
<1>3. CASE ~GsxRestarts
  <2>1. /\ data' = data /\ phase' = phase /\ hist' = hist /\ craft' = craft
        /\ parked' \in {parked, ~parked}
        /\ menu' \subseteq menu
    BY <1>3 DEF Environment, GsxHears, GsxMisses, Gsx, GsxPushes,
       EnginesConfirmedElsewhere, GsxDeboards, GsxMovesTheGpu, DeiceStartsOrEnds,
       ParkOrStart, machineVars
  <2>2. AskedOnce'
    BY <2>1, KeptIsOnce
  <2> QED
    BY <1>1, <2>1, <2>2 DEF FlightInv, FlightTypes
<1> QED
  BY <1>2, <1>3

LEMMA StepsAskOnce ==
  ASSUME FlightInv, MachineInv, [Next]_vars
  PROVE  FlightInv'
<1>1. CASE EngineTick
  BY <1>1, OtherTicksAskOnce
<1>2. ASSUME NEW p \in FlightPhases, FlightTick(p)
      PROVE  FlightInv'
  BY <1>2, FlightTicksAskOnce
<1>3. CASE Relaunch \/ RestartFlow
  BY <1>3, RestartsAskOnce
<1>4. CASE Environment
  BY <1>4, EnvironmentAsksNothing
<1>5. CASE /\ (\E p \in Phases : AcceptPilotTouch(p)) \/ TakeOffOrLand
           /\ UNCHANGED flightVars
  <2>1. phase' = phase /\ UNCHANGED flightVars
    BY <1>5 DEF AcceptPilotTouch, TakeOffOrLand
  <2> QED
    BY <2>1 DEF FlightInv, FlightTypes, AskedOnce, flightVars
<1>6. CASE UNCHANGED vars
  BY <1>6 DEF vars, machineVars, flightVars, FlightInv, FlightTypes, AskedOnce
<1> QED
  BY <1>1, <1>2, <1>3, <1>4, <1>5, <1>6 DEF Next

\* In every reachable state the types hold, and what is counted is asked for
\* once, because the data say so.
THEOREM FlightInvariantHolds == Spec => []FlightInv
<1>1. Init => FlightInv
  BY FreshIsTyped DEF Init, FlightInv, FlightTypes, AskedOnce, Quiet
<1>2. FlightInv /\ MachineInv /\ [Next]_vars => FlightInv'
  BY StepsAskOnce
<1>3. Spec => []MachineInv
  BY FlightImplementsTheMachine, InvariantHolds, PTL
<1> QED
  BY <1>1, <1>2, <1>3, PTL DEF Spec

\* The fields of these phases keep their types.
THEOREM FlightTypesHold == Spec => []TypeOK
<1>1. FlightInv /\ MachineInv => TypeOK
  BY DEF FlightInv, FlightTypes, FlightData, MachineInv, TypeOK
<1>2. Spec => []MachineInv
  BY FlightImplementsTheMachine, InvariantHolds, PTL
<1> QED
  BY <1>1, <1>2, FlightInvariantHolds, PTL

-----------------------------------------------------------------------------
(***************************************************************************)
(* An interrupted pushback.  What is remembered of a pushback belongs to   *)
(* the phase that waits for it; there each of the three fields that lead   *)
(* to the notice says that a restart of GSX took one.                      *)
(***************************************************************************)
Untowed(d) == ~d.pushPending /\ ~d.pushLost

PushIsTrue ==
  /\ phase # WaitingPushbackToStart => Untowed(data)
  /\ phase = WaitingPushbackToStart =>
       (data.interrupted \/ data.pushLost \/ (data.pushPending /\ gsx.down)
          => hist.dropped)

\* What every tick of another phase gives.
Aside ==
  Untowed(data') /\ (phase' = WaitingPushbackToStart => ~data'.interrupted)

LEMMA AsideByOutcome ==
  ASSUME FlightTypes, Evaluated # WaitingPushbackToStart,
         NEW d \in FlightData, Untowed(d),
         StayWith(d) \/ StayUncounted(d) \/ \E next : GoWith(next, d)
  PROVE  Aside
<1>1. CASE StayWith(d)
  <2> DEFINE n == Counted(data.ticks)
  <2>1. data' = [d EXCEPT !.ticks = n] /\ phase' = Evaluated
    BY <1>1 DEF StayWith, Stay
  <2> HIDE DEF n
  <2> QED
    BY <2>1 DEF FlightData, Aside, Untowed
<1>2. CASE StayUncounted(d)
  BY <1>2 DEF StayUncounted, Stay, Aside
<1>3. ASSUME NEW next, GoWith(next, d)
      PROVE  Aside
  <2>1. data' = Kept(next, d) /\ phase' = next
    BY <1>3 DEF GoWith, Go, GoAs
  <2>2. CASE next \in {RequestPushback, WaitingPushbackToStart}
    <3>1. data' = [FreshData EXCEPT !.pushLost = d.pushLost,
                                    !.pushPending = d.pushPending]
      BY <2>1, <2>2 DEF Kept
    <3> QED
      BY <3>1 DEF FreshData, Aside, Untowed
  <2>3. CASE next \in {WaitingForEngines, WaitingDeparture}
    <3>1. data' = [FreshData EXCEPT !.resumed = d.resumed]
      BY <2>1, <2>3 DEF Kept
    <3> QED
      BY <3>1 DEF FreshData, Aside, Untowed
  <2>4. CASE next \in {WaitCatering, RemoveGroundEquipment}
    <3>1. data' = [d EXCEPT !.ticks = 0]
      BY <2>1, <2>4 DEF Kept
    <3> QED
      BY <2>1, <2>4, <3>1 DEF FlightData, Aside, Untowed
  <2>5. CASE next \notin {RequestPushback, WaitingPushbackToStart, WaitingForEngines,
                        WaitingDeparture, WaitCatering, RemoveGroundEquipment}
    <3>1. data' = FreshData
      BY <2>1, <2>5 DEF Kept
    <3> QED
      BY <3>1 DEF FreshData, Aside, Untowed
  <2> QED
    BY <2>2, <2>3, <2>4, <2>5
<1> QED
  BY <1>1, <1>2, <1>3

LEMMA BodiesStandAside ==
  ASSUME FlightInv, Untowed(data), NEW p \in FlightPhases \ {WaitingPushbackToStart},
         Evaluated = p, PhaseBody(p)
  PROVE  Aside
<1>1. /\ FlightTypes /\ data \in FlightData /\ FreshData \in FlightData
      /\ Untowed(FreshData)
  BY FreshIsTyped DEF FlightInv, FlightTypes, FreshData, Untowed
<1>2. CASE p = WaitingReadyToPush
  <2>1. PICK ready, open, switch \in BOOLEAN : ReadyToPushTick(ready, open, switch)
    BY <1>2 DEF PhaseBody
  <2>2. \/ StayUncounted(data) \/ GoWith(WaitCatering, data)
        \/ phase' = WaitCatering /\ data' = Kept(WaitCatering, data)
    BY <2>1 DEF ReadyToPushTick, GoAs
  <2>3. Kept(WaitCatering, data) = [data EXCEPT !.ticks = 0]
    BY DEF Kept
  <2> QED
    BY <1>1, <1>2, <2>2, <2>3, AsideByOutcome DEF FlightData, Aside, Untowed
<1>3. CASE p = WaitCatering
  <2>1. PICK inProgress \in BOOLEAN : WaitCateringTick(inProgress)
    BY <1>3 DEF PhaseBody
  <2> DEFINE due == TickCondition(WaitTicks)
             d == [data EXCEPT !.intervals = IF due THEN @ + 1 ELSE @]
  <2>2. d \in FlightData /\ Untowed(d)
    BY <1>1 DEF FlightData, Untowed
  <2>3. GoWith(RemoveGroundEquipment, data) \/ StayWith(d)
    BY <2>1 DEF WaitCateringTick
  <2> HIDE DEF d
  <2> QED
    BY <1>1, <1>3, <2>2, <2>3, AsideByOutcome
<1>4. CASE p = RemoveGroundEquipment
  <2>1. PICK own, brake \in BOOLEAN, power \in PowerReadings :
          RemoveEquipmentTick(own, brake, power)
    BY <1>4 DEF PhaseBody
  <2> DEFINE d == [data EXCEPT !.chocksOut = @ \/ "chocks" \in craft.wish]
             e == [d EXCEPT !.dismissed = TRUE]
  <2>2. d \in FlightData /\ Untowed(d)
    BY <1>1 DEF FlightData, Untowed
  <2>3. e \in FlightData /\ Untowed(e)
    <3> HIDE DEF d
    <3>1. e \in FlightData
      BY <2>2 DEF FlightData
    <3>2. e.pushPending = d.pushPending /\ e.pushLost = d.pushLost
      BY <2>2 DEF FlightData
    <3> QED
      BY <2>2, <3>1, <3>2 DEF Untowed
  <2>4. \/ StayWith(data) \/ StayWith(d) \/ StayWith(e)
        \/ GoWith(RequestPushback, d)
    BY <2>1, Zenon DEF RemoveEquipmentTick
  <2> HIDE DEF d, e
  <2> QED
    BY <1>1, <1>4, <2>2, <2>3, <2>4, AsideByOutcome
<1>5. CASE p = RequestPushback
  <2>1. PushbackTick
    BY <1>5 DEF PhaseBody
  <2> DEFINE forget == ForgetThePushAsk
             d == [data EXCEPT !.pushAsked = TRUE]
             e == [data EXCEPT !.pushAsked = ~forget]
  <2>2. d \in FlightData /\ Untowed(d)
    BY <1>1 DEF FlightData, Untowed
  <2>3. e \in FlightData /\ Untowed(e)
    <3>1. e \in FlightData
      BY <1>1 DEF FlightData
    <3>2. e.pushPending = data.pushPending /\ e.pushLost = data.pushLost
      BY <1>1 DEF FlightData
    <3> QED
      BY <1>1, <3>1, <3>2 DEF Untowed
  <2>4. \/ StayWith(data) \/ StayWith(e)
        \/ GoWith(WaitingDeparture, d) \/ GoWith(WaitingPushbackToStart, data)
    BY <2>1, Zenon DEF PushbackTick
  <2> HIDE DEF d, e
  <2> QED
    BY <1>1, <1>5, <2>2, <2>3, <2>4, AsideByOutcome
<1>6. CASE p = WaitingForEngines
  <2>1. PICK taxiing, brake, switch \in BOOLEAN : EnginesTick(taxiing, brake, switch)
    BY <1>6 DEF PhaseBody
  <2> DEFINE d == [data EXCEPT !.sent = TRUE]
  <2>2. d \in FlightData /\ Untowed(d)
    BY <1>1 DEF FlightData, Untowed
  <2>3. GoWith(WaitingDeparture, data) \/ StayUncounted(data) \/ StayUncounted(d)
    BY <2>1, Zenon DEF EnginesTick
  <2> HIDE DEF d
  <2> QED
    BY <1>1, <1>6, <2>2, <2>3, AsideByOutcome
<1>7. CASE p = WaitingDeparture
  <2>1. PICK taxiing \in BOOLEAN : DepartureTick(taxiing)
    BY <1>7 DEF PhaseBody
  <2> DEFINE d == [data EXCEPT !.resumed = TRUE, !.sent = FALSE]
  <2>2. d \in FlightData /\ Untowed(d)
    BY <1>1 DEF FlightData, Untowed
  <2>3. (TakesOff /\ UNCHANGED data) \/ GoWith(WaitingForEngines, d) \/ StayUncounted(data)
    BY <2>1, Zenon DEF DepartureTick
  <2> HIDE DEF d
  <2>4. CASE TakesOff /\ UNCHANGED data
    <3>1. phase' = WaitingDeparture /\ data' = data
      BY <1>7, <2>4 DEF TakesOff, GoAfter
    <3> QED
      BY <3>1 DEF Aside
  <2> QED
    BY <1>1, <1>7, <2>2, <2>3, <2>4, AsideByOutcome
<1>8. CASE p = OnFlight
  <2>1. StayUncounted(FreshData) \/ GoWith(WaitingEngineShutdown, data)
    BY <1>8 DEF PhaseBody, OnFlightTick
  <2> QED
    BY <1>1, <1>8, <2>1, AsideByOutcome
<1>9. CASE p = WaitingEngineShutdown
  <2>1. StayUncounted(data) \/ GoWith(PlaceArrivalGroundEquipment, data)
    BY <1>9 DEF PhaseBody, EngineShutdownTick
  <2> QED
    BY <1>1, <1>9, <2>1, AsideByOutcome
<1>10. CASE p = PlaceArrivalGroundEquipment
  <2>1. PICK power \in PowerReadings, chocksPlaced \in BOOLEAN :
          PlaceEquipmentTick(power, chocksPlaced)
    BY <1>10 DEF PhaseBody
  <2> DEFINE chocksIn == "chocks" \in craft.wish
             counted == [data EXCEPT !.equipTicks = EquipmentWait, !.chocksIn = chocksIn]
             asked == [counted EXCEPT !.gpuAsked = TRUE]
             waited == [asked EXCEPT !.gpuTicks = @ + 1]
  <2>2. \/ StayWith(data) \/ GoWith(RequestDeboarding, data)
        \/ ~GivesUpOnTheEquipment /\ StayWith(counted)
        \/ /\ ~GivesUpOnTheEquipment
           /\ \/ StayWith(asked) \/ GoWith(RequestDeboarding, asked)
              \/ ~(data.gpuTicks >= ConfirmationGiveUpTicks) /\ StayWith(waited)
    BY <2>1, Zenon DEF PlaceEquipmentTick, NothingElse
  <2>3. ASSUME ~GivesUpOnTheEquipment
        PROVE  /\ counted \in FlightData /\ Untowed(counted)
               /\ counted.gpuTicks = data.gpuTicks
    <3>1. EquipmentWait \in 0 .. EquipmentGiveUpTicks - 1
      BY <1>1, <2>3, DepartureConstants DEF FlightData, GivesUpOnTheEquipment, EquipmentWait
    <3>2. chocksIn \in BOOLEAN
      OBVIOUS
    <3> HIDE DEF chocksIn
    <3> QED
      BY <1>1, <3>1, <3>2 DEF FlightData, Untowed
  <2> HIDE DEF counted
  <2>4. ASSUME ~GivesUpOnTheEquipment
        PROVE  /\ asked \in FlightData /\ Untowed(asked)
               /\ asked.gpuTicks = data.gpuTicks
    BY <2>3, <2>4 DEF FlightData, Untowed
  <2> HIDE DEF asked
  <2>5. ASSUME ~GivesUpOnTheEquipment, ~(data.gpuTicks >= ConfirmationGiveUpTicks)
        PROVE  waited \in FlightData /\ Untowed(waited)
    <3>1. asked \in FlightData /\ Untowed(asked) /\ asked.gpuTicks = data.gpuTicks
      BY <2>4, <2>5
    <3>2. asked.gpuTicks + 1 \in 0 .. ConfirmationGiveUpTicks
      BY <1>1, <2>5, <3>1, DepartureConstants DEF FlightData
    <3> QED
      BY <3>1, <3>2 DEF FlightData, Untowed
  <2> HIDE DEF waited
  <2> QED
    BY <1>1, <1>10, <2>2, <2>3, <2>4, <2>5, AsideByOutcome
<1>11. CASE p = RequestDeboarding
  <2> DEFINE asks == parked /\ gsx.deboard = "Callable" /\ ~data.deboardAsked
             kept == (data.deboardAsked \/ asks) /\ ~ForgetTheDeboardingAsk
             d == [data EXCEPT !.deboardAsked = kept]
  <2>1. RequestDeboardingTick(parked)
    BY <1>11 DEF PhaseBody
  <2>2. StayWith(d) \/ GoWith(Deboarding, data)
    BY <2>1, Zenon DEF RequestDeboardingTick
  <2>3. kept \in BOOLEAN
    BY DEF ForgetTheDeboardingAsk
  <2> HIDE DEF kept
  <2>4. d \in FlightData /\ Untowed(d)
    BY <1>1, <2>3 DEF FlightData, Untowed
  <2> HIDE DEF d
  <2> QED
    BY <1>1, <1>11, <2>2, <2>4, AsideByOutcome
<1>12. CASE p = Deboarding
  <2> DEFINE shown == gsx.deboard = "Callable" /\ data.baselined
             based == data.baselined \/ gsx.deboard \in {"Active", "Moving"}
             d == [data EXCEPT !.interrupted = shown, !.baselined = based]
  <2>1. DeboardingTick
    BY <1>12 DEF PhaseBody
  <2>2. StayUncounted(d) \/ GoWith(CabinServices, data)
    BY <2>1, Zenon DEF DeboardingTick
  <2>3. shown \in BOOLEAN /\ based \in BOOLEAN
    BY <1>1 DEF FlightData
  <2> HIDE DEF shown, based
  <2>4. d \in FlightData /\ Untowed(d)
    BY <1>1, <2>3 DEF FlightData, Untowed
  <2> HIDE DEF d
  <2> QED
    BY <1>1, <1>12, <2>2, <2>4, AsideByOutcome
<1>13. CASE p = CabinServices
  <2>1. PICK working \in SUBSET Services : CabinServicesTick(working)
    BY <1>13 DEF PhaseBody
  <2> DEFINE due == TickCondition(WaitTicks)
             seen == data.seen \cup working
             looked == [data EXCEPT !.seen = seen,
                          !.intervals = IF due THEN IntervalsSoFar(working) ELSE @]
  <2>2. \/ ToDispatch # {} /\ StayWith(Dispatched(working))
        \/ GoAfter(WaitingNewFlight, ExitDelayTicks) /\ UNCHANGED data
        \/ StayWith(looked)
    BY <2>1, Zenon DEF CabinServicesTick
  <2>3. IntervalsSoFar(working) \in Nat /\ seen \in SUBSET Services
    BY <1>1 DEF IntervalsSoFar, FlightData
  <2> HIDE DEF seen
  <2>4. looked \in FlightData /\ Untowed(looked)
    BY <1>1, <2>3 DEF FlightData, Untowed
  <2> HIDE DEF looked
  <2>5. CASE ToDispatch # {} /\ StayWith(Dispatched(working))
    BY <1>1, <1>13, <2>5, DispatchedIsTyped, AsideByOutcome DEF Untowed
  <2>6. CASE GoAfter(WaitingNewFlight, ExitDelayTicks) /\ UNCHANGED data
    <3>1. phase' = CabinServices /\ data' = data
      BY <1>13, <2>6 DEF GoAfter
    <3> QED
      BY <3>1 DEF Aside
  <2> QED
    BY <1>1, <1>13, <2>2, <2>4, <2>5, <2>6, AsideByOutcome
<1>14. CASE p = WaitingNewFlight
  <2>1. PICK switch \in BOOLEAN : NewFlightTick(switch)
    BY <1>14 DEF PhaseBody
  <2>2. StayUncounted(FreshData) \/ GoWith(WaitingSupportedAircraft, data)
    BY <2>1 DEF NewFlightTick
  <2> QED
    BY <1>1, <1>14, <2>2, AsideByOutcome
<1> QED
  BY <1>2, <1>3, <1>4, <1>5, <1>6, <1>7, <1>8, <1>9, <1>10, <1>11, <1>12,
     <1>13, <1>14

\* What GSX is in.
GsxStates ==
  [push : Pushes, offers : BOOLEAN, confirms : BOOLEAN, deice : BOOLEAN,
   gpu : Powers, deboard : Deboards, down : BOOLEAN, lives : Nat]

PushInv == gsx \in GsxStates /\ PushIsTrue

LEMMA MeanwhileGsxIsUp ==
  ASSUME gsx \in GsxStates, GsxMeanwhile
  PROVE  gsx' \in GsxStates /\ ~gsx'.down
<1> DEFINE pushes == IF Enters(RequestPushback) THEN Pushes
                     ELSE IF phase' \in PushPhases THEN {gsx.push} ELSE {"Callable"}
           offers == IF Enters(RequestPushback) THEN BOOLEAN ELSE {gsx.offers}
           confirms == IF Enters(RequestPushback) THEN BOOLEAN ELSE {gsx.confirms}
           deices == {gsx.deice /\ phase' = phase}
           gpus == IF Enters(RemoveGroundEquipment) \/ Enters(PlaceArrivalGroundEquipment)
                   THEN Powers ELSE IF phase' = phase THEN {gsx.gpu} ELSE {"Off"}
           deboards == IF Enters(RequestDeboarding) THEN Deboards
                       ELSE IF phase' = Deboarding \/ phase' = phase
                       THEN {gsx.deboard} ELSE {"Callable"}
<1>1. /\ pushes \subseteq Pushes /\ offers \subseteq BOOLEAN
      /\ confirms \subseteq BOOLEAN /\ gpus \subseteq Powers
      /\ deboards \subseteq Deboards
  BY DEF GsxStates, Pushes, Powers, Deboards
<1>2. deices \subseteq BOOLEAN
  BY DEF GsxStates
<1>3. gsx' \in [push : pushes, offers : offers, confirms : confirms, deice : deices,
                gpu : gpus, deboard : deboards, down : {FALSE}, lives : {gsx.lives}]
  BY DEF GsxMeanwhile
<1> HIDE DEF pushes, offers, confirms, deices, gpus, deboards
<1> QED
  BY <1>1, <1>2, <1>3 DEF GsxStates

\* The tick that waits for the pushback.
LEMMA TowTicksAreTrue ==
  ASSUME FlightInv, PushInv, MachineInv, GsxMeanwhile,
         Evaluated = WaitingPushbackToStart, PhaseBody(WaitingPushbackToStart)
  PROVE  PushInv'
<1>1. /\ data \in FlightData /\ hist \in Histories /\ phase = WaitingPushbackToStart
      /\ gsx' \in GsxStates /\ ~gsx'.down
  BY EvaluatedHere, MeanwhileGsxIsUp DEF FlightInv, FlightTypes, PushInv
<1>2. PICK taxiing \in BOOLEAN : PushbackToStartTick(taxiing)
  BY DEF PhaseBody
<1> DEFINE lost == \/ data.pushPending /\ gsx.down
                   \/ data.pushLost /\ ~(PushPending /\ ~data.pushPending)
           pending == PushPending
           shown == lost /\ ~pending
           dropped == hist.dropped /\ phase' = phase /\ ~(PushPending /\ ~data.pushPending)
<1>3. CASE StayUncounted(NotedPushback)
  <2>1. phase' = phase /\ data' = NotedPushback
    BY <1>1, <1>3 DEF StayUncounted, Stay
  <2>2. data' = [data EXCEPT !.pushPending = pending, !.pushLost = lost,
                             !.interrupted = shown]
    BY <2>1, Zenon DEF NotedPushback
  <2>3. hist' = [hist EXCEPT !.dropped = dropped]
    BY <1>2, Zenon DEF PushbackToStartTick
  <2>4. lost => dropped
    BY <1>1, <2>1 DEF PushInv, PushIsTrue
  <2>5. lost \in BOOLEAN /\ pending \in BOOLEAN /\ shown \in BOOLEAN
        /\ dropped \in BOOLEAN /\ (shown => lost)
    BY DEF PushPending
  <2> HIDE DEF lost, pending, shown, dropped
  <2>6. data'.pushLost = lost /\ data'.interrupted = shown /\ hist'.dropped = dropped
    BY <1>1, <2>2, <2>3, <2>5 DEF FlightData, Histories
  <2> QED
    BY <1>1, <2>1, <2>4, <2>5, <2>6 DEF PushInv, PushIsTrue
<1>4. ASSUME NEW next \in {WaitingDeparture, WaitingForEngines}, GoWith(next, data)
      PROVE  PushInv'
  <2>1. phase' = next /\ data' = [FreshData EXCEPT !.resumed = data.resumed]
    BY <1>4 DEF GoWith, Go, GoAs, Kept
  <2>2. Untowed(data')
    BY <2>1 DEF FreshData, Untowed
  <2> QED
    BY <1>1, <2>1, <2>2 DEF PushInv, PushIsTrue
<1> QED
  BY <1>2, <1>3, <1>4 DEF PushbackToStartTick

LEMMA FlightTicksAreTrue ==
  ASSUME FlightInv, PushInv, MachineInv, NEW p \in FlightPhases, FlightTick(p)
  PROVE  PushInv'
<1>1. Evaluated = p /\ PhaseBody(p) /\ GsxMeanwhile
  BY DEF FlightTick, PhaseTick
<1>2. CASE p = WaitingPushbackToStart
  BY <1>1, <1>2, TowTicksAreTrue
<1>3. CASE p # WaitingPushbackToStart
  <2>1. phase # WaitingPushbackToStart
    BY <1>1, <1>3, EvaluatedHere
  <2>2. Aside
    BY <1>1, <1>3, <2>1, BodiesStandAside DEF PushInv, PushIsTrue
  <2>3. gsx' \in GsxStates /\ ~gsx'.down
    BY <1>1, MeanwhileGsxIsUp DEF PushInv
  <2> QED
    BY <2>2, <2>3 DEF Aside, Untowed, PushInv, PushIsTrue
<1> QED
  BY <1>2, <1>3

LEMMA OtherTicksAreTrue ==
  ASSUME FlightInv, PushInv, EngineTick
  PROVE  PushInv'
<1>1. /\ data \in FlightData /\ gsx' \in GsxStates /\ ~gsx'.down
  BY MeanwhileGsxIsUp DEF FlightInv, FlightTypes, PushInv, EngineTick
<1>2. CASE data' = FreshData
  BY <1>1, <1>2 DEF FreshData, PushInv, PushIsTrue, Untowed
<1>3. CASE /\ phase' = phase
           /\ data' = data \/ data' = [data EXCEPT !.ticks = Counted(@)]
  <2> DEFINE n == Counted(data.ticks)
  <2>1. data' = data \/ data' = [data EXCEPT !.ticks = n]
    BY <1>3
  <2> HIDE DEF n
  <2>2. /\ data'.pushPending = data.pushPending /\ data'.pushLost = data.pushLost
        /\ data'.interrupted = data.interrupted
    BY <1>1, <2>1 DEF FlightData
  <2>3. phase = WaitingPushbackToStart => hist' = hist
    BY <1>3 DEF EngineTick
  <2> QED
    BY <1>1, <1>3, <2>2, <2>3 DEF PushInv, PushIsTrue, Untowed
<1> QED
  BY <1>2, <1>3 DEF EngineTick, DelayTick

LEMMA RestartsAreTrue ==
  ASSUME FlightInv, PushInv, Relaunch \/ RestartFlow
  PROVE  PushInv'
<1>1. data \in FlightData /\ gsx \in GsxStates
  BY DEF FlightInv, FlightTypes, PushInv
<1>2. CASE Relaunch
  <2> DEFINE lost == data.pushLost \/ (data.pushPending /\ gsx.down)
  <2>1. data' = [data EXCEPT !.ticks = 0, !.gpuTicks = 0, !.equipTicks = 0,
                             !.interrupted = FALSE, !.pushLost = lost]
    BY <1>2 DEF Relaunch, Restored
  <2>2. gsx' = [gsx EXCEPT !.down = FALSE] /\ phase' = phase /\ hist' = hist
    BY <1>2 DEF Relaunch, ResumeFrom, StandAt
  <2>3. gsx' \in GsxStates /\ ~gsx'.down
    BY <1>1, <2>2 DEF GsxStates
  <2>4. lost \in BOOLEAN
    BY <1>1 DEF FlightData
  <2>5. /\ phase # WaitingPushbackToStart => ~lost
        /\ phase = WaitingPushbackToStart /\ lost => hist.dropped
    BY DEF PushInv, PushIsTrue, Untowed
  <2> HIDE DEF lost
  <2>6. /\ data'.pushPending = data.pushPending /\ data'.pushLost = lost
        /\ data'.interrupted = FALSE
    BY <1>1, <2>1, <2>4 DEF FlightData
  <2> QED
    BY <2>2, <2>3, <2>5, <2>6 DEF PushInv, PushIsTrue, Untowed
<1>3. CASE RestartFlow
  <2>1. data' = FreshData /\ gsx' = [IdleGsx EXCEPT !.lives = gsx.lives]
    BY <1>3 DEF RestartFlow
  <2>2. gsx' \in GsxStates /\ ~gsx'.down
    BY <1>1, <2>1 DEF GsxStates, IdleGsx, Pushes, Powers, Deboards
  <2> QED
    BY <2>1, <2>2 DEF FreshData, PushInv, PushIsTrue, Untowed
<1> QED
  BY <1>2, <1>3

LEMMA EnvironmentIsTrue ==
  ASSUME FlightInv, PushInv, Environment
  PROVE  PushInv'
<1>1. data \in FlightData /\ hist \in Histories /\ gsx \in GsxStates
  BY DEF FlightInv, FlightTypes, PushInv
<1> USE DEF GsxStates, Pushes, Powers, Deboards
<1>2. CASE GsxRestarts
  <2> DEFINE dropped == hist.dropped
               \/ (phase = WaitingPushbackToStart /\ data.pushPending)
  <2>1. /\ hist' = [hist EXCEPT !.dropped = dropped]
        /\ data' = data /\ phase' = phase
        /\ gsx' = [gsx EXCEPT !.push = "Callable", !.gpu = "Off", !.down = TRUE,
                     !.deboard = "Callable", !.deice = FALSE, !.lives = @ + 1]
    BY <1>2 DEF GsxRestarts, machineVars
  <2>2. gsx' \in GsxStates
    <3>1. gsx.lives + 1 \in Nat
      BY <1>1
    <3> QED
      BY <1>1, <2>1, <3>1
  <2>3. dropped \in BOOLEAN
    BY <1>1 DEF Histories, FlightData
  <2>4. phase = WaitingPushbackToStart =>
          (data.interrupted \/ data.pushLost \/ data.pushPending => dropped)
    BY DEF PushInv, PushIsTrue
  <2>5. phase # WaitingPushbackToStart => Untowed(data)
    BY DEF PushInv, PushIsTrue
  <2> HIDE DEF dropped
  <2>6. hist'.dropped = dropped
    BY <1>1, <2>1, <2>3 DEF Histories
  <2> QED
    BY <2>1, <2>2, <2>4, <2>5, <2>6 DEF PushInv, PushIsTrue, Untowed
<1>3. CASE ~GsxRestarts
  <2>1. data' = data /\ phase' = phase /\ hist' = hist
    BY <1>3 DEF Environment, GsxHears, GsxMisses, Gsx, GsxPushes,
       EnginesConfirmedElsewhere, GsxDeboards, GsxMovesTheGpu, DeiceStartsOrEnds,
       ParkOrStart, machineVars
  <2>2. gsx' \in GsxStates /\ gsx'.down = gsx.down
    <3>1. ASSUME NEW ask \in Asks, GsxHears(ask)
          PROVE  gsx' \in GsxStates /\ gsx'.down = gsx.down
      BY <1>1, <3>1 DEF GsxHears, Gsx, Heard, IsUnderTow
    <3>2. ASSUME NEW ask \in Asks, GsxMisses(ask)
          PROVE  gsx' \in GsxStates /\ gsx'.down = gsx.down
      BY <1>1, <3>2 DEF GsxMisses, Gsx
    <3>3. CASE GsxPushes
      BY <1>1, <3>3 DEF GsxPushes, Gsx
    <3>4. CASE EnginesConfirmedElsewhere
      BY <1>1, <3>4 DEF EnginesConfirmedElsewhere, Gsx
    <3>5. CASE GsxDeboards
      BY <1>1, <3>5 DEF GsxDeboards, Gsx
    <3>6. CASE GsxMovesTheGpu
      BY <1>1, <3>6 DEF GsxMovesTheGpu, Gsx
    <3>7. CASE DeiceStartsOrEnds
      BY <1>1, <3>7 DEF DeiceStartsOrEnds, Gsx
    <3>8. CASE ParkOrStart
      BY <1>1, <3>8 DEF ParkOrStart
    <3> QED
      BY <1>3, <3>1, <3>2, <3>3, <3>4, <3>5, <3>6, <3>7, <3>8 DEF Environment
  <2> QED
    BY <2>1, <2>2 DEF PushInv, PushIsTrue, Untowed
<1> QED
  BY <1>2, <1>3

LEMMA StepsAreTrue ==
  ASSUME FlightInv, PushInv, MachineInv, [Next]_vars
  PROVE  PushInv'
<1>1. CASE EngineTick
  BY <1>1, OtherTicksAreTrue
<1>2. ASSUME NEW p \in FlightPhases, FlightTick(p)
      PROVE  PushInv'
  BY <1>2, FlightTicksAreTrue
<1>3. CASE Relaunch \/ RestartFlow
  BY <1>3, RestartsAreTrue
<1>4. CASE Environment
  BY <1>4, EnvironmentIsTrue
<1>5. CASE /\ (\E p \in Phases : AcceptPilotTouch(p)) \/ TakeOffOrLand
           /\ UNCHANGED flightVars
  <2>1. phase' = phase /\ UNCHANGED flightVars
    BY <1>5 DEF AcceptPilotTouch, TakeOffOrLand
  <2> QED
    BY <2>1 DEF PushInv, PushIsTrue, Untowed, flightVars
<1>6. CASE UNCHANGED vars
  BY <1>6 DEF vars, machineVars, flightVars, PushInv, PushIsTrue, Untowed
<1> QED
  BY <1>1, <1>2, <1>3, <1>4, <1>5, <1>6 DEF Next

\* In one arrival GSX is asked for the power and for each cabin service once
\* at most, the flow goes back to the engine wait once at most, and the pilot
\* is told of an interrupted pushback only when a restart of GSX took one;
\* also with any number of relaunches of the client, which marks the loss
\* itself (MarkThePushbackLostToTheRestart).
THEOREM NothingIsSaidTwiceOrFalsely == Spec => []SaidOnceAndTruly
<1>1. Init => PushInv
  BY DEF Init, PushInv, PushIsTrue, Untowed, FreshData, IdleGsx, GsxStates,
     Pushes, Powers, Deboards
<1>2. FlightInv /\ PushInv /\ MachineInv /\ [Next]_vars => PushInv'
  BY StepsAreTrue
<1>3. FlightInv /\ PushInv => SaidOnceAndTruly
  BY DEF FlightInv, AskedOnce, PushInv, PushIsTrue, SaidOnceAndTruly,
     ArrivalAsksOnce, EngineWaitResumesOnce, InterruptedOnlyByARestart
<1>4. Spec => []MachineInv
  BY FlightImplementsTheMachine, InvariantHolds, PTL
<1> QED
  BY <1>1, <1>2, <1>3, <1>4, FlightInvariantHolds, PTL DEF Spec
=============================================================================
