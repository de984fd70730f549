----------------------- MODULE FlightPlanCapture_proof -----------------------
(***************************************************************************)
(* The phases that wait for the flight plan, the power and the catering    *)
(* implement the machine, and capture the plan the aircraft and GSX have,  *)
(* whatever the bounds on the versions of the plan and the loads of GSX.   *)
(***************************************************************************)
EXTENDS FlightPlanCapture, TurnaroundStateMachine_proof

\* A transition without delay is one the machine may take.
LEMMA GoIsAnOpenTick ==
  ASSUME NEW p \in Phases \ {WaitingNewFlight}, NEW next \in Phases,
         <<p, next>> \in Transitions, DelayTicks(p, next) = 0,
         PhaseTick(p), Go(next)
  PROVE  OpenTick(p)
BY DEF OpenTick, Take

\* The transitions of these phases have none.
LEMMA PlanTransitions ==
  /\ <<WaitingFlightPlan, WaitingPowerOn>> \in Transitions
  /\ <<WaitingPowerOn, CallCatering>> \in Transitions
  /\ <<CallCatering, RequestFuel>> \in Transitions
  /\ DelayTicks(WaitingFlightPlan, WaitingPowerOn) = 0
  /\ DelayTicks(WaitingPowerOn, CallCatering) = 0
  /\ DelayTicks(CallCatering, RequestFuel) = 0
  /\ {WaitingFlightPlan, WaitingPowerOn, CallCatering}
       \subseteq Phases \ {WaitingNewFlight}
  /\ {WaitingPowerOn, CallCatering, RequestFuel} \subseteq Phases
BY DEF Transitions, DelayTicks, Phases, WaitingSupportedAircraft,
   WaitingFlightPlan, WaitingPowerOn, CallCatering, RequestFuel, Loading,
   WaitingDeparture, CabinServices, WaitingNewFlight

LEMMA StayIsAnOpenTick ==
  ASSUME NEW p \in Phases, PhaseTick(p), Stay
  PROVE  OpenTick(p)
BY DEF OpenTick

LEMMA PlanTicksAreOpenTicks ==
  ASSUME WaitingFlightPlanTick \/ WaitingPowerOnTick \/ CallCateringTick
  PROVE  Tick
<1>1. CASE WaitingFlightPlanTick
  <2>1. PhaseTick(WaitingFlightPlan)
    BY <1>1 DEF WaitingFlightPlanTick
  <2>2. Stay \/ Go(WaitingPowerOn)
    <3>1. CASE AwaitLatestFlightPlan
      BY <3>1 DEF AwaitLatestFlightPlan, StayWith
    <3>2. ASSUME NEW differs \in BOOLEAN, NEW aircraftHasPlan \in BOOLEAN,
                 CaptureOrFetch(differs, aircraftHasPlan)
          PROVE  Stay \/ Go(WaitingPowerOn)
      <4>1. PICK d, loaded : WaitOrCapture(d, loaded)
        BY <3>2 DEF CaptureOrFetch
      <4> QED
        BY <4>1 DEF WaitOrCapture, AwaitSimbriefLoad, CaptureFlightPlan,
           StayWith, GoWith
    <3> QED
      BY <1>1, <3>1, <3>2 DEF WaitingFlightPlanTick
  <2> QED
    BY <2>1, <2>2, PlanTransitions, StayIsAnOpenTick, GoIsAnOpenTick DEF Tick
<1>2. CASE WaitingPowerOnTick
  <2>1. PhaseTick(WaitingPowerOn) /\ (Stay \/ Go(CallCatering))
    BY <1>2 DEF WaitingPowerOnTick, StayWith, GoWith
  <2> QED
    BY <2>1, PlanTransitions, StayIsAnOpenTick, GoIsAnOpenTick DEF Tick
<1>3. CASE CallCateringTick
  <2>1. PhaseTick(CallCatering) /\ (Stay \/ Go(RequestFuel))
    BY <1>3 DEF CallCateringTick, DispatchCatering, StayWith, GoWith
  <2> QED
    BY <2>1, PlanTransitions, StayIsAnOpenTick, GoIsAnOpenTick DEF Tick
<1> QED
  BY <1>1, <1>2, <1>3

LEMMA PlanStepsAreMachineSteps ==
  ASSUME [Next]_vars
  PROVE  [MachineNext]_machineVars
<1>1. CASE PlanTick
  <2>1. EngineTick => Tick
    BY DEF EngineTick, Tick
  <2> QED
    BY <1>1, <2>1, PlanTicksAreOpenTicks DEF PlanTick, MachineNext
<1>2. ASSUME NEW gsxRestarted \in BOOLEAN, Relaunch(gsxRestarted)
      PROVE  MachineNext
  <2>1. phase \in Phases
    BY <1>2, PlanTransitions DEF Relaunch, PlanPhases
  <2> QED
    BY <1>2, <2>1 DEF Relaunch, MachineNext
<1>3. CASE RestartFlow
  BY <1>3 DEF RestartFlow, MachineNext
<1>4. CASE Environment
  BY <1>4 DEF Environment, Dispatch, PilotReloads, OfpArrives, OfpFails,
     GsxLoads, GsxRefuses, CouatlRestarts, Elsewhere
<1>5. CASE LiftOffOrTouchDown
  BY <1>5 DEF LiftOffOrTouchDown, MachineNext
<1>6. CASE UNCHANGED vars
  BY <1>6 DEF vars
<1> QED
  BY <1>1, <1>2, <1>3, <1>4, <1>5, <1>6 DEF Next

\* What the phases decide about the flight plan, the power and the catering is
\* a choice the machine leaves open.
THEOREM PlanImplementsTheMachine == Spec => MachineSpec
<1>1. Init => MachineInit
  BY DEF Init
<1>2. [Next]_vars => [MachineNext]_machineVars
  BY PlanStepsAreMachineSteps
<1> QED
  BY <1>1, <1>2, PTL DEF Spec, MachineSpec
-----------------------------------------------------------------------------
(***************************************************************************)
(* The invariant of these phases.  The data are those of a phase of the    *)
(* module, and fresh elsewhere; the versions are ordered as the dispatch   *)
(* has them; a plan GSX still serves from before it was seen to differ is  *)
(* one the client knows as stale, or one of a GSX that refuses; and an OFP *)
(* asked for after a refusal is no older than what GSX accepted.           *)
(***************************************************************************)
PlanData ==
  [flightPlanRequested : BOOLEAN,
   flightPlanRequestTicks : 0 .. FlightPlanRetryTicks,
   flightPlanRefused : BOOLEAN, latestFlightPlanRequested : BOOLEAN,
   differingFlightPlanTicks : 0 .. DifferingFetchTicks - 1,
   staleSimbriefGeneration : NoGeneration .. MaxGeneration,
   cateringAsked : BOOLEAN, cateringRequested : BOOLEAN]

\* An ask for the load is dropped when it has waited for a retry.
Fits(d) ==
  /\ d \in PlanData
  /\ d.flightPlanRequested => d.flightPlanRequestTicks < FlightPlanRetryTicks

PlanTypes ==
  /\ Fits(data)
  /\ stateTickCount \in 0 .. TickBound
  /\ flightPlanStatus \in {"Fetching", "Ready", "Error"}
  /\ gsx \in [loaded : BOOLEAN, generation : 0 .. MaxGeneration,
              refuses : BOOLEAN, ofp : 0 .. MaxOfp]
  /\ hist \in [servesOldPlan : BOOLEAN, acceptedOfp : 0 .. MaxOfp]

VersionsAreDispatched ==
  /\ dispatch \in 1 .. MaxOfp /\ ofp \in 1 .. dispatch
  /\ gsx.ofp <= dispatch /\ hist.acceptedOfp <= dispatch

RestsElsewhere ==
  /\ phase \notin PlanPhases => data = FreshData
  /\ phase \notin PlanPhases \cup {RequestFuel} => hist = NoHistory

OldPlanIsKnown ==
  hist.servesOldPlan =>
    /\ phase = WaitingFlightPlan
    /\ data.staleSimbriefGeneration # NoGeneration
    /\ gsx.generation = data.staleSimbriefGeneration \/ gsx.refuses

OfpIsRecent ==
  phase = WaitingFlightPlan /\ data.latestFlightPlanRequested
    => ofp >= hist.acceptedOfp

PlanInv ==
  /\ PlanTypes
  /\ VersionsAreDispatched
  /\ RestsElsewhere
  /\ OldPlanIsKnown
  /\ OfpIsRecent

\* The phases of the module, told apart from the others by their numbers.
LEMMA PlanPhasesAre ==
  /\ PlanPhases = {5, 6, 7} /\ RequestFuel = 8
  /\ WaitingFlightPlan = 5 /\ WaitingPowerOn = 6 /\ CallCatering = 7
BY DEF PlanPhases, WaitingFlightPlan, WaitingPowerOn, CallCatering, RequestFuel

LEMMA FreshDataFits == Fits(FreshData)
<1>1. /\ 0 \in 0 .. FlightPlanRetryTicks /\ 0 \in 0 .. DifferingFetchTicks - 1
      /\ -1 \in -1 .. MaxGeneration /\ NoGeneration = -1
  BY FlightPlanConstants DEF NoGeneration
<1> QED
  BY <1>1 DEF Fits, PlanData, FreshData

LEMMA NothingIsServed ==
  GsxWithoutPlan \in [loaded : BOOLEAN, generation : 0 .. MaxGeneration,
                     refuses : BOOLEAN, ofp : 0 .. MaxOfp]
BY FlightPlanConstants DEF GsxWithoutPlan, kUnknownGeneration

LEMMA NoHistoryIsHistory ==
  NoHistory \in [servesOldPlan : BOOLEAN, acceptedOfp : 0 .. MaxOfp]
BY FlightPlanConstants DEF NoHistory

\* The counts stay in their ranges.
LEMMA CountedInBound ==
  ASSUME NEW ticks \in 0 .. TickBound
  PROVE  Counted(ticks) \in 0 .. TickBound
BY FlightPlanConstants DEF Counted

LEMMA DifferingCountWraps ==
  ASSUME NEW n \in 0 .. DifferingFetchTicks - 1
  PROVE  (n + 1) % DifferingFetchTicks \in 0 .. DifferingFetchTicks - 1
BY FlightPlanConstants

\* What a transition leaves of the data.
LEMMA EnteredFits ==
  ASSUME NEW d, Fits(d), NEW next
  PROVE  /\ Fits(Entered(next, d))
         /\ next \notin PlanPhases => Entered(next, d) = FreshData
<1>1. CASE next \in {WaitingPowerOn, CallCatering}
  <2> DEFINE e == [FreshData EXCEPT !.cateringAsked = d.cateringAsked,
                                    !.cateringRequested = d.cateringRequested]
  <2>1. d.cateringAsked \in BOOLEAN /\ d.cateringRequested \in BOOLEAN
    BY DEF Fits, PlanData
  <2>2. FreshData \in PlanData
    BY FreshDataFits DEF Fits
  <2>3. e \in PlanData /\ ~e.flightPlanRequested
    BY <2>1, <2>2 DEF PlanData, FreshData
  <2> HIDE DEF e
  <2>4. Fits(e)
    BY <2>3 DEF Fits
  <2> QED
    BY <1>1, <2>4, PlanPhasesAre DEF Entered, e
<1>2. CASE next \notin {WaitingPowerOn, CallCatering}
  BY <1>2, FreshDataFits DEF Entered
<1> QED
  BY <1>1, <1>2
-----------------------------------------------------------------------------
(***************************************************************************)
(* WaitingFlightPlan.  What the differing plan does to the data, and what  *)
(* the rest of the phase then does with them.                              *)
(***************************************************************************)
LEMMA DifferingFits ==
  ASSUME PlanTypes, NEW differs \in BOOLEAN
  PROVE  /\ Fits(AfterTheDiffering(differs))
         /\ AfterTheDiffering(differs).staleSimbriefGeneration =
              IF FetchesForTheDiffering(differs)
              THEN gsx.generation ELSE data.staleSimbriefGeneration
         /\ AfterTheDiffering(differs).latestFlightPlanRequested =
              data.latestFlightPlanRequested
         /\ AfterTheDiffering(differs).flightPlanRefused = data.flightPlanRefused
<1> DEFINE ticks == IF differs
                    THEN (data.differingFlightPlanTicks + 1) % DifferingFetchTicks
                    ELSE 0
           stale == IF FetchesForTheDiffering(differs)
                    THEN gsx.generation ELSE data.staleSimbriefGeneration
           asks == data.flightPlanRequested /\ ~FetchesForTheDiffering(differs)
           d == [data EXCEPT !.differingFlightPlanTicks = ticks,
                             !.staleSimbriefGeneration = stale,
                             !.flightPlanRequested = asks]
<1>1. d = AfterTheDiffering(differs)
  BY DEF AfterTheDiffering
<1>2. Fits(data) /\ data \in PlanData
  BY DEF PlanTypes, Fits
<1>3. ticks \in 0 .. DifferingFetchTicks - 1
  BY <1>2, DifferingCountWraps, FlightPlanConstants DEF PlanData
<1>4. stale \in NoGeneration .. MaxGeneration
  BY <1>2, FlightPlanConstants DEF PlanTypes, PlanData, NoGeneration
<1>5. asks \in BOOLEAN /\ (asks => data.flightPlanRequested)
  OBVIOUS
<1> HIDE DEF ticks, stale, asks
<1>6. d \in PlanData
  BY <1>2, <1>3, <1>4, <1>5 DEF PlanData
<1>7. /\ d.flightPlanRequested = asks
      /\ d.flightPlanRequestTicks = data.flightPlanRequestTicks
      /\ d.staleSimbriefGeneration = stale
      /\ d.latestFlightPlanRequested = data.latestFlightPlanRequested
      /\ d.flightPlanRefused = data.flightPlanRefused
  BY <1>2 DEF PlanData
<1> HIDE DEF d
<1>8. Fits(d)
  BY <1>2, <1>5, <1>6, <1>7 DEF Fits
<1> QED
  BY <1>1, <1>7, <1>8 DEF stale

\* A tick that stays keeps its data, and one that goes enters the next phase.
LEMMA StayKeeps ==
  ASSUME PlanTypes, NEW d, Fits(d), StayWith(d)
  PROVE  data' = d /\ Fits(data') /\ stateTickCount' \in 0 .. TickBound
BY CountedInBound DEF StayWith, PlanTypes

LEMMA GoKeeps ==
  ASSUME NEW d, Fits(d), NEW next, GoWith(next, d)
  PROVE  /\ phase' = next /\ Fits(data') /\ stateTickCount' \in 0 .. TickBound
         /\ next \notin PlanPhases => data' = FreshData
BY EnteredFits, FlightPlanConstants DEF GoWith, Go, GoAs

\* Asking GSX for the load changes what is known of the ask only.
LEMMA AskingFits ==
  ASSUME PlanTypes, NEW d, Fits(d), AwaitSimbriefLoad(d)
  PROVE  /\ Fits(data') /\ stateTickCount' \in 0 .. TickBound
         /\ data'.staleSimbriefGeneration = d.staleSimbriefGeneration
         /\ data'.latestFlightPlanRequested = d.latestFlightPlanRequested
<1> DEFINE ticks == d.flightPlanRequestTicks + 1
           asked == [d EXCEPT !.flightPlanRequested = TRUE,
                              !.flightPlanRequestTicks = 0]
           waited == [d EXCEPT !.flightPlanRequestTicks = ticks]
           Kept(e) == /\ e.staleSimbriefGeneration = d.staleSimbriefGeneration
                      /\ e.latestFlightPlanRequested = d.latestFlightPlanRequested
<1>1. d \in PlanData
  BY DEF Fits
<1>2. Fits(asked) /\ Kept(asked)
  <2>1. 0 \in 0 .. FlightPlanRetryTicks /\ 0 < FlightPlanRetryTicks
    BY FlightPlanConstants
  <2>2. asked \in PlanData
    BY <1>1, <2>1 DEF PlanData
  <2>3. asked.flightPlanRequestTicks = 0 /\ Kept(asked)
    BY <1>1 DEF PlanData
  <2> HIDE DEF asked, Kept
  <2> QED
    BY <2>1, <2>2, <2>3 DEF Fits
<1>3. ticks \in Nat
  BY <1>1 DEF PlanData
<1>4. ASSUME ticks < FlightPlanRetryTicks
      PROVE  Fits(waited) /\ Kept(waited)
  <2>1. ticks \in 0 .. FlightPlanRetryTicks
    BY <1>3, <1>4, FlightPlanConstants
  <2> HIDE DEF ticks
  <2>2. waited \in PlanData /\ waited.flightPlanRequestTicks = ticks /\ Kept(waited)
    BY <1>1, <2>1 DEF PlanData
  <2> HIDE DEF waited
  <2> QED
    BY <1>4, <2>2 DEF Fits, ticks
<1>5. ASSUME d.flightPlanRequested, NEW refused \in BOOLEAN
      PROVE  LET e == [d EXCEPT !.flightPlanRequestTicks = ticks,
                                !.flightPlanRefused = refused,
                                !.flightPlanRequested = FALSE]
             IN Fits(e) /\ Kept(e)
  <2> DEFINE e == [d EXCEPT !.flightPlanRequestTicks = ticks,
                            !.flightPlanRefused = refused,
                            !.flightPlanRequested = FALSE]
  <2>1. ticks \in 0 .. FlightPlanRetryTicks
    BY <1>1, <1>5, FlightPlanConstants DEF Fits, PlanData
  <2> HIDE DEF ticks
  <2>2. e \in PlanData /\ ~e.flightPlanRequested /\ Kept(e)
    BY <1>1, <1>5, <2>1 DEF PlanData
  <2> HIDE DEF e
  <2>3. Fits(e) /\ Kept(e)
    BY <2>2 DEF Fits
  <2> QED
    BY <2>3 DEF e, ticks
<1>6. (d.flightPlanRefused \/ gsx.refuses) \in BOOLEAN
  OBVIOUS
<1>7. \E e : StayWith(e) /\ Fits(e) /\ Kept(e)
  <2>1. CASE ~d.flightPlanRequested
    <3>1. StayWith(asked)
      BY <2>1 DEF AwaitSimbriefLoad
    <3> QED
      BY <1>2, <3>1
  <2>2. CASE d.flightPlanRequested /\ ticks < FlightPlanRetryTicks
    <3>1. StayWith(waited)
      BY <2>2 DEF AwaitSimbriefLoad
    <3> QED
      BY <1>4, <2>2, <3>1
  <2>3. CASE d.flightPlanRequested /\ ~(ticks < FlightPlanRetryTicks)
    <3> DEFINE refused == d.flightPlanRefused \/ gsx.refuses
               e == [d EXCEPT !.flightPlanRequestTicks = ticks,
                              !.flightPlanRefused = refused,
                              !.flightPlanRequested = FALSE]
    <3>1. StayWith(e)
      BY <2>3 DEF AwaitSimbriefLoad
    <3>2. Fits(e) /\ Kept(e)
      BY <1>5, <1>6, <2>3
    <3> QED
      BY <3>1, <3>2
  <2> QED
    BY <2>1, <2>2, <2>3
<1> HIDE DEF Kept
<1>8. PICK e : StayWith(e) /\ Fits(e) /\ Kept(e)
  BY <1>7
<1>9. data' = e /\ stateTickCount' \in 0 .. TickBound
  BY <1>8, StayKeeps
<1> QED
  BY <1>8, <1>9 DEF Kept

\* Once the differing plan has been seen to, the tick stays with what was known
\* of the plans, asks for the latest OFP after a refusal, or captures.
LEMMA WaitOrCaptureKeeps ==
  ASSUME PlanTypes, NEW d, Fits(d), NEW loaded \in BOOLEAN,
         WaitOrCapture(d, loaded), PhaseTick(WaitingFlightPlan)
  PROVE  /\ Fits(data') /\ stateTickCount' \in 0 .. TickBound
         /\ \/ /\ phase' = WaitingFlightPlan
               /\ data'.staleSimbriefGeneration = d.staleSimbriefGeneration
               /\ \/ data'.latestFlightPlanRequested = d.latestFlightPlanRequested
                  \/ loaded /\ GsxServesTheLatestPlan(d) /\ NeedsTheLatestOfp(d)
            \/ /\ phase' = WaitingPowerOn
               /\ loaded /\ GsxServesTheLatestPlan(d) /\ ~NeedsTheLatestOfp(d)
<1> DEFINE served == loaded /\ GsxServesTheLatestPlan(d)
           planned == [d EXCEPT !.flightPlanRequested = FALSE]
           latest == [planned EXCEPT !.latestFlightPlanRequested = TRUE]
<1>1. d \in PlanData
  BY DEF Fits
<1>2. Fits(planned) /\ Fits(latest)
  <2>1. /\ planned \in PlanData /\ ~planned.flightPlanRequested
        /\ latest \in PlanData /\ ~latest.flightPlanRequested
    BY <1>1 DEF PlanData
  <2> HIDE DEF planned, latest
  <2> QED
    BY <2>1 DEF Fits
<1>3. latest.staleSimbriefGeneration = d.staleSimbriefGeneration
  BY <1>1 DEF PlanData
<1>4. \A e : StayWith(e) => phase' = WaitingFlightPlan
  BY DEF StayWith, Stay, PhaseTick
<1>5. CASE ~loaded /\ StayWith(d)
  BY <1>4, <1>5, StayKeeps
<1>6. CASE loaded /\ ~served /\ AwaitSimbriefLoad(d)
  <2>1. \E e : StayWith(e)
    BY <1>6 DEF AwaitSimbriefLoad
  <2> QED
    BY <1>4, <1>6, <2>1, AskingFits
<1>7. CASE served /\ NeedsTheLatestOfp(d) /\ StayWith(latest)
  <2> HIDE DEF latest
  <2> QED
    BY <1>2, <1>3, <1>4, <1>7, StayKeeps
<1>8. CASE served /\ ~NeedsTheLatestOfp(d) /\ CaptureFlightPlan(planned)
  <2> HIDE DEF planned
  <2> QED
    BY <1>2, <1>8, GoKeeps DEF CaptureFlightPlan
<1> QED
  BY <1>5, <1>6, <1>7, <1>8 DEF WaitOrCapture

\* In the phases of the module no transition is delayed: none expires there.
LEMMA NoDelayEndsHere ==
  ASSUME MachineInv, Evaluated \in PlanPhases
  PROVE  phase = Evaluated /\ ~Expiring
BY DEF MachineInv, DelayedTransition, Evaluated, Expiring, PlanPhases,
   WaitingFlightPlan, WaitingPowerOn, CallCatering, WaitingReadyToPush,
   WaitingNewFlight, OnFlight

\* What the tick of WaitingFlightPlan does with the versions of the plan.
LEMMA CaptureOrFetchKeeps ==
  ASSUME MachineInv, PlanInv, NEW differs \in BOOLEAN,
         NEW aircraftHasPlan \in BOOLEAN, CaptureOrFetch(differs, aircraftHasPlan),
         PhaseTick(WaitingFlightPlan), UNCHANGED <<dispatch, gsx>>
  PROVE  /\ PlanInv'
         /\ phase' = WaitingPowerOn =>
              /\ ~hist.servesOldPlan
              /\ data.flightPlanRefused => ofp >= hist'.acceptedOfp
<1> DEFINE d == AfterTheDiffering(differs)
           fetches == FetchesForTheDiffering(differs)
           loaded == HasPlan(aircraftHasPlan, d, fetches)
           served == loaded /\ GsxServesTheLatestPlan(d)
           asks == served /\ NeedsTheLatestOfp(d)
           accepted == IF asks THEN gsx.ofp ELSE hist.acceptedOfp
<1>1. phase = WaitingFlightPlan
  BY NoDelayEndsHere DEF PhaseTick, PlanPhases
<1>2. PlanTypes /\ VersionsAreDispatched /\ OldPlanIsKnown /\ OfpIsRecent
  BY DEF PlanInv
<1>3. /\ Fits(d)
      /\ d.staleSimbriefGeneration =
           IF fetches THEN gsx.generation ELSE data.staleSimbriefGeneration
      /\ d.latestFlightPlanRequested = data.latestFlightPlanRequested
      /\ d.flightPlanRefused = data.flightPlanRefused
  BY <1>2, DifferingFits
<1>4. WaitOrCapture(d, loaded)
  BY DEF CaptureOrFetch
<1>5. IF fetches \/ asks THEN RequestLatest ELSE KeepTheOfp
  BY DEF CaptureOrFetch
<1>6. hist' = [servesOldPlan |-> hist.servesOldPlan \/ fetches, acceptedOfp |-> accepted]
  BY DEF CaptureOrFetch, NeedsTheLatestOfp
<1>7. gsx.generation \in 0 .. MaxGeneration /\ gsx.ofp \in 0 .. MaxOfp
      /\ hist.acceptedOfp \in 0 .. MaxOfp /\ hist.servesOldPlan \in BOOLEAN
  BY <1>2 DEF PlanTypes
<1>8. fetches => d.staleSimbriefGeneration # NoGeneration /\ ~loaded
  BY <1>3, <1>7 DEF NoGeneration, HasPlan
<1>9. fetches \in BOOLEAN /\ loaded \in BOOLEAN
  BY DEF FetchesForTheDiffering, HasPlan
<1> HIDE DEF d, fetches, loaded
<1>10. /\ Fits(data') /\ stateTickCount' \in 0 .. TickBound
       /\ \/ /\ phase' = WaitingFlightPlan
             /\ data'.staleSimbriefGeneration = d.staleSimbriefGeneration
             /\ data'.latestFlightPlanRequested => d.latestFlightPlanRequested \/ asks
          \/ phase' = WaitingPowerOn /\ served /\ ~NeedsTheLatestOfp(d)
  BY <1>2, <1>3, <1>4, <1>9, WaitOrCaptureKeeps
<1>11. /\ flightPlanStatus' \in {"Fetching", "Ready", "Error"}
       /\ ofp' \in 1 .. dispatch /\ ofp' >= ofp /\ (asks => ofp' = dispatch)
  BY <1>2, <1>5 DEF PlanTypes, VersionsAreDispatched, RequestLatest, KeepTheOfp
<1>12. accepted \in 0 .. MaxOfp /\ accepted <= dispatch
  BY <1>2, <1>7 DEF VersionsAreDispatched
<1>13. PlanTypes'
  BY <1>2, <1>6, <1>7, <1>9, <1>10, <1>11, <1>12 DEF PlanTypes
<1>14. /\ hist'.acceptedOfp = accepted
       /\ hist'.servesOldPlan => hist.servesOldPlan \/ fetches
  BY <1>6
<1>15. VersionsAreDispatched'
  BY <1>2, <1>11, <1>12, <1>14 DEF VersionsAreDispatched
<1>16. served => ~hist.servesOldPlan
  <2>1. served => /\ d.staleSimbriefGeneration = data.staleSimbriefGeneration
                  /\ ~fetches
    BY <1>3, <1>8
  <2> QED
    BY <1>2, <1>7, <2>1 DEF OldPlanIsKnown, GsxServesTheLatestPlan,
       HasMovedPastTheStaleGeneration
<1>17. OldPlanIsKnown'
  <2>1. CASE phase' = WaitingFlightPlan
    <3>1. CASE fetches
      BY <1>3, <1>8, <1>10, <2>1, <3>1, PlanPhasesAre DEF OldPlanIsKnown
    <3>2. CASE ~fetches
      BY <1>2, <1>3, <1>10, <1>14, <2>1, <3>2, PlanPhasesAre DEF OldPlanIsKnown
    <3> QED
      BY <3>1, <3>2
  <2>2. CASE phase' = WaitingPowerOn
    BY <1>8, <1>10, <1>14, <1>16, <2>2, PlanPhasesAre DEF OldPlanIsKnown
  <2> QED
    BY <1>10, <2>1, <2>2
<1>18. OfpIsRecent'
  <2> SUFFICES ASSUME phase' = WaitingFlightPlan, data'.latestFlightPlanRequested
               PROVE  ofp' >= accepted
    BY <1>14 DEF OfpIsRecent
  <2>1. CASE asks
    BY <1>7, <1>11, <1>12, <2>1 DEF VersionsAreDispatched
  <2>2. CASE ~asks
    <3>1. data.latestFlightPlanRequested
      BY <1>3, <1>10, <2>2, PlanPhasesAre
    <3>2. ofp >= hist.acceptedOfp /\ accepted = hist.acceptedOfp
      BY <1>1, <1>2, <2>2, <3>1 DEF OfpIsRecent
    <3>3. ofp \in Int /\ ofp' \in Int
      BY <1>2, <1>11 DEF VersionsAreDispatched
    <3> QED
      BY <1>7, <1>11, <3>2, <3>3
  <2> QED
    BY <2>1, <2>2
<1>19. RestsElsewhere'
  BY <1>10, PlanPhasesAre DEF RestsElsewhere
<1>20. ASSUME phase' = WaitingPowerOn
       PROVE  /\ ~hist.servesOldPlan
              /\ data.flightPlanRefused => ofp >= hist'.acceptedOfp
  <2>1. served /\ ~asks
    BY <1>10, <1>20, PlanPhasesAre
  <2>2. data.flightPlanRefused => data.latestFlightPlanRequested
    BY <1>3, <2>1 DEF NeedsTheLatestOfp
  <2> QED
    BY <1>1, <1>2, <1>14, <1>16, <2>1, <2>2 DEF OfpIsRecent
<1> QED
  BY <1>13, <1>15, <1>17, <1>18, <1>19, <1>20 DEF PlanInv

LEMMA WaitingFlightPlanKeeps ==
  ASSUME MachineInv, PlanInv, WaitingFlightPlanTick
  PROVE  /\ PlanInv'
         /\ phase' = WaitingPowerOn =>
              /\ ~hist.servesOldPlan
              /\ data.flightPlanRefused => ofp >= hist'.acceptedOfp
<1>1. PhaseTick(WaitingFlightPlan) /\ UNCHANGED <<dispatch, gsx>>
  BY DEF WaitingFlightPlanTick
<1>2. phase = WaitingFlightPlan
  BY <1>1, NoDelayEndsHere DEF PhaseTick, PlanPhases
<1>3. CASE AwaitLatestFlightPlan
  <2>1. Fits(data) /\ PlanTypes
    BY DEF PlanInv, PlanTypes
  <2>2. data' = data /\ Fits(data') /\ stateTickCount' \in 0 .. TickBound
    BY <1>3, <2>1, StayKeeps DEF AwaitLatestFlightPlan
  <2>3. phase' = WaitingFlightPlan /\ hist' = hist
    BY <1>1, <1>3 DEF AwaitLatestFlightPlan, StayWith, Stay, PhaseTick
  <2>4. /\ flightPlanStatus' \in {"Fetching", "Ready", "Error"}
        /\ ofp' \in 1 .. dispatch /\ ofp' >= ofp
    BY <1>3 DEF AwaitLatestFlightPlan, RequestLatest, KeepTheOfp, PlanInv,
       PlanTypes, VersionsAreDispatched
  <2>5. PlanTypes' /\ VersionsAreDispatched' /\ OldPlanIsKnown' /\ RestsElsewhere'
    BY <1>1, <1>2, <2>2, <2>3, <2>4, PlanPhasesAre
       DEF PlanInv, PlanTypes, VersionsAreDispatched, OldPlanIsKnown, RestsElsewhere
  <2>6. OfpIsRecent'
    <3>1. ofp \in Int /\ ofp' \in Int /\ hist.acceptedOfp \in Int
      BY <2>4 DEF PlanInv, PlanTypes, VersionsAreDispatched
    <3> QED
      BY <1>2, <2>2, <2>3, <2>4, <3>1 DEF PlanInv, OfpIsRecent
  <2> QED
    BY <2>3, <2>5, <2>6, PlanPhasesAre DEF PlanInv
<1> QED
  BY <1>1, <1>3, CaptureOrFetchKeeps DEF WaitingFlightPlanTick
-----------------------------------------------------------------------------
(***************************************************************************)
(* The other phases of the module, which keep the plan as it is.           *)
(***************************************************************************)
LEMMA ThePlanIsKept ==
  ASSUME PlanInv, Fits(data'), stateTickCount' \in 0 .. TickBound,
         UNCHANGED <<flightPlanStatus, ofp, dispatch, gsx, hist>>,
         phase # WaitingFlightPlan, phase' # WaitingFlightPlan,
         phase' \in PlanPhases \/ (phase' = RequestFuel /\ data' = FreshData)
  PROVE  PlanInv'
<1>1. PlanTypes' /\ VersionsAreDispatched'
  BY DEF PlanInv, PlanTypes, VersionsAreDispatched
<1>2. RestsElsewhere'
  BY DEF RestsElsewhere
<1>3. OldPlanIsKnown' /\ OfpIsRecent'
  BY DEF PlanInv, OldPlanIsKnown, OfpIsRecent
<1> QED
  BY <1>1, <1>2, <1>3 DEF PlanInv

LEMMA PowerAndCateringKeep ==
  ASSUME MachineInv, PlanInv, WaitingPowerOnTick \/ CallCateringTick
  PROVE  PlanInv' /\ phase # WaitingFlightPlan
<1> DEFINE Ends(d, next) == /\ Fits(d)
                            /\ StayWith(d) \/ GoWith(next, d)
                            /\ next \in {CallCatering, RequestFuel}
<1>1. phase \in {WaitingPowerOn, CallCatering} /\ Evaluated = phase
  BY NoDelayEndsHere DEF WaitingPowerOnTick, CallCateringTick, PhaseTick, PlanPhases
<1>2. UNCHANGED <<flightPlanStatus, ofp, dispatch, gsx, hist>>
  BY DEF WaitingPowerOnTick, CallCateringTick
<1>3. Fits(data) /\ PlanTypes
  BY DEF PlanInv, PlanTypes
<1>4. Fits([data EXCEPT !.cateringRequested = TRUE])
  <2> DEFINE e == [data EXCEPT !.cateringRequested = TRUE]
  <2>1. /\ e \in PlanData
        /\ e.flightPlanRequested = data.flightPlanRequested
        /\ e.flightPlanRequestTicks = data.flightPlanRequestTicks
    BY <1>3 DEF Fits, PlanData
  <2> HIDE DEF e
  <2>2. Fits(e)
    BY <1>3, <2>1 DEF Fits
  <2> QED
    BY <2>2 DEF e
<1>5. Fits([data EXCEPT !.cateringAsked = TRUE])
  <2> DEFINE e == [data EXCEPT !.cateringAsked = TRUE]
  <2>1. /\ e \in PlanData
        /\ e.flightPlanRequested = data.flightPlanRequested
        /\ e.flightPlanRequestTicks = data.flightPlanRequestTicks
    BY <1>3 DEF Fits, PlanData
  <2> HIDE DEF e
  <2>2. Fits(e)
    BY <1>3, <2>1 DEF Fits
  <2> QED
    BY <2>2 DEF e
<1>6. \E d, next : Ends(d, next)
  BY <1>3, <1>4, <1>5 DEF WaitingPowerOnTick, CallCateringTick, DispatchCatering
<1>7. PICK d, next : Ends(d, next)
  BY <1>6
<1>8. CASE StayWith(d)
  <2>1. phase' = phase
    BY <1>1, <1>8 DEF StayWith, Stay
  <2> QED
    BY <1>1, <1>2, <1>3, <1>7, <1>8, <2>1, StayKeeps, ThePlanIsKept, PlanPhasesAre
<1>9. CASE GoWith(next, d)
  BY <1>1, <1>2, <1>7, <1>9, GoKeeps, ThePlanIsKept, PlanPhasesAre
<1> QED
  BY <1>1, <1>7, <1>8, <1>9, PlanPhasesAre
-----------------------------------------------------------------------------
\* The engine and the other phases enter this module by WaitingFlightPlan only,
\* and leave it for the flight only.
LEMMA EngineMoves ==
  ASSUME MachineInv, DelayTick \/ AirborneTick \/ \E p \in Phases \ PlanPhases : OpenTick(p)
  PROVE  /\ phase' \in PlanPhases =>
              \/ phase' = phase
              \/ phase' = WaitingFlightPlan /\ phase \notin PlanPhases \cup {RequestFuel}
         /\ phase = WaitingFlightPlan => phase' # WaitingPowerOn
<1>1. phase \in Phases /\ Evaluated \in Phases
  BY EvaluatedIsAPhase DEF MachineInv, MachineTypeOK
<1>2. Evaluated \in PlanPhases \cup {RequestFuel} => phase = Evaluated
  BY DEF MachineInv, DelayedTransition, Evaluated, Expiring, PlanPhases,
     WaitingFlightPlan, WaitingPowerOn, CallCatering, RequestFuel,
     WaitingReadyToPush, WaitingNewFlight, OnFlight
<1>3. phase \in PlanPhases \cup {RequestFuel} => Evaluated = phase
  BY DEF MachineInv, DelayedTransition, Evaluated, Expiring, PlanPhases,
     WaitingFlightPlan, WaitingPowerOn, CallCatering, RequestFuel, Loading,
     CabinServices, WaitingDeparture
<1>4. CASE DelayTick
  BY <1>4, PlanPhasesAre DEF DelayTick
<1>5. CASE AirborneTick
  <2>1. phase' \in {Evaluated, OnFlight}
    BY <1>5 DEF AirborneTick, CountTheAirborneTick, Stay, Go, GoAs
  <2> QED
    BY <1>2, <1>3, <2>1, PlanPhasesAre DEF OnFlight
<1>6. ASSUME NEW p \in Phases \ PlanPhases, OpenTick(p)
      PROVE  /\ phase \notin PlanPhases
             /\ phase' \in PlanPhases => phase' = WaitingFlightPlan /\ phase # RequestFuel
  <2>1. Evaluated = p
    BY <1>6 DEF OpenTick, PhaseTick
  <2>2. \/ phase' = p
        \/ \E next \in Phases : /\ <<p, next>> \in Transitions
                                /\ phase' \in {next, p}
        \/ phase' \in {WaitingSupportedAircraft, WaitCatering}
    BY <1>6, <2>1 DEF OpenTick, Stay, Take, Go, GoAs, GoAfter
  <2>3. \A next \in PlanPhases :
          <<p, next>> \in Transitions => next = WaitingFlightPlan /\ p # RequestFuel
    BY <1>6, PlanPhasesAre DEF Transitions, WaitingSupportedAircraft,
       WaitingAircraftReady, RepositionAircraft, PlaceGroundEquipment,
       CallServices, Loading, WaitingReadyToPush, WaitCatering,
       RemoveGroundEquipment, RequestPushback, WaitingPushbackToStart,
       WaitingForEngines, WaitingDeparture, OnFlight, WaitingEngineShutdown,
       PlaceArrivalGroundEquipment, RequestDeboarding, Deboarding,
       CabinServices, WaitingNewFlight
  <2>4. phase \notin PlanPhases /\ (phase = RequestFuel => p = RequestFuel)
    BY <1>3, <1>6, <2>1
  <2> QED
    <3>1. CASE phase' = p \/ phase' \in {WaitingSupportedAircraft, WaitCatering}
      BY <1>6, <2>4, <3>1, PlanPhasesAre DEF WaitingSupportedAircraft, WaitCatering
    <3>2. ASSUME NEW next \in Phases, <<p, next>> \in Transitions, phase' = next
          PROVE  phase' \in PlanPhases => phase' = WaitingFlightPlan /\ phase # RequestFuel
      BY <2>3, <2>4, <3>2
    <3> QED
      BY <2>2, <2>4, <3>1, <3>2
<1> QED
  BY <1>4, <1>5, <1>6, PlanPhasesAre

LEMMA EngineKeeps ==
  ASSUME MachineInv, PlanInv, EngineTick
  PROVE  /\ PlanInv'
         /\ phase = WaitingFlightPlan => phase' # WaitingPowerOn
<1>1. /\ phase' \in PlanPhases =>
           \/ phase' = phase
           \/ phase' = WaitingFlightPlan /\ phase \notin PlanPhases \cup {RequestFuel}
      /\ phase = WaitingFlightPlan => phase' # WaitingPowerOn
  BY EngineMoves DEF EngineTick
<1>2. Fits(data') /\ (phase' \notin PlanPhases => data' = FreshData)
      /\ (phase' \in PlanPhases => data' = data)
  BY FreshDataFits DEF EngineTick, PlanInv, PlanTypes
<1>3. stateTickCount' \in 0 .. TickBound
  BY CountedInBound, FlightPlanConstants DEF EngineTick, PlanInv, PlanTypes
<1>4. /\ phase' # WaitingFlightPlan => hist' = NoHistory
      /\ phase' = WaitingFlightPlan => hist' = hist
      /\ phase' = WaitingFlightPlan /\ phase # WaitingFlightPlan => hist' = NoHistory
  BY <1>1, PlanPhasesAre DEF EngineTick, PlanInv, RestsElsewhere
<1>5. NoHistory.acceptedOfp = 0 /\ NoHistory.servesOldPlan = FALSE
  BY DEF NoHistory
<1>6. hist' \in {hist, NoHistory}
  BY <1>4
<1>7. RestsElsewhere'
  BY <1>2, <1>4, PlanPhasesAre DEF RestsElsewhere
<1>8. CASE phase' = phase /\ UNCHANGED <<flightPlanStatus, ofp, dispatch, gsx>>
  <2>1. PlanTypes'
    BY <1>2, <1>3, <1>6, <1>8, NoHistoryIsHistory DEF PlanInv, PlanTypes
  <2>2. VersionsAreDispatched'
    BY <1>5, <1>6, <1>8 DEF PlanInv, VersionsAreDispatched
  <2>3. OldPlanIsKnown'
    BY <1>2, <1>4, <1>5, <1>8, PlanPhasesAre DEF PlanInv, OldPlanIsKnown
  <2>4. OfpIsRecent'
    BY <1>2, <1>4, <1>8, PlanPhasesAre DEF PlanInv, OfpIsRecent
  <2> QED
    BY <1>1, <1>7, <2>1, <2>2, <2>3, <2>4 DEF PlanInv
<1>9. CASE phase' \notin {phase, WaitingFlightPlan} /\ NoPlan
  <2>1. PlanTypes'
    BY <1>2, <1>3, <1>4, <1>9, NothingIsServed, NoHistoryIsHistory
       DEF NoPlan, PlanTypes
  <2>2. VersionsAreDispatched'
    BY <1>4, <1>5, <1>9, FlightPlanConstants
       DEF NoPlan, GsxWithoutPlan, VersionsAreDispatched
  <2>3. OldPlanIsKnown' /\ OfpIsRecent'
    BY <1>4, <1>5, <1>9 DEF OldPlanIsKnown, OfpIsRecent
  <2> QED
    BY <1>1, <1>7, <2>1, <2>2, <2>3 DEF PlanInv
<1>10. CASE phase' # phase /\ phase' = WaitingFlightPlan /\ AnyPlan
  <2>1. hist' = NoHistory
    BY <1>4, <1>10
  <2>2. dispatch' \in 1 .. MaxOfp /\ ofp' \in 1 .. dispatch'
    BY <1>10 DEF AnyPlan
  <2>3. /\ gsx' \in [loaded : BOOLEAN, generation : 0 .. MaxGeneration,
                     refuses : BOOLEAN, ofp : 0 .. MaxOfp]
        /\ gsx'.ofp <= dispatch'
    <3>1. CASE gsx' = GsxWithoutPlan
      <4>1. gsx'.ofp = 0
        BY <3>1 DEF GsxWithoutPlan
      <4> QED
        BY <2>2, <3>1, <4>1, NothingIsServed
    <3>2. CASE gsx' \in [loaded : {TRUE}, generation : {1}, refuses : BOOLEAN,
                        ofp : 1 .. dispatch']
      <4>1. 1 \in 0 .. MaxGeneration /\ 1 .. dispatch' \subseteq 0 .. MaxOfp
        BY <2>2, FlightPlanConstants
      <4>2. gsx'.ofp <= dispatch'
        BY <2>2, <3>2
      <4> QED
        BY <3>2, <4>1, <4>2
    <3> QED
      BY <1>10, <3>1, <3>2 DEF AnyPlan
  <2>4. PlanTypes'
    BY <1>2, <1>3, <1>10, <2>1, <2>3, NoHistoryIsHistory DEF AnyPlan, PlanTypes
  <2>5. VersionsAreDispatched' /\ OldPlanIsKnown' /\ OfpIsRecent'
    BY <1>5, <2>1, <2>2, <2>3
       DEF VersionsAreDispatched, OldPlanIsKnown, OfpIsRecent
  <2> QED
    BY <1>1, <1>7, <2>4, <2>5 DEF PlanInv
<1> QED
  BY <1>1, <1>8, <1>9, <1>10 DEF EngineTick
-----------------------------------------------------------------------------
\* A relaunch takes up the phase with what is saved; a reset starts over.
LEMMA RelaunchKeeps ==
  ASSUME PlanInv, NEW gsxRestarted \in BOOLEAN, Relaunch(gsxRestarted)
  PROVE  PlanInv' /\ restarts' # restarts
<1> DEFINE saved == SavedFields(data)
<1>1. phase \in PlanPhases /\ phase' = phase
  BY DEF Relaunch, ResumeFrom, StandAt
<1>2. Fits(saved) /\ ~saved.latestFlightPlanRequested
  <2>1. 0 \in 0 .. FlightPlanRetryTicks /\ 0 < FlightPlanRetryTicks
        /\ 0 \in 0 .. DifferingFetchTicks - 1
        /\ NoGeneration \in NoGeneration .. MaxGeneration
    BY FlightPlanConstants DEF NoGeneration
  <2>2. data \in PlanData
    BY DEF PlanInv, PlanTypes, Fits
  <2>3. saved \in PlanData
    BY <2>1, <2>2 DEF SavedFields, PlanData
  <2>4. saved.flightPlanRequestTicks = 0 /\ ~saved.latestFlightPlanRequested
    BY <2>2 DEF SavedFields, PlanData
  <2> HIDE DEF saved
  <2> QED
    BY <2>1, <2>3, <2>4 DEF Fits
<1>3. data' = saved /\ stateTickCount' = 0 /\ hist' = NoHistory /\ UNCHANGED dispatch
  BY DEF Relaunch
<1> HIDE DEF saved
<1>4. gsx' \in {gsx, GsxWithoutPlan} /\ ofp' \in {ofp, dispatch}
      /\ flightPlanStatus' \in {flightPlanStatus, "Fetching"}
  BY DEF Relaunch, KeepTheOfp, RequestLatest
<1>5. PlanTypes'
  BY <1>2, <1>3, <1>4, NothingIsServed, NoHistoryIsHistory, FlightPlanConstants
     DEF PlanInv, PlanTypes
<1>6. VersionsAreDispatched'
  BY <1>3, <1>4 DEF PlanInv, VersionsAreDispatched, NoHistory, GsxWithoutPlan
<1>7. RestsElsewhere' /\ OldPlanIsKnown' /\ OfpIsRecent'
  BY <1>1, <1>2, <1>3 DEF RestsElsewhere, OldPlanIsKnown, OfpIsRecent, NoHistory
<1>8. restarts' # restarts
  BY MachineConstants DEF Relaunch, ResumeFrom, Restarting
<1> QED
  BY <1>5, <1>6, <1>7, <1>8 DEF PlanInv

LEMMA RestartFlowKeeps ==
  ASSUME PlanInv, RestartFlow
  PROVE  PlanInv'
<1>1. phase' = WaitingSupportedAircraft /\ phase' # WaitingFlightPlan
  BY DEF RestartFlow, Reset, StandAt, WaitingSupportedAircraft, WaitingFlightPlan
<1>2. /\ data' = FreshData /\ stateTickCount' = 0 /\ hist' = NoHistory
      /\ flightPlanStatus' = "Fetching" /\ ofp' = 1 /\ dispatch' = 1
      /\ gsx' = GsxWithoutPlan
  BY DEF RestartFlow, NoPlan
<1>3. PlanTypes'
  BY <1>2, FreshDataFits, NothingIsServed, NoHistoryIsHistory, FlightPlanConstants
     DEF PlanTypes
<1>4. VersionsAreDispatched'
  BY <1>2, FlightPlanConstants DEF VersionsAreDispatched, NoHistory, GsxWithoutPlan
<1> QED
  BY <1>1, <1>2, <1>3, <1>4
     DEF PlanInv, RestsElsewhere, OldPlanIsKnown, OfpIsRecent, NoHistory

\* The pilot, SimBrief and GSX, while the plan is waited for.
LEMMA EnvironmentKeeps ==
  ASSUME PlanInv, Environment
  PROVE  PlanInv' /\ phase' = phase
<1>1. /\ phase = WaitingFlightPlan /\ phase' = phase /\ data' = data
      /\ stateTickCount' = stateTickCount
  BY DEF Environment, Dispatch, PilotReloads, OfpArrives, OfpFails, GsxLoads,
     GsxRefuses, CouatlRestarts, Elsewhere, machineVars
<1>2. RestsElsewhere'
  BY <1>1, PlanPhasesAre DEF RestsElsewhere
<1>3. PlanTypes /\ VersionsAreDispatched /\ OldPlanIsKnown /\ OfpIsRecent
  BY DEF PlanInv
<1>4. CASE Dispatch \/ PilotReloads \/ OfpArrives \/ OfpFails
  <2>1. /\ UNCHANGED <<gsx, hist>>
        /\ flightPlanStatus' \in {"Fetching", "Ready", "Error"}
        /\ dispatch' \in 1 .. MaxOfp /\ dispatch' >= dispatch
        /\ ofp' \in 1 .. dispatch' /\ (ofp' >= ofp \/ ofp' = dispatch)
    BY <1>3, <1>4, FlightPlanConstants DEF Dispatch, PilotReloads, OfpArrives, OfpFails,
       RequestLatest, PlanTypes, VersionsAreDispatched
  <2>2. PlanTypes' /\ OldPlanIsKnown'
    BY <1>1, <1>3, <2>1 DEF PlanTypes, OldPlanIsKnown
  <2>3. gsx.ofp \in Nat /\ hist.acceptedOfp \in Nat /\ dispatch \in Nat
        /\ ofp \in Nat
    BY <1>3 DEF PlanTypes, VersionsAreDispatched
  <2>4. VersionsAreDispatched' /\ OfpIsRecent'
    BY <1>1, <1>3, <2>1, <2>3 DEF VersionsAreDispatched, OfpIsRecent
  <2> QED
    BY <1>1, <1>2, <2>2, <2>4 DEF PlanInv
<1>5. CASE GsxLoads \/ CouatlRestarts
  <2> DEFINE forgets == [hist EXCEPT !.servesOldPlan = FALSE]
  <2>1. UNCHANGED <<flightPlanStatus, ofp, dispatch>> /\ hist' = forgets
    BY <1>5 DEF GsxLoads, CouatlRestarts
  <2>2. /\ gsx' \in [loaded : BOOLEAN, generation : 0 .. MaxGeneration,
                     refuses : BOOLEAN, ofp : 0 .. MaxOfp]
        /\ gsx'.ofp <= dispatch
    <3>1. CASE GsxLoads
      <4>1. PICK version \in 1 .. dispatch :
              gsx' = [loaded |-> TRUE, generation |-> gsx.generation + 1,
                      refuses |-> FALSE, ofp |-> version]
        BY <3>1 DEF GsxLoads
      <4>2. gsx.generation + 1 \in 0 .. MaxGeneration
        BY <1>3, <3>1, FlightPlanConstants DEF GsxLoads, PlanTypes
      <4>3. version \in 0 .. MaxOfp /\ version <= dispatch
        BY <1>3, FlightPlanConstants DEF VersionsAreDispatched
      <4> QED
        BY <4>1, <4>2, <4>3
    <3>2. CASE CouatlRestarts
      <4>1. gsx' = GsxWithoutPlan /\ GsxWithoutPlan.ofp = 0
        BY <3>2 DEF CouatlRestarts, GsxWithoutPlan
      <4> QED
        BY <1>3, <4>1, NothingIsServed DEF VersionsAreDispatched
    <3> QED
      BY <1>5, <3>1, <3>2
  <2>3. /\ forgets \in [servesOldPlan : BOOLEAN, acceptedOfp : 0 .. MaxOfp]
        /\ forgets.acceptedOfp = hist.acceptedOfp /\ ~forgets.servesOldPlan
    BY <1>3 DEF PlanTypes
  <2> HIDE DEF forgets
  <2>4. PlanTypes'
    BY <1>1, <1>3, <2>1, <2>2, <2>3 DEF PlanTypes
  <2>5. VersionsAreDispatched' /\ OldPlanIsKnown' /\ OfpIsRecent'
    BY <1>1, <1>3, <2>1, <2>2, <2>3
       DEF VersionsAreDispatched, OldPlanIsKnown, OfpIsRecent
  <2> QED
    BY <1>1, <1>2, <2>4, <2>5 DEF PlanInv
<1>6. CASE GsxRefuses
  <2>1. PICK counted \in {0, 1} :
          gsx' = [gsx EXCEPT !.refuses = TRUE, !.generation = @ + counted]
    BY <1>6 DEF GsxRefuses
  <2>2. gsx.generation + counted \in 0 .. MaxGeneration
    BY <1>3, <1>6, FlightPlanConstants DEF GsxRefuses, PlanTypes
  <2>3. /\ gsx' \in [loaded : BOOLEAN, generation : 0 .. MaxGeneration,
                     refuses : BOOLEAN, ofp : 0 .. MaxOfp]
        /\ gsx'.ofp = gsx.ofp /\ gsx'.refuses
    BY <1>3, <2>1, <2>2 DEF PlanTypes
  <2>4. UNCHANGED <<flightPlanStatus, ofp, dispatch, hist>>
    BY <1>6 DEF GsxRefuses
  <2>5. PlanTypes' /\ VersionsAreDispatched' /\ OldPlanIsKnown' /\ OfpIsRecent'
    BY <1>1, <1>3, <2>3, <2>4
       DEF PlanTypes, VersionsAreDispatched, OldPlanIsKnown, OfpIsRecent
  <2> QED
    BY <1>1, <1>2, <2>5 DEF PlanInv
<1> QED
  BY <1>4, <1>5, <1>6 DEF Environment

LEMMA InitPlan == Init => PlanInv
<1> SUFFICES ASSUME Init
             PROVE  PlanInv
  OBVIOUS
<1>1. /\ phase = WaitingSupportedAircraft /\ phase # WaitingFlightPlan
      /\ data = FreshData /\ stateTickCount = 0 /\ hist = NoHistory
      /\ flightPlanStatus = "Fetching" /\ ofp = 1 /\ dispatch = 1
      /\ gsx = GsxWithoutPlan
  BY DEF Init, MachineInit, WaitingSupportedAircraft, WaitingFlightPlan
<1>2. PlanTypes
  BY <1>1, FreshDataFits, NothingIsServed, NoHistoryIsHistory, FlightPlanConstants
     DEF PlanTypes
<1>3. VersionsAreDispatched
  BY <1>1, FlightPlanConstants DEF VersionsAreDispatched, NoHistory, GsxWithoutPlan
<1> QED
  BY <1>1, <1>2, <1>3
     DEF PlanInv, RestsElsewhere, OldPlanIsKnown, OfpIsRecent, NoHistory

\* Every step keeps the invariant, and a step that captures the plan finds it
\* served anew and the OFP no older than what GSX accepted.
LEMMA PlanStepsKeep ==
  ASSUME MachineInv, PlanInv, [Next]_vars
  PROVE  /\ PlanInv'
         /\ Captures /\ restarts' = restarts =>
              /\ ~hist.servesOldPlan
              /\ data.flightPlanRefused => ofp >= hist'.acceptedOfp
<1>1. CASE WaitingFlightPlanTick
  BY <1>1, WaitingFlightPlanKeeps DEF Captures
<1>2. CASE WaitingPowerOnTick \/ CallCateringTick
  BY <1>2, PowerAndCateringKeep DEF Captures
<1>3. CASE EngineTick
  BY <1>3, EngineKeeps DEF Captures
<1>4. ASSUME NEW gsxRestarted \in BOOLEAN, Relaunch(gsxRestarted)
      PROVE  PlanInv' /\ restarts' # restarts
  BY <1>4, RelaunchKeeps
<1>5. CASE RestartFlow
  <2>1. ~Captures
    BY <1>5 DEF RestartFlow, Reset, StandAt, Captures, WaitingSupportedAircraft,
       WaitingPowerOn
  <2> QED
    BY <1>5, <2>1, RestartFlowKeeps
<1>6. CASE Environment
  BY <1>6, EnvironmentKeeps, PlanPhasesAre DEF Captures
<1>7. CASE LiftOffOrTouchDown \/ UNCHANGED vars
  <2>1. /\ UNCHANGED <<data, stateTickCount, flightPlanStatus, ofp, dispatch, gsx, hist>>
        /\ phase' = phase
    BY <1>7 DEF LiftOffOrTouchDown, TakeOffOrLand, planVars, vars, machineVars
  <2>2. PlanInv'
    BY <2>1 DEF PlanInv, PlanTypes, VersionsAreDispatched, RestsElsewhere,
       OldPlanIsKnown, OfpIsRecent
  <2> QED
    BY <2>1, <2>2, PlanPhasesAre DEF Captures
<1> QED
  BY <1>1, <1>2, <1>3, <1>4, <1>5, <1>6, <1>7 DEF Next, PlanTick

\* The machine's invariant and that of these phases hold together.
THEOREM PlanInvariantHolds == Spec => [](MachineInv /\ PlanInv)
<1>1. Init => PlanInv
  BY InitPlan
<1>2. MachineInv /\ PlanInv /\ [Next]_vars => PlanInv'
  BY PlanStepsKeep
<1>3. Spec => []MachineInv
  BY PlanImplementsTheMachine, InvariantHolds, PTL
<1> QED
  BY <1>1, <1>2, <1>3, PTL DEF Spec

\* The data of these phases keep their types: no count of a retry is ever past
\* its end, and the versions are of what was dispatched.
THEOREM PlanTypesHold == Spec => []TypeOK
<1>1. ASSUME MachineInv, PlanInv
      PROVE  TypeOK
  <2>1. data \in PlanData /\ PlanTypes /\ VersionsAreDispatched /\ MachineTypeOK
    BY <1>1 DEF PlanInv, PlanTypes, Fits, MachineInv
  <2>2. DOMAIN data = DOMAIN FreshData
    BY <2>1 DEF PlanData, FreshData
  <2>3. /\ data.flightPlanRequestTicks \in 0 .. FlightPlanRetryTicks
        /\ data.differingFlightPlanTicks \in 0 .. DifferingFetchTicks - 1
        /\ data.staleSimbriefGeneration \in NoGeneration .. MaxGeneration
    BY <2>1 DEF PlanData
  <2> QED
    BY <2>1, <2>2, <2>3 DEF TypeOK, PlanTypes, VersionsAreDispatched
<1> QED
  BY <1>1, PlanInvariantHolds, PTL

\* The plan that is captured is the one the aircraft and GSX have, whatever the
\* pilot dispatches, GSX refuses or loads late, and however often it restarts.
THEOREM CapturedPlanIsCommon == Spec => CapturesTheCommonPlan
<1>1. MachineInv /\ PlanInv /\ [Next]_vars
        => [Captures /\ restarts' = restarts => ~hist.servesOldPlan]_vars
  BY PlanStepsKeep
<1>2. MachineInv /\ PlanInv /\ [Next]_vars
        => [Captures /\ restarts' = restarts
              => (data.flightPlanRefused => ofp >= hist'.acceptedOfp)]_vars
  BY PlanStepsKeep
<1>3. Spec => CapturesOnlyWhatGsxReloaded
  BY <1>1, PlanInvariantHolds, PTL DEF Spec, CapturesOnlyWhatGsxReloaded
<1>4. Spec => CapturedOfpIsWhatGsxAccepted
  BY <1>2, PlanInvariantHolds, PTL DEF Spec, CapturedOfpIsWhatGsxAccepted
<1> QED
  BY <1>3, <1>4, PTL DEF CapturesTheCommonPlan
=============================================================================
