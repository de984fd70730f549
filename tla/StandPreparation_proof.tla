------------------------ MODULE StandPreparation_proof -------------------------
(***************************************************************************)
(* The first phases of the turnaround implement the machine, and keep what *)
(* they promise about the ground power and the reposition, whatever the    *)
(* ticks they retry and give up after.                                     *)
(***************************************************************************)
EXTENDS StandPreparation, TurnaroundStateMachine_proof

-----------------------------------------------------------------------------
(***************************************************************************)
(* What a step of these phases is for the machine.  The transitions of     *)
(* these phases have no delay.                                             *)
(***************************************************************************)
LEMMA StandTransitions ==
  ASSUME NEW p \in StandPhases
  PROVE  /\ <<p, p + 1>> \in Transitions
         /\ DelayTicks(p, p + 1) = 0
         /\ p \in Phases \ {WaitingNewFlight} /\ p + 1 \in Phases
<1>1. p \in {0, 1, 2, 3, 4}
  BY DEF StandPhases, WaitingSupportedAircraft, CallServices
<1>2. <<p, p + 1>> \in Transitions
  BY <1>1 DEF Transitions, WaitingSupportedAircraft, WaitingAircraftReady,
     RepositionAircraft, PlaceGroundEquipment, CallServices, WaitingFlightPlan
<1>3. p \notin {Loading, CabinServices, WaitingDeparture}
  BY <1>1 DEF Loading, CabinServices, WaitingDeparture
<1>4. DelayTicks(p, p + 1) = 0
  BY <1>3 DEF DelayTicks
<1>5. p \in Phases \ {WaitingNewFlight} /\ p + 1 \in Phases
  BY <1>1 DEF Phases, WaitingSupportedAircraft, WaitingNewFlight
<1> QED
  BY <1>2, <1>4, <1>5

LEMMA StandPhaseNames ==
  /\ WaitingSupportedAircraft \in StandPhases
  /\ WaitingAircraftReady \in StandPhases
  /\ WaitingAircraftReady = WaitingSupportedAircraft + 1
  /\ RepositionAircraft \in StandPhases
  /\ RepositionAircraft = WaitingAircraftReady + 1
  /\ PlaceGroundEquipment \in StandPhases
  /\ PlaceGroundEquipment = RepositionAircraft + 1
  /\ CallServices \in StandPhases
  /\ CallServices = PlaceGroundEquipment + 1
  /\ WaitingFlightPlan = CallServices + 1
BY DEF StandPhases, WaitingSupportedAircraft, WaitingAircraftReady,
   RepositionAircraft, PlaceGroundEquipment, CallServices, WaitingFlightPlan

LEMMA StandEvaluationsAreOpenTicks ==
  ASSUME NEW p \in StandPhases, PhaseTick(p), Stay \/ Go(p + 1)
  PROVE  Tick
<1>1. CASE Stay
  BY <1>1, StandTransitions DEF OpenTick, Tick
<1>2. CASE Go(p + 1)
  <2>1. Take(p, p + 1)
    BY <1>2, StandTransitions DEF Take
  <2> QED
    BY <2>1, StandTransitions DEF OpenTick, Tick
<1> QED
  BY <1>1, <1>2

LEMMA EndsOfAnEvaluation ==
  ASSUME NEW d, NEW ticks, NEW next
  PROVE  /\ StayCounting(d, ticks) => Stay
         /\ StayWith(d) => Stay
         /\ GoWith(next, d) => Go(next)
BY DEF StayCounting, StayWith, GoWith

LEMMA RepositionTicksAreTicks ==
  ASSUME RepositionAircraftTick
  PROVE  Tick
<1>1. PhaseTick(RepositionAircraft)
  BY DEF RepositionAircraftTick
<1>2. Stay \/ Go(PlaceGroundEquipment)
  <2>1. ASSUME NEW d, NEW done, LeaveReposition(d, done)
        PROVE  Go(PlaceGroundEquipment)
    BY <2>1, EndsOfAnEvaluation DEF LeaveReposition
  <2>2. ASSUME NEW d, NEW skip, AskForReposition(d, skip)
        PROVE  Stay
    BY <2>2, EndsOfAnEvaluation DEF AskForReposition
  <2>3. ASSUME NEW d, NEW skip, NEW underway, FirstAsk(d, skip, underway)
        PROVE  Stay \/ Go(PlaceGroundEquipment)
    BY <2>1, <2>2, <2>3, EndsOfAnEvaluation DEF FirstAsk
  <2>4. ASSUME NEW d, NEW repositioning, WatchReposition(d, repositioning)
        PROVE  Stay
    BY <2>4, EndsOfAnEvaluation DEF WatchReposition
  <2>5. ASSUME NEW skip, NEW underway, NEW repositioning,
               AskOrWatch(skip, underway, repositioning)
        PROVE  Stay \/ Go(PlaceGroundEquipment)
    BY <2>1, <2>3, <2>4, <2>5 DEF AskOrWatch, CompleteReposition
  <2> QED
    BY <2>1, <2>5 DEF RepositionAircraftTick
<1> QED
  BY <1>1, <1>2, StandEvaluationsAreOpenTicks, StandPhaseNames

LEMMA EquipmentTicksAreTicks ==
  ASSUME PlaceGroundEquipmentTick
  PROVE  Tick
<1>1. PhaseTick(PlaceGroundEquipment)
  BY DEF PlaceGroundEquipmentTick
<1>2. Stay \/ Go(CallServices)
  <2>1. ASSUME NEW d, NEW callGpu, NEW chocks, NEW power, NEW known, NEW held,
               PlaceEquipment(d, callGpu, chocks, power, known, held)
        PROVE  Stay \/ Go(CallServices)
    BY <2>1, EndsOfAnEvaluation DEF PlaceEquipment
  <2>2. ASSUME NEW d, WaitForTheServiceState(d)
        PROVE  Stay
    BY <2>2, EndsOfAnEvaluation DEF WaitForTheServiceState
  <2>3. ASSUME NEW d, NEW placeChocks, NEW accepted, NEW reading, NEW callGpu,
               NEW own, NEW held,
               PlaceTheChocks(d, placeChocks, accepted, reading, callGpu, own,
                              held)
        PROVE  Stay \/ Go(CallServices)
    BY <2>1, <2>3 DEF PlaceTheChocks
  <2> QED
    BY <2>2, <2>3 DEF PlaceGroundEquipmentTick
<1> QED
  BY <1>1, <1>2, StandEvaluationsAreOpenTicks, StandPhaseNames

LEMMA ServicesTicksAreTicks ==
  ASSUME NEW vehicle, CallServicesTick(vehicle)
  PROVE  Tick
<1>1. PhaseTick(CallServices)
  BY DEF CallServicesTick
<1>2. Stay \/ Go(WaitingFlightPlan)
  <2>1. ASSUME NEW d, LeaveServices(d)
        PROVE  Go(WaitingFlightPlan)
    BY <2>1, EndsOfAnEvaluation DEF LeaveServices
  <2>2. ASSUME NEW d, ServicesSeemStuck(d)
        PROVE  Stay \/ Go(WaitingFlightPlan)
    BY <2>1, <2>2, EndsOfAnEvaluation DEF ServicesSeemStuck
  <2>3. ASSUME NEW d, NEW callable, AskForServices(d, callable)
        PROVE  Stay \/ Go(WaitingFlightPlan)
    BY <2>3, EndsOfAnEvaluation DEF AskForServices
  <2> QED
    BY <2>1, <2>2, <2>3, EndsOfAnEvaluation DEF CallServicesTick
<1> QED
  BY <1>1, <1>2, StandEvaluationsAreOpenTicks, StandPhaseNames

LEMMA OtherTicksAreTicks ==
  ASSUME \/ WaitingSupportedAircraftTick \/ WaitingAircraftReadyTick
         \/ RepositionWithoutGsx \/ HeldTick
  PROVE  Tick
<1>1. CASE WaitingSupportedAircraftTick
  BY <1>1, StandEvaluationsAreOpenTicks, StandPhaseNames, EndsOfAnEvaluation
     DEF WaitingSupportedAircraftTick
<1>2. CASE WaitingAircraftReadyTick
  BY <1>2, StandEvaluationsAreOpenTicks, StandPhaseNames, EndsOfAnEvaluation
     DEF WaitingAircraftReadyTick
<1>3. CASE RepositionWithoutGsx
  BY <1>3, StandEvaluationsAreOpenTicks, StandPhaseNames, EndsOfAnEvaluation
     DEF RepositionWithoutGsx
<1>4. CASE HeldTick
  BY <1>4, StandEvaluationsAreOpenTicks, StandPhaseNames, EndsOfAnEvaluation
     DEF HeldTick
<1> QED
  BY <1>1, <1>2, <1>3, <1>4

LEMMA StandTicksAreTicks ==
  ASSUME Evaluation \/ HeldTick
  PROVE  Tick
<1>1. CASE Delayed \/ InTheAir
  BY <1>1 DEF Delayed, InTheAir, Tick
<1>2. ASSUME NEW p \in Phases \ StandPhases, OutsideTheStand(p)
      PROVE  Tick
  BY <1>2 DEF OutsideTheStand, Tick
<1> QED
  BY <1>1, <1>2, RepositionTicksAreTicks, EquipmentTicksAreTicks,
     ServicesTicksAreTicks, OtherTicksAreTicks DEF Evaluation

LEMMA StandStepsAreMachineSteps ==
  ASSUME saved.phase \in Phases, [Next]_vars
  PROVE  [MachineNext]_machineVars
<1>1. CASE Evaluation \/ HeldTick
  BY <1>1, StandTicksAreTicks DEF MachineNext
<1>2. CASE Save
  BY <1>2 DEF Save
<1>3. ASSUME NEW gsxRestarted \in BOOLEAN, Relaunch(gsxRestarted)
      PROVE  MachineNext
  BY <1>3 DEF Relaunch, MachineNext
<1>4. CASE RestartFlow
  BY <1>4 DEF RestartFlow, MachineNext
<1>5. CASE ChangeStand \/ PowerChanges
  BY <1>5 DEF ChangeStand, PowerChanges
<1>6. CASE LiftOffOrTouchDown
  BY <1>6 DEF LiftOffOrTouchDown, MachineNext
<1>7. CASE UNCHANGED vars
  BY <1>7 DEF vars
<1> QED
  BY <1>1, <1>2, <1>3, <1>4, <1>5, <1>6, <1>7 DEF Next
-----------------------------------------------------------------------------
(***************************************************************************)
(* The inductive invariant.  Beside the types, the client remembers that   *)
(* GSX repositioned the aircraft, in memory and on the disk, and a phase   *)
(* that was resumed after it had asked takes the reposition as seen; no    *)
(* delayed transition comes in between.                                    *)
(***************************************************************************)
Data == [repositionRequested : BOOLEAN, repositionCompleted : BOOLEAN,
         repositionAttempted : BOOLEAN, repositionedThisSession : BOOLEAN,
         ownGroundEquipmentCleared : BOOLEAN, doorsClosed : BOOLEAN,
         chocksPlaced : BOOLEAN, gpuRequested : BOOLEAN,
         groundEquipmentTimedOut : BOOLEAN,
         jetwayOrStairsRequested : BOOLEAN, servicesStalled : BOOLEAN,
         stairsInPlaceTicks : Nat, servicesOperatingTicks : Nat]

History == [powerTakenAway : BOOLEAN, repeatedDespiteTheOption : BOOLEAN,
            repositionDone : BOOLEAN, askedAgainAfterResume : BOOLEAN,
            resumedAsked : BOOLEAN]

StandTypes ==
  /\ data \in Data
  /\ hist \in History
  /\ saved.phase \in Phases /\ saved.data \in Data /\ saved.done \in BOOLEAN

RepositionIsRemembered ==
  /\ hist.repositionDone => data.repositionedThisSession
  /\ saved.done => saved.data.repositionedThisSession

ResumedAskIsSeen ==
  hist.resumedAsked => /\ phase = RepositionAircraft /\ ticksRemaining = 0
                       /\ data.repositionCompleted

StandInv ==
  /\ StandTypes
  /\ RepositionIsRemembered
  /\ ResumedAskIsSeen
  /\ GroundPowerIsNeverToggledAway
  /\ NewTurnaroundsSkipTheReposition
  /\ ResumeDoesNotRepositionAgain

LEMMA FreshDataIsData ==
  FreshData \in Data /\ ~FreshData.repositionedThisSession
BY DEF FreshData, Data

LEMMA InitStand == Init => StandInv
BY FreshDataIsData
   DEF Init, MachineInit, StandInv, StandTypes, RepositionIsRemembered,
       ResumedAskIsSeen, GroundPowerIsNeverToggledAway,
       NewTurnaroundsSkipTheReposition, ResumeDoesNotRepositionAgain, History,
       NoHistory, NoSave, Phases, WaitingSupportedAircraft, WaitingNewFlight

\* A transition carries over that the aircraft was repositioned.
LEMMA EnteredRemembers ==
  ASSUME NEW next, NEW d \in Data
  PROVE  /\ Entered(next, d) \in Data
         /\ Entered(next, d).repositionedThisSession = d.repositionedThisSession
         /\ next \in StandPhases => Entered(next, d) = d
<1>1. CASE next \in StandPhases
  BY <1>1 DEF Entered
<1>2. CASE next \notin StandPhases
  <2> DEFINE timedOut == /\ d.groundEquipmentTimedOut
                         /\ next \notin {WaitingNewFlight, RemoveGroundEquipment}
  <2>1. timedOut \in BOOLEAN
    OBVIOUS
  <2>2. Entered(next, d) =
          [FreshData EXCEPT
             !.repositionedThisSession = d.repositionedThisSession,
             !.groundEquipmentTimedOut = timedOut]
    BY <1>2 DEF Entered
  <2>3. d.repositionedThisSession \in BOOLEAN
    BY DEF Data
  <2> HIDE DEF timedOut
  <2> QED
    <3>1. Entered(next, d) =
            [repositionRequested |-> FALSE, repositionCompleted |-> FALSE,
             repositionAttempted |-> FALSE,
             repositionedThisSession |-> d.repositionedThisSession,
             ownGroundEquipmentCleared |-> FALSE, doorsClosed |-> FALSE,
             chocksPlaced |-> FALSE, gpuRequested |-> FALSE,
             groundEquipmentTimedOut |-> timedOut,
             jetwayOrStairsRequested |-> FALSE, servicesStalled |-> FALSE,
             stairsInPlaceTicks |-> 0, servicesOperatingTicks |-> 0]
      BY <2>2 DEF FreshData
    <3> QED
      BY <1>2, <2>1, <2>3, <3>1 DEF Data
<1> QED
  BY <1>1, <1>2

LEMMA SavedFieldsRemember ==
  ASSUME NEW d \in Data
  PROVE  /\ SavedFields(d) \in Data
         /\ SavedFields(d).repositionedThisSession = d.repositionedThisSession
BY DEF SavedFields, Data

\* Asking for the ground power never toggles one away.
LEMMA RequestKeepsTheHistory ==
  ASSUME StandInv, RequestTheGroundPower
  PROVE  hist' = hist
BY DEF RequestTheGroundPower, TogglePower, StandInv, StandTypes,
   GroundPowerIsNeverToggledAway, History

(***************************************************************************)
(* An evaluation of another phase of the module than RepositionAircraft    *)
(* that leaves alone what is remembered of the reposition.                 *)
(***************************************************************************)
LEMMA PlainEvaluation ==
  ASSUME StandInv, NEW p \in StandPhases \ {RepositionAircraft}, PhaseTick(p),
         NEW d \in Data, NEW next,
         d.repositionedThisSession = data.repositionedThisSession,
         StayWith(d) \/ GoWith(next, d),
         UNCHANGED <<saved, hist>>
  PROVE  StandInv'
<1>1. ~hist.resumedAsked
  <2>1. Evaluated # RepositionAircraft
    BY DEF PhaseTick
  <2> QED
    BY <2>1 DEF StandInv, ResumedAskIsSeen, Evaluated, Expiring
<1>2. data' \in Data /\ data'.repositionedThisSession = data.repositionedThisSession
  BY EnteredRemembers DEF StayWith, StayCounting, GoWith
<1> QED
  BY <1>1, <1>2 DEF StandInv, StandTypes, RepositionIsRemembered,
     ResumedAskIsSeen, GroundPowerIsNeverToggledAway,
     NewTurnaroundsSkipTheReposition, ResumeDoesNotRepositionAgain

LEMMA WaitingTicksPreserve ==
  ASSUME StandInv,
         WaitingSupportedAircraftTick \/ WaitingAircraftReadyTick \/ HeldTick
  PROVE  StandInv'
<1>1. data \in Data
  BY DEF StandInv, StandTypes
<1>2. {WaitingSupportedAircraft, WaitingAircraftReady, CallServices}
        \subseteq StandPhases \ {RepositionAircraft}
  BY StandPhaseNames DEF WaitingSupportedAircraft, WaitingAircraftReady,
     CallServices, RepositionAircraft
<1> QED
  BY <1>1, <1>2, PlainEvaluation
     DEF WaitingSupportedAircraftTick, WaitingAircraftReadyTick, HeldTick

LEMMA EquipmentTickPreserves ==
  ASSUME StandInv, PlaceGroundEquipmentTick
  PROVE  StandInv'
<1>1. PhaseTick(PlaceGroundEquipment) /\ UNCHANGED saved
  BY DEF PlaceGroundEquipmentTick
<1>2. PlaceGroundEquipment \in StandPhases \ {RepositionAircraft}
  BY StandPhaseNames DEF PlaceGroundEquipment, RepositionAircraft
<1> DEFINE Same(d) ==
      d \in Data /\ d.repositionedThisSession = data.repositionedThisSession
<1>3. ASSUME NEW d, Same(d), NEW callGpu, NEW chocks, NEW power, NEW known,
             NEW held, PlaceEquipment(d, callGpu, chocks, power, known, held)
      PROVE  StandInv'
  <2>1. Same([d EXCEPT !.groundEquipmentTimedOut = TRUE])
    BY <1>3 DEF Data
  <2>2. ASSUME NEW asks \in BOOLEAN
        PROVE  Same([d EXCEPT !.gpuRequested = @ \/ asks])
    BY <1>3 DEF Data
  <2>3. hist' = hist
    BY <1>3, RequestKeepsTheHistory DEF PlaceEquipment
  <2>4. \E e : Same(e) /\ (StayWith(e) \/ GoWith(CallServices, e))
    BY <1>3, <2>1, <2>2 DEF PlaceEquipment
  <2> QED
    BY <1>1, <1>2, <2>3, <2>4, PlainEvaluation
<1> DEFINE cleared == [data EXCEPT !.ownGroundEquipmentCleared = TRUE]
<1>4. Same(cleared)
  BY DEF StandInv, StandTypes, Data
<1>5. CASE WaitForTheServiceState(cleared)
  BY <1>1, <1>2, <1>4, <1>5, PlainEvaluation DEF WaitForTheServiceState
<1>6. ASSUME NEW placeChocks \in BOOLEAN, NEW accepted \in BOOLEAN,
             NEW reading, NEW callGpu, NEW own, NEW held,
             PlaceTheChocks(cleared, placeChocks, accepted, reading, callGpu,
                            own, held)
      PROVE  StandInv'
  <2> DEFINE d == [cleared EXCEPT !.doorsClosed = TRUE,
                     !.chocksPlaced = @ \/ (placeChocks /\ accepted)]
  <2>1. Same(d)
    BY <1>4 DEF Data
  <2>2. \E chocks, power, known :
          PlaceEquipment(d, callGpu, chocks, power, known, held)
    BY <1>6 DEF PlaceTheChocks
  <2> HIDE DEF d, Same
  <2> QED
    BY <1>3, <2>1, <2>2
<1> QED
  BY <1>5, <1>6 DEF PlaceGroundEquipmentTick

LEMMA ServicesTickPreserves ==
  ASSUME StandInv, NEW vehicle \in BOOLEAN, CallServicesTick(vehicle)
  PROVE  StandInv'
<1>1. PhaseTick(CallServices) /\ UNCHANGED <<saved, hist>>
  BY DEF CallServicesTick
<1>2. CallServices \in StandPhases \ {RepositionAircraft}
  BY StandPhaseNames DEF CallServices, RepositionAircraft
<1> DEFINE Same(d) ==
      d \in Data /\ d.repositionedThisSession = data.repositionedThisSession
<1> DEFINE Ends == \E d, next : Same(d) /\ (StayWith(d) \/ GoWith(next, d))
<1>3. ASSUME NEW d, Same(d), LeaveServices(d)
      PROVE  Ends
  <2>1. Same([d EXCEPT !.servicesStalled = FALSE])
    BY <1>3 DEF Data
  <2> QED
    BY <1>3, <2>1 DEF LeaveServices
<1>4. ASSUME NEW d, Same(d), ServicesSeemStuck(d)
      PROVE  Ends
  <2>1. d.servicesOperatingTicks + 1 \in Nat
    BY <1>4 DEF Data
  <2> DEFINE ticks == d.servicesOperatingTicks + 1
  <2>2. Same([d EXCEPT !.servicesOperatingTicks = ticks])
    BY <1>4, <2>1 DEF Data
  <2>3. ASSUME NEW stalled \in BOOLEAN
        PROVE  Same([d EXCEPT !.servicesOperatingTicks = ticks,
                              !.servicesStalled = stalled])
    BY <1>4, <2>1 DEF Data
  <2> HIDE DEF Same
  <2>4. CASE ticks >= ServicesStuckTicks
    BY <1>3, <1>4, <2>2, <2>4 DEF ServicesSeemStuck
  <2>5. CASE ~(ticks >= ServicesStuckTicks)
    <3>1. (ticks >= ServicesStalledTicks) \in BOOLEAN
      BY <2>1, StandConstants
    <3>2. StayWith([d EXCEPT !.servicesOperatingTicks = ticks,
                      !.servicesStalled = ticks >= ServicesStalledTicks])
      BY <1>4, <2>5 DEF ServicesSeemStuck
    <3> QED
      BY <2>3, <3>1, <3>2
  <2> QED
    BY <2>4, <2>5
<1>5. ASSUME NEW d, Same(d), NEW callable \in BOOLEAN, AskForServices(d, callable)
      PROVE  Ends
  <2> DEFINE idle == [d EXCEPT !.servicesOperatingTicks = 0,
                               !.servicesStalled = FALSE]
  <2>1. Same(idle)
    BY <1>5 DEF Data
  <2>2. Same([idle EXCEPT !.jetwayOrStairsRequested = @ \/ callable])
    BY <2>1 DEF Data
  <2> QED
    BY <1>5, <2>1, <2>2 DEF AskForServices
<1>6. Same(data)
  BY DEF StandInv, StandTypes
<1>7. ASSUME NEW n \in Nat
      PROVE  LET d == [data EXCEPT !.stairsInPlaceTicks = n]
             IN /\ Same(d)
                /\ Same([d EXCEPT !.servicesOperatingTicks = 0,
                                  !.servicesStalled = FALSE])
  BY <1>6 DEF Data
<1>8. data.stairsInPlaceTicks + 1 \in Nat
  BY <1>6 DEF Data
<1>9. Ends
  BY <1>3, <1>4, <1>5, <1>6, <1>7, <1>8 DEF CallServicesTick
<1> QED
  BY <1>1, <1>2, <1>9, PlainEvaluation

\* The unchanged parts of the invariant are the promises about the history.
LEMMA RepositionTickPreserves ==
  ASSUME StandInv, RepositionAircraftTick
  PROVE  StandInv'
<1> USE DEF StandInv, StandTypes, RepositionIsRemembered, ResumedAskIsSeen,
        GroundPowerIsNeverToggledAway, NewTurnaroundsSkipTheReposition,
        ResumeDoesNotRepositionAgain
<1>1. PhaseTick(RepositionAircraft) /\ UNCHANGED saved
  BY DEF RepositionAircraftTick
<1>2. /\ PlaceGroundEquipment \in StandPhases
      /\ PlaceGroundEquipment # RepositionAircraft
  BY StandPhaseNames DEF PlaceGroundEquipment, RepositionAircraft
<1>3. hist.resumedAsked => data.repositionCompleted
  OBVIOUS
<1>4. ASSUME NEW d \in Data, NEW done \in BOOLEAN, LeaveReposition(d, done),
             hist.repositionDone \/ done => d.repositionedThisSession
      PROVE  StandInv'
  <2>1. data' = d
    BY <1>2, <1>4, EnteredRemembers DEF LeaveReposition, GoWith
  <2>2. /\ hist' \in History /\ ~hist'.resumedAsked
        /\ hist'.repositionDone = (hist.repositionDone \/ done)
        /\ hist'.powerTakenAway = hist.powerTakenAway
        /\ hist'.repeatedDespiteTheOption = hist.repeatedDespiteTheOption
        /\ hist'.askedAgainAfterResume = hist.askedAgainAfterResume
    BY <1>4 DEF LeaveReposition, History
  <2> QED
    BY <1>1, <1>4, <2>1, <2>2
<1>5. ASSUME NEW d \in Data, StayWith(d), UNCHANGED hist,
             d.repositionedThisSession = data.repositionedThisSession,
             ~hist.resumedAsked
      PROVE  StandInv'
  BY <1>1, <1>5 DEF StayWith, StayCounting
<1>6. ASSUME NEW d \in Data, NEW skip \in BOOLEAN, AskForReposition(d, skip),
             d.repositionedThisSession = data.repositionedThisSession,
             ~hist.resumedAsked, ~(skip /\ data.repositionedThisSession)
      PROVE  StandInv'
  <2> DEFINE e == [d EXCEPT !.repositionRequested = TRUE,
                            !.repositionAttempted = TRUE]
  <2>1. e \in Data /\ e.repositionedThisSession = data.repositionedThisSession
    BY <1>6 DEF Data
  <2>2. hist' = hist
    BY <1>6 DEF AskForReposition, History
  <2>3. StayWith(e)
    BY <1>6 DEF AskForReposition
  <2> QED
    BY <1>5, <1>6, <2>1, <2>2, <2>3
<1>7. ASSUME NEW skip \in BOOLEAN, NEW underway, NEW repositioning \in BOOLEAN,
             ~(~data.repositionRequested /\ skip /\ data.repositionedThisSession),
             AskOrWatch(skip, underway, repositioning)
      PROVE  StandInv'
  <2> DEFINE givesUp == stateTickCount > RepositionGiveUpTicks
             d == [data EXCEPT !.repositionCompleted = @ \/ givesUp]
  <2>1. /\ d \in Data
        /\ d.repositionedThisSession = data.repositionedThisSession
        /\ d.repositionRequested = data.repositionRequested
        /\ hist.resumedAsked => d.repositionCompleted
    BY <1>3 DEF Data
  <2>2. AskOrWatch(skip, underway, repositioning) =
          \/ d.repositionCompleted /\ CompleteReposition(d)
          \/ /\ ~d.repositionCompleted /\ ~d.repositionRequested
             /\ FirstAsk(d, skip, underway)
          \/ /\ ~d.repositionCompleted /\ d.repositionRequested
             /\ WatchReposition(d, repositioning)
    BY DEF AskOrWatch
  <2> HIDE DEF d
  <2>3. CASE CompleteReposition(d)
    <3> DEFINE e == [d EXCEPT !.repositionedThisSession =
                                @ \/ d.repositionAttempted]
    <3>1. d.repositionAttempted \in BOOLEAN
      BY <2>1 DEF Data
    <3>2. e \in Data
      BY <2>1 DEF Data
    <3>3. e.repositionedThisSession =
            (data.repositionedThisSession \/ d.repositionAttempted)
      BY <2>1 DEF Data
    <3>4. LeaveReposition(e, d.repositionAttempted)
      BY <2>3 DEF CompleteReposition
    <3> HIDE DEF e
    <3> QED
      BY <1>4, <3>1, <3>2, <3>3, <3>4
  <2>4. CASE ~d.repositionCompleted /\ ~d.repositionRequested
             /\ FirstAsk(d, skip, underway)
    <3>1. CASE StayWith(d) /\ UNCHANGED hist
      BY <1>5, <2>1, <2>4, <3>1
    <3>2. CASE LeaveReposition([d EXCEPT !.repositionCompleted = TRUE], FALSE)
      <4>1. /\ [d EXCEPT !.repositionCompleted = TRUE] \in Data
            /\ [d EXCEPT !.repositionCompleted = TRUE].repositionedThisSession
                 = data.repositionedThisSession
        BY <2>1 DEF Data
      <4> QED
        BY <1>4, <3>2, <4>1
    <3>3. CASE AskForReposition(d, skip)
      BY <1>6, <1>7, <2>1, <2>4, <3>3
    <3> QED
      BY <2>4, <3>1, <3>2, <3>3 DEF FirstAsk
  <2>5. CASE ~d.repositionCompleted /\ WatchReposition(d, repositioning)
    <3>1. PICK requested \in BOOLEAN :
            StayWith([d EXCEPT !.repositionCompleted = repositioning,
                               !.repositionRequested = requested])
      BY <2>5 DEF WatchReposition
    <3>2. /\ [d EXCEPT !.repositionCompleted = repositioning,
                       !.repositionRequested = requested] \in Data
          /\ [d EXCEPT !.repositionCompleted = repositioning,
                       !.repositionRequested = requested].repositionedThisSession
               = data.repositionedThisSession
      BY <2>1 DEF Data
    <3> QED
      BY <1>5, <2>1, <2>5, <3>1, <3>2 DEF WatchReposition
  <2> QED
    BY <1>7, <2>2, <2>3, <2>4, <2>5
<1>8. ASSUME LeaveReposition(data, FALSE)
      PROVE  StandInv'
  BY <1>4, <1>8
<1> QED
  BY <1>7, <1>8 DEF RepositionAircraftTick

LEMMA RepositionWithoutGsxPreserves ==
  ASSUME StandInv, RepositionWithoutGsx
  PROVE  StandInv'
BY DEF RepositionWithoutGsx, PhaseTick, StayCounting, Stay, StandInv,
   StandTypes, RepositionIsRemembered, ResumedAskIsSeen,
   GroundPowerIsNeverToggledAway, NewTurnaroundsSkipTheReposition,
   ResumeDoesNotRepositionAgain

(***************************************************************************)
(* The ticks of the engine and of the other phases.                        *)
(***************************************************************************)
LEMMA DataSoFarRemembers ==
  ASSUME StandInv
  PROVE  /\ DataSoFar \in Data
         /\ DataSoFar.repositionedThisSession = data.repositionedThisSession
BY EnteredRemembers DEF DataSoFar, StandInv, StandTypes

LEMMA OutsideTickPreserves ==
  ASSUME StandInv, MachineTypeOK', NEW p \in Phases \ StandPhases,
         OutsideTheStand(p)
  PROVE  StandInv'
<1>1. ~hist.resumedAsked
  BY StandPhaseNames DEF OutsideTheStand, OpenTick, PhaseTick, Evaluated,
     Expiring, StandInv, ResumedAskIsSeen
<1>2. /\ data' \in Data
      /\ data'.repositionedThisSession = data.repositionedThisSession
  BY DataSoFarRemembers, EnteredRemembers DEF OutsideTheStand
<1>3. /\ saved' = Checkpoint(phase', data') /\ hist' = hist
  BY DEF OutsideTheStand
<1>4. \/ saved' = saved
      \/ saved' = [phase |-> phase', data |-> SavedFields(data'),
                   done |-> hist.repositionDone]
  BY <1>3 DEF Checkpoint
<1>5. phase' \in Phases
  BY DEF MachineTypeOK
<1> QED
  BY <1>1, <1>2, <1>3, <1>4, <1>5, SavedFieldsRemember
     DEF StandInv, StandTypes, RepositionIsRemembered, ResumedAskIsSeen,
         GroundPowerIsNeverToggledAway, NewTurnaroundsSkipTheReposition,
         ResumeDoesNotRepositionAgain, History

LEMMA InTheAirPreserves ==
  ASSUME StandInv, InTheAir
  PROVE  StandInv'
<1>1. UNCHANGED saved
  BY DEF InTheAir
<1>2. /\ data' \in Data
      /\ data'.repositionedThisSession = data.repositionedThisSession
  BY DataSoFarRemembers, EnteredRemembers DEF InTheAir
<1>3. hist' = [hist EXCEPT !.resumedAsked = @ /\ phase' = phase]
  BY DEF InTheAir
<1>4. /\ hist' \in History
      /\ hist'.resumedAsked => hist.resumedAsked /\ phase' = phase
      /\ hist'.repositionDone = hist.repositionDone
      /\ hist'.powerTakenAway = hist.powerTakenAway
      /\ hist'.repeatedDespiteTheOption = hist.repeatedDespiteTheOption
      /\ hist'.askedAgainAfterResume = hist.askedAgainAfterResume
  BY <1>3 DEF StandInv, StandTypes, History
<1>5. hist'.resumedAsked => data' = data /\ ticksRemaining' = 0
  BY <1>4 DEF InTheAir, AirborneTick, CountTheAirborneTick, Stay, Go, GoAs,
     DataSoFar, Expiring, StandInv, ResumedAskIsSeen
<1> QED
  BY <1>1, <1>2, <1>4, <1>5
     DEF StandInv, StandTypes, RepositionIsRemembered, ResumedAskIsSeen,
         GroundPowerIsNeverToggledAway, NewTurnaroundsSkipTheReposition,
         ResumeDoesNotRepositionAgain

LEMMA EvaluationPreserves ==
  ASSUME StandInv, MachineTypeOK', Evaluation \/ HeldTick
  PROVE  StandInv'
<1>1. CASE Delayed
  BY <1>1 DEF Delayed, DelayTick, standVars, Waiting, StandInv, StandTypes,
     RepositionIsRemembered, ResumedAskIsSeen, GroundPowerIsNeverToggledAway,
     NewTurnaroundsSkipTheReposition, ResumeDoesNotRepositionAgain
<1> QED
  BY <1>1, InTheAirPreserves, WaitingTicksPreserve, RepositionTickPreserves,
     RepositionWithoutGsxPreserves, EquipmentTickPreserves,
     ServicesTickPreserves, OutsideTickPreserves DEF Evaluation

(***************************************************************************)
(* The save, the crash that comes before it, and the environment.          *)
(***************************************************************************)
LEMMA SavePreserves ==
  ASSUME StandInv, MachineTypeOK, Save
  PROVE  StandInv'
<1>1. \/ saved' = saved
      \/ saved' = [phase |-> phase, data |-> SavedFields(data),
                   done |-> hist.repositionDone]
  BY DEF Save, Checkpoint
<1>2. phase \in Phases
  BY DEF MachineTypeOK
<1> QED
  BY <1>1, <1>2, SavedFieldsRemember
     DEF Save, machineVars, StandInv, StandTypes, RepositionIsRemembered,
         ResumedAskIsSeen, GroundPowerIsNeverToggledAway,
         NewTurnaroundsSkipTheReposition, ResumeDoesNotRepositionAgain, History

\* What a resumed phase takes as seen.
LEMMA RestoredRemembers ==
  ASSUME StandInv
  PROVE  /\ Restored \in Data
         /\ Restored.repositionedThisSession = saved.data.repositionedThisSession
         /\ saved.phase = RepositionAircraft /\ saved.data.repositionAttempted
              => Restored.repositionCompleted
BY DEF Restored, StandInv, StandTypes, Data

LEMMA StartAgainRemembers ==
  ASSUME StandInv, NEW done \in BOOLEAN, NEW asked \in BOOLEAN,
         StartAgain(done, asked)
  PROVE  /\ hist' \in History
         /\ hist'.repositionDone = done /\ hist'.resumedAsked = asked
         /\ hist'.powerTakenAway = hist.powerTakenAway
         /\ hist'.repeatedDespiteTheOption = hist.repeatedDespiteTheOption
         /\ hist'.askedAgainAfterResume = hist.askedAgainAfterResume
BY DEF StartAgain, StandInv, StandTypes, History

LEMMA RelaunchPreserves ==
  ASSUME StandInv, NEW gsxRestarted \in BOOLEAN, Relaunch(gsxRestarted)
  PROVE  StandInv'
<1> DEFINE d == IF IsResumablePhase(saved.phase) THEN Restored ELSE FreshData
           repositioned == saved.data.repositionedThisSession /\ ~gsxRestarted
           done == saved.done /\ ~gsxRestarted
           asked == /\ saved.phase = RepositionAircraft
                    /\ saved.data.repositionAttempted
<1>1. d \in Data
  BY RestoredRemembers, FreshDataIsData
<1>2. data' = [d EXCEPT !.repositionedThisSession = repositioned]
  BY DEF Relaunch
<1>3. repositioned \in BOOLEAN /\ done \in BOOLEAN /\ asked \in BOOLEAN
  BY DEF StandInv, StandTypes, Data
<1>4. StartAgain(done, asked) /\ UNCHANGED saved
  BY DEF Relaunch
<1>5. done => repositioned
  BY DEF StandInv, RepositionIsRemembered
<1>6. asked => d.repositionCompleted /\ phase' = RepositionAircraft
               /\ ticksRemaining' = 0
  <2>1. ASSUME asked
        PROVE  IsResumablePhase(saved.phase)
    BY <2>1 DEF IsResumablePhase, RepositionAircraft, CabinServices
  <2> QED
    BY <2>1, RestoredRemembers DEF Relaunch, ResumeFrom, StandAt
<1> HIDE DEF d, repositioned, done, asked
<1>7. /\ data' \in Data /\ data'.repositionedThisSession = repositioned
      /\ data'.repositionCompleted = d.repositionCompleted
  BY <1>1, <1>2, <1>3 DEF Data
<1> QED
  BY <1>3, <1>4, <1>5, <1>6, <1>7, StartAgainRemembers
     DEF StandInv, StandTypes, RepositionIsRemembered, ResumedAskIsSeen,
         GroundPowerIsNeverToggledAway, NewTurnaroundsSkipTheReposition,
         ResumeDoesNotRepositionAgain

LEMMA RestartFlowPreserves ==
  ASSUME StandInv, RestartFlow
  PROVE  StandInv'
<1>1. /\ data' = FreshData /\ saved' = NoSave /\ StartAgain(FALSE, FALSE)
  BY DEF RestartFlow
<1>2. /\ NoSave.phase \in Phases /\ NoSave.data = FreshData
      /\ NoSave.done = FALSE
  BY DEF NoSave, Phases, WaitingSupportedAircraft, WaitingNewFlight
<1> QED
  BY <1>1, <1>2, StartAgainRemembers, FreshDataIsData
     DEF StandInv, StandTypes, RepositionIsRemembered, ResumedAskIsSeen,
         GroundPowerIsNeverToggledAway, NewTurnaroundsSkipTheReposition,
         ResumeDoesNotRepositionAgain

LEMMA ChangeStandPreserves ==
  ASSUME StandInv, ChangeStand
  PROVE  StandInv'
<1>1. phase # RepositionAircraft /\ UNCHANGED <<phase, saved>>
  BY DEF ChangeStand, machineVars, RepositionAircraft, WaitingNewFlight,
     WaitingSupportedAircraft, WaitingAircraftReady
<1>2. data' \in Data
  BY DEF ChangeStand, StandInv, StandTypes, Data
<1>3. /\ hist' \in History /\ ~hist'.repositionDone
      /\ hist'.resumedAsked = hist.resumedAsked
      /\ hist'.powerTakenAway = hist.powerTakenAway
      /\ hist'.repeatedDespiteTheOption = hist.repeatedDespiteTheOption
      /\ hist'.askedAgainAfterResume = hist.askedAgainAfterResume
  BY DEF ChangeStand, StandInv, StandTypes, History
<1> QED
  BY <1>1, <1>2, <1>3
     DEF StandInv, StandTypes, RepositionIsRemembered, ResumedAskIsSeen,
         GroundPowerIsNeverToggledAway, NewTurnaroundsSkipTheReposition,
         ResumeDoesNotRepositionAgain

LEMMA StandInvIsPreserved ==
  ASSUME StandInv, MachineTypeOK, MachineTypeOK', [Next]_vars
  PROVE  StandInv'
<1> USE DEF StandInv, StandTypes, RepositionIsRemembered, ResumedAskIsSeen,
        GroundPowerIsNeverToggledAway, NewTurnaroundsSkipTheReposition,
        ResumeDoesNotRepositionAgain
<1>1. CASE PowerChanges
  BY <1>1 DEF PowerChanges, machineVars
<1>2. CASE LiftOffOrTouchDown
  BY <1>2 DEF LiftOffOrTouchDown, TakeOffOrLand, standVars
<1>3. CASE UNCHANGED vars
  BY <1>3 DEF vars, machineVars, standVars
<1> QED
  BY <1>1, <1>2, <1>3, EvaluationPreserves, SavePreserves, RelaunchPreserves,
     RestartFlowPreserves, ChangeStandPreserves DEF Next
-----------------------------------------------------------------------------
\* The invariants of the machine and of these phases hold together: the first
\* types what is saved, the second lets every step be one of the machine.
THEOREM StandInvariantHolds == Spec => [](MachineInv /\ StandInv)
<1>1. Init => MachineInv /\ StandInv
  BY InitStand, InitInvariant DEF Init
<1>2. MachineInv /\ StandInv /\ [Next]_vars => (MachineInv /\ StandInv)'
  <2> SUFFICES ASSUME MachineInv, StandInv, [Next]_vars
               PROVE  MachineInv' /\ StandInv'
    OBVIOUS
  <2>1. [MachineNext]_machineVars
    BY StandStepsAreMachineSteps DEF StandInv, StandTypes
  <2>2. MachineInv'
    BY <2>1, InvariantIsPreserved
  <2> QED
    BY <2>2, StandInvIsPreserved DEF MachineInv
<1> QED
  BY <1>1, <1>2, PTL DEF Spec

\* What the first phases decide is a choice the machine leaves open, over the
\* crashes and the relaunches too.
THEOREM StandImplementsTheMachine == Spec => MachineSpec
<1>1. Init => MachineInit
  BY DEF Init
<1>2. StandInv /\ [Next]_vars => [MachineNext]_machineVars
  BY StandStepsAreMachineSteps DEF StandInv, StandTypes
<1> QED
  BY <1>1, <1>2, StandInvariantHolds, PTL DEF Spec, MachineSpec

\* The client never toggles a ground power away.
THEOREM GroundPowerIsSafe == Spec => []GroundPowerIsNeverToggledAway
<1>1. StandInv => GroundPowerIsNeverToggledAway
  BY DEF StandInv
<1> QED
  BY <1>1, StandInvariantHolds, PTL

\* The option to skip the reposition holds over turnarounds and crashes.
THEOREM RepositionIsSkipped == Spec => []NewTurnaroundsSkipTheReposition
<1>1. StandInv => NewTurnaroundsSkipTheReposition
  BY DEF StandInv
<1> QED
  BY <1>1, StandInvariantHolds, PTL

\* A resumed phase does not ask for the reposition it had asked for.
THEOREM RepositionIsNotRepeated == Spec => []ResumeDoesNotRepositionAgain
<1>1. StandInv => ResumeDoesNotRepositionAgain
  BY DEF StandInv
<1> QED
  BY <1>1, StandInvariantHolds, PTL
\* Neither the next turnaround nor a client that was started anew repositions
\* the aircraft again.
THEOREM RepositionIsSafe == Spec => []RepositionsOnce
BY RepositionIsSkipped, RepositionIsNotRepeated, PTL DEF RepositionsOnce

-----------------------------------------------------------------------------
(***************************************************************************)
(* The counts stay in their bounds: CallServices is left before one of its *)
(* counters passes the count that ends it, which is an invariant only with *)
(* the same bounds on the disk, where a crash takes the data from.         *)
(***************************************************************************)
Bounded(d) ==
  /\ d \in Data
  /\ d.stairsInPlaceTicks \in 0 .. StairsInPlaceHoldTicks
  /\ d.servicesOperatingTicks \in 0 .. ServicesStuckTicks

Counts ==
  /\ Bounded(data)
  /\ stateTickCount \in 0 .. TickBound
  /\ unsaved \in BOOLEAN

CountersInv ==
  /\ Counts
  /\ Bounded(saved.data)
  /\ ownPower \in BOOLEAN /\ gpu \in {"Callable", "Requested", "Active"}

\* The data of a fresh turnaround, and of a phase of another module.
LEMMA FreshDataIsBounded ==
  /\ Bounded(FreshData)
  /\ \A next, d : d \in Data /\ next \notin StandPhases => Bounded(Entered(next, d))
<1>1. Bounded(FreshData)
  BY StandConstants, FreshDataIsData DEF Bounded, FreshData
<1>2. ASSUME NEW next, NEW d \in Data, next \notin StandPhases
      PROVE  Bounded(Entered(next, d))
  <2>1. Entered(next, d) \in Data
    BY EnteredRemembers
  <2>2. /\ Entered(next, d).stairsInPlaceTicks = 0
        /\ Entered(next, d).servicesOperatingTicks = 0
    BY <1>2 DEF Entered, FreshData
  <2> QED
    BY <2>1, <2>2, StandConstants DEF Bounded
<1> QED
  BY <1>1, <1>2

LEMMA TicksStartOver == 0 \in 0 .. TickBound
BY StandConstants

\* Services that do nothing, or a vehicle that comes, start the count over.
LEMMA IdleIsBounded ==
  ASSUME NEW d, Bounded(d)
  PROVE  Bounded([d EXCEPT !.servicesOperatingTicks = 0, !.servicesStalled = FALSE])
<1> DEFINE idle == [d EXCEPT !.servicesOperatingTicks = 0, !.servicesStalled = FALSE]
<1>1. d \in Data /\ d.stairsInPlaceTicks \in 0 .. StairsInPlaceHoldTicks
  BY DEF Bounded
<1>2. idle \in Data
  BY <1>1 DEF Data
<1>3. idle.servicesOperatingTicks = 0 /\ idle.stairsInPlaceTicks = d.stairsInPlaceTicks
  BY <1>1 DEF Data
<1>4. 0 \in 0 .. ServicesStuckTicks
  BY StandConstants
<1> HIDE DEF idle
<1>5. Bounded(idle)
  BY <1>1, <1>2, <1>3, <1>4 DEF Bounded
<1> QED
  BY <1>5 DEF idle

\* A transition keeps the counts of a phase of this module, and drops them else.
LEMMA EnteredIsBounded ==
  ASSUME NEW next, NEW d, Bounded(d)
  PROVE  Bounded(Entered(next, d))
<1>1. d \in Data
  BY DEF Bounded
<1> QED
  BY <1>1, FreshDataIsBounded DEF Entered

LEMMA CountedIsBounded ==
  ASSUME NEW ticks \in 0 .. TickBound
  PROVE  Counted(ticks) \in 0 .. TickBound
BY StandConstants DEF Counted

\* What ends an evaluation keeps the counts, if the data it ends with do.
LEMMA StaysAreBounded ==
  ASSUME NEW d, Bounded(d), NEW ticks \in 0 .. TickBound, StayCounting(d, ticks)
  PROVE  Counts'
BY CountedIsBounded DEF StayCounting, Counts

LEMMA GoesAreBounded ==
  ASSUME NEW next, NEW d, Bounded(d) \/ (d \in Data /\ next \notin StandPhases),
         GoWith(next, d)
  PROVE  Counts'
<1>1. Bounded(data')
  BY EnteredIsBounded, FreshDataIsBounded DEF GoWith
<1> QED
  BY <1>1, StandConstants DEF GoWith, Counts

LEMMA EndsAreBounded ==
  ASSUME CountersInv, NEW next, NEW d, Bounded(d), StayWith(d) \/ GoWith(next, d)
  PROVE  Counts'
BY StaysAreBounded, GoesAreBounded DEF StayWith, CountersInv, Counts

LEMMA RepositionCounts ==
  ASSUME CountersInv, RepositionAircraftTick
  PROVE  Counts'
<1> DEFINE Ends == \E d, next : Bounded(d) /\ (StayWith(d) \/ GoWith(next, d))
<1>1. ASSUME NEW d, Bounded(d), NEW done, LeaveReposition(d, done)
      PROVE  Ends
  BY <1>1 DEF LeaveReposition
<1>2. ASSUME NEW skip, NEW underway, NEW repositioning \in BOOLEAN,
             AskOrWatch(skip, underway, repositioning)
      PROVE  Ends
  <2> DEFINE givesUp == stateTickCount > RepositionGiveUpTicks
             d == [data EXCEPT !.repositionCompleted = @ \/ givesUp]
  <2>1. Bounded(d)
    BY DEF CountersInv, Counts, Bounded, Data
  <2>2. \/ CompleteReposition(d)
        \/ FirstAsk(d, skip, underway)
        \/ WatchReposition(d, repositioning)
    BY <1>2 DEF AskOrWatch
  <2> HIDE DEF d
  <2>3. CASE CompleteReposition(d)
    <3>1. Bounded([d EXCEPT !.repositionedThisSession = @ \/ d.repositionAttempted])
      BY <2>1 DEF Bounded, Data
    <3> QED
      BY <1>1, <2>3, <3>1 DEF CompleteReposition
  <2>4. CASE FirstAsk(d, skip, underway)
    <3>1. /\ Bounded([d EXCEPT !.repositionCompleted = TRUE])
          /\ Bounded([d EXCEPT !.repositionRequested = TRUE,
                               !.repositionAttempted = TRUE])
      BY <2>1 DEF Bounded, Data
    <3> QED
      BY <1>1, <2>1, <2>4, <3>1 DEF FirstAsk, AskForReposition
  <2>5. CASE WatchReposition(d, repositioning)
    <3>1. \A requested \in BOOLEAN :
            Bounded([d EXCEPT !.repositionCompleted = repositioning,
                              !.repositionRequested = requested])
      BY <2>1 DEF Bounded, Data
    <3>2. (repositioning \/ ~TickCondition(RepositionRetryTicks)) \in BOOLEAN
      OBVIOUS
    <3> QED
      BY <2>5, <3>1, <3>2 DEF WatchReposition
  <2> QED
    BY <2>2, <2>3, <2>4, <2>5
<1>3. Bounded(data)
  BY DEF CountersInv, Counts
<1>4. Ends
  BY <1>1, <1>2, <1>3 DEF RepositionAircraftTick
<1> QED
  BY <1>4, EndsAreBounded

LEMMA EquipmentCounts ==
  ASSUME CountersInv, PlaceGroundEquipmentTick
  PROVE  Counts'
<1> DEFINE Ends == \E d, next : Bounded(d) /\ (StayWith(d) \/ GoWith(next, d))
           cleared == [data EXCEPT !.ownGroundEquipmentCleared = TRUE]
<1>1. Bounded(cleared)
  BY DEF CountersInv, Counts, Bounded, Data
<1>2. ASSUME NEW d, Bounded(d), NEW callGpu, NEW chocks, NEW power, NEW known,
             NEW held, PlaceEquipment(d, callGpu, chocks, power, known, held)
      PROVE  Ends
  <2>1. Bounded([d EXCEPT !.groundEquipmentTimedOut = TRUE])
    BY <1>2 DEF Bounded, Data
  <2>2. \A asks \in BOOLEAN : Bounded([d EXCEPT !.gpuRequested = @ \/ asks])
    BY <1>2 DEF Bounded, Data
  <2> QED
    BY <1>2, <2>1, <2>2 DEF PlaceEquipment
<1>3. ASSUME NEW placeChocks \in BOOLEAN, NEW accepted \in BOOLEAN,
             NEW reading, NEW callGpu, NEW own, NEW held,
             PlaceTheChocks(cleared, placeChocks, accepted, reading, callGpu,
                            own, held)
      PROVE  Ends
  <2> DEFINE d == [cleared EXCEPT !.doorsClosed = TRUE,
                     !.chocksPlaced = @ \/ (placeChocks /\ accepted)]
  <2>1. Bounded(d)
    BY <1>1 DEF Bounded, Data
  <2>2. \E chocks, power, known :
          PlaceEquipment(d, callGpu, chocks, power, known, held)
    BY <1>3 DEF PlaceTheChocks
  <2> HIDE DEF d, Ends
  <2> QED
    BY <1>2, <2>1, <2>2
<1>4. \A d : Bounded(d) /\ WaitForTheServiceState(d) => Ends
  BY DEF WaitForTheServiceState
<1> HIDE DEF Ends
<1>5. Ends
  BY <1>1, <1>3, <1>4 DEF PlaceGroundEquipmentTick
<1> QED
  BY <1>5, EndsAreBounded DEF Ends

\* The counters of CallServices: the phase is left when one has reached its end.
LEMMA ServicesCounts ==
  ASSUME CountersInv, NEW vehicle \in BOOLEAN, CallServicesTick(vehicle)
  PROVE  Counts'
<1> DEFINE In(n) == [data EXCEPT !.stairsInPlaceTicks = n]
<1>1. data \in Data /\ stateTickCount \in 0 .. TickBound
  BY DEF CountersInv, Counts, Bounded
<1>2. WaitingFlightPlan \notin StandPhases
  BY DEF StandPhases, WaitingFlightPlan, WaitingSupportedAircraft, CallServices
<1>3. ASSUME NEW d \in Data, GoWith(WaitingFlightPlan, d)
      PROVE  Counts'
  BY <1>2, <1>3, GoesAreBounded
<1>4. ASSUME NEW d \in Data, LeaveServices(d)
      PROVE  Counts'
  <2>1. [d EXCEPT !.servicesStalled = FALSE] \in Data
    BY DEF Data
  <2> QED
    BY <1>3, <1>4, <2>1 DEF LeaveServices
<1>5. ASSUME NEW n \in 0 .. StairsInPlaceHoldTicks
      PROVE  Bounded(In(n))
  BY <1>5, StandConstants DEF Bounded, Data, CountersInv, Counts
<1>6. ASSUME NEW d, Bounded(d), ServicesSeemStuck(d)
      PROVE  Counts'
  <2> DEFINE ticks == d.servicesOperatingTicks + 1
             stalled == ticks >= ServicesStalledTicks
  <2>1. ticks \in Nat /\ d \in Data
    BY <1>6 DEF Bounded, Data
  <2>2. CASE ticks >= ServicesStuckTicks
    <3>1. [d EXCEPT !.servicesOperatingTicks = ticks] \in Data
      BY <2>1 DEF Data
    <3> QED
      BY <1>4, <1>6, <2>2, <3>1 DEF ServicesSeemStuck
  <2>3. CASE ~(ticks >= ServicesStuckTicks)
    <3> DEFINE e == [d EXCEPT !.servicesOperatingTicks = ticks,
                              !.servicesStalled = stalled]
    <3>1. ticks \in 0 .. ServicesStuckTicks /\ stalled \in BOOLEAN
      BY <2>1, <2>3, StandConstants
    <3>2. StayWith(e)
      BY <1>6, <2>3 DEF ServicesSeemStuck
    <3> HIDE DEF ticks, stalled
    <3>3. Bounded(e)
      BY <1>6, <2>1, <3>1 DEF Bounded, Data
    <3> QED
      BY <3>2, <3>3, EndsAreBounded
  <2> QED
    BY <2>2, <2>3
<1>7. ASSUME NEW d, Bounded(d), NEW callable \in BOOLEAN, AskForServices(d, callable)
      PROVE  Counts'
  <2> DEFINE idle == [d EXCEPT !.servicesOperatingTicks = 0,
                               !.servicesStalled = FALSE]
  <2>1. Bounded(idle)
    BY <1>7, IdleIsBounded
  <2>2. Bounded([idle EXCEPT !.jetwayOrStairsRequested = @ \/ callable])
    BY <2>1 DEF Bounded, Data
  <2> QED
    BY <1>7, <2>1, <2>2, EndsAreBounded DEF AskForServices
<1>8. CASE GoWith(WaitingFlightPlan, data)
  BY <1>1, <1>3, <1>8
<1>9. ASSUME NEW stairsInPlace \in BOOLEAN, NEW jetwayInPlace \in BOOLEAN,
             NEW operating \in BOOLEAN, NEW callable \in BOOLEAN
      PROVE  LET inPlace == IF stairsInPlace THEN data.stairsInPlaceTicks + 1 ELSE 0
                 completed == inPlace >= StairsInPlaceHoldTicks \/ jetwayInPlace
                 d == [data EXCEPT !.stairsInPlaceTicks = inPlace]
             IN (\/ completed /\ LeaveServices(d)
                 \/ /\ ~completed /\ operating /\ vehicle
                    /\ StayWith([d EXCEPT !.servicesOperatingTicks = 0,
                                          !.servicesStalled = FALSE])
                 \/ ~completed /\ operating /\ ~vehicle /\ ServicesSeemStuck(d)
                 \/ ~completed /\ ~operating /\ AskForServices(d, callable))
                => Counts'
  <2> DEFINE inPlace == IF stairsInPlace THEN data.stairsInPlaceTicks + 1 ELSE 0
             completed == inPlace >= StairsInPlaceHoldTicks \/ jetwayInPlace
             d == [data EXCEPT !.stairsInPlaceTicks = inPlace]
  <2>1. inPlace \in Nat
    BY <1>1 DEF Data
  <2>2. d \in Data
    BY <1>1, <2>1 DEF Data
  <2>3. ~completed => inPlace \in 0 .. StairsInPlaceHoldTicks
    BY <2>1, StandConstants
  <2> HIDE DEF inPlace
  <2>4. ~completed => Bounded(d)
    BY <1>5, <2>3
  <2>5. ~completed => Bounded([d EXCEPT !.servicesOperatingTicks = 0,
                                        !.servicesStalled = FALSE])
    BY <2>4, IdleIsBounded
  <2> HIDE DEF d, completed
  <2>6. (\/ completed /\ LeaveServices(d)
         \/ /\ ~completed /\ operating /\ vehicle
            /\ StayWith([d EXCEPT !.servicesOperatingTicks = 0,
                                  !.servicesStalled = FALSE])
         \/ ~completed /\ operating /\ ~vehicle /\ ServicesSeemStuck(d)
         \/ ~completed /\ ~operating /\ AskForServices(d, callable))
        => Counts'
    BY <1>4, <1>6, <1>7, <2>2, <2>4, <2>5, EndsAreBounded
  <2> QED
    BY <2>6 DEF inPlace, completed, d
<1> QED
  BY <1>8, <1>9 DEF CallServicesTick

LEMMA EvaluationCounts ==
  ASSUME CountersInv, Evaluation \/ HeldTick
  PROVE  Counts'
<1>1. Bounded(data) /\ stateTickCount \in 0 .. TickBound
  BY DEF CountersInv, Counts
<1>2. Bounded(DataSoFar)
  BY <1>1, EnteredIsBounded DEF DataSoFar
<1>3. CASE Delayed
  BY <1>3 DEF Delayed, standVars, Counts, CountersInv
<1>4. CASE InTheAir
  <2>1. Bounded(data')
    BY <1>2, <1>4, EnteredIsBounded DEF InTheAir
  <2>2. stateTickCount' \in 0 .. TickBound
    BY <1>1, <1>4, CountedIsBounded, StandConstants DEF InTheAir
  <2> QED
    BY <1>4, <2>1, <2>2 DEF InTheAir, Counts
<1>5. CASE WaitingSupportedAircraftTick \/ WaitingAircraftReadyTick \/ HeldTick
  BY <1>1, <1>5, EndsAreBounded
     DEF WaitingSupportedAircraftTick, WaitingAircraftReadyTick, HeldTick
<1>6. CASE RepositionWithoutGsx
  BY <1>1, <1>6, StaysAreBounded, StandConstants DEF RepositionWithoutGsx
<1>7. ASSUME NEW p \in Phases \ StandPhases, OutsideTheStand(p)
      PROVE  Counts'
  <2>1. Bounded(data')
    BY <1>2, <1>7, EnteredIsBounded DEF OutsideTheStand
  <2> QED
    BY <1>7, <2>1, StandConstants DEF OutsideTheStand, Counts, CountersInv
<1> QED
  BY <1>3, <1>4, <1>5, <1>6, <1>7, RepositionCounts, EquipmentCounts,
     ServicesCounts DEF Evaluation

\* What the client writes to the disk; the checkpoint starts the counters over.
LEMMA CheckpointIsBounded ==
  ASSUME NEW p, NEW d \in Data, Bounded(saved.data)
  PROVE  Bounded(Checkpoint(p, d).data)
<1>1. Bounded(SavedFields(d))
  <2>1. /\ SavedFields(d).stairsInPlaceTicks = 0
        /\ SavedFields(d).servicesOperatingTicks = 0
    BY DEF SavedFields, Data
  <2> QED
    BY <2>1, SavedFieldsRemember, StandConstants DEF Bounded
<1> QED
  BY <1>1 DEF Checkpoint

LEMMA EvaluationBounds ==
  ASSUME CountersInv, Evaluation \/ HeldTick
  PROVE  CountersInv'
<1>1. Counts'
  BY EvaluationCounts
<1>2. Bounded(saved'.data)
  <2>1. ASSUME NEW p \in Phases \ StandPhases, OutsideTheStand(p)
        PROVE  Bounded(saved'.data)
    BY <1>1, <2>1, CheckpointIsBounded
       DEF OutsideTheStand, CountersInv, Counts, Bounded
  <2>2. \/ UNCHANGED saved
        \/ \E p \in Phases \ StandPhases : OutsideTheStand(p)
    BY DEF Evaluation, HeldTick, Delayed, standVars, InTheAir,
       WaitingSupportedAircraftTick, WaitingAircraftReadyTick,
       RepositionAircraftTick, RepositionWithoutGsx, PlaceGroundEquipmentTick,
       CallServicesTick
  <2> QED
    BY <2>1, <2>2 DEF CountersInv
<1>3. /\ UNCHANGED ownPower
      /\ gpu' \in {"Callable", "Requested", "Active"}
  <2>1. ASSUME PlaceGroundEquipmentTick
        PROVE  gpu' \in {gpu, GpuToggled}
    <3>1. ASSUME NEW d, NEW callGpu, NEW chocks, NEW power, NEW known, NEW held,
                 PlaceEquipment(d, callGpu, chocks, power, known, held)
          PROVE  gpu' \in {gpu, GpuToggled}
      BY <3>1 DEF PlaceEquipment, RequestTheGroundPower, TogglePower
    <3>2. \A d : WaitForTheServiceState(d) => gpu' = gpu
      BY DEF WaitForTheServiceState
    <3>3. \A cleared, placeChocks, accepted, reading, callGpu, own, held :
            PlaceTheChocks(cleared, placeChocks, accepted, reading, callGpu,
                           own, held) => gpu' \in {gpu, GpuToggled}
      BY <3>1 DEF PlaceTheChocks
    <3> QED
      BY <2>1, <3>2, <3>3 DEF PlaceGroundEquipmentTick
  <2>2. UNCHANGED ownPower
    BY DEF Evaluation, HeldTick, Delayed, standVars, InTheAir,
       WaitingSupportedAircraftTick, WaitingAircraftReadyTick, OutsideTheStand,
       RepositionAircraftTick, RepositionWithoutGsx, PlaceGroundEquipmentTick,
       CallServicesTick
  <2>3. UNCHANGED gpu \/ PlaceGroundEquipmentTick
    BY DEF Evaluation, HeldTick, Delayed, standVars, InTheAir,
       WaitingSupportedAircraftTick, WaitingAircraftReadyTick, OutsideTheStand,
       RepositionAircraftTick, RepositionWithoutGsx, CallServicesTick
  <2> QED
    BY <2>1, <2>2, <2>3 DEF CountersInv, GpuToggled
<1> QED
  BY <1>1, <1>2, <1>3 DEF CountersInv

\* What a turnaround is resumed with keeps the bounds of what was saved.
LEMMA RelaunchBounds ==
  ASSUME CountersInv, NEW gsxRestarted \in BOOLEAN, Relaunch(gsxRestarted)
  PROVE  CountersInv'
<1> DEFINE d == IF IsResumablePhase(saved.phase) THEN Restored ELSE FreshData
           repositioned == saved.data.repositionedThisSession /\ ~gsxRestarted
<1>1. Bounded(Restored)
  BY DEF Restored, CountersInv, Bounded, Data
<1>2. Bounded(d) /\ repositioned \in BOOLEAN
  BY <1>1, FreshDataIsBounded DEF CountersInv, Bounded, Data
<1>3. data' = [d EXCEPT !.repositionedThisSession = repositioned]
  BY DEF Relaunch
<1> HIDE DEF d, repositioned
<1>4. Bounded(data')
  BY <1>2, <1>3 DEF Bounded, Data
<1>5. /\ stateTickCount' = 0 /\ unsaved' = FALSE /\ UNCHANGED <<saved, ownPower>>
        /\ gpu' \in {gpu, "Callable"}
  BY DEF Relaunch, StartAgain
<1> QED
  BY <1>4, <1>5, TicksStartOver DEF CountersInv, Counts

LEMMA CountersArePreserved ==
  ASSUME CountersInv, [Next]_vars
  PROVE  CountersInv'
<1>1. CASE Save
  <2>1. data \in Data
    BY DEF CountersInv, Counts, Bounded
  <2>2. Bounded(saved'.data)
    BY <1>1, <2>1, CheckpointIsBounded DEF Save, CountersInv
  <2> QED
    BY <1>1, <2>2 DEF Save, CountersInv, Counts
<1>2. CASE RestartFlow
  <2>1. /\ data' = FreshData /\ saved'.data = FreshData /\ stateTickCount' = 0
        /\ unsaved' = FALSE /\ UNCHANGED <<ownPower, gpu>>
    BY <1>2 DEF RestartFlow, StartAgain, NoSave
  <2> QED
    BY <2>1, FreshDataIsBounded, TicksStartOver DEF CountersInv, Counts
<1>3. CASE ChangeStand
  <2>1. Bounded(data')
    BY <1>3 DEF ChangeStand, CountersInv, Counts, Bounded, Data
  <2> QED
    BY <1>3, <2>1 DEF ChangeStand, CountersInv, Counts
<1>4. CASE PowerChanges
  BY <1>4 DEF PowerChanges, CountersInv, Counts
<1>5. CASE LiftOffOrTouchDown \/ UNCHANGED vars
  BY <1>5 DEF LiftOffOrTouchDown, vars, standVars, CountersInv, Counts
<1> QED
  BY <1>1, <1>2, <1>3, <1>4, <1>5, EvaluationBounds, RelaunchBounds DEF Next

\* CountersInv, with the machine's invariant and that of these phases, is TypeOK.
LEMMA BoundsAreTypes ==
  ASSUME MachineTypeOK, StandInv, CountersInv
  PROVE  TypeOK
<1>1. /\ data \in Data /\ hist \in History /\ saved.phase \in Phases
      /\ data.stairsInPlaceTicks \in 0 .. StairsInPlaceHoldTicks
      /\ data.servicesOperatingTicks \in 0 .. ServicesStuckTicks
  BY DEF StandInv, StandTypes, CountersInv, Counts, Bounded
<1>2. /\ DOMAIN data = DOMAIN FreshData
      /\ \A flag \in DOMAIN FreshData \ Counters : data[flag] \in BOOLEAN
  BY <1>1 DEF Data, FreshData, Counters
<1>3. hist \in [DOMAIN NoHistory -> BOOLEAN]
  BY <1>1 DEF History, NoHistory
<1> QED
  BY <1>1, <1>2, <1>3 DEF TypeOK, CountersInv, Counts

\* The first phases keep their types, over every crash: each count that is to
\* end a phase ends it, and none is resumed past its end.
THEOREM StandTypesHold == Spec => []TypeOK
<1>1. Init => CountersInv
  <2> SUFFICES ASSUME Init
               PROVE  CountersInv
    OBVIOUS
  <2>1. /\ data = FreshData /\ saved.data = FreshData /\ stateTickCount = 0
        /\ unsaved = FALSE /\ ownPower \in BOOLEAN /\ gpu = "Callable"
    BY DEF Init, NoSave
  <2> QED
    BY <2>1, FreshDataIsBounded, TicksStartOver DEF CountersInv, Counts
<1>2. CountersInv /\ [Next]_vars => CountersInv'
  BY CountersArePreserved
<1>3. MachineInv /\ StandInv /\ CountersInv => TypeOK
  BY BoundsAreTypes DEF MachineInv
<1> QED
  BY <1>1, <1>2, <1>3, StandInvariantHolds, PTL DEF Spec
=============================================================================
