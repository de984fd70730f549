-------------------------- MODULE StandPreparation --------------------------
(***************************************************************************)
(* The first phases of a turnaround: the machine waits for the aircraft    *)
(* and its engines, lets GSX reposition it, places the chocks and the      *)
(* ground power, and calls the jetway or the stairs.  GSX, the pilot and   *)
(* the aircraft are the environment: a tick reads them anew, and the       *)
(* ground power, which the client can only toggle, is part of the state.   *)
(* The client may die between a tick and the save that follows it, and     *)
(* start again from what it had saved.                                     *)
(***************************************************************************)
EXTENDS TurnaroundStateMachine

CONSTANTS
  RepositionRetryTicks,       \* kRetryTicks of RepositionAircraftState
  RepositionGiveUpTicks,      \* kGiveUpTicks of RepositionAircraftState
  GroundEquipmentGiveUpTicks, \* kGroundEquipmentGiveUpTicks
  ServicesStalledTicks,       \* kStalledTicks
  ServicesStuckTicks,         \* kStuckTicks
  ServicesGiveUpTicks,        \* kGiveUpTicks of CallServicesState
  StairsInPlaceHoldTicks,     \* kStairsInPlaceHoldTicks
  TickBound                   \* where the count of the ticks stops counting

ASSUME StandConstants ==
  /\ RepositionRetryTicks \in Nat \ {0}
  /\ RepositionGiveUpTicks \in Nat /\ ServicesGiveUpTicks \in Nat
  /\ GroundEquipmentGiveUpTicks \in Nat
  /\ ServicesStalledTicks \in Nat /\ ServicesStuckTicks \in Nat
  /\ StairsInPlaceHoldTicks \in Nat \ {0}
  /\ TickBound \in Nat
  /\ TickBound > RepositionGiveUpTicks
  /\ TickBound >= GroundEquipmentGiveUpTicks
  /\ TickBound >= ServicesGiveUpTicks

VARIABLES
  data,            \* the fields of TurnaroundData these phases use
  stateTickCount,  \* data.stateTickCount
  saved,           \* the checkpoint on the disk: [phase, data, hist]
  unsaved,         \* a tick has run whose save has not
  gpu,             \* the state of GSX's ground power service (environment)
  ownPower,        \* whether the aircraft supports ground power control
  hist             \* history, see below

standVars == <<data, stateTickCount, saved, unsaved, gpu, ownPower, hist>>
vars == <<machineVars, standVars>>

FreshData ==
  [repositionRequested |-> FALSE, repositionCompleted |-> FALSE,
   repositionAttempted |-> FALSE, repositionedThisSession |-> FALSE,
   ownGroundEquipmentCleared |-> FALSE, doorsClosed |-> FALSE,
   chocksPlaced |-> FALSE, gpuRequested |-> FALSE,
   groundEquipmentTimedOut |-> FALSE,
   jetwayOrStairsRequested |-> FALSE, servicesStalled |-> FALSE,
   stairsInPlaceTicks |-> 0, servicesOperatingTicks |-> 0]

(***************************************************************************)
(* History: the client toggled away a ground power that was on its way or  *)
(* connected; it asked for a reposition the option said to skip; a         *)
(* reposition it asked for is done since GSX started; it asked again after *)
(* a resume although the checkpoint knew it had asked; and such a resume   *)
(* put it into the phase it is in.                                         *)
(***************************************************************************)
NoHistory == [powerTakenAway |-> FALSE, repeatedDespiteTheOption |-> FALSE,
              repositionDone |-> FALSE, askedAgainAfterResume |-> FALSE,
              resumedAsked |-> FALSE]

NoSave == [phase |-> WaitingSupportedAircraft, data |-> FreshData,
           done |-> FALSE]

(***************************************************************************)
(* What TransitionTo does to the data: the last phase clears all but       *)
(* repositionedThisSession, and RemoveGroundEquipment the timeout.  What   *)
(* only the phases of this module read is dropped when they are left.      *)
(***************************************************************************)
StandPhases == WaitingSupportedAircraft .. CallServices

Entered(next, d) ==
  IF next \in StandPhases
  THEN d
  ELSE [FreshData EXCEPT
          !.repositionedThisSession = d.repositionedThisSession,
          !.groundEquipmentTimedOut =
            /\ d.groundEquipmentTimedOut
            /\ next \notin {WaitingNewFlight, RemoveGroundEquipment}]

(***************************************************************************)
(* The ends of an evaluation: a phase that stays counts its tick, and a    *)
(* transition starts the count over (Step).                                *)
(***************************************************************************)
Counted(ticks) == IF ticks < TickBound THEN ticks + 1 ELSE ticks
TickCondition(ticks) == stateTickCount # 0 /\ stateTickCount % ticks = 0

StayCounting(d, ticks) ==
  /\ Stay
  /\ data' = d
  /\ stateTickCount' = Counted(ticks)
  /\ unsaved' = TRUE

StayWith(d) == StayCounting(d, stateTickCount)

GoWith(next, d) ==
  /\ Go(next)
  /\ data' = Entered(next, d)
  /\ stateTickCount' = 0
  /\ unsaved' = TRUE

(***************************************************************************)
(* WaitingSupportedAircraft and WaitingAircraftReady.                      *)
(***************************************************************************)
WaitingSupportedAircraftTick ==
  /\ PhaseTick(WaitingSupportedAircraft)
  /\ GoWith(WaitingAircraftReady, data) \/ StayWith(data)
  /\ UNCHANGED <<saved, gpu, ownPower, hist>>

WaitingAircraftReadyTick ==
  /\ PhaseTick(WaitingAircraftReady)
  /\ GoWith(RepositionAircraft, data) \/ StayWith(data)
  /\ UNCHANGED <<saved, gpu, ownPower, hist>>

(***************************************************************************)
(* RepositionAircraft.  underway is HasServiceUnderway, which GSX may not  *)
(* have said yet.                                                          *)
(***************************************************************************)
LeaveReposition(d, done) ==
  /\ GoWith(PlaceGroundEquipment, d)
  /\ hist' = [hist EXCEPT !.resumedAsked = FALSE, !.repositionDone = @ \/ done]

CompleteReposition(d) ==
  LeaveReposition(
    [d EXCEPT !.repositionedThisSession = @ \/ d.repositionAttempted],
    d.repositionAttempted)

AskForReposition(d, skipOnNewTurnaround) ==
  /\ StayWith([d EXCEPT !.repositionRequested = TRUE,
                        !.repositionAttempted = TRUE])
  /\ hist' = [hist EXCEPT
       !.repeatedDespiteTheOption = @ \/ (skipOnNewTurnaround /\ hist.repositionDone),
       !.askedAgainAfterResume = @ \/ hist.resumedAsked]

FirstAsk(d, skipOnNewTurnaround, underway) ==
  \/ underway = "Unknown" /\ StayWith(d) /\ UNCHANGED hist
  \/ /\ underway = "Yes"
     /\ LeaveReposition([d EXCEPT !.repositionCompleted = TRUE], FALSE)
  \/ underway = "No" /\ AskForReposition(d, skipOnNewTurnaround)

WatchReposition(d, repositioning) ==
  /\ StayWith([d EXCEPT !.repositionCompleted = repositioning,
                        !.repositionRequested =
                          repositioning \/ ~TickCondition(RepositionRetryTicks)])
  /\ UNCHANGED hist

AskOrWatch(skipOnNewTurnaround, underway, repositioning) ==
  LET d == [data EXCEPT !.repositionCompleted =
                          @ \/ stateTickCount > RepositionGiveUpTicks]
  IN \/ d.repositionCompleted /\ CompleteReposition(d)
     \/ /\ ~d.repositionCompleted /\ ~d.repositionRequested
        /\ FirstAsk(d, skipOnNewTurnaround, underway)
     \/ /\ ~d.repositionCompleted /\ d.repositionRequested
        /\ WatchReposition(d, repositioning)

RepositionAircraftTick ==
  /\ PhaseTick(RepositionAircraft)
  /\ \E skip, skipOnNewTurnaround, repositioning \in BOOLEAN,
        underway \in {"Unknown", "No", "Yes"} :
       LET skips == /\ ~data.repositionRequested
                    /\ \/ skip
                       \/ skipOnNewTurnaround /\ data.repositionedThisSession
       IN \/ skips /\ LeaveReposition(data, FALSE)
          \/ ~skips /\ AskOrWatch(skipOnNewTurnaround, underway, repositioning)
  /\ UNCHANGED <<saved, gpu, ownPower>>

\* Without GSX the phase waits, and starts its count over.
RepositionWithoutGsx ==
  /\ PhaseTick(RepositionAircraft)
  /\ StayCounting(data, 0)
  /\ UNCHANGED <<saved, gpu, ownPower, hist>>

(***************************************************************************)
(* PlaceGroundEquipment.  The ground power is the aircraft's own when it   *)
(* supports that, and GSX's otherwise: connected when the service is       *)
(* active, in progress as soon as it is requested.  ToggleGpu turns a      *)
(* service that is in progress away.                                       *)
(***************************************************************************)
GpuInProgress == gpu \in {"Requested", "Active"}
GpuToggled == IF GpuInProgress THEN "Callable" ELSE "Requested"

AreChocksInPlace(placeChocks, commanded, reading) ==
  \/ ~placeChocks
  \/ reading \in {"NotSupported", "Placed"}
  \/ reading = "NotRead" /\ commanded

TogglePower ==
  /\ gpu' = GpuToggled
  /\ hist' = [hist EXCEPT !.powerTakenAway = @ \/ GpuInProgress]

RequestWithoutLooking ==
  IF ownPower THEN UNCHANGED <<gpu, hist>> ELSE TogglePower
RequestTheGroundPower ==
  IF ownPower \/ GpuInProgress THEN UNCHANGED <<gpu, hist>> ELSE TogglePower

WaitForTheServiceState(d) ==
  /\ ~d.doorsClosed
  /\ stateTickCount < GroundEquipmentGiveUpTicks
  /\ StayWith(d)
  /\ UNCHANGED <<gpu, hist>>

PlaceEquipment(d, callGpu, chocksInPlace, powerConnected, powerKnown, held) ==
  LET powerInPlace == ~callGpu \/ powerConnected
      asks == /\ ~powerInPlace /\ ~d.gpuRequested /\ powerKnown
              /\ ownPower \/ held
  IN \/ /\ powerInPlace /\ chocksInPlace
        /\ GoWith(CallServices, d)
        /\ UNCHANGED <<gpu, hist>>
     \/ /\ ~(powerInPlace /\ chocksInPlace)
        /\ stateTickCount >= GroundEquipmentGiveUpTicks
        /\ GoWith(CallServices, [d EXCEPT !.groundEquipmentTimedOut = TRUE])
        /\ UNCHANGED <<gpu, hist>>
     \/ /\ ~(powerInPlace /\ chocksInPlace)
        /\ stateTickCount < GroundEquipmentGiveUpTicks
        /\ StayWith([d EXCEPT !.gpuRequested = @ \/ asks])
        /\ IF asks THEN RequestTheGroundPower ELSE UNCHANGED <<gpu, hist>>

\* The chocks first, then what is left to wait for.
PlaceTheChocks(cleared, placeChocks, accepted, reading, callGpu, own, held) ==
  LET d == [cleared EXCEPT !.doorsClosed = TRUE,
                           !.chocksPlaced = @ \/ (placeChocks /\ accepted)]
  IN PlaceEquipment(
       d, callGpu, AreChocksInPlace(placeChocks, d.chocksPlaced, reading),
       IF ownPower THEN own = "Connected" ELSE gpu = "Active",
       ownPower => own # "Unknown", held)

PlaceGroundEquipmentTick ==
  /\ PhaseTick(PlaceGroundEquipment)
  /\ LET cleared == [data EXCEPT !.ownGroundEquipmentCleared = TRUE]
     IN \/ WaitForTheServiceState(cleared)
        \/ \E placeChocks, accepted, callGpu, held \in BOOLEAN,
              reading \in {"NotSupported", "NotRead", "Placed", "Removed"},
              own \in {"Unknown", "Disconnected", "Connected"} :
             PlaceTheChocks(cleared, placeChocks, accepted, reading, callGpu,
                            own, held)
  /\ UNCHANGED <<saved, ownPower>>

(***************************************************************************)
(* CallServices.  operating is IsJetwayOrStairsOperating, vehicle          *)
(* IsServiceVehicleActive.                                                 *)
(***************************************************************************)
LeaveServicesPastThePlan(d) == GoWith(WaitingPowerOn, [d EXCEPT !.servicesStalled = FALSE])
LeaveServices(d) == GoWith(WaitingFlightPlan, [d EXCEPT !.servicesStalled = FALSE])

\* Operating, but nothing moves: the phase counts, and at last leaves.
ServicesStayStuck(d) ==
  StayWith([d EXCEPT !.servicesOperatingTicks = @ + 1, !.servicesStalled = TRUE])
ServicesSeemStuck(d) ==
  LET ticks == d.servicesOperatingTicks + 1
  IN IF ticks >= ServicesStuckTicks
     THEN LeaveServices([d EXCEPT !.servicesOperatingTicks = ticks])
     ELSE StayWith([d EXCEPT !.servicesOperatingTicks = ticks,
                             !.servicesStalled = ticks >= ServicesStalledTicks])

\* Nothing operates: the phase asks once, and again every retry.
AskForServices(d, callable) ==
  LET idle == [d EXCEPT !.servicesOperatingTicks = 0, !.servicesStalled = FALSE]
  IN IF stateTickCount >= ServicesGiveUpTicks
     THEN GoWith(WaitingFlightPlan, idle)
     ELSE StayWith([idle EXCEPT !.jetwayOrStairsRequested = @ \/ callable])

CallServicesTick(vehicle) ==
  /\ PhaseTick(CallServices)
  /\ \/ GoWith(WaitingFlightPlan, data)  \* no stairs or jetways to call
     \/ \E stairsInPlace, jetwayInPlace, operating, callable \in BOOLEAN :
          LET inPlace == IF stairsInPlace THEN data.stairsInPlaceTicks + 1 ELSE 0
              completed == inPlace >= StairsInPlaceHoldTicks \/ jetwayInPlace
              d == [data EXCEPT !.stairsInPlaceTicks = inPlace]
          IN \/ completed /\ LeaveServices(d)
             \/ /\ ~completed /\ operating /\ vehicle
                /\ StayWith([d EXCEPT !.servicesOperatingTicks = 0,
                                      !.servicesStalled = FALSE])
             \/ ~completed /\ operating /\ ~vehicle /\ ServicesSeemStuck(d)
             \/ ~completed /\ ~operating /\ AskForServices(d, callable)
  /\ UNCHANGED <<saved, gpu, ownPower, hist>>

\* A rule of the aircraft holds the phase (RuleHolds bounds for how long).
HeldTick ==
  /\ PhaseTick(CallServices)
  /\ StayWith(data)
  /\ UNCHANGED <<saved, gpu, ownPower, hist>>

SavedFields(d) ==
  [d EXCEPT !.groundEquipmentTimedOut = FALSE, !.servicesStalled = FALSE,
            !.stairsInPlaceTicks = 0, !.servicesOperatingTicks = 0]

\* What SaveTurnaround leaves on the disk: nothing new before the reposition.
Checkpoint(p, d) ==
  IF p >= RepositionAircraft
  THEN [phase |-> p, data |-> SavedFields(d), done |-> hist.repositionDone]
  ELSE saved

(***************************************************************************)
(* The ticks of the engine, and of the phases of the other modules, where  *)
(* the save is taken together with the tick.                               *)
(***************************************************************************)
DataSoFar == IF Expiring THEN Entered(pendingPhase, data) ELSE data

OutsideTheStand(p) ==
  /\ OpenTick(p)
  /\ data' = IF phase' # p THEN Entered(phase', DataSoFar) ELSE DataSoFar
  /\ stateTickCount' = 0
  /\ saved' = Checkpoint(phase', data')
  /\ UNCHANGED <<unsaved, gpu, ownPower, hist>>

InTheAir ==
  /\ AirborneTick
  /\ data' = IF phase' = phase THEN DataSoFar ELSE Entered(phase', DataSoFar)
  /\ stateTickCount' = IF phase' = phase /\ phase \in StandPhases
                       THEN Counted(stateTickCount) ELSE 0
  /\ unsaved' = TRUE
  /\ hist' = [hist EXCEPT !.resumedAsked = @ /\ phase' = phase]
  /\ UNCHANGED <<saved, gpu, ownPower>>

Delayed ==
  /\ DelayTick
  /\ UNCHANGED standVars

(***************************************************************************)
(* The save that follows a tick, and what may happen instead: the client   *)
(* dies and starts again from the last checkpoint, or the flow is          *)
(* restarted.  A checkpoint of the last phase only says whether GSX has    *)
(* repositioned the aircraft, and GSX forgets it when it restarts.         *)
(***************************************************************************)
Save ==
  /\ unsaved
  /\ unsaved' = FALSE
  /\ saved' = Checkpoint(phase, data)
  /\ UNCHANGED <<machineVars, data, stateTickCount, gpu, ownPower, hist>>

RestoredAskingAgain == saved.data
Restored ==
  [saved.data EXCEPT !.repositionCompleted =
     \/ @
     \/ /\ saved.phase = RepositionAircraft
        /\ saved.data.repositionRequested \/ saved.data.repositionAttempted]

StartAgain(done, resumedAsked) ==
  /\ stateTickCount' = 0
  /\ unsaved' = FALSE
  /\ hist' = [hist EXCEPT !.repositionDone = done, !.resumedAsked = resumedAsked]
  /\ UNCHANGED ownPower

Relaunch(gsxRestarted) ==
  LET d == IF IsResumablePhase(saved.phase) THEN Restored ELSE FreshData
  IN /\ saved # NoSave
     /\ IF IsResumablePhase(saved.phase) THEN ResumeFrom(saved.phase) ELSE Reset
     /\ data' = [d EXCEPT !.repositionedThisSession =
                   saved.data.repositionedThisSession /\ ~gsxRestarted]
     /\ gpu' = IF gsxRestarted THEN "Callable" ELSE gpu
     /\ StartAgain(saved.done /\ ~gsxRestarted,
                   /\ saved.phase = RepositionAircraft
                   /\ saved.data.repositionAttempted)
     /\ UNCHANGED saved

RestartFlow ==
  /\ Reset
  /\ data' = FreshData
  /\ saved' = NoSave
  /\ StartAgain(FALSE, FALSE)
  /\ UNCHANGED gpu

\* The aircraft is moved to another stand between two turnarounds.
ChangeStand ==
  /\ phase \in {WaitingNewFlight, WaitingSupportedAircraft, WaitingAircraftReady}
  /\ data.repositionedThisSession
  /\ data' = [data EXCEPT !.repositionedThisSession = FALSE]
  /\ hist' = [hist EXCEPT !.repositionDone = FALSE]
  /\ UNCHANGED <<machineVars, stateTickCount, saved, unsaved, gpu, ownPower>>

(***************************************************************************)
(* The environment: GSX brings the power, and the pilot may call it or     *)
(* send it away; the aircraft leaves the ground.  None of these phases     *)
(* takes a touch of the app, and the model sends none.                     *)
(***************************************************************************)
PowerChanges ==
  /\ phase \in StandPhases /\ ~ownPower
  /\ gpu' \in {"Callable", "Requested", "Active"} \ {gpu}
  /\ UNCHANGED <<machineVars, data, stateTickCount, saved, unsaved, ownPower,
                 hist>>

LiftOffOrTouchDown == TakeOffOrLand /\ UNCHANGED standVars

Init ==
  /\ MachineInit
  /\ data = FreshData
  /\ stateTickCount = 0
  /\ saved = NoSave
  /\ unsaved = FALSE
  /\ gpu = "Callable"
  /\ ownPower \in BOOLEAN
  /\ hist = NoHistory

\* The evaluations of the phases, once no rule holds them.
Evaluation ==
  \/ Delayed
  \/ InTheAir
  \/ WaitingSupportedAircraftTick
  \/ WaitingAircraftReadyTick
  \/ RepositionAircraftTick
  \/ RepositionWithoutGsx
  \/ PlaceGroundEquipmentTick
  \/ \E vehicle \in BOOLEAN : CallServicesTick(vehicle)
  \/ \E p \in Phases \ StandPhases : OutsideTheStand(p)

Next ==
  \/ ~unsaved /\ (Evaluation \/ HeldTick)
  \/ Save
  \/ \E gsxRestarted \in BOOLEAN : Relaunch(gsxRestarted)
  \/ RestartFlow
  \/ ChangeStand
  \/ PowerChanges
  \/ LiftOffOrTouchDown

Spec == Init /\ [][Next]_vars

(***************************************************************************)
(* The one-second event runs Update, a tick and its save, as long as a     *)
(* session runs; a rule cannot hold a phase for ever.                      *)
(***************************************************************************)
FairSpec ==
  /\ Spec
  /\ SF_vars(~unsaved /\ Evaluation)
  /\ WF_vars(Save)
-----------------------------------------------------------------------------
Counters == {"stairsInPlaceTicks", "servicesOperatingTicks"}

\* The types of the data; the counters of CallServices end the phase in time.
TypeOK ==
  /\ MachineTypeOK
  /\ DOMAIN data = DOMAIN FreshData
  /\ data.stairsInPlaceTicks \in 0 .. StairsInPlaceHoldTicks
  /\ data.servicesOperatingTicks \in 0 .. ServicesStuckTicks
  /\ \A flag \in DOMAIN FreshData \ Counters : data[flag] \in BOOLEAN
  /\ stateTickCount \in 0 .. TickBound
  /\ saved.phase \in Phases
  /\ unsaved \in BOOLEAN /\ ownPower \in BOOLEAN
  /\ gpu \in {"Callable", "Requested", "Active"}
  /\ hist \in [DOMAIN NoHistory -> BOOLEAN]

(***************************************************************************)
(* The client never toggles away a ground power that is connected or on    *)
(* its way, although the pilot may have called it, and a crash may have    *)
(* lost that the client had (gpuRequested, IsServiceInProgress).           *)
(***************************************************************************)
GroundPowerIsNeverToggledAway == ~hist.powerTakenAway

(***************************************************************************)
(* With skipRepositionOnNewTurnaround, an aircraft GSX has repositioned is *)
(* not repositioned again, over the reset between two turnarounds and over *)
(* a crash, until GSX or the flow is restarted or the aircraft changes     *)
(* stands.                                                                 *)
(***************************************************************************)
NewTurnaroundsSkipTheReposition == ~hist.repeatedDespiteTheOption

(***************************************************************************)
(* A reposition that was asked for before a crash is never asked for again *)
(* by the phase that is resumed (TakeTheRepositionAlreadyAskedAsSeen).     *)
(***************************************************************************)
ResumeDoesNotRepositionAgain == ~hist.askedAgainAfterResume

(***************************************************************************)
(* The phases that wait for GSX give up: once the ticks read GSX           *)
(* available, no vehicle busy and the aircraft on the ground, none of the  *)
(* three phases is kept for good.                                          *)
(***************************************************************************)
PhasesThatWaitAreLeft == phase \notin RepositionAircraft .. CallServices
NothingKeepsThePhases ==
  <>[][~RepositionWithoutGsx /\ ~CallServicesTick(TRUE)]_vars

(***************************************************************************)
(* An aircraft is not repositioned a second time, neither in the next      *)
(* turnaround nor by the client that was started anew.                     *)
(***************************************************************************)
RepositionsOnce ==
  NewTurnaroundsSkipTheReposition /\ ResumeDoesNotRepositionAgain
=============================================================================
