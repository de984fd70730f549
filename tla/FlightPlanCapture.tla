------------------------- MODULE FlightPlanCapture --------------------------
(***************************************************************************)
(* From the services to the catering: the machine waits until the          *)
(* aircraft has its flight plan, the client the OFP of SimBrief, and GSX   *)
(* serves that plan too, then captures it; it waits for the power and asks *)
(* for the catering.                                                       *)
(*                                                                         *)
(* The pilot may dispatch a new OFP at any time, so each party has its own *)
(* version of it: the dispatch, the client's, and GSX's.  GSX counts its   *)
(* loads (its generation), may refuse one, and starts over when couatl     *)
(* restarts.                                                               *)
(*                                                                         *)
(* A tick is taken together with the save that follows it: what a tick of  *)
(* these phases does outside the client, GSX may as well do of its own, so *)
(* a crash between the two is one before the tick.                         *)
(***************************************************************************)
EXTENDS TurnaroundStateMachine

CONSTANTS
  FlightPlanRetryTicks,   \* kRetryTicks of WaitingFlightPlanState
  DifferingFetchTicks,    \* kDifferingFlightPlanFetchTicks
  CateringGiveUpTicks,    \* kCateringGiveUpTicks
  TickBound,              \* where the count of the ticks wraps around
  MaxOfp,                 \* bound on the dispatched versions
  MaxGeneration           \* bound on the loads of one life of couatl

ASSUME FlightPlanConstants ==
  /\ FlightPlanRetryTicks \in Nat \ {0} /\ DifferingFetchTicks \in Nat \ {0}
  /\ CateringGiveUpTicks \in Nat \ {0} /\ TickBound \in Nat \ {0}
  /\ TickBound % FlightPlanRetryTicks = 0 /\ TickBound % CateringGiveUpTicks = 0
  /\ MaxOfp \in Nat \ {0} /\ MaxGeneration \in Nat \ {0}

VARIABLES
  data,            \* the fields of TurnaroundData these phases use
  stateTickCount,  \* data.stateTickCount
  flightPlanStatus,\* of the SimBrief client
  ofp,             \* the version the client has, or at least fetches
  dispatch,        \* the version SimBrief serves (environment)
  gsx,             \* what GSX serves: [loaded, generation, refuses, ofp]
  hist             \* history, see below

planVars == <<data, stateTickCount, flightPlanStatus, ofp, dispatch, gsx, hist>>
vars == <<machineVars, planVars>>

PlanPhases == {WaitingFlightPlan, WaitingPowerOn, CallCatering}
NoGeneration == -1
kUnknownGeneration == 0

FreshData ==
  [flightPlanRequested |-> FALSE, flightPlanRequestTicks |-> 0,
   flightPlanRefused |-> FALSE, latestFlightPlanRequested |-> FALSE,
   differingFlightPlanTicks |-> 0, staleSimbriefGeneration |-> NoGeneration,
   cateringAsked |-> FALSE, cateringRequested |-> FALSE]

GsxWithoutPlan == [loaded |-> FALSE, generation |-> kUnknownGeneration,
                   refuses |-> FALSE, ofp |-> 0]

(***************************************************************************)
(* History: whether GSX still serves what it served when the aircraft's    *)
(* plan was last seen to differ, and the version it was first found to     *)
(* serve after a refusal.                                                  *)
(***************************************************************************)
NoHistory == [servesOldPlan |-> FALSE, acceptedOfp |-> 0]

(***************************************************************************)
(* What is read in WaitingFlightPlan only is dropped with it, and the rest *)
(* with the last phase of the module: nobody reads it again before         *)
(* TransitionTo clears it for the next turnaround.                         *)
(***************************************************************************)
Entered(next, d) ==
  IF next \in {WaitingPowerOn, CallCatering}
  THEN [FreshData EXCEPT !.cateringAsked = d.cateringAsked,
                         !.cateringRequested = d.cateringRequested]
  ELSE FreshData
Counted(ticks) == IF ticks = TickBound THEN 1 ELSE ticks + 1
TickCondition(ticks) == stateTickCount # 0 /\ stateTickCount % ticks = 0

StayWith(d) ==
  /\ Stay
  /\ data' = d
  /\ stateTickCount' = Counted(stateTickCount)

GoWith(next, d) ==
  /\ Go(next)
  /\ data' = Entered(next, d)
  /\ stateTickCount' = 0

\* RequestLatest: the client forgets what it had and fetches.
RequestLatest ==
  /\ flightPlanStatus' = "Fetching"
  /\ ofp' = dispatch
KeepTheOfp == UNCHANGED <<flightPlanStatus, ofp>>

(***************************************************************************)
(* WaitingFlightPlan.                                                      *)
(***************************************************************************)
AnyGenerationIsNew(served, stale) == served # kUnknownGeneration
HasMovedPastTheStaleGeneration(served, stale) ==
  \/ served > stale
  \/ served # kUnknownGeneration /\ served < stale

GsxServesTheLatestPlan(d) ==
  /\ gsx.loaded
  /\ \/ d.staleSimbriefGeneration = NoGeneration
     \/ /\ HasMovedPastTheStaleGeneration(gsx.generation,
                                          d.staleSimbriefGeneration)
        /\ ~gsx.refuses

AwaitsLatestFlightPlan ==
  data.latestFlightPlanRequested /\ flightPlanStatus # "Ready"

AwaitLatestFlightPlan ==
  /\ StayWith(data)
  /\ IF flightPlanStatus = "Error" /\ TickCondition(FlightPlanRetryTicks)
     THEN RequestLatest
     ELSE KeepTheOfp
  /\ UNCHANGED hist

AskForTheLoadOnce(d) ==
  LET ticks == d.flightPlanRequestTicks + 1
  IN IF ~d.flightPlanRequested
     THEN StayWith([d EXCEPT !.flightPlanRequested = TRUE,
                             !.flightPlanRequestTicks = 0])
     ELSE StayWith([d EXCEPT !.flightPlanRequestTicks = ticks,
                             !.flightPlanRefused = @ \/ gsx.refuses])

\* Ask GSX to load the plan, and again every retry; note a refusal.
AwaitSimbriefLoad(d) ==
  LET ticks == d.flightPlanRequestTicks + 1
  IN IF ~d.flightPlanRequested
     THEN StayWith([d EXCEPT !.flightPlanRequested = TRUE,
                             !.flightPlanRequestTicks = 0])
     ELSE IF ticks < FlightPlanRetryTicks
     THEN StayWith([d EXCEPT !.flightPlanRequestTicks = ticks])
     ELSE StayWith([d EXCEPT !.flightPlanRequestTicks = ticks,
                             !.flightPlanRefused = @ \/ gsx.refuses,
                             !.flightPlanRequested = FALSE])

FetchesForTheDiffering(differs) ==
  differs /\ data.differingFlightPlanTicks = 0

AfterTheDiffering(differs) ==
  [data EXCEPT
     !.differingFlightPlanTicks =
        IF differs THEN (@ + 1) % DifferingFetchTicks ELSE 0,
     !.staleSimbriefGeneration =
        IF FetchesForTheDiffering(differs) THEN gsx.generation ELSE @,
     !.flightPlanRequested = @ /\ ~FetchesForTheDiffering(differs)]

NeedsTheLatestOfp(d) == d.flightPlanRefused /\ ~d.latestFlightPlanRequested

CapturePastThePower(d) == GoWith(CallCatering, d)
CaptureFlightPlan(d) == GoWith(WaitingPowerOn, d)

(***************************************************************************)
(* The rest of the phase, once the differing plan has been seen to.        *)
(***************************************************************************)
WaitOrCapture(d, loaded) ==
  LET served == loaded /\ GsxServesTheLatestPlan(d)
      planned == [d EXCEPT !.flightPlanRequested = FALSE]
  IN \/ ~loaded /\ StayWith(d)
     \/ loaded /\ ~served /\ AwaitSimbriefLoad(d)
     \/ /\ served /\ NeedsTheLatestOfp(d)
        /\ StayWith([planned EXCEPT !.latestFlightPlanRequested = TRUE])
     \/ /\ served /\ ~NeedsTheLatestOfp(d)
        /\ CaptureFlightPlan(planned)

\* The aircraft whose plan can differ have it only while the OFP is ready.
HasPlan(aircraftHasPlan, d, fetches) ==
  /\ aircraftHasPlan
  /\ \/ flightPlanStatus = "Ready" /\ ~fetches
     \/ d.staleSimbriefGeneration = NoGeneration

CaptureOrFetch(differs, aircraftHasPlan) ==
  LET d == AfterTheDiffering(differs)
      fetches == FetchesForTheDiffering(differs)
      loaded == HasPlan(aircraftHasPlan, d, fetches)
      served == loaded /\ GsxServesTheLatestPlan(d)
  IN /\ WaitOrCapture(d, loaded)
     /\ IF fetches \/ (served /\ NeedsTheLatestOfp(d)) THEN RequestLatest
                                                        ELSE KeepTheOfp
     /\ hist' = [servesOldPlan |-> hist.servesOldPlan \/ fetches,
                 acceptedOfp |->
                   IF served /\ d.flightPlanRefused /\ ~d.latestFlightPlanRequested
                   THEN gsx.ofp ELSE hist.acceptedOfp]

WaitingFlightPlanTick ==
  /\ PhaseTick(WaitingFlightPlan)
  /\ \/ AwaitsLatestFlightPlan /\ AwaitLatestFlightPlan
     \/ /\ ~AwaitsLatestFlightPlan
        /\ \E differs, aircraftHasPlan \in BOOLEAN :
             CaptureOrFetch(differs, aircraftHasPlan)
  /\ UNCHANGED <<dispatch, gsx>>

(***************************************************************************)
(* WaitingPowerOn and CallCatering.                                        *)
(***************************************************************************)
WaitingPowerOnTick ==
  /\ PhaseTick(WaitingPowerOn)
  /\ StayWith(data) \/ GoWith(CallCatering, data)
  /\ UNCHANGED <<flightPlanStatus, ofp, dispatch, gsx, hist>>

\* Ask once; then wait until GSX has the catering in progress, or give up.
DispatchUntilInProgress(inProgress) ==
  IF inProgress
  THEN GoWith(RequestFuel, [data EXCEPT !.cateringRequested = TRUE])
  ELSE StayWith([data EXCEPT !.cateringAsked = TRUE])
DispatchCatering(inProgress) ==
  \/ /\ inProgress \/ (data.cateringAsked /\ TickCondition(CateringGiveUpTicks))
     /\ GoWith(RequestFuel, [data EXCEPT !.cateringRequested = TRUE])
  \/ /\ ~inProgress
     /\ ~(data.cateringAsked /\ TickCondition(CateringGiveUpTicks))
     /\ StayWith([data EXCEPT !.cateringAsked = TRUE])

CallCateringTick ==
  /\ PhaseTick(CallCatering)
  /\ \E callCatering, inProgress \in BOOLEAN :
       IF callCatering /\ ~data.cateringRequested
       THEN DispatchCatering(inProgress)
       ELSE GoWith(RequestFuel, data)
  /\ UNCHANGED <<flightPlanStatus, ofp, dispatch, gsx, hist>>

(***************************************************************************)
(* What the client and GSX have of the plan, when nobody waits for it, is  *)
(* of no interest; when the phase is entered, it can be anything.          *)
(***************************************************************************)
NoPlan ==
  /\ flightPlanStatus' = "Fetching"
  /\ ofp' = 1 /\ dispatch' = 1
  /\ gsx' = GsxWithoutPlan

AnyPlan ==
  /\ flightPlanStatus' \in {"Fetching", "Ready", "Error"}
  /\ dispatch' \in 1 .. MaxOfp
  /\ ofp' \in 1 .. dispatch'
  /\ gsx' \in {GsxWithoutPlan} \cup
       [loaded : {TRUE}, generation : {1}, refuses : BOOLEAN, ofp : 1 .. dispatch']

\* The ticks of the engine and of the other phases.
EngineTick ==
  /\ \/ DelayTick
     \/ AirborneTick
     \/ \E p \in Phases \ PlanPhases : OpenTick(p)
  /\ data' = IF phase' \in PlanPhases THEN data ELSE FreshData
  /\ stateTickCount' = IF phase' \in PlanPhases /\ phase' = phase
                       THEN Counted(stateTickCount) ELSE 0
  /\ hist' = IF phase' = WaitingFlightPlan THEN hist ELSE NoHistory
  /\ \/ /\ phase' = phase
        /\ UNCHANGED <<flightPlanStatus, ofp, dispatch, gsx>>
     \/ phase' \notin {phase, WaitingFlightPlan} /\ NoPlan
     \/ phase' # phase /\ phase' = WaitingFlightPlan /\ AnyPlan

(***************************************************************************)
(* A relaunch from the checkpoint, which holds the OFP only when it is     *)
(* ready: what is not saved starts over, and the client fetches the OFP    *)
(* again unless the checkpoint has one.                                    *)
(***************************************************************************)
SavedFields(d) ==
  [d EXCEPT !.flightPlanRequestTicks = 0, !.latestFlightPlanRequested = FALSE,
            !.differingFlightPlanTicks = 0,
            !.staleSimbriefGeneration = NoGeneration]

Relaunch(gsxRestarted) ==
  /\ phase \in PlanPhases
  /\ ResumeFrom(phase)
  /\ data' = SavedFields(data)
  /\ stateTickCount' = 0
  /\ IF flightPlanStatus = "Ready" THEN KeepTheOfp ELSE RequestLatest
  /\ gsx' = IF gsxRestarted THEN GsxWithoutPlan ELSE gsx
  /\ hist' = NoHistory
  /\ UNCHANGED dispatch

RestartFlow ==
  /\ Reset
  /\ data' = FreshData
  /\ stateTickCount' = 0
  /\ hist' = NoHistory
  /\ NoPlan

(***************************************************************************)
(* The environment, which matters only while a plan is being waited for:   *)
(* the pilot dispatches or reloads, the fetch ends, GSX loads or restarts. *)
(* A load GSX began earlier may end with an older version.                 *)
(***************************************************************************)
Elsewhere == UNCHANGED <<machineVars, data, stateTickCount>>

Dispatch ==
  /\ dispatch < MaxOfp
  /\ dispatch' = dispatch + 1
  /\ Elsewhere /\ UNCHANGED <<flightPlanStatus, ofp, gsx, hist>>

PilotReloads ==
  /\ RequestLatest
  /\ Elsewhere /\ UNCHANGED <<dispatch, gsx, hist>>

OfpArrives ==
  /\ flightPlanStatus = "Fetching"
  /\ flightPlanStatus' = "Ready"
  /\ ofp' \in ofp .. dispatch
  /\ Elsewhere /\ UNCHANGED <<dispatch, gsx, hist>>

OfpFails ==
  /\ flightPlanStatus = "Fetching"
  /\ flightPlanStatus' = "Error"
  /\ Elsewhere /\ UNCHANGED <<ofp, dispatch, gsx, hist>>

GsxLoads ==
  /\ gsx.generation < MaxGeneration
  /\ \E version \in 1 .. dispatch :
       /\ version >= gsx.ofp
       /\ gsx' = [loaded |-> TRUE, generation |-> gsx.generation + 1,
                  refuses |-> FALSE, ofp |-> version]
  /\ hist' = [hist EXCEPT !.servesOldPlan = FALSE]
  /\ Elsewhere /\ UNCHANGED <<flightPlanStatus, ofp, dispatch>>

GsxRefuses ==
  /\ gsx.generation < MaxGeneration
  /\ \E counted \in {0, 1} :
       gsx' = [gsx EXCEPT !.refuses = TRUE, !.generation = @ + counted]
  /\ Elsewhere /\ UNCHANGED <<flightPlanStatus, ofp, dispatch, hist>>

CouatlRestarts ==
  /\ gsx' = GsxWithoutPlan
  /\ hist' = [hist EXCEPT !.servesOldPlan = FALSE]
  /\ Elsewhere /\ UNCHANGED <<flightPlanStatus, ofp, dispatch>>

Environment ==
  /\ phase = WaitingFlightPlan
  /\ \/ Dispatch \/ PilotReloads \/ OfpArrives \/ OfpFails
     \/ GsxLoads \/ GsxRefuses \/ CouatlRestarts

LiftOffOrTouchDown == TakeOffOrLand /\ UNCHANGED planVars

Init ==
  /\ MachineInit
  /\ data = FreshData
  /\ stateTickCount = 0
  /\ flightPlanStatus = "Fetching"
  /\ ofp = 1 /\ dispatch = 1
  /\ gsx = GsxWithoutPlan
  /\ hist = NoHistory

PlanTick ==
  WaitingFlightPlanTick \/ WaitingPowerOnTick \/ CallCateringTick \/ EngineTick

Next ==
  \/ PlanTick
  \/ \E gsxRestarted \in BOOLEAN : Relaunch(gsxRestarted)
  \/ RestartFlow
  \/ Environment
  \/ LiftOffOrTouchDown

Spec == Init /\ [][Next]_vars

\* The one-second event keeps ticking as long as a session runs.
FairSpec == Spec /\ WF_vars(PlanTick)
-----------------------------------------------------------------------------
\* The types of the data.
TypeOK ==
  /\ MachineTypeOK
  /\ DOMAIN data = DOMAIN FreshData
  /\ data.flightPlanRequestTicks \in 0 .. FlightPlanRetryTicks
  /\ data.differingFlightPlanTicks \in 0 .. DifferingFetchTicks - 1
  /\ data.staleSimbriefGeneration \in NoGeneration .. MaxGeneration
  /\ stateTickCount \in 0 .. TickBound
  /\ flightPlanStatus \in {"Fetching", "Ready", "Error"}
  /\ ofp \in 1 .. dispatch /\ dispatch \in 1 .. MaxOfp
  /\ gsx.generation \in 0 .. MaxGeneration

Captures == phase = WaitingFlightPlan /\ phase' = WaitingPowerOn

(***************************************************************************)
(* Once the aircraft's plan was seen to differ from the OFP, a plan is     *)
(* captured only after GSX has loaded anew, whatever it refuses, and       *)
(* although couatl may restart and count from the beginning                *)
(* (staleSimbriefGeneration, HasMovedPastTheStaleGeneration).              *)
(***************************************************************************)
CapturesOnlyWhatGsxReloaded ==
  [][Captures /\ restarts' = restarts => ~hist.servesOldPlan]_vars

(***************************************************************************)
(* After a refusal of GSX, the captured OFP is at least as new as the one  *)
(* GSX accepted in its place, although the client had an older one ready   *)
(* (flightPlanRefused, latestFlightPlanRequested).                         *)
(***************************************************************************)
CapturedOfpIsWhatGsxAccepted ==
  [][Captures /\ restarts' = restarts
       => (data.flightPlanRefused => ofp >= hist'.acceptedOfp)]_vars

(***************************************************************************)
(* On the ground, a fetch of the latest OFP that failed is tried again:    *)
(* the phase does not wait for ever for an OFP nobody fetches              *)
(* (AwaitsLatestFlightPlan).                                               *)
(***************************************************************************)
WaitsForAFailedFetch ==
  /\ phase = WaitingFlightPlan
  /\ data.latestFlightPlanRequested
  /\ flightPlanStatus = "Error"

(***************************************************************************)
(* The plan that is captured is the one the aircraft and GSX have: neither *)
(* an older one GSX goes on serving nor an OFP it has refused.             *)
(***************************************************************************)
CapturesTheCommonPlan ==
  CapturesOnlyWhatGsxReloaded /\ CapturedOfpIsWhatGsxAccepted
=============================================================================
