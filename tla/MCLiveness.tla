----------------------------- MODULE MCLiveness -----------------------------
(***************************************************************************)
(* What the engine, the stand phases, the flight plan phases and the       *)
(* resumption of a saved turnaround come to in the end, on small instances *)
(* side by side.  A behaviour is about one of them, chosen at the start;   *)
(* the first three share the machine.                                      *)
(***************************************************************************)
EXTENDS TurnaroundStateMachine

CONSTANTS Aircraft, Stands, Unknown, NoDocument

VARIABLES
  side,
  standData, standTicks, saved, unsaved, gpu, ownPower, standHist,
  planData, planTicks, flightPlanStatus, ofp, dispatch, gsx, planHist,
  client, live, autoStart, crashes

Stand == INSTANCE StandPreparation WITH
  MaxRestarts <- 0, RepositionRetryTicks <- 2, RepositionGiveUpTicks <- 3,
  GroundEquipmentGiveUpTicks <- 2, ServicesStalledTicks <- 1, ServicesStuckTicks <- 2,
  ServicesGiveUpTicks <- 3, StairsInPlaceHoldTicks <- 2, TickBound <- 4,
  data <- standData, stateTickCount <- standTicks, hist <- standHist

Plan == INSTANCE FlightPlanCapture WITH
  MaxRestarts <- 0, FlightPlanRetryTicks <- 2, DifferingFetchTicks <- 3,
  CateringGiveUpTicks <- 2, TickBound <- 2, MaxOfp <- 1, MaxGeneration <- 2,
  data <- planData, stateTickCount <- planTicks, hist <- planHist

Resumption == INSTANCE TurnaroundResumption WITH
  MaxFlows <- 1, MaxCouatl <- 2, MaxCrashes <- 0, SnapshotsAreComplete <- TRUE

standSide == <<standData, standTicks, saved, unsaved, gpu, ownPower, standHist>>
planSide == <<planData, planTicks, flightPlanStatus, ofp, dispatch, gsx, planHist>>
resumeSide == <<client, live, autoStart, crashes>>
sideVars == <<side, machineVars, standSide, planSide, resumeSide>>

\* The sides that rest do so in one way only.
Init ==
  /\ side \in {"machine", "stand", "plan", "resume"}
  /\ Stand!Init /\ Plan!Init /\ Resumption!Init
  /\ side # "stand" => ownPower
  /\ side # "resume" => autoStart /\ live.stand = CHOOSE stand \in Stands : TRUE
  /\ side = "resume" => onGround

\* An action of one side, which leaves the others as they are.
MachineMoves(action) ==
  side = "machine" /\ action /\ UNCHANGED <<side, standSide, planSide, resumeSide>>
StandMoves(action) ==
  side = "stand" /\ action /\ UNCHANGED <<side, planSide, resumeSide>>
PlanMoves(action) ==
  side = "plan" /\ action /\ UNCHANGED <<side, standSide, resumeSide>>
ResumptionMoves(action) ==
  side = "resume" /\ action /\ UNCHANGED <<side, machineVars, standSide, planSide>>

Next ==
  \/ MachineMoves(MachineNext)
  \/ StandMoves(Stand!Next)
  \/ PlanMoves(Plan!Next)
  \/ ResumptionMoves(Resumption!Next)

(***************************************************************************)
(* The fairness of each module.  No two sides move in a behaviour, so one  *)
(* action of every side can share a condition.                             *)
(***************************************************************************)
Weakly ==
  \/ MachineMoves(Tick)
  \/ StandMoves(Stand!Save)
  \/ PlanMoves(Plan!PlanTick)

Strongly ==
  \/ StandMoves(~unsaved /\ Stand!Evaluation)
  \/ ResumptionMoves(Resumption!UpdateSeeingEverything)

Spec == Init /\ [][Next]_sideVars /\ WF_sideVars(Weakly) /\ SF_sideVars(Strongly)

(***************************************************************************)
(* TurnaroundStateMachine: an aircraft that stays airborne leaves the      *)
(* stand phases, and a delayed transition is applied in the end.           *)
(* StandPreparation, FlightPlanCapture: on the ground, the phases that     *)
(* wait for GSX give up, the catering is not waited for for ever, and a    *)
(* fetch that failed is tried again.                                       *)
(***************************************************************************)
TurnaroundGoesOn ==
  /\ <>[](side = "machine" /\ ~onGround) => []<>(~HasNoAirborneExitOfItsOwn(phase))
  /\ []<>(side = "machine" => DelayIsOver)
  /\ <>[](side = "stand" /\ onGround) /\ Stand!NothingKeepsThePhases
       => []<>(Stand!PhasesThatWaitAreLeft)
  /\ <>[](side = "plan" /\ onGround) => []<>(phase # CallCatering)
  /\ <>[](side = "plan" /\ onGround) => []<>(~Plan!WaitsForAFailedFetch)

(***************************************************************************)
(* TurnaroundResumption: holds end without the pilot, and discards are     *)
(* done.                                                                   *)
(***************************************************************************)
HoldsAndDiscardsEnd ==
  Resumption!HoldsEndWithoutThePilot /\ Resumption!DiscardsAreDone
=============================================================================
