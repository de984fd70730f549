------------------------- MODULE DepartureAndArrival -------------------------
(***************************************************************************)
(* From the loaded aircraft to the next flight: the ground equipment goes, *)
(* GSX pushes the aircraft back and asks for the engines, the machine      *)
(* waits for the take-off and the landing, and at the new stand it places  *)
(* the equipment, has the passengers deboarded and the cabin served.       *)
(*                                                                         *)
(* What only one phase reads is chosen in its tick.  GSX takes what the    *)
(* menu asks, or misses it, and may restart and lose the pushback; the     *)
(* client may be relaunched in any of the phases.                          *)
(***************************************************************************)
EXTENDS TurnaroundStateMachine

CONSTANTS
  RetryTicks,              \* kRetryTicks of pushback, deboarding, equipment
  WaitTicks,               \* kWaitTicks, kServiceGiveUpTicks
  MaxCateringIntervals,    \* kMaxWaitIntervals of WaitCateringState
  MaxCabinIntervals,       \* kMaxWaitIntervals of CabinServicesState
  EquipmentGiveUpTicks,    \* kGroundEquipmentGiveUpTicks
  ConfirmationGiveUpTicks, \* kConfirmationGiveUpTicks
  TickBound,               \* where the count of the ticks wraps around
  NumServices,             \* the cabin services that are enabled
  Crafts,                  \* aircraft, settings, what the stand asked for
  RestartPhases,           \* bound: where a relaunch or a reset is tried
  MaxGsxRestarts           \* bound on the restarts of GSX

ASSUME DepartureConstants ==
  /\ {RetryTicks, WaitTicks, MaxCateringIntervals, MaxCabinIntervals,
      EquipmentGiveUpTicks, ConfirmationGiveUpTicks, TickBound} \subseteq Nat \ {0}
  /\ TickBound % RetryTicks = 0 /\ TickBound % WaitTicks = 0
  /\ Crafts \subseteq [kind : {"Gsx", "Own"}, viaMenu : BOOLEAN,
                      wish : SUBSET {"gpu", "chocks"}, catering : BOOLEAN,
                      gpuOurs : BOOLEAN]
  /\ RestartPhases \subseteq WaitingReadyToPush .. WaitingNewFlight
  /\ NumServices \in Nat /\ MaxGsxRestarts \in Nat

\* Two aircraft that differ in all of this, the values of Crafts that are checked.
TwoCrafts ==
  {[kind |-> "Gsx", viaMenu |-> FALSE, wish |-> {"gpu", "chocks"},
    catering |-> TRUE, gpuOurs |-> FALSE],
   [kind |-> "Own", viaMenu |-> TRUE, wish |-> {"gpu"},
    catering |-> FALSE, gpuOurs |-> TRUE]}

VARIABLES
  data,    \* the fields of TurnaroundData these phases use
  craft,   \* the aircraft and the settings, one of Crafts
  parked,  \* the engines are off and the aircraft is held in place
  gsx,     \* what GSX reports (environment)
  menu,    \* asks handed to the menu and not yet taken by GSX
  hist     \* history, see below

flightVars == <<data, craft, parked, gsx, menu, hist>>
vars == <<machineVars, flightVars>>

FlightPhases == WaitingReadyToPush .. WaitingNewFlight
\* Bound: at the arrival stand nothing takes off (nor would it matter).
AirPhases == WaitingReadyToPush .. OnFlight
PushPhases == {RequestPushback, WaitingPushbackToStart, WaitingForEngines,
               WaitingDeparture}
\* The phases that read parked.
ParkedPhases == PushPhases \cup
  {WaitingEngineShutdown, PlaceArrivalGroundEquipment, RequestDeboarding}
Services == 1 .. NumServices
Powers == {"Off", "Requested", "Active"}
Pushes == {"Callable", "Requested", "Active", "Started", "Asks", "Finished"}
Deboards == {"Callable", "Requested", "Active", "Moving", "Completed"}

FreshData ==
  [ticks |-> 0, intervals |-> 0, chocksOut |-> FALSE,
   dismissed |-> FALSE, pushAsked |-> FALSE,
   pushPending |-> FALSE, pushLost |-> FALSE, interrupted |-> FALSE,
   resumed |-> FALSE, sent |-> FALSE, chocksIn |-> FALSE,
   gpuAsked |-> FALSE, gpuTicks |-> 0, equipTicks |-> 0,
   deboardAsked |-> FALSE, baselined |-> FALSE,
   asked |-> {}, requested |-> {}, seen |-> {}]

IdleGsx == [push |-> "Callable", offers |-> TRUE, confirms |-> TRUE,
            deice |-> FALSE, gpu |-> "Off", deboard |-> "Callable",
            down |-> FALSE, lives |-> 0]

(***************************************************************************)
(* History: how often this turnaround asked for the power at arrival and   *)
(* for each cabin service, whether a restart of GSX took a pushback it had *)
(* pending, and how often the flow went back to the engine wait.           *)
(***************************************************************************)
NoHistory == [power |-> 0, asks |-> [s \in Services |-> 0], dropped |-> FALSE,
              resumes |-> 0]

Counted(ticks) == IF ticks = TickBound THEN 1 ELSE ticks + 1
TickCondition(ticks) == data.ticks # 0 /\ data.ticks % ticks = 0

StayWith(d) == Stay /\ data' = [d EXCEPT !.ticks = Counted(data.ticks)]
\* In the phases that do not read the count of the ticks.
StayUncounted(d) == Stay /\ data' = d

\* TransitionTo keeps the data of the turnaround; what no later phase reads
\* is dropped with the last phase that does.
Kept(next, d) ==
  CASE next \in {RequestPushback, WaitingPushbackToStart} ->
         [FreshData EXCEPT !.pushLost = d.pushLost, !.pushPending = d.pushPending]
    [] next \in {WaitingForEngines, WaitingDeparture} ->
         [FreshData EXCEPT !.resumed = d.resumed]
    [] next \in {WaitCatering, RemoveGroundEquipment} -> [d EXCEPT !.ticks = 0]
    [] OTHER -> FreshData

GoWith(next, d) == Go(next) /\ data' = Kept(next, d)

\* An ask that the later phases have no use for is taken to be missed.
Ask(what) ==
  menu' = what \cup IF phase' = phase \/ phase' \in PushPhases THEN menu ELSE {}
KeepHistory ==
  hist' = IF phase' = phase \/ phase' \in PushPhases THEN hist ELSE NoHistory
NothingElse == Ask({}) /\ KeepHistory

Powers3 == {"Unknown", "Connected", "Disconnected"}
\* GetGroundPowerStatus of the aircraft, or GetGpuStatus of GSX.
PowerReadings ==
  IF craft.kind = "Own" THEN Powers3
  ELSE {"Unknown", IF gsx.gpu = "Active" THEN "Connected" ELSE "Disconnected"}
GpuBusy == gsx.gpu # "Off"

-----------------------------------------------------------------------------
(***************************************************************************)
(* WaitingReadyToPush: with a door open only the pilot unlocks it.         *)
(***************************************************************************)
ReadyToPushTick(ready, doorsOpen, smartSwitch) ==
  /\ \/ (~ready \/ (doorsOpen /\ ~PilotTouched(smartSwitch))) /\ StayUncounted(data)
     \/ /\ ready /\ ~doorsOpen
        /\ GoWith(WaitCatering, data)
     \/ /\ ready /\ doorsOpen /\ PilotTouched(smartSwitch)
        /\ GoAs(WaitCatering, "Pilot")
        /\ data' = Kept(WaitCatering, data)
  /\ NothingElse

WaitCateringTick(inProgress) ==
  LET due == TickCondition(WaitTicks)
  IN  /\ \/ /\ \/ ~craft.catering \/ ~inProgress
               \/ due /\ data.intervals + 1 >= MaxCateringIntervals
            /\ GoWith(RemoveGroundEquipment, data)
         \/ /\ craft.catering /\ inProgress
            /\ ~(due /\ data.intervals + 1 >= MaxCateringIntervals)
            /\ StayWith([data EXCEPT !.intervals = IF due THEN @ + 1 ELSE @])
      /\ NothingElse

(***************************************************************************)
(* RemoveGroundEquipment, with the settings' wish to manage the equipment. *)
(***************************************************************************)
ManagesGpu == "gpu" \in craft.wish \/ craft.gpuOurs
WaitsForTheBrake(brake) == "chocks" \in craft.wish /\ ~data.chocksOut /\ ~brake

RemoveEquipmentTick(own, brake, power) ==
  LET d == [data EXCEPT !.chocksOut = @ \/ "chocks" \in craft.wish]
      unneeded == ~ManagesGpu /\ ~data.dismissed
      gone == power # "Connected" /\ ~GpuBusy
      ours == GpuBusy \/ craft.gpuOurs
  IN  /\ \/ (own \/ WaitsForTheBrake(brake)) /\ StayWith(data) /\ Ask({})
         \/ /\ ~own /\ ~WaitsForTheBrake(brake)
            /\ \/ /\ ~unneeded /\ power = "Unknown"
                  /\ IF data.ticks >= RetryTicks
                     THEN GoWith(RequestPushback, d) ELSE StayWith(d)
                  /\ Ask({})
               \/ /\ unneeded \/ (power # "Unknown" /\ gone)
                  /\ GoWith(RequestPushback, d) /\ Ask({})
               \/ /\ ~unneeded /\ power # "Unknown" /\ ~gone /\ ~data.dismissed
                  /\ IF craft.kind = "Own" \/ ours
                     THEN StayWith([d EXCEPT !.dismissed = TRUE])
                     ELSE GoWith(RequestPushback, d)
                  /\ IF craft.kind = "Gsx" /\ ours
                     THEN Ask({"ToggleGpu"}) ELSE Ask({})
               \/ /\ ~unneeded /\ power # "Unknown" /\ ~gone /\ data.dismissed
                  /\ IF TickCondition(RetryTicks)
                        /\ (craft.kind = "Own" \/ ~GpuBusy)
                     THEN GoWith(RequestPushback, d) ELSE StayWith(d)
                  /\ Ask({})
      /\ KeepHistory

(***************************************************************************)
(* RequestPushback.                                                        *)
(***************************************************************************)
PushPending == gsx.push \in {"Requested", "Active"}

KeepThePushAsk == FALSE
ForgetThePushAsk ==
  gsx.push = "Callable" /\ TickCondition(RetryTicks)

PushbackTick ==
  /\ \/ /\ gsx.deice
        /\ StayWith(data) /\ Ask({})
     \/ /\ ~gsx.deice /\ ~gsx.offers
        /\ GoWith(WaitingDeparture, [data EXCEPT !.pushAsked = TRUE])
        /\ Ask(IF data.pushAsked THEN {} ELSE {"Clearance"})
     \/ /\ ~gsx.deice /\ gsx.offers /\ gsx.push # "Callable"
        /\ GoWith(WaitingPushbackToStart, data) /\ Ask({})
     \/ /\ ~gsx.deice /\ gsx.offers /\ gsx.push = "Callable"
        /\ StayWith([data EXCEPT !.pushAsked = ~ForgetThePushAsk])
        /\ Ask(IF data.pushAsked THEN {} ELSE {"Pushback"})
  /\ KeepHistory

(***************************************************************************)
(* The tow, the engines and the departure.  HasLeftTheStand: airborne, or  *)
(* taxiing under its own power and not under tow.                          *)
(***************************************************************************)
HasPushbackStarted == gsx.push \in {"Started", "Asks", "Finished"}
IsUnderTow == gsx.push \in {"Started", "Asks"}
HasLeftTheStand(taxiing) == ~onGround \/ (~IsUnderTow /\ ~parked /\ taxiing)

\* NoteDroppedPushback, which shows the pushback as interrupted.
NotedPushback ==
  LET lost == \/ data.pushPending /\ gsx.down
              \/ data.pushLost /\ ~(PushPending /\ ~data.pushPending)
  IN  [data EXCEPT !.pushPending = PushPending, !.pushLost = lost,
                   !.interrupted = lost /\ ~PushPending]

PushbackToStartTick(taxiing) ==
  /\ \/ /\ \/ gsx.push = "Finished"
           \/ ~HasPushbackStarted /\ HasLeftTheStand(taxiing)
        /\ GoWith(WaitingDeparture, data)
     \/ IsUnderTow /\ GoWith(WaitingForEngines, data)
     \/ /\ ~HasPushbackStarted /\ ~HasLeftTheStand(taxiing)
        /\ StayUncounted(NotedPushback)
  /\ hist' = [hist EXCEPT !.dropped = /\ @ /\ phase' = phase
                                      /\ ~(PushPending /\ ~data.pushPending)]
  /\ Ask({})

LeavesTheEngineWait(taxiing) ==
  ~gsx.confirms \/ gsx.push = "Finished" \/ HasLeftTheStand(taxiing)

IsBlocked(brake) ==
  /\ ~data.sent
  /\ parked \/ (~craft.viaMenu /\ (gsx.push # "Asks" \/ ~brake))

EnginesTick(taxiing, brake, smartSwitch) ==
  /\ \/ /\ LeavesTheEngineWait(taxiing)
        /\ GoWith(WaitingDeparture, data) /\ Ask({})
     \/ /\ ~LeavesTheEngineWait(taxiing)
        /\ IsBlocked(brake) \/ ~PilotTouched(smartSwitch)
        /\ StayUncounted(data) /\ Ask({})
     \/ /\ ~LeavesTheEngineWait(taxiing)
        /\ ~IsBlocked(brake) /\ PilotTouched(smartSwitch)
        /\ StayUncounted([data EXCEPT !.sent = TRUE])
        /\ Ask(IF craft.viaMenu THEN {"CompletePushback"} ELSE {"ConfirmEngines"})
  /\ KeepHistory

GsxAsksAgain(taxiing) ==
  gsx.confirms /\ gsx.push = "Asks" /\ ~HasLeftTheStand(taxiing)
GsxStillAsks(taxiing) ==
  /\ ~data.resumed
  /\ gsx.confirms /\ gsx.push = "Asks" /\ ~HasLeftTheStand(taxiing)

TakesOffAtOnce == GoAs(OnFlight, "Reading")
TakesOff == GoAfter(OnFlight, OnFlightDelayTicks)

DepartureTick(taxiing) ==
  /\ \/ /\ ~onGround
        /\ TakesOff
        /\ UNCHANGED data /\ KeepHistory
     \/ /\ onGround /\ GsxStillAsks(taxiing)
        /\ GoWith(WaitingForEngines, [data EXCEPT !.resumed = TRUE, !.sent = FALSE])
        /\ hist' = [hist EXCEPT !.resumes = IF @ < 2 THEN @ + 1 ELSE @]
     \/ /\ onGround /\ ~GsxStillAsks(taxiing)
        /\ StayUncounted(data) /\ KeepHistory
  /\ Ask({})

-----------------------------------------------------------------------------
OnFlightTick ==
  /\ IF onGround THEN GoWith(WaitingEngineShutdown, data) ELSE StayUncounted(FreshData)
  /\ NothingElse

EngineShutdownTick(enginesOff) ==
  /\ IF enginesOff THEN GoWith(PlaceArrivalGroundEquipment, data) ELSE StayUncounted(data)
  /\ NothingElse

(***************************************************************************)
(* PlaceArrivalGroundEquipment.  The chocks may be reported as placed, or  *)
(* are taken to be once they have been commanded.                          *)
(***************************************************************************)
EquipmentWait == data.equipTicks + 1
GivesUpOneTickLater == EquipmentWait > EquipmentGiveUpTicks
GivesUpOnTheEquipment == EquipmentWait >= EquipmentGiveUpTicks

AsksForTheArrivalPower(power) == ~data.gpuAsked /\ power # "Unknown"

PlaceEquipmentTick(power, chocksPlaced) ==
  LET callGpu == "gpu" \in craft.wish
      chocks == "chocks" \in craft.wish => chocksPlaced
      powered == callGpu => power = "Connected"
      counted == [data EXCEPT !.equipTicks = EquipmentWait, !.chocksIn = "chocks" \in craft.wish]
      asked == [counted EXCEPT !.gpuAsked = TRUE]
      asks == AsksForTheArrivalPower(power)
      blind == ~data.gpuAsked /\ power = "Unknown"
      done == craft.kind = "Own" \/ GpuBusy \/ data.gpuTicks >= ConfirmationGiveUpTicks
  IN  \/ /\ \/ craft.wish = {}
            \/ parked /\ ((powered /\ chocks) \/ GivesUpOnTheEquipment)
         /\ GoWith(RequestDeboarding, data) /\ NothingElse
      \/ /\ craft.wish # {} /\ ~parked
         /\ StayWith(data) /\ NothingElse
      \/ /\ parked /\ craft.wish # {} /\ ~GivesUpOnTheEquipment
         /\ ~(powered /\ chocks) /\ (powered \/ blind)
         /\ StayWith(counted) /\ NothingElse
      \/ /\ parked /\ ~GivesUpOnTheEquipment /\ ~powered /\ ~blind
         /\ IF ~chocks THEN StayWith(asked)
            ELSE IF done THEN GoWith(RequestDeboarding, asked)
            ELSE StayWith([asked EXCEPT !.gpuTicks = @ + 1])
         /\ Ask(IF asks /\ craft.kind = "Gsx" /\ ~GpuBusy THEN {"ToggleGpu"} ELSE {})
         /\ hist' = IF phase' # phase THEN NoHistory
                    ELSE [hist EXCEPT !.power = IF asks /\ @ < 2 THEN @ + 1 ELSE @]

ForgetTheDeboardingAsk ==
  gsx.deboard = "Callable" /\ TickCondition(RetryTicks)

RequestDeboardingTick(ready) ==
  LET asks == ready /\ gsx.deboard = "Callable" /\ ~data.deboardAsked
  IN  /\ \/ /\ gsx.deboard \in {"Moving", "Completed"}
            /\ GoWith(Deboarding, data) /\ Ask({})
         \/ /\ gsx.deboard \in {"Callable", "Requested", "Active"}
            /\ StayWith([data EXCEPT !.deboardAsked =
                           (@ \/ asks) /\ ~ForgetTheDeboardingAsk])
            /\ Ask(IF asks THEN {"Deboarding"} ELSE {})
      /\ KeepHistory

DeboardingTick ==
  /\ IF gsx.deboard = "Completed" THEN GoWith(CabinServices, data)
     ELSE StayUncounted([data EXCEPT !.interrupted = gsx.deboard = "Callable" /\ data.baselined,
                                !.baselined = @ \/ gsx.deboard \in {"Active", "Moving"}])
  /\ NothingElse

(***************************************************************************)
(* CabinServices: one service after the other is asked for, once, and      *)
(* waited for; `working` are the ones GSX reports in progress.             *)
(***************************************************************************)
ToDispatch == Services \ data.requested
NextService == CHOOSE s \in ToDispatch : \A other \in ToDispatch : s <= other

Dispatched(working) ==
  LET s == NextService
  IN  IF s \in working
      THEN [data EXCEPT !.requested = @ \cup {s}, !.seen = @ \cup {s}]
      ELSE IF s \notin data.asked THEN [data EXCEPT !.asked = @ \cup {s}]
      ELSE IF TickCondition(WaitTicks) THEN [data EXCEPT !.requested = @ \cup {s}]
      ELSE data

AsksForTheService(working) ==
  NextService \notin working /\ NextService \notin data.asked

IntervalsSoFar(working) == data.intervals + 1
CabinWaitIsOver(working) ==
  \/ (data.seen \cup working) \cap working = {}
  \/ TickCondition(WaitTicks) /\ IntervalsSoFar(working) >= MaxCabinIntervals

CabinServicesTick(working) ==
  LET seen == data.seen \cup working
      due == TickCondition(WaitTicks)
      over == CabinWaitIsOver(working)
  IN  \/ /\ ToDispatch # {}
         /\ StayWith(Dispatched(working))
         /\ hist' = IF AsksForTheService(working) /\ hist.asks[NextService] < 2
                    THEN [hist EXCEPT !.asks[NextService] = @ + 1] ELSE hist
         /\ Ask({})
      \/ /\ ToDispatch = {} /\ over
         /\ GoAfter(WaitingNewFlight, ExitDelayTicks)
         /\ UNCHANGED data /\ NothingElse
      \/ /\ ToDispatch = {} /\ ~over
         /\ StayWith([data EXCEPT !.seen = seen,
                        !.intervals = IF due THEN IntervalsSoFar(working) ELSE @])
         /\ NothingElse

NewFlightTick(smartSwitch) ==
  /\ IF PilotTouched(smartSwitch)
     THEN GoWith(WaitingSupportedAircraft, data)
     ELSE StayUncounted(FreshData)
  /\ NothingElse

-----------------------------------------------------------------------------
(***************************************************************************)
(* What GSX has of a service when its phase is entered can be anything.    *)
(***************************************************************************)
Enters(p) == phase' = p /\ phase # p

GsxMeanwhile ==
  /\ gsx' \in [push : IF Enters(RequestPushback) THEN Pushes
                      ELSE IF phase' \in PushPhases THEN {gsx.push} ELSE {"Callable"},
               offers : IF Enters(RequestPushback) THEN BOOLEAN ELSE {gsx.offers},
               confirms : IF Enters(RequestPushback) THEN BOOLEAN ELSE {gsx.confirms},
               deice : {gsx.deice /\ phase' = phase},
               gpu : IF Enters(RemoveGroundEquipment)
                        \/ Enters(PlaceArrivalGroundEquipment)
                     THEN Powers ELSE IF phase' = phase THEN {gsx.gpu} ELSE {"Off"},
               deboard : IF Enters(RequestDeboarding) THEN Deboards
                         ELSE IF phase' = Deboarding \/ phase' = phase
                         THEN {gsx.deboard} ELSE {"Callable"},
               down : {FALSE}, lives : {gsx.lives}]

PhaseBody(p) ==
  \/ /\ p = WaitingReadyToPush
     /\ \E ready, open, switch \in BOOLEAN : ReadyToPushTick(ready, open, switch)
  \/ p = WaitCatering /\ \E inProgress \in BOOLEAN : WaitCateringTick(inProgress)
  \/ /\ p = RemoveGroundEquipment
     /\ \E own, brake \in BOOLEAN, power \in PowerReadings :
          RemoveEquipmentTick(own, brake, power)
  \/ p = RequestPushback /\ PushbackTick
  \/ p = WaitingPushbackToStart /\ \E taxiing \in BOOLEAN : PushbackToStartTick(taxiing)
  \/ /\ p = WaitingForEngines
     /\ \E taxiing, brake, switch \in BOOLEAN : EnginesTick(taxiing, brake, switch)
  \/ p = WaitingDeparture /\ \E taxiing \in BOOLEAN : DepartureTick(taxiing)
  \/ p = OnFlight /\ OnFlightTick
  \/ /\ p = WaitingEngineShutdown
     /\ \E enginesOff \in BOOLEAN : EngineShutdownTick(parked \/ enginesOff)
  \/ /\ p = PlaceArrivalGroundEquipment
     /\ \E power \in PowerReadings, chocks \in BOOLEAN : PlaceEquipmentTick(power, chocks)
  \/ p = RequestDeboarding /\ RequestDeboardingTick(parked)
  \/ p = Deboarding /\ DeboardingTick
  \/ p = CabinServices /\ \E working \in SUBSET Services : CabinServicesTick(working)
  \/ p = WaitingNewFlight /\ \E switch \in BOOLEAN : NewFlightTick(switch)

FlightTick(p) ==
  /\ PhaseTick(p)
  /\ PhaseBody(p)
  /\ GsxMeanwhile
  /\ parked' \in IF phase' \in ParkedPhases THEN {parked} ELSE {TRUE}
  /\ UNCHANGED craft

\* The ticks of the engine and of the earlier phases.
EngineTick ==
  /\ \/ DelayTick /\ UNCHANGED data
     \/ AirborneTick /\ data' = IF phase' = phase
                                THEN [data EXCEPT !.ticks = Counted(@)] ELSE FreshData
     \/ (\E p \in Phases \ FlightPhases : OpenTick(p)) /\ data' = FreshData
  /\ GsxMeanwhile
  /\ hist' = IF phase' \in FlightPhases THEN hist ELSE NoHistory
  /\ parked' \in IF phase' \in ParkedPhases THEN {parked} ELSE {TRUE}
  /\ UNCHANGED <<menu, craft>>

(***************************************************************************)
(* A relaunch from the checkpoint of the last tick: the counts start over, *)
(* and a pushback that was pending when GSX restarted meanwhile is marked  *)
(* (MarkThePushbackLostToTheRestart).                                      *)
(***************************************************************************)
RestoredWithoutTheMark(gsxRestarted) ==
  [data EXCEPT !.ticks = 0, !.gpuTicks = 0, !.equipTicks = 0, !.interrupted = FALSE]

Restored(gsxRestarted) ==
  [data EXCEPT !.ticks = 0, !.gpuTicks = 0, !.equipTicks = 0,
               !.interrupted = FALSE,
               !.pushLost = @ \/ (data.pushPending /\ gsxRestarted)]

Relaunch ==
  /\ phase \in RestartPhases
  /\ ResumeFrom(phase)
  /\ data' = Restored(gsx.down)
  /\ gsx' = [gsx EXCEPT !.down = FALSE]
  /\ menu' = {}
  /\ UNCHANGED <<craft, parked, hist>>

RestartFlow ==
  /\ phase \in RestartPhases
  /\ Reset
  /\ data' = FreshData /\ hist' = NoHistory /\ menu' = {}
  /\ gsx' = [IdleGsx EXCEPT !.lives = gsx.lives]
  /\ parked' = TRUE
  /\ UNCHANGED craft

-----------------------------------------------------------------------------
(***************************************************************************)
(* The environment.                                                        *)
(***************************************************************************)
Gsx(g) == gsx' = g /\ UNCHANGED <<machineVars, data, craft, parked, hist>>

Heard(ask) ==
  CASE ask = "Pushback" /\ gsx.push = "Callable" -> [gsx EXCEPT !.push = "Requested"]
    [] ask = "CompletePushback" /\ IsUnderTow -> [gsx EXCEPT !.push = "Finished"]
    [] ask = "ConfirmEngines" /\ gsx.push = "Asks" -> [gsx EXCEPT !.push = "Finished"]
    [] ask = "ToggleGpu" /\ phase \in {RemoveGroundEquipment, PlaceArrivalGroundEquipment} ->
         [gsx EXCEPT !.gpu = IF @ = "Off" THEN "Requested" ELSE "Off"]
    [] ask = "Deboarding" /\ gsx.deboard = "Callable" ->
         [gsx EXCEPT !.deboard = "Requested"]
    [] OTHER -> gsx

Asks == {"ToggleGpu", "Pushback", "Clearance", "ConfirmEngines",
         "CompletePushback", "Deboarding"}

GsxHears(ask) == ask \in menu /\ Gsx(Heard(ask)) /\ menu' = menu \ {ask}
GsxMisses(ask) == ask \in menu /\ Gsx(gsx) /\ menu' = menu \ {ask}

GsxPushes ==
  /\ phase \in PushPhases
  /\ \E next \in CASE gsx.push = "Requested" -> {"Active"}
                  [] gsx.push = "Active" -> {"Started"}
                  [] gsx.push = "Started" ->
                       IF gsx.confirms THEN {"Asks"} ELSE {"Finished"}
                  [] OTHER -> {} :
       Gsx([gsx EXCEPT !.push = next])
  /\ UNCHANGED menu

\* The pilot answers GSX, or GSX stops asking on its own.
EnginesConfirmedElsewhere ==
  /\ phase \in PushPhases /\ gsx.push = "Asks"
  /\ Gsx([gsx EXCEPT !.push = "Finished"])
  /\ UNCHANGED menu

GsxDeboards ==
  /\ phase \in {RequestDeboarding, Deboarding}
  /\ \E next \in CASE gsx.deboard = "Requested" -> {"Active"}
                  [] gsx.deboard = "Active" -> {"Moving"}
                  [] gsx.deboard = "Moving" -> {"Completed"}
                  [] OTHER -> {} :
       Gsx([gsx EXCEPT !.deboard = next])
  /\ UNCHANGED menu

GsxMovesTheGpu ==
  /\ phase \in {RemoveGroundEquipment, PlaceArrivalGroundEquipment}
  /\ \E next \in Powers : next # gsx.gpu /\ Gsx([gsx EXCEPT !.gpu = next])
  /\ UNCHANGED menu

DeiceStartsOrEnds ==
  /\ phase = RequestPushback
  /\ Gsx([gsx EXCEPT !.deice = ~@]) /\ UNCHANGED menu

GsxRestarts ==
  /\ phase \in FlightPhases /\ gsx.lives < MaxGsxRestarts
  /\ gsx' = [gsx EXCEPT !.push = "Callable", !.gpu = "Off", !.down = TRUE,
                        !.deboard = "Callable", !.deice = FALSE, !.lives = @ + 1]
  /\ hist' = [hist EXCEPT !.dropped =
                @ \/ (phase = WaitingPushbackToStart /\ data.pushPending)]
  /\ menu' = {}
  /\ UNCHANGED <<machineVars, data, craft, parked>>

ParkOrStart ==
  /\ phase \in ParkedPhases
  /\ parked' = ~parked
  /\ UNCHANGED <<machineVars, data, craft, gsx, menu, hist>>

Environment ==
  \/ \E ask \in Asks : GsxHears(ask) \/ GsxMisses(ask)
  \/ GsxPushes \/ EnginesConfirmedElsewhere \/ GsxDeboards \/ GsxMovesTheGpu
  \/ DeiceStartsOrEnds \/ GsxRestarts \/ ParkOrStart

Init ==
  /\ MachineInit
  /\ data = FreshData
  /\ craft \in Crafts
  /\ parked = TRUE
  /\ gsx = IdleGsx
  /\ menu = {}
  /\ hist = NoHistory

Next ==
  \/ EngineTick
  \/ \E p \in FlightPhases : FlightTick(p)
  \/ Relaunch
  \/ RestartFlow
  \/ Environment
  \/ (\E p \in Phases : AcceptPilotTouch(p)) /\ UNCHANGED flightVars
  \/ phase \in AirPhases /\ TakeOffOrLand /\ UNCHANGED flightVars

Spec == Init /\ [][Next]_vars

(***************************************************************************)
(* The tick is the simulator's timer.  GSX hears what it is asked again    *)
(* and again, and goes on with a pushback and a deboarding it has begun.   *)
(***************************************************************************)
Fairness ==
  /\ WF_vars(EngineTick \/ \E p \in FlightPhases : FlightTick(p))
  /\ \A ask \in Asks : SF_vars(GsxHears(ask))
  /\ WF_vars(GsxPushes)
  /\ WF_vars(GsxDeboards)

FairSpec == Spec /\ Fairness
-----------------------------------------------------------------------------
\* The types of the fields of these phases.
TypeOK ==
  /\ MachineTypeOK
  /\ data \in [ticks : 0 .. TickBound, intervals : Nat, chocksOut : BOOLEAN,
               dismissed : BOOLEAN, pushAsked : BOOLEAN, pushPending : BOOLEAN,
               pushLost : BOOLEAN, interrupted : BOOLEAN, resumed : BOOLEAN,
               sent : BOOLEAN, chocksIn : BOOLEAN, gpuAsked : BOOLEAN,
               gpuTicks : 0 .. ConfirmationGiveUpTicks,
               equipTicks : 0 .. EquipmentGiveUpTicks - 1, deboardAsked : BOOLEAN,
               baselined : BOOLEAN,
               asked : SUBSET Services, requested : SUBSET Services,
               seen : SUBSET Services]
  /\ craft \in Crafts
  /\ parked \in BOOLEAN
  /\ menu \subseteq Asks

(***************************************************************************)
(* At the new stand GSX is asked for the ground power at most once, and    *)
(* for each cabin service at most once, in one arrival: the ask for the    *)
(* power is a toggle, and a second one would send it away again.  A        *)
(* relaunch does not ask again (arrivalGpuRequested, asked are saved).     *)
(***************************************************************************)
ArrivalAsksOnce == hist.power <= 1 /\ \A s \in Services : hist.asks[s] <= 1

(***************************************************************************)
(* The machine goes back from WaitingDeparture to the engine wait once at  *)
(* most: GSX that goes on asking does not bounce the flow between the two  *)
(* phases, also not over a relaunch (engineWaitResumed).                   *)
(***************************************************************************)
EngineWaitResumesOnce == hist.resumes <= 1

(***************************************************************************)
(* A pushback is shown as interrupted only when a restart of GSX took it   *)
(* (NoteDroppedPushback), never because GSX is merely late with it.        *)
(***************************************************************************)
InterruptedOnlyByARestart ==
  phase = WaitingPushbackToStart /\ data.interrupted => hist.dropped

(***************************************************************************)
(* A pushback that a restart of GSX took is shown as interrupted, until it *)
(* is under way again or the phase is left, also when the client itself    *)
(* was relaunched meanwhile.                                               *)
(***************************************************************************)
DroppedPushbackIsShown ==
  /\ phase = WaitingPushbackToStart /\ hist.dropped
  ~> \/ phase # WaitingPushbackToStart
     \/ data.interrupted \/ ~hist.dropped \/ gsx.push # "Callable"

(***************************************************************************)
(* An aircraft that stays airborne does not leave the machine in one of    *)
(* the phases before the flight, with a tow under way, the engines not     *)
(* confirmed or the equipment still waited for.                            *)
(***************************************************************************)
AirborneEndsTheDeparture ==
  <>[](~onGround) => []<>(phase \notin WaitingReadyToPush .. WaitingDeparture)

(***************************************************************************)
(* Pushback and deboarding are asked for until GSX takes them: although    *)
(* GSX misses asks and restarts, and the client is relaunched, a parked    *)
(* aircraft that is not de-iced gets beyond both requests.                 *)
(***************************************************************************)
RequestsGetThrough ==
  <>[](parked /\ onGround /\ ~gsx.deice)
    => []<>(phase \notin {RequestPushback, RequestDeboarding})

(***************************************************************************)
(* The equipment of the arrival is not waited for without end: whatever    *)
(* GSX and the aircraft report of the power and the chocks, a parked       *)
(* aircraft goes on to the deboarding.                                     *)
(***************************************************************************)
ArrivalGoesOn == <>[]parked => []<>(phase # PlaceArrivalGroundEquipment)

\* Nor are the cabin services, whatever GSX reports of them.
CabinServicesEnd == []<>(phase # CabinServices)

(***************************************************************************)
(* What is said is said once and is true: GSX is not asked again for what  *)
(* the arrival has asked for, the flow does not go back to the engines     *)
(* twice, and the pilot is told of an interruption only when there was one.*)
(***************************************************************************)
SaidOnceAndTruly ==
  /\ ArrivalAsksOnce
  /\ EngineWaitResumesOnce
  /\ InterruptedOnlyByARestart

(***************************************************************************)
(* No phase up to the next turnaround waits for GSX for ever.              *)
(***************************************************************************)
PhasesGoOn ==
  /\ AirborneEndsTheDeparture
  /\ RequestsGetThrough
  /\ ArrivalGoesOn
  /\ CabinServicesEnd
=============================================================================
