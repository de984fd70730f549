---------------------------- MODULE LoadingPhase ----------------------------
(***************************************************************************)
(* The two phases that load the aircraft (RequestFuelState, LoadingState   *)
(* with RefuelingTrack and BoardingTrack), against a GSX that takes a      *)
(* request or loses it, drops a service it had started, leaves a hose      *)
(* connected or a cargo flag set, and ends some services only when the     *)
(* client asks it to; and over a relaunch of the client, which finds the   *)
(* saved fields of TurnaroundData and rebuilds the others.                 *)
(*                                                                         *)
(* Fuel is counted in units larger than every tolerance of the code, so    *)
(* that "within the tolerance" is "equal".                                 *)
(***************************************************************************)
EXTENDS Integers

CONSTANTS
  Crafts,               \* the aircraft: RefuelBy, GetFuelCapacityKg, tanks
  Planned,              \* plannedFuelKg
  BoardingFuelPercent,  \* the fuel progress that calls the boarding
  ShortRefuel,          \* what flows within kShortRefuelSeconds
  RetryTicks,           \* kRetryTicks, kBoardingRetryTicks
  RefuelStallTicks,     \* kRefuelStallTicks
  BoardingStallTicks,   \* kBoardingStallTicks, before the first completion
  CompletionRetryTicks, \* kBoardingRetryTicks, before the following ones
  GiveUpTicks,          \* kLoaderDoorGiveUpTicks, kCargoFlagGiveUpTicks
  HoldGiveUpTicks,      \* kLoaderAtHoldGiveUpTicks
  CargoReadings,        \* the sets of Loaders that GSX reports together
  MaxFaults             \* bound on lost asks, drops, disconnections, relaunches

ASSUME LoadingConstants ==
  /\ Crafts \subseteq [method : {"Gsx", "Self", "Client"},
                       capacity : Nat \ {0}, tank : Nat]
  /\ \A c \in Crafts : c.tank <= c.capacity
  /\ Planned \in Nat \ {0}
  /\ BoardingFuelPercent \in 1 .. 99 /\ ShortRefuel \in Nat
  /\ {RetryTicks, RefuelStallTicks, BoardingStallTicks, CompletionRetryTicks,
      GiveUpTicks, HoldGiveUpTicks} \subseteq Nat \ {0}
  /\ CompletionRetryTicks <= BoardingStallTicks
  /\ {} \in CargoReadings /\ CargoReadings \subseteq SUBSET {"flag", "hold", "door"}
  /\ MaxFaults \in Nat

VARIABLES
  flow,    \* phase, stateTickCount modulo the retry, loadingConfirmed, ...
  fuel,    \* the fields of TurnaroundData the refueling track keeps
  board,   \* the fields the boarding track keeps
  craft,   \* the aircraft: its method, capacity and tanks
  gsx,     \* what GSX reports (environment)
  menu,    \* asks handed to the menu and not yet taken by GSX
  faults   \* history: faults so far

vars == <<flow, fuel, board, craft, gsx, menu, faults>>

Asks == {"Refuel", "Boarding", "CompleteRefuel", "CompleteBoarding"}

Init ==
  /\ flow \in [phase : {"RequestFuel"}, beat : {0}, confirmed : BOOLEAN,
               asked : {FALSE}, notTaken : {0}, touched : {FALSE}]
  /\ fuel = [baselined |-> FALSE, started |-> FALSE, initial |-> 0,
             loaded |-> 0, progress |-> 0, topUp |-> FALSE, sample |-> 0,
             stall |-> 0, finished |-> FALSE]
  /\ board = [asked |-> FALSE, baselined |-> FALSE, awaits |-> FALSE,
              awaitTicks |-> 0, flagTicks |-> 0, holdTicks |-> 0,
              stall |-> 0, attempted |-> FALSE, finished |-> FALSE]
  /\ craft \in Crafts
  /\ gsx = [refuel |-> "Callable", hose |-> FALSE, pumped |-> 0, need |-> 0,
            boarding |-> "Callable", bar |-> "none", cargo |-> {},
            api |-> TRUE]
  /\ menu = {}
  /\ faults = 0

(***************************************************************************)
(* RequestFuelState.                                                       *)
(***************************************************************************)
BeatWithoutAWrap == flow.beat + 1
NextBeat == IF flow.beat = RetryTicks THEN 1 ELSE flow.beat + 1
\* TickCondition: the count of ticks before this one is a multiple of it.
TickCondition == flow.beat = RetryTicks
\* autoStartLoading stands for a confirmation from the beginning.
LoadingAllowed == flow.confirmed \/ flow.touched

RefuelDone == gsx.refuel = "Completed"

\* TrackStalledRequest: only a notice, counted up to the bound that shows it.
NotTaken(asked) ==
  IF ~asked \/ gsx.refuel = "Callable" THEN 0
  ELSE IF flow.notTaken < GiveUpTicks THEN flow.notTaken + 1 ELSE GiveUpTicks

Leave(phase) ==
  flow' = [flow EXCEPT !.phase = phase, !.beat = 0, !.touched = FALSE,
                       !.confirmed = LoadingAllowed]

AsksForFuel ==
  LoadingAllowed /\ gsx.refuel = "Callable" /\ ~flow.asked

KeepTheAsk == FALSE
ForgetTheAsk == gsx.refuel = "Callable" /\ TickCondition

RequestFuelTick ==
  /\ flow.phase = "RequestFuel"
  /\ \/ RefuelDone /\ Leave("Loading") /\ UNCHANGED menu
     \/ /\ ~RefuelDone
        /\ menu' = IF AsksForFuel THEN menu \cup {"Refuel"} ELSE menu
        /\ IF gsx.hose /\ gsx.refuel = "Active"
           THEN Leave("Loading")
           ELSE LET asked == flow.asked \/ AsksForFuel
                    still == asked /\ ~ForgetTheAsk
                IN  flow' = [flow EXCEPT !.beat = NextBeat, !.touched = FALSE,
                                         !.confirmed = LoadingAllowed,
                                         !.asked = still,
                                         !.notTaken = NotTaken(still)]
  /\ UNCHANGED <<fuel, board, craft, gsx, faults>>

(***************************************************************************)
(* RefuelingTrack::Advance, in the order of its steps.                     *)
(***************************************************************************)
IsGsxRefuelReady ==
  gsx.api /\ (gsx.hose \/ gsx.refuel = "Active" \/ RefuelDone)

\* ApplyPumpedFuel and RefuelProgressively: by so much towards the target.
Towards(from, to, by) ==
  IF from <= to THEN IF from + by < to THEN from + by ELSE to
  ELSE IF from - by > to THEN from - by ELSE to

\* RebuildInitialFuel, for a refuel the client did not ask for.
RebuiltInitialFuel ==
  IF Planned >= craft.tank
  THEN IF craft.tank > gsx.pumped THEN craft.tank - gsx.pumped ELSE 0
  ELSE craft.tank + gsx.pumped

\* EnsureBaseline and NotifyLoadingStarted.
Baselined ==
  IF fuel.baselined THEN [fuel EXCEPT !.started = TRUE]
  ELSE [fuel EXCEPT !.baselined = TRUE, !.started = TRUE,
                    !.loaded = craft.tank,
                    !.initial = IF ~flow.asked /\ craft.method # "Client"
                                THEN RebuiltInitialFuel ELSE craft.tank]

Accumulated(f) ==
  CASE craft.method = "Gsx" -> craft.tank
    [] craft.method = "Self" ->
         IF gsx.pumped > 0 THEN Towards(f.initial, Planned, gsx.pumped)
         ELSE f.loaded
    [] craft.method = "Client" -> Towards(f.loaded, Planned, 1)

Distance(a, b) == IF a < b THEN b - a ELSE a - b

ProgressPercent(initial, loaded) ==
  IF initial = Planned THEN IF loaded = Planned THEN 100 ELSE 0
  ELSE IF Distance(loaded, Planned) > Distance(initial, Planned) THEN 0
  ELSE 100 - (100 * Distance(loaded, Planned)) \div Distance(initial, Planned)

Loads(f) == f.progress < 100 /\ ~f.topUp

Progressed(f) ==
  LET loaded == IF Loads(f) THEN Accumulated(f) ELSE f.loaded
  IN  [f EXCEPT !.loaded = loaded,
                !.progress = ProgressPercent(f.initial, loaded)]

\* MaybeForceCompletion: a full bar that nothing has moved for a while.
WatchesForAStall(f) == f.progress > 95 /\ ~RefuelDone /\ gsx.hose
IsForced(f) ==
  WatchesForAStall(f) /\ f.loaded = f.sample /\ f.stall + 1 >= RefuelStallTicks
Watched(f) ==
  IF ~WatchesForAStall(f) THEN f
  ELSE IF f.loaded # f.sample THEN [f EXCEPT !.sample = f.loaded, !.stall = 0]
  ELSE [f EXCEPT !.stall = IF IsForced(f) THEN 0 ELSE f.stall + 1]

IsWeightDone(f) ==
  IF craft.method = "Client" THEN f.loaded = Planned ELSE RefuelDone

PlannedWithinCapacity ==
  IF Planned < craft.capacity THEN Planned ELSE craft.capacity

\* TopsUpAShortGsxRefuel, for an aircraft that supports it.
StartsFuelTopUp == craft.tank > 0 /\ craft.tank < PlannedWithinCapacity
ToppedUp(f) ==
  IF f.topUp THEN f ELSE [f EXCEPT !.topUp = TRUE, !.loaded = craft.tank]
TopsUp(f) ==
  /\ craft.method = "Gsx"
  /\ f.topUp \/ StartsFuelTopUp
  /\ ToppedUp(f).loaded # Planned

Settled(f) ==
  [f EXCEPT !.loaded = IF craft.method = "Gsx" THEN craft.tank ELSE Planned,
            !.progress = 100, !.finished = RefuelDone]

StepTowardsThePlan(f) ==
  LET loaded == Towards(ToppedUp(f).loaded, Planned, 1)
  IN  [ToppedUp(f) EXCEPT !.loaded = loaded,
                          !.progress = ProgressPercent(f.initial, loaded)]

\* SetCurrentFuelKg: the airframe stops at its capacity.
Written(kg) == IF kg < craft.capacity THEN kg ELSE craft.capacity

RefuelingTrack ==
  LET seen == Progressed(Baselined)
      watched == Watched(seen)
      written == craft.method = "Client" /\ Loads(Baselined)
  IN  IF fuel.finished \/ ~IsGsxRefuelReady
      THEN UNCHANGED <<fuel, craft>>
      ELSE IF ~IsWeightDone(seen) \/ gsx.hose
      THEN /\ fuel' = watched
           /\ craft' = IF written THEN [craft EXCEPT !.tank = Written(seen.loaded)]
                       ELSE craft
      ELSE IF TopsUp(watched)
      THEN /\ fuel' = StepTowardsThePlan(watched)
           /\ craft' = [craft EXCEPT !.tank = Written(fuel'.loaded)]
      ELSE /\ fuel' = Settled(watched)
           /\ craft' = IF craft.method = "Client"
                       THEN [craft EXCEPT !.tank = Written(Planned)] ELSE craft

ForcesTheRefuel ==
  ~fuel.finished /\ IsGsxRefuelReady /\ IsForced(Progressed(Baselined))

(***************************************************************************)
(* BoardingTrack::Advance.  The client's fields reach the checks with the  *)
(* counts of this tick.                                                    *)
(***************************************************************************)
BoardingDone == gsx.boarding = "Completed"

UpTo(bound, count) == IF count < bound THEN count + 1 ELSE bound

Counted ==
  LET counts == [board EXCEPT !.baselined = TRUE]
      door == "door" \in gsx.cargo
  IN  [counts EXCEPT
        !.awaits = door,
        !.awaitTicks = IF ~door THEN 0
                       ELSE UpTo(GiveUpTicks, IF board.awaits THEN @ ELSE 0),
        !.flagTicks = IF BoardingDone /\ "flag" \in gsx.cargo
                         /\ "hold" \notin gsx.cargo
                      THEN UpTo(GiveUpTicks, @) ELSE 0,
        !.holdTicks = IF BoardingDone /\ "hold" \in gsx.cargo
                      THEN UpTo(HoldGiveUpTicks, @) ELSE 0]

HasGivenUpOnTheLoader(b) == b.awaits /\ b.awaitTicks >= GiveUpTicks

PendingWithoutTheHold(b) ==
  \/ "flag" \in gsx.cargo /\ b.flagTicks < GiveUpTicks
  \/ b.awaits /\ ~HasGivenUpOnTheLoader(b)
IsCargoPending(b) ==
  \/ "flag" \in gsx.cargo /\ b.flagTicks < GiveUpTicks
  \/ "hold" \in gsx.cargo /\ b.holdTicks < HoldGiveUpTicks
  \/ b.awaits /\ ~HasGivenUpOnTheLoader(b)

\* IsBarFull, IsCargoHeldBehindTheStairs, or a loader nobody waits for.
SomethingToForce(b) ==
  /\ fuel'.finished
  /\ ~IsCargoPending(b)
  /\ gsx.bar \in {"full", "held"} \/ HasGivenUpOnTheLoader(b)

StallTicks(b) == IF b.attempted THEN CompletionRetryTicks ELSE BoardingStallTicks

CompletesBoarding(b) == SomethingToForce(b) /\ b.stall + 1 >= StallTicks(b)

ForcedOnce(b) ==
  IF ~SomethingToForce(b) THEN [b EXCEPT !.stall = 0, !.attempted = FALSE]
  ELSE IF b.stall + 1 >= StallTicks(b)
  THEN [b EXCEPT !.stall = 0, !.attempted = TRUE]
  ELSE [b EXCEPT !.stall = @ + 1]

BoardingRuns == ~board.finished /\ (gsx.boarding = "Active" \/ BoardingDone)

BoardingAdvanced ==
  IF ~BoardingRuns THEN board
  ELSE IF BoardingDone /\ ~IsCargoPending(Counted)
  THEN [Counted EXCEPT !.finished = TRUE]
  ELSE ForcedOnce(Counted)

ForcesTheBoarding ==
  /\ BoardingRuns
  /\ ~(BoardingDone /\ ~IsCargoPending(Counted))
  /\ CompletesBoarding(Counted)

(***************************************************************************)
(* RequestBoardingWhenDue, on the fields both tracks have just written.    *)
(***************************************************************************)
HasRefuelEnded == fuel'.finished \/ RefuelDone

IsShortRefuel ==
  /\ \/ craft.method = "Client"
     \/ fuel'.baselined /\ fuel'.loaded # fuel'.initial
  /\ Distance(Planned, fuel'.initial) <= ShortRefuel

BoardingIsDue ==
  HasRefuelEnded \/ fuel'.progress >= BoardingFuelPercent \/ IsShortRefuel

MayAskForBoarding ==
  /\ ~BoardingAdvanced.baselined
  /\ ~BoardingAdvanced.finished
  /\ fuel'.started
  /\ gsx.boarding = "Callable"

AsksForBoarding == MayAskForBoarding /\ ~board.asked /\ BoardingIsDue

BoardingAsked ==
  IF ~MayAskForBoarding THEN board.asked
  ELSE IF board.asked THEN gsx.bar # "none" \/ ~TickCondition
  ELSE BoardingIsDue

LoadingTick ==
  /\ flow.phase = "Loading"
  /\ RefuelingTrack
  /\ board' = [BoardingAdvanced EXCEPT !.asked = BoardingAsked]
  /\ menu' = menu \cup (IF ForcesTheRefuel THEN {"CompleteRefuel"} ELSE {})
                  \cup (IF ForcesTheBoarding THEN {"CompleteBoarding"} ELSE {})
                  \cup (IF AsksForBoarding THEN {"Boarding"} ELSE {})
  /\ IF fuel'.finished /\ board'.finished
     THEN Leave("WaitingReadyToPush")
     ELSE flow' = [flow EXCEPT !.beat = NextBeat, !.touched = FALSE]
  /\ UNCHANGED <<gsx, faults>>

Tick == RequestFuelTick \/ LoadingTick

(***************************************************************************)
(* A relaunch that resumes the same phase: TurnaroundRestore finds the Raw *)
(* fields, starts the counts over and rebuilds what was loaded.  What was  *)
(* in the menu is gone.                                                    *)
(***************************************************************************)
RebuiltLoadedFuel ==
  CASE craft.method # "Gsx" /\ fuel.finished -> Planned
    [] craft.method = "Self" /\ ~fuel.finished /\ fuel.baselined -> fuel.initial
    [] OTHER -> craft.tank

FuelRestoredFinishedLost ==
  [fuel EXCEPT !.loaded = RebuiltLoadedFuel, !.sample = 0, !.stall = 0,
               !.finished = FALSE, !.progress = 0]
FuelRestored ==
  [fuel EXCEPT !.loaded = RebuiltLoadedFuel, !.sample = 0, !.stall = 0,
               !.progress = IF fuel.finished THEN 100 ELSE 0]

Loading == flow.phase # "WaitingReadyToPush"

Relaunch ==
  /\ Loading /\ faults < MaxFaults
  /\ faults' = faults + 1
  /\ fuel' = FuelRestored
  /\ board' = [board EXCEPT !.awaits = FALSE, !.awaitTicks = 0,
                            !.flagTicks = 0, !.holdTicks = 0, !.stall = 0]
  /\ flow' = [flow EXCEPT !.beat = 0, !.notTaken = 0, !.touched = FALSE]
  /\ menu' = {}
  /\ UNCHANGED <<craft, gsx>>

\* The pilot touches the smart button or the app.
Touch ==
  /\ flow.phase = "RequestFuel" /\ ~LoadingAllowed
  /\ flow' = [flow EXCEPT !.touched = TRUE]
  /\ UNCHANGED <<fuel, board, craft, gsx, menu, faults>>

(***************************************************************************)
(* GSX and the aircraft, as the phases read them.                          *)
(***************************************************************************)
Gsx(g) == gsx' = g /\ UNCHANGED <<flow, fuel, board, craft, faults>>

Heard(ask) ==
  CASE ask = "Refuel" /\ gsx.refuel = "Callable" ->
         [gsx EXCEPT !.refuel = "Requested"]
    [] ask = "Boarding" /\ gsx.boarding = "Callable" ->
         [gsx EXCEPT !.boarding = "Requested"]
    [] ask = "CompleteRefuel" /\ gsx.refuel = "Active" ->
         [gsx EXCEPT !.refuel = "Completed"]
    [] ask = "CompleteBoarding" /\ gsx.boarding = "Active" ->
         [gsx EXCEPT !.boarding = "Completed"]
    [] OTHER -> gsx

GsxHears(ask) ==
  ask \in menu /\ Gsx(Heard(ask)) /\ menu' = menu \ {ask}

GsxMissesAnAsk ==
  /\ Loading /\ faults < MaxFaults
  /\ \E ask \in menu : menu' = menu \ {ask}
  /\ faults' = faults + 1
  /\ UNCHANGED <<flow, fuel, board, craft, gsx>>

GsxDropsAService ==
  /\ Loading /\ faults < MaxFaults
  /\ \/ /\ gsx.refuel \in {"Requested", "Active"}
        /\ gsx' = [gsx EXCEPT !.refuel = "Callable", !.hose = FALSE, !.pumped = 0]
     \/ /\ gsx.boarding \in {"Requested", "Active"}
        /\ gsx' = [gsx EXCEPT !.boarding = "Callable", !.bar = "none", !.cargo = {}]
     \/ gsx.api /\ gsx' = [gsx EXCEPT !.api = FALSE]
  /\ faults' = faults + 1
  /\ UNCHANGED <<flow, fuel, board, craft, menu>>

ApiReconnects ==
  Loading /\ ~gsx.api /\ Gsx([gsx EXCEPT !.api = TRUE]) /\ UNCHANGED menu

\* What a service that was dropped waits for: the flow does not ask for it again.
PilotAsksAgain ==
  /\ Loading
  /\ \/ /\ flow.phase = "Loading" /\ gsx.refuel = "Callable"
        /\ Gsx([gsx EXCEPT !.refuel = "Requested"])
     \/ /\ board.baselined /\ gsx.boarding = "Callable"
        /\ Gsx([gsx EXCEPT !.boarding = "Requested"])
  /\ UNCHANGED menu

GsxRefuels ==
  /\ Loading
  /\ \/ /\ gsx.refuel = "Requested"
        /\ Gsx([gsx EXCEPT !.refuel = "Active",
                           !.need = Distance(craft.tank, Planned)])
     \/ /\ gsx.refuel = "Active" /\ ~gsx.hose
        /\ Gsx([gsx EXCEPT !.hose = TRUE])
     \/ /\ gsx.refuel = "Active" /\ gsx.hose /\ gsx.pumped < gsx.need
        /\ gsx' = [gsx EXCEPT !.pumped = @ + 1]
        /\ craft' = IF craft.method = "Client" THEN craft
                    ELSE [craft EXCEPT !.tank = Written(Towards(@, Planned, 1))]
        /\ UNCHANGED <<flow, fuel, board, faults>>
     \/ gsx.hose /\ RefuelDone /\ Gsx([gsx EXCEPT !.hose = FALSE])
  /\ UNCHANGED menu

\* GSX ends the refuel on its own, perhaps short of the plan.
GsxEndsTheRefuel ==
  /\ Loading
  /\ gsx.refuel = "Active" /\ gsx.hose
  /\ Gsx([gsx EXCEPT !.refuel = "Completed"])
  /\ UNCHANGED menu

GsxBoards ==
  /\ Loading
  /\ \/ /\ gsx.boarding = "Requested"
        /\ Gsx([gsx EXCEPT !.boarding = "Active"])
     \/ /\ gsx.boarding = "Active" /\ gsx.bar = "none"
        /\ Gsx([gsx EXCEPT !.bar = "some"])
     \/ /\ gsx.boarding = "Active" /\ gsx.bar = "some"
        /\ \E bar \in {"full", "held"} : Gsx([gsx EXCEPT !.bar = bar])
  /\ UNCHANGED menu

GsxEndsTheBoarding ==
  /\ Loading
  /\ gsx.boarding = "Active" /\ gsx.bar = "full"
  /\ Gsx([gsx EXCEPT !.boarding = "Completed"])
  /\ UNCHANGED menu

\* Loaders come while GSX boards; when the bar is full they go, but for one
\* that waits for a door, and any may stay when GSX has closed the service.
LoadersComeAndGo ==
  /\ Loading /\ gsx.boarding = "Active" /\ gsx.bar \in {"none", "some"}
  /\ \E cargo \in CargoReadings :
       cargo # gsx.cargo /\ Gsx([gsx EXCEPT !.cargo = cargo])
  /\ UNCHANGED menu

LoadersGo ==
  /\ Loading
  /\ \/ gsx.boarding = "Active" /\ gsx.bar \in {"full", "held"}
     \/ BoardingDone
  /\ \E cargo \in CargoReadings :
       /\ cargo \subseteq gsx.cargo /\ cargo # gsx.cargo
       /\ "door" \in gsx.cargo => "door" \in cargo
       /\ Gsx([gsx EXCEPT !.cargo = cargo])
  /\ UNCHANGED menu

GsxSteps ==
  \/ \E ask \in menu : Loading /\ GsxHears(ask)
  \/ GsxMissesAnAsk \/ GsxDropsAService \/ ApiReconnects \/ PilotAsksAgain
  \/ GsxRefuels \/ GsxEndsTheRefuel \/ GsxBoards \/ GsxEndsTheBoarding
  \/ LoadersComeAndGo \/ LoadersGo

Next == Tick \/ Relaunch \/ Touch \/ GsxSteps

Spec == Init /\ [][Next]_vars

(***************************************************************************)
(* The tick is a timer.  GSX hears what the menu asks and goes on with     *)
(* what it has begun, the loaders go when the bar is full, and the pilot   *)
(* confirms the loading and asks again for what GSX dropped.  Left open:   *)
(* whether GSX ends a service that the client sees full, whether a loader  *)
(* ever gets its door, and whether one goes after GSX closed the service,  *)
(* but not with the cargo flag up as well: BoardingTrack then starts the   *)
(* count of the flag over and waits without end.                           *)
(***************************************************************************)
Fairness ==
  /\ WF_vars(Tick)
  /\ \A ask \in Asks : WF_vars(Loading /\ GsxHears(ask))
  /\ WF_vars(ApiReconnects)
  /\ WF_vars(PilotAsksAgain)
  /\ WF_vars(GsxRefuels)
  /\ WF_vars(GsxEndsTheRefuel /\ gsx.pumped = gsx.need /\ fuel.progress < 100)
  /\ WF_vars(GsxBoards)
  /\ WF_vars(LoadersGo /\ gsx.boarding = "Active")
  /\ WF_vars(LoadersGo /\ {"flag", "hold"} \subseteq gsx.cargo)
  /\ WF_vars(Touch)

FairSpec == Spec /\ Fairness
-----------------------------------------------------------------------------
\* The types of the fields of the two tracks and of what they read.
TypeOK ==
  /\ flow \in [phase : {"RequestFuel", "Loading", "WaitingReadyToPush"},
               beat : 0 .. RetryTicks, confirmed : BOOLEAN,
               asked : BOOLEAN, notTaken : 0 .. GiveUpTicks,
               touched : BOOLEAN]
  /\ fuel \in [baselined : BOOLEAN, started : BOOLEAN, initial : Nat,
               loaded : Nat, progress : 0 .. 100, topUp : BOOLEAN,
               sample : Nat, stall : 0 .. RefuelStallTicks,
               finished : BOOLEAN]
  /\ board \in [asked : BOOLEAN, baselined : BOOLEAN, awaits : BOOLEAN,
                awaitTicks : 0 .. GiveUpTicks, flagTicks : 0 .. GiveUpTicks,
                holdTicks : 0 .. HoldGiveUpTicks, stall : 0 .. BoardingStallTicks,
                attempted : BOOLEAN, finished : BOOLEAN]
  /\ \E c \in Crafts : craft = [c EXCEPT !.tank = craft.tank]
  /\ craft.tank \in 0 .. craft.capacity
  /\ menu \subseteq Asks
  /\ faults \in 0 .. MaxFaults

(***************************************************************************)
(* The two phases implement TwoTracks: whatever GSX drops and whenever the *)
(* client is relaunched, a track that has started or ended does not go     *)
(* back, and the phase is left only when both have ended (LoadingState).   *)
(***************************************************************************)
Stage(track) ==
  IF track.finished THEN "Done"
  ELSE IF track.baselined THEN "Running" ELSE "Waiting"

Tracks == INSTANCE TwoTracks
            WITH refuel <- Stage(fuel), boarding <- Stage(board),
                 left <- ~Loading

ImplementsTwoTracks == Tracks!Spec

(***************************************************************************)
(* Where the client moves the fuel itself, no write takes the tanks away   *)
(* from the plan, also not the first one after a relaunch, which goes on   *)
(* from what it finds in the tanks (RebuiltLoadedFuelKg).                  *)
(***************************************************************************)
FuelGoesTowardsThePlan ==
  [][ craft.method # "Self" =>
        Distance(craft'.tank, Planned) <= Distance(craft.tank, Planned) ]_vars

(***************************************************************************)
(* Boarding does not end, and GSX is not told to end it, over a loader     *)
(* that is known to be at work: the flag, a loader at a hold or one that   *)
(* waits for a door counts until it has been waited for long enough.       *)
(***************************************************************************)
LoadersAreWaitedFor ==
  [][ \/ board'.finished /\ ~board.finished
      \/ "CompleteBoarding" \in menu' \ menu
      => /\ "hold" \in gsx.cargo => board'.holdTicks = HoldGiveUpTicks
         /\ "flag" \in gsx.cargo => board'.flagTicks = GiveUpTicks
         /\ "door" \in gsx.cargo => board'.awaitTicks = GiveUpTicks ]_vars

(***************************************************************************)
(* The loading ends, although GSX loses asks, drops services, keeps the    *)
(* hose and the boarding open until it is told to end them, and loaders    *)
(* never go, unless a fault or the pilot's own confirmation comes in       *)
(* between for ever.                                                       *)
(***************************************************************************)
LoadingEnds == <>(flow.phase = "WaitingReadyToPush")

(***************************************************************************)
(* Neither track ends against what it serves: the fuel does not move away  *)
(* from the plan, and no loader is left at work.                           *)
(***************************************************************************)
LoadsWhatWasPlanned == FuelGoesTowardsThePlan /\ LoadersAreWaitedFor
-----------------------------------------------------------------------------
(***************************************************************************)
(* For TLC: aircraft that GSX fills, to the plan or to less than that, one *)
(* that fills itself and one the client fills, and loaders that come alone *)
(* or with the flag.                                                       *)
(***************************************************************************)
SomeReadings == {{}, {"hold"}, {"flag", "hold"}, {"door"}}
FourCrafts ==
  {[method |-> "Gsx", capacity |-> 3, tank |-> 1],
   [method |-> "Gsx", capacity |-> 1, tank |-> 1],
   [method |-> "Self", capacity |-> 3, tank |-> 3],
   [method |-> "Client", capacity |-> 3, tank |-> 0]}
=============================================================================
