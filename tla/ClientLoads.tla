----------------------------- MODULE ClientLoads -----------------------------
(***************************************************************************)
(* The fuel and the payload of the aircraft whose stations and tanks the   *)
(* client writes: the BlueBird 757, the FSS 727 and E-Jets, and the tanks  *)
(* of the Avro RJ.  The engine asks for a zero fuel weight and for a fuel  *)
(* (BoardingTrack, DeboardingState, RefuelingTrack); the adapter spreads   *)
(* them as the plan has it, writes what it has not written yet, and after  *)
(* a relaunch knows of the plan what the checkpoint kept.  Weights are     *)
(* above the empty weight, in units that the shares divide.                *)
(***************************************************************************)
EXTENDS Integers, Sequences

CONSTANTS
  Plans,      \* payloads, with the part of them that sits in the cabin
  Crew,       \* what the pilots weigh
  FrontCap,   \* kZoneACapKg
  HoldCap,    \* kHoldCapacitiesLb
  Steps,      \* the steps of GSX's progress
  MaxFuel,    \* bound on the planned fuel
  MaxFaults   \* bound on relaunches and on changes from outside

VARIABLES
  flow,      \* the turnaround, and what the client has received
  adapter,   \* what the adapter remembers
  stations,  \* what is aboard
  tanks      \* the fuel: asked for, written, and in each group of tanks

loadVars == <<flow, adapter, stations, tanks>>

None == -1
Kinds == {"Bbs757", "Fss727", "FssEJet", "FssEJetFreighter", "AvroRj"}
Places == {"front", "rear", "hold"}
Nowhere == [place \in Places |-> 0]
NotWritten == [place \in Places |-> None]

LOCAL Least(a, b) == IF a < b THEN a ELSE b
LOCAL Most(a, b) == IF a < b THEN b ELSE a
Clamped(value, bound) == Most(0, Least(value, bound))
\* What the share part / whole makes of an amount.
Share(amount, part, whole) == IF whole = 0 THEN 0 ELSE (amount * part) \div whole

-----------------------------------------------------------------------------
(***************************************************************************)
(* The adapters' SetCurrentZfwKg.  Live is the plan of the status, resumed *)
(* the planned weight of the checkpoint; the pilots' weight is read only   *)
(* of an aircraft whose stations have been received.                       *)
(***************************************************************************)
IsEJet == flow.kind \in {"FssEJet", "FssEJetFreighter"}
CrewOnBoard == IF flow.received THEN Crew ELSE 0
PlannedZfw == IF IsEJet THEN flow.plan.payload ELSE flow.plan.payload + CrewOnBoard

Aboard(s) == s["front"] + s["rear"] + s["hold"]

PlanFromLoadOnBoard ==
  IF flow.received
  THEN [payload |-> Aboard(stations), cabin |-> stations["front"]]
  ELSE [payload |-> 0, cabin |-> 0]

ResumedPlan ==
  LET payload == Most(0, adapter.resumed - CrewOnBoard)
  IN  [payload |-> payload, cabin |-> Least(flow.plan.cabin, payload)]

PlanAboard ==
  IF adapter.live THEN flow.plan
  ELSE IF adapter.resumed # None THEN ResumedPlan
  ELSE PlanFromLoadOnBoard

Bbs757Load(zfw) ==
  LET plan == PlanAboard
      payload == Clamped(zfw - CrewOnBoard, plan.payload)
      cabin == Share(payload, plan.cabin, plan.payload)
  IN  [Nowhere EXCEPT !["front"] = cabin, !["hold"] = Least(payload - cabin, HoldCap)]

CargoLine ==
  IF adapter.live THEN flow.plan.payload
  ELSE IF adapter.resumed # None THEN Most(0, adapter.resumed - CrewOnBoard)
  ELSE 0

Fss727Load(zfw) == [Nowhere EXCEPT !["hold"] = Clamped(zfw, CargoLine)]

\* The checkpoint has no cargo line, without which a cabin has no share.
PayloadOfTheEJet ==
  IF adapter.live THEN flow.plan.payload ELSE Most(0, adapter.resumed)
HasTargets == adapter.live \/ flow.kind = "FssEJetFreighter"

FullStationTargets(payload) ==
  IF flow.kind = "FssEJetFreighter"
  THEN [front |-> Share(payload, 1, 4), rear |-> Share(payload, 2, 4),
        hold |-> Share(payload, 1, 4)]
  ELSE LET zoneA == Least(flow.plan.cabin, FrontCap)
       IN  [front |-> zoneA, rear |-> flow.plan.cabin - zoneA,
            hold |-> payload - flow.plan.cabin]

FssEJetLoad(zfw) ==
  LET payload == PayloadOfTheEJet
  IN  [place \in Places |->
         Share(FullStationTargets(payload)[place], Clamped(zfw, payload), payload)]

WasAnyStationChangedFromOutside(load) == flow.received /\ stations # load

\* WriteWhenChanged: an LVar of the 757 is not written what it was written last.
WriteWhenChanged(load) ==
  [load |-> load,
   stations |-> [place \in Places |->
                   IF adapter.written[place] = load[place] THEN stations[place] ELSE load[place]],
   adapter |-> [adapter EXCEPT !.written = load]]

Write(load, zfw) ==
  [load |-> load, stations |-> load, adapter |-> [adapter EXCEPT !.last = zfw]]
LeaveStations == [load |-> stations, stations |-> stations, adapter |-> adapter]

\* One that does not look at the stations.
IsTheLastWriteByItself(zfw) == zfw = adapter.last

IsTheLastWrite(zfw) ==
  zfw = adapter.last /\ (IsEJet => ~WasAnyStationChangedFromOutside(FssEJetLoad(zfw)))

SetCurrentZfw(zfw) ==
  CASE flow.kind = "AvroRj" -> LeaveStations
    [] flow.kind = "Bbs757" -> WriteWhenChanged(Bbs757Load(zfw))
    [] flow.kind = "Fss727" ->
         IF IsTheLastWrite(zfw) THEN LeaveStations ELSE Write(Fss727Load(zfw), zfw)
    [] OTHER ->
         IF ~HasTargets \/ IsTheLastWrite(zfw) THEN LeaveStations
         ELSE Write(FssEJetLoad(zfw), zfw)

\* The flow goes on as f, and what it asked the adapter for is aboard: for a
\* known weight of the crew, and with nothing left of what another had changed.
LoadsWhile(f, zfw) ==
  \E done \in {SetCurrentZfw(zfw)} :
    /\ stations' = done.stations /\ adapter' = done.adapter
    /\ flow' = [f EXCEPT
         !.read = IF done = LeaveStations THEN @ ELSE f.received,
         !.touched = @ /\ (done = LeaveStations \/ done.stations # done.load)]
GoesOnWith(f, zfw) == LoadsWhile(f, zfw) /\ UNCHANGED tanks

-----------------------------------------------------------------------------
(***************************************************************************)
(* The adapters' SetCurrentFuelKg: a gauge of the usable fuel becomes what *)
(* is written into the groups of tanks.  What cannot be used is added to   *)
(* it, and the 757's EFB and the simulator take it off again.              *)
(***************************************************************************)
WingsUsable == 2
WingsUnusable == 1
CentreUnusable == 1

\* The Avro's mains, centre and auxiliary tanks, whose flags may be on their way.
Groups ==
  IF flow.kind # "AvroRj" THEN <<WingsUsable + 1>>
  ELSE IF flow.received THEN <<2, 1, 1>> ELSE <<2, 1, 0>>

CapacityUpTo(group) ==
  LET sum[n \in 0 .. Len(Groups)] == IF n = 0 THEN 0 ELSE sum[n - 1] + Groups[n]
  IN  sum[group]
Capacity == CapacityUpTo(Len(Groups))

FillGroups(amount) ==
  [g \in 1 .. Len(Groups) |-> Clamped(amount - CapacityUpTo(g - 1), Groups[g])]

Unusable(usable) ==
  IF usable <= WingsUsable THEN WingsUnusable ELSE WingsUnusable + CentreUnusable
GrossFuel(usable) == IF usable <= 0 THEN 0 ELSE usable + Unusable(usable)

\* The EFB of the 757 shorts what is set by what cannot be used (external).
ShortedByTheEfb(gross) ==
  IF gross = 0 THEN 0
  ELSE IF gross <= WingsUsable + WingsUnusable THEN gross - WingsUnusable
  ELSE gross - WingsUnusable - CentreUnusable

WrittenFuel(fuel) ==
  IF flow.kind = "Bbs757" THEN <<ShortedByTheEfb(GrossFuel(Least(fuel, Capacity)))>>
  ELSE FillGroups(fuel)

HasTheTanks == flow.received \/ flow.kind = "AvroRj"

FuelAboard ==
  LET sum[n \in 0 .. Len(tanks.groups)] == IF n = 0 THEN 0 ELSE sum[n - 1] + tanks.groups[n]
  IN  sum[Len(tanks.groups)]

SetCurrentFuel(fuel) ==
  tanks' = IF ~HasTheTanks \/ fuel = tanks.last THEN [tanks EXCEPT !.asked = fuel]
           ELSE [tanks EXCEPT !.asked = fuel, !.last = fuel, !.groups = WrittenFuel(fuel),
                              !.capacity = Capacity]

-----------------------------------------------------------------------------
(***************************************************************************)
(* The phases that ask for it.  A client that boards follows GSX's         *)
(* progress; of an aircraft that boards itself the whole load is written   *)
(* as the service begins, and again as it ends.                            *)
(***************************************************************************)
BoardsByClient == flow.kind \in {"Bbs757", "Fss727"}
IsPlanning == flow.phase = "planning"

\* WaitingFlightPlanState: the aircraft is emptied, tick by tick.
EmptyTheAircraft == IsPlanning /\ flow.received /\ GoesOnWith(flow, 0)

\* A freighter has nobody in its cabin.
PlansOfTheKind ==
  {plan \in Plans : flow.kind \in {"Fss727", "FssEJetFreighter"} => plan.cabin = 0}

\* A new plan, which the pilot may have brought to the EFB of the E-Jet too.
PlanArrives ==
  /\ IsPlanning /\ flow.received
  /\ \E plan \in PlansOfTheKind, efb \in BOOLEAN :
       flow' = [flow EXCEPT !.plan = plan, !.efb = efb]
  /\ adapter' = [adapter EXCEPT !.live = TRUE]
  /\ UNCHANGED <<stations, tanks>>

IsFlightPlanLoaded == adapter.live /\ flow.received /\ (IsEJet => flow.efb)

CaptureFlightPlan ==
  /\ IsPlanning /\ IsFlightPlanLoaded
  /\ \E fuel \in 0 .. MaxFuel : tanks' = [tanks EXCEPT !.planned = fuel, !.asked = FuelAboard]
  /\ LoadsWhile([flow EXCEPT !.phase = "refuelling", !.planned = PlannedZfw], 0)

\* Of the E-Jets GSX fills the tanks itself.
RefuelProgressively ==
  /\ flow.phase = "refuelling" /\ ~IsEJet
  /\ SetCurrentFuel(IF tanks.asked < tanks.planned THEN tanks.asked + 1
                    ELSE IF tanks.asked > tanks.planned THEN tanks.asked - 1 ELSE tanks.asked)
  /\ UNCHANGED <<flow, adapter, stations>>

FinishRefueling ==
  /\ flow.phase = "refuelling" /\ (~IsEJet => tanks.asked = tanks.planned)
  /\ flow' = [flow EXCEPT !.phase = "boarding"]
  /\ UNCHANGED <<adapter, stations, tanks>>

\* initial + (planned - initial) * progress, and the way back.
LoadedZfw(progress) == Share(flow.planned, progress, Steps)

BoardingBegins ==
  /\ flow.phase = "boarding" /\ ~flow.baselined
  /\ IF BoardsByClient THEN GoesOnWith([flow EXCEPT !.baselined = TRUE], 0)
     ELSE GoesOnWith([flow EXCEPT !.baselined = TRUE], flow.planned)

GsxGoesOn ==
  /\ flow.phase \in {"boarding", "deboarding"} /\ flow.baselined /\ flow.progress < Steps
  /\ flow' = [flow EXCEPT !.progress = @ + 1]
  /\ UNCHANGED <<adapter, stations, tanks>>

AdvanceBoarding ==
  /\ flow.phase = "boarding" /\ flow.baselined /\ BoardsByClient
  /\ GoesOnWith(flow, LoadedZfw(flow.progress))

FinishBoarding ==
  /\ flow.phase = "boarding" /\ flow.progress = Steps
  /\ GoesOnWith([flow EXCEPT !.phase = "aboard"], flow.planned)

\* A client that was started in flight, and has no checkpoint, adopts what is aboard.
AdoptTheLoadOnBoard(f) ==
  IF f.planned > 0 THEN f ELSE [f EXCEPT !.planned = Aboard(stations) + Crew]

DeboardingBegins ==
  /\ flow.phase = "aboard" /\ flow.received
  /\ LET f == [AdoptTheLoadOnBoard(flow) EXCEPT !.phase = "deboarding", !.progress = 0]
     IN  GoesOnWith(f, IF BoardsByClient THEN f.planned ELSE 0)

AdvanceDeboarding ==
  /\ flow.phase = "deboarding" /\ BoardsByClient
  /\ GoesOnWith(flow, flow.planned - LoadedZfw(flow.progress))

FinishDeboarding ==
  /\ flow.phase = "deboarding" /\ flow.progress = Steps
  /\ GoesOnWith([flow EXCEPT !.phase = "empty"], 0)

OnTurnaroundStarted ==
  /\ flow.phase = "empty"
  /\ flow' = [flow EXCEPT !.phase = "planning", !.planned = 0, !.progress = 0,
                          !.baselined = FALSE, !.efb = FALSE]
  /\ adapter' = [adapter EXCEPT !.resumed = None, !.written = NotWritten]
  /\ tanks' = [tanks EXCEPT !.last = IF flow.kind = "Bbs757" THEN None ELSE @]
  /\ UNCHANGED stations

-----------------------------------------------------------------------------
(***************************************************************************)
(* A relaunch, with the plan of the checkpoint or without it, or in flight *)
(* with no checkpoint at all; and the pilot at the aircraft's own EFB.     *)
(***************************************************************************)
NewAdapter == [last |-> None, live |-> FALSE, resumed |-> None, written |-> NotWritten]

ClientRestarts(planned, live) ==
  /\ flow.faults < MaxFaults
  /\ flow' = [flow EXCEPT !.faults = @ + 1, !.received = FALSE, !.planned = planned]
  /\ adapter' = [NewAdapter EXCEPT !.live = live,
                                   !.resumed = IF planned = 0 THEN None ELSE planned]
  /\ tanks' = [tanks EXCEPT !.last = None,
                            !.asked = IF flow.phase = "refuelling" THEN FuelAboard ELSE @]
  /\ UNCHANGED stations

OnTurnaroundResumed ==
  /\ ~IsPlanning /\ flow.planned > 0
  /\ \E live \in BOOLEAN : ClientRestarts(flow.planned, live)

StartsInFlight == flow.phase = "aboard" /\ ClientRestarts(0, FALSE)

Receives ==
  /\ ~flow.received
  /\ flow' = [flow EXCEPT !.received = TRUE]
  /\ UNCHANGED <<adapter, stations, tanks>>

EfbChangesTheHold ==
  /\ flow.phase = "boarding" /\ flow.baselined /\ ~flow.touched /\ flow.faults < MaxFaults
  /\ stations' = [stations EXCEPT !["hold"] = IF @ = 0 THEN 1 ELSE 0]
  /\ flow' = [flow EXCEPT !.faults = @ + 1, !.touched = TRUE]
  /\ UNCHANGED <<adapter, tanks>>

Init ==
  /\ flow \in [kind : Kinds, phase : {"planning"}, plan : Plans, planned : {0},
               progress : {0}, baselined : {FALSE}, received : {TRUE}, efb : {FALSE},
               read : {TRUE}, touched : {FALSE}, faults : {0}]
  /\ flow.plan \in PlansOfTheKind
  /\ adapter = NewAdapter /\ stations = Nowhere
  /\ tanks = [asked |-> 0, planned |-> 0, last |-> None, capacity |-> 0,
              groups |-> [g \in 1 .. Len(Groups) |-> 0]]

Next ==
  \/ EmptyTheAircraft \/ PlanArrives \/ CaptureFlightPlan
  \/ RefuelProgressively \/ FinishRefueling
  \/ BoardingBegins \/ GsxGoesOn \/ AdvanceBoarding \/ FinishBoarding
  \/ DeboardingBegins \/ AdvanceDeboarding \/ FinishDeboarding
  \/ OnTurnaroundStarted \/ OnTurnaroundResumed \/ StartsInFlight
  \/ Receives \/ EfbChangesTheHold

Spec == Init /\ [][Next]_loadVars

-----------------------------------------------------------------------------
(***************************************************************************)
(* What was planned is aboard, where it was planned, when the boarding is  *)
(* over, also where it was continued after a relaunch; a passenger E-Jet   *)
(* that lost its plan before it was loaded is left empty.                  *)
(***************************************************************************)
LoadAsPlanned ==
  CASE flow.kind = "AvroRj" -> Nowhere
    [] flow.kind = "Bbs757" ->
         [Nowhere EXCEPT !["front"] = flow.plan.cabin,
                         !["hold"] = Least(flow.plan.payload - flow.plan.cabin, HoldCap)]
    [] flow.kind = "Fss727" -> [Nowhere EXCEPT !["hold"] = flow.plan.payload]
    [] OTHER -> FullStationTargets(flow.plan.payload)

BoardedAsPlanned ==
  flow.phase = "aboard" /\ flow.read /\ ~flow.touched =>
    \/ stations = LoadAsPlanned
    \/ flow.kind = "FssEJet" /\ flow.faults > 0 /\ stations = Nowhere

(***************************************************************************)
(* Deboarded, the aircraft is empty, with a plan or without one; only of   *)
(* an E-Jet whose plan is lost the passengers' stations are left alone,    *)
(* and what another put aboard the 757 where the plan has nothing.         *)
(***************************************************************************)
DeboardedIsEmpty ==
  flow.phase = "empty" /\ ~flow.touched =>
    stations = Nowhere \/ (flow.kind = "FssEJet" /\ ~adapter.live)

(***************************************************************************)
(* The usable fuel is what was asked for last, as far as the tanks take    *)
(* it, and the Avro's mains are filled before its centre and its           *)
(* auxiliary tanks.                                                        *)
(***************************************************************************)
FuelIsAsAsked ==
  tanks.last # None /\ tanks.last = tanks.asked =>
    /\ FuelAboard = Least(tanks.asked, tanks.capacity)
    /\ \A g \in 2 .. Len(tanks.groups) : tanks.groups[g] > 0 => tanks.groups[g - 1] = Groups[g - 1]

LoadsAreAsAsked == BoardedAsPlanned /\ DeboardedIsEmpty /\ FuelIsAsAsked

(***************************************************************************)
(* No passenger and no cargo leaves while the aircraft is boarded, or      *)
(* comes back while it is deboarded, however the client comes to know of   *)
(* the plan; and what the pilot changed at the EFB of an E-Jet meanwhile   *)
(* is put right as the boarding ends.                                      *)
(***************************************************************************)
NothingMovesBack ==
  [][/\ flow.phase = "boarding" /\ flow.read /\ flow.received /\ ~flow.touched /\ ~flow'.touched
          => \A place \in Places : stations'[place] >= stations[place]
     /\ flow.phase = "deboarding" /\ flow.read /\ flow.received /\ ~flow.touched
          => \A place \in Places : stations'[place] <= stations[place]
     /\ IsEJet /\ adapter.live /\ flow.received /\ flow.phase = "boarding" /\ flow'.phase = "aboard"
          => ~flow'.touched]_loadVars
=============================================================================
