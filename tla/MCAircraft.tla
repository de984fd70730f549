------------------------------ MODULE MCAircraft ------------------------------
(***************************************************************************)
(* The rules of the aircraft: how they hold a phase (RuleHolds), and the   *)
(* doors, tanks and stations that single ones of them move, side by side   *)
(* on small instances.                                                     *)
(* A behaviour is about one of them, chosen at the start; the others rest. *)
(***************************************************************************)
EXTENDS RuleHolds

CONSTANTS
  MaxFaults,            \* bound on the faults of a module, and
  MaxFaultsOfTheSmall,  \* the one of the modules that have few states
  WideOpen, RestTicks, StartTicks, GuardTicks, GiveUpTicks,  \* of Fss727MainDeck
  SettleTicks, MaxPulseAttempts, OpensItselfTicks,       \* of IFlyDoors
  ReaffirmTicks, MaxReaffirms, BoundTicks,               \* of FssEJetDeck
  Travel,                                                \* of AvroRjAirstair
  CallableTicks,                                         \* of FenixRefuel
  MinTicksBetweenPulses, MaxAttempts, Shows              \* of FssGroundPower

ASSUME AircraftConstants ==
  /\ MaxFaults \in Nat /\ MaxFaultsOfTheSmall \in Nat
  /\ {WideOpen, StartTicks, GiveUpTicks, Travel, CallableTicks} \subseteq Nat \ {0}
  /\ {RestTicks, GuardTicks, SettleTicks, MaxPulseAttempts, ReaffirmTicks, MaxReaffirms,
      BoundTicks, MinTicksBetweenPulses, MaxAttempts, Shows} \subseteq Nat
  /\ OpensItselfTicks \in Nat \ {0, 1}

\* An aircraft with two rules that hold, the first one shorter, and one with a
\* single such rule, as the Avro RJ has.
MCTwoHolds == <<1, 2>>
MCOneHold == <<2>>

\* A full cabin with and without cargo, one that the hold's limit cuts, and
\* two loads of a freighter.
MCPlans ==
  {[payload |-> 12, cabin |-> 6], [payload |-> 8, cabin |-> 8],
   [payload |-> 4, cabin |-> 0], [payload |-> 12, cabin |-> 0]}

VARIABLES
  side,
  rule, deck, gsx,
  entry, door, access,
  follow, iflyDoor, iflyGsx,
  slot, eDeck, loader,
  airstair, plane, stand,
  efb, aboard, flight,
  refuel, hose, truck,
  gpu, power, gpuFaults,
  loadFlow, adapter, stations, tanks

MainDeck == INSTANCE Fss727MainDeck
Entry == INSTANCE Fss727FrontEntry WITH MaxFaults <- MaxFaultsOfTheSmall
IFly == INSTANCE IFlyDoors WITH door <- iflyDoor, gsx <- iflyGsx
EDeck == INSTANCE FssEJetDeck WITH deck <- eDeck
Airstair == INSTANCE AvroRjAirstair
Targets == INSTANCE TfdiMd11Targets WITH MaxFaults <- MaxFaultsOfTheSmall
Hose == INSTANCE FenixRefuel WITH MaxFaults <- MaxFaultsOfTheSmall
Gpu == INSTANCE FssGroundPower WITH faults <- gpuFaults
Loads == INSTANCE ClientLoads WITH
  Plans <- MCPlans, Crew <- 4, FrontCap <- 3, HoldCap <- 8, Steps <- 2, MaxFuel <- 3,
  flow <- loadFlow

deckVars == <<rule, deck, gsx>>
entryVars == <<entry, door, access>>
iflyVars == <<follow, iflyDoor, iflyGsx>>
eDeckVars == <<slot, eDeck, loader>>
doorVars == <<deckVars, entryVars, iflyVars, eDeckVars>>
stairVars == <<airstair, plane, stand>>
targetVars == <<efb, aboard, flight>>
hoseVars == <<refuel, hose, truck>>
gpuVars == <<gpu, power, gpuFaults>>
loadVars == <<loadFlow, adapter, stations, tanks>>
serviceVars == <<stairVars, targetVars, hoseVars, gpuVars, loadVars>>
aircraftVars == <<side, vars, doorVars, serviceVars>>

\* Every side starts as it does alone; those that rest, in one way only.
AircraftInit ==
  /\ side \in {"holds", "mainDeck", "entry", "ifly", "eDeck", "stair", "targets", "hose",
               "gpu", "loads"}
  /\ Init /\ MainDeck!Init /\ Entry!Init /\ IFly!Init /\ EDeck!Init
  /\ Airstair!Init /\ Targets!Init /\ Hose!Init /\ Gpu!Init /\ Loads!Init
  /\ side # "holds" => onGround
  /\ side # "ifly" => iflyDoor.kind = "cargo"
  /\ side # "stair" => stand.jetway = "none"
  /\ side # "loads" => loadFlow.kind = "AvroRj" /\ loadFlow.plan.payload = 4

\* An action of one side, which leaves the others as they are.
HoldsMove(action) == side = "holds" /\ action /\ UNCHANGED <<side, doorVars, serviceVars>>
MainDeckMoves(action) ==
  side = "mainDeck" /\ action /\ UNCHANGED <<side, vars, entryVars, iflyVars, eDeckVars, serviceVars>>
EntryMoves(action) ==
  side = "entry" /\ action /\ UNCHANGED <<side, vars, deckVars, iflyVars, eDeckVars, serviceVars>>
IFlyMoves(action) ==
  side = "ifly" /\ action /\ UNCHANGED <<side, vars, deckVars, entryVars, eDeckVars, serviceVars>>
EDeckMoves(action) ==
  side = "eDeck" /\ action /\ UNCHANGED <<side, vars, deckVars, entryVars, iflyVars, serviceVars>>
AirstairMoves(action) ==
  side = "stair" /\ action /\ UNCHANGED <<side, vars, doorVars, targetVars, hoseVars, gpuVars, loadVars>>
TargetsMoves(action) ==
  side = "targets" /\ action /\ UNCHANGED <<side, vars, doorVars, stairVars, hoseVars, gpuVars, loadVars>>
HoseMoves(action) ==
  side = "hose" /\ action /\ UNCHANGED <<side, vars, doorVars, stairVars, targetVars, gpuVars, loadVars>>
GpuMoves(action) ==
  side = "gpu" /\ action /\ UNCHANGED <<side, vars, doorVars, stairVars, targetVars, hoseVars, loadVars>>
LoadsMove(action) ==
  side = "loads" /\ action /\ UNCHANGED <<side, vars, doorVars, stairVars, targetVars, hoseVars, gpuVars>>

AircraftNext ==
  \/ HoldsMove(Next)
  \/ MainDeckMoves(MainDeck!Next)
  \/ EntryMoves(Entry!Next)
  \/ IFlyMoves(IFly!Next)
  \/ EDeckMoves(EDeck!Next)
  \/ AirstairMoves(Airstair!Next)
  \/ TargetsMoves(Targets!Next)
  \/ HoseMoves(Hose!Next)
  \/ GpuMoves(Gpu!Next)
  \/ LoadsMove(Loads!Next)

(***************************************************************************)
(* The fairness of each module.  No two sides move in a behaviour, so one  *)
(* action of every side can share a condition.                             *)
(***************************************************************************)
Ticks ==
  MainDeckMoves(MainDeck!Act) \/ EntryMoves(Entry!Act) \/ IFlyMoves(IFly!Act)
    \/ EDeckMoves(EDeck!Act) \/ AirstairMoves(Airstair!Act) \/ TargetsMoves(Targets!Act)
    \/ HoseMoves(Hose!ActInTime) \/ GpuMoves(Gpu!Act)

Reads ==
  MainDeckMoves(MainDeck!Receives) \/ EntryMoves(Entry!Receives) \/ IFlyMoves(IFly!Receives)
    \/ EDeckMoves(EDeck!Receives) \/ AirstairMoves(Airstair!Receives)
    \/ TargetsMoves(Targets!Receives) \/ HoseMoves(Hose!Receives)

Resumes ==
  MainDeckMoves(MainDeck!OnTurnaroundResumed) \/ EntryMoves(Entry!OnTurnaroundResumed)
    \/ IFlyMoves(IFly!OnTurnaroundResumed) \/ EDeckMoves(EDeck!OnTurnaroundResumed)
    \/ AirstairMoves(Airstair!OnTurnaroundResumed) \/ TargetsMoves(Targets!OnTurnaroundResumed)
    \/ HoseMoves(Hose!OnTurnaroundResumed)

Moves ==
  MainDeckMoves(MainDeck!LoaderLeaves) \/ EntryMoves(Entry!DoorMoves)
    \/ IFlyMoves(IFly!VehicleLeaves) \/ AirstairMoves(Airstair!StairMoves)
    \/ TargetsMoves(Targets!EfbLoads) \/ HoseMoves(Hose!GsxRefuels)

Serves ==
  IFlyMoves(IFly!ServiceEnds) \/ AirstairMoves(Airstair!PilotRechargesTheAccumulator)
    \/ HoseMoves(Hose!GsxCompletes)

AircraftSpec ==
  /\ AircraftInit /\ [][AircraftNext]_aircraftVars
  /\ WF_aircraftVars(Ticks) /\ WF_aircraftVars(Reads) /\ WF_aircraftVars(Resumes)
  /\ WF_aircraftVars(Moves) /\ WF_aircraftVars(Serves)

(***************************************************************************)
(* The types of the rules, and what they never do: start to close a deck   *)
(* on a loader at work in it, close one on a loader that is read at it,    *)
(* turn a door round in the middle of its travel, close one on the jetway, *)
(* the stairs or the airstair that stands at it, load the fuel of another  *)
(* part of the flight, take the hose from GSX's truck, or press what has   *)
(* not answered the press before.                                          *)
(***************************************************************************)
AircraftIsHandledAsMeant ==
  /\ [](MainDeck!TypeOK /\ MainDeck!DeckIsKeptOpenForItsLoader)
  /\ []Entry!TypeOK /\ Entry!EntryIsNotShutOnItsAccess
  /\ [](IFly!TypeOK /\ IFly!PressesAreMeant)
  /\ [](EDeck!TypeOK /\ EDeck!DeckIsNotClosedOnItsLoader)
  /\ []Airstair!TypeOK /\ Airstair!DoorIsNotClosedOnTheStair
  /\ []Targets!TypeOK /\ Targets!FuelIsNotDisturbed
  /\ []Hose!TypeOK /\ Hose!HoseIsNotTakenFromTheTruck
  /\ []Gpu!TypeOK /\ Gpu!NoPulseUndoesAnother

(***************************************************************************)
(* Every door comes to stand as its vehicle, the departure and what the    *)
(* client asked want it to, and nothing that moves it is left on.  The     *)
(* airstair serves those it should, the staged load comes aboard, GSX's    *)
(* truck is served, the ground power ends as asked.  Fuel and payload end  *)
(* where the plan has them, the aircraft is emptied again, and nobody      *)
(* leaves an aircraft that is boarded, or comes back to one deboarded.     *)
(***************************************************************************)
AircraftIsServed ==
  /\ MainDeck!HeldDeckCloses /\ MainDeck!LeftDeckCloses
  /\ MainDeck!MasterServesItsTravel /\ MainDeck!TravelsEnd
  /\ Entry!EntryFollowsItsAccess
  /\ IFly!ButtonComesUp /\ IFly!LeftDoorCloses /\ IFly!HeldDoorCloses
  /\ EDeck!DeckFollowsItsLoader
  /\ Airstair!AirstairServes
  /\ Targets!StagedComesAboard
  /\ Hose!HoseServesTheTruck
  /\ Gpu!PowerFollowsTheRequest
  /\ []Loads!LoadsAreAsAsked /\ Loads!NothingMovesBack
=============================================================================
