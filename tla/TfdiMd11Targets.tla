---------------------------- MODULE TfdiMd11Targets ----------------------------
(***************************************************************************)
(* The EFB of the TFDi MD-11, which loads fuel and payload by itself once  *)
(* both are committed to it together (TfdiMd11CommitEfbTargetsRule).  What *)
(* the phases stage is a target; one that nothing staged is seeded from    *)
(* what is aboard, so that a commit of the one leaves the other as it is.  *)
(***************************************************************************)
EXTENDS Integers

CONSTANT MaxFaults  \* bound on relaunches of the client

VARIABLES
  efb,     \* TfdiMd11's staged values and the rule's targets
  aboard,  \* what is aboard, what the EFB was given, the readings received
  flight   \* the phase, and what the checkpoint tells of it

efbVars == <<efb, aboard, flight>>

None == -1
Nothing == <<None, None>>
Inputs == {"emptyWeight", "fuel", "totalWeight"}

\* Fuel of the plan, at touchdown and after the taxi; weights empty and loaded.
Planned == 2
Landed == 1
Burnt == 0
EmptyZfw == 0
LoadedZfw == 1

-----------------------------------------------------------------------------
Sees(what) == what \in aboard.received
IsArrival == flight.phase = "arrival"
StagedFuel(e) == IF IsArrival THEN None ELSE e.stagedFuel

ForgetTheDepartureFuelOnArrival(e) ==
  [e EXCEPT !.fuel = IF IsArrival /\ ~e.arriving THEN None ELSE @, !.arriving = IsArrival]

SeedFuel(e) ==
  IF StagedFuel(e) # None THEN [e EXCEPT !.fuel = StagedFuel(e)]
  ELSE IF e.fuel = None /\ Sees("fuel") THEN [e EXCEPT !.fuel = aboard.fuel]
  ELSE e

SeedZfw(e) ==
  IF e.stagedZfw # None THEN [e EXCEPT !.zfw = e.stagedZfw]
  ELSE IF e.zfw = None /\ {"totalWeight", "fuel"} \subseteq aboard.received
       THEN [e EXCEPT !.zfw = aboard.zfw]
  ELSE e

ResolveTargets(e) == SeedZfw(SeedFuel(e))

\* Nothing staged, or nothing to tell the payload from, leaves the EFB alone.
HasSomethingToCommit(e) ==
  (StagedFuel(e) # None \/ e.stagedZfw # None) /\ Sees("emptyWeight")

MustCommit(e) ==
  /\ e.fuel # None /\ e.zfw # None
  /\ e.committed # <<e.fuel, e.zfw>>

CommitTargets(e) ==
  IF MustCommit(e)
  THEN [e |-> [e EXCEPT !.committed = <<e.fuel, e.zfw>>], ready |-> <<e.fuel, e.zfw>>]
  ELSE [e |-> e, ready |-> aboard.ready]

Acted(e) ==
  IF HasSomethingToCommit(e) THEN CommitTargets(ResolveTargets(e))
  ELSE [e |-> e, ready |-> aboard.ready]

Act ==
  /\ aboard.up
  /\ \E done \in {Acted(ForgetTheDepartureFuelOnArrival(efb))} :
       /\ efb' = done.e
       /\ aboard' = [aboard EXCEPT !.ready = done.ready]
  /\ UNCHANGED flight

Receives ==
  /\ aboard.up
  /\ \E what \in Inputs \ aboard.received :
       aboard' = [aboard EXCEPT !.received = @ \cup {what}]
  /\ UNCHANGED <<efb, flight>>

\* The EFB loads what was committed to it, before the next tick.
EfbLoads ==
  /\ aboard.ready # Nothing
  /\ aboard' = [aboard EXCEPT !.fuel = aboard.ready[1], !.zfw = aboard.ready[2],
                              !.ready = Nothing]
  /\ UNCHANGED <<efb, flight>>

-----------------------------------------------------------------------------
Phase(from, to) ==
  /\ aboard.up /\ aboard.ready = Nothing /\ flight.phase = from
  /\ flight' = [flight EXCEPT !.phase = to]
  /\ UNCHANGED aboard

SetCurrentZfwKg(zfw) == efb' = [efb EXCEPT !.stagedZfw = zfw]

\* The flight plan empties the cabin, the loading stages the fuel and then the payload.
PlanIsCaptured ==
  Phase("stand", "plan") /\ SetCurrentZfwKg(EmptyZfw)

LoadingStarts ==
  Phase("plan", "loading") /\ efb' = [efb EXCEPT !.stagedFuel = Planned]

BoardingStarts ==
  /\ aboard.up /\ flight.phase = "loading" /\ ~flight.boards
  /\ SetCurrentZfwKg(LoadedZfw)
  /\ flight' = [flight EXCEPT !.boards = TRUE]
  /\ UNCHANGED aboard

\* GSX's truck is done after the EFB is.
RefuelFinishes ==
  /\ aboard.up /\ flight.phase = "loading" /\ aboard.fuel = Planned /\ ~flight.refuelFinished
  /\ flight' = [flight EXCEPT !.refuelFinished = TRUE]
  /\ UNCHANGED <<efb, aboard>>

TakesOff ==
  /\ flight.refuelFinished /\ aboard.zfw = LoadedZfw
  /\ Phase("loading", "flight") /\ UNCHANGED efb

\* The engines burn whether the client runs or not, and slower than it ticks.
TickIsOver ==
  /\ aboard.received = Inputs
  /\ Acted(ForgetTheDepartureFuelOnArrival(efb)) = [e |-> efb, ready |-> Nothing]

Burns ==
  /\ aboard.ready = Nothing /\ (aboard.up => TickIsOver)
  /\ \/ flight.phase = "flight" /\ aboard.fuel > Landed
     \/ flight.phase = "arrival" /\ aboard.fuel > Burnt
  /\ aboard' = [aboard EXCEPT !.fuel = @ - 1]
  /\ UNCHANGED <<efb, flight>>

TouchesDown == aboard.fuel = Landed /\ Phase("flight", "arrival") /\ UNCHANGED efb

DeboardingStarts ==
  /\ aboard.up /\ IsArrival /\ aboard.fuel = Burnt /\ flight.boards
  /\ SetCurrentZfwKg(EmptyZfw)
  /\ flight' = [flight EXCEPT !.boards = FALSE]
  /\ UNCHANGED aboard

NewEfb ==
  [stagedFuel |-> None, stagedZfw |-> None, fuel |-> None, zfw |-> None, committed |-> Nothing,
   arriving |-> FALSE]

NewFlight(faults) == [phase |-> "stand", refuelFinished |-> FALSE, boards |-> FALSE,
                      faults |-> faults]

OnTurnaroundStarted ==
  /\ aboard.up /\ aboard.ready = Nothing /\ IsArrival /\ aboard.zfw = EmptyZfw
  /\ efb' = NewEfb
  /\ flight' = NewFlight(flight.faults)
  /\ UNCHANGED aboard

ClientEnds ==
  /\ aboard.up /\ flight.faults < MaxFaults
  /\ aboard' = [aboard EXCEPT !.up = FALSE, !.received = {}]
  /\ flight' = [flight EXCEPT !.faults = @ + 1]
  /\ UNCHANGED efb

\* The staged payload is remembered, the plan's fuel told unless it is aboard.
OnTurnaroundResumed ==
  /\ ~aboard.up /\ aboard.ready = Nothing
  /\ efb' = [NewEfb EXCEPT
       !.stagedZfw = efb.stagedZfw,
       !.stagedFuel = IF flight.phase \in {"loading", "flight", "arrival"} /\ ~flight.refuelFinished
                      THEN Planned ELSE None]
  /\ aboard' = [aboard EXCEPT !.up = TRUE]
  /\ UNCHANGED flight

-----------------------------------------------------------------------------
Init ==
  /\ efb = NewEfb
  /\ aboard = [fuel |-> Burnt, zfw |-> EmptyZfw, ready |-> Nothing, received |-> Inputs, up |-> TRUE]
  /\ flight = NewFlight(0)

Next ==
  \/ Act \/ Receives \/ EfbLoads \/ PlanIsCaptured \/ LoadingStarts \/ BoardingStarts
  \/ RefuelFinishes \/ TakesOff \/ Burns \/ TouchesDown \/ DeboardingStarts
  \/ OnTurnaroundStarted \/ ClientEnds \/ OnTurnaroundResumed

Spec == Init /\ [][Next]_efbVars
FairSpec ==
  /\ Spec /\ WF_efbVars(Act) /\ WF_efbVars(Receives) /\ WF_efbVars(EfbLoads)
  /\ WF_efbVars(OnTurnaroundResumed)

-----------------------------------------------------------------------------
TypeOK ==
  /\ {efb.fuel, efb.stagedFuel} \subseteq {None} \cup (Burnt..Planned)
  /\ {efb.zfw, efb.stagedZfw} \subseteq {None} \cup (EmptyZfw..LoadedZfw)
  /\ aboard.ready # Nothing => aboard.ready[2] \in EmptyZfw..LoadedZfw

(***************************************************************************)
(* The EFB is never told to load on arrival the fuel of the departure, nor *)
(* before it to give back what was tanked, nor to load before the aircraft *)
(* has told its weights: not when the payload alone is staged, and not     *)
(* after a relaunch, which forgets what had been committed.                *)
(***************************************************************************)
FuelIsNotDisturbed ==
  [][aboard'.ready # aboard.ready /\ aboard'.ready # Nothing =>
       /\ "emptyWeight" \in aboard.received
       /\ (IsArrival => aboard'.ready[1] <= Landed)
       /\ (~IsArrival => aboard'.ready[1] \in {aboard.fuel, Planned})
       /\ (flight.phase = "flight" => aboard'.ready = <<aboard.fuel, aboard.zfw>>)]_efbVars

(***************************************************************************)
(* What a phase staged comes aboard, over relaunches.                      *)
(***************************************************************************)
StagedComesAboard ==
  /\ []<>(flight.phase = "loading" => aboard.fuel = Planned)
  /\ []<>(flight.phase = "loading" /\ flight.boards => aboard.zfw = LoadedZfw)
  /\ []<>(IsArrival /\ ~flight.boards => aboard.zfw = EmptyZfw)
=============================================================================
