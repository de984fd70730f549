------------------------------ MODULE GsxCounters ------------------------------
(***************************************************************************)
(* The count of the passengers and the percent of the cargo of one service *)
(* (GsxStateService::PassengerCounter and CargoPercentReading).  GSX's     *)
(* variables still hold the end of the flight before until the first one   *)
(* moves, and its count of passengers starts over with every vehicle; the  *)
(* client looks at them whenever it likes, saves what it made of them, and *)
(* may be relaunched in the middle.                                        *)
(***************************************************************************)
EXTENDS Integers

CONSTANTS
  MaxPassengers, \* bound on the passengers of the service
  MaxStale       \* bound on what the flight before left in the variables

VARIABLES
  counter, \* boarding_, and the foundUnderway of the service's track
  cargo,   \* boardingCargo_
  counted,     \* the variables and what has really moved (environment)
  seen     \* what was reported last, what is saved, and what looks missed

counterVars == <<counter, cargo, counted, seen>>

NoCounter ==
  [last |-> 0, total |-> 0, counting |-> FALSE, moved |-> FALSE, grown |-> FALSE]
NoCargo == [first |-> 0, last |-> 0, counting |-> FALSE, moved |-> FALSE]

-----------------------------------------------------------------------------
(***************************************************************************)
(* PassengerCounter::Update and Reported.                                  *)
(***************************************************************************)
BegunCounting(c, current, underway) ==
  [c EXCEPT !.counting = TRUE, !.last = current,
            !.moved = underway, !.grown = underway /\ current > 0]

TotalOfThisVehicle(c) == c.total
TotalOf(c) == IF c.grown THEN c.total + c.last ELSE c.total

CountedOn(c, current) ==
  [c EXCEPT !.moved = TRUE, !.last = current,
            !.total = IF current < c.last THEN TotalOf(c) ELSE @,
            !.grown = IF current < c.last THEN current > 0 ELSE @ \/ current > c.last]

StandsStill(c, current) == ~c.moved /\ current = c.last

Updated(c, current, active, underway) ==
  IF ~c.counting
  THEN IF active THEN BegunCounting(c, current, underway) ELSE c
  ELSE IF StandsStill(c, current) THEN c ELSE CountedOn(c, current)

Passengers(c) == IF c.moved THEN c.total + c.last ELSE 0

(***************************************************************************)
(* CargoPercentReading::Update and Reported.                               *)
(***************************************************************************)
HasMoved(c, current, underway) ==
  IF c.counting THEN c.moved \/ current # c.first ELSE underway

Read(c, current, active, underway) ==
  IF ~c.counting /\ ~active THEN c
  ELSE [c EXCEPT !.counting = TRUE, !.last = current,
                 !.first = IF c.counting THEN @ ELSE current,
                 !.moved = HasMoved(c, current, underway)]

Percent(c) == IF c.moved THEN c.last ELSE 0

-----------------------------------------------------------------------------
(***************************************************************************)
(* GetBoardedPassengers and GetBoardingCargoPercent, as of one look, in    *)
(* the tick that Observe has begun and whose end saves.                    *)
(***************************************************************************)
Look(saved) ==
  LET underway == counter.underway /\ counted.active
      c == Updated(counter.of, counted.count, counted.active, underway)
      p == Read(cargo, counted.percent, counted.active, underway)
  IN  /\ counter' = [of |-> c, underway |-> underway]
      /\ cargo' = p
      /\ counted' = [counted EXCEPT !.looked = TRUE]
      /\ seen' = [passengers |-> Passengers(c), percent |-> Percent(p),
                  disk |-> IF saved THEN [of |-> c, cargo |-> p] ELSE seen.disk,
                  missed |-> seen.missed, relaunches |-> seen.relaunches]

\* RestoreMemory: the first percent is forgotten, the last one stands for it.
RestoredFirst(c) == [c EXCEPT !.first = c.last]
\* A service that is found underway with nothing saved about it has moved both
\* variables; what they still hold of the flight before would be believed.
RelaunchWhileCounting ==
  /\ seen.relaunches = 0
  /\ counted.active /\ ~seen.disk.of.counting => counted.fresh /\ counted.loaded > 0
  /\ counter' = [of |-> seen.disk.of, underway |-> counted.active]
  /\ cargo' = RestoredFirst(seen.disk.cargo)
  /\ seen' = [seen EXCEPT !.relaunches = 1, !.missed = TRUE,
                          !.passengers = Passengers(seen.disk.of),
                          !.percent = Percent(RestoredFirst(seen.disk.cargo))]
  /\ UNCHANGED counted

(***************************************************************************)
(* GSX.  A change it makes after one that nobody looked at hides that one, *)
(* and so does a passenger that leaves the variable at what it was.        *)
(***************************************************************************)
Moves(next) ==
  /\ counted' = [next EXCEPT !.looked = FALSE]
  /\ LET hidden == next.real > counted.real /\ next.count = counted.count
     IN  seen' = [seen EXCEPT !.missed = @ \/ ~counted.looked \/ hidden]
  /\ UNCHANGED <<counter, cargo>>

ServiceStarts ==
  /\ ~counted.active /\ counted.real = 0
  /\ Moves([counted EXCEPT !.active = TRUE])

\* The first passenger of a vehicle starts the count over.
PassengerMoves(newVehicle) ==
  /\ counted.active /\ counted.real < MaxPassengers
  /\ counted.fresh \/ newVehicle
  /\ Moves([counted EXCEPT !.real = @ + 1, !.fresh = TRUE,
                           !.count = IF newVehicle THEN 1 ELSE @ + 1])

VehicleLeaves ==
  /\ counted.active /\ counted.count > 0
  /\ Moves([counted EXCEPT !.count = 0, !.fresh = TRUE])

CargoMoves ==
  /\ counted.active /\ counted.loaded < 2
  /\ Moves([counted EXCEPT !.loaded = @ + 1, !.percent = counted.loaded + 1])

ServiceEnds ==
  /\ counted.active /\ counted.real = MaxPassengers
  /\ Moves([counted EXCEPT !.active = FALSE])

CounterInit ==
  /\ counter = [of |-> NoCounter, underway |-> FALSE] /\ cargo = NoCargo
  /\ counted \in [active : {FALSE}, count : 0 .. MaxStale, real : {0}, fresh : {FALSE},
                  percent : 0 .. 2, loaded : {0}, looked : {TRUE}]
  /\ seen = [passengers |-> 0, percent |-> 0, missed |-> FALSE, relaunches |-> 0,
             disk |-> [of |-> NoCounter, cargo |-> NoCargo]]

CounterNext ==
  \/ \E saved \in BOOLEAN : Look(saved)
  \/ RelaunchWhileCounting
  \/ ServiceStarts
  \/ \E newVehicle \in BOOLEAN : PassengerMoves(newVehicle)
  \/ VehicleLeaves
  \/ CargoMoves
  \/ ServiceEnds

CounterSpec == CounterInit /\ [][CounterNext]_counterVars

-----------------------------------------------------------------------------
(***************************************************************************)
(* The client never reports more passengers or more cargo than have moved: *)
(* what the flight before left in the variables does not count, and a      *)
(* vehicle is not counted twice, over a relaunch too.                      *)
(***************************************************************************)
NeverMoreThanMoved == seen.passengers <= counted.real /\ seen.percent <= counted.loaded

(***************************************************************************)
(* What the client reports of the passengers does not go back.             *)
(***************************************************************************)
PassengersDoNotLeave ==
  [][seen'.passengers >= seen.passengers \/ seen'.relaunches # seen.relaunches]_counterVars

(***************************************************************************)
(* With no change of the variables missed, and the last one looked at, the *)
(* count is the number of passengers that have moved.                      *)
(***************************************************************************)
EveryoneIsCounted ==
  ~seen.missed /\ counted.looked /\ counted.fresh => seen.passengers = counted.real

(***************************************************************************)
(* Both: no more is reported than has moved, and everyone is.              *)
(***************************************************************************)
CountsWhoMoved == NeverMoreThanMoved /\ EveryoneIsCounted
=============================================================================
