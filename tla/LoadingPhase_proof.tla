---------------------------- MODULE LoadingPhase_proof ----------------------------
(***************************************************************************)
(* The loading phases implement TwoTracks, keep their types, move the fuel *)
(* only towards the plan and wait for the loaders: for any plan, aircraft, *)
(* waits, and any number of faults and relaunches.  And what they are told *)
(* of GSX: the counts of GsxCounters, for any number of passengers,        *)
(* vehicles and looks; the copy of GSX's state that GsxRemoteApi keeps,    *)
(* for any fields and values and however often the connection is lost;     *)
(* what GsxServiceTracks takes for completed, for any services; the doors  *)
(* of GsxDoorSync, for any travels; and the pilot's menus that             *)
(* GsxMenuNavigator leaves open, for any requests, menus and settings.     *)
(***************************************************************************)
EXTENDS LoadingPhase, GsxCounters, GsxRemoteApi, GsxServiceTracks, TLAPS

-----------------------------------------------------------------------------
(***************************************************************************)
(* Arithmetic of the fuel.                                                 *)
(***************************************************************************)
LEMMA TowardsIsNatural ==
  ASSUME NEW from \in Nat, NEW to \in Nat, NEW by \in Nat
  PROVE  Towards(from, to, by) \in Nat
BY DEF Towards

LEMMA WrittenIsWithin ==
  ASSUME NEW kg \in Nat, craft.capacity \in Nat
  PROVE  Written(kg) \in 0 .. craft.capacity
BY DEF Written

\* A part of something, in percent.
LEMMA PartInPercent ==
  ASSUME NEW part \in Nat, NEW whole \in Nat \ {0}, part <= whole
  PROVE  (100 * part) \div whole \in 0 .. 100
<1> DEFINE q == (100 * part) \div whole
<1>1. q \in Int /\ whole * q <= 100 * part /\ 100 * part < whole * q + whole
  OBVIOUS
<1> HIDE DEF q
<1>2. 100 * part <= 100 * whole
  OBVIOUS
<1>3. q <= 100
  <2> SUFFICES ASSUME q >= 101
               PROVE  FALSE
    BY <1>1
  <2>1. whole * q >= whole * 101
    BY <1>1
  <2> QED
    BY <1>1, <1>2, <2>1
<1>4. q >= 0
  <2> SUFFICES ASSUME q <= -1
               PROVE  FALSE
    BY <1>1
  <2>1. whole * q <= whole * (-1)
    BY <1>1
  <2> QED
    BY <1>1, <2>1
<1> QED
  BY <1>1, <1>3, <1>4 DEF q

LEMMA ProgressIsPercent ==
  ASSUME NEW initial \in Nat, NEW loaded \in Nat
  PROVE  ProgressPercent(initial, loaded) \in 0 .. 100
<1> DEFINE left == Distance(loaded, Planned)
           all == Distance(initial, Planned)
<1>1. left \in Nat /\ all \in Nat /\ (initial # Planned => all # 0)
  BY LoadingConstants DEF Distance
<1>2. CASE initial = Planned \/ left > all
  BY <1>2 DEF ProgressPercent
<1>3. CASE initial # Planned /\ ~(left > all)
  <2>1. ProgressPercent(initial, loaded) = 100 - (100 * left) \div all
    BY <1>3 DEF ProgressPercent
  <2> HIDE DEF left, all
  <2>2. (100 * left) \div all \in 0 .. 100
    BY <1>1, <1>3, PartInPercent
  <2> QED
    BY <2>1, <2>2
<1> QED
  BY <1>2, <1>3

\* A step towards the plan does not lead away from it, also not when the
\* airframe is full before.
LEMMA StepsLeadTowards ==
  ASSUME NEW from \in Nat, NEW by \in Nat, NEW tank \in Nat,
         craft.capacity \in Nat, tank = Written(from)
  PROVE  Distance(Written(Towards(from, Planned, by)), Planned)
           <= Distance(tank, Planned)
BY LoadingConstants DEF Distance, Written, Towards

-----------------------------------------------------------------------------
(***************************************************************************)
(* The invariant.  FuelFollows is what the promise about the fuel needs:   *)
(* the tanks hold what the client has counted as loaded, where it is the   *)
(* client that loads, and a top-up begins only after GSX has ended.        *)
(***************************************************************************)
Flows == [phase : {"RequestFuel", "Loading", "WaitingReadyToPush"},
          beat : 0 .. RetryTicks, confirmed : BOOLEAN, asked : BOOLEAN,
          notTaken : 0 .. GiveUpTicks, touched : BOOLEAN]

Fuels == [baselined : BOOLEAN, started : BOOLEAN, initial : Nat,
          loaded : Nat, progress : 0 .. 100, topUp : BOOLEAN,
          sample : Nat, stall : 0 .. RefuelStallTicks, finished : BOOLEAN]

Boards == [asked : BOOLEAN, baselined : BOOLEAN, awaits : BOOLEAN,
           awaitTicks : 0 .. GiveUpTicks, flagTicks : 0 .. GiveUpTicks,
           holdTicks : 0 .. HoldGiveUpTicks, stall : 0 .. BoardingStallTicks,
           attempted : BOOLEAN, finished : BOOLEAN]

LoadServices == {"Callable", "Requested", "Active", "Completed"}
Gsxs == [refuel : LoadServices, hose : BOOLEAN, pumped : Nat, need : Nat,
         boarding : LoadServices, bar : {"none", "some", "full", "held"},
         cargo : SUBSET {"flag", "hold", "door"}, api : BOOLEAN]

CraftIs(c) == craft = [c EXCEPT !.tank = craft.tank]

CraftTypes ==
  /\ craft \in [method : {"Gsx", "Self", "Client"}, capacity : Nat \ {0}, tank : Nat]
  /\ \E c \in Crafts : CraftIs(c)
  /\ craft.tank <= craft.capacity

LoadTypes ==
  /\ flow \in Flows
  /\ fuel \in Fuels
  /\ board \in Boards
  /\ CraftTypes
  /\ gsx \in Gsxs
  /\ menu \subseteq Asks
  /\ faults \in 0 .. MaxFaults

FuelFollows ==
  /\ fuel.finished => fuel.baselined
  /\ craft.method = "Client" /\ fuel.baselined => craft.tank = Written(fuel.loaded)
  /\ craft.method = "Client" /\ fuel.finished => fuel.loaded = Planned
  /\ craft.method = "Gsx" /\ fuel.topUp =>
       RefuelDone /\ craft.tank = Written(fuel.loaded)

\* A track that ended was begun.
BoardingBegan == board.finished => board.baselined

LoadInv == LoadTypes /\ FuelFollows /\ BoardingBegan

-----------------------------------------------------------------------------
(***************************************************************************)
(* The steps of the refueling track, each on what the one before returned. *)
(***************************************************************************)
LEMMA CapacityHoldsTheTank ==
  ASSUME CraftTypes
  PROVE  /\ craft.capacity \in Nat \ {0} /\ craft.tank \in Nat
         /\ Written(craft.tank) = craft.tank
BY DEF CraftTypes, Written

LEMMA BaselinedIsTyped ==
  ASSUME LoadTypes
  PROVE  /\ Baselined \in Fuels /\ Baselined.baselined
         /\ Baselined.finished = fuel.finished /\ Baselined.topUp = fuel.topUp
         /\ IF fuel.baselined THEN Baselined.loaded = fuel.loaded
            ELSE Baselined.loaded = craft.tank
<1>1. /\ fuel \in Fuels /\ craft.tank \in Nat /\ gsx.pumped \in Nat
  BY CapacityHoldsTheTank DEF LoadTypes, Gsxs
<1>2. CASE fuel.baselined
  <2>1. Baselined = [fuel EXCEPT !.started = TRUE]
    BY <1>2 DEF Baselined
  <2> QED
    BY <1>1, <1>2, <2>1 DEF Fuels
<1>3. CASE ~fuel.baselined
  <2> DEFINE initial == IF ~flow.asked /\ craft.method # "Client"
                        THEN RebuiltInitialFuel ELSE craft.tank
  <2>1. initial \in Nat
    BY <1>1, LoadingConstants DEF RebuiltInitialFuel
  <2>2. Baselined = [fuel EXCEPT !.baselined = TRUE, !.started = TRUE,
                                 !.loaded = craft.tank, !.initial = initial]
    BY <1>3 DEF Baselined
  <2> HIDE DEF initial
  <2> QED
    BY <1>1, <1>3, <2>1, <2>2 DEF Fuels
<1> QED
  BY <1>2, <1>3

LEMMA AccumulatedIsNatural ==
  ASSUME LoadTypes, NEW f \in Fuels
  PROVE  Accumulated(f) \in Nat
<1>1. /\ f.initial \in Nat /\ f.loaded \in Nat /\ craft.tank \in Nat
      /\ gsx.pumped \in Nat /\ Planned \in Nat /\ 1 \in Nat
      /\ craft.method \in {"Gsx", "Self", "Client"}
  BY LoadingConstants DEF LoadTypes, CraftTypes, Gsxs, Fuels
<1>2. /\ Towards(f.initial, Planned, gsx.pumped) \in Nat
      /\ Towards(f.loaded, Planned, 1) \in Nat
  BY <1>1, TowardsIsNatural
<1> QED
  BY <1>1, <1>2 DEF Accumulated

\* What only the progress and the watch change.
SameButTheWatch(f, g) ==
  /\ g \in Fuels /\ g.baselined = f.baselined /\ g.finished = f.finished
  /\ g.topUp = f.topUp /\ g.initial = f.initial

LEMMA ProgressedIsTyped ==
  ASSUME LoadTypes, NEW f \in Fuels
  PROVE  /\ SameButTheWatch(f, Progressed(f))
         /\ Progressed(f).loaded = IF Loads(f) THEN Accumulated(f) ELSE f.loaded
<1> DEFINE loaded == IF Loads(f) THEN Accumulated(f) ELSE f.loaded
           progress == ProgressPercent(f.initial, loaded)
<1>1. loaded \in Nat /\ f.initial \in Nat
  BY AccumulatedIsNatural DEF Fuels
<1>2. Progressed(f) = [f EXCEPT !.loaded = loaded, !.progress = progress]
  BY DEF Progressed
<1> HIDE DEF loaded
<1>3. progress \in 0 .. 100
  BY <1>1, ProgressIsPercent
<1> HIDE DEF progress
<1>4. /\ Progressed(f) \in Fuels /\ Progressed(f).baselined = f.baselined
      /\ Progressed(f).finished = f.finished /\ Progressed(f).topUp = f.topUp
      /\ Progressed(f).initial = f.initial /\ Progressed(f).loaded = loaded
  BY <1>1, <1>2, <1>3 DEF Fuels
<1> QED
  BY <1>4 DEF SameButTheWatch, loaded

LEMMA WatchedIsTyped ==
  ASSUME NEW f \in Fuels
  PROVE  SameButTheWatch(f, Watched(f)) /\ Watched(f).loaded = f.loaded
<1>1. 0 \in 0 .. RefuelStallTicks /\ f.loaded \in Nat
  BY LoadingConstants DEF Fuels
<1>2. CASE ~WatchesForAStall(f)
  BY <1>2 DEF Watched, SameButTheWatch
<1>3. CASE WatchesForAStall(f) /\ f.loaded # f.sample
  <2>1. Watched(f) = [f EXCEPT !.sample = f.loaded, !.stall = 0]
    BY <1>3 DEF Watched
  <2> QED
    BY <1>1, <2>1 DEF Fuels, SameButTheWatch
<1>4. CASE WatchesForAStall(f) /\ f.loaded = f.sample
  <2> DEFINE stall == IF IsForced(f) THEN 0 ELSE f.stall + 1
  <2>1. Watched(f) = [f EXCEPT !.stall = stall]
    BY <1>4 DEF Watched
  <2>2. stall \in 0 .. RefuelStallTicks
    BY <1>1, <1>4, LoadingConstants DEF IsForced, Fuels
  <2> HIDE DEF stall
  <2> QED
    BY <2>1, <2>2 DEF Fuels, SameButTheWatch
<1> QED
  BY <1>2, <1>3, <1>4

LEMMA ToppedUpIsTyped ==
  ASSUME LoadTypes, NEW f \in Fuels
  PROVE  /\ ToppedUp(f) \in Fuels /\ ToppedUp(f).topUp
         /\ ToppedUp(f).baselined = f.baselined /\ ToppedUp(f).finished = f.finished
         /\ ToppedUp(f).loaded = IF f.topUp THEN f.loaded ELSE craft.tank
<1>1. craft.tank \in Nat
  BY CapacityHoldsTheTank DEF LoadTypes
<1>2. CASE f.topUp
  BY <1>2 DEF ToppedUp
<1>3. CASE ~f.topUp
  <2>1. ToppedUp(f) = [f EXCEPT !.topUp = TRUE, !.loaded = craft.tank]
    BY <1>3 DEF ToppedUp
  <2> QED
    BY <1>1, <1>3, <2>1 DEF Fuels
<1> QED
  BY <1>2, <1>3

LEMMA SteppedIsTyped ==
  ASSUME LoadTypes, NEW f \in Fuels
  PROVE  LET g == StepTowardsThePlan(f)
         IN  /\ g \in Fuels /\ g.topUp /\ g.baselined = f.baselined
             /\ g.finished = f.finished
             /\ g.loaded = Towards(IF f.topUp THEN f.loaded ELSE craft.tank, Planned, 1)
<1> DEFINE up == ToppedUp(f)
           loaded == Towards(up.loaded, Planned, 1)
           progress == ProgressPercent(f.initial, loaded)
<1>1. /\ up \in Fuels /\ up.topUp /\ up.baselined = f.baselined
      /\ up.finished = f.finished
      /\ up.loaded = IF f.topUp THEN f.loaded ELSE craft.tank
  BY ToppedUpIsTyped
<1>2. StepTowardsThePlan(f) = [up EXCEPT !.loaded = loaded, !.progress = progress]
  BY DEF StepTowardsThePlan
<1> HIDE DEF up
<1>3. up.loaded \in Nat /\ f.initial \in Nat /\ Planned \in Nat /\ 1 \in Nat
  BY <1>1, LoadingConstants DEF Fuels
<1>4. loaded \in Nat
  BY <1>3, TowardsIsNatural
<1>5. loaded = Towards(IF f.topUp THEN f.loaded ELSE craft.tank, Planned, 1)
  BY <1>1
<1> HIDE DEF loaded
<1>6. progress \in 0 .. 100
  BY <1>3, <1>4, ProgressIsPercent
<1> HIDE DEF progress
<1> QED
  BY <1>1, <1>2, <1>4, <1>5, <1>6 DEF Fuels

LEMMA SettledIsTyped ==
  ASSUME LoadTypes, NEW f \in Fuels
  PROVE  /\ Settled(f) \in Fuels
         /\ Settled(f).finished = RefuelDone
         /\ Settled(f).baselined = f.baselined /\ Settled(f).topUp = f.topUp
         /\ Settled(f).loaded = IF craft.method = "Gsx" THEN craft.tank ELSE Planned
<1> DEFINE loaded == IF craft.method = "Gsx" THEN craft.tank ELSE Planned
           done == RefuelDone
<1>1. loaded \in Nat /\ done \in BOOLEAN /\ 100 \in 0 .. 100
  BY CapacityHoldsTheTank, LoadingConstants DEF LoadTypes, RefuelDone
<1>2. Settled(f) = [f EXCEPT !.loaded = loaded, !.progress = 100, !.finished = done]
  BY DEF Settled
<1> HIDE DEF loaded, done
<1>3. /\ Settled(f) \in Fuels /\ Settled(f).finished = done
      /\ Settled(f).baselined = f.baselined /\ Settled(f).topUp = f.topUp
      /\ Settled(f).loaded = loaded
  BY <1>1, <1>2 DEF Fuels
<1> QED
  BY <1>3 DEF loaded, done

\* A write to the tanks leaves the rest of the aircraft as it is.
LEMMA TankIsWritten ==
  ASSUME CraftTypes, NEW tank \in 0 .. craft.capacity,
         craft' = [craft EXCEPT !.tank = tank]
  PROVE  /\ CraftTypes' /\ craft'.tank = tank
         /\ craft'.method = craft.method /\ craft'.capacity = craft.capacity
<1>1. /\ craft' \in [method : {"Gsx", "Self", "Client"}, capacity : Nat \ {0}, tank : Nat]
      /\ craft'.tank = tank /\ craft'.method = craft.method
      /\ craft'.capacity = craft.capacity
  BY DEF CraftTypes
<1>2. PICK c \in Crafts : CraftIs(c)
  BY DEF CraftTypes
<1>3. c \in [method : {"Gsx", "Self", "Client"}, capacity : Nat \ {0}, tank : Nat]
  BY LoadingConstants
<1>4. craft' = [c EXCEPT !.tank = tank]
  BY <1>2, <1>3 DEF CraftIs
<1>5. craft' = [c EXCEPT !.tank = craft'.tank]
  BY <1>1, <1>4
<1> QED
  BY <1>1, <1>5 DEF CraftTypes, CraftIs

\* What the refueling track has as this tick's fields before it settles.
Seen == Progressed(Baselined)

LEMMA SeenIsTyped ==
  ASSUME LoadInv
  PROVE  /\ Seen \in Fuels /\ Seen.baselined
         /\ Seen.finished = fuel.finished /\ Seen.topUp = fuel.topUp
         /\ craft.method = "Client" =>
              /\ craft.tank = Written(Baselined.loaded)
              /\ Seen.loaded = IF Loads(Baselined)
                               THEN Towards(Baselined.loaded, Planned, 1)
                               ELSE Baselined.loaded
         /\ craft.method = "Gsx" /\ fuel.topUp =>
              RefuelDone /\ craft.tank = Written(Seen.loaded)
<1>1. /\ LoadTypes /\ Baselined \in Fuels /\ Baselined.baselined
      /\ Baselined.finished = fuel.finished /\ Baselined.topUp = fuel.topUp
      /\ IF fuel.baselined THEN Baselined.loaded = fuel.loaded
         ELSE Baselined.loaded = craft.tank
  BY BaselinedIsTyped DEF LoadInv
<1>2. /\ SameButTheWatch(Baselined, Seen)
      /\ Seen.loaded = IF Loads(Baselined) THEN Accumulated(Baselined) ELSE Baselined.loaded
  BY <1>1, ProgressedIsTyped DEF Seen
<1>3. craft.method = "Client" =>
        /\ craft.tank = Written(Baselined.loaded)
        /\ Accumulated(Baselined) = Towards(Baselined.loaded, Planned, 1)
  BY <1>1, CapacityHoldsTheTank DEF LoadInv, LoadTypes, FuelFollows, Accumulated
<1>4. craft.method = "Gsx" /\ fuel.topUp =>
        RefuelDone /\ craft.tank = Written(Baselined.loaded)
  BY <1>1, CapacityHoldsTheTank DEF LoadInv, LoadTypes, FuelFollows
<1>5. fuel.topUp => ~Loads(Baselined)
  BY <1>1 DEF Loads
<1> QED
  BY <1>1, <1>2, <1>3, <1>4, <1>5 DEF SameButTheWatch

\* The three ends of the refueling track.
LEMMA RefuelingGoesOn ==
  ASSUME LoadInv, gsx' = gsx, ~fuel.finished,
         fuel' = Watched(Seen),
         craft' = IF craft.method = "Client" /\ Loads(Baselined)
                  THEN [craft EXCEPT !.tank = Written(Seen.loaded)] ELSE craft
  PROVE  /\ fuel' \in Fuels /\ fuel'.baselined /\ CraftTypes' /\ FuelFollows'
         /\ craft'.method = craft.method
         /\ Distance(craft'.tank, Planned) <= Distance(craft.tank, Planned)
<1>1. /\ Seen \in Fuels /\ Seen.baselined /\ ~Seen.finished
      /\ Seen.topUp = fuel.topUp
      /\ craft.method = "Client" =>
           /\ craft.tank = Written(Baselined.loaded)
           /\ Seen.loaded = IF Loads(Baselined)
                            THEN Towards(Baselined.loaded, Planned, 1)
                            ELSE Baselined.loaded
      /\ craft.method = "Gsx" /\ fuel.topUp =>
           RefuelDone /\ craft.tank = Written(Seen.loaded)
  BY SeenIsTyped
<1>2. /\ fuel' \in Fuels /\ fuel'.baselined /\ ~fuel'.finished
      /\ fuel'.topUp = fuel.topUp /\ fuel'.loaded = Seen.loaded
  BY <1>1, WatchedIsTyped DEF SameButTheWatch
<1>3. /\ CraftTypes /\ craft.capacity \in Nat \ {0} /\ craft.tank \in Nat
      /\ Baselined.loaded \in Nat /\ Seen.loaded \in Nat
  BY <1>1, BaselinedIsTyped, CapacityHoldsTheTank DEF LoadInv, LoadTypes, Fuels
<1>4. CASE craft.method = "Client" /\ Loads(Baselined)
  <2> DEFINE tank == Written(Seen.loaded)
  <2>1. tank \in 0 .. craft.capacity
    BY <1>3, WrittenIsWithin
  <2>2. craft' = [craft EXCEPT !.tank = tank]
    BY <1>4
  <2>3. /\ CraftTypes' /\ craft'.tank = tank
        /\ craft'.method = craft.method /\ craft'.capacity = craft.capacity
    BY <1>3, <2>1, <2>2, TankIsWritten
  <2>4. Distance(tank, Planned) <= Distance(craft.tank, Planned)
    BY <1>1, <1>3, <1>4, StepsLeadTowards
  <2>5. FuelFollows'
    BY <1>2, <1>4, <2>3 DEF FuelFollows, Written
  <2> HIDE DEF tank
  <2> QED
    BY <1>2, <2>3, <2>4, <2>5
<1>5. CASE ~(craft.method = "Client" /\ Loads(Baselined))
  <2>1. craft' = craft
    BY <1>5
  <2>2. CraftTypes'
    BY <1>3, <2>1 DEF CraftTypes, CraftIs
  <2>3. FuelFollows'
    BY <1>1, <1>2, <1>5, <2>1 DEF FuelFollows, Written, RefuelDone
  <2>4. Distance(craft'.tank, Planned) <= Distance(craft.tank, Planned)
    <3> DEFINE tank == craft.tank
    <3>1. Distance(tank, Planned) \in Nat
      BY <1>3, LoadingConstants DEF Distance
    <3>2. craft'.tank = tank
      BY <2>1
    <3> QED
      BY <3>1, <3>2
  <2> QED
    BY <1>2, <2>1, <2>2, <2>3, <2>4
<1> QED
  BY <1>4, <1>5

LEMMA RefuelingTopsUp ==
  ASSUME LoadInv, gsx' = gsx, ~fuel.finished, RefuelDone,
         craft.method = "Gsx",
         fuel' = StepTowardsThePlan(Watched(Seen)),
         craft' = [craft EXCEPT !.tank = Written(fuel'.loaded)]
  PROVE  /\ fuel' \in Fuels /\ fuel'.baselined /\ CraftTypes' /\ FuelFollows'
         /\ craft'.method = craft.method
         /\ Distance(craft'.tank, Planned) <= Distance(craft.tank, Planned)
<1> DEFINE watched == Watched(Seen)
           base == IF watched.topUp THEN watched.loaded ELSE craft.tank
<1>1. /\ Seen \in Fuels /\ Seen.baselined /\ ~Seen.finished
      /\ Seen.topUp = fuel.topUp
      /\ fuel.topUp => craft.tank = Written(Seen.loaded)
  BY SeenIsTyped
<1>2. /\ watched \in Fuels /\ watched.baselined /\ ~watched.finished
      /\ watched.topUp = fuel.topUp /\ watched.loaded = Seen.loaded
  BY <1>1, WatchedIsTyped DEF SameButTheWatch
<1>3. LoadTypes /\ CraftTypes /\ craft.capacity \in Nat /\ craft.tank \in Nat
      /\ Written(craft.tank) = craft.tank
  BY CapacityHoldsTheTank DEF LoadInv, LoadTypes
<1>4. base \in Nat /\ craft.tank = Written(base)
  BY <1>1, <1>2, <1>3 DEF Fuels
<1> HIDE DEF watched
<1>5. /\ fuel' \in Fuels /\ fuel'.topUp /\ fuel'.baselined /\ ~fuel'.finished
      /\ fuel'.loaded = Towards(base, Planned, 1)
  BY <1>2, <1>3, SteppedIsTyped DEF watched
<1> HIDE DEF base
<1>6. fuel'.loaded \in Nat
  BY <1>5 DEF Fuels
<1> DEFINE tank == Written(fuel'.loaded)
<1>7. tank \in 0 .. craft.capacity
  BY <1>3, <1>6, WrittenIsWithin
<1>8. craft' = [craft EXCEPT !.tank = tank]
  OBVIOUS
<1>9. /\ CraftTypes' /\ craft'.tank = tank
      /\ craft'.method = craft.method /\ craft'.capacity = craft.capacity
  BY <1>3, <1>7, <1>8, TankIsWritten
<1>10. Distance(tank, Planned) <= Distance(craft.tank, Planned)
  BY <1>3, <1>4, <1>5, StepsLeadTowards
<1>11. FuelFollows'
  BY <1>5, <1>9 DEF FuelFollows, Written, RefuelDone
<1> QED
  BY <1>5, <1>9, <1>10, <1>11

LEMMA RefuelingSettles ==
  ASSUME LoadInv, gsx' = gsx, ~fuel.finished,
         fuel' = Settled(Watched(Seen)),
         craft' = IF craft.method = "Client"
                  THEN [craft EXCEPT !.tank = Written(Planned)] ELSE craft
  PROVE  /\ fuel' \in Fuels /\ fuel'.baselined /\ CraftTypes' /\ FuelFollows'
         /\ craft'.method = craft.method
         /\ Distance(craft'.tank, Planned) <= Distance(craft.tank, Planned)
<1> DEFINE watched == Watched(Seen)
<1>1. /\ Seen \in Fuels /\ Seen.baselined /\ Seen.topUp = fuel.topUp
      /\ craft.method = "Gsx" /\ fuel.topUp => RefuelDone
  BY SeenIsTyped
<1>2. watched \in Fuels /\ watched.baselined /\ watched.topUp = fuel.topUp
  BY <1>1, WatchedIsTyped DEF SameButTheWatch
<1>3. /\ LoadTypes /\ CraftTypes /\ craft.capacity \in Nat /\ craft.tank \in Nat
      /\ Written(craft.tank) = craft.tank /\ Planned \in Nat
      /\ craft.tank <= craft.capacity
  BY CapacityHoldsTheTank, LoadingConstants DEF LoadInv, LoadTypes, CraftTypes
<1> HIDE DEF watched
<1>4. /\ fuel' \in Fuels /\ fuel'.baselined /\ fuel'.finished = RefuelDone
      /\ fuel'.topUp = fuel.topUp
      /\ fuel'.loaded = IF craft.method = "Gsx" THEN craft.tank ELSE Planned
  BY <1>2, <1>3, SettledIsTyped DEF watched
<1>5. CASE craft.method = "Client"
  <2> DEFINE tank == Written(Planned)
  <2>1. tank \in 0 .. craft.capacity
    BY <1>3, WrittenIsWithin
  <2>2. craft' = [craft EXCEPT !.tank = tank]
    BY <1>5
  <2>3. /\ CraftTypes' /\ craft'.tank = tank
        /\ craft'.method = craft.method /\ craft'.capacity = craft.capacity
    BY <1>3, <2>1, <2>2, TankIsWritten
  <2>4. Distance(tank, Planned) <= Distance(craft.tank, Planned)
    BY <1>3 DEF Distance, Written
  <2>5. FuelFollows'
    BY <1>4, <1>5, <2>3 DEF FuelFollows, Written
  <2> HIDE DEF tank
  <2> QED
    BY <1>4, <2>3, <2>4, <2>5
<1>6. CASE craft.method # "Client"
  <2>1. craft' = craft
    BY <1>6
  <2>2. CraftTypes'
    BY <1>3, <2>1 DEF CraftTypes, CraftIs
  <2>3. FuelFollows'
    BY <1>1, <1>3, <1>4, <1>6, <2>1 DEF FuelFollows, Written, RefuelDone
  <2>4. Distance(craft'.tank, Planned) <= Distance(craft.tank, Planned)
    <3> DEFINE tank == craft.tank
    <3>1. Distance(tank, Planned) \in Nat
      BY <1>3 DEF Distance
    <3>2. craft'.tank = tank
      BY <2>1
    <3> QED
      BY <3>1, <3>2
  <2> QED
    BY <1>4, <2>1, <2>2, <2>3, <2>4
<1> QED
  BY <1>5, <1>6

LEMMA RefuelingTrackKeeps ==
  ASSUME LoadInv, RefuelingTrack, gsx' = gsx
  PROVE  /\ fuel' \in Fuels /\ CraftTypes' /\ FuelFollows'
         /\ fuel.finished => fuel'.finished
         /\ fuel.baselined => fuel'.baselined
         /\ Distance(craft'.tank, Planned) <= Distance(craft.tank, Planned)
<1>1. CASE fuel.finished \/ ~IsGsxRefuelReady
  <2>1. fuel' = fuel /\ craft' = craft
    BY <1>1 DEF RefuelingTrack
  <2>2. Distance(craft.tank, Planned) \in Nat
    BY CapacityHoldsTheTank, LoadingConstants DEF LoadInv, LoadTypes, Distance
  <2> QED
    BY <2>1, <2>2 DEF LoadInv, LoadTypes, CraftTypes, CraftIs, FuelFollows, Written,
       RefuelDone
<1>2. CASE ~fuel.finished /\ IsGsxRefuelReady
  <2>1. CASE ~IsWeightDone(Seen) \/ gsx.hose
    <3>1. /\ fuel' = Watched(Seen)
          /\ craft' = IF craft.method = "Client" /\ Loads(Baselined)
                      THEN [craft EXCEPT !.tank = Written(Seen.loaded)] ELSE craft
      BY <1>2, <2>1 DEF RefuelingTrack, Seen
    <3> QED
      BY <1>2, <3>1, RefuelingGoesOn
  <2>2. CASE IsWeightDone(Seen) /\ ~gsx.hose /\ TopsUp(Watched(Seen))
    <3>1. /\ fuel' = StepTowardsThePlan(Watched(Seen))
          /\ craft' = [craft EXCEPT !.tank = Written(fuel'.loaded)]
      BY <1>2, <2>2 DEF RefuelingTrack, Seen
    <3>2. craft.method = "Gsx" /\ RefuelDone
      BY <2>2 DEF TopsUp, IsWeightDone
    <3> QED
      BY <1>2, <3>1, <3>2, RefuelingTopsUp
  <2>3. CASE IsWeightDone(Seen) /\ ~gsx.hose /\ ~TopsUp(Watched(Seen))
    <3>1. /\ fuel' = Settled(Watched(Seen))
          /\ craft' = IF craft.method = "Client"
                      THEN [craft EXCEPT !.tank = Written(Planned)] ELSE craft
      BY <1>2, <2>3 DEF RefuelingTrack, Seen
    <3> QED
      BY <1>2, <3>1, RefuelingSettles
  <2> QED
    BY <2>1, <2>2, <2>3
<1> QED
  BY <1>1, <1>2

-----------------------------------------------------------------------------
(***************************************************************************)
(* The steps of the boarding track.                                        *)
(***************************************************************************)
LEMMA UpToIsBounded ==
  ASSUME NEW bound \in Nat \ {0}, NEW count \in 0 .. bound
  PROVE  UpTo(bound, count) \in 0 .. bound
BY DEF UpTo

\* Everybody at work is counted, for as long as the waits allow.
LEMMA CountedIsTyped ==
  ASSUME LoadTypes
  PROVE  /\ Counted \in Boards /\ Counted.baselined
         /\ Counted.finished = board.finished /\ Counted.asked = board.asked
         /\ "door" \in gsx.cargo => Counted.awaits
<1> DEFINE door == "door" \in gsx.cargo
           awaitTicks == IF ~door THEN 0
                         ELSE UpTo(GiveUpTicks, IF board.awaits THEN board.awaitTicks ELSE 0)
           flagTicks == IF BoardingDone /\ "flag" \in gsx.cargo /\ "hold" \notin gsx.cargo
                        THEN UpTo(GiveUpTicks, board.flagTicks) ELSE 0
           holdTicks == IF BoardingDone /\ "hold" \in gsx.cargo
                        THEN UpTo(HoldGiveUpTicks, board.holdTicks) ELSE 0
<1>1. /\ GiveUpTicks \in Nat \ {0} /\ HoldGiveUpTicks \in Nat \ {0}
      /\ board \in Boards
      /\ board.awaitTicks \in 0 .. GiveUpTicks /\ 0 \in 0 .. GiveUpTicks
      /\ board.flagTicks \in 0 .. GiveUpTicks
      /\ board.holdTicks \in 0 .. HoldGiveUpTicks /\ 0 \in 0 .. HoldGiveUpTicks
  BY LoadingConstants DEF LoadTypes, Boards
<1>2. /\ awaitTicks \in 0 .. GiveUpTicks /\ flagTicks \in 0 .. GiveUpTicks
      /\ holdTicks \in 0 .. HoldGiveUpTicks
  <2>1. UpTo(GiveUpTicks, IF board.awaits THEN board.awaitTicks ELSE 0) \in 0 .. GiveUpTicks
    <3> DEFINE count == IF board.awaits THEN board.awaitTicks ELSE 0
    <3>1. count \in 0 .. GiveUpTicks
      BY <1>1
    <3> HIDE DEF count
    <3> QED
      BY <1>1, <3>1, UpToIsBounded
  <2>2. UpTo(GiveUpTicks, board.flagTicks) \in 0 .. GiveUpTicks
    BY <1>1, UpToIsBounded
  <2>3. UpTo(HoldGiveUpTicks, board.holdTicks) \in 0 .. HoldGiveUpTicks
    BY <1>1, UpToIsBounded
  <2> QED
    BY <1>1, <2>1, <2>2, <2>3
<1>3. door \in BOOLEAN
  OBVIOUS
<1>4. Counted = [board EXCEPT !.baselined = TRUE, !.awaits = door,
                   !.awaitTicks = awaitTicks, !.flagTicks = flagTicks,
                   !.holdTicks = holdTicks]
  <2> DEFINE counts == [board EXCEPT !.baselined = TRUE]
  <2>1. /\ counts \in Boards /\ counts.awaitTicks = board.awaitTicks
        /\ counts.flagTicks = board.flagTicks /\ counts.holdTicks = board.holdTicks
    BY <1>1 DEF Boards
  <2>2. Counted = [counts EXCEPT !.awaits = door, !.awaitTicks = awaitTicks,
                     !.flagTicks = flagTicks, !.holdTicks = holdTicks]
    BY <1>1, <2>1 DEF Counted, Boards
  <2> HIDE DEF door, awaitTicks, flagTicks, holdTicks
  <2> QED
    BY <1>1, <2>2 DEF Boards
<1> HIDE DEF door, awaitTicks, flagTicks, holdTicks
<1>5. /\ Counted \in Boards /\ Counted.baselined /\ Counted.awaits = door
      /\ Counted.finished = board.finished /\ Counted.asked = board.asked
  BY <1>1, <1>2, <1>3, <1>4 DEF Boards
<1> QED
  BY <1>5 DEF door

\* What the forcing of a full boarding leaves alone.
SameLoaders(b, c) ==
  /\ c \in Boards /\ c.baselined = b.baselined /\ c.finished = b.finished
  /\ c.holdTicks = b.holdTicks /\ c.flagTicks = b.flagTicks
  /\ c.awaitTicks = b.awaitTicks

LEMMA ForcedOnceIsTyped ==
  ASSUME NEW b \in Boards
  PROVE  SameLoaders(b, ForcedOnce(b))
<1>1. 0 \in 0 .. BoardingStallTicks /\ b.stall \in 0 .. BoardingStallTicks
  BY LoadingConstants DEF Boards
<1>2. CASE ~SomethingToForce(b)
  <2>1. ForcedOnce(b) = [b EXCEPT !.stall = 0, !.attempted = FALSE]
    BY <1>2 DEF ForcedOnce
  <2> QED
    BY <1>1, <2>1 DEF SameLoaders, Boards
<1>3. CASE SomethingToForce(b) /\ b.stall + 1 >= StallTicks(b)
  <2>1. ForcedOnce(b) = [b EXCEPT !.stall = 0, !.attempted = TRUE]
    BY <1>3 DEF ForcedOnce
  <2> QED
    BY <1>1, <2>1 DEF SameLoaders, Boards
<1>4. CASE SomethingToForce(b) /\ ~(b.stall + 1 >= StallTicks(b))
  <2> DEFINE stall == b.stall + 1
  <2>1. ForcedOnce(b) = [b EXCEPT !.stall = stall]
    BY <1>4 DEF ForcedOnce
  <2>2. StallTicks(b) \in Nat /\ StallTicks(b) <= BoardingStallTicks
    BY LoadingConstants DEF StallTicks
  <2>3. stall \in 0 .. BoardingStallTicks
    BY <1>1, <1>4, <2>2, LoadingConstants
  <2> HIDE DEF stall
  <2> QED
    BY <2>1, <2>3 DEF SameLoaders, Boards
<1> QED
  BY <1>2, <1>3, <1>4

\* Nobody at work is left behind: who is there has been waited for in full.
WaitedFor(b) ==
  /\ "hold" \in gsx.cargo => b.holdTicks = HoldGiveUpTicks
  /\ "flag" \in gsx.cargo => b.flagTicks = GiveUpTicks
  /\ "door" \in gsx.cargo => b.awaitTicks = GiveUpTicks

LEMMA NothingPendingIsWaitedFor ==
  ASSUME LoadTypes, ~IsCargoPending(Counted)
  PROVE  WaitedFor(Counted)
<1>1. /\ Counted \in Boards /\ ("door" \in gsx.cargo => Counted.awaits)
  BY CountedIsTyped
<1> QED
  BY <1>1, LoadingConstants
  DEF IsCargoPending, HasGivenUpOnTheLoader, WaitedFor, Boards

LEMMA BoardingAdvancedIsTyped ==
  ASSUME LoadTypes
  PROVE  /\ BoardingAdvanced \in Boards
         /\ board.finished => BoardingAdvanced.finished
         /\ board.baselined => BoardingAdvanced.baselined
         /\ BoardingAdvanced.finished /\ ~board.finished =>
              BoardingAdvanced.baselined /\ WaitedFor(BoardingAdvanced)
         /\ ForcesTheBoarding => WaitedFor(BoardingAdvanced)
<1>1. /\ board \in Boards /\ Counted \in Boards /\ Counted.baselined
      /\ Counted.finished = board.finished
  BY CountedIsTyped DEF LoadTypes
<1>2. CASE ~BoardingRuns
  BY <1>1, <1>2 DEF BoardingAdvanced, ForcesTheBoarding
<1>3. CASE BoardingRuns /\ BoardingDone /\ ~IsCargoPending(Counted)
  <2>1. BoardingAdvanced = [Counted EXCEPT !.finished = TRUE]
    BY <1>3 DEF BoardingAdvanced
  <2>2. /\ BoardingAdvanced \in Boards /\ BoardingAdvanced.finished
        /\ BoardingAdvanced.baselined = Counted.baselined
        /\ BoardingAdvanced.holdTicks = Counted.holdTicks
        /\ BoardingAdvanced.flagTicks = Counted.flagTicks
        /\ BoardingAdvanced.awaitTicks = Counted.awaitTicks
    BY <1>1, <2>1 DEF Boards
  <2>3. WaitedFor(BoardingAdvanced)
    BY <1>3, <2>2, NothingPendingIsWaitedFor DEF WaitedFor
  <2> QED
    BY <1>1, <2>2, <2>3
<1>4. CASE BoardingRuns /\ ~(BoardingDone /\ ~IsCargoPending(Counted))
  <2>1. BoardingAdvanced = ForcedOnce(Counted)
    BY <1>4 DEF BoardingAdvanced
  <2>2. SameLoaders(Counted, BoardingAdvanced)
    BY <1>1, <2>1, ForcedOnceIsTyped
  <2>3. ForcesTheBoarding => WaitedFor(BoardingAdvanced)
    <3>1. ForcesTheBoarding => ~IsCargoPending(Counted)
      BY DEF ForcesTheBoarding, CompletesBoarding, SomethingToForce
    <3> QED
      BY <2>2, <3>1, NothingPendingIsWaitedFor DEF SameLoaders, WaitedFor
  <2>4. ~board.finished
    BY <1>4 DEF BoardingRuns
  <2> QED
    BY <1>1, <2>2, <2>3, <2>4 DEF SameLoaders
<1> QED
  BY <1>2, <1>3, <1>4

-----------------------------------------------------------------------------
(***************************************************************************)
(* What every step keeps, and the promises about a step.                   *)
(***************************************************************************)
TracksGoOn ==
  /\ fuel.finished => fuel'.finished
  /\ fuel.baselined => fuel'.baselined
  /\ board.finished => board'.finished
  /\ board.baselined => board'.baselined
  /\ ~Loading' => fuel'.finished /\ board'.finished

FuelComesNearer ==
  craft.method # "Self" =>
    Distance(craft'.tank, Planned) <= Distance(craft.tank, Planned)

LoadersWereWaitedFor ==
  \/ board'.finished /\ ~board.finished
  \/ "CompleteBoarding" \in menu' \ menu
  => /\ "hold" \in gsx.cargo => board'.holdTicks = HoldGiveUpTicks
     /\ "flag" \in gsx.cargo => board'.flagTicks = GiveUpTicks
     /\ "door" \in gsx.cargo => board'.awaitTicks = GiveUpTicks

StepIsRight == LoadInv' /\ TracksGoOn /\ FuelComesNearer /\ LoadersWereWaitedFor

\* The aircraft that nothing touches is where it was.
LEMMA CraftRests ==
  ASSUME LoadInv, craft' = craft
  PROVE  CraftTypes' /\ FuelComesNearer
<1>1. craft.tank \in Nat
  BY CapacityHoldsTheTank DEF LoadInv, LoadTypes
<1> DEFINE tank == craft.tank
<1>2. Distance(tank, Planned) \in Nat
  BY <1>1, LoadingConstants DEF Distance
<1>3. craft'.tank = tank
  OBVIOUS
<1>4. FuelComesNearer
  <2> HIDE DEF tank
  <2>1. Distance(craft'.tank, Planned) = Distance(tank, Planned)
    BY <1>3
  <2> QED
    BY <1>2, <2>1 DEF FuelComesNearer, tank
<1> QED
  BY <1>4 DEF LoadInv, LoadTypes, CraftTypes, CraftIs

\* The fields of the flow.
LEMMA FlowFields ==
  ASSUME flow \in Flows
  PROVE  /\ NextBeat \in 0 .. RetryTicks /\ LoadingAllowed \in BOOLEAN
         /\ \A asked \in BOOLEAN : NotTaken(asked) \in 0 .. GiveUpTicks
<1>1. /\ flow.beat \in 0 .. RetryTicks /\ flow.notTaken \in 0 .. GiveUpTicks
      /\ RetryTicks \in Nat \ {0} /\ GiveUpTicks \in Nat \ {0}
      /\ flow.confirmed \in BOOLEAN /\ flow.touched \in BOOLEAN
  BY LoadingConstants DEF Flows
<1>2. NextBeat \in 0 .. RetryTicks
  BY <1>1 DEF NextBeat
<1>3. LoadingAllowed \in BOOLEAN
  BY DEF LoadingAllowed
<1>4. \A asked \in BOOLEAN : NotTaken(asked) \in 0 .. GiveUpTicks
  BY <1>1 DEF NotTaken
<1> QED
  BY <1>2, <1>3, <1>4

LEMMA LeavingIsTyped ==
  ASSUME flow \in Flows, NEW phase \in {"Loading", "WaitingReadyToPush"}, Leave(phase)
  PROVE  flow' \in Flows /\ flow'.phase = phase
<1> DEFINE allowed == LoadingAllowed
<1>1. allowed \in BOOLEAN /\ 0 \in 0 .. RetryTicks
  BY FlowFields, LoadingConstants
<1>2. flow' = [flow EXCEPT !.phase = phase, !.beat = 0, !.touched = FALSE,
                           !.confirmed = allowed]
  BY DEF Leave
<1> HIDE DEF allowed
<1> QED
  BY <1>1, <1>2 DEF Flows

-----------------------------------------------------------------------------
(***************************************************************************)
(* The client's steps.                                                     *)
(***************************************************************************)
LEMMA RequestFuelTickIsRight ==
  ASSUME LoadInv, RequestFuelTick
  PROVE  StepIsRight
<1>1. /\ flow \in Flows /\ flow.phase = "RequestFuel" /\ menu \subseteq Asks
      /\ fuel' = fuel /\ board' = board /\ craft' = craft /\ gsx' = gsx
      /\ faults' = faults
  BY DEF LoadInv, LoadTypes, RequestFuelTick
<1>2. menu' \subseteq Asks /\ "CompleteBoarding" \notin menu' \ menu
  BY <1>1 DEF RequestFuelTick, Asks
<1>3. flow' \in Flows /\ flow'.phase # "WaitingReadyToPush"
  <2>1. CASE Leave("Loading")
    BY <1>1, <2>1, LeavingIsTyped
  <2>2. CASE ~Leave("Loading")
    <3> DEFINE allowed == LoadingAllowed
               still == (flow.asked \/ AsksForFuel) /\ ~ForgetTheAsk
               notTaken == NotTaken(still)
    <3>1. still \in BOOLEAN /\ allowed \in BOOLEAN /\ notTaken \in 0 .. GiveUpTicks
          /\ NextBeat \in 0 .. RetryTicks
      BY <1>1, FlowFields
    <3>2. flow' = [flow EXCEPT !.beat = NextBeat, !.touched = FALSE,
                               !.confirmed = allowed, !.asked = still,
                               !.notTaken = notTaken]
      BY <2>2 DEF RequestFuelTick
    <3> HIDE DEF allowed, still, notTaken
    <3> QED
      BY <1>1, <3>1, <3>2 DEF Flows
  <2> QED
    BY <2>1, <2>2
<1>4. CraftTypes' /\ FuelComesNearer
  BY <1>1, CraftRests
<1>5. LoadTypes' /\ BoardingBegan'
  BY <1>1, <1>2, <1>3, <1>4 DEF LoadInv, LoadTypes, BoardingBegan
<1>6. FuelFollows'
  BY <1>1 DEF LoadInv, FuelFollows, Written, RefuelDone
<1>7. TracksGoOn /\ LoadersWereWaitedFor
  BY <1>1, <1>2, <1>3 DEF TracksGoOn, Loading, LoadersWereWaitedFor
<1> QED
  BY <1>4, <1>5, <1>6, <1>7 DEF StepIsRight, LoadInv

LEMMA LoadingTickIsRight ==
  ASSUME LoadInv, LoadingTick
  PROVE  StepIsRight
<1>1. /\ LoadTypes /\ flow \in Flows /\ flow.phase = "Loading" /\ menu \subseteq Asks
      /\ gsx' = gsx /\ faults' = faults /\ RefuelingTrack /\ BoardingBegan
  BY DEF LoadInv, LoadTypes, LoadingTick
<1>2. /\ fuel' \in Fuels /\ CraftTypes' /\ FuelFollows'
      /\ fuel.finished => fuel'.finished
      /\ fuel.baselined => fuel'.baselined
      /\ FuelComesNearer
  BY <1>1, RefuelingTrackKeeps DEF FuelComesNearer
<1>3. /\ BoardingAdvanced \in Boards
      /\ board.finished => BoardingAdvanced.finished
      /\ board.baselined => BoardingAdvanced.baselined
      /\ BoardingAdvanced.finished /\ ~board.finished =>
           BoardingAdvanced.baselined /\ WaitedFor(BoardingAdvanced)
      /\ ForcesTheBoarding => WaitedFor(BoardingAdvanced)
  BY <1>1, BoardingAdvancedIsTyped
<1>4. BoardingAsked \in BOOLEAN
  <2>1. board.asked \in BOOLEAN
    BY <1>1 DEF LoadTypes, Boards
  <2>2. BoardingIsDue \in BOOLEAN
    BY DEF BoardingIsDue
  <2> QED
    BY <2>1, <2>2 DEF BoardingAsked
<1>5. board' = [BoardingAdvanced EXCEPT !.asked = BoardingAsked]
  BY DEF LoadingTick
<1>6. /\ board' \in Boards /\ board'.finished = BoardingAdvanced.finished
      /\ board'.baselined = BoardingAdvanced.baselined
      /\ board'.holdTicks = BoardingAdvanced.holdTicks
      /\ board'.flagTicks = BoardingAdvanced.flagTicks
      /\ board'.awaitTicks = BoardingAdvanced.awaitTicks
  BY <1>3, <1>4, <1>5 DEF Boards
<1>7. menu' \subseteq Asks /\ ("CompleteBoarding" \in menu' \ menu => ForcesTheBoarding)
  BY <1>1 DEF LoadingTick, Asks
<1>8. flow' \in Flows /\ (~Loading' => fuel'.finished /\ board'.finished)
  <2>1. CASE fuel'.finished /\ board'.finished
    BY <1>1, <2>1, LeavingIsTyped DEF LoadingTick
  <2>2. CASE ~(fuel'.finished /\ board'.finished)
    <3>1. flow' = [flow EXCEPT !.beat = NextBeat, !.touched = FALSE]
      BY <2>2 DEF LoadingTick
    <3>2. NextBeat \in 0 .. RetryTicks
      BY <1>1, FlowFields
    <3> QED
      BY <1>1, <3>1, <3>2 DEF Flows, Loading
  <2> QED
    BY <2>1, <2>2
<1>9. LoadTypes'
  BY <1>1, <1>2, <1>6, <1>7, <1>8 DEF LoadTypes
<1>10. BoardingBegan'
  BY <1>1, <1>3, <1>6 DEF BoardingBegan
<1>11. LoadersWereWaitedFor
  <2>1. (board'.finished /\ ~board.finished) \/ "CompleteBoarding" \in menu' \ menu
          => WaitedFor(BoardingAdvanced)
    BY <1>3, <1>6, <1>7
  <2> QED
    BY <1>6, <2>1 DEF WaitedFor, LoadersWereWaitedFor
<1>12. TracksGoOn
  BY <1>2, <1>3, <1>6, <1>8 DEF TracksGoOn
<1> QED
  BY <1>2, <1>9, <1>10, <1>11, <1>12 DEF StepIsRight, LoadInv

LEMMA RelaunchIsRight ==
  ASSUME LoadInv, Relaunch
  PROVE  StepIsRight
<1> DEFINE loaded == RebuiltLoadedFuel
           progress == IF fuel.finished THEN 100 ELSE 0
<1>1. /\ LoadTypes /\ flow \in Flows /\ fuel \in Fuels /\ board \in Boards
      /\ flow.phase # "WaitingReadyToPush"
      /\ craft' = craft /\ gsx' = gsx /\ menu' = {}
      /\ faults \in 0 .. MaxFaults /\ faults < MaxFaults /\ faults' = faults + 1
      /\ FuelFollows /\ BoardingBegan
      /\ craft.method \in {"Gsx", "Self", "Client"}
  BY DEF LoadInv, LoadTypes, Relaunch, Loading, CraftTypes
<1>2. craft.tank \in Nat /\ Written(craft.tank) = craft.tank
  BY <1>1, CapacityHoldsTheTank DEF LoadTypes
<1>3. loaded \in Nat /\ progress \in 0 .. 100
  BY <1>1, <1>2, LoadingConstants DEF RebuiltLoadedFuel, Fuels
<1>4. /\ craft.method = "Client" /\ fuel.finished => loaded = Planned
      /\ craft.method = "Client" /\ ~fuel.finished => loaded = craft.tank
      /\ craft.method = "Gsx" => loaded = craft.tank
  BY <1>1 DEF RebuiltLoadedFuel
<1>5. fuel' = [fuel EXCEPT !.loaded = loaded, !.sample = 0, !.stall = 0,
                           !.progress = progress]
  BY DEF Relaunch, FuelRestored
<1>0. /\ 0 \in 0 .. RefuelStallTicks /\ 0 \in 0 .. BoardingStallTicks
      /\ 0 \in 0 .. GiveUpTicks /\ 0 \in 0 .. HoldGiveUpTicks
      /\ 0 \in 0 .. RetryTicks /\ 0 \in Nat
  BY LoadingConstants
<1> HIDE DEF loaded, progress
<1>6. /\ fuel' \in Fuels /\ fuel'.loaded = loaded
      /\ fuel'.baselined = fuel.baselined /\ fuel'.finished = fuel.finished
      /\ fuel'.topUp = fuel.topUp
  BY <1>0, <1>1, <1>3, <1>5 DEF Fuels
<1>7. board' = [board EXCEPT !.awaits = FALSE, !.awaitTicks = 0,
                             !.flagTicks = 0, !.holdTicks = 0, !.stall = 0]
  BY DEF Relaunch
<1>8. /\ board' \in Boards /\ board'.baselined = board.baselined
      /\ board'.finished = board.finished
  BY <1>0, <1>1, <1>7 DEF Boards
<1>9. flow' = [flow EXCEPT !.beat = 0, !.notTaken = 0, !.touched = FALSE]
  BY DEF Relaunch
<1>10. flow' \in Flows /\ flow'.phase = flow.phase
  BY <1>0, <1>1, <1>9 DEF Flows
<1>11. CraftTypes' /\ FuelComesNearer
  BY <1>1, CraftRests
<1>12. LoadTypes' /\ BoardingBegan'
  BY <1>1, <1>6, <1>8, <1>10, <1>11, LoadingConstants DEF LoadTypes, BoardingBegan
<1>13. FuelFollows'
  BY <1>1, <1>2, <1>4, <1>6 DEF FuelFollows, Written, RefuelDone
<1>14. TracksGoOn /\ LoadersWereWaitedFor
  BY <1>1, <1>6, <1>8, <1>10 DEF TracksGoOn, Loading, LoadersWereWaitedFor
<1> QED
  BY <1>11, <1>12, <1>13, <1>14 DEF StepIsRight, LoadInv

LEMMA TouchIsRight ==
  ASSUME LoadInv, Touch
  PROVE  StepIsRight
<1>1. /\ LoadTypes /\ flow \in Flows /\ flow.phase = "RequestFuel"
      /\ fuel' = fuel /\ board' = board /\ craft' = craft /\ gsx' = gsx
      /\ menu' = menu /\ faults' = faults /\ FuelFollows /\ BoardingBegan
      /\ flow' = [flow EXCEPT !.touched = TRUE]
  BY DEF LoadInv, LoadTypes, Touch
<1>2. flow' \in Flows /\ flow'.phase = flow.phase
  BY <1>1 DEF Flows
<1>3. CraftTypes' /\ FuelComesNearer
  BY <1>1, CraftRests
<1>4. LoadTypes' /\ BoardingBegan'
  BY <1>1, <1>2, <1>3 DEF LoadTypes, BoardingBegan
<1>5. FuelFollows'
  BY <1>1 DEF FuelFollows, Written, RefuelDone
<1>6. TracksGoOn /\ LoadersWereWaitedFor
  BY <1>1, <1>2 DEF TracksGoOn, Loading, LoadersWereWaitedFor
<1> QED
  BY <1>3, <1>4, <1>5, <1>6 DEF StepIsRight, LoadInv

-----------------------------------------------------------------------------
(***************************************************************************)
(* The steps of GSX.  None of them writes a field of the client.           *)
(***************************************************************************)
GsxAlone ==
  /\ gsx' \in Gsxs /\ (RefuelDone => gsx'.refuel = "Completed")
  /\ menu' \subseteq menu
  /\ UNCHANGED <<flow, fuel, board>>
  /\ faults' \in 0 .. MaxFaults

LEMMA GsxAloneIsRight ==
  ASSUME LoadInv, GsxAlone, Loading, craft' = craft
  PROVE  StepIsRight
<1>1. /\ LoadTypes /\ FuelFollows /\ BoardingBegan
      /\ flow' = flow /\ fuel' = fuel /\ board' = board
  BY DEF LoadInv, GsxAlone
<1>2. CraftTypes' /\ FuelComesNearer
  BY CraftRests
<1>3. LoadTypes' /\ BoardingBegan'
  BY <1>1, <1>2 DEF LoadTypes, BoardingBegan, GsxAlone
<1>4. FuelFollows'
  BY <1>1 DEF FuelFollows, Written, RefuelDone, GsxAlone
<1>5. TracksGoOn /\ LoadersWereWaitedFor
  BY <1>1 DEF TracksGoOn, Loading, LoadersWereWaitedFor, GsxAlone
<1> QED
  BY <1>2, <1>3, <1>4, <1>5 DEF StepIsRight, LoadInv

\* The fuel that flows into an aircraft that GSX or its own system fills.
LEMMA FlowingIsRight ==
  ASSUME LoadInv, GsxAlone, ~RefuelDone,
         craft.method # "Client",
         craft' = [craft EXCEPT !.tank = Written(Towards(craft.tank, Planned, 1))]
  PROVE  LoadInv' /\ FuelComesNearer /\ LoadersWereWaitedFor
<1> DEFINE tank == Written(Towards(craft.tank, Planned, 1))
<1>1. /\ LoadTypes /\ CraftTypes /\ FuelFollows /\ BoardingBegan
      /\ flow' = flow /\ fuel' = fuel /\ board' = board
      /\ craft.tank \in Nat /\ craft.capacity \in Nat
      /\ Written(craft.tank) = craft.tank /\ Planned \in Nat
  BY CapacityHoldsTheTank, LoadingConstants DEF LoadInv, LoadTypes, GsxAlone
<1>2. tank \in 0 .. craft.capacity
  BY <1>1, TowardsIsNatural, WrittenIsWithin
<1>3. Distance(tank, Planned) <= Distance(craft.tank, Planned)
  BY <1>1, StepsLeadTowards
<1>4. craft' = [craft EXCEPT !.tank = tank]
  OBVIOUS
<1>5. /\ CraftTypes' /\ craft'.tank = tank /\ craft'.method = craft.method
      /\ craft'.capacity = craft.capacity
  BY <1>1, <1>2, <1>4, TankIsWritten
<1>6. LoadTypes' /\ BoardingBegan'
  BY <1>1, <1>5 DEF LoadTypes, BoardingBegan, GsxAlone
<1>7. FuelFollows'
  BY <1>1, <1>5 DEF FuelFollows, GsxAlone
<1>8. FuelComesNearer
  BY <1>3, <1>5 DEF FuelComesNearer
<1>9. LoadersWereWaitedFor
  BY <1>1 DEF LoadersWereWaitedFor, GsxAlone
<1> QED
  BY <1>6, <1>7, <1>8, <1>9 DEF LoadInv, LoadTypes

LEMMA GsxStepsAreRight ==
  ASSUME LoadInv, GsxSteps
  PROVE  StepIsRight
<1>1. /\ gsx \in Gsxs /\ Loading /\ faults \in 0 .. MaxFaults /\ MaxFaults \in Nat
  BY LoadingConstants DEF LoadInv, LoadTypes, GsxSteps, GsxMissesAnAsk,
     GsxDropsAService, ApiReconnects, PilotAsksAgain, GsxRefuels, GsxEndsTheRefuel,
     GsxBoards, GsxEndsTheBoarding, LoadersComeAndGo, LoadersGo
<1>2. CASE \E ask \in menu : Loading /\ GsxHears(ask)
  <2>1. PICK ask \in menu : GsxHears(ask)
    BY <1>2
  <2>2. Heard(ask) \in Gsxs /\ (RefuelDone => Heard(ask).refuel = "Completed")
    BY <1>1 DEF Heard, Gsxs, LoadServices, RefuelDone
  <2>3. GsxAlone /\ craft' = craft
    BY <1>1, <2>1, <2>2 DEF GsxHears, Gsx, GsxAlone
  <2> QED
    BY <1>1, <2>3, GsxAloneIsRight
<1>3. CASE GsxMissesAnAsk
  <2>1. GsxAlone /\ craft' = craft
    BY <1>1, <1>3 DEF GsxMissesAnAsk, GsxAlone, RefuelDone
  <2> QED
    BY <1>1, <2>1, GsxAloneIsRight
<1>4. CASE GsxDropsAService
  <2>1. \/ /\ gsx.refuel # "Completed"
           /\ gsx' = [gsx EXCEPT !.refuel = "Callable", !.hose = FALSE, !.pumped = 0]
        \/ gsx' = [gsx EXCEPT !.boarding = "Callable", !.bar = "none", !.cargo = {}]
        \/ gsx' = [gsx EXCEPT !.api = FALSE]
    BY <1>4 DEF GsxDropsAService
  <2>3. gsx' \in Gsxs /\ (RefuelDone => gsx'.refuel = "Completed")
    <3>1. CASE /\ gsx.refuel # "Completed"
               /\ gsx' = [gsx EXCEPT !.refuel = "Callable", !.hose = FALSE, !.pumped = 0]
      BY <1>1, <3>1 DEF Gsxs, LoadServices, RefuelDone
    <3>2. CASE gsx' = [gsx EXCEPT !.boarding = "Callable", !.bar = "none", !.cargo = {}]
      <4>1. {} \in SUBSET {"flag", "hold", "door"}
        OBVIOUS
      <4> DEFINE nobody == {}
      <4>2. nobody \in SUBSET {"flag", "hold", "door"}
        BY <4>1
      <4>3. gsx' = [gsx EXCEPT !.boarding = "Callable", !.bar = "none", !.cargo = nobody]
        BY <3>2
      <4> HIDE DEF nobody
      <4> QED
        BY <1>1, <4>2, <4>3 DEF Gsxs, LoadServices, RefuelDone
    <3>3. CASE gsx' = [gsx EXCEPT !.api = FALSE]
      BY <1>1, <3>3 DEF Gsxs, LoadServices, RefuelDone
    <3> QED
      BY <2>1, <3>1, <3>2, <3>3
  <2>2. GsxAlone /\ craft' = craft
    BY <1>1, <1>4, <2>3 DEF GsxDropsAService, GsxAlone
  <2> QED
    BY <1>1, <2>2, GsxAloneIsRight
<1>5. CASE ApiReconnects \/ PilotAsksAgain \/ GsxEndsTheRefuel \/ GsxBoards
             \/ GsxEndsTheBoarding \/ LoadersComeAndGo \/ LoadersGo
  <2> USE DEF Gsx, Gsxs, LoadServices, RefuelDone
  <2>1. gsx' \in Gsxs /\ (RefuelDone => gsx'.refuel = "Completed")
    <3>1. CASE ApiReconnects \/ PilotAsksAgain
      BY <1>1, <3>1 DEF ApiReconnects, PilotAsksAgain
    <3>2. CASE GsxEndsTheRefuel \/ GsxEndsTheBoarding
      BY <1>1, <3>2 DEF GsxEndsTheRefuel, GsxEndsTheBoarding
    <3>3. CASE GsxBoards
      BY <1>1, <3>3 DEF GsxBoards
    <3>4. CASE LoadersComeAndGo \/ LoadersGo
      <4>1. PICK loaders \in CargoReadings : gsx' = [gsx EXCEPT !.cargo = loaders]
        BY <3>4 DEF LoadersComeAndGo, LoadersGo
      <4>2. loaders \in SUBSET {"flag", "hold", "door"}
        BY LoadingConstants
      <4> QED
        BY <1>1, <4>1, <4>2
    <3> QED
      BY <1>5, <3>1, <3>2, <3>3, <3>4
  <2>2. /\ menu' = menu /\ craft' = craft /\ flow' = flow /\ fuel' = fuel
        /\ board' = board /\ faults' = faults
    BY <1>5 DEF ApiReconnects, PilotAsksAgain, GsxEndsTheRefuel, GsxBoards,
       GsxEndsTheBoarding, LoadersComeAndGo, LoadersGo
  <2>3. GsxAlone
    BY <1>1, <2>1, <2>2 DEF GsxAlone
  <2> QED
    BY <1>1, <2>2, <2>3, GsxAloneIsRight
<1>6. CASE GsxRefuels
  <2> USE DEF Gsx, RefuelDone
  <2> DEFINE flows == /\ gsx.refuel = "Active" /\ gsx.hose /\ gsx.pumped < gsx.need
                      /\ gsx' = [gsx EXCEPT !.pumped = @ + 1]
                      /\ craft' = IF craft.method = "Client" THEN craft
                                  ELSE [craft EXCEPT !.tank = Written(Towards(@, Planned, 1))]
                      /\ UNCHANGED <<flow, fuel, board, faults>>
  <2>1. CASE flows
    <3>1. gsx' \in Gsxs
      BY <1>1, <2>1 DEF Gsxs, LoadServices
    <3>2. GsxAlone /\ ~RefuelDone
      BY <1>1, <1>6, <2>1, <3>1 DEF GsxRefuels, GsxAlone
    <3>3. CASE craft.method = "Client"
      BY <1>1, <2>1, <3>2, <3>3, GsxAloneIsRight
    <3>4. CASE craft.method # "Client"
      <4>1. craft' = [craft EXCEPT !.tank = Written(Towards(craft.tank, Planned, 1))]
        BY <2>1, <3>4
      <4>2. LoadInv' /\ FuelComesNearer /\ LoadersWereWaitedFor
        BY <3>2, <3>4, <4>1, FlowingIsRight
      <4>3. TracksGoOn
        BY <1>1, <3>2 DEF TracksGoOn, GsxAlone, Loading
      <4> QED
        BY <4>2, <4>3 DEF StepIsRight
    <3> QED
      BY <3>3, <3>4
  <2>2. CASE ~flows
    <3>1. Distance(craft.tank, Planned) \in Nat
      BY CapacityHoldsTheTank, LoadingConstants DEF LoadInv, LoadTypes, Distance
    <3> DEFINE need == Distance(craft.tank, Planned)
    <3>2. \/ gsx' = [gsx EXCEPT !.refuel = "Active", !.need = need]
             /\ gsx.refuel = "Requested"
          \/ gsx' = [gsx EXCEPT !.hose = TRUE]
          \/ gsx' = [gsx EXCEPT !.hose = FALSE]
      BY <1>6, <2>2 DEF GsxRefuels
    <3>3. UNCHANGED <<flow, fuel, board, craft, faults, menu>>
      BY <1>6, <2>2 DEF GsxRefuels
    <3> HIDE DEF need, flows
    <3>4. gsx' \in Gsxs /\ (RefuelDone => gsx'.refuel = "Completed")
      BY <1>1, <3>1, <3>2 DEF Gsxs, LoadServices, need
    <3>5. GsxAlone
      BY <1>1, <3>3, <3>4 DEF GsxAlone
    <3> QED
      BY <1>1, <3>3, <3>5, GsxAloneIsRight
  <2> QED
    BY <2>1, <2>2
<1> QED
  BY <1>2, <1>3, <1>4, <1>5, <1>6 DEF GsxSteps

-----------------------------------------------------------------------------
(***************************************************************************)
(* The theorems.                                                           *)
(***************************************************************************)
LEMMA InitLoadInv ==
  Init => LoadInv
<1> SUFFICES ASSUME Init
             PROVE  LoadInv
  OBVIOUS
<1>1. /\ 0 \in 0 .. RefuelStallTicks /\ 0 \in 0 .. BoardingStallTicks
      /\ 0 \in 0 .. GiveUpTicks /\ 0 \in 0 .. HoldGiveUpTicks
      /\ 0 \in 0 .. RetryTicks /\ 0 \in Nat /\ 0 \in 0 .. 100
      /\ 0 \in 0 .. MaxFaults
  BY LoadingConstants
<1>2. flow \in Flows
  BY <1>1 DEF Init, Flows
<1>3. fuel \in Fuels /\ ~fuel.baselined /\ ~fuel.finished /\ ~fuel.topUp
  BY <1>1 DEF Init, Fuels
<1>4. board \in Boards /\ ~board.finished
  BY <1>1 DEF Init, Boards
<1>5. CraftTypes
  <2>1. craft \in Crafts
    BY DEF Init
  <2>2. /\ craft \in [method : {"Gsx", "Self", "Client"}, capacity : Nat \ {0}, tank : Nat]
        /\ craft.tank <= craft.capacity
    BY <2>1, LoadingConstants
  <2>3. craft = [craft EXCEPT !.tank = craft.tank]
    BY <2>2
  <2> QED
    BY <2>1, <2>2, <2>3 DEF CraftTypes, CraftIs
<1>6. gsx \in Gsxs
  BY <1>1 DEF Init, Gsxs, LoadServices
<1>7. menu \subseteq Asks /\ faults \in 0 .. MaxFaults
  BY <1>1 DEF Init
<1> QED
  BY <1>2, <1>3, <1>4, <1>5, <1>6, <1>7 DEF LoadInv, LoadTypes, FuelFollows, BoardingBegan

LEMMA NextIsRight ==
  ASSUME LoadInv, Next
  PROVE  StepIsRight
BY RequestFuelTickIsRight, LoadingTickIsRight, RelaunchIsRight, TouchIsRight,
   GsxStepsAreRight DEF Next, Tick

LEMMA RestingKeepsLoadInv ==
  ASSUME LoadInv, UNCHANGED vars
  PROVE  LoadInv' /\ FuelComesNearer /\ LoadersWereWaitedFor
<1>1. CraftTypes' /\ FuelComesNearer
  BY CraftRests DEF vars
<1>2. LoadTypes' /\ BoardingBegan'
  BY <1>1 DEF LoadInv, LoadTypes, BoardingBegan, vars
<1>3. FuelFollows'
  BY DEF LoadInv, FuelFollows, Written, RefuelDone, vars
<1>4. LoadersWereWaitedFor
  BY DEF LoadersWereWaitedFor, vars
<1> QED
  BY <1>1, <1>2, <1>3, <1>4 DEF LoadInv

\* What the tanks hold follows what the client counts, in every state of the
\* loading (RefuelingTrack, RebuiltLoadedFuelKg).
THEOREM LoadInvariantHolds == Spec => []LoadInv
<1>1. LoadInv /\ [Next]_vars => LoadInv'
  BY NextIsRight, RestingKeepsLoadInv DEF StepIsRight
<1> QED
  BY <1>1, InitLoadInv, PTL DEF Spec

\* The fields of both tracks keep their types: the waits stop at their
\* bounds, the percentage stays one, and no tank is filled beyond itself.
THEOREM LoadingTypesHold == Spec => []TypeOK
<1>1. LoadInv => TypeOK
  <2> SUFFICES ASSUME LoadInv
               PROVE  TypeOK
    OBVIOUS
  <2>1. craft.tank \in 0 .. craft.capacity /\ \E c \in Crafts : craft = [c EXCEPT !.tank = craft.tank]
    BY DEF LoadInv, LoadTypes, CraftTypes, CraftIs
  <2> QED
    BY <2>1 DEF LoadInv, LoadTypes, Flows, Fuels, Boards, TypeOK
<1> QED
  BY <1>1, LoadInvariantHolds, PTL

\* Neither track ends against what it serves: no write leads the fuel away
\* from the plan, also not after a relaunch, and boarding is not ended over
\* a loader that is still waited for.
THEOREM LoadedAsPlanned == Spec => LoadsWhatWasPlanned
<1>1. LoadInv /\ [Next]_vars => [FuelComesNearer]_vars /\ [LoadersWereWaitedFor]_vars
  BY NextIsRight DEF StepIsRight
<1>2. Spec => [][FuelComesNearer]_vars /\ [][LoadersWereWaitedFor]_vars
  BY <1>1, LoadInvariantHolds, PTL DEF Spec
<1> QED
  BY <1>2, PTL DEF LoadsWhatWasPlanned, FuelGoesTowardsThePlan, LoadersAreWaitedFor,
     FuelComesNearer, LoadersWereWaitedFor

LEMMA StagesGoOn ==
  ASSUME LoadInv, Next
  PROVE  Tracks!Next
<1>1. /\ LoadInv' /\ TracksGoOn /\ LoadInv
  BY NextIsRight DEF StepIsRight
<1>2. /\ fuel \in Fuels /\ board \in Boards /\ fuel' \in Fuels /\ board' \in Boards
      /\ (fuel.finished => fuel.baselined) /\ (board.finished => board.baselined)
  BY <1>1 DEF LoadInv, LoadTypes, FuelFollows, BoardingBegan
<1>3. Loading
  BY DEF Next, Tick, RequestFuelTick, LoadingTick, Relaunch, Touch, Loading,
     GsxSteps, GsxMissesAnAsk, GsxDropsAService, ApiReconnects, PilotAsksAgain,
     GsxRefuels, GsxEndsTheRefuel, GsxBoards, GsxEndsTheBoarding,
     LoadersComeAndGo, LoadersGo
<1>4. /\ Stage(fuel)' \in Tracks!Stages /\ Stage(board)' \in Tracks!Stages
      /\ (~Loading)' \in BOOLEAN
  BY DEF Stage, Tracks!Stages, Loading
<1>5. Tracks!GoesOn(Stage(fuel), Stage(fuel)')
  BY <1>1, <1>2 DEF TracksGoOn, Stage, Tracks!GoesOn, Tracks!Stages, Fuels
<1>6. Tracks!GoesOn(Stage(board), Stage(board)')
  BY <1>1, <1>2 DEF TracksGoOn, Stage, Tracks!GoesOn, Tracks!Stages, Boards
<1>7. (~Loading)' => Stage(fuel)' = "Done" /\ Stage(board)' = "Done"
  BY <1>1 DEF TracksGoOn, Stage
<1> QED
  BY <1>3, <1>4, <1>5, <1>6, <1>7 DEF Tracks!Next

\* The phases implement TwoTracks: a track that has begun or ended does not
\* go back, whatever GSX drops and whenever the client is relaunched, and
\* the phase is left only when both have ended (LoadingState::Tick).
THEOREM LoadingImplementsTwoTracks == Spec => ImplementsTwoTracks
<1>1. Init => Tracks!Init
  BY DEF Init, Tracks!Init, Stage, Loading
<1>2. LoadInv /\ [Next]_vars => [Tracks!Next]_(Tracks!vars)
  <2> SUFFICES ASSUME LoadInv, [Next]_vars
               PROVE  [Tracks!Next]_(Tracks!vars)
    OBVIOUS
  <2>1. CASE Next
    BY <2>1, StagesGoOn
  <2>2. CASE UNCHANGED vars
    BY <2>2 DEF vars, Tracks!vars, Stage, Loading
  <2> QED
    BY <2>1, <2>2
<1> QED
  BY <1>1, <1>2, LoadInvariantHolds, PTL DEF Spec, ImplementsTwoTracks, Tracks!Spec

-----------------------------------------------------------------------------
(***************************************************************************)
(* Why the counts hold.  A counter, the client's or the saved one, that    *)
(* has moved counts passengers of this service only, and would with the    *)
(* count that GSX has now; one that has not still reads what it began      *)
(* with, for as long as the variable is of the flight before.              *)
(***************************************************************************)
Counters == [last : Nat, total : Nat, counting : BOOLEAN, moved : BOOLEAN, grown : BOOLEAN]
Cargos == [first : Nat, last : Nat, counting : BOOLEAN, moved : BOOLEAN]

CountedServices == [active : BOOLEAN, count : Nat, real : Nat, fresh : BOOLEAN,
                    percent : Nat, loaded : Nat, looked : BOOLEAN]

CounterTypes ==
  /\ counter \in [of : Counters, underway : BOOLEAN]
  /\ cargo \in Cargos
  /\ counted \in CountedServices
  /\ seen \in [passengers : Nat, percent : Nat, missed : BOOLEAN, relaunches : 0 .. 1,
               disk : [of : Counters, cargo : Cargos]]

OfThisService(c, g) ==
  /\ ~c.moved => c.total = 0 /\ ~c.grown
  /\ c.counting /\ ~c.moved /\ ~g.fresh => c.last = g.count
  /\ c.moved =>
       /\ c.counting /\ g.fresh
       /\ c.total + c.last <= g.real
       /\ (IF g.count < c.last THEN TotalOf(c) ELSE c.total) + g.count <= g.real
       /\ ~c.grown => c.last = 0

CargoOfThisService(c, g) ==
  /\ c.moved => c.counting /\ g.loaded > 0 /\ c.last <= g.loaded
  /\ c.counting /\ ~c.moved => c.first = c.last /\ (g.loaded = 0 => g.percent = c.first)

\* What GSX's variables are of this service, and which services are found underway.
VariablesOfGsx ==
  /\ IF counted.fresh THEN counted.count <= counted.real ELSE counted.real = 0
  /\ counted.loaded > 0 => counted.percent = counted.loaded
  /\ counter.underway /\ ~counter.of.counting => counted.fresh /\ counted.loaded > 0

ReportedAsRead ==
  /\ seen.passengers = Passengers(counter.of) /\ seen.percent = Percent(cargo)
  /\ counter.of.counting = cargo.counting
  /\ seen.disk.of.counting = seen.disk.cargo.counting

\* The next look makes the count whole, as long as it misses nothing.
NothingIsMissed ==
  ~seen.missed =>
    /\ ~counter.underway
    /\ counted.fresh =>
         /\ counter.of.counting /\ ~StandsStill(counter.of, counted.count)
         /\ Passengers(CountedOn(counter.of, counted.count)) = counted.real
    /\ counted.looked =>
         /\ counted.active => counter.of.counting
         /\ counter.of.counting => counter.of.last = counted.count
         /\ counted.fresh => counter.of.moved

CounterInv ==
  /\ CounterTypes
  /\ OfThisService(counter.of, counted) /\ OfThisService(seen.disk.of, counted)
  /\ CargoOfThisService(cargo, counted) /\ CargoOfThisService(seen.disk.cargo, counted)
  /\ VariablesOfGsx /\ ReportedAsRead /\ NothingIsMissed

-----------------------------------------------------------------------------
(***************************************************************************)
(* A counter that looks at GSX's variables stays a counter of this         *)
(* service, and what it reports does not go back.                          *)
(***************************************************************************)
LEMMA UpdatedIsOfThisService ==
  ASSUME NEW c \in Counters, NEW g \in CountedServices, NEW underway \in BOOLEAN,
         OfThisService(c, g),
         IF g.fresh THEN g.count <= g.real ELSE g.real = 0,
         underway /\ ~c.counting => g.fresh
  PROVE  LET d == Updated(c, g.count, g.active, underway)
         IN  d \in Counters /\ OfThisService(d, g) /\ Passengers(d) >= Passengers(c)
<1> DEFINE d == Updated(c, g.count, g.active, underway)
<1>1. CASE ~c.counting /\ ~g.active
  <2>1. d = c
    BY <1>1 DEF Updated
  <2>2. QED
    BY <2>1 DEF Passengers, Counters
<1>2. CASE ~c.counting /\ g.active
  <2>1. d = BegunCounting(c, g.count, underway)
    BY <1>2 DEF Updated
  <2>2. d \in Counters /\ d.counting /\ d.last = g.count /\ d.total = c.total
    BY <2>1 DEF BegunCounting, Counters, CountedServices
  <2>3. d.moved = underway
    BY <2>1 DEF BegunCounting, Counters
  <2>4. d.grown = (underway /\ g.count > 0)
    BY <2>1 DEF BegunCounting, Counters
  <2>5. c.total = 0 /\ ~c.moved
    BY <1>2 DEF OfThisService
  <2>6. underway => g.fresh /\ g.count <= g.real
    BY <1>2
  <2> HIDE DEF d
  <2>7. OfThisService(d, g)
    BY <2>2, <2>3, <2>4, <2>5, <2>6 DEF OfThisService, TotalOf, Counters, CountedServices
  <2>8. Passengers(d) >= Passengers(c)
    BY <2>2, <2>5 DEF Passengers, Counters
  <2>9. QED
    BY <2>2, <2>7, <2>8 DEF d
<1>3. CASE c.counting /\ StandsStill(c, g.count)
  <2>1. d = c
    BY <1>3 DEF Updated
  <2>2. QED
    BY <2>1 DEF Passengers, Counters
<1>4. CASE c.counting /\ ~StandsStill(c, g.count)
  <2>1. d = CountedOn(c, g.count)
    BY <1>4 DEF Updated
  <2> DEFINE grown == IF g.count < c.last THEN g.count > 0 ELSE c.grown \/ g.count > c.last
             total == IF g.count < c.last THEN TotalOf(c) ELSE c.total
  <2>2. total \in Nat
    BY DEF TotalOf, Counters, CountedServices
  <2>3. grown \in BOOLEAN
    <3>1. CASE g.count < c.last
      BY <3>1
    <3>2. CASE ~(g.count < c.last)
      BY <3>2
    <3>3. QED
      BY <3>1, <3>2
  <2> HIDE DEF grown, total
  <2>4. d = [c EXCEPT !.moved = TRUE, !.last = g.count, !.total = total, !.grown = grown]
    BY <2>1 DEF CountedOn, total, grown
  <2>5. d \in Counters /\ d.counting /\ d.moved /\ d.last = g.count /\ d.total = total
    BY <2>2, <2>3, <2>4, <1>4 DEF Counters, CountedServices
  <2>6. /\ d \in Counters /\ d.counting /\ d.moved /\ d.last = g.count
        /\ d.total = IF g.count < c.last THEN TotalOf(c) ELSE c.total
    BY <2>5 DEF total
  <2>7. d.grown = IF g.count < c.last THEN g.count > 0 ELSE c.grown \/ g.count > c.last
    BY <2>1 DEF CountedOn, Counters
  <2>8. g.fresh
    BY <1>4 DEF StandsStill, OfThisService
  <2> HIDE DEF d
  <2>9. OfThisService(d, g) /\ Passengers(d) >= Passengers(c)
    BY <1>4, <2>6, <2>7, <2>8
    DEF OfThisService, TotalOf, Passengers, StandsStill, Counters, CountedServices
  <2>10. QED
    BY <2>6, <2>9 DEF d
<1>5. QED
  BY <1>1, <1>2, <1>3, <1>4

(***************************************************************************)
(* The cargo's reading, likewise.                                          *)
(***************************************************************************)
LEMMA ReadIsOfThisService ==
  ASSUME NEW c \in Cargos, NEW g \in CountedServices, NEW underway \in BOOLEAN,
         CargoOfThisService(c, g),
         g.loaded > 0 => g.percent = g.loaded,
         underway /\ ~c.counting => g.loaded > 0
  PROVE  LET d == Read(c, g.percent, g.active, underway)
         IN  d \in Cargos /\ CargoOfThisService(d, g)
<1> DEFINE d == Read(c, g.percent, g.active, underway)
<1>1. CASE ~c.counting /\ ~g.active
  BY <1>1 DEF Read
<1>2. CASE c.counting \/ g.active
  <2>1. /\ d \in Cargos /\ d.counting /\ d.last = g.percent
        /\ d.first = IF c.counting THEN c.first ELSE g.percent
    BY <1>2 DEF Read, HasMoved, Cargos, CountedServices
  <2>2. d.moved = HasMoved(c, g.percent, underway)
    BY <1>2 DEF Read, Cargos
  <2> HIDE DEF d
  <2>3. CargoOfThisService(d, g)
    <3>1. CASE c.counting
      BY <2>1, <2>2, <3>1 DEF HasMoved, CargoOfThisService, Cargos, CountedServices
    <3>2. CASE ~c.counting
      BY <2>1, <2>2, <3>2 DEF HasMoved, CargoOfThisService, Cargos, CountedServices
    <3>3. QED
      BY <3>1, <3>2
  <2>4. QED
    BY <2>1, <2>3 DEF d
<1>3. QED
  BY <1>1, <1>2

\* What a change of GSX's may be: another passenger, the end of a vehicle, cargo.
Follows(g, h) ==
  /\ h \in CountedServices
  /\ \/ h.count = g.count /\ h.real = g.real /\ h.fresh = g.fresh
     \/ /\ g.active /\ h.real = g.real + 1 /\ h.fresh
        /\ h.count = 1 \/ (g.fresh /\ h.count = g.count + 1)
     \/ g.active /\ h.real = g.real /\ h.fresh /\ h.count = 0 /\ g.count > 0
  /\ \/ h.loaded = g.loaded /\ h.percent = g.percent
     \/ h.loaded = g.loaded + 1 /\ h.percent = h.loaded

(***************************************************************************)
(* A counter of this service is one after a change of GSX's too, and so is *)
(* the reading of the cargo.                                               *)
(***************************************************************************)
LEMMA ChangesKeepTheCounter ==
  ASSUME NEW c \in Counters, NEW g \in CountedServices, NEW h, Follows(g, h), OfThisService(c, g)
  PROVE  OfThisService(c, h)
BY DEF Counters, CountedServices, Follows, OfThisService, TotalOf

\* And the same of the cargo's reading.
LEMMA ChangesKeepTheReading ==
  ASSUME NEW c \in Cargos, NEW g \in CountedServices, NEW h, Follows(g, h), CargoOfThisService(c, g)
  PROVE  CargoOfThisService(c, h)
BY DEF Cargos, CountedServices, Follows, CargoOfThisService

(***************************************************************************)
(* Looking at the variables keeps the invariant.                           *)
(***************************************************************************)
LEMMA LookKeeps ==
  ASSUME CounterInv, NEW saved \in BOOLEAN, Look(saved)
  PROVE  CounterInv' /\ seen'.passengers >= seen.passengers
<1> DEFINE underway == counter.underway /\ counted.active
           c == Updated(counter.of, counted.count, counted.active, underway)
           p == Read(cargo, counted.percent, counted.active, underway)
<1>1. /\ counter' = [of |-> c, underway |-> underway] /\ cargo' = p
      /\ counted' = [counted EXCEPT !.looked = TRUE]
      /\ seen' = [passengers |-> Passengers(c), percent |-> Percent(p),
                  disk |-> IF saved THEN [of |-> c, cargo |-> p] ELSE seen.disk,
                  missed |-> seen.missed, relaunches |-> seen.relaunches]
  BY DEF Look
<1>2. /\ counter.of \in Counters /\ counter.underway \in BOOLEAN /\ cargo \in Cargos
      /\ counted \in CountedServices /\ seen.disk \in [of : Counters, cargo : Cargos]
      /\ seen.missed \in BOOLEAN /\ seen.relaunches \in 0 .. 1
  BY DEF CounterInv, CounterTypes
<1>3. /\ underway \in BOOLEAN
      /\ underway /\ ~counter.of.counting => counted.fresh /\ counted.loaded > 0
  BY <1>2 DEF CounterInv, VariablesOfGsx, CountedServices
<1>4. c \in Counters /\ OfThisService(c, counted) /\ Passengers(c) >= Passengers(counter.of)
  BY <1>2, <1>3, UpdatedIsOfThisService DEF CounterInv, VariablesOfGsx
<1>5. p \in Cargos /\ CargoOfThisService(p, counted)
  BY <1>2, <1>3, ReadIsOfThisService DEF CounterInv, VariablesOfGsx, ReportedAsRead
<1>6. c.counting = (counter.of.counting \/ counted.active)
  BY <1>2 DEF Updated, BegunCounting, CountedOn, Counters, CountedServices
<1>7. p.counting = (cargo.counting \/ counted.active)
  BY <1>2 DEF Read, Cargos, CountedServices
<1>8. Follows(counted, counted') /\ counted'.looked
  BY <1>1, <1>2 DEF Follows, CountedServices
<1>9. Passengers(c) \in Nat /\ Percent(p) \in Nat
  BY <1>4, <1>5 DEF Passengers, Percent, Counters, Cargos
<1>10. c.last = counted.count \/ ~c.counting
  BY <1>2 DEF Updated, BegunCounting, CountedOn, StandsStill, Counters, CountedServices
<1>11. ~seen.missed /\ counted.fresh =>
         /\ counter.of.counting /\ c = CountedOn(counter.of, counted.count) /\ c.moved
         /\ Passengers(c) = counted.real
  BY <1>2 DEF CounterInv, NothingIsMissed, Updated, CountedOn, Counters
<1> HIDE DEF c, p, underway
<1>12. CounterTypes'
  BY <1>1, <1>2, <1>3, <1>4, <1>5, <1>8, <1>9 DEF CounterTypes, Follows
<1>13. OfThisService(counter.of, counted)' /\ CargoOfThisService(cargo, counted)'
  BY <1>1, <1>2, <1>4, <1>5, <1>8, ChangesKeepTheCounter, ChangesKeepTheReading
<1>14. OfThisService(seen.disk.of, counted)' /\ CargoOfThisService(seen.disk.cargo, counted)'
  <2>1. seen'.disk.of \in {c, seen.disk.of} /\ seen'.disk.cargo \in {p, seen.disk.cargo}
    BY <1>1
  <2>2. seen.disk.of \in Counters /\ seen.disk.cargo \in Cargos
    BY <1>2
  <2>3. OfThisService(seen.disk.of, counted') /\ CargoOfThisService(seen.disk.cargo, counted')
    BY <1>2, <1>8, <2>2, ChangesKeepTheCounter, ChangesKeepTheReading DEF CounterInv
  <2>4. QED
    BY <1>1, <1>13, <2>1, <2>3
<1>15. VariablesOfGsx'
  BY <1>1, <1>2, <1>3, <1>6 DEF CounterInv, VariablesOfGsx, CountedServices
<1>16. ReportedAsRead'
  BY <1>1, <1>6, <1>7 DEF CounterInv, ReportedAsRead
<1>17. NothingIsMissed'
  <2>1. SUFFICES ASSUME ~seen.missed PROVE NothingIsMissed'
    BY <1>1 DEF NothingIsMissed
  <2>2. ~underway /\ ~counter.underway
    BY <2>1 DEF CounterInv, NothingIsMissed, underway
  <2>3. counted.fresh => /\ ~StandsStill(c, counted.count)
                         /\ Passengers(CountedOn(c, counted.count)) = counted.real
    <3>1. SUFFICES ASSUME counted.fresh
                   PROVE  /\ ~StandsStill(c, counted.count)
                          /\ Passengers(CountedOn(c, counted.count)) = counted.real
      OBVIOUS
    <3>2. c.moved /\ c.last = counted.count /\ c.total + c.last = counted.real
      BY <1>6, <1>10, <1>11, <2>1, <3>1 DEF Passengers
    <3>3. ~(counted.count < c.last)
      BY <1>2, <1>4, <3>2 DEF Counters, CountedServices
    <3>4. LET d == CountedOn(c, counted.count)
          IN  d.moved /\ d.last = counted.count /\ d.total = c.total
      BY <1>4, <3>3 DEF CountedOn, Counters
    <3>5. QED
      BY <3>2, <3>4 DEF StandsStill, Passengers
  <2>4. counted.fresh => c.counting /\ c.moved
    BY <1>6, <1>11, <2>1
  <2>5. QED
    BY <1>1, <1>2, <1>6, <1>10, <2>2, <2>3, <2>4 DEF NothingIsMissed, CountedServices
<1>18. seen'.passengers >= seen.passengers
  BY <1>1, <1>4 DEF CounterInv, ReportedAsRead
<1>19. QED
  BY <1>12, <1>13, <1>14, <1>15, <1>16, <1>17, <1>18 DEF CounterInv

(***************************************************************************)
(* A change of GSX's keeps it: where it is the first since the last look,  *)
(* the count that the next look makes is the one more.                     *)
(***************************************************************************)
LEMMA MovesKeep ==
  ASSUME CounterInv, NEW next, Follows(counted, next), Moves(next)
  PROVE  CounterInv' /\ seen'.passengers = seen.passengers
<1>1. /\ counter \in [of : Counters, underway : BOOLEAN] /\ counter.of \in Counters
      /\ cargo \in Cargos /\ counted \in CountedServices /\ next \in CountedServices
      /\ seen \in [passengers : Nat, percent : Nat, missed : BOOLEAN, relaunches : 0 .. 1,
                   disk : [of : Counters, cargo : Cargos]]
      /\ seen.disk.of \in Counters /\ seen.disk.cargo \in Cargos
  BY DEF CounterInv, CounterTypes, Follows
<1>2. counted' = [next EXCEPT !.looked = FALSE] /\ counter' = counter /\ cargo' = cargo
  BY DEF Moves
<1>3. Follows(counted, counted') /\ ~counted'.looked
  BY <1>1, <1>2 DEF Follows, CountedServices
<1> DEFINE missed == \/ seen.missed \/ ~counted.looked
                     \/ next.real > counted.real /\ next.count = counted.count
<1>4. missed \in BOOLEAN
  BY <1>1 DEF CountedServices
<1>5. seen' = [seen EXCEPT !.missed = missed]
  BY DEF Moves
<1> HIDE DEF missed
<1>6. /\ seen' \in [passengers : Nat, percent : Nat, missed : BOOLEAN, relaunches : 0 .. 1,
                    disk : [of : Counters, cargo : Cargos]]
      /\ seen'.passengers = seen.passengers /\ seen'.percent = seen.percent
      /\ seen'.disk = seen.disk /\ seen'.missed = missed
  BY <1>1, <1>4, <1>5
<1>7. CounterTypes'
  BY <1>1, <1>2, <1>3, <1>6 DEF CounterTypes, Follows
<1>8. /\ OfThisService(counter.of, counted)' /\ OfThisService(seen.disk.of, counted)'
      /\ CargoOfThisService(cargo, counted)' /\ CargoOfThisService(seen.disk.cargo, counted)'
  BY <1>1, <1>2, <1>3, <1>6, ChangesKeepTheCounter, ChangesKeepTheReading DEF CounterInv
<1>9. VariablesOfGsx'
  BY <1>1, <1>2, <1>3 DEF CounterInv, VariablesOfGsx, Follows, CountedServices
<1>10. ReportedAsRead'
  BY <1>2, <1>6 DEF CounterInv, ReportedAsRead
<1>11. NothingIsMissed'
  <2>1. SUFFICES ASSUME ~missed PROVE NothingIsMissed'
    BY <1>6 DEF NothingIsMissed
  <2>2. /\ ~seen.missed /\ counted.looked /\ ~counter.underway
        /\ ~(next.real > counted.real /\ next.count = counted.count)
    BY <2>1 DEF missed, CounterInv, NothingIsMissed
  <2>3. /\ counted.active => counter.of.counting
        /\ counter.of.counting => counter.of.last = counted.count
        /\ counted.fresh => counter.of.counting /\ counter.of.moved
    BY <2>2 DEF CounterInv, NothingIsMissed
  <2>4. SUFFICES ASSUME counted'.fresh
                 PROVE  /\ counter.of.counting /\ ~StandsStill(counter.of, counted'.count)
                        /\ Passengers(CountedOn(counter.of, counted'.count)) = counted'.real
    BY <1>2, <1>3, <2>2 DEF NothingIsMissed
  <2>5. CASE /\ counted'.count = counted.count /\ counted'.real = counted.real
             /\ counted'.fresh = counted.fresh
    BY <2>2, <2>4, <2>5 DEF CounterInv, NothingIsMissed
  <2>6. CASE counted.active /\ counted'.count # counted.count
    <3>1. counter.of.counting /\ counter.of.last = counted.count /\ counted'.count # counter.of.last
      BY <2>3, <2>6
    <3>2. counter.of.total + counter.of.last
            = IF counted.fresh THEN counted.real ELSE counter.of.last
      <4>1. CASE counted.fresh
        <5>1. Passengers(CountedOn(counter.of, counted.count)) = counted.real
          BY <2>2, <4>1 DEF CounterInv, NothingIsMissed
        <5>2. LET d == CountedOn(counter.of, counted.count)
              IN  d.moved /\ d.last = counted.count /\ d.total = counter.of.total
          BY <1>1, <3>1 DEF CountedOn, Counters, CountedServices
        <5>3. QED
          BY <3>1, <4>1, <5>1, <5>2 DEF Passengers
      <4>2. CASE ~counted.fresh
        BY <1>1, <4>2 DEF CounterInv, OfThisService, Counters
      <4>3. QED
        BY <4>1, <4>2
    <3>3. LET d == CountedOn(counter.of, counted'.count)
          IN  /\ d.moved /\ d.last = counted'.count
              /\ d.total = IF counted'.count < counter.of.last THEN TotalOf(counter.of)
                           ELSE counter.of.total
      BY <1>1 DEF CountedOn, Counters
    <3>4. (IF counted'.count < counter.of.last THEN TotalOf(counter.of) ELSE counter.of.total)
            + counted'.count = counted'.real
      <4>1. CASE counted.fresh
        <5>1. ~counter.of.grown => counter.of.last = 0
          BY <2>3, <4>1 DEF CounterInv, OfThisService
        <5>2. counter.of.total + counter.of.last = counted.real
          BY <3>2, <4>1
        <5>3. TotalOf(counter.of) = counted.real
          BY <1>1, <5>1, <5>2 DEF TotalOf, Counters
        <5>4. CASE counted'.count = 0 /\ counted.count > 0 /\ counted'.real = counted.real
          BY <1>1, <3>1, <5>3, <5>4 DEF Counters, CountedServices
        <5>5. CASE counted'.count = counted.count + 1 /\ counted'.real = counted.real + 1
          BY <1>1, <3>1, <5>2, <5>5 DEF Counters, CountedServices
        <5>6. CASE counted'.count = 1 /\ counted'.real = counted.real + 1
          BY <1>1, <3>1, <5>2, <5>3, <5>6 DEF Counters, CountedServices
        <5>7. QED
          BY <1>3, <2>6, <5>4, <5>5, <5>6 DEF Follows
      <4>2. CASE ~counted.fresh
        <5>1. /\ ~counter.of.moved /\ counter.of.total = 0 /\ ~counter.of.grown
              /\ counted.real = 0
          BY <4>2 DEF CounterInv, OfThisService, VariablesOfGsx
        <5>2. counted'.count = counted'.real
          <6>1. \/ counted'.real = counted.real + 1 /\ counted'.count = 1
                \/ counted'.real = counted.real /\ counted'.count = 0
            BY <1>3, <2>4, <2>6, <4>2, Zenon DEF Follows
          <6>2. QED
            BY <5>1, <6>1
        <5>3. TotalOf(counter.of) = 0 /\ counted'.real \in Nat
          BY <1>3, <5>1 DEF TotalOf, Follows, CountedServices
        <5>4. QED
          BY <5>1, <5>2, <5>3
      <4>3. QED
        BY <4>1, <4>2
    <3>5. ~StandsStill(counter.of, counted'.count)
      BY <3>1 DEF StandsStill
    <3>6. QED
      BY <3>1, <3>3, <3>4, <3>5 DEF Passengers
  <2>7. QED
    BY <1>1, <1>2, <1>3, <2>2, <2>5, <2>6 DEF Follows, CountedServices
<1>12. QED
  BY <1>6, <1>7, <1>8, <1>9, <1>10, <1>11 DEF CounterInv

(***************************************************************************)
(* And so does a relaunch, after which nothing is promised of a count that *)
(* misses none.                                                            *)
(***************************************************************************)
LEMMA RelaunchKeeps ==
  ASSUME CounterInv, RelaunchWhileCounting
  PROVE  CounterInv' /\ seen'.relaunches # seen.relaunches
<1> DEFINE p == RestoredFirst(seen.disk.cargo)
<1>1. /\ seen.disk \in [of : Counters, cargo : Cargos]
      /\ seen.disk.of \in Counters /\ seen.disk.cargo \in Cargos /\ counted \in CountedServices
      /\ seen \in [passengers : Nat, percent : Nat, missed : BOOLEAN, relaunches : 0 .. 1,
                   disk : [of : Counters, cargo : Cargos]]
  BY DEF CounterInv, CounterTypes
<1>2. p = [seen.disk.cargo EXCEPT !.first = seen.disk.cargo.last]
  BY DEF RestoredFirst
<1>3. /\ p \in Cargos /\ p.first = p.last /\ p.last = seen.disk.cargo.last
      /\ p.counting = seen.disk.cargo.counting /\ p.moved = seen.disk.cargo.moved
  BY <1>1, <1>2 DEF Cargos
<1>4. /\ counter' = [of |-> seen.disk.of, underway |-> counted.active]
      /\ cargo' = p /\ counted' = counted
      /\ seen' = [seen EXCEPT !.relaunches = 1, !.missed = TRUE,
                              !.passengers = Passengers(seen.disk.of), !.percent = Percent(p)]
      /\ seen.relaunches = 0
      /\ counted.active /\ ~seen.disk.of.counting => counted.fresh /\ counted.loaded > 0
  BY DEF RelaunchWhileCounting
<1> HIDE DEF p
<1>5. Passengers(seen.disk.of) \in Nat /\ Percent(p) \in Nat
  BY <1>1, <1>3 DEF Passengers, Percent, Counters, Cargos
<1>6. 1 \in 0 .. 1
  OBVIOUS
<1>7. /\ seen' \in [passengers : Nat, percent : Nat, missed : BOOLEAN, relaunches : 0 .. 1,
                    disk : [of : Counters, cargo : Cargos]]
      /\ seen'.relaunches = 1 /\ seen'.missed /\ seen'.disk = seen.disk
      /\ seen'.passengers = Passengers(seen.disk.of) /\ seen'.percent = Percent(p)
  BY <1>1, <1>4, <1>5, <1>6
<1>8. CounterTypes'
  BY <1>1, <1>3, <1>4, <1>7 DEF CounterTypes, CountedServices
<1>9. /\ OfThisService(counter.of, counted)' /\ OfThisService(seen.disk.of, counted)'
      /\ CargoOfThisService(cargo, counted)' /\ CargoOfThisService(seen.disk.cargo, counted)'
  BY <1>1, <1>3, <1>4, <1>7 DEF CounterInv, CargoOfThisService
<1>10. VariablesOfGsx' /\ ReportedAsRead' /\ NothingIsMissed'
  BY <1>1, <1>3, <1>4, <1>7 DEF CounterInv, VariablesOfGsx, ReportedAsRead, NothingIsMissed
<1>11. QED
  BY <1>4, <1>7, <1>8, <1>9, <1>10 DEF CounterInv

(***************************************************************************)
(* What GSX does is one of the changes the lemmas are about.               *)
(***************************************************************************)
LEMMA GsxFollows ==
  ASSUME CounterInv,
         \/ ServiceStarts \/ VehicleLeaves \/ CargoMoves \/ ServiceEnds
         \/ \E newVehicle \in BOOLEAN : PassengerMoves(newVehicle)
  PROVE  CounterInv' /\ seen'.passengers = seen.passengers
<1>1. counted \in CountedServices
  BY DEF CounterInv, CounterTypes
<1>2. CASE ServiceStarts
  BY <1>1, <1>2, MovesKeep DEF ServiceStarts, Follows, CountedServices
<1>3. CASE VehicleLeaves
  BY <1>1, <1>3, MovesKeep DEF VehicleLeaves, Follows, CountedServices
<1>4. CASE CargoMoves
  <2> DEFINE next == [counted EXCEPT !.loaded = @ + 1, !.percent = counted.loaded + 1]
  <2>1. Moves(next)
    BY <1>4 DEF CargoMoves
  <2>2. counted.loaded + 1 \in Nat
    BY <1>1 DEF CountedServices
  <2>3. /\ next \in CountedServices /\ next.loaded = counted.loaded + 1
        /\ next.percent = counted.loaded + 1
        /\ next.count = counted.count /\ next.real = counted.real /\ next.fresh = counted.fresh
    BY <1>1, <2>2 DEF CountedServices
  <2> HIDE DEF next
  <2>4. Follows(counted, next)
    BY <2>3 DEF Follows
  <2>5. QED
    BY <2>1, <2>4, MovesKeep
<1>5. CASE ServiceEnds
  BY <1>1, <1>5, MovesKeep DEF ServiceEnds, Follows, CountedServices
<1>6. CASE \E newVehicle \in BOOLEAN : PassengerMoves(newVehicle)
  <2>1. PICK newVehicle \in BOOLEAN : PassengerMoves(newVehicle)
    BY <1>6
  <2> DEFINE next == [counted EXCEPT !.real = @ + 1, !.fresh = TRUE,
                                 !.count = IF newVehicle THEN 1 ELSE @ + 1]
  <2>2. Moves(next) /\ counted.active /\ (counted.fresh \/ newVehicle)
    BY <2>1 DEF PassengerMoves
  <2>3. (IF newVehicle THEN 1 ELSE counted.count + 1) \in Nat /\ counted.real + 1 \in Nat
    BY <1>1 DEF CountedServices
  <2>4. /\ next \in CountedServices /\ next.real = counted.real + 1 /\ next.fresh
        /\ next.count = (IF newVehicle THEN 1 ELSE counted.count + 1)
        /\ next.loaded = counted.loaded /\ next.percent = counted.percent
    BY <1>1, <2>3 DEF CountedServices
  <2> HIDE DEF next
  <2>5. Follows(counted, next)
    BY <2>2, <2>4 DEF Follows
  <2>6. QED
    BY <2>2, <2>5, MovesKeep
<1>7. QED
  BY <1>2, <1>3, <1>4, <1>5, <1>6

(***************************************************************************)
(* Every step keeps the invariant, and what is reported of the passengers  *)
(* does not go back but in a relaunch.                                     *)
(***************************************************************************)
LEMMA CountersStep ==
  ASSUME CounterInv, [CounterNext]_counterVars
  PROVE  /\ CounterInv'
         /\ \/ seen'.passengers >= seen.passengers \/ seen'.relaunches # seen.relaunches
            \/ UNCHANGED counterVars
<1>1. CASE UNCHANGED counterVars
  BY <1>1 DEF counterVars, CounterInv, CounterTypes, VariablesOfGsx, ReportedAsRead, NothingIsMissed
<1>2. CASE \E saved \in BOOLEAN : Look(saved)
  BY <1>2, LookKeeps
<1>3. CASE RelaunchWhileCounting
  BY <1>3, RelaunchKeeps
<1>4. ASSUME \/ ServiceStarts \/ VehicleLeaves \/ CargoMoves \/ ServiceEnds
             \/ \E newVehicle \in BOOLEAN : PassengerMoves(newVehicle)
      PROVE  CounterInv' /\ seen'.passengers >= seen.passengers
  <2>1. CounterInv' /\ seen'.passengers = seen.passengers
    BY <1>4, GsxFollows
  <2>2. seen.passengers \in Nat
    BY DEF CounterInv, CounterTypes
  <2>3. QED
    BY <2>1, <2>2
<1>5. QED
  BY <1>1, <1>2, <1>3, <1>4 DEF CounterNext

\* Nothing has been counted at the start.
LEMMA CountersInit == ASSUME CounterInit PROVE CounterInv
<1>1. NoCounter \in Counters /\ NoCargo \in Cargos
  BY DEF NoCounter, NoCargo, Counters, Cargos
<1>2. /\ counted \in CountedServices /\ counted.real = 0 /\ counted.loaded = 0
      /\ ~counted.fresh /\ ~counted.active
  <2>1. 0 .. MaxStale \subseteq Nat /\ 0 .. 2 \subseteq Nat
    OBVIOUS
  <2>2. counted \in [active : {FALSE}, count : 0 .. MaxStale, real : {0}, fresh : {FALSE},
                 percent : 0 .. 2, loaded : {0}, looked : {TRUE}]
    BY DEF CounterInit
  <2> HIDE DEF CounterInit
  <2>3. counted.active \in BOOLEAN /\ counted.fresh \in BOOLEAN /\ counted.looked \in BOOLEAN
    BY <2>2
  <2>4. /\ ~counted.active /\ ~counted.fresh /\ counted.looked
        /\ counted.real = 0 /\ counted.loaded = 0
        /\ counted.count \in Nat /\ counted.percent \in Nat
    BY <2>1, <2>2
  <2>5. counted = [active |-> counted.active, count |-> counted.count, real |-> counted.real,
               fresh |-> counted.fresh, percent |-> counted.percent, loaded |-> counted.loaded,
               looked |-> counted.looked]
    BY <2>2
  <2>6. ASSUME NEW a \in BOOLEAN, NEW c \in Nat, NEW r \in Nat, NEW f \in BOOLEAN,
               NEW p \in Nat, NEW l \in Nat, NEW k \in BOOLEAN
        PROVE  [active |-> a, count |-> c, real |-> r, fresh |-> f, percent |-> p,
                loaded |-> l, looked |-> k] \in CountedServices
    BY DEF CountedServices
  <2>7. counted \in CountedServices
    <3>1. counted.real \in Nat /\ counted.loaded \in Nat
      BY <2>4
    <3>2. [active |-> counted.active, count |-> counted.count, real |-> counted.real,
           fresh |-> counted.fresh, percent |-> counted.percent, loaded |-> counted.loaded,
           looked |-> counted.looked] \in CountedServices
      BY <2>3, <2>4, <2>6, <3>1
    <3>3. QED
      BY <2>5, <3>2, Zenon
  <2>8. QED
    BY <2>4, <2>7
<1>3. /\ counter = [of |-> NoCounter, underway |-> FALSE] /\ cargo = NoCargo
      /\ seen = [passengers |-> 0, percent |-> 0, missed |-> FALSE, relaunches |-> 0,
                 disk |-> [of |-> NoCounter, cargo |-> NoCargo]]
  BY DEF CounterInit
<1>4. CounterTypes
  BY <1>1, <1>2, <1>3 DEF CounterTypes
<1>5. /\ ~NoCounter.counting /\ ~NoCounter.moved /\ NoCounter.total = 0 /\ ~NoCounter.grown
      /\ ~NoCargo.counting /\ ~NoCargo.moved
  BY DEF NoCounter, NoCargo
<1>6. /\ OfThisService(NoCounter, counted) /\ CargoOfThisService(NoCargo, counted)
  BY <1>5 DEF OfThisService, CargoOfThisService
<1>7. VariablesOfGsx
  BY <1>2, <1>3 DEF VariablesOfGsx
<1>8. ReportedAsRead
  <2>1. NoCounter.counting = NoCargo.counting
    BY DEF NoCounter, NoCargo
  <2>2. Passengers(NoCounter) = 0 /\ Percent(NoCargo) = 0
    BY <1>5 DEF Passengers, Percent
  <2>3. QED
    BY <1>3, <2>1, <2>2 DEF ReportedAsRead
<1>9. NothingIsMissed
  BY <1>2, <1>3, <1>5 DEF NothingIsMissed
<1>10. QED
  BY <1>3, <1>4, <1>6, <1>7, <1>8, <1>9 DEF CounterInv

(***************************************************************************)
(* However many passengers and vehicles there are, and whatever the flight *)
(* before left in GSX's variables, the client reports no more than moved,  *)
(* and everyone where it misses no change.                                 *)
(***************************************************************************)
THEOREM CountsHold == CounterSpec => []CountsWhoMoved
<1>1. CounterInv => CountsWhoMoved
  <2>1. SUFFICES ASSUME CounterInv PROVE CountsWhoMoved
    OBVIOUS
  <2>2. counter.of \in Counters /\ cargo \in Cargos /\ counted \in CountedServices
    BY <2>1 DEF CounterInv, CounterTypes
  <2>3. NeverMoreThanMoved
    BY <2>1, <2>2 DEF CounterInv, OfThisService, CargoOfThisService, ReportedAsRead, Passengers,
       Percent, NeverMoreThanMoved, Counters, Cargos, CountedServices
  <2>4. EveryoneIsCounted
    <3>1. SUFFICES ASSUME ~seen.missed, counted.looked, counted.fresh
                   PROVE  seen.passengers = counted.real
      BY DEF EveryoneIsCounted
    <3>2. /\ counter.of.moved /\ counter.of.last = counted.count
          /\ Passengers(CountedOn(counter.of, counted.count)) = counted.real
      BY <2>1, <3>1 DEF CounterInv, NothingIsMissed
    <3>3. LET d == CountedOn(counter.of, counted.count)
          IN  d.moved /\ d.last = counted.count /\ d.total = counter.of.total
      BY <2>2, <3>2 DEF CountedOn, Counters, CountedServices
    <3>4. QED
      BY <2>1, <3>2, <3>3 DEF CounterInv, ReportedAsRead, Passengers
  <2>5. QED
    BY <2>3, <2>4 DEF CountsWhoMoved
<1>2. QED
  BY <1>1, CountersInit, CountersStep, PTL DEF CounterSpec

(***************************************************************************)
(* What the client reports of the passengers goes back in a relaunch only. *)
(***************************************************************************)
THEOREM PassengersStay == CounterSpec => PassengersDoNotLeave
<1>1. CounterInv /\ [CounterNext]_counterVars =>
        [seen'.passengers >= seen.passengers \/ seen'.relaunches # seen.relaunches]_counterVars
  BY CountersStep DEF counterVars
<1>2. QED
  BY <1>1, CountersInit, CountersStep, PTL DEF CounterSpec, PassengersDoNotLeave

-----------------------------------------------------------------------------
(***************************************************************************)
(* The copy of GSX's state.                                                *)
(***************************************************************************)
Ports == {"fallback", "own"}
GsxStates == [Fields -> Values \cup {None}]
Messages ==
  [type : {"hello", "result"}] \cup [type : {"snapshot"}, told : GsxStates]
    \cup [type : {"patch"}, field : Fields, value : Values]

Sockets == {"closed", "opening", "open", "closing"}
Apis == [socket : Sockets, done : BOOLEAN, watching : BOOLEAN, stopping : BOOLEAN,
         reconnecting : BOOLEAN, backoff : 0 .. MaxBackoff, port : Ports]
Mirrors == [connected : BOOLEAN, synced : BOOLEAN, of : GsxStates]
Servers == [up : BOOLEAN, deaf : BOOLEAN, heard : {"no", "lost", "yes"},
            port : Ports, ini : Ports, of : GsxStates, faults : Nat]

ApiTypes ==
  api \in Apis /\ mirror \in Mirrors /\ server \in Servers /\ wire \in Seq(Messages)

\* What the flags of the connection say of its socket.
SocketAsFlagged ==
  /\ api.reconnecting => api.socket = "closed"
  /\ api.socket \in {"closed", "opening"} => wire = <<>>
  /\ mirror.connected = api.done
  /\ api.watching => ~api.done
  /\ api.socket = "open" => server.up

\* The first message of a connection is applied to an empty copy.
HeardMirror == IF api.done THEN mirror ELSE EmptyMirror

ToldOfGsx ==
  api.socket = "open" =>
    IF server.heard = "yes" THEN \A f \in Fields : LastTold(HeardMirror, wire, f, server.of[f])
    ELSE ~api.done /\ wire = <<>>

ApiInv == ApiTypes /\ SocketAsFlagged /\ ToldOfGsx
-----------------------------------------------------------------------------
(***************************************************************************)
(* What was told last, as a message is taken and as one is sent.           *)
(***************************************************************************)
LEMMA AppliedIsTold ==
  ASSUME NEW m \in Mirrors,
         NEW message \in Messages
  PROVE  /\ Applied(m, message) \in Mirrors
         /\ Applied(m, message).connected = m.connected
         /\ \A f \in Fields :
              Applied(m, message).of[f] =
                IF Tells(message, f) THEN Told(message, f) ELSE m.of[f]
<1>1. CASE message \in [type : {"hello", "result"}]
  BY <1>1 DEF Applied, Tells
<1>2. CASE message \in [type : {"snapshot"}, told : GsxStates]
  <2>1. message.type = "snapshot" /\ message.told \in GsxStates
    BY <1>2
  <2> DEFINE now == [f \in Fields |-> IF message.told[f] = None THEN m.of[f] ELSE message.told[f]]
  <2>2. Applied(m, message) = [m EXCEPT !.synced = TRUE, !.of = now]
    BY <2>1 DEF Applied, ApplySnapshot
  <2>3. now \in GsxStates
    BY <2>1 DEF GsxStates, Mirrors
  <2> HIDE DEF now
  <2>4. /\ Applied(m, message) \in Mirrors
        /\ Applied(m, message).connected = m.connected /\ Applied(m, message).of = now
    BY <2>2, <2>3 DEF Mirrors
  <2>5. \A f \in Fields : now[f] = IF Tells(message, f) THEN Told(message, f) ELSE m.of[f]
    BY <2>1 DEF now, Tells, Told
  <2>6. QED
    BY <2>4, <2>5
<1>3. CASE message \in [type : {"patch"}, field : Fields, value : Values]
  <2>1. message.type = "patch" /\ message.field \in Fields /\ message.value \in Values
    BY <1>3
  <2>2. Applied(m, message) = [m EXCEPT !.of = [m.of EXCEPT ![message.field] = message.value]]
    BY <2>1 DEF Applied, ApplyPatch
  <2> DEFINE now == [m.of EXCEPT ![message.field] = message.value]
  <2>3. now \in GsxStates
    BY <2>1 DEF GsxStates, Mirrors
  <2>4. \A f \in Fields : now[f] = IF Tells(message, f) THEN Told(message, f) ELSE m.of[f]
    BY <2>1 DEF Tells, Told, GsxStates, Mirrors
  <2> HIDE DEF now
  <2>5. /\ Applied(m, message) \in Mirrors
        /\ Applied(m, message).connected = m.connected /\ Applied(m, message).of = now
    BY <2>2, <2>3 DEF now, Mirrors
  <2>6. QED
    BY <2>4, <2>5
<1>4. QED
  BY <1>1, <1>2, <1>3 DEF Messages

\* What the client takes from the wire was told, so the last that is told stays.
LEMMA TakenIsStillTold ==
  ASSUME NEW m \in Mirrors,
         NEW messages \in Seq(Messages), messages # <<>>, NEW f \in Fields, NEW value,
         LastTold(m, messages, f, value)
  PROVE  LastTold(Applied(m, Head(messages)), Tail(messages), f, value)
<1>1. /\ Head(messages) = messages[1] /\ messages[1] \in Messages
      /\ Len(Tail(messages)) = Len(messages) - 1 /\ Len(messages) \in Nat \ {0}
      /\ \A i \in 1 .. Len(messages) - 1 : Tail(messages)[i] = messages[i + 1]
  OBVIOUS
<1>2. Applied(m, Head(messages)).of[f] =
        IF Tells(messages[1], f) THEN Told(messages[1], f) ELSE m.of[f]
  BY <1>1, AppliedIsTold
<1>3. CASE m.of[f] = value /\ \A i \in 1 .. Len(messages) : ~Tells(messages[i], f)
  BY <1>1, <1>2, <1>3 DEF LastTold
<1>4. ASSUME NEW i \in 1 .. Len(messages),
             Tells(messages[i], f), Told(messages[i], f) = value,
             \A j \in i + 1 .. Len(messages) : ~Tells(messages[j], f)
      PROVE  LastTold(Applied(m, Head(messages)), Tail(messages), f, value)
  <2>1. CASE i = 1
    BY <1>1, <1>2, <1>4, <2>1 DEF LastTold
  <2>2. CASE i # 1
    <3>1. i - 1 \in 1 .. Len(Tail(messages))
      BY <1>1, <2>2
    <3>2. Tail(messages)[i - 1] = messages[i]
      BY <1>1, <3>1
    <3>3. \A j \in (i - 1) + 1 .. Len(Tail(messages)) : ~Tells(Tail(messages)[j], f)
      BY <1>1, <1>4
    <3>4. QED
      BY <1>4, <3>1, <3>2, <3>3 DEF LastTold
  <2>3. QED
    BY <2>1, <2>2
<1>5. QED
  BY <1>3, <1>4 DEF LastTold

\* What GSX sends is the last that is told, on top of what was sent before.
LEMMA SentIsToldLast ==
  ASSUME NEW m, NEW messages \in Seq(Messages), NEW message \in Messages,
         NEW f \in Fields, NEW value,
         IF Tells(message, f) THEN Told(message, f) = value
         ELSE LastTold(m, messages, f, value)
  PROVE  LastTold(m, messages \o <<message>>, f, value)
<1> DEFINE now == messages \o <<message>>
<1>1. /\ Len(now) = Len(messages) + 1 /\ Len(messages) \in Nat
      /\ now[Len(messages) + 1] = message
      /\ \A i \in 1 .. Len(messages) : now[i] = messages[i]
  OBVIOUS
<1> HIDE DEF now
<1>2. CASE Tells(message, f)
  BY <1>1, <1>2 DEF LastTold
<1>3. CASE ~Tells(message, f)
  <2>1. \A i \in 1 .. Len(now) : i = Len(messages) + 1 \/ i \in 1 .. Len(messages)
    BY <1>1
  <2>2. ASSUME m.of[f] = value, \A i \in 1 .. Len(messages) : ~Tells(messages[i], f)
        PROVE  LastTold(m, now, f, value)
    <3>1. \A i \in 1 .. Len(now) : ~Tells(now[i], f)
      BY <1>1, <1>3, <2>1, <2>2
    <3>2. QED
      BY <2>2, <3>1 DEF LastTold
  <2>3. ASSUME NEW i \in 1 .. Len(messages),
               Tells(messages[i], f), Told(messages[i], f) = value,
               \A j \in i + 1 .. Len(messages) : ~Tells(messages[j], f)
        PROVE  LastTold(m, now, f, value)
    <3>1. i \in 1 .. Len(now) /\ now[i] = messages[i]
      BY <1>1
    <3>2. \A j \in i + 1 .. Len(now) : ~Tells(now[j], f)
      BY <1>1, <1>3, <2>3
    <3>3. QED
      BY <2>3, <3>1, <3>2 DEF LastTold
  <2>4. LastTold(m, messages, f, value)
    BY <1>3
  <2>5. LastTold(m, now, f, value)
    BY <2>2, <2>3, <2>4 DEF LastTold
  <2>6. QED
    BY <2>5 DEF now
<1>4. QED
  BY <1>2, <1>3

-----------------------------------------------------------------------------
(***************************************************************************)
(* The steps, those of the connection first.                               *)
(***************************************************************************)
LEMMA NothingIsKnown == NothingKnown \in GsxStates /\ EmptyMirror \in Mirrors
BY DEF NothingKnown, EmptyMirror, GsxStates, Mirrors

\* A reconnection that is waited for begins with a closed socket.
LEMMA ScheduledIsClosed ==
  ASSUME NEW a \in Apis, a.socket = "closed"
  PROVE  Scheduled(a) \in Apis /\ Scheduled(a).socket = "closed"
         /\ Scheduled(a).done = a.done /\ Scheduled(a).watching = a.watching
<1> DEFINE backoff == IF a.backoff < MaxBackoff THEN a.backoff + 1 ELSE a.backoff
<1>1. backoff \in 0 .. MaxBackoff
  BY ApiConstants DEF Apis
<1>2. Scheduled(a) = a \/ Scheduled(a) = [a EXCEPT !.reconnecting = TRUE, !.backoff = backoff]
  BY DEF Scheduled
<1> HIDE DEF backoff
<1>3. QED
  BY <1>1, <1>2 DEF Apis

\* A connection that was lost, and one that the client gave up.
LEMMA DisconnectedIsClosed ==
  ASSUME NEW a \in Apis
  PROVE  /\ Disconnected(a) \in Apis /\ Disconnected(a).socket = "closed"
         /\ ~Disconnected(a).done /\ ~Disconnected(a).watching
<1> DEFINE closed == [a EXCEPT !.socket = "closed", !.done = FALSE, !.watching = FALSE]
<1>1. closed \in Apis /\ closed.socket = "closed" /\ ~closed.done /\ ~closed.watching
  BY DEF Apis, Sockets
<1>2. Disconnected(a) = Scheduled(closed)
  BY DEF Disconnected
<1> HIDE DEF closed
<1>3. QED
  BY <1>1, <1>2, ScheduledIsClosed

\* Without a connection nothing of GSX is known.
LEMMA ForgottenIsNotConnected ==
  ASSUME ApiInv, ForgetHandshake
  PROVE  mirror' \in Mirrors /\ ~mirror'.connected
BY DEF ApiInv, ApiTypes, SocketAsFlagged, ForgetHandshake, ApplyConnection, Mirrors

\* With the socket closed and no message under way nothing is promised.
LEMMA ClosedKeeps ==
  ASSUME ApiInv, api' \in Apis, api'.socket = "closed", ~api'.done, ~api'.watching,
         mirror' \in Mirrors, ~mirror'.connected, server' \in Servers, wire' = <<>>
  PROVE  ApiInv'
<1>1. ApiTypes'
  BY DEF ApiTypes
<1>2. SocketAsFlagged'
  BY DEF SocketAsFlagged, Apis, Mirrors
<1>3. QED
  BY <1>1, <1>2 DEF ApiInv, ToldOfGsx

\* The steps that end a connection.
LEMMA DisconnectionKeeps ==
  ASSUME ApiInv, OnDisconnected, server' \in Servers
  PROVE  ApiInv'
<1>1. api \in Apis
  BY DEF ApiInv, ApiTypes
<1>2. mirror' \in Mirrors /\ ~mirror'.connected
  BY ForgottenIsNotConnected DEF OnDisconnected
<1>3. QED
  BY <1>1, <1>2, DisconnectedIsClosed, ClosedKeeps DEF OnDisconnected

\* The steps that begin one: the ticks of the backoff, the socket, and the handshake.
LEMMA ConnectionKeeps ==
  ASSUME ApiInv,
         OnReconnect \/ OnConnected \/ CannotConnect \/ OnHandshakeTimeout \/ Stop \/ Closed
  PROVE  ApiInv'
<1>1. /\ api \in Apis /\ mirror \in Mirrors /\ server \in Servers /\ wire \in Seq(Messages)
      /\ api.reconnecting => api.socket = "closed"
      /\ api.socket \in {"closed", "opening"} => wire = <<>>
      /\ mirror.connected = api.done /\ (api.watching => ~api.done)
      /\ api.socket = "open" => server.up
  BY DEF ApiInv, ApiTypes, SocketAsFlagged
<1>2. CASE OnReconnect
  <2>1. /\ api' \in Apis /\ api'.socket = "opening" /\ ~api'.reconnecting
        /\ api'.done = api.done /\ api'.watching = api.watching
    BY <1>1, <1>2 DEF OnReconnect, ResolvePort, Apis, Sockets, Servers
  <2>2. mirror' = mirror /\ server' = server /\ wire' = wire /\ wire = <<>>
    BY <1>1, <1>2 DEF OnReconnect
  <2>3. ApiTypes'
    BY <1>1, <2>1, <2>2 DEF ApiTypes
  <2>4. QED
    BY <1>1, <2>1, <2>2, <2>3 DEF ApiInv, SocketAsFlagged, ToldOfGsx
<1>3. CASE OnConnected
  <2>1. mirror' \in Mirrors /\ ~mirror'.connected
    BY <1>3, ForgottenIsNotConnected DEF OnConnected
  <2>2. /\ api' \in Apis /\ api'.socket = "open" /\ ~api'.done
        /\ api'.reconnecting = api.reconnecting
    BY <1>1, <1>3 DEF OnConnected, WatchesForTheAnswer, Apis, Sockets
  <2>3. server' \in Servers /\ server'.up /\ server'.heard # "yes" /\ wire' = wire
    BY <1>1, <1>3 DEF OnConnected, Servers
  <2>4. ApiTypes'
    BY <1>1, <2>1, <2>2, <2>3 DEF ApiTypes
  <2>5. ~api'.reconnecting /\ wire = <<>>
    BY <1>1, <1>3, <2>2 DEF OnConnected
  <2>6. SocketAsFlagged'
    BY <2>1, <2>2, <2>3, <2>5 DEF SocketAsFlagged, Apis, Mirrors
  <2>7. QED
    BY <2>2, <2>3, <2>4, <2>5, <2>6 DEF ApiInv, ToldOfGsx
<1>4. CASE CannotConnect
  BY <1>1, <1>4, DisconnectionKeeps DEF CannotConnect
<1>5. CASE OnHandshakeTimeout
  <2>1. /\ api' = Scheduled(Disconnected(api)) /\ wire' = <<>> /\ mirror' = mirror
        /\ api.watching
    BY <1>5 DEF OnHandshakeTimeout
  <2>2. server' \in Servers
    BY <1>1, <1>5 DEF OnHandshakeTimeout, Servers
  <2>3. QED
    BY <1>1, <2>1, <2>2, DisconnectedIsClosed, ScheduledIsClosed, ClosedKeeps
<1>6. CASE Stop
  <2>1. /\ api' \in Apis /\ ~api'.reconnecting
        /\ \/ api'.socket = "closed" /\ api.socket = "closed"
           \/ api'.socket = "closing"
        /\ api'.done = api.done /\ ~api'.watching
    BY <1>1, <1>6 DEF Stop, Apis, Sockets
  <2>2. mirror' = mirror /\ server' = server /\ wire' = wire
    BY <1>6 DEF Stop
  <2>3. ApiTypes'
    BY <1>1, <2>1, <2>2 DEF ApiTypes
  <2>4. QED
    BY <1>1, <2>1, <2>2, <2>3 DEF ApiInv, SocketAsFlagged, ToldOfGsx
<1>7. CASE Closed
  BY <1>1, <1>7, DisconnectionKeeps DEF Closed
<1>8. QED
  BY <1>2, <1>3, <1>4, <1>5, <1>6, <1>7

(***************************************************************************)
(* A message is taken, and GSX tells of its state.                         *)
(***************************************************************************)
LEMMA MessagesKeep ==
  ASSUME ApiInv, OnTextMessage
  PROVE  ApiInv'
<1> DEFINE message == Head(wire)
           connected == IF api.done THEN mirror ELSE ApplyConnection(mirror, TRUE)
<1>1. /\ api \in Apis /\ mirror \in Mirrors /\ server \in Servers /\ wire \in Seq(Messages)
      /\ wire # <<>> /\ api.socket = "open" /\ server.up /\ api.reconnecting = FALSE
      /\ mirror.connected = api.done
  BY DEF ApiInv, ApiTypes, SocketAsFlagged, OnTextMessage, Apis
<1>2. /\ api' = IF api.done THEN api
                ELSE [api EXCEPT !.done = TRUE, !.watching = FALSE, !.backoff = 0]
      /\ mirror' = Applied(connected, message) /\ wire' = Tail(wire) /\ server' = server
  BY DEF OnTextMessage
<1>3. /\ connected \in Mirrors /\ connected.connected /\ connected.of = HeardMirror.of
  BY <1>1, NothingIsKnown DEF ApplyConnection, HeardMirror, Mirrors
<1>4. message \in Messages /\ Tail(wire) \in Seq(Messages)
  BY <1>1
<1>5. server.heard = "yes" /\ \A f \in Fields : LastTold(connected, wire, f, server.of[f])
  BY <1>1, <1>3 DEF ApiInv, ToldOfGsx, LastTold
<1> HIDE DEF connected, message
<1>6. mirror' \in Mirrors /\ mirror'.connected
  BY <1>2, <1>3, <1>4, AppliedIsTold DEF Mirrors
<1>7. \A f \in Fields : LastTold(mirror', wire', f, server'.of[f])
  BY <1>1, <1>2, <1>3, <1>5, TakenIsStillTold DEF Mirrors, message
<1>8. 0 \in 0 .. MaxBackoff
  BY ApiConstants
<1>9. /\ api' \in Apis /\ api'.socket = "open" /\ api'.done /\ ~api'.watching
      /\ api'.reconnecting = FALSE
  <2>1. CASE api.done
    BY <1>1, <1>2, <2>1 DEF ApiInv, SocketAsFlagged, Apis
  <2>2. CASE ~api.done
    BY <1>1, <1>2, <1>8, <2>2 DEF Apis
  <2>3. QED
    BY <2>1, <2>2
<1>10. ApiTypes'
  BY <1>1, <1>2, <1>4, <1>6, <1>9 DEF ApiTypes
<1>11. SocketAsFlagged'
  BY <1>1, <1>2, <1>6, <1>9 DEF SocketAsFlagged, Mirrors
<1>12. ToldOfGsx'
  BY <1>2, <1>5, <1>7, <1>9 DEF ToldOfGsx, HeardMirror
<1>13. QED
  BY <1>10, <1>11, <1>12 DEF ApiInv

\* What GSX does: it takes the connection, greets, tells its state and its changes.
LEMMA GsxTells ==
  ASSUME ApiInv, AnswersTheSubscription \/ StateChanges \/ AnswersACommand
  PROVE  ApiInv'
<1>1. /\ api \in Apis /\ mirror \in Mirrors /\ server \in Servers /\ wire \in Seq(Messages)
      /\ server.of \in GsxStates
  BY DEF ApiInv, ApiTypes, Servers
<1>2. api' = api /\ mirror' = mirror
  BY DEF AnswersTheSubscription, StateChanges, AnswersACommand
<1>3. /\ [type |-> "hello"] \in Messages /\ [type |-> "result"] \in Messages
      /\ [type |-> "snapshot", told |-> server.of] \in Messages
      /\ \A f \in Fields, v \in Values : [type |-> "patch", field |-> f, value |-> v] \in Messages
  BY <1>1 DEF Messages
<1>4. HeardMirror \in Mirrors /\ HeardMirror' = HeardMirror
  BY <1>1, <1>2, NothingIsKnown DEF HeardMirror
<1>5. ASSUME server' \in Servers, server'.up = server.up, wire' \in Seq(Messages),
             api.socket \in {"closed", "opening"} => wire' = <<>>, ToldOfGsx'
      PROVE  ApiInv'
  <2>1. ApiTypes'
    BY <1>1, <1>2, <1>5 DEF ApiTypes
  <2>2. SocketAsFlagged'
    BY <1>1, <1>2, <1>5 DEF ApiInv, SocketAsFlagged
  <2>3. QED
    BY <1>5, <2>1, <2>2 DEF ApiInv
<1>6. CASE AnswersTheSubscription
  <2> DEFINE hello == [type |-> "hello"]
             snapshot == [type |-> "snapshot", told |-> server.of]
  <2>1. /\ server' \in Servers /\ server'.up = server.up /\ server'.of = server.of
        /\ server'.heard = "yes" /\ api.socket = "open" /\ server.heard = "no"
    BY <1>1, <1>6 DEF AnswersTheSubscription, Servers
  <2>2. wire = <<>> /\ ~api.done
    BY <2>1 DEF ApiInv, ToldOfGsx
  <2>3. wire' = <<>> \o <<hello, snapshot>>
    BY <1>6, <2>2 DEF AnswersTheSubscription, Tell
  <2>4. wire' = (<<>> \o <<hello>>) \o <<snapshot>>
    BY <2>3
  <2>5. \A f \in Fields : ~Tells(hello, f)
    BY DEF Tells
  <2>6. \A f \in Fields : /\ Tells(snapshot, f) <=> server.of[f] # None
                          /\ Told(snapshot, f) = server.of[f]
    BY DEF Tells, Told
  <2>7. hello \in Messages /\ snapshot \in Messages /\ <<>> \o <<hello>> \in Seq(Messages)
    BY <1>3
  <2> HIDE DEF hello, snapshot
  <2>8. ASSUME NEW f \in Fields
        PROVE  LastTold(EmptyMirror, wire', f, server.of[f])
    <3>1. CASE server.of[f] = None
      <4>1. EmptyMirror.of[f] = None
        BY <2>8 DEF EmptyMirror, NothingKnown
      <4>2. LastTold(EmptyMirror, <<>>, f, None)
        BY <4>1 DEF LastTold
      <4>3. LastTold(EmptyMirror, <<>> \o <<hello>>, f, None)
        <5>1. <<>> \in Seq(Messages)
          OBVIOUS
        <5>2. QED
          BY <2>5, <2>7, <4>2, <5>1, SentIsToldLast
      <4>4. QED
        BY <2>4, <2>6, <2>7, <3>1, <4>3, SentIsToldLast
    <3>2. CASE server.of[f] # None
      BY <2>4, <2>6, <2>7, <3>2, SentIsToldLast
    <3>3. QED
      BY <3>1, <3>2
  <2>9. ToldOfGsx'
    BY <1>2, <2>1, <2>2, <2>8 DEF ToldOfGsx, HeardMirror
  <2>10. wire' \in Seq(Messages)
    BY <2>4, <2>7
  <2>11. QED
    BY <1>5, <2>1, <2>9, <2>10
<1>7. CASE StateChanges
  <2>1. PICK f \in Fields, v \in Values :
          /\ server' = [server EXCEPT !.of[f] = v]
          /\ wire' = IF server.heard = "yes" /\ api.socket = "open"
                     THEN wire \o <<[type |-> "patch", field |-> f, value |-> v]>> ELSE wire
    BY <1>7 DEF StateChanges, Tell
  <2> DEFINE patch == [type |-> "patch", field |-> f, value |-> v]
             now == [server.of EXCEPT ![f] = v]
  <2>2. now \in GsxStates /\ \A g \in Fields : now[g] = IF g = f THEN v ELSE server.of[g]
    BY <1>1 DEF GsxStates
  <2>3. server' = [server EXCEPT !.of = now]
    BY <2>1
  <2>4. patch \in Messages /\ Told(patch, f) = v /\ \A g \in Fields : Tells(patch, g) <=> g = f
    BY <1>3 DEF Tells, Told
  <2>5. wire' = IF server.heard = "yes" /\ api.socket = "open" THEN wire \o <<patch>> ELSE wire
    BY <2>1
  <2> HIDE DEF patch, now
  <2>6. /\ server' \in Servers /\ server'.up = server.up /\ server'.of = now
        /\ server'.heard = server.heard
    BY <1>1, <2>2, <2>3 DEF Servers
  <2>7. wire' \in Seq(Messages)
    BY <1>1, <2>4, <2>5
  <2>8. CASE server.heard = "yes" /\ api.socket = "open"
    <3>1. \A g \in Fields : LastTold(HeardMirror, wire, g, server.of[g])
      BY <2>8 DEF ApiInv, ToldOfGsx
    <3>2. \A g \in Fields : LastTold(HeardMirror, wire', g, now[g])
      BY <1>1, <2>2, <2>4, <2>5, <2>8, <3>1, SentIsToldLast
    <3>3. ToldOfGsx'
      BY <1>2, <1>4, <2>6, <2>8, <3>2 DEF ToldOfGsx
    <3>4. QED
      BY <1>5, <2>6, <2>7, <2>8, <3>3
  <2>9. CASE ~(server.heard = "yes" /\ api.socket = "open")
    <3>1. wire' = wire
      BY <2>5, <2>9
    <3>2. ToldOfGsx'
      BY <1>2, <2>6, <2>9, <3>1 DEF ApiInv, ToldOfGsx
    <3>3. QED
      BY <1>5, <2>6, <2>7, <3>1, <3>2 DEF ApiInv, SocketAsFlagged
  <2>10. QED
    BY <2>8, <2>9
<1>8. CASE AnswersACommand
  <2> DEFINE result == [type |-> "result"]
  <2>1. /\ wire' = wire \o <<result>> /\ server' = server
        /\ server.heard = "yes" /\ api.socket = "open"
    BY <1>8 DEF AnswersACommand, Tell
  <2>2. result \in Messages /\ \A f \in Fields : ~Tells(result, f)
    BY <1>3 DEF Tells
  <2> HIDE DEF result
  <2>3. \A f \in Fields : LastTold(HeardMirror, wire', f, server.of[f])
    BY <1>1, <2>1, <2>2, SentIsToldLast DEF ApiInv, ToldOfGsx
  <2>4. ToldOfGsx'
    BY <1>2, <1>4, <2>1, <2>3 DEF ToldOfGsx
  <2>5. wire' \in Seq(Messages)
    BY <1>1, <2>1, <2>2
  <2>6. QED
    BY <1>1, <1>5, <2>1, <2>4, <2>5
<1>9. QED
  BY <1>6, <1>7, <1>8

\* GSX ends, is started again, stops listening or reads another port.
LEMMA OutagesKeep ==
  ASSUME ApiInv, ServerEnds \/ LinkIsLost \/ ServerStarts \/ HearsAgain
  PROVE  ApiInv'
<1>1. /\ api \in Apis /\ mirror \in Mirrors /\ server \in Servers /\ wire \in Seq(Messages)
      /\ api.socket = "open" => server.up
  BY DEF ApiInv, ApiTypes, SocketAsFlagged
<1>2. ASSUME api' = api, mirror' = mirror, wire' = wire, server' \in Servers,
             api.socket = "open" =>
               server'.up /\ server'.heard = server.heard /\ server'.of = server.of
      PROVE  ApiInv'
  <2>1. ApiTypes'
    BY <1>1, <1>2 DEF ApiTypes
  <2>2. SocketAsFlagged'
    BY <1>2 DEF ApiInv, SocketAsFlagged
  <2>3. ToldOfGsx'
    BY <1>2 DEF ApiInv, ToldOfGsx, HeardMirror
  <2>4. QED
    BY <2>1, <2>2, <2>3 DEF ApiInv
<1>3. CASE ServerEnds
  <2>1. server' \in Servers
    <3>1. server' = [server EXCEPT !.up = FALSE, !.heard = "no", !.faults = server.faults + 1]
      BY <1>3 DEF ServerEnds
    <3>2. server.faults + 1 \in Nat
      BY <1>1 DEF Servers
    <3>3. QED
      BY <1>1, <3>1, <3>2 DEF Servers
  <2>2. CASE api.socket = "open"
    BY <1>3, <2>1, <2>2, DisconnectionKeeps DEF ServerEnds
  <2>3. CASE api.socket # "open"
    BY <1>2, <1>3, <2>1, <2>3 DEF ServerEnds
  <2>4. QED
    BY <2>2, <2>3
<1>4. CASE LinkIsLost
  <2>1. server' \in Servers
    <3>1. server' = [server EXCEPT !.heard = "no", !.faults = server.faults + 1]
      BY <1>4 DEF LinkIsLost
    <3>2. server.faults + 1 \in Nat
      BY <1>1 DEF Servers
    <3>3. QED
      BY <1>1, <3>1, <3>2 DEF Servers
  <2>2. QED
    BY <1>4, <2>1, DisconnectionKeeps DEF LinkIsLost
<1>5. CASE ServerStarts
  <2>1. PICK port \in Ports, deaf \in {FALSE, MayFail} :
          server' = [server EXCEPT !.up = TRUE, !.port = port, !.ini = port, !.deaf = deaf,
                                   !.of = NothingKnown]
    BY <1>5, Zenon DEF ServerStarts, Ports
  <2>2. deaf \in BOOLEAN
    <3>1. MayFail \in BOOLEAN
      BY <1>1, ApiConstants, SMT DEF MayFail, Servers
    <3>2. QED
      BY <2>1, <3>1, Zenon
  <2>3. server' \in Servers
    BY <1>1, <2>1, <2>2, NothingIsKnown DEF Servers
  <2>4. QED
    BY <1>1, <1>2, <1>5, <2>3 DEF ServerStarts
<1>6. CASE HearsAgain
  <2>1. /\ server' \in Servers /\ server'.up = server.up /\ server'.heard = server.heard
        /\ server'.of = server.of
    BY <1>1, <1>6 DEF HearsAgain, Servers
  <2>2. QED
    BY <1>1, <1>2, <1>6, <2>1 DEF HearsAgain
<1>7. QED
  BY <1>3, <1>4, <1>5, <1>6

\* Every step keeps it.
LEMMA ApiStep == ASSUME ApiInv, [ApiNext]_apiVars PROVE ApiInv'
<1>1. CASE UNCHANGED apiVars
  <2>1. api' = api /\ mirror' = mirror /\ server' = server /\ wire' = wire
    BY <1>1 DEF apiVars
  <2>2. QED
    BY <2>1 DEF ApiInv, ApiTypes, SocketAsFlagged, ToldOfGsx, HeardMirror
<1>2. CASE ApiNext
  BY <1>2, ConnectionKeeps, MessagesKeep, GsxTells, OutagesKeep DEF ApiNext
<1>3. QED
  BY <1>1, <1>2

\* Nothing is known and nothing told at the start.
LEMMA ApiStarts == ASSUME ApiInit PROVE ApiInv
<1>1. /\ mirror = EmptyMirror /\ wire = <<>>
      /\ api = [socket |-> "opening", done |-> FALSE, watching |-> FALSE, stopping |-> FALSE,
                reconnecting |-> FALSE, backoff |-> 0, port |-> "fallback"]
  BY DEF ApiInit
<1>2. 0 \in 0 .. MaxBackoff
  BY ApiConstants
<1>3. api \in Apis /\ mirror \in Mirrors /\ mirror.connected = FALSE
  BY <1>1, <1>2, NothingIsKnown DEF Apis, Sockets, Ports, EmptyMirror
<1>4. server \in Servers
  <2>1. server \in [up : BOOLEAN, deaf : BOOLEAN, heard : {"no"}, port : {"fallback"},
                    ini : {"fallback"}, of : {NothingKnown}, faults : {0}]
    BY DEF ApiInit
  <2>2. QED
    BY <2>1, NothingIsKnown DEF Servers, Ports
<1>5. ApiTypes
  BY <1>1, <1>3, <1>4 DEF ApiTypes
<1>6. SocketAsFlagged
  BY <1>1, <1>3 DEF SocketAsFlagged
<1>7. ToldOfGsx
  BY <1>1 DEF ToldOfGsx
<1>8. QED
  BY <1>5, <1>6, <1>7 DEF ApiInv

(***************************************************************************)
(* Whatever is lost and starts again, the copy and the messages under way  *)
(* tell of GSX's state as it is, for any parts of the state and any number *)
(* of messages.                                                            *)
(***************************************************************************)
THEOREM CopyIsOfGsx == ApiSpec => []MirrorFollowsGsx
<1>1. ApiInv => MirrorFollowsGsx
  BY DEF ApiInv, SocketAsFlagged, ToldOfGsx, HeardMirror, MirrorFollowsGsx
<1>2. QED
  BY <1>1, ApiStarts, ApiStep, PTL DEF ApiSpec

(***************************************************************************)
(* The types of the connection and of the copy.                            *)
(***************************************************************************)
THEOREM ApiTypesHold == ApiSpec => []ApiTypeOK
<1>1. ApiInv => ApiTypeOK
  BY DEF ApiInv, ApiTypes, SocketAsFlagged, ApiTypeOK, Apis, Sockets, Mirrors, Ports, GsxStates
<1>2. QED
  BY <1>1, ApiStarts, ApiStep, PTL DEF ApiSpec

-----------------------------------------------------------------------------
(***************************************************************************)
(* The tracks.  An ordinary service that the client saw begin, and of      *)
(* which it knows no death, either runs still or has ended by itself; the  *)
(* same holds of what is on the disk, as long as couatl is the one of the  *)
(* save.                                                                   *)
(***************************************************************************)
Statuses ==
  {"Unavailable", "Callable", "Bypassed", "Requested", "Active", "Completing", "Completed"}
ServiceTracks == [status : Statuses, completed : BOOLEAN, died : BOOLEAN,
           resumption : {"None", "OnSameGsx", "AfterGsxRestart"}]
Memories == [of : [Services -> ServiceTracks], taken : BOOLEAN]
Readings == [up : BOOLEAN, low : BOOLEAN, raised : BOOLEAN, of : [Services -> Statuses]]
Disks == [of : [Services -> ServiceTracks], taken : BOOLEAN, same : BOOLEAN, ended : SUBSET Services]
Pasts == [ended : SUBSET Services, due : SUBSET Services, watched : SUBSET Services, faults : Nat]

TrackTypes == tracks \in Memories /\ readings \in Readings /\ disk \in Disks /\ past \in Pasts

RunsOrEnded(s, ended) == s \in ended \/ IsRequestedOrUnderway(readings.of[s])

SeenRunsEnd(s) ==
  HadStarted(tracks.of[s]) /\ ~tracks.of[s].died /\ ~readings.low
      /\ ~WasInterruptedByGsxRestart(tracks.of[s])
    => RunsOrEnded(s, past.ended)

SavedRunsEnd(s) ==
  IsRequestedOrUnderway(disk.of[s].status) /\ ~disk.of[s].died /\ disk.same /\ readings.up
    => RunsOrEnded(s, disk.ended)

EndsAreTheirOwn(s) ==
  /\ tracks.of[s].completed => s \in past.ended
  /\ disk.of[s].completed => s \in disk.ended
  /\ readings.of[s] = "Completed" => s \in past.ended \cap disk.ended
  /\ SeenRunsEnd(s)
  /\ SavedRunsEnd(s)

TrackInv ==
  TrackTypes /\ (~readings.up => readings.low) /\ \A s \in Ordinary : EndsAreTheirOwn(s)

-----------------------------------------------------------------------------
\* A reading makes a track of a track.
LEMMA ObservedIsATrack ==
  ASSUME NEW t \in ServiceTracks, NEW s \in Services, NEW reading \in Statuses, NEW down \in BOOLEAN
  PROVE  /\ Observed(t, s, reading, down) \in ServiceTracks
         /\ Observed(t, s, reading, down).status = reading
         /\ Observed(t, s, reading, down).resumption = "None"
<1>1. Died(t, s, reading, down) \in BOOLEAN  BY DEF Died, ServiceTracks
<1>2. (\/ t.completed \/ reading = "Completed"
       \/ ReturnedToIdle([t EXCEPT !.died = Died(t, s, reading, down)], s, reading)) \in BOOLEAN
  BY DEF ReturnedToIdle, ServiceTracks
<1> QED  BY <1>1, <1>2 DEF Observed, ServiceTracks

\* A run of which no death is known began just now, or was not known to be dead before.
LEMMA DeathIsKept ==
  ASSUME NEW t \in ServiceTracks, NEW s \in Ordinary, NEW reading \in Statuses, NEW down \in BOOLEAN,
         ~Died(t, s, reading, down)
  PROVE  /\ ~down
         /\ \/ reading = "Active"
            \/ ~t.died /\ ~WasInterruptedByGsxRestart(t)
BY DEF Died

\* What makes an ordinary service completed: it was, it reads so, or a run went back to idle.
LEMMA CompletedHasEnded ==
  ASSUME NEW t \in ServiceTracks, NEW s \in Ordinary, s \notin WithoutCompleted,
         NEW reading \in Statuses, NEW down \in BOOLEAN,
         Observed(t, s, reading, down).completed
  PROVE  \/ t.completed
         \/ reading = "Completed"
         \/ /\ reading \in Idle /\ HadStarted(t) /\ ~t.died /\ ~down
            /\ ~WasInterruptedByGsxRestart(t)
<1> DEFINE u == [t EXCEPT !.died = Died(t, s, reading, down)]
<1>1. u.status = t.status /\ u.resumption = t.resumption /\ u.died = Died(t, s, reading, down)
  BY DEF ServiceTracks
<1>2. HadStarted(u) <=> HadStarted(t)  BY <1>1 DEF HadStarted
<1>3. Observed(t, s, reading, down).completed
        = (t.completed \/ reading = "Completed" \/ ReturnedToIdle(u, s, reading))
  BY DEF Observed
<1>4. t.completed \/ reading = "Completed" \/ ReturnedToIdle(u, s, reading)  BY <1>3
<1>5. ASSUME ReturnedToIdle(u, s, reading)
      PROVE  reading \in Idle /\ HadStarted(t) /\ ~Died(t, s, reading, down)
  BY <1>5, <1>1, <1>2 DEF ReturnedToIdle
<1>6. reading \in Idle => reading # "Active"  BY DEF Idle
<1> QED  BY <1>4, <1>5, <1>6, DeathIsKept

\* A run of GSX goes on or ends by itself; only such an end reads Completed.
LEMMA RunsGoOnOrEnd ==
  ASSUME NEW s \in Services, NEW reading \in Statuses, NEW next \in FollowsOn(s)[reading]
  PROVE  /\ next \in Statuses
         /\ next = "Completed" => reading \in {"Active", "Completing"}
         /\ IsRequestedOrUnderway(reading) =>
              \/ IsRequestedOrUnderway(next)
              \/ reading \in {"Active", "Completing"} /\ next \in {"Completed", "Callable"}
BY DEF FollowsOn, Statuses, IsRequestedOrUnderway
-----------------------------------------------------------------------------
\* Where nothing but the flags of the takeover changes.
LEMMA TakeoverKeeps ==
  ASSUME TrackInv, TakeOverFuelAndPayload \/ ReassertTakeovers
  PROVE  TrackInv'
<1> USE DEF TrackInv, TrackTypes
<1>1. /\ tracks' = [tracks EXCEPT !.taken = TRUE] \/ tracks' = tracks
      /\ readings' = [readings EXCEPT !.raised = FALSE]
      /\ disk' = disk /\ past' = past
  BY DEF TakeOverFuelAndPayload, ReassertTakeovers
<1>2. tracks' \in Memories /\ tracks'.of = tracks.of  BY <1>1 DEF Memories
<1>3. /\ readings' \in Readings /\ readings'.of = readings.of
      /\ readings'.up = readings.up /\ readings'.low = readings.low
  BY <1>1 DEF Readings
<1> QED  BY <1>1, <1>2, <1>3 DEF EndsAreTheirOwn, SeenRunsEnd, SavedRunsEnd, RunsOrEnded

\* A look at the readings, whether it is saved or not.
LEMMA ObserveKeeps ==
  ASSUME Ordinary \cap WithoutCompleted = {}, TrackInv, NEW saved \in BOOLEAN, Observe(saved)
  PROVE  TrackInv'
<1> DEFINE looks == [s \in Services |-> Observed(tracks.of[s], s, readings.of[s], WasDown)]
<1>1. /\ tracks' = [tracks EXCEPT !.of = looks]
      /\ disk' = IF saved THEN [of |-> looks, taken |-> tracks.taken, same |-> TRUE,
                                ended |-> past.ended]
                 ELSE disk
      /\ past' = [past EXCEPT !.due = {s \in @ : ~looks[s].completed},
                              !.watched = WatchedBy(looks)]
      /\ readings' = [readings EXCEPT !.low = ~readings.up]
  BY DEF Observe
<1>2. /\ tracks \in Memories /\ readings \in Readings /\ disk \in Disks /\ past \in Pasts
      /\ tracks.of \in [Services -> ServiceTracks] /\ readings.of \in [Services -> Statuses]
      /\ WasDown \in BOOLEAN /\ WasDown = readings.low
  BY DEF TrackInv, TrackTypes, Memories, Readings, WasDown
<1>3. \A s \in Services : /\ looks[s] \in ServiceTracks
                          /\ looks[s].status = readings.of[s]
                          /\ looks[s].resumption = "None"
  BY <1>2, ObservedIsATrack
<1>4. looks \in [Services -> ServiceTracks]  BY <1>3
<1>5. \A s \in Ordinary : looks[s].completed => s \in past.ended
  <2> SUFFICES ASSUME NEW s \in Ordinary, looks[s].completed
               PROVE  s \in past.ended
    OBVIOUS
  <2>1. s \in Services /\ s \notin WithoutCompleted  BY DEF Services
  <2>2. tracks.of[s] \in ServiceTracks /\ readings.of[s] \in Statuses  BY <1>2, <2>1
  <2>3. Observed(tracks.of[s], s, readings.of[s], WasDown).completed  BY <2>1
  <2>4. EndsAreTheirOwn(s)  BY DEF TrackInv
  <2>5. readings.of[s] \in Idle => ~IsRequestedOrUnderway(readings.of[s])
    BY DEF Idle, IsRequestedOrUnderway
  <2>6. \/ tracks.of[s].completed
        \/ readings.of[s] = "Completed"
        \/ /\ readings.of[s] \in Idle /\ HadStarted(tracks.of[s]) /\ ~tracks.of[s].died
           /\ ~WasDown /\ ~WasInterruptedByGsxRestart(tracks.of[s])
    BY <1>2, <2>1, <2>2, <2>3, CompletedHasEnded
  <2> QED
    BY <1>2, <2>4, <2>5, <2>6 DEF EndsAreTheirOwn, SeenRunsEnd, RunsOrEnded
<1>6. tracks' \in Memories /\ tracks'.of = looks
  BY <1>1, <1>2, <1>4 DEF Memories
<1>7. /\ readings' \in Readings /\ readings'.of = readings.of /\ readings'.up = readings.up
      /\ readings'.low = ~readings.up
  BY <1>1, <1>2 DEF Readings
<1>8. past' \in Pasts /\ past'.ended = past.ended
  <2>1. {s \in past.due : ~looks[s].completed} \in SUBSET Services  BY <1>2 DEF Pasts
  <2>2. WatchedBy(looks) \in SUBSET Services  BY DEF WatchedBy
  <2>3. past' = [past EXCEPT !.due = {s \in past.due : ~looks[s].completed},
                             !.watched = WatchedBy(looks)]
    BY <1>1
  <2> HIDE DEF looks
  <2> QED  BY <1>2, <2>1, <2>2, <2>3 DEF Pasts
<1>9. /\ disk' \in Disks
      /\ \/ disk' = disk
         \/ disk'.of = looks /\ disk'.ended = past.ended
  <2>1. past.ended \in SUBSET Services /\ tracks.taken \in BOOLEAN  BY <1>2 DEF Pasts, Memories
  <2> HIDE DEF looks
  <2> QED  BY <1>1, <1>2, <1>4, <2>1 DEF Disks
<1>10. ASSUME NEW s \in Ordinary  PROVE EndsAreTheirOwn(s)'
  <2>1. s \in Services /\ EndsAreTheirOwn(s)  BY DEF TrackInv, Services
  <2>2. looks[s].status = readings.of[s] /\ looks[s].resumption = "None"  BY <1>3, <2>1
  <2> HIDE DEF looks
  <2>3. SeenRunsEnd(s)'
    BY <1>6, <1>7, <1>8, <2>2 DEF SeenRunsEnd, HadStarted, RunsOrEnded, IsRequestedOrUnderway
  <2>4. SavedRunsEnd(s)'
    BY <1>6, <1>7, <1>8, <1>9, <2>1, <2>2
    DEF EndsAreTheirOwn, SavedRunsEnd, RunsOrEnded
  <2> QED
    BY <1>5, <1>6, <1>7, <1>8, <1>9, <2>1, <2>3, <2>4 DEF EndsAreTheirOwn
<1> QED  BY <1>6, <1>7, <1>8, <1>9, <1>10 DEF TrackInv, TrackTypes
\* The turn of the turnaround forgets what was completed, and nothing is underway then.
LEMMA TurnKeeps ==
  ASSUME TrackInv, OnTurnaroundTurned
  PROVE  TrackInv'
<1> DEFINE cleared == [s \in Services |->
                         [tracks.of[s] EXCEPT !.completed = FALSE, !.died = FALSE]]
<1>1. /\ tracks' = [tracks EXCEPT !.of = cleared]
      /\ past' = [past EXCEPT !.ended = {}, !.due = {}]
      /\ readings' = readings /\ disk' = disk
      /\ \A s \in Services : tracks.of[s].status \in Idle /\ tracks.of[s].status = readings.of[s]
  BY DEF OnTurnaroundTurned
<1>2. /\ tracks \in Memories /\ readings \in Readings /\ disk \in Disks /\ past \in Pasts
      /\ tracks.of \in [Services -> ServiceTracks]
  BY DEF TrackInv, TrackTypes, Memories
<1>3. \A s \in Services : /\ cleared[s] \in ServiceTracks
                          /\ cleared[s].status = tracks.of[s].status
                          /\ ~cleared[s].completed
  BY <1>2 DEF ServiceTracks
<1>4. cleared \in [Services -> ServiceTracks]  BY <1>3
<1> HIDE DEF cleared
<1>5. tracks' \in Memories /\ tracks'.of = cleared  BY <1>1, <1>2, <1>4 DEF Memories
<1>6. past' \in Pasts /\ past'.ended = {}  BY <1>1, <1>2 DEF Pasts
<1>7. ASSUME NEW s \in Ordinary  PROVE EndsAreTheirOwn(s)'
  <2>1. s \in Services /\ EndsAreTheirOwn(s)  BY DEF TrackInv, Services
  <2>2. cleared[s].status \in Idle /\ readings.of[s] \in Idle  BY <1>1, <1>3, <2>1
  <2>3. readings.of[s] # "Completed" /\ ~HadStarted(cleared[s])  BY <2>2 DEF Idle, HadStarted
  <2> QED
    BY <1>1, <1>3, <1>5, <2>1, <2>3 DEF EndsAreTheirOwn, SeenRunsEnd, SavedRunsEnd, RunsOrEnded
<1> QED  BY <1>1, <1>2, <1>5, <1>6, <1>7 DEF TrackInv, TrackTypes

\* A relaunch reads the tracks back, and doubts them where couatl is another one.
LEMMA RestoringKeeps ==
  ASSUME TrackInv, ClientIsRelaunched
  PROVE  TrackInv'
<1> DEFINE restored == [s \in Services |-> Restored(disk.of[s])]
<1>1. /\ tracks' = [of |-> restored, taken |-> disk.taken]
      /\ past' = [past EXCEPT !.due = {}, !.watched = {}, !.ended = disk.ended,
                              !.faults = past.faults + 1]
      /\ readings' = [readings EXCEPT !.low = ~readings.up]
      /\ disk' = disk
  BY DEF ClientIsRelaunched
<1>2. /\ tracks \in Memories /\ readings \in Readings /\ disk \in Disks /\ past \in Pasts
      /\ disk.of \in [Services -> ServiceTracks] /\ disk.ended \in SUBSET Services
      /\ disk.taken \in BOOLEAN /\ past.faults + 1 \in Nat
  BY DEF TrackInv, TrackTypes, Disks, Pasts
<1>3. \A s \in Services : /\ restored[s] \in ServiceTracks
                          /\ restored[s].status = disk.of[s].status
                          /\ restored[s].completed = disk.of[s].completed
                          /\ restored[s].died = disk.of[s].died
                          /\ restored[s].resumption
                               = IF disk.same THEN "OnSameGsx" ELSE "AfterGsxRestart"
  BY <1>2 DEF Restored, ServiceTracks
<1>4. restored \in [Services -> ServiceTracks]  BY <1>3
<1> HIDE DEF restored
<1>5. tracks' \in Memories /\ tracks'.of = restored  BY <1>1, <1>2, <1>4 DEF Memories
<1>6. past' \in Pasts /\ past'.ended = disk.ended  BY <1>1, <1>2 DEF Pasts
<1>7. /\ readings' \in Readings /\ readings'.of = readings.of /\ readings'.up = readings.up
      /\ readings'.low = ~readings.up
  BY <1>1, <1>2 DEF Readings
<1>8. ASSUME NEW s \in Ordinary  PROVE EndsAreTheirOwn(s)'
  <2>1. s \in Services /\ EndsAreTheirOwn(s)  BY DEF TrackInv, Services
  <2>2. /\ restored[s].completed => disk.of[s].completed
        /\ restored[s].status = disk.of[s].status
        /\ ~restored[s].died => ~disk.of[s].died
        /\ disk.same \/ restored[s].resumption = "AfterGsxRestart"
    BY <1>3, <2>1
  <2>3. SeenRunsEnd(s)'
    <3> SUFFICES ASSUME HadStarted(restored[s]), ~restored[s].died, readings.up,
                        ~WasInterruptedByGsxRestart(restored[s])
                 PROVE  RunsOrEnded(s, disk.ended)
      BY <1>5, <1>6, <1>7 DEF SeenRunsEnd, RunsOrEnded
    <3>1. IsRequestedOrUnderway(disk.of[s].status)
      BY <2>2 DEF HadStarted, IsRequestedOrUnderway
    <3> QED
      BY <2>1, <2>2, <3>1 DEF EndsAreTheirOwn, SavedRunsEnd, WasInterruptedByGsxRestart
  <2>4. SavedRunsEnd(s)'
    BY <1>1, <1>7, <2>1 DEF EndsAreTheirOwn, SavedRunsEnd, RunsOrEnded
  <2> QED  BY <1>1, <1>5, <1>6, <1>7, <2>1, <2>2, <2>3, <2>4 DEF EndsAreTheirOwn
<1> QED  BY <1>1, <1>2, <1>5, <1>6, <1>7, <1>8 DEF TrackInv, TrackTypes

\* A service that goes its way ends a run here and on the disk, or leaves one underway.
LEMMA ServiceKeeps ==
  ASSUME TrackInv, NEW x \in Services, ServiceGoesOn(x)
  PROVE  TrackInv'
<1> DEFINE Ends(next) == /\ readings.of[x] \in {"Active", "Completing"}
                         /\ next \in {"Completed", "Callable"}
           Due(next) == IF Ends(next) /\ IsWatched(x) THEN past.due \cup {x}
                        ELSE IF next \in {"Requested", "Active"} THEN past.due \ {x}
                        ELSE past.due
           Ended(set, next) == IF Ends(next) THEN set \cup {x} ELSE set
<1>1. PICK next \in FollowsOn(x)[readings.of[x]] :
        /\ readings' = [readings EXCEPT !.of = [readings.of EXCEPT ![x] = next]]
        /\ past' = [past EXCEPT !.ended = Ended(past.ended, next), !.due = Due(next)]
        /\ disk' = IF Ends(next) THEN [disk EXCEPT !.ended = disk.ended \cup {x}] ELSE disk
  BY DEF ServiceGoesOn
<1>2. /\ tracks \in Memories /\ readings \in Readings /\ disk \in Disks /\ past \in Pasts
      /\ readings.of \in [Services -> Statuses] /\ readings.of[x] \in Statuses
      /\ past.ended \in SUBSET Services /\ past.due \in SUBSET Services
      /\ disk.ended \in SUBSET Services
  BY DEF TrackInv, TrackTypes, Readings, Disks, Pasts
<1>3. /\ next \in Statuses
      /\ next = "Completed" => Ends(next)
      /\ IsRequestedOrUnderway(readings.of[x]) => IsRequestedOrUnderway(next) \/ Ends(next)
  BY <1>2, RunsGoOnOrEnd
<1>4. tracks' = tracks  BY DEF ServiceGoesOn
<1>5. /\ readings' \in Readings /\ readings'.up = readings.up /\ readings'.low = readings.low
      /\ readings'.of = [readings.of EXCEPT ![x] = next]
  <2>1. [readings.of EXCEPT ![x] = next] \in [Services -> Statuses]  BY <1>2, <1>3
  <2> QED  BY <1>1, <1>2, <2>1 DEF Readings
<1>6. past' \in Pasts /\ past'.ended = Ended(past.ended, next)
  <2>1. Due(next) \in SUBSET Services /\ Ended(past.ended, next) \in SUBSET Services  BY <1>2
  <2> HIDE DEF Due, Ended
  <2> QED  BY <1>1, <1>2, <2>1 DEF Pasts
<1>7. /\ disk' \in Disks /\ disk'.of = disk.of /\ disk'.same = disk.same
      /\ disk'.ended = Ended(disk.ended, next)
  <2>1. disk.ended \cup {x} \in SUBSET Services  BY <1>2
  <2>2. CASE Ends(next)
    <3> HIDE DEF Ends
    <3> QED  BY <1>1, <1>2, <2>1, <2>2 DEF Disks
  <2>3. CASE ~Ends(next)  BY <1>1, <1>2, <2>3 DEF Disks
  <2> QED  BY <2>2, <2>3
<1>8. ASSUME NEW s \in Ordinary  PROVE EndsAreTheirOwn(s)'
  <2>1. s \in Services /\ EndsAreTheirOwn(s)  BY DEF TrackInv, Services
  <2>2. readings'.of[s] = IF s = x THEN next ELSE readings.of[s]  BY <1>2, <1>5, <2>1
  <2>3. /\ s \in past.ended => s \in past'.ended
        /\ s \in disk.ended => s \in disk'.ended
        /\ s = x /\ Ends(next) => s \in past'.ended \cap disk'.ended
    BY <1>6, <1>7
  <2> HIDE DEF Ends, Ended
  <2>4. ASSUME NEW before, NEW after, s \in before => s \in after,
               s = x /\ Ends(next) => s \in after, RunsOrEnded(s, before)
        PROVE  s \in after \/ IsRequestedOrUnderway(readings'.of[s])
    BY <1>3, <2>2, <2>4 DEF RunsOrEnded
  <2>5. SeenRunsEnd(s)'
    BY <1>4, <1>5, <2>1, <2>3, <2>4 DEF EndsAreTheirOwn, SeenRunsEnd, RunsOrEnded
  <2>6. SavedRunsEnd(s)'
    BY <1>5, <1>7, <2>1, <2>3, <2>4 DEF EndsAreTheirOwn, SavedRunsEnd, RunsOrEnded
  <2>7. readings'.of[s] = "Completed" => s \in past'.ended \cap disk'.ended
    BY <1>3, <2>1, <2>2, <2>3 DEF EndsAreTheirOwn
  <2> QED  BY <1>4, <1>7, <2>1, <2>3, <2>5, <2>6, <2>7 DEF EndsAreTheirOwn
<1> QED  BY <1>2, <1>4, <1>5, <1>6, <1>7, <1>8 DEF TrackInv, TrackTypes

\* While couatl is down nothing is concluded; a new one is not the one of the save.
LEMMA CouatlKeeps ==
  ASSUME TrackInv, CouatlDies \/ CouatlStarts
  PROVE  TrackInv'
<1>1. /\ tracks \in Memories /\ readings \in Readings /\ disk \in Disks /\ past \in Pasts
      /\ past.faults + 1 \in Nat
  BY DEF TrackInv, TrackTypes, Pasts
<1>2. CASE CouatlDies
  <2>1. /\ readings' = [readings EXCEPT !.up = FALSE, !.low = TRUE]
        /\ past' = [past EXCEPT !.due = {}, !.watched = {}, !.faults = past.faults + 1]
        /\ tracks' = tracks /\ disk' = disk
    BY <1>2 DEF CouatlDies
  <2>2. readings' \in Readings /\ readings'.of = readings.of /\ ~readings'.up /\ readings'.low
    BY <1>1, <2>1 DEF Readings
  <2>3. past' \in Pasts /\ past'.ended = past.ended  BY <1>1, <2>1 DEF Pasts
  <2> QED
    BY <1>1, <2>1, <2>2, <2>3 DEF TrackInv, TrackTypes, EndsAreTheirOwn, SeenRunsEnd, SavedRunsEnd
<1>3. CASE CouatlStarts
  <2> DEFINE callable == [s \in Services |-> "Callable"]
  <2>1. /\ readings' = [readings EXCEPT !.up = TRUE, !.raised = TRUE, !.of = callable]
        /\ disk' = [disk EXCEPT !.same = FALSE]
        /\ tracks' = tracks /\ past' = past /\ readings.low
    BY <1>3 DEF CouatlStarts, TrackInv
  <2>2. callable \in [Services -> Statuses] /\ \A s \in Services : callable[s] # "Completed"
    BY DEF Statuses
  <2> HIDE DEF callable
  <2>3. readings' \in Readings /\ readings'.of = callable /\ readings'.low /\ readings'.up
    BY <1>1, <2>1, <2>2 DEF Readings
  <2>4. disk' \in Disks /\ disk'.of = disk.of /\ disk'.ended = disk.ended /\ ~disk'.same
    BY <1>1, <2>1 DEF Disks
  <2>5. Ordinary \subseteq Services  BY DEF Services
  <2> QED
    BY <1>1, <2>1, <2>2, <2>3, <2>4, <2>5
    DEF TrackInv, TrackTypes, EndsAreTheirOwn, SeenRunsEnd, SavedRunsEnd
<1> QED  BY <1>2, <1>3

\* No service has run at the start.
LEMMA TracksStart == TrackInit => TrackInv
<1> SUFFICES ASSUME TrackInit PROVE TrackInv  OBVIOUS
<1>1. NoTrack \in ServiceTracks /\ ~NoTrack.completed /\ NoTrack.status = "Unavailable"
      /\ ~HadStarted(NoTrack)
  BY DEF NoTrack, ServiceTracks, Statuses, HadStarted
<1>2. [s \in Services |-> NoTrack] \in [Services -> ServiceTracks]  BY <1>1
<1>3. [s \in Services |-> "Unavailable"] \in [Services -> Statuses]  BY DEF Statuses
<1>4. {} \in SUBSET Services /\ 0 \in Nat  OBVIOUS
<1>5. TrackTypes
  BY <1>2, <1>3, <1>4 DEF TrackInit, TrackTypes, Memories, Readings, Disks, Pasts
<1>6. ASSUME NEW s \in Ordinary  PROVE EndsAreTheirOwn(s)
  <2>1. s \in Services  BY DEF Services
  <2>2. /\ tracks.of[s] = NoTrack /\ disk.of[s] = NoTrack /\ readings.of[s] = "Unavailable"
    BY <2>1 DEF TrackInit
  <2> QED
    BY <1>1, <2>2 DEF EndsAreTheirOwn, SeenRunsEnd, SavedRunsEnd, IsRequestedOrUnderway
<1>7. readings.up  BY DEF TrackInit
<1> QED  BY <1>5, <1>6, <1>7 DEF TrackInv

(***************************************************************************)
(* For any services, as long as no ordinary one is among those that never  *)
(* read Completed: what the client takes for completed has ended by        *)
(* itself, whatever it missed between two looks, over deaths of couatl and *)
(* relaunches of the client.                                               *)
(***************************************************************************)
THEOREM CompletedHaveEnded ==
  ASSUME Ordinary \cap WithoutCompleted = {}
  PROVE  TrackSpec => []OnlyWhatEndedIsCompleted
<1>1. TrackInv /\ [TrackNext]_trackVars => TrackInv'
  <2>1. TrackInv /\ UNCHANGED trackVars => TrackInv'
    BY DEF trackVars, TrackInv, TrackTypes, EndsAreTheirOwn, SeenRunsEnd, SavedRunsEnd, RunsOrEnded
  <2>2. TrackInv /\ TrackNext => TrackInv'
    BY ObserveKeeps, TakeoverKeeps, TurnKeeps, RestoringKeeps, ServiceKeeps, CouatlKeeps DEF TrackNext
  <2> QED  BY <2>1, <2>2
<1>2. TrackInv => OnlyWhatEndedIsCompleted
  BY DEF TrackInv, EndsAreTheirOwn, OnlyWhatEndedIsCompleted
<1> QED  BY <1>1, <1>2, TracksStart, PTL DEF TrackSpec

-----------------------------------------------------------------------------
(***************************************************************************)
(* The doors that follow the vehicles of GSX: of its state, the client     *)
(* believes only what a GSX that runs has put there, and a door on its way *)
(* is known by its transit or by its exit.                                 *)
(***************************************************************************)
CONSTANTS BoundTicks, Travel, MaxDoorFaults
VARIABLES sync, door, vehicle, host

Doors == INSTANCE GsxDoorSync WITH MaxFaults <- MaxDoorFaults

\* A door arrives before its transit is given up for lost.
DoorConstants == BoundTicks \in Nat /\ Travel \in Nat \ {0} /\ Travel < BoundTicks

VehicleStates == {"away", "comes", "serves"}
Syncs == [target : Doors!Placed \cup {"none"}, inherited : BOOLEAN, 
          transit : Doors!Idle .. BoundTicks, held : BOOLEAN, awaiting : BOOLEAN,
          stale : VehicleStates \cup {"none"},
          seenStarted : BOOLEAN, restarting : BOOLEAN, moving : BOOLEAN,
          exit : {<< >>} \cup (Doors!Placed \X Nat)]
GsxDoors == [kind : {"bare", "reads", "exits"}, read : BOOLEAN, at : Doors!Placed,
             to : Doors!Placed, left : 0 .. Travel, by : {"pilot", "client"}]
Vehicles == [state : VehicleStates, there : BOOLEAN, received : BOOLEAN, looked : BOOLEAN]
Hosts == [couatl : BOOLEAN, wrote : Doors!Placed \cup {"none"}, faults : Int,
          disk : [target : Doors!Placed \cup {"none"}, same : BOOLEAN]]
DoorTypes ==
  /\ sync \in Syncs /\ door \in GsxDoors /\ vehicle \in Vehicles /\ host \in Hosts
  /\ sync.inherited => sync.target = "open"
  /\ sync.awaiting => sync.stale = "none"

\* A vehicle that is there is one of a GSX that runs, and is believed; before its
\* variable has come the door is not closed on it.
ThereIsReal ==
  vehicle.there =>
    /\ host.couatl /\ vehicle.state = "serves"
    /\ sync.stale # "serves" /\ ~sync.awaiting /\ ~sync.restarting
    /\ ~vehicle.received => sync.held \/ sync.inherited \/ sync.target # "open"

\* What a dead GSX has left behind is known for that, or will be.
LeftBehindIsKnown ==
  vehicle.state = "serves" /\ ~vehicle.there /\ host.couatl =>
    sync.restarting \/ sync.awaiting \/ sync.stale = "serves"

RestartIsNoticed ==
  /\ ~host.couatl /\ vehicle.state # "away" =>
       sync.seenStarted /\ (vehicle.looked => sync.restarting)
  /\ host.disk.same => ~sync.restarting

\* A vehicle that comes is looked at, after which what was left behind counts no more.
ComingIsLookedAt ==
  vehicle.state = "comes" /\ vehicle.looked /\ vehicle.received /\ ~sync.held /\ host.couatl
    => sync.stale # "serves" \/ sync.restarting

DoorGoesToItsTarget ==
  door.left > 0 /\ door.by = "client" =>
    /\ sync.target = door.to
    /\ door.kind = "reads" /\ door.at # door.to =>
         sync.transit # Doors!Idle /\ sync.transit + door.left <= Travel

TravelShows ==
  door.left > 1 /\ door.by = "client" /\ door.kind = "exits" =>
    \/ sync.exit # << >> /\ sync.exit # <<door.at, door.left - 1>>
    \/ /\ sync.target = "closed"
       /\ sync.held \/ (~vehicle.there /\ (vehicle.state = "comes" => ~vehicle.looked))

DoorInv ==
  /\ DoorTypes /\ ThereIsReal /\ LeftBehindIsKnown /\ RestartIsNoticed /\ ComingIsLookedAt
  /\ DoorGoesToItsTarget /\ TravelShows

-----------------------------------------------------------------------------
\* A tick moves a door that travels.
LEMMA DoorsMoveOn ==
  ASSUME DoorConstants, NEW d \in GsxDoors, NEW m, m = Doors!MovedOn(d)
  PROVE  /\ m \in GsxDoors /\ m.kind = d.kind /\ m.read = d.read /\ m.to = d.to /\ m.by = d.by
         /\ d.left = 0 => m = d
         /\ d.left > 0 => m.left = d.left - 1
         /\ d.left # 1 => m.at = d.at
         /\ d.left = 1 => m.at = d.to
<1> DEFINE n == d.left - 1
           at == IF d.left = 1 THEN d.to ELSE d.at
<1>1. CASE d.left = 0
  BY <1>1 DEF Doors!MovedOn
<1>2. CASE d.left # 0
  <2>1. m = [d EXCEPT !.left = n, !.at = at]
    BY <1>2 DEF Doors!MovedOn
  <2>2. n \in 0 .. Travel /\ at \in Doors!Placed
    BY <1>2 DEF DoorConstants, GsxDoors
  <2> HIDE DEF n, at
  <2>3. /\ m \in GsxDoors /\ m.kind = d.kind /\ m.read = d.read /\ m.to = d.to /\ m.by = d.by
        /\ m.left = n /\ m.at = at
    BY <2>1, <2>2 DEF GsxDoors
  <2> QED
    BY <1>2, <2>3 DEF n, at
<1> QED
  BY <1>1, <1>2

\* Two looks at the exit of a door.
LEMMA ExitsAreSampled ==
  ASSUME DoorConstants, NEW s \in Syncs, NEW d \in GsxDoors, NEW t, t = Doors!Sampled(s, d)
  PROVE  /\ t \in Syncs /\ t.exit = <<d.at, d.left>>
         /\ t.moving = (d.kind = "exits" /\ s.exit # << >> /\ s.exit # <<d.at, d.left>>)
         /\ t.target = s.target /\ t.inherited = s.inherited /\ t.transit = s.transit
         /\ t.held = s.held /\ t.awaiting = s.awaiting /\ t.stale = s.stale
         /\ t.seenStarted = s.seenStarted /\ t.restarting = s.restarting
<1> DEFINE moves == d.kind = "exits" /\ s.exit # << >> /\ s.exit # <<d.at, d.left>>
           exit == <<d.at, d.left>>
<1>1. t = [s EXCEPT !.moving = moves, !.exit = exit]
  BY DEF Doors!Sampled, Doors!Exit
<1>2. moves \in BOOLEAN /\ exit \in {<< >>} \cup (Doors!Placed \X Nat)
  BY DEF DoorConstants, GsxDoors
<1> HIDE DEF moves, exit
<1>3. /\ t \in Syncs /\ t.exit = exit /\ t.moving = moves
      /\ t.target = s.target /\ t.inherited = s.inherited /\ t.transit = s.transit
      /\ t.held = s.held /\ t.awaiting = s.awaiting /\ t.stale = s.stale
      /\ t.seenStarted = s.seenStarted /\ t.restarting = s.restarting
  BY <1>1, <1>2 DEF Syncs
<1> QED
  BY <1>3 DEF moves, exit

\* A restart of GSX makes the client distrust what it finds.
LEMMA RestartsAreObserved ==
  ASSUME vehicle \in Vehicles, host.couatl \in BOOLEAN, NEW s \in Syncs,
         NEW t, t = Doors!Observed(s), s.awaiting => s.stale = "none"
  PROVE  /\ t \in Syncs /\ t.moving = s.moving /\ t.exit = s.exit
         /\ t.target = s.target /\ t.inherited = s.inherited /\ t.transit = s.transit
         /\ t.held = s.held
         /\ t.awaiting => t.stale = "none"
         /\ ~host.couatl => /\ t.restarting = s.seenStarted /\ t.seenStarted = s.seenStarted
                            /\ t.stale = s.stale /\ t.awaiting = s.awaiting
         /\ host.couatl =>
              /\ ~t.restarting /\ t.seenStarted
              /\ s.restarting => t.awaiting \/ t.stale = vehicle.state
              /\ s.awaiting => t.awaiting \/ t.stale = vehicle.state
              /\ t.awaiting => ~vehicle.received /\ (s.restarting \/ s.awaiting)
              /\ t.stale # s.stale => t.stale = vehicle.state \/ t.awaiting
              /\ ~s.restarting /\ ~s.awaiting => t.stale = s.stale
<1>1. CASE ~host.couatl
  BY <1>1 DEF Doors!Observed, Syncs
<1>2. CASE host.couatl
  <2> DEFINE a == IF s.restarting THEN Doors!Distrusted(s) ELSE s
             b == Doors!Inherited(a)
  <2>1. /\ a \in Syncs /\ a.moving = s.moving /\ a.exit = s.exit
        /\ a.target = s.target /\ a.inherited = s.inherited /\ a.transit = s.transit
        /\ a.held = s.held /\ (a.awaiting => a.stale = "none")
        /\ s.restarting => a.awaiting \/ a.stale = vehicle.state
        /\ ~s.restarting => a.awaiting = s.awaiting /\ a.stale = s.stale
        /\ s.restarting => a.awaiting = ~vehicle.received
    BY DEF Doors!Distrusted, Syncs, Vehicles
  <2>2. /\ b \in Syncs /\ b.moving = a.moving /\ b.exit = a.exit
        /\ b.target = a.target /\ b.inherited = a.inherited /\ b.transit = a.transit
        /\ b.held = a.held /\ (b.awaiting => a.awaiting)
        /\ a.awaiting => b.awaiting \/ b.stale = vehicle.state
        /\ b.awaiting => ~vehicle.received
        /\ b.stale = a.stale \/ b.stale = vehicle.state
        /\ ~a.awaiting => b.stale = a.stale
        /\ b.awaiting => b.stale = a.stale
    <3> HIDE DEF a
    <3>1. CASE a.awaiting /\ vehicle.received
      <4>1. b = [a EXCEPT !.awaiting = FALSE, !.stale = vehicle.state]
        BY <3>1 DEF Doors!Inherited
      <4> QED
        BY <2>1, <3>1, <4>1 DEF Syncs, Vehicles
    <3>2. CASE ~(a.awaiting /\ vehicle.received)
      BY <2>1, <3>2 DEF Doors!Inherited
    <3> QED
      BY <3>1, <3>2
  <2>3. t = [b EXCEPT !.restarting = FALSE, !.seenStarted = TRUE]
    BY <1>2 DEF Doors!Observed
  <2> HIDE DEF a, b
  <2>4. /\ t \in Syncs /\ t.moving = b.moving /\ t.exit = b.exit
        /\ t.target = b.target /\ t.inherited = b.inherited /\ t.transit = b.transit
        /\ t.held = b.held /\ t.stale = b.stale /\ t.awaiting = b.awaiting
        /\ ~t.restarting /\ t.seenStarted
    BY <2>2, <2>3 DEF Syncs
  <2> QED
    BY <1>2, <2>1, <2>2, <2>4
<1> QED
  BY <1>1, <1>2

\* The age of a transit, and what it makes of the memory that was inherited.
LEMMA TransitsAge ==
  ASSUME DoorConstants, vehicle \in Vehicles, NEW s \in Syncs, NEW position,
         NEW t, t = Doors!Aged(s, position)
  PROVE  /\ t \in Syncs /\ t.inherited = (s.inherited /\ ~vehicle.received)
         /\ s.transit # Doors!Idle /\ position # s.target /\ s.transit < BoundTicks =>
              t.transit = s.transit + 1 /\ t.transit # Doors!Idle
         /\ t.moving = s.moving /\ t.exit = s.exit /\ t.target = s.target /\ t.held = s.held
         /\ t.awaiting = s.awaiting /\ t.stale = s.stale
         /\ t.seenStarted = s.seenStarted /\ t.restarting = s.restarting
<1> DEFINE n == IF s.transit = Doors!Idle \/ position = s.target \/ s.transit + 1 > BoundTicks 
              THEN Doors!Idle
                ELSE s.transit + 1
           i == s.inherited /\ ~vehicle.received
<1>1. Doors!AgeTransit(s, position) = [s EXCEPT !.transit = n]
  BY DEF Doors!AgeTransit
<1>2. Doors!AgeTransit(s, position).inherited = s.inherited
  BY <1>1 DEF Syncs
<1>3. t = [[s EXCEPT !.transit = n] EXCEPT !.inherited = i]
  BY <1>1, <1>2 DEF Doors!Aged, Syncs
<1>4. n \in Doors!Idle .. BoundTicks /\ i \in BOOLEAN
  BY DEF DoorConstants, Syncs, Vehicles, Doors!Idle
<1>5. s.transit # Doors!Idle /\ position # s.target /\ s.transit < BoundTicks =>
        n = s.transit + 1 /\ n # Doors!Idle
  BY DEF DoorConstants, Syncs, Doors!Idle
<1> HIDE DEF n, i
<1>6. /\ t \in Syncs /\ t.transit = n /\ t.inherited = i
      /\ t.moving = s.moving /\ t.exit = s.exit /\ t.target = s.target /\ t.held = s.held
      /\ t.awaiting = s.awaiting /\ t.stale = s.stale
      /\ t.seenStarted = s.seenStarted /\ t.restarting = s.restarting
  BY <1>3, <1>4 DEF Syncs
<1> QED
  BY <1>5, <1>6 DEF i

\* A look at the vehicle ends the distrust of what has changed.
LEMMA VehiclesAreLookedAt ==
  ASSUME NEW s \in Syncs, NEW t, t = Doors!Looked(s)
  PROVE  /\ t \in Syncs /\ t.inherited = s.inherited /\ t.transit = s.transit
         /\ t.moving = s.moving /\ t.exit = s.exit /\ t.target = s.target /\ t.held = s.held
         /\ t.awaiting = s.awaiting
         /\ t.seenStarted = s.seenStarted /\ t.restarting = s.restarting
         /\ t.stale \in {s.stale, "none"}
         /\ s.stale = vehicle.state => t.stale = s.stale
         /\ ~s.held /\ vehicle.received => t.stale \in {"none", vehicle.state}
BY DEF Doors!Looked, Doors!Distrusts, Syncs

\* A decision: nothing is done, the target is noted, or the door is written.
LEMMA DecisionsAreMade ==
  ASSUME DoorConstants, NEW s \in Syncs, NEW open \in BOOLEAN, NEW position, NEW done,
         done = Doors!Decided(s, open, position)
  PROVE  LET wanted == IF open THEN "open" ELSE "closed"
         IN  /\ done.s \in Syncs /\ done.write \in {"none", wanted}
             /\ done.s.moving = s.moving /\ done.s.exit = s.exit /\ done.s.held = s.held
             /\ done.s.awaiting = s.awaiting /\ done.s.stale = s.stale
             /\ done.s.seenStarted = s.seenStarted /\ done.s.restarting = s.restarting
             /\ \/ done.s = s /\ done.write = "none"
                \/ /\ done.s.target = wanted /\ ~done.s.inherited
                   /\ Doors!Pending(s, open) /\ ~Doors!WaitingForItsVehicles(s, open)
                   /\ ~s.moving /\ ~Doors!IsInTransit(s, position) /\ position # "pending"
                   /\ \/ /\ done.write = "none" /\ position = wanted
                         /\ done.s.transit = s.transit
                      \/ done.write = wanted /\ position # wanted /\ done.s.transit = 0
<1> DEFINE wanted == IF open THEN "open" ELSE "closed"
           wait == \/ ~Doors!Pending(s, open) \/ Doors!WaitingForItsVehicles(s, open)
                   \/ s.moving \/ Doors!IsInTransit(s, position) \/ position = "pending"
<1>1. wanted \in Doors!Placed /\ 0 \in Doors!Idle .. BoundTicks
  BY DEF DoorConstants, Doors!Placed, Doors!Idle
<1>2. CASE wait
  <2>1. done = [s |-> s, write |-> "none"]
    BY <1>2 DEF Doors!Decided
  <2> QED
    BY <2>1
<1>3. CASE ~wait /\ position = wanted
  <2>1. done = [s |-> Doors!Recorded(s, wanted), write |-> "none"]
    BY <1>3 DEF Doors!Decided
  <2> HIDE DEF wanted
  <2>2. /\ done.s = [s EXCEPT !.target = wanted, !.inherited = FALSE] /\ done.write = "none"
    BY <2>1 DEF Doors!Recorded
  <2>3. /\ done.s \in Syncs /\ done.s.target = wanted /\ ~done.s.inherited
        /\ done.s.transit = s.transit
        /\ done.s.moving = s.moving /\ done.s.exit = s.exit /\ done.s.held = s.held
        /\ done.s.awaiting = s.awaiting /\ done.s.stale = s.stale
        /\ done.s.seenStarted = s.seenStarted /\ done.s.restarting = s.restarting
    BY <1>1, <2>2 DEF Syncs
  <2> QED
    BY <1>3, <2>2, <2>3 DEF wanted
<1>4. CASE ~wait /\ position # wanted
  <2>1. done = [s |-> Doors!Written(s, wanted), write |-> wanted]
    BY <1>4 DEF Doors!Decided
  <2> HIDE DEF wanted
  <2>2. /\ done.s = [[s EXCEPT !.target = wanted, !.inherited = FALSE] EXCEPT !.transit = 0]
        /\ done.write = wanted
    BY <2>1 DEF Doors!Recorded, Doors!Written
  <2>3. /\ done.s \in Syncs /\ done.s.target = wanted /\ ~done.s.inherited
        /\ done.s.transit = 0
        /\ done.s.moving = s.moving /\ done.s.exit = s.exit /\ done.s.held = s.held
        /\ done.s.awaiting = s.awaiting /\ done.s.stale = s.stale
        /\ done.s.seenStarted = s.seenStarted /\ done.s.restarting = s.restarting
    BY <1>1, <2>2 DEF Syncs
  <2> QED
    BY <1>4, <2>2, <2>3 DEF wanted
<1> QED
  BY <1>2, <1>3, <1>4

\* A door that is told to move does, under the hand that moves it.
LEMMA DoorsAreCommanded ==
  ASSUME DoorConstants, NEW d \in GsxDoors, NEW target \in Doors!Placed,
         Doors!CommandDoor(d, target)
  PROVE  /\ door' \in GsxDoors /\ door'.kind = d.kind /\ door'.read = d.read /\ door'.at = d.at
         /\ d.left > 0 => door'.by = d.by
         /\ door'.left > 0 => door'.to = target
         /\ door'.left > 0 /\ d.left = 0 => door'.by = "client"
         /\ door' = d \/ door'.left > 0
<1> DEFINE goal == IF d.left = 0 THEN d.at ELSE d.to
           by == IF d.left = 0 THEN "client" ELSE d.by
<1>1. CASE target = goal
  BY <1>1 DEF Doors!CommandDoor, GsxDoors
<1>2. CASE target # goal
  <2>1. PICK left \in 1 .. Travel :
          door' = [d EXCEPT !.to = target, !.left = left, !.by = by]
    BY <1>2 DEF Doors!CommandDoor, GsxDoors
  <2>2. left \in 0 .. Travel /\ left > 0
    BY DEF DoorConstants
  <2>3. by \in {"pilot", "client"} /\ (d.left > 0 => by = d.by) /\ (d.left = 0 => by = "client")
    BY DEF GsxDoors
  <2> HIDE DEF by
  <2>4. /\ door' \in GsxDoors /\ door'.kind = d.kind /\ door'.read = d.read /\ door'.at = d.at
        /\ door'.by = by /\ door'.to = target /\ door'.left = left
    BY <2>1, <2>2, <2>3 DEF GsxDoors
  <2> QED
    BY <2>2, <2>3, <2>4
<1> QED
  BY <1>1, <1>2

-----------------------------------------------------------------------------
\* A tick of the client while GSX runs, for what it has sampled as s.
LEMMA TicksOfTheSync ==
  ASSUME DoorConstants, vehicle \in Vehicles, host.couatl \in BOOLEAN, host.couatl, NEW s \in Syncs,
         s.awaiting => s.stale = "none", NEW position, NEW done,
         done = Doors!Sync(Doors!Observed(s), position)
  PROVE  /\ done.s \in Syncs /\ done.s.held = s.held /\ done.s.exit = s.exit
         /\ ~done.s.restarting /\ done.s.seenStarted
         /\ done.s.awaiting => done.s.stale = "none" /\ (s.restarting \/ s.awaiting)
         /\ s.restarting \/ s.awaiting \/ s.stale = vehicle.state =>
              done.s.awaiting \/ done.s.stale = vehicle.state
         /\ ~s.held /\ vehicle.received => done.s.stale \in {"none", vehicle.state}
         /\ ~s.restarting /\ ~s.awaiting => done.s.stale \in {s.stale, "none"}
         /\ done.write \in {"none", "open", "closed"}
         /\ done.write # "none" =>
              /\ done.s.target = done.write /\ done.s.transit = 0 /\ ~done.s.inherited
              /\ ~s.moving /\ position \notin {"pending", done.write}
              /\ s.target # done.write
              /\ s.transit # Doors!Idle /\ s.transit < BoundTicks /\ s.target \in Doors!Placed
                   => position \notin Doors!Placed \/ position = s.target
         /\ done.write = "open" =>
              /\ ~s.held /\ vehicle.received /\ vehicle.state = "serves"
              /\ ~s.restarting /\ ~s.awaiting /\ s.stale # vehicle.state
         /\ done.write = "closed" =>
              /\ s.target = "open" /\ (s.held \/ vehicle.received \/ ~s.inherited)
              /\ ~s.held /\ vehicle.received /\ vehicle.state = "serves"
                   => s.restarting \/ s.awaiting \/ s.stale = "serves"
         /\ done.write = "none" =>
              \/ /\ done.s.target = s.target
                 /\ done.s.inherited = (s.inherited /\ ~vehicle.received)
                 /\ s.transit # Doors!Idle /\ position # s.target /\ s.transit < BoundTicks =>
                      done.s.transit = s.transit + 1 /\ done.s.transit # Doors!Idle
              \/ /\ done.s.target = position /\ position \in Doors!Placed /\ ~done.s.inherited
                 /\ position # s.target
                 /\ ~(s.transit # Doors!Idle /\ s.transit < BoundTicks /\ s.target \in Doors!Placed)
                 /\ ~vehicle.received => position = "closed"
<1> DEFINE o == Doors!Observed(s)
           a == Doors!Aged(o, position)
           l == Doors!Looked(a)
           open == Doors!IsDesiredOpen(a)
<1>1. done = Doors!Decided(l, open, position)
  BY DEF Doors!Sync
<1>2. /\ o \in Syncs /\ o.moving = s.moving /\ o.exit = s.exit
      /\ o.target = s.target /\ o.inherited = s.inherited /\ o.transit = s.transit
      /\ o.held = s.held
      /\ o.awaiting => o.stale = "none"
      /\ ~o.restarting /\ o.seenStarted
      /\ s.restarting => o.awaiting \/ o.stale = vehicle.state
      /\ s.awaiting => o.awaiting \/ o.stale = vehicle.state
      /\ o.awaiting => ~vehicle.received /\ (s.restarting \/ s.awaiting)
      /\ o.stale # s.stale => o.stale = vehicle.state \/ o.awaiting
      /\ ~s.restarting /\ ~s.awaiting => o.stale = s.stale
  BY RestartsAreObserved
<1> HIDE DEF o
<1>3. /\ a \in Syncs /\ a.inherited = (o.inherited /\ ~vehicle.received)
      /\ o.transit # Doors!Idle /\ position # o.target /\ o.transit < BoundTicks =>
           a.transit = o.transit + 1 /\ a.transit # Doors!Idle
      /\ a.moving = o.moving /\ a.exit = o.exit /\ a.target = o.target /\ a.held = o.held
      /\ a.awaiting = o.awaiting /\ a.stale = o.stale
      /\ a.seenStarted = o.seenStarted /\ a.restarting = o.restarting
  <2> o \in Syncs
    BY <1>2
  <2> QED
    BY TransitsAge
<1> HIDE DEF a
<1>4. /\ l \in Syncs /\ l.inherited = a.inherited /\ l.transit = a.transit
      /\ l.moving = a.moving /\ l.exit = a.exit /\ l.target = a.target /\ l.held = a.held
      /\ l.awaiting = a.awaiting
      /\ l.seenStarted = a.seenStarted /\ l.restarting = a.restarting
      /\ l.stale \in {a.stale, "none"}
      /\ a.stale = vehicle.state => l.stale = a.stale
      /\ ~a.held /\ vehicle.received => l.stale \in {"none", vehicle.state}
  BY <1>3, VehiclesAreLookedAt
<1>5. /\ open \in BOOLEAN
      /\ open => /\ ~s.held /\ vehicle.received /\ vehicle.state = "serves"
                 /\ o.stale # vehicle.state
      /\ ~s.held /\ vehicle.received /\ vehicle.state = "serves" /\ ~open => o.stale = "serves"
  BY <1>2, <1>3 DEF Doors!IsDesiredOpen, Doors!Distrusts, Syncs, Vehicles, VehicleStates
<1> HIDE DEF l, open
<1> DEFINE wanted == IF open THEN "open" ELSE "closed"
<1>6. /\ done.s \in Syncs /\ done.write \in {"none", wanted}
      /\ done.s.moving = l.moving /\ done.s.exit = l.exit /\ done.s.held = l.held
      /\ done.s.awaiting = l.awaiting /\ done.s.stale = l.stale
      /\ done.s.seenStarted = l.seenStarted /\ done.s.restarting = l.restarting
      /\ \/ done.s = l /\ done.write = "none"
         \/ /\ done.s.target = wanted /\ ~done.s.inherited
            /\ Doors!Pending(l, open) /\ ~Doors!WaitingForItsVehicles(l, open)
            /\ ~l.moving /\ ~Doors!IsInTransit(l, position) /\ position # "pending"
            /\ \/ /\ done.write = "none" /\ position = wanted
                  /\ done.s.transit = l.transit
               \/ done.write = wanted /\ position # wanted /\ done.s.transit = 0
  BY <1>1, <1>4, <1>5, DecisionsAreMade
<1>7. wanted \in Doors!Placed /\ (wanted = "open") = open /\ wanted # "none"
  BY <1>5 DEF Doors!Placed
<1>8. /\ Doors!Pending(l, open) => s.target # wanted /\ (~open => s.target = "open")
      /\ ~Doors!WaitingForItsVehicles(l, open) /\ ~open =>
           s.held \/ vehicle.received \/ ~s.inherited
      /\ ~Doors!IsInTransit(l, position) /\ s.transit # Doors!Idle /\ s.transit < BoundTicks
              /\ s.target \in Doors!Placed
            => position \notin Doors!Placed \/ position = s.target
  BY <1>2, <1>3, <1>4, <1>5
  DEF Doors!Pending, Doors!WaitingForItsVehicles, Doors!IsInTransit, Doors!Placed
<1>9. CASE done.s = l /\ done.write = "none"
  BY <1>2, <1>3, <1>4, <1>5, <1>6, <1>9 DEF Doors!Placed
<1>10. CASE ~(done.s = l /\ done.write = "none")
  <2>1. /\ done.s.target = wanted /\ ~done.s.inherited
        /\ Doors!Pending(l, open) /\ ~Doors!WaitingForItsVehicles(l, open)
        /\ ~l.moving /\ ~Doors!IsInTransit(l, position) /\ position # "pending"
        /\ \/ /\ done.write = "none" /\ position = wanted
              /\ done.s.transit = l.transit
           \/ done.write = wanted /\ position # wanted /\ done.s.transit = 0
    BY <1>6, <1>10
  <2> HIDE DEF wanted
  <2>2. CASE done.write = "none" /\ position = wanted
    BY <1>2, <1>3, <1>4, <1>5, <1>6, <1>7, <1>8, <2>1, <2>2 DEF Doors!Placed
  <2>3. CASE done.write = wanted /\ position # wanted
    BY <1>2, <1>3, <1>4, <1>5, <1>6, <1>7, <1>8, <2>1, <2>3 DEF Doors!Placed
  <2> QED
    BY <2>1, <2>2, <2>3
<1> QED
  BY <1>9, <1>10

-----------------------------------------------------------------------------
WritesAreMeant ==
  /\ host'.wrote = "open" => vehicle.there
  /\ host'.wrote = "closed" => ~vehicle.there \/ sync.held
  /\ host'.wrote # "none" /\ door.left > 1 /\ door.at # door.to /\ door.by = "client"
       => door.kind = "bare"

\* A tick keeps the invariant, and writes to the door as it is meant to.
LEMMA TickKeepsTheSync ==
  ASSUME DoorConstants, DoorInv, Doors!Tick
  PROVE  DoorInv' /\ WritesAreMeant
<1> DEFINE d == Doors!MovedOn(door)
           s == Doors!Sampled(sync, d)
           position == Doors!PositionOf(d)
           done == Doors!Sync(Doors!Observed(s), position)
           w == done.write
<1>1. /\ sync' = done.s
      /\ IF w = "none" THEN door' = d ELSE Doors!CommandDoor(d, w)
      /\ vehicle' = [vehicle EXCEPT !.looked = TRUE]
      /\ host' = [host EXCEPT !.wrote = w, !.disk = Doors!Memory(done.s)]
  BY DEF Doors!Tick
<1>2. /\ sync \in Syncs /\ door \in GsxDoors /\ vehicle \in Vehicles /\ host \in Hosts
      /\ sync.inherited => sync.target = "open"
      /\ sync.awaiting => sync.stale = "none"
      /\ host.couatl \in BOOLEAN /\ door.left \in 0 .. Travel /\ vehicle.received \in BOOLEAN
      /\ door.at \in Doors!Placed /\ door.to \in Doors!Placed
  BY DEF DoorInv, DoorTypes, Hosts, GsxDoors, Vehicles
<1>3. /\ d \in GsxDoors /\ d.kind = door.kind /\ d.read = door.read /\ d.to = door.to
           /\ d.by = door.by
      /\ door.left = 0 => d = door
      /\ door.left > 0 => d.left = door.left - 1
      /\ door.left # 1 => d.at = door.at
      /\ door.left = 1 => d.at = door.to
  BY <1>2, DoorsMoveOn
<1> HIDE DEF d
<1>4. /\ s \in Syncs /\ s.exit = <<d.at, d.left>>
      /\ s.moving = (d.kind = "exits" /\ sync.exit # << >> /\ sync.exit # <<d.at, d.left>>)
      /\ s.target = sync.target /\ s.inherited = sync.inherited /\ s.transit = sync.transit
      /\ s.held = sync.held /\ s.awaiting = sync.awaiting /\ s.stale = sync.stale
      /\ s.seenStarted = sync.seenStarted /\ s.restarting = sync.restarting
  BY <1>2, <1>3, ExitsAreSampled
<1> HIDE DEF s
<1>5. /\ position \in {"notRead", "pending", "open", "closed"}
      /\ d.kind # "reads" => position = "notRead"
      /\ d.kind = "reads" => position \in {"pending", d.at}
      /\ position \in Doors!Placed => d.kind = "reads" /\ position = d.at
  BY <1>3 DEF Doors!PositionOf, GsxDoors, Doors!Placed
<1> HIDE DEF position
<1>6. s.awaiting => s.stale = "none"
  BY <1>2, <1>4
<1>7. ASSUME ~host.couatl
      PROVE  /\ w = "none" /\ done.s \in Syncs /\ done.s.exit = s.exit
             /\ done.s.target = s.target /\ done.s.inherited = s.inherited
             /\ done.s.transit = s.transit /\ done.s.held = s.held
             /\ done.s.restarting = s.seenStarted /\ done.s.seenStarted = s.seenStarted
             /\ done.s.stale = s.stale /\ done.s.awaiting = s.awaiting
  <2>1. done = [s |-> Doors!Observed(s), write |-> "none"]
    BY <1>7 DEF Doors!Sync
  <2> QED
    BY <1>2, <1>4, <1>6, <1>7, <2>1, RestartsAreObserved
<1>8. ASSUME host.couatl
      PROVE
        /\ done.s \in Syncs /\ done.s.held = s.held /\ done.s.exit = s.exit
        /\ ~done.s.restarting /\ done.s.seenStarted
        /\ done.s.awaiting => done.s.stale = "none" /\ (s.restarting \/ s.awaiting)
        /\ s.restarting \/ s.awaiting \/ s.stale = vehicle.state =>
             done.s.awaiting \/ done.s.stale = vehicle.state
        /\ ~s.held /\ vehicle.received => done.s.stale \in {"none", vehicle.state}
        /\ ~s.restarting /\ ~s.awaiting => done.s.stale \in {s.stale, "none"}
        /\ w \in {"none", "open", "closed"}
        /\ w # "none" =>
             /\ done.s.target = w /\ done.s.transit = 0 /\ ~done.s.inherited
             /\ ~s.moving /\ position \notin {"pending", w}
             /\ s.target # w
             /\ s.transit # Doors!Idle /\ s.transit < BoundTicks /\ s.target \in Doors!Placed
                  => position \notin Doors!Placed \/ position = s.target
        /\ w = "open" =>
             /\ ~s.held /\ vehicle.received /\ vehicle.state = "serves"
             /\ ~s.restarting /\ ~s.awaiting /\ s.stale # vehicle.state
        /\ w = "closed" =>
             /\ s.target = "open" /\ (s.held \/ vehicle.received \/ ~s.inherited)
             /\ ~s.held /\ vehicle.received /\ vehicle.state = "serves"
                  => s.restarting \/ s.awaiting \/ s.stale = "serves"
        /\ w = "none" =>
             \/ /\ done.s.target = s.target
                /\ done.s.inherited = (s.inherited /\ ~vehicle.received)
                /\ s.transit # Doors!Idle /\ position # s.target /\ s.transit < BoundTicks =>
                     done.s.transit = s.transit + 1 /\ done.s.transit # Doors!Idle
             \/ /\ done.s.target = position /\ position \in Doors!Placed /\ ~done.s.inherited
                /\ position # s.target
                /\ ~(s.transit # Doors!Idle /\ s.transit < BoundTicks /\ s.target \in Doors!Placed)
                /\ ~vehicle.received => position = "closed"
  BY <1>2, <1>4, <1>6, <1>8, TicksOfTheSync
<1> HIDE DEF done
<1>9. /\ done.s \in Syncs /\ w \in {"none", "open", "closed"} /\ done.s.exit = <<d.at, d.left>>
      /\ done.s.held = sync.held /\ done.s.target \in Doors!Placed \cup {"none"}
  BY <1>4, <1>7, <1>8 DEF Syncs
<1>10. /\ door' \in GsxDoors /\ door'.kind = door.kind /\ door'.read = door.read
       /\ door'.at = d.at
       /\ w = "none" => door' = d
       /\ w # "none" => /\ d.left > 0 => door'.by = d.by
                        /\ door'.left > 0 => door'.to = w
                        /\ door' = d \/ door'.left > 0
  <2>1. CASE w = "none"
    BY <1>1, <1>3, <2>1
  <2>2. CASE w # "none"
    <3>1. w \in Doors!Placed /\ Doors!CommandDoor(d, w)
      BY <1>1, <1>9, <2>2 DEF Doors!Placed
    <3> QED
      BY <1>3, <2>2, <3>1, DoorsAreCommanded
  <2> QED
    BY <2>1, <2>2
<1>11. /\ vehicle' \in Vehicles /\ vehicle'.state = vehicle.state
            /\ vehicle'.there = vehicle.there
       /\ vehicle'.received = vehicle.received /\ vehicle'.looked
  BY <1>1, <1>2 DEF Vehicles
<1>12. /\ host' \in Hosts /\ host'.couatl = host.couatl /\ host'.wrote = w
       /\ host'.disk.same = host.couatl
  <2> DEFINE m == Doors!Memory(done.s)
  <2>1. m = [target |-> done.s.target, same |-> host.couatl]
    BY DEF Doors!Memory
  <2>2. /\ m \in [target : Doors!Placed \cup {"none"}, same : BOOLEAN]
        /\ w \in Doors!Placed \cup {"none"}
    BY <1>2, <1>9, <2>1 DEF Doors!Placed
  <2>3. m.same = host.couatl
    BY <2>1
  <2> HIDE DEF m
  <2>4. host' = [host EXCEPT !.wrote = w, !.disk = m]
    BY <1>1 DEF m
  <2> QED
    BY <1>2, <2>2, <2>3, <2>4 DEF Hosts
<1>13. WritesAreMeant /\ (w # "none" /\ door.left > 1 /\ door.by = "client" => door.kind # "exits")
  <2>1. CASE ~host.couatl
    BY <1>7, <1>12, <2>1 DEF WritesAreMeant
  <2>2. CASE host.couatl
    <3>1. w = "open" => vehicle.there
      BY <1>4, <1>8, <2>2 DEF DoorInv, LeftBehindIsKnown
    <3>2. w = "closed" => ~vehicle.there \/ sync.held
      BY <1>4, <1>8, <2>2 DEF DoorInv, ThereIsReal
    <3>3. ASSUME w # "none", door.left > 1, door.at # door.to, door.by = "client",
                 door.kind = "reads"
          PROVE  FALSE
      <4>1. /\ sync.target = door.to /\ sync.transit # Doors!Idle
            /\ sync.transit + door.left <= Travel
        BY <3>3, <1>2 DEF DoorInv, DoorGoesToItsTarget
      <4>2. sync.transit < BoundTicks
        BY <1>2, <3>3, <4>1 DEF DoorConstants, Syncs, Doors!Idle
      <4>3. d.at = door.at /\ position \in {"pending", d.at} /\ d.at \in Doors!Placed
        BY <1>2, <1>3, <1>5, <3>3
      <4> QED
        BY <1>2, <1>4, <1>8, <2>2, <3>3, <4>1, <4>2, <4>3
    <3>4. ASSUME w # "none", door.left > 1, door.by = "client", door.kind = "exits"
          PROVE  FALSE
      <4>1. d.at = door.at /\ d.left = door.left - 1
        BY <1>2, <1>3, <3>4
      <4>2. ~(sync.exit # << >> /\ sync.exit # <<door.at, door.left - 1>>)
        BY <1>3, <1>4, <1>8, <2>2, <3>4, <4>1
      <4>3. /\ sync.target = "closed"
            /\ sync.held \/ ~vehicle.there
        BY <3>4, <4>2 DEF DoorInv, TravelShows
      <4> QED
        BY <1>4, <1>8, <2>2, <3>1, <3>4, <4>3
    <3> QED
      BY <1>2, <1>12, <3>1, <3>2, <3>3, <3>4 DEF WritesAreMeant, GsxDoors
  <2> QED
    BY <2>1, <2>2
<1>14. DoorTypes'
  <2>1. done.s.inherited => done.s.target = "open"
    BY <1>2, <1>4, <1>7, <1>8
  <2>2. done.s.awaiting => done.s.stale = "none"
    BY <1>2, <1>4, <1>7, <1>8
  <2> QED
    BY <1>1, <1>9, <1>10, <1>11, <1>12, <2>1, <2>2 DEF DoorTypes
<1>15. ThereIsReal'
  <2> SUFFICES ASSUME vehicle.there
               PROVE  /\ host.couatl /\ vehicle.state = "serves"
                      /\ done.s.stale # "serves" /\ ~done.s.awaiting /\ ~done.s.restarting
                      /\ ~vehicle.received =>
                           done.s.held \/ done.s.inherited \/ done.s.target # "open"
    BY <1>1, <1>11, <1>12 DEF ThereIsReal
  <2>1. /\ host.couatl /\ vehicle.state = "serves"
        /\ sync.stale # "serves" /\ ~sync.awaiting /\ ~sync.restarting
        /\ ~vehicle.received => sync.held \/ sync.inherited \/ sync.target # "open"
    BY DEF DoorInv, ThereIsReal
  <2> QED
    BY <1>2, <1>4, <1>8, <1>9, <2>1
<1>16. LeftBehindIsKnown' /\ RestartIsNoticed'
  <2>1. CASE host.couatl
    BY <1>1, <1>4, <1>8, <1>11, <1>12, <2>1
    DEF DoorInv, LeftBehindIsKnown, RestartIsNoticed
  <2>2. CASE ~host.couatl
    BY <1>1, <1>4, <1>7, <1>11, <1>12, <2>2
    DEF DoorInv, LeftBehindIsKnown, RestartIsNoticed
  <2> QED
    BY <2>1, <2>2
<1>17. ComingIsLookedAt'
  BY <1>1, <1>4, <1>8, <1>9, <1>11, <1>12 DEF ComingIsLookedAt
<1>18. DoorGoesToItsTarget'
  <2> SUFFICES ASSUME door'.left > 0, door'.by = "client"
               PROVE  /\ done.s.target = door'.to
                      /\ door'.kind = "reads" /\ door'.at # door'.to =>
                           done.s.transit # Doors!Idle /\ done.s.transit + door'.left <= Travel
    BY <1>1 DEF DoorGoesToItsTarget
  <2>1. door'.left \in 0 .. Travel
    BY <1>10 DEF GsxDoors
  <2>2. CASE w # "none"
    <3>1. host.couatl /\ done.s.target = w /\ done.s.transit = 0
      BY <1>2, <1>7, <1>8, <2>2
    <3> QED
      BY <1>10, <2>1, <2>2, <3>1 DEF DoorConstants, Doors!Idle
  <2>3. CASE w = "none"
    <3>1. /\ door' = d /\ door.left > 1 /\ d.left = door.left - 1 /\ door.by = "client"
          /\ d.at = door.at
      BY <1>2, <1>3, <1>10, <2>1, <2>3
    <3>2. /\ sync.target = door.to
          /\ door.kind = "reads" /\ door.at # door.to =>
               sync.transit # Doors!Idle /\ sync.transit + door.left <= Travel
      BY <1>2, <3>1 DEF DoorInv, DoorGoesToItsTarget
    <3>3. /\ sync.transit \in Doors!Idle .. BoundTicks
          /\ door.kind = "reads" /\ door.at # door.to => sync.transit < BoundTicks
      BY <1>2, <3>1, <3>2 DEF DoorConstants, Syncs, Doors!Idle
    <3>4. CASE ~host.couatl
      BY <1>2, <1>3, <1>4, <1>7, <3>1, <3>2, <3>3, <3>4 DEF DoorConstants, Doors!Idle
    <3>5. CASE host.couatl
      <4>1. done.s.target = s.target
        <5>1. position \in Doors!Placed /\ position # s.target =>
                s.transit # Doors!Idle /\ s.transit < BoundTicks /\ s.target \in Doors!Placed
          BY <1>2, <1>3, <1>4, <1>5, <3>1, <3>2, <3>3
        <5>2. \/ done.s.target = s.target
              \/ /\ position \in Doors!Placed /\ position # s.target
                 /\ ~(s.transit # Doors!Idle /\ s.transit < BoundTicks /\ s.target \in Doors!Placed)
          BY <1>8, <2>3, <3>5
        <5> QED
          BY <5>1, <5>2
      <4>2. door.kind = "reads" /\ door.at # door.to =>
              done.s.transit = s.transit + 1 /\ done.s.transit # Doors!Idle
        <5> SUFFICES ASSUME door.kind = "reads", door.at # door.to
                     PROVE  done.s.transit = s.transit + 1 /\ done.s.transit # Doors!Idle
          OBVIOUS
        <5>1. position \in {"pending", door.at} /\ position # s.target
          BY <1>2, <1>3, <1>4, <1>5, <3>1, <3>2 DEF Doors!Placed
        <5> QED
          BY <1>4, <1>8, <2>3, <3>2, <3>3, <3>5, <4>1, <5>1
      <4> QED
        BY <1>2, <1>3, <1>4, <3>1, <3>2, <3>3, <4>1, <4>2
    <3> QED
      BY <3>4, <3>5
  <2> QED
    BY <2>2, <2>3
<1>19. TravelShows'
  <2> SUFFICES ASSUME door'.left > 1, door'.by = "client", door'.kind = "exits"
               PROVE  /\ done.s.exit # << >>
                      /\ done.s.exit # <<door'.at, door'.left - 1>>
    BY <1>1 DEF TravelShows
  <2>1. door'.left \in 0 .. Travel /\ d.left \in 0 .. Travel
    BY <1>3, <1>10 DEF GsxDoors
  <2>2. d.left # door'.left - 1
    <3>1. CASE w = "none" \/ door' = d
      BY <1>10, <2>1, <3>1
    <3>2. CASE w # "none" /\ d.left = 0
      BY <2>1, <3>2
    <3>3. CASE w # "none" /\ d.left > 0
      BY <1>2, <1>3, <1>10, <1>13, <2>1, <3>3
    <3> QED
      BY <2>1, <3>1, <3>2, <3>3
  <2> QED
    BY <1>9, <2>2
<1> QED
  BY <1>13, <1>14, <1>15, <1>16, <1>17, <1>18, <1>19 DEF DoorInv

\* The other steps of the client write nothing.
LEMMA DepartureKeepsTheSync ==
  ASSUME DoorConstants, DoorInv, Doors!DepartureBegins
  PROVE  DoorInv' /\ WritesAreMeant
<1>1. /\ sync \in Syncs /\ door \in GsxDoors /\ vehicle \in Vehicles /\ host \in Hosts
      /\ sync.awaiting => sync.stale = "none"
  BY DEF DoorInv, DoorTypes
<1>2. /\ ~sync.held /\ vehicle' = vehicle /\ host' = [host EXCEPT !.wrote = "none"]
  BY DEF Doors!DepartureBegins
<1>3. /\ host' \in Hosts /\ host'.couatl = host.couatl /\ host'.disk = host.disk
      /\ host'.wrote = "none"
  BY <1>1, <1>2 DEF Hosts
<1>4. PICK n \in Doors!Idle .. BoundTicks :
        /\ sync' = [sync EXCEPT !.target = "closed", !.inherited = FALSE, !.transit = n,
                               !.held = TRUE]
        /\ \/ Doors!CommandDoor(door, "closed") /\ n = 0
           \/ /\ door' = door /\ n = sync.transit /\ Doors!PositionOf(door) = "closed"
              /\ ~Doors!IsInTransit(sync, "closed")
  <2> DEFINE here == /\ Doors!PositionOf(door) = "closed"
                     /\ ~Doors!IsInTransit(sync, Doors!PositionOf(door))
  <2>1. CASE here
    <3>1. sync' = [sync EXCEPT !.target = "closed", !.inherited = FALSE,
                              !.transit = sync.transit, !.held = TRUE]
      BY <1>1, <2>1 DEF Doors!DepartureBegins, Doors!Recorded, Syncs
    <3> QED
      BY <1>1, <2>1, <3>1 DEF Doors!DepartureBegins, Syncs
  <2>2. CASE ~here
    <3>1. sync' = [[[sync EXCEPT !.target = "closed", !.inherited = FALSE] EXCEPT !.transit = 0]
                     EXCEPT !.held = TRUE]
      BY <2>2 DEF Doors!DepartureBegins, Doors!Recorded, Doors!Written
    <3>2. sync' = [sync EXCEPT !.target = "closed", !.inherited = FALSE, !.transit = 0,
                              !.held = TRUE]
      BY <1>1, <3>1 DEF Syncs
    <3>3. 0 \in Doors!Idle .. BoundTicks
      BY DEF DoorConstants, Doors!Idle
    <3> QED
      BY <2>2, <3>2, <3>3 DEF Doors!DepartureBegins
  <2> QED
    BY <2>1, <2>2
<1>5. /\ sync' \in Syncs /\ sync'.target = "closed" /\ ~sync'.inherited /\ sync'.transit = n
      /\ sync'.held /\ sync'.awaiting = sync.awaiting /\ sync'.stale = sync.stale
      /\ sync'.seenStarted = sync.seenStarted /\ sync'.restarting = sync.restarting
  BY <1>1, <1>4 DEF Syncs, Doors!Placed
<1>6. /\ door' \in GsxDoors
      /\ \/ n = 0 /\ (door'.left > 0 => door'.to = "closed")
         \/ /\ door' = door /\ n = sync.transit /\ Doors!PositionOf(door) = "closed"
            /\ ~Doors!IsInTransit(sync, "closed")
  BY <1>1, <1>4, DoorsAreCommanded DEF Doors!Placed
<1>7. DoorTypes'
  BY <1>1, <1>2, <1>3, <1>5, <1>6 DEF DoorTypes
<1>8. /\ ThereIsReal' /\ LeftBehindIsKnown' /\ RestartIsNoticed' /\ ComingIsLookedAt'
      /\ TravelShows'
  BY <1>2, <1>3, <1>5
  DEF DoorInv, ThereIsReal, LeftBehindIsKnown, RestartIsNoticed, ComingIsLookedAt, TravelShows
<1>9. DoorGoesToItsTarget'
  <2> SUFFICES ASSUME door'.left > 0, door'.by = "client"
               PROVE  /\ door'.to = "closed"
                      /\ door'.kind = "reads" /\ door'.at # door'.to =>
                           n # Doors!Idle /\ n + door'.left <= Travel
    BY <1>5 DEF DoorGoesToItsTarget
  <2>1. CASE n = 0 /\ (door'.left > 0 => door'.to = "closed")
    BY <1>6, <2>1 DEF DoorConstants, GsxDoors, Doors!Idle
  <2>2. CASE /\ door' = door /\ n = sync.transit /\ Doors!PositionOf(door) = "closed"
             /\ ~Doors!IsInTransit(sync, "closed")
    <3>1. door.kind = "reads" /\ door.at = "closed"
      BY <1>1, <2>2 DEF Doors!PositionOf, GsxDoors
    <3>2. /\ sync.target = door.to /\ door.to \in Doors!Placed
          /\ door.at # door.to => sync.transit # Doors!Idle
      BY <1>1, <2>2, <3>1 DEF DoorInv, DoorGoesToItsTarget, GsxDoors
    <3>3. door.to = "closed"
      BY <2>2, <3>1, <3>2 DEF Doors!IsInTransit, Doors!Placed
    <3> QED
      BY <2>2, <3>1, <3>3
  <2> QED
    BY <1>6, <2>1, <2>2
<1> QED
  BY <1>3, <1>7, <1>8, <1>9 DEF DoorInv, WritesAreMeant

LEMMA ReleaseKeepsTheSync ==
  ASSUME DoorConstants, DoorInv, Doors!HoldIsReleased
  PROVE  DoorInv' /\ WritesAreMeant
<1>1. /\ sync \in Syncs /\ host \in Hosts
  BY DEF DoorInv, DoorTypes
<1>2. /\ sync' \in Syncs /\ sync'.target = sync.target /\ sync'.inherited = sync.inherited
      /\ sync'.transit = sync.transit /\ sync'.exit = sync.exit
      /\ sync'.awaiting = sync.awaiting /\ sync'.stale = sync.stale
      /\ sync'.seenStarted = sync.seenStarted /\ sync'.restarting = sync.restarting
  BY <1>1 DEF Doors!HoldIsReleased, Syncs
<1>3. /\ host' \in Hosts /\ host'.couatl = host.couatl /\ host'.disk = host.disk
      /\ host'.wrote = "none"
  BY <1>1 DEF Doors!HoldIsReleased, Hosts
<1>4. door' = door /\ vehicle' = vehicle /\ ~vehicle.there /\ vehicle.state # "comes"
  BY DEF Doors!HoldIsReleased
<1> QED
  BY <1>2, <1>3, <1>4
  DEF DoorInv, WritesAreMeant, DoorTypes, ThereIsReal, LeftBehindIsKnown, RestartIsNoticed,
      ComingIsLookedAt, DoorGoesToItsTarget, TravelShows

LEMMA RelaunchKeepsTheSync ==
  ASSUME DoorConstants, DoorInv, Doors!Relaunch
  PROVE  DoorInv' /\ WritesAreMeant
<1>1. /\ sync \in Syncs /\ door \in GsxDoors /\ vehicle \in Vehicles /\ host \in Hosts
      /\ host.disk.same \in BOOLEAN /\ host.disk.target \in Doors!Placed \cup {"none"}
      /\ host.faults \in Int
  BY DEF DoorInv, DoorTypes, Hosts
<1>2. /\ sync' \in Syncs /\ sync'.target = host.disk.target
      /\ sync'.inherited = (host.disk.target = "open") /\ sync'.stale = "none"
      /\ sync'.seenStarted /\ ~sync'.restarting /\ sync'.awaiting = ~host.disk.same
  <2>1. sync' = [target |-> host.disk.target, inherited |-> host.disk.target = "open",
                 transit |-> Doors!Idle, held |-> sync.held, awaiting |-> ~host.disk.same,
                 stale |-> "none", seenStarted |-> TRUE, restarting |-> FALSE,
                 moving |-> FALSE, exit |-> << >>]
    BY <1>1 DEF Doors!Relaunch, Doors!Restored, Doors!NoSync
  <2>2. Doors!Idle \in Doors!Idle .. BoundTicks /\ sync.held \in BOOLEAN
    BY <1>1 DEF DoorConstants, Doors!Idle, Syncs
  <2> QED
    BY <1>1, <2>1, <2>2 DEF Syncs
<1>3. /\ host' \in Hosts /\ host'.couatl = host.couatl /\ host'.disk = host.disk
      /\ host'.wrote = "none" /\ host.couatl
  <2> DEFINE n == host.faults + 1
  <2>1. host' = [host EXCEPT !.wrote = "none", !.faults = n] /\ host.couatl
    BY DEF Doors!Relaunch
  <2>2. n \in Int
    BY <1>1
  <2> HIDE DEF n
  <2> QED
    BY <1>1, <2>1, <2>2 DEF Hosts
<1>4. /\ door' \in GsxDoors /\ door'.left = 0
  BY <1>1 DEF Doors!Relaunch, GsxDoors
<1>5. /\ vehicle' \in Vehicles /\ vehicle'.state = vehicle.state /\ vehicle'.there = vehicle.there
      /\ ~vehicle'.received
  BY <1>1 DEF Doors!Relaunch, Vehicles
<1>6. /\ host.disk.same => ~(sync.stale = vehicle.state) /\ ~sync.awaiting
      /\ ~host.disk.same => ~vehicle.there
  BY <1>1 DEF Doors!Relaunch, Doors!MixesNothingUp, Doors!Distrusts, Vehicles, VehicleStates
<1>7. DoorTypes' /\ DoorGoesToItsTarget' /\ TravelShows' /\ ComingIsLookedAt'
  <2>1. ~(door'.left > 0) /\ ~(door'.left > 1)
    BY <1>4
  <2>2. DoorTypes'
    BY <1>2, <1>3, <1>4, <1>5 DEF DoorTypes
  <2>3. DoorGoesToItsTarget' /\ TravelShows' /\ ComingIsLookedAt'
    BY <1>5, <2>1 DEF DoorGoesToItsTarget, TravelShows, ComingIsLookedAt
  <2> QED
    BY <2>2, <2>3
<1>8. ThereIsReal' /\ LeftBehindIsKnown' /\ RestartIsNoticed'
  BY <1>1, <1>2, <1>3, <1>5, <1>6 DEF DoorInv, ThereIsReal, LeftBehindIsKnown, RestartIsNoticed
<1> QED
  BY <1>3, <1>7, <1>8 DEF DoorInv, WritesAreMeant

-----------------------------------------------------------------------------
\* The pilot's step, and those of GSX, its vehicle and the variables.
LEMMA PilotKeepsTheSync ==
  ASSUME DoorConstants, DoorInv, Doors!PilotMoves
  PROVE  DoorInv' /\ WritesAreMeant
<1>1. /\ sync \in Syncs /\ door \in GsxDoors /\ host \in Hosts /\ host.faults \in Int
  BY DEF DoorInv, DoorTypes, Hosts
<1>2. sync' = sync /\ vehicle' = vehicle
  BY DEF Doors!PilotMoves
<1>3. /\ host' \in Hosts /\ host'.couatl = host.couatl /\ host'.disk = host.disk
      /\ host'.wrote = "none"
  <2> DEFINE n == host.faults + 1
  <2>1. host' = [host EXCEPT !.wrote = "none", !.faults = n]
    BY DEF Doors!PilotMoves
  <2>2. n \in Int
    BY <1>1
  <2> HIDE DEF n
  <2> QED
    BY <1>1, <2>1, <2>2 DEF Hosts
<1>4. door' \in GsxDoors /\ door'.by = "pilot"
  <2>1. 1 \in 0 .. Travel
    BY DEF DoorConstants
  <2> QED
    BY <1>1, <2>1 DEF Doors!PilotMoves, GsxDoors
<1> QED
  BY <1>2, <1>3, <1>4
  DEF DoorInv, WritesAreMeant, DoorTypes, ThereIsReal, LeftBehindIsKnown, RestartIsNoticed,
      ComingIsLookedAt, DoorGoesToItsTarget, TravelShows

LEMMA VehicleKeepsTheSync ==
  ASSUME DoorConstants, DoorInv, Doors!VehicleComes \/ Doors!VehicleServes \/ Doors!VehicleLeaves
  PROVE  DoorInv' /\ WritesAreMeant
<1>1. /\ vehicle \in Vehicles /\ host \in Hosts
  BY DEF DoorInv, DoorTypes
<1>2. PICK state \in VehicleStates :
        /\ Doors!Becomes(state)
        /\ \/ state = "comes" /\ vehicle.state # "comes" /\ ~vehicle.there /\ ~sync.held
           \/ /\ state = "serves" /\ vehicle.state = "comes" /\ ~sync.held
              /\ vehicle.received /\ ~sync.awaiting /\ ~sync.restarting
           \/ state = "away"
  BY DEF Doors!VehicleComes, Doors!VehicleServes, Doors!VehicleLeaves, VehicleStates
<1>3. sync' = sync /\ door' = door /\ host.couatl /\ vehicle.looked
  BY <1>2 DEF Doors!Becomes
<1>4. /\ host' \in Hosts /\ host'.couatl = host.couatl /\ host'.disk = host.disk
      /\ host'.wrote = "none"
  BY <1>1, <1>2 DEF Doors!Becomes, Doors!Quietly, Hosts
<1>5. /\ vehicle' \in Vehicles /\ vehicle'.state = state /\ vehicle'.there = (state = "serves")
      /\ ~vehicle'.looked /\ vehicle'.received = vehicle.received
  BY <1>1, <1>2 DEF Doors!Becomes, Vehicles
<1> QED
  BY <1>2, <1>3, <1>4, <1>5
  DEF DoorInv, WritesAreMeant, DoorTypes, ThereIsReal, LeftBehindIsKnown, RestartIsNoticed,
      ComingIsLookedAt, DoorGoesToItsTarget, TravelShows

LEMMA CouatlKeepsTheSync ==
  ASSUME DoorConstants, DoorInv, Doors!CouatlDies \/ Doors!CouatlStarts
  PROVE  DoorInv' /\ WritesAreMeant
<1>1. /\ vehicle \in Vehicles /\ host \in Hosts /\ host.faults \in Int
      /\ host.disk \in [target : Doors!Placed \cup {"none"}, same : BOOLEAN]
  BY DEF DoorInv, DoorTypes, Hosts
<1>2. sync' = sync /\ door' = door
  BY DEF Doors!CouatlDies, Doors!CouatlStarts
<1>3. CASE Doors!CouatlDies
  <2>1. /\ host' \in Hosts /\ ~host'.couatl /\ ~host'.disk.same /\ host'.wrote = "none"
    <3> DEFINE n == host.faults + 1
               saved == [host.disk EXCEPT !.same = FALSE]
    <3>1. host' = [host EXCEPT !.couatl = FALSE, !.wrote = "none", !.disk = saved, !.faults = n]
      BY <1>1, <1>3 DEF Doors!CouatlDies, Hosts
    <3>2. n \in Int
      BY <1>1
    <3>3. saved \in [target : Doors!Placed \cup {"none"}, same : BOOLEAN] /\ ~saved.same
      BY <1>1
    <3> HIDE DEF n, saved
    <3> QED
      BY <1>1, <3>1, <3>2, <3>3 DEF Hosts
  <2>2. /\ vehicle' \in Vehicles /\ vehicle'.state = vehicle.state /\ ~vehicle'.there
        /\ ~vehicle'.looked /\ vehicle'.received = vehicle.received /\ sync.seenStarted
    BY <1>1, <1>3 DEF Doors!CouatlDies, Vehicles
  <2> QED
    BY <1>2, <2>1, <2>2
    DEF DoorInv, WritesAreMeant, DoorTypes, ThereIsReal, LeftBehindIsKnown, RestartIsNoticed,
        ComingIsLookedAt, DoorGoesToItsTarget, TravelShows
<1>4. CASE Doors!CouatlStarts
  <2>1. /\ host' \in Hosts /\ host'.couatl /\ host'.disk = host.disk /\ host'.wrote = "none"
    BY <1>1, <1>4 DEF Doors!CouatlStarts, Hosts
  <2>2. vehicle' = vehicle /\ vehicle.looked /\ ~host.couatl
    BY <1>4 DEF Doors!CouatlStarts
  <2> QED
    BY <1>2, <2>1, <2>2
    DEF DoorInv, WritesAreMeant, DoorTypes, ThereIsReal, LeftBehindIsKnown, RestartIsNoticed,
        ComingIsLookedAt, DoorGoesToItsTarget, TravelShows
<1> QED
  BY <1>3, <1>4

LEMMA ArrivalsKeepTheSync ==
  ASSUME DoorConstants, DoorInv, Doors!VariableArrives \/ Doors!PositionArrives
  PROVE  DoorInv' /\ WritesAreMeant
<1>1. /\ door \in GsxDoors /\ vehicle \in Vehicles /\ host \in Hosts
  BY DEF DoorInv, DoorTypes
<1>2. sync' = sync
  BY DEF Doors!VariableArrives, Doors!PositionArrives
<1>3. /\ host' \in Hosts /\ host'.couatl = host.couatl /\ host'.disk = host.disk
      /\ host'.wrote = "none"
  BY <1>1 DEF Doors!VariableArrives, Doors!PositionArrives, Doors!Quietly, Hosts
<1>4. /\ vehicle' \in Vehicles /\ vehicle'.state = vehicle.state
      /\ vehicle'.there = vehicle.there
      /\ vehicle' = vehicle \/ ~vehicle'.looked
      /\ vehicle.received => vehicle'.received
      /\ vehicle'.looked => vehicle.looked /\ vehicle'.received = vehicle.received
  BY <1>1 DEF Doors!VariableArrives, Doors!PositionArrives, Vehicles
<1>5. /\ door' \in GsxDoors /\ door'.left = door.left /\ door'.by = door.by
      /\ door'.kind = door.kind /\ door'.at = door.at /\ door'.to = door.to
  BY <1>1 DEF Doors!VariableArrives, Doors!PositionArrives, GsxDoors
<1> QED
  BY <1>2, <1>3, <1>4, <1>5
  DEF DoorInv, WritesAreMeant, DoorTypes, ThereIsReal, LeftBehindIsKnown, RestartIsNoticed,
      ComingIsLookedAt, DoorGoesToItsTarget, TravelShows

LEMMA DoorSyncStarts ==
  ASSUME DoorConstants
  PROVE  Doors!Init => DoorInv
<1> SUFFICES ASSUME Doors!Init PROVE DoorInv
  OBVIOUS
<1>1. /\ sync = Doors!NoSync /\ door.left = 0 /\ vehicle.state = "away" /\ ~vehicle.there
      /\ vehicle = [state |-> "away", there |-> FALSE, received |-> FALSE, looked |-> FALSE]
      /\ host = [couatl |-> FALSE, wrote |-> "none", faults |-> 0,
                 disk |-> [target |-> "none", same |-> TRUE]]
  BY DEF Doors!Init
<1>2. door \in GsxDoors
  <2>1. 0 \in 0 .. Travel
    BY DEF DoorConstants
  <2> QED
    BY <2>1 DEF Doors!Init, GsxDoors, Doors!Placed
<1>3. sync \in Syncs /\ ~sync.inherited /\ ~sync.awaiting /\ ~sync.restarting
  <2>1. Doors!Idle \in Doors!Idle .. BoundTicks
    BY DEF DoorConstants, Doors!Idle
  <2> QED
    BY <1>1, <2>1 DEF Doors!NoSync, Syncs
<1>4. vehicle \in Vehicles /\ host \in Hosts /\ ~host.couatl
  BY <1>1 DEF Vehicles, VehicleStates, Hosts
<1> QED
  BY <1>1, <1>2, <1>3, <1>4
  DEF DoorInv, DoorTypes, ThereIsReal, LeftBehindIsKnown, RestartIsNoticed, ComingIsLookedAt,
      DoorGoesToItsTarget, TravelShows

LEMMA DoorSyncSteps ==
  ASSUME DoorConstants, DoorInv, [Doors!Next]_(Doors!doorVars)
  PROVE  DoorInv' /\ [WritesAreMeant]_(Doors!doorVars)
<1>1. CASE Doors!Next
  BY <1>1, TickKeepsTheSync, DepartureKeepsTheSync, ReleaseKeepsTheSync, RelaunchKeepsTheSync,
     PilotKeepsTheSync, VehicleKeepsTheSync, CouatlKeepsTheSync, ArrivalsKeepTheSync DEF Doors!Next
<1>2. CASE UNCHANGED Doors!doorVars
  BY <1>2
  DEF Doors!doorVars, DoorInv, DoorTypes, ThereIsReal, LeftBehindIsKnown, RestartIsNoticed,
      ComingIsLookedAt, DoorGoesToItsTarget, TravelShows
<1> QED
  BY <1>1, <1>2

\* Each of the two properties, as a condition on a step.
WritesFollowVehicles ==
  /\ host'.wrote = "open" => vehicle.there
  /\ host'.wrote = "closed" => ~vehicle.there \/ sync.held
WritesLetArrive ==
  host'.wrote # "none" /\ door.left > 1 /\ door.at # door.to /\ door.by = "client"
    => door.kind = "bare"

(***************************************************************************)
(* For any bound on a transit, any door that travels for less than that,   *)
(* and any number of faults: the door of the sync keeps its types, opens   *)
(* only for a vehicle that is there, closes on none unless it is held, and *)
(* one that can be read is let arrive before it is written to again, over  *)
(* deaths of GSX, relaunches of the client and moves of the pilot.         *)
(***************************************************************************)
THEOREM DoorsAreSafe ==
  ASSUME DoorConstants
  PROVE  Doors!Spec => []Doors!TypeOK /\ Doors!FollowsRealVehicles /\ Doors!LetsTheDoorArrive
<1>1. DoorInv => Doors!TypeOK
  BY DEF DoorInv, DoorTypes, Doors!TypeOK, Syncs, VehicleStates
<1>2. DoorInv /\ [Doors!Next]_(Doors!doorVars) => DoorInv'
  BY DoorSyncSteps
<1>3. DoorInv /\ [Doors!Next]_(Doors!doorVars) => [WritesFollowVehicles]_(Doors!doorVars)
  BY DoorSyncSteps DEF WritesAreMeant, WritesFollowVehicles
<1>4. DoorInv /\ [Doors!Next]_(Doors!doorVars) => [WritesLetArrive]_(Doors!doorVars)
  BY DoorSyncSteps DEF WritesAreMeant, WritesLetArrive
<1> QED
  BY DoorSyncStarts, <1>1, <1>2, <1>3, <1>4, PTL
  DEF Doors!Spec, Doors!FollowsRealVehicles, Doors!LetsTheDoorArrive, WritesFollowVehicles,
      WritesLetArrive

-----------------------------------------------------------------------------
(***************************************************************************)
(* The menu of the pilot's: the client closes a menu only when it takes it *)
(* for its own, and a menu that hist.pilots tells of is never taken for    *)
(* that, whatever is in the queue and however the menus follow each other. *)
(* What a pass has come to is Calm when it has closed none of the pilot's; *)
(* every stage of a pass leaves that so.                                   *)
(***************************************************************************)
CONSTANTS
  Requests, Toggles, Unconfirmed, WhileUnderway, Menus, Chores, AutoSelect, AutoDeice,
  MaxTriggerAttempts, MaxResyncs, Settle, Window, RefusalSettle, Retry, GiveUp, ResyncDelay,
  CompleteTtl, IntentTtl, MaxMenuFaults
VARIABLES queue, nav, gsxSide, hist

Navigator == INSTANCE GsxMenuNavigator WITH gsx <- gsxSide, MaxFaults <- MaxMenuFaults

NavFields ==
  {"owner", "asked", "settled", "picked", "watched", "stall", "resyncs", "resyncing",
   "resyncSig", "discarded", "intent", "intentAge", "reposition", "timer", "opener",
   "deiceSpent", "held"}

Close == <<"close", "">>

\* A pass that has come this far in a menu of this owner, and has not closed a pilot's.
Calm(s, owner) ==
  /\ DOMAIN s = {"n", "q", "out"} /\ DOMAIN s.n = NavFields
  /\ s.n.owner = owner /\ s.n.asked \in Int
  /\ owner = "Pilot" /\ gsxSide.menu # "None" => Close \notin s.out

(***************************************************************************)
(* The inductive invariant: a menu that does not show is nobody's, and the *)
(* one the pilot opened late is held for the pilot's.                      *)
(***************************************************************************)
MenuInv ==
  /\ DOMAIN nav = NavFields /\ nav.asked \in Int
  /\ DOMAIN gsxSide = {"up", "menu", "wire", "svc"}
  /\ DOMAIN hist = {"took", "undone", "pilots", "begun", "faults"}
  /\ gsxSide.menu = "None" => nav.owner = "None"
  /\ hist.pilots => gsxSide.menu # "None" /\ nav.owner = "Pilot"

\* What is sent leaves the owner, and when it is no close, calm what was.
LEMMA SendsAsItIs ==
  ASSUME NEW s, NEW owner, Calm(s, owner), NEW command,
         command # Close \/ owner # "Pilot" \/ gsxSide.menu = "None"
  PROVE  Calm(Navigator!Send(s, command), owner)
<1> DEFINE v == IF Navigator!AsksForAMenu(command) THEN 0 ELSE s.n.asked
           s1 == [s EXCEPT !.out = @ \cup {command}]
           s2 == [s1 EXCEPT !.n.settled = 0]
           s3 == [s2 EXCEPT !.n.asked = v]
<1>1. v \in Int
  BY DEF Calm
<1>2. Navigator!Send(s, command) = s3
  BY DEF Navigator!Send
<1> HIDE DEF v
<1>3. Calm(s1, owner)
  BY DEF Calm
<1> HIDE DEF s1
<1>4. Calm(s2, owner)
  BY <1>3 DEF Calm, NavFields
<1> HIDE DEF s2
<1>5. Calm(s3, owner)
  BY <1>1, <1>4 DEF Calm, NavFields
<1> QED
  BY <1>2, <1>5

\* The stages of a pass.
LEMMA SendsCalmly ==
  ASSUME NEW s, NEW owner, Calm(s, owner), NEW command, command # Close
  PROVE  Calm(Navigator!Send(s, command), owner)
BY SendsAsItIs

LEMMA ClosesItsOwn ==
  ASSUME NEW s, NEW owner, Calm(s, owner), owner # "Pilot" \/ gsxSide.menu = "None",
         NEW command
  PROVE  Calm(Navigator!Send(s, command), owner)
BY SendsAsItIs

LEMMA PicksCalmly ==
  ASSUME NEW s, NEW owner, Calm(s, owner), NEW entry
  PROVE  Calm(Navigator!Pick(s, entry), owner)
<1>1. <<"pick", entry>> # Close
  BY DEF Close
<1>2. Calm(Navigator!Send(s, <<"pick", entry>>), owner)
  BY <1>1, SendsCalmly
<1> QED
  BY <1>2 DEF Calm, NavFields, Navigator!Pick

LEMMA IntentsAreCalm ==
  ASSUME NEW s, NEW owner, Calm(s, owner), NEW intent
  PROVE  Calm([s EXCEPT !.n = Navigator!OpenIntent(@, intent)], owner)
  BY DEF Calm, NavFields, Navigator!OpenIntent

LEMMA MenusOpenCalmly ==
  ASSUME NEW s, NEW owner, Calm(s, owner)
  PROVE  Calm(Navigator!OpenMenu(s), owner)
<1>1. <<"toggle", "">> # Close
  BY DEF Close
<1> QED
  BY <1>1, SendsCalmly DEF Navigator!OpenMenu

LEMMA ClearsCalmly ==
  ASSUME NEW s, NEW owner, Calm(s, owner), NEW t
  PROVE  Calm(Navigator!Clear(s, t), owner)
  BY DEF Calm, NavFields, Navigator!Clear

LEMMA ArmsCalmly ==
  ASSUME NEW s, NEW owner, Calm(s, owner), NEW entry, NEW t
  PROVE  Calm(Navigator!PickedNowOrArmed(s, entry, t), owner)
<1>1. Calm(Navigator!Clear(Navigator!Pick(s, entry), t), owner)
  BY PicksCalmly, ClearsCalmly
<1> DEFINE armed == [s EXCEPT !.n = Navigator!OpenIntent([@ EXCEPT !.timer[t] = 0], "Service")]
<1>2. Calm(armed, owner)
  BY DEF Calm, NavFields, Navigator!OpenIntent
<1>3. Calm(Navigator!OpenMenu(armed), owner)
  BY <1>2, MenusOpenCalmly
<1> QED
  BY <1>1, <1>3 DEF Navigator!PickedNowOrArmed

LEMMA AnswersCalmly ==
  ASSUME NEW s, NEW owner, Calm(s, owner), NEW entry
  PROVE  Calm(Navigator!AutoPicked(s, entry), owner)
<1>1. Calm(Navigator!Pick(s, entry), owner)
  BY PicksCalmly
<1> QED
  BY <1>1 DEF Calm, NavFields, Navigator!AutoPicked

LEMMA WalksCalmly ==
  ASSUME NEW s, NEW owner, Calm(s, owner)
  PROVE  Calm(Navigator!Walked(s), owner)
<1>1. Calm(Navigator!Pick(s, "here"), owner) /\ Calm(Navigator!Pick(s, "reposition"), owner)
  BY PicksCalmly
<1>2. ASSUME NEW r, Calm(r, owner), NEW value
      PROVE  Calm([r EXCEPT !.n.reposition = value], owner)
  BY <1>2 DEF Calm, NavFields
<1>3. Calm([s EXCEPT !.n.reposition = IF gsxSide.up THEN "PickingRoot" ELSE @], owner)
  BY DEF Calm, NavFields
<1> QED
  BY <1>1, <1>2, <1>3 DEF Navigator!Walked

LEMMA PromptsCalmly ==
  ASSUME NEW s, NEW owner, Calm(s, owner)
  PROVE  Calm(Navigator!Prompted(s), owner)
  BY PicksCalmly, ArmsCalmly DEF Navigator!Prompted

LEMMA CompletesCalmly ==
  ASSUME NEW s, NEW owner, Calm(s, owner)
  PROVE  Calm(Navigator!Completed(s), owner)
<1>1. ASSUME NEW r, Calm(r, owner), NEW value
      PROVE  Calm([r EXCEPT !.n.opener = value], owner)
  BY <1>1 DEF Calm, NavFields
<1>2. ASSUME NEW r, Calm(r, owner)
      PROVE  Calm([r EXCEPT !.n.timer["followUp"] = 0], owner)
  BY <1>2 DEF Calm, NavFields
<1>3. ASSUME NEW r, Calm(r, owner), NEW opener
      PROVE  Calm([r EXCEPT !.n.opener = "None",
                            !.n.timer = IF opener = "None" THEN @
                                        ELSE [@ EXCEPT ![opener] = CompleteTtl]], owner)
  BY <1>3 DEF Calm, NavFields
<1>4. \A entry : Calm(Navigator!Pick(s, entry), owner)
  BY PicksCalmly
<1>5. \A entry, t : Calm(Navigator!Clear(Navigator!Pick(s, entry), t), owner)
  BY <1>4, ClearsCalmly
<1> QED
  BY <1>1, <1>2, <1>3, <1>4, <1>5 DEF Navigator!Completed

LEMMA HandlesCalmly ==
  ASSUME NEW s, NEW owner, Calm(s, owner)
  PROVE  Calm(Navigator!HandleMenu(s), owner)
<1>1. Calm([s EXCEPT !.n.picked = "None", !.n.watched = "None"], owner)
  BY DEF Calm, NavFields
<1>2. \A entry : Calm(Navigator!AutoPicked(s, entry), owner)
  BY AnswersCalmly
<1> DEFINE done == Navigator!Completed(s)
<1>3. Calm(done, owner)
  BY CompletesCalmly
<1>4. /\ Calm(Navigator!Prompted(done), owner) /\ Calm(Navigator!Walked(done), owner)
      /\ Calm(Navigator!Prompted(Navigator!Walked(done)), owner)
  BY <1>3, PromptsCalmly, WalksCalmly
<1> QED
  BY <1>1, <1>2, <1>3, <1>4 DEF Navigator!HandleMenu

LEMMA ResyncsCalmly ==
  ASSUME NEW s, NEW owner, Calm(s, owner)
  PROVE  Calm(Navigator!Resynced(s), owner)
<1> DEFINE again == [s EXCEPT !.n.stall = 0]
           close == Navigator!Send(again, Close)
           get == Navigator!Send(again, <<"get", "">>)
<1>1. Calm(again, owner)
  BY DEF Calm, NavFields
<1>2. Calm([s EXCEPT !.n.watched = gsxSide.menu, !.n.stall = 0, !.n.resyncs = 0], owner)
  BY DEF Calm, NavFields
<1>3. Calm([s EXCEPT !.n.discarded = "Direction"], owner)
  BY DEF Calm, NavFields
<1>4. ASSUME Navigator!IsOurs(s.n) PROVE Calm(close, owner)
  BY <1>1, <1>4, ClosesItsOwn DEF Navigator!IsOurs, Calm
<1>5. Calm(get, owner)
  <2>1. <<"get", "">> # Close
    BY DEF Close
  <2> QED
    BY <1>1, <2>1, SendsCalmly
<1> HIDE DEF get, close, again
<1>6. ASSUME Calm(close, owner)
      PROVE  Calm([close EXCEPT !.n.discarded = gsxSide.menu], owner)
  BY <1>6 DEF Calm, NavFields
<1>7. Calm([get EXCEPT !.n.resyncs = @ + 1, !.n.resyncing = TRUE,
                       !.n.resyncSig = gsxSide.menu], owner)
  BY <1>5 DEF Calm, NavFields
<1>8. /\ Navigator!IsRepositionLeftover(s.n) => Navigator!IsOurs(s.n)
      /\ Navigator!DiscardsTheMenu(s) => Navigator!IsOurs(s.n)
  BY DEF Navigator!IsRepositionLeftover, Navigator!DiscardsTheMenu
<1> QED
  BY <1>1, <1>2, <1>3, <1>4, <1>5, <1>6, <1>7, <1>8
  DEF Navigator!Resynced, again, close, get, Close

LEMMA SortsCalmly ==
  ASSUME NEW s, NEW owner, Calm(s, owner)
  PROVE  Calm(Navigator!Sorted(s), owner)
<1>1. \A q : Calm([s EXCEPT !.q = q], owner)
  BY DEF Calm, NavFields
<1> QED
  BY <1>1 DEF Navigator!Sorted

LEMMA RequestsGoOutCalmly ==
  ASSUME NEW s, NEW owner, Calm(s, owner), NEW i
  PROVE  Calm(Navigator!SendRequest(s, i), owner)
<1> SUFFICES ASSUME ~Navigator!IsPilots(s.n)
             PROVE  Calm(Navigator!SendRequest(s, i), owner)
  BY DEF Navigator!SendRequest
<1>1. owner # "Pilot" \/ gsxSide.menu = "None"
  BY DEF Calm, Navigator!IsPilots
<1> DEFINE close == Navigator!Send(s, Close)
           closed == IF gsxSide.menu = "None" THEN s
                     ELSE [close EXCEPT !.n.picked = "None", !.n.watched = "None"]
           sent == Navigator!Send(closed, <<"trigger", s.q[i].id>>)
           first == ~Navigator!WasSent(s.q[i]) /\ s.q[i].id \notin Unconfirmed
           s1 == [sent EXCEPT !.q[i].tries = @ + 1]
           s2 == [s1 EXCEPT !.q[i].age = 0]
           s3 == [s2 EXCEPT !.q[i].told = "No"]
           s4 == [s3 EXCEPT !.q[i].refused = FALSE]
           n == IF first /\ ~Navigator!Walking(sent.n)
                THEN Navigator!OpenIntent(sent.n, "Service") ELSE sent.n
           s5 == [s4 EXCEPT !.n = n]
<1>2. Navigator!SendRequest(s, i) = s \/ Navigator!SendRequest(s, i) = s5
  BY DEF Navigator!SendRequest, Close
<1> HIDE DEF first
<1>3. Calm(close, owner)
  BY <1>1, SendsAsItIs
<1> HIDE DEF close
<1>4. Calm(closed, owner)
  BY <1>3 DEF Calm, NavFields
<1> HIDE DEF closed
<1>5. Calm(sent, owner)
  BY <1>1, <1>4, SendsAsItIs
<1>6. DOMAIN n = NavFields /\ n.owner = owner /\ n.asked \in Int
  BY <1>5 DEF Calm, NavFields, Navigator!OpenIntent
<1> HIDE DEF n, sent
<1>7. Calm(s1, owner)
  BY <1>5 DEF Calm
<1> HIDE DEF s1
<1>8. Calm(s2, owner)
  BY <1>7 DEF Calm
<1> HIDE DEF s2
<1>9. Calm(s3, owner)
  BY <1>8 DEF Calm
<1> HIDE DEF s3
<1>10. Calm(s4, owner)
  BY <1>9 DEF Calm
<1> HIDE DEF s4
<1>11. Calm(s5, owner)
  BY <1>10, <1>6 DEF Calm
<1> QED
  BY <1>2, <1>11

LEMMA DispatchesCalmly ==
  ASSUME NEW s, NEW owner, Calm(s, owner)
  PROVE  Calm(Navigator!Dispatched(s), owner)
<1>1. \A i : Calm([s EXCEPT !.q[i].behindToggle = TRUE], owner)
  BY DEF Calm
<1>2. \A i : Calm(Navigator!SendRequest(s, i), owner)
  BY RequestsGoOutCalmly
<1> QED
  BY <1>1, <1>2 DEF Navigator!Dispatched

\* Once a menu shows it is somebody's, and stays so.
LEMMA OwnersAreTracked ==
  ASSUME NEW n, DOMAIN n = NavFields, n.asked \in Int, NEW m, m = Navigator!TrackMenuOwner(n)
  PROVE  /\ DOMAIN m = NavFields /\ m.asked \in Int
         /\ gsxSide.menu = "None" => m.owner = "None"
         /\ gsxSide.menu # "None" => m.owner # "None"
         /\ gsxSide.menu # "None" /\ n.owner # "None" => m = n
         /\ gsxSide.menu # "None" /\ n.owner = "None" /\ ~(n.asked < Window) => m.owner = "Pilot"
BY DEF NavFields, Navigator!TrackMenuOwner

\* What no step does.
LeavesItOpen == hist.pilots => Close \notin gsxSide'.wire \ gsxSide.wire

\* The requests go out in the menu that the pass is in.
LEMMA PumpsKeepTheMenu ==
  ASSUME MenuInv, NEW s, NEW owner, Calm(s, owner), NEW sending, sending \subseteq gsxSide.wire,
         NEW counts, Navigator!Pumps(s, sending, counts),
         hist.pilots => owner = "Pilot",
         owner = "None" => Close \notin s.out
  PROVE  MenuInv' /\ LeavesItOpen
<1> DEFINE m == Navigator!TrackMenuOwner(s.n)
           t == [s EXCEPT !.n = m]
<1>1. /\ DOMAIN m = NavFields /\ m.asked \in Int
      /\ gsxSide.menu = "None" => m.owner = "None"
      /\ gsxSide.menu # "None" /\ owner # "None" => m.owner = owner
  BY OwnersAreTracked DEF Calm
<1>2. PICK sorted, sent : /\ sorted = Navigator!Sorted(t) /\ sent = Navigator!Dispatched(sorted)
                          /\ Navigator!Ends(sent, sending, counts)
  BY DEF Navigator!Pumps
<1> HIDE DEF m
<1>3. Calm(t, m.owner)
  BY <1>1 DEF Calm
<1> HIDE DEF t
<1>4. Calm(sent, m.owner)
  BY <1>2, <1>3, SortsCalmly, DispatchesCalmly
<1>5. /\ nav' = sent.n
      /\ gsxSide' = [gsxSide EXCEPT !.wire = sending \cup sent.out]
      /\ DOMAIN hist' = DOMAIN hist /\ hist'.pilots = hist.pilots
  BY <1>2 DEF Navigator!Ends, MenuInv
<1>6. gsxSide'.menu = gsxSide.menu /\ gsxSide'.wire = sending \cup sent.out
      /\ DOMAIN gsxSide' = DOMAIN gsxSide
  BY <1>5 DEF MenuInv
<1>7. DOMAIN nav' = NavFields /\ nav'.asked \in Int /\ nav'.owner = m.owner
  BY <1>4, <1>5 DEF Calm
<1>8. hist.pilots => m.owner = "Pilot" /\ gsxSide.menu # "None"
  BY <1>1 DEF MenuInv
<1>9. MenuInv'
  BY <1>1, <1>5, <1>6, <1>7, <1>8 DEF MenuInv
<1>10. LeavesItOpen
  BY <1>4, <1>6, <1>8 DEF Calm, LeavesItOpen
<1> QED
  BY <1>9, <1>10

\* The whole pass over the menu that shows.
LEMMA PassKeepsTheMenu ==
  ASSUME MenuInv, NEW n, DOMAIN n = NavFields, n.asked \in Int, n.owner = nav.owner,
         NEW sending, sending \subseteq gsxSide.wire, Navigator!Pass(n, sending)
  PROVE  MenuInv' /\ LeavesItOpen
<1>1. PICK tracked, s, handled :
        /\ tracked = Navigator!TrackMenuOwner(n)
        /\ s = (IF gsxSide.menu = "None" THEN Navigator!Now(tracked, queue)
                ELSE Navigator!Resynced(Navigator!Now(tracked, queue)))
        /\ handled = Navigator!HandleMenu(s)
        /\ Navigator!Pumps(handled, sending, FALSE)
  BY DEF Navigator!Pass
<1>2. /\ DOMAIN tracked = NavFields /\ tracked.asked \in Int
      /\ gsxSide.menu # "None" => tracked.owner # "None"
      /\ gsxSide.menu # "None" /\ n.owner # "None" => tracked = n
  BY <1>1, OwnersAreTracked
<1>3. Calm(Navigator!Now(tracked, queue), tracked.owner)
  BY <1>2 DEF Calm, Navigator!Now
<1>4. Calm(handled, tracked.owner)
  BY <1>1, <1>3, ResyncsCalmly, HandlesCalmly
<1>5. hist.pilots => tracked.owner = "Pilot"
  BY <1>2 DEF MenuInv
<1>6. tracked.owner = "None" => Close \notin handled.out
  <2> SUFFICES ASSUME tracked.owner = "None" PROVE Close \notin handled.out
    OBVIOUS
  <2>1. gsxSide.menu = "None"
    BY <1>2
  <2>2. s = [n |-> tracked, q |-> queue, out |-> {}]
    BY <1>1, <2>1 DEF Navigator!Now
  <2>3. handled.out = {}
    BY <1>1, <2>1, <2>2 DEF Navigator!HandleMenu
  <2> QED
    BY <2>3
<1> QED
  BY <1>1, <1>4, <1>5, <1>6, PumpsKeepTheMenu

LEMMA ArmingKeepsTheMenu ==
  ASSUME MenuInv, NEW id, Navigator!ArmRequest(id)
  PROVE  MenuInv' /\ LeavesItOpen
<1> DEFINE n == IF id \in Unconfirmed THEN nav ELSE Navigator!OpenIntent(nav, "Service")
<1>1. PICK q, counts : Navigator!Pumps(Navigator!Now(n, q), gsxSide.wire, counts)
  BY DEF Navigator!ArmRequest
<1>2. DOMAIN n = NavFields /\ n.asked \in Int /\ n.owner = nav.owner
  BY DEF MenuInv, NavFields, Navigator!OpenIntent
<1> HIDE DEF n
<1>3. Calm(Navigator!Now(n, q), nav.owner) /\ Navigator!Now(n, q).out = {}
  BY <1>2 DEF Calm, Navigator!Now
<1>4. hist.pilots => nav.owner = "Pilot"
  BY DEF MenuInv
<1> QED
  BY <1>1, <1>3, <1>4, PumpsKeepTheMenu

\* What the flow begins, from a pass that has come to s.
LEMMA ChoreKeepsTheMenu ==
  ASSUME MenuInv, NEW name, NEW s, NEW owner, Calm(s, owner), Navigator!Chore(name, s),
         gsxSide.menu = "None" => owner = "None", hist.pilots => owner = "Pilot"
  PROVE  MenuInv' /\ LeavesItOpen
<1>1. /\ nav' = s.n
      /\ gsxSide' = [gsxSide EXCEPT !.wire = @ \cup s.out]
      /\ DOMAIN hist' = DOMAIN hist /\ hist'.pilots = hist.pilots
  BY DEF Navigator!Chore, Navigator!Begun, MenuInv
<1>2. gsxSide'.menu = gsxSide.menu /\ gsxSide'.wire = gsxSide.wire \cup s.out
      /\ DOMAIN gsxSide' = DOMAIN gsxSide
  BY <1>1 DEF MenuInv
<1> QED
  BY <1>1, <1>2 DEF MenuInv, LeavesItOpen, Calm

\* The completions and dialogues, none of which closes.
LEMMA ChoresKeepTheMenu ==
  ASSUME MenuInv,
         \/ Navigator!RepositionAircraft \/ Navigator!CompletePushback
         \/ Navigator!ConfirmGoodEngines \/ Navigator!HoldRequests
         \/ \E t \in {"refuel", "boarding"} : Navigator!CompleteService(t)
  PROVE  MenuInv' /\ LeavesItOpen
<1>1. /\ gsxSide.menu = "None" => nav.owner = "None"
      /\ hist.pilots => nav.owner = "Pilot"
  BY DEF MenuInv
<1>2. ASSUME NEW n, DOMAIN n = NavFields, n.asked \in Int, n.owner = nav.owner
      PROVE  Calm(Navigator!Now(n, queue), nav.owner)
  BY <1>2 DEF Calm, Navigator!Now
<1>3. DOMAIN nav = NavFields /\ nav.asked \in Int
  BY DEF MenuInv
<1>4. CASE Navigator!RepositionAircraft
  <2> DEFINE n == [Navigator!OpenIntent(nav, "Reposition") EXCEPT !.reposition = "Opening"]
             s == Navigator!OpenMenu(Navigator!Now(n, queue))
  <2>1. DOMAIN n = NavFields /\ n.asked \in Int /\ n.owner = nav.owner
    BY <1>3 DEF NavFields, Navigator!OpenIntent
  <2>2. Navigator!Chore("reposition", s)
    BY <1>4 DEF Navigator!RepositionAircraft
  <2> HIDE DEF n
  <2>3. Calm(s, nav.owner)
    BY <1>2, <2>1, MenusOpenCalmly
  <2> QED
    BY <1>1, <2>2, <2>3, ChoreKeepsTheMenu
<1>5. CASE Navigator!CompletePushback
  <2> DEFINE s == Navigator!PickedNowOrArmed(Navigator!Now(nav, queue), "complete", "complete")
             t == [s EXCEPT !.n.timer["followUp"] = 0]
  <2>1. Calm(s, nav.owner)
    BY <1>2, <1>3, ArmsCalmly
  <2>2. Navigator!Chore("complete", s) \/ Navigator!Chore("complete", t)
    BY <1>5 DEF Navigator!CompletePushback
  <2> HIDE DEF s
  <2>3. Calm(t, nav.owner)
    BY <2>1 DEF Calm, NavFields
  <2> QED
    BY <1>1, <2>1, <2>2, <2>3, ChoreKeepsTheMenu
<1>6. CASE Navigator!ConfirmGoodEngines
  <2> DEFINE s == Navigator!PickedNowOrArmed(Navigator!Now(nav, queue), "engines", "engines")
  <2>1. Calm(s, nav.owner)
    BY <1>2, <1>3, ArmsCalmly
  <2> QED
    BY <1>1, <1>6, <2>1, ChoreKeepsTheMenu DEF Navigator!ConfirmGoodEngines
<1>7. CASE Navigator!HoldRequests
  <2> DEFINE n == [nav EXCEPT !.held = ~@]
  <2>1. DOMAIN n = NavFields /\ n.asked \in Int /\ n.owner = nav.owner
    BY <1>3 DEF NavFields
  <2>2. Navigator!Chore("hold", Navigator!Now(n, queue))
    BY <1>7 DEF Navigator!HoldRequests
  <2> HIDE DEF n
  <2>3. Calm(Navigator!Now(n, queue), nav.owner)
    BY <1>2, <2>1
  <2> QED
    BY <1>1, <2>2, <2>3, ChoreKeepsTheMenu
<1>8. CASE \E t \in {"refuel", "boarding"} : Navigator!CompleteService(t)
  <2>1. PICK t \in {"refuel", "boarding"} : Navigator!CompleteService(t)
    BY <1>8
  <2> DEFINE n == Navigator!OpenIntent([nav EXCEPT !.timer[t] = 0], "Service")
             s == Navigator!OpenMenu(Navigator!Now(n, queue))
  <2>2. DOMAIN n = NavFields /\ n.asked \in Int /\ n.owner = nav.owner
    BY <1>3 DEF NavFields, Navigator!OpenIntent
  <2>3. Navigator!Chore(t, s)
    BY <2>1 DEF Navigator!CompleteService
  <2> HIDE DEF n
  <2>4. Calm(s, nav.owner)
    BY <1>2, <2>2, MenusOpenCalmly
  <2> QED
    BY <1>1, <2>3, <2>4, ChoreKeepsTheMenu
<1> QED
  BY <1>4, <1>5, <1>6, <1>7, <1>8

\* The end of the flow, which closes what is its own.
LEMMA DisablingKeepsTheMenu ==
  ASSUME MenuInv, Navigator!DisableGsxMenu
  PROVE  MenuInv' /\ LeavesItOpen
<1> DEFINE n == Navigator!TrackMenuOwner(nav)
           left == [n EXCEPT !.reposition = "Idle", !.intent = "None"]
           s == Navigator!Now(n, queue)
           quiet == [s EXCEPT !.n = left]
           closing == [s EXCEPT !.out = {Close}, !.n = left]
<1>1. /\ DOMAIN n = NavFields /\ n.asked \in Int
      /\ gsxSide.menu = "None" => n.owner = "None"
      /\ hist.pilots => n.owner = "Pilot"
  BY OwnersAreTracked DEF MenuInv
<1>2. \/ Navigator!Chore("disable", quiet) \/ Navigator!Chore("disable", s)
      \/ ~Navigator!IsPilots(n) /\ Navigator!Chore("disable", closing)
  BY DEF Navigator!DisableGsxMenu, Close
<1> HIDE DEF n
<1>3. DOMAIN left = NavFields /\ left.asked \in Int /\ left.owner = n.owner
  BY <1>1 DEF NavFields
<1> HIDE DEF left
<1>4. Calm(s, n.owner) /\ Calm(quiet, n.owner)
  BY <1>1, <1>3 DEF Calm, Navigator!Now
<1>5. ASSUME ~Navigator!IsPilots(n) PROVE Calm(closing, n.owner)
  BY <1>1, <1>3, <1>5 DEF Calm, Navigator!Now, Navigator!IsPilots
<1> HIDE DEF s, quiet, closing
<1> QED
  BY <1>1, <1>2, <1>4, <1>5, ChoreKeepsTheMenu

\* Of the menus that GSX shows, the ones the pilot opened late are the pilot's.
LEMMA ShowingKeepsTheMenu ==
  ASSUME MenuInv, NEW shown, NEW sending, sending \subseteq gsxSide.wire, NEW byPilot,
         Navigator!Shows(shown, sending, byPilot),
         byPilot => \/ nav.owner = "Pilot"
                    \/ nav.owner = "None" /\ ~(nav.asked < Window)
  PROVE  MenuInv' /\ LeavesItOpen
<1>1. /\ gsxSide'.menu = shown /\ gsxSide'.wire = sending
      /\ DOMAIN gsxSide' = {"up", "menu", "wire", "svc"}
  BY DEF Navigator!Shows, MenuInv
<1>2. /\ DOMAIN hist' = {"took", "undone", "pilots", "begun", "faults"}
      /\ hist'.pilots <=> shown # "None" /\ byPilot
  BY DEF Navigator!Shows, MenuInv
<1>3. /\ DOMAIN nav' = NavFields /\ nav'.asked \in Int
      /\ shown = "None" => nav'.owner = "None"
      /\ shown # "None" /\ byPilot => nav'.owner = "Pilot"
  BY DEF Navigator!Shows, MenuInv, NavFields
<1> QED
  BY <1>1, <1>2, <1>3 DEF MenuInv, LeavesItOpen

LEMMA PilotKeepsTheMenu ==
  ASSUME MenuInv, Window \in Int, Navigator!PilotOpens \/ Navigator!PilotMovesOn
  PROVE  MenuInv' /\ LeavesItOpen
<1>1. CASE Navigator!PilotOpens
  <2> DEFINE late == nav.asked >= Window
  <2>1. PICK shown : Navigator!Shows(shown, gsxSide.wire, late)
    BY <1>1 DEF Navigator!PilotOpens
  <2>2. nav.owner = "None" /\ (late => ~(nav.asked < Window))
    BY <1>1 DEF Navigator!PilotOpens, MenuInv
  <2> HIDE DEF late
  <2> QED
    BY <2>1, <2>2, ShowingKeepsTheMenu
<1>2. CASE Navigator!PilotMovesOn
  <2>1. PICK shown : Navigator!Shows(shown, gsxSide.wire, hist.pilots)
    BY <1>2 DEF Navigator!PilotMovesOn
  <2>2. hist.pilots => nav.owner = "Pilot"
    BY DEF MenuInv
  <2> QED
    BY <2>1, <2>2, ShowingKeepsTheMenu
<1> QED
  BY <1>1, <1>2

LEMMA GsxActsAndKeepsTheMenu ==
  ASSUME MenuInv, NEW command, Navigator!GsxActs(command)
  PROVE  MenuInv' /\ LeavesItOpen
<1> DEFINE sending == gsxSide.wire \ {command}
<1>1. sending \subseteq gsxSide.wire
  OBVIOUS
<1>2. ASSUME NEW shown, Navigator!Shows(shown, sending, FALSE)
      PROVE  MenuInv' /\ LeavesItOpen
  BY <1>1, <1>2, ShowingKeepsTheMenu
<1>3. ASSUME gsxSide'.menu = gsxSide.menu \/ gsxSide'.menu # "None", gsxSide'.wire = sending,
             DOMAIN gsxSide' = DOMAIN gsxSide, UNCHANGED nav,
             DOMAIN hist' = DOMAIN hist, hist'.pilots = hist.pilots
      PROVE  MenuInv' /\ LeavesItOpen
  BY <1>3 DEF MenuInv, LeavesItOpen
<1>4. CASE Navigator!GsxToggles(sending)
  BY <1>2, <1>4 DEF Navigator!GsxToggles
<1>5. CASE Navigator!Shows("None", sending, FALSE)
  BY <1>2, <1>5
<1>6. CASE Navigator!GsxTakesThePick(command[2], sending)
  <2>1. CASE Navigator!Shows("None", sending, FALSE)
    BY <1>2, <2>1
  <2>2. CASE /\ command[2] \in DOMAIN Navigator!RunningOf
             /\ gsxSide' = [gsxSide EXCEPT !.menu = Navigator!RunningOf[command[2]], !.wire = sending]
             /\ UNCHANGED <<queue, nav, hist>>
    <3>1. Navigator!RunningOf[command[2]] # "None"
      BY <2>2 DEF Navigator!RunningOf
    <3> QED
      BY <1>3, <2>2, <3>1 DEF MenuInv
  <2> QED
    BY <1>6, <2>1, <2>2 DEF Navigator!GsxTakesThePick
<1>7. CASE Navigator!GsxSendsASnapshot(sending)
  <2>1. PICK n : /\ DOMAIN n = NavFields /\ n.asked \in Int /\ n.owner = nav.owner
                 /\ Navigator!Pass(n, sending)
    <3> DEFINE unmoved == nav.resyncing /\ gsxSide.menu # "None" /\ gsxSide.menu = nav.resyncSig
               n == [nav EXCEPT !.resyncing = FALSE, !.picked = IF unmoved THEN "None" ELSE @]
    <3>1. Navigator!Pass(n, sending)
      BY <1>7 DEF Navigator!GsxSendsASnapshot
    <3> HIDE DEF unmoved
    <3>2. DOMAIN n = NavFields /\ n.asked \in Int /\ n.owner = nav.owner
      BY DEF MenuInv, NavFields
    <3> QED
      BY <3>1, <3>2
  <2> QED
    BY <1>1, <2>1, PassKeepsTheMenu
<1>8. CASE Navigator!GsxTriggers(command[2], sending)
  <2> DEFINE id == command[2]
  <2>1. CASE \E status : Navigator!Service(id, status, sending) /\ DOMAIN hist' = DOMAIN hist
                         /\ hist'.pilots = hist.pilots
    BY <1>3, <2>1 DEF Navigator!Service, MenuInv
  <2>2. CASE gsxSide' = [gsxSide EXCEPT !.wire = sending] /\ UNCHANGED <<nav, hist>>
    BY <1>3, <2>2 DEF MenuInv
  <2>3. \/ Navigator!Service(id, "Busy", sending)
             /\ hist' = [hist EXCEPT !.took = @ \cup ({id} \cap Navigator!SentAndWaiting)]
        \/ Navigator!Service(id, "Callable", sending)
             /\ hist' = [hist EXCEPT !.undone = @ \/ id \in hist.took]
        \/ gsxSide' = [gsxSide EXCEPT !.wire = sending] /\ UNCHANGED <<nav, hist>>
    BY <1>8 DEF Navigator!GsxTriggers
  <2>4. \/ \E status : Navigator!Service(id, status, sending) /\ DOMAIN hist' = DOMAIN hist
                       /\ hist'.pilots = hist.pilots
        \/ gsxSide' = [gsxSide EXCEPT !.wire = sending] /\ UNCHANGED <<nav, hist>>
    BY <2>3 DEF MenuInv
  <2> QED
    BY <2>1, <2>2, <2>4
<1> QED
  BY <1>4, <1>5, <1>6, <1>7, <1>8 DEF Navigator!GsxActs

LEMMA LinkKeepsTheMenu ==
  ASSUME MenuInv,
         \/ Navigator!ServiceGoesOn \/ Navigator!GsxSaysSomething
         \/ Navigator!LinkDrops \/ Navigator!LinkReturns
  PROVE  MenuInv' /\ LeavesItOpen
<1>1. /\ gsxSide'.menu = gsxSide.menu /\ gsxSide'.wire \subseteq gsxSide.wire
      /\ DOMAIN gsxSide' = DOMAIN gsxSide
  BY DEF Navigator!ServiceGoesOn, Navigator!Service, Navigator!GsxSaysSomething,
         Navigator!LinkDrops, Navigator!LinkReturns, MenuInv
<1>2. DOMAIN hist' = DOMAIN hist /\ hist'.pilots = hist.pilots
  BY DEF Navigator!ServiceGoesOn, Navigator!GsxSaysSomething, Navigator!LinkDrops,
         Navigator!LinkReturns, Navigator!Fault, MenuInv
<1>3. DOMAIN nav' = NavFields /\ nav'.asked = nav.asked /\ nav'.owner = nav.owner
  BY DEF Navigator!ServiceGoesOn, Navigator!Service, Navigator!GsxSaysSomething,
         Navigator!LinkDrops, Navigator!LinkReturns, MenuInv, NavFields
<1> QED
  BY <1>1, <1>2, <1>3 DEF MenuInv, LeavesItOpen

\* The client that comes back has asked for nothing: a menu that shows is the pilot's.
LEMMA RelaunchKeepsTheMenu ==
  ASSUME MenuInv, Window \in Int, Navigator!Relaunch
  PROVE  MenuInv' /\ LeavesItOpen
<1> DEFINE n == [Navigator!Idle EXCEPT !.deiceSpent = nav.deiceSpent]
           m == IF queue = << >> THEN n ELSE Navigator!OpenIntent(n, "Service")
<1>1. nav' = Navigator!TrackMenuOwner(m)
  BY DEF Navigator!Relaunch
<1>2. DOMAIN n = NavFields /\ n.asked = Window /\ n.owner = "None"
  BY DEF Navigator!Idle, NavFields
<1> HIDE DEF n
<1>3. DOMAIN m = NavFields /\ m.asked = Window /\ m.owner = "None"
  BY <1>2 DEF NavFields, Navigator!OpenIntent
<1> HIDE DEF m
<1>4. /\ DOMAIN nav' = NavFields /\ nav'.asked \in Int
      /\ gsxSide.menu = "None" => nav'.owner = "None"
      /\ gsxSide.menu # "None" => nav'.owner = "Pilot"
  BY <1>1, <1>3, OwnersAreTracked
<1>5. gsxSide' = gsxSide /\ DOMAIN hist' = DOMAIN hist /\ hist'.pilots = hist.pilots
  BY DEF Navigator!Relaunch, Navigator!Fault, MenuInv
<1> QED
  BY <1>4, <1>5 DEF MenuInv, LeavesItOpen

LEMMA TimeKeepsTheMenu ==
  ASSUME MenuInv, Window \in Int, Navigator!Tick
  PROVE  MenuInv' /\ LeavesItOpen
<1>1. DOMAIN nav' = NavFields /\ nav'.owner = nav.owner
      /\ nav'.asked = Navigator!Upto(nav.asked, Window)
  BY DEF Navigator!Tick, MenuInv, NavFields
<1>2. nav'.asked \in Int
  BY <1>1 DEF Navigator!Upto, MenuInv
<1>3. gsxSide' = gsxSide /\ hist' = hist
  BY DEF Navigator!Tick
<1> QED
  BY <1>1, <1>2, <1>3 DEF MenuInv, LeavesItOpen

(***************************************************************************)
(* For any requests, menus, settings, spans and attempts, and any number   *)
(* of faults: a menu that the pilot opened, with nothing the client had    *)
(* asked for shortly before, is not closed by the client, over the drops   *)
(* of the link and relaunches too (TrackMenuOwner, SendRequest).           *)
(***************************************************************************)
THEOREM PilotsMenusAreLeftOpen ==
  ASSUME Window \in Int
  PROVE  Navigator!Spec => Navigator!PilotsMenuIsLeftOpen
<1>1. Navigator!Init => MenuInv
  <2> SUFFICES ASSUME Navigator!Init PROVE MenuInv
    OBVIOUS
  <2>1. DOMAIN nav = NavFields /\ nav.asked = Window /\ nav.owner = "None"
    BY DEF Navigator!Init, Navigator!Idle, NavFields
  <2>2. gsxSide.menu = "None" /\ DOMAIN gsxSide = {"up", "menu", "wire", "svc"}
    BY DEF Navigator!Init
  <2>3. ~hist.pilots /\ DOMAIN hist = {"took", "undone", "pilots", "begun", "faults"}
    BY DEF Navigator!Init, Navigator!NoHistory
  <2> QED
    BY <2>1, <2>2, <2>3 DEF MenuInv
<1>2. MenuInv /\ [Navigator!Next]_(Navigator!vars) => MenuInv' /\ [LeavesItOpen]_(Navigator!vars)
  <2> SUFFICES ASSUME MenuInv, [Navigator!Next]_(Navigator!vars)
               PROVE  MenuInv' /\ [LeavesItOpen]_(Navigator!vars)
    OBVIOUS
  <2>1. CASE Navigator!OnMenuChanged
    <3>1. DOMAIN nav = NavFields /\ nav.asked \in Int
      BY DEF MenuInv
    <3> QED
      BY <2>1, <3>1, PassKeepsTheMenu DEF Navigator!OnMenuChanged
  <2>2. CASE UNCHANGED Navigator!vars
    BY <2>2 DEF Navigator!vars, MenuInv
  <2> QED
    BY <2>1, <2>2, ArmingKeepsTheMenu, ChoresKeepTheMenu, DisablingKeepsTheMenu,
       PilotKeepsTheMenu, GsxActsAndKeepsTheMenu, LinkKeepsTheMenu, RelaunchKeepsTheMenu,
       TimeKeepsTheMenu
    DEF Navigator!Next
<1>3. MenuInv /\ [Navigator!Next]_(Navigator!vars) => MenuInv'
  BY <1>2
<1>4. MenuInv /\ [Navigator!Next]_(Navigator!vars) => [LeavesItOpen]_(Navigator!vars)
  BY <1>2
<1> QED
  BY <1>1, <1>3, <1>4, PTL
  DEF Navigator!Spec, Navigator!PilotsMenuIsLeftOpen, LeavesItOpen, Close
=============================================================================
