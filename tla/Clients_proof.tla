----------------------------- MODULE Clients_proof -----------------------------
(***************************************************************************)
(* Proofs about the clients of the aircraft add-ons, of the simulator, of  *)
(* the EFB page and of the releases, each for any delays, counts of        *)
(* attempts and faults, and of MCHost, which runs them side by side.       *)
(***************************************************************************)
EXTENDS MCHost, Integers, Sequences, TLAPS

-----------------------------------------------------------------------------
(***************************************************************************)
(* The doors of the PMDG 777 and 737.                                      *)
(* A toggle is sent anew only when it has had the time to show: while the  *)
(* aircraft has one it has not moved for, the request counts as commanded  *)
(* and has been waited for no longer than the toggle is old.               *)
(***************************************************************************)
\* What the constants are taken to be here.
LEMMA PmdgDoorConstants ==
  PmdgDoor!NoSlot \notin DoorSlots /\ DoorRetryTicks \in Nat \ {0} /\ DoorAttempts \in Nat
    /\ MaxFaults \in Nat
BY HostConstants DEF DoorSlots, PmdgDoor!NoSlot

Words == {"open", "closed"}
Desires == Words \cup {PmdgDoor!Nothing}
DoorRequests == [desired : Desires, commanded : Desires, ticks : 0 .. DoorRetryTicks,
                 attempts : 0 .. DoorAttempts]
Reconcilers == [of : [DoorSlots -> DoorRequests], opened : DoorSlots \cup {PmdgDoor!NoSlot}]
PmdgDoorStates == [at : Words, phase : {"rests", "asked", "moves"}, age : Nat]
DoorDisks == [desired : [DoorSlots -> Desires], opened : DoorSlots \cup {PmdgDoor!NoSlot},
              wanted : Words]
DoorWorlds == [slot : DoorSlots, wanted : Words, toggled : SUBSET DoorSlots, faults : Nat,
               pilot : BOOLEAN, disk : DoorDisks]

PmdgDoorTypes ==
  recon \in Reconcilers /\ doors \in [DoorSlots -> PmdgDoorStates] /\ world \in DoorWorlds

OpenedIsDesired ==
  /\ recon.opened # PmdgDoor!NoSlot => recon.of[recon.opened].desired = "open"
  /\ world.disk.opened # PmdgDoor!NoSlot => world.disk.desired[world.disk.opened] = "open"

AskedIsCommanded ==
  \A s \in DoorSlots :
    doors[s].phase = "asked" =>
      recon.of[s].commanded = recon.of[s].desired /\ recon.of[s].ticks <= doors[s].age

PmdgDoorInv == PmdgDoorTypes /\ OpenedIsDesired /\ AskedIsCommanded

ToggledIsNotThere ==
  \A s \in world'.toggled : doors[s].phase = "rests" /\ doors[s].at # recon.of[s].desired

\* What a tick makes of the request for one slot: a toggle starts its count over.
LEMMA ReconciledDoor ==
  ASSUME NEW r \in DoorRequests, NEW d \in PmdgDoorStates
  PROVE  /\ PmdgDoor!ReconcileSlot(r, d) \in DoorRequests
         /\ PmdgDoor!ReconcileSlot(r, d).desired = r.desired
         /\ r.commanded = r.desired => PmdgDoor!ReconcileSlot(r, d).commanded = r.desired
         /\ PmdgDoor!ReconcileSlot(r, d).ticks <= r.ticks + 1
         /\ PmdgDoor!IsToggled(r, d) => /\ PmdgDoor!ReconcileSlot(r, d).commanded = r.desired
                                        /\ PmdgDoor!ReconcileSlot(r, d).ticks = 0
<1>1. /\ 0 \in 0 .. DoorRetryTicks /\ 0 \in 0 .. DoorAttempts /\ r.ticks \in 0 .. DoorRetryTicks
      /\ r.attempts \in 0 .. DoorAttempts /\ 0 <= r.ticks + 1 /\ r.ticks <= r.ticks + 1
      /\ r.ticks < DoorRetryTicks => r.ticks + 1 \in 0 .. DoorRetryTicks
      /\ r.attempts < DoorAttempts => r.attempts + 1 \in 0 .. DoorAttempts
      /\ 0 <= 0 /\ r.ticks + 1 <= r.ticks + 1
  BY PmdgDoorConstants DEF DoorRequests
<1>2. \/ PmdgDoor!ReconcileSlot(r, d) = r /\ ~PmdgDoor!IsToggled(r, d)
      \/ PmdgDoor!ReconcileSlot(r, d) = PmdgDoor!Commanded(r)
      \/ PmdgDoor!ReconcileSlot(r, d) = [r EXCEPT !.attempts = 0] /\ ~PmdgDoor!IsToggled(r, d)
      \/ /\ PmdgDoor!ReconcileSlot(r, d) = [r EXCEPT !.ticks = 0, !.attempts = r.attempts + 1]
         /\ r.attempts < DoorAttempts /\ r.commanded = r.desired
      \/ /\ PmdgDoor!ReconcileSlot(r, d) = [r EXCEPT !.ticks = r.ticks + 1]
              /\ r.ticks < DoorRetryTicks
         /\ ~PmdgDoor!IsToggled(r, d)
      \/ PmdgDoor!ReconcileSlot(r, d) = [r EXCEPT !.ticks = r.ticks] /\ ~PmdgDoor!IsToggled(r, d)
  BY DEF PmdgDoor!ReconcileSlot, PmdgDoor!IsToggled, PmdgDoor!IsNew, PmdgDoor!RetryIsDue
<1> QED
  BY <1>1, <1>2 DEF DoorRequests, PmdgDoor!Commanded

\* A tick toggles doors that rest off their goal only.
LEMMA TickKeepsTheDoors ==
  ASSUME PmdgDoorInv, PmdgDoor!Tick
  PROVE  PmdgDoorInv' /\ ToggledIsNotThere
<1> DEFINE toggled == {s \in DoorSlots : PmdgDoor!IsToggled(recon.of[s], doors[s])}
           of == [s \in DoorSlots |-> PmdgDoor!ReconcileSlot(recon.of[s], doors[s])]
           disk == [desired |-> [s \in DoorSlots |-> recon.of[s].desired],
                    opened |-> recon.opened, wanted |-> world.wanted]
<1>1. /\ recon \in Reconcilers /\ doors \in [DoorSlots -> PmdgDoorStates] /\ world \in DoorWorlds
      /\ recon.of \in [DoorSlots -> DoorRequests]
           /\ recon.opened \in DoorSlots \cup {PmdgDoor!NoSlot}
      /\ world.wanted \in Words /\ world.faults \in Nat
  BY DEF PmdgDoorInv, PmdgDoorTypes, Reconcilers, DoorWorlds
<1>2. PICK lost \in SUBSET toggled :
        /\ doors' = [s \in DoorSlots |-> IF s \in toggled THEN PmdgDoor!Toggled(doors[s],
                                                                                s \in lost)
                                         ELSE PmdgDoor!Aged(doors[s])]
        /\ recon' = [recon EXCEPT !.of = of]
        /\ world' = [world EXCEPT !.toggled = toggled,
                       !.faults = IF lost = {} THEN world.faults ELSE world.faults + 1,
                       !.disk = disk]
  BY DEF PmdgDoor!Tick
<1>3. \A s \in DoorSlots : doors[s].phase = "asked" => s \notin toggled
  <2> SUFFICES ASSUME NEW s \in DoorSlots, doors[s].phase = "asked", s \in toggled PROVE FALSE
    OBVIOUS
  <2>1. recon.of[s] \in DoorRequests /\ doors[s] \in PmdgDoorStates
    BY <1>1
  <2>2. doors[s].age < DoorRetryTicks - 1 /\ recon.of[s].ticks <= doors[s].age
        /\ recon.of[s].commanded = recon.of[s].desired
    BY DEF PmdgDoor!Tick, PmdgDoor!Answers, PmdgDoorInv, AskedIsCommanded
  <2>3. recon.of[s].ticks + 1 >= DoorRetryTicks
    BY <2>2 DEF PmdgDoor!IsToggled, PmdgDoor!IsNew, PmdgDoor!RetryIsDue
  <2> QED
    BY <2>1, <2>2, <2>3, PmdgDoorConstants DEF DoorRequests, PmdgDoorStates
<1>4. \A s \in toggled : doors[s].phase = "rests" /\ doors[s].at # recon.of[s].desired
  <2> SUFFICES ASSUME NEW s \in toggled
               PROVE  doors[s].phase = "rests" /\ doors[s].at # recon.of[s].desired
    OBVIOUS
  <2>1. s \in DoorSlots /\ doors[s].phase # "moves" /\ doors[s].at # recon.of[s].desired
    BY DEF PmdgDoor!IsToggled, PmdgDoor!HasReading, PmdgDoor!IsReached
  <2>2. doors[s].phase \in {"rests", "asked", "moves"}
    BY <1>1, <2>1 DEF PmdgDoorStates
  <2> QED
    BY <1>3, <2>1, <2>2
<1>5. \A s \in DoorSlots :
        /\ of[s] \in DoorRequests /\ of[s].desired = recon.of[s].desired
        /\ recon.of[s].commanded = recon.of[s].desired => of[s].commanded = recon.of[s].desired
        /\ of[s].ticks <= recon.of[s].ticks + 1
        /\ s \in toggled => of[s].commanded = recon.of[s].desired /\ of[s].ticks = 0
  BY <1>1, ReconciledDoor
<1>6. of \in [DoorSlots -> DoorRequests]
  BY <1>5
<1>7. disk \in DoorDisks /\ toggled \in SUBSET DoorSlots
  BY <1>1 DEF DoorDisks, DoorRequests
<1>8. recon.opened # PmdgDoor!NoSlot => recon.opened \in DoorSlots
        /\ recon.of[recon.opened].desired = "open"
  BY <1>1 DEF PmdgDoorInv, OpenedIsDesired
<1>9. /\ disk.opened = recon.opened
      /\ recon.opened # PmdgDoor!NoSlot => disk.desired[recon.opened] = "open"
      /\ recon.opened # PmdgDoor!NoSlot => of[recon.opened].desired = "open"
  BY <1>5, <1>8
<1> HIDE DEF of, disk, toggled
<1>10. recon'.of = of /\ recon'.opened = recon.opened /\ recon' \in Reconcilers
  BY <1>1, <1>2, <1>6 DEF Reconcilers
<1>11. world' \in DoorWorlds /\ world'.disk = disk /\ world'.toggled = toggled
  <2>1. PICK n \in Nat :
          world' = [world EXCEPT !.toggled = toggled, !.faults = n, !.disk = disk]
    <3> DEFINE n == IF lost = {} THEN world.faults ELSE world.faults + 1
    <3>1. n \in Nat
      BY <1>1
    <3>2. world' = [world EXCEPT !.toggled = toggled, !.faults = n, !.disk = disk]
      BY <1>2
    <3> HIDE DEF n
    <3> QED
      BY <3>1, <3>2
  <2> QED
    BY <1>1, <1>7, <2>1 DEF DoorWorlds
<1>12. \A s \in DoorSlots :
        /\ doors'[s] \in PmdgDoorStates
        /\ doors'[s].phase = "asked" =>
             of[s].commanded = of[s].desired /\ of[s].ticks <= doors'[s].age
  <2> SUFFICES ASSUME NEW s \in DoorSlots
               PROVE  /\ doors'[s] \in PmdgDoorStates
                      /\ doors'[s].phase = "asked" =>
                           of[s].commanded = of[s].desired /\ of[s].ticks <= doors'[s].age
    OBVIOUS
  <2>1. doors[s] \in PmdgDoorStates /\ of[s] \in DoorRequests /\ recon.of[s] \in DoorRequests
    BY <1>1, <1>5
  <2>2. CASE s \in toggled
    <3>1. doors'[s] = PmdgDoor!Toggled(doors[s], s \in lost) /\ doors[s].phase = "rests"
      BY <1>2, <1>4, <2>2
    <3>2. CASE s \in lost
      BY <2>1, <3>1, <3>2 DEF PmdgDoor!Toggled
    <3>3. CASE s \notin lost
      <4>1. doors'[s] = [doors[s] EXCEPT !.phase = "asked", !.age = 0]
        BY <3>1, <3>3 DEF PmdgDoor!Toggled
      <4>2. doors'[s] \in PmdgDoorStates /\ doors'[s].age = 0
        <5> \A d \in PmdgDoorStates :
              /\ [d EXCEPT !.phase = "asked", !.age = 0] \in PmdgDoorStates
              /\ [d EXCEPT !.phase = "asked", !.age = 0].age = 0
          BY DEF PmdgDoorStates
        <5> QED
          BY <2>1, <4>1
      <4>3. of[s].commanded = of[s].desired /\ of[s].ticks = 0
        BY <1>5, <2>2
      <4> QED
        BY <4>2, <4>3
    <3> QED
      BY <3>2, <3>3
  <2>3. CASE s \notin toggled
    <3>1. doors'[s] = PmdgDoor!Aged(doors[s])
      BY <1>2, <2>3
    <3>2. CASE doors[s].phase = "asked"
      <4>1. doors'[s] \in PmdgDoorStates /\ doors'[s].age = doors[s].age + 1
        BY <2>1, <3>1, <3>2 DEF PmdgDoor!Aged, PmdgDoorStates
      <4>2. recon.of[s].commanded = recon.of[s].desired /\ recon.of[s].ticks <= doors[s].age
        BY <3>2 DEF PmdgDoorInv, AskedIsCommanded
      <4>3. of[s].ticks <= doors[s].age + 1
        BY <1>5, <2>1, <4>2 DEF DoorRequests, PmdgDoorStates
      <4> QED
        BY <1>5, <4>1, <4>2, <4>3
    <3>3. CASE doors[s].phase # "asked"
      BY <2>1, <3>1, <3>3 DEF PmdgDoor!Aged
    <3> QED
      BY <3>2, <3>3
  <2> QED
    BY <2>2, <2>3
<1>13. doors' \in [DoorSlots -> PmdgDoorStates]
  BY <1>2, <1>12
<1>14. PmdgDoorTypes'
  BY <1>10, <1>11, <1>13 DEF PmdgDoorTypes
<1>15. OpenedIsDesired'
  BY <1>9, <1>10, <1>11 DEF OpenedIsDesired
<1>16. AskedIsCommanded'
  BY <1>10, <1>12 DEF AskedIsCommanded
<1>17. ToggledIsNotThere
  BY <1>4, <1>11 DEF ToggledIsNotThere
<1> QED
  BY <1>14, <1>15, <1>16, <1>17 DEF PmdgDoorInv

\* The other steps toggle nothing, and no answer comes after its time.
LEMMA OthersKeepTheDoors ==
  ASSUME PmdgDoorInv,
         PmdgDoor!RestoreMemory \/ PmdgDoor!Follow \/ PmdgDoor!JetwayMoves
           \/ \E s \in DoorSlots : PmdgDoor!DoorStarts(s) \/ PmdgDoor!DoorArrives(s)
                \/ PmdgDoor!PilotMoves(s)
  PROVE  PmdgDoorInv' /\ world'.toggled = {}
<1>1. /\ recon \in Reconcilers /\ doors \in [DoorSlots -> PmdgDoorStates] /\ world \in DoorWorlds
      /\ recon.of \in [DoorSlots -> DoorRequests]
           /\ recon.opened \in DoorSlots \cup {PmdgDoor!NoSlot}
      /\ world.wanted \in Words /\ world.faults \in Nat /\ world.slot \in DoorSlots
      /\ world.disk \in DoorDisks
  BY DEF PmdgDoorInv, PmdgDoorTypes, Reconcilers, DoorWorlds
<1>2. PmdgDoor!AsWord(TRUE) = "open" /\ PmdgDoor!AsWord(FALSE) = "closed"
        /\ \A b \in BOOLEAN : PmdgDoor!AsWord(b) \in Words
  BY DEF PmdgDoor!AsWord, Words
<1>3. ASSUME PmdgDoor!RestoreMemory
      PROVE  PmdgDoorInv' /\ world'.toggled = {}
  <2> DEFINE of == [s \in DoorSlots |-> PmdgDoor!RestoredSlot(world.disk.desired[s])]
  <2>1. /\ world.disk.desired \in [DoorSlots -> Desires]
             /\ world.disk.opened \in DoorSlots \cup {PmdgDoor!NoSlot}
        /\ world.disk.wanted \in Words /\ world.faults + 1 \in Nat
    BY <1>1 DEF DoorDisks
  <2>2. \A s \in DoorSlots : /\ of[s] \in DoorRequests /\ of[s].desired = world.disk.desired[s]
                             /\ of[s].commanded = of[s].desired /\ of[s].ticks = 0
    <3>1. PmdgDoor!Unset \in DoorRequests /\ PmdgDoor!Unset.ticks = 0
      BY PmdgDoorConstants DEF PmdgDoor!Unset, DoorRequests, Desires
    <3>2. ASSUME NEW d \in Desires
          PROVE  /\ PmdgDoor!RestoredSlot(d) \in DoorRequests
                      /\ PmdgDoor!RestoredSlot(d).desired = d
                 /\ PmdgDoor!RestoredSlot(d).commanded = d /\ PmdgDoor!RestoredSlot(d).ticks = 0
      BY <3>1 DEF DoorRequests, PmdgDoor!RestoredSlot
    <3> QED
      BY <2>1, <3>2
  <2>3. recon' = [of |-> of, opened |-> world.disk.opened] /\ doors' = doors
        /\ world' = [world EXCEPT !.faults = world.faults + 1, !.toggled = {},
                                  !.wanted = world.disk.wanted]
    BY <1>3 DEF PmdgDoor!RestoreMemory
  <2>4. of \in [DoorSlots -> DoorRequests]
    BY <2>2
  <2> HIDE DEF of
  <2>5. recon' \in Reconcilers /\ recon'.of = of /\ recon'.opened = world.disk.opened
    BY <2>1, <2>3, <2>4 DEF Reconcilers
  <2>6. world' \in DoorWorlds /\ world'.toggled = {} /\ world'.disk = world.disk
    BY <1>1, <2>1, <2>3 DEF DoorWorlds
  <2>7. PmdgDoorTypes'
    BY <1>1, <2>3, <2>5, <2>6 DEF PmdgDoorTypes
  <2>8. OpenedIsDesired'
    BY <2>1, <2>2, <2>5, <2>6 DEF PmdgDoorInv, OpenedIsDesired
  <2>9. \A s \in DoorSlots : 0 <= doors[s].age
    <3>1. \A s \in DoorSlots : doors[s].age \in Nat
      BY <1>1 DEF PmdgDoorStates
    <3>2. \A n \in Nat : 0 <= n
      OBVIOUS
    <3> QED
      BY <3>1, <3>2
  <2>10. AskedIsCommanded'
    BY <2>2, <2>3, <2>5, <2>9 DEF AskedIsCommanded
  <2> QED
    BY <2>6, <2>7, <2>8, <2>10 DEF PmdgDoorInv
<1>4. ASSUME PmdgDoor!Follow
      PROVE  PmdgDoorInv' /\ world'.toggled = {}
  <2>1. PICK open \in BOOLEAN : PmdgDoor!SetDesired(open)
    BY <1>4 DEF PmdgDoor!Follow
  <2> DEFINE word == PmdgDoor!AsWord(open)
             which == PmdgDoor!SlotOf(open)
             opened == IF open THEN which ELSE PmdgDoor!NoSlot
             of == [recon.of EXCEPT ![which].desired = word]
  <2>2. which \in DoorSlots
    BY <1>1 DEF PmdgDoor!SlotOf, PmdgDoor!SlotFor
  <2>3. recon' = [recon EXCEPT !.of = of, !.opened = opened] /\ doors' = doors
        /\ world' = [world EXCEPT !.wanted = word, !.toggled = {}]
    <3>1. recon' = [recon EXCEPT !.of[which].desired = word, !.opened = opened]
      BY <2>1 DEF PmdgDoor!SetDesired
    <3> QED
      BY <1>1, <2>1, <3>1 DEF PmdgDoor!SetDesired, Reconcilers
  <2>4. word \in Words /\ (open => word = "open") /\ word \in Desires
    BY <1>2 DEF Desires
  <2>5. opened \in DoorSlots \cup {PmdgDoor!NoSlot}
          /\ (opened # PmdgDoor!NoSlot => open /\ opened = which)
    BY <2>2
  <2> HIDE DEF which, word, opened
  <2>6. of \in [DoorSlots -> DoorRequests] /\ of[which].desired = word
    BY <1>1, <2>2, <2>4 DEF DoorRequests
  <2> HIDE DEF of
  <2>7. recon' \in Reconcilers /\ recon'.of = of /\ recon'.opened = opened
    BY <1>1, <2>3, <2>5, <2>6 DEF Reconcilers
  <2>8. world' \in DoorWorlds /\ world'.toggled = {} /\ world'.disk = world.disk
    BY <1>1, <2>3, <2>4 DEF DoorWorlds
  <2>9. PmdgDoorTypes'
    BY <1>1, <2>3, <2>7, <2>8 DEF PmdgDoorTypes
  <2>10. OpenedIsDesired'
    BY <2>4, <2>5, <2>6, <2>7, <2>8 DEF PmdgDoorInv, OpenedIsDesired
  <2>11. AskedIsCommanded'
    BY <1>4, <2>3 DEF PmdgDoor!Follow, AskedIsCommanded
  <2> QED
    BY <2>8, <2>9, <2>10, <2>11 DEF PmdgDoorInv
<1>5. ASSUME PmdgDoor!JetwayMoves
      PROVE  PmdgDoorInv' /\ world'.toggled = {}
  <2>1. PICK s \in DoorSlots : world' = [world EXCEPT !.slot = s, !.toggled = {}]
    BY <1>5 DEF PmdgDoor!JetwayMoves
  <2>2. world' \in DoorWorlds /\ world'.toggled = {} /\ world'.disk = world.disk
    BY <1>1, <2>1 DEF DoorWorlds
  <2>3. recon' = recon /\ doors' = doors
    BY <1>5 DEF PmdgDoor!JetwayMoves
  <2> QED
    BY <2>2, <2>3
    DEF PmdgDoorInv, PmdgDoorTypes, OpenedIsDesired, AskedIsCommanded
<1>6. ASSUME NEW s \in DoorSlots, PmdgDoor!DoorStarts(s) \/ PmdgDoor!DoorArrives(s)
               \/ PmdgDoor!PilotMoves(s)
      PROVE  PmdgDoorInv' /\ world'.toggled = {}
  <2>1. doors[s] \in PmdgDoorStates
    BY <1>1
  <2>2. PICK d \in PmdgDoorStates : doors' = [doors EXCEPT ![s] = d] /\ d.phase # "asked"
    <3>1. \A b \in BOOLEAN : PmdgDoor!AsWord(b) \in Words
      BY <1>2
    <3>2. CASE PmdgDoor!DoorStarts(s)
      <4> DEFINE d == [at |-> PmdgDoor!AsWord(doors[s].at = "closed"), phase |-> "moves", age |-> 0]
      <4>1. d \in PmdgDoorStates
        BY <3>1 DEF PmdgDoorStates
      <4> QED
        BY <3>2, <4>1 DEF PmdgDoor!DoorStarts
    <3>3. CASE PmdgDoor!DoorArrives(s)
      <4> DEFINE d == [doors[s] EXCEPT !.phase = "rests"]
      <4>1. d \in PmdgDoorStates /\ d.phase = "rests"
        BY <2>1 DEF PmdgDoorStates
      <4>2. doors' = [doors EXCEPT ![s] = d]
        BY <1>1, <3>3 DEF PmdgDoor!DoorArrives
      <4> QED
        BY <4>1, <4>2
    <3>4. CASE PmdgDoor!PilotMoves(s)
      <4> DEFINE w == PmdgDoor!AsWord(doors[s].at = "closed")
                 d == [doors[s] EXCEPT !.at = w, !.phase = "moves"]
      <4>1. w \in Words
        BY <3>1
      <4>2. doors' = [doors EXCEPT ![s].at = w, ![s].phase = "moves"]
        BY <3>4 DEF PmdgDoor!PilotMoves
      <4> HIDE DEF w
      <4>3. d \in PmdgDoorStates /\ d.phase = "moves"
        BY <2>1, <4>1 DEF PmdgDoorStates
      <4>4. doors' = [doors EXCEPT ![s] = d]
        BY <1>1, <4>2
      <4> QED
        BY <4>3, <4>4
    <3> QED
      BY <1>6, <3>2, <3>3, <3>4
  <2>3. /\ recon' = recon
        /\ \/ world' = [world EXCEPT !.toggled = {}]
           \/ world' = [world EXCEPT !.faults = world.faults + 1, !.toggled = {}, !.pilot = TRUE]
    BY <1>6 DEF PmdgDoor!DoorStarts, PmdgDoor!DoorArrives, PmdgDoor!PilotMoves, PmdgDoor!Quiet
  <2>4. world' \in DoorWorlds /\ world'.toggled = {} /\ world'.disk = world.disk
    <3>1. PICK n \in Nat, b \in BOOLEAN :
            world' = [world EXCEPT !.faults = n, !.toggled = {}, !.pilot = b]
      <4>1. [world EXCEPT !.toggled = {}] =
              [world EXCEPT !.faults = world.faults, !.toggled = {}, !.pilot = world.pilot]
        BY <1>1 DEF DoorWorlds
      <4>2. world.faults + 1 \in Nat /\ world.pilot \in BOOLEAN
        BY <1>1 DEF DoorWorlds
      <4> QED
        BY <1>1, <2>3, <4>1, <4>2
    <3> QED
      BY <1>1, <3>1 DEF DoorWorlds
  <2>5. doors' \in [DoorSlots -> PmdgDoorStates]
    BY <1>1, <2>2
  <2>6. \A other \in DoorSlots : doors'[other].phase = "asked" => doors'[other] = doors[other]
    BY <1>1, <2>2
  <2> QED
    BY <1>1, <2>3, <2>4, <2>5, <2>6
    DEF PmdgDoorInv, PmdgDoorTypes, OpenedIsDesired, AskedIsCommanded
<1> QED
  BY <1>3, <1>4, <1>5, <1>6

(***************************************************************************)
(* No toggle of a PMDG door is sent to a door on its way, or to one that   *)
(* is where it is wanted, for any times and counts of attempts, with       *)
(* toggles that are lost, relaunches and the pilot's own hand in between   *)
(* (PmdgDoorReconciler).                                                   *)
(***************************************************************************)
THEOREM PmdgDoorsHold == PmdgDoor!Spec => []PmdgDoor!TypeOK /\ PmdgDoor!NoToggleUndoesItself
<1>1. PmdgDoor!Init => PmdgDoorInv
  <2> SUFFICES ASSUME PmdgDoor!Init PROVE PmdgDoorInv
    OBVIOUS
  <2>1. PmdgDoor!Unset \in DoorRequests /\ PmdgDoor!Nothing \in Desires /\ {} \in SUBSET DoorSlots
          /\ "closed" \in Words
    BY PmdgDoorConstants DEF PmdgDoor!Unset, DoorRequests, Desires, Words
  <2>2. recon \in Reconcilers /\ recon.opened = PmdgDoor!NoSlot
    BY <2>1 DEF PmdgDoor!Init, Reconcilers
  <2>3. doors \in [DoorSlots -> PmdgDoorStates] /\ \A s \in DoorSlots : doors[s].phase = "rests"
    BY <2>1 DEF PmdgDoor!Init, PmdgDoorStates
  <2>4. world \in DoorWorlds /\ world.disk.opened = PmdgDoor!NoSlot
    <3> DEFINE disk == [desired |-> [s \in DoorSlots |-> PmdgDoor!Nothing],
                        opened |-> PmdgDoor!NoSlot,
                        wanted |-> "closed"]
    <3>1. disk \in DoorDisks /\ disk.opened = PmdgDoor!NoSlot
      BY <2>1 DEF DoorDisks
    <3>2. world \in [slot : DoorSlots, wanted : {"closed"}, toggled : {{}}, faults : {0},
                     pilot : {FALSE}, disk : {disk}]
      BY DEF PmdgDoor!Init
    <3> HIDE DEF disk
    <3>3. PICK which \in DoorSlots :
            world = [slot |-> which, wanted |-> "closed", toggled |-> {}, faults |-> 0,
                     pilot |-> FALSE, disk |-> disk]
      BY <3>2
    <3> QED
      BY <2>1, <3>1, <3>3 DEF DoorWorlds
  <2> QED
    BY <2>2, <2>3, <2>4 DEF PmdgDoorInv, PmdgDoorTypes, OpenedIsDesired, AskedIsCommanded
<1>2. PmdgDoorInv /\ [PmdgDoor!Next]_(PmdgDoor!pmdgVars) => PmdgDoorInv'
  BY TickKeepsTheDoors, OthersKeepTheDoors
  DEF PmdgDoor!Next, PmdgDoor!pmdgVars, PmdgDoorInv, PmdgDoorTypes, OpenedIsDesired,
      AskedIsCommanded
<1>3. PmdgDoorInv /\ [PmdgDoor!Next]_(PmdgDoor!pmdgVars) => [ToggledIsNotThere]_(PmdgDoor!pmdgVars)
  BY TickKeepsTheDoors, OthersKeepTheDoors DEF PmdgDoor!Next, ToggledIsNotThere
<1>4. PmdgDoorInv => PmdgDoor!TypeOK
  BY DEF PmdgDoorInv, PmdgDoorTypes, OpenedIsDesired, PmdgDoor!TypeOK, Reconcilers, DoorRequests
<1> QED
  BY <1>1, <1>2, <1>3, <1>4, PTL DEF PmdgDoor!Spec, PmdgDoor!NoToggleUndoesItself, ToggledIsNotThere

-----------------------------------------------------------------------------
(***************************************************************************)
(* The ground connections of the PMDG.                                     *)
(* A press that is on its way is waited for, and what is pressed for was   *)
(* asked for last: so no press comes at a connection that moves, or is as  *)
(* it is wanted.                                                           *)
(***************************************************************************)
\* What the constants are taken to be here.
LEMMA PmdgGroundConstants ==
  GroundRetryTicks \in Nat \ {0} /\ GroundAttempts \in Nat /\ MaxFaults \in Nat
BY HostConstants

GroundWishes == {"on", "off", PmdgGround!NoWish}
GroundRequests == [wish : GroundWishes, ticks : 0 .. GroundRetryTicks,
                   attempts : 0 .. GroundAttempts,
                   awaits : BOOLEAN]
GroundPlanes == [kind : {"chocks", "power", "entry"}, on : BOOLEAN,
                 phase : {"rests", "pressed", "moves"}, age : 0 .. GroundRetryTicks,
                 known : BOOLEAN]
GroundMemories == [asked : GroundWishes, pressed : BOOLEAN, pilot : BOOLEAN, faults : Nat]

GroundTypes == conn \in GroundRequests /\ plane \in GroundPlanes /\ saved \in GroundMemories

WishIsAsked ==
  /\ conn.awaits => conn.attempts = 0 /\ conn.wish # PmdgGround!NoWish
  /\ conn.wish # PmdgGround!NoWish => conn.wish = saved.asked

PressIsOnItsWay ==
  plane.phase # "rests" => conn.wish = PmdgGround!NoWish \/ conn.ticks <= plane.age

GroundInv == GroundTypes /\ WishIsAsked /\ PressIsOnItsWay

PressIsNeeded ==
  saved'.pressed =>
    /\ plane.phase = "rests" /\ conn.wish # PmdgGround!AsWish(plane.on)
    /\ plane.known \/ plane.kind = "power"

\* What a tick makes of the request: a press starts its count over.
LEMMA ReconciledConnection ==
  ASSUME GroundInv
  PROVE  /\ PmdgGround!Reconciled(conn) \in GroundRequests
         /\ PmdgGround!Reconciled(conn).wish \in {conn.wish, PmdgGround!NoWish}
         /\ PmdgGround!Reconciled(conn).awaits =>
              PmdgGround!Reconciled(conn).attempts = 0
                /\ PmdgGround!Reconciled(conn).wish # PmdgGround!NoWish
         /\ PmdgGround!Reconciled(conn).ticks <= conn.ticks + 1
         /\ PmdgGround!IsPressed(conn) => PmdgGround!Reconciled(conn).ticks = 0
<1>1. conn \in GroundRequests /\ (conn.awaits => conn.attempts = 0 /\ conn.wish # PmdgGround!NoWish)
  BY DEF GroundInv, GroundTypes, WishIsAsked
<1>2. /\ conn.ticks \in 0 .. GroundRetryTicks /\ conn.attempts \in 0 .. GroundAttempts
      /\ 0 \in 0 .. GroundRetryTicks /\ 0 \in 0 .. GroundAttempts /\ 0 <= conn.ticks + 1
      /\ conn.ticks <= conn.ticks + 1 /\ conn.ticks + 1 <= conn.ticks + 1
      /\ conn.ticks < GroundRetryTicks => conn.ticks + 1 \in 0 .. GroundRetryTicks
      /\ conn.attempts < GroundAttempts => conn.attempts + 1 \in 0 .. GroundAttempts
  BY <1>1, PmdgGroundConstants DEF GroundRequests
<1>3. \/ PmdgGround!Reconciled(conn) = conn /\ ~PmdgGround!IsPressed(conn)
      \/ /\ PmdgGround!Reconciled(conn) = [conn EXCEPT !.awaits = FALSE,
                                           !.wish = PmdgGround!NoWish, !.attempts = 0]
         /\ ~PmdgGround!IsPressed(conn)
      \/ PmdgGround!Reconciled(conn) = [conn EXCEPT !.ticks = 0] /\ ~PmdgGround!IsPressed(conn)
      \/ /\ PmdgGround!Reconciled(conn) =
              [conn EXCEPT !.ticks = 0, !.attempts = conn.attempts + 1, !.awaits = FALSE]
         /\ conn.attempts < GroundAttempts
      \/ /\ PmdgGround!Reconciled(conn) = [conn EXCEPT !.ticks = conn.ticks + 1, !.awaits = FALSE]
         /\ conn.ticks < GroundRetryTicks /\ ~PmdgGround!IsPressed(conn)
      \/ /\ PmdgGround!Reconciled(conn) = [conn EXCEPT !.ticks = conn.ticks, !.awaits = FALSE]
         /\ ~PmdgGround!IsPressed(conn)
  <2>1. PmdgGround!IsReached([conn EXCEPT !.awaits = FALSE]) = PmdgGround!IsReached(conn)
    BY <1>1 DEF PmdgGround!IsReached, GroundRequests
  <2>2. PmdgGround!Reached([conn EXCEPT !.awaits = FALSE]) =
          [conn EXCEPT !.awaits = FALSE, !.wish = PmdgGround!NoWish, !.attempts = 0]
    BY <1>1 DEF PmdgGround!Reached, GroundRequests
  <2> QED
    BY <2>1, <2>2 DEF PmdgGround!Reconciled, PmdgGround!IsPressed, PmdgGround!PressIsDue
<1> QED
  BY <1>1, <1>2, <1>3 DEF GroundRequests, GroundWishes

\* A tick presses for a connection that rests off its wish only.
LEMMA TickKeepsTheConnection ==
  ASSUME GroundInv, NEW lost \in BOOLEAN, PmdgGround!Tick(lost)
  PROVE  GroundInv' /\ PressIsNeeded
<1> DEFINE pressed == PmdgGround!IsPressed(conn)
           faults == IF lost THEN saved.faults + 1 ELSE saved.faults
<1>1. /\ conn \in GroundRequests /\ plane \in GroundPlanes /\ saved \in GroundMemories
      /\ plane.age \in 0 .. GroundRetryTicks /\ conn.ticks \in 0 .. GroundRetryTicks
      /\ saved.faults \in Nat
  BY DEF GroundInv, GroundTypes, GroundRequests, GroundPlanes, GroundMemories
<1>2. pressed \in BOOLEAN /\ faults \in Nat
  BY <1>1 DEF PmdgGround!IsPressed
<1>3. /\ conn' = PmdgGround!Reconciled(conn)
      /\ plane' = IF pressed /\ ~lost THEN PmdgGround!Pressed(plane) ELSE PmdgGround!Aged(plane)
      /\ saved' = [saved EXCEPT !.pressed = pressed, !.faults = faults]
  BY DEF PmdgGround!Tick
<1>4. pressed => plane.phase = "rests" /\ conn.wish # PmdgGround!AsWish(plane.on)
                 /\ (plane.known \/ plane.kind = "power")
  <2> SUFFICES ASSUME pressed
               PROVE  plane.phase = "rests" /\ conn.wish # PmdgGround!AsWish(plane.on)
                      /\ (plane.known \/ plane.kind = "power")
    OBVIOUS
  <2>1. /\ conn.wish # PmdgGround!NoWish /\ conn.wish # PmdgGround!AsWish(plane.on)
             /\ ~PmdgGround!IsMoving
        /\ conn.ticks + 1 >= GroundRetryTicks /\ (plane.known \/ plane.kind = "power")
    BY DEF PmdgGround!IsPressed, PmdgGround!CanBeJudged, PmdgGround!IsReached, PmdgGround!Reading,
       PmdgGround!PressIsDue
  <2>2. plane.phase # "rests" => conn.ticks <= plane.age
    BY <2>1 DEF GroundInv, PressIsOnItsWay
  <2>3. plane.age < GroundRetryTicks - 1 \/ plane.phase = "rests"
    BY <2>1 DEF PmdgGround!Tick, PmdgGround!InTime, PmdgGround!IsMoving
  <2> QED
    BY <1>1, <2>1, <2>2, <2>3, PmdgGroundConstants
<1> HIDE DEF pressed, faults
<1>5. saved' \in GroundMemories /\ saved'.pressed = pressed /\ saved'.asked = saved.asked
  BY <1>1, <1>2, <1>3 DEF GroundMemories
<1>6. /\ conn' \in GroundRequests /\ conn'.wish \in {conn.wish, PmdgGround!NoWish}
      /\ conn'.awaits => conn'.attempts = 0 /\ conn'.wish # PmdgGround!NoWish
      /\ conn'.ticks <= conn.ticks + 1 /\ (pressed => conn'.ticks = 0)
      /\ conn'.ticks \in 0 .. GroundRetryTicks
  <2>1. conn' \in GroundRequests /\ (pressed => conn'.ticks = 0)
    BY <1>3, ReconciledConnection DEF pressed
  <2> QED
    BY <1>3, <2>1, ReconciledConnection DEF GroundRequests
<1>7. /\ plane' \in GroundPlanes
      /\ plane'.phase # "rests" =>
           \/ pressed /\ plane'.age = 0
           \/ plane.phase # "rests" /\ ~pressed /\ plane'.age \in {plane.age + 1, GroundRetryTicks}
  <2>1. CASE pressed /\ ~lost
    <3>1. plane' = [plane EXCEPT !.phase = "pressed", !.age = 0] /\ 0 \in 0 .. GroundRetryTicks
      BY <1>3, <2>1, PmdgGroundConstants DEF PmdgGround!Pressed
    <3> QED
      BY <1>1, <2>1, <3>1 DEF GroundPlanes
  <2>2. CASE ~(pressed /\ ~lost)
    <3>1. plane' = PmdgGround!Aged(plane)
      BY <1>3, <2>2
    <3>2. CASE plane.phase = "rests"
      BY <1>1, <3>1, <3>2 DEF PmdgGround!Aged
    <3>3. CASE plane.phase # "rests"
      <4> DEFINE age == IF plane.age < GroundRetryTicks THEN plane.age + 1 ELSE plane.age
      <4>1. age \in 0 .. GroundRetryTicks /\ age \in {plane.age + 1, GroundRetryTicks}
        BY <1>1, PmdgGroundConstants
      <4>2. plane' = [plane EXCEPT !.age = age]
        BY <3>1, <3>3 DEF PmdgGround!Aged
      <4> HIDE DEF age
      <4> QED
        BY <1>1, <1>4, <3>3, <4>1, <4>2 DEF GroundPlanes
    <3> QED
      BY <3>2, <3>3
  <2> QED
    BY <2>1, <2>2
<1>8. WishIsAsked'
  BY <1>5, <1>6 DEF GroundInv, WishIsAsked
<1>9. PressIsOnItsWay'
  <2> SUFFICES ASSUME plane'.phase # "rests", conn'.wish # PmdgGround!NoWish
               PROVE  conn'.ticks <= plane'.age
    BY DEF PressIsOnItsWay
  <2>1. CASE pressed /\ plane'.age = 0
    BY <1>6, <2>1
  <2>2. CASE plane.phase # "rests" /\ plane'.age \in {plane.age + 1, GroundRetryTicks}
    <3>1. conn.ticks <= plane.age
      BY <1>6, <2>2 DEF GroundInv, PressIsOnItsWay
    <3> QED
      BY <1>1, <1>6, <2>2, <3>1, PmdgGroundConstants
  <2> QED
    BY <1>7, <2>1, <2>2
<1> QED
  BY <1>4, <1>5, <1>6, <1>7, <1>8, <1>9 DEF GroundInv, GroundTypes, PressIsNeeded

\* The other steps press nothing, and a press shows in its time.
LEMMA OthersKeepTheConnection ==
  ASSUME GroundInv,
         PmdgGround!Set \/ PmdgGround!RestoreMemory \/ PmdgGround!Moves \/ PmdgGround!Arrives
           \/ PmdgGround!PilotPresses \/ PmdgGround!ReadingArrives
  PROVE  GroundInv' /\ ~saved'.pressed
<1>1. /\ conn \in GroundRequests /\ plane \in GroundPlanes /\ saved \in GroundMemories
      /\ saved.faults + 1 \in Nat /\ GroundRetryTicks \in 0 .. GroundRetryTicks
           /\ 0 \in 0 .. GroundRetryTicks
      /\ 0 \in 0 .. GroundAttempts /\ conn.wish \in GroundWishes
  BY PmdgGroundConstants DEF GroundInv, GroundTypes, GroundMemories, GroundRequests
<1>2. ASSUME NEW c \in GroundRequests, NEW wish \in GroundWishes \ {PmdgGround!NoWish},
             c.wish # wish
      PROVE  /\ PmdgGround!Wished(c, wish) \in GroundRequests
             /\ PmdgGround!Wished(c, wish).wish = wish /\ PmdgGround!Wished(c, wish).attempts = 0
  BY <1>1, <1>2 DEF PmdgGround!Wished, GroundRequests
<1>3. CASE PmdgGround!Set
  <2>1. PICK wish \in {"on", "off"} :
          /\ conn' = PmdgGround!Wished(conn, wish) /\ plane.phase = "rests" /\ plane' = plane
          /\ saved' = [saved EXCEPT !.asked = wish, !.pressed = FALSE]
    BY <1>3 DEF PmdgGround!Set
  <2>2. wish \in GroundWishes \ {PmdgGround!NoWish}
    BY DEF GroundWishes, PmdgGround!NoWish
  <2>3. saved' \in GroundMemories /\ saved'.asked = wish /\ ~saved'.pressed
    BY <1>1, <2>1, <2>2 DEF GroundMemories
  <2>4. /\ conn' \in GroundRequests /\ conn'.wish = wish
        /\ conn'.awaits => conn'.attempts = 0
    BY <1>1, <1>2, <2>1, <2>2 DEF PmdgGround!Wished, GroundInv, WishIsAsked
  <2> QED
    BY <1>1, <2>1, <2>2, <2>3, <2>4 DEF GroundInv, GroundTypes, WishIsAsked, PressIsOnItsWay
<1>4. CASE PmdgGround!RestoreMemory
  <2>1. PmdgGround!Idle \in GroundRequests /\ PmdgGround!Idle.wish = PmdgGround!NoWish
          /\ ~PmdgGround!Idle.awaits
    BY <1>1 DEF PmdgGround!Idle, GroundRequests, GroundWishes
  <2>2. /\ conn' = PmdgGround!RestoredWish(conn) /\ plane' = [plane EXCEPT !.known = FALSE]
        /\ saved' = [saved EXCEPT !.faults = saved.faults + 1, !.pressed = FALSE]
        /\ plane.phase = "rests"
    BY <1>4 DEF PmdgGround!RestoreMemory
  <2>3. /\ conn' \in GroundRequests /\ conn'.wish = conn.wish
        /\ conn'.awaits => conn'.attempts = 0 /\ conn'.wish # PmdgGround!NoWish
    <3>1. CASE conn.wish = PmdgGround!NoWish
      BY <2>1, <2>2, <3>1 DEF PmdgGround!RestoredWish
    <3>2. CASE conn.wish # PmdgGround!NoWish
      BY <1>1, <1>2, <2>1, <2>2, <3>2 DEF PmdgGround!RestoredWish
    <3> QED
      BY <3>1, <3>2
  <2>4. plane' \in GroundPlanes /\ plane'.phase = "rests"
    BY <1>1, <2>2 DEF GroundPlanes
  <2>5. saved' \in GroundMemories /\ saved'.asked = saved.asked /\ ~saved'.pressed
    BY <1>1, <2>2 DEF GroundMemories
  <2> QED
    BY <2>3, <2>4, <2>5 DEF GroundInv, GroundTypes, WishIsAsked, PressIsOnItsWay
<1>5. CASE PmdgGround!Moves \/ PmdgGround!Arrives \/ PmdgGround!ReadingArrives
  <2>1. conn' = conn /\ saved' = [saved EXCEPT !.pressed = FALSE]
    BY <1>5 DEF PmdgGround!Moves, PmdgGround!Arrives, PmdgGround!ReadingArrives,
       PmdgGround!Unpressed
  <2>2. saved' \in GroundMemories /\ saved'.asked = saved.asked /\ ~saved'.pressed
    BY <1>1, <2>1 DEF GroundMemories
  <2>3. /\ plane' \in GroundPlanes
        /\ plane'.phase # "rests" => plane.phase # "rests" /\ plane'.age = plane.age
    <3>1. \/ plane' = [plane EXCEPT !.phase = "moves"] /\ plane.phase = "pressed"
          \/ plane' = [plane EXCEPT !.phase = "rests", !.on = ~plane.on, !.age = 0]
          \/ plane' = [plane EXCEPT !.known = TRUE]
      BY <1>5 DEF PmdgGround!Moves, PmdgGround!Arrives, PmdgGround!ReadingArrives
    <3> QED
      BY <1>1, <3>1 DEF GroundPlanes
  <2> QED
    BY <1>1, <2>1, <2>2, <2>3 DEF GroundInv, GroundTypes, WishIsAsked, PressIsOnItsWay
<1>6. CASE PmdgGround!PilotPresses
  <2>1. conn' = conn /\ conn.wish = PmdgGround!NoWish
        /\ plane' = [plane EXCEPT !.phase = "moves", !.age = 0]
        /\ saved' = [saved EXCEPT !.faults = saved.faults + 1, !.pressed = FALSE, !.pilot = TRUE]
    BY <1>6 DEF PmdgGround!PilotPresses
  <2>2. saved' \in GroundMemories /\ saved'.asked = saved.asked /\ ~saved'.pressed
    BY <1>1, <2>1 DEF GroundMemories
  <2>3. plane' \in GroundPlanes
    BY <1>1, <2>1 DEF GroundPlanes
  <2> QED
    BY <1>1, <2>1, <2>2, <2>3 DEF GroundInv, GroundTypes, WishIsAsked, PressIsOnItsWay
<1> QED
  BY <1>3, <1>4, <1>5, <1>6

(***************************************************************************)
(* No press at a ground connection of the PMDG undoes the one before it:   *)
(* it comes at a connection that rests, is known, and is not as it is      *)
(* wanted (PmdgGroundConnReconciler).                                      *)
(***************************************************************************)
THEOREM PmdgGroundHolds == PmdgGround!Spec => []PmdgGround!TypeOK /\ PmdgGround!NoPressUndoesItself
<1>1. PmdgGround!Init => GroundInv
  <2> SUFFICES ASSUME PmdgGround!Init PROVE GroundInv
    OBVIOUS
  <2>1. 0 \in 0 .. GroundRetryTicks /\ 0 \in 0 .. GroundAttempts
    BY PmdgGroundConstants
  <2>2. conn \in GroundRequests /\ conn.wish = PmdgGround!NoWish /\ ~conn.awaits
    BY <2>1 DEF PmdgGround!Init, PmdgGround!Idle, GroundRequests, GroundWishes
  <2>3. plane \in GroundPlanes /\ plane.phase = "rests"
    BY <2>1 DEF PmdgGround!Init, GroundPlanes
  <2>4. saved \in GroundMemories
    BY DEF PmdgGround!Init, GroundMemories, GroundWishes
  <2> QED
    BY <2>2, <2>3, <2>4 DEF GroundInv, GroundTypes, WishIsAsked, PressIsOnItsWay
<1>2. GroundInv /\ [PmdgGround!Next]_(PmdgGround!groundVars) => GroundInv'
  BY TickKeepsTheConnection, OthersKeepTheConnection
  DEF PmdgGround!Next, PmdgGround!groundVars, GroundInv, GroundTypes, WishIsAsked, PressIsOnItsWay
<1>3. GroundInv /\ [PmdgGround!Next]_(PmdgGround!groundVars) =>
      [PressIsNeeded]_(PmdgGround!groundVars)
  BY TickKeepsTheConnection, OthersKeepTheConnection DEF PmdgGround!Next, PressIsNeeded
<1>4. GroundInv => PmdgGround!TypeOK
  BY DEF GroundInv, GroundTypes, WishIsAsked, PmdgGround!TypeOK, GroundRequests
<1> QED
  BY <1>1, <1>2, <1>3, <1>4, PTL DEF PmdgGround!Spec, PmdgGround!NoPressUndoesItself, PressIsNeeded

-----------------------------------------------------------------------------
(***************************************************************************)
(* The cargo holds of the FSLabs A321neo.                                  *)
(* A hold that is not open any more and still reads as open was toggled no *)
(* longer ago than the readings have failed: another toggle waits longer   *)
(* than the client goes on believing in one.                               *)
(***************************************************************************)
\* What the constants are taken to be here.
LEMMA FslabsHoldConstants ==
  /\ ToggleShows \in Nat \ {0, 1} /\ MaxToggles \in Nat /\ HoldTravel \in Nat \ {0}
  /\ MaxFaults \in Nat
BY HostConstants

HoldFollows == [closeIsDue : BOOLEAN, served : BOOLEAN, toggles : 0 .. MaxToggles,
                since : 0 .. ToggleShows]
GroundClients == [polling : BOOLEAN, reading : Holds!Readings \cup {Holds!None},
                  available : BOOLEAN,
                  failures : 0 .. 2]
CargoHolds == [at : Holds!Readings, closingIn : 0 .. HoldTravel,
               loader : {"away", "serving", "leaving"},
               seen : BOOLEAN, reopened : BOOLEAN, pilots : BOOLEAN, faults : Nat]

HoldTypes ==
  /\ follow \in HoldFollows /\ ground \in GroundClients /\ hold \in CargoHolds
  /\ (hold.closingIn > 0) = (hold.at = "closing")
  /\ ~(follow.closeIsDue /\ follow.served)
  /\ ground.available => ground.failures < 2

LoaderHasAnOpenHold == hold.loader # "away" => hold.at = "open"

ReadingIsOld ==
  /\ follow.closeIsDue /\ follow.toggles > 0
  /\ ground.available =>
       /\ follow.since <= ground.failures
       /\ ~ground.polling => follow.since < ground.failures

ClosesOnce ==
  ~hold.pilots =>
    /\ ~hold.reopened
    /\ hold.at # "open" /\ ground.reading = "open" => ReadingIsOld

HoldInv == HoldTypes /\ LoaderHasAnOpenHold /\ ClosesOnce

\* What a tick makes of the hold: it toggles one that reads open, and waits for that to show.
LEMMA FollowAdvances ==
  ASSUME HoldInv, ~ground.polling, NEW done,
         done = Holds!AdvanceHold(Holds!NoteTheLoader(Holds!Aged))
  PROVE  /\ done.follow \in HoldFollows /\ ~(done.follow.closeIsDue /\ done.follow.served)
         /\ done.toggles \in BOOLEAN
         /\ done.toggles =>
              /\ ground.available /\ ground.reading = "open" /\ hold.loader = "away"
              /\ done.follow.closeIsDue /\ done.follow.toggles > 0 /\ done.follow.since = 0
         /\ ~hold.pilots /\ hold.at # "open" /\ ground.reading = "open" =>
              /\ ~done.toggles /\ done.follow.closeIsDue /\ done.follow.toggles > 0
              /\ ground.available => done.follow.since <= ground.failures
<1> DEFINE since == IF follow.since < ToggleShows THEN follow.since + 1 ELSE follow.since
           f == [follow EXCEPT !.since = since]
           g == Holds!NoteTheLoader(f)
<1>1. follow \in HoldFollows /\ ground \in GroundClients /\ hold \in CargoHolds
      /\ ~(follow.closeIsDue /\ follow.served)
  BY DEF HoldInv, HoldTypes
<1>2. since \in 0 .. ToggleShows /\ since <= follow.since + 1 /\ follow.since \in 0 .. ToggleShows
  BY <1>1, FslabsHoldConstants DEF HoldFollows
<1>3. Holds!Aged = f
  BY DEF Holds!Aged
<1> HIDE DEF since
<1>4. f \in HoldFollows /\ f.closeIsDue = follow.closeIsDue /\ f.served = follow.served
      /\ f.toggles = follow.toggles /\ f.since = since
  BY <1>1, <1>2 DEF HoldFollows
<1> HIDE DEF f
<1>5. 0 \in 0 .. MaxToggles /\ 0 \in 0 .. ToggleShows
  BY FslabsHoldConstants
<1>6. /\ g \in HoldFollows /\ ~(g.closeIsDue /\ g.served)
      /\ g.closeIsDue => hold.loader = "away"
      /\ follow.closeIsDue /\ hold.loader = "away" => g = f
  <2>1. CASE hold.loader # "away"
    <3> DEFINE served == f.served \/ hold.loader = "serving"
    <3>1. g = [[f EXCEPT !.closeIsDue = FALSE] EXCEPT !.served = served, !.toggles = 0]
      BY <1>4, <2>1 DEF Holds!NoteTheLoader, Holds!AtTheDoor, Holds!NotDue, HoldFollows
    <3>2. served \in BOOLEAN
      BY <1>4 DEF HoldFollows
    <3> HIDE DEF served
    <3> QED
      BY <1>4, <1>5, <2>1, <3>1, <3>2 DEF HoldFollows
  <2>2. CASE hold.loader = "away" /\ f.served
    <3>1. g = [f EXCEPT !.closeIsDue = TRUE, !.served = FALSE]
      BY <2>2 DEF Holds!NoteTheLoader
    <3> QED
      BY <1>1, <1>4, <2>2, <3>1 DEF HoldFollows
  <2>3. CASE hold.loader = "away" /\ ~f.served
    BY <1>1, <1>4, <2>3 DEF Holds!NoteTheLoader
  <2> QED
    BY <2>1, <2>2, <2>3
<1> HIDE DEF g
<1>7. done = IF g.closeIsDue THEN Holds!CloseTheHold(g) ELSE Holds!Kept(g)
  BY <1>3 DEF Holds!AdvanceHold, g
<1>8. \/ done = Holds!Kept(g)
      \/ /\ done = Holds!Kept(Holds!NotDue(g)) /\ ground.available
         /\ ~(ground.reading = "open" /\ Holds!WaitsForTheLastToggle(g))
      \/ /\ done = [follow |-> [g EXCEPT !.toggles = g.toggles + 1, !.since = 0],
                    toggles |-> TRUE]
         /\ g.closeIsDue /\ ground.available /\ ground.reading = "open"
         /\ ~Holds!WaitsForTheLastToggle(g) /\ ~(g.toggles >= MaxToggles)
  BY <1>7 DEF Holds!CloseTheHold
<1>9. ASSUME ~hold.pilots, hold.at # "open", ground.reading = "open"
      PROVE  /\ follow.closeIsDue /\ follow.toggles > 0 /\ g = f
             /\ ground.available => since <= ground.failures
             /\ ground.available => Holds!WaitsForTheLastToggle(g)
  <2>1. ReadingIsOld /\ hold.loader = "away"
    BY <1>1, <1>9 DEF HoldInv, ClosesOnce, LoaderHasAnOpenHold
  <2>2. g = f /\ follow.closeIsDue /\ follow.toggles > 0
    BY <1>6, <2>1 DEF ReadingIsOld
  <2>3. ASSUME ground.available
        PROVE  since <= ground.failures /\ since < ToggleShows
    <3>1. ground.failures \in 0 .. 2 /\ ground.failures < 2
      BY <1>1, <2>3 DEF HoldInv, HoldTypes, GroundClients
    <3>2. follow.since < ground.failures
      BY <2>1, <2>3 DEF ReadingIsOld
    <3> QED
      BY <1>2, <3>1, <3>2, FslabsHoldConstants
  <2> QED
    BY <1>4, <2>2, <2>3 DEF Holds!WaitsForTheLastToggle
<1>10. Holds!NotDue(g) \in HoldFollows /\ ~Holds!NotDue(g).closeIsDue
  BY <1>6 DEF Holds!NotDue, HoldFollows
<1>11. CASE done = Holds!Kept(g)
  <2>1. done.follow = g /\ done.toggles = FALSE
    BY <1>11 DEF Holds!Kept
  <2> QED
    BY <1>4, <1>6, <1>9, <2>1
<1>12. CASE done = Holds!Kept(Holds!NotDue(g))
              /\ ~(ground.reading = "open" /\ Holds!WaitsForTheLastToggle(g))
            /\ ground.available
  <2>1. done.follow = Holds!NotDue(g) /\ done.toggles = FALSE
    BY <1>12 DEF Holds!Kept
  <2> QED
    BY <1>9, <1>10, <1>12, <2>1
<1>13. CASE /\ done = [follow |-> [g EXCEPT !.toggles = g.toggles + 1, !.since = 0],
                       toggles |-> TRUE]
            /\ g.closeIsDue /\ ground.available /\ ground.reading = "open"
            /\ ~Holds!WaitsForTheLastToggle(g) /\ ~(g.toggles >= MaxToggles)
  <2>1. g.toggles + 1 \in 0 .. MaxToggles /\ g.toggles + 1 > 0
    <3>1. g.toggles \in 0 .. MaxToggles
      BY <1>6 DEF HoldFollows
    <3> QED
      BY <1>13, <3>1, FslabsHoldConstants
  <2>2. /\ done.follow \in HoldFollows /\ done.follow.since = 0 /\ done.follow.toggles > 0
        /\ done.follow.closeIsDue = g.closeIsDue /\ done.follow.served = g.served /\ done.toggles
    <3> DEFINE toggles == g.toggles + 1
    <3>1. done.follow = [g EXCEPT !.toggles = toggles, !.since = 0] /\ done.toggles = TRUE
      BY <1>13
    <3> HIDE DEF toggles
    <3>2. toggles \in 0 .. MaxToggles /\ toggles > 0
      BY <2>1 DEF toggles
    <3> QED
      BY <1>5, <1>6, <3>1, <3>2 DEF HoldFollows
  <2> QED
    BY <1>6, <1>9, <1>13, <2>2
<1> QED
  BY <1>8, <1>11, <1>12, <1>13

\* A tick, with the toggle arriving or lost.
LEMMA AdvanceKeepsTheHold ==
  ASSUME HoldInv, Holds!Advance
  PROVE  HoldInv'
<1> DEFINE h == [Holds!Moved EXCEPT !.seen = TRUE]
<1>1. /\ follow \in HoldFollows /\ ground \in GroundClients /\ hold \in CargoHolds
      /\ (hold.closingIn > 0) = (hold.at = "closing") /\ hold.closingIn \in 0 .. HoldTravel
      /\ hold.faults + 1 \in Nat
  BY DEF HoldInv, HoldTypes, CargoHolds
<1>2. PICK done :
        /\ done = Holds!AdvanceHold(Holds!NoteTheLoader(Holds!Aged)) /\ follow' = done.follow
        /\ \/ ~done.toggles /\ hold' = h
           \/ done.toggles /\ hold' = [Holds!Toggled(h) EXCEPT !.reopened = @ \/ h.at # "open"]
           \/ done.toggles /\ hold' = Holds!FaultOf(h)
  BY DEF Holds!Advance
<1>3. ground' = [ground EXCEPT !.polling = TRUE] /\ ~ground.polling
  BY DEF Holds!Advance
<1>4. /\ ground' \in GroundClients /\ ground'.polling /\ ground'.reading = ground.reading
      /\ ground'.available = ground.available /\ ground'.failures = ground.failures
  BY <1>1, <1>3 DEF GroundClients
<1>5. /\ done.follow \in HoldFollows /\ ~(done.follow.closeIsDue /\ done.follow.served)
      /\ done.toggles \in BOOLEAN
      /\ done.toggles =>
           /\ ground.available /\ ground.reading = "open" /\ hold.loader = "away"
           /\ done.follow.closeIsDue /\ done.follow.toggles > 0 /\ done.follow.since = 0
      /\ ~hold.pilots /\ hold.at # "open" /\ ground.reading = "open" =>
           /\ ~done.toggles /\ done.follow.closeIsDue /\ done.follow.toggles > 0
           /\ ground.available => done.follow.since <= ground.failures
  BY <1>2, <1>3, FollowAdvances
<1>6. /\ h \in CargoHolds /\ (h.closingIn > 0) = (h.at = "closing")
      /\ h.loader = hold.loader /\ h.reopened = hold.reopened /\ h.pilots = hold.pilots
      /\ (h.at = "open") = (hold.at = "open") /\ h.faults + 1 \in Nat
  <2>1. CASE hold.closingIn = 0
    <3>1. h = [hold EXCEPT !.seen = TRUE]
      BY <2>1 DEF Holds!Moved
    <3> QED
      BY <1>1, <3>1 DEF CargoHolds
  <2>2. CASE hold.closingIn # 0
    <3> DEFINE at == IF hold.closingIn = 1 THEN "closed" ELSE hold.at
               left == hold.closingIn - 1
    <3>1. Holds!Moved = [hold EXCEPT !.closingIn = left, !.at = at]
      BY <2>2 DEF Holds!Moved
    <3>2. /\ left \in 0 .. HoldTravel /\ at \in Holds!Readings /\ (left > 0) = (at = "closing")
          /\ at # "open" /\ hold.at # "open"
      BY <1>1, <2>2, FslabsHoldConstants DEF Holds!Readings
    <3> HIDE DEF left, at
    <3>3. h = [hold EXCEPT !.closingIn = left, !.at = at, !.seen = TRUE]
      BY <1>1, <3>1 DEF CargoHolds
    <3> QED
      BY <1>1, <3>2, <3>3 DEF CargoHolds
  <2> QED
    BY <2>1, <2>2
<1> HIDE DEF h
<1>7. CASE ~done.toggles /\ hold' = h
  <2>1. LoaderHasAnOpenHold'
    BY <1>6, <1>7 DEF HoldInv, LoaderHasAnOpenHold
  <2>2. ClosesOnce'
    <3> SUFFICES ASSUME ~hold.pilots
                 PROVE  /\ ~h.reopened
                        /\ h.at # "open" /\ ground.reading = "open" => ReadingIsOld'
      BY <1>4, <1>6, <1>7 DEF ClosesOnce
    <3>1. ~hold.reopened
      BY DEF HoldInv, ClosesOnce
    <3>2. h.at # "open" /\ ground.reading = "open" => ReadingIsOld'
      BY <1>2, <1>4, <1>5, <1>6 DEF ReadingIsOld
    <3> QED
      BY <1>6, <3>1, <3>2
  <2> QED
    BY <1>2, <1>4, <1>5, <1>6, <1>7, <2>1, <2>2 DEF HoldInv, HoldTypes
<1>8. CASE done.toggles /\ hold' = Holds!FaultOf(h)
  <2>1. /\ hold' \in CargoHolds /\ hold'.at = h.at /\ hold'.closingIn = h.closingIn
        /\ hold'.loader = h.loader /\ hold'.reopened = h.reopened /\ hold'.pilots = h.pilots
    BY <1>6, <1>8 DEF Holds!FaultOf, CargoHolds
  <2>2. ClosesOnce'
    BY <1>4, <1>5, <1>6, <1>8, <2>1 DEF HoldInv, ClosesOnce
  <2> QED
    BY <1>2, <1>4, <1>5, <1>6, <1>8, <2>1, <2>2 DEF HoldInv, HoldTypes, LoaderHasAnOpenHold
<1>9. CASE done.toggles /\ hold' = [Holds!Toggled(h) EXCEPT !.reopened = @ \/ h.at # "open"]
  <2> DEFINE reopened == h.reopened \/ h.at # "open"
             at == IF h.at = "open" THEN "closing" ELSE "open"
             left == IF h.at = "open" THEN HoldTravel ELSE 0
  <2>1. hold' = [h EXCEPT !.at = at, !.closingIn = left, !.reopened = reopened]
    <3>1. Holds!Toggled(h) = [h EXCEPT !.at = at, !.closingIn = left]
      BY DEF Holds!Toggled
    <3>2. Holds!Toggled(h).reopened = h.reopened
      BY <1>6, <3>1 DEF CargoHolds
    <3> HIDE DEF at, left
    <3> QED
      BY <1>6, <1>9, <3>1, <3>2 DEF CargoHolds
  <2>2. /\ at \in Holds!Readings /\ left \in 0 .. HoldTravel /\ reopened \in BOOLEAN
        /\ (left > 0) = (at = "closing")
    BY <1>6, FslabsHoldConstants DEF Holds!Readings, CargoHolds
  <2>3. ~hold.pilots => ~reopened
    BY <1>5, <1>6, <1>9 DEF HoldInv, ClosesOnce
  <2> HIDE DEF reopened, at, left
  <2>4. /\ hold' \in CargoHolds /\ hold'.at = at /\ hold'.closingIn = left
        /\ hold'.loader = h.loader /\ hold'.reopened = reopened /\ hold'.pilots = h.pilots
    BY <1>6, <2>1, <2>2 DEF CargoHolds
  <2>5. ReadingIsOld'
    <3>1. 0 <= ground.failures
      BY <1>1 DEF GroundClients
    <3> QED
      BY <1>2, <1>4, <1>5, <1>9, <3>1 DEF ReadingIsOld
  <2> QED
    BY <1>2, <1>4, <1>5, <1>6, <1>9, <2>2, <2>3, <2>4, <2>5
    DEF HoldInv, HoldTypes, LoaderHasAnOpenHold, ClosesOnce
<1> QED
  BY <1>2, <1>7, <1>8, <1>9

\* The readings, the loader and the pilot.
LEMMA OthersKeepTheHold ==
  ASSUME HoldInv, Holds!OnGroundFinished \/ Holds!ResetForNewTurnaround \/ Holds!LoaderMoves
           \/ Holds!PilotToggles
  PROVE  HoldInv'
<1>1. /\ follow \in HoldFollows /\ ground \in GroundClients /\ hold \in CargoHolds
      /\ (hold.closingIn > 0) = (hold.at = "closing") /\ hold.closingIn \in 0 .. HoldTravel
      /\ hold.faults + 1 \in Nat /\ hold.at \in Holds!Readings
      /\ ground.failures \in 0 .. 2 /\ follow.since \in 0 .. ToggleShows
  BY DEF HoldInv, HoldTypes, CargoHolds, GroundClients, HoldFollows
<1>2. CASE Holds!OnGroundFinished
  <2>1. ground.polling /\ follow' = follow
    BY <1>2 DEF Holds!OnGroundFinished
  <2>2. CASE ground' = Holds!Answered(hold.at) /\ hold' = hold
    <3>1. /\ ground' \in GroundClients /\ ground'.failures = 0 /\ ground'.reading = hold.at
      <4> DEFINE reading == hold.at
      <4>1. reading \in Holds!Readings \cup {Holds!None} /\ 0 \in 0 .. 2
        BY <1>1
      <4>2. ground' = [ground EXCEPT !.polling = FALSE, !.reading = reading, !.available = TRUE,
                                     !.failures = 0]
        BY <2>2 DEF Holds!Answered
      <4> HIDE DEF reading
      <4>3. ground' \in GroundClients /\ ground'.failures = 0 /\ ground'.reading = reading
        BY <1>1, <4>1, <4>2 DEF GroundClients
      <4> QED
        BY <4>3 DEF reading
    <3> QED
      BY <1>1, <2>1, <2>2, <3>1 DEF HoldInv, HoldTypes, LoaderHasAnOpenHold, ClosesOnce
  <2>3. CASE ground' = Holds!Failed /\ hold' = Holds!FaultOf(hold)
    <3>1. /\ hold' \in CargoHolds /\ hold'.at = hold.at /\ hold'.closingIn = hold.closingIn
          /\ hold'.loader = hold.loader /\ hold'.reopened = hold.reopened
          /\ hold'.pilots = hold.pilots
      BY <1>1, <2>3 DEF Holds!FaultOf, CargoHolds
    <3> DEFINE failures == IF ground.failures < 2 THEN ground.failures + 1 ELSE ground.failures
               available == ground.available /\ ground.failures = 0
    <3>2. ground' = [ground EXCEPT !.polling = FALSE, !.failures = failures,
                                   !.available = available]
      BY <2>3 DEF Holds!Failed
    <3>3. failures \in 0 .. 2 /\ available \in BOOLEAN /\ (available => failures = 1)
      BY <1>1 DEF GroundClients
    <3>4. available => ground.available /\ ground.failures = 0
      OBVIOUS
    <3> HIDE DEF failures, available
    <3>5. /\ ground' \in GroundClients /\ ground'.failures = failures
          /\ ground'.available = available /\ ground'.reading = ground.reading
          /\ ~ground'.polling
      BY <1>1, <3>2, <3>3 DEF GroundClients
    <3>6. ReadingIsOld => ReadingIsOld'
      BY <1>1, <2>1, <3>3, <3>4, <3>5 DEF ReadingIsOld
    <3>7. ClosesOnce'
      BY <3>1, <3>5, <3>6 DEF HoldInv, ClosesOnce
    <3> QED
      BY <1>1, <2>1, <3>1, <3>3, <3>5, <3>7 DEF HoldInv, HoldTypes, LoaderHasAnOpenHold
  <2> QED
    BY <1>2, <2>2, <2>3 DEF Holds!OnGroundFinished
<1>3. CASE Holds!ResetForNewTurnaround
  <2>1. Holds!NewFollow \in HoldFollows /\ ~Holds!NewFollow.closeIsDue
    BY FslabsHoldConstants DEF Holds!NewFollow, HoldFollows
  <2>2. follow' = Holds!NewFollow /\ ground' = ground /\ hold' = hold /\ ~follow.closeIsDue
    BY <1>3 DEF Holds!ResetForNewTurnaround
  <2>3. ~ReadingIsOld
    BY <2>2 DEF ReadingIsOld
  <2> QED
    BY <2>1, <2>2, <2>3 DEF HoldInv, HoldTypes, LoaderHasAnOpenHold, ClosesOnce
<1>4. CASE Holds!LoaderMoves
  <2>1. PICK to \in {"serving", "leaving", "away"} :
          /\ <<hold.loader, to>> \in Holds!LoaderSteps /\ (to = "serving" => hold.at = "open")
          /\ hold' = [hold EXCEPT !.loader = to, !.seen = FALSE]
    BY <1>4 DEF Holds!LoaderMoves
  <2>2. follow' = follow /\ ground' = ground
    BY <1>4 DEF Holds!LoaderMoves
  <2>3. to # "away" => hold.at = "open"
    BY <2>1 DEF Holds!LoaderSteps, HoldInv, LoaderHasAnOpenHold
  <2>4. /\ hold' \in CargoHolds /\ hold'.at = hold.at /\ hold'.closingIn = hold.closingIn
        /\ hold'.loader = to /\ hold'.reopened = hold.reopened /\ hold'.pilots = hold.pilots
    BY <1>1, <2>1 DEF CargoHolds
  <2> QED
    BY <2>2, <2>3, <2>4
    DEF HoldInv, HoldTypes, LoaderHasAnOpenHold, ClosesOnce, ReadingIsOld
<1>5. CASE Holds!PilotToggles
  <2> DEFINE at == IF hold.at = "open" THEN "closing" ELSE "open"
             left == IF hold.at = "open" THEN HoldTravel ELSE 0
  <2>1. /\ at \in Holds!Readings /\ left \in 0 .. HoldTravel /\ (left > 0) = (at = "closing")
        /\ Holds!Toggled(hold) = [hold EXCEPT !.at = at, !.closingIn = left]
    <3>1. at \in Holds!Readings /\ left \in 0 .. HoldTravel /\ (left > 0) = (at = "closing")
      BY FslabsHoldConstants DEF Holds!Readings
    <3>2. Holds!Toggled(hold) = [hold EXCEPT !.at = at, !.closingIn = left]
      BY DEF Holds!Toggled
    <3> QED
      BY <3>1, <3>2
  <2>2. hold' = [Holds!FaultOf(Holds!Toggled(hold)) EXCEPT !.pilots = TRUE]
        /\ hold.loader = "away" /\ follow' = follow /\ ground' = ground
    BY <1>5 DEF Holds!PilotToggles
  <2> HIDE DEF at, left
  <2>3. /\ Holds!Toggled(hold) \in CargoHolds /\ Holds!Toggled(hold).at = at
        /\ Holds!Toggled(hold).closingIn = left /\ Holds!Toggled(hold).loader = hold.loader
    BY <1>1, <2>1 DEF CargoHolds
  <2>4. /\ Holds!FaultOf(Holds!Toggled(hold)) \in CargoHolds
             /\ Holds!FaultOf(Holds!Toggled(hold)).at = at
        /\ Holds!FaultOf(Holds!Toggled(hold)).closingIn = left
        /\ Holds!FaultOf(Holds!Toggled(hold)).loader = hold.loader
    BY <2>3 DEF Holds!FaultOf, CargoHolds
  <2>5. /\ hold' \in CargoHolds /\ hold'.at = at /\ hold'.closingIn = left
        /\ hold'.loader = "away" /\ hold'.pilots
    BY <2>2, <2>4 DEF CargoHolds
  <2> QED
    BY <2>1, <2>2, <2>5 DEF HoldInv, HoldTypes, LoaderHasAnOpenHold, ClosesOnce
<1> QED
  BY <1>2, <1>3, <1>4, <1>5

(***************************************************************************)
(* No toggle of the client opens a hold again that it closed, unless the   *)
(* pilot has toggled it too, and none is closed on the loader at it, for   *)
(* any travel, delay and count of toggles (FslabsHolds).                   *)
(***************************************************************************)
THEOREM FslabsHoldsHold ==
  Holds!Spec => [](Holds!TypeOK /\ Holds!NoToggleReopens /\ Holds!LoaderKeepsItsHold)
<1>1. Holds!Init => HoldInv
  <2> SUFFICES ASSUME Holds!Init PROVE HoldInv
    OBVIOUS
  <2>1. follow \in HoldFollows /\ ~follow.closeIsDue
    BY FslabsHoldConstants DEF Holds!Init, Holds!NewFollow, HoldFollows
  <2>2. ground \in GroundClients /\ ~ground.available /\ ground.reading = Holds!None
    BY DEF Holds!Init, GroundClients
  <2>3. /\ hold \in CargoHolds /\ hold.at \in {"closed", "open"} /\ hold.closingIn = 0
        /\ hold.loader = "away" /\ ~hold.reopened
    <3>1. PICK at \in {"closed", "open"} :
            hold = [at |-> at, closingIn |-> 0, loader |-> "away", seen |-> TRUE,
                    reopened |-> FALSE, pilots |-> FALSE, faults |-> 0]
      BY DEF Holds!Init
    <3>2. 0 \in 0 .. HoldTravel
      BY FslabsHoldConstants
    <3> QED
      BY <3>1, <3>2 DEF CargoHolds, Holds!Readings
  <2> QED
    BY <2>1, <2>2, <2>3
    DEF HoldInv, HoldTypes, LoaderHasAnOpenHold, ClosesOnce, Holds!None
<1>2. HoldInv /\ [Holds!Next]_(Holds!holdVars) => HoldInv'
  BY AdvanceKeepsTheHold, OthersKeepTheHold
  DEF Holds!Next, Holds!holdVars, HoldInv, HoldTypes, LoaderHasAnOpenHold, ClosesOnce, ReadingIsOld
<1>3. HoldInv => Holds!TypeOK /\ Holds!NoToggleReopens /\ Holds!LoaderKeepsItsHold
  <2> SUFFICES ASSUME HoldInv PROVE Holds!TypeOK /\ Holds!NoToggleReopens
                        /\ Holds!LoaderKeepsItsHold
    OBVIOUS
  <2>1. Holds!TypeOK
    BY DEF HoldInv, HoldTypes, Holds!TypeOK, HoldFollows, GroundClients, CargoHolds
  <2>2. Holds!NoToggleReopens
    BY DEF HoldInv, ClosesOnce, Holds!NoToggleReopens
  <2>3. Holds!LoaderKeepsItsHold
    BY DEF HoldInv, LoaderHasAnOpenHold, Holds!LoaderKeepsItsHold
  <2> QED
    BY <2>1, <2>2, <2>3
<1> QED
  BY <1>1, <1>2, <1>3, PTL DEF Holds!Spec

-----------------------------------------------------------------------------
(***************************************************************************)
(* The Fenix A32x.                                                         *)
(* A door that still closes is followed: it reads as anything but closed,  *)
(* has just come to read so, or is taken to settle for at least as long as *)
(* it still moves.  A final loadsheet is remembered, in the client or      *)
(* across its relaunch, until the next loading.                            *)
(***************************************************************************)
\* What the constants are taken to be here.
LEMMA FenixConstants ==
  /\ SettleTicks \in Nat \ {0} /\ SettingsEvery \in Nat \ {0} /\ FullZfw \in Nat
  /\ MaxFaults \in Nat
BY HostConstants

Positions == {Fenix!Unanswered, 0, 1}
EfbClients == [polling : BOOLEAN, failures : 0 .. 2, available : BOOLEAN,
               settings : {Fenix!None, "asked"}, settingsIn : 0 .. SettingsEvery - 1,
               major : {0, 2, 3}, door : Positions, bulk : Positions]
Fenixes == [third : BOOLEAN, settling : 0 .. SettleTicks, lastDoor : Positions,
            pendingPower : {Fenix!None, "on", "off"}, closeAllPending : BOOLEAN,
            bulkArmed : BOOLEAN,
            initialized : BOOLEAN, finalAsked : BOOLEAN, lastZfw : Int]
Cockpits == [up : BOOLEAN, power : {"on", "off"}, askedPower : {"on", "off"},
             automation : BOOLEAN, door : {"closed", "open", "closing"}, reading : {0, 1},
             shutsIn : 0 .. SettleTicks, closing : BOOLEAN, bulk : {0, 1}, held : BOOLEAN,
             loading : {"on", "off"}, seats : 0 .. FullZfw, finals : {0, 1}, major : {2, 3},
             lost : BOOLEAN, faults : Nat]
FenixPairs == [fenix : Fenixes, cockpit : Cockpits]

DoorIsRead(c) ==
  (c.reading = 1) = (c.door = "open") /\ (c.shutsIn > 0) = (c.door = "closing")

FenixTypes ==
  /\ efb \in EfbClients /\ fenix \in Fenixes /\ cockpit \in Cockpits
  /\ efb.available => efb.failures < 2 /\ efb.door # Fenix!Unanswered
  /\ DoorIsRead(cockpit)

DoorIsFollowed ==
  /\ efb.polling => fenix.lastDoor = efb.door
  /\ cockpit.door = "closing" =>
       /\ efb.door # Fenix!Unanswered
       /\ efb.door = 0 =>
            fenix.settling >= cockpit.shutsIn \/ (~efb.polling /\ fenix.lastDoor > 0)

CloseAllIsKnown ==
  fenix.closeAllPending =>
    cockpit.closing /\ (efb.available /\ cockpit.door = "open" => efb.door = 1)

LoadsheetIsFinal ==
  cockpit.finals = 1 => fenix.finalAsked /\ cockpit.seats = FullZfw

FenixInv == FenixTypes /\ DoorIsFollowed /\ CloseAllIsKnown /\ LoadsheetIsFinal

FenixIsKept(f, g) ==
  /\ g \in Fenixes /\ g.settling = f.settling /\ g.lastDoor = f.lastDoor
  /\ g.finalAsked = f.finalAsked /\ (g.closeAllPending => f.closeAllPending)

LoadIsKept(c, d) ==
  d \in Cockpits /\ d.closing = c.closing /\ d.seats = c.seats /\ d.finals = c.finals

CockpitIsKept(c, d) ==
  LoadIsKept(c, d) /\ d.door = c.door /\ d.reading = c.reading /\ d.shutsIn = c.shutsIn

\* A write of anything but the door leaves the door and the loading as they are.
LEMMA WritesKeepTheDoor ==
  ASSUME NEW c \in Cockpits
  PROVE  /\ \A on \in {"on", "off"} : CockpitIsKept(c, Fenix!Written(c, "power", on))
         /\ CockpitIsKept(c, Fenix!Written(c, "automation", FALSE))
         /\ CockpitIsKept(c, Fenix!Written(c, "bulk", 0))
         /\ CockpitIsKept(c, c)
<1> USE DEF CockpitIsKept, LoadIsKept, Fenix!Written, Cockpits
<1>1. CockpitIsKept(c, [c EXCEPT !.lost = TRUE])
  OBVIOUS
<1>2. ASSUME NEW on \in {"on", "off"} PROVE CockpitIsKept(c, Fenix!Written(c, "power", on))
  BY <1>1
<1>3. CockpitIsKept(c, Fenix!Written(c, "automation", FALSE))
  <2>1. CockpitIsKept(c, [c EXCEPT !.automation = FALSE])
    OBVIOUS
  <2>2. Fenix!Written(c, "automation", FALSE) \in
          {[c EXCEPT !.lost = TRUE], [c EXCEPT !.automation = FALSE]}
    BY Zenon
  <2> HIDE DEF CockpitIsKept, LoadIsKept, Fenix!Written, Cockpits
  <2> QED
    BY <1>1, <2>1, <2>2, Zenon
<1>4. CockpitIsKept(c, Fenix!Written(c, "bulk", 0))
  BY <1>1
<1> QED
  BY <1>2, <1>3, <1>4

\* The door that is sent shut closes from open only.
LEMMA DoorIsSentShut ==
  ASSUME NEW c \in Cockpits, DoorIsRead(c), NEW d, d = Fenix!DoorCommanded(c, FALSE)
  PROVE  /\ LoadIsKept(c, d) /\ DoorIsRead(d)
         /\ \/ CockpitIsKept(c, d)
            \/ c.door = "open" /\ d.door = "closing" /\ d.shutsIn = SettleTicks
<1>1. SettleTicks \in 0 .. SettleTicks /\ SettleTicks > 0
  BY FenixConstants
<1>2. \/ d = [c EXCEPT !.lost = TRUE]
      \/ /\ d = [c EXCEPT !.door = "closing", !.reading = 0, !.shutsIn = SettleTicks]
         /\ c.door = "open"
      \/ d = c
  BY DEF Fenix!DoorCommanded
<1> QED
  <2>1. CASE d = [c EXCEPT !.lost = TRUE] \/ d = c
    BY <2>1 DEF DoorIsRead, LoadIsKept, CockpitIsKept, Cockpits
  <2>2. CASE /\ d = [c EXCEPT !.door = "closing", !.reading = 0, !.shutsIn = SettleTicks]
             /\ c.door = "open"
    <3> DEFINE left == SettleTicks
    <3>1. /\ d = [c EXCEPT !.door = "closing", !.reading = 0, !.shutsIn = left]
          /\ left \in 0 .. SettleTicks /\ left > 0
      BY <1>1, <2>2
    <3> HIDE DEF left
    <3>2. d \in Cockpits /\ d.door = "closing" /\ d.reading = 0 /\ d.shutsIn = left
          /\ d.closing = c.closing /\ d.seats = c.seats /\ d.finals = c.finals
      BY <3>1 DEF Cockpits
    <3>3. LoadIsKept(c, d)
      BY <3>2 DEF LoadIsKept
    <3>4. DoorIsRead(d)
      <4>1. d.shutsIn > 0 /\ d.reading # 1 /\ d.door # "open" /\ d.door = "closing"
        <5>1. d.shutsIn = left /\ d.reading = 0 /\ d.door = "closing"
          BY <3>2
        <5>2. d.shutsIn > 0
          BY <3>1, <5>1
        <5>3. 0 # 1 /\ "closing" # "open"
          OBVIOUS
        <5> QED
          BY <5>1, <5>2, <5>3, Zenon
      <4> QED
        BY <4>1 DEF DoorIsRead
    <3> QED
      BY <2>2, <3>2, <3>3, <3>4 DEF left
  <2> QED
    BY <1>2, <2>1, <2>2

\* A door that is not on its way opens at once.
LEMMA DoorIsSentOpen ==
  ASSUME NEW c \in Cockpits, DoorIsRead(c), c.door # "closing", NEW d,
         d = Fenix!DoorCommanded(c, TRUE)
  PROVE  LoadIsKept(c, d) /\ DoorIsRead(d) /\ d.door # "closing"
<1>1. \/ d = [c EXCEPT !.lost = TRUE]
      \/ d = [c EXCEPT !.door = "open", !.reading = 1]
  BY DEF Fenix!DoorCommanded
<1> QED
  BY <1>1 DEF DoorIsRead, LoadIsKept, Cockpits

\* What waits for the EFB's return keeps the door, but for the close of all.
LEMMA WaitingIsApplied ==
  ASSUME NEW v \in FenixPairs
  PROVE  /\ Fenix!ApplyThePendingGroundPower(v) \in FenixPairs
         /\ FenixIsKept(v.fenix, Fenix!ApplyThePendingGroundPower(v).fenix)
         /\ CockpitIsKept(v.cockpit, Fenix!ApplyThePendingGroundPower(v).cockpit)
         /\ Fenix!CloseTheBulkDoorWhenItReadsOpen(v) \in FenixPairs
         /\ FenixIsKept(v.fenix, Fenix!CloseTheBulkDoorWhenItReadsOpen(v).fenix)
         /\ CockpitIsKept(v.cockpit, Fenix!CloseTheBulkDoorWhenItReadsOpen(v).cockpit)
         /\ Fenix!InitializeEfbOnce(v) \in FenixPairs
         /\ FenixIsKept(v.fenix, Fenix!InitializeEfbOnce(v).fenix)
         /\ CockpitIsKept(v.cockpit, Fenix!InitializeEfbOnce(v).cockpit)
<1>1. v.fenix \in Fenixes /\ v.cockpit \in Cockpits
        /\ v = [fenix |-> v.fenix, cockpit |-> v.cockpit]
  BY DEF FenixPairs
<1>2. FenixIsKept(v.fenix, v.fenix) /\ CockpitIsKept(v.cockpit, v.cockpit)
  BY <1>1, WritesKeepTheDoor DEF FenixIsKept
<1>3. ASSUME NEW f, NEW c, FenixIsKept(v.fenix, f), CockpitIsKept(v.cockpit, c)
      PROVE  [fenix |-> f, cockpit |-> c] \in FenixPairs
  BY <1>3 DEF FenixIsKept, CockpitIsKept, LoadIsKept, FenixPairs
<1>4. /\ FenixIsKept(v.fenix, [v.fenix EXCEPT !.pendingPower = Fenix!None])
      /\ FenixIsKept(v.fenix, [v.fenix EXCEPT !.bulkArmed = FALSE])
      /\ FenixIsKept(v.fenix, [v.fenix EXCEPT !.initialized = TRUE])
      /\ FenixIsKept(v.fenix, [v.fenix EXCEPT !.initialized = FALSE])
  BY <1>1 DEF FenixIsKept, Fenixes
<1>5. /\ Fenix!ApplyThePendingGroundPower(v) \in FenixPairs
      /\ FenixIsKept(v.fenix, Fenix!ApplyThePendingGroundPower(v).fenix)
      /\ CockpitIsKept(v.cockpit, Fenix!ApplyThePendingGroundPower(v).cockpit)
  <2>1. CASE v.fenix.pendingPower = Fenix!None
    BY <1>1, <1>2, <2>1 DEF Fenix!ApplyThePendingGroundPower
  <2>2. CASE v.fenix.pendingPower # Fenix!None
    <3> DEFINE f == [v.fenix EXCEPT !.pendingPower = Fenix!None]
               c == Fenix!Written(v.cockpit, "power", v.fenix.pendingPower)
    <3>1. Fenix!ApplyThePendingGroundPower(v) = [fenix |-> f, cockpit |-> c]
      BY <2>2 DEF Fenix!ApplyThePendingGroundPower
    <3>2. v.fenix.pendingPower \in {"on", "off"}
      BY <1>1, <2>2 DEF Fenixes
    <3>3. FenixIsKept(v.fenix, f) /\ CockpitIsKept(v.cockpit, c)
      BY <1>1, <1>4, <3>2, WritesKeepTheDoor
    <3> HIDE DEF f, c
    <3> QED
      BY <1>3, <3>1, <3>3
  <2> QED
    BY <2>1, <2>2
<1>6. /\ Fenix!CloseTheBulkDoorWhenItReadsOpen(v) \in FenixPairs
      /\ FenixIsKept(v.fenix, Fenix!CloseTheBulkDoorWhenItReadsOpen(v).fenix)
      /\ CockpitIsKept(v.cockpit, Fenix!CloseTheBulkDoorWhenItReadsOpen(v).cockpit)
  <2> DEFINE f == [v.fenix EXCEPT !.bulkArmed = FALSE]
             c == IF efb.bulk > 0 THEN Fenix!Written(v.cockpit, "bulk", 0) ELSE v.cockpit
  <2>1. \/ Fenix!CloseTheBulkDoorWhenItReadsOpen(v) = v
        \/ Fenix!CloseTheBulkDoorWhenItReadsOpen(v) = [fenix |-> f, cockpit |-> c]
    BY DEF Fenix!CloseTheBulkDoorWhenItReadsOpen
  <2>2. FenixIsKept(v.fenix, f) /\ CockpitIsKept(v.cockpit, c)
    BY <1>1, <1>2, <1>4, WritesKeepTheDoor
  <2> HIDE DEF f, c
  <2> QED
    BY <1>2, <1>3, <2>1, <2>2
<1>7. /\ Fenix!InitializeEfbOnce(v) \in FenixPairs
      /\ FenixIsKept(v.fenix, Fenix!InitializeEfbOnce(v).fenix)
      /\ CockpitIsKept(v.cockpit, Fenix!InitializeEfbOnce(v).cockpit)
  <2> DEFINE f == [v.fenix EXCEPT !.initialized = TRUE]
             g == [v.fenix EXCEPT !.initialized = FALSE]
             c == Fenix!Written(v.cockpit, "automation", FALSE)
  <2>1. \/ Fenix!InitializeEfbOnce(v) = [v EXCEPT !.fenix.initialized = FALSE]
        \/ Fenix!InitializeEfbOnce(v) = v
        \/ Fenix!InitializeEfbOnce(v) = [fenix |-> f, cockpit |-> c]
    BY DEF Fenix!InitializeEfbOnce
  <2>2. [v EXCEPT !.fenix.initialized = FALSE] = [v EXCEPT !.fenix = g]
    OBVIOUS
  <2>3. FenixIsKept(v.fenix, f) /\ FenixIsKept(v.fenix, g) /\ CockpitIsKept(v.cockpit, c)
    BY <1>1, <1>4, WritesKeepTheDoor
  <2> HIDE DEF f, c
  <2>4. g \in Fenixes
    BY <2>3 DEF FenixIsKept
  <2> HIDE DEF g
  <2>5. /\ [v EXCEPT !.fenix = g] \in FenixPairs /\ [v EXCEPT !.fenix = g].fenix = g
        /\ [v EXCEPT !.fenix = g].cockpit = v.cockpit
    BY <1>1, <2>4 DEF FenixPairs
  <2>6. CASE Fenix!InitializeEfbOnce(v) = [v EXCEPT !.fenix.initialized = FALSE]
    BY <1>2, <2>2, <2>3, <2>5, <2>6
  <2>7. CASE Fenix!InitializeEfbOnce(v) = v
    BY <1>2, <2>7
  <2>8. CASE Fenix!InitializeEfbOnce(v) = [fenix |-> f, cockpit |-> c]
    BY <1>3, <2>3, <2>8
  <2> QED
    BY <2>1, <2>6, <2>7, <2>8
<1> QED
  BY <1>5, <1>6, <1>7

\* A tick takes a door that has come to read closed to settle for SettleTicks.
LEMMA DoorIsSettling ==
  ASSUME FenixInv, ~efb.polling, NEW f,
         f = Fenix!AdvanceDoorSettle(Fenix!DetectThirdGeneration(fenix)),
         NEW c, c = Fenix!DoorMoves(cockpit)
  PROVE  /\ f \in Fenixes /\ f.lastDoor = efb.door /\ f.finalAsked = fenix.finalAsked
         /\ f.closeAllPending = fenix.closeAllPending
         /\ LoadIsKept(cockpit, c) /\ DoorIsRead(c) /\ (c.door = "open") = (cockpit.door = "open")
         /\ c.door = "closing" =>
              efb.door # Fenix!Unanswered /\ (efb.door = 0 => f.settling >= c.shutsIn)
<1>1. /\ efb \in EfbClients /\ fenix \in Fenixes /\ cockpit \in Cockpits /\ DoorIsRead(cockpit)
      /\ fenix.settling \in 0 .. SettleTicks /\ cockpit.shutsIn \in 0 .. SettleTicks
      /\ efb.door \in Positions /\ fenix.lastDoor \in Positions
  BY DEF FenixInv, FenixTypes, EfbClients, Fenixes, Cockpits
<1> DEFINE third == fenix.third \/ efb.major >= 3
           g == [fenix EXCEPT !.third = third]
           settling == IF efb.door # 0 THEN 0
                       ELSE IF fenix.lastDoor > 0 THEN SettleTicks
                       ELSE IF fenix.settling > 0 THEN fenix.settling - 1 ELSE 0
<1>2. third \in BOOLEAN
  BY <1>1 DEF Fenixes
<1> HIDE DEF third
<1>3. /\ g \in Fenixes /\ g.settling = fenix.settling /\ g.lastDoor = fenix.lastDoor
      /\ g.finalAsked = fenix.finalAsked /\ g.closeAllPending = fenix.closeAllPending
  BY <1>1, <1>2 DEF Fenixes
<1>4. f = [g EXCEPT !.settling = settling, !.lastDoor = efb.door]
  BY <1>3 DEF Fenix!AdvanceDoorSettle, Fenix!DetectThirdGeneration, third
<1>5. settling \in 0 .. SettleTicks
  BY <1>1, FenixConstants
<1>6. efb.door = 0 /\ fenix.lastDoor > 0 => settling = SettleTicks
  OBVIOUS
<1>7. efb.door = 0 /\ ~(fenix.lastDoor > 0) /\ fenix.settling > 0 => settling = fenix.settling - 1
  OBVIOUS
<1> HIDE DEF g, settling
<1>8. /\ f \in Fenixes /\ f.lastDoor = efb.door /\ f.finalAsked = fenix.finalAsked
      /\ f.closeAllPending = fenix.closeAllPending /\ f.settling = settling
  BY <1>1, <1>3, <1>4, <1>5 DEF Fenixes
<1>9. CASE cockpit.shutsIn = 0
  <2>1. c = cockpit /\ c.door # "closing"
    BY <1>1, <1>9 DEF Fenix!DoorMoves, DoorIsRead
  <2> QED
    BY <1>1, <1>8, <2>1 DEF LoadIsKept
<1>10. CASE cockpit.shutsIn # 0
  <2> DEFINE left == cockpit.shutsIn - 1
             door == IF cockpit.shutsIn = 1 THEN "closed" ELSE cockpit.door
  <2>1. cockpit.door = "closing" /\ cockpit.reading # 1 /\ cockpit.reading \in {0, 1}
    BY <1>1, <1>10 DEF DoorIsRead, Cockpits
  <2>2. c = [cockpit EXCEPT !.shutsIn = left, !.door = door]
    BY <1>10 DEF Fenix!DoorMoves
  <2>3. /\ left \in 0 .. SettleTicks /\ (left > 0) = (door = "closing") /\ door # "open"
        /\ door \in {"closed", "open", "closing"}
    BY <1>1, <1>10, <2>1, FenixConstants
  <2>4. efb.door # Fenix!Unanswered /\ (efb.door = 0 => settling >= left)
    BY <1>1, <1>6, <1>7, <1>10, <2>1, FenixConstants DEF FenixInv, DoorIsFollowed
  <2> HIDE DEF left, door
  <2>5. /\ c \in Cockpits /\ c.shutsIn = left /\ c.door = door /\ c.reading = cockpit.reading
        /\ c.closing = cockpit.closing /\ c.seats = cockpit.seats /\ c.finals = cockpit.finals
    BY <1>1, <2>2, <2>3 DEF Cockpits
  <2> QED
    BY <1>8, <2>1, <2>3, <2>4, <2>5 DEF LoadIsKept, DoorIsRead
<1> QED
  BY <1>9, <1>10

\* The whole tick: the door settles, and what waited is applied.
LEMMA ObserveKeepsTheFenix ==
  ASSUME FenixInv, Fenix!Observe
  PROVE  FenixInv'
<1> DEFINE f == Fenix!AdvanceDoorSettle(Fenix!DetectThirdGeneration(fenix))
           c == Fenix!DoorMoves(cockpit)
           w0 == [fenix |-> f, cockpit |-> c]
           w1 == Fenix!ApplyThePendingGroundPower(w0)
           w2 == Fenix!ApplyThePendingCloseAll(w1)
           w3 == Fenix!CloseTheBulkDoorWhenItReadsOpen(w2)
           w4 == Fenix!ApplyWhatWaitedForTheEfb(w0)
           w == Fenix!InitializeEfbOnce(w4)
<1>1. /\ efb \in EfbClients /\ ~efb.polling /\ efb' = Fenix!Polled(efb)
      /\ fenix' = w.fenix /\ cockpit' = w.cockpit
  BY DEF FenixInv, FenixTypes, Fenix!Observe
<1>2. /\ f \in Fenixes /\ f.lastDoor = efb.door /\ f.finalAsked = fenix.finalAsked
      /\ f.closeAllPending = fenix.closeAllPending
      /\ LoadIsKept(cockpit, c) /\ DoorIsRead(c) /\ (c.door = "open") = (cockpit.door = "open")
      /\ c.door = "closing" =>
           efb.door # Fenix!Unanswered /\ (efb.door = 0 => f.settling >= c.shutsIn)
  BY <1>1, DoorIsSettling
<1> HIDE DEF f, c
<1>3. w0 \in FenixPairs /\ w0.fenix = f /\ w0.cockpit = c
  BY <1>2 DEF LoadIsKept, FenixPairs
<1> HIDE DEF w0
<1>4. /\ w1 \in FenixPairs /\ FenixIsKept(f, w1.fenix) /\ CockpitIsKept(c, w1.cockpit)
  BY <1>3, WaitingIsApplied
<1> HIDE DEF w1
<1>5. /\ w2 \in FenixPairs /\ FenixIsKept(f, w2.fenix) /\ LoadIsKept(c, w2.cockpit)
      /\ DoorIsRead(w2.cockpit) /\ ~w2.fenix.closeAllPending
      /\ \/ CockpitIsKept(c, w2.cockpit)
         \/ c.door = "open" /\ w2.cockpit.door = "closing" /\ f.closeAllPending
  <2>1. w1.fenix \in Fenixes /\ w1.cockpit \in Cockpits /\ DoorIsRead(w1.cockpit)
        /\ (w1.fenix.closeAllPending => f.closeAllPending)
    BY <1>2, <1>4 DEF FenixPairs, CockpitIsKept, DoorIsRead, FenixIsKept
  <2>2. CASE ~w1.fenix.closeAllPending
    <3>1. w2 = w1
      BY <2>2 DEF Fenix!ApplyThePendingCloseAll
    <3> HIDE DEF w2
    <3> QED
      BY <1>4, <2>1, <2>2, <3>1 DEF CockpitIsKept
  <2>3. CASE w1.fenix.closeAllPending
    <3> DEFINE g == [w1.fenix EXCEPT !.closeAllPending = FALSE]
               d == Fenix!DoorCommanded(w1.cockpit, FALSE)
    <3>1. w2 = [fenix |-> g, cockpit |-> d]
      BY <2>3 DEF Fenix!ApplyThePendingCloseAll
    <3>2. FenixIsKept(f, g) /\ ~g.closeAllPending
      BY <1>4, <2>1 DEF FenixIsKept, Fenixes
    <3>3. /\ LoadIsKept(w1.cockpit, d) /\ DoorIsRead(d)
          /\ \/ CockpitIsKept(w1.cockpit, d)
             \/ w1.cockpit.door = "open" /\ d.door = "closing"
      BY <2>1, DoorIsSentShut
    <3> HIDE DEF g, d, w2
    <3>4. w2 \in FenixPairs /\ w2.fenix = g /\ w2.cockpit = d
      BY <3>1, <3>2, <3>3 DEF FenixPairs, FenixIsKept, LoadIsKept
    <3> QED
      BY <1>4, <2>1, <2>3, <3>2, <3>3, <3>4 DEF CockpitIsKept, LoadIsKept
  <2> QED
    BY <2>2, <2>3
<1> HIDE DEF w2
<1>6. /\ w3 \in FenixPairs /\ FenixIsKept(w2.fenix, w3.fenix)
      /\ CockpitIsKept(w2.cockpit, w3.cockpit)
  BY <1>5, WaitingIsApplied
<1>7. w4 = IF ~efb.available THEN w0 ELSE w3
  BY DEF Fenix!ApplyWhatWaitedForTheEfb, w1, w2
<1> HIDE DEF w3, w4
<1>8. /\ w4 \in FenixPairs /\ FenixIsKept(f, w4.fenix) /\ LoadIsKept(c, w4.cockpit)
      /\ DoorIsRead(w4.cockpit) /\ (efb.available => ~w4.fenix.closeAllPending)
      /\ \/ CockpitIsKept(c, w4.cockpit)
         \/ /\ c.door = "open" /\ w4.cockpit.door = "closing" /\ f.closeAllPending
            /\ efb.available
  <2>1. CASE ~efb.available
    <3>1. FenixIsKept(f, f) /\ CockpitIsKept(c, c)
      BY <1>2, WritesKeepTheDoor DEF LoadIsKept, FenixIsKept
    <3> QED
      BY <1>2, <1>3, <1>7, <2>1, <3>1 DEF CockpitIsKept
  <2>2. CASE efb.available
    <3>1. w4 = w3
      BY <1>7, <2>2
    <3> QED
      BY <1>5, <1>6, <2>2, <3>1 DEF CockpitIsKept, LoadIsKept, FenixIsKept, DoorIsRead
  <2> QED
    BY <2>1, <2>2
<1>9. /\ w \in FenixPairs /\ FenixIsKept(w4.fenix, w.fenix)
      /\ CockpitIsKept(w4.cockpit, w.cockpit)
  BY <1>8, WaitingIsApplied
<1> HIDE DEF w
<1>10. /\ fenix' \in Fenixes /\ cockpit' \in Cockpits /\ DoorIsRead(cockpit')
       /\ fenix'.settling = f.settling /\ fenix'.lastDoor = efb.door
       /\ fenix'.finalAsked = fenix.finalAsked
       /\ fenix'.closeAllPending => fenix.closeAllPending /\ ~efb.available
       /\ cockpit'.closing = cockpit.closing /\ cockpit'.seats = cockpit.seats
       /\ cockpit'.finals = cockpit.finals
       /\ \/ cockpit'.door = c.door /\ cockpit'.shutsIn = c.shutsIn
          \/ /\ cockpit.door = "open" /\ cockpit'.door = "closing" /\ fenix.closeAllPending
             /\ efb.available
  BY <1>1, <1>2, <1>8, <1>9 DEF CockpitIsKept, LoadIsKept, FenixIsKept, DoorIsRead, FenixPairs
<1>11. /\ efb' \in EfbClients /\ efb'.polling /\ efb'.available = efb.available
       /\ efb'.failures = efb.failures /\ efb'.door = efb.door
  <2> DEFINE asked == IF efb.settingsIn > 0 THEN efb.settings ELSE "asked"
             next == IF efb.settingsIn > 0 THEN efb.settingsIn - 1
                     ELSE IF efb.settings = "asked" THEN 0 ELSE SettingsEvery - 1
  <2>1. efb' = [efb EXCEPT !.polling = TRUE, !.settings = asked, !.settingsIn = next]
    BY <1>1 DEF Fenix!Polled
  <2>2. asked \in {Fenix!None, "asked"}
    BY <1>1 DEF EfbClients
  <2>3. next \in 0 .. SettingsEvery - 1
    <3>1. efb.settingsIn \in 0 .. SettingsEvery - 1
      BY <1>1 DEF EfbClients
    <3> QED
      BY <3>1, FenixConstants
  <2> HIDE DEF asked, next
  <2> QED
    BY <1>1, <2>1, <2>2, <2>3 DEF EfbClients
<1>12. FenixTypes'
  BY <1>10, <1>11 DEF FenixInv, FenixTypes, DoorIsRead
<1>13. DoorIsFollowed'
  <2>1. CASE cockpit'.door = c.door /\ cockpit'.shutsIn = c.shutsIn
    BY <1>2, <1>10, <1>11, <2>1 DEF DoorIsFollowed
  <2>2. CASE cockpit.door = "open" /\ fenix.closeAllPending /\ efb.available
    <3>1. efb.door = 1 /\ 1 # Fenix!Unanswered
      BY <2>2 DEF FenixInv, CloseAllIsKnown, Fenix!Unanswered
    <3> QED
      BY <1>10, <1>11, <3>1 DEF DoorIsFollowed
  <2> QED
    BY <1>10, <2>1, <2>2
<1>14. CloseAllIsKnown'
  BY <1>10, <1>11 DEF FenixInv, CloseAllIsKnown
<1>15. LoadsheetIsFinal'
  BY <1>10 DEF FenixInv, LoadsheetIsFinal
<1> QED
  BY <1>12, <1>13, <1>14, <1>15 DEF FenixInv

\* What the turnaround and its rules ask, one case for each.
LEMMA AskingKeepsTheFenix ==
  ASSUME FenixInv, Fenix!AsksOfTheDoors \/ Fenix!AsksOfTheLoading
  PROVE  FenixInv'
<1>1. /\ efb \in EfbClients /\ fenix \in Fenixes /\ cockpit \in Cockpits /\ DoorIsRead(cockpit)
      /\ efb.polling /\ efb.door \in Positions /\ fenix.lastDoor = efb.door
      /\ efb.available => efb.door # Fenix!Unanswered
  BY DEF FenixInv, FenixTypes, DoorIsFollowed, Fenix!AsksOfTheDoors, Fenix!AsksOfTheLoading,
     EfbClients
<1>2. Fenix!Now \in FenixPairs /\ Fenix!Now.fenix = fenix /\ Fenix!Now.cockpit = cockpit
  BY <1>1 DEF Fenix!Now, FenixPairs
<1>3. /\ FenixIsKept(fenix, fenix) /\ CockpitIsKept(cockpit, cockpit)
      /\ LoadIsKept(cockpit, cockpit)
  BY <1>1, WritesKeepTheDoor DEF FenixIsKept, CockpitIsKept
<1>4. ASSUME efb' = efb, FenixIsKept(fenix, fenix'), CockpitIsKept(cockpit, cockpit')
      PROVE  FenixInv'
  BY <1>1, <1>4
  DEF FenixInv, FenixTypes, DoorIsFollowed, CloseAllIsKnown, LoadsheetIsFinal, FenixIsKept,
      CockpitIsKept, LoadIsKept, DoorIsRead
<1>5. CASE Fenix!PowerIsAsked
  <2>1. PICK on \in {"on", "off"} :
          Fenix!Carried([Fenix!SetGroundPower(on) EXCEPT !.cockpit.askedPower = on])
    BY <1>5 DEF Fenix!PowerIsAsked
  <2> DEFINE w == Fenix!SetGroundPower(on)
             f == [fenix EXCEPT !.pendingPower = on]
             g == [fenix EXCEPT !.pendingPower = Fenix!None]
             c == Fenix!Written(cockpit, "power", on)
  <2>2. FenixIsKept(fenix, f) /\ FenixIsKept(fenix, g) /\ CockpitIsKept(cockpit, c)
    BY <1>1, WritesKeepTheDoor DEF FenixIsKept, Fenixes
  <2>3. w.fenix \in {f, g} /\ w.cockpit \in {cockpit, c} /\ w \in FenixPairs
    <3>1. CASE ~efb.available
      <4>1. w = [Fenix!Now EXCEPT !.fenix = f]
        BY <1>2, <3>1 DEF Fenix!SetGroundPower
      <4>2. f \in Fenixes
        BY <2>2 DEF FenixIsKept
      <4> HIDE DEF w, f
      <4> QED
        BY <1>1, <1>2, <4>1, <4>2 DEF FenixPairs
    <3>2. CASE efb.available
      <4>1. w = [fenix |-> g, cockpit |-> c]
        BY <3>2 DEF Fenix!SetGroundPower
      <4>2. g \in Fenixes /\ c \in Cockpits
        BY <2>2 DEF FenixIsKept, CockpitIsKept, LoadIsKept
      <4> HIDE DEF w, g, c
      <4> QED
        BY <4>1, <4>2 DEF FenixPairs
    <3> HIDE DEF w
    <3> QED
      BY <3>1, <3>2
  <2> HIDE DEF w, f, g, c
  <2>4. /\ efb' = efb /\ fenix' = w.fenix /\ cockpit' = [w.cockpit EXCEPT !.askedPower = on]
    BY <2>1, <2>3 DEF Fenix!Carried, FenixPairs, w
  <2>5. CockpitIsKept(cockpit, w.cockpit)
    BY <1>3, <2>2, <2>3
  <2>6. CockpitIsKept(cockpit, cockpit')
    BY <2>4, <2>5 DEF CockpitIsKept, LoadIsKept, Cockpits
  <2>7. FenixIsKept(fenix, fenix')
    BY <2>2, <2>3, <2>4
  <2> QED
    BY <1>4, <2>4, <2>6, <2>7
<1>6. CASE /\ efb.door \in {Fenix!Unanswered, cockpit.reading}
           /\ Fenix!Carried([Fenix!CloseAllDoors EXCEPT !.cockpit.closing = TRUE])
  <2> DEFINE f == [fenix EXCEPT !.closeAllPending = TRUE]
             g == [fenix EXCEPT !.closeAllPending = FALSE]
             d == Fenix!DoorCommanded(cockpit, FALSE)
  <2>1. /\ f \in Fenixes /\ f.settling = fenix.settling /\ f.lastDoor = fenix.lastDoor
        /\ f.finalAsked = fenix.finalAsked
    BY <1>1 DEF Fenixes
  <2>2. /\ g \in Fenixes /\ g.settling = fenix.settling /\ g.lastDoor = fenix.lastDoor
        /\ g.finalAsked = fenix.finalAsked /\ ~g.closeAllPending
    BY <1>1 DEF Fenixes
  <2>3. /\ LoadIsKept(cockpit, d) /\ DoorIsRead(d)
        /\ \/ CockpitIsKept(cockpit, d)
           \/ cockpit.door = "open" /\ d.door = "closing"
    BY <1>1, DoorIsSentShut
  <2>4. CASE ~efb.available
    <3>1. Fenix!CloseAllDoors = [Fenix!Now EXCEPT !.fenix = f]
      BY <1>2, <2>4 DEF Fenix!CloseAllDoors
    <3> HIDE DEF f
    <3>2. Fenix!CloseAllDoors \in FenixPairs /\ Fenix!CloseAllDoors.fenix = f
            /\ Fenix!CloseAllDoors.cockpit = cockpit
      BY <1>1, <1>2, <2>1, <3>1 DEF FenixPairs
    <3>3. efb' = efb /\ fenix' = f /\ cockpit' = [cockpit EXCEPT !.closing = TRUE]
      BY <1>6, <3>2 DEF Fenix!Carried, FenixPairs
    <3>4. /\ cockpit' \in Cockpits /\ cockpit'.closing /\ cockpit'.door = cockpit.door
          /\ cockpit'.reading = cockpit.reading /\ cockpit'.shutsIn = cockpit.shutsIn
          /\ cockpit'.seats = cockpit.seats /\ cockpit'.finals = cockpit.finals
      BY <1>1, <3>3 DEF Cockpits
    <3> QED
      BY <1>1, <2>1, <2>4, <3>3, <3>4
      DEF FenixInv, FenixTypes, DoorIsFollowed, CloseAllIsKnown, LoadsheetIsFinal, DoorIsRead
  <2>5. CASE efb.available
    <3>1. Fenix!CloseAllDoors = [fenix |-> g, cockpit |-> d]
      BY <2>5 DEF Fenix!CloseAllDoors
    <3> HIDE DEF g, d
    <3>2. d \in Cockpits /\ Fenix!CloseAllDoors \in FenixPairs
      BY <2>2, <2>3, <3>1 DEF FenixPairs, LoadIsKept
    <3>3. efb' = efb /\ fenix' = g /\ cockpit' = [d EXCEPT !.closing = TRUE]
      BY <1>6, <3>1, <3>2 DEF Fenix!Carried, FenixPairs
    <3>4. /\ cockpit' \in Cockpits /\ cockpit'.door = d.door
          /\ cockpit'.reading = d.reading /\ cockpit'.shutsIn = d.shutsIn
          /\ cockpit'.seats = d.seats /\ cockpit'.finals = d.finals
      BY <3>2, <3>3 DEF Cockpits
    <3>5. cockpit.door = "open" => efb.door = 1
      BY <1>1, <1>6, <2>5 DEF DoorIsRead
    <3>6. DoorIsFollowed'
      <4>1. CASE d.door = cockpit.door /\ d.shutsIn = cockpit.shutsIn
        BY <1>1, <2>2, <3>3, <3>4, <4>1 DEF FenixInv, DoorIsFollowed
      <4>2. CASE cockpit.door = "open"
        BY <1>1, <2>2, <2>5, <3>3, <3>5, <4>2 DEF DoorIsFollowed
      <4> QED
        BY <2>3, <4>1, <4>2 DEF CockpitIsKept
    <3>7. FenixTypes'
      BY <1>1, <2>2, <2>3, <3>3, <3>4 DEF FenixInv, FenixTypes, DoorIsRead
    <3>8. CloseAllIsKnown' /\ LoadsheetIsFinal'
      BY <2>2, <2>3, <3>3, <3>4 DEF FenixInv, CloseAllIsKnown, LoadsheetIsFinal, LoadIsKept
    <3> QED
      BY <3>6, <3>7, <3>8 DEF FenixInv
  <2> QED
    BY <2>4, <2>5
<1>7. CASE ~cockpit.closing /\ \E open \in BOOLEAN : Fenix!DoorsFollowGsx(open)
  <2>1. PICK open \in BOOLEAN : Fenix!DoorsFollowGsx(open)
    BY <1>7
  <2> DEFINE d == Fenix!DoorCommanded(cockpit, open)
  <2>2. /\ efb.available /\ Fenix!DoorPositionOf = (IF open THEN "closed" ELSE "open")
        /\ Fenix!Carried([Fenix!Now EXCEPT !.cockpit = d])
    BY <2>1 DEF Fenix!DoorsFollowGsx
  <2>3. ~fenix.closeAllPending
    BY <1>7 DEF FenixInv, CloseAllIsKnown
  <2>4. CASE open
    <3>1. cockpit.door # "closing"
      <4>1. efb.door = 0 /\ ~(fenix.settling > 0)
        BY <1>1, <2>2, <2>4 DEF Fenix!DoorPositionOf, Positions
      <4>2. fenix.settling \in 0 .. SettleTicks /\ cockpit.shutsIn \in 0 .. SettleTicks
        BY <1>1 DEF Fenixes, Cockpits
      <4> QED
        BY <1>1, <4>1, <4>2, FenixConstants DEF FenixInv, DoorIsFollowed, DoorIsRead
    <3>2. d = Fenix!DoorCommanded(cockpit, TRUE)
      BY <2>4, Zenon
    <3>3. LoadIsKept(cockpit, d) /\ DoorIsRead(d) /\ d.door # "closing"
      BY <1>1, <3>1, <3>2, DoorIsSentOpen
    <3> HIDE DEF d
    <3>4. efb' = efb /\ fenix' = fenix /\ cockpit' = d
      BY <1>2, <2>2, <3>3 DEF Fenix!Carried, FenixPairs
    <3> QED
      BY <1>1, <2>3, <3>3, <3>4
      DEF FenixInv, FenixTypes, DoorIsFollowed, CloseAllIsKnown, LoadsheetIsFinal, LoadIsKept
  <2>5. CASE ~open
    <3>1. efb.door = 1
      <4>1. ~(efb.door = 0) /\ efb.door # Fenix!Unanswered
        BY <1>1, <2>2, <2>5 DEF Fenix!DoorPositionOf
      <4> QED
        BY <1>1, <4>1 DEF Positions
    <3>2. d = Fenix!DoorCommanded(cockpit, FALSE)
      BY <2>5, Zenon
    <3>3. LoadIsKept(cockpit, d) /\ DoorIsRead(d)
      BY <1>1, <3>2, DoorIsSentShut
    <3> HIDE DEF d
    <3>4. efb' = efb /\ fenix' = fenix /\ cockpit' = d
      BY <1>2, <2>2, <3>3 DEF Fenix!Carried, FenixPairs
    <3>5. 1 # Fenix!Unanswered
      BY DEF Fenix!Unanswered
    <3> QED
      BY <1>1, <2>3, <3>1, <3>3, <3>4, <3>5
      DEF FenixInv, FenixTypes, DoorIsFollowed, CloseAllIsKnown, LoadsheetIsFinal, LoadIsKept
  <2> QED
    BY <2>4, <2>5
<1>8. CASE \E held \in BOOLEAN :
      Fenix!Carried([Fenix!HoldDoorsClosed(held) EXCEPT !.cockpit.held = held])
  <2>1. PICK held \in BOOLEAN :
        Fenix!Carried([Fenix!HoldDoorsClosed(held) EXCEPT !.cockpit.held = held])
    BY <1>8
  <2> DEFINE f == [fenix EXCEPT !.bulkArmed = held]
             v == [Fenix!Now EXCEPT !.fenix = f]
             w == Fenix!HoldDoorsClosed(held)
  <2>2. FenixIsKept(fenix, f) /\ f \in Fenixes
    BY <1>1 DEF FenixIsKept, Fenixes
  <2>3. w = Fenix!CloseTheBulkDoorWhenItReadsOpen(v)
    <3>1. [Fenix!Now EXCEPT !.fenix.bulkArmed = held] = v
      BY <1>2
    <3> HIDE DEF v
    <3> QED
      BY <3>1 DEF Fenix!HoldDoorsClosed
  <2> HIDE DEF f, w
  <2>4. v \in FenixPairs /\ v.fenix = f /\ v.cockpit = cockpit
    BY <1>2, <2>2 DEF FenixPairs
  <2> HIDE DEF v
  <2>5. w \in FenixPairs /\ FenixIsKept(f, w.fenix) /\ CockpitIsKept(cockpit, w.cockpit)
    BY <2>3, <2>4, WaitingIsApplied
  <2>6. efb' = efb /\ fenix' = w.fenix /\ cockpit' = [w.cockpit EXCEPT !.held = held]
    BY <2>1, <2>5 DEF Fenix!Carried, FenixPairs, w
  <2>7. CockpitIsKept(cockpit, cockpit')
    BY <2>5, <2>6 DEF CockpitIsKept, LoadIsKept, Cockpits
  <2>8. FenixIsKept(fenix, fenix')
    BY <2>2, <2>5, <2>6 DEF FenixIsKept
  <2> QED
    BY <1>4, <2>6, <2>7, <2>8
<1>9. CASE Fenix!Carried(Fenix!OnLoadingStarted)
  <2> DEFINE f == [fenix EXCEPT !.finalAsked = FALSE]
             c == [cockpit EXCEPT !.finals = 0, !.loading = "on"]
  <2>1. /\ f \in Fenixes /\ f.settling = fenix.settling /\ f.lastDoor = fenix.lastDoor
        /\ f.closeAllPending = fenix.closeAllPending
    BY <1>1 DEF Fenixes
  <2>2. /\ c \in Cockpits /\ c.finals = 0 /\ c.door = cockpit.door /\ c.shutsIn = cockpit.shutsIn
        /\ c.reading = cockpit.reading /\ c.closing = cockpit.closing
    BY <1>1 DEF Cockpits
  <2>3. Fenix!OnLoadingStarted = [Fenix!Now EXCEPT !.fenix = f, !.cockpit = c]
    BY <1>2 DEF Fenix!OnLoadingStarted, FenixPairs
  <2> HIDE DEF f, c
  <2>4. efb' = efb /\ fenix' = f /\ cockpit' = c
    BY <1>2, <1>9, <2>1, <2>2, <2>3 DEF Fenix!Carried, FenixPairs
  <2> QED
    BY <1>1, <2>1, <2>2, <2>4
    DEF FenixInv, FenixTypes, DoorIsFollowed, CloseAllIsKnown, LoadsheetIsFinal, DoorIsRead
<1>10. CASE \E zfw \in cockpit.seats .. FullZfw : Fenix!Carried(Fenix!SetCurrentZfw(zfw))
  <2>1. PICK zfw \in cockpit.seats .. FullZfw : Fenix!Carried(Fenix!SetCurrentZfw(zfw))
    BY <1>10
  <2>2. cockpit.seats \in 0 .. FullZfw /\ zfw \in 0 .. FullZfw /\ zfw \in Int
        /\ (zfw >= FullZfw => zfw = FullZfw) /\ cockpit.finals \in {0, 1}
        /\ (cockpit.seats = FullZfw => zfw = FullZfw)
    <3>1. cockpit.seats \in 0 .. FullZfw /\ cockpit.finals \in {0, 1}
      BY <1>1 DEF Cockpits
    <3> QED
      BY <3>1, FenixConstants
  <2> DEFINE isFinal == Fenix!MaybeRequestFinalLoadsheet(fenix, zfw)
             asked == fenix.finalAsked \/ isFinal
             f == [fenix EXCEPT !.lastZfw = zfw, !.finalAsked = asked]
             c == Fenix!Written(cockpit, "seats", zfw)
             d == [c EXCEPT !.finals = c.finals + 1]
  <2>3. asked \in BOOLEAN
    BY <1>1 DEF Fenixes
  <2>4. isFinal => asked /\ ~fenix.finalAsked /\ zfw = FullZfw
    BY <2>2 DEF Fenix!MaybeRequestFinalLoadsheet
  <2>5. fenix.finalAsked => asked
    OBVIOUS
  <2>6. \/ Fenix!SetCurrentZfw(zfw) = Fenix!Now
        \/ Fenix!SetCurrentZfw(zfw) = [fenix |-> f, cockpit |-> d] /\ isFinal /\ cockpit.up
        \/ Fenix!SetCurrentZfw(zfw) = [fenix |-> f, cockpit |-> c] /\ ~(isFinal /\ cockpit.up)
    BY DEF Fenix!SetCurrentZfw
  <2> HIDE DEF isFinal, asked
  <2>7. /\ f \in Fenixes /\ f.settling = fenix.settling /\ f.lastDoor = fenix.lastDoor
        /\ f.closeAllPending = fenix.closeAllPending /\ f.finalAsked = asked
    BY <1>1, <2>2, <2>3 DEF Fenixes
  <2>8. /\ c \in Cockpits /\ c.finals = cockpit.finals /\ c.door = cockpit.door
        /\ c.shutsIn = cockpit.shutsIn /\ c.reading = cockpit.reading
        /\ c.closing = cockpit.closing
        /\ c.seats = (IF cockpit.up THEN zfw ELSE cockpit.seats)
    <3>1. CASE ~cockpit.up
      <4>1. c = [cockpit EXCEPT !.lost = TRUE]
        BY <3>1 DEF Fenix!Written
      <4> HIDE DEF c
      <4> QED
        BY <1>1, <3>1, <4>1 DEF Cockpits
    <3>2. CASE cockpit.up
      <4>1. c = [cockpit EXCEPT !.seats = zfw]
        BY <3>2 DEF Fenix!Written
      <4> HIDE DEF c
      <4> QED
        BY <1>1, <2>2, <3>2, <4>1 DEF Cockpits
    <3> QED
      BY <3>1, <3>2
  <2> HIDE DEF f, c
  <2>9. CASE Fenix!SetCurrentZfw(zfw) = Fenix!Now
    <3>1. efb' = efb /\ fenix' = fenix /\ cockpit' = cockpit
      BY <1>2, <2>1, <2>9 DEF Fenix!Carried
    <3> QED
      BY <1>3, <1>4, <3>1
  <2>10. CASE Fenix!SetCurrentZfw(zfw) = [fenix |-> f, cockpit |-> d] /\ isFinal /\ cockpit.up
    <3>1. cockpit.finals = 0
      BY <2>2, <2>4, <2>10 DEF FenixInv, LoadsheetIsFinal
    <3>2. c.finals + 1 = 1
      BY <2>8, <3>1
    <3>3. /\ d \in Cockpits /\ d.door = c.door /\ d.shutsIn = c.shutsIn /\ d.seats = c.seats
          /\ d.reading = c.reading /\ d.closing = c.closing
      BY <2>8, <3>2 DEF Cockpits
    <3> HIDE DEF d
    <3>4. efb' = efb /\ fenix' = f /\ cockpit' = d
      BY <2>1, <2>10 DEF Fenix!Carried
    <3>5. LoadsheetIsFinal'
      BY <2>4, <2>7, <2>8, <2>10, <3>3, <3>4 DEF LoadsheetIsFinal
    <3> QED
      BY <1>1, <2>7, <2>8, <3>3, <3>4, <3>5
      DEF FenixInv, FenixTypes, DoorIsFollowed, CloseAllIsKnown, DoorIsRead
  <2>11. CASE Fenix!SetCurrentZfw(zfw) = [fenix |-> f, cockpit |-> c]
    <3>1. efb' = efb /\ fenix' = f /\ cockpit' = c
      BY <2>1, <2>11 DEF Fenix!Carried
    <3>2. LoadsheetIsFinal'
      BY <2>2, <2>5, <2>7, <2>8, <3>1 DEF FenixInv, LoadsheetIsFinal
    <3> QED
      BY <1>1, <2>7, <2>8, <3>1, <3>2
      DEF FenixInv, FenixTypes, DoorIsFollowed, CloseAllIsKnown, DoorIsRead
  <2> QED
    BY <2>6, <2>9, <2>10, <2>11
<1> QED
  BY <1>5, <1>6, <1>7, <1>8, <1>9, <1>10 DEF Fenix!AsksOfTheDoors, Fenix!AsksOfTheLoading

\* The replies, the EFB that goes and comes, and the relaunch.
LEMMA TheEfbKeepsTheFenix ==
  ASSUME FenixInv,
         Fenix!Relaunch \/ Fenix!OnPollFinished \/ Fenix!OnSettingsFinished \/ Fenix!EfbGoesAway
           \/ Fenix!EfbComesBack
           \/ Fenix!PilotOpensTheBulkDoor
  PROVE  FenixInv'
<1>1. /\ efb \in EfbClients /\ fenix \in Fenixes /\ cockpit \in Cockpits /\ DoorIsRead(cockpit)
      /\ efb.door \in Positions /\ cockpit.faults + 1 \in Nat /\ cockpit.reading \in {0, 1}
      /\ efb.failures \in 0 .. 2 /\ cockpit.bulk \in {0, 1} /\ cockpit.finals \in {0, 1}
      /\ cockpit.major \in {2, 3}
  BY DEF FenixInv, FenixTypes, EfbClients, Cockpits
<1>2. FenixIsKept(fenix, fenix) /\ CockpitIsKept(cockpit, cockpit)
  BY <1>1, WritesKeepTheDoor DEF FenixIsKept
<1>3. CockpitIsKept(cockpit, Fenix!FaultOf(cockpit))
  BY <1>1 DEF Fenix!FaultOf, CockpitIsKept, LoadIsKept, Cockpits
<1>4. ASSUME fenix' = fenix, CockpitIsKept(cockpit, cockpit'), efb' \in EfbClients,
             efb'.door = efb.door, efb'.polling => efb.polling,
             efb'.available => efb.available /\ efb'.failures < 2
      PROVE  FenixInv'
  BY <1>1, <1>4
  DEF FenixInv, FenixTypes, DoorIsFollowed, CloseAllIsKnown, LoadsheetIsFinal,
      CockpitIsKept, LoadIsKept, DoorIsRead
<1>5. CASE Fenix!Relaunch
  <2>1. /\ efb' = Fenix!NewEfb /\ fenix' = Fenix!NewFenix(cockpit.finals > 0)
             /\ cockpit' = Fenix!FaultOf(cockpit)
        /\ cockpit.shutsIn = 0
    BY <1>5 DEF Fenix!Relaunch
  <2>2. Fenix!NewEfb \in EfbClients /\ ~Fenix!NewEfb.polling /\ ~Fenix!NewEfb.available
    BY FenixConstants DEF Fenix!NewEfb, EfbClients, Positions
  <2> DEFINE finished == cockpit.finals > 0
  <2>3. finished \in BOOLEAN /\ (cockpit.finals = 1 => finished) /\ Fenix!Unanswered \in Int
    BY <1>1 DEF Fenix!Unanswered
  <2> HIDE DEF finished
  <2>4. /\ fenix' \in Fenixes /\ fenix'.finalAsked = finished /\ ~fenix'.closeAllPending
    <3>1. fenix' = Fenix!NewFenix(finished) /\ 0 \in 0 .. SettleTicks
      BY <2>1, FenixConstants DEF finished
    <3> QED
      BY <2>3, <3>1 DEF Fenix!NewFenix, Fenixes, Positions
  <2>5. cockpit.door # "closing"
    BY <1>1, <2>1 DEF DoorIsRead
  <2> QED
    BY <1>1, <1>3, <2>1, <2>2, <2>3, <2>4, <2>5
    DEF FenixInv, FenixTypes, DoorIsFollowed, CloseAllIsKnown, LoadsheetIsFinal,
        CockpitIsKept, LoadIsKept, DoorIsRead
<1>6. CASE Fenix!OnPollFinished
  <2>1. CASE efb' = Fenix!Succeeded(efb) /\ cockpit' = cockpit
    <3> DEFINE reading == cockpit.reading
               bulk == cockpit.bulk
    <3>1. efb' = [efb EXCEPT !.polling = FALSE, !.failures = 0, !.available = TRUE,
                             !.door = reading, !.bulk = bulk]
      BY <2>1 DEF Fenix!Succeeded
    <3>2. reading \in {0, 1} /\ bulk \in {0, 1} /\ 0 # Fenix!Unanswered /\ 1 # Fenix!Unanswered
      BY <1>1 DEF Fenix!Unanswered
    <3>3. reading = cockpit.reading
      OBVIOUS
    <3> HIDE DEF reading, bulk
    <3>4. /\ efb' \in EfbClients /\ ~efb'.polling /\ efb'.failures = 0 /\ efb'.door = reading
      <4>1. reading \in Positions /\ bulk \in Positions /\ 0 \in 0 .. 2
        BY <3>2 DEF Positions
      <4> QED
        BY <1>1, <3>1, <4>1 DEF EfbClients
    <3>5. fenix' = fenix /\ efb.polling /\ fenix.lastDoor = efb.door
      BY <1>6 DEF Fenix!OnPollFinished, FenixInv, DoorIsFollowed
    <3>6. cockpit.door = "closing" => fenix.lastDoor > 0 \/ fenix.settling >= cockpit.shutsIn
      BY <1>1, <3>5 DEF FenixInv, DoorIsFollowed, Positions
    <3>7. cockpit.door = "open" => reading = 1
      BY <1>1, <3>3 DEF DoorIsRead
    <3>8. DoorIsFollowed'
      BY <2>1, <3>2, <3>4, <3>5, <3>6 DEF DoorIsFollowed
    <3>9. CloseAllIsKnown' /\ LoadsheetIsFinal'
      BY <2>1, <3>4, <3>5, <3>7 DEF FenixInv, CloseAllIsKnown, LoadsheetIsFinal
    <3>10. FenixTypes'
      BY <1>1, <2>1, <3>2, <3>4, <3>5 DEF FenixTypes, DoorIsRead
    <3> QED
      BY <3>8, <3>9, <3>10 DEF FenixInv
  <2>2. CASE efb' = Fenix!Failed(efb) /\ cockpit' \in {cockpit, Fenix!FaultOf(cockpit)}
    <3> DEFINE failures == IF efb.failures < 2 THEN efb.failures + 1 ELSE efb.failures
               available == efb.available /\ efb.failures = 0
    <3>1. efb' = [efb EXCEPT !.polling = FALSE, !.failures = failures, !.available = available]
      BY <2>2 DEF Fenix!Failed
    <3>2. failures \in 0 .. 2 /\ available \in BOOLEAN
          /\ (available => efb.available /\ failures < 2)
      BY <1>1 DEF EfbClients
    <3> HIDE DEF failures, available
    <3>3. /\ efb' \in EfbClients /\ ~efb'.polling /\ efb'.failures = failures
          /\ efb'.available = available /\ efb'.door = efb.door
      BY <1>1, <3>1, <3>2 DEF EfbClients
    <3>4. fenix' = fenix
      BY <1>6 DEF Fenix!OnPollFinished
    <3> QED
      BY <1>2, <1>3, <1>4, <2>2, <3>2, <3>3, <3>4
  <2> QED
    BY <1>6, <2>1, <2>2 DEF Fenix!OnPollFinished
<1>7. CASE Fenix!OnSettingsFinished
  <2> DEFINE major == IF cockpit.up THEN cockpit.major ELSE efb.major
  <2>1. efb' = [efb EXCEPT !.settings = Fenix!None, !.major = major]
    BY <1>7 DEF Fenix!OnSettingsFinished
  <2>2. major \in {0, 2, 3}
    BY <1>1 DEF EfbClients
  <2> HIDE DEF major
  <2>3. /\ efb' \in EfbClients /\ efb'.polling = efb.polling /\ efb'.failures = efb.failures
        /\ efb'.available = efb.available /\ efb'.door = efb.door
    BY <1>1, <2>1, <2>2 DEF EfbClients
  <2>4. efb.available => efb.failures < 2
    BY DEF FenixInv, FenixTypes
  <2>5. fenix' = fenix /\ cockpit' = cockpit
    BY <1>7 DEF Fenix!OnSettingsFinished
  <2> QED
    BY <1>2, <1>4, <2>3, <2>4, <2>5
<1>8. CASE Fenix!EfbGoesAway \/ Fenix!EfbComesBack \/ Fenix!PilotOpensTheBulkDoor
  <2>1. efb' = efb /\ fenix' = fenix
        /\ \/ cockpit' = [Fenix!FaultOf(cockpit) EXCEPT !.up = FALSE]
           \/ cockpit' = [cockpit EXCEPT !.up = TRUE, !.automation = TRUE]
           \/ cockpit' = [cockpit EXCEPT !.bulk = 1]
    BY <1>8 DEF Fenix!EfbGoesAway, Fenix!EfbComesBack, Fenix!PilotOpensTheBulkDoor
  <2>2. CockpitIsKept(cockpit, cockpit')
    <3>1. CASE cockpit' = [Fenix!FaultOf(cockpit) EXCEPT !.up = FALSE]
      BY <1>3, <3>1 DEF CockpitIsKept, LoadIsKept, Cockpits
    <3>2. CASE \/ cockpit' = [cockpit EXCEPT !.up = TRUE, !.automation = TRUE]
               \/ cockpit' = [cockpit EXCEPT !.bulk = 1]
      BY <1>1, <3>2 DEF CockpitIsKept, LoadIsKept, Cockpits
    <3> QED
      BY <2>1, <3>1, <3>2
  <2>3. efb.available => efb.failures < 2
    BY DEF FenixInv, FenixTypes
  <2> QED
    BY <1>1, <1>4, <2>1, <2>2, <2>3
<1> QED
  BY <1>5, <1>6, <1>7, <1>8

(***************************************************************************)
(* A door of the Fenix that still moves is not taken for shut, and a       *)
(* loading has one final loadsheet, with everyone on board, over replies   *)
(* that fail, an EFB that goes away and relaunches (FenixA32x,             *)
(* FenixEfbClient).                                                        *)
(***************************************************************************)
THEOREM FenixHolds ==
  Fenix!Spec =>
    [](Fenix!TypeOK /\ Fenix!ClosedDoorsAreShut /\ Fenix!OneFinalLoadsheet)
<1>1. Fenix!Init => FenixInv
  <2> SUFFICES ASSUME Fenix!Init PROVE FenixInv
    OBVIOUS
  <2>1. /\ 0 \in 0 .. SettleTicks /\ 0 \in 0 .. SettingsEvery - 1 /\ 0 \in 0 .. FullZfw
        /\ Fenix!Unanswered \in Int /\ 0 # 1 /\ ~(0 > 0)
    BY FenixConstants DEF Fenix!Unanswered
  <2>2. efb \in EfbClients /\ ~efb.polling /\ ~efb.available
    BY <2>1 DEF Fenix!Init, Fenix!NewEfb, EfbClients, Positions
  <2>3. fenix \in Fenixes /\ ~fenix.closeAllPending
    BY <2>1 DEF Fenix!Init, Fenix!NewFenix, Fenixes, Positions
  <2>4. /\ cockpit \in Cockpits /\ cockpit.door = "closed" /\ cockpit.reading = 0
        /\ cockpit.shutsIn = 0 /\ cockpit.finals = 0
    <3>1. PICK bulk \in {0, 1}, major \in {2, 3} :
            cockpit = [up |-> TRUE, power |-> "off", askedPower |-> "off", automation |-> TRUE,
                       door |-> "closed", reading |-> 0, shutsIn |-> 0, closing |-> FALSE,
                       bulk |-> bulk, held |-> FALSE, loading |-> "off", seats |-> 0,
                       finals |-> 0, major |-> major, lost |-> FALSE, faults |-> 0]
      BY DEF Fenix!Init
    <3> QED
      BY <2>1, <3>1 DEF Cockpits
  <2> QED
    BY <2>1, <2>2, <2>3, <2>4
    DEF FenixInv, FenixTypes, DoorIsFollowed, CloseAllIsKnown, LoadsheetIsFinal, DoorIsRead
<1>2. FenixInv /\ [Fenix!Next]_(Fenix!fenixVars) => FenixInv'
  <2> SUFFICES ASSUME FenixInv, [Fenix!Next]_(Fenix!fenixVars) PROVE FenixInv'
    OBVIOUS
  <2>1. CASE Fenix!Next
    BY <2>1, ObserveKeepsTheFenix, AskingKeepsTheFenix, TheEfbKeepsTheFenix
    DEF Fenix!Next, Fenix!DoorsNext, Fenix!LoadingNext, Fenix!Anyway
  <2>2. CASE UNCHANGED Fenix!fenixVars
    BY <2>2
    DEF Fenix!fenixVars, FenixInv, FenixTypes, DoorIsFollowed, CloseAllIsKnown, LoadsheetIsFinal,
        DoorIsRead
  <2> QED
    BY <2>1, <2>2
<1>3. FenixInv => Fenix!TypeOK /\ Fenix!ClosedDoorsAreShut /\ Fenix!OneFinalLoadsheet
  <2> SUFFICES ASSUME FenixInv PROVE Fenix!TypeOK /\ Fenix!ClosedDoorsAreShut
                        /\ Fenix!OneFinalLoadsheet
    OBVIOUS
  <2>1. efb \in EfbClients /\ fenix \in Fenixes /\ cockpit \in Cockpits /\ DoorIsRead(cockpit)
    BY DEF FenixInv, FenixTypes
  <2>2. Fenix!TypeOK
    BY <2>1 DEF FenixInv, FenixTypes, Fenix!TypeOK, EfbClients, Fenixes, Cockpits, DoorIsRead
  <2>3. Fenix!ClosedDoorsAreShut
    <3> SUFFICES ASSUME efb.polling, Fenix!DoorPositionOf = "closed", cockpit.door = "closing"
                 PROVE  FALSE
      BY DEF Fenix!ClosedDoorsAreShut
    <3>1. efb.door = 0 /\ ~(fenix.settling > 0)
      BY <2>1 DEF Fenix!DoorPositionOf, EfbClients, Positions
    <3>2. fenix.settling \in 0 .. SettleTicks /\ cockpit.shutsIn \in 0 .. SettleTicks
      BY <2>1 DEF Fenixes, Cockpits
    <3> QED
      BY <2>1, <3>1, <3>2, FenixConstants DEF FenixInv, DoorIsFollowed, DoorIsRead
  <2>4. Fenix!OneFinalLoadsheet
    BY <2>1 DEF FenixInv, LoadsheetIsFinal, Fenix!OneFinalLoadsheet, Cockpits
  <2> QED
    BY <2>2, <2>3, <2>4
<1> QED
  BY <1>1, <1>2, <1>3, PTL DEF Fenix!Spec

-----------------------------------------------------------------------------
(***************************************************************************)
(* The variables of the simulator.                                         *)
(* Every refusal is one of a time the variable was asked for; what is held *)
(* is what came in this connection, and its span is that of the samples    *)
(* since it was taken last.                                                *)
(***************************************************************************)
\* What the constants are taken to be here.
LEMMA SimVariableConstants ==
  SimValues \subseteq Int /\ MaxRetries \in Nat /\ MaxDelay \in Nat /\ VariableMessages \in Nat
BY HostConstants DEF SimValues

VariableSlots == [registered : BOOLEAN, ids : BOOLEAN, pending : BOOLEAN, wait : 0 .. MaxDelay,
                  rejections : 0 .. MaxRetries + 1, received : BOOLEAN, value : Int, min : Int,
                  max : Int, marked : BOOLEAN, tickValue : Int, changed : BOOLEAN]
Packets == [kind : {"value", "exception"}, value : Int, mine : BOOLEAN]
Simulators == [attached : BOOLEAN, exists : BOOLEAN, value : SimValues, told : BOOLEAN,
               shown : Int, wire : Seq(Packets)]
Sights == [here : SUBSET Int, since : SUBSET Int, attempts : Nat, fast : BOOLEAN, faults : Int]

VariableTypes ==
  slot \in VariableSlots /\ sim \in Simulators /\ Len(sim.wire) <= VariableMessages + 2
    /\ seen \in Sights

TriesOf(s) == IF s.ids THEN s.rejections + 1 ELSE s.rejections
TriesAreCounted(s, n) ==
  /\ TriesOf(s) <= n
  /\ s.pending => ~s.registered /\ ~s.ids /\ s.rejections > 0 /\ s.rejections <= MaxRetries

SamplesAreHeld(s, here, since) ==
  /\ ~s.received => since = {}
  /\ s.received =>
       /\ s.value \in here
       /\ s.min <= s.value /\ s.value <= s.max
       /\ \A v \in since : s.min <= v /\ v <= s.max
       /\ s.min \in since /\ s.max \in since

VariableInv ==
  /\ VariableTypes
  /\ TriesAreCounted(slot, seen.attempts)
  /\ SamplesAreHeld(slot, seen.here, seen.since)

\* A slot that is registered has identifiers to be refused for.
LEMMA SlotsAreRegistered ==
  ASSUME NEW s \in VariableSlots, NEW t, t = Variables!RegisterSlot(s)
  PROVE  /\ t \in VariableSlots /\ t.registered /\ t.pending = s.pending
              /\ t.rejections = s.rejections
         /\ t.received = s.received /\ t.value = s.value /\ t.min = s.min /\ t.max = s.max
         /\ ~s.registered => t.ids
         /\ s.registered => t = s
BY DEF Variables!RegisterSlot, VariableSlots

\* A retry starts over, with what was read.
LEMMA RetriesAreClean ==
  ASSUME NEW s \in VariableSlots, NEW t, t = Variables!CleanRetry(s)
  PROVE  /\ t \in VariableSlots /\ t.registered = s.registered /\ ~t.pending /\ ~t.ids
         /\ t.rejections = 0
         /\ t.received = s.received /\ t.value = s.value /\ t.min = s.min /\ t.max = s.max
<1>1. 0 \in 0 .. MaxDelay /\ 0 \in 0 .. MaxRetries + 1
  BY SimVariableConstants
<1> QED
  BY <1>1 DEF Variables!CleanRetry, VariableSlots

\* A new connection knows no slot.
LEMMA SlotsAreForgotten ==
  ASSUME NEW s \in VariableSlots, NEW t, t = Variables!Forgotten(s)
  PROVE  /\ t \in VariableSlots /\ ~t.registered /\ ~t.pending /\ ~t.ids /\ t.rejections = 0
         /\ ~t.received
<1> DEFINE c == Variables!CleanRetry(s)
<1>1. c \in VariableSlots /\ ~c.pending /\ ~c.ids /\ c.rejections = 0
  BY RetriesAreClean
<1>2. t = [c EXCEPT !.registered = FALSE, !.received = FALSE, !.marked = FALSE,
                    !.changed = TRUE]
  BY DEF Variables!Forgotten
<1> HIDE DEF c
<1> QED
  BY <1>1, <1>2 DEF VariableSlots

\* A sample widens the span to hold itself.
LEMMA SamplesAreStored ==
  ASSUME NEW s \in VariableSlots, NEW v \in Int, NEW here, NEW since,
         SamplesAreHeld(s, here, since),
         since \subseteq Int, NEW t, t = Variables!StoreSample(s, v)
  PROVE  /\ t \in VariableSlots /\ t.registered = s.registered /\ t.received
         /\ SamplesAreHeld(t, here \union {v}, since \union {v})
<1> DEFINE min == IF s.received THEN Variables!Least(s.min, v) ELSE v
           max == IF s.received THEN Variables!Most(s.max, v) ELSE v
<1>1. s.min \in Int /\ s.max \in Int
  BY DEF VariableSlots
<1>2. /\ min \in Int /\ max \in Int /\ min <= v /\ v <= max
      /\ s.received => min <= s.min /\ s.max <= max /\ min \in {s.min, v} /\ max \in {s.max, v}
      /\ ~s.received => min = v /\ max = v
  BY <1>1 DEF Variables!Least, Variables!Most
<1>3. t = [[s EXCEPT !.min = min, !.max = max] EXCEPT !.value = v, !.received = TRUE]
  BY DEF Variables!StoreSample, Variables!Spanned
<1> HIDE DEF min, max
<1>4. /\ t \in VariableSlots /\ t.registered = s.registered /\ t.received
      /\ t.value = v /\ t.min = min /\ t.max = max
  BY <1>2, <1>3 DEF VariableSlots
<1>5. \A x \in since \union {v} : min <= x /\ x <= max
  <2> SUFFICES ASSUME NEW x \in since PROVE min <= x /\ x <= max
    BY <1>2
  <2>1. s.received /\ s.min <= x /\ x <= s.max /\ x \in Int
    BY DEF SamplesAreHeld
  <2> QED
    BY <1>1, <1>2, <2>1
<1>6. min \in since \union {v} /\ max \in since \union {v}
  BY <1>2 DEF SamplesAreHeld
<1> QED
  BY <1>2, <1>4, <1>5, <1>6 DEF SamplesAreHeld

\* A refusal gives up its time of asking, and waits for the next.
LEMMA RefusalsAreScheduled ==
  ASSUME NEW s \in VariableSlots, NEW n \in Nat, s.ids, TriesAreCounted(s, n), NEW t,
         t = Variables!RejectSlot(s)
  PROVE  t \in VariableSlots /\ TriesAreCounted(t, n) /\ t.received = s.received
           /\ t.value = s.value
         /\ t.min = s.min /\ t.max = s.max
<1> DEFINE u == [s EXCEPT !.registered = FALSE, !.ids = FALSE]
           more == s.rejections + 1
           delay == Variables!RetryDelay(more)
<1>1. /\ u \in VariableSlots /\ u.rejections = s.rejections /\ u.received = s.received
      /\ u.value = s.value /\ u.min = s.min /\ u.max = s.max /\ ~u.ids /\ ~u.registered
  BY DEF VariableSlots
<1>2. s.rejections \in 0 .. MaxRetries + 1 /\ more <= n
  BY DEF VariableSlots, TriesAreCounted, TriesOf
<1>3. t = Variables!ScheduleRetry(u)
  BY DEF Variables!RejectSlot
<1>4. delay \in 0 .. MaxDelay
  BY SimVariableConstants DEF Variables!RetryDelay
<1> HIDE DEF u, delay
<1>5. CASE more > MaxRetries
  <2>1. /\ MaxRetries + 1 \in 0 .. MaxRetries + 1 /\ MaxRetries + 1 <= n
    BY <1>2, <1>5, SimVariableConstants
  <2> DEFINE last == MaxRetries + 1
  <2>2. t = [u EXCEPT !.rejections = last, !.pending = FALSE]
    BY <1>1, <1>3, <1>5 DEF Variables!ScheduleRetry
  <2>3. last \in 0 .. MaxRetries + 1 /\ last <= n
    BY <2>1
  <2> HIDE DEF last
  <2> QED
    BY <1>1, <2>2, <2>3 DEF VariableSlots, TriesAreCounted, TriesOf
<1>6. CASE ~(more > MaxRetries)
  <2>1. t = [u EXCEPT !.rejections = more, !.pending = TRUE, !.wait = delay]
    BY <1>1, <1>3, <1>6 DEF Variables!ScheduleRetry, delay
  <2>2. more \in 0 .. MaxRetries + 1 /\ more > 0 /\ more <= MaxRetries
    BY <1>2, <1>6, SimVariableConstants
  <2> HIDE DEF more
  <2> QED
    BY <1>1, <1>2, <1>4, <2>1, <2>2 DEF VariableSlots, TriesAreCounted, TriesOf
<1> QED
  BY <1>5, <1>6

\* What the simulator answers is two messages at most.
LEMMA AnswersAreTyped ==
  ASSUME sim \in Simulators
  PROVE  Variables!Answer \in Seq(Packets) /\ Len(Variables!Answer) <= 2
<1>1. sim.value \in Int
  BY SimVariableConstants DEF Simulators
<1> DEFINE v == Variables!Value(sim.value)
           e == Variables!Exception
<1>2. v \in Packets
  BY <1>1 DEF Variables!Value, Packets
<1>3. e \in Packets
  BY DEF Variables!Exception, Packets
<1>4. Variables!Answer = <<v>> \/ Variables!Answer = <<e, e>>
  BY DEF Variables!Answer
<1> HIDE DEF v, e
<1>5. <<v>> \in Seq(Packets) /\ Len(<<v>>) = 1
  BY <1>2
<1>6. <<e, e>> \in Seq(Packets) /\ Len(<<e, e>>) = 2
  BY <1>3
<1>7. CASE Variables!Answer = <<v>>
  <2>1. 1 <= 2
    OBVIOUS
  <2> QED
    BY <1>5, <1>7, <2>1, Zenon
<1>8. CASE Variables!Answer = <<e, e>>
  <2>1. 2 <= 2
    OBVIOUS
  <2> QED
    BY <1>6, <1>8, <2>1, Zenon
<1> QED
  BY <1>4, <1>7, <1>8

\* Asking puts the answer behind what is under way.
LEMMA SlotsAreAskedFor ==
  ASSUME sim \in Simulators, NEW w \in Seq(Packets), NEW t, t = Variables!Asked(w)
  PROVE  /\ t \in Simulators /\ Len(t.wire) <= Len(w) + 2 /\ t.attached = sim.attached
<1> DEFINE old == [i \in 1 .. Len(w) |-> Variables!OfAnEarlierAttempt(w[i])]
           wire == old \o Variables!Answer
           told == sim.exists
           shown == sim.value
<1>1. ASSUME NEW m \in Packets PROVE Variables!OfAnEarlierAttempt(m) \in Packets
  <2> DEFINE mine == m.kind = "value"
  <2>1. Variables!OfAnEarlierAttempt(m) = [m EXCEPT !.mine = mine] /\ mine \in BOOLEAN
    BY DEF Variables!OfAnEarlierAttempt
  <2> HIDE DEF mine
  <2> QED
    BY <1>1, <2>1 DEF Packets
<1>2. old \in Seq(Packets) /\ Len(old) = Len(w)
  BY <1>1
<1> HIDE DEF old
<1>3. Variables!Answer \in Seq(Packets) /\ Len(Variables!Answer) <= 2
  BY AnswersAreTyped
<1>4. wire \in Seq(Packets) /\ Len(wire) <= Len(w) + 2
  BY <1>2, <1>3
<1>5. t = [sim EXCEPT !.wire = wire, !.told = told, !.shown = shown]
  BY DEF Variables!Asked, old
<1>6. told \in BOOLEAN /\ shown \in Int
  BY SimVariableConstants DEF Simulators
<1> HIDE DEF wire, told, shown
<1> QED
  BY <1>4, <1>5, <1>6 DEF Simulators

\* Every step, one case for each.
LEMMA VariableIsKept ==
  ASSUME VariableInv, Variables!Next
  PROVE  VariableInv'
<1> DEFINE wire == sim.wire
<1>1. /\ slot \in VariableSlots /\ sim \in Simulators /\ seen \in Sights
      /\ Len(wire) \in Nat /\ Len(wire) <= VariableMessages + 2 /\ wire \in Seq(Packets)
      /\ seen.attempts \in Nat /\ seen.faults + 1 \in Int
      /\ seen.here \subseteq Int /\ seen.since \subseteq Int /\ sim.value \in Int
      /\ slot.rejections \in 0 .. MaxRetries + 1
      /\ TriesAreCounted(slot, seen.attempts)
      /\ SamplesAreHeld(slot, seen.here, seen.since)
  <2>1. /\ slot \in VariableSlots /\ sim \in Simulators /\ seen \in Sights
        /\ Len(wire) <= VariableMessages + 2 /\ TriesAreCounted(slot, seen.attempts)
        /\ SamplesAreHeld(slot, seen.here, seen.since)
    BY DEF VariableInv, VariableTypes
  <2>2. wire \in Seq(Packets) /\ sim.value \in Int
    BY <2>1, SimVariableConstants DEF Simulators
  <2>3. Len(wire) \in Nat
    <3> HIDE DEF wire
    <3> QED
      BY <2>2
  <2>4. /\ seen.attempts \in Nat /\ seen.faults + 1 \in Int
        /\ seen.here \subseteq Int /\ seen.since \subseteq Int
    BY <2>1 DEF Sights
  <2>5. slot.rejections \in 0 .. MaxRetries + 1
    BY <2>1 DEF VariableSlots
  <2> QED
    BY <2>1, <2>2, <2>3, <2>4, <2>5
<1>2. CASE Variables!Attach
  <2> DEFINE f == Variables!Forgotten(slot)
             w == << >>
             a == Variables!Asked(w)
  <2>1. /\ f \in VariableSlots /\ ~f.registered /\ ~f.pending /\ ~f.ids /\ f.rejections = 0
        /\ ~f.received
    BY <1>1, SlotsAreForgotten
  <2>2. /\ slot' = Variables!RegisterSlot(f) /\ sim' = [a EXCEPT !.attached = TRUE]
        /\ seen' = [seen EXCEPT !.here = {}, !.since = {}, !.attempts = 1]
    BY <1>2 DEF Variables!Attach
  <2> HIDE DEF f
  <2>3. slot' \in VariableSlots /\ ~slot'.pending /\ ~slot'.received /\ slot'.rejections = 0
    BY <2>1, <2>2, SlotsAreRegistered
  <2>4. w \in Seq(Packets) /\ Len(w) = 0
    OBVIOUS
  <2> HIDE DEF w
  <2>5. a \in Simulators /\ Len(a.wire) <= Len(w) + 2
    BY <1>1, <2>4, SlotsAreAskedFor
  <2> HIDE DEF a
  <2>6. sim' \in Simulators /\ Len(sim'.wire) <= VariableMessages + 2
    <3>1. a.wire \in Seq(Packets) /\ Len(a.wire) <= 0 + 2
      BY <2>4, <2>5 DEF Simulators
    <3>2. sim' \in Simulators /\ sim'.wire = a.wire
      BY <2>2, <2>5 DEF Simulators
    <3> DEFINE packets == a.wire
    <3>3. packets \in Seq(Packets) /\ Len(packets) <= 0 + 2 /\ sim'.wire = packets
      BY <3>1, <3>2
    <3> HIDE DEF packets
    <3> QED
      BY <3>2, <3>3, SimVariableConstants
  <2>7. seen' \in Sights /\ seen'.attempts = 1 /\ seen'.since = {}
    BY <1>1, <2>2 DEF Sights
  <2> QED
    BY <2>3, <2>6, <2>7
    DEF VariableInv, VariableTypes, TriesAreCounted, TriesOf, SamplesAreHeld
<1>3. CASE Variables!Detach
  <2>1. /\ slot' = Variables!Forgotten(slot)
        /\ seen' = [seen EXCEPT !.here = {}, !.since = {}, !.attempts = 0,
                                !.faults = seen.faults + 1]
    BY <1>3 DEF Variables!Detach
  <2>2. PICK v \in SimValues, known \in BOOLEAN :
          sim' = [sim EXCEPT !.attached = FALSE, !.wire = << >>, !.told = FALSE,
                             !.value = v, !.exists = known]
    BY <1>3 DEF Variables!Detach
  <2>3. slot' \in VariableSlots /\ ~slot'.pending /\ ~slot'.ids /\ slot'.rejections = 0
          /\ ~slot'.received
    BY <1>1, <2>1, SlotsAreForgotten
  <2>4. << >> \in Seq(Packets) /\ Len(<< >>) = 0
    OBVIOUS
  <2>5. sim' \in Simulators /\ Len(sim'.wire) <= VariableMessages + 2
    <3>1. sim' \in Simulators /\ sim'.wire = << >>
      BY <1>1, <2>2, <2>4 DEF Simulators
    <3> QED
      BY <2>4, <3>1, SimVariableConstants
  <2>6. seen' \in Sights /\ seen'.attempts = 0 /\ seen'.since = {}
    BY <1>1, <2>1 DEF Sights
  <2> QED
    BY <2>3, <2>5, <2>6
    DEF VariableInv, VariableTypes, TriesAreCounted, TriesOf, SamplesAreHeld
<1>4. CASE Variables!Dispatch
  <2> DEFINE m == Head(sim.wire)
             w == Tail(sim.wire)
  <2>1. sim.wire # << >> /\ Variables!Delivered(m) /\ sim' = [sim EXCEPT !.wire = w]
    BY <1>4 DEF Variables!Dispatch
  <2>2. m \in Packets /\ w \in Seq(Packets) /\ Len(w) <= VariableMessages + 2
    BY <1>1, <2>1, SimVariableConstants
  <2> HIDE DEF w, m
  <2>3. sim' \in Simulators /\ Len(sim'.wire) <= VariableMessages + 2
    BY <1>1, <2>1, <2>2 DEF Simulators
  <2>4. CASE m.kind = "value"
    <3> DEFINE v == m.value
               t == Variables!StoreSample(slot, v)
               here == seen.here \union {v}
               since == seen.since \union {v}
    <3>1. slot' = Variables!CleanRetry(t)
          /\ seen' = [seen EXCEPT !.here = here, !.since = since, !.attempts = 1]
      BY <2>1, <2>4 DEF Variables!Delivered
    <3>2. v \in Int
      BY <2>2 DEF Packets
    <3>3. t \in VariableSlots /\ t.received /\ SamplesAreHeld(t, here, since)
      <4> HIDE DEF v
      <4> QED
        BY <1>1, <3>2, SamplesAreStored
    <3>4. here \in SUBSET Int /\ since \in SUBSET Int
      BY <1>1, <3>2
    <3> HIDE DEF t, here, since, v
    <3>5. /\ slot' \in VariableSlots /\ ~slot'.pending /\ ~slot'.ids /\ slot'.rejections = 0
          /\ slot'.received = t.received /\ slot'.value = t.value
          /\ slot'.min = t.min /\ slot'.max = t.max
      BY <3>1, <3>3, RetriesAreClean
    <3>6. /\ seen' \in Sights /\ seen'.attempts = 1 /\ seen'.here = here /\ seen'.since = since
      BY <1>1, <3>1, <3>4 DEF Sights
    <3>7. SamplesAreHeld(slot', seen'.here, seen'.since)
      BY <3>3, <3>5, <3>6 DEF SamplesAreHeld
    <3> QED
      BY <2>3, <3>5, <3>6, <3>7 DEF VariableInv, VariableTypes, TriesAreCounted, TriesOf
  <2>5. CASE m.kind # "value" /\ slot.ids /\ slot' = Variables!RejectSlot(slot)
    <3>1. seen' = seen
      BY <2>1, <2>5 DEF Variables!Delivered
    <3>2. /\ slot' \in VariableSlots /\ TriesAreCounted(slot', seen.attempts)
          /\ slot'.received = slot.received /\ slot'.value = slot.value
          /\ slot'.min = slot.min /\ slot'.max = slot.max
      BY <1>1, <2>5, RefusalsAreScheduled
    <3>3. SamplesAreHeld(slot', seen.here, seen.since)
      BY <1>1, <3>2 DEF SamplesAreHeld
    <3> QED
      BY <1>1, <2>3, <3>1, <3>2, <3>3 DEF VariableInv, VariableTypes
  <2>6. CASE slot' = slot /\ seen' = seen
    BY <1>1, <2>3, <2>6 DEF VariableInv, VariableTypes
  <2> QED
    BY <2>1, <2>4, <2>5, <2>6 DEF Variables!Delivered, Variables!IsOfTheSlot
<1>5. CASE Variables!RetryRejected
  <2>1. /\ slot.pending /\ ~slot.registered /\ ~slot.ids /\ slot.rejections > 0
        /\ slot.rejections <= MaxRetries /\ slot.rejections <= seen.attempts
        /\ Len(sim.wire) < VariableMessages
    BY <1>1, <1>5 DEF Variables!RetryRejected, TriesAreCounted, TriesOf
  <2>2. CASE Variables!IsDue
    <3> DEFINE s == [slot EXCEPT !.pending = FALSE]
               attempts == IF seen.attempts <= MaxRetries THEN seen.attempts + 1
                           ELSE seen.attempts
    <3>1. /\ slot' = Variables!RegisterSlot(s) /\ sim' = Variables!Asked(sim.wire)
          /\ seen' = [seen EXCEPT !.attempts = attempts]
      BY <1>5, <2>1, <2>2 DEF Variables!RetryRejected
    <3>2. /\ s \in VariableSlots /\ ~s.registered /\ ~s.pending /\ s.rejections = slot.rejections
          /\ s.received = slot.received /\ s.value = slot.value /\ s.min = slot.min
          /\ s.max = slot.max
      BY <1>1, <2>1 DEF VariableSlots
    <3>3. attempts \in Nat /\ slot.rejections + 1 <= attempts
      BY <1>1, <2>1, SimVariableConstants
    <3> HIDE DEF s, attempts
    <3>4. /\ slot' \in VariableSlots /\ ~slot'.pending /\ slot'.ids
               /\ slot'.rejections = slot.rejections
          /\ slot'.received = slot.received /\ slot'.value = slot.value
          /\ slot'.min = slot.min /\ slot'.max = slot.max
      BY <3>1, <3>2, SlotsAreRegistered
    <3>5. sim' \in Simulators /\ Len(sim'.wire) <= Len(sim.wire) + 2
      BY <1>1, <3>1, SlotsAreAskedFor
    <3>6. /\ seen' \in Sights /\ seen'.attempts = attempts /\ seen'.here = seen.here
          /\ seen'.since = seen.since
      BY <1>1, <3>1, <3>3 DEF Sights
    <3>7. Len(sim'.wire) <= VariableMessages + 2
      <4>1. Len(sim'.wire) \in Nat
        BY <3>5 DEF Simulators
      <4> QED
        BY <1>1, <2>1, <3>5, <4>1, SimVariableConstants
    <3>8. SamplesAreHeld(slot', seen'.here, seen'.since)
      BY <1>1, <3>4, <3>6 DEF SamplesAreHeld
    <3>9. TriesAreCounted(slot', seen'.attempts)
      BY <3>3, <3>4, <3>6 DEF TriesAreCounted, TriesOf
    <3> QED
      BY <3>4, <3>5, <3>6, <3>7, <3>8, <3>9 DEF VariableInv, VariableTypes
  <2>3. CASE ~Variables!IsDue
    <3> DEFINE wait == slot.wait - 1
    <3>1. slot' = [slot EXCEPT !.wait = wait] /\ sim' = sim /\ seen' = seen
      BY <1>5, <2>3 DEF Variables!RetryRejected
    <3>2. wait \in 0 .. MaxDelay
      <4>1. slot.wait \in 0 .. MaxDelay /\ slot.wait # 0
        BY <1>1, <2>1, <2>3 DEF Variables!IsDue, VariableSlots
      <4> QED
        BY <4>1, SimVariableConstants
    <3> HIDE DEF wait
    <3> QED
      BY <1>1, <3>1, <3>2
      DEF VariableInv, VariableTypes, VariableSlots, TriesAreCounted, TriesOf, SamplesAreHeld
  <2> QED
    BY <2>2, <2>3
<1>6. CASE Variables!PromoteToFastRefresh
  <2> DEFINE c == Variables!CleanRetry(slot)
             s == [c EXCEPT !.registered = FALSE]
  <2>1. /\ slot' = Variables!RegisterSlot(s) /\ sim' = Variables!Asked(sim.wire)
             /\ Len(sim.wire) < VariableMessages
        /\ seen' = [seen EXCEPT !.fast = TRUE, !.attempts = 1]
    BY <1>6 DEF Variables!PromoteToFastRefresh
  <2>2. /\ c \in VariableSlots /\ ~c.pending /\ ~c.ids /\ c.rejections = 0
        /\ c.received = slot.received /\ c.value = slot.value /\ c.min = slot.min
        /\ c.max = slot.max
    BY <1>1, RetriesAreClean
  <2> HIDE DEF c
  <2>3. /\ s \in VariableSlots /\ ~s.pending /\ ~s.ids /\ s.rejections = 0 /\ ~s.registered
        /\ s.received = slot.received /\ s.value = slot.value /\ s.min = slot.min
        /\ s.max = slot.max
    BY <2>2 DEF VariableSlots
  <2> HIDE DEF s
  <2>4. /\ slot' \in VariableSlots /\ ~slot'.pending /\ slot'.ids /\ slot'.rejections = 0
        /\ slot'.received = slot.received /\ slot'.value = slot.value
        /\ slot'.min = slot.min /\ slot'.max = slot.max
    BY <2>1, <2>3, SlotsAreRegistered
  <2>5. sim' \in Simulators /\ Len(sim'.wire) <= Len(sim.wire) + 2
    BY <1>1, <2>1, SlotsAreAskedFor
  <2>6. /\ seen' \in Sights /\ seen'.attempts = 1 /\ seen'.here = seen.here
        /\ seen'.since = seen.since
    BY <1>1, <2>1 DEF Sights
  <2>7. Len(sim'.wire) <= VariableMessages + 2
    <3>1. Len(sim'.wire) \in Nat
      BY <2>5 DEF Simulators
    <3> QED
      BY <1>1, <2>1, <2>5, <3>1, SimVariableConstants
  <2>8. SamplesAreHeld(slot', seen'.here, seen'.since)
    BY <1>1, <2>4, <2>6 DEF SamplesAreHeld
  <2>9. TriesAreCounted(slot', seen'.attempts)
    BY <2>4, <2>6 DEF TriesAreCounted, TriesOf
  <2> QED
    BY <2>4, <2>5, <2>6, <2>7, <2>8, <2>9 DEF VariableInv, VariableTypes
<1>7. CASE Variables!Update
  <2> DEFINE changed == ~slot.marked \/ slot.value # slot.tickValue
             s == [slot EXCEPT !.changed = changed, !.tickValue = slot.value, !.marked = TRUE]
             since == IF slot.received THEN {slot.value} ELSE {}
  <2>1. slot' = Variables!Consumed(s) /\ seen' = [seen EXCEPT !.since = since] /\ sim' = sim
    BY <1>7 DEF Variables!Update, Variables!MarkTick
  <2>2. changed \in BOOLEAN /\ slot.value \in Int /\ since \in SUBSET Int
    BY <1>1 DEF VariableSlots
  <2> HIDE DEF changed, since
  <2>3. /\ s \in VariableSlots /\ s.pending = slot.pending /\ s.ids = slot.ids
        /\ s.rejections = slot.rejections /\ s.registered = slot.registered
        /\ s.received = slot.received /\ s.value = slot.value
    BY <1>1, <2>2 DEF VariableSlots
  <2> HIDE DEF s
  <2>4. /\ slot' \in VariableSlots /\ slot'.pending = slot.pending /\ slot'.ids = slot.ids
        /\ slot'.rejections = slot.rejections /\ slot'.registered = slot.registered
        /\ slot'.received = slot.received /\ slot'.value = slot.value
        /\ slot.received => slot'.min = slot.value /\ slot'.max = slot.value
    BY <2>1, <2>2, <2>3 DEF Variables!Consumed, VariableSlots
  <2>5. /\ seen' \in Sights /\ seen'.attempts = seen.attempts /\ seen'.here = seen.here
        /\ seen'.since = since
    BY <1>1, <2>1, <2>2 DEF Sights
  <2>6. SamplesAreHeld(slot', seen'.here, seen'.since)
    <3>1. slot.received => slot.value \in seen.here
      BY <1>1 DEF SamplesAreHeld
    <3> QED
      BY <2>2, <2>4, <2>5, <3>1 DEF SamplesAreHeld, since
  <2>7. TriesAreCounted(slot', seen'.attempts)
    BY <1>1, <2>4, <2>5 DEF TriesAreCounted, TriesOf
  <2> QED
    BY <1>1, <2>1, <2>4, <2>5, <2>6, <2>7 DEF VariableInv, VariableTypes
<1>8. CASE Variables!Changes \/ Variables!ComesToExist
  <2>1. slot' = slot /\ seen' = seen
    BY <1>8 DEF Variables!Changes, Variables!ComesToExist
  <2>2. \/ sim' = [sim EXCEPT !.exists = TRUE]
        \/ \E v \in SimValues : sim' = [sim EXCEPT !.value = v]
    BY <1>8 DEF Variables!Changes, Variables!ComesToExist
  <2>3. sim' \in Simulators /\ sim'.wire = sim.wire
    BY <1>1, <2>2 DEF Simulators
  <2> QED
    BY <1>1, <2>1, <2>3 DEF VariableInv, VariableTypes
<1>9. CASE Variables!Sends
  <2> DEFINE e == Variables!Value(sim.value)
             w == Append(sim.wire, e)
             shown == sim.value
  <2>1. /\ slot' = slot /\ seen' = seen /\ Len(sim.wire) < VariableMessages
        /\ sim' = [sim EXCEPT !.wire = w, !.shown = shown]
    BY <1>9 DEF Variables!Sends
  <2>2. e \in Packets
    BY <1>1, Zenon, SMT DEF Variables!Value, Packets
  <2> HIDE DEF e
  <2>3. w \in Seq(Packets) /\ Len(w) <= VariableMessages + 2 /\ shown \in Int
    BY <1>1, <2>1, <2>2, SimVariableConstants
  <2> HIDE DEF w, shown
  <2>4. sim' \in Simulators /\ sim'.wire = w
    BY <1>1, <2>1, <2>3 DEF Simulators
  <2> QED
    BY <1>1, <2>1, <2>3, <2>4 DEF VariableInv, VariableTypes
<1> QED
  BY <1>2, <1>3, <1>4, <1>5, <1>6, <1>7, <1>8, <1>9 DEF Variables!Next

(***************************************************************************)
(* What is read of a variable came in this connection, its span holds      *)
(* every sample since it was taken, and no refusal counts twice, for any   *)
(* delays and counts of retries, and however many messages are under way   *)
(* (the slots of SimConnectClient).                                        *)
(***************************************************************************)
THEOREM VariablesHold ==
  Variables!Spec =>
  [](Variables!TypeOK /\ Variables!ReadsThisConnection /\ Variables!SpanHoldsEverySample
     /\ Variables!RefusalsCountOnce)
<1>1. Variables!Init => VariableInv
  <2> SUFFICES ASSUME Variables!Init PROVE VariableInv
    OBVIOUS
  <2>1. /\ slot \in VariableSlots /\ ~slot.ids /\ ~slot.pending /\ slot.rejections = 0
        /\ ~slot.received
    <3>1. 0 \in 0 .. MaxDelay /\ 0 \in 0 .. MaxRetries + 1 /\ slot = Variables!Slot
      BY SimVariableConstants DEF Variables!Init
    <3> QED
      BY <3>1 DEF Variables!Slot, VariableSlots
  <2>2. PICK known \in BOOLEAN, v \in SimValues :
          sim = [attached |-> FALSE, exists |-> known, value |-> v, told |-> FALSE,
                 shown |-> 0, wire |-> << >>]
    BY DEF Variables!Init
  <2>3. << >> \in Seq(Packets) /\ Len(<< >>) = 0
    OBVIOUS
  <2>4. sim \in Simulators /\ Len(sim.wire) <= VariableMessages + 2
    BY <2>2, <2>3, SimVariableConstants DEF Simulators
  <2>5. seen \in Sights /\ seen.attempts = 0 /\ seen.since = {}
    BY DEF Variables!Init, Sights
  <2> QED
    BY <2>1, <2>4, <2>5
    DEF VariableInv, VariableTypes, TriesAreCounted, TriesOf, SamplesAreHeld
<1>2. VariableInv /\ [Variables!Next]_(Variables!simVariableVars) => VariableInv'
  <2> SUFFICES ASSUME VariableInv, [Variables!Next]_(Variables!simVariableVars) PROVE VariableInv'
    OBVIOUS
  <2>1. CASE UNCHANGED Variables!simVariableVars
    BY <2>1 DEF Variables!simVariableVars, VariableInv, VariableTypes
  <2> QED
    BY <2>1, VariableIsKept
<1>3. VariableInv =>
        Variables!TypeOK /\ Variables!ReadsThisConnection /\ Variables!SpanHoldsEverySample
          /\ Variables!RefusalsCountOnce
  <2> SUFFICES ASSUME VariableInv
               PROVE  Variables!TypeOK /\ Variables!ReadsThisConnection
                        /\ Variables!SpanHoldsEverySample /\ Variables!RefusalsCountOnce
    OBVIOUS
  <2>1. slot \in VariableSlots /\ seen \in Sights /\ slot.rejections \in 0 .. MaxRetries + 1
    BY DEF VariableInv, VariableTypes, VariableSlots
  <2>2. Variables!TypeOK
    BY <2>1 DEF VariableInv, VariableTypes, Variables!TypeOK, TriesAreCounted, SamplesAreHeld,
       VariableSlots
  <2>3. Variables!ReadsThisConnection /\ Variables!SpanHoldsEverySample
    BY DEF VariableInv, SamplesAreHeld, Variables!ReadsThisConnection,
       Variables!SpanHoldsEverySample
  <2>4. Variables!RefusalsCountOnce
    <3>1. seen.attempts \in Nat /\ slot.rejections \in Int
      BY <2>1, SimVariableConstants DEF Sights
    <3> QED
      BY <3>1 DEF VariableInv, TriesAreCounted, TriesOf, Variables!RefusalsCountOnce
  <2> QED
    BY <2>2, <2>3, <2>4
<1> QED
  BY <1>1, <1>2, <1>3, PTL DEF Variables!Spec

-----------------------------------------------------------------------------
(***************************************************************************)
(* The bridge to the EFB.                                                  *)
(* What is said to have been sent last was sent to a bridge that is there, *)
(* so a state is under way to one that was available only.                 *)
(***************************************************************************)
Showable == PageStates \union {Efb!Nothing}
Envelopes == [kind : {"subscribe", "state"}, state : Showable]
EfbTypes ==
  /\ page \in [connected : BOOLEAN, available : BOOLEAN, last : Showable, state : PageStates,
               faults : Int]
  /\ bridge \in [up : BOOLEAN, hello : BOOLEAN, wire : Seq(Envelopes)]
  /\ tablet \in [open : BOOLEAN, shown : Showable, heard : BOOLEAN, said : Seq({"hello"})]

StatesAreForTheBridge ==
  \A i \in 1 .. Len(bridge.wire) : bridge.wire[i].kind = "state" => page.available

EfbInv == EfbTypes /\ Efb!TypeOK /\ StatesAreForTheBridge

\* An envelope more is under way.
LEMMA EnvelopesAreAppended ==
  ASSUME NEW w \in Seq(Envelopes), NEW e \in Envelopes, NEW sent \in BOOLEAN,
         \A i \in 1 .. Len(w) : w[i].kind = "state" => sent, e.kind = "state" => sent
  PROVE  /\ Append(w, e) \in Seq(Envelopes)
         /\ \A i \in 1 .. Len(Append(w, e)) : Append(w, e)[i].kind = "state" => sent
OBVIOUS

\* What is published goes to a bridge that is there.
LEMMA PublishingIsSound ==
  ASSUME EfbInv, NEW c, c.available = page.available, c.connected = page.connected,
         c \in [connected : BOOLEAN, available : BOOLEAN, last : Showable, state : PageStates,
                faults : Int],
         c.last # Efb!Nothing => c.available, Efb!Publishes(c)
  PROVE  /\ page' \in [connected : BOOLEAN, available : BOOLEAN, last : Showable,
                       state : PageStates, faults : Int]
         /\ bridge' \in [up : BOOLEAN, hello : BOOLEAN, wire : Seq(Envelopes)]
         /\ StatesAreForTheBridge' /\ page'.available = page.available
         /\ page'.connected = page.connected /\ (page'.last # Efb!Nothing => page'.available)
<1>1. /\ page' \in [connected : BOOLEAN, available : BOOLEAN, last : Showable,
                    state : PageStates, faults : Int]
      /\ page'.available = page.available /\ page'.connected = page.connected
      /\ page'.last # Efb!Nothing => page'.available
  <2>1. \/ page' = c
        \/ page' = [c EXCEPT !.last = c.state] /\ c.available
    BY DEF Efb!Publishes, Efb!Sent
  <2>2. c.state \in Showable
    BY DEF Showable
  <2> QED
    BY <2>1, <2>2
<1>2. bridge \in [up : BOOLEAN, hello : BOOLEAN, wire : Seq(Envelopes)]
  BY DEF EfbInv, EfbTypes
<1>3. CASE bridge' = bridge
  BY <1>1, <1>2, <1>3 DEF EfbInv, StatesAreForTheBridge
<1>4. CASE c.available /\ bridge' # bridge
  <2> DEFINE e == Efb!Envelope("state", c.state)
             w == Append(bridge.wire, e)
  <2>1. e \in Envelopes
    BY DEF Efb!Envelope, Envelopes, Showable
  <2>2. w \in Seq(Envelopes)
    <3> HIDE DEF e
    <3> QED
      BY <1>2, <2>1
  <2>3. bridge' = [bridge EXCEPT !.wire = w]
    <3>1. Efb!SendEnvelope(e)
      BY <1>4 DEF Efb!Publishes
    <3>2. page.connected
      BY <1>4 DEF EfbInv, Efb!TypeOK
    <3> HIDE DEF e
    <3> QED
      BY <3>1, <1>4, <1>2 DEF Efb!SendEnvelope
  <2> HIDE DEF w
  <2>4. bridge' \in [up : BOOLEAN, hello : BOOLEAN, wire : Seq(Envelopes)]
    BY <1>2, <2>2, <2>3
  <2> QED
    BY <1>1, <1>4, <2>4 DEF StatesAreForTheBridge
<1> QED
  BY <1>1, <1>3, <1>4 DEF Efb!Publishes

\* Every step, one case for each.
LEMMA EfbIsKept ==
  ASSUME EfbInv, Efb!Next
  PROVE  EfbInv'
<1>1. /\ page \in [connected : BOOLEAN, available : BOOLEAN, last : Showable, state : PageStates,
                   faults : Int]
      /\ bridge \in [up : BOOLEAN, hello : BOOLEAN, wire : Seq(Envelopes)]
      /\ tablet \in [open : BOOLEAN, shown : Showable, heard : BOOLEAN, said : Seq({"hello"})]
      /\ page.faults + 1 \in Int /\ bridge.wire \in Seq(Envelopes)
      /\ tablet.said \in Seq({"hello"}) /\ page.available \in BOOLEAN
      /\ page.state \in Showable /\ Efb!Nothing \in Showable
  BY DEF EfbInv, EfbTypes, Showable
<1>2. CASE Efb!Setup
  <2> DEFINE e == Efb!Envelope("subscribe", Efb!Nothing)
             w == Append(bridge.wire, e)
  <2>1. e \in Envelopes /\ e.kind # "state"
    BY <1>1 DEF Efb!Envelope, Envelopes
  <2>2. /\ w \in Seq(Envelopes)
        /\ \A i \in 1 .. Len(w) : w[i].kind = "state" => page.available
    <3> HIDE DEF e
    <3> QED
      BY <1>1, <2>1, EnvelopesAreAppended DEF EfbInv, StatesAreForTheBridge
  <2>3. /\ bridge' = [bridge EXCEPT !.wire = w] /\ tablet' = tablet
        /\ page' = [page EXCEPT !.connected = TRUE]
    BY <1>2 DEF Efb!Setup, Efb!SubscribesAnew
  <2> HIDE DEF w
  <2> QED
    BY <1>1, <2>2, <2>3 DEF EfbInv, EfbTypes, Efb!TypeOK, StatesAreForTheBridge
<1>3. CASE Efb!Shutdown
  <2>1. /\ page' = [page EXCEPT !.connected = FALSE, !.faults = page.faults + 1]
        /\ bridge' = Efb!NewBridge /\ tablet' = Efb!NewTablet /\ ~page.available
    BY <1>3 DEF Efb!Shutdown
  <2>2. << >> \in Seq(Envelopes) /\ << >> \in Seq({"hello"}) /\ Len(<< >>) = 0
    OBVIOUS
  <2>3. EfbTypes'
    BY <1>1, <2>1, <2>2 DEF EfbTypes, Efb!NewBridge, Efb!NewTablet
  <2>4. Efb!TypeOK'
    BY <1>1, <2>1 DEF EfbInv, Efb!TypeOK, Efb!NewTablet
  <2>5. StatesAreForTheBridge'
    BY <2>1, <2>2 DEF StatesAreForTheBridge, Efb!NewBridge
  <2> QED
    BY <2>3, <2>4, <2>5 DEF EfbInv
<1>4. CASE Efb!OnReadyData
  BY <1>1, <1>4 DEF Efb!OnReadyData, EfbInv, EfbTypes, Efb!TypeOK, StatesAreForTheBridge
<1>5. CASE Efb!StateChanges
  <2>1. PICK s \in PageStates \ {page.state} : Efb!Publishes([page EXCEPT !.state = s])
    BY <1>5 DEF Efb!StateChanges
  <2> DEFINE c == [page EXCEPT !.state = s]
  <2>2. /\ c.available = page.available /\ c.connected = page.connected
        /\ c \in [connected : BOOLEAN, available : BOOLEAN, last : Showable, state : PageStates,
                  faults : Int]
        /\ c.last # Efb!Nothing => c.available
    BY <1>1 DEF EfbInv, Efb!TypeOK
  <2>3. Efb!Publishes(c) /\ tablet' = tablet
    BY <1>5, <2>1 DEF Efb!StateChanges
  <2> HIDE DEF c
  <2> QED
    BY <1>1, <2>2, <2>3, PublishingIsSound DEF EfbInv, EfbTypes, Efb!TypeOK
<1>6. CASE Efb!Republish
  <2> DEFINE c == Efb!Anew(page)
             said == Tail(tablet.said)
             heard == page.available
  <2>1. /\ c.available = page.available /\ c.connected = page.connected
        /\ c \in [connected : BOOLEAN, available : BOOLEAN, last : Showable, state : PageStates,
                  faults : Int]
        /\ c.last # Efb!Nothing => c.available
    BY <1>1 DEF Efb!Anew
  <2>2. Efb!Publishes(c) /\ tablet' = [tablet EXCEPT !.said = said, !.heard = heard]
    BY <1>6 DEF Efb!Republish
  <2>3. said \in Seq({"hello"}) /\ heard \in BOOLEAN
    BY <1>1, <1>6 DEF Efb!Republish
  <2> HIDE DEF c, said, heard
  <2>4. /\ tablet' \in [open : BOOLEAN, shown : Showable, heard : BOOLEAN, said : Seq({"hello"})]
        /\ tablet'.open = tablet.open /\ tablet'.shown = tablet.shown
    BY <1>1, <2>2, <2>3
  <2> QED
    BY <1>1, <2>1, <2>2, <2>4, PublishingIsSound DEF EfbInv, EfbTypes, Efb!TypeOK
<1>7. CASE Efb!PassesOn
  <2> DEFINE e == Head(bridge.wire)
             w == Tail(bridge.wire)
             hello == bridge.hello \/ e.kind = "subscribe"
             shown == IF e.kind = "state" /\ tablet.open THEN e.state ELSE tablet.shown
  <2>1. /\ bridge' = [bridge EXCEPT !.wire = w, !.hello = hello]
        /\ tablet' = [tablet EXCEPT !.shown = shown] /\ page' = page
    BY <1>7 DEF Efb!PassesOn
  <2>2. e \in Envelopes /\ (e.kind = "state" => page.available)
    BY <1>1, <1>7 DEF Efb!PassesOn, EfbInv, StatesAreForTheBridge
  <2>3. /\ w \in Seq(Envelopes) /\ hello \in BOOLEAN
        /\ \A i \in 1 .. Len(w) : w[i].kind = "state" => page.available
    <3>1. w \in Seq(Envelopes) /\ hello \in BOOLEAN
      BY <1>1, <1>7 DEF Efb!PassesOn
    <3>2. ASSUME NEW i \in 1 .. Len(w) PROVE w[i] = bridge.wire[i + 1]
                   /\ i + 1 \in 1 .. Len(bridge.wire)
      BY <1>1, <1>7, <3>2 DEF Efb!PassesOn
    <3> QED
      BY <3>1, <3>2 DEF EfbInv, StatesAreForTheBridge
  <2>4. shown \in Showable /\ (shown # Efb!Nothing => tablet.open /\ page.available)
    BY <1>1, <2>2 DEF EfbInv, Efb!TypeOK, Envelopes
  <2> HIDE DEF e, w, hello, shown
  <2> QED
    BY <1>1, <2>1, <2>3, <2>4 DEF EfbInv, EfbTypes, Efb!TypeOK, StatesAreForTheBridge
<1>8. CASE Efb!Opens
  <2> DEFINE said == IF bridge.hello THEN Append(tablet.said, "hello") ELSE tablet.said
  <2>1. /\ tablet' = [tablet EXCEPT !.open = TRUE, !.said = said] /\ ~tablet.open
        /\ page' = page /\ bridge' = bridge
    BY <1>8 DEF Efb!Opens
  <2>2. said \in Seq({"hello"})
    BY <1>1
  <2> HIDE DEF said
  <2> QED
    BY <1>1, <2>1, <2>2 DEF EfbInv, EfbTypes, Efb!TypeOK, StatesAreForTheBridge
<1>9. CASE Efb!Closes
  <2>1. /\ tablet' = [tablet EXCEPT !.open = FALSE, !.shown = Efb!Nothing, !.heard = FALSE]
        /\ page' = [page EXCEPT !.faults = page.faults + 1] /\ bridge' = bridge
    BY <1>9 DEF Efb!Closes
  <2> QED
    BY <1>1, <2>1 DEF EfbInv, EfbTypes, Efb!TypeOK, StatesAreForTheBridge
<1> QED
  BY <1>2, <1>3, <1>4, <1>5, <1>6, <1>7, <1>8, <1>9 DEF Efb!Next

(***************************************************************************)
(* The page shows a state only while it is open and over a bridge that is  *)
(* there, and none counts as sent to a bridge that is not, over            *)
(* connections that are lost and pages that are opened anew                *)
(* (CommBusEfbBridge, the state publisher), for any number of envelopes    *)
(* under way.                                                              *)
(***************************************************************************)
THEOREM EfbHolds == Efb!Spec => []Efb!TypeOK
<1>1. Efb!Init => EfbInv
  <2> SUFFICES ASSUME Efb!Init PROVE EfbInv
    OBVIOUS
  <2>1. PICK s \in PageStates :
          page = [connected |-> FALSE, available |-> FALSE, last |-> Efb!Nothing, state |-> s,
                  faults |-> 0]
    BY DEF Efb!Init
  <2>2. << >> \in Seq(Envelopes) /\ << >> \in Seq({"hello"}) /\ Len(<< >>) = 0
    OBVIOUS
  <2>3. bridge = Efb!NewBridge /\ tablet = Efb!NewTablet
    BY DEF Efb!Init
  <2>4. EfbTypes
    BY <2>1, <2>2, <2>3 DEF EfbTypes, Efb!NewBridge, Efb!NewTablet, Showable
  <2>5. Efb!TypeOK
    BY <2>1, <2>3 DEF Efb!TypeOK, Efb!NewTablet
  <2>6. StatesAreForTheBridge
    BY <2>2, <2>3 DEF StatesAreForTheBridge, Efb!NewBridge
  <2> QED
    BY <2>4, <2>5, <2>6 DEF EfbInv
<1>2. EfbInv /\ [Efb!Next]_(Efb!efbVars) => EfbInv'
  <2> SUFFICES ASSUME EfbInv, [Efb!Next]_(Efb!efbVars) PROVE EfbInv'
    OBVIOUS
  <2>1. CASE UNCHANGED Efb!efbVars
    BY <2>1 DEF Efb!efbVars, EfbInv, EfbTypes, Efb!TypeOK, StatesAreForTheBridge
  <2> QED
    BY <2>1, EfbIsKept
<1>3. EfbInv => Efb!TypeOK
  BY DEF EfbInv
<1> QED
  BY <1>1, <1>2, <1>3, PTL DEF Efb!Spec

-----------------------------------------------------------------------------
(***************************************************************************)
(* The updates.  What is staged is the package that was verified, as long  *)
(* as the client or its helper can use it; the view shows a download, and  *)
(* means to restart after it, only while there is one, and means to only   *)
(* when it was asked to.                                                   *)
(***************************************************************************)
Versions == Nat \ {NoVersion}
Views == [state : States, mode : Modes, known : BOOLEAN, latest : Nat, explicit : BOOLEAN,
          restarts : BOOLEAN]
Stores == [checks : BOOLEAN, step : {"idle", "sha", "package", "extract"}, pending : Nat,
           staged : Nat, file : Nat, verified : BOOLEAN, launched : BOOLEAN]
Releases == [newest : Versions, installed : Nat, runs : {"client", "helper", "nothing"},
             relaunches : BOOLEAN, asked : BOOLEAN, wrong : {FALSE}, faults : Nat]

StagedIsVerified(s) ==
  /\ s \in Stores
  /\ s.step # "idle" => s.pending \in Versions
  /\ HasStagedUpdate(s) => s.step = "idle" /\ s.file = s.staged /\ s.verified
  /\ s.step = "extract" => s.file = s.pending /\ s.verified

KnownIsAVersion(v) ==
  v \in Views /\ (v.known \/ v.state = "UpdateAvailable" => v.latest \in Versions)

ShownAsItIs(v, s, asked) ==
  /\ v.state = "Downloading" => s.step # "idle"
  /\ v.state = "ReadyToRestart" => HasStagedUpdate(s)
  /\ v.restarts => s.step # "idle" /\ asked

UpdateInv ==
  /\ StagedIsVerified(service) /\ KnownIsAVersion(view) /\ releases \in Releases
  /\ Running => ShownAsItIs(view, service, releases.asked)
  /\ releases.runs = "helper" => HasStagedUpdate(service)

-----------------------------------------------------------------------------
(***************************************************************************)
(* What the steps make of the store: a download never leaves something     *)
(* staged beside it, and what a check leaves staged is what it found.      *)
(***************************************************************************)
LEMMA DownloadsAreClean ==
  ASSUME NEW s, StagedIsVerified(s), NEW version \in Versions
  PROVE  /\ StagedIsVerified(DownloadAndStage(s, version))
         /\ DownloadAndStage(s, version).step # "idle"
         /\ DownloadAndStage(s, version).checks = s.checks
         /\ DownloadAndStage(s, version).staged \in {NoVersion, s.staged}
<1> USE DEF StagedIsVerified, HasStagedUpdate, NoVersion, Versions
<1>1. CASE s.step # "idle"  BY <1>1 DEF DownloadAndStage
<1>2. CASE s.step = "idle"
  <2> DEFINE d == [s EXCEPT !.staged = NoVersion, !.file = NoVersion, !.verified = FALSE]
             n == [d EXCEPT !.step = "sha", !.pending = version]
  <2>1. /\ d \in Stores /\ d.staged = NoVersion /\ d.checks = s.checks /\ d.file = NoVersion
    BY DEF Stores
  <2>2. n \in Stores /\ n.staged = NoVersion /\ n.step = "sha" /\ n.pending = version
        /\ n.checks = s.checks
    <3> HIDE DEF d
    <3> QED  BY <2>1 DEF Stores
  <2>3. DownloadAndStage(s, version) = n  BY <1>2 DEF DownloadAndStage, DiscardStaged
  <2> HIDE DEF d, n
  <2> QED  BY <2>2, <2>3
<1> QED  BY <1>1, <1>2

\* A check discards what it does not find, and leaves a download under way alone.
LEMMA ChecksDiscard ==
  ASSUME NEW s, StagedIsVerified(s), NEW version \in Versions
  PROVE  /\ StagedIsVerified([DiscardedByTheCheck(s, version) EXCEPT !.checks = FALSE])
         /\ [DiscardedByTheCheck(s, version) EXCEPT !.checks = FALSE].step = s.step
         /\ [DiscardedByTheCheck(s, version) EXCEPT !.checks = FALSE].staged
              \in {NoVersion, version}
<1> USE DEF StagedIsVerified, HasStagedUpdate, NoVersion, Versions
<1> DEFINE d == DiscardedByTheCheck(s, version)
           c == [d EXCEPT !.checks = FALSE]
<1>1. /\ d \in Stores /\ d.step = s.step /\ d.pending = s.pending
      /\ d.staged \in {NoVersion, version}
      /\ d = s \/ (d.staged = NoVersion /\ s.step = "idle")
  BY DEF DiscardedByTheCheck, DiscardStaged, Stores
<1> HIDE DEF d
<1>2. /\ c \in Stores /\ c.step = d.step /\ c.pending = d.pending /\ c.staged = d.staged
      /\ c.file = d.file /\ c.verified = d.verified
  BY <1>1 DEF Stores
<1>3. StagedIsVerified(c)
  <2> HIDE DEF c
  <2> QED  BY <1>1, <1>2
<1> QED  BY <1>1, <1>2, <1>3 DEF d

\* What is extracted has been verified, and is staged.
LEMMA ExtractedIsVerified ==
  ASSUME NEW s, StagedIsVerified(s), s.step = "extract"
  PROVE  StagedIsVerified(Staged(s)) /\ HasStagedUpdate(Staged(s)) /\ Staged(s).step = "idle"
         /\ Staged(s).checks = s.checks
<1>1. /\ Staged(s) \in Stores /\ Staged(s).step = "idle" /\ Staged(s).staged = s.pending
      /\ Staged(s).file = s.file /\ Staged(s).verified = s.verified /\ Staged(s).checks = s.checks
  BY DEF StagedIsVerified, Staged, Stores
<1> QED  BY <1>1 DEF StagedIsVerified, HasStagedUpdate, NoVersion, Versions

\* A download that is given up stages nothing.
LEMMA GivenUpIsIdle ==
  ASSUME NEW s, StagedIsVerified(s), s.step # "idle"
  PROVE  StagedIsVerified(GivesUp(s)) /\ ~HasStagedUpdate(GivesUp(s))
         /\ GivesUp(s).checks = s.checks
<1>1. /\ GivesUp(s) \in Stores /\ GivesUp(s).step = "idle" /\ GivesUp(s).staged = s.staged
      /\ GivesUp(s).checks = s.checks
  BY DEF StagedIsVerified, GivesUp, Stores, NoVersion
<1> QED  BY <1>1 DEF StagedIsVerified, HasStagedUpdate, NoVersion, Versions

\* The helper is launched with what is staged.
LEMMA LaunchedIsStaged ==
  ASSUME NEW s, StagedIsVerified(s)
  PROVE  /\ StagedIsVerified(LaunchApplyHelper(s))
         /\ LaunchApplyHelper(s).staged = s.staged /\ LaunchApplyHelper(s).checks = s.checks
<1>1. LET l == LaunchApplyHelper(s)
      IN  /\ l \in Stores /\ l.step = s.step /\ l.staged = s.staged /\ l.file = s.file
          /\ l.verified = s.verified /\ l.pending = s.pending /\ l.checks = s.checks
  BY DEF StagedIsVerified, LaunchApplyHelper, Stores
<1> QED  BY <1>1 DEF StagedIsVerified, HasStagedUpdate, NoVersion, Versions
-----------------------------------------------------------------------------
\* What a finished check notes, and the state it shows.
LEMMA NotedIsAVersion ==
  ASSUME KnownIsAVersion(view), releases \in Releases, NEW state \in States
  PROVE  /\ KnownIsAVersion(Noted(view))
         /\ LET v == [Noted(view) EXCEPT !.state = state]
            IN  KnownIsAVersion(v) /\ v.state = state /\ v.restarts = view.restarts
<1>1. /\ releases.newest \in Versions /\ releases.newest \in Nat
      /\ IsNewer(releases.newest) \in BOOLEAN
  BY DEF Releases, Versions, IsNewer
<1> DEFINE n == Noted(view)
<1>2. /\ n \in Views /\ n.latest = releases.newest /\ n.restarts = view.restarts
  BY <1>1 DEF Noted, KnownIsAVersion, Views
<1> HIDE DEF n
<1>3. LET v == [n EXCEPT !.state = state]
      IN  v \in Views /\ v.latest = n.latest /\ v.state = state /\ v.restarts = n.restarts
  BY <1>2 DEF Views
<1> QED  BY <1>1, <1>2, <1>3 DEF KnownIsAVersion, n

\* The beginning of a download, by a check or by the pilot.
LEMMA BegunIsShown ==
  ASSUME NEW v, KnownIsAVersion(v), NEW restarts \in BOOLEAN
  PROVE  /\ KnownIsAVersion(BeginDownload(v, restarts))
         /\ BeginDownload(v, restarts).state = "Downloading"
         /\ BeginDownload(v, restarts).restarts = restarts
BY DEF BeginDownload, KnownIsAVersion, Views, States

\* Checks that begin, of the timers and of the pilot.
LEMMA ChecksBeginKeeps ==
  ASSUME UpdateInv, StartBackgroundCheck \/ CheckForUpdates
  PROVE  UpdateInv'
<1> USE DEF UpdateInv
<1>1. /\ service' = [service EXCEPT !.checks = TRUE] /\ releases' = releases
      /\ \/ view' = [view EXCEPT !.explicit = FALSE]
         \/ view' = [view EXCEPT !.explicit = TRUE, !.state = "Checking"]
  BY DEF StartBackgroundCheck, CheckForUpdates
<1>2. /\ service' \in Stores /\ service'.step = service.step /\ service'.pending = service.pending
      /\ service'.staged = service.staged /\ service'.file = service.file
      /\ service'.verified = service.verified
  BY <1>1 DEF StagedIsVerified, Stores
<1>3. StagedIsVerified(service')  BY <1>2 DEF StagedIsVerified, HasStagedUpdate
<1>4. /\ view' \in Views /\ view'.known = view.known /\ view'.latest = view.latest
      /\ view'.restarts = view.restarts
      /\ view'.state \in {view.state, "Checking"}
  BY <1>1 DEF KnownIsAVersion, Views, States
<1>5. KnownIsAVersion(view')  BY <1>4 DEF KnownIsAVersion
<1>6. Running' => ShownAsItIs(view', service', releases'.asked)
  BY <1>1, <1>2, <1>4 DEF Running, ShownAsItIs, HasStagedUpdate
<1> QED  BY <1>1, <1>2, <1>3, <1>5, <1>6 DEF HasStagedUpdate

\* A check that finds something staged, nothing newer, or what is to be downloaded.
LEMMA CheckFinishedKeeps ==
  ASSUME UpdateInv, CheckFinished
  PROVE  UpdateInv' /\ service'.staged \in {NoVersion, releases.newest}
<1> USE DEF UpdateInv
<1> DEFINE s == [DiscardedByTheCheck(service, releases.newest) EXCEPT !.checks = FALSE]
           shown(state) == [Noted(view) EXCEPT !.state = state]
<1>1. releases.newest \in Versions /\ releases' = releases /\ Running
  BY DEF CheckFinished, Releases
<1>2. /\ StagedIsVerified(s) /\ s.step = service.step
      /\ s.staged \in {NoVersion, releases.newest}
  BY <1>1, ChecksDiscard
<1>3. \A state \in States : /\ KnownIsAVersion(shown(state)) /\ shown(state).state = state
                            /\ shown(state).restarts = view.restarts
  BY NotedIsAVersion
<1>4. \/ /\ HasStagedUpdate(s) /\ view' = shown("ReadyToRestart") /\ service' = s
      \/ /\ ~HasStagedUpdate(s) /\ service' = s
         /\ view' = shown("UpToDate") \/ view' = shown("UpdateAvailable")
      \/ /\ ~HasStagedUpdate(s) /\ view' = BeginDownload(Noted(view), FALSE)
         /\ service' = DownloadAndStage(s, releases.newest)
  BY DEF CheckFinished
<1>5. view.restarts => service.step # "idle" /\ releases.asked
  BY <1>1 DEF ShownAsItIs
<1>6. KnownIsAVersion(Noted(view))
  BY NotedIsAVersion DEF States
<1> HIDE DEF s, shown
<1>7. CASE HasStagedUpdate(s) /\ view' = shown("ReadyToRestart") /\ service' = s
  BY <1>1, <1>2, <1>3, <1>5, <1>7 DEF ShownAsItIs, States, Running
<1>8. CASE /\ ~HasStagedUpdate(s) /\ service' = s
           /\ view' = shown("UpToDate") \/ view' = shown("UpdateAvailable")
  BY <1>1, <1>2, <1>3, <1>5, <1>8 DEF ShownAsItIs, States, Running
<1>9. CASE /\ ~HasStagedUpdate(s) /\ view' = BeginDownload(Noted(view), FALSE)
           /\ service' = DownloadAndStage(s, releases.newest)
  <2>1. /\ StagedIsVerified(service') /\ service'.step # "idle"
        /\ service'.staged \in {NoVersion, s.staged}
    BY <1>1, <1>2, <1>9, DownloadsAreClean
  <2>2. KnownIsAVersion(view') /\ view'.state = "Downloading" /\ view'.restarts = FALSE
    BY <1>6, <1>9, BegunIsShown
  <2> QED  BY <1>1, <1>2, <2>1, <2>2 DEF ShownAsItIs, Running
<1> QED  BY <1>4, <1>7, <1>8, <1>9

\* One that fails is shown only if the pilot asked for it.
LEMMA CheckFailsKeeps ==
  ASSUME UpdateInv, CheckFails
  PROVE  UpdateInv'
<1> USE DEF UpdateInv
<1>1. /\ releases' = [releases EXCEPT !.faults = releases.faults + 1] /\ Running
      /\ service' = [service EXCEPT !.checks = FALSE]
      /\ \E state \in {"Error", "Idle", view.state} :
           view' = [view EXCEPT !.explicit = FALSE, !.state = state]
  BY DEF CheckFails, Failed
<1>2. /\ service' \in Stores /\ service'.step = service.step /\ service'.pending = service.pending
      /\ service'.staged = service.staged /\ service'.file = service.file
      /\ service'.verified = service.verified
  BY <1>1 DEF StagedIsVerified, Stores
<1>3. StagedIsVerified(service')  BY <1>2 DEF StagedIsVerified, HasStagedUpdate
<1>4. /\ view' \in Views /\ view'.known = view.known /\ view'.latest = view.latest
      /\ view'.restarts = view.restarts
      /\ view'.state \in {view.state, "Error", "Idle"}
  BY <1>1 DEF KnownIsAVersion, Views, States
<1>5. KnownIsAVersion(view')  BY <1>4 DEF KnownIsAVersion
<1>6. releases' \in Releases /\ releases'.runs = releases.runs /\ releases'.asked = releases.asked
  <2>1. releases.faults + 1 \in Nat  BY DEF Releases
  <2> QED  BY <1>1, <2>1 DEF Releases
<1>7. ShownAsItIs(view', service', releases'.asked)
  BY <1>1, <1>2, <1>4, <1>6 DEF ShownAsItIs, HasStagedUpdate
<1> QED  BY <1>1, <1>3, <1>5, <1>6, <1>7 DEF Running

-----------------------------------------------------------------------------
\* The pilot's download, which restarts the client unless updates are automatic.
LEMMA DownloadAndInstallKeeps ==
  ASSUME UpdateInv, DownloadAndInstall
  PROVE  UpdateInv' /\ releases'.runs = "client" /\ service'.checks = service.checks
<1> USE DEF UpdateInv
<1> DEFINE restarts == view.mode # "Auto"
<1>1. /\ Running /\ view.known /\ view' = BeginDownload(view, restarts)
      /\ service' = DownloadAndStage(service, view.latest)
      /\ releases' = [releases EXCEPT !.asked = releases.asked \/ restarts]
  BY DEF DownloadAndInstall
<1>2. view.latest \in Versions  BY <1>1 DEF KnownIsAVersion
<1>3. /\ StagedIsVerified(service') /\ service'.step # "idle"
      /\ service'.checks = service.checks
  BY <1>1, <1>2, DownloadsAreClean
<1>4. KnownIsAVersion(view') /\ view'.state = "Downloading" /\ view'.restarts = restarts
  BY <1>1, BegunIsShown
<1>5. /\ releases' \in Releases /\ releases'.runs = releases.runs
      /\ restarts => releases'.asked
  <2>1. (releases.asked \/ restarts) \in BOOLEAN  BY DEF Releases
  <2> QED  BY <1>1, <2>1 DEF Releases
<1> HIDE DEF restarts
<1>6. releases'.runs = "client"  BY <1>1, <1>5 DEF Running
<1>7. ShownAsItIs(view', service', releases'.asked)  BY <1>3, <1>4, <1>5 DEF ShownAsItIs
<1>8. releases'.runs # "helper"  BY <1>6
<1> QED  BY <1>3, <1>4, <1>5, <1>6, <1>7, <1>8
\* Automatic updates begin the download they find announced.
LEMMA SetModeKeeps ==
  ASSUME UpdateInv, SetMode
  PROVE  UpdateInv' /\ releases'.runs = "client" /\ service'.checks = service.checks
<1> USE DEF UpdateInv
<1>1. Running /\ releases' = releases  BY DEF SetMode
<1>2. PICK mode \in Modes :
        IF mode = "Auto" /\ view.state = "UpdateAvailable"
        THEN /\ view' = [view EXCEPT !.mode = mode, !.restarts = FALSE, !.state = "Downloading"]
             /\ service' = DownloadAndStage(service, view.latest)
        ELSE view' = [view EXCEPT !.mode = mode] /\ service' = service
  BY DEF SetMode
<1>3. CASE mode = "Auto" /\ view.state = "UpdateAvailable"
  <2>1. view.latest \in Versions  BY <1>3 DEF KnownIsAVersion
  <2>2. /\ StagedIsVerified(service') /\ service'.step # "idle"
        /\ service'.checks = service.checks
    BY <1>2, <1>3, <2>1, DownloadsAreClean
  <2>3. KnownIsAVersion(view') /\ view'.state = "Downloading" /\ ~view'.restarts
    BY <1>2, <1>3 DEF KnownIsAVersion, Views, States
  <2>4. ShownAsItIs(view', service', releases.asked)  BY <2>2, <2>3 DEF ShownAsItIs
  <2> QED  BY <1>1, <2>2, <2>3, <2>4 DEF Running
<1>4. CASE ~(mode = "Auto" /\ view.state = "UpdateAvailable")
  <2>1. view' = [view EXCEPT !.mode = mode] /\ service' = service  BY <1>2, <1>4
  <2>2. /\ KnownIsAVersion(view') /\ view'.state = view.state /\ view'.restarts = view.restarts
    BY <2>1 DEF KnownIsAVersion, Views
  <2>3. ShownAsItIs(view', service', releases.asked)  BY <1>1, <2>1, <2>2 DEF ShownAsItIs
  <2> QED  BY <1>1, <2>1, <2>2, <2>3 DEF Running
<1> QED  BY <1>3, <1>4

\* The steps of a download that go on, and one that fails.
LEMMA StepsKeep ==
  ASSUME UpdateInv, OnShaHttpFinished \/ OnZipHttpFinished
  PROVE  UpdateInv' /\ releases'.runs = "client" /\ service'.checks = service.checks
<1> USE DEF UpdateInv
<1>1. /\ Running /\ view' = view /\ releases' = releases /\ service.step # "idle"
      /\ \/ service' = [service EXCEPT !.step = "package"]
         \/ service' = [service EXCEPT !.step = "extract", !.file = service.pending,
                                       !.verified = TRUE]
  BY DEF OnShaHttpFinished, OnZipHttpFinished
<1>2. /\ StagedIsVerified(service') /\ service'.checks = service.checks
      /\ service'.step # "idle" /\ service'.staged = service.staged
  BY <1>1 DEF StagedIsVerified, Stores, HasStagedUpdate, NoVersion, Versions
<1>3. ShownAsItIs(view', service', releases.asked)
  BY <1>1, <1>2 DEF ShownAsItIs, HasStagedUpdate
<1> QED  BY <1>1, <1>2, <1>3 DEF Running

\* A step that fails, after which nothing is asked for.
LEMMA StageFailsKeeps ==
  ASSUME UpdateInv, StageFails
  PROVE  UpdateInv' /\ releases'.runs = "client" /\ service'.checks = service.checks
<1> USE DEF UpdateInv
<1>1. /\ Running /\ service.step # "idle" /\ service' = GivesUp(service)
      /\ view' = [Drops(view) EXCEPT !.state = "Error"]
      /\ releases' = [releases EXCEPT !.faults = releases.faults + 1, !.asked = FALSE]
  BY DEF StageFails
<1>2. StagedIsVerified(service') /\ service'.checks = service.checks
  BY <1>1, GivenUpIsIdle
<1>3. KnownIsAVersion(view') /\ view'.state = "Error" /\ ~view'.restarts
  BY <1>1 DEF Drops, KnownIsAVersion, Views, States
<1>4. releases' \in Releases /\ releases'.runs = releases.runs
  <2>1. releases.faults + 1 \in Nat  BY DEF Releases
  <2> QED  BY <1>1, <2>1 DEF Releases
<1>5. ShownAsItIs(view', service', releases'.asked)  BY <1>3 DEF ShownAsItIs
<1> QED  BY <1>1, <1>2, <1>3, <1>4, <1>5 DEF Running

\* The restart of the client, when a download that was to restart it is staged
\* or the pilot asks for it.
LEMMA RestartsKeep ==
  ASSUME UpdateInv, Running, NEW s, StagedIsVerified(s), NEW v, KnownIsAVersion(v), ~v.restarts,
         HasStagedUpdate(s), v.state = "ReadyToRestart", Restarts(s, v)
  PROVE  UpdateInv' /\ service'.checks = s.checks
<1> USE DEF UpdateInv
<1>1. releases.faults + 1 \in Nat /\ releases.faults \in Nat  BY DEF Releases
<1>2. CASE /\ view' = v /\ service' = LaunchApplyHelper(s)
           /\ releases' = [releases EXCEPT !.runs = "helper", !.relaunches = TRUE,
                                           !.asked = FALSE]
  <2>1. StagedIsVerified(service') /\ service'.staged = s.staged /\ service'.checks = s.checks
    BY <1>2, LaunchedIsStaged
  <2>2. releases' \in Releases /\ releases'.runs = "helper"  BY <1>2 DEF Releases
  <2> QED  BY <1>2, <2>1, <2>2 DEF Running, HasStagedUpdate
<1>3. CASE /\ view' = [v EXCEPT !.state = "Error"] /\ service' = s
           /\ releases' = [releases EXCEPT !.asked = FALSE,
                             !.faults = IF CanFail THEN releases.faults + 1 ELSE releases.faults]
  <2>1. KnownIsAVersion(view') /\ view'.state = "Error" /\ ~view'.restarts
    BY <1>3 DEF KnownIsAVersion, Views, States
  <2>2. releases' \in Releases /\ releases'.runs = releases.runs  BY <1>1, <1>3 DEF Releases
  <2>3. ShownAsItIs(view', service', releases'.asked)  BY <2>1 DEF ShownAsItIs
  <2> QED  BY <1>3, <2>1, <2>2, <2>3 DEF Running
<1> QED  BY <1>2, <1>3 DEF Restarts

\* The end of a download, with the restart it was asked for with.
LEMMA ExtractKeeps ==
  ASSUME UpdateInv, OnExtractFinished
  PROVE  /\ UpdateInv' /\ service'.checks = service.checks
         /\ releases'.runs = "helper" => releases.asked
<1> USE DEF UpdateInv
<1> DEFINE v == [Drops(view) EXCEPT !.state = "ReadyToRestart"]
<1>1. /\ Running /\ service.step = "extract"
      /\ IF view.restarts THEN Restarts(Staged(service), v)
         ELSE /\ view' = v /\ service' = Staged(service)
              /\ releases' = [releases EXCEPT !.asked = FALSE]
  BY DEF OnExtractFinished
<1>2. /\ StagedIsVerified(Staged(service)) /\ HasStagedUpdate(Staged(service))
      /\ Staged(service).checks = service.checks
  BY <1>1, ExtractedIsVerified
<1>3. KnownIsAVersion(v) /\ v.state = "ReadyToRestart" /\ ~v.restarts
  BY DEF Drops, KnownIsAVersion, Views, States
<1> HIDE DEF v
<1>4. CASE view.restarts
  <2>1. releases.asked  BY <1>1, <1>4 DEF ShownAsItIs
  <2> QED  BY <1>1, <1>2, <1>3, <1>4, <2>1, RestartsKeep
<1>5. CASE ~view.restarts
  <2>1. releases' \in Releases /\ releases'.runs = releases.runs  BY <1>1, <1>5 DEF Releases
  <2>2. ShownAsItIs(view', service', releases'.asked)
    BY <1>1, <1>2, <1>3, <1>5 DEF ShownAsItIs
  <2> QED  BY <1>1, <1>2, <1>3, <1>5, <2>1, <2>2 DEF Running
<1> QED  BY <1>4, <1>5

\* The pilot restarts the client.
LEMMA RestartNowKeeps ==
  ASSUME UpdateInv, RestartNow
  PROVE  UpdateInv' /\ service'.checks = service.checks /\ view.state = "ReadyToRestart"
<1>1. Running /\ view.state = "ReadyToRestart" /\ Restarts(service, view)  BY DEF RestartNow
<1>2. /\ StagedIsVerified(service) /\ KnownIsAVersion(view)
      /\ ShownAsItIs(view, service, releases.asked)
  BY <1>1 DEF UpdateInv
<1>3. HasStagedUpdate(service) /\ service.step = "idle" /\ ~view.restarts
  BY <1>1, <1>2 DEF ShownAsItIs, StagedIsVerified
<1> QED  BY <1>1, <1>2, <1>3, RestartsKeep

-----------------------------------------------------------------------------
\* The end of the client, the helper that installs, and the next start.
LEMMA EndsKeep ==
  ASSUME UpdateInv, Quit \/ HelperInstalls \/ Start \/ Publishes
  PROVE  UpdateInv'
<1> USE DEF UpdateInv
<1>1. /\ releases.faults + 1 \in Nat /\ releases.newest + 1 \in Versions
      /\ service.file \in Nat /\ view.mode \in Modes
  BY DEF Releases, Versions, NoVersion, StagedIsVerified, Stores, KnownIsAVersion, Views
<1>2. CASE Quit
  <2>1. view' = view  BY <1>2 DEF Quit
  <2>2. CASE /\ HasStagedUpdate(service) /\ service' = LaunchApplyHelper(service)
             /\ releases' = [releases EXCEPT !.runs = "helper", !.relaunches = FALSE]
    <3>1. StagedIsVerified(service') /\ service'.staged = service.staged
      BY <2>2, LaunchedIsStaged
    <3>2. releases' \in Releases /\ releases'.runs = "helper"  BY <2>2 DEF Releases
    <3> QED  BY <2>1, <2>2, <3>1, <3>2 DEF Running, HasStagedUpdate
  <2>3. CASE service' = service /\ releases' = [releases EXCEPT !.runs = "nothing"]
    <3>1. releases' \in Releases /\ releases'.runs = "nothing"  BY <2>3 DEF Releases
    <3> QED  BY <2>1, <2>3, <3>1 DEF Running
  <2> QED  BY <1>2, <2>2, <2>3 DEF Quit, CanApply
<1>3. CASE HelperInstalls
  <2>1. view' = view /\ service' = service /\ HasStagedUpdate(service)
    BY <1>3 DEF HelperInstalls
  <2>2. service.verified /\ service.file = service.staged  BY <2>1 DEF StagedIsVerified
  <2>3. \/ releases' = [releases EXCEPT !.installed = service.file, !.runs = "nothing",
           !.wrong = releases.wrong \/ ~service.verified \/ service.file # service.staged]
        \/ releases' = [releases EXCEPT !.faults = releases.faults + 1, !.runs = "nothing"]
    BY <1>3 DEF HelperInstalls
  <2>4. (releases.wrong \/ ~service.verified \/ service.file # service.staged) = FALSE
    BY <2>2 DEF Releases
  <2>5. releases' \in Releases /\ releases'.runs = "nothing"
    BY <1>1, <2>3, <2>4 DEF Releases
  <2> QED  BY <2>1, <2>5 DEF Running
<1>4. CASE Start
  <2>1. /\ view' = NewView(view.mode) /\ service' = NewService
        /\ releases' = [releases EXCEPT !.runs = "client", !.asked = FALSE]
    BY <1>4 DEF Start
  <2>2. StagedIsVerified(service') /\ ~HasStagedUpdate(service')
    BY <2>1 DEF NewService, StagedIsVerified, Stores, HasStagedUpdate, NoVersion
  <2>3. KnownIsAVersion(view') /\ view'.state = "Idle" /\ ~view'.restarts
    BY <1>1, <2>1 DEF NewView, KnownIsAVersion, Views, States, NoVersion
  <2>4. releases' \in Releases /\ releases'.runs = "client"  BY <2>1 DEF Releases
  <2> QED  BY <2>2, <2>3, <2>4 DEF ShownAsItIs
<1>5. CASE Publishes
  <2>1. view' = view /\ service' = service
        /\ releases' = [releases EXCEPT !.newest = releases.newest + 1]
    BY <1>5 DEF Publishes
  <2>2. /\ releases' \in Releases /\ releases'.runs = releases.runs
        /\ releases'.asked = releases.asked
    BY <1>1, <2>1 DEF Releases
  <2> QED  BY <2>1, <2>2 DEF Running
<1> QED  BY <1>2, <1>3, <1>4, <1>5

\* The client starts with nothing staged.
LEMMA UpdatesStart == UpdateInit => UpdateInv
<1> SUFFICES ASSUME UpdateInit  PROVE UpdateInv  OBVIOUS
<1>1. StagedIsVerified(service) /\ ~HasStagedUpdate(service)
  BY DEF UpdateInit, NewService, StagedIsVerified, Stores, HasStagedUpdate, NoVersion
<1>2. KnownIsAVersion(view) /\ view.state = "Idle" /\ ~view.restarts
  <2>1. PICK mode \in Modes : view = NewView(mode)  BY DEF UpdateInit
  <2> QED  BY <2>1 DEF NewView, KnownIsAVersion, Views, States, NoVersion
<1>3. releases \in Releases /\ releases.runs = "client"
  BY DEF UpdateInit, Releases, Versions, NoVersion
<1> QED  BY <1>1, <1>2, <1>3 DEF UpdateInv, ShownAsItIs

\* Every step keeps it.
LEMMA UpdatesStep == UpdateInv /\ [UpdateNext]_updateVars => UpdateInv'
<1>1. UpdateInv /\ UNCHANGED updateVars => UpdateInv'
  BY DEF updateVars, UpdateInv, Running
<1>2. UpdateInv /\ UpdateNext => UpdateInv'
  BY ChecksBeginKeeps, CheckFinishedKeeps, CheckFailsKeeps, DownloadAndInstallKeeps,
     SetModeKeeps, StepsKeep, StageFailsKeeps, ExtractKeeps, RestartNowKeeps, EndsKeep
  DEF UpdateNext
<1> QED  BY <1>1, <1>2
(***************************************************************************)
(* A restart has been asked for, and what a check leaves staged is what it *)
(* has found: the two that are about a step.                               *)
(***************************************************************************)
LEMMA RestartWasAsked ==
  ASSUME UpdateInv, UpdateNext, Running, releases'.runs = "helper", releases'.relaunches
  PROVE  releases.asked \/ view.state = "ReadyToRestart"
<1>1. releases \in Releases /\ releases.runs = "client"  BY DEF UpdateInv, Running
<1>2. ~(StartBackgroundCheck \/ CheckForUpdates \/ CheckFinished)
  BY <1>1 DEF StartBackgroundCheck, CheckForUpdates, CheckFinished
<1>3. ~CheckFails /\ ~Publishes
  BY <1>1 DEF CheckFails, Failed, Publishes, Releases
<1>4. ~(DownloadAndInstall \/ SetMode \/ OnShaHttpFinished \/ OnZipHttpFinished \/ StageFails)
  BY DownloadAndInstallKeeps, SetModeKeeps, StepsKeep, StageFailsKeeps
<1>5. ~Quit  BY <1>1 DEF Quit, Releases
<1>6. ~HelperInstalls /\ ~Start  BY <1>1 DEF HelperInstalls, Start
<1> QED
  BY <1>2, <1>3, <1>4, <1>5, <1>6, ExtractKeeps, RestartNowKeeps DEF UpdateNext

\* And what a check leaves staged is the newest release.
LEMMA CheckLeavesTheNewest ==
  ASSUME UpdateInv, UpdateNext, Running, service.checks, ~service'.checks,
         ~(releases'.faults > releases.faults)
  PROVE  service'.staged \in {NoVersion, releases.newest}
<1>1. StagedIsVerified(service) /\ service \in Stores /\ releases \in Releases
      /\ releases.runs = "client"
  BY DEF UpdateInv, Running, StagedIsVerified
<1>2. ~(StartBackgroundCheck \/ CheckForUpdates)
  BY <1>1 DEF StartBackgroundCheck, CheckForUpdates, Stores
<1>3. ~CheckFails  BY <1>1 DEF CheckFails, Failed, Releases
<1>4. ~(DownloadAndInstall \/ SetMode \/ OnShaHttpFinished \/ OnZipHttpFinished \/ StageFails)
  BY DownloadAndInstallKeeps, SetModeKeeps, StepsKeep, StageFailsKeeps
<1>5. ~OnExtractFinished /\ ~RestartNow  BY ExtractKeeps, RestartNowKeeps
<1>6. ~Quit  BY <1>1, LaunchedIsStaged DEF Quit
<1>7. ~HelperInstalls /\ ~Start /\ ~Publishes
  BY <1>1 DEF HelperInstalls, Start, Publishes
<1> QED
  BY <1>2, <1>3, <1>4, <1>5, <1>6, <1>7, CheckFinishedKeeps DEF UpdateNext

(***************************************************************************)
(* Whatever is published, fails and is asked for meanwhile, only what was  *)
(* verified is installed, the client restarts only when it was asked to,   *)
(* and a check leaves nothing older staged: for any number of releases and *)
(* failures.                                                               *)
(***************************************************************************)
THEOREM UpdatesHold == UpdateSpec => UpdatesAreSafe
<1>1. UpdateInv => InstallsWhatWasVerified
  BY DEF UpdateInv, Releases, InstallsWhatWasVerified
<1>2. UpdateInv /\ [UpdateNext]_updateVars =>
        [Running /\ releases'.runs = "helper" /\ releases'.relaunches =>
           releases.asked \/ view.state = "ReadyToRestart"]_updateVars
  BY RestartWasAsked
<1>3. UpdateInv /\ [UpdateNext]_updateVars =>
        [service.checks /\ ~service'.checks /\ Running
           /\ ~(releases'.faults > releases.faults) =>
             service'.staged \in {NoVersion, releases.newest}]_updateVars
  BY CheckLeavesTheNewest
<1> QED
  BY <1>1, <1>2, <1>3, UpdatesStart, UpdatesStep, PTL
  DEF UpdateSpec, UpdatesAreSafe, RestartsOnlyWhenAsked, ChecksDiscardTheOlder

(***************************************************************************)
(* What the view shows is so, and something is staged only when nothing is *)
(* being downloaded.                                                       *)
(***************************************************************************)
THEOREM UpdateTypesHold == UpdateSpec => []UpdateTypeOK
<1>1. UpdateInv => UpdateTypeOK
  BY DEF UpdateInv, UpdateTypeOK, StagedIsVerified, KnownIsAVersion, ShownAsItIs, Views
<1> QED  BY <1>1, UpdatesStart, UpdatesStep, PTL DEF UpdateSpec

-----------------------------------------------------------------------------
(***************************************************************************)
(* The clients side by side.  A step of one of them leaves the others as   *)
(* they are, so each behaviour of all is one of each.                      *)
(***************************************************************************)
HostSides ==
  /\ PmdgDoor!Spec
  /\ PmdgGround!Spec
  /\ Holds!Spec
  /\ Fenix!Spec
  /\ Variables!Spec
  /\ Efb!Spec
  /\ UpdateSpec

\* MCHost runs its clients as they are on their own.
LEMMA HostRunsItsSides == Spec => HostSides
<1>1. Init => /\ PmdgDoor!Init /\ PmdgGround!Init /\ Holds!Init /\ Fenix!Init
              /\ Variables!Init /\ Efb!Init /\ UpdateInit
  BY DEF Init
<1> USE DEF PmdgDoorMoves, PmdgGroundMoves, AocMoves, HoldsMoves, FenixMoves, VariablesMoves,
            SessionMoves, EfbMoves, UpdateMoves, hostVars, pmdgDoorVars, pmdgGroundVars, aocVars,
            holdVars, fenixVars, variableVars, sessionVars, efbVars, updateVars
<1>2. [Next]_hostVars => [PmdgDoor!Next]_(PmdgDoor!pmdgVars)
  BY DEF Next, PmdgDoor!pmdgVars
<1>3. [Next]_hostVars => [PmdgGround!Next]_(PmdgGround!groundVars)
  BY DEF Next, PmdgGround!groundVars
<1>4. [Next]_hostVars => [Holds!Next]_(Holds!holdVars)
  BY DEF Next, Holds!holdVars
<1>5. [Next]_hostVars => [Fenix!Next]_(Fenix!fenixVars)
  BY DEF Next, Fenix!fenixVars, Fenix!Next
<1>6. [Next]_hostVars => [Variables!Next]_(Variables!simVariableVars)
  BY DEF Next, Variables!simVariableVars
<1>7. [Next]_hostVars => [Efb!Next]_(Efb!efbVars)
  BY DEF Next, Efb!efbVars
<1>8. [Next]_hostVars => [UpdateNext]_updateVars
  BY DEF Next
<1> QED
  BY <1>1, <1>2, <1>3, <1>4, <1>5, <1>6, <1>7, <1>8, PTL
  DEF Spec, HostSides, UpdateSpec, PmdgDoor!Spec, PmdgGround!Spec, Holds!Spec,
      Fenix!Spec, Variables!Spec, Efb!Spec

(***************************************************************************)
(* What the clients do to what they drive or read they do as they mean     *)
(* it, for any delays, counts of attempts and faults: no toggle or press   *)
(* undoes the one before it, no door that moves is taken for shut, no      *)
(* loadsheet is final twice, nothing is read of a connection that is       *)
(* lost, and nothing is installed or shown that is not there.              *)
(***************************************************************************)
THEOREM ClientsAreSafe == Spec => ClientsDoAsMeant /\ UpdatesAreSafe
BY HostRunsItsSides, PmdgDoorsHold, PmdgGroundHolds, FslabsHoldsHold, FenixHolds,
   VariablesHold, EfbHolds, UpdatesHold, UpdateTypesHold, PTL
DEF HostSides, ClientsDoAsMeant
=============================================================================
