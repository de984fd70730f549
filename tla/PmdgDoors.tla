-------------------------------- MODULE PmdgDoors --------------------------------
(***************************************************************************)
(* The doors of a PMDG aircraft (PmdgDoorReconciler): GSX's door is mapped *)
(* to the slot of a door of the aircraft, and that door can only be        *)
(* toggled, by an event that takes effect later and may be lost.  One door *)
(* of GSX, the forward one, whose slot depends on where the jetway is.     *)
(***************************************************************************)
EXTENDS Integers

CONSTANTS
  Slots,       \* the slots the door may be mapped to
  RetryTicks,  \* kDoorRetryTicks
  MaxAttempts, \* kDoorMaxAttempts
  MaxFaults    \* bound on lost events, moves by the pilot and relaunches

VARIABLES
  recon,  \* PmdgDoorReconciler, by slot, with the slot that was opened
  doors,  \* the doors of the aircraft (environment)
  world   \* where the jetway is, what GSX's door is to be, the memory, faults

pmdgVars == <<recon, doors, world>>

NoSlot == "none"
Nothing == "nothing"
Unset == [desired |-> Nothing, commanded |-> Nothing, ticks |-> 0, attempts |-> 0]

-----------------------------------------------------------------------------
(***************************************************************************)
(* SetDesired: a close goes to the slot that was opened, wherever GSX's    *)
(* door would be mapped now.                                               *)
(***************************************************************************)
SlotFor == world.slot
SlotOfNow(open) == SlotFor
SlotOf(open) == IF ~open /\ recon.opened # NoSlot THEN recon.opened ELSE SlotFor

AsWord(open) == IF open THEN "open" ELSE "closed"

SetDesired(open) ==
  /\ recon' = [recon EXCEPT !.of[SlotOf(open)].desired = AsWord(open),
                            !.opened = IF open THEN SlotOf(open) ELSE NoSlot]
  /\ world' = [world EXCEPT !.wanted = AsWord(open), !.toggled = {}]
  /\ UNCHANGED doors

-----------------------------------------------------------------------------
(***************************************************************************)
(* ReconcileSlot: the first command at once, and so many more while the    *)
(* reading stays what it was.                                              *)
(***************************************************************************)
HasReading(d) == d.phase # "moves"

RetryIsDue(r) == r.ticks + 1 >= RetryTicks /\ r.attempts < MaxAttempts

Commanded(r) == [r EXCEPT !.commanded = r.desired, !.ticks = 0, !.attempts = 0]

IsNew(r) == r.commanded # r.desired
IsReached(r, d) == d.at = r.desired

ReconcileSlot(r, d) ==
  IF r.desired = Nothing \/ ~HasReading(d) THEN r
  ELSE IF IsNew(r) THEN Commanded(r)
  ELSE IF IsReached(r, d) THEN [r EXCEPT !.attempts = 0]
  ELSE IF RetryIsDue(r) THEN [r EXCEPT !.ticks = 0, !.attempts = @ + 1]
  ELSE [r EXCEPT !.ticks = IF @ < RetryTicks THEN @ + 1 ELSE @]

IsToggled(r, d) ==
  /\ r.desired # Nothing /\ HasReading(d) /\ ~IsReached(r, d)
  /\ IsNew(r) \/ RetryIsDue(r)

\* The event is lost in the aircraft when the fault budget allows.
Toggled(d, lost) ==
  IF lost THEN d
  ELSE IF d.phase = "moves" THEN [d EXCEPT !.at = AsWord(@ = "closed")]
  ELSE [d EXCEPT !.phase = "asked", !.age = 0]

\* A door answers before the next try of a command: see Aged.
Answers(d) == d.phase = "asked" => d.age < RetryTicks - 1
Aged(d) == IF d.phase = "asked" THEN [d EXCEPT !.age = @ + 1] ELSE d

Tick ==
  /\ \A s \in Slots : Answers(doors[s])
  /\ LET toggled == {s \in Slots : IsToggled(recon.of[s], doors[s])}
     IN  \E lost \in SUBSET toggled :
           /\ lost # {} => world.faults < MaxFaults
           /\ doors' = [s \in Slots |->
                          IF s \in toggled THEN Toggled(doors[s], s \in lost)
                          ELSE Aged(doors[s])]
           /\ recon' = [recon EXCEPT !.of = [s \in Slots |->
                                               ReconcileSlot(recon.of[s], doors[s])]]
           /\ world' = [world EXCEPT !.toggled = toggled,
                          !.faults = IF lost = {} THEN @ ELSE @ + 1,
                          !.disk = [desired |-> [s \in Slots |-> recon.of[s].desired],
                                    opened |-> recon.opened, wanted |-> world.wanted]]

\* What was saved counts as commanded; GSX's door is saved with it.
RestoredSlot(desired) == [Unset EXCEPT !.desired = desired, !.commanded = desired]
RestoreMemory ==
  /\ world.faults < MaxFaults
  /\ recon' = [of |-> [s \in Slots |-> RestoredSlot(world.disk.desired[s])],
               opened |-> world.disk.opened]
  /\ world' = [world EXCEPT !.faults = @ + 1, !.toggled = {}, !.wanted = world.disk.wanted]
  /\ UNCHANGED doors

-----------------------------------------------------------------------------
(***************************************************************************)
(* The aircraft and GSX.                                                   *)
(***************************************************************************)
Quiet == world' = [world EXCEPT !.toggled = {}]

\* While a door moves, its position is where it goes.
DoorStarts(s) ==
  /\ doors[s].phase = "asked"
  /\ doors' = [doors EXCEPT ![s] = [at |-> AsWord(doors[s].at = "closed"),
                                    phase |-> "moves", age |-> 0]]
  /\ Quiet /\ UNCHANGED recon
DoorArrives(s) ==
  /\ doors[s].phase = "moves"
  /\ doors' = [doors EXCEPT ![s].phase = "rests"]
  /\ Quiet /\ UNCHANGED recon

PilotMoves(s) ==
  /\ world.faults < MaxFaults /\ doors[s].phase = "rests"
  /\ doors' = [doors EXCEPT ![s].at = AsWord(@ = "closed"), ![s].phase = "moves"]
  /\ world' = [world EXCEPT !.faults = @ + 1, !.toggled = {}, !.pilot = TRUE]
  /\ UNCHANGED recon

\* The jetway docks and leaves, which moves GSX's door to another slot.
JetwayMoves ==
  /\ \E s \in Slots \ {world.slot} : world' = [world EXCEPT !.slot = s, !.toggled = {}]
  /\ UNCHANGED <<recon, doors>>

\* GsxDoorSync writes what it has not written last.  A vehicle does not change
\* its mind before the door has begun to move.
Follow ==
  /\ \A s \in Slots : doors[s].phase # "asked"
  /\ \E open \in BOOLEAN : AsWord(open) # world.wanted /\ SetDesired(open)

Init ==
  /\ recon = [of |-> [s \in Slots |-> Unset], opened |-> NoSlot]
  /\ doors = [s \in Slots |-> [at |-> "closed", phase |-> "rests", age |-> 0]]
  /\ world \in [slot : Slots, wanted : {"closed"}, toggled : {{}}, faults : {0},
                pilot : {FALSE},
                disk : {[desired |-> [s \in Slots |-> Nothing], opened |-> NoSlot,
                         wanted |-> "closed"]}]

Next ==
  \/ Tick \/ RestoreMemory \/ Follow \/ JetwayMoves
  \/ \E s \in Slots : DoorStarts(s) \/ DoorArrives(s) \/ PilotMoves(s)

Spec == Init /\ [][Next]_pmdgVars

\* The client ticks, and a door that was told to move does and arrives.
Fairness ==
  /\ SF_pmdgVars(Tick)
  /\ \A s \in Slots : WF_pmdgVars(DoorStarts(s)) /\ WF_pmdgVars(DoorArrives(s))

FairSpec == Spec /\ Fairness

-----------------------------------------------------------------------------
TypeOK ==
  /\ \A s \in Slots : recon.of[s].ticks \in 0 .. RetryTicks /\ recon.of[s].attempts \in 0 .. MaxAttempts
  /\ recon.opened # NoSlot => recon.of[recon.opened].desired = "open"

(***************************************************************************)
(* A door is toggled only when that takes it where it is to be: never while*)
(* it moves, nor before the toggle before has shown.                       *)
(***************************************************************************)
NoToggleUndoesItself ==
  [][ \A s \in world'.toggled :
        doors[s].phase = "rests" /\ doors[s].at # recon.of[s].desired ]_pmdgVars

(***************************************************************************)
(* With GSX's door closed for good, the door of the aircraft that was      *)
(* opened for it closes, whatever the jetway has done and over a relaunch, *)
(* unless the tries are used up.                                           *)
(***************************************************************************)
GivenUp(s) == recon.of[s].attempts = MaxAttempts
WhatWasOpenedCloses ==
  <>[](world.wanted = "closed" /\ ~world.pilot)
    => <>[](\A s \in Slots : doors[s].at = "closed" \/ GivenUp(s))

(***************************************************************************)
(* The same for a door that is to be open, at the slot it was opened at.   *)
(***************************************************************************)
WhatIsWantedOpens ==
  <>[](recon.opened # NoSlot)
    => <>[](recon.opened # NoSlot => doors[recon.opened].at = "open" \/ GivenUp(recon.opened))
=============================================================================
