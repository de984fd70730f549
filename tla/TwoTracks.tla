------------------------------ MODULE TwoTracks ------------------------------
(***************************************************************************)
(* What the loading of an aircraft promises: refueling and boarding each   *)
(* go from Waiting over Running to Done, in any order and also within one  *)
(* tick, neither goes back, and the phase is left only when both are Done. *)
(***************************************************************************)
VARIABLES
  refuel,    \* how far the refueling is
  boarding,  \* how far the boarding is
  left       \* the loading phase has been left

vars == <<refuel, boarding, left>>

Stages == {"Waiting", "Running", "Done"}

GoesOn(from, to) ==
  \/ to = from
  \/ from = "Waiting" /\ to \in Stages
  \/ from = "Running" /\ to = "Done"

Init ==
  /\ refuel = "Waiting"
  /\ boarding = "Waiting"
  /\ left = FALSE

Next ==
  /\ \E r \in Stages, b \in Stages, l \in BOOLEAN :
       /\ refuel' = r
       /\ boarding' = b
       /\ left' = l
  /\ ~left
  /\ GoesOn(refuel, refuel')
  /\ GoesOn(boarding, boarding')
  /\ left' => refuel' = "Done" /\ boarding' = "Done"

Spec == Init /\ [][Next]_vars
==============================================================================
