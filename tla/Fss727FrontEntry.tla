--------------------------- MODULE Fss727FrontEntry ---------------------------
(***************************************************************************)
(* The front entry door of the FSS 727 (Fss727FrontEntryServesThe-         *)
(* GroundAccessRule): open for the jetway or the stairs, closed behind     *)
(* them, on request and for the departure.  After a relaunch the variables *)
(* it goes by arrive one by one, and until all of them have, the door that *)
(* was open stays so.                                                      *)
(***************************************************************************)
EXTENDS Integers

CONSTANT MaxFaults  \* bound on relaunches of the client and ends of couatl

VARIABLES
  entry,   \* the rule, with the counters of the close requests as one flag
  door,    \* the door, its goal, and the inputs received
  access   \* the jetway or stairs, couatl and the hold for the departure

entryVars == <<entry, door, access>>

None == "none"
Inputs == {"couatl", "access", "position"}

-----------------------------------------------------------------------------
Sees(what) == what \in door.received
HaveTheInputsArrived == {"couatl", "access"} \subseteq door.received
Held == access.hold = "held"
IsGsxRunning == Sees("couatl") /\ access.couatl
IsFrontEntryWanted == ~Held /\ Sees("access") /\ access.docked
Target == IF IsFrontEntryWanted THEN "open" ELSE "closed"

\* A door between its ends, and one not read, are pending.
Position == IF Sees("position") /\ door.at = door.goal THEN door.at ELSE "pending"

\* The rule and the goal after it; a door that is there is recorded, not commanded.
Left(e) == [entry |-> e, goal |-> door.goal]
Record(e, target) == Left([e EXCEPT !.last = target, !.restoredOpen = FALSE])
Command(e, target) == [Record(e, target) EXCEPT !.goal = target]

CloseOnRequest(e) ==
  IF Position = "closed" THEN Record(e, "closed") ELSE Command(e, "closed")

FollowTheGroundAccess(e) ==
  IF Position = "pending" THEN Left(e)
  ELSE IF Position = Target THEN Record(e, Target)
  ELSE Command(e, Target)

Acted(e) ==
  IF Target = "closed" /\ e.restoredOpen /\ ~Held THEN Left(e)
  ELSE IF Target = "closed" /\ e.unserved THEN CloseOnRequest([e EXCEPT !.unserved = FALSE])
  ELSE IF ~Held /\ ~IsGsxRunning THEN Left(e)
  ELSE IF Target = e.last \/ (e.last = None /\ Target = "closed") THEN Left(e)
  ELSE FollowTheGroundAccess(e)

Act ==
  /\ door.up
  /\ \E done \in {Acted([entry EXCEPT !.restoredOpen = @ /\ ~HaveTheInputsArrived])} :
       /\ entry' = done.entry
       /\ door' = [door EXCEPT !.goal = done.goal]
  /\ UNCHANGED access

Receives ==
  /\ door.up
  /\ \E what \in Inputs \ door.received : door' = [door EXCEPT !.received = @ \cup {what}]
  /\ UNCHANGED <<entry, access>>

\* The door reaches its goal within a tick or some.
DoorMoves ==
  /\ door.at # door.goal
  /\ door' = [door EXCEPT !.at = door.goal]
  /\ UNCHANGED <<entry, access>>

-----------------------------------------------------------------------------
CloseAllDoors ==
  /\ door.up /\ ~entry.unserved
  /\ entry' = [entry EXCEPT !.unserved = TRUE]
  /\ UNCHANGED <<door, access>>

\* Held once for a departure.
HoldDoorsClosed ==
  /\ door.up /\ access.hold # "over"
  /\ access' = [access EXCEPT !.hold = IF Held THEN "over" ELSE "held"]
  /\ UNCHANGED <<entry, door>>

\* TurnaroundMemory keeps the target that was commanded and a close not served;
\* the phase asks for its hold again.
ClientEnds ==
  /\ door.up /\ access.faults < MaxFaults
  /\ door' = [door EXCEPT !.up = FALSE, !.received = {}]
  /\ access' = [access EXCEPT !.faults = @ + 1]
  /\ UNCHANGED entry

OnTurnaroundResumed ==
  /\ ~door.up
  /\ entry' = [entry EXCEPT !.restoredOpen = entry.last = "open"]
  /\ door' = [door EXCEPT !.up = TRUE]
  /\ UNCHANGED access

-----------------------------------------------------------------------------
AccessComes ==
  /\ ~access.docked /\ access.couatl
  /\ access' = [access EXCEPT !.docked = TRUE]
  /\ UNCHANGED <<entry, door>>

AccessLeaves ==
  /\ access.docked
  /\ access' = [access EXCEPT !.docked = FALSE]
  /\ UNCHANGED <<entry, door>>

\* Without couatl its vehicles are gone as well.
CouatlEnds ==
  /\ access.couatl /\ access.faults < MaxFaults
  /\ access' = [access EXCEPT !.couatl = FALSE, !.docked = FALSE, !.faults = @ + 1]
  /\ UNCHANGED <<entry, door>>

CouatlStarts ==
  /\ ~access.couatl
  /\ access' = [access EXCEPT !.couatl = TRUE]
  /\ UNCHANGED <<entry, door>>

-----------------------------------------------------------------------------
Init ==
  /\ entry = [last |-> None, restoredOpen |-> FALSE, unserved |-> FALSE]
  /\ door = [at |-> "closed", goal |-> "closed", received |-> Inputs, up |-> TRUE]
  /\ access = [docked |-> FALSE, couatl |-> TRUE, hold |-> None, faults |-> 0]

Next ==
  \/ Act \/ Receives \/ DoorMoves \/ CloseAllDoors \/ HoldDoorsClosed \/ ClientEnds
  \/ OnTurnaroundResumed \/ AccessComes \/ AccessLeaves \/ CouatlEnds \/ CouatlStarts

Spec == Init /\ [][Next]_entryVars
FairSpec ==
  /\ Spec /\ WF_entryVars(Act) /\ WF_entryVars(Receives) /\ WF_entryVars(DoorMoves)
  /\ WF_entryVars(OnTurnaroundResumed)

-----------------------------------------------------------------------------
TypeOK ==
  /\ entry.last \in {None, "open", "closed"}
  /\ entry.restoredOpen => entry.last = "open"
  /\ door.goal = "open" => entry.last = "open"

(***************************************************************************)
(* The door is not shut on a jetway or stairs at it but for the departure: *)
(* not on a close asked for while they stand there, and not after a        *)
(* relaunch that still reads them as away (HaveTheInputsArrived).          *)
(***************************************************************************)
EntryIsNotShutOnItsAccess ==
  [][door.goal = "open" /\ door'.goal = "closed" => ~access.docked \/ Held]_entryVars

(***************************************************************************)
(* The door is open for an access that stays, and closed behind one that   *)
(* has left for good, over relaunches of the client and of couatl.         *)
(***************************************************************************)
EntryFollowsItsAccess ==
  /\ []<>(access.docked => door.at = "open" \/ access.hold # None)
  /\ []<>(~access.docked /\ access.couatl => door.at = "closed")
  /\ []<>(Held => door.at = "closed")
=============================================================================
