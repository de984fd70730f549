----------------------------- MODULE FslabsHolds -----------------------------
(***************************************************************************)
(* Closing the FSLabs A321neo's cargo holds once GSX's loader has left     *)
(* (FslabsHolds) over an endpoint that only toggles and is read by         *)
(* polling (FslabsGroundClient): toggles are lost, readings come late or   *)
(* not at all, the hold takes its time and the pilot has a hand in it.     *)
(***************************************************************************)
EXTENDS Integers

CONSTANTS
  ToggleShows,  \* kTicksAToggleGetsToShowUp
  MaxToggles,   \* kTogglesBeforeGivingUp
  Travel,       \* ticks a hold takes to close, and a reading to come, together
  MaxFaults     \* bound on lost toggles, failed polls and toggles of the pilot

VARIABLES
  follow,  \* FslabsHolds, for one hold
  ground,  \* FslabsGroundClient
  hold     \* the hold and its loader (environment)

holdVars == <<follow, ground, hold>>

None == "none"
Readings == {"closed", "open", "closing"}

-----------------------------------------------------------------------------
(***************************************************************************)
(* The endpoint's client: one poll at a time, two failures in a row take   *)
(* it for gone, and the last reading stays.                                *)
(***************************************************************************)
Answered(reading) ==
  [ground EXCEPT !.polling = FALSE, !.reading = reading, !.available = TRUE, !.failures = 0]
Failed ==
  [ground EXCEPT !.polling = FALSE, !.failures = IF @ < 2 THEN @ + 1 ELSE @,
                 !.available = @ /\ ground.failures = 0]

-----------------------------------------------------------------------------
(***************************************************************************)
(* One tick of a hold: [follow, toggles].                                  *)
(***************************************************************************)
Kept(f) == [follow |-> f, toggles |-> FALSE]
NotDue(f) == [f EXCEPT !.closeIsDue = FALSE]

NeverToggles(f) == f.toggles > 0
WaitsForTheLastToggle(f) == f.toggles > 0 /\ f.since < ToggleShows

CloseTheHold(f) ==
  IF ~ground.available \/ ground.reading = None THEN Kept(f)
  ELSE IF ground.reading = "closed" THEN Kept(NotDue(f))
  ELSE IF ground.reading # "open" \/ WaitsForTheLastToggle(f) THEN Kept(f)
  ELSE IF f.toggles >= MaxToggles THEN Kept(NotDue(f))
  ELSE [follow |-> [f EXCEPT !.toggles = @ + 1, !.since = 0], toggles |-> TRUE]

AtTheDoor(f) ==
  [NotDue(f) EXCEPT !.served = @ \/ hold.loader = "serving", !.toggles = 0]

\* A loader that finishes or retracts is still at the door.
NoteTheLoader(f) ==
  IF hold.loader # "away" THEN AtTheDoor(f)
  ELSE IF f.served THEN [f EXCEPT !.closeIsDue = TRUE, !.served = FALSE]
  ELSE f

\* Times past the one that is waited for are not counted.
Aged == [follow EXCEPT !.since = IF @ < ToggleShows THEN @ + 1 ELSE @]

AdvanceHold(f) == IF f.closeIsDue THEN CloseTheHold(f) ELSE Kept(f)

-----------------------------------------------------------------------------
(***************************************************************************)
(* The hold goes on closing with the ticks; a toggle reverses it.          *)
(***************************************************************************)
Moved ==
  IF hold.closingIn = 0 THEN hold
  ELSE [hold EXCEPT !.closingIn = @ - 1, !.at = IF hold.closingIn = 1 THEN "closed" ELSE @]

Toggled(h) ==
  IF h.at = "open" THEN [h EXCEPT !.at = "closing", !.closingIn = Travel]
  ELSE [h EXCEPT !.at = "open", !.closingIn = 0]

Fault == hold.faults < MaxFaults
FaultOf(h) == [h EXCEPT !.faults = @ + 1]

\* The poll of the tick, then the hold on the reading of an earlier one.  Seen is
\* for the loader, which is looked at between each two of its steps.
Advance ==
  /\ ~ground.polling
  /\ ground' = [ground EXCEPT !.polling = TRUE]
  /\ \E done \in {AdvanceHold(NoteTheLoader(Aged))}, h \in {[Moved EXCEPT !.seen = TRUE]} :
       /\ follow' = done.follow
       /\ \/ ~done.toggles /\ hold' = h
          \/ done.toggles /\ hold' = [Toggled(h) EXCEPT !.reopened = @ \/ h.at # "open"]
          \/ Fault /\ done.toggles /\ hold' = FaultOf(h)

\* A poll that is still under way at the next tick counts as one that failed.
OnGroundFinished ==
  /\ ground.polling
  /\ \/ ground' = Answered(hold.at) /\ UNCHANGED hold
     \/ Fault /\ ground' = Failed /\ hold' = FaultOf(hold)
  /\ UNCHANGED follow

NewFollow == [closeIsDue |-> FALSE, served |-> FALSE, toggles |-> 0, since |-> 0]
ResetForNewTurnaround ==
  /\ hold.loader = "away" /\ ~follow.closeIsDue /\ ~follow.served
  /\ follow' = NewFollow
  /\ UNCHANGED <<ground, hold>>

LoaderSteps == {<<"away", "serving">>, <<"serving", "leaving">>, <<"leaving", "away">>}
LoaderMoves ==
  /\ hold.seen
  /\ \E to \in {"serving", "leaving", "away"} :
       /\ <<hold.loader, to>> \in LoaderSteps
       /\ to = "serving" => hold.at = "open"
       /\ hold' = [hold EXCEPT !.loader = to, !.seen = FALSE]
  /\ UNCHANGED <<follow, ground>>

PilotToggles ==
  /\ Fault /\ hold.loader = "away"
  /\ hold' = [FaultOf(Toggled(hold)) EXCEPT !.pilots = TRUE]
  /\ UNCHANGED <<follow, ground>>

-----------------------------------------------------------------------------
Init ==
  /\ follow = NewFollow
  /\ ground = [polling |-> FALSE, reading |-> None, available |-> FALSE, failures |-> 0]
  /\ hold \in [at : {"closed", "open"}, closingIn : {0}, loader : {"away"}, seen : {TRUE},
               reopened : {FALSE}, pilots : {FALSE}, faults : {0}]

Next ==
  Advance \/ OnGroundFinished \/ ResetForNewTurnaround \/ LoaderMoves \/ PilotToggles

Spec == Init /\ [][Next]_holdVars
LoaderLeaves == hold.loader = "leaving" /\ LoaderMoves
FairSpec ==
  /\ Spec /\ WF_holdVars(Advance) /\ WF_holdVars(OnGroundFinished)
  /\ WF_holdVars(LoaderLeaves)

-----------------------------------------------------------------------------
TypeOK ==
  /\ follow.toggles \in 0 .. MaxToggles /\ follow.since \in 0 .. ToggleShows
  /\ ground.reading \in Readings \cup {None} /\ ground.failures \in 0 .. 2
  /\ hold.closingIn \in 0 .. Travel /\ (hold.closingIn > 0) = (hold.at = "closing")
  /\ ~(follow.closeIsDue /\ follow.served)

(***************************************************************************)
(* A toggle meant to close a hold never opens it again: not on a reading   *)
(* from before the last toggle, nor on one from before the endpoint was    *)
(* lost (WaitsForTheLastToggle).  The pilot's own toggles are excepted.    *)
(***************************************************************************)
NoToggleReopens == hold.reopened => hold.pilots

(***************************************************************************)
(* A loader that comes back to a hold finds it open and keeps it open,     *)
(* although closing was due when it left (NoteTheLoader).                  *)
(***************************************************************************)
LoaderKeepsItsHold == hold.loader = "serving" => hold.at = "open"

(***************************************************************************)
(* A hold its loader has left is closed, with lost toggles and polls made  *)
(* up for, unless a loader comes back or the pilot takes it over.          *)
(***************************************************************************)
LeftHoldIsClosed ==
  hold.loader = "leaving"
    ~> (hold.at = "closed" \/ hold.loader = "serving" \/ hold.pilots)
=============================================================================
