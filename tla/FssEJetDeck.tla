----------------------------- MODULE FssEJetDeck ------------------------------
(***************************************************************************)
(* The main deck door of the FSS E-Jet freighter                           *)
(* (FssEJetDoorsFollowGsxRule): asked for open while the main loader is at *)
(* it and for closed afterwards, reaffirmed twice when it does not show,   *)
(* and judged by its reading only once its travel had its time.  After a   *)
(* relaunch the deck stays as it was until the loader's state is read, and *)
(* one found open is claimed.                                              *)
(***************************************************************************)
EXTENDS Integers

CONSTANTS
  ReaffirmTicks,  \* kCargoDoorReaffirmTicks
  MaxReaffirms,   \* kMaxReaffirms
  BoundTicks,     \* DoorTransit::kBoundTicks
  MaxFaults       \* bound on lost requests and relaunches

VARIABLES
  slot,   \* SlotState of the deck, and what the rule knows besides
  deck,   \* the deck, what of it is read, and the memory of the turnaround
  loader  \* the main loader and the holds of the departure

deckVars == <<slot, deck, loader>>

None == "none"
Idle == -1

-----------------------------------------------------------------------------
Sees(what) == what \in deck.received
Reading == IF deck.at = 0 THEN "closed" ELSE "open"
Position == IF Sees("deck") THEN Reading ELSE "pending"
LoaderWaits == Sees("loader") /\ loader.at \in {"waiting", "serving"}

\* A travel that has begun holds a reading that is not yet its target's.
TransitHolds(s) ==
  s.transit # Idle /\ Position # "pending" /\ s.commanded # None /\ Position # s.commanded
AgeTransit(s) ==
  [s EXCEPT !.transit =
     IF @ = Idle \/ Position = s.commanded \/ @ + 1 > BoundTicks THEN Idle ELSE @ + 1]
JudgedPosition(s) == IF TransitHolds(s) THEN "pending" ELSE Position

-----------------------------------------------------------------------------
(***************************************************************************)
(* What is wanted of the deck.                                             *)
(***************************************************************************)
HoldsTheRestoredDeckOpen(s) == s.restoredOpen /\ ~Sees("loader")

ClaimsNow(s) ==
  (s.closes \/ s.reclaims) /\ Sees("deck") /\ (s.closes \/ Sees("loader"))

SetDesired(s, closeAll) ==
  LET t == [s EXCEPT !.closes = @ \/ closeAll]
      claims == ClaimsNow(t) /\ Reading = "open"
      wantsOpen == ~closeAll /\ LoaderWaits
      u == IF ClaimsNow(t) THEN [t EXCEPT !.closes = FALSE, !.reclaims = FALSE] ELSE t
      v == IF wantsOpen \/ claims \/ u.desired # None
           THEN [u EXCEPT !.desired = IF wantsOpen THEN "open" ELSE "closed",
                          !.order = IF closeAll THEN "absolute" ELSE "follow"]
           ELSE u
  IN IF claims /\ ~wantsOpen THEN [v EXCEPT !.commanded = None] ELSE v

SetMainDeckDesired(s, closeAll) ==
  IF ~closeAll /\ HoldsTheRestoredDeckOpen(s) THEN s
  ELSE SetDesired(IF closeAll THEN s ELSE [s EXCEPT !.restoredOpen = FALSE], closeAll)

(***************************************************************************)
(* What is asked for: [slot, request].                                     *)
(***************************************************************************)
Left(s) == [slot |-> s, request |-> None]
Requested(s) == [slot |-> s, request |-> s.desired]

RequestTheNewTarget(s) ==
  LET t == [s EXCEPT !.commanded = s.desired, !.order = "follow", !.since = 0, !.attempts = 0] IN
  IF JudgedPosition(s) = "pending" /\ s.order = "follow" THEN Left(s)
  ELSE IF JudgedPosition(s) = s.desired THEN Left(t)
  ELSE Requested([t EXCEPT !.transit = 0])

Reaffirm(s) ==
  IF s.since + 1 >= ReaffirmTicks /\ s.attempts < MaxReaffirms
  THEN Requested([s EXCEPT !.since = 0, !.attempts = @ + 1])
  ELSE Left([s EXCEPT !.since = IF @ < ReaffirmTicks THEN @ + 1 ELSE @])

ReconcileSlot(s) ==
  LET aged == AgeTransit(s) IN
  IF s.desired = None THEN Left(s)
  ELSE IF s.commanded # s.desired THEN RequestTheNewTarget(aged)
  ELSE IF Position = s.desired THEN Left([aged EXCEPT !.attempts = 0])
  ELSE Reaffirm(aged)

Acted ==
  ReconcileSlot(SetMainDeckDesired([slot EXCEPT !.closeAll = FALSE], slot.closeAll))

-----------------------------------------------------------------------------
(***************************************************************************)
(* The deck moves a step towards what was last asked of it in a tick; a    *)
(* request may be lost.                                                    *)
(***************************************************************************)
OpenEnd == 2
Moved(d) ==
  IF d.goal = "open" /\ d.at < OpenEnd THEN [d EXCEPT !.at = @ + 1]
  ELSE IF d.goal = "closed" /\ d.at > 0 THEN [d EXCEPT !.at = @ - 1] ELSE d

Fault == deck.faults < MaxFaults

Act ==
  /\ deck.up
  /\ \E done \in {Acted} :
       /\ slot' = done.slot
       /\ \/ /\ done.request = None
             /\ deck' = Moved(deck)
          \/ /\ done.request # None
             /\ deck' = Moved([deck EXCEPT
                  !.goal = done.request,
                  !.shut = @ \/ (done.request = "closed" /\ Sees("loader") /\ LoaderWaits
                                   /\ ~slot.closeAll)])
          \/ /\ Fault /\ done.request # None
             /\ deck' = Moved([deck EXCEPT !.faults = @ + 1])
  /\ loader' = [loader EXCEPT !.looked = Sees("loader")]

Receives ==
  /\ deck.up
  /\ \E what \in {"deck", "loader"} \ deck.received :
       deck' = [deck EXCEPT !.received = @ \cup {what}]
  /\ UNCHANGED <<slot, loader>>

-----------------------------------------------------------------------------
(***************************************************************************)
(* CloseAllDoors, the hold for the departure and the relaunch (FssEJet).   *)
(* A hold that was there before the relaunch asks for nothing again.       *)
(***************************************************************************)
CloseAllDoors ==
  /\ deck.up /\ ~slot.closeAll /\ loader.at = "away" /\ loader.hold = None
  /\ slot' = [slot EXCEPT !.closeAll = TRUE]
  /\ UNCHANGED <<deck, loader>>

HoldDoorsClosed ==
  /\ deck.up /\ loader.at = "away" /\ loader.hold = None
  /\ loader' = [loader EXCEPT !.hold = "held"]
  /\ slot' = [slot EXCEPT !.closeAll = TRUE]
  /\ UNCHANGED deck

NewSlot ==
  [desired |-> None, commanded |-> None, order |-> "follow", attempts |-> 0, since |-> 0,
   transit |-> Idle, restoredOpen |-> FALSE, closes |-> FALSE, reclaims |-> FALSE,
   closeAll |-> FALSE]

\* The memory holds what was wanted at the last tick.
ClientEnds ==
  /\ deck.up /\ Fault
  /\ deck' = [deck EXCEPT !.up = FALSE, !.received = {}, !.faults = @ + 1,
                          !.relaunched = TRUE]
  /\ slot' = [NewSlot EXCEPT !.desired = slot.desired]
  /\ UNCHANGED loader

OnTurnaroundResumed ==
  /\ ~deck.up
  /\ deck' = [deck EXCEPT !.up = TRUE]
  /\ slot' = [NewSlot EXCEPT !.desired = slot.desired, !.commanded = slot.desired,
                             !.attempts = IF slot.desired = None THEN 0 ELSE MaxReaffirms,
                             !.restoredOpen = slot.desired = "open", !.reclaims = TRUE]
  /\ UNCHANGED loader

MovesOn ==
  /\ ~deck.up /\ Moved(deck) # deck
  /\ deck' = Moved(deck)
  /\ UNCHANGED <<slot, loader>>

-----------------------------------------------------------------------------
LoaderComes ==
  /\ deck.up => loader.looked
  /\ loader.at = "away" /\ loader.hold = None
  /\ loader' = [loader EXCEPT !.at = "waiting", !.looked = FALSE]
  /\ UNCHANGED <<slot, deck>>

LoaderServes ==
  /\ deck.up => loader.looked
  /\ loader.at = "waiting" /\ deck.at = OpenEnd
  /\ loader' = [loader EXCEPT !.at = "serving", !.looked = FALSE]
  /\ UNCHANGED <<slot, deck>>

LoaderLeaves ==
  /\ deck.up => loader.looked
  /\ loader.at # "away"
  /\ loader' = [loader EXCEPT !.at = "away", !.looked = FALSE]
  /\ UNCHANGED <<slot, deck>>

-----------------------------------------------------------------------------
Init ==
  /\ slot = NewSlot
  /\ deck = [at |-> 0, goal |-> "closed", received |-> {"deck", "loader"}, up |-> TRUE,
             relaunched |-> FALSE, shut |-> FALSE, faults |-> 0]
  /\ loader = [at |-> "away", hold |-> None, looked |-> TRUE]

Next ==
  \/ Act \/ Receives \/ CloseAllDoors \/ HoldDoorsClosed \/ ClientEnds \/ OnTurnaroundResumed
  \/ MovesOn \/ LoaderComes \/ LoaderServes \/ LoaderLeaves

Spec == Init /\ [][Next]_deckVars
FairSpec ==
  /\ Spec /\ WF_deckVars(Act) /\ WF_deckVars(Receives) /\ WF_deckVars(OnTurnaroundResumed)

-----------------------------------------------------------------------------
TypeOK ==
  /\ slot.attempts \in 0 .. MaxReaffirms /\ slot.since \in 0 .. ReaffirmTicks
  /\ slot.transit \in Idle .. BoundTicks /\ deck.at \in 0 .. OpenEnd
  /\ slot.desired = None => slot.commanded = None

(***************************************************************************)
(* The deck is not closed on a loader that is read at it, the client's own *)
(* wish for all doors closed aside.                                        *)
(***************************************************************************)
DeckIsNotClosedOnItsLoader == ~deck.shut

(***************************************************************************)
(* The deck opens for a loader that stays, with a request lost, and closes *)
(* behind one that has left, also with the client relaunched anywhere      *)
(* between.  (A relaunch before an opening that was wanted took effect     *)
(* takes the wish for done, and does not repeat it.)                       *)
(***************************************************************************)
DeckFollowsItsLoader ==
  /\ []<>(loader.at = "waiting" => deck.at = OpenEnd \/ deck.relaunched)
  /\ []<>(loader.at = "away" => deck.at = 0)
=============================================================================
