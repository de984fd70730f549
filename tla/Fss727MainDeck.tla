---------------------------- MODULE Fss727MainDeck ----------------------------
(***************************************************************************)
(* The main deck door of the FSS 727 freighter, moved by its cargo panel   *)
(* (Fss727MainDeckMovesByTheCargoPanelRule): the panel's master stays on   *)
(* for a whole travel and goes off at an end, the deck opens for a loader  *)
(* that waits, and closes once the loader has left it, once the deboarding *)
(* completes, or when the client asks for its doors closed.  The rule only *)
(* sees the position once a tick, and a relaunch of the client knows no    *)
(* more of a travel than what the turnaround saved.                        *)
(***************************************************************************)
EXTENDS Integers

CONSTANTS
  WideOpen,      \* the deck's open end; 0 is the closed one
  RestTicks,     \* kRestingTicks
  StartTicks,    \* kTravelStartTicks
  GuardTicks,    \* kMasterCutGuardTicks
  GiveUpTicks,   \* kMainLoaderGiveUpTicks
  MaxFaults      \* bound on relaunches, stalls and decks short of their end

VARIABLES
  rule,   \* the rule, with the counters of the close requests as one flag
  deck,   \* the deck, its panel and what of it the client has received
  gsx     \* boarding and deboarding, and the main loader

deckVars == <<rule, deck, gsx>>

Unseen == -1
None == "none"
Ends == [opening |-> WideOpen, closing |-> 0]
AtAnEnd == deck.at \in {0, WideOpen}

Rest == [moved : BOOLEAN, last : {Unseen} \cup 0 .. WideOpen, still : 0 .. RestTicks]
RestAt(position) == [moved |-> FALSE, last |-> position, still |-> 0]

\* Fss727DoorRest; ticks at rest past the ones waited for are not counted.
Followed(rest) ==
  IF rest.last = deck.at
  THEN [rest EXCEPT !.still = IF @ < RestTicks THEN @ + 1 ELSE @]
  ELSE [moved |-> rest.moved \/ rest.last # Unseen, last |-> deck.at, still |-> 0]
ComeToRest(rest) == rest.moved /\ rest.still >= RestTicks

-----------------------------------------------------------------------------
(***************************************************************************)
(* What the rule sees of GSX.  IsLoaderServingTheDoor holds from a loader  *)
(* that waits for the door to one that loads.                              *)
(***************************************************************************)
Sees(what) == what \in deck.received
LoaderServes == gsx.loader \in {"waiting", "serving"}
HasTheMainLoaderLeft == Sees("gsx") /\ ~LoaderServes
Underway == gsx.service \in {"boarding", "deboarding"}
WorksTheDoors == Underway \/ gsx.service = "completing"
LoaderWaits == Sees("gsx") /\ Underway /\ gsx.hold # "held" /\ gsx.loader = "waiting"

CloseIsPending(r) == (r.unserved \/ r.loaderLeft) /\ (r.loaderLeft \/ ~WorksTheDoors)
Served(r) == [r EXCEPT !.unserved = FALSE, !.loaderLeft = FALSE]

-----------------------------------------------------------------------------
(***************************************************************************)
(* The steps of one tick, each on the rule and the panel [rule, master,    *)
(* switch] the one before it left.                                         *)
(***************************************************************************)
Panel == [rule |-> rule, master |-> deck.master, switch |-> deck.switch]

StartTravel(p, travel) ==
  [rule |-> [p.rule EXCEPT !.travel = travel, !.check = FALSE, !.guard = 0,
                           !.mayResume = TRUE, !.unmoved = 0, !.rest = RestAt(deck.at)],
   master |-> TRUE, switch |-> Ends[travel]]

TurnTheMasterOff(p) ==
  [p EXCEPT !.master = FALSE, !.rule.guard = IF p.rule.mayResume THEN GuardTicks ELSE 0]

\* A deck short of its end right after the cut gets the master and its travel back.
GuardTheMasterCut(p) ==
  IF p.rule.guard = 0 \/ ~Sees("deck") THEN p
  ELSE IF AtAnEnd THEN [p EXCEPT !.rule.guard = @ - 1]
  ELSE [p EXCEPT !.master = TRUE, !.rule.guard = 0, !.rule.mayResume = FALSE,
                 !.rule.travel = p.rule.cut, !.rule.unmoved = 0,
                 !.rule.rest = RestAt(deck.at)]

DeboardingCompleted(r) ==
  /\ r.atWork
  /\ \/ gsx.service = "completed"
     \/ r.mayHaveEnded /\ gsx.service = "callable"

CloseOnceDeboarded(p) ==
  IF (p.rule.awaited /\ ~Sees("gsx")) \/ (DeboardingCompleted(p.rule) /\ ~Sees("deck"))
  THEN [p EXCEPT !.rule.awaited = @ /\ ~Sees("gsx")]
  ELSE [p EXCEPT !.rule.awaited = FALSE, !.rule.mayHaveEnded = FALSE,
                 !.rule.atWork = gsx.service \in {"deboarding", "completing"},
                 !.rule.unserved = @ \/ (DeboardingCompleted(p.rule) /\ deck.at # 0)]

CloseOnceTheLoaderLeft(p) ==
  IF Sees("gsx") /\ LoaderServes THEN [p EXCEPT !.rule.seen = TRUE]
  ELSE IF p.rule.seen /\ HasTheMainLoaderLeft /\ Sees("deck")
  THEN [p EXCEPT !.rule.seen = FALSE, !.rule.loaderLeft = @ \/ deck.at # 0]
  ELSE p

\* What a travel was followed by is looked at by no one after it.
Ended(r) == [r EXCEPT !.travel = None, !.rest = RestAt(Unseen), !.unmoved = 0]
EndTravel(p) ==
  IF p.rule.travel = "closing" THEN [p EXCEPT !.rule = Served(Ended(@))]
  ELSE [p EXCEPT !.rule = Ended(@)]
Cut(p) == [EndTravel(p) EXCEPT !.rule.cut = p.rule.travel]

FinishTravel(p) ==
  IF ~Sees("deck") THEN p
  ELSE LET q == [p EXCEPT !.rule.rest = Followed(@),
                          !.rule.unmoved = IF Followed(p.rule.rest).moved THEN @ ELSE @ + 1] IN
    IF ~q.rule.rest.moved /\ q.rule.unmoved >= StartTicks THEN EndTravel(q)
    ELSE IF ~ComeToRest(q.rule.rest) THEN q
    ELSE IF ~AtAnEnd THEN Cut(q)
    ELSE TurnTheMasterOff(Cut(q))

ServeThePendingClose(p) ==
  IF ~HasTheMainLoaderLeft /\ p.rule.waited + 1 < GiveUpTicks
  THEN [p EXCEPT !.rule.waited = @ + 1]
  ELSE LET q == [p EXCEPT !.rule.waited = 0] IN
    IF deck.at = 0 THEN [q EXCEPT !.rule = Served(@)] ELSE StartTravel(q, "closing")

TurnOffTheMasterLeftOn(p) ==
  IF ~(p.rule.check /\ Sees("deck") /\ deck.rest.still >= RestTicks) THEN p
  ELSE IF p.master /\ AtAnEnd THEN TurnTheMasterOff([p EXCEPT !.rule.check = FALSE])
  ELSE [p EXCEPT !.rule.check = FALSE]

MoveTheDeck(p) ==
  IF p.rule.travel # None THEN FinishTravel(p)
  ELSE IF ~Sees("deck") THEN p
  ELSE IF CloseIsPending(p.rule) THEN ServeThePendingClose(p)
  ELSE LET q == [p EXCEPT !.rule.waited = 0] IN
    IF deck.at = 0 /\ LoaderWaits THEN StartTravel(q, "opening") ELSE TurnOffTheMasterLeftOn(q)

Acted == MoveTheDeck(CloseOnceTheLoaderLeft(CloseOnceDeboarded(GuardTheMasterCut(Panel))))

-----------------------------------------------------------------------------
(***************************************************************************)
(* The deck goes to the end its switch stands at for as long as the master *)
(* is on; a fault freezes it for good, or lets it sag off its end when the *)
(* master goes off.                                                        *)
(***************************************************************************)
Fault == deck.faults < MaxFaults
Towards(end) ==
  IF deck.frozen \/ deck.at = end THEN deck.at
  ELSE IF deck.at < end THEN deck.at + 1 ELSE deck.at - 1

\* mainDeckRest_, followed for as long as the check asks for it.
Observed(r) ==
  IF ~r.check THEN RestAt(Unseen) ELSE IF Sees("deck") THEN Followed(deck.rest) ELSE deck.rest

\* The deck starts to close with a loader at work in it that was not waited for.
HitsTheLoader(p) ==
  gsx.loader = "serving" /\ deck.at = WideOpen /\ p.rule.travel = "closing"
    /\ rule.travel = None /\ rule.waited + 1 < GiveUpTicks

Act ==
  /\ deck.up
  /\ \E p \in {Acted} :
       /\ rule' = p.rule
       /\ LET worked == [deck EXCEPT !.master = p.master, !.switch = p.switch,
                                     !.at = IF p.master THEN Towards(p.switch) ELSE @,
                                     !.rest = Observed(p.rule), !.hit = @ \/ HitsTheLoader(p)]
         IN \/ deck' = worked
            \/ /\ Fault /\ deck.master /\ ~p.master
               /\ deck' = [worked EXCEPT !.at = 1, !.faults = @ + 1]
  /\ gsx' = [gsx EXCEPT !.looked = Sees("gsx"), !.owed = @ /\ deck.at # 0]

DeckFreezes ==
  /\ Fault /\ deck.master
  /\ deck' = [deck EXCEPT !.frozen = TRUE, !.faults = @ + 1]
  /\ UNCHANGED <<rule, gsx>>

Receives ==
  /\ deck.up
  /\ \E what \in {"deck", "gsx"} \ deck.received :
       deck' = [deck EXCEPT !.received = @ \cup {what}]
  /\ UNCHANGED <<rule, gsx>>

-----------------------------------------------------------------------------
(***************************************************************************)
(* What the client asks of the doors (Fss727), and its end and relaunch    *)
(* with what TurnaroundMemory kept.                                        *)
(***************************************************************************)
\* On a closed deck a request is served by the next tick and moves nothing.
CloseAllDoors ==
  /\ deck.up /\ deck.at # 0 /\ gsx.service \in {"callable", "completed"} /\ ~rule.unserved
  /\ rule' = [rule EXCEPT !.unserved = TRUE]
  /\ UNCHANGED <<deck, gsx>>

\* The doors are held once for a departure, and let go of when it is over.
HoldDoorsClosed ==
  /\ deck.up /\ gsx.service \in {"callable", "completed"}
  /\ \E to \in {"held", "over"} :
       /\ <<gsx.hold, to>> \in {<<"none", "held">>, <<"held", "over">>}
       /\ gsx' = [gsx EXCEPT !.hold = to]
       /\ rule' = [rule EXCEPT !.unserved = @ \/ to = "held"]
  /\ UNCHANGED deck

Fresh ==
  [travel |-> None, cut |-> None, rest |-> RestAt(Unseen), unmoved |-> 0, guard |-> 0,
   mayResume |-> FALSE, check |-> FALSE, waited |-> 0, unserved |-> FALSE, loaderLeft |-> FALSE,
   atWork |-> FALSE, awaited |-> FALSE, mayHaveEnded |-> FALSE, seen |-> FALSE]

\* The checkpoint is written on the way: what it holds of the rule goes on as it was.
ClientEnds ==
  /\ deck.up /\ Fault
  /\ deck' = [deck EXCEPT !.up = FALSE, !.received = {}, !.faults = @ + 1,
                          !.rest = RestAt(Unseen)]
  /\ rule' = [Fresh EXCEPT !.unserved = rule.unserved \/ rule.loaderLeft,
                           !.loaderLeft = rule.loaderLeft,
                           !.atWork = rule.atWork, !.seen = rule.seen]
  /\ UNCHANGED gsx

\* RestoreTheEdges, CheckThePanelMasterLeftOn, and the phase asks for its hold again.
OnTurnaroundResumed ==
  /\ ~deck.up
  /\ rule' = [rule EXCEPT !.awaited = rule.atWork, !.mayHaveEnded = rule.atWork /\ ~gsx.restarted,
                          !.check = TRUE, !.unserved = @ \/ gsx.hold = "held"]
  /\ deck' = [deck EXCEPT !.up = TRUE]
  /\ gsx' = [gsx EXCEPT !.restarted = FALSE]

\* Without the client the deck goes on to where its switch stands.
MovesOn ==
  /\ ~deck.up /\ deck.master /\ deck.at # Towards(deck.switch)
  /\ deck' = [deck EXCEPT !.at = Towards(deck.switch)]
  /\ UNCHANGED <<rule, gsx>>

-----------------------------------------------------------------------------
(***************************************************************************)
(* GSX: a service has its door work done and completes, its loader comes   *)
(* to the deck, serves it when it is open and leaves.  Each step is looked *)
(* at while the client runs.                                               *)
(***************************************************************************)
ServiceSteps ==
  {<<"callable", "boarding">>, <<"callable", "deboarding">>, <<"boarding", "callable">>,
   <<"deboarding", "completing">>, <<"completing", "completed">>, <<"completed", "callable">>}

ServiceMoves ==
  /\ deck.up => gsx.looked
  /\ \E to \in {"callable", "boarding", "deboarding", "completing", "completed"} :
       /\ <<gsx.service, to>> \in ServiceSteps
       /\ to \in {"boarding", "deboarding"} => gsx.hold # "held" /\ gsx.loader = "away" /\ deck.up
       /\ gsx' = [gsx EXCEPT !.service = to, !.looked = FALSE]
  /\ UNCHANGED <<rule, deck>>

LoaderComes ==
  /\ (deck.up => gsx.looked) /\ Underway /\ gsx.loader = "away"
  /\ gsx' = [gsx EXCEPT !.loader = "waiting", !.looked = FALSE, !.owed = FALSE]
  /\ UNCHANGED <<rule, deck>>

LoaderServesTheDeck ==
  /\ (deck.up => gsx.looked) /\ gsx.loader = "waiting" /\ deck.at = WideOpen /\ deck.switch = WideOpen
  /\ gsx' = [gsx EXCEPT !.loader = "serving", !.looked = FALSE]
  /\ UNCHANGED <<rule, deck>>

LoaderLeaves ==
  /\ (deck.up => gsx.looked) /\ LoaderServes
  /\ gsx' = [gsx EXCEPT !.loader = "away", !.looked = FALSE, !.owed = gsx.loader = "serving"]
  /\ UNCHANGED <<rule, deck>>

CouatlRestarts ==
  /\ ~deck.up /\ ~gsx.restarted
  /\ gsx' = [gsx EXCEPT !.restarted = TRUE, !.service = "callable", !.loader = "away",
                        !.owed = gsx.loader = "serving"]
  /\ UNCHANGED <<rule, deck>>

-----------------------------------------------------------------------------
Init ==
  /\ rule = Fresh
  /\ deck = [at |-> 0, switch |-> 0, master |-> FALSE, received |-> {"deck", "gsx"}, rest |-> RestAt(Unseen),
             up |-> TRUE, frozen |-> FALSE, hit |-> FALSE, faults |-> 0]
  /\ gsx = [service |-> "callable", loader |-> "away", hold |-> None, restarted |-> FALSE,
            looked |-> TRUE, owed |-> FALSE]

Next ==
  \/ Act \/ DeckFreezes \/ Receives \/ CloseAllDoors \/ HoldDoorsClosed \/ ClientEnds \/ OnTurnaroundResumed
  \/ MovesOn \/ ServiceMoves \/ LoaderComes \/ LoaderServesTheDeck \/ LoaderLeaves
  \/ CouatlRestarts

Spec == Init /\ [][Next]_deckVars
FairSpec ==
  /\ Spec /\ WF_deckVars(Act) /\ WF_deckVars(Receives) /\ WF_deckVars(OnTurnaroundResumed)
  /\ WF_deckVars(LoaderLeaves)

-----------------------------------------------------------------------------
TypeOK ==
  /\ rule.rest \in Rest /\ deck.rest \in Rest /\ deck.at \in 0 .. WideOpen
  /\ rule.guard \in 0 .. GuardTicks /\ rule.waited \in 0 .. GiveUpTicks - 1
  /\ rule.unmoved \in 0 .. StartTicks
  /\ rule.travel # None => deck.up /\ deck.switch = Ends[rule.travel]

(***************************************************************************)
(* The deck never starts to close on a loader at work in it before the     *)
(* loader has outstayed its deadline, not even right after a relaunch with *)
(* a close that was pending (HasTheMainLoaderLeft waits for the reading).  *)
(***************************************************************************)
DeckIsKeptOpenForItsLoader == ~deck.hit

(***************************************************************************)
(* A deck held for departure ends closed, and a loader that has left an    *)
(* open deck finds it closed behind it, also over a relaunch in between:   *)
(* the request outlives the client (TurnaroundMemory).                     *)
(***************************************************************************)
HeldDeckCloses == []<>(gsx.hold = "held" => deck.at = 0 \/ deck.frozen)
LeftDeckCloses == []<>(gsx.owed => deck.frozen)

(***************************************************************************)
(* The panel's master does not stay on for good, and never goes off for    *)
(* good with the deck short of an end (GuardTheMasterCut), unless the deck *)
(* is frozen on its way.                                                   *)
(***************************************************************************)
MasterGoesOff == []<>(~deck.master \/ deck.frozen)
DeckEndsAtAnEnd == []<>(AtAnEnd \/ deck.master)
MasterServesItsTravel == MasterGoesOff /\ DeckEndsAtAnEnd

(***************************************************************************)
(* No travel is waited for without end: a deck that never moves has it     *)
(* dropped, whatever the rule has been through before.                     *)
(***************************************************************************)
TravelsEnd == []<>(rule.travel = None)
=============================================================================
