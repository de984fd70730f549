--------------------------- MODULE GsxMenuNavigator ---------------------------
(***************************************************************************)
(* The client's hand on the menu of GSX (GsxMenuNavigator): the queue of   *)
(* the requests it has still to bring to GSX, whose menu it is that shows, *)
(* the questions it answers by itself, the dialogues it walks through, and *)
(* the snapshots it asks for when a menu does not move.                    *)
(*                                                                         *)
(* A menu is known by its kind, which stands for its title and entries,    *)
(* and a span of time by the ticks that have passed, up to the window it   *)
(* is compared with.  What the client sends is on the wire until GSX acts  *)
(* on it, misses it, or the link drops.                                    *)
(***************************************************************************)
EXTENDS Integers, SequencesExt

CONSTANTS
  Requests,      \* the labels of the requests that can be armed
  Toggles,       \* of these, the services a second pick undoes
  Unconfirmed,   \* of these, the ones without a service to confirm them
  WhileUnderway, \* of these, the ones that fire while the service runs
  Menus,         \* the menus GSX may show
  Chores,        \* the completions and dialogues the flow may start
  AutoSelect, AutoDeice,   \* the settings
  MaxTriggerAttempts, MaxResyncs,
  Settle, Window, RefusalSettle, Retry, GiveUp, ResyncDelay, CompleteTtl,
  IntentTtl,     \* kMenuSettleMs, kMenuOwnershipWindowMs, ... in ticks
  MaxFaults      \* bound on relaunches, lost links, messages of GSX about
                 \* something else, and requests armed while they wait

ASSUME NavigatorConstants ==
  /\ Toggles \cup Unconfirmed \cup WhileUnderway \subseteq Requests
  /\ Toggles \cap Unconfirmed = {}
  /\ {MaxTriggerAttempts, MaxResyncs, Settle, Window, RefusalSettle, Retry,
      GiveUp, ResyncDelay, CompleteTtl, IntentTtl} \subseteq Nat \ {0}
  /\ RefusalSettle <= Retry /\ Retry <= GiveUp
  /\ {AutoSelect, AutoDeice} \subseteq BOOLEAN /\ MaxFaults \in Nat

VARIABLES
  queue,  \* pending_
  nav,    \* the other fields of the navigator
  gsx,    \* the link, the menu, the services and the wire (environment)
  hist    \* history, see below

vars == <<queue, nav, gsx, hist>>

\* What a menu offers that the client may look for.
Offers ==
  [Choice |-> {"choice"}, Asked |-> {"answer"}, DeIce |-> {"yes"},
   Root |-> {"refueling", "loading", "reposition"},
   RefuelRunning |-> {"now"}, BoardingRunning |-> {"now"},
   Positions |-> {"here"}, Tug |-> {"no"}, Engines |-> {"engines"},
   Interrupt |-> {"complete"}, FollowUp |-> {"no"},
   Direction |-> {}, Other |-> {}, None |-> {}]

Timers == {"complete", "followUp", "engines", "refuel", "boarding"}
Off == [t \in Timers |-> CompleteTtl]

Idle ==
  [owner |-> "None", asked |-> Window, settled |-> Settle, picked |-> "None",
   watched |-> "None", stall |-> 0, resyncs |-> 0, resyncing |-> FALSE,
   resyncSig |-> "None", discarded |-> "None", intent |-> "None",
   intentAge |-> 0, reposition |-> "Idle", timer |-> Off, opener |-> "None",
   deiceSpent |-> FALSE, held |-> FALSE]

Fresh(id) ==
  [id |-> id, tries |-> 0, age |-> 0, wait |-> 0, refused |-> FALSE,
   told |-> "Deaf", behindToggle |-> FALSE]

(***************************************************************************)
(* History: the requests GSX has taken while the client waits for them,    *)
(* whether a second send undid one, whether the menu that shows is the     *)
(* pilot's, come up with nothing the client had asked for shortly before,  *)
(* and the completions and dialogues the flow has begun.                   *)
(***************************************************************************)
NoHistory == [took |-> {}, undone |-> FALSE, pilots |-> FALSE,
              begun |-> {}, faults |-> 0]

InTheQueue == {queue[i].id : i \in DOMAIN queue}
SentAndWaiting == {queue[i].id : i \in {k \in DOMAIN queue : queue[k].tries > 0}}
InQueue(id) == id \in InTheQueue
WasSent(r) == r.tries > 0
HasIntent(n) == n.intent # "None" /\ n.intentAge < IntentTtl
Active(n, t) == n.timer[t] < CompleteTtl
Walking(n) == n.reposition \in {"Opening", "PickingRoot", "AwaitingSubmenu"}

OpenIntent(n, intent) ==
  [n EXCEPT !.intent = intent, !.intentAge = 0,
            !.reposition = IF intent = "Reposition" THEN @ ELSE "Idle"]

\* Each is begun once; one begun again counts with the faults.
Begins(chore) ==
  /\ chore \in Chores
  /\ chore \in hist.begun => hist.faults < MaxFaults
Begun(chore) ==
  hist' = [hist EXCEPT !.begun = @ \cup {chore}, !.took = @ \cap InTheQueue,
                       !.faults = IF chore \in hist.begun THEN @ + 1 ELSE @]

\* A pass so far: the fields, the queue and the commands sent in it.
Now(n, q) == [n |-> n, q |-> q, out |-> {}]

AsksForAMenu(command) == command[1] \in {"toggle", "trigger"}
Send(s, command) ==
  [s EXCEPT !.out = @ \cup {command}, !.n.settled = 0,
            !.n.asked = IF AsksForAMenu(command) THEN 0 ELSE @]

-----------------------------------------------------------------------------
(***************************************************************************)
(* Whose menu shows.  A menu that appears within the window of an ask of   *)
(* the client, or of the end of a menu of the client, is the client's.     *)
(***************************************************************************)
TrackMenuOwner(n) ==
  IF gsx.menu = "None"
  THEN [n EXCEPT !.owner = "None", !.asked = IF n.owner = "Client" THEN 0 ELSE @]
  ELSE IF n.owner # "None" THEN n
  ELSE [n EXCEPT !.owner = IF n.asked < Window THEN "Client" ELSE "Pilot"]

IsPilots(n) == gsx.menu # "None" /\ n.owner = "Pilot"
IsOurs(n) == gsx.menu # "None" /\ n.owner = "Client"

-----------------------------------------------------------------------------
(***************************************************************************)
(* The requests.                                                           *)
(***************************************************************************)
Status(id) == IF id \in Unconfirmed THEN "Callable" ELSE gsx.svc[id]

WasTaken(r) ==
  WasSent(r) /\ (r.id \in Unconfirmed \/ Status(r.id) \notin {"Callable", "Unlisted"})
IsAlreadyUnderway(r) ==
  r.id \notin WhileUnderway /\ ~WasSent(r) /\ Status(r.id) = "Busy"
LeftUnsentForTooLong(r) == ~WasSent(r) /\ r.wait >= GiveUp
IsDropped(r) ==
  \/ WasTaken(r) \/ IsAlreadyUnderway(r)
  \/ WasSent(r) /\ r.id \in Toggles /\ r.age >= GiveUp
  \/ r.tries >= MaxTriggerAttempts /\ r.age >= Retry
  \/ LeftUnsentForTooLong(r)

WasRefused(r) ==
  /\ WasSent(r) /\ r.id \in Toggles /\ ~r.refused
  /\ r.tries < MaxTriggerAttempts
  /\ r.told = "Yes" /\ r.age >= RefusalSettle
  /\ Status(r.id) # "Unlisted"

IsDueToSend(r) ==
  ~WasSent(r) \/ r.refused \/ (r.id \notin Toggles /\ r.age >= Retry)
AwaitsGsx(r) == WasSent(r) /\ r.id \in Toggles /\ ~r.refused /\ r.age < Retry

HoldsForAnUntakenToggle(n, q) ==
  IsOurs(n) /\ \E i \in DOMAIN q : AwaitsGsx(q[i])
IsHoldingBehindAToggle(n, q) ==
  HoldsForAnUntakenToggle(n, q) /\ \E i \in DOMAIN q : q[i].behindToggle

\* SendRequest: a menu of the client is closed first, one of the pilot's waited for.
SendRequest(s, i) ==
  IF IsPilots(s.n) \/ ~gsx.up THEN s
  ELSE LET closed == IF gsx.menu = "None" THEN s
                     ELSE [Send(s, <<"close", "">>)
                             EXCEPT !.n.picked = "None", !.n.watched = "None"]
           sent == Send(closed, <<"trigger", s.q[i].id>>)
           first == ~WasSent(s.q[i]) /\ s.q[i].id \notin Unconfirmed
       IN  [sent EXCEPT !.q[i].tries = @ + 1, !.q[i].age = 0, !.q[i].told = "No",
                        !.q[i].refused = FALSE,
                        !.n = IF first /\ ~Walking(@) THEN OpenIntent(@, "Service")
                              ELSE @]

\* PumpRequests, in two steps: what is dropped and found refused, and what goes out.
Sorted(s) ==
  LET Ticking(r) == IF IsPilots(s.n) /\ ~WasSent(r) THEN [r EXCEPT !.wait = 0] ELSE r
      Marked(r) == IF WasRefused(r) THEN [r EXCEPT !.refused = TRUE] ELSE r
      Next1(q, r) == IF IsDropped(Ticking(r)) THEN q ELSE Append(q, Marked(Ticking(r)))
  IN  [s EXCEPT !.q = FoldLeft(Next1, <<>>, @)]

Dispatched(s) ==
  LET due == {i \in DOMAIN s.q : IsDueToSend(s.q[i])}
      next == CHOOSE i \in due : \A j \in due : i <= j
  IN  IF s.n.held \/ s.n.resyncing \/ s.n.settled < Settle \/ due = {} THEN s
      ELSE IF HoldsForAnUntakenToggle(s.n, s.q)
           THEN [s EXCEPT !.q[next].behindToggle = TRUE]
           ELSE SendRequest(s, next)

-----------------------------------------------------------------------------
(***************************************************************************)
(* The menu that shows.  A menu that does not move is asked for again, and *)
(* closed when it is the client's and no snapshot moved it.                *)
(***************************************************************************)
DiscardsTheMenu(s) ==
  /\ s.n.discarded # gsx.menu /\ gsx.menu # "Direction"
  /\ HasIntent(s.n) /\ IsOurs(s.n) /\ ~IsHoldingBehindAToggle(s.n, s.q)

IsRepositionLeftover(n) ==
  IsOurs(n) /\ ~Walking(n) /\ HasIntent(n) /\ gsx.menu = "Positions"

Resynced(s) ==
  LET n == s.n
      again == [s EXCEPT !.n.stall = 0]
  IN  IF n.watched # gsx.menu
      THEN [s EXCEPT !.n.watched = gsx.menu, !.n.stall = 0, !.n.resyncs = 0]
      ELSE IF n.stall < ResyncDelay THEN s
      ELSE IF IsRepositionLeftover(n)
           THEN IF gsx.up THEN Send(again, <<"close", "">>) ELSE again
      ELSE IF ~AutoSelect /\ ~AutoDeice /\ ~HasIntent(n) THEN s
      ELSE IF n.resyncs >= MaxResyncs
           THEN IF gsx.menu = "Direction" THEN [s EXCEPT !.n.discarded = "Direction"]
                ELSE IF ~DiscardsTheMenu(s) THEN s
                ELSE IF gsx.up THEN [Send(again, <<"close", "">>)
                                       EXCEPT !.n.discarded = gsx.menu]
                ELSE again
      ELSE IF gsx.up
           THEN [Send(again, <<"get", "">>)
                   EXCEPT !.n.resyncs = @ + 1, !.n.resyncing = TRUE,
                          !.n.resyncSig = gsx.menu]
           ELSE again

Picks(n, entry) == entry \in Offers[gsx.menu] /\ ~n.held /\ gsx.up
Pick(s, entry) ==
  [Send(s, <<"pick", entry>>) EXCEPT !.n.picked = gsx.menu]
Clear(s, t) == [s EXCEPT !.n.timer[t] = CompleteTtl]

\* HandleAutoPicks: what is answered with the menu of anybody.
AutoEntries(n) ==
  (IF AutoDeice /\ ~n.deiceSpent THEN {"yes"} ELSE {}) \cup {"answer"}
  \cup (IF AutoSelect THEN {"choice"} ELSE {})

AutoPicked(s, entry) ==
  [Pick(s, entry) EXCEPT !.n.opener = "None",
                         !.n.deiceSpent = @ \/ entry = "yes"]

\* HandlePendingCompletions.
IsServiceRunning == gsx.menu \in {"RefuelRunning", "BoardingRunning"}
CompletesWhateverRuns(n) == TRUE
CompletesTheServiceItOpened(n) == n.opener # "None" /\ Active(n, n.opener)

Completed(s) ==
  LET n == s.n
      noOpener == [s EXCEPT !.n.opener = "None"]
  IN  IF Active(n, "complete") /\ Picks(n, "complete")
      THEN [Clear(Pick(s, "complete"), "complete") EXCEPT !.n.timer["followUp"] = 0]
      ELSE IF Active(n, "followUp") /\ gsx.menu = "FollowUp" /\ Picks(n, "no")
      THEN Clear(Pick(s, "no"), "followUp")
      ELSE IF Active(n, "engines") /\ Picks(n, "engines")
      THEN Clear(Pick(s, "engines"), "engines")
      ELSE IF ~Active(n, "refuel") /\ ~Active(n, "boarding") THEN s
      ELSE IF IsServiceRunning
      THEN IF ~CompletesTheServiceItOpened(n) THEN noOpener
           ELSE IF Picks(n, "now")
                THEN [Pick(s, "now") EXCEPT !.n.opener = "None",
                        !.n.timer = IF n.opener = "None" THEN @
                                    ELSE [@ EXCEPT ![n.opener] = CompleteTtl]]
                ELSE s
      ELSE IF Active(n, "refuel") /\ Picks(n, "refueling")
      THEN [Pick(s, "refueling") EXCEPT !.n.opener = "refuel"]
      ELSE IF Active(n, "boarding") /\ Picks(n, "loading")
      THEN [Pick(s, "loading") EXCEPT !.n.opener = "boarding"]
      ELSE noOpener

OpenMenu(s) ==
  IF s.n.held \/ gsx.menu # "None" \/ ~gsx.up THEN s ELSE Send(s, <<"toggle", "">>)

\* PickNowOrArm: at once on a menu that shows it, or when the menu opens.
PickedNowOrArmed(s, entry, t) ==
  IF Picks(s.n, entry) THEN Clear(Pick(s, entry), t)
  ELSE OpenMenu([s EXCEPT !.n = OpenIntent([@ EXCEPT !.timer[t] = 0], "Service")])

Walked(s) ==
  IF gsx.menu = "Positions"
  THEN IF Picks(s.n, "here") THEN [Pick(s, "here") EXCEPT !.n.reposition = "Done"]
       ELSE s
  ELSE IF Picks(s.n, "reposition")
  THEN [Pick(s, "reposition") EXCEPT !.n.reposition = "AwaitingSubmenu"]
  ELSE [s EXCEPT !.n.reposition = IF gsx.up THEN "PickingRoot" ELSE @]

Prompted(s) ==
  IF gsx.menu = "Tug" /\ Picks(s.n, "no") THEN Pick(s, "no")
  ELSE IF gsx.menu = "Engines" THEN PickedNowOrArmed(s, "engines", "engines")
  ELSE s

HandleMenu(s) ==
  LET auto == {e \in AutoEntries(s.n) : Picks(s.n, e)}
      Rest(done) ==
        IF done.out # s.out \/ ~gsx.up \/ ~HasIntent(done.n) \/ IsServiceRunning THEN done
        ELSE IF ~Walking(done.n) THEN Prompted(done)
        ELSE IF gsx.menu = "Positions" \/ Picks(done.n, "reposition") THEN Walked(done)
        ELSE Prompted(Walked(done))
  IN  IF gsx.menu = "None"
      THEN [s EXCEPT !.n.picked = "None", !.n.watched = "None"]
      ELSE IF s.n.picked = gsx.menu THEN s
      ELSE IF auto # {} THEN AutoPicked(s, CHOOSE e \in auto : TRUE)
      ELSE Rest(Completed(s))

-----------------------------------------------------------------------------
(***************************************************************************)
(* The steps of the client.  Ends puts the outcome of a pass in place.     *)
(***************************************************************************)
Ends(s, wire, counted) ==
  /\ nav' = s.n /\ queue' = s.q
  /\ gsx' = [gsx EXCEPT !.wire = wire \cup s.out]
  /\ hist' = [hist EXCEPT !.took = @ \cap InTheQueue',
                          !.faults = IF counted THEN @ + 1 ELSE @]

Pumps(s, wire, counted) ==
  \E sorted \in {Sorted([s EXCEPT !.n = TrackMenuOwner(@)])} :
    \E sent \in {Dispatched(sorted)} : Ends(sent, wire, counted)

Pass(n, wire) ==
  \E tracked \in {TrackMenuOwner(n)} :
    \E s \in {IF gsx.menu = "None" THEN Now(tracked, queue)
              ELSE Resynced(Now(tracked, queue))} :
      \E handled \in {HandleMenu(s)} : Pumps(handled, wire, FALSE)

OnMenuChanged == Pass(nav, gsx.wire)

\* A request that is armed again while it waits keeps what it has done.
KeepsItsSends(id, q) ==
  LET same == {i \in DOMAIN q : q[i].id = id}
      old == q[CHOOSE i \in same : TRUE]
  IN  IF same = {} THEN Fresh(id)
      ELSE [Fresh(id) EXCEPT !.age = old.age, !.tries = old.tries,
                             !.refused = old.refused, !.told = old.told]

ArmRequest(id) ==
  LET n == IF id \in Unconfirmed THEN nav ELSE OpenIntent(nav, "Service")
      q == Append(SelectSeq(queue, LAMBDA r : r.id # id), KeepsItsSends(id, queue))
      again == InQueue(id)
  IN  /\ again => hist.faults < MaxFaults
      /\ Pumps(Now(n, q), gsx.wire, again)

Chore(name, s) ==
  /\ Begins(name) /\ Begun(name)
  /\ nav' = s.n /\ queue' = s.q /\ gsx' = [gsx EXCEPT !.wire = @ \cup s.out]

RepositionAircraft ==
  nav.reposition = "Idle" /\
  Chore("reposition",
        OpenMenu(Now([OpenIntent(nav, "Reposition") EXCEPT !.reposition = "Opening"],
                     queue)))

CompletePushback ==
  LET s == PickedNowOrArmed(Now(nav, queue), "complete", "complete")
  IN  Chore("complete", IF Picks(nav, "complete")
                        THEN [s EXCEPT !.n.timer["followUp"] = 0] ELSE s)

ConfirmGoodEngines ==
  Chore("engines", PickedNowOrArmed(Now(nav, queue), "engines", "engines"))

\* CompleteRefuel and CompleteBoarding.
CompleteService(t) ==
  Chore(t, OpenMenu(Now(OpenIntent([nav EXCEPT !.timer[t] = 0], "Service"), queue)))

DisableGsxMenu ==
  LET n == TrackMenuOwner(nav)
      left == [n EXCEPT !.reposition = "Idle", !.intent = "None"]
      s == Now(n, queue)
  IN  Chore("disable", IF IsPilots(n) THEN [s EXCEPT !.n = left]
                       ELSE IF gsx.up THEN [s EXCEPT !.out = {<<"close", "">>}, !.n = left]
                       ELSE s)

HoldRequests == Chore("hold", Now([nav EXCEPT !.held = ~@], queue))

-----------------------------------------------------------------------------
(***************************************************************************)
(* GSX, the pilot and the link.  Whatever changes the menu, the client     *)
(* sees it at once (ObserveMenuOwner).                                     *)
(***************************************************************************)
RunningOf == [refueling |-> "RefuelRunning", loading |-> "BoardingRunning"]

Shows(menu, wire, byPilot) ==
  /\ gsx' = [gsx EXCEPT !.menu = menu, !.wire = wire]
  /\ nav' = IF menu = "None"
            THEN [nav EXCEPT !.owner = "None",
                             !.asked = IF nav.owner = "Client" THEN 0 ELSE @]
            ELSE IF nav.owner # "None" THEN nav
            ELSE [nav EXCEPT !.owner = IF nav.asked < Window THEN "Client" ELSE "Pilot"]
  /\ hist' = [hist EXCEPT !.pilots = menu # "None" /\ byPilot]
  /\ UNCHANGED queue

\* The pilot does not pick while a pick of the client is on its way.
PilotMayAct == \A command \in gsx.wire : command[1] # "pick"
Running == {"RefuelRunning", "BoardingRunning"}

PilotOpens ==
  /\ PilotMayAct /\ gsx.menu = "None"
  /\ \E menu \in Menus \ Running : Shows(menu, gsx.wire, nav.asked >= Window)
PilotMovesOn ==
  /\ PilotMayAct /\ gsx.menu # "None"
  /\ \E menu \in (Menus \cup {"None"}) \ {gsx.menu} : Shows(menu, gsx.wire, hist.pilots)

GsxToggles(wire) ==
  \E menu \in IF gsx.menu = "None" THEN Menus \ Running ELSE {"None"} :
    Shows(menu, wire, FALSE)

\* The entry of a running service leads to its own menu, when it still runs.
GsxTakesThePick(entry, wire) ==
  \/ Shows("None", wire, FALSE)
  \/ /\ entry \in DOMAIN RunningOf /\ RunningOf[entry] \in Menus
     /\ gsx' = [gsx EXCEPT !.menu = RunningOf[entry], !.wire = wire]
     /\ UNCHANGED <<queue, nav, hist>>

\* OnSnapshot: a menu that a resync finds unchanged may be picked in again.
GsxSendsASnapshot(wire) ==
  LET unmoved == nav.resyncing /\ gsx.menu # "None" /\ gsx.menu = nav.resyncSig
  IN  Pass([nav EXCEPT !.resyncing = FALSE,
                       !.picked = IF unmoved THEN "None" ELSE @], wire)

Service(id, status, wire) ==
  gsx' = [gsx EXCEPT !.svc[id] = status, !.wire = wire] /\ UNCHANGED <<nav, queue>>

\* GSX takes a request, or a second one of a toggle back, or says why not.
GsxTriggers(id, wire) ==
  \/ /\ id \notin Unconfirmed /\ gsx.svc[id] \in {"Callable", "Ended"}
     /\ Service(id, "Busy", wire)
     /\ hist' = [hist EXCEPT !.took = @ \cup ({id} \cap SentAndWaiting)]
  \/ /\ id \in Toggles /\ gsx.svc[id] = "Busy"
     /\ Service(id, "Callable", wire)
     /\ hist' = [hist EXCEPT !.undone = @ \/ id \in hist.took]
  \/ /\ gsx' = [gsx EXCEPT !.wire = wire]
     /\ queue' \in {queue, [i \in DOMAIN queue |->
                              IF queue[i].told = "No" THEN [queue[i] EXCEPT !.told = "Yes"]
                              ELSE queue[i]]}
     /\ UNCHANGED <<nav, hist>>

GsxActs(command) ==
  /\ gsx.up /\ command \in gsx.wire
  /\ LET wire == gsx.wire \ {command}
     IN  \/ command[1] = "toggle" /\ GsxToggles(wire)
         \/ command[1] = "close" /\ Shows("None", wire, FALSE)
         \/ command[1] = "pick" /\ GsxTakesThePick(command[2], wire)
         \/ command[1] = "get" /\ GsxSendsASnapshot(wire)
         \/ command[1] = "trigger" /\ GsxTriggers(command[2], wire)

Commands ==
  {<<verb, "">> : verb \in {"toggle", "close", "get"}}
  \cup {<<"pick", entry>> : entry \in UNION {Offers[m] : m \in Menus}}
  \cup {<<"trigger", id>> : id \in Requests}

ServiceGoesOn ==
  \E id \in Requests \ Unconfirmed :
    /\ gsx.svc[id] = "Busy" /\ <<"trigger", id>> \notin gsx.wire
    /\ Service(id, "Ended", gsx.wire) /\ UNCHANGED hist

Fault == hist.faults < MaxFaults /\ hist' = [hist EXCEPT !.faults = @ + 1]

\* A message of GSX about something else.
GsxSaysSomething ==
  /\ Fault /\ gsx.up
  /\ queue' = [i \in DOMAIN queue |-> IF queue[i].told = "No"
                                      THEN [queue[i] EXCEPT !.told = "Yes"] ELSE queue[i]]
  /\ UNCHANGED <<nav, gsx>>

\* What is on the wire when the link drops is lost.
LinkDrops ==
  /\ Fault /\ gsx.up
  /\ gsx' = [gsx EXCEPT !.up = FALSE, !.wire = {}]
  /\ UNCHANGED <<nav, queue>>

\* ApplyConnection: the count of the messages starts over with the snapshot.
LinkReturns ==
  /\ ~gsx.up
  /\ \E told \in {"Deaf", "No"} :
       LET q == [i \in DOMAIN queue |-> IF queue[i].told = "Deaf" THEN queue[i]
                                        ELSE [queue[i] EXCEPT !.told = told]]
           n == [nav EXCEPT !.resyncing = FALSE]
       IN  queue' = q /\ nav' = n
  /\ gsx' = [gsx EXCEPT !.up = TRUE]
  /\ UNCHANGED hist

\* TakeMemory and RestoreMemory: what was sent, and when, survives.
RestoredRequests(q) ==
  [i \in DOMAIN q |-> [q[i] EXCEPT !.told = "Deaf", !.refused = FALSE,
                         !.behindToggle = FALSE,
                         !.wait = IF WasSent(q[i]) THEN @ ELSE 0]]
Relaunch ==
  /\ Fault
  /\ queue' = RestoredRequests(queue)
  /\ nav' = LET n == [Idle EXCEPT !.deiceSpent = nav.deiceSpent]
            IN  TrackMenuOwner(IF queue = <<>> THEN n ELSE OpenIntent(n, "Service"))
  /\ UNCHANGED gsx

\* GSX acts on a pick within a tick, and on a toggle, and shows that it has,
\* before a refusal would settle.
TickInTime ==
  /\ \A command \in gsx.wire : command[1] # "pick"
  /\ \A i \in DOMAIN queue :
       queue[i].id \in Toggles /\ queue[i].age + 1 >= RefusalSettle
         => <<"trigger", queue[i].id>> \notin gsx.wire

Upto(age, bound) == IF age < bound THEN age + 1 ELSE age
Tick ==
  /\ TickInTime
  /\ queue' = [i \in DOMAIN queue |->
                 [queue[i] EXCEPT !.age = IF WasSent(queue[i]) THEN Upto(@, GiveUp) ELSE @,
                                  !.wait = Upto(@, GiveUp)]]
  /\ nav' = [nav EXCEPT !.asked = Upto(@, Window), !.settled = Upto(@, Settle),
                        !.stall = Upto(@, ResyncDelay),
                        !.intentAge = Upto(@, IntentTtl),
                        !.timer = [t \in Timers |-> Upto(@[t], CompleteTtl)]]
  /\ UNCHANGED <<gsx, hist>>

Init ==
  /\ queue = <<>> /\ nav = Idle /\ hist = NoHistory
  /\ gsx \in [up : {TRUE}, menu : {"None"}, wire : {{}},
              svc : [Requests -> {"Callable", "Unlisted"}]]

\* The client passes over every change of the menu before anything else.
Seen == nav.watched = gsx.menu

Next ==
  \/ OnMenuChanged
  \/ \E id \in Requests : Seen /\ ArmRequest(id)
  \/ Seen /\ RepositionAircraft
  \/ Seen /\ CompletePushback
  \/ Seen /\ ConfirmGoodEngines
  \/ \E t \in {"refuel", "boarding"} : Seen /\ CompleteService(t)
  \/ Seen /\ DisableGsxMenu
  \/ Seen /\ HoldRequests
  \/ Seen /\ PilotOpens
  \/ Seen /\ PilotMovesOn
  \/ \E command \in Commands : Seen /\ GsxActs(command)
  \/ Seen /\ ServiceGoesOn
  \/ Seen /\ GsxSaysSomething
  \/ Seen /\ LinkDrops
  \/ Seen /\ LinkReturns
  \/ Seen /\ Relaunch
  \/ Seen /\ Tick

Spec == Init /\ [][Next]_vars

(***************************************************************************)
(* The client's tick makes a pass, time goes on between the moves of the   *)
(* pilot, and GSX acts on something of what it is sent; the link may stay  *)
(* down.                                                                   *)
(***************************************************************************)
GsxActsOnSomething == \E command \in Commands : GsxActs(command)

Fairness ==
  WF_vars(OnMenuChanged) /\ SF_vars(Seen /\ Tick) /\ SF_vars(Seen /\ GsxActsOnSomething)

FairSpec == Spec /\ Fairness

-----------------------------------------------------------------------------
\* The types of the fields.
TypeOK ==
  /\ \A i \in DOMAIN queue :
       queue[i] \in [id : Requests, tries : 0 .. MaxTriggerAttempts, age : 0 .. GiveUp,
                     wait : 0 .. GiveUp, refused : BOOLEAN,
                     told : {"Deaf", "No", "Yes"}, behindToggle : BOOLEAN]
  /\ \A i, j \in DOMAIN queue : queue[i].id = queue[j].id => i = j
  /\ nav.owner \in {"None", "Pilot", "Client"} /\ nav.resyncs \in 0 .. MaxResyncs
  /\ nav.timer \in [Timers -> 0 .. CompleteTtl]

(***************************************************************************)
(* A service that toggles and that GSX took for a request of the client is *)
(* not undone by a second send of that request, whatever GSX says in the   *)
(* meantime, however often the flow asks, and over a relaunch or a lost    *)
(* link (UndoneByASecondSend, WasRefused).                                 *)
(***************************************************************************)
ToggleIsNotUndone == ~hist.undone

(***************************************************************************)
(* A menu that the pilot opened, with nothing the client had asked for     *)
(* shortly before, is not closed by the client: not to bring a request     *)
(* through, not as a stale one and not when the flow ends.                 *)
(***************************************************************************)
PilotsMenuIsLeftOpen ==
  [][hist.pilots => <<"close", "">> \notin gsx'.wire \ gsx.wire]_vars

(***************************************************************************)
(* "Complete now" is picked only for a service whose completion the flow   *)
(* waits for at that moment: with another one in progress, the pilot's, it *)
(* is left alone (CompleteTheServiceItOpened, and the test                 *)
(* eachCompletionOnlyCompletesTheServiceItOpened).                         *)
(***************************************************************************)
CompletionOf == [RefuelRunning |-> "refuel", BoardingRunning |-> "boarding"]
OnlyWhatItOpenedIsCompleted ==
  [][(<<"pick", "now">> \in gsx'.wire \ gsx.wire)
       => Active(nav, CompletionOf[gsx.menu])]_vars

(***************************************************************************)
(* No request stays in the queue for ever: it is taken, given up, or waits *)
(* for the pilot's menu, for the hold or for the link, and the snapshots   *)
(* of a menu that does not move do not stop the queue.                     *)
(***************************************************************************)
MayStay == IsPilots(nav) \/ nav.held \/ ~gsx.up
=============================================================================
