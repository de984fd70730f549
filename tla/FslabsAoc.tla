------------------------------ MODULE FslabsAoc ------------------------------
(***************************************************************************)
(* What the client asks of the FSLabs A321neo over the AOC pages of its    *)
(* right MCDU (FslabsAoc, as FslabsA321neo drives it): scripts of keys,    *)
(* each judged by a screen asked for after the key went out                *)
(* (FslabsMcduClient), on an MCDU that loses keys, shows its pages late,   *)
(* is switched off, and has a pilot at it.                                 *)
(***************************************************************************)
EXTENDS Integers, SequencesExt

CONSTANTS
  Requests,       \* requests the instance makes, of those ScriptFor knows
  ProbeInterval,  \* kProbeIntervalTicks
  RepeatHold,     \* kRepeatHoldTicks
  MaxStops,       \* kStopsBeforeGivingUp
  MaxFaults       \* bound on lost keys, keys handled late, failed polls, the pilot's
                  \* keys, the power and the new turnarounds

VARIABLES
  aoc,     \* FslabsAoc
  client,  \* FslabsMcduClient of the right MCDU
  mcdu     \* the right MCDU, and the keys on their way to it (environment)

aocVars == <<aoc, client, mcdu>>

None == "none"
Blank == "blank"
BoxedPage == "boarding2"   \* the page with the box of "board now"

Step(key, page, boxed) == [key |-> key, page |-> page, boxed |-> boxed]
Press(key, page) == Step(key, page, FALSE)
AnyPage == "any"   \* a step that is not judged by the title

ThroughTheAocMenu(tail) ==
  <<Press("menu", "menu"), Press("atsu", "atsu"), Press("aocMenu", "aoc")>>
    \o tail \o <<Press("menu", "menu")>>

ScriptFor(script) ==
  CASE script = "probe" -> <<Press("menu", "menu"), Press("atsu", "atsu"), Press("menu", "menu")>>
    [] script = "init" -> ThroughTheAocMenu(<<Press("initKey", "init")>>)
    [] script = "board" ->
         ThroughTheAocMenu(<<Press("boarding", "boarding1"), Press("request", BoxedPage),
                             Step("boardNow", BoxedPage, TRUE), Press("request", AnyPage)>>)
    [] OTHER ->
         ThroughTheAocMenu(<<Press("departure", "departure"), Press("push", "pushback"),
                             Press("request", AnyPage)>>)

-----------------------------------------------------------------------------
(***************************************************************************)
(* The client of the MCDU: one poll at a time.  Its screen is the newest   *)
(* that came; fresh says that it was asked for after the last key went     *)
(* out, which the code tells by the screen's serial.                       *)
(***************************************************************************)
Screen(page, box, filled) == [page |-> page, box |-> box, filled |-> filled]
NoScreen == Screen(Blank, FALSE, FALSE)

Poll(c) == IF c.poll = None THEN [c EXCEPT !.poll = "current"] ELSE c
Pressed(c) == [c EXCEPT !.fresh = FALSE, !.poll = IF @ = None THEN None ELSE "outdated"]

CountsAsNew(c) == c.poll = "current"

Answered(c, screen) ==
  [c EXCEPT !.poll = None, !.screen = screen, !.fresh = @ \/ CountsAsNew(c),
            !.available = TRUE, !.failures = 0]
Failed(c) ==
  [c EXCEPT !.poll = None, !.failures = IF @ < 2 THEN @ + 1 ELSE @,
            !.available = @ /\ c.failures = 0]

-----------------------------------------------------------------------------
(***************************************************************************)
(* One tick of the AOC, on the screen the client holds: [aoc, key], with   *)
(* the key it presses, if any.                                             *)
(***************************************************************************)
NotRunning == [script |-> None]
ShowsAScreen == client.available /\ client.screen.page # Blank
ShowsTheInit == client.available /\ client.screen.page = "init" /\ client.screen.filled

IsAlive == ShowsAScreen /\ aoc.proved
IsRequest(script) == script \in {"board", "push"}

AlreadyDone(step) ==
  step.boxed /\ ~(client.screen.page = BoxedPage /\ ~client.screen.box)

Quiet(a) == [aoc |-> a, key |-> None]

RememberTheInitCheck(a) ==
  [a EXCEPT !.initRan = @ \/ (a.run.script = "init" /\ a.proved)]

Completed(a) ==
  LET script == a.run.script
      noted == IF IsRequest(script)
               THEN [a EXCEPT !.since[script] = 0, !.stops[script] = 0] ELSE a
  IN  [RememberTheInitCheck(noted) EXCEPT !.run = NotRunning]

\* PressNext, from step n of the running script on.
PressNext(a, n) ==
  LET steps == ScriptFor(a.run.script)
      left == {m \in n .. Len(steps) : ~AlreadyDone(steps[m])}
  IN  IF left = {} THEN Quiet(Completed(a))
      ELSE LET m == CHOOSE k \in left : \A other \in left : k <= other
           IN  [aoc |-> [a EXCEPT !.run = [script |-> a.run.script, step |-> m,
                                           before |-> client.screen.page]],
                key |-> steps[m].key]

Start(a, script) == PressNext([a EXCEPT !.run = [script |-> script]], 1)

\* The page, and on the boxed step the box, as the script expects them.
Matches(step) ==
  /\ step.page \in {AnyPage, client.screen.page}
  /\ step.boxed => client.screen.box

ChangedThePage(a, step) == step.page # AnyPage /\ client.screen.page # a.run.before
KeyChangedNothing(a, step) ==
  step.page \notin {AnyPage, a.run.before} /\ client.screen.page = a.run.before

RememberTheStop(a) ==
  IF IsRequest(a.run.script) THEN [a EXCEPT !.stops[a.run.script] = @ + 1] ELSE a

Abort(a, step) ==
  LET judged == [a EXCEPT !.proved = @ /\ ~KeyChangedNothing(a, step)]
      noted == RememberTheInitCheck(RememberTheStop(judged))
  IN  [aoc |-> [noted EXCEPT !.run = NotRunning],
       key |-> IF IsRequest(a.run.script) THEN "menu" ELSE None]

ContinueRun(a) ==
  IF ~client.fresh THEN Quiet(a)
  ELSE LET step == ScriptFor(a.run.script)[a.run.step]
       IN  IF ~Matches(step) THEN Abort(a, step)
           ELSE PressNext([a EXCEPT !.proved = @ \/ ChangedThePage(a, step)], a.run.step + 1)

InitIsPending(a, awaited) == awaited /\ ~a.initDone
InitCheckIsDue(a, awaited) == InitIsPending(a, awaited) /\ ~a.initRan
LifeIsWanted(a, awaited, powerIsAsked) ==
  powerIsAsked \/ a.queue # <<>> \/ InitIsPending(a, awaited)
ProbeIsDue(a, awaited, powerIsAsked) ==
  LifeIsWanted(a, awaited, powerIsAsked) /\ ~a.proved /\ a.probeIn = 0

StartNext(a, awaited, powerIsAsked) ==
  IF ProbeIsDue(a, awaited, powerIsAsked)
  THEN Start([a EXCEPT !.probeIn = ProbeInterval],
             IF InitCheckIsDue(a, awaited) THEN "init" ELSE "probe")
  ELSE IF ~a.proved THEN Quiet(a)
  ELSE IF a.queue # <<>> THEN Start([a EXCEPT !.queue = Tail(@)], Head(a.queue))
  ELSE IF InitCheckIsDue(a, awaited) THEN Start(a, "init")
  ELSE Quiet(a)

\* Another tick.  Times that no longer count are not counted on.
Aged ==
  [aoc EXCEPT !.probeIn = IF @ > 0 THEN @ - 1 ELSE 0,
              !.since = [r \in Requests |-> IF @[r] <= RepeatHold THEN @[r] + 1 ELSE @[r]]]

AdvanceRun(a, awaited, powerIsAsked) ==
  IF ~ShowsAScreen THEN Quiet([a EXCEPT !.proved = FALSE, !.run = NotRunning])
  ELSE IF a.run # NotRunning THEN ContinueRun(a)
  ELSE StartNext(a, awaited, powerIsAsked)

-----------------------------------------------------------------------------
(***************************************************************************)
(* The requests of the turnaround.                                         *)
(***************************************************************************)
HoldsBackTheRepeat(request) == aoc.since[request] <= RepeatHold

IsTaken(request) ==
  /\ aoc.run.script # request /\ request \notin ToSet(aoc.queue)
  /\ aoc.stops[request] < MaxStops
  /\ ~HoldsBackTheRepeat(request)

HasGivenUp(request) == aoc.stops[request] = MaxStops

Request(request) ==
  /\ IsTaken(request)
  /\ aoc' = [aoc EXCEPT !.queue = Append(@, request)]
  /\ UNCHANGED <<client, mcdu>>

-----------------------------------------------------------------------------
(***************************************************************************)
(* Observe: the poll, then the AOC, on what the earlier polls brought.     *)
(***************************************************************************)
Fault == mcdu.faults < MaxFaults
FaultOf(m) == [m EXCEPT !.faults = @ + 1]

KeyOut(key) == [mcdu EXCEPT !.keys = Append(@, key)]

Advance(awaited, powerIsAsked) ==
  \E seen \in {[Aged EXCEPT !.initDone = @ \/ ShowsTheInit]} :
  \E done \in {AdvanceRun(seen, awaited, powerIsAsked)} :
    /\ aoc' = done.aoc
    /\ IF done.key = None
       THEN client' = Poll(client) /\ UNCHANGED mcdu
       ELSE client' = Pressed(Poll(client)) /\ mcdu' = KeyOut(done.key)

\* The keys that are out are handled before the next tick, or count as late.
Tick ==
  /\ mcdu.keys = <<>> \/ mcdu.late
  /\ \E awaited, powerIsAsked \in BOOLEAN : Advance(awaited, powerIsAsked)

ResetForNewTurnaround ==
  /\ Fault
  /\ aoc' = [aoc EXCEPT !.initDone = FALSE, !.initRan = FALSE, !.queue = <<>>,
                        !.since = [r \in Requests |-> RepeatHold + 1],
                        !.stops = [r \in Requests |-> 0], !.run = NotRunning]
  /\ IF aoc.run = NotRunning
     THEN UNCHANGED client /\ mcdu' = FaultOf(mcdu)
     ELSE client' = Pressed(client) /\ mcdu' = FaultOf(KeyOut("menu"))

-----------------------------------------------------------------------------
(***************************************************************************)
(* The MCDU.  A request that is sent is noted with the state of the box.   *)
(***************************************************************************)
PageAfter(page, key) ==
  CASE key = "menu" -> "menu"
    [] key = "atsu" /\ page = "menu" -> "atsu"
    [] key = "aocMenu" /\ page = "atsu" -> "aoc"
    [] key = "initKey" /\ page = "aoc" -> "init"
    [] key = "boarding" /\ page = "aoc" -> "boarding1"
    [] key = "request" /\ page = "boarding1" -> BoxedPage
    [] key = "departure" /\ page = "aoc" -> "departure"
    [] key = "push" /\ page = "departure" -> "pushback"
    [] OTHER -> page

SentBy(key) ==
  CASE key = "request" /\ mcdu.page = BoxedPage /\ mcdu.box -> "board"
    [] key = "request" /\ mcdu.page = BoxedPage -> "boardWithoutTheBox"
    [] key = "request" /\ mcdu.page = "pushback" -> "push"
    [] OTHER -> mcdu.sent

Keyed(key) ==
  IF mcdu.power # "on" THEN mcdu
  ELSE [mcdu EXCEPT !.page = PageAfter(@, key),
                    !.box = IF key = "boardNow" /\ mcdu.page = BoxedPage THEN ~@ ELSE @,
                    !.sent = SentBy(key)]

HandlesAKey ==
  /\ mcdu.keys # <<>>
  /\ mcdu' = [Keyed(Head(mcdu.keys)) EXCEPT !.keys = Tail(@), !.late = FALSE]
  /\ UNCHANGED <<aoc, client>>

KeyIsLost ==
  /\ Fault /\ mcdu.keys # <<>>
  /\ mcdu' = FaultOf([mcdu EXCEPT !.keys = Tail(@), !.late = FALSE])
  /\ UNCHANGED <<aoc, client>>

KeyIsLate ==
  /\ Fault /\ mcdu.keys # <<>> /\ ~mcdu.late
  /\ mcdu' = FaultOf([mcdu EXCEPT !.late = TRUE])
  /\ UNCHANGED <<aoc, client>>

\* The answer to the poll, which shows the page as it is by now.
PollAnswered ==
  /\ client.poll # None /\ (mcdu.keys = <<>> \/ mcdu.late \/ client.poll = "outdated")
  /\ client' = Answered(client, IF mcdu.power = "off" THEN NoScreen
                                ELSE Screen(mcdu.page, mcdu.box, mcdu.filled))
  /\ mcdu' = [mcdu EXCEPT !.late = @ /\ client.poll = "outdated"]
  /\ UNCHANGED aoc

PollFails ==
  /\ Fault /\ client.poll # None
  /\ client' = Failed(client) /\ mcdu' = FaultOf(mcdu)
  /\ UNCHANGED aoc

\* The pilot presses keys that lead elsewhere, and fills the INIT page.
PilotUsesTheMcdu ==
  /\ Fault /\ mcdu.power = "on"
  /\ \/ mcdu' = FaultOf([mcdu EXCEPT !.page = "pilots", !.touched = TRUE])
     \/ mcdu' = FaultOf([mcdu EXCEPT !.filled = TRUE])
  /\ UNCHANGED <<aoc, client>>

\* An MCDU that only just lost its power may still show a page, and answers no
\* key: it costs a request two tries and counts as two faults.
PowerChanges ==
  /\ \/ Fault /\ mcdu.power = "on" /\ mcdu' = FaultOf([mcdu EXCEPT !.power = "off"])
     \/ Fault /\ FaultOf(mcdu).faults < MaxFaults /\ mcdu.power = "on"
          /\ mcdu' = FaultOf(FaultOf([mcdu EXCEPT !.power = "dying"]))
     \/ mcdu.power = "dying" /\ mcdu' = [mcdu EXCEPT !.power = "off"]
     \/ mcdu.power = "off" /\ mcdu' = [mcdu EXCEPT !.power = "on", !.page = "menu"]
  /\ UNCHANGED <<aoc, client>>

-----------------------------------------------------------------------------
Init ==
  /\ aoc = [run |-> NotRunning, queue |-> <<>>, since |-> [r \in Requests |-> RepeatHold + 1],
            stops |-> [r \in Requests |-> 0], probeIn |-> 0, proved |-> FALSE,
            initRan |-> FALSE, initDone |-> FALSE]
  /\ client = [screen |-> NoScreen, poll |-> None, fresh |-> FALSE,
               available |-> FALSE, failures |-> 0]
  /\ mcdu \in [power : {"on"}, page : {BoxedPage}, box : BOOLEAN, filled : {FALSE},
               keys : {<<>>}, late : {FALSE}, sent : {None}, touched : {FALSE}, faults : {0}]

Next ==
  \/ Tick \/ ResetForNewTurnaround \/ \E r \in Requests : Request(r)
  \/ HandlesAKey \/ KeyIsLost \/ KeyIsLate \/ PollAnswered \/ PollFails
  \/ PilotUsesTheMcdu \/ PowerChanges

Spec == Init /\ [][Next]_aocVars

\* The turnaround asks until what it asked for shows.
Fairness ==
  /\ SF_aocVars(Tick) /\ WF_aocVars(HandlesAKey) /\ SF_aocVars(PollAnswered)
  /\ WF_aocVars(PowerChanges)
  /\ \A r \in Requests : SF_aocVars(Request(r))

FairSpec == Spec /\ Fairness

-----------------------------------------------------------------------------
TypeOK ==
  /\ aoc.run = NotRunning \/ aoc.run.step \in 1 .. Len(ScriptFor(aoc.run.script))
  /\ aoc.stops \in [Requests -> 0 .. MaxStops]
  /\ aoc.queue \in SeqOf(Requests, 2) /\ IsInjective(aoc.queue)
  /\ aoc.run.script \notin ToSet(aoc.queue)
  /\ client.failures \in 0 .. 2 /\ client.poll \in {None, "current", "outdated"}
  /\ client.fresh => client.screen.page # None

(***************************************************************************)
(* Boarding is only asked for with "board now" checked, whatever the box   *)
(* was left like and whichever keys are lost or late, unless the pilot     *)
(* uses the MCDU as well (AlreadyDone, CellMatches).                       *)
(***************************************************************************)
BoardingIsAskedWithTheBox == mcdu.sent = "boardWithoutTheBox" => mcdu.touched

(***************************************************************************)
(* A request the turnaround keeps making is sent: each lost key, failed    *)
(* poll, power cut and key of the pilot costs it one try at most, and only *)
(* as many of them as it has tries make the client give it up.             *)
(***************************************************************************)
IsServed(r) == mcdu.sent = r \/ (HasGivenUp(r) /\ mcdu.faults >= MaxStops)

(***************************************************************************)
(* With an MCDU that stays on and answers its keys, the aircraft does not  *)
(* read unpowered for good while something is asked of it.                 *)
(***************************************************************************)
PowerIsNoticed == []<>(IsAlive \/ aoc.queue = <<>> \/ mcdu.power # "on")
=============================================================================
