------------------------------ MODULE PmdgGroundConn ------------------------------
(***************************************************************************)
(* The ground connections of a PMDG aircraft (PmdgGroundConnReconciler):   *)
(* the chocks, the ground power and the passenger entry are buttons of the *)
(* tablet that change what they show some time after they are pressed.  A  *)
(* request lives until the reading agrees with it.  The readings come from *)
(* the tablet's replies and the aircraft's data, which may come late, and  *)
(* a press may be lost with the tablet's bridge.                           *)
(***************************************************************************)
EXTENDS Integers

CONSTANTS
  RetryTicks,  \* kGroundConnRetryTicks, kChocksRetryTicks
  MaxAttempts, \* kGroundConnMaxAttempts
  MaxFaults    \* bound on lost presses and relaunches, less than MaxAttempts

VARIABLES
  conn,  \* the request of one connection in PmdgGroundConnReconciler
  plane, \* the connection in the aircraft, and what is read of it (environment)
  saved  \* what was asked last, whether it was pressed for, the faults

groundVars == <<conn, plane, saved>>

NoWish == "none"
Idle == [wish |-> NoWish, ticks |-> 0, attempts |-> 0, awaits |-> FALSE]
AsWish(on) == IF on THEN "on" ELSE "off"

-----------------------------------------------------------------------------
(***************************************************************************)
(* SetChocks, SetGroundPower, SetPassengerEntryJetway: a new wish is       *)
(* pressed for at the next tick; the entry's is the jetway.                *)
(***************************************************************************)
Wished(c, wish) ==
  IF c.wish = wish THEN c
  ELSE [wish |-> wish, ticks |-> RetryTicks, attempts |-> 0,
        awaits |-> plane.kind = "chocks"]

\* Nothing is wished for while a button has yet to show what it does.
Set ==
  /\ plane.phase = "rests"
  /\ \E wish \in IF plane.kind = "entry" THEN {"on"} ELSE {"on", "off"} :
       /\ wish # saved.asked
       /\ conn' = Wished(conn, wish)
       /\ saved' = [saved EXCEPT !.asked = wish, !.pressed = FALSE]
  /\ UNCHANGED plane

-----------------------------------------------------------------------------
(***************************************************************************)
(* Reconcile, in its stages.                                               *)
(***************************************************************************)
\* The chocks and the entry are not judged before their reading has come.
CanBeJudged == plane.kind = "power" \/ plane.known

Reading == plane.on
IsReached(c) == c.wish = AsWish(Reading)
Reached(c) == [c EXCEPT !.wish = NoWish, !.attempts = 0]

\* Only the ground power tells that it is on its way.
IsMoving == plane.kind = "power" /\ plane.phase = "moves"

PressesAtOnce(c) == c.attempts < MaxAttempts
PressIsDue(c) == c.ticks + 1 >= RetryTicks /\ c.attempts < MaxAttempts

Reconciled(c) ==
  IF c.wish = NoWish \/ ~CanBeJudged THEN c
  ELSE IF IsReached(c) THEN Reached([c EXCEPT !.awaits = FALSE])
  ELSE IF IsMoving THEN [c EXCEPT !.ticks = 0]
  ELSE IF PressIsDue(c) THEN [c EXCEPT !.ticks = 0, !.attempts = @ + 1, !.awaits = FALSE]
  ELSE [c EXCEPT !.ticks = IF @ < RetryTicks THEN @ + 1 ELSE @, !.awaits = FALSE]

IsPressed(c) ==
  c.wish # NoWish /\ CanBeJudged /\ ~IsReached(c) /\ ~IsMoving /\ PressIsDue(c)

\* What is pressed shows within the ticks between two tries; a connection that
\* does not tell that it moves has moved by then.
Pressed(p) == [p EXCEPT !.phase = "pressed", !.age = 0]
InTime(p) ==
  p.age < RetryTicks - 1 \/ p.phase = "rests" \/ (p.phase = "moves" /\ p.kind = "power")
Aged(p) == IF p.phase = "rests" THEN p ELSE [p EXCEPT !.age = IF @ < RetryTicks THEN @ + 1 ELSE @]

Tick(lost) ==
  /\ InTime(plane)
  /\ lost => IsPressed(conn) /\ saved.faults < MaxFaults
  /\ conn' = Reconciled(conn)
  /\ plane' = IF IsPressed(conn) /\ ~lost THEN Pressed(plane) ELSE Aged(plane)
  /\ saved' = [saved EXCEPT !.pressed = IsPressed(conn),
                            !.faults = IF lost THEN @ + 1 ELSE @]

\* RestoreMemory asks again for what was still wished for: it is saved with
\* the tick that wished it, or reached it.
RestoredWish(c) == IF c.wish = NoWish THEN Idle ELSE Wished(Idle, c.wish)
RestoreMemory ==
  /\ saved.faults < MaxFaults /\ plane.phase = "rests"
  /\ conn' = RestoredWish(conn)
  /\ plane' = [plane EXCEPT !.known = FALSE]
  /\ saved' = [saved EXCEPT !.faults = @ + 1, !.pressed = FALSE]

-----------------------------------------------------------------------------
(***************************************************************************)
(* The aircraft, and the replies of the tablet (OnInbound).                *)
(***************************************************************************)
Unpressed == saved' = [saved EXCEPT !.pressed = FALSE]

Moves ==
  /\ plane.phase = "pressed"
  /\ plane' = [plane EXCEPT !.phase = "moves"]
  /\ Unpressed /\ UNCHANGED conn
Arrives ==
  /\ plane.phase = "moves"
  /\ plane' = [plane EXCEPT !.phase = "rests", !.on = ~@, !.age = 0]
  /\ Unpressed /\ UNCHANGED conn

PilotPresses ==
  /\ plane.phase = "rests" /\ saved.faults < MaxFaults /\ conn.wish = NoWish
  /\ plane' = [plane EXCEPT !.phase = "moves", !.age = 0]
  /\ saved' = [saved EXCEPT !.faults = @ + 1, !.pressed = FALSE, !.pilot = TRUE]
  /\ UNCHANGED conn

ReadingArrives ==
  /\ ~plane.known
  /\ plane' = [plane EXCEPT !.known = TRUE]
  /\ Unpressed /\ UNCHANGED conn

Init ==
  /\ conn = Idle
  /\ plane \in [kind : {"chocks", "power", "entry"}, on : BOOLEAN, phase : {"rests"},
                age : {0}, known : {FALSE}]
  /\ saved = [asked |-> NoWish, pressed |-> FALSE, pilot |-> FALSE, faults |-> 0]

Next ==
  \/ Set \/ RestoreMemory \/ \E lost \in BOOLEAN : Tick(lost)
  \/ Moves \/ Arrives \/ PilotPresses \/ ReadingArrives

Spec == Init /\ [][Next]_groundVars

\* The client ticks, replies come, and what is pressed moves and arrives.
Fairness ==
  /\ SF_groundVars(\E lost \in BOOLEAN : Tick(lost))
  /\ WF_groundVars(Moves) /\ WF_groundVars(Arrives) /\ WF_groundVars(ReadingArrives)

FairSpec == Spec /\ Fairness

-----------------------------------------------------------------------------
TypeOK ==
  /\ conn.ticks \in 0 .. RetryTicks /\ conn.attempts \in 0 .. MaxAttempts
  /\ conn.awaits => conn.attempts = 0 /\ conn.wish # NoWish
  /\ conn.wish # NoWish => conn.wish = saved.asked

(***************************************************************************)
(* A button is pressed only when the connection rests, is known, and is    *)
(* not as it is wished to be: a press never takes back another.            *)
(***************************************************************************)
NoPressUndoesItself ==
  [][ saved'.pressed =>
        /\ plane.phase = "rests" /\ conn.wish # AsWish(plane.on)
        /\ plane.known \/ plane.kind = "power" ]_groundVars

(***************************************************************************)
(* What is asked for last is reached, over a relaunch too, as long as      *)
(* fewer presses are lost than there are tries.                            *)
(***************************************************************************)
AskedIsReached ==
  \A wish \in {"on", "off"} :
    <>[](saved.asked = wish /\ ~saved.pilot) => <>[](AsWish(plane.on) = wish)
=============================================================================
