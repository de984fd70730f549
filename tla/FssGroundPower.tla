---------------------------- MODULE FssGroundPower ----------------------------
(***************************************************************************)
(* The ground power of the FSS E-Jet (FssEJetGpuFollowsRequestRule): the   *)
(* aircraft has only a toggle and a state that shows what a pulse did some *)
(* ticks later, so the rule pulses at most so often, and waits in between. *)
(***************************************************************************)
EXTENDS Integers

CONSTANTS
  MinTicksBetweenPulses, MaxAttempts,  \* of the rule
  Shows,                               \* ticks a pulse takes to show, fewer than those between two
  MaxFaults                            \* bound on lost pulses and on the pilot's own

VARIABLES
  gpu,    \* the rule, and the request the adapter keeps for it
  power,  \* the connection and the pulse on its way
  faults

gpuVars == <<gpu, power, faults>>

None == "none"

-----------------------------------------------------------------------------
\* A connection that moves reads as Unknown.
GetGroundPowerStatus == IF power.left = 0 THEN power.at ELSE "unknown"
Flipped == IF power.at = "connected" THEN "disconnected" ELSE "connected"

\* A request that is what is wanted already changes nothing.
ServeNewRequest(g) ==
  IF ~g.unserved THEN g
  ELSE IF g.desired = g.requested THEN [g EXCEPT !.unserved = FALSE]
  ELSE [g EXCEPT !.unserved = FALSE, !.desired = g.requested, !.attempts = 0,
                 !.ticksSincePulse = MinTicksBetweenPulses]

\* One that pulses a connection that moves as well.
ReconcileWhileItMoves(g) ==
  IF g.desired = None THEN g
  ELSE IF GetGroundPowerStatus = g.desired THEN [g EXCEPT !.desired = None, !.attempts = 0]
  ELSE IF g.ticksSincePulse + 1 < MinTicksBetweenPulses \/ g.attempts >= MaxAttempts
  THEN [g EXCEPT !.ticksSincePulse = IF @ < MinTicksBetweenPulses THEN @ + 1 ELSE @]
  ELSE [g EXCEPT !.ticksSincePulse = 0, !.attempts = @ + 1]

Reconcile(g) ==
  IF g.desired = None THEN g
  ELSE IF GetGroundPowerStatus = g.desired THEN [g EXCEPT !.desired = None, !.attempts = 0]
  ELSE IF GetGroundPowerStatus = "unknown" THEN g
  ELSE LET ticks == IF g.ticksSincePulse < MinTicksBetweenPulses THEN g.ticksSincePulse + 1
                    ELSE g.ticksSincePulse
       IN IF ticks < MinTicksBetweenPulses \/ g.attempts >= MaxAttempts
          THEN [g EXCEPT !.ticksSincePulse = ticks]
          ELSE [g EXCEPT !.ticksSincePulse = 0, !.attempts = @ + 1]

Pulsed(before, after) == after.attempts > before.attempts

\* The pulse on its way comes a tick nearer; one that is lost shows nothing.
PowerAfterATick(pulsed) ==
  IF pulsed THEN {[power EXCEPT !.left = Shows]} \cup (IF faults < MaxFaults THEN {power} ELSE {})
  ELSE IF power.left = 0 THEN {power}
  ELSE {[at |-> IF power.left = 1 THEN Flipped ELSE power.at, left |-> power.left - 1]}

Act ==
  \E served \in {ServeNewRequest(gpu)} :
    /\ gpu' = Reconcile(served)
    /\ power' \in PowerAfterATick(Pulsed(served, gpu'))
    /\ faults' = IF Pulsed(served, gpu') /\ power' = power THEN faults + 1 ELSE faults

\* The flow changes its mind only once the last pulse has shown.
SetGroundPower ==
  /\ power.left = 0 /\ ~gpu.unserved
  /\ \E on \in {"connected", "disconnected"} :
       gpu' = [gpu EXCEPT !.requested = on, !.unserved = TRUE]
  /\ UNCHANGED <<power, faults>>

PilotToggles ==
  /\ power.left = 0 /\ faults < MaxFaults /\ gpu.desired = None
  /\ power' = [power EXCEPT !.left = Shows]
  /\ faults' = faults + 1
  /\ UNCHANGED gpu

-----------------------------------------------------------------------------
Init ==
  /\ gpu = [requested |-> None, unserved |-> FALSE, desired |-> None, attempts |-> 0,
            ticksSincePulse |-> MinTicksBetweenPulses]
  /\ power = [at |-> "disconnected", left |-> 0]
  /\ faults = 0

Next == Act \/ SetGroundPower \/ PilotToggles

Spec == Init /\ [][Next]_gpuVars
FairSpec == Spec /\ WF_gpuVars(Act)

-----------------------------------------------------------------------------
TypeOK ==
  /\ gpu.attempts \in 0..MaxAttempts
  /\ gpu.ticksSincePulse \in 0..MinTicksBetweenPulses
  /\ gpu.unserved => gpu.requested # None

(***************************************************************************)
(* No pulse goes out while the one before is still to show, nor while the  *)
(* connection is what it is wanted to be: either would undo it.            *)
(***************************************************************************)
NoPulseUndoesAnother ==
  [][gpu'.attempts > gpu.attempts =>
       power.left = 0 /\ power.at # gpu'.desired]_gpuVars

(***************************************************************************)
(* A request comes to be served, over pulses that are lost (fewer than the *)
(* attempts) and a pilot who toggles before it.                            *)
(***************************************************************************)
PowerFollowsTheRequest == []<>(gpu.desired = None \/ power.at = gpu.desired)
=============================================================================
