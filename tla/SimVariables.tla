------------------------------- MODULE SimVariables -------------------------------
(***************************************************************************)
(* One variable of the simulator as the client keeps it                    *)
(* (SimConnectVariableGateway): a slot that is defined and requested, told *)
(* of its changes, and asked for again while the simulator does not know   *)
(* it.  Definitions, requests, answers and exceptions travel in order; an  *)
(* L:var may come to exist long after it was first asked for.              *)
(***************************************************************************)
EXTENDS Integers, Sequences, SequencesExt

CONSTANTS
  Values,     \* values the variable takes, a few integers
  MaxRetries, \* kMaxRetries
  MaxDelay,   \* kRetryMaxMs, in rounds of Dispatch
  MaxWire,    \* bound on the messages under way
  MaxFaults   \* bound on lost connections

VARIABLES
  slot, \* the slot
  sim,  \* the simulator's side of the connection, and the messages under way
  seen  \* what was received: since the connection, since the last consumption

simVariableVars == <<slot, sim, seen>>

CleanRetry(s) ==
  [s EXCEPT !.ids = FALSE, !.pending = FALSE, !.wait = 0, !.rejections = 0]
Slot ==
  [registered |-> FALSE, ids |-> FALSE, pending |-> FALSE, wait |-> 0, rejections |-> 0,
   received |-> FALSE, value |-> 0, min |-> 0, max |-> 0,
   marked |-> FALSE, tickValue |-> 0, changed |-> TRUE]

-----------------------------------------------------------------------------
(***************************************************************************)
(* The messages: a value, or an exception to the definition or the request *)
(* of the attempt last sent ("mine") or of an earlier one.                 *)
(***************************************************************************)
Value(v) == [kind |-> "value", value |-> v, mine |-> TRUE]
Exception == [kind |-> "exception", value |-> 0, mine |-> TRUE]
OfAnEarlierAttempt(m) == [m EXCEPT !.mine = m.kind = "value"]

\* What the simulator answers to a definition and its request: a value, or,
\* of an L:var it does not know, an exception to each of the two.
Answer == IF sim.exists THEN <<Value(sim.value)>> ELSE <<Exception, Exception>>

\* RegisterSlot: unless it is, the two packets are sent, and their ids kept.
RegisterSlot(s) == IF s.registered THEN s ELSE [s EXCEPT !.registered = TRUE, !.ids = TRUE]
Asked(wire) ==
  [sim EXCEPT !.wire = [i \in 1 .. Len(wire) |-> OfAnEarlierAttempt(wire[i])] \o Answer,
              !.told = sim.exists, !.shown = sim.value]

-----------------------------------------------------------------------------
(***************************************************************************)
(* Attach and Detach: nothing of an earlier connection is believed.        *)
(***************************************************************************)
Forgotten(s) ==
  [CleanRetry(s) EXCEPT !.registered = FALSE, !.received = FALSE,
                        !.marked = FALSE, !.changed = TRUE]

Attach ==
  /\ ~sim.attached
  /\ slot' = RegisterSlot(Forgotten(slot))
  /\ sim' = [Asked(<< >>) EXCEPT !.attached = TRUE]
  /\ seen' = [seen EXCEPT !.here = {}, !.since = {}, !.attempts = 1]

\* The simulator may have other values, and not know the variable, when it is back.
Detach ==
  /\ sim.attached /\ seen.faults < MaxFaults
  /\ slot' = Forgotten(slot)
  /\ \E v \in Values, known \in BOOLEAN :
       sim' = [sim EXCEPT !.attached = FALSE, !.wire = << >>, !.told = FALSE,
                          !.value = v, !.exists = known]
  /\ seen' = [seen EXCEPT !.here = {}, !.since = {}, !.attempts = 0, !.faults = @ + 1]

-----------------------------------------------------------------------------
(***************************************************************************)
(* HandleException, RejectSlot and ScheduleRetry: an exception to the      *)
(* attempt under way counts, and the slot is asked for again some time     *)
(* later, twice as late after each.                                        *)
(***************************************************************************)
RetryDelay(rejections) ==
  LET doubled == 2 ^ (rejections - 1)
  IN  IF doubled \in 1 .. MaxDelay THEN doubled ELSE MaxDelay
ScheduleRetry(s) ==
  IF s.rejections + 1 > MaxRetries
  THEN [s EXCEPT !.rejections = MaxRetries + 1, !.pending = FALSE]
  ELSE [s EXCEPT !.rejections = @ + 1, !.pending = TRUE, !.wait = RetryDelay(s.rejections + 1)]
RejectedStillRegistered(s) == ScheduleRetry([s EXCEPT !.ids = FALSE])
RejectSlot(s) == ScheduleRetry([s EXCEPT !.registered = FALSE, !.ids = FALSE])

IsOfTheSlot(m) == m.mine /\ slot.ids

(***************************************************************************)
(* StoreSample: the value, and the span of the values since it was last    *)
(* consumed.                                                               *)
(***************************************************************************)
Least(a, b) == IF a < b THEN a ELSE b
Most(a, b) == IF a > b THEN a ELSE b
Spanned(s, v) ==
  [s EXCEPT !.min = IF s.received THEN Least(s.min, v) ELSE v,
            !.max = IF s.received THEN Most(s.max, v) ELSE v]
StoreSample(s, v) == [Spanned(s, v) EXCEPT !.value = v, !.received = TRUE]

Delivered(m) ==
  /\ slot' = IF m.kind = "value" THEN CleanRetry(StoreSample(slot, m.value))
             ELSE IF IsOfTheSlot(m) THEN RejectSlot(slot) ELSE slot
  /\ seen' = IF m.kind = "value"
             THEN [seen EXCEPT !.here = @ \union {m.value}, !.since = @ \union {m.value},
                               !.attempts = 1]
             ELSE seen

Dispatch ==
  /\ sim.wire # << >>
  /\ Delivered(Head(sim.wire))
  /\ sim' = [sim EXCEPT !.wire = Tail(@)]

\* RetryRejected, once what has come is handled.
IsDue == slot.pending /\ slot.wait = 0
RetryRejected ==
  /\ sim.attached /\ slot.pending /\ Len(sim.wire) < MaxWire
  /\ IF IsDue
     THEN /\ slot' = RegisterSlot([slot EXCEPT !.pending = FALSE])
          /\ sim' = IF slot.registered THEN sim ELSE Asked(sim.wire)
          /\ seen' = [seen EXCEPT !.attempts = IF @ <= MaxRetries THEN @ + 1 ELSE @]
     ELSE slot' = [slot EXCEPT !.wait = @ - 1] /\ UNCHANGED <<sim, seen>>

\* SetFastRefresh on a slot that is known already: it is requested anew.
PromoteToFastRefresh ==
  /\ sim.attached /\ ~seen.fast /\ Len(sim.wire) < MaxWire
  /\ slot' = RegisterSlot([CleanRetry(slot) EXCEPT !.registered = FALSE])
  /\ sim' = Asked(sim.wire)
  /\ seen' = [seen EXCEPT !.fast = TRUE, !.attempts = 1]

-----------------------------------------------------------------------------
(***************************************************************************)
(* Update: MarkTick, and a consumer that reads the span of the tick        *)
(* (ConsumeLVarSpan).                                                      *)
(***************************************************************************)
MarkTick(s) ==
  [s EXCEPT !.changed = ~s.marked \/ s.value # s.tickValue,
            !.tickValue = s.value, !.marked = TRUE]
Consumed(s) == IF s.received THEN [s EXCEPT !.min = s.value, !.max = s.value] ELSE s

Update ==
  /\ sim.attached
  /\ slot' = Consumed(MarkTick(slot))
  /\ seen' = [seen EXCEPT !.since = IF slot.received THEN {slot.value} ELSE {}]
  /\ UNCHANGED sim

-----------------------------------------------------------------------------
(***************************************************************************)
(* The simulator.                                                          *)
(***************************************************************************)
Changes ==
  /\ \E v \in Values \ {sim.value} : sim' = [sim EXCEPT !.value = v]
  /\ UNCHANGED <<slot, seen>>

\* An add-on creates its variables when it is loaded.
ComesToExist ==
  /\ ~sim.exists /\ sim' = [sim EXCEPT !.exists = TRUE]
  /\ UNCHANGED <<slot, seen>>

\* A requested variable is sent when it has changed.
Sends ==
  /\ sim.attached /\ sim.told /\ sim.shown # sim.value /\ Len(sim.wire) < MaxWire
  /\ sim' = [sim EXCEPT !.wire = Append(@, Value(sim.value)), !.shown = sim.value]
  /\ UNCHANGED <<slot, seen>>

Init ==
  /\ slot = Slot
  /\ sim \in [attached : {FALSE}, exists : BOOLEAN, value : Values, told : {FALSE},
              shown : {0}, wire : {<< >>}]
  /\ seen = [here |-> {}, since |-> {}, attempts |-> 0, fast |-> FALSE, faults |-> 0]

Next ==
  \/ Attach \/ Detach \/ Dispatch \/ RetryRejected \/ PromoteToFastRefresh \/ Update
  \/ Changes \/ ComesToExist \/ Sends

Spec == Init /\ [][Next]_simVariableVars

\* The client connects and dispatches, and the simulator sends what changed.
Fairness ==
  /\ WF_simVariableVars(Attach) /\ WF_simVariableVars(Dispatch)
  /\ SF_simVariableVars(RetryRejected) /\ SF_simVariableVars(Sends)

FairSpec == Spec /\ Fairness

-----------------------------------------------------------------------------
(***************************************************************************)
(* A slot that is asked for again is not registered, nothing is read       *)
(* before it is received, and the span holds its value.                    *)
(***************************************************************************)
TypeOK ==
  /\ slot.wait \in 0 .. MaxDelay /\ slot.rejections \in 0 .. MaxRetries + 1
  /\ slot.pending => ~slot.ids /\ slot.rejections > 0
  /\ slot.received => slot.min <= slot.value /\ slot.value <= slot.max
  /\ Len(sim.wire) <= MaxWire + 2

(***************************************************************************)
(* What is read has been received in this connection: the variable of an   *)
(* aircraft of an earlier one is never believed.                           *)
(***************************************************************************)
ReadsThisConnection == slot.received => slot.value \in seen.here

(***************************************************************************)
(* No value that came between two ticks is missed: the span a tick         *)
(* consumes reaches from the least to the greatest of them.                *)
(***************************************************************************)
SpanHoldsEverySample ==
  slot.received =>
    /\ \A v \in seen.since : slot.min <= v /\ v <= slot.max
    /\ slot.min \in seen.since /\ slot.max \in seen.since

(***************************************************************************)
(* An attempt the simulator refuses counts once, although it answers its   *)
(* definition and its request with an exception each: the tries are not    *)
(* spent twice as fast.                                                    *)
(***************************************************************************)
RefusalsCountOnce == slot.rejections <= seen.attempts

(***************************************************************************)
(* A variable that comes to exist while it is still asked for is received. *)
(***************************************************************************)
LateVariablesArrive ==
  (sim.exists /\ sim.attached /\ slot.pending) ~> (slot.received \/ ~sim.attached)
=============================================================================
