------------------------------ MODULE RuleHolds ------------------------------
(***************************************************************************)
(* The fast rules of an aircraft (TurnaroundState.cpp): every evaluation   *)
(* asks them all, and the first one that asks to hold keeps the phase from *)
(* being evaluated, for as many ticks as it is allowed.  A rule whose hold *)
(* expired is not heard again before it has passed or the phase has        *)
(* changed, and a touch of the pilot beats any hold.                       *)
(*                                                                         *)
(* The rules are the numbers of their order; what they ask for is the      *)
(* environment's choice in every tick.                                     *)
(***************************************************************************)
EXTENDS TurnaroundStateMachine, FiniteSets

CONSTANTS
  HoldTicksAllowed,  \* for each rule, holdTicksAllowed of its verdicts
  LongestHold        \* the longest of them

Rules == DOMAIN HoldTicksAllowed

ASSUME RuleConstants ==
  /\ Rules \subseteq Nat /\ IsFiniteSet(Rules)
  /\ LongestHold \in Nat
  /\ \A rule \in Rules : HoldTicksAllowed[rule] \in 0 .. LongestHold

VARIABLES
  ruleHoldTicks,     \* data.ruleHoldTicks
  expiredRuleHolds,  \* data.expiredRuleHolds
  heldTicks,         \* history: ticks held since the phase was last evaluated
  asked,             \* history: the rules that have asked to hold since the
                     \* phase, a touch, or a rule that passed began a wait
  heldInAll,         \* history: the ticks held in that wait
  touchedWhileAsking \* history: the rules that have asked to hold ever since
                     \* a touch of the pilot was evaluated in this phase

ruleVars ==
  <<ruleHoldTicks, expiredRuleHolds, heldTicks, asked, heldInAll,
    touchedWhileAsking>>
vars == <<machineVars, ruleVars>>

(***************************************************************************)
(* TransitionTo starts the rules over, also when a delayed transition is   *)
(* applied at the start of the tick.                                       *)
(***************************************************************************)
HoldTicksSoFar == IF Expiring THEN 0 ELSE ruleHoldTicks
HeldTicksSoFar == IF Expiring THEN 0 ELSE heldTicks
ExpiredSoFar(asking) == IF Expiring THEN {} ELSE expiredRuleHolds \cap asking
HeldInAllSoFar(asking) ==
  IF Expiring \/ ~(asked \subseteq asking) THEN 0 ELSE heldInAll
TouchedSoFar(asking) == IF Expiring THEN {} ELSE touchedWhileAsking \cap asking

StartOver ==
  /\ ruleHoldTicks' = 0
  /\ expiredRuleHolds' = {}
  /\ heldTicks' = 0
  /\ asked' = {}
  /\ heldInAll' = 0
  /\ touchedWhileAsking' = {}

\* The rule whose hold is taken: the first that asks and has not expired.
TakesTheHold(rule, asking) ==
  /\ rule \in asking \ ExpiredSoFar(asking)
  /\ \A other \in asking \ ExpiredSoFar(asking) : rule <= other

Holdable(asking) == asking \ ExpiredSoFar(asking) # {}

HoldsOneTickMore(rule) == HoldTicksSoFar <= HoldTicksAllowed[rule]
HoldStaysWithin(rule) == HoldTicksSoFar + 1 <= HoldTicksAllowed[rule]

KeepThePhaseAndForgetTheDelay == GoAs(phase, lastTransitionOrigin)
KeepThePhase == Stay

\* The tick of a phase that is held.
HeldTick(p, asking) ==
  /\ PhaseTick(p)
  /\ ~PilotTouched(FALSE)
  /\ \E rule \in Rules :
       /\ TakesTheHold(rule, asking)
       /\ HoldStaysWithin(rule)
  /\ KeepThePhase
  /\ ruleHoldTicks' = HoldTicksSoFar + 1
  /\ expiredRuleHolds' = ExpiredSoFar(asking)
  /\ heldTicks' = HeldTicksSoFar + 1
  /\ asked' = asking
  /\ heldInAll' = HeldInAllSoFar(asking) + 1
  /\ touchedWhileAsking' = TouchedSoFar(asking)

\* An evaluation of the phase, which starts the rules over when it leaves it.
EvaluatedTick(p, asking, expired, total, touched) ==
  /\ OpenTick(p)
  /\ \/ /\ phase' = p
        /\ ruleHoldTicks' = 0
        /\ expiredRuleHolds' = expired
        /\ heldTicks' = 0
        /\ asked' = asking
        /\ heldInAll' = total
        /\ touchedWhileAsking' = touched
     \/ phase' # p /\ StartOver

UnheldTick(p, asking) ==
  /\ ~Holdable(asking)
  /\ EvaluatedTick(p, asking, ExpiredSoFar(asking), HeldInAllSoFar(asking),
                   TouchedSoFar(asking))

TouchedTick(p, asking) ==
  /\ Holdable(asking)
  /\ EvaluatedTick(p, asking, ExpiredSoFar(asking), 0, asking)

ExpiresUnnoted(asking, rule) == ExpiredSoFar(asking)
Expires(asking, rule) == ExpiredSoFar(asking) \cup {rule}

HoldExpires(p, asking) ==
  /\ ~PilotTouched(FALSE)
  /\ \E rule \in Rules :
       /\ TakesTheHold(rule, asking)
       /\ ~HoldStaysWithin(rule)
       /\ EvaluatedTick(p, asking, Expires(asking, rule),
                        HeldInAllSoFar(asking), TouchedSoFar(asking))

\* Only the evaluation of a phase asks the rules.
EngineTick ==
  \/ DelayTick /\ UNCHANGED ruleVars
  \/ /\ AirborneTick
     /\ IF phase' = phase THEN UNCHANGED ruleVars ELSE StartOver

Restart ==
  /\ Reset \/ \E p \in Phases : ResumeFrom(p)
  /\ StartOver

Init ==
  /\ MachineInit
  /\ ruleHoldTicks = 0
  /\ expiredRuleHolds = {}
  /\ heldTicks = 0
  /\ asked = {}
  /\ heldInAll = 0
  /\ touchedWhileAsking = {}

RuleTick(p, asking) ==
  \/ HeldTick(p, asking)
  \/ UnheldTick(p, asking)
  \/ TouchedTick(p, asking)
  \/ HoldExpires(p, asking)

Next ==
  \/ EngineTick
  \/ \E p \in Phases, asking \in SUBSET Rules : RuleTick(p, asking)
  \/ Restart
  \/ (\E p \in Phases : AcceptPilotTouch(p)) /\ UNCHANGED ruleVars
  \/ TakeOffOrLand /\ UNCHANGED ruleVars

Spec == Init /\ [][Next]_vars
-----------------------------------------------------------------------------
\* The types of the fields of the rules.
TypeOK ==
  /\ MachineTypeOK
  /\ ruleHoldTicks \in 0 .. LongestHold
  /\ expiredRuleHolds \subseteq Rules
  /\ heldTicks \in Nat
  /\ asked \subseteq Rules
  /\ heldInAll \in Nat
  /\ touchedWhileAsking \subseteq Rules

(***************************************************************************)
(* The rules keep a phase from being evaluated for at most as many ticks   *)
(* as the longest hold allows, although they share one count, take turns,  *)
(* and the pilot, the airborne count, delays and restarts come in between. *)
(***************************************************************************)
HoldsEnd == heldTicks <= LongestHold

(***************************************************************************)
(* Rules that go on asking wear out: as long as none of them passes, the   *)
(* phase is held for no more than LongestHold ticks for each of them, all  *)
(* in all, although an earlier rule may end the hold of another on the     *)
(* shared count (ruleHoldTicks, expiredRuleHolds).                         *)
(***************************************************************************)
RulesWearOut == heldInAll <= Cardinality(Rules) * LongestHold

(***************************************************************************)
(* CONTRIBUTING.md: "a pilot action cancels the hold".  A rule that asked  *)
(* to hold when the pilot touched, and still asks for it, does not hold    *)
(* the phase again.                                                        *)
(***************************************************************************)
PilotActionCancelsTheHold ==
  [][heldTicks' > heldTicks => touchedWhileAsking' = {}]_vars

(***************************************************************************)
(* The rules let go of a phase: in one hold after LongestHold ticks, and   *)
(* all in all once each has worn out.                                      *)
(***************************************************************************)
RulesLetGo == HoldsEnd /\ RulesWearOut
=============================================================================
