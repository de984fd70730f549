---------------------------- MODULE Aircraft_proof ----------------------------
(***************************************************************************)
(* Proofs about the rules of the aircraft: their holds, for any number of  *)
(* rules with any holds, and any choice of what they ask; and the doors,   *)
(* tanks and connections that single ones of them move, for any delays.    *)
(***************************************************************************)
EXTENDS MCAircraft, TurnaroundStateMachine_proof, FiniteSetTheorems, TLAPS

(***************************************************************************)
(* The count the rules share is the count of the held ticks: both start    *)
(* over together, and no rule holds beyond the longest hold.               *)
(***************************************************************************)
SharedCount ==
  /\ ruleHoldTicks \in 0 .. LongestHold
  /\ heldTicks = ruleHoldTicks

LEMMA HeldTickCounts ==
  ASSUME SharedCount, NEW p \in Phases, NEW asking \in SUBSET Rules,
         HeldTick(p, asking)
  PROVE  SharedCount'
<1>1. PICK hold \in Rules : HoldStaysWithin(hold)
  BY DEF HeldTick
<1>2. HoldTicksSoFar \in Nat /\ HeldTicksSoFar = HoldTicksSoFar
  BY RuleConstants DEF SharedCount, HoldTicksSoFar, HeldTicksSoFar
<1>3. HoldTicksSoFar + 1 <= LongestHold
  BY <1>1, <1>2, RuleConstants DEF HoldStaysWithin
<1>4. ruleHoldTicks' = HoldTicksSoFar + 1 /\ heldTicks' = HeldTicksSoFar + 1
  BY DEF HeldTick
<1> QED
  BY <1>2, <1>3, <1>4, RuleConstants DEF SharedCount

LEMMA CountStartsOver ==
  ASSUME ruleHoldTicks' = 0, heldTicks' = 0
  PROVE  SharedCount'
BY RuleConstants DEF SharedCount

LEMMA EvaluatedTickCounts ==
  ASSUME NEW p, NEW asking, NEW expired, NEW total, NEW touched,
         EvaluatedTick(p, asking, expired, total, touched)
  PROVE  SharedCount'
BY CountStartsOver DEF EvaluatedTick, StartOver

LEMMA CountIsKept ==
  ASSUME SharedCount, [Next]_vars
  PROVE  SharedCount'
<1>1. CASE EngineTick
  <2>1. CASE UNCHANGED ruleVars
    BY <2>1 DEF SharedCount, ruleVars
  <2>2. CASE StartOver
    BY <2>2, CountStartsOver DEF StartOver
  <2> QED
    BY <1>1, <2>1, <2>2 DEF EngineTick
<1>2. ASSUME NEW p \in Phases, NEW asking \in SUBSET Rules,
             RuleTick(p, asking)
      PROVE  SharedCount'
  <2>1. CASE HeldTick(p, asking)
    BY <2>1, HeldTickCounts
  <2>2. CASE UnheldTick(p, asking)
    BY <2>2, EvaluatedTickCounts DEF UnheldTick
  <2>3. CASE TouchedTick(p, asking)
    BY <2>3, EvaluatedTickCounts DEF TouchedTick
  <2>4. CASE HoldExpires(p, asking)
    BY <2>4, EvaluatedTickCounts DEF HoldExpires
  <2> QED
    BY <1>2, <2>1, <2>2, <2>3, <2>4 DEF RuleTick
<1>3. CASE Restart
  BY <1>3, CountStartsOver DEF Restart, StartOver
<1>4. CASE UNCHANGED ruleVars
  BY <1>4 DEF SharedCount, ruleVars
<1> QED
  BY <1>1, <1>2, <1>3, <1>4 DEF Next, vars

\* The rules share one count, and it is the count of the ticks held.
THEOREM CountIsShared == Spec => []SharedCount
<1>1. Init => SharedCount
  BY RuleConstants DEF Init, SharedCount
<1>2. SharedCount /\ [Next]_vars => SharedCount'
  BY CountIsKept
<1> QED
  BY <1>1, <1>2, PTL DEF Spec

\* No phase is held for more ticks in a row than the longest hold of its
\* rules, however many rules take turns.
THEOREM NoPhaseIsHeldForEver == Spec => []HoldsEnd
<1>1. SharedCount => HoldsEnd
  BY RuleConstants DEF SharedCount, HoldsEnd
<1> QED
  BY <1>1, CountIsShared, PTL
-----------------------------------------------------------------------------
(***************************************************************************)
(* Rules wear out: what the phase was held for is paid by the rules whose  *)
(* hold expired, and the hold that is running by a rule that has not       *)
(* expired yet.                                                            *)
(***************************************************************************)
WornOut ==
  /\ asked \subseteq Rules
  /\ expiredRuleHolds \subseteq asked
  /\ heldInAll \in Nat
  /\ heldInAll <= Cardinality(expiredRuleHolds) * LongestHold + ruleHoldTicks
  /\ ruleHoldTicks > 0 => asked \ expiredRuleHolds # {}

\* Sets of rules are finite, and one more rule is one more to count.
LEMMA RulesAreFinite ==
  ASSUME NEW some \in SUBSET Rules
  PROVE  /\ IsFiniteSet(some)
         /\ Cardinality(some) \in Nat
         /\ Cardinality(some) <= Cardinality(Rules)
         /\ some # Rules => Cardinality(some) + 1 <= Cardinality(Rules)
         /\ \A hold \in Rules \ some :
              Cardinality(some \cup {hold}) = Cardinality(some) + 1
<1>1. IsFiniteSet(Rules) /\ IsFiniteSet(some)
  BY RuleConstants, FS_Subset
<1>2. Cardinality(some) \in Nat /\ Cardinality(Rules) \in Nat
  BY <1>1, FS_CardinalityType
<1>3. Cardinality(some) <= Cardinality(Rules)
  BY <1>1, FS_Subset
<1>4. some # Rules => Cardinality(some) < Cardinality(Rules)
  <2>1. Cardinality(Rules) = Cardinality(some) => Rules = some
    BY <1>1, FS_Subset
  <2> QED
    BY <1>2, <1>3, <2>1
<1>5. \A hold \in Rules \ some :
        Cardinality(some \cup {hold}) = Cardinality(some) + 1
  BY <1>1, FS_AddElement
<1> QED
  BY <1>1, <1>2, <1>3, <1>4, <1>5

\* A wait that starts has been held for nothing.
LEMMA WaitStarts ==
  ASSUME heldInAll' = 0, ruleHoldTicks' = 0, asked' \in SUBSET Rules,
         expiredRuleHolds' \subseteq asked'
  PROVE  WornOut'
<1>1. Cardinality(expiredRuleHolds') \in Nat
  BY RulesAreFinite
<1> QED
  BY <1>1, RuleConstants DEF WornOut

\* What an evaluation that asks the rules finds: the wait goes on, and
\* nothing has expired or passed, or it starts.
LEMMA WaitSoFar ==
  ASSUME SharedCount, WornOut, NEW asking \in SUBSET Rules
  PROVE  /\ ExpiredSoFar(asking) \subseteq asking
         /\ HoldTicksSoFar \in Nat /\ HeldInAllSoFar(asking) \in Nat
         /\ HeldInAllSoFar(asking)
              <= Cardinality(ExpiredSoFar(asking)) * LongestHold + HoldTicksSoFar
         /\ HoldTicksSoFar <= LongestHold
         /\ asking \ ExpiredSoFar(asking) = {} =>
              HeldInAllSoFar(asking)
                <= Cardinality(ExpiredSoFar(asking)) * LongestHold
<1>1. ExpiredSoFar(asking) \subseteq asking
  BY DEF ExpiredSoFar
<1>2. Cardinality(ExpiredSoFar(asking)) \in Nat
  BY <1>1, RulesAreFinite
<1>3. HoldTicksSoFar \in 0 .. LongestHold
  BY RuleConstants DEF HoldTicksSoFar, SharedCount
<1>4. CASE Expiring \/ ~(asked \subseteq asking)
  <2>1. HeldInAllSoFar(asking) = 0
    BY <1>4 DEF HeldInAllSoFar
  <2>2. Cardinality(ExpiredSoFar(asking)) * LongestHold \in Nat
    BY <1>2, RuleConstants
  <2> QED
    BY <1>1, <1>3, <2>1, <2>2, RuleConstants
<1>5. CASE ~Expiring /\ asked \subseteq asking
  <2>1. /\ HeldInAllSoFar(asking) = heldInAll
        /\ HoldTicksSoFar = ruleHoldTicks
    BY <1>5 DEF HeldInAllSoFar, HoldTicksSoFar
  <2>2. ExpiredSoFar(asking) = expiredRuleHolds
    BY <1>5 DEF ExpiredSoFar, WornOut
  <2>3. asking \ expiredRuleHolds = {} => ruleHoldTicks = 0
    <3>1. asking \ expiredRuleHolds = {} => asked \ expiredRuleHolds = {}
      BY <1>5
    <3>2. ruleHoldTicks > 0 => asked \ expiredRuleHolds # {}
      BY DEF WornOut
    <3>3. ruleHoldTicks \in Nat
      BY <1>3, <2>1
    <3>4. ~(ruleHoldTicks > 0) => ruleHoldTicks = 0
      BY <3>3
    <3> QED
      BY <3>1, <3>2, <3>4
  <2>4. Cardinality(expiredRuleHolds) * LongestHold \in Nat
    BY <1>2, <2>2, RuleConstants
  <2> QED
    BY <1>1, <1>3, <2>1, <2>2, <2>3, <2>4, RuleConstants DEF WornOut
<1> QED
  BY <1>4, <1>5

\* A held tick counts for the hold that is running.
LEMMA HeldTickWears ==
  ASSUME SharedCount, WornOut, NEW p \in Phases,
         NEW asking \in SUBSET Rules, HeldTick(p, asking)
  PROVE  WornOut'
<1>1. /\ asked' = asking
      /\ expiredRuleHolds' = ExpiredSoFar(asking)
      /\ heldInAll' = HeldInAllSoFar(asking) + 1
      /\ ruleHoldTicks' = HoldTicksSoFar + 1
  BY DEF HeldTick
<1>2. asking \ ExpiredSoFar(asking) # {}
  BY DEF HeldTick, TakesTheHold
<1>3. Cardinality(ExpiredSoFar(asking)) * LongestHold \in Nat
  BY WaitSoFar, RulesAreFinite, RuleConstants
<1>4. HeldInAllSoFar(asking) + 1
        <= Cardinality(ExpiredSoFar(asking)) * LongestHold + (HoldTicksSoFar + 1)
  BY <1>3, WaitSoFar
<1> QED
  BY <1>1, <1>2, <1>4, WaitSoFar DEF WornOut

\* A phase that is evaluated for another reason starts a wait, or goes on
\* with one in which no hold was running or the one that was expires.
LEMMA EvaluatedTickWears ==
  ASSUME NEW p, NEW asking \in SUBSET Rules, NEW expired \in SUBSET asking,
         NEW total \in Nat, NEW touched,
         total <= Cardinality(expired) * LongestHold,
         EvaluatedTick(p, asking, expired, total, touched)
  PROVE  WornOut'
<1>1. CASE StartOver
  BY <1>1, WaitStarts DEF StartOver
<1>2. CASE phase' = p /\ ~StartOver
  <2>1. /\ ruleHoldTicks' = 0 /\ asked' = asking
        /\ expiredRuleHolds' = expired /\ heldInAll' = total
    BY <1>2 DEF EvaluatedTick
  <2>2. Cardinality(expired) * LongestHold \in Nat
    BY RulesAreFinite, RuleConstants
  <2> QED
    BY <2>1, <2>2 DEF WornOut
<1> QED
  BY <1>1, <1>2 DEF EvaluatedTick

\* The rule whose hold expires pays for all of it.
LEMMA ExpiringHoldWears ==
  ASSUME SharedCount, WornOut, NEW p \in Phases,
         NEW asking \in SUBSET Rules, HoldExpires(p, asking)
  PROVE  WornOut'
<1>1. PICK hold \in Rules :
        /\ TakesTheHold(hold, asking)
        /\ EvaluatedTick(p, asking, Expires(asking, hold),
                         HeldInAllSoFar(asking), TouchedSoFar(asking))
  BY DEF HoldExpires
<1>2. hold \in asking /\ hold \notin ExpiredSoFar(asking)
  BY <1>1 DEF TakesTheHold
<1>3. Expires(asking, hold) \in SUBSET asking
  BY <1>2, WaitSoFar DEF Expires
<1> DEFINE before == Cardinality(ExpiredSoFar(asking))
<1>4. before \in Nat /\ Cardinality(Expires(asking, hold)) = before + 1
  BY <1>2, WaitSoFar, RulesAreFinite DEF Expires
<1>5. HeldInAllSoFar(asking) <= before * LongestHold + LongestHold
  <2>1. before * LongestHold \in Nat
    BY <1>4, RuleConstants
  <2> QED
    BY <2>1, WaitSoFar, RuleConstants
<1>6. HeldInAllSoFar(asking) <= (before + 1) * LongestHold
  <2>1. (before + 1) * LongestHold = before * LongestHold + LongestHold
    BY <1>4, RuleConstants
  <2> QED
    BY <1>5, <2>1
<1>7. HeldInAllSoFar(asking)
        <= Cardinality(Expires(asking, hold)) * LongestHold
  BY <1>4, <1>6
<1> QED
  BY <1>1, <1>3, <1>7, EvaluatedTickWears, WaitSoFar

LEMMA WearIsKept ==
  ASSUME SharedCount, WornOut, [Next]_vars
  PROVE  WornOut'
<1>1. CASE StartOver
  BY <1>1, WaitStarts DEF StartOver
<1>2. CASE UNCHANGED ruleVars
  BY <1>2 DEF WornOut, ruleVars
<1>3. ASSUME NEW p \in Phases, NEW asking \in SUBSET Rules,
             RuleTick(p, asking)
      PROVE  WornOut'
  <2>1. CASE HeldTick(p, asking)
    BY <2>1, HeldTickWears
  <2>2. CASE UnheldTick(p, asking)
    <3>1. asking \ ExpiredSoFar(asking) = {}
      BY <2>2 DEF UnheldTick, Holdable
    <3> QED
      BY <2>2, <3>1, WaitSoFar, EvaluatedTickWears DEF UnheldTick
  <2>3. CASE TouchedTick(p, asking)
    <3>1. Cardinality(ExpiredSoFar(asking)) * LongestHold \in Nat
      BY WaitSoFar, RulesAreFinite, RuleConstants
    <3> QED
      BY <2>3, <3>1, WaitSoFar, EvaluatedTickWears DEF TouchedTick
  <2>4. CASE HoldExpires(p, asking)
    BY <2>4, ExpiringHoldWears
  <2> QED
    BY <1>3, <2>1, <2>2, <2>3, <2>4 DEF RuleTick
<1> QED
  BY <1>1, <1>2, <1>3 DEF Next, EngineTick, Restart, vars

\* What a phase was held for is paid by the rules that expired and the one
\* that holds.
THEOREM HoldsWear == Spec => []WornOut
<1>1. Init => WornOut
  <2>1. Cardinality({}) = 0
    BY FS_EmptySet
  <2> QED
    BY <2>1, RuleConstants DEF Init, WornOut
<1>2. SharedCount /\ WornOut /\ [Next]_vars => WornOut'
  BY WearIsKept
<1> QED
  BY <1>1, <1>2, CountIsShared, PTL DEF Spec

\* However the rules take turns on the count they share, rules that go on
\* asking hold a phase for no more than the longest hold for each of them.
THEOREM AskingRulesWearOut == Spec => []RulesWearOut
<1>1. SharedCount /\ WornOut => RulesWearOut
  <2> SUFFICES ASSUME SharedCount, WornOut PROVE RulesWearOut
    OBVIOUS
  <2> DEFINE worn == Cardinality(expiredRuleHolds)
             all == Cardinality(Rules)
  <2>1. /\ worn \in Nat /\ worn <= all
        /\ expiredRuleHolds # Rules => worn + 1 <= all
    BY RulesAreFinite DEF WornOut
  <2>2. all \in Nat
    BY RulesAreFinite
  <2>3. CASE expiredRuleHolds = Rules
    <3>1. ruleHoldTicks = 0
      <4>1. asked \ expiredRuleHolds = {}
        BY <2>3 DEF WornOut
      <4>2. ~(ruleHoldTicks > 0)
        BY <4>1 DEF WornOut
      <4> QED
        BY <4>2, RuleConstants DEF SharedCount
    <3>2. all * LongestHold \in Nat
      BY <2>2, RuleConstants
    <3> QED
      BY <2>3, <3>1, <3>2 DEF WornOut, RulesWearOut
  <2>4. CASE expiredRuleHolds # Rules
    <3>1. (worn + 1) * LongestHold <= all * LongestHold
      BY <2>1, <2>2, <2>4, RuleConstants
    <3>2. (worn + 1) * LongestHold = worn * LongestHold + LongestHold
      BY <2>1, RuleConstants
    <3>3. heldInAll <= worn * LongestHold + LongestHold
      <4>1. worn * LongestHold \in Nat
        BY <2>1, RuleConstants
      <4> QED
        BY <4>1, RuleConstants DEF WornOut, SharedCount
    <3>4. all * LongestHold \in Nat /\ worn * LongestHold \in Nat
      BY <2>1, <2>2, RuleConstants
    <3>5. heldInAll \in Nat
      BY DEF WornOut
    <3>6. heldInAll <= all * LongestHold
      <4> HIDE DEF worn, all
      <4> QED
        BY <3>1, <3>2, <3>3, <3>4, <3>5, RuleConstants
    <3> QED
      BY <3>6 DEF RulesWearOut
  <2> QED
    BY <2>3, <2>4
<1> QED
  BY <1>1, HoldsWear, CountIsShared, PTL
-----------------------------------------------------------------------------
(***************************************************************************)
(* Every step of the rules is a step of the machine: a hold is a tick that *)
(* stays, and what is evaluated is evaluated as without rules.             *)
(***************************************************************************)
LEMMA RuleStepsAreMachineSteps ==
  ASSUME [Next]_vars
  PROVE  [MachineNext]_machineVars
<1>1. CASE EngineTick
  BY <1>1 DEF EngineTick, MachineNext, Tick
<1>2. ASSUME NEW p \in Phases, NEW asking \in SUBSET Rules,
             RuleTick(p, asking)
      PROVE  MachineNext
  <2>1. OpenTick(p)
    BY <1>2 DEF RuleTick, HeldTick, KeepThePhase, UnheldTick, TouchedTick,
       HoldExpires, EvaluatedTick, OpenTick
  <2> QED
    BY <2>1 DEF MachineNext, Tick
<1>3. CASE Restart
  BY <1>3 DEF Restart, MachineNext
<1>4. CASE (\E p \in Phases : AcceptPilotTouch(p)) \/ TakeOffOrLand
  BY <1>4 DEF MachineNext
<1>5. CASE UNCHANGED vars
  BY <1>5 DEF vars
<1> QED
  BY <1>1, <1>2, <1>3, <1>4, <1>5 DEF Next

\* The machine with its rules implements the machine without them: rules can
\* delay what the turnaround does and not change it.
THEOREM RulesImplementTheMachine == Spec => MachineSpec
<1>1. Init => MachineInit
  BY DEF Init
<1>2. [Next]_vars => [MachineNext]_machineVars
  BY RuleStepsAreMachineSteps
<1> QED
  BY <1>1, <1>2, PTL DEF Spec, MachineSpec
\* Neither one hold nor the holds of all rules keep a phase for ever.
THEOREM HeldPhasesGoOn == Spec => []RulesLetGo
BY NoPhaseIsHeldForEver, AskingRulesWearOut, PTL DEF RulesLetGo
-----------------------------------------------------------------------------
(***************************************************************************)
(* The types: what the rules remember of a touch are rules that ask.       *)
(***************************************************************************)
TouchedRules == touchedWhileAsking \subseteq Rules

LEMMA TouchedRulesAreRules ==
  ASSUME TouchedRules, [Next]_vars
  PROVE  TouchedRules'
<1>1. ASSUME NEW p \in Phases, NEW asking \in SUBSET Rules,
             RuleTick(p, asking)
      PROVE  touchedWhileAsking' \subseteq asking
  <2>1. TouchedSoFar(asking) \subseteq asking
    BY DEF TouchedSoFar
  <2>2. ASSUME NEW expired, NEW total, NEW touched \in SUBSET asking,
               EvaluatedTick(p, asking, expired, total, touched)
        PROVE  touchedWhileAsking' \subseteq asking
    BY <2>2 DEF EvaluatedTick, StartOver
  <2> QED
    BY <1>1, <2>1, <2>2
       DEF RuleTick, HeldTick, UnheldTick, TouchedTick, HoldExpires
<1>2. CASE StartOver \/ UNCHANGED ruleVars
  BY <1>2 DEF StartOver, ruleVars, TouchedRules
<1> QED
  BY <1>1, <1>2 DEF Next, EngineTick, Restart, vars, TouchedRules

\* The rules and what they remember keep their types: the count they share is
\* never beyond the longest hold, and only rules that asked have expired.
THEOREM RuleTypesHold == Spec => []TypeOK
<1>1. Init => TouchedRules
  BY DEF Init, TouchedRules
<1>2. TouchedRules /\ [Next]_vars => TouchedRules'
  BY TouchedRulesAreRules
<1>3. Spec => []TouchedRules
  BY <1>1, <1>2, PTL DEF Spec
<1>4. MachineInv /\ SharedCount /\ WornOut /\ TouchedRules => TypeOK
  BY RuleConstants DEF MachineInv, SharedCount, WornOut, TouchedRules, TypeOK
<1> QED
  BY <1>3, <1>4, RulesImplementTheMachine, InvariantHolds, CountIsShared,
     HoldsWear, PTL

-----------------------------------------------------------------------------
(***************************************************************************)
(* The main deck of the FSS 727.                                           *)
(* The switch stands where the travel, or the guarded cut of one, needs    *)
(* it; so a master that is turned on or left on moves no deck where        *)
(* nobody sent it, and no travel closes the deck on its loader.            *)
(***************************************************************************)
DeckTravels == {MainDeck!None, "opening", "closing"}
DeckRules ==
  [travel : DeckTravels, cut : DeckTravels, rest : MainDeck!Rest, unmoved : 0 .. StartTicks - 1,
   guard : 0 .. GuardTicks, mayResume : BOOLEAN, check : BOOLEAN, waited : 0 .. GiveUpTicks - 1,
   unserved : BOOLEAN, loaderLeft : BOOLEAN, atWork : BOOLEAN, awaited : BOOLEAN,
   mayHaveEnded : BOOLEAN, seen : BOOLEAN]
MainDecks ==
  [at : 0 .. WideOpen, switch : {0, WideOpen}, master : BOOLEAN, received : SUBSET {"deck", "gsx"},
   rest : MainDeck!Rest, up : BOOLEAN, frozen : BOOLEAN, hit : BOOLEAN, faults : Nat]
DeckPanels == [rule : DeckRules, master : BOOLEAN, switch : {0, WideOpen}]
MainDeckConstants ==
  /\ WideOpen \in Nat \ {0} /\ StartTicks \in Nat \ {0} /\ GiveUpTicks \in Nat \ {0}
  /\ RestTicks \in Nat /\ GuardTicks \in Nat /\ MaxFaults \in Nat

\* The switch stands at the end the rule travels to, or guards the cut at; a
\* check of a master left on is made before any travel that could be resumed.
TravelIsSwitched(r, switch) ==
  /\ r.travel # MainDeck!None => r.guard = 0 /\ switch = MainDeck!Ends[r.travel]
  /\ r.guard # 0 => r.cut # MainDeck!None /\ switch = MainDeck!Ends[r.cut]
  /\ r.check => ~r.mayResume
PanelIsSound(p) == p \in DeckPanels /\ TravelIsSwitched(p.rule, p.switch)
MainDeckInv ==
  /\ rule \in DeckRules /\ deck \in MainDecks /\ TravelIsSwitched(rule, deck.switch)
  /\ ~deck.up => rule.travel = MainDeck!None /\ ~rule.mayResume
  /\ ~deck.hit

\* The ranges of the counters, and the ends of a travel.
LEMMA MainDeckRanges ==
  ASSUME MainDeckConstants
  PROVE  /\ 0 \in 0 .. StartTicks - 1 /\ 0 \in 0 .. GuardTicks /\ GuardTicks \in 0 .. GuardTicks
         /\ 0 \in 0 .. GiveUpTicks - 1 /\ 0 \in 0 .. RestTicks /\ 0 \in 0 .. WideOpen /\ 1 \in 0 .. WideOpen
         /\ WideOpen \in 0 .. WideOpen
         /\ MainDeck!Ends["opening"] = WideOpen /\ MainDeck!Ends["closing"] = 0
  BY DEF MainDeckConstants, MainDeck!Ends

\* What the rule and the deck remember of where the deck stood.
LEMMA RestsAreTyped ==
  ASSUME MainDeckConstants, deck \in MainDecks
  PROVE  /\ MainDeck!RestAt(deck.at) \in MainDeck!Rest /\ MainDeck!RestAt(MainDeck!Unseen) \in MainDeck!Rest
         /\ \A rest \in MainDeck!Rest : MainDeck!Followed(rest) \in MainDeck!Rest
<1>1. deck.at \in 0 .. WideOpen /\ 0 \in 0 .. RestTicks
  BY MainDeckRanges DEF MainDecks
<1>2. MainDeck!RestAt(deck.at) \in MainDeck!Rest /\ MainDeck!RestAt(MainDeck!Unseen) \in MainDeck!Rest
  BY <1>1 DEF MainDeck!RestAt, MainDeck!Rest
<1>3. ASSUME NEW rest \in MainDeck!Rest PROVE MainDeck!Followed(rest) \in MainDeck!Rest
  <2> DEFINE n == IF rest.still < RestTicks THEN rest.still + 1 ELSE rest.still
             moved == rest.moved \/ rest.last # MainDeck!Unseen
  <2>1. n \in 0 .. RestTicks
    BY DEF MainDeck!Rest, MainDeckConstants
  <2>2. moved \in BOOLEAN
    BY DEF MainDeck!Rest
  <2>3. MainDeck!Followed(rest) = [rest EXCEPT !.still = n]
        \/ MainDeck!Followed(rest) = [moved |-> moved, last |-> deck.at, still |-> 0]
    BY DEF MainDeck!Followed
  <2> HIDE DEF n, moved
  <2> QED
    BY <1>1, <2>1, <2>2, <2>3 DEF MainDeck!Rest
<1> QED
  BY <1>2, <1>3

\* A travel begins with the master on and the switch at its end.
LEMMA TravelStarts ==
  ASSUME MainDeckConstants, deck \in MainDecks, NEW p, PanelIsSound(p),
         NEW travel \in {"opening", "closing"}
  PROVE  PanelIsSound(MainDeck!StartTravel(p, travel)) /\ MainDeck!StartTravel(p, travel).rule.travel = travel
<1> DEFINE rest == MainDeck!RestAt(deck.at)
           r == [p.rule EXCEPT !.travel = travel, !.check = FALSE, !.guard = 0,
                               !.mayResume = TRUE, !.unmoved = 0, !.rest = rest]
           end == MainDeck!Ends[travel]
<1>1. p.rule \in DeckRules /\ rest \in MainDeck!Rest /\ end \in {0, WideOpen}
  BY RestsAreTyped, MainDeckRanges DEF PanelIsSound, DeckPanels
<1>2. MainDeck!StartTravel(p, travel) = [rule |-> r, master |-> TRUE, switch |-> end]
  BY DEF MainDeck!StartTravel
<1> HIDE DEF rest, end
<1>3. r \in DeckRules /\ r.travel = travel /\ r.check = FALSE /\ r.guard = 0
  BY <1>1, MainDeckRanges DEF DeckRules, DeckTravels
<1> HIDE DEF r
<1>4. MainDeck!StartTravel(p, travel) \in DeckPanels
  BY <1>1, <1>2, <1>3 DEF DeckPanels
<1> QED
  BY <1>2, <1>3, <1>4 DEF PanelIsSound, TravelIsSwitched, end

\* The cut is guarded once for a travel: the switch is where it left it.
LEMMA MasterIsTurnedOff ==
  ASSUME MainDeckConstants, NEW p, PanelIsSound(p), p.rule.travel = MainDeck!None,
         p.rule.mayResume => p.rule.cut # MainDeck!None /\ p.switch = MainDeck!Ends[p.rule.cut]
  PROVE  PanelIsSound(MainDeck!TurnTheMasterOff(p)) /\ MainDeck!TurnTheMasterOff(p).rule.travel = MainDeck!None
<1> DEFINE n == IF p.rule.mayResume THEN GuardTicks ELSE 0
           r == [p.rule EXCEPT !.guard = n]
           q == MainDeck!TurnTheMasterOff(p)
<1>1. p \in DeckPanels /\ p.rule \in DeckRules /\ TravelIsSwitched(p.rule, p.switch)
  BY DEF PanelIsSound, DeckPanels
<1>2. n \in 0 .. GuardTicks /\ (~p.rule.mayResume => n = 0)
  BY MainDeckRanges
<1>3. q = [p EXCEPT !.master = FALSE, !.rule = [p.rule EXCEPT !.guard = n]]
  BY <1>1 DEF MainDeck!TurnTheMasterOff, DeckPanels
<1> HIDE DEF n, q
<1>4. r \in DeckRules /\ r.guard = n /\ r.cut = p.rule.cut /\ r.travel = MainDeck!None
      /\ r.check = p.rule.check /\ r.mayResume = p.rule.mayResume
  BY <1>1, <1>2 DEF DeckRules
<1>5. q = [p EXCEPT !.master = FALSE, !.rule = r]
  BY <1>3
<1> HIDE DEF r
<1>6. q \in DeckPanels /\ q.rule = r /\ q.switch = p.switch
  BY <1>1, <1>4, <1>5 DEF DeckPanels
<1> QED
  BY <1>1, <1>2, <1>4, <1>6 DEF PanelIsSound, TravelIsSwitched, q

\* A panel with another rule of the same travel, cut, guard and check.
LEMMA RuleIsReplaced ==
  ASSUME NEW p, PanelIsSound(p), NEW r \in DeckRules,
         r.travel = p.rule.travel, r.cut = p.rule.cut, r.guard = p.rule.guard,
         r.check => p.rule.check, r.mayResume = p.rule.mayResume
  PROVE  /\ PanelIsSound([p EXCEPT !.rule = r])
         /\ [p EXCEPT !.rule = r].rule = r /\ [p EXCEPT !.rule = r].switch = p.switch
<1>1. [p EXCEPT !.rule = r] \in DeckPanels /\ [p EXCEPT !.rule = r].rule = r
      /\ [p EXCEPT !.rule = r].switch = p.switch
  BY DEF PanelIsSound, DeckPanels
<1> QED
  BY <1>1 DEF PanelIsSound, TravelIsSwitched

\* The guard of a cut ends, or turns the master off again.
LEMMA CutIsGuarded ==
  ASSUME MainDeckConstants, deck \in MainDecks, NEW p, PanelIsSound(p)
  PROVE  LET q == MainDeck!GuardTheMasterCut(p) IN
         /\ PanelIsSound(q) /\ q.rule.waited = p.rule.waited
         /\ q.rule.travel = p.rule.travel \/ ~MainDeck!AtAnEnd
<1> DEFINE rest == MainDeck!RestAt(deck.at)
           n == p.rule.guard - 1
           waits == [p.rule EXCEPT !.guard = n]
           resumes == [p.rule EXCEPT !.guard = 0, !.mayResume = FALSE,
                                     !.travel = p.rule.cut, !.unmoved = 0, !.rest = rest]
           q == MainDeck!GuardTheMasterCut(p)
<1>1. p \in DeckPanels /\ p.rule \in DeckRules /\ TravelIsSwitched(p.rule, p.switch) /\ rest \in MainDeck!Rest
  BY RestsAreTyped DEF PanelIsSound, DeckPanels
<1>2. p.rule.cut \in DeckTravels /\ p.rule.guard \in 0 .. GuardTicks
      /\ (p.rule.guard # 0 => n \in 0 .. GuardTicks)
  BY <1>1 DEF DeckRules, MainDeckConstants
<1>3. \/ q = p
      \/ p.rule.guard # 0 /\ q = [p EXCEPT !.rule = [p.rule EXCEPT !.guard = n]]
      \/ /\ p.rule.guard # 0 /\ ~MainDeck!AtAnEnd
         /\ q = [p EXCEPT !.master = TRUE, !.rule =
                   [p.rule EXCEPT !.guard = 0, !.mayResume = FALSE,
                                  !.travel = p.rule.cut, !.unmoved = 0, !.rest = rest]]
  BY <1>1 DEF MainDeck!GuardTheMasterCut, DeckPanels
<1> HIDE DEF rest, n, q
<1>4. CASE q = p
  BY <1>4 DEF q
<1>5. CASE p.rule.guard # 0 /\ q = [p EXCEPT !.rule = [p.rule EXCEPT !.guard = n]]
  <2>1. /\ waits \in DeckRules /\ waits.guard = n /\ waits.travel = p.rule.travel
        /\ waits.cut = p.rule.cut /\ waits.check = p.rule.check /\ waits.waited = p.rule.waited
        /\ waits.mayResume = p.rule.mayResume
    BY <1>1, <1>2, <1>5 DEF DeckRules
  <2>2. q = [p EXCEPT !.rule = waits]
    BY <1>5
  <2> HIDE DEF waits
  <2>3. q \in DeckPanels /\ q.rule = waits /\ q.switch = p.switch
    BY <1>1, <2>1, <2>2 DEF DeckPanels
  <2> QED
    BY <1>1, <1>5, <2>1, <2>3 DEF PanelIsSound, TravelIsSwitched, q
<1>6. CASE /\ p.rule.guard # 0 /\ ~MainDeck!AtAnEnd
           /\ q = [p EXCEPT !.master = TRUE, !.rule =
                   [p.rule EXCEPT !.guard = 0, !.mayResume = FALSE,
                                  !.travel = p.rule.cut, !.unmoved = 0, !.rest = rest]]
  <2>1. /\ resumes \in DeckRules /\ resumes.guard = 0 /\ resumes.travel = p.rule.cut
        /\ ~resumes.mayResume /\ resumes.waited = p.rule.waited
    BY <1>1, <1>2, MainDeckRanges DEF DeckRules
  <2>2. q = [p EXCEPT !.master = TRUE, !.rule = resumes]
    BY <1>6
  <2> HIDE DEF resumes
  <2>3. q \in DeckPanels /\ q.rule = resumes /\ q.switch = p.switch
    BY <1>1, <2>1, <2>2 DEF DeckPanels
  <2> QED
    BY <1>1, <1>6, <2>1, <2>3 DEF PanelIsSound, TravelIsSwitched, q
<1> QED
  BY <1>3, <1>4, <1>5, <1>6

\* A request to close is kept, and begins no travel.
LEMMA RequestsAreKept ==
  ASSUME NEW p, PanelIsSound(p)
  PROVE  LET q == MainDeck!CloseOnceTheLoaderLeft(MainDeck!CloseOnceDeboarded(p)) IN
         /\ PanelIsSound(q) /\ q.rule.waited = p.rule.waited /\ q.rule.travel = p.rule.travel
<1> DEFINE awaits == p.rule.awaited /\ ~MainDeck!Sees("gsx")
           works == gsx.service \in {"deboarding", "completing"}
           asks == p.rule.unserved \/ (MainDeck!DeboardingCompleted(p.rule) /\ deck.at # 0)
           r1 == [p.rule EXCEPT !.awaited = awaits]
           r2 == [p.rule EXCEPT !.awaited = FALSE, !.mayHaveEnded = FALSE, !.atWork = works,
                                !.unserved = asks]
           q == MainDeck!CloseOnceDeboarded(p)
<1>1. p \in DeckPanels /\ p.rule \in DeckRules
  BY DEF PanelIsSound, DeckPanels
<1>2. awaits \in BOOLEAN /\ works \in BOOLEAN /\ asks \in BOOLEAN
  BY <1>1 DEF DeckRules
<1>3. q = [p EXCEPT !.rule = [p.rule EXCEPT !.awaited = awaits]]
      \/ q = [p EXCEPT !.rule = [p.rule EXCEPT !.awaited = FALSE, !.mayHaveEnded = FALSE,
                                               !.atWork = works, !.unserved = asks]]
  BY <1>1 DEF MainDeck!CloseOnceDeboarded, DeckPanels
<1> HIDE DEF awaits, works, asks, q
<1>4. /\ r1 \in DeckRules /\ r1.travel = p.rule.travel /\ r1.cut = p.rule.cut
      /\ r1.guard = p.rule.guard /\ r1.check = p.rule.check /\ r1.mayResume = p.rule.mayResume
      /\ r1.waited = p.rule.waited
  BY <1>1, <1>2 DEF DeckRules
<1>5. /\ r2 \in DeckRules /\ r2.travel = p.rule.travel /\ r2.cut = p.rule.cut
      /\ r2.guard = p.rule.guard /\ r2.check = p.rule.check /\ r2.mayResume = p.rule.mayResume
      /\ r2.waited = p.rule.waited
  BY <1>1, <1>2 DEF DeckRules
<1>6. q = [p EXCEPT !.rule = r1] \/ q = [p EXCEPT !.rule = r2]
  BY <1>3
<1> HIDE DEF r1, r2
<1>7. PanelIsSound(q) /\ q.rule.waited = p.rule.waited /\ q.rule.travel = p.rule.travel
  <2>1. CASE q = [p EXCEPT !.rule = r1]
    BY <1>4, <2>1, RuleIsReplaced
  <2>2. CASE q = [p EXCEPT !.rule = r2]
    BY <1>5, <2>2, RuleIsReplaced
  <2> QED BY <1>6, <2>1, <2>2
<1> DEFINE left == q.rule.loaderLeft \/ deck.at # 0
           r3 == [q.rule EXCEPT !.seen = TRUE]
           r4 == [q.rule EXCEPT !.seen = FALSE, !.loaderLeft = left]
           t == MainDeck!CloseOnceTheLoaderLeft(q)
<1>8. q \in DeckPanels /\ q.rule \in DeckRules
  BY <1>7 DEF PanelIsSound, DeckPanels
<1>9. left \in BOOLEAN
  BY <1>8 DEF DeckRules
<1>10. t = q \/ t = [q EXCEPT !.rule = [q.rule EXCEPT !.seen = TRUE]]
       \/ t = [q EXCEPT !.rule = [q.rule EXCEPT !.seen = FALSE, !.loaderLeft = left]]
  BY <1>8 DEF MainDeck!CloseOnceTheLoaderLeft, DeckPanels
<1> HIDE DEF left, t
<1>11. /\ r3 \in DeckRules /\ r3.travel = q.rule.travel /\ r3.cut = q.rule.cut
       /\ r3.guard = q.rule.guard /\ r3.check = q.rule.check /\ r3.mayResume = q.rule.mayResume
       /\ r3.waited = q.rule.waited
  BY <1>8 DEF DeckRules
<1>12. /\ r4 \in DeckRules /\ r4.travel = q.rule.travel /\ r4.cut = q.rule.cut
       /\ r4.guard = q.rule.guard /\ r4.check = q.rule.check /\ r4.mayResume = q.rule.mayResume
       /\ r4.waited = q.rule.waited
  BY <1>8, <1>9 DEF DeckRules
<1>13. t = q \/ t = [q EXCEPT !.rule = r3] \/ t = [q EXCEPT !.rule = r4]
  BY <1>10
<1> HIDE DEF r3, r4
<1>14. PanelIsSound(t) /\ t.rule.waited = p.rule.waited /\ t.rule.travel = p.rule.travel
  <2>1. CASE t = q
    BY <1>7, <2>1
  <2>2. CASE t = [q EXCEPT !.rule = r3]
    BY <1>7, <1>11, <2>2, RuleIsReplaced
  <2>3. CASE t = [q EXCEPT !.rule = r4]
    BY <1>7, <1>12, <2>3, RuleIsReplaced
  <2> QED BY <1>13, <2>1, <2>2, <2>3
<1> QED
  BY <1>14 DEF t, q

\* What a travel's end leaves: no travel, and the guard that was there, none.
LEMMA TravelIsEnded ==
  ASSUME MainDeckConstants, deck \in MainDecks, NEW p, PanelIsSound(p), p.rule.travel # MainDeck!None
  PROVE  /\ PanelIsSound(MainDeck!EndTravel(p)) /\ MainDeck!EndTravel(p).rule.travel = MainDeck!None
         /\ PanelIsSound(MainDeck!Cut(p)) /\ MainDeck!Cut(p).rule.travel = MainDeck!None
         /\ MainDeck!Cut(p).rule.cut # MainDeck!None /\ MainDeck!Cut(p).switch = MainDeck!Ends[MainDeck!Cut(p).rule.cut]
<1> DEFINE rest == MainDeck!RestAt(MainDeck!Unseen)
           r1 == [p.rule EXCEPT !.travel = MainDeck!None, !.rest = rest, !.unmoved = 0]
           r2 == [r1 EXCEPT !.unserved = FALSE, !.loaderLeft = FALSE]
           q == MainDeck!EndTravel(p)
           c == MainDeck!Cut(p)
<1>1. p \in DeckPanels /\ p.rule \in DeckRules /\ rest \in MainDeck!Rest /\ p.rule.guard = 0
      /\ p.switch = MainDeck!Ends[p.rule.travel] /\ p.rule.travel \in DeckTravels
      /\ (p.rule.check => ~p.rule.mayResume)
  BY RestsAreTyped DEF PanelIsSound, DeckPanels, TravelIsSwitched, DeckRules
<1>2. MainDeck!Ended(p.rule) = r1 /\ MainDeck!Served(r1) = r2
  BY DEF MainDeck!Ended, MainDeck!Served
<1>3. q = [p EXCEPT !.rule = MainDeck!Served(MainDeck!Ended(p.rule))] \/ q = [p EXCEPT !.rule = MainDeck!Ended(p.rule)]
  BY <1>1 DEF MainDeck!EndTravel, DeckPanels
<1>4. q = [p EXCEPT !.rule = r2] \/ q = [p EXCEPT !.rule = r1]
  BY <1>2, <1>3
<1> HIDE DEF rest, q
<1>5. /\ r1 \in DeckRules /\ r1.travel = MainDeck!None /\ r1.guard = 0
      /\ r1.check = p.rule.check /\ r1.mayResume = p.rule.mayResume
  BY <1>1, MainDeckRanges DEF DeckRules, DeckTravels
<1> HIDE DEF r1
<1>6. /\ r2 \in DeckRules /\ r2.travel = MainDeck!None /\ r2.guard = 0
      /\ r2.check = p.rule.check /\ r2.mayResume = p.rule.mayResume
  BY <1>5 DEF DeckRules
<1> HIDE DEF r2
<1>7. /\ q \in DeckPanels /\ q.rule \in DeckRules /\ q.rule.travel = MainDeck!None /\ q.rule.guard = 0
      /\ q.rule.check = p.rule.check /\ q.rule.mayResume = p.rule.mayResume /\ q.switch = p.switch
  BY <1>1, <1>4, <1>5, <1>6 DEF DeckPanels
<1>8. PanelIsSound(q)
  BY <1>1, <1>7 DEF PanelIsSound, TravelIsSwitched
<1> DEFINE r3 == [q.rule EXCEPT !.cut = p.rule.travel]
<1>9. c = [q EXCEPT !.rule = [q.rule EXCEPT !.cut = p.rule.travel]]
  BY <1>7 DEF MainDeck!Cut, q, DeckPanels
<1>10. /\ r3 \in DeckRules /\ r3.travel = MainDeck!None /\ r3.guard = 0 /\ r3.cut = p.rule.travel
       /\ r3.check = p.rule.check /\ r3.mayResume = p.rule.mayResume
  BY <1>1, <1>7 DEF DeckRules
<1>11. c = [q EXCEPT !.rule = r3]
  BY <1>9
<1> HIDE DEF r3, c
<1>12. c \in DeckPanels /\ c.rule = r3 /\ c.switch = p.switch
  BY <1>7, <1>10, <1>11 DEF DeckPanels
<1>13. PanelIsSound(c)
  BY <1>1, <1>10, <1>12 DEF PanelIsSound, TravelIsSwitched
<1> QED
  BY <1>1, <1>7, <1>8, <1>10, <1>12, <1>13 DEF q, c

\* A travel ends, is cut, or goes on.
LEMMA TravelIsFinished ==
  ASSUME MainDeckConstants, deck \in MainDecks, NEW p, PanelIsSound(p), p.rule.travel # MainDeck!None
  PROVE  PanelIsSound(MainDeck!FinishTravel(p))
<1> DEFINE rest == MainDeck!Followed(p.rule.rest)
           n == IF rest.moved THEN p.rule.unmoved ELSE p.rule.unmoved + 1
           r == [p.rule EXCEPT !.rest = rest, !.unmoved = n]
           q == [p EXCEPT !.rule.rest = MainDeck!Followed(p.rule.rest),
                          !.rule.unmoved = IF MainDeck!Followed(p.rule.rest).moved THEN p.rule.unmoved
                                           ELSE p.rule.unmoved + 1]
           r0 == [p.rule EXCEPT !.rest = rest, !.unmoved = 0]
           q0 == [p EXCEPT !.rule = r0]
<1>1. p \in DeckPanels /\ p.rule \in DeckRules
  BY DEF PanelIsSound, DeckPanels
<1>2. p.rule.rest \in MainDeck!Rest /\ p.rule.unmoved \in 0 .. StartTicks - 1
  BY <1>1 DEF DeckRules
<1>3. rest \in MainDeck!Rest
  BY <1>2, RestsAreTyped
<1>4. q = [p EXCEPT !.rule = r]
  BY <1>1 DEF DeckPanels
<1>5. \/ MainDeck!FinishTravel(p) = p
      \/ ~q.rule.rest.moved /\ q.rule.unmoved >= StartTicks /\ MainDeck!FinishTravel(p) = MainDeck!EndTravel(q)
      \/ /\ q.rule.rest.moved \/ ~(q.rule.unmoved >= StartTicks)
         /\ MainDeck!FinishTravel(p) = q \/ MainDeck!FinishTravel(p) = MainDeck!Cut(q) \/ MainDeck!FinishTravel(p) = MainDeck!TurnTheMasterOff(MainDeck!Cut(q))
  BY DEF MainDeck!FinishTravel
<1> HIDE DEF rest, n, q
<1>6. q.rule = r /\ q.switch = p.switch
  BY <1>1, <1>4 DEF DeckPanels
<1>7. /\ r.travel = p.rule.travel /\ r.cut = p.rule.cut /\ r.guard = p.rule.guard
      /\ r.check = p.rule.check /\ r.mayResume = p.rule.mayResume /\ r.rest = rest /\ r.unmoved = n
  BY <1>1 DEF DeckRules
<1>8. CASE ~q.rule.rest.moved /\ q.rule.unmoved >= StartTicks /\ MainDeck!FinishTravel(p) = MainDeck!EndTravel(q)
  <2>1. /\ r0 \in DeckRules /\ r0.travel = p.rule.travel /\ r0.cut = p.rule.cut
        /\ r0.guard = p.rule.guard /\ r0.check = p.rule.check /\ r0.mayResume = p.rule.mayResume
    BY <1>1, <1>3, MainDeckRanges DEF DeckRules
  <2>2. PanelIsSound(q0) /\ q0.rule = r0
    <3> HIDE DEF r0
    <3> QED BY <2>1, RuleIsReplaced
  <2>3. PanelIsSound(MainDeck!EndTravel(q0))
    BY <2>1, <2>2, TravelIsEnded
  <2>4. MainDeck!EndTravel(q) = MainDeck!EndTravel(q0)
    <3>1. MainDeck!Ended(r) = MainDeck!Ended(r0) /\ r.travel = r0.travel
      BY <1>1, <1>7, <2>1 DEF MainDeck!Ended, DeckRules
    <3>2. ASSUME NEW x PROVE [q EXCEPT !.rule = x] = [q0 EXCEPT !.rule = x]
      BY <1>1, <1>4 DEF DeckPanels
    <3> HIDE DEF r, r0, q0
    <3>3. /\ MainDeck!EndTravel(q) = IF r.travel = "closing" THEN [q EXCEPT !.rule = MainDeck!Served(MainDeck!Ended(r))]
                                     ELSE [q EXCEPT !.rule = MainDeck!Ended(r)]
          /\ MainDeck!EndTravel(q0) = IF r0.travel = "closing" THEN [q0 EXCEPT !.rule = MainDeck!Served(MainDeck!Ended(r0))]
                                      ELSE [q0 EXCEPT !.rule = MainDeck!Ended(r0)]
      BY <1>6, <2>2 DEF MainDeck!EndTravel
    <3> QED
      BY <3>1, <3>2, <3>3
  <2> QED
    BY <1>8, <2>3, <2>4
<1>9. CASE /\ q.rule.rest.moved \/ ~(q.rule.unmoved >= StartTicks)
           /\ MainDeck!FinishTravel(p) = q \/ MainDeck!FinishTravel(p) = MainDeck!Cut(q) \/ MainDeck!FinishTravel(p) = MainDeck!TurnTheMasterOff(MainDeck!Cut(q))
  <2>1. n \in 0 .. StartTicks - 1
    <3>1. rest.moved \/ ~(n >= StartTicks)
      BY <1>6, <1>7, <1>9
    <3> QED
      BY <1>2, <3>1 DEF MainDeckConstants, n
  <2>2. r \in DeckRules
    BY <1>1, <1>3, <2>1 DEF DeckRules
  <2>3. PanelIsSound(q)
    BY <1>4, <1>7, <2>2, RuleIsReplaced
  <2> HIDE DEF r
  <2>4. /\ PanelIsSound(MainDeck!Cut(q)) /\ MainDeck!Cut(q).rule.travel = MainDeck!None
        /\ MainDeck!Cut(q).rule.cut # MainDeck!None /\ MainDeck!Cut(q).switch = MainDeck!Ends[MainDeck!Cut(q).rule.cut]
    BY <1>6, <1>7, <2>3, TravelIsEnded
  <2>5. PanelIsSound(MainDeck!TurnTheMasterOff(MainDeck!Cut(q)))
    BY <2>4, MasterIsTurnedOff
  <2> QED
    BY <1>9, <2>3, <2>4, <2>5
<1> QED
  BY <1>5, <1>8, <1>9

\* A close that waits is served when its loader has left, or has not in GiveUpTicks.
LEMMA PendingCloseIsServed ==
  ASSUME MainDeckConstants, deck \in MainDecks, NEW p, PanelIsSound(p), p.rule.travel = MainDeck!None
  PROVE  LET q == MainDeck!ServeThePendingClose(p) IN
         /\ PanelIsSound(q)
         /\ q.rule.travel = "closing" => MainDeck!HasTheMainLoaderLeft \/ ~(p.rule.waited + 1 < GiveUpTicks)
<1> DEFINE n == p.rule.waited + 1
           r1 == [p.rule EXCEPT !.waited = n]
           r2 == [p.rule EXCEPT !.waited = 0]
           r3 == [r2 EXCEPT !.unserved = FALSE, !.loaderLeft = FALSE]
           q2 == [p EXCEPT !.rule = r2]
           t == MainDeck!ServeThePendingClose(p)
<1>1. p \in DeckPanels /\ p.rule \in DeckRules /\ p.rule.waited \in 0 .. GiveUpTicks - 1
  BY DEF PanelIsSound, DeckPanels, DeckRules
<1>2. n < GiveUpTicks => n \in 0 .. GiveUpTicks - 1
  BY <1>1 DEF MainDeckConstants
<1>3. [p EXCEPT !.rule.waited = 0] = q2
  BY <1>1 DEF DeckPanels
<1>4. /\ r2 \in DeckRules /\ r2.travel = p.rule.travel /\ r2.cut = p.rule.cut
      /\ r2.guard = p.rule.guard /\ r2.check = p.rule.check /\ r2.mayResume = p.rule.mayResume
  BY <1>1, MainDeckRanges DEF DeckRules
<1>5. PanelIsSound(q2) /\ q2.rule = r2
  <2> HIDE DEF r2
  <2> QED BY <1>4, RuleIsReplaced
<1>6. /\ r3 \in DeckRules /\ r3.travel = r2.travel /\ r3.cut = r2.cut
      /\ r3.guard = r2.guard /\ r3.check = r2.check /\ r3.mayResume = r2.mayResume
  <2> HIDE DEF r2
  <2> QED BY <1>4 DEF DeckRules
<1>7. \/ ~MainDeck!HasTheMainLoaderLeft /\ n < GiveUpTicks /\ t = [p EXCEPT !.rule = [p.rule EXCEPT !.waited = n]]
      \/ /\ MainDeck!HasTheMainLoaderLeft \/ ~(n < GiveUpTicks)
         /\ t = [q2 EXCEPT !.rule = MainDeck!Served(q2.rule)] \/ t = MainDeck!StartTravel(q2, "closing")
  BY <1>1, <1>3 DEF MainDeck!ServeThePendingClose, DeckPanels
<1>8. MainDeck!Served(q2.rule) = r3
  BY <1>5 DEF MainDeck!Served
<1> HIDE DEF n, q2, r3, t
<1>9. CASE ~MainDeck!HasTheMainLoaderLeft /\ n < GiveUpTicks /\ t = [p EXCEPT !.rule = [p.rule EXCEPT !.waited = n]]
  <2>1. /\ r1 \in DeckRules /\ r1.travel = p.rule.travel /\ r1.cut = p.rule.cut
        /\ r1.guard = p.rule.guard /\ r1.check = p.rule.check /\ r1.mayResume = p.rule.mayResume
    BY <1>1, <1>2, <1>9 DEF DeckRules
  <2>2. t = [p EXCEPT !.rule = r1]
    BY <1>9
  <2> HIDE DEF r1
  <2>3. PanelIsSound(t) /\ t.rule = r1
    BY <2>1, <2>2, RuleIsReplaced
  <2> QED
    BY <2>1, <2>3 DEF t, MainDeck!None
<1>10. CASE /\ MainDeck!HasTheMainLoaderLeft \/ ~(n < GiveUpTicks)
            /\ t = [q2 EXCEPT !.rule = MainDeck!Served(q2.rule)] \/ t = MainDeck!StartTravel(q2, "closing")
  <2>1. PanelIsSound(MainDeck!StartTravel(q2, "closing"))
    BY <1>5, TravelStarts
  <2>2. PanelIsSound([q2 EXCEPT !.rule = r3])
    BY <1>5, <1>6, RuleIsReplaced
  <2>3. PanelIsSound(t)
    BY <1>8, <1>10, <2>1, <2>2
  <2> QED
    BY <1>10, <2>3 DEF t, n
<1> QED
  BY <1>7, <1>9, <1>10

\* The check of a relaunched client.
LEMMA MasterLeftOnIsTurnedOff ==
  ASSUME MainDeckConstants, NEW p, PanelIsSound(p), p.rule.travel = MainDeck!None
  PROVE  PanelIsSound(MainDeck!TurnOffTheMasterLeftOn(p)) /\ MainDeck!TurnOffTheMasterLeftOn(p).rule.travel = MainDeck!None
<1> DEFINE r == [p.rule EXCEPT !.check = FALSE]
           q == [p EXCEPT !.rule = r]
           t == MainDeck!TurnOffTheMasterLeftOn(p)
<1>1. p \in DeckPanels /\ p.rule \in DeckRules /\ (p.rule.check => ~p.rule.mayResume)
  BY DEF PanelIsSound, DeckPanels, TravelIsSwitched
<1>2. [p EXCEPT !.rule.check = FALSE] = q
  BY <1>1 DEF DeckPanels
<1>3. t = p \/ (p.rule.check /\ t = MainDeck!TurnTheMasterOff(q)) \/ t = q
  BY <1>2 DEF MainDeck!TurnOffTheMasterLeftOn
<1>4. /\ r \in DeckRules /\ r.travel = p.rule.travel /\ r.cut = p.rule.cut
      /\ r.guard = p.rule.guard /\ r.check = FALSE /\ r.mayResume = p.rule.mayResume
  BY <1>1 DEF DeckRules
<1> HIDE DEF r
<1>5. PanelIsSound(q) /\ q.rule = r
  BY <1>4, RuleIsReplaced
<1> HIDE DEF q, t
<1>6. p.rule.check => PanelIsSound(MainDeck!TurnTheMasterOff(q)) /\ MainDeck!TurnTheMasterOff(q).rule.travel = MainDeck!None
  BY <1>1, <1>4, <1>5, MasterIsTurnedOff
<1>7. PanelIsSound(t) /\ t.rule.travel = MainDeck!None
  BY <1>3, <1>4, <1>5, <1>6
<1> QED
  BY <1>7 DEF t

\* The part of a tick that moves the deck.
LEMMA DeckIsMoved ==
  ASSUME MainDeckConstants, deck \in MainDecks, NEW p, PanelIsSound(p)
  PROVE  LET q == MainDeck!MoveTheDeck(p) IN
         /\ PanelIsSound(q)
         /\ p.rule.travel = MainDeck!None /\ q.rule.travel = "closing" =>
              MainDeck!HasTheMainLoaderLeft \/ ~(p.rule.waited + 1 < GiveUpTicks)
<1> DEFINE r == [p.rule EXCEPT !.waited = 0]
           q == [p EXCEPT !.rule = r]
           t == MainDeck!MoveTheDeck(p)
<1>1. p \in DeckPanels /\ p.rule \in DeckRules
  BY DEF PanelIsSound, DeckPanels
<1>2. [p EXCEPT !.rule.waited = 0] = q
  BY <1>1 DEF DeckPanels
<1>3. \/ p.rule.travel # MainDeck!None /\ t = MainDeck!FinishTravel(p)
      \/ p.rule.travel = MainDeck!None /\ t = p
      \/ p.rule.travel = MainDeck!None /\ t = MainDeck!ServeThePendingClose(p)
      \/ p.rule.travel = MainDeck!None /\ t = MainDeck!StartTravel(q, "opening")
      \/ p.rule.travel = MainDeck!None /\ t = MainDeck!TurnOffTheMasterLeftOn(q)
  BY <1>2 DEF MainDeck!MoveTheDeck
<1>4. /\ r \in DeckRules /\ r.travel = p.rule.travel /\ r.cut = p.rule.cut
      /\ r.guard = p.rule.guard /\ r.check = p.rule.check /\ r.mayResume = p.rule.mayResume
  BY <1>1, MainDeckRanges DEF DeckRules
<1> HIDE DEF r
<1>5. PanelIsSound(q) /\ q.rule = r
  BY <1>4, RuleIsReplaced
<1> HIDE DEF q, t
<1>6. CASE p.rule.travel # MainDeck!None /\ t = MainDeck!FinishTravel(p)
  BY <1>6, TravelIsFinished DEF t
<1>7. CASE p.rule.travel = MainDeck!None /\ t = p
  BY <1>7 DEF t, MainDeck!None
<1>8. CASE p.rule.travel = MainDeck!None /\ t = MainDeck!ServeThePendingClose(p)
  BY <1>8, PendingCloseIsServed DEF t
<1>9. CASE p.rule.travel = MainDeck!None /\ t = MainDeck!StartTravel(q, "opening")
  <2>1. PanelIsSound(t) /\ t.rule.travel = "opening"
    BY <1>5, <1>9, TravelStarts
  <2> QED BY <2>1 DEF t
<1>10. CASE p.rule.travel = MainDeck!None /\ t = MainDeck!TurnOffTheMasterLeftOn(q)
  <2>1. PanelIsSound(t) /\ t.rule.travel = MainDeck!None
    BY <1>4, <1>5, <1>10, MasterLeftOnIsTurnedOff
  <2> QED BY <2>1 DEF t, MainDeck!None
<1> QED
  BY <1>3, <1>6, <1>7, <1>8, <1>9, <1>10

\* The whole tick hits no loader.
LEMMA ActedIsSound ==
  ASSUME MainDeckConstants, MainDeckInv
  PROVE  PanelIsSound(MainDeck!Acted) /\ ~MainDeck!HitsTheLoader(MainDeck!Acted)
<1> DEFINE guarded == MainDeck!GuardTheMasterCut(MainDeck!Panel)
           begged == MainDeck!CloseOnceTheLoaderLeft(MainDeck!CloseOnceDeboarded(guarded))
           done == MainDeck!MoveTheDeck(begged)
<1>1. MainDeck!Panel \in DeckPanels /\ MainDeck!Panel.rule = rule /\ MainDeck!Panel.switch = deck.switch
  BY DEF MainDeck!Panel, DeckPanels, MainDeckInv, MainDecks
<1>2. PanelIsSound(MainDeck!Panel) /\ deck \in MainDecks
  BY <1>1 DEF PanelIsSound, MainDeckInv
<1>3. /\ PanelIsSound(guarded) /\ guarded.rule.waited = rule.waited
      /\ guarded.rule.travel = rule.travel \/ ~MainDeck!AtAnEnd
  BY <1>1, <1>2, CutIsGuarded
<1> HIDE DEF guarded
<1>4. /\ PanelIsSound(begged) /\ begged.rule.waited = rule.waited
      /\ begged.rule.travel = rule.travel \/ ~MainDeck!AtAnEnd
  BY <1>3, RequestsAreKept
<1> HIDE DEF begged
<1>5. /\ PanelIsSound(done)
      /\ begged.rule.travel = MainDeck!None /\ done.rule.travel = "closing" =>
           MainDeck!HasTheMainLoaderLeft \/ ~(begged.rule.waited + 1 < GiveUpTicks)
  BY <1>2, <1>4, DeckIsMoved
<1>6. MainDeck!Acted = done
  BY DEF MainDeck!Acted, begged, guarded
<1> HIDE DEF done
<1>7. ~MainDeck!HitsTheLoader(done)
  BY <1>4, <1>5 DEF MainDeck!HitsTheLoader, MainDeck!HasTheMainLoaderLeft, MainDeck!LoaderServes,
     MainDeck!AtAnEnd
<1> QED
  BY <1>5, <1>6, <1>7

\* The deck and its panel after a tick.
LEMMA ActKeepsTheMainDeck ==
  ASSUME MainDeckConstants, MainDeckInv, MainDeck!Act
  PROVE  MainDeckInv'
<1> DEFINE p == MainDeck!Acted
           at == IF p.master THEN MainDeck!Towards(p.switch) ELSE deck.at
           rest == MainDeck!Observed(p.rule)
           hit == deck.hit \/ MainDeck!HitsTheLoader(p)
           worked == [deck EXCEPT !.master = p.master, !.switch = p.switch, !.at = at,
                                  !.rest = rest, !.hit = hit]
           n == deck.faults + 1
<1>1. /\ deck.up /\ rule' = p.rule
      /\ deck' = worked \/ deck' = [worked EXCEPT !.at = 1, !.faults = worked.faults + 1]
  BY DEF MainDeck!Act
<1>2. PanelIsSound(p) /\ ~MainDeck!HitsTheLoader(p) /\ deck \in MainDecks /\ ~deck.hit
  BY ActedIsSound DEF MainDeckInv
<1>3. p \in DeckPanels /\ p.rule \in DeckRules /\ p.master \in BOOLEAN /\ p.switch \in {0, WideOpen}
  BY <1>2 DEF PanelIsSound, DeckPanels
<1>4. deck.at \in 0 .. WideOpen /\ deck.rest \in MainDeck!Rest /\ deck.faults \in Nat
  BY <1>2 DEF MainDecks
<1> HIDE DEF p
<1>5. at \in 0 .. WideOpen
  BY <1>3, <1>4 DEF MainDeck!Towards, MainDeckConstants
<1>6. rest \in MainDeck!Rest
  BY <1>2, <1>4, RestsAreTyped DEF MainDeck!Observed
<1>7. hit = FALSE /\ n \in Nat
  BY <1>2, <1>4
<1> HIDE DEF at, rest, hit
<1>8. worked \in MainDecks /\ worked.switch = p.switch /\ worked.hit = FALSE
      /\ worked.up = deck.up /\ worked.faults = deck.faults
  BY <1>2, <1>3, <1>5, <1>6, <1>7 DEF MainDecks
<1> HIDE DEF worked
<1>9. deck' \in MainDecks /\ deck'.switch = p.switch /\ deck'.hit = FALSE /\ deck'.up
  <2>1. CASE deck' = worked
    BY <1>1, <1>8, <2>1
  <2>2. CASE deck' = [worked EXCEPT !.at = 1, !.faults = worked.faults + 1]
    <3>1. deck' = [worked EXCEPT !.at = 1, !.faults = n]
      BY <1>8, <2>2
    <3> HIDE DEF n
    <3> QED
      BY <1>1, <1>7, <1>8, <3>1, MainDeckRanges DEF MainDecks
  <2> QED BY <1>1, <2>1, <2>2
<1> QED
  BY <1>1, <1>2, <1>3, <1>9 DEF MainDeckInv, PanelIsSound

\* The other actions, one case for each.
LEMMA OthersKeepTheMainDeck ==
  ASSUME MainDeckConstants, MainDeckInv,
         \/ MainDeck!DeckFreezes \/ MainDeck!Receives \/ MainDeck!CloseAllDoors \/ MainDeck!HoldDoorsClosed \/ MainDeck!ClientEnds
         \/ MainDeck!OnTurnaroundResumed \/ MainDeck!MovesOn \/ MainDeck!ServiceMoves \/ MainDeck!LoaderComes \/ MainDeck!LoaderServesTheDeck
         \/ MainDeck!LoaderLeaves \/ MainDeck!CouatlRestarts
  PROVE  MainDeckInv'
<1>1. /\ rule \in DeckRules /\ deck \in MainDecks /\ TravelIsSwitched(rule, deck.switch)
      /\ ~deck.up => rule.travel = MainDeck!None /\ ~rule.mayResume
      /\ ~deck.hit
  BY DEF MainDeckInv
<1>2. deck.faults + 1 \in Nat /\ deck.at \in 0 .. WideOpen /\ deck.switch \in {0, WideOpen}
      /\ rule.unserved \in BOOLEAN /\ rule.loaderLeft \in BOOLEAN /\ rule.atWork \in BOOLEAN
      /\ rule.seen \in BOOLEAN
  BY <1>1 DEF MainDecks, DeckRules
<1>3. ASSUME rule' = rule, deck' \in MainDecks, deck'.switch = deck.switch, deck'.up = deck.up,
             deck'.hit = deck.hit
      PROVE  MainDeckInv'
  BY <1>1, <1>3 DEF MainDeckInv, TravelIsSwitched
<1>4. ASSUME deck' = deck, rule' \in DeckRules, rule'.travel = rule.travel, rule'.guard = rule.guard,
             rule'.cut = rule.cut, rule'.check = rule.check, rule'.mayResume = rule.mayResume
      PROVE  MainDeckInv'
  BY <1>1, <1>4 DEF MainDeckInv, TravelIsSwitched
<1>5. CASE MainDeck!DeckFreezes
  <2> DEFINE n == deck.faults + 1
  <2>1. deck' = [deck EXCEPT !.frozen = TRUE, !.faults = n] /\ rule' = rule /\ n \in Nat
    BY <1>2, <1>5 DEF MainDeck!DeckFreezes
  <2> HIDE DEF n
  <2>2. deck' \in MainDecks /\ deck'.switch = deck.switch /\ deck'.up = deck.up /\ deck'.hit = deck.hit
    BY <1>1, <2>1 DEF MainDecks
  <2> QED BY <1>3, <2>1, <2>2
<1>6. CASE MainDeck!Receives
  <2>1. PICK what \in {"deck", "gsx"} : deck' = [deck EXCEPT !.received = deck.received \cup {what}]
    BY <1>6 DEF MainDeck!Receives
  <2>2. deck' \in MainDecks /\ deck'.switch = deck.switch /\ deck'.up = deck.up /\ deck'.hit = deck.hit
    BY <1>1, <2>1 DEF MainDecks
  <2> QED BY <1>3, <1>6, <2>2 DEF MainDeck!Receives
<1>7. CASE MainDeck!CloseAllDoors
  <2>1. /\ rule' \in DeckRules /\ rule'.travel = rule.travel /\ rule'.guard = rule.guard
        /\ rule'.cut = rule.cut /\ rule'.check = rule.check /\ rule'.mayResume = rule.mayResume
    BY <1>1, <1>7 DEF MainDeck!CloseAllDoors, DeckRules
  <2> QED BY <1>4, <1>7, <2>1 DEF MainDeck!CloseAllDoors
<1>8. CASE MainDeck!HoldDoorsClosed
  <2>1. PICK asks \in BOOLEAN : rule' = [rule EXCEPT !.unserved = asks]
    <3>1. PICK to \in {"held", "over"} : rule' = [rule EXCEPT !.unserved = rule.unserved \/ to = "held"]
      BY <1>8 DEF MainDeck!HoldDoorsClosed
    <3>2. (rule.unserved \/ to = "held") \in BOOLEAN
      BY <1>2
    <3> QED BY <3>1, <3>2
  <2>2. /\ rule' \in DeckRules /\ rule'.travel = rule.travel /\ rule'.guard = rule.guard
        /\ rule'.cut = rule.cut /\ rule'.check = rule.check /\ rule'.mayResume = rule.mayResume
    BY <1>1, <2>1 DEF DeckRules
  <2> QED BY <1>4, <1>8, <2>2 DEF MainDeck!HoldDoorsClosed
<1>9. CASE MainDeck!ClientEnds
  <2> DEFINE n == deck.faults + 1
             rest == MainDeck!RestAt(MainDeck!Unseen)
             asks == rule.unserved \/ rule.loaderLeft
  <2>1. n \in Nat /\ rest \in MainDeck!Rest /\ asks \in BOOLEAN
    BY <1>1, <1>2, RestsAreTyped
  <2>2. MainDeck!Fresh \in DeckRules /\ MainDeck!Fresh.travel = MainDeck!None /\ MainDeck!Fresh.guard = 0 /\ ~MainDeck!Fresh.check
        /\ ~MainDeck!Fresh.mayResume
    BY <2>1, MainDeckRanges DEF MainDeck!Fresh, DeckRules, DeckTravels
  <2>3. /\ deck' = [deck EXCEPT !.up = FALSE, !.received = {}, !.faults = n, !.rest = rest]
        /\ rule' = [MainDeck!Fresh EXCEPT !.unserved = asks, !.loaderLeft = rule.loaderLeft,
                                          !.atWork = rule.atWork, !.seen = rule.seen]
    BY <1>9 DEF MainDeck!ClientEnds
  <2> HIDE DEF n, rest, asks
  <2>4. deck' \in MainDecks /\ deck'.hit = deck.hit
    BY <1>1, <2>1, <2>3 DEF MainDecks
  <2>5. rule' \in DeckRules /\ rule'.travel = MainDeck!None /\ rule'.guard = 0 /\ ~rule'.check
        /\ ~rule'.mayResume
    BY <1>2, <2>1, <2>2, <2>3 DEF DeckRules
  <2> QED
    BY <1>1, <2>4, <2>5 DEF MainDeckInv, TravelIsSwitched
<1>10. CASE MainDeck!OnTurnaroundResumed
  <2> DEFINE ended == rule.atWork /\ ~gsx.restarted
             asks == rule.unserved \/ gsx.hold = "held"
  <2>1. ended \in BOOLEAN /\ asks \in BOOLEAN
    BY <1>2
  <2>2. /\ rule' = [rule EXCEPT !.awaited = rule.atWork, !.mayHaveEnded = ended, !.check = TRUE,
                                !.unserved = asks]
        /\ deck' = [deck EXCEPT !.up = TRUE]
    BY <1>10 DEF MainDeck!OnTurnaroundResumed
  <2> HIDE DEF ended, asks
  <2>0. ~deck.up
    BY <1>10 DEF MainDeck!OnTurnaroundResumed
  <2>3. /\ rule' \in DeckRules /\ rule'.travel = rule.travel /\ rule'.guard = rule.guard
        /\ rule'.cut = rule.cut /\ rule'.mayResume = rule.mayResume
    BY <1>1, <1>2, <2>1, <2>2 DEF DeckRules
  <2>4. deck' \in MainDecks /\ deck'.hit = deck.hit /\ deck'.up /\ deck'.switch = deck.switch
    BY <1>1, <2>2 DEF MainDecks
  <2> QED
    BY <1>1, <2>0, <2>3, <2>4 DEF MainDeckInv, TravelIsSwitched
<1>11. CASE MainDeck!MovesOn
  <2> DEFINE at == MainDeck!Towards(deck.switch)
  <2>1. at \in 0 .. WideOpen
    BY <1>2 DEF MainDeck!Towards, MainDeckConstants
  <2>2. deck' = [deck EXCEPT !.at = at] /\ rule' = rule
    BY <1>11 DEF MainDeck!MovesOn
  <2> HIDE DEF at
  <2>3. deck' \in MainDecks /\ deck'.switch = deck.switch /\ deck'.up = deck.up /\ deck'.hit = deck.hit
    BY <1>1, <2>1, <2>2 DEF MainDecks
  <2> QED BY <1>3, <2>2, <2>3
<1>12. CASE MainDeck!ServiceMoves \/ MainDeck!LoaderComes \/ MainDeck!LoaderServesTheDeck \/ MainDeck!LoaderLeaves \/ MainDeck!CouatlRestarts
  <2>1. rule' = rule /\ deck' = deck
    BY <1>12 DEF MainDeck!ServiceMoves, MainDeck!LoaderComes, MainDeck!LoaderServesTheDeck,
       MainDeck!LoaderLeaves, MainDeck!CouatlRestarts
  <2> QED BY <1>1, <2>1 DEF MainDeckInv
<1> QED
  BY <1>5, <1>6, <1>7, <1>8, <1>9, <1>10, <1>11, <1>12

(***************************************************************************)
(* The main deck of the 727 never starts to close on the loader at work    *)
(* in it before the loader has outstayed its deadline, over cut and        *)
(* resumed travels, relaunches and a master that is left on                *)
(* (Fss727MainDeck).                                                       *)
(***************************************************************************)
THEOREM MainDeckHolds ==
  ASSUME MainDeckConstants
  PROVE  MainDeck!Spec => [](MainDeck!TypeOK /\ MainDeck!DeckIsKeptOpenForItsLoader)
<1>1. MainDeck!Init => MainDeckInv
  <2> SUFFICES ASSUME MainDeck!Init PROVE MainDeckInv
    OBVIOUS
  <2>1. MainDeck!RestAt(MainDeck!Unseen) \in MainDeck!Rest
    BY MainDeckRanges DEF MainDeck!RestAt, MainDeck!Rest
  <2>2. rule \in DeckRules /\ rule.travel = MainDeck!None /\ rule.guard = 0 /\ ~rule.check
    BY <2>1, MainDeckRanges DEF MainDeck!Init, MainDeck!Fresh, DeckRules, DeckTravels
  <2>3. deck \in MainDecks /\ ~deck.hit /\ deck.up
    BY <2>1, MainDeckRanges DEF MainDeck!Init, MainDecks
  <2> QED
    BY <2>2, <2>3 DEF MainDeckInv, TravelIsSwitched
<1>2. MainDeckInv /\ [MainDeck!Next]_(MainDeck!deckVars) => MainDeckInv'
  <2> SUFFICES ASSUME MainDeckInv, [MainDeck!Next]_(MainDeck!deckVars) PROVE MainDeckInv'
    OBVIOUS
  <2>1. CASE MainDeck!Act
    BY <2>1, ActKeepsTheMainDeck
  <2>2. CASE UNCHANGED MainDeck!deckVars
    BY <2>2 DEF MainDeck!deckVars, MainDeckInv, TravelIsSwitched
  <2> QED
    BY <2>1, <2>2, OthersKeepTheMainDeck DEF MainDeck!Next
<1>3. MainDeckInv => MainDeck!TypeOK /\ MainDeck!DeckIsKeptOpenForItsLoader
  <2> SUFFICES ASSUME MainDeckInv PROVE MainDeck!TypeOK /\ MainDeck!DeckIsKeptOpenForItsLoader
    OBVIOUS
  <2>1. /\ rule.rest \in MainDeck!Rest /\ rule.guard \in 0 .. GuardTicks /\ rule.waited \in 0 .. GiveUpTicks - 1
        /\ rule.unmoved \in 0 .. StartTicks - 1
    BY DEF MainDeckInv, DeckRules
  <2>2. deck.rest \in MainDeck!Rest /\ deck.at \in 0 .. WideOpen /\ ~deck.hit
    BY DEF MainDeckInv, MainDecks
  <2>3. rule.unmoved \in 0 .. StartTicks
    BY <2>1 DEF MainDeckConstants
  <2> QED
    BY <2>1, <2>2, <2>3 DEF MainDeckInv, TravelIsSwitched, MainDeck!TypeOK,
       MainDeck!DeckIsKeptOpenForItsLoader
<1> QED
  BY <1>1, <1>2, <1>3, PTL DEF MainDeck!Spec

-----------------------------------------------------------------------------
(***************************************************************************)
(* The front entry of the FSS 727.                                         *)
(* A door that is open was opened by the rule, or was found open by a      *)
(* relaunched one, which remembers it until it reads what is at it.        *)
(***************************************************************************)
EntryRules == [last : {Entry!None, "open", "closed"}, restoredOpen : BOOLEAN, unserved : BOOLEAN]
EntryDoors == [at : {"open", "closed"}, goal : {"open", "closed"}, received : SUBSET Entry!Inputs,
               up : BOOLEAN]
Accesses == [docked : BOOLEAN, couatl : BOOLEAN, hold : {Entry!None, "held", "over"}, faults : Nat]
EntryTypes == entry \in EntryRules /\ door \in EntryDoors /\ access \in Accesses

\* The rule remembers that it opened the door, and after a relaunch that it was
\* open for as long as it does not read what is at it.
RuleKnowsItsDoor ==
  /\ entry.restoredOpen => entry.last = "open"
  /\ door.goal = "open" => entry.last = "open"
  /\ door.goal = "open" /\ door.up /\ ~Entry!HaveTheInputsArrived => entry.restoredOpen

EntryInv == EntryTypes /\ RuleKnowsItsDoor

EntryNotShut == door.goal = "open" /\ door'.goal = "closed" => ~access.docked \/ Entry!Held

\* What the rule leaves of an entry e: as it is, with a request served, or with a
\* target recorded, of a door that is there or that it commands.
LEMMA ActedLeaves ==
  ASSUME NEW e \in EntryRules, door \in EntryDoors, access \in Accesses,
         e.restoredOpen => ~Entry!HaveTheInputsArrived
  PROVE  /\ Entry!Acted(e).entry \in EntryRules /\ Entry!Acted(e).goal \in {"open", "closed"}
         /\ \/ Entry!Acted(e) = [entry |-> e, goal |-> door.goal]
            \/ /\ Entry!Acted(e).entry.last = "closed" /\ Entry!Acted(e).goal = "closed"
               /\ ~Entry!Acted(e).entry.restoredOpen
               /\ Entry!Held \/ (~Entry!IsFrontEntryWanted /\ ~e.restoredOpen)
            \/ /\ Entry!Acted(e).entry.last = "open"
               /\ Entry!Acted(e).goal = "open" /\ ~Entry!Acted(e).entry.restoredOpen
               /\ ~Entry!Held /\ Entry!HaveTheInputsArrived
<1> DEFINE served == [e EXCEPT !.unserved = FALSE]
           Recorded(r, t) == [r EXCEPT !.last = t, !.restoredOpen = FALSE]
<1>1. e.last \in {Entry!None, "open", "closed"} /\ door.goal \in {"open", "closed"}
      /\ served \in EntryRules /\ served.restoredOpen = e.restoredOpen
  BY DEF EntryRules, EntryDoors
<1>2. ASSUME NEW r \in EntryRules, NEW t \in {"open", "closed"}
      PROVE  /\ Entry!Record(r, t) = [entry |-> Recorded(r, t), goal |-> door.goal]
             /\ Entry!Command(r, t) = [entry |-> Recorded(r, t), goal |-> t]
             /\ Recorded(r, t) \in EntryRules
             /\ Recorded(r, t).last = t /\ ~Recorded(r, t).restoredOpen
  <2>1. Entry!Record(r, t) = [entry |-> Recorded(r, t), goal |-> door.goal]
    BY DEF Entry!Record, Entry!Left
  <2>2. [Entry!Record(r, t) EXCEPT !.goal = t] = [entry |-> Recorded(r, t), goal |-> t]
    <3> HIDE DEF Recorded
    <3> QED BY <2>1
  <2>3. Recorded(r, t) \in EntryRules /\ Recorded(r, t).last = t /\ ~Recorded(r, t).restoredOpen
    BY DEF EntryRules
  <2> QED
    BY <2>1, <2>2, <2>3 DEF Entry!Command
<1>3. Entry!Position \in {"open", "closed", "pending"} /\ (Entry!Position # "pending" => Entry!Position = door.goal)
  BY DEF Entry!Position, EntryDoors
<1>4. Entry!Target \in {"open", "closed"} /\ (Entry!Target = "open" <=> Entry!IsFrontEntryWanted)
      /\ (Entry!Target = "open" => ~Entry!Held /\ Entry!Sees("access")) /\ (Entry!Held => Entry!Target = "closed")
  BY DEF Entry!Target, Entry!IsFrontEntryWanted
<1>5. Entry!IsGsxRunning /\ Entry!Sees("access") => Entry!HaveTheInputsArrived
  BY DEF Entry!IsGsxRunning, Entry!Sees, Entry!HaveTheInputsArrived
<1> HIDE DEF served, Recorded
<1>6. \/ Entry!Acted(e) = Entry!Left(e)
      \/ Entry!Target = "closed" /\ (Entry!Held \/ ~e.restoredOpen) /\ Entry!Acted(e) = Entry!CloseOnRequest(served)
      \/ (Entry!Held \/ Entry!IsGsxRunning) /\ (Entry!Target = "closed" => Entry!Held \/ ~e.restoredOpen)
         /\ Entry!Acted(e) = Entry!FollowTheGroundAccess(e)
  BY <1>4 DEF Entry!Acted, served
<1>7. Entry!Left(e) = [entry |-> e, goal |-> door.goal]
  BY DEF Entry!Left
<1>8. CASE Entry!Acted(e) = Entry!Left(e)
  BY <1>1, <1>7, <1>8
<1>9. CASE Entry!Target = "closed" /\ (Entry!Held \/ ~e.restoredOpen) /\ Entry!Acted(e) = Entry!CloseOnRequest(served)
  <2>1. Entry!Acted(e) = [entry |-> Recorded(served, "closed"), goal |-> "closed"]
    BY <1>1, <1>2, <1>3, <1>9 DEF Entry!CloseOnRequest
  <2> QED BY <1>1, <1>2, <1>4, <1>9, <2>1
<1>10. CASE (Entry!Held \/ Entry!IsGsxRunning) /\ (Entry!Target = "closed" => Entry!Held \/ ~e.restoredOpen)
            /\ Entry!Acted(e) = Entry!FollowTheGroundAccess(e)
  <2>1. \/ Entry!Acted(e) = Entry!Left(e)
        \/ Entry!Acted(e) = [entry |-> Recorded(e, Entry!Target), goal |-> Entry!Target]
    BY <1>2, <1>3, <1>4, <1>10 DEF Entry!FollowTheGroundAccess
  <2> QED BY <1>1, <1>2, <1>4, <1>5, <1>7, <1>10, <2>1
<1> QED
  BY <1>6, <1>8, <1>9, <1>10

\* A tick shuts the entry when it sees that its access has left it.
LEMMA ActKeepsTheEntry ==
  ASSUME EntryInv, Entry!Act
  PROVE  EntryInv' /\ EntryNotShut
<1> DEFINE e == [entry EXCEPT !.restoredOpen = entry.restoredOpen /\ ~Entry!HaveTheInputsArrived]
<1>1. /\ entry' = Entry!Acted(e).entry /\ door' = [door EXCEPT !.goal = Entry!Acted(e).goal]
      /\ access' = access /\ door.up
  BY DEF Entry!Act
<1>2. entry \in EntryRules /\ door \in EntryDoors /\ access \in Accesses
  BY DEF EntryInv, EntryTypes
<1>3. Entry!HaveTheInputsArrived \in BOOLEAN
  BY DEF Entry!HaveTheInputsArrived
<1>4. e \in EntryRules /\ e.last = entry.last
      /\ e.restoredOpen = (entry.restoredOpen /\ ~Entry!HaveTheInputsArrived)
  BY <1>2, <1>3 DEF EntryRules
<1> HIDE DEF e
<1> DEFINE done == Entry!Acted(e)
<1>5. /\ done.entry \in EntryRules /\ done.goal \in {"open", "closed"}
         /\ \/ done = [entry |-> e, goal |-> door.goal]
            \/ /\ done.entry.last = "closed" /\ done.goal = "closed"
               /\ ~done.entry.restoredOpen
               /\ Entry!Held \/ (~Entry!IsFrontEntryWanted /\ ~e.restoredOpen)
            \/ /\ done.entry.last = "open"
               /\ done.goal = "open" /\ ~done.entry.restoredOpen
               /\ ~Entry!Held /\ Entry!HaveTheInputsArrived
  BY <1>2, <1>4, ActedLeaves
<1>6. entry' = done.entry /\ door' = [door EXCEPT !.goal = done.goal]
  BY <1>1
<1> HIDE DEF done
<1>7. /\ door' \in EntryDoors /\ door'.goal = done.goal /\ door'.at = door.at
      /\ door'.received = door.received /\ door'.up = door.up
  BY <1>2, <1>5, <1>6 DEF EntryDoors
<1>8. Entry!HaveTheInputsArrived' = Entry!HaveTheInputsArrived
  BY <1>7 DEF Entry!HaveTheInputsArrived
<1>9. RuleKnowsItsDoor'
  <2>1. CASE done = [entry |-> e, goal |-> door.goal]
    <3>1. entry' = e /\ door'.goal = door.goal
      BY <1>6, <1>7, <2>1
    <3> QED
      BY <1>1, <1>4, <1>7, <1>8, <3>1 DEF EntryInv, RuleKnowsItsDoor
  <2>2. CASE done # [entry |-> e, goal |-> door.goal]
    BY <1>5, <1>6, <1>7, <1>8, <2>2 DEF RuleKnowsItsDoor
  <2> QED
    BY <2>1, <2>2
<1>10. EntryNotShut
  <2>1. door.goal = "open" /\ ~e.restoredOpen => Entry!HaveTheInputsArrived
    BY <1>1, <1>4 DEF EntryInv, RuleKnowsItsDoor
  <2>2. Entry!HaveTheInputsArrived /\ ~Entry!IsFrontEntryWanted => Entry!Held \/ ~access.docked
    BY DEF Entry!HaveTheInputsArrived, Entry!IsFrontEntryWanted, Entry!Sees
  <2>3. done = [entry |-> e, goal |-> door.goal] => done.goal = door.goal
    OBVIOUS
  <2> QED BY <1>5, <1>7, <2>1, <2>2, <2>3 DEF EntryNotShut
<1> QED
  BY <1>1, <1>2, <1>5, <1>6, <1>7, <1>9, <1>10 DEF EntryInv, EntryTypes

\* The other actions, one case for each.
LEMMA OthersKeepTheEntry ==
  ASSUME EntryInv, MaxFaultsOfTheSmall \in Nat,
         \/ Entry!Receives \/ Entry!DoorMoves \/ Entry!CloseAllDoors \/ Entry!HoldDoorsClosed \/ Entry!ClientEnds
         \/ Entry!OnTurnaroundResumed \/ Entry!AccessComes \/ Entry!AccessLeaves \/ Entry!CouatlEnds \/ Entry!CouatlStarts
  PROVE  EntryInv' /\ EntryNotShut
<1>1. entry \in EntryRules /\ door \in EntryDoors /\ access \in Accesses
  BY DEF EntryInv, EntryTypes
<1>2. CASE Entry!Receives
  <2>1. PICK what \in Entry!Inputs : door' = [door EXCEPT !.received = door.received \cup {what}]
    BY <1>2 DEF Entry!Receives
  <2>2. /\ door' \in EntryDoors /\ door'.goal = door.goal /\ door'.up = door.up
        /\ door.received \subseteq door'.received
    BY <1>1, <2>1 DEF EntryDoors
  <2> QED
    BY <1>1, <1>2, <2>2
    DEF EntryInv, EntryTypes, RuleKnowsItsDoor, Entry!HaveTheInputsArrived, Entry!Receives, EntryNotShut
<1>3. CASE Entry!DoorMoves
  <2>1. /\ door' \in EntryDoors /\ door'.goal = door.goal /\ door'.up = door.up
        /\ door.received = door'.received /\ entry' = entry /\ access' = access
    BY <1>1, <1>3 DEF EntryDoors, Entry!DoorMoves
  <2> QED
    BY <1>1, <2>1 DEF EntryInv, EntryTypes, RuleKnowsItsDoor, Entry!HaveTheInputsArrived,
       EntryNotShut
<1>4. CASE Entry!CloseAllDoors
  <2>1. /\ entry' \in EntryRules /\ entry'.last = entry.last
        /\ entry'.restoredOpen = entry.restoredOpen /\ door' = door /\ access' = access
    BY <1>1, <1>4 DEF EntryRules, Entry!CloseAllDoors
  <2> QED
    BY <1>1, <2>1 DEF EntryInv, EntryTypes, RuleKnowsItsDoor, Entry!HaveTheInputsArrived,
       EntryNotShut
<1>5. CASE Entry!HoldDoorsClosed
  <2>1. access' \in Accesses /\ entry' = entry /\ door' = door
    BY <1>1, <1>5 DEF Accesses, Entry!HoldDoorsClosed
  <2> QED
    BY <1>1, <2>1 DEF EntryInv, EntryTypes, RuleKnowsItsDoor, Entry!HaveTheInputsArrived,
       EntryNotShut
<1>6. CASE Entry!ClientEnds
  <2>1. access' \in Accesses /\ entry' = entry
    BY <1>1, <1>6 DEF Accesses, Entry!ClientEnds
  <2>2. door' \in EntryDoors /\ door'.goal = door.goal /\ ~door'.up
    BY <1>1, <1>6 DEF EntryDoors, Entry!ClientEnds
  <2> QED
    BY <1>1, <2>1, <2>2 DEF EntryInv, EntryTypes, RuleKnowsItsDoor, EntryNotShut
<1>7. CASE Entry!OnTurnaroundResumed
  <2> DEFINE open == entry.last = "open"
  <2>0. open \in BOOLEAN /\ entry' = [entry EXCEPT !.restoredOpen = open]
    BY <1>7 DEF Entry!OnTurnaroundResumed
  <2> HIDE DEF open
  <2>1. entry' \in EntryRules /\ entry'.last = entry.last /\ entry'.restoredOpen = open
    BY <1>1, <2>0 DEF EntryRules
  <2>2. door' \in EntryDoors /\ door'.goal = door.goal /\ access' = access
    BY <1>1, <1>7 DEF EntryDoors, Entry!OnTurnaroundResumed
  <2> QED
    BY <1>1, <2>1, <2>2 DEF EntryInv, EntryTypes, RuleKnowsItsDoor, EntryNotShut, open
<1>8. CASE Entry!AccessComes \/ Entry!AccessLeaves \/ Entry!CouatlEnds \/ Entry!CouatlStarts
  <2>0. access.faults \in Nat /\ access.faults + 1 \in Nat
    BY <1>1 DEF Accesses
  <2>1. access' \in Accesses /\ entry' = entry /\ door' = door
    <3>1. CASE Entry!AccessComes
      BY <1>1, <3>1 DEF Accesses, Entry!AccessComes
    <3>2. CASE Entry!AccessLeaves
      BY <1>1, <3>2 DEF Accesses, Entry!AccessLeaves
    <3>3. CASE Entry!CouatlEnds
      BY <1>1, <2>0, <3>3 DEF Accesses, Entry!CouatlEnds
    <3>4. CASE Entry!CouatlStarts
      BY <1>1, <3>4 DEF Accesses, Entry!CouatlStarts
    <3> QED
      BY <1>8, <3>1, <3>2, <3>3, <3>4
  <2> QED
    BY <1>1, <2>1 DEF EntryInv, EntryTypes, RuleKnowsItsDoor, Entry!HaveTheInputsArrived,
       EntryNotShut
<1> QED
  BY <1>2, <1>3, <1>4, <1>5, <1>6, <1>7, <1>8

(***************************************************************************)
(* The front entry of the 727 is not shut on the jetway or the stairs      *)
(* that stand at it, unless the doors are held for the departure           *)
(* (Fss727FrontEntry).                                                     *)
(***************************************************************************)
THEOREM EntryHolds ==
  ASSUME MaxFaultsOfTheSmall \in Nat
  PROVE  Entry!Spec => []Entry!TypeOK /\ Entry!EntryIsNotShutOnItsAccess
<1>1. Entry!Init => EntryInv
  BY DEF Entry!Init, EntryInv, EntryTypes, RuleKnowsItsDoor, EntryRules, EntryDoors, Accesses
<1>2. EntryInv /\ [Entry!Next]_(Entry!entryVars) => EntryInv' /\ [EntryNotShut]_(Entry!entryVars)
  <2> SUFFICES ASSUME EntryInv, [Entry!Next]_(Entry!entryVars) PROVE EntryInv' /\ [EntryNotShut]_(Entry!entryVars)
    OBVIOUS
  <2>1. CASE Entry!Act
    BY <2>1, ActKeepsTheEntry
  <2>2. CASE UNCHANGED Entry!entryVars
    BY <2>2 DEF Entry!entryVars, EntryInv, EntryTypes, RuleKnowsItsDoor, Entry!HaveTheInputsArrived
  <2> QED
    BY <2>1, <2>2, OthersKeepTheEntry DEF Entry!Next
<1>3. EntryInv => Entry!TypeOK
  BY DEF EntryInv, EntryTypes, EntryRules, RuleKnowsItsDoor, Entry!TypeOK
<1> QED
  BY <1>1, <1>2, <1>3, PTL DEF Entry!Spec, Entry!EntryIsNotShutOnItsAccess, EntryNotShut

-----------------------------------------------------------------------------
(***************************************************************************)
(* The doors of the iFly 737 MAX.                                          *)
(* A button is pressed of a door that stands: a door that rests off its    *)
(* goal has just been asked to open by the aircraft itself, and the rule   *)
(* has not waited for it as long as would make it press again.             *)
(***************************************************************************)
IFlyHoldSet == {IFly!None, "passengers", "departure"}
IFlyCycles == {IFly!None, "boarding", "deboarding"}
FollowRules ==
  [hold : IFlyHoldSet, closeSeen : BOOLEAN, releasePending : BOOLEAN, armed : IFlyCycles,
   complete : BOOLEAN, servedSeen : BOOLEAN, loaderDone : BOOLEAN, attempts : 0 .. MaxPulseAttempts,
   openAttempts : 0 .. MaxPulseAttempts, wantsOpenTicks : 0 .. OpensItselfTicks,
   pulseHigh : BOOLEAN, settleTicks : 0 .. SettleTicks]
IFlyDoorSet ==
  [kind : {"cargo", "stairs"}, at : {0, 1, 2}, goal : {0, 2}, moving : BOOLEAN, down : BOOLEAN,
   read : BOOLEAN, up : BOOLEAN, pilots : BOOLEAN, relaunched : BOOLEAN, reversed : BOOLEAN,
   shut : BOOLEAN, faults : Nat]
IFlyServices ==
  [service : IFlyCycles, vehicle : {"away", "waiting", "serving"}, hold : IFlyHoldSet, close : BOOLEAN,
   looked : BOOLEAN, served : BOOLEAN]
IFlyConstants ==
  /\ SettleTicks \in Nat /\ MaxPulseAttempts \in Nat /\ MaxFaults \in Nat
  /\ OpensItselfTicks \in Nat \ {0, 1}

IFlyTypes ==
  /\ follow \in FollowRules /\ iflyDoor \in IFlyDoorSet /\ iflyGsx \in IFlyServices
  /\ follow.pulseHigh => iflyDoor.down

\* A door that stands where it should not has just been asked to open by the
\* aircraft or the pilot, and the rule has not waited long for it.
DoorsRest(d) ==
  /\ ~d.moving => d.at \in {0, 2}
  /\ ~d.moving /\ ~d.pilots /\ ~d.relaunched => d.at = d.goal \/ d.at = 0
  /\ d.reversed => d.pilots \/ d.relaunched
  /\ ~d.shut
OpeningIsFresh ==
  /\ iflyGsx.vehicle = "away" /\ iflyGsx.looked => follow.wantsOpenTicks = 0
  /\ ~iflyDoor.moving /\ iflyDoor.at = 0 /\ iflyDoor.goal = 2 =>
       follow.wantsOpenTicks < OpensItselfTicks - 1 \/ iflyGsx.vehicle = "away"
IFlyInv == IFlyTypes /\ DoorsRest(iflyDoor) /\ OpeningIsFresh

\* The steps of the rule before its press, each of which leaves the pulse and
\* the settling as they are.
LEMMA CommandsAreFollowed ==
  ASSUME IFlyConstants, IFlyTypes, NEW f \in FollowRules
  PROVE  LET g == IFly!FollowAircraftCommands(f) IN
         g \in FollowRules /\ g.pulseHigh = f.pulseHigh /\ g.wantsOpenTicks = f.wantsOpenTicks
<1> DEFINE g == [f EXCEPT !.hold = iflyGsx.hold, !.closeSeen = iflyGsx.close]
           r == [g EXCEPT !.servedSeen = FALSE, !.loaderDone = FALSE, !.attempts = 0]
<1>1. iflyGsx.hold \in IFlyHoldSet /\ iflyGsx.close \in BOOLEAN /\ 0 \in 0 .. MaxPulseAttempts
  BY DEF IFlyTypes, IFlyServices, IFlyConstants
<1>2. g \in FollowRules /\ g.pulseHigh = f.pulseHigh /\ g.wantsOpenTicks = f.wantsOpenTicks
  BY <1>1 DEF FollowRules
<1>3. IFly!FollowAircraftCommands(f) = g \/ IFly!FollowAircraftCommands(f) = r
  BY DEF IFly!FollowAircraftCommands, IFly!ResetTracking
<1> HIDE DEF g
<1>4. r \in FollowRules /\ r.pulseHigh = f.pulseHigh /\ r.wantsOpenTicks = f.wantsOpenTicks
  BY <1>1, <1>2 DEF FollowRules
<1> QED
  BY <1>2, <1>3, <1>4

\* A toggle that another left down comes up.
LEMMA StuckTogglesAreReleased ==
  ASSUME IFlyTypes, NEW f \in FollowRules, f.pulseHigh = follow.pulseHigh
  PROVE  LET g == IFly!ReleaseStuckToggles(f) IN
         /\ g.follow \in FollowRules /\ g.follow.pulseHigh = f.pulseHigh
         /\ g.follow.wantsOpenTicks = f.wantsOpenTicks
         /\ g.down \in BOOLEAN /\ (f.pulseHigh => g.down) /\ (g.down => iflyDoor.down)
<1>1. iflyDoor.down \in BOOLEAN /\ f.pulseHigh \in BOOLEAN /\ (f.pulseHigh => iflyDoor.down)
  BY DEF IFlyTypes, IFlyDoorSet, FollowRules
<1> DEFINE freed == [f EXCEPT !.releasePending = FALSE]
           kept == iflyDoor.down /\ f.pulseHigh
<1>2. freed \in FollowRules /\ freed.pulseHigh = f.pulseHigh /\ freed.wantsOpenTicks = f.wantsOpenTicks
  BY DEF FollowRules
<1>3. \/ IFly!ReleaseStuckToggles(f) = [follow |-> f, down |-> iflyDoor.down]
      \/ IFly!ReleaseStuckToggles(f) = [follow |-> freed, down |-> kept]
  BY DEF IFly!ReleaseStuckToggles
<1>4. kept \in BOOLEAN /\ (f.pulseHigh => kept) /\ (kept => iflyDoor.down)
  BY <1>1
<1> HIDE DEF freed, kept
<1> QED
  BY <1>1, <1>2, <1>3, <1>4

\* The cycle arms the closer, and completes.
LEMMA CloserIsArmed ==
  ASSUME IFlyConstants, IFlyTypes, NEW f \in FollowRules
  PROVE  LET g == IFly!LatchCycleCompletion(IFly!ArmCloser(f)) IN
         g \in FollowRules /\ g.pulseHigh = f.pulseHigh /\ g.wantsOpenTicks = f.wantsOpenTicks
<1> DEFINE g == [f EXCEPT !.armed = IFly!CurrentCargoCycle, !.complete = FALSE]
           r == [g EXCEPT !.servedSeen = FALSE, !.loaderDone = FALSE, !.attempts = 0]
           h == IFly!ArmCloser(f)
           over == h.complete \/ (h.armed # IFly!None /\ iflyGsx.service # h.armed)
<1>1. IFly!CurrentCargoCycle \in IFlyCycles /\ 0 \in 0 .. MaxPulseAttempts
  BY DEF IFly!CurrentCargoCycle, IFlyCycles, IFlyConstants
<1>2. g \in FollowRules /\ g.pulseHigh = f.pulseHigh /\ g.wantsOpenTicks = f.wantsOpenTicks
  BY <1>1 DEF FollowRules
<1>3. h = f \/ h = g \/ h = r
  BY DEF IFly!ArmCloser, IFly!ResetTracking
<1> HIDE DEF g
<1>4. r \in FollowRules /\ r.pulseHigh = f.pulseHigh /\ r.wantsOpenTicks = f.wantsOpenTicks
  BY <1>1, <1>2 DEF FollowRules
<1> HIDE DEF r, h
<1>5. h \in FollowRules /\ h.pulseHigh = f.pulseHigh /\ h.wantsOpenTicks = f.wantsOpenTicks
  BY <1>2, <1>3, <1>4
<1>6. over \in BOOLEAN
  BY <1>5 DEF FollowRules
<1>7. IFly!LatchCycleCompletion(h) = [h EXCEPT !.complete = over]
  BY DEF IFly!LatchCycleCompletion
<1> HIDE DEF over
<1>8. IFly!LatchCycleCompletion(h) \in FollowRules /\ IFly!LatchCycleCompletion(h).pulseHigh = f.pulseHigh
      /\ IFly!LatchCycleCompletion(h).wantsOpenTicks = f.wantsOpenTicks
  BY <1>5, <1>6, <1>7 DEF FollowRules
<1> QED
  BY <1>8 DEF h

\* A tick adds at most one to the wait for an opening, and forgets it with its vehicle.
LEMMA DoorIsTracked ==
  ASSUME IFlyConstants, IFlyTypes, NEW f \in FollowRules
  PROVE  LET g == IFly!TrackDoor(f) IN
         /\ g \in FollowRules /\ g.pulseHigh = f.pulseHigh
         /\ ~IFly!WantsOpen => g.wantsOpenTicks = 0
         /\ IFly!WantsOpen => g.wantsOpenTicks <= f.wantsOpenTicks + 1
<1> DEFINE n == IF ~IFly!WantsOpen THEN 0
                ELSE IF f.wantsOpenTicks < OpensItselfTicks THEN f.wantsOpenTicks + 1
                ELSE f.wantsOpenTicks
           t == IF ~IFly!WantsOpen THEN [f EXCEPT !.wantsOpenTicks = 0, !.openAttempts = 0]
                ELSE [f EXCEPT !.wantsOpenTicks =
                        IF f.wantsOpenTicks < OpensItselfTicks THEN f.wantsOpenTicks + 1
                        ELSE f.wantsOpenTicks]
           left == t.loaderDone \/ t.servedSeen
           seen == t.servedSeen \/ iflyGsx.vehicle = "serving"
<1>1. f.wantsOpenTicks \in 0 .. OpensItselfTicks /\ 0 \in 0 .. MaxPulseAttempts
  BY DEF FollowRules, IFlyConstants
<1>2. n \in 0 .. OpensItselfTicks /\ (~IFly!WantsOpen => n = 0) /\ (IFly!WantsOpen => n <= f.wantsOpenTicks + 1)
  BY <1>1 DEF IFlyConstants
<1>3. t = [f EXCEPT !.wantsOpenTicks = n, !.openAttempts = 0] \/ t = [f EXCEPT !.wantsOpenTicks = n]
  OBVIOUS
<1>4. IFly!TrackDoor(f) = IFly!TrackBaggageLoader(t)
  BY DEF IFly!TrackDoor
<1> HIDE DEF n, t
<1>5. t \in FollowRules /\ t.pulseHigh = f.pulseHigh /\ t.wantsOpenTicks = n
  BY <1>1, <1>2, <1>3 DEF FollowRules
<1>6. left \in BOOLEAN /\ seen \in BOOLEAN
  BY <1>5 DEF FollowRules
<1>7. \/ IFly!TrackBaggageLoader(t) = t
      \/ IFly!TrackBaggageLoader(t) = [t EXCEPT !.loaderDone = left]
      \/ IFly!TrackBaggageLoader(t) = [t EXCEPT !.servedSeen = seen, !.loaderDone = FALSE, !.attempts = 0]
  BY DEF IFly!TrackBaggageLoader
<1> HIDE DEF left, seen
<1>8. /\ IFly!TrackBaggageLoader(t) \in FollowRules /\ IFly!TrackBaggageLoader(t).pulseHigh = f.pulseHigh
      /\ IFly!TrackBaggageLoader(t).wantsOpenTicks = n
  BY <1>1, <1>5, <1>6, <1>7 DEF FollowRules
<1> QED
  BY <1>2, <1>4, <1>8

\* A press is on a door that stands: to open it once it was waited for, or, for a
\* hold or behind its vehicle, to close an open one.
MayPress(f) ==
  \/ ~iflyDoor.moving /\ f.wantsOpenTicks >= OpensItselfTicks /\ ~IFly!IsHeldClosed /\ iflyDoor.at # IFly!Open
  \/ ~iflyDoor.moving /\ iflyDoor.at = IFly!Open /\ (IFly!IsHeldClosed \/ ~IFly!WantsOpen)

\* The press: one that goes down has what MayPress names.
LEMMA PulseAdvances ==
  ASSUME IFlyConstants, IFlyTypes, NEW f \in FollowRules, NEW down \in BOOLEAN, f.pulseHigh => down
  PROVE  LET d == IFly!DisarmCloser(IFly!AdvancePulse(f, down)) IN
         /\ d.follow \in FollowRules /\ d.follow.wantsOpenTicks = f.wantsOpenTicks
         /\ d.down \in BOOLEAN /\ (d.follow.pulseHigh => d.down)
         /\ d.down /\ ~down => MayPress(f)
<1> DEFINE up == [f EXCEPT !.pulseHigh = FALSE, !.settleTicks = SettleTicks]
           waits == [f EXCEPT !.settleTicks = f.settleTicks - 1]
           opens == [f EXCEPT !.openAttempts = f.openAttempts + 1, !.pulseHigh = TRUE]
           closes == [f EXCEPT !.attempts = f.attempts + 1, !.pulseHigh = TRUE]
           p == IFly!AdvancePulse(f, down)
<1>1. /\ f.settleTicks \in 0 .. SettleTicks /\ SettleTicks \in 0 .. SettleTicks
      /\ f.openAttempts \in 0 .. MaxPulseAttempts /\ f.attempts \in 0 .. MaxPulseAttempts
  BY DEF FollowRules, IFlyConstants
<1>2. /\ f.settleTicks > 0 => f.settleTicks - 1 \in 0 .. SettleTicks
      /\ f.openAttempts < MaxPulseAttempts => f.openAttempts + 1 \in 0 .. MaxPulseAttempts
      /\ f.attempts < MaxPulseAttempts => f.attempts + 1 \in 0 .. MaxPulseAttempts
  BY <1>1 DEF IFlyConstants
<1>3. /\ up \in FollowRules /\ ~up.pulseHigh /\ up.wantsOpenTicks = f.wantsOpenTicks
      /\ f.settleTicks > 0 =>
           waits \in FollowRules /\ waits.pulseHigh = f.pulseHigh /\ waits.wantsOpenTicks = f.wantsOpenTicks
      /\ f.openAttempts < MaxPulseAttempts =>
           opens \in FollowRules /\ opens.wantsOpenTicks = f.wantsOpenTicks
      /\ f.attempts < MaxPulseAttempts =>
           closes \in FollowRules /\ closes.wantsOpenTicks = f.wantsOpenTicks
  BY <1>1, <1>2 DEF FollowRules
<1>4. \/ p = [follow |-> up, down |-> FALSE, busy |-> TRUE]
      \/ ~f.pulseHigh /\ f.settleTicks > 0 /\ p = [follow |-> waits, down |-> down, busy |-> TRUE]
      \/ IFly!IsDoorOpenable(f) /\ p = [follow |-> opens, down |-> TRUE, busy |-> TRUE]
      \/ IFly!IsDoorCloseable(f) /\ p = [follow |-> closes, down |-> TRUE, busy |-> TRUE]
      \/ p = [follow |-> f, down |-> down, busy |-> FALSE]
  <2>1. \/ p = IFly!Left(up, FALSE, TRUE)
        \/ ~f.pulseHigh /\ f.settleTicks > 0 /\ p = IFly!Left(waits, down, TRUE)
        \/ IFly!IsDoorOpenable(f) /\ p = IFly!Pulse([f EXCEPT !.openAttempts = f.openAttempts + 1])
        \/ IFly!IsDoorCloseable(f) /\ p = IFly!Pulse([f EXCEPT !.attempts = f.attempts + 1])
        \/ p = IFly!Left(f, down, FALSE)
    BY DEF IFly!AdvancePulse
  <2>2. /\ IFly!Pulse([f EXCEPT !.openAttempts = f.openAttempts + 1])
             = [follow |-> opens, down |-> TRUE, busy |-> TRUE]
        /\ IFly!Pulse([f EXCEPT !.attempts = f.attempts + 1])
             = [follow |-> closes, down |-> TRUE, busy |-> TRUE]
    BY DEF IFly!Pulse
  <2> QED
    BY <2>1, <2>2 DEF IFly!Left
<1>5. /\ IFly!IsDoorOpenable(f) => MayPress(f) /\ f.openAttempts < MaxPulseAttempts
      /\ IFly!IsDoorCloseable(f) => MayPress(f) /\ f.attempts < MaxPulseAttempts
  BY DEF IFly!IsDoorOpenable, IFly!IsDoorCloseable, IFly!IsDoorReleased,
     IFly!IsClosingForDeparture, MayPress
<1> HIDE DEF up, waits, opens, closes, p
<1>6. /\ p.follow \in FollowRules /\ p.follow.wantsOpenTicks = f.wantsOpenTicks
      /\ p.down \in BOOLEAN /\ (p.follow.pulseHigh => p.down)
      /\ p.down /\ ~down => MayPress(f)
      /\ p = [follow |-> p.follow, down |-> p.down, busy |-> p.busy]
  <2>1. CASE p = [follow |-> up, down |-> FALSE, busy |-> TRUE]
    BY <1>3, <2>1
  <2>2. CASE ~f.pulseHigh /\ f.settleTicks > 0 /\ p = [follow |-> waits, down |-> down, busy |-> TRUE]
    BY <1>3, <2>2
  <2>3. CASE IFly!IsDoorOpenable(f) /\ p = [follow |-> opens, down |-> TRUE, busy |-> TRUE]
    BY <1>3, <1>5, <2>3
  <2>4. CASE IFly!IsDoorCloseable(f) /\ p = [follow |-> closes, down |-> TRUE, busy |-> TRUE]
    BY <1>3, <1>5, <2>4
  <2>5. CASE p = [follow |-> f, down |-> down, busy |-> FALSE]
    BY <2>5
  <2> QED
    BY <1>4, <2>1, <2>2, <2>3, <2>4, <2>5
<1> DEFINE g == p.follow
           disarmed == [g EXCEPT !.armed = IFly!None, !.complete = FALSE]
<1>7. disarmed \in FollowRules /\ disarmed.wantsOpenTicks = f.wantsOpenTicks
      /\ disarmed.pulseHigh = p.follow.pulseHigh
  <2> HIDE DEF g
  <2>1. g \in FollowRules /\ g.wantsOpenTicks = f.wantsOpenTicks
    BY <1>6 DEF g
  <2>2. disarmed \in FollowRules /\ disarmed.wantsOpenTicks = f.wantsOpenTicks
        /\ disarmed.pulseHigh = g.pulseHigh
    BY <2>1 DEF FollowRules, IFlyCycles
  <2> QED BY <2>2 DEF g
<1>8. \/ IFly!DisarmCloser(p) = p
      \/ IFly!DisarmCloser(p).follow = disarmed /\ IFly!DisarmCloser(p).down = p.down
  <2>1. \/ IFly!DisarmCloser(p) = p
        \/ IFly!DisarmCloser(p) = [p EXCEPT !.follow.armed = IFly!None, !.follow.complete = FALSE]
    BY DEF IFly!DisarmCloser
  <2>2. ASSUME NEW q, p = [follow |-> p.follow, down |-> p.down, busy |-> p.busy],
               q = [p EXCEPT !.follow.armed = IFly!None, !.follow.complete = FALSE]
        PROVE  q.follow = disarmed /\ q.down = p.down
    BY <2>2
  <2> QED
    BY <1>6, <2>1, <2>2
<1> HIDE DEF disarmed, g
<1> QED
  BY <1>6, <1>7, <1>8 DEF p

\* The whole tick of the rule.
LEMMA IFlyActedIsTyped ==
  ASSUME IFlyConstants, IFlyTypes
  PROVE  /\ IFly!Acted.follow \in FollowRules /\ IFly!Acted.down \in BOOLEAN
         /\ IFly!Acted.follow.pulseHigh => IFly!Acted.down
         /\ ~IFly!WantsOpen => IFly!Acted.follow.wantsOpenTicks = 0
         /\ IFly!WantsOpen => IFly!Acted.follow.wantsOpenTicks <= follow.wantsOpenTicks + 1
         /\ IFly!Acted.down /\ ~iflyDoor.down => MayPress(IFly!Acted.follow)
<1> DEFINE commanded == IFly!FollowAircraftCommands(follow)
           released == IFly!ReleaseStuckToggles(commanded)
           latched == IFly!LatchCycleCompletion(IFly!ArmCloser(released.follow))
           tracked == IFly!TrackDoor(latched)
           done == IFly!DisarmCloser(IFly!AdvancePulse(tracked, released.down))
<1>1. IFly!Acted = done
  BY DEF IFly!Acted
<1>2. commanded \in FollowRules /\ commanded.pulseHigh = follow.pulseHigh
      /\ commanded.wantsOpenTicks = follow.wantsOpenTicks
  BY CommandsAreFollowed DEF IFlyTypes
<1> HIDE DEF commanded
<1>3. /\ released.follow \in FollowRules /\ released.follow.pulseHigh = commanded.pulseHigh
      /\ released.follow.wantsOpenTicks = follow.wantsOpenTicks
      /\ released.down \in BOOLEAN /\ (commanded.pulseHigh => released.down)
      /\ (released.down => iflyDoor.down)
  BY <1>2, StuckTogglesAreReleased
<1> HIDE DEF released
<1>4. latched \in FollowRules /\ latched.pulseHigh = commanded.pulseHigh
      /\ latched.wantsOpenTicks = follow.wantsOpenTicks
  BY <1>3, CloserIsArmed
<1> HIDE DEF latched
<1>5. /\ tracked \in FollowRules /\ tracked.pulseHigh = commanded.pulseHigh
      /\ ~IFly!WantsOpen => tracked.wantsOpenTicks = 0
      /\ IFly!WantsOpen => tracked.wantsOpenTicks <= follow.wantsOpenTicks + 1
  BY <1>4, DoorIsTracked
<1> HIDE DEF tracked
<1>6. /\ done.follow \in FollowRules /\ done.follow.wantsOpenTicks = tracked.wantsOpenTicks
      /\ done.down \in BOOLEAN /\ (done.follow.pulseHigh => done.down)
      /\ done.down /\ ~released.down => MayPress(tracked)
  BY <1>3, <1>5, PulseAdvances
<1> HIDE DEF done
<1>7. MayPress(tracked) => MayPress(done.follow)
  BY <1>6 DEF MayPress
<1> QED
  BY <1>1, <1>3, <1>5, <1>6, <1>7

\* The door moves to its goal and stands there.
LEMMA IFlyMovedIsTyped ==
  ASSUME NEW d \in IFlyDoorSet
  PROVE  /\ IFly!Moved(d) \in IFlyDoorSet /\ IFly!Moved(d).down = d.down /\ IFly!Moved(d).goal = d.goal
         /\ IFly!Moved(d).pilots = d.pilots /\ IFly!Moved(d).relaunched = d.relaunched
         /\ IFly!Moved(d).reversed = d.reversed /\ IFly!Moved(d).shut = d.shut
         /\ ~IFly!Moved(d).moving => IFly!Moved(d).at = IFly!Moved(d).goal
<1> DEFINE n == IF d.at < d.goal THEN d.at + 1 ELSE d.at - 1
<1>1. d.at \in {0, 1, 2} /\ d.goal \in {0, 2} /\ (d.at # d.goal => n \in {0, 1, 2})
  BY DEF IFlyDoorSet
<1>2. \/ d.at = d.goal /\ IFly!Moved(d) = [d EXCEPT !.moving = FALSE]
      \/ d.at # d.goal /\ IFly!Moved(d) = [d EXCEPT !.moving = TRUE, !.at = n]
  BY DEF IFly!Moved
<1> HIDE DEF n
<1> QED
  BY <1>1, <1>2 DEF IFlyDoorSet

\* A tick presses the button of a door that is not on its way only.
LEMMA ActKeepsTheDoor ==
  ASSUME IFlyConstants, IFlyInv, IFly!Act
  PROVE  IFlyInv'
<1> DEFINE done == IFly!Acted
           pressed == done.down /\ ~iflyDoor.down
           turns == iflyDoor.reversed \/ (pressed /\ iflyDoor.at # iflyDoor.goal)
           shuts == iflyDoor.shut \/ (pressed /\ IFly!WantsOpen /\ ~IFly!IsHeldClosed /\ iflyDoor.goal = IFly!Open)
           worked == [iflyDoor EXCEPT !.down = done.down]
           tells == [worked EXCEPT !.reversed = turns, !.shut = shuts]
           goal == IFly!Open - iflyDoor.goal
           turned == [tells EXCEPT !.goal = goal]
           n == iflyDoor.faults + 1
<1>1. /\ follow' = done.follow /\ iflyGsx' = [iflyGsx EXCEPT !.looked = TRUE]
      /\ \/ pressed /\ iflyDoor' = IFly!Moved(turned)
         \/ iflyDoor' = IFly!Moved(worked)
         \/ iflyDoor' = [IFly!Moved(worked) EXCEPT !.faults = IFly!Moved(worked).faults + 1]
  <2>1. tells = [worked EXCEPT !.reversed = worked.reversed \/ (pressed /\ iflyDoor.at # iflyDoor.goal),
                               !.shut = worked.shut \/ (pressed /\ IFly!WantsOpen /\ ~IFly!IsHeldClosed /\ iflyDoor.goal = IFly!Open)]
    BY DEF IFlyInv, IFlyTypes, IFlyDoorSet
  <2>2. IFly!Pressed(tells) = turned
    BY DEF IFly!Pressed, IFlyInv, IFlyTypes, IFlyDoorSet
  <2>3. /\ follow' = done.follow /\ iflyGsx' = [iflyGsx EXCEPT !.looked = TRUE]
        /\ \/ iflyDoor' = IFly!Moved(IF pressed THEN IFly!Pressed(tells) ELSE worked)
           \/ iflyDoor' = IFly!Faulty(IFly!Moved(worked))
    BY <2>1 DEF IFly!Act
  <2> HIDE DEF turned, tells, worked, pressed, done
  <2> QED
    BY <2>2, <2>3 DEF IFly!Faulty
<1>2. /\ follow \in FollowRules /\ iflyDoor \in IFlyDoorSet /\ iflyGsx \in IFlyServices
      /\ DoorsRest(iflyDoor) /\ OpeningIsFresh
  BY DEF IFlyInv, IFlyTypes
<1>3. /\ done.follow \in FollowRules /\ done.down \in BOOLEAN
      /\ done.follow.pulseHigh => done.down
      /\ ~IFly!WantsOpen => done.follow.wantsOpenTicks = 0
      /\ IFly!WantsOpen => done.follow.wantsOpenTicks <= follow.wantsOpenTicks + 1
      /\ pressed => MayPress(done.follow)
  BY IFlyActedIsTyped DEF IFlyInv
<1> HIDE DEF done
<1>4. /\ iflyDoor.at \in {0, 1, 2} /\ iflyDoor.goal \in {0, 2} /\ iflyDoor.reversed \in BOOLEAN /\ iflyDoor.shut \in BOOLEAN
      /\ iflyDoor.pilots \in BOOLEAN /\ iflyDoor.relaunched \in BOOLEAN /\ ~iflyDoor.shut
      /\ follow.wantsOpenTicks \in Nat /\ done.follow.wantsOpenTicks \in Nat
      /\ (IFly!WantsOpen <=> iflyGsx.vehicle # "away")
  BY <1>2, <1>3 DEF IFlyDoorSet, DoorsRest, FollowRules, IFlyConstants, IFly!WantsOpen,
     IFly!AtDoor, IFlyServices
<1>5. ~(iflyDoor.at = 0 /\ iflyDoor.goal = 2 /\ ~iflyDoor.moving /\ done.follow.wantsOpenTicks >= OpensItselfTicks)
  <2> SUFFICES ASSUME iflyDoor.at = 0, iflyDoor.goal = 2, ~iflyDoor.moving,
                      done.follow.wantsOpenTicks >= OpensItselfTicks
               PROVE  FALSE
    OBVIOUS
  <2>1. CASE iflyGsx.vehicle = "away"
    BY <1>3, <1>4, <2>1 DEF IFlyConstants
  <2>2. CASE iflyGsx.vehicle # "away"
    <3>1. follow.wantsOpenTicks < OpensItselfTicks - 1
      BY <1>2, <2>2 DEF OpeningIsFresh
    <3> QED
      BY <1>3, <1>4, <2>2, <3>1 DEF IFlyConstants
  <2> QED BY <2>1, <2>2
<1>6. pressed => \/ iflyDoor.at = iflyDoor.goal \/ iflyDoor.pilots \/ iflyDoor.relaunched
  <2> SUFFICES ASSUME pressed, ~iflyDoor.pilots, ~iflyDoor.relaunched PROVE iflyDoor.at = iflyDoor.goal
    OBVIOUS
  <2>1. ~iflyDoor.moving /\ MayPress(done.follow)
    BY <1>3 DEF MayPress
  <2>2. iflyDoor.at = iflyDoor.goal \/ iflyDoor.at = 0
    BY <1>2, <2>1 DEF DoorsRest
  <2> QED
    BY <1>4, <1>5, <2>1, <2>2 DEF MayPress, IFly!Open
<1>7. shuts = FALSE
  <2>1. pressed /\ IFly!WantsOpen /\ ~IFly!IsHeldClosed => iflyDoor.goal # IFly!Open
    <3> SUFFICES ASSUME pressed, IFly!WantsOpen, ~IFly!IsHeldClosed, iflyDoor.goal = IFly!Open PROVE FALSE
      OBVIOUS
    <3>1. ~iflyDoor.moving /\ iflyDoor.at # IFly!Open /\ done.follow.wantsOpenTicks >= OpensItselfTicks
      BY <1>3 DEF MayPress
    <3>2. iflyDoor.at = 0
      BY <1>2, <1>4, <3>1 DEF DoorsRest, IFly!Open
    <3> QED
      BY <1>5, <3>1, <3>2 DEF IFly!Open
  <2> QED
    BY <1>4, <2>1
<1>8. turns \in BOOLEAN /\ (turns => iflyDoor.pilots \/ iflyDoor.relaunched)
  BY <1>2, <1>4, <1>6 DEF DoorsRest
<1>9. goal \in {0, 2}
  BY <1>4 DEF IFly!Open
<1> HIDE DEF turns, shuts, goal
<1>10. /\ worked \in IFlyDoorSet /\ worked.down = done.down /\ worked.reversed = iflyDoor.reversed
       /\ worked.pilots = iflyDoor.pilots /\ worked.relaunched = iflyDoor.relaunched /\ worked.shut = FALSE
  BY <1>2, <1>3, <1>4 DEF IFlyDoorSet
<1>11. /\ turned \in IFlyDoorSet /\ turned.down = done.down /\ turned.reversed = turns
       /\ turned.pilots = iflyDoor.pilots /\ turned.relaunched = iflyDoor.relaunched /\ turned.shut = FALSE
  <2> HIDE DEF worked
  <2> QED
    BY <1>7, <1>8, <1>9, <1>10 DEF IFlyDoorSet
<1> HIDE DEF worked, turned, pressed
<1>12. /\ iflyDoor' \in IFlyDoorSet /\ iflyDoor'.down = done.down
       /\ ~iflyDoor'.moving => iflyDoor'.at = iflyDoor'.goal
       /\ iflyDoor'.reversed => iflyDoor'.pilots \/ iflyDoor'.relaunched
       /\ ~iflyDoor'.shut
  <2>1. CASE iflyDoor' = IFly!Moved(turned)
    BY <1>8, <1>11, <2>1, IFlyMovedIsTyped
  <2>2. CASE iflyDoor' = IFly!Moved(worked)
    BY <1>2, <1>10, <2>2, IFlyMovedIsTyped DEF DoorsRest
  <2>3. CASE iflyDoor' = [IFly!Moved(worked) EXCEPT !.faults = IFly!Moved(worked).faults + 1]
    <3> DEFINE m == IFly!Moved(worked)
               k == m.faults + 1
    <3>1. /\ m \in IFlyDoorSet /\ m.down = done.down
          /\ ~m.moving => m.at = m.goal
          /\ m.reversed => m.pilots \/ m.relaunched
          /\ ~m.shut
      BY <1>2, <1>10, IFlyMovedIsTyped DEF DoorsRest
    <3> HIDE DEF m
    <3>2. k \in Nat
      BY <3>1 DEF IFlyDoorSet
    <3>3. iflyDoor' = [m EXCEPT !.faults = k]
      BY <2>3 DEF m
    <3> HIDE DEF k
    <3> QED
      BY <3>1, <3>2, <3>3 DEF IFlyDoorSet
  <2> QED
    BY <1>1, <2>1, <2>2, <2>3
<1>13. iflyGsx' \in IFlyServices /\ iflyGsx'.vehicle = iflyGsx.vehicle
  BY <1>1, <1>2 DEF IFlyServices
<1>14. iflyDoor'.goal \in {0, 2}
  BY <1>12 DEF IFlyDoorSet
<1> QED
  BY <1>1, <1>3, <1>4, <1>12, <1>13, <1>14 DEF IFlyInv, IFlyTypes, DoorsRest, OpeningIsFresh

\* The other actions, one case for each.
LEMMA OthersKeepTheDoor ==
  ASSUME IFlyConstants, IFlyInv,
         \/ IFly!Receives \/ IFly!AircraftOpens \/ IFly!PilotToggles \/ IFly!CloseAllDoors \/ IFly!HoldDoors
         \/ IFly!OnTurnaroundStarted \/ IFly!ClientEnds \/ IFly!OnTurnaroundResumed \/ IFly!ServiceMoves
         \/ IFly!VehicleComes \/ IFly!VehicleServes \/ IFly!VehicleLeaves
  PROVE  IFlyInv'
<1>1. /\ follow \in FollowRules /\ iflyDoor \in IFlyDoorSet /\ iflyGsx \in IFlyServices
      /\ DoorsRest(iflyDoor) /\ OpeningIsFresh /\ (follow.pulseHigh => iflyDoor.down)
  BY DEF IFlyInv, IFlyTypes
<1>2. /\ iflyDoor.faults + 1 \in Nat /\ iflyDoor.goal \in {0, 2} /\ IFly!Open - iflyDoor.goal \in {0, 2}
      /\ iflyDoor.at \in {0, 1, 2} /\ follow.wantsOpenTicks \in Nat
      /\ 0 \in 0 .. MaxPulseAttempts /\ 0 \in 0 .. OpensItselfTicks /\ 0 \in 0 .. SettleTicks
      /\ 0 < OpensItselfTicks - 1
  BY <1>1 DEF IFlyDoorSet, FollowRules, IFlyConstants, IFly!Open
<1>3. CASE IFly!Receives
  <2>1. /\ iflyDoor' \in IFlyDoorSet /\ iflyDoor'.down = iflyDoor.down /\ iflyDoor'.moving = iflyDoor.moving
        /\ iflyDoor'.at = iflyDoor.at /\ iflyDoor'.goal = iflyDoor.goal /\ iflyDoor'.pilots = iflyDoor.pilots
        /\ iflyDoor'.relaunched = iflyDoor.relaunched /\ iflyDoor'.reversed = iflyDoor.reversed /\ iflyDoor'.shut = iflyDoor.shut
    BY <1>1, <1>3 DEF IFlyDoorSet, IFly!Receives
  <2> QED
    BY <1>1, <1>3, <2>1 DEF IFlyInv, IFlyTypes, DoorsRest, OpeningIsFresh, IFly!Receives
<1>4. CASE IFly!AircraftOpens
  <2> DEFINE goal == IFly!Open - iflyDoor.goal
  <2>1. iflyDoor' = [iflyDoor EXCEPT !.goal = goal] /\ goal \in {0, 2}
    BY <1>2, <1>4 DEF IFly!AircraftOpens, IFly!Pressed
  <2> HIDE DEF goal
  <2>2. /\ iflyDoor' \in IFlyDoorSet /\ iflyDoor'.down = iflyDoor.down /\ iflyDoor'.moving = iflyDoor.moving
        /\ iflyDoor'.at = iflyDoor.at /\ iflyDoor'.pilots = iflyDoor.pilots
        /\ iflyDoor'.relaunched = iflyDoor.relaunched /\ iflyDoor'.reversed = iflyDoor.reversed /\ iflyDoor'.shut = iflyDoor.shut
    BY <1>1, <2>1 DEF IFlyDoorSet
  <2> QED
    BY <1>1, <1>4, <2>2 DEF IFlyInv, IFlyTypes, DoorsRest, OpeningIsFresh, IFly!AircraftOpens
<1>5. CASE IFly!PilotToggles
  <2> DEFINE goal == IFly!Open - iflyDoor.goal
             turned == [iflyDoor EXCEPT !.goal = goal]
             n == iflyDoor.faults + 1
  <2>1. goal \in {0, 2} /\ n \in Nat
    BY <1>2
  <2>2. turned \in IFlyDoorSet /\ turned.faults = iflyDoor.faults
    <3> HIDE DEF goal
    <3> QED BY <1>1, <2>1 DEF IFlyDoorSet
  <2>3. iflyDoor' = [iflyDoor EXCEPT !.goal = goal, !.faults = n, !.pilots = TRUE]
    <3>1. iflyDoor' = [[turned EXCEPT !.faults = turned.faults + 1] EXCEPT !.pilots = TRUE]
      BY <1>5 DEF IFly!PilotToggles, IFly!Pressed, IFly!Faulty
    <3> HIDE DEF goal, n
    <3> QED BY <1>1, <2>2, <3>1 DEF n
  <2> HIDE DEF goal, n, turned
  <2>4. /\ iflyDoor' \in IFlyDoorSet /\ iflyDoor'.down = iflyDoor.down /\ iflyDoor'.moving = iflyDoor.moving
        /\ iflyDoor'.at = iflyDoor.at /\ iflyDoor'.pilots /\ iflyDoor'.shut = iflyDoor.shut
    BY <1>1, <2>1, <2>3 DEF IFlyDoorSet
  <2> QED
    BY <1>1, <1>5, <2>4 DEF IFlyInv, IFlyTypes, DoorsRest, OpeningIsFresh, IFly!PilotToggles
<1>6. CASE IFly!CloseAllDoors
  <2>1. iflyGsx' \in IFlyServices /\ iflyGsx'.vehicle = iflyGsx.vehicle /\ iflyGsx'.looked = iflyGsx.looked
    BY <1>1, <1>6 DEF IFly!CloseAllDoors, IFlyServices
  <2> QED
    BY <1>1, <1>6, <2>1 DEF IFlyInv, IFlyTypes, DoorsRest, OpeningIsFresh, IFly!CloseAllDoors
<1>7. CASE IFly!HoldDoors
  <2>1. PICK to \in {"passengers", "departure"} : iflyGsx' = [iflyGsx EXCEPT !.hold = to]
    BY <1>7 DEF IFly!HoldDoors
  <2>2. iflyGsx' \in IFlyServices /\ iflyGsx'.vehicle = iflyGsx.vehicle /\ iflyGsx'.looked = iflyGsx.looked
    BY <1>1, <2>1 DEF IFlyServices, IFlyHoldSet
  <2> QED
    BY <1>1, <1>7, <2>2 DEF IFlyInv, IFlyTypes, DoorsRest, OpeningIsFresh, IFly!HoldDoors
<1>8. CASE IFly!OnTurnaroundStarted
  <2>1. iflyGsx' \in IFlyServices /\ iflyGsx'.vehicle = iflyGsx.vehicle /\ iflyGsx'.looked = iflyGsx.looked
    BY <1>1, <1>8 DEF IFly!OnTurnaroundStarted, IFlyServices, IFlyHoldSet
  <2>2. follow' \in FollowRules /\ follow'.pulseHigh = follow.pulseHigh
        /\ follow'.wantsOpenTicks = follow.wantsOpenTicks
    BY <1>1, <1>8 DEF IFly!OnTurnaroundStarted, FollowRules
  <2> QED
    BY <1>1, <1>8, <2>1, <2>2 DEF IFlyInv, IFlyTypes, DoorsRest, OpeningIsFresh,
       IFly!OnTurnaroundStarted
<1>9. CASE IFly!ClientEnds
  <2> DEFINE n == iflyDoor.faults + 1
  <2>1. follow' \in FollowRules /\ ~follow'.pulseHigh /\ follow'.wantsOpenTicks = 0
    BY <1>2, <1>9 DEF IFly!ClientEnds, IFly!NewFollow, FollowRules, IFlyHoldSet, IFlyCycles
  <2>2. iflyDoor' = [iflyDoor EXCEPT !.faults = n, !.up = FALSE, !.read = FALSE, !.relaunched = TRUE] /\ n \in Nat
    BY <1>2, <1>9 DEF IFly!ClientEnds, IFly!Faulty
  <2> HIDE DEF n
  <2>3. /\ iflyDoor' \in IFlyDoorSet /\ iflyDoor'.moving = iflyDoor.moving
        /\ iflyDoor'.at = iflyDoor.at /\ iflyDoor'.relaunched /\ iflyDoor'.shut = iflyDoor.shut
    BY <1>1, <2>2 DEF IFlyDoorSet
  <2> QED
    BY <1>1, <1>2, <1>9, <2>1, <2>3 DEF IFlyInv, IFlyTypes, DoorsRest, OpeningIsFresh,
       IFly!ClientEnds
<1>10. CASE IFly!OnTurnaroundResumed
  <2>1. /\ iflyDoor' \in IFlyDoorSet /\ iflyDoor'.down = iflyDoor.down /\ iflyDoor'.moving = iflyDoor.moving
        /\ iflyDoor'.at = iflyDoor.at /\ iflyDoor'.goal = iflyDoor.goal /\ iflyDoor'.pilots = iflyDoor.pilots
        /\ iflyDoor'.relaunched = iflyDoor.relaunched /\ iflyDoor'.reversed = iflyDoor.reversed /\ iflyDoor'.shut = iflyDoor.shut
    BY <1>1, <1>10 DEF IFlyDoorSet, IFly!OnTurnaroundResumed
  <2>2. follow' \in FollowRules /\ follow'.pulseHigh = follow.pulseHigh
        /\ follow'.wantsOpenTicks = follow.wantsOpenTicks
    BY <1>1, <1>10 DEF IFly!OnTurnaroundResumed, FollowRules
  <2> QED
    BY <1>1, <1>10, <2>1, <2>2 DEF IFlyInv, IFlyTypes, DoorsRest, OpeningIsFresh,
       IFly!OnTurnaroundResumed
<1>11. CASE IFly!ServiceMoves
  <2>1. PICK to \in IFlyCycles : iflyGsx' = [iflyGsx EXCEPT !.service = to, !.looked = FALSE]
    BY <1>11 DEF IFly!ServiceMoves, IFlyCycles
  <2>2. iflyGsx' \in IFlyServices /\ iflyGsx'.vehicle = iflyGsx.vehicle /\ ~iflyGsx'.looked
    BY <1>1, <2>1 DEF IFlyServices
  <2> QED
    BY <1>1, <1>11, <2>2 DEF IFlyInv, IFlyTypes, DoorsRest, OpeningIsFresh, IFly!ServiceMoves
<1>12. CASE IFly!VehicleComes
  <2>1. iflyGsx' \in IFlyServices /\ iflyGsx'.vehicle = "waiting" /\ follow.wantsOpenTicks = 0
    BY <1>1, <1>12 DEF IFly!VehicleComes, IFlyServices, OpeningIsFresh
  <2> QED
    BY <1>1, <1>2, <1>12, <2>1 DEF IFlyInv, IFlyTypes, DoorsRest, OpeningIsFresh, IFly!VehicleComes
<1>13. CASE IFly!VehicleServes
  <2>1. iflyGsx' \in IFlyServices /\ iflyGsx'.vehicle = "serving" /\ iflyGsx.vehicle = "waiting"
    BY <1>1, <1>13 DEF IFly!VehicleServes, IFlyServices
  <2> QED
    BY <1>1, <1>13, <2>1 DEF IFlyInv, IFlyTypes, DoorsRest, OpeningIsFresh, IFly!VehicleServes
<1>14. CASE IFly!VehicleLeaves
  <2> DEFINE served == iflyGsx.vehicle = "serving"
  <2>1. served \in BOOLEAN
        /\ iflyGsx' = [iflyGsx EXCEPT !.vehicle = "away", !.looked = FALSE, !.served = served]
    BY <1>14 DEF IFly!VehicleLeaves
  <2> HIDE DEF served
  <2>2. iflyGsx' \in IFlyServices /\ iflyGsx'.vehicle = "away" /\ ~iflyGsx'.looked
    BY <1>1, <2>1 DEF IFlyServices
  <2> QED
    BY <1>1, <1>14, <2>2 DEF IFlyInv, IFlyTypes, DoorsRest, OpeningIsFresh, IFly!VehicleLeaves
<1> QED
  BY <1>3, <1>4, <1>5, <1>6, <1>7, <1>8, <1>9, <1>10, <1>11, <1>12, <1>13, <1>14

(***************************************************************************)
(* A press of the door button turns no door round in its travel, the       *)
(* pilot and a relaunch aside, and closes none on a vehicle at it but for  *)
(* a hold (IFlyDoors).                                                     *)
(***************************************************************************)
THEOREM IFlyHolds ==
  ASSUME IFlyConstants
  PROVE  IFly!Spec => [](IFly!TypeOK /\ IFly!PressesAreMeant)
<1>1. IFly!Init => IFlyInv
  <2> SUFFICES ASSUME IFly!Init PROVE IFlyInv
    OBVIOUS
  <2>1. /\ 0 \in 0 .. MaxPulseAttempts /\ 0 \in 0 .. OpensItselfTicks /\ 0 \in 0 .. SettleTicks
    BY DEF IFlyConstants
  <2>2. follow \in FollowRules /\ ~follow.pulseHigh /\ follow.wantsOpenTicks = 0
    BY <2>1 DEF IFly!Init, IFly!NewFollow, FollowRules, IFlyHoldSet, IFlyCycles
  <2>3. /\ iflyDoor \in IFlyDoorSet /\ iflyDoor.at = 0 /\ iflyDoor.goal = 0 /\ iflyDoor.reversed = FALSE
        /\ iflyDoor.shut = FALSE
    <3>1. PICK kind \in {"cargo", "stairs"} :
            iflyDoor = [kind |-> kind, at |-> 0, goal |-> 0, moving |-> FALSE,
                        down |-> FALSE, read |-> TRUE, up |-> TRUE, pilots |-> FALSE,
                        relaunched |-> FALSE, reversed |-> FALSE, shut |-> FALSE, faults |-> 0]
      BY DEF IFly!Init
    <3> QED
      BY <3>1 DEF IFlyDoorSet
  <2>4. iflyGsx \in IFlyServices
    BY DEF IFly!Init, IFlyServices, IFlyHoldSet, IFlyCycles
  <2> QED
    BY <2>2, <2>3, <2>4 DEF IFlyInv, IFlyTypes, DoorsRest, OpeningIsFresh
<1>2. IFlyInv /\ [IFly!Next]_(IFly!iflyVars) => IFlyInv'
  <2> SUFFICES ASSUME IFlyInv, [IFly!Next]_(IFly!iflyVars) PROVE IFlyInv'
    OBVIOUS
  <2>1. CASE IFly!Act
    BY <2>1, ActKeepsTheDoor
  <2>2. CASE UNCHANGED IFly!iflyVars
    BY <2>2 DEF IFly!iflyVars, IFlyInv, IFlyTypes, DoorsRest, OpeningIsFresh
  <2> QED
    BY <2>1, <2>2, OthersKeepTheDoor DEF IFly!Next
<1>3. IFlyInv => IFly!TypeOK /\ IFly!PressesAreMeant
  BY DEF IFlyInv, IFlyTypes, DoorsRest, FollowRules, IFlyDoorSet, IFly!TypeOK,
     IFly!PressesAreMeant, IFly!Open
<1> QED
  BY <1>1, <1>2, <1>3, PTL DEF IFly!Spec

-----------------------------------------------------------------------------
(***************************************************************************)
(* The cargo deck of the FSS E-Jets.                                       *)
(* What is commanded is wanted still, and what is wanted of a deck with a  *)
(* loader that waits is that it opens.                                     *)
(***************************************************************************)
EDeckWishes == {EDeck!None, "open", "closed"}
EDeckSlots == [desired : EDeckWishes, commanded : EDeckWishes, order : {"follow", "absolute"},
               attempts : 0 .. MaxReaffirms, since : 0 .. ReaffirmTicks, transit : EDeck!Idle .. BoundTicks,
               restoredOpen : BOOLEAN, closes : BOOLEAN, reclaims : BOOLEAN, closeAll : BOOLEAN]
EDecks == [at : {0, 1, 2}, goal : {"open", "closed"}, received : SUBSET {"deck", "loader"}, up : BOOLEAN,
           relaunched : BOOLEAN, shut : BOOLEAN, faults : Nat]
EDeckConstants ==
  ReaffirmTicks \in Nat /\ MaxReaffirms \in Nat /\ BoundTicks \in Nat /\ MaxFaults \in Nat

\* What a slot does not want it has not commanded.
SlotIsSound(s) == s \in EDeckSlots /\ (s.desired = EDeck!None => s.commanded = EDeck!None)
DeckIsSound(d) == d \in EDecks /\ ~d.shut
EDeckInv == SlotIsSound(slot) /\ DeckIsSound(eDeck)

\* What the service and the loader make the rule want.
LEMMA SetDesiredIsSound ==
  ASSUME NEW s, SlotIsSound(s), NEW closeAll \in BOOLEAN
  PROVE  /\ SlotIsSound(EDeck!SetDesired(s, closeAll))
         /\ ~closeAll /\ EDeck!LoaderWaits => EDeck!SetDesired(s, closeAll).desired = "open"
<1> DEFINE t == [s EXCEPT !.closes = s.closes \/ closeAll]
           claims == EDeck!ClaimsNow(t) /\ EDeck!Reading = "open"
           wantsOpen == ~closeAll /\ EDeck!LoaderWaits
           u == IF EDeck!ClaimsNow(t) THEN [t EXCEPT !.closes = FALSE, !.reclaims = FALSE] ELSE t
           v == IF wantsOpen \/ claims \/ u.desired # EDeck!None
                THEN [u EXCEPT !.desired = IF wantsOpen THEN "open" ELSE "closed",
                               !.order = IF closeAll THEN "absolute" ELSE "follow"]
                ELSE u
<1>1. EDeck!SetDesired(s, closeAll) = IF claims /\ ~wantsOpen THEN [v EXCEPT !.commanded = EDeck!None] ELSE v
  BY DEF EDeck!SetDesired
<1>2. s \in EDeckSlots /\ s.closes \in BOOLEAN /\ (s.desired = EDeck!None => s.commanded = EDeck!None)
  BY DEF SlotIsSound, EDeckSlots
<1>3. (s.closes \/ closeAll) \in BOOLEAN
  BY <1>2
<1>4. t \in EDeckSlots /\ t.desired = s.desired /\ t.commanded = s.commanded
  BY <1>2, <1>3 DEF EDeckSlots
<1> HIDE DEF t
<1>5. u \in EDeckSlots /\ u.desired = s.desired /\ u.commanded = s.commanded
  BY <1>4 DEF EDeckSlots
<1>6. wantsOpen \in BOOLEAN /\ claims \in BOOLEAN
  BY DEF EDeck!LoaderWaits
<1> HIDE DEF u, claims, wantsOpen
<1>7. /\ v \in EDeckSlots /\ v.commanded = s.commanded
      /\ v.desired = EDeck!None => ~wantsOpen /\ ~claims /\ s.desired = EDeck!None
      /\ wantsOpen => v.desired = "open"
  <2> DEFINE wish == IF wantsOpen THEN "open" ELSE "closed"
             order == IF closeAll THEN "absolute" ELSE "follow"
  <2>1. wish \in EDeckWishes /\ wish # EDeck!None /\ order \in {"follow", "absolute"} /\ (wantsOpen => wish = "open")
    BY DEF EDeckWishes, EDeck!None
  <2>2. v = IF wantsOpen \/ claims \/ u.desired # EDeck!None
            THEN [u EXCEPT !.desired = wish, !.order = order] ELSE u
    OBVIOUS
  <2> HIDE DEF v, wish, order
  <2> QED
    BY <1>5, <2>1, <2>2 DEF EDeckSlots
<1> HIDE DEF v
<1>8. CASE claims /\ ~wantsOpen
  <2> DEFINE x == [v EXCEPT !.commanded = EDeck!None]
  <2>1. x \in EDeckSlots /\ x.desired = v.desired /\ x.commanded = EDeck!None
    BY <1>7 DEF EDeckSlots, EDeckWishes
  <2> HIDE DEF x
  <2>2. EDeck!SetDesired(s, closeAll) = x
    BY <1>1, <1>8 DEF x
  <2> QED
    BY <1>8, <2>1, <2>2 DEF SlotIsSound, wantsOpen
<1>9. CASE ~(claims /\ ~wantsOpen)
  <2>1. EDeck!SetDesired(s, closeAll) = v
    BY <1>1, <1>9
  <2>2. SlotIsSound(v)
    BY <1>2, <1>7 DEF SlotIsSound
  <2>3. ~closeAll /\ EDeck!LoaderWaits => wantsOpen
    BY DEF wantsOpen
  <2> QED
    BY <1>7, <2>1, <2>2, <2>3
<1> QED
  BY <1>8, <1>9

\* A restored deck is held open over them.
LEMMA SetMainDeckDesiredIsSound ==
  ASSUME NEW s, SlotIsSound(s), NEW closeAll \in BOOLEAN
  PROVE  /\ SlotIsSound(EDeck!SetMainDeckDesired(s, closeAll))
         /\ ~closeAll /\ EDeck!LoaderWaits => EDeck!SetMainDeckDesired(s, closeAll).desired = "open"
<1>1. EDeck!LoaderWaits => ~EDeck!HoldsTheRestoredDeckOpen(s)
  BY DEF EDeck!LoaderWaits, EDeck!HoldsTheRestoredDeckOpen
<1>2. CASE ~closeAll /\ EDeck!HoldsTheRestoredDeckOpen(s)
  BY <1>1, <1>2 DEF EDeck!SetMainDeckDesired
<1>3. CASE ~(~closeAll /\ EDeck!HoldsTheRestoredDeckOpen(s))
  <2> DEFINE x == IF closeAll THEN s ELSE [s EXCEPT !.restoredOpen = FALSE]
  <2>1. EDeck!SetMainDeckDesired(s, closeAll) = EDeck!SetDesired(x, closeAll)
    BY <1>3 DEF EDeck!SetMainDeckDesired
  <2>2. SlotIsSound(x)
    BY DEF SlotIsSound, EDeckSlots
  <2> QED
    BY <2>1, <2>2, SetDesiredIsSound
<1> QED
  BY <1>2, <1>3

\* The slot ages, with what it wants as it is.
LEMMA AgedIsSound ==
  ASSUME EDeckConstants, NEW s, SlotIsSound(s)
  PROVE  SlotIsSound(EDeck!AgeTransit(s)) /\ EDeck!AgeTransit(s).desired = s.desired
<1> DEFINE n == IF s.transit = EDeck!Idle \/ EDeck!Position = s.commanded \/ s.transit + 1 > BoundTicks
                THEN EDeck!Idle ELSE s.transit + 1
<1>1. EDeck!AgeTransit(s) = [s EXCEPT !.transit = n]
  BY DEF EDeck!AgeTransit
<1>2. s.transit \in EDeck!Idle .. BoundTicks
  BY DEF SlotIsSound, EDeckSlots
<1>3. n \in EDeck!Idle .. BoundTicks
  BY <1>2 DEF EDeckConstants, EDeck!Idle
<1> HIDE DEF n
<1> QED
  BY <1>1, <1>3 DEF SlotIsSound, EDeckSlots

\* A request is of what is wanted.
LEMMA ReconcileIsSound ==
  ASSUME EDeckConstants, NEW s, SlotIsSound(s)
  PROVE  /\ SlotIsSound(EDeck!ReconcileSlot(s).slot)
         /\ EDeck!ReconcileSlot(s).request \in {EDeck!None, s.desired}
<1> DEFINE aged == EDeck!AgeTransit(s)
           new == [aged EXCEPT !.commanded = aged.desired, !.order = "follow", !.since = 0,
                               !.attempts = 0]
<1>1. s \in EDeckSlots /\ SlotIsSound(aged) /\ aged \in EDeckSlots /\ aged.desired = s.desired
  BY AgedIsSound DEF SlotIsSound
<1> HIDE DEF aged
<1>2. 0 \in 0 .. ReaffirmTicks /\ 0 \in 0 .. MaxReaffirms /\ 0 \in EDeck!Idle .. BoundTicks
  BY DEF EDeckConstants, EDeck!Idle
<1>3. aged.since \in 0 .. ReaffirmTicks /\ aged.attempts \in 0 .. MaxReaffirms /\ aged.desired \in EDeckWishes
  BY <1>1 DEF EDeckSlots
<1>4. new \in EDeckSlots /\ new.desired = s.desired /\ new.commanded = s.desired
  BY <1>1, <1>2, <1>3 DEF EDeckSlots
<1> HIDE DEF new
<1>5. CASE s.desired = EDeck!None
  <2>1. EDeck!ReconcileSlot(s) = [slot |-> s, request |-> EDeck!None]
    BY <1>5 DEF EDeck!ReconcileSlot, EDeck!Left
  <2> QED BY <1>5, <2>1
<1>6. CASE s.desired # EDeck!None
  <2>1. \/ EDeck!ReconcileSlot(s) = EDeck!RequestTheNewTarget(aged)
        \/ EDeck!ReconcileSlot(s) = EDeck!Left([aged EXCEPT !.attempts = 0])
        \/ EDeck!ReconcileSlot(s) = EDeck!Reaffirm(aged)
    BY <1>6 DEF EDeck!ReconcileSlot, aged
  <2>2. CASE EDeck!ReconcileSlot(s) = EDeck!RequestTheNewTarget(aged)
    <3>1. EDeck!RequestTheNewTarget(aged) \in {EDeck!Left(aged), EDeck!Left(new), EDeck!Requested([new EXCEPT !.transit = 0])}
      BY DEF EDeck!RequestTheNewTarget, new
    <3> DEFINE begun == [new EXCEPT !.transit = 0]
    <3>2. begun \in EDeckSlots /\ begun.desired = s.desired
      BY <1>2, <1>4 DEF EDeckSlots
    <3> HIDE DEF begun
    <3>3. EDeck!RequestTheNewTarget(aged) \in {[slot |-> aged, request |-> EDeck!None], [slot |-> new, request |-> EDeck!None],
                                               [slot |-> begun, request |-> s.desired]}
      BY <3>1, <3>2 DEF EDeck!Left, EDeck!Requested, begun
    <3> QED
      BY <1>1, <1>4, <1>6, <2>2, <3>2, <3>3 DEF SlotIsSound
  <2>3. CASE EDeck!ReconcileSlot(s) = EDeck!Left([aged EXCEPT !.attempts = 0])
    <3> DEFINE x == [aged EXCEPT !.attempts = 0]
    <3>1. x \in EDeckSlots /\ x.desired = s.desired
      BY <1>1, <1>2 DEF EDeckSlots
    <3> HIDE DEF x
    <3>2. EDeck!ReconcileSlot(s) = [slot |-> x, request |-> EDeck!None]
      BY <2>3 DEF EDeck!Left, x
    <3> QED
      BY <1>6, <3>1, <3>2 DEF SlotIsSound
  <2>4. CASE EDeck!ReconcileSlot(s) = EDeck!Reaffirm(aged)
    <3> DEFINE again == [aged EXCEPT !.since = 0, !.attempts = aged.attempts + 1]
               n == IF aged.since < ReaffirmTicks THEN aged.since + 1 ELSE aged.since
               later == [aged EXCEPT !.since = n]
    <3>1. n \in 0 .. ReaffirmTicks
      BY <1>3 DEF EDeckConstants
    <3>2. aged.attempts < MaxReaffirms => aged.attempts + 1 \in 0 .. MaxReaffirms
      BY <1>3 DEF EDeckConstants
    <3>3. \/ EDeck!Reaffirm(aged) = EDeck!Requested(again) /\ aged.attempts < MaxReaffirms
          \/ EDeck!Reaffirm(aged) = EDeck!Left(later)
      BY DEF EDeck!Reaffirm
    <3> HIDE DEF n
    <3>4. later \in EDeckSlots /\ later.desired = s.desired
      BY <1>1, <3>1 DEF EDeckSlots
    <3>5. aged.attempts < MaxReaffirms => again \in EDeckSlots /\ again.desired = s.desired
      BY <1>1, <1>2, <3>2 DEF EDeckSlots
    <3> HIDE DEF again, later
    <3>6. \/ EDeck!ReconcileSlot(s) = [slot |-> again, request |-> s.desired] /\ aged.attempts < MaxReaffirms
          \/ EDeck!ReconcileSlot(s) = [slot |-> later, request |-> EDeck!None]
      BY <2>4, <3>3, <3>5 DEF EDeck!Left, EDeck!Requested
    <3> QED
      BY <1>6, <3>4, <3>5, <3>6 DEF SlotIsSound
  <2> QED
    BY <2>1, <2>2, <2>3, <2>4
<1> QED
  BY <1>5, <1>6

\* A deck that moves on strikes nobody.
LEMMA MovedIsSound ==
  ASSUME NEW d, DeckIsSound(d)
  PROVE  DeckIsSound(EDeck!Moved(d))
  BY DEF DeckIsSound, EDeck!Moved, EDecks, EDeck!OpenEnd

\* A tick closes no deck on the loader that waits at it.
LEMMA ActKeepsTheDeck ==
  ASSUME EDeckConstants, EDeckInv, EDeck!Act
  PROVE  EDeckInv'
<1> DEFINE begged == [slot EXCEPT !.closeAll = FALSE]
           wished == EDeck!SetMainDeckDesired(begged, slot.closeAll)
           done == EDeck!Acted
<1>1. slot \in EDeckSlots /\ slot.closeAll \in BOOLEAN /\ eDeck \in EDecks /\ ~eDeck.shut
  BY DEF EDeckInv, SlotIsSound, DeckIsSound, EDeckSlots
<1>2. SlotIsSound(begged)
  BY DEF EDeckInv, SlotIsSound, EDeckSlots
<1> HIDE DEF begged
<1>3. SlotIsSound(wished) /\ (~slot.closeAll /\ EDeck!LoaderWaits => wished.desired = "open")
  BY <1>1, <1>2, SetMainDeckDesiredIsSound
<1>4. done = EDeck!ReconcileSlot(wished)
  BY DEF EDeck!Acted, begged
<1> HIDE DEF wished
<1>5. SlotIsSound(done.slot) /\ done.request \in {EDeck!None, wished.desired} /\ wished.desired \in EDeckWishes
  BY <1>3, <1>4, ReconcileIsSound DEF SlotIsSound, EDeckSlots
<1> HIDE DEF done
<1>6. slot' = done.slot
  BY DEF EDeck!Act, done
<1> DEFINE shuts == eDeck.shut \/ (done.request = "closed" /\ EDeck!Sees("loader") /\ EDeck!LoaderWaits /\ ~slot.closeAll)
           goes == [eDeck EXCEPT !.goal = done.request, !.shut = shuts]
           fails == [eDeck EXCEPT !.faults = eDeck.faults + 1]
<1>7. \/ eDeck' = EDeck!Moved(eDeck)
      \/ done.request # EDeck!None /\ eDeck' = EDeck!Moved(goes)
      \/ eDeck' = EDeck!Moved(fails)
  BY DEF EDeck!Act, done
<1>8. shuts = FALSE
  BY <1>1, <1>3, <1>5 DEF EDeck!None
<1> HIDE DEF shuts
<1>9. done.request # EDeck!None => DeckIsSound(goes)
  <2>1. done.request # EDeck!None => done.request \in {"open", "closed"}
    BY <1>5 DEF EDeckWishes
  <2> QED BY <1>1, <1>8, <2>1 DEF DeckIsSound, EDecks
<1>10. DeckIsSound(fails)
  BY <1>1 DEF DeckIsSound, EDecks
<1>11. DeckIsSound(eDeck')
  <2> HIDE DEF goes, fails
  <2>1. DeckIsSound(EDeck!Moved(eDeck)) /\ DeckIsSound(EDeck!Moved(fails))
    BY <1>10, MovedIsSound DEF EDeckInv
  <2>2. done.request # EDeck!None => DeckIsSound(EDeck!Moved(goes))
    BY <1>9, MovedIsSound
  <2>3. CASE eDeck' = EDeck!Moved(eDeck)
    BY <2>1, <2>3
  <2>4. CASE done.request # EDeck!None /\ eDeck' = EDeck!Moved(goes)
    BY <2>2, <2>4
  <2>5. CASE eDeck' = EDeck!Moved(fails)
    BY <2>1, <2>5
  <2> QED BY <1>7, <2>3, <2>4, <2>5
<1> QED
  BY <1>5, <1>6, <1>11 DEF EDeckInv, SlotIsSound, DeckIsSound

(***************************************************************************)
(* No deck of the E-Jets is closed on the loader that is read at it, but   *)
(* for the client's own wish for all doors closed (FssEJetDeck, with its   *)
(* reaffirmed requests).                                                   *)
(***************************************************************************)
THEOREM EDeckHolds ==
  ASSUME EDeckConstants
  PROVE  EDeck!Spec => [](EDeck!TypeOK /\ EDeck!DeckIsNotClosedOnItsLoader)
<1>0. 0 \in 0 .. ReaffirmTicks /\ 0 \in 0 .. MaxReaffirms /\ EDeck!Idle \in EDeck!Idle .. BoundTicks
      /\ MaxReaffirms \in 0 .. MaxReaffirms
  BY DEF EDeckConstants, EDeck!Idle
<1>1. SlotIsSound(EDeck!NewSlot)
  BY <1>0 DEF EDeck!NewSlot, SlotIsSound, EDeckSlots, EDeckWishes
<1>2. EDeck!Init => EDeckInv
  BY <1>1 DEF EDeck!Init, EDeckInv, DeckIsSound, EDecks
<1>3. EDeckInv /\ [EDeck!Next]_(EDeck!deckVars) => EDeckInv'
  <2> SUFFICES ASSUME EDeckInv, [EDeck!Next]_(EDeck!deckVars) PROVE EDeckInv'
    OBVIOUS
  <2>1. slot \in EDeckSlots /\ eDeck \in EDecks /\ ~eDeck.shut /\ (slot.desired = EDeck!None => slot.commanded = EDeck!None)
    BY DEF EDeckInv, SlotIsSound, DeckIsSound
  <2>2. slot.desired \in EDeckWishes
    BY <2>1 DEF EDeckSlots
  <2>3. CASE EDeck!Act
    BY <2>3, ActKeepsTheDeck
  <2>4. CASE EDeck!Receives
    BY <2>1, <2>4 DEF EDeck!Receives, EDeckInv, SlotIsSound, DeckIsSound, EDecks
  <2>5. CASE EDeck!CloseAllDoors
    BY <2>1, <2>5 DEF EDeck!CloseAllDoors, EDeckInv, SlotIsSound, DeckIsSound, EDeckSlots
  <2>6. CASE EDeck!HoldDoorsClosed
    BY <2>1, <2>6 DEF EDeck!HoldDoorsClosed, EDeckInv, SlotIsSound, DeckIsSound, EDeckSlots
  <2>7. CASE EDeck!ClientEnds
    <3>1. slot' = [EDeck!NewSlot EXCEPT !.desired = slot.desired]
          /\ eDeck' = [eDeck EXCEPT !.up = FALSE, !.received = {}, !.faults = eDeck.faults + 1,
                                    !.relaunched = TRUE]
      BY <2>7 DEF EDeck!ClientEnds
    <3>2. EDeck!NewSlot.commanded = EDeck!None /\ EDeck!NewSlot \in EDeckSlots
      BY <1>1 DEF EDeck!NewSlot, SlotIsSound
    <3>3. SlotIsSound(slot')
      BY <2>2, <3>1, <3>2 DEF SlotIsSound, EDeckSlots
    <3> DEFINE n == eDeck.faults + 1
    <3>4. n \in Nat
      BY <2>1 DEF EDecks
    <3>5. eDeck' = [eDeck EXCEPT !.up = FALSE, !.received = {}, !.faults = n, !.relaunched = TRUE]
      BY <3>1
    <3> HIDE DEF n
    <3>6. eDeck' \in EDecks /\ ~eDeck'.shut
      BY <2>1, <3>4, <3>5 DEF EDecks
    <3> QED
      BY <3>3, <3>6 DEF EDeckInv, SlotIsSound, DeckIsSound
  <2>8. CASE EDeck!OnTurnaroundResumed
    <3> DEFINE attempts == IF slot.desired = EDeck!None THEN 0 ELSE MaxReaffirms
               restored == slot.desired = "open"
    <3>1. slot' = [EDeck!NewSlot EXCEPT !.desired = slot.desired, !.commanded = slot.desired,
                                   !.attempts = attempts, !.restoredOpen = restored, !.reclaims = TRUE]
          /\ eDeck' = [eDeck EXCEPT !.up = TRUE]
      BY <2>8 DEF EDeck!OnTurnaroundResumed
    <3>2. attempts \in 0 .. MaxReaffirms /\ restored \in BOOLEAN /\ EDeck!NewSlot \in EDeckSlots
      BY <1>0, <1>1 DEF SlotIsSound
    <3> HIDE DEF attempts, restored
    <3>3. SlotIsSound(slot')
      BY <2>2, <3>1, <3>2 DEF SlotIsSound, EDeckSlots
    <3>4. DeckIsSound(eDeck')
      BY <2>1, <3>1 DEF DeckIsSound, EDecks
    <3> QED
      BY <3>3, <3>4 DEF EDeckInv, SlotIsSound, DeckIsSound
  <2>9. CASE EDeck!MovesOn
    <3>1. DeckIsSound(eDeck')
      BY <2>9, MovedIsSound DEF EDeck!MovesOn, EDeckInv
    <3> QED
      BY <2>9, <3>1 DEF EDeck!MovesOn, EDeckInv, SlotIsSound, DeckIsSound
  <2>10. CASE EDeck!LoaderComes \/ EDeck!LoaderServes \/ EDeck!LoaderLeaves \/ UNCHANGED EDeck!deckVars
    BY <2>10 DEF EDeck!LoaderComes, EDeck!LoaderServes, EDeck!LoaderLeaves, EDeck!deckVars,
       EDeckInv, SlotIsSound, DeckIsSound
  <2> QED
    BY <2>3, <2>4, <2>5, <2>6, <2>7, <2>8, <2>9, <2>10 DEF EDeck!Next
<1>4. EDeckInv => EDeck!TypeOK /\ EDeck!DeckIsNotClosedOnItsLoader
  BY DEF EDeckInv, SlotIsSound, DeckIsSound, EDeckSlots, EDecks, EDeck!TypeOK, EDeck!OpenEnd,
     EDeck!DeckIsNotClosedOnItsLoader
<1> QED
  BY <1>2, <1>3, <1>4, PTL DEF EDeck!Spec

-----------------------------------------------------------------------------
(***************************************************************************)
(* The airstair of the Avro RJ.                                            *)
(* The door is open only where the rule wants it open, so it closes by a   *)
(* tick of the rule that reads the stair as stowed.                        *)
(***************************************************************************)
StairRules ==
  [phase : {"stowed", "arming", "extended", "unarming"}, requested : BOOLEAN,
   awaitsTheJetway : BOOLEAN, stowed : BOOLEAN, settled : BOOLEAN, still : {0, 1, 2},
   target : {Airstair!None, "open", "closed"}, restoredOpen : BOOLEAN]
Planes ==
  [stair : 0 .. Travel, switch : {"extended", "retracted"}, changed : BOOLEAN, pressure : BOOLEAN,
   door : {"open", "closed"}, received : SUBSET Airstair!Inputs, up : BOOLEAN]
Stands ==
  [jetway : {Airstair!None, "free", "docked"}, stairs : {"away", "near", "arriving"}, couatl : BOOLEAN,
   need : BOOLEAN, called : BOOLEAN, hold : {Airstair!None, "held", "over"}, faults : Nat]
AirstairConstants == Travel \in Nat \ {0} /\ MaxFaults \in Nat

AirstairTypes == airstair \in StairRules /\ plane \in Planes /\ stand \in Stands
AirstairInv == AirstairTypes /\ (plane.door = "open" => airstair.target = "open")

DoorLeavesTheStair ==
  /\ plane.door = "open" /\ plane'.door = "closed" => plane.stair = 0
  /\ airstair'.settled /\ ~airstair.settled => plane.stair = Travel

\* The door's rule turns its target, and closes the door on a stowed stair only.
LEMMA DooredIsTyped ==
  ASSUME AirstairTypes
  PROVE  /\ Airstair!Doored \in StairRules /\ Airstair!Doored.settled = airstair.settled
         /\ \/ Airstair!Doored.target = airstair.target
            \/ Airstair!Doored.target = "open"
            \/ Airstair!Doored.target = "closed" /\ plane.stair = 0
<1> DEFINE a == Airstair!ResolveTheResumedAirstairRequest(airstair)
           available == ~Airstair!IsJetwayAvailable
<1>1. airstair \in StairRules /\ available \in BOOLEAN
  BY DEF AirstairTypes, Airstair!IsJetwayAvailable
<1>2. a = airstair \/ a = [airstair EXCEPT !.requested = available, !.awaitsTheJetway = FALSE]
  BY DEF Airstair!ResolveTheResumedAirstairRequest
<1> HIDE DEF a, available
<1>3. a \in StairRules /\ a.target = airstair.target /\ a.settled = airstair.settled
  BY <1>1, <1>2 DEF StairRules
<1>4. Airstair!Doored = Airstair!DriveFrontDoor(a)
  BY DEF Airstair!Doored, a
<1>5. \/ Airstair!Doored = a
      \/ Airstair!Doored = [a EXCEPT !.target = "open"]
      \/ Airstair!Doored = [a EXCEPT !.target = "closed"] /\ plane.stair = 0
  BY <1>4 DEF Airstair!DriveFrontDoor, Airstair!MayClose
<1> QED
  BY <1>3, <1>5 DEF StairRules

\* The stair's rule settles on a stair that is all out, and leaves the door alone.
LEMMA DrivenIsTyped ==
  ASSUME AirstairConstants, AirstairTypes, Airstair!TickInTime, NEW b \in StairRules
  PROVE  LET d == Airstair!Drive(Airstair!Request(Airstair!ObserveTravel(b))) IN
         /\ d.a \in StairRules /\ d.a.target = b.target
         /\ d.switch \in {"extended", "retracted"}
         /\ d.a.settled => plane.stair = Travel
<1> DEFINE s == IF ~Airstair!Sees("position") \/ plane.changed THEN 0
                ELSE IF b.still < Airstair!SettledHoldTicks THEN b.still + 1 ELSE b.still
           settles == b.phase = "extended" /\ Airstair!IsOutOfItsWell /\ s >= Airstair!SettledHoldTicks
           observed == Airstair!ObserveTravel(b)
           wants == observed.requested \/ (stand.need /\ Airstair!IsOwnAirstairTheWayIn)
           c == Airstair!Request(observed)
           d == Airstair!Drive(c)
<1>1. plane \in Planes /\ stand \in Stands /\ plane.stair \in 0 .. Travel
      /\ plane.switch \in {"extended", "retracted"} /\ stand.need \in BOOLEAN
  BY DEF AirstairTypes, Planes, Stands
<1>2. s \in {0, 1, 2} /\ settles \in BOOLEAN
  BY DEF StairRules, Airstair!SettledHoldTicks, Airstair!IsOutOfItsWell
<1>3. settles => plane.stair = Travel
  <2>1. settles => ~plane.changed /\ plane.stair > 0
    BY DEF Airstair!SettledHoldTicks, Airstair!IsOutOfItsWell
  <2> QED
    BY <1>1, <2>1 DEF Airstair!TickInTime, AirstairConstants
<1>4. observed = [b EXCEPT !.still = s, !.settled = settles]
  BY DEF Airstair!ObserveTravel
<1> HIDE DEF s, settles, observed
<1>5. observed \in StairRules /\ observed.target = b.target /\ observed.settled = settles
  BY <1>2, <1>4 DEF StairRules
<1>6. wants \in BOOLEAN /\ c = [observed EXCEPT !.requested = wants]
  BY <1>1, <1>5 DEF Airstair!Request, StairRules, Airstair!IsOwnAirstairTheWayIn
<1> HIDE DEF wants, c
<1>7. c \in StairRules /\ c.target = b.target /\ c.settled = settles
  BY <1>5, <1>6 DEF StairRules
<1>8. c.phase \in {"stowed", "arming", "extended", "unarming"}
  BY <1>7 DEF StairRules
<1>9. \/ d = [a |-> c, switch |-> plane.switch]
      \/ \E turn \in {"stowed", "arming", "extended", "unarming"},
            switch \in {"extended", "retracted"} :
           d = [a |-> [c EXCEPT !.phase = turn], switch |-> switch]
  <2>1. \/ d = Airstair!Left(c) \/ d = Airstair!DriveStowed(c) \/ d = Airstair!ToPhase(c, "extended", "extended")
        \/ d = Airstair!DriveExtended(c) \/ d = Airstair!ToPhase(c, "stowed", plane.switch)
    BY <1>8 DEF Airstair!Drive
  <2>2. \/ d = Airstair!Left(c) \/ d = Airstair!ToPhase(c, "extended", plane.switch)
        \/ d = Airstair!ToPhase(c, "arming", plane.switch) \/ d = Airstair!ToPhase(c, "extended", "extended")
        \/ d = Airstair!ToPhase(c, "stowed", plane.switch) \/ d = Airstair!ToPhase(c, "unarming", "retracted")
    BY <2>1 DEF Airstair!DriveStowed, Airstair!DriveExtended
  <2> HIDE DEF d
  <2> QED
    BY <1>1, <2>2 DEF Airstair!Left, Airstair!ToPhase
<1> HIDE DEF d
<1>10. d.a \in StairRules /\ d.a.target = b.target /\ d.a.settled = settles
       /\ d.switch \in {"extended", "retracted"}
  <2>1. CASE d = [a |-> c, switch |-> plane.switch]
    BY <1>1, <1>7, <2>1
  <2>2. ASSUME NEW turn \in {"stowed", "arming", "extended", "unarming"},
               NEW switch \in {"extended", "retracted"},
               d = [a |-> [c EXCEPT !.phase = turn], switch |-> switch]
        PROVE  d.a \in StairRules /\ d.a.target = b.target /\ d.a.settled = settles
               /\ d.switch \in {"extended", "retracted"}
    <3>1. [c EXCEPT !.phase = turn] \in StairRules /\ [c EXCEPT !.phase = turn].target = b.target
          /\ [c EXCEPT !.phase = turn].settled = settles
      BY <1>7 DEF StairRules
    <3> QED BY <2>2, <3>1
  <2> QED BY <1>9, <2>1, <2>2
<1> QED
  BY <1>3, <1>10 DEF d, c, observed

\* A tick closes the door on a stowed stair, and settles on one that is all out.
LEMMA ActKeepsTheStair ==
  ASSUME AirstairConstants, AirstairInv, Airstair!Act
  PROVE  AirstairInv' /\ DoorLeavesTheStair
<1> DEFINE b == Airstair!Doored
           d == Airstair!Drive(Airstair!Request(Airstair!ObserveTravel(b)))
           stows == d.a.phase = "stowed"
           stands == IF b.target # airstair.target THEN b.target ELSE plane.door
<1>1. /\ airstair' = [d.a EXCEPT !.stowed = stows]
      /\ plane' = [plane EXCEPT !.switch = d.switch, !.changed = FALSE, !.door = stands]
      /\ stand' = stand /\ Airstair!TickInTime
  BY DEF Airstair!Act
<1>2. airstair \in StairRules /\ plane \in Planes /\ stand \in Stands
  BY DEF AirstairInv, AirstairTypes
<1>3. /\ b \in StairRules
      /\ b.target = airstair.target \/ b.target = "open" \/ (b.target = "closed" /\ plane.stair = 0)
  BY DooredIsTyped DEF AirstairInv
<1> HIDE DEF b
<1>4. /\ d.a \in StairRules /\ d.a.target = b.target /\ d.switch \in {"extended", "retracted"}
      /\ d.a.settled => plane.stair = Travel
  BY <1>1, <1>3, DrivenIsTyped DEF AirstairInv
<1>5. stows \in BOOLEAN
  OBVIOUS
<1> HIDE DEF d
<1>6. /\ stands \in {"open", "closed"} /\ plane.door \in {"open", "closed"}
      /\ stands = "open" => b.target = "open"
      /\ plane.door = "open" /\ stands = "closed" => plane.stair = 0
  BY <1>2, <1>3 DEF AirstairInv, Planes, StairRules
<1> HIDE DEF stands, stows
<1>7. airstair' \in StairRules /\ airstair'.target = b.target /\ airstair'.settled = d.a.settled
  BY <1>1, <1>4, <1>5 DEF StairRules
<1>8. plane' \in Planes /\ plane'.door = stands
  BY <1>1, <1>2, <1>4, <1>6 DEF Planes
<1> QED
  BY <1>1, <1>2, <1>4, <1>6, <1>7, <1>8 DEF AirstairInv, AirstairTypes, DoorLeavesTheStair

\* The other actions, one case for each.
LEMMA OthersKeepTheStair ==
  ASSUME AirstairConstants, AirstairInv,
         \/ Airstair!Receives \/ Airstair!HoldDoorsClosed \/ Airstair!OnTurnaroundStarted \/ Airstair!ClientEnds
         \/ Airstair!OnTurnaroundResumed \/ Airstair!StairMoves \/ Airstair!PilotRechargesTheAccumulator
         \/ Airstair!PilotMovesTheSwitch \/ Airstair!NeedChanges \/ Airstair!JetwayMoves \/ Airstair!StairsMove
         \/ Airstair!StairsAreGone \/ Airstair!CouatlEnds \/ Airstair!CouatlStarts
  PROVE  AirstairInv' /\ DoorLeavesTheStair
<1>1. /\ airstair \in StairRules /\ plane \in Planes /\ stand \in Stands
      /\ plane.door = "open" => airstair.target = "open"
  BY DEF AirstairInv, AirstairTypes
<1>2. /\ stand.faults + 1 \in Nat /\ stand.need \in BOOLEAN /\ stand.called \in BOOLEAN
      /\ airstair.target \in {Airstair!None, "open", "closed"} /\ plane.pressure \in BOOLEAN
      /\ plane.stair \in 0 .. Travel /\ plane.switch \in {"extended", "retracted"}
      /\ stand.jetway \in {Airstair!None, "free", "docked"}
  BY <1>1 DEF Stands, StairRules, Planes
<1>3. ASSUME airstair' = airstair, plane' \in Planes, stand' \in Stands, plane'.door = plane.door
      PROVE  AirstairInv' /\ DoorLeavesTheStair
  BY <1>1, <1>3 DEF AirstairInv, AirstairTypes, DoorLeavesTheStair
<1>4. CASE Airstair!Receives
  <2>1. PICK what \in Airstair!Inputs : plane' = [plane EXCEPT !.received = plane.received \cup {what}]
    BY <1>4 DEF Airstair!Receives
  <2>2. plane' \in Planes /\ plane'.door = plane.door
    BY <1>1, <2>1 DEF Planes
  <2> QED BY <1>1, <1>3, <1>4, <2>2 DEF Airstair!Receives
<1>5. CASE Airstair!HoldDoorsClosed
  <2>1. \E hold \in {"held", "over"} : stand' = [stand EXCEPT !.hold = hold]
    BY <1>5 DEF Airstair!HoldDoorsClosed
  <2>2. stand' \in Stands
    BY <1>1, <2>1 DEF Stands
  <2> QED BY <1>1, <1>3, <1>5, <2>2 DEF Airstair!HoldDoorsClosed
<1>6. CASE Airstair!OnTurnaroundStarted
  <2>1. stand' \in Stands /\ plane' = plane
    BY <1>1, <1>6 DEF Airstair!OnTurnaroundStarted, Stands
  <2>2. airstair' \in StairRules /\ airstair'.target = airstair.target
        /\ airstair'.settled = airstair.settled
    BY <1>1, <1>6 DEF Airstair!OnTurnaroundStarted, StairRules
  <2> QED
    BY <1>1, <2>1, <2>2 DEF AirstairInv, AirstairTypes, DoorLeavesTheStair
<1>7. CASE Airstair!ClientEnds
  <2>1. stand' \in Stands
    BY <1>1, <1>2, <1>7 DEF Airstair!ClientEnds, Stands
  <2>2. plane' \in Planes /\ plane'.door = plane.door
    BY <1>1, <1>7 DEF Airstair!ClientEnds, Planes
  <2> QED BY <1>3, <1>7, <2>1, <2>2 DEF Airstair!ClientEnds
<1>8. CASE Airstair!OnTurnaroundResumed
  <2> DEFINE fresh == Airstair!NewAirstair(airstair.target)
  <2>1. fresh \in StairRules /\ fresh.target = airstair.target /\ ~fresh.settled
    BY <1>2 DEF Airstair!NewAirstair, StairRules
  <2>2. airstair' = [fresh EXCEPT !.awaitsTheJetway = stand.called]
    BY <1>8 DEF Airstair!OnTurnaroundResumed
  <2> HIDE DEF fresh
  <2>3. airstair' \in StairRules /\ airstair'.target = airstair.target /\ ~airstair'.settled
    BY <1>2, <2>1, <2>2 DEF StairRules
  <2>4. plane' \in Planes /\ plane'.door = plane.door /\ stand' = stand
    BY <1>1, <1>8 DEF Airstair!OnTurnaroundResumed, Planes
  <2> QED
    BY <1>1, <2>3, <2>4 DEF AirstairInv, AirstairTypes, DoorLeavesTheStair
<1>9. CASE Airstair!StairMoves
  <2> DEFINE goal == IF plane.switch = "extended" THEN Travel ELSE 0
             next == IF goal = 0 THEN plane.stair - 1 ELSE plane.stair + 1
  <2>1. plane.stair # goal /\ airstair' = airstair /\ stand' = stand
        /\ \E pressure \in {plane.pressure} \cup (IF plane.stair \in {0, Travel} THEN {FALSE} ELSE {}) :
             plane' = [plane EXCEPT !.stair = next, !.changed = TRUE, !.pressure = pressure]
    BY <1>9 DEF Airstair!StairMoves
  <2>2. next \in 0 .. Travel
    BY <1>2, <2>1 DEF AirstairConstants
  <2> HIDE DEF goal, next
  <2>3. PICK pressure \in BOOLEAN :
          plane' = [plane EXCEPT !.stair = next, !.changed = TRUE, !.pressure = pressure]
    BY <1>2, <2>1
  <2>4. plane' \in Planes /\ plane'.door = plane.door
    BY <1>1, <2>2, <2>3 DEF Planes
  <2> QED BY <1>1, <1>3, <2>1, <2>4
<1>10. CASE Airstair!PilotRechargesTheAccumulator
  <2>1. plane' \in Planes /\ plane'.door = plane.door
    BY <1>1, <1>10 DEF Airstair!PilotRechargesTheAccumulator, Planes
  <2> QED BY <1>1, <1>3, <1>10, <2>1 DEF Airstair!PilotRechargesTheAccumulator
<1>11. CASE Airstair!PilotMovesTheSwitch
  <2>1. \E switch \in {"extended", "retracted"} : plane' = [plane EXCEPT !.switch = switch]
    BY <1>11 DEF Airstair!PilotMovesTheSwitch
  <2>2. plane' \in Planes /\ plane'.door = plane.door
    BY <1>1, <2>1 DEF Planes
  <2>3. stand' \in Stands
    BY <1>1, <1>2, <1>11 DEF Airstair!PilotMovesTheSwitch, Stands
  <2> QED BY <1>3, <1>11, <2>2, <2>3 DEF Airstair!PilotMovesTheSwitch
<1>12. CASE Airstair!NeedChanges
  <2>1. stand' \in Stands
    BY <1>1, <1>2, <1>12 DEF Airstair!NeedChanges, Stands
  <2> QED BY <1>1, <1>3, <1>12, <2>1 DEF Airstair!NeedChanges
<1>13. CASE Airstair!JetwayMoves
  <2>1. \E jetway \in {"free", "docked"} : stand' = [stand EXCEPT !.jetway = jetway]
    BY <1>13 DEF Airstair!JetwayMoves
  <2>2. stand' \in Stands
    BY <1>1, <2>1 DEF Stands
  <2> QED BY <1>1, <1>3, <1>13, <2>2 DEF Airstair!JetwayMoves
<1>14. CASE Airstair!StairsMove
  <2>1. \E stairs \in {"near", "arriving"} : stand' = [stand EXCEPT !.stairs = stairs]
    BY <1>14 DEF Airstair!StairsMove
  <2>2. stand' \in Stands
    BY <1>1, <2>1 DEF Stands
  <2> QED BY <1>1, <1>3, <1>14, <2>2 DEF Airstair!StairsMove
<1>15. CASE Airstair!StairsAreGone
  <2>1. stand' \in Stands
    BY <1>1, <1>15 DEF Airstair!StairsAreGone, Stands
  <2> QED BY <1>1, <1>3, <1>15, <2>1 DEF Airstair!StairsAreGone
<1>16. CASE Airstair!CouatlEnds
  <2> DEFINE free == IF stand.jetway = "docked" THEN "free" ELSE stand.jetway
  <2>1. free \in {Airstair!None, "free", "docked"}
    BY <1>2
  <2>2. stand' = [stand EXCEPT !.couatl = FALSE, !.stairs = "away", !.jetway = free,
                               !.faults = stand.faults + 1]
    BY <1>16 DEF Airstair!CouatlEnds
  <2> HIDE DEF free
  <2>3. stand' \in Stands
    BY <1>1, <1>2, <2>1, <2>2 DEF Stands
  <2> QED BY <1>1, <1>3, <1>16, <2>3 DEF Airstair!CouatlEnds
<1>17. CASE Airstair!CouatlStarts
  <2>1. stand' \in Stands
    BY <1>1, <1>17 DEF Airstair!CouatlStarts, Stands
  <2> QED BY <1>1, <1>3, <1>17, <2>1 DEF Airstair!CouatlStarts
<1> QED
  BY <1>4, <1>5, <1>6, <1>7, <1>8, <1>9, <1>10, <1>11, <1>12, <1>13, <1>14, <1>15, <1>16, <1>17

(***************************************************************************)
(* The door is closed on a stowed airstair only, and the stair counts as   *)
(* settled when it is all out (the rules of the Avro RJ).                  *)
(***************************************************************************)
THEOREM AirstairHolds ==
  ASSUME AirstairConstants
  PROVE  Airstair!Spec => []Airstair!TypeOK /\ Airstair!DoorIsNotClosedOnTheStair
<1>1. Airstair!Init => AirstairInv
  BY DEF Airstair!Init, AirstairInv, AirstairTypes, Airstair!NewAirstair, StairRules, Planes,
     Stands, AirstairConstants
<1>2. AirstairInv /\ [Airstair!Next]_(Airstair!airstairVars) => AirstairInv' /\ [DoorLeavesTheStair]_(Airstair!airstairVars)
  <2> SUFFICES ASSUME AirstairInv, [Airstair!Next]_(Airstair!airstairVars)
               PROVE  AirstairInv' /\ [DoorLeavesTheStair]_(Airstair!airstairVars)
    OBVIOUS
  <2>1. CASE Airstair!Act
    BY <2>1, ActKeepsTheStair
  <2>2. CASE UNCHANGED Airstair!airstairVars
    BY <2>2 DEF Airstair!airstairVars, AirstairInv, AirstairTypes
  <2> QED
    BY <2>1, <2>2, OthersKeepTheStair DEF Airstair!Next
<1>3. AirstairInv => Airstair!TypeOK
  BY DEF AirstairInv, AirstairTypes, StairRules, Planes, Airstair!TypeOK, Airstair!SettledHoldTicks
<1> QED
  BY <1>1, <1>2, <1>3, PTL DEF Airstair!Spec, Airstair!DoorIsNotClosedOnTheStair, DoorLeavesTheStair

-----------------------------------------------------------------------------
(***************************************************************************)
(* The targets of the TFDi MD-11.                                          *)
(* What the EFB of the aircraft was committed, in each part of the flight: *)
(* the fuel aboard until the loading, the planned one with or without the  *)
(* load while it loads, and what is aboard in flight and on arrival.       *)
(***************************************************************************)
EfbFuels == {0, 1, 2}
EfbZfws == {0, 1}
EfbCommits == {Targets!Nothing} \cup (EfbFuels \X EfbZfws)
EfbRules == [stagedFuel : {Targets!None, 2}, stagedZfw : {Targets!None, 0, 1}, fuel : {Targets!None} \cup EfbFuels,
             zfw : {Targets!None} \cup EfbZfws, committed : EfbCommits, arriving : BOOLEAN]
Aboards == [fuel : EfbFuels, zfw : EfbZfws, ready : EfbCommits, received : SUBSET Targets!Inputs, up : BOOLEAN]
Flights == [phase : {"stand", "plan", "loading", "flight", "arrival"}, refuelFinished : BOOLEAN,
            boards : BOOLEAN, faults : Nat]
TargetTypes == efb \in EfbRules /\ aboard \in Aboards /\ flight \in Flights

\* What was committed is the targets, until the departure's fuel is forgotten.
CommitsAreTargets ==
  /\ aboard.ready # Targets!Nothing => aboard.ready = efb.committed
  /\ efb.committed = Targets!Nothing => efb.fuel = Targets!None
  /\ efb.committed # Targets!Nothing /\ efb.fuel # Targets!None => efb.committed = <<efb.fuel, efb.zfw>>
  /\ efb.arriving => flight.phase = "arrival"

BeforeTheLoading ==
  /\ flight.phase \in {"stand", "plan"} =>
       /\ ~flight.boards /\ ~flight.refuelFinished
       /\ efb.stagedFuel = Targets!None /\ aboard.zfw = 0
  /\ flight.phase = "stand" =>
       efb.stagedZfw = Targets!None /\ efb.fuel = Targets!None /\ efb.committed = Targets!Nothing
  /\ flight.phase = "plan" =>
       /\ efb.stagedZfw = 0 /\ efb.fuel \in {Targets!None, aboard.fuel}
       /\ aboard.ready # Targets!Nothing => aboard.ready = <<aboard.fuel, 0>>

WhileLoading ==
  flight.phase = "loading" =>
    /\ efb.stagedZfw = IF flight.boards THEN 1 ELSE 0
    /\ ~flight.boards =>
         aboard.zfw = 0 /\ (aboard.ready # Targets!Nothing => aboard.ready[2] = 0)
    /\ efb.stagedFuel = 2 \/ (flight.refuelFinished /\ efb.fuel \in {Targets!None, 2})
    /\ flight.refuelFinished => aboard.fuel = 2
    /\ aboard.ready # Targets!Nothing => aboard.ready[1] = 2

WithTheLoadAboard ==
  flight.phase \in {"loading", "flight"} /\ flight.boards /\ aboard.zfw = 1 =>
    efb.committed = Targets!Nothing \/ efb.committed[2] = 1

InFlight ==
  flight.phase = "flight" =>
    /\ flight.refuelFinished /\ flight.boards /\ efb.stagedZfw = 1 /\ aboard.zfw = 1
    /\ aboard.ready # Targets!Nothing => aboard.ready = <<aboard.fuel, 1>>
    /\ aboard.up /\ efb.stagedFuel = 2 => aboard.fuel = 2 \/ efb.committed = <<2, 1>>

OnArrival ==
  flight.phase = "arrival" =>
    /\ efb.stagedZfw # Targets!None
    /\ aboard.fuel \in {0, 1} /\ (aboard.ready # Targets!Nothing => aboard.ready[1] \in {0, 1})
    /\ efb.arriving => efb.fuel \in {Targets!None, 0, 1}

TargetInv ==
  /\ TargetTypes /\ CommitsAreTargets
  /\ BeforeTheLoading /\ WhileLoading /\ WithTheLoadAboard /\ InFlight /\ OnArrival

NotDisturbed ==
  aboard'.ready # aboard.ready /\ aboard'.ready # Targets!Nothing =>
       /\ "emptyWeight" \in aboard.received
       /\ (Targets!IsArrival => aboard'.ready[1] <= Targets!Landed)
       /\ (~Targets!IsArrival => aboard'.ready[1] \in {aboard.fuel, Targets!Planned})
       /\ (flight.phase = "flight" => aboard'.ready = <<aboard.fuel, aboard.zfw>>)

TargetNumbersOf == Targets!Planned = 2 /\ Targets!Landed = 1 /\ Targets!Burnt = 0 /\ Targets!EmptyZfw = 0 /\ Targets!LoadedZfw = 1 /\ Targets!None = -1
LEMMA TargetNumbers == TargetNumbersOf
BY DEF TargetNumbersOf, Targets!Planned, Targets!Landed, Targets!Burnt, Targets!EmptyZfw,
   Targets!LoadedZfw, Targets!None

\* An EFB of which the last tick left these, and what it was asked as it was.
LeftWith(fuel, zfw, commit) ==
  /\ efb' \in EfbRules /\ efb'.fuel = fuel /\ efb'.zfw = zfw /\ efb'.committed = commit
  /\ efb'.arriving = Targets!IsArrival
  /\ efb'.stagedFuel = efb.stagedFuel /\ efb'.stagedZfw = efb.stagedZfw

\* What a tick leaves: the rule's other targets, and perhaps a commit of both.
LEMMA TickLeaves ==
  ASSUME TargetInv, Targets!Act
  PROVE  \E fuel \in {Targets!None} \cup EfbFuels, zfw \in {Targets!None} \cup EfbZfws :
           /\ Targets!IsArrival => fuel \in {Targets!None, 0, 1}
           /\ \/ /\ LeftWith(fuel, zfw, efb.committed)
                 /\ aboard' = aboard
                 /\ efb.committed = Targets!Nothing => fuel = Targets!None
                 /\ efb.committed # Targets!Nothing /\ fuel # Targets!None => efb.committed = <<fuel, zfw>>
                 /\ flight.phase = "stand" => fuel = Targets!None
                 /\ flight.phase = "plan" => fuel \in {Targets!None, aboard.fuel}
                 /\ flight.phase = "loading" => efb.stagedFuel = 2 \/ fuel \in {Targets!None, 2}
              \/ /\ LeftWith(fuel, zfw, <<fuel, zfw>>)
                 /\ aboard' = [aboard EXCEPT !.ready = <<fuel, zfw>>]
                 /\ fuel # Targets!None /\ zfw = efb.stagedZfw /\ zfw # Targets!None
                 /\ "emptyWeight" \in aboard.received
                 /\ flight.phase = "plan" => fuel = aboard.fuel
                 /\ flight.phase = "loading" => fuel = 2
                 /\ flight.phase = "flight" => fuel = aboard.fuel
                 /\ flight.phase = "flight" /\ efb.stagedFuel = 2 => fuel = 2
<1> DEFINE e0 == Targets!ForgetTheDepartureFuelOnArrival(efb)
           fuel0 == IF Targets!IsArrival /\ ~efb.arriving THEN Targets!None ELSE efb.fuel
           fuel1 == IF Targets!StagedFuel(e0) # Targets!None THEN Targets!StagedFuel(e0)
                    ELSE IF fuel0 = Targets!None /\ Targets!Sees("fuel") THEN aboard.fuel ELSE fuel0
           zfw1 == efb.stagedZfw
           e1 == Targets!ResolveTargets(e0)
<1>1. efb \in EfbRules /\ aboard \in Aboards /\ flight \in Flights
  BY DEF TargetInv, TargetTypes
<1>2. Targets!IsArrival \in BOOLEAN /\ fuel0 \in {Targets!None} \cup EfbFuels
  BY <1>1 DEF EfbRules, Targets!IsArrival
<1> HIDE DEF fuel0
<1>3. e0 = [efb EXCEPT !.fuel = fuel0, !.arriving = Targets!IsArrival]
  BY DEF Targets!ForgetTheDepartureFuelOnArrival, fuel0
<1>4. e0 \in EfbRules /\ e0.fuel = fuel0 /\ e0.arriving = Targets!IsArrival /\ e0.zfw = efb.zfw
      /\ e0.stagedFuel = efb.stagedFuel /\ e0.stagedZfw = efb.stagedZfw
      /\ e0.committed = efb.committed
  <2> HIDE DEF e0
  <2> QED BY <1>1, <1>2, <1>3 DEF EfbRules
<1>5. Targets!StagedFuel(e0) = IF Targets!IsArrival THEN Targets!None ELSE efb.stagedFuel
  BY <1>4 DEF Targets!StagedFuel
<1>6. efb' = Targets!Acted(e0).e /\ aboard' = [aboard EXCEPT !.ready = Targets!Acted(e0).ready]
  BY DEF Targets!Act
<1>7. /\ Targets!IsArrival => fuel0 \in {Targets!None, 0, 1}
      /\ fuel0 \in {Targets!None, efb.fuel}
      /\ ~Targets!IsArrival => fuel0 = efb.fuel
  BY <1>1 DEF fuel0, TargetInv, OnArrival, CommitsAreTargets, Targets!IsArrival, EfbRules
<1>8. flight.phase \in {"stand", "plan", "loading", "flight", "arrival"}
      /\ (Targets!IsArrival <=> flight.phase = "arrival") /\ efb.committed \in EfbCommits
  BY <1>1 DEF Flights, Targets!IsArrival, EfbRules
<1>9. /\ efb.committed = Targets!Nothing => efb.fuel = Targets!None
      /\ efb.committed # Targets!Nothing /\ efb.fuel # Targets!None => efb.committed = <<efb.fuel, efb.zfw>>
      /\ flight.phase = "stand" => efb.fuel = Targets!None /\ efb.stagedFuel = Targets!None /\ efb.stagedZfw = Targets!None
      /\ flight.phase = "plan" => efb.fuel \in {Targets!None, aboard.fuel} /\ efb.stagedFuel = Targets!None
      /\ flight.phase = "loading" =>
           efb.stagedFuel = 2 \/ (efb.stagedFuel # 2 /\ aboard.fuel = 2 /\ efb.fuel \in {Targets!None, 2})
      /\ flight.phase # "stand" => efb.stagedZfw # Targets!None
  BY <1>8, TargetNumbers DEF TargetInv, CommitsAreTargets, BeforeTheLoading, WhileLoading, InFlight,
     OnArrival, TargetNumbersOf
<1>10. efb.zfw \in {Targets!None} \cup EfbZfws /\ efb.stagedZfw \in {Targets!None} \cup EfbZfws /\ efb.stagedFuel \in {Targets!None, 2}
       /\ aboard.fuel \in EfbFuels
  BY <1>1 DEF EfbRules, Aboards, EfbZfws
<1>11. CASE ~Targets!HasSomethingToCommit(e0)
  <2>1. Targets!Acted(e0) = [e |-> e0, ready |-> aboard.ready]
    BY <1>11 DEF Targets!Acted
  <2>2. LeftWith(fuel0, efb.zfw, efb.committed)
    <3>1. efb' = e0
      BY <1>6, <2>1
    <3> HIDE DEF e0
    <3> QED BY <1>4, <3>1 DEF LeftWith
  <2>3. aboard' = aboard
    BY <1>1, <1>6, <2>1 DEF Aboards
  <2> HIDE DEF e0
  <2> QED
    BY <1>2, <1>7, <1>8, <1>9, <1>10, <2>2, <2>3
<1>12. CASE Targets!HasSomethingToCommit(e0)
  <2>1. Targets!Acted(e0) = Targets!CommitTargets(e1)
    BY <1>12 DEF Targets!Acted
  <2>2. flight.phase # "stand" /\ "emptyWeight" \in aboard.received
    BY <1>4, <1>5, <1>9, <1>12 DEF Targets!HasSomethingToCommit, Targets!Sees
  <2>3. fuel1 \in {Targets!None} \cup EfbFuels /\ zfw1 \in EfbZfws /\ zfw1 # Targets!None
    BY <1>2, <1>5, <1>9, <1>10, <2>2 DEF EfbFuels
  <2>4. Targets!SeedFuel(e0) = [efb EXCEPT !.fuel = fuel1, !.arriving = Targets!IsArrival]
    <3>1. Targets!StagedFuel(e0) # Targets!None \/ (fuel0 = Targets!None /\ Targets!Sees("fuel")) \/ fuel1 = fuel0
      OBVIOUS
    <3> HIDE DEF e0
    <3>2. [e0 EXCEPT !.fuel = fuel1] = [efb EXCEPT !.fuel = fuel1, !.arriving = Targets!IsArrival]
      BY <1>1, <1>2, <1>3, <2>3 DEF EfbRules
    <3>3. Targets!SeedFuel(e0) = [e0 EXCEPT !.fuel = fuel1]
      BY <1>4 DEF Targets!SeedFuel, EfbRules
    <3> QED BY <3>2, <3>3
  <2> HIDE DEF e0, fuel1
  <2>5. e1 = [efb EXCEPT !.fuel = fuel1, !.zfw = zfw1, !.arriving = Targets!IsArrival]
    <3>1. Targets!SeedFuel(e0).stagedZfw = zfw1
      BY <1>1, <2>4 DEF EfbRules
    <3> QED
      BY <1>1, <2>3, <2>4, <3>1 DEF Targets!ResolveTargets, Targets!SeedZfw, EfbRules
  <2>6. e1.fuel = fuel1 /\ e1.zfw = zfw1 /\ e1.committed = efb.committed
    BY <1>1, <2>5 DEF EfbRules
  <2>7. /\ Targets!IsArrival => fuel1 \in {Targets!None, 0, 1}
        /\ flight.phase = "plan" => fuel1 \in {Targets!None, aboard.fuel}
        /\ flight.phase = "loading" => fuel1 \in {Targets!None, 2}
    <3>1. Targets!IsArrival => aboard.fuel \in {0, 1}
      BY <1>8 DEF TargetInv, OnArrival
    <3>2. Targets!IsArrival => fuel1 \in {fuel0, aboard.fuel}
      BY <1>5 DEF fuel1
    <3>3. ~Targets!IsArrival => Targets!StagedFuel(e0) = efb.stagedFuel /\ fuel0 = efb.fuel
      BY <1>5, <1>7
    <3>4. ~Targets!IsArrival /\ efb.stagedFuel = Targets!None => fuel1 \in {efb.fuel, aboard.fuel}
      BY <3>3 DEF fuel1
    <3>5. ~Targets!IsArrival /\ efb.stagedFuel # Targets!None => fuel1 = efb.stagedFuel
      BY <3>3 DEF fuel1
    <3> HIDE DEF fuel1
    <3>6. flight.phase = "plan" => fuel1 \in {Targets!None, aboard.fuel}
      BY <1>8, <1>9, <3>4
    <3>7. flight.phase = "loading" => fuel1 \in {Targets!None, 2}
      <4>1. flight.phase = "loading" => efb.stagedFuel = 2 \/ (efb.stagedFuel = Targets!None /\ aboard.fuel = 2)
        BY <1>9, <1>10
      <4> QED
        BY <1>8, <1>9, <4>1, <3>4, <3>5, TargetNumbers DEF TargetNumbersOf
    <3> QED
      BY <1>7, <3>1, <3>2, <3>6, <3>7
  <2>8. /\ flight.phase # "arrival" /\ flight.phase # "flight" => Targets!IsArrival = FALSE
        /\ <<fuel1, zfw1>> = Targets!Nothing => fuel1 = Targets!None
    BY <1>8 DEF Targets!Nothing, Targets!IsArrival
  <2>9. CASE fuel1 = Targets!None \/ efb.committed = <<fuel1, zfw1>>
    <3>1. Targets!CommitTargets(e1) = [e |-> e1, ready |-> aboard.ready]
      BY <2>6, <2>9 DEF Targets!CommitTargets, Targets!MustCommit
    <3>2. LeftWith(fuel1, zfw1, efb.committed)
      <4>1. efb' = [efb EXCEPT !.fuel = fuel1, !.zfw = zfw1, !.arriving = Targets!IsArrival]
        BY <1>6, <2>1, <2>5, <3>1
      <4> HIDE DEF e1
      <4> QED
        BY <1>1, <1>2, <1>10, <2>3, <4>1 DEF LeftWith, EfbRules
    <3>3. aboard' = aboard
      BY <1>1, <1>6, <2>1, <3>1 DEF Aboards
    <3> HIDE DEF e1, zfw1
    <3> QED
      BY <1>8, <1>10, <2>2, <2>3, <2>7, <2>8, <2>9, <3>2, <3>3
  <2>10. CASE fuel1 # Targets!None /\ efb.committed # <<fuel1, zfw1>>
    <3>1. Targets!CommitTargets(e1) = [e |-> [e1 EXCEPT !.committed = <<fuel1, zfw1>>],
                                       ready |-> <<fuel1, zfw1>>]
      BY <2>3, <2>6, <2>10 DEF Targets!CommitTargets, Targets!MustCommit
    <3>2. efb' = [e1 EXCEPT !.committed = <<fuel1, zfw1>>]
          /\ aboard' = [aboard EXCEPT !.ready = <<fuel1, zfw1>>]
      BY <1>6, <2>1, <3>1
    <3>3. LeftWith(fuel1, zfw1, <<fuel1, zfw1>>)
      <4>1. efb' = [efb EXCEPT !.fuel = fuel1, !.zfw = zfw1, !.arriving = Targets!IsArrival,
                               !.committed = <<fuel1, zfw1>>]
        BY <2>5, <3>2
      <4>2. <<fuel1, zfw1>> \in EfbCommits /\ zfw1 \in {Targets!None} \cup EfbZfws
        BY <2>3, <2>10 DEF EfbCommits
      <4> HIDE DEF e1
      <4> QED
        BY <1>1, <1>2, <2>3, <4>1, <4>2 DEF LeftWith, EfbRules
    <3>4. flight.phase = "flight" => fuel1 = aboard.fuel
      <4> SUFFICES ASSUME flight.phase = "flight" PROVE fuel1 = aboard.fuel
        OBVIOUS
      <4>1. zfw1 = 1 /\ aboard.zfw = 1 /\ flight.boards /\ aboard.up
        BY DEF TargetInv, InFlight, Targets!Act
      <4>2. CASE efb.stagedFuel = 2
        <5>1. fuel1 = 2
          BY <1>5, <1>8, <4>2, TargetNumbers DEF fuel1, TargetNumbersOf
        <5>2. aboard.fuel = 2 \/ efb.committed = <<2, 1>>
          BY <4>1, <4>2 DEF TargetInv, InFlight
        <5> QED
          BY <2>10, <4>1, <5>1, <5>2
      <4>3. CASE efb.stagedFuel # 2
        <5>1. fuel1 = efb.fuel \/ (efb.fuel = Targets!None /\ fuel1 = aboard.fuel)
          BY <1>5, <1>7, <1>8, <1>10, <4>3 DEF fuel1
        <5>2. efb.fuel # Targets!None => efb.committed = <<efb.fuel, 1>>
          <6>1. efb.committed = Targets!Nothing \/ efb.committed[2] = 1
            BY <4>1 DEF TargetInv, WithTheLoadAboard
          <6>2. efb.fuel # Targets!None => efb.committed = <<efb.fuel, efb.zfw>> /\ efb.committed # Targets!Nothing
            BY <1>9
          <6> QED
            BY <6>1, <6>2
        <5> QED
          BY <2>10, <4>1, <5>1, <5>2
      <4> QED
        BY <4>2, <4>3
    <3>6. flight.phase = "flight" /\ efb.stagedFuel = 2 => fuel1 = 2
      BY <1>5, <1>8, TargetNumbers DEF fuel1, TargetNumbersOf
    <3> HIDE DEF e1, zfw1
    <3>5. zfw1 = efb.stagedZfw
      BY DEF zfw1
    <3> QED
      BY <1>8, <1>10, <2>2, <2>3, <2>7, <2>10, <3>2, <3>3, <3>4, <3>5, <3>6
  <2> QED
    BY <2>9, <2>10
<1> QED
  BY <1>11, <1>12

\* A tick commits loads of the part of the flight it is in only.
LEMMA ActKeepsTargets ==
  ASSUME TargetInv, Targets!Act
  PROVE  TargetInv' /\ NotDisturbed
<1>1. flight' = flight /\ aboard.up /\ (Targets!IsArrival <=> flight.phase = "arrival")
  BY DEF Targets!Act, Targets!IsArrival
<1>2. efb \in EfbRules /\ aboard \in Aboards /\ flight \in Flights
  BY DEF TargetInv, TargetTypes
<1>3. PICK f \in {Targets!None} \cup EfbFuels, z \in {Targets!None} \cup EfbZfws :
           /\ Targets!IsArrival => f \in {Targets!None, 0, 1}
           /\ \/ /\ LeftWith(f, z, efb.committed)
                 /\ aboard' = aboard
                 /\ efb.committed = Targets!Nothing => f = Targets!None
                 /\ efb.committed # Targets!Nothing /\ f # Targets!None => efb.committed = <<f, z>>
                 /\ flight.phase = "stand" => f = Targets!None
                 /\ flight.phase = "plan" => f \in {Targets!None, aboard.fuel}
                 /\ flight.phase = "loading" => efb.stagedFuel = 2 \/ f \in {Targets!None, 2}
              \/ /\ LeftWith(f, z, <<f, z>>)
                 /\ aboard' = [aboard EXCEPT !.ready = <<f, z>>]
                 /\ f # Targets!None /\ z = efb.stagedZfw /\ z # Targets!None
                 /\ "emptyWeight" \in aboard.received
                 /\ flight.phase = "plan" => f = aboard.fuel
                 /\ flight.phase = "loading" => f = 2
                 /\ flight.phase = "flight" => f = aboard.fuel
                 /\ flight.phase = "flight" /\ efb.stagedFuel = 2 => f = 2
  BY TickLeaves
<1>4. CASE /\ LeftWith(f, z, efb.committed)
           /\ aboard' = aboard
           /\ efb.committed = Targets!Nothing => f = Targets!None
           /\ efb.committed # Targets!Nothing /\ f # Targets!None => efb.committed = <<f, z>>
           /\ flight.phase = "stand" => f = Targets!None
           /\ flight.phase = "plan" => f \in {Targets!None, aboard.fuel}
           /\ flight.phase = "loading" => efb.stagedFuel = 2 \/ f \in {Targets!None, 2}
  <2>1. TargetTypes'
    BY <1>1, <1>2, <1>4 DEF TargetTypes, LeftWith
  <2>2. CommitsAreTargets'
    BY <1>1, <1>4 DEF TargetInv, CommitsAreTargets, LeftWith
  <2>3. BeforeTheLoading' /\ WhileLoading' /\ WithTheLoadAboard' /\ InFlight'
    BY <1>1, <1>4 DEF TargetInv, BeforeTheLoading, WhileLoading, WithTheLoadAboard, InFlight,
       LeftWith
  <2>4. OnArrival'
    BY <1>1, <1>3, <1>4 DEF TargetInv, OnArrival, LeftWith
  <2> QED
    BY <1>4, <2>1, <2>2, <2>3, <2>4 DEF TargetInv, NotDisturbed
<1>5. CASE /\ LeftWith(f, z, <<f, z>>)
           /\ aboard' = [aboard EXCEPT !.ready = <<f, z>>]
           /\ f # Targets!None /\ z = efb.stagedZfw /\ z # Targets!None
           /\ "emptyWeight" \in aboard.received
           /\ flight.phase = "plan" => f = aboard.fuel
           /\ flight.phase = "loading" => f = 2
           /\ flight.phase = "flight" => f = aboard.fuel
           /\ flight.phase = "flight" /\ efb.stagedFuel = 2 => f = 2
  <2> DEFINE tank == <<f, z>>
  <2>1. tank[1] = f /\ tank[2] = z /\ tank # Targets!Nothing /\ tank \in EfbCommits
    BY <1>5 DEF EfbCommits, Targets!Nothing
  <2>2. flight.phase = "flight" => tank = <<aboard.fuel, 1>> /\ aboard.zfw = 1
    BY <1>5 DEF TargetInv, InFlight
  <2>3. flight.phase = "plan" => tank = <<aboard.fuel, 0>>
    BY <1>5 DEF TargetInv, BeforeTheLoading
  <2> HIDE DEF tank
  <2>4. /\ aboard' \in Aboards /\ aboard'.ready = tank /\ aboard'.fuel = aboard.fuel
        /\ aboard'.zfw = aboard.zfw /\ aboard'.up = aboard.up
    BY <1>2, <1>5, <2>1 DEF Aboards, tank
  <2>5. LeftWith(f, z, tank)
    BY <1>5 DEF tank
  <2>6. TargetTypes'
    BY <1>1, <1>2, <2>4, <2>5 DEF TargetTypes, LeftWith
  <2>7. CommitsAreTargets'
    BY <1>1, <2>1, <2>4, <2>5 DEF CommitsAreTargets, LeftWith, tank
  <2>8. flight.phase # "stand"
    BY <1>5 DEF TargetInv, BeforeTheLoading
  <2>9. BeforeTheLoading' /\ WhileLoading'
    BY <1>1, <1>5, <2>1, <2>3, <2>4, <2>5, <2>8
    DEF TargetInv, BeforeTheLoading, WhileLoading, LeftWith
  <2>10. WithTheLoadAboard'
    <3>1. flight.phase \in {"loading", "flight"} /\ flight.boards => z = 1
      BY <1>5 DEF TargetInv, WhileLoading, InFlight
    <3> QED
      BY <1>1, <2>1, <2>4, <2>5, <3>1 DEF WithTheLoadAboard, LeftWith
  <2>11. InFlight'
    <3>1. flight.phase = "flight" /\ efb.stagedFuel = 2 =>
            aboard.fuel = 2 \/ tank = <<2, 1>>
      BY <1>1, <1>5, <2>2, <1>2 DEF TargetInv, InFlight, tank, Aboards, EfbFuels
    <3> QED
      BY <1>1, <2>2, <2>4, <2>5, <3>1 DEF TargetInv, InFlight, LeftWith
  <2>12. OnArrival'
    BY <1>1, <1>3, <1>5, <2>1, <2>4, <2>5 DEF TargetInv, OnArrival, LeftWith
  <2>13. NotDisturbed
    <3>1. Targets!IsArrival => f <= Targets!Landed
      BY <1>3, <1>5, TargetNumbers DEF TargetNumbersOf
    <3>2. flight.phase \in {"stand", "plan", "loading", "flight", "arrival"}
      BY <1>2 DEF Flights
    <3>3. ~Targets!IsArrival => f \in {aboard.fuel, Targets!Planned}
      BY <1>1, <1>5, <2>8, <3>2, TargetNumbers DEF TargetNumbersOf
    <3>4. flight.phase = "flight" => tank = <<aboard.fuel, aboard.zfw>>
      BY <2>2
    <3> QED
      BY <1>5, <2>1, <2>4, <3>1, <3>3, <3>4 DEF NotDisturbed
  <2> QED
    BY <2>6, <2>7, <2>9, <2>10, <2>11, <2>12, <2>13 DEF TargetInv
<1> QED
  BY <1>3, <1>4, <1>5

\* A tick that is over has committed the loads that the loading staged.
LEMMA TickIsOverCommits ==
  ASSUME TargetInv, Targets!TickIsOver, flight.phase = "flight", efb.stagedFuel = 2
  PROVE  efb.committed = <<2, 1>>
<1> DEFINE e0 == Targets!ForgetTheDepartureFuelOnArrival(efb)
           e1 == Targets!ResolveTargets(e0)
<1>1. efb \in EfbRules /\ ~Targets!IsArrival /\ efb.arriving \in BOOLEAN /\ efb.stagedZfw = 1
      /\ efb.fuel \in {Targets!None} \cup EfbFuels /\ aboard.received = Targets!Inputs
  BY DEF TargetInv, TargetTypes, EfbRules, InFlight, Targets!IsArrival, Targets!TickIsOver
<1> DEFINE fuel0 == IF Targets!IsArrival /\ ~efb.arriving THEN Targets!None ELSE efb.fuel
<1>2. e0 = [efb EXCEPT !.fuel = fuel0, !.arriving = Targets!IsArrival] /\ fuel0 \in {Targets!None} \cup EfbFuels
      /\ Targets!IsArrival \in BOOLEAN
  BY <1>1 DEF Targets!IsArrival, Targets!ForgetTheDepartureFuelOnArrival
<1> HIDE DEF fuel0
<1>3. e0 \in EfbRules /\ e0.stagedFuel = 2 /\ e0.stagedZfw = 1 /\ e0.committed = efb.committed
  <2> HIDE DEF e0
  <2> QED BY <1>1, <1>2 DEF EfbRules
<1>4. Targets!StagedFuel(e0) = 2
  BY <1>1, <1>3 DEF Targets!StagedFuel
<1>5. Targets!HasSomethingToCommit(e0)
  BY <1>1, <1>3, <1>4, TargetNumbers DEF Targets!HasSomethingToCommit, Targets!Sees,
     Targets!Inputs, TargetNumbersOf
<1>6. Targets!SeedFuel(e0) = [e0 EXCEPT !.fuel = 2]
  <2> HIDE DEF e0
  <2> QED BY <1>4, TargetNumbers DEF Targets!SeedFuel, TargetNumbersOf
<1>7. e1 = [e0 EXCEPT !.fuel = 2, !.zfw = 1]
  <2> HIDE DEF e0
  <2>1. Targets!SeedFuel(e0).stagedZfw = 1
    BY <1>3, <1>6 DEF EfbRules
  <2>2. e1 = [Targets!SeedFuel(e0) EXCEPT !.zfw = Targets!SeedFuel(e0).stagedZfw]
    BY <2>1, TargetNumbers DEF Targets!ResolveTargets, Targets!SeedZfw, TargetNumbersOf
  <2> HIDE DEF e1
  <2> QED
    BY <1>6, <2>1, <2>2
<1>8. e1.fuel = 2 /\ e1.zfw = 1 /\ e1.committed = efb.committed /\ e1 \in EfbRules
  <2> HIDE DEF e0, e1
  <2> QED BY <1>3, <1>7 DEF EfbRules, EfbFuels, EfbZfws
<1>9. Targets!CommitTargets(e1) = [e |-> efb, ready |-> Targets!Nothing]
  BY <1>5 DEF Targets!TickIsOver, Targets!Acted
<1> HIDE DEF e0, e1
<1>10. CASE Targets!MustCommit(e1)
  <2>1. Targets!Nothing = <<2, 1>>
    BY <1>8, <1>9, <1>10 DEF Targets!CommitTargets
  <2> QED
    BY <2>1, TargetNumbers DEF Targets!Nothing, TargetNumbersOf
<1>11. CASE ~Targets!MustCommit(e1)
  BY <1>8, <1>11, TargetNumbers DEF Targets!MustCommit, TargetNumbersOf
<1> QED
  BY <1>10, <1>11

\* A commit is a pair of loads.
LEMMA CommittedLoads ==
  ASSUME NEW t \in EfbCommits
  PROVE  /\ t # Targets!Nothing => t[1] \in EfbFuels /\ t[2] \in EfbZfws /\ t = <<t[1], t[2]>>
         /\ Targets!Nothing \in EfbCommits
  BY DEF EfbCommits

\* What a relaunched client starts with.
LEMMA NewEfbIsTyped ==
  /\ Targets!NewEfb \in EfbRules /\ Targets!NewEfb.stagedFuel = Targets!None /\ Targets!NewEfb.stagedZfw = Targets!None
  /\ Targets!NewEfb.fuel = Targets!None /\ Targets!NewEfb.zfw = Targets!None /\ Targets!NewEfb.committed = Targets!Nothing /\ Targets!NewEfb.arriving = FALSE
  BY DEF Targets!NewEfb, EfbRules, EfbCommits

\* The other actions, one case for each.
LEMMA OthersKeepTargets ==
  ASSUME TargetInv, MaxFaultsOfTheSmall \in Nat,
         \/ Targets!Receives \/ Targets!EfbLoads \/ Targets!PlanIsCaptured \/ Targets!LoadingStarts \/ Targets!BoardingStarts
         \/ Targets!RefuelFinishes \/ Targets!TakesOff \/ Targets!Burns \/ Targets!TouchesDown \/ Targets!DeboardingStarts
         \/ Targets!OnTurnaroundStarted \/ Targets!ClientEnds \/ Targets!OnTurnaroundResumed
  PROVE  TargetInv' /\ NotDisturbed
<1> USE DEF Targets!IsArrival, Targets!LoadedZfw, Targets!EmptyZfw, Targets!Planned, Targets!Landed, Targets!Burnt
<1>1. efb \in EfbRules /\ aboard \in Aboards /\ flight \in Flights
  BY DEF TargetInv, TargetTypes
<1>2. Targets!Nothing \in EfbCommits /\ Targets!None = -1
  BY CommittedLoads, TargetNumbers DEF EfbCommits, TargetNumbersOf
<1>3. CASE Targets!Receives
  <2>1. efb' = efb /\ flight' = flight /\ aboard' \in Aboards /\ aboard'.ready = aboard.ready
        /\ aboard'.fuel = aboard.fuel /\ aboard'.zfw = aboard.zfw /\ aboard'.up = aboard.up
    BY <1>1, <1>3 DEF Targets!Receives, Aboards
  <2> QED
    BY <1>1, <2>1 DEF TargetInv, TargetTypes, CommitsAreTargets, BeforeTheLoading, WhileLoading,
       WithTheLoadAboard, InFlight, OnArrival, NotDisturbed
<1>4. CASE Targets!EfbLoads
  <2>1. aboard.ready # Targets!Nothing /\ aboard.ready \in EfbCommits /\ aboard.ready = efb.committed
    BY <1>1, <1>4 DEF Targets!EfbLoads, Aboards, TargetInv, CommitsAreTargets
  <2>2. aboard.ready[1] \in EfbFuels /\ aboard.ready[2] \in EfbZfws
        /\ aboard.ready = <<aboard.ready[1], aboard.ready[2]>>
    BY <2>1, CommittedLoads
  <2>3. efb' = efb /\ flight' = flight /\ aboard' \in Aboards /\ aboard'.ready = Targets!Nothing
        /\ aboard'.fuel = aboard.ready[1] /\ aboard'.zfw = aboard.ready[2] /\ aboard'.up = aboard.up
    BY <1>1, <1>2, <1>4, <2>2 DEF Targets!EfbLoads, Aboards
  <2>4. TargetTypes' /\ CommitsAreTargets' /\ NotDisturbed
    BY <1>1, <2>3 DEF TargetInv, TargetTypes, CommitsAreTargets, NotDisturbed
  <2>5. BeforeTheLoading'
    BY <2>1, <2>2, <2>3 DEF TargetInv, BeforeTheLoading, CommitsAreTargets
  <2>6. WhileLoading'
    BY <2>1, <2>2, <2>3 DEF TargetInv, WhileLoading
  <2>7. WithTheLoadAboard' /\ InFlight' /\ OnArrival'
    BY <2>1, <2>2, <2>3 DEF TargetInv, WithTheLoadAboard, InFlight, OnArrival
  <2> QED
    BY <2>4, <2>5, <2>6, <2>7 DEF TargetInv
<1>5. CASE Targets!PlanIsCaptured
  <2>1. efb' = [efb EXCEPT !.stagedZfw = 0] /\ aboard' = aboard /\ flight.phase = "stand"
        /\ flight' = [flight EXCEPT !.phase = "plan"] /\ aboard.ready = Targets!Nothing
    BY <1>5 DEF Targets!PlanIsCaptured, Targets!Phase, Targets!SetCurrentZfwKg
  <2>2. efb' \in EfbRules /\ efb'.stagedZfw = 0 /\ efb'.fuel = efb.fuel /\ efb'.zfw = efb.zfw
        /\ efb'.committed = efb.committed /\ efb'.stagedFuel = efb.stagedFuel
        /\ efb'.arriving = efb.arriving
    BY <1>1, <2>1 DEF EfbRules
  <2>3. flight' \in Flights /\ flight'.phase = "plan" /\ flight'.boards = flight.boards
        /\ flight'.refuelFinished = flight.refuelFinished
    BY <1>1, <2>1 DEF Flights
  <2> QED
    BY <1>1, <2>1, <2>2, <2>3 DEF TargetInv, TargetTypes, CommitsAreTargets, BeforeTheLoading,
       WhileLoading, WithTheLoadAboard, InFlight, OnArrival, NotDisturbed
<1>6. CASE Targets!LoadingStarts
  <2>1. efb' = [efb EXCEPT !.stagedFuel = 2] /\ aboard' = aboard /\ flight.phase = "plan"
        /\ flight' = [flight EXCEPT !.phase = "loading"] /\ aboard.ready = Targets!Nothing
    BY <1>6 DEF Targets!LoadingStarts, Targets!Phase
  <2>2. efb' \in EfbRules /\ efb'.stagedZfw = efb.stagedZfw /\ efb'.fuel = efb.fuel /\ efb'.zfw = efb.zfw
        /\ efb'.committed = efb.committed /\ efb'.stagedFuel = 2
        /\ efb'.arriving = efb.arriving
    BY <1>1, <2>1 DEF EfbRules
  <2>3. flight' \in Flights /\ flight'.phase = "loading" /\ flight'.boards = flight.boards
        /\ flight'.refuelFinished = flight.refuelFinished
    BY <1>1, <2>1 DEF Flights
  <2> QED
    BY <1>1, <2>1, <2>2, <2>3 DEF TargetInv, TargetTypes, CommitsAreTargets, BeforeTheLoading,
       WhileLoading, WithTheLoadAboard, InFlight, OnArrival, NotDisturbed
<1>7. CASE Targets!BoardingStarts
  <2>1. efb' = [efb EXCEPT !.stagedZfw = 1] /\ aboard' = aboard /\ flight.phase = "loading"
        /\ flight' = [flight EXCEPT !.boards = TRUE] /\ ~flight.boards
    BY <1>7 DEF Targets!BoardingStarts, Targets!SetCurrentZfwKg
  <2>2. efb' \in EfbRules /\ efb'.stagedZfw = 1 /\ efb'.fuel = efb.fuel /\ efb'.zfw = efb.zfw
        /\ efb'.committed = efb.committed /\ efb'.stagedFuel = efb.stagedFuel
        /\ efb'.arriving = efb.arriving
    BY <1>1, <2>1 DEF EfbRules
  <2>3. flight' \in Flights /\ flight'.phase = "loading" /\ flight'.boards
        /\ flight'.refuelFinished = flight.refuelFinished
    BY <1>1, <2>1 DEF Flights
  <2>4. aboard.zfw = 0
    BY <2>1 DEF TargetInv, WhileLoading
  <2> QED
    BY <1>1, <2>1, <2>2, <2>3, <2>4 DEF TargetInv, TargetTypes, CommitsAreTargets, BeforeTheLoading,
       WhileLoading, WithTheLoadAboard, InFlight, OnArrival, NotDisturbed
<1>8. CASE Targets!RefuelFinishes
  <2>1. efb' = efb /\ aboard' = aboard /\ flight.phase = "loading" /\ aboard.fuel = 2
        /\ flight' = [flight EXCEPT !.refuelFinished = TRUE]
    BY <1>8 DEF Targets!RefuelFinishes
  <2>3. flight' \in Flights /\ flight'.phase = "loading" /\ flight'.boards = flight.boards
        /\ flight'.refuelFinished
    BY <1>1, <2>1 DEF Flights
  <2> QED
    BY <1>1, <2>1, <2>3 DEF TargetInv, TargetTypes, CommitsAreTargets, BeforeTheLoading,
       WhileLoading, WithTheLoadAboard, InFlight, OnArrival, NotDisturbed
<1>9. CASE Targets!TakesOff
  <2>1. efb' = efb /\ aboard' = aboard /\ flight.phase = "loading" /\ aboard.zfw = 1
        /\ flight' = [flight EXCEPT !.phase = "flight"] /\ aboard.ready = Targets!Nothing
        /\ flight.refuelFinished
    BY <1>9 DEF Targets!TakesOff, Targets!Phase
  <2>2. flight.boards /\ efb.stagedZfw = 1 /\ aboard.fuel = 2
    BY <2>1 DEF TargetInv, WhileLoading
  <2>3. flight' \in Flights /\ flight'.phase = "flight" /\ flight'.boards = flight.boards
        /\ flight'.refuelFinished = flight.refuelFinished
    BY <1>1, <2>1 DEF Flights
  <2> QED
    BY <1>1, <2>1, <2>2, <2>3 DEF TargetInv, TargetTypes, CommitsAreTargets, BeforeTheLoading,
       WhileLoading, WithTheLoadAboard, InFlight, OnArrival, NotDisturbed
<1>10. CASE Targets!Burns
  <2>1. /\ efb' = efb /\ flight' = flight /\ aboard.ready = Targets!Nothing
        /\ aboard' = [aboard EXCEPT !.fuel = aboard.fuel - 1]
        /\ (flight.phase = "flight" /\ aboard.fuel > 1) \/ (flight.phase = "arrival" /\ aboard.fuel > 0)
    BY <1>10 DEF Targets!Burns
  <2>2. aboard.fuel \in {0, 1, 2} /\ aboard.fuel - 1 \in EfbFuels
    BY <1>1, <2>1 DEF Aboards, EfbFuels
  <2>3. aboard' \in Aboards /\ aboard'.ready = Targets!Nothing /\ aboard'.zfw = aboard.zfw
        /\ aboard'.up = aboard.up /\ aboard'.fuel = aboard.fuel - 1
    BY <1>1, <2>1, <2>2 DEF Aboards
  <2>4. flight.phase = "flight" /\ aboard.up /\ efb.stagedFuel = 2 => efb.committed = <<2, 1>>
    BY <1>10, TickIsOverCommits DEF Targets!Burns
  <2>5. flight.phase = "arrival" => aboard'.fuel \in {0, 1}
    BY <2>1, <2>2, <2>3 DEF TargetInv, OnArrival
  <2>6. TargetTypes' /\ CommitsAreTargets' /\ NotDisturbed
    BY <1>1, <2>1, <2>3 DEF TargetInv, TargetTypes, CommitsAreTargets, NotDisturbed
  <2>7. BeforeTheLoading' /\ WhileLoading'
    BY <2>1 DEF BeforeTheLoading, WhileLoading
  <2>8. WithTheLoadAboard' /\ InFlight' /\ OnArrival'
    BY <2>1, <2>3, <2>4, <2>5 DEF TargetInv, WithTheLoadAboard, InFlight, OnArrival
  <2> QED
    BY <2>6, <2>7, <2>8 DEF TargetInv
<1>11. CASE Targets!TouchesDown
  <2>1. efb' = efb /\ aboard' = aboard /\ flight.phase = "flight" /\ aboard.fuel = 1
        /\ flight' = [flight EXCEPT !.phase = "arrival"] /\ aboard.ready = Targets!Nothing
    BY <1>11 DEF Targets!TouchesDown, Targets!Phase
  <2>2. efb.stagedZfw = 1 /\ ~efb.arriving
    BY <2>1 DEF TargetInv, InFlight, CommitsAreTargets
  <2>3. flight' \in Flights /\ flight'.phase = "arrival" /\ flight'.boards = flight.boards
        /\ flight'.refuelFinished = flight.refuelFinished
    BY <1>1, <2>1 DEF Flights
  <2> QED
    BY <1>1, <1>2, <2>1, <2>2, <2>3 DEF TargetInv, TargetTypes, CommitsAreTargets, BeforeTheLoading,
       WhileLoading, WithTheLoadAboard, InFlight, OnArrival, NotDisturbed
<1>12. CASE Targets!DeboardingStarts
  <2>1. efb' = [efb EXCEPT !.stagedZfw = 0] /\ aboard' = aboard /\ flight.phase = "arrival"
        /\ flight' = [flight EXCEPT !.boards = FALSE]
    BY <1>12 DEF Targets!DeboardingStarts, Targets!SetCurrentZfwKg
  <2>2. efb' \in EfbRules /\ efb'.stagedZfw = 0 /\ efb'.fuel = efb.fuel /\ efb'.zfw = efb.zfw
        /\ efb'.committed = efb.committed /\ efb'.stagedFuel = efb.stagedFuel
        /\ efb'.arriving = efb.arriving
    BY <1>1, <2>1 DEF EfbRules
  <2>3. flight' \in Flights /\ flight'.phase = "arrival"
    BY <1>1, <2>1 DEF Flights
  <2> QED
    BY <1>1, <1>2, <2>1, <2>2, <2>3 DEF TargetInv, TargetTypes, CommitsAreTargets, BeforeTheLoading,
       WhileLoading, WithTheLoadAboard, InFlight, OnArrival, NotDisturbed
<1>13. CASE Targets!OnTurnaroundStarted
  <2>1. efb' = Targets!NewEfb /\ aboard' = aboard /\ aboard.ready = Targets!Nothing /\ aboard.zfw = 0
        /\ flight' = Targets!NewFlight(flight.faults)
    BY <1>13 DEF Targets!OnTurnaroundStarted
  <2>2. flight' \in Flights /\ flight'.phase = "stand" /\ ~flight'.boards /\ ~flight'.refuelFinished
    BY <1>1, <2>1 DEF Flights, Targets!NewFlight
  <2> QED
    BY <1>1, <1>2, <2>1, <2>2, NewEfbIsTyped DEF TargetInv, TargetTypes, CommitsAreTargets,
       BeforeTheLoading, WhileLoading, WithTheLoadAboard, InFlight, OnArrival, NotDisturbed
<1>14. CASE Targets!ClientEnds
  <2>1. efb' = efb /\ aboard' = [aboard EXCEPT !.up = FALSE, !.received = {}]
        /\ flight' = [flight EXCEPT !.faults = flight.faults + 1]
    BY <1>14 DEF Targets!ClientEnds
  <2>2. aboard' \in Aboards /\ aboard'.ready = aboard.ready /\ aboard'.zfw = aboard.zfw
        /\ ~aboard'.up /\ aboard'.fuel = aboard.fuel
    BY <1>1, <2>1 DEF Aboards
  <2>3. flight' \in Flights /\ flight'.phase = flight.phase /\ flight'.boards = flight.boards
        /\ flight'.refuelFinished = flight.refuelFinished
    BY <1>1, <2>1 DEF Flights
  <2> QED
    BY <1>1, <2>1, <2>2, <2>3 DEF TargetInv, TargetTypes, CommitsAreTargets,
       BeforeTheLoading, WhileLoading, WithTheLoadAboard, InFlight, OnArrival, NotDisturbed
<1>15. CASE Targets!OnTurnaroundResumed
  <2> DEFINE told == IF flight.phase \in {"loading", "flight", "arrival"} /\ ~flight.refuelFinished
                     THEN 2 ELSE Targets!None
  <2>1. efb' = [Targets!NewEfb EXCEPT !.stagedZfw = efb.stagedZfw, !.stagedFuel = told]
        /\ aboard' = [aboard EXCEPT !.up = TRUE] /\ flight' = flight /\ aboard.ready = Targets!Nothing
    BY <1>15 DEF Targets!OnTurnaroundResumed
  <2>2. told \in {Targets!None, 2} /\ efb.stagedZfw \in {Targets!None, 0, 1}
    BY <1>1 DEF EfbRules
  <2>3. /\ flight.phase \in {"stand", "plan"} => told = Targets!None
        /\ flight.phase \in {"loading", "flight", "arrival"} /\ ~flight.refuelFinished => told = 2
        /\ flight.refuelFinished => told = Targets!None
    OBVIOUS
  <2> HIDE DEF told
  <2>4. efb' \in EfbRules /\ efb'.stagedFuel = told /\ efb'.stagedZfw = efb.stagedZfw
        /\ efb'.fuel = Targets!None /\ efb'.committed = Targets!Nothing /\ efb'.arriving = FALSE
    BY <2>1, <2>2, NewEfbIsTyped DEF EfbRules
  <2>5. aboard' \in Aboards /\ aboard'.ready = Targets!Nothing /\ aboard'.zfw = aboard.zfw
        /\ aboard'.up /\ aboard'.fuel = aboard.fuel
    BY <1>1, <2>1 DEF Aboards
  <2>6. TargetTypes' /\ CommitsAreTargets' /\ NotDisturbed
    BY <1>1, <2>1, <2>4, <2>5 DEF TargetTypes, CommitsAreTargets, NotDisturbed
  <2>7. BeforeTheLoading' /\ WhileLoading'
    BY <1>2, <2>1, <2>3, <2>4, <2>5 DEF TargetInv, BeforeTheLoading, WhileLoading
  <2>8. WithTheLoadAboard' /\ InFlight' /\ OnArrival'
    BY <1>2, <2>1, <2>3, <2>4, <2>5 DEF TargetInv, WithTheLoadAboard, InFlight, OnArrival
  <2> QED
    BY <2>6, <2>7, <2>8 DEF TargetInv
<1> QED
  BY <1>3, <1>4, <1>5, <1>6, <1>7, <1>8, <1>9, <1>10, <1>11, <1>12, <1>13, <1>14, <1>15

\* What the flight starts with.
LEMMA TargetsStart == Targets!Init => TargetInv
<1> SUFFICES ASSUME Targets!Init PROVE TargetInv
  OBVIOUS
<1>1. efb = Targets!NewEfb /\ flight = Targets!NewFlight(0)
      /\ aboard = [fuel |-> 0, zfw |-> 0, ready |-> Targets!Nothing, received |-> Targets!Inputs, up |-> TRUE]
  BY DEF Targets!Init, Targets!Burnt, Targets!EmptyZfw
<1>2. aboard \in Aboards /\ aboard.ready = Targets!Nothing /\ aboard.zfw = 0
  BY <1>1, CommittedLoads DEF Aboards, EfbFuels, EfbZfws, EfbCommits
<1>3. flight \in Flights /\ flight.phase = "stand" /\ ~flight.boards /\ ~flight.refuelFinished
  BY <1>1 DEF Flights, Targets!NewFlight
<1> QED
  BY <1>1, <1>2, <1>3, NewEfbIsTyped DEF TargetInv, TargetTypes, CommitsAreTargets,
       BeforeTheLoading, WhileLoading, WithTheLoadAboard, InFlight, OnArrival

\* The invariant has the types that the run checks.
LEMMA TargetInvIsTyped == TargetInv => Targets!TypeOK
<1> SUFFICES ASSUME TargetInv PROVE Targets!TypeOK
  OBVIOUS
<1>1. efb.fuel \in {Targets!None, 0, 1, 2} /\ efb.stagedFuel \in {Targets!None, 2} /\ efb.zfw \in {Targets!None, 0, 1}
      /\ efb.stagedZfw \in {Targets!None, 0, 1} /\ aboard.ready \in EfbCommits
  BY DEF TargetInv, TargetTypes, EfbRules, Aboards, EfbFuels, EfbZfws
<1>2. aboard.ready # Targets!Nothing => aboard.ready[2] \in {0, 1}
  BY <1>1, CommittedLoads DEF EfbZfws
<1> QED
  BY <1>1, <1>2, TargetNumbers DEF Targets!TypeOK, TargetNumbersOf

(***************************************************************************)
(* The fuel that the MD-11's EFB is committed is aboard, or planned, for   *)
(* the part of the flight it is committed in; and never above what was     *)
(* landed with on arrival.                                                 *)
(***************************************************************************)
THEOREM TargetsHold ==
  ASSUME MaxFaultsOfTheSmall \in Nat
  PROVE  Targets!Spec => []Targets!TypeOK /\ Targets!FuelIsNotDisturbed
<1>1. TargetInv /\ [Targets!Next]_(Targets!efbVars) => TargetInv' /\ [NotDisturbed]_(Targets!efbVars)
  <2> SUFFICES ASSUME TargetInv, [Targets!Next]_(Targets!efbVars) PROVE TargetInv' /\ [NotDisturbed]_(Targets!efbVars)
    OBVIOUS
  <2>1. CASE Targets!Act
    BY <2>1, ActKeepsTargets
  <2>2. CASE UNCHANGED Targets!efbVars
    BY <2>2 DEF Targets!efbVars, TargetInv, TargetTypes, CommitsAreTargets,
       BeforeTheLoading, WhileLoading, WithTheLoadAboard, InFlight, OnArrival
  <2> QED
    BY <2>1, <2>2, OthersKeepTargets DEF Targets!Next
<1> QED
  BY <1>1, TargetsStart, TargetInvIsTyped, PTL DEF Targets!Spec, Targets!FuelIsNotDisturbed,
     NotDisturbed

-----------------------------------------------------------------------------
(***************************************************************************)
(* The hose of the Fenix.                                                  *)
(* The rule that resumed knows nothing of a truck that served before it:   *)
(* it waits CallableTicks, and a truck of GSX that could be called for     *)
(* that long has served.  The invariant relates its count to the truck's.  *)
(***************************************************************************)
LEMMA HoseConstants == CallableTicks \in Nat \ {0}
BY AircraftConstants

RefuelRules == [loadingSeen : BOOLEAN, armed : BOOLEAN, resumed : BOOLEAN, finished : BOOLEAN,
                gsxRestarted : BOOLEAN, callable : 0 .. CallableTicks]
Hoses == [armed : BOOLEAN, received : SUBSET Hose!Inputs, up : BOOLEAN]
Trucks == [loading : BOOLEAN, service : {"callable", "active", "completed"}, served : BOOLEAN,
           waited : 0 .. CallableTicks - 1, finished : BOOLEAN, restarted : BOOLEAN, faults : Nat]

HoseTypes == refuel \in RefuelRules /\ hose \in Hoses /\ truck \in Trucks

ServedOnce ==
  /\ truck.service # "callable" => truck.served
  /\ truck.finished => truck.served /\ truck.service # "active"
  /\ refuel.finished => truck.finished

RuleKnowsTheTruck ==
  /\ refuel.resumed => refuel.loadingSeen
  /\ hose.armed => truck.loading /\ (hose.up => refuel.armed)
  /\ hose.up /\ refuel.resumed =>
       /\ refuel.gsxRestarted = truck.restarted
       /\ truck.loading \/ truck.finished
       /\ ~refuel.gsxRestarted /\ ~truck.served => refuel.callable <= truck.waited

HoseInv == HoseTypes /\ ServedOnce /\ RuleKnowsTheTruck

TruckIsDone == truck.served /\ truck.service # "active"
NotTaken == hose.armed /\ ~hose'.armed => TruckIsDone

\* A tick of the rule lets go of the hose of a truck that has served only: of one that
\* could be called, it waits CallableTicks for the truck's service to come.
LEMMA ActKeepsTheHose ==
  ASSUME HoseInv, Hose!ActInTime
  PROVE  HoseInv' /\ NotTaken
<1> DEFINE reads == Hose!ServiceReads("callable")
           finished == truck.finished \/ Hose!ServiceReads("completed")
           waited == IF truck.service = "callable" /\ truck.loading /\ truck.waited < CallableTicks - 1
                     THEN truck.waited + 1 ELSE truck.waited
           counted == IF ~reads THEN 0
                      ELSE IF refuel.callable < CallableTicks THEN refuel.callable + 1 ELSE refuel.callable
           callable == IF refuel.armed /\ refuel.resumed THEN counted ELSE refuel.callable
           r == [refuel EXCEPT !.callable = callable]
<1>1. hose.up /\ ~Hose!MustBeAsked /\ Hose!Act
  BY DEF Hose!ActInTime, Hose!Act
<1>2. refuel \in RefuelRules /\ hose \in Hoses /\ truck \in Trucks
  BY DEF HoseInv, HoseTypes
<1>3. /\ refuel.callable \in 0 .. CallableTicks /\ truck.waited \in 0 .. CallableTicks - 1
      /\ 0 \in 0 .. CallableTicks /\ truck.faults \in Nat
  BY <1>2, HoseConstants DEF RefuelRules, Trucks
<1>4. waited \in 0 .. CallableTicks - 1 /\ callable \in 0 .. CallableTicks
  BY <1>3, HoseConstants
<1>5. callable >= CallableTicks /\ refuel.armed /\ refuel.resumed => reads
  BY <1>3, HoseConstants
<1>6. finished \in BOOLEAN /\ (finished => truck.served /\ truck.service # "active")
      /\ (truck.finished => finished)
  BY <1>2 DEF HoseInv, ServedOnce, Hose!ServiceReads, Hose!Sees, Hoses, Trucks
<1>7. /\ refuel.resumed /\ ~refuel.gsxRestarted /\ ~truck.served /\ refuel.armed /\ truck.loading =>
           callable <= waited /\ callable < CallableTicks
      /\ refuel.resumed /\ ~refuel.gsxRestarted /\ ~truck.served /\ ~refuel.armed =>
           callable <= waited
  <2>1. refuel.resumed /\ ~refuel.gsxRestarted /\ ~truck.served =>
          refuel.callable <= truck.waited /\ ~truck.restarted
    BY <1>1 DEF HoseInv, RuleKnowsTheTruck
  <2>2. reads => truck.service = "callable"
    BY DEF Hose!ServiceReads
  <2>3. ~truck.served /\ ~truck.restarted /\ truck.service = "callable" =>
          truck.waited # CallableTicks - 1
    BY <1>1 DEF Hose!MustBeAsked
  <2>4. truck.waited <= waited
    BY <1>3, HoseConstants
  <2>5. CASE reads /\ refuel.armed
    <3> HIDE DEF reads
    <3> QED
      BY <1>3, <2>1, <2>2, <2>3, <2>5, HoseConstants
  <2>6. CASE ~reads \/ ~refuel.armed
    <3>1. callable = 0 \/ callable = refuel.callable
      BY <2>6
    <3>2. refuel.resumed /\ refuel.armed => callable = 0
      BY <2>6
    <3>3. 0 <= waited /\ 0 < CallableTicks
      BY <1>4, HoseConstants
    <3> HIDE DEF callable, waited
    <3> QED
      BY <1>3, <1>4, <2>1, <2>4, <3>1, <3>2, <3>3
  <2> QED
    BY <2>5, <2>6
<1> HIDE DEF waited, finished, reads
<1>8. r \in RefuelRules /\ (\A field \in {"armed", "resumed", "finished", "gsxRestarted", "loadingSeen"} :
           r[field] = refuel[field]) /\ r.callable = callable
  <2> HIDE DEF callable
  <2> QED
    BY <1>2, <1>4 DEF RefuelRules
<1>9. Hose!CountTheCallableReading(refuel) = r
  BY <1>2 DEF Hose!CountTheCallableReading, reads, RefuelRules
<1>10. /\ truck' = [truck EXCEPT !.finished = finished, !.waited = waited]
       /\ refuel' = Hose!Acted(refuel).r
       /\ hose' = [hose EXCEPT !.armed = Hose!Acted(refuel).armed]
  BY <1>1 DEF Hose!Act, finished, waited
<1>11. /\ truck' \in Trucks /\ truck'.finished = finished /\ truck'.waited = waited
       /\ truck'.loading = truck.loading /\ truck'.service = truck.service
       /\ truck'.served = truck.served /\ truck'.restarted = truck.restarted
  BY <1>2, <1>4, <1>6, <1>10 DEF Trucks
<1>12. ASSUME NEW fuel \in RefuelRules, NEW armed \in BOOLEAN,
              Hose!Acted(refuel) = [r |-> fuel, armed |-> armed],
              fuel.finished = refuel.finished, fuel.gsxRestarted = refuel.gsxRestarted,
              fuel.resumed => refuel.resumed /\ fuel.loadingSeen,
              armed => truck.loading /\ fuel.armed,
              fuel.resumed /\ ~refuel.gsxRestarted /\ ~truck.served =>
                fuel.callable <= waited,
              hose.armed /\ ~armed => TruckIsDone
       PROVE  HoseInv' /\ NotTaken
  <2>1. refuel' = fuel /\ hose' = [hose EXCEPT !.armed = armed]
    BY <1>10, <1>12
  <2>2. hose' \in Hoses /\ hose'.armed = armed /\ hose'.up = hose.up
    BY <1>2, <2>1, <1>12 DEF Hoses
  <2>3. HoseTypes'
    BY <1>11, <1>12, <2>1, <2>2 DEF HoseTypes
  <2>4. ServedOnce'
    BY <1>6, <1>11, <1>12, <2>1 DEF HoseInv, ServedOnce
  <2>5. RuleKnowsTheTruck'
    BY <1>1, <1>6, <1>11, <1>12, <2>1, <2>2 DEF HoseInv, RuleKnowsTheTruck
  <2> QED
    BY <1>12, <2>2, <2>3, <2>4, <2>5 DEF HoseInv, NotTaken
<1>13. CASE ~truck.loading
  <2> DEFINE fuel == [refuel EXCEPT !.loadingSeen = FALSE, !.resumed = FALSE, !.callable = 0]
  <2>1. Hose!Acted(refuel) = [r |-> fuel, armed |-> hose.armed]
    BY <1>13 DEF Hose!Acted, Hose!Left
  <2>2. fuel \in RefuelRules /\ ~fuel.resumed /\ fuel.finished = refuel.finished
          /\ fuel.gsxRestarted = refuel.gsxRestarted
    BY <1>2, <1>3 DEF RefuelRules
  <2>3. ~hose.armed /\ hose.armed \in BOOLEAN
    BY <1>2, <1>13 DEF HoseInv, RuleKnowsTheTruck, Hoses
  <2> HIDE DEF fuel
  <2> QED
    BY <1>12, <2>1, <2>2, <2>3
<1>14. CASE truck.loading /\ ~refuel.loadingSeen
  <2> DEFINE fuel == [refuel EXCEPT !.loadingSeen = TRUE, !.armed = TRUE]
  <2>1. Hose!Acted(refuel) = [r |-> fuel, armed |-> TRUE]
    BY <1>14 DEF Hose!Acted
  <2>2. fuel \in RefuelRules /\ fuel.resumed = refuel.resumed /\ fuel.finished = refuel.finished
          /\ fuel.gsxRestarted = refuel.gsxRestarted /\ fuel.armed
    BY <1>2, <1>3 DEF RefuelRules
  <2>3. ~refuel.resumed
    BY <1>14 DEF HoseInv, RuleKnowsTheTruck
  <2> HIDE DEF fuel
  <2> QED
    BY <1>12, <1>14, <2>1, <2>2, <2>3
<1>15. CASE truck.loading /\ refuel.loadingSeen
  <2>1. Hose!Acted(refuel) = Hose!Disarm(r)
    BY <1>9, <1>15 DEF Hose!Acted
  <2>2. r.resumed /\ ~refuel.gsxRestarted /\ ~truck.served => callable <= waited
    BY <1>7, <1>8, <1>15
  <2>3. r.armed = refuel.armed /\ r.resumed = refuel.resumed /\ r.finished = refuel.finished
          /\ r.gsxRestarted = refuel.gsxRestarted /\ r.loadingSeen = refuel.loadingSeen
    BY <1>8
  <2> HIDE DEF r, callable
  <2>4. CASE Hose!Disarm(r) = Hose!Left(r)
    <3>1. hose.armed => refuel.armed /\ truck.loading
      BY <1>1 DEF HoseInv, RuleKnowsTheTruck
    <3>2. hose.armed \in BOOLEAN
      BY <1>2 DEF Hoses
    <3> QED
      BY <1>8, <1>12, <1>15, <2>1, <2>2, <2>3, <2>4, <3>1, <3>2 DEF Hose!Left
  <2>5. CASE r.armed /\ Hose!RefuelHasEnded(r) /\ Hose!Disarm(r) = [r |-> [r EXCEPT !.armed = FALSE], armed |-> FALSE]
    <3> DEFINE fuel == [r EXCEPT !.armed = FALSE]
    <3>1. fuel \in RefuelRules /\ fuel.resumed = refuel.resumed /\ fuel.finished = refuel.finished
            /\ fuel.gsxRestarted = refuel.gsxRestarted /\ fuel.loadingSeen
            /\ fuel.callable = callable
      BY <1>8, <2>3, <1>15 DEF RefuelRules
    <3>2. TruckIsDone
      <4>1. CASE Hose!ServiceReads("completed")
        BY <4>1 DEF TruckIsDone, Hose!ServiceReads, HoseInv, ServedOnce
      <4>2. CASE r.finished
        BY <2>3, <4>2 DEF TruckIsDone, HoseInv, ServedOnce
      <4>3. CASE r.resumed /\ Hose!GsxLeftTheFinishedServiceBehind(r)
        <5>1. callable >= CallableTicks /\ ~refuel.gsxRestarted
          BY <1>8, <2>3, <4>3 DEF Hose!GsxLeftTheFinishedServiceBehind
        <5>2. reads
          BY <1>5, <2>3, <2>5, <4>3, <5>1
        <5>3. truck.service = "callable"
          BY <5>2 DEF reads, Hose!ServiceReads
        <5>4. ~(callable < CallableTicks)
          BY <1>4, <5>1, HoseConstants
        <5>5. truck.served
          BY <1>7, <1>15, <2>3, <2>5, <4>3, <5>1, <5>4
        <5> QED
          BY <5>3, <5>5 DEF TruckIsDone
      <4> QED
        BY <2>5, <4>1, <4>2, <4>3 DEF Hose!RefuelHasEnded
    <3> HIDE DEF fuel
    <3>3. Hose!Acted(refuel) = [r |-> fuel, armed |-> FALSE]
      BY <2>1, <2>5 DEF fuel
    <3> QED
      BY <1>12, <1>15, <2>2, <2>3, <3>1, <3>2, <3>3
  <2> QED
    BY <2>4, <2>5 DEF Hose!Disarm
<1> QED
  BY <1>13, <1>14, <1>15

\* The other actions, one case for each.
LEMMA OthersKeepTheHose ==
  ASSUME HoseInv, [Hose!Next]_(Hose!refuelVars), ~Hose!ActInTime
  PROVE  HoseInv' /\ NotTaken
<1>1. refuel \in RefuelRules /\ hose \in Hoses /\ truck \in Trucks
  BY DEF HoseInv, HoseTypes
<1>2. truck.faults \in Nat /\ truck.faults + 1 \in Nat
      /\ 0 \in 0 .. CallableTicks - 1 /\ 0 \in 0 .. CallableTicks
      /\ truck.waited \in 0 .. CallableTicks - 1
  BY <1>1, HoseConstants DEF Trucks
<1>3. CASE Hose!Receives
  <2>1. PICK what \in Hose!Inputs : hose' = [hose EXCEPT !.received = hose.received \cup {what}]
    BY <1>3 DEF Hose!Receives
  <2>2. hose' \in Hoses /\ hose'.armed = hose.armed /\ hose'.up = hose.up
    BY <1>1, <2>1 DEF Hoses
  <2>3. UNCHANGED <<refuel, truck>>
    BY <1>3 DEF Hose!Receives
  <2> QED
    BY <1>1, <2>2, <2>3 DEF HoseInv, HoseTypes, ServedOnce, RuleKnowsTheTruck, NotTaken
<1>4. CASE Hose!ClientEnds
  <2>1. hose' \in Hoses /\ hose'.armed = hose.armed /\ ~hose'.up
    BY <1>1, <1>4 DEF Hose!ClientEnds, Hoses
  <2>2. /\ truck' \in Trucks /\ truck'.loading = truck.loading /\ truck'.service = truck.service
        /\ truck'.served = truck.served /\ truck'.finished = truck.finished
    BY <1>1, <1>2, <1>4 DEF Hose!ClientEnds, Trucks
  <2>3. refuel' = refuel
    BY <1>4 DEF Hose!ClientEnds
  <2> QED
    BY <1>1, <2>1, <2>2, <2>3 DEF HoseInv, HoseTypes, ServedOnce, RuleKnowsTheTruck, NotTaken
<1>5. CASE Hose!OnTurnaroundResumed
  <2>1. hose' \in Hoses /\ hose'.armed = hose.armed /\ hose'.up /\ truck' = truck
    BY <1>1, <1>5 DEF Hose!OnTurnaroundResumed, Hoses
  <2>2. /\ refuel' \in RefuelRules /\ refuel'.resumed = truck.loading
        /\ refuel'.loadingSeen = truck.loading /\ refuel'.armed = truck.loading
        /\ refuel'.finished => truck.finished
        /\ truck.loading => refuel'.gsxRestarted = truck.restarted
        /\ refuel'.callable = 0
    BY <1>1, <1>2, <1>5 DEF Hose!OnTurnaroundResumed, Hose!ResumeLoading, Hose!NewRefuel,
       RefuelRules, Trucks
  <2>3. 0 <= truck.waited
    BY <1>2, HoseConstants
  <2>4. truck.loading \in BOOLEAN
    BY <1>1 DEF Trucks
  <2> QED
    BY <1>1, <2>1, <2>2, <2>3, <2>4
       DEF HoseInv, HoseTypes, ServedOnce, RuleKnowsTheTruck, NotTaken
<1>6. CASE Hose!LoadingStarts
  <2>1. /\ truck' \in Trucks /\ truck'.loading /\ truck'.service = truck.service
        /\ truck'.served = truck.served /\ truck'.finished = truck.finished
        /\ truck'.restarted = truck.restarted
    BY <1>1, <1>2, <1>6 DEF Hose!LoadingStarts, Trucks
  <2>2. hose.up /\ ~refuel.resumed /\ ~hose.armed /\ UNCHANGED <<refuel, hose>>
    BY <1>6 DEF Hose!LoadingStarts, HoseInv, RuleKnowsTheTruck
  <2> QED
    BY <1>1, <2>1, <2>2 DEF HoseInv, HoseTypes, ServedOnce, RuleKnowsTheTruck, NotTaken
<1>7. CASE Hose!GsxRefuels
  <2>1. /\ truck' \in Trucks /\ truck'.loading = truck.loading /\ truck'.served
        /\ truck'.finished = truck.finished /\ truck'.restarted = truck.restarted
        /\ truck'.waited = truck.waited
    BY <1>1, <1>2, <1>7 DEF Hose!GsxRefuels, Trucks
  <2>2. ~truck.finished /\ UNCHANGED <<refuel, hose>>
    BY <1>7 DEF Hose!GsxRefuels, HoseInv, ServedOnce
  <2> QED
    BY <1>1, <2>1, <2>2 DEF HoseInv, HoseTypes, ServedOnce, RuleKnowsTheTruck, NotTaken
<1>8. CASE Hose!GsxCompletes \/ Hose!GsxLeavesItBehind
  <2>1. /\ truck' \in Trucks /\ truck'.loading = truck.loading /\ truck'.served = truck.served
        /\ truck'.finished = truck.finished /\ truck'.restarted = truck.restarted
        /\ truck'.waited = truck.waited /\ truck'.service # "active"
    BY <1>1, <1>2, <1>8 DEF Hose!GsxCompletes, Hose!GsxLeavesItBehind, Trucks
  <2>2. truck.service # "callable" /\ UNCHANGED <<refuel, hose>>
    BY <1>8 DEF Hose!GsxCompletes, Hose!GsxLeavesItBehind
  <2> QED
    BY <1>1, <2>1, <2>2 DEF HoseInv, HoseTypes, ServedOnce, RuleKnowsTheTruck, NotTaken
<1>9. CASE Hose!GsxRestarts
  <2>1. truck' = [truck EXCEPT !.service = "callable", !.restarted = TRUE,
                               !.faults = truck.faults + 1, !.served = truck.finished, !.waited = 0]
    BY <1>9 DEF Hose!GsxRestarts
  <2>2. /\ truck' \in Trucks /\ truck'.loading = truck.loading /\ truck'.service = "callable"
        /\ truck'.served = truck.finished /\ truck'.finished = truck.finished
    BY <1>1, <1>2, <2>1 DEF Trucks
  <2>3. ~hose.up /\ UNCHANGED <<refuel, hose>>
    BY <1>9 DEF Hose!GsxRestarts
  <2> QED
    BY <1>1, <2>2, <2>3 DEF HoseInv, HoseTypes, ServedOnce, RuleKnowsTheTruck, NotTaken
<1>10. CASE Hose!TurnaroundIsOver
  <2>1. /\ truck' \in Trucks /\ truck'.service = truck.service
        /\ truck'.served = truck.served /\ truck'.finished = truck.finished
        /\ truck'.restarted = truck.restarted /\ truck'.waited = truck.waited
    BY <1>1, <1>2, <1>10 DEF Hose!TurnaroundIsOver, Trucks
  <2>2. truck.finished /\ ~hose.armed /\ UNCHANGED <<refuel, hose>>
    BY <1>10 DEF Hose!TurnaroundIsOver, HoseInv, RuleKnowsTheTruck
  <2> QED
    BY <1>1, <2>1, <2>2 DEF HoseInv, HoseTypes, ServedOnce, RuleKnowsTheTruck, NotTaken
<1>11. CASE UNCHANGED Hose!refuelVars
  BY <1>1, <1>11 DEF Hose!refuelVars, HoseInv, HoseTypes, ServedOnce, RuleKnowsTheTruck, NotTaken
<1> QED
  BY <1>3, <1>4, <1>5, <1>6, <1>7, <1>8, <1>9, <1>10, <1>11 DEF Hose!Next

(***************************************************************************)
(* The client does not take the hose of the Fenix from GSX's truck before  *)
(* it has served, also where the client was relaunched, or GSX was (the    *)
(* rule of the refuelling).                                                *)
(***************************************************************************)
THEOREM HoseHolds == Hose!Spec => []Hose!TypeOK /\ Hose!HoseIsNotTakenFromTheTruck
<1>1. Hose!Init => HoseInv
  <2> SUFFICES ASSUME Hose!Init PROVE HoseInv
    OBVIOUS
  <2>1. 0 \in 0 .. CallableTicks - 1 /\ 0 \in 0 .. CallableTicks
    BY HoseConstants
  <2>2. HoseTypes
    BY <2>1 DEF Hose!Init, HoseTypes, Hose!NewRefuel, RefuelRules, Hoses, Trucks
  <2> QED
    BY <2>2 DEF Hose!Init, HoseInv, ServedOnce, RuleKnowsTheTruck, Hose!NewRefuel
<1>2. HoseInv => Hose!TypeOK
  BY DEF HoseInv, HoseTypes, RefuelRules, RuleKnowsTheTruck, Hose!TypeOK
<1>3. HoseInv /\ [Hose!Next]_(Hose!refuelVars) =>
        HoseInv' /\ [hose.armed /\ ~hose'.armed => truck.served /\ truck.service # "active"]_(Hose!refuelVars)
  BY ActKeepsTheHose, OthersKeepTheHose DEF NotTaken, TruckIsDone
<1> QED
  BY <1>1, <1>2, <1>3, PTL DEF Hose!Spec, Hose!HoseIsNotTakenFromTheTruck

-----------------------------------------------------------------------------
(***************************************************************************)
(* The ground power of the FSS E-Jets.                                     *)
(* A pulse goes out only for a connection that rests and differs from      *)
(* what is wanted: the request is served before the rule reconciles, and a *)
(* connection that moves reads as neither.                                 *)
(***************************************************************************)
LEMMA GpuConstants == MinTicksBetweenPulses \in Nat /\ MaxAttempts \in Nat /\ Shows \in Nat
BY AircraftConstants

Connections == {"connected", "disconnected"}
GpuRules == [requested : {Gpu!None} \cup Connections, unserved : BOOLEAN,
             desired : {Gpu!None} \cup Connections, attempts : 0 .. MaxAttempts,
             ticksSincePulse : 0 .. MinTicksBetweenPulses]
GpuInv ==
  /\ gpu \in GpuRules
  /\ gpu.unserved => gpu.requested # Gpu!None
  /\ power \in [at : Connections, left : 0 .. Shows]

\* A request is taken over, without a pulse.
LEMMA ServedIsTyped ==
  ASSUME GpuInv
  PROVE  LET g == Gpu!ServeNewRequest(gpu)
         IN  g \in GpuRules /\ ~g.unserved /\ g.attempts <= gpu.attempts
<1>1. 0 \in 0 .. MaxAttempts /\ MinTicksBetweenPulses \in 0 .. MinTicksBetweenPulses
  BY GpuConstants
<1>2. gpu.attempts \in Nat
  BY GpuConstants DEF GpuInv, GpuRules
<1>3. gpu.attempts <= gpu.attempts /\ 0 <= gpu.attempts
  BY <1>2
<1>4. CASE ~gpu.unserved
  BY <1>3, <1>4 DEF GpuInv, Gpu!ServeNewRequest
<1>5. CASE gpu.unserved /\ gpu.desired = gpu.requested
  BY <1>3, <1>5 DEF GpuInv, Gpu!ServeNewRequest, GpuRules
<1>6. CASE gpu.unserved /\ gpu.desired # gpu.requested
  BY <1>1, <1>3, <1>6 DEF GpuInv, Gpu!ServeNewRequest, GpuRules
<1> QED
  BY <1>4, <1>5, <1>6 DEF GpuInv, GpuRules

\* A pulse goes out at a connection that rests and is not as it is wanted.
LEMMA ReconciledIsTyped ==
  ASSUME GpuInv, NEW g \in GpuRules, ~g.unserved
  PROVE  LET r == Gpu!Reconcile(g)
         IN  /\ r \in GpuRules /\ ~r.unserved
             /\ r.attempts > g.attempts =>
                  power.left = 0 /\ power.at # g.desired /\ r.desired = g.desired
<1> DEFINE ticks == IF g.ticksSincePulse < MinTicksBetweenPulses THEN g.ticksSincePulse + 1
                    ELSE g.ticksSincePulse
<1>1. /\ g.attempts \in 0 .. MaxAttempts /\ ~(g.attempts > g.attempts)
      /\ ~(0 > g.attempts)
      /\ 0 \in 0 .. MaxAttempts /\ 0 \in 0 .. MinTicksBetweenPulses
      /\ ticks \in 0 .. MinTicksBetweenPulses
      /\ g.attempts >= MaxAttempts \/ g.attempts + 1 \in 0 .. MaxAttempts
  BY GpuConstants DEF GpuRules
<1>2. \/ Gpu!Reconcile(g) = g
      \/ Gpu!Reconcile(g) = [g EXCEPT !.desired = Gpu!None, !.attempts = 0]
      \/ Gpu!Reconcile(g) = [g EXCEPT !.ticksSincePulse = ticks]
      \/ /\ Gpu!Reconcile(g) = [g EXCEPT !.ticksSincePulse = 0, !.attempts = g.attempts + 1]
         /\ g.attempts + 1 \in 0 .. MaxAttempts
         /\ Gpu!GetGroundPowerStatus # g.desired /\ Gpu!GetGroundPowerStatus # "unknown"
  BY <1>1 DEF Gpu!Reconcile
<1>3. Gpu!GetGroundPowerStatus # "unknown" => power.left = 0 /\ Gpu!GetGroundPowerStatus = power.at
  BY DEF Gpu!GetGroundPowerStatus
<1> HIDE DEF ticks
<1> QED
  BY <1>1, <1>2, <1>3 DEF GpuRules

\* Every step keeps the invariant and pulses only so.
LEMMA GpuIsKept ==
  ASSUME GpuInv, [Gpu!Next]_(Gpu!gpuVars)
  PROVE  GpuInv' /\ (gpu'.attempts > gpu.attempts => power.left = 0 /\ power.at # gpu'.desired)
<1>1. CASE Gpu!Act
  <2> DEFINE served == Gpu!ServeNewRequest(gpu)
  <2>1. gpu' = Gpu!Reconcile(served) /\ power' \in Gpu!PowerAfterATick(Gpu!Pulsed(served, gpu'))
    BY <1>1 DEF Gpu!Act
  <2>2. served \in GpuRules /\ ~served.unserved /\ served.attempts <= gpu.attempts
    BY ServedIsTyped
  <2> HIDE DEF served
  <2>3. gpu' \in GpuRules /\ ~gpu'.unserved
    BY <2>1, <2>2, ReconciledIsTyped
  <2>4. power' \in [at : Connections, left : 0 .. Shows]
    <3>1. /\ Shows \in 0 .. Shows
          /\ power.left = 0 \/ power.left - 1 \in 0 .. Shows
      BY GpuConstants DEF GpuInv
    <3>2. \/ power' = power
          \/ power' = [power EXCEPT !.left = Shows]
          \/ /\ power' = [at |-> IF power.left = 1 THEN Gpu!Flipped ELSE power.at,
                          left |-> power.left - 1]
             /\ power.left - 1 \in 0 .. Shows
      BY <2>1, <3>1 DEF Gpu!PowerAfterATick
    <3> QED
      BY <3>1, <3>2 DEF GpuInv, Connections, Gpu!Flipped
  <2>5. gpu'.attempts > served.attempts => power.left = 0 /\ power.at # gpu'.desired
    BY <2>1, <2>2, ReconciledIsTyped
  <2>6. gpu'.attempts \in Nat /\ served.attempts \in Nat /\ gpu.attempts \in Nat
    BY <2>2, <2>3, GpuConstants DEF GpuRules, GpuInv
  <2> QED
    BY <2>2, <2>3, <2>4, <2>5, <2>6 DEF GpuInv
<1>2. CASE Gpu!SetGroundPower
  <2>1. ~(gpu.attempts > gpu.attempts)
    BY GpuConstants DEF GpuInv, GpuRules
  <2>2. PICK on \in Connections : gpu' = [gpu EXCEPT !.requested = on, !.unserved = TRUE]
    BY <1>2 DEF Gpu!SetGroundPower, Connections
  <2>3. gpu' \in GpuRules /\ gpu'.requested = on /\ gpu'.attempts = gpu.attempts
    BY <2>2 DEF GpuInv, GpuRules
  <2> QED
    BY <1>2, <2>1, <2>3 DEF Gpu!SetGroundPower, GpuInv, Connections, Gpu!None
<1>3. CASE Gpu!PilotToggles
  <2>1. gpu.attempts \in Nat /\ Shows \in 0 .. Shows
    BY GpuConstants DEF GpuInv, GpuRules
  <2> QED
    BY <1>3, <2>1 DEF Gpu!PilotToggles, GpuInv
<1>4. CASE UNCHANGED Gpu!gpuVars
  <2>1. gpu.attempts \in Nat
    BY GpuConstants DEF GpuInv, GpuRules
  <2> QED
    BY <1>4, <2>1 DEF Gpu!gpuVars, GpuInv
<1> QED
  BY <1>1, <1>2, <1>3, <1>4 DEF Gpu!Next

(***************************************************************************)
(* No pulse to the ground power of the E-Jets goes out while the one       *)
(* before is still to show, or at a connection that is as it is wanted     *)
(* (FssEJetGpuFollowsRequestRule).                                         *)
(***************************************************************************)
THEOREM GpuHolds == Gpu!Spec => []Gpu!TypeOK /\ Gpu!NoPulseUndoesAnother
<1>1. Gpu!Init => GpuInv
  BY GpuConstants DEF Gpu!Init, GpuInv, GpuRules, Connections
<1>2. GpuInv => Gpu!TypeOK
  BY DEF GpuInv, GpuRules, Gpu!TypeOK
<1>3. GpuInv /\ [Gpu!Next]_(Gpu!gpuVars) => GpuInv' /\ [gpu'.attempts > gpu.attempts =>
       power.left = 0 /\ power.at # gpu'.desired]_(Gpu!gpuVars)
  BY GpuIsKept
<1> QED
  BY <1>1, <1>2, <1>3, PTL DEF Gpu!Spec, Gpu!NoPulseUndoesAnother

-----------------------------------------------------------------------------
(***************************************************************************)
(* The aircraft side by side.  A step of one of them leaves the others as  *)
(* they are, so each behaviour of all is one of each.                      *)
(***************************************************************************)
AircraftSides ==
  /\ MainDeck!Spec
  /\ Entry!Spec
  /\ IFly!Spec
  /\ EDeck!Spec
  /\ Airstair!Spec
  /\ Targets!Spec
  /\ Hose!Spec
  /\ Gpu!Spec

LEMMA AircraftRunsItsSides == AircraftSpec => AircraftSides
<1>1. AircraftInit =>
        MainDeck!Init /\ Entry!Init /\ IFly!Init /\ EDeck!Init /\ Airstair!Init
          /\ Targets!Init /\ Hose!Init /\ Gpu!Init
  BY DEF AircraftInit
<1> USE DEF HoldsMove, MainDeckMoves, EntryMoves, IFlyMoves, EDeckMoves, AirstairMoves,
            TargetsMoves, HoseMoves, GpuMoves, LoadsMove, aircraftVars, doorVars, serviceVars,
            deckVars, entryVars, iflyVars, eDeckVars, stairVars, targetVars, hoseVars, gpuVars
<1>2. [AircraftNext]_aircraftVars => [MainDeck!Next]_(MainDeck!deckVars)
  BY DEF AircraftNext, MainDeck!deckVars
<1>3. [AircraftNext]_aircraftVars => [Entry!Next]_(Entry!entryVars)
  BY DEF AircraftNext, Entry!entryVars
<1>4. [AircraftNext]_aircraftVars => [IFly!Next]_(IFly!iflyVars)
  BY DEF AircraftNext, IFly!iflyVars
<1>5. [AircraftNext]_aircraftVars => [EDeck!Next]_(EDeck!deckVars)
  BY DEF AircraftNext, EDeck!deckVars
<1>6. [AircraftNext]_aircraftVars => [Airstair!Next]_(Airstair!airstairVars)
  BY DEF AircraftNext, Airstair!airstairVars
<1>7. [AircraftNext]_aircraftVars => [Targets!Next]_(Targets!efbVars)
  BY DEF AircraftNext, Targets!efbVars
<1>8. [AircraftNext]_aircraftVars => [Hose!Next]_(Hose!refuelVars)
  BY DEF AircraftNext, Hose!refuelVars
<1>9. [AircraftNext]_aircraftVars => [Gpu!Next]_(Gpu!gpuVars)
  BY DEF AircraftNext, Gpu!gpuVars
<1> QED
  BY <1>1, <1>2, <1>3, <1>4, <1>5, <1>6, <1>7, <1>8, <1>9, PTL
  DEF AircraftSpec, AircraftSides, MainDeck!Spec, Entry!Spec, IFly!Spec, EDeck!Spec,
      Airstair!Spec, Targets!Spec, Hose!Spec, Gpu!Spec

(***************************************************************************)
(* What the rules of the aircraft never do, they never do for any delays,  *)
(* counts of attempts and faults: start to close a deck on a loader, turn  *)
(* a door round, close one on what stands at it, load another part's       *)
(* fuel, take the truck's hose, or press what has not answered the press   *)
(* before.                                                                 *)
(***************************************************************************)
THEOREM AircraftIsSafe == AircraftSpec => AircraftIsHandledAsMeant
<1>1. MainDeckConstants /\ IFlyConstants /\ EDeckConstants /\ AirstairConstants
  BY AircraftConstants DEF MainDeckConstants, IFlyConstants, EDeckConstants, AirstairConstants
<1>2. MainDeck!Spec => [](MainDeck!TypeOK /\ MainDeck!DeckIsKeptOpenForItsLoader)
  BY <1>1, AircraftConstants, MainDeckHolds
<1>3. Entry!Spec => []Entry!TypeOK /\ Entry!EntryIsNotShutOnItsAccess
  BY <1>1, AircraftConstants, EntryHolds
<1>4. IFly!Spec => [](IFly!TypeOK /\ IFly!PressesAreMeant)
  BY <1>1, AircraftConstants, IFlyHolds
<1>5. EDeck!Spec => [](EDeck!TypeOK /\ EDeck!DeckIsNotClosedOnItsLoader)
  BY <1>1, AircraftConstants, EDeckHolds
<1>6. Airstair!Spec => []Airstair!TypeOK /\ Airstair!DoorIsNotClosedOnTheStair
  BY <1>1, AircraftConstants, AirstairHolds
<1>7. Targets!Spec => []Targets!TypeOK /\ Targets!FuelIsNotDisturbed
  BY <1>1, AircraftConstants, TargetsHold
<1>8. Hose!Spec => []Hose!TypeOK /\ Hose!HoseIsNotTakenFromTheTruck
  BY <1>1, AircraftConstants, HoseHolds
<1>9. Gpu!Spec => []Gpu!TypeOK /\ Gpu!NoPulseUndoesAnother
  BY <1>1, AircraftConstants, GpuHolds
<1> QED
  BY AircraftRunsItsSides, <1>2, <1>3, <1>4, <1>5, <1>6, <1>7, <1>8, <1>9 DEF AircraftSides, AircraftIsHandledAsMeant
=============================================================================
