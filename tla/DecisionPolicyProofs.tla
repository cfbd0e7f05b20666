------------------------- MODULE DecisionPolicyProofs -------------------------
(***************************************************************************)
(* Proofs about DecisionPolicy, for any capacity, reserve, stock and       *)
(* number of outcomes looked back on, with a model and without one, and    *)
(* any number of decide requests in flight beside the loop.                *)
(***************************************************************************)
EXTENDS DecisionPolicy, SequenceTheorems, FiniteSetTheorems, TLAPS

USE LimitsAssumption DEF Sated, Peckish, Hungry, Starving, Urgent

-----------------------------------------------------------------------------
(* What is proposed and what is left of it. *)

LEMMA DecisionTyped ==
    ASSUME NEW action \in Actions, NEW target \in Targets
    PROVE  /\ Decision(action, target) \in Decisions
           /\ Decision(action, target).action = action
           /\ Decision(action, target).target = target
  BY DEF Decision, Decisions

LEMMA DecisionForm ==
    ASSUME NEW d \in Decisions
    PROVE  d = Decision(d.action, d.target)
  BY DEF Decision, Decisions

LEMMA NoneNoDecision == None \notin Decisions
  BY NoneAssumption

LEMMA LookMoveTyped ==
    /\ Look \in Decisions /\ Look.action = "look"
    /\ Move \in Decisions /\ Move.action = "move"
  BY DecisionTyped DEF Look, Move, Actions, Targets

LEMMA ProposalsTyped ==
    ASSUME NEW p \in Proposals
    PROVE  p \in Decisions
<1>1. CASE p \in {Look, Move}
  BY <1>1, LookMoveTyped
<1>2. ASSUME NEW a \in {"inspect", "pick_up", "eat", "move_to"}, NEW t \in Targets,
             p = Decision(a, t)
      PROVE  p \in Decisions
  BY <1>2, DecisionTyped DEF Actions
<1>3. QED
  BY <1>1, <1>2 DEF Proposals

LEMMA FallbackTyped ==
    ASSUME NEW p \in Fallback
    PROVE  p \in Decisions
<1>1. /\ Decision("flee", None) \in Decisions
      /\ Decision("move_to", "elsewhere") \in Decisions
      /\ Decision("eat", "food") \in Decisions
      /\ Decision("eat", "plant") \in Decisions
      /\ Decision("move_to", "plant") \in Decisions
      /\ Decision("pick_up", "plant") \in Decisions
  BY DecisionTyped DEF Actions, Targets
<1>2. CASE pressed
  BY <1>1, LookMoveTyped, <1>2 DEF Fallback
<1>3. CASE ~pressed /\ hunger >= Starving /\ carried > 0 /\ "eat" \in Available
  BY <1>1, LookMoveTyped, <1>3 DEF Fallback
<1>4. CASE ~pressed /\ ~(hunger >= Starving /\ carried > 0 /\ "eat" \in Available)
             /\ hunger >= Hungry /\ Visible
  BY <1>1, LookMoveTyped, <1>4 DEF Fallback
<1>5. CASE ~pressed /\ ~(hunger >= Starving /\ carried > 0 /\ "eat" \in Available)
             /\ ~(hunger >= Hungry /\ Visible)
  BY <1>1, LookMoveTyped, <1>5 DEF Fallback
<1>6. QED
  BY <1>2, <1>3, <1>4, <1>5

LEMMA PreexecutedTyped ==
    ASSUME NEW d \in Decisions
    PROVE  Preexecuted(d) \in Decisions
  BY LookMoveTyped DEF Preexecuted

\* An approach to what is in reach becomes one of the things that are useful there.
LEMMA PreferredUseful ==
    ASSUME ShownInReach
    PROVE  Preferred \in Useful
<1>1. ExecutableNow = Useful /\ "inspect" \in Useful /\ Useful \subseteq {"inspect", "eat", "pick_up"}
  BY DEF ExecutableNow, Useful
<1>2. \E a \in ExecutableNow :
        \/ a = "pick_up"
        \/ a = "eat" /\ "pick_up" \notin ExecutableNow
        \/ ExecutableNow = {"inspect"}
  <2>1. CASE "pick_up" \in Useful
    BY <1>1, <2>1
  <2>2. CASE "pick_up" \notin Useful /\ "eat" \in Useful
    BY <1>1, <2>2
  <2>3. CASE "pick_up" \notin Useful /\ "eat" \notin Useful
    BY <1>1, <2>3
  <2>4. QED
    BY <2>1, <2>2, <2>3
<1>3. QED
  BY <1>1, <1>2 DEF Preferred

\* What leaves the correction: a decision, and a meal or a harvest only where the policy
\* has it.
LEMMA CorrectedAllowed ==
    ASSUME NEW d \in Decisions
    PROVE  /\ Corrected(d) \in Decisions
           /\ Corrected(d).action = "eat" => EatingRecommended
           /\ Corrected(d).action = "pick_up" => CollectMoreFood
<1> DEFINE Allowed(e) == /\ e \in Decisions
                         /\ e.action = "eat" => EatingRecommended
                         /\ e.action = "pick_up" => CollectMoreFood
<1>1. Allowed(Look)
  BY LookMoveTyped
<1>2. /\ "eat" \in Useful => EatingRecommended
      /\ "pick_up" \in Useful => CollectMoreFood
      /\ Useful \subseteq Actions
  BY DEF Useful, Actions
<1>3. Allowed(Decision("move_to", "plant"))
  BY DecisionTyped DEF Actions, Targets
<1>4. ExecutableNow \subseteq Useful
  BY DEF ExecutableNow
<1>5. CASE SameFailures(d) >= 2
  <2>1. Corrected(d) = Look
    BY <1>5 DEF Corrected
  <2>2. QED
    BY <1>1, <2>1
<1>6. CASE ~(SameFailures(d) >= 2) /\ d = Decision("eat", None)
  <2>1. d.action = "eat"
    BY <1>6, DecisionTyped DEF Actions, Targets
  <2>2. Corrected(d) = IF EatingRecommended /\ carried > 0 THEN d ELSE Look
    BY <1>6 DEF Corrected
  <2>3. QED
    BY <1>1, <2>1, <2>2
<1>7. CASE /\ ~(SameFailures(d) >= 2) /\ d # Decision("eat", None)
           /\ d.action \in {"inspect", "pick_up", "eat"}
  <2>1. Corrected(d) = IF d.target = "plant" /\ d.action \in ExecutableNow THEN d
                       ELSE IF d.target = "plant" /\ d.action \in RequiresMoveTo
                       THEN Decision("move_to", "plant") ELSE Look
    BY <1>7 DEF Corrected
  <2>2. d.action \in ExecutableNow => Allowed(d)
    BY <1>2, <1>4
  <2> HIDE DEF Allowed
  <2>3. Allowed(Corrected(d))
    BY <1>1, <1>3, <2>1, <2>2
  <2>4. QED
    BY <2>3 DEF Allowed
<1>8. CASE /\ ~(SameFailures(d) >= 2) /\ d # Decision("eat", None)
           /\ d.action \notin {"inspect", "pick_up", "eat"}
           /\ d.action = "move_to"
  <2>1. Allowed(d)
    BY <1>8
  <2>2. ASSUME ShownInReach
        PROVE  Allowed(Decision(Preferred, "plant"))
    BY <1>2, <2>2, PreferredUseful, DecisionTyped DEF Targets
  <2>3. Corrected(d) \in {d, Look} \/ (ShownInReach /\ Corrected(d) = Decision(Preferred, "plant"))
    BY <1>8 DEF Corrected
  <2> HIDE DEF Allowed
  <2>4. Allowed(Corrected(d))
    BY <1>1, <2>1, <2>2, <2>3
  <2>5. QED
    BY <2>4 DEF Allowed
<1>9. CASE /\ ~(SameFailures(d) >= 2) /\ d # Decision("eat", None)
           /\ d.action \notin {"inspect", "pick_up", "eat"}
           /\ d.action # "move_to"
  <2>1. d # Decision("move_to", "plant")
    BY <1>9, DecisionTyped DEF Actions, Targets
  <2>2. Corrected(d) = d
    BY <1>9, <2>1 DEF Corrected
  <2>3. d.action \notin {"eat", "pick_up"}
    BY <1>9, DecisionForm
  <2>4. QED
    BY <2>2, <2>3
<1>10. QED
  BY <1>5, <1>6, <1>7, <1>8, <1>9

-----------------------------------------------------------------------------
(* Type correctness. *)

\* What the body executes is still there when it ends: only the end of an execution takes
\* food away or puts it into the inventory.
Backed ==
    exec # None =>
        /\ exec.action = "pick_up" => quantity > 0 /\ carried < Capacity
        /\ exec.action = "eat" => quantity > 0 \/ carried > 0

LEMMA OutcomesTyped ==
    ASSUME NEW d \in Decisions
    PROVE  Failed(d) \in Outcomes /\ Succeeded(d) \in Outcomes
  BY LookMoveTyped DEF Failed, Succeeded, Outcomes

\* The oldest outcome makes room for the newest.
LEMMA RecordedTyped ==
    ASSUME outcomes \in Seq(Outcomes), Len(outcomes) <= Window,
           NEW outcome \in Outcomes, Recorded(outcome)
    PROVE  outcomes' \in Seq(Outcomes) /\ Len(outcomes') <= Window
<1>1. Len(outcomes) \in Nat /\ Window \in Nat \ {0}
  BY LenProperties
<1>2. CASE Len(outcomes) < Window
  <2>1. outcomes' = Append(outcomes, outcome)
    BY <1>2 DEF Recorded
  <2>2. QED
    BY <1>1, <1>2, <2>1, AppendProperties
<1>3. CASE ~(Len(outcomes) < Window)
  <2>1. outcomes # <<>> /\ outcomes' = Append(Tail(outcomes), outcome)
    BY <1>1, <1>3, EmptySeq DEF Recorded
  <2>2. Tail(outcomes) \in Seq(Outcomes) /\ Len(Tail(outcomes)) = Len(outcomes) - 1
    BY <2>1, HeadTailProperties
  <2>3. QED
    BY <1>1, <1>3, <2>1, <2>2, AppendProperties
<1>4. QED
  BY <1>2, <1>3

LEMMA InitTyped == Init => TypeOK /\ Backed
<1> SUFFICES ASSUME Init PROVE TypeOK /\ Backed
  OBVIOUS
<1>1. outcomes \in Seq(Outcomes) /\ Len(outcomes) = 0
  BY EmptySeq DEF Init
<1>2. quantity \in 0..Stock /\ carried \in 0..Capacity /\ hunger \in Sated..Urgent
  BY DEF Init
<1>3. Window \in Nat /\ 0 <= Window
  OBVIOUS
<1>4. model \in BOOLEAN /\ pressed \in BOOLEAN /\ place \in Places /\ exec = None
  BY DEF Init
<1>5. asked \in [Tasks -> Decisions \cup {None}]
  BY DEF Init
<1>6. QED
  BY <1>1, <1>2, <1>3, <1>4, <1>5 DEF TypeOK, Backed

LEMMA ExecutedTyped ==
    ASSUME TypeOK, Backed, NEW d \in Decisions, Executed(d)
    PROVE  /\ exec' \in Decisions \cup {None}
           /\ outcomes' \in Seq(Outcomes) /\ Len(outcomes') <= Window
           /\ UNCHANGED <<model, quantity, place, hunger, carried, pressed>>
           /\ Backed'
<1>1. UNCHANGED <<model, quantity, place, hunger, carried, pressed>>
  BY DEF Executed, body
<1>2. CASE MayAccept(d) /\ exec' = d /\ UNCHANGED outcomes
  <2>1. /\ d.action = "pick_up" => quantity > 0 /\ carried < Capacity
        /\ d.action = "eat" => quantity > 0 \/ carried > 0
    BY <1>2 DEF MayAccept, Edible, InReach
  <2>2. QED
    BY <1>1, <1>2, <2>1 DEF TypeOK, Backed
<1>3. CASE MayRefuse(d) /\ Recorded(Failed(d)) /\ UNCHANGED exec
  BY <1>1, <1>3, OutcomesTyped, RecordedTyped DEF TypeOK, Backed
<1>4. QED
  BY <1>2, <1>3 DEF Executed

\* What is asked: a decision that the policy allows as things are.
Allowed(d) ==
    /\ d.action = "eat" => EatingRecommended
    /\ d.action = "pick_up" => CollectMoreFood

LEMMA AskedAllowed ==
    ASSUME NEW t \in Tasks, AskModel(t) \/ AskInVain(t)
    PROVE  \E p \in Decisions : Ask(t, Corrected(p)) /\ Corrected(p) \in Decisions /\ Allowed(Corrected(p))
<1>1. CASE AskModel(t)
  <2>1. PICK p \in Offers : Ask(t, Corrected(Preexecuted(p)))
    BY <1>1 DEF AskModel
  <2>2. Preexecuted(p) \in Decisions
    BY OffersAssumption, ProposalsTyped, PreexecutedTyped
  <2>3. QED
    BY <2>1, <2>2, CorrectedAllowed DEF Allowed
<1>2. CASE AskInVain(t)
  <2>1. PICK p \in Fallback : Ask(t, Corrected(p))
    BY <1>2 DEF AskInVain
  <2>2. QED
    BY <2>1, FallbackTyped, CorrectedAllowed DEF Allowed
<1>3. QED
  BY <1>1, <1>2

\* Without a model, what is executed at once.
LEMMA FallbackAllowed ==
    ASSUME AskFallback
    PROVE  \E p \in Decisions : Executed(Corrected(p)) /\ Corrected(p) \in Decisions /\ Allowed(Corrected(p))
<1>1. PICK p \in Fallback : Executed(Corrected(p))
  BY DEF AskFallback
<1>2. QED
  BY <1>1, FallbackTyped, CorrectedAllowed DEF Allowed

LEMMA DecisionsTyped ==
    ASSUME TypeOK, Backed,
           AskFallback \/ \E t \in Tasks : AskModel(t) \/ AskInVain(t) \/ Answer(t)
    PROVE  TypeOK' /\ Backed'
<1>1. CASE AskFallback
  <2>1. PICK p \in Decisions : Executed(Corrected(p)) /\ Corrected(p) \in Decisions
    BY <1>1, FallbackAllowed
  <2>2. QED
    BY <1>1, <2>1, ExecutedTyped DEF AskFallback, TypeOK
<1>2. ASSUME NEW t \in Tasks, AskModel(t) \/ AskInVain(t)
      PROVE  TypeOK' /\ Backed'
  <2>1. PICK p \in Decisions : Ask(t, Corrected(p)) /\ Corrected(p) \in Decisions
    BY <1>2, AskedAllowed
  <2>2. QED
    BY <2>1 DEF Ask, TypeOK, Backed, body
<1>3. ASSUME NEW t \in Tasks, Answer(t)
      PROVE  TypeOK' /\ Backed'
  <2>1. asked[t] \in Decisions /\ Executed(asked[t]) /\ asked' \in [Tasks -> Decisions \cup {None}]
    BY <1>3 DEF Answer, TypeOK
  <2>2. QED
    BY <2>1, ExecutedTyped DEF TypeOK
<1>4. QED
  BY <1>1, <1>2, <1>3

LEMMA CompleteTyped == TypeOK /\ Backed /\ Complete => TypeOK' /\ Backed'
<1> SUFFICES ASSUME TypeOK, Backed, Complete PROVE TypeOK' /\ Backed'
  OBVIOUS
<1>1. exec # None /\ exec \in Decisions /\ exec' = None /\ UNCHANGED <<model, asked, place, pressed>>
  BY DEF Complete, Substep, TypeOK
<1>2. outcomes' \in Seq(Outcomes) /\ Len(outcomes') <= Window
  BY <1>1, OutcomesTyped, RecordedTyped DEF Complete, TypeOK
<1>3. hunger' \in Sated..Urgent
  BY DEF Complete, Fed, TypeOK
<1>4. quantity' \in 0..Stock /\ carried' \in 0..Capacity
  <2>1. CASE exec.action = "eat" /\ carried > 0
    BY <1>1, <2>1 DEF Complete, TypeOK
  <2>2. CASE exec.action = "eat" /\ ~(carried > 0)
    BY <1>1, <2>2 DEF Complete, TypeOK, Backed
  <2>3. CASE exec.action = "pick_up"
    BY <1>1, <2>3 DEF Complete, TypeOK, Backed
  <2>4. CASE exec.action \notin {"eat", "pick_up"}
    BY <1>1, <2>4 DEF Complete, TypeOK
  <2>5. QED
    BY <2>1, <2>2, <2>3, <2>4
<1>5. QED
  BY <1>1, <1>2, <1>3, <1>4 DEF TypeOK, Backed

LEMMA InterruptTyped == TypeOK /\ Interrupt => TypeOK' /\ Backed'
<1> SUFFICES ASSUME TypeOK, Interrupt PROVE TypeOK' /\ Backed'
  OBVIOUS
<1>1. exec # None /\ exec \in Decisions /\ exec' = None
      /\ UNCHANGED <<model, asked, quantity, place, hunger, carried, pressed>>
  BY DEF Interrupt, Substep, body, TypeOK
<1>2. outcomes' \in Seq(Outcomes) /\ Len(outcomes') <= Window
  BY <1>1, OutcomesTyped, RecordedTyped DEF Interrupt, TypeOK
<1>3. QED
  BY <1>1, <1>2 DEF TypeOK, Backed

LEMMA StepTyped == TypeOK /\ Backed /\ [Next]_vars => TypeOK' /\ Backed'
<1> SUFFICES ASSUME TypeOK, Backed, [Next]_vars PROVE TypeOK' /\ Backed'
  OBVIOUS
<1>1. CASE Hungers
  BY <1>1 DEF Hungers, Substep, TypeOK, Backed
<1>2. CASE Presses
  BY <1>2 DEF Presses, Substep, body, TypeOK, Backed
<1>3. CASE Regrows
  BY <1>3 DEF Regrows, Substep, body, TypeOK, Backed
<1>4. CASE Walks
  BY <1>4 DEF Walks, Substep, TypeOK, Backed
<1>5. CASE UNCHANGED vars
  BY <1>5 DEF vars, body, TypeOK, Backed
<1>6. QED
  BY <1>1, <1>2, <1>3, <1>4, <1>5, DecisionsTyped, CompleteTyped, InterruptTyped DEF Next

\* Whatever is proposed: the plant and the inventory never go below nothing, no bound is
\* exceeded, and only the newest outcomes are looked back on (_complete,
\* _recent_action_outcomes).
THEOREM TypeCorrect == Spec => []TypeOK
<1>1. Spec => [](TypeOK /\ Backed)
  BY InitTyped, StepTyped, PTL DEF Spec
<1>2. QED
  BY <1>1, PTL

-----------------------------------------------------------------------------
(* The policy for food. *)

\* While the loop waits nothing is eaten or gathered, and hunger does not change: what it
\* asked for is still allowed.
LoopAllowed == asked[Loop] # None => Allowed(asked[Loop])

LEMMA StepLoopAllowed == TypeOK /\ LoopAllowed /\ [Next]_vars => LoopAllowed'
<1> SUFFICES ASSUME TypeOK, LoopAllowed, [Next]_vars, asked'[Loop] # None
             PROVE  Allowed(asked[Loop])'
  BY DEF LoopAllowed
<1> USE DEF Allowed, EatingRecommended, CollectMoreFood
<1>1. Loop \in Tasks
  BY DEF Tasks
<1>2. ASSUME asked'[Loop] = asked[Loop], UNCHANGED <<hunger, carried>>
      PROVE  Allowed(asked[Loop])'
  BY <1>2 DEF LoopAllowed
<1>3. ASSUME NEW t \in Tasks, AskModel(t) \/ AskInVain(t)
      PROVE  Allowed(asked[Loop])'
  <2>1. PICK p \in Decisions : Ask(t, Corrected(p)) /\ Allowed(Corrected(p))
    BY <1>3, AskedAllowed
  <2>2. UNCHANGED <<hunger, carried>> /\ asked' = [asked EXCEPT ![t] = Corrected(p)]
    BY <2>1 DEF Ask, body
  <2>3. CASE t = Loop
    <3>1. asked'[Loop] = Corrected(p)
      BY <1>1, <2>2, <2>3 DEF TypeOK
    <3>2. QED
      BY <2>1, <2>2, <3>1
  <2>4. CASE t # Loop
    BY <1>1, <1>2, <2>2, <2>4 DEF TypeOK
  <2>5. QED
    BY <2>3, <2>4
<1>4. ASSUME NEW t \in Tasks, Answer(t)
      PROVE  Allowed(asked[Loop])'
  <2>1. UNCHANGED <<hunger, carried>> /\ asked' = [asked EXCEPT ![t] = None]
    BY <1>4 DEF Answer, Executed, body
  <2>2. asked'[Loop] = asked[Loop]
    BY <1>1, <2>1 DEF TypeOK
  <2>3. QED
    BY <1>2, <2>1, <2>2
<1>5. CASE AskFallback
  BY <1>2, <1>5 DEF AskFallback, Executed, body
<1>6. CASE Complete \/ Interrupt \/ Walks \/ Hungers \/ Presses \/ Regrows
  BY <1>6 DEF Complete, Interrupt, Walks, Hungers, Presses, Regrows, Substep
<1>7. CASE UNCHANGED vars
  BY <1>2, <1>7 DEF vars, body
<1>8. QED
  BY <1>3, <1>4, <1>5, <1>6, <1>7 DEF Next

LEMMA StepKeepsPolicy ==
    ASSUME TypeOK, LoopAllowed, Next,
           exec' \notin {None, exec}, \A r \in Requests : asked'[r] = asked[r]
    PROVE  Allowed(exec')
<1>1. ASSUME NEW t \in Tasks, Answer(t)
      PROVE  Allowed(exec')
  <2>1. asked[t] # None /\ asked'[t] = None /\ Executed(asked[t])
    BY <1>1 DEF Answer, TypeOK
  <2>2. t = Loop
    BY <2>1 DEF Tasks
  <2>3. exec' = asked[Loop]
    BY <2>1, <2>2 DEF Executed
  <2>4. QED
    BY <2>1, <2>2, <2>3 DEF LoopAllowed
<1>2. CASE AskFallback
  <2>1. PICK p \in Decisions : Executed(Corrected(p)) /\ Allowed(Corrected(p))
    BY <1>2, FallbackAllowed
  <2>2. exec' = Corrected(p)
    BY <2>1 DEF Executed
  <2>3. QED
    BY <2>1, <2>2
<1>3. ~\E t \in Tasks : AskModel(t) \/ AskInVain(t)
  BY DEF AskModel, AskInVain, Ask
<1>4. ~(Complete \/ Interrupt \/ Walks \/ Hungers \/ Presses \/ Regrows)
  BY DEF Complete, Interrupt, Walks, Hungers, Presses, Regrows
<1>5. QED
  BY <1>1, <1>2, <1>3, <1>4 DEF Next

\* Whatever a model or the fallback proposes, whatever a correction makes of it, and
\* whatever a decide request begins while the loop waits for an answer: what the loop
\* starts is no meal while Ari is fed, and gathers no food beyond the reserve
\* (_correct_decision, food_policy).
THEOREM PolicyIsKept == Spec => FoodPolicyHolds
<1>1. Init => LoopAllowed
  BY DEF Init, LoopAllowed, Tasks
<1>2. TypeOK /\ LoopAllowed /\ [Next]_vars =>
        [exec' \notin {None, exec} /\ (\A r \in Requests : asked'[r] = asked[r]) =>
          /\ exec'.action = "eat" => EatingRecommended
          /\ exec'.action = "pick_up" => CollectMoreFood]_vars
  BY StepKeepsPolicy DEF Allowed
<1>3. Spec => []LoopAllowed
  BY <1>1, StepLoopAllowed, TypeCorrect, PTL DEF Spec
<1>4. QED
  BY <1>2, <1>3, TypeCorrect, PTL DEF Spec, FoodPolicyHolds

-----------------------------------------------------------------------------
(* What is stopped when it keeps failing. *)

\* Where an outcome stands among those that are looked back on.
Where(s, outcome) == {i \in DOMAIN s : s[i] = outcome}

LEMMA WhereFinite ==
    ASSUME NEW s \in Seq(Outcomes), NEW outcome
    PROVE  /\ Where(s, outcome) \in SUBSET (1..Len(s))
           /\ IsFiniteSet(Where(s, outcome))
           /\ Cardinality(Where(s, outcome)) \in Nat
<1>1. Len(s) \in Nat /\ DOMAIN s = 1..Len(s)
  BY LenProperties
<1>2. IsFiniteSet(1..Len(s)) /\ Where(s, outcome) \in SUBSET (1..Len(s))
  BY <1>1, FS_Interval DEF Where
<1>3. QED
  BY <1>2, FS_Subset, FS_CardinalityType

\* One more outcome is found at most once more.
LEMMA WhereAppended ==
    ASSUME NEW s \in Seq(Outcomes), NEW new \in Outcomes, NEW outcome
    PROVE  Cardinality(Where(Append(s, new), outcome))
             <= Cardinality(Where(s, outcome)) + (IF new = outcome THEN 1 ELSE 0)
<1>1. /\ Len(s) \in Nat /\ DOMAIN s = 1..Len(s)
      /\ Append(s, new) \in Seq(Outcomes) /\ Len(Append(s, new)) = Len(s) + 1
      /\ \A i \in 1..Len(s) : Append(s, new)[i] = s[i]
      /\ Append(s, new)[Len(s) + 1] = new
  BY LenProperties, AppendProperties
<1>2. DOMAIN Append(s, new) = 1..(Len(s) + 1)
  BY <1>1, LenProperties
<1>3. IsFiniteSet(Where(s, outcome)) /\ Cardinality(Where(s, outcome)) \in Nat
  BY WhereFinite
<1>4. CASE new = outcome
  <2>1. Where(Append(s, new), outcome) = Where(s, outcome) \cup {Len(s) + 1}
    BY <1>1, <1>2, <1>4 DEF Where
  <2>2. Cardinality(Where(s, outcome) \cup {Len(s) + 1}) <= Cardinality(Where(s, outcome)) + 1
    <3>1. Cardinality(Where(s, outcome) \cup {Len(s) + 1}) =
            IF Len(s) + 1 \in Where(s, outcome) THEN Cardinality(Where(s, outcome))
            ELSE Cardinality(Where(s, outcome)) + 1
      BY <1>3, FS_AddElement, Zenon
    <3>2. QED
      BY <1>3, <3>1
  <2>3. QED
    BY <1>4, <2>1, <2>2
<1>5. CASE new # outcome
  <2>1. Where(Append(s, new), outcome) = Where(s, outcome)
    BY <1>1, <1>2, <1>5 DEF Where
  <2>2. QED
    BY <1>3, <1>5, <2>1
<1>6. QED
  BY <1>4, <1>5

\* Without the oldest outcome nothing is found more often.
LEMMA WhereForgotten ==
    ASSUME NEW s \in Seq(Outcomes), s # <<>>, NEW outcome
    PROVE  Cardinality(Where(Tail(s), outcome)) <= Cardinality(Where(s, outcome))
<1> DEFINE later == [i \in Where(Tail(s), outcome) |-> i + 1]
<1>1. /\ Len(s) \in Nat /\ DOMAIN s = 1..Len(s)
      /\ Tail(s) \in Seq(Outcomes) /\ Len(Tail(s)) = Len(s) - 1
      /\ \A i \in 1..Len(Tail(s)) : Tail(s)[i] = s[i + 1]
  BY LenProperties, HeadTailProperties
<1>2. DOMAIN Tail(s) = 1..(Len(s) - 1)
  BY <1>1, LenProperties
<1>3. \A i \in Where(Tail(s), outcome) : i \in Nat /\ i + 1 \in Where(s, outcome)
  BY <1>1, <1>2 DEF Where
<1>4. later \in [Where(Tail(s), outcome) -> Where(s, outcome)]
  BY <1>3
<1>5. \A i, j \in Where(Tail(s), outcome) : later[i] = later[j] => i = j
  BY <1>3
<1>6. later \in Injection(Where(Tail(s), outcome), Where(s, outcome))
  BY <1>4, <1>5 DEF Injection, IsInjective
<1> HIDE DEF later
<1>7. QED
  BY <1>6, WhereFinite, FS_Injection

\* So whatever is recorded adds one to its own failures and to no others.
LEMMA FailuresRecorded ==
    ASSUME TypeOK, NEW new \in Outcomes, Recorded(new), NEW d \in Decisions
    PROVE  /\ SameFailures(d) \in Nat /\ SameFailures(d)' \in Nat
           /\ SameFailures(d)' <= SameFailures(d) + (IF new = Failed(d) THEN 1 ELSE 0)
<1> DEFINE kept == IF Len(outcomes) < Window THEN outcomes ELSE Tail(outcomes)
<1>1. outcomes \in Seq(Outcomes) /\ Len(outcomes) \in Nat
  BY LenProperties DEF TypeOK
<1>2. /\ kept \in Seq(Outcomes)
      /\ Cardinality(Where(kept, Failed(d))) <= Cardinality(Where(outcomes, Failed(d)))
  <2>1. CASE Len(outcomes) < Window
    BY <1>1, <2>1, WhereFinite
  <2>2. CASE ~(Len(outcomes) < Window)
    <3>1. outcomes # <<>>
      BY <1>1, <2>2, EmptySeq
    <3>2. QED
      BY <1>1, <2>2, <3>1, WhereForgotten, HeadTailProperties
  <2>3. QED
    BY <2>1, <2>2
<1>3. outcomes' = Append(kept, new)
  BY DEF Recorded
<1> HIDE DEF kept
<1>4. outcomes' \in Seq(Outcomes)
  BY <1>2, <1>3, AppendProperties
<1>5. Cardinality(Where(outcomes', Failed(d)))
        <= Cardinality(Where(kept, Failed(d))) + (IF new = Failed(d) THEN 1 ELSE 0)
  BY <1>2, <1>3, WhereAppended
<1>6. /\ SameFailures(d) = Cardinality(Where(outcomes, Failed(d)))
      /\ SameFailures(d)' = Cardinality(Where(outcomes', Failed(d)))
  BY DEF SameFailures, Where, Failed
<1>7. /\ Cardinality(Where(outcomes, Failed(d))) \in Nat
      /\ Cardinality(Where(kept, Failed(d))) \in Nat
      /\ Cardinality(Where(outcomes', Failed(d))) \in Nat
  BY <1>1, <1>2, <1>4, WhereFinite
<1>8. QED
  BY <1>2, <1>5, <1>6, <1>7

\* What _correct_decision writes in the place of a proposal.
Rewritten == {Look} \cup {Decision(a, "plant") : a \in {"move_to", "inspect", "pick_up", "eat"}}

\* A proposal that is left as it is has not failed twice.
LEMMA CorrectedNotFailing ==
    ASSUME NEW d \in Decisions, Corrected(d) \notin Rewritten
    PROVE  Corrected(d) = d /\ ~(SameFailures(d) >= 2)
<1>1. Look \in Rewritten /\ Decision("move_to", "plant") \in Rewritten
  BY DEF Rewritten
<1>2. ShownInReach => Decision(Preferred, "plant") \in Rewritten
  BY PreferredUseful DEF Rewritten, Useful
<1>3. Corrected(d) \in {d, Look, Decision("move_to", "plant")}
        \/ (ShownInReach /\ Corrected(d) = Decision(Preferred, "plant"))
  BY DEF Corrected
<1>4. ~(SameFailures(d) >= 2)
  BY <1>1 DEF Corrected
<1>5. QED
  BY <1>1, <1>2, <1>3, <1>4

\* The tasks that wait with a decision.
Waiting(d) == {t \in Tasks : asked[t] = d}

LEMMA WaitingFinite ==
    ASSUME NEW d
    PROVE  /\ IsFiniteSet(Tasks) /\ Cardinality(Tasks) \in Nat \ {0}
           /\ IsFiniteSet(Waiting(d)) /\ Cardinality(Waiting(d)) \in Nat
           /\ Cardinality(Waiting(d)) <= Cardinality(Tasks)
<1>1. IsFiniteSet({Loop}) /\ IsFiniteSet(Requests)
  BY TaskAssumption, FS_Singleton
<1>2. IsFiniteSet(Tasks)
  BY <1>1, FS_Union DEF Tasks
<1>3. Cardinality(Tasks) \in Nat /\ Cardinality(Tasks) # 0
  BY <1>2, FS_CardinalityType, FS_EmptySet DEF Tasks
<1>4. Waiting(d) \subseteq Tasks
  BY DEF Waiting
<1>5. QED
  BY <1>2, <1>3, <1>4, FS_Subset, FS_CardinalityType

\* How often a decision has failed, and may fail still before it is asked for again.
Burden(d) ==
    SameFailures(d) + Cardinality(Waiting(d)) + (IF exec = d THEN 1 ELSE 0)

\* The decisions that are not written by the correction were asked for while they had
\* failed once at most, by each task at most once; without a model none waits.
Stopped ==
    /\ \A d \in Decisions \ Rewritten : Burden(d) <= Cardinality(Tasks) + 1
    /\ ~model => \A t \in Tasks : asked[t] = None

LEMMA FailuresTyped ==
    ASSUME TypeOK
    PROVE  \A d \in Decisions : SameFailures(d) \in Nat
  BY WhereFinite DEF TypeOK, SameFailures, Where

\* What is executed adds at most one to its own burden, and nothing to another.
LEMMA ExecutedBurden ==
    ASSUME TypeOK, NEW e \in Decisions, Executed(e), NEW d \in Decisions
    PROVE  /\ SameFailures(d) \in Nat /\ SameFailures(d)' \in Nat
           /\ SameFailures(d)' + (IF exec' = d THEN 1 ELSE 0)
                <= SameFailures(d) + (IF exec = d THEN 1 ELSE 0) + (IF e = d THEN 1 ELSE 0)
<1>1. CASE exec' = e /\ UNCHANGED outcomes
  <2>1. SameFailures(d)' = SameFailures(d) /\ SameFailures(d) \in Nat
    BY <1>1, FailuresTyped DEF SameFailures
  <2>2. QED
    BY <1>1, <2>1
<1>2. CASE Recorded(Failed(e)) /\ UNCHANGED exec
  <2>1. /\ SameFailures(d) \in Nat /\ SameFailures(d)' \in Nat
        /\ SameFailures(d)' <= SameFailures(d) + (IF Failed(e) = Failed(d) THEN 1 ELSE 0)
    BY <1>2, OutcomesTyped, FailuresRecorded
  <2>2. Failed(e) = Failed(d) => e = d
    BY DEF Failed
  <2>3. QED
    BY <1>2, <2>1, <2>2
<1>3. QED
  BY <1>1, <1>2 DEF Executed

LEMMA AskStopped ==
    ASSUME TypeOK, Stopped, NEW t \in Tasks, AskModel(t) \/ AskInVain(t)
    PROVE  Stopped'
<1>1. PICK p \in Decisions : Ask(t, Corrected(p)) /\ Corrected(p) \in Decisions
  BY AskedAllowed
<1>2. /\ exec = None /\ UNCHANGED <<model, exec, outcomes>> /\ model
      /\ asked[t] = None /\ asked' = [asked EXCEPT ![t] = Corrected(p)]
  BY <1>1 DEF Ask, AskModel, AskInVain
<1>3. ASSUME NEW d \in Decisions \ Rewritten
      PROVE  Burden(d)' <= Cardinality(Tasks) + 1
  <2>1. SameFailures(d)' = SameFailures(d) /\ SameFailures(d) \in Nat
    BY <1>2, FailuresTyped DEF SameFailures
  <2>2. /\ Cardinality(Waiting(d)) \in Nat /\ Cardinality(Tasks) \in Nat
        /\ Cardinality(Waiting(d)') \in Nat /\ Cardinality(Waiting(d)') <= Cardinality(Tasks)
    <3>1. IsFiniteSet(Waiting(d)') /\ Waiting(d)' \subseteq Tasks
      BY WaitingFinite, FS_Subset DEF Waiting
    <3>2. QED
      BY <3>1, WaitingFinite, FS_Subset, FS_CardinalityType
  <2>3. CASE Corrected(p) = d
    <3>1. SameFailures(d) <= 1
      BY <2>1, <2>3, CorrectedNotFailing
    <3>2. exec' # d
      BY <1>2, <2>3, NoneNoDecision DEF TypeOK
    <3>3. QED
      BY <2>1, <2>2, <3>1, <3>2 DEF Burden
  <2>4. CASE Corrected(p) # d
    <3>1. Waiting(d)' = Waiting(d)
      BY <1>2, <2>4, NoneNoDecision DEF Waiting, TypeOK
    <3>2. Burden(d)' = Burden(d)
      BY <1>2, <2>1, <3>1 DEF Burden
    <3>3. QED
      BY <3>2 DEF Stopped
  <2>5. QED
    BY <2>3, <2>4
<1>4. QED
  BY <1>2, <1>3 DEF Stopped

LEMMA AnswerStopped ==
    ASSUME TypeOK, Stopped, NEW t \in Tasks, Answer(t)
    PROVE  Stopped'
<1>1. /\ asked[t] \in Decisions /\ Executed(asked[t]) /\ UNCHANGED model
      /\ asked' = [asked EXCEPT ![t] = None]
  BY DEF Answer, Executed, TypeOK
<1>2. ASSUME NEW d \in Decisions \ Rewritten
      PROVE  Burden(d)' <= Cardinality(Tasks) + 1
  <2>1. Waiting(d)' = IF asked[t] = d THEN Waiting(d) \ {t} ELSE Waiting(d)
    BY <1>1, NoneNoDecision DEF Waiting, TypeOK
  <2>2. asked[t] = d => t \in Waiting(d)
    BY DEF Waiting
  <2>3. /\ IsFiniteSet(Waiting(d)) /\ Cardinality(Waiting(d)) \in Nat
        /\ Cardinality(Tasks) \in Nat
    BY WaitingFinite
  <2>4. Cardinality(Waiting(d)') = Cardinality(Waiting(d)) - (IF asked[t] = d THEN 1 ELSE 0)
    <3>1. t \in Waiting(d) => Cardinality(Waiting(d) \ {t}) = Cardinality(Waiting(d)) - 1
      BY <2>3, FS_RemoveElement
    <3>2. QED
      BY <2>1, <2>2, <2>3, <3>1
  <2>5. /\ SameFailures(d) \in Nat /\ SameFailures(d)' \in Nat
        /\ SameFailures(d)' + (IF exec' = d THEN 1 ELSE 0)
             <= SameFailures(d) + (IF exec = d THEN 1 ELSE 0) + (IF asked[t] = d THEN 1 ELSE 0)
    BY <1>1, ExecutedBurden
  <2>6. Burden(d) <= Cardinality(Tasks) + 1
    BY DEF Stopped
  <2>7. QED
    BY <2>3, <2>4, <2>5, <2>6 DEF Burden
<1>3. ~model => \A u \in Tasks : asked'[u] = None
  BY <1>1 DEF Stopped, TypeOK
<1>4. QED
  BY <1>1, <1>2, <1>3 DEF Stopped

LEMMA FallbackStopped ==
    ASSUME TypeOK, Stopped, AskFallback
    PROVE  Stopped'
<1>1. PICK p \in Decisions : Executed(Corrected(p)) /\ Corrected(p) \in Decisions
  BY FallbackAllowed
<1>2. exec = None /\ ~model /\ UNCHANGED <<model, asked>>
  BY DEF AskFallback, Executed
<1>3. ASSUME NEW d \in Decisions \ Rewritten
      PROVE  Burden(d)' <= Cardinality(Tasks) + 1
  <2>1. Waiting(d) = {} /\ Waiting(d)' = {} /\ Cardinality({}) = 0
    BY <1>2, NoneNoDecision, FS_EmptySet DEF Waiting, Stopped
  <2>2. /\ SameFailures(d) \in Nat /\ SameFailures(d)' \in Nat
        /\ SameFailures(d)' + (IF exec' = d THEN 1 ELSE 0)
             <= SameFailures(d) + (IF exec = d THEN 1 ELSE 0) + (IF Corrected(p) = d THEN 1 ELSE 0)
    BY <1>1, ExecutedBurden
  <2>3. Corrected(p) = d => SameFailures(d) <= 1
    BY <2>2, CorrectedNotFailing
  <2>4. exec # d
    BY <1>2, NoneNoDecision
  <2>5. Burden(d) <= Cardinality(Tasks) + 1 /\ Cardinality(Tasks) \in Nat \ {0}
    BY WaitingFinite DEF Stopped
  <2>6. QED
    BY <2>1, <2>2, <2>3, <2>4, <2>5 DEF Burden
<1>4. QED
  BY <1>2, <1>3 DEF Stopped

LEMMA EndStopped ==
    ASSUME TypeOK, Stopped, Complete \/ Interrupt
    PROVE  Stopped'
<1>1. /\ exec # None /\ exec \in Decisions /\ exec' = None /\ UNCHANGED <<model, asked>>
      /\ Recorded(Succeeded(exec)) \/ Recorded(Failed(exec))
  BY DEF Complete, Interrupt, Substep, TypeOK
<1>2. ASSUME NEW d \in Decisions \ Rewritten
      PROVE  Burden(d)' <= Cardinality(Tasks) + 1
  <2>1. Succeeded(exec) # Failed(d) /\ (Failed(exec) = Failed(d) => exec = d)
    BY DEF Succeeded, Failed
  <2>2. /\ SameFailures(d) \in Nat /\ SameFailures(d)' \in Nat
        /\ SameFailures(d)' <= SameFailures(d) + (IF exec = d THEN 1 ELSE 0)
    <3>1. CASE Recorded(Succeeded(exec))
      BY <1>1, <2>1, <3>1, OutcomesTyped, FailuresRecorded
    <3>2. CASE Recorded(Failed(exec))
      BY <1>1, <2>1, <3>2, OutcomesTyped, FailuresRecorded
    <3>3. QED
      BY <1>1, <3>1, <3>2
  <2>3. Waiting(d)' = Waiting(d) /\ exec' # d
    BY <1>1, NoneNoDecision DEF Waiting
  <2>4. Cardinality(Waiting(d)) \in Nat /\ Cardinality(Tasks) \in Nat
    BY WaitingFinite
  <2>5. Burden(d) <= Cardinality(Tasks) + 1
    BY DEF Stopped
  <2>6. QED
    BY <2>2, <2>3, <2>4, <2>5 DEF Burden
<1>3. QED
  BY <1>1, <1>2 DEF Stopped

LEMMA StepStopped == TypeOK /\ Stopped /\ [Next]_vars => Stopped'
<1> SUFFICES ASSUME TypeOK, Stopped, [Next]_vars PROVE Stopped'
  OBVIOUS
<1>1. CASE Walks \/ Hungers \/ Presses \/ Regrows \/ UNCHANGED vars
  <2>1. UNCHANGED <<model, asked, exec, outcomes>>
    BY <1>1 DEF Walks, Hungers, Presses, Regrows, Substep, vars
  <2>2. QED
    BY <2>1 DEF Stopped, Burden, SameFailures, Waiting
<1>2. QED
  BY <1>1, AskStopped, AnswerStopped, FallbackStopped, EndStopped DEF Next

\* Every pair that _correct_decision does not write itself fails at most twice, and once
\* more for every decide request that may be in flight beside the loop.
OthersAreStopped == \A d \in Decisions \ Rewritten : SameFailures(d) <= Cardinality(Requests) + 2

\* FailingPairsAreStopped fails for no pair but those that the correction itself writes in
\* the place of another proposal, without asking how often they have failed: whatever else
\* the loop proposes fails twice at most among the outcomes looked back on, and each
\* request that asked before it saw the second failure adds one (_correct_decision).
THEOREM OtherPairsAreStopped == Spec => []OthersAreStopped
<1>1. Init => Stopped
  <2> SUFFICES ASSUME Init PROVE Stopped
    OBVIOUS
  <2>1. exec = None /\ outcomes = <<>> /\ asked = [t \in Tasks |-> None]
    BY DEF Init
  <2>2. ASSUME NEW d \in Decisions
        PROVE  Burden(d) = 0
    <3>1. {i \in DOMAIN outcomes : outcomes[i] = Failed(d)} = {} /\ Waiting(d) = {}
      BY <2>1, EmptySeq, NoneNoDecision DEF Waiting
    <3>2. SameFailures(d) = 0 /\ Cardinality(Waiting(d)) = 0
      <4>1. Cardinality({}) = 0
        BY FS_EmptySet
      <4>2. SameFailures(d) = Cardinality({})
        BY <3>1, Zenon DEF SameFailures
      <4>3. QED
        BY <3>1, <4>1, <4>2
    <3>3. QED
      BY <2>1, <3>2, NoneNoDecision DEF Burden
  <2>3. Cardinality(Tasks) \in Nat
    BY WaitingFinite
  <2>4. 0 <= Cardinality(Tasks) + 1
    BY <2>3
  <2>5. \A t \in Tasks : asked[t] = None
    BY <2>1
  <2>6. QED
    BY <2>2, <2>4, <2>5, Zenon DEF Stopped
<1>2. TypeOK /\ Stopped /\ [Next]_vars => Stopped'
  BY StepStopped
<1>3. TypeOK /\ Stopped => OthersAreStopped
  <2> SUFFICES ASSUME TypeOK, Stopped, NEW d \in Decisions \ Rewritten
               PROVE  SameFailures(d) <= Cardinality(Requests) + 2
    BY DEF OthersAreStopped
  <2>1. Cardinality(Tasks) = Cardinality(Requests) + 1 /\ Cardinality(Requests) \in Nat
    <3>1. Tasks = Requests \cup {Loop}
      BY DEF Tasks
    <3>2. QED
      BY <3>1, TaskAssumption, FS_AddElement, FS_CardinalityType
  <2>2. SameFailures(d) \in Nat /\ Cardinality(Waiting(d)) \in Nat
        /\ Burden(d) <= Cardinality(Tasks) + 1
    BY FailuresTyped, WaitingFinite DEF Stopped
  <2>3. QED
    BY <2>1, <2>2 DEF Burden
<1>4. QED
  BY <1>1, <1>2, <1>3, TypeCorrect, PTL DEF Spec

=============================================================================
