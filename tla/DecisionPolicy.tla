--------------------------- MODULE DecisionPolicy ---------------------------
(***************************************************************************)
(* From what Ari perceives to what its body does: the offered actions, the *)
(* proposal of the model or of the fallback, the corrections before it is  *)
(* executed, and the outcomes that the next decision looks back on.        *)
(*                                                                         *)
(* There is one plant or bush with food.  Its distance is perceived        *)
(* rounded to a decimal, while start measures it exactly: at the "edge" it *)
(* looks to be in reach and is not.  Terrain, water, danger and what else  *)
(* there is are choices.                                                   *)
(*                                                                         *)
(* make_decision reads the affordances and the outcomes before it waits    *)
(* for the model, and starts what it made of the answer after that,        *)
(* without looking again.  Since nothing else decides the correction, what *)
(* is asked is here the corrected decision.  The loop that waits runs no   *)
(* substeps; a decide request that waits lets it go on.  The consolidation *)
(* of a body that woke up, resets and loads are left to Engine.            *)
(***************************************************************************)
EXTENDS Naturals, Sequences, FiniteSets

CONSTANTS
    Capacity,       \* inventory_capacity
    Reserve,        \* FOOD_RESERVE_TARGET
    Stock,          \* what the plant carries
    Window,         \* the limit of _recent_action_outcomes
    Offers,         \* what the model of an instance may propose
    Loop,           \* the task running _run_loop
    Requests,       \* decide requests that may be in flight at once
    None

ASSUME LimitsAssumption == {Capacity, Reserve, Stock, Window} \subseteq Nat \ {0}
ASSUME TaskAssumption   == Loop \notin Requests /\ IsFiniteSet(Requests)

Tasks == {Loop} \cup Requests

\* hunger_deficit, as the thresholds divide it: below 25, 55, 62 and 65.
Sated == 0
Peckish == 1
Hungry == 2
Starving == 3
Urgent == 4

VARIABLES
    model,      \* a model is configured; without one the fallback decides alone
    place,      \* how far the plant is
    quantity,   \* the food it has left
    hunger, carried,
    pressed,    \* there is danger, or severe thirst
    asked,      \* the decision each task waits for, None for a task that waits for none
    exec,       \* what the body executes
    outcomes    \* the newest action results, the last one at the end

body == <<place, hunger, carried>>
vars == <<model, quantity, body, pressed, asked, exec, outcomes>>

\* 0.1 to 1.6, to 2.2, to 2.25, as far as one sees, and beyond.
Places == {"reach", "arm", "edge", "far", "away"}

Decision(action, target) == [action |-> action, target |-> target]
Look == Decision("look", None)
Move == Decision("move", None)

Moves == {"move", "move_to", "flee"}
Targets == {"plant", "food", "elsewhere", "stale", None}
Actions == {"look", "move", "move_to", "flee", "inspect", "pick_up", "eat"}
Decisions == [action : Actions, target : Targets]

ASSUME NoneAssumption == None \notin Decisions

\* What later decisions tell apart of an outcome: the pair that failed, a look, another success.
Failed(d) == [decision |-> d, success |-> FALSE]
Succeeded(d) == [decision |-> IF d = Look THEN Look ELSE None, success |-> TRUE]
Outcomes == [decision : Decisions \cup {None}, success : BOOLEAN]

Init ==
    /\ model \in BOOLEAN
    /\ place \in Places
    /\ quantity = Stock
    /\ hunger = Sated /\ carried = 0
    /\ pressed = FALSE
    /\ asked = [t \in Tasks |-> None]
    /\ exec = None
    /\ outcomes = <<>>

-----------------------------------------------------------------------------
(* What is perceived and offered. *)

\* build_perception shows what has food left and is within the radius.
Visible == quantity > 0 /\ place # "away"

\* distance <= INTERACTION_RADIUS, for the rounded and for the exact one.
ShownInReach == Visible /\ place \in {"reach", "arm", "edge"}
InReach == quantity > 0 /\ place \in {"reach", "arm"}

\* available_actions: what the body can do where it stands, as far as one sees.
Available ==
    {"look", "move", "move_to", "inspect", "flee"}
    \cup (IF ShownInReach THEN {"pick_up"} ELSE {})
    \cup (IF ShownInReach \/ carried > 0 THEN {"eat"} ELSE {})

EatingRecommended == hunger >= Peckish
CollectMoreFood == carried < Reserve \/ hunger = Urgent

\* What one would do with the plant within reach.
Useful ==
    {"inspect"} \cup (IF EatingRecommended THEN {"eat"} ELSE {})
                \cup (IF CollectMoreFood THEN {"pick_up"} ELSE {})

ExecutableNow == IF ShownInReach THEN Useful ELSE {}
RequiresMoveTo == IF Visible /\ ~ShownInReach THEN Useful ELSE {}

-----------------------------------------------------------------------------
(* Proposals. *)

\* FallbackBrain.decide; it approaches what it sees every third time, and picks up what
\* is portable.
Fallback ==
    IF pressed
    THEN {Decision("flee", None), Move, Decision("move_to", "elsewhere")}
    ELSE IF hunger >= Starving /\ carried > 0 /\ "eat" \in Available
    THEN {Decision("eat", "food")}
    ELSE IF hunger >= Hungry /\ Visible
    THEN {Decision(IF place = "reach" THEN "eat" ELSE "move_to", "plant")}
    ELSE IF place = "reach" /\ carried < Capacity /\ "pick_up" \in Available
    THEN {Decision("pick_up", "plant"), Move}
    ELSE IF Visible /\ place # "reach"
    THEN {Decision("move_to", "plant"), Move} ELSE {Move}

\* A model may propose anything of the schema; to drink, sleep or speak is to this policy
\* what it is to look or to move.
Proposals ==
    {Look, Move}
    \cup {Decision(a, t) : a \in {"inspect", "pick_up", "eat", "move_to"}, t \in Targets}

ASSUME OffersAssumption == Offers \subseteq Proposals

\* _apply_preexecution_policy: instead of what is not needed, Ari moves on.
Preexecuted(d) ==
    IF \/ d.action = "eat" /\ ~EatingRecommended
       \/ d = Decision("pick_up", "plant") /\ Visible /\ ~CollectMoreFood
       \/ d = Look /\ outcomes # <<>> /\ outcomes[Len(outcomes)] = Succeeded(Look)
    THEN Move ELSE d

-----------------------------------------------------------------------------
(* The correction of a proposal. *)

SameFailures(d) == Cardinality({i \in DOMAIN outcomes : outcomes[i] = Failed(d)})

\* What an approach becomes within reach.
Preferred ==
    CHOOSE a \in ExecutableNow :
        \/ a = "pick_up"
        \/ a = "eat" /\ "pick_up" \notin ExecutableNow
        \/ ExecutableNow = {"inspect"}

\* _correct_decision.  It asks for failures of what is proposed, not of what the
\* correction makes of it.
Corrected(d) ==
    IF SameFailures(d) >= 2 THEN Look
    ELSE IF d = Decision("eat", None)
    THEN IF EatingRecommended /\ carried > 0 THEN d ELSE Look
    ELSE IF d.action \in {"inspect", "pick_up", "eat"}
    THEN IF d.target = "plant" /\ d.action \in ExecutableNow THEN d
         ELSE IF d.target = "plant" /\ d.action \in RequiresMoveTo
         THEN Decision("move_to", "plant") ELSE Look
    ELSE IF d = Decision("move_to", "plant")
    THEN IF ~Visible THEN Look
         ELSE IF ShownInReach THEN Decision(Preferred, "plant") ELSE d
    ELSE IF d.action = "move_to" /\ d.target \in {"food", "stale"} THEN Look
    ELSE d

-----------------------------------------------------------------------------
(* The controller. *)

\* _find_edible: what is carried comes first, whatever the target.
Edible(d) == carried > 0 \/ InReach

\* start, where it depends on the plant; terrain and water decide the rest.
MayAccept(d) ==
    CASE d.action = "pick_up" -> InReach /\ carried < Capacity
      [] d.action = "eat" -> Edible(d)
      [] d.action = "inspect" -> InReach
      [] OTHER -> TRUE

MayRefuse(d) ==
    CASE d.action \in {"pick_up", "eat", "inspect"} -> ~MayAccept(d)
      [] OTHER -> d.action \in Moves

\* Mutant: failures are never forgotten.
Recorded_Forever(outcome) ==
    LET kept == IF Len(outcomes) < Window THEN outcomes
                ELSE SelectSeq(outcomes, LAMBDA o : ~o.success)
    IN  outcomes' = IF Len(kept) < Window THEN Append(kept, outcome) ELSE kept

\* Mutant: all of them are looked back on.
Recorded_Unlimited(outcome) == outcomes' = Append(outcomes, outcome)

\* _handle_action_result and _recent_action_outcomes
Recorded(outcome) ==
    outcomes' = Append(IF Len(outcomes) < Window THEN outcomes ELSE Tail(outcomes), outcome)

\* start, and the record of a refusal; what runs is replaced, or left running.
Executed(d) ==
    /\ \/ MayAccept(d) /\ exec' = d /\ UNCHANGED outcomes
       \/ MayRefuse(d) /\ Recorded(Failed(d)) /\ UNCHANGED exec
    /\ UNCHANGED <<model, quantity, body, pressed>>

\* make_decision up to the await: a task decides for an idle body.
Ask(t, d) ==
    /\ exec = None /\ asked[t] = None
    /\ asked' = [asked EXCEPT ![t] = d]
    /\ UNCHANGED <<model, quantity, body, pressed, exec, outcomes>>

\* The model will answer ...
AskModel(t) ==
    /\ model
    /\ \E p \in Offers : Ask(t, Corrected(Preexecuted(p)))

\* ... or the fallback will, when the request has failed.
AskInVain(t) ==
    /\ model
    /\ \E p \in Fallback : Ask(t, Corrected(p))

\* make_decision after the await.
Answer(t) ==
    /\ asked[t] # None
    /\ Executed(asked[t])
    /\ asked' = [asked EXCEPT ![t] = None]

\* Without a model nothing is awaited.
AskFallback ==
    /\ exec = None /\ ~model
    /\ \E p \in Fallback : Executed(Corrected(p))
    /\ UNCHANGED asked

-----------------------------------------------------------------------------
(* The substeps of the loop. *)

\* Mutant: they go on while the loop waits.
Substep_Always == UNCHANGED <<model, asked>>

\* They run in the task that would wait.
Substep == asked[Loop] = None /\ UNCHANGED <<model, asked>>

\* A berry takes 22 points.
Fed(h) == CASE h = Urgent -> 1..4 [] h \in {Starving, Hungry} -> {Peckish} [] OTHER -> {Sated, h}

\* _complete
Complete ==
    /\ Substep
    /\ exec # None
    /\ IF exec.action = "eat"
       THEN /\ hunger' \in Fed(hunger)
            /\ IF carried > 0 THEN carried' = carried - 1 /\ UNCHANGED quantity
               ELSE quantity' = quantity - 1 /\ UNCHANGED carried
       ELSE /\ UNCHANGED hunger
            /\ IF exec.action = "pick_up" THEN carried' = carried + 1 /\ quantity' = quantity - 1
               ELSE UNCHANGED <<carried, quantity>>
    /\ Recorded(Succeeded(exec))
    /\ exec' = None
    /\ UNCHANGED <<place, pressed>>

\* interrupt, for what has appeared.
Interrupt ==
    /\ Substep
    /\ exec # None /\ pressed
    /\ Recorded(Failed(exec))
    /\ exec' = None
    /\ UNCHANGED <<quantity, body, pressed>>

\* move_along_path: a body that is moving may be anywhere, also when it is stopped.
Walks ==
    /\ Substep
    /\ exec # None /\ exec.action \in Moves
    /\ place' \in Places
    /\ UNCHANGED <<quantity, hunger, carried, pressed, exec, outcomes>>

\* Time passes: hunger, other needs, and the food that grows back.
Hungers ==
    /\ Substep
    /\ hunger < Urgent
    /\ hunger' = hunger + 1
    /\ UNCHANGED <<quantity, place, carried, pressed, exec, outcomes>>

Presses ==
    /\ Substep
    /\ pressed' = ~pressed
    /\ UNCHANGED <<quantity, body, exec, outcomes>>

Regrows ==
    /\ Substep
    /\ quantity = 0
    /\ quantity' = Stock
    /\ UNCHANGED <<body, pressed, exec, outcomes>>

Next ==
    \/ \E t \in Tasks : AskModel(t) \/ AskInVain(t) \/ Answer(t)
    \/ AskFallback
    \/ Complete \/ Interrupt \/ Walks \/ Hungers \/ Presses \/ Regrows

Spec == Init /\ [][Next]_vars

\* The loop decides for an idle body, and an execution comes to its end.
FairSpec == Spec /\ WF_vars(AskFallback) /\ WF_vars(Complete)

-----------------------------------------------------------------------------
(* Properties. *)

\* Every variable has its type, and no more outcomes are looked back on than the limit.
TypeOK ==
    /\ {model, pressed} \subseteq BOOLEAN
    /\ place \in Places
    /\ quantity \in 0..Stock /\ carried \in 0..Capacity /\ hunger \in Sated..Urgent
    /\ asked \in [Tasks -> Decisions \cup {None}]
    /\ exec \in Decisions \cup {None}
    /\ outcomes \in Seq(Outcomes) /\ Len(outcomes) <= Window

\* Whatever a model or the fallback proposes, and whatever a correction makes of it: the
\* loop never starts a meal while Ari is fed, and never gathers food beyond its reserve
\* unless hunger is urgent (affordances.py, food_policy and guidance), although the policy
\* was asked before the await, and a decide request may have begun something meanwhile.
\* The late answer to such a request may: what it starts was allowed when it was asked.
FoodPolicyHolds ==
    [][exec' \notin {None, exec} /\ (\A r \in Requests : asked'[r] = asked[r]) =>
        /\ exec'.action = "eat" => EatingRecommended
        /\ exec'.action = "pick_up" => CollectMoreFood]_vars

\* The fallback feeds a hungry body that stands at food: meals that failed before are
\* forgotten in time.  Only for one that carries nothing, and as long as nothing else
\* presses: past 62 the fallback proposes to eat what is carried by its kind, which
\* _correct_decision takes for an unknown target and turns into a look for ever.
HungryBodyEats ==
    (~model /\ exec = None /\ hunger >= Hungry /\ carried = 0 /\ quantity > 0
        /\ place = "reach" /\ ~pressed)
    ~> (pressed \/ (exec # None /\ exec.action = "eat"))

-----------------------------------------------------------------------------
(* A statement of the repository's texts that the code does not keep. *)

\* TROUBLESHOOTING.md: the deterministic boundary corrects "repeatedly failing
\* action/target pairs": none fails a third time among the outcomes looked back on.
FailingPairsAreStopped ==
    \A d \in Decisions : SameFailures(d) <= 2
=============================================================================
