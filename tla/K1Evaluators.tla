---------------------------- MODULE K1Evaluators ----------------------------
(***************************************************************************)
(* How the scripts decide whether one clean-correct test row withstands an *)
(* attacker who moves the continuous columns by at most Epsilon and        *)
(* changes at most K one-hot groups: by attacking or bounding the row in   *)
(* one categorical state after the other.  What the continuous attack of   *)
(* a state finds is any point of the box it may move in; rows of a batch   *)
(* do not influence one another.                                           *)
(***************************************************************************)
EXTENDS MarginBounds

CONSTANTS
    Nets,       \* networks considered
    Epsilon,    \* EVAL_EPSILON
    MaxK        \* bound on --K where the script does not limit it

\* The arrays of a network fit one another and the inputs; there may be any
\* number of neurons.
IsNetwork(net) ==
    /\ IsFiniteSet(DOMAIN net.w1) /\ IsFiniteSet(DOMAIN net.w2)
    /\ net.w1 \in [DOMAIN net.w1 -> [Inputs -> Int]]
    /\ {net.b1, net.gam, net.bet} \subseteq [DOMAIN net.w1 -> Int]
    /\ net.w2 \in [DOMAIN net.w2 -> [DOMAIN net.w1 -> Int]]
    /\ net.b2 \in [DOMAIN net.w2 -> Int]
    /\ net.w3 \in [Classes -> [DOMAIN net.w2 -> Int]] /\ net.b3 \in [Classes -> Int]

ASSUME NetsAssumption ==
    /\ NumCont \in Nat /\ Size \in Seq(Nat \ {0}) /\ One \in Nat
    /\ Epsilon \in Nat /\ MaxK \in Nat
    /\ \A net \in Nets : IsNetwork(net)

VARIABLES
    model,      \* the network and the row: its continuous columns, its
                \* hot columns and its label; constant
    eval, K,    \* the evaluator and its budget; constant
    left,       \* passes to do: each a set of flips it may end with
    visited,    \* categorical states attacked so far
    survives,   \* no attack so far was successful
    worst,      \* the least margin any attack has left
    at,         \* greedy only: the state so far
    steps       \* greedy only: groups flipped

evalVars == <<model, eval, K, left, visited, survives, worst, at, steps>>

-----------------------------------------------------------------------------
(* Categorical states and the points of a state.                           *)

BuildOver(s, flips) == s \cup flips                          \* mutant

\* The group of a flip is cleared first.
Build(s, flips) ==
    {p \in s : \A q \in flips : p[1] # q[1]} \cup flips

OneHotStates == {s \in SUBSET GroupCols :
                    \A g \in Groups : Cardinality({p \in s : p[1] = g}) = 1}

\* The states that differ from s in at most k groups: what K stands for.
Ball(s, k) == {t \in OneHotStates : Cardinality(t \ s) <= k}

Point(x, s) == [j \in Inputs |-> IF j[1] = 0 THEN x[j[2]]
                                 ELSE IF j \in s THEN One ELSE 0]

Least(x) == [c \in 1..NumCont |-> IF x[c] < Epsilon THEN 0 ELSE x[c] - Epsilon]
Most(x) == [c \in 1..NumCont |-> IF x[c] + Epsilon > One THEN One ELSE x[c] + Epsilon]

Box(m, s) == [lo |-> Point(Least(m.x), s), hi |-> Point(Most(m.x), s)]

Perturbed(m, s) ==
    {Point(y, s) : y \in {y \in [1..NumCont -> 0..One] :
                             \A c \in 1..NumCont : y[c] \in Least(m.x)[c]..Most(m.x)[c]}}

CleanMargin(m, s) == Margin(m.net, Point(m.x, s), m.label)
Margins(m, s) == {Margin(m.net, v, m.label) : v \in Perturbed(m, s)}

\* argmax takes the first class of a tie.
Misclassified(m, margin) == margin < 0 \/ (margin = 0 /\ m.label = 1)

-----------------------------------------------------------------------------
(* The evaluators: which states they attack, with what, and whether all    *)
(* attacks have to fail or the one of the largest loss.                    *)

Evaluator(over, with, verdict, ks) ==
    [over |-> over, with |-> with, verdict |-> verdict, ks |-> ks]

eval_scalability == Evaluator("candidates", "pgd", "all", {1, 2})
eval_jsma_vs_exhaustive == Evaluator("candidates", "pgd", "all", 0..MaxK)
jsma_group_attack == Evaluator("greedy", "pgd", "all", 1..MaxK)
probe_df_convergence_sets == Evaluator("candidates", "pgd", "all", {0, 1})
evaluate_unified == Evaluator("groups", "pgd", "all", {0, 1})
pgd_k1_survivors == Evaluator("groups", "pgd", "all", {1})
canonical_mixed_norm_attack == Evaluator("singles", "pgd", "worst", {0, 1})
canonical_k1_break_check == Evaluator("singles", "pgd", "worst", {1})
cw_mixed_norm_attack == Evaluator("singles", "cw", "worst", 0..MaxK)
cw_exhaustive_k1_survivors == Evaluator("candidates", "cw", "all", {1})
trace_logit_reversal == Evaluator("othersOfAny", "nothing", "all", {1})
trace_logit_reversal_hardened == Evaluator("others", "nothing", "all", {1})
certified_bound == Evaluator("candidates", "ibp", "all", {0, 1})
ibp_k1 == Evaluator("candidates", "ibp", "all", {0, 1})
crown_margin_lower_k1 == Evaluator("candidates", "crown", "all", {0, 1})

Evaluators ==
    {eval_scalability, eval_jsma_vs_exhaustive, jsma_group_attack,
     probe_df_convergence_sets, evaluate_unified, pgd_k1_survivors,
     canonical_mixed_norm_attack, canonical_k1_break_check,
     cw_mixed_norm_attack, cw_exhaustive_k1_survivors, trace_logit_reversal,
     trace_logit_reversal_hardened, certified_bound, ibp_k1,
     crown_margin_lower_k1}

\* Pairs of groups, and no triples.
enumerate_candidates(k) ==
    {{}}
    \cup {{p} : p \in IF k >= 1 THEN GroupCols ELSE {}}
    \cup {{pq[1], pq[2]} : pq \in {pq \in GroupCols \X GroupCols :
                                       k >= 2 /\ pq[1][1] < pq[2][1]}}

Pairs == {gh \in Groups \X Groups : gh[1] < gh[2]}

\* Mutant: every column of a group counts as a change.
minimal_counts_all(k) ==
    1 + (IF k >= 1 THEN SumFunction([g \in Groups |-> Size[g]]) ELSE 0)
      + (IF k >= 2 THEN SumFunction([gh \in Pairs |-> Size[gh[1]] * Size[gh[2]]]) ELSE 0)

minimal_candidate_count(k) ==
    1 + (IF k >= 1 THEN SumFunction([g \in Groups |-> Size[g] - 1]) ELSE 0)
      + (IF k >= 2 THEN SumFunction([gh \in Pairs |-> (Size[gh[1]] - 1) * (Size[gh[2]] - 1)])
          ELSE 0)

\* The K of the stacked attacks is on or off.  The gradient decides in which
\* category of its group a pass of the unified evaluators ends.
Passes(e, k, row) ==
    CASE e.over = "candidates" -> {{c} : c \in enumerate_candidates(k)}
      [] e.over = "singles" ->
             {{c} : c \in enumerate_candidates(IF k >= 1 THEN 1 ELSE 0)}
      [] e.over = "groups" ->
             {{{}}} \cup {{{<<g, i>>} : i \in 1..Size[g]} :
                             g \in IF k = 1 THEN Groups ELSE {}}
      [] e.over \in {"others", "othersOfAny"} -> {{{p}} : p \in GroupCols \ row}
      [] e.over = "greedy" -> {}

\* The margins a pass can end with: PGD takes what its last step has
\* reached; C&W falls back to the unperturbed state when it saw no success;
\* a bound is a margin nothing in the box is below.
Outcomes(m, e, s) ==
    CASE e.with = "pgd" -> Margins(m, s)
      [] e.with = "cw" -> {n \in Margins(m, s) : n < 0} \cup {CleanMargin(m, s)}
      [] e.with = "nothing" -> {CleanMargin(m, s)}
      [] e.with = "ibp" -> {ibp_margin_lower_bounds(m.net, Box(m, s), m.label)}
      [] e.with = "crown" ->
             {crown_margin_lower(m.net, Point(m.x, s), Box(m, s), m.label).num}

\* Bounds certify when they are positive, attacks fail when the class stays.
Withstood(m, e, margin) ==
    IF e.with \in {"ibp", "crown"} THEN margin > 0 ELSE ~Misclassified(m, margin)

-----------------------------------------------------------------------------

Rows(net) ==
    [net : {net}, x : [1..NumCont -> 0..One], row : OneHotStates, label : Classes]

\* Only rows that are classified correctly are evaluated; but trace_logit_reversal
\* collects such rows and then traces those with the numbers of its list.
Selected(e, m) ==
    e.over # "othersOfAny" => ~Misclassified(m, CleanMargin(m, m.row))

EvalInit ==
    /\ \E net \in Nets : model \in Rows(net)
    /\ eval \in Evaluators
    /\ Selected(eval, model)
    /\ K \in eval.ks
    /\ left = Passes(eval, K, model.row)
    /\ visited = {} /\ survives = TRUE
    /\ worst = CleanMargin(model, model.row)
    /\ at = model.row /\ steps = {}

Attack(s) ==
    \E margin \in Outcomes(model, eval, s) :
        /\ survives' = (survives /\ Withstood(model, eval, margin))
        /\ worst' = CASE eval.verdict = "all" -> worst
                      [] visited = {} -> margin
                      [] OTHER -> Min({worst, margin})
        /\ visited' = visited \cup {s}

\* The next pass; the passes are in an order that is of no consequence.
Pass ==
    /\ left # {}
    /\ LET pass == CHOOSE pass \in left : TRUE
       IN  /\ \E flips \in pass : Attack(Build(model.row, flips))
           /\ left' = left \ {pass}
    /\ UNCHANGED <<model, eval, K, at, steps>>

Classified == ~Misclassified(model, CleanMargin(model, at))

GreedyOnce(mayFlip) ==
    /\ eval.over = "greedy" /\ visited = {}
    /\ mayFlip /\ Classified
    /\ \E g \in Groups \ steps : \E i \in 1..Size[g] :
          /\ at' = Build(at, {<<g, i>>})
          /\ steps' = steps \cup {g}
    /\ UNCHANGED <<model, eval, K, left, visited, survives, worst>>

GreedyFlipOneMore == GreedyOnce(Cardinality(steps) <= K)     \* mutant

\* The most salient group that was not flipped yet gets the category of
\* the largest gradient, which can be the one it has.
GreedyFlip == GreedyOnce(Cardinality(steps) < K)

\* One attack on what the flips have led to; none without a flip.
GreedyAttack ==
    /\ eval.over = "greedy" /\ visited = {} /\ steps # {}
    /\ Cardinality(steps) = K \/ steps = Groups \/ ~Classified
    /\ Attack(at)
    /\ UNCHANGED <<model, eval, K, left, at, steps>>

EvalNext == Pass \/ GreedyFlip \/ GreedyAttack

EvalSpec == EvalInit /\ [][EvalNext]_evalVars

-----------------------------------------------------------------------------
(* Correctness.                                                            *)

Finished == left = {} /\ (eval.over = "greedy" => visited # {})
Broken == IF eval.verdict = "all" THEN ~survives ELSE Misclassified(model, worst)

CanBreak(s) == \E n \in Margins(model, s) : Misclassified(model, n)
MustBreak(s) == \A n \in Margins(model, s) : Misclassified(model, n)

\* The enumeration is what the threat model says, for the budgets it was
\* written for: all states that differ in at most K groups and no others,
\* and as many as minimal_candidate_count computes by formula.
EnumerationIsTheBall ==
    Finished /\ eval.over = "candidates" /\ K <= 2 =>
        /\ visited = Ball(model.row, K)
        /\ minimal_candidate_count(K) = Cardinality(visited)

\* An attack that reports a row as broken has found a break within its own
\* budget: greedy, gradient-led, enumerated or stacked.
BreaksAreWithinBudget ==
    Finished /\ Broken /\ eval.with \notin {"ibp", "crown"} =>
        \E s \in Ball(model.row, K) : CanBreak(s)

\* The exhaustive evaluators, those that require every state to withstand
\* and those that keep the state of the largest loss only, report no row as
\* robust that has a state which no continuous start survives.
ExhaustiveMissesNothing ==
    Finished /\ ~Broken /\ eval.with = "pgd" =>
        /\ eval.over = "candidates" /\ K <= 2 =>
               \A s \in Ball(model.row, K) : ~MustBreak(s)
        /\ eval.over = "singles" => \A s \in Ball(model.row, K) : ~MustBreak(s)

\* A certificate, of either kind, is never given to a row that has any
\* point in any state of the budget where the class changes: certified rows
\* are a subset of those any of the attacks leaves standing.
CertificatesAreSound ==
    Finished /\ survives /\ eval.with \in {"ibp", "crown"} =>
        \A s \in Ball(model.row, K) : ~CanBreak(s)

\* CROWN with these slopes is never below interval propagation, and neither
\* is above the least margin of the box.
CrownIsBetween ==
    Finished /\ eval.with = "crown" =>
        \A s \in visited :
            LET ibp == ibp_margin_lower_bounds(model.net, Box(model, s), model.label)
                crown == crown_margin_lower(model.net, Point(model.x, s),
                                            Box(model, s), model.label)
            IN  /\ ibp * crown.den <= crown.num
                /\ crown.num <= crown.den * Min(Margins(model, s))

=============================================================================
