----------------------------- MODULE AttackSteps -----------------------------
(***************************************************************************)
(* The signed-gradient attacks on one test row, in every version the       *)
(* repository holds: app/ml/attacks/ and the re-implementations of the     *)
(* scripts, which are compared with one another in its reports.  A row has *)
(* continuous columns in [0,1] and one-hot groups of columns; here a value *)
(* is a whole number of grid units and 1.0 is One units.  The model under  *)
(* attack is abstracted to the sign its gradient has in each column, any   *)
(* sign in any step.  `hot' is the category of each group of the row.      *)
(***************************************************************************)
EXTENDS Integers, FiniteSets

CONSTANTS
    ContCols,   \* continuous columns
    Groups,     \* one-hot groups of columns
    Size,       \* Size[g] columns in group g
    One,        \* grid units of 1.0
    Calls,      \* attack and arguments of the calls considered
    Steps       \* bound on the steps of a call

VARIABLES
    call,       \* the arguments, constant
    orig, hot,  \* the row under attack, constant
    active,     \* groups that rsc leaves free, drawn once per call
    cont, cat,  \* the adversarial row
    step        \* steps done; -1 before the start

vars == <<call, orig, hot, active, cont, cat, step>>

Cols(g) == 1..Size[g]
GroupCols == UNION {{<<g, i>> : i \in Cols(g)} : g \in Groups}
Sign == {-1, 0, 1}

-----------------------------------------------------------------------------
(* The operations all versions are made of.                                *)

Clamp(x, lo, hi) == IF x < lo THEN lo ELSE IF x > hi THEN hi ELSE x

ProjectBoxOnly(x, o, eps) == Clamp(x, 0, One)           \* mutant

\* snap_continuous and its mirrors: the epsilon ball first, then the box.
Project(x, o, eps) == Clamp(o + Clamp(x - o, -eps, eps), 0, One)

\* torch.argmax: the first of the largest entries.
ArgMax(v, S) ==
    CHOOSE i \in S : \A j \in S : v[j] < v[i] \/ (v[j] = v[i] /\ i <= j)

Vertex(S, i) == [j \in S |-> IF j = i THEN One ELSE 0]

SnapAllLargest(v, S) ==                                 \* mutant
    [j \in S |-> IF \A k \in S : v[k] <= v[j] THEN One ELSE 0]

\* F.one_hot(argmax): the nearest vertex of the one-hot simplex.
Snap(v, S) == Vertex(S, ArgMax(v, S))

ScanBestLast(v, n) ==                                   \* mutant
    LET best[i \in 1..n] ==
            IF i = 1 THEN 1
            ELSE IF v[i] >= v[best[i - 1]] THEN i ELSE best[i - 1]
    IN  best[n]

\* The snap of the DACM engine, which scans for a strictly larger entry.
ScanBest(v, n) ==
    LET best[i \in 1..n] ==
            IF i = 1 THEN 1
            ELSE IF v[i] > v[best[i - 1]] THEN i ELSE best[i - 1]
    IN  best[n]

snap_discrete_vertex(v, n) == Vertex(1..n, ScanBest(v, n))

\* The snap of the replication test: the vertex at the least distance.
dacm_snap_categorical(v, n) ==
    LET square(i) == v[i] * v[i]
        total[i \in 0..n] == IF i = 0 THEN 0 ELSE total[i - 1] + square(i)
        dist(i) == total[n] - square(i) + (v[i] - One) * (v[i] - One)
    IN  Vertex(1..n, CHOOSE i \in 1..n : \A j \in 1..n :
                        dist(i) < dist(j) \/ (dist(i) = dist(j) /\ i <= j))

-----------------------------------------------------------------------------
(* The versions.  `noise': what the random start moves; `moves': whether   *)
(* continuous columns take the step; `cat': what becomes of a group in a   *)
(* step; `rsc': whether the call can freeze groups; `oneAlpha': whether    *)
(* groups take the step size of the continuous columns.                    *)

Version(noise, moves, c, rsc, oneAlpha) ==
    [noise |-> noise, moves |-> moves, cat |-> c, rsc |-> rsc,
     oneAlpha |-> oneAlpha]

\* app/ml/attacks
pgd_attack == Version({"cont"}, TRUE, "snap", TRUE, TRUE)
unified_pgd_attack == Version({"cont"}, TRUE, "snapIfMoved", TRUE, FALSE)
fgsm_attack == Version({}, TRUE, "box", FALSE, TRUE)
jsma_attack == Version({}, FALSE, "raise", FALSE, TRUE)
\* the training and evaluation scripts
pgd_attack_train == Version({"cont"}, TRUE, "snapIfMoved", FALSE, FALSE)
pgd_attack_eval == Version({"cont"}, TRUE, "snap", FALSE, FALSE)
pgd_attack_fixed_cat == Version({"cont"}, TRUE, "snap", FALSE, FALSE)
pgd_unconstrained == Version({"cont", "cat"}, TRUE, "box", FALSE, TRUE)
mixed_norm_attack == Version({}, TRUE, "flip", FALSE, TRUE)
categorical_only_attack == Version({}, FALSE, "box", FALSE, TRUE)
\* the verification scripts
pgd_attack_constrained == Version({}, TRUE, "snap", FALSE, FALSE)
pgd_attack_unconstrained == Version({}, TRUE, "box", FALSE, TRUE)
pgd_attack_clamped == Version({}, TRUE, "snapBoxed", FALSE, FALSE)
buggy_pgd == Version({}, TRUE, "resnap", FALSE, TRUE)
fixed_pgd == Version({}, TRUE, "snapBoxed", FALSE, TRUE)
pgd_attack_faithful == Version({"cont", "cat"}, TRUE, "snap", FALSE, TRUE)
test_step_sensitivity == Version({}, TRUE, "keep", FALSE, TRUE)
test_iterative_loss_tracking == Version({}, TRUE, "box", FALSE, TRUE)
\* dacm_replication_test.py and variance_audit.py
pgd_dacm_attack == Version({}, TRUE, "resnap", FALSE, TRUE)
unconstrained_pgd_attack == Version({"cont", "cat"}, TRUE, "box", FALSE, TRUE)
pgd_bpda_attack == Version({}, TRUE, "keep", FALSE, TRUE)
audit_pgd_dacm_attack == Version({"cont"}, TRUE, "resnap", FALSE, TRUE)
audit_unconstrained_pgd_attack == Version({"cont"}, TRUE, "box", FALSE, TRUE)

Versions ==
    {pgd_attack, unified_pgd_attack, fgsm_attack, jsma_attack,
     pgd_attack_train, pgd_attack_eval, pgd_attack_fixed_cat,
     pgd_unconstrained, mixed_norm_attack, categorical_only_attack,
     pgd_attack_constrained, pgd_attack_unconstrained, pgd_attack_clamped,
     buggy_pgd, fixed_pgd, pgd_attack_faithful, test_step_sensitivity,
     test_iterative_loss_tracking, pgd_dacm_attack, unconstrained_pgd_attack,
     pgd_bpda_attack, audit_pgd_dacm_attack, audit_unconstrained_pgd_attack}

ASSUME GridAssumption ==
    /\ One \in Nat \ {0}
    /\ IsFiniteSet(Groups)
    /\ Size \in [Groups -> Nat \ {0}]
    /\ Steps \in Nat

\* `K' is used by mixed_norm_attack, `steps' is 1 for FGSM.
ASSUME CallsAssumption ==
    \A c \in Calls :
        /\ c.version \in Versions
        /\ {c.epsilon, c.alpha, c.alphaCat, c.K, c.steps} \subseteq Nat
        /\ c.version.oneAlpha => c.alphaCat = c.alpha

-----------------------------------------------------------------------------

Categories == {h \in [Groups -> {p[2] : p \in GroupCols}] :
                  \A g \in Groups : h[g] \in Cols(g)}

OneHotRow == [g \in Groups |-> Vertex(Cols(g), hot[g])]

\* Rows come from the loaders: columns in [0,1], one category per group.
Init ==
    /\ call \in Calls
    /\ orig \in [ContCols -> 0..One]
    /\ hot \in Categories
    /\ active \in IF call.version.rsc THEN SUBSET Groups ELSE {Groups}
    /\ cont = orig
    /\ cat = OneHotRow
    /\ step = -1

Noised(x, n) == Clamp(x + n, 0, One)

RandomStart ==
    /\ step = -1
    /\ step' = 0
    /\ \E n \in [ContCols -> -call.epsilon..call.epsilon] :
          cont' = IF "cont" \in call.version.noise
                  THEN [c \in ContCols |-> Noised(orig[c], n[c])] ELSE cont
    /\ \E n \in [GroupCols -> IF "cat" \in call.version.noise
                                THEN -call.epsilon..call.epsilon ELSE {0}] :
          cat' = [g \in Groups |-> [i \in Cols(g) |->
                                      Noised(OneHotRow[g][i], n[<<g, i>>])]]
    /\ UNCHANGED <<call, orig, hot, active>>

\* The continuous columns in a step: signed gradient, ball, box.
MoveCont ==
    \E s \in [ContCols -> Sign] :
        cont' = IF call.version.moves
                THEN [c \in ContCols |-> Project(cont[c] + call.alpha * s[c],
                                                 orig[c], call.epsilon)]
                ELSE cont

\* Each group g becomes Moved(g, s) for the signs s of its columns; a group
\* that rsc has frozen goes back to the row's category.
MoveGroups(Moved(_, _)) ==
    \E s \in [GroupCols -> Sign] :
        cat' = [g \in Groups |-> IF g \in active THEN Moved(g, s)
                                 ELSE OneHotRow[g]]

Stepped(g, s) == [i \in Cols(g) |-> cat[g][i] + call.alphaCat * s[<<g, i>>]]

Boxed(g, s) == [i \in Cols(g) |->
                   Project(Stepped(g, s)[i], OneHotRow[g][i], call.epsilon)]

NextStep(modes) ==
    /\ call.version.cat \in modes
    /\ step \in 0..(Steps - 1) /\ step < call.steps
    /\ step' = step + 1
    /\ UNCHANGED <<call, orig, hot, active>>

SnapStep ==
    /\ NextStep({"snap", "snapIfMoved"})
    /\ MoveCont
    /\ IF call.version.cat = "snapIfMoved" /\ call.alphaCat = 0
       THEN cat' = cat
       ELSE MoveGroups(LAMBDA g, s : Snap(Stepped(g, s), Cols(g)))

\* The step is projected before it is snapped.
SnapBoxedStep ==
    /\ NextStep({"snapBoxed"})
    /\ MoveCont
    /\ MoveGroups(LAMBDA g, s : Snap(Boxed(g, s), Cols(g)))

ResnapStepped ==                                        \* mutant
    /\ NextStep({"resnap"})
    /\ MoveCont
    /\ MoveGroups(LAMBDA g, s : Snap(Stepped(g, s), Cols(g)))

\* The step is computed and the group of before the step is snapped.
ResnapStep ==
    /\ NextStep({"resnap"})
    /\ MoveCont
    /\ cat' = [g \in Groups |-> Snap(cat[g], Cols(g))]

\* No snap: groups are treated like continuous columns.
BoxStep ==
    /\ NextStep({"box"})
    /\ MoveCont
    /\ MoveGroups(Boxed)

KeepStep ==
    /\ NextStep({"keep"})
    /\ MoveCont
    /\ cat' = cat

\* The K groups of the largest scores take their best other category and
\* the rest that of the row; a group of one column stays.
FlipStep ==
    /\ NextStep({"flip"})
    /\ MoveCont
    /\ \E chosen \in SUBSET Groups, to \in Categories :
          /\ \/ Cardinality(chosen) = call.K
             \/ chosen = Groups /\ Cardinality(Groups) < call.K
          /\ \A g \in chosen : Size[g] > 1 => to[g] # hot[g]
          /\ cat' = [g \in Groups |-> IF g \in chosen
                                      THEN Vertex(Cols(g), to[g])
                                      ELSE OneHotRow[g]]

\* JSMA raises the K most salient columns of the row, of either kind.
RaiseStep ==
    /\ NextStep({"raise"})
    /\ \E picked \in SUBSET (ContCols \cup GroupCols) :
          /\ Cardinality(picked) = call.K
          /\ cont' = [c \in ContCols |-> IF c \in picked
                                         THEN Noised(cont[c], call.alpha) ELSE cont[c]]
          /\ cat' = [g \in Groups |-> [i \in Cols(g) |->
                        IF <<g, i>> \in picked THEN Noised(cat[g][i], call.alpha)
                        ELSE cat[g][i]]]

Next ==
    \/ RandomStart
    \/ SnapStep
    \/ SnapBoxedStep
    \/ ResnapStep
    \/ BoxStep
    \/ KeepStep
    \/ FlipStep
    \/ RaiseStep

Spec == Init /\ [][Next]_vars

-----------------------------------------------------------------------------
(* Correctness.                                                            *)

\* The row stays in the unit box, with a value for every column.
TypeOK ==
    /\ call \in Calls
    /\ orig \in [ContCols -> 0..One]
    /\ hot \in Categories
    /\ active \in SUBSET Groups
    /\ cont \in [ContCols -> 0..One]
    /\ \A g \in Groups : \A i \in Cols(g) : cat[g][i] \in 0..One
    /\ step \in -1..Steps

\* What the perturbation budget promises: at every step, whatever the
\* random start and the gradients were, a continuous column is within
\* epsilon of the row and in [0,1].  JSMA has no budget, and only raises.
InEpsilonBall ==
    \A c \in ContCols :
        /\ cont[c] \in 0..One
        /\ IF call.version.cat = "raise"
           THEN cont[c] >= orig[c]
           ELSE cont[c] - orig[c] \in -call.epsilon..call.epsilon

\* What DACM is for: the versions that snap return a row with one category
\* per group after any number of steps, also those that start from noise.
CategoriesAreValid ==
    step >= 1 /\ call.version.cat \notin {"box", "raise"} =>
        \A g \in Groups : \E i \in Cols(g) : cat[g] = Vertex(Cols(g), i)

NoiseReach == IF "cat" \in call.version.noise THEN call.epsilon ELSE 0

\* The strength a call needs to change a category.
CanFlip ==
    CASE call.version.cat \in {"snap", "snapIfMoved"} ->
             2 * (call.alphaCat + NoiseReach) >= One
      [] call.version.cat = "snapBoxed" ->
             2 * call.alphaCat >= One /\ 2 * call.epsilon >= One
      [] call.version.cat = "box" -> 2 * call.epsilon >= One
      [] call.version.cat = "flip" -> call.K > 0
      [] call.version.cat = "raise" -> call.alpha > 0
      [] call.version.cat \in {"resnap", "keep"} -> FALSE

\* The step-size threshold the verification scripts are about: below it no
\* number of steps and no gradients change a category, in groups of any
\* size; the snap of the group of before the step never does.
FlipsNeedStrongSteps ==
    ~CanFlip => \A g \in Groups : ArgMax(cat[g], Cols(g)) = hot[g]

Flipped == {g \in Groups : cat[g] # OneHotRow[g]}

\* The categorical budget: rsc changes no group it has frozen, and the
\* mixed-norm attack changes K groups, all of them if there are fewer.
OnlyAllowedGroupsFlip ==
    /\ call.version.rsc => Flipped \subseteq active
    /\ call.version.cat = "flip" /\ step >= 1 /\ (\A g \in Groups : Size[g] > 1) =>
          \/ Cardinality(Flipped) = call.K
          \/ Cardinality(Groups) < call.K /\ Flipped = Groups

\* The categorical part of an adversarial row: its shape and its budget.
CategoriesAreRight == CategoriesAreValid /\ OnlyAllowedGroupsFlip

\* The three implementations of the snap agree on every vector an attack
\* can produce: argmax, the strict scan of the Rust engine, least distance.
SnapsAgree ==
    \A g \in Groups :
        /\ Snap(cat[g], Cols(g)) = snap_discrete_vertex(cat[g], Size[g])
        /\ Snap(cat[g], Cols(g)) = dacm_snap_categorical(cat[g], Size[g])

=============================================================================
