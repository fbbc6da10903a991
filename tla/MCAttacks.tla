------------------------------ MODULE MCAttacks ------------------------------
(* A call of a signed-gradient attack, or the search of Carlini-Wagner; the *)
(* two have nothing in common, and a behaviour is one of them.  One         *)
(* continuous column and two groups of two columns, on a grid of quarters:  *)
(* budgets and steps below, at and above the flip threshold.                *)
EXTENDS AttackSteps, CwSearch, TLC

CONSTANTS c1, g1, g2

VARIABLE attack

MCSize == (g1 :> 2) @@ (g2 :> 2)

Ks(v) == CASE v.cat = "flip" -> 0..3
           [] v.cat = "raise" -> {2}
           [] OTHER -> {0}

MCCalls ==
    {k \in [version : Versions, epsilon : {1, 2}, alpha : {1, 2},
            alphaCat : 0..2, K : 0..3, steps : {1, Steps}] :
        /\ k.K \in Ks(k.version)
        /\ IF k.version.oneAlpha THEN k.alphaCat = k.alpha ELSE k.alpha = 1
        /\ IF k.version = fgsm_attack THEN k.alpha = k.epsilon /\ k.steps = 1
           ELSE k.steps = Steps /\ ("cat" \in k.version.noise => k.epsilon = 1)}

\* What the attack that is not made would start from is of no consequence.
AnyCall == /\ call = CHOOSE k \in Calls : ~k.version.rsc
           /\ orig = [i \in ContCols |-> 0] /\ hot = [g \in Groups |-> 1]
AnySearch == ~rowSuccess

AttacksInit ==
    /\ Init /\ CwInit
    /\ \/ attack = "steps" /\ AnySearch
       \/ attack = "search" /\ AnyCall

AttacksNext ==
    \/ attack = "steps" /\ Next /\ UNCHANGED <<attack, cwVars>>
    \/ attack = "search" /\ CwNext /\ UNCHANGED <<attack, vars>>

AttacksSpec == AttacksInit /\ [][AttacksNext]_<<attack, vars, cwVars>>
=============================================================================
