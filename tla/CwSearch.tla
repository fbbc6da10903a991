------------------------------ MODULE CwSearch ------------------------------
(***************************************************************************)
(* app/ml/attacks/cw.py for one row in one categorical state: some rounds  *)
(* of an optimizer that starts at the row itself, each with a constant c,  *)
(* which is then searched on.  The optimizer is abstract: of the points it *)
(* passes, those that are looked at are a success or not, at a distance    *)
(* from the row.  It has no random part, so a constant determines them.    *)
(* Constants are c = confidence_init * 10 ^ (n / 2) for a number n, which  *)
(* stands for them here; all that matters is their order.                  *)
(***************************************************************************)
EXTENDS Integers, Sequences

CONSTANTS
    Rounds,     \* binary_search_steps
    Looks,      \* points looked at in a round before its end
    Dists       \* squared distances from the row

ASSUME SearchAssumption ==
    /\ Rounds \in Nat /\ Looks \in Nat
    /\ Dists \subseteq Nat /\ 0 \in Dists

VARIABLES
    rowSuccess, \* the row is misclassified in this state; constant
    c, c_low, c_high,
    round,      \* rounds begun
    look,       \* points of the round looked at; past the last between rounds
    points,     \* points[c]: what the optimizer passes with c, for the c tried
    best_l2,    \* the distance of best_adv; Infinite is the row itself
    met         \* distances of the successes looked at (history)

cwVars == <<rowSuccess, c, c_low, c_high, round, look, points, best_l2, met>>

\* A constant that is 0, as c_low is at first, and the two infinities.
Zero == -1
Infinite == -2

\* The distance is 0 at the row only.
Point == {p \in [success : BOOLEAN, l2 : Dists] : p.l2 = 0 => p.success = rowSuccess}
AtRow == [success |-> rowSuccess, l2 |-> 0]

\* With c = 0 the distance is all that is minimised, and it is least at once.
Passed(n) ==
    IF n = Zero THEN {[i \in 1..(Looks + 1) |-> AtRow]}
    ELSE [1..(Looks + 1) -> Point]

CwInit ==
    /\ rowSuccess \in BOOLEAN
    /\ c = 0 /\ c_low = Zero /\ c_high = Infinite
    /\ round = 0 /\ look = Looks + 1
    /\ points = <<>>
    /\ best_l2 = Infinite /\ met = {}

Begin ==
    /\ look = Looks + 1 /\ round < Rounds
    /\ round' = round + 1 /\ look' = 0
    /\ IF c \in DOMAIN points THEN points' = points
       ELSE \E p \in Passed(c) :
               points' = [n \in DOMAIN points \cup {c} |-> IF n = c THEN p ELSE points[n]]
    /\ UNCHANGED <<rowSuccess, c, c_low, c_high, best_l2, met>>

Now == points[c][look + 1]

\* The better of the successes is kept.
KeepLast ==                                                  \* mutant
    /\ best_l2' = IF Now.success THEN Now.l2 ELSE best_l2
    /\ met' = IF Now.success THEN met \cup {Now.l2} ELSE met

Keep ==
    /\ best_l2' = IF Now.success /\ (best_l2 = Infinite \/ Now.l2 < best_l2)
                  THEN Now.l2 ELSE best_l2
    /\ met' = IF Now.success THEN met \cup {Now.l2} ELSE met

\* Every fiftieth step, during the optimization.
Look ==
    /\ look < Looks
    /\ Keep
    /\ look' = look + 1
    /\ UNCHANGED <<rowSuccess, c, c_low, c_high, round, points>>

Middle(low, high) == IF low = Zero THEN Zero ELSE (low + high) \div 2

\* The masks of the code, in its order: c_high is set once, c_low only
\* before, and c follows from them.
SearchConstant ==
    LET success == Now.success
        high == IF success /\ c_high = Infinite THEN c ELSE c_high
        low == IF ~success /\ high = Infinite THEN c ELSE c_low
    IN  /\ c_high' = high
        /\ c_low' = low
        /\ c' = IF high # Infinite THEN Middle(low, high)
                ELSE IF ~success THEN c + 2 ELSE c

\* The end of a round: the last point is judged like the others.
EndRound ==
    /\ look = Looks
    /\ Keep
    /\ SearchConstant
    /\ look' = look + 1
    /\ UNCHANGED <<rowSuccess, round, points>>

CwNext == Begin \/ Look \/ EndRound

CwSpec == CwInit /\ [][CwNext]_cwVars

-----------------------------------------------------------------------------
(* Correctness.                                                            *)

CwTypeOK ==
    /\ rowSuccess \in BOOLEAN
    /\ {c, c_low} \subseteq Nat \cup {Zero}
    /\ c_high \in Nat \cup {Zero, Infinite}
    /\ round \in 0..Rounds /\ look \in 0..(Looks + 1)
    /\ points \in [DOMAIN points -> [1..(Looks + 1) -> Point]]
    /\ best_l2 \in Dists \cup {Infinite} /\ met \subseteq Dists

\* What is returned is the nearest success of all rounds and all points that
\* were looked at, those too that later rounds moved away from; and the row
\* itself only if there was none.
NearestSuccessIsKept ==
    IF met = {} THEN best_l2 = Infinite
    ELSE best_l2 \in met /\ \A d \in met : best_l2 <= d

\* "Per-sample geometric binary search on the confidence constant": between the
\* rounds the bracket is as narrow as the constants that were tried can make it,
\* c_high the least that ended in a success and c_low the greatest that did not.
BracketNarrows ==
    look = Looks + 1 /\ c_high # Infinite =>
        \A n \in DOMAIN points :
            IF points[n][Looks + 1].success THEN c_high <= n ELSE n <= c_low

\* What the code does instead: the first round that ends with a success sets a
\* bracket that does not change any more, so that all later rounds use one constant
\* and pass the same points (what else was tried are the steps of ten up to the first
\* success); it is 0, and they do not leave the row, if that was the first round.
OneConstantAfterSuccess ==
    c_high # Infinite =>
        /\ \A n \in DOMAIN points : n = c \/ (n % 2 = 0 /\ n <= c_high)
        /\ c_high = 0 => DOMAIN points \subseteq {0, Zero}

=============================================================================
