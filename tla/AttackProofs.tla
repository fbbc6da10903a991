---------------------------- MODULE AttackProofs ----------------------------
(***************************************************************************)
(* The two kinds of attack.  First the signed-gradient attacks             *)
(* (AttackSteps): their budgets, the threshold below which a group keeps   *)
(* its category, the snap to categories, and the categories a call leaves  *)
(* alone, for every grid, row, group size, call and number of steps.       *)
(* Then the search of C&W (CwSearch), whose names here begin with Cw.      *)
(***************************************************************************)
EXTENDS AttackSteps, CwSearch, DataFacts

\* Project keeps a value in the ball of radius eps and in the box, for a row
\* that is in the box itself.
LEMMA ProjectFacts ==
  ASSUME NEW x \in Int, NEW o \in 0..One, NEW eps \in Nat
  PROVE  /\ Project(x, o, eps) \in 0..One
         /\ Project(x, o, eps) - o \in -eps..eps
BY GridAssumption DEF Project, Clamp

LEMMA NoisedFacts ==
  ASSUME NEW o \in 0..One, NEW eps \in Nat, NEW n \in -eps..eps
  PROVE  /\ Noised(o, n) \in 0..One
         /\ Noised(o, n) - o \in -eps..eps
BY GridAssumption DEF Noised, Clamp

\* An entry larger than all others is what ArgMax finds.
LEMMA ArgMaxIsLargest ==
  ASSUME NEW n \in Nat, NEW v, NEW h \in 1..n, \A j \in 1..n : v[j] \in Int,
         \A j \in 1..n : j # h => v[j] < v[h]
  PROVE  ArgMax(v, 1..n) = h
<1> DEFINE P(i) == \A j \in 1..n : v[j] < v[i] \/ (v[j] = v[i] /\ i <= j)
<1>1. P(h)
  OBVIOUS
<1>2. ASSUME NEW i \in 1..n, P(i) PROVE i = h
  BY <1>2
<1>3. (CHOOSE i \in 1..n : P(i)) = h
  <2> HIDE DEF P
  <2> QED BY <1>1, <1>2
<1> QED BY <1>3 DEF ArgMax

\* A bounded vector has a first largest entry.
LEMMA ArgMaxExists ==
  ASSUME NEW n \in Nat \ {0}, NEW v, NEW lo \in Int, NEW hi \in Int,
         \A j \in 1..n : v[j] \in lo..hi
  PROVE  ArgMax(v, 1..n) \in 1..n
<1> DEFINE P(i) == \A j \in 1..n : v[j] < v[i] \/ (v[j] = v[i] /\ i <= j)
           Gaps == {hi - v[j] : j \in 1..n}
<1>1. PICK m \in Gaps : \A k \in Gaps : m <= k
  <2>1. Gaps \in SUBSET Nat
    <3>1. \A j \in 1..n : hi - v[j] \in Nat
      OBVIOUS
    <3> QED BY <3>1
  <2>2. hi - v[1] \in Gaps
    <3>1. 1 \in 1..n
      OBVIOUS
    <3> QED BY <3>1
  <2> HIDE DEF Gaps
  <2> QED BY <2>1, <2>2, LeastNatural
<1> DEFINE Tops == {j \in 1..n : hi - v[j] = m}
<1>2. PICK i \in Tops : \A k \in Tops : i <= k
  <2>1. Tops \in SUBSET Nat
    OBVIOUS
  <2>2. Tops # {}
    BY <1>1
  <2> HIDE DEF Tops
  <2> QED BY <2>1, <2>2, LeastNatural
<1>3. P(i)
  <2> SUFFICES ASSUME NEW j \in 1..n
               PROVE  v[j] < v[i] \/ (v[j] = v[i] /\ i <= j)
    OBVIOUS
  <2>1. v[i] \in lo..hi /\ v[j] \in lo..hi /\ hi - v[i] = m
    BY <1>2
  <2>2. hi - v[j] \in Gaps
    OBVIOUS
  <2>3. hi - v[i] <= hi - v[j]
    BY <1>1, <2>1, <2>2
  <2>4. CASE v[j] = v[i]
    <3>1. j \in Tops
      BY <2>1, <2>4
    <3> QED BY <3>1, <1>2, <2>4
  <2>5. CASE v[j] # v[i]
    BY <2>1, <2>3, <2>5
  <2> QED BY <2>4, <2>5
<1>4. i \in 1..n
  BY <1>2
<1>5. (CHOOSE k \in 1..n : P(k)) \in 1..n
  <2> HIDE DEF P
  <2> QED BY <1>3, <1>4
<1> QED BY <1>5 DEF ArgMax

-----------------------------------------------------------------------------

\* Only snapping and boxing versions start from noisy groups.
LEMMA CallFacts ==
  ASSUME call \in Calls
  PROVE  /\ call.epsilon \in Nat /\ call.alpha \in Nat
         /\ call.alphaCat \in Nat /\ call.K \in Nat
         /\ "cat" \in call.version.noise => call.version.cat \in {"snap", "box"}
         /\ call.version.cat = "raise" => "cont" \notin call.version.noise
         /\ call.version.cat \in {"snap", "snapIfMoved", "snapBoxed", "resnap",
                                  "box", "keep", "flip", "raise"}
<1>1. call.version \in Versions
  BY CallsAssumption
<1>2. \A v \in Versions :
         /\ "cat" \in v.noise => v.cat \in {"snap", "box"}
         /\ v.cat = "raise" => "cont" \notin v.noise
         /\ v.cat \in {"snap", "snapIfMoved", "snapBoxed", "resnap",
                       "box", "keep", "flip", "raise"}
  BY DEF Versions, Version, pgd_attack, unified_pgd_attack, fgsm_attack,
         jsma_attack, pgd_attack_train, pgd_attack_eval, pgd_attack_fixed_cat,
         pgd_unconstrained, mixed_norm_attack, categorical_only_attack,
         pgd_attack_constrained, pgd_attack_unconstrained, pgd_attack_clamped,
         buggy_pgd, fixed_pgd, pgd_attack_faithful, test_step_sensitivity,
         test_iterative_loss_tracking, pgd_dacm_attack, unconstrained_pgd_attack,
         pgd_bpda_attack, audit_pgd_dacm_attack, audit_unconstrained_pgd_attack
<1>3. {call.epsilon, call.alpha, call.alphaCat, call.K, call.steps} \subseteq Nat
  BY CallsAssumption
<1> QED BY <1>1, <1>2, <1>3

\* The row itself: a vertex in every group.
LEMMA RowFacts ==
  ASSUME hot \in Categories, NEW g \in Groups
  PROVE  /\ Size[g] \in Nat \ {0} /\ hot[g] \in 1..Size[g]
         /\ OneHotRow[g] = Vertex(1..Size[g], hot[g])
         /\ \A i \in 1..Size[g] :
              OneHotRow[g][i] = IF i = hot[g] THEN One ELSE 0
BY GridAssumption DEF Categories, OneHotRow, Vertex, Cols

\* A vector nearer to the row than half the grid snaps back to the row.
LEMMA NearRowSnapsBack ==
  ASSUME hot \in Categories, NEW g \in Groups, NEW v, NEW r \in Nat, 2 * r < One,
         \A i \in Cols(g) : v[i] \in Int /\ v[i] - OneHotRow[g][i] \in -r..r
  PROVE  ArgMax(v, Cols(g)) = hot[g] /\ Snap(v, Cols(g)) = OneHotRow[g]
<1>1. \A j \in 1..Size[g] : j # hot[g] => v[j] < v[hot[g]]
  BY RowFacts, GridAssumption DEF Cols
<1>2. ArgMax(v, 1..Size[g]) = hot[g]
  BY <1>1, RowFacts, ArgMaxIsLargest DEF Cols
<1> QED BY <1>2, RowFacts DEF Snap, Cols

\* Snapping a bounded vector gives a vertex.
LEMMA SnapIsVertex ==
  ASSUME NEW g \in Groups, NEW v, NEW lo \in Int, NEW hi \in Int,
         \A i \in Cols(g) : v[i] \in lo..hi
  PROVE  \E i \in Cols(g) : Snap(v, Cols(g)) = Vertex(Cols(g), i)
BY ArgMaxExists, GridAssumption DEF Snap, Cols

-----------------------------------------------------------------------------
(* What a step does to one group.                                          *)

\* v differs from w by at most r in every column of the group.
Close(v, w, g, r) ==
    \A i \in Cols(g) : v[i] \in Int /\ v[i] - w[i] \in -r..r

\* The step before it is snapped or boxed: a signed step of each column.
LEMMA SteppedFacts ==
  ASSUME TypeOK, NEW g \in Groups, NEW i \in Cols(g),
         NEW s \in [GroupCols -> Sign]
  PROVE  /\ Stepped(g, s)[i] \in Int
         /\ Stepped(g, s)[i] - cat[g][i] \in -call.alphaCat..call.alphaCat
<1>1. cat[g][i] \in Int /\ call.alphaCat \in Nat
  BY CallFacts DEF TypeOK
<1>2. s[<<g, i>>] \in {-1, 0, 1}
  <2>1. <<g, i>> \in GroupCols
    BY DEF GroupCols
  <2> QED BY <2>1 DEF Sign
<1>3. Stepped(g, s)[i] = cat[g][i] + call.alphaCat * s[<<g, i>>]
  BY DEF Stepped
<1>4. CASE s[<<g, i>>] = 0
  BY <1>1, <1>3, <1>4
<1>5. CASE s[<<g, i>>] = 1
  BY <1>1, <1>3, <1>5
<1>6. CASE s[<<g, i>>] = -1
  <2>1. call.alphaCat * (-1) = -call.alphaCat
    BY <1>1
  <2> QED BY <1>1, <1>3, <1>6, <2>1
<1> QED BY <1>2, <1>4, <1>5, <1>6

\* A snapping step puts the row's category back, leaves a group that was not
\* to move, or snaps something at most the categorical step away.
LEMMA SnapMoves ==
  ASSUME TypeOK, SnapStep, NEW g \in Groups
  PROVE  \/ cat'[g] = OneHotRow[g]
         \/ cat'[g] = cat[g] /\ call.version.cat = "snapIfMoved"
         \/ \E v : Close(v, cat[g], g, call.alphaCat) /\ cat'[g] = Snap(v, Cols(g))
<1>1. CASE call.version.cat = "snapIfMoved" /\ call.alphaCat = 0
  BY <1>1 DEF SnapStep
<1>2. CASE ~(call.version.cat = "snapIfMoved" /\ call.alphaCat = 0)
  <2>1. PICK s \in [GroupCols -> Sign] :
          cat' = [h \in Groups |-> IF h \in active
                                   THEN Snap(Stepped(h, s), Cols(h))
                                   ELSE OneHotRow[h]]
    BY <1>2 DEF SnapStep, MoveGroups
  <2>2. Close(Stepped(g, s), cat[g], g, call.alphaCat)
    BY SteppedFacts DEF Close
  <2> QED BY <2>1, <2>2
<1> QED BY <1>1, <1>2

\* A version that boxes the step before it snaps it.
LEMMA SnapBoxedMoves ==
  ASSUME TypeOK, SnapBoxedStep, NEW g \in Groups
  PROVE  \/ cat'[g] = OneHotRow[g]
         \/ \E v : /\ \A i \in Cols(g) : v[i] \in 0..One
                   /\ Close(v, OneHotRow[g], g, call.epsilon)
                   /\ Close(cat[g], OneHotRow[g], g, 0) =>
                        Close(v, OneHotRow[g], g, call.alphaCat)
                   /\ cat'[g] = Snap(v, Cols(g))
<1>1. PICK s \in [GroupCols -> Sign] :
        cat' = [h \in Groups |-> IF h \in active
                                 THEN Snap(Boxed(h, s), Cols(h))
                                 ELSE OneHotRow[h]]
  BY DEF SnapBoxedStep, MoveGroups
<1>2. ASSUME NEW i \in Cols(g)
      PROVE  /\ Boxed(g, s)[i] \in 0..One
             /\ Boxed(g, s)[i] - OneHotRow[g][i] \in -call.epsilon..call.epsilon
             /\ cat[g][i] = OneHotRow[g][i] =>
                  Boxed(g, s)[i] - OneHotRow[g][i] \in -call.alphaCat..call.alphaCat
  <2>1. /\ Boxed(g, s)[i] = Project(Stepped(g, s)[i], OneHotRow[g][i], call.epsilon)
        /\ OneHotRow[g][i] \in 0..One
        /\ call.epsilon \in Nat /\ call.alphaCat \in Nat
    BY RowFacts, CallFacts, GridAssumption DEF TypeOK, Boxed, Cols
  <2>2. /\ Stepped(g, s)[i] \in Int
        /\ Stepped(g, s)[i] - cat[g][i] \in -call.alphaCat..call.alphaCat
    BY SteppedFacts
  <2>3. cat[g][i] \in 0..One
    BY DEF TypeOK
  <2>4. cat[g][i] = OneHotRow[g][i] =>
          Boxed(g, s)[i] - OneHotRow[g][i] \in -call.alphaCat..call.alphaCat
    BY <2>1, <2>2, <2>3, GridAssumption DEF Project, Clamp
  <2> QED BY <2>1, <2>2, <2>4, ProjectFacts
<1>3. /\ \A i \in Cols(g) : Boxed(g, s)[i] \in 0..One
      /\ Close(Boxed(g, s), OneHotRow[g], g, call.epsilon)
  BY <1>2, GridAssumption DEF Close
<1>4. Close(cat[g], OneHotRow[g], g, 0) =>
        Close(Boxed(g, s), OneHotRow[g], g, call.alphaCat)
  <2> SUFFICES ASSUME Close(cat[g], OneHotRow[g], g, 0), NEW i \in Cols(g)
               PROVE  /\ Boxed(g, s)[i] \in Int
                      /\ Boxed(g, s)[i] - OneHotRow[g][i]
                           \in -call.alphaCat..call.alphaCat
    BY DEF Close
  <2>1. cat[g][i] \in Int /\ OneHotRow[g][i] \in Int /\ cat[g][i] - OneHotRow[g][i] \in -0..0
    BY RowFacts, GridAssumption DEF Close, TypeOK, Cols
  <2>2. cat[g][i] = OneHotRow[g][i]
    BY <2>1
  <2> QED BY <1>2, <2>2, GridAssumption
<1> QED BY <1>1, <1>3, <1>4

\* How far from the row the groups of a call too weak to flip can be.
Reach == IF call.version.cat = "box" THEN call.epsilon
         ELSE IF step < 1 THEN NoiseReach ELSE 0

Near == ~CanFlip => \A g \in Groups : Close(cat[g], OneHotRow[g], g, Reach)

Vertices ==
    /\ step >= 1 \/ "cat" \notin call.version.noise
    /\ call.version.cat \notin {"box", "raise"}
    => \A g \in Groups : \E i \in Cols(g) : cat[g] = Vertex(Cols(g), i)

\* The inductive invariant: a weak call snaps back to the row because what
\* it snaps is near the row, and it is near because it snapped back.
IInv == TypeOK /\ InEpsilonBall /\ Near /\ Vertices

\* What one group may be after a step.
Good(w, g) ==
    /\ \A i \in Cols(g) : w[i] \in 0..One
    /\ ~CanFlip => Close(w, OneHotRow[g], g,
                         IF call.version.cat = "box" THEN call.epsilon ELSE 0)
    /\ call.version.cat \notin {"box", "raise"} =>
         \E i \in Cols(g) : w = Vertex(Cols(g), i)

LEMMA RowIsGood ==
  ASSUME TypeOK, NEW g \in Groups
  PROVE  Good(OneHotRow[g], g)
<1>1. /\ OneHotRow[g] = Vertex(Cols(g), hot[g]) /\ hot[g] \in Cols(g)
      /\ \A i \in Cols(g) : OneHotRow[g][i] \in 0..One
      /\ call.epsilon \in Nat
  <2>1. hot \in Categories /\ call.epsilon \in Nat
    BY CallFacts DEF TypeOK
  <2> QED BY <2>1, RowFacts, GridAssumption DEF Cols
<1>2. \A r \in Nat : Close(OneHotRow[g], OneHotRow[g], g, r)
  BY <1>1, GridAssumption DEF Close
<1> QED BY <1>1, <1>2 DEF Good

LEMMA VertexIsGood ==
  ASSUME NEW g \in Groups, NEW w, NEW i \in Cols(g), w = Vertex(Cols(g), i),
         ~CanFlip => w = OneHotRow[g], TypeOK
  PROVE  Good(w, g)
<1>1. \A j \in Cols(g) : w[j] \in 0..One
  BY GridAssumption DEF Vertex
<1>2. CanFlip => Good(w, g)
  BY <1>1 DEF Good
<1> QED BY <1>2, RowIsGood

\* Snapping near a group that is good already is good.
LEMMA SnapIsGood ==
  ASSUME TypeOK, NEW g \in Groups, NEW v, NEW lo \in Int, NEW hi \in Int,
         \A i \in Cols(g) : v[i] \in lo..hi,
         ~CanFlip => \E r \in Nat : 2 * r < One /\ Close(v, OneHotRow[g], g, r)
  PROVE  Good(Snap(v, Cols(g)), g)
<1>1. PICK i \in Cols(g) : Snap(v, Cols(g)) = Vertex(Cols(g), i)
  BY SnapIsVertex
<1>2. ~CanFlip => Snap(v, Cols(g)) = OneHotRow[g]
  BY NearRowSnapsBack DEF Close, TypeOK
<1> QED BY <1>1, <1>2, VertexIsGood

\* The same for values inside the unit box.
LEMMA SnapInBoxIsGood ==
  ASSUME TypeOK, NEW g \in Groups, NEW v, \A i \in Cols(g) : v[i] \in 0..One,
         ~CanFlip => \E r \in Nat : 2 * r < One /\ Close(v, OneHotRow[g], g, r)
  PROVE  Good(Snap(v, Cols(g)), g)
<1>1. PICK lo \in Int, hi \in Int : lo = 0 /\ hi = One
  BY GridAssumption
<1>2. \A i \in Cols(g) : v[i] \in lo..hi
  BY <1>1
<1> QED BY ONLY <1>2, lo \in Int, hi \in Int, TypeOK, g \in Groups, SnapIsGood,
    (~CanFlip => \E r \in Nat : 2 * r < One /\ Close(v, OneHotRow[g], g, r))

\* Distances add up.
LEMMA CloseAdds ==
  ASSUME TypeOK, NEW g \in Groups, NEW v, NEW a \in Nat, NEW b \in Nat,
         Close(v, cat[g], g, a), Close(cat[g], OneHotRow[g], g, b)
  PROVE  Close(v, OneHotRow[g], g, a + b)
<1>1. \A i \in Cols(g) : OneHotRow[g][i] \in Int /\ cat[g][i] \in Int
  BY RowFacts, GridAssumption DEF TypeOK, Cols
<1> QED BY <1>1 DEF Close

LEMMA SnapStepIsGood ==
  ASSUME IInv, SnapStep, NEW g \in Groups
  PROVE  Good(cat'[g], g)
<1>0. /\ TypeOK /\ call.version.cat \in {"snap", "snapIfMoved"}
      /\ step \in 0..(Steps - 1)
      /\ call.epsilon \in Nat /\ call.alphaCat \in Nat /\ NoiseReach \in Nat
      /\ call.version.cat = "snapIfMoved" => "cat" \notin call.version.noise
  BY CallFacts DEF IInv, TypeOK, SnapStep, NextStep, NoiseReach
<1>1. ~CanFlip => /\ 2 * (call.alphaCat + NoiseReach) < One
                  /\ Close(cat[g], OneHotRow[g], g, NoiseReach)
  <2>1. 2 * (call.alphaCat + NoiseReach) >= One => CanFlip
    BY <1>0 DEF CanFlip
  <2>2. Reach \in {0, NoiseReach}
    BY <1>0 DEF Reach
  <2>3. Close(cat[g], OneHotRow[g], g, 0) => Close(cat[g], OneHotRow[g], g, NoiseReach)
    BY <1>0 DEF Close
  <2>4. ~CanFlip => Close(cat[g], OneHotRow[g], g, Reach)
    BY DEF IInv, Near
  <2>5. ~CanFlip => 2 * (call.alphaCat + NoiseReach) < One
    BY <1>0, <2>1, GridAssumption
  <2> QED BY <2>2, <2>3, <2>4, <2>5
<1>2. CASE cat'[g] = OneHotRow[g]
  BY <1>0, <1>2, RowIsGood
<1>3. CASE cat'[g] = cat[g] /\ call.version.cat = "snapIfMoved"
  <2>1. NoiseReach = 0
    BY <1>0, <1>3 DEF NoiseReach
  <2> QED BY <1>0, <1>1, <1>3, <2>1 DEF IInv, TypeOK, Vertices, Good
<1>4. ASSUME NEW v, Close(v, cat[g], g, call.alphaCat), cat'[g] = Snap(v, Cols(g))
      PROVE  Good(cat'[g], g)
  <2>1. \A i \in Cols(g) : v[i] \in (-call.alphaCat)..(One + call.alphaCat)
    <3>1. \A i \in Cols(g) : cat[g][i] \in 0..One
      BY <1>0 DEF TypeOK
    <3> QED BY <1>0, <1>4, <3>1, GridAssumption DEF Close
  <2>2. ~CanFlip => Close(v, OneHotRow[g], g, call.alphaCat + NoiseReach)
    BY <1>0, <1>1, <1>4, CloseAdds
  <2>3. /\ call.alphaCat + NoiseReach \in Nat
        /\ -call.alphaCat \in Int /\ One + call.alphaCat \in Int
    BY <1>0, GridAssumption
  <2>4. ~CanFlip => \E r \in Nat : 2 * r < One /\ Close(v, OneHotRow[g], g, r)
    BY <1>1, <2>2, <2>3
  <2>5. Good(Snap(v, Cols(g)), g)
    BY <1>0, <2>1, <2>3, <2>4, SnapIsGood
  <2> QED BY <1>4, <2>5
<1> QED BY <1>0, <1>2, <1>3, <1>4, SnapMoves

LEMMA SnapBoxedStepIsGood ==
  ASSUME IInv, SnapBoxedStep, NEW g \in Groups
  PROVE  Good(cat'[g], g)
<1>0. /\ TypeOK /\ call.version.cat = "snapBoxed"
      /\ call.epsilon \in Nat /\ call.alphaCat \in Nat
      /\ "cat" \notin call.version.noise
  BY CallFacts DEF IInv, TypeOK, SnapBoxedStep, NextStep
<1>1. 2 * call.alphaCat >= One /\ 2 * call.epsilon >= One => CanFlip
  BY <1>0 DEF CanFlip
<1>2. ~CanFlip => Close(cat[g], OneHotRow[g], g, 0)
  BY <1>0 DEF IInv, Near, Reach, NoiseReach
<1>3. CASE cat'[g] = OneHotRow[g]
  BY <1>0, <1>3, RowIsGood
<1>4. ASSUME NEW v, \A i \in Cols(g) : v[i] \in 0..One,
             Close(v, OneHotRow[g], g, call.epsilon),
             Close(cat[g], OneHotRow[g], g, 0) =>
               Close(v, OneHotRow[g], g, call.alphaCat),
             cat'[g] = Snap(v, Cols(g))
      PROVE  Good(cat'[g], g)
  <2>1. ~CanFlip => \E r \in Nat : 2 * r < One /\ Close(v, OneHotRow[g], g, r)
    <3>1. CASE 2 * call.alphaCat >= One
      <4>1. ~CanFlip => 2 * call.epsilon < One
        BY <1>0, <1>1, <3>1, GridAssumption
      <4> QED BY <1>0, <1>4, <4>1
    <3>2. CASE 2 * call.alphaCat < One
      BY <1>0, <1>2, <1>4, <3>2
    <3> QED BY <1>0, <3>1, <3>2, GridAssumption
  <2>2. Good(Snap(v, Cols(g)), g)
    BY <1>0, <1>4, <2>1, SnapInBoxIsGood
  <2> QED BY <1>4, <2>2
<1> QED BY <1>0, <1>3, <1>4, SnapBoxedMoves

LEMMA ResnapStepIsGood ==
  ASSUME IInv, ResnapStep, NEW g \in Groups
  PROVE  Good(cat'[g], g)
<1>0. /\ TypeOK /\ call.version.cat = "resnap" /\ "cat" \notin call.version.noise
      /\ \A i \in Cols(g) : cat[g][i] \in 0..One
  BY CallFacts DEF IInv, TypeOK, ResnapStep, NextStep
<1>1. ~CanFlip => Close(cat[g], OneHotRow[g], g, 0)
  BY <1>0 DEF IInv, Near, Reach, NoiseReach
<1>2. ~CanFlip => \E r \in Nat : 2 * r < One /\ Close(cat[g], OneHotRow[g], g, r)
  <2>1. 0 \in Nat /\ 2 * 0 < One
    BY GridAssumption
  <2> QED BY <1>1, <2>1
<1>3. Good(Snap(cat[g], Cols(g)), g)
  <2>1. PICK v : v = cat[g]
    OBVIOUS
  <2>2. /\ \A i \in Cols(g) : v[i] \in 0..One
        /\ ~CanFlip => \E r \in Nat : 2 * r < One /\ Close(v, OneHotRow[g], g, r)
    BY <1>0, <1>2, <2>1
  <2>3. Good(Snap(v, Cols(g)), g)
    BY <1>0, <2>2, SnapInBoxIsGood
  <2> QED BY <2>1, <2>3
<1> QED BY <1>3 DEF ResnapStep

LEMMA BoxStepIsGood ==
  ASSUME IInv, BoxStep, NEW g \in Groups
  PROVE  Good(cat'[g], g)
<1>0. TypeOK /\ call.version.cat = "box" /\ call.epsilon \in Nat
  BY CallFacts DEF IInv, TypeOK, BoxStep, NextStep
<1>1. PICK s \in [GroupCols -> Sign] :
        cat' = [h \in Groups |-> IF h \in active THEN Boxed(h, s)
                                 ELSE OneHotRow[h]]
  BY DEF BoxStep, MoveGroups
<1>2. ASSUME NEW i \in Cols(g)
      PROVE  /\ Boxed(g, s)[i] \in 0..One
             /\ Boxed(g, s)[i] - OneHotRow[g][i] \in -call.epsilon..call.epsilon
  <2>1. /\ Boxed(g, s)[i] = Project(Stepped(g, s)[i], OneHotRow[g][i], call.epsilon)
        /\ OneHotRow[g][i] \in 0..One
    BY <1>0, RowFacts, GridAssumption DEF TypeOK, Boxed, Cols
  <2>2. Stepped(g, s)[i] \in Int
    BY <1>0, SteppedFacts
  <2> QED BY <1>0, <2>1, <2>2, ProjectFacts
<1>3. Good(Boxed(g, s), g)
  BY <1>0, <1>2, GridAssumption DEF Good, Close
<1> QED BY <1>0, <1>1, <1>3, RowIsGood

LEMMA KeepStepIsGood ==
  ASSUME IInv, KeepStep, NEW g \in Groups
  PROVE  Good(cat'[g], g)
<1>0. /\ TypeOK /\ call.version.cat = "keep" /\ "cat" \notin call.version.noise
      /\ NoiseReach = 0 /\ cat' = cat
  BY CallFacts DEF IInv, TypeOK, KeepStep, NextStep, NoiseReach
<1> QED BY <1>0 DEF IInv, TypeOK, Near, Reach, Vertices, Good

LEMMA FlipStepIsGood ==
  ASSUME IInv, FlipStep, NEW g \in Groups
  PROVE  Good(cat'[g], g)
<1>0. TypeOK /\ call.version.cat = "flip" /\ call.K \in Nat
  BY CallFacts DEF IInv, TypeOK, FlipStep, NextStep
<1>1. PICK chosen \in SUBSET Groups, to \in Categories :
        /\ \/ Cardinality(chosen) = call.K
           \/ chosen = Groups /\ Cardinality(Groups) < call.K
        /\ cat' = [h \in Groups |-> IF h \in chosen THEN Vertex(Cols(h), to[h])
                                    ELSE OneHotRow[h]]
  BY DEF FlipStep
<1>2. g \in chosen => CanFlip
  <2>1. IsFiniteSet(chosen)
    BY FS_Subset, GridAssumption
  <2>2. g \in chosen => Cardinality(chosen) # 0
    BY <2>1, FS_EmptySet
  <2>3. Cardinality(Groups) \in Nat
    BY FS_CardinalityType, GridAssumption
  <2> QED BY <1>0, <1>1, <2>2, <2>3 DEF CanFlip
<1>3. CASE g \in chosen
  <2>1. to[g] \in Cols(g) /\ cat'[g] = Vertex(Cols(g), to[g])
    BY <1>1, <1>3 DEF Categories
  <2> QED BY <1>0, <1>2, <1>3, <2>1, VertexIsGood
<1>4. CASE g \notin chosen
  BY <1>0, <1>1, <1>4, RowIsGood
<1> QED BY <1>3, <1>4

LEMMA RaiseStepIsGood ==
  ASSUME IInv, RaiseStep, NEW g \in Groups
  PROVE  Good(cat'[g], g)
<1>0. /\ TypeOK /\ call.version.cat = "raise" /\ call.alpha \in Nat
      /\ "cat" \notin call.version.noise /\ NoiseReach = 0
      /\ \A i \in Cols(g) : cat[g][i] \in 0..One
  BY CallFacts DEF IInv, TypeOK, RaiseStep, NextStep, NoiseReach
<1>1. PICK picked \in SUBSET (ContCols \cup GroupCols) :
        cat' = [h \in Groups |-> [i \in Cols(h) |->
                  IF <<h, i>> \in picked THEN Noised(cat[h][i], call.alpha)
                  ELSE cat[h][i]]]
  BY DEF RaiseStep
<1>2. \A i \in Cols(g) : cat'[g][i] \in 0..One
  BY <1>0, <1>1, GridAssumption DEF Noised, Clamp
<1>3. ~CanFlip => Close(cat[g], OneHotRow[g], g, 0) /\ call.alpha = 0
  BY <1>0 DEF IInv, Near, Reach, CanFlip
<1>4. ~CanFlip => \A i \in Cols(g) : cat'[g][i] = cat[g][i]
  BY <1>0, <1>1, <1>3, GridAssumption DEF Noised, Clamp
<1> QED BY <1>0, <1>2, <1>3, <1>4 DEF Good, Close

\* The continuous columns after a step that moves them.
LEMMA MoveContFacts ==
  ASSUME TypeOK, InEpsilonBall, MoveCont, call.version.cat # "raise"
  PROVE  /\ cont' \in [ContCols -> 0..One]
         /\ \A k \in ContCols : cont'[k] - orig[k] \in -call.epsilon..call.epsilon
<1>1. PICK s \in [ContCols -> Sign] :
        cont' = IF call.version.moves
                THEN [k \in ContCols |-> Project(cont[k] + call.alpha * s[k],
                                                 orig[k], call.epsilon)]
                ELSE cont
  BY DEF MoveCont
<1>2. CASE ~call.version.moves
  BY <1>1, <1>2 DEF TypeOK, InEpsilonBall
<1>3. CASE call.version.moves
  <2>1. ASSUME NEW k \in ContCols
        PROVE  /\ cont'[k] \in 0..One
               /\ cont'[k] - orig[k] \in -call.epsilon..call.epsilon
    <3>1. cont'[k] = Project(cont[k] + call.alpha * s[k], orig[k], call.epsilon)
      BY <1>1, <1>3
    <3>2. orig[k] \in 0..One /\ cont[k] \in Int /\ call.epsilon \in Nat
      BY CallFacts DEF TypeOK
    <3>3. call.alpha * s[k] \in Int
      <4>1. call.alpha \in Int /\ s[k] \in Int
        BY CallFacts DEF TypeOK, Sign
      <4> QED BY <4>1
    <3>4. PICK x \in Int : x = cont[k] + call.alpha * s[k]
      BY <3>2, <3>3
    <3>5. /\ Project(x, orig[k], call.epsilon) \in 0..One
          /\ Project(x, orig[k], call.epsilon) - orig[k]
               \in -call.epsilon..call.epsilon
      BY <3>2, ProjectFacts
    <3> QED BY <3>1, <3>4, <3>5
  <2> QED BY <1>1, <1>3, <2>1
<1> QED BY <1>2, <1>3

\* JSMA's columns only rise.
LEMMA RaiseContFacts ==
  ASSUME TypeOK, InEpsilonBall, RaiseStep
  PROVE  /\ cont' \in [ContCols -> 0..One]
         /\ \A k \in ContCols : cont'[k] >= orig[k]
<1>1. PICK picked \in SUBSET (ContCols \cup GroupCols) :
        cont' = [k \in ContCols |-> IF k \in picked
                                    THEN Noised(cont[k], call.alpha) ELSE cont[k]]
  BY DEF RaiseStep
<1>2. \A k \in ContCols : /\ cont[k] \in 0..One /\ orig[k] \in 0..One
                          /\ cont[k] >= orig[k]
  BY DEF TypeOK, InEpsilonBall, RaiseStep, NextStep
<1>3. \A k \in ContCols : /\ Noised(cont[k], call.alpha) \in 0..One
                          /\ Noised(cont[k], call.alpha) >= cont[k]
  BY <1>2, CallFacts, GridAssumption DEF TypeOK, Noised, Clamp
<1> QED BY <1>1, <1>2, <1>3

LEMMA StepPreservesIInv ==
  ASSUME IInv, NEW modes, NextStep(modes),
         \A g \in Groups : Good(cat'[g], g),
         cont' \in [ContCols -> 0..One],
         \A k \in ContCols :
            IF call.version.cat = "raise" THEN cont'[k] >= orig[k]
            ELSE cont'[k] - orig[k] \in -call.epsilon..call.epsilon
  PROVE  IInv'
<1>1. /\ TypeOK /\ step \in 0..(Steps - 1) /\ step' = step + 1
      /\ UNCHANGED <<call, orig, hot, active>>
  BY DEF IInv, NextStep
<1>2. TypeOK'
  BY <1>1, GridAssumption DEF TypeOK, Good, Categories
<1>3. InEpsilonBall'
  BY <1>1 DEF InEpsilonBall
<1>4. CanFlip' = CanFlip /\ OneHotRow' = OneHotRow
  BY <1>1 DEF CanFlip, NoiseReach, OneHotRow
<1>5. Near'
  <2>1. Reach' = IF call.version.cat = "box" THEN call.epsilon ELSE 0
    BY <1>1, GridAssumption DEF Reach
  <2> QED BY <1>4, <2>1 DEF Near, Good, Close
<1>6. Vertices'
  BY <1>1 DEF Vertices, Good
<1> QED BY <1>2, <1>3, <1>5, <1>6 DEF IInv

LEMMA RandomStartPreservesIInv ==
  ASSUME IInv, RandomStart
  PROVE  IInv'
<1>1. /\ TypeOK /\ step' = 0 /\ UNCHANGED <<call, orig, hot, active>>
      /\ call.epsilon \in Nat /\ hot \in Categories
      /\ orig \in [ContCols -> 0..One] /\ cont \in [ContCols -> 0..One]
  BY CallFacts DEF IInv, RandomStart, TypeOK
<1>2. PICK n \in [ContCols -> -call.epsilon..call.epsilon] :
        cont' = IF "cont" \in call.version.noise
                THEN [k \in ContCols |-> Noised(orig[k], n[k])] ELSE cont
  BY DEF RandomStart
<1>3. /\ cont' \in [ContCols -> 0..One]
      /\ \A k \in ContCols : cont'[k] - orig[k] \in -call.epsilon..call.epsilon
           \/ cont'[k] = cont[k]
      /\ call.version.cat = "raise" => cont' = cont
  <2>1. call.version.cat = "raise" => "cont" \notin call.version.noise
    BY <1>1, CallFacts DEF TypeOK
  <2>2. \A k \in ContCols : /\ Noised(orig[k], n[k]) \in 0..One
                            /\ Noised(orig[k], n[k]) - orig[k]
                                 \in -call.epsilon..call.epsilon
    BY <1>1, NoisedFacts
  <2> QED BY <1>1, <1>2, <2>1, <2>2
<1>4. PICK m \in [GroupCols -> IF "cat" \in call.version.noise
                               THEN -call.epsilon..call.epsilon ELSE {0}] :
        cat' = [g \in Groups |-> [i \in Cols(g) |->
                                    Noised(OneHotRow[g][i], m[<<g, i>>])]]
  BY DEF RandomStart
<1>5. NoiseReach \in Nat
  BY <1>1 DEF NoiseReach
<1>6. ASSUME NEW g \in Groups, NEW i \in Cols(g)
      PROVE  /\ cat'[g][i] \in 0..One
             /\ cat'[g][i] - OneHotRow[g][i] \in -NoiseReach..NoiseReach
             /\ "cat" \notin call.version.noise => cat'[g][i] = OneHotRow[g][i]
  <2>1. OneHotRow[g][i] \in 0..One
    BY <1>1, RowFacts, GridAssumption DEF Cols
  <2>2. m[<<g, i>>] \in -NoiseReach..NoiseReach
    <3>1. <<g, i>> \in GroupCols
      BY DEF GroupCols
    <3> QED BY <1>1, <3>1 DEF NoiseReach
  <2>3. cat'[g][i] = Noised(OneHotRow[g][i], m[<<g, i>>])
    BY <1>4
  <2>4. /\ cat'[g][i] \in 0..One
        /\ cat'[g][i] - OneHotRow[g][i] \in -NoiseReach..NoiseReach
    BY <1>5, <2>1, <2>2, <2>3, NoisedFacts
  <2>5. "cat" \notin call.version.noise => NoiseReach = 0
    BY DEF NoiseReach
  <2> QED BY <2>1, <2>4, <2>5, GridAssumption
<1>7. TypeOK'
  BY <1>1, <1>3, <1>6, GridAssumption DEF TypeOK, Categories
<1>8. InEpsilonBall'
  BY <1>1, <1>3 DEF InEpsilonBall, IInv
<1>9. Near'
  <2>1. Reach' \in {NoiseReach, call.epsilon} /\ NoiseReach \in {0, call.epsilon}
        /\ (Reach' # NoiseReach => Reach' = call.epsilon)
    BY <1>1 DEF Reach, NoiseReach
  <2>2. ASSUME NEW g \in Groups, NEW i \in Cols(g)
        PROVE  cat'[g][i] \in Int /\ cat'[g][i] - OneHotRow[g][i] \in -Reach'..Reach'
    <3>1. OneHotRow[g][i] \in 0..One
      BY <1>1, RowFacts, GridAssumption DEF Cols
    <3> QED BY <1>1, <1>6, <2>1, <3>1, GridAssumption
  <2>3. OneHotRow' = OneHotRow
    BY <1>1 DEF OneHotRow
  <2> QED BY <2>2, <2>3 DEF Near, Close
<1>10. Vertices'
  <2>1. ASSUME "cat" \notin call.version.noise, NEW g \in Groups
        PROVE  \E i \in Cols(g) : cat'[g] = Vertex(Cols(g), i)
    <3>1. cat'[g] = [i \in Cols(g) |-> Noised(OneHotRow[g][i], m[<<g, i>>])]
      BY <1>4
    <3>2. cat'[g] = [i \in Cols(g) |-> OneHotRow[g][i]]
      BY <1>6, <2>1, <3>1
    <3>3. cat'[g] = Vertex(Cols(g), hot[g]) /\ hot[g] \in Cols(g)
      BY <1>1, <3>2, RowFacts DEF Cols, Vertex
    <3> QED BY <3>3
  <2> QED BY <1>1, <2>1 DEF Vertices
<1> QED BY <1>7, <1>8, <1>9, <1>10 DEF IInv

LEMMA InitIInv == Init => IInv
<1> SUFFICES ASSUME Init PROVE IInv
  OBVIOUS
<1>1. /\ call \in Calls /\ call.epsilon \in Nat /\ hot \in Categories
      /\ cont = orig /\ cat = OneHotRow /\ step = -1
      /\ orig \in [ContCols -> 0..One]
  BY CallFacts DEF Init
<1>2. \A g \in Groups : /\ hot[g] \in Cols(g)
                        /\ OneHotRow[g] = Vertex(Cols(g), hot[g])
                        /\ \A i \in Cols(g) : OneHotRow[g][i] \in 0..One
  BY <1>1, RowFacts, GridAssumption DEF Cols
<1>3. TypeOK
  <2>1. active \in SUBSET Groups
    BY DEF Init
  <2> QED BY <1>1, <1>2, <2>1, GridAssumption DEF TypeOK
<1>4. InEpsilonBall
  BY <1>1 DEF InEpsilonBall
<1>5. Near
  <2>1. Reach \in Nat
    BY <1>1 DEF Reach, NoiseReach
  <2> QED BY <1>1, <1>2, <2>1, GridAssumption DEF Near, Close
<1>6. Vertices
  BY <1>1, <1>2 DEF Vertices
<1> QED BY <1>3, <1>4, <1>5, <1>6 DEF IInv

LEMMA NextIInv == IInv /\ [Next]_vars => IInv'
<1> SUFFICES ASSUME IInv, [Next]_vars PROVE IInv'
  OBVIOUS
<1>0. TypeOK /\ InEpsilonBall
  BY DEF IInv
<1>1. CASE RandomStart
  BY <1>1, RandomStartPreservesIInv
<1>2. CASE SnapStep
  <2>1. NextStep({"snap", "snapIfMoved"}) /\ MoveCont /\ call.version.cat # "raise"
    BY <1>2 DEF SnapStep, NextStep
  <2> QED BY <1>0, <1>2, <2>1, SnapStepIsGood, MoveContFacts, StepPreservesIInv
<1>3. CASE SnapBoxedStep
  <2>1. NextStep({"snapBoxed"}) /\ MoveCont /\ call.version.cat # "raise"
    BY <1>3 DEF SnapBoxedStep, NextStep
  <2> QED BY <1>0, <1>3, <2>1, SnapBoxedStepIsGood, MoveContFacts, StepPreservesIInv
<1>4. CASE ResnapStep
  <2>1. NextStep({"resnap"}) /\ MoveCont /\ call.version.cat # "raise"
    BY <1>4 DEF ResnapStep, NextStep
  <2> QED BY <1>0, <1>4, <2>1, ResnapStepIsGood, MoveContFacts, StepPreservesIInv
<1>5. CASE BoxStep
  <2>1. NextStep({"box"}) /\ MoveCont /\ call.version.cat # "raise"
    BY <1>5 DEF BoxStep, NextStep
  <2> QED BY <1>0, <1>5, <2>1, BoxStepIsGood, MoveContFacts, StepPreservesIInv
<1>6. CASE KeepStep
  <2>1. NextStep({"keep"}) /\ MoveCont /\ call.version.cat # "raise"
    BY <1>6 DEF KeepStep, NextStep
  <2> QED BY <1>0, <1>6, <2>1, KeepStepIsGood, MoveContFacts, StepPreservesIInv
<1>7. CASE FlipStep
  <2>1. NextStep({"flip"}) /\ MoveCont /\ call.version.cat # "raise"
    BY <1>7 DEF FlipStep, NextStep
  <2> QED BY <1>0, <1>7, <2>1, FlipStepIsGood, MoveContFacts, StepPreservesIInv
<1>8. CASE RaiseStep
  <2>1. NextStep({"raise"}) /\ call.version.cat = "raise"
    BY <1>8 DEF RaiseStep, NextStep
  <2> QED BY <1>0, <1>8, <2>1, RaiseStepIsGood, RaiseContFacts, StepPreservesIInv
<1>9. CASE UNCHANGED vars
  <2>1. UNCHANGED <<call, orig, hot, active, cont, cat, step>>
    BY <1>9 DEF vars
  <2>2. UNCHANGED <<CanFlip, OneHotRow, Reach>>
    BY <2>1 DEF CanFlip, NoiseReach, OneHotRow, Reach
  <2> QED BY <2>1, <2>2 DEF IInv, TypeOK, InEpsilonBall, Near, Close, Vertices
<1> QED BY <1>1, <1>2, <1>3, <1>4, <1>5, <1>6, <1>7, <1>8, <1>9 DEF Next

LEMMA IInvHolds == Spec => []IInv
<1>1. Init => IInv
  BY InitIInv
<1>2. IInv /\ [Next]_vars => IInv'
  BY NextIInv
<1> QED BY <1>1, <1>2, PTL DEF Spec

\* The attacked row stays in the unit box and in its group structure, in
\* every version of the attack and after every step.
THEOREM TypeCorrect == Spec => []TypeOK
<1>1. IInv => TypeOK
  BY DEF IInv
<1> QED BY <1>1, IInvHolds, PTL

\* The continuous budget, for every epsilon, step size and row.
THEOREM BallHolds == Spec => []InEpsilonBall
<1>1. IInv => InEpsilonBall
  BY DEF IInv
<1> QED BY <1>1, IInvHolds, PTL

\* The snapping versions return one category per group, for groups of any
\* size and whatever noise the groups started from.
THEOREM ValidHolds == Spec => []CategoriesAreValid
<1>1. IInv => CategoriesAreValid
  BY DEF IInv, Vertices, CategoriesAreValid
<1> QED BY <1>1, IInvHolds, PTL

\* The threshold: a call whose categorical step and noise together are less
\* than half of 1.0 changes no category, in groups of any size, in any
\* number of steps.
THEOREM ThresholdHolds == Spec => []FlipsNeedStrongSteps
<1>1. IInv => FlipsNeedStrongSteps
  <2> SUFFICES ASSUME IInv, ~CanFlip, NEW g \in Groups
               PROVE  ArgMax(cat[g], Cols(g)) = hot[g]
    BY DEF FlipsNeedStrongSteps
  <2>1. /\ TypeOK /\ hot \in Categories /\ Close(cat[g], OneHotRow[g], g, Reach)
        /\ call.epsilon \in Nat /\ call.alphaCat \in Nat
    BY CallFacts DEF IInv, TypeOK, Near
  <2>2. Reach \in Nat /\ 2 * Reach < One
    <3>1. CASE call.version.cat = "box"
      <4>1. 2 * call.epsilon >= One => CanFlip
        BY <3>1 DEF CanFlip
      <4> QED BY <2>1, <3>1, <4>1, GridAssumption DEF Reach
    <3>2. CASE call.version.cat # "box" /\ "cat" \in call.version.noise
      <4>1. call.version.cat = "snap"
        BY <2>1, <3>2, CallFacts DEF TypeOK
      <4>2. 2 * (call.alphaCat + NoiseReach) >= One => CanFlip
        BY <4>1 DEF CanFlip
      <4>3. NoiseReach \in Nat /\ Reach \in {0, NoiseReach}
        BY <2>1, <3>2 DEF Reach, NoiseReach
      <4> QED BY <2>1, <4>2, <4>3, GridAssumption
    <3>3. CASE call.version.cat # "box" /\ "cat" \notin call.version.noise
      BY <3>3, GridAssumption DEF Reach, NoiseReach
    <3> QED BY <3>1, <3>2, <3>3
  <2>3. PICK v \in {cat[g]}, r \in Nat : v = cat[g] /\ r = Reach
    BY <2>2
  <2>4. ArgMax(v, Cols(g)) = hot[g]
    BY <2>1, <2>2, <2>3, NearRowSnapsBack DEF Close
  <2> QED BY <2>3, <2>4
<1> QED BY <1>1, IInvHolds, PTL

-----------------------------------------------------------------------------
(* The categorical budget.                                                 *)

\* rsc is only known to versions that snap and whose noise leaves groups alone.
LEMMA RscVersions ==
  ASSUME call \in Calls, call.version.rsc
  PROVE  call.version.cat \in {"snap", "snapIfMoved"} /\ "cat" \notin call.version.noise
<1>1. call.version \in Versions
  BY CallsAssumption
<1>2. \A v \in Versions : v.rsc => v.cat \in {"snap", "snapIfMoved"} /\ "cat" \notin v.noise
  BY DEF Versions, Version, pgd_attack, unified_pgd_attack, fgsm_attack,
         jsma_attack, pgd_attack_train, pgd_attack_eval, pgd_attack_fixed_cat,
         pgd_unconstrained, mixed_norm_attack, categorical_only_attack,
         pgd_attack_constrained, pgd_attack_unconstrained, pgd_attack_clamped,
         buggy_pgd, fixed_pgd, pgd_attack_faithful, test_step_sensitivity,
         test_iterative_loss_tracking, pgd_dacm_attack, unconstrained_pgd_attack,
         pgd_bpda_attack, audit_pgd_dacm_attack, audit_unconstrained_pgd_attack
<1> QED BY <1>1, <1>2

\* A group that rsc has frozen holds the category of the row.
Frozen == call.version.rsc => \A g \in Groups \ active : cat[g] = OneHotRow[g]

\* After a step of the mixed-norm attack the budget is used up.
Spent == call.version.cat = "flip" /\ step >= 1 /\ (\A g \in Groups : Size[g] > 1) =>
           \/ Cardinality(Flipped) = call.K
           \/ Cardinality(Groups) < call.K /\ Flipped = Groups

LEMMA SameRow == UNCHANGED <<call, hot>> => OneHotRow' = OneHotRow
BY DEF OneHotRow

\* One hot category is not another.
LEMMA VerticesDiffer ==
  ASSUME NEW g \in Groups, NEW i \in Cols(g), NEW j \in Cols(g), i # j
  PROVE  Vertex(Cols(g), i) # Vertex(Cols(g), j)
<1>1. Vertex(Cols(g), i)[i] = One /\ Vertex(Cols(g), j)[i] = 0
  BY DEF Vertex
<1> QED BY <1>1, GridAssumption

LEMMA FrozenStep == TypeOK /\ Frozen /\ [Next]_vars => Frozen'
<1> SUFFICES ASSUME TypeOK, Frozen, [Next]_vars, call'.version.rsc, NEW g \in Groups \ active'
             PROVE  cat'[g] = OneHotRow'[g]
  BY DEF Frozen
<1>1. UNCHANGED <<call, orig, hot, active>>
  BY DEF Next, RandomStart, SnapStep, SnapBoxedStep, ResnapStep, BoxStep, KeepStep, FlipStep,
         RaiseStep, NextStep, vars
<1>2. OneHotRow' = OneHotRow /\ cat[g] = OneHotRow[g] /\ g \in Groups /\ g \notin active
  BY <1>1, SameRow DEF Frozen
<1>3. call.version.cat \in {"snap", "snapIfMoved"} /\ "cat" \notin call.version.noise
  BY <1>1, RscVersions DEF TypeOK
<1>4. CASE RandomStart
  <2>1. PICK n \in [GroupCols -> {0}] :
          cat' = [h \in Groups |-> [i \in Cols(h) |-> Noised(OneHotRow[h][i], n[<<h, i>>])]]
    BY <1>3, <1>4 DEF RandomStart
  <2>2. ASSUME NEW i \in Cols(g) PROVE Noised(OneHotRow[g][i], n[<<g, i>>]) = OneHotRow[g][i]
    <3>1. n[<<g, i>>] = 0
      BY <1>2 DEF GroupCols
    <3>2. OneHotRow[g][i] \in 0..One
      BY <1>2, RowFacts, GridAssumption DEF TypeOK, Cols
    <3> QED BY <3>1, <3>2, GridAssumption DEF Noised, Clamp
  <2>3. cat'[g] = [i \in Cols(g) |-> OneHotRow[g][i]]
    BY <1>2, <2>1, <2>2
  <2> QED BY <1>2, <2>3 DEF OneHotRow, Vertex
<1>5. CASE SnapStep
  <2>1. CASE call.version.cat = "snapIfMoved" /\ call.alphaCat = 0
    BY <1>2, <1>5, <2>1 DEF SnapStep
  <2>2. CASE ~(call.version.cat = "snapIfMoved" /\ call.alphaCat = 0)
    BY <1>2, <1>5, <2>2 DEF SnapStep, MoveGroups
  <2> QED BY <2>1, <2>2
<1>6. CASE UNCHANGED vars
  BY <1>2, <1>6 DEF vars
<1>7. ~(SnapBoxedStep \/ ResnapStep \/ BoxStep \/ KeepStep \/ FlipStep \/ RaiseStep)
  BY <1>3 DEF SnapBoxedStep, ResnapStep, BoxStep, KeepStep, FlipStep, RaiseStep, NextStep
<1> QED BY <1>4, <1>5, <1>6, <1>7 DEF Next

LEMMA SpentStep == TypeOK /\ Spent /\ [Next]_vars => Spent'
<1> SUFFICES ASSUME TypeOK, Spent, [Next]_vars, call'.version.cat = "flip", step' >= 1,
                    \A g \in Groups : Size[g] > 1
             PROVE  \/ Cardinality(Flipped') = call'.K
                    \/ Cardinality(Groups) < call'.K /\ Flipped' = Groups
  BY DEF Spent
<1>1. UNCHANGED <<call, hot>>
  BY DEF Next, RandomStart, SnapStep, SnapBoxedStep, ResnapStep, BoxStep, KeepStep, FlipStep,
         RaiseStep, NextStep, vars
<1>2. OneHotRow' = OneHotRow /\ hot \in Categories
  BY <1>1, SameRow DEF TypeOK
<1>3. CASE FlipStep
  <2>1. PICK chosen \in SUBSET Groups, to \in Categories :
          /\ Cardinality(chosen) = call.K \/ (chosen = Groups /\ Cardinality(Groups) < call.K)
          /\ \A g \in chosen : Size[g] > 1 => to[g] # hot[g]
          /\ cat' = [g \in Groups |-> IF g \in chosen THEN Vertex(Cols(g), to[g]) ELSE OneHotRow[g]]
    BY <1>3 DEF FlipStep
  <2>2. ASSUME NEW g \in chosen PROVE cat'[g] # OneHotRow[g]
    <3>1. to[g] # hot[g] /\ to[g] \in Cols(g) /\ hot[g] \in Cols(g) /\ g \in Groups
      BY <1>2, <2>1 DEF Categories
    <3> QED BY <2>1, <3>1, VerticesDiffer DEF OneHotRow
  <2>3. Flipped' = chosen
    BY <1>2, <2>1, <2>2 DEF Flipped
  <2> QED BY <1>1, <2>1, <2>3
<1>4. CASE UNCHANGED vars
  BY <1>1, <1>2, <1>4 DEF vars, Flipped, Spent
<1>5. ~RandomStart
  BY DEF RandomStart
<1>6. ~(SnapStep \/ SnapBoxedStep \/ ResnapStep \/ BoxStep \/ KeepStep \/ RaiseStep)
  BY <1>1 DEF SnapStep, SnapBoxedStep, ResnapStep, BoxStep, KeepStep, RaiseStep, NextStep
<1> QED BY <1>3, <1>4, <1>5, <1>6 DEF Next

\* The categorical part of an adversarial row is right: the snapping versions return one
\* category per group, rsc flips no group it has frozen, and the mixed-norm attack flips
\* K groups, all of them if there are fewer.
THEOREM CategoriesHold == Spec => []CategoriesAreRight
<1>1. Init => Frozen /\ Spent
  BY DEF Init, Frozen, Spent
<1>2. IInv /\ Frozen /\ Spent /\ [Next]_vars => (Frozen /\ Spent)'
  BY FrozenStep, SpentStep DEF IInv
<1>3. IInv /\ Frozen /\ Spent => CategoriesAreRight
  <2> SUFFICES ASSUME IInv, Frozen, Spent PROVE CategoriesAreRight
    OBVIOUS
  <2>1. CategoriesAreValid
    BY DEF IInv, Vertices, CategoriesAreValid
  <2>2. call.version.rsc => Flipped \subseteq active
    BY DEF Frozen, Flipped
  <2> QED BY <2>1, <2>2 DEF CategoriesAreRight, OnlyAllowedGroupsFlip, Spent
<1> QED BY <1>1, <1>2, <1>3, IInvHolds, PTL DEF Spec
-----------------------------------------------------------------------------
(* The three snaps.  Induction over the entries of a vector is stated with *)
(* a set of numbers: the ones up to which the claim holds.                 *)

LEMMA Induction ==
  ASSUME NEW n \in Nat \ {0}, NEW T, 1 \in T, \A k \in 1..n : k # n /\ k \in T => k + 1 \in T
  PROVE  1..n \subseteq T
<1> SUFFICES ASSUME 1..n \ T # {} PROVE FALSE
  OBVIOUS
<1>1. PICK m \in 1..n \ T : \A k \in 1..n \ T : m <= k
  <2>1. 1..n \ T \in SUBSET Nat
    OBVIOUS
  <2> QED BY <2>1, LeastNatural
<1>2. m - 1 \in 1..n /\ m - 1 # n /\ m - 1 + 1 = m /\ ~(m <= m - 1)
  <2>1. m # 1 /\ m \in 1..n
    OBVIOUS
  <2> QED BY <2>1
<1>3. m - 1 \in T
  BY <1>1, <1>2
<1>4. m - 1 + 1 \in T
  BY <1>2, <1>3
<1> QED BY <1>2, <1>4

\* The first of the largest entries of v.
FirstLargest(v, i, n) == \A j \in 1..n : v[j] < v[i] \/ (v[j] = v[i] /\ i <= j)

LEMMA ArgMaxIsFirstLargest ==
  ASSUME NEW n \in Nat, NEW v, NEW h \in 1..n, \A j \in 1..n : v[j] \in Int, FirstLargest(v, h, n)
  PROVE  ArgMax(v, 1..n) = h
<1>1. ASSUME NEW i \in 1..n, FirstLargest(v, i, n) PROVE i = h
  BY <1>1 DEF FirstLargest
<1>2. (CHOOSE i \in 1..n : FirstLargest(v, i, n)) = h
  BY <1>1
<1> QED BY <1>2 DEF ArgMax, FirstLargest

\* One entry of the scan of the DACM engine.
Scan(f, v, i) == IF i = 1 THEN 1 ELSE IF v[i] > v[f[i - 1]] THEN i ELSE f[i - 1]

\* The recursion of the scan has a solution.
LEMMA ScanExists ==
  ASSUME NEW n \in Nat \ {0}, NEW v
  PROVE  \E f : f = [i \in 1..n |-> Scan(f, v, i)]
<1> DEFINE T == {k \in 1..n : \E f : f = [i \in 1..k |-> Scan(f, v, i)]}
<1>1. 1 \in T
  <2>1. [i \in 1..1 |-> 1] = [i \in 1..1 |-> Scan([j \in 1..1 |-> 1], v, i)]
    BY DEF Scan
  <2> QED BY <2>1
<1>2. ASSUME NEW k \in 1..n, k # n, k \in T PROVE k + 1 \in T
  <2>1. PICK f : f = [i \in 1..k |-> Scan(f, v, i)]
    BY <1>2
  <2> DEFINE g == [i \in 1..(k + 1) |-> IF i = k + 1 THEN Scan(f, v, i) ELSE f[i]]
  <2>2. ASSUME NEW i \in 1..(k + 1) PROVE g[i] = Scan(g, v, i)
    <3>1. i # 1 => i - 1 \in 1..(k + 1) /\ g[i - 1] = f[i - 1]
      OBVIOUS
    <3>2. Scan(g, v, i) = Scan(f, v, i)
      BY <3>1 DEF Scan
    <3>3. i # k + 1 => f[i] = Scan(f, v, i)
      <4>1. i # k + 1 => i \in 1..k
        OBVIOUS
      <4> QED BY <2>1, <4>1
    <3> QED BY <3>2, <3>3
  <2>3. g = [i \in 1..(k + 1) |-> g[i]]
    OBVIOUS
  <2> HIDE DEF g
  <2>4. g = [i \in 1..(k + 1) |-> Scan(g, v, i)]
    BY <2>2, <2>3
  <2>5. k + 1 \in 1..n
    BY <1>2
  <2> QED BY <2>4, <2>5
<1> HIDE DEF T
<1>3. 1..n \subseteq T
  BY <1>1, <1>2, Induction
<1>4. n \in T
  BY <1>3
<1> QED BY <1>4 DEF T

\* The scan finds the first of the largest entries.
LEMMA ScanFindsFirstLargest ==
  ASSUME NEW n \in Nat \ {0}, NEW v, \A j \in 1..n : v[j] \in Int,
         NEW f, f = [i \in 1..n |-> Scan(f, v, i)]
  PROVE  f[n] \in 1..n /\ FirstLargest(v, f[n], n)
<1> DEFINE T == {k \in 1..n : f[k] \in 1..k /\ FirstLargest(v, f[k], k)}
<1>1. \A i \in 1..n : f[i] = Scan(f, v, i)
  OBVIOUS
<1>2. 1 \in T
  <2>1. f[1] = 1
    BY <1>1 DEF Scan
  <2> QED BY <2>1 DEF FirstLargest
<1>3. ASSUME NEW k \in 1..n, k # n, k \in T PROVE k + 1 \in T
  <2>1. k + 1 \in 1..n /\ k + 1 # 1 /\ k + 1 - 1 = k /\ f[k] \in 1..k /\ f[k] \in 1..n
    BY <1>3
  <2>2. f[k + 1] = IF v[k + 1] > v[f[k]] THEN k + 1 ELSE f[k]
    BY <1>1, <2>1 DEF Scan
  <2>3. PICK b \in 1..k, top \in Int : b = f[k] /\ top = v[b] /\ b \in 1..n
    BY <2>1
  <2>4. \A j \in 1..k : v[j] \in Int /\ (v[j] < top \/ (v[j] = top /\ b <= j))
    BY <1>3, <2>3 DEF FirstLargest
  <2>5. v[k + 1] \in Int
    BY <2>1
  <2>6. CASE v[k + 1] > top
    <3>1. f[k + 1] = k + 1
      BY <2>2, <2>3, <2>6
    <3>2. ASSUME NEW j \in 1..(k + 1)
          PROVE  v[j] < v[k + 1] \/ (v[j] = v[k + 1] /\ k + 1 <= j)
      BY <2>4, <2>5, <2>6
    <3> QED BY <2>1, <3>1, <3>2 DEF FirstLargest
  <2>7. CASE ~(v[k + 1] > top)
    <3>1. f[k + 1] = b /\ b \in 1..(k + 1)
      BY <2>2, <2>3, <2>7
    <3>2. ASSUME NEW j \in 1..(k + 1) PROVE v[j] < top \/ (v[j] = top /\ b <= j)
      <4>1. j \in 1..k \/ j = k + 1
        OBVIOUS
      <4> QED BY <2>4, <2>5, <2>7, <4>1
    <3> QED BY <2>1, <2>3, <3>1, <3>2 DEF FirstLargest
  <2> QED BY <2>6, <2>7
<1> HIDE DEF T
<1>4. 1..n \subseteq T
  BY <1>2, <1>3, Induction
<1>5. n \in T
  BY <1>4
<1> QED BY <1>5 DEF T

LEMMA ScanIsArgMax ==
  ASSUME NEW n \in Nat \ {0}, NEW v, \A j \in 1..n : v[j] \in Int
  PROVE  snap_discrete_vertex(v, n) = Snap(v, 1..n)
<1> DEFINE best == CHOOSE f : f = [i \in 1..n |-> Scan(f, v, i)]
<1>1. best = [i \in 1..n |-> Scan(best, v, i)]
  BY ScanExists
<1>2. ScanBest(v, n) = best[n]
  BY DEF ScanBest, Scan
<1> HIDE DEF best
<1>3. best[n] \in 1..n /\ FirstLargest(v, best[n], n)
  BY <1>1, ScanFindsFirstLargest
<1>4. ArgMax(v, 1..n) = best[n]
  BY <1>3, ArgMaxIsFirstLargest
<1> QED BY <1>2, <1>4 DEF Snap, snap_discrete_vertex

\* The sum of squares of the replication test's snap is a number.
LEMMA TotalExists ==
  ASSUME NEW n \in Nat \ {0}, NEW q, \A i \in 1..n : q[i] \in Int
  PROVE  \E f : f = [i \in 0..n |-> IF i = 0 THEN 0 ELSE f[i - 1] + q[i]]
<1> DEFINE T == {k \in 1..n : \E f : f = [i \in 0..k |-> IF i = 0 THEN 0 ELSE f[i - 1] + q[i]]}
<1>1. 1 \in T
  <2> DEFINE f == [i \in 0..1 |-> IF i = 0 THEN 0 ELSE 0 + q[1]]
  <2>1. \A i \in 0..1 : f[i] = IF i = 0 THEN 0 ELSE f[i - 1] + q[i]
    OBVIOUS
  <2>2. f = [i \in 0..1 |-> f[i]]
    OBVIOUS
  <2> HIDE DEF f
  <2>3. f = [i \in 0..1 |-> IF i = 0 THEN 0 ELSE f[i - 1] + q[i]]
    BY <2>1, <2>2
  <2> QED BY <2>3
<1>2. ASSUME NEW k \in 1..n, k # n, k \in T PROVE k + 1 \in T
  <2>1. PICK f : f = [i \in 0..k |-> IF i = 0 THEN 0 ELSE f[i - 1] + q[i]]
    BY <1>2
  <2> DEFINE g == [i \in 0..(k + 1) |-> IF i = k + 1 THEN f[k] + q[i] ELSE f[i]]
  <2>2. ASSUME NEW i \in 0..(k + 1) PROVE g[i] = IF i = 0 THEN 0 ELSE g[i - 1] + q[i]
    <3>1. CASE i = k + 1
      <4>1. i - 1 = k /\ k \in 0..(k + 1) /\ k # k + 1 /\ i # 0
        BY <3>1
      <4> QED BY <3>1, <4>1
    <3>2. CASE i # k + 1
      <4>1. i \in 0..k /\ (i # 0 => i - 1 \in 0..(k + 1) /\ i - 1 # k + 1)
        BY <3>2
      <4>2. f[i] = IF i = 0 THEN 0 ELSE f[i - 1] + q[i]
        BY <2>1, <4>1
      <4> QED BY <3>2, <4>1, <4>2
    <3> QED BY <3>1, <3>2
  <2>3. g = [i \in 0..(k + 1) |-> g[i]]
    OBVIOUS
  <2> HIDE DEF g
  <2>4. g = [i \in 0..(k + 1) |-> IF i = 0 THEN 0 ELSE g[i - 1] + q[i]]
    BY <2>2, <2>3
  <2>5. k + 1 \in 1..n
    BY <1>2
  <2> QED BY <2>4, <2>5
<1> HIDE DEF T
<1>3. 1..n \subseteq T
  BY <1>1, <1>2, Induction
<1>4. n \in T
  BY <1>3
<1> QED BY <1>4 DEF T

LEMMA TotalIsNumber ==
  ASSUME NEW n \in Nat \ {0}, NEW q, \A i \in 1..n : q[i] \in Int,
         NEW f, f = [i \in 0..n |-> IF i = 0 THEN 0 ELSE f[i - 1] + q[i]]
  PROVE  f[n] \in Int
<1> DEFINE T == {k \in 1..n : f[k] \in Int}
<1>1. f[0] = 0 /\ \A i \in 1..n : f[i] = f[i - 1] + q[i]
  <2>1. 0 \in 0..n /\ \A i \in 1..n : i \in 0..n /\ i # 0
    OBVIOUS
  <2> QED BY <2>1
<1>2. 1 \in T
  <2>1. 1 \in 1..n /\ 1 - 1 = 0
    OBVIOUS
  <2>2. f[1] = 0 + q[1]
    BY <1>1, <2>1
  <2> QED BY <2>1, <2>2
<1>3. ASSUME NEW k \in 1..n, k # n, k \in T PROVE k + 1 \in T
  <2>1. k + 1 \in 1..n /\ k + 1 - 1 = k
    BY <1>3
  <2>2. f[k + 1] = f[k] + q[k + 1]
    BY <1>1, <2>1
  <2> QED BY <1>3, <2>1, <2>2
<1> HIDE DEF T
<1>4. 1..n \subseteq T
  BY <1>2, <1>3, Induction
<1>5. n \in T
  BY <1>4
<1> QED BY <1>5 DEF T

\* A vertex is nearer the larger its entry is.
LEMMA NearerIsLarger ==
  ASSUME NEW t \in Int, NEW a \in Int, NEW b \in Int
  PROVE  /\ t - a * a + (a - One) * (a - One) < t - b * b + (b - One) * (b - One) <=> b < a
         /\ t - a * a + (a - One) * (a - One) = t - b * b + (b - One) * (b - One) <=> b = a
<1>1. One \in Nat \ {0}
  BY GridAssumption
<1>2. PICK z \in Int : \A x \in Int :
        t - x * x + (x - One) * (x - One) = z - 2 * (One * x)
  <2>1. \A x \in Int : t - x * x + (x - One) * (x - One) = (t + One * One) - 2 * (One * x)
    BY <1>1
  <2> QED BY <1>1, <2>1
<1>3. b < a <=> One * b < One * a
  BY <1>1
<1>4. b = a <=> One * b = One * a
  BY <1>1
<1>5. One * a \in Int /\ One * b \in Int
  BY <1>1
<1>6. \A x, y \in Int : /\ z - 2 * x < z - 2 * y <=> y < x
                        /\ z - 2 * x = z - 2 * y <=> y = x
  OBVIOUS
<1>7. /\ z - 2 * (One * a) < z - 2 * (One * b) <=> b < a
      /\ z - 2 * (One * a) = z - 2 * (One * b) <=> b = a
  BY <1>3, <1>4, <1>5, <1>6, Zenon
<1>8. t - a * a + (a - One) * (a - One) = z - 2 * (One * a)
  BY <1>2, Zenon
<1>9. t - b * b + (b - One) * (b - One) = z - 2 * (One * b)
  BY <1>2, Zenon
<1> QED BY <1>7, <1>8, <1>9, Zenon

LEMMA NearestIsArgMax ==
  ASSUME NEW n \in Nat \ {0}, NEW v, \A j \in 1..n : v[j] \in Int,
         NEW h \in 1..n, FirstLargest(v, h, n)
  PROVE  dacm_snap_categorical(v, n) = Vertex(1..n, h)
<1> DEFINE q == [i \in 1..n |-> v[i] * v[i]]
           total == CHOOSE f : f = [i \in 0..n |-> IF i = 0 THEN 0 ELSE f[i - 1] + v[i] * v[i]]
           dist(i) == total[n] - v[i] * v[i] + (v[i] - One) * (v[i] - One)
           Least(i) == \A j \in 1..n : dist(i) < dist(j) \/ (dist(i) = dist(j) /\ i <= j)
<1>1. dacm_snap_categorical(v, n) = Vertex(1..n, CHOOSE i \in 1..n : Least(i))
  BY DEF dacm_snap_categorical
<1>2. total[n] \in Int
  <2>1. \A i \in 1..n : q[i] = v[i] * v[i] /\ q[i] \in Int
    OBVIOUS
  <2> HIDE DEF q
  <2>2. PICK f : f = [i \in 0..n |-> IF i = 0 THEN 0 ELSE f[i - 1] + q[i]]
    BY <2>1, TotalExists
  <2>3. ASSUME NEW f1 PROVE [i \in 0..n |-> IF i = 0 THEN 0 ELSE f1[i - 1] + v[i] * v[i]]
                            = [i \in 0..n |-> IF i = 0 THEN 0 ELSE f1[i - 1] + q[i]]
    <3>1. \A i \in 0..n : i # 0 => i \in 1..n
      OBVIOUS
    <3> QED BY <2>1, <3>1
  <2>4. total = [i \in 0..n |-> IF i = 0 THEN 0 ELSE total[i - 1] + v[i] * v[i]]
    <3>1. f = [i \in 0..n |-> IF i = 0 THEN 0 ELSE f[i - 1] + v[i] * v[i]]
      BY <2>2, <2>3
    <3> QED BY <3>1
  <2> HIDE DEF total
  <2>5. total = [i \in 0..n |-> IF i = 0 THEN 0 ELSE total[i - 1] + q[i]]
    BY <2>3, <2>4
  <2> QED BY <2>1, <2>5, TotalIsNumber
<1> HIDE DEF total
<1>3. \A i, j \in 1..n : /\ dist(i) < dist(j) <=> v[j] < v[i]
                         /\ dist(i) = dist(j) <=> v[j] = v[i]
  BY <1>2, NearerIsLarger
<1> HIDE DEF dist
<1>4. ASSUME NEW i \in 1..n PROVE Least(i) <=> FirstLargest(v, i, n)
  BY <1>3, <1>4 DEF FirstLargest
<1>5. ASSUME NEW i \in 1..n, FirstLargest(v, i, n) PROVE i = h
  BY <1>5 DEF FirstLargest
<1> HIDE DEF Least
<1>6. (CHOOSE i \in 1..n : Least(i)) = h
  BY <1>4, <1>5
<1> QED BY <1>1, <1>6

\* Argmax, the strict scan of the Rust engine and the least distance of the replication
\* test snap every vector an attack can produce to the same vertex, in groups of any size.
THEOREM SnapsHold == Spec => []SnapsAgree
<1>1. IInv => SnapsAgree
  <2> SUFFICES ASSUME IInv, NEW g \in Groups
               PROVE  /\ Snap(cat[g], Cols(g)) = snap_discrete_vertex(cat[g], Size[g])
                      /\ Snap(cat[g], Cols(g)) = dacm_snap_categorical(cat[g], Size[g])
    BY DEF SnapsAgree
  <2>1. Size[g] \in Nat \ {0} /\ Cols(g) = 1..Size[g]
    BY GridAssumption DEF Cols
  <2>2. \A j \in 1..Size[g] : cat[g][j] \in 0..One
    BY <2>1 DEF IInv, TypeOK
  <2>3. \A j \in 1..Size[g] : cat[g][j] \in Int
    BY <2>2, GridAssumption
  <2>4. snap_discrete_vertex(cat[g], Size[g]) = Snap(cat[g], 1..Size[g])
    BY <2>1, <2>3, ScanIsArgMax
  <2>5. PICK h \in 1..Size[g] : FirstLargest(cat[g], h, Size[g])
    <3>1. PICK f : f = [i \in 1..Size[g] |-> Scan(f, cat[g], i)]
      BY <2>1, ScanExists
    <3>2. f[Size[g]] \in 1..Size[g] /\ FirstLargest(cat[g], f[Size[g]], Size[g])
      BY <2>1, <2>3, <3>1, ScanFindsFirstLargest
    <3> QED BY <3>2
  <2>6. Snap(cat[g], 1..Size[g]) = Vertex(1..Size[g], h)
    BY <2>1, <2>3, <2>5, ArgMaxIsFirstLargest DEF Snap
  <2>7. dacm_snap_categorical(cat[g], Size[g]) = Vertex(1..Size[g], h)
    BY <2>1, <2>3, <2>5, NearestIsArgMax
  <2> QED BY <2>1, <2>4, <2>6, <2>7
<1> QED BY <1>1, IInvHolds, PTL

-----------------------------------------------------------------------------
(* The C&W search of one row (CwSearch), for any number of rounds and of   *)
(* points looked at, and any distances.                                    *)

\* The constants in terms of the search: steps of ten (two half steps) while
\* no round has ended with a success, and after one the middle of the last
\* two steps.
Bracket ==
    /\ look <= Looks => c \in DOMAIN points
    /\ c_high = Infinite =>
          /\ c \in Nat /\ c % 2 = 0
          /\ (c = 0 /\ c_low = Zero) \/ (c >= 2 /\ c_low = c - 2)
          /\ \A n \in DOMAIN points : n \in Nat /\ n % 2 = 0 /\ n <= c
    /\ c_high # Infinite =>
          /\ c_high \in Nat
          /\ \/ c_high = 0 /\ c_low = Zero /\ c = Zero
             \/ c_high >= 2 /\ c_low = c_high - 2 /\ c = c_high - 1
          /\ \A n \in DOMAIN points : n = c \/ (n \in Nat /\ n % 2 = 0 /\ n <= c_high)

CwInv == CwTypeOK /\ NearestSuccessIsKept /\ Bracket

LEMMA CwInitInv == CwInit => CwInv
<1> SUFFICES ASSUME CwInit PROVE CwInv
    OBVIOUS
<1> USE SearchAssumption
<1>1. DOMAIN points = {}
      BY DEF CwInit
<1>2. CwTypeOK
      BY <1>1 DEF CwInit, CwTypeOK, Zero, Infinite
<1>3. NearestSuccessIsKept
      BY DEF CwInit, NearestSuccessIsKept
<1>4. Bracket
      BY <1>1 DEF CwInit, Bracket, Zero, Infinite
<1> QED BY <1>2, <1>3, <1>4 DEF CwInv

\* What a point that is looked at is.
LEMMA PointLooked ==
    ASSUME CwTypeOK, Bracket, look <= Looks
    PROVE  Now.success \in BOOLEAN /\ Now.l2 \in Dists
<1>1. c \in DOMAIN points
      BY DEF Bracket
<1>2. points[c] \in [1..(Looks + 1) -> Point] /\ look + 1 \in 1..(Looks + 1)
      BY <1>1, SearchAssumption DEF CwTypeOK
<1>3. Now \in Point
      BY <1>2 DEF Now
<1> QED BY <1>3 DEF Point

\* The mid point of a bracket that spans one step of ten.
LEMMA MiddleOfStep ==
    ASSUME NEW high \in Nat, high >= 2
    PROVE  Middle(high - 2, high) = high - 1
<1>1. high - 2 # Zero
      BY DEF Zero
<1>2. ((high - 2) + high) \div 2 = high - 1
      OBVIOUS
<1> QED BY <1>1, <1>2 DEF Middle

\* Keeping the nearer success keeps the nearest.
LEMMA KeepsNearest ==
    ASSUME CwInv, Keep, look <= Looks
    PROVE  /\ NearestSuccessIsKept'
           /\ best_l2' \in Dists \cup {Infinite} /\ met' \subseteq Dists
<1>1. Now.success \in BOOLEAN /\ Now.l2 \in Dists
      BY PointLooked DEF CwInv
<1>2. Dists \subseteq Nat
      BY SearchAssumption
<1>3. best_l2 \in Dists \cup {Infinite} /\ met \subseteq Dists /\ NearestSuccessIsKept
      BY DEF CwInv, CwTypeOK
<1>4. CASE ~Now.success
      BY <1>3, <1>4 DEF Keep, NearestSuccessIsKept
<1>5. CASE Now.success
  <2>1. met' = met \cup {Now.l2}
        BY <1>5 DEF Keep
  <2>2. CASE met = {}
        BY <1>1, <1>2, <1>3, <1>5, <2>1, <2>2 DEF Keep, NearestSuccessIsKept, Infinite
  <2>3. CASE met # {}
    <3>1. best_l2 \in Nat /\ best_l2 # Infinite
      <4>1. best_l2 \in met
            BY <1>3, <2>3 DEF NearestSuccessIsKept
      <4>2. best_l2 \in Nat
            BY <1>2, <1>3, <4>1
      <4> QED BY <4>2 DEF Infinite
    <3>2. best_l2' = IF Now.l2 < best_l2 THEN Now.l2 ELSE best_l2
          BY <1>5, <3>1 DEF Keep
    <3>3. best_l2' \in met'
          BY <1>3, <2>1, <2>3, <3>2 DEF NearestSuccessIsKept
    <3>4. \A d \in met' : best_l2' <= d
      <4>1. Now.l2 \in Nat /\ met \subseteq Nat
            BY <1>1, <1>2, <1>3
      <4>2. best_l2' <= Now.l2 /\ best_l2' <= best_l2
            BY <3>1, <3>2, <4>1
      <4>3. \A d \in met : best_l2 <= d
            BY <1>3, <2>3 DEF NearestSuccessIsKept
      <4>4. best_l2' \in Nat
            BY <3>1, <3>2, <4>1
      <4>5. ASSUME NEW d \in met PROVE best_l2' <= d
            BY <3>1, <4>1, <4>2, <4>3, <4>4
      <4> QED BY <2>1, <4>2, <4>5
    <3>5. met' # {} /\ met' \subseteq Dists
          BY <1>1, <1>3, <2>1
    <3>6. best_l2' \in Dists \cup {Infinite}
          BY <1>1, <1>3, <3>2
    <3> QED BY <3>3, <3>4, <3>5, <3>6 DEF NearestSuccessIsKept
  <2> QED BY <2>2, <2>3
<1> QED BY <1>1, <1>4, <1>5

LEMMA CwStepInv == CwInv /\ [CwNext]_cwVars => CwInv'
<1> SUFFICES ASSUME CwInv, [CwNext]_cwVars PROVE CwInv'
    OBVIOUS
<1> USE SearchAssumption
<1>1. CASE Begin
  <2>1. points' \in [DOMAIN points \cup {c} -> [1..(Looks + 1) -> Point]]
    <3>1. CASE c \in DOMAIN points
      <4>1. points' = points /\ DOMAIN points \cup {c} = DOMAIN points
            BY <1>1, <3>1 DEF Begin
      <4> QED BY <4>1 DEF CwInv, CwTypeOK
    <3>2. CASE c \notin DOMAIN points
      <4>1. PICK p \in Passed(c) : points' = [n \in DOMAIN points \cup {c} |->
                                         IF n = c THEN p ELSE points[n]]
            BY <1>1, <3>2 DEF Begin
      <4>2. AtRow \in Point
            BY DEF AtRow, Point, CwInv, CwTypeOK
      <4>3. p \in [1..(Looks + 1) -> Point]
            BY <4>1, <4>2 DEF Passed
      <4> QED BY <4>1, <4>3 DEF CwInv, CwTypeOK
    <3> QED BY <3>1, <3>2
  <2>2. DOMAIN points' = DOMAIN points \cup {c}
        BY <2>1
  <2>3. Point' = Point
        BY <1>1 DEF Begin, Point
  <2>4. CwTypeOK'
        BY <1>1, <2>1, <2>3 DEF Begin, CwInv, CwTypeOK
  <2>5. NearestSuccessIsKept'
        BY <1>1 DEF Begin, CwInv, NearestSuccessIsKept
  <2>6. Bracket'
        BY <1>1, <2>2 DEF Begin, CwInv, Bracket
  <2> QED BY <2>4, <2>5, <2>6 DEF CwInv
<1>2. CASE Look
  <2>1. look <= Looks
        BY <1>2 DEF Look, CwInv, CwTypeOK
  <2>2. Keep
        BY <1>2 DEF Look
  <2>3. /\ NearestSuccessIsKept'
        /\ best_l2' \in Dists \cup {Infinite} /\ met' \subseteq Dists
        BY <2>1, <2>2, KeepsNearest
  <2>4. Point' = Point
        BY <1>2 DEF Look, Point
  <2>5. CwTypeOK'
        BY <1>2, <2>3, <2>4 DEF Look, CwInv, CwTypeOK
  <2>6. Bracket'
        BY <1>2, <2>1 DEF Look, CwInv, Bracket
  <2> QED BY <2>3, <2>5, <2>6 DEF CwInv
<1>3. CASE EndRound
  <2>1. look <= Looks /\ look' = Looks + 1
        BY <1>3 DEF EndRound, CwInv, CwTypeOK
  <2>2. Keep /\ SearchConstant /\ points' = points /\ round' = round
        BY <1>3 DEF EndRound
  <2>3. /\ NearestSuccessIsKept'
        /\ best_l2' \in Dists \cup {Infinite} /\ met' \subseteq Dists
        BY <2>1, <2>2, KeepsNearest
  <2>4. Point' = Point
        BY <1>3 DEF EndRound, Point
  <2>5. Now.success \in BOOLEAN
        BY <2>1, PointLooked DEF CwInv
  <2>6. Bracket'
    <3>1. CASE c_high # Infinite
      <4>1. c_high' = c_high /\ c_low' = c_low
            BY <2>2, <3>1 DEF SearchConstant
      <4>2. c' = Middle(c_low, c_high)
            BY <2>2, <3>1 DEF SearchConstant
      <4>3. c' = c
            BY <3>1, <4>2, MiddleOfStep DEF CwInv, Bracket, Middle
      <4> QED BY <2>1, <2>2, <3>1, <4>1, <4>3 DEF CwInv, Bracket
    <3>2. CASE c_high = Infinite /\ Now.success
      <4>1. c_high' = c /\ c_low' = c_low /\ c \in Nat /\ c # Infinite
            BY <2>2, <3>2 DEF SearchConstant, CwInv, Bracket, Infinite
      <4>2. c' = Middle(c_low, c)
            BY <2>2, <3>2, <4>1 DEF SearchConstant
      <4>3. \/ c = 0 /\ c_low = Zero /\ c' = Zero
            \/ c >= 2 /\ c_low = c - 2 /\ c' = c - 1
            BY <3>2, <4>1, <4>2, MiddleOfStep DEF CwInv, Bracket, Middle
      <4> QED BY <2>1, <2>2, <3>2, <4>1, <4>3 DEF CwInv, Bracket
    <3>3. CASE c_high = Infinite /\ ~Now.success
      <4>1. c_high' = Infinite /\ c_low' = c /\ c' = c + 2
            BY <2>2, <3>3 DEF SearchConstant
      <4>2. c \in Nat /\ c % 2 = 0
            BY <3>3 DEF CwInv, Bracket
      <4>3. c' \in Nat /\ c' % 2 = 0 /\ c' >= 2 /\ c_low' = c' - 2
            BY <4>1, <4>2
      <4> QED BY <2>1, <2>2, <3>3, <4>1, <4>2, <4>3 DEF CwInv, Bracket
    <3> QED BY <2>5, <3>1, <3>2, <3>3
  <2>7. {c', c_low'} \subseteq Nat \cup {Zero} /\ c_high' \in Nat \cup {Zero, Infinite}
        BY <2>6 DEF Bracket, Zero, Infinite
  <2>8. CwTypeOK'
        BY <1>3, <2>1, <2>3, <2>4, <2>7 DEF EndRound, CwInv, CwTypeOK
  <2> QED BY <2>3, <2>6, <2>8 DEF CwInv
<1>4. CASE UNCHANGED cwVars
  <2>1. Point' = Point
        BY <1>4 DEF cwVars, Point
  <2> QED BY <1>4, <2>1 DEF cwVars, CwInv, CwTypeOK, NearestSuccessIsKept, Bracket
<1> QED BY <1>1, <1>2, <1>3, <1>4 DEF CwNext

LEMMA CwInvHolds == CwSpec => []CwInv
<1>1. CwInit => CwInv
  BY CwInitInv
<1>2. CwInv /\ [CwNext]_cwVars => CwInv'
  BY CwStepInv
<1> QED BY <1>1, <1>2, PTL DEF CwSpec

\* The variables of the search keep their types; its constants are those of
\* the encoding.
THEOREM CwTypeCorrect == CwSpec => []CwTypeOK
      BY CwInvHolds, PTL DEF CwInv

\* Whatever the optimizer passes, the attack returns the nearest success it
\* looked at, and the row itself only without one.
THEOREM NearestKept == CwSpec => []NearestSuccessIsKept
      BY CwInvHolds, PTL DEF CwInv

\* For any number of rounds, the search of the constant is over with the
\* first success.
THEOREM SearchEnds == CwSpec => []OneConstantAfterSuccess
<1>1. CwInv => OneConstantAfterSuccess
  <2> SUFFICES ASSUME CwInv, c_high # Infinite PROVE OneConstantAfterSuccess
      BY DEF OneConstantAfterSuccess
  <2>1. \A n \in DOMAIN points : n = c \/ (n \in Nat /\ n % 2 = 0 /\ n <= c_high)
        BY DEF CwInv, Bracket
  <2>2. c_high = 0 => c = Zero
        BY DEF CwInv, Bracket, Zero
  <2> QED BY <2>1, <2>2 DEF OneConstantAfterSuccess
<1> QED BY <1>1, CwInvHolds, PTL
=============================================================================
