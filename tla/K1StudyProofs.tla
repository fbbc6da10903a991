--------------------------- MODULE K1StudyProofs ---------------------------
(***************************************************************************)
(* The theorems of the K=1 study: what the masks, the counters and the     *)
(* rows of the table say is true for any batches, limits and kills.  First *)
(* come sums and sequences over sets of batches;                           *)
(* then the capture, whose invariant is used by that of the evaluation     *)
(* (the reference masks are sequences of batches); then the theorems.      *)
(***************************************************************************)
EXTENDS K1Study, DataFacts

-----------------------------------------------------------------------------
(* Sums of numbers of samples.                                             *)

LEMMA SumEmpty ==
  \A f : Sum(f, {}) = 0
BY EmptyFolds

\* A sum of naturals is one, and an element adds to it.
LEMMA SumAdds ==
  ASSUME NEW f, NEW S, IsFiniteSet(S), \A x \in S : f[x] \in Nat
  PROVE  /\ Sum(f, S) \in Nat
         /\ \A y \in S : Sum(f, S) = f[y] + Sum(f, S \ {y}) /\ Sum(f, S \ {y}) \in Nat
<1>1. ASSUME NEW T \in SUBSET S PROVE Sum(f, T) \in Nat
  <2>1. IsFiniteSet(T) /\ \A x \in T : f[x] \in Int /\ 0 <= f[x]
    BY FS_Subset
  <2>2. Sum(f, T) \in Int /\ 0 <= Sum(f, T)
    BY <2>1, SumTakes, SumIsNotNegative
  <2> QED BY <2>2
<1>2. \A x \in S : f[x] \in Int
  OBVIOUS
<1>3. \A y \in S : Sum(f, S) = f[y] + Sum(f, S \ {y})
  BY <1>2, SumTakes
<1>4. \A y \in S : S \ {y} \in SUBSET S
  OBVIOUS
<1> QED BY <1>1, <1>3, <1>4

\* A part of a set has a part of its sum; all of it if what is left has none.
LEMMA SumOfPart ==
  ASSUME NEW f, NEW S, IsFiniteSet(S), \A x \in S : f[x] \in Nat, NEW T \in SUBSET S
  PROVE  /\ Sum(f, T) <= Sum(f, S)
         /\ (\A x \in S \ T : f[x] = 0) => Sum(f, T) = Sum(f, S)
<1>1. PICK g : g = [x \in S |-> IF x \in T THEN f[x] ELSE 0]
  OBVIOUS
<1>2. /\ \A x \in T : f[x] \in Int /\ g[x] = f[x]
      /\ \A x \in S \ T : g[x] = 0
      /\ \A x \in S : g[x] \in Int /\ f[x] \in Int /\ g[x] <= f[x]
  BY <1>1
<1>3. Sum(f, T) = Sum(g, S)
  BY <1>2, SumOverPart
<1>4. Sum(g, S) <= Sum(f, S)
  BY <1>2, SumIsMonotone
<1>5. (\A x \in S \ T : f[x] = 0) => Sum(g, S) = Sum(f, S)
  <2> SUFFICES ASSUME \A x \in S \ T : f[x] = 0 PROVE Sum(g, S) = Sum(f, S)
    OBVIOUS
  <2>1. \A x \in S : g[x] \in Int /\ g[x] = f[x]
    BY <1>2
  <2> QED BY <2>1, SumOfEquals
<1> QED BY <1>3, <1>4, <1>5

LEMMA BatchFacts ==
  /\ Len(Sizes) \in Nat /\ IsFiniteSet(Batches)
  /\ \A b \in Batches : /\ Sizes[b] \in Nat \ {0} /\ Clean[b] \in Nat /\ Surviving[b] \in Nat
                        /\ Surviving[b] <= Clean[b] /\ Clean[b] <= Sizes[b]
<1>1. Len(Sizes) \in Nat
  BY BatchesAssumption
<1>2. IsFiniteSet(Batches)
  BY <1>1, FS_Interval DEF Batches
<1> QED BY <1>1, <1>2, BatchesAssumption DEF Batches

-----------------------------------------------------------------------------
(* The batches that have a mask, in order.                                 *)

LEMMA UpToInduction ==
  ASSUME NEW n \in Nat, NEW T, 0 \in T, \A k \in 0..n : k # n /\ k \in T => k + 1 \in T
  PROVE  0..n \subseteq T
<1> SUFFICES ASSUME 0..n \ T # {} PROVE FALSE
  OBVIOUS
<1>1. PICK m \in 0..n \ T : \A k \in 0..n \ T : m <= k
  <2>1. 0..n \ T \in SUBSET Nat
    OBVIOUS
  <2> QED BY <2>1, LeastNatural
<1>2. m - 1 \in 0..n /\ m - 1 # n /\ m - 1 + 1 = m /\ ~(m <= m - 1)
  <2>1. m # 0 /\ m \in 0..n
    OBVIOUS
  <2> QED BY <2>1
<1>3. m - 1 \in T
  BY <1>1, <1>2
<1>4. m - 1 + 1 \in T
  BY <1>2, <1>3
<1> QED BY <1>2, <1>4

\* One step of the list, and the list as a function of the last batch.
Pick(r, A, b) == IF b = 0 THEN <<>> ELSE IF b \in A THEN Append(r[b - 1], b) ELSE r[b - 1]
IsPick(r, A, n) == r = [b \in 0..n |-> Pick(r, A, b)]

LEMMA PickExists ==
  ASSUME NEW n \in Nat, NEW A
  PROVE  \E r : IsPick(r, A, n)
<1> DEFINE T == {k \in 0..n : \E r : IsPick(r, A, k)}
<1>1. 0 \in T
  <2> DEFINE r == [b \in 0..0 |-> <<>>]
  <2>1. r = [b \in 0..0 |-> Pick(r, A, b)]
    BY DEF Pick
  <2> HIDE DEF r
  <2> QED BY <2>1 DEF IsPick
<1>2. ASSUME NEW k \in 0..n, k # n, k \in T PROVE k + 1 \in T
  <2>1. PICK q : IsPick(q, A, k)
    BY <1>2
  <2> DEFINE r == [b \in 0..(k + 1) |-> IF b = k + 1 THEN Pick(q, A, b) ELSE q[b]]
  <2>2. ASSUME NEW b \in 0..(k + 1) PROVE r[b] = Pick(r, A, b)
    <3>1. b # 0 => b - 1 \in 0..(k + 1) /\ r[b - 1] = q[b - 1]
      OBVIOUS
    <3>2. Pick(r, A, b) = Pick(q, A, b)
      BY <3>1 DEF Pick
    <3>3. b # k + 1 => q[b] = Pick(q, A, b)
      <4>1. b # k + 1 => b \in 0..k
        OBVIOUS
      <4> QED BY <2>1, <4>1 DEF IsPick
    <3> QED BY <3>2, <3>3
  <2>3. r = [b \in 0..(k + 1) |-> r[b]]
    OBVIOUS
  <2> HIDE DEF r
  <2>4. IsPick(r, A, k + 1)
    BY <2>2, <2>3 DEF IsPick
  <2>5. k + 1 \in 0..n
    BY <1>2
  <2> QED BY <2>4, <2>5
<1> HIDE DEF T
<1>3. 0..n \subseteq T
  BY <1>1, <1>2, UpToInduction
<1> QED BY <1>3 DEF T

LEMMA PickStep ==
  ASSUME NEW n \in Nat, NEW A, NEW r, IsPick(r, A, n)
  PROVE  /\ r[0] = <<>>
         /\ \A k \in 0..n : k # n =>
              r[k + 1] = IF k + 1 \in A THEN Append(r[k], k + 1) ELSE r[k]
<1>1. \A b \in 0..n : r[b] = Pick(r, A, b)
  BY DEF IsPick
<1>2. ASSUME NEW k \in 0..n, k # n
      PROVE  r[k + 1] = IF k + 1 \in A THEN Append(r[k], k + 1) ELSE r[k]
  <2>1. k + 1 \in 0..n /\ k + 1 # 0 /\ k + 1 - 1 = k
    BY <1>2
  <2>2. r[k + 1] = Pick(r, A, k + 1)
    BY <1>1, <2>1
  <2> QED BY <2>1, <2>2 DEF Pick
<1> QED BY <1>1, <1>2 DEF Pick

LEMMA PickIsSequence ==
  ASSUME NEW n \in Nat, NEW A, NEW r, IsPick(r, A, n)
  PROVE  \A k \in 0..n : r[k] \in Seq(1..n)
<1> DEFINE S == {k \in 0..n : r[k] \in Seq(1..n)}
<1>1. 0 \in S
  <2>1. r[0] = <<>> /\ 0 \in 0..n
    BY PickStep
  <2>2. r[0] \in Seq(1..n)
    BY <2>1
  <2> QED BY <2>1, <2>2
<1>2. ASSUME NEW k \in 0..n, k # n, k \in S PROVE k + 1 \in S
  <2>1. k + 1 \in 1..n /\ k + 1 \in 0..n
    BY <1>2
  <2>2. r[k + 1] = IF k + 1 \in A THEN Append(r[k], k + 1) ELSE r[k]
    BY <1>2, PickStep
  <2>3. r[k] \in Seq(1..n)
    BY <1>2
  <2>4. r[k + 1] \in Seq(1..n)
    BY <2>1, <2>2, <2>3, AppendPlaces
  <2> QED BY <2>1, <2>4
<1> HIDE DEF S
<1>3. 0..n \subseteq S
  BY <1>1, <1>2, UpToInduction
<1> QED BY <1>3 DEF S

\* s is the beginning of t, entry by entry.
Begins(s, t) == Len(s) <= Len(t) /\ \A i \in 1..Len(s) : t[i] = s[i]

\* What is listed up to a batch goes on in the list up to a later one.
LEMMA PickGoesOn ==
  ASSUME NEW n \in Nat, NEW A, NEW r, IsPick(r, A, n), NEW a \in 0..n, NEW b \in 0..n, a <= b
  PROVE  Begins(r[a], r[b])
<1>0. \A k \in 0..n : r[k] \in Seq(1..n) /\ Len(r[k]) \in Nat
  BY PickIsSequence
<1> DEFINE T == {k \in 0..n : a <= k => Begins(r[a], r[k])}
<1>1. Begins(r[a], r[a])
  BY <1>0 DEF Begins
<1>2. 0 \in T
  BY <1>1
<1>3. ASSUME NEW k \in 0..n, k # n, k \in T PROVE k + 1 \in T
  <2>1. k + 1 \in 0..n /\ k + 1 \in 1..n
    BY <1>3
  <2>2. ASSUME a <= k + 1, a # k + 1 PROVE Begins(r[a], r[k + 1])
    <3>1. Begins(r[a], r[k])
      BY <1>3, <2>2
    <3>2. r[k + 1] = IF k + 1 \in A THEN Append(r[k], k + 1) ELSE r[k]
      BY <1>3, PickStep
    <3>3. PICK s \in Seq(1..n), t \in Seq(1..n) : s = r[a] /\ t = r[k]
      BY <1>0
    <3>4. Begins(s, Append(t, k + 1))
      BY <2>1, <3>1, <3>3, AppendPlaces DEF Begins
    <3> QED BY <3>1, <3>2, <3>3, <3>4
  <2> QED BY <1>1, <2>1, <2>2
<1> HIDE DEF T
<1>4. 0..n \subseteq T
  BY <1>2, <1>3, UpToInduction
<1> QED BY <1>4 DEF T

\* The reference masks of the evaluation, and the masks of the capture.
LEMMA ReferenceFacts ==
  /\ ReferenceUpTo(0) = <<>>
  /\ \A b \in Batches : ReferenceUpTo(b) = IF b \in Attackable THEN Append(ReferenceUpTo(b - 1), b)
                                           ELSE ReferenceUpTo(b - 1)
  /\ \A b \in 0..Len(Sizes) : /\ ReferenceUpTo(b) \in Seq(Batches)
                              /\ Begins(ReferenceUpTo(b), Reference)
<1> DEFINE r == CHOOSE r : IsPick(r, Attackable, Len(Sizes))
<1>1. Len(Sizes) \in Nat
  BY BatchFacts
<1>2. IsPick(r, Attackable, Len(Sizes))
  BY <1>1, PickExists
<1>3. \A n : ReferenceUpTo(n) = r[n]
  BY DEF ReferenceUpTo, IsPick, Pick
<1> HIDE DEF r
<1>4. r[0] = <<>>
  BY <1>1, <1>2, PickStep
<1>5. ASSUME NEW b \in Batches
      PROVE  r[b] = IF b \in Attackable THEN Append(r[b - 1], b) ELSE r[b - 1]
  <2>1. b - 1 \in 0..Len(Sizes) /\ b - 1 # Len(Sizes) /\ b - 1 + 1 = b
    BY <1>1 DEF Batches
  <2>2. r[b - 1 + 1] = IF b - 1 + 1 \in Attackable THEN Append(r[b - 1], b - 1 + 1) ELSE r[b - 1]
    BY <1>1, <1>2, <2>1, PickStep
  <2> QED BY <2>1, <2>2
<1>6. ASSUME NEW b \in 0..Len(Sizes)
      PROVE  r[b] \in Seq(Batches) /\ Begins(r[b], r[Len(Sizes)])
  <2>1. r[b] \in Seq(Batches)
    BY <1>1, <1>2, PickIsSequence DEF Batches
  <2>2. Len(Sizes) \in 0..Len(Sizes) /\ b <= Len(Sizes)
    BY <1>1
  <2>3. Begins(r[b], r[Len(Sizes)])
    BY <1>1, <1>2, <2>2, PickGoesOn
  <2> QED BY <2>1, <2>3
<1> QED BY <1>3, <1>4, <1>5, <1>6 DEF Reference

HasMask == [b \in Batches |-> Clean[b] > 0]

LEMMA MasksFacts ==
  /\ C!MasksUpTo(0) = <<>>
  /\ \A b \in Batches : C!MasksUpTo(b) = IF HasMask[b] THEN Append(C!MasksUpTo(b - 1), b)
                                         ELSE C!MasksUpTo(b - 1)
<1> DEFINE A == {b \in Batches : HasMask[b]}
           n == Len(Sizes)
           IsMasks(r) == r = [b \in 0..n |-> IF b = 0 THEN <<>>
                                ELSE IF HasMask[b] THEN Append(r[b - 1], b) ELSE r[b - 1]]
           r == CHOOSE r : IsMasks(r)
<1>1. n \in Nat
  BY BatchFacts
<1>2. C!NBatches = n
  BY <1>1 DEF C!NBatches, Batches
<1>3. ASSUME NEW q PROVE IsPick(q, A, n) <=> IsMasks(q)
  <2>1. ASSUME NEW b \in 0..n
        PROVE  Pick(q, A, b) = IF b = 0 THEN <<>> ELSE IF HasMask[b] THEN Append(q[b - 1], b)
                                                      ELSE q[b - 1]
    <3>1. b # 0 => (b \in A <=> HasMask[b])
      BY <1>1 DEF Batches
    <3> QED BY <3>1 DEF Pick
  <2> QED BY <2>1 DEF IsPick
<1>4. IsMasks(r)
  <2>1. \E q : IsMasks(q)
    BY <1>1, <1>3, PickExists
  <2> QED BY <2>1
<1>5. \A k : C!MasksUpTo(k) = r[k]
  BY <1>2 DEF C!MasksUpTo, HasMask
<1> HIDE DEF r, n, IsMasks, A
<1>6. IsPick(r, A, n)
  BY <1>3, <1>4
<1>7. r[0] = <<>>
  BY <1>1, <1>6, PickStep
<1>8. ASSUME NEW b \in Batches
      PROVE  r[b] = IF HasMask[b] THEN Append(r[b - 1], b) ELSE r[b - 1]
  <2>1. b - 1 \in 0..n /\ b - 1 # n /\ b - 1 + 1 = b
    BY <1>1 DEF Batches, n
  <2>2. r[b - 1 + 1] = IF b - 1 + 1 \in A THEN Append(r[b - 1], b - 1 + 1) ELSE r[b - 1]
    BY <1>1, <1>6, <2>1, PickStep
  <2> QED BY <2>1, <2>2 DEF A
<1> QED BY <1>5, <1>7, <1>8

LEMMA MasksStep ==
  ASSUME NEW n \in 0..Len(Sizes), n + 1 \in Batches
  PROVE  /\ HasMask[n + 1] => C!MasksUpTo(n + 1) = Append(C!MasksUpTo(n), n + 1)
         /\ ~HasMask[n + 1] => C!MasksUpTo(n + 1) = C!MasksUpTo(n)
<1>1. PICK b \in Batches : b = n + 1 /\ b - 1 = n
  OBVIOUS
<1>2. C!MasksUpTo(b) = IF HasMask[b] THEN Append(C!MasksUpTo(b - 1), b) ELSE C!MasksUpTo(b - 1)
  BY MasksFacts
<1> QED BY <1>1, <1>2

-----------------------------------------------------------------------------
(* The capture.                                                            *)

UpTo == IF done > startBatch THEN done ELSE startBatch
Full(n) == \A b \in 1..n : HasMask[b]

\* Up to the first batch without a mask, the masks are those of the first batches,
Ordered(m) == m # <<>> /\ m[1] = 1 => \A i \in 1..Len(m) : Full(i) => m[i] = i

\* and they are there for all of n batches.
Reaching(m, n) ==
  m # <<>> /\ m[1] = 1 => /\ \A k \in 1..n : Full(k) => k <= Len(m)
                          /\ Full(n) => Len(m) = n

CaptureTypes ==
  /\ result \in [state : {"absent", "torn", "whole"}, completed : 0..Len(Sizes),
                 attacked : SUBSET Batches]
  /\ cw \in [state : {"absent", "torn", "whole"}, masks : Seq(Batches)]
  /\ cwMasks \in Seq(Batches) /\ attackedBatches \subseteq Batches
  /\ startBatch \in 0..Len(Sizes) /\ done \in 0..Len(Sizes)

\* The result file counts what its batches have, and at least one.
ResultInv ==
  result.state = "whole" => /\ result.completed # 0
                            /\ result.attacked = {b \in 1..result.completed : HasMask[b]}

\* The process has what its batches have, those included that it found done.
ProcessInv ==
  /\ attackedBatches = {b \in 1..UpTo : HasMask[b]}
  /\ cpc \in {"flush", "dump", "save", "masks"} => done > startBatch
  /\ startBatch = 0 => cwMasks = C!MasksUpTo(done)
  /\ Ordered(cwMasks) /\ Reaching(cwMasks, UpTo)

MaskFileInv == cw.state = "whole" => Ordered(cw.masks)

CaptureInv == CaptureTypes /\ ResultInv /\ ProcessInv /\ MaskFileInv

LEMMA CaptureInitInv ==
  ASSUME C!CaptureInit
  PROVE  CaptureInv
<1>1. Len(Sizes) \in Nat
  BY BatchFacts
<1>2. CaptureTypes /\ ResultInv /\ MaskFileInv
  BY <1>1 DEF C!CaptureInit, CaptureTypes, ResultInv, MaskFileInv
<1>3. UpTo = 0
  BY DEF C!CaptureInit, UpTo
<1>4. ProcessInv
  BY <1>3, MasksFacts DEF C!CaptureInit, ProcessInv, Ordered, Reaching
<1> QED BY <1>2, <1>4 DEF CaptureInv

\* The next batch of a process: with a mask or without.
LEMMA MaskAdded ==
  ASSUME NEW m \in Seq(Batches), NEW n \in 0..Len(Sizes), n + 1 \in Batches,
         Ordered(m), Reaching(m, n), HasMask[n + 1]
  PROVE  Ordered(Append(m, n + 1)) /\ Reaching(Append(m, n + 1), n + 1)
<1> DEFINE q == Append(m, n + 1)
<1>1. /\ q \in Seq(Batches) /\ Len(m) \in Nat /\ Len(q) = Len(m) + 1 /\ q[Len(m) + 1] = n + 1
      /\ \A i \in 1..Len(m) : q[i] = m[i]
  BY AppendPlaces
<1> HIDE DEF q
<1> SUFFICES ASSUME q # <<>>, q[1] = 1 PROVE Ordered(q) /\ Reaching(q, n + 1)
  BY DEF Ordered, Reaching, q
<1>2. Len(Sizes) \in Nat
  BY BatchFacts
<1>3. CASE m = <<>>
  <2>1. Len(q) = 1 /\ n = 0
    BY <1>1, <1>3
  <2> QED BY <1>1, <2>1 DEF Ordered, Reaching
<1>4. CASE m # <<>>
  <2>1. Len(m) >= 1
    BY <1>1, <1>4
  <2>2. m[1] = 1
    BY <1>1, <2>1
  <2>3. /\ \A k \in 1..n : Full(k) => k <= Len(m)
        /\ Full(n) => Len(m) = n
        /\ \A i \in 1..Len(m) : Full(i) => m[i] = i
    BY <1>4, <2>2 DEF Ordered, Reaching
  <2>4. \A k, l \in Nat : k <= l /\ Full(l) => Full(k)
    BY DEF Full
  <2>5. Full(Len(m) + 1) => Len(m) = n
    <3> SUFFICES ASSUME Full(Len(m) + 1), ~Full(n) PROVE FALSE
      BY <2>3
    <3>1. Len(m) + 1 <= n
      BY <1>1, <2>4
    <3>2. Len(m) + 1 <= Len(m)
      BY <1>1, <2>3, <3>1
    <3> QED BY <1>1, <3>2
  <2>6. Ordered(q)
    <3>1. ASSUME NEW i \in 1..Len(q), Full(i) PROVE q[i] = i
      <4>1. CASE i = Len(m) + 1
        BY <1>1, <2>5, <3>1, <4>1
      <4>2. CASE i # Len(m) + 1
        <5>1. i \in 1..Len(m)
          BY <1>1, <4>2
        <5> QED BY <1>1, <2>3, <3>1, <5>1
      <4> QED BY <4>1, <4>2
    <3> QED BY <3>1 DEF Ordered
  <2>7. Full(n + 1) => Len(q) = n + 1
    BY <1>1, <2>3, <2>4
  <2>8. \A k \in 1..(n + 1) : Full(k) => k <= Len(q)
    <3> SUFFICES ASSUME NEW k \in 1..(n + 1), Full(k) PROVE k <= Len(q)
      OBVIOUS
    <3>1. CASE k = n + 1
      BY <1>1, <2>7, <3>1
    <3>2. CASE k # n + 1
      <4>1. k \in 1..n
        BY <3>2
      <4> QED BY <1>1, <2>3, <4>1
    <3> QED BY <3>1, <3>2
  <2> QED BY <2>6, <2>7, <2>8 DEF Reaching
<1> QED BY <1>3, <1>4

LEMMA NoMaskAdded ==
  ASSUME NEW m \in Seq(Batches), NEW n \in 0..Len(Sizes), n + 1 \in Batches,
         Reaching(m, n), ~HasMask[n + 1]
  PROVE  Reaching(m, n + 1)
<1>1. ~Full(n + 1)
  BY DEF Full
<1>2. \A k \in 1..(n + 1) : Full(k) => k \in 1..n
  BY <1>1
<1> QED BY <1>1, <1>2 DEF Reaching

\* A process that starts: its masks are those it has restored, if any.
LEMMA BeginsStep ==
  ASSUME CaptureInv, NEW n \in 0..Len(Sizes), NEW attacked, NEW m \in Seq(Batches),
         C!CaptureBegins(n, attacked, m),
         attacked = {b \in 1..n : HasMask[b]},
         n = 0 => m = <<>>,
         Ordered(m), Reaching(m, n)
  PROVE  CaptureInv'
<1>1. Len(Sizes) \in Nat
  BY BatchFacts
<1>2. /\ startBatch' = n /\ done' = 0 /\ attackedBatches' = attacked /\ cwMasks' = m
      /\ cpc' = "loop" /\ UNCHANGED <<result, cw>>
  BY DEF C!CaptureBegins
<1>3. UpTo' = n
  BY <1>2 DEF UpTo
<1>4. CaptureTypes'
  <2>1. attacked \subseteq Batches
    BY <1>1 DEF Batches
  <2> QED BY <1>1, <1>2, <2>1 DEF CaptureInv, CaptureTypes
<1>5. ResultInv' /\ MaskFileInv'
  BY <1>2 DEF CaptureInv, ResultInv, MaskFileInv, Ordered
<1>6. Ordered(m)' /\ Reaching(m, n)'
  BY DEF Ordered, Reaching
<1>7. ProcessInv'
  <2>1. attackedBatches' = {b \in 1..(UpTo') : HasMask[b]}
    BY <1>2, <1>3
  <2>2. startBatch' = 0 => cwMasks' = C!MasksUpTo(done')
    BY <1>2, MasksFacts
  <2>3. Ordered(cwMasks') /\ Reaching(cwMasks', UpTo')
    BY <1>2, <1>3
  <2> QED BY <1>2, <2>1, <2>2, <2>3 DEF ProcessInv, Ordered, Reaching
<1> QED BY <1>4, <1>5, <1>7 DEF CaptureInv

LEMMA CaptureFreshStep ==
  ASSUME CaptureInv, C!CaptureFresh
  PROVE  CaptureInv'
<1>1. C!CaptureBegins(0, {}, <<>>)
  BY DEF C!CaptureFresh
<1>2. {b \in 1..0 : HasMask[b]} = {} /\ Ordered(<<>>) /\ Reaching(<<>>, 0)
  BY DEF Ordered, Reaching
<1>3. 0 \in 0..Len(Sizes) /\ <<>> \in Seq(Batches)
  BY BatchFacts
<1> QED BY <1>1, <1>2, <1>3, BeginsStep

\* The first n masks of a file that has as many.
LEMMA RestoredFacts ==
  ASSUME NEW s \in Seq(Batches), Ordered(s), NEW n \in Nat \ {0}, Len(s) >= n \/ s = <<>>
  PROVE  /\ C!Restored(s, n) \in Seq(Batches)
         /\ Ordered(C!Restored(s, n)) /\ Reaching(C!Restored(s, n), n)
<1>1. CASE s = <<>>
  <2>1. C!Restored(s, n) = <<>>
    BY <1>1 DEF C!Restored
  <2> QED BY <2>1 DEF Ordered, Reaching
<1>2. CASE Len(s) >= n
  <2> DEFINE m == SubSeq(s, 1, n)
  <2>1. m \in Seq(Batches) /\ Len(m) = n /\ \A i \in 1..n : m[i] = s[i]
    BY <1>2
  <2>2. C!Restored(s, n) = m
    <3>1. C!Restored(s, n) = SubSeq(s, 1, IF n < Len(s) THEN n ELSE Len(s))
      BY DEF C!Restored
    <3>2. Len(s) \in Nat /\ (IF n < Len(s) THEN n ELSE Len(s)) = n
      BY <1>2
    <3> QED BY <3>1, <3>2
  <2> HIDE DEF m
  <2>3. s # <<>> /\ m[1] = s[1]
    BY <1>2, <2>1
  <2>4. Ordered(m)
    BY <1>2, <2>1, <2>3 DEF Ordered
  <2>5. Reaching(m, n)
    BY <2>1 DEF Reaching
  <2> QED BY <2>1, <2>2, <2>4, <2>5
<1> QED BY <1>1, <1>2

LEMMA CaptureResumesStep ==
  ASSUME CaptureInv, C!CaptureResumes
  PROVE  CaptureInv'
<1> DEFINE n == result.completed
           m == IF cw.state = "absent" THEN <<>> ELSE C!Restored(cw.masks, n)
<1>1. /\ result.state = "whole" /\ cw.state # "torn"
      /\ cw.state = "whole" => Len(m) >= n \/ cw.masks = <<>>
      /\ C!CaptureBegins(n, result.attacked, m)
  BY DEF C!CaptureResumes
<1>2. /\ n \in 0..Len(Sizes) /\ n # 0 /\ result.attacked = {b \in 1..n : HasMask[b]}
      /\ n \in Nat \ {0} /\ cw.masks \in Seq(Batches)
  BY <1>1, BatchFacts DEF CaptureInv, CaptureTypes, ResultInv
<1>3. m \in Seq(Batches) /\ Ordered(m) /\ Reaching(m, n)
  <2>1. CASE cw.state = "absent"
    BY <2>1 DEF Ordered, Reaching
  <2>2. CASE cw.state = "whole"
    <3>1. Ordered(cw.masks)
      BY <2>2 DEF CaptureInv, MaskFileInv
    <3>2. Len(m) >= n => Len(cw.masks) >= n
      <4> SUFFICES ASSUME Len(cw.masks) < n PROVE Len(m) < n
        BY <1>2
      <4>1. C!Restored(cw.masks, n) = SubSeq(cw.masks, 1, Len(cw.masks))
        BY <1>2 DEF C!Restored
      <4>2. Len(SubSeq(cw.masks, 1, Len(cw.masks))) = Len(cw.masks)
        BY <1>2
      <4> QED BY <2>2, <4>1, <4>2
    <3>3. Len(cw.masks) >= n \/ cw.masks = <<>>
      BY <1>1, <2>2, <3>2
    <3> HIDE DEF n
    <3>4. /\ C!Restored(cw.masks, n) \in Seq(Batches) /\ Ordered(C!Restored(cw.masks, n))
          /\ Reaching(C!Restored(cw.masks, n), n)
      BY <1>2, <3>1, <3>3, RestoredFacts
    <3> QED BY <2>2, <3>4
  <2>3. cw.state = "absent" \/ cw.state = "whole"
    BY <1>1 DEF CaptureInv, CaptureTypes
  <2> QED BY <2>1, <2>2, <2>3
<1> HIDE DEF n, m
<1> QED BY <1>1, <1>2, <1>3, BeginsStep

LEMMA CaptureBatchStep ==
  ASSUME CaptureInv, C!CaptureBatch
  PROVE  CaptureInv'
<1>1. /\ done < Len(Sizes) /\ done' = done + 1 /\ UNCHANGED <<result, cw, startBatch>>
      /\ cpc = "loop" /\ C!NBatches = Len(Sizes) /\ Len(Sizes) \in Nat
  <2>1. C!NBatches = Len(Sizes) /\ Len(Sizes) \in Nat
    BY BatchFacts DEF C!NBatches, Batches
  <2> QED BY <2>1 DEF C!CaptureBatch
<1>2. done \in 0..Len(Sizes) /\ startBatch \in 0..Len(Sizes) /\ done + 1 \in Batches
      /\ cwMasks \in Seq(Batches)
  BY <1>1 DEF CaptureInv, CaptureTypes, Batches
<1>3. ResultInv' /\ MaskFileInv'
  BY <1>1 DEF CaptureInv, ResultInv, MaskFileInv, Ordered
<1>4. CASE done < startBatch
  <2>1. UNCHANGED <<cpc, attackedBatches, cwMasks>>
    BY <1>4 DEF C!CaptureBatch
  <2>2. UpTo' = UpTo
    BY <1>1, <1>2, <1>4 DEF UpTo
  <2>3. CaptureTypes'
    BY <1>1, <1>2, <2>1 DEF CaptureInv, CaptureTypes
  <2>4. cpc' \notin {"flush", "dump", "save", "masks"} /\ startBatch' # 0
    BY <1>1, <1>2, <1>4, <2>1
  <2>5. ProcessInv'
    BY <2>1, <2>2, <2>4 DEF CaptureInv, ProcessInv, Ordered, Reaching
  <2> QED BY <1>3, <2>3, <2>5 DEF CaptureInv
<1>5. CASE ~(done < startBatch)
  <2>1. /\ cpc' = "flush"
        /\ HasMask[done + 1] => /\ attackedBatches' = attackedBatches \cup {done + 1}
                                /\ cwMasks' = Append(cwMasks, done + 1)
        /\ ~HasMask[done + 1] => UNCHANGED <<attackedBatches, cwMasks>>
    BY <1>5 DEF C!CaptureBatch, HasMask
  <2>2. UpTo = done /\ UpTo' = done + 1
    BY <1>1, <1>2, <1>5 DEF UpTo
  <2>3. /\ attackedBatches = {b \in 1..done : HasMask[b]}
        /\ startBatch = 0 => cwMasks = C!MasksUpTo(done)
        /\ Ordered(cwMasks) /\ Reaching(cwMasks, done)
    BY <2>2 DEF CaptureInv, ProcessInv
  <2>4. attackedBatches' = {b \in 1..(done + 1) : HasMask[b]}
    <3>1. 1..(done + 1) = 1..done \cup {done + 1}
      BY <1>2
    <3> QED BY <2>1, <2>3, <3>1
  <2>5. startBatch' = 0 => cwMasks' = C!MasksUpTo(done + 1)
    <3>1. PICK n \in 0..Len(Sizes) : n = done /\ n + 1 \in Batches
      BY <1>2
    <3>2. /\ HasMask[n + 1] => C!MasksUpTo(n + 1) = Append(C!MasksUpTo(n), n + 1)
          /\ ~HasMask[n + 1] => C!MasksUpTo(n + 1) = C!MasksUpTo(n)
      BY <3>1, MasksStep
    <3> QED BY <1>1, <2>1, <2>3, <3>1, <3>2
  <2>6. cwMasks' \in Seq(Batches) /\ Ordered(cwMasks') /\ Reaching(cwMasks', done + 1)
    <3>1. CASE HasMask[done + 1]
      <4>1. Append(cwMasks, done + 1) \in Seq(Batches)
        BY <1>2, AppendPlaces
      <4> QED BY <1>2, <2>1, <2>3, <3>1, <4>1, MaskAdded
    <3>2. CASE ~HasMask[done + 1]
      BY <1>2, <2>1, <2>3, <3>2, NoMaskAdded
    <3> QED BY <3>1, <3>2
  <2>7. CaptureTypes'
    <3>1. attackedBatches' \subseteq Batches
      BY <1>2, <2>1 DEF CaptureInv, CaptureTypes
    <3> QED BY <1>1, <1>2, <2>6, <3>1 DEF CaptureInv, CaptureTypes
  <2>8. cpc' \in {"flush", "dump", "save", "masks"} => done' > startBatch'
    BY <1>1, <1>2, <1>5
  <2>9. ProcessInv'
    BY <1>1, <2>2, <2>4, <2>5, <2>6, <2>8 DEF ProcessInv, Ordered, Reaching
  <2> QED BY <1>3, <2>7, <2>9 DEF CaptureInv
<1> QED BY <1>4, <1>5

\* The steps after which the process has the same masks of the same batches.
LEMMA OtherCaptureStep ==
  ASSUME CaptureInv, UNCHANGED <<startBatch, done, attackedBatches, cwMasks>>,
         cpc' \in {"flush", "dump", "save", "masks"} => done > startBatch,
         \/ UNCHANGED result
         \/ result' = [result EXCEPT !.state = "torn"]
         \/ /\ result' = [state |-> "whole", completed |-> done, attacked |-> attackedBatches]
            /\ done > startBatch,
         \/ UNCHANGED cw
         \/ cw' = [cw EXCEPT !.state = "torn"]
         \/ cw' = [state |-> "whole", masks |-> cwMasks]
  PROVE  CaptureInv'
<1>1. UpTo' = UpTo
  BY DEF UpTo
<1>2. CaptureTypes'
  BY DEF CaptureInv, CaptureTypes
<1>3. MaskFileInv'
  <2>1. CASE UNCHANGED cw
    BY <2>1 DEF CaptureInv, MaskFileInv, Ordered
  <2>2. CASE cw' = [cw EXCEPT !.state = "torn"]
    BY <2>2 DEF MaskFileInv, CaptureInv, CaptureTypes
  <2>3. CASE cw' = [state |-> "whole", masks |-> cwMasks]
    BY <2>3 DEF CaptureInv, ProcessInv, MaskFileInv, Ordered
  <2> QED BY <2>1, <2>2, <2>3
<1>4. ResultInv'
  <2>1. CASE UNCHANGED result
    BY <2>1 DEF CaptureInv, ResultInv
  <2>2. CASE result' = [result EXCEPT !.state = "torn"]
    BY <2>2 DEF ResultInv, CaptureInv, CaptureTypes
  <2>3. CASE /\ result' = [state |-> "whole", completed |-> done, attacked |-> attackedBatches]
             /\ done > startBatch
    <3>1. UpTo = done /\ done # 0
      BY <2>3 DEF CaptureInv, CaptureTypes, UpTo
    <3> QED BY <2>3, <3>1 DEF CaptureInv, ProcessInv, ResultInv
  <2> QED BY <2>1, <2>2, <2>3
<1>5. ProcessInv'
  BY <1>1 DEF CaptureInv, ProcessInv, Ordered, Reaching
<1> QED BY <1>2, <1>3, <1>4, <1>5 DEF CaptureInv

LEMMA CaptureStep ==
  ASSUME CaptureInv, C!Capture
  PROVE  CaptureInv'
<1>1. CASE C!CaptureFresh
  BY <1>1, CaptureFreshStep
<1>2. CASE C!CaptureResumes
  BY <1>2, CaptureResumesStep
<1>3. CASE C!CaptureBatch
  BY <1>3, CaptureBatchStep
<1>4. CASE C!Flush
  <2>1. UNCHANGED <<startBatch, done, attackedBatches, cwMasks>> /\ done > startBatch
    BY <1>4 DEF C!Flush, C!clocals, CaptureInv, ProcessInv
  <2>2. \/ UNCHANGED result
        \/ result' = [result EXCEPT !.state = "torn"]
        \/ result' = [state |-> "whole", completed |-> done, attacked |-> attackedBatches]
    BY <1>4 DEF C!Flush
  <2>3. \/ UNCHANGED cw
        \/ cw' = [cw EXCEPT !.state = "torn"]
        \/ cw' = [state |-> "whole", masks |-> cwMasks]
    BY <1>4 DEF C!Flush
  <2> QED BY <2>1, <2>2, <2>3, OtherCaptureStep
<1>5. CASE C!CaptureEnds \/ C!CaptureKilled
  BY <1>5, OtherCaptureStep DEF C!CaptureEnds, C!CaptureKilled, C!clocals
<1> QED BY <1>1, <1>2, <1>3, <1>4, <1>5 DEF C!Capture

LEMMA CaptureInvHolds == StudySpec => []CaptureInv
<1>1. StudyInit => CaptureInv
  BY CaptureInitInv DEF StudyInit
<1>2. CaptureInv /\ [StudyNext]_<<vars, captureOnly, cw>> => CaptureInv'
  <2> SUFFICES ASSUME CaptureInv, [StudyNext]_<<vars, captureOnly, cw>> PROVE CaptureInv'
    OBVIOUS
  <2>1. CASE C!Capture
    BY <2>1, CaptureStep
  <2>2. CASE UNCHANGED <<captureOnly, cw>>
    BY <2>2, OtherCaptureStep DEF captureOnly, CaptureInv, ProcessInv
  <2> QED BY <2>1, <2>2 DEF StudyNext
<1> QED BY <1>1, <1>2, PTL DEF StudySpec

\* For any batches, limits and number of kills: what the capture has in hand when it
\* has begun with the first batch, and what its result file counts, is that of its
\* batches.
THEOREM CaptureHolds == StudySpec => []CaptureIsExact
<1>1. CaptureInv => CaptureIsExact
  <2> SUFFICES ASSUME CaptureInv PROVE CaptureIsExact
    OBVIOUS
  <2>1. /\ startBatch \in Nat /\ done \in Nat /\ UpTo \in Nat
        /\ cwMasks \in Seq(Batches)
    BY BatchFacts DEF CaptureInv, CaptureTypes, UpTo
  <2>2. startBatch = 0 => cwMasks = C!MasksUpTo(UpTo)
    <3>1. startBatch = 0 => UpTo = done
      BY <2>1 DEF UpTo
    <3> QED BY <3>1 DEF CaptureInv, ProcessInv
  <2>3. ASSUME Full(UpTo), cwMasks # <<>>, cwMasks[1] = 1
        PROVE  cwMasks = [b \in 1..UpTo |-> b]
    <3>1. Len(cwMasks) = UpTo
      BY <2>3 DEF CaptureInv, ProcessInv, Reaching
    <3>2. \A i \in 1..UpTo : Full(i)
      BY <2>1, <2>3 DEF Full
    <3>3. \A i \in 1..UpTo : cwMasks[i] = i
      BY <2>3, <3>1, <3>2 DEF CaptureInv, ProcessInv, Ordered
    <3>4. cwMasks = [i \in 1..UpTo |-> cwMasks[i]]
      BY <2>1, <3>1
    <3> QED BY <3>3, <3>4
  <2>4. C!MasksAreExact
    BY <2>2, <2>3 DEF C!MasksAreExact, UpTo, Full, HasMask
  <2>5. C!CapturedCountsAreExact
    BY DEF C!CapturedCountsAreExact, CaptureInv, ResultInv, HasMask
  <2> QED BY <2>4, <2>5 DEF CaptureIsExact, C!CaptureIsExact
<1> QED BY <1>1, CaptureInvHolds, PTL

-----------------------------------------------------------------------------
(* The evaluation.                                                         *)

\* Whatever the process has done or found done: of the batches before the next one,
\* those with something to attack are processed, each once, and counted.
CountedInv ==
  /\ \A i \in 1..Len(records) : records[i].batch < bi
  /\ \A b \in Attackable : b < bi => b \in Processed
  /\ Processed \subseteq Attackable
  /\ agg.attacked = Sum(Clean, Processed)
  /\ agg.k1 = Sum(Surviving, Processed)
  /\ agg.total >= Sum(Sizes, Processed)

\* A process without a limit is past the gate when it comes to the final files.
GateInv ==
  pc \in {"final", "finalDumping"} /\ limit = {} =>
    bi = Len(Sizes) + 1 /\ agg.total = Sum(Sizes, Batches)

\* What a process can rely on when it starts.
SavedInv ==
  json.state \in {"partial", "complete"} =>
    /\ json.processed \subseteq Attackable
    /\ json.agg.attacked = Sum(Clean, json.processed)
    /\ json.agg.k1 = Sum(Surviving, json.processed)
    /\ json.agg.total >= Sum(Sizes, json.processed)
    /\ json.state = "complete" =>
         json.processed = Attackable /\ json.agg.total = Sum(Sizes, Batches)

\* A file in which nothing is done has counted nothing, and so has the process that
\* writes it: only a limit of 0 ends a loop before something is attacked.
NothingInv ==
  Attackable # {} =>
    /\ json.state \in {"partial", "complete"} /\ json.processed = {} => json.agg.total = 0
    /\ Processed = {} /\ bi # 1 => ~Reached(0)
    /\ pc \in {"dump", "dumping", "final", "finalDumping"} /\ Processed = {} => bi = 1

\* A process that found nothing done has counted the batches so far, kept the masks
\* of those that have one, and compared them with the right reference.
FreshInv ==
  Attackable # {} /\ startSet = {} =>
    /\ agg.total = Sum(Sizes, 1..(bi - 1))
    /\ masks = ReferenceUpTo(bi - 1)
    /\ IsPrefix(ref.masks, Reference) =>
         /\ \A i \in 1..Len(records) : records[i].ref \in {0, records[i].batch}
         /\ outcome = "failed" => ref.state = "whole" /\ Len(ref.masks) < Len(Reference)

EvaluationInv == CountedInv /\ GateInv /\ SavedInv /\ NothingInv /\ FreshInv

\* What the types say of the batch in the loop and of the sets of batches.
LEMMA LoopFacts ==
  ASSUME TypeOK
  PROVE  /\ bi \in Nat /\ Len(Sizes) \in Nat /\ Len(records) \in Nat /\ Len(masks) \in Nat
         /\ \A i \in 1..Len(records) : records[i].batch \in Batches
         /\ Attackable \subseteq Batches /\ startSet \subseteq Attackable
         /\ Processed \subseteq Batches
<1>1. bi \in Nat /\ Len(Sizes) \in Nat /\ Len(records) \in Nat /\ Len(masks) \in Nat
  BY BatchFacts DEF TypeOK, RecordList
<1>2. \A i \in 1..Len(records) : records[i].batch \in Batches
  <2>1. PICK R : R = [batch : Batches, ref : 0..Len(Sizes)]
    OBVIOUS
  <2>2. records \in Seq(R)
    BY <2>1 DEF TypeOK, RecordList
  <2>3. \A i \in 1..Len(records) : records[i] \in R
    BY <2>2
  <2> QED BY <2>1, <2>3
<1>3. Attackable \subseteq Batches /\ startSet \subseteq Attackable
  BY DEF TypeOK, Attackable
<1> QED BY <1>1, <1>2, <1>3 DEF Processed

LEMMA SumOfMore ==
  ASSUME NEW f, \A b \in Batches : f[b] \in Nat, NEW S \in SUBSET Batches,
         NEW x \in Batches \ S
  PROVE  Sum(f, S \cup {x}) = Sum(f, S) + f[x] /\ Sum(f, S) \in Nat
<1>1. IsFiniteSet(S \cup {x}) /\ x \in S \cup {x} /\ (S \cup {x}) \ {x} = S
  <2>1. S \cup {x} \in SUBSET Batches
    OBVIOUS
  <2> QED BY <2>1, BatchFacts, FS_Subset
<1>2. \A b \in S \cup {x} : f[b] \in Nat
  OBVIOUS
<1>3. /\ Sum(f, S \cup {x}) = f[x] + Sum(f, (S \cup {x}) \ {x})
      /\ Sum(f, (S \cup {x}) \ {x}) \in Nat
  BY <1>1, <1>2, SumAdds
<1>4. Sum(f, (S \cup {x}) \ {x}) = Sum(f, S)
  BY <1>1, Zenon
<1>5. PICK p \in Nat, q \in Nat : p = f[x] /\ q = Sum(f, S)
  BY <1>3, <1>4
<1>6. Sum(f, S \cup {x}) = p + q
  BY <1>3, <1>4, <1>5, Zenon
<1> QED BY <1>5, <1>6

\* The next mask of the reference.
LEMMA ReferenceNext ==
  ASSUME NEW b \in Attackable
  PROVE  /\ Len(ReferenceUpTo(b - 1)) \in Nat
         /\ Len(ReferenceUpTo(b - 1)) < Len(Reference)
         /\ Reference[Len(ReferenceUpTo(b - 1)) + 1] = b
<1>1. b \in Batches /\ b - 1 \in 0..Len(Sizes) /\ b \in 0..Len(Sizes)
  BY BatchFacts DEF Attackable, Batches
<1>2. PICK s \in Seq(Batches) : s = ReferenceUpTo(b - 1)
  BY <1>1, ReferenceFacts
<1>3. ReferenceUpTo(b) = Append(s, b)
  BY <1>1, <1>2, ReferenceFacts
<1>4. Begins(Append(s, b), Reference)
  BY <1>1, <1>3, ReferenceFacts
<1>5. Len(s) \in Nat /\ Len(Append(s, b)) = Len(s) + 1 /\ Append(s, b)[Len(s) + 1] = b
  BY <1>1, AppendPlaces
<1>6. Len(s) + 1 \in 1..Len(Append(s, b))
  BY <1>5
<1>7. Reference \in Seq(Batches)
  BY BatchFacts, ReferenceFacts DEF Reference
<1> QED BY <1>2, <1>4, <1>5, <1>6, <1>7 DEF Begins

LEMMA PrefixFacts ==
  ASSUME NEW S, NEW s \in Seq(S), NEW t \in Seq(S), IsPrefix(s, t)
  PROVE  Len(s) \in Nat /\ Len(s) <= Len(t) /\ \A i \in 1..Len(s) : s[i] = t[i]
<1>1. Len(s) \in Nat /\ Len(t) \in Nat /\ Len(s) <= Len(t)
      /\ SubSeq(s, 1, Len(s)) = SubSeq(t, 1, Len(s))
  BY DEF IsPrefix
<1>2. \A i \in 1..Len(s) : SubSeq(s, 1, Len(s))[i] = s[i] /\ SubSeq(t, 1, Len(s))[i] = t[i]
  BY <1>1
<1> QED BY <1>1, <1>2

\* The batches passed are counted one by one.
LEMMA CountedUpTo ==
  ASSUME TypeOK, bi \in Batches
  PROVE  /\ Sum(Sizes, 1..bi) = Sum(Sizes, 1..(bi - 1)) + Sizes[bi]
         /\ Sizes[bi] \in Nat /\ Clean[bi] \in Nat /\ Surviving[bi] \in Nat
         /\ (bi + 1) - 1 = bi
<1>1. 1..(bi - 1) \in SUBSET Batches /\ bi \in Batches \ (1..(bi - 1)) /\ 1..bi = 1..(bi - 1) \cup {bi}
  BY BatchFacts DEF Batches
<1>2. \A b \in Batches : Sizes[b] \in Nat
  BY BatchFacts
<1>3. Sum(Sizes, 1..(bi - 1) \cup {bi}) = Sum(Sizes, 1..(bi - 1)) + Sizes[bi]
  BY <1>1, <1>2, SumOfMore
<1>4. Sum(Sizes, 1..bi) = Sum(Sizes, 1..(bi - 1)) + Sizes[bi]
  BY <1>1, <1>3, Zenon
<1>5. bi \in Nat
  BY BatchFacts DEF Batches
<1> QED BY <1>4, <1>5, BatchFacts

LEMMA EvaluationInitInv ==
  ASSUME Init
  PROVE  TypeOK /\ EvaluationInv
<1>1. Processed = {}
  BY DEF Init, Processed
<1>2. TypeOK
  BY BatchFacts, BoundsAssumption
     DEF Init, TypeOK, NoJson, NoMasks, Zero, Counters, RecordList, Options
<1>3. Sum(Clean, {}) = 0 /\ Sum(Surviving, {}) = 0 /\ Sum(Sizes, {}) = 0
  BY SumEmpty
<1>4. CountedInv
  BY <1>1, <1>3, BatchFacts DEF Init, CountedInv, Zero, Attackable, Batches
<1>5. GateInv /\ SavedInv /\ NothingInv
  BY DEF Init, GateInv, SavedInv, NothingInv, NoJson
<1>6. FreshInv
  <2>1. 1..(1 - 1) = {} /\ 1 - 1 = 0
    OBVIOUS
  <2> QED BY <1>3, <2>1, ReferenceFacts DEF Init, FreshInv, Zero
<1> QED BY <1>2, <1>4, <1>5, <1>6 DEF EvaluationInv

\* A process that starts, with the batches that it found done and their counters.
LEMMA BeginStep ==
  ASSUME TypeOK, EvaluationInv, CaptureTypes,
         NEW l \in Options, NEW d \in SUBSET Attackable, NEW counters \in Counters,
         Begin(l, d, counters),
         counters.attacked = Sum(Clean, d), counters.k1 = Sum(Surviving, d),
         counters.total >= Sum(Sizes, d),
         Attackable # {} /\ d = {} => counters.total = 0
  PROVE  TypeOK' /\ EvaluationInv'
<1>1. /\ runs < MaxRuns /\ runs' = runs + 1 /\ pc' = "loop" /\ outcome' = "none"
      /\ limit' = l /\ ref' = cw /\ bi' = 1 /\ startSet' = d /\ agg' = counters
      /\ masks' = <<>> /\ records' = <<>> /\ UNCHANGED <<json, masksFile>>
  BY DEF Begin, files
<1>2. Processed' = d /\ Len(records') = 0
  BY <1>1 DEF Processed
<1>3. TypeOK'
  <2>1. runs' \in 0..MaxRuns
    BY <1>1, BoundsAssumption DEF TypeOK
  <2>2. bi' \in 1..(Len(Sizes) + 1)
    BY <1>1, BatchFacts
  <2>3. masks' \in Seq(Batches) /\ records' \in RecordList
    BY <1>1 DEF RecordList
  <2>4. ref'.masks \in Seq(Batches)
    BY <1>1 DEF CaptureTypes
  <2> QED BY <1>1, <2>1, <2>2, <2>3, <2>4 DEF TypeOK
<1>4. CountedInv'
  <2>1. \A b \in Attackable : ~(b < 1)
    BY BatchFacts DEF Attackable, Batches
  <2> QED BY <1>1, <1>2, <2>1 DEF CountedInv
<1>5. GateInv' /\ SavedInv'
  BY <1>1 DEF GateInv, EvaluationInv, SavedInv
<1>6. NothingInv'
  BY <1>1 DEF EvaluationInv, NothingInv
<1>7. FreshInv'
  <2>1. 1..(1 - 1) = {} /\ 1 - 1 = 0
    OBVIOUS
  <2>2. Attackable # {} /\ d = {} => agg'.total = Sum(Sizes, 1..(bi' - 1))
    BY <1>1, <2>1, SumEmpty
  <2>3. masks' = ReferenceUpTo(bi' - 1)
    BY <1>1, <2>1, ReferenceFacts
  <2> QED BY <1>1, <1>2, <2>2, <2>3 DEF FreshInv
<1> QED BY <1>3, <1>4, <1>5, <1>6, <1>7 DEF EvaluationInv

LEMMA StartStep ==
  ASSUME TypeOK, EvaluationInv, CaptureTypes, StartFresh \/ StartResumed
  PROVE  TypeOK' /\ EvaluationInv'
<1>1. CASE StartFresh
  <2>1. PICK l \in Options : Begin(l, {}, Zero)
    BY <1>1 DEF StartFresh
  <2>2. Zero \in Counters /\ Zero.attacked = 0 /\ Zero.k1 = 0 /\ Zero.total = 0
    BY DEF Zero, Counters
  <2>3. Sum(Clean, {}) = 0 /\ Sum(Surviving, {}) = 0 /\ Sum(Sizes, {}) = 0
    BY SumEmpty
  <2> QED BY <2>1, <2>2, <2>3, BeginStep
<1>2. CASE StartResumed
  <2>1. PICK l \in Options : CanResume /\ Begin(l, json.processed, json.agg)
    BY <1>2 DEF StartResumed
  <2>2. json.agg \in Counters
    BY DEF TypeOK
  <2>3. /\ json.processed \subseteq Attackable
        /\ json.agg.attacked = Sum(Clean, json.processed)
        /\ json.agg.k1 = Sum(Surviving, json.processed)
        /\ json.agg.total >= Sum(Sizes, json.processed)
        /\ Attackable # {} /\ json.processed = {} => json.agg.total = 0
    BY <2>1 DEF CanResume, EvaluationInv, SavedInv, NothingInv
  <2> QED BY <2>1, <2>2, <2>3, BeginStep
<1> QED BY <1>1, <1>2

\* With nothing processed, a limit that is not reached is not 0.
LEMMA NothingReached ==
  ASSUME TypeOK, InLoop, Processed = {}
  PROVE  ~Reached(0)
<1>1. startSet = {} /\ Len(records) = 0
  <2>1. \A i \in 1..Len(records) : records[i].batch \in Processed
    BY DEF Processed
  <2>2. ~(1 \in 1..Len(records))
    BY <2>1
  <2> QED BY <2>2, LoopFacts DEF Processed
<1>2. DoneCount = 0
  BY <1>1, FS_EmptySet DEF DoneCount
<1> QED BY <1>2 DEF InLoop, LimitReached

LEMMA SkipStep ==
  ASSUME TypeOK, EvaluationInv, SkipBatch
  PROVE  TypeOK' /\ EvaluationInv'
<1>1. /\ pc = "loop" /\ bi \in Batches /\ InLoop
      /\ bi \in startSet \/ Clean[bi] = 0
      /\ agg' = CountBatch(agg) /\ bi' = bi + 1
      /\ UNCHANGED <<json, masksFile, pc, outcome, limit, ref, startSet, masks, records, runs>>
  BY DEF SkipBatch, InLoop, files
<1>2. Processed' = Processed
  BY <1>1 DEF Processed
<1>3. /\ agg \in Counters /\ agg.total \in Nat /\ bi \in Nat /\ Sizes[bi] \in Nat
      /\ Sum(Sizes, 1..bi) = Sum(Sizes, 1..(bi - 1)) + Sizes[bi] /\ (bi + 1) - 1 = bi
  BY <1>1, CountedUpTo, LoopFacts DEF TypeOK, Counters
<1>4. /\ agg' \in Counters /\ agg'.attacked = agg.attacked /\ agg'.k1 = agg.k1
      /\ agg'.total = IF bi \in startSet THEN agg.total ELSE agg.total + Sizes[bi]
  BY <1>1, <1>3 DEF CountBatch, Counters
<1>5. TypeOK'
  <2>1. bi' \in 1..(Len(Sizes) + 1)
    BY <1>1, BatchFacts DEF Batches
  <2> QED BY <1>1, <1>4, <2>1 DEF TypeOK
<1>6. CountedInv'
  <2>1. \A i \in 1..Len(records) : records[i].batch < bi + 1
    BY <1>3, LoopFacts, BatchFacts DEF EvaluationInv, CountedInv, Batches
  <2>2. \A b \in Attackable : b < bi + 1 => b \in Processed
    <3> SUFFICES ASSUME NEW b \in Attackable, b < bi + 1 PROVE b \in Processed
      OBVIOUS
    <3>1. CASE b = bi
      BY <1>1, <3>1 DEF Attackable, Processed
    <3>2. CASE b # bi
      <4>1. b < bi
        BY <1>3, <3>2, BatchFacts DEF Attackable, Batches
      <4> QED BY <4>1 DEF EvaluationInv, CountedInv
    <3> QED BY <3>1, <3>2
  <2>3. Sum(Sizes, Processed) \in Nat
    <3>1. IsFiniteSet(Processed)
      BY LoopFacts, BatchFacts, FS_Subset
    <3> QED BY <3>1, LoopFacts, BatchFacts, SumAdds
  <2>4. agg'.total >= Sum(Sizes, Processed)
    BY <1>3, <1>4, <2>3 DEF EvaluationInv, CountedInv
  <2> QED BY <1>1, <1>2, <1>4, <2>1, <2>2, <2>4 DEF EvaluationInv, CountedInv
<1>7. GateInv' /\ SavedInv'
  BY <1>1 DEF GateInv, EvaluationInv, SavedInv
<1>8. NothingInv'
  <2>1. Processed = {} => ~Reached(0)
    BY <1>1, NothingReached
  <2>2. Reached(0)' <=> Reached(0)
    BY <1>1 DEF Reached
  <2> QED BY <1>1, <1>2, <2>1, <2>2 DEF EvaluationInv, NothingInv
<1>9. FreshInv'
  <2> SUFFICES ASSUME Attackable # {}, startSet = {} PROVE FreshInv'
    BY <1>1 DEF FreshInv
  <2>1. Clean[bi] = 0 /\ bi \notin Attackable
    BY <1>1 DEF Attackable
  <2>2. agg'.total = Sum(Sizes, 1..bi)
    BY <1>3, <1>4 DEF EvaluationInv, FreshInv
  <2>3. masks' = ReferenceUpTo(bi)
    <3>1. ReferenceUpTo(bi) = ReferenceUpTo(bi - 1)
      BY <1>1, <2>1, ReferenceFacts
    <3> QED BY <1>1, <3>1 DEF EvaluationInv, FreshInv
  <2> QED BY <1>1, <1>3, <2>2, <2>3 DEF EvaluationInv, FreshInv
<1> QED BY <1>5, <1>6, <1>7, <1>8, <1>9 DEF EvaluationInv

\* A batch is attacked: it joins the processed ones, and finds its own reference.
LEMMA AttackStep ==
  ASSUME TypeOK, EvaluationInv, CaptureTypes, AttackBatch
  PROVE  TypeOK' /\ EvaluationInv'
<1> DEFINE r == IF ref.state = "whole" THEN RefBatch ELSE 0
           new == [batch |-> bi, ref |-> r]
<1>1. /\ pc = "loop" /\ bi \in Batches /\ InLoop /\ bi \notin startSet /\ Clean[bi] > 0 /\ Comparable
      /\ agg' = AddBatch(CountBatch(agg)) /\ bi' = bi + 1
      /\ records' = Append(records, new) /\ masks' = Append(masks, bi)
      /\ pc' \in {"loop", "dump"}
      /\ UNCHANGED <<json, masksFile, outcome, limit, ref, startSet, runs>>
  BY DEF AttackBatch, InLoop, files
<1>2. /\ agg \in Counters /\ agg.total \in Nat /\ agg.attacked \in Nat /\ agg.k1 \in Nat
      /\ bi \in Nat /\ Sizes[bi] \in Nat /\ Clean[bi] \in Nat /\ Surviving[bi] \in Nat
      /\ Sum(Sizes, 1..bi) = Sum(Sizes, 1..(bi - 1)) + Sizes[bi] /\ (bi + 1) - 1 = bi
  BY <1>1, CountedUpTo, LoopFacts DEF TypeOK, Counters
<1>3. /\ agg' \in Counters /\ agg'.total = agg.total + Sizes[bi]
      /\ agg'.attacked = agg.attacked + Clean[bi] /\ agg'.k1 = agg.k1 + Surviving[bi]
  <2>1. PICK c : c = [agg EXCEPT !.total = @ + Sizes[bi]]
    OBVIOUS
  <2>2. agg' = AddBatch(c)
    BY <1>1, <2>1 DEF CountBatch
  <2>3. c \in Counters /\ c.total = agg.total + Sizes[bi] /\ c.attacked = agg.attacked /\ c.k1 = agg.k1
    BY <1>2, <2>1 DEF Counters
  <2>4. PICK d : d = [c EXCEPT !.attacked = @ + Clean[bi]]
    OBVIOUS
  <2>5. d \in Counters /\ d.total = c.total /\ d.attacked = c.attacked + Clean[bi] /\ d.k1 = c.k1
    BY <1>2, <2>3, <2>4, SMTT(40) DEF Counters
  <2>6. agg' = [d EXCEPT !.k1 = @ + Surviving[bi]]
    BY <2>2, <2>4 DEF AddBatch
  <2>7. agg' \in Counters /\ agg'.total = d.total /\ agg'.attacked = d.attacked
        /\ agg'.k1 = d.k1 + Surviving[bi]
    BY <1>2, <2>5, <2>6, SMTT(40) DEF Counters
  <2> QED BY <2>3, <2>5, <2>7
<1>4. r \in 0..Len(Sizes)
  <2>1. CASE ref.state # "whole"
    <3>1. r = 0
      BY <2>1
    <3> QED BY <3>1, BatchFacts
  <2>2. CASE ref.state = "whole"
    <3>1. Len(masks) \in Nat /\ Len(masks) < Len(ref.masks)
      BY <1>1, <2>2, LoopFacts DEF Comparable
    <3>2. Len(masks) + 1 \in 1..Len(ref.masks)
      BY <3>1 DEF TypeOK
    <3>3. RefBatch \in Batches
      BY <3>2 DEF TypeOK, RefBatch
    <3>4. r = RefBatch
      BY <2>2
    <3> QED BY <3>3, <3>4, BatchFacts DEF Batches
  <2> QED BY <2>1, <2>2
<1> HIDE DEF r
<1>5. /\ Len(records) \in Nat /\ Len(records') = Len(records) + 1
      /\ records'[Len(records) + 1] = new
      /\ \A i \in 1..Len(records) : records'[i] = records[i]
  <2>1. PICK R : R = [batch : Batches, ref : 0..Len(Sizes)]
    OBVIOUS
  <2>2. records \in Seq(R) /\ new \in R
    BY <1>1, <1>4, <2>1 DEF TypeOK, RecordList
  <2> QED BY <1>1, <2>2, AppendPlaces
<1>6. Processed' = Processed \cup {bi}
  <2>1. \A i \in 1..Len(records') : i \in 1..Len(records) \/ i = Len(records) + 1
    BY <1>5
  <2>2. \A i \in 1..Len(records) : i \in 1..Len(records')
    BY <1>5
  <2>3. Len(records) + 1 \in 1..Len(records')
    BY <1>5
  <2>4. {records'[i].batch : i \in 1..Len(records')} =
          {records[i].batch : i \in 1..Len(records)} \cup {bi}
    <3>1. ASSUME NEW i \in 1..Len(records')
          PROVE  records'[i].batch \in {records[j].batch : j \in 1..Len(records)} \cup {bi}
      BY <1>5, <2>1
    <3>2. ASSUME NEW i \in 1..Len(records)
          PROVE  records[i].batch \in {records'[j].batch : j \in 1..Len(records')}
      BY <1>5, <2>2
    <3>3. bi \in {records'[j].batch : j \in 1..Len(records')}
      BY <1>5, <2>3
    <3> QED BY <3>1, <3>2, <3>3
  <2> QED BY <1>1, <2>4 DEF Processed
<1>7. Processed \in SUBSET Batches /\ bi \in Batches \ Processed
  <2>1. \A i \in 1..Len(records) : records[i].batch # bi
    <3>1. ~(bi < bi)
      BY <1>2
    <3> QED BY <3>1, Zenon DEF EvaluationInv, CountedInv
  <2> QED BY <1>1, <2>1, LoopFacts DEF Processed
<1>8. TypeOK'
  <2>1. bi' \in 1..(Len(Sizes) + 1)
    BY <1>1, BatchFacts DEF Batches
  <2>2. masks' \in Seq(Batches)
    BY <1>1 DEF TypeOK
  <2>3. records' \in RecordList
    BY <1>1, <1>4 DEF TypeOK, RecordList
  <2> QED BY <1>1, <1>3, <2>1, <2>2, <2>3 DEF TypeOK
<1>9. CountedInv'
  <2>1. \A i \in 1..Len(records') : records'[i].batch < bi + 1
    <3> SUFFICES ASSUME NEW i \in 1..Len(records') PROVE records'[i].batch < bi + 1
      OBVIOUS
    <3>1. CASE i = Len(records) + 1
      BY <1>2, <1>5, <3>1
    <3>2. CASE i \in 1..Len(records)
      <4>1. records[i].batch < bi /\ records[i].batch \in Nat
        BY <3>2, LoopFacts, BatchFacts DEF EvaluationInv, CountedInv, Batches
      <4> QED BY <1>2, <1>5, <3>2, <4>1
    <3> QED BY <1>5, <3>1, <3>2
  <2>2. \A b \in Attackable : b < bi + 1 => b \in Processed'
    <3> SUFFICES ASSUME NEW b \in Attackable, b < bi + 1, b # bi PROVE b \in Processed
      BY <1>6
    <3>1. b < bi
      BY <1>2, BatchFacts DEF Attackable, Batches
    <3> QED BY <3>1 DEF EvaluationInv, CountedInv
  <2>3. Processed' \subseteq Attackable
    BY <1>1, <1>6 DEF EvaluationInv, CountedInv, Attackable
  <2>4. /\ Sum(Clean, Processed') = Sum(Clean, Processed) + Clean[bi]
        /\ Sum(Surviving, Processed') = Sum(Surviving, Processed) + Surviving[bi]
        /\ Sum(Sizes, Processed') = Sum(Sizes, Processed) + Sizes[bi]
        /\ Sum(Sizes, Processed) \in Nat
    BY <1>6, <1>7, SumOfMore, BatchFacts, Zenon
  <2>5. agg'.attacked = Sum(Clean, Processed')
    BY <1>3, <2>4 DEF EvaluationInv, CountedInv
  <2>6. agg'.k1 = Sum(Surviving, Processed')
    BY <1>3, <2>4 DEF EvaluationInv, CountedInv
  <2>7. agg'.total >= Sum(Sizes, Processed')
    BY <1>2, <1>3, <2>4 DEF EvaluationInv, CountedInv
  <2> QED BY <1>1, <2>1, <2>2, <2>3, <2>5, <2>6, <2>7 DEF CountedInv
<1>10. GateInv' /\ SavedInv'
  BY <1>1 DEF GateInv, EvaluationInv, SavedInv
<1>11. NothingInv'
  <2>1. Processed' # {}
    BY <1>6
  <2> QED BY <1>1, <2>1 DEF EvaluationInv, NothingInv
<1>12. FreshInv'
  <2> SUFFICES ASSUME Attackable # {}, startSet = {} PROVE FreshInv'
    BY <1>1 DEF FreshInv
  <2>1. bi \in Attackable
    BY <1>1 DEF Attackable
  <2>2. agg'.total = Sum(Sizes, 1..bi)
    BY <1>2, <1>3 DEF EvaluationInv, FreshInv
  <2>3. masks = ReferenceUpTo(bi - 1)
    BY DEF EvaluationInv, FreshInv
  <2>4. masks' = ReferenceUpTo(bi)
    <3>1. ReferenceUpTo(bi) = Append(ReferenceUpTo(bi - 1), bi)
      BY <1>1, <2>1, ReferenceFacts
    <3> QED BY <1>1, <2>3, <3>1
  <2>5. ASSUME IsPrefix(ref.masks, Reference) PROVE r \in {0, bi}
    <3>1. CASE ref.state # "whole"
      BY <3>1 DEF r
    <3>2. CASE ref.state = "whole"
      <4>1. Len(masks) \in Nat /\ Len(masks) < Len(ref.masks)
        BY <1>1, <3>2, LoopFacts DEF Comparable
      <4>2. Len(masks) + 1 \in 1..Len(ref.masks)
        BY <4>1 DEF TypeOK
      <4>3. Reference \in Seq(Batches)
        BY BatchFacts, ReferenceFacts DEF Reference
      <4>4. ref.masks[Len(masks) + 1] = Reference[Len(masks) + 1]
        BY <2>5, <4>2, <4>3, PrefixFacts DEF TypeOK
      <4> QED BY <2>1, <2>3, <3>2, <4>4, ReferenceNext DEF r, RefBatch
    <3> QED BY <3>1, <3>2
  <2>6. ASSUME IsPrefix(ref.masks, Reference), NEW i \in 1..Len(records')
        PROVE  records'[i].ref \in {0, records'[i].batch}
    <3>1. CASE i \in 1..Len(records)
      BY <1>5, <2>6, <3>1 DEF EvaluationInv, FreshInv
    <3>2. CASE i = Len(records) + 1
      BY <1>5, <2>5, <2>6, <3>2
    <3> QED BY <1>5, <3>1, <3>2
  <2>7. agg'.total = Sum(Sizes, 1..(bi' - 1)) /\ masks' = ReferenceUpTo(bi' - 1)
    BY <1>1, <1>2, <2>2, <2>4
  <2>8. IsPrefix(ref'.masks, Reference) =>
          (outcome' = "failed" => ref'.state = "whole" /\ Len(ref'.masks) < Len(Reference))
    BY <1>1 DEF EvaluationInv, FreshInv
  <2>9. IsPrefix(ref'.masks, Reference) =>
          \A i \in 1..Len(records') : records'[i].ref \in {0, records'[i].batch}
    BY <1>1, <2>6
  <2> QED BY <2>7, <2>8, <2>9 DEF FreshInv
<1> QED BY <1>8, <1>9, <1>10, <1>11, <1>12 DEF EvaluationInv

\* A comparison that raises leaves the files as they are; with the right reference
\* it only raises where that reference ends.
LEMMA CompareStep ==
  ASSUME TypeOK, EvaluationInv, CompareFails
  PROVE  TypeOK' /\ EvaluationInv'
<1>1. /\ InLoop /\ bi \in Batches /\ Clean[bi] > 0 /\ ~Comparable
      /\ pc' = "idle" /\ outcome' = "failed"
      /\ UNCHANGED <<json, masksFile, limit, ref, bi, agg, startSet, masks, records, runs>>
  BY DEF CompareFails, InLoop, Fail, files, locals
<1>2. TypeOK'
  BY <1>1 DEF TypeOK
<1>3. Processed' = Processed /\ (Reached(0)' <=> Reached(0))
  BY <1>1 DEF Processed, Reached
<1>4. CountedInv' /\ GateInv' /\ SavedInv' /\ NothingInv'
  BY <1>1, <1>3 DEF EvaluationInv, CountedInv, GateInv, SavedInv, NothingInv
<1>5. FreshInv'
  <2> SUFFICES ASSUME Attackable # {}, startSet = {}, IsPrefix(ref.masks, Reference)
               PROVE  ref.state = "whole" /\ Len(ref.masks) < Len(Reference)
    BY <1>1 DEF EvaluationInv, FreshInv
  <2>1. ref.state = "whole"
    BY <1>1 DEF Comparable
  <2>2. bi \in Attackable /\ masks = ReferenceUpTo(bi - 1)
    BY <1>1 DEF Attackable, EvaluationInv, FreshInv
  <2>3. Len(masks) \in Nat /\ Len(masks) < Len(Reference) /\ Reference[Len(masks) + 1] = bi
    BY <2>2, ReferenceNext
  <2>4. Reference \in Seq(Batches)
    BY BatchFacts, ReferenceFacts DEF Reference
  <2>5. ~(Len(masks) < Len(ref.masks))
    <3> SUFFICES ASSUME Len(masks) < Len(ref.masks) PROVE FALSE
      OBVIOUS
    <3>1. Len(masks) + 1 \in 1..Len(ref.masks)
      BY <2>3 DEF TypeOK
    <3>2. RefBatch = bi
      BY <2>3, <2>4, <3>1, PrefixFacts DEF TypeOK, RefBatch
    <3> QED BY <1>1, <3>2 DEF Comparable
  <2>6. Len(ref.masks) \in Nat
    BY DEF TypeOK
  <2> QED BY <2>1, <2>3, <2>5, <2>6
<1> QED BY <1>2, <1>4, <1>5 DEF EvaluationInv

\* A save leaves what the process has counted, or a file that cannot be read.
LEMMA SaveStep ==
  ASSUME TypeOK, EvaluationInv, SavePartial \/ SaveFinal
  PROVE  TypeOK' /\ EvaluationInv'
<1>1. CASE \E from, to \in {"dump", "dumping", "final", "finalDumping"} :
             /\ <<from, to>> \in {<<"dump", "dumping">>, <<"final", "finalDumping">>}
             /\ Truncate(from, to)
  <2>1. /\ \/ pc = "dump" /\ pc' = "dumping"
           \/ pc = "final" /\ pc' = "finalDumping"
        /\ json' = [NoJson EXCEPT !.state = "torn"]
        /\ UNCHANGED <<masksFile, outcome, limit, ref, bi, agg, startSet, masks, records, runs>>
    BY <1>1 DEF Truncate, locals
  <2>2. TypeOK'
    <3>1. PICK R : R = RecordList
      OBVIOUS
    <3>2. <<>> \in R /\ Zero \in Counters
      BY <3>1 DEF RecordList, Zero, Counters
    <3>3. json' \in [state : {"absent", "torn", "partial", "complete"}, agg : Counters,
                     processed : SUBSET Batches, records : R]
      BY <2>1, <3>2 DEF NoJson
    <3> QED BY <2>1, <3>1, <3>3 DEF TypeOK
  <2>3. json'.state = "torn"
    BY <2>1 DEF NoJson
  <2>4. Processed' = Processed /\ (Reached(0)' <=> Reached(0))
    BY <2>1 DEF Processed, Reached
  <2>5. CountedInv' /\ FreshInv'
    BY <2>1, <2>4 DEF EvaluationInv, CountedInv, FreshInv
  <2>6. GateInv' /\ SavedInv' /\ NothingInv'
    BY <2>1, <2>3, <2>4 DEF EvaluationInv, GateInv, SavedInv, NothingInv
  <2> QED BY <2>2, <2>5, <2>6 DEF EvaluationInv
<1>2. ASSUME NEW state \in {"partial", "complete"},
             \/ WriteJson("dumping", "replace", state) /\ state = "partial"
             \/ /\ WriteJson("finalDumping", "finalMasks", state)
                /\ state = IF limit = {} THEN "complete" ELSE "partial"
      PROVE  TypeOK' /\ EvaluationInv'
  <2>1. /\ \/ pc = "dumping" /\ pc' = "replace"
           \/ pc = "finalDumping" /\ pc' = "finalMasks"
        /\ json' = [state |-> state, agg |-> agg, processed |-> Processed, records |-> records]
        /\ UNCHANGED <<masksFile, outcome, limit, ref, bi, agg, startSet, masks, records, runs>>
    BY <1>2 DEF WriteJson, locals
  <2>2. Processed \in SUBSET Batches
    BY LoopFacts
  <2>3. TypeOK'
    BY <2>1, <2>2 DEF TypeOK
  <2>4. Processed' = Processed /\ (Reached(0)' <=> Reached(0))
    BY <2>1 DEF Processed, Reached
  <2>5. CountedInv' /\ FreshInv' /\ GateInv'
    BY <2>1, <2>4 DEF EvaluationInv, CountedInv, FreshInv, GateInv
  <2>6. state = "complete" => Processed = Attackable /\ agg.total = Sum(Sizes, Batches)
    <3> SUFFICES ASSUME state = "complete"
                 PROVE  Processed = Attackable /\ agg.total = Sum(Sizes, Batches)
      OBVIOUS
    <3>1. pc = "finalDumping" /\ limit = {}
      BY <1>2 DEF WriteJson
    <3>2. bi = Len(Sizes) + 1 /\ agg.total = Sum(Sizes, Batches)
      BY <3>1 DEF EvaluationInv, GateInv
    <3>3. \A b \in Attackable : b < Len(Sizes) + 1
      BY BatchFacts DEF Attackable, Batches
    <3> QED BY <3>2, <3>3 DEF EvaluationInv, CountedInv
  <2>7. SavedInv'
    BY <2>1, <2>6 DEF EvaluationInv, CountedInv, SavedInv
  <2>8. Attackable # {} /\ Processed = {} => agg.total = 0
    <3> SUFFICES ASSUME Attackable # {}, Processed = {} PROVE agg.total = 0
      OBVIOUS
    <3>1. bi = 1 /\ startSet = {}
      BY <2>1 DEF EvaluationInv, NothingInv, Processed
    <3>2. 1..(1 - 1) = {}
      OBVIOUS
    <3> QED BY <3>1, <3>2, SumEmpty DEF EvaluationInv, FreshInv
  <2>9. NothingInv'
    BY <2>1, <2>4, <2>8 DEF EvaluationInv, NothingInv
  <2> QED BY <2>3, <2>5, <2>7, <2>9 DEF EvaluationInv
<1>3. ASSUME SavePartial PROVE TypeOK' /\ EvaluationInv'
  BY <1>1, <1>2, <1>3 DEF SavePartial
<1>4. ASSUME SaveFinal PROVE TypeOK' /\ EvaluationInv'
  BY <1>1, <1>2, <1>4 DEF SaveFinal
<1> QED BY <1>3, <1>4

LEMMA SumIs ==
  ASSUME NEW f, NEW S
  PROVE  SumOver(LAMBDA b : f[b], S) = Sum(f, S)
BY DEF Sum, SumOver, SumFunctionOnSet, FoldFunctionOnSet, MapThenSumSet

\* The loop is left with the last batch, or at the limit; a process that found
\* nothing done has counted every sample then, and passes the gate.
LEMMA LeaveStep ==
  ASSUME TypeOK, EvaluationInv, LeaveLoop
  PROVE  TypeOK' /\ EvaluationInv'
<1>1. /\ pc = "loop" /\ (bi \notin Batches \/ LimitReached)
      /\ UNCHANGED <<json, masksFile, limit, ref, bi, agg, startSet, masks, records, runs>>
      /\ IF limit = {} /\ agg.total # Sum(Sizes, Batches)
         THEN pc' = "idle" /\ outcome' = "failed"
         ELSE pc' = "final" /\ UNCHANGED outcome
  BY SumIs DEF LeaveLoop, Fail, files, locals
<1>2. Processed' = Processed /\ (Reached(0)' <=> Reached(0))
  BY <1>1 DEF Processed, Reached
<1>3. TypeOK'
  BY <1>1 DEF TypeOK
<1>4. CountedInv' /\ SavedInv'
  BY <1>1, <1>2 DEF EvaluationInv, CountedInv, SavedInv
<1>5. limit = {} => bi = Len(Sizes) + 1
  <2>1. limit = {} => bi \notin Batches
    BY <1>1 DEF LimitReached, Reached
  <2> QED BY <2>1, BatchFacts DEF TypeOK, Batches
<1>6. GateInv'
  BY <1>1, <1>5 DEF GateInv
<1>7. NothingInv'
  <2> SUFFICES ASSUME Attackable # {}, Processed = {}, bi # 1 PROVE FALSE
    BY <1>1, <1>2 DEF EvaluationInv, NothingInv
  <2>1. ~Reached(0)
    BY DEF EvaluationInv, NothingInv
  <2>2. startSet = {} /\ Len(records) = 0
    <3>1. \A i \in 1..Len(records) : records[i].batch \in Processed
      BY DEF Processed
    <3>2. ~(1 \in 1..Len(records))
      BY <3>1
    <3> QED BY <3>2, LoopFacts DEF Processed
  <2>3. DoneCount = 0
    BY <2>2, FS_EmptySet DEF DoneCount
  <2>4. bi \notin Batches
    BY <1>1, <2>1, <2>3 DEF LimitReached
  <2>5. bi = Len(Sizes) + 1
    BY <2>4, BatchFacts DEF TypeOK, Batches
  <2>6. \A b \in Attackable : b < Len(Sizes) + 1
    BY BatchFacts DEF Attackable, Batches
  <2> QED BY <2>5, <2>6 DEF EvaluationInv, CountedInv
<1>8. FreshInv'
  <2> SUFFICES ASSUME Attackable # {}, startSet = {}, outcome' = "failed", outcome # "failed"
               PROVE  FALSE
    BY <1>1 DEF EvaluationInv, FreshInv
  <2>1. limit = {} /\ agg.total # Sum(Sizes, Batches)
    BY <1>1
  <2>2. bi - 1 = Len(Sizes)
    BY <1>5, <2>1, BatchFacts
  <2> QED BY <2>1, <2>2 DEF EvaluationInv, FreshInv, Batches
<1> QED BY <1>3, <1>4, <1>6, <1>7, <1>8 DEF EvaluationInv

\* What neither counts nor writes the JSON file.
LEMMA RestStep ==
  ASSUME TypeOK, EvaluationInv,
         StartFails \/ ReplaceMasks \/ SaveFinalMasks \/ Killed
  PROVE  TypeOK' /\ EvaluationInv'
<1>1. /\ UNCHANGED <<json, limit, ref, bi, agg, startSet, masks, records>>
      /\ outcome' \in {"unreadable", "killed", "done", outcome}
      /\ pc' \in {"idle", "loop", "finalSaving"}
      /\ masksFile' \in {masksFile, [state |-> "whole", masks |-> masks],
                         [state |-> "torn", masks |-> <<>>]}
      /\ runs' \in 0..MaxRuns
  BY BoundsAssumption DEF StartFails, ReplaceMasks, SaveFinalMasks, Killed, files, locals, TypeOK
<1>2. Processed' = Processed /\ (Reached(0)' <=> Reached(0))
  BY <1>1 DEF Processed, Reached
<1>3. TypeOK'
  <2>1. masksFile' \in [state : {"absent", "torn", "whole"}, masks : Seq(Batches)]
    <3>1. PICK M : M = Seq(Batches)
      OBVIOUS
    <3>2. masks \in M /\ <<>> \in M
      BY <3>1 DEF TypeOK
    <3>3. masksFile \in [state : {"absent", "torn", "whole"}, masks : M]
      BY <3>1 DEF TypeOK
    <3>4. masksFile' \in [state : {"absent", "torn", "whole"}, masks : M]
      BY <1>1, <3>2, <3>3
    <3> QED BY <3>1, <3>4
  <2>2. outcome' \in {"none", "done", "failed", "unreadable", "killed"}
    BY <1>1 DEF TypeOK
  <2>3. pc' \in {"idle", "loop", "dump", "dumping", "replace", "final", "finalDumping",
                 "finalMasks", "finalSaving"}
    BY <1>1
  <2> QED BY <1>1, <2>1, <2>2, <2>3 DEF TypeOK
<1>4. CountedInv' /\ SavedInv' /\ GateInv' /\ NothingInv'
  BY <1>1, <1>2 DEF EvaluationInv, CountedInv, SavedInv, GateInv, NothingInv
<1>5. FreshInv'
  BY <1>1 DEF EvaluationInv, FreshInv
<1> QED BY <1>3, <1>4, <1>5 DEF EvaluationInv

LEMMA EvaluationStep ==
  ASSUME TypeOK, EvaluationInv, CaptureTypes, Next
  PROVE  TypeOK' /\ EvaluationInv'
<1>1. CASE StartFresh \/ StartResumed
  BY <1>1, StartStep
<1>2. CASE StartFails \/ ReplaceMasks \/ SaveFinalMasks \/ Killed
  BY <1>2, RestStep
<1>3. CASE SkipBatch
  BY <1>3, SkipStep
<1>4. CASE AttackBatch
  BY <1>4, AttackStep
<1>5. CASE CompareFails
  BY <1>5, CompareStep
<1>6. CASE SavePartial \/ SaveFinal
  BY <1>6, SaveStep
<1>7. CASE LeaveLoop
  BY <1>7, LeaveStep
<1> QED BY <1>1, <1>2, <1>3, <1>4, <1>5, <1>6, <1>7 DEF Next, Run

LEMMA OtherEvaluationStep ==
  ASSUME TypeOK, EvaluationInv, UNCHANGED vars
  PROVE  TypeOK' /\ EvaluationInv'
<1>1. UNCHANGED <<json, masksFile, pc, outcome, limit, ref, bi, agg, startSet, masks, records, runs>>
  BY DEF vars, files, locals
<1>2. Processed' = Processed /\ (Reached(0)' <=> Reached(0))
  BY <1>1 DEF Processed, Reached
<1>3. TypeOK'
  BY <1>1 DEF TypeOK
<1>4. EvaluationInv'
  BY <1>1, <1>2 DEF EvaluationInv, CountedInv, SavedInv, GateInv, NothingInv, FreshInv
<1> QED BY <1>3, <1>4

LEMMA EvaluationInvHolds == StudySpec => [](TypeOK /\ EvaluationInv)
<1>1. StudyInit => TypeOK /\ EvaluationInv
  BY EvaluationInitInv DEF StudyInit
<1>2. /\ TypeOK /\ EvaluationInv /\ CaptureInv /\ [StudyNext]_<<vars, captureOnly, cw>>
      => TypeOK' /\ EvaluationInv'
  <2> SUFFICES ASSUME TypeOK, EvaluationInv, CaptureInv, [StudyNext]_<<vars, captureOnly, cw>>
               PROVE  TypeOK' /\ EvaluationInv'
    OBVIOUS
  <2>1. CASE Next
    BY <2>1, EvaluationStep DEF CaptureInv
  <2>2. CASE UNCHANGED vars
    BY <2>2, OtherEvaluationStep
  <2> QED BY <2>1, <2>2 DEF StudyNext
<1> QED BY <1>1, <1>2, CaptureInvHolds, PTL DEF StudySpec

\* Whatever a killed process has left, the files, counters and lists of the next one
\* have their types: no list is read beyond its end.
THEOREM TypeCorrect == StudySpec => []TypeOK
BY EvaluationInvHolds, PTL

\* For any batches, numbers of saves, limits and kills: what a JSON file counts is the
\* clean-correct samples and the survivors of the batches it lists, each batch once.
THEOREM CountsAreExact == StudySpec => []SavedCountsAreExact
<1>1. TypeOK /\ EvaluationInv => SavedCountsAreExact
  BY SumIs DEF EvaluationInv, SavedInv, SavedCountsAreExact
<1> QED BY <1>1, EvaluationInvHolds, PTL

\* A file that says it is not partial covers every batch that there is to attack, and
\* every sample of the test set, whatever was resumed on the way to it.
THEOREM CompleteMeansComplete == StudySpec => []CompleteCoversTestSet
<1>1. TypeOK /\ EvaluationInv => CompleteCoversTestSet
  BY SumIs DEF EvaluationInv, SavedInv, CompleteCoversTestSet
<1> QED BY <1>1, EvaluationInvHolds, PTL

\* Against the masks of a capture that was not interrupted, a process that found
\* nothing done compares each batch with its own reference, and fails only where the
\* reference ends.
THEOREM FreshRunsMatch == StudySpec => []FreshReferencesMatch
<1>1. TypeOK /\ EvaluationInv => FreshReferencesMatch
  BY DEF EvaluationInv, FreshInv, FreshReferencesMatch
<1> QED BY <1>1, EvaluationInvHolds, PTL

\* What has been counted of each batch is part of what there is to count, and all of
\* it if every batch that can be attacked was processed.
LEMMA RowBounds ==
  ASSUME NEW S \in SUBSET Batches
  PROVE  /\ Sum(Clean, S) <= Sum(Clean, Batches) /\ Sum(Surviving, S) <= Sum(Surviving, Batches)
         /\ Sum(Clean, S) - Sum(Surviving, S) <= Sum(Clean, Batches) - Sum(Surviving, Batches)
         /\ S = Attackable => /\ Sum(Clean, S) = Sum(Clean, Batches)
                              /\ Sum(Surviving, S) = Sum(Surviving, Batches)
<1>1. PICK broken : broken = [b \in Batches |-> Clean[b] - Surviving[b]]
  OBVIOUS
<1>2. \A b \in Batches : broken[b] \in Nat /\ broken[b] = 1 * Clean[b] + (-1) * Surviving[b]
  BY <1>1, BatchFacts
<1>3. /\ Sum(Clean, S) <= Sum(Clean, Batches) /\ Sum(Surviving, S) <= Sum(Surviving, Batches)
      /\ Sum(broken, S) <= Sum(broken, Batches)
  BY <1>2, BatchFacts, SumOfPart
<1>4. ASSUME NEW T \in SUBSET Batches
      PROVE  /\ Sum(Clean, T) \in Int /\ Sum(Surviving, T) \in Int
             /\ Sum(broken, T) = 1 * Sum(Clean, T) + (-1) * Sum(Surviving, T)
  <2>1. /\ IsFiniteSet(T)
        /\ \A b \in T : /\ Clean[b] \in Int /\ Surviving[b] \in Int /\ broken[b] \in Int
                        /\ broken[b] = 1 * Clean[b] + (-1) * Surviving[b]
    BY <1>2, BatchFacts, FS_Subset
  <2>2. Sum(broken, T) = 1 * Sum(Clean, T) + (-1) * Sum(Surviving, T)
    BY <2>1, SumIsLinear
  <2>3. Sum(Clean, T) \in Int /\ Sum(Surviving, T) \in Int
    BY <2>1, SumTakes
  <2> QED BY <2>2, <2>3
<1>5. S \in SUBSET Batches /\ Batches \in SUBSET Batches
  OBVIOUS
<1>6. Sum(Clean, S) - Sum(Surviving, S) <= Sum(Clean, Batches) - Sum(Surviving, Batches)
  BY <1>3, <1>4, <1>5
<1>7. ASSUME S = Attackable
      PROVE  Sum(Clean, S) = Sum(Clean, Batches) /\ Sum(Surviving, S) = Sum(Surviving, Batches)
  <2>1. \A b \in Batches \ S : Clean[b] = 0 /\ Surviving[b] = 0
    BY <1>7, BatchFacts DEF Attackable
  <2> QED BY <2>1, BatchFacts, SumOfPart
<1> QED BY <1>3, <1>6, <1>7

\* Of a row of the table, made at any time: its shares of the test set are at most the
\* true ones, its survivors and its broken samples are among those of the test set, and
\* after a complete run every share in it is the true one.
THEOREM RowsHold == StudySpec => []RowsAreOfTheTestSet
<1>1. TypeOK /\ EvaluationInv => RowsAreOfTheTestSet
  <2> DEFINE k1 == json.agg.k1
             attacked == json.agg.attacked
  <2> SUFFICES ASSUME TypeOK, EvaluationInv, HasRow
               PROVE  /\ attacked * KnownTotal <= Correct * KnownTotal
                      /\ k1 * KnownTotal <= Robust * KnownTotal
                      /\ k1 <= Robust /\ attacked - k1 <= Correct - Robust
                      /\ json.state = "complete" => k1 = Robust /\ attacked = Correct
    BY DEF RowsAreOfTheTestSet, Row, AtMost, HasRow
  <2>1. /\ json.processed \in SUBSET Batches
        /\ k1 = Sum(Surviving, json.processed) /\ attacked = Sum(Clean, json.processed)
    BY DEF EvaluationInv, SavedInv, TypeOK, HasRow
  <2>2. Correct = Sum(Clean, Batches) /\ Robust = Sum(Surviving, Batches)
    BY SumIs DEF Correct, Robust
  <2>3. k1 <= Robust /\ attacked <= Correct /\ attacked - k1 <= Correct - Robust
    BY <2>1, <2>2, RowBounds
  <2>4. json.state = "complete" => k1 = Robust /\ attacked = Correct
    BY <2>1, <2>2, RowBounds DEF EvaluationInv, SavedInv
  <2>5. Correct \in Nat /\ Robust \in Nat /\ KnownTotal \in Nat
    <3>1. Sum(Clean, Batches) \in Nat /\ Sum(Surviving, Batches) \in Nat /\ Sum(Sizes, Batches) \in Nat
      BY BatchFacts, SumAdds
    <3>2. KnownTotal = Sum(Sizes, Batches)
      BY SumIs DEF KnownTotal
    <3> QED BY <2>2, <3>1, <3>2
  <2>6. k1 \in Nat /\ attacked \in Nat
    BY DEF TypeOK, Counters
  <2>7. \A a, b, n \in Nat : a <= b => a * n <= b * n
    OBVIOUS
  <2>8. attacked * KnownTotal <= Correct * KnownTotal /\ k1 * KnownTotal <= Robust * KnownTotal
    BY <2>3, <2>5, <2>6, <2>7, Zenon
  <2> QED BY <2>3, <2>4, <2>8
<1> QED BY <1>1, EvaluationInvHolds, PTL
=============================================================================
