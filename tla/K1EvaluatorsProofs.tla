------------------------- MODULE K1EvaluatorsProofs -------------------------
(***************************************************************************)
(* The theorems of the K=1 evaluators, for any networks, rows, numbers and *)
(* sizes of groups, and budgets.  First the bounds: a layer maps a box     *)
(* into the box computed for it, so that interval propagation is below the *)
(* margin; each backward step of CROWN keeps a linear function below the   *)
(* margin and its least value above that of intervals.  Then the           *)
(* categorical states: which the enumeration reaches, and how many.  Then  *)
(* the loops, whose invariant says which states are done and what the      *)
(* verdict so far stands for.                                              *)
(***************************************************************************)
EXTENDS K1Evaluators, DataFacts

-----------------------------------------------------------------------------
(* Boxes.                                                                  *)

IsBox(box, D) ==
  box.lo \in [D -> Int] /\ box.hi \in [D -> Int] /\ \A j \in D : box.lo[j] <= box.hi[j]

InBox(v, box, D) ==
  v \in [D -> Int] /\ \A j \in D : box.lo[j] <= v[j] /\ v[j] <= box.hi[j]

\* The least value of a linear function over a box: each sign takes its end.
Corner(w, lo, hi, D) == [j \in D |-> IF w[j] >= 0 THEN lo[j] ELSE hi[j]]
Lower(w, lo, hi, D) == Dot(w, Corner(w, lo, hi, D))

LEMMA DotFacts ==
  ASSUME NEW D, IsFiniteSet(D), NEW u \in [D -> Int], NEW v \in [D -> Int],
         NEW t, t = [j \in D |-> u[j] * v[j]]
  PROVE  /\ Dot(u, v) = Sum(t, D) /\ Dot(u, v) \in Int
         /\ t \in [D -> Int] /\ \A j \in D : t[j] = u[j] * v[j]
<1>1. t \in [D -> Int] /\ DOMAIN t = D
  OBVIOUS
<1>2. Dot(u, v) = SumFunction(t)
  BY DEF Dot
<1>3. Dot(u, v) = Sum(t, D)
  BY <1>1, <1>2, TotalIsSum
<1>4. \A j \in D : t[j] \in Int
  BY <1>1
<1>5. Sum(t, D) \in Int
  BY <1>4, SumTakes
<1> QED BY <1>1, <1>3, <1>5

\* The ends of a box, and the corner of least value, are in it.
LEMMA CornerFacts ==
  ASSUME NEW D, IsFiniteSet(D), NEW w \in [D -> Int], NEW box, IsBox(box, D)
  PROVE  /\ InBox(box.lo, box, D) /\ InBox(box.hi, box, D)
         /\ InBox(Corner(w, box.lo, box.hi, D), box, D)
         /\ InBox(Corner(w, box.hi, box.lo, D), box, D)
<1>1. PICK lo \in [D -> Int], hi \in [D -> Int] :
        lo = box.lo /\ hi = box.hi /\ \A j \in D : lo[j] <= hi[j]
  BY DEF IsBox
<1>2. InBox(lo, box, D) /\ InBox(hi, box, D)
  BY <1>1 DEF InBox
<1>3. InBox(Corner(w, lo, hi, D), box, D)
  BY <1>1 DEF InBox, Corner
<1>4. InBox(Corner(w, hi, lo, D), box, D)
  BY <1>1 DEF InBox, Corner
<1> QED BY <1>1, <1>2, <1>3, <1>4

\* No point of the box is below the one corner or above the other.
LEMMA CornersBound ==
  ASSUME NEW D, IsFiniteSet(D), NEW w \in [D -> Int], NEW box, IsBox(box, D),
         NEW v, InBox(v, box, D)
  PROVE  /\ Lower(w, box.lo, box.hi, D) \in Int /\ Dot(w, v) \in Int
         /\ Lower(w, box.hi, box.lo, D) \in Int
         /\ Lower(w, box.lo, box.hi, D) <= Dot(w, v)
         /\ Dot(w, v) <= Lower(w, box.hi, box.lo, D)
<1>1. PICK lo \in [D -> Int], hi \in [D -> Int] :
        lo = box.lo /\ hi = box.hi /\ \A j \in D : lo[j] <= hi[j]
  BY DEF IsBox
<1>2. PICK p, q \in [D -> Int] : p = Corner(w, lo, hi, D) /\ q = Corner(w, hi, lo, D)
  BY <1>1 DEF Corner
<1>3. v \in [D -> Int]
  BY DEF InBox
<1>4. PICK s : s = [j \in D |-> w[j] * p[j]]
  OBVIOUS
<1>5. /\ Dot(w, p) = Sum(s, D) /\ Dot(w, p) \in Int
      /\ s \in [D -> Int] /\ \A j \in D : s[j] = w[j] * p[j]
  BY <1>4, <1>2, DotFacts
<1>6. PICK t : t = [j \in D |-> w[j] * v[j]]
  OBVIOUS
<1>7. /\ Dot(w, v) = Sum(t, D) /\ Dot(w, v) \in Int
      /\ t \in [D -> Int] /\ \A j \in D : t[j] = w[j] * v[j]
  BY <1>6, <1>3, DotFacts
<1>8. PICK u : u = [j \in D |-> w[j] * q[j]]
  OBVIOUS
<1>9. /\ Dot(w, q) = Sum(u, D) /\ Dot(w, q) \in Int
      /\ u \in [D -> Int] /\ \A j \in D : u[j] = w[j] * q[j]
  BY <1>8, <1>2, DotFacts
<1>10. \A j \in D : s[j] <= t[j] /\ t[j] <= u[j]
  <2> TAKE j \in D
  <2>1. PICK a \in Int, l \in Int, h \in Int, x \in Int :
          a = w[j] /\ l = lo[j] /\ h = hi[j] /\ x = v[j] /\ l <= x /\ x <= h
    BY <1>1 DEF InBox
  <2>2. CASE a >= 0
    <3>1. a * l <= a * x /\ a * x <= a * h
      BY <2>1, <2>2
    <3>2. p[j] = l /\ q[j] = h
      BY <1>1, <1>2, <2>1, <2>2 DEF Corner
    <3> QED BY <1>5, <1>7, <1>9, <2>1, <3>1, <3>2
  <2>3. CASE ~(a >= 0)
    <3>1. a * h <= a * x /\ a * x <= a * l
      BY <2>1, <2>3
    <3>2. p[j] = h /\ q[j] = l
      BY <1>1, <1>2, <2>1, <2>3 DEF Corner
    <3> QED BY <1>5, <1>7, <1>9, <2>1, <3>1, <3>2
  <2> QED BY <2>2, <2>3
<1>11. Sum(s, D) <= Sum(t, D)
  BY <1>5, <1>7, <1>9, <1>10, SumIsMonotone
<1>12. Sum(t, D) <= Sum(u, D)
  BY <1>5, <1>7, <1>9, <1>10, SumIsMonotone
<1> QED BY <1>1, <1>2, <1>5, <1>7, <1>9, <1>11, <1>12 DEF Lower

\* Centre and radius give the values of the corners, and the halving of
\* what was doubled is exact.
LEMMA CentreAndRadius ==
  ASSUME NEW D, IsFiniteSet(D), NEW w \in [D -> Int], NEW lo \in [D -> Int],
         NEW hi \in [D -> Int], NEW c, c = [j \in D |-> lo[j] + hi[j]],
         NEW r, r = [j \in D |-> Abs(w[j]) * (hi[j] - lo[j])]
  PROVE  /\ Lower(w, lo, hi, D) = (Dot(w, c) - SumFunction(r)) \div 2
         /\ Lower(w, hi, lo, D) = (Dot(w, c) + SumFunction(r)) \div 2
<1>1. PICK p, q \in [D -> Int] : p = Corner(w, lo, hi, D) /\ q = Corner(w, hi, lo, D)
  BY DEF Corner
<1>2. c \in [D -> Int] /\ r \in [D -> Int]
  BY DEF Abs
<1>3. PICK s : s = [j \in D |-> w[j] * p[j]]
  OBVIOUS
<1>4. /\ Dot(w, p) = Sum(s, D) /\ Dot(w, p) \in Int
      /\ s \in [D -> Int] /\ \A j \in D : s[j] = w[j] * p[j]
  BY <1>3, <1>2, DotFacts
<1>5. PICK u : u = [j \in D |-> w[j] * q[j]]
  OBVIOUS
<1>6. /\ Dot(w, q) = Sum(u, D) /\ Dot(w, q) \in Int
      /\ u \in [D -> Int] /\ \A j \in D : u[j] = w[j] * q[j]
  BY <1>5, <1>2, DotFacts
<1>7. PICK t : t = [j \in D |-> w[j] * c[j]]
  OBVIOUS
<1>8. /\ Dot(w, c) = Sum(t, D) /\ Dot(w, c) \in Int
      /\ t \in [D -> Int] /\ \A j \in D : t[j] = w[j] * c[j]
  BY <1>7, <1>2, DotFacts
<1>9. SumFunction(r) = Sum(r, D) /\ Sum(r, D) \in Int
  <2>1. \A j \in D : r[j] \in Int
    BY <1>2
  <2>2. SumFunction(r) = Sum(r, D)
    BY <1>2, TotalIsSum
  <2> QED BY <2>1, <2>2, SumTakes
<1>10. \A j \in D : t[j] = 1 * s[j] + 1 * u[j] /\ r[j] = 1 * u[j] + (-1) * s[j]
  <2> TAKE j \in D
  <2>1. PICK a \in Int, l \in Int, h \in Int : a = w[j] /\ l = lo[j] /\ h = hi[j]
    OBVIOUS
  <2>2. t[j] = a * (l + h) /\ r[j] = Abs(a) * (h - l)
    BY <1>8, <2>1
  <2>3. a * (l + h) = a * l + a * h /\ a * (h - l) = a * h - a * l
        /\ (-a) * (h - l) = a * l - a * h
    OBVIOUS
  <2>4. a * l \in Int /\ a * h \in Int
    OBVIOUS
  <2>5. CASE a >= 0
    <3>1. s[j] = a * l /\ u[j] = a * h
      BY <1>1, <1>4, <1>6, <2>1, <2>5 DEF Corner
    <3>2. Abs(a) = a
      BY <2>5 DEF Abs
    <3> QED BY <2>2, <2>3, <2>4, <3>1, <3>2
  <2>6. CASE ~(a >= 0)
    <3>1. s[j] = a * h /\ u[j] = a * l
      BY <1>1, <1>4, <1>6, <2>1, <2>6 DEF Corner
    <3>2. Abs(a) = -a
      BY <2>6 DEF Abs
    <3> QED BY <2>2, <2>3, <2>4, <3>1, <3>2
  <2> QED BY <2>5, <2>6
<1>11. Sum(t, D) = 1 * Sum(s, D) + 1 * Sum(u, D)
  <2>1. \A j \in D : s[j] \in Int /\ u[j] \in Int /\ t[j] = 1 * s[j] + 1 * u[j]
    BY <1>4, <1>6, <1>10
  <2> QED BY <2>1, SumIsLinear
<1>12. Sum(r, D) = 1 * Sum(u, D) + (-1) * Sum(s, D)
  <2>1. \A j \in D : u[j] \in Int /\ s[j] \in Int /\ r[j] = 1 * u[j] + (-1) * s[j]
    BY <1>4, <1>6, <1>10
  <2> QED BY <2>1, SumIsLinear
<1>13. PICK x \in Int, y \in Int : x = Dot(w, p) /\ y = Dot(w, q)
  BY <1>4, <1>6
<1>14. Dot(w, c) - SumFunction(r) = 2 * x /\ Dot(w, c) + SumFunction(r) = 2 * y
  BY <1>4, <1>6, <1>8, <1>9, <1>11, <1>12, <1>13
<1>15. (2 * x) \div 2 = x /\ (2 * y) \div 2 = y
  OBVIOUS
<1> QED BY <1>1, <1>13, <1>14, <1>15 DEF Lower

TakesCorners(out, box, w, b, D, E) ==
  /\ out.lo = [h \in E |-> b[h] + Lower(w[h], box.lo, box.hi, D)]
  /\ out.hi = [h \in E |-> b[h] + Lower(w[h], box.hi, box.lo, D)]

LEMMA AffineIs ==
  ASSUME NEW D, IsFiniteSet(D), NEW E, NEW w \in [E -> [D -> Int]], NEW b \in [E -> Int],
         NEW box, IsBox(box, D)
  PROVE  TakesCorners(Affine(box, w, b), box, w, b, D, E)
<1>1. PICK lo \in [D -> Int], hi \in [D -> Int] : lo = box.lo /\ hi = box.hi
  BY DEF IsBox
<1>2. PICK c, s : /\ c = [j \in D |-> lo[j] + hi[j]]
                  /\ s = [h \in E |-> SumFunction([j \in D |-> Abs(w[h][j]) * (hi[j] - lo[j])])]
  OBVIOUS
<1>3. ASSUME NEW h \in E
      PROVE  /\ Lower(w[h], lo, hi, D) = (Dot(w[h], c) - s[h]) \div 2
             /\ Lower(w[h], hi, lo, D) = (Dot(w[h], c) + s[h]) \div 2
  <2>1. PICK u \in [D -> Int] : u = w[h]
    OBVIOUS
  <2>2. PICK r : r = [j \in D |-> Abs(u[j]) * (hi[j] - lo[j])]
    OBVIOUS
  <2>3. s[h] = SumFunction(r)
    BY <1>2, <2>1, <2>2
  <2>4. /\ Lower(u, lo, hi, D) = (Dot(u, c) - SumFunction(r)) \div 2
        /\ Lower(u, hi, lo, D) = (Dot(u, c) + SumFunction(r)) \div 2
    BY <1>2, <2>2, CentreAndRadius, SMTT(40)
  <2> QED BY <2>1, <2>3, <2>4
<1>4. /\ Affine(box, w, b).lo = [h \in E |-> b[h] + (Dot(w[h], c) - s[h]) \div 2]
      /\ Affine(box, w, b).hi = [h \in E |-> b[h] + (Dot(w[h], c) + s[h]) \div 2]
  <2> DEFINE centre == [j \in DOMAIN box.lo |-> box.lo[j] + box.hi[j]]
             radius == [j \in DOMAIN box.lo |-> box.hi[j] - box.lo[j]]
             spread(h) == SumFunction([j \in DOMAIN radius |-> Abs(w[h][j]) * radius[j]])
  <2>1. /\ Affine(box, w, b).lo
             = [h \in DOMAIN w |-> b[h] + (Dot(w[h], centre) - spread(h)) \div 2]
        /\ Affine(box, w, b).hi
             = [h \in DOMAIN w |-> b[h] + (Dot(w[h], centre) + spread(h)) \div 2]
    BY DEF Affine
  <2>2. DOMAIN box.lo = D /\ DOMAIN w = E /\ centre = c
    BY <1>1, <1>2
  <2>3. DOMAIN radius = D /\ \A j \in D : radius[j] = hi[j] - lo[j]
    BY <1>1
  <2>4. ASSUME NEW h \in E PROVE spread(h) = s[h]
    <3> HIDE DEF radius
    <3>1. [j \in DOMAIN radius |-> Abs(w[h][j]) * radius[j]]
            = [j \in D |-> Abs(w[h][j]) * (hi[j] - lo[j])]
      BY <2>3
    <3> QED BY <1>2, <3>1
  <2> HIDE DEF centre, spread
  <2> QED BY <2>1, <2>2, <2>4
<1> QED BY <1>1, <1>3, <1>4 DEF TakesCorners

\* A layer maps the points of a box into the box computed for it.
LEMMA AffineFacts ==
  ASSUME NEW D, IsFiniteSet(D), NEW E, NEW w \in [E -> [D -> Int]], NEW b \in [E -> Int],
         NEW box, IsBox(box, D)
  PROVE  /\ IsBox(Affine(box, w, b), E)
         /\ \A v : InBox(v, box, D) => InBox(Linear(w, b, v), Affine(box, w, b), E)
<1>1. PICK out : out = Affine(box, w, b)
  OBVIOUS
<1>2. /\ out.lo = [h \in E |-> b[h] + Lower(w[h], box.lo, box.hi, D)]
      /\ out.hi = [h \in E |-> b[h] + Lower(w[h], box.hi, box.lo, D)]
  <2>1. TakesCorners(out, box, w, b, D, E)
    BY <1>1, AffineIs
  <2> QED BY <2>1 DEF TakesCorners
<1>3. ASSUME NEW v, InBox(v, box, D), NEW h \in E
      PROVE  /\ out.lo[h] \in Int /\ out.hi[h] \in Int /\ Linear(w, b, v)[h] \in Int
             /\ out.lo[h] <= Linear(w, b, v)[h] /\ Linear(w, b, v)[h] <= out.hi[h]
  <2>1. PICK u \in [D -> Int] : u = w[h]
    OBVIOUS
  <2>2. PICK p, q, r \in Int : /\ p = Lower(u, box.lo, box.hi, D) /\ r = Dot(u, v)
                               /\ q = Lower(u, box.hi, box.lo, D) /\ p <= r /\ r <= q
    BY <1>3, CornersBound
  <2>3. out.lo[h] = b[h] + p /\ out.hi[h] = b[h] + q /\ b[h] \in Int
    BY <1>2, <2>1, <2>2
  <2>4. Linear(w, b, v)[h] = b[h] + r
    BY <2>1, <2>2 DEF Linear
  <2> QED BY <2>2, <2>3, <2>4
<1>4. InBox(box.lo, box, D)
  BY DEF IsBox, InBox
<1>5. \A h \in E : out.lo[h] \in Int /\ out.hi[h] \in Int /\ out.lo[h] <= out.hi[h]
  BY <1>3, <1>4
<1>6. IsBox(out, E)
  BY <1>2, <1>5 DEF IsBox
<1>7. ASSUME NEW v, InBox(v, box, D) PROVE InBox(Linear(w, b, v), out, E)
  <2>1. DOMAIN Linear(w, b, v) = E /\ Linear(w, b, v) = [h \in E |-> b[h] + Dot(w[h], v)]
    BY DEF Linear
  <2> QED BY <1>3, <1>7, <2>1 DEF InBox
<1> QED BY <1>1, <1>6, <1>7

LEMMA NormFacts ==
  ASSUME NEW E, NEW net, net.gam \in [E -> Int], net.bet \in [E -> Int],
         NEW box, IsBox(box, E)
  PROVE  /\ IsBox(BatchNorm(net, box), E)
         /\ \A v : InBox(v, box, E) => InBox(Scaled(net, v), BatchNorm(net, box), E)
<1>1. PICK lo \in [E -> Int], hi \in [E -> Int], g \in [E -> Int], d \in [E -> Int] :
        /\ lo = box.lo /\ hi = box.hi /\ g = net.gam /\ d = net.bet
        /\ \A h \in E : lo[h] <= hi[h]
  BY DEF IsBox
<1>2. PICK out : out = BatchNorm(net, box)
  OBVIOUS
<1>3. /\ out.lo = [h \in E |-> (IF g[h] >= 0 THEN lo[h] ELSE hi[h]) * g[h] + d[h]]
      /\ out.hi = [h \in E |-> (IF g[h] >= 0 THEN hi[h] ELSE lo[h]) * g[h] + d[h]]
  BY <1>2, <1>1 DEF BatchNorm
<1>4. ASSUME NEW v, InBox(v, box, E), NEW h \in E
      PROVE  /\ out.lo[h] \in Int /\ out.hi[h] \in Int /\ Scaled(net, v)[h] \in Int
             /\ out.lo[h] <= Scaled(net, v)[h] /\ Scaled(net, v)[h] <= out.hi[h]
  <2>1. PICK a, l, u, x, e \in Int : /\ a = g[h] /\ l = lo[h] /\ u = hi[h] /\ x = v[h]
                                     /\ e = d[h] /\ l <= x /\ x <= u
    BY <1>1, <1>4 DEF InBox
  <2>2. Scaled(net, v)[h] = a * x + e
    BY <1>1, <1>4, <2>1 DEF Scaled, InBox
  <2>3. CASE a >= 0
    <3>1. l * a <= a * x /\ a * x <= u * a
      BY <2>1, <2>3
    <3>2. out.lo[h] = l * a + e /\ out.hi[h] = u * a + e
      BY <1>3, <2>1, <2>3
    <3> QED BY <2>2, <3>1, <3>2
  <2>4. CASE ~(a >= 0)
    <3>1. u * a <= a * x /\ a * x <= l * a
      BY <2>1, <2>4
    <3>2. out.lo[h] = u * a + e /\ out.hi[h] = l * a + e
      BY <1>3, <2>1, <2>4
    <3> QED BY <2>2, <3>1, <3>2
  <2> QED BY <2>3, <2>4
<1>5. InBox(box.lo, box, E)
  BY DEF IsBox, InBox
<1>6. \A h \in E : out.lo[h] \in Int /\ out.hi[h] \in Int /\ out.lo[h] <= out.hi[h]
  BY <1>4, <1>5
<1>7. IsBox(out, E)
  BY <1>3, <1>6 DEF IsBox
<1>8. ASSUME NEW v, InBox(v, box, E) PROVE InBox(Scaled(net, v), out, E)
  <2>1. Scaled(net, v) = [h \in E |-> net.gam[h] * v[h] + net.bet[h]]
    BY <1>8 DEF Scaled, InBox
  <2> QED BY <1>4, <1>8, <2>1 DEF InBox
<1> QED BY <1>2, <1>7, <1>8

LEMMA ReluFacts ==
  ASSUME NEW E, NEW box, IsBox(box, E)
  PROVE  /\ IsBox(ReluBox(box), E)
         /\ \A v : InBox(v, box, E) => InBox(Relu(v), ReluBox(box), E)
<1>1. PICK lo \in [E -> Int], hi \in [E -> Int] :
        lo = box.lo /\ hi = box.hi /\ \A h \in E : lo[h] <= hi[h]
  BY DEF IsBox
<1>2. /\ ReluBox(box).lo = [h \in E |-> IF lo[h] > 0 THEN lo[h] ELSE 0]
      /\ ReluBox(box).hi = [h \in E |-> IF hi[h] > 0 THEN hi[h] ELSE 0]
  BY <1>1 DEF ReluBox, Relu
<1>3. IsBox(ReluBox(box), E)
  BY <1>1, <1>2 DEF IsBox
<1>4. ASSUME NEW v, InBox(v, box, E) PROVE InBox(Relu(v), ReluBox(box), E)
  <2>1. Relu(v) = [h \in E |-> IF v[h] > 0 THEN v[h] ELSE 0]
    BY <1>4 DEF Relu, InBox
  <2>2. v \in [E -> Int] /\ \A h \in E : lo[h] <= v[h] /\ v[h] <= hi[h]
    BY <1>1, <1>4 DEF InBox
  <2> QED BY <1>1, <1>2, <2>1, <2>2 DEF InBox
<1> QED BY <1>3, <1>4

-----------------------------------------------------------------------------
(* The network on a box: interval propagation is below the margin.         *)

Z1(net, v) == Scaled(net, Linear(net.w1, net.b1, v))
Z2(net, v) == Linear(net.w2, net.b2, Relu(Z1(net, v)))
Out(net, box) == Affine(ReluBox(PreRelu2(net, box)), net.w3, net.b3)

LEMMA InputsAreFinite ==
  ASSUME NumCont \in Nat, Size \in Seq(Nat \ {0})
  PROVE  IsFiniteSet(GroupCols) /\ IsFiniteSet(Groups) /\ IsFiniteSet(Inputs)
<1>1. Len(Size) \in Nat /\ \A g \in Groups : Size[g] \in Nat
  BY DEF Groups
<1>2. IsFiniteSet(Groups)
  BY <1>1, FS_Interval DEF Groups
<1>3. PICK F : F = [g \in Groups |-> {g} \X (1..Size[g])]
  OBVIOUS
<1>4. ASSUME NEW g \in Groups PROVE IsFiniteSet(F[g])
  <2>1. PICK n \in Nat : n = Size[g]
    BY <1>1
  <2>2. IsFiniteSet(1..n) /\ IsFiniteSet({g})
    <3>1. IsFiniteSet(1..n)
      BY FS_Interval
    <3> QED BY <3>1, FS_Singleton, Zenon
  <2>3. IsFiniteSet({g} \X (1..n))
    BY <2>2, FS_Product
  <2> QED BY <1>3, <2>1, <2>3
<1>5. \A d, e \in Groups : d # e => F[d] \cap F[e] = {}
  BY <1>3
<1>6. IsFiniteSet(UNION {F[g] : g \in Groups})
  BY <1>2, <1>4, <1>5, DisjointUnion
<1>7. GroupCols = UNION {F[g] : g \in Groups}
  BY <1>3 DEF GroupCols
<1>8. IsFiniteSet(ContCols)
  <2>1. PICK n \in Nat : n = NumCont
    OBVIOUS
  <2>2. IsFiniteSet(1..n) /\ IsFiniteSet({0})
    <3>1. IsFiniteSet(1..n)
      BY FS_Interval
    <3> QED BY <3>1, FS_Singleton, Zenon
  <2>3. IsFiniteSet({0} \X (1..n))
    BY <2>2, FS_Product
  <2>4. ContCols = {0} \X (1..n)
    BY <2>1 DEF ContCols
  <2> QED BY <2>3, <2>4
<1> QED BY <1>2, <1>6, <1>7, <1>8, FS_Union DEF Inputs

LEMMA NetworkParts ==
  ASSUME NEW net, IsNetwork(net)
  PROVE  /\ IsFiniteSet(DOMAIN net.w1) /\ IsFiniteSet(DOMAIN net.w2) /\ IsFiniteSet(Classes)
         /\ net.w1 \in [DOMAIN net.w1 -> [Inputs -> Int]]
         /\ net.b1 \in [DOMAIN net.w1 -> Int] /\ net.gam \in [DOMAIN net.w1 -> Int]
         /\ net.bet \in [DOMAIN net.w1 -> Int]
         /\ net.w2 \in [DOMAIN net.w2 -> [DOMAIN net.w1 -> Int]]
         /\ net.b2 \in [DOMAIN net.w2 -> Int]
         /\ net.w3 \in [Classes -> [DOMAIN net.w2 -> Int]] /\ net.b3 \in [Classes -> Int]
<1>1. IsFiniteSet({0}) /\ IsFiniteSet({1}) /\ {0, 1} = {0} \cup {1}
  BY FS_Singleton
<1>2. IsFiniteSet(Classes)
  BY <1>1, FS_Union DEF Classes
<1> QED BY <1>2 DEF IsNetwork

\* Every layer stays within its box.
LEMMA LayersStayInBoxes ==
  ASSUME NEW net, IsNetwork(net), IsFiniteSet(Inputs), NEW box, IsBox(box, Inputs)
  PROVE  /\ IsBox(Affine(box, net.w1, net.b1), DOMAIN net.w1)
         /\ IsBox(PreRelu1(net, box), DOMAIN net.w1)
         /\ IsBox(ReluBox(PreRelu1(net, box)), DOMAIN net.w1)
         /\ IsBox(PreRelu2(net, box), DOMAIN net.w2)
         /\ IsBox(ReluBox(PreRelu2(net, box)), DOMAIN net.w2)
         /\ IsBox(Out(net, box), Classes)
         /\ \A v : InBox(v, box, Inputs) =>
              /\ InBox(Linear(net.w1, net.b1, v), Affine(box, net.w1, net.b1), DOMAIN net.w1)
              /\ InBox(Z1(net, v), PreRelu1(net, box), DOMAIN net.w1)
              /\ InBox(Relu(Z1(net, v)), ReluBox(PreRelu1(net, box)), DOMAIN net.w1)
              /\ InBox(Z2(net, v), PreRelu2(net, box), DOMAIN net.w2)
              /\ InBox(Relu(Z2(net, v)), ReluBox(PreRelu2(net, box)), DOMAIN net.w2)
              /\ InBox(Logits(net, v), Out(net, box), Classes)
<1> DEFINE H1 == DOMAIN net.w1
           H2 == DOMAIN net.w2
<1>1. /\ IsFiniteSet(H1) /\ IsFiniteSet(H2)
      /\ net.w1 \in [H1 -> [Inputs -> Int]] /\ net.b1 \in [H1 -> Int]
      /\ net.gam \in [H1 -> Int] /\ net.bet \in [H1 -> Int]
      /\ net.w2 \in [H2 -> [H1 -> Int]] /\ net.b2 \in [H2 -> Int]
      /\ net.w3 \in [Classes -> [H2 -> Int]] /\ net.b3 \in [Classes -> Int]
  BY NetworkParts
<1> HIDE DEF H1, H2
<1>2. PICK b1, b2, b3, b4, b5, b6 :
        /\ b1 = Affine(box, net.w1, net.b1) /\ b2 = BatchNorm(net, b1) /\ b3 = ReluBox(b2)
        /\ b4 = Affine(b3, net.w2, net.b2) /\ b5 = ReluBox(b4)
        /\ b6 = Affine(b5, net.w3, net.b3)
  OBVIOUS
<1>3. /\ IsBox(b1, H1)
      /\ \A v : InBox(v, box, Inputs) => InBox(Linear(net.w1, net.b1, v), b1, H1)
  BY <1>1, <1>2, AffineFacts
<1>4. IsBox(b2, H1) /\ \A v : InBox(v, b1, H1) => InBox(Scaled(net, v), b2, H1)
  BY <1>1, <1>2, <1>3, NormFacts
<1>5. IsBox(b3, H1) /\ \A v : InBox(v, b2, H1) => InBox(Relu(v), b3, H1)
  BY <1>2, <1>4, ReluFacts
<1>6. IsBox(b4, H2) /\ \A v : InBox(v, b3, H1) => InBox(Linear(net.w2, net.b2, v), b4, H2)
  BY <1>1, <1>2, <1>5, AffineFacts
<1>7. IsBox(b5, H2) /\ \A v : InBox(v, b4, H2) => InBox(Relu(v), b5, H2)
  BY <1>2, <1>6, ReluFacts
<1>8. /\ IsBox(b6, Classes)
      /\ \A v : InBox(v, b5, H2) => InBox(Linear(net.w3, net.b3, v), b6, Classes)
  BY <1>1, <1>2, <1>7, AffineFacts
<1>9. PreRelu1(net, box) = b2 /\ PreRelu2(net, box) = b4 /\ Out(net, box) = b6
  BY <1>2 DEF PreRelu1, PreRelu2, Out
<1>10. ASSUME NEW v PROVE Logits(net, v) = Linear(net.w3, net.b3, Relu(Z2(net, v)))
  BY DEF Logits, Z2, Z1
<1>11. ASSUME NEW v, InBox(v, box, Inputs)
       PROVE  /\ InBox(Linear(net.w1, net.b1, v), b1, H1)
              /\ InBox(Z1(net, v), b2, H1) /\ InBox(Relu(Z1(net, v)), b3, H1)
              /\ InBox(Z2(net, v), b4, H2) /\ InBox(Relu(Z2(net, v)), b5, H2)
              /\ InBox(Logits(net, v), b6, Classes)
  <2>1. InBox(Linear(net.w1, net.b1, v), b1, H1)
    BY <1>3, <1>11, Zenon
  <2>2. InBox(Z1(net, v), b2, H1)
    BY <1>4, <2>1, Zenon DEF Z1
  <2>3. InBox(Relu(Z1(net, v)), b3, H1)
    BY <1>5, <2>2, Zenon
  <2>4. InBox(Z2(net, v), b4, H2)
    BY <1>6, <2>3, Zenon DEF Z2
  <2>5. InBox(Relu(Z2(net, v)), b5, H2)
    BY <1>7, <2>4, Zenon
  <2>6. InBox(Logits(net, v), b6, Classes)
    BY <1>8, <1>10, <2>5, Zenon
  <2> QED BY <2>1, <2>2, <2>3, <2>4, <2>5, <2>6, Zenon
<1>12. /\ ReluBox(PreRelu1(net, box)) = b3 /\ ReluBox(PreRelu2(net, box)) = b5
       /\ Affine(box, net.w1, net.b1) = b1
  BY <1>2, <1>9, Zenon
<1>13. IsBox(b1, H1) /\ IsBox(b2, H1) /\ IsBox(b3, H1) /\ IsBox(b4, H2)
       /\ IsBox(b5, H2) /\ IsBox(b6, Classes)
  BY <1>3, <1>4, <1>5, <1>6, <1>7, <1>8, Zenon
<1> QED BY <1>9, <1>11, <1>12, <1>13, Zenon DEF H1, H2

\* With two classes the rival is the other one.
LEMMA MarginIs ==
  ASSUME NEW k \in Classes, NEW z \in [Classes -> Int]
  PROVE  LargestBut(z, k) = 1 - k /\ 1 - k \in Classes
BY DEF LargestBut, Classes

LEMMA IbpIs ==
  ASSUME NEW k \in Classes, NEW net, NEW box, IsBox(Out(net, box), Classes)
  PROVE  /\ ibp_margin_lower_bounds(net, box, k) = Out(net, box).lo[k] - Out(net, box).hi[1 - k]
         /\ ibp_margin_lower_bounds(net, box, k) \in Int
<1>1. PICK lo \in [Classes -> Int], hi \in [Classes -> Int] :
        lo = Out(net, box).lo /\ hi = Out(net, box).hi
  BY DEF IsBox
<1>2. Classes \ {k} = {1 - k} /\ 1 - k \in Classes
  BY DEF Classes
<1>3. {hi[o] : o \in Classes \ {k}} = {hi[1 - k]}
  BY <1>2
<1>4. Max({hi[1 - k]}) = hi[1 - k]
  <2>1. PICK x \in Int : x = hi[1 - k]
    BY <1>2
  <2>2. Max({x}) = x
    BY DEF Max
  <2> QED BY <2>1, <2>2
<1>5. ibp_margin_lower_bounds(net, box, k) = lo[k] - hi[1 - k]
  BY <1>1, <1>3, <1>4 DEF ibp_margin_lower_bounds, Out
<1> QED BY <1>1, <1>2, <1>5

\* No point of the box has a margin below the one of interval propagation.
LEMMA IbpIsSound ==
  ASSUME NEW net, IsNetwork(net), IsFiniteSet(Inputs), NEW box, IsBox(box, Inputs),
         NEW k \in Classes, NEW v, InBox(v, box, Inputs)
  PROVE  /\ ibp_margin_lower_bounds(net, box, k) \in Int /\ Margin(net, v, k) \in Int
         /\ ibp_margin_lower_bounds(net, box, k) <= Margin(net, v, k)
         /\ Margin(net, v, k) = Logits(net, v)[k] - Logits(net, v)[1 - k]
<1>1. PICK out, z : out = Out(net, box) /\ z = Logits(net, v)
  OBVIOUS
<1>2. IsBox(out, Classes) /\ InBox(z, out, Classes)
  BY <1>1, LayersStayInBoxes
<1>3. z \in [Classes -> Int] /\ 1 - k \in Classes
  BY <1>2 DEF InBox, Classes
<1>4. Margin(net, v, k) = z[k] - z[1 - k]
  BY <1>1, <1>3, MarginIs DEF Margin
<1>5. PICK a, b, c, d \in Int : /\ a = out.lo[k] /\ b = z[k] /\ c = z[1 - k]
                                /\ d = out.hi[1 - k] /\ a <= b /\ c <= d
  BY <1>2, <1>3 DEF InBox, IsBox
<1>6. ibp_margin_lower_bounds(net, box, k) = a - d
  BY <1>1, <1>2, <1>5, IbpIs
<1> QED BY <1>1, <1>4, <1>5, <1>6

-----------------------------------------------------------------------------
(* CROWN: what each backward step does to the linear function.             *)

IsLinear(f, D) == f.r \in [D -> Int] /\ f.bias \in Int /\ f.den \in Int /\ f.den > 0

Value(f, u) == Dot(f.r, u) + f.bias

LEMMA SumIsScaled ==
  ASSUME NEW D, IsFiniteSet(D), NEW f, NEW h, NEW a \in Int,
         \A j \in D : f[j] \in Int /\ h[j] = a * f[j]
  PROVE  Sum(h, D) = a * Sum(f, D)
<1>1. \A j \in D : f[j] \in Int /\ h[j] \in Int /\ h[j] = a * f[j] + 0 * f[j]
  BY Z3
<1>2. Sum(h, D) = a * Sum(f, D) + 0 * Sum(f, D)
  BY <1>1, SumIsLinear
<1>3. Sum(f, D) \in Int
  BY SumTakes
<1> QED BY <1>2, <1>3

LEMMA SumAddsUp ==
  ASSUME NEW D, IsFiniteSet(D), NEW f, NEW g, NEW h,
         \A j \in D : f[j] \in Int /\ g[j] \in Int /\ h[j] = f[j] + g[j]
  PROVE  Sum(h, D) = Sum(f, D) + Sum(g, D)
<1>1. \A j \in D : f[j] \in Int /\ g[j] \in Int /\ h[j] \in Int
                   /\ h[j] = 1 * f[j] + 1 * g[j]
  OBVIOUS
<1>2. Sum(h, D) = 1 * Sum(f, D) + 1 * Sum(g, D)
  BY <1>1, SumIsLinear
<1>3. Sum(f, D) \in Int /\ Sum(g, D) \in Int
  BY SumTakes
<1> QED BY <1>2, <1>3

LinearStep(g, f, w, b, D) ==
  /\ IsLinear(g, D) /\ g.den = f.den
  /\ \A v \in [D -> Int] : Value(g, v) = Value(f, Linear(w, b, v))

\* Backwards through a layer the function stays the same function.
LEMMA BackLinearIsExact ==
  ASSUME NEW D, IsFiniteSet(D), NEW E, IsFiniteSet(E), NEW f, IsLinear(f, E),
         NEW w \in [E -> [D -> Int]], NEW b \in [E -> Int]
  PROVE  LinearStep(BackLinear(f, w, b, D), f, w, b, D)
<1>1. PICK g : g = BackLinear(f, w, b, D)
  OBVIOUS
<1>2. PICK r \in [E -> Int] : r = f.r
  BY DEF IsLinear
<1>3. PICK Col : Col = [j \in D |-> [h \in E |-> r[h] * w[h][j]]]
  OBVIOUS
<1>4. \A j \in D : Col[j] \in [E -> Int] /\ \A h \in E : Col[j][h] = r[h] * w[h][j]
  BY <1>3
<1>5. g.r = [j \in D |-> SumFunction(Col[j])] /\ g.bias = f.bias + Dot(r, b)
      /\ g.den = f.den
  <2>1. DOMAIN f.r = E
    BY <1>2
  <2>2. \A j \in D : Col[j] = [h \in E |-> f.r[h] * w[h][j]]
    BY <1>2, <1>3
  <2> QED BY <1>1, <1>2, <2>1, <2>2 DEF BackLinear
<1>6. ASSUME NEW j \in D PROVE g.r[j] = Sum(Col[j], E) /\ g.r[j] \in Int
  <2>1. PICK c \in [E -> Int] : c = Col[j]
    BY <1>4
  <2>2. SumFunction(c) = Sum(c, E)
    BY TotalIsSum
  <2>3. \A h \in E : c[h] \in Int
    OBVIOUS
  <2>4. Sum(c, E) \in Int
    BY <2>3, SumTakes
  <2> QED BY <1>5, <2>1, <2>2, <2>4
<1>7. g.r \in [D -> Int]
  BY <1>5, <1>6
<1>8. PICK rb : rb = [h \in E |-> r[h] * b[h]]
  OBVIOUS
<1>9. /\ Dot(r, b) = Sum(rb, E) /\ Dot(r, b) \in Int
      /\ rb \in [E -> Int] /\ \A h \in E : rb[h] = r[h] * b[h]
  BY <1>8, DotFacts
<1>10. IsLinear(g, D)
  BY <1>5, <1>7, <1>9 DEF IsLinear
<1>11. ASSUME NEW v \in [D -> Int] PROVE Value(g, v) = Value(f, Linear(w, b, v))
  <2>1. PICK F : F = [h \in E |-> [j \in D |-> (r[h] * w[h][j]) * v[j]]]
    OBVIOUS
  <2>2. F \in [E -> [D -> Int]]
    BY <2>1
  <2>3. PICK R, C, gv, y, ry :
          /\ R = [h \in E |-> r[h] * Dot(w[h], v)]
          /\ C = [j \in D |-> g.r[j] * v[j]]
          /\ y = Linear(w, b, v) /\ ry = [h \in E |-> r[h] * y[h]]
    OBVIOUS
  <2>4. ASSUME NEW h \in E PROVE R[h] = Sum(F[h], D) /\ Dot(w[h], v) \in Int
    <3>1. PICK u \in [D -> Int], a \in Int : u = w[h] /\ a = r[h]
      OBVIOUS
    <3>2. PICK t : t = [j \in D |-> u[j] * v[j]]
      OBVIOUS
    <3>3. \A j \in D : t[j] \in Int /\ t[j] = u[j] * v[j]
      BY <3>2
    <3>4. Dot(u, v) = Sum(t, D)
      <4>1. Dot(u, v) = SumFunction(t) /\ DOMAIN t = D
        BY <3>2 DEF Dot
      <4> QED BY <4>1, TotalIsSum
    <3>5. Sum(t, D) \in Int
      BY <3>3, SumTakes
    <3>6. PICK p : p = F[h]
      OBVIOUS
    <3>7. \A j \in D : t[j] \in Int /\ p[j] = a * t[j]
      <4> TAKE j \in D
      <4>1. PICK x, z \in Int : x = u[j] /\ z = v[j]
        OBVIOUS
      <4>2. (a * x) * z = a * (x * z)
        OBVIOUS
      <4> QED BY <2>1, <3>1, <3>3, <3>6, <4>1, <4>2
    <3>8. Sum(p, D) = a * Sum(t, D)
      BY <3>7, SumIsScaled
    <3> QED BY <2>3, <3>1, <3>4, <3>5, <3>6, <3>8
  <2>5. PICK G : G = [j \in D |-> [h \in E |-> F[h][j]]]
    OBVIOUS
  <2>6. ASSUME NEW j \in D PROVE C[j] = Sum(G[j], E)
    <3>1. PICK c \in [E -> Int], a \in Int : c = Col[j] /\ a = v[j]
      BY <1>4
    <3>2. PICK p : p = [h \in E |-> F[h][j]] /\ p = G[j]
      BY <2>5
    <3>3. \A h \in E : c[h] \in Int /\ p[h] = a * c[h]
      <4> TAKE h \in E
      <4>1. PICK x, z \in Int : x = r[h] /\ z = w[h][j]
        OBVIOUS
      <4>2. (x * z) * a = a * (x * z)
        OBVIOUS
      <4> QED BY <1>4, <2>1, <3>1, <3>2, <4>1, <4>2
    <3>4. Sum(p, E) = a * Sum(c, E)
      BY <3>3, SumIsScaled
    <3>5. C[j] = Sum(c, E) * a /\ Sum(c, E) \in Int
      BY <1>6, <2>3, <3>1
    <3> QED BY <3>2, <3>4, <3>5
  <2>7. Sum(R, E) = Sum(C, D)
    <3>1. AreSums(R, F, E, D)
      BY <2>2, <2>4 DEF AreSums
    <3>2. AreSums(C, G, D, E)
      BY <2>2, <2>6, <2>5 DEF AreSums
    <3>3. \A h \in E : \A j \in D : G[j][h] = F[h][j]
      BY <2>5
    <3> QED BY <3>1, <3>2, <3>3, SumsSwap
  <2>8. Dot(g.r, v) = Sum(C, D)
    <3>1. PICK gr \in [D -> Int] : gr = g.r
      BY <1>7
    <3>2. C = [j \in D |-> gr[j] * v[j]]
      BY <2>3, <3>1
    <3>3. Dot(gr, v) = Sum(C, D)
      BY <3>2, DotFacts
    <3> QED BY <3>1, <3>3
  <2>9. y \in [E -> Int] /\ \A h \in E : y[h] = b[h] + Dot(w[h], v)
    BY <2>3, <2>4 DEF Linear
  <2>10. Dot(r, y) = Sum(ry, E)
    BY <2>3, <2>9, DotFacts
  <2>11. \A h \in E : rb[h] \in Int /\ R[h] \in Int /\ ry[h] = rb[h] + R[h]
    <3> TAKE h \in E
    <3>1. PICK x, z, e \in Int : x = r[h] /\ z = b[h] /\ e = Dot(w[h], v)
      BY <2>4
    <3>2. x * (z + e) = x * z + x * e
      OBVIOUS
    <3> QED BY <1>9, <2>3, <2>9, <3>1, <3>2
  <2>12. Sum(ry, E) = Sum(rb, E) + Sum(R, E)
    BY <2>11, SumAddsUp
  <2>13. Sum(R, E) \in Int
    BY <2>11, SumTakes
  <2>14. f.bias \in Int
    BY DEF IsLinear
  <2> QED BY <1>2, <1>5, <1>9, <2>3, <2>7, <2>8, <2>10, <2>12, <2>13, <2>14 DEF Value
<1> QED BY <1>1, <1>5, <1>10, <1>11 DEF LinearStep

NormStep(g, f, net, E) ==
  /\ IsLinear(g, E) /\ g.den = f.den
  /\ \A v \in [E -> Int] : Value(g, v) = Value(f, Scaled(net, v))

LEMMA BackNormIsExact ==
  ASSUME NEW E, IsFiniteSet(E), NEW f, IsLinear(f, E),
         NEW net, net.gam \in [E -> Int], net.bet \in [E -> Int]
  PROVE  NormStep(BackNorm(f, net), f, net, E)
<1>1. PICK g : g = BackNorm(f, net)
  OBVIOUS
<1>2. PICK r, gam, bet \in [E -> Int] : r = f.r /\ gam = net.gam /\ bet = net.bet
  BY DEF IsLinear
<1>3. PICK gr : gr = [h \in E |-> r[h] * gam[h]]
  OBVIOUS
<1>4. g.r = gr /\ g.bias = f.bias + Dot(r, bet) /\ g.den = f.den /\ gr \in [E -> Int]
  BY <1>1, <1>2, <1>3 DEF BackNorm
<1>5. PICK p : p = [h \in E |-> r[h] * bet[h]]
  OBVIOUS
<1>6. /\ Dot(r, bet) = Sum(p, E) /\ Dot(r, bet) \in Int
      /\ p \in [E -> Int] /\ \A h \in E : p[h] = r[h] * bet[h]
  BY <1>5, DotFacts
<1>7. IsLinear(g, E) /\ f.bias \in Int
  BY <1>4, <1>6 DEF IsLinear
<1>8. ASSUME NEW v \in [E -> Int] PROVE Value(g, v) = Value(f, Scaled(net, v))
  <2>1. PICK y : y = [h \in E |-> gam[h] * v[h] + bet[h]]
    OBVIOUS
  <2>2. y \in [E -> Int] /\ \A h \in E : y[h] = gam[h] * v[h] + bet[h]
    BY <2>1
  <2>3. Scaled(net, v) = y
    BY <1>2, <2>1 DEF Scaled
  <2>4. PICK s, t : s = [h \in E |-> gr[h] * v[h]] /\ t = [h \in E |-> r[h] * y[h]]
    OBVIOUS
  <2>5. Dot(gr, v) = Sum(s, E) /\ s \in [E -> Int] /\ \A h \in E : s[h] = gr[h] * v[h]
    BY <1>4, <2>4, DotFacts
  <2>6. Dot(r, y) = Sum(t, E)
    BY <2>2, <2>4, DotFacts
  <2>7. \A h \in E : p[h] \in Int /\ s[h] \in Int /\ t[h] = p[h] + s[h]
    <3> TAKE h \in E
    <3>1. PICK a, x, z, e \in Int : a = r[h] /\ x = gam[h] /\ z = v[h] /\ e = bet[h]
      OBVIOUS
    <3>2. a * (x * z + e) = a * e + (a * x) * z
      OBVIOUS
    <3>3. t[h] = a * (x * z + e) /\ s[h] = (a * x) * z /\ p[h] = a * e
      BY <1>3, <1>6, <2>2, <2>4, <2>5, <3>1
    <3> QED BY <1>6, <2>5, <3>2, <3>3
  <2>8. Sum(t, E) = Sum(p, E) + Sum(s, E)
    BY <2>7, SumAddsUp
  <2>9. Sum(s, E) \in Int
    BY <2>7, SumTakes
  <2>10. Sum(p, E) \in Int
    BY <2>7, SumTakes
  <2> QED BY <1>2, <1>4, <1>6, <1>7, <2>3, <2>5, <2>6, <2>8, <2>9, <2>10 DEF Value
<1> QED BY <1>1, <1>4, <1>7, <1>8 DEF NormStep

\* What a step backwards through a relu multiplies the coefficients by, and
\* what it takes from the bias: the neurons that are surely on, those that
\* take the secant, and those that take 0.
ReluStep(f, g, lo, hi, E, den, slope, t) ==
  /\ den \in Int /\ den > 0 /\ slope \in [E -> Int] /\ t \in [E -> Int]
  /\ g.den = f.den * den
  /\ g.r = [h \in E |-> f.r[h] * slope[h]]
  /\ g.bias = f.bias * den - Sum(t, E)
  /\ \A h \in E :
       \/ lo[h] >= 0 /\ slope[h] = den /\ t[h] = 0
       \/ /\ lo[h] < 0 /\ hi[h] > 0 /\ f.r[h] < 0
          /\ t[h] = f.r[h] * slope[h] * lo[h]
          /\ \E q \in Int : q > 0 /\ den = (hi[h] - lo[h]) * q /\ slope[h] = hi[h] * q
       \/ lo[h] < 0 /\ (hi[h] <= 0 \/ f.r[h] >= 0) /\ slope[h] = 0 /\ t[h] = 0

LEMMA ReluStepExists ==
  ASSUME NEW E, IsFiniteSet(E), NEW f, IsLinear(f, E), NEW box, IsBox(box, E)
  PROVE  \E den, slope, t :
           ReluStep(f, crown_relu_backward(f, box), box.lo, box.hi, E, den, slope, t)
<1>1. PICK r, lo, hi \in [E -> Int] : /\ r = f.r /\ lo = box.lo /\ hi = box.hi
                                      /\ \A h \in E : lo[h] <= hi[h]
  BY DEF IsLinear, IsBox
<1>2. PICK steep, straight, wd, g :
        /\ steep = {h \in Crossing(box) : f.r[h] < 0} /\ straight = Active(box)
        /\ wd = [h \in steep |-> box.hi[h] - box.lo[h]]
        /\ g = crown_relu_backward(f, box)
  OBVIOUS
<1>3. /\ steep = {h \in E : lo[h] < 0 /\ hi[h] > 0 /\ r[h] < 0}
      /\ straight = {h \in E : lo[h] >= 0} /\ steep \in SUBSET E
      /\ wd = [h \in steep |-> hi[h] - lo[h]]
  BY <1>1, <1>2 DEF Crossing, Active
<1>4. PICK den : den = FoldFunction(LAMBDA a, b : a * b, 1, wd)
  OBVIOUS
<1>5. den = Product(wd, steep)
  BY <1>3, <1>4 DEF FoldFunction, Product
<1>6. IsFiniteSet(steep)
  BY <1>3, FS_Subset
<1>7. \A h \in steep : wd[h] \in Int /\ 0 < wd[h] /\ wd[h] = hi[h] - lo[h]
  BY <1>3
<1>8. /\ den \in Int /\ 0 < den
      /\ \A h \in steep : \E q \in Int : 0 < q /\ den = wd[h] * q
  BY <1>5, <1>6, <1>7, ProductFacts
<1>9. PICK slope : slope = [h \in E |-> IF h \in straight THEN den
                                        ELSE IF h \in steep THEN hi[h] * (den \div (hi[h] - lo[h]))
                                        ELSE 0]
  OBVIOUS
<1>10. ASSUME NEW h \in steep
       PROVE  \E q \in Int : q > 0 /\ den = (hi[h] - lo[h]) * q /\ slope[h] = hi[h] * q
  <2>1. PICK q \in Int : 0 < q /\ den = wd[h] * q
    BY <1>8
  <2>2. PICK n \in Int : n = wd[h] /\ 0 < n /\ n = hi[h] - lo[h]
    BY <1>7
  <2>3. (n * q) \div n = q
    BY <2>2
  <2>4. slope[h] = hi[h] * (den \div n)
    BY <1>3, <1>9, <2>2
  <2> QED BY <2>1, <2>2, <2>3, <2>4
<1>11. slope \in [E -> Int]
  <2> SUFFICES ASSUME NEW h \in E PROVE slope[h] \in Int
    BY <1>9
  <2>1. CASE h \in steep
    <3>1. PICK q \in Int : slope[h] = hi[h] * q
      BY <1>10, <2>1
    <3> QED BY <3>1
  <2>2. CASE h \notin steep
    BY <1>8, <1>9, <2>2
  <2> QED BY <2>1, <2>2
<1>12. PICK s, t : /\ s = [h \in steep |-> r[h] * slope[h] * lo[h]]
                   /\ t = [h \in E |-> IF h \in steep THEN r[h] * slope[h] * lo[h] ELSE 0]
  OBVIOUS
<1>13. t \in [E -> Int]
  BY <1>11, <1>12
<1>14. SumFunction(s) = Sum(t, E)
  <2>1. SumFunction(s) = Sum(s, steep)
    BY <1>12, TotalIsSum
  <2>2. (\A h \in steep : s[h] \in Int /\ t[h] = s[h]) /\ \A h \in E \ steep : t[h] = 0
    BY <1>3, <1>11, <1>12
  <2>3. Sum(s, steep) = Sum(t, E)
    BY <1>3, <2>2, SumOverPart
  <2> QED BY <2>1, <2>3
<1>15. /\ g.den = f.den * den /\ g.r = [h \in E |-> f.r[h] * slope[h]]
       /\ g.bias = f.bias * den - SumFunction(s)
  <2> DEFINE width(h) == box.hi[h] - box.lo[h]
             d == FoldFunction(LAMBDA a, b : a * b, 1, [h \in steep |-> width(h)])
             slp(h) == IF h \in straight THEN d
                       ELSE IF h \in steep THEN box.hi[h] * (d \div width(h)) ELSE 0
  <2>1. g = [r |-> [h \in DOMAIN f.r |-> f.r[h] * slp(h)],
             bias |-> f.bias * d - SumFunction([h \in steep |-> f.r[h] * slp(h) * box.lo[h]]),
             den |-> f.den * d]
    BY <1>2 DEF crown_relu_backward, BackRelu
  <2>2. d = den
    BY <1>2, <1>4
  <2> HIDE DEF d
  <2>3. \A h \in E : slp(h) = slope[h]
    BY <1>1, <1>9, <2>2
  <2> HIDE DEF slp
  <2>4. DOMAIN f.r = E
    BY <1>1
  <2>5. [h \in steep |-> f.r[h] * slp(h) * box.lo[h]] = s
    BY <1>1, <1>3, <1>12, <2>3
  <2>6. [h \in E |-> f.r[h] * slp(h)] = [h \in E |-> f.r[h] * slope[h]]
    BY <2>3
  <2> QED BY <2>1, <2>2, <2>4, <2>5, <2>6
<1>16. ASSUME NEW h \in E
       PROVE  \/ lo[h] >= 0 /\ slope[h] = den /\ t[h] = 0
              \/ /\ lo[h] < 0 /\ hi[h] > 0 /\ r[h] < 0
                 /\ t[h] = r[h] * slope[h] * lo[h]
                 /\ \E q \in Int : q > 0 /\ den = (hi[h] - lo[h]) * q /\ slope[h] = hi[h] * q
              \/ lo[h] < 0 /\ (hi[h] <= 0 \/ r[h] >= 0) /\ slope[h] = 0 /\ t[h] = 0
  <2>1. CASE h \in straight
    BY <1>3, <1>9, <1>12, <2>1
  <2>2. CASE h \in steep
    BY <1>3, <1>10, <1>12, <2>2
  <2>3. CASE h \notin straight /\ h \notin steep
    BY <1>3, <1>9, <1>12, <2>3
  <2> QED BY <2>1, <2>2, <2>3
<1>17. ReluStep(f, g, lo, hi, E, den, slope, t)
  BY <1>1, <1>8, <1>11, <1>13, <1>14, <1>15, <1>16 DEF ReluStep
<1> QED BY <1>1, <1>2, <1>17

\* The value after the step backwards, and the one before it, compared
\* neuron by neuron.
LEMMA ReluStepCompares ==
  ASSUME NEW E, IsFiniteSet(E), NEW f, IsLinear(f, E), NEW g, NEW lo, NEW hi,
         NEW den, NEW slope, NEW t, ReluStep(f, g, lo, hi, E, den, slope, t),
         NEW u \in [E -> Int], NEW c \in [E -> Int]
  PROVE  /\ IsLinear(g, E) /\ g.den = f.den * den
         /\ Value(g, u) \in Int /\ Value(f, c) \in Int
         /\ (\A h \in E : f.r[h] * slope[h] * u[h] - t[h] <= den * (f.r[h] * c[h]))
              => Value(g, u) <= den * Value(f, c)
         /\ (\A h \in E : den * (f.r[h] * c[h]) <= f.r[h] * slope[h] * u[h] - t[h])
              => den * Value(f, c) <= Value(g, u)
<1>1. PICK r \in [E -> Int] : r = f.r
  BY DEF IsLinear
<1>2. PICK gr : gr = [h \in E |-> r[h] * slope[h]]
  OBVIOUS
<1>3. /\ den \in Int /\ den > 0 /\ slope \in [E -> Int] /\ t \in [E -> Int]
      /\ g.den = f.den * den /\ g.r = gr /\ g.bias = f.bias * den - Sum(t, E)
      /\ gr \in [E -> Int] /\ \A h \in E : gr[h] = r[h] * slope[h]
  BY <1>1, <1>2 DEF ReluStep
<1>4. \A h \in E : t[h] \in Int
  BY <1>3
<1>5. Sum(t, E) \in Int
  BY <1>4, SumTakes
<1>6. f.bias \in Int /\ f.den \in Int /\ f.den > 0
  BY DEF IsLinear
<1>7. IsLinear(g, E)
  <2>1. f.den * den \in Int /\ f.den * den > 0
    BY <1>3, <1>6
  <2>2. f.bias * den - Sum(t, E) \in Int
    BY <1>3, <1>5, <1>6
  <2> QED BY <1>3, <2>1, <2>2 DEF IsLinear
<1>8. PICK p, q, m, e : /\ p = [h \in E |-> gr[h] * u[h]] /\ q = [h \in E |-> r[h] * c[h]]
                        /\ m = [h \in E |-> den * q[h]] /\ e = [h \in E |-> p[h] - t[h]]
  OBVIOUS
<1>9. Dot(gr, u) = Sum(p, E) /\ Dot(gr, u) \in Int
  <2>1. \A h \in E : p[h] \in Int
    BY <1>3, <1>8
  <2>2. Sum(p, E) \in Int
    BY <2>1, SumTakes
  <2>3. Dot(gr, u) = SumFunction(p) /\ DOMAIN p = E
    BY <1>3, <1>8 DEF Dot
  <2>4. SumFunction(p) = Sum(p, E)
    BY <2>3, TotalIsSum
  <2> QED BY <2>2, <2>3, <2>4
<1>10. Dot(r, c) = Sum(q, E) /\ Dot(r, c) \in Int
  BY <1>8, DotFacts
<1>11. \A h \in E : /\ p[h] \in Int /\ q[h] \in Int /\ m[h] \in Int /\ e[h] \in Int
                    /\ m[h] = den * q[h] /\ p[h] = e[h] + t[h] /\ e[h] = p[h] - t[h]
                    /\ q[h] = r[h] * c[h] /\ p[h] = r[h] * slope[h] * u[h]
  BY <1>3, <1>8
<1>12. Sum(m, E) = den * Sum(q, E)
  BY <1>3, <1>11, SumIsScaled
<1>13. Sum(p, E) = Sum(e, E) + Sum(t, E)
  BY <1>4, <1>11, SumAddsUp
<1>14. Sum(e, E) \in Int
  BY <1>11, SumTakes
<1>15. Value(g, u) = f.bias * den + Sum(e, E)
  BY <1>3, <1>5, <1>6, <1>9, <1>13, <1>14 DEF Value
<1>16. den * Value(f, c) = f.bias * den + Sum(m, E)
  <2>1. PICK x, y \in Int : x = f.bias /\ y = Sum(q, E)
    BY <1>6, <1>10
  <2>2. den * (y + x) = x * den + den * y
    BY <1>3
  <2> QED BY <1>1, <1>10, <1>12, <2>1, <2>2 DEF Value
<1>17. Sum(m, E) \in Int
  BY <1>11, SumTakes
<1>18. ASSUME \A h \in E : e[h] <= m[h] PROVE Sum(e, E) <= Sum(m, E)
  BY <1>11, <1>18, SumIsMonotone
<1>19. ASSUME \A h \in E : m[h] <= e[h] PROVE Sum(m, E) <= Sum(e, E)
  BY <1>11, <1>19, SumIsMonotone
<1>20. f.bias * den \in Int /\ Value(g, u) \in Int /\ Value(f, c) \in Int
  BY <1>1, <1>3, <1>6, <1>10, <1>14, <1>15 DEF Value
<1>21. ASSUME \A h \in E : f.r[h] * slope[h] * u[h] - t[h] <= den * (f.r[h] * c[h])
       PROVE  Value(g, u) <= den * Value(f, c)
  <2>1. \A h \in E : e[h] <= m[h]
    BY <1>1, <1>11, <1>21
  <2> QED BY <1>14, <1>15, <1>16, <1>17, <1>18, <1>20, <2>1
<1>22. ASSUME \A h \in E : den * (f.r[h] * c[h]) <= f.r[h] * slope[h] * u[h] - t[h]
       PROVE  den * Value(f, c) <= Value(g, u)
  <2>1. \A h \in E : m[h] <= e[h]
    BY <1>1, <1>11, <1>22
  <2> QED BY <1>14, <1>15, <1>16, <1>17, <1>19, <1>20, <2>1
<1> QED BY <1>3, <1>7, <1>20, <1>21, <1>22

\* The arithmetic of one neuron: at a point of its interval the secant of a
\* relu is not below it.
LEMMA SecantIsAbove ==
  ASSUME NEW l \in Int, NEW h \in Int, NEW x \in Int, l < 0, h > 0, l <= x, x <= h,
         NEW y \in Int, y = IF x > 0 THEN x ELSE 0
  PROVE  (h - l) * y <= h * (x - l)
<1>1. CASE x > 0
  <2>1. l * h <= l * x
    BY <1>1
  <2>2. (h - l) * x = h * x - l * x /\ h * (x - l) = h * x - h * l /\ h * l = l * h
    OBVIOUS
  <2> QED BY <1>1, <2>1, <2>2
<1>2. CASE ~(x > 0)
  <2>1. 0 <= h * (x - l)
    OBVIOUS
  <2>2. (h - l) * 0 = 0
    OBVIOUS
  <2> QED BY <1>2, <2>1, <2>2
<1> QED BY <1>1, <1>2

\* A step backwards through a relu only lowers the bound.
LEMMA ReluStepIsSound ==
  ASSUME NEW E, IsFiniteSet(E), NEW f, IsLinear(f, E), NEW g, NEW box, IsBox(box, E),
         NEW den, NEW slope, NEW t, ReluStep(f, g, box.lo, box.hi, E, den, slope, t),
         NEW v, InBox(v, box, E)
  PROVE  Value(g, v) <= den * Value(f, Relu(v)) /\ Relu(v) \in [E -> Int]
<1>1. PICK r, lo, hi \in [E -> Int] : /\ r = f.r /\ lo = box.lo /\ hi = box.hi
                                      /\ \A h \in E : lo[h] <= hi[h]
  BY DEF IsLinear, IsBox
<1>2. v \in [E -> Int] /\ \A h \in E : lo[h] <= v[h] /\ v[h] <= hi[h]
  BY <1>1 DEF InBox
<1>3. PICK c : c = Relu(v)
  OBVIOUS
<1>4. c \in [E -> Int] /\ \A h \in E : c[h] = IF v[h] > 0 THEN v[h] ELSE 0
  BY <1>2, <1>3 DEF Relu
<1>5. ASSUME NEW h \in E
      PROVE  r[h] * slope[h] * v[h] - t[h] <= den * (r[h] * c[h])
  <2>1. PICK a, l, u, x, y, s, d \in Int :
          /\ a = r[h] /\ l = lo[h] /\ u = hi[h] /\ x = v[h] /\ y = c[h]
          /\ s = slope[h] /\ d = den /\ l <= x /\ x <= u /\ d > 0
          /\ y = IF x > 0 THEN x ELSE 0
    BY <1>2, <1>4 DEF ReluStep
  <2>2. \/ l >= 0 /\ s = d /\ t[h] = 0
        \/ /\ l < 0 /\ u > 0 /\ a < 0 /\ t[h] = a * s * l
           /\ \E q \in Int : q > 0 /\ d = (u - l) * q /\ s = u * q
        \/ l < 0 /\ (u <= 0 \/ a >= 0) /\ s = 0 /\ t[h] = 0
    BY <1>1, <2>1 DEF ReluStep
  <2>3. CASE l >= 0 /\ s = d /\ t[h] = 0
    <3>1. y = x
      BY <2>1, <2>3
    <3>2. a * d * x = d * (a * x) /\ a * d * x \in Int
      OBVIOUS
    <3> QED BY <2>1, <2>3, <3>1, <3>2
  <2>4. CASE /\ l < 0 /\ u > 0 /\ a < 0 /\ t[h] = a * s * l
             /\ \E q \in Int : q > 0 /\ d = (u - l) * q /\ s = u * q
    <3>1. PICK q \in Int : q > 0 /\ d = (u - l) * q /\ s = u * q
      BY <2>4
    <3>2. (u - l) * y <= u * (x - l)
      BY <2>1, <2>4, SecantIsAbove
    <3>3. PICK m, n \in Int : m = (u - l) * y /\ n = u * (x - l) /\ m <= n
      BY <3>2
    <3>4. (a * q) * n <= (a * q) * m
      <4>1. a * q < 0
        BY <2>4, <3>1
      <4> QED BY <3>3, <4>1
    <3>5. a * (u * q) * x - a * (u * q) * l = (a * q) * (u * (x - l))
      OBVIOUS
    <3>6. ((u - l) * q) * (a * y) = (a * q) * ((u - l) * y)
      OBVIOUS
    <3> QED BY <2>1, <2>4, <3>1, <3>3, <3>4, <3>5, <3>6
  <2>5. CASE l < 0 /\ (u <= 0 \/ a >= 0) /\ s = 0 /\ t[h] = 0
    <3>1. y >= 0 /\ (u <= 0 => y = 0)
      BY <2>1
    <3>2. a * y >= 0
      BY <2>5, <3>1
    <3>3. d * (a * y) >= 0
      BY <2>1, <3>2
    <3>4. a * 0 * x = 0
      OBVIOUS
    <3> QED BY <2>1, <2>5, <3>3, <3>4
  <2> QED BY <2>2, <2>3, <2>4, <2>5
<1>6. \A h \in E : f.r[h] * slope[h] * v[h] - t[h] <= den * (f.r[h] * c[h])
  BY <1>1, <1>5
<1>7. Value(g, v) <= den * Value(f, c)
  BY <1>2, <1>4, <1>6, ReluStepCompares
<1> QED BY <1>3, <1>4, <1>7

\* The least value over a box.
LeastValue(f, box, D) == Lower(f.r, box.lo, box.hi, D) + f.bias

\* With these slopes it keeps the bound of interval propagation.
LEMMA ReluStepIsTight ==
  ASSUME NEW E, IsFiniteSet(E), NEW f, IsLinear(f, E), NEW g, NEW box, IsBox(box, E),
         NEW den, NEW slope, NEW t, ReluStep(f, g, box.lo, box.hi, E, den, slope, t)
  PROVE  den * LeastValue(f, ReluBox(box), E) <= LeastValue(g, box, E)
<1>1. PICK r, lo, hi \in [E -> Int] : /\ r = f.r /\ lo = box.lo /\ hi = box.hi
                                      /\ \A h \in E : lo[h] <= hi[h]
  BY DEF IsLinear, IsBox
<1>2. PICK u, c, gr : /\ u = Corner(g.r, lo, hi, E) /\ gr = g.r
                      /\ c = Corner(r, ReluBox(box).lo, ReluBox(box).hi, E)
  OBVIOUS
<1>3. gr = [h \in E |-> r[h] * slope[h]] /\ slope \in [E -> Int]
      /\ den \in Int /\ den > 0
  BY <1>1, <1>2 DEF ReluStep
<1>4. /\ u \in [E -> Int]
      /\ \A h \in E : u[h] = IF r[h] * slope[h] >= 0 THEN lo[h] ELSE hi[h]
  BY <1>1, <1>2, <1>3 DEF Corner
<1>5. /\ c \in [E -> Int]
      /\ \A h \in E : c[h] = IF r[h] >= 0 THEN IF lo[h] > 0 THEN lo[h] ELSE 0
                                          ELSE IF hi[h] > 0 THEN hi[h] ELSE 0
  <2>1. /\ ReluBox(box).lo = [h \in E |-> IF lo[h] > 0 THEN lo[h] ELSE 0]
        /\ ReluBox(box).hi = [h \in E |-> IF hi[h] > 0 THEN hi[h] ELSE 0]
    BY <1>1 DEF ReluBox, Relu
  <2> QED BY <1>1, <1>2, <2>1 DEF Corner
<1>6. ASSUME NEW h \in E
      PROVE  den * (r[h] * c[h]) <= r[h] * slope[h] * u[h] - t[h]
  <2>1. PICK a, l, w, s, d, x, y \in Int :
          /\ a = r[h] /\ l = lo[h] /\ w = hi[h] /\ s = slope[h] /\ d = den
          /\ x = u[h] /\ y = c[h]
    BY <1>3, <1>4, <1>5
  <2>2. /\ a = r[h] /\ l = lo[h] /\ w = hi[h] /\ s = slope[h] /\ d = den
        /\ x = u[h] /\ y = c[h] /\ l <= w /\ d > 0
        /\ x = IF a * s >= 0 THEN l ELSE w
        /\ y = IF a >= 0 THEN IF l > 0 THEN l ELSE 0 ELSE IF w > 0 THEN w ELSE 0
    BY <1>1, <1>3, <1>4, <1>5, <2>1
  <2>3. \/ l >= 0 /\ s = d /\ t[h] = 0
        \/ /\ l < 0 /\ w > 0 /\ a < 0 /\ t[h] = a * s * l
           /\ \E q \in Int : q > 0 /\ d = (w - l) * q /\ s = w * q
        \/ l < 0 /\ (w <= 0 \/ a >= 0) /\ s = 0 /\ t[h] = 0
    BY <1>1, <2>2 DEF ReluStep
  <2>4. CASE l >= 0 /\ s = d /\ t[h] = 0
    <3>1. a >= 0 <=> a * s >= 0
      BY <2>2, <2>4
    <3>2. y = x
      BY <2>2, <2>4, <3>1
    <3>3. a * d * x = d * (a * x) /\ a * d * x \in Int
      OBVIOUS
    <3> QED BY <2>2, <2>4, <3>2, <3>3
  <2>5. CASE /\ l < 0 /\ w > 0 /\ a < 0 /\ t[h] = a * s * l
             /\ \E q \in Int : q > 0 /\ d = (w - l) * q /\ s = w * q
    <3>1. PICK q \in Int : q > 0 /\ d = (w - l) * q /\ s = w * q
      BY <2>5
    <3>2. w * q > 0
      BY <2>5, <3>1
    <3>3. a * (w * q) < 0
      BY <2>5, <3>2
    <3>4. x = w /\ y = w
      BY <2>2, <2>5, <3>1, <3>3
    <3>5. a * (w * q) * w - a * (w * q) * l = ((w - l) * q) * (a * w)
      OBVIOUS
    <3>6. ((w - l) * q) * (a * w) \in Int
      OBVIOUS
    <3>7. den * (r[h] * c[h]) = ((w - l) * q) * (a * w)
      BY <2>2, <3>1, <3>4
    <3>8. r[h] * slope[h] * u[h] - t[h] = a * (w * q) * w - a * (w * q) * l
      BY <2>2, <2>5, <3>1, <3>4
    <3> QED BY <3>5, <3>6, <3>7, <3>8
  <2>6. CASE l < 0 /\ (w <= 0 \/ a >= 0) /\ s = 0 /\ t[h] = 0
    <3>1. y = 0
      BY <2>2, <2>6
    <3>2. a * 0 * x = 0 /\ d * (a * 0) = 0
      OBVIOUS
    <3> QED BY <2>2, <2>6, <3>1, <3>2
  <2> QED BY <2>3, <2>4, <2>5, <2>6
<1>7. \A h \in E : den * (f.r[h] * c[h]) <= f.r[h] * slope[h] * u[h] - t[h]
  BY <1>1, <1>6
<1>8. den * Value(f, c) <= Value(g, u)
  BY <1>4, <1>5, <1>7, ReluStepCompares
<1>9. /\ Value(f, c) = LeastValue(f, ReluBox(box), E)
      /\ Value(g, u) = LeastValue(g, box, E)
  BY <1>1, <1>2 DEF Value, LeastValue, Lower
<1> QED BY <1>8, <1>9

\* Where the function does not change, the box only gets wider.
LEMMA StepIsTight ==
  ASSUME NEW D, IsFiniteSet(D), NEW E, IsFiniteSet(E),
         NEW f, IsLinear(f, E), NEW b2, IsBox(b2, E), NEW g, IsLinear(g, D),
         NEW b1, IsBox(b1, D), NEW y, InBox(y, b2, E),
         Value(g, Corner(g.r, b1.lo, b1.hi, D)) = Value(f, y)
  PROVE  /\ LeastValue(f, b2, E) <= LeastValue(g, b1, D)
         /\ LeastValue(f, b2, E) \in Int /\ LeastValue(g, b1, D) \in Int
<1>1. PICK r \in [E -> Int], s \in [D -> Int] :
        r = f.r /\ s = g.r /\ f.bias \in Int /\ g.bias \in Int
  BY DEF IsLinear
<1>2. PICK m, d \in Int : m = Lower(r, b2.lo, b2.hi, E) /\ d = Dot(r, y) /\ m <= d
  BY CornersBound
<1>3. PICK u : u = Corner(s, b1.lo, b1.hi, D)
  OBVIOUS
<1>4. InBox(b1.lo, b1, D)
  BY DEF IsBox, InBox
<1>5. Lower(s, b1.lo, b1.hi, D) \in Int
  BY <1>4, CornersBound
<1>6. LeastValue(g, b1, D) = Value(g, u) /\ LeastValue(g, b1, D) \in Int
  BY <1>1, <1>3, <1>5 DEF LeastValue, Lower, Value
<1>7. LeastValue(f, b2, E) = m + f.bias /\ Value(f, y) = d + f.bias
  BY <1>1, <1>2 DEF LeastValue, Value
<1> QED BY <1>1, <1>2, <1>3, <1>6, <1>7

LEMMA LeastIsLeast ==
  ASSUME NEW D, IsFiniteSet(D), NEW f, IsLinear(f, D), NEW box, IsBox(box, D),
         NEW v, InBox(v, box, D)
  PROVE  /\ LeastValue(f, box, D) <= Value(f, v)
         /\ LeastValue(f, box, D) \in Int /\ Value(f, v) \in Int
<1>1. PICK r \in [D -> Int], b \in Int : r = f.r /\ b = f.bias
  BY DEF IsLinear
<1>2. PICK m, d \in Int : m = Lower(r, box.lo, box.hi, D) /\ d = Dot(r, v) /\ m <= d
  BY CornersBound
<1> QED BY <1>1, <1>2 DEF LeastValue, Value

\* The function to begin with is the margin.
LEMMA MarginIsLinear ==
  ASSUME NEW k \in Classes, NEW f,
         f = [r |-> [o \in Classes |-> IF o = k THEN 1 ELSE IF o = 1 - k THEN -1 ELSE 0],
              bias |-> 0, den |-> 1]
  PROVE  /\ IsLinear(f, Classes) /\ f.den = 1
         /\ \A z \in [Classes -> Int] : Value(f, z) = z[k] - z[1 - k]
<1>1. PICK r \in [Classes -> Int] :
        r = f.r /\ r[k] = 1 /\ r[1 - k] = -1 /\ f.bias = 0 /\ f.den = 1
  BY DEF Classes
<1>2. Classes = {k, 1 - k} /\ k # 1 - k /\ 1 - k \in Classes
  BY DEF Classes
<1>3. IsFiniteSet(Classes) /\ IsFiniteSet(Classes \ {k})
  <2>1. IsFiniteSet({k}) /\ IsFiniteSet({1 - k})
    BY FS_Singleton, Zenon
  <2>2. Classes = {k} \cup {1 - k} /\ Classes \ {k} = {1 - k}
    BY <1>2
  <2>3. IsFiniteSet({k} \cup {1 - k})
    BY <2>1, FS_Union
  <2> QED BY <2>1, <2>2, <2>3, Zenon
<1>4. ASSUME NEW z \in [Classes -> Int] PROVE Value(f, z) = z[k] - z[1 - k]
  <2>1. PICK t : t = [o \in Classes |-> r[o] * z[o]]
    OBVIOUS
  <2>2. Dot(r, z) = SumFunction(t) /\ DOMAIN t = Classes
    BY <2>1 DEF Dot
  <2>3. SumFunction(t) = Sum(t, Classes)
    BY <2>2, TotalIsSum
  <2>4. \A o \in Classes : t[o] \in Int
    BY <2>1
  <2>5. PICK p : p = Classes \ {k}
    OBVIOUS
  <2>6. Sum(t, Classes) = t[k] + Sum(t, p) /\ Sum(t, p) \in Int
    BY <1>3, <2>4, <2>5, SumTakes
  <2>7. Sum(t, p) = t[1 - k] + Sum(t, p \ {1 - k})
    <3>1. IsFiniteSet(p) /\ 1 - k \in p /\ \A o \in p : t[o] \in Int
      BY <1>2, <1>3, <2>4, <2>5
    <3> QED BY <3>1, SumTakes
  <2>8. p \ {1 - k} = {}
    BY <1>2, <2>5
  <2>9. Sum(t, {}) = 0
    BY EmptyFolds
  <2>10. t[k] = z[k] /\ t[1 - k] = -z[1 - k] /\ z[k] \in Int /\ z[1 - k] \in Int
    <3>1. PICK x, y \in Int : x = z[k] /\ y = z[1 - k]
      BY <1>2
    <3>2. t[k] = 1 * x /\ t[1 - k] = (-1) * y
      BY <1>1, <1>2, <2>1, <3>1
    <3> QED BY <3>1, <3>2
  <2>11. Sum(t, p) = t[1 - k] + 0
    BY <2>7, <2>8, <2>9
  <2>12. Dot(r, z) = z[k] - z[1 - k]
    BY <2>2, <2>3, <2>6, <2>10, <2>11
  <2> QED BY <1>1, <2>10, <2>12 DEF Value
<1> QED BY <1>1, <1>4 DEF IsLinear

\* CROWN is a lower bound of the margin, and not below interval propagation.
LEMMA CrownIsSoundAndTight ==
  ASSUME NEW net, IsNetwork(net), IsFiniteSet(Inputs), NEW box, IsBox(box, Inputs),
         NEW k \in Classes, NEW x, InBox(x, box, Inputs),
         NEW crown, crown = crown_margin_lower(net, x, box, k),
         NEW ibp, ibp = ibp_margin_lower_bounds(net, box, k)
  PROVE  /\ crown.num \in Int /\ crown.den \in Int /\ crown.den > 0
         /\ ibp * crown.den <= crown.num
         /\ \A v : InBox(v, box, Inputs) => crown.num <= crown.den * Margin(net, v, k)
<1> DEFINE H1 == DOMAIN net.w1
           H2 == DOMAIN net.w2
<1>1. /\ IsFiniteSet(H1) /\ IsFiniteSet(H2) /\ IsFiniteSet(Classes)
      /\ net.w1 \in [H1 -> [Inputs -> Int]] /\ net.b1 \in [H1 -> Int]
      /\ net.gam \in [H1 -> Int] /\ net.bet \in [H1 -> Int]
      /\ net.w2 \in [H2 -> [H1 -> Int]] /\ net.b2 \in [H2 -> Int]
      /\ net.w3 \in [Classes -> [H2 -> Int]] /\ net.b3 \in [Classes -> Int]
  BY NetworkParts
<1>2. PICK bl, p1, a1, p2, a2, out :
        /\ bl = Affine(box, net.w1, net.b1)
        /\ p1 = PreRelu1(net, box) /\ a1 = ReluBox(p1)
        /\ p2 = PreRelu2(net, box) /\ a2 = ReluBox(p2) /\ out = Out(net, box)
  OBVIOUS
<1>3. /\ IsBox(bl, H1) /\ IsBox(p1, H1) /\ IsBox(a1, H1) /\ IsBox(p2, H2)
      /\ IsBox(a2, H2) /\ IsBox(out, Classes)
      /\ \A v : InBox(v, box, Inputs) =>
           /\ InBox(Linear(net.w1, net.b1, v), bl, H1) /\ InBox(Z1(net, v), p1, H1)
           /\ InBox(Relu(Z1(net, v)), a1, H1) /\ InBox(Z2(net, v), p2, H2)
           /\ InBox(Relu(Z2(net, v)), a2, H2) /\ InBox(Logits(net, v), out, Classes)
  BY <1>2, LayersStayInBoxes, Zenon
<1> HIDE DEF H1, H2
<1>4. PICK f0, f3, g3, f2, g2, n1, f1 :
        /\ f0 = [r |-> [o \in Classes |-> IF o = k THEN 1 ELSE IF o = 1 - k THEN -1 ELSE 0],
                 bias |-> 0, den |-> 1]
        /\ f3 = BackLinear(f0, net.w3, net.b3, H2) /\ g3 = crown_relu_backward(f3, p2)
        /\ f2 = BackLinear(g3, net.w2, net.b2, H1) /\ g2 = crown_relu_backward(f2, p1)
        /\ n1 = BackNorm(g2, net) /\ f1 = BackLinear(n1, net.w1, net.b1, Inputs)
  OBVIOUS
<1>5. /\ IsLinear(f0, Classes) /\ f0.den = 1
      /\ \A z \in [Classes -> Int] : Value(f0, z) = z[k] - z[1 - k]
  BY <1>4, MarginIsLinear
<1>6. /\ IsLinear(f3, H2) /\ f3.den = f0.den
      /\ \A v \in [H2 -> Int] : Value(f3, v) = Value(f0, Linear(net.w3, net.b3, v))
  <2>1. LinearStep(f3, f0, net.w3, net.b3, H2)
    BY <1>1, <1>4, <1>5, BackLinearIsExact
  <2> QED BY <2>1 DEF LinearStep
<1>7. PICK d3, s3, t3 : ReluStep(f3, g3, p2.lo, p2.hi, H2, d3, s3, t3)
  BY <1>1, <1>3, <1>4, <1>6, ReluStepExists
<1>8. d3 \in Int /\ d3 > 0 /\ g3.den = f3.den * d3
  BY <1>7 DEF ReluStep
<1>9. IsLinear(g3, H2)
  <2>1. PICK z : z = [h \in H2 |-> 0]
    OBVIOUS
  <2>2. z \in [H2 -> Int]
    BY <2>1
  <2> QED BY <1>1, <1>6, <1>7, <2>2, ReluStepCompares
<1>10. /\ IsLinear(f2, H1) /\ f2.den = g3.den
       /\ \A v \in [H1 -> Int] : Value(f2, v) = Value(g3, Linear(net.w2, net.b2, v))
  <2>1. LinearStep(f2, g3, net.w2, net.b2, H1)
    BY <1>1, <1>4, <1>9, BackLinearIsExact
  <2> QED BY <2>1 DEF LinearStep
<1>11. PICK d2, s2, t2 : ReluStep(f2, g2, p1.lo, p1.hi, H1, d2, s2, t2)
  BY <1>1, <1>3, <1>4, <1>10, ReluStepExists
<1>12. d2 \in Int /\ d2 > 0 /\ g2.den = f2.den * d2
  BY <1>11 DEF ReluStep
<1>13. IsLinear(g2, H1)
  <2>1. PICK z : z = [h \in H1 |-> 0]
    OBVIOUS
  <2>2. z \in [H1 -> Int]
    BY <2>1
  <2> QED BY <1>1, <1>10, <1>11, <2>2, ReluStepCompares
<1>14. /\ IsLinear(n1, H1) /\ n1.den = g2.den
       /\ \A v \in [H1 -> Int] : Value(n1, v) = Value(g2, Scaled(net, v))
  <2>1. NormStep(n1, g2, net, H1)
    BY <1>1, <1>4, <1>13, BackNormIsExact
  <2> QED BY <2>1 DEF NormStep
<1>15. /\ IsLinear(f1, Inputs) /\ f1.den = n1.den
       /\ \A v \in [Inputs -> Int] : Value(f1, v) = Value(n1, Linear(net.w1, net.b1, v))
  <2>1. LinearStep(f1, n1, net.w1, net.b1, Inputs)
    BY <1>1, <1>4, <1>14, BackLinearIsExact
  <2> QED BY <2>1 DEF LinearStep
<1>16. crown.den = d3 * d2 /\ d3 * d2 \in Int /\ d3 * d2 > 0
       /\ crown.num = LeastValue(f1, box, Inputs)
  <2>1. LargestBut(Logits(net, x), k) = 1 - k
    <3>1. PICK z \in [Classes -> Int] : z = Logits(net, x)
      BY <1>3 DEF InBox
    <3> QED BY <3>1, MarginIs
  <2>2. crown = [num |-> Affine(box, [f |-> f1.r], [f |-> f1.bias]).lo.f, den |-> f1.den]
    BY <1>2, <1>4, <2>1 DEF crown_margin_lower, H1, H2
  <2>3. PICK w, b, one : w = [f |-> f1.r] /\ b = [f |-> f1.bias] /\ one = {"f"}
    OBVIOUS
  <2>4. w \in [one -> [Inputs -> Int]] /\ b \in [one -> Int]
    BY <1>15, <2>3 DEF IsLinear
  <2>5. Affine(box, w, b).lo = [h \in one |-> b[h] + Lower(w[h], box.lo, box.hi, Inputs)]
    <3>1. TakesCorners(Affine(box, w, b), box, w, b, Inputs, one)
      BY <2>4, AffineIs
    <3> QED BY <3>1 DEF TakesCorners
  <2>6. Affine(box, w, b).lo.f = f1.bias + Lower(f1.r, box.lo, box.hi, Inputs)
    BY <2>3, <2>5
  <2>7. LeastValue(f1, box, Inputs) = f1.bias + Lower(f1.r, box.lo, box.hi, Inputs)
    <3>1. PICK r \in [Inputs -> Int], c \in Int : r = f1.r /\ c = f1.bias
      BY <1>15 DEF IsLinear
    <3>2. Lower(r, box.lo, box.hi, Inputs) \in Int
      BY CornersBound
    <3> QED BY <3>1, <3>2 DEF LeastValue
  <2>8. d3 * d2 \in Int /\ d3 * d2 > 0
    BY <1>8, <1>12
  <2>9. f1.den = (1 * d3) * d2
    BY <1>5, <1>6, <1>8, <1>10, <1>12, <1>14, <1>15
  <2> QED BY <1>8, <1>12, <2>2, <2>3, <2>6, <2>7, <2>8, <2>9
<1>17. ASSUME NEW v, InBox(v, box, Inputs)
       PROVE  crown.num <= crown.den * Margin(net, v, k)
  <2>1. PICK l1, z1, r1, z2, r2, z3 :
          /\ l1 = Linear(net.w1, net.b1, v) /\ z1 = Z1(net, v) /\ r1 = Relu(z1)
          /\ z2 = Z2(net, v) /\ r2 = Relu(z2) /\ z3 = Logits(net, v)
    OBVIOUS
  <2>2. /\ InBox(l1, bl, H1) /\ InBox(z1, p1, H1) /\ InBox(r1, a1, H1) /\ InBox(z2, p2, H2)
        /\ InBox(r2, a2, H2) /\ InBox(z3, out, Classes)
    BY <1>3, <1>17, <2>1
  <2>3. /\ v \in [Inputs -> Int] /\ l1 \in [H1 -> Int] /\ z1 \in [H1 -> Int]
        /\ r1 \in [H1 -> Int] /\ z2 \in [H2 -> Int] /\ r2 \in [H2 -> Int]
        /\ z3 \in [Classes -> Int]
    BY <1>17, <2>2 DEF InBox
  <2>4. /\ z1 = Scaled(net, l1) /\ z2 = Linear(net.w2, net.b2, r1)
        /\ z3 = Linear(net.w3, net.b3, r2)
    BY <2>1 DEF Z1, Z2, Logits
  <2>5. Value(f1, v) = Value(g2, z1)
    BY <1>14, <1>15, <2>1, <2>3, <2>4
  <2>6. Value(g2, z1) <= d2 * Value(f2, r1)
    BY <1>1, <1>3, <1>10, <1>11, <2>1, <2>2, ReluStepIsSound
  <2>7. Value(f2, r1) = Value(g3, z2)
    BY <1>10, <2>3, <2>4
  <2>8. Value(g3, z2) <= d3 * Value(f3, r2)
    BY <1>1, <1>3, <1>6, <1>7, <2>1, <2>2, ReluStepIsSound
  <2>9. Value(f3, r2) = Margin(net, v, k)
    <3>1. Value(f3, r2) = z3[k] - z3[1 - k]
      BY <1>5, <1>6, <2>3, <2>4
    <3>2. LargestBut(z3, k) = 1 - k
      BY <2>3, MarginIs
    <3> QED BY <2>1, <3>1, <3>2 DEF Margin
  <2>10. LeastValue(f1, box, Inputs) <= Value(f1, v)
    BY <1>15, <1>17, LeastIsLeast
  <2>11. /\ LeastValue(f1, box, Inputs) \in Int /\ Value(f1, v) \in Int
         /\ Value(g3, z2) \in Int /\ Value(f3, r2) \in Int
    <3>1. LeastValue(f1, box, Inputs) \in Int /\ Value(f1, v) \in Int
      BY <1>15, <1>17, LeastIsLeast
    <3>2. Value(g3, z2) \in Int
      BY <1>1, <1>3, <1>9, <2>2, LeastIsLeast
    <3>3. Value(f3, r2) \in Int
      BY <1>1, <1>3, <1>6, <2>2, LeastIsLeast
    <3> QED BY <3>1, <3>2, <3>3
  <2>12. PICK n, a, b, c \in Int :
           /\ n = LeastValue(f1, box, Inputs) /\ a = Value(f1, v)
           /\ b = Value(g3, z2) /\ c = Value(f3, r2)
    BY <2>11
  <2>13. n <= d2 * b /\ b <= d3 * c
    BY <1>8, <1>12, <2>5, <2>6, <2>7, <2>8, <2>10, <2>12
  <2>14. d2 * b <= d2 * (d3 * c) /\ d2 * (d3 * c) = (d3 * d2) * c
    BY <1>8, <1>12, <2>13
  <2>15. n <= (d3 * d2) * c
    BY <1>8, <1>12, <2>13, <2>14
  <2> QED BY <1>16, <2>9, <2>12, <2>15
<1>18. ibp * crown.den <= crown.num /\ crown.num \in Int
  <2>1. PICK l0, l3, m3, l2, m2, ln, l1 :
          /\ l0 = LeastValue(f0, out, Classes) /\ l3 = LeastValue(f3, a2, H2)
          /\ m3 = LeastValue(g3, p2, H2) /\ l2 = LeastValue(f2, a1, H1)
          /\ m2 = LeastValue(g2, p1, H1) /\ ln = LeastValue(n1, bl, H1)
          /\ l1 = LeastValue(f1, box, Inputs)
    OBVIOUS
  <2>2. l0 <= l3 /\ l0 \in Int /\ l3 \in Int
    <3>1. PICK u : u = Corner(f3.r, a2.lo, a2.hi, H2)
      OBVIOUS
    <3>2. InBox(u, a2, H2)
      BY <1>1, <1>3, <1>6, <3>1, CornerFacts DEF IsLinear
    <3>3. InBox(Linear(net.w3, net.b3, u), out, Classes)
      BY <1>1, <1>2, <1>3, <3>2, AffineFacts DEF Out
    <3>4. Value(f3, u) = Value(f0, Linear(net.w3, net.b3, u))
      BY <1>6, <3>2 DEF InBox
    <3> QED BY <1>1, <1>3, <1>5, <1>6, <2>1, <3>1, <3>3, <3>4, StepIsTight
  <2>3. m3 <= l2 /\ m3 \in Int /\ l2 \in Int
    <3>1. PICK u : u = Corner(f2.r, a1.lo, a1.hi, H1)
      OBVIOUS
    <3>2. InBox(u, a1, H1)
      BY <1>1, <1>3, <1>10, <3>1, CornerFacts DEF IsLinear
    <3>3. InBox(Linear(net.w2, net.b2, u), p2, H2)
      BY <1>1, <1>2, <1>3, <3>2, AffineFacts DEF PreRelu2
    <3>4. Value(f2, u) = Value(g3, Linear(net.w2, net.b2, u))
      BY <1>10, <3>2 DEF InBox
    <3> QED BY <1>1, <1>3, <1>9, <1>10, <2>1, <3>1, <3>3, <3>4, StepIsTight
  <2>4. m2 <= ln /\ m2 \in Int /\ ln \in Int
    <3>1. PICK u : u = Corner(n1.r, bl.lo, bl.hi, H1)
      OBVIOUS
    <3>2. InBox(u, bl, H1)
      BY <1>1, <1>3, <1>14, <3>1, CornerFacts DEF IsLinear
    <3>3. InBox(Scaled(net, u), p1, H1)
      BY <1>1, <1>2, <1>3, <3>2, NormFacts DEF PreRelu1
    <3>4. Value(n1, u) = Value(g2, Scaled(net, u))
      BY <1>14, <3>2 DEF InBox
    <3> QED BY <1>1, <1>3, <1>13, <1>14, <2>1, <3>1, <3>3, <3>4, StepIsTight
  <2>5. ln <= l1 /\ l1 \in Int
    <3>1. PICK u : u = Corner(f1.r, box.lo, box.hi, Inputs)
      OBVIOUS
    <3>2. InBox(u, box, Inputs)
      BY <1>15, <3>1, CornerFacts DEF IsLinear
    <3>3. InBox(Linear(net.w1, net.b1, u), bl, H1)
      BY <1>3, <3>2
    <3>4. Value(f1, u) = Value(n1, Linear(net.w1, net.b1, u))
      BY <1>15, <3>2 DEF InBox
    <3> QED BY <1>1, <1>3, <1>14, <1>15, <2>1, <3>1, <3>3, <3>4, StepIsTight
  <2>6. d3 * l3 <= m3
    BY <1>1, <1>2, <1>3, <1>6, <1>7, <2>1, ReluStepIsTight
  <2>7. d2 * l2 <= m2
    BY <1>1, <1>2, <1>3, <1>10, <1>11, <2>1, ReluStepIsTight
  <2>8. ibp = l0
    <3>1. PICK lo \in [Classes -> Int], hi \in [Classes -> Int] : lo = out.lo /\ hi = out.hi
      BY <1>3 DEF IsBox
    <3>2. PICK c : c = Corner(f0.r, lo, hi, Classes)
      OBVIOUS
    <3>3. f0.r[k] = 1 /\ f0.r[1 - k] = -1 /\ k \in Classes /\ 1 - k \in Classes
      BY <1>4 DEF Classes
    <3>4. c \in [Classes -> Int] /\ c[k] = lo[k] /\ c[1 - k] = hi[1 - k]
      BY <3>2, <3>3 DEF Corner
    <3>5. Value(f0, c) = lo[k] - hi[1 - k]
      BY <1>5, <3>4
    <3>6. LeastValue(f0, out, Classes) = Value(f0, c)
      BY <3>1, <3>2 DEF LeastValue, Value, Lower
    <3>7. ibp = lo[k] - hi[1 - k]
      BY <1>2, <1>3, <3>1, IbpIs
    <3> QED BY <2>1, <3>5, <3>6, <3>7
  <2>9. d3 * l0 <= d3 * l3 /\ d3 * l0 <= l2
    <3>1. d3 * l0 <= d3 * l3 /\ d3 * l0 \in Int /\ d3 * l3 \in Int
      BY <1>8, <2>2
    <3> QED BY <2>3, <2>6, <3>1
  <2>10. d2 * (d3 * l0) <= d2 * l2 /\ d2 * (d3 * l0) = l0 * (d3 * d2)
    <3>1. PICK e \in Int : e = d3 * l0 /\ e <= l2
      BY <1>8, <2>2, <2>9
    <3>2. d2 * e <= d2 * l2
      BY <1>12, <2>3, <3>1
    <3>3. d2 * (d3 * l0) = l0 * (d3 * d2)
      BY <1>8, <1>12, <2>2
    <3> QED BY <3>1, <3>2, <3>3
  <2>11. d2 * l2 \in Int /\ l0 * (d3 * d2) \in Int
    BY <1>8, <1>12, <2>2, <2>3
  <2>12. l0 * (d3 * d2) <= l1
    BY <2>4, <2>5, <2>7, <2>10, <2>11
  <2> QED BY <1>16, <2>1, <2>5, <2>8, <2>12
<1> QED BY <1>16, <1>17, <1>18

-----------------------------------------------------------------------------
(* Categorical states.                                                     *)

LEMMA ColumnsAre ==
  ASSUME NEW p \in GroupCols
  PROVE  p[1] \in Groups /\ p = <<p[1], p[2]>> /\ p[2] \in 1..Size[p[1]]
BY DEF GroupCols

\* One column of every group, and one only.
LEMMA OneHotIs ==
  ASSUME NEW s
  PROVE  s \in OneHotStates <=>
           /\ s \in SUBSET GroupCols
           /\ \A g \in Groups : \E p \in s : p[1] = g /\ \A q \in s : q[1] = g => q = p
<1>1. IsFiniteSet(GroupCols)
  BY NetsAssumption, InputsAreFinite
<1>2. ASSUME s \in SUBSET GroupCols, NEW g \in Groups
      PROVE  Cardinality({p \in s : p[1] = g}) = 1
               <=> \E p \in s : p[1] = g /\ \A q \in s : q[1] = g => q = p
  <2>1. PICK c : c = {p \in s : p[1] = g}
    OBVIOUS
  <2>2. c \in SUBSET GroupCols
    BY <1>2, <2>1
  <2>3. IsFiniteSet(c)
    BY <1>1, <2>2, FS_Subset
  <2>4. Cardinality(c) = 1 <=> \E x : c = {x}
    BY <2>3, FS_Singleton, Zenon
  <2>5. (\E x : c = {x}) <=> \E p \in s : p[1] = g /\ \A q \in s : q[1] = g => q = p
    BY <2>1
  <2> QED BY <2>1, <2>4, <2>5, Zenon
<1> QED BY <1>2 DEF OneHotStates

\* Flips of different groups keep a state one-hot, and it then differs from
\* the former in them at most.
LEMMA BuildIsOneHot ==
  ASSUME NEW s \in OneHotStates, NEW flips \in SUBSET GroupCols,
         \A p, q \in flips : p[1] = q[1] => p = q
  PROVE  /\ Build(s, flips) \in OneHotStates
         /\ Build(s, flips) \ s \in SUBSET flips
<1>1. PICK t : t = Build(s, flips)
  OBVIOUS
<1>2. /\ s \in SUBSET GroupCols
      /\ \A g \in Groups : \E p \in s : p[1] = g /\ \A q \in s : q[1] = g => q = p
  BY OneHotIs
<1>3. t = {p \in s : \A q \in flips : p[1] # q[1]} \cup flips
  BY <1>1 DEF Build
<1>4. ASSUME NEW g \in Groups
      PROVE  \E p \in t : p[1] = g /\ \A q \in t : q[1] = g => q = p
  <2>1. CASE \E p \in flips : p[1] = g
    BY <1>3, <2>1
  <2>2. CASE ~ \E p \in flips : p[1] = g
    <3>1. PICK p \in s : p[1] = g /\ \A q \in s : q[1] = g => q = p
      BY <1>2
    <3>2. p \in t
      BY <1>3, <2>2, <3>1
    <3> QED BY <1>3, <2>2, <3>1, <3>2
  <2> QED BY <2>1, <2>2
<1>5. t \in SUBSET GroupCols
  BY <1>2, <1>3
<1>6. t \in OneHotStates
  BY <1>4, <1>5, OneHotIs
<1> QED BY <1>1, <1>3, <1>6

\* Every state is the other one with the columns it differs in flipped.
LEMMA BuildReaches ==
  ASSUME NEW s \in OneHotStates, NEW t \in OneHotStates
  PROVE  /\ t = Build(s, t \ s) /\ t \ s \in SUBSET GroupCols
         /\ \A p, q \in t \ s : p[1] = q[1] => p = q
<1>1. /\ s \in SUBSET GroupCols /\ t \in SUBSET GroupCols
      /\ \A g \in Groups : \E p \in s : p[1] = g /\ \A q \in s : q[1] = g => q = p
      /\ \A g \in Groups : \E p \in t : p[1] = g /\ \A q \in t : q[1] = g => q = p
  BY OneHotIs
<1>2. \A p \in GroupCols : p[1] \in Groups
  BY ColumnsAre
<1>3. \A p, q \in t : p[1] = q[1] => p = q
  BY <1>1, <1>2
<1>4. \A p, q \in s : p[1] = q[1] => p = q
  BY <1>1, <1>2
<1>5. PICK d : d = t \ s
  OBVIOUS
<1>6. ASSUME NEW p \in t PROVE p \in Build(s, d)
  BY <1>3, <1>5 DEF Build
<1>7. ASSUME NEW p \in Build(s, d) PROVE p \in t
  <2>1. CASE p \in d
    BY <1>5, <2>1
  <2>2. CASE p \in s /\ \A q \in d : p[1] # q[1]
    <3>1. PICK r \in t : r[1] = p[1]
      BY <1>1, <1>2, <2>2
    <3>2. r \in s
      BY <1>5, <2>2, <3>1
    <3> QED BY <1>4, <2>2, <3>1, <3>2
  <2> QED BY <1>7, <2>1, <2>2 DEF Build
<1> QED BY <1>1, <1>3, <1>5, <1>6, <1>7

LEMMA BallIs ==
  ASSUME NEW s \in OneHotStates, NEW k
  PROVE  /\ s \in SUBSET GroupCols
         /\ Ball(s, k) \in SUBSET OneHotStates
         /\ \A t \in OneHotStates :
              IsFiniteSet(t) /\ IsFiniteSet(t \ s) /\ Cardinality(t \ s) \in Nat
         /\ \A t : t \in Ball(s, k) <=> t \in OneHotStates /\ Cardinality(t \ s) <= k
<1>1. IsFiniteSet(GroupCols) /\ OneHotStates \in SUBSET SUBSET GroupCols
  BY NetsAssumption, InputsAreFinite DEF OneHotStates
<1>2. ASSUME NEW t \in OneHotStates
      PROVE  IsFiniteSet(t) /\ IsFiniteSet(t \ s) /\ Cardinality(t \ s) \in Nat
  <2>1. t \in SUBSET GroupCols /\ t \ s \in SUBSET GroupCols
    BY <1>1
  <2>2. IsFiniteSet(t) /\ IsFiniteSet(t \ s)
    BY <1>1, <2>1, FS_Subset
  <2> QED BY <2>2, FS_CardinalityType
<1> QED BY <1>1, <1>2 DEF Ball

\* What an enumeration lists: sets of at most k columns of different groups.
LEMMA CandidatesAre ==
  ASSUME NEW k \in Nat, NEW c \in enumerate_candidates(k)
  PROVE  /\ c \in SUBSET GroupCols /\ IsFiniteSet(c) /\ Cardinality(c) <= k
         /\ \A p, q \in c : p[1] = q[1] => p = q
<1>1. \A x, y : /\ IsFiniteSet({}) /\ Cardinality({}) = 0
                /\ IsFiniteSet({x}) /\ Cardinality({x}) = 1
                /\ IsFiniteSet({x, y}) /\ Cardinality({x, y}) <= 2
  <2> TAKE x, y
  <2>1. IsFiniteSet({}) /\ Cardinality({}) = 0 /\ IsFiniteSet({x}) /\ Cardinality({x}) = 1
    BY FS_EmptySet, FS_Singleton, Zenon
  <2>2. {x, y} = {x} \cup {y}
    OBVIOUS
  <2>3. /\ IsFiniteSet({x} \cup {y})
        /\ Cardinality({x} \cup {y}) = IF y \in {x} THEN Cardinality({x}) ELSE Cardinality({x}) + 1
    BY <2>1, FS_AddElement
  <2>4. Cardinality({x, y}) <= 2
    BY <2>1, <2>2, <2>3
  <2> QED BY <2>1, <2>2, <2>3, <2>4, Zenon
<1>2. CASE c = {}
  <2>1. IsFiniteSet({}) /\ Cardinality({}) = 0
    BY <1>1, Zenon
  <2>2. IsFiniteSet(c) /\ Cardinality(c) = 0
    BY <1>2, <2>1, Zenon
  <2> QED BY <1>2, <2>2
<1>3. CASE k >= 1 /\ \E p \in GroupCols : c = {p}
  <2>1. PICK p \in GroupCols : c = {p}
    BY <1>3
  <2> QED BY <1>1, <1>3, <2>1
<1>4. CASE k >= 2 /\ \E p, q \in GroupCols : c = {p, q} /\ p[1] < q[1]
  <2>1. PICK p \in GroupCols, q \in GroupCols : c = {p, q} /\ p[1] < q[1]
    BY <1>4
  <2>2. p[1] \in Groups /\ q[1] \in Groups /\ Groups \in SUBSET Nat
    BY ColumnsAre DEF Groups
  <2>3. p[1] # q[1]
    <3>1. \A n \in Nat : ~(n < n)
      OBVIOUS
    <3>2. p[1] \in Nat
      BY <2>2
    <3> QED BY <2>1, <3>1, <3>2, Zenon
  <2>4. IsFiniteSet(c) /\ Cardinality(c) \in Nat /\ Cardinality(c) <= 2
    BY <1>1, <2>1, FS_CardinalityType
  <2> QED BY <1>4, <2>1, <2>3, <2>4
<1>5. \/ c = {}
      \/ k >= 1 /\ \E p \in GroupCols : c = {p}
      \/ k >= 2 /\ \E p, q \in GroupCols : c = {p, q} /\ p[1] < q[1]
  BY DEF enumerate_candidates
<1> QED BY <1>2, <1>3, <1>4, <1>5

\* And for up to two changes all of them.
LEMMA CandidatesAreAll ==
  ASSUME NEW k \in {0, 1, 2}, NEW c \in SUBSET GroupCols, IsFiniteSet(c),
         Cardinality(c) <= k, \A p, q \in c : p[1] = q[1] => p = q
  PROVE  c \in enumerate_candidates(k)
<1>1. Cardinality(c) \in Nat
  BY FS_CardinalityType
<1>2. CASE c = {}
  BY <1>2 DEF enumerate_candidates
<1>3. ASSUME NEW p \in c PROVE c \in enumerate_candidates(k)
  <2>1. Cardinality(c) # 0
    BY FS_EmptySet
  <2>2. k >= 1
    BY <1>1, <2>1
  <2>3. PICK r : r = c \ {p}
    OBVIOUS
  <2>4. IsFiniteSet(r) /\ Cardinality(r) = Cardinality(c) - 1 /\ Cardinality(r) \in Nat
    BY <2>3, FS_RemoveElement, FS_CardinalityType
  <2>5. CASE r = {}
    <3>1. c = {p}
      BY <2>3, <2>5
    <3> QED BY <2>2, <3>1 DEF enumerate_candidates
  <2>6. ASSUME NEW q \in r PROVE c \in enumerate_candidates(k)
    <3>1. Cardinality(r) # 0
      BY <2>4, FS_EmptySet
    <3>2. k = 2 /\ Cardinality(r) = 1
      BY <1>1, <2>4, <3>1
    <3>3. r = {q}
      <4>1. \E x : r = {x}
        BY <2>4, <3>2, FS_Singleton, Zenon
      <4> QED BY <4>1
    <3>4. c = {p, q} /\ p # q
      BY <2>3, <3>3
    <3>5. p[1] \in Nat /\ q[1] \in Nat
      <4>1. p \in GroupCols /\ q \in GroupCols /\ Groups \in SUBSET Nat
        BY <3>4 DEF Groups
      <4> QED BY <4>1, ColumnsAre
    <3>6. p[1] < q[1] \/ q[1] < p[1]
      BY <3>4, <3>5
    <3>7. p \in GroupCols /\ q \in GroupCols
      BY <3>4
    <3>8. ASSUME NEW x \in GroupCols, NEW y \in GroupCols, x[1] < y[1], c = {x, y}
          PROVE  c \in enumerate_candidates(k)
      <4>1. <<x, y>> \in GroupCols \X GroupCols
        OBVIOUS
      <4>2. <<x, y>> \in {pq \in GroupCols \X GroupCols : k >= 2 /\ pq[1][1] < pq[2][1]}
        BY <3>2, <3>8, <4>1
      <4> QED BY <3>8, <4>2 DEF enumerate_candidates
    <3>9. c = {q, p}
      BY <3>4
    <3> QED BY <3>4, <3>6, <3>7, <3>8, <3>9
  <2> QED BY <2>5, <2>6
<1> QED BY <1>2, <1>3

\* The states the enumeration leads to are those of the threat model.
LEMMA EnumerationReachesTheBall ==
  ASSUME NEW s \in OneHotStates, NEW k \in Nat
  PROVE  /\ \A c \in enumerate_candidates(k) : Build(s, c) \in Ball(s, k)
         /\ k <= 2 => \A t \in Ball(s, k) :
                        t \ s \in enumerate_candidates(k) /\ t = Build(s, t \ s)
<1>1. ASSUME NEW c \in enumerate_candidates(k) PROVE Build(s, c) \in Ball(s, k)
  <2>1. /\ c \in SUBSET GroupCols /\ IsFiniteSet(c) /\ Cardinality(c) <= k
        /\ \A p, q \in c : p[1] = q[1] => p = q
    BY CandidatesAre
  <2>2. Build(s, c) \in OneHotStates /\ Build(s, c) \ s \in SUBSET c
    BY <2>1, BuildIsOneHot
  <2>3. Cardinality(Build(s, c) \ s) <= Cardinality(c)
    BY <2>1, <2>2, FS_Subset
  <2>4. Cardinality(c) \in Nat /\ Cardinality(Build(s, c) \ s) \in Nat
    BY <2>1, <2>2, BallIs, FS_CardinalityType
  <2> QED BY <2>1, <2>2, <2>3, <2>4, BallIs
<1>2. ASSUME k <= 2, NEW t \in Ball(s, k)
      PROVE  t \ s \in enumerate_candidates(k) /\ t = Build(s, t \ s)
  <2>1. t \in OneHotStates /\ Cardinality(t \ s) <= k /\ IsFiniteSet(t \ s)
    BY BallIs
  <2>2. /\ t = Build(s, t \ s) /\ t \ s \in SUBSET GroupCols
        /\ \A p, q \in t \ s : p[1] = q[1] => p = q
    BY <2>1, BuildReaches
  <2>3. k \in {0, 1, 2}
    BY <1>2
  <2> QED BY <2>1, <2>2, <2>3, CandidatesAreAll
<1> QED BY <1>1, <1>2

\* The box of a state holds every point an attack can find in it, and the
\* unperturbed one is among them.
LEMMA PointsAreInTheBox ==
  ASSUME NEW net \in Nets, NEW m \in Rows(net), NEW s \in OneHotStates
  PROVE  /\ IsNetwork(m.net) /\ m.label \in Classes /\ m.row \in OneHotStates
         /\ IsBox(Box(m, s), Inputs)
         /\ Point(m.x, s) \in Perturbed(m, s)
         /\ \A v \in Perturbed(m, s) : InBox(v, Box(m, s), Inputs)
<1>1. /\ m.net \in Nets /\ m.label \in Classes /\ m.row \in OneHotStates
      /\ m.x \in [1..NumCont -> 0..One]
  BY DEF Rows
<1>2. NumCont \in Nat /\ One \in Nat /\ Epsilon \in Nat /\ IsNetwork(m.net)
  BY <1>1, NetsAssumption
<1>3. PICK x, lo, hi : x = m.x /\ lo = Least(m.x) /\ hi = Most(m.x)
  OBVIOUS
<1>4. /\ x \in [1..NumCont -> 0..One]
      /\ lo = [c \in 1..NumCont |-> IF x[c] < Epsilon THEN 0 ELSE x[c] - Epsilon]
      /\ hi = [c \in 1..NumCont |-> IF x[c] + Epsilon > One THEN One ELSE x[c] + Epsilon]
  BY <1>1, <1>3 DEF Least, Most
<1>5. \A c \in 1..NumCont : /\ x[c] \in 0..One /\ lo[c] \in 0..One /\ hi[c] \in 0..One
                            /\ lo[c] <= x[c] /\ x[c] <= hi[c]
  BY <1>2, <1>4
<1>6. /\ lo \in [1..NumCont -> 0..One] /\ hi \in [1..NumCont -> 0..One]
  BY <1>4, <1>5
<1>7. \A j \in Inputs : (j[1] = 0 /\ j[2] \in 1..NumCont) \/ j[1] # 0
  <2>1. \A j \in GroupCols : j[1] # 0
    BY ColumnsAre DEF Groups
  <2> QED BY <2>1 DEF Inputs, ContCols
<1>8. ASSUME NEW y \in [1..NumCont -> 0..One], \A c \in 1..NumCont : y[c] \in lo[c]..hi[c]
      PROVE  /\ Point(y, s) \in [Inputs -> Int]
             /\ \A j \in Inputs : /\ Point(lo, s)[j] <= Point(y, s)[j]
                                  /\ Point(y, s)[j] <= Point(hi, s)[j]
  <2>1. ASSUME NEW j \in Inputs
        PROVE  /\ Point(y, s)[j] \in Int
               /\ Point(lo, s)[j] <= Point(y, s)[j]
               /\ Point(y, s)[j] <= Point(hi, s)[j]
    <3>1. CASE j[1] = 0
      <4>1. j[2] \in 1..NumCont
        BY <1>7, <3>1
      <4>2. /\ Point(y, s)[j] = y[j[2]] /\ Point(lo, s)[j] = lo[j[2]]
            /\ Point(hi, s)[j] = hi[j[2]]
        BY <3>1 DEF Point
      <4>3. y[j[2]] \in lo[j[2]]..hi[j[2]] /\ lo[j[2]] \in Int /\ hi[j[2]] \in Int
        BY <1>5, <1>8, <4>1
      <4> QED BY <4>2, <4>3
    <3>2. CASE j[1] # 0
      <4>1. /\ Point(y, s)[j] = IF j \in s THEN One ELSE 0
            /\ Point(lo, s)[j] = IF j \in s THEN One ELSE 0
            /\ Point(hi, s)[j] = IF j \in s THEN One ELSE 0
        BY <3>2 DEF Point
      <4> QED BY <1>2, <4>1
    <3> QED BY <3>1, <3>2
  <2>2. Point(y, s) = [j \in Inputs |-> Point(y, s)[j]]
    BY DEF Point
  <2> QED BY <2>1, <2>2
<1>9. Box(m, s) = [lo |-> Point(lo, s), hi |-> Point(hi, s)]
  BY <1>3 DEF Box
<1>10. Perturbed(m, s) = {Point(y, s) : y \in {y \in [1..NumCont -> 0..One] :
                                            \A c \in 1..NumCont : y[c] \in lo[c]..hi[c]}}
  BY <1>3 DEF Perturbed
<1>11. IsBox(Box(m, s), Inputs)
  <2>1. /\ \A c \in 1..NumCont : lo[c] \in lo[c]..hi[c]
        /\ \A c \in 1..NumCont : hi[c] \in lo[c]..hi[c]
    BY <1>2, <1>5
  <2>2. /\ Point(lo, s) \in [Inputs -> Int] /\ Point(hi, s) \in [Inputs -> Int]
        /\ \A j \in Inputs : Point(lo, s)[j] <= Point(hi, s)[j]
    BY <1>6, <1>8, <2>1
  <2> QED BY <1>9, <2>2 DEF IsBox
<1>12. Point(m.x, s) \in Perturbed(m, s)
  <2>1. \A c \in 1..NumCont : x[c] \in lo[c]..hi[c]
    BY <1>2, <1>5
  <2> QED BY <1>3, <1>4, <1>10, <2>1
<1>13. ASSUME NEW v \in Perturbed(m, s) PROVE InBox(v, Box(m, s), Inputs)
  <2>1. PICK y \in [1..NumCont -> 0..One] :
          v = Point(y, s) /\ \A c \in 1..NumCont : y[c] \in lo[c]..hi[c]
    BY <1>10
  <2>2. PICK b, c : b = Point(lo, s) /\ c = Point(hi, s)
    OBVIOUS
  <2>3. v \in [Inputs -> Int] /\ \A j \in Inputs : b[j] <= v[j] /\ v[j] <= c[j]
    BY <1>8, <2>1, <2>2
  <2>4. Box(m, s).lo = b /\ Box(m, s).hi = c
    BY <1>9, <2>2
  <2> QED BY <2>3, <2>4 DEF InBox
<1> QED BY <1>1, <1>2, <1>11, <1>12, <1>13

\* What is known of the margins an attack can end with, and of the bounds.
LEMMA MarginsAre ==
  ASSUME NEW net \in Nets, NEW m \in Rows(net), NEW s \in OneHotStates,
         NEW ibp, ibp = ibp_margin_lower_bounds(m.net, Box(m, s), m.label),
         NEW crown, crown = crown_margin_lower(m.net, Point(m.x, s), Box(m, s), m.label)
  PROVE  /\ Margins(m, s) \in SUBSET Int /\ CleanMargin(m, s) \in Margins(m, s)
         /\ ibp \in Int /\ crown.num \in Int /\ crown.den \in Int /\ crown.den > 0
         /\ ibp * crown.den <= crown.num
         /\ \A n \in Margins(m, s) : ibp <= n /\ crown.num <= crown.den * n
<1>1. /\ IsNetwork(m.net) /\ m.label \in Classes /\ IsBox(Box(m, s), Inputs)
      /\ Point(m.x, s) \in Perturbed(m, s)
      /\ \A v \in Perturbed(m, s) : InBox(v, Box(m, s), Inputs)
  BY PointsAreInTheBox
<1>2. IsFiniteSet(Inputs)
  BY NetsAssumption, InputsAreFinite
<1>3. CleanMargin(m, s) \in Margins(m, s)
  BY <1>1 DEF CleanMargin, Margins
<1>4. ASSUME NEW n \in Margins(m, s)
      PROVE  n \in Int /\ ibp \in Int /\ ibp <= n /\ crown.num <= crown.den * n
  <2>1. PICK v \in Perturbed(m, s) : n = Margin(m.net, v, m.label)
    BY DEF Margins
  <2>2. InBox(v, Box(m, s), Inputs)
    BY <1>1
  <2>3. n \in Int /\ ibp \in Int /\ ibp <= n
    BY <1>1, <1>2, <2>1, <2>2, IbpIsSound
  <2>4. InBox(Point(m.x, s), Box(m, s), Inputs)
    BY <1>1
  <2>5. crown.num <= crown.den * n
    BY <1>1, <1>2, <2>1, <2>2, <2>4, CrownIsSoundAndTight
  <2> QED BY <2>3, <2>5
<1>5. InBox(Point(m.x, s), Box(m, s), Inputs)
  BY <1>1
<1>6. /\ crown.num \in Int /\ crown.den \in Int /\ crown.den > 0
      /\ ibp * crown.den <= crown.num
  BY <1>1, <1>2, <1>5, CrownIsSoundAndTight
<1> QED BY <1>3, <1>4, <1>6

\* Margins are bounded from below, so that one of them is the least.
LEMMA LeastMarginIs ==
  ASSUME NEW T \in SUBSET Int, NEW least \in Int, T # {}, \A n \in T : least <= n
  PROVE  Min(T) \in T
<1>1. PICK U : U = {n - least : n \in T}
  OBVIOUS
<1>2. U \in SUBSET Nat /\ U # {}
  <2>1. \A n \in T : n - least \in Nat
    OBVIOUS
  <2> QED BY <1>1, <2>1
<1>3. PICK u \in U : \A w \in U : u <= w
  BY <1>2, LeastNatural
<1>4. PICK n \in T : u = n - least
  BY <1>1
<1>5. \A q \in T : n <= q
  <2> TAKE q \in T
  <2>1. q - least \in U
    BY <1>1
  <2>2. u <= q - least
    BY <1>3, <2>1
  <2> QED BY <1>4, <2>2
<1> QED BY <1>5 DEF Min

-----------------------------------------------------------------------------
(* How many states a budget has.                                           *)

\* As many values as arguments when no two arguments share one.
LEMMA SameCount ==
  ASSUME NEW S, IsFiniteSet(S), NEW T, NEW f \in [S -> T],
         \A x, y \in S : f[x] = f[y] => x = y, \A y \in T : \E x \in S : f[x] = y
  PROVE  IsFiniteSet(T) /\ Cardinality(T) = Cardinality(S)
<1>1. f \in Injection(S, T)
  BY DEF Injection, IsInjective
<1>2. f \in Surjection(S, T)
  BY DEF Surjection
<1>3. ExistsBijection(S, T)
  BY <1>1, <1>2 DEF ExistsBijection, Bijection
<1> QED BY <1>3, FS_Bijection

\* The columns of a group that are off, the columns that are, and the pairs
\* of them in two groups.
Others(s, g) == {p \in GroupCols \ s : p[1] = g}
Singles(s) == GroupCols \ s
Doubles(s) == {pq \in Singles(s) \X Singles(s) : pq[1][1] < pq[2][1]}

LEMMA OthersCount ==
  ASSUME NEW s \in OneHotStates, NEW g \in Groups
  PROVE  IsFiniteSet(Others(s, g)) /\ Cardinality(Others(s, g)) = Size[g] - 1
<1>1. Size[g] \in Nat
  BY NetsAssumption DEF Groups
<1>2. PICK n : n = Size[g]
  OBVIOUS
<1>3. IsFiniteSet(1..n) /\ Cardinality(1..n) = n
  <2>1. n \in Int /\ 1 \in Int /\ n >= 0
    BY <1>1, <1>2
  <2>2. IsFiniteSet(1..n) /\ Cardinality(1..n) = IF 1 > n THEN 0 ELSE n - 1 + 1
    BY <2>1, FS_Interval
  <2> QED BY <2>1, <2>2
<1>4. PICK cols : cols = {<<g, i>> : i \in 1..n}
  OBVIOUS
<1>5. IsFiniteSet(cols) /\ Cardinality(cols) = n
  <2>1. PICK f : f = [i \in 1..n |-> <<g, i>>]
    OBVIOUS
  <2>2. /\ f \in [1..n -> cols] /\ \A x, y \in 1..n : f[x] = f[y] => x = y
        /\ \A y \in cols : \E x \in 1..n : f[x] = y
    BY <1>4, <2>1
  <2> QED BY <1>3, <2>2, SameCount
<1>6. \A p : p \in cols <=> p \in GroupCols /\ p[1] = g
  <2>1. \A p \in cols : p \in GroupCols /\ p[1] = g
    BY <1>2, <1>4 DEF GroupCols
  <2>2. \A p \in GroupCols : p[1] = g => p \in cols
    BY <1>2, <1>4, ColumnsAre
  <2> QED BY <2>1, <2>2
<1>7. PICK p \in s : p[1] = g /\ \A q \in s : q[1] = g => q = p
  BY OneHotIs
<1>8. p \in cols /\ Others(s, g) = cols \ {p}
  <2>1. p \in GroupCols
    BY OneHotIs
  <2> QED BY <1>6, <1>7, <2>1 DEF Others
<1>9. IsFiniteSet(cols \ {p}) /\ Cardinality(cols \ {p}) = Cardinality(cols) - 1
  BY <1>5, <1>8, FS_RemoveElement
<1> QED BY <1>2, <1>5, <1>8, <1>9

LEMMA SinglesCount ==
  ASSUME NEW s \in OneHotStates
  PROVE  /\ IsFiniteSet(Singles(s))
         /\ Cardinality(Singles(s)) = SumFunction([g \in Groups |-> Size[g] - 1])
<1>1. IsFiniteSet(Groups)
  BY NetsAssumption, InputsAreFinite
<1>2. PICK F, n : F = [g \in Groups |-> Others(s, g)] /\ n = [g \in Groups |-> Size[g] - 1]
  OBVIOUS
<1>3. \A g \in Groups : F[g] = Others(s, g) /\ n[g] = Size[g] - 1
  BY <1>2
<1>4. /\ \A g \in Groups : IsFiniteSet(F[g])
      /\ \A g \in Groups : n[g] = Cardinality(F[g])
  BY <1>3, OthersCount
<1>5. \A g, h \in Groups : g # h => F[g] \cap F[h] = {}
  BY <1>3 DEF Others
<1>6. UNION {F[g] : g \in Groups} = Singles(s)
  <2>1. \A p \in GroupCols : p[1] \in Groups
    BY ColumnsAre
  <2> QED BY <1>3, <2>1 DEF Others, Singles
<1>7. /\ IsFiniteSet(UNION {F[g] : g \in Groups})
      /\ Cardinality(UNION {F[g] : g \in Groups}) = Sum(n, Groups)
  BY <1>1, <1>4, <1>5, DisjointUnion
<1>8. DOMAIN n = Groups
  BY <1>2
<1>9. SumFunction(n) = Sum(n, Groups)
  BY <1>8, TotalIsSum
<1> QED BY <1>2, <1>6, <1>7, <1>9

LEMMA DoublesCount ==
  ASSUME NEW s \in OneHotStates
  PROVE  /\ IsFiniteSet(Doubles(s))
         /\ Cardinality(Doubles(s)) =
              SumFunction([gh \in Pairs |-> (Size[gh[1]] - 1) * (Size[gh[2]] - 1)])
<1>1. IsFiniteSet(Pairs)
  <2>1. IsFiniteSet(Groups)
    BY NetsAssumption, InputsAreFinite
  <2>2. IsFiniteSet(Groups \X Groups)
    BY <2>1, FS_Product
  <2>3. Pairs \in SUBSET (Groups \X Groups)
    BY DEF Pairs
  <2> QED BY <2>2, <2>3, FS_Subset
<1>2. PICK F, n : /\ F = [gh \in Pairs |-> Others(s, gh[1]) \X Others(s, gh[2])]
                  /\ n = [gh \in Pairs |-> (Size[gh[1]] - 1) * (Size[gh[2]] - 1)]
  OBVIOUS
<1>3. /\ \A gh \in Pairs : F[gh] = Others(s, gh[1]) \X Others(s, gh[2])
      /\ \A gh \in Pairs : n[gh] = (Size[gh[1]] - 1) * (Size[gh[2]] - 1)
  BY <1>2
<1>4. ASSUME NEW gh \in Pairs PROVE IsFiniteSet(F[gh]) /\ n[gh] = Cardinality(F[gh])
  <2>1. gh[1] \in Groups /\ gh[2] \in Groups
    BY DEF Pairs
  <2>2. PICK A, B : A = Others(s, gh[1]) /\ B = Others(s, gh[2])
    OBVIOUS
  <2>3. /\ IsFiniteSet(A) /\ Cardinality(A) = Size[gh[1]] - 1
        /\ IsFiniteSet(B) /\ Cardinality(B) = Size[gh[2]] - 1
    BY <2>1, <2>2, OthersCount
  <2>4. IsFiniteSet(A \X B) /\ Cardinality(A \X B) = Cardinality(A) * Cardinality(B)
    BY <2>3, FS_Product
  <2> QED BY <1>3, <2>2, <2>3, <2>4
<1>5. \A gh \in Pairs : gh = <<gh[1], gh[2]>>
  BY DEF Pairs
<1>6. \A gh \in Pairs : \A pq \in F[gh] : pq[1][1] = gh[1] /\ pq[2][1] = gh[2]
  BY <1>3 DEF Others
<1>7. \A gh, kl \in Pairs : gh # kl => F[gh] \cap F[kl] = {}
  <2> SUFFICES ASSUME NEW gh \in Pairs, NEW kl \in Pairs, NEW pq \in F[gh] \cap F[kl]
               PROVE  gh = kl
    OBVIOUS
  <2>1. gh[1] = kl[1] /\ gh[2] = kl[2]
    BY <1>6
  <2> QED BY <1>5, <2>1
<1>8. UNION {F[gh] : gh \in Pairs} = Doubles(s)
  <2>1. ASSUME NEW gh \in Pairs, NEW pq \in F[gh] PROVE pq \in Doubles(s)
    <3>1. pq \in Singles(s) \X Singles(s)
      BY <1>3, <2>1 DEF Others, Singles
    <3>2. gh[1] < gh[2]
      BY DEF Pairs
    <3>3. pq[1][1] < pq[2][1]
      BY <1>6, <2>1, <3>2
    <3> QED BY <3>1, <3>3 DEF Doubles
  <2>2. ASSUME NEW pq \in Doubles(s) PROVE \E gh \in Pairs : pq \in F[gh]
    <3>1. /\ pq \in Singles(s) \X Singles(s) /\ pq[1][1] < pq[2][1]
          /\ pq[1] \in Singles(s) /\ pq[2] \in Singles(s)
      BY DEF Doubles
    <3>2. PICK g, h : g = pq[1][1] /\ h = pq[2][1]
      OBVIOUS
    <3>3. g \in Groups /\ h \in Groups
      BY <3>1, <3>2, ColumnsAre DEF Singles
    <3>4. PICK gh : gh = <<g, h>>
      OBVIOUS
    <3>5. gh[1] = g /\ gh[2] = h /\ gh \in Pairs
      BY <3>1, <3>2, <3>3, <3>4 DEF Pairs
    <3>6. pq[1] \in Others(s, g) /\ pq[2] \in Others(s, h)
      BY <3>1, <3>2 DEF Others, Singles
    <3>7. pq \in Others(s, g) \X Others(s, h)
      BY <3>1, <3>6
    <3>8. F[gh] = Others(s, g) \X Others(s, h)
      BY <1>3, <3>5
    <3> QED BY <3>5, <3>7, <3>8
  <2> QED BY <2>1, <2>2
<1>9. /\ IsFiniteSet(UNION {F[gh] : gh \in Pairs})
      /\ Cardinality(UNION {F[gh] : gh \in Pairs}) = Sum(n, Pairs)
  <2>1. \A gh \in Pairs : IsFiniteSet(F[gh])
    BY <1>4
  <2>2. \A gh \in Pairs : n[gh] = Cardinality(F[gh])
    BY <1>4
  <2>3. /\ IsFiniteSet(UNION {F[gh] : gh \in Pairs})
        /\ \A m : (\A gh \in Pairs : m[gh] = Cardinality(F[gh]))
                  => Cardinality(UNION {F[gh] : gh \in Pairs}) = Sum(m, Pairs)
    BY <1>1, <1>7, <2>1, DisjointUnion, Zenon
  <2> QED BY <2>2, <2>3, Zenon
<1>10. SumFunction(n) = Sum(n, Pairs)
  <2>1. DOMAIN n = Pairs
    BY <1>2
  <2> QED BY <2>1, TotalIsSum
<1> QED BY <1>2, <1>8, <1>9, <1>10

\* What the states of a budget differ in: nothing, a single, or a double.
IsDifference(d, s, k) == \E t \in Ball(s, k) : d = t \ s
IsFewColumns(d, s, k) ==
  \/ d = {}
  \/ k >= 1 /\ \E p \in Singles(s) : d = {p}
  \/ k >= 2 /\ \E pq \in Doubles(s) : d = {pq[1], pq[2]}

LEMMA DifferencesAre ==
  ASSUME NEW s \in OneHotStates, NEW k \in {0, 1, 2}, NEW d
  PROVE  IsDifference(d, s, k) <=> IsFewColumns(d, s, k)
<1>1. (\E t \in Ball(s, k) : d = t \ s) <=> d \in enumerate_candidates(k) /\ d \cap s = {}
  <2>1. ASSUME NEW t \in Ball(s, k), d = t \ s
        PROVE  d \in enumerate_candidates(k) /\ d \cap s = {}
    <3>1. k \in Nat /\ k <= 2
      OBVIOUS
    <3>2. t \ s \in enumerate_candidates(k)
      BY <3>1, EnumerationReachesTheBall
    <3> QED BY <2>1, <3>2
  <2>2. ASSUME d \in enumerate_candidates(k), d \cap s = {}
        PROVE  \E t \in Ball(s, k) : d = t \ s
    <3>1. Build(s, d) \in Ball(s, k)
      BY <2>2, EnumerationReachesTheBall
    <3>2. d = Build(s, d) \ s
      BY <2>2 DEF Build
    <3> QED BY <3>1, <3>2
  <2> QED BY <2>1, <2>2
<1>2. d \in enumerate_candidates(k) <=>
        \/ d = {}
        \/ k >= 1 /\ \E p \in GroupCols : d = {p}
        \/ k >= 2 /\ \E pq \in GroupCols \X GroupCols :
                        pq[1][1] < pq[2][1] /\ d = {pq[1], pq[2]}
  BY DEF enumerate_candidates
<1>3. (d \cap s = {} /\ \E p \in GroupCols : d = {p}) <=> \E p \in Singles(s) : d = {p}
  BY DEF Singles
<1>4. (d \cap s = {} /\ \E pq \in GroupCols \X GroupCols :
                           pq[1][1] < pq[2][1] /\ d = {pq[1], pq[2]})
        <=> \E pq \in Doubles(s) : d = {pq[1], pq[2]}
  BY DEF Doubles, Singles
<1> QED BY <1>1, <1>2, <1>3, <1>4 DEF IsDifference, IsFewColumns

\* The number of them, by the formula of the scripts.
LEMMA BallCount ==
  ASSUME NEW s \in OneHotStates, NEW k \in {0, 1, 2}
  PROVE  IsFiniteSet(Ball(s, k)) /\ Cardinality(Ball(s, k)) = minimal_candidate_count(k)
<1>1. PICK ball, one, two :
        /\ ball = {t \ s : t \in Ball(s, k)}
        /\ one = {{p} : p \in Singles(s)} /\ two = {{pq[1], pq[2]} : pq \in Doubles(s)}
  OBVIOUS
<1>2. PICK c1, c2 :
        /\ c1 = SumFunction([g \in Groups |-> Size[g] - 1])
        /\ c2 = SumFunction([gh \in Pairs |-> (Size[gh[1]] - 1) * (Size[gh[2]] - 1)])
  OBVIOUS
<1>3. IsFiniteSet(one) /\ Cardinality(one) = c1
  <2>1. PICK S, f : S = Singles(s) /\ f = [p \in S |-> {p}]
    OBVIOUS
  <2>2. IsFiniteSet(S) /\ Cardinality(S) = c1
    BY <1>2, <2>1, SinglesCount
  <2>3. /\ f \in [S -> one] /\ \A x, y \in S : f[x] = f[y] => x = y
        /\ \A y \in one : \E x \in S : f[x] = y
    BY <1>1, <2>1
  <2> QED BY <2>2, <2>3, SameCount
<1>4. \A pq \in Doubles(s) : /\ pq = <<pq[1], pq[2]>> /\ pq[1][1] < pq[2][1]
                             /\ pq[1] \in Singles(s) /\ pq[2] \in Singles(s)
                             /\ pq[1][1] \in Nat /\ pq[2][1] \in Nat
  <2>1. \A p \in Singles(s) : p[1] \in Nat
    BY ColumnsAre DEF Singles, Groups
  <2> QED BY <2>1 DEF Doubles
<1>5. IsFiniteSet(two) /\ Cardinality(two) = c2
  <2>1. PICK S, f : S = Doubles(s) /\ f = [pq \in S |-> {pq[1], pq[2]}]
    OBVIOUS
  <2>2. IsFiniteSet(S) /\ Cardinality(S) = c2
    BY <1>2, <2>1, DoublesCount
  <2>3. ASSUME NEW x \in S, NEW y \in S, f[x] = f[y] PROVE x = y
    <3>1. PICK a, b, c, d : a = x[1] /\ b = x[2] /\ c = y[1] /\ d = y[2]
      OBVIOUS
    <3>2. x = <<a, b>> /\ y = <<c, d>> /\ {a, b} = {c, d}
      BY <1>4, <2>1, <2>3, <3>1
    <3>3. /\ a[1] \in Nat /\ b[1] \in Nat /\ c[1] \in Nat /\ d[1] \in Nat
          /\ a[1] < b[1] /\ c[1] < d[1]
      BY <1>4, <2>1, <3>1
    <3>4. (a = c /\ b = d) \/ (a = d /\ b = c)
      <4>1. a \in {c, d} /\ b \in {c, d} /\ c \in {a, b} /\ d \in {a, b}
        BY <3>2
      <4>2. a # b
        BY <3>3
      <4> QED BY <4>1, <4>2
    <3>5. ~(a = d /\ b = c)
      BY <3>3
    <3> QED BY <3>2, <3>4, <3>5
  <2>4. f \in [S -> two] /\ \A y \in two : \E x \in S : f[x] = y
    BY <1>1, <2>1
  <2> QED BY <2>2, <2>3, <2>4, SameCount
<1>6. IsFiniteSet({{}}) /\ Cardinality({{}}) = 1
  BY FS_Singleton, Zenon
<1>7. \A d : d \in ball <=>
        d \in {{}} \/ (k >= 1 /\ d \in one) \/ (k >= 2 /\ d \in two)
  <2> TAKE d
  <2>1. d \in ball <=> IsDifference(d, s, k)
    BY <1>1 DEF IsDifference
  <2>2. (d \in {{}} <=> d = {}) /\ (d \in one <=> \E p \in Singles(s) : d = {p})
    BY <1>1
  <2>3. d \in two <=> \E pq \in Doubles(s) : d = {pq[1], pq[2]}
    BY <1>1
  <2>4. IsDifference(d, s, k) <=> IsFewColumns(d, s, k)
    BY DifferencesAre
  <2> QED BY <2>1, <2>2, <2>3, <2>4, Zenon DEF IsFewColumns
<1>8. {{}} \cap one = {} /\ ({{}} \cup one) \cap two = {}
  <2>1. \A d \in one : \E p : d = {p}
    BY <1>1
  <2>2. \A d \in two : \E p, q : d = {p, q} /\ p # q
    <3> TAKE d \in two
    <3>1. PICK pq \in Doubles(s) : d = {pq[1], pq[2]}
      BY <1>1
    <3>2. pq[1] # pq[2]
      BY <1>4
    <3> QED BY <3>1, <3>2
  <2> QED BY <2>1, <2>2
<1>9. c1 \in Nat /\ c2 \in Nat
  BY <1>3, <1>5, FS_CardinalityType
<1>10. PICK u : u = {{}} \cup one
  OBVIOUS
<1>11. IsFiniteSet(u) /\ Cardinality(u) = 1 + c1
  <2>1. /\ IsFiniteSet({{}} \cup one)
        /\ Cardinality({{}} \cup one) = Cardinality({{}}) + Cardinality(one) - Cardinality({{}} \cap one)
    BY <1>3, <1>6, FS_Union
  <2>2. Cardinality({{}} \cap one) = 0
    BY <1>8, FS_EmptySet
  <2> QED BY <1>3, <1>6, <1>9, <1>10, <2>1, <2>2
<1>12. IsFiniteSet(u \cup two) /\ Cardinality(u \cup two) = 1 + c1 + c2
  <2>1. /\ IsFiniteSet(u \cup two)
        /\ Cardinality(u \cup two) = Cardinality(u) + Cardinality(two) - Cardinality(u \cap two)
    BY <1>5, <1>11, FS_Union
  <2>2. Cardinality(u \cap two) = 0
    BY <1>8, <1>10, FS_EmptySet
  <2> QED BY <1>5, <1>9, <1>11, <2>1, <2>2
<1>13. IsFiniteSet(ball) /\ Cardinality(ball) = minimal_candidate_count(k)
  <2>1. minimal_candidate_count(k) =
          1 + (IF k >= 1 THEN c1 ELSE 0) + (IF k >= 2 THEN c2 ELSE 0)
    BY <1>2 DEF minimal_candidate_count
  <2>2. CASE k = 0
    <3>1. ball = {{}}
      BY <1>7, <2>2
    <3> QED BY <1>6, <2>1, <2>2, <3>1
  <2>3. CASE k = 1
    <3>1. ball = u
      BY <1>7, <1>10, <2>3
    <3> QED BY <1>9, <1>11, <2>1, <2>3, <3>1
  <2>4. CASE k = 2
    <3>1. ball = u \cup two
      BY <1>7, <1>10, <2>4
    <3> QED BY <1>9, <1>12, <2>1, <2>4, <3>1
  <2> QED BY <2>2, <2>3, <2>4
<1>14. IsFiniteSet(Ball(s, k)) /\ Cardinality(Ball(s, k)) = Cardinality(ball)
  <2>1. PICK B, f : B = Ball(s, k) /\ f = [d \in ball |-> Build(s, d)]
    OBVIOUS
  <2>2. \A t \in B : t = Build(s, t \ s)
    <3>1. B \in SUBSET OneHotStates
      BY <2>1, BallIs
    <3> QED BY <3>1, BuildReaches
  <2>3. \A d \in ball : \E t \in B : d = t \ s /\ f[d] = t
    BY <1>1, <2>1, <2>2
  <2>4. f \in [ball -> B]
    BY <2>1, <2>3
  <2>5. \A x, y \in ball : f[x] = f[y] => x = y
    <3> SUFFICES ASSUME NEW x \in ball, NEW y \in ball, f[x] = f[y] PROVE x = y
      OBVIOUS
    <3>1. x = f[x] \ s /\ y = f[y] \ s
      BY <2>3
    <3> QED BY <3>1
  <2>6. \A t \in B : \E d \in ball : f[d] = t
    BY <1>1, <2>1, <2>2
  <2> QED BY <1>13, <2>1, <2>4, <2>5, <2>6, SameCount
<1> QED BY <1>13, <1>14

-----------------------------------------------------------------------------
(* The evaluators.                                                         *)

\* Of which kinds they are: bounds and the sweeps of the stacked attacks.
LEMMA EvaluatorsAre ==
  ASSUME NEW e \in Evaluators
  PROVE  /\ e.over \in {"candidates", "greedy", "groups", "singles", "others", "othersOfAny"}
         /\ e.with \in {"pgd", "cw", "nothing", "ibp", "crown"}
         /\ e.verdict \in {"all", "worst"}
         /\ \A k \in e.ks :
              /\ k \in Nat
              /\ e.with \in {"ibp", "crown"} =>
                   e.over = "candidates" /\ e.verdict = "all" /\ k <= 1
              /\ e.over = "candidates" => e.verdict = "all"
              /\ e.over = "singles" => e.verdict = "worst"
              /\ e.over = "singles" /\ e.with = "pgd" => k <= 1
              /\ e.over \in {"others", "othersOfAny"} => k = 1 /\ e.verdict = "all"
<1>1. MaxK \in Nat
  BY NetsAssumption
<1>2. /\ \A k \in 0..MaxK : k \in Nat
      /\ \A k \in 1..MaxK : k \in Nat
  BY <1>1
<1>3. \/ e.over = "candidates" /\ e.with \in {"pgd", "cw"} /\ e.verdict = "all"
      \/ /\ e.over = "candidates" /\ e.with \in {"ibp", "crown"} /\ e.verdict = "all"
         /\ e.ks = {0, 1}
      \/ e.over \in {"greedy", "groups"} /\ e.with = "pgd" /\ e.verdict = "all"
      \/ e.over = "singles" /\ e.with = "cw" /\ e.verdict = "worst"
      \/ /\ e.over = "singles" /\ e.with = "pgd" /\ e.verdict = "worst"
         /\ e.ks \in {{0, 1}, {1}}
      \/ /\ e.over \in {"others", "othersOfAny"} /\ e.with = "nothing" /\ e.verdict = "all"
         /\ e.ks = {1}
  BY DEF Evaluators, Evaluator, eval_scalability, eval_jsma_vs_exhaustive, jsma_group_attack,
       probe_df_convergence_sets, evaluate_unified, pgd_k1_survivors,
       canonical_mixed_norm_attack, canonical_k1_break_check,
       cw_mixed_norm_attack, cw_exhaustive_k1_survivors, trace_logit_reversal,
       trace_logit_reversal_hardened, certified_bound, ibp_k1,
       crown_margin_lower_k1
<1>4. e.ks \in {{1, 2}, 0..MaxK, 1..MaxK, {0, 1}, {1}}
  BY DEF Evaluators, Evaluator, eval_scalability, eval_jsma_vs_exhaustive, jsma_group_attack,
       probe_df_convergence_sets, evaluate_unified, pgd_k1_survivors,
       canonical_mixed_norm_attack, canonical_k1_break_check,
       cw_mixed_norm_attack, cw_exhaustive_k1_survivors, trace_logit_reversal,
       trace_logit_reversal_hardened, certified_bound, ibp_k1,
       crown_margin_lower_k1
<1>5. \A ks \in {{1, 2}, 0..MaxK, 1..MaxK, {0, 1}, {1}} : \A k \in ks : k \in Nat
  <2> TAKE ks \in {{1, 2}, 0..MaxK, 1..MaxK, {0, 1}, {1}}
  <2>1. CASE ks = {1, 2} \/ ks = {0, 1} \/ ks = {1}
    BY <2>1
  <2>2. CASE ks = 0..MaxK
    BY <1>2, <2>2
  <2>3. CASE ks = 1..MaxK
    BY <1>2, <2>3
  <2> QED BY <2>1, <2>2, <2>3
<1>6. \A k \in e.ks : k \in Nat
  BY <1>4, <1>5, Zenon
<1> QED BY <1>3, <1>6

\* Whatever a pass flips leads to a state of the budget.
LEMMA PassesStayInTheBall ==
  ASSUME NEW e \in Evaluators, NEW k \in e.ks, NEW s \in OneHotStates,
         NEW pass \in Passes(e, k, s), NEW flips \in pass
  PROVE  Build(s, flips) \in Ball(s, k)
<1>1. /\ e.over \in {"candidates", "greedy", "groups", "singles", "others", "othersOfAny"} /\ k \in Nat
      /\ e.over \in {"others", "othersOfAny"} => k = 1
  BY EvaluatorsAre
<1>2. ASSUME NEW j \in Nat, j <= k, flips \in enumerate_candidates(j)
      PROVE  Build(s, flips) \in Ball(s, k)
  <2>1. Build(s, flips) \in Ball(s, j)
    BY <1>2, EnumerationReachesTheBall
  <2>2. /\ Build(s, flips) \in OneHotStates /\ Cardinality(Build(s, flips) \ s) <= j
        /\ Cardinality(Build(s, flips) \ s) \in Nat
    BY <1>2, <2>1, BallIs
  <2>3. Cardinality(Build(s, flips) \ s) <= k
    BY <1>1, <1>2, <2>2
  <2> QED BY <2>2, <2>3, BallIs
<1>3. CASE e.over = "candidates"
  <2>1. flips \in enumerate_candidates(k)
    BY <1>3 DEF Passes
  <2> QED BY <1>1, <1>2, <2>1
<1>4. CASE e.over = "singles"
  <2>1. flips \in enumerate_candidates(IF k >= 1 THEN 1 ELSE 0)
    BY <1>4 DEF Passes
  <2> QED BY <1>1, <1>2, <2>1
<1>5. {} \in enumerate_candidates(0) /\ \A p \in GroupCols : {p} \in enumerate_candidates(1)
  BY DEF enumerate_candidates
<1>6. CASE e.over = "groups"
  <2>1. flips = {} \/ (k = 1 /\ \E g \in Groups : \E i \in 1..Size[g] : flips = {<<g, i>>})
    BY <1>6 DEF Passes
  <2>2. flips = {} \/ (k = 1 /\ \E p \in GroupCols : flips = {p})
    BY <2>1 DEF GroupCols
  <2>3. CASE flips = {}
    BY <1>1, <1>2, <1>5, <2>3
  <2>4. CASE k = 1 /\ \E p \in GroupCols : flips = {p}
    <3>1. 1 \in Nat /\ 1 <= k /\ flips \in enumerate_candidates(1)
      BY <1>5, <2>4
    <3> QED BY <1>2, <3>1
  <2> QED BY <2>2, <2>3, <2>4
<1>7. CASE e.over \in {"others", "othersOfAny"}
  <2>1. flips \in enumerate_candidates(1)
    BY <1>5, <1>7 DEF Passes
  <2>2. 1 \in Nat /\ 1 <= k
    BY <1>1, <1>7
  <2> QED BY <1>2, <2>1, <2>2
<1>8. CASE e.over = "greedy"
  BY <1>8 DEF Passes
<1> QED BY <1>1, <1>3, <1>4, <1>6, <1>7, <1>8

\* And the exhaustive ones are led to all of them.
LEMMA PassesReachTheBall ==
  ASSUME NEW e \in Evaluators, NEW k \in e.ks, NEW s \in OneHotStates, NEW t \in Ball(s, k),
         (e.over = "candidates" /\ k <= 2) \/ (e.over = "singles" /\ k <= 1)
  PROVE  \E pass \in Passes(e, k, s) : \A flips \in pass : t = Build(s, flips)
<1>1. k \in Nat
  BY EvaluatorsAre
<1>2. t \ s \in enumerate_candidates(k) /\ t = Build(s, t \ s)
  BY <1>1, EnumerationReachesTheBall
<1>3. CASE e.over = "candidates"
  <2>1. {t \ s} \in Passes(e, k, s)
    BY <1>2, <1>3 DEF Passes
  <2> QED BY <1>2, <2>1
<1>4. CASE e.over = "singles" /\ k <= 1
  <2>1. k = IF k >= 1 THEN 1 ELSE 0
    BY <1>1, <1>4
  <2>2. Passes(e, k, s) = {{c} : c \in enumerate_candidates(IF k >= 1 THEN 1 ELSE 0)}
    BY <1>4 DEF Passes
  <2>3. {t \ s} \in Passes(e, k, s)
    BY <1>2, <2>1, <2>2
  <2> QED BY <1>2, <2>3
<1> QED BY <1>3, <1>4

\* An attack reports margins of the box; a bound is positive only where
\* they all are.
LEMMA OutcomesAre ==
  ASSUME NEW net \in Nets, NEW m \in Rows(net), NEW s \in OneHotStates, NEW e \in Evaluators,
         NEW n \in Outcomes(m, e, s)
  PROVE  /\ n \in Int
         /\ e.with \notin {"ibp", "crown"} => n \in Margins(m, s)
         /\ e.with \in {"ibp", "crown"} /\ Withstood(m, e, n) =>
              \A q \in Margins(m, s) : q > 0
<1>1. PICK ibp, crown :
        /\ ibp = ibp_margin_lower_bounds(m.net, Box(m, s), m.label)
        /\ crown = crown_margin_lower(m.net, Point(m.x, s), Box(m, s), m.label)
  OBVIOUS
<1>2. /\ Margins(m, s) \in SUBSET Int /\ CleanMargin(m, s) \in Margins(m, s)
      /\ ibp \in Int /\ crown.num \in Int /\ crown.den \in Int /\ crown.den > 0
      /\ \A q \in Margins(m, s) : ibp <= q /\ crown.num <= crown.den * q
  BY <1>1, MarginsAre
<1>3. e.with \in {"pgd", "cw", "nothing", "ibp", "crown"}
  BY EvaluatorsAre
<1>4. CASE e.with = "pgd"
  BY <1>2, <1>4 DEF Outcomes
<1>5. CASE e.with = "cw"
  BY <1>2, <1>5 DEF Outcomes
<1>6. CASE e.with = "nothing"
  BY <1>2, <1>6 DEF Outcomes
<1>7. CASE e.with = "ibp"
  <2>1. n = ibp
    BY <1>1, <1>7 DEF Outcomes
  <2> QED BY <1>2, <1>7, <2>1 DEF Withstood
<1>8. CASE e.with = "crown"
  <2>1. n = crown.num
    BY <1>1, <1>8 DEF Outcomes
  <2>2. ASSUME n > 0, NEW q \in Margins(m, s) PROVE q > 0
    <3>1. PICK d \in Int, a \in Int : d = crown.den /\ a = q /\ d > 0 /\ 0 < d * a
      BY <1>2, <2>1, <2>2
    <3> QED BY <3>1
  <2> QED BY <1>2, <1>8, <2>1, <2>2 DEF Withstood
<1> QED BY <1>3, <1>4, <1>5, <1>6, <1>7, <1>8

-----------------------------------------------------------------------------
(* What the loops know: which passes are done, how far the greedy attack   *)
(* has gone, and what the verdict so far stands for.                       *)

PassesAccountedFor ==
    /\ \E net \in Nets : model \in Rows(net)
    /\ eval \in Evaluators /\ K \in eval.ks /\ Selected(eval, model)
    /\ left \in SUBSET Passes(eval, K, model.row)
    /\ \A pass \in Passes(eval, K, model.row) \ left :
           \E flips \in pass : Build(model.row, flips) \in visited
    /\ visited \in SUBSET Ball(model.row, K)

GreedyWithinBudget ==
    /\ at \in OneHotStates /\ steps \in SUBSET Groups
    /\ Cardinality(at \ model.row) <= Cardinality(steps) /\ Cardinality(steps) <= K

VerdictAccountedFor ==
    /\ survives \in BOOLEAN
    /\ survives => \A s \in visited : \E n \in Outcomes(model, eval, s) :
                       Withstood(model, eval, n)
    /\ ~survives => \E s \in visited : \E n \in Outcomes(model, eval, s) :
                        ~Withstood(model, eval, n)
    /\ visited = {} => worst = CleanMargin(model, model.row)
    /\ eval.verdict = "worst" =>
           /\ visited # {} => \E s \in visited : worst \in Outcomes(model, eval, s)
           /\ \A s \in visited : \E n \in Outcomes(model, eval, s) : worst <= n

Accounted == PassesAccountedFor /\ GreedyWithinBudget /\ VerdictAccountedFor

LEMMA LeastOfTwo ==
  ASSUME NEW a \in Int, NEW b \in Int
  PROVE  Min({a, b}) = IF a <= b THEN a ELSE b
<1>1. CASE a <= b
  <2>1. a \in {a, b} /\ \A y \in {a, b} : a <= y
    BY <1>1
  <2>2. \A x \in {a, b} : (\A y \in {a, b} : x <= y) => x = a
    BY <1>1
  <2> QED BY <1>1, <2>1, <2>2 DEF Min
<1>2. CASE ~(a <= b)
  <2>1. b \in {a, b} /\ \A y \in {a, b} : b <= y
    BY <1>2
  <2>2. \A x \in {a, b} : (\A y \in {a, b} : x <= y) => x = b
    BY <1>2
  <2> QED BY <1>2, <2>1, <2>2 DEF Min
<1> QED BY <1>1, <1>2

\* An attack of one state keeps the verdict so far what it stands for.
LEMMA AttackKeepsVerdict ==
  ASSUME PassesAccountedFor, VerdictAccountedFor, NEW s \in OneHotStates, Attack(s),
         UNCHANGED <<model, eval>>
  PROVE  VerdictAccountedFor'
<1>1. PICK net \in Nets : model \in Rows(net)
  BY DEF PassesAccountedFor
<1>2. eval \in Evaluators /\ visited \in SUBSET OneHotStates
  <2>1. visited \in SUBSET Ball(model.row, K)
    BY DEF PassesAccountedFor
  <2>2. model.row \in OneHotStates
    BY <1>1 DEF Rows
  <2>3. Ball(model.row, K) \in SUBSET OneHotStates
    BY <2>2, BallIs
  <2> QED BY <2>1, <2>3 DEF PassesAccountedFor
<1>3. PICK margin \in Outcomes(model, eval, s) :
        /\ survives' = (survives /\ Withstood(model, eval, margin))
        /\ worst' = CASE eval.verdict = "all" -> worst
                      [] visited = {} -> margin
                      [] OTHER -> Min({worst, margin})
        /\ visited' = visited \cup {s}
  BY DEF Attack
<1>4. Outcomes(model, eval, s) \in SUBSET Int
      /\ \A t \in visited : Outcomes(model, eval, t) \in SUBSET Int
  BY <1>1, <1>2, OutcomesAre
<1>5. /\ \A t, n : Withstood(model, eval, n)' = Withstood(model, eval, n)
      /\ \A t : Outcomes(model, eval, t)' = Outcomes(model, eval, t)
      /\ CleanMargin(model, model.row)' = CleanMargin(model, model.row)
  OBVIOUS
<1>6. survives' \in BOOLEAN
  BY <1>3, Zenon
<1>7. survives' => \A t \in visited' : \E n \in Outcomes(model, eval, t) : Withstood(model, eval, n)
  BY <1>3 DEF VerdictAccountedFor
<1>8. ~survives' => \E t \in visited' : \E n \in Outcomes(model, eval, t) :
                       ~Withstood(model, eval, n)
  BY <1>3, <1>6 DEF VerdictAccountedFor
<1>9. ASSUME eval.verdict = "worst"
      PROVE  /\ \E t \in visited' : worst' \in Outcomes(model, eval, t)
             /\ \A t \in visited' : \E n \in Outcomes(model, eval, t) : worst' <= n
  <2>1. CASE visited = {}
    <3>1. worst' = margin /\ visited' = {s}
      BY <1>3, <1>9, <2>1
    <3>2. margin <= margin
      BY <1>4
    <3> QED BY <3>1, <3>2
  <2>2. CASE visited # {}
    <3>1. worst' = Min({worst, margin})
      BY <1>3, <1>9, <2>2
    <3>2. PICK t \in visited : worst \in Outcomes(model, eval, t)
      BY <1>9, <2>2 DEF VerdictAccountedFor
    <3>3. worst \in Int /\ margin \in Int
      BY <1>4, <3>2
    <3>4. worst' = IF worst <= margin THEN worst ELSE margin
      BY <3>1, <3>3, LeastOfTwo
    <3>5. worst' \in Int /\ worst' <= worst /\ worst' <= margin
      BY <3>3, <3>4
    <3>6. \E u \in visited' : worst' \in Outcomes(model, eval, u)
      BY <1>3, <3>2, <3>4
    <3>7. ASSUME NEW u \in visited PROVE \E n \in Outcomes(model, eval, u) : worst' <= n
      <4>1. PICK n \in Outcomes(model, eval, u) : worst <= n
        BY <1>9 DEF VerdictAccountedFor
      <4>2. n \in Int
        BY <1>4
      <4>3. worst' <= n
        BY <3>3, <3>5, <4>1, <4>2
      <4> QED BY <4>3
    <3> QED BY <1>3, <3>5, <3>6, <3>7
  <2> QED BY <2>1, <2>2
<1>10. visited' # {}
  BY <1>3
<1> QED BY <1>5, <1>6, <1>7, <1>8, <1>9, <1>10 DEF VerdictAccountedFor

LEMMA AccountedInitially ==
  EvalInit => Accounted
<1> SUFFICES ASSUME EvalInit PROVE Accounted
  OBVIOUS
<1>1. PICK net \in Nets : model \in Rows(net)
  BY DEF EvalInit
<1>2. model.row \in OneHotStates /\ eval \in Evaluators /\ K \in eval.ks /\ K \in Nat
  <2>1. eval \in Evaluators /\ K \in eval.ks
    BY DEF EvalInit
  <2> QED BY <1>1, <2>1, EvaluatorsAre DEF Rows
<1>3. PassesAccountedFor
  BY <1>1, <1>2 DEF EvalInit, PassesAccountedFor
<1>4. GreedyWithinBudget
  <2>1. Cardinality({}) = 0
    BY FS_EmptySet, Zenon
  <2>2. at \ model.row = {} /\ steps = {}
    BY DEF EvalInit
  <2>3. Cardinality(at \ model.row) = 0 /\ Cardinality(steps) = 0
    BY <2>1, <2>2, Zenon
  <2> QED BY <1>2, <2>2, <2>3 DEF EvalInit, GreedyWithinBudget
<1>5. VerdictAccountedFor
  BY DEF EvalInit, VerdictAccountedFor
<1> QED BY <1>3, <1>4, <1>5 DEF Accounted

LEMMA AccountedIsKept ==
  Accounted /\ [EvalNext]_evalVars => Accounted'
<1> SUFFICES ASSUME Accounted, [EvalNext]_evalVars PROVE Accounted'
  OBVIOUS
<1>1. PICK net \in Nets : model \in Rows(net)
  BY DEF Accounted, PassesAccountedFor
<1>2. /\ model.row \in OneHotStates /\ eval \in Evaluators /\ K \in eval.ks /\ K \in Nat
      /\ Ball(model.row, K) \in SUBSET OneHotStates
  <2>1. eval \in Evaluators /\ K \in eval.ks /\ model.row \in OneHotStates
    BY <1>1 DEF Accounted, PassesAccountedFor, Rows
  <2> QED BY <2>1, EvaluatorsAre, BallIs
<1>3. CASE Pass
  <2>1. PICK pass \in left :
          /\ left' = left \ {pass}
          /\ \E flips \in pass : Attack(Build(model.row, flips))
    BY <1>3 DEF Pass
  <2>2. PICK flips \in pass : Attack(Build(model.row, flips))
    BY <2>1
  <2>3. UNCHANGED <<model, eval, K, at, steps>>
    BY <1>3 DEF Pass
  <2>4. PICK s : s = Build(model.row, flips)
    OBVIOUS
  <2>5. pass \in Passes(eval, K, model.row)
    BY DEF Accounted, PassesAccountedFor
  <2>6. s \in Ball(model.row, K)
    BY <1>2, <2>4, <2>5, PassesStayInTheBall
  <2>7. Attack(s) /\ visited' = visited \cup {s}
    BY <2>2, <2>4 DEF Attack
  <2>8. VerdictAccountedFor'
    BY <1>2, <2>3, <2>6, <2>7, AttackKeepsVerdict DEF Accounted
  <2>9. GreedyWithinBudget'
    BY <2>3 DEF Accounted, GreedyWithinBudget
  <2>10. PassesAccountedFor'
    <3>1. left' \in SUBSET Passes(eval, K, model.row)
      BY <2>1 DEF Accounted, PassesAccountedFor
    <3>2. visited' \in SUBSET Ball(model.row, K)
      BY <2>6, <2>7 DEF Accounted, PassesAccountedFor
    <3>3. ASSUME NEW q \in Passes(eval, K, model.row) \ left'
          PROVE  \E f \in q : Build(model.row, f) \in visited'
      <4>1. CASE q = pass
        BY <2>2, <2>4, <2>7, <4>1
      <4>2. CASE q # pass
        <5>1. q \in Passes(eval, K, model.row) \ left
          BY <2>1, <3>3, <4>2
        <5>2. \E f \in q : Build(model.row, f) \in visited
          BY <5>1 DEF Accounted, PassesAccountedFor
        <5> QED BY <2>7, <5>2
      <4> QED BY <4>1, <4>2
    <3>4. /\ Passes(eval, K, model.row)' = Passes(eval, K, model.row)
          /\ Ball(model.row, K)' = Ball(model.row, K)
          /\ \A f : Build(model.row, f)' = Build(model.row, f)
      BY <2>3
    <3>5. Selected(eval, model)'
      BY <2>3 DEF Accounted, PassesAccountedFor
    <3> QED BY <1>1, <1>2, <2>3, <3>1, <3>2, <3>3, <3>4, <3>5 DEF PassesAccountedFor
  <2> QED BY <2>8, <2>9, <2>10 DEF Accounted
<1>4. CASE GreedyFlip
  <2>1. PICK g \in Groups \ steps :
          \E i \in 1..Size[g] : at' = Build(at, {<<g, i>>}) /\ steps' = steps \cup {g}
    BY <1>4 DEF GreedyFlip, GreedyOnce
  <2>2. PICK i \in 1..Size[g] : at' = Build(at, {<<g, i>>}) /\ steps' = steps \cup {g}
    BY <2>1
  <2>3. /\ UNCHANGED <<model, eval, K, left, visited, survives, worst>>
        /\ Cardinality(steps) < K
    BY <1>4 DEF GreedyFlip, GreedyOnce
  <2>4. PassesAccountedFor'
    BY <2>3 DEF Accounted, PassesAccountedFor
  <2>5. VerdictAccountedFor'
    BY <2>3 DEF Accounted, VerdictAccountedFor
  <2>6. PICK p : p = <<g, i>>
    OBVIOUS
  <2>7. p \in GroupCols /\ p[1] = g
    BY <2>2, <2>6 DEF GroupCols
  <2>8. at \in OneHotStates /\ steps \in SUBSET Groups
        /\ Cardinality(at \ model.row) <= Cardinality(steps)
    BY DEF Accounted, GreedyWithinBudget
  <2>9. at' \in OneHotStates /\ at' \ at \in SUBSET {p}
    <3>1. PICK flips : flips = {p}
      OBVIOUS
    <3>2. flips \in SUBSET GroupCols /\ \A q, r \in flips : q[1] = r[1] => q = r
      BY <2>7, <3>1
    <3>3. Build(at, flips) \in OneHotStates /\ Build(at, flips) \ at \in SUBSET flips
      BY <2>8, <3>2, BuildIsOneHot
    <3> QED BY <2>2, <2>6, <3>1, <3>3
  <2>10. IsFiniteSet(Groups) /\ IsFiniteSet(steps) /\ g \notin steps
    <3>1. IsFiniteSet(Groups)
      BY NetsAssumption, InputsAreFinite
    <3> QED BY <2>2, <2>8, <3>1, FS_Subset
  <2>11. Cardinality(steps') = Cardinality(steps) + 1 /\ Cardinality(steps) \in Nat
    BY <2>2, <2>10, FS_AddElement, FS_CardinalityType
  <2>12. Cardinality(at' \ model.row) <= Cardinality(at \ model.row) + 1
    <3>1. PICK d, d2 : d = at \ model.row /\ d2 = at' \ model.row
      OBVIOUS
    <3>2. d2 \in SUBSET (d \cup {p})
      BY <2>9, <3>1
    <3>3. IsFiniteSet(d) /\ IsFiniteSet(d2)
      BY <1>2, <2>8, <2>9, <3>1, BallIs
    <3>4. /\ IsFiniteSet(d \cup {p})
          /\ Cardinality(d \cup {p}) = IF p \in d THEN Cardinality(d) ELSE Cardinality(d) + 1
      BY <3>3, FS_AddElement
    <3>5. Cardinality(d2) <= Cardinality(d \cup {p})
      BY <3>2, <3>4, FS_Subset
    <3>6. Cardinality(d) \in Nat /\ Cardinality(d2) \in Nat
      BY <3>3, FS_CardinalityType
    <3> QED BY <3>1, <3>4, <3>5, <3>6
  <2>13. Cardinality(at' \ model.row) \in Nat /\ Cardinality(at \ model.row) \in Nat
    BY <1>2, <2>8, <2>9, BallIs
  <2>14. steps' \in SUBSET Groups
    BY <2>2, <2>8
  <2>15. Cardinality(at' \ model.row) <= Cardinality(steps') /\ Cardinality(steps') <= K
    BY <1>2, <2>3, <2>8, <2>11, <2>12, <2>13
  <2>16. GreedyWithinBudget'
    BY <2>3, <2>9, <2>14, <2>15 DEF GreedyWithinBudget
  <2> QED BY <2>4, <2>5, <2>16 DEF Accounted
<1>5. CASE GreedyAttack
  <2>1. Attack(at) /\ UNCHANGED <<model, eval, K, left, at, steps>>
    BY <1>5 DEF GreedyAttack
  <2>2. /\ at \in OneHotStates /\ Cardinality(at \ model.row) <= Cardinality(steps)
        /\ Cardinality(steps) <= K /\ steps \in SUBSET Groups
    BY DEF Accounted, GreedyWithinBudget
  <2>3. at \in Ball(model.row, K)
    <3>1. IsFiniteSet(steps)
      BY <2>2, NetsAssumption, InputsAreFinite, FS_Subset
    <3>2. Cardinality(at \ model.row) \in Nat /\ Cardinality(steps) \in Nat
      BY <1>2, <2>2, <3>1, BallIs, FS_CardinalityType
    <3>3. Cardinality(at \ model.row) <= K
      BY <1>2, <2>2, <3>2
    <3> QED BY <1>2, <2>2, <3>3, BallIs
  <2>4. VerdictAccountedFor'
    BY <2>1, <2>2, AttackKeepsVerdict DEF Accounted
  <2>5. GreedyWithinBudget'
    BY <2>1 DEF Accounted, GreedyWithinBudget
  <2>6. visited' = visited \cup {at}
    BY <2>1 DEF Attack
  <2>7. PassesAccountedFor'
    BY <2>1, <2>3, <2>6 DEF Accounted, PassesAccountedFor
  <2> QED BY <2>4, <2>5, <2>7 DEF Accounted
<1>6. CASE UNCHANGED evalVars
  <2>1. UNCHANGED <<model, eval, K, left, visited, survives, worst, at, steps>>
    BY <1>6 DEF evalVars
  <2> QED BY <2>1 DEF Accounted, PassesAccountedFor, GreedyWithinBudget, VerdictAccountedFor
<1> QED BY <1>3, <1>4, <1>5, <1>6 DEF EvalNext

\* Of every evaluator: the passes that are done were attacked, in states of
\* the budget and no others; the greedy attack stays within it; and the
\* verdict so far is one that some state, or all of them, has given.
THEOREM VerdictsAreAccountedFor == EvalSpec => []Accounted
BY AccountedInitially, AccountedIsKept, PTL DEF EvalSpec

\* What the invariant says of a run that has finished.
LEMMA AtTheEnd ==
  ASSUME Accounted
  PROVE  /\ \E net \in Nets : model \in Rows(net)
         /\ eval \in Evaluators /\ K \in eval.ks /\ K \in Nat
         /\ model.row \in OneHotStates /\ visited \in SUBSET Ball(model.row, K)
         /\ visited \in SUBSET OneHotStates
         /\ Finished =>
              \A t \in Ball(model.row, K) :
                (eval.over = "candidates" /\ K <= 2) \/ (eval.over = "singles" /\ K <= 1)
                  => t \in visited
<1>1. PICK net \in Nets : model \in Rows(net)
  BY DEF Accounted, PassesAccountedFor
<1>2. /\ eval \in Evaluators /\ K \in eval.ks /\ K \in Nat /\ model.row \in OneHotStates
      /\ visited \in SUBSET Ball(model.row, K) /\ visited \in SUBSET OneHotStates
  <2>1. /\ eval \in Evaluators /\ K \in eval.ks /\ model.row \in OneHotStates
        /\ visited \in SUBSET Ball(model.row, K)
    BY <1>1 DEF Accounted, PassesAccountedFor, Rows
  <2> QED BY <2>1, EvaluatorsAre, BallIs
<1>3. ASSUME Finished, NEW t \in Ball(model.row, K),
             (eval.over = "candidates" /\ K <= 2) \/ (eval.over = "singles" /\ K <= 1)
      PROVE  t \in visited
  <2>1. PICK pass \in Passes(eval, K, model.row) :
          \A flips \in pass : t = Build(model.row, flips)
    BY <1>2, <1>3, PassesReachTheBall
  <2>2. \E flips \in pass : Build(model.row, flips) \in visited
    BY <1>3 DEF Finished, Accounted, PassesAccountedFor
  <2> QED BY <2>1, <2>2
<1> QED BY <1>1, <1>2, <1>3

LEMMA EnumerationFollows ==
  Accounted => EnumerationIsTheBall
<1> SUFFICES ASSUME Accounted, Finished, eval.over = "candidates", K <= 2
             PROVE  /\ visited = Ball(model.row, K)
                    /\ minimal_candidate_count(K) = Cardinality(visited)
  BY DEF EnumerationIsTheBall
<1>1. /\ K \in Nat /\ model.row \in OneHotStates /\ visited \in SUBSET Ball(model.row, K)
      /\ \A t \in Ball(model.row, K) : t \in visited
  BY AtTheEnd
<1>2. visited = Ball(model.row, K) /\ K \in {0, 1, 2}
  BY <1>1
<1>3. Cardinality(Ball(model.row, K)) = minimal_candidate_count(K)
  BY <1>1, <1>2, BallCount
<1> QED BY <1>2, <1>3

LEMMA BreaksFollow ==
  Accounted => BreaksAreWithinBudget
<1> SUFFICES ASSUME Accounted, Finished, Broken, eval.with \notin {"ibp", "crown"}
             PROVE  \E s \in Ball(model.row, K) : CanBreak(s)
  BY DEF BreaksAreWithinBudget
<1>1. PICK net \in Nets : model \in Rows(net)
  BY AtTheEnd
<1>2. eval \in Evaluators /\ visited \in SUBSET Ball(model.row, K)
      /\ visited \in SUBSET OneHotStates
  BY AtTheEnd
<1>3. \E s \in visited : \E n \in Outcomes(model, eval, s) : Misclassified(model, n)
  <2>1. CASE eval.verdict = "all"
    <3>1. PICK s \in visited : \E n \in Outcomes(model, eval, s) : ~Withstood(model, eval, n)
      BY <2>1 DEF Broken, Accounted, VerdictAccountedFor
    <3> QED BY <3>1 DEF Withstood
  <2>2. CASE eval.verdict # "all"
    <3>1. Misclassified(model, worst) /\ eval.verdict = "worst"
      BY <1>2, <2>2, EvaluatorsAre DEF Broken
    <3>2. visited # {}
      <4>1. ~Misclassified(model, CleanMargin(model, model.row))
        BY <1>2, <3>1, EvaluatorsAre DEF Accounted, PassesAccountedFor, Selected
      <4> QED BY <3>1, <4>1 DEF Accounted, VerdictAccountedFor
    <3> QED BY <3>1, <3>2 DEF Accounted, VerdictAccountedFor
  <2> QED BY <2>1, <2>2
<1>4. PICK s \in visited : \E n \in Outcomes(model, eval, s) : Misclassified(model, n)
  BY <1>3
<1>5. PICK n \in Outcomes(model, eval, s) : Misclassified(model, n)
  BY <1>4
<1>6. n \in Margins(model, s)
  BY <1>1, <1>2, OutcomesAre
<1> QED BY <1>2, <1>5, <1>6 DEF CanBreak

LEMMA MissesFollow ==
  Accounted => ExhaustiveMissesNothing
<1> SUFFICES ASSUME Accounted, Finished, ~Broken, eval.with = "pgd",
                    NEW s \in Ball(model.row, K),
                    (eval.over = "candidates" /\ K <= 2) \/ eval.over = "singles"
             PROVE  ~MustBreak(s)
  BY DEF ExhaustiveMissesNothing
<1>1. PICK net \in Nets : model \in Rows(net)
  BY AtTheEnd
<1>2. eval \in Evaluators /\ K \in eval.ks /\ K \in Nat /\ visited \in SUBSET OneHotStates
  BY AtTheEnd
<1>3. /\ eval.over = "candidates" => eval.verdict = "all"
      /\ eval.over = "singles" => eval.verdict = "worst" /\ K <= 1
  BY <1>2, EvaluatorsAre
<1>4. s \in visited
  BY <1>3, AtTheEnd
<1>5. Outcomes(model, eval, s) \in SUBSET Margins(model, s)
      /\ Outcomes(model, eval, s) \in SUBSET Int
  BY <1>1, <1>2, <1>4, OutcomesAre
<1>6. CASE eval.over = "candidates"
  <2>1. survives
    BY <1>3, <1>6 DEF Broken
  <2>2. PICK n \in Outcomes(model, eval, s) : Withstood(model, eval, n)
    BY <1>4, <2>1 DEF Accounted, VerdictAccountedFor
  <2>3. ~Misclassified(model, n)
    BY <2>2 DEF Withstood
  <2> QED BY <1>5, <2>3 DEF MustBreak
<1>7. CASE eval.over = "singles"
  <2>1. ~Misclassified(model, worst) /\ eval.verdict = "worst"
    BY <1>3, <1>7 DEF Broken
  <2>2. PICK n \in Outcomes(model, eval, s) : worst <= n
    BY <1>4, <2>1 DEF Accounted, VerdictAccountedFor
  <2>3. worst \in Int
    <3>1. PICK t \in visited : worst \in Outcomes(model, eval, t)
      BY <1>4, <2>1 DEF Accounted, VerdictAccountedFor
    <3> QED BY <1>1, <1>2, <3>1, OutcomesAre
  <2>4. ~Misclassified(model, n)
    BY <1>5, <2>1, <2>2, <2>3 DEF Misclassified
  <2> QED BY <1>5, <2>4 DEF MustBreak
<1> QED BY <1>6, <1>7

LEMMA CertificatesFollow ==
  Accounted => CertificatesAreSound
<1> SUFFICES ASSUME Accounted, Finished, survives, eval.with \in {"ibp", "crown"},
                    NEW s \in Ball(model.row, K)
             PROVE  ~CanBreak(s)
  BY DEF CertificatesAreSound
<1>1. PICK net \in Nets : model \in Rows(net)
  BY AtTheEnd
<1>2. eval \in Evaluators /\ K \in eval.ks /\ K \in Nat /\ visited \in SUBSET OneHotStates
  BY AtTheEnd
<1>3. eval.over = "candidates" /\ K <= 1
  BY <1>2, EvaluatorsAre
<1>4. s \in visited
  <2>1. K <= 2
    BY <1>2, <1>3
  <2> QED BY <1>3, <2>1, AtTheEnd
<1>5. PICK n \in Outcomes(model, eval, s) : Withstood(model, eval, n)
  BY <1>4 DEF Accounted, VerdictAccountedFor
<1>6. \A q \in Margins(model, s) : q > 0
  BY <1>1, <1>2, <1>4, <1>5, OutcomesAre
<1>7. Margins(model, s) \in SUBSET Int
  BY <1>1, <1>2, <1>4, MarginsAre
<1>8. \A q \in Margins(model, s) : ~Misclassified(model, q)
  BY <1>6, <1>7 DEF Misclassified
<1> QED BY <1>8 DEF CanBreak

LEMMA BoundsFollow ==
  Accounted => CrownIsBetween
<1> SUFFICES ASSUME Accounted, NEW s \in visited,
                    NEW ibp, ibp = ibp_margin_lower_bounds(model.net, Box(model, s), model.label),
                    NEW crown, crown = crown_margin_lower(model.net, Point(model.x, s),
                                                          Box(model, s), model.label)
             PROVE  ibp * crown.den <= crown.num /\ crown.num <= crown.den * Min(Margins(model, s))
  BY DEF CrownIsBetween
<1>1. PICK net \in Nets : model \in Rows(net)
  BY AtTheEnd
<1>2. s \in OneHotStates
  BY AtTheEnd
<1>3. /\ Margins(model, s) \in SUBSET Int /\ CleanMargin(model, s) \in Margins(model, s)
      /\ ibp \in Int /\ ibp * crown.den <= crown.num
      /\ \A n \in Margins(model, s) : ibp <= n /\ crown.num <= crown.den * n
  BY <1>1, <1>2, MarginsAre
<1>4. Min(Margins(model, s)) \in Margins(model, s)
  <2>1. PICK T : T = Margins(model, s)
    OBVIOUS
  <2>2. T \in SUBSET Int /\ T # {} /\ \A n \in T : ibp <= n
    BY <1>3, <2>1
  <2>3. Min(T) \in T
    BY <1>3, <2>2, LeastMarginIs
  <2> QED BY <2>1, <2>3
<1> QED BY <1>3, <1>4

\* For budgets of up to two groups the enumeration visits the states of the
\* threat model and no others, and minimal_candidate_count is their number,
\* however many groups there are and of whatever sizes.
THEOREM EnumerationHolds == EvalSpec => []EnumerationIsTheBall
BY VerdictsAreAccountedFor, EnumerationFollows, PTL

\* An attack reports a break only where its own budget has one, whichever of
\* the evaluators it is, for any network, row, number of groups and budget.
THEOREM BreaksStayWithinBudget == EvalSpec => []BreaksAreWithinBudget
BY VerdictsAreAccountedFor, BreaksFollow, PTL

\* The exhaustive evaluators report no row as robust that has a state no
\* continuous start survives.
THEOREM NothingIsMissed == EvalSpec => []ExhaustiveMissesNothing
BY VerdictsAreAccountedFor, MissesFollow, PTL

\* Interval bounds and CROWN bounds certify no row that any point of any
\* state of the budget breaks.
THEOREM CertificatesHold == EvalSpec => []CertificatesAreSound
BY VerdictsAreAccountedFor, CertificatesFollow, PTL

\* CROWN lies between interval propagation and the least margin, for any
\* network.
THEOREM CrownStaysBetween == EvalSpec => []CrownIsBetween
BY VerdictsAreAccountedFor, BoundsFollow, PTL
=============================================================================
