------------------------------ MODULE DataFacts ------------------------------
(***************************************************************************)
(* What the theorems need to know of data.  The least element of a set of  *)
(* naturals; what Append, Tail, concatenation and RemoveAt do to the       *)
(* elements of a sequence and to its being free of duplicates; sums and    *)
(* products over finite sets, which are folds, by induction on subsets.    *)
(***************************************************************************)
EXTENDS Integers, SequencesExt, FiniteSetTheorems, WellFoundedInduction, TLAPS

\* A set of naturals has a least element.
LEMMA LeastNatural ==
  ASSUME NEW T \in SUBSET Nat, T # {}
  PROVE  \E m \in T : \A k \in T : m <= k
<1>1. PICK m \in T : \A k \in T : <<k, m>> \notin OpToRel(<, Nat)
  BY NatLessThanWellFounded, WFMin
<1>2. ASSUME NEW k \in T PROVE m <= k
  <2>1. k \in Nat /\ m \in Nat /\ <<k, m>> \in Nat \X Nat
    OBVIOUS
  <2>2. ~ (k < m)
    BY <1>1, <2>1 DEF OpToRel
  <2> QED BY <2>1, <2>2
<1> QED BY <1>2

\* The element at each place of a concatenation.
LEMMA ConcatFacts ==
  ASSUME NEW S, NEW s \in Seq(S), NEW t \in Seq(S)
  PROVE  /\ s \o t \in Seq(S) /\ Len(s) \in Nat /\ Len(t) \in Nat
         /\ Len(s \o t) = Len(s) + Len(t)
         /\ \A i \in 1..(Len(s) + Len(t)) :
              (s \o t)[i] = IF i <= Len(s) THEN s[i] ELSE t[i - Len(s)]
OBVIOUS

LEMMA SeqOfSubset ==
  ASSUME NEW S, NEW T, NEW s \in Seq(S), \A e \in S : e \in T
  PROVE  s \in Seq(T)
<1>1. Len(s) \in Nat /\ s = [i \in 1..Len(s) |-> s[i]]
  OBVIOUS
<1>2. \A i \in 1..Len(s) : s[i] \in T
  OBVIOUS
<1>3. [i \in 1..Len(s) |-> s[i]] \in Seq(T)
  BY <1>1, <1>2
<1> QED BY <1>1, <1>3

LEMMA ToSetAppend ==
  ASSUME NEW S, NEW s \in Seq(S), NEW e \in S
  PROVE  ToSet(Append(s, e)) = ToSet(s) \cup {e}
<1>1. DOMAIN s = 1..Len(s) /\ DOMAIN Append(s, e) = 1..(Len(s) + 1)
  OBVIOUS
<1>2. \A i \in 1..Len(s) : Append(s, e)[i] = s[i]
  OBVIOUS
<1>3. Append(s, e)[Len(s) + 1] = e
  OBVIOUS
<1>4. Len(s) \in Nat
  OBVIOUS
<1> QED BY <1>1, <1>2, <1>3, <1>4 DEF ToSet

LEMMA ToSetHeadTail ==
  ASSUME NEW S, NEW s \in Seq(S), s # <<>>
  PROVE  /\ ToSet(s) = ToSet(Tail(s)) \cup {Head(s)}
         /\ Tail(s) \in Seq(S) /\ Head(s) \in S
<1>1. /\ Tail(s) \in Seq(S) /\ Head(s) \in S
      /\ Len(s) \in Nat \ {0} /\ Len(Tail(s)) = Len(s) - 1
      /\ Head(s) = s[1]
      /\ \A i \in 1..(Len(s) - 1) : Tail(s)[i] = s[i + 1]
  OBVIOUS
<1>2. DOMAIN s = 1..Len(s) /\ DOMAIN Tail(s) = 1..(Len(s) - 1)
  BY <1>1
<1>3. ASSUME NEW i \in 1..Len(s) PROVE s[i] \in ToSet(Tail(s)) \cup {Head(s)}
  <2>1. CASE i = 1
    BY <1>1, <2>1
  <2>2. CASE i # 1
    <3>1. i - 1 \in 1..(Len(s) - 1) /\ Tail(s)[i - 1] = s[i]
      BY <1>1, <2>2
    <3> QED BY <3>1, <1>2 DEF ToSet
  <2> QED BY <2>1, <2>2
<1>4. ASSUME NEW i \in 1..(Len(s) - 1) PROVE Tail(s)[i] \in ToSet(s)
  <2>1. i + 1 \in 1..Len(s)
    BY <1>1
  <2> QED BY <2>1, <1>1, <1>2 DEF ToSet
<1>5. Head(s) \in ToSet(s)
  BY <1>1, <1>2 DEF ToSet
<1> QED BY <1>1, <1>2, <1>3, <1>4, <1>5 DEF ToSet

LEMMA ToSetConcat ==
  ASSUME NEW S, NEW s \in Seq(S), NEW t \in Seq(S)
  PROVE  ToSet(s \o t) = ToSet(s) \cup ToSet(t)
<1>1. /\ s \o t \in Seq(S) /\ Len(s) \in Nat /\ Len(t) \in Nat
      /\ Len(s \o t) = Len(s) + Len(t)
      /\ \A i \in 1..(Len(s) + Len(t)) :
           (s \o t)[i] = IF i <= Len(s) THEN s[i] ELSE t[i - Len(s)]
  OBVIOUS
<1>2. /\ DOMAIN s = 1..Len(s) /\ DOMAIN t = 1..Len(t)
      /\ DOMAIN (s \o t) = 1..(Len(s) + Len(t))
  BY <1>1
<1>3. ASSUME NEW i \in 1..(Len(s) + Len(t)) PROVE (s \o t)[i] \in ToSet(s) \cup ToSet(t)
  <2>1. CASE i <= Len(s)
    BY <1>1, <1>2, <2>1 DEF ToSet
  <2>2. CASE ~(i <= Len(s))
    <3>1. i - Len(s) \in 1..Len(t) /\ (s \o t)[i] = t[i - Len(s)]
      BY <1>1, <2>2
    <3> QED BY <3>1, <1>2 DEF ToSet
  <2> QED BY <2>1, <2>2
<1>4. ASSUME NEW i \in 1..Len(s) PROVE s[i] \in ToSet(s \o t)
  <2>1. i \in 1..(Len(s) + Len(t)) /\ (s \o t)[i] = s[i]
    BY <1>1
  <2> QED BY <2>1, <1>2 DEF ToSet
<1>5. ASSUME NEW i \in 1..Len(t) PROVE t[i] \in ToSet(s \o t)
  <2>1. i + Len(s) \in 1..(Len(s) + Len(t)) /\ (s \o t)[i + Len(s)] = t[i]
    BY <1>1
  <2> QED BY <2>1, <1>2 DEF ToSet
<1> QED BY <1>2, <1>3, <1>4, <1>5 DEF ToSet

LEMMA RemoveAtProperties ==
  ASSUME NEW S, NEW s \in Seq(S), NEW i \in 1..Len(s)
  PROVE  /\ RemoveAt(s, i) \in Seq(S)
         /\ Len(RemoveAt(s, i)) = Len(s) - 1
         /\ \A k \in 1..(Len(s) - 1) : RemoveAt(s, i)[k] = s[IF k < i THEN k ELSE k + 1]
<1> DEFINE p == SubSeq(s, 1, i - 1)
           q == SubSeq(s, i + 1, Len(s))
<1>1. Len(s) \in Nat /\ i \in Nat /\ 1 <= i /\ i <= Len(s)
  OBVIOUS
<1>2. /\ p \in Seq(S) /\ Len(p) = i - 1
      /\ \A k \in 1..(i - 1) : p[k] = s[k]
  BY <1>1
<1>3. /\ q \in Seq(S) /\ Len(q) = Len(s) - i
      /\ \A k \in 1..(Len(s) - i) : q[k] = s[k + i]
  <2>1. CASE i < Len(s)
    BY <1>1, <2>1
  <2>2. CASE i = Len(s)
    BY <1>1, <2>2
  <2> QED BY <1>1, <2>1, <2>2
<1>4. RemoveAt(s, i) = p \o q
  BY DEF RemoveAt
<1> HIDE DEF p, q
<1>5. /\ p \o q \in Seq(S) /\ Len(p \o q) = Len(p) + Len(q)
      /\ \A k \in 1..(Len(p) + Len(q)) : (p \o q)[k] = IF k <= Len(p) THEN p[k] ELSE q[k - Len(p)]
  BY <1>2, <1>3, ConcatFacts
<1>6. Len(p) + Len(q) = Len(s) - 1
  BY <1>1, <1>2, <1>3
<1>7. ASSUME NEW k \in 1..(Len(s) - 1)
      PROVE  (p \o q)[k] = s[IF k < i THEN k ELSE k + 1]
  <2>1. CASE k < i
    BY <1>1, <1>2, <1>5, <1>6, <2>1
  <2>2. CASE ~(k < i)
    <3>1. (p \o q)[k] = q[k - Len(p)]
      BY <1>1, <1>2, <1>5, <1>6, <2>2
    <3>2. k - Len(p) \in 1..(Len(s) - i) /\ (k - Len(p)) + i = k + 1
      BY <1>1, <1>2, <2>2
    <3> QED BY <3>1, <3>2, <1>3, <2>2
  <2> QED BY <2>1, <2>2
<1> QED BY <1>4, <1>5, <1>6, <1>7

\* The elements of an appended sequence and of a tail, place by place.
LEMMA AppendPlaces ==
  ASSUME NEW S, NEW s \in Seq(S), NEW e \in S
  PROVE  /\ Append(s, e) \in Seq(S) /\ Len(s) \in Nat /\ Len(Append(s, e)) = Len(s) + 1
         /\ Append(s, e)[Len(s) + 1] = e
         /\ \A i \in 1..Len(s) : Append(s, e)[i] = s[i]
OBVIOUS

LEMMA TailPlaces ==
  ASSUME NEW S, NEW s \in Seq(S), s # <<>>
  PROVE  /\ Tail(s) \in Seq(S) /\ Len(s) \in Nat \ {0} /\ Len(Tail(s)) = Len(s) - 1
         /\ Head(s) = s[1] /\ Head(s) \in S
         /\ \A i \in 1..(Len(s) - 1) : Tail(s)[i] = s[i + 1]
OBVIOUS

LEMMA RemoveAtHead ==
  ASSUME NEW S, NEW s \in Seq(S), s # <<>>
  PROVE  RemoveAt(s, 1) = Tail(s)
<1> DEFINE r == RemoveAt(s, 1)
           t == Tail(s)
<1>1. /\ Len(s) \in Nat \ {0} /\ 1 \in 1..Len(s)
      /\ t \in Seq(S) /\ Len(t) = Len(s) - 1
      /\ \A k \in 1..(Len(s) - 1) : t[k] = s[k + 1]
  OBVIOUS
<1>2. /\ r \in Seq(S) /\ Len(r) = Len(s) - 1
      /\ \A k \in 1..(Len(s) - 1) : r[k] = s[IF k < 1 THEN k ELSE k + 1]
  BY <1>1, RemoveAtProperties
<1> HIDE DEF r, t
<1>3. ASSUME NEW k \in 1..(Len(s) - 1) PROVE r[k] = t[k]
  <2>1. ~(k < 1)
    BY <1>1
  <2> QED BY <1>1, <1>2, <2>1
<1>4. DOMAIN r = 1..(Len(s) - 1) /\ DOMAIN t = 1..(Len(s) - 1)
  BY <1>1, <1>2
<1>5. r = t
  BY <1>1, <1>2, <1>3, <1>4
<1> QED BY <1>5 DEF r, t

LEMMA RemoveAtElements ==
  ASSUME NEW S, NEW s \in Seq(S), NEW i \in 1..Len(s)
  PROVE  /\ ToSet(s) = ToSet(RemoveAt(s, i)) \cup {s[i]}
         /\ IsInjective(s) => IsInjective(RemoveAt(s, i))
<1> DEFINE r == RemoveAt(s, i)
           at(k) == IF k < i THEN k ELSE k + 1
<1>1. /\ r \in Seq(S) /\ Len(r) = Len(s) - 1 /\ Len(s) \in Nat
      /\ \A k \in 1..(Len(s) - 1) : r[k] = s[at(k)]
  BY RemoveAtProperties
<1>2. DOMAIN r = 1..(Len(s) - 1) /\ DOMAIN s = 1..Len(s)
  BY <1>1
<1>3. \A k \in 1..(Len(s) - 1) : at(k) \in 1..Len(s) /\ at(k) # i
  BY <1>1
<1>4. \A k, l \in 1..(Len(s) - 1) : at(k) = at(l) => k = l
  BY <1>1
<1>5. ASSUME NEW k \in 1..Len(s), k # i PROVE \E l \in 1..(Len(s) - 1) : at(l) = k
  <2>1. CASE k < i
    <3>1. k \in 1..(Len(s) - 1) /\ at(k) = k
      BY <1>1, <2>1
    <3> QED BY <3>1
  <2>2. CASE ~(k < i)
    <3>1. k - 1 \in 1..(Len(s) - 1) /\ at(k - 1) = k
      BY <1>1, <1>5, <2>2
    <3> QED BY <3>1
  <2> QED BY <2>1, <2>2
<1> HIDE DEF at, r
<1>6. ToSet(s) = ToSet(r) \cup {s[i]}
  <2>1. ASSUME NEW k \in 1..Len(s) PROVE s[k] \in ToSet(r) \cup {s[i]}
    BY <1>1, <1>2, <1>5 DEF ToSet
  <2>2. ASSUME NEW k \in 1..(Len(s) - 1) PROVE r[k] \in ToSet(s)
    BY <1>1, <1>2, <1>3 DEF ToSet
  <2> QED BY <1>2, <2>1, <2>2 DEF ToSet
<1>7. IsInjective(s) => IsInjective(r)
  BY <1>1, <1>2, <1>3, <1>4 DEF IsInjective
<1> QED BY <1>6, <1>7 DEF r

LEMMA FreshAppend ==
  ASSUME NEW S, NEW s \in Seq(S), NEW e \in S
  PROVE  IsInjective(s) /\ e \notin ToSet(s) => IsInjective(Append(s, e))
<1> SUFFICES ASSUME IsInjective(s), e \notin ToSet(s)
             PROVE  IsInjective(Append(s, e))
  OBVIOUS
<1>1. /\ DOMAIN s = 1..Len(s) /\ DOMAIN Append(s, e) = 1..(Len(s) + 1) /\ Len(s) \in Nat
      /\ \A i \in 1..Len(s) : Append(s, e)[i] = s[i]
      /\ Append(s, e)[Len(s) + 1] = e
  OBVIOUS
<1>2. \A i \in 1..Len(s) : s[i] # e
  BY <1>1 DEF ToSet
<1>3. ASSUME NEW k \in 1..(Len(s) + 1), NEW l \in 1..(Len(s) + 1),
             Append(s, e)[k] = Append(s, e)[l]
      PROVE  k = l
  <2>1. CASE k \in 1..Len(s) /\ l \in 1..Len(s)
    BY <1>1, <1>3, <2>1 DEF IsInjective
  <2>2. CASE k = Len(s) + 1 \/ l = Len(s) + 1
    BY <1>1, <1>2, <1>3, <2>2
  <2> QED BY <1>1, <2>1, <2>2
<1> QED BY <1>1, <1>3 DEF IsInjective

LEMMA TailInjective ==
  ASSUME NEW S, NEW s \in Seq(S), s # <<>>, IsInjective(s)
  PROVE  IsInjective(Tail(s)) /\ Head(s) \notin ToSet(Tail(s))
<1>1. /\ DOMAIN s = 1..Len(s) /\ DOMAIN Tail(s) = 1..(Len(s) - 1) /\ Len(s) \in Nat \ {0}
      /\ \A i \in 1..(Len(s) - 1) : Tail(s)[i] = s[i + 1]
      /\ Head(s) = s[1]
  OBVIOUS
<1>2. \A i \in 1..(Len(s) - 1) : i + 1 \in 1..Len(s) /\ i + 1 # 1
  BY <1>1
<1> QED BY <1>1, <1>2 DEF IsInjective, ToSet

-----------------------------------------------------------------------------
(* Two sequences u and q read as one, u \o q.                              *)

LEMMA MoveBoundary ==
  ASSUME NEW S, NEW u \in Seq(S), NEW q \in Seq(S), q # <<>>
  PROVE  Append(u, Head(q)) \o Tail(q) = u \o q
OBVIOUS

LEMMA EmptyFront ==
  ASSUME NEW S, NEW u \in Seq(S), NEW q \in Seq(S)
  PROVE  <<>> \o (u \o q) = u \o q
OBVIOUS

LEMMA AppendToBack ==
  ASSUME NEW S, NEW u \in Seq(S), NEW q \in Seq(S), NEW e \in S
  PROVE  u \o Append(q, e) = Append(u \o q, e)
OBVIOUS

LEMMA RemoveFromFront ==
  ASSUME NEW S, NEW u \in Seq(S), NEW q \in Seq(S), NEW i \in 1..Len(u)
  PROVE  i \in 1..Len(u \o q) /\ RemoveAt(u, i) \o q = RemoveAt(u \o q, i) /\ (u \o q)[i] = u[i]
<1>1. /\ u \o q \in Seq(S) /\ Len(u) \in Nat /\ Len(q) \in Nat
      /\ Len(u \o q) = Len(u) + Len(q)
      /\ \A k \in 1..(Len(u) + Len(q)) : (u \o q)[k] = IF k <= Len(u) THEN u[k] ELSE q[k - Len(u)]
  OBVIOUS
<1>2. i \in 1..Len(u \o q) /\ (u \o q)[i] = u[i]
  BY <1>1
<1> DEFINE a == RemoveAt(u, i)
           b == RemoveAt(u \o q, i)
<1>3. /\ a \in Seq(S) /\ Len(a) = Len(u) - 1
      /\ \A k \in 1..(Len(u) - 1) : a[k] = u[IF k < i THEN k ELSE k + 1]
  BY RemoveAtProperties
<1>4. /\ b \in Seq(S) /\ Len(b) = Len(u) + Len(q) - 1
      /\ \A k \in 1..(Len(u) + Len(q) - 1) : b[k] = (u \o q)[IF k < i THEN k ELSE k + 1]
  <2> DEFINE w == u \o q
  <2>1. w \in Seq(S) /\ i \in 1..Len(w) /\ Len(w) - 1 = Len(u) + Len(q) - 1
    BY <1>1, <1>2
  <2> HIDE DEF w
  <2>2. /\ RemoveAt(w, i) \in Seq(S) /\ Len(RemoveAt(w, i)) = Len(w) - 1
        /\ \A k \in 1..(Len(w) - 1) : RemoveAt(w, i)[k] = w[IF k < i THEN k ELSE k + 1]
    BY <2>1, RemoveAtProperties
  <2> QED BY <2>1, <2>2 DEF w
<1> HIDE DEF a, b
<1>5. /\ a \o q \in Seq(S) /\ Len(a \o q) = Len(u) + Len(q) - 1
      /\ \A k \in 1..(Len(u) + Len(q) - 1) :
           (a \o q)[k] = IF k <= Len(u) - 1 THEN a[k] ELSE q[k - (Len(u) - 1)]
  <2>1. /\ a \o q \in Seq(S) /\ Len(a \o q) = Len(a) + Len(q)
        /\ \A k \in 1..(Len(a) + Len(q)) : (a \o q)[k] = IF k <= Len(a) THEN a[k] ELSE q[k - Len(a)]
    BY <1>3, ConcatFacts
  <2>2. Len(a) + Len(q) = Len(u) + Len(q) - 1
    BY <1>1, <1>3
  <2> QED BY <1>3, <2>1, <2>2
<1>6. ASSUME NEW k \in 1..(Len(u) + Len(q) - 1) PROVE (a \o q)[k] = b[k]
  <2>1. CASE k <= Len(u) - 1
    <3>1. (a \o q)[k] = u[IF k < i THEN k ELSE k + 1]
      BY <1>1, <1>3, <1>5, <2>1
    <3>2. (IF k < i THEN k ELSE k + 1) \in 1..Len(u)
      BY <1>1, <2>1
    <3> QED BY <1>1, <1>4, <3>1, <3>2
  <2>2. CASE ~(k <= Len(u) - 1)
    <3>1. (a \o q)[k] = q[k - (Len(u) - 1)] /\ ~(k < i)
      BY <1>1, <1>5, <2>2
    <3>2. b[k] = (u \o q)[k + 1] /\ k + 1 \in 1..(Len(u) + Len(q)) /\ ~(k + 1 <= Len(u))
      <4>1. b[k] = (u \o q)[k + 1]
        BY <1>4, <3>1
      <4>2. k + 1 \in 1..(Len(u) + Len(q)) /\ ~(k + 1 <= Len(u))
        BY <1>1, <2>2
      <4> QED BY <4>1, <4>2
    <3>3. (u \o q)[k + 1] = q[(k + 1) - Len(u)] /\ (k + 1) - Len(u) = k - (Len(u) - 1)
      BY <1>1, <3>2
    <3> QED BY <3>1, <3>2, <3>3
  <2> QED BY <2>1, <2>2
<1>7. a \o q = b
  <2>1. DOMAIN (a \o q) = 1..(Len(u) + Len(q) - 1) /\ DOMAIN b = 1..(Len(u) + Len(q) - 1)
    BY <1>4, <1>5
  <2> QED BY <1>4, <1>5, <1>6, <2>1, SMTT(40)
<1> QED BY <1>2, <1>7 DEF a, b

-----------------------------------------------------------------------------
(* The elements that s and t share come in the same order in both.         *)

InOrder(s, t) ==
  \A i, k \in 1..Len(s), m, n \in 1..Len(t) : i < k /\ s[i] = t[m] /\ s[k] = t[n] => m < n

LEMMA InOrderAppend ==
  ASSUME NEW S, NEW s \in Seq(S), NEW t \in Seq(S), NEW e \in S,
         InOrder(s, t), ToSet(s) \subseteq ToSet(t), e \notin ToSet(t)
  PROVE  InOrder(Append(s, e), Append(t, e))
<1> DEFINE u == Append(s, e)
           v == Append(t, e)
<1>1. /\ Len(s) \in Nat /\ Len(u) = Len(s) + 1 /\ u[Len(s) + 1] = e
      /\ \A i \in 1..Len(s) : u[i] = s[i]
  BY AppendPlaces
<1>2. /\ Len(t) \in Nat /\ Len(v) = Len(t) + 1 /\ v[Len(t) + 1] = e
      /\ \A i \in 1..Len(t) : v[i] = t[i]
  BY AppendPlaces
<1>3. /\ \A i \in 1..Len(s) : s[i] \in ToSet(s)
      /\ \A i \in 1..Len(t) : t[i] \in ToSet(t)
  BY DEF ToSet
<1>4. (\A i \in 1..Len(s) : s[i] # e) /\ (\A i \in 1..Len(t) : t[i] # e)
  BY <1>3
<1> HIDE DEF u, v
<1>5. ASSUME NEW i \in 1..(Len(s) + 1), NEW k \in 1..(Len(s) + 1),
             NEW m \in 1..(Len(t) + 1), NEW n \in 1..(Len(t) + 1),
             i < k, u[i] = v[m], u[k] = v[n]
      PROVE  m < n
  <2>1. Len(s) \in Nat /\ Len(t) \in Nat
    BY <1>1, <1>2
  <2>2. i \in 1..Len(s) /\ u[i] = s[i]
    <3>1. i \in 1..Len(s)
      BY <1>5, <2>1
    <3> QED BY <1>1, <3>1
  <2>3. m \in 1..Len(t) /\ v[m] = t[m]
    <3>1. m # Len(t) + 1
      BY <1>2, <1>4, <1>5, <2>2
    <3>2. m \in 1..Len(t)
      BY <2>1, <3>1
    <3> QED BY <1>2, <3>2
  <2>4. CASE k = Len(s) + 1
    <3>1. n = Len(t) + 1
      <4>1. v[n] = e
        BY <1>1, <1>5, <2>4
      <4>2. n \notin 1..Len(t)
        BY <1>2, <1>4, <4>1
      <4> QED BY <2>1, <4>2
    <3> QED BY <1>2, <2>3, <3>1
  <2>5. CASE k # Len(s) + 1
    <3>1. k \in 1..Len(s) /\ u[k] = s[k]
      BY <1>1, <2>5
    <3>2. n \in 1..Len(t) /\ v[n] = t[n]
      <4>1. n # Len(t) + 1
        BY <1>2, <1>4, <1>5, <3>1
      <4>2. n \in 1..Len(t)
        BY <2>1, <4>1
      <4> QED BY <1>2, <4>2
    <3> QED BY <1>5, <2>2, <2>3, <3>1, <3>2 DEF InOrder
  <2> QED BY <2>4, <2>5
<1>6. InOrder(u, v)
  BY <1>1, <1>2, <1>5 DEF InOrder
<1> QED BY <1>6 DEF u, v

LEMMA InOrderRemove ==
  ASSUME NEW S, NEW s \in Seq(S), NEW t \in Seq(S), NEW i \in 1..Len(s), InOrder(s, t)
  PROVE  InOrder(RemoveAt(s, i), t)
<1> DEFINE r == RemoveAt(s, i)
           at(k) == IF k < i THEN k ELSE k + 1
<1>1. /\ r \in Seq(S) /\ Len(r) = Len(s) - 1 /\ Len(s) \in Nat
      /\ \A k \in 1..(Len(s) - 1) : r[k] = s[at(k)]
  BY RemoveAtProperties
<1>2. \A k, l \in 1..(Len(s) - 1) : at(k) \in 1..Len(s) /\ (k < l => at(k) < at(l))
  BY <1>1
<1> HIDE DEF r, at
<1>3. ASSUME NEW k \in 1..(Len(s) - 1), NEW l \in 1..(Len(s) - 1),
             NEW m \in 1..Len(t), NEW n \in 1..Len(t),
             k < l, r[k] = t[m], r[l] = t[n]
      PROVE  m < n
  <2>1. PICK p, q \in 1..Len(s) : p = at(k) /\ q = at(l) /\ p < q
    BY <1>2, <1>3
  <2>2. s[p] = t[m] /\ s[q] = t[n]
    BY <1>1, <1>3, <2>1
  <2> QED BY <2>1, <2>2 DEF InOrder
<1>4. InOrder(r, t)
  BY <1>1, <1>3 DEF InOrder
<1> QED BY <1>4 DEF r

-----------------------------------------------------------------------------
(* Sums and products over finite sets, by induction on their subsets.      *)

Sum(f, S) == SumFunctionOnSet(f, S)
Product(f, S) == FoldFunctionOnSet(LAMBDA a, b : a * b, 1, f, S)

\* A set of sets that has every subset of S whose smaller ones it has, has all.
LEMMA SubsetInduction ==
  ASSUME NEW S, IsFiniteSet(S), NEW P,
         \A s \in SUBSET S : (\A x \in s : s \ {x} \in P) => s \in P
  PROVE  SUBSET S \subseteq P
<1> SUFFICES ASSUME (SUBSET S) \ P # {} PROVE FALSE
  OBVIOUS
<1> DEFINE Cards == {Cardinality(s) : s \in (SUBSET S) \ P}
<1>1. \A s \in SUBSET S : IsFiniteSet(s) /\ Cardinality(s) \in Nat
  BY FS_Subset, FS_CardinalityType
<1>2. PICK n \in Cards : \A m \in Cards : n <= m
  <2>1. Cards \in SUBSET Nat /\ Cards # {}
    BY <1>1
  <2> HIDE DEF Cards
  <2> QED BY <2>1, LeastNatural
<1>3. PICK s \in (SUBSET S) \ P : n = Cardinality(s)
  OBVIOUS
<1>4. ASSUME NEW x \in s PROVE s \ {x} \in P
  <2>1. Cardinality(s \ {x}) = Cardinality(s) - 1
    BY <1>1, <1>3, FS_RemoveElement
  <2>2. s \ {x} \in SUBSET S
    BY <1>3
  <2>3. ~(Cardinality(s) <= Cardinality(s \ {x}))
    BY <1>1, <1>3, <2>1
  <2>4. s \ {x} \notin P => Cardinality(s \ {x}) \in Cards
    BY <2>2
  <2> HIDE DEF Cards
  <2> QED BY <1>2, <1>3, <2>3, <2>4
<1> QED BY <1>3, <1>4

\* One step of the fold: of a sum or of a product.
Fold(m, g, f, s) ==
  IF s = {} THEN IF m = "product" THEN 1 ELSE 0
  ELSE LET x == CHOOSE x \in s : TRUE
       IN  IF m = "product" THEN f[x] * g[s \ {x}] ELSE f[x] + g[s \ {x}]

IsFold(m, g, f, S) == g = [s \in SUBSET S |-> Fold(m, g, f, s)]

LEMMA SumIsFold ==
  ASSUME NEW f, NEW S
  PROVE  Sum(f, S) = (CHOOSE g : IsFold("sum", g, f, S))[S]
BY DEF Sum, SumFunctionOnSet, FoldFunctionOnSet, MapThenFoldSet, Fold, IsFold

LEMMA ProductIsFold ==
  ASSUME NEW f, NEW S
  PROVE  Product(f, S) = (CHOOSE g : IsFold("product", g, f, S))[S]
BY DEF Product, FoldFunctionOnSet, MapThenFoldSet, Fold, IsFold

\* The fold of a set, and of a subset of it, agree.
LEMMA FoldsAgree ==
  ASSUME NEW m, NEW f, NEW S, IsFiniteSet(S), NEW T \in SUBSET S,
         NEW g, IsFold(m, g, f, S), NEW h, IsFold(m, h, f, T)
  PROVE  \A s \in SUBSET T : g[s] = h[s]
<1> DEFINE P == {s \in SUBSET T : g[s] = h[s]}
<1>1. ASSUME NEW s \in SUBSET T, \A x \in s : s \ {x} \in P
      PROVE  s \in P
  <2>1. g[s] = Fold(m, g, f, s) /\ h[s] = Fold(m, h, f, s)
    BY DEF IsFold
  <2>2. \A x \in s : g[s \ {x}] = h[s \ {x}]
    BY <1>1
  <2>3. s # {} => (CHOOSE x \in s : TRUE) \in s
    OBVIOUS
  <2>4. Fold(m, g, f, s) = Fold(m, h, f, s)
    BY <2>2, <2>3 DEF Fold
  <2> QED BY <2>1, <2>4
<1> HIDE DEF P
<1>2. SUBSET T \subseteq P
  <2>1. IsFiniteSet(T)
    BY FS_Subset
  <2> QED BY <1>1, <2>1, SubsetInduction
<1> QED BY <1>2 DEF P

LEMMA FoldExists ==
  ASSUME NEW m, NEW f, NEW S, IsFiniteSet(S)
  PROVE  \E g : IsFold(m, g, f, S)
<1> DEFINE P == {s \in SUBSET S : \E g : IsFold(m, g, f, s)}
<1>1. ASSUME NEW s \in SUBSET S, \A x \in s : s \ {x} \in P
      PROVE  s \in P
  <2> DEFINE G(t) == CHOOSE g : IsFold(m, g, f, t)
             base == [t \in SUBSET s |-> IF t = s THEN 0 ELSE G(t)[t]]
             whole == [t \in SUBSET s |-> Fold(m, base, f, t)]
  <2>1. \A t \in SUBSET s : IsFiniteSet(t)
    BY FS_Subset
  <2>2. ASSUME NEW t \in SUBSET s, t # s PROVE base[t] = Fold(m, base, f, t) /\ base[t] = whole[t]
    <3>1. PICK x \in s : t \in SUBSET (s \ {x})
      BY <2>2
    <3>2. PICK g : IsFold(m, g, f, s \ {x})
      BY <1>1
    <3>3. ASSUME NEW u \in SUBSET (s \ {x}) PROVE base[u] = g[u]
      <4>1. \E h : IsFold(m, h, f, u)
        <5>1. u \in SUBSET s /\ u # s
          OBVIOUS
        <5> DEFINE h == [v \in SUBSET u |-> g[v]]
        <5>2. \A v \in SUBSET u : Fold(m, h, f, v) = g[v]
          <6> SUFFICES ASSUME NEW v \in SUBSET u PROVE Fold(m, h, f, v) = g[v]
            OBVIOUS
          <6>1. g[v] = Fold(m, g, f, v)
            BY <3>2 DEF IsFold
          <6>2. v # {} => (CHOOSE y \in v : TRUE) \in v
            OBVIOUS
          <6>3. \A y \in v : h[v \ {y}] = g[v \ {y}]
            OBVIOUS
          <6> HIDE DEF h
          <6> QED BY <6>1, <6>2, <6>3 DEF Fold
        <5>3. h = [v \in SUBSET u |-> Fold(m, h, f, v)]
          BY <5>2
        <5> QED BY <5>3 DEF IsFold
      <4>2. IsFold(m, G(u), f, u)
        BY <4>1
      <4> HIDE DEF G
      <4>3. PICK h : h = G(u) /\ IsFold(m, h, f, u)
        BY <4>2
      <4>4. IsFiniteSet(s \ {x})
        BY <2>1
      <4>5. \A v \in SUBSET u : g[v] = h[v]
        BY <3>2, <4>3, <4>4, FoldsAgree
      <4> QED BY <4>3, <4>5 DEF G
    <3>4. g[t] = Fold(m, g, f, t)
      BY <3>1, <3>2 DEF IsFold
    <3>5. t # {} => (CHOOSE y \in t : TRUE) \in t
      OBVIOUS
    <3>6. \A y \in t : base[t \ {y}] = g[t \ {y}]
      BY <3>1, <3>3
    <3>7. base[t] = g[t]
      BY <3>1, <3>3
    <3> HIDE DEF base
    <3>8. Fold(m, base, f, t) = Fold(m, g, f, t)
      BY <3>5, <3>6 DEF Fold
    <3> QED BY <3>4, <3>7, <3>8
  <2>3. ASSUME NEW t \in SUBSET s PROVE Fold(m, base, f, t) = Fold(m, whole, f, t)
    <3>1. t # {} => (CHOOSE y \in t : TRUE) \in t
      OBVIOUS
    <3>2. \A y \in t : base[t \ {y}] = whole[t \ {y}]
      <4> TAKE y \in t
      <4>1. t \ {y} \in SUBSET s /\ t \ {y} # s
        OBVIOUS
      <4> HIDE DEF base, whole
      <4> QED BY <2>2, <4>1
    <3> HIDE DEF base, whole
    <3> QED BY <3>1, <3>2 DEF Fold
  <2>4. IsFold(m, whole, f, s)
    <3> HIDE DEF base
    <3>1. whole = [t \in SUBSET s |-> Fold(m, whole, f, t)]
      BY <2>3
    <3> QED BY <3>1 DEF IsFold
  <2> HIDE DEF whole
  <2> QED BY <2>4
<1> HIDE DEF P
<1>2. SUBSET S \subseteq P
  BY <1>1, SubsetInduction
<1> QED BY <1>2 DEF P

\* The folds are those of the definitions.
LEMMA FoldFacts ==
  ASSUME NEW f, NEW S, IsFiniteSet(S)
  PROVE  /\ \E g : IsFold("sum", g, f, S) /\ \A T \in SUBSET S : Sum(f, T) = g[T]
         /\ \E g : IsFold("product", g, f, S) /\ \A T \in SUBSET S : Product(f, T) = g[T]
<1>1. ASSUME NEW m \in {"sum", "product"}, NEW g, IsFold(m, g, f, S), NEW T \in SUBSET S
      PROVE  (CHOOSE h : IsFold(m, h, f, T))[T] = g[T]
  <2>1. IsFiniteSet(T)
    BY FS_Subset
  <2> DEFINE h == CHOOSE h : IsFold(m, h, f, T)
  <2>2. IsFold(m, h, f, T)
    BY <2>1, FoldExists
  <2> HIDE DEF h
  <2>3. \A s \in SUBSET T : g[s] = h[s]
    BY <1>1, <2>2, FoldsAgree
  <2> QED BY <2>3 DEF h
<1>2. PICK g : IsFold("sum", g, f, S)
  BY FoldExists
<1>3. PICK h : IsFold("product", h, f, S)
  BY FoldExists
<1>4. \A T \in SUBSET S : Sum(f, T) = g[T]
  BY <1>1, <1>2, SumIsFold
<1>5. \A T \in SUBSET S : Product(f, T) = h[T]
  BY <1>1, <1>3, ProductIsFold
<1> QED BY <1>2, <1>3, <1>4, <1>5

LEMMA EmptyFolds ==
  ASSUME NEW f
  PROVE  Sum(f, {}) = 0 /\ Product(f, {}) = 1
<1>1. \E g : IsFold("sum", g, f, {}) /\ \A T \in SUBSET {} : Sum(f, T) = g[T]
  BY FS_EmptySet, FoldFacts
<1>2. \E g : IsFold("product", g, f, {}) /\ \A T \in SUBSET {} : Product(f, T) = g[T]
  BY FS_EmptySet, FoldFacts
<1> QED BY <1>1, <1>2 DEF IsFold, Fold

LEMMA FoldIsInteger ==
  ASSUME NEW m \in {"sum", "product"}, NEW f, NEW S, IsFiniteSet(S), \A x \in S : f[x] \in Int,
         NEW g, IsFold(m, g, f, S)
  PROVE  \A s \in SUBSET S : g[s] \in Int
<1> DEFINE P == {s \in SUBSET S : g[s] \in Int}
<1>1. ASSUME NEW s \in SUBSET S, \A x \in s : s \ {x} \in P
      PROVE  s \in P
  <2>1. g[s] = Fold(m, g, f, s)
    BY DEF IsFold
  <2>2. CASE s = {}
    BY <2>1, <2>2 DEF Fold
  <2>3. CASE s # {}
    <3>1. PICK x \in s : g[s] = IF m = "product" THEN f[x] * g[s \ {x}] ELSE f[x] + g[s \ {x}]
      BY <2>1, <2>3 DEF Fold
    <3>2. g[s \ {x}] \in Int /\ f[x] \in Int
      BY <1>1
    <3> QED BY <3>1, <3>2
  <2> QED BY <2>2, <2>3
<1> HIDE DEF P
<1>2. SUBSET S \subseteq P
  BY <1>1, SubsetInduction
<1> QED BY <1>2 DEF P

\* The element to begin with does not matter.
LEMMA FoldTakesAny ==
  ASSUME NEW m \in {"sum", "product"}, NEW f, NEW S, IsFiniteSet(S), \A x \in S : f[x] \in Int,
         NEW g, IsFold(m, g, f, S)
  PROVE  \A s \in SUBSET S : \A y \in s :
           g[s] = IF m = "product" THEN f[y] * g[s \ {y}] ELSE f[y] + g[s \ {y}]
<1> DEFINE P == {s \in SUBSET S : \A y \in s :
                   g[s] = IF m = "product" THEN f[y] * g[s \ {y}] ELSE f[y] + g[s \ {y}]}
<1>1. ASSUME NEW s \in SUBSET S, \A x \in s : s \ {x} \in P, NEW y \in s
      PROVE  g[s] = IF m = "product" THEN f[y] * g[s \ {y}] ELSE f[y] + g[s \ {y}]
  <2>1. PICK x \in s : g[s] = IF m = "product" THEN f[x] * g[s \ {x}] ELSE f[x] + g[s \ {x}]
    BY DEF IsFold, Fold
  <2>2. CASE y # x
    <3>1. PICK r \in SUBSET S : (s \ {x}) \ {y} = r /\ (s \ {y}) \ {x} = r
      OBVIOUS
    <3>2. /\ g[s \ {x}] = IF m = "product" THEN f[y] * g[r] ELSE f[y] + g[r]
          /\ g[s \ {y}] = IF m = "product" THEN f[x] * g[r] ELSE f[x] + g[r]
      BY <1>1, <2>2, <3>1
    <3>3. PICK a, b, c \in Int : a = g[r] /\ b = f[x] /\ c = f[y]
      BY FoldIsInteger
    <3>4. b * (c * a) = c * (b * a) /\ b + (c + a) = c + (b + a)
      OBVIOUS
    <3>5. CASE m = "product"
      BY <2>1, <3>2, <3>3, <3>4, <3>5
    <3>6. CASE m # "product"
      BY <2>1, <3>2, <3>3, <3>4, <3>6
    <3> QED BY <3>5, <3>6
  <2> QED BY <2>1, <2>2
<1>2. \A s \in SUBSET S : (\A x \in s : s \ {x} \in P) => s \in P
  BY <1>1
<1> HIDE DEF P
<1>3. SUBSET S \subseteq P
  BY <1>2, SubsetInduction
<1> QED BY <1>3 DEF P

\* Sums and products of integers are integers, whatever element comes first.
LEMMA SumTakes ==
  ASSUME NEW f, NEW S, IsFiniteSet(S), \A x \in S : f[x] \in Int
  PROVE  /\ Sum(f, S) \in Int
         /\ \A y \in S : Sum(f, S) = f[y] + Sum(f, S \ {y}) /\ Sum(f, S \ {y}) \in Int
<1>1. PICK g : IsFold("sum", g, f, S) /\ \A T \in SUBSET S : Sum(f, T) = g[T]
  BY FoldFacts
<1>2. \A T \in SUBSET S : g[T] \in Int
  BY <1>1, FoldIsInteger
<1>3. \A y \in S : g[S] = f[y] + g[S \ {y}]
  BY <1>1, FoldTakesAny
<1> QED BY <1>1, <1>2, <1>3

LEMMA ProductTakes ==
  ASSUME NEW f, NEW S, IsFiniteSet(S), \A x \in S : f[x] \in Int
  PROVE  /\ Product(f, S) \in Int
         /\ \A y \in S : Product(f, S) = f[y] * Product(f, S \ {y}) /\ Product(f, S \ {y}) \in Int
<1>1. PICK g : IsFold("product", g, f, S) /\ \A T \in SUBSET S : Product(f, T) = g[T]
  BY FoldFacts
<1>2. \A T \in SUBSET S : g[T] \in Int
  BY <1>1, FoldIsInteger
<1>3. \A y \in S : g[S] = f[y] * g[S \ {y}]
  BY <1>1, FoldTakesAny
<1> QED BY <1>1, <1>2, <1>3

LEMMA TotalIsSum ==
  ASSUME NEW D, NEW f, DOMAIN f = D
  PROVE  SumFunction(f) = Sum(f, D)
BY DEF SumFunction, FoldFunction, Sum, SumFunctionOnSet

\* Sums are linear.
LEMMA SumIsLinear ==
  ASSUME NEW D, IsFiniteSet(D), NEW f, NEW g, NEW h, NEW a \in Int, NEW b \in Int,
         \A j \in D : f[j] \in Int /\ g[j] \in Int /\ h[j] = a * f[j] + b * g[j]
  PROVE  Sum(h, D) = a * Sum(f, D) + b * Sum(g, D)
<1> DEFINE P == {s \in SUBSET D : Sum(h, s) = a * Sum(f, s) + b * Sum(g, s)}
<1>1. ASSUME NEW s \in SUBSET D, \A x \in s : s \ {x} \in P
      PROVE  s \in P
  <2>1. CASE s = {}
    <3>1. a * 0 + b * 0 = 0
      OBVIOUS
    <3> QED BY <2>1, <3>1, EmptyFolds
  <2>2. ASSUME NEW x \in s PROVE Sum(h, s) = a * Sum(f, s) + b * Sum(g, s)
    <3>1. IsFiniteSet(s) /\ \A j \in s : h[j] \in Int /\ f[j] \in Int /\ g[j] \in Int
      BY FS_Subset
    <3>2. PICK p \in Int, q \in Int, r \in Int :
            p = Sum(f, s \ {x}) /\ q = Sum(g, s \ {x}) /\ r = Sum(h, s \ {x})
      BY <3>1, SumTakes
    <3>3. Sum(f, s) = f[x] + p /\ Sum(g, s) = g[x] + q /\ Sum(h, s) = h[x] + r
      BY <3>1, <3>2, SumTakes
    <3>4. r = a * p + b * q
      BY <1>1, <3>2
    <3>5. PICK u \in Int, v \in Int : u = f[x] /\ v = g[x] /\ h[x] = a * u + b * v
      OBVIOUS
    <3>6. (a * u + b * v) + (a * p + b * q) = a * (u + p) + b * (v + q)
      OBVIOUS
    <3> QED BY <3>3, <3>4, <3>5, <3>6
  <2> QED BY <2>1, <2>2
<1> HIDE DEF P
<1>2. SUBSET D \subseteq P
  BY <1>1, SubsetInduction
<1> QED BY <1>2 DEF P

\* Nothing below zero sums up to nothing below zero.
LEMMA SumIsNotNegative ==
  ASSUME NEW D, IsFiniteSet(D), NEW f, \A j \in D : f[j] \in Int /\ 0 <= f[j]
  PROVE  0 <= Sum(f, D)
<1> DEFINE P == {s \in SUBSET D : 0 <= Sum(f, s)}
<1>1. ASSUME NEW s \in SUBSET D, \A x \in s : s \ {x} \in P
      PROVE  s \in P
  <2>1. CASE s = {}
    BY <2>1, EmptyFolds
  <2>2. ASSUME NEW x \in s PROVE 0 <= Sum(f, s)
    <3>1. IsFiniteSet(s) /\ \A j \in s : f[j] \in Int
      BY FS_Subset
    <3>2. Sum(f, s) = f[x] + Sum(f, s \ {x}) /\ Sum(f, s \ {x}) \in Int
      BY <3>1, SumTakes
    <3>3. 0 <= Sum(f, s \ {x}) /\ 0 <= f[x] /\ f[x] \in Int
      BY <1>1
    <3> QED BY <3>2, <3>3
  <2> QED BY <2>1, <2>2
<1> HIDE DEF P
<1>2. SUBSET D \subseteq P
  BY <1>1, SubsetInduction
<1> QED BY <1>2 DEF P

\* The sum of the larger is the larger.
LEMMA SumIsMonotone ==
  ASSUME NEW D, IsFiniteSet(D), NEW f, NEW g,
         \A j \in D : f[j] \in Int /\ g[j] \in Int /\ f[j] <= g[j]
  PROVE  Sum(f, D) <= Sum(g, D)
<1>1. PICK h : h = [j \in D |-> g[j] - f[j]]
  OBVIOUS
<1>2. 0 <= Sum(h, D)
  BY <1>1, SumIsNotNegative
<1>3. Sum(h, D) = 1 * Sum(g, D) + (-1) * Sum(f, D)
  <2>1. \A j \in D : g[j] \in Int /\ f[j] \in Int /\ h[j] = 1 * g[j] + (-1) * f[j]
    BY <1>1
  <2> QED BY <2>1, SumIsLinear
<1>4. Sum(f, D) \in Int /\ Sum(g, D) \in Int
  BY SumTakes
<1> QED BY <1>2, <1>3, <1>4

\* Sums of equal terms.
LEMMA SumOfEquals ==
  ASSUME NEW D, IsFiniteSet(D), NEW f, NEW g, \A j \in D : f[j] \in Int /\ f[j] = g[j]
  PROVE  Sum(f, D) = Sum(g, D)
<1>1. Sum(f, D) \in Int /\ Sum(g, D) \in Int
  BY SumTakes
<1>2. Sum(f, D) <= Sum(g, D) /\ Sum(g, D) <= Sum(f, D)
  BY SumIsMonotone
<1> QED BY <1>1, <1>2

\* A sum over a part is the sum over the whole of what is zero elsewhere.
LEMMA SumOverPart ==
  ASSUME NEW D, IsFiniteSet(D), NEW T \in SUBSET D, NEW f, NEW g,
         \A j \in T : f[j] \in Int /\ g[j] = f[j], \A j \in D \ T : g[j] = 0
  PROVE  Sum(f, T) = Sum(g, D)
<1> DEFINE P == {s \in SUBSET D : Sum(f, s \cap T) = Sum(g, s)}
<1>1. IsFiniteSet(T)
  BY FS_Subset
<1>2. ASSUME NEW s \in SUBSET D, \A x \in s : s \ {x} \in P
      PROVE  s \in P
  <2>1. CASE s = {}
    <3>1. s \cap T = {}
      BY <2>1
    <3> QED BY <2>1, <3>1, EmptyFolds
  <2>2. ASSUME NEW x \in s PROVE Sum(f, s \cap T) = Sum(g, s)
    <3>1. IsFiniteSet(s) /\ IsFiniteSet(s \cap T) /\ \A j \in s : g[j] \in Int
      BY FS_Subset
    <3>2. Sum(g, s) = g[x] + Sum(g, s \ {x}) /\ Sum(g, s \ {x}) \in Int
      BY <3>1, SumTakes
    <3>3. Sum(f, (s \ {x}) \cap T) = Sum(g, s \ {x})
      BY <1>2
    <3>4. CASE x \in T
      <4>1. Sum(f, s \cap T) = f[x] + Sum(f, (s \cap T) \ {x})
        <5>1. PICK u : u = s \cap T
          OBVIOUS
        <5>2. IsFiniteSet(u) /\ x \in u /\ \A j \in u : f[j] \in Int
          BY <3>1, <3>4, <5>1
        <5>3. Sum(f, u) = f[x] + Sum(f, u \ {x})
          BY <5>2, SumTakes
        <5> QED BY <5>1, <5>3
      <4>2. (s \cap T) \ {x} = (s \ {x}) \cap T
        OBVIOUS
      <4> QED BY <3>2, <3>3, <3>4, <4>1, <4>2
    <3>5. CASE x \notin T
      <4>1. (s \ {x}) \cap T = s \cap T
        BY <3>5
      <4>2. g[x] = 0
        BY <3>5
      <4>3. Sum(g, s) = Sum(g, s \ {x})
        BY <3>2, <4>2
      <4>4. Sum(f, s \cap T) = Sum(f, (s \ {x}) \cap T)
        BY <4>1, Zenon
      <4> QED BY <3>3, <4>3, <4>4, Zenon
    <3> QED BY <3>4, <3>5
  <2> QED BY <2>1, <2>2
<1> HIDE DEF P
<1>3. SUBSET D \subseteq P
  BY <1>2, SubsetInduction
<1>4. D \cap T = T
  OBVIOUS
<1> QED BY <1>3, <1>4 DEF P

\* A double sum may be taken in either order: R are the sums of the rows, C
\* those of the columns.
AreSums(R, F, D, E) == F \in [D -> [E -> Int]] /\ \A d \in D : R[d] = Sum(F[d], E)

LEMMA SumsSwap ==
  ASSUME NEW D, IsFiniteSet(D), NEW E, IsFiniteSet(E), NEW F, NEW R, AreSums(R, F, D, E),
         NEW G, NEW C, AreSums(C, G, E, D), \A d \in D : \A e \in E : G[e][d] = F[d][e]
  PROVE  Sum(R, D) = Sum(C, E)
<1> DEFINE Part(s) == [e \in E |-> Sum(G[e], s)]
           P == {s \in SUBSET D : Sum(R, s) = Sum(Part(s), E)}
<1>1. /\ F \in [D -> [E -> Int]] /\ \A d \in D : R[d] = Sum(F[d], E)
      /\ G \in [E -> [D -> Int]] /\ \A e \in E : C[e] = Sum(G[e], D)
      /\ \A d \in D : \A e \in E : G[e][d] = F[d][e]
  BY DEF AreSums
<1>2. \A d \in D : R[d] \in Int /\ F[d] \in [E -> Int] /\ \A e \in E : F[d][e] \in Int
  <2> SUFFICES ASSUME NEW d \in D PROVE Sum(F[d], E) \in Int /\ F[d] \in [E -> Int]
    BY <1>1
  <2>1. F[d] \in [E -> Int]
    BY <1>1
  <2>2. PICK f \in [E -> Int] : f = F[d]
    BY <2>1
  <2>3. \A e \in E : f[e] \in Int
    OBVIOUS
  <2>4. Sum(f, E) \in Int
    BY <2>3, SumTakes
  <2> QED BY <2>1, <2>2, <2>4
<1>3. ASSUME NEW s \in SUBSET D, \A x \in s : s \ {x} \in P
      PROVE  s \in P
  <2>1. IsFiniteSet(s)
    BY FS_Subset
  <2>2. CASE s = {}
    <3>1. PICK p : p = Part(s)
      OBVIOUS
    <3>2. \A e \in E : p[e] = 0
      BY <2>2, <3>1, EmptyFolds
    <3>3. Sum(p, E) = 0 * Sum(p, E) + 0 * Sum(p, E)
      <4>1. \A e \in E : p[e] \in Int /\ p[e] \in Int /\ p[e] = 0 * p[e] + 0 * p[e]
        BY <3>2
      <4> QED BY <4>1, SumIsLinear
    <3>4. Sum(p, E) \in Int
      BY <3>2, SumTakes
    <3>5. Sum(p, E) = 0
      BY <3>3, <3>4
    <3>6. Sum(R, s) = 0
      BY <2>2, EmptyFolds
    <3> QED BY <3>1, <3>5, <3>6
  <2>3. ASSUME NEW x \in s PROVE Sum(R, s) = Sum(Part(s), E)
    <3>1. PICK p, q, f : p = Part(s) /\ q = Part(s \ {x}) /\ f = F[x]
      OBVIOUS
    <3>2. \A e \in E : p[e] = f[e] + q[e] /\ f[e] \in Int /\ q[e] \in Int
      <4> TAKE e \in E
      <4>1. PICK c : c = G[e]
        OBVIOUS
      <4>2. \A j \in s : c[j] \in Int
        BY <1>1, <4>1
      <4>3. c[x] = f[e] /\ f[e] \in Int
        BY <1>1, <1>2, <3>1, <4>1
      <4>4. Sum(c, s) = c[x] + Sum(c, s \ {x}) /\ Sum(c, s \ {x}) \in Int
        BY <2>1, <4>2, SumTakes
      <4>5. p[e] = Sum(c, s) /\ q[e] = Sum(c, s \ {x})
        BY <3>1, <4>1
      <4> QED BY <4>3, <4>4, <4>5
    <3>3. Sum(p, E) = 1 * Sum(f, E) + 1 * Sum(q, E)
      <4>1. \A e \in E : f[e] \in Int /\ q[e] \in Int /\ p[e] = 1 * f[e] + 1 * q[e]
        BY <3>2
      <4> QED BY <4>1, SumIsLinear
    <3>4. Sum(q, E) \in Int /\ Sum(f, E) \in Int
      BY <3>2, SumTakes
    <3>5. Sum(R, s) = R[x] + Sum(R, s \ {x}) /\ R[x] = Sum(f, E)
      <4>1. \A j \in s : R[j] \in Int
        BY <1>2
      <4>2. Sum(R, s) = R[x] + Sum(R, s \ {x})
        BY <2>1, <4>1, SumTakes
      <4>3. R[x] = Sum(f, E)
        BY <1>1, <3>1
      <4> QED BY <4>2, <4>3
    <3>6. Sum(R, s \ {x}) = Sum(q, E)
      BY <1>3, <3>1
    <3>7. Sum(R, s) = Sum(p, E)
      BY <3>3, <3>4, <3>5, <3>6
    <3> QED BY <3>1, <3>7
  <2> QED BY <2>2, <2>3
<1> HIDE DEF P
<1>4. SUBSET D \subseteq P
  BY <1>3, SubsetInduction
<1>5. Sum(R, D) = Sum(Part(D), E)
  BY <1>4 DEF P
<1>6. PICK p : p = Part(D)
  OBVIOUS
<1>7. \A e \in E : p[e] = C[e] /\ p[e] \in Int
  <2> TAKE e \in E
  <2>1. PICK c : c = G[e]
    OBVIOUS
  <2>2. \A j \in D : c[j] \in Int
    BY <1>1, <2>1
  <2>3. Sum(c, D) \in Int
    BY <2>2, SumTakes
  <2> QED BY <1>1, <1>6, <2>1, <2>3
<1>8. Sum(p, E) = Sum(C, E)
  BY <1>7, SumOfEquals
<1> QED BY <1>5, <1>6, <1>8

\* As many elements as the disjoint parts together.
LEMMA DisjointUnion ==
  ASSUME NEW D, IsFiniteSet(D), NEW F, \A d \in D : IsFiniteSet(F[d]),
         \A d, e \in D : d # e => F[d] \cap F[e] = {}
  PROVE  /\ IsFiniteSet(UNION {F[d] : d \in D})
         /\ \A n : (\A d \in D : n[d] = Cardinality(F[d]))
                     => Cardinality(UNION {F[d] : d \in D}) = Sum(n, D)
<1> DEFINE Parts(s) == UNION {F[d] : d \in s}
           P == {s \in SUBSET D :
                   /\ IsFiniteSet(Parts(s))
                   /\ \A n : (\A d \in D : n[d] = Cardinality(F[d]))
                               => Cardinality(Parts(s)) = Sum(n, s)}
<1>1. ASSUME NEW s \in SUBSET D, \A x \in s : s \ {x} \in P
      PROVE  s \in P
  <2>1. CASE s = {}
    <3>1. Parts(s) = {}
      BY <2>1
    <3>2. IsFiniteSet(Parts(s)) /\ Cardinality(Parts(s)) = 0
      BY <3>1, FS_EmptySet
    <3> QED BY <2>1, <3>2, EmptyFolds
  <2>2. ASSUME NEW x \in s
        PROVE  s \in P
    <3>1. PICK u, t : u = Parts(s \ {x}) /\ t = F[x]
      OBVIOUS
    <3>2. Parts(s) = u \cup t /\ u \cap t = {}
      BY <3>1
    <3>3. IsFiniteSet(u) /\ IsFiniteSet(t) /\ IsFiniteSet(s)
      BY <1>1, <3>1, FS_Subset
    <3>4. /\ IsFiniteSet(u \cup t)
          /\ Cardinality(u \cup t) = Cardinality(u) + Cardinality(t) - Cardinality({})
      BY <3>2, <3>3, FS_Union
    <3>5. Cardinality(u) \in Nat /\ Cardinality(t) \in Nat /\ Cardinality({}) = 0
      BY <3>3, FS_CardinalityType, FS_EmptySet
    <3>6. ASSUME NEW n, \A d \in D : n[d] = Cardinality(F[d])
          PROVE  Cardinality(u \cup t) = Sum(n, s)
      <4>1. \A d \in s : n[d] \in Int
        BY <3>6, FS_CardinalityType
      <4>2. Sum(n, s) = n[x] + Sum(n, s \ {x})
        BY <3>3, <4>1, SumTakes
      <4>3. Cardinality(u) = Sum(n, s \ {x})
        BY <1>1, <3>1, <3>6
      <4>4. n[x] = Cardinality(t)
        BY <3>1, <3>6
      <4> QED BY <3>4, <3>5, <4>2, <4>3, <4>4
    <3> QED BY <3>2, <3>4, <3>6
  <2> QED BY <2>1, <2>2
<1> HIDE DEF P
<1>2. SUBSET D \subseteq P
  BY <1>1, SubsetInduction
<1> QED BY <1>2 DEF P

\* A product of numbers above zero is above zero, and every factor divides it.
LEMMA ProductFacts ==
  ASSUME NEW D, IsFiniteSet(D), NEW f, \A j \in D : f[j] \in Int /\ 0 < f[j]
  PROVE  /\ Product(f, D) \in Int /\ 0 < Product(f, D)
         /\ \A x \in D : \E q \in Int : 0 < q /\ Product(f, D) = f[x] * q
<1> DEFINE P == {s \in SUBSET D : 0 < Product(f, s)}
<1>1. ASSUME NEW s \in SUBSET D, \A x \in s : s \ {x} \in P
      PROVE  s \in P
  <2>1. CASE s = {}
    BY <2>1, EmptyFolds
  <2>2. ASSUME NEW x \in s PROVE 0 < Product(f, s)
    <3>1. IsFiniteSet(s) /\ \A j \in s : f[j] \in Int
      BY FS_Subset
    <3>2. Product(f, s) = f[x] * Product(f, s \ {x}) /\ Product(f, s \ {x}) \in Int
      BY <3>1, ProductTakes
    <3>3. PICK a \in Int, b \in Int : a = f[x] /\ b = Product(f, s \ {x}) /\ 0 < a /\ 0 < b
      BY <1>1, <3>2
    <3>4. 0 < a * b
      BY <3>3
    <3> QED BY <3>2, <3>3, <3>4
  <2> QED BY <2>1, <2>2
<1> HIDE DEF P
<1>2. SUBSET D \subseteq P
  BY <1>1, SubsetInduction
<1>3. \A s \in SUBSET D : 0 < Product(f, s)
  BY <1>2 DEF P
<1>4. ASSUME NEW x \in D PROVE \E q \in Int : 0 < q /\ Product(f, D) = f[x] * q
  <2>1. Product(f, D) = f[x] * Product(f, D \ {x}) /\ Product(f, D \ {x}) \in Int
    BY ProductTakes
  <2> QED BY <1>3, <2>1
<1> QED BY <1>3, <1>4, ProductTakes
=============================================================================
