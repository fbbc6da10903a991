---------------------------- MODULE MarginBounds ----------------------------
(***************************************************************************)
(* The classifier of the study, and the two lower bounds of its margin     *)
(* over an interval box: interval propagation and backward CROWN.  Numbers *)
(* are whole: an input is in 0..One, a network has whole weights, and a    *)
(* quotient of CROWN is kept as numerator and common denominator.          *)
(***************************************************************************)
EXTENDS Integers, Sequences, FiniteSetsExt, Functions

CONSTANTS
    NumCont,    \* continuous columns <<0, 1>> .. <<0, NumCont>>
    Size,       \* group g has the columns <<g, 1>> .. <<g, Size[g]>>
    One         \* grid units of 1.0

Groups == 1..Len(Size)
GroupCols == UNION {{<<g, i>> : i \in 1..Size[g]} : g \in Groups}
ContCols == {<<0, c>> : c \in 1..NumCont}
Inputs == ContCols \cup GroupCols
Classes == {0, 1}

Abs(n) == IF n < 0 THEN -n ELSE n
Dot(u, v) == SumFunction([j \in DOMAIN u |-> u[j] * v[j]])
Relu(v) == [j \in DOMAIN v |-> IF v[j] > 0 THEN v[j] ELSE 0]

\* argmax over the classes but one; the first wins a tie.
LargestBut(z, k) ==
    CHOOSE o \in Classes \ {k} :
        \A p \in Classes \ {k} : z[p] < z[o] \/ (z[p] = z[o] /\ o <= p)

-----------------------------------------------------------------------------
(* TabularMLP: fc1, batch norm with frozen statistics, relu, fc2, relu,    *)
(* fc3.  gam and bet are the factor and the offset of the batch norm.      *)

Linear(w, b, v) == [h \in DOMAIN w |-> b[h] + Dot(w[h], v)]
Scaled(net, v) == [h \in DOMAIN v |-> net.gam[h] * v[h] + net.bet[h]]

Logits(net, v) ==
    LET a1 == Relu(Scaled(net, Linear(net.w1, net.b1, v)))
        a2 == Relu(Linear(net.w2, net.b2, a1))
    IN  Linear(net.w3, net.b3, a2)

Margin(net, v, k) == LET z == Logits(net, v) IN z[k] - z[LargestBut(z, k)]

-----------------------------------------------------------------------------
(* Boxes: a lower and an upper value per neuron.                           *)

AffineSigned(box, w, b) ==                                   \* mutant
    [lo |-> Linear(w, b, box.lo), hi |-> Linear(w, b, box.hi)]

\* In centre and radius form, both doubled.
Affine(box, w, b) ==
    LET centre == [j \in DOMAIN box.lo |-> box.lo[j] + box.hi[j]]
        radius == [j \in DOMAIN box.lo |-> box.hi[j] - box.lo[j]]
        spread(h) == SumFunction([j \in DOMAIN radius |-> Abs(w[h][j]) * radius[j]])
    IN  [lo |-> [h \in DOMAIN w |-> b[h] + (Dot(w[h], centre) - spread(h)) \div 2],
         hi |-> [h \in DOMAIN w |-> b[h] + (Dot(w[h], centre) + spread(h)) \div 2]]

\* A negative factor swaps the ends.
BatchNorm(net, box) ==
    LET end(a, b) == [h \in DOMAIN a |->
                         (IF net.gam[h] >= 0 THEN a[h] ELSE b[h]) * net.gam[h]
                         + net.bet[h]]
    IN  [lo |-> end(box.lo, box.hi), hi |-> end(box.hi, box.lo)]

ReluBox(box) == [lo |-> Relu(box.lo), hi |-> Relu(box.hi)]

PreRelu1(net, box) == BatchNorm(net, Affine(box, net.w1, net.b1))
PreRelu2(net, box) == Affine(ReluBox(PreRelu1(net, box)), net.w2, net.b2)

ibp_margin_lower_bounds(net, box, k) ==
    LET out == Affine(ReluBox(PreRelu2(net, box)), net.w3, net.b3)
    IN  out.lo[k] - Max({out.hi[o] : o \in Classes \ {k}})

-----------------------------------------------------------------------------
(* CROWN: a lower bound c * z of the margin is carried backwards as a      *)
(* linear function of the neurons of each layer: coefficients r and a      *)
(* bias, both multiplied by `den'.                                         *)

Crossing(box) == {h \in DOMAIN box.lo : box.lo[h] < 0 /\ box.hi[h] > 0}
Active(box) == {h \in DOMAIN box.lo : box.lo[h] >= 0}

BackRelu(f, box, steep, straight) ==
    LET width(h) == box.hi[h] - box.lo[h]
        den == FoldFunction(LAMBDA a, b : a * b, 1, [h \in steep |-> width(h)])
        slope(h) == IF h \in straight THEN den
                    ELSE IF h \in steep THEN box.hi[h] * (den \div width(h)) ELSE 0
    IN  [r |-> [h \in DOMAIN f.r |-> f.r[h] * slope(h)],
         bias |-> f.bias * den
                  - SumFunction([h \in steep |-> f.r[h] * slope(h) * box.lo[h]]),
         den |-> f.den * den]

\* Mutant: the secant whatever the sign, as the docstring has it.
crown_relu_any_sign(f, box) ==
    BackRelu(f, box, Crossing(box), Active(box))

\* A neuron that may be on or off: the secant where the coefficient is
\* negative, 0 where it is not.
crown_relu_backward(f, box) ==
    BackRelu(f, box, {h \in Crossing(box) : f.r[h] < 0}, Active(box))

\* Through v = w * u + b.
BackLinear(f, w, b, cols) ==
    [r |-> [j \in cols |-> SumFunction([h \in DOMAIN f.r |-> f.r[h] * w[h][j]])],
     bias |-> f.bias + Dot(f.r, b),
     den |-> f.den]

BackNorm(f, net) ==
    [r |-> [h \in DOMAIN f.r |-> f.r[h] * net.gam[h]],
     bias |-> f.bias + Dot(f.r, net.bet),
     den |-> f.den]

\* The competing class is the largest one at x, a corner of one point.
crown_margin_lower(net, x, box, k) ==
    LET rival == LargestBut(Logits(net, x), k)
        f0 == [r |-> [o \in Classes |-> IF o = k THEN 1 ELSE IF o = rival THEN -1 ELSE 0],
               bias |-> 0, den |-> 1]
        f3 == BackLinear(f0, net.w3, net.b3, DOMAIN net.w2)
        f2 == BackLinear(crown_relu_backward(f3, PreRelu2(net, box)),
                         net.w2, net.b2, DOMAIN net.w1)
        f1 == BackLinear(BackNorm(crown_relu_backward(f2, PreRelu1(net, box)), net),
                         net.w1, net.b1, Inputs)
    IN  [num |-> Affine(box, [f |-> f1.r], [f |-> f1.bias]).lo.f, den |-> f1.den]
=============================================================================
