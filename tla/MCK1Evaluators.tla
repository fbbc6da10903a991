--------------------------- MODULE MCK1Evaluators ---------------------------
EXTENDS K1Evaluators, TLC

MCSize == <<2, 2, 2>>

\* One continuous column, three groups of two.
Weights(c, a, b, d) == (<<0, 1>> :> c) @@ (<<1, 1>> :> a) @@ (<<1, 2>> :> -a)
                       @@ (<<2, 1>> :> b) @@ (<<2, 2>> :> 0)
                       @@ (<<3, 1>> :> 0) @@ (<<3, 2>> :> d)

\* Two neurons per hidden layer, of either sign, some of which a box makes
\* both active and inactive, with positive and negative norm factors.
MCNets ==
    {[w1 |-> <<Weights(c, 1, 1, 1), Weights(1, -1, 2, 1)>>, b1 |-> <<d, -1>>,
      gam |-> <<1, e>>, bet |-> <<0, 1>>,
      w2 |-> <<<<1, 1>>, <<-1, 1>>>>, b2 |-> <<0, d>>,
      w3 |-> (0 :> <<1, -1>>) @@ (1 :> <<-1, 1>>), b3 |-> (0 :> 1) @@ (1 :> 0)] :
        c \in {1, -2}, d \in {-1, 1}, e \in {1, -1}}
=============================================================================
