----------------------------- MODULE MCCheckout -----------------------------
(* Small instances of Checkout for TLC.                                    *)
EXTENDS Checkout, TLC

CONSTANTS k1, k2, k3, p1, p2, u1, u2, w1, w2

OneHold == {k1}
TwoHolds == {k1, k2}
ThreeHolds == {k1, k2, k3}
TwoPayments == {p1, p2}

\* Two payments of one hold: the buyer opened two intents and paid both.
SameHold == [p \in Payments |-> k1]
\* One payment for each of two holds.
OwnHold == (p1 :> k1) @@ (p2 :> k2)

OneBuyer == [k \in Keys |-> u1]
\* Two carts of one buyer and one of another; cap and stock bind separately.
TwoBuyers == [k \in Keys |-> IF k = k3 THEN u2 ELSE u1]
Mixed == [k \in Keys |-> IF k = k1 THEN 1 ELSE 2]
Singles == [k \in Keys |-> 1]
Pairs == [k \in Keys |-> 2]

WorkerSymmetry == Permutations(Workers)
=============================================================================
