----------------------------- MODULE MCPayments -----------------------------
(* Small instances of Payments for TLC. *)
EXTENDS Payments, TLC

Symmetry == Permutations(Orders) \cup Permutations(Calls)

\* Bound: beside an order with two requests or more, no other is touched.
OneOrderRetried ==
    \A o, p \in Orders :
        o # p /\ Cardinality(RequestsOf(o)) > 1 =>
            /\ order[p] = "unpaid"
            /\ RequestsOf(p) = {}
            /\ \A c \in Calls : call[c].order # p
=============================================================================
