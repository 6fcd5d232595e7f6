--------------------------- MODULE MCReservations ---------------------------
(***************************************************************************)
(* Small instances of Reservations for TLC: one offer, so that all orders  *)
(* compete for the same stock, with too few units for all of them.         *)
(***************************************************************************)
EXTENDS OrderView, Functions, TLC

CONSTANTS UnitsPerOffer

MCTotal == [f \in Offers |-> UnitsPerOffer]

Symmetry == Permutations(Orders) \cup Permutations(Calls)

\* Bound of the faulty instance, where the second release of an order creates stock.
BoundedStock == \A f \in Offers : remaining[f] <= Total[f] + 1

\* Bound of the instance with two orders: what follows an order that brings
\* the units ever ordered above the stock is not explored further.
WithinStock == FoldFunction(+, 0, [o \in Orders |-> order[o].qty]) <= UnitsPerOffer
=============================================================================
