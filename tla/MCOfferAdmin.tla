---------------------------- MODULE MCOfferAdmin ----------------------------
(* Small instances of OfferAdmin for TLC. *)
EXTENDS OfferAdmin, TLC

Symmetry == Permutations(Calls)

\* Bound: what follows a stale save is not explored further.
UntilStale == ~stale
=============================================================================
