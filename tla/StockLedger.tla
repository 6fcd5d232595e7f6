---------------------------- MODULE StockLedger ----------------------------
(***************************************************************************)
(* What the reservation system promises about the stock of an offer,       *)
(* whatever handlers, workers and retries carry it out: units move between *)
(* "available", "promised to a hold" and "sold", one order at a time, and  *)
(* none is created or lost.  Reservations.tla is shown to implement this.  *)
(***************************************************************************)
EXTENDS Integers, FiniteSets

CONSTANTS Offers,    \* offers with stock
          Orders,    \* order identities that may be used
          NoOffer,   \* the offer of an order that does not exist yet
          Total      \* Total[f]: Offer.quantity_total

\* What the facts about the ledger assume of its constants.
LedgerAssumption ==
    /\ IsFiniteSet(Orders)
    /\ NoOffer \notin Offers
    /\ Total \in [Offers -> Nat]

VARIABLES available,  \* units of an offer that can still be reserved
          promised,   \* units of an offer set aside for running holds
          stage,      \* where an order stands in its life
          offerOf,    \* the offer an order takes its units from
          qtyOf       \* how many units it takes

ledgerVars == <<available, promised, stage, offerOf, qtyOf>>

Stages == {"none", "held", "sold", "collected", "returned"}

TypeOK ==
    /\ available \in [Offers -> Nat]
    /\ promised \in [Offers -> Nat]
    /\ stage \in [Orders -> Stages]
    /\ offerOf \in [Orders -> Offers \cup {NoOffer}]
    /\ qtyOf \in [Orders -> Nat]

Init ==
    /\ available = Total
    /\ promised = [f \in Offers |-> 0]
    /\ stage = [o \in Orders |-> "none"]
    /\ offerOf = [o \in Orders |-> NoOffer]
    /\ qtyOf = [o \in Orders |-> 0]

----------------------------------------------------------------------------
Hold(o, f, q) ==
    /\ stage[o] = "none"
    /\ q \in 1..available[f]
    /\ stage' = [stage EXCEPT ![o] = "held"]
    /\ offerOf' = [offerOf EXCEPT ![o] = f]
    /\ qtyOf' = [qtyOf EXCEPT ![o] = q]
    /\ available' = [available EXCEPT ![f] = @ - q]
    /\ promised' = [promised EXCEPT ![f] = @ + q]

Sell(o) ==
    /\ stage[o] = "held"
    /\ stage' = [stage EXCEPT ![o] = "sold"]
    /\ promised' = [promised EXCEPT ![offerOf[o]] = @ - qtyOf[o]]
    /\ UNCHANGED <<available, offerOf, qtyOf>>

Release(o) ==
    /\ stage[o] = "held"
    /\ stage' = [stage EXCEPT ![o] = "returned"]
    /\ available' = [available EXCEPT ![offerOf[o]] = @ + qtyOf[o]]
    /\ promised' = [promised EXCEPT ![offerOf[o]] = @ - qtyOf[o]]
    /\ UNCHANGED <<offerOf, qtyOf>>

TakeBack(o) ==
    /\ stage[o] = "sold"
    /\ stage' = [stage EXCEPT ![o] = "returned"]
    /\ available' = [available EXCEPT ![offerOf[o]] = @ + qtyOf[o]]
    /\ UNCHANGED <<promised, offerOf, qtyOf>>

HandOver(o) ==
    /\ stage[o] = "sold"
    /\ stage' = [stage EXCEPT ![o] = "collected"]
    /\ UNCHANGED <<available, promised, offerOf, qtyOf>>

Next ==
    \E o \in Orders :
        \/ \E f \in Offers : \E q \in 1..available[f] : Hold(o, f, q)
        \/ Sell(o)
        \/ Release(o)
        \/ TakeBack(o)
        \/ HandOver(o)

Spec == Init /\ [][Next]_ledgerVars

----------------------------------------------------------------------------
OrdersIn(f, stages) == {o \in Orders : offerOf[o] = f /\ stage[o] \in stages}

\* The units that the orders of S take, one element for each unit.
Units(S, qty) == UNION {{o} \X (1..qty[o]) : o \in S}

Quantity(f, stages) == Cardinality(Units(OrdersIn(f, stages), qtyOf))

\* The units set aside on an offer are exactly those of its running holds:
\* Offer.quantity_reserved never drifts from the orders.
PromisedMatchesHolds ==
    \A f \in Offers : promised[f] = Quantity(f, {"held"})

\* Every unit of an offer is available, held, sold or collected, and only
\* one of them: no reservation oversells an offer and no release loses stock.
StockConserved ==
    \A f \in Offers :
        available[f] + Quantity(f, {"held", "sold", "collected"}) = Total[f]
============================================================================
