------------------------------- MODULE Statistics -------------------------------
(***************************************************************************)
(* UserStatisticsService.rebuildForUser: the totals kept in one user's row *)
(* are counted again from his orders at the end of every transaction that  *)
(* changes one of them, and written in that transaction.                   *)
(*                                                                         *)
(* The transactions run at READ COMMITTED and lock the order (and its      *)
(* offer: orders of one offer never overlap, so those here are of          *)
(* different ones), not the user.  The count sees what is committed and    *)
(* the transaction's own change; the update of the user's row waits for    *)
(* another transaction that wrote it, and then overwrites.                 *)
(***************************************************************************)
EXTENDS Integers, FiniteSets

CONSTANTS Orders,  \* the user's orders, each of another offer
          Txs      \* transactions that may be open

VARIABLES
    placed,     \* the orders table: where each order stands
    stats,      \* the totals in the user's row
    tx,         \* the open transactions
    overtaken   \* history: the totals were counted before another commit

statisticsVars == <<placed, stats, tx, overtaken>>

----------------------------------------------------------------------------
(* What the totals tell apart: an order cancelled after its payment was    *)
(* CONFIRMED, with its money refunded ("refunded") or not ("kept").        *)
Stage == {"none", "held", "paid", "collected", "cancelled", "refunded", "kept"}

\* One order's way: reserve, markPaid, adminCompleteOrder, and the cancellations.
Later(stage) ==
    CASE stage = "none" -> {"held"}
      [] stage = "held" -> {"paid", "cancelled"}
      [] stage = "paid" -> {"collected", "refunded", "kept"}
      [] OTHER -> {}

NumberIn(orders, stages) == Cardinality({o \in Orders : orders[o] \in stages})

\* The five totals; every order's discount counts as saved, a cancelled one's, too.
Counted(orders) ==
    [total     |-> NumberIn(orders, Stage \ {"none"}),
     completed |-> NumberIn(orders, {"collected"}),
     cancelled |-> NumberIn(orders, {"cancelled", "refunded", "kept"}),
     saved     |-> NumberIn(orders, Stage \ {"none"}),
     spent     |-> NumberIn(orders, {"paid", "collected", "kept"})]

Totals == [{"total", "completed", "cancelled", "saved", "spent"} -> 0..Cardinality(Orders)]
NoTx == [pc |-> "idle", orders |-> {}, stage |-> "none",
         counted |-> Counted([o \in Orders |-> "none"]), late |-> FALSE]

TypeOK ==
    /\ placed \in [Orders -> Stage]
    /\ stats \in Totals
    /\ \A t \in Txs : /\ tx[t].pc \in {"idle", "changed", "counted"}
                      /\ tx[t].orders \in SUBSET Orders
                      /\ tx[t].stage \in Stage
                      /\ tx[t].counted \in Totals
                      /\ tx[t].late \in BOOLEAN
    /\ overtaken \in BOOLEAN

Init ==
    /\ placed = [o \in Orders |-> "none"]
    /\ stats = Counted(placed)
    /\ tx = [t \in Txs |-> NoTx]
    /\ overtaken = FALSE

----------------------------------------------------------------------------
\* The order is locked for update (or new), changed and saved.
ChangeOrder(t, o, stage) ==
    /\ tx[t].pc = "idle"
    /\ \A u \in Txs : o \notin tx[u].orders
    /\ stage \in Later(placed[o])
    /\ tx' = [tx EXCEPT ![t] = [NoTx EXCEPT !.pc = "changed", !.orders = {o}, !.stage = stage]]
    /\ UNCHANGED <<placed, stats, overtaken>>

\* The orders as transaction t sees them: what is committed, and its own change.
Seen(t) == [o \in Orders |-> IF o \in tx[t].orders THEN tx[t].stage ELSE placed[o]]

\* Mutant: the count runs outside the transaction and misses its change.
CountOutside(t) ==
    /\ tx[t].pc = "changed"
    /\ tx' = [tx EXCEPT ![t].pc = "counted", ![t].counted = Counted(placed)]
    /\ UNCHANGED <<placed, stats, overtaken>>

CountOrders(t) ==
    /\ tx[t].pc = "changed"
    /\ tx' = [tx EXCEPT ![t].pc = "counted", ![t].counted = Counted(Seen(t))]
    /\ UNCHANGED <<placed, stats, overtaken>>

\* The user's row is updated with the counted totals, and the transaction commits.
Commit(t) ==
    /\ tx[t].pc = "counted"
    /\ placed' = Seen(t)
    /\ stats' = tx[t].counted
    /\ overtaken' = tx[t].late
    /\ tx' = [u \in Txs |-> IF u = t THEN NoTx
                            ELSE [tx[u] EXCEPT !.late = tx[u].pc = "counted"]]

Rollback(t) ==
    /\ tx[t].pc # "idle"
    /\ tx' = [tx EXCEPT ![t] = NoTx]
    /\ UNCHANGED <<placed, stats, overtaken>>

Next ==
    \E t \in Txs :
        \/ \E o \in Orders, stage \in Stage : ChangeOrder(t, o, stage)
        \/ CountOrders(t) \/ Commit(t) \/ Rollback(t)

Spec == Init /\ [][Next]_statisticsVars

----------------------------------------------------------------------------
\* The totals in the user's row are those of his orders, unless the transaction
\* that wrote them last had counted before another one committed; the next
\* transaction that is not overtaken puts them right again.
StatisticsRight == overtaken \/ stats = Counted(placed)
=============================================================================
