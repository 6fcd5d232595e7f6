------------------------- MODULE ReservationsProofs -------------------------
(***************************************************************************)
(* The reservation core, for every set of offers, orders and handler       *)
(* executions, every total and every attempt limit: its types, that one    *)
(* payment attempt at a time is under way, that the last failure releases  *)
(* the hold, and that it implements the stock ledger.                      *)
(***************************************************************************)
EXTENDS Reservations, TLAPS

----------------------------------------------------------------------------
(* Type correctness. *)

LEMMA RestoreType ==
    ASSUME TypeOK, NEW o \in Orders, order[o].offer \in Offers, RestoreOfferQuantity(o)
    PROVE  /\ remaining' \in [Offers -> Nat]
           /\ reserved' \in [Offers -> Nat]
           /\ published' \in [Offers -> BOOLEAN]
<1>1. order[o].qty \in Nat
  BY DEF TypeOK, Row
<1> QED BY <1>1 DEF TypeOK, RestoreOfferQuantity, Monus

\* A row that is written keeps its offer and quantity; the others stay.
Wrote(o, status, pay) ==
    /\ order' \in [Orders -> Row]
    /\ order'[o].status = status
    /\ order'[o].pay = pay
    /\ \A p \in Orders : order'[p].offer = order[p].offer /\ order'[p].qty = order[p].qty
    /\ \A p \in Orders \ {o} : order'[p] = order[p]

LEMMA EndHoldWrote ==
    ASSUME TypeOK, NEW o \in Orders, NEW status \in OrderStatus,
           NEW pay \in PaymentStatus, EndHold(o, status, pay)
    PROVE  Wrote(o, status, pay)
<1> DEFINE row == [order[o] EXCEPT !.status = status, !.pay = pay, !.hold = "null"]
<1>1. order[o] \in Row /\ order \in [Orders -> Row]
  BY DEF TypeOK
<1>2. /\ row \in Row /\ row.status = status /\ row.pay = pay
      /\ row.offer = order[o].offer /\ row.qty = order[o].qty
  BY <1>1 DEF Row, HoldClock
<1>3. order' = [order EXCEPT ![o] = row]
  BY DEF EndHold
<1> HIDE DEF row
<1> QED BY <1>1, <1>2, <1>3 DEF Wrote

LEMMA SetPaymentWrote ==
    ASSUME TypeOK, NEW o \in Orders, NEW status \in OrderStatus,
           NEW pay \in PaymentStatus, SetPayment(o, status, pay)
    PROVE  Wrote(o, status, pay)
BY DEF TypeOK, SetPayment, Wrote, Row, HoldClock

LEMMA CountFailureType ==
    ASSUME TypeOK, NEW c \in Calls, CountFailure(c)
    PROVE  retries' \in [Orders -> Nat]
<1> DEFINE o == call[c].order
           n == IF call[c].answer = "FAILED" THEN retries[o] + 1 ELSE retries[o]
<1>1. retries \in [Orders -> Nat] /\ (o \in Orders => n \in Nat)
  BY DEF TypeOK
<1>2. retries' = [retries EXCEPT ![o] = n]
  BY DEF CountFailure
<1> HIDE DEF o, n
<1> QED BY <1>1, <1>2

LEMMA RowType ==
    ASSUME TypeOK, NEW o \in Orders
    PROVE  order[o].status \in OrderStatus /\ order[o].pay \in PaymentStatus
BY DEF TypeOK, Row

\* Call c moves, the others stay where they are.
Moves(c, pc, o, answer) ==
    /\ call' \in [Calls -> CallState]
    /\ call'[c].pc = pc
    /\ call'[c].order = o
    /\ call'[c].answer = answer
    /\ \A d \in Calls \ {c} : call'[d] = call[d]

LEMMA GotoMoves ==
    ASSUME TypeOK, NEW c \in Calls, NEW pc \in PC, NEW o \in Orders, Goto(c, pc, o)
    PROVE  Moves(c, pc, o, "none")
BY DEF TypeOK, Goto, Moves, CallState

LEMMA AnsweredMoves ==
    ASSUME TypeOK, NEW c \in Calls, NEW pc \in PC,
           NEW answer \in Answers \cup {"none", "THROWN", "RELEASED"},
           Answered(c, pc, answer)
    PROVE  Moves(c, pc, call[c].order, answer)
BY DEF TypeOK, Answered, Moves, CallState

LEMMA ReturnMoves ==
    ASSUME TypeOK, NEW c \in Calls, Return(c)
    PROVE  Moves(c, "idle", NoOrder, "none")
BY DEF TypeOK, Return, Idle, Moves, CallState, PC

\* Every order that exists has an offer, every busy call an order that exists.
Wired ==
    /\ \A o \in Orders : order[o].status # "none" => order[o].offer \in Offers
    /\ \A c \in Calls : call[c].pc # "idle" =>
           call[c].order \in Orders /\ order[call[c].order].status # "none"

TypeInv == TypeOK /\ Wired

\* No row disappears, and every row has an offer.
Kept ==
    /\ \A o \in Orders : order[o].status # "none" => order'[o].status # "none"
    /\ \A o \in Orders : order'[o].status # "none" => order'[o].offer \in Offers

LEMMA KeptSame == ASSUME TypeInv, UNCHANGED order PROVE Kept
BY DEF TypeInv, Wired, Kept

LEMMA KeptWrote ==
    ASSUME TypeInv, NEW o \in Orders, NEW status, NEW pay, Wrote(o, status, pay),
           order[o].status # "none", status # "none"
    PROVE  Kept
BY DEF TypeInv, Wired, Kept, Wrote

LEMMA WiredMoves ==
    ASSUME TypeInv, Kept, NEW c \in Calls, NEW pc, NEW o \in Orders, NEW answer,
           Moves(c, pc, o, answer), order[o].status # "none"
    PROVE  Wired'
BY DEF TypeInv, Wired, Kept, Moves

LEMMA WiredReturns ==
    ASSUME TypeInv, Kept, NEW c \in Calls, Moves(c, "idle", NoOrder, "none")
    PROVE  Wired'
BY DEF TypeInv, Wired, Kept, Moves

LEMMA WiredSame == ASSUME TypeInv, Kept, UNCHANGED call PROVE Wired'
BY DEF TypeInv, Wired, Kept

----------------------------------------------------------------------------
(* What each action does to the rows and the calls. *)

LEMMA ReserveDoes ==
    ASSUME TypeInv, NEW c \in Calls, NEW o \in Orders, NEW f \in Offers,
           NEW q \in 1..Total[f], Reserve(c, f, q, o)
    PROVE  /\ Moves(c, "schedule", o, "none")
           /\ order' \in [Orders -> Row]
           /\ order'[o].status = "HOLD" /\ order'[o].pay = "PENDING"
           /\ order'[o].offer = f /\ order'[o].qty = q
           /\ \A p \in Orders \ {o} : order'[p] = order[p]
           /\ Kept
<1>1. Moves(c, "schedule", o, "none")
  BY GotoMoves DEF Reserve, TypeInv, PC
<1> DEFINE row == [status |-> "HOLD", pay |-> "PENDING", hold |-> "running",
                   offer |-> f, qty |-> q]
<1>2. row \in Row /\ row.status = "HOLD" /\ row.pay = "PENDING" /\ row.offer = f /\ row.qty = q
  <2>1. q \in Nat
    BY ReservationsAssumption
  <2> QED BY <2>1 DEF Row, OrderStatus, PaymentStatus, HoldClock
<1>3. order' = [order EXCEPT ![o] = row]
  BY DEF Reserve
<1> HIDE DEF row
<1>4. /\ order' \in [Orders -> Row]
      /\ order'[o] = row
      /\ \A p \in Orders \ {o} : order'[p] = order[p]
  BY <1>2, <1>3 DEF TypeInv, TypeOK
<1>5. Kept
  BY <1>2, <1>4 DEF Kept, TypeInv, Wired
<1> QED BY <1>1, <1>4, <1>5 DEF row

LEMMA ScheduleHoldExpiryDoes ==
    ASSUME TypeInv, NEW c \in Calls, ScheduleHoldExpiry(c)
    PROVE  Moves(c, "idle", NoOrder, "none") /\ UNCHANGED order
BY ReturnMoves DEF ScheduleHoldExpiry, TypeInv

LEMMA RestoreExpiredHoldDoes ==
    ASSUME TypeInv, NEW c \in Calls, NEW o \in Orders, RestoreExpiredHold(c, o)
    PROVE  /\ Moves(c, "cancelJob", o, "none")
           /\ Wrote(o, "EXPIRED", order[o].pay)
BY GotoMoves, EndHoldWrote, RowType DEF RestoreExpiredHold, TypeInv, PC, OrderStatus

LEMMA PrepareReleasesDoes ==
    ASSUME TypeInv, NEW c \in Calls, NEW o \in Orders, PrepareReleases(c, o)
    PROVE  Moves(c, "cancelJob", o, "none") /\ UNCHANGED order
BY GotoMoves DEF PrepareReleases, TypeInv, PC

LEMMA PrepareAttemptDoes ==
    ASSUME TypeInv, NEW c \in Calls, NEW o \in Orders, PrepareAttempt(c, o)
    PROVE  /\ Moves(c, "acquire", o, "none")
           /\ Wrote(o, "PENDING_PAYMENT", "INITIATED")
BY GotoMoves, SetPaymentWrote
   DEF PrepareAttempt, TypeInv, PC, OrderStatus, PaymentStatus

LEMMA CancelReservationDoes ==
    ASSUME TypeInv, NEW c \in Calls, NEW o \in Orders, CancelReservation(c, o)
    PROVE  /\ Moves(c, "cancelJob", o, "none")
           /\ Wrote(o, "CANCELLED_BY_USER", order[o].pay)
BY GotoMoves, EndHoldWrote, RowType DEF CancelReservation, TypeInv, PC, OrderStatus

LEMMA AdminCancelOrderDoes ==
    ASSUME TypeInv, NEW c \in Calls, NEW o \in Orders, NEW refund \in BOOLEAN,
           AdminCancelOrder(c, o, refund)
    PROVE  /\ Moves(c, "cancelJob", o, "none")
           /\ \E pay \in {order[o].pay, Refund(order[o].pay)} :
                  Wrote(o, "CANCELLED_BY_ADMIN", pay)
<1> DEFINE pay == IF refund THEN Refund(order[o].pay) ELSE order[o].pay
<1>1. pay \in PaymentStatus
  BY RowType DEF Refund, PaymentStatus, TypeInv
<1>2. EndHold(o, "CANCELLED_BY_ADMIN", pay) /\ Goto(c, "cancelJob", o)
  BY DEF AdminCancelOrder
<1>3. Wrote(o, "CANCELLED_BY_ADMIN", pay)
  BY <1>1, <1>2, EndHoldWrote DEF OrderStatus, TypeInv
<1>4. Moves(c, "cancelJob", o, "none")
  BY <1>2, GotoMoves DEF TypeInv, PC
<1> QED BY <1>3, <1>4

LEMMA AdminCompleteOrderDoes ==
    ASSUME TypeInv, NEW c \in Calls, NEW o \in Orders, AdminCompleteOrder(c, o)
    PROVE  /\ Moves(c, "cancelJob", o, "none")
           /\ Wrote(o, "COLLECTED", order[o].pay)
<1>1. Moves(c, "cancelJob", o, "none")
  BY GotoMoves DEF AdminCompleteOrder, TypeInv, PC
<1>2. Wrote(o, "COLLECTED", order[o].pay)
  BY DEF AdminCompleteOrder, TypeInv, TypeOK, Row, OrderStatus, Wrote
<1> QED BY <1>1, <1>2

LEMMA AcquireLockDoes ==
    ASSUME TypeInv, NEW c \in Calls, AcquireLock(c)
    PROVE  Moves(c, "push", call[c].order, "none") /\ UNCHANGED order
BY GotoMoves DEF AcquireLock, TypeInv, Wired, PC

LEMMA LockDeniedDoes ==
    ASSUME TypeInv, NEW c \in Calls, LockDenied(c)
    PROVE  Moves(c, "idle", NoOrder, "none") /\ UNCHANGED order
BY ReturnMoves DEF LockDenied, TypeInv

LEMMA PushAnsweredDoes ==
    ASSUME TypeInv, NEW c \in Calls, PushAnswered(c)
    PROVE  /\ \E answer \in Answers : Moves(c, "finalize", call[c].order, answer)
           /\ UNCHANGED order
BY AnsweredMoves DEF PushAnswered, TypeInv, PC

LEMMA PushThrowsDoes ==
    ASSUME TypeInv, NEW c \in Calls, PushThrows(c)
    PROVE  Moves(c, "unlock", call[c].order, "THROWN") /\ UNCHANGED order
BY AnsweredMoves DEF PushThrows, TypeInv, PC

LEMMA AnswerType ==
    ASSUME TypeOK, NEW c \in Calls
    PROVE  call[c].answer \in Answers \cup {"none", "THROWN", "RELEASED"}
BY DEF TypeOK, CallState

LEMMA FinalizeClosedDoes ==
    ASSUME TypeInv, NEW c \in Calls, FinalizeClosed(c)
    PROVE  Moves(c, "unlock", call[c].order, call[c].answer) /\ UNCHANGED order
BY AnsweredMoves, AnswerType DEF FinalizeClosed, TypeInv, PC

LEMMA FinalizeConfirmedDoes ==
    ASSUME TypeInv, NEW c \in Calls, FinalizeConfirmed(c)
    PROVE  /\ Moves(c, "unlock", call[c].order, "CONFIRMED")
           /\ Wrote(call[c].order, "PAID", "CONFIRMED")
<1>1. call[c].order \in Orders
  BY DEF FinalizeConfirmed, Finalizable, TypeInv, Wired
<1> QED BY <1>1, AnsweredMoves, EndHoldWrote
        DEF FinalizeConfirmed, TypeInv, PC, Answers, OrderStatus, PaymentStatus

LEMMA FinalizePendingDoes ==
    ASSUME TypeInv, NEW c \in Calls, FinalizePending(c)
    PROVE  /\ Moves(c, "unlock", call[c].order, "PROCESSING")
           /\ Wrote(call[c].order, "PENDING_PAYMENT", "PROCESSING")
<1>1. call[c].order \in Orders
  BY DEF FinalizePending, Finalizable, TypeInv, Wired
<1> QED BY <1>1, AnsweredMoves, SetPaymentWrote
        DEF FinalizePending, TypeInv, PC, Answers, OrderStatus, PaymentStatus

LEMMA FinalizeFailedDoes ==
    ASSUME TypeInv, NEW c \in Calls, FinalizeFailed(c)
    PROVE  /\ \E answer \in {"FAILED", "TRANSPORT"} :
                  Moves(c, "unlock", call[c].order, answer)
           /\ Wrote(call[c].order, "PENDING_PAYMENT", "FAILED")
<1>1. call[c].order \in Orders
  BY DEF FinalizeFailed, Finalizable, TypeInv, Wired
<1>2. Wrote(call[c].order, "PENDING_PAYMENT", "FAILED")
  BY <1>1, SetPaymentWrote DEF FinalizeFailed, TypeInv, OrderStatus, PaymentStatus
<1>3. Moves(c, "unlock", call[c].order, call[c].answer)
  BY AnsweredMoves, AnswerType DEF FinalizeFailed, TypeInv, PC
<1> QED BY <1>2, <1>3 DEF FinalizeFailed

LEMMA FinalizeReleasesDoes ==
    ASSUME TypeInv, NEW c \in Calls, FinalizeReleases(c)
    PROVE  /\ Moves(c, "unlock", call[c].order, "RELEASED")
           /\ Wrote(call[c].order, "CANCELLED_BY_USER", "FAILED")
<1>1. call[c].order \in Orders
  BY DEF FinalizeReleases, Finalizable, TypeInv, Wired
<1> QED BY <1>1, AnsweredMoves, EndHoldWrote
        DEF FinalizeReleases, TypeInv, PC, OrderStatus, PaymentStatus

LEMMA RollBackDoes ==
    ASSUME TypeInv, NEW c \in Calls, RollBack(c)
    PROVE  Moves(c, "unlock", call[c].order, "THROWN") /\ UNCHANGED order
BY AnsweredMoves DEF RollBack, TypeInv, PC

LEMMA ReleaseLockDoes ==
    ASSUME TypeInv, NEW c \in Calls, ReleaseLock(c)
    PROVE  /\ UNCHANGED order
           /\ \/ /\ call[c].answer \in {"CONFIRMED", "RELEASED"}
                 /\ Moves(c, "cancelJob", call[c].order, "none")
              \/ Moves(c, "idle", NoOrder, "none")
<1>1. call[c].order \in Orders
  BY DEF ReleaseLock, TypeInv, Wired
<1> QED BY <1>1, GotoMoves, ReturnMoves DEF ReleaseLock, TypeInv, PC

LEMMA CancelHoldExpiryDoes ==
    ASSUME TypeInv, NEW c \in Calls, CancelHoldExpiry(c)
    PROVE  /\ UNCHANGED order
           /\ \/ Moves(c, "clearState", call[c].order, "none")
              \/ Moves(c, "idle", NoOrder, "none")
<1>1. call[c].order \in Orders
  BY DEF CancelHoldExpiry, TypeInv, Wired
<1> QED BY <1>1, GotoMoves, ReturnMoves DEF CancelHoldExpiry, TypeInv, PC

LEMMA ClearReservationStateDoes ==
    ASSUME TypeInv, NEW c \in Calls, ClearReservationState(c)
    PROVE  Moves(c, "idle", NoOrder, "none") /\ UNCHANGED order
BY ReturnMoves DEF ClearReservationState, TypeInv

LEMMA CrashDoes ==
    ASSUME TypeInv, NEW c \in Calls, Crash(c)
    PROVE  Moves(c, "idle", NoOrder, "none") /\ UNCHANGED order
BY ReturnMoves DEF Crash, TypeInv

LEMMA HoldElapsesDoes ==
    ASSUME TypeInv, NEW o \in Orders, HoldElapses(o)
    PROVE  Wrote(o, order[o].status, order[o].pay) /\ UNCHANGED call
BY DEF HoldElapses, TypeInv, TypeOK, Row, HoldClock, Wrote

LEMMA HandleHoldExpiryDoes ==
    ASSUME TypeInv, NEW o \in Orders, HandleHoldExpiry(o)
    PROVE  /\ UNCHANGED call
           /\ \/ Expirable(o) /\ Wrote(o, "EXPIRED", order[o].pay)
              \/ UNCHANGED order
BY EndHoldWrote, RowType DEF HandleHoldExpiry, TypeInv, OrderStatus

----------------------------------------------------------------------------
(* Type correctness, also under the fault that Next leaves out. *)

LEMMA TypeInvInit == Init => TypeInv
BY ReservationsAssumption
   DEF Init, TypeInv, TypeOK, Wired, NoRow, Idle, OrderStatus, PaymentStatus,
       HoldClock, PC, Answers, Row, CallState

LEMMA TypeInvNext == TypeInv /\ [FaultyNext]_vars => TypeInv'
<1> SUFFICES ASSUME TypeInv, [FaultyNext]_vars PROVE TypeInv'
  OBVIOUS
<1> USE DEF TypeInv, Held, offerVars, redisVars
<1>1. ASSUME NEW c \in Calls, NEW o \in Orders, NEW f \in Offers,
             NEW q \in 1..Total[f], Reserve(c, f, q, o)
      PROVE  TypeInv'
  <2>1. q \in Nat /\ remaining[f] \in Nat /\ reserved[f] \in Nat
    BY ReservationsAssumption DEF TypeOK
  <2>2. remaining' \in [Offers -> Nat] /\ reserved' \in [Offers -> Nat]
    BY <1>1, <2>1 DEF Reserve, TypeOK
  <2>3. Wired'
    <3>1. order'[o].status # "none"
      BY <1>1, ReserveDoes
    <3>2. \A d \in Calls \ {c} : call'[d] = call[d]
      BY <1>1, ReserveDoes DEF Moves
    <3>3. call'[c].order = o
      BY <1>1, ReserveDoes DEF Moves
    <3>4. Kept
      BY <1>1, ReserveDoes
    <3>5. ASSUME NEW d \in Calls, call'[d].pc # "idle"
          PROVE  call'[d].order \in Orders /\ order'[call'[d].order].status # "none"
      <4>1. CASE d = c
        BY <3>1, <3>3, <4>1
      <4>2. CASE d # c
        BY <3>2, <3>4, <3>5, <4>2 DEF Wired, Kept
      <4> QED BY <4>1, <4>2
    <3> QED BY <3>4, <3>5 DEF Wired, Kept
  <2>4. order' \in [Orders -> Row] /\ call' \in [Calls -> CallState]
    BY <1>1, ReserveDoes DEF Moves
  <2>5. UNCHANGED <<published, job, retries, lock>>
    BY <1>1 DEF Reserve
  <2> QED BY <2>2, <2>3, <2>4, <2>5 DEF TypeOK
<1>2. ASSUME NEW c \in Calls, NEW o \in Orders, RestoreExpiredHold(c, o)
      PROVE  TypeInv'
  <2>1. order[o].offer \in Offers /\ order[o].status # "none"
    BY <1>2 DEF RestoreExpiredHold, Wired
  <2>2. Wired'
    BY <1>2, <2>1, RestoreExpiredHoldDoes, KeptWrote, WiredMoves
  <2> QED BY <1>2, <2>1, <2>2, RestoreType, RestoreExpiredHoldDoes
          DEF RestoreExpiredHold, TypeOK, Wrote, Moves
<1>3. ASSUME NEW c \in Calls, NEW o \in Orders, PrepareReleases(c, o)
      PROVE  TypeInv'
  <2>1. order[o].offer \in Offers /\ order[o].status # "none"
    BY <1>3 DEF PrepareReleases, Wired
  <2>2. Wired'
    BY <1>3, <2>1, PrepareReleasesDoes, KeptSame, WiredMoves
  <2> QED BY <1>3, <2>1, <2>2, RestoreType, PrepareReleasesDoes
          DEF PrepareReleases, TypeOK, Moves
<1>4. ASSUME NEW c \in Calls, NEW o \in Orders, PrepareAttempt(c, o)
      PROVE  TypeInv'
  <2>1. Wired'
    BY <1>4, PrepareAttemptDoes, KeptWrote, WiredMoves DEF PrepareAttempt
  <2> QED BY <1>4, <2>1, PrepareAttemptDoes DEF PrepareAttempt, TypeOK, Wrote, Moves
<1>5. ASSUME NEW c \in Calls, NEW o \in Orders, CancelReservation(c, o)
      PROVE  TypeInv'
  <2>1. order[o].offer \in Offers /\ order[o].status # "none"
    BY <1>5 DEF CancelReservation, Wired
  <2>2. Wired'
    BY <1>5, <2>1, CancelReservationDoes, KeptWrote, WiredMoves
  <2> QED BY <1>5, <2>1, <2>2, RestoreType, CancelReservationDoes
          DEF CancelReservation, TypeOK, Wrote, Moves
<1>6. ASSUME NEW c \in Calls, NEW o \in Orders, NEW refund \in BOOLEAN,
             AdminCancelOrder(c, o, refund)
      PROVE  TypeInv'
  <2>1. order[o].offer \in Offers /\ order[o].status # "none"
    BY <1>6 DEF AdminCancelOrder, Wired
  <2>2. /\ remaining' \in [Offers -> Nat]
        /\ reserved' \in [Offers -> Nat]
        /\ published' \in [Offers -> BOOLEAN]
    <3>1. CASE Held(o)
      BY <1>6, <2>1, <3>1, RestoreType DEF AdminCancelOrder
    <3>2. CASE ~Held(o)
      <4>1. order[o].qty \in Nat
        BY DEF TypeOK, Row
      <4> QED BY <1>6, <2>1, <3>2, <4>1 DEF AdminCancelOrder, TypeOK
    <3> QED BY <3>1, <3>2
  <2>3. Wired'
    BY <1>6, <2>1, AdminCancelOrderDoes, KeptWrote, WiredMoves
  <2> QED BY <1>6, <2>2, <2>3, AdminCancelOrderDoes
          DEF AdminCancelOrder, TypeOK, Wrote, Moves
<1>7. ASSUME NEW c \in Calls, NEW o \in Orders, AdminCompleteOrder(c, o)
      PROVE  TypeInv'
  <2>1. Wired'
    BY <1>7, AdminCompleteOrderDoes, KeptWrote, WiredMoves DEF AdminCompleteOrder
  <2> QED BY <1>7, <2>1, AdminCompleteOrderDoes
          DEF AdminCompleteOrder, TypeOK, Wrote, Moves
<1>8. ASSUME NEW c \in Calls, ContinueCall(c) \/ RollBackAtLimit(c)
      PROVE  TypeInv'
  <2> DEFINE o == call[c].order
  <2>1. CASE ScheduleHoldExpiry(c)
    <3>1. retries' \in [Orders -> Nat]
      BY <2>1 DEF ScheduleHoldExpiry, TypeOK
    <3>2. Wired'
      BY <2>1, ScheduleHoldExpiryDoes, KeptSame, WiredReturns
    <3> QED BY <2>1, <3>1, <3>2, ScheduleHoldExpiryDoes DEF ScheduleHoldExpiry, TypeOK, Moves
  <2>2. call[c].pc # "idle" =>
            o \in Orders /\ order[o].status # "none" /\ order[o].offer \in Offers
    BY DEF Wired
  <2>3. CASE AcquireLock(c)
    <3>1. Wired'
      BY <2>2, <2>3, AcquireLockDoes, KeptSame, WiredMoves DEF AcquireLock
    <3> QED BY <2>3, <3>1, AcquireLockDoes DEF AcquireLock, TypeOK, Moves
  <2>4. CASE LockDenied(c)
    BY <2>4, LockDeniedDoes, KeptSame, WiredReturns DEF LockDenied, TypeOK, Moves
  <2>5. CASE PushAnswered(c)
    <3>1. Wired'
      BY <2>2, <2>5, PushAnsweredDoes, KeptSame, WiredMoves DEF PushAnswered
    <3> QED BY <2>5, <3>1, PushAnsweredDoes DEF PushAnswered, TypeOK, Moves
  <2>6. CASE PushThrows(c)
    <3>1. Wired'
      BY <2>2, <2>6, PushThrowsDoes, KeptSame, WiredMoves DEF PushThrows
    <3> QED BY <2>6, <3>1, PushThrowsDoes DEF PushThrows, TypeOK, Moves
  <2>7. CASE FinalizeClosed(c)
    <3>1. Wired'
      BY <2>2, <2>7, FinalizeClosedDoes, KeptSame, WiredMoves DEF FinalizeClosed
    <3> QED BY <2>7, <3>1, FinalizeClosedDoes DEF FinalizeClosed, TypeOK, Moves
  <2>8. CASE FinalizeConfirmed(c)
    <3>1. o \in Orders /\ order[o].offer \in Offers /\ order[o].status # "none"
      BY <2>2, <2>8 DEF FinalizeConfirmed, Finalizable
    <3>2. Wired'
      BY <2>8, <3>1, FinalizeConfirmedDoes, KeptWrote, WiredMoves
    <3>3. reserved' \in [Offers -> Nat]
      <4>1. order[o].qty \in Nat
        BY <3>1 DEF TypeOK, Row
      <4> QED BY <2>8, <3>1, <4>1 DEF FinalizeConfirmed, TypeOK, Monus
    <3> QED BY <2>8, <3>2, <3>3, FinalizeConfirmedDoes
            DEF FinalizeConfirmed, TypeOK, Wrote, Moves
  <2>9. CASE FinalizePending(c)
    <3>1. Wired'
      BY <2>2, <2>9, FinalizePendingDoes, KeptWrote, WiredMoves
         DEF FinalizePending, Finalizable
    <3> QED BY <2>9, <3>1, FinalizePendingDoes DEF FinalizePending, TypeOK, Wrote, Moves
  <2>10. CASE FinalizeFailed(c)
    <3>1. Wired'
      BY <2>2, <2>10, FinalizeFailedDoes, KeptWrote, WiredMoves
         DEF FinalizeFailed, Finalizable
    <3>2. order' \in [Orders -> Row] /\ call' \in [Calls -> CallState]
      BY <2>10, FinalizeFailedDoes DEF Wrote, Moves
    <3>3. retries' \in [Orders -> Nat] /\ UNCHANGED <<published, remaining, reserved, job, lock>>
      BY <2>10, CountFailureType DEF FinalizeFailed
    <3> QED BY <3>1, <3>2, <3>3 DEF TypeOK
  <2>11. CASE FinalizeReleases(c)
    <3>1. o \in Orders /\ order[o].offer \in Offers /\ order[o].status # "none"
      BY <2>2, <2>11 DEF FinalizeReleases, Finalizable
    <3>2. Wired'
      BY <2>11, <3>1, FinalizeReleasesDoes, KeptWrote, WiredMoves
    <3>3. order' \in [Orders -> Row] /\ call' \in [Calls -> CallState]
      BY <2>11, FinalizeReleasesDoes DEF Wrote, Moves
    <3>4. retries' \in [Orders -> Nat] /\ UNCHANGED <<job, lock>>
      BY <2>11, CountFailureType DEF FinalizeReleases
    <3>5. /\ remaining' \in [Offers -> Nat]
          /\ reserved' \in [Offers -> Nat]
          /\ published' \in [Offers -> BOOLEAN]
      BY <2>11, <3>1, RestoreType DEF FinalizeReleases
    <3> QED BY <3>2, <3>3, <3>4, <3>5 DEF TypeOK
  <2>12. CASE RollBack(c)
    <3>1. Wired'
      BY <2>2, <2>12, RollBackDoes, KeptSame, WiredMoves DEF RollBack
    <3> QED BY <2>12, <3>1, RollBackDoes, CountFailureType DEF RollBack, TypeOK, Moves
  <2>13. CASE ReleaseLock(c)
    <3>1. Wired'
      BY <2>2, <2>13, ReleaseLockDoes, KeptSame, WiredMoves, WiredReturns DEF ReleaseLock
    <3> QED BY <2>13, <3>1, ReleaseLockDoes DEF ReleaseLock, TypeOK, Moves
  <2>14. CASE CancelHoldExpiry(c)
    <3>1. Wired'
      BY <2>2, <2>14, CancelHoldExpiryDoes, KeptSame, WiredMoves, WiredReturns
         DEF CancelHoldExpiry
    <3> QED BY <2>14, <3>1, CancelHoldExpiryDoes DEF CancelHoldExpiry, TypeOK, Moves
  <2>15. CASE ClearReservationState(c)
    BY <2>15, ClearReservationStateDoes, KeptSame, WiredReturns
       DEF ClearReservationState, TypeOK, Moves
  <2> QED BY <1>8, <2>1, <2>3, <2>4, <2>5, <2>6, <2>7, <2>8, <2>9, <2>10, <2>11,
             <2>12, <2>13, <2>14, <2>15
          DEF ContinueCall, FinalizeRollsBack, RollBackAtLimit
<1>9. ASSUME NEW c \in Calls, Crash(c)
      PROVE  TypeInv'
  BY <1>9, CrashDoes, KeptSame, WiredReturns DEF Crash, TypeOK, Moves
<1>10. ASSUME NEW o \in Orders, LockLapses(o)
       PROVE  TypeInv'
  BY <1>10, KeptSame, WiredSame DEF LockLapses, TypeOK
<1>11. ASSUME NEW o \in Orders, HoldElapses(o)
       PROVE  TypeInv'
  <2>1. Wired'
    BY <1>11, HoldElapsesDoes DEF Wrote, Wired
  <2> QED BY <1>11, <2>1, HoldElapsesDoes DEF HoldElapses, TypeOK, Wrote
<1>12. ASSUME NEW o \in Orders, Worker(o)
       PROVE  TypeInv'
  <2>1. CASE WorkerTakesJob(o)
    BY <2>1, KeptSame, WiredSame DEF WorkerTakesJob, TypeOK
  <2>2. CASE HandleHoldExpiry(o) /\ Expirable(o)
    <3>1. order[o].offer \in Offers /\ order[o].status # "none"
      BY <2>2 DEF Expirable, Wired
    <3>2. Wrote(o, "EXPIRED", order[o].pay) /\ RestoreOfferQuantity(o) /\ UNCHANGED call
      BY <2>2, EndHoldWrote, RowType DEF HandleHoldExpiry, OrderStatus
    <3>3. Wired'
      BY <3>1, <3>2, KeptWrote, WiredSame
    <3> QED BY <2>2, <3>1, <3>2, <3>3, RestoreType DEF HandleHoldExpiry, TypeOK, Wrote
  <2>3. CASE HandleHoldExpiry(o) /\ ~Expirable(o)
    BY <2>3, KeptSame, WiredSame DEF HandleHoldExpiry, TypeOK
  <2>4. CASE WorkerClearsState(o)
    BY <2>4, KeptSame, WiredSame DEF WorkerClearsState, TypeOK
  <2> QED BY <1>12, <2>1, <2>2, <2>3, <2>4 DEF Worker
<1>13. CASE UNCHANGED vars
  BY <1>13 DEF vars, TypeOK, Wired
<1> QED BY <1>1, <1>2, <1>3, <1>4, <1>5, <1>6, <1>7, <1>8, <1>9, <1>10, <1>11,
           <1>12, <1>13 DEF FaultyNext, Next, StartCall

\* Quantities stay natural numbers, every existing order has an offer, and
\* every handler in flight works on an order that exists, faults included.
THEOREM FaultyTypeCorrect == FaultySpec => []TypeInv
BY TypeInvInit, TypeInvNext, PTL DEF FaultySpec

\* The same for the system without the fault.
THEOREM TypeCorrect == Spec => []TypeOK
<1>1. [Next]_vars => [FaultyNext]_vars
  BY DEF FaultyNext
<1>2. TypeInv => TypeOK
  BY DEF TypeInv
<1> QED BY <1>1, <1>2, TypeInvInit, TypeInvNext, PTL DEF Spec

----------------------------------------------------------------------------
(* One payment attempt at a time, and what it may still find its order in. *)

Released == {"EXPIRED", "CANCELLED_BY_USER", "CANCELLED_BY_ADMIN"}

\* While a payment attempt is under way its order waits for it, INITIATED, or
\* was released by somebody else; it was not paid, collected or started over.
AttemptRow ==
    \A c \in Calls : Paying(c) =>
        \/ /\ order[call[c].order].status = "PENDING_PAYMENT"
           /\ order[call[c].order].pay = "INITIATED"
        \/ order[call[c].order].status \in Released

AttemptInv == OneAttemptPerOrder /\ AttemptRow /\ ConfirmedIffPaid

LEMMA AttemptInvInit == Init => AttemptInv
BY DEF Init, AttemptInv, OneAttemptPerOrder, AttemptRow, ConfirmedIffPaid, Paying,
       NoRow, Idle

\* No call begins to pay.
PayingStays ==
    \A d \in Calls : Paying(d)' => Paying(d) /\ call'[d].order = call[d].order

LEMMA StopsPaying ==
    ASSUME NEW c \in Calls, NEW pc, NEW o, NEW answer, Moves(c, pc, o, answer),
           pc \notin {"acquire", "push", "finalize"}
    PROVE  PayingStays /\ ~Paying(c)'
BY DEF Moves, PayingStays, Paying

LEMMA GoesOnPaying ==
    ASSUME NEW c \in Calls, NEW pc, NEW answer, Paying(c),
           Moves(c, pc, call[c].order, answer)
    PROVE  PayingStays
BY DEF Moves, PayingStays, Paying

LEMMA QuietStep ==
    ASSUME TypeInv, AttemptInv, PayingStays,
           \A o \in Orders : order'[o].status = order[o].status /\ order'[o].pay = order[o].pay
    PROVE  AttemptInv'
<1>1. \A d \in Calls : Paying(d) => call[d].order \in Orders
  BY DEF TypeInv, Wired, Paying
<1>2. OneAttemptPerOrder'
  BY DEF AttemptInv, OneAttemptPerOrder, PayingStays
<1>3. AttemptRow'
  BY <1>1 DEF AttemptInv, AttemptRow, PayingStays
<1>4. ConfirmedIffPaid'
  BY DEF AttemptInv, ConfirmedIffPaid
<1> QED BY <1>2, <1>3, <1>4 DEF AttemptInv

\* One row is written, in a way that no attempt under way forbids.
LEMMA RowStep ==
    ASSUME TypeInv, AttemptInv, PayingStays, NEW o \in Orders, NEW status, NEW pay,
           Wrote(o, status, pay),
           pay = "CONFIRMED" => status \in {"PAID", "COLLECTED", "CANCELLED_BY_ADMIN"},
           status \in {"PAID", "COLLECTED"} => pay = "CONFIRMED",
           status \in Released \/ \A d \in Calls : Paying(d)' => call[d].order # o
    PROVE  AttemptInv'
<1>1. \A d \in Calls : Paying(d) => call[d].order \in Orders
  BY DEF TypeInv, Wired, Paying
<1>2. OneAttemptPerOrder'
  BY DEF AttemptInv, OneAttemptPerOrder, PayingStays
<1>3. AttemptRow'
  <2> SUFFICES ASSUME NEW d \in Calls, Paying(d)'
               PROVE  \/ /\ order'[call'[d].order].status = "PENDING_PAYMENT"
                         /\ order'[call'[d].order].pay = "INITIATED"
                      \/ order'[call'[d].order].status \in Released
    BY DEF AttemptRow
  <2>1. Paying(d) /\ call'[d].order = call[d].order /\ call[d].order \in Orders
    BY <1>1 DEF PayingStays
  <2>2. CASE call[d].order = o
    BY <2>1, <2>2 DEF Wrote
  <2>3. CASE call[d].order # o
    BY <2>1, <2>3 DEF Wrote, AttemptInv, AttemptRow
  <2> QED BY <2>2, <2>3
<1>4. ConfirmedIffPaid'
  BY DEF AttemptInv, ConfirmedIffPaid, Wrote
<1> QED BY <1>2, <1>3, <1>4 DEF AttemptInv

Agree(status, pay) ==
    /\ pay = "CONFIRMED" => status \in {"PAID", "COLLECTED", "CANCELLED_BY_ADMIN"}
    /\ status \in {"PAID", "COLLECTED"} => pay = "CONFIRMED"

\* An attempt that is at its last step writes its row and is over.
LEMMA AttemptEnds ==
    ASSUME TypeInv, AttemptInv, NEW c \in Calls, Finalizable(c),
           NEW status, NEW pay, Wrote(call[c].order, status, pay),
           NEW answer, Moves(c, "unlock", call[c].order, answer),
           Agree(status, pay)
    PROVE  AttemptInv'
<1>1. Paying(c) /\ call[c].order \in Orders
  BY DEF Finalizable, Paying, TypeInv, Wired
<1>2. PayingStays /\ ~Paying(c)'
  BY StopsPaying
<1>3. \A d \in Calls : Paying(d)' => call[d].order # call[c].order
  BY <1>1, <1>2 DEF PayingStays, AttemptInv, OneAttemptPerOrder
<1> QED BY <1>1, <1>2, <1>3, RowStep DEF Agree

LEMMA AttemptInvNext == TypeInv /\ AttemptInv /\ [FaultyNext]_vars => AttemptInv'
<1> SUFFICES ASSUME TypeInv, AttemptInv, [FaultyNext]_vars PROVE AttemptInv'
  OBVIOUS
\* A reservation that holds stock is not confirmed, a paid one is.
<1>h. ASSUME NEW o \in Orders, Held(o)
      PROVE  order[o].status # "none" /\ order[o].pay # "CONFIRMED"
  BY <1>h DEF Held, AttemptInv, ConfirmedIffPaid
\* Only a reservation waiting for its attempt, or released, has one.
<1>p. ASSUME NEW o \in Orders,
             \/ order[o].status \in {"none", "HOLD", "PAID", "COLLECTED"}
             \/ order[o].status = "PENDING_PAYMENT" /\ order[o].pay # "INITIATED"
      PROVE  \A d \in Calls : Paying(d) => call[d].order # o
  BY <1>p DEF AttemptInv, AttemptRow, Released
<1>1. ASSUME NEW c \in Calls, NEW o \in Orders, NEW f \in Offers,
             NEW q \in 1..Total[f], Reserve(c, f, q, o)
      PROVE  AttemptInv'
  <2>1. PayingStays
    BY <1>1, ReserveDoes, StopsPaying
  <2>2. /\ order'[o].status = "HOLD" /\ order'[o].pay = "PENDING"
        /\ \A p \in Orders \ {o} : order'[p] = order[p]
    BY <1>1, ReserveDoes
  <2>3. \A d \in Calls : Paying(d) => call[d].order \in Orders \ {o}
    BY <1>1, <1>p DEF Reserve, Paying, TypeInv, Wired
  <2>4. OneAttemptPerOrder'
    BY <2>1 DEF AttemptInv, OneAttemptPerOrder, PayingStays
  <2>5. AttemptRow'
    BY <2>1, <2>2, <2>3 DEF AttemptInv, AttemptRow, PayingStays
  <2>6. ConfirmedIffPaid'
    BY <2>2 DEF AttemptInv, ConfirmedIffPaid
  <2> QED BY <2>4, <2>5, <2>6 DEF AttemptInv
<1>2. ASSUME NEW c \in Calls, NEW o \in Orders, RestoreExpiredHold(c, o)
      PROVE  AttemptInv'
  <2>1. PayingStays
    BY <1>2, RestoreExpiredHoldDoes, StopsPaying
  <2> QED BY <1>2, <1>h, <2>1, RestoreExpiredHoldDoes, RowStep DEF RestoreExpiredHold, Released
<1>3. ASSUME NEW c \in Calls, NEW o \in Orders, PrepareReleases(c, o)
      PROVE  AttemptInv'
  BY <1>3, PrepareReleasesDoes, StopsPaying, QuietStep
<1>4. ASSUME NEW c \in Calls, NEW o \in Orders, PrepareAttempt(c, o)
      PROVE  AttemptInv'
  <2>1. \A d \in Calls : Paying(d) => call[d].order # o /\ d # c
    BY <1>4, <1>p DEF PrepareAttempt, Held, Paying
  <2>2. /\ order'[o].status = "PENDING_PAYMENT" /\ order'[o].pay = "INITIATED"
        /\ \A p \in Orders \ {o} : order'[p] = order[p]
    BY <1>4, PrepareAttemptDoes DEF Wrote
  <2>3. /\ call'[c].order = o
        /\ \A d \in Calls \ {c} : call'[d] = call[d]
    BY <1>4, PrepareAttemptDoes DEF Moves
  <2>4. \A d \in Calls : Paying(d) => call[d].order \in Orders
    BY DEF Paying, TypeInv, Wired
  <2>5. \A d \in Calls \ {c} : Paying(d)' => Paying(d) /\ call'[d].order = call[d].order
    BY <2>3 DEF Paying
  <2>6. OneAttemptPerOrder'
    BY <2>1, <2>3, <2>5 DEF AttemptInv, OneAttemptPerOrder
  <2>7. AttemptRow'
    BY <2>1, <2>2, <2>3, <2>4, <2>5 DEF AttemptInv, AttemptRow
  <2>8. ConfirmedIffPaid'
    BY <2>2 DEF AttemptInv, ConfirmedIffPaid
  <2> QED BY <2>6, <2>7, <2>8 DEF AttemptInv
<1>5. ASSUME NEW c \in Calls, NEW o \in Orders, CancelReservation(c, o)
      PROVE  AttemptInv'
  <2>1. PayingStays
    BY <1>5, CancelReservationDoes, StopsPaying
  <2> QED BY <1>5, <1>h, <2>1, CancelReservationDoes, RowStep DEF CancelReservation, Released
<1>6. ASSUME NEW c \in Calls, NEW o \in Orders, NEW refund \in BOOLEAN,
             AdminCancelOrder(c, o, refund)
      PROVE  AttemptInv'
  <2>1. PayingStays
    BY <1>6, AdminCancelOrderDoes, StopsPaying
  <2> QED BY <1>6, <2>1, AdminCancelOrderDoes, RowStep DEF Released
<1>7. ASSUME NEW c \in Calls, NEW o \in Orders, AdminCompleteOrder(c, o)
      PROVE  AttemptInv'
  <2>1. PayingStays
    BY <1>7, AdminCompleteOrderDoes, StopsPaying
  <2>2. order[o].status = "PAID" /\ order[o].pay = "CONFIRMED"
    BY <1>7 DEF AdminCompleteOrder, AttemptInv, ConfirmedIffPaid
  <2>3. \A d \in Calls : Paying(d)' => call[d].order # o
    BY <1>p, <2>1, <2>2 DEF PayingStays
  <2> QED BY <1>7, <2>1, <2>2, <2>3, AdminCompleteOrderDoes, RowStep
<1>8. ASSUME NEW c \in Calls, ContinueCall(c) \/ RollBackAtLimit(c)
      PROVE  AttemptInv'
  <2>1. CASE ScheduleHoldExpiry(c)
    BY <2>1, ScheduleHoldExpiryDoes, StopsPaying, QuietStep
  <2>2. CASE AcquireLock(c)
    <3>1. Paying(c)
      BY <2>2 DEF AcquireLock, Paying
    <3>2. PayingStays /\ UNCHANGED order
      BY <2>2, <3>1, AcquireLockDoes, GoesOnPaying
    <3> QED BY <3>2, QuietStep
  <2>3. CASE LockDenied(c)
    BY <2>3, LockDeniedDoes, StopsPaying, QuietStep
  <2>4. CASE PushAnswered(c)
    BY <2>4, PushAnsweredDoes, GoesOnPaying, QuietStep DEF PushAnswered, Paying
  <2>5. CASE PushThrows(c)
    <3>1. PayingStays /\ UNCHANGED order
      BY <2>5, PushThrowsDoes, StopsPaying
    <3> QED BY <3>1, QuietStep
  <2>6. CASE FinalizeClosed(c)
    <3>1. PayingStays /\ UNCHANGED order
      BY <2>6, FinalizeClosedDoes, StopsPaying
    <3> QED BY <3>1, QuietStep
  <2>7. CASE FinalizeConfirmed(c)
    <3>1. Finalizable(c)
      BY <2>7 DEF FinalizeConfirmed
    <3>2. /\ Moves(c, "unlock", call[c].order, "CONFIRMED")
          /\ Wrote(call[c].order, "PAID", "CONFIRMED")
          /\ Agree("PAID", "CONFIRMED")
      BY <2>7, FinalizeConfirmedDoes DEF Agree
    <3> QED BY <3>1, <3>2, AttemptEnds
  <2>8. CASE FinalizePending(c)
    <3>1. Finalizable(c)
      BY <2>8 DEF FinalizePending
    <3>2. /\ Moves(c, "unlock", call[c].order, "PROCESSING")
          /\ Wrote(call[c].order, "PENDING_PAYMENT", "PROCESSING")
          /\ Agree("PENDING_PAYMENT", "PROCESSING")
      BY <2>8, FinalizePendingDoes DEF Agree
    <3> QED BY <3>1, <3>2, AttemptEnds
  <2>9. CASE FinalizeFailed(c)
    <3>1. Finalizable(c)
      BY <2>9 DEF FinalizeFailed
    <3>2. PICK answer : Moves(c, "unlock", call[c].order, answer)
      BY <2>9, FinalizeFailedDoes
    <3>3. Wrote(call[c].order, "PENDING_PAYMENT", "FAILED") /\ Agree("PENDING_PAYMENT", "FAILED")
      BY <2>9, FinalizeFailedDoes DEF Agree
    <3> QED BY <3>1, <3>2, <3>3, AttemptEnds
  <2>10. CASE FinalizeReleases(c)
    <3>1. Finalizable(c)
      BY <2>10 DEF FinalizeReleases
    <3>2. /\ Moves(c, "unlock", call[c].order, "RELEASED")
          /\ Wrote(call[c].order, "CANCELLED_BY_USER", "FAILED")
          /\ Agree("CANCELLED_BY_USER", "FAILED")
      BY <2>10, FinalizeReleasesDoes DEF Agree
    <3> QED BY <3>1, <3>2, AttemptEnds
  <2>11. CASE RollBack(c)
    <3>1. PayingStays /\ UNCHANGED order
      BY <2>11, RollBackDoes, StopsPaying
    <3> QED BY <3>1, QuietStep
  <2>12. CASE ReleaseLock(c)
    <3>1. PayingStays /\ UNCHANGED order
      BY <2>12, ReleaseLockDoes, StopsPaying
    <3> QED BY <3>1, QuietStep
  <2>13. CASE CancelHoldExpiry(c)
    <3>1. PayingStays /\ UNCHANGED order
      BY <2>13, CancelHoldExpiryDoes, StopsPaying
    <3> QED BY <3>1, QuietStep
  <2>14. CASE ClearReservationState(c)
    BY <2>14, ClearReservationStateDoes, StopsPaying, QuietStep
  <2> QED BY <1>8, <2>1, <2>2, <2>3, <2>4, <2>5, <2>6, <2>7, <2>8, <2>9, <2>10,
             <2>11, <2>12, <2>13, <2>14
          DEF ContinueCall, FinalizeRollsBack, RollBackAtLimit
<1>9. ASSUME NEW c \in Calls, Crash(c)
      PROVE  AttemptInv'
  BY <1>9, CrashDoes, StopsPaying, QuietStep
<1>10. ASSUME NEW o \in Orders,
              LockLapses(o) \/ WorkerTakesJob(o) \/ WorkerClearsState(o)
       PROVE  AttemptInv'
  <2>1. UNCHANGED <<order, call>>
    BY <1>10 DEF LockLapses, WorkerTakesJob, WorkerClearsState
  <2>2. PayingStays
    BY <2>1 DEF PayingStays, Paying
  <2> QED BY <2>1, <2>2, QuietStep
<1>11. ASSUME NEW o \in Orders, HoldElapses(o)
       PROVE  AttemptInv'
  <2>1. PayingStays
    BY <1>11 DEF HoldElapses, PayingStays, Paying
  <2>2. \A p \in Orders : order'[p].status = order[p].status /\ order'[p].pay = order[p].pay
    BY <1>11, HoldElapsesDoes DEF Wrote
  <2> QED BY <2>1, <2>2, QuietStep
<1>12. ASSUME NEW o \in Orders, HandleHoldExpiry(o)
       PROVE  AttemptInv'
  <2>1. UNCHANGED call
    BY <1>12, HandleHoldExpiryDoes
  <2>2. PayingStays
    BY <2>1 DEF PayingStays, Paying
  <2>3. CASE Expirable(o) /\ Wrote(o, "EXPIRED", order[o].pay)
    BY <1>h, <2>2, <2>3, RowStep DEF Expirable, Released
  <2>4. CASE UNCHANGED order
    BY <2>2, <2>4, QuietStep
  <2> QED BY <1>12, <2>3, <2>4, HandleHoldExpiryDoes
<1>13. CASE UNCHANGED vars
  <2>1. PayingStays
    BY <1>13 DEF PayingStays, Paying, vars
  <2> QED BY <1>13, <2>1, QuietStep DEF vars
<1> QED BY <1>1, <1>2, <1>3, <1>4, <1>5, <1>6, <1>7, <1>8, <1>9, <1>10, <1>11,
           <1>12, <1>13 DEF FaultyNext, Next, StartCall, Worker

\* At most one payment attempt is under way for an order, whatever crashes,
\* lost locks and rolled-back transactions come between.
THEOREM AttemptsExclusive == FaultySpec => []OneAttemptPerOrder
<1>1. AttemptInv => OneAttemptPerOrder
  BY DEF AttemptInv
<1> QED BY <1>1, TypeInvInit, TypeInvNext, AttemptInvInit, AttemptInvNext, PTL DEF FaultySpec

\* Paid orders are the confirmed ones, and a confirmed order holds no stock.
THEOREM ConfirmedIsPaid == Spec => []ConfirmedIffPaid
<1>1. [Next]_vars => [FaultyNext]_vars
  BY DEF FaultyNext
<1>2. AttemptInv => ConfirmedIffPaid
  BY DEF AttemptInv
<1> QED BY <1>1, <1>2, TypeInvInit, TypeInvNext, AttemptInvInit, AttemptInvNext, PTL DEF Spec
============================================================================
