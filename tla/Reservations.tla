---------------------------- MODULE Reservations ----------------------------
(***************************************************************************)
(* The reservation core: OrdersService.reserve, markPaid,                  *)
(* cancelReservation, adminCancelOrder and adminCompleteOrder running      *)
(* concurrently with the hold-expiry worker of OrderHoldsQueueService.     *)
(*                                                                         *)
(* A database transaction that locks its rows FOR UPDATE is one step.      *)
(* Everything a handler does before or after it (a Redis call, the BullMQ  *)
(* job, the WAAFI request) is a step of its own, so handlers interleave    *)
(* exactly where the code awaits outside a transaction.  A handler that    *)
(* only answers with an error, having changed nothing, is no step.         *)
(*                                                                         *)
(* Left out: the columns no guard reads (timestamps, provider ids, notes), *)
(* the append-only order_events rows, the payment row, the wallet and the  *)
(* statistics, which no handler of this module reads back.                 *)
(***************************************************************************)
EXTENDS Integers, FiniteSets

CONSTANTS Offers,             \* offers on sale
          Orders,             \* identities reserve may give to new orders
          Calls,              \* handler executions that may be in flight
          NoOffer, NoOrder, NoCall,
          Total,              \* Offer.quantity_total
          MaxFailedAttempts   \* OrderHoldsQueueService.MAX_FAILED_ATTEMPTS

ASSUME ReservationsAssumption ==
    /\ IsFiniteSet(Orders)
    /\ NoOffer \notin Offers
    /\ NoOrder \notin Orders
    /\ NoCall \notin Calls
    /\ Total \in [Offers -> Nat]
    /\ MaxFailedAttempts \in Nat \ {0}

VARIABLES
    published,   \* Offer.status = PUBLISHED
    remaining,   \* Offer.quantity_remaining
    reserved,    \* Offer.quantity_reserved
    order,       \* the orders table
    job,         \* the BullMQ hold-expiry job of an order
    retries,     \* Redis retry counter of an order, 0 when the key is absent
    lock,        \* Redis payment-attempt lock of an order: its holder's token
    call         \* the handler executions in flight

offerVars == <<published, remaining, reserved>>
redisVars == <<job, retries, lock>>
vars == <<offerVars, order, redisVars, call>>

----------------------------------------------------------------------------
(* READY_FOR_PICKUP and NO_SHOW are read by the code but never assigned.   *)
OrderStatus == {"none", "HOLD", "PENDING_PAYMENT", "PAID", "COLLECTED",
                "CANCELLED_BY_USER", "CANCELLED_BY_ADMIN", "EXPIRED"}
PaymentStatus == {"PENDING", "INITIATED", "PROCESSING", "CONFIRMED",
                  "FAILED", "REFUNDED"}

(* What submitWaafiPushPayment hands back.  FAILED stands for FAILED and   *)
(* REJECTED, which no guard here tells apart (Payments.tla does) and which *)
(* count toward the retry limit; TRANSPORT is a FAILED result that does    *)
(* not count (timeout, network error).                                     *)
Answers == {"CONFIRMED", "PROCESSING", "FAILED", "TRANSPORT"}

(* hold_expires_at: absent, in the future, or reached. *)
HoldClock == {"null", "running", "elapsed"}

(* Where a handler stands: between transactions, next to do ... *)
PC == {"idle", "schedule", "acquire", "push", "finalize",
       "unlock", "cancelJob", "clearState"}

NoRow == [status |-> "none", pay |-> "PENDING", hold |-> "null",
          offer |-> NoOffer, qty |-> 0]
Idle == [pc |-> "idle", order |-> NoOrder, answer |-> "none"]

Row == [status: OrderStatus, pay: PaymentStatus, hold: HoldClock,
        offer: Offers \cup {NoOffer}, qty: Nat]
CallState == [pc: PC, order: Orders \cup {NoOrder},
              answer: Answers \cup {"none", "THROWN", "RELEASED"}]

TypeOK ==
    /\ published \in [Offers -> BOOLEAN]
    /\ remaining \in [Offers -> Nat]
    /\ reserved \in [Offers -> Nat]
    /\ order \in [Orders -> Row]
    /\ job \in [Orders -> {"none", "delayed", "active", "clearing"}]
    /\ retries \in [Orders -> Nat]
    /\ lock \in [Orders -> Calls \cup {NoCall}]
    /\ call \in [Calls -> CallState]

Init ==
    /\ published \in [Offers -> BOOLEAN]
    /\ remaining = Total
    /\ reserved = [f \in Offers |-> 0]
    /\ order = [o \in Orders |-> NoRow]
    /\ job = [o \in Orders |-> "none"]
    /\ retries = [o \in Orders |-> 0]
    /\ lock = [o \in Orders |-> NoCall]
    /\ call = [c \in Calls |-> Idle]

----------------------------------------------------------------------------
Held(o) == order[o].status \in {"HOLD", "PENDING_PAYMENT"}

\* Math.max(a - b, 0)
Monus(a, b) == IF a > b THEN a - b ELSE 0

\* restoreOfferQuantity on the offer of order o, saved in the transaction.
RestoreOfferQuantity(o) ==
    LET f == order[o].offer  q == order[o].qty IN
    /\ remaining' = [remaining EXCEPT ![f] = @ + q]
    /\ reserved' = [reserved EXCEPT ![f] = Monus(@, q)]
    /\ UNCHANGED published

\* An order that ends its hold: the status it ends in, hold_expires_at = null.
EndHold(o, status, pay) ==
    order' = [order EXCEPT ![o].status = status, ![o].pay = pay, ![o].hold = "null"]

SetPayment(o, status, pay) ==
    order' = [order EXCEPT ![o].status = status, ![o].pay = pay]

\* Call c, working on order o, goes on to step pc; Return ends it.
Goto(c, pc, o) == call' = [call EXCEPT ![c] = [pc |-> pc, order |-> o, answer |-> "none"]]
Answered(c, pc, answer) == call' = [call EXCEPT ![c].pc = pc, ![c].answer = answer]
Return(c) == call' = [call EXCEPT ![c] = Idle]

----------------------------------------------------------------------------
(* reserve: one transaction, then the expiry job is put on the queue. *)

\* Mutant: the offer's remaining quantity is not checked.
ReserveUnchecked(c, f, q, o) ==
    /\ call[c].pc = "idle"
    /\ order[o].status = "none"
    /\ published[f]
    /\ remaining' = [remaining EXCEPT ![f] = @ - q]
    /\ reserved' = [reserved EXCEPT ![f] = @ + q]
    /\ order' = [order EXCEPT ![o] = [status |-> "HOLD", pay |-> "PENDING",
                                      hold |-> "running", offer |-> f, qty |-> q]]
    /\ Goto(c, "schedule", o)
    /\ UNCHANGED <<published, redisVars>>

Reserve(c, f, q, o) ==
    /\ call[c].pc = "idle"
    /\ order[o].status = "none"
    /\ published[f]
    /\ q <= remaining[f]
    /\ remaining' = [remaining EXCEPT ![f] = @ - q]
    /\ reserved' = [reserved EXCEPT ![f] = @ + q]
    /\ order' = [order EXCEPT ![o] = [status |-> "HOLD", pay |-> "PENDING",
                                      hold |-> "running", offer |-> f, qty |-> q]]
    /\ Goto(c, "schedule", o)
    /\ UNCHANGED <<published, redisVars>>

\* scheduleHoldExpiry; resetRetryState looks for the retry key and, in a command of
\* its own, sets an absent one to 0, which reads as absent: failures that came
\* between the two commands are forgotten.
ScheduleHoldExpiry(c) ==
    /\ call[c].pc = "schedule"
    /\ job' = [job EXCEPT ![call[c].order] = "delayed"]
    /\ retries' \in {retries, [retries EXCEPT ![call[c].order] = 0]}
    /\ Return(c)
    /\ UNCHANGED <<offerVars, order, lock>>

----------------------------------------------------------------------------
(* markPaid, and cancelReservation on an order whose hold has run out. *)

\* restoreExpiredHold, reached from markPaid and from cancelReservation.
RestoreExpiredHold(c, o) ==
    /\ call[c].pc = "idle"
    /\ Held(o)
    /\ order[o].hold = "elapsed"
    /\ RestoreOfferQuantity(o)
    /\ EndHold(o, "EXPIRED", order[o].pay)
    /\ Goto(c, "cancelJob", o)
    /\ UNCHANGED redisVars

\* markPaid finds the limit already reached: the offer is saved, and the
\* cancelled order object is returned without being saved.
PrepareReleases(c, o) ==
    /\ call[c].pc = "idle"
    /\ Held(o)
    /\ order[o].hold # "elapsed"
    /\ order[o].pay # "CONFIRMED"
    /\ retries[o] >= MaxFailedAttempts
    /\ RestoreOfferQuantity(o)
    /\ Goto(c, "cancelJob", o)
    /\ UNCHANGED <<order, redisVars>>

\* Mutant: a payment already INITIATED or PROCESSING is not looked at.
PrepareAttemptTwice(c, o) ==
    /\ call[c].pc = "idle"
    /\ Held(o)
    /\ order[o].hold # "elapsed"
    /\ retries[o] < MaxFailedAttempts
    /\ SetPayment(o, "PENDING_PAYMENT", "INITIATED")
    /\ Goto(c, "acquire", o)
    /\ UNCHANGED <<offerVars, redisVars>>

PrepareAttempt(c, o) ==
    /\ call[c].pc = "idle"
    /\ Held(o)
    /\ order[o].hold # "elapsed"
    /\ retries[o] < MaxFailedAttempts
    /\ order[o].pay \notin {"INITIATED", "PROCESSING", "CONFIRMED"}
    /\ SetPayment(o, "PENDING_PAYMENT", "INITIATED")
    /\ Goto(c, "acquire", o)
    /\ UNCHANGED <<offerVars, redisVars>>

AcquireLock(c) ==
    LET o == call[c].order IN
    /\ call[c].pc = "acquire"
    /\ lock[o] = NoCall
    /\ lock' = [lock EXCEPT ![o] = c]
    /\ Goto(c, "push", o)
    /\ UNCHANGED <<offerVars, order, job, retries>>

\* The lock is taken: markPaid throws, and the order stays INITIATED.
LockDenied(c) ==
    /\ call[c].pc = "acquire"
    /\ lock[call[c].order] # NoCall
    /\ Return(c)
    /\ UNCHANGED <<offerVars, order, redisVars>>

\* PAYMENT_ATTEMPT_LOCK_TTL_MS is shorter than the WAAFI request timeout.
LockLapses(o) ==
    /\ lock[o] # NoCall
    /\ lock' = [lock EXCEPT ![o] = NoCall]
    /\ UNCHANGED <<offerVars, order, job, retries, call>>

\* submitWaafiPushPayment returns (see Payments.tla for what it does).
PushAnswered(c) ==
    /\ call[c].pc = "push"
    /\ \E answer \in Answers : Answered(c, "finalize", answer)
    /\ UNCHANGED <<offerVars, order, redisVars>>

\* It throws (WAAFI disabled, unsupported provider): only the lock is undone.
PushThrows(c) ==
    /\ call[c].pc = "push"
    /\ Answered(c, "unlock", "THROWN")
    /\ UNCHANGED <<offerVars, order, redisVars>>

----------------------------------------------------------------------------
(* The second transaction of markPaid.  Its guard on the order's status    *)
(* accepts HOLD, PENDING_PAYMENT and PAID.                                 *)

\* Mutant: the order is not looked at again after the provider's answer.
FinalizableAlways(c) == call[c].pc = "finalize"

Finalizable(c) ==
    /\ call[c].pc = "finalize"
    /\ order[call[c].order].status \in {"HOLD", "PENDING_PAYMENT", "PAID"}

\* The reservation was closed meanwhile: the order keeps its state.
FinalizeClosed(c) ==
    /\ call[c].pc = "finalize"
    /\ ~Finalizable(c)
    /\ Answered(c, "unlock", call[c].answer)
    /\ UNCHANGED <<offerVars, order, redisVars>>

\* Mutant: the payment status is written, the order status is not.
FinalizeConfirmedPayOnly(c) ==
    LET o == call[c].order IN
    /\ Finalizable(c)
    /\ call[c].answer = "CONFIRMED"
    /\ SetPayment(o, order[o].status, "CONFIRMED")
    /\ Answered(c, "unlock", call[c].answer)
    /\ UNCHANGED <<offerVars, redisVars>>

\* Mutant: a sale gives the units back as a release does.
FinalizeConfirmedRestoring(c) ==
    LET o == call[c].order IN
    /\ Finalizable(c)
    /\ call[c].answer = "CONFIRMED"
    /\ EndHold(o, "PAID", "CONFIRMED")
    /\ RestoreOfferQuantity(o)
    /\ Answered(c, "unlock", call[c].answer)
    /\ UNCHANGED redisVars

FinalizeConfirmed(c) ==
    LET o == call[c].order IN
    /\ Finalizable(c)
    /\ call[c].answer = "CONFIRMED"
    /\ EndHold(o, "PAID", "CONFIRMED")
    /\ reserved' = [reserved EXCEPT ![order[o].offer] = Monus(@, order[o].qty)]
    /\ Answered(c, "unlock", call[c].answer)
    /\ UNCHANGED <<published, remaining, redisVars>>

FinalizePending(c) ==
    /\ Finalizable(c)
    /\ call[c].answer = "PROCESSING"
    /\ SetPayment(call[c].order, "PENDING_PAYMENT", "PROCESSING")
    /\ Answered(c, "unlock", call[c].answer)
    /\ UNCHANGED <<offerVars, redisVars>>

\* registerFailedPaymentAttempt: INCR, whose result the caller reads.
CountFailure(c) ==
    retries' = [retries EXCEPT ![call[c].order] =
                    IF call[c].answer = "FAILED" THEN @ + 1 ELSE @]

\* Mutant: one attempt too many.
ReachesLimitLate(c) ==
    /\ call[c].answer = "FAILED"
    /\ retries[call[c].order] + 1 > MaxFailedAttempts

ReachesLimit(c) ==
    /\ call[c].answer = "FAILED"
    /\ retries[call[c].order] + 1 >= MaxFailedAttempts

FinalizeFailed(c) ==
    /\ Finalizable(c)
    /\ call[c].answer \in {"FAILED", "TRANSPORT"}
    /\ ~ReachesLimit(c)
    /\ SetPayment(call[c].order, "PENDING_PAYMENT", "FAILED")
    /\ CountFailure(c)
    /\ Answered(c, "unlock", call[c].answer)
    /\ UNCHANGED <<offerVars, job, lock>>

\* cancelReservationForFailedAttempts, the order saved by the caller.
FinalizeReleases(c) ==
    /\ Finalizable(c)
    /\ ReachesLimit(c)
    /\ RestoreOfferQuantity(call[c].order)
    /\ EndHold(call[c].order, "CANCELLED_BY_USER", "FAILED")
    /\ CountFailure(c)
    /\ Answered(c, "unlock", "RELEASED")
    /\ UNCHANGED <<job, lock>>

\* The transaction rolls back (a unique-key race on the wallet, a lost
\* connection): the rows keep their state, but the INCR is not undone.
RollBack(c) ==
    /\ call[c].pc = "finalize"
    /\ \/ CountFailure(c) /\ Finalizable(c)
       \/ UNCHANGED retries
    /\ Answered(c, "unlock", "THROWN")
    /\ UNCHANGED <<offerVars, order, job, lock>>

FinalizeRollsBack(c) == ~ReachesLimit(c) /\ RollBack(c)

\* The same, when the INCR that is not undone was the last one allowed.
RollBackAtLimit(c) == ReachesLimit(c) /\ RollBack(c)

\* Mutant: the clean-up follows every answer, not only the closing ones.
ReleaseLockAlwaysCleaning(c) ==
    LET o == call[c].order IN
    /\ call[c].pc = "unlock"
    /\ lock' = [lock EXCEPT ![o] = IF @ = c THEN NoCall ELSE @]
    /\ IF call[c].answer # "THROWN" THEN Goto(c, "cancelJob", o) ELSE Return(c)
    /\ UNCHANGED <<offerVars, order, job, retries>>

\* The finally block, with the compare-and-delete of the lock.
ReleaseLock(c) ==
    LET o == call[c].order IN
    /\ call[c].pc = "unlock"
    /\ lock' = [lock EXCEPT ![o] = IF @ = c THEN NoCall ELSE @]
    /\ IF call[c].answer \in {"CONFIRMED", "RELEASED"}
       THEN Goto(c, "cancelJob", o)
       ELSE Return(c)
    /\ UNCHANGED <<offerVars, order, job, retries>>

----------------------------------------------------------------------------
(* The clean-up every handler that closes a reservation ends with. *)

\* cancelHoldExpiry; removing a job the worker is running throws.
CancelHoldExpiry(c) ==
    LET o == call[c].order IN
    /\ call[c].pc = "cancelJob"
    /\ IF job[o] \in {"active", "clearing"}
       THEN Return(c) /\ UNCHANGED job
       ELSE Goto(c, "clearState", o) /\ job' = [job EXCEPT ![o] = "none"]
    /\ UNCHANGED <<offerVars, order, retries, lock>>

\* clearReservationState deletes the retry key and the lock, whoever holds it.
ClearReservationState(c) ==
    LET o == call[c].order IN
    /\ call[c].pc = "clearState"
    /\ retries' = [retries EXCEPT ![o] = 0]
    /\ lock' = [lock EXCEPT ![o] = NoCall]
    /\ Return(c)
    /\ UNCHANGED <<offerVars, order, job>>

----------------------------------------------------------------------------
CancelReservation(c, o) ==
    /\ call[c].pc = "idle"
    /\ Held(o)
    /\ order[o].hold # "elapsed"
    /\ RestoreOfferQuantity(o)
    /\ EndHold(o, "CANCELLED_BY_USER", order[o].pay)
    /\ Goto(c, "cancelJob", o)
    /\ UNCHANGED redisVars

\* applySimpleRefund: a mark on the order, no call to the provider.
Refund(pay) == IF pay \in {"CONFIRMED", "PROCESSING"} THEN "REFUNDED" ELSE pay

AdminCancelOrder(c, o, refund) ==
    LET f == order[o].offer IN
    /\ call[c].pc = "idle"
    /\ order[o].status \in {"HOLD", "PENDING_PAYMENT", "PAID"}
    /\ IF Held(o)
       THEN RestoreOfferQuantity(o)
       ELSE /\ remaining' = [remaining EXCEPT ![f] = @ + order[o].qty]
            /\ UNCHANGED <<reserved, published>>
    /\ EndHold(o, "CANCELLED_BY_ADMIN",
               IF refund THEN Refund(order[o].pay) ELSE order[o].pay)
    /\ Goto(c, "cancelJob", o)
    /\ UNCHANGED redisVars

AdminCompleteOrder(c, o) ==
    /\ call[c].pc = "idle"
    /\ order[o].status = "PAID"
    /\ order' = [order EXCEPT ![o].status = "COLLECTED"]
    /\ Goto(c, "cancelJob", o)
    /\ UNCHANGED <<offerVars, redisVars>>

----------------------------------------------------------------------------
(* The hold clock and the worker.  The retry key carries the hold's TTL,   *)
(* so it goes when the hold runs out.                                      *)
HoldElapses(o) ==
    /\ order[o].hold = "running"
    /\ order' = [order EXCEPT ![o].hold = "elapsed"]
    /\ retries' = [retries EXCEPT ![o] = 0]
    /\ UNCHANGED <<offerVars, job, lock, call>>

\* The job's delay is the hold's: the worker gets it when the hold is over.
WorkerTakesJob(o) ==
    /\ job[o] = "delayed"
    /\ order[o].hold # "running"
    /\ job' = [job EXCEPT ![o] = "active"]
    /\ UNCHANGED <<offerVars, order, retries, lock, call>>

\* Mutant: the worker leaves alone an order whose payment was started.
ExpirableUnlessStarted(o) == Held(o) /\ order[o].pay \notin {"CONFIRMED", "INITIATED"}

Expirable(o) == Held(o) /\ order[o].pay # "CONFIRMED"

\* Mutant: the worker trusts its job and does not look at the order's status.
HandleHoldExpiryBlindly(o) ==
    /\ job[o] = "active"
    /\ RestoreOfferQuantity(o)
    /\ EndHold(o, "EXPIRED", order[o].pay)
    /\ job' = [job EXCEPT ![o] = "clearing"]
    /\ UNCHANGED <<retries, lock, call>>

\* The transaction of handleHoldExpiry.
HandleHoldExpiry(o) ==
    /\ job[o] = "active"
    /\ IF Expirable(o)
       THEN RestoreOfferQuantity(o) /\ EndHold(o, "EXPIRED", order[o].pay)
       ELSE UNCHANGED <<offerVars, order>>
    /\ job' = [job EXCEPT ![o] = "clearing"]
    /\ UNCHANGED <<retries, lock, call>>

WorkerClearsState(o) ==
    /\ job[o] = "clearing"
    /\ job' = [job EXCEPT ![o] = "none"]
    /\ retries' = [retries EXCEPT ![o] = 0]
    /\ lock' = [lock EXCEPT ![o] = NoCall]
    /\ UNCHANGED <<offerVars, order, call>>

\* The server process running call c dies; rows, job and lock remain.
Crash(c) ==
    /\ call[c].pc # "idle"
    /\ Return(c)
    /\ UNCHANGED <<offerVars, order, redisVars>>

----------------------------------------------------------------------------
StartCall(c) ==
    \E o \in Orders :
        \/ \E f \in Offers : \E q \in 1..Total[f] : Reserve(c, f, q, o)
        \/ RestoreExpiredHold(c, o)
        \/ PrepareReleases(c, o)
        \/ PrepareAttempt(c, o)
        \/ CancelReservation(c, o)
        \/ \E refund \in BOOLEAN : AdminCancelOrder(c, o, refund)
        \/ AdminCompleteOrder(c, o)

ContinueCall(c) ==
    \/ ScheduleHoldExpiry(c)
    \/ AcquireLock(c)
    \/ LockDenied(c)
    \/ PushAnswered(c)
    \/ PushThrows(c)
    \/ FinalizeClosed(c)
    \/ FinalizeConfirmed(c)
    \/ FinalizePending(c)
    \/ FinalizeFailed(c)
    \/ FinalizeReleases(c)
    \/ FinalizeRollsBack(c)
    \/ ReleaseLock(c)
    \/ CancelHoldExpiry(c)
    \/ ClearReservationState(c)

Worker(o) == WorkerTakesJob(o) \/ HandleHoldExpiry(o) \/ WorkerClearsState(o)

Next ==
    \/ \E c \in Calls : StartCall(c) \/ ContinueCall(c) \/ Crash(c)
    \/ \E o \in Orders : LockLapses(o) \/ HoldElapses(o) \/ Worker(o)

Spec == Init /\ [][Next]_vars

\* With the fault that Next leaves out.
FaultyNext == Next \/ \E c \in Calls : RollBackAtLimit(c)

FaultySpec == Init /\ [][FaultyNext]_vars

\* Time passes and the worker keeps running.
LiveSpec == /\ Spec
            /\ \A o \in Orders : WF_vars(HoldElapses(o)) /\ WF_vars(Worker(o))

----------------------------------------------------------------------------
(* The ledger that the reservation rows stand for. *)
Stage(o) ==
    CASE order[o].status = "none" -> "none"
      [] Held(o) -> "held"
      [] order[o].status = "PAID" -> "sold"
      [] order[o].status = "COLLECTED" -> "collected"
      [] OTHER -> "returned"

Ledger == INSTANCE StockLedger WITH
    available <- remaining,
    promised  <- reserved,
    stage     <- [o \in Orders |-> Stage(o)],
    offerOf   <- [o \in Orders |-> order[o].offer],
    qtyOf     <- [o \in Orders |-> order[o].qty]

\* The handlers, their crashes and the worker move stock only as the ledger
\* allows: one order at a time, each unit released or sold exactly once.
ImplementsLedger == Ledger!Spec

\* quantity_reserved equals the units of the running holds: the clamp of
\* Math.max(quantity_reserved - quantity, 0) never hides a second release.
ReservedMatchesHolds == Ledger!PromisedMatchesHolds

\* No interleaving of reserve, payment, cancellation and expiry oversells an
\* offer or loses a unit of it.
StockConserved == Ledger!StockConserved

----------------------------------------------------------------------------
Paying(c) == call[c].pc \in {"acquire", "push", "finalize"}

\* At most one payment attempt is under way for an order, although the Redis
\* lock expires before the provider's request does: the order row excludes the
\* second.  This is about markPaid; the prompts a customer may have open at a
\* time, a timed-out one among them, are counted in Payments.tla.
OneAttemptPerOrder ==
    \A c, d \in Calls :
        Paying(c) /\ Paying(d) /\ call[c].order = call[d].order => c = d

\* The reservation is gone with its last allowed failure: no order that still
\* holds stock has used up its attempts, whatever the retry key went through.
LimitReleasesHold == \A o \in Orders : Held(o) => retries[o] < MaxFailedAttempts

\* A confirmed payment is never left on an order that still holds stock (the
\* worker would skip it for ever) and every paid order is a confirmed one.
ConfirmedIffPaid ==
    \A o \in Orders :
        /\ order[o].pay = "CONFIRMED" =>
               order[o].status \in {"PAID", "COLLECTED", "CANCELLED_BY_ADMIN"}
        /\ order[o].status \in {"PAID", "COLLECTED"} => order[o].pay = "CONFIRMED"

\* The statuses one step may take an order to.
After(status) ==
    CASE status = "PAID" -> {"PAID", "COLLECTED", "CANCELLED_BY_ADMIN"}
      [] status = "none" -> {"none", "HOLD"}
      [] status \in {"HOLD", "PENDING_PAYMENT"} -> OrderStatus \ {"none", "COLLECTED"}
      [] OTHER -> {status}

\* A late payment result, a second handler or the worker never reopens an
\* order that was cancelled, expired or collected, nor un-pays a paid one.
ClosedIsFinal == [][\A o \in Orders : order'[o].status \in After(order[o].status)]_vars

\* No handler removes the expiry job of an order that still holds stock.
JobKeptWhileHeld ==
    [][\A o \in Orders : job[o] = "delayed" /\ job'[o] = "none" => ~Held(o)]_vars

\* A handler that goes on to the clean-up, and answers "Your reservation was
\* released", has closed the order in the database.
CleanUpMeansClosed ==
    \A c \in Calls :
        call[c].pc \in {"cancelJob", "clearState"} => ~Held(call[c].order)

\* "A payment attempt is already in progress for this reservation": what
\* markPaid answers while the order is INITIATED is true, some call is at it.
InitiatedMeansInProgress ==
    \A o \in Orders :
        Held(o) /\ order[o].pay = "INITIATED" =>
            \E c \in Calls : Paying(c) /\ call[c].order = o

\* "Reservation expired before payment was confirmed": the event the worker
\* records is true, no confirmed answer is waiting to be written to the order.
ExpiredBeforeConfirmation ==
    [][\A o \in Orders :
          job[o] = "active" /\ Held(o) /\ order'[o].status = "EXPIRED" =>
              ~ \E c \in Calls : /\ call[c].pc = "finalize"
                                 /\ call[c].order = o
                                 /\ call[c].answer = "CONFIRMED"]_vars

\* A hold whose expiry job was put on the queue does not outlive it, also
\* when a crash or a refused lock left its payment INITIATED.
HoldEnds == \A o \in Orders : job[o] = "delayed" ~> ~Held(o)
============================================================================
