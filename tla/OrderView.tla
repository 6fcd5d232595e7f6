------------------------------- MODULE OrderView -------------------------------
(***************************************************************************)
(* What the app is shown of an order, OrderResponseDto.fromEntity and      *)
(* MobileUserOrderDto.fromEntity, next to what the handlers of             *)
(* Reservations.tla make of a request for it.  The two responses carry the *)
(* same words and actions; ids, amounts, texts and times are left out.     *)
(***************************************************************************)
EXTENDS Reservations

----------------------------------------------------------------------------
Placed(o) == order[o].status # "none"

\* One word for both cancellations; INITIATED is shown as PROCESSING.
NormalizedStatus(status) ==
    IF status \in {"CANCELLED_BY_USER", "CANCELLED_BY_ADMIN"} THEN "CANCELLED" ELSE status
NormalizedPayment(pay) == IF pay = "INITIATED" THEN "PROCESSING" ELSE pay

\* isPaymentRetryable; FAILED stands for REJECTED, too (Reservations.Answers).
CanRetry(o) == Held(o) /\ order[o].pay = "FAILED"

\* Mutant: an attempt that was only initiated does not count as one.
CanMarkPaidInitiated(o) == Held(o) /\ order[o].pay # "PROCESSING"

\* canMarkPaid, and canPay of the mobile list.
CanMarkPaid(o) == Held(o) /\ order[o].pay \notin {"PROCESSING", "INITIATED"}

\* OrderResponseDto.fromEntity, the order by itself.
Details(o) ==
    [status      |-> NormalizedStatus(order[o].status),
     payment     |-> NormalizedPayment(order[o].pay),
     canRetry    |-> CanRetry(o),
     isPaid      |-> order[o].pay = "CONFIRMED",
     canMarkPaid |-> CanMarkPaid(o),
     canCancelReservation |-> Held(o)]

\* MobileUserOrderDto.fromEntity, the order in the user's list; canReview also
\* asks for the review's absence (Reviews.tla).
Shown(o) ==
    [status    |-> NormalizedStatus(order[o].status),
     payment   |-> NormalizedPayment(order[o].pay),
     canPay    |-> CanMarkPaid(o),
     canCancel |-> Held(o),
     canReview |-> NormalizedStatus(order[o].status) = "COLLECTED"]

----------------------------------------------------------------------------
(* What the handlers would do, as their guards in Reservations.tla say.    *)

\* markPaid starts an attempt: PrepareAttempt.
StartsAttempt(o) ==
    /\ Held(o) /\ order[o].hold # "elapsed"
    /\ order[o].pay \notin {"INITIATED", "PROCESSING", "CONFIRMED"}
    /\ retries[o] < MaxFailedAttempts

\* cancelReservation cancels: CancelReservation.
Cancels(o) == Held(o) /\ order[o].hold # "elapsed"

\* A handler of this order is about to ask the provider or to record its answer.
InAttempt(o) == \E c \in Calls : call[c].order = o /\ call[c].pc \in {"acquire", "push", "finalize"}

----------------------------------------------------------------------------
\* The buttons the app shows do what they say while the hold runs: paying is
\* offered exactly where markPaid would start an attempt and not release the
\* order or report a conflict, however many attempts failed before; and nothing
\* is offered to a user whose attempt is under way.  An order shown as paid was
\* sold, or an admin took it back without a refund.
ButtonsKeepTheirWord ==
    \A o \in Orders : Placed(o) =>
        /\ order[o].hold # "elapsed" => /\ Shown(o).canPay = StartsAttempt(o)
                                        /\ Details(o).canMarkPaid = StartsAttempt(o)
                                        /\ Shown(o).canCancel = Cancels(o)
                                        /\ Details(o).canCancelReservation = Cancels(o)
        /\ Details(o).canRetry => Shown(o).canPay
        /\ InAttempt(o) => ~Shown(o).canPay
        /\ Shown(o).canPay => Details(o).payment # "PROCESSING"
        /\ Details(o).isPaid => Shown(o).status \in {"PAID", "COLLECTED", "CANCELLED"}
        /\ Shown(o).canReview => Details(o).isPaid
=============================================================================
