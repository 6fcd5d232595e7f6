--------------------------- MODULE OrderViewProofs ---------------------------
(***************************************************************************)
(* What the app shows, for any number of offers, orders and handlers: a    *)
(* consequence of the invariants of the reservation core.                  *)
(***************************************************************************)
EXTENDS OrderView, ReservationsRefinement

----------------------------------------------------------------------------
LEMMA ShownFields ==
    ASSUME NEW o
    PROVE  /\ Shown(o).canPay = CanMarkPaid(o) /\ Details(o).canMarkPaid = CanMarkPaid(o)
           /\ Shown(o).canCancel = Held(o) /\ Details(o).canCancelReservation = Held(o)
           /\ Details(o).canRetry = CanRetry(o)
           /\ Details(o).isPaid = (order[o].pay = "CONFIRMED")
           /\ Details(o).payment = NormalizedPayment(order[o].pay)
           /\ Shown(o).status = NormalizedStatus(order[o].status)
           /\ Shown(o).canReview = (NormalizedStatus(order[o].status) = "COLLECTED")
BY DEF Shown, Details

\* Where paying is offered an attempt would start: the hold has attempts left, and
\* an order that still holds stock is not a confirmed one.
LEMMA PayStarts ==
    ASSUME LimitReleasesHold, ConfirmedIffPaid, NEW o \in Orders, order[o].hold # "elapsed"
    PROVE  CanMarkPaid(o) = StartsAttempt(o)
<1>1. Held(o) => retries[o] < MaxFailedAttempts /\ order[o].pay # "CONFIRMED"
  BY DEF LimitReleasesHold, ConfirmedIffPaid, Held
<1> QED BY <1>1 DEF CanMarkPaid, StartsAttempt

LEMMA AttemptHidesPay ==
    ASSUME AttemptRow, NEW o \in Orders, InAttempt(o)
    PROVE  ~CanMarkPaid(o)
<1>1. PICK c \in Calls : call[c].order = o /\ Paying(c)
  BY DEF InAttempt, Paying
<1> QED BY <1>1 DEF AttemptRow, Released, CanMarkPaid, Held

LEMMA WordsOfPayment ==
    ASSUME ConfirmedIffPaid, NEW o \in Orders
    PROVE  /\ order[o].pay = "CONFIRMED" =>
                  NormalizedStatus(order[o].status) \in {"PAID", "COLLECTED", "CANCELLED"}
           /\ NormalizedStatus(order[o].status) = "COLLECTED" => order[o].pay = "CONFIRMED"
           /\ CanMarkPaid(o) => NormalizedPayment(order[o].pay) # "PROCESSING"
BY DEF ConfirmedIffPaid, NormalizedStatus, NormalizedPayment, CanMarkPaid

LEMMA InvariantsMakeItTrue == RefinementInv => ButtonsKeepTheirWord
<1> SUFFICES ASSUME LimitReleasesHold, ConfirmedIffPaid, AttemptRow, NEW o \in Orders
             PROVE  /\ order[o].hold # "elapsed" =>
                           /\ Shown(o).canPay = StartsAttempt(o)
                           /\ Details(o).canMarkPaid = StartsAttempt(o)
                           /\ Shown(o).canCancel = Cancels(o)
                           /\ Details(o).canCancelReservation = Cancels(o)
                    /\ Details(o).canRetry => Shown(o).canPay
                    /\ InAttempt(o) => ~Shown(o).canPay
                    /\ Shown(o).canPay => Details(o).payment # "PROCESSING"
                    /\ Details(o).isPaid => Shown(o).status \in {"PAID", "COLLECTED", "CANCELLED"}
                    /\ Shown(o).canReview => Details(o).isPaid
  BY DEF RefinementInv, LimitInv, AttemptInv, ButtonsKeepTheirWord
<1>1. order[o].hold # "elapsed" => /\ CanMarkPaid(o) = StartsAttempt(o)
                                   /\ Held(o) = Cancels(o)
  BY PayStarts DEF Cancels, Held
<1>2. CanRetry(o) => CanMarkPaid(o)
  BY DEF CanRetry, CanMarkPaid
<1> QED BY <1>1, <1>2, ShownFields, AttemptHidesPay, WordsOfPayment

\* Paying is offered exactly where markPaid would start an attempt, cancelling
\* where cancelReservation would cancel, and neither shows a paid order unpaid.
THEOREM ButtonsTellTheTruth == Spec => []ButtonsKeepTheirWord
BY InvariantsMakeItTrue, RefinementInvInit, RefinementInvNext, PTL DEF Spec
=============================================================================
