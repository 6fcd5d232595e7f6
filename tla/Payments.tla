------------------------------- MODULE Payments -------------------------------
(***************************************************************************)
(* PaymentsService.submitWaafiPushPayment, called by markPaid (one attempt *)
(* per order: Reservations.tla) and by POST initializePayment (any number  *)
(* at a time), with the WAAFI provider, the customer's phone and the       *)
(* loyalty points of the customer whose orders these are.                  *)
(*                                                                         *)
(* Every await outside a transaction separates two steps.  Left out: the   *)
(* columns no guard reads, logs and events, and the stock (Reservations).  *)
(* FAILED stands for FAILED and REJECTED, which are treated alike here.    *)
(***************************************************************************)
EXTENDS Integers, FiniteSets, Sequences

CONSTANTS Orders,       \* orders of one customer, each worth one point
          Calls,        \* handler executions that may be in flight
          NoOrder,
          MaxRequests   \* bound: WAAFI request identities generated for an order

ASSUME PaymentsAssumption ==
    /\ IsFiniteSet(Orders)
    /\ NoOrder \notin Orders
    /\ MaxRequests \in Nat

VARIABLES
    order,      \* what markPaid reads of an order
    payment,    \* the payment row of an order, unique on (order, provider)
    requests,   \* WAAFI requests by request_id: their order, and their fate
    wallet,     \* balance of the UserRewardWallet row, or NoWallet
    rewarded,   \* orders with an EARNED RewardTransaction
    call,       \* the handler executions in flight
    givenUp     \* history: requests abandoned though not refused by WAAFI

vars == <<order, payment, requests, wallet, rewarded, call, givenUp>>

----------------------------------------------------------------------------
(* attempting: INITIATED or PROCESSING; closed: expired or cancelled. *)
OrderState == {"unpaid", "attempting", "paid", "closed"}

(* The fate of a request at the provider: the customer is prompted on the  *)
(* phone and confirms or refuses there, whether or not anyone still waits; *)
(* a prompt that lapses counts as refused.                                 *)
Fate == {"unsent", "prompted", "charged", "refused"}

NoWallet == -1

(* EXPIRED stands for the status PROCESSING with provider_status EXPIRED. *)
Answers == {"CONFIRMED", "PROCESSING", "EXPIRED", "FAILED"}
NoRow == [status |-> "none", req |-> 0]
Idle == [pc |-> "idle", order |-> NoOrder, pays |-> FALSE, req |-> 0, answer |-> "none"]

TypeOK ==
    /\ order \in [Orders -> OrderState]
    /\ payment \in [Orders -> [status: Answers \cup {"none", "INITIATED"},
                               req: 0..Len(requests)]]
    /\ requests \in Seq([order: Orders, fate: Fate])
    /\ wallet \in Nat \cup {NoWallet}
    /\ rewarded \subseteq Orders
    /\ call \in [Calls -> [pc: {"idle", "intent", "push", "await", "record",
                                "return", "award"},
                           order: Orders \cup {NoOrder}, pays: BOOLEAN,
                           req: 0..Len(requests), answer: Answers \cup {"none"}]]
    /\ givenUp \subseteq 1..Len(requests)

Init ==
    /\ order = [o \in Orders |-> "unpaid"]
    /\ payment = [o \in Orders |-> NoRow]
    /\ requests = <<>>
    /\ wallet = NoWallet
    /\ rewarded = {}
    /\ call = [c \in Calls |-> Idle]
    /\ givenUp = {}

Goto(c, pc) == call' = [call EXCEPT ![c].pc = pc]
Return(c) == call' = [call EXCEPT ![c] = Idle]
Answered(c, pc, answer) ==
    call' = [call EXCEPT ![c].pc = pc, ![c].req = 0, ![c].answer = answer]

\* submitWaafiPushPayment returns: markPaid goes on, initializePayment ends.
Result(c, answer) == IF call[c].pays THEN Answered(c, "return", answer) ELSE Return(c)

RequestsOf(o) == {r \in DOMAIN requests : requests[r].order = o}

\* The order row is locked by a transaction that is creating the wallet.
Locked(o) == \E c \in Calls : call[c].pc = "award" /\ call[c].order = o

----------------------------------------------------------------------------
(* The two callers. *)

\* markPaid sets the order INITIATED, then calls submitWaafiPushPayment.
MarkPaid(c, o) ==
    /\ call[c].pc = "idle"
    /\ order[o] = "unpaid"
    /\ order' = [order EXCEPT ![o] = "attempting"]
    /\ call' = [call EXCEPT ![c] = [Idle EXCEPT !.pc = "intent", !.order = o, !.pays = TRUE]]
    /\ UNCHANGED <<payment, requests, wallet, rewarded, givenUp>>

\* initializePayment looks at nothing but the order's owner.
InitializePayment(c, o) ==
    /\ call[c].pc = "idle"
    /\ call' = [call EXCEPT ![c] = [Idle EXCEPT !.pc = "intent", !.order = o]]
    /\ UNCHANGED <<order, payment, requests, wallet, rewarded, givenUp>>

\* Reservations.tla: the hold expires or is cancelled, or a paid order is.
CloseOrder(o) ==
    /\ order[o] # "closed"
    /\ ~Locked(o)
    /\ order' = [order EXCEPT ![o] = "closed"]
    /\ UNCHANGED <<payment, requests, wallet, rewarded, call, givenUp>>

----------------------------------------------------------------------------
(* getOrCreatePaymentIntent: one transaction. *)

\* The call goes on to push request r, which the row carries from now on.
PushNext(c, status, r) ==
    LET o == call[c].order IN
    /\ payment' = [payment EXCEPT ![o] = [status |-> status, req |-> r]]
    /\ call' = [call EXCEPT ![c].pc = "push", ![c].req = r]

\* Mutant: the row names a request identity that was never generated.
FreshRequestUnsaved(o) ==
    /\ Cardinality(RequestsOf(o)) < MaxRequests
    /\ UNCHANGED requests

\* generateRequestId: an identity no other payment has (unique index).
FreshRequest(o) ==
    /\ Cardinality(RequestsOf(o)) < MaxRequests
    /\ requests' = Append(requests, [order |-> o, fate |-> "unsent"])

CreateIntent(c) ==
    LET o == call[c].order IN
    /\ call[c].pc = "intent"
    /\ payment[o].status = "none"
    /\ FreshRequest(o)
    /\ PushNext(c, "INITIATED", Len(requests) + 1)
    /\ UNCHANGED <<order, wallet, rewarded, givenUp>>

AlreadyConfirmed(c) ==
    /\ call[c].pc = "intent"
    /\ payment[call[c].order].status = "CONFIRMED"
    /\ Result(c, "CONFIRMED")
    /\ UNCHANGED <<order, payment, requests, wallet, rewarded, givenUp>>

\* Mutant: a retry never keeps the request identity.
ShouldRotateAlways(status) == TRUE

ShouldRotate(status) == status \in {"FAILED", "EXPIRED"}

RetryIntent(c) ==
    LET o == call[c].order IN
    /\ call[c].pc = "intent"
    /\ payment[o].status \notin {"none", "CONFIRMED"}
    /\ IF ShouldRotate(payment[o].status)
       THEN FreshRequest(o) /\ PushNext(c, "PROCESSING", Len(requests) + 1)
       ELSE PushNext(c, "PROCESSING", payment[o].req) /\ UNCHANGED requests
    /\ UNCHANGED <<order, wallet, rewarded, givenUp>>

----------------------------------------------------------------------------
(* The push, the provider and the customer. *)

\* WAAFI prompts once per request identity: a repeated push is no new prompt.
PushPayment(c) ==
    LET r == call[c].req IN
    /\ call[c].pc = "push"
    /\ requests' = [requests EXCEPT ![r].fate = IF @ = "unsent" THEN "prompted" ELSE @]
    /\ Goto(c, "await")
    /\ UNCHANGED <<order, payment, wallet, rewarded, givenUp>>

CustomerDecides(r) ==
    /\ requests[r].fate = "prompted"
    /\ \E fate \in {"charged", "refused"} :
           requests' = [requests EXCEPT ![r].fate = fate]
    /\ UNCHANGED <<order, payment, wallet, rewarded, call, givenUp>>

\* What mapWaafiResponse may make of the provider's answer on request r.
MapWaafiResponse(r) ==
    CASE requests[r].fate = "charged"  -> {"CONFIRMED"}
      [] requests[r].fate = "refused"  -> {"FAILED", "EXPIRED"}
      [] requests[r].fate = "prompted" -> {"PROCESSING"}

ProviderAnswers(c) ==
    /\ call[c].pc = "await"
    /\ \E answer \in MapWaafiResponse(call[c].req) : Answered(c, "record", answer)
    /\ UNCHANGED <<order, payment, requests, wallet, rewarded, givenUp>>

\* FAILED or EXPIRED is written to the row of o, whichever request it carries
\* now, so that the next retry leaves that request.
GiveUp(o) ==
    givenUp' = IF requests[payment[o].req].fate = "refused" THEN givenUp
               ELSE givenUp \cup {payment[o].req}

\* Mutant: a pending payment is written, and returned, as approved.
RecordResponseOptimistically(c) ==
    LET o == call[c].order
        s == IF call[c].answer = "FAILED" THEN "FAILED" ELSE "CONFIRMED" IN
    /\ call[c].pc = "record"
    /\ payment' = [payment EXCEPT ![o].status = s]
    /\ IF s = "FAILED" THEN GiveUp(o) ELSE UNCHANGED givenUp
    /\ Result(c, s)
    /\ UNCHANGED <<order, requests, wallet, rewarded>>

\* The response transaction: the row takes the answer whatever it was before.
RecordResponse(c) ==
    LET o == call[c].order  s == call[c].answer IN
    /\ call[c].pc = "record"
    /\ payment' = [payment EXCEPT ![o].status = s]
    /\ IF ShouldRotate(s) THEN GiveUp(o) ELSE UNCHANGED givenUp
    /\ Result(c, s)
    /\ UNCHANGED <<order, requests, wallet, rewarded>>

\* The catch block: the request or its answer is lost, AbortSignal.timeout
\* fires, or the response transaction fails.
RecordFailure(c) ==
    LET o == call[c].order IN
    /\ call[c].pc \in {"push", "await", "record"}
    /\ payment' = [payment EXCEPT ![o].status = "FAILED"]
    /\ GiveUp(o)
    /\ Result(c, "FAILED")
    /\ UNCHANGED <<order, requests, wallet, rewarded>>

----------------------------------------------------------------------------
(* markPaid's second transaction. *)

Finalizable(c) == /\ call[c].pc = "return"
                  /\ ~Locked(call[c].order)

FinalizeClosed(c) ==
    /\ Finalizable(c)
    /\ order[call[c].order] = "closed"
    /\ Return(c)
    /\ UNCHANGED <<order, payment, requests, wallet, rewarded, givenUp>>

\* Not confirmed; the last allowed failure also closes the order.
FinalizeUnpaid(c) ==
    LET o == call[c].order IN
    /\ Finalizable(c)
    /\ order[o] # "closed"
    /\ \/ call[c].answer \in {"PROCESSING", "EXPIRED"} /\ order' = [order EXCEPT ![o] = "attempting"]
       \/ /\ call[c].answer = "FAILED"
          /\ \E s \in {"unpaid", "closed"} : order' = [order EXCEPT ![o] = s]
    /\ Return(c)
    /\ UNCHANGED <<payment, requests, wallet, rewarded, givenUp>>

\* awardApprovedPayment, on a wallet with this balance.
AwardApprovedPayment(o, balance) ==
    /\ wallet' = IF o \in rewarded THEN balance ELSE balance + 1
    /\ rewarded' = rewarded \cup {o}

FinalizeConfirmed(c) ==
    LET o == call[c].order IN
    /\ Finalizable(c)
    /\ order[o] # "closed"
    /\ call[c].answer = "CONFIRMED"
    /\ wallet # NoWallet
    /\ order' = [order EXCEPT ![o] = "paid"]
    /\ AwardApprovedPayment(o, wallet)
    /\ Return(c)
    /\ UNCHANGED <<payment, requests, givenUp>>

\* No wallet row to lock yet: it is created in this transaction ...
FinalizeWithoutWallet(c) ==
    /\ Finalizable(c)
    /\ order[call[c].order] # "closed"
    /\ call[c].answer = "CONFIRMED"
    /\ wallet = NoWallet
    /\ Goto(c, "award")
    /\ UNCHANGED <<order, payment, requests, wallet, rewarded, givenUp>>

\* Mutant: no unique user_id, the second wallet replaces the first.
CreateWalletAgain(c) ==
    LET o == call[c].order IN
    /\ call[c].pc = "award"
    /\ order' = [order EXCEPT ![o] = "paid"]
    /\ AwardApprovedPayment(o, 0)
    /\ Return(c)
    /\ UNCHANGED <<payment, requests, givenUp>>

\* ... and, created by another order's transaction meanwhile, violates the
\* unique user_id: the transaction rolls back, the order stays INITIATED.
CreateWallet(c) ==
    LET o == call[c].order IN
    /\ call[c].pc = "award"
    /\ IF wallet = NoWallet
       THEN order' = [order EXCEPT ![o] = "paid"] /\ AwardApprovedPayment(o, 0)
       ELSE UNCHANGED <<order, wallet, rewarded>>
    /\ Return(c)
    /\ UNCHANGED <<payment, requests, givenUp>>

\* The process dies, or an error is thrown outside the try block: WAAFI not
\* configured, a second insert of the same intent, a database error.
Abandon(c) ==
    /\ call[c].pc # "idle"
    /\ Return(c)
    /\ UNCHANGED <<order, payment, requests, wallet, rewarded, givenUp>>

----------------------------------------------------------------------------
Step(c) ==
    \/ CreateIntent(c) \/ AlreadyConfirmed(c) \/ RetryIntent(c)
    \/ PushPayment(c) \/ ProviderAnswers(c) \/ RecordResponse(c) \/ RecordFailure(c)
    \/ FinalizeClosed(c) \/ FinalizeUnpaid(c) \/ FinalizeConfirmed(c)
    \/ FinalizeWithoutWallet(c) \/ CreateWallet(c)
    \/ Abandon(c)

Next ==
    \/ \E c \in Calls : Step(c) \/ \E o \in Orders : MarkPaid(c, o) \/ InitializePayment(c, o)
    \/ \E o \in Orders : CloseOrder(o)
    \/ \E r \in DOMAIN requests : CustomerDecides(r)

Spec == Init /\ [][Next]_vars

----------------------------------------------------------------------------
Charged(o) == {r \in RequestsOf(o) : requests[r].fate = "charged"}

\* Nobody gets an order, or points for it, that was not paid for: whatever
\* answers are lost or late, a paid or rewarded order has been charged.
PaidIsCharged == \A o \in Orders : order[o] = "paid" \/ o \in rewarded => Charged(o) # {}

\* Every paid order earned its points once, although two finalize
\* transactions may both find that the customer has no wallet yet.
PointsMatchRewards ==
    /\ wallet = IF rewarded = {} THEN NoWallet ELSE Cardinality(rewarded)
    /\ \A o \in Orders : order[o] = "paid" => o \in rewarded

\* A customer is charged twice for an order only when the server recorded a
\* failure for a request that the provider had not refused.
ChargedTwiceOnlyIfGivenUp == \A o \in Orders : Cardinality(Charged(o) \ givenUp) <= 1

\* "The user may retry with the same payment intent": a retry does not make
\* the customer pay a second time.
ChargedOnce == \A o \in Orders : Cardinality(Charged(o)) <= 1
============================================================================
