--------------------------- MODULE PaymentsProofs ---------------------------
(***************************************************************************)
(* Payments, for any number of orders, handlers and WAAFI requests: what   *)
(* lost answers, late answers and retries can and cannot do to the charges *)
(* and to the points of a customer.                                        *)
(***************************************************************************)
EXTENDS Payments, FiniteSetTheorems, TLAPS

----------------------------------------------------------------------------
(* The type invariant, in two parts: the shape of the values, and that a   *)
(* request is named only once it was generated.                            *)

PC == {"idle", "intent", "push", "await", "record", "return", "award"}
PaymentStatus == Answers \cup {"none", "INITIATED"}
Request == [order: Orders, fate: Fate]
PaymentRow == [status: PaymentStatus, req: Nat]
CallState == [pc: PC, order: Orders \cup {NoOrder}, pays: BOOLEAN, req: Nat,
              answer: Answers \cup {"none"}]

Shape ==
    /\ order \in [Orders -> OrderState]
    /\ payment \in [Orders -> PaymentRow]
    /\ requests \in Seq(Request)
    /\ wallet \in Nat \cup {NoWallet}
    /\ rewarded \subseteq Orders
    /\ call \in [Calls -> CallState]

InRange ==
    /\ \A o \in Orders : payment[o].req <= Len(requests)
    /\ \A c \in Calls : call[c].req <= Len(requests)
    /\ givenUp \subseteq 1..Len(requests)

LEMMA TypeParts == Shape /\ InRange => TypeOK
<1> SUFFICES ASSUME Shape, InRange PROVE TypeOK
  OBVIOUS
<1>0. Len(requests) \in Nat
  BY DEF Shape
<1>1. payment \in [Orders -> [status: PaymentStatus, req: 0..Len(requests)]]
  BY <1>0 DEF Shape, InRange, PaymentRow
<1>2. call \in [Calls -> [pc: PC, order: Orders \cup {NoOrder}, pays: BOOLEAN,
                          req: 0..Len(requests), answer: Answers \cup {"none"}]]
  BY <1>0 DEF Shape, InRange, CallState
<1> QED BY <1>1, <1>2 DEF TypeOK, Shape, InRange, PaymentStatus, PC, Request

----------------------------------------------------------------------------
(* The inductive invariant. *)

\* A handler in flight has an order; one about to push has a request of it,
\* and one that may write a failure has a row to write to.
CallsWired ==
    \A c \in Calls :
        /\ call[c].pc # "idle" => call[c].order \in Orders
        /\ call[c].pc \in {"push", "await"} =>
               call[c].req \in DOMAIN requests /\ requests[call[c].req].order = call[c].order
        /\ call[c].pc = "await" => requests[call[c].req].fate # "unsent"
        /\ call[c].pc \in {"push", "await", "record"} => payment[call[c].order].status # "none"
        /\ call[c].pc = "record" => call[c].answer \in Answers
        /\ call[c].pc = "award" => call[c].answer = "CONFIRMED"

\* A payment row carries a request of its order.
RowsWired ==
    \A o \in Orders :
        IF payment[o].status = "none" THEN payment[o].req = 0
        ELSE payment[o].req \in DOMAIN requests /\ requests[payment[o].req].order = o

Wired == Shape /\ InRange /\ CallsWired /\ RowsWired

\* The customer has been charged for the order.
IsCharged(o) == \E r \in DOMAIN requests : requests[r].order = o /\ requests[r].fate = "charged"

\* Whoever says that an order is paid for says the truth: the row, a call that
\* has its answer, the order, and the points.
Truthful ==
    /\ \A o \in Orders : payment[o].status = "CONFIRMED" => IsCharged(o)
    /\ \A c \in Calls : call[c].answer = "CONFIRMED" => IsCharged(call[c].order)
    /\ \A o \in Orders : order[o] = "paid" \/ o \in rewarded => IsCharged(o)

\* The request is refused for good, or the server gave it up.
Left(r) == r \in givenUp \/ requests[r].fate = "refused"

\* Only the request an order's row carries may still be waited for, and that one
\* is left, too, once the row says that a retry takes another.
OthersLeft ==
    \A o \in Orders : \A r \in DOMAIN requests :
        requests[r].order = o /\ (r # payment[o].req \/ ShouldRotate(payment[o].status))
            => Left(r)

----------------------------------------------------------------------------
(* What a step does to the calls, the row and the requests. *)

\* Call c moves, the others stay where they are.
Moves(c, pc, o, r, answer) ==
    /\ call' \in [Calls -> CallState]
    /\ call'[c].pc = pc /\ call'[c].order = o
    /\ call'[c].req = r /\ call'[c].answer = answer
    /\ \A d \in Calls \ {c} : call'[d] = call[d]

\* The row of o is written, the others are not.
Writes(o, status, r) ==
    /\ payment' \in [Orders -> PaymentRow]
    /\ payment'[o].status = status /\ payment'[o].req = r
    /\ \A p \in Orders \ {o} : payment'[p] = payment[p]

\* Requests keep their order, and what the customer decided stays so.
Extends ==
    /\ requests' \in Seq(Request)
    /\ Len(requests) <= Len(requests')
    /\ \A r \in DOMAIN requests :
           /\ requests'[r].order = requests[r].order
           /\ requests[r].fate # "unsent" => requests'[r].fate # "unsent"
           /\ requests[r].fate \in {"charged", "refused"} =>
                  requests'[r].fate = requests[r].fate

\* A step generates no request, and at most changes what became of one.
NoneAppended == Extends /\ Len(requests') = Len(requests)

\* A request of o is generated.
Appends(o) ==
    /\ Extends
    /\ Len(requests') = Len(requests) + 1
    /\ requests'[Len(requests) + 1].order = o

LEMMA FateType ==
    ASSUME Shape, NEW r \in DOMAIN requests
    PROVE  requests[r].fate \in Fate
<1>1. requests[r] \in Request
  BY DEF Shape
<1> QED BY <1>1 DEF Request

LEMMA SameRequests == ASSUME Shape, UNCHANGED requests PROVE NoneAppended
BY DEF Shape, NoneAppended, Extends

LEMMA FreshAppends ==
    ASSUME Shape, NEW o \in Orders, FreshRequest(o)
    PROVE  Appends(o)
<1> DEFINE new == [order |-> o, fate |-> "unsent"]
<1>1. new \in Request /\ new.order = o
  BY DEF Request, Fate
<1>2. requests' = Append(requests, new)
  BY DEF FreshRequest
<1> HIDE DEF new
<1>3. /\ requests' \in Seq(Request) /\ Len(requests') = Len(requests) + 1
      /\ requests'[Len(requests) + 1] = new
      /\ \A r \in DOMAIN requests : requests'[r] = requests[r]
  BY <1>1, <1>2 DEF Shape
<1> QED BY <1>1, <1>3 DEF Appends, Extends, Shape

LEMMA FateChanges ==
    ASSUME Shape, NEW r \in DOMAIN requests, NEW fate \in Fate,
           requests' = [requests EXCEPT ![r].fate = fate],
           requests[r].fate \in {"charged", "refused"} => fate = requests[r].fate,
           fate # "unsent"
    PROVE  NoneAppended /\ requests'[r].fate = fate
<1>1. requests \in [1..Len(requests) -> Request] /\ Len(requests) \in Nat
      /\ DOMAIN requests = 1..Len(requests)
  BY DEF Shape
<1>2. requests' \in [1..Len(requests) -> Request]
  BY <1>1 DEF Request
<1>3. requests' \in Seq(Request) /\ Len(requests') = Len(requests)
  BY <1>1, <1>2
<1>4. \A s \in DOMAIN requests : /\ requests'[s].order = requests[s].order
                                 /\ s # r => requests'[s].fate = requests[s].fate
                                 /\ s = r => requests'[s].fate = fate
  BY <1>1 DEF Request
<1> QED BY <1>1, <1>3, <1>4 DEF NoneAppended, Extends

LEMMA GotoMoves ==
    ASSUME Shape, NEW c \in Calls, NEW pc \in PC, Goto(c, pc)
    PROVE  Moves(c, pc, call[c].order, call[c].req, call[c].answer)
BY DEF Shape, Goto, Moves, CallState

LEMMA StartMoves ==
    ASSUME Shape, NEW c \in Calls, NEW o \in Orders, MarkPaid(c, o) \/ InitializePayment(c, o)
    PROVE  Moves(c, "intent", o, 0, "none")
<1>1. PICK pays \in BOOLEAN :
          call' = [call EXCEPT ![c] = [pc |-> "intent", order |-> o, pays |-> pays,
                                       req |-> 0, answer |-> "none"]]
  BY DEF MarkPaid, InitializePayment, Idle
<1> DEFINE new == [pc |-> "intent", order |-> o, pays |-> pays, req |-> 0, answer |-> "none"]
<1>2. /\ new \in CallState /\ new.pc = "intent" /\ new.order = o /\ new.req = 0
      /\ new.answer = "none"
  BY DEF CallState, PC
<1>3. call' = [call EXCEPT ![c] = new]
  BY <1>1
<1> HIDE DEF new
<1> QED BY <1>2, <1>3 DEF Shape, Moves

LEMMA ReturnMoves ==
    ASSUME Shape, NEW c \in Calls, Return(c)
    PROVE  Moves(c, "idle", NoOrder, 0, "none")
BY DEF Shape, Return, Idle, Moves, CallState, PC

LEMMA AnsweredMoves ==
    ASSUME Shape, NEW c \in Calls, NEW pc \in PC, NEW answer \in Answers,
           Answered(c, pc, answer)
    PROVE  Moves(c, pc, call[c].order, 0, answer)
BY DEF Shape, Answered, Moves, CallState

\* submitWaafiPushPayment ends: markPaid goes on with its answer, or the call ends.
Ends(c, answer) ==
    Moves(c, "return", call[c].order, 0, answer) \/ Moves(c, "idle", NoOrder, 0, "none")

LEMMA ResultEnds ==
    ASSUME Shape, NEW c \in Calls, NEW answer \in Answers, Result(c, answer)
    PROVE  Ends(c, answer)
BY AnsweredMoves, ReturnMoves DEF Result, Ends, PC

LEMMA PushNextDoes ==
    ASSUME Shape, NEW c \in Calls, call[c].order \in Orders, NEW status \in PaymentStatus,
           NEW r \in Nat, PushNext(c, status, r)
    PROVE  /\ Writes(call[c].order, status, r)
           /\ Moves(c, "push", call[c].order, r, call[c].answer)
<1>1. Writes(call[c].order, status, r)
  BY DEF Shape, PushNext, Writes, PaymentRow
<1>2. Moves(c, "push", call[c].order, r, call[c].answer)
  BY DEF Shape, PushNext, Moves, CallState, PC
<1> QED BY <1>1, <1>2

LEMMA StatusWrites ==
    ASSUME Shape, NEW o \in Orders, NEW status \in PaymentStatus,
           payment' = [payment EXCEPT ![o].status = status]
    PROVE  Writes(o, status, payment[o].req)
BY DEF Shape, Writes, PaymentRow

----------------------------------------------------------------------------
(* What each action does to the calls, the rows and the requests. *)

LEMMA BusyCall ==
    ASSUME Wired, NEW c \in Calls, call[c].pc # "idle"
    PROVE  call[c].order \in Orders
BY DEF Wired, CallsWired

LEMMA FreshIsNext ==
    ASSUME Shape
    PROVE  Len(requests) \in Nat /\ DOMAIN requests = 1..Len(requests)
BY DEF Shape

LEMMA CreateIntentDoes ==
    ASSUME Wired, NEW c \in Calls, CreateIntent(c)
    PROVE  /\ Appends(call[c].order)
           /\ Writes(call[c].order, "INITIATED", Len(requests) + 1)
           /\ Moves(c, "push", call[c].order, Len(requests) + 1, call[c].answer)
<1>1. call[c].order \in Orders /\ Len(requests) + 1 \in Nat
  BY BusyCall, FreshIsNext DEF CreateIntent, Wired
<1>2. "INITIATED" \in PaymentStatus
  BY DEF PaymentStatus
<1>3. FreshRequest(call[c].order) /\ PushNext(c, "INITIATED", Len(requests) + 1)
  BY DEF CreateIntent
<1> QED BY <1>1, <1>2, <1>3, FreshAppends, PushNextDoes DEF Wired

LEMMA RetryIntentDoes ==
    ASSUME Wired, NEW c \in Calls, RetryIntent(c)
    PROVE  LET o == call[c].order IN
           /\ payment[o].status # "none"
           /\ \/ /\ ShouldRotate(payment[o].status)
                 /\ Appends(o)
                 /\ Writes(o, "PROCESSING", Len(requests) + 1)
                 /\ Moves(c, "push", o, Len(requests) + 1, call[c].answer)
              \/ /\ NoneAppended
                 /\ Writes(o, "PROCESSING", payment[o].req)
                 /\ Moves(c, "push", o, payment[o].req, call[c].answer)
<1> DEFINE o == call[c].order
<1>1. o \in Orders /\ Len(requests) + 1 \in Nat /\ payment[o].req \in Nat
  BY BusyCall, FreshIsNext DEF RetryIntent, Wired, Shape, PaymentRow
<1>2. "PROCESSING" \in PaymentStatus
  BY DEF PaymentStatus, Answers
<1>3. payment[o].status # "none"
  BY DEF RetryIntent
<1>4. CASE ShouldRotate(payment[o].status)
  <2>1. FreshRequest(o) /\ PushNext(c, "PROCESSING", Len(requests) + 1)
    BY <1>4 DEF RetryIntent
  <2> QED BY <1>1, <1>2, <1>3, <1>4, <2>1, FreshAppends, PushNextDoes DEF Wired
<1>5. CASE ~ShouldRotate(payment[o].status)
  <2>1. PushNext(c, "PROCESSING", payment[o].req) /\ UNCHANGED requests
    BY <1>5 DEF RetryIntent
  <2> QED BY <1>1, <1>2, <1>3, <2>1, SameRequests, PushNextDoes DEF Wired
<1> QED BY <1>4, <1>5

LEMMA PushPaymentDoes ==
    ASSUME Wired, NEW c \in Calls, PushPayment(c)
    PROVE  /\ NoneAppended /\ UNCHANGED payment
           /\ requests'[call[c].req].fate # "unsent"
           /\ Moves(c, "await", call[c].order, call[c].req, call[c].answer)
<1> DEFINE r == call[c].req
           fate == IF requests[r].fate = "unsent" THEN "prompted" ELSE requests[r].fate
<1>1. r \in DOMAIN requests
  BY DEF PushPayment, Wired, CallsWired
<1>2. /\ fate \in Fate /\ fate # "unsent"
      /\ requests[r].fate \in {"charged", "refused"} => fate = requests[r].fate
  BY <1>1, FateType DEF Fate, Wired
<1>3. requests' = [requests EXCEPT ![r].fate = fate]
  BY DEF PushPayment
<1>4. NoneAppended /\ requests'[r].fate = fate
  <2> HIDE DEF r, fate
  <2> QED BY <1>1, <1>2, <1>3, FateChanges DEF Wired
<1>5. Moves(c, "await", call[c].order, call[c].req, call[c].answer)
  BY GotoMoves DEF PushPayment, Wired, PC
<1> QED BY <1>2, <1>4, <1>5 DEF PushPayment

LEMMA CustomerDecidesDoes ==
    ASSUME Wired, NEW r \in DOMAIN requests, CustomerDecides(r)
    PROVE  NoneAppended
<1>1. PICK fate \in {"charged", "refused"} : requests' = [requests EXCEPT ![r].fate = fate]
  BY DEF CustomerDecides
<1>2. fate \in Fate /\ requests[r].fate = "prompted"
  BY DEF Fate, CustomerDecides
<1> QED BY <1>1, <1>2, FateChanges DEF Wired

LEMMA ProviderAnswersDoes ==
    ASSUME Wired, NEW c \in Calls, ProviderAnswers(c)
    PROVE  \E answer \in Answers :
               /\ Moves(c, "record", call[c].order, 0, answer)
               /\ answer = "CONFIRMED" => IsCharged(call[c].order)
<1> DEFINE r == call[c].req
<1>1. r \in DOMAIN requests /\ requests[r].order = call[c].order
  BY DEF ProviderAnswers, Wired, CallsWired
<1>2. PICK answer \in MapWaafiResponse(r) : Answered(c, "record", answer)
  BY DEF ProviderAnswers
<1>3. requests[r].fate \in {"prompted", "charged", "refused"}
  <2>1. requests[r].fate # "unsent"
    BY DEF ProviderAnswers, Wired, CallsWired
  <2> QED BY <1>1, <2>1, FateType DEF Fate, Wired
<1>4. answer \in Answers /\ (answer = "CONFIRMED" => requests[r].fate = "charged")
  BY <1>2, <1>3 DEF MapWaafiResponse, Answers
<1>5. Moves(c, "record", call[c].order, 0, answer)
  BY <1>2, <1>4, AnsweredMoves DEF Wired, PC
<1> QED BY <1>1, <1>4, <1>5 DEF IsCharged

LEMMA RecordResponseDoes ==
    ASSUME Wired, NEW c \in Calls, RecordResponse(c)
    PROVE  LET o == call[c].order IN
           /\ call[c].answer \in Answers /\ o \in Orders
           /\ Writes(o, call[c].answer, payment[o].req)
           /\ Ends(c, call[c].answer)
<1>1. call[c].answer \in Answers /\ call[c].order \in Orders
  BY DEF RecordResponse, Wired, CallsWired
<1>2. call[c].answer \in PaymentStatus
  BY <1>1 DEF PaymentStatus
<1> QED BY <1>1, <1>2, StatusWrites, ResultEnds DEF RecordResponse, Wired

LEMMA RecordFailureDoes ==
    ASSUME Wired, NEW c \in Calls, RecordFailure(c)
    PROVE  LET o == call[c].order IN
           /\ o \in Orders
           /\ Writes(o, "FAILED", payment[o].req)
           /\ Ends(c, "FAILED")
<1>1. call[c].order \in Orders
  BY DEF RecordFailure, Wired, CallsWired
<1>2. "FAILED" \in PaymentStatus /\ "FAILED" \in Answers
  BY DEF PaymentStatus, Answers
<1> QED BY <1>1, <1>2, StatusWrites, ResultEnds DEF RecordFailure, Wired

\* The row whose failure is written has a request to give up.
LEMMA GiveUpDoes ==
    ASSUME Wired, NEW o \in Orders, payment[o].status # "none", GiveUp(o)
    PROVE  /\ payment[o].req \in DOMAIN requests
           /\ givenUp \subseteq givenUp'
           /\ givenUp' \subseteq 1..Len(requests)
           /\ requests[payment[o].req].fate = "refused" \/ payment[o].req \in givenUp'
BY FreshIsNext DEF GiveUp, Wired, RowsWired, InRange

----------------------------------------------------------------------------
(* What keeps the parts of the invariant. *)

\* No row disappears.
RowsStay == \A o \in Orders : payment[o].status # "none" => payment'[o].status # "none"

LEMMA CallsWiredSame ==
    ASSUME Wired, Extends, RowsStay, UNCHANGED call
    PROVE  CallsWired' /\ \A c \in Calls : call'[c].req <= Len(requests')
<1>1. /\ Len(requests) \in Nat /\ Len(requests') \in Nat
      /\ DOMAIN requests = 1..Len(requests) /\ DOMAIN requests' = 1..Len(requests')
  BY DEF Wired, Shape, Extends
<1>2. \A d \in Calls : call[d].req \in Nat
  BY DEF Wired, Shape, CallState
<1> QED BY <1>1, <1>2 DEF Wired, CallsWired, InRange, Extends, RowsStay

LEMMA CallsWiredMoves ==
    ASSUME Wired, Extends, RowsStay,
           NEW c \in Calls, NEW pc, NEW o, NEW r \in Nat, NEW answer, Moves(c, pc, o, r, answer),
           pc # "idle" => o \in Orders,
           r <= Len(requests'),
           pc \in {"push", "await"} => r \in DOMAIN requests' /\ requests'[r].order = o,
           pc = "await" => requests'[r].fate # "unsent",
           pc \in {"push", "await", "record"} => payment'[o].status # "none",
           pc = "record" => answer \in Answers,
           pc = "award" => answer = "CONFIRMED"
    PROVE  CallsWired' /\ \A d \in Calls : call'[d].req <= Len(requests')
<1>1. /\ Len(requests) \in Nat /\ Len(requests') \in Nat
      /\ DOMAIN requests = 1..Len(requests) /\ DOMAIN requests' = 1..Len(requests')
  BY DEF Wired, Shape, Extends
<1>2. ASSUME NEW d \in Calls \ {c}
      PROVE  /\ call'[d] = call[d]
             /\ call[d].req \in Nat /\ call[d].req <= Len(requests)
  BY <1>2 DEF Wired, Shape, CallState, InRange, Moves
<1>3. \A d \in Calls : call'[d].req <= Len(requests')
  BY <1>1, <1>2 DEF Moves, Extends
<1>4. CallsWired'
  BY <1>1, <1>2 DEF Wired, CallsWired, Extends, RowsStay, Moves
<1> QED BY <1>3, <1>4

LEMMA RowsWiredSame ==
    ASSUME Wired, Extends, UNCHANGED payment
    PROVE  RowsWired' /\ (\A o \in Orders : payment'[o].req <= Len(requests')) /\ RowsStay
<1>1. /\ Len(requests) \in Nat /\ Len(requests') \in Nat
      /\ DOMAIN requests = 1..Len(requests) /\ DOMAIN requests' = 1..Len(requests')
  BY DEF Wired, Shape, Extends
<1>2. \A o \in Orders : payment[o].req \in Nat
  BY DEF Wired, Shape, PaymentRow
<1> QED BY <1>1, <1>2 DEF Wired, RowsWired, InRange, Extends, RowsStay

LEMMA RowsWiredWrites ==
    ASSUME Wired, Extends, NEW o \in Orders, NEW status, NEW r \in Nat, Writes(o, status, r),
           status # "none", r \in DOMAIN requests', requests'[r].order = o
    PROVE  RowsWired' /\ (\A p \in Orders : payment'[p].req <= Len(requests')) /\ RowsStay
<1>1. /\ Len(requests) \in Nat /\ Len(requests') \in Nat
      /\ DOMAIN requests = 1..Len(requests) /\ DOMAIN requests' = 1..Len(requests')
  BY DEF Wired, Shape, Extends
<1>2. ASSUME NEW p \in Orders \ {o}
      PROVE  /\ payment'[p] = payment[p]
             /\ payment[p].req \in Nat /\ payment[p].req <= Len(requests)
  BY <1>2 DEF Wired, Shape, PaymentRow, InRange, Writes
<1> QED BY <1>1, <1>2 DEF Wired, RowsWired, Extends, RowsStay, Writes

\* A charge is never taken back.
LEMMA ChargedStays ==
    ASSUME Shape, Extends, NEW o, IsCharged(o)
    PROVE  IsCharged(o)'
<1>1. /\ Len(requests) \in Nat /\ Len(requests') \in Nat
      /\ DOMAIN requests = 1..Len(requests) /\ DOMAIN requests' = 1..Len(requests')
  BY DEF Shape, Extends
<1> QED BY <1>1 DEF IsCharged, Extends

\* What the rows, the orders and the points say was said before, or is true.
NothingFalse ==
    /\ \A o \in Orders : payment'[o].status = "CONFIRMED" =>
           payment[o].status = "CONFIRMED" \/ IsCharged(o)
    /\ \A o \in Orders : order'[o] = "paid" \/ o \in rewarded' =>
           order[o] = "paid" \/ o \in rewarded \/ IsCharged(o)

LEMMA TruthfulSame ==
    ASSUME Shape, Truthful, Extends, NothingFalse, UNCHANGED call
    PROVE  Truthful'
BY ChargedStays DEF Truthful, NothingFalse

LEMMA TruthfulMoves ==
    ASSUME Shape, Truthful, Extends, NothingFalse,
           NEW c \in Calls, NEW pc, NEW o, NEW r, NEW answer, Moves(c, pc, o, r, answer),
           answer = "CONFIRMED" => IsCharged(o)
    PROVE  Truthful'
BY ChargedStays DEF Truthful, NothingFalse, Moves

----------------------------------------------------------------------------
(* Types and wiring are invariant. *)

Outcomes ==
    /\ order' \in [Orders -> OrderState]
    /\ wallet' \in Nat \cup {NoWallet}
    /\ rewarded' \subseteq Orders

LEMMA OutcomesSame == ASSUME Shape, UNCHANGED <<order, wallet, rewarded>> PROVE Outcomes
BY DEF Shape, Outcomes

LEMMA OrderOutcomes ==
    ASSUME Shape, NEW o \in Orders, NEW s \in OrderState, order' = [order EXCEPT ![o] = s],
           UNCHANGED <<wallet, rewarded>>
    PROVE  Outcomes
BY DEF Shape, Outcomes

LEMMA PaidOutcomes ==
    ASSUME Shape, NEW o \in Orders, NEW balance \in Nat, order' = [order EXCEPT ![o] = "paid"],
           AwardApprovedPayment(o, balance)
    PROVE  Outcomes
BY DEF Shape, Outcomes, OrderState, AwardApprovedPayment

\* A call moves, and no request and no row with it.
LEMMA WiredMoves ==
    ASSUME Wired, Outcomes, NoneAppended, UNCHANGED <<payment, givenUp>>,
           NEW c \in Calls, NEW pc, NEW o, NEW r \in Nat, NEW answer, Moves(c, pc, o, r, answer),
           pc # "idle" => o \in Orders,
           r <= Len(requests),
           pc \notin {"push"},
           pc = "await" => /\ r \in DOMAIN requests' /\ requests'[r].order = o
                           /\ requests'[r].fate # "unsent",
           pc \in {"await", "record"} => payment[o].status # "none",
           pc = "record" => answer \in Answers,
           pc = "award" => answer = "CONFIRMED"
    PROVE  Wired'
<1>1. Extends /\ Len(requests') = Len(requests)
  BY DEF NoneAppended
<1>2. RowsWired' /\ (\A p \in Orders : payment'[p].req <= Len(requests')) /\ RowsStay
  BY <1>1, RowsWiredSame
<1>3. CallsWired' /\ \A d \in Calls : call'[d].req <= Len(requests')
  BY <1>1, <1>2, CallsWiredMoves
<1>4. Shape'
  BY <1>1 DEF Shape, Outcomes, Moves, Extends, Wired
<1> QED BY <1>1, <1>2, <1>3, <1>4 DEF Wired, InRange

\* A row is written, and a call moves.
LEMMA WiredWrites ==
    ASSUME Wired, Outcomes, Extends, givenUp' \subseteq 1..Len(requests'),
           NEW c \in Calls, NEW pc \in {"push", "return", "idle"}, NEW p, NEW s \in Nat,
           NEW answer, Moves(c, pc, p, s, answer), pc # "idle" => p \in Orders,
           s <= Len(requests'),
           NEW o \in Orders, NEW status, NEW r \in Nat, Writes(o, status, r),
           status # "none", r \in DOMAIN requests', requests'[r].order = o,
           pc = "push" => p = o /\ s = r
    PROVE  Wired'
<1>1. RowsWired' /\ (\A q \in Orders : payment'[q].req <= Len(requests')) /\ RowsStay
  BY RowsWiredWrites
<1>2. pc = "push" => payment'[p].status # "none"
  BY DEF Writes
<1>3. CallsWired' /\ \A d \in Calls : call'[d].req <= Len(requests')
  BY <1>1, <1>2, CallsWiredMoves
<1>4. Shape'
  BY DEF Shape, Outcomes, Moves, Extends, Writes, Wired
<1> QED BY <1>1, <1>3, <1>4 DEF Wired, InRange

\* Only the customer, or the order, moves.
LEMMA WiredSame ==
    ASSUME Wired, Outcomes, NoneAppended, UNCHANGED <<payment, givenUp, call>>
    PROVE  Wired'
<1>1. Extends /\ Len(requests') = Len(requests)
  BY DEF NoneAppended
<1>2. RowsWired' /\ (\A p \in Orders : payment'[p].req <= Len(requests')) /\ RowsStay
  BY <1>1, RowsWiredSame
<1>3. CallsWired' /\ \A d \in Calls : call'[d].req <= Len(requests')
  BY <1>1, <1>2, CallsWiredSame
<1>4. Shape'
  BY <1>1 DEF Shape, Outcomes, Extends, Wired
<1> QED BY <1>1, <1>2, <1>3, <1>4 DEF Wired, InRange

\* A finalize transaction, or the call's death: the call is over.
LEMMA WiredReturns ==
    ASSUME Wired, Outcomes, NEW c \in Calls, Return(c), UNCHANGED <<payment, requests, givenUp>>
    PROVE  Wired'
<1>1. Moves(c, "idle", NoOrder, 0, "none") /\ NoneAppended
  BY ReturnMoves, SameRequests DEF Wired
<1>2. 0 <= Len(requests)
  BY DEF Wired, Shape
<1> QED BY <1>1, <1>2, WiredMoves

LEMMA AppendedIsInDomain ==
    ASSUME Shape, NEW o \in Orders, Appends(o)
    PROVE  /\ Extends /\ Len(requests) + 1 \in Nat
           /\ Len(requests) + 1 <= Len(requests')
           /\ Len(requests) + 1 \in DOMAIN requests'
           /\ requests'[Len(requests) + 1].order = o
           /\ 1..Len(requests) \subseteq 1..Len(requests')
<1>1. /\ Len(requests) \in Nat /\ Len(requests') \in Nat
      /\ DOMAIN requests = 1..Len(requests) /\ DOMAIN requests' = 1..Len(requests')
  BY DEF Shape, Appends, Extends
<1> QED BY <1>1 DEF Appends

LEMMA WiredInit == Init => Wired
<1> SUFFICES ASSUME Init PROVE Wired
  OBVIOUS
<1>1. requests = <<>> /\ requests \in Seq(Request) /\ Len(requests) = 0
  BY DEF Init
<1>2. payment \in [Orders -> PaymentRow]
  BY DEF Init, PaymentRow, PaymentStatus, NoRow
<1>3. call \in [Calls -> CallState]
  BY DEF Init, CallState, Idle, PC
<1>4. Shape
  BY <1>1, <1>2, <1>3 DEF Init, Shape, OrderState, NoWallet
<1>5. InRange
  BY <1>1 DEF Init, InRange, NoRow, Idle
<1>6. CallsWired /\ RowsWired
  BY DEF Init, CallsWired, RowsWired, NoRow, Idle
<1> QED BY <1>4, <1>5, <1>6 DEF Wired

LEMMA WiredNext ==
    ASSUME Wired, [Next]_vars
    PROVE  Wired'
<1>0. /\ Shape /\ Len(requests) \in Nat /\ DOMAIN requests = 1..Len(requests)
      /\ givenUp \subseteq 1..Len(requests)
  BY FreshIsNext DEF Wired, InRange
<1>1. ASSUME NEW c \in Calls, NEW o \in Orders, MarkPaid(c, o) \/ InitializePayment(c, o)
      PROVE  Wired'
  <2>1. Outcomes
    <3>1. "attempting" \in OrderState
      BY DEF OrderState
    <3> QED BY <1>0, <1>1, <3>1, OrderOutcomes, OutcomesSame DEF MarkPaid, InitializePayment
  <2>2. Moves(c, "intent", o, 0, "none")
    BY <1>0, <1>1, StartMoves
  <2>3. NoneAppended /\ UNCHANGED <<payment, givenUp>>
    BY <1>0, <1>1, SameRequests DEF MarkPaid, InitializePayment
  <2> QED BY <1>0, <2>1, <2>2, <2>3, WiredMoves
<1>2. ASSUME NEW o \in Orders, CloseOrder(o)
      PROVE  Wired'
  <2>1. "closed" \in OrderState
    BY DEF OrderState
  <2> QED BY <1>0, <1>2, <2>1, OrderOutcomes, SameRequests, WiredSame DEF CloseOrder
<1>3. ASSUME NEW r \in DOMAIN requests, CustomerDecides(r)
      PROVE  Wired'
  <2>1. NoneAppended
    BY <1>3, CustomerDecidesDoes
  <2>2. UNCHANGED <<order, payment, wallet, rewarded, call, givenUp>>
    BY <1>3 DEF CustomerDecides
  <2> QED BY <1>0, <2>1, <2>2, OutcomesSame, WiredSame
<1>4. ASSUME NEW c \in Calls, CreateIntent(c)
      PROVE  Wired'
  <2> DEFINE o == call[c].order  n == Len(requests) + 1
  <2>1. /\ o \in Orders /\ Appends(o) /\ Writes(o, "INITIATED", n)
        /\ Moves(c, "push", o, n, call[c].answer)
    BY <1>4, CreateIntentDoes, BusyCall DEF CreateIntent
  <2>2. Outcomes /\ UNCHANGED givenUp
    BY <1>0, <1>4, OutcomesSame DEF CreateIntent
  <2>3. /\ Extends /\ n \in Nat /\ n <= Len(requests') /\ n \in DOMAIN requests'
        /\ requests'[n].order = o /\ givenUp' \subseteq 1..Len(requests')
    BY <1>0, <2>1, <2>2, AppendedIsInDomain
  <2> HIDE DEF o, n
  <2> QED BY <2>1, <2>2, <2>3, WiredWrites
<1>5. ASSUME NEW c \in Calls, AlreadyConfirmed(c)
      PROVE  Wired'
  <2>1. Ends(c, "CONFIRMED")
    BY <1>0, <1>5, ResultEnds DEF AlreadyConfirmed, Answers
  <2>2. Outcomes /\ NoneAppended /\ UNCHANGED <<payment, givenUp>> /\ call[c].order \in Orders
    BY <1>0, <1>5, OutcomesSame, SameRequests, BusyCall DEF AlreadyConfirmed
  <2> QED BY <1>0, <2>1, <2>2, WiredMoves DEF Ends
<1>6. ASSUME NEW c \in Calls, RetryIntent(c)
      PROVE  Wired'
  <2> DEFINE o == call[c].order  n == Len(requests) + 1
  <2>1. Outcomes /\ UNCHANGED givenUp /\ o \in Orders
    BY <1>0, <1>6, OutcomesSame, BusyCall DEF RetryIntent
  <2>2. CASE /\ Appends(o) /\ Writes(o, "PROCESSING", n)
             /\ Moves(c, "push", o, n, call[c].answer)
    <3>1. /\ Extends /\ n \in Nat /\ n <= Len(requests') /\ n \in DOMAIN requests'
          /\ requests'[n].order = o /\ givenUp' \subseteq 1..Len(requests')
      BY <1>0, <2>1, <2>2, AppendedIsInDomain
    <3> HIDE DEF o, n
    <3> QED BY <2>1, <2>2, <3>1, WiredWrites
  <2>3. CASE /\ NoneAppended /\ Writes(o, "PROCESSING", payment[o].req)
             /\ Moves(c, "push", o, payment[o].req, call[c].answer)
    <3> DEFINE r == payment[o].req
    <3>1. r \in DOMAIN requests /\ requests[r].order = o
      BY <1>6, <2>1 DEF RetryIntent, Wired, RowsWired
    <3>2. /\ Extends /\ r \in Nat /\ r <= Len(requests') /\ r \in DOMAIN requests'
          /\ requests'[r].order = o /\ givenUp' \subseteq 1..Len(requests')
      BY <1>0, <2>1, <2>3, <3>1 DEF NoneAppended, Extends
    <3> HIDE DEF o, r
    <3> QED BY <2>1, <2>3, <3>2, WiredWrites DEF r
  <2> QED BY <1>6, <2>2, <2>3, RetryIntentDoes
<1>7. ASSUME NEW c \in Calls, PushPayment(c)
      PROVE  Wired'
  <2> DEFINE o == call[c].order  r == call[c].req
  <2>1. /\ NoneAppended /\ UNCHANGED payment /\ requests'[r].fate # "unsent"
        /\ Moves(c, "await", o, r, call[c].answer)
    BY <1>7, PushPaymentDoes
  <2>2. Outcomes /\ UNCHANGED givenUp /\ o \in Orders
    BY <1>0, <1>7, OutcomesSame, BusyCall DEF PushPayment
  <2>3. r \in DOMAIN requests /\ requests[r].order = o /\ payment[o].status # "none"
    BY <1>7 DEF PushPayment, Wired, CallsWired
  <2>4. r \in Nat /\ r <= Len(requests) /\ r \in DOMAIN requests' /\ requests'[r].order = o
    BY <1>0, <2>1, <2>3 DEF NoneAppended, Extends
  <2> HIDE DEF o, r
  <2> QED BY <2>1, <2>2, <2>3, <2>4, WiredMoves
<1>8. ASSUME NEW c \in Calls, ProviderAnswers(c)
      PROVE  Wired'
  <2> DEFINE o == call[c].order
  <2>1. PICK answer \in Answers : Moves(c, "record", o, 0, answer)
    BY <1>8, ProviderAnswersDoes
  <2>2. Outcomes /\ NoneAppended /\ UNCHANGED <<payment, givenUp>> /\ o \in Orders
    BY <1>0, <1>8, OutcomesSame, SameRequests, BusyCall DEF ProviderAnswers
  <2>3. payment[o].status # "none"
    BY <1>8 DEF ProviderAnswers, Wired, CallsWired
  <2> HIDE DEF o
  <2> QED BY <1>0, <2>1, <2>2, <2>3, WiredMoves
<1>9. ASSUME NEW c \in Calls, RecordResponse(c) \/ RecordFailure(c)
      PROVE  Wired'
  <2> DEFINE o == call[c].order  r == payment[o].req
  <2>1. PICK status \in Answers : o \in Orders /\ Writes(o, status, r) /\ Ends(c, status)
    BY <1>9, RecordResponseDoes, RecordFailureDoes DEF Answers
  <2>2. payment[o].status # "none"
    BY <1>9 DEF RecordResponse, RecordFailure, Wired, CallsWired
  <2>3. Outcomes /\ NoneAppended
    BY <1>0, <1>9, OutcomesSame, SameRequests DEF RecordResponse, RecordFailure
  <2>4. givenUp' \subseteq 1..Len(requests)
    BY <1>0, <1>9, <2>1, <2>2, GiveUpDoes DEF RecordResponse, RecordFailure
  <2>5. r \in DOMAIN requests /\ requests[r].order = o
    BY <2>1, <2>2 DEF Wired, RowsWired
  <2>6. /\ Extends /\ r \in Nat /\ 0 <= Len(requests') /\ r \in DOMAIN requests'
        /\ requests'[r].order = o /\ givenUp' \subseteq 1..Len(requests')
    BY <1>0, <2>3, <2>4, <2>5 DEF NoneAppended, Extends
  <2>7. status # "none"
    BY DEF Answers
  <2> HIDE DEF o, r
  <2> QED BY <2>1, <2>3, <2>6, <2>7, WiredWrites DEF Ends, o
<1>10. ASSUME NEW c \in Calls, FinalizeClosed(c) \/ FinalizeUnpaid(c) \/ Abandon(c)
       PROVE  Wired'
  <2>1. Return(c) /\ UNCHANGED <<payment, requests, givenUp>>
    BY <1>10 DEF FinalizeClosed, FinalizeUnpaid, Abandon
  <2>2. Outcomes
    <3>1. CASE UNCHANGED <<order, wallet, rewarded>>
      BY <1>0, <3>1, OutcomesSame
    <3>2. CASE FinalizeUnpaid(c)
      <4>1. call[c].order \in Orders /\ UNCHANGED <<wallet, rewarded>>
        BY <3>2, BusyCall DEF FinalizeUnpaid, Finalizable
      <4>2. \E s \in OrderState : order' = [order EXCEPT ![call[c].order] = s]
        BY <3>2 DEF FinalizeUnpaid, OrderState
      <4> QED BY <1>0, <4>1, <4>2, OrderOutcomes
    <3> QED BY <1>10, <3>1, <3>2 DEF FinalizeClosed, Abandon
  <2> QED BY <2>1, <2>2, WiredReturns
<1>11. ASSUME NEW c \in Calls, FinalizeConfirmed(c) \/ CreateWallet(c)
       PROVE  Wired'
  <2>1. Return(c) /\ UNCHANGED <<payment, requests, givenUp>>
    BY <1>11 DEF FinalizeConfirmed, CreateWallet
  <2>2. call[c].order \in Orders
    BY <1>11, BusyCall DEF FinalizeConfirmed, Finalizable, CreateWallet
  <2>3. Outcomes
    <3>1. CASE FinalizeConfirmed(c)
      <4>1. wallet \in Nat
        BY <1>0, <3>1 DEF FinalizeConfirmed, Shape
      <4> QED BY <1>0, <2>2, <3>1, <4>1, PaidOutcomes DEF FinalizeConfirmed
    <3>2. CASE CreateWallet(c)
      BY <1>0, <2>2, <3>2, PaidOutcomes, OutcomesSame DEF CreateWallet
    <3> QED BY <1>11, <3>1, <3>2
  <2> QED BY <2>1, <2>3, WiredReturns
<1>12. ASSUME NEW c \in Calls, FinalizeWithoutWallet(c)
       PROVE  Wired'
  <2>1. Moves(c, "award", call[c].order, call[c].req, call[c].answer)
    BY <1>0, <1>12, GotoMoves DEF FinalizeWithoutWallet, PC
  <2>2. Outcomes /\ NoneAppended /\ UNCHANGED <<payment, givenUp>>
    BY <1>0, <1>12, OutcomesSame, SameRequests DEF FinalizeWithoutWallet
  <2>3. call[c].order \in Orders /\ call[c].answer = "CONFIRMED"
    BY <1>12, BusyCall DEF FinalizeWithoutWallet, Finalizable
  <2>4. call[c].req \in Nat /\ call[c].req <= Len(requests)
    BY DEF Wired, Shape, CallState, InRange
  <2> QED BY <2>1, <2>2, <2>3, <2>4, WiredMoves
<1>13. CASE UNCHANGED vars
  BY <1>0, <1>13, OutcomesSame, SameRequests, WiredSame DEF vars
<1> QED BY <1>1, <1>2, <1>3, <1>4, <1>5, <1>6, <1>7, <1>8, <1>9, <1>10, <1>11, <1>12, <1>13
        DEF Next, Step

\* Every variable keeps its type: no row and no call ever names a request that
\* was not generated, and only such requests are given up.
THEOREM TypeCorrect == Spec => []TypeOK
<1>1. Init => Wired
  BY WiredInit
<1>2. Wired /\ [Next]_vars => Wired'
  BY WiredNext
<1>3. Wired => TypeOK
  BY TypeParts DEF Wired
<1> QED BY <1>1, <1>2, <1>3, PTL DEF Spec

----------------------------------------------------------------------------
(* Nobody says that an order is paid for when it is not. *)

LEMMA TruthfulInit == Init => Truthful
BY DEF Init, Truthful, NoRow, Idle

LEMMA TruthfulNext ==
    ASSUME Wired, Truthful, [Next]_vars
    PROVE  Truthful'
<1>0. Shape
  BY DEF Wired
<1>1. \A c \in Calls : call[c].answer = "CONFIRMED" => IsCharged(call[c].order)
  BY DEF Truthful
<1>2. ASSUME UNCHANGED <<order, payment, rewarded>>
      PROVE  NothingFalse
  BY <1>2 DEF NothingFalse
<1>3. ASSUME NEW o \in Orders, NEW s \in OrderState \ {"paid"},
             order' = [order EXCEPT ![o] = s], UNCHANGED <<payment, rewarded>>
      PROVE  NothingFalse
  BY <1>0, <1>3 DEF NothingFalse, Shape
<1>4. ASSUME NEW o \in Orders, NEW status, NEW r, Writes(o, status, r),
             status = "CONFIRMED" => IsCharged(o), UNCHANGED <<order, rewarded>>
      PROVE  NothingFalse
  BY <1>4 DEF NothingFalse, Writes
<1>5. ASSUME NEW c \in Calls, NEW o \in Orders, MarkPaid(c, o) \/ InitializePayment(c, o)
      PROVE  Truthful'
  <2>1. NothingFalse
    <3>1. "attempting" \in OrderState \ {"paid"}
      BY DEF OrderState
    <3> QED BY <1>2, <1>3, <1>5, <3>1 DEF MarkPaid, InitializePayment
  <2>2. Extends
    BY <1>0, <1>5, SameRequests DEF MarkPaid, InitializePayment, NoneAppended
  <2> QED BY <1>0, <1>5, <2>1, <2>2, StartMoves, TruthfulMoves
<1>6. ASSUME NEW o \in Orders, CloseOrder(o)
      PROVE  Truthful'
  <2>1. "closed" \in OrderState \ {"paid"}
    BY DEF OrderState
  <2>2. NothingFalse
    BY <1>3, <1>6, <2>1 DEF CloseOrder
  <2> QED BY <1>0, <1>6, <2>2, SameRequests, TruthfulSame DEF CloseOrder, NoneAppended
<1>7. ASSUME NEW r \in DOMAIN requests, CustomerDecides(r)
      PROVE  Truthful'
  <2>1. Extends
    BY <1>7, CustomerDecidesDoes DEF NoneAppended
  <2>2. NothingFalse /\ UNCHANGED call
    BY <1>2, <1>7 DEF CustomerDecides
  <2> QED BY <1>0, <2>1, <2>2, TruthfulSame
<1>8. ASSUME NEW c \in Calls, CreateIntent(c)
      PROVE  Truthful'
  <2>1. /\ Extends /\ Writes(call[c].order, "INITIATED", Len(requests) + 1)
        /\ Moves(c, "push", call[c].order, Len(requests) + 1, call[c].answer)
    BY <1>8, CreateIntentDoes DEF Appends
  <2>2. NothingFalse
    BY <1>4, <1>8, <2>1, BusyCall DEF CreateIntent
  <2> QED BY <1>0, <1>1, <2>1, <2>2, TruthfulMoves
<1>9. ASSUME NEW c \in Calls, AlreadyConfirmed(c)
      PROVE  Truthful'
  <2>1. Ends(c, "CONFIRMED")
    BY <1>0, <1>9, ResultEnds DEF AlreadyConfirmed, Answers
  <2>2. IsCharged(call[c].order)
    BY <1>9, BusyCall DEF AlreadyConfirmed, Truthful
  <2>3. NothingFalse /\ Extends
    BY <1>0, <1>2, <1>9, SameRequests DEF AlreadyConfirmed, NoneAppended
  <2> QED BY <1>0, <2>1, <2>2, <2>3, TruthfulMoves DEF Ends
<1>10. ASSUME NEW c \in Calls, RetryIntent(c)
       PROVE  Truthful'
  <2>1. PICK r : /\ Extends /\ Writes(call[c].order, "PROCESSING", r)
                 /\ Moves(c, "push", call[c].order, r, call[c].answer)
    BY <1>10, RetryIntentDoes DEF Appends, NoneAppended
  <2>2. NothingFalse
    BY <1>4, <1>10, <2>1, BusyCall DEF RetryIntent
  <2> QED BY <1>0, <1>1, <2>1, <2>2, TruthfulMoves
<1>11. ASSUME NEW c \in Calls, PushPayment(c)
       PROVE  Truthful'
  <2>1. Extends /\ Moves(c, "await", call[c].order, call[c].req, call[c].answer)
    BY <1>11, PushPaymentDoes DEF NoneAppended
  <2>2. NothingFalse
    BY <1>2, <1>11 DEF PushPayment
  <2> QED BY <1>0, <1>1, <2>1, <2>2, TruthfulMoves
<1>12. ASSUME NEW c \in Calls, ProviderAnswers(c)
       PROVE  Truthful'
  <2>1. PICK answer \in Answers : /\ Moves(c, "record", call[c].order, 0, answer)
                                  /\ answer = "CONFIRMED" => IsCharged(call[c].order)
    BY <1>12, ProviderAnswersDoes
  <2>2. NothingFalse /\ Extends
    BY <1>0, <1>2, <1>12, SameRequests DEF ProviderAnswers, NoneAppended
  <2> QED BY <1>0, <2>1, <2>2, TruthfulMoves
<1>13. ASSUME NEW c \in Calls, RecordResponse(c) \/ RecordFailure(c)
       PROVE  Truthful'
  <2> DEFINE o == call[c].order
  <2>1. PICK status, r : /\ o \in Orders /\ Writes(o, status, r) /\ Ends(c, status)
                         /\ status = "CONFIRMED" => IsCharged(o)
    BY <1>1, <1>13, RecordResponseDoes, RecordFailureDoes
  <2>2. Extends /\ UNCHANGED <<order, rewarded>>
    BY <1>0, <1>13, SameRequests DEF RecordResponse, RecordFailure, NoneAppended
  <2>3. NothingFalse
    BY <1>4, <2>1, <2>2
  <2> QED BY <1>0, <2>1, <2>2, <2>3, TruthfulMoves DEF Ends
<1>14. ASSUME NEW c \in Calls, FinalizeClosed(c) \/ FinalizeUnpaid(c) \/ Abandon(c)
       PROVE  Truthful'
  <2>1. /\ Extends /\ Moves(c, "idle", NoOrder, 0, "none")
    BY <1>0, <1>14, SameRequests, ReturnMoves
       DEF FinalizeClosed, FinalizeUnpaid, Abandon, NoneAppended
  <2>2. NothingFalse
    <3>1. CASE FinalizeClosed(c) \/ Abandon(c)
      BY <1>2, <3>1 DEF FinalizeClosed, Abandon
    <3>2. CASE FinalizeUnpaid(c)
      <4>1. \E s \in OrderState \ {"paid"} : order' = [order EXCEPT ![call[c].order] = s]
        BY <3>2 DEF FinalizeUnpaid, OrderState
      <4>2. call[c].order \in Orders /\ UNCHANGED <<payment, rewarded>>
        BY <3>2, BusyCall DEF FinalizeUnpaid, Finalizable
      <4> QED BY <1>3, <4>1, <4>2
    <3> QED BY <1>14, <3>1, <3>2
  <2> QED BY <1>0, <2>1, <2>2, TruthfulMoves
<1>15. ASSUME NEW c \in Calls, FinalizeConfirmed(c) \/ CreateWallet(c)
       PROVE  Truthful'
  <2>1. /\ Extends /\ Moves(c, "idle", NoOrder, 0, "none") /\ UNCHANGED payment
    BY <1>0, <1>15, SameRequests, ReturnMoves DEF FinalizeConfirmed, CreateWallet, NoneAppended
  <2>2. call[c].order \in Orders /\ IsCharged(call[c].order)
    BY <1>1, <1>15, BusyCall DEF FinalizeConfirmed, Finalizable, CreateWallet, Wired, CallsWired
  <2>3. \/ UNCHANGED <<order, rewarded>>
        \/ /\ order' = [order EXCEPT ![call[c].order] = "paid"]
           /\ rewarded' = rewarded \cup {call[c].order}
    BY <1>15 DEF FinalizeConfirmed, CreateWallet, AwardApprovedPayment
  <2>4. NothingFalse
    BY <1>0, <2>1, <2>2, <2>3 DEF NothingFalse, Shape
  <2> QED BY <1>0, <2>1, <2>4, TruthfulMoves
<1>16. ASSUME NEW c \in Calls, FinalizeWithoutWallet(c)
       PROVE  Truthful'
  <2>1. Extends /\ Moves(c, "award", call[c].order, call[c].req, call[c].answer)
    BY <1>0, <1>16, GotoMoves, SameRequests DEF FinalizeWithoutWallet, PC, NoneAppended
  <2>2. NothingFalse
    BY <1>2, <1>16 DEF FinalizeWithoutWallet
  <2> QED BY <1>0, <1>1, <2>1, <2>2, TruthfulMoves
<1>17. CASE UNCHANGED vars
  BY <1>0, <1>2, <1>17, SameRequests, TruthfulSame DEF vars, NoneAppended
<1> QED BY <1>5, <1>6, <1>7, <1>8, <1>9, <1>10, <1>11, <1>12, <1>13, <1>14, <1>15, <1>16, <1>17
        DEF Next, Step

\* Nobody gets an order, or points for it, that was not paid for.
THEOREM PaidMeansCharged == Spec => []PaidIsCharged
<1>1. Init => Wired /\ Truthful
  BY WiredInit, TruthfulInit
<1>2. Wired /\ Truthful /\ [Next]_vars => (Wired /\ Truthful)'
  BY WiredNext, TruthfulNext
<1>3. Wired /\ Truthful => PaidIsCharged
  BY DEF Truthful, IsCharged, PaidIsCharged, Charged, RequestsOf
<1> QED BY <1>1, <1>2, <1>3, PTL DEF Spec

----------------------------------------------------------------------------
(* The points. *)

LEMMA PointsInit == Init => PointsMatchRewards
BY DEF Init, PointsMatchRewards

LEMMA RewardedIsFinite ==
    ASSUME Shape
    PROVE  IsFiniteSet(rewarded) /\ Cardinality(rewarded) \in Nat
BY FS_Subset, FS_CardinalityType, PaymentsAssumption DEF Shape

\* A step that earns no point finds no order newly paid.
LEMMA PointsSame ==
    ASSUME PointsMatchRewards, UNCHANGED <<wallet, rewarded>>,
           \A o \in Orders : order'[o] = "paid" => order[o] = "paid"
    PROVE  PointsMatchRewards'
BY DEF PointsMatchRewards

LEMMA PointsOrder ==
    ASSUME Shape, PointsMatchRewards, UNCHANGED <<wallet, rewarded>>,
           NEW o \in Orders, NEW s, s # "paid", order' = [order EXCEPT ![o] = s]
    PROVE  PointsMatchRewards'
BY PointsSame DEF Shape

LEMMA PointsAwarded ==
    ASSUME Shape, PointsMatchRewards, NEW o \in Orders, NEW balance,
           order' = [order EXCEPT ![o] = "paid"], AwardApprovedPayment(o, balance),
           balance = Cardinality(rewarded)
    PROVE  PointsMatchRewards'
<1>1. \A p \in Orders : order'[p] = "paid" => p = o \/ order[p] = "paid"
  BY DEF Shape
<1>2. IsFiniteSet(rewarded)
  BY RewardedIsFinite
<1>3. Cardinality(rewarded') = IF o \in rewarded THEN Cardinality(rewarded)
                               ELSE Cardinality(rewarded) + 1
  BY <1>2, FS_AddElement DEF AwardApprovedPayment
<1> QED BY <1>1, <1>3 DEF PointsMatchRewards, AwardApprovedPayment

LEMMA PointsNext ==
    ASSUME Wired, PointsMatchRewards, [Next]_vars
    PROVE  PointsMatchRewards'
<1>0. Shape /\ Cardinality(rewarded) \in Nat
  BY RewardedIsFinite DEF Wired
<1>1. ASSUME UNCHANGED <<order, wallet, rewarded>> PROVE PointsMatchRewards'
  BY <1>1, PointsSame
<1>2. ASSUME NEW c \in Calls, NEW o \in Orders, MarkPaid(c, o) \/ InitializePayment(c, o)
      PROVE  PointsMatchRewards'
  BY <1>0, <1>1, <1>2, PointsOrder DEF MarkPaid, InitializePayment
<1>3. ASSUME NEW o \in Orders, CloseOrder(o)
      PROVE  PointsMatchRewards'
  BY <1>0, <1>3, PointsOrder DEF CloseOrder
<1>4. ASSUME NEW c \in Calls, FinalizeUnpaid(c)
      PROVE  PointsMatchRewards'
  <2>1. call[c].order \in Orders
    BY <1>4, BusyCall DEF FinalizeUnpaid, Finalizable
  <2>2. \E s \in {"attempting", "unpaid", "closed"} :
            order' = [order EXCEPT ![call[c].order] = s]
    BY <1>4 DEF FinalizeUnpaid
  <2> QED BY <1>0, <1>4, <2>1, <2>2, PointsOrder DEF FinalizeUnpaid
<1>5. ASSUME NEW c \in Calls, FinalizeConfirmed(c)
      PROVE  PointsMatchRewards'
  <2>1. call[c].order \in Orders
    BY <1>5, BusyCall DEF FinalizeConfirmed, Finalizable
  <2>2. wallet = Cardinality(rewarded)
    BY <1>5 DEF FinalizeConfirmed, PointsMatchRewards
  <2> QED BY <1>0, <1>5, <2>1, <2>2, PointsAwarded DEF FinalizeConfirmed
<1>6. ASSUME NEW c \in Calls, CreateWallet(c)
      PROVE  PointsMatchRewards'
  <2>1. call[c].order \in Orders
    BY <1>6, BusyCall DEF CreateWallet
  <2>2. wallet = NoWallet => Cardinality(rewarded) = 0
    BY <1>0, FS_EmptySet DEF PointsMatchRewards, NoWallet
  <2> QED BY <1>0, <1>1, <1>6, <2>1, <2>2, PointsAwarded DEF CreateWallet
<1>7. ASSUME NEW c \in Calls,
             \/ CreateIntent(c) \/ AlreadyConfirmed(c) \/ RetryIntent(c)
             \/ PushPayment(c) \/ ProviderAnswers(c) \/ RecordResponse(c) \/ RecordFailure(c)
             \/ FinalizeClosed(c) \/ FinalizeWithoutWallet(c) \/ Abandon(c)
      PROVE  PointsMatchRewards'
  BY <1>1, <1>7 DEF CreateIntent, AlreadyConfirmed, RetryIntent, PushPayment, ProviderAnswers,
       RecordResponse, RecordFailure, FinalizeClosed, FinalizeWithoutWallet, Abandon
<1>8. ASSUME NEW r \in DOMAIN requests, CustomerDecides(r)
      PROVE  PointsMatchRewards'
  BY <1>1, <1>8 DEF CustomerDecides
<1>9. CASE UNCHANGED vars
  BY <1>1, <1>9 DEF vars
<1> QED BY <1>2, <1>3, <1>4, <1>5, <1>6, <1>7, <1>8, <1>9 DEF Next, Step

\* Every paid order earned its points once, however many finalize transactions
\* find that the customer has no wallet yet.
THEOREM PointsAreEarned == Spec => []PointsMatchRewards
<1>1. Init => Wired /\ PointsMatchRewards
  BY WiredInit, PointsInit
<1>2. Wired /\ PointsMatchRewards /\ [Next]_vars => (Wired /\ PointsMatchRewards)'
  BY WiredNext, PointsNext
<1> QED BY <1>1, <1>2, PTL DEF Spec

----------------------------------------------------------------------------
(* Second charges. *)

LEMMA LeftStays ==
    ASSUME Shape, Extends, givenUp \subseteq givenUp', NEW r \in DOMAIN requests, Left(r)
    PROVE  Left(r)'
BY DEF Left, Extends

LEMMA OthersLeftInit == Init => OthersLeft
BY DEF Init, OthersLeft

LEMMA OthersLeftSame ==
    ASSUME Shape, OthersLeft, NoneAppended, givenUp \subseteq givenUp', UNCHANGED payment
    PROVE  OthersLeft'
<1>1. Extends /\ DOMAIN requests' = DOMAIN requests
  BY DEF Shape, NoneAppended, Extends
<1>2. ASSUME NEW o \in Orders, NEW r \in DOMAIN requests', requests'[r].order = o,
             r # payment[o].req \/ ShouldRotate(payment[o].status)
      PROVE  Left(r)'
  <2>1. r \in DOMAIN requests /\ requests[r].order = o
    BY <1>1, <1>2 DEF Extends
  <2> QED BY <1>1, <1>2, <2>1, LeftStays DEF OthersLeft
<1> QED BY <1>2 DEF OthersLeft, ShouldRotate

\* The row of o is written: its other requests must be left, and the one it
\* carries too if the next retry takes another.
LEMMA OthersLeftWrites ==
    ASSUME Shape, OthersLeft, Extends, givenUp \subseteq givenUp',
           NEW o \in Orders, NEW status, NEW r, Writes(o, status, r),
           \A s \in DOMAIN requests' : s \in DOMAIN requests \/ requests'[s].order = o,
           \A s \in DOMAIN requests' :
               requests'[s].order = o /\ (s # r \/ ShouldRotate(status)) => Left(s)'
    PROVE  OthersLeft'
<1>1. ASSUME NEW p \in Orders, NEW s \in DOMAIN requests', requests'[s].order = p,
             s # payment'[p].req \/ ShouldRotate(payment'[p].status)
      PROVE  Left(s)'
  <2>1. CASE p = o
    BY <1>1, <2>1 DEF Writes
  <2>2. CASE p # o
    <3>1. payment'[p] = payment[p] /\ s \in DOMAIN requests /\ requests[s].order = p
      BY <1>1, <2>2 DEF Writes, Extends
    <3> QED BY <1>1, <3>1, LeftStays DEF OthersLeft
  <2> QED BY <2>1, <2>2
<1> QED BY <1>1 DEF OthersLeft, ShouldRotate

\* A new request is generated when every request of the order is left.
LEMMA OthersLeftAppends ==
    ASSUME Shape, OthersLeft, NEW o \in Orders, Appends(o), UNCHANGED givenUp,
           NEW status, ~ShouldRotate(status), Writes(o, status, Len(requests) + 1),
           \A s \in DOMAIN requests : requests[s].order = o => Left(s)
    PROVE  OthersLeft'
<1>1. Extends /\ givenUp \subseteq givenUp'
  BY DEF Appends
<1>2. \A s \in DOMAIN requests' : s \in DOMAIN requests \/ s = Len(requests) + 1
  BY DEF Shape, Appends, Extends
<1>3. \A s \in DOMAIN requests' : s \in DOMAIN requests \/ requests'[s].order = o
  BY <1>2 DEF Appends
<1>4. ASSUME NEW s \in DOMAIN requests', requests'[s].order = o, s # Len(requests) + 1
      PROVE  Left(s)'
  <2>1. s \in DOMAIN requests /\ requests[s].order = o
    BY <1>1, <1>2, <1>4 DEF Extends
  <2> QED BY <1>1, <2>1, LeftStays
<1> QED BY <1>1, <1>3, <1>4, OthersLeftWrites

\* The row keeps its request, which is left if the status rotates.
LEMMA OthersLeftKeeps ==
    ASSUME Shape, OthersLeft, NEW o \in Orders, NoneAppended, givenUp \subseteq givenUp',
           NEW status, NEW r \in DOMAIN requests, r = payment[o].req, Writes(o, status, r),
           ShouldRotate(status) => Left(r)'
    PROVE  OthersLeft'
<1>1. Extends /\ DOMAIN requests' = DOMAIN requests
  BY DEF Shape, NoneAppended, Extends
<1>2. ASSUME NEW s \in DOMAIN requests', requests'[s].order = o,
             s # r \/ ShouldRotate(status)
      PROVE  Left(s)'
  <2>1. s \in DOMAIN requests /\ requests[s].order = o
    BY <1>1, <1>2 DEF Extends
  <2>2. CASE s # r
    BY <1>1, <2>1, <2>2, LeftStays DEF OthersLeft
  <2> QED BY <1>2, <2>2
<1> QED BY <1>1, <1>2, OthersLeftWrites

LEMMA OthersLeftNext ==
    ASSUME Wired, OthersLeft, [Next]_vars
    PROVE  OthersLeft'
<1>0. Shape
  BY DEF Wired
<1>1. ASSUME UNCHANGED <<payment, requests, givenUp>> PROVE OthersLeft'
  BY <1>0, <1>1, SameRequests, OthersLeftSame
<1>2. ASSUME NEW c \in Calls, CreateIntent(c)
      PROVE  OthersLeft'
  <2> DEFINE o == call[c].order
  <2>1. /\ o \in Orders /\ Appends(o) /\ Writes(o, "INITIATED", Len(requests) + 1)
        /\ UNCHANGED givenUp /\ payment[o].status = "none"
    BY <1>2, CreateIntentDoes, BusyCall DEF CreateIntent
  <2>2. \A s \in DOMAIN requests : s # payment[o].req
    BY <1>0, <2>1 DEF Wired, RowsWired, Shape
  <2>3. \A s \in DOMAIN requests : requests[s].order = o => Left(s)
    BY <2>1, <2>2 DEF OthersLeft
  <2>4. ~ShouldRotate("INITIATED")
    BY DEF ShouldRotate
  <2> HIDE DEF o
  <2> QED BY <1>0, <2>1, <2>3, <2>4, OthersLeftAppends
<1>3. ASSUME NEW c \in Calls, RetryIntent(c)
      PROVE  OthersLeft'
  <2> DEFINE o == call[c].order
  <2>1. o \in Orders /\ UNCHANGED givenUp /\ payment[o].status # "none"
    BY <1>3, BusyCall DEF RetryIntent
  <2>2. ~ShouldRotate("PROCESSING")
    BY DEF ShouldRotate
  <2>3. CASE /\ ShouldRotate(payment[o].status) /\ Appends(o)
             /\ Writes(o, "PROCESSING", Len(requests) + 1)
    <3>1. \A s \in DOMAIN requests : requests[s].order = o => Left(s)
      BY <2>1, <2>3 DEF OthersLeft
    <3> HIDE DEF o
    <3> QED BY <1>0, <2>1, <2>2, <2>3, <3>1, OthersLeftAppends
  <2>4. CASE NoneAppended /\ Writes(o, "PROCESSING", payment[o].req)
    <3>1. PICK r \in DOMAIN requests : r = payment[o].req
      BY <2>1 DEF Wired, RowsWired
    <3> HIDE DEF o
    <3> QED BY <1>0, <2>1, <2>2, <2>4, <3>1, OthersLeftKeeps
  <2> QED BY <1>3, <2>3, <2>4, RetryIntentDoes
<1>4. ASSUME NEW c \in Calls, PushPayment(c)
      PROVE  OthersLeft'
  <2>1. NoneAppended /\ UNCHANGED <<payment, givenUp>>
    BY <1>4, PushPaymentDoes DEF PushPayment
  <2> QED BY <1>0, <2>1, OthersLeftSame
<1>5. ASSUME NEW r \in DOMAIN requests, CustomerDecides(r)
      PROVE  OthersLeft'
  <2>1. NoneAppended /\ UNCHANGED <<payment, givenUp>>
    BY <1>5, CustomerDecidesDoes DEF CustomerDecides
  <2> QED BY <1>0, <2>1, OthersLeftSame
<1>6. ASSUME NEW c \in Calls, RecordResponse(c) \/ RecordFailure(c)
      PROVE  OthersLeft'
  <2> DEFINE o == call[c].order
  <2>1. payment[o].status # "none"
    BY <1>6 DEF RecordResponse, RecordFailure, Wired, CallsWired
  <2>2. PICK status : /\ o \in Orders /\ Writes(o, status, payment[o].req)
                      /\ IF ShouldRotate(status) THEN GiveUp(o) ELSE UNCHANGED givenUp
    <3>1. CASE RecordResponse(c)
      BY <3>1, RecordResponseDoes DEF RecordResponse
    <3>2. CASE RecordFailure(c)
      BY <3>2, RecordFailureDoes DEF RecordFailure, ShouldRotate
    <3> QED BY <1>6, <3>1, <3>2
  <2>3. NoneAppended /\ UNCHANGED requests
    BY <1>0, <1>6, SameRequests DEF RecordResponse, RecordFailure
  <2>4. PICK r \in DOMAIN requests :
            /\ r = payment[o].req /\ givenUp \subseteq givenUp'
            /\ ShouldRotate(status) => requests[r].fate = "refused" \/ r \in givenUp'
    BY <2>1, <2>2, GiveUpDoes DEF Wired, RowsWired
  <2>5. ShouldRotate(status) => Left(r)'
    BY <2>3, <2>4 DEF Left
  <2> HIDE DEF o
  <2> QED BY <1>0, <2>2, <2>3, <2>4, <2>5, OthersLeftKeeps
<1>7. ASSUME NEW c \in Calls,
             \/ AlreadyConfirmed(c) \/ ProviderAnswers(c) \/ FinalizeClosed(c)
             \/ FinalizeUnpaid(c) \/ FinalizeConfirmed(c) \/ FinalizeWithoutWallet(c)
             \/ CreateWallet(c) \/ Abandon(c)
      PROVE  OthersLeft'
  BY <1>1, <1>7 DEF AlreadyConfirmed, ProviderAnswers, FinalizeClosed, FinalizeUnpaid,
       FinalizeConfirmed, FinalizeWithoutWallet, CreateWallet, Abandon
<1>8. ASSUME NEW c \in Calls, NEW o \in Orders, MarkPaid(c, o) \/ InitializePayment(c, o)
      PROVE  OthersLeft'
  BY <1>1, <1>8 DEF MarkPaid, InitializePayment
<1>9. ASSUME NEW o \in Orders, CloseOrder(o)
      PROVE  OthersLeft'
  BY <1>1, <1>9 DEF CloseOrder
<1>10. CASE UNCHANGED vars
  BY <1>1, <1>10 DEF vars
<1> QED BY <1>2, <1>3, <1>4, <1>5, <1>6, <1>7, <1>8, <1>9, <1>10 DEF Next, Step

LEMMA OneIsNotLeft ==
    ASSUME Wired, OthersLeft, NEW o \in Orders
    PROVE  Cardinality(Charged(o) \ givenUp) <= 1
<1> DEFINE taken == Charged(o) \ givenUp  one == {payment[o].req}
<1>1. taken \subseteq one
  BY DEF Charged, RequestsOf, OthersLeft, Left
<1>2. IsFiniteSet(one) /\ Cardinality(one) = 1
  BY FS_Singleton
<1>3. Cardinality(taken) <= Cardinality(one)
  BY <1>1, <1>2, FS_Subset
<1> QED BY <1>2, <1>3

\* A customer is charged twice for an order only after the server recorded a
\* failure for a request that the provider had not refused.
THEOREM ChargedTwiceNeedsGivingUp == Spec => []ChargedTwiceOnlyIfGivenUp
<1>1. Init => Wired /\ OthersLeft
  BY WiredInit, OthersLeftInit
<1>2. Wired /\ OthersLeft /\ [Next]_vars => (Wired /\ OthersLeft)'
  BY WiredNext, OthersLeftNext
<1>3. Wired /\ OthersLeft => ChargedTwiceOnlyIfGivenUp
  BY OneIsNotLeft DEF ChargedTwiceOnlyIfGivenUp
<1> QED BY <1>1, <1>2, <1>3, PTL DEF Spec
=============================================================================
