----------------------- MODULE ReservationsRefinement -----------------------
(***************************************************************************)
(* The reservation core implements the stock ledger, for every set of      *)
(* offers, every finite set of orders, any number of handler executions,   *)
(* every total and every attempt limit: hence no offer is ever oversold,   *)
(* and quantity_reserved is always what its running holds add up to.       *)
(***************************************************************************)
EXTENDS ReservationsProofs

----------------------------------------------------------------------------
(* Which statuses a step may take an order to. *)

LEMMA WroteAfter ==
    ASSUME TypeInv, NEW o \in Orders, NEW status, NEW pay, Wrote(o, status, pay),
           status \in After(order[o].status)
    PROVE  \A p \in Orders : order'[p].status \in After(order[p].status)
<1>1. ASSUME NEW p \in Orders
      PROVE  order[p].status \in After(order[p].status)
  BY RowType DEF TypeInv, After, OrderStatus
<1> QED BY <1>1 DEF Wrote

LEMMA SameAfter ==
    ASSUME TypeInv, UNCHANGED order
    PROVE  \A p \in Orders : order'[p].status \in After(order[p].status)
BY RowType DEF TypeInv, After, OrderStatus

LEMMA StatusStep ==
    ASSUME TypeInv, AttemptInv, [FaultyNext]_vars
    PROVE  \A p \in Orders : order'[p].status \in After(order[p].status)
<1> DEFINE Goal == \A p \in Orders : order'[p].status \in After(order[p].status)
<1>1. ASSUME NEW c \in Calls, NEW o \in Orders, NEW f \in Offers,
             NEW q \in 1..Total[f], Reserve(c, f, q, o)
      PROVE  Goal
  <2>1. /\ order'[o].status = "HOLD" /\ order[o].status = "none"
        /\ \A p \in Orders \ {o} : order'[p] = order[p]
    BY <1>1, ReserveDoes DEF Reserve
  <2> QED BY <2>1, RowType DEF TypeInv, After, OrderStatus
<1>2. ASSUME NEW o \in Orders, Held(o), NEW status, NEW pay, Wrote(o, status, pay),
             status \in {"EXPIRED", "PENDING_PAYMENT", "CANCELLED_BY_USER", "PAID"}
      PROVE  Goal
  <2>1. status \in After(order[o].status)
    BY <1>2 DEF After, Held, OrderStatus
  <2> QED BY <1>2, <2>1, WroteAfter
<1>3. ASSUME NEW c \in Calls, NEW o \in Orders, NEW refund \in BOOLEAN,
             AdminCancelOrder(c, o, refund)
      PROVE  Goal
  <2>1. "CANCELLED_BY_ADMIN" \in After(order[o].status)
    BY <1>3 DEF After, AdminCancelOrder, OrderStatus
  <2> QED BY <1>3, <2>1, AdminCancelOrderDoes, WroteAfter
<1>4. ASSUME NEW c \in Calls, NEW o \in Orders, AdminCompleteOrder(c, o)
      PROVE  Goal
  <2>1. "COLLECTED" \in After(order[o].status)
    BY <1>4 DEF After, AdminCompleteOrder
  <2> QED BY <1>4, <2>1, AdminCompleteOrderDoes, WroteAfter
\* The order of an attempt at its last step is still held.
<1>5. ASSUME NEW c \in Calls, Finalizable(c)
      PROVE  call[c].order \in Orders /\ Held(call[c].order)
  BY <1>5 DEF Finalizable, Held, Paying, TypeInv, Wired, AttemptInv, AttemptRow, Released
<1>6. ASSUME NEW c \in Calls, StartCall(c)
      PROVE  Goal
  <2>1. ASSUME NEW o \in Orders, RestoreExpiredHold(c, o) PROVE Goal
    BY <1>2, <2>1, RestoreExpiredHoldDoes DEF RestoreExpiredHold
  <2>2. ASSUME NEW o \in Orders, PrepareReleases(c, o) PROVE Goal
    BY <2>2, SameAfter, PrepareReleasesDoes
  <2>3. ASSUME NEW o \in Orders, PrepareAttempt(c, o) PROVE Goal
    BY <1>2, <2>3, PrepareAttemptDoes DEF PrepareAttempt
  <2>4. ASSUME NEW o \in Orders, CancelReservation(c, o) PROVE Goal
    BY <1>2, <2>4, CancelReservationDoes DEF CancelReservation
  <2> QED BY <1>1, <1>3, <1>4, <1>6, <2>1, <2>2, <2>3, <2>4 DEF StartCall
<1>7. ASSUME NEW c \in Calls, ContinueCall(c) \/ RollBackAtLimit(c)
      PROVE  Goal
  <2>1. CASE FinalizeConfirmed(c)
    <3>1. Wrote(call[c].order, "PAID", "CONFIRMED") /\ Finalizable(c)
      BY <2>1, FinalizeConfirmedDoes DEF FinalizeConfirmed
    <3> QED BY <1>2, <1>5, <3>1
  <2>2. CASE FinalizePending(c)
    <3>1. Wrote(call[c].order, "PENDING_PAYMENT", "PROCESSING") /\ Finalizable(c)
      BY <2>2, FinalizePendingDoes DEF FinalizePending
    <3> QED BY <1>2, <1>5, <3>1
  <2>3. CASE FinalizeFailed(c)
    <3>1. Wrote(call[c].order, "PENDING_PAYMENT", "FAILED") /\ Finalizable(c)
      BY <2>3, FinalizeFailedDoes DEF FinalizeFailed
    <3> QED BY <1>2, <1>5, <3>1
  <2>4. CASE FinalizeReleases(c)
    <3>1. Wrote(call[c].order, "CANCELLED_BY_USER", "FAILED") /\ Finalizable(c)
      BY <2>4, FinalizeReleasesDoes DEF FinalizeReleases
    <3> QED BY <1>2, <1>5, <3>1
  <2>5. CASE UNCHANGED order
    BY <2>5, SameAfter
  <2> QED BY <1>7, <2>1, <2>2, <2>3, <2>4, <2>5
          DEF ContinueCall, ScheduleHoldExpiry, AcquireLock, LockDenied, PushAnswered,
              PushThrows, FinalizeClosed, FinalizeRollsBack, RollBackAtLimit, RollBack,
              ReleaseLock, CancelHoldExpiry, ClearReservationState
<1>8. ASSUME NEW c \in Calls, Crash(c)
      PROVE  Goal
  BY <1>8, SameAfter, CrashDoes
<1>9. ASSUME NEW o \in Orders, LockLapses(o) \/ HoldElapses(o) \/ Worker(o)
      PROVE  Goal
  <2>1. CASE HoldElapses(o)
    <3>1. order[o].status \in After(order[o].status)
      BY RowType DEF TypeInv, After, OrderStatus
    <3> QED BY <2>1, <3>1, HoldElapsesDoes, WroteAfter
  <2>2. CASE HandleHoldExpiry(o)
    BY <1>2, <2>2, SameAfter, HandleHoldExpiryDoes DEF Expirable
  <2>3. CASE LockLapses(o) \/ WorkerTakesJob(o) \/ WorkerClearsState(o)
    BY <2>3, SameAfter DEF LockLapses, WorkerTakesJob, WorkerClearsState
  <2> QED BY <1>9, <2>1, <2>2, <2>3 DEF Worker
<1>10. CASE UNCHANGED vars
  BY <1>10, SameAfter DEF vars
<1> QED BY <1>6, <1>7, <1>8, <1>9, <1>10 DEF FaultyNext, Next

\* A late payment result, a second handler or the worker never reopens an
\* order that was cancelled, expired or collected, nor un-pays a paid one,
\* whatever crashes, lost locks and rolled-back transactions come between.
THEOREM ClosedStaysClosed == FaultySpec => ClosedIsFinal
<1>1. TypeInv /\ AttemptInv /\ [FaultyNext]_vars
         => [\A o \in Orders : order'[o].status \in After(order[o].status)]_vars
  BY StatusStep
<1> QED BY <1>1, TypeInvInit, TypeInvNext, AttemptInvInit, AttemptInvNext, PTL
        DEF FaultySpec, ClosedIsFinal

----------------------------------------------------------------------------
(* The attempt limit and the clean-up, in the system without the fault. *)

\* A call that cleans up, or is about to, has an order that holds no stock.
Closing ==
    /\ CleanUpMeansClosed
    /\ \A c \in Calls :
          call[c].pc = "unlock" /\ call[c].answer \in {"CONFIRMED", "RELEASED"}
              => ~Held(call[c].order)

\* An order that does not exist has made no attempt.
FreshRetries == \A o \in Orders : order[o].status = "none" => retries[o] = 0

LimitInv == LimitReleasesHold /\ FreshRetries /\ Closing

LEMMA LimitInvInit == Init => LimitInv
BY ReservationsAssumption
   DEF Init, LimitInv, LimitReleasesHold, FreshRetries, Closing, CleanUpMeansClosed,
       Held, NoRow, Idle

\* Held in the next state.
HeldNext(o) == order'[o].status \in {"HOLD", "PENDING_PAYMENT"}

\* What no step brings back: a hold that ended, an order that does not exist.
LEMMA ClosedStep ==
    ASSUME TypeInv, AttemptInv, [FaultyNext]_vars, NEW o \in Orders
    PROVE  /\ HeldNext(o) => Held(o) \/ order[o].status = "none"
           /\ order'[o].status = "none" => order[o].status = "none"
BY StatusStep, RowType DEF TypeInv, Held, HeldNext, After, OrderStatus

\* A counter falls, or stays below the limit while its order holds stock.
CountsBelow ==
    \A o \in Orders :
        \/ retries'[o] <= retries[o]
        \/ order[o].status # "none" /\ (HeldNext(o) => retries'[o] < MaxFailedAttempts)

LEMMA LimitPart ==
    ASSUME TypeInv, TypeInv', AttemptInv, LimitInv, [FaultyNext]_vars, CountsBelow
    PROVE  LimitReleasesHold' /\ FreshRetries'
<1>1. MaxFailedAttempts \in Nat \ {0}
  BY ReservationsAssumption
<1>2. \A o \in Orders : retries[o] \in Nat /\ retries'[o] \in Nat
  BY DEF TypeInv, TypeOK
<1>3. ASSUME NEW o \in Orders, HeldNext(o)
      PROVE  retries'[o] < MaxFailedAttempts
  <2>1. CASE retries'[o] <= retries[o]
    <3>1. Held(o) \/ order[o].status = "none"
      BY <1>3, ClosedStep
    <3>2. retries[o] < MaxFailedAttempts
      BY <1>1, <3>1 DEF LimitInv, LimitReleasesHold, FreshRetries
    <3> QED BY <1>1, <1>2, <2>1, <3>2
  <2> QED BY <1>3, <2>1 DEF CountsBelow
<1>4. ASSUME NEW o \in Orders, order'[o].status = "none"
      PROVE  retries'[o] = 0
  <2>1. order[o].status = "none"
    BY <1>4, ClosedStep
  <2>2. retries[o] = 0 /\ retries'[o] <= retries[o]
    BY <2>1 DEF LimitInv, FreshRetries, CountsBelow
  <2> QED BY <1>2, <2>2
<1> QED BY <1>3, <1>4 DEF LimitReleasesHold, FreshRetries, Held, HeldNext

\* An attempt at its last step has an order that still holds stock.
LEMMA FinalizableHeld ==
    ASSUME TypeInv, AttemptInv, NEW c \in Calls, Finalizable(c)
    PROVE  call[c].order \in Orders /\ Held(call[c].order)
BY DEF Finalizable, Held, Paying, TypeInv, Wired, AttemptInv, AttemptRow, Released

LEMMA CountFailureBelow ==
    ASSUME TypeInv, AttemptInv, NEW c \in Calls, Finalizable(c), CountFailure(c),
           \/ ~ReachesLimit(c)
           \/ ~HeldNext(call[c].order)
    PROVE  CountsBelow
<1> DEFINE o == call[c].order
<1>1. o \in Orders /\ order[o].status # "none"
  BY FinalizableHeld DEF Held
<1>2. retries \in [Orders -> Nat] /\ MaxFailedAttempts \in Nat
  BY ReservationsAssumption DEF TypeInv, TypeOK
<1>3. /\ \A p \in Orders \ {o} : retries'[p] = retries[p]
      /\ retries'[o] = IF call[c].answer = "FAILED" THEN retries[o] + 1 ELSE retries[o]
  BY <1>1, <1>2 DEF CountFailure
<1>4. \A p \in Orders : retries[p] \in Nat
  BY <1>2
<1>5. \A p \in Orders \ {o} : retries'[p] <= retries[p]
  BY <1>3, <1>4
<1>6. CASE call[c].answer = "FAILED"
  <2>1. retries'[o] = retries[o] + 1
    BY <1>3, <1>6
  <2>2. HeldNext(o) => retries'[o] < MaxFailedAttempts
    BY <1>1, <1>2, <1>4, <1>6, <2>1 DEF ReachesLimit
  <2> QED BY <1>1, <1>5, <2>2 DEF CountsBelow
<1>7. CASE call[c].answer # "FAILED"
  BY <1>1, <1>3, <1>4, <1>5, <1>7 DEF CountsBelow
<1> QED BY <1>6, <1>7

LEMMA CountsSame == ASSUME TypeInv, UNCHANGED retries PROVE CountsBelow
BY DEF TypeInv, TypeOK, CountsBelow

LEMMA CountsReset ==
    ASSUME TypeInv, NEW o, retries' = [retries EXCEPT ![o] = 0] PROVE CountsBelow
BY DEF TypeInv, TypeOK, CountsBelow

LEMMA ClosingMoves ==
    ASSUME TypeInv, AttemptInv, LimitInv, [FaultyNext]_vars,
           NEW c \in Calls, NEW pc, NEW o, NEW answer, Moves(c, pc, o, answer),
           \/ pc \in {"cancelJob", "clearState"}
           \/ pc = "unlock" /\ answer \in {"CONFIRMED", "RELEASED"}
           => ~HeldNext(o)
    PROVE  Closing'
<1>1. ASSUME NEW d \in Calls,
             \/ call'[d].pc \in {"cancelJob", "clearState"}
             \/ call'[d].pc = "unlock" /\ call'[d].answer \in {"CONFIRMED", "RELEASED"}
      PROVE  ~HeldNext(call'[d].order)
  <2>1. CASE d = c
    BY <1>1, <2>1 DEF Moves
  <2>2. CASE d # c
    <3>1. call'[d] = call[d]
      BY <2>2 DEF Moves
    <3>2. /\ call[d].order \in Orders /\ order[call[d].order].status # "none"
          /\ ~Held(call[d].order)
      BY <1>1, <3>1 DEF LimitInv, Closing, CleanUpMeansClosed, TypeInv, Wired
    <3> QED BY <3>1, <3>2, ClosedStep
  <2> QED BY <2>1, <2>2
<1> QED BY <1>1 DEF Closing, CleanUpMeansClosed, Held, HeldNext

LEMMA ClosingSame ==
    ASSUME TypeInv, AttemptInv, LimitInv, [FaultyNext]_vars, UNCHANGED call
    PROVE  Closing'
<1>1. ASSUME NEW d \in Calls,
             \/ call[d].pc \in {"cancelJob", "clearState"}
             \/ call[d].pc = "unlock" /\ call[d].answer \in {"CONFIRMED", "RELEASED"}
      PROVE  ~HeldNext(call[d].order)
  <2>1. /\ call[d].order \in Orders /\ order[call[d].order].status # "none"
        /\ ~Held(call[d].order)
    BY <1>1 DEF LimitInv, Closing, CleanUpMeansClosed, TypeInv, Wired
  <2> QED BY <2>1, ClosedStep
<1> QED BY <1>1 DEF Closing, CleanUpMeansClosed, Held, HeldNext

LEMMA LimitInvNext ==
    TypeInv /\ AttemptInv /\ LimitInv /\ [Next]_vars => LimitInv'
<1> SUFFICES ASSUME TypeInv, AttemptInv, LimitInv, [Next]_vars PROVE LimitInv'
  OBVIOUS
<1>a. [FaultyNext]_vars
  BY DEF FaultyNext
<1>b. TypeInv'
  BY <1>a, TypeInvNext
<1>c. SUFFICES CountsBelow /\ Closing'
  BY <1>a, <1>b, LimitPart DEF LimitInv
<1>1. ASSUME NEW c \in Calls, StartCall(c) PROVE CountsBelow /\ Closing'
  <2>1. UNCHANGED retries
    BY <1>1 DEF StartCall, Reserve, RestoreExpiredHold, PrepareReleases, PrepareAttempt,
                CancelReservation, AdminCancelOrder, AdminCompleteOrder, redisVars
  <2>2. ASSUME NEW o \in Orders, NEW f \in Offers, NEW q \in 1..Total[f], Reserve(c, f, q, o)
        PROVE  Closing'
    <3>1. Moves(c, "schedule", o, "none")
      BY <2>2, ReserveDoes
    <3> QED BY <1>a, <3>1, ClosingMoves
  <2>3. ASSUME NEW o \in Orders, RestoreExpiredHold(c, o) PROVE Closing'
    <3>1. Moves(c, "cancelJob", o, "none") /\ ~HeldNext(o)
      BY <2>3, RestoreExpiredHoldDoes DEF Wrote, HeldNext
    <3> QED BY <1>a, <3>1, ClosingMoves
  <2>4. ASSUME NEW o \in Orders PROVE ~PrepareReleases(c, o)
    <3>1. Held(o) => retries[o] < MaxFailedAttempts
      BY DEF LimitInv, LimitReleasesHold
    <3>2. retries[o] \in Nat /\ MaxFailedAttempts \in Nat
      BY ReservationsAssumption DEF TypeInv, TypeOK
    <3> QED BY <3>1, <3>2 DEF PrepareReleases
  <2>5. ASSUME NEW o \in Orders, PrepareAttempt(c, o) PROVE Closing'
    <3>1. Moves(c, "acquire", o, "none")
      BY <2>5, PrepareAttemptDoes
    <3> QED BY <1>a, <3>1, ClosingMoves
  <2>6. ASSUME NEW o \in Orders, CancelReservation(c, o) PROVE Closing'
    <3>1. Moves(c, "cancelJob", o, "none") /\ ~HeldNext(o)
      BY <2>6, CancelReservationDoes DEF Wrote, HeldNext
    <3> QED BY <1>a, <3>1, ClosingMoves
  <2>7. ASSUME NEW o \in Orders, NEW refund \in BOOLEAN, AdminCancelOrder(c, o, refund)
        PROVE  Closing'
    <3>1. Moves(c, "cancelJob", o, "none") /\ ~HeldNext(o)
      BY <2>7, AdminCancelOrderDoes DEF Wrote, HeldNext
    <3> QED BY <1>a, <3>1, ClosingMoves
  <2>8. ASSUME NEW o \in Orders, AdminCompleteOrder(c, o) PROVE Closing'
    <3>1. Moves(c, "cancelJob", o, "none") /\ ~HeldNext(o)
      BY <2>8, AdminCompleteOrderDoes DEF Wrote, HeldNext
    <3> QED BY <1>a, <3>1, ClosingMoves
  <2>9. Closing'
    BY <1>1, <2>2, <2>3, <2>4, <2>5, <2>6, <2>7, <2>8 DEF StartCall
  <2> QED BY <2>1, <2>9, CountsSame
<1>2. ASSUME NEW c \in Calls, ContinueCall(c) PROVE CountsBelow /\ Closing'
  <2> DEFINE o == call[c].order
  <2>1. CASE ScheduleHoldExpiry(c)
    <3>1. Moves(c, "idle", NoOrder, "none")
      BY <2>1, ScheduleHoldExpiryDoes
    <3>2. CountsBelow
      BY <2>1, CountsSame, CountsReset DEF ScheduleHoldExpiry
    <3> QED BY <1>a, <3>1, <3>2, ClosingMoves
  <2>2. CASE AcquireLock(c)
    <3>1. Moves(c, "push", o, "none") /\ UNCHANGED retries
      BY <2>2, AcquireLockDoes DEF AcquireLock
    <3> QED BY <1>a, <3>1, ClosingMoves, CountsSame
  <2>3. CASE LockDenied(c)
    <3>1. Moves(c, "idle", NoOrder, "none") /\ UNCHANGED retries
      BY <2>3, LockDeniedDoes DEF LockDenied, redisVars
    <3> QED BY <1>a, <3>1, ClosingMoves, CountsSame
  <2>4. CASE PushAnswered(c)
    <3>1. UNCHANGED retries
      BY <2>4 DEF PushAnswered, redisVars
    <3>2. PICK answer \in Answers : Moves(c, "finalize", o, answer)
      BY <2>4, PushAnsweredDoes
    <3> QED BY <1>a, <3>1, <3>2, ClosingMoves, CountsSame
  <2>5. CASE PushThrows(c)
    <3>1. Moves(c, "unlock", o, "THROWN") /\ UNCHANGED retries
      BY <2>5, PushThrowsDoes DEF PushThrows, redisVars
    <3> QED BY <1>a, <3>1, ClosingMoves, CountsSame
  <2>6. CASE FinalizeClosed(c)
    <3>1. Moves(c, "unlock", o, call[c].answer) /\ UNCHANGED <<retries, order>>
      BY <2>6, FinalizeClosedDoes DEF FinalizeClosed, redisVars
    <3>2. ~HeldNext(o)
      BY <2>6, <3>1 DEF FinalizeClosed, Finalizable, HeldNext
    <3> QED BY <1>a, <3>1, <3>2, ClosingMoves, CountsSame
  <2>7. CASE FinalizeConfirmed(c)
    <3>1. /\ Moves(c, "unlock", o, "CONFIRMED") /\ UNCHANGED retries
          /\ Wrote(o, "PAID", "CONFIRMED")
      BY <2>7, FinalizeConfirmedDoes DEF FinalizeConfirmed, redisVars
    <3>2. ~HeldNext(o)
      BY <3>1 DEF Wrote, HeldNext
    <3> QED BY <1>a, <3>1, <3>2, ClosingMoves, CountsSame
  <2>8. CASE FinalizePending(c)
    <3>1. Moves(c, "unlock", o, "PROCESSING") /\ UNCHANGED retries
      BY <2>8, FinalizePendingDoes DEF FinalizePending, redisVars
    <3> QED BY <1>a, <3>1, ClosingMoves, CountsSame
  <2>9. CASE FinalizeFailed(c)
    <3>1. PICK answer \in {"FAILED", "TRANSPORT"} : Moves(c, "unlock", o, answer)
      BY <2>9, FinalizeFailedDoes
    <3>2. Closing'
      BY <1>a, <3>1, ClosingMoves
    <3>3. CountsBelow
      BY <2>9, CountFailureBelow DEF FinalizeFailed
    <3> QED BY <3>2, <3>3
  <2>10. CASE FinalizeReleases(c)
    <3>1. Moves(c, "unlock", o, "RELEASED") /\ Wrote(o, "CANCELLED_BY_USER", "FAILED")
      BY <2>10, FinalizeReleasesDoes
    <3>2. ~HeldNext(o)
      BY <3>1 DEF Wrote, HeldNext
    <3>3. CountsBelow
      BY <2>10, <3>2, CountFailureBelow DEF FinalizeReleases
    <3> QED BY <1>a, <3>1, <3>2, <3>3, ClosingMoves
  <2>11. CASE FinalizeRollsBack(c)
    <3>1. Moves(c, "unlock", o, "THROWN")
      BY <2>11, RollBackDoes DEF FinalizeRollsBack
    <3>2. Closing'
      BY <1>a, <3>1, ClosingMoves
    <3>3. CountsBelow
      BY <2>11, CountFailureBelow, CountsSame DEF FinalizeRollsBack, RollBack
    <3> QED BY <3>2, <3>3
  <2>12. CASE ReleaseLock(c)
    <3>1. UNCHANGED <<retries, order>> /\ call[c].pc = "unlock"
      BY <2>12 DEF ReleaseLock
    <3>2. CASE /\ call[c].answer \in {"CONFIRMED", "RELEASED"}
               /\ Moves(c, "cancelJob", o, "none")
      <4>1. ~HeldNext(o)
        BY <3>1, <3>2 DEF LimitInv, Closing, Held, HeldNext
      <4> QED BY <1>a, <3>1, <3>2, <4>1, ClosingMoves, CountsSame
    <3>3. CASE Moves(c, "idle", NoOrder, "none")
      BY <1>a, <3>1, <3>3, ClosingMoves, CountsSame
    <3> QED BY <2>12, <3>2, <3>3, ReleaseLockDoes
  <2>13. CASE CancelHoldExpiry(c)
    <3>1. UNCHANGED <<retries, order>> /\ call[c].pc = "cancelJob"
      BY <2>13 DEF CancelHoldExpiry
    <3>2. CASE Moves(c, "clearState", o, "none")
      <4>1. ~HeldNext(o)
        BY <3>1 DEF LimitInv, Closing, CleanUpMeansClosed, Held, HeldNext
      <4> QED BY <1>a, <3>1, <3>2, <4>1, ClosingMoves, CountsSame
    <3>3. CASE Moves(c, "idle", NoOrder, "none")
      BY <1>a, <3>1, <3>3, ClosingMoves, CountsSame
    <3> QED BY <2>13, <3>2, <3>3, CancelHoldExpiryDoes
  <2>14. CASE ClearReservationState(c)
    <3>1. Moves(c, "idle", NoOrder, "none") /\ retries' = [retries EXCEPT ![o] = 0]
      BY <2>14, ClearReservationStateDoes DEF ClearReservationState
    <3>2. CountsBelow
      BY <3>1, CountsReset
    <3> QED BY <1>a, <3>1, <3>2, ClosingMoves
  <2> QED BY <1>2, <2>1, <2>2, <2>3, <2>4, <2>5, <2>6, <2>7, <2>8, <2>9, <2>10,
             <2>11, <2>12, <2>13, <2>14 DEF ContinueCall
<1>3. ASSUME NEW c \in Calls, Crash(c) PROVE CountsBelow /\ Closing'
  <2>1. Moves(c, "idle", NoOrder, "none") /\ UNCHANGED retries
    BY <1>3, CrashDoes DEF Crash, redisVars
  <2> QED BY <1>a, <2>1, ClosingMoves, CountsSame
<1>4. ASSUME NEW o \in Orders, LockLapses(o) \/ HoldElapses(o) \/ Worker(o)
      PROVE  CountsBelow /\ Closing'
  <2>1. UNCHANGED call
    BY <1>4 DEF LockLapses, HoldElapses, Worker, WorkerTakesJob, HandleHoldExpiry,
                WorkerClearsState
  <2>2. UNCHANGED retries \/ retries' = [retries EXCEPT ![o] = 0]
    BY <1>4 DEF LockLapses, HoldElapses, Worker, WorkerTakesJob, HandleHoldExpiry,
                WorkerClearsState
  <2> QED BY <1>a, <2>1, <2>2, ClosingSame, CountsSame, CountsReset
<1>5. CASE UNCHANGED vars
  <2>1. UNCHANGED <<call, retries>>
    BY <1>5 DEF vars, redisVars
  <2> QED BY <1>a, <2>1, ClosingSame, CountsSame
<1> QED BY <1>1, <1>2, <1>3, <1>4, <1>5 DEF Next

\* No reservation outlives its last allowed failure.
THEOREM LimitEndsHold == Spec => []LimitReleasesHold
<1>1. [Next]_vars => [FaultyNext]_vars
  BY DEF FaultyNext
<1>2. LimitInv => LimitReleasesHold
  BY DEF LimitInv
<1> QED BY <1>1, <1>2, TypeInvInit, TypeInvNext, AttemptInvInit, AttemptInvNext,
           LimitInvInit, LimitInvNext, PTL DEF Spec

LEMMA JobStep ==
    ASSUME TypeInv, LimitInv, [Next]_vars, NEW o \in Orders,
           job[o] = "delayed", job'[o] = "none"
    PROVE  ~Held(o)
<1>1. job \in [Orders -> {"none", "delayed", "active", "clearing"}]
  BY DEF TypeInv, TypeOK
<1>2. ASSUME NEW c \in Calls, CancelHoldExpiry(c) PROVE ~Held(o)
  <2>1. call[c].order = o
    BY <1>1, <1>2 DEF CancelHoldExpiry
  <2> QED BY <1>2, <2>1 DEF CancelHoldExpiry, LimitInv, Closing, CleanUpMeansClosed
<1>3. ASSUME NEW c \in Calls, ScheduleHoldExpiry(c) PROVE FALSE
  BY <1>1, <1>3 DEF ScheduleHoldExpiry
<1>4. ASSUME NEW p \in Orders, Worker(p) PROVE FALSE
  BY <1>1, <1>4 DEF Worker, WorkerTakesJob, HandleHoldExpiry, WorkerClearsState
<1>5. CASE UNCHANGED job
  BY <1>5
<1>6. CASE \E c \in Calls : StartCall(c) \/ Crash(c)
  <2>1. UNCHANGED job
    BY <1>6 DEF StartCall, Reserve, RestoreExpiredHold, PrepareReleases, PrepareAttempt,
                CancelReservation, AdminCancelOrder, AdminCompleteOrder, Crash, redisVars
  <2> QED BY <1>5, <2>1
<1>7. ASSUME NEW c \in Calls, ContinueCall(c) PROVE ~Held(o)
  BY <1>2, <1>3, <1>5, <1>7
     DEF ContinueCall, AcquireLock, LockDenied, PushAnswered, PushThrows, FinalizeClosed,
         FinalizeConfirmed, FinalizePending, FinalizeFailed, FinalizeReleases,
         FinalizeRollsBack, RollBack, ReleaseLock, ClearReservationState, redisVars
<1>8. CASE \E p \in Orders : LockLapses(p) \/ HoldElapses(p)
  BY <1>5, <1>8 DEF LockLapses, HoldElapses
<1>9. CASE UNCHANGED vars
  BY <1>5, <1>9 DEF vars, redisVars
<1> QED BY <1>4, <1>6, <1>7, <1>8, <1>9 DEF Next

\* No handler removes the expiry job of an order that still holds stock.
THEOREM HoldKeepsJob == Spec => JobKeptWhileHeld
<1>1. [Next]_vars => [FaultyNext]_vars
  BY DEF FaultyNext
<1>2. TypeInv /\ LimitInv /\ [Next]_vars
         => [\A o \in Orders : job[o] = "delayed" /\ job'[o] = "none" => ~Held(o)]_vars
  BY JobStep
<1> QED BY <1>1, <1>2, TypeInvInit, TypeInvNext, AttemptInvInit, AttemptInvNext,
           LimitInvInit, LimitInvNext, PTL DEF Spec, JobKeptWhileHeld

----------------------------------------------------------------------------
(* The refinement.  LP is the ledger and the facts proved about it, read   *)
(* with the same substitution as Ledger.                                   *)

LP == INSTANCE StockLedgerProofs WITH
    available <- remaining,
    promised  <- reserved,
    stage     <- [o \in Orders |-> Stage(o)],
    offerOf   <- [o \in Orders |-> order[o].offer],
    qtyOf     <- [o \in Orders |-> order[o].qty]

LEMMA LedgerConstants == LP!LedgerAssumption
BY ReservationsAssumption DEF LP!LedgerAssumption, LP!IsFiniteSet, IsFiniteSet

\* The stage of a row, by its status.
StageOf(status) ==
    CASE status = "none" -> "none"
      [] status \in {"HOLD", "PENDING_PAYMENT"} -> "held"
      [] status = "PAID" -> "sold"
      [] status = "COLLECTED" -> "collected"
      [] OTHER -> "returned"

LEMMA StageByStatus ==
    ASSUME NEW o \in Orders
    PROVE  Stage(o) = StageOf(order[o].status) /\ Stage(o)' = StageOf(order'[o].status)
BY DEF Stage, StageOf, Held

\* The ledger's view of the order rows.
stages == [o \in Orders |-> Stage(o)]
offers == [o \in Orders |-> order[o].offer]
quantities == [o \in Orders |-> order[o].qty]

LEMMA ViewWrote ==
    ASSUME TypeInv, NEW o \in Orders, NEW status, NEW pay, Wrote(o, status, pay)
    PROVE  /\ stages' = [stages EXCEPT ![o] = StageOf(status)]
           /\ offers' = offers
           /\ quantities' = quantities
<1>1. \A p \in Orders : Stage(p) = StageOf(order[p].status)
  BY StageByStatus
<1>2. \A p \in Orders : Stage(p)' = StageOf(order'[p].status)
  BY StageByStatus
<1>3. stages' = [p \in Orders |-> StageOf(order'[p].status)]
  BY <1>2 DEF stages
<1>4. stages = [p \in Orders |-> StageOf(order[p].status)]
  BY <1>1 DEF stages
<1>5. stages' = [stages EXCEPT ![o] = StageOf(status)]
  BY <1>3, <1>4 DEF Wrote
<1>6. offers' = offers /\ quantities' = quantities
  BY DEF offers, quantities, Wrote
<1> QED BY <1>5, <1>6

\* A row that is written without changing its stage is not seen.
LEMMA ViewKept ==
    ASSUME TypeInv, NEW o \in Orders, NEW status, NEW pay, Wrote(o, status, pay),
           StageOf(status) = StageOf(order[o].status)
    PROVE  UNCHANGED <<stages, offers, quantities>>
<1>1. stages[o] = StageOf(status)
  BY StageByStatus DEF stages
<1>2. stages = [stages EXCEPT ![o] = StageOf(status)]
  BY <1>1 DEF stages
<1> QED BY <1>2, ViewWrote

LEMMA ViewSame ==
    ASSUME UNCHANGED order
    PROVE  UNCHANGED <<stages, offers, quantities>>
BY DEF stages, offers, quantities, Stage, Held

LEMMA HeldStage == ASSUME NEW o \in Orders, Held(o) PROVE stages[o] = "held"
BY DEF stages, Stage, Held

\* What a held order holds is within quantity_reserved: the clamp is exact.
LEMMA HeldQuantity ==
    ASSUME TypeInv, LP!LedgerInv, NEW o \in Orders, Held(o)
    PROVE  /\ order[o].offer \in Offers
           /\ Monus(reserved[order[o].offer], order[o].qty)
                = reserved[order[o].offer] - order[o].qty
<1>1. offers[o] \in Offers /\ quantities[o] \in Nat /\ quantities[o] <= reserved[offers[o]]
  BY HeldStage, LedgerConstants, LP!HeldWithin DEF stages, offers, quantities
<1>2. offers[o] = order[o].offer /\ quantities[o] = order[o].qty
  BY DEF offers, quantities
<1>3. reserved[order[o].offer] \in Nat
  BY <1>1, <1>2 DEF TypeInv, TypeOK
<1> QED BY <1>1, <1>2, <1>3 DEF Monus

LEMMA RefinementInit == Init => LP!Init
<1> SUFFICES ASSUME Init PROVE LP!Init
  OBVIOUS
<1>1. \A o \in Orders : order[o] = NoRow
  BY DEF Init
<1>2. \A o \in Orders : /\ Stage(o) = "none"
                         /\ order[o].offer = NoOffer /\ order[o].qty = 0
  BY <1>1, StageByStatus DEF StageOf, NoRow
<1>3. /\ stages = [o \in Orders |-> "none"]
      /\ offers = [o \in Orders |-> NoOffer]
      /\ quantities = [o \in Orders |-> 0]
  BY <1>2 DEF stages, offers, quantities
<1>4. remaining = Total /\ reserved = [f \in Offers |-> 0]
  BY DEF Init
<1> QED BY <1>3, <1>4 DEF LP!Init, stages, offers, quantities

----------------------------------------------------------------------------
(* Each ledger action, from what the rows and the columns do. *)

LEMMA HoldView ==
    ASSUME NEW o \in Orders, NEW f \in Offers, NEW q \in 1..remaining[f],
           stages[o] = "none",
           stages' = [stages EXCEPT ![o] = "held"],
           offers' = [offers EXCEPT ![o] = f],
           quantities' = [quantities EXCEPT ![o] = q],
           remaining' = [remaining EXCEPT ![f] = @ - q],
           reserved' = [reserved EXCEPT ![f] = @ + q]
    PROVE  LP!Next
BY DEF LP!Next, LP!Hold, stages, offers, quantities

LEMMA SellView ==
    ASSUME NEW o \in Orders, stages[o] = "held",
           stages' = [stages EXCEPT ![o] = "sold"],
           reserved' = [reserved EXCEPT ![offers[o]] = @ - quantities[o]],
           UNCHANGED <<remaining, offers, quantities>>
    PROVE  LP!Next
BY DEF LP!Next, LP!Sell, stages, offers, quantities

LEMMA ReleaseView ==
    ASSUME NEW o \in Orders, stages[o] = "held",
           stages' = [stages EXCEPT ![o] = "returned"],
           remaining' = [remaining EXCEPT ![offers[o]] = @ + quantities[o]],
           reserved' = [reserved EXCEPT ![offers[o]] = @ - quantities[o]],
           UNCHANGED <<offers, quantities>>
    PROVE  LP!Next
BY DEF LP!Next, LP!Release, stages, offers, quantities

LEMMA TakeBackView ==
    ASSUME NEW o \in Orders, stages[o] = "sold",
           stages' = [stages EXCEPT ![o] = "returned"],
           remaining' = [remaining EXCEPT ![offers[o]] = @ + quantities[o]],
           UNCHANGED <<reserved, offers, quantities>>
    PROVE  LP!Next
BY DEF LP!Next, LP!TakeBack, stages, offers, quantities

LEMMA HandOverView ==
    ASSUME NEW o \in Orders, stages[o] = "sold",
           stages' = [stages EXCEPT ![o] = "collected"],
           UNCHANGED <<remaining, reserved, offers, quantities>>
    PROVE  LP!Next
BY DEF LP!Next, LP!HandOver, stages, offers, quantities

LEMMA StutterView ==
    ASSUME UNCHANGED <<remaining, reserved, stages, offers, quantities>>
    PROVE  UNCHANGED LP!ledgerVars
BY DEF LP!ledgerVars, stages, offers, quantities

\* restoreOfferQuantity together with a row that ends its hold is a release.
LEMMA EndedHoldReleases ==
    ASSUME TypeInv, LP!LedgerInv, NEW o \in Orders, Held(o), RestoreOfferQuantity(o),
           NEW status \in Released \cup {"CANCELLED_BY_ADMIN"}, NEW pay,
           Wrote(o, status, pay)
    PROVE  LP!Next
<1>1. StageOf(status) = "returned"
  BY DEF StageOf, Released
<1>2. /\ stages' = [stages EXCEPT ![o] = "returned"]
      /\ UNCHANGED <<offers, quantities>>
  BY <1>1, ViewWrote
<1>3. offers[o] = order[o].offer /\ quantities[o] = order[o].qty
  BY DEF offers, quantities
<1>4. remaining' = [remaining EXCEPT ![offers[o]] = @ + quantities[o]]
  BY <1>3 DEF RestoreOfferQuantity
<1>5. reserved' = [reserved EXCEPT ![offers[o]] = @ - quantities[o]]
  BY <1>3, HeldQuantity DEF RestoreOfferQuantity
<1> QED BY <1>2, <1>4, <1>5, HeldStage, ReleaseView

LEMMA RefinementNext ==
    ASSUME TypeInv, AttemptInv, LimitInv, LP!LedgerInv, [Next]_vars
    PROVE  [LP!Next]_(LP!ledgerVars)
<1> DEFINE Goal == LP!Next \/ UNCHANGED LP!ledgerVars
<1>0. SUFFICES Goal
  OBVIOUS
<1>1. ASSUME NEW c \in Calls, NEW o \in Orders, NEW f \in Offers,
             NEW q \in 1..Total[f], Reserve(c, f, q, o)
      PROVE  Goal
  <2>1. /\ q <= remaining[f]
        /\ remaining' = [remaining EXCEPT ![f] = @ - q]
        /\ reserved' = [reserved EXCEPT ![f] = @ + q]
    BY <1>1 DEF Reserve
  <2>2. /\ order'[o].status = "HOLD"
        /\ order'[o].offer = f
        /\ order'[o].qty = q
        /\ \A p \in Orders \ {o} : order'[p] = order[p]
    BY <1>1, ReserveDoes
  <2>3. \A p \in Orders : Stage(p) = StageOf(order[p].status) /\ Stage(p)' = StageOf(order'[p].status)
    BY StageByStatus
  <2>4. stages[o] = "none" /\ stages' = [stages EXCEPT ![o] = "held"]
    <3>1. stages[o] = "none"
      BY <1>1, <2>3 DEF Reserve, stages, StageOf
    <3>2. Stage(o)' = "held" /\ \A p \in Orders \ {o} : Stage(p)' = Stage(p)
      BY <2>2, <2>3 DEF StageOf
    <3> QED BY <3>1, <3>2 DEF stages
  <2>5. offers' = [offers EXCEPT ![o] = f] /\ quantities' = [quantities EXCEPT ![o] = q]
    BY <2>2 DEF offers, quantities
  <2>6. q \in 1..remaining[f]
    <3>1. Total[f] \in Nat /\ remaining[f] \in Nat
      BY ReservationsAssumption DEF TypeInv, TypeOK
    <3> QED BY <2>1, <3>1
  <2> QED BY <2>1, <2>4, <2>5, <2>6, HoldView
<1>2. ASSUME NEW c \in Calls, NEW o \in Orders, RestoreExpiredHold(c, o)
      PROVE  Goal
  <2>1. Held(o) /\ RestoreOfferQuantity(o) /\ Wrote(o, "EXPIRED", order[o].pay)
    BY <1>2, RestoreExpiredHoldDoes DEF RestoreExpiredHold
  <2> QED BY <2>1, EndedHoldReleases DEF Released
<1>3. ASSUME NEW c \in Calls, NEW o \in Orders, PrepareReleases(c, o)
      PROVE  Goal
  <2>1. Held(o) => retries[o] < MaxFailedAttempts
    BY DEF LimitInv, LimitReleasesHold
  <2>2. retries[o] \in Nat /\ MaxFailedAttempts \in Nat
    BY ReservationsAssumption DEF TypeInv, TypeOK
  <2> QED BY <1>3, <2>1, <2>2 DEF PrepareReleases
\* A write that keeps a held order held is not seen by the ledger.
<1>s. ASSUME NEW o \in Orders, Held(o), NEW pay, Wrote(o, "PENDING_PAYMENT", pay),
             UNCHANGED <<remaining, reserved>>
      PROVE  Goal
  <2>1. StageOf("PENDING_PAYMENT") = StageOf(order[o].status)
    BY <1>s DEF StageOf, Held
  <2> QED BY <1>s, <2>1, ViewKept, StutterView
\* A step that writes no row and no column is a stutter.
<1>u. ASSUME UNCHANGED <<order, remaining, reserved>>
      PROVE  Goal
  BY <1>u, ViewSame, StutterView
<1>4. ASSUME NEW c \in Calls, NEW o \in Orders, PrepareAttempt(c, o)
      PROVE  Goal
  BY <1>4, <1>s, PrepareAttemptDoes DEF PrepareAttempt, offerVars
<1>5. ASSUME NEW c \in Calls, NEW o \in Orders, CancelReservation(c, o)
      PROVE  Goal
  <2>1. Held(o) /\ RestoreOfferQuantity(o) /\ Wrote(o, "CANCELLED_BY_USER", order[o].pay)
    BY <1>5, CancelReservationDoes DEF CancelReservation
  <2> QED BY <2>1, EndedHoldReleases DEF Released
<1>6. ASSUME NEW c \in Calls, NEW o \in Orders, NEW refund \in BOOLEAN,
             AdminCancelOrder(c, o, refund)
      PROVE  Goal
  <2>1. PICK pay : Wrote(o, "CANCELLED_BY_ADMIN", pay)
    BY <1>6, AdminCancelOrderDoes
  <2>2. CASE Held(o)
    <3>1. RestoreOfferQuantity(o)
      BY <1>6, <2>2 DEF AdminCancelOrder
    <3> QED BY <2>1, <2>2, <3>1, EndedHoldReleases
  <2>3. CASE ~Held(o)
    <3>1. order[o].status = "PAID"
      BY <1>6, <2>3 DEF AdminCancelOrder, Held
    <3>2. stages[o] = "sold" /\ offers[o] = order[o].offer /\ quantities[o] = order[o].qty
      BY <3>1, StageByStatus DEF stages, offers, quantities, StageOf
    <3>3. stages' = [stages EXCEPT ![o] = "returned"] /\ UNCHANGED <<offers, quantities>>
      BY <2>1, ViewWrote DEF StageOf
    <3>4. remaining' = [remaining EXCEPT ![offers[o]] = @ + quantities[o]] /\ UNCHANGED reserved
      BY <1>6, <2>3, <3>2 DEF AdminCancelOrder
    <3> QED BY <3>2, <3>3, <3>4, TakeBackView
  <2> QED BY <2>2, <2>3
<1>7. ASSUME NEW c \in Calls, NEW o \in Orders, AdminCompleteOrder(c, o)
      PROVE  Goal
  <2>1. order[o].status = "PAID" /\ Wrote(o, "COLLECTED", order[o].pay)
    BY <1>7, AdminCompleteOrderDoes DEF AdminCompleteOrder
  <2>2. stages[o] = "sold"
    BY <2>1, StageByStatus DEF stages, StageOf
  <2>3. stages' = [stages EXCEPT ![o] = "collected"] /\ UNCHANGED <<offers, quantities>>
    BY <2>1, ViewWrote DEF StageOf
  <2>4. UNCHANGED <<remaining, reserved>>
    BY <1>7 DEF AdminCompleteOrder, offerVars
  <2> QED BY <2>2, <2>3, <2>4, HandOverView
<1>8. ASSUME NEW c \in Calls, ContinueCall(c)
      PROVE  Goal
  <2> DEFINE o == call[c].order
  <2>1. CASE FinalizeConfirmed(c)
    <3>1. o \in Orders /\ Held(o)
      BY <2>1, FinalizableHeld DEF FinalizeConfirmed
    <3>2. Wrote(o, "PAID", "CONFIRMED")
      BY <2>1, FinalizeConfirmedDoes
    <3>3. stages' = [stages EXCEPT ![o] = "sold"] /\ UNCHANGED <<offers, quantities>>
      <4> HIDE DEF o
      <4> QED BY <3>1, <3>2, ViewWrote DEF StageOf
    <3>4. offers[o] = order[o].offer /\ quantities[o] = order[o].qty
      BY <3>1 DEF offers, quantities
    <3>5. /\ reserved' = [reserved EXCEPT ![offers[o]] = @ - quantities[o]]
          /\ UNCHANGED remaining
      BY <2>1, <3>1, <3>4, HeldQuantity DEF FinalizeConfirmed
    <3> HIDE DEF o
    <3> QED BY <3>1, <3>3, <3>5, HeldStage, SellView
  <2>2. CASE FinalizePending(c)
    <3>1. /\ o \in Orders /\ Held(o) /\ Wrote(o, "PENDING_PAYMENT", "PROCESSING")
          /\ UNCHANGED <<remaining, reserved>>
      BY <2>2, FinalizableHeld, FinalizePendingDoes DEF FinalizePending, offerVars
    <3> HIDE DEF o
    <3> QED BY <1>s, <3>1
  <2>3. CASE FinalizeFailed(c)
    <3>1. /\ o \in Orders /\ Held(o) /\ Wrote(o, "PENDING_PAYMENT", "FAILED")
          /\ UNCHANGED <<remaining, reserved>>
      BY <2>3, FinalizableHeld, FinalizeFailedDoes DEF FinalizeFailed, offerVars
    <3> HIDE DEF o
    <3> QED BY <1>s, <3>1
  <2>4. CASE FinalizeReleases(c)
    <3>1. /\ o \in Orders /\ Held(o) /\ Wrote(o, "CANCELLED_BY_USER", "FAILED")
          /\ RestoreOfferQuantity(o)
      BY <2>4, FinalizableHeld, FinalizeReleasesDoes DEF FinalizeReleases
    <3> HIDE DEF o
    <3> QED BY <3>1, EndedHoldReleases DEF Released
  <2>5. CASE UNCHANGED <<order, remaining, reserved>>
    BY <1>u, <2>5
  <2> QED BY <1>8, <2>1, <2>2, <2>3, <2>4, <2>5
          DEF ContinueCall, ScheduleHoldExpiry, AcquireLock, LockDenied, PushAnswered,
              PushThrows, FinalizeClosed, FinalizeRollsBack, RollBack, ReleaseLock,
              CancelHoldExpiry, ClearReservationState, offerVars
<1>9. ASSUME NEW c \in Calls, Crash(c)
      PROVE  Goal
  BY <1>9, <1>u DEF Crash, offerVars
<1>10. ASSUME NEW o \in Orders, LockLapses(o) \/ HoldElapses(o) \/ Worker(o)
       PROVE  Goal
  <2>1. CASE HoldElapses(o)
    <3>1. Wrote(o, order[o].status, order[o].pay) /\ UNCHANGED <<remaining, reserved>>
      BY <2>1, HoldElapsesDoes DEF HoldElapses, offerVars
    <3> QED BY <3>1, ViewKept, StutterView
  <2>2. CASE HandleHoldExpiry(o) /\ Expirable(o)
    <3>1. Held(o) /\ RestoreOfferQuantity(o) /\ EndHold(o, "EXPIRED", order[o].pay)
      BY <2>2 DEF HandleHoldExpiry, Expirable
    <3>2. Wrote(o, "EXPIRED", order[o].pay)
      BY <3>1, EndHoldWrote, RowType DEF TypeInv, OrderStatus
    <3> QED BY <3>1, <3>2, EndedHoldReleases DEF Released
  <2>3. CASE HandleHoldExpiry(o) /\ ~Expirable(o)
    BY <1>u, <2>3 DEF HandleHoldExpiry, offerVars
  <2>4. CASE LockLapses(o) \/ WorkerTakesJob(o) \/ WorkerClearsState(o)
    BY <1>u, <2>4 DEF LockLapses, WorkerTakesJob, WorkerClearsState, offerVars
  <2> QED BY <1>10, <2>1, <2>2, <2>3, <2>4 DEF Worker
<1>11. CASE UNCHANGED vars
  BY <1>11, <1>u DEF vars, offerVars
<1> QED BY <1>1, <1>2, <1>3, <1>4, <1>5, <1>6, <1>7, <1>8, <1>9, <1>10, <1>11
        DEF Next, StartCall

----------------------------------------------------------------------------
RefinementInv == TypeInv /\ AttemptInv /\ LimitInv /\ LP!LedgerInv

LEMMA RefinementInvInit == Init => RefinementInv
<1> SUFFICES ASSUME Init PROVE RefinementInv
  OBVIOUS
<1>1. LP!LedgerInv
  BY RefinementInit, LedgerConstants, LP!LedgerInvInit
<1> QED BY <1>1, TypeInvInit, AttemptInvInit, LimitInvInit DEF RefinementInv

LEMMA RefinementInvNext == RefinementInv /\ [Next]_vars => RefinementInv'
<1> SUFFICES ASSUME RefinementInv, [Next]_vars PROVE RefinementInv'
  OBVIOUS
<1> USE DEF RefinementInv
<1>1. [FaultyNext]_vars
  BY DEF FaultyNext
<1>2. [LP!Next]_(LP!ledgerVars)
  BY RefinementNext
<1>3. LP!LedgerInv'
  BY <1>2, LedgerConstants, LP!LedgerInvNext
<1> QED BY <1>1, <1>3, TypeInvNext, AttemptInvNext, LimitInvNext

LEMMA SameLedger ==
    /\ LP!Init => Ledger!Init
    /\ [LP!Next]_(LP!ledgerVars) => [Ledger!Next]_(Ledger!ledgerVars)
    /\ LP!LedgerInv => Ledger!PromisedMatchesHolds /\ Ledger!StockConserved
<1>1. LP!Init => Ledger!Init
  BY DEF LP!Init, Ledger!Init
<1>2. LP!Next => Ledger!Next
  BY DEF LP!Next, LP!Hold, LP!Sell, LP!Release, LP!TakeBack, LP!HandOver,
         Ledger!Next, Ledger!Hold, Ledger!Sell, Ledger!Release, Ledger!TakeBack,
         Ledger!HandOver
<1>3. LP!ledgerVars = Ledger!ledgerVars /\ LP!ledgerVars' = Ledger!ledgerVars'
  BY DEF LP!ledgerVars, Ledger!ledgerVars
<1>4. LP!LedgerInv => Ledger!PromisedMatchesHolds /\ Ledger!StockConserved
  BY DEF LP!LedgerInv, LP!PromisedMatchesHolds, LP!StockConserved, LP!Quantity,
         LP!OrdersIn, LP!Units, LP!Cardinality,
         Ledger!PromisedMatchesHolds, Ledger!StockConserved, Ledger!Quantity,
         Ledger!OrdersIn, Ledger!Units, Ledger!Cardinality
<1> QED BY <1>1, <1>2, <1>3, <1>4

\* The handlers, their crashes and the worker move stock only as the ledger
\* allows, for every instance of the system.
THEOREM CoreImplementsLedger == Spec => ImplementsLedger
<1>1. Init => Ledger!Init
  BY RefinementInit, SameLedger
<1>2. RefinementInv /\ [Next]_vars => [Ledger!Next]_(Ledger!ledgerVars)
  BY RefinementNext, SameLedger DEF RefinementInv
<1> QED BY <1>1, <1>2, RefinementInvInit, RefinementInvNext, PTL
        DEF Spec, ImplementsLedger, Ledger!Spec

\* quantity_reserved is what the running holds add up to: the clamp of
\* restoreOfferQuantity never hides a second release.
THEOREM ReservedIsExact == Spec => []ReservedMatchesHolds
<1>1. RefinementInv => ReservedMatchesHolds
  BY SameLedger DEF RefinementInv, ReservedMatchesHolds
<1> QED BY <1>1, RefinementInvInit, RefinementInvNext, PTL DEF Spec

\* No offer is oversold and none of its units is lost.
THEOREM StockIsConserved == Spec => []StockConserved
<1>1. RefinementInv => StockConserved
  BY SameLedger DEF RefinementInv, StockConserved
<1> QED BY <1>1, RefinementInvInit, RefinementInvNext, PTL DEF Spec
=============================================================================
