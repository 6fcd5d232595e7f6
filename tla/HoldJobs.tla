-------------------------------- MODULE HoldJobs --------------------------------
(***************************************************************************)
(* The life of one order's hold-expiry job: OrderHoldsQueueService, the    *)
(* worker that runs handleHoldExpiry, and what BullMQ does with the job    *)
(* when an attempt throws or its worker dies.                              *)
(*                                                                         *)
(* Reservations.tla has the race of this handler with the others and lets  *)
(* the job run at most once the hold has elapsed.  Here the job may run on *)
(* an instance whose clock is behind the one that scheduled it: the hold   *)
(* still looks active, the handler schedules the job again, removes its    *)
(* own active job for that, and BullMQ refuses.  Time is the time since    *)
(* the hold's end, in units of the configured back-off (60 s).             *)
(***************************************************************************)
EXTENDS Integers, FiniteSets

CONSTANTS Attempts,  \* queues.orderHolds.attempts, at most 4
          MaxLag,    \* bound: units by which the worker's clock may be behind
          MaxErrors  \* bound: throws of the database or of Redis

VARIABLES
    held,      \* the order is HOLD or PENDING_PAYMENT and not CONFIRMED
    holdJob,   \* the BullMQ job
    lag        \* how far the worker's clock is behind

holdVars == <<held, holdJob, lag>>

----------------------------------------------------------------------------
(* failures: attempts that threw; errors: those not thrown by the job's    *)
(* own removal; stalls: attempts whose worker died.                        *)
NoJob == [state |-> "none", failures |-> 0, errors |-> 0, stalls |-> 0]

TypeOK ==
    /\ held \in BOOLEAN
    /\ holdJob \in [state: {"none", "delayed", "active", "clearing", "completed", "failed"},
                    failures: 0..Attempts, errors: 0..MaxErrors, stalls: 0..2]
    /\ lag \in 0..MaxLag

Init ==
    /\ held = TRUE
    /\ holdJob = NoJob
    /\ lag \in 0..MaxLag

\* When the next attempt starts: exponential back-off of 1, 2, 4 units.
Elapsed(failures) == <<0, 1, 3, 7>>[failures + 1]

\* Mutant: one attempt too many.
ThrownOnceMore(job) ==
    LET n == job.failures + 1 IN
    [job EXCEPT !.failures = n, !.state = IF n > Attempts THEN "failed" ELSE "delayed"]

\* BullMQ: an attempt that throws is tried again, the last one leaves the job failed.
Thrown(job) ==
    LET n == job.failures + 1 IN
    [job EXCEPT !.failures = n, !.state = IF n = Attempts THEN "failed" ELSE "delayed"]

----------------------------------------------------------------------------
\* reserve committed, then scheduleHoldExpiry; a process that dies before leaves no job.
ScheduleHoldExpiry ==
    /\ holdJob.state = "none"
    /\ held
    /\ holdJob' = [NoJob EXCEPT !.state = "delayed"]
    /\ UNCHANGED <<held, lag>>

TakeJob ==
    /\ holdJob.state = "delayed"
    /\ holdJob' = [holdJob EXCEPT !.state = "active"]
    /\ UNCHANGED <<held, lag>>

\* Mutant: a hold that is still active ends the job instead.
RunEarlyCompleting ==
    /\ holdJob.state = "active"
    /\ held
    /\ lag > Elapsed(holdJob.failures)
    /\ holdJob' = [holdJob EXCEPT !.state = "completed"]
    /\ UNCHANGED <<held, lag>>

\* The hold is still active by this clock: scheduleHoldExpiry finds the job
\* existing and removes it, which throws while the job is locked by this worker.
RunEarly ==
    /\ holdJob.state = "active"
    /\ held
    /\ lag > Elapsed(holdJob.failures)
    /\ holdJob' = Thrown(holdJob)
    /\ UNCHANGED <<held, lag>>

\* The transaction that expires the order and restores the offer's quantity.
ExpireOrder ==
    /\ holdJob.state = "active"
    /\ held
    /\ lag <= Elapsed(holdJob.failures)
    /\ held' = FALSE
    /\ holdJob' = [holdJob EXCEPT !.state = "clearing"]
    /\ UNCHANGED lag

\* The order was closed by another handler, or by an earlier attempt of this job.
SkipOrder ==
    /\ holdJob.state = "active"
    /\ ~held
    /\ holdJob' = [holdJob EXCEPT !.state = "clearing"]
    /\ UNCHANGED <<held, lag>>

\* clearReservationState, and the handler returns.
ClearState ==
    /\ holdJob.state = "clearing"
    /\ holdJob' = [holdJob EXCEPT !.state = "completed"]
    /\ UNCHANGED <<held, lag>>

----------------------------------------------------------------------------
Running == holdJob.state \in {"active", "clearing"}

\* The transaction or the Redis call throws.
JobError ==
    /\ Running
    /\ holdJob.errors < MaxErrors
    /\ holdJob' = [Thrown(holdJob) EXCEPT !.errors = @ + 1]
    /\ UNCHANGED <<held, lag>>

\* The worker dies; BullMQ hands a stalled job out once more, the second time it fails.
WorkerDies ==
    /\ Running
    /\ holdJob' = [holdJob EXCEPT !.stalls = @ + 1,
                                  !.state = IF holdJob.stalls = 0 THEN "delayed" ELSE "failed"]
    /\ UNCHANGED <<held, lag>>

\* markPaid, cancelReservation or an admin closes the order ...
CloseOrder ==
    /\ held
    /\ held' = FALSE
    /\ UNCHANGED <<holdJob, lag>>

\* ... and cancelHoldExpiry removes the job, unless a worker has it locked: then it throws.
CancelHoldExpiry ==
    /\ ~held
    /\ ~Running
    /\ holdJob' = NoJob
    /\ UNCHANGED <<held, lag>>

----------------------------------------------------------------------------
HandleHoldExpiry == RunEarly \/ ExpireOrder \/ SkipOrder \/ ClearState

Next ==
    \/ ScheduleHoldExpiry \/ TakeJob \/ HandleHoldExpiry
    \/ JobError \/ WorkerDies \/ CloseOrder \/ CancelHoldExpiry

\* A worker is connected: it takes the job when it is due and runs it to an end.
Fairness == WF_holdVars(TakeJob) /\ WF_holdVars(HandleHoldExpiry)

Spec == Init /\ [][Next]_holdVars /\ Fairness

----------------------------------------------------------------------------
\* The attempts that start late enough for a clock this far behind.
LateEnough == {k \in 0..Attempts - 1 : lag <= Elapsed(k)}

\* BullMQ gave the job up: two workers died on it, or every attempt that could
\* have expired the order met an error of its own.
GivenUp ==
    /\ holdJob.state = "failed"
    /\ holdJob.stalls = 2 \/ holdJob.errors >= Cardinality(LateEnough)

\* A hold whose expiry job was queued ends, even where the worker's clock is so
\* far behind that the job undoes itself when it is early: only a job that was
\* given up, by deaths or errors at each attempt that was late enough, leaves it.
HoldJobEnds == holdJob.state # "none" ~> (~held \/ GivenUp)
=============================================================================
