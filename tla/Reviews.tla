-------------------------------- MODULE Reviews --------------------------------
(***************************************************************************)
(* The review of one order, ReviewsService.create, and the reminder that   *)
(* ReviewRemindersService queues when the order is collected.              *)
(*                                                                         *)
(* create looks at the order and for a review, inserts and then saves the  *)
(* order's flag: three statements without a transaction.  The one-to-one   *)
(* column reviews.order_id is unique.  The reminder job looks at the same  *)
(* rows, records a notification and then pushes to the user's devices; an  *)
(* attempt that throws is tried again from the start.                      *)
(***************************************************************************)
EXTENDS Integers, FiniteSets

CONSTANTS Calls,      \* review requests that may be in flight
          Attempts    \* queues.reviewReminders.attempts

VARIABLES
    collected,   \* the order is COLLECTED
    hasReviewed, \* Order.has_user_reviewed
    reviews,     \* rows of the reviews table with this order_id
    revCall,     \* where each request stands
    reminder,    \* the BullMQ job
    notices,     \* rows of the notifications table for this order
    pushes,      \* attempts of the job that reached a device
    broken,      \* history: attempts that threw or lost their worker as they pushed
    halfDone     \* history: a request ended between its insert and its save

reviewVars == <<collected, hasReviewed, reviews, revCall, reminder, notices, pushes, broken,
                halfDone>>
orderVars == <<collected, hasReviewed, reviews, revCall, halfDone>>
reminderVars == <<reminder, notices, pushes, broken>>

----------------------------------------------------------------------------
\* devices: the user has active devices with a push token, as this attempt read it.
NoJob == [state |-> "none", devices |-> FALSE, failures |-> 0, stalls |-> 0]

TypeOK ==
    /\ collected \in BOOLEAN /\ hasReviewed \in BOOLEAN
    /\ reviews \in Nat
    /\ revCall \in [Calls -> {"idle", "insert", "flag"}]
    /\ reminder \in [state: {"none", "delayed", "look", "record", "push", "completed", "failed"},
                     devices: BOOLEAN, failures: 0..Attempts, stalls: 0..2]
    /\ notices \in Nat /\ pushes \in Nat /\ broken \in Nat
    /\ halfDone \in BOOLEAN

Init ==
    /\ collected = FALSE /\ hasReviewed = FALSE /\ halfDone = FALSE
    /\ reviews = 0 /\ notices = 0 /\ pushes = 0 /\ broken = 0
    /\ revCall = [c \in Calls |-> "idle"]
    /\ reminder = NoJob

----------------------------------------------------------------------------
\* adminCompleteOrder, which then calls scheduleForCollectedOrder; the queue may
\* be disabled, or the process die before, and no job is left.
CompleteOrder ==
    /\ ~collected
    /\ collected' = TRUE
    /\ \E state \in {"none", "delayed"} : reminder' = [reminder EXCEPT !.state = state]
    /\ UNCHANGED <<hasReviewed, reviews, revCall, halfDone, notices, pushes, broken>>

\* create: the order is COLLECTED and has no review.
CheckOrder(c) ==
    /\ revCall[c] = "idle"
    /\ collected
    /\ reviews = 0
    /\ revCall' = [revCall EXCEPT ![c] = "insert"]
    /\ UNCHANGED <<collected, hasReviewed, reviews, halfDone, reminderVars>>

\* Mutant: reviews.order_id is not unique.
InsertReviewAgain(c) ==
    /\ revCall[c] = "insert"
    /\ reviews' = reviews + 1
    /\ revCall' = [revCall EXCEPT ![c] = "flag"]
    /\ UNCHANGED <<collected, hasReviewed, halfDone, reminderVars>>

\* The unique column refuses a second review; that request ends (AbandonReview).
InsertReview(c) ==
    /\ revCall[c] = "insert"
    /\ reviews = 0
    /\ reviews' = 1
    /\ revCall' = [revCall EXCEPT ![c] = "flag"]
    /\ UNCHANGED <<collected, hasReviewed, halfDone, reminderVars>>

\* save(order): a collected order has no other column left to change.
SaveOrder(c) ==
    /\ revCall[c] = "flag"
    /\ hasReviewed' = TRUE
    /\ revCall' = [revCall EXCEPT ![c] = "idle"]
    /\ UNCHANGED <<collected, reviews, halfDone, reminderVars>>

\* The insert is refused, a statement throws or the process dies.
AbandonReview(c) ==
    /\ revCall[c] # "idle"
    /\ halfDone' = (halfDone \/ revCall[c] = "flag")
    /\ revCall' = [revCall EXCEPT ![c] = "idle"]
    /\ UNCHANGED <<collected, hasReviewed, reviews, reminderVars>>

----------------------------------------------------------------------------
(* handleReviewReminder, one step per statement that others may overtake.  *)

TakeReminder ==
    /\ reminder.state = "delayed"
    /\ reminder' = [reminder EXCEPT !.state = "look"]
    /\ UNCHANGED <<orderVars, notices, pushes, broken>>

\* The order (collected for good), its review, and the devices; with a review the
\* job is done.
LookForReview ==
    /\ reminder.state = "look"
    /\ \/ /\ reviews > 0 \/ hasReviewed
          /\ reminder' = [reminder EXCEPT !.state = "completed"]
       \/ /\ reviews = 0 /\ ~hasReviewed
          /\ \E devices \in BOOLEAN :
                 reminder' = [reminder EXCEPT !.state = "record", !.devices = devices]
    /\ UNCHANGED <<orderVars, notices, pushes, broken>>

\* Mutant: the row is not written before the push.
RecordNothing ==
    /\ reminder.state = "record"
    /\ reminder' = [reminder EXCEPT !.state = IF reminder.devices THEN "push" ELSE "completed"]
    /\ UNCHANGED <<orderVars, notices, pushes, broken>>

\* NotificationsService.send: the row, marked SENT before anything was sent.
RecordNotification ==
    /\ reminder.state = "record"
    /\ notices' = notices + 1
    /\ reminder' = [reminder EXCEPT !.state = IF reminder.devices THEN "push" ELSE "completed"]
    /\ UNCHANGED <<orderVars, pushes, broken>>

PushReminder ==
    /\ reminder.state = "push"
    /\ pushes' = pushes + 1
    /\ reminder' = [reminder EXCEPT !.state = "completed"]
    /\ UNCHANGED <<orderVars, notices, broken>>

Working == reminder.state \in {"look", "record", "push"}

\* BullMQ: an attempt that throws is tried again, the last one leaves the job failed.
Thrown(job) ==
    LET n == job.failures + 1 IN
    [job EXCEPT !.failures = n, !.state = IF n = Attempts THEN "failed" ELSE "delayed"]

\* What an attempt that does not end leaves behind: the row, if it was to record
\* one, and the pushes of the batches that were sent before.
LeavesBehind ==
    \/ reminder.state = "look" /\ UNCHANGED <<notices, pushes, broken>>
    \/ reminder.state = "record" /\ notices' \in {notices, notices + 1}
                                 /\ UNCHANGED <<pushes, broken>>
    \/ reminder.state = "push" /\ pushes' \in {pushes, pushes + 1} /\ broken' = broken + 1
                               /\ UNCHANGED notices

\* The database or Firebase throws; Firebase perhaps at a later batch of devices.
ReminderError ==
    /\ Working
    /\ reminder' = Thrown(reminder)
    /\ LeavesBehind
    /\ UNCHANGED orderVars

\* The worker dies, before or after its last statement took effect.
ReminderWorkerDies ==
    /\ Working
    /\ reminder' = [reminder EXCEPT !.stalls = @ + 1,
                                    !.state = IF reminder.stalls = 0 THEN "delayed" ELSE "failed"]
    /\ LeavesBehind
    /\ UNCHANGED orderVars

----------------------------------------------------------------------------
CreateReview(c) == CheckOrder(c) \/ InsertReview(c) \/ SaveOrder(c) \/ AbandonReview(c)
HandleReviewReminder ==
    \/ TakeReminder \/ LookForReview \/ RecordNotification \/ PushReminder
    \/ ReminderError \/ ReminderWorkerDies

Next ==
    \/ CompleteOrder \/ HandleReviewReminder
    \/ \E c \in Calls : CreateReview(c)

Spec == Init /\ [][Next]_reviewVars

----------------------------------------------------------------------------
\* An order has at most one review however its requests overlap, and its flag
\* says whether it has one, unless a request is between the two writes or ended
\* there: then no later request can set the flag.
ReviewedOnce ==
    /\ reviews <= 1
    /\ hasReviewed => reviews = 1
    /\ reviews = 1 => hasReviewed \/ halfDone \/ \E c \in Calls : revCall[c] = "flag"

\* The user is reminded once, and again only after an attempt that broke off as it
\* pushed, which may have reached some of the devices; every reminder has a
\* notification row of its own, and every other row one attempt that failed after
\* it was written.  A job that completed did its work: it pushed, recorded for a
\* user without a device, or found a review.
RemindersAddUp ==
    /\ pushes <= notices
    /\ pushes <= 1 + broken
    /\ notices <= 1 + reminder.failures + reminder.stalls
    /\ reminder.state = "completed" => pushes > 0 \/ notices > 0 \/ reviews = 1
=============================================================================
