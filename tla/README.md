# Verification of the Kamacaash backend

TLA+ models of the Kamacaash backend (NestJS, TypeORM/Postgres, BullMQ and Redis, WAAFI push
payments, S3), the TLC runs that check them on small instances, and theorems about them that the
TLA+ proof system proves for every value of the constants. The backend sells surplus food: a
customer *reserves* units of an *offer*, gets a short *hold*, pays by a push to the phone, and
collects the order.

`PROJECT.json` lists the components, the runs, the source lines each definition models, the
hazards, the findings and the theorems. Paths below are relative to `src/src/`.

## 1. The system: inventory

The repository has no tests and no migrations. Its documentation is a starter README, the Swagger
summaries of the controllers, and the messages, event notes and comments in the code.

| Component (source) | State it keeps | Operations that change it | Talks to |
|---|---|---|---|
| Orders (`modules/orders/orders.service.ts`) | `orders`: status, payment_status, hold_expires_at, quantity; `order_events` (append only); the offer's `quantity_remaining` and `quantity_reserved` | reserve, markPaid, cancelReservation, adminCancelOrder, adminCompleteOrder (adminCloseNoShowOrder and markOrderNoShow exist, see section 8) | hold queue, payments, rewards, statistics, reminders |
| Hold queue (`modules/orders/order-holds-queue.service.ts`) | BullMQ: one delayed job per order; Redis: retry counter (TTL: the hold) and payment lock (TTL 45 s) per order | schedule and cancel the job, count a failure, take and release the lock, clear both; the worker expires orders | orders and offers (its own transaction), statistics |
| Payments (`modules/payments/payments.service.ts`) | `payments`: one row per order and provider, with a request identity; logs and events | initializePayment, submitWaafiPushPayment; handleWebhook stores nothing | WAAFI client |
| WAAFI client and mapper (`waafi-payment-client.service.ts`, `waafi-response.mapper.ts`) | none | pushPayment; mapWaafiResponse classifies the answer | WAAFI over HTTP |
| Rewards (`modules/rewards/rewards.service.ts`) | one wallet per user, one EARNED transaction per payment, the user's point columns | awardApprovedPayment, inside markPaid's transaction | - |
| Offers (`modules/offers/offers.service.ts`) | `offers`: quantities, status, is_archived, images | create, update, publish, pause, remove | S3, the order handlers (same rows) |
| S3 uploads (`common/services/s3-upload.service.ts`) | objects | uploadFile(s), deleteByUrl(s) | S3 |
| Businesses and contracts (`businesses.service.ts`, `BusinessContract.service.ts`) | `businesses`: verification, active, primary staff; contracts and their numbers | create, update, remove, toggleStatus, updateBusinessSettings, approve, reject; uploadContract | staff rows, S3 |
| Staff and authentication (`staff.service.ts`, `auth.service.ts`) | `staff_users`: status, password, second factor | login, verify2fa, create, update, remove, changePassword, approve, disable, updateOwnProfile | S3 |
| Reviews and reminders (`reviews.service.ts`, `review-reminders.service.ts`) | `reviews`, unique per order; `Order.has_user_reviewed`; BullMQ reminder jobs | create; scheduleForCollectedOrder, handleReviewReminder | notifications, orders |
| Favourites (`favorites.service.ts`) | `favorites` rows, unique per user and business | add, remove, toggle | businesses |
| Users and statistics (`users.service.ts`, `auth.service.ts`, `user-statistics.service.ts`) | `app_users`, unique per phone; `user_devices`; five totals per user | registerFromApp, requestPhoneOtp, verifyOtpFromApp, verifyPhoneOtp, updateStatus, remove, updateProfileFromApp; rebuildForUser inside the order transactions | orders, S3 |
| Notifications (`notifications.service.ts`) | `notifications` rows of `send` | send, sendToDevices | Firebase |
| Catalogue (`categories`, `cities`, `countries`) | rows with is_active and is_archived | create, update, remove | S3 (category images) |
| Lists and admin dashboards (all services, `admin.service.ts`) | none | - | every table |
| Payouts, system entities, bootstrap | a stub, tables, wiring | - | - |

### How they interact

`reserve` commits the order, then queues the expiry job. `markPaid` commits the order as
INITIATED, takes the Redis lock, calls `submitWaafiPushPayment` (which has up to three transactions
of its own around an HTTP request of up to a minute), finalizes the order in a second transaction,
in which it also increments the Redis retry counter and awards points, releases the lock in a
`finally`, and, when the order is closed, removes the job and clears the Redis keys. The expiry
worker locks the same rows at any moment in between. Admin handlers of offers write the same offer
row without locking it.

### What is hard

* Interleaving: a handler awaits Redis, BullMQ or WAAFI between its transactions; the worker, a
  cancellation or a second call runs in the gaps.
* Partial failure: what Redis and BullMQ were told is not undone when the SQL transaction rolls
  back; a process may die between any two steps.
* Timeouts and retries: a lock shorter than the request it protects; a push that timed out but is
  still on the customer's phone.
* Late answers: the provider's result arrives for an order, or a payment row, that has moved on.
* Stale reads: entities read without a lock and saved whole.

### What makes each part correct

* Orders and hold queue: no unit is oversold, lost or released twice; a closed order stays closed;
  one payment attempt at a time; the last allowed failure ends the hold; a queued hold ends; an order
  that holds stock keeps its job; paid means confirmed.
* Payments and rewards: paid means charged; points once per paid order; one charge per order.
* Offers: the admin handlers neither lose stock nor show images that were deleted.
* Businesses: the two copies of the primary staff agree; an admin's answer still shows; contract
  numbers are consecutive and every verified business is listed once.
* Staff, images: what was answered stands; an image shown exists and one that is not shown does not.
* Lists: what one list shows the next page shows too; a client that pages misses nothing; a removed
  entry is offered no more; every order is listed under one day.
* Engagement: one review per order, reminders that add up, a list of favourites that follows the calls,
  one account per phone, totals that match the orders, one push per device.

## 2. Modules

| Module | Models |
|---|---|
| `StockLedger` | abstract specification: what the order handlers promise about an offer's units |
| `Reservations` | orders, hold queue and worker, with the real interleavings; implements `StockLedger` |
| `OrderView` | what the app is shown of an order, beside what the handlers would do |
| `HoldJobs` | the life of one expiry job: BullMQ's attempts, back-off and stalls, clocks that differ |
| `Payments` | payment intents, WAAFI, the customer's phone, the wallet |
| `WaafiMapper` | mapWaafiResponse's decision order against what the provider did |
| `OfferAdmin` | offer administration on the rows the orders move |
| `Businesses`, `Contracts`, `StaffAccounts`, `ImageRows`, `S3Urls`, `Catalogue` | the back office |
| `Storefront`, `Paging`, `DayRanges` | the lists: their filters, their pages, their days |
| `Reviews`, `Favourites`, `UserAccounts`, `Statistics`, `Notifications` | the customer's side |
| `MCReservations`, `MCPayments`, `MCOfferAdmin` | instances of the core for TLC |
| `MCBackOffice`, `MCEngagement` | instances of the others, one moving per behaviour |
| `StockLedgerProofs`, `ReservationsProofs`, `ReservationsRefinement`, `OrderViewProofs`, `PaymentsProofs`, `OfferAdminProofs`, `BackOfficeProofs`, `EngagementProofs` | theorems |

`Reservations` and `Payments` are joined by what each takes from the other: `Reservations` takes any
answer of the push, `Payments` takes OneAttemptPerOrder (markPaid's guard) and every way to close an
order. initializePayment pushes whatever the order's attempt does, so OneAttemptPerOrder speaks of markPaid
alone; what is open at the provider is counted in `Payments`. `WaafiMapper` says when the answer that `Payments` maps is what the provider did. `HoldJobs` says
when the worker that `Reservations` grants fairness runs at all.

Worth doing next: a payment as "open, then charged or refused, once" as an abstract specification that
`Payments` implements while nothing is given up; login and tokens of staff.

The MC modules hold what only TLC needs: values for constants, symmetry sets and state constraints.

## 3. How the models correspond to the code

### Reservations

One step is one transaction, or one call to Redis, BullMQ or WAAFI. The transactions of the order
handlers and of the worker lock the order row and then the offer row `FOR UPDATE`, so that they are
atomic for each other. A handler that only answers with an error and changes nothing is no step.

| Variable | Code |
|---|---|
| `published`, `remaining`, `reserved` | `Offer.status = PUBLISHED`, `quantity_remaining`, `quantity_reserved` |
| `order` | the orders row: status, payment_status, hold_expires_at (absent, running, elapsed), offer, quantity |
| `job` | the BullMQ job: delayed, active (before its transaction), clearing (after it) |
| `retries`, `lock` | the Redis retry counter and the payment lock (the token is the handler that took it) |
| `call` | every handler execution in flight: where it stands, its order, the answer it carries |

`call[c].pc` names what the handler does next: `schedule` the job, `acquire` the lock, `push`,
`finalize`, `unlock`, `cancelJob`, `clearState`. markPaid is PrepareAttempt, AcquireLock (or
LockDenied), PushAnswered (or PushThrows), one of the Finalize actions, ReleaseLock, and, when the
order is closed, CancelHoldExpiry and ClearReservationState. Its early ends are RestoreExpiredHold
and PrepareReleases. `Crash` may end any handler anywhere, `LockLapses` is the lock's TTL,
`HoldElapses` the hold's end (with the TTL of the retry counter). The worker is WorkerTakesJob,
HandleHoldExpiry, WorkerClearsState.

Two facts of the code that the model keeps deliberately: PrepareReleases saves the offer and not the
order, as orders.service.ts:159-167 does; and CancelHoldExpiry fails on an active job, after the
order was closed, so that ClearReservationState is skipped. ScheduleHoldExpiry includes resetRetryState's
gap: the counter is set to zero if it did not exist as the handler asked, so that a failure counted in
between is forgotten.

`FaultySpec` adds one fault to `Spec`: a finalize transaction that rolls back after the INCR that
reached the limit. Rollbacks before that INCR, or of an INCR below the limit, are in `Spec` already.
The two are kept apart because that one fault breaks the stock (section 5, reservations_release),
and the properties that need its absence are worth having.

### Payments

Each order has at most one payment row. `requests` are the identities sent to WAAFI with their fate
at the provider, which is external: it prompts once per request identity, and the customer charges or
refuses it at any time, whether or not a handler still waits. Handlers are executions of markPaid
(one per order at a time, which is OneAttemptPerOrder of `Reservations`) and of initializePayment
(any number). `pc` is `intent` (getOrCreatePaymentIntent next), `push`, `await`, `record` (the
response transaction next), `return` (markPaid's second transaction next), `award` (the wallet was
looked up and is absent; the order row is locked). `RecordFailure` is the catch block, `Abandon` a
crash or an error thrown outside the try. `order` is what is left of the order here: unpaid,
attempting, paid, closed; CloseOrder stands for every way `Reservations` has to close one.

`givenUp` is a history variable: the requests whose row was marked FAILED or EXPIRED although the
provider had not refused them.

### OfferAdmin

One offer. An admin handler reads the row (`seen`), and later writes: update with
`repository.update`, which writes the named columns; publish, pause and remove with
`repository.save`, which compares the entity with the row of that moment and writes every column
that differs, so that the row becomes the entity. update also takes the image as text: any URL that a row
has shown may come back in a form (`Known`), and nothing is uploaded or deleted for it; a URL of another
row's image is taken as none. `pasted` is a history variable: the image shown is one that a text put back.
The order handlers are reduced to what they do to
the row: Reserve, Release, Sell, Unsell, with `held` and `sold` for the orders. `stale` is a history
variable: a save wrote back a column that had changed since it was read.

### OrderView

Operators over the state of `Reservations`: `Details` is OrderResponseDto.fromEntity, `Shown` is
MobileUserOrderDto.fromEntity, each reduced to the fields that name an action or a status. They are set
beside `StartsAttempt` and `Cancels`, the guards of PrepareAttempt and CancelReservation.

### HoldJobs

One job and one held order. `lag` is how far the clock of the worker's instance is behind the one that
queued the job; time is counted from the hold's end in units of the back-off. `RunEarly` is the branch
that schedules the job again and fails on removing its own active job; `Thrown` is BullMQ's failed
attempt; `WorkerDies` its stalled job, handed out once more.

### WaafiMapper

An answer is a code, a 2xx or not, and the set of phrases its text contains; a phrase stands for the
mapper's words that occur in it, since the mapper searches substrings (UNSUCCESSFUL contains SUCCESS).
`deed` is what the provider did.

### Back office

* `Businesses`: handlers read (`bizCall`) and later save the whole entity. `review` and `removed` are
  what admins were answered. StaffService's remove, changePassword and updateOwnProfile save the staff
  user they read, the business_id included (`homeCall`, one in flight for each staff user). `stale`,
  `misplaced` and `shared` are history variables for the causes that break the primary staff: a stale save
  of a business, one of a staff user, and one staff user made primary of two businesses.
* `Contracts`: check, S3, count, probe, insert, each a statement of its own; `overlapped` are the
  businesses with two uploads past the check at a time.
* `StaffAccounts`: operations that write named columns beside those that save the entity.
* `ImageRows`: the four ways of replacing an image, with S3's objects; a behaviour has one `kind`.
  `WriteText` is an update of a category or a staff user whose image is a URL given as text: it replaces
  an image without deleting it (`untidy`) or puts an old one back (`pasted`).
* `S3Urls`: a URL is scheme, host, path segments and the extension of the last; `Reconfigure` changes
  bucket, region, endpoint or public base between upload and deletion. `place` is where the object lies;
  the hosts of endpoints, public bases and S3 are taken to be different.
* `Catalogue`: the removal of cities, countries and categories and the lists that leave them out.
* `Storefront`: the filters of each list as set comprehensions over changing rows; a business's page
  stops at `ActiveOffersLimit` (10 unless configured), the newest offers first; the dashboard takes one query
  per figure, and `changes` counts what changed under it.
* `Paging`: a client reads page after page while rows come and go.

### Engagement

* `Reviews`: the three statements of create, and the reminder job with BullMQ's retries. A push that throws
  may have reached some of the devices: `broken` counts the attempts that ended so, or died pushing.
* `Favourites`: find and save of overlapping calls on one row; `shouldShow` and `shouldNote` are what the
  calls would leave if each ran alone at its save.
* `UserAccounts`: registration, verification and an admin on one phone number.
* `Statistics`: transactions change an order, count, and overwrite the user's row at their commit.
* `Notifications`: sendToDevices on one list of tokens. The batches before one that throws have been
  delivered; the one that throws is assumed to have delivered nothing.
* `DayRanges`: time in units of three hours, so that Mogadishu's and UTC's days both have whole units.

A history variable never appears in a guard of the modelled code.

## 4. Runs

| Run | Instance | Shows |
|---|---|---|
| `reservations_safety` | 1 offer of 2 units, 2 orders within the stock, 2 handlers, limit 1 | stock, types, one attempt, the limit, paid is confirmed, closed is final, the job of a held order is kept, the app's buttons do what they say |
| `reservations_faults` | 1 order, 3 handlers, limit 3, rollbacks at the limit | one attempt at a time and closed is final survive that fault |
| `reservations_liveness` | 2 orders, 1 handler | the core implements the ledger; a queued hold ends |
| `reservations_release` | violation | after a rolled-back third failure markPaid answers that the reservation was released; the order is not, though its units are back on sale |
| `reservations_progress` | violation | markPaid answers that an attempt is in progress when none is |
| `reservations_expiry` | violation | an order expires while its confirmation waits to be written |
| `payments_safety` | 2 orders of one customer, 2 handlers, up to 3 requests | paid is charged, points once, what a double charge needs |
| `payments_retry` | violation | a retry after a timeout can charge twice |
| `offers_safety` | 2 admin handlers, 1 unit, 3 images | only a stale save loses stock; only that or a resubmitted URL shows a deleted image |
| `offers_stale` | violation | such a save does |
| `backoffice` | 2 businesses, 2 staff, 2 handlers and the bounds below | the eight modules of the back office, each on its own |
| `engagement` | 3 requests, 2 orders, 3 devices and the bounds below | the eight modules around an order, each on its own; a queued hold ends or its job was given up |

### Bounds, and why they are enough

* One offer: offers share no state but the orders that name one; competing for the same units needs
  one offer. Two orders over two units: both fit with one unit each, they do not with two.
* `WithinStock` (safety run): an order that brings the units ever ordered above two, which only units
  given back make possible, is checked but not followed further. Units that are sold again after a
  release are followed in the liveness run (one handler), and the theorems of section 6 have no bound.
* Two handlers show every pairwise race on an order or between two orders, with the worker, lapsing
  locks and crashes beside them; three handlers and the real limit of three failures are in the
  faults run, on one order. With a limit of one, each failure is the last, which is the case the
  properties are about.
* `BoundedStock` (faults run) stops exploring where more than one unit too many is on sale.
* `MaxRequests` is 3: a late answer can move a row that already carries the second request, and the
  retry opens the third. `OneOrderRetried` keeps the instance small: beside an order with two
  requests no other order is touched; two orders of one request each share the wallet.
* One unit and three images (offers): the stock is available, held or sold, and two updates may overlap
  on an offer that has an image already, each with a new one.
* `UntilStale` (offers) does not explore what follows a stale save: the properties are vacuous there.
* `backoffice` and `engagement` choose a `focus` at the start; only that component moves. No property
  relates two of them, so their product would show nothing more.
* Back office: two businesses and two staff users, so that a staff user can move; two handlers, which
  every stale save needs (of businesses and staff users at most two at a time together, `Undisturbed`, which
  also stops at a stale save); two offers of one shop on a page of one, so that one is left out; at most
  two changes (`MaxChanges`) under a dashboard; four images and five rows, pages of two: a page in the middle, and rows that
  come and go on both sides of it.
* Engagement: three requests on one favourite, review or phone, so that a third follows two that
  overlapped; two transactions on two orders; up to four tokens, one blank, one repeated, in batches
  of two (500 in the code); a clock up to four back-offs behind with three attempts, as configured;
  three phrases in an answer; four days of eight units.
* Deadlock is not checked: a state in which every order is closed and nothing runs is a good end.

### Fairness

Only `LiveSpec` assumes any: time passes (`WF(HoldElapses)`) and the worker takes and finishes the
jobs it is given (`WF(Worker)`), which BullMQ does while a worker runs; a job whose process died is
given to a worker again. Handlers get no fairness: they may stop anywhere. In `engagement` the hold's
job gets it too (`Jobs!Fairness`: a delayed job is taken, a taken one handled), for HoldJobEnds, which
adds to HoldEnds what happens when attempts fail: every attempt that starts before the worker's clock
has reached the hold's end undoes itself, and with a clock more than three back-offs behind all do.

## 5. Findings

1. **Released but not cancelled** (`reservations_release`). orders.service.ts:159-167 restores the
   offer's stock and returns the cancelled order without saving it. The order stays as it was, INITIATED,
   and the clean-up (:207-208) clears its counter: later calls of markPaid answer 409, and the units are
   given back a second time when the hold expires or is cancelled.
2. **INITIATED for nothing** (`reservations_progress`). The order is INITIATED before anything is
   sent, and nothing resets it when the lock is refused, the push throws or the process dies.
3. **Expired under a confirmation** (`reservations_expiry`). The worker expires orders whose payment
   is INITIATED or PROCESSING; a confirmation on its way is dropped and not refunded.
4. **Charged twice** (`payments_retry`). A timed-out push counts as FAILED, so the retry opens a
   second request while the first is still on the phone. `ChargedTwiceOnlyIfGivenUp` shows that this
   (a failure recorded for a request the provider had not refused) is the only way.
5. **Stock written back** (`offers_stale`). publish, pause and remove save the whole offer as read.

Smaller observations made while modelling, each visible in the module named:

* app-orders.controller.ts:20 says the hold is 5 minutes, config/orders.config.ts:9 says 3. reserve looks
  at neither `max_per_user` nor `order_cutoff_at`, nor at `is_archived`: a removed offer stays PUBLISHED
  and reservable (`Storefront`).
* A published offer is listed though its business is closed; findNearby and the plain list of favourites
  show businesses that are not open; the admins' search finds archived businesses, because its OR has no
  parentheses (`Storefront`).
* A removed country stays in its list until it is made inactive (`Catalogue`).
* A removed user keeps the phone number: registering it again always fails (`UserAccounts`).
* The first add of a favourite answers an error, for a column Business does not have, and stores it
  (`Favourites`).
* A user's image is deleted before the new one is written, so that a failing update leaves none; a
  refused contract's document stays in S3 (`ImageRows`, `Contracts`).
* A refusal worded as a negated success (UNSUCCESSFUL with a 2xx) is taken as an approval (`WaafiMapper`);
  `Payments` assumes that no refusal is worded so.
* Totals count the discount of cancelled orders as saved (`Statistics`); completed orders are listed by
  the day they were made, and the finance figures by UTC's days (`DayRanges`).
* A worker whose clock is more than three back-offs behind uses up every attempt and leaves the hold
  (`HoldJobs`).

## 6. Proofs

Checked by tlapm with Z3, Zenon and LS4: the reservation core for every finite set of orders, all sets
of offers and handlers, all totals and every limit of at least one failure (`ReservationsAssumption`);
offer administration for any handlers, units and number of images (`OfferAdminAssumption`); payments
for every finite set of orders and any handlers and requests (`PaymentsAssumption`); the back office for
any businesses, staff, entries, handlers, images, rows and pages of at least one row, with finite sets of
shops and offers where they are counted (`BackOfficeAssumption`: NULL is no row's id); the customer's side
for any handlers, devices, lists of tokens, batches, lengths of a day and numbers of days, finite sets of
orders, and up to four attempts of a job (`EngagementAssumption`; the code configures three). Every
invariant that a passing run checks is a theorem.

`StockLedgerProofs` proves that the ledger keeps `PromisedMatchesHolds` and `StockConserved`. The sums
over orders are cardinalities of sets of units, so that the library's facts on finite sets apply;
QuantityStep says how a sum changes when one order changes its stage.

`ReservationsProofs` and `ReservationsRefinement` prove about the core:

| Theorem | States |
|---|---|
| FaultyTypeCorrect, TypeCorrect | types, and that calls and orders refer to what exists |
| AttemptsExclusive | OneAttemptPerOrder, under `FaultySpec` |
| ConfirmedIsPaid | ConfirmedIffPaid |
| ClosedStaysClosed | ClosedIsFinal, under `FaultySpec` |
| LimitEndsHold | LimitReleasesHold |
| HoldKeepsJob | JobKeptWhileHeld |
| CoreImplementsLedger | every step is a ledger step or a stutter |
| ReservedIsExact, StockIsConserved | the ledger's equations about the real columns |

The inductive invariant is `TypeInv /\ AttemptInv /\ LimitInv /\ LedgerInv`:

* `TypeInv`: TypeOK, and `Wired`: an order that exists has an offer, a handler in flight has an order
  that exists. Without it no step on `order[call[c].order].offer` can be typed.
* `AttemptInv`: one attempt per order, `AttemptRow` and ConfirmedIffPaid. `AttemptRow` is the reason
  for exclusion: while a handler pays for an order that still holds stock, its row is PENDING_PAYMENT
  and INITIATED, so no second PrepareAttempt is enabled. The Redis lock plays no part in it.
* `LimitInv`: LimitReleasesHold, `FreshRetries` (an unused order has a counter of zero) and
  `Closing` (a handler in its clean-up has closed the order, so its clearing of the counter cannot
  hide failures of a running hold). It is what makes PrepareReleases unreachable in `Spec`.
* `LedgerInv`: the two equations. They show that Math.max(reserved - quantity, 0) never clamps, which
  the refinement needs: the ledger subtracts without a clamp.

Most handlers first get a lemma that says what they do to a row and to their own call ("...Does"), so
that the invariant proofs speak of those effects only.

`OfferAdminProofs` proves TypeOK, StockKeptUnlessStale and ImageKeptUnlessStale. For the stock it is
enough that a save which is not stale writes back the row it finds. The images need, but for URLs given
as text, which may name a deleted one (`pasted`), `ImageInv`: S3 keys
are never used twice (`KeysUploaded`); an image uploaded and not yet written belongs to its call alone,
so that no overlapping update deletes or writes it (`PendingIsPrivate`); and what a call is about to
delete is not what the offer shows (`DeletesOnlyReplaced`). None of these survives a stale save, which
is why the property excludes it. The theorem about the images is OnlyStaleUrlsLoseImages.

`OrderViewProofs` derives ButtonsKeepTheirWord from the invariant of the core: LimitReleasesHold and
ConfirmedIffPaid make "paying is offered" and "markPaid would start an attempt" the same, AttemptRow
hides the button while an attempt runs.

`PaymentsProofs` proves the four properties of `payments_safety`. All rest on `Wired`: a handler in flight
has an order, one that pushes or waits has a request of that order, and a row carries a request of its
order. PaidIsCharged needs `Truthful`, which extends it to everything that may say CONFIRMED before the
order does: the row and the handlers' answers. PointsMatchRewards is inductive with `Wired`: only one
transaction finds the wallet absent and creates it. ChargedTwiceOnlyIfGivenUp needs `OthersLeft`:
requests other than the row's were refused or given up, and the row's own too once its status makes the
next retry take another; so at most one request is still open to a charge that nobody has given up.

### The composed instances

`MCBackOffice` and `MCEngagement` put components side by side, and each component has a section of its own
in `BackOfficeProofs` and `EngagementProofs`. A theorem is stated twice: of the component alone
(`Pages!Spec => []Pages!PagesCover`) and of the composition, whose steps are steps of the component or
leave it alone (the lemmas "...Moves"). The two theorems about types conjoin the invariants of all
sections. What each section needs beyond its property:

| Theorem | Inductive invariant |
|---|---|
| PrimariesBelong, AnswersAreKept | `BizInv`: a handler in flight has read a business that exists, and one that does not exist is blank (`BizCallsMeant`); then a save that is not stale changes only its own columns, and a staff user's save that does not misplace moves nobody. `AccInv` for staff is inductive as it stands |
| ContractsNumbered, SignersListedOnce | `ConInv`: numbers have no gap, one being tried is at most one past the count of that moment (`TriesNext`), since contracts are never deleted and only taken numbers are stepped over; the unique column then admits exactly the next. `SignedOnce`: a business that no two uploads shared has at most one contract, and none while an upload is past the check |
| ImagesAreKept | `ImgInv`: images shown or seen were uploaded (`ImagesUploaded`), one not yet saved is its call's alone (`PendingFresh`), old ones are deleted in turn (`DeletesInTurn`), and what S3 keeps is shown or in a handler's hands (`NothingLost`). A text ends the last (`untidy`), and one that puts an old image back what the third says of the image shown (`pasted`) |
| UploadIsDeleted | `UrlInv`: the stored URL was built with some configuration, the object lies where that one worked, and what was deleted is what the present one reads in the URL, at its own place. The rest is about concatenations of paths (`ReadsBack`) |
| ListsDoAgree | the filters agree in every state; a business's page takes the newest of a finite set; `FiguresCurrent`: a figure is off by at most the changes since the counting began, since a change moves each list by one row at most |
| PagesDoCover | `PageInv`: the rows are in order; what the client has got so far is newer than every place after the ones it has read, unless rows came, and covers the places before, unless rows went (`SoFar`); a count not overtaken is the number of rows. A last page then leaves nothing out (`LastPageReached`) |
| RemovedStayUnlisted | `CatInv`: what was removed exists, archived where removing archives it |
| FavouritesAreFollowed, AccountsAreOnce | what a call in flight may still write: only an add brings a note (`FavCallsMeant`); a call about to activate read PENDING, and one about to insert a device found none, unless it raced (`ActivatesPending`, `InsertsFirstDevice`) |
| TotalsAreRight | `TotalsInv`: open transactions change different orders, and totals that are not late are those of the orders as their transaction sees them (`CountsRight`) |
| ReviewsAreOnce, RemindersDoAddUp | `RevInv`: a request at its second write has a review (`FlagsItsReview`), no job runs before its order was collected, failures and stalls stay within the attempts, every notification row belongs to one of them (`RowsOfAttempts`), and so does every push but the last to an attempt that broke off |
| MapperIsRight | none: the mapping of each kind of answer, case by case |
| DaysDoPartition | the dates a closed order has are not in the future; the rest is arithmetic of days and the zone's offset |
| PushesAreReported | `SentUpTo`: the responses are those of the first tokens, message by message; the distinct tokens in the order of their first places, and as many as there are |

Three definitions owe their form to the proofs. `Misread` of `S3Urls` compares the whole path with
`/bucket/key`: looking only at the first segment is wrong for a bucket that is named like the endpoint's own
path, where deleteByUrl drops the endpoint's segment and keeps the bucket's. `RemoveRow` of `Paging` takes the
place of the row, and `ValidTokens` of `Notifications` the first places of the tokens, where the library's
operators are recursive and cannot be reasoned about.

## 7. Only model-checked

HoldEnds and HoldJobEnds (liveness under fairness is out of the prover's reach), and the violations of
section 5, which are single behaviours. `Payments` and `Reservations` are proved apart; what section 2 says
each takes from the other is read off their guards and not a theorem. No module that is proved about uses a RECURSIVE operator.

## 8. Not modelled, and why

* adminCloseNoShowOrder asks for NO_SHOW, which markOrderNoShow alone assigns and nothing calls; the
  status READY_FOR_PICKUP is assigned nowhere. An action for them would never fire.
* BusinessesService.toggleStatus: its DTO admits booleans only, which the column's enum refuses.
* REFUNDED is a mark that reaches no provider (it is in AdminCancelOrder); handleWebhook stores nothing,
  so a payment left PROCESSING stays so.
* A hold whose process died before its job was queued: no code looks for it, so no property promises
  that it ends; a later call on the order expires it (RestoreExpiredHold).
* A disabled queue: without Redis no job is queued and acquirePaymentAttemptLock returns null, so no
  order can be paid. The models are of a server with its Redis.
* Staff login, the second factor, tokens and guards; opening hours; recent activity and the sums of
  amounts on the dashboards; ordering, distance and most search terms of the lists.
* Columns no guard reads, event and log rows, response formatting, the identifiers' random parts:
  uniqueness is taken from the unique indexes, a collision is a failing insert (`Abandon`).
* Payouts (a stub), system entities (tables without code), configuration and bootstrap (wiring).
