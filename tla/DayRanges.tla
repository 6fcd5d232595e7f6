------------------------------- MODULE DayRanges -------------------------------
(***************************************************************************)
(* Which day an order is listed under: the admin lists of OrdersService,   *)
(* whose days are those of Africa/Mogadishu, and the finance figures of    *)
(* AdminService, whose days are those of UTC.                              *)
(*                                                                         *)
(* Time is counted in units of the zone's offset (three hours, all year),  *)
(* so a day has eight; every range is half open and its ends are whole     *)
(* units, so nothing happens inside one that a list could tell apart.      *)
(***************************************************************************)
EXTENDS Integers

CONSTANTS Day,       \* units in a day: 24 h / 3 h
          MonthDays, \* days in a month
          LastDay    \* bound on the clock

VARIABLES
    clock,    \* now, in UTC
    placedAt, \* Order.created_at, -1 before the order
    closedAt, \* Order.collected_at or Order.cancelled_at, -1 before
    closedAs  \* "open", COLLECTED or CANCELLED_BY_ADMIN

dayVars == <<clock, placedAt, closedAt, closedAs>>

----------------------------------------------------------------------------
Offset == 1
Days == 0..LastDay
Never == -1

TypeOK ==
    /\ clock \in 0..LastDay * Day
    /\ placedAt \in {Never} \cup 0..clock
    /\ closedAt \in {Never} \cup 0..clock
    /\ closedAs \in {"none", "open", "COLLECTED", "CANCELLED_BY_ADMIN"}

Init ==
    /\ clock = 0
    /\ placedAt = Never /\ closedAt = Never
    /\ closedAs = "none"

PassTime ==
    /\ clock < LastDay * Day
    /\ clock' = clock + 1
    /\ UNCHANGED <<placedAt, closedAt, closedAs>>

PlaceOrder ==
    /\ closedAs = "none"
    /\ placedAt' = clock /\ closedAs' = "open"
    /\ UNCHANGED <<clock, closedAt>>

CloseOrder(as) ==
    /\ closedAs = "open"
    /\ closedAt' = clock /\ closedAs' = as
    /\ UNCHANGED <<clock, placedAt>>

Next == PassTime \/ PlaceOrder \/ \E as \in {"COLLECTED", "CANCELLED_BY_ADMIN"} : CloseOrder(as)

Spec == Init /\ [][Next]_dayVars

----------------------------------------------------------------------------
(* The ranges of the lists. *)

\* getZonedDateParts: the date of an instant in the business's zone.
ZonedDate(t) == (t + Offset) \div Day

\* Mutant: the offset is added where it is to be subtracted.
ZonedTimeToUtcReversed(d) == d * Day + Offset

\* zonedTimeToUtc of a date at 00:00: the same clock time in UTC, less the offset.
ZonedTimeToUtc(d) == d * Day - Offset

TodayRange == [start |-> ZonedTimeToUtc(ZonedDate(clock)),
               end   |-> ZonedTimeToUtc(ZonedDate(clock) + 1)]

\* getBusinessRangeFromParams with two dates: the end date's own day is included.
DateRange(first, last) == [start |-> ZonedTimeToUtc(first), end |-> ZonedTimeToUtc(last + 1)]

\* A range whose start is not before its end is refused.
Accepted(range) == range.start < range.end
Within(t, range) == range.start <= t /\ t < range.end

----------------------------------------------------------------------------
(* The lists: each has its column. *)

PendingToday == closedAs = "open" /\ Within(placedAt, TodayRange)
CompletedIn(range) == closedAs = "COLLECTED" /\ Within(placedAt, range)
CancelledIn(range) == closedAs = "CANCELLED_BY_ADMIN" /\ Within(closedAt, range)

\* getFinance, for a payment made in the same unit as its order: from the start of
\* the day and of the month in UTC.
UtcDayStart == clock - (clock % Day)
UtcMonthStart == clock - (clock % (Day * MonthDays))
FinanceToday == placedAt >= UtcDayStart
FinanceMonth == placedAt >= UtcMonthStart

\* The hours in which it is already tomorrow for the business.
Tomorrow(t) == t % Day >= Day - Offset

----------------------------------------------------------------------------
\* The days of the lists neither overlap nor leave a gap: a closed order is listed
\* under one day, by its cancellation or, when it was collected, by its creation,
\* and a range of days lists what its days do.  An open order is listed on the day
\* it was made and never after midnight, however late its pickup.  The finance
\* figures count today into the month, and their day differs from the lists' only
\* in the hours in which the two zones have different dates.
DaysPartition ==
    closedAs = "none" \/
    /\ closedAs = "COLLECTED" =>
           \A d \in Days : CompletedIn(DateRange(d, d)) = (d = ZonedDate(placedAt))
    /\ closedAs = "CANCELLED_BY_ADMIN" =>
           \A d \in Days : CancelledIn(DateRange(d, d)) = (d = ZonedDate(closedAt))
    /\ \A first, last \in Days : Accepted(DateRange(first, last)) =>
           /\ CompletedIn(DateRange(first, last)) =
                  \E d \in first..last : CompletedIn(DateRange(d, d))
           /\ CancelledIn(DateRange(first, last)) =
                  \E d \in first..last : CancelledIn(DateRange(d, d))
    /\ closedAs = "open" => PendingToday = (ZonedDate(placedAt) = ZonedDate(clock))
    /\ FinanceToday => FinanceMonth
    /\ LET businessToday == Within(placedAt, TodayRange) IN
       FinanceToday # businessToday => Tomorrow(clock) \/ Tomorrow(placedAt)
=============================================================================
