------------------------------ MODULE MCEngagement ------------------------------
(***************************************************************************)
(* Small instances, for TLC, of the components around an order: its expiry *)
(* job, the provider's answers, reviews, favourites, accounts, totals,     *)
(* pushes and the lists by day.  As in MCBackOffice, each behaviour moves  *)
(* one of them, the focus, and the others stay as they begin.              *)
(***************************************************************************)
EXTENDS Integers, FiniteSets

CONSTANTS Calls, Orders, Txs, Notes, NoNote, Devices, Blank,
          Attempts, BatchSize, Day, MonthDays,                   \* configured or fixed
          MaxLag, MaxErrors, MaxTokens, MaxPhrases, LastDay      \* bounds

ASSUME EngagementAssumption ==
    /\ Attempts \in 1..4
    /\ {BatchSize, Day, MonthDays} \subseteq Nat \ {0}
    /\ {MaxLag, MaxErrors, MaxTokens, MaxPhrases, LastDay} \subseteq Nat
    /\ IsFiniteSet(Orders)

VARIABLES
    focus,
    held, holdJob, lag,                                          \* HoldJobs
    collected, hasReviewed, reviews, revCall,
    reminder, notices, pushes, broken, halfDone,                 \* Reviews
    favourite, favCall, shouldShow, shouldNote,
    toggleOvertaken, saveOvertaken,                              \* Favourites
    users, userRow, devices, userCall,
    adminSaid, racing, together,                             \* UserAccounts
    placed, stats, tx, overtaken,                                \* Statistics
    given, position, messages, responses, result,                \* Notifications
    deed, answer, outcome,                                       \* WaafiMapper
    clock, placedAt, closedAt, closedAs                          \* DayRanges

Jobs    == INSTANCE HoldJobs
Rev     == INSTANCE Reviews
Fav     == INSTANCE Favourites
Users   == INSTANCE UserAccounts
Stats   == INSTANCE Statistics
Push    == INSTANCE Notifications
Mapper  == INSTANCE WaafiMapper
Ranges  == INSTANCE DayRanges

holdVars == <<held, holdJob, lag>>
reviewVars == <<collected, hasReviewed, reviews, revCall, reminder, notices, pushes, broken,
                halfDone>>
favouriteVars == <<favourite, favCall, shouldShow, shouldNote, toggleOvertaken, saveOvertaken>>
accountVars == <<users, userRow, devices, userCall, adminSaid, racing, together>>
statisticsVars == <<placed, stats, tx, overtaken>>
notificationVars == <<given, position, messages, responses, result>>
mapperVars == <<deed, answer, outcome>>
dayVars == <<clock, placedAt, closedAt, closedAs>>

----------------------------------------------------------------------------
Init ==
    /\ focus \in {"jobs", "reviews", "favourites", "users", "statistics", "pushes", "mapper",
                  "days"}
    /\ Jobs!Init /\ (focus # "jobs" => lag = 0)
    /\ Rev!Init /\ Fav!Init /\ Users!Init /\ Stats!Init /\ Ranges!Init
    /\ Push!Init /\ (focus # "pushes" => given = <<>>)
    /\ Mapper!Init
    /\ focus # "mapper" =>
           /\ deed = "declined" /\ answer.phrases = {"other"}
           /\ answer.code = "none" /\ answer.http2xx

Next ==
    /\ UNCHANGED focus
    /\ \/ focus = "jobs" /\ Jobs!Next
       \/ focus = "reviews" /\ Rev!Next
       \/ focus = "favourites" /\ Fav!Next
       \/ focus = "users" /\ Users!Next
       \/ focus = "statistics" /\ Stats!Next
       \/ focus = "pushes" /\ Push!Next
       \/ focus = "mapper" /\ Mapper!Next
       \/ focus = "days" /\ Ranges!Next
    /\ focus # "jobs" => UNCHANGED holdVars
    /\ focus # "reviews" => UNCHANGED reviewVars
    /\ focus # "favourites" => UNCHANGED favouriteVars
    /\ focus # "users" => UNCHANGED accountVars
    /\ focus # "statistics" => UNCHANGED statisticsVars
    /\ focus # "pushes" => UNCHANGED notificationVars
    /\ focus # "mapper" => UNCHANGED mapperVars
    /\ focus # "days" => UNCHANGED dayVars

vars == <<focus, holdVars, reviewVars, favouriteVars, accountVars, statisticsVars,
          notificationVars, mapperVars, dayVars>>

\* Where the jobs are not the focus no job is queued, and nothing is asked of the worker.
Spec == Init /\ [][Next]_vars /\ Jobs!Fairness

----------------------------------------------------------------------------
(* The properties of the components, under their names there. *)

\* Every component's variables keep their types.
TypeOK ==
    /\ Jobs!TypeOK /\ Rev!TypeOK /\ Fav!TypeOK /\ Users!TypeOK /\ Stats!TypeOK /\ Push!TypeOK
    /\ Mapper!TypeOK /\ Ranges!TypeOK

\* Hold jobs: a hold whose job was queued ends, or BullMQ gave the job up.
HoldJobEnds == Jobs!HoldJobEnds

\* Reviews: at most one review, and the order's flag tells of it.
ReviewedOnce == Rev!ReviewedOnce

\* Review reminders: pushes and notification rows add up with the attempts.
RemindersAddUp == Rev!RemindersAddUp

\* Favourites: the list shows what the calls did.
FavouritesFollow == Fav!FavouritesFollow

\* Users: one account per phone, the admin's word stands.
AccountsOnce == Users!AccountsOnce

\* Statistics: the totals in the user's row are those of his orders.
StatisticsRight == Stats!StatisticsRight

\* Notifications: one message per device, and the answer tells.
PushesReported == Push!PushesReported

\* WAAFI mapper: the outcome is what the provider did.
MapperAgrees == Mapper!MapperAgrees

\* Lists by day: each order under one day.
DaysPartition == Ranges!DaysPartition
=============================================================================
