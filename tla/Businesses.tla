------------------------------ MODULE Businesses ------------------------------
(***************************************************************************)
(* BusinessesService: businesses, their verification, their removal and    *)
(* their primary staff, who is kept twice: business.primary_staff_id and   *)
(* staff.business_id.                                                      *)
(*                                                                         *)
(* No handler locks a row.  Each reads the business and later saves the    *)
(* whole entity; save compares it with the row of that moment and writes   *)
(* every column that differs, also those another handler changed since.    *)
(*                                                                         *)
(* Some handlers of StaffService save the staff user they read, the        *)
(* business_id included; they are here as far as they move that.           *)
(*                                                                         *)
(* Left out: texts, location, accounts, opening hours, status and who      *)
(* reviewed.  Images are in ImageRows.  toggleStatus changes nothing: its  *)
(* DTO admits only booleans, which the column's enum refuses.              *)
(***************************************************************************)
EXTENDS Integers, FiniteSets

CONSTANTS Business,   \* ids of the businesses that may be created
          Staff,      \* staff users
          Calls,      \* handler executions that may be in flight
          None        \* NULL

VARIABLES
    biz,      \* the businesses table
    home,     \* staff_users.business_id
    bizCall,  \* the handlers in flight
    homeCall, \* the handlers of StaffService in flight, one for a staff user
    review,   \* history: the last review each business was answered to have
    removed,  \* history: the businesses whose removal was answered
    shared,   \* history: a staff user became primary of a second business
    stale,    \* history: a save wrote back a column changed since it was read
    misplaced \* history: a handler of StaffService wrote back a home it read

bizVars == <<biz, home, bizCall, homeCall, review, removed, shared, stale, misplaced>>
staffSaveVars == <<homeCall, misplaced>>

----------------------------------------------------------------------------
Row == [exists: BOOLEAN, archived: BOOLEAN, primary: Staff \cup {None},
        verification: {"PENDING", "VERIFIED", "REJECTED"}]

NoRow == [exists |-> FALSE, archived |-> FALSE, primary |-> None, verification |-> "PENDING"]

Operation == {"update", "remove", "settings", "approve", "reject"}
Idle == [op |-> "none", id |-> None, seen |-> NoRow]
NoSave == [saves |-> FALSE, seen |-> None]

TypeOK ==
    /\ biz \in [Business -> Row]
    /\ home \in [Staff -> Business \cup {None}]
    /\ bizCall \in [Calls -> [op: Operation \cup {"none"}, id: Business \cup {None}, seen: Row]]
    /\ homeCall \in [Staff -> [saves: BOOLEAN, seen: Business \cup {None}]]
    /\ review \in [Business -> {"PENDING", "VERIFIED", "REJECTED"}]
    /\ removed \in SUBSET Business
    /\ shared \in BOOLEAN /\ stale \in BOOLEAN /\ misplaced \in BOOLEAN

\* The staff users exist and belong to no business.
Init ==
    /\ biz = [b \in Business |-> NoRow]
    /\ home = [s \in Staff |-> None]
    /\ bizCall = [c \in Calls |-> Idle]
    /\ homeCall = [s \in Staff |-> NoSave]
    /\ review = [b \in Business |-> "PENDING"]
    /\ removed = {}
    /\ shared = FALSE /\ stale = FALSE /\ misplaced = FALSE

Return(c) == bizCall' = [bizCall EXCEPT ![c] = Idle]

\* s is about to become the primary staff of b as well as of another business.
Shares(b, s) == \E other \in Business \ {b} : biz[other].primary = s

----------------------------------------------------------------------------
\* create: one transaction inserts the business and moves its primary staff.
Create(b, s) ==
    /\ ~biz[b].exists
    /\ biz' = [biz EXCEPT ![b] = [exists |-> TRUE, archived |-> FALSE, primary |-> s,
                                  verification |-> "PENDING"]]
    /\ home' = [home EXCEPT ![s] = b]
    /\ shared' = (shared \/ Shares(b, s))
    /\ UNCHANGED <<bizCall, review, removed, stale, staffSaveVars>>

(* Every other handler starts with a findOne that skips archived businesses. *)
Reviewable(op, row) ==
    /\ op = "approve" => row.verification # "VERIFIED"
    /\ op = "reject"  => row.verification # "REJECTED"

FindBusiness(c, b, op) ==
    /\ bizCall[c] = Idle
    /\ biz[b].exists /\ ~biz[b].archived
    /\ Reviewable(op, biz[b])
    /\ bizCall' = [bizCall EXCEPT ![c] = [op |-> op, id |-> b, seen |-> biz[b]]]
    /\ UNCHANGED <<biz, home, review, removed, shared, stale, staffSaveVars>>

Reviewed(op, row) ==
    [row EXCEPT !.verification = IF op = "approve" THEN "VERIFIED" ELSE "REJECTED"]

\* repository.save: every column becomes that of the entity.
SaveBusiness(c, entity) ==
    LET b == bizCall[c].id IN
    /\ biz' = [biz EXCEPT ![b] = entity]
    /\ stale' = (stale \/ biz[b] # bizCall[c].seen)
    /\ Return(c)

\* Mutant: the former primary staff is left where they were.
MovePrimaryForgetful(old, s, b) == [home EXCEPT ![s] = b]

MovePrimary(old, s, b) ==
    [t \in Staff |-> IF t = s THEN b ELSE IF t = old THEN None ELSE home[t]]

\* update: both staff rows and the business are committed together, but the
\* former primary staff is the one that was read.  s is None when the request
\* leaves the primary staff alone.
UpdateBusiness(c, s) ==
    LET b == bizCall[c].id
        seen == bizCall[c].seen
    IN
    /\ bizCall[c].op = "update"
    /\ SaveBusiness(c, [seen EXCEPT !.primary = IF s = None THEN @ ELSE s])
    /\ IF s \notin {None, seen.primary}
       THEN /\ home' = MovePrimary(seen.primary, s, b)
            /\ shared' = (shared \/ Shares(b, s))
       ELSE UNCHANGED <<home, shared>>
    /\ UNCHANGED <<review, removed, staffSaveVars>>

RemoveBusiness(c) ==
    /\ bizCall[c].op = "remove"
    /\ SaveBusiness(c, [bizCall[c].seen EXCEPT !.archived = TRUE])
    /\ removed' = removed \cup {bizCall[c].id}
    /\ UNCHANGED <<home, review, shared, staffSaveVars>>

\* updateBusinessSettings: every column the model keeps stays as it was read.
UpdateBusinessSettings(c) ==
    /\ bizCall[c].op = "settings"
    /\ SaveBusiness(c, bizCall[c].seen)
    /\ UNCHANGED <<home, review, removed, shared, staffSaveVars>>

\* approveBusiness, rejectBusiness
ReviewBusiness(c) ==
    LET op == bizCall[c].op IN
    /\ op \in {"approve", "reject"}
    /\ SaveBusiness(c, Reviewed(op, bizCall[c].seen))
    /\ review' = [review EXCEPT ![bizCall[c].id] =
                     IF op = "approve" THEN "VERIFIED" ELSE "REJECTED"]
    /\ UNCHANGED <<home, removed, shared, staffSaveVars>>

\* The process dies, the settings call may not manage the business, or the
\* database refuses the save (update's transaction takes its staff rows back).
Abandon(c) ==
    /\ bizCall[c] # Idle
    /\ Return(c)
    /\ UNCHANGED <<biz, home, review, removed, shared, stale, staffSaveVars>>

----------------------------------------------------------------------------
(* StaffService: remove, changePassword and updateOwnProfile read a staff user, *)
(* change other columns and save the entity with the business_id they read.     *)
FindStaff(s) ==
    /\ ~homeCall[s].saves
    /\ homeCall' = [homeCall EXCEPT ![s] = [saves |-> TRUE, seen |-> home[s]]]
    /\ UNCHANGED <<biz, home, bizCall, review, removed, shared, stale, misplaced>>

SaveStaff(s) ==
    /\ homeCall[s].saves
    /\ home' = [home EXCEPT ![s] = homeCall[s].seen]
    /\ misplaced' = (misplaced \/ home[s] # homeCall[s].seen)
    /\ homeCall' = [homeCall EXCEPT ![s] = NoSave]
    /\ UNCHANGED <<biz, bizCall, review, removed, shared, stale>>

\* A wrong password, a taken e-mail or a crash: nothing is saved.
AbandonStaff(s) ==
    /\ homeCall[s].saves
    /\ homeCall' = [homeCall EXCEPT ![s] = NoSave]
    /\ UNCHANGED <<biz, home, bizCall, review, removed, shared, stale, misplaced>>

----------------------------------------------------------------------------
Handler(c) ==
    \/ \E b \in Business, op \in Operation : FindBusiness(c, b, op)
    \/ \E s \in Staff \cup {None} : UpdateBusiness(c, s)
    \/ RemoveBusiness(c) \/ UpdateBusinessSettings(c) \/ ReviewBusiness(c)
    \/ Abandon(c)

Next ==
    \/ \E b \in Business, s \in Staff : Create(b, s)
    \/ \E c \in Calls : Handler(c)
    \/ \E s \in Staff : FindStaff(s) \/ SaveStaff(s) \/ AbandonStaff(s)

Spec == Init /\ [][Next]_bizVars

----------------------------------------------------------------------------
\* The two copies of the primary staff agree: a business's primary staff belongs
\* to it, and nobody else does.  Changing the primary staff, in whatever order
\* handlers overlap, keeps that, except after a stale save of a business (a staff
\* user is left behind) or of a staff user (who is taken back to the business
\* left), and after one staff user was made primary of two businesses: then
\* changing either's primary sends the other's primary staff home.
PrimaryBelongs ==
    \/ stale \/ misplaced \/ shared
    \/ \A b \in Business, s \in Staff : biz[b].primary = s <=> home[s] = b

\* What an admin was told of a review or a removal still shows, unless a save of
\* an entity read before it came after: then a verified business is pending
\* again, a rejected one verified, or a removed one back in the lists.
AnswersKept ==
    \/ stale
    \/ /\ \A b \in Business : biz[b].verification = review[b]
       /\ \A b \in removed : biz[b].archived
=============================================================================
