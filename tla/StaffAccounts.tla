----------------------------- MODULE StaffAccounts -----------------------------
(***************************************************************************)
(* StaffService on staff accounts that exist: what the admins and the      *)
(* staff user change, and what overlapping calls do to one another.        *)
(*                                                                         *)
(* update, approve and disable write the named columns                     *)
(* (repository.update); changePassword, updateOwnProfile and remove save   *)
(* the entity they read, and with it every column changed since.           *)
(*                                                                         *)
(* One column stands for those that are written alike: profile for e-mail, *)
(* names and two_factor_enabled, active for is_active, approved and home   *)
(* for what approve and BusinessesService write.  Left out: login, lists   *)
(* and the checks of unique columns, which end a call as Abandon does.     *)
(***************************************************************************)
EXTENDS Integers

CONSTANTS Staff,      \* staff users
          Calls,      \* handler executions that may be in flight
          Values      \* values of a profile and of a password

VARIABLES
    staff,      \* the staff_users table
    staffCall,  \* the handlers in flight
    answered,   \* history: for each column what its last writer was answered
    staffStale  \* history: a save wrote back a column changed since it was read

staffVars == <<staff, staffCall, answered, staffStale>>

----------------------------------------------------------------------------
Row == [profile: Values, password: Values, active: BOOLEAN, approved: BOOLEAN,
        archived: BOOLEAN]

\* create: active, not approved, not archived.
NewRow(v) == [profile |-> v, password |-> v, active |-> TRUE, approved |-> FALSE,
              archived |-> FALSE]

Operation == {"update", "approve", "disable", "remove", "changePassword", "updateOwnProfile"}
SavesEntity == {"remove", "changePassword", "updateOwnProfile"}

TypeOK ==
    /\ staff \in [Staff -> Row]
    /\ answered \in [Staff -> Row]
    /\ staffCall \in [Calls -> [op: {"none"}] \cup [op: Operation, id: Staff, seen: Row]]
    /\ staffStale \in BOOLEAN

Idle == [op |-> "none"]

Init ==
    /\ \E v \in Values : staff = [s \in Staff |-> NewRow(v)]
    /\ answered = staff
    /\ staffCall = [c \in Calls |-> Idle]
    /\ staffStale = FALSE

Return(c) == staffCall' = [staffCall EXCEPT ![c] = Idle]

----------------------------------------------------------------------------
\* findOne by id; only remove skips archived staff.
FindStaff(c, s, op) ==
    /\ staffCall[c] = Idle
    /\ op = "remove" => ~staff[s].archived
    /\ staffCall' = [staffCall EXCEPT ![c] = [op |-> op, id |-> s, seen |-> staff[s]]]
    /\ UNCHANGED <<staff, answered, staffStale>>

\* Mutant: a column left out of update's request is written as NULL.
ChangedNulling(row, op, v, active) ==
    IF op = "update" THEN [row EXCEPT !.profile = "NULL", !.active = active] ELSE row

\* The columns an operation sets in row, with the values it was given.  update may
\* leave columns out; giving one the value it has comes to the same.
Changed(row, op, v, active) ==
    CASE op = "update"           -> [row EXCEPT !.profile = v, !.password = v, !.active = active]
      [] op = "approve"          -> [row EXCEPT !.approved = TRUE]
      [] op = "disable"          -> [row EXCEPT !.active = FALSE]
      [] op = "remove"           -> [row EXCEPT !.archived = TRUE]
      [] op = "changePassword"   -> [row EXCEPT !.password = v]
      [] op = "updateOwnProfile" -> [row EXCEPT !.profile = v]

\* changePassword refuses the password it read.
Accepted(c, v) ==
    staffCall[c].op = "changePassword" => v # staffCall[c].seen.password

\* Mutant: repository.update is given the whole entity that was read.
WriteAllColumns(c, v, active) ==
    LET s == staffCall[c].id
        op == staffCall[c].op
    IN
    /\ op \in Operation \ SavesEntity
    /\ staff' = [staff EXCEPT ![s] = Changed(staffCall[c].seen, op, v, active)]
    /\ answered' = [answered EXCEPT ![s] = Changed(@, op, v, active)]
    /\ Return(c)
    /\ UNCHANGED staffStale

\* update, approve, disable: only the named columns change.
WriteColumns(c, v, active) ==
    LET s == staffCall[c].id
        op == staffCall[c].op
    IN
    /\ op \in Operation \ SavesEntity
    /\ staff' = [staff EXCEPT ![s] = Changed(@, op, v, active)]
    /\ answered' = [answered EXCEPT ![s] = Changed(@, op, v, active)]
    /\ Return(c)
    /\ UNCHANGED staffStale

\* changePassword, updateOwnProfile, remove
SaveStaff(c, v, active) ==
    LET s == staffCall[c].id
        op == staffCall[c].op
    IN
    /\ op \in SavesEntity
    /\ Accepted(c, v)
    /\ staff' = [staff EXCEPT ![s] = Changed(staffCall[c].seen, op, v, active)]
    /\ answered' = [answered EXCEPT ![s] = Changed(@, op, v, active)]
    /\ staffStale' = (staffStale \/ staff[s] # staffCall[c].seen)
    /\ Return(c)

\* The process dies, a check of a unique column or of the old password fails, or
\* the database refuses the write.
Abandon(c) ==
    /\ staffCall[c] # Idle
    /\ Return(c)
    /\ UNCHANGED <<staff, answered, staffStale>>

----------------------------------------------------------------------------
Handler(c) ==
    \/ \E s \in Staff, op \in Operation : FindStaff(c, s, op)
    \/ \E v \in Values, active \in BOOLEAN : WriteColumns(c, v, active) \/ SaveStaff(c, v, active)
    \/ Abandon(c)

Next == \E c \in Calls : Handler(c)

Spec == Init /\ [][Next]_staffVars

----------------------------------------------------------------------------
\* An account shows, column by column, what the last call that set the column
\* was answered, however calls overlap, unless a stale save came between: a
\* changed profile then enables a disabled account again, takes an approval
\* back or restores the former password, and nobody is told.
LastAnswerStands == staffStale \/ staff = answered
=============================================================================
