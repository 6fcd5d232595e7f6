------------------------------ MODULE UserAccounts ------------------------------
(***************************************************************************)
(* The app user of one phone number: UsersService.registerFromApp,         *)
(* verifyOtpFromApp, updateStatus and remove, and AuthService's            *)
(* requestPhoneOtp and verifyPhoneOtp, which do the same without a device. *)
(*                                                                         *)
(* No call has a transaction.  phone_e164 is unique, and a user that was   *)
(* removed keeps it: the row is only marked deleted, which every find      *)
(* leaves out and the unique index does not.  user_devices has no unique   *)
(* pair of user and device.                                                *)
(***************************************************************************)
EXTENDS Naturals

CONSTANT Calls   \* requests that may be in flight

VARIABLES
    users,       \* rows of app_users with this phone number
    userRow,     \* that row: its status, whether it is deleted
    devices,     \* rows of user_devices for this user and device
    userCall,    \* the requests in flight
    adminSaid,   \* history: the status an admin set last
    racing,      \* history: verifications that had read PENDING when the admin set it
    together     \* history: a device was inserted while another call was to insert it

accountVars == <<users, userRow, devices, userCall, adminSaid, racing, together>>

----------------------------------------------------------------------------
\* SUSPENDED stands for the statuses only an admin sets.
UserStatus == {"PENDING", "ACTIVE", "SUSPENDED"}
NoUser == [status |-> "PENDING", deleted |-> FALSE]

TypeOK ==
    /\ users \in Nat /\ devices \in Nat
    /\ userRow \in [status: UserStatus, deleted: BOOLEAN]
    /\ userCall \in [Calls -> {"idle", "insertUser", "findDevice", "insertDevice",
                               "saveDevice", "noteDevice", "activate", "login"}]
    /\ adminSaid \in UserStatus \cup {"none"}
    /\ racing \in SUBSET Calls /\ together \in BOOLEAN

Init ==
    /\ users = 0 /\ devices = 0
    /\ userRow = NoUser
    /\ userCall = [c \in Calls |-> "idle"]
    /\ adminSaid = "none"
    /\ racing = {} /\ together = FALSE

Goto(c, pc) == userCall' = [userCall EXCEPT ![c] = pc]

\* findOne({ phone_e164 }): soft-deleted rows are left out.
Found == users > 0 /\ ~userRow.deleted

----------------------------------------------------------------------------
\* registerFromApp and requestPhoneOtp; the app registers with its device or without.
FindUser(c) ==
    /\ userCall[c] = "idle"
    /\ \/ ~Found /\ Goto(c, "insertUser")
       \/ Found /\ Goto(c, "findDevice")
    /\ UNCHANGED <<users, userRow, devices, adminSaid, racing, together>>

\* The unique phone refuses a second row, of a removed user, too (Abandon).
InsertUser(c) ==
    /\ userCall[c] = "insertUser"
    /\ users = 0
    /\ users' = 1
    /\ \E next \in {"idle", "findDevice"} : Goto(c, next)
    /\ UNCHANGED <<userRow, devices, adminSaid, racing, together>>

\* upsertDevice, or the end of a registration without one.
FindDevice(c) ==
    /\ userCall[c] = "findDevice"
    /\ \E next \in {"idle", IF devices = 0 THEN "insertDevice" ELSE "saveDevice"} : Goto(c, next)
    /\ UNCHANGED <<users, userRow, devices, adminSaid, racing, together>>

InsertDevice(c) ==
    /\ userCall[c] = "insertDevice"
    /\ devices' = devices + 1
    /\ together' = (together \/ \E d \in Calls \ {c} : userCall[d] = "insertDevice")
    /\ Goto(c, "noteDevice")
    /\ UNCHANGED <<users, userRow, adminSaid, racing>>

\* The device's token and versions, then the user's last_login_device.
SaveDevice(c) ==
    /\ userCall[c] = "saveDevice"
    /\ Goto(c, "noteDevice")
    /\ UNCHANGED <<users, userRow, devices, adminSaid, racing, together>>

NoteDevice(c) ==
    /\ userCall[c] = "noteDevice"
    /\ Goto(c, "idle")
    /\ UNCHANGED <<users, userRow, devices, adminSaid, racing, together>>

----------------------------------------------------------------------------
\* Mutant: any user is activated, whatever the status that was read.
VerifyAnyUser(c) ==
    /\ userCall[c] = "idle"
    /\ Found
    /\ Goto(c, "activate")
    /\ UNCHANGED <<users, userRow, devices, adminSaid, racing, together>>

\* verifyOtpFromApp and verifyPhoneOtp with the right code: the status is read here.
VerifyUser(c) ==
    /\ userCall[c] = "idle"
    /\ Found
    /\ Goto(c, IF userRow.status = "PENDING" THEN "activate" ELSE "login")
    /\ UNCHANGED <<users, userRow, devices, adminSaid, racing, together>>

\* update(id, { status: ACTIVE }), deleted or not.
ActivateUser(c) ==
    /\ userCall[c] = "activate"
    /\ userRow' = [userRow EXCEPT !.status = "ACTIVE"]
    /\ Goto(c, "login")
    /\ UNCHANGED <<users, devices, adminSaid, racing, together>>

\* The login columns of the row; the caller is given its tokens.
LoginUser(c) ==
    /\ userCall[c] = "login"
    /\ Goto(c, "idle")
    /\ UNCHANGED <<users, userRow, devices, adminSaid, racing, together>>

\* An insert is refused, a statement throws or the process dies.
Abandon(c) ==
    /\ userCall[c] # "idle"
    /\ Goto(c, "idle")
    /\ UNCHANGED <<users, userRow, devices, adminSaid, racing, together>>

----------------------------------------------------------------------------
\* update({ id }, { status }), then findOne answers the row.
UpdateStatus(s) ==
    /\ Found
    /\ userRow' = [userRow EXCEPT !.status = s]
    /\ adminSaid' = s
    /\ racing' = {c \in Calls : userCall[c] = "activate"}
    /\ UNCHANGED <<users, devices, userCall, together>>

\* softDelete
RemoveUser ==
    /\ Found
    /\ userRow' = [userRow EXCEPT !.deleted = TRUE]
    /\ UNCHANGED <<users, devices, userCall, adminSaid, racing, together>>

Register(c) ==
    \/ FindUser(c) \/ InsertUser(c) \/ FindDevice(c) \/ InsertDevice(c) \/ SaveDevice(c)
    \/ NoteDevice(c)
Verify(c) == VerifyUser(c) \/ ActivateUser(c) \/ LoginUser(c)

Next ==
    \/ \E c \in Calls : Register(c) \/ Verify(c) \/ Abandon(c)
    \/ \E s \in UserStatus : UpdateStatus(s)
    \/ RemoveUser

Spec == Init /\ [][Next]_accountVars

----------------------------------------------------------------------------
\* A phone number has one row however its registrations overlap.  The status an
\* admin set stands but for the activation of a PENDING user, unless a
\* verification had read PENDING before the admin suspended the user.  A device has one row
\* unless two registrations inserted it at the same time.
AccountsOnce ==
    /\ users <= 1
    /\ \/ adminSaid = "none" \/ racing # {}
       \/ userRow.status = adminSaid
       \/ adminSaid = "PENDING" /\ userRow.status = "ACTIVE"
    /\ devices > 1 => together
=============================================================================
