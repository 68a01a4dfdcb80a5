---------------------------- MODULE DriverAccess ----------------------------
(***************************************************************************)
(* How one driver gets in: by an account and web sessions (/app,           *)
(* driver-pwa.routes.js), by an activated phone (driver.routes.js,         *)
(* requireDeviceAuth.js), and what the office does to both and to the      *)
(* driver (driver-pwa-admin.routes.js, driver.routes.js).                  *)
(*                                                                         *)
(* A handler that reads before it writes holds a slot in between: the      *)
(* middleware's query, or a SELECT without FOR UPDATE, is one step, and    *)
(* the transaction or the UPDATE that ends the handler another.            *)
(***************************************************************************)
EXTENDS Naturals

CONSTANTS Names, Passwords, Handlers, NoRow,
          MaxSessions, MaxAccount, MaxTokens, MaxServed \* bounds; MaxAccount is the account's version

VARIABLES driver,   \* drivers: the row, which is never deleted
          records,  \* driver_name in tours, hotels, work_times and the rest
          account,  \* driver_accounts, or NoRow
          session,  \* driver_web_sessions, by number
          device,   \* driver_devices: the driver's phone
          phone,    \* the token that the phone keeps
          handler,  \* Handlers -> the one that is between its steps
          served,   \* requests so far
          \* History, read by no action:
          blind,    \* a name was written over one that the handler had not read
          out       \* the driver was deleted, and no activation came since

driverVars == <<driver, records, account, session, device, phone, handler, served, blind, out>>
web == <<account, session>>
mobile == <<device, phone, out>>
person == <<driver, records, blind>>

Sessions == 1..MaxSessions
Unused == [kind |-> "idle"]

Account == [password : Passwords, version : 1..MaxAccount, must : BOOLEAN, active : BOOLEAN]
WebSession == [password : Passwords, version : 1..MaxAccount, live : BOOLEAN]

ASSUME DriverAssumption ==
    MaxAccount \in Nat \ {0} /\ MaxTokens \in Nat /\ NoRow \notin Account /\ NoRow \notin WebSession

DriverTypeOK ==
    /\ driver \in [name : Names, active : BOOLEAN] /\ records \in Names
    /\ account # NoRow => account \in Account
    /\ \A x \in Sessions : session[x] # NoRow => session[x] \in WebSession /\ session[x].version =< account.version
    /\ device \in [token : 0..MaxTokens, active : BOOLEAN] /\ phone \in 0..MaxTokens

\* A request of its own, or one that comes in two steps.
Serve == served < MaxServed /\ served' = served + 1
Begin(s, r) == /\ handler[s] = Unused /\ Serve /\ handler' = [handler EXCEPT ![s] = r]
End(s, kind) == /\ handler[s].kind = kind /\ handler' = [handler EXCEPT ![s] = Unused] /\ UNCHANGED served

-----------------------------------------------------------------------------
(* Web sessions *)

UsableByFlags(x) == /\ session[x] # NoRow /\ session[x].live
                    /\ account.active /\ driver.active
\* loadDriverSession
Usable(x) == UsableByFlags(x) /\ session[x].version = account.version

\* createDriverSession; password is the one that was verified or set.
OpenSession(x, version, password) == [version |-> version, password |-> password, live |-> TRUE]
Revoked == [x \in Sessions |-> IF session[x] = NoRow THEN NoRow ELSE [session[x] EXCEPT !.live = FALSE]]

\* The password is verified outside any transaction.
Login(s, password) ==
    /\ account # NoRow /\ account.password = password /\ account.active /\ driver.active
    /\ Begin(s, [kind |-> "login", version |-> account.version, password |-> password])
    /\ UNCHANGED <<web, mobile, person>>

LoginCommit(s) ==
    /\ End(s, "login")
    /\ \E x \in Sessions : session[x] = NoRow /\ session' = [session EXCEPT ![x] = OpenSession(x, handler[s].version, handler[s].password)]
    /\ UNCHANGED <<account, mobile, person>>

\* attachSession, requireSession: the session is not looked at again.
ChangePassword(s, x) ==
    /\ Usable(x) /\ Begin(s, [kind |-> "password", session |-> x])
    /\ UNCHANGED <<web, mobile, person>>

\* The account is locked; a password that it has already is refused.
ChangePasswordCommit(s, password) ==
    /\ End(s, "password") /\ UNCHANGED <<mobile, person>>
    /\ IF password = account.password THEN UNCHANGED web ELSE
       /\ account.version < MaxAccount
       /\ account' = [account EXCEPT !.password = password, !.version = @ + 1, !.must = FALSE]
       /\ \E x \in Sessions : session[x] = NoRow /\ session' = [Revoked EXCEPT ![x] = OpenSession(x, account'.version, password)]

Logout(x) ==
    /\ Usable(x) /\ Serve /\ session' = [session EXCEPT ![x].live = FALSE]
    /\ UNCHANGED <<account, mobile, person, handler>>

\* expires_at passes.
Expire(x) ==
    /\ session[x] # NoRow /\ session' = [session EXCEPT ![x].live = FALSE]
    /\ UNCHANGED <<account, mobile, person, handler, served>>

\* The office gives an account, or a new temporary password; it does not enable.
Provisioned(password) ==
    IF account = NoRow THEN [password |-> password, version |-> 1, must |-> TRUE, active |-> TRUE]
    ELSE [account EXCEPT !.password = password, !.version = @ + 1, !.must = TRUE]

Office(newAccount, newSession) ==
    /\ Serve /\ account' = newAccount /\ session' = newSession
    /\ UNCHANGED <<mobile, person, handler>>

Provision(password) ==
    /\ account # NoRow => account.version < MaxAccount /\ account.password # password
    /\ Office(Provisioned(password), Revoked)
ResetPassword(password) ==
    /\ account # NoRow /\ account.version < MaxAccount /\ account.password # password
    /\ Office([account EXCEPT !.password = password, !.version = @ + 1, !.must = TRUE], Revoked)
Enable == account # NoRow /\ Office([account EXCEPT !.active = TRUE], session)
Disable == account # NoRow /\ Office([account EXCEPT !.active = FALSE], Revoked)
RevokeSessions == account # NoRow /\ Office(account, Revoked)

-----------------------------------------------------------------------------
(* The phone *)

\* The code is looked up in one query, the device stored by the next.
Activate(s) ==
    /\ driver.active /\ Begin(s, [kind |-> "activate"])
    /\ UNCHANGED <<web, mobile, person>>
ActivateWrite(s) ==
    /\ End(s, "activate") /\ device.token < MaxTokens
    /\ device' = [token |-> device.token + 1, active |-> TRUE]
    /\ phone' = device'.token /\ out' = FALSE
    /\ UNCHANGED <<web, person>>

\* requireDeviceAuth
GetsIn == phone > 0 /\ phone = device.token /\ device.active /\ driver.active

SyncProfile(s) ==
    /\ GetsIn /\ Begin(s, [kind |-> "profile", name |-> driver.name])
    /\ UNCHANGED <<web, mobile, person>>
SyncProfileRead(s) ==
    /\ handler[s].kind = "profile"
    /\ handler' = [handler EXCEPT ![s] = [kind |-> "rename", old |-> driver.name, new |-> @.name, active |-> TRUE]]
    /\ UNCHANGED <<web, mobile, person, served>>

Unlink(s) ==
    /\ GetsIn /\ Begin(s, [kind |-> "unlink"])
    /\ UNCHANGED <<web, mobile, person>>
UnlinkWrite(s) ==
    /\ End(s, "unlink") /\ device' = [device EXCEPT !.active = FALSE]
    /\ UNCHANGED <<web, phone, out, person>>

\* The office reads the new token, and the phone keeps the one it has.
RotateToken ==
    /\ Serve /\ device.token \in 1..(MaxTokens - 1) /\ device' = [device EXCEPT !.token = @ + 1]
    /\ UNCHANGED <<web, phone, out, person, handler>>

UnlinkDevices ==
    /\ Serve /\ device' = [device EXCEPT !.active = FALSE]
    /\ UNCHANGED <<web, phone, out, person, handler>>

-----------------------------------------------------------------------------
(* The driver *)

SaveDriver(s, name, active) ==
    /\ Begin(s, [kind |-> "rename", old |-> driver.name, new |-> name, active |-> active])
    /\ UNCHANGED <<web, mobile, person>>

\* The records of the old name take the new one, on any change of name.
CascadeUnlessInactive(r) == IF r.old # r.new /\ r.active /\ records = r.old THEN r.new ELSE records
Cascade(r) == IF r.old # r.new /\ records = r.old THEN r.new ELSE records

RenameCommit(s) ==
    /\ End(s, "rename")
    /\ driver' = [name |-> handler[s].new, active |-> handler[s].active]
    /\ records' = Cascade(handler[s])
    /\ blind' = (blind \/ handler[s].old # driver.name)
    /\ UNCHANGED <<web, mobile>>

\* Two UPDATEs, each a transaction: the driver, then the devices.
DeleteDriver(s) ==
    /\ Begin(s, [kind |-> "delete"])
    /\ driver' = [driver EXCEPT !.active = FALSE]
    /\ UNCHANGED <<web, mobile, records, blind>>
DevicesOff == [device EXCEPT !.active = FALSE]
DeleteDevices(s) ==
    /\ End(s, "delete") /\ device' = DevicesOff
    /\ out' = (\A t \in Handlers : handler[t].kind # "activate")
    /\ UNCHANGED <<web, phone, person>>
\* The process stops in between.
Stop(s) ==
    /\ handler[s].kind # "idle" /\ handler' = [handler EXCEPT ![s] = Unused]
    /\ UNCHANGED <<web, mobile, person, served>>

-----------------------------------------------------------------------------
DriverInit ==
    /\ driver \in [name : Names, active : {TRUE}] /\ records = driver.name
    /\ account = NoRow /\ session = [x \in Sessions |-> NoRow]
    /\ device = [token |-> 0, active |-> FALSE] /\ phone = 0
    /\ handler = [s \in Handlers |-> Unused] /\ served = 0
    /\ blind = FALSE /\ out = FALSE

DriverNext ==
    \/ \E s \in Handlers :
          \/ \E p \in Passwords : Login(s, p) \/ ChangePasswordCommit(s, p)
          \/ \E x \in Sessions : ChangePassword(s, x)
          \/ LoginCommit(s) \/ Activate(s) \/ ActivateWrite(s)
          \/ SyncProfile(s) \/ SyncProfileRead(s) \/ Unlink(s) \/ UnlinkWrite(s)
          \/ \E n \in Names, b \in BOOLEAN : SaveDriver(s, n, b)
          \/ RenameCommit(s) \/ DeleteDriver(s) \/ DeleteDevices(s) \/ Stop(s)
    \/ \E x \in Sessions : Logout(x) \/ Expire(x)
    \/ \E p \in Passwords : Provision(p) \/ ResetPassword(p)
    \/ Enable \/ Disable \/ RevokeSessions \/ UnlinkDevices \/ RotateToken

DriverSpec == DriverInit /\ [][DriverNext]_driverVars

(* A session that lets the driver in was opened with the password the account
   has now, whatever was changed or reset while a login was under way
   (driver-pwa.routes.js 137-147, driver-session.js 63-65). *)
OldPasswordsOpenNothing == \A x \in Sessions : Usable(x) => session[x].password = account.password

(* The records of a driver carry another name than the driver only after a
   handler wrote a name over one that it had not read (driver.routes.js 133,
   151, 211, 228). *)
NamesPartOnlyBlindly == records # driver.name => blind

(* When a driver has been deleted to the end and no activation was under way,
   the phone stays out until it is activated again, even when the driver is
   activated (driver.routes.js 141, 219, 253-260). *)
DeletedDriversPhonesStayOut == out => ~GetsIn

(* Both: what the office changes of a driver reaches the records and the phone. *)
RenamesAndDeletionsAreWhole == NamesPartOnlyBlindly /\ DeletedDriversPhonesStayOut

=============================================================================
