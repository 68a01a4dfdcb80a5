---------------------------- MODULE PhoneProofs ----------------------------
(***************************************************************************)
(* What holds of a driver's ways in, of a driver's current tour and of the *)
(* app's diagnostics agent, whatever the names, passwords, drivers, tours  *)
(* and threads, and however many handlers, connections, requests and       *)
(* events: an invariant of each that every step keeps, and the properties  *)
(* that follow from it.                                                    *)
(***************************************************************************)
EXTENDS DriverAccess, CurrentTour, NdpAgent, Integers, FiniteSetTheorems, TLAPS

-----------------------------------------------------------------------------
(* A driver's ways in: the inductive invariant *)

\* A login that has verified the password, and not yet stored the session.
LoginRequest == [kind : {"login"}, version : 1..MaxAccount, password : Passwords]

\* A change of the driver's row, with the name that the handler read.
RenameRequest == [kind : {"rename"}, old : Names, new : Names, active : BOOLEAN]

\* All that a handler may hold between its steps.
HandlerRequests ==
    {Unused} \cup LoginRequest \cup RenameRequest
    \cup [kind : {"password"}, session : Sessions] \cup [kind : {"profile"}, name : Names]
    \cup [kind : {"activate", "unlink", "delete"}]

\* The types, in full.
Typed ==
    /\ driver \in [name : Names, active : BOOLEAN] /\ records \in Names
    /\ account \in Account \cup {NoRow}
    /\ session \in [Sessions -> WebSession \cup {NoRow}]
    /\ device \in [token : 0..MaxTokens, active : BOOLEAN] /\ phone \in 0..MaxTokens
    /\ handler \in [Handlers -> HandlerRequests]
    /\ blind \in BOOLEAN /\ out \in BOOLEAN

\* A version, and the password that was verified or set with it, are not
\* newer than the account; the account's own version goes with its own
\* password.
Fits(v, p) == account # NoRow /\ v =< account.version /\ (v = account.version => p = account.password)

\* So it is for every session, and for every login that is under way; a
\* password is changed of an account that there is.
Backed ==
    /\ \A x \in Sessions : session[x] # NoRow => Fits(session[x].version, session[x].password)
    /\ \A s \in Handlers : handler[s].kind = "login" => Fits(handler[s].version, handler[s].password)
    /\ \A s \in Handlers : handler[s].kind = "password" => account # NoRow

\* The history says what the properties ask for.
DriverTold == (~blind => records = driver.name) /\ (out => ~device.active)

\* The inductive invariant.
DriverInv == Typed /\ Backed /\ DriverTold

\* The fields of a request, by its kind.
LEMMA KindsOf ==
  ASSUME NEW r \in HandlerRequests
  PROVE  /\ r.kind = "login" => r.version \in 1..MaxAccount /\ r.password \in Passwords
         /\ r.kind = "rename" => r.old \in Names /\ r.new \in Names /\ r.active \in BOOLEAN
         /\ r.kind = "password" => r.session \in Sessions
         /\ r.kind = "profile" => r.name \in Names
BY DEF HandlerRequests, LoginRequest, RenameRequest, Unused

\* One handler goes on, the others stay.
LEMMA HandlerKept ==
  ASSUME Typed, NEW s \in Handlers, NEW r \in HandlerRequests,
         handler' = [handler EXCEPT ![s] = r]
  PROVE  /\ handler' \in [Handlers -> HandlerRequests]
         /\ handler'[s] = r
         /\ \A t \in Handlers : t # s => handler'[t] = handler[t]
BY DEF Typed

\* A handler that notes its request disturbs neither sessions nor logins.
LEMMA Noted ==
  ASSUME Typed, Backed, NEW s \in Handlers, NEW r \in HandlerRequests,
         handler' = [handler EXCEPT ![s] = r], UNCHANGED web,
         r.kind = "login" => Fits(r.version, r.password),
         r.kind = "password" => account # NoRow
  PROVE  handler' \in [Handlers -> HandlerRequests] /\ Backed'
<1>1. handler' \in [Handlers -> HandlerRequests] /\ handler'[s] = r
      /\ \A t \in Handlers : t # s => handler'[t] = handler[t]
  BY HandlerKept
<1>2. account' = account /\ session' = session
  BY DEF web
<1>3. \A t \in Handlers : handler'[t].kind = "login" => Fits(handler'[t].version, handler'[t].password)
  BY <1>1 DEF Backed
<1>4. \A t \in Handlers : handler'[t].kind = "password" => account # NoRow
  BY <1>1 DEF Backed
<1> QED
  BY <1>1, <1>2, <1>3, <1>4 DEF Backed, Fits

\* A free handler holds nothing.
LEMMA Freed ==
  ASSUME NEW s \in Handlers
  PROVE  Unused \in HandlerRequests /\ Unused.kind = "idle"
BY DEF Unused, HandlerRequests

\* A new password comes with a new version, so no older session or login goes
\* with it.
LEMMA Changed ==
  ASSUME Typed, Backed, NEW a \in Account, NEW S \in [Sessions -> WebSession \cup {NoRow}],
         account' = a, session' = S,
         account # NoRow => \/ a.version = account.version + 1
                            \/ a.version = account.version /\ a.password = account.password,
         handler' \in [Handlers -> HandlerRequests],
         \A s \in Handlers : handler'[s] = handler[s] \/ handler'[s] = Unused,
         \A x \in Sessions : S[x] # NoRow =>
            \/ session[x] # NoRow /\ S[x].version = session[x].version /\ S[x].password = session[x].password
            \/ S[x].version = a.version /\ S[x].password = a.password
  PROVE  Backed' /\ account' \in Account \cup {NoRow} /\ session' \in [Sessions -> WebSession \cup {NoRow}]
<1>1. a # NoRow /\ a.version \in Int
  BY DriverAssumption DEF Account
<1>2. ASSUME NEW v \in Int, NEW p, Fits(v, p)
      PROVE  v =< a.version /\ (v = a.version => p = a.password)
  <2>1. account # NoRow /\ account.version \in Int
    BY <1>2 DEF Typed, Account, Fits
  <2>2. CASE a.version = account.version + 1
    BY <1>2, <2>1, <2>2 DEF Fits
  <2>3. CASE a.version = account.version /\ a.password = account.password
    BY <1>2, <2>1, <2>3 DEF Fits
  <2> QED
    BY <2>1, <2>2, <2>3
<1>3. ASSUME NEW x \in Sessions, S[x] # NoRow
      PROVE  S[x].version =< a.version /\ (S[x].version = a.version => S[x].password = a.password)
  <2>1. CASE session[x] # NoRow /\ S[x].version = session[x].version /\ S[x].password = session[x].password
    <3>1. session[x].version \in Int /\ Fits(session[x].version, session[x].password)
      BY <2>1 DEF Typed, Backed, WebSession
    <3> QED
      BY <1>2, <2>1, <3>1
  <2>2. CASE S[x].version = a.version /\ S[x].password = a.password
    BY <1>1, <2>2
  <2> QED
    BY <1>3, <2>1, <2>2
<1>4. ASSUME NEW s \in Handlers, handler'[s].kind = "login"
      PROVE  handler'[s].version =< a.version
             /\ (handler'[s].version = a.version => handler'[s].password = a.password)
  <2>1. handler'[s] = handler[s]
    BY <1>4 DEF Unused
  <2>2. handler[s] \in HandlerRequests
    BY DEF Typed
  <2>3. handler[s].version \in Int /\ Fits(handler[s].version, handler[s].password)
    BY <1>4, <2>1, <2>2, KindsOf DEF Backed
  <2> QED
    BY <1>2, <2>1, <2>3
<1> QED
  BY <1>1, <1>3, <1>4 DEF Backed, Fits

-----------------------------------------------------------------------------
(* The current tour: the inductive invariant *)

\* A row of tours.
TourRow == [driver : Drivers, current : BOOLEAN]

\* The rows that a transaction has written.
Written == UNION {[S -> TourRow \cup {Gone}] : S \in SUBSET Tours}

\* A connection of the pool.
Connection == [open : BOOLEAN, put : Written, answered : BOOLEAN]

\* A request for one driver and one tour.
Asking == [step : {"clear", "clearing", "commit", "save", "read", "move", "insert"},
           kind : {"choose", "save", "transfer", "direct"},
           driver : Drivers, tour : Tours, marks : BOOLEAN, todo : SUBSET Tours]

\* A reset of the database.
Wiping == [step : {"delete", "commit"}, kind : {"reset"}, marks : {FALSE}]

\* A driver's new name.
Naming == [step : {"rename", "commit"}, kind : {"direct"}, driver : Drivers, old : Drivers]

\* All that a connection may be used for.
Jobs == {NoJob} \cup Asking \cup Wiping \cup Naming

\* The types, in full.
CurrentTyped ==
    /\ tours \in UNION {[S -> TourRow] : S \in SUBSET Tours}
    /\ conn \in [Conns -> Connection]
    /\ job \in [Conns -> Jobs]
    /\ leaked \in BOOLEAN /\ swallowed \in BOOLEAN /\ lostWrites \in BOOLEAN /\ mixed \in BOOLEAN
    /\ doubled \in SUBSET Drivers

\* Which kinds of request take a step, and which of them call
\* set_current_tour by then.
StepsOf(j) ==
    /\ j.step = "save" => j.kind \in {"save", "direct"}
    /\ j.step = "insert" => j.kind = "direct"
    /\ j.step = "read" => j.kind = "transfer"
    /\ j.step = "move" => j.kind \in {"transfer", "direct"}
    /\ j.step \in {"clear", "clearing"} => j.marks
    /\ j.kind = "direct" => ~j.marks

\* So it is on every connection.
Staged == \A c \in Conns : job[c] \in Asking => StepsOf(job[c])

\* Without a leaked transaction, no query runs in a transaction that is not
\* its own, and nothing is rolled back that was answered.
Kept ==
    /\ lostWrites => leaked \/ swallowed
    /\ ~leaked => \A c \in Conns : /\ ~conn[c].answered
                                   /\ conn[c].open => job[c] # NoJob /\ job[c].kind # "choose"

\* One current tour for each driver who is not spared.
Unique(f, spared) ==
    \A t, u \in DOMAIN f : f[t].current /\ f[u].current /\ f[t].driver = f[u].driver
                              => t = u \/ f[t].driver \in spared

\* Requests that do not overlap: one at a time, and a choice outside any
\* transaction.
Single ==
    /\ \A c \in Conns : job[c] = NoJob => DOMAIN conn[c].put = {}
    /\ \A c, o \in Conns : job[c] # NoJob /\ job[o] # NoJob => c = o
    /\ \A c \in Conns : job[c] # NoJob /\ job[c].kind = "choose" => ~conn[c].open

\* How far the request has brought its driver's tours: V is what it sees.
Progress(j, V) ==
    /\ j.step = "move" /\ j.kind = "transfer" /\ j.tour \in DOMAIN tours => tours[j.tour].current = j.marks
    /\ j.step \in {"clear", "clearing"} => Unique(V, doubled \cup {j.driver})
    /\ j.step = "clearing" =>
          \A t \in DOMAIN V : V[t].driver = j.driver /\ V[t].current => t = j.tour \/ t \in j.todo
    /\ j.step = "commit" =>
          Unique(V, IF j.kind = "direct" THEN doubled \cup {j.driver} ELSE IF j.marks THEN doubled \ {j.driver} ELSE doubled)

\* So it is of what each connection sees.
Writing(c) ==
    LET j == job[c] IN
    /\ j \in Asking => Progress(j, View(c))
    /\ j \in Asking /\ j.step \in {"save", "read", "move", "insert"} => DOMAIN conn[c].put = {}
    /\ j \in Wiping /\ j.step = "commit" => DOMAIN View(c) = {}
    /\ j \in Naming /\ j.step = "rename" => DOMAIN conn[c].put = {}
    /\ j \in Naming /\ j.step = "commit" => Unique(View(c), doubled \cup {j.driver})

\* All of that as long as no requests overlap.
Orderly == ~mixed => /\ Unique(tours, doubled) /\ Single
                     /\ \A c \in Conns : Writing(c)

\* The inductive invariant.
CurrentInv == CurrentTyped /\ Staged /\ Kept /\ Orderly

\* A connection that has written nothing.
LEMMA EmptyPut == <<>> \in Written /\ DOMAIN <<>> = {}
<1>1. <<>> \in [{} -> TourRow \cup {Gone}]
  OBVIOUS
<1>2. DOMAIN <<>> = {}
  BY <1>1
<1> QED
  BY <1>1, <1>2 DEF Written

\* A connection that was returned in order.
LEMMA CleanIs == Clean \in Connection /\ ~Clean.open /\ DOMAIN Clean.put = {} /\ ~Clean.answered
BY EmptyPut DEF Clean, Connection

\* A deleted row is none.
LEMMA GoneIsNoRow == Gone \notin TourRow
<1>1. SUFFICES ASSUME Gone \in TourRow PROVE FALSE
  OBVIOUS
<1>2. DOMAIN Gone = {"gone"}
  BY DEF Gone
<1>3. DOMAIN Gone = {"driver", "current"}
  BY <1>1 DEF TourRow
<1> QED
  BY <1>2, <1>3

-----------------------------------------------------------------------------
(* Its steps *)

\* A step that only notes a request keeps the invariant.
LEMMA NotesAreKept ==
  ASSUME DriverInv, NEW s \in Handlers, NEW r \in HandlerRequests,
         handler' = [handler EXCEPT ![s] = r], UNCHANGED <<web, mobile, person>>,
         r.kind = "login" => Fits(r.version, r.password),
         r.kind = "password" => account # NoRow
  PROVE  DriverInv'
<1>1. handler' \in [Handlers -> HandlerRequests] /\ Backed'
  <2>1. Typed /\ Backed /\ UNCHANGED web
    BY DEF DriverInv
  <2> QED
    BY <2>1, Noted
<1>2. Typed' /\ DriverTold'
  BY <1>1 DEF DriverInv, Typed, DriverTold, web, mobile, person
<1> QED
  BY <1>1, <1>2 DEF DriverInv

\* Requests that come, read or stop write nothing but their handler.
LEMMA RequestsComeKeep ==
  ASSUME DriverInv, NEW s \in Handlers,
         \/ \E p \in Passwords : Login(s, p)
         \/ \E x \in Sessions : ChangePassword(s, x)
         \/ Activate(s) \/ SyncProfile(s) \/ SyncProfileRead(s) \/ Unlink(s)
         \/ \E n \in Names, b \in BOOLEAN : SaveDriver(s, n, b)
         \/ Stop(s)
  PROVE  DriverInv'
<1>0. Typed /\ Backed
  BY DEF DriverInv
<1>1. ASSUME NEW p \in Passwords, Login(s, p)
      PROVE  DriverInv'
  <2> DEFINE r == [kind |-> "login", version |-> account.version, password |-> p]
  <2>1. account \in Account
    BY <1>0, <1>1 DEF Login, Typed
  <2>2. r \in HandlerRequests /\ Fits(r.version, r.password) /\ r.kind # "password"
    BY <1>1, <2>1, DriverAssumption DEF Login, HandlerRequests, LoginRequest, Account, Fits
  <2>3. handler' = [handler EXCEPT ![s] = r] /\ UNCHANGED <<web, mobile, person>>
    BY <1>1 DEF Login, Begin
  <2> QED
    BY <2>2, <2>3, NotesAreKept
<1>2. ASSUME NEW x \in Sessions, ChangePassword(s, x)
      PROVE  DriverInv'
  <2> DEFINE r == [kind |-> "password", session |-> x]
  <2>1. r \in HandlerRequests /\ r.kind # "login"
    BY DEF HandlerRequests
  <2>2. account # NoRow
    BY <1>0, <1>2 DEF ChangePassword, Usable, UsableByFlags, Backed, Fits
  <2>3. handler' = [handler EXCEPT ![s] = r] /\ UNCHANGED <<web, mobile, person>>
    BY <1>2 DEF ChangePassword, Begin
  <2> QED
    BY <2>1, <2>2, <2>3, NotesAreKept
<1>3. ASSUME Activate(s) PROVE DriverInv'
  <2> DEFINE r == [kind |-> "activate"]
  <2>1. r \in HandlerRequests /\ r.kind # "login" /\ r.kind # "password"
    BY DEF HandlerRequests
  <2>2. handler' = [handler EXCEPT ![s] = r] /\ UNCHANGED <<web, mobile, person>>
    BY <1>3 DEF Activate, Begin
  <2> QED
    BY <2>1, <2>2, NotesAreKept
<1>4. ASSUME Unlink(s) PROVE DriverInv'
  <2> DEFINE r == [kind |-> "unlink"]
  <2>1. r \in HandlerRequests /\ r.kind # "login" /\ r.kind # "password"
    BY DEF HandlerRequests
  <2>2. handler' = [handler EXCEPT ![s] = r] /\ UNCHANGED <<web, mobile, person>>
    BY <1>4 DEF Unlink, Begin
  <2> QED
    BY <2>1, <2>2, NotesAreKept
<1>5. ASSUME SyncProfile(s) PROVE DriverInv'
  <2> DEFINE r == [kind |-> "profile", name |-> driver.name]
  <2>1. r \in HandlerRequests /\ r.kind # "login" /\ r.kind # "password"
    BY <1>0 DEF HandlerRequests, Typed
  <2>2. handler' = [handler EXCEPT ![s] = r] /\ UNCHANGED <<web, mobile, person>>
    BY <1>5 DEF SyncProfile, Begin
  <2> QED
    BY <2>1, <2>2, NotesAreKept
<1>6. ASSUME SyncProfileRead(s) PROVE DriverInv'
  <2> DEFINE r == [kind |-> "rename", old |-> driver.name, new |-> handler[s].name, active |-> TRUE]
  <2>1. handler[s] \in HandlerRequests /\ handler[s].kind = "profile"
    BY <1>0, <1>6 DEF SyncProfileRead, Typed
  <2>2. handler[s].name \in Names
    BY <2>1, KindsOf
  <2>3. r \in HandlerRequests /\ r.kind # "login" /\ r.kind # "password"
    BY <1>0, <2>2 DEF HandlerRequests, RenameRequest, Typed
  <2>4. handler' = [handler EXCEPT ![s] = r] /\ UNCHANGED <<web, mobile, person>>
    BY <1>0, <1>6 DEF SyncProfileRead, Typed
  <2> QED
    BY <2>3, <2>4, NotesAreKept
<1>7. ASSUME NEW n \in Names, NEW b \in BOOLEAN, SaveDriver(s, n, b) PROVE DriverInv'
  <2> DEFINE r == [kind |-> "rename", old |-> driver.name, new |-> n, active |-> b]
  <2>1. r \in HandlerRequests /\ r.kind # "login" /\ r.kind # "password"
    BY <1>0 DEF HandlerRequests, RenameRequest, Typed
  <2>2. handler' = [handler EXCEPT ![s] = r] /\ UNCHANGED <<web, mobile, person>>
    BY <1>7 DEF SaveDriver, Begin
  <2> QED
    BY <2>1, <2>2, NotesAreKept
<1>8. ASSUME Stop(s) PROVE DriverInv'
  <2>1. handler' = [handler EXCEPT ![s] = Unused] /\ UNCHANGED <<web, mobile, person>>
    BY <1>8 DEF Stop
  <2>2. Unused \in HandlerRequests /\ Unused.kind # "login" /\ Unused.kind # "password"
    BY Freed
  <2> QED
    BY <2>1, <2>2, NotesAreKept
<1> QED
  BY <1>1, <1>2, <1>3, <1>4, <1>5, <1>6, <1>7, <1>8

\* What the office or a driver does to the account and the sessions keeps the
\* invariant, as long as a new password has a new version.
LEMMA WebKeeps ==
  ASSUME DriverInv, NEW a \in Account, NEW S \in [Sessions -> WebSession \cup {NoRow}],
         account' = a, session' = S,
         account # NoRow => \/ a.version = account.version + 1
                            \/ a.version = account.version /\ a.password = account.password,
         UNCHANGED <<mobile, person>>,
         handler' \in [Handlers -> HandlerRequests],
         \A s \in Handlers : handler'[s] = handler[s] \/ handler'[s] = Unused,
         \A x \in Sessions : S[x] # NoRow =>
            \/ session[x] # NoRow /\ S[x].version = session[x].version /\ S[x].password = session[x].password
            \/ S[x].version = a.version /\ S[x].password = a.password
  PROVE  DriverInv'
<1>1. Backed' /\ account' \in Account \cup {NoRow} /\ session' \in [Sessions -> WebSession \cup {NoRow}]
  <2>1. Typed /\ Backed
    BY DEF DriverInv
  <2> QED
    BY <2>1, Changed
<1>2. Typed' /\ DriverTold'
  BY <1>1 DEF DriverInv, Typed, DriverTold, mobile, person
<1> QED
  BY <1>1, <1>2 DEF DriverInv

\* Revoked sessions keep their version and password.
LEMMA RevokedAre ==
  ASSUME Typed
  PROVE  /\ Revoked \in [Sessions -> WebSession \cup {NoRow}]
         /\ \A x \in Sessions : Revoked[x] # NoRow =>
               session[x] # NoRow /\ Revoked[x].version = session[x].version
               /\ Revoked[x].password = session[x].password
<1>1. ASSUME NEW x \in Sessions, session[x] # NoRow
      PROVE  /\ [session[x] EXCEPT !.live = FALSE] \in WebSession
             /\ [session[x] EXCEPT !.live = FALSE].version = session[x].version
             /\ [session[x] EXCEPT !.live = FALSE].password = session[x].password
  <2>1. session[x] \in WebSession
    BY <1>1 DEF Typed
  <2> QED
    BY <2>1 DEF WebSession
<1> QED
  BY <1>1 DEF Revoked

\* A handler that ends is free.
LEMMA EndsFree ==
  ASSUME Typed, NEW s \in Handlers, handler' = [handler EXCEPT ![s] = Unused]
  PROVE  handler' \in [Handlers -> HandlerRequests]
         /\ \A t \in Handlers : handler'[t] = handler[t] \/ handler'[t] = Unused
BY HandlerKept, Freed

\* The account with a new password and the next version.
LEMMA NewPassword ==
  ASSUME NEW q \in Account, q.version < MaxAccount, NEW p \in Passwords, NEW m \in BOOLEAN
  PROVE  LET a == [q EXCEPT !.password = p, !.version = @ + 1, !.must = m] IN
         a \in Account /\ a.version = q.version + 1 /\ a.password = p
<1> DEFINE v == q.version + 1
           a == [q EXCEPT !.password = p, !.version = v, !.must = m]
<1>1. v \in 1..MaxAccount
  BY DriverAssumption DEF Account
<1> HIDE DEF v
<1>2. a \in Account /\ a.version = v /\ a.password = p
  BY <1>1 DEF Account
<1> QED
  BY <1>2 DEF v

\* A session is stored by a login with what the login verified, and by a
\* change of password with the new version (driver-session.js 28-44, driver-
\* pwa.routes.js 137-147).
LEMMA SessionsComeKeep ==
  ASSUME DriverInv, NEW s \in Handlers,
         LoginCommit(s) \/ \E p \in Passwords : ChangePasswordCommit(s, p)
  PROVE  DriverInv'
<1>0. Typed /\ Backed /\ handler[s] \in HandlerRequests
  BY DEF DriverInv, Typed
<1>1. ASSUME LoginCommit(s) PROVE DriverInv'
  <2> DEFINE r == handler[s]
  <2>1. r.kind = "login" /\ handler' = [handler EXCEPT ![s] = Unused]
        /\ account' = account /\ UNCHANGED <<mobile, person>>
    BY <1>1 DEF LoginCommit, End
  <2>2. PICK x \in Sessions : session[x] = NoRow
          /\ session' = [session EXCEPT ![x] = OpenSession(x, r.version, r.password)]
    BY <1>1 DEF LoginCommit
  <2>3. r.version \in 1..MaxAccount /\ r.password \in Passwords
    BY <1>0, <2>1, KindsOf
  <2>4. Fits(r.version, r.password)
    BY <1>0, <2>1 DEF Backed
  <2> DEFINE n == OpenSession(x, r.version, r.password)
  <2>5. n \in WebSession /\ n.version = r.version /\ n.password = r.password
    BY <2>3 DEF OpenSession, WebSession
  <2>6. handler' \in [Handlers -> HandlerRequests]
        /\ \A t \in Handlers : handler'[t] = handler[t] \/ handler'[t] = Unused
    BY <1>0, <2>1, EndsFree
  <2> HIDE DEF n
  <2>7. session' \in [Sessions -> WebSession \cup {NoRow}]
        /\ session'[x] = n /\ \A y \in Sessions : y # x => session'[y] = session[y]
    BY <1>0, <2>2, <2>5 DEF n, Typed
  <2>8. Backed'
    <3>1. \A y \in Sessions : session'[y] # NoRow => Fits(session'[y].version, session'[y].password)
      BY <1>0, <2>4, <2>5, <2>7 DEF Backed
    <3>2. \A t \in Handlers : handler'[t].kind = "login" => Fits(handler'[t].version, handler'[t].password)
      BY <1>0, <2>6, Freed DEF Backed
    <3>3. \A t \in Handlers : handler'[t].kind = "password" => account # NoRow
      BY <1>0, <2>6, Freed DEF Backed
    <3> QED
      BY <2>1, <3>1, <3>2, <3>3 DEF Backed, Fits
  <2> QED
    BY <2>1, <2>6, <2>7, <2>8 DEF DriverInv, Typed, DriverTold, mobile, person
<1>2. ASSUME NEW p \in Passwords, ChangePasswordCommit(s, p) PROVE DriverInv'
  <2>1. handler[s].kind = "password" /\ handler' = [handler EXCEPT ![s] = Unused]
        /\ UNCHANGED <<mobile, person>>
    BY <1>2 DEF ChangePasswordCommit, End
  <2>2. account \in Account
    BY <1>0, <2>1 DEF Backed, Typed
  <2>3. handler' \in [Handlers -> HandlerRequests]
        /\ \A t \in Handlers : handler'[t] = handler[t] \/ handler'[t] = Unused
    BY <1>0, <2>1, EndsFree
  <2>4. CASE p = account.password
    <3>1. account' = account /\ session' = session
      BY <1>2, <2>4 DEF ChangePasswordCommit, web
    <3>2. session \in [Sessions -> WebSession \cup {NoRow}]
      BY <1>0 DEF Typed
    <3> QED
      BY <2>1, <2>2, <2>3, <3>1, <3>2, WebKeeps
  <2>5. CASE p # account.password
    <3> DEFINE a == [account EXCEPT !.password = p, !.version = @ + 1, !.must = FALSE]
    <3>1. account.version < MaxAccount /\ account' = a
      BY <1>2, <2>5 DEF ChangePasswordCommit
    <3>2. a \in Account /\ a.version = account.version + 1 /\ a.password = p
      BY <2>2, <3>1, NewPassword
    <3>3. PICK x \in Sessions : session[x] = NoRow /\ session' = [Revoked EXCEPT ![x] = OpenSession(x, account'.version, p)]
      BY <1>2, <2>5 DEF ChangePasswordCommit
    <3> HIDE DEF a
    <3> DEFINE n == OpenSession(x, a.version, p)
    <3>4. n \in WebSession /\ n.version = a.version /\ n.password = a.password
      BY <3>2 DEF OpenSession, WebSession, Account
    <3> HIDE DEF n
    <3> DEFINE S == [Revoked EXCEPT ![x] = n]
    <3>5. session' = S
      BY <3>1, <3>3 DEF n
    <3>6. S \in [Sessions -> WebSession \cup {NoRow}] /\ S[x] = n
          /\ \A y \in Sessions : y # x => S[y] = Revoked[y]
      BY <1>0, <3>4, RevokedAre
    <3> HIDE DEF S
    <3>7. \A y \in Sessions : S[y] # NoRow =>
            \/ session[y] # NoRow /\ S[y].version = session[y].version /\ S[y].password = session[y].password
            \/ S[y].version = a.version /\ S[y].password = a.password
      BY <1>0, <3>4, <3>6, RevokedAre
    <3> QED
      BY <2>1, <2>3, <3>1, <3>2, <3>5, <3>6, <3>7, WebKeeps
  <2> QED
    BY <2>4, <2>5
<1> QED
  BY <1>1, <1>2

\* Logout and expiry leave version and password.
LEMMA SessionsEndKeep ==
  ASSUME DriverInv, NEW x \in Sessions, Logout(x) \/ Expire(x)
  PROVE  DriverInv'
<1>0. Typed /\ Backed
  BY DEF DriverInv
<1>1. session[x] # NoRow /\ session' = [session EXCEPT ![x].live = FALSE] /\ handler' = handler
      /\ account' = account /\ UNCHANGED <<mobile, person>>
  BY DEF Logout, Expire, Usable, UsableByFlags
<1>2. account \in Account /\ session[x] \in WebSession
  BY <1>0, <1>1 DEF Typed, Backed, Fits
<1> DEFINE n == [session[x] EXCEPT !.live = FALSE]
<1>3. n \in WebSession /\ n.version = session[x].version /\ n.password = session[x].password
  BY <1>2 DEF WebSession
<1>4. session' = [session EXCEPT ![x] = n]
  BY <1>0, <1>1 DEF Typed
<1> HIDE DEF n
<1> DEFINE S == [session EXCEPT ![x] = n]
<1>5. S \in [Sessions -> WebSession \cup {NoRow}] /\ S[x] = n /\ \A y \in Sessions : y # x => S[y] = session[y]
  BY <1>0, <1>3 DEF Typed
<1>6. session' = S
  BY <1>4
<1> HIDE DEF S
<1>7. \A y \in Sessions : S[y] # NoRow =>
        session[y] # NoRow /\ S[y].version = session[y].version /\ S[y].password = session[y].password
  BY <1>1, <1>3, <1>5
<1>8. handler' \in [Handlers -> HandlerRequests] /\ \A t \in Handlers : handler'[t] = handler[t]
  BY <1>0, <1>1 DEF Typed
<1> QED
  BY <1>1, <1>2, <1>5, <1>6, <1>7, <1>8, WebKeeps

\* What the office does to the account (driver-pwa-admin.routes.js).
LEMMA OfficeKeeps ==
  ASSUME DriverInv,
         \/ \E p \in Passwords : Provision(p) \/ ResetPassword(p)
         \/ Enable \/ Disable \/ RevokeSessions
  PROVE  DriverInv'
<1>0. Typed /\ Backed
  BY DEF DriverInv
<1>1. ASSUME NEW a \in Account, Office(a, Revoked) \/ Office(a, session),
             account # NoRow => \/ a.version = account.version + 1
                                \/ a.version = account.version /\ a.password = account.password
      PROVE  DriverInv'
  <2>1. account' = a /\ handler' = handler /\ UNCHANGED <<mobile, person>>
        /\ (session' = Revoked \/ session' = session)
    BY <1>1 DEF Office
  <2>2. handler' \in [Handlers -> HandlerRequests] /\ \A t \in Handlers : handler'[t] = handler[t]
    BY <1>0, <2>1 DEF Typed
  <2>3. session \in [Sessions -> WebSession \cup {NoRow}]
    BY <1>0 DEF Typed
  <2>4. CASE session' = Revoked
    BY <1>0, <1>1, <2>1, <2>2, <2>4, RevokedAre, WebKeeps
  <2>5. CASE session' = session
    BY <1>1, <2>1, <2>2, <2>3, <2>5, WebKeeps
  <2> QED
    BY <2>1, <2>4, <2>5
<1>2. ASSUME NEW p \in Passwords, Provision(p) PROVE DriverInv'
  <2>1. CASE account = NoRow
    <3> DEFINE a == [password |-> p, version |-> 1, must |-> TRUE, active |-> TRUE]
    <3>1. a \in Account
      BY DriverAssumption DEF Account
    <3>2. Office(a, Revoked)
      BY <1>2, <2>1 DEF Provision, Provisioned
    <3> QED
      BY <1>1, <2>1, <3>1, <3>2
  <2>2. CASE account # NoRow
    <3> DEFINE a == [account EXCEPT !.password = p, !.version = @ + 1, !.must = TRUE]
    <3>1. account \in Account /\ account.version < MaxAccount
      BY <1>0, <1>2, <2>2 DEF Typed, Provision
    <3>2. a \in Account /\ a.version = account.version + 1
      BY <3>1, NewPassword
    <3>3. Office(a, Revoked)
      BY <1>2, <2>2 DEF Provision, Provisioned
    <3> QED
      BY <1>1, <3>2, <3>3
  <2> QED
    BY <2>1, <2>2
<1>3. ASSUME NEW p \in Passwords, ResetPassword(p) PROVE DriverInv'
  <2> DEFINE a == [account EXCEPT !.password = p, !.version = @ + 1, !.must = TRUE]
  <2>1. account \in Account /\ account.version < MaxAccount
    BY <1>0, <1>3 DEF Typed, ResetPassword
  <2>2. a \in Account /\ a.version = account.version + 1
    BY <2>1, NewPassword
  <2>3. Office(a, Revoked)
    BY <1>3 DEF ResetPassword
  <2> QED
    BY <1>1, <2>2, <2>3
<1>4. ASSUME NEW b \in BOOLEAN, account # NoRow,
             Office([account EXCEPT !.active = b], Revoked) \/ Office([account EXCEPT !.active = b], session)
      PROVE  DriverInv'
  <2> DEFINE a == [account EXCEPT !.active = b]
  <2>1. account \in Account
    BY <1>0, <1>4 DEF Typed
  <2>2. a \in Account /\ a.version = account.version /\ a.password = account.password
    BY <2>1 DEF Account
  <2> QED
    BY <1>1, <1>4, <2>2
<1>5. ASSUME RevokeSessions PROVE DriverInv'
  <2>1. account \in Account /\ Office(account, Revoked)
    BY <1>0, <1>5 DEF Typed, RevokeSessions
  <2> QED
    BY <1>1, <2>1
<1>6. ASSUME Enable \/ Disable PROVE DriverInv'
  BY <1>4, <1>6 DEF Enable, Disable
<1> QED
  BY <1>2, <1>3, <1>5, <1>6

\* Nothing is disturbed when handlers hold neither logins nor changes of
\* password.
LEMMA BackedKept ==
  ASSUME DriverInv, account' = account, session' = session,
         handler' \in [Handlers -> HandlerRequests],
         \A s \in Handlers : handler'[s] = handler[s] \/ handler'[s].kind \notin {"login", "password"}
  PROVE  Backed'
BY DEF DriverInv, Backed, Fits

\* The steps of the phone (driver.routes.js, requireDeviceAuth.js).
LEMMA PhoneKeeps ==
  ASSUME DriverInv,
         \/ \E s \in Handlers : ActivateWrite(s) \/ UnlinkWrite(s) \/ DeleteDevices(s)
         \/ UnlinkDevices \/ RotateToken
  PROVE  DriverInv'
<1>0. Typed /\ Backed /\ DriverTold
  BY DEF DriverInv
<1>1. ASSUME NEW d \in [token : 0..MaxTokens, active : BOOLEAN], device' = d, phone' \in 0..MaxTokens,
             out' \in BOOLEAN, out' => ~d.active, UNCHANGED <<web, person>>,
             handler' \in [Handlers -> HandlerRequests],
             \A t \in Handlers : handler'[t] = handler[t] \/ handler'[t] = Unused
      PROVE  DriverInv'
  <2>1. Backed'
    BY <1>1, BackedKept, Freed DEF web
  <2> QED
    BY <1>0, <1>1, <2>1 DEF DriverInv, Typed, DriverTold, web, person
<1>2. ASSUME NEW s \in Handlers, ActivateWrite(s) PROVE DriverInv'
  <2> DEFINE d == [token |-> device.token + 1, active |-> TRUE]
  <2>1. handler' = [handler EXCEPT ![s] = Unused] /\ device' = d /\ phone' = d.token /\ out' = FALSE
        /\ UNCHANGED <<web, person>> /\ device.token < MaxTokens
    BY <1>2 DEF ActivateWrite, End
  <2>2. d \in [token : 0..MaxTokens, active : BOOLEAN] /\ d.token \in 0..MaxTokens
    BY <1>0, <2>1, DriverAssumption DEF Typed
  <2> QED
    BY <1>0, <1>1, <2>1, <2>2, EndsFree
<1>3. [device EXCEPT !.active = FALSE] \in [token : 0..MaxTokens, active : BOOLEAN]
      /\ ~[device EXCEPT !.active = FALSE].active /\ phone \in 0..MaxTokens /\ out \in BOOLEAN
      /\ handler \in [Handlers -> HandlerRequests]
  BY <1>0 DEF Typed
<1>4. ASSUME NEW s \in Handlers, UnlinkWrite(s) PROVE DriverInv'
  <2>1. handler' = [handler EXCEPT ![s] = Unused] /\ device' = [device EXCEPT !.active = FALSE]
        /\ phone' = phone /\ out' = out /\ UNCHANGED <<web, person>>
    BY <1>4 DEF UnlinkWrite, End
  <2> QED
    BY <1>0, <1>1, <1>3, <2>1, EndsFree
<1>5. ASSUME NEW s \in Handlers, DeleteDevices(s) PROVE DriverInv'
  <2>1. handler' = [handler EXCEPT ![s] = Unused] /\ device' = [device EXCEPT !.active = FALSE]
        /\ phone' = phone /\ out' \in BOOLEAN /\ UNCHANGED <<web, person>>
    BY <1>5 DEF DeleteDevices, DevicesOff, End
  <2> QED
    BY <1>0, <1>1, <1>3, <2>1, EndsFree
<1>6. ASSUME UnlinkDevices PROVE DriverInv'
  <2>1. handler' = handler /\ device' = [device EXCEPT !.active = FALSE]
        /\ phone' = phone /\ out' = out /\ UNCHANGED <<web, person>>
    BY <1>6 DEF UnlinkDevices
  <2> QED
    BY <1>1, <1>3, <2>1
<1>7. ASSUME RotateToken PROVE DriverInv'
  <2> DEFINE d == [device EXCEPT !.token = @ + 1]
  <2>1. handler' = handler /\ device' = d /\ device.token \in 1..(MaxTokens - 1)
        /\ phone' = phone /\ out' = out /\ UNCHANGED <<web, person>>
    BY <1>7 DEF RotateToken
  <2>2. d \in [token : 0..MaxTokens, active : BOOLEAN] /\ d.active = device.active
    BY <1>0, <2>1, DriverAssumption DEF Typed
  <2> HIDE DEF d
  <2>3. out' => ~d.active
    BY <1>0, <2>1, <2>2 DEF DriverTold
  <2> QED
    BY <1>1, <1>3, <2>1, <2>2, <2>3
<1> QED
  BY <1>2, <1>4, <1>5, <1>6, <1>7

\* The driver is renamed or deleted.
LEMMA PersonKeeps ==
  ASSUME DriverInv, NEW s \in Handlers, RenameCommit(s) \/ DeleteDriver(s)
  PROVE  DriverInv'
<1>0. Typed /\ Backed /\ DriverTold /\ handler[s] \in HandlerRequests
  BY DEF DriverInv, Typed
<1>1. ASSUME RenameCommit(s) PROVE DriverInv'
  <2> DEFINE r == handler[s]
  <2>1. /\ r.kind = "rename" /\ handler' = [handler EXCEPT ![s] = Unused]
        /\ driver' = [name |-> r.new, active |-> r.active]
        /\ records' = IF r.old # r.new /\ records = r.old THEN r.new ELSE records
        /\ blind' = (blind \/ r.old # driver.name)
        /\ UNCHANGED <<web, mobile>>
    BY <1>1 DEF RenameCommit, End, Cascade
  <2>2. r.old \in Names /\ r.new \in Names /\ r.active \in BOOLEAN
    BY <1>0, <2>1, KindsOf
  <2>3. handler' \in [Handlers -> HandlerRequests]
        /\ \A t \in Handlers : handler'[t] = handler[t] \/ handler'[t] = Unused
    BY <1>0, <2>1, EndsFree
  <2>4. Backed'
    BY <2>1, <2>3, BackedKept, Freed DEF web
  <2>5. driver'.name = r.new /\ driver' \in [name : Names, active : BOOLEAN]
    BY <2>1, <2>2
  <2> HIDE DEF r
  <2>6. ~blind' => records' = driver'.name
    BY <1>0, <2>1, <2>5 DEF DriverTold
  <2>7. records' \in Names /\ blind' \in BOOLEAN
    BY <1>0, <2>1, <2>2 DEF Typed
  <2> QED
    BY <1>0, <2>1, <2>3, <2>4, <2>5, <2>6, <2>7 DEF DriverInv, Typed, DriverTold, web, mobile
<1>2. ASSUME DeleteDriver(s) PROVE DriverInv'
  <2> DEFINE r == [kind |-> "delete"]
  <2>1. /\ handler' = [handler EXCEPT ![s] = r] /\ driver' = [driver EXCEPT !.active = FALSE]
        /\ UNCHANGED <<web, mobile, records, blind>>
    BY <1>2 DEF DeleteDriver, Begin
  <2>2. r \in HandlerRequests /\ r.kind = "delete"
    BY DEF HandlerRequests
  <2>3. handler' \in [Handlers -> HandlerRequests] /\ handler'[s] = r
        /\ \A t \in Handlers : t # s => handler'[t] = handler[t]
    BY <1>0, <2>1, <2>2, HandlerKept
  <2>4. Backed'
    <3>1. \A t \in Handlers : handler'[t] = handler[t] \/ handler'[t].kind = "delete"
      BY <2>2, <2>3
    <3> QED
      BY <2>1, <2>3, <3>1, BackedKept DEF web
  <2>5. driver' \in [name : Names, active : BOOLEAN] /\ driver'.name = driver.name
    BY <1>0, <2>1 DEF Typed
  <2> QED
    BY <1>0, <2>1, <2>3, <2>4, <2>5 DEF DriverInv, Typed, DriverTold, web, mobile
<1> QED
  BY <1>1, <1>2

-----------------------------------------------------------------------------
(* What follows *)

\* The invariant holds to begin with.
LEMMA DriverBegins == DriverInit => DriverInv
<1> SUFFICES ASSUME DriverInit PROVE DriverInv
  OBVIOUS
<1>1. handler \in [Handlers -> HandlerRequests] /\ \A s \in Handlers : handler[s] = Unused
  BY Freed DEF DriverInit
<1>2. session \in [Sessions -> WebSession \cup {NoRow}] /\ \A x \in Sessions : session[x] = NoRow
  BY DEF DriverInit
<1>3. driver \in [name : Names, active : BOOLEAN] /\ records = driver.name /\ records \in Names
  BY DEF DriverInit
<1>4. device \in [token : 0..MaxTokens, active : BOOLEAN] /\ phone \in 0..MaxTokens
  BY DriverAssumption DEF DriverInit
<1>5. Typed /\ DriverTold
  BY <1>1, <1>2, <1>3, <1>4 DEF DriverInit, Typed, DriverTold
<1>6. Backed
  BY <1>1, <1>2, Freed DEF Backed
<1> QED
  BY <1>5, <1>6 DEF DriverInv

\* Every step keeps it.
LEMMA DriverGoesOn == DriverInv /\ [DriverNext]_driverVars => DriverInv'
<1> SUFFICES ASSUME DriverInv, [DriverNext]_driverVars PROVE DriverInv'
  OBVIOUS
<1>1. CASE UNCHANGED driverVars
  BY <1>1 DEF driverVars, DriverInv, Typed, Backed, DriverTold, Fits
<1>2. CASE DriverNext
  BY <1>2, RequestsComeKeep, SessionsComeKeep, SessionsEndKeep, OfficeKeeps, PhoneKeeps, PersonKeeps DEF DriverNext
<1> QED
  BY <1>1, <1>2

\* The types of a driver's ways in, and no session is newer than the account.
THEOREM DriverStaysTyped == DriverSpec => []DriverTypeOK
<1>1. DriverInv => DriverTypeOK
  BY DEF DriverInv, Typed, Backed, Fits, DriverTypeOK
<1> QED
  BY <1>1, DriverBegins, DriverGoesOn, PTL DEF DriverSpec

\* For every number of handlers, sessions, passwords and changes: a session
\* that lets the driver in was opened with the password that the account has
\* now, whatever was changed or reset while a login was under way (driver-
\* pwa.routes.js 137-147, driver-session.js 63-65).
THEOREM PasswordChangesShut == DriverSpec => []OldPasswordsOpenNothing
<1>1. DriverInv => OldPasswordsOpenNothing
  BY DEF DriverInv, Backed, Fits, OldPasswordsOpenNothing, Usable, UsableByFlags
<1> QED
  BY <1>1, DriverBegins, DriverGoesOn, PTL DEF DriverSpec

\* However many handlers overlap: the records part from the driver's name
\* only by a name written over one that was not read, and the phone of a
\* deleted driver stays out until it is activated again (driver.routes.js
\* 133, 151, 211, 228, 253-260).
THEOREM DriverChangesAreWhole == DriverSpec => []RenamesAndDeletionsAreWhole
<1>1. DriverInv => RenamesAndDeletionsAreWhole
  BY DEF DriverInv, DriverTold, RenamesAndDeletionsAreWhole, NamesPartOnlyBlindly, DeletedDriversPhonesStayOut, GetsIn
<1> QED
  BY <1>1, DriverBegins, DriverGoesOn, PTL DEF DriverSpec

-----------------------------------------------------------------------------
(* What a connection sees and writes *)

\* A transaction sees what it has written, and the committed rows else.
LEMMA ViewOf ==
  ASSUME CurrentTyped, NEW c \in Conns
  PROVE  /\ DOMAIN View(c) = {u \in DOMAIN conn[c].put \cup DOMAIN tours : u \in DOMAIN conn[c].put => conn[c].put[u] # Gone}
         /\ \A t \in DOMAIN View(c) :
               View(c)[t] = IF t \in DOMAIN conn[c].put THEN conn[c].put[t] ELSE tours[t]
         /\ View(c) \in UNION {[S -> TourRow] : S \in SUBSET Tours}
<1> DEFINE put == conn[c].put
           D == DOMAIN put \cup DOMAIN tours
           value(t) == IF t \in DOMAIN put THEN put[t] ELSE tours[t]
           V == {u \in D : value(u) # Gone}
<1>1. PICK P \in SUBSET Tours : put \in [P -> TourRow \cup {Gone}]
  <2>1. conn[c] \in Connection
    BY DEF CurrentTyped
  <2>2. put \in Written
    BY <2>1 DEF Connection
  <2> HIDE DEF put
  <2> QED
    BY <2>2 DEF Written
<1>2. PICK T \in SUBSET Tours : tours \in [T -> TourRow]
  BY DEF CurrentTyped
<1>3. DOMAIN put = P /\ DOMAIN tours = T
  BY <1>1, <1>2
<1>4. \A u \in T : tours[u] \in TourRow /\ tours[u] # Gone
  BY <1>2, GoneIsNoRow
<1>5. V = {u \in D : u \in DOMAIN put => put[u] # Gone}
  BY <1>3, <1>4
<1>6. \A t \in V : value(t) \in TourRow
  BY <1>1, <1>3, <1>4
<1>7. View(c) = [t \in V |-> value(t)]
  BY DEF View
<1>8. V \in SUBSET Tours /\ View(c) \in [V -> TourRow]
  BY <1>1, <1>3, <1>6, <1>7
<1> HIDE DEF V
<1>9. DOMAIN View(c) = V /\ \A t \in V : View(c)[t] = value(t)
  BY <1>7
<1> QED
  BY <1>5, <1>8, <1>9

\* Who has written nothing sees the committed rows.
LEMMA ViewIsTours ==
  ASSUME CurrentTyped, NEW c \in Conns, DOMAIN conn[c].put = {}
  PROVE  View(c) = tours
<1>1. DOMAIN View(c) = DOMAIN tours /\ \A t \in DOMAIN tours : View(c)[t] = tours[t]
  BY ViewOf
<1>2. PICK S \in SUBSET Tours : View(c) \in [S -> TourRow]
  BY ViewOf
<1>3. PICK T \in SUBSET Tours : tours \in [T -> TourRow]
  BY DEF CurrentTyped
<1>4. S = T
  BY <1>1, <1>2, <1>3
<1> QED
  BY <1>1, <1>2, <1>3, <1>4

\* What a connection sees is changed by its own writes and by commits only.
LEMMA SameView ==
  ASSUME NEW o \in Conns, conn'[o] = conn[o], tours' = tours
  PROVE  View(o)' = View(o)
BY DEF View

\* A connection with other rows written.
LEMMA ConnectionIs ==
  ASSUME NEW q \in Connection, NEW p \in Written
  PROVE  /\ [q EXCEPT !.put = p] \in Connection /\ [q EXCEPT !.put = p].put = p
         /\ [q EXCEPT !.put = p].open = q.open /\ [q EXCEPT !.put = p].answered = q.answered
BY DEF Connection

\* g is f with row n at t.
ExtendedBy(f, t, n, g) == /\ DOMAIN g = DOMAIN f \cup {t}
                    /\ \A u \in DOMAIN g : g[u] = IF u = t THEN n ELSE f[u]

\* Everything that a written row changes.
LEMMA PutsDo ==
  ASSUME CurrentTyped, NEW c \in Conns, NEW t \in Tours, NEW n \in TourRow, Puts(c, t, n), tours' = tours
  PROVE  /\ conn' \in [Conns -> Connection] /\ \A o \in Conns \ {c} : conn'[o] = conn[o]
         /\ conn'[c].open = conn[c].open /\ conn'[c].answered = conn[c].answered
         /\ ExtendedBy(View(c), t, n, View(c)')
<1> DEFINE q == conn[c]
           p == [u \in DOMAIN q.put \cup {t} |-> IF u = t THEN n ELSE q.put[u]]
           r == [q EXCEPT !.put = p]
<1>1. q \in Connection /\ conn \in [Conns -> Connection]
  BY DEF CurrentTyped
<1>2. p \in Written
  <2>1. PICK P \in SUBSET Tours : q.put \in [P -> TourRow \cup {Gone}]
    BY <1>1 DEF Connection, Written
  <2>2. p \in [P \cup {t} -> TourRow \cup {Gone}]
    BY <2>1
  <2>3. P \cup {t} \in SUBSET Tours
    OBVIOUS
  <2> HIDE DEF p
  <2> QED
    BY <2>2, <2>3 DEF Written
<1>3. conn' = [conn EXCEPT ![c] = r]
  BY <1>1 DEF Puts
<1>4. DOMAIN p = DOMAIN q.put \cup {t} /\ \A u \in DOMAIN p : p[u] = IF u = t THEN n ELSE q.put[u]
  OBVIOUS
<1> HIDE DEF p
<1>5. r \in Connection /\ r.put = p /\ r.open = q.open /\ r.answered = q.answered
  BY <1>1, <1>2, ConnectionIs
<1> HIDE DEF r
<1>6. conn' \in [Conns -> Connection] /\ conn'[c] = r /\ \A o \in Conns \ {c} : conn'[o] = conn[o]
  BY <1>1, <1>3, <1>5
<1>7. CurrentTyped => DOMAIN View(c) = {u \in DOMAIN q.put \cup DOMAIN tours : u \in DOMAIN q.put => q.put[u] # Gone}
         /\ (\A u \in DOMAIN View(c) : View(c)[u] = IF u \in DOMAIN q.put THEN q.put[u] ELSE tours[u])
         /\ View(c) \in UNION {[S -> TourRow] : S \in SUBSET Tours}
  BY ViewOf
<1>8. n # Gone
  BY GoneIsNoRow
<1> DEFINE D == DOMAIN p \cup DOMAIN tours
           value(u) == IF u \in DOMAIN p THEN p[u] ELSE tours[u]
           W == {u \in D : value(u) # Gone}
<1>9. View(c)' = [u \in W |-> value(u)]
  BY <1>5, <1>6 DEF View
<1>10. \A u \in DOMAIN tours : tours[u] # Gone
  BY GoneIsNoRow DEF CurrentTyped
<1>11. W = DOMAIN View(c) \cup {t}
  BY <1>4, <1>7, <1>8, <1>10
<1>12. \A u \in W : value(u) = IF u = t THEN n ELSE View(c)[u]
  BY <1>4, <1>7, <1>11
<1> HIDE DEF W, value
<1>13. DOMAIN View(c)' = W /\ \A u \in W : View(c)'[u] = value(u)
  BY <1>9
<1>14. ExtendedBy(View(c), t, n, View(c)')
  BY <1>11, <1>12, <1>13 DEF ExtendedBy
<1> QED
  BY <1>5, <1>6, <1>14

\* A request, by its step.
LEMMA JobIs ==
  ASSUME CurrentTyped, NEW c \in Conns
  PROVE  /\ job[c] \in Jobs
         /\ job[c].step \in {"clear", "clearing", "save", "read", "move", "insert"} => job[c] \in Asking
         /\ job[c].step = "delete" => job[c] \in Wiping
         /\ job[c].step = "rename" => job[c] \in Naming
         /\ job[c].step = "commit" => job[c] \in Asking \cup Wiping \cup Naming
<1>1. job[c] \in Jobs
  BY DEF CurrentTyped
<1>2. job[c] \in Asking => job[c].step \notin {"delete", "rename"}
  BY DEF Asking
<1>3. job[c] \in Wiping => job[c].step \in {"delete", "commit"}
  BY DEF Wiping
<1>4. job[c] \in Naming => job[c].step \in {"rename", "commit"}
  BY DEF Naming
<1>5. job[c] = NoJob => job[c].step = "none"
  BY DEF NoJob
<1> QED
  BY <1>1, <1>2, <1>3, <1>4, <1>5 DEF Jobs

\* The uses of a connection are different ones.
LEMMA Unlike ==
  /\ NoJob \notin Asking /\ NoJob \notin Wiping /\ NoJob \notin Naming /\ NoJob \in Jobs
  /\ \A j : j \in Asking => j \notin Wiping /\ j \notin Naming
  /\ \A j : j \in Wiping => j \notin Naming
<1>1. NoJob \notin Asking /\ NoJob \notin Wiping /\ NoJob \notin Naming
  BY DEF NoJob, Asking, Wiping, Naming
<1>2. ASSUME NEW j \in Asking PROVE j \notin Wiping /\ j \notin Naming
  <2>1. DOMAIN j = {"step", "kind", "driver", "tour", "marks", "todo"} /\ "tour" \in DOMAIN j
    BY DEF Asking
  <2>2. (j \in Wiping => DOMAIN j = {"step", "kind", "marks"}) /\ (j \in Naming => DOMAIN j = {"step", "kind", "driver", "old"})
    BY DEF Wiping, Naming
  <2> QED
    BY <2>1, <2>2
<1>3. \A j : j \in Wiping => j \notin Naming
  BY DEF Wiping, Naming
<1> QED
  BY <1>1, <1>2, <1>3 DEF Jobs

\* One connection's use changes.
LEMMA JobsAre ==
  ASSUME CurrentTyped, NEW c \in Conns, NEW n \in Jobs, job' = [job EXCEPT ![c] = n]
  PROVE  job' \in [Conns -> Jobs] /\ job'[c] = n /\ \A o \in Conns \ {c} : job'[o] = job[o]
BY DEF CurrentTyped

\* A statement keeps the invariant, if what the request then sees is as its
\* step says.
LEMMA StatementKeeps ==
  ASSUME CurrentInv, NEW c \in Conns, job[c] \in Asking, Rest,
         NEW n \in Asking, job' = [job EXCEPT ![c] = n], n.kind = job[c].kind, StepsOf(n),
         conn' \in [Conns -> Connection], \A o \in Conns \ {c} : conn'[o] = conn[o],
         conn'[c].open = conn[c].open, conn'[c].answered = conn[c].answered,
         ~mixed => Progress(n, View(c)'),
         ~mixed /\ n.step \in {"save", "read", "move", "insert"} => DOMAIN conn'[c].put = {}
  PROVE  CurrentInv'
<1>0. CurrentTyped /\ Staged /\ Kept /\ Orderly
  BY DEF CurrentInv
<1>1. job' \in [Conns -> Jobs] /\ job'[c] = n /\ \A o \in Conns \ {c} : job'[o] = job[o]
  <2>1. n \in Jobs
    BY DEF Jobs
  <2> QED
    BY <1>0, <2>1, JobsAre
<1>2. UNCHANGED <<tours, leaked, swallowed, lostWrites, mixed, doubled>>
  BY DEF Rest
<1>3. CurrentTyped'
  BY <1>0, <1>1, <1>2 DEF CurrentTyped
<1>4. Staged'
  BY <1>0, <1>1 DEF Staged, StepsOf
<1>5. job[c] # NoJob /\ n # NoJob
  BY Unlike
<1>6. Kept'
  BY <1>0, <1>1, <1>2, <1>5 DEF Kept
<1>7. Orderly'
  <2> SUFFICES ASSUME ~mixed PROVE Unique(tours, doubled)' /\ Single' /\ \A o \in Conns : Writing(o)'
    BY <1>2 DEF Orderly
  <2>1. Unique(tours, doubled) /\ Single
    BY <1>0 DEF Orderly
  <2>2. \A o \in Conns \ {c} : job[o] = NoJob
    BY <1>5, <2>1 DEF Single
  <2>3. Single'
    BY <1>1, <1>5, <2>1, <2>2 DEF Single
  <2>4. Unique(tours, doubled)'
    BY <1>2, <2>1 DEF Unique
  <2>5. ASSUME NEW o \in Conns \ {c} PROVE Writing(o)'
    BY <1>1, <2>2, Unlike DEF Writing
  <2>6. Writing(c)'
    <3>1. PICK V : V = View(c)'
      OBVIOUS
    <3>2. Progress(n, V)
      BY <3>1
    <3>3. Progress(n, V)'
      BY <1>2, <3>2 DEF Progress, Unique
    <3> QED
      BY <1>1, <3>1, <3>3, Unlike DEF Writing
  <2> QED
    BY <2>3, <2>4, <2>5, <2>6
<1> QED
  BY <1>3, <1>4, <1>6, <1>7 DEF CurrentInv

-----------------------------------------------------------------------------
(* Requests come and connections idle *)

\* A request that comes keeps the invariant: if no other is under way, it
\* sees the committed rows.
LEMMA ComesKeeps ==
  ASSUME CurrentInv, NEW c \in Conns, NEW n \in Jobs, n # NoJob, Comes(c, n), UNCHANGED lostWrites,
         conn' = conn \/ (Begins(c) /\ n.kind # "choose"),
         n \in Asking => /\ StepsOf(n)
                         /\ n.step \in {"clear", "save", "read", "insert"} \/ (n.step = "move" /\ n.kind # "transfer"),
         n \in Wiping => n.step = "delete",
         n \in Naming => n.step = "rename"
  PROVE  CurrentInv'
<1>0. CurrentTyped /\ Staged /\ Kept /\ Orderly
  BY DEF CurrentInv
<1>1. /\ job[c] = NoJob /\ job' = [job EXCEPT ![c] = n]
      /\ mixed' = (mixed \/ \E o \in Conns : job[o] # NoJob \/ conn[o].open)
      /\ UNCHANGED <<tours, leaked, swallowed, doubled, lostWrites>>
  BY DEF Comes
<1>2. job' \in [Conns -> Jobs] /\ job'[c] = n /\ \A o \in Conns \ {c} : job'[o] = job[o]
  BY <1>0, <1>1, JobsAre
<1>3. /\ conn' \in [Conns -> Connection] /\ \A o \in Conns \ {c} : conn'[o] = conn[o]
      /\ conn'[c].put = conn[c].put /\ conn'[c].answered = conn[c].answered
      /\ n.kind = "choose" => conn'[c].open = conn[c].open
  <2>1. CASE conn' = conn
    BY <1>0, <2>1 DEF CurrentTyped
  <2>2. CASE Begins(c) /\ n.kind # "choose"
    <3> DEFINE q == [conn[c] EXCEPT !.open = TRUE]
    <3>1. conn[c] \in Connection /\ conn \in [Conns -> Connection]
      BY <1>0 DEF CurrentTyped
    <3>2. q \in Connection /\ q.put = conn[c].put /\ q.answered = conn[c].answered
      BY <3>1 DEF Connection
    <3>3. conn' = [conn EXCEPT ![c] = q]
      BY <2>2, <3>1 DEF Begins
    <3> HIDE DEF q
    <3> QED
      BY <2>2, <3>1, <3>2, <3>3
  <2> QED
    BY <2>1, <2>2
<1>4. CurrentTyped'
  BY <1>0, <1>1, <1>2, <1>3 DEF CurrentTyped
<1>5. Staged'
  BY <1>0, <1>2 DEF Staged, StepsOf
<1>6. Kept'
  <2>1. (lostWrites => leaked \/ swallowed)'
    BY <1>0, <1>1 DEF Kept
  <2>2. ASSUME ~leaked, NEW o \in Conns
        PROVE  ~conn'[o].answered /\ (conn'[o].open => job'[o] # NoJob /\ job'[o].kind # "choose")
    <3>1. ~conn[o].answered /\ (conn[o].open => job[o] # NoJob /\ job[o].kind # "choose")
      BY <1>0, <2>2 DEF Kept
    <3>2. CASE o # c
      BY <1>2, <1>3, <3>1, <3>2
    <3>3. CASE o = c
      BY <1>1, <1>2, <1>3, <3>1, <3>3
    <3> QED
      BY <3>2, <3>3
  <2> QED
    BY <1>1, <2>1, <2>2 DEF Kept
<1>7. Orderly'
  <2> SUFFICES ASSUME ~mixed, \A o \in Conns : job[o] = NoJob /\ ~conn[o].open
               PROVE  Unique(tours, doubled)' /\ Single' /\ \A o \in Conns : Writing(o)'
    BY <1>0, <1>1 DEF Orderly, CurrentTyped
  <2>1. Unique(tours, doubled) /\ \A o \in Conns : DOMAIN conn[o].put = {}
    BY <1>0 DEF Orderly, Single
  <2>2. Unique(tours, doubled)'
    BY <1>1, <2>1 DEF Unique
  <2>3. Single'
    <3>1. \A o \in Conns : DOMAIN conn'[o].put = {}
      BY <1>3, <2>1
    <3>2. \A o \in Conns : job'[o] # NoJob => o = c
      BY <1>2
    <3>3. \A o \in Conns : job'[o] # NoJob /\ job'[o].kind = "choose" => ~conn'[o].open
      BY <1>2, <1>3, <3>2
    <3> QED
      BY <3>1, <3>2, <3>3 DEF Single
  <2>4. ASSUME NEW o \in Conns \ {c} PROVE Writing(o)'
    BY <1>2, Unlike DEF Writing
  <2>5. Writing(c)'
    <3>1. PICK V : V = View(c)'
      OBVIOUS
    <3>2. DOMAIN conn'[c].put = {} /\ View(c)' = View(c)
      BY <1>1, <1>3, <2>1 DEF View
    <3>3. V = tours
      BY <1>0, <2>1, <3>1, <3>2, ViewIsTours
    <3>4. n \in Asking => Progress(n, V)'
      BY <1>1, <2>1, <3>3 DEF Progress, Unique
    <3>5. (n \in Wiping => n.step # "commit") /\ (n \in Naming => n.step # "commit")
      OBVIOUS
    <3> QED
      BY <1>2, <3>1, <3>2, <3>4, <3>5 DEF Writing
  <2> QED
    BY <2>2, <2>3, <2>4, <2>5
<1> QED
  BY <1>4, <1>5, <1>6, <1>7 DEF CurrentInv

\* A request for a driver and a tour.
LEMMA TaskComes ==
  ASSUME CurrentInv, NEW c \in Conns, NEW d \in Drivers, NEW t \in Tours, NEW m \in BOOLEAN,
         NEW step, NEW kind,
         \/ step = "clear" /\ kind \in {"choose", "save"} /\ m
         \/ step = "save" /\ kind = "save"
         \/ step = "read" /\ kind = "transfer"
         \/ step \in {"insert", "save", "move"} /\ kind = "direct" /\ ~m,
         Comes(c, Task(step, kind, d, t, m)), UNCHANGED lostWrites,
         conn' = conn \/ (Begins(c) /\ kind # "choose")
  PROVE  CurrentInv'
<1>0. PICK n : n = Task(step, kind, d, t, m)
  OBVIOUS
<1>1. n \in Asking /\ n.step = step /\ n.kind = kind /\ n.marks = m
  BY <1>0 DEF Task, Asking
<1>2. n \in Jobs /\ n # NoJob /\ n \notin Wiping /\ n \notin Naming
  BY <1>1, Unlike DEF Jobs
<1>3. StepsOf(n)
  BY <1>1 DEF StepsOf
<1>4. n.step \in {"clear", "save", "read", "insert"} \/ (n.step = "move" /\ n.kind # "transfer")
  BY <1>1
<1> QED
  BY <1>0, <1>1, <1>2, <1>3, <1>4, ComesKeeps

\* The requests.
LEMMA RequestsComing ==
  ASSUME CurrentInv, NEW c \in Conns,
         \/ ResetDatabase(c)
         \/ \E old, new \in Drivers : Rename(c, old, new)
         \/ \E d \in Drivers, t \in Tours :
               \/ Choose(c, d, t) \/ SyncTour(c, d, t) \/ TransferTour(c, d, t)
               \/ PatchTour(c, d, t) \/ PushTour(c, d, t) \/ SeedTour(c, d, t)
               \/ \E current \in BOOLEAN : SaveTour(c, d, t, current)
  PROVE  CurrentInv'
<1>1. ASSUME ResetDatabase(c) PROVE CurrentInv'
  <2> DEFINE n == [step |-> "delete", kind |-> "reset", marks |-> FALSE]
  <2>1. n \in Wiping /\ n \in Jobs /\ n # NoJob /\ n \notin Asking /\ n \notin Naming /\ n.step = "delete" /\ n.kind # "choose"
    <3>1. n \in Wiping /\ n.step = "delete" /\ n.kind # "choose"
      BY DEF Wiping
    <3> QED
      BY <3>1, Unlike DEF Jobs
  <2>2. Comes(c, n) /\ Begins(c) /\ UNCHANGED lostWrites
    BY <1>1 DEF ResetDatabase
  <2> HIDE DEF n
  <2> QED
    BY <2>1, <2>2, ComesKeeps
<1>2. ASSUME NEW old \in Drivers, NEW new \in Drivers, Rename(c, old, new) PROVE CurrentInv'
  <2> DEFINE n == [step |-> "rename", kind |-> "direct", driver |-> new, old |-> old]
  <2>1. n \in Naming /\ n \in Jobs /\ n # NoJob /\ n \notin Asking /\ n \notin Wiping /\ n.step = "rename" /\ n.kind # "choose"
    <3>1. n \in Naming /\ n.step = "rename" /\ n.kind # "choose"
      BY DEF Naming
    <3> QED
      BY <3>1, Unlike DEF Jobs
  <2>2. Comes(c, n) /\ Begins(c) /\ UNCHANGED lostWrites
    BY <1>2 DEF Rename
  <2> HIDE DEF n
  <2> QED
    BY <2>1, <2>2, ComesKeeps
<1>3. ASSUME NEW d \in Drivers, NEW t \in Tours, Choose(c, d, t) \/ SyncTour(c, d, t) PROVE CurrentInv'
  <2>1. /\ UNCHANGED lostWrites
        /\ \/ Comes(c, Task("clear", "choose", d, t, TRUE)) /\ conn' = conn
           \/ Comes(c, Task("clear", "save", d, t, TRUE)) /\ Begins(c)
    BY <1>3 DEF Choose, SyncTour
  <2> QED
    BY <2>1, TaskComes
<1>4. ASSUME NEW d \in Drivers, NEW t \in Tours, NEW b \in BOOLEAN, SaveTour(c, d, t, b) PROVE CurrentInv'
  BY <1>4, TaskComes DEF SaveTour
<1>5. ASSUME NEW d \in Drivers, NEW t \in Tours, TransferTour(c, d, t) PROVE CurrentInv'
  BY <1>5, TaskComes DEF TransferTour
<1>6. ASSUME NEW d \in Drivers, NEW t \in Tours, PatchTour(c, d, t) \/ PushTour(c, d, t) \/ SeedTour(c, d, t) PROVE CurrentInv'
  <2>1. PICK step \in {"insert", "save", "move"} : Comes(c, Task(step, "direct", d, t, FALSE)) /\ Begins(c) /\ UNCHANGED lostWrites
    BY <1>6 DEF PatchTour, PushTour, SeedTour
  <2> QED
    BY <2>1, TaskComes
<1> QED
  BY <1>1, <1>2, <1>3, <1>4, <1>5, <1>6

\* A refused transfer leaks a transaction, and the pool closes an idle
\* connection: neither writes.
LEMMA IdleKeeps ==
  ASSUME CurrentInv, NEW c \in Conns, TransferRefused(c) \/ IdleClosed(c)
  PROVE  CurrentInv'
<1>0. CurrentTyped /\ Staged /\ Kept /\ Orderly
  BY DEF CurrentInv
<1>1. job[c] = NoJob /\ UNCHANGED <<tours, job, swallowed, mixed, doubled>>
  BY DEF TransferRefused, IdleClosed
<1>2. /\ conn' \in [Conns -> Connection] /\ \A o \in Conns \ {c} : conn'[o] = conn[o]
      /\ DOMAIN conn[c].put = {} => DOMAIN conn'[c].put = {}
  <2>1. conn[c] \in Connection /\ conn \in [Conns -> Connection]
    BY <1>0 DEF CurrentTyped
  <2>2. CASE TransferRefused(c)
    <3> DEFINE q == [conn[c] EXCEPT !.open = TRUE]
    <3>1. q \in Connection /\ q.put = conn[c].put
      BY <2>1 DEF Connection
    <3>2. conn' = [conn EXCEPT ![c] = q]
      BY <2>1, <2>2 DEF TransferRefused, Begins
    <3> HIDE DEF q
    <3> QED
      BY <2>1, <3>1, <3>2
  <2>3. CASE IdleClosed(c)
    <3>1. conn' = [conn EXCEPT ![c] = Clean]
      BY <2>3 DEF IdleClosed
    <3> QED
      BY <2>1, <3>1, CleanIs
  <2> QED
    BY <2>2, <2>3
<1>3. leaked' \in BOOLEAN /\ lostWrites' \in BOOLEAN /\ Kept'
  <2>1. CASE TransferRefused(c)
    BY <1>0, <2>1 DEF TransferRefused, Kept, CurrentTyped
  <2>2. CASE IdleClosed(c)
    <3>1. /\ conn[c].open /\ conn' = [conn EXCEPT ![c] = Clean]
          /\ lostWrites' = (lostWrites \/ conn[c].answered) /\ leaked' = leaked
      BY <2>2 DEF IdleClosed
    <3>2. leaked
      BY <1>0, <1>1, <3>1 DEF Kept
    <3>3. conn[c].answered \in BOOLEAN
      BY <1>0 DEF CurrentTyped, Connection
    <3> QED
      BY <1>0, <3>1, <3>2, <3>3 DEF Kept, CurrentTyped
  <2> QED
    BY <2>1, <2>2
<1>4. CurrentTyped'
  BY <1>0, <1>1, <1>2, <1>3 DEF CurrentTyped
<1>5. Staged'
  BY <1>0, <1>1 DEF Staged, StepsOf
<1>6. Orderly'
  <2> SUFFICES ASSUME ~mixed PROVE Unique(tours, doubled)' /\ Single' /\ \A o \in Conns : Writing(o)'
    BY <1>1 DEF Orderly
  <2>1. Unique(tours, doubled) /\ Single /\ \A o \in Conns : Writing(o)
    BY <1>0 DEF Orderly
  <2>2. Unique(tours, doubled)'
    BY <1>1, <2>1 DEF Unique
  <2>3. Single'
    BY <1>1, <1>2, <2>1 DEF Single
  <2>4. Writing(c)'
    BY <1>1, Unlike DEF Writing
  <2>5. ASSUME NEW o \in Conns \ {c} PROVE Writing(o)'
    <3>1. PICK V : V = View(o)
      OBVIOUS
    <3>2. View(o)' = V
      BY <1>1, <1>2, <3>1, SameView
    <3>3. job[o] \in Asking => Progress(job[o], V)
      BY <2>1, <3>1 DEF Writing
    <3>4. PICK n : n = job[o]
      OBVIOUS
    <3>5. n \in Asking => Progress(n, V)'
      BY <1>1, <3>3, <3>4 DEF Progress, Unique
    <3>6. job'[o] = n /\ conn'[o] = conn[o]
      BY <1>1, <1>2, <3>4
    <3>7. Unique(V, doubled \cup {n.driver}) => Unique(V, doubled \cup {n.driver})'
      BY <1>1 DEF Unique
    <3> QED
      BY <2>1, <3>1, <3>2, <3>4, <3>5, <3>6, <3>7 DEF Writing
  <2> QED
    BY <2>2, <2>3, <2>4, <2>5
<1> QED
  BY <1>3, <1>4, <1>5, <1>6 DEF CurrentInv

\* All that tours may hold.
TourTables == UNION {[S -> TourRow] : S \in SUBSET Tours}

-----------------------------------------------------------------------------
(* The statements of a request *)

\* A row written for one driver leaves the tours of the others as they are.
LEMMA OthersStayUnique ==
  ASSUME NEW f, NEW g, NEW t, NEW n, ExtendedBy(f, t, n, g), NEW S, Unique(f, S)
  PROVE  Unique(g, S \cup {n.driver}) /\ (~n.current => Unique(g, S))
<1>1. ASSUME NEW u \in DOMAIN g, NEW v \in DOMAIN g, g[u].current, g[v].current, g[u].driver = g[v].driver,
             u # t, v # t
      PROVE  u = v \/ g[u].driver \in S
  <2>1. u \in DOMAIN f /\ v \in DOMAIN f /\ g[u] = f[u] /\ g[v] = f[v]
    BY <1>1 DEF ExtendedBy
  <2> QED
    BY <1>1, <2>1 DEF Unique
<1>2. t \in DOMAIN g /\ g[t] = n
  BY DEF ExtendedBy
<1> QED
  BY <1>1, <1>2 DEF Unique

\* What is known of the request that a connection runs.
LEMMA WorkOf ==
  ASSUME CurrentInv, NEW c \in Conns, job[c] \in Asking
  PROVE  /\ CurrentTyped /\ StepsOf(job[c])
         /\ job[c].tour \in Tours /\ job[c].driver \in Drivers /\ job[c].marks \in BOOLEAN
         /\ View(c) \in TourTables /\ \A t \in DOMAIN View(c) : t \in Tours /\ View(c)[t] \in TourRow
         /\ ~mixed => /\ Progress(job[c], View(c)) /\ Unique(tours, doubled)
                      /\ job[c].step \in {"save", "read", "move", "insert"} => View(c) = tours /\ DOMAIN conn[c].put = {}
<1>1. CurrentTyped /\ Staged /\ Orderly
  BY DEF CurrentInv
<1>2. StepsOf(job[c]) /\ job[c].tour \in Tours /\ job[c].driver \in Drivers /\ job[c].marks \in BOOLEAN
  BY <1>1 DEF Staged, Asking
<1>3. View(c) \in TourTables
  BY <1>1, ViewOf DEF TourTables
<1>4. \A t \in DOMAIN View(c) : t \in Tours /\ View(c)[t] \in TourRow
  BY <1>3 DEF TourTables
<1>5. ASSUME ~mixed
      PROVE  /\ Progress(job[c], View(c)) /\ Unique(tours, doubled)
             /\ job[c].step \in {"save", "read", "move", "insert"} => DOMAIN conn[c].put = {}
  BY <1>1, <1>5 DEF Orderly, Writing
<1>6. DOMAIN conn[c].put = {} => View(c) = tours
  BY <1>1, ViewIsTours
<1> QED
  BY <1>1, <1>2, <1>3, <1>4, <1>5, <1>6

\* A statement that writes no row.
LEMMA Unwritten ==
  ASSUME CurrentTyped, NEW c \in Conns, UNCHANGED <<conn, tours>>
  PROVE  /\ conn' \in [Conns -> Connection] /\ \A o \in Conns \ {c} : conn'[o] = conn[o]
         /\ conn'[c] = conn[c] /\ View(c)' = View(c)
BY SameView DEF CurrentTyped

\* A row with a field changed.
LEMMA RowIs ==
  ASSUME NEW r \in TourRow, NEW d \in Drivers, NEW b \in BOOLEAN
  PROVE  /\ [driver |-> d, current |-> b] \in TourRow
         /\ [r EXCEPT !.driver = d] \in TourRow /\ [r EXCEPT !.driver = d].driver = d
         /\ [r EXCEPT !.driver = d].current = r.current
         /\ [r EXCEPT !.current = b] \in TourRow /\ [r EXCEPT !.current = b].current = b
         /\ [r EXCEPT !.current = b].driver = r.driver
BY DEF TourRow

\* A save writes its tour, as a current one that it then marks, or not
\* (import-engine.js 63-70, 113-118).
LEMMA SaveKeeps ==
  ASSUME CurrentInv, NEW c \in Conns, Save(c)
  PROVE  CurrentInv'
<1>1. PICK j : j = job[c]
  OBVIOUS
<1>2. PICK s \in {"clear", "commit"} : s = AfterMove(j.marks) /\ s = IF j.marks THEN "clear" ELSE "commit"
  BY DEF AfterMove
<1>3. j.step = "save" /\ Puts(c, j.tour, [driver |-> j.driver, current |-> j.marks]) /\ Goes(c, s) /\ Rest
  BY <1>1, <1>2 DEF Save
<1>4. CurrentTyped /\ job[c] \in Asking
  BY <1>1, <1>3, JobIs DEF CurrentInv
<1>5. PICK n : n = [j EXCEPT !.step = s]
  OBVIOUS
<1>6. n \in Asking /\ n.step = s /\ n.kind = j.kind /\ n.driver = j.driver /\ n.tour = j.tour /\ n.marks = j.marks
  BY <1>1, <1>4, <1>5 DEF Asking
<1>7. job' = [job EXCEPT ![c] = n] /\ tours' = tours
  BY <1>1, <1>3, <1>4, <1>5 DEF Goes, Rest, CurrentTyped
<1>8. StepsOf(j) /\ j.tour \in Tours /\ j.driver \in Drivers /\ j.marks \in BOOLEAN
      /\ (~mixed => Unique(View(c), doubled))
  BY <1>1, <1>3, <1>4, WorkOf
<1>9. StepsOf(n)
  BY <1>2, <1>3, <1>6, <1>8 DEF StepsOf
<1>10. PICK r \in TourRow : r = [driver |-> j.driver, current |-> j.marks]
  BY <1>8 DEF TourRow
<1>11. /\ conn' \in [Conns -> Connection] /\ \A o \in Conns \ {c} : conn'[o] = conn[o]
       /\ conn'[c].open = conn[c].open /\ conn'[c].answered = conn[c].answered
       /\ ExtendedBy(View(c), j.tour, r, View(c)')
  BY <1>3, <1>4, <1>7, <1>8, <1>10, PutsDo
<1>12. ~mixed => Unique(View(c)', doubled \cup {j.driver}) /\ (~j.marks => Unique(View(c)', doubled))
  BY <1>8, <1>10, <1>11, OthersStayUnique
<1>13. ~mixed => Progress(n, View(c)')
  BY <1>2, <1>6, <1>8, <1>12 DEF Progress
<1> QED
  BY <1>1, <1>2, <1>3, <1>4, <1>6, <1>7, <1>9, <1>11, <1>13, StatementKeeps

\* A seed or a push writes its tour as a current one, and marks none.
LEMMA InsertKeeps ==
  ASSUME CurrentInv, NEW c \in Conns, Insert(c) \/ UpsertTour(c)
  PROVE  CurrentInv'
<1>1. PICK j : j = job[c]
  OBVIOUS
<1>2. j.step = "insert" /\ Puts(c, j.tour, [driver |-> j.driver, current |-> TRUE]) /\ Goes(c, "commit") /\ Rest
  BY <1>1 DEF Insert, UpsertTour
<1>3. CurrentTyped /\ job[c] \in Asking
  BY <1>1, <1>2, JobIs DEF CurrentInv
<1>4. PICK n : n = [j EXCEPT !.step = "commit"]
  OBVIOUS
<1>5. n \in Asking /\ n.step = "commit" /\ n.kind = j.kind /\ n.driver = j.driver /\ n.tour = j.tour /\ n.marks = j.marks
  BY <1>1, <1>3, <1>4 DEF Asking
<1>6. job' = [job EXCEPT ![c] = n] /\ tours' = tours
  BY <1>1, <1>2, <1>3, <1>4 DEF Goes, Rest, CurrentTyped
<1>7. StepsOf(j) /\ j.tour \in Tours /\ j.driver \in Drivers
      /\ (~mixed => Unique(View(c), doubled))
  BY <1>1, <1>2, <1>3, WorkOf
<1>8. StepsOf(n) /\ n.kind = "direct"
  BY <1>2, <1>5, <1>7 DEF StepsOf
<1>9. PICK r \in TourRow : r = [driver |-> j.driver, current |-> TRUE]
  BY <1>7 DEF TourRow
<1>10. /\ conn' \in [Conns -> Connection] /\ \A o \in Conns \ {c} : conn'[o] = conn[o]
       /\ conn'[c].open = conn[c].open /\ conn'[c].answered = conn[c].answered
       /\ ExtendedBy(View(c), j.tour, r, View(c)')
  BY <1>2, <1>3, <1>6, <1>7, <1>9, PutsDo
<1>11. ~mixed => Unique(View(c)', doubled \cup {j.driver})
  BY <1>7, <1>9, <1>10, OthersStayUnique
<1>12. ~mixed => Progress(n, View(c)')
  BY <1>5, <1>8, <1>11 DEF Progress
<1> QED
  BY <1>1, <1>2, <1>3, <1>5, <1>6, <1>8, <1>10, <1>12, StatementKeeps

\* A transfer reads whether the tour is current (admin-transfer-
\* tour.routes.js 14-18).
LEMMA ReadKeeps ==
  ASSUME CurrentInv, NEW c \in Conns, ReadTour(c)
  PROVE  CurrentInv'
<1>1. PICK j : j = job[c]
  OBVIOUS
<1>2. j.step = "read" /\ j.tour \in DOMAIN View(c) /\ conn' = conn /\ Rest
      /\ job' = [job EXCEPT ![c].step = "move", ![c].marks = View(c)[j.tour].current]
  BY <1>1 DEF ReadTour
<1>3. CurrentTyped /\ job[c] \in Asking
  BY <1>1, <1>2, JobIs DEF CurrentInv
<1>4. StepsOf(j) /\ View(c)[j.tour] \in TourRow
      /\ (~mixed => View(c) = tours /\ DOMAIN conn[c].put = {})
  BY <1>1, <1>2, <1>3, WorkOf
<1>5. PICK m \in BOOLEAN : m = View(c)[j.tour].current
  BY <1>4 DEF TourRow
<1>6. PICK n : n = [j EXCEPT !.step = "move", !.marks = m]
  OBVIOUS
<1>7. n \in Asking /\ n.step = "move" /\ n.kind = j.kind /\ n.driver = j.driver /\ n.tour = j.tour /\ n.marks = m
  BY <1>1, <1>3, <1>6 DEF Asking
<1>8. job' = [job EXCEPT ![c] = n] /\ tours' = tours
  BY <1>1, <1>2, <1>3, <1>5, <1>6 DEF Rest, CurrentTyped
<1>9. StepsOf(n)
  BY <1>2, <1>4, <1>7 DEF StepsOf
<1>10. /\ conn' \in [Conns -> Connection] /\ \A o \in Conns \ {c} : conn'[o] = conn[o]
       /\ conn'[c] = conn[c]
  BY <1>2, <1>3, <1>8, Unwritten
<1>11. ~mixed => Progress(n, View(c)')
  BY <1>4, <1>5, <1>7 DEF Progress
<1> QED
  BY <1>1, <1>2, <1>3, <1>4, <1>7, <1>8, <1>9, <1>10, <1>11, StatementKeeps

\* A transfer and the tour form give the tour to another driver.
LEMMA MoveKeeps ==
  ASSUME CurrentInv, NEW c \in Conns, Move(c)
  PROVE  CurrentInv'
<1>1. PICK j : j = job[c]
  OBVIOUS
<1>2. PICK s \in {"clear", "commit"} : s = AfterMove(j.marks) /\ s = IF j.marks THEN "clear" ELSE "commit"
  BY DEF AfterMove
<1>3. /\ j.step = "move" /\ Goes(c, s) /\ Rest
      /\ IF j.tour \in DOMAIN View(c)
         THEN Puts(c, j.tour, [View(c)[j.tour] EXCEPT !.driver = j.driver]) ELSE UNCHANGED conn
  BY <1>1, <1>2 DEF Move
<1>4. CurrentTyped /\ job[c] \in Asking
  BY <1>1, <1>3, JobIs DEF CurrentInv
<1>5. PICK n : n = [j EXCEPT !.step = s]
  OBVIOUS
<1>6. n \in Asking /\ n.step = s /\ n.kind = j.kind /\ n.driver = j.driver /\ n.tour = j.tour /\ n.marks = j.marks
  BY <1>1, <1>4, <1>5 DEF Asking
<1>7. job' = [job EXCEPT ![c] = n] /\ tours' = tours
  BY <1>1, <1>3, <1>4, <1>5 DEF Goes, Rest, CurrentTyped
<1>8. /\ StepsOf(j) /\ j.tour \in Tours /\ j.driver \in Drivers /\ j.marks \in BOOLEAN
      /\ j.tour \in DOMAIN View(c) => View(c)[j.tour] \in TourRow
      /\ ~mixed => View(c) = tours /\ Unique(tours, doubled) /\ Progress(j, View(c))
  BY <1>1, <1>3, <1>4, WorkOf
<1>9. StepsOf(n)
  BY <1>2, <1>3, <1>6, <1>8 DEF StepsOf
<1>10. CASE j.tour \in DOMAIN View(c)
  <2>1. PICK v \in TourRow : v = View(c)[j.tour]
    BY <1>8, <1>10
  <2>2. PICK r \in TourRow : r = [v EXCEPT !.driver = j.driver]
    BY <1>8, <2>1, RowIs
  <2>3. r.driver = j.driver /\ r.current = v.current
    BY <1>8, <2>1, <2>2, RowIs
  <2>4. /\ conn' \in [Conns -> Connection] /\ \A o \in Conns \ {c} : conn'[o] = conn[o]
        /\ conn'[c].open = conn[c].open /\ conn'[c].answered = conn[c].answered
        /\ ExtendedBy(View(c), j.tour, r, View(c)')
    BY <1>3, <1>4, <1>7, <1>8, <1>10, <2>1, <2>2, PutsDo
  <2>5. ~mixed => Unique(View(c)', doubled \cup {j.driver}) /\ (~r.current => Unique(View(c)', doubled))
    BY <1>8, <2>3, <2>4, OthersStayUnique
  <2>6. ~mixed /\ j.kind = "transfer" => r.current = j.marks
    BY <1>3, <1>8, <1>10, <2>1, <2>3 DEF Progress
  <2>7. ~mixed => Progress(n, View(c)')
    <3>1. j.kind = "transfer" \/ (j.kind = "direct" /\ ~j.marks)
      BY <1>3, <1>8 DEF StepsOf
    <3> QED
      BY <1>2, <1>6, <1>8, <2>5, <2>6, <3>1 DEF Progress
  <2> QED
    BY <1>1, <1>2, <1>3, <1>4, <1>6, <1>7, <1>9, <2>4, <2>7, StatementKeeps
<1>11. CASE j.tour \notin DOMAIN View(c)
  <2>1. conn' = conn
    BY <1>3, <1>11
  <2>2. /\ conn' \in [Conns -> Connection] /\ \A o \in Conns \ {c} : conn'[o] = conn[o]
        /\ conn'[c] = conn[c] /\ View(c)' = View(c)
    BY <1>4, <1>7, <2>1, Unwritten
  <2>3. ~mixed => Unique(View(c), doubled) /\ Unique(View(c), doubled \cup {j.driver})
    BY <1>8 DEF Unique
  <2>4. ~mixed => Progress(n, View(c))
    BY <1>2, <1>3, <1>6, <1>8, <2>3 DEF Progress, StepsOf
  <2> QED
    BY <1>1, <1>2, <1>3, <1>4, <1>6, <1>7, <1>9, <2>2, <2>4, StatementKeeps
<1> QED
  BY <1>10, <1>11

\* set_current_tour finds the driver's other tours (schema-contract.js
\* 245-249).
LEMMA ClearKeeps ==
  ASSUME CurrentInv, NEW c \in Conns, Clear(c)
  PROVE  CurrentInv'
<1>1. PICK j : j = job[c]
  OBVIOUS
<1>2. PICK T : T = {t \in DOMAIN View(c) \ {j.tour} : View(c)[t].driver = j.driver}
  OBVIOUS
<1>3. j.step = "clear" /\ conn' = conn /\ Rest
      /\ job' = [job EXCEPT ![c].step = "clearing", ![c].todo = T]
  BY <1>1, <1>2 DEF Clear
<1>4. CurrentTyped /\ job[c] \in Asking
  BY <1>1, <1>3, JobIs DEF CurrentInv
<1>5. StepsOf(j) /\ (\A t \in DOMAIN View(c) : t \in Tours) /\ (~mixed => Progress(j, View(c)))
  BY <1>1, <1>4, WorkOf
<1>6. PICK n : n = [j EXCEPT !.step = "clearing", !.todo = T]
  OBVIOUS
<1>7. T \in SUBSET Tours
  BY <1>2, <1>5
<1>8. n \in Asking /\ n.step = "clearing" /\ n.kind = j.kind /\ n.driver = j.driver /\ n.tour = j.tour
      /\ n.marks = j.marks /\ n.todo = T
  BY <1>1, <1>4, <1>6, <1>7 DEF Asking
<1>9. job' = [job EXCEPT ![c] = n] /\ tours' = tours
  BY <1>1, <1>3, <1>4, <1>6 DEF Rest, CurrentTyped
<1>10. StepsOf(n)
  BY <1>3, <1>5, <1>8 DEF StepsOf
<1>11. /\ conn' \in [Conns -> Connection] /\ \A o \in Conns \ {c} : conn'[o] = conn[o]
       /\ conn'[c] = conn[c] /\ View(c)' = View(c)
  BY <1>3, <1>4, <1>9, Unwritten
<1>12. ~mixed => Progress(n, View(c))
  BY <1>2, <1>3, <1>5, <1>8 DEF Progress
<1> QED
  BY <1>1, <1>3, <1>4, <1>8, <1>9, <1>10, <1>11, <1>12, StatementKeeps

\* One of them is cleared.
LEMMA ClearRowKeeps ==
  ASSUME CurrentInv, NEW c \in Conns, NEW t \in Tours, ClearRow(c, t)
  PROVE  CurrentInv'
<1>1. PICK j : j = job[c]
  OBVIOUS
<1>2. /\ j.step = "clearing" /\ t \in j.todo /\ Rest
      /\ IF t \in DOMAIN View(c) /\ View(c)[t].driver = j.driver
         THEN Puts(c, t, [View(c)[t] EXCEPT !.current = FALSE]) ELSE UNCHANGED conn
      /\ job' = [job EXCEPT ![c].todo = @ \ {t}]
  BY <1>1 DEF ClearRow
<1>3. CurrentTyped /\ job[c] \in Asking
  BY <1>1, <1>2, JobIs DEF CurrentInv
<1>4. /\ StepsOf(j) /\ (~mixed => Progress(j, View(c)))
      /\ t \in DOMAIN View(c) => View(c)[t] \in TourRow
  BY <1>1, <1>3, WorkOf
<1>5. PICK n : n = [j EXCEPT !.todo = j.todo \ {t}]
  OBVIOUS
<1>6. n \in Asking /\ n.step = "clearing" /\ n.kind = j.kind /\ n.driver = j.driver /\ n.tour = j.tour
      /\ n.marks = j.marks /\ n.todo = j.todo \ {t}
  BY <1>1, <1>2, <1>3, <1>5 DEF Asking
<1>7. job' = [job EXCEPT ![c] = n] /\ tours' = tours
  BY <1>1, <1>2, <1>3, <1>5 DEF Rest, CurrentTyped
<1>8. StepsOf(n)
  BY <1>2, <1>4, <1>6 DEF StepsOf
<1>9. ~mixed => /\ Unique(View(c), doubled \cup {j.driver})
                /\ \A u \in DOMAIN View(c) : View(c)[u].driver = j.driver /\ View(c)[u].current
                                                => u = j.tour \/ u \in j.todo
  BY <1>2, <1>4 DEF Progress
<1>10. CASE t \in DOMAIN View(c) /\ View(c)[t].driver = j.driver
  <2>1. PICK v \in TourRow : v = View(c)[t]
    BY <1>4, <1>10
  <2>2. PICK r \in TourRow : r = [v EXCEPT !.current = FALSE]
    BY <2>1 DEF TourRow
  <2>3. r.driver = j.driver /\ ~r.current
    BY <1>10, <2>1, <2>2 DEF TourRow
  <2>4. /\ conn' \in [Conns -> Connection] /\ \A o \in Conns \ {c} : conn'[o] = conn[o]
        /\ conn'[c].open = conn[c].open /\ conn'[c].answered = conn[c].answered
        /\ ExtendedBy(View(c), t, r, View(c)')
    BY <1>2, <1>3, <1>7, <1>10, <2>1, <2>2, PutsDo
  <2>5. ~mixed => Unique(View(c)', doubled \cup {j.driver})
    BY <1>9, <2>3, <2>4, OthersStayUnique
  <2>6. PICK g : g = View(c)'
    OBVIOUS
  <2>7. ASSUME ~mixed, NEW u \in DOMAIN g, g[u].driver = j.driver, g[u].current
        PROVE  u = j.tour \/ u \in n.todo
    <3>1. u # t /\ u \in DOMAIN View(c) /\ g[u] = View(c)[u]
      BY <2>3, <2>4, <2>6, <2>7 DEF ExtendedBy
    <3> QED
      BY <1>6, <1>9, <2>7, <3>1
  <2>8. ~mixed => Progress(n, g)
    BY <1>6, <2>5, <2>6, <2>7 DEF Progress
  <2> QED
    BY <1>1, <1>2, <1>3, <1>6, <1>7, <1>8, <2>4, <2>6, <2>8, StatementKeeps
<1>11. CASE ~(t \in DOMAIN View(c) /\ View(c)[t].driver = j.driver)
  <2>1. conn' = conn
    BY <1>2, <1>11
  <2>2. /\ conn' \in [Conns -> Connection] /\ \A o \in Conns \ {c} : conn'[o] = conn[o]
        /\ conn'[c] = conn[c] /\ View(c)' = View(c)
    BY <1>3, <1>7, <2>1, Unwritten
  <2>3. ~mixed => Progress(n, View(c))
    BY <1>6, <1>9, <1>11 DEF Progress
  <2> QED
    BY <1>1, <1>2, <1>3, <1>6, <1>7, <1>8, <2>2, <2>3, StatementKeeps
<1> QED
  BY <1>10, <1>11

\* The tour is marked when the others are cleared: the driver has one.
LEMMA MarkKeeps ==
  ASSUME CurrentInv, NEW c \in Conns, Mark(c)
  PROVE  CurrentInv'
<1>1. PICK j : j = job[c]
  OBVIOUS
<1>2. /\ j.step = "clearing" /\ j.todo = {} /\ Goes(c, "commit") /\ Rest
      /\ IF j.tour \in DOMAIN View(c) /\ View(c)[j.tour].driver = j.driver
         THEN Puts(c, j.tour, [View(c)[j.tour] EXCEPT !.current = TRUE]) ELSE UNCHANGED conn
  BY <1>1 DEF Mark
<1>3. CurrentTyped /\ job[c] \in Asking
  BY <1>1, <1>2, JobIs DEF CurrentInv
<1>4. /\ StepsOf(j) /\ (~mixed => Progress(j, View(c))) /\ j.tour \in Tours
      /\ j.tour \in DOMAIN View(c) => View(c)[j.tour] \in TourRow
  BY <1>1, <1>3, WorkOf
<1>5. PICK n : n = [j EXCEPT !.step = "commit"]
  OBVIOUS
<1>6. n \in Asking /\ n.step = "commit" /\ n.kind = j.kind /\ n.driver = j.driver /\ n.tour = j.tour
      /\ n.marks = j.marks
  BY <1>1, <1>3, <1>5 DEF Asking
<1>7. job' = [job EXCEPT ![c] = n] /\ tours' = tours
  BY <1>1, <1>2, <1>3, <1>5 DEF Goes, Rest, CurrentTyped
<1>8. StepsOf(n) /\ n.marks /\ n.kind # "direct"
  BY <1>2, <1>4, <1>6 DEF StepsOf
<1>9. ~mixed => /\ Unique(View(c), doubled \cup {j.driver})
                /\ \A u \in DOMAIN View(c) : View(c)[u].driver = j.driver /\ View(c)[u].current => u = j.tour
  BY <1>2, <1>4 DEF Progress
<1>10. ASSUME NEW g, ~mixed, DOMAIN g = DOMAIN View(c),
              \A u \in DOMAIN g : g[u].driver = View(c)[u].driver /\ (u # j.tour => g[u].current = View(c)[u].current),
              j.tour \in DOMAIN View(c) /\ View(c)[j.tour].driver # j.driver => g[j.tour].current = View(c)[j.tour].current
       PROVE  Progress(n, g)
  <2>1. ASSUME NEW u \in DOMAIN g, NEW v \in DOMAIN g, g[u].current, g[v].current, g[u].driver = g[v].driver
        PROVE  u = v \/ g[u].driver \in doubled \ {j.driver}
    <3>1. CASE g[u].driver = j.driver
      BY <1>9, <1>10, <2>1, <3>1
    <3>2. CASE g[u].driver # j.driver
      BY <1>9, <1>10, <2>1, <3>2 DEF Unique
    <3> QED
      BY <3>1, <3>2
  <2> QED
    BY <1>6, <1>8, <2>1 DEF Progress, Unique
<1>11. CASE j.tour \in DOMAIN View(c) /\ View(c)[j.tour].driver = j.driver
  <2>1. PICK v \in TourRow : v = View(c)[j.tour]
    BY <1>4, <1>11
  <2>2. PICK r \in TourRow : r = [v EXCEPT !.current = TRUE]
    BY <2>1 DEF TourRow
  <2>3. r.driver = j.driver
    BY <1>11, <2>1, <2>2 DEF TourRow
  <2>4. /\ conn' \in [Conns -> Connection] /\ \A o \in Conns \ {c} : conn'[o] = conn[o]
        /\ conn'[c].open = conn[c].open /\ conn'[c].answered = conn[c].answered
        /\ ExtendedBy(View(c), j.tour, r, View(c)')
    BY <1>2, <1>3, <1>4, <1>7, <1>11, <2>1, <2>2, PutsDo
  <2>5. PICK g : g = View(c)'
    OBVIOUS
  <2>6. ~mixed => Progress(n, g)
    BY <1>10, <1>11, <2>3, <2>4, <2>5 DEF ExtendedBy
  <2> QED
    BY <1>1, <1>2, <1>3, <1>6, <1>7, <1>8, <2>4, <2>5, <2>6, StatementKeeps
<1>12. CASE ~(j.tour \in DOMAIN View(c) /\ View(c)[j.tour].driver = j.driver)
  <2>1. conn' = conn
    BY <1>2, <1>12
  <2>2. /\ conn' \in [Conns -> Connection] /\ \A o \in Conns \ {c} : conn'[o] = conn[o]
        /\ conn'[c] = conn[c] /\ View(c)' = View(c)
    BY <1>3, <1>7, <2>1, Unwritten
  <2>3. ~mixed => Progress(n, View(c))
    BY <1>10, <1>12
  <2> QED
    BY <1>1, <1>2, <1>3, <1>6, <1>7, <1>8, <2>2, <2>3, StatementKeeps
<1> QED
  BY <1>11, <1>12

-----------------------------------------------------------------------------
(* Requests end *)

\* A reset deletes every tour.
LEMMA DeleteAllKeeps ==
  ASSUME CurrentInv, NEW c \in Conns, DeleteAll(c)
  PROVE  CurrentInv'
<1>0. CurrentTyped /\ Staged /\ Kept /\ Orderly
  BY DEF CurrentInv
<1>1. /\ job[c].step = "delete" /\ Goes(c, "commit") /\ Rest
      /\ conn' = [conn EXCEPT ![c].put = [t \in DOMAIN tours |-> Gone]]
  BY DEF DeleteAll
<1>2. job[c] \in Wiping
  BY <1>0, <1>1, JobIs
<1>3. PICK n : n = [job[c] EXCEPT !.step = "commit"]
  OBVIOUS
<1>4. n \in Wiping /\ n.kind = "reset" /\ n \in Jobs /\ n # NoJob /\ n \notin Asking
  <2>1. n \in Wiping /\ n.kind = "reset"
    BY <1>2, <1>3 DEF Wiping
  <2> QED
    BY <2>1, Unlike DEF Jobs
<1>5. job' = [job EXCEPT ![c] = n]
  BY <1>0, <1>1, <1>3 DEF Goes, CurrentTyped
<1>6. job' \in [Conns -> Jobs] /\ job'[c] = n /\ \A o \in Conns \ {c} : job'[o] = job[o]
  BY <1>0, <1>4, <1>5, JobsAre
<1>7. UNCHANGED <<tours, leaked, swallowed, lostWrites, mixed, doubled>>
  BY <1>1 DEF Rest
<1>8. PICK p : p = [t \in DOMAIN tours |-> Gone]
  OBVIOUS
<1>9. p \in Written /\ DOMAIN p = DOMAIN tours /\ \A t \in DOMAIN p : p[t] = Gone
  <2>1. DOMAIN tours \in SUBSET Tours
    BY <1>0 DEF CurrentTyped
  <2> DEFINE T == DOMAIN tours
  <2>2. p \in [T -> TourRow \cup {Gone}]
    BY <1>8
  <2> HIDE DEF T
  <2>3. p \in Written
    BY <2>1, <2>2 DEF T, Written
  <2> QED
    BY <1>8, <2>3
<1>10. /\ conn' \in [Conns -> Connection] /\ \A o \in Conns \ {c} : conn'[o] = conn[o]
       /\ conn'[c].put = p /\ conn'[c].open = conn[c].open /\ conn'[c].answered = conn[c].answered
  <2>1. PICK q \in Connection : q = conn[c]
    BY <1>0 DEF CurrentTyped
  <2>2. PICK r : r = [q EXCEPT !.put = p]
    OBVIOUS
  <2>3. r \in Connection /\ r.put = p /\ r.open = q.open /\ r.answered = q.answered
    BY <1>9, <2>2 DEF Connection
  <2>4. conn' = [conn EXCEPT ![c] = r]
    BY <1>0, <1>1, <1>8, <2>1, <2>2 DEF CurrentTyped
  <2> QED
    BY <1>0, <2>1, <2>3, <2>4 DEF CurrentTyped
<1>11. CurrentTyped'
  BY <1>0, <1>6, <1>7, <1>10 DEF CurrentTyped
<1>12. Staged'
  BY <1>0, <1>4, <1>6 DEF Staged, StepsOf
<1>13. Kept'
  <2>1. job[c] # NoJob /\ job[c].kind = "reset"
    BY <1>2, Unlike DEF Wiping
  <2> QED
    BY <1>0, <1>4, <1>6, <1>7, <1>10, <2>1 DEF Kept
<1>14. Orderly'
  <2> SUFFICES ASSUME ~mixed PROVE Unique(tours, doubled)' /\ Single' /\ \A o \in Conns : Writing(o)'
    BY <1>7 DEF Orderly
  <2>1. Unique(tours, doubled) /\ Single /\ job[c] # NoJob
    BY <1>0, <1>2, Unlike DEF Orderly
  <2>2. \A o \in Conns \ {c} : job[o] = NoJob
    BY <2>1 DEF Single
  <2>3. Single'
    BY <1>4, <1>6, <1>10, <2>1, <2>2 DEF Single
  <2>4. Unique(tours, doubled)'
    BY <1>7, <2>1 DEF Unique
  <2>5. ASSUME NEW o \in Conns \ {c} PROVE Writing(o)'
    BY <1>6, <2>2, Unlike DEF Writing
  <2>6. DOMAIN View(c)' = {}
    BY <1>7, <1>9, <1>10 DEF View
  <2>7. Writing(c)'
    BY <1>4, <1>6, <2>6, Unlike DEF Writing
  <2> QED
    BY <2>3, <2>4, <2>5, <2>7
<1> QED
  BY <1>11, <1>12, <1>13, <1>14 DEF CurrentInv

\* A driver's tours under another name.
LEMMA RenameKeeps ==
  ASSUME CurrentInv, NEW c \in Conns, RenameTours(c)
  PROVE  CurrentInv'
<1>0. CurrentTyped /\ Staged /\ Kept /\ Orderly
  BY DEF CurrentInv
<1>1. PICK j : j = job[c]
  OBVIOUS
<1>2. PICK V : V = View(c)
  OBVIOUS
<1>3. PICK H : H = {t \in DOMAIN V : V[t].driver = j.old}
  OBVIOUS
<1>4. PICK q : q = conn[c]
  OBVIOUS
<1>5. PICK p : p = [t \in DOMAIN q.put \cup H |-> IF t \in H THEN [V[t] EXCEPT !.driver = j.driver] ELSE q.put[t]]
  OBVIOUS
<1>6. j.step = "rename" /\ Goes(c, "commit") /\ Rest /\ conn' = [conn EXCEPT ![c].put = p]
  <2>1. c \in DOMAIN conn
    BY <1>0 DEF CurrentTyped
  <2> QED
    BY <2>1, <1>1, <1>2, <1>3, <1>4, <1>5 DEF RenameTours
<1>7. j \in Naming
  BY <1>0, <1>1, <1>6, JobIs
<1>8. PICK n : n = [j EXCEPT !.step = "commit"]
  OBVIOUS
<1>9. n \in Naming /\ n.kind = "direct" /\ n.driver = j.driver /\ n.step = "commit" /\ n \in Jobs /\ n # NoJob
      /\ n \notin Asking /\ n \notin Wiping
  <2>1. n \in Naming /\ n.kind = "direct" /\ n.driver = j.driver /\ n.step = "commit"
    BY <1>7, <1>8 DEF Naming
  <2> QED
    BY <2>1, Unlike DEF Jobs
<1>10. job' \in [Conns -> Jobs] /\ job'[c] = n /\ \A o \in Conns \ {c} : job'[o] = job[o]
  <2>1. job' = [job EXCEPT ![c] = n]
    BY <1>0, <1>1, <1>6, <1>8 DEF Goes, CurrentTyped
  <2> QED
    BY <1>0, <1>9, <2>1, JobsAre
<1>11. UNCHANGED <<tours, leaked, swallowed, lostWrites, mixed, doubled>>
  BY <1>6 DEF Rest
<1>12. q \in Connection /\ conn \in [Conns -> Connection] /\ V \in TourTables /\ H \subseteq DOMAIN V
  BY <1>0, <1>2, <1>3, <1>4, ViewOf DEF CurrentTyped, TourTables
<1>13. PICK P \in SUBSET Tours : q.put \in [P -> TourRow \cup {Gone}]
  BY <1>12 DEF Connection, Written
<1>14. H \subseteq Tours /\ \A t \in H : [V[t] EXCEPT !.driver = j.driver] \in TourRow
  <2>1. \A t \in DOMAIN V : t \in Tours /\ V[t] \in TourRow
    BY <1>12 DEF TourTables
  <2>2. j.driver \in Drivers
    BY <1>7 DEF Naming
  <2> QED
    BY <1>12, <2>1, <2>2, RowIs
<1>15. p \in [P \cup H -> TourRow \cup {Gone}] /\ p \in Written
  <2>1. p \in [P \cup H -> TourRow \cup {Gone}]
    BY <1>5, <1>13, <1>14
  <2>2. P \cup H \in SUBSET Tours
    BY <1>14
  <2> QED
    BY <2>1, <2>2 DEF Written
<1>16. DOMAIN p = P \cup H /\ DOMAIN q.put = P /\ \A t \in DOMAIN p : p[t] = IF t \in H THEN [V[t] EXCEPT !.driver = j.driver] ELSE q.put[t]
  BY <1>5, <1>13
<1>17. /\ conn' \in [Conns -> Connection] /\ \A o \in Conns \ {c} : conn'[o] = conn[o]
       /\ conn'[c].put = p /\ conn'[c].open = q.open /\ conn'[c].answered = q.answered
  <2>1. PICK r : r = [q EXCEPT !.put = p]
    OBVIOUS
  <2>2. r \in Connection /\ r.put = p /\ r.open = q.open /\ r.answered = q.answered
    BY <1>12, <1>15, <2>1, ConnectionIs
  <2>3. conn' = [conn EXCEPT ![c] = r]
    BY <1>4, <1>6, <1>12, <2>1
  <2> QED
    BY <1>12, <2>2, <2>3
<1>18. CurrentTyped'
  BY <1>0, <1>10, <1>11, <1>17 DEF CurrentTyped
<1>19. Staged'
  BY <1>0, <1>9, <1>10 DEF Staged, StepsOf
<1>20. job[c] # NoJob /\ job[c].kind = "direct"
  BY <1>1, <1>7, Unlike DEF Naming
<1>21. Kept'
  BY <1>0, <1>4, <1>9, <1>10, <1>11, <1>17, <1>20 DEF Kept
<1>22. Orderly'
  <2> SUFFICES ASSUME ~mixed PROVE Unique(tours, doubled)' /\ Single' /\ \A o \in Conns : Writing(o)'
    BY <1>11 DEF Orderly
  <2>1. Unique(tours, doubled) /\ Single /\ DOMAIN q.put = {} /\ V = tours
    <3>1. Unique(tours, doubled) /\ Single /\ Writing(c)
      BY <1>0 DEF Orderly
    <3>2. DOMAIN q.put = {}
      BY <1>1, <1>4, <1>6, <1>7, <3>1 DEF Writing
    <3> QED
      BY <1>0, <1>2, <1>4, <3>1, <3>2, ViewIsTours
  <2>2. \A o \in Conns \ {c} : job[o] = NoJob
    BY <1>20, <2>1 DEF Single
  <2>3. Single'
    BY <1>9, <1>10, <1>17, <1>20, <2>1, <2>2 DEF Single
  <2>4. Unique(tours, doubled)'
    BY <1>11, <2>1 DEF Unique
  <2>5. ASSUME NEW o \in Conns \ {c} PROVE Writing(o)'
    BY <1>10, <2>2, Unlike DEF Writing
  <2>6. PICK W : W = View(c)'
    OBVIOUS
  <2>7. DOMAIN W = DOMAIN V /\ \A t \in DOMAIN W : W[t] = IF t \in H THEN [V[t] EXCEPT !.driver = j.driver] ELSE V[t]
    <3>1. /\ DOMAIN W = {u \in DOMAIN p \cup DOMAIN tours : u \in DOMAIN p => p[u] # Gone}
          /\ \A t \in DOMAIN W : W[t] = IF t \in DOMAIN p THEN p[t] ELSE tours[t]
      <4>1. ASSUME CurrentTyped' PROVE (DOMAIN View(c) = {u \in DOMAIN conn[c].put \cup DOMAIN tours : u \in DOMAIN conn[c].put => conn[c].put[u] # Gone}
               /\ \A t \in DOMAIN View(c) : View(c)[t] = IF t \in DOMAIN conn[c].put THEN conn[c].put[t] ELSE tours[t])'
        BY <4>1, ViewOf, PTL
      <4> QED
        BY <1>11, <1>17, <1>18, <2>6, <4>1
    <3>2. DOMAIN p = H
      BY <1>16, <2>1
    <3> QED
      BY <1>12, <1>14, <1>16, <2>1, <3>1, <3>2, GoneIsNoRow
  <2>8. \A t \in H : W[t].driver = j.driver
    <3>1. \A t \in H : V[t] \in TourRow
      BY <1>12 DEF TourTables
    <3> QED
      BY <1>12, <2>7, <3>1 DEF TourRow
  <2>9. Unique(W, doubled \cup {j.driver})
    <3>1. ASSUME NEW u \in DOMAIN W, NEW w \in DOMAIN W, W[u].current, W[w].current, W[u].driver = W[w].driver
          PROVE  u = w \/ W[u].driver \in doubled \cup {j.driver}
      <4>1. CASE u \in H \/ w \in H
        BY <2>8, <3>1, <4>1
      <4>2. CASE u \notin H /\ w \notin H
        BY <2>1, <2>7, <3>1, <4>2 DEF Unique
      <4> QED
        BY <4>1, <4>2
    <3> QED
      BY <3>1 DEF Unique
  <2>10. Writing(c)'
    BY <1>9, <1>10, <1>11, <2>6, <2>9 DEF Writing, Unique
  <2> QED
    BY <2>3, <2>4, <2>5, <2>10
<1> QED
  BY <1>18, <1>19, <1>21, <1>22 DEF CurrentInv

\* A request ends, and the tours are as the property says.
LEMMA EndKeeps ==
  ASSUME CurrentInv, NEW c \in Conns, job[c] # NoJob, job' = [job EXCEPT ![c] = NoJob],
         conn' \in [Conns -> Connection], \A o \in Conns \ {c} : conn'[o] = conn[o],
         tours' \in TourTables, doubled' \in SUBSET Drivers, UNCHANGED <<mixed, leaked>>,
         swallowed' \in BOOLEAN, lostWrites' \in BOOLEAN, lostWrites' => leaked' \/ swallowed',
         ~leaked => ~conn'[c].answered /\ ~conn'[c].open,
         ~mixed => Unique(tours, doubled)' /\ DOMAIN conn'[c].put = {}
  PROVE  CurrentInv'
<1>0. CurrentTyped /\ Staged /\ Kept /\ Orderly
  BY DEF CurrentInv
<1>1. job' \in [Conns -> Jobs] /\ job'[c] = NoJob /\ \A o \in Conns \ {c} : job'[o] = job[o]
  BY <1>0, Unlike, JobsAre
<1>2. CurrentTyped'
  BY <1>0, <1>1 DEF CurrentTyped, TourTables
<1>3. Staged'
  BY <1>0, <1>1, Unlike DEF Staged, StepsOf
<1>4. Kept'
  BY <1>0, <1>1 DEF Kept
<1>5. Orderly'
  <2> SUFFICES ASSUME ~mixed PROVE Single' /\ \A o \in Conns : Writing(o)'
    BY DEF Orderly
  <2>1. Single /\ \A o \in Conns \ {c} : job[o] = NoJob
    BY <1>0 DEF Orderly, Single
  <2>2. \A o \in Conns : job'[o] = NoJob
    BY <1>1, <2>1
  <2>3. \A o \in Conns : DOMAIN conn'[o].put = {}
    BY <2>1 DEF Single
  <2>4. Single'
    BY <2>2, <2>3 DEF Single
  <2> QED
    BY <2>2, <2>4, Unlike DEF Writing
<1> QED
  BY <1>2, <1>3, <1>4, <1>5 DEF CurrentInv

\* A request that fails is rolled back, and its connection returned in order.
LEMMA FailuresKeep ==
  ASSUME CurrentInv, NEW c \in Conns, QueryFails(c) \/ FailureSwallowed(c)
  PROVE  CurrentInv'
<1>0. CurrentTyped /\ Staged /\ Kept /\ Orderly
  BY DEF CurrentInv
<1>1. job[c] # NoJob /\ job' = [job EXCEPT ![c] = NoJob] /\ conn' = [conn EXCEPT ![c] = Clean]
      /\ UNCHANGED <<tours, leaked, mixed, doubled>>
  <2>1. CASE QueryFails(c)
    BY <2>1 DEF QueryFails, RolledBack
  <2>2. CASE FailureSwallowed(c)
    BY <2>2 DEF FailureSwallowed, NoJob
  <2> QED
    BY <2>1, <2>2
<1>2. conn' \in [Conns -> Connection] /\ conn'[c] = Clean /\ \A o \in Conns \ {c} : conn'[o] = conn[o]
  BY <1>0, <1>1, CleanIs DEF CurrentTyped
<1>3. swallowed' \in BOOLEAN /\ lostWrites' \in BOOLEAN /\ (lostWrites' => leaked' \/ swallowed')
  <2>1. CASE QueryFails(c)
    <3>1. lostWrites' = (lostWrites \/ conn[c].answered) /\ swallowed' = swallowed /\ conn[c].answered \in BOOLEAN
      BY <1>0, <2>1 DEF QueryFails, CurrentTyped, Connection
    <3> QED
      BY <1>0, <1>1, <3>1 DEF Kept, CurrentTyped
  <2>2. CASE FailureSwallowed(c)
    BY <2>2 DEF FailureSwallowed
  <2> QED
    BY <2>1, <2>2
<1>4. tours' \in TourTables /\ doubled' \in SUBSET Drivers
  BY <1>0, <1>1 DEF CurrentTyped, TourTables
<1>5. ~mixed => Unique(tours, doubled)'
  BY <1>0, <1>1 DEF Orderly, Unique
<1> QED
  BY <1>1, <1>2, <1>3, <1>4, <1>5, CleanIs, EndKeeps

\* Who is spared by a commit is spared with two current tours only.
LEMMA DoubledIs ==
  ASSUME CurrentTyped, NEW V \in TourTables, NEW S \in SUBSET Drivers, Unique(V, S)
  PROVE  Unique(V, Two(V) \cap S)
<1>1. ASSUME NEW t \in DOMAIN V, NEW u \in DOMAIN V, V[t].current, V[u].current, V[t].driver = V[u].driver, t # u
      PROVE  V[t].driver \in Two(V)
  <2>1. V[t] \in TourRow /\ V[u] \in TourRow
    BY DEF TourTables
  <2>2. V[t] = [driver |-> V[t].driver, current |-> TRUE] /\ V[u] = V[t] /\ V[t].driver \in Drivers
    BY <1>1, <2>1 DEF TourRow
  <2> QED
    BY <1>1, <2>2 DEF Two
<1> QED
  BY <1>1 DEF Unique

\* A commit makes what the request saw the committed rows.
LEMMA CommitKeeps ==
  ASSUME CurrentInv, NEW c \in Conns, Commit(c)
  PROVE  CurrentInv'
<1>0. CurrentTyped /\ Staged /\ Kept /\ Orderly
  BY DEF CurrentInv
<1>1. PICK j : j = job[c]
  OBVIOUS
<1>2. /\ j.step = "commit" /\ job' = [job EXCEPT ![c] = NoJob] /\ doubled' = Doubled(j, View(c))
      /\ UNCHANGED <<leaked, swallowed, lostWrites, mixed>>
      /\ IF j.kind = "choose" /\ conn[c].open
         THEN conn' = [conn EXCEPT ![c].answered = TRUE] /\ tours' = tours
         ELSE tours' = View(c) /\ conn' = [conn EXCEPT ![c] = Clean]
  BY <1>1 DEF Commit
<1>3. j \in Asking \cup Wiping \cup Naming /\ job[c] # NoJob
  BY <1>0, <1>1, <1>2, JobIs, Unlike
<1>4. PICK S \in SUBSET Drivers :
             /\ S = IF j.kind = "direct" THEN doubled \cup {j.driver} ELSE IF j.marks THEN doubled \ {j.driver} ELSE doubled
             /\ Doubled(j, View(c)) = Two(View(c)) \cap S /\ Two(View(c)) \cap S \in SUBSET Drivers
  <2>1. doubled \in SUBSET Drivers /\ (j.kind = "direct" => j.driver \in Drivers)
    BY <1>0, <1>3 DEF CurrentTyped, Asking, Wiping, Naming
  <2> QED
    BY <2>1 DEF Doubled
<1>5. swallowed' \in BOOLEAN /\ lostWrites' \in BOOLEAN /\ (lostWrites' => leaked' \/ swallowed')
  BY <1>0, <1>2 DEF CurrentTyped, Kept
<1>6. CASE j.kind = "choose" /\ conn[c].open
  <2>1. leaked /\ mixed
    BY <1>0, <1>1, <1>3, <1>6 DEF Kept, Orderly, Single
  <2>2. conn' \in [Conns -> Connection] /\ \A o \in Conns \ {c} : conn'[o] = conn[o]
    <3>1. conn[c] \in Connection /\ conn \in [Conns -> Connection]
      BY <1>0 DEF CurrentTyped
    <3>2. PICK r : r = [conn[c] EXCEPT !.answered = TRUE]
      OBVIOUS
    <3>3. r \in Connection /\ conn' = [conn EXCEPT ![c] = r]
      BY <1>2, <1>6, <3>1, <3>2 DEF Connection
    <3> QED
      BY <3>1, <3>3
  <2>3. tours' \in TourTables
    BY <1>0, <1>2, <1>6 DEF CurrentTyped, TourTables
  <2> QED
    BY <1>2, <1>3, <1>4, <1>5, <2>1, <2>2, <2>3, EndKeeps
<1>7. CASE ~(j.kind = "choose" /\ conn[c].open)
  <2>1. tours' = View(c) /\ conn' = [conn EXCEPT ![c] = Clean]
    BY <1>2, <1>7
  <2>2. conn' \in [Conns -> Connection] /\ conn'[c] = Clean /\ \A o \in Conns \ {c} : conn'[o] = conn[o]
    BY <1>0, <2>1, CleanIs DEF CurrentTyped
  <2>3. tours' \in TourTables
    BY <1>0, <2>1, ViewOf DEF TourTables
  <2>4. ASSUME ~mixed PROVE Unique(tours, doubled)'
    <3>1. View(c) \in TourTables
      BY <2>1, <2>3
    <3>2. Unique(View(c), S)
      <4>1. CASE j \in Wiping
        <5>1. DOMAIN View(c) = {}
          BY <1>0, <1>1, <1>2, <2>4, <4>1 DEF Orderly, Writing
        <5> QED
          BY <5>1 DEF Unique
      <4>2. CASE j \in Naming
        <5>1. Unique(View(c), doubled \cup {j.driver}) /\ j.kind = "direct"
          BY <1>0, <1>1, <1>2, <2>4, <4>2 DEF Orderly, Writing, Naming
        <5> QED
          BY <1>4, <5>1
      <4>3. CASE j \in Asking
        <5>1. Progress(j, View(c))
          BY <1>0, <1>1, <2>4, <4>3 DEF Orderly, Writing
        <5> QED
          BY <1>2, <1>4, <5>1 DEF Progress
      <4> QED
        BY <1>3, <4>1, <4>2, <4>3
    <3>3. Unique(View(c), Doubled(j, View(c)))
      BY <1>0, <1>4, <3>1, <3>2, DoubledIs
    <3> QED
      BY <1>2, <2>1, <3>3 DEF Unique
  <2> QED
    BY <1>2, <1>3, <1>4, <1>5, <2>2, <2>3, <2>4, CleanIs, EndKeeps
<1> QED
  BY <1>6, <1>7

-----------------------------------------------------------------------------
(* What follows for the current tour *)

\* The invariant holds to begin with.
LEMMA CurrentBegins == CurrentInit => CurrentInv
<1> SUFFICES ASSUME CurrentInit PROVE CurrentInv
  OBVIOUS
<1>1. conn \in [Conns -> Connection] /\ \A c \in Conns : conn[c] = Clean
  BY CleanIs DEF CurrentInit
<1>2. job \in [Conns -> Jobs] /\ \A c \in Conns : job[c] = NoJob
  BY Unlike DEF CurrentInit
<1>3. tours \in UNION {[S -> TourRow] : S \in SUBSET Tours}
  BY DEF CurrentInit, TourRow
<1>4. CurrentTyped
  BY <1>1, <1>2, <1>3 DEF CurrentInit, CurrentTyped
<1>5. Staged
  BY <1>2, Unlike DEF Staged
<1>6. Kept
  BY <1>1, CleanIs DEF CurrentInit, Kept
<1>7. Unique(tours, doubled)
  BY DEF CurrentInit, Unique
<1>8. Single /\ \A c \in Conns : Writing(c)
  BY <1>1, <1>2, CleanIs, Unlike DEF Single, Writing
<1> QED
  BY <1>4, <1>5, <1>6, <1>7, <1>8 DEF CurrentInv, Orderly

\* Every step keeps it.
LEMMA CurrentGoesOn == CurrentInv /\ [CurrentNext]_currentVars => CurrentInv'
<1> SUFFICES ASSUME CurrentInv, [CurrentNext]_currentVars PROVE CurrentInv'
  OBVIOUS
<1>1. CASE UNCHANGED currentVars
  <2>1. UNCHANGED <<tours, conn, job, leaked, swallowed, lostWrites, mixed, doubled>>
    BY <1>1 DEF currentVars
  <2>2. CurrentTyped' /\ Staged' /\ Kept'
    BY <2>1 DEF CurrentInv, CurrentTyped, Staged, StepsOf, Kept
  <2>3. (Unique(tours, doubled) => Unique(tours, doubled)') /\ (Single => Single')
    BY <2>1 DEF Unique, Single
  <2>4. ASSUME NEW c \in Conns, Writing(c)
        PROVE  Writing(c)'
    <3>1. PICK V : V = View(c)
      OBVIOUS
    <3>2. View(c)' = V
      BY <2>1, <3>1, SameView
    <3>3. PICK j : j = job[c]
      OBVIOUS
    <3>4. Progress(j, V) => Progress(j, V)'
      BY <2>1 DEF Progress, Unique
    <3>5. job'[c] = j /\ conn'[c] = conn[c]
      BY <2>1, <3>3
    <3>6. Unique(V, doubled \cup {j.driver}) => Unique(V, doubled \cup {j.driver})'
      BY <2>1 DEF Unique
    <3> QED
      BY <2>4, <3>1, <3>2, <3>3, <3>4, <3>5, <3>6 DEF Writing
  <2> QED
    BY <2>1, <2>2, <2>3, <2>4 DEF CurrentInv, Orderly
<1>2. CASE CurrentNext
  BY <1>2, RequestsComing, IdleKeeps, SaveKeeps, InsertKeeps, ReadKeeps, MoveKeeps, ClearKeeps, ClearRowKeeps,
     MarkKeeps, DeleteAllKeeps, RenameKeeps, CommitKeeps, FailuresKeep DEF CurrentNext
<1> QED
  BY <1>1, <1>2

\* For every number of drivers, tours, connections and requests: as long as
\* no requests overlap, a driver has two current tours only after the tour
\* form, the generic sync, a new name or a seed gave them one without
\* set_current_tour, and until their next choice, save or transfer (schema-
\* contract.js 245-252, admin-transfer-tour.routes.js 14-26, tour-core.routes.js
\* 329, sync.routes.js 346-350, driver.routes.js 228).
THEOREM OneTourIsCurrent == CurrentSpec => []OneCurrentTour
<1>1. CurrentInv => OneCurrentTour
  <2> SUFFICES ASSUME CurrentInv, ~mixed, NEW d \in Two(tours) PROVE d \in doubled
    BY DEF OneCurrentTour
  <2>1. PICK t, u \in DOMAIN tours : t # u /\ tours[t] = [driver |-> d, current |-> TRUE] /\ tours[u] = tours[t]
    BY DEF Two
  <2>2. tours[t].driver = d /\ tours[u].driver = d /\ tours[t].current /\ tours[u].current
    BY <2>1
  <2> QED
    BY <2>1, <2>2 DEF CurrentInv, Orderly, Unique
<1> QED
  BY <1>1, CurrentBegins, CurrentGoesOn, PTL DEF CurrentSpec

\* However requests overlap: an answered write is rolled back only after a
\* refused transfer leaked its transaction, or a save swallowed the failure
\* of set_current_tour (admin-transfer-tour.routes.js 13, 34; import-
\* engine.js 113-125).
THEOREM AnswersAreKept == CurrentSpec => []AnsweredWritesAreKept
<1>1. CurrentInv => AnsweredWritesAreKept
  BY DEF CurrentInv, Kept, AnsweredWritesAreKept
<1> QED
  BY <1>1, CurrentBegins, CurrentGoesOn, PTL DEF CurrentSpec

-----------------------------------------------------------------------------
(* The diagnostics agent: the inductive invariant *)

\* The threads that are about to add an event.
Tracking == {u \in Threads : thread[u].step = "track"}
\* The task has an event in hand.
HasEvent == flush.step \in {"send", "skip", "sent", "failed"}
\* Attempts of an event that its counter does not have yet.
Tried(f, id) == IF f.step \in {"sent", "failed"} /\ f.event.id = id THEN 1 ELSE 0

\* Types, and how many events threads may still add.
AgentTypes ==
    /\ queued \in Seq(Diagnostic) /\ Len(queued) <= MaxQueueSize
    /\ generation \in 1..MaxGenerations /\ tasks \in Seq(1..MaxGenerations)
    /\ thread \in [Threads -> [step : {"none", "track", "added", "flush"}, generation : 0..MaxGenerations]]
    /\ \A t \in Threads : thread[t].step # "none" => thread[t].generation > 0
    /\ HasEvent => flush \in [step : {"send", "skip", "sent", "failed"}, event : Diagnostic]
    /\ ~HasEvent => flush.step \in {"none", "look", "ended"}
    /\ tracked \in Nat /\ tracked + Cardinality(Tracking) <= MaxEvents
    /\ sends \in [Ids -> 0..(MaxRetries + 1)] /\ accepted \subseteq 1..tracked

\* Events are queued once, as often tried as they say, and the one in hand is
\* the first, or out for a reason.
QueueInv ==
    /\ \A i, j \in DOMAIN queued : queued[i].id = queued[j].id => i = j
    /\ \A i \in DOMAIN queued :
          /\ queued[i].id <= tracked /\ sends[queued[i].id] = queued[i].attempts + Tried(flush, queued[i].id)
          /\ queued[i].id \in accepted => flush.step = "sent" /\ flush.event.id = queued[i].id
    /\ HasEvent =>
          /\ flush.event.id <= tracked /\ sends[flush.event.id] = flush.event.attempts + Tried(flush, flush.event.id)
          /\ flush.event.id \in InQueue \cup excused
          /\ \A i \in DOMAIN queued : queued[i].id = flush.event.id => i = 1 /\ queued[i] = flush.event
          /\ flush.event.id \in accepted <=> flush.step = "sent"
    /\ \A e \in Ids : e > tracked => sends[e] = 0
    /\ \A e \in 1..tracked : e \in InQueue \cup accepted \cup excused \/ sends[e] = MaxRetries + 1

\* A task runs while there is one, and who comes as it ends is told of.
TasksInv ==
    /\ flush.step # "none" => tasks # <<>>
    /\ flushing => tasks # <<>>
    /\ flush.step = "none" => flush = NoTask
    /\ queued # <<>> /\ (tasks = <<>> \/ (Len(tasks) = 1 /\ flush.step = "ended"))
          /\ (\A t \in Threads : thread[t].step \notin {"added", "flush"}) => unnoticed

\* The inductive invariant of EventsLeaveForAReason.
AgentInv == AgentTypes /\ QueueInv /\ TasksInv

\* The bounds and the threads.
LEMMA AgentConstants ==
  /\ IsFiniteSet(Threads) /\ MaxQueueSize \in Nat /\ MaxQueueSize > 0 /\ MaxRetries \in Nat
  /\ MaxEvents \in Nat /\ MaxGenerations \in Nat /\ MaxGenerations > 0
BY AgentAssumption

\* A queue without its first, and with one more.
LEMMA QueueTail ==
  ASSUME NEW q \in Seq(Diagnostic), q # <<>>
  PROVE  /\ Tail(q) \in Seq(Diagnostic) /\ Len(Tail(q)) = Len(q) - 1 /\ Head(q) = q[1] /\ 1 \in DOMAIN q
         /\ \A i \in DOMAIN Tail(q) : i + 1 \in DOMAIN q /\ Tail(q)[i] = q[i + 1]
         /\ \A j \in DOMAIN q : j # 1 => j - 1 \in DOMAIN Tail(q) /\ Tail(q)[j - 1] = q[j]
OBVIOUS

\* A queue with one more.
LEMMA QueueAppend ==
  ASSUME NEW q \in Seq(Diagnostic), NEW x \in Diagnostic
  PROVE  /\ Append(q, x) \in Seq(Diagnostic) /\ Len(Append(q, x)) = Len(q) + 1
         /\ DOMAIN Append(q, x) = DOMAIN q \cup {Len(q) + 1} /\ Len(q) + 1 \notin DOMAIN q
         /\ \A i \in DOMAIN q : Append(q, x)[i] = q[i]
         /\ Append(q, x)[Len(q) + 1] = x
OBVIOUS

\* One thread fewer is about to add its event, or one more.
LEMMA TrackingAfter ==
  ASSUME AgentTypes, NEW t \in Threads, NEW c \in [step : {"none", "track", "added", "flush"}, generation : 0..MaxGenerations],
         thread' = [thread EXCEPT ![t] = c]
  PROVE  /\ Cardinality(Tracking) \in Nat /\ Cardinality(Tracking') \in Nat
         /\ (thread[t].step = "track" <=> c.step = "track") => Cardinality(Tracking') = Cardinality(Tracking)
         /\ thread[t].step = "track" /\ c.step # "track" => Cardinality(Tracking') + 1 = Cardinality(Tracking)
         /\ thread[t].step # "track" /\ c.step = "track" => Cardinality(Tracking') = Cardinality(Tracking) + 1
<1>1. IsFiniteSet(Tracking) /\ IsFiniteSet(Tracking')
  BY AgentConstants, FS_Subset DEF Tracking
<1>2. Cardinality(Tracking) \in Nat /\ Cardinality(Tracking') \in Nat
  BY <1>1, FS_CardinalityType
<1>3. thread'[t] = c /\ \A u \in Threads : u # t => thread'[u] = thread[u]
  BY DEF AgentTypes
<1>4. (thread[t].step = "track" <=> c.step = "track") => Tracking' = Tracking
  BY <1>3 DEF Tracking
<1>5. thread[t].step = "track" /\ c.step # "track" => Tracking = Tracking' \cup {t} /\ t \notin Tracking'
  BY <1>3 DEF Tracking
<1>6. thread[t].step # "track" /\ c.step = "track" => Tracking' = Tracking \cup {t} /\ t \notin Tracking
  BY <1>3 DEF Tracking
<1>7. t \notin Tracking' => Cardinality(Tracking' \cup {t}) = Cardinality(Tracking') + 1
  BY <1>1, FS_AddElement
<1>8. t \notin Tracking => Cardinality(Tracking \cup {t}) = Cardinality(Tracking) + 1
  BY <1>1, FS_AddElement
<1> QED BY <1>2, <1>4, <1>5, <1>6, <1>7, <1>8

\* What the task has in its hand
LEMMA InHand ==
  ASSUME AgentTypes, HasEvent
  PROVE  /\ flush.event \in Diagnostic /\ flush.event.id \in Ids /\ flush.event.attempts \in 0..MaxRetries
         /\ flush = [step |-> flush.step, event |-> flush.event]
BY DEF AgentTypes, Diagnostic

-----------------------------------------------------------------------------
(* Each step keeps the types *)

\* A thread that tracks or flushes (NdpAgent.kt 52-84).
LEMMA ThreadStepTypes ==
  ASSUME AgentTypes, NEW t \in Threads, Track(t) \/ FlushAsync(t) \/ Execute(t) \/ AlreadyFlushing(t)
  PROVE  AgentTypes'
<1>1. generation \in 1..MaxGenerations /\ generation \in 0..MaxGenerations /\ generation > 0 /\ 0 \in 0..MaxGenerations
  BY AgentConstants DEF AgentTypes
<1>2. UNCHANGED <<queued, generation, flush, tracked, sends, accepted>>
  BY DEF Track, FlushAsync, Execute, AlreadyFlushing, history
<1>3. HasEvent' = HasEvent
  BY <1>2 DEF HasEvent
<1>4. tasks' \in Seq(1..MaxGenerations)
  <2>1. CASE Execute(t)
    <3>1. thread[t].generation \in 1..MaxGenerations
      BY <2>1, AgentConstants DEF Execute, AgentTypes
    <3> QED BY <2>1, <3>1 DEF Execute, AgentTypes
  <2>2. CASE ~Execute(t)
    BY <2>2 DEF Track, FlushAsync, AlreadyFlushing, AgentTypes
  <2> QED BY <2>1, <2>2
<1>5. PICK c \in [step : {"none", "track", "added", "flush"}, generation : 0..MaxGenerations] :
        /\ thread' = [thread EXCEPT ![t] = c]
        /\ c.step # "none" => c.generation > 0
        /\ c.step = "track" => tracked + Cardinality(Tracking) < MaxEvents
        /\ thread[t].step # "track"
  <2>1. CASE Track(t)
    BY <1>1, <2>1 DEF Track, Tracking
  <2>2. CASE FlushAsync(t)
    BY <1>1, <2>2 DEF FlushAsync
  <2>3. CASE Execute(t) \/ AlreadyFlushing(t)
    BY <1>1, <2>3 DEF Execute, AlreadyFlushing, NoCall
  <2> QED BY <2>1, <2>2, <2>3
<1>6. /\ thread' \in [Threads -> [step : {"none", "track", "added", "flush"}, generation : 0..MaxGenerations]]
      /\ \A u \in Threads : thread'[u].step # "none" => thread'[u].generation > 0
  BY <1>5 DEF AgentTypes
<1>7. tracked + Cardinality(Tracking') <= MaxEvents
  <2>1. /\ Cardinality(Tracking) \in Nat /\ Cardinality(Tracking') \in Nat
        /\ c.step # "track" => Cardinality(Tracking') = Cardinality(Tracking)
        /\ c.step = "track" => Cardinality(Tracking') = Cardinality(Tracking) + 1
    BY <1>5, TrackingAfter
  <2>2. tracked \in Nat /\ tracked + Cardinality(Tracking) <= MaxEvents /\ MaxEvents \in Nat
    BY AgentConstants DEF AgentTypes
  <2>3. c.step = "track" => tracked + Cardinality(Tracking) < MaxEvents
    BY <1>5
  <2> QED BY <2>1, <2>2, <2>3
<1> QED BY <1>2, <1>3, <1>4, <1>6, <1>7 DEF AgentTypes

\* A thread that adds its event, or drops the first for it.
LEMMA AddEventTypes ==
  ASSUME AgentTypes, NEW t \in Threads, AddEvent(t)
  PROVE  /\ AgentTypes'
         /\ [id |-> tracked + 1, generation |-> thread[t].generation, attempts |-> 0] \in Diagnostic
         /\ MadeRoom(queued) \in Seq(Diagnostic)
<1> DEFINE x == [id |-> tracked + 1, generation |-> thread[t].generation, attempts |-> 0]
<1>1. /\ thread[t].step = "track" /\ tracked' = tracked + 1 /\ queued' = Append(MadeRoom(queued), x)
      /\ thread' = [thread EXCEPT ![t].step = "added"]
      /\ UNCHANGED <<flushing, generation, tasks, flush, sends, accepted>>
  BY DEF AddEvent
<1>2. thread[t] \in [step : {"none", "track", "added", "flush"}, generation : 0..MaxGenerations] /\ thread[t].generation > 0
  BY <1>1 DEF AgentTypes
<1> DEFINE c == [step |-> "added", generation |-> thread[t].generation]
<1>3. c \in [step : {"none", "track", "added", "flush"}, generation : 0..MaxGenerations] /\ thread' = [thread EXCEPT ![t] = c]
  <2>1. c = [thread[t] EXCEPT !.step = "added"]
    BY <1>2
  <2>2. thread' = [thread EXCEPT ![t] = [thread[t] EXCEPT !.step = "added"]]
    BY <1>1
  <2>3. c \in [step : {"none", "track", "added", "flush"}, generation : 0..MaxGenerations]
    BY <1>2
  <2> HIDE DEF c
  <2> QED BY <2>1, <2>2, <2>3
<1>4. /\ thread' \in [Threads -> [step : {"none", "track", "added", "flush"}, generation : 0..MaxGenerations]]
      /\ \A u \in Threads : thread'[u].step # "none" => thread'[u].generation > 0
  BY <1>2, <1>3 DEF AgentTypes
<1>5. /\ Cardinality(Tracking) \in Nat /\ Cardinality(Tracking') \in Nat
      /\ Cardinality(Tracking') + 1 = Cardinality(Tracking)
  BY <1>1, <1>3, TrackingAfter
<1>6. tracked \in Nat /\ tracked + Cardinality(Tracking) <= MaxEvents /\ MaxEvents \in Nat
  BY AgentConstants DEF AgentTypes
<1>7. tracked' \in Nat /\ tracked' + Cardinality(Tracking') <= MaxEvents /\ tracked + 1 \in Ids
  BY <1>1, <1>5, <1>6 DEF Ids
<1>8. x \in Diagnostic
  <2>1. thread[t].generation \in 1..MaxGenerations /\ 0 \in 0..MaxRetries
    BY <1>2, AgentConstants
  <2> QED BY <1>7, <2>1 DEF Diagnostic
<1>9. MadeRoom(queued) \in Seq(Diagnostic) /\ Len(MadeRoom(queued)) < MaxQueueSize
  <2>1. queued \in Seq(Diagnostic) /\ Len(queued) \in Nat /\ Len(queued) <= MaxQueueSize
    BY DEF AgentTypes
  <2>2. CASE Len(queued) >= MaxQueueSize
    <3>1. queued # <<>>
      BY <2>2, AgentConstants
    <3> QED BY <2>1, <2>2, <3>1, QueueTail, AgentConstants DEF MadeRoom
  <2>3. CASE ~(Len(queued) >= MaxQueueSize)
    BY <2>1, <2>3, AgentConstants DEF MadeRoom
  <2> QED BY <2>2, <2>3
<1>10. queued' \in Seq(Diagnostic) /\ Len(queued') <= MaxQueueSize
  <2>1. Len(MadeRoom(queued)) \in Nat
    BY <1>9
  <2> HIDE DEF x
  <2> QED BY <1>1, <1>8, <1>9, <2>1, QueueAppend, AgentConstants
<1>11. accepted' \subseteq 1..tracked'
  BY <1>1, <1>6 DEF AgentTypes
<1>12. HasEvent' = HasEvent
  BY <1>1 DEF HasEvent
<1> QED BY <1>1, <1>4, <1>7, <1>8, <1>9, <1>10, <1>11, <1>12 DEF AgentTypes

\* The background thread takes a task, looks, sends and ends.
LEMMA TaskStepTypes ==
  ASSUME AgentTypes, QueueInv, flush.step # "none" => tasks # <<>>, TakeTask \/ Look \/ EndTask \/ \E answered \in BOOLEAN : SendEvent(answered)
  PROVE  AgentTypes'
<1>1. UNCHANGED <<queued, generation, thread, tracked>>
  BY DEF TakeTask, Look, EndTask, SendEvent, history
<1>2. Tracking' = Tracking
  BY <1>1 DEF Tracking
<1>3. CASE TakeTask
  BY <1>1, <1>2, <1>3 DEF TakeTask, AgentTypes, HasEvent
<1>4. CASE Look
  <2>1. UNCHANGED <<tasks, sends, accepted>>
    BY <1>4 DEF Look, history
  <2>2. CASE queued = <<>>
    BY <1>1, <1>2, <1>4, <2>1, <2>2 DEF Look, AgentTypes, HasEvent
  <2>3. CASE queued # <<>>
    <3>1. Head(queued) \in Diagnostic
      BY <2>3 DEF AgentTypes
    <3>2. flush' \in [step : {"send", "skip", "sent", "failed"}, event : Diagnostic]
      BY <1>4, <2>3, <3>1 DEF Look
    <3> QED BY <1>1, <1>2, <2>1, <3>2 DEF AgentTypes, HasEvent
  <2> QED BY <2>2, <2>3
<1>5. CASE EndTask
  <2>1. tasks' \in Seq(1..MaxGenerations)
    BY <1>5 DEF EndTask, AgentTypes
  <2> QED BY <1>1, <1>2, <1>5, <2>1 DEF EndTask, AgentTypes, HasEvent, NoTask, history
<1>6. ASSUME NEW answered \in BOOLEAN, SendEvent(answered) PROVE AgentTypes'
  <2>1. HasEvent /\ flush.step = "send" /\ UNCHANGED tasks
    BY <1>6 DEF SendEvent, HasEvent
  <2>2. /\ flush.event \in Diagnostic /\ flush.event.id \in Ids /\ flush.event.attempts \in 0..MaxRetries
        /\ flush.event.id <= tracked /\ sends[flush.event.id] = flush.event.attempts
    BY <2>1, InHand DEF QueueInv, Tried, AgentTypes
  <2>3. sends' \in [Ids -> 0..(MaxRetries + 1)]
    BY <1>6, <2>2, AgentConstants DEF SendEvent, AgentTypes
  <2>4. accepted' \subseteq 1..tracked'
    BY <1>1, <1>6, <2>2 DEF SendEvent, AgentTypes, Ids
  <2>5. flush' \in [step : {"send", "skip", "sent", "failed"}, event : Diagnostic]
    BY <1>6, <2>1 DEF SendEvent, AgentTypes
  <2> QED BY <1>1, <1>2, <2>1, <2>3, <2>4, <2>5 DEF AgentTypes, HasEvent
<1> QED BY <1>3, <1>4, <1>5, <1>6


\* It takes an event out, or puts it back with one more attempt.
LEMMA QueueStepTypes ==
  ASSUME AgentTypes, Skip \/ Settle
  PROVE  AgentTypes'
<1>1. UNCHANGED <<generation, tasks, thread, tracked, sends, accepted>>
  BY DEF Skip, Settle
<1>2. HasEvent /\ ~HasEvent' /\ flush'.step \in {"look", "ended"}
  BY DEF Skip, Settle, HasEvent
<1>3. flush.event \in Diagnostic /\ flush.event.attempts \in 0..MaxRetries
  BY <1>2, InHand
<1>4. queued' \in Seq(Diagnostic) /\ Len(queued') <= MaxQueueSize
  <2>1. queued \in Seq(Diagnostic) /\ Len(queued) \in Nat /\ Len(queued) <= MaxQueueSize /\ MaxQueueSize \in Nat
    BY AgentConstants DEF AgentTypes
  <2>2. CASE queued' = queued
    BY <2>1, <2>2
  <2>3. CASE queued # <<>> /\ queued' = Tail(queued)
    BY <2>1, <2>3, QueueTail
  <2>4. CASE /\ Settle /\ queued # <<>> /\ ~LastAttempt(flush.event)
             /\ queued' = Append(Tail(queued), [flush.event EXCEPT !.attempts = @ + 1])
    <3>1. [flush.event EXCEPT !.attempts = @ + 1] \in Diagnostic
      BY <1>3, <2>4, AgentConstants DEF Diagnostic, LastAttempt
    <3>2. Tail(queued) \in Seq(Diagnostic) /\ Len(Tail(queued)) = Len(queued) - 1
      BY <2>1, <2>4, QueueTail
    <3> DEFINE x == [flush.event EXCEPT !.attempts = @ + 1]
    <3>3. queued' = Append(Tail(queued), x) /\ x \in Diagnostic
      BY <2>4, <3>1
    <3> HIDE DEF x
    <3> QED BY <2>1, <3>2, <3>3, QueueAppend
  <2> QED BY <2>2, <2>3, <2>4 DEF Skip, Settle, IsFirst
<1>5. Tracking' = Tracking
  BY <1>1 DEF Tracking
<1> QED BY <1>1, <1>2, <1>4, <1>5 DEF AgentTypes

\* Another initialization, whose queue is empty.
LEMMA InitializeTypes ==
  ASSUME AgentTypes, InitializeAgain \/ ResetFlushing \/ ClearQueue
  PROVE  AgentTypes'
<1>1. UNCHANGED <<thread, tasks, flush, tracked, sends, accepted>>
  BY DEF InitializeAgain, ResetFlushing, ClearQueue, history
<1>2. generation' \in 1..MaxGenerations
  BY AgentConstants DEF InitializeAgain, ResetFlushing, ClearQueue, AgentTypes
<1>3. queued' \in Seq(Diagnostic) /\ Len(queued') <= MaxQueueSize
  <2>1. CASE queued' = queued
    BY <2>1 DEF AgentTypes
  <2>2. CASE queued' = <<>>
    <3>1. <<>> \in Seq(Diagnostic) /\ Len(<<>>) = 0
      OBVIOUS
    <3> QED BY <2>2, <3>1, AgentConstants
  <2> QED BY <2>1, <2>2 DEF InitializeAgain, ResetFlushing, ClearQueue
<1>4. Tracking' = Tracking /\ HasEvent' = HasEvent
  BY <1>1 DEF Tracking, HasEvent
<1> QED BY <1>1, <1>2, <1>3, <1>4 DEF AgentTypes

-----------------------------------------------------------------------------
(* Each step keeps the account of the events *)

\* Steps that leave queue and history alone, and the event in hand, if any.
LEMMA SameQueue ==
  ASSUME QueueInv, UNCHANGED <<queued, tracked, sends, accepted, excused>>,
         flush' = flush \/ (~HasEvent /\ ~HasEvent')
  PROVE  QueueInv'
<1>1. HasEvent' = HasEvent /\ (HasEvent => flush' = flush)
  BY DEF HasEvent
<1>2. \A id : Tried(flush', id) = Tried(flush, id)
  BY <1>1 DEF Tried, HasEvent
<1>3. flush'.step = "sent" <=> flush.step = "sent"
  BY <1>1 DEF HasEvent
<1>4. InQueue' = InQueue
  BY DEF InQueue
<1> QED BY <1>1, <1>2, <1>3, <1>4 DEF QueueInv, HasEvent

\* A queue that is cleared lost its events for that reason.
LEMMA ClearedQueue ==
  ASSUME QueueInv, ClearQueue
  PROVE  QueueInv'
<1>1. /\ queued' = <<>> /\ excused' = excused \cup InQueue
      /\ UNCHANGED <<flush, tracked, sends, accepted>>
  BY DEF ClearQueue
<1>2. DOMAIN queued' = {} /\ InQueue' = {}
  BY <1>1 DEF InQueue
<1>3. HasEvent' = HasEvent /\ \A id : Tried(flush', id) = Tried(flush, id)
  BY <1>1 DEF HasEvent, Tried
<1> QED BY <1>1, <1>2, <1>3 DEF QueueInv

\* The event in hand is the first of the queue.
LEMMA LookedAt ==
  ASSUME AgentTypes, QueueInv, Look
  PROVE  QueueInv'
<1>1. UNCHANGED <<queued, tracked, sends, accepted, excused>> /\ ~HasEvent
  BY DEF Look, HasEvent, history
<1>2. CASE queued = <<>>
  BY <1>1, <1>2, SameQueue DEF Look, HasEvent
<1>3. CASE queued # <<>>
  <2>1. flush'.step \in {"send", "skip"} /\ flush'.event = queued[1] /\ 1 \in DOMAIN queued
    BY <1>3, QueueTail DEF Look, AgentTypes
  <2>2. \A id : Tried(flush, id) = 0 /\ Tried(flush', id) = 0
    BY <1>1, <2>1 DEF Tried, HasEvent
  <2>3. queued[1].id \in InQueue /\ queued[1].id <= tracked /\ sends[queued[1].id] = queued[1].attempts + 0
    BY <2>1, <2>2 DEF QueueInv, InQueue
  <2>4. \A i \in DOMAIN queued : queued[i].id \notin accepted
    BY <1>1 DEF QueueInv, HasEvent
  <2>5. \A i \in DOMAIN queued : queued[i].id = queued[1].id => i = 1
    BY <2>1 DEF QueueInv
  <2>6. HasEvent' /\ InQueue' = InQueue
    BY <1>1, <2>1 DEF HasEvent, InQueue
  <2> QED BY <1>1, <2>1, <2>2, <2>3, <2>4, <2>5, <2>6 DEF QueueInv
<1> QED BY <1>2, <1>3

\* A send is one more of its event's attempts, answered or not.
LEMMA SentOnce ==
  ASSUME AgentTypes, QueueInv, NEW answered \in BOOLEAN, SendEvent(answered)
  PROVE  QueueInv'
<1> DEFINE id == flush.event.id
<1>1. /\ flush.step = "send" /\ HasEvent /\ HasEvent' /\ UNCHANGED <<queued, tracked, excused>>
      /\ flush'.event = flush.event /\ flush'.step = (IF answered THEN "sent" ELSE "failed")
      /\ accepted' = accepted \cup (IF answered THEN {id} ELSE {})
      /\ sends' = [sends EXCEPT ![id] = @ + 1]
  <2>1. HasEvent /\ flush = [step |-> flush.step, event |-> flush.event]
    BY InHand DEF SendEvent, HasEvent
  <2> QED BY <2>1 DEF SendEvent, HasEvent
<1>2. /\ id \in Ids /\ id <= tracked /\ sends[id] = flush.event.attempts + 0 /\ id \in InQueue \cup excused
      /\ \A i \in DOMAIN queued : queued[i].id = id => i = 1 /\ queued[i] = flush.event
      /\ id \notin accepted
  BY <1>1, InHand DEF QueueInv, Tried
<1>3. flush.event.attempts \in 0..MaxRetries
  BY <1>1, InHand
<1>4. /\ sends' \in [Ids -> Nat] /\ sends'[id] = flush.event.attempts + 1
      /\ \A e \in Ids : e # id => sends'[e] = sends[e]
  BY <1>1, <1>2, <1>3, AgentConstants DEF AgentTypes
<1>5. \A e : Tried(flush, e) = 0 /\ Tried(flush', e) = IF e = id THEN 1 ELSE 0
  BY <1>1 DEF Tried
<1>6. \A i \in DOMAIN queued : queued[i].id \in Ids
  <2>1. \A i \in DOMAIN queued : queued[i] \in Diagnostic
    BY DEF AgentTypes
  <2> QED BY <2>1 DEF Diagnostic
<1>7. InQueue' = InQueue
  BY <1>1 DEF InQueue
<1>8. ASSUME NEW i \in DOMAIN queued'
      PROVE  /\ queued'[i].id <= tracked' /\ sends'[queued'[i].id] = queued'[i].attempts + Tried(flush', queued'[i].id)
             /\ queued'[i].id \in accepted' => flush'.step = "sent" /\ flush'.event.id = queued'[i].id
  <2>1. /\ queued[i].id <= tracked /\ sends[queued[i].id] = queued[i].attempts + Tried(flush, queued[i].id)
        /\ queued[i].id \notin accepted
    BY <1>1, <1>8 DEF QueueInv
  <2>2. CASE queued[i].id = id
    BY <1>1, <1>2, <1>4, <1>5, <1>8, <2>1, <2>2
  <2>3. CASE queued[i].id # id
    <3>1. queued[i].id \notin accepted'
      BY <1>1, <2>1, <2>3
    <3>2. sends'[queued[i].id] = sends[queued[i].id] /\ Tried(flush', queued[i].id) = Tried(flush, queued[i].id)
      BY <1>1, <1>4, <1>5, <1>6, <1>8, <2>3
    <3> QED BY <1>1, <2>1, <3>1, <3>2
  <2> QED BY <2>2, <2>3
<1>9. \A e \in Ids : e > tracked' => sends'[e] = 0
  BY <1>1, <1>2, <1>4 DEF QueueInv, Ids, AgentTypes
<1>10. \A e \in 1..tracked' : e \in InQueue' \cup accepted' \cup excused' \/ sends'[e] = MaxRetries + 1
  <2>1. tracked \in Nat /\ 1..tracked \subseteq Ids
    <3>1. tracked \in Nat /\ tracked <= MaxEvents
      <4>1. IsFiniteSet(Tracking)
        BY AgentConstants, FS_Subset DEF Tracking
      <4>2. Cardinality(Tracking) \in Nat
        BY <4>1, FS_CardinalityType
      <4> QED BY <4>2, AgentConstants DEF AgentTypes
    <3> QED BY <3>1, AgentConstants DEF Ids
  <2> QED BY <1>1, <1>2, <1>4, <1>7, <2>1 DEF QueueInv
<1>11. \A i, j \in DOMAIN queued' : queued'[i].id = queued'[j].id => i = j
  BY <1>1 DEF QueueInv
<1>12. /\ flush'.event.id <= tracked' /\ sends'[flush'.event.id] = flush'.event.attempts + Tried(flush', flush'.event.id)
       /\ flush'.event.id \in InQueue' \cup excused'
       /\ \A i \in DOMAIN queued' : queued'[i].id = flush'.event.id => i = 1 /\ queued'[i] = flush'.event
       /\ flush'.event.id \in accepted' <=> flush'.step = "sent"
  BY <1>1, <1>2, <1>4, <1>5, <1>7
<1> QED BY <1>8, <1>9, <1>10, <1>11, <1>12 DEF QueueInv


\* The first is taken away, and its place in the account is another.
LEMMA TakenAway ==
  ASSUME AgentTypes, QueueInv, HasEvent, ~HasEvent', queued # <<>>, queued[1] = flush.event, queued' = Tail(queued),
         UNCHANGED <<tracked, sends, accepted>>, excused \subseteq excused',
         flush.event.id \in accepted \cup excused' \/ sends[flush.event.id] = MaxRetries + 1
  PROVE  QueueInv'
<1>1. /\ 1 \in DOMAIN queued
      /\ \A i \in DOMAIN queued' : i + 1 \in DOMAIN queued /\ i + 1 # 1 /\ queued'[i] = queued[i + 1]
      /\ \A j \in DOMAIN queued : j # 1 => j - 1 \in DOMAIN queued' /\ queued'[j - 1] = queued[j]
  <2>1. queued \in Seq(Diagnostic)
    BY DEF AgentTypes
  <2>2. queued' \in Seq(Diagnostic)
    BY <2>1, QueueTail
  <2>3. \A i \in DOMAIN queued' : i + 1 # 1
    BY <2>2
  <2> QED BY <2>1, <2>3, QueueTail
<1>2. \A i \in DOMAIN queued' : queued'[i].id # flush.event.id
  BY <1>1 DEF QueueInv
<1>3. InQueue \subseteq InQueue' \cup {flush.event.id}
  <2>1. SUFFICES ASSUME NEW j \in DOMAIN queued, j # 1 PROVE queued[j].id \in InQueue'
    BY DEF InQueue
  <2>2. j - 1 \in DOMAIN queued' /\ queued'[j - 1].id = queued[j].id
    BY <1>1, <2>1
  <2> QED BY <2>2 DEF InQueue
<1>4. \A f, id : f.step \notin {"sent", "failed"} => Tried(f, id) = 0
  BY DEF Tried
<1>5. \A id : Tried(flush', id) = 0
  BY <1>4 DEF HasEvent
<1>6. \A i \in DOMAIN queued' : Tried(flush, queued'[i].id) = 0
  BY <1>2 DEF Tried
<1>7. ASSUME NEW i \in DOMAIN queued'
      PROVE  /\ queued'[i].id <= tracked' /\ sends'[queued'[i].id] = queued'[i].attempts + Tried(flush', queued'[i].id)
             /\ queued'[i].id \notin accepted'
  BY <1>1, <1>2, <1>5, <1>6 DEF QueueInv
<1>8. \A e \in 1..tracked' : e \in InQueue' \cup accepted' \cup excused' \/ sends'[e] = MaxRetries + 1
  BY <1>3 DEF QueueInv
<1>9. ASSUME NEW i \in DOMAIN queued', NEW j \in DOMAIN queued', queued'[i].id = queued'[j].id
      PROVE  i = j
  <2>1. i + 1 = j + 1 /\ i \in Nat /\ j \in Nat
    <3>1. queued' \in Seq(Diagnostic)
      BY QueueTail DEF AgentTypes
    <3> QED BY <1>1, <1>9, <3>1 DEF QueueInv
  <2> QED BY <2>1
<1> QED BY <1>7, <1>8, <1>9 DEF QueueInv

\* An event leaves when it was accepted, of an old generation, or tried often enough.
LEMMA SkippedOrSettled ==
  ASSUME AgentTypes, QueueInv, Skip \/ Settle
  PROVE  QueueInv'
<1> DEFINE e == flush.event
<1>1. /\ HasEvent /\ ~HasEvent' /\ UNCHANGED <<tracked, sends, accepted>> /\ excused \subseteq excused'
      /\ flush'.step \notin {"sent", "failed"}
  BY DEF Skip, Settle, HasEvent
<1>2. /\ e \in Diagnostic /\ e.id \in Ids /\ e.attempts \in 0..MaxRetries /\ e.id <= tracked
      /\ sends[e.id] = e.attempts + Tried(flush, e.id) /\ e.id \in InQueue \cup excused
      /\ \A i \in DOMAIN queued : queued[i].id = e.id => i = 1 /\ queued[i] = e
      /\ e.id \in accepted <=> flush.step = "sent"
  BY <1>1, InHand DEF QueueInv
<1>3. queued \in Seq(Diagnostic)
  BY DEF AgentTypes
<1>4. IsFirst(e) <=> queued # <<>> /\ queued[1] = e
  BY <1>3, QueueTail DEF IsFirst
<1>5. CASE ~IsFirst(e)
  <2>1. queued' = queued
    BY <1>5 DEF Skip, Settle
  <2>2. \A i \in DOMAIN queued : queued[i].id # e.id
    BY <1>2, <1>3, <1>4, <1>5
  <2>3. \A i \in DOMAIN queued : Tried(flush, queued[i].id) = 0
    BY <2>2 DEF Tried
  <2>4. \A id : Tried(flush', id) = 0
    BY <1>1 DEF Tried
  <2>5. InQueue' = InQueue
    BY <2>1 DEF InQueue
  <2>6. \A i \in DOMAIN queued : queued[i].id \notin accepted
    BY <2>2 DEF QueueInv
  <2> QED BY <1>1, <2>1, <2>3, <2>4, <2>5, <2>6 DEF QueueInv
<1>6. CASE IsFirst(e) /\ queued' = Tail(queued)
  <2>1. e.id \in accepted \cup excused' \/ sends[e.id] = MaxRetries + 1
    <3>1. CASE Skip
      BY <3>1 DEF Skip
    <3>2. CASE Settle /\ flush.step = "sent"
      BY <1>2, <3>2
    <3>3. CASE Settle /\ flush.step = "failed"
      <4>1. LastAttempt(e)
        <5>1. queued # <<>> /\ Tail(queued) \in Seq(Diagnostic) /\ Len(Tail(queued)) = Len(queued) - 1
          BY <1>3, <1>4, <1>6, QueueTail
        <5> DEFINE x == [e EXCEPT !.attempts = @ + 1]
        <5>2. SUFFICES ASSUME ~LastAttempt(e) PROVE FALSE
          OBVIOUS
        <5>3. queued' = Append(Tail(queued), x)
          BY <1>6, <3>3, <5>2 DEF Settle
        <5> HIDE DEF x
        <5> DEFINE q == Tail(queued)
        <5>4. q \in Seq(Diagnostic) /\ Append(q, x) = q
          BY <1>6, <5>1, <5>3
        <5> HIDE DEF q
        <5>5. Len(Append(q, x)) = Len(q) + 1 /\ Len(q) \in Nat
          BY <5>4
        <5> QED BY <5>4, <5>5
      <4>2. Tried(flush, e.id) = 1
        BY <3>3 DEF Tried
      <4> QED BY <1>2, <4>1, <4>2, AgentConstants DEF LastAttempt
    <3> QED BY <3>1, <3>2, <3>3 DEF Skip, Settle
  <2> HIDE DEF e
  <2> QED BY <1>1, <1>4, <1>6, <2>1, TakenAway DEF e
<1>7. CASE /\ Settle /\ flush.step = "failed" /\ IsFirst(e)
           /\ queued' = Append(Tail(queued), [e EXCEPT !.attempts = @ + 1])
  <2> DEFINE q == Tail(queued)
             x == [e EXCEPT !.attempts = @ + 1]
             n == Len(q) + 1
  <2>1. q \in Seq(Diagnostic) /\ Len(q) \in Nat
    BY <1>3, <1>4, <1>7, QueueTail
  <2>2. x \in Diagnostic
    <3>1. queued' \in Seq(Diagnostic)
      BY QueueStepTypes DEF AgentTypes
    <3>2. queued' = Append(q, x)
      BY <1>7
    <3> HIDE DEF q, x
    <3>3. n \in DOMAIN queued' /\ queued'[n] = x
      BY <2>1, <3>2
    <3> QED BY <3>1, <3>3
  <2>3. x.id = e.id /\ x.attempts = e.attempts + 1
    BY <1>2 DEF Diagnostic
  <2>4. /\ DOMAIN queued' = DOMAIN q \cup {n} /\ n \notin DOMAIN q
        /\ \A i \in DOMAIN q : queued'[i] = q[i]
        /\ queued'[n] = x
    <3>1. queued' = Append(q, x)
      BY <1>7
    <3> HIDE DEF q, x
    <3> QED BY <2>1, <2>2, <3>1, QueueAppend
  <2>5. /\ 1 \in DOMAIN queued /\ queued[1] = e
        /\ \A i \in DOMAIN q : i + 1 \in DOMAIN queued /\ i + 1 # 1 /\ queued'[i] = queued[i + 1] /\ i \in Nat
        /\ \A j \in DOMAIN queued : j # 1 => j - 1 \in DOMAIN q /\ queued'[j - 1] = queued[j]
    <3>1. \A i \in DOMAIN q : i + 1 # 1 /\ i \in Nat
      BY <2>1
    <3> QED BY <1>3, <1>4, <1>7, <2>4, <3>1, QueueTail
  <2> HIDE DEF q, x, n
  <2>6. \A i \in DOMAIN q : queued'[i].id # e.id
    BY <2>5 DEF QueueInv
  <2>7. \A id : Tried(flush', id) = 0
    BY <1>1 DEF Tried
  <2>8. Tried(flush, e.id) = 1 /\ \A i \in DOMAIN q : Tried(flush, queued'[i].id) = 0
    BY <1>7, <2>6 DEF Tried
  <2>9. ASSUME NEW i \in DOMAIN queued'
        PROVE  /\ queued'[i].id <= tracked' /\ sends'[queued'[i].id] = queued'[i].attempts + Tried(flush', queued'[i].id)
               /\ queued'[i].id \notin accepted'
    <3>1. CASE i \in DOMAIN q
      BY <1>1, <2>5, <2>6, <2>7, <2>8, <3>1 DEF QueueInv
    <3>2. CASE i = n
      <4>1. e.id \notin accepted /\ sends[e.id] = x.attempts + 0
        BY <1>2, <1>7, <2>3, <2>8
      <4> QED BY <1>1, <1>2, <2>3, <2>4, <2>7, <3>2, <4>1
    <3> QED BY <2>4, <3>1, <3>2
  <2>10. InQueue \subseteq InQueue'
    <3>1. e.id \in InQueue'
      BY <2>3, <2>4 DEF InQueue
    <3>2. \A j \in DOMAIN queued : j # 1 => queued[j].id \in InQueue'
      BY <2>4, <2>5 DEF InQueue
    <3> QED BY <2>5, <3>1, <3>2 DEF InQueue
  <2>11. \A y \in 1..tracked' : y \in InQueue' \cup accepted' \cup excused' \/ sends'[y] = MaxRetries + 1
    BY <1>1, <2>10 DEF QueueInv
  <2>12. ASSUME NEW i \in DOMAIN queued', NEW j \in DOMAIN queued', queued'[i].id = queued'[j].id
         PROVE  i = j
    <3>1. CASE i \in DOMAIN q /\ j \in DOMAIN q
      <4>1. i + 1 = j + 1 /\ i \in Nat /\ j \in Nat
        BY <2>5, <2>12, <3>1 DEF QueueInv
      <4> QED BY <4>1
    <3>2. CASE i = n \/ j = n
      BY <2>3, <2>4, <2>6, <2>12, <3>2
    <3> QED BY <2>4, <3>1, <3>2
  <2> QED BY <1>1, <2>9, <2>11, <2>12 DEF QueueInv
<1>8. CASE Skip
  BY <1>5, <1>6, <1>8 DEF Skip
<1>9. CASE Settle
  BY <1>5, <1>6, <1>7, <1>9 DEF Settle
<1> QED BY <1>8, <1>9

\* A new event is the last, and the first has perhaps made room.
LEMMA EventAdded ==
  ASSUME AgentTypes, QueueInv, NEW t \in Threads, AddEvent(t)
  PROVE  QueueInv'
<1> DEFINE x == [id |-> tracked + 1, generation |-> thread[t].generation, attempts |-> 0]
           q == MadeRoom(queued)
           n == Len(q) + 1
<1>1. /\ tracked' = tracked + 1 /\ queued' = Append(q, x) /\ UNCHANGED <<flush, sends, accepted>>
      /\ excused' = excused \cup (InQueue \ InQueue')
  BY DEF AddEvent, InQueue
<1>2. x \in Diagnostic /\ q \in Seq(Diagnostic) /\ Len(q) \in Nat /\ tracked + 1 \in Ids
  <2>1. x \in Diagnostic /\ q \in Seq(Diagnostic)
    BY AddEventTypes
  <2>2. x.id \in Ids
    BY <2>1 DEF Diagnostic
  <2> HIDE DEF q
  <2> QED BY <2>1, <2>2
<1>3. tracked \in Nat /\ accepted \subseteq 1..tracked
  BY DEF AgentTypes
<1>4. x.id = tracked + 1 /\ x.attempts = 0
  OBVIOUS
<1>5. PICK d \in {0, 1} : \A i \in DOMAIN q : i + d \in DOMAIN queued /\ q[i] = queued[i + d] /\ (i + d = 1 => d = 0 /\ i = 1)
  <2>1. queued \in Seq(Diagnostic)
    BY DEF AgentTypes
  <2>2. CASE Len(queued) >= MaxQueueSize
    <3>1. queued # <<>>
      BY <2>1, <2>2, AgentConstants
    <3>2. q = Tail(queued)
      BY <2>2 DEF MadeRoom
    <3>3. \A i \in DOMAIN q : i \in Nat /\ i >= 1
      BY <1>2
    <3> HIDE DEF q
    <3>4. \A i \in DOMAIN q : i + 1 \in DOMAIN queued /\ q[i] = queued[i + 1] /\ i + 1 # 1
      BY <2>1, <3>1, <3>2, <3>3, QueueTail
    <3> QED BY <3>4
  <2>3. CASE ~(Len(queued) >= MaxQueueSize)
    <3>1. q = queued
      BY <2>3 DEF MadeRoom
    <3>2. \A i \in DOMAIN queued : i + 0 = i
      BY <2>1
    <3> HIDE DEF q
    <3> QED BY <3>1, <3>2
  <2> QED BY <2>2, <2>3
<1>6. /\ DOMAIN queued' = DOMAIN q \cup {n} /\ n \notin DOMAIN q
      /\ \A i \in DOMAIN q : queued'[i] = queued[i + d] /\ i + d \in DOMAIN queued /\ i \in Nat
      /\ queued'[n] = x
  <2>1. \A i \in DOMAIN q : i \in Nat
    BY <1>2
  <2> HIDE DEF q, x
  <2> QED BY <1>1, <1>2, <1>5, <2>1, QueueAppend
<1> HIDE DEF q, x, n
<1>7. \A i \in DOMAIN queued : queued[i].id \in Ids /\ queued[i].id <= tracked
  <2>1. \A i \in DOMAIN queued : queued[i] \in Diagnostic
    BY DEF AgentTypes
  <2> QED BY <2>1 DEF QueueInv, Diagnostic
<1>8. \A i \in DOMAIN q : queued'[i].id <= tracked /\ queued'[i].id # tracked + 1
  BY <1>3, <1>6, <1>7 DEF Ids
<1>9. sends[tracked + 1] = 0 /\ tracked + 1 \notin accepted
  BY <1>2, <1>3 DEF QueueInv
<1>10. HasEvent => flush.event.id \in Ids /\ flush.event.id # tracked + 1 /\ flush.event.id <= tracked
  BY <1>3, InHand DEF QueueInv, Ids
<1>11. Tried(flush, tracked + 1) = 0
  BY <1>10 DEF Tried, HasEvent
<1>12. ASSUME NEW i \in DOMAIN queued'
       PROVE  /\ queued'[i].id <= tracked' /\ sends'[queued'[i].id] = queued'[i].attempts + Tried(flush', queued'[i].id)
              /\ queued'[i].id \in accepted' => flush'.step = "sent" /\ flush'.event.id = queued'[i].id
  <2>1. CASE i \in DOMAIN q
    <3>1. queued'[i].id <= tracked'
      BY <1>1, <1>3, <1>6, <1>7, <2>1 DEF Ids
    <3> QED BY <1>1, <1>6, <2>1, <3>1 DEF QueueInv
  <2>2. CASE i = n
    <3>1. queued'[i].id = tracked + 1 /\ queued'[i].attempts = 0
      BY <1>4, <1>6, <2>2 DEF x
    <3> QED BY <1>1, <1>3, <1>9, <1>11, <3>1
  <2> QED BY <1>6, <2>1, <2>2
<1>13. ASSUME NEW i \in DOMAIN queued', NEW j \in DOMAIN queued', queued'[i].id = queued'[j].id
       PROVE  i = j
  <2>1. CASE i \in DOMAIN q /\ j \in DOMAIN q
    <3>1. i + d = j + d /\ i \in Nat /\ j \in Nat
      BY <1>6, <1>13, <2>1 DEF QueueInv
    <3> QED BY <3>1
  <2>2. CASE i = n \/ j = n
    BY <1>4, <1>6, <1>8, <1>13, <2>2 DEF x
  <2> QED BY <1>6, <2>1, <2>2
<1>14. HasEvent' = HasEvent /\ InQueue \subseteq InQueue' \cup excused' /\ excused \subseteq excused'
  BY <1>1 DEF HasEvent
<1>15. HasEvent =>
          /\ flush.event.id <= tracked' /\ sends'[flush.event.id] = flush.event.attempts + Tried(flush, flush.event.id)
          /\ flush.event.id \in InQueue' \cup excused'
          /\ \A i \in DOMAIN queued' : queued'[i].id = flush.event.id => i = 1 /\ queued'[i] = flush.event
          /\ flush.event.id \in accepted' <=> flush.step = "sent"
  <2>1. SUFFICES ASSUME HasEvent
                 PROVE  /\ flush.event.id <= tracked' /\ sends'[flush.event.id] = flush.event.attempts + Tried(flush, flush.event.id)
                        /\ flush.event.id \in InQueue' \cup excused'
                        /\ \A i \in DOMAIN queued' : queued'[i].id = flush.event.id => i = 1 /\ queued'[i] = flush.event
                        /\ flush.event.id \in accepted' <=> flush.step = "sent"
    OBVIOUS
  <2>2. flush.event.id <= tracked'
    BY <1>1, <1>3, <1>10, <2>1 DEF Ids
  <2>3. ASSUME NEW i \in DOMAIN queued', queued'[i].id = flush.event.id PROVE i = 1 /\ queued'[i] = flush.event
    <3>1. i \in DOMAIN q
      BY <1>4, <1>6, <1>10, <2>1, <2>3 DEF x
    <3>2. i + d = 1 /\ queued[i + d] = flush.event
      BY <1>6, <2>1, <2>3, <3>1 DEF QueueInv
    <3> QED BY <1>5, <1>6, <3>1, <3>2
  <2> QED BY <1>1, <1>14, <2>1, <2>2, <2>3 DEF QueueInv
<1>16. \A e \in Ids : e > tracked' => sends'[e] = 0
  BY <1>1, <1>3 DEF QueueInv, Ids
<1>17. \A e \in 1..tracked' : e \in InQueue' \cup accepted' \cup excused' \/ sends'[e] = MaxRetries + 1
  <2>1. tracked + 1 \in InQueue'
    BY <1>4, <1>6 DEF InQueue, x
  <2>2. \A e \in 1..tracked' : e \in 1..tracked \/ e = tracked + 1
    BY <1>1, <1>3
  <2> QED BY <1>1, <1>14, <2>1, <2>2 DEF QueueInv
<1> QED BY <1>1, <1>12, <1>13, <1>14, <1>15, <1>16, <1>17 DEF QueueInv


-----------------------------------------------------------------------------
(* Each step keeps the tasks going, or tells why not *)

\* No call has added an event and not yet handed on the task.
NoCaller == \A t \in Threads : thread[t].step \notin {"added", "flush"}

\* A thread starts a task when there is none, or comes while one ends.
LEMMA ThreadKeepsTasks ==
  ASSUME AgentTypes, TasksInv, NEW t \in Threads,
         Track(t) \/ AddEvent(t) \/ FlushAsync(t) \/ Execute(t) \/ AlreadyFlushing(t)
  PROVE  TasksInv'
<1>1. tasks \in Seq(1..MaxGenerations) /\ Len(tasks) \in Nat /\ (tasks = <<>> => Len(tasks) = 0)
  BY DEF AgentTypes
<1>2. \A c : thread' = [thread EXCEPT ![t] = c] => thread'[t] = c /\ \A u \in Threads : u # t => thread'[u] = thread[u]
  BY DEF AgentTypes
<1>3. CASE Track(t)
  <2>1. UNCHANGED <<queued, flushing, tasks, flush, unnoticed>>
    BY <1>3 DEF Track, history
  <2>2. NoCaller' => NoCaller
    BY <1>2, <1>3 DEF Track, NoCaller
  <2> QED BY <2>1, <2>2 DEF TasksInv, NoCaller
<1>4. CASE AddEvent(t)
  <2>1. UNCHANGED <<flushing, tasks, flush, unnoticed>>
    BY <1>4 DEF AddEvent
  <2>2. thread'[t].step = "added"
    <3>1. thread[t] \in [step : {"none", "track", "added", "flush"}, generation : 0..MaxGenerations]
      BY DEF AgentTypes
    <3>2. thread'[t] = [thread[t] EXCEPT !.step = "added"]
      BY <1>4 DEF AddEvent, AgentTypes
    <3> QED BY <3>1, <3>2
  <2>3. ~NoCaller'
    BY <2>2 DEF NoCaller
  <2> QED BY <2>1, <2>3 DEF TasksInv, NoCaller
<1>5. CASE FlushAsync(t)
  <2>1. UNCHANGED <<queued, flushing, tasks, flush, unnoticed>>
    BY <1>5 DEF FlushAsync, history
  <2>2. ~NoCaller'
    BY <1>2, <1>5 DEF FlushAsync, NoCaller
  <2> QED BY <2>1, <2>2 DEF TasksInv, NoCaller
<1>6. CASE Execute(t)
  <2>1. UNCHANGED <<queued, flush, unnoticed>> /\ tasks' = Append(tasks, thread[t].generation) /\ ~flushing
    BY <1>6 DEF Execute, history
  <2>2. tasks' # <<>> /\ Len(tasks') = Len(tasks) + 1
    BY <1>1, <2>1
  <2>3. Len(tasks') = 1 => tasks = <<>>
    BY <1>1, <2>2
  <2>4. Len(tasks') = 1 => flush'.step # "ended"
    BY <2>1, <2>3 DEF TasksInv
  <2> QED BY <2>1, <2>2, <2>4 DEF TasksInv
<1>7. CASE AlreadyFlushing(t)
  <2>1. UNCHANGED <<queued, flushing, tasks, flush>> /\ flushing /\ unnoticed' = (unnoticed \/ flush.step = "ended")
    BY <1>7 DEF AlreadyFlushing
  <2>2. tasks # <<>>
    BY <2>1 DEF TasksInv
  <2> QED BY <2>1, <2>2 DEF TasksInv
<1> QED BY <1>3, <1>4, <1>5, <1>6, <1>7

\* A task ends with the queue empty, or tells why not.
LEMMA TaskKeepsTasks ==
  ASSUME AgentTypes, TasksInv,
         TakeTask \/ Look \/ Skip \/ Settle \/ EndTask \/ \E answered \in BOOLEAN : SendEvent(answered)
  PROVE  TasksInv'
<1>1. tasks \in Seq(1..MaxGenerations) /\ Len(tasks) \in Nat /\ (tasks = <<>> => Len(tasks) = 0)
  BY DEF AgentTypes
<1>2. CASE TakeTask
  BY <1>2 DEF TakeTask, TasksInv
<1>3. CASE Look
  <2>1. UNCHANGED <<queued, flushing, thread, tasks, unnoticed>> /\ tasks # <<>>
    BY <1>3 DEF Look, history, TasksInv
  <2>2. flush'.step \in {"ended", "send", "skip"} /\ (flush'.step = "ended" => queued' = <<>>)
    BY <1>3 DEF Look
  <2> QED BY <2>1, <2>2 DEF TasksInv
<1>4. CASE Skip
  <2>1. UNCHANGED <<flushing, thread, tasks, unnoticed>> /\ tasks # <<>> /\ flush'.step = "look"
    BY <1>4 DEF Skip, TasksInv
  <2> QED BY <2>1 DEF TasksInv
<1>5. CASE Settle
  <2>1. UNCHANGED <<flushing, thread, tasks>> /\ tasks # <<>> /\ flush'.step \in {"look", "ended"}
    BY <1>5 DEF Settle, TasksInv
  <2>2. flush'.step = "ended" => unnoticed'
    BY <1>5 DEF Settle
  <2> QED BY <2>1, <2>2 DEF TasksInv
<1>6. CASE EndTask
  <2>1. /\ flush.step = "ended" /\ flush' = NoTask /\ ~flushing' /\ tasks' = Tail(tasks) /\ tasks # <<>>
        /\ UNCHANGED <<queued, thread, unnoticed>>
    BY <1>6 DEF EndTask, history, TasksInv
  <2>2. Len(tasks') = Len(tasks) - 1
    BY <1>1, <2>1
  <2>3. tasks' = <<>> => Len(tasks) = 1
    BY <1>1, <2>2
  <2>4. NoCaller' = NoCaller
    BY <2>1 DEF NoCaller
  <2> QED BY <2>1, <2>3, <2>4 DEF TasksInv, NoTask, NoCaller
<1>7. ASSUME NEW answered \in BOOLEAN, SendEvent(answered) PROVE TasksInv'
  <2>1. UNCHANGED <<queued, flushing, thread, tasks, unnoticed>> /\ tasks # <<>>
    BY <1>7 DEF SendEvent, TasksInv
  <2>2. flush'.step \in {"sent", "failed"}
    <3>1. HasEvent
      BY <1>7 DEF SendEvent, HasEvent
    <3> QED BY <1>7, <3>1, InHand DEF SendEvent
  <2> QED BY <2>1, <2>2 DEF TasksInv
<1> QED BY <1>2, <1>3, <1>4, <1>5, <1>6, <1>7

\* Every step of the threads, of the task and of an initialization.
LEMMA AgentInvIsInductive ==
  ASSUME AgentInv, [AgentNext]_agentVars
  PROVE  AgentInv'
<1>0. AgentTypes /\ QueueInv /\ TasksInv
  BY DEF AgentInv
<1>1. ASSUME NEW t \in Threads, Track(t) \/ FlushAsync(t) \/ Execute(t) \/ AlreadyFlushing(t) PROVE AgentInv'
  <2>1. UNCHANGED <<queued, tracked, sends, accepted, excused, flush>>
    BY <1>1 DEF Track, FlushAsync, Execute, AlreadyFlushing, history
  <2> QED BY <1>0, <1>1, <2>1, ThreadStepTypes, SameQueue, ThreadKeepsTasks DEF AgentInv
<1>2. ASSUME NEW t \in Threads, AddEvent(t) PROVE AgentInv'
  BY <1>0, <1>2, AddEventTypes, EventAdded, ThreadKeepsTasks DEF AgentInv
<1>3. CASE TakeTask \/ EndTask
  <2>1. UNCHANGED <<queued, tracked, sends, accepted, excused>> /\ ~HasEvent /\ ~HasEvent'
    BY <1>3 DEF TakeTask, EndTask, NoTask, HasEvent, history
  <2>2. AgentTypes' /\ TasksInv'
    BY <1>0, <1>3, TaskStepTypes, TaskKeepsTasks DEF TasksInv
  <2> QED BY <1>0, <2>1, <2>2, SameQueue DEF AgentInv
<1>4. CASE Look
  <2>1. AgentTypes' /\ TasksInv'
    BY <1>0, <1>4, TaskStepTypes, TaskKeepsTasks DEF TasksInv
  <2> QED BY <1>0, <1>4, <2>1, LookedAt DEF AgentInv
<1>5. CASE Skip \/ Settle
  BY <1>0, <1>5, QueueStepTypes, SkippedOrSettled, TaskKeepsTasks DEF AgentInv
<1>6. ASSUME NEW answered \in BOOLEAN, SendEvent(answered) PROVE AgentInv'
  <2>1. AgentTypes' /\ TasksInv'
    BY <1>0, <1>6, TaskStepTypes, TaskKeepsTasks DEF TasksInv
  <2> QED BY <1>0, <1>6, <2>1, SentOnce DEF AgentInv
<1>7. CASE InitializeAgain \/ ResetFlushing
  <2>1. UNCHANGED <<queued, thread, tasks, tracked, sends, accepted, excused, flush, unnoticed>> /\ (flushing' => flushing)
    BY <1>7 DEF InitializeAgain, ResetFlushing, history
  <2>2. TasksInv'
    BY <1>0, <2>1 DEF TasksInv
  <2> QED BY <1>0, <1>7, <2>1, <2>2, InitializeTypes, SameQueue DEF AgentInv
<1>8. CASE ClearQueue
  <2>1. TasksInv'
    BY <1>0, <1>8 DEF TasksInv, ClearQueue
  <2> QED BY <1>0, <1>8, <2>1, InitializeTypes, ClearedQueue DEF AgentInv
<1>9. CASE UNCHANGED agentVars
  <2>1. UNCHANGED <<queued, flushing, generation, thread, tasks, tracked, sends, accepted, excused, flush, unnoticed>>
    BY <1>9 DEF agentVars
  <2>2. Tracking' = Tracking /\ HasEvent' = HasEvent
    BY <2>1 DEF Tracking, HasEvent
  <2>3. AgentTypes'
    BY <1>0, <2>1, <2>2 DEF AgentTypes
  <2>4. TasksInv'
    BY <1>0, <2>1 DEF TasksInv
  <2> QED BY <1>0, <2>1, <2>3, <2>4, SameQueue DEF AgentInv
<1> QED BY <1>1, <1>2, <1>3, <1>4, <1>5, <1>6, <1>7, <1>8, <1>9 DEF AgentNext

\* The agent starts with an empty queue and no task.
LEMMA AgentStarts ==
  ASSUME AgentInit
  PROVE  AgentInv
<1>1. /\ queued = <<>> /\ ~flushing /\ generation = 1 /\ thread = [t \in Threads |-> NoCall] /\ tasks = <<>>
      /\ flush = NoTask /\ tracked = 0 /\ sends = [e \in Ids |-> 0] /\ accepted = {} /\ excused = {}
  BY DEF AgentInit
<1>2. ~HasEvent /\ flush.step = "none"
  BY <1>1 DEF HasEvent, NoTask
<1>3. Tracking = {}
  BY <1>1 DEF Tracking, NoCall
<1>4. Cardinality(Tracking) = 0
  BY <1>3, FS_EmptySet
<1>5. <<>> \in Seq(Diagnostic) /\ <<>> \in Seq(1..MaxGenerations) /\ Len(<<>>) = 0 /\ DOMAIN <<>> = {}
  OBVIOUS
<1>6. AgentTypes
  <2>1. thread \in [Threads -> [step : {"none", "track", "added", "flush"}, generation : 0..MaxGenerations]]
    BY <1>1, AgentConstants DEF NoCall
  <2>2. \A t \in Threads : thread[t].step = "none"
    BY <1>1 DEF NoCall
  <2>3. sends \in [Ids -> 0..(MaxRetries + 1)]
    BY <1>1, AgentConstants
  <2> QED BY <1>1, <1>2, <1>4, <1>5, <2>1, <2>2, <2>3, AgentConstants DEF AgentTypes
<1>7. QueueInv
  <2>1. \A e \in Ids : sends[e] = 0
    BY <1>1
  <2>2. 1..tracked = {}
    BY <1>1
  <2>3. DOMAIN queued = {}
    BY <1>1, <1>5
  <2> QED BY <1>2, <2>1, <2>2, <2>3 DEF QueueInv
<1>8. TasksInv
  BY <1>1, <1>2 DEF TasksInv
<1> QED BY <1>6, <1>7, <1>8 DEF AgentInv

\* What follows from it in a state.
LEMMA AgentInvImplies ==
  ASSUME AgentInv
  PROVE  AgentTypeOK /\ EventsLeaveForAReason
<1>0. AgentTypes /\ QueueInv /\ TasksInv
  BY DEF AgentInv
<1>1. AgentTypeOK
  BY <1>0 DEF AgentTypeOK, AgentTypes, TasksInv
<1>2. \A e \in Ids : sends[e] <= MaxRetries + 1
  BY <1>0, AgentConstants DEF AgentTypes
<1>3. ASSUME NEW i \in DOMAIN queued, queued[i].id \in accepted
      PROVE  i = 1 /\ flush = [step |-> "sent", event |-> queued[1]]
  <2>1. flush.step = "sent" /\ flush.event.id = queued[i].id
    BY <1>0, <1>3 DEF QueueInv
  <2>2. HasEvent
    BY <2>1 DEF HasEvent
  <2>3. i = 1 /\ queued[i] = flush.event
    BY <1>0, <1>3, <2>1, <2>2 DEF QueueInv
  <2>4. flush = [step |-> flush.step, event |-> flush.event]
    BY <1>0, <2>2, InHand
  <2> QED BY <2>1, <2>3, <2>4
<1>4. EventsAreAccountedFor
  BY <1>0, <1>2, <1>3 DEF EventsAreAccountedFor, QueueInv
<1>5. WaitingEventsWereMissed
  BY <1>0 DEF WaitingEventsWereMissed, TasksInv
<1> QED BY <1>1, <1>4, <1>5 DEF EventsLeaveForAReason

(* For every number of threads, events and initializations, and every size of
   the queue: an event leaves the queue only when it was accepted, refused as
   often as it may be, or given up for a reason the agent knows; and events wait
   without a task only after one stopped at a failure or a full queue, or a call
   came as the task had seen the queue empty (NdpAgent.kt 75-84, 91). *)
THEOREM EventsHaveReasons == AgentSpec => [](AgentTypeOK /\ EventsLeaveForAReason)
BY AgentStarts, AgentInvIsInductive, AgentInvImplies, PTL DEF AgentSpec

=============================================================================
