---------------------------- MODULE AdminAccess ----------------------------
(***************************************************************************)
(* The office's way in: sessions kept in the process's memory              *)
(* (admin-session.js), what a request with a cookie or a token may do      *)
(* (requireAdmin.js) and the limiter of logins (rate-limit.js). These run  *)
(* without an await; the write that they let through runs on afterwards.   *)
(*                                                                         *)
(* A session and its CSRF token are named by one id.                       *)
(***************************************************************************)
EXTENDS Naturals, FiniteSets, Sequences

CONSTANTS NoSession, Token, Browsers, Requests,
          TTL,           \* SESSION_TTL_MS
          Window, MaxLogins, \* the limiter's windowMs and max
          MaxNow, MaxAttempts, MaxAdminSessions \* bounds

VARIABLES sessions, \* id -> [role, expires]
          bucket,   \* of the logins of one client: [count, reset]
          cookie, shown, \* a browser's session, and the CSRF token of the page it shows
          write,    \* requests past requireAdmin and requireAdminWrite: the session, Token or NoSession
          now, attempts,
          \* History, read by no action:
          born,  \* every session: [role, at]
          ended, \* logged out, or lost with a restart
          passed \* the times of the logins that the limiter let through since the last restart

adminVars == <<sessions, bucket, cookie, shown, write, now, attempts, born, ended, passed>>

ASSUME AdminAssumption ==
    /\ NoSession \notin Nat /\ Token \notin Nat \cup {NoSession}
    /\ {TTL, Window, MaxLogins} \subseteq Nat \ {0} /\ {MaxNow, MaxAttempts, MaxAdminSessions} \subseteq Nat

Roles == {"FULL_ADMIN", "READ_ONLY"}
Ticks == 0..MaxNow

AdminTypeOK ==
    /\ DOMAIN sessions \subseteq DOMAIN born \ ended
    /\ bucket \in [count : 0..MaxAttempts, reset : 0..(MaxNow + Window)]
    /\ \A b \in Browsers : cookie[b] \in DOMAIN born \cup {NoSession} /\ shown[b] \in DOMAIN born \cup {NoSession}

\* pruneExpired, of the map as createAdminSession finds it
Pruned == [id \in {i \in DOMAIN sessions : sessions[i].expires > now} |-> sessions[id]]

Added(f, id, v) == [x \in DOMAIN f \cup {id} |-> IF x = id THEN v ELSE f[x]]

\* createAdminSession
NewSession(role) == [role |-> role, expires |-> now + TTL]

\* getAdminSession, which deletes what has expired
FoundAtAnyAge(id) == id \in DOMAIN sessions
Found(id) == id \in DOMAIN sessions /\ sessions[id].expires > now
Looked(id) == IF id \in DOMAIN sessions /\ ~Found(id)
              THEN [i \in DOMAIN sessions \ {id} |-> sessions[i]] ELSE sessions

-----------------------------------------------------------------------------

Bucket == IF bucket.reset > now THEN bucket ELSE [count |-> 0, reset |-> now + Window]

\* rateLimit: what is refused counts as well.
Attempt ==
    /\ attempts < MaxAttempts /\ attempts' = attempts + 1
    /\ bucket' = [Bucket EXCEPT !.count = @ + 1]
    /\ passed' = IF bucket'.count <= MaxLogins THEN Append(passed, now) ELSE passed

\* POST /admin/login, with one of the two tokens
LogIn(b, role) ==
    LET id == Cardinality(DOMAIN born) + 1 IN
    /\ id <= MaxAdminSessions /\ Attempt /\ bucket'.count <= MaxLogins
    /\ sessions' = Added(Pruned, id, NewSession(role))
    /\ born' = Added(born, id, [role |-> role, at |-> now])
    /\ cookie' = [cookie EXCEPT ![b] = id]
    /\ UNCHANGED <<shown, write, now, ended>>
\* With another token, or too often
LoginRefused == Attempt /\ UNCHANGED <<sessions, cookie, shown, write, now, born, ended>>

\* A page of the office carries the CSRF token of the session it was read with.
ReadPage(b) ==
    /\ sessions' = Looked(cookie[b])
    /\ shown' = IF Found(cookie[b]) THEN [shown EXCEPT ![b] = cookie[b]] ELSE shown
    /\ UNCHANGED <<bucket, cookie, write, now, attempts, born, ended, passed>>

\* verifyCsrfToken
CsrfOf(b, id) == shown[b] = id
Accepts(b) == /\ Found(cookie[b]) /\ sessions[cookie[b]].role # "READ_ONLY"
              /\ CsrfOf(b, cookie[b])
Post(r, b) ==
    /\ write[r] = NoSession /\ sessions' = Looked(cookie[b])
    /\ write' = IF Accepts(b) THEN [write EXCEPT ![r] = cookie[b]] ELSE write
    /\ UNCHANGED <<bucket, cookie, shown, now, attempts, born, ended, passed>>

\* The Authorization or X-Admin-Token header: no session and no CSRF token.
PostWithToken(r, role) ==
    /\ write[r] = NoSession /\ role # "READ_ONLY" /\ write' = [write EXCEPT ![r] = Token]
    /\ UNCHANGED <<sessions, bucket, cookie, shown, now, attempts, born, ended, passed>>

WriteDone(r) ==
    /\ write[r] # NoSession /\ write' = [write EXCEPT ![r] = NoSession]
    /\ UNCHANGED <<sessions, bucket, cookie, shown, now, attempts, born, ended, passed>>

\* POST /admin/logout is a write that a READ_ONLY session may make.
LogOut(b) ==
    /\ Found(cookie[b]) /\ CsrfOf(b, cookie[b])
    /\ sessions' = [id \in DOMAIN sessions \ {cookie[b]} |-> sessions[id]]
    /\ ended' = ended \cup {cookie[b]} /\ cookie' = [cookie EXCEPT ![b] = NoSession]
    /\ UNCHANGED <<bucket, shown, write, now, attempts, born, passed>>

RestartServer ==
    /\ sessions' = <<>> /\ bucket' = [count |-> 0, reset |-> 0]
    /\ write' = [r \in Requests |-> NoSession]
    /\ ended' = DOMAIN born /\ passed' = <<>>
    /\ UNCHANGED <<cookie, shown, now, attempts, born>>

TimeGoes == /\ now < MaxNow /\ now' = now + 1
         /\ UNCHANGED <<sessions, bucket, cookie, shown, write, attempts, born, ended, passed>>

AdminInit ==
    /\ sessions = <<>> /\ bucket = [count |-> 0, reset |-> 0]
    /\ cookie = [b \in Browsers |-> NoSession] /\ shown = [b \in Browsers |-> NoSession]
    /\ write = [r \in Requests |-> NoSession] /\ now = 0 /\ attempts = 0
    /\ born = <<>> /\ ended = {} /\ passed = <<>>

AdminNext ==
    \/ LoginRefused \/ RestartServer \/ TimeGoes
    \/ \E b \in Browsers : ReadPage(b) \/ LogOut(b) \/ \E role \in Roles : LogIn(b, role)
    \/ \E r \in Requests : WriteDone(r) \/ \E b \in Browsers : Post(r, b)
    \/ \E r \in Requests, role \in Roles : PostWithToken(r, role)

AdminSpec == AdminInit /\ [][AdminNext]_adminVars

(* A write is let through with a cookie only of a session with the full role
   that has not expired, logged out or been lost with a restart, and from a page
   that was read with it (requireAdmin.js 103-117, admin-session.js 31-40). *)
WriteHasALiveSession ==
    \A r \in Requests :
       LET id == write'[r] IN
       write[r] = NoSession /\ id \in DOMAIN born =>
           /\ id \notin ended /\ now < born[id].at + TTL /\ born[id].role = "FULL_ADMIN"
           /\ \E b \in Browsers : cookie[b] = id /\ shown[b] = id

(* The fixed windows of the limiter let less than twice the limit through in
   any stretch of a window's length, without a restart (rate-limit.js 9-30). *)
LoginsPerWindow ==
    \A t \in Ticks : Cardinality({i \in DOMAIN passed : passed[i] \in t..(t + Window - 1)}) < 2 * MaxLogins

(* Both, of the steps of the office's clients. *)
WritesAndLoginsAreGuarded == [][WriteHasALiveSession /\ LoginsPerWindow']_adminVars

=============================================================================
