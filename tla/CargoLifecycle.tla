--------------------------- MODULE CargoLifecycle ---------------------------
(***************************************************************************)
(* The status of a cargo row and its audit log: the administrator's        *)
(* create, edit, delete and resolve (routes/cargo.routes.js), the driver's *)
(* pickup, deliver and report requests (transitionCargo), and what         *)
(* engines/import-engine.js does with the cargo of a tour: the status      *)
(* changes a phone brings along when it syncs, and the rows that the       *)
(* dashboard's tour editor saves; over the tables cargo and cargo_events.  *)
(*                                                                         *)
(* No endpoint locks the row it read.  A request is cut at its reads and   *)
(* at its writes: edit, transition and sync write row and event in one     *)
(* transaction; delete and resolve are separate autocommitted statements.  *)
(* A request that answers 4xx before it wrote anything is no step, or just *)
(* the end of the request.                                                 *)
(***************************************************************************)
EXTENDS Integers, Sequences, FiniteSets

CONSTANTS Cargo,      \* cargo rows
          Request,    \* requests that can be in progress at the same time
          EventId,    \* client_event_id values phones choose
          None,       \* SQL NULL
          AdminTo,    \* statuses administrators ask for
          MaxServed,  \* bound: requests that are ever taken up
          MaxClock    \* bound: Date.now() is 1..MaxClock

\* CARGO_STATUSES
Listed == {"PLANNED", "READY_FOR_PICKUP", "PICKED_UP", "IN_TRANSIT", "DELIVERED",
           "REJECTED", "DAMAGED", "MISSING", "CANCELLED"}

\* The column is TEXT without a CHECK; resolve stores what it is given.
Status == Listed \cup {"UNLISTED"}

ASSUME CargoAssumption ==
    /\ IsFiniteSet(Request)
    /\ None \notin Status \cup EventId \cup Cargo
    /\ AdminTo \subseteq Status
    /\ MaxServed \in Nat
    /\ MaxClock \in Nat \ {0}

\* ADMIN_STATUS_TRANSITIONS: <<from, to>>
AdminMove ==
    ({"PLANNED"} \X {"READY_FOR_PICKUP", "PICKED_UP", "CANCELLED", "REJECTED", "DAMAGED", "MISSING"})
    \cup ({"READY_FOR_PICKUP"} \X {"PICKED_UP", "CANCELLED", "REJECTED", "DAMAGED", "MISSING"})
    \cup ({"PICKED_UP"} \X {"IN_TRANSIT", "DELIVERED", "DAMAGED", "MISSING"})
    \cup ({"IN_TRANSIT"} \X {"DELIVERED", "DAMAGED", "MISSING"})

\* DRIVER_TRANSITIONS: <<from, to>>
DriverMove ==
    ({"PLANNED", "READY_FOR_PICKUP"} \X {"PICKED_UP", "DAMAGED", "MISSING"})
    \cup ({"PICKED_UP", "IN_TRANSIT"} \X {"DELIVERED", "DAMAGED", "MISSING"})

DriverTo == {"PICKED_UP", "DELIVERED", "DAMAGED", "MISSING"}

\* Statuses an edit leaves only with override_reason.
Terminal == {"DELIVERED", "CANCELLED", "REJECTED", "MISSING"}

NonDeletable == {"PICKED_UP", "IN_TRANSIT", "DELIVERED", "DAMAGED", "MISSING", "REJECTED"}

VARIABLES row,     \* cargo
          log,     \* cargo_events, per cargo in insertion order
          req,     \* the requests in progress
          clock,   \* Date.now()
          served,  \* how many requests were taken up
          lost     \* history: <<cargo, status>> written without its event

vars == <<row, log, req, clock, served, lost>>

\* rev 0: the row does not exist yet.  saves is history: how often the tour
\* editor overwrote the row, which leaves revision as it was.
Row == [status : Status \cup {None}, at : 0 .. MaxClock, live : BOOLEAN,
        rev : Nat, saves : Nat]

Event == [from : Status \cup {None}, to : Status \cup {None}, id : EventId \cup {None}]

\* saw, rev, saves: the row as the request read it (the last two are history:
\* no endpoint compares them).  at: when the request, or by the phone's clock
\* the change it brings, happened.
Req == [kind : {"none", "edit", "delete", "transition", "resolve", "sync"},
        stage : {"idle", "begun", "read", "unlogged"},
        cargo : Cargo \cup {None}, to : Status \cup {None}, reason : BOOLEAN,
        id : EventId \cup {None}, at : 0 .. MaxClock,
        saw : Status \cup {None}, rev : Nat, saves : Nat]

Idle == [kind |-> "none", stage |-> "idle", cargo |-> None, to |-> None,
         reason |-> FALSE, id |-> None, at |-> 0, saw |-> None, rev |-> 0, saves |-> 0]

Init ==
    /\ row = [c \in Cargo |-> [status |-> None, at |-> 0, live |-> FALSE,
                           rev |-> 0, saves |-> 0]]
    /\ log = [c \in Cargo |-> << >>]
    /\ req = [h \in Request |-> Idle]
    /\ clock = 1
    /\ served = 0
    /\ lost = {}

-----------------------------------------------------------------------------
\* Helpers

TakeUp == served < MaxServed /\ served' = served + 1

\* What every request but sync begins with.
Arrives(h, kind, stage, c, s, reason, id) ==
    /\ req[h].stage = "idle"
    /\ TakeUp
    /\ req' = [req EXCEPT ![h] =
          [kind |-> kind, stage |-> stage, cargo |-> c, to |-> s, reason |-> reason,
           id |-> id, at |-> clock,
           saw |-> IF stage = "read" THEN row[c].status ELSE None,
           rev |-> IF stage = "read" THEN row[c].rev ELSE 0,
           saves |-> IF stage = "read" THEN row[c].saves ELSE 0]]

Is(h, kind, stage) == req[h].kind = kind /\ req[h].stage = stage

\* Every UPDATE of cargo sets updated_at and increments revision.
Updated(r, s, t) == [r EXCEPT !.status = s, !.at = t, !.rev = @ + 1]

WriteStatus(h, s) ==
    row' = [row EXCEPT ![req[h].cargo] = Updated(@, s, req[h].at)]

\* INSERT INTO cargo_events
Logged(from, to, id) == [from |-> from, to |-> to, id |-> id]
Log(c, e) == log' = [log EXCEPT ![c] = Append(@, e)]

Finish(h) == req' = [req EXCEPT ![h] = Idle]

\* cargo_events.client_event_id is UNIQUE over the whole table.
Recorded(id) == \E c \in Cargo : \E i \in DOMAIN log[c] : log[c][i].id = id

\* validateAdminStatusTransition, and the lock on terminal statuses.
EditAllowed(from, to, reason) ==
    \/ reason
    \/ from \notin Terminal /\ (to \in {None, from} \/ <<from, to>> \in AdminMove)
-----------------------------------------------------------------------------
\* Administrator

\* POST /api/tours/:tourId/cargo: nobody knows the new id before COMMIT.
Create(c, s) ==
    /\ row[c].rev = 0
    /\ s \in Listed
    /\ TakeUp
    /\ row' = [row EXCEPT ![c] = [status |-> s, at |-> clock, live |-> TRUE,
                                  rev |-> 1, saves |-> 0]]
    /\ Log(c, Logged(None, s, None))
    /\ UNCHANGED <<req, clock, lost>>

\* POST /admin/save-tour, for a cargo of the tour: INSERT ... ON CONFLICT DO
\* UPDATE, deleted_at included, unless the row is newer.  The status comes from
\* the form; no revision, no event.
SaveTour(c, s) ==
    /\ row[c].at <= clock
    /\ TakeUp
    /\ row' = [row EXCEPT ![c] = [status |-> s, at |-> clock, live |-> TRUE,
                                  rev |-> IF @.rev = 0 THEN 1 ELSE @.rev,
                                  saves |-> @.saves + 1]]
    /\ lost' = lost \cup {<<c, s>>}
    /\ UNCHANGED <<log, req, clock>>

\* PATCH /api/cargo/:cargoId, up to the UPDATE; to None: no status in the body.
EditRead(h, c, s, reason) ==
    /\ row[c].live
    /\ s \in Listed \cup {None}
    /\ EditAllowed(row[c].status, s, reason)
    /\ Arrives(h, "edit", "read", c, s, reason, None)
    /\ UNCHANGED <<row, log, clock, lost>>

\* Mutant: only overrides are logged.
EditCommitQuiet(h) ==
    LET c == req[h].cargo
        s == req[h].to
    IN  /\ Is(h, "edit", "read")
        /\ WriteStatus(h, IF s = None THEN row[c].status ELSE s)
        /\ IF s \notin {None, req[h].saw} /\ req[h].reason
             THEN Log(c, Logged(req[h].saw, s, None))
             ELSE UNCHANGED log
        /\ Finish(h)
        /\ UNCHANGED <<clock, served, lost>>

\* UPDATE ... WHERE id, with COALESCE(status); the event if the status differs
\* from the one read; COMMIT.
EditCommit(h) ==
    LET c == req[h].cargo
        s == req[h].to
    IN  /\ Is(h, "edit", "read")
        /\ WriteStatus(h, IF s = None THEN row[c].status ELSE s)
        /\ IF s \notin {None, req[h].saw}
             THEN Log(c, Logged(req[h].saw, s, None))
             ELSE UNCHANGED log
        /\ Finish(h)
        /\ UNCHANGED <<clock, served, lost>>

\* DELETE /api/cargo/:cargoId: three statements, no transaction.
DeleteRead(h, c) ==
    /\ row[c].live
    /\ row[c].status \notin NonDeletable
    /\ Arrives(h, "delete", "read", c, None, FALSE, None)
    /\ UNCHANGED <<row, log, clock, lost>>

DeleteMark(h) ==
    LET c == req[h].cargo
    IN  /\ Is(h, "delete", "read")
        /\ row' = [row EXCEPT ![c] =
              [Updated(@, @.status, req[h].at) EXCEPT !.live = FALSE]]
        /\ req' = [req EXCEPT ![h].stage = "unlogged"]
        /\ UNCHANGED <<log, clock, served, lost>>

\* POST /api/cargo/:cargoId/resolve: three statements, no transaction.
ResolveRead(h, c, s) ==
    /\ row[c].live
    /\ s \in Status
    /\ Arrives(h, "resolve", "read", c, s, TRUE, None)
    /\ UNCHANGED <<row, log, clock, lost>>

ResolveWrite(h) ==
    /\ Is(h, "resolve", "read")
    /\ WriteStatus(h, req[h].to)
    /\ req' = [req EXCEPT ![h].stage = "unlogged"]
    /\ UNCHANGED <<log, clock, served, lost>>

\* The last statement of delete (whose event names no status) and resolve.
WriteEvent(h) ==
    /\ req[h].stage = "unlogged"
    /\ Log(req[h].cargo, Logged(IF req[h].kind = "resolve" THEN req[h].saw ELSE None,
                                req[h].to, None))
    /\ Finish(h)
    /\ UNCHANGED <<row, clock, served, lost>>
-----------------------------------------------------------------------------
\* Driver

\* transitionCargo up to the search for client_event_id: a known one is
\* answered with the row as it is.
TransitionArrive(h, c, s, id) ==
    /\ row[c].live
    /\ id = None \/ ~Recorded(id)
    /\ Arrives(h, "transition", "begun", c, s, FALSE, id)
    /\ UNCHANGED <<row, log, clock, lost>>

\* SELECT status ... WHERE deleted_at IS NULL, and the check of fromStatuses.
TransitionRead(h) ==
    LET c == req[h].cargo
    IN  /\ Is(h, "transition", "begun")
        /\ IF row[c].live /\ <<row[c].status, req[h].to>> \in DriverMove
             THEN req' = [req EXCEPT ![h].stage = "read", ![h].saw = row[c].status,
                                     ![h].rev = row[c].rev, ![h].saves = row[c].saves]
             ELSE Finish(h)
        /\ UNCHANGED <<row, log, clock, served, lost>>

\* Mutant: client_event_id without UNIQUE.
TransitionCommitTwice(h) ==
    /\ Is(h, "transition", "read")
    /\ WriteStatus(h, req[h].to)
    /\ Log(req[h].cargo, Logged(req[h].saw, req[h].to, req[h].id))
    /\ Finish(h)
    /\ UNCHANGED <<clock, served, lost>>

\* UPDATE ... WHERE id, the event, COMMIT; a client_event_id that another
\* request committed meanwhile violates UNIQUE and rolls all of it back.
TransitionCommit(h) ==
    /\ Is(h, "transition", "read")
    /\ IF req[h].id # None /\ Recorded(req[h].id)
         THEN UNCHANGED <<row, log>>
         ELSE /\ WriteStatus(h, req[h].to)
              /\ Log(req[h].cargo, Logged(req[h].saw, req[h].to, req[h].id))
    /\ Finish(h)
    /\ UNCHANGED <<clock, served, lost>>

\* Mutant: the phone's change is applied however old it is.
SyncReadStale(h, c, s, t) ==
    /\ row[c].live
    /\ s # row[c].status
    /\ <<row[c].status, s>> \in DriverMove
    /\ req[h].stage = "idle"
    /\ TakeUp
    /\ req' = [req EXCEPT ![h] =
          [kind |-> "sync", stage |-> "read", cargo |-> c, to |-> s, reason |-> FALSE,
           id |-> None, at |-> t, saw |-> row[c].status, rev |-> row[c].rev,
           saves |-> row[c].saves]]
    /\ UNCHANGED <<row, log, clock, lost>>

\* loadTourCargo, and the checks of applyMobileCargoTransition on what it
\* returned: the phone's change, made at t, is no older than the row and legal.
SyncRead(h, c, s, t) ==
    /\ row[c].live
    /\ t >= row[c].at
    /\ s # row[c].status
    /\ <<row[c].status, s>> \in DriverMove
    /\ req[h].stage = "idle"
    /\ TakeUp
    /\ req' = [req EXCEPT ![h] =
          [kind |-> "sync", stage |-> "read", cargo |-> c, to |-> s, reason |-> FALSE,
           id |-> None, at |-> t, saw |-> row[c].status, rev |-> row[c].rev,
           saves |-> row[c].saves]]
    /\ UNCHANGED <<row, log, clock, lost>>

\* UPDATE ... WHERE deleted_at IS NULL; the event, whether or not a row was
\* updated; COMMIT of the whole sync.
SyncCommit(h) ==
    LET c == req[h].cargo
    IN  /\ Is(h, "sync", "read")
        /\ IF row[c].live THEN WriteStatus(h, req[h].to) ELSE UNCHANGED row
        /\ Log(c, Logged(req[h].saw, req[h].to, None))
        /\ Finish(h)
        /\ UNCHANGED <<clock, served, lost>>
-----------------------------------------------------------------------------
\* A statement fails or the process dies: a transaction rolls back, what was
\* autocommitted stays.
Abandon(h) ==
    /\ req[h].stage # "idle"
    /\ lost' = IF req[h].stage = "unlogged"
                 THEN lost \cup {<<req[h].cargo, req[h].to>>}
                 ELSE lost
    /\ Finish(h)
    /\ UNCHANGED <<row, log, clock, served>>

Tick ==
    /\ clock < MaxClock
    /\ clock' = clock + 1
    /\ UNCHANGED <<row, log, req, served, lost>>

AdminStep(h) ==
    \/ \E c \in Cargo, s \in AdminTo \cup {None}, reason \in BOOLEAN : EditRead(h, c, s, reason)
    \/ EditCommit(h)
    \/ \E c \in Cargo : DeleteRead(h, c)
    \/ DeleteMark(h)
    \/ \E c \in Cargo, s \in AdminTo : ResolveRead(h, c, s)
    \/ ResolveWrite(h)
    \/ WriteEvent(h)

DriverStep(h) ==
    \/ \E c \in Cargo, s \in DriverTo, id \in EventId \cup {None} : TransitionArrive(h, c, s, id)
    \/ TransitionRead(h)
    \/ TransitionCommit(h)
    \/ \E c \in Cargo, s \in DriverTo, t \in 1 .. MaxClock : SyncRead(h, c, s, t)
    \/ SyncCommit(h)

Next ==
    \/ \E c \in Cargo, s \in AdminTo : Create(c, s) \/ SaveTour(c, s)
    \/ \E h \in Request : AdminStep(h) \/ DriverStep(h) \/ Abandon(h)
    \/ Tick

Spec == Init /\ [][Next]_vars
-----------------------------------------------------------------------------
\* Properties

TypeOK ==
    /\ row \in [Cargo -> Row]
    /\ \A c \in Cargo : row[c].rev > 0 => row[c].status \in Status
    /\ log \in [Cargo -> Seq(Event)]
    /\ req \in [Request -> Req]
    /\ clock \in 1 .. MaxClock
    /\ served \in 0 .. MaxServed
    /\ lost \subseteq Cargo \X (Status \cup {None})

\* A driver's request is applied at most once however often the phone repeats
\* it, the repetitions overlapping or not: its client_event_id occurs once in
\* all of cargo_events.
EventIdRecordedOnce ==
    \A c, d \in Cargo : \A i \in DOMAIN log[c], j \in DOMAIN log[d] :
        log[c][i].id = log[d][j].id /\ log[c][i].id # None => c = d /\ i = j

\* An event of c names s; or a resolve has written s and not yet its event, or
\* died there; or the tour editor wrote s.
Accounted(c, s) ==
    \/ \E i \in DOMAIN log[c] : log[c][i].to = s
    \/ \E h \in Request :
          Is(h, "resolve", "unlogged") /\ req[h].cargo = c /\ req[h].to = s
    \/ <<c, s>> \in lost

\* The audit log accounts for the status of every cargo row, except where a
\* resolve was cut off between its UPDATE and its INSERT, or the tour editor
\* wrote that status.
StatusIsOnRecord == \A c \in Cargo : row[c].rev > 0 => Accounted(c, row[c].status)

\* No event of a live cargo is invented or written twice: there is a write to
\* the row for each.  (A sync that loses the race against a delete logs a
\* change it did not make, so deleted rows are excepted, and those the tour
\* editor saved, which brings deleted rows back.)
EventsAreBackedByWrites ==
    \A c \in Cargo : row[c].live /\ row[c].saves = 0 => Len(log[c]) <= row[c].rev

\* The log and the rows agree: what a row says has an event, and what an event
\* says was written, but for the exceptions above.
LogAndRowsAgree == StatusIsOnRecord /\ EventsAreBackedByWrites

Reading(h) == req[h].stage = "read"
Unraced(h) ==
    /\ row[req[h].cargo].rev = req[h].rev
    /\ row[req[h].cargo].saves = req[h].saves

\* The revision tells every race but those with the tour editor: if the row
\* still has the revision a request read, and the editor did not save it, it is
\* live, has the status the request checked, and was not touched after the
\* phone's change that sync applies.
SeenRevisionMeansSeenRow ==
    \A h \in Request : Reading(h) /\ Unraced(h) =>
        LET r == row[req[h].cargo]
        IN  /\ r.live
            /\ r.status = req[h].saw
            /\ req[h].kind = "sync" => req[h].at >= r.at

\* What a write may do to the row it was checked against.
Legal(h, old, new) ==
    /\ old.live
    /\ req[h].kind \in {"transition", "sync"} =>
          new.live /\ <<old.status, new.status>> \in DriverMove
    /\ req[h].kind = "sync" => new.at >= old.at
    /\ req[h].kind = "edit" =>
          /\ new.live
          /\ ~req[h].reason => /\ old.status \notin Terminal
                               /\ \/ new.status = old.status
                                  \/ <<old.status, new.status>> \in AdminMove
    /\ req[h].kind = "delete" => old.status \notin NonDeletable /\ new.status = old.status
    /\ req[h].kind = "resolve" => new.live

\* Every rule of the life cycle (the drivers' table, the administrators' table,
\* the lock on terminal statuses, what may be deleted, newest change wins) can
\* be broken only by a request that overlapped another writer of its row.
UnracedWritesAreLegal ==
    [][\A h \in Request : LET c == req[h].cargo IN
          Reading(h) /\ req'[h] # req[h] /\ Unraced(h) /\ row'[c] # row[c]
          => Legal(h, row[c], row'[c])]_vars
=============================================================================
