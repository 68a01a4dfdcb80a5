---------------------------- MODULE CurrentTour ----------------------------
(***************************************************************************)
(* Which tour is a driver's current one: the driver's choice               *)
(* (current-tour.routes.js), the save of a tour by the office or a phone   *)
(* (import-engine.js) and its transfer to another driver                   *)
(* (admin-transfer-tour.routes.js) mark it with set_current_tour           *)
(* (schema-contract.js), on the connections of the pool. The tour form of  *)
(* the office (tour-core.routes.js), the generic sync (sync.routes.js), a  *)
(* driver's new name (driver.routes.js) and the seeds (dev-seed.routes.js, *)
(* db-seed.js) write driver_name or is_current without it, directly.       *)
(*                                                                         *)
(* A deleted tour (deleted_at) stays a row, set_current_tour clears it as  *)
(* well; only a reset (dev-reset.routes.js) removes the rows.              *)
(*                                                                         *)
(* An UPDATE finds its rows among the committed ones and its own, waits    *)
(* for those another transaction has written, and looks at them again.     *)
(***************************************************************************)
EXTENDS Naturals

CONSTANTS Drivers, Tours, Conns, MaxJobs

VARIABLES tours, \* committed rows: [driver, current]
          conn,  \* its transaction: open, put, and whether an answered request wrote in it
          job,   \* the request that uses the connection
          jobs,
          \* History, read by no action:
          leaked, \* a transaction was left open on a connection of the pool
          swallowed, \* a failure of set_current_tour was caught inside a transaction
          lostWrites, \* an answered write was rolled back
          mixed,  \* requests overlapped, or one ran in a transaction left open
          doubled \* drivers whom a direct write left with two current tours, until they are asked for one

currentVars == <<tours, conn, job, jobs, leaked, swallowed, lostWrites, mixed, doubled>>

NoJob == [step |-> "none"]
Clean == [open |-> FALSE, put |-> <<>>, answered |-> FALSE]
\* marks: the request calls set_current_tour, todo: rows that it has to clear.
\* A request of kind "direct" does not call it whatever it writes.
Task(step, kind, d, t, marks) ==
    [step |-> step, kind |-> kind, driver |-> d, tour |-> t, marks |-> marks, todo |-> {}]

CurrentTypeOK ==
    /\ DOMAIN tours \subseteq Tours /\ \A t \in DOMAIN tours : tours[t] \in [driver : Drivers, current : BOOLEAN]
    /\ \A c \in Conns : conn[c].put # <<>> => job[c] # NoJob \/ conn[c].open

\* A row that the transaction deletes
Gone == [gone |-> TRUE]
View(c) ==
    LET put == conn[c].put
        rows == [t \in DOMAIN put \cup DOMAIN tours |-> IF t \in DOMAIN put THEN put[t] ELSE tours[t]]
    IN  [t \in {u \in DOMAIN rows : rows[u] # Gone} |-> rows[t]]
FreeFor(c, t) == \A o \in Conns \ {c} : t \notin DOMAIN conn[o].put
Puts(c, t, new) ==
    conn' = [conn EXCEPT ![c].put = [u \in DOMAIN @ \cup {t} |-> IF u = t THEN new ELSE @[u]]]
Goes(c, step) == job' = [job EXCEPT ![c].step = step]
Rest == UNCHANGED <<tours, jobs, leaked, swallowed, lostWrites, mixed, doubled>>

-----------------------------------------------------------------------------
(* Requests *)

Comes(c, j) ==
    /\ job[c] = NoJob /\ jobs < MaxJobs /\ jobs' = jobs + 1
    /\ mixed' = (mixed \/ \E o \in Conns : job[o] # NoJob \/ conn[o].open)
    /\ job' = [job EXCEPT ![c] = j]
    /\ UNCHANGED <<tours, leaked, swallowed, doubled>>
Begins(c) == conn' = [conn EXCEPT ![c].open = TRUE]

\* POST /api/set-current-tour, one query of the pool. Without a tour it compares
\* with NULL and writes nothing. The tour is the driver's by driver_uuid, and may
\* carry another name: the tour form writes that one only.
Choose(c, d, t) ==
    /\ t \in DOMAIN View(c)
    /\ Comes(c, Task("clear", "choose", d, t, TRUE))
    /\ UNCHANGED <<conn, lostWrites>>

\* processTour writes the tour, as the current one or not. So does POST /api/tours,
\* for a new one that is not.
SaveTour(c, d, t, current) ==
    /\ Comes(c, Task("save", "save", d, t, current)) /\ Begins(c)
    /\ UNCHANGED lostWrites
\* The phone's sync of a tour that the server has leaves the row, and marks it.
SyncTour(c, d, t) ==
    /\ t \in DOMAIN View(c)
    /\ Comes(c, Task("clear", "save", d, t, TRUE)) /\ Begins(c)
    /\ UNCHANGED lostWrites

TransferTour(c, d, t) ==
    /\ Comes(c, Task("read", "transfer", d, t, FALSE)) /\ Begins(c)
    /\ UNCHANGED lostWrites
\* The return for a missing field is between BEGIN and COMMIT.
TransferRefused(c) ==
    /\ job[c] = NoJob /\ Begins(c)
    /\ leaked' = TRUE /\ UNCHANGED <<tours, job, jobs, swallowed, lostWrites, mixed, doubled>>

\* PATCH /api/tours/:id: any driver_name, for a tour that is current or not
PatchTour(c, d, t) ==
    /\ Comes(c, Task("move", "direct", d, t, FALSE)) /\ Begins(c)
    /\ UNCHANGED lostWrites
\* A tour in a push of the generic sync becomes its sender's, is_current as the
\* record says: TRUE, FALSE, or nothing.
PushTour(c, d, t) ==
    /\ \E step \in {"insert", "save", "move"} : Comes(c, Task(step, "direct", d, t, FALSE))
    /\ Begins(c)
    /\ UNCHANGED lostWrites
\* The demo tour of each demo driver, or of the mint driver, or a developer's own:
\* a current tour
SeedTour(c, d, t) ==
    /\ Comes(c, Task("insert", "direct", d, t, FALSE)) /\ Begins(c)
    /\ UNCHANGED lostWrites
\* A driver's new name. No other driver has it, a tour that was given to the name
\* may.
Rename(c, old, new) ==
    /\ old # new
    /\ Comes(c, [step |-> "rename", kind |-> "direct", driver |-> new, old |-> old]) /\ Begins(c)
    /\ UNCHANGED lostWrites
ResetDatabase(c) == Comes(c, [step |-> "delete", kind |-> "reset", marks |-> FALSE]) /\ Begins(c) /\ UNCHANGED lostWrites

-----------------------------------------------------------------------------
(* Statements *)

CommitsMoved(marks) == "commit"
AfterMove(marks) == IF marks THEN "clear" ELSE "commit"

Save(c) ==
    LET j == job[c] IN
    /\ j.step = "save" /\ FreeFor(c, j.tour)
    /\ Puts(c, j.tour, [driver |-> j.driver, current |-> j.marks]) /\ Goes(c, AfterMove(j.marks)) /\ Rest

Insert(c) ==
    LET j == job[c] IN
    /\ j.step = "insert" /\ j.tour \notin DOMAIN View(c) /\ FreeFor(c, j.tour)
    /\ Puts(c, j.tour, [driver |-> j.driver, current |-> TRUE]) /\ Goes(c, "commit") /\ Rest
\* scripts/db-seed.js and the generic sync know their tours again.
UpsertTour(c) ==
    LET j == job[c] IN
    /\ j.step = "insert" /\ j.tour \in DOMAIN View(c) /\ FreeFor(c, j.tour)
    /\ Puts(c, j.tour, [driver |-> j.driver, current |-> TRUE]) /\ Goes(c, "commit") /\ Rest
\* DELETE FROM tours, after what refers to them
DeleteAll(c) ==
    /\ job[c].step = "delete" /\ \A t \in DOMAIN tours : FreeFor(c, t)
    /\ conn' = [conn EXCEPT ![c].put = [t \in DOMAIN tours |-> Gone]] /\ Goes(c, "commit") /\ Rest

ReadTour(c) ==
    LET j == job[c] IN
    /\ j.step = "read" /\ j.tour \in DOMAIN View(c)
    /\ job' = [job EXCEPT ![c].step = "move", ![c].marks = View(c)[j.tour].current]
    /\ UNCHANGED conn /\ Rest

\* The tour form answers 404 and rolls back when the tour is gone.
Move(c) ==
    LET j == job[c] IN
    /\ j.step = "move" /\ FreeFor(c, j.tour)
    /\ j.kind = "direct" => j.tour \in DOMAIN View(c)
    /\ IF j.tour \in DOMAIN View(c)
       THEN Puts(c, j.tour, [View(c)[j.tour] EXCEPT !.driver = j.driver]) ELSE UNCHANGED conn
    /\ Goes(c, AfterMove(j.marks)) /\ Rest

\* UPDATE tours SET driver_name = new WHERE driver_name = old
RenameTours(c) ==
    LET j == job[c]
        his == {t \in DOMAIN View(c) : View(c)[t].driver = j.old}
    IN
    /\ j.step = "rename" /\ \A t \in his : FreeFor(c, t)
    /\ conn' = [conn EXCEPT ![c].put = [t \in DOMAIN @ \cup his |->
                                            IF t \in his THEN [View(c)[t] EXCEPT !.driver = j.driver] ELSE @[t]]]
    /\ Goes(c, "commit") /\ Rest

\* set_current_tour: first the driver's other tours, then the tour.
Clear(c) ==
    LET j == job[c] IN
    /\ j.step = "clear"
    /\ job' = [job EXCEPT ![c].step = "clearing",
                           ![c].todo = {t \in DOMAIN View(c) \ {j.tour} : View(c)[t].driver = j.driver}]
    /\ UNCHANGED conn /\ Rest
ClearRow(c, t) ==
    LET j == job[c] IN
    /\ j.step = "clearing" /\ t \in j.todo /\ FreeFor(c, t)
    /\ IF t \in DOMAIN View(c) /\ View(c)[t].driver = j.driver THEN Puts(c, t, [View(c)[t] EXCEPT !.current = FALSE]) ELSE UNCHANGED conn
    /\ job' = [job EXCEPT ![c].todo = @ \ {t}] /\ Rest
Mark(c) ==
    LET j == job[c]
        mine == j.tour \in DOMAIN View(c) /\ View(c)[j.tour].driver = j.driver
    IN
    /\ j.step = "clearing" /\ j.todo = {}
    /\ mine => FreeFor(c, j.tour)
    /\ IF mine THEN Puts(c, j.tour, [View(c)[j.tour] EXCEPT !.current = TRUE]) ELSE UNCHANGED conn
    /\ Goes(c, "commit") /\ Rest

\* Drivers with two current tours
Two(rows) ==
    {d \in Drivers : \E t, u \in DOMAIN rows :
        t # u /\ rows[t] = [driver |-> d, current |-> TRUE] /\ rows[u] = rows[t]}

\* Whom the committed request leaves with two after direct writes
Doubled(j, rows) ==
    Two(rows) \cap (IF j.kind = "direct" THEN doubled \cup {j.driver}
                    ELSE IF j.marks THEN doubled \ {j.driver} ELSE doubled)

\* A query outside a transaction commits by itself, in one that was left open
\* it does not: the request is answered all the same.
Commit(c) ==
    /\ job[c].step = "commit" /\ job' = [job EXCEPT ![c] = NoJob]
    /\ IF job[c].kind = "choose" /\ conn[c].open
       THEN conn' = [conn EXCEPT ![c].answered = TRUE] /\ UNCHANGED tours
       ELSE tours' = View(c) /\ conn' = [conn EXCEPT ![c] = Clean]
    /\ doubled' = Doubled(job[c], View(c))
    /\ UNCHANGED <<jobs, leaked, swallowed, lostWrites, mixed>>

\* The catch of a handler with a transaction
LeftOpen(c) == conn[c]
RolledBack(c) == Clean
\* A query fails: the victim of a deadlock, say, or a tour that is not there.
\* The pool closes the connection of a query of its own that failed.
QueryFails(c) ==
    LET j == job[c] IN
    /\ j # NoJob /\ job' = [job EXCEPT ![c] = NoJob]
    /\ conn' = [conn EXCEPT ![c] = IF j.kind = "choose" THEN Clean ELSE RolledBack(c)]
    /\ lostWrites' = (lostWrites \/ conn[c].answered)
    /\ UNCHANGED <<tours, jobs, leaked, swallowed, mixed, doubled>>

\* processTour goes on when set_current_tour fails; for a tour without cargo no
\* query follows that would fail too, COMMIT rolls back, and the answer is 200.
FailureSwallowed(c) ==
    /\ job[c].step \in {"clear", "clearing"} /\ job[c].kind = "save"
    /\ job' = [job EXCEPT ![c] = NoJob] /\ conn' = [conn EXCEPT ![c] = Clean]
    /\ swallowed' = TRUE /\ lostWrites' = TRUE
    /\ UNCHANGED <<tours, jobs, leaked, mixed, doubled>>

\* The pool closes a connection that was idle for long.
IdleClosed(c) ==
    /\ job[c] = NoJob /\ conn[c].open /\ conn' = [conn EXCEPT ![c] = Clean]
    /\ lostWrites' = (lostWrites \/ conn[c].answered)
    /\ UNCHANGED <<tours, job, jobs, leaked, swallowed, mixed, doubled>>

\* Every driver may have a tour that is the current one.
CurrentInit ==
    /\ \E old \in SUBSET Tours : tours \in [old -> [driver : Drivers, current : BOOLEAN]]
    /\ \A t, u \in DOMAIN tours :
          tours[t].current /\ tours[u].current /\ tours[t].driver = tours[u].driver => t = u
    /\ conn = [c \in Conns |-> Clean] /\ job = [c \in Conns |-> NoJob] /\ jobs = 0
    /\ leaked = FALSE /\ swallowed = FALSE /\ lostWrites = FALSE /\ mixed = FALSE /\ doubled = {}

CurrentNext ==
    \E c \in Conns :
       \/ TransferRefused(c) \/ IdleClosed(c) \/ ResetDatabase(c) \/ Insert(c) \/ UpsertTour(c) \/ DeleteAll(c)
       \/ Save(c) \/ ReadTour(c) \/ Move(c) \/ RenameTours(c) \/ Clear(c) \/ Mark(c)
       \/ Commit(c) \/ QueryFails(c) \/ FailureSwallowed(c)
       \/ \E t \in Tours : ClearRow(c, t)
       \/ \E old, new \in Drivers : Rename(c, old, new)
       \/ \E d \in Drivers, t \in Tours :
             \/ Choose(c, d, t) \/ SyncTour(c, d, t) \/ TransferTour(c, d, t)
             \/ PatchTour(c, d, t) \/ PushTour(c, d, t) \/ SeedTour(c, d, t)
             \/ \E current \in BOOLEAN : SaveTour(c, d, t, current)

CurrentSpec == CurrentInit /\ [][CurrentNext]_currentVars

(* As long as the requests do not overlap, a driver has two current tours only
   after a request that gave them one without set_current_tour (the tour form, the
   generic sync, a new name, a seed), and until their next choice, save or
   transfer. An overlap of a transfer or a new tour with a choice may leave two as
   well (schema-contract.js 245-252, admin-transfer-tour.routes.js 14-26,
   tour-core.routes.js 329, sync.routes.js 346-350, driver.routes.js 228,
   dev-seed.routes.js 83-85, db-seed.js 69). *)
OneCurrentTour == ~mixed => Two(tours) \subseteq doubled

(* An answered write is rolled back only after a transfer without its fields,
   which gives its connection back inside a transaction, or when a save caught
   the failure of set_current_tour and committed an aborted transaction
   (admin-transfer-tour.routes.js 13, 34; import-engine.js 113-125). *)
AnsweredWritesAreKept ==
    /\ lostWrites => leaked \/ swallowed
    /\ ~leaked => \A c \in Conns : conn[c].open => job[c] # NoJob

=============================================================================
