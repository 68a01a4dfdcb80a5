---------------------------- MODULE TourProgress ----------------------------
(***************************************************************************)
(* A tour, its stops, and how both get done: the driver's arrive, complete *)
(* and location, the dispatcher's stop table and tour form, the route      *)
(* recalculation behind them (routes/tour-core.routes.js), the phone's     *)
(* bulk sync and the dashboard's tour editor (engines/import-engine.js,    *)
(* routes/sync-tour, admin-save-tour, admin-tour), the live update that    *)
(* closes a stop on its own (engines/status-engine.js), the hotel form     *)
(* that can write to a stop (routes/hotel.routes.js), and the cargo and    *)
(* hotels that hold a stop or the tour open (engines/cargo-lifecycle.js,   *)
(* engines/hotel-engine.js).                                               *)
(*                                                                         *)
(* A request is cut at its statements.  PostgreSQL at READ COMMITTED: a    *)
(* statement sees the committed rows and the transaction's own, and a      *)
(* write waits until no other transaction has written the row.  own[h] is  *)
(* what h wrote and has not committed; to hold a row is to have it there.  *)
(* A statement over several rows takes them at once.                       *)
(***************************************************************************)
EXTENDS Integers, Sequences, FiniteSets

CONSTANTS Stops, Cargo, Hotels,
          Pickup, Delivery,  \* cargo -> the stop it is picked up, delivered at
          Copies,            \* stop_status and is_completed as a phone can have them
          Request,           \* requests that can be in progress at the same time
          Start,             \* the rows to start from
          MaxServed,         \* bound: requests ever taken up
          MaxChanges         \* bound: changes of cargo and hotels by their own routes

Tour == "tour"
Rows == {Tour} \cup Stops \cup Cargo \cup Hotels

\* CANCELLED, which no rule below tests, is left out; so are the statuses of
\* stops, cargo and hotels that every rule treats like one of these.
TourStatus == {"PLANNED", "IN_PROGRESS", "COMPLETED"}
StopStatus == {"PENDING", "ARRIVED", "COMPLETED", "SKIPPED"}
CargoStatus == {"PLANNED", "PICKED_UP", "DELIVERED", "DAMAGED"}
HotelStatus == {"BOOKED", "CHECKED_IN", "CHECKED_OUT"}
Life == {"new", "live", "gone"}

VARIABLES db,      \* the committed rows
          own,     \* per request, the rows it wrote and holds
          req,     \* the requests in progress
          served, changes,
          accepted \* history: completed stops whose driver was told it is saved

vars == <<db, own, req, served, changes, accepted>>

TourRow == [life : Life, status : TourStatus]
StopRow == [life : Life, status : StopStatus, done : BOOLEAN, order : Nat]
RowType(r) == CASE r = Tour -> TourRow
                [] r \in Stops -> StopRow
                [] r \in Cargo -> CargoStatus
                [] r \in Hotels -> HotelStatus

ASSUME TourAssumption ==
    /\ IsFiniteSet(Stops) /\ IsFiniteSet(Request)
    /\ Pickup \in [Cargo -> Stops] /\ Delivery \in [Cargo -> Stops]
    /\ Stops \cap (Cargo \cup Hotels) = {} /\ Cargo \cap Hotels = {}
    /\ Tour \notin Stops \cup Cargo \cup Hotels
    /\ \A f \in Start : DOMAIN f = Rows /\ \A r \in Rows : f[r] \in RowType(r)
    /\ Copies \subseteq StopStatus \X BOOLEAN
    /\ MaxServed \in Nat /\ MaxChanges \in Nat

\* put, item: the stops and cargo the request names, and the status for each.
\* marked: those of the stops that a sync sends as is_completed.
\* was, seen: the tour status refreshProgress read, and the one to be written.
\* prior: the stops as sync first read them.  stock: the cargo and hotels as
\* its checks read them.
Idle == [op |-> "none", pc |-> "idle", put |-> << >>, item |-> << >>, todo |-> << >>,
         was |-> "PLANNED", seen |-> "PLANNED", yes |-> FALSE, marked |-> {},
         prior |-> << >>, stock |-> << >>]

Recalculating == {"patchStop", "deleteStop", "addStop", "reorder", "recalculate"}
Marking == {"arrive", "complete"}
Op == {"none", "location", "live", "patchTour", "sync", "syncDelete", "save", "deleteTour"}
      \cup Recalculating \cup Marking

-----------------------------------------------------------------------------
\* Rows and locks

View(h) == [r \in Rows |-> IF r \in DOMAIN own[h] THEN own[h][r] ELSE db[r]]
With(f, r, v) == [x \in DOMAIN f \cup {r} |-> IF x = r THEN v ELSE f[x]]
Free(h, r) == \A g \in Request \ {h} : r \notin DOMAIN own[g]

\* normalizeStop
IsCompleted(s) == s.done \/ s.status = "COMPLETED"

\* The stops of a request whose driver is told, at its end, that they are done.
Completing(q, s) ==
    s \in DOMAIN q.put /\ (q.op = "complete" \/ (q.op = "sync" /\ s \in q.marked))

Hold(h, r, v) == own' = [own EXCEPT ![h] = With(@, r, v)]
Go(h, pc) == req' = [req EXCEPT ![h].pc = pc]
Committed(f) == [r \in Rows |-> IF r \in DOMAIN f THEN f[r] ELSE db[r]]
Commit(h, f) ==
    /\ db' = Committed(f)
    /\ own' = [own EXCEPT ![h] = << >>]
    /\ req' = [req EXCEPT ![h] = Idle]
    /\ accepted' = {s \in accepted : IsCompleted(Committed(f)[s])} \cup
           {s \in DOMAIN req[h].put : Completing(req[h], s) /\ IsCompleted(f[s])}
\* ROLLBACK, or an answer before anything was written
Abort(h) ==
    /\ own' = [own EXCEPT ![h] = << >>]
    /\ req' = [req EXCEPT ![h] = Idle]
    /\ UNCHANGED <<db, accepted>>

At(h, pc) == req[h].pc = pc /\ UNCHANGED <<served, changes>>

LiveStops(v) == {s \in Stops : v[s].life = "live"}
\* ORDER BY order_index, id
RouteOrder(v) ==
    CHOOSE q \in [1 .. Cardinality(LiveStops(v)) -> LiveStops(v)] :
        /\ {q[i] : i \in DOMAIN q} = LiveStops(v)
        /\ \A i, j \in DOMAIN q : i < j => v[q[i]].order <= v[q[j]].order

-----------------------------------------------------------------------------
\* The rules

Closed == {"COMPLETED", "SKIPPED"}
IsDone(s) == s.done \/ s.status \in Closed

\* checkCargoBlocking with a stop
BlocksStop(v, c, s) ==
    \/ Pickup[c] = s /\ v[c] = "PLANNED"
    \/ Delivery[c] = s /\ v[c] = "PICKED_UP"
\* Mutant: damaged cargo is taken for delivered.
BlocksTourUndelivered(v, c) == v[c] \in {"PLANNED", "PICKED_UP"}
\* checkCargoBlocking without one
BlocksTour(v, c) == v[c] \in {"PLANNED", "PICKED_UP", "DAMAGED"}
HotelBlocks(v, x) == v[x] = "CHECKED_IN"

DriverMove == {<<"PLANNED", "PICKED_UP">>, <<"PICKED_UP", "DELIVERED">>,
               <<"PLANNED", "DAMAGED">>, <<"PICKED_UP", "DAMAGED">>}

\* refreshProgress: the status to write, before the checks of a completion
Progressed(v) ==
    IF v[Tour].status = "PLANNED"
       /\ \E s \in LiveStops(v) : IsCompleted(v[s]) \/ v[s].status = "ARRIVED"
    THEN "IN_PROGRESS" ELSE v[Tour].status
MayComplete(v) == v[Tour].status = "IN_PROGRESS" /\ \A s \in LiveStops(v) : IsDone(v[s])

OutOfSequence(v) ==
    \E c \in Cargo : /\ v[Pickup[c]].life # "new" /\ v[Delivery[c]].life # "new"
                     /\ v[Delivery[c]].order < v[Pickup[c]].order

\* Mutant: last writer wins.
MergedLast(old, new, done) == [old EXCEPT !.done = done, !.status = new]

\* processTour of a phone: a stop only moves forward
Merged(old, new, done) ==
    [old EXCEPT !.done = @ \/ done,
                !.status = IF @ \in Closed THEN @ ELSE IF new = "PENDING" THEN @ ELSE new]

-----------------------------------------------------------------------------
\* The start of a request

Begin(h, r) ==
    /\ req[h] = Idle /\ served < MaxServed
    /\ served' = served + 1
    /\ req' = [req EXCEPT ![h] = r]
    /\ UNCHANGED <<db, own, changes, accepted>>

Plain(op, pc, put) == [Idle EXCEPT !.op = op, !.pc = pc, !.put = put]
Each(S, x) == [s \in S |-> x]
\* The order in which the statements of h reach the stops it names.
Listed(S) == CHOOSE q \in [1 .. Cardinality(S) -> S] : {q[i] : i \in DOMAIN q} = S
OnStops(op, pc, put) == [Plain(op, pc, put) EXCEPT !.todo = Listed(DOMAIN put)]

\* POST /api/tours
CreateTour(st) ==
    /\ db[Tour].life = "new" /\ served < MaxServed
    /\ \A h \in Request : Tour \notin DOMAIN own[h]
    /\ db' = [db EXCEPT ![Tour] = [life |-> "live", status |-> st]]
    /\ served' = served + 1
    /\ UNCHANGED <<own, req, changes, accepted>>

\* markStop
Arrive(h, s) == db[Tour].life = "live" /\ Begin(h, OnStops("arrive", "stops", Each({s}, "ARRIVED")))
Complete(h, s) == db[Tour].life = "live" /\ Begin(h, OnStops("complete", "gate", Each({s}, "COMPLETED")))

\* updateStatus, for a driver who has been standing near a stop of the current
\* tour that is not completed yet
LiveUpdate(h, s) ==
    /\ db[Tour].life = "live" /\ db[s].life = "live" /\ ~db[s].done
    /\ Begin(h, OnStops("live", "stops", Each({s}, "PENDING")))

Location(h) == db[Tour].life = "live" /\ Begin(h, Plain("location", "read", << >>))

\* The dispatcher's pages send back every field they were opened with: "form"
\* lasts from loading the page to pressing the button.
PatchTour(h) ==
    Begin(h, [Plain("patchTour", "form", << >>) EXCEPT !.seen = db[Tour].status])
PatchStop(h, s) ==
    db[s].life = "live" /\ Begin(h, OnStops("patchStop", "form", Each({s}, db[s].status)))
Save(h) ==
    Begin(h, [OnStops("save", "form", Each(LiveStops(db), "PENDING"))
                  EXCEPT !.item = [c \in Cargo |-> db[c]]])

DeleteStop(h, s) == Begin(h, OnStops("deleteStop", "stops", Each({s}, "PENDING")))
AddStop(h, s) == db[s].life = "new" /\ Begin(h, OnStops("addStop", "stops", Each({s}, "PENDING")))
\* orderedStopIds
Reorder(h) ==
    \E q \in [1 .. Cardinality(LiveStops(db)) -> LiveStops(db)] :
        /\ q # << >> /\ {q[i] : i \in DOMAIN q} = LiveStops(db)
        /\ Begin(h, [Plain("reorder", "stops", Each(LiveStops(db), "PENDING")) EXCEPT !.todo = q])
Recalculate(h) == Begin(h, Plain("recalculate", "plan", << >>))

\* The phone sends its copy of the tour, one stop of it advanced: by the driver,
\* or as the phone once pulled it, with both columns as they were then.
Sync(h) ==
    \E s \in Stops, copy \in Copies, C \in SUBSET Cargo, to \in {"PICKED_UP", "DELIVERED"} :
        Begin(h, [OnStops("sync", "prior", With(Each(LiveStops(db), "PENDING"), s, copy[1]))
                      EXCEPT !.item = Each(C, to), !.marked = IF copy[2] THEN {s} ELSE {},
                             !.yes = db[Tour].life # "new"])
SyncDelete(h) == Begin(h, Plain("syncDelete", "all", << >>))
DeleteTour(h) == Begin(h, Plain("deleteTour", "all", << >>))

\* The button: the fields shown, with or without a change of the status.
SubmitTour(h) ==
    /\ At(h, "form") /\ req[h].op = "patchTour" /\ UNCHANGED <<db, own, accepted>>
    /\ \E st \in {req[h].seen, "COMPLETED"}, override \in BOOLEAN :
          req' = [req EXCEPT ![h].seen = st, ![h].yes = override,
                             ![h].pc = IF st = "COMPLETED" THEN "cargo" ELSE "write"]
SubmitStop(h) ==
    /\ At(h, "form") /\ req[h].op = "patchStop" /\ UNCHANGED <<db, own, accepted>>
    /\ \E st \in {req[h].put[s] : s \in DOMAIN req[h].put} \cup {"COMPLETED", "SKIPPED"} :
          req' = [req EXCEPT ![h].put = Each(DOMAIN @, st), ![h].pc = "stops"]
SubmitSave(h) ==
    At(h, "form") /\ req[h].op = "save" /\ Go(h, "tour") /\ UNCHANGED <<db, own, accepted>>

-----------------------------------------------------------------------------
\* The statements that write stops

\* markStop: checkCargoBlocking at the stop
Gate(h) ==
    /\ At(h, "gate")
    /\ IF \E c \in Cargo, s \in DOMAIN req[h].put : BlocksStop(View(h), c, s)
       THEN Abort(h)
       ELSE /\ req' = [req EXCEPT ![h].pc = "stops",
                                  ![h].stock = [x \in Cargo |-> View(h)[x]]]
            /\ UNCHANGED <<db, own, accepted>>

\* processTour: a tour it did not find is inserted, and uuid is UNIQUE; the
\* stops before the upsert, to tell a new completion.
Prior(h) ==
    /\ At(h, "prior")
    /\ ~req[h].yes => Free(h, Tour)
    /\ IF ~req[h].yes /\ db[Tour].life # "new" THEN Abort(h)
       ELSE /\ req' = [req EXCEPT ![h].prior = [s \in Stops |-> View(h)[s]], ![h].pc = "stops"]
            /\ req[h].yes => UNCHANGED own
            /\ ~req[h].yes => Hold(h, Tour, [life |-> "live", status |-> "PLANNED"])
            /\ UNCHANGED <<db, accepted>>

Inserted(st, order) ==
    [life |-> "live", status |-> st, done |-> st = "COMPLETED", order |-> order]
NextOrder(v) ==
    IF LiveStops(v) = {} THEN 0
    ELSE 1 + (CHOOSE n \in {v[s].order : s \in LiveStops(v)} :
                  \A s \in LiveStops(v) : v[s].order <= n)

\* The row a request's statement finds to write (UPDATE ... WHERE)
Finds(h, s, row) ==
    CASE req[h].op \in Marking \cup {"patchStop", "reorder"} -> row.life = "live"
      [] req[h].op = "deleteStop" -> row.life # "new" /\ row.status \notin Closed
      [] req[h].op = "live" -> row.life # "new"
      [] req[h].op = "addStop" -> row.life = "new"
      [] OTHER -> TRUE

\* processTour: the stop is inserted, or the one there is brought up to date.
\* newer: the request's stamp against the row's updated_at; a phone sets its own
\* clock, and a row can be stamped while a request waits.
Imported(op, row, st, done, order, newer) ==
    CASE row.life = "new" /\ op = "sync" -> [Inserted(st, order) EXCEPT !.done = done]
      [] row.life # "new" /\ op = "sync" -> IF newer \/ done THEN Merged(row, st, done) ELSE row
      [] row.life = "new" /\ op # "sync" -> Inserted(st, order)
      [] row.life # "new" /\ op # "sync" -> IF newer THEN Inserted(st, order) ELSE row

\* What it makes of it.
Written(h, s, row, newer) ==
    LET st == req[h].put[s]
        i == Cardinality(DOMAIN req[h].put) - Len(req[h].todo)
    IN CASE req[h].op \in Marking -> [row EXCEPT !.status = st, !.done = st = "COMPLETED"]
         [] req[h].op = "patchStop" -> [row EXCEPT !.status = st]
         [] req[h].op = "live" -> [row EXCEPT !.done = TRUE]
         [] req[h].op = "deleteStop" -> [row EXCEPT !.life = "gone"]
         [] req[h].op = "reorder" -> [row EXCEPT !.order = i]
         [] req[h].op = "addStop" -> Inserted(st, NextOrder(View(h)))
         [] OTHER -> Imported(req[h].op, row, st, s \in req[h].marked, i, newer)

\* Mutant: a marked stop recalculates the route.
AfterStopsPlan(op) ==
    CASE op \in Marking \cup Recalculating -> "plan"
      [] op = "sync" -> "load"
      [] op = "live" -> "commit"
      [] op = "save" -> "sweep"

AfterStops(op) ==
    CASE op \in Marking -> "read"
      [] op = "reorder" -> "sequence"
      [] op \in Recalculating \ {"reorder"} -> "plan"
      [] op = "sync" -> "load"
      [] op = "live" -> "commit"
      [] op = "save" -> "sweep"

WriteStop(h) ==
    /\ At(h, "stops")
    /\ LET s == Head(req[h].todo)
           rest == Tail(req[h].todo)
           on == [req EXCEPT ![h].todo = rest,
                             ![h].pc = IF rest = << >> THEN AfterStops(req[h].op) ELSE @]
       IN /\ Free(h, s)
          /\ \/ /\ Finds(h, s, View(h)[s])
                /\ \E newer \in BOOLEAN : Hold(h, s, Written(h, s, View(h)[s], newer))
                /\ req' = on /\ UNCHANGED <<db, accepted>>
             \/ ~Finds(h, s, View(h)[s]) /\ req[h].op # "reorder" /\ Abort(h)
             \/ /\ ~Finds(h, s, View(h)[s]) /\ req[h].op = "reorder"
                /\ req' = on /\ UNCHANGED <<db, own, accepted>>

\* reorder: cargo must not be delivered before it is picked up
Sequence(h) ==
    /\ At(h, "sequence")
    /\ IF OutOfSequence(View(h)) THEN Abort(h) ELSE Go(h, "plan") /\ UNCHANGED <<db, own, accepted>>

\* The tours row of a saved tour: written by UPDATE unless the row is newer,
\* or by INSERT; deleted_at is NULL again.
SaveTourRow(h) ==
    /\ At(h, "tour") /\ Free(h, Tour) /\ UNCHANGED <<db, accepted>>
    /\ \E newer \in BOOLEAN :
        /\ newer \/ View(h)[Tour].life = "new"
           => Hold(h, Tour, [View(h)[Tour] EXCEPT !.life = "live"])
        /\ ~newer /\ View(h)[Tour].life # "new" => UNCHANGED own
        /\ req' = [req EXCEPT ![h].yes = newer \/ View(h)[Tour].life = "new",
                              ![h].pc = IF req[h].todo = << >> THEN "sweep" ELSE "stops"]

\* Stops that the saved tour does not list are deleted.
Sweep(h) ==
    LET S == {s \in LiveStops(View(h)) : req[h].yes /\ s \notin DOMAIN req[h].put}
    IN /\ At(h, "sweep") /\ \A s \in S : Free(h, s)
       /\ own' = [own EXCEPT ![h] = [r \in DOMAIN @ \cup S |->
              IF r \in S THEN [View(h)[r] EXCEPT !.life = "gone"] ELSE @[r]]]
       /\ Go(h, "items") /\ UNCHANGED <<db, accepted>>

\* Deleting a tour: all its stops, and then the tour.  The administrator's
\* request commits each statement, the phone's both together.
DeleteAll(h) ==
    LET S == {s \in Stops : View(h)[s].life # "new"}
        f == [s \in S |-> [View(h)[s] EXCEPT !.life = "gone"]]
    IN /\ At(h, "all") /\ \A s \in S : Free(h, s)
       /\ Go(h, "drop")
       /\ IF req[h].op = "deleteTour"
          THEN db' = Committed(f) /\ UNCHANGED <<own, accepted>>
          ELSE own' = [own EXCEPT ![h] = f] /\ UNCHANGED <<db, accepted>>
Drop(h) ==
    /\ At(h, "drop") /\ Free(h, Tour)
    /\ IF View(h)[Tour].life = "new" THEN Abort(h)
       ELSE Commit(h, With(own[h], Tour, [View(h)[Tour] EXCEPT !.life = "gone"]))

-----------------------------------------------------------------------------
\* Cargo of a sync or of a saved tour

\* loadTourCargo
Load(h) ==
    /\ At(h, "load") /\ UNCHANGED <<db, own, accepted>>
    /\ req' = [req EXCEPT ![h].stock = [c \in DOMAIN req[h].item |-> View(h)[c]],
                          ![h].pc = "items"]

\* applyMobileCargoTransition on what was loaded; the upsert of a saved tour
WriteItems(h) ==
    /\ At(h, "items") /\ UNCHANGED <<db, accepted>>
    /\ \E newer \in BOOLEAN :
        LET r == req[h]
            C == {c \in DOMAIN r.item : newer /\ (r.op = "sync" => <<r.stock[c], r.item[c]>> \in DriverMove)}
        IN /\ \A c \in C : Free(h, c)
           /\ own' = [own EXCEPT ![h] = [x \in DOMAIN @ \cup C |->
                  IF x \in C THEN r.item[x] ELSE @[x]]]
    /\ Go(h, IF req[h].op = "sync" THEN "refuse" ELSE "commit")

\* isCompletedState, of a stop as a sync sends it
SentClosed(q, s) == s \in q.marked \/ q.put[s] \in Closed
\* refuseCargoBlockedCompletions: a stop this sync newly completed, although
\* cargo blocks it, gets back what Prior saw.
Refused(h) ==
    {s \in DOMAIN req[h].put :
        /\ SentClosed(req[h], s)
        /\ ~(req[h].prior[s].life # "new" /\ IsDone(req[h].prior[s]))
        /\ \E c \in Cargo : BlocksStop(View(h), c, s)}
Undone(h, s) ==
    IF req[h].prior[s].life = "new" THEN [View(h)[s] EXCEPT !.status = "PENDING", !.done = FALSE]
    ELSE [View(h)[s] EXCEPT !.status = req[h].prior[s].status, !.done = req[h].prior[s].done]
Refuse(h) ==
    /\ At(h, "refuse") /\ UNCHANGED <<db, accepted>>
    /\ own' = [own EXCEPT ![h] = [r \in DOMAIN @ |-> IF r \in Refused(h) THEN Undone(h, r) ELSE @[r]]]
    /\ req' = [req EXCEPT ![h].pc = "commit", ![h].stock = [c \in Cargo |-> View(h)[c]]]
\* COMMIT of an import; and of a live update, which asks the routing service
\* while it holds the stop.
CommitImport(h) == At(h, "commit") /\ Commit(h, own[h])

-----------------------------------------------------------------------------
\* recalculateTour and refreshProgress

\* getTourWithStops, and the route from it
Plan(h) ==
    /\ At(h, "plan")
    /\ IF View(h)[Tour].life # "live"
       THEN IF req[h].op = "recalculate" THEN Abort(h) ELSE Commit(h, own[h])
       ELSE /\ req' = [req EXCEPT ![h].todo = RouteOrder(View(h)), ![h].pc = "lock"]
            /\ UNCHANGED <<db, own, accepted>>

\* Mutant: the route is written to the stops only.
PersistStopsOnly(h) ==
    /\ At(h, "lock") /\ UNCHANGED <<db, own, accepted>>
    /\ Go(h, IF req[h].todo = << >> THEN "read" ELSE "route")

\* persistRoute: the tours row, then every stop
PersistTour(h) ==
    /\ At(h, "lock") /\ Free(h, Tour) /\ UNCHANGED <<db, accepted>>
    /\ Hold(h, Tour, View(h)[Tour])
    /\ Go(h, IF req[h].todo = << >> THEN "read" ELSE "route")
PersistStop(h) ==
    LET s == Head(req[h].todo) rest == Tail(req[h].todo)
    IN /\ At(h, "route") /\ Free(h, s) /\ UNCHANGED <<db, accepted>>
       /\ Hold(h, s, View(h)[s])
       /\ req' = [req EXCEPT ![h].todo = rest, ![h].pc = IF rest = << >> THEN "read" ELSE @]

Refresh(h) ==
    /\ At(h, "read")
    /\ IF View(h)[Tour].life # "live" THEN Commit(h, own[h])
       ELSE /\ req' = [req EXCEPT ![h].was = View(h)[Tour].status,
                                  ![h].seen = Progressed(View(h)),
                                  ![h].pc = IF MayComplete(View(h)) THEN "cargo" ELSE "write"]
            /\ UNCHANGED <<db, own, accepted>>

\* The two queries for what holds a tour open
CheckCargo(h) ==
    /\ At(h, "cargo") /\ UNCHANGED <<db, own, accepted>>
    /\ req' = [req EXCEPT ![h].stock = [c \in Cargo |-> View(h)[c]], ![h].pc = "hotel"]
CheckHotels(h) ==
    LET v == View(h)
        r == req[h]
        clear == /\ \A c \in Cargo : ~BlocksTour(r.stock, c)
                 /\ \A x \in Hotels : ~HotelBlocks(v, x)
    IN /\ At(h, "hotel")
       /\ IF r.op = "patchTour" /\ ~clear /\ ~r.yes THEN Abort(h)
          ELSE /\ req' = [req EXCEPT
                     ![h].seen = IF clear THEN "COMPLETED" ELSE @,
                     ![h].stock = [x \in Cargo \cup Hotels |-> IF x \in Cargo THEN @[x] ELSE v[x]],
                     ![h].pc = "write"]
               /\ UNCHANGED <<db, own, accepted>>

\* tour_status is written as it was computed, whatever it is by now.
WriteTour(h) ==
    /\ At(h, "write") /\ Free(h, Tour)
    /\ IF req[h].op = "patchTour" /\ View(h)[Tour].life # "live" THEN Abort(h)
       ELSE Commit(h, With(own[h], Tour, [View(h)[Tour] EXCEPT !.status = req[h].seen]))

-----------------------------------------------------------------------------
\* Around the requests

\* A row is changed by its own routes (CargoLifecycle, hotel-engine.js).
Change(r) ==
    /\ changes < MaxChanges /\ changes' = changes + 1
    /\ \A h \in Request : r \notin DOMAIN own[h]
    /\ \/ r \in Cargo /\ \E st \in CargoStatus : <<db[r], st>> \in DriverMove /\ db' = [db EXCEPT ![r] = st]
       \/ r \in Hotels /\ \E st \in HotelStatus \ {db[r]} : db[r] # "CHECKED_OUT" /\ db' = [db EXCEPT ![r] = st]
    /\ UNCHANGED <<own, req, served, accepted>>

\* save-hotel-record with source "stop" writes the status of a hotel to a stop;
\* to the rules above every such status is one of a stop not yet done.
HotelForm(s) ==
    /\ changes < MaxChanges /\ changes' = changes + 1
    /\ db[s].life # "new" /\ db[s].status # "PENDING" /\ \A h \in Request : s \notin DOMAIN own[h]
    /\ db' = [db EXCEPT ![s].status = "PENDING"]
    /\ UNCHANGED <<own, req, served, accepted>>

\* The rows the next statement of h waits for
Needs(h) ==
    CASE req[h].pc \in {"stops", "route"} -> {Head(req[h].todo)}
      [] req[h].pc = "prior" /\ ~req[h].yes -> {Tour}
      [] req[h].pc \in {"tour", "lock", "write", "drop"} -> {Tour}
      [] req[h].pc = "all" -> {s \in Stops : View(h)[s].life # "new"}
      [] req[h].pc = "sweep" -> {s \in LiveStops(View(h)) : s \notin DOMAIN req[h].put}
      [] req[h].pc = "items" -> DOMAIN req[h].item
      [] OTHER -> {}
WaitsFor(h, g) == h # g /\ Needs(h) \cap DOMAIN own[g] # {}
Deadlocked(h, g) == WaitsFor(h, g) /\ WaitsFor(g, h)

\* PostgreSQL rolls back one transaction of a cycle.
Victim(h) ==
    /\ \E g \in Request : Deadlocked(h, g)
    /\ Abort(h) /\ UNCHANGED <<served, changes>>
-----------------------------------------------------------------------------
Init ==
    /\ db \in Start
    /\ own = [h \in Request |-> << >>]
    /\ req = [h \in Request |-> Idle]
    /\ served = 0 /\ changes = 0 /\ accepted = {}

Arrival(h) ==
    \/ \E s \in Stops : \/ Arrive(h, s) \/ Complete(h, s)
                        \/ PatchStop(h, s) \/ DeleteStop(h, s) \/ AddStop(h, s)
                        \/ LiveUpdate(h, s)
    \/ Location(h) \/ PatchTour(h) \/ Save(h) \/ Reorder(h) \/ Recalculate(h)
    \/ Sync(h) \/ SyncDelete(h) \/ DeleteTour(h)

Step(h) ==
    \/ Gate(h) \/ Prior(h) \/ WriteStop(h) \/ Sequence(h) \/ SaveTourRow(h) \/ Sweep(h)
    \/ DeleteAll(h) \/ Drop(h) \/ Load(h) \/ WriteItems(h) \/ Refuse(h) \/ CommitImport(h)
    \/ Plan(h) \/ PersistTour(h) \/ PersistStop(h) \/ Refresh(h) \/ CheckCargo(h)
    \/ CheckHotels(h) \/ WriteTour(h)

Next ==
    \/ \E h \in Request : Arrival(h) \/ SubmitTour(h) \/ SubmitStop(h) \/ SubmitSave(h) \/ Step(h) \/ Victim(h)
    \/ \E st \in TourStatus : CreateTour(st)
    \/ \E r \in Cargo \cup Hotels : Change(r)
    \/ \E s \in Stops : HotelForm(s)

Spec == Init /\ [][Next]_vars

-----------------------------------------------------------------------------
\* Properties

TypeOK ==
    /\ DOMAIN db = Rows /\ \A r \in Rows : db[r] \in RowType(r)
    /\ \A h \in Request :
        /\ DOMAIN own[h] \subseteq Rows /\ \A r \in DOMAIN own[h] : own[h][r] \in RowType(r)
        /\ req[h].op \in Op /\ req[h].seen \in TourStatus /\ req[h].yes \in BOOLEAN
        /\ DOMAIN req[h].put \subseteq Stops /\ DOMAIN req[h].item \subseteq Cargo
        /\ req[h].todo \in Seq(Stops) /\ req[h].marked \subseteq Stops
    /\ served \in 0 .. MaxServed /\ changes \in 0 .. MaxChanges
    /\ accepted \subseteq Stops

\* recalculateTour and refreshProgress write several rows of a tour, and take
\* them in different orders.  A deadlock needs a request that writes more than
\* one stop: marking stops, locations, live updates and the tour form cannot block
\* each other.
DeadlockNeedsSeveralStops ==
    \A h, g \in Request : Deadlocked(h, g) =>
        {req[h].op, req[g].op} \cap (Recalculating \cup {"sync", "syncDelete", "save"}) # {}

\* The rows and what each request has of them have their types, and requests wait
\* for each other as said.
RequestsAreSound == TypeOK /\ DeadlockNeedsSeveralStops

Ends(h) == req[h].pc # "idle" /\ req'[h].pc = "idle"

\* refreshProgress writes back the tour_status it read.  A tour goes back (a
\* completed one is open again) by the tour form, or by a refresh that read
\* before another one's write; never by a recalculation, whose persistRoute
\* holds the tours row before refreshProgress reads it.
OnlyUnlockedRefreshesMoveBack ==
    [][\A h \in Request : Ends(h) /\ req[h].op \in Recalculating =>
          /\ db[Tour].status = "COMPLETED" => db'[Tour].status = "COMPLETED"
          /\ db[Tour].status = "IN_PROGRESS" => db'[Tour].status # "PLANNED"]_vars

\* A tour that becomes COMPLETED without an override_reason is held open by no
\* cargo and no hotel, but for those that changed between the check and the
\* write, and but for a refresh that read it COMPLETED: it writes that back,
\* over a dispatcher who has opened the tour again, and checks nothing.
CompletionWasClear ==
    \A h \in Request :
       /\ Ends(h) /\ ~req[h].yes /\ req[h].was # "COMPLETED"
       /\ db[Tour].status # "COMPLETED" /\ db'[Tour].status = "COMPLETED"
       => \A r \in Cargo \cup Hotels :
              db'[r] \in {"PLANNED", "PICKED_UP", "DAMAGED", "CHECKED_IN"} => db'[r] # req[h].stock[r]

\* The phone's bulk sync closes no stop past the cargo rules: a stop it newly
\* closes has nothing left to pick up or deliver with the cargo as the same
\* sync leaves it, but for cargo changed by others after its check.
SyncKeepsCargoRules ==
    \A h \in Request, s \in Stops, c \in Cargo :
       /\ Ends(h) /\ req[h].pc = "commit" /\ req[h].op = "sync" /\ s \in DOMAIN req[h].put
       /\ SentClosed(req[h], s) /\ IsDone(own[h][s]) /\ ~IsDone(req[h].prior[s])
       /\ BlocksStop(db', c, s)
       => c \notin DOMAIN own[h] /\ db'[c] # req[h].stock[c]

\* A tour, and a stop that a sync closes, are completed only when the check found
\* them clear.  (A live update closes a stop without any check.)
CompletionsWereClear == [][CompletionWasClear /\ SyncKeepsCargoRules]_vars

\* A completion the driver was told is saved stays: it is undone by the driver
\* arriving again, by the tour editor (which sends no status and saves every
\* stop as PENDING), or by a sync that read the stop before it was completed
\* and puts that back.  No sync undoes a completion it has seen.
AcceptedCompletionsStand ==
    \A s \in Stops : s \in accepted /\ IsCompleted(db[s]) /\ ~IsCompleted(db'[s]) =>
       \E h \in Request : /\ Ends(h) /\ s \in DOMAIN req[h].put
                          /\ \/ req[h].op \in {"arrive", "save"}
                             \/ /\ req[h].op = "sync"
                                /\ \/ req[h].prior[s].life = "new"
                                   \/ ~IsCompleted(req[h].prior[s])

\* is_completed and stop_status say the same of a stop until somebody writes one
\* of them alone: the dispatcher's stop table, the hotel form (both stop_status)
\* or a live update (is_completed); until a sync completes a stop the dispatcher
\* skipped; or until a phone sends back a copy in which they had parted before.
Agree(s) == s.done <=> s.status = "COMPLETED"
PartsColumns(q, s, row) ==
    /\ s \in DOMAIN q.put
    /\ \/ q.op \in {"patchStop", "live"}
       \/ q.op = "sync" /\ (row.status = "SKIPPED" \/ ~(s \in q.marked <=> q.put[s] = "COMPLETED"))
ColumnsPartWhereOneIsWritten ==
    \A s \in Stops : Agree(db[s]) /\ ~Agree(db'[s]) =>
       HotelForm(s) \/ \E h \in Request : Ends(h) /\ PartsColumns(req[h], s, db'[s])

\* A completed stop stays completed, in both of the columns that say so, but for
\* the writers above.
CompletionsStand == [][AcceptedCompletionsStand /\ ColumnsPartWhereOneIsWritten]_vars

=============================================================================
