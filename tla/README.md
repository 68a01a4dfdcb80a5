# LogiHERO: formal models

LogiHERO is a dispatch system for truck drivers: a Node/Express backend on
PostgreSQL (`src/src`), an administrator's dashboard and a driver's web app that
the backend renders, an Android app (`src/app`) and a telemetry agent
(`src/sdks`). The backend keeps nearly all of its state in PostgreSQL and runs its
handlers on a pool of ten connections at READ COMMITTED: a handler can be
overtaken at every `await`, and almost no SELECT takes a lock. That, retries by
phones on bad networks, and failures between statements are what these modules
are about.

Modules, configurations and theorems are indexed in `PROJECT.json`: `map` names
the lines each definition stands for, `hazards` what can go wrong and which
property would tell, `findings` where code and documentation disagree.

## 1. Inventory

| Component | State | Operations | Hard part | Correct means | Here |
|---|---|---|---|---|---|
| Work time (`routes/work-time.routes.js`, `utils/work-time-status.js`) | `work_days`, `work_time_entries`, `work_time_audit`, `work_time_conflicts` | start, change status, end day; correct an entry; approve, reject, request correction, single or bulk; the totals of a day | read-check-write without locks; totals read before the row is locked; opposite lock orders | one open day and one running entry per driver, closed days closed, totals match and count no moment twice unnoticed, audit complete, corrections and approvals respected | `WorkTime`, `WorkSummary` |
| Migration runtime (`database/migration-runtime.js`) | `schema_migrations`, the schema, an advisory lock | bootstrap, verify, heal, rebaseline, apply | several instances and releases at once, death at any point | a migration takes effect once, whole, in order; the ledger tells the truth; anything unexpected stops the run | `MigrationRuntime`, `SchemaEvolution` |
| Cargo (`routes/cargo.routes.js`, `engines/cargo-lifecycle.js`) | `cargo`, `cargo_events` | create, edit, delete, resolve; pick up, deliver, report | lost answers and retries, unlocked checks, autocommitted statements | statuses follow the tables; a retry applies once; the audit log accounts for the status | `CargoLifecycle` |
| Tour core (`routes/tour-core.routes.js`, `engines/tour-core-engine.js`) | `tours`, `stops` | create, patch, reorder, recalculate, mark stop arrived/completed, locate, complete; the live update and the hotel form, which write a stop too | `refreshProgress` writes back a status it read; many rows locked in computed orders; two columns for one fact, and writers of one of them | a tour or stop is completed with nothing blocking, and stays so; what is still to go is the way over the stops left | `TourProgress`, `RouteProgress` |
| Import engine (`engines/import-engine.js`, `sync-tour`) | the tours, stops and cargo of an upload | bulk upsert from phone and dashboard | stale rows, phone clocks, a completion refused after it was written | newest legal change wins; no accepted completion is undone | `TourProgress`, `CargoLifecycle`, `CurrentTour` |
| Tour writes (`admin-save-tour`, `admin-tour`, `admin-transfer-tour`, `current-tour`, the tour form, the generic sync, a driver's new name, seed and reset) | the same, `tours.is_current`, the pool's connections | save, delete, transfer, make current, patch, push, rename, seed, reset | an early return inside a transaction, a failure swallowed inside one; writers of `driver_name` and `is_current` that bypass `set_current_tour` | two current tours of a driver only through those writers; what was answered stays written | `CurrentTour`, `TourProgress` |
| Hotels (`routes/hotel.routes.js`, `engines/hotel-engine.js`) | `hotels`, `hotel_events` | transition, override, office form, sync | unlocked check, five queries without a transaction, last-writer-wins sync | a terminal status is left only by an override with a reason; the last event tells the status | `HotelBooking` |
| Delta sync (`routes/sync.routes.js`, `utils/sync-models.js`, Android `DeltaSyncEngine`) | every synced table, `sync_events` | pull since a watermark, push a batch | watermark against commit order, base revision read without lock, own retry seen as conflict | a batch is taken whole or not at all; locked days stand; rows a client misses were late | `DeltaSync`, `RevisionTable`, `SyncPull` |
| Live status (`engines/status-engine.js`, `live-update`, `worktime`) | legacy `work_times`, `live_updates` | close and open periods by speed and position, complete a stop | overlapping updates, two statements for one change | one running period per driver, periods in a chain | `LiveStatus` |
| Device access (`routes/driver.routes.js`, `requireDeviceAuth`) | `drivers`, `driver_devices` | activate, rotate, unlink, rename, delete | a rename by a name read before; an activation of a driver being deleted | a deleted driver's phone stays out; records carry the driver's name | `DriverAccess` |
| Driver web sessions (`driver-pwa*.routes.js`, `utils/driver-*.js`) | `driver_accounts`, `driver_web_sessions` | log in, change password, log out, expire; provision, reset, enable, disable, revoke | the slow password check between read and insert | no session outlives the password it was opened with | `DriverAccess` |
| Administrator sessions, rate limit | maps in one process | log in, open, post, log out, expire, restart; count | restart, window boundary | no write without a live session; fewer than twice the limit in any window | `AdminAccess` |
| Costs (`routes/cost.routes.js`, Android repository) | `costs`, the phone's table | add, edit, delete, pull, push; the office's decision | pull before push, two syncs at once | the office's decision stands; what was removed stays removed | `CostSync` |
| Uploads (`routes/upload.routes.js`) | photo files and the rows that name them | upload, refuse, clean up | a file and a row are two writes | each names the other; only to what is the driver's | `PhotoUpload` |
| Backup (`scripts/db-backup.js`, `db-restore.js`) | archive, manifest, target | count, dump, write manifest; check, load, confirm | counting before dumping while the application writes; a file damaged between its checksum and its use | RESTORE_OK means all of the backup | `BackupRestore` |
| Telemetry (`sdks/android-agent`, `integrations/ndp-client.js`) | a bounded queue in the app | track, flush, initialize | a flag tested while the flush that set it is ending; the queue's first event dropped under the sender | an event is lost, or left waiting, for a reason only | `NdpAgent` |
| Small routes, schema, Android app, pages, support | | | see section 5 | | no |

Interactions. Phones call the cargo, hotel, cost, work-time and sync endpoints over
HTTP and may lose any answer; pickup and deliver carry a `clientEventId`, reports
do not, and what failed on the phone comes back with the next bulk sync. The
dashboard saves whole forms, so it writes back what the page showed when it was
loaded. Cargo and hotels decide whether stops and tours may be completed. Delta
sync writes the tables of work time behind the back of its handlers, and the
status engine the ones the phone uploads. Every start of the backend checks that
the migration ledger is at its head, and `npm run db:migrate` is run by
deployments that may overlap. All transactions share one pool: what one request
leaves open on a connection the next request inherits.

## 2. How the code became modules

*Grain.* One handler is one PostgreSQL transaction (or, where the code uses
`pool.query`, a few autocommitted statements). A handler is cut where another one
can get between: after its SELECTs, at its first row update (the row is locked
from then on), and at COMMIT; in `TourProgress` at every statement. In `WorkTime`
and `CargoLifecycle` consecutive SELECTs of a handler are one step: splitting them
lets the handler see a mixture of two committed states, which those two do not
explore. A request that is refused before it wrote anything is not a step.
`Abort`, `Abandon`, `Crash`, `QueryFails`, `Stop` and their like are a failed
statement, a lost connection or a dead process.

*Data.* Statuses are strings, identities are model values, timestamps are small
naturals. Names, notes, coordinates, amounts and JSON are left out; speeds and
distances are the bands between the thresholds that the code compares with.

*History.* Some variables exist for the properties only; they are marked so where
they are declared, and no guard reads them.

### WorkTime

`day`, `entry`, `audit`, `conflict` are the four tables (`audit` counts rows per
day and kind; `day.tally` is the set of intervals behind the stored totals,
which is what `recalcDay` sums: the closed ones, and the running one up to the
moment of the sum, which is any). `txn` is the transaction of each handler
with what its SELECTs returned, the rows it has locked and the sum it computed.

| Action | Code |
|---|---|
| `StartDayRead`, `StartDayCommit` | `POST /api/work-time/start-day` |
| `ChangeStatusRead`, `UpdateEntries`, `ChangeStatusCommit` | `POST /api/work-time/change-status` |
| `EndDayRead`, `UpdateEntries`, `EndDayCommit` | `POST /api/work-time/end-day` |
| `CorrectEntryRead`, `UpdateEntries`, `CorrectEntryCommit` | `correctEntry`, driver and admin |
| `CorrectEntryConflict`, `RefuseCorrection` | the 409 of `assertAndroidMayWriteWorkDay` and `createConflict` |
| `SetApprovalRead`, `SetApprovalHold`, `SetApprovalCommit` | `setApproval` |
| `BulkRead`, `BulkCommit` | `POST /admin/work-time/bulk/:action` |
| `Abort`, `DeadlockVictim` | `catch`/`finally`, PostgreSQL's deadlock detector |

`UpdateEntries` is where change, end and correct write the entries and
`recalcDay` reads them back; the day row is written at commit, with the sum made
before the wait. That order, not the arithmetic, is what can go wrong here, so the
totals are kept as the set they are computed from. A running entry counts up to
`now` (`work-time-status.js:112`), and `now` is bound to none of the times that
clients send, so the stored totals are those of the entries at *some* moment
(`Tallies`), and no longer those of the present one a moment later.

`WorkSummary` is the arithmetic: `summarizeEntries` as a fold over the entries in
the order of the SELECT, with its anomalies, for every day of up to three entries
that corrections and the sync can have made (no or negative length, open, equal
beginnings), against the number of moments that some active entry covers.

### MigrationRuntime and SchemaEvolution

`ledger` is `schema_migrations`, `schema` the text each migration was really
applied with, `lock` the advisory lock, `run` the stage of every process with the
release it was started from. `Start` … `Finish` are the stages of `migrate()`;
each is one transaction. A checksum is represented by what it covers: `"none"`
(rows of the first runtime), `"legacy"` (over file and dependency files), `"v2"`
(over the file), together with the text and the dependencies it was taken of.
`Release` is a set of releases that may run at the same time.

`SchemaEvolution` is the abstract promise: a schema to which migrations are
applied once, as a whole, never behind a later one, never undone. The refinement
(`INSTANCE SchemaEvolution WITH ...`) is by identity on `schema`; everything else
in the runtime is a stutter.

### CargoLifecycle

`row` and `log` are `cargo` and `cargo_events`, `req` the requests in progress,
`clock` is `Date.now()`.

| Action | Code |
|---|---|
| `Create`, `EditRead`/`EditCommit` | `POST /api/tours/:tourId/cargo`, `PATCH /api/cargo/:cargoId` |
| `DeleteRead`/`DeleteMark`/`WriteEvent` | `DELETE /api/cargo/:cargoId`, three autocommitted statements |
| `ResolveRead`/`ResolveWrite`/`WriteEvent` | `POST /api/cargo/:cargoId/resolve`, likewise |
| `TransitionArrive`/`TransitionRead`/`TransitionCommit` | `transitionCargo` (pickup, deliver, reports) |
| `SyncRead`/`SyncCommit` | `applyMobileCargoTransition`, one item of the batch |
| `SaveTour` | the cargo upsert behind `/admin/save-tour` |
| `Abandon` | a failed statement, a dead process |

A phone repeats a request by a second `TransitionArrive` with the same
`clientEventId`; nothing orders it after the first. A phone's own clock gives the
time `t` of an offline change.

### TourProgress

`db` are the committed rows of one tour with its stops, cargo and hotels,
`own[h]` what request `h` wrote and has not committed: to hold a row is to have it
there. `Arrival` brings in the requests (`Location`, `PatchTour`, `PatchStop`,
`Arrive`, `Complete`, `LiveUpdate`, `AddStop`, `DeleteStop`, `Reorder`, `Recalculate`, `Sync`,
`SyncDelete`, `Save`, `DeleteTour`), `SubmitTour`, `SubmitStop` and `SubmitSave`
send the forms that were opened with what the rows were then, `Step` takes the
next statement of one. A request remembers in `was` the status that
`refreshProgress` read; `accepted` is history, the stops whose completion the
driver was told is saved and that are still completed.

| Statement | Code |
|---|---|
| `Gate` | `markStop`'s check of the cargo that holds a stop |
| `WriteStop`, `Sequence` | the UPDATE or INSERT of a stop by `markStop`, the stop routes and the upsert of an import (`Imported`); the check of a new order |
| `Prior`, `SaveTourRow`, `Sweep` | `processTour`: the stops as they were, the tour row, the stops that are not in the upload any more |
| `Load`, `WriteItems`, `Refuse`, `CommitImport` | the cargo of the upload, the completions that `refuseCargoBlockedCompletions` undoes |
| `Plan`, `PersistTour`, `PersistStop` | `recalculateTour` and `persistRoute` |
| `Refresh`, `CheckCargo`, `CheckHotels`, `WriteTour` | `refreshProgress`, and the patch of `tour_status` (`PATCH /api/tours/:id`) with what blocks it |
| `DeleteAll`, `Drop` | the deletion of a tour and of its stops |
| `Change`, `HotelForm`, `Victim` | the cargo and hotel routes; the status that the hotel form writes to a stop; the deadlock detector |

A live update (`status-engine.js:99`) sets `is_completed` alone and asks neither the
cargo nor `refreshProgress`; what the properties say of completions with nothing in
their way is therefore said of the tour's status and of the phone's sync, not of every
stop. `PhoneCopies` are the stops that a phone may send: what it made itself, and copies
of stops in which the office's table or a live update had made the columns part.

### DeltaSync, RevisionTable and SyncPull

`row` holds revisions, contents and locks of work days, entries and legacy work
times, `req` the pushes the server is serving, `phone` and `sync` the phone's
table and its coroutine. A push goes through its records with `Check` (SELECTs
that lock nothing) and `Write` (the upsert), and ends in `Finish`, or in `Fail`: a
lock wait that the detector ends, or an entry without a day. `Discard` is the end
of an answer that nobody waits for. The office locks and unlocks days with `Decide`;
`Correct`, `EnginePeriod` and `SyncWorktimes` are the other writers of the tables;
history `shut` keeps, for each push, the rows that have been locked ever since it
came. Only entries have a parent, the day they are part of; `Pull`, `Push`, `Answered`, `Lose` the phone, whose retry
starts over from the pull. `RevisionTable` is the abstract promise: a client looks
at rows and then replaces all of them in one step, each counted on from what it
found, or none. It does *not* promise that nothing changed in between, since
nothing compares again. The mapping is `INSTANCE RevisionTable WITH table <-`
the revisions, `found <-` what the push has found.

`SyncPull` is the pull alone, with writers that stamp a row (`Stamp`) and commit
it later (`CommitWrite`), the limit of rows per answer, and a client that goes on
from `serverTime`. The phone here always asks since 0
(`DashboardViewModel.kt:537`); a client that uses the watermark is another one,
which the endpoint is made for.

### The other parts

| Module | State | Actions and their code |
|---|---|---|
| `LiveStatus` | `periods` (`work_times`), the stop, the trail of positions | `Read`, `Wait`, `Write`, `Route`, `Commit`, `Abort`: one live update through `startWork` and the stop's completion; `Upload`: `/api/sync-worktimes`. `Stored` are the rows as the COMMIT leaves them; `DayAssumption` says that the days to start from are in order |
| `HotelBooking` | one hotel, its events, the phone's queue, the office's page | `Ask`, `Check`, `Write`, `Log`, `Answer`: a status endpoint, five queries; `Patch`, `SaveHotelRecord`, `SyncHotels`, `Delete`; `AnswerLost`, `LogFails` |
| `CostSync` | the server's table, the phone's, its syncs | `GetCosts`, `ReadLocal`, `SyncRemoteCosts`, `Send`: the phone's pull and push; `SyncCosts`, `SaveCost`, `UpdateCostStatus`, `RemoveCost`: the server's routes; `PollStatus` |
| `PhotoUpload` | rows and files | `AskUpload` to `AnswerUpload`: the upload of a driver's or stop's photo; `WriteFails`, `UpdateFails`, `Restart` |
| `AdminAccess` | sessions and login bucket in memory, browsers | `LogIn`, `ReadPage`, `Post`, `PostWithToken`, `WriteDone`, `LogOut`, `RestartServer`, `TimeGoes` |
| `CurrentTour` | tours, connections of the pool, jobs | `Choose`, `SaveTour`, `SyncTour`, `TransferTour`, `TransferRefused` with the statements of `set_current_tour` (`Clear`, `ClearRow`, `Mark`) they run; `PatchTour`, `PushTour`, `Rename`, `SeedTour`, which write without it (kind `direct`); `ResetDatabase`; `QueryFails`, `FailureSwallowed`, `IdleClosed` |
| `BackupRestore` | two databases as row counts, archive, manifest | `CountTable`, `Dump`, `WriteManifest`, `Load`, `Confirm`; `WriteRow`, `ScriptFails`, `Recreate`; `Damage` of the file at any time, also while a script relies on it |
| `DriverAccess` | driver, records by name, account, sessions, device, the phone's token | the handlers of `driver-pwa`, `driver-pwa-admin` and `driver.routes.js`, the query of a middleware or an unlocked SELECT apart from what follows |
| `RouteProgress` | places of stops, depot, terminal and driver, stored segments, stored remaining distance | `PatchStop`, `RecalculateRoute`, `MarkStop`, `SendLocation`, `LiveUpdate`, `SyncStop`, `SaveRoute`, `ChooseTerminal`; `LocationGetsOld` |
| `NdpAgent` | the agent's queue, the flag `flushing`, the executor's tasks, each thread's call | `Track`, `AddEvent`, `FlushAsync`, `Execute`/`AlreadyFlushing`; `TakeTask`, `Look`, `Skip`, `SendEvent`, `Settle`, `EndTask`; `InitializeAgain`, `ResetFlushing`, `ClearQueue` |

`RouteProgress` is the arithmetic of `calculateTourRoute` and
`calculateProgress` on a line: a place is a natural, 0 one without coordinates,
a distance is that of two places, so that a distance of zero, an unknown one and
a segment of an earlier route are all there.

`Parts` EXTENDS these (without `LiveStatus`, which has its own run) with `SyncPull`
and `WorkSummary`, eleven parts in all. They share no state, so a behaviour of the
composition is one of the part that `focus` names; exploring them side by side
instead of their product loses nothing. `MCParts` gives `Parts` the events, items
and symmetry of its run.

## 3. What the runs check

Every property of a passing run has a mutant in `PROJECT.json`: a plausible bug
in a mapped definition under which the same run finds the property violated.
Properties that share a cause are conjuncts of one named property; the module
states each conjunct with its own comment.

| Run | Bounds | Question |
|---|---|---|
| `WorkTimeDays` | 1 driver, 2 days, 2 entries, 2 handlers, times 0..1, revisions to 2 | When does a driver get two open days? Does the audit account for every revision? |
| `WorkTimeEntries` | 1 driver, 1 day, 3 entries, 3 handlers, times 0..1, revisions to 3 | Which overlaps leave two running entries, a closed day with a running entry, wrong totals? Do corrections stick, is approval respected? |
| `WorkTimeLiveness` | 1 day, 2 entries, 2 handlers, with fairness | Does every handler end although day and entry rows are locked in both orders? |
| `MigrationSafety` | 3 migrations, 3 releases, 5 initial ledgers, 2 runners, with fairness | Truth of the ledger, failing closed, healing, meaning of success; does every run end; does the runtime implement `SchemaEvolution`? |
| `CargoOneRow` | 1 cargo, 2 requests at a time, 4 in all, 1 client event id, clock 1..2 | Retries, the log against the rows, and which races can break a rule of the life cycle |
| `TourProgress` | 2 stops, 1 cargo, 1 hotel, 2 requests, 1 change from outside, of cargo, of the hotel or by the hotel form; five copies of a stop that a phone may send | What takes a tour back, completes it over something that holds it open, undoes an accepted completion, makes the two columns of a stop part, deadlocks? |
| `DeltaSync` | 3 days (one of another driver), 1 entry, 1 legacy period, 2 pushes at a time and 3 in all, 1 phone sync with 2 attempts, with fairness; three scenes: days and an entry, an entry between two days, the phone's period | Are batches taken whole (the refinement of `RevisionTable`), do locked days stand, is a repeated edit put twice, does every push end? |
| `LiveStatus` | 2 updates at a time, 3 in all, times 0..4, grace 2, shortest stay 1 | When do two periods run at once; do updates that come in order leave a chain? |
| `Parts` | see below | The properties of the eleven other parts |

| Part of `Parts` | Bounds |
|---|---|
| hotel | 2 requests at a time, 3 in all, two events of the phone with one of them an override, times 0..1 |
| cost | 3 costs, 2 syncs at a time, 5 changes |
| photo | 2 uploads at a time, 3 in all, a row of the driver and a row of a stop |
| admin | lifetime 2, window 2, limit 2, times 0..3, 4 attempts, 2 sessions |
| current | 2 drivers, 2 tours, 2 connections, 3 requests |
| backup | 2 tables, 2 rows in each, 3 runs of a script |
| driver | 2 passwords, 3 sessions, versions to 3, 2 device tokens, 6 requests |
| pull | 2 rows, 2 writers, 1 row per answer, times 0..2, 2 versions of a row |
| summary | 3 entries, driving or off duty, times 0..3 |
| route | 3 stops, places 0..2, 3 changes; depot and terminal up to mirror image |
| agent | 2 threads, 3 events, a queue of 2, 1 retry, 2 initializations |

*Why these bounds suffice.* The handlers' checks relate a request to what happened
on its own rows between its read and its write, so two overlapping requests show
every race between a pair; `WorkTimeEntries` adds a third because totals and
running entries can need a handler that profits from the mess two others made.
Two days are needed for a second open day, three entries for a status change that
follows a raced one. Four requests on one cargo are: make it, change it, and two
that race on it. Two clock values tell "older than the row" from "as old as the
row". Three migrations give a baseline, a gap and a head; the releases are the
one that is out, its successor, and a branch that numbered its migration
differently and edited one. Two stops are what a deadlock of two
recalculations and a cargo with different pickup and delivery need. Two requests
on a tour do not show everything: a dispatcher who reopens a tour between the read
and the write of a refresh, after another request completed it, is a third one, and
the exception for it in `CompletionWasClear` comes from the proof, as do those of
`AcceptedCompletionsStand` for a stop that was undone and accepted before. A foreign day
in a batch shows that one bad record refuses all. Three costs are one the server
has, one the phone adds and one that is read from a receipt. Three sessions are
one opened before, one during and one after a change of the password. One row per
answer makes the limit of the pull bite with two rows. Three entries make one
that overlaps an earlier one than its neighbour; three stops make one that is done
out of order, three changes a route, an edit and a refresh.

*Deadlock checking* is on in `MigrationSafety`. Elsewhere it is off because the
runs stop when the budget of requests, revisions or identities is used up; the
bounds are in the guards of arriving requests, never in those of requests in
progress, so no handler is stopped half way by a bound. Deadlocks of the database
are states of the model, with the detector as an action.

### Fairness

`WorkTime`: strong fairness of every open transaction's next step, weak fairness
of the deadlock detector. Node runs each callback once its promise is settled and
PostgreSQL queues the waiters of a row lock; a waiter sees the lock taken and
released repeatedly, so weak fairness would not say that it gets its turn.
`MigrationRuntime`: weak fairness of a run that holds the lock, strong fairness
of acquiring it, for the same reason. `DeltaSync`: weak fairness of each slot of
the server (a push that was accepted is served, a victim of a deadlock is
answered) and of the phone's coroutine. No request is obliged to arrive; no
failure, loss or crash is obliged to happen. The other modules state no liveness.

### Where code, comments and documents disagree

Three runs check one sentence each, and TLC shows a behaviour of the code against
it (`findings`).

| Run | Sentence | What happens |
|---|---|---|
| `WorkTimeConflictsAreStored` | conflicts are stored (`docs/WORK_TIME_CONFLICTS.md:3`) | the insert is rolled back with the refused correction; `resolveConflict` therefore finds nothing to resolve |
| `LiveStatusMorningStartIsNotRefused` | the initial morning start (`status-engine.js:57`) | the first fast update of a day opens two periods at one moment, which `unique_worktime` refuses, every time |
| `PartsAddedCostsAreKept` | local costs are pushed (`CostsViewModel.kt:132`) | the pull before the push deletes them |

Others are weakened into the passing properties, which say by which overlap alone
the sentence fails: two overlapping start-days leave two open days
(`docs/WORK_TIME.md:34`, `OpenDaysNeedRacingStarts`); a driver goes on writing an
open day that was approved, or a record the administrator corrected
(`docs/WORK_TIME_CONFLICTS.md:23`, `DriverCorrectionRespectsApproval` and
`CorrectionSticks`); the revision a correction is compared with comes from an
unlocked read (`docs/WORK_TIME.md:52`); the tour editor writes cargo statuses
without events (`docs/POD_DELIVERY_ACCEPTANCE.md:23`, `LogAndRowsAgree`); an edit
that is pending on the phone is lost to a pull (`docs/WORK_TIME.md:38`), and the
reload after a 409 of `docs/SYNC_PROTOCOL.md:56` is the server's table over the
phone's; a completion that a sync sends again does
fail when it came to the server between the sync's read of the stop and its upsert,
by the driver's button, and cargo blocks the stop by then (`import-engine.js:81`,
`CompletionsStand`). For cargo
`UnracedWritesAreLegal` covers three races the code does have: a driver's
transition over a status committed since its check, one on a row deleted since,
and a deletion of cargo picked up since; each needs the row's revision to have
moved between read and write, and none of the cargo statements compares it.

What the models show of the code besides, and a reader of it may not expect:

- a push whose answer was lost comes back as a conflict, since the phone repeats
  it with the old base (`DeltaSyncEngine.kt:49`);
- the sync's conflict row is rolled back with its batch, and one foreign record
  refuses the whole batch;
- each push of a hotel from the phone inserts a new row, because the phone sends
  the id as `public_id` and the endpoint looks for `uuid`; refused hotel events
  stay in the phone's queue;
- `set_current_tour` with no tour writes nothing; and the tour form that gives a
  current tour to another driver (`tour-core.routes.js:329`), the generic sync of a
  tour with `is_current` (`sync.routes.js:346`), a new name that tours already carry
  (`driver.routes.js:228`) and a demo seeded twice leave a driver with two current
  tours and no overlap at all, until the next choice, save or transfer
  (`OneCurrentTour`);
- a live update closes the stop a truck has been standing at whatever cargo is still
  to be picked up or delivered there, and writes `is_completed` alone
  (`status-engine.js:99`); the hotel form with source `stop` writes a hotel's status
  into `stop_status` alone (`hotel.routes.js:236`), and the stop table likewise: from
  then on `is_completed` and `stop_status` say different things of the stop, and a
  sync that sends it on keeps them so (`CompletionsStand`);
- an archive that is damaged between its checksum and `pg_restore`, or between
  `pg_dump` and the checksum, is found out by the counts only (`db-restore.js:19`
  and `82`, `db-backup.js:65`);
- a `sync-profile` under way while the driver is deactivated activates it again
  (`driver.routes.js:141`);
- an event of the agent that is tracked while a flush is ending waits for the next
  event (`NdpAgent.kt:75`), and a flush begun before an initialization throws away
  events that were tracked after it;
- a refresh of a tour that read it as completed writes that back over a dispatcher
  who reopened it meanwhile, without looking at cargo or hotels again
  (`tour-core.routes.js:106`);
- the remaining distance keeps its old value when no stop is left or the next
  segment is zero, and choosing another terminal does not recalculate it.

## 4. What is proved

Eight `*Proofs` modules hold the theorems, for every value of the constants that
the named assumptions allow: any number of drivers, days, stops, requests,
runners, migrations, uploads, syncs, connections and rows. The assumptions
(`WorkTimeAssumption`, `MigrationAssumption`, `CargoAssumption`,
`TourAssumption`, `DeltaSyncAssumption`, `DayAssumption`, and for the parts
`DriverAssumption`, `HotelAssumption`, `PhotoAssumption`, `BackupAssumption`,
`PullAssumption`, `AdminAssumption`, `MomentsAreBounded`, `RouteAssumption` and
`AgentAssumption`) say that bounds are naturals, limits are at least one, identities
of different kinds are different, and what a run may begin with has its type; TLC
evaluates them on every run. Every invariant and action property of a passing run
is the statement of a theorem.

Where a proof needs an induction (over the entries of a day or the stops of a
route), it is made from the well-foundedness of < on the naturals:
the least number for which the claim fails is taken, and the one before it leads to
a contradiction (`UpTo`, `LeastOf` of `PartsProofs`). The library states induction
for an operator as a parameter, which the installed provers cannot instantiate;
this way it is first-order. That a function defined by recursion exists and is the
only one is shown in the same way (`SummaryIs`, `TotalIsNat`).

*WorkTimeProofs.* `TypeCorrect` needs `Arguments` beside `TypeOK`: what each kind
of open transaction carries (a starting day has a day and a fresh entry, a
correction has an entry of its day, ...), without which the committed rows
cannot be typed. `AuditIsComplete` and `EveryChangeRaisesTheRevision` rest on
`Identities` (`Fresh`, `Unshared`: the identity of a row still to be inserted is
in no table and in no other transaction; `Present`: a row about to be updated is
there) and `Books`, the audit equation for every day, unused ones included.
`SecondOpenDayNeedsRace` adds `PendingStart`: if a start-day is pending and its
driver has an open day by now, the transaction has been overtaken by a start.
That is the whole argument why only a racing start can be to blame. The same
argument, made for all that a handler carries from its reads to its commit, is
`Overtaken`: `EntryShape` (an entry that has ended is of a day, and one that is
still running was not corrected), `Bound` (a handler writes a day of its driver
and entries of that day) and `Pending` (what it read of the day, its entries and
its totals is still so, or a commit of the kind that can change it came between). From it follow `LeftOpenNeedsRace` (a second
running entry, or one in a closed day, needs a race), `TotalsStayTrue` (totals that are those
of the entries at no moment need one), `CorrectionsStay` (a correction is undone by a handler
that read before it) and `CorrectionsRespectApproval`.

*MigrationRuntimeProofs.* `Sound` is the inductive invariant: types, lock and
stages agree, ledger and schema agree, and *what a working run has read is what
the ledger holds* (plus what `Valid` says of it). The last conjunct is why a list
of applied ids read some transactions ago may be used at all, and it holds only
because every writer holds the lock. From it follow `OneRunnerAtATime`,
`LedgerTellsTheTruth`, `ApplyFailsClosed`, `HealingIsConservative` and
`DoneRunsAppliedAll`; `RuntimeImplementsEvolution` shows that initial states map
to initial states and that every step is an `Apply` or a stutter, the order
coming from the absence of gaps in what was read.

*CargoLifecycleProofs.* `Shape` (types and what each stage of each request
carries) is the base. `RevisionTellsRaces` proves that a row whose revision (and
editor count) is still what a request read is the row it read, in status, life
and age: revision is bumped by every write of status or deletion except the
editor's. With it `OnlyRacesBreakTheRules` follows action by action.
`RetriesApplyOnce` is the uniqueness of `client_event_id` over overlapping
retries. `AuditAccountsForStatus` strengthens `StatusIsOnRecord` with the status
each pending request saw, since an edit that names the status it read writes that
status and no event; `NoEventWithoutWrite` counts the events still owed by
unfinished requests against the revision of the row; `AuditAndRowsAgree` is both.

*TourProgressProofs.* `TourInv` says of the committed rows that they have their
types (`Base`) and that an accepted completion is one (`Told`), of the requests
that no two hold one row (`Apart`), and of each request, at every statement
(`Sound`): which statements its kind passes through (`Staged`), what its list
still has (`Listing`), which rows it must hold by now and which it cannot
(`Holding`), that a recalculation which holds the tour knows its status (`Aware`),
that a tour about to be completed was found clear (`Checked`), what it may make of
each stop it wrote, measured against the committed one (`Kept`), and what a sync
read and refused (`Ruled`). There is one lemma per statement; `StepKeeps` puts
them together. `TourStaysSound` is the invariant; from it follow
`RequestsStaySound` (types, and who can be in a deadlock),
`LockedRefreshesGoForward`, `NothingClosedWasBlocked` and `CompletionsStayAccepted`.
Two of these were false as they had been stated for two requests; the bounds in section 3
say which third request the proof pointed at.

*DeltaSyncProofs.* `Shape` is the inductive invariant of tables, pushes and
coroutines (`ShapeHolds`); `PushesAndClientsAreSound` is the type invariant of the
run with it. `PushesAreReplacements` is the refinement of `RevisionTable`: initial
states map to initial states, `Check` is a `Look`, `Finish` a `Replace` of the whole batch,
a refusal or failure a `Close`, the other writers are `Outside`, and every other step is
a stutter.
`LockedDaysAreLeftAlone` carries `Guarded`: a row that has been locked ever since a
push came is not among those it wrote or is about to write. That the lock must
have held since the push came is a fact of the code, not of the proof: a push that
looked before an entry existed moves it out of a day that was locked meanwhile.
`ReplacedEditsAreLeftReplaced` carries `Traced` (all copies of an edit, wherever they
are under way, name one revision, and what the table held of the edit has that
revision or the next) and `Compared` (what is about to be written was compared with
what was found). Its hypothesis `OtherClientsNameRevisions` is about the pushes of
other clients, which may leave out a base revision as the endpoint allows; TLC
evaluates it for the scenes of the run.

*LiveStatusProofs.* `DayStaysSound`: two periods run at once, or periods part from a
chain, only after what `odd` records. Beside `Shape` the invariant has `Alone`
(without an overlap there is one update at a time), `Undisturbed` (then at most one
period runs, what an update decided fits the stored periods, and what it will store
has at most one running period) and `Ordered` (with nothing odd, the day is a chain
now and after the commit).

*PhoneProofs.* `DriverInv` carries `Backed` (every session, and every login
between its password check and its insert, was verified against the password its
version stands for) and `Told`; `PasswordChangesShut`, `DriverChangesAreWhole` and
`DriverStaysTyped` follow. `CurrentInv` carries `Kept` (without a leaked
transaction no query runs in a transaction that is not its own) and `Orderly` (as
long as no requests overlap: every driver but the `doubled` has one current tour, how
far `set_current_tour` has brought the driver's tours, seen through the connection's own
uncommitted rows, and that what a direct write does to its driver's tours it does to
no other's); `AnswersAreKept` and
`OneTourIsCurrent` follow. `AgentInv` is that of the telemetry agent: events are
queued once and have been sent as often as their counter says, plus the attempt in
hand; the event in hand is the queue's first, or out for a reason; every event is
queued, accepted, excused or tried to the end (`QueueInv`); and a queue without a
task, or whose only task is ending, has a thread on its way to start one, unless the
overtaking that `unnoticed` records left it there (`TasksInv`). `EventsHaveReasons`
follows.

*PartsProofs: hotels.* `EndedStaysStayEnded` carries `Guarded`: a request that
passed the check for a terminal status was overtaken if the stay has ended since.
`EventsTell` carries `Told`: the status is the last event's, or the request that
wrote it still owes its event, or the exception is recorded.
`BookingIsKeptAndTold` is both.

*Costs.* `OfficeDecides`: the server takes a status from a push for a new
row only. `RemovedCostsAreGone` follows a removed cost through the phone's list,
a sync's answer and its push: wherever it still is, the exception is already
recorded. `OfficeStands` is both.

*Photos.* `PhotosAreFiles` carries `NamesAreFresh` (no two uploads
under way have one file name) and `FileOfRequest` (where an upload's file is named
before and after its UPDATE); `PhotosAreScoped` holds because the UPDATE asks again
what the first SELECT asked.

*Backup.* `RestoreIsOfTheWholeBackup`: an archive with its manifest
is one that was dumped whole, counts included, or damaged while a script relied on
it; what a restore has loaded is what it checked, unless the file was damaged after
the check (`ScriptOK`, `ManifestOK`). No other damage passes.

*Pull.* `OnlyLateRowsAreMissed` carries `Holds`: an answer under way has
every row newer than the client's mark as it still is, but for the late ones (a row
committed after the read, stamped no later than the mark, or past the limit).

*Office.* `OfficeIsGuarded` rests on `SessionsInv` (the sessions kept are those born
and not ended, with the role and the age they were born with) and `LimiterInv`. A
bucket begins with a login that was let through. So a stretch as long as a window
that starts after that login has fewer than the limit of the logins of the bucket,
and one that starts less than a window before it has fewer than the limit of those
before the bucket. A stretch over two buckets therefore has fewer than twice the
limit, for any limit and any window. `AdminStaysTyped` is by the
same invariant.

*Totals.* `DayTotalsCountEachMomentOnce` follows the loop over the entries in the order
they are read: as long as it has found no overlap, `previousEnd`, the end of the last
entry that counts, is the latest end so far. So the first overlap with any earlier entry
is one with that entry and is found; and when none is found the moments of the entries
are disjoint, and the sums are the sizes of what they cover. It holds for a day of any number of entries with any times.

*Route.* `WhatIsStillToGo` has `RouteInv`: a stored segment is the distance from the
stop before it on the route it was planned for, and what is stored as still to go was
computed last from the stops, the terminal and the position of the phone as they are
now. `LeftOnTheRoute` and `WhatIsStoredIsTheWay` compare that with the stops that are
left: with the stops done in order, the one before on the stored route is also the one
before among those left, so both sums have the same terms.

*Parts.* `PartsAreTheirSpecs`: a behaviour of the composition is one of each of the
eleven specifications, so each theorem above holds of the composition too;
`EveryPartIsSafe` says so of all the properties of the run at once.
`EveryPartStaysTyped` is the type invariant of the run. Not all types are inductive
as they stand: the pull's versions stay within their bound because every write that
is stamped and not committed has one left (`PullTyped`), the backup's archive is there
whenever a manifest is (`BackupTyped`), photos are numbered within the uploads
(`PhotoLimits`), and what a connection has written is its request's or that of a
transaction left open (`PutsBelong`).

*Only model-checked.* Liveness: `EveryHandlerEnds`, `EveryRunEnds` and
`EveryPushEnds`, because fairness and ENABLED are out of the prover's reach. The
sentences of the three violation runs are false, and have no theorem.

## 5. Not modelled, and what could follow

Simplifications inside the modelled parts:

- consecutive SELECTs of a `WorkTime` or `CargoLifecycle` handler are one step; two
  bulk approvals that lock the same days in opposite order do not wait for each
  other (PostgreSQL would abort one, which for the tables is `Abort`);
- `WorkTime` contains the handlers of `work-time.routes.js` only. The generic sync
  writes the same tables with no audit row, as `DeltaSync` shows, so
  `AuditAccountsForRevisions` speaks of phones that use the work-time endpoints;
- `PhotoUpload` is of uploads: a profile sync and the driver form also write
  `drivers.photo_url`, and the sync of a stop `stops.photo_url`, with whatever text
  they are sent (`driver.routes.js:141`, `219`, `import-engine.js:104`), which need not
  name a file;
- the generic sync can also move stops between tours, reorder, rename and delete stops
  and tours (their status columns are locked, `sync.routes.js:18`); its own comment says
  that no Android call site does, and `TourProgress` leaves it out. `CurrentTour` has its
  `driver_name` and `is_current`;
- the listing of days, conflicts and exports are reads; `resolveConflict` runs on
  rows that are never stored;
- generic sync checks no times of entries, so `DeltaSync` has no times;
- local deletions on the phone are not synced by the code, and not modelled for
  `DeltaSync`;
- the distance of a route is that of two places: the call of OSRM under the row
  locks (`status-engine.js:141`, without a timeout) is a step like any other.

Whole components:

- *Telemetry of the backend* (`ndp-client.js`): one fetch whose failure is ignored.
- *Small routes* (chat, dashboards, lists, contacts): each a single statement;
  chat handlers have no `catch`, and the chat screen polls against a list it has
  captured, which shows messages twice.
- *Schema*: a list of DDL; what it constrains is in the models of its users.
- *Android app* beyond its syncs: screens and local storage; receipts read by the AI
  push without pulling (`AddReadCost`).
- *Pages* of the dashboard and the driver's app: rendering; the handlers they post
  to are in the modules, their forms in what a save sends back.
- *Support* (release gate, smoke tests, address lookup): scripts over git and HTTP whose hazard is what they compare with, not an order of steps.

What could follow: one composition of `WorkTime` with `DeltaSync` in place of the abstract
writers each has of the other.
