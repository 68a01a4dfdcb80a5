------------------------------ MODULE WorkTime ------------------------------
(***************************************************************************)
(* The work-time endpoints of the backend (routes/work-time.routes.js):    *)
(* start-day, change-status, end-day, entry correction by driver or admin, *)
(* single and bulk approval, over the tables work_days, work_time_entries  *)
(* and work_time_audit.                                                    *)
(*                                                                         *)
(* Every handler is one PostgreSQL transaction at READ COMMITTED.  It is   *)
(* cut where another handler can get between: its SELECTs (which take no   *)
(* lock), its row updates (which lock the row until COMMIT), and COMMIT.   *)
(* A handler that answers 4xx writes nothing and is no step, with the one  *)
(* exception of the refused driver correction, which reports a conflict.   *)
(***************************************************************************)
EXTENDS Integers, FiniteSets

CONSTANTS Driver,   \* active drivers
          Day,      \* identities of work_days rows
          Entry,    \* identities of work_time_entries rows
          Request,  \* handlers that can run at the same time
          None,     \* SQL NULL, or no row
          Decision, \* what admins decide: a status, and whether with a reason
          MaxTime,  \* bound: timestamps are 0..MaxTime
          MaxRev    \* bound: no handler starts on a day at this revision

\* APPROVAL_STATUSES
Approval == {"PENDING", "APPROVED", "REJECTED", "CORRECTION_REQUIRED"}

ASSUME WorkTimeAssumption ==
    /\ Decision \subseteq [status : Approval \ {"PENDING"}, note : BOOLEAN]
    /\ MaxTime \in Nat
    /\ MaxRev \in Nat
    /\ None \notin Driver \cup Day \cup Entry
    /\ Day \cap Entry = {}

VARIABLES day,      \* work_days
          entry,    \* work_time_entries
          audit,    \* work_time_audit, counted per day and kind of event
          conflict, \* days with a row in work_time_conflicts
          txn,      \* the transaction each handler has open
          raced     \* history: pairs of kinds that overlapped, per driver

vars == <<day, entry, audit, conflict, txn, raced>>

Time   == 0 .. MaxTime
NoTime == -1

\* The anomaly_flags a handler tests for; recalcDay never produces them.
Flag == {"ADMIN_CORRECTED", "SYNC_CONFLICT"}
Kind == {"start", "change", "end", "correct", "approve", "bulk"}

\* tally is the set of intervals the row's totals were summed over; that of a
\* running entry ends at the moment recalcDay looked.
DayRow == [driver : Driver \cup {None}, start : Time \cup {NoTime},
           end : Time \cup {NoTime}, status : {"OPEN", "CLOSED"},
           approval : Approval, note : BOOLEAN, flags : SUBSET Flag,
           deleted : BOOLEAN, rev : Nat,
           tally : SUBSET (Entry \X (Time \cup {NoTime}) \X Time)]

\* source other than ANDROID stands for manual_edit as well.
EntryRow == [day : Day \cup {None}, driver : Driver \cup {None},
             start : Time \cup {NoTime}, end : Time \cup {NoTime},
             approval : Approval, source : {"ANDROID", "DRIVER", "ADMIN"},
             deleted : BOOLEAN, rev : Nat]

AuditRow == [started : Nat, ended : Nat, edited : Nat]

\* An open transaction: what its SELECTs returned and what the client asked.
\* stage "read": SELECTs done; "wrote": entry rows updated and summed up;
\* "held": work_days row updated; "refused": conflict inserted, not committed.
Txn == [kind : Kind \cup {"none"},
        stage : {"idle", "read", "wrote", "held", "refused"},
        actor : {"DRIVER", "ADMIN"}, driver : Driver \cup {None},
        day : Day \cup {None}, entry : Entry \cup {None},
        fresh : Entry \cup {None},
        from : Time \cup {NoTime}, to : Time \cup {NoTime},
        days : SUBSET Day, approval : Approval, note : BOOLEAN,
        rev : Nat, locks : SUBSET (Day \cup Entry),
        sum : SUBSET (Entry \X (Time \cup {NoTime}) \X Time),
        seen : SUBSET Kind]

BlankDay == [driver |-> None, start |-> NoTime, end |-> NoTime,
             status |-> "OPEN", approval |-> "PENDING", note |-> FALSE,
             flags |-> {}, deleted |-> FALSE, rev |-> 0, tally |-> {}]

BlankEntry == [day |-> None, driver |-> None, start |-> NoTime,
               end |-> NoTime, approval |-> "PENDING", source |-> "ANDROID",
               deleted |-> FALSE, rev |-> 0]

Idle == [kind |-> "none", stage |-> "idle", actor |-> "DRIVER",
         driver |-> None, day |-> None, entry |-> None, fresh |-> None,
         from |-> NoTime, to |-> NoTime, days |-> {},
         approval |-> "PENDING", note |-> FALSE, rev |-> 0,
         locks |-> {}, sum |-> {}, seen |-> {}]

TypeOK ==
    /\ day \in [Day -> DayRow]
    /\ entry \in [Entry -> EntryRow]
    /\ audit \in [Day -> AuditRow]
    /\ conflict \subseteq Day
    /\ txn \in [Request -> Txn]
    /\ raced \in [Driver -> SUBSET SUBSET Kind]

Init ==
    /\ day = [d \in Day |-> BlankDay]
    /\ entry = [e \in Entry |-> BlankEntry]
    /\ audit = [d \in Day |-> [started |-> 0, ended |-> 0, edited |-> 0]]
    /\ conflict = {}
    /\ txn = [p \in Request |-> Idle]
    /\ raced = [dr \in Driver |-> {}]

-----------------------------------------------------------------------------
(***************************************************************************)
(* What the SELECTs return, over the committed rows.                       *)
(***************************************************************************)
StoredDays == {d \in Day : day[d].driver # None}
StoredEntries == {e \in Entry : entry[e].day # None}

OpenDays(dr) ==
    {d \in Day : day[d].driver = dr /\ day[d].end = NoTime /\ ~day[d].deleted}

\* openDay: ORDER BY start_time DESC LIMIT 1, so any of the latest.
IsOpenDay(dr, d) ==
    /\ d \in OpenDays(dr)
    /\ \A o \in OpenDays(dr) : day[o].start =< day[d].start

EntriesOf(table, d) == {e \in Entry : table[e].day = d /\ ~table[e].deleted}

\* Mutant: the query of openEntry without end_time IS NULL.
EntriesOpenOrClosed(d) == EntriesOf(entry, d)

OpenEntries(d) == {e \in EntriesOf(entry, d) : entry[e].end = NoTime}

\* openEntry: e is the row it returns, None when it returns none.
IsOpenEntry(d, e) ==
    IF OpenEntries(d) = {}
    THEN e = None
    ELSE /\ e \in OpenEntries(d)
         /\ \A o \in OpenEntries(d) : entry[o].start =< entry[e].start

\* A running entry is taken to last until now.
LastsUntil(row, now) == IF row.end = NoTime THEN now ELSE row.end

\* What recalcDay sums up when it reads this table at the moment now: every
\* interval of the day, but for those of no positive length.
Tally(table, d, now) ==
    {<<e, table[e].start, LastsUntil(table[e], now)>> :
        e \in {x \in EntriesOf(table, d) :
                  LastsUntil(table[x], now) > table[x].start}}

\* The clock of the server is bound to none of the times clients send.
Tallies(table, d) == {Tally(table, d, now) : now \in Time}

AdminCorrected(row) == row.note \/ "ADMIN_CORRECTED" \in row.flags

\* Another entry of the day intersects the open interval (from, to).
Overlaps(e, from, to) ==
    \E o \in EntriesOf(entry, entry[e].day) \ {e} :
        /\ entry[o].start < to
        /\ (IF entry[o].end = NoTime THEN to ELSE entry[o].end) > from

\* Identities not in use: uuids are random, so a new row gets any of these.
FreeDays ==
    {d \in Day \ StoredDays : \A q \in Request : txn[q].day # d}
FreeEntries ==
    {e \in Entry \ StoredEntries : \A q \in Request : txn[q].fresh # e}

Locked(p, row) == \E q \in Request \ {p} : row \in txn[q].locks

-----------------------------------------------------------------------------
(***************************************************************************)
(* Entry rows as a transaction writes them.                                *)
(***************************************************************************)
NewEntry(t) ==
    [BlankEntry EXCEPT !.day = t.day, !.driver = t.driver, !.start = t.to,
                       !.rev = 1]

Closed(row, t) == [row EXCEPT !.end = t.to, !.rev = @ + 1]

Corrected(row, t) ==
    [row EXCEPT !.start = t.from, !.end = t.to, !.source = t.actor,
                !.approval = "CORRECTION_REQUIRED", !.rev = @ + 1]

\* Mutant: a new entry is opened and the current one is not closed.
EntriesAfterWithoutClosing(t) ==
    [e \in Entry |->
        IF e = t.entry /\ t.kind = "correct" THEN Corrected(entry[e], t)
        ELSE IF e = t.fresh THEN NewEntry(t) ELSE entry[e]]

\* work_time_entries as it is once t has written to it.
EntriesAfter(t) ==
    [e \in Entry |->
        IF e = t.entry
        THEN IF t.kind = "correct" THEN Corrected(entry[e], t)
                                   ELSE Closed(entry[e], t)
        ELSE IF e = t.fresh THEN NewEntry(t) ELSE entry[e]]

-----------------------------------------------------------------------------
(***************************************************************************)
(* COMMIT.  Besides releasing the locks it tells every other open          *)
(* transaction on the same driver which kind of handler has overtaken it,  *)
(* and records which kinds have overtaken the one that commits.            *)
(***************************************************************************)
Touches(t) == {t.driver} \cup {day[d].driver : d \in t.days}

Commit(p) ==
    LET mine == Touches(txn[p]) IN
    /\ txn' = [q \in Request |->
                 IF q = p THEN Idle
                 ELSE IF txn[q].kind # "none" /\ Touches(txn[q]) \cap mine \cap Driver # {}
                      THEN [txn[q] EXCEPT !.seen = @ \cup {txn[p].kind}]
                      ELSE txn[q]]
    /\ raced' = [dr \in Driver |->
                   IF dr \in mine
                   THEN raced[dr] \cup {{txn[p].kind, k} : k \in txn[p].seen}
                   ELSE raced[dr]]

\* Any statement may fail (connection lost, server stopped, deadlock victim):
\* ROLLBACK, and nothing of the handler remains.
Abort(p) ==
    /\ txn[p].kind # "none"
    /\ txn' = [txn EXCEPT ![p] = Idle]
    /\ UNCHANGED <<day, entry, audit, conflict, raced>>

CanStartOn(p, d) ==
    /\ txn[p].kind = "none"
    /\ d \in StoredDays
    /\ day[d].rev < MaxRev

Tables == <<day, entry, audit, conflict, raced>>

-----------------------------------------------------------------------------
(***************************************************************************)
(* POST /api/work-time/start-day                                           *)
(***************************************************************************)
\* Mutant: no look for an open work day.
StartDayReadUnchecked(p) ==
    /\ txn[p].kind = "none"
    /\ \E dr \in Driver, t \in Time, d \in FreeDays, e \in FreeEntries :
        txn' = [txn EXCEPT ![p] = [Idle EXCEPT !.kind = "start",
                  !.stage = "read", !.driver = dr, !.day = d,
                  !.fresh = e, !.to = t]]
    /\ UNCHANGED Tables

StartDayRead(p) ==
    /\ txn[p].kind = "none"
    /\ \E dr \in Driver, t \in Time, d \in FreeDays, e \in FreeEntries :
        /\ OpenDays(dr) = {}
        /\ txn' = [txn EXCEPT ![p] = [Idle EXCEPT !.kind = "start",
                     !.stage = "read", !.driver = dr, !.day = d,
                     !.fresh = e, !.to = t]]
    /\ UNCHANGED Tables

StartDayCommit(p) ==
    LET t == txn[p] IN
    /\ t.kind = "start"
    /\ day' = [day EXCEPT ![t.day] = [BlankDay EXCEPT
                 !.driver = t.driver, !.start = t.to, !.rev = 1]]
    /\ entry' = [entry EXCEPT ![t.fresh] = NewEntry(t)]
    /\ audit' = [audit EXCEPT ![t.day].started = @ + 1]
    /\ Commit(p)
    /\ UNCHANGED conflict

(***************************************************************************)
(* POST /api/work-time/change-status.  Every pair of statuses is an        *)
(* allowed transition; all that matters here is whether the new one is     *)
(* OFFLINE, which opens no entry.                                          *)
(***************************************************************************)
ChangeStatusRead(p) ==
    \E dr \in Driver, d \in Day, e, new \in Entry \cup {None}, t \in Time :
        /\ CanStartOn(p, d)
        /\ IsOpenDay(dr, d)
        /\ IsOpenEntry(d, e)
        /\ new \in FreeEntries \cup {None}
        /\ e # None => entry[e].start =< t
        /\ txn' = [txn EXCEPT ![p] = [Idle EXCEPT !.kind = "change",
                     !.stage = "read", !.driver = dr, !.day = d, !.entry = e,
                     !.fresh = new, !.to = t]]
        /\ UNCHANGED Tables

(***************************************************************************)
(* POST /api/work-time/end-day.  The end is compared with the start of the *)
(* day, not with the start of the open entry it closes.                    *)
(***************************************************************************)
EndDayRead(p) ==
    \E dr \in Driver, d \in Day, e \in Entry \cup {None}, t \in Time :
        /\ CanStartOn(p, d)
        /\ IsOpenDay(dr, d)
        /\ IsOpenEntry(d, e)
        /\ day[d].start =< t
        /\ txn' = [txn EXCEPT ![p] = [Idle EXCEPT !.kind = "end",
                     !.stage = "read", !.driver = dr, !.day = d, !.entry = e,
                     !.to = t]]
        /\ UNCHANGED Tables

(***************************************************************************)
(* correctEntry, for DRIVER and ADMIN.  A client may name the revisions it *)
(* knows; the SELECTs compare them with the rows (rev is the entry's).     *)
(***************************************************************************)
\* Mutant: approved days are not locked.
MayWriteUnapproved(row) == ~row.deleted /\ ~AdminCorrected(row)

\* assertAndroidMayWriteWorkDay, for the owner of the day and a client that
\* names no revision or the current one.
MayWriteWorkDay(row) ==
    /\ ~row.deleted
    /\ row.approval # "APPROVED"
    /\ ~AdminCorrected(row)

CorrectEntryRead(p) ==
    \E e \in StoredEntries, actor \in {"DRIVER", "ADMIN"}, from, to \in Time :
        LET d == entry[e].day IN
        /\ CanStartOn(p, d)
        /\ ~entry[e].deleted
        /\ actor = "DRIVER" => MayWriteWorkDay(day[d])
        /\ from < to
        /\ ~Overlaps(e, from, to)
        /\ txn' = [txn EXCEPT ![p] = [Idle EXCEPT !.kind = "correct",
                     !.stage = "read", !.actor = actor,
                     !.driver = day[d].driver, !.day = d, !.entry = e,
                     !.from = from, !.to = to, !.rev = entry[e].rev]]
        /\ UNCHANGED Tables

\* The guard answers 409, for the day's state or for a stale revision the
\* client named, and has inserted a conflict row.
CorrectEntryConflict(p) ==
    \E e \in StoredEntries, stale \in BOOLEAN :
        LET d == entry[e].day IN
        /\ CanStartOn(p, d)
        /\ ~entry[e].deleted
        /\ stale \/ ~MayWriteWorkDay(day[d])
        /\ txn' = [txn EXCEPT ![p] = [Idle EXCEPT !.kind = "correct",
                     !.stage = "refused", !.driver = day[d].driver,
                     !.day = d]]
        /\ UNCHANGED Tables

\* Mutant: an early return without ROLLBACK.
RefuseWithoutRollback(p) ==
    /\ txn[p].kind = "correct"
    /\ txn[p].stage = "refused"
    /\ UNCHANGED vars

\* The route rolls its transaction back and answers with that conflict row.
RefuseCorrection(p) ==
    /\ txn[p].kind = "correct"
    /\ txn[p].stage = "refused"
    /\ txn' = [txn EXCEPT ![p] = Idle]
    /\ UNCHANGED <<day, entry, audit, conflict, raced>>

-----------------------------------------------------------------------------
(***************************************************************************)
(* The row updates of change-status, end-day and a correction, and the     *)
(* SELECT of recalcDay, which sees them and whatever else is committed.    *)
(***************************************************************************)
\* Mutant: the day is summed up before its entries are updated.
UpdateEntriesAfterSum(p) ==
    LET t == txn[p] IN
    /\ t.stage = "read"
    /\ t.kind \in {"change", "end", "correct"}
    /\ ~Locked(p, t.entry)
    /\ \E sum \in Tallies(entry, t.day) :
        txn' = [txn EXCEPT ![p].stage = "wrote",
                           ![p].locks = {t.entry} \ {None},
                           ![p].sum = sum]
    /\ UNCHANGED Tables

UpdateEntries(p) ==
    LET t == txn[p] IN
    /\ t.stage = "read"
    /\ t.kind \in {"change", "end", "correct"}
    /\ ~Locked(p, t.entry)
    /\ \E sum \in Tallies(EntriesAfter(t), t.day) :
        txn' = [txn EXCEPT ![p].stage = "wrote",
                           ![p].locks = {t.entry} \ {None},
                           ![p].sum = sum]
    /\ UNCHANGED Tables

\* recalcDay's UPDATE waits for the work_days row; the totals and flags it
\* writes are the ones summed before the wait.
Recalculated(row, t) ==
    [row EXCEPT !.tally = t.sum, !.flags = {}, !.rev = @ + 1]

ReadyToCommit(p, kind) ==
    /\ txn[p].kind = kind
    /\ txn[p].stage = "wrote"
    /\ ~Locked(p, txn[p].day)

ChangeStatusCommit(p) ==
    LET t == txn[p] IN
    /\ ReadyToCommit(p, "change")
    /\ entry' = EntriesAfter(t)
    /\ day' = [day EXCEPT ![t.day] = Recalculated(@, t)]
    /\ audit' = [audit EXCEPT ![t.day].edited = @ + 1]
    /\ Commit(p)
    /\ UNCHANGED conflict

Ended(row, t) ==
    [Recalculated(row, t) EXCEPT !.end = t.to, !.status = "CLOSED",
                                 !.rev = @ + 1]

EndDayCommit(p) ==
    LET t == txn[p] IN
    /\ ReadyToCommit(p, "end")
    /\ entry' = EntriesAfter(t)
    /\ day' = [day EXCEPT ![t.day] = Ended(@, t)]
    /\ audit' = [audit EXCEPT ![t.day].ended = @ + 1]
    /\ Commit(p)
    /\ UNCHANGED conflict

CorrectEntryCommit(p) ==
    LET t == txn[p] IN
    /\ ReadyToCommit(p, "correct")
    /\ entry' = EntriesAfter(t)
    /\ day' = [day EXCEPT ![t.day] = Recalculated(@, t)]
    /\ audit' = [audit EXCEPT ![t.day].edited = @ + 1]
    /\ Commit(p)
    /\ UNCHANGED conflict

-----------------------------------------------------------------------------
(***************************************************************************)
(* setApproval: approve, reject and request-correction.  It updates the    *)
(* day first and its entries second, the other way round from the handlers *)
(* above, so the two can deadlock.                                         *)
(***************************************************************************)
SetApprovalRead(p) ==
    \E d \in Day, decision \in Decision :
        /\ CanStartOn(p, d)
        /\ ~day[d].deleted
        /\ txn' = [txn EXCEPT ![p] = [Idle EXCEPT !.kind = "approve",
                     !.stage = "read", !.actor = "ADMIN", !.days = {d},
                     !.approval = decision.status, !.note = decision.note,
                     !.rev = day[d].rev]]
        /\ UNCHANGED Tables

SetApprovalHold(p) ==
    LET t == txn[p] IN
    /\ t.kind = "approve"
    /\ t.stage = "read"
    /\ \A d \in t.days : ~Locked(p, d)
    /\ txn' = [txn EXCEPT ![p].stage = "held", ![p].locks = t.days]
    /\ UNCHANGED Tables

\* Mutant: a decision that leaves the day's revision as it was.
ApprovedInPlace(row, t) ==
    [row EXCEPT !.approval = t.approval, !.note = t.note]

Approved(row, t) ==
    [row EXCEPT !.approval = t.approval, !.note = t.note, !.rev = @ + 1]

SetApprovalCommit(p) ==
    LET t == txn[p] IN
    /\ t.kind = "approve"
    /\ t.stage = "held"
    /\ \A e \in Entry : entry[e].day \in t.days => ~Locked(p, e)
    /\ day' = [d \in Day |-> IF d \in t.days THEN Approved(day[d], t) ELSE day[d]]
    /\ entry' = [e \in Entry |->
                   IF entry[e].day \in t.days
                   THEN [entry[e] EXCEPT !.approval = t.approval, !.rev = @ + 1]
                   ELSE entry[e]]
    /\ audit' = [d \in Day |-> IF d \in t.days
                               THEN [audit[d] EXCEPT !.edited = @ + 1]
                               ELSE audit[d]]
    /\ Commit(p)
    /\ UNCHANGED conflict

(***************************************************************************)
(* POST /admin/work-time/bulk/:action.  Leaves the entries alone.          *)
(***************************************************************************)
BulkRead(p) ==
    \E ds \in SUBSET Day, decision \in Decision, override \in BOOLEAN :
        /\ ds # {}
        /\ \A d \in ds : CanStartOn(p, d) /\ ~day[d].deleted
        /\ \/ override
           \/ \A d \in ds : /\ day[d].status # "OPEN"
                            /\ "SYNC_CONFLICT" \notin day[d].flags
        /\ txn' = [txn EXCEPT ![p] = [Idle EXCEPT !.kind = "bulk",
                     !.stage = "read", !.actor = "ADMIN", !.days = ds,
                     !.approval = decision.status, !.note = decision.note]]
        /\ UNCHANGED Tables

BulkCommit(p) ==
    LET t    == txn[p]
        hits == {d \in t.days : ~day[d].deleted}
    IN
    /\ t.kind = "bulk"
    /\ \A d \in hits : ~Locked(p, d)
    /\ day' = [d \in Day |-> IF d \in hits THEN Approved(day[d], t) ELSE day[d]]
    /\ audit' = [d \in Day |-> IF d \in hits
                               THEN [audit[d] EXCEPT !.edited = @ + 1]
                               ELSE audit[d]]
    /\ Commit(p)
    /\ UNCHANGED <<entry, conflict>>

-----------------------------------------------------------------------------
(***************************************************************************)
(* PostgreSQL aborts one of two transactions that wait for each other: one *)
(* holds a day and needs an entry of it, one holds the entry and needs the *)
(* day.  No longer cycle exists, for a day row has a single holder.        *)
(***************************************************************************)
Deadlocked(p, q) ==
    /\ txn[p].stage = "held"
    /\ txn[q].stage = "wrote"
    /\ txn[q].day \in txn[p].locks
    /\ \E e \in txn[q].locks : entry[e].day \in txn[p].locks

DeadlockVictim(p) ==
    /\ \E q \in Request : Deadlocked(p, q) \/ Deadlocked(q, p)
    /\ Abort(p)

\* A request arrives: BEGIN and the handler's SELECTs.
Arrive(p) ==
    \/ StartDayRead(p)
    \/ ChangeStatusRead(p)
    \/ EndDayRead(p)
    \/ CorrectEntryRead(p)
    \/ CorrectEntryConflict(p)
    \/ SetApprovalRead(p)
    \/ BulkRead(p)

\* An open transaction goes on.
Proceed(p) ==
    \/ StartDayCommit(p)
    \/ UpdateEntries(p)
    \/ ChangeStatusCommit(p)
    \/ EndDayCommit(p)
    \/ CorrectEntryCommit(p)
    \/ RefuseCorrection(p)
    \/ SetApprovalHold(p)
    \/ SetApprovalCommit(p)
    \/ BulkCommit(p)

Next == \E p \in Request : Arrive(p) \/ Proceed(p) \/ Abort(p)

Spec == Init /\ [][Next]_vars

\* Node runs every callback, PostgreSQL queues those who wait for a row (so a
\* waiter that keeps being let through gets it: strong fairness) and its
\* deadlock detector fires; no request has to arrive and nothing has to fail.
Fairness ==
    \A p \in Request : SF_vars(Proceed(p)) /\ WF_vars(DeadlockVictim(p))

FairSpec == Spec /\ Fairness

-----------------------------------------------------------------------------
(***************************************************************************)
(* Safety.  The tables have no constraint that keeps these facts and the   *)
(* handlers take no lock when they read, so several hold only as long as   *)
(* certain pairs of handlers have not overlapped on a driver.  Each says   *)
(* exactly which pairs: everything else is harmless.                       *)
(***************************************************************************)

\* A driver has two open work days only if two start-day requests overlapped:
\* no other pair of handlers can reopen a day or slip past the 409.
OpenDaysNeedRacingStarts ==
    \A dr \in Driver :
        \/ \A a, b \in OpenDays(dr) : a = b
        \/ {"start"} \in raced[dr]

\* A day has two open entries only if two status changes overlapped: a change
\* closes the entry it found, and corrections and end-day open none.
OpenEntriesNeedRacingChanges ==
    \A d \in StoredDays :
        \/ \A a, b \in OpenEntries(d) : a = b
        \/ {"change"} \in raced[day[d].driver]

\* An ended day has no entry left open (nothing would ever close it, since
\* openDay no longer finds the day) unless a status change overlapped end-day,
\* or left the day with two open entries of which end-day closes one.
ClosedDayHasNoOpenEntry ==
    \A d \in StoredDays :
        \/ day[d].end = NoTime
        \/ OpenEntries(d) = {}
        \/ {"change"} \in raced[day[d].driver]
        \/ {"change", "end"} \in raced[day[d].driver]

\* Each entry left open where none, or one, should be has the overlap behind it
\* that the two say.
OpenEntriesNeedRaces == OpenEntriesNeedRacingChanges /\ ClosedDayHasNoOpenEntry

\* The handlers that call recalcDay.
Summing == {"change", "end", "correct"}

\* The totals stored with a day are those of its entries as they are, a
\* running one counted up to some one moment, unless two handlers that sum up
\* overlapped: recalcDay reads the entries before it waits for the day row, and
\* may write back an outdated sum.
TotalsMatchEntries ==
    \A d \in StoredDays :
        \/ day[d].tally \in Tallies(entry, d)
        \/ \E a, b \in Summing : {a, b} \in raced[day[d].driver]

\* The revision of a day equals the number of updates its audit trail accounts
\* for (end-day makes two): no handler's update or audit row is ever lost or
\* doubled, however the handlers interleave, fail or deadlock.
AuditAccountsForRevisions ==
    \A d \in StoredDays :
        /\ audit[d].started = 1
        /\ day[d].rev = audit[d].started + audit[d].edited + 2 * audit[d].ended

(***************************************************************************)
(* What a step may never do.                                               *)
(***************************************************************************)

\* Every change of a day or an entry raises its revision; otherwise a client
\* that names the revision it knows would not notice the change.
RevisionsGrow ==
    [][/\ \A d \in Day : day'[d] # day[d] => day'[d].rev > day[d].rev
       /\ \A e \in Entry : entry'[e] # entry[e] => entry'[e].rev > entry[e].rev]_vars

\* Once corrected by hand, an entry keeps its times until it is corrected
\* again, except for a handler that had read it before the correction.
CorrectionSticks ==
    [][\A e \in Entry :
        /\ entry[e].source # "ANDROID"
        /\ <<entry'[e].start, entry'[e].end>> # <<entry[e].start, entry[e].end>>
        => \E p \in Request :
              /\ txn[p].entry = e
              /\ txn[p].kind = "correct" \/ "correct" \in txn[p].seen]_vars

\* A driver's correction lands on an approved day only if the approval was
\* given between the handler's check and its commit.
DriverCorrectionRespectsApproval ==
    [][\A p \in Request :
        /\ txn[p].actor = "DRIVER"
        /\ CorrectEntryCommit(p)
        => \/ day[txn[p].day].approval # "APPROVED"
           \/ txn[p].seen \cap {"approve", "bulk"} # {}]_vars

(***************************************************************************)
(* Liveness.                                                               *)
(***************************************************************************)

\* Every handler gives its connection back to the pool, although setApproval
\* and the driver's handlers lock days and entries in opposite orders.
EveryHandlerEnds ==
    \A p \in Request : txn[p].kind # "none" ~> txn[p].kind = "none"

-----------------------------------------------------------------------------
(***************************************************************************)
(* What a document claims and the handlers do not keep.                    *)
(***************************************************************************)

\* docs/WORK_TIME_CONFLICTS.md: "Work Time conflicts are stored in
\* work_time_conflicts".  A refused correction leaves its conflict there.
ConflictsAreStored ==
    [][\A p \in Request :
        RefuseCorrection(p) => txn[p].day \in conflict']_vars

=============================================================================
