------------------------------ MODULE DeltaSync ------------------------------
(***************************************************************************)
(* GET and POST /api/sync (sync.routes.js), the handlers that write the    *)
(* same tables besides it, and the driver's phone (DeltaSyncEngine.kt,     *)
(* DashboardViewModel.syncWithBackend), which pulls, pushes what it has    *)
(* pending, and then stores what it pulled.                                *)
(*                                                                         *)
(* A push is one READ COMMITTED transaction.  It takes its records one by  *)
(* one: SELECTs that lock nothing (Check), then the upsert, which locks    *)
(* the row to the end (Write).  Any other transaction can commit between.  *)
(***************************************************************************)
EXTENDS Naturals, Sequences, SequencesExt

CONSTANTS Days, Entries,  \* rows of work_days and work_time_entries
          Works,          \* rows of work_times, which the phone keeps too
          Own,            \* the rows of the driver whose clients these are
          Slots,          \* pushes the server can be serving at a time
          Syncs,          \* coroutines of the phone that sync at a time
          Start,          \* what there is at first, and bounds: see Scene
          None,
          MaxAttempts     \* of a sync, over lost connections

Rows == Days \cup Entries \cup Works

\* rev is 0 where there is no row.  edit tells contents apart, stamped that
\* updated_at is set, locked that a day is approved or has the office's note.
RowType == [rev : Nat, edit : Nat, stamped : BOOLEAN, parent : Days \cup {None}, locked : BOOLEAN]

\* An element of the body's arrays; base is 0 and parent None where left out.
\* Only entries are part of a day.
Record == {rec \in [row : Rows, base : Nat, edit : Nat, parent : Days \cup {None}] :
             rec.parent # None => rec.row \in Entries}

\* The rows at first, what other clients of the driver push, and how many
\* pushes, edits, syncs and writes of the office and of others there will be.
Scene == [row : [Rows -> RowType], batches : SUBSET Seq(Record),
          pushes : Nat, edits : Nat, syncs : Nat, office : Nat, others : Nat]

ASSUME DeltaSyncAssumption ==
    /\ Own \subseteq Rows
    /\ None \notin Days \cup Slots /\ IsFiniteSet(Works) /\ MaxAttempts \in Nat \ {0}
    /\ Days \cap Entries = {} /\ Works \cap (Days \cup Entries) = {}
    /\ \A t \in Start :
          /\ t \in Scene
          /\ \A b \in t.batches : IsInjective([i \in DOMAIN b |-> b[i].row])
          /\ \A r \in Rows \ Own : t.row[r].rev > 0
          /\ \A r \in Rows \ Entries : t.row[r].parent = None

VARIABLES row,     \* the committed rows
          req,     \* Slots -> the push served
          phone,   \* Works -> the phone's copy
          sync,    \* Syncs -> where the coroutine is
          left,    \* the rest of the Scene: what may still happen
          \* History, read by no action:
          stored,  \* <<row, edit, revision>> that work_times has held
          shut     \* Slots -> days and entries locked ever since the push came

vars == <<row, req, phone, sync, left, stored, shut>>

Empty == [r \in {} |-> 0]
Idle == [at |-> "idle", todo |-> <<>>, found |-> Empty, mine |-> Empty, bad |-> {}]
Off == [at |-> "off", slot |-> None, left |-> 0, batch |-> <<>>, pulled |-> Empty]
Copy == [rev : Nat, edit : Nat, pending : BOOLEAN]
Answers == {"ok", "conflict", "denied", "failed"}

Busy(s) == req[s].at \in {"check", "write"}
Head1(s) == Head(req[s].todo)
View(s) == [r \in Rows |-> IF r \in DOMAIN req[s].mine THEN req[s].mine[r] ELSE row[r]]
Free(S) == \A s \in Slots : S \cap DOMAIN req[s].mine = {}
Use(kind) == left[kind] > 0 /\ left' = [left EXCEPT ![kind] = @ - 1]
LockedRows(v) == {d \in Days : v[d].locked}
                 \cup {e \in Entries : v[e].parent # None /\ v[v[e].parent].locked}
StillLocked(v) == [s \in Slots |-> shut[s] \cap LockedRows(v)]
Held(new) == {<<w, new[w].edit, new[w].rev>> : w \in {q \in Works : new[q].rev > 0}}

-----------------------------------------------------------------------------
(* POST /api/sync *)

\* Only the entries of a day are asked about.
EntryLocked(v, rec) == v[rec.row].parent # None /\ v[v[rec.row].parent].locked
\* isWorkDayLocked, of the day, or of the day that the stored entry is part of.
Locked(v, rec) == rec.row \in LockedRows(v)

\* A client ahead of the server is stale, one behind it is not.
StaleAhead(old, rec) == old.rev > 0 /\ rec.base > old.rev
\* The revision is compared whenever the client names one.
Stale(old, rec) == old.rev > 0 /\ rec.base > 0 /\ rec.base # old.rev

\* A row of another driver, or of a day that is another driver's.
Foreign(v, rec) == rec.row \notin Own \/ v[rec.row].parent \notin Own \cup {None}
\* A day is named that the driver does not have, or another than the entry's.
UnownedDay(v, rec) == rec.parent # None /\ (rec.parent \notin Own \/ v[rec.parent].rev = 0)
Moved(v, rec) == None \notin {rec.parent, v[rec.row].parent} /\ rec.parent # v[rec.row].parent
IntoLocked(v, rec) == rec.parent # None /\ v[rec.parent].locked

\* What applyChange makes of a record, from what its transaction sees.
Verdict(v, rec) ==
    IF Foreign(v, rec) THEN "denied"
    ELSE IF Locked(v, rec) \/ Moved(v, rec) THEN "rejected"
    ELSE IF UnownedDay(v, rec) THEN "denied"
    ELSE IF IntoLocked(v, rec) THEN "rejected"
    ELSE IF Stale(v[rec.row], rec) THEN "conflict" ELSE "write"

\* BEGIN
Accept(s, batch) ==
    /\ req[s] = Idle /\ Use("pushes")
    /\ req' = [req EXCEPT ![s] = [Idle EXCEPT !.at = "check", !.todo = batch]]
    /\ shut' = [shut EXCEPT ![s] = LockedRows(row)]
    /\ UNCHANGED <<row, stored>>

Send(s) == \E b \in left.batches : Accept(s, b) /\ UNCHANGED <<phone, sync>>

\* A rejected, denied or stale record leaves the others to be looked at.
Check(s) ==
    /\ req[s].at = "check" /\ req[s].todo # <<>>
    /\ LET rec == Head1(s)
           verdict == Verdict(View(s), rec)
           found == IF verdict \in {"write", "conflict"} THEN {rec.row} ELSE {} IN
       req' = [req EXCEPT
          ![s].found = [r \in DOMAIN @ \cup found |-> IF r \in found THEN row[r].rev ELSE @[r]],
          ![s].at = IF verdict = "write" THEN "write" ELSE @,
          ![s].todo = IF verdict = "write" THEN @ ELSE Tail(@),
          ![s].bad = IF verdict = "write" THEN @ ELSE @ \cup {verdict}]
    /\ UNCHANGED <<row, phone, sync, left, stored, shut>>

\* A new row has the revision that the client names for it.
Counted(rec, found) == IF found > 0 THEN found + 1 ELSE IF rec.base > 0 THEN rec.base ELSE 1
\* INSERT ... ON CONFLICT DO UPDATE of the columns sent, whatever is there now.
Upserted(s) ==
    LET rec == Head1(s) IN
    [row[rec.row] EXCEPT !.rev = Counted(rec, req[s].found[rec.row]), !.edit = rec.edit, !.stamped = TRUE,
                         !.parent = IF rec.parent = None THEN @ ELSE rec.parent]

\* The row to be inserted is refused before the one that is there is looked for.
NamesNoDay(rec) == rec.row \in Entries /\ rec.parent = None

Write(s) ==
    /\ req[s].at = "write" /\ ~NamesNoDay(Head1(s)) /\ Free({Head1(s).row})
    /\ req' = [req EXCEPT ![s].at = "check", ![s].todo = Tail(@), ![s].mine =
                  [r \in DOMAIN @ \cup {Head1(s).row} |-> IF r = Head1(s).row THEN Upserted(s) ELSE @[r]]]
    /\ UNCHANGED <<row, phone, sync, left, stored, shut>>

\* A stale record is reported and the rest is kept.
ResultPartial(bad) == IF "denied" \in bad THEN "denied" ELSE "ok"
Result(bad) == IF "denied" \in bad THEN "denied" ELSE IF "conflict" \in bad THEN "conflict" ELSE "ok"

\* Only a 200 commits.
Finish(s) ==
    /\ req[s].at = "check" /\ req[s].todo = <<>>
    /\ LET result == Result(req[s].bad) IN
       /\ req' = [req EXCEPT ![s] = [Idle EXCEPT !.at = result]]
       /\ row' = IF result = "ok" THEN View(s) ELSE row
    /\ stored' = stored \cup Held(row') /\ shut' = StillLocked(row')
    /\ UNCHANGED <<phone, sync, left>>

NeverDeadlocked(s) == FALSE
\* PostgreSQL's deadlock detector fails one of the transactions of a cycle.
Deadlocked(s) == \E D \in SUBSET Slots : s \in D /\ \A t \in D :
    req[t].at = "write" /\ \E u \in D \ {t} : Head1(t).row \in DOMAIN req[u].mine

Fail(s) ==
    /\ Deadlocked(s) \/ (req[s].at = "write" /\ NamesNoDay(Head1(s)))
    /\ req' = [req EXCEPT ![s] = [Idle EXCEPT !.at = "failed"]]
    /\ UNCHANGED <<row, phone, sync, left, stored, shut>>

\* The answer to another client, or one nobody waits for any more.
Discard(s) ==
    /\ req[s].at \in Answers /\ \A k \in Syncs : sync[k].slot # s
    /\ req' = [req EXCEPT ![s] = Idle]
    /\ UNCHANGED <<row, phone, sync, left, stored, shut>>

-----------------------------------------------------------------------------
(* The other writers, each a transaction of its own *)

Other(kind, new) ==
    /\ Use(kind)
    /\ row' = new /\ stored' = stored \cup Held(new) /\ shut' = StillLocked(new)
    /\ UNCHANGED <<req, phone, sync>>

\* The office decides on a day, in bulk on the day alone.  An approval locks it,
\* as a note does; a rejection without one opens it again.
Decide(d, entries, locks) ==
    LET parts == {d} \cup {e \in entries : row[e].rev > 0 /\ row[e].parent = d} IN
    /\ row[d].rev > 0 /\ Free(parts)
    /\ Other("office", [r \in Rows |->
            IF r \in parts THEN [row[r] EXCEPT !.rev = @ + 1, !.locked = r = d /\ locks] ELSE row[r]])

\* An entry is corrected and its day recalculated, by the driver if it is open.
Correct(e, office) ==
    LET d == row[e].parent IN
    /\ row[e].rev > 0 /\ d # None /\ Free({e, d})
    /\ office \/ ~row[d].locked
    /\ Other("office", [row EXCEPT ![e].rev = @ + 1, ![e].edit = 0, ![d].rev = @ + 1])

\* The status engine opens and ends periods without a stamp or a revision.
EnginePeriod(w) ==
    /\ Free({w})
    /\ Other("others", [row EXCEPT ![w].rev = IF @ = 0 THEN 1 ELSE @, ![w].edit = 0])

\* POST /api/sync-worktimes counts on from what is there and compares nothing.
SyncWorktimes(w) ==
    /\ Free({w})
    /\ Other("others", [row EXCEPT ![w].rev = @ + 1, ![w].edit = 0, ![w].stamped = TRUE])

-----------------------------------------------------------------------------
(* The phone *)

\* updateStatus ends the running period or starts one.
Edit(w) ==
    /\ Use("edits")
    /\ phone' = [phone EXCEPT ![w] = [rev |-> IF @.rev = 0 THEN 1 ELSE @.rev,
                                      edit |-> left.edits, pending |-> TRUE]]
    /\ UNCHANGED <<row, req, sync, stored, shut>>

StartSync(k) ==
    /\ sync[k] = Off /\ Use("syncs")
    /\ \E b \in SetToAllKPermutations({[row |-> w, base |-> phone[w].rev, edit |-> phone[w].edit, parent |-> None] :
                              w \in {q \in Works : phone[q].pending}}) :
          /\ Len(b) = Cardinality({w \in Works : phone[w].pending})
          /\ sync' = [sync EXCEPT ![k] = [Off EXCEPT !.at = "pull", !.left = MaxAttempts - 1, !.batch = b]]
    /\ UNCHANGED <<row, req, phone, stored, shut>>

\* GET /api/sync?since=0 passes rows over that have no stamp.
Pull(k) ==
    /\ sync[k].at = "pull"
    /\ sync' = [sync EXCEPT ![k].at = "push", ![k].pulled =
                  [w \in {q \in Works \cap Own : row[q].stamped} |-> [rev |-> row[w].rev, edit |-> row[w].edit, pending |-> FALSE]]]
    /\ UNCHANGED <<row, req, phone, left, stored, shut>>

\* syncRemoteWorkTimes: what was pulled replaces what is there.
Pulled(k) == [w \in Works |-> IF w \in DOMAIN sync[k].pulled THEN sync[k].pulled[w] ELSE phone[w]]

NothingToPush(k) ==
    /\ sync[k].at = "push" /\ sync[k].batch = <<>>
    /\ phone' = Pulled(k) /\ sync' = [sync EXCEPT ![k] = Off]
    /\ UNCHANGED <<row, req, left, stored, shut>>

Push(k) ==
    /\ sync[k].at = "push" /\ sync[k].batch # <<>>
    /\ \E s \in Slots : Accept(s, sync[k].batch) /\ sync' = [sync EXCEPT ![k].at = "wait", ![k].slot = s]
    /\ UNCHANGED phone

\* The next attempt takes the answer of the last one for its own.
RetriedKeepsSlot(k) == IF sync[k].left = 0 THEN Off ELSE [sync[k] EXCEPT !.at = "pull", !.left = @ - 1]
\* retryWithBackoff starts over from the pull, with the same pending records.
Retried(k) == IF sync[k].left = 0 THEN Off
              ELSE [sync[k] EXCEPT !.at = "pull", !.left = @ - 1, !.slot = None]

\* A request or its answer is lost, or comes too late.
Lose(k) ==
    /\ sync[k].at # "off"
    /\ sync' = [sync EXCEPT ![k] = Retried(k)]
    /\ UNCHANGED <<row, req, phone, left, stored, shut>>

Answered(k) ==
    /\ sync[k].at = "wait" /\ req[sync[k].slot].at \in Answers
    /\ LET answer == req[sync[k].slot].at IN
       /\ req' = [req EXCEPT ![sync[k].slot] = Idle]
       /\ sync' = [sync EXCEPT ![k] = IF answer = "failed" THEN Retried(k) ELSE Off]
       /\ phone' = IF answer = "ok" THEN Pulled(k) ELSE phone
    /\ UNCHANGED <<row, left, stored, shut>>

-----------------------------------------------------------------------------
Init ==
    /\ \E t \in Start : row = t.row /\ left = [t EXCEPT !.row = None]
    /\ req = [s \in Slots |-> Idle]
    /\ phone = [w \in Works |-> IF row[w].stamped THEN [rev |-> row[w].rev, edit |-> row[w].edit, pending |-> FALSE]
                                ELSE [rev |-> 0, edit |-> 0, pending |-> FALSE]]
    /\ sync = [k \in Syncs |-> Off]
    /\ stored = Held(row)
    /\ shut = [s \in Slots |-> {}]

Serve(s) == Check(s) \/ Write(s) \/ Finish(s) \/ Fail(s) \/ Discard(s)
Proceed(k) == Pull(k) \/ NothingToPush(k) \/ Push(k) \/ Answered(k)

Next == \/ \E s \in Slots : Send(s) \/ Serve(s)
        \/ \E d \in Days, entries \in {{}, Entries}, locks \in BOOLEAN : Decide(d, entries, locks)
        \/ \E e \in Entries, office \in BOOLEAN : Correct(e, office)
        \/ \E w \in Works : EnginePeriod(w) \/ SyncWorktimes(w) \/ Edit(w)
        \/ \E k \in Syncs : StartSync(k) \/ Proceed(k) \/ Lose(k)

\* The server serves what it has accepted, and the phone goes on; nothing says
\* that a connection fails, that anybody edits, or that a client sends.
Spec == Init /\ [][Next]_vars /\ \A s \in Slots : WF_vars(Serve(s))
                              /\ \A k \in Syncs : WF_vars(Proceed(k))

-----------------------------------------------------------------------------
TypeOK ==
    /\ row \in [Rows -> RowType]
    /\ \A s \in Slots :
          /\ req[s].at \in {"idle", "check", "write"} \cup Answers
          /\ req[s].todo \in Seq(Record)
          /\ DOMAIN req[s].mine \subseteq DOMAIN req[s].found
          /\ \A r \in DOMAIN req[s].mine : req[s].mine[r] \in RowType
    /\ phone \in [Works -> Copy]
    /\ \A k \in Syncs :
          /\ sync[k].at \in {"off", "pull", "push", "wait"} /\ sync[k].slot \in Slots \cup {None}
          /\ sync[k].slot # None <=> sync[k].at = "wait"

(* A push changes all the rows it may, in one step, or none; each row that was
   there is counted on from what the push found; rows of other drivers are never
   part of it. *)
Table == INSTANCE RevisionTable WITH Clients <- Slots,
            table <- [r \in Rows |-> row[r].rev],
            found <- [s \in Slots |-> req[s].found]
PushesReplaceWholeBatches == Table!Spec

(* A push changes a day that is approved or noted, or an entry of one, only if it
   came before the row was locked last (sync.routes.js 299, 311, 346). *)
LockedDaysStand == [][\A s \in Slots, r \in Days \cup Entries :
    Busy(s) /\ req'[s].at = "ok" /\ row'[r] # row[r] => r \notin shut[s]]_vars

(* What replaced an edit of the phone is not undone by sending the edit again,
   unless the push looked before it was replaced, or the replacement had left
   the revision as it was (DeltaSyncEngine.kt 46, sync.routes.js 326). *)
ReplacedEditsStayReplaced == [][\A w \in Works :
    LET x == row'[w].edit IN
    row[w].edit # x /\ x > 0 /\ (\E n \in 1..row[w].rev : <<w, x, n>> \in stored)
    => \/ \E s \in Slots : w \in DOMAIN req[s].mine /\ req[s].found[w] # row[w].rev
       \/ <<w, x, row[w].rev>> \in stored]_vars

\* No edit of the phone's rows is in the table at first; what other clients
\* push of these rows names the revision edited, which is one and the same for
\* an edit, and is none of the phone's own edits.
OtherClientsNameRevisions == \A t \in Start :
    /\ \A w \in Works : t.row[w].edit = 0
    /\ \A b \in t.batches : \A i \in DOMAIN b : b[i].row \in Works =>
          /\ b[i].base > 0 /\ b[i].edit > t.edits
          /\ \A c \in t.batches : \A j \in DOMAIN c :
                c[j].row = b[i].row /\ c[j].edit = b[i].edit => c[j].base = b[i].base

(* Pushes that wait for one another's rows do not wait for ever, and what the
   phone starts to send is answered or given up. *)
EveryPushEnds == \A s \in Slots : Busy(s) ~> ~Busy(s)

=============================================================================
