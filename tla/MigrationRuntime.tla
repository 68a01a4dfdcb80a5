-------------------------- MODULE MigrationRuntime --------------------------
(***************************************************************************)
(* `npm run db:migrate` (database/migration-runtime.js), run from several  *)
(* places and by several releases of the backend against one database.     *)
(*                                                                         *)
(* migrate() holds a session-level advisory lock from its first statement  *)
(* to its last.  Its transactions are the atomic steps; between two of     *)
(* them the process can die, which rolls back and gives the lock up.       *)
(***************************************************************************)
EXTENDS Naturals

CONSTANTS Runner,    \* processes that run migrate()
          Migration, \* migrations by number, over all releases
          Baseline,  \* 001_baseline_logihero_schema
          Text,      \* contents a migration file can have
          Dep,       \* contents its declared checksumFiles can have
          None,      \* SQL NULL, or no row, or no file
          Release,   \* what is deployed: [text, dep], per migration
          Ledger0    \* ledgers found by the first run

\* dep stands for dependency_checksum, which old rows lack.
Row == [sum : {"none", "legacy", "v2"}, text : Text, dep : Dep \cup {None}]

LedgerType == [Migration -> Row \cup {None}]

\* The migrations a release ships.
Known(r) == {m \in Migration : r.text[m] # None}

ASSUME MigrationAssumption ==
    /\ Migration \subseteq Nat
    /\ Baseline \in Migration
    /\ \A m \in Migration : Baseline =< m
    /\ None \notin Text \cup Row \cup Runner
    /\ Release \subseteq [text : [Migration -> Text \cup {None}],
                          dep : [Migration -> Dep]]
    /\ Ledger0 \subseteq LedgerType
    /\ \A l \in Ledger0 : \A m \in Migration \ {Baseline} :
          l[m] # None => l[m].sum # "none"

VARIABLES exists, \* the table schema_migrations is there
          ledger, \* its rows
          schema, \* the text each migration was applied with, or None
          lock,   \* who holds the advisory lock
          run     \* the run each process is in

vars == <<exists, ledger, schema, lock, run>>

\* Stages of migrate(); a stage is named for what it does next.
Working == {"bootstrap", "read", "heal", "rebaseline", "apply"}
Over    == {"idle", "done", "failed"}

\* applied is what the run last read of the ledger; to is its last migration
\* (that of --to, or the last one the release ships).
Run == [stage : Working \cup Over \cup {"waiting"}, release : Release,
        to : Migration, applied : LedgerType]

NoRows == [m \in Migration |-> None]

TypeOK ==
    /\ exists \in BOOLEAN
    /\ ledger \in LedgerType
    /\ schema \in [Migration -> Text \cup {None}]
    /\ lock \in Runner \cup {None}
    /\ run \in [Runner -> Run]

Init ==
    /\ exists \in BOOLEAN
    /\ ledger \in Ledger0
    /\ ~exists => ledger = NoRows
    /\ schema = [m \in Migration |->
                   IF ledger[m] = None THEN None ELSE ledger[m].text]
    /\ lock = None
    /\ \E r \in Release : \E to \in Known(r) :
          run = [p \in Runner |-> [stage |-> "idle", release |-> r, to |-> to,
                                  applied |-> NoRows]]

-----------------------------------------------------------------------------
(***************************************************************************)
(* evaluateMigrationState, for a release and the rows it has read.         *)
(***************************************************************************)
Recorded(rows) == {m \in Migration : rows[m] # None}

Unknown(r, rows) == Recorded(rows) \ Known(r)

Pending(r, rows) == Known(r) \ Recorded(rows)

MissingSum(r, rows) ==
    {m \in Recorded(rows) \cap Known(r) : rows[m].sum = "none"}

\* Mutant: legacy rows are recognised by their dependencies alone.
LegacyByDep(r, rows, m) ==
    rows[m].sum = "legacy" /\ rows[m].dep = r.dep[m]

\* The stored checksum covers the file, and under the old algorithm its
\* dependencies too.
Legacy(r, rows, m) ==
    rows[m].sum = "legacy" /\ rows[m].text = r.text[m] /\ rows[m].dep = r.dep[m]

Current(r, rows, m) == rows[m].sum = "v2" /\ rows[m].text = r.text[m]

NeedsRebaseline(r, rows) ==
    {m \in Recorded(rows) \cap Known(r) : Legacy(r, rows, m)}

Mismatched(r, rows) ==
    {m \in (Recorded(rows) \cap Known(r)) \ MissingSum(r, rows) :
        ~Current(r, rows, m) /\ m \notin NeedsRebaseline(r, rows)}

Gaps(r, rows) ==
    {m \in Recorded(rows) \cap Known(r) : \E k \in Pending(r, rows) : k < m}

\* Mutant: rows this release does not know are tolerated.
ValidIfKnown(r, rows, allowed) ==
    /\ Mismatched(r, rows) = {}
    /\ MissingSum(r, rows) \subseteq allowed
    /\ Gaps(r, rows) = {}

\* Mutant: gaps in the sequence are tolerated.
ValidWithGaps(r, rows, allowed) ==
    /\ Unknown(r, rows) = {}
    /\ Mismatched(r, rows) = {}
    /\ MissingSum(r, rows) \subseteq allowed

\* assertStateIsValid; allowed are the rows that may lack a checksum.
Valid(r, rows, allowed) ==
    /\ Unknown(r, rows) = {}
    /\ Mismatched(r, rows) = {}
    /\ MissingSum(r, rows) \subseteq allowed
    /\ Gaps(r, rows) = {}

\* Mutant: the target itself is left out.
TodoBelow(x) == {m \in Known(x.release) : m < x.to /\ x.applied[m] = None}

\* The selected migrations that the loop has still to apply.
Todo(x) == {m \in Known(x.release) : m =< x.to /\ x.applied[m] = None}

-----------------------------------------------------------------------------
(***************************************************************************)
(* migrate(), stage by stage.                                              *)
(***************************************************************************)
\* The finally clause: the run is over and the lock released.
End(p, outcome) ==
    /\ run' = [run EXCEPT ![p].stage = outcome, ![p].applied = NoRows]
    /\ lock' = None

\* A process is started with a release and a target that release ships;
\* it asks for the lock.
Start(p) ==
    /\ run[p].stage \in Over
    /\ \E r \in Release : \E to \in Known(r) :
         run' = [run EXCEPT ![p] = [stage |-> "waiting", release |-> r,
                                    to |-> to, applied |-> NoRows]]
    /\ UNCHANGED <<exists, ledger, schema, lock>>

Acquire(p) ==
    /\ run[p].stage = "waiting"
    /\ lock = None
    /\ lock' = p
    /\ run' = [run EXCEPT ![p].stage = "bootstrap"]
    /\ UNCHANGED <<exists, ledger, schema>>

\* ensureMigrationTable, in a transaction.
Bootstrap(p) ==
    /\ run[p].stage = "bootstrap"
    /\ exists' = TRUE
    /\ run' = [run EXCEPT ![p].stage = "read"]
    /\ UNCHANGED <<ledger, schema, lock>>

\* Where a run goes once it has read these rows.
AfterHeal(r, rows) ==
    IF NeedsRebaseline(r, rows) = {} THEN "apply" ELSE "rebaseline"

AfterRead(r, rows) ==
    IF rows[Baseline] # None /\ rows[Baseline].sum = "none"
    THEN "heal" ELSE AfterHeal(r, rows)

Read(p) ==
    LET r == run[p].release IN
    /\ run[p].stage = "read"
    /\ Valid(r, ledger, {Baseline})
    /\ run' = [run EXCEPT ![p].stage = AfterRead(r, ledger),
                          ![p].applied = ledger]
    /\ UNCHANGED <<exists, ledger, schema, lock>>

\* Mutant: the lock is kept when the state is rejected.
RejectHoldingLock(p) ==
    /\ run[p].stage = "read"
    /\ ~Valid(run[p].release, ledger, {Baseline})
    /\ run' = [run EXCEPT ![p].stage = "failed"]
    /\ UNCHANGED <<exists, ledger, schema, lock>>

Reject(p) ==
    /\ run[p].stage = "read"
    /\ ~Valid(run[p].release, ledger, {Baseline})
    /\ End(p, "failed")
    /\ UNCHANGED <<exists, ledger, schema>>

\* A baseline row without a checksum gets the one of the release's file, and
\* the ledger is read again.
Heal(p) ==
    LET r    == run[p].release
        rows == [ledger EXCEPT ![Baseline] =
                   IF @ # None /\ @.sum = "none"
                   THEN [sum |-> "v2", text |-> r.text[Baseline],
                         dep |-> IF @.dep = None THEN r.dep[Baseline] ELSE @.dep]
                   ELSE @]
    IN
    /\ run[p].stage = "heal"
    /\ ledger' = rows
    /\ run' = [run EXCEPT ![p].stage = AfterHeal(r, rows), ![p].applied = rows]
    /\ UNCHANGED <<exists, schema, lock>>

\* Rows with a legacy checksum get one of the present form, in one transaction,
\* provided each still has the checksum that was read.
Rebaseline(p) ==
    LET r    == run[p].release
        rows == [m \in Migration |->
                   IF /\ m \in NeedsRebaseline(r, run[p].applied)
                      /\ ledger[m] # None
                      /\ Legacy(r, ledger, m)
                   THEN [ledger[m] EXCEPT !.sum = "v2", !.text = r.text[m]]
                   ELSE ledger[m]]
    IN
    /\ run[p].stage = "rebaseline"
    /\ ledger' = rows
    /\ IF Valid(r, rows, {Baseline})
       THEN /\ run' = [run EXCEPT ![p].stage = "apply", ![p].applied = rows]
            /\ UNCHANGED lock
       ELSE End(p, "failed")
    /\ UNCHANGED <<exists, schema>>

\* up() and the ledger row, in one transaction; the ids that were read before
\* the loop decide what is next, the primary key that it is not there yet.
ApplyNext(p) ==
    LET x == run[p] IN
    /\ x.stage = "apply"
    /\ \E m \in Todo(x) :
        LET row == [sum |-> "v2", text |-> x.release.text[m],
                    dep |-> x.release.dep[m]] IN
        /\ \A k \in Todo(x) : m =< k
        /\ ledger[m] = None
        /\ schema' = [schema EXCEPT ![m] = row.text]
        /\ ledger' = [ledger EXCEPT ![m] = row]
        /\ run' = [run EXCEPT ![p].applied[m] = row]
    /\ UNCHANGED <<exists, lock>>

\* Mutant: up() runs outside the transaction.
FailsHalfway(p) ==
    LET x == run[p] IN
    /\ x.stage = "apply"
    /\ \E m \in Todo(x) :
        /\ \A k \in Todo(x) : m =< k
        /\ schema' = [schema EXCEPT ![m] = x.release.text[m]]
    /\ End(p, "failed")
    /\ UNCHANGED <<exists, ledger>>

\* A statement fails, up() or a target's verify() throws, or the last look at
\* the ledger is not Valid: the transaction is rolled back and the error thrown.
Fails(p) ==
    /\ run[p].stage \in Working
    /\ End(p, "failed")
    /\ UNCHANGED <<exists, ledger, schema>>

\* The last look at the ledger; the target's verify() finds the live schema in
\* order.
Finish(p) ==
    /\ run[p].stage = "apply"
    /\ Todo(run[p]) = {}
    /\ Valid(run[p].release, ledger, {})
    /\ End(p, "done")
    /\ UNCHANGED <<exists, ledger, schema>>

\* The process dies: its session ends, the open transaction is rolled back
\* and PostgreSQL releases the advisory lock.
Crash(p) ==
    /\ run[p].stage \notin Over
    /\ run' = [run EXCEPT ![p].stage = "idle", ![p].applied = NoRows]
    /\ lock' = IF lock = p THEN None ELSE lock
    /\ UNCHANGED <<exists, ledger, schema>>

Work(p) ==
    \/ Bootstrap(p)
    \/ Read(p)
    \/ Reject(p)
    \/ Heal(p)
    \/ Rebaseline(p)
    \/ ApplyNext(p)
    \/ Fails(p)
    \/ Finish(p)

Next == \E p \in Runner : Start(p) \/ Acquire(p) \/ Work(p) \/ Crash(p)

Spec == Init /\ [][Next]_vars

\* A run that has the lock goes on; those who wait for the lock are queued, so
\* one that keeps being able to get it gets it.  Nobody has to start or crash.
Fairness ==
    \A p \in Runner : WF_vars(Work(p)) /\ SF_vars(Acquire(p))

FairSpec == Spec /\ Fairness

-----------------------------------------------------------------------------
(***************************************************************************)
(* Properties.                                                             *)
(***************************************************************************)

\* Runners are serialised: whoever is between lock and unlock holds the lock,
\* and it is held by nobody else (a crash does not leave it behind).
RunnersAreSerialised ==
    \A p \in Runner : run[p].stage \in Working <=> lock = p

\* The ledger says exactly what was done to the schema: a migration is recorded
\* if and only if it took effect, and with the text it had then.  (A baseline
\* row that had no checksum is taken on trust.)
LedgerIsTruthful ==
    \A m \in Migration :
        /\ ledger[m] = None <=> schema[m] = None
        /\ ledger[m] # None /\ m # Baseline => ledger[m].text = schema[m]

\* docs/DATABASE_MIGRATIONS.md: "Any changed applied migration, unknown ledger
\* entry, sequence gap [...] fails closed."  When a migration is applied, the
\* release knows every migration that the ledger holds at that moment, with
\* the same text, although it looked at the ledger some transactions ago.
FailsClosed ==
    [][\A p \in Runner :
        ApplyNext(p) =>
            /\ Recorded(ledger) \subseteq Known(run[p].release)
            /\ \A m \in Recorded(ledger) :
                 /\ ledger[m].text = run[p].release.text[m]
                 /\ ledger[m].sum = "v2"]_vars

\* A ledger row stays: it only ever gets a checksum of the present form, and
\* keeps the text that a checksum it already had stood for.
RowsAreOnlyHealed ==
    [][\A m \in Migration :
        ledger[m] # None /\ ledger'[m] # ledger[m] =>
            /\ ledger'[m] # None
            /\ ledger[m].sum # "v2"
            /\ ledger'[m].sum = "v2"
            /\ ledger[m].sum = "legacy" => ledger'[m].text = ledger[m].text]_vars

\* A run that reports MIGRATED leaves everything up to its target applied, with
\* the text of its release.
DoneMeansApplied ==
    [][\A p \in Runner :
        run[p].stage # "done" /\ run'[p].stage = "done" =>
            \A m \in Known(run[p].release) :
                m =< run[p].to =>
                    /\ ledger[m] # None
                    /\ ledger[m].text = run[p].release.text[m]]_vars

\* The runtime keeps the abstract promise about the schema.
Evolution == INSTANCE SchemaEvolution WITH
    Migration <- Migration, Text <- Text, None <- None, schema <- schema
EvolvesInOrder == Evolution!Spec

\* Every run comes to an end: no lock is left behind that others wait for.
EveryRunEnds ==
    \A p \in Runner : run[p].stage = "waiting" ~> run[p].stage \in Over

=============================================================================
