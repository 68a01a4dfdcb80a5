--------------------------- MODULE BackupRestore ---------------------------
(***************************************************************************)
(* The operator's backup of the database while the server writes to it     *)
(* (db-backup.js, database-inspection.js), and its restore into a new one  *)
(* (db-restore.js). Of a table only the number of its rows is kept.        *)
(***************************************************************************)
EXTENDS Naturals

CONSTANTS Absent, Tables, MaxRows, MaxRuns

VARIABLES source,   \* rows of each table
          script,   \* the step of the backup or of the restore that runs
          counts,   \* rows of each table that the backup has counted, or Absent
          archive,  \* the dump file: its rows, and whether it was damaged since; or Absent
          manifest, \* rowCounts, and whether the checksum is that of the archive; or Absent
          target,   \* the new database: Absent until migrated, or the rows of each table
          result,   \* what the last script said
          runs,
          \* History, read by no action:
          busy      \* the source was written to since the counting began that the manifest tells

backupVars == <<source, script, counts, archive, manifest, target, result, runs, busy>>

NoScript == "none"
NoCounts == [t \in Tables |-> Absent]
Rows == [Tables -> 0..MaxRows]
Empty == [t \in Tables |-> 0]


\* Not damaged, damaged where it is kept, or damaged while a script relies on it
Damages == {"no", "kept", "used"}

ASSUME BackupAssumption == MaxRows \in Nat /\ Absent \notin [rows : Rows, damaged : Damages]

BackupTypeOK ==
    /\ source \in Rows /\ counts \in [Tables -> 0..MaxRows \cup {Absent}] /\ target \in Rows \cup {Absent}
    /\ archive # Absent => archive.rows \in Rows
    /\ manifest # Absent => manifest.counts \in Rows

Starts(first) == script = NoScript /\ runs < MaxRuns /\ runs' = runs + 1 /\ result' = "" /\ script' = first
Ends(answer) == script' = NoScript /\ result' = answer

\* The application's own writes; it deletes a row by marking it.
WriteRow(t) ==
    /\ source[t] < MaxRows /\ source' = [source EXCEPT ![t] = @ + 1]
    /\ busy' = TRUE
    /\ UNCHANGED <<script, counts, archive, manifest, target, result, runs>>

-----------------------------------------------------------------------------
(* The backup *)

Backup ==
    /\ Starts("count") /\ counts' = NoCounts /\ busy' = FALSE
    /\ UNCHANGED <<source, archive, manifest, target>>

\* inspectDatabase: a query for each table, with no transaction around them
CountTable(t) ==
    /\ script = "count" /\ counts[t] = Absent /\ counts' = [counts EXCEPT ![t] = source[t]]
    /\ UNCHANGED <<source, script, archive, manifest, target, result, runs, busy>>

\* pg_dump sees one state of all the tables.
Dump ==
    /\ script = "count" /\ \A t \in Tables : counts[t] # Absent
    /\ archive' = [rows |-> source, damaged |-> "no"]
    /\ manifest' = IF manifest = Absent THEN Absent ELSE [manifest EXCEPT !.fits = FALSE]
    /\ script' = "dumped"
    /\ UNCHANGED <<source, counts, target, result, runs, busy>>

\* The checksum is that of the file as it is read now.
WriteManifest ==
    /\ script = "dumped" /\ manifest' = [counts |-> counts, fits |-> TRUE, busy |-> busy]
    /\ Ends("BACKUP_OK")
    /\ UNCHANGED <<source, counts, archive, target, runs, busy>>

-----------------------------------------------------------------------------
(* The restore *)

\* loadManifest
CanRestore == archive # Absent /\ manifest # Absent /\ manifest.fits

\* assertEmptyTarget, then migrate, and every table is empty.
Restore ==
    /\ CanRestore /\ target = Absent
    /\ Starts("migrated") /\ target' = Empty
    /\ UNCHANGED <<source, counts, archive, manifest, busy>>

\* pg_restore stops at the first error, with what it has loaded; of a file that is
\* damaged after its checksum was taken it may load a part and see no error.
Load ==
    /\ script = "migrated"
    /\ \/ target' = archive.rows /\ script' = "loaded" /\ UNCHANGED result
       \/ /\ target' \in {r \in Rows : \A t \in Tables : r[t] <= archive.rows[t]}
          /\ \/ Ends("failed")
             \/ archive.damaged = "used" /\ script' = "loaded" /\ UNCHANGED result
    /\ UNCHANGED <<source, counts, archive, manifest, runs, busy>>

ConfirmsLoad == TRUE
Confirms == target = manifest.counts
Confirm ==
    /\ script = "loaded" /\ Ends(IF Confirms THEN "RESTORE_OK" ELSE "counts do not match")
    /\ UNCHANGED <<source, counts, archive, manifest, target, runs, busy>>

-----------------------------------------------------------------------------
\* An error, an integrity check that fails, or the process stops.
ScriptFails ==
    /\ script # NoScript /\ Ends("failed")
    /\ UNCHANGED <<source, counts, archive, manifest, target, runs, busy>>

\* The archive is cut short or overwritten, also between pg_dump and its checksum,
\* and between the check of the checksum and pg_restore.
Damage ==
    /\ archive # Absent
    /\ archive' = [archive EXCEPT !.damaged = IF script \in {"dumped", "migrated", "loaded"} THEN "used" ELSE "kept"]
    /\ manifest' = IF manifest = Absent THEN Absent ELSE [manifest EXCEPT !.fits = FALSE]
    /\ result' = ""
    /\ UNCHANGED <<source, script, counts, target, runs, busy>>

\* The operator drops the target and creates it anew.
Recreate ==
    /\ script = NoScript /\ target' = Absent /\ result' = ""
    /\ UNCHANGED <<source, script, counts, archive, manifest, runs, busy>>

BackupInit ==
    /\ source \in Rows /\ script = NoScript /\ counts = NoCounts /\ archive = Absent /\ manifest = Absent
    /\ target = Absent /\ result = "" /\ runs = 0 /\ busy = FALSE

BackupNext ==
    \/ Backup \/ Dump \/ WriteManifest \/ Restore \/ Load \/ Confirm \/ ScriptFails \/ Damage \/ Recreate
    \/ \E t \in Tables : WriteRow(t) \/ CountTable(t)

BackupSpec == BackupInit /\ [][BackupNext]_backupVars

(* A restore that says RESTORE_OK has loaded the rows that the backup counted,
   although the backup counted table by table before it dumped, from a file that
   was not damaged where it was kept, and, but for damage under a script's hands,
   the whole of it; and a backup that nothing was written under, and whose file
   was not damaged so, is never refused for its counts. Damage between the
   checksum and the program that reads or wrote the file is the one that goes
   unseen (db-backup.js 52-76, checksum at 65; db-restore.js 71-91, checksum at
   19, pg_restore at 82). *)
RestoreOkMeansAll ==
    /\ result = "RESTORE_OK" =>
          /\ target = manifest.counts /\ archive.damaged # "kept"
          /\ archive.damaged = "no" => target = archive.rows
    /\ result = "counts do not match" => manifest.busy \/ archive.damaged = "used"

=============================================================================
