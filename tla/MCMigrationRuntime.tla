------------------------- MODULE MCMigrationRuntime -------------------------
(***************************************************************************)
(* Instances of MigrationRuntime for TLC: three migrations, two contents   *)
(* of each file and of the dependency files.                               *)
(***************************************************************************)
EXTENDS MigrationRuntime

Ids == 1 .. 3

Ships(a, b, c, d) ==
    [text |-> <<a, b, c>>, dep |-> [m \in Ids |-> d]]

\* The release that is out, the next one (a migration more, dependency files
\* changed), a branch that numbered its migration differently, and one that
\* edited a migration which is already applied.
Releases ==
    {Ships("t1", None, "t1", "d1"), Ships("t1", "t1", "t1", "d2"),
     Ships("t1", "t2", None, "d1")}

Written(sum) ==
    [sum |-> sum, text |-> "t1", dep |-> IF sum = "none" THEN None ELSE "d1"]

\* A new database; one whose baseline row has no checksum; one written by the
\* previous runtime; one half way.
Ledgers ==
    {<<None, None, None>>,
     <<Written("none"), None, None>>,
     <<Written("legacy"), None, None>>,
     <<Written("none"), Written("legacy"), None>>,
     <<Written("v2"), Written("legacy"), Written("legacy")>>}

=============================================================================
