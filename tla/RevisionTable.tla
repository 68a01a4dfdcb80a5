---------------------------- MODULE RevisionTable ----------------------------
(***************************************************************************)
(* What the delta sync promises of its tables, without its statements,     *)
(* locks and answers: a client looks at the rows it wants to change, and   *)
(* then either all of them are changed in one step, or none is.  A row that *)
(* was there is counted on from the revision found, which may be old by    *)
(* then: nothing compares again when the rows are written.  A new row      *)
(* begins where the client says.                                           *)
(***************************************************************************)
EXTENDS Naturals

CONSTANTS Rows,    \* rows of the synchronised tables
          Own,     \* those of the driver that the clients belong to
          Clients

VARIABLES table,   \* the revision of each row, 0 if there is no row
          found    \* per client, the revision of each row it has looked at

vars == <<table, found>>

Init == /\ table \in [Rows -> Nat]
        /\ found = [c \in Clients |-> [r \in {} |-> 0]]

Look(c) == \E r \in Own \ DOMAIN found[c] :
    /\ found' = [found EXCEPT ![c] = [q \in DOMAIN @ \cup {r} |-> IF q = r THEN table[r] ELSE @[q]]]
    /\ UNCHANGED table

Close(c) == found' = [found EXCEPT ![c] = [r \in {} |-> 0]]

Replace(c) ==
    /\ table' \in [Rows -> Nat]
    /\ \A r \in Rows : IF r \notin DOMAIN found[c] THEN table'[r] = table[r]
                       ELSE IF found[c][r] > 0 THEN table'[r] = found[c][r] + 1 ELSE table'[r] > 0
    /\ Close(c)

\* The office and the other handlers work under locks: they count upwards.
Outside == \E changed \in SUBSET Rows :
    /\ table' \in [Rows -> Nat]
    /\ \A r \in Rows : IF r \in changed THEN table'[r] > table[r] ELSE table'[r] = table[r]
    /\ UNCHANGED found

Next == Outside \/ \E c \in Clients : Look(c) \/ Replace(c) \/ (Close(c) /\ UNCHANGED table)

Spec == Init /\ [][Next]_vars

=============================================================================
