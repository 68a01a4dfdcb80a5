----------------------------- MODULE MCWorkTime -----------------------------
(***************************************************************************)
(* Instances of WorkTime for TLC.                                          *)
(***************************************************************************)
EXTENDS WorkTime, TLC

\* An approval without a reason and a rejection with one: whether there is a
\* reason is what later locks the day for the driver (admin_note).
TwoDecisions ==
    {[status |-> "APPROVED", note |-> FALSE],
     [status |-> "REJECTED", note |-> TRUE]}

Approve == {[status |-> "APPROVED", note |-> FALSE]}

\* Identities are uuids: only their equality matters.
Symmetry ==
    Permutations(Day) \cup Permutations(Entry) \cup Permutations(Request)

=============================================================================
