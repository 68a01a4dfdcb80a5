-------------------------- MODULE MCCargoLifecycle --------------------------
(* Instances of CargoLifecycle for TLC. *)
EXTENDS CargoLifecycle, TLC

Few == {"PLANNED", "IN_TRANSIT", "DELIVERED", "CANCELLED", "UNLISTED"}

\* Neither rows nor requests nor client event ids are ever compared but for
\* equality.
Symmetry == Permutations(Cargo) \cup Permutations(Request) \cup Permutations(EventId)
=============================================================================
