------------------------------- MODULE MCParts -------------------------------
(***************************************************************************)
(* Parts for TLC: a few requests, rows and clients of each part.           *)
(***************************************************************************)
EXTENDS Parts, TLC

CONSTANTS Things

\* One override with its reason, one without.
HotelEvents ==
    {[id |-> 1, to |-> t, override |-> FALSE, reason |-> FALSE] : t \in {"CHECKED_IN", "CHECKED_OUT"}}
    \cup {[id |-> 2, to |-> "CHECKED_IN", override |-> TRUE, reason |-> TRUE],
          [id |-> 2, to |-> "CANCELLED", override |-> TRUE, reason |-> FALSE]}

Symmetry == Permutations(Slots) \cup Permutations(Names) \cup Permutations(Things)

=============================================================================
