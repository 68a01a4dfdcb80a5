---------------------------- MODULE MCLiveStatus ----------------------------
(* Days to begin with: nothing yet, a period that is over, the second ride
   of the day. *)
EXTENDS LiveStatus

Nothing == [t \in Times |-> None]
Ran(k, e) == [type |-> k, end |-> e]
Scene == {Nothing, [Nothing EXCEPT ![0] = Ran("Rakodas", 1)],
          [Nothing EXCEPT ![0] = Ran("Vezetes", 1), ![1] = Ran("Rakodas", 2), ![2] = Ran("Vezetes", Running)]}
Symmetry == Permutations(Slots)
=============================================================================
