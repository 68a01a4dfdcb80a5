--------------------------- MODULE MCTourProgress ---------------------------
(* An instance of TourProgress for TLC: two stops, the cargo that goes from the
   first to the second, and a hotel. *)
EXTENDS TourProgress, TLC

CONSTANTS s1, s2, c1, x1

PickupAt == [c \in Cargo |-> s1]
DeliverAt == [c \in Cargo |-> s2]

Stop(life, st, order) == [life |-> life, status |-> st, done |-> st = "COMPLETED", order |-> order]

\* A stop the driver arrived at or completed, and three that came to be so at the
\* office: closed by a live update, skipped or completed in the stop table.
PhoneCopies == {<<"ARRIVED", FALSE>>, <<"COMPLETED", TRUE>>,
                <<"PENDING", TRUE>>, <<"SKIPPED", FALSE>>, <<"COMPLETED", FALSE>>}

\* A tour not yet begun or on the way, its first stop made or not, its second
\* there or not yet, its cargo at either end; or no tour.
OnTheWay == {(Tour :> [life |-> "live", status |-> st]) @@ (s1 :> Stop("live", a, 0)) @@ (s2 :> b)
                @@ (c1 :> c) @@ (x1 :> x) :
             <<st, a>> \in {<<"PLANNED", "PENDING">>, <<"IN_PROGRESS", "PENDING">>, <<"IN_PROGRESS", "COMPLETED">>},
             b \in {Stop("live", "PENDING", 1), Stop("new", "PENDING", 0)},
             c \in {"PLANNED", "DELIVERED"}, x \in {"BOOKED"}}
NoTour == {(Tour :> [life |-> "new", status |-> "PLANNED"]) @@ (s1 :> Stop("new", "PENDING", 0))
              @@ (s2 :> Stop("new", "PENDING", 0)) @@ (c1 :> "DELIVERED") @@ (x1 :> "CHECKED_OUT")}
StartRows == OnTheWay \cup NoTour

Symmetry == Permutations(Request)
=============================================================================
