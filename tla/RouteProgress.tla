---------------------------- MODULE RouteProgress ----------------------------
(***************************************************************************)
(* How far it is still to go on a tour (tour-core-engine.js,               *)
(* tour-core.routes.js): the route stores with each stop how far it is     *)
(* from the one before, and every later change, a location included, adds  *)
(* up what is still to come from these and from what the tour had.         *)
(*                                                                         *)
(* Places lie on a line. As in the code, the coordinate 0 is none, and a   *)
(* distance of 0 that is read again is none. The routing service, like the *)
(* estimate that stands in for it, gives the distances between the points. *)
(* The handlers come one by one, and the stops stay in their order:        *)
(* TourProgress interleaves the handlers, moves stops and deletes them.    *)
(***************************************************************************)
EXTENDS Naturals, FiniteSets, Sequences

CONSTANTS MaxStops, MaxPlace, MaxRouteChanges \* bounds

VARIABLES place, status,  \* of the stops, by order_index
          segment,        \* stops.segment_distance_km
          start, terminal, remaining, \* of the tour
          live,           \* the place that the phone has sent, if not long ago
          routeChanges,
          \* History, read by no action:
          route,          \* the stops of the last route with their places, and its start
          refreshed       \* remaining was computed in the last step

routeVars == <<place, status, segment, start, terminal, remaining, live, routeChanges, route, refreshed>>

Stops == 1..MaxStops
Places == 0..MaxPlace
Distance(a, b) == IF a < b THEN b - a ELSE a - b

ASSUME RouteAssumption == {MaxStops, MaxPlace, MaxRouteChanges} \subseteq Nat

\* f[1] + ... + f[n], and that of the stops in S
Total(f, n) == LET sum[k \in 0..n] == IF k = 0 THEN 0 ELSE sum[k - 1] + f[k] IN sum[n]
TotalOver(f, S) == Total([s \in Stops |-> IF s \in S THEN f[s] ELSE 0], MaxStops)

RouteTypeOK ==
    /\ place \in [Stops -> Places] /\ status \in [Stops -> {"PENDING", "COMPLETED"}]
    /\ segment \in [Stops -> Places] /\ {start, terminal, live} \subseteq Places
    /\ remaining \in Nat /\ routeChanges \in 0..MaxRouteChanges
    /\ route.start \in Places /\ \A s \in DOMAIN route.place : s \in Stops /\ route.place[s] \in Places \ {0}

-----------------------------------------------------------------------------
(* calculateTourRoute *)

IsOpen(s, st) == st[s] # "COMPLETED"
Visited(pl, st) == {s \in Stops : IsOpen(s, st) /\ pl[s] # 0}
Rank(S, s) == Cardinality({t \in S : t <= s})
InOrder(S) == [i \in 1..Cardinality(S) |-> CHOOSE s \in S : Rank(S, s) = i]

\* The points of the route: the depot, the open stops with coordinates, and the
\* terminal, if it is not where the last of these is.
RoutePoints(pl, st) ==
    LET stops == InOrder(Visited(pl, st))
        points == (IF start = 0 THEN <<>> ELSE <<start>>) \o [i \in DOMAIN stops |-> pl[stops[i]]]
    IN IF terminal = 0 \/ (points # <<>> /\ points[Len(points)] = terminal) THEN points ELSE Append(points, terminal)

Legs(points) == [i \in {j \in DOMAIN points : j + 1 \in DOMAIN points} |-> Distance(points[i], points[i + 1])]

\* Without a depot no leg leads to the first stop.
LegToStopFromTheFirst(i) == i
LegToStop(i) == IF start = 0 THEN i - 1 ELSE i

\* The other stops keep what is stored with them.
Segments(pl, st) ==
    LET stops == Visited(pl, st)
        legs == Legs(RoutePoints(pl, st))
        legTo(s) == LegToStop(Rank(stops, s))
    IN [s \in Stops |-> IF s \notin stops THEN segment[s]
                        ELSE IF legTo(s) \in DOMAIN legs THEN legs[legTo(s)] ELSE 0]

Planned(pl, st) == LET legs == Legs(RoutePoints(pl, st)) IN Total(legs, Cardinality(DOMAIN legs))

-----------------------------------------------------------------------------
(* calculateProgress, and refreshProgress, which stores it *)

OpenStops(st) == {s \in Stops : IsOpen(s, st)}
Nearest(S) == CHOOSE s \in S : \A t \in S : s <= t
Farthest(S) == CHOOSE s \in S : \A t \in S : t <= s

\* The last open stop may have no coordinates.
TerminalDistance(pl, st) ==
    IF terminal = 0 \/ OpenStops(st) = {} THEN 0
    ELSE LET last == pl[Farthest(OpenStops(st))] IN IF last = 0 THEN 0 ELSE Distance(last, terminal)

Remaining(pl, st, seg, at, before) ==
    LET open == OpenStops(st)
        next == Nearest(open)
        others == TotalOver(seg, open \ {next}) + TerminalDistance(pl, st)
    IN CASE open # {} /\ at # 0 /\ pl[next] # 0 -> Distance(at, pl[next]) + others
         [] open # {} /\ (at = 0 \/ pl[next] = 0) /\ seg[next] # 0 -> seg[next] + others
         [] OTHER -> IF before # 0 THEN before ELSE TotalOver(seg, open) + TerminalDistance(pl, st)

Change == routeChanges < MaxRouteChanges /\ routeChanges' = routeChanges + 1

Recalculated(pl, st) ==
    /\ segment' = Segments(pl, st)
    /\ remaining' = Remaining(pl, st, Segments(pl, st), live, Planned(pl, st))
    /\ route' = [start |-> start, place |-> [s \in Visited(pl, st) |-> pl[s]]]
    /\ refreshed' = TRUE

Refreshed(st, at) ==
    /\ remaining' = Remaining(place, st, segment, at, remaining)
    /\ refreshed' = TRUE

-----------------------------------------------------------------------------
\* PATCH a stop: what is sent is written, a coordinate of 0 included.
PatchStop(s, p, st) ==
    /\ Change /\ place' = [place EXCEPT ![s] = p] /\ status' = [status EXCEPT ![s] = st]
    /\ Recalculated(place', status')
    /\ UNCHANGED <<start, terminal, live>>

RecalculateRoute ==
    /\ Change /\ Recalculated(place, status)
    /\ UNCHANGED <<start, place, status, terminal, live>>

\* The driver's buttons; arriving at a completed stop opens it again.
MarkStop(s, st) ==
    /\ Change /\ status' = [status EXCEPT ![s] = st]
    /\ Refreshed(status', live)
    /\ UNCHANGED <<start, place, segment, terminal, live, route>>

SendLocation(p) ==
    /\ Change /\ live' = p
    /\ Refreshed(status, p)
    /\ UNCHANGED <<start, place, status, segment, terminal, route>>

\* STALE_LOCATION_MS later
LocationGetsOld ==
    /\ live # 0 /\ live' = 0 /\ refreshed' = FALSE
    /\ UNCHANGED <<place, status, segment, start, terminal, remaining, routeChanges, route>>

\* The phone's live update and its sync, the office's editor, which writes the
\* depot and every stop, as PENDING, and the choice of a terminal: none of these
\* refreshes.
LiveUpdate(p) ==
    /\ Change /\ live' = p /\ refreshed' = FALSE
    /\ UNCHANGED <<start, place, status, segment, terminal, remaining, route>>

SyncStop(s) ==
    /\ Change /\ status' = [status EXCEPT ![s] = "COMPLETED"] /\ refreshed' = FALSE
    /\ UNCHANGED <<start, place, segment, terminal, remaining, live, route>>

SaveRoute(s, p, depot) ==
    /\ Change /\ place' = [place EXCEPT ![s] = p] /\ status' = [t \in Stops |-> "PENDING"]
    /\ start' = depot /\ refreshed' = FALSE
    /\ UNCHANGED <<segment, terminal, remaining, live, route>>

ChooseTerminal(p) ==
    /\ Change /\ terminal' = p /\ refreshed' = FALSE
    /\ UNCHANGED <<start, place, status, segment, remaining, live, route>>

RouteInit ==
    /\ place \in [Stops -> Places] /\ status = [s \in Stops |-> "PENDING"]
    /\ segment = [s \in Stops |-> 0] /\ start \in Places /\ terminal \in Places
    /\ remaining = 0 /\ live = 0 /\ routeChanges = 0
    /\ route = [start |-> 0, place |-> <<>>] /\ refreshed = FALSE

RouteNext ==
    \/ RecalculateRoute \/ LocationGetsOld
    \/ \E s \in Stops :
          \/ SyncStop(s) \/ \E st \in {"PENDING", "COMPLETED"} : MarkStop(s, st)
          \/ \E p, depot \in Places : SaveRoute(s, p, depot)
          \/ \E p \in Places, st \in {"PENDING", "COMPLETED"} : PatchStop(s, p, st)
    \/ \E p \in Places \ {0} : SendLocation(p) \/ LiveUpdate(p)
    \/ \E p \in Places : ChooseTerminal(p)

RouteSpec == RouteInit /\ [][RouteNext]_routeVars

-----------------------------------------------------------------------------
(* The reference: the way over the points that are left *)

\* The stops were done in the order of the route, and are where the route has
\* them; only what has neither a place nor a distance is not on it.
OnTheRoute ==
    LET stops == DOMAIN route.place IN
    /\ \A s, t \in stops : s < t /\ ~IsOpen(t, status) => ~IsOpen(s, status)
    /\ \A s \in OpenStops(status) : IF s \in stops THEN place[s] = route.place[s] ELSE place[s] + segment[s] = 0

Before(s) ==
    LET earlier == {t \in DOMAIN route.place : t < s}
    IN IF earlier = {} THEN route.start ELSE route.place[Farthest(earlier)]

WayLeft ==
    LET stops == Visited(place, status)
        first == Nearest(stops)
        from == IF live # 0 THEN live ELSE Before(first)
        leg == [s \in stops \ {first} |-> Distance(place[Farthest({t \in stops : t < s})], place[s])]
    IN Distance(from, place[first]) + TotalOver(leg, DOMAIN leg)
       + IF terminal = 0 THEN 0 ELSE Distance(place[Farthest(stops)], terminal)

(* What is stored as still to go is the way over the stops that are left, done
   in the order of the route as they were, from the phone's place or the stop
   before; unless nothing is left, the next or the last stop has no coordinates, or
   the next one is no distance away, when an older value may stand
   (tour-core-engine.js 10, 253-284; tour-core.routes.js 138-157). *)
RemainingIsTheRest ==
    LET open == OpenStops(status)
        next == Nearest(open)
    IN refreshed /\ OnTheRoute /\ open # {} =>
          \/ place[Farthest(open)] = 0 \/ place[next] = 0
          \/ live = 0 /\ segment[next] = 0
          \/ remaining = WayLeft

=============================================================================
