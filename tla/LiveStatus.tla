----------------------------- MODULE LiveStatus -----------------------------
(***************************************************************************)
(* The status engine (status-engine.js): from the position and the speed   *)
(* that a driver's phone sends, live-update.routes.js opens and closes the *)
(* periods of work_times and completes the stop where the driver stays.    *)
(* The phone writes the same rows with /api/sync-worktimes.                *)
(*                                                                         *)
(* One live update is one READ COMMITTED transaction: it reads (Read), its *)
(* first UPDATE takes a snapshot and may wait (Wait) for a locked row      *)
(* before it writes (Write), it asks a routing service with the rows       *)
(* locked, and commits.                                                    *)
(*                                                                         *)
(* unique_worktime allows one period of a driver to a start time, which    *)
(* therefore names the row. Positions are abstracted to what is nearer     *)
(* than 200 m, speeds to the bands between the thresholds 1, 1.5, 2 and 8. *)
(***************************************************************************)
EXTENDS Naturals, FiniteSets, TLC

CONSTANTS None, Slots, Scenes, Times,
          Grace, Stay,  \* SHORT_REST_GRACE_MS and the 90 s at a stop, in ticks
          MaxUpdates    \* bound

VARIABLES periods, \* work_times: Times -> None or [type, end]
          stop,    \* stops.is_completed of the tour's stop
          trail,   \* live_updates: timestamps of the positions near the stop
          clock, req, sent,
          \* History, read by no action:
          last,    \* the latest timestamp of an update so far
          odd      \* what disturbed the order of single updates

vars == <<periods, stop, trail, clock, req, sent, last, odd>>

Running == None \* end_time IS NULL
Types == {"Munka", "Vezetes", "Rakodas", "Piheno"}
Speeds == {"still", "idle", "creep", "crawl", "fast"}
Idle == [step |-> "idle"]
Writing == {"held", "routed"} \* the steps with locked rows

Period == [type : Types, end : Times \cup {Running}]
Day == [Times -> Period \cup {None}]
TypeOK ==
    /\ periods \in Day
    /\ stop \in BOOLEAN /\ trail \subseteq Times
    /\ \A s \in Slots : req[s].step \in Writing => \A t \in DOMAIN req[s].put : t \in Times

Rows(p) == {t \in Times : p[t] # None}
Open(p) == {t \in Rows(p) : p[t].end = Running}
Latest(S) == IF S = {} THEN None ELSE CHOOSE t \in S : \A u \in S : u =< t


\* None ends before it starts or runs into the next, and only the last is open.
Chain(p) ==
    \A t \in Rows(p) :
       /\ p[t].end # Running => p[t].end >= t
       /\ \A u \in Rows(p) : t < u => p[t].end # Running /\ p[t].end =< u

\* As updates in order have left the day by the time now: an open rest began
\* where a ride ended.
InOrder(p, now) ==
    /\ Chain(p)
    /\ \A t \in Rows(p) : t =< now /\ (p[t].end # Running => p[t].end =< now)
    /\ \A t \in Open(p) : p[t].type = "Piheno" => \E u \in Rows(p) : p[u].type = "Vezetes" /\ p[u].end = t

\* The clock begins at 2, the phone is a tick late at most.
ASSUME DayAssumption ==
    /\ Times \subseteq Nat /\ {1, 2} \subseteq Times /\ \E n \in Times : \A t \in Times : t =< n
    /\ None \notin Times /\ None \notin Types /\ None \notin Period
    /\ Scenes \subseteq Day /\ \A p \in Scenes : InOrder(p, 2)

-----------------------------------------------------------------------------
(* What an update does, decided on what it read: k is the type of the
   running period, if there is one *)

Slow(v) == v \in {"still", "idle", "creep"}
Discards(k, at, v, o) == v = "fast" /\ k = "Piheno" /\ at < o + Grace

\* The types startWork is called with, each at the update's own timestamp.
Starts(k, at, v, near, o) ==
    {type \in Types :
        CASE type = "Munka" -> o = None /\ Rows(periods) = {} /\ v = "fast"
          [] type = "Rakodas" -> "stop" \in near /\ Slow(v) /\ k \in {None, "Vezetes"}
          [] type = "Vezetes" -> v = "fast" /\ k # "Vezetes" /\ ~Discards(k, at, v, o)
          [] type = "Piheno" -> v \in {"still", "idle"} /\ k = "Vezetes" /\ near = {}}

Plan(at, v, near) ==
    LET o == Latest(Open(periods))
        k == IF o = None THEN None ELSE periods[o].type
    IN [step |-> "read", at |-> at, ongoing |-> o, starts |-> Starts(k, at, v, near, o),
        discards |-> Discards(k, at, v, o), home |-> "home" \in near /\ v = "still" /\ k = "Vezetes",
        near |-> "stop" \in near, arriving |-> "stop" \in near /\ Slow(v) /\ ~stop, seen |-> {}]

\* The driving period that a discarded rest goes back to.
Driven(r) == {t \in Rows(periods) : /\ periods[t].type = "Vezetes" /\ periods[t].end # Running
                                    /\ periods[t].end =< r.ongoing}
EndsBefore(t, u) == periods[t].end < periods[u].end \/ (periods[t].end = periods[u].end /\ t =< u)
PreviousFirst(r) == IF Driven(r) = {} THEN None ELSE CHOOSE t \in Driven(r) : \A u \in Driven(r) : EndsBefore(t, u)
Previous(r) == IF Driven(r) = {} THEN None ELSE CHOOSE t \in Driven(r) : \A u \in Driven(r) : EndsBefore(u, t)

Ended(t, at) == IF periods[t] = None THEN None ELSE [periods[t] EXCEPT !.end = at]

\* startWork closes what its snapshot shows running, if it still is.
Closed(r, seen) == seen \cap Open(periods)

Touched(r, seen) ==
    IF r.discards THEN {r.ongoing, Previous(r)} \ {None}
    ELSE (IF r.starts = {} THEN {} ELSE Closed(r, seen) \cup {r.at}) \cup (IF r.home THEN {r.ongoing} ELSE {})

\* discardShortRest, startWork, and the UPDATE that ends the ride at home.
After(r, t) ==
    CASE r.discards /\ Previous(r) = None -> IF periods[t] = None THEN None ELSE [periods[t] EXCEPT !.type = "Vezetes"]
      [] r.discards /\ t = Previous(r) -> [periods[t] EXCEPT !.end = Running]
      [] r.discards /\ Previous(r) \notin {t, None} -> None
      [] ~r.discards /\ r.starts # {} /\ t = r.at -> [type |-> CHOOSE k \in r.starts : TRUE, end |-> Running]
      [] OTHER -> Ended(t, r.at)

\* A second startWork, or a row that is there, has the start time already.
Clashes(r) == r.starts # {} /\ (Cardinality(r.starts) > 1 \/ periods[r.at] # None)

-----------------------------------------------------------------------------
Held(s) == UNION {DOMAIN req[o].put : o \in {o \in Slots \ {s} : req[o].step \in Writing}}

Read(s, at, v, near) ==
    /\ req[s] = Idle /\ sent < MaxUpdates /\ sent' = sent + 1
    /\ req' = [req EXCEPT ![s] = Plan(at, v, near)]
    /\ last' = IF at > last THEN at ELSE last
    /\ odd' = odd \cup (IF \E o \in Slots : req[o] # Idle THEN {"overlap"} ELSE {}) \cup (IF at < last THEN {"late"} ELSE {})
    /\ UNCHANGED <<periods, stop, trail, clock>>

\* The first UPDATE has taken its snapshot when it comes to a locked row.
Wait(s) ==
    /\ req[s].step = "read" /\ Touched(req[s], Open(periods)) \cap Held(s) # {}
    /\ req' = [req EXCEPT ![s].step = "wait", ![s].seen = Open(periods)]
    /\ UNCHANGED <<periods, stop, trail, clock, sent, last, odd>>

Write(s) ==
    LET r == req[s]
        seen == IF r.step = "wait" THEN r.seen ELSE Open(periods)
    IN
    /\ r.step \in {"read", "wait"} /\ Touched(r, seen) \cap Held(s) = {}
    /\ req' = [req EXCEPT ![s] = IF Clashes(r) THEN [step |-> "refused", starts |-> r.starts]
                                 ELSE [step |-> "held", at |-> r.at, near |-> r.near,
                                       arrives |-> r.arriving /\ \E t \in trail : t + Stay < r.at,
                                       put |-> [t \in Touched(r, seen) |-> After(r, t)]]]
    /\ UNCHANGED <<periods, stop, trail, clock, sent, last, odd>>

\* The routing service answers or fails; nothing bounds the time it takes.
Route(s) ==
    /\ req[s].step = "held" /\ req' = [req EXCEPT ![s].step = "routed"]
    /\ UNCHANGED <<periods, stop, trail, clock, sent, last, odd>>

Stored(r) == [t \in Times |-> IF t \in DOMAIN r.put THEN r.put[t] ELSE periods[t]]
Commit(s) ==
    LET r == req[s] IN
    /\ r.step = "routed"
    /\ periods' = Stored(r)
    /\ stop' = (stop \/ r.arrives)
    /\ trail' = IF r.near THEN trail \cup {r.at} ELSE trail
    /\ req' = [req EXCEPT ![s] = Idle]
    /\ UNCHANGED <<clock, sent, last, odd>>

\* ROLLBACK after an error, or the process stops.
Abort(s) ==
    /\ req[s].step \in {"wait", "refused"} \cup Writing
    /\ req' = [req EXCEPT ![s] = Idle]
    /\ UNCHANGED <<periods, stop, trail, clock, sent, last, odd>>

\* A row of the phone's own, or one of these that it pulled.
Upload(t, p) ==
    /\ sent < MaxUpdates /\ t =< clock /\ t \notin Held(None)
    /\ periods' = [periods EXCEPT ![t] = p]
    /\ sent' = sent + 1 /\ odd' = odd \cup {"upload"}
    /\ UNCHANGED <<stop, trail, clock, req, last>>

\* The office or the driver's page opens the stop again.
Reopen == /\ stop /\ sent < MaxUpdates /\ stop' = FALSE /\ sent' = sent + 1
          /\ UNCHANGED <<periods, trail, clock, req, last, odd>>

Tick == /\ clock + 1 \in Times /\ clock' = clock + 1
        /\ UNCHANGED <<periods, stop, trail, req, sent, last, odd>>

Init ==
    /\ periods \in Scenes /\ stop = FALSE /\ trail = {}
    /\ clock = 2 /\ last = 2 /\ sent = 0 /\ odd = {}
    /\ req = [s \in Slots |-> Idle]

Next ==
    \/ \E s \in Slots :
          \/ \E at \in {clock - 1, clock}, v \in Speeds, near \in SUBSET {"stop", "home"} : Read(s, at, v, near)
          \/ Wait(s) \/ Write(s) \/ Route(s) \/ Commit(s) \/ Abort(s)
    \/ \E t \in Times, k \in {"Vezetes", "Piheno"} : \E e \in {u \in Times : t < u /\ u =< clock} \cup {Running} : Upload(t, [type |-> k, end |-> e])
    \/ Reopen \/ Tick

Spec == Init /\ [][Next]_vars

(* Two periods of a driver run at a time only when two of his updates
   overlapped or the phone uploaded a period (status-engine.js 31, 183-189). *)
SecondOpenPeriodNeedsOverlap == Cardinality(Open(periods)) > 1 => odd \cap {"overlap", "upload"} # {}

(* Updates that come one by one and in order make a chain of periods: none
   ends before it starts or runs into the next, and only the last is open,
   short rests that were discarded included (status-engine.js 183-222). *)
PeriodsFormAChain == odd = {} => Chain(periods)

(* The periods have their types, and part from a chain only as said. *)
PeriodsAreSound == TypeOK /\ SecondOpenPeriodNeedsOverlap /\ PeriodsFormAChain

(* The first update of a day that is fast is not refused ("Initial Morning
   Start", status-engine.js 57). *)
MorningStartIsNotRefused == \A s \in Slots : req[s].step = "refused" /\ "Munka" \in req[s].starts => odd # {}

=============================================================================
