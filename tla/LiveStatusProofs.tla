-------------------------- MODULE LiveStatusProofs --------------------------
(***************************************************************************)
(* What the status engine keeps of a driver's day, whatever the times, the *)
(* days to begin with and the number of updates: two periods run at once,  *)
(* or the periods part from a chain, only as PeriodsAreSound says. The     *)
(* invariant speaks of what an update has decided and of what it will have *)
(* stored while both are still its own.                                    *)
(***************************************************************************)
EXTENDS LiveStatus, FiniteSetTheorems, WellFoundedInduction, TLAPS

-----------------------------------------------------------------------------
(* The inductive invariant *)

\* A request that has decided and not yet written.
Decision ==
    [step : {"read", "wait"}, at : Times, ongoing : Times \cup {None}, starts : SUBSET Types,
     discards : BOOLEAN, home : BOOLEAN, near : BOOLEAN, arriving : BOOLEAN, seen : SUBSET Times]

\* A request whose INSERT was refused.
Refusal == [step : {"refused"}, starts : SUBSET Types]

\* The rows of a transaction, by start time; None is a deleted one.
Puts == UNION {[S -> Period \cup {None}] : S \in SUBSET Times}

\* A request with locked rows.
Transaction == [step : Writing, at : Times, near : BOOLEAN, arrives : BOOLEAN, put : Puts]

\* All that a slot may hold.
Requests == {Idle} \cup Decision \cup Refusal \cup Transaction

\* A discarded rest, or a ride that ends at home, is one that runs.
Sound(r) == r.discards \/ r.home => r.ongoing # None

\* The slots whose update has decided and not yet written.
Deciding == {s \in Slots : req[s].step \in {"read", "wait"}}

\* The slots whose update has written and not yet committed.
Holding == {s \in Slots : req[s].step \in Writing}

\* The types, in full.
Shape ==
    /\ TypeOK /\ clock \in Times /\ clock - 1 \in Times /\ last \in Times
    /\ odd \subseteq {"overlap", "late", "upload"}
    /\ req \in [Slots -> Requests] /\ \A s \in Deciding : Sound(req[s])

\* At most one period runs.
OneOpen(p) == \A t, u \in Open(p) : t = u

\* What an update has decided still fits the periods that are stored.
Planned(r) ==
    /\ r.ongoing = Latest(Open(periods))
    /\ r.step = "wait" => r.seen = Open(periods)
    /\ r.discards => periods[r.ongoing].type = "Piheno" /\ r.starts = {} /\ ~r.home
    /\ "Piheno" \in r.starts => r.ongoing # None /\ periods[r.ongoing].type = "Vezetes"

\* Without an overlap, one update at a time.
Alone == "overlap" \notin odd => \A s, o \in Slots : req[s] # Idle /\ req[o] # Idle => s = o

\* Without an overlap or an upload, one period runs at most, what was decided
\* still fits, and what is written will leave one running period.
Undisturbed ==
    odd \cap {"overlap", "upload"} = {} =>
       /\ OneOpen(periods)
       /\ \A s \in Deciding : Planned(req[s])
       /\ \A s \in Holding : OneOpen(Stored(req[s]))

\* With nothing odd the day is in order, and will be when the update commits.
Ordered ==
    odd = {} =>
       /\ InOrder(periods, last)
       /\ \A s \in Deciding : req[s].at = last
       /\ \A s \in Holding : InOrder(Stored(req[s]), last)

\* The inductive invariant.
Inv == Shape /\ Alone /\ Undisturbed /\ Ordered

-----------------------------------------------------------------------------
(* Times and days *)

\* A set of naturals that is not empty has a least element.
LEMMA Least ==
  ASSUME NEW S, S \subseteq Nat, S # {}
  PROVE  \E x \in S : \A y \in S : x =< y
<1> DEFINE Less == {p \in Nat \X Nat : p[1] < p[2]}
<1>1. IsWellFoundedOn(Less, Nat)
  BY NatLessThanWellFounded DEF OpToRel
<1>2. PICK x \in S : \A y \in S : ~(<<y, x>> \in Less)
  <2> HIDE DEF Less
  <2> QED BY <1>1, WFMin
<1>3. ASSUME NEW y \in S PROVE x =< y
  <2>1. <<y, x>> \in Nat \X Nat => ~(y < x)
    BY <1>2
  <2> QED BY <2>1
<1> QED BY <1>3

\* A set of times that is not empty has a greatest element.
LEMMA Greatest ==
  ASSUME NEW S, S \subseteq Times, S # {}
  PROVE  \E t \in S : \A u \in S : u =< t
<1>1. PICK n \in Times : \A t \in Times : t =< n
  BY DayAssumption
<1>2. n \in Nat /\ S \subseteq Nat
  BY DayAssumption
<1> DEFINE D == {n - t : t \in S}
<1>3. D \subseteq Nat /\ D # {}
  BY <1>1, <1>2
<1>4. PICK x \in D : \A y \in D : x =< y
  <2> HIDE DEF D
  <2> QED BY <1>3, Least
<1>5. PICK t \in S : x = n - t
  BY <1>4
<1>6. ASSUME NEW u \in S PROVE u =< t
  <2>1. n - u \in D
    OBVIOUS
  <2>2. n - t =< n - u
    BY <2>1, <1>4, <1>5
  <2>3. n \in Nat /\ t \in Nat /\ u \in Nat
    BY <1>2, <1>5
  <2> QED BY <2>2, <2>3
<1> QED BY <1>6

\* The query of the running period finds the latest one (status-engine.js
\* 25-27).
LEMMA LatestOf ==
  ASSUME NEW S, S \subseteq Times
  PROVE  /\ S = {} => Latest(S) = None
         /\ S # {} => Latest(S) \in S /\ \A u \in S : u =< Latest(S)
<1>1. CASE S = {}
  BY <1>1 DEF Latest
<1>2. CASE S # {}
  <2>1. \E t \in S : \A u \in S : u =< t
    BY <1>2, Greatest
  <2> QED BY <1>2, <2>1 DEF Latest
<1> QED BY <1>1, <1>2

\* The rows of a day are periods, and those that do not run have an end.
LEMMA OpenOf ==
  ASSUME NEW p \in Day
  PROVE  /\ Rows(p) \subseteq Times /\ Open(p) \subseteq Rows(p)
         /\ \A t \in Rows(p) : p[t] \in Period
         /\ \A t \in Rows(p) \ Open(p) : p[t].end \in Times
  BY DEF Day, Rows, Open, Period, Running

\* The query of the ride before a rest finds the one that ended last, if
\* there is a ride (status-engine.js 191-204).
LEMMA PreviousOf ==
  ASSUME periods \in Day, NEW r, r.ongoing \in Times
  PROVE  /\ Driven(r) \subseteq Rows(periods)
         /\ \A t \in Driven(r) : periods[t].end \in Times /\ periods[t].end =< r.ongoing
         /\ Driven(r) = {} => Previous(r) = None
         /\ Driven(r) # {} => Previous(r) \in Driven(r) /\ \A u \in Driven(r) : EndsBefore(u, Previous(r))
<1>1. Driven(r) \subseteq Rows(periods) /\ \A t \in Driven(r) : periods[t].end \in Times /\ periods[t].end =< r.ongoing
  BY OpenOf DEF Driven, Open
<1>2. Driven(r) = {} => Previous(r) = None
  BY DEF Previous
<1>3. ASSUME Driven(r) # {} PROVE Previous(r) \in Driven(r) /\ \A u \in Driven(r) : EndsBefore(u, Previous(r))
  <2> DEFINE Ends == {periods[t].end : t \in Driven(r)}
  <2>1. PICK e \in Ends : \A f \in Ends : f =< e
    <3>1. Ends \subseteq Times /\ Ends # {}
      BY <1>1, <1>3
    <3> HIDE DEF Ends
    <3> QED BY <3>1, Greatest
  <2> DEFINE Lasts == {t \in Driven(r) : periods[t].end = e}
  <2>2. PICK t \in Lasts : \A u \in Lasts : u =< t
    <3>1. Lasts \subseteq Times /\ Lasts # {}
      BY <1>1, OpenOf
    <3> HIDE DEF Lasts
    <3> QED BY <3>1, Greatest
  <2>3. ASSUME NEW u \in Driven(r) PROVE EndsBefore(u, t)
    <3>1. periods[u].end =< e /\ periods[u].end \in Nat /\ e \in Nat /\ periods[t].end = e
      BY <2>1, <1>1, DayAssumption
    <3>2. CASE periods[u].end = e
      BY <3>2, <3>1, <2>2 DEF EndsBefore
    <3>3. CASE periods[u].end # e
      BY <3>3, <3>1 DEF EndsBefore
    <3> QED BY <3>2, <3>3
  <2>4. t \in Driven(r)
    OBVIOUS
  <2> HIDE DEF Lasts, Ends
  <2>5. \E v \in Driven(r) : \A u \in Driven(r) : EndsBefore(u, v)
    BY <2>3, <2>4
  <2> QED BY <2>5, <1>3 DEF Previous
<1> QED BY <1>1, <1>2, <1>3

-----------------------------------------------------------------------------
(* Three ways a day goes on *)

\* A period with another end.
LEMMA EndedAt ==
  ASSUME NEW x \in Period, NEW e \in Times \cup {Running}
  PROVE  LET y == [x EXCEPT !.end = e] IN y \in Period /\ y.type = x.type /\ y.end = e
  BY DEF Period

\* A row is there when its value is a period.
LEMMA ValueOf ==
  ASSUME NEW p \in Day, NEW t \in Times
  PROVE  /\ t \in Rows(p) <=> p[t] # None
         /\ t \in Open(p) <=> p[t] # None /\ p[t].end = Running
         /\ t \in Rows(p) <=> p[t] \in Period
  BY DayAssumption DEF Day, Rows, Open

\* A row with the same value is there, and runs, as before.
LEMMA ThreeKept ==
  ASSUME NEW p \in Day, NEW q \in Day, NEW t \in Times, q[t] = p[t]
  PROVE  (t \in Rows(q) <=> t \in Rows(p)) /\ (t \in Open(q) <=> t \in Open(p))
  BY ValueOf

\* Times are numbers, and None is neither a time nor a period.
LEMMA Numbers ==
  Times \subseteq Nat /\ Running \notin Times /\ None \notin Period /\ Running \notin Period
  BY DayAssumption DEF Running

\* A rest is discarded: the ride that it interrupted runs again, and the day
\* stays in order.
LEMMA Reopened ==
  ASSUME NEW p \in Day, NEW q \in Day, NEW now \in Times, InOrder(p, now),
         NEW o \in Open(p), NEW v \in Rows(p), p[v].type = "Vezetes", p[v].end = o,
         q[o] = None, q[v] = [p[v] EXCEPT !.end = Running], \A t \in Times \ {o, v} : q[t] = p[t]
  PROVE  InOrder(q, now)
<1>1. Rows(q) \subseteq Rows(p) \ {o} /\ q[v].end = Running /\ q[v].type = "Vezetes" /\ v \in Times /\ v # o
  <2>1. p[v] \in Period /\ v \in Times /\ o \in Times
    BY OpenOf
  <2>2. v # o
    BY <2>1, Numbers DEF Open
  <2>3. \A t \in Rows(q) : t \in Times
    BY OpenOf
  <2> QED BY <2>1, <2>2, <2>3, EndedAt, ValueOf, Numbers
<1>2. \A u \in Rows(p) : u =< o
  BY OpenOf, Numbers DEF InOrder, Chain, Open
<1>3. \A t \in Rows(q) \ {v} : q[t] = p[t] /\ t \in Rows(p)
  BY <1>1, OpenOf
<1>4. Chain(q)
  <2>1. ASSUME NEW t \in Rows(q), q[t].end # Running PROVE q[t].end >= t
    BY <2>1, <1>1, <1>3 DEF InOrder, Chain
  <2>2. ASSUME NEW t \in Rows(q), NEW u \in Rows(q), t < u PROVE q[t].end # Running /\ q[t].end =< u
    <3>1. t \in Rows(p) /\ u \in Rows(p) /\ u # o
      BY <1>1
    <3>2. t # v
      <4>1. SUFFICES ASSUME t = v PROVE FALSE
        OBVIOUS
      <4>2. o =< u /\ u =< o
        BY <4>1, <3>1, <2>2, <1>2 DEF InOrder, Chain
      <4> QED BY <4>2, <3>1, OpenOf, Numbers
    <3> QED BY <3>1, <3>2, <1>3, <2>2 DEF InOrder, Chain
  <2> QED BY <2>1, <2>2 DEF Chain
<1>5. \A t \in Rows(q) : t =< now /\ (q[t].end # Running => q[t].end =< now)
  BY <1>1, <1>3 DEF InOrder
<1>6. ASSUME NEW t \in Open(q) PROVE q[t].type # "Piheno"
  <2>1. t \in Rows(q) /\ q[t].end = Running
    BY DEF Open
  <2>2. SUFFICES ASSUME t # v PROVE FALSE
    BY <1>1
  <2>3. t \in Rows(p) /\ p[t].end = Running /\ t # o
    BY <1>1, <2>1, <2>2, <1>3
  <2>4. t < o
    BY <2>3, <1>2, OpenOf, Numbers
  <2> QED BY <2>3, <2>4 DEF InOrder, Chain, Open
<1> QED BY <1>4, <1>5, <1>6 DEF InOrder

\* A period is started: what ran ends when it starts, and the day stays in
\* order.
LEMMA Started ==
  ASSUME NEW p \in Day, NEW q \in Day, NEW now \in Times, InOrder(p, now), p[now] = None,
         NEW k \in Types, q[now] = [type |-> k, end |-> Running],
         k = "Piheno" => \E o \in Open(p) : p[o].type = "Vezetes",
         \A t \in Open(p) : q[t] = [p[t] EXCEPT !.end = now],
         \A t \in Times \ (Open(p) \cup {now}) : q[t] = p[t]
  PROVE  InOrder(q, now)
<1>1. now \notin Rows(p) /\ now \in Nat /\ \A t \in Rows(p) : t \in Times /\ t \in Nat /\ t < now
  BY ValueOf, OpenOf, Numbers DEF InOrder
<1>2. ASSUME NEW t \in Open(p) PROVE q[t].end = now /\ q[t].type = p[t].type /\ q[t] \in Period
  <2>1. p[t] \in Period /\ q[t] = [p[t] EXCEPT !.end = now]
    BY OpenOf
  <2> QED BY <2>1, EndedAt
<1>3. \A t \in Rows(p) \ Open(p) : q[t] = p[t]
  BY <1>1
<1>4. Rows(q) \subseteq Rows(p) \cup {now}
  <2>1. ASSUME NEW t \in Rows(q), t # now, t \notin Rows(p) PROVE FALSE
    <3>1. t \in Times /\ t \notin Open(p)
      BY <2>1, OpenOf
    <3> QED BY <3>1, <2>1, ThreeKept
  <2> QED BY <2>1
<1>5. \A t \in Rows(p) : q[t].end # Running /\ q[t].end =< now /\ q[t].end >= t
  <2>1. \A t \in Open(p) : t \in Rows(p)
    BY OpenOf
  <2>2. ASSUME NEW t \in Rows(p) \ Open(p) PROVE q[t].end # Running /\ q[t].end =< now /\ q[t].end >= t
    BY <2>2, <1>3, OpenOf, Numbers DEF InOrder, Chain
  <2>3. ASSUME NEW t \in Open(p) PROVE q[t].end # Running /\ q[t].end =< now /\ q[t].end >= t
    BY <2>3, <2>1, <1>2, <1>1, Numbers
  <2> QED BY <2>2, <2>3
<1>6. q[now].end = Running /\ q[now].type = k
  OBVIOUS
<1>7. Chain(q)
  <2>1. ASSUME NEW t \in Rows(q), q[t].end # Running PROVE q[t].end >= t
    BY <2>1, <1>4, <1>5, <1>6
  <2>2. ASSUME NEW t \in Rows(q), NEW u \in Rows(q), t < u PROVE q[t].end # Running /\ q[t].end =< u
    <3>1. t \in Rows(p)
      BY <1>4, <1>1, <2>2
    <3>2. CASE u = now
      BY <3>1, <3>2, <1>5
    <3>3. CASE u # now
      <4>1. u \in Rows(p)
        BY <3>3, <1>4
      <4>2. p[t].end # Running /\ p[t].end =< u
        BY <4>1, <3>1, <2>2 DEF InOrder, Chain
      <4> QED BY <4>2, <3>1, <1>3 DEF Open
    <3> QED BY <3>2, <3>3
  <2> QED BY <2>1, <2>2 DEF Chain
<1>8. \A t \in Rows(q) : t =< now /\ (q[t].end # Running => q[t].end =< now)
  BY <1>1, <1>4, <1>5, <1>6
<1>9. ASSUME NEW t \in Open(q), q[t].type = "Piheno"
      PROVE  \E u \in Rows(q) : q[u].type = "Vezetes" /\ q[u].end = t
  <2>1. t = now
    BY <1>4, <1>5 DEF Open
  <2>2. PICK o \in Open(p) : p[o].type = "Vezetes"
    BY <2>1, <1>6, <1>9
  <2>3. o \in Rows(q)
    BY <2>2, <1>2, OpenOf, ValueOf
  <2> QED BY <2>1, <2>2, <2>3, <1>2
<1> QED BY <1>7, <1>8, <1>9 DEF InOrder

\* The ride ends at home, and the day stays in order.
LEMMA Stopped ==
  ASSUME NEW p \in Day, NEW q \in Day, NEW now \in Times, InOrder(p, now),
         NEW o \in Open(p), q[o] = [p[o] EXCEPT !.end = now], \A t \in Times \ {o} : q[t] = p[t]
  PROVE  InOrder(q, now)
<1>1. o \in Rows(p) /\ o \in Times /\ p[o].end = Running /\ q[o].end = now /\ q[o].type = p[o].type
  BY EndedAt, OpenOf DEF Open
<1>2. Rows(q) \subseteq Rows(p) /\ Open(q) \subseteq Open(p) \ {o}
  <2>1. ASSUME NEW t \in Rows(q) PROVE t \in Rows(p) /\ (t \in Open(q) => t \in Open(p) \ {o})
    <3>1. CASE t = o
      BY <3>1, <1>1, Numbers DEF Open
    <3>2. CASE t # o
      BY <3>2, ThreeKept, OpenOf
    <3> QED BY <3>1, <3>2
  <2> QED BY <2>1, OpenOf
<1>3. \A u \in Rows(p) : u =< o
  BY <1>1, OpenOf, Numbers DEF InOrder, Chain
<1>4. \A t \in Rows(q) \ {o} : q[t] = p[t] /\ t \in Rows(p)
  BY <1>2, OpenOf
<1>5. o =< now /\ now \in Nat /\ now =< now /\ \A t \in Rows(p) : t \in Nat
  BY <1>1, OpenOf, Numbers DEF InOrder
<1>6. Chain(q)
  <2>1. ASSUME NEW t \in Rows(q), q[t].end # Running PROVE q[t].end >= t
    <3>1. CASE t = o
      BY <3>1, <1>1, <1>5, Numbers
    <3>2. CASE t # o
      BY <3>2, <2>1, <1>4 DEF InOrder, Chain
    <3> QED BY <3>1, <3>2
  <2>2. ASSUME NEW t \in Rows(q), NEW u \in Rows(q), t < u PROVE q[t].end # Running /\ q[t].end =< u
    <3>1. t # o /\ t \in Rows(p) /\ u \in Rows(p)
      BY <2>2, <1>1, <1>2, <1>3, <1>5
    <3> QED BY <3>1, <1>4, <2>2 DEF InOrder, Chain
  <2> QED BY <2>1, <2>2 DEF Chain
<1>7. ASSUME NEW t \in Rows(q) PROVE t =< now /\ (q[t].end # Running => q[t].end =< now)
  <2>1. CASE t = o
    BY <2>1, <1>1, <1>5
  <2>2. CASE t # o
    BY <2>2, <1>4 DEF InOrder
  <2> QED BY <2>1, <2>2
<1>8. Open(q) = {}
  <2>1. SUFFICES ASSUME NEW t \in Open(q) PROVE FALSE
    OBVIOUS
  <2>2. t \in Open(p) /\ t # o /\ t \in Rows(p)
    BY <1>2, OpenOf
  <2>3. t < o
    BY <2>2, <1>3, <1>1, <1>5
  <2> QED BY <2>2, <2>3, <1>1 DEF InOrder, Chain, Open
<1> QED BY <1>6, <1>7, <1>8 DEF InOrder

-----------------------------------------------------------------------------
(* What an update writes *)

\* The day when the update has been committed, if nobody else writes.
Effect(r, seen) == [t \in Times |-> IF t \in Touched(r, seen) THEN After(r, t) ELSE periods[t]]

\* What becomes of a row that the update touches, one case each.
LEMMA AfterOf ==
  ASSUME periods \in Day, NEW r \in Decision, NEW t \in Times
  PROVE  /\ r.discards /\ Previous(r) = None =>
               After(r, t) = IF periods[t] = None THEN None ELSE [periods[t] EXCEPT !.type = "Vezetes"]
         /\ r.discards /\ Previous(r) # None /\ t = Previous(r) => After(r, t) = [periods[t] EXCEPT !.end = Running]
         /\ r.discards /\ Previous(r) # None /\ t # Previous(r) => After(r, t) = None
         /\ ~r.discards /\ r.starts # {} /\ t = r.at =>
               After(r, t) = [type |-> CHOOSE k \in r.starts : TRUE, end |-> Running]
         /\ ~r.discards /\ (r.starts = {} \/ t # r.at) =>
               After(r, t) = IF periods[t] = None THEN None ELSE [periods[t] EXCEPT !.end = r.at]
<1>1. t # None
  BY DayAssumption
<1>2. r.discards \in BOOLEAN
  BY DEF Decision
<1>3. CASE r.discards
  BY <1>1, <1>3 DEF After
<1>4. CASE ~r.discards
  BY <1>1, <1>4 DEF After, Ended
<1> QED BY <1>2, <1>3, <1>4

\* The type that is started is one of those asked for.
LEMMA StartedType ==
  ASSUME NEW r \in Decision, r.starts # {}
  PROVE  (CHOOSE k \in r.starts : TRUE) \in r.starts /\ (CHOOSE k \in r.starts : TRUE) \in Types
  BY DEF Decision

\* An update touches rows of the day and leaves periods or nothing there.
LEMMA Writes ==
  ASSUME periods \in Day, NEW r \in Decision, Sound(r), NEW seen \in SUBSET Times
  PROVE  /\ Touched(r, seen) \subseteq Times
         /\ \A t \in Times : After(r, t) \in Period \cup {None}
         /\ Effect(r, seen) \in Day
<1>1. r.at \in Times /\ r.ongoing \in Times \cup {None} /\ r.discards \in BOOLEAN /\ r.home \in BOOLEAN
  BY DEF Decision
<1>2. r.discards => Previous(r) = None \/ (Previous(r) \in Times /\ Previous(r) \in Rows(periods))
  <2>1. r.discards => r.ongoing \in Times
    BY <1>1 DEF Sound
  <2> QED BY <2>1, PreviousOf, OpenOf
<1>3. Touched(r, seen) \subseteq Times
  <2>1. Closed(r, seen) \subseteq Times
    BY DEF Closed
  <2>2. CASE r.discards
    BY <2>2, <1>1, <1>2 DEF Touched
  <2>3. CASE ~r.discards
    BY <2>1, <2>3, <1>1 DEF Touched, Sound
  <2> QED BY <1>1, <2>2, <2>3
<1>4. ASSUME NEW t \in Times PROVE After(r, t) \in Period \cup {None}
  <2>0. periods[t] = None \/ periods[t] \in Period
    BY DEF Day
  <2>1. CASE r.discards /\ Previous(r) = None
    <3>1. periods[t] \in Period => [periods[t] EXCEPT !.type = "Vezetes"] \in Period
      BY DEF Period, Types
    <3> QED BY <2>0, <2>1, <3>1, AfterOf
  <2>2. CASE r.discards /\ Previous(r) # None /\ t = Previous(r)
    <3>1. periods[t] \in Period
      BY <2>2, <1>2, OpenOf
    <3>2. [periods[t] EXCEPT !.end = Running] \in Period
      BY <3>1, EndedAt
    <3> QED BY <2>2, <3>2, AfterOf
  <2>3. CASE r.discards /\ Previous(r) # None /\ t # Previous(r)
    BY <2>3, AfterOf
  <2>4. CASE ~r.discards /\ r.starts # {} /\ t = r.at
    <3>1. [type |-> CHOOSE k \in r.starts : TRUE, end |-> Running] \in Period
      BY <2>4, StartedType DEF Period
    <3> QED BY <2>4, <3>1, AfterOf
  <2>5. CASE ~r.discards /\ (r.starts = {} \/ t # r.at)
    <3>1. periods[t] \in Period => [periods[t] EXCEPT !.end = r.at] \in Period
      BY <1>1, EndedAt
    <3> QED BY <2>0, <2>5, <3>1, AfterOf
  <2> QED BY <1>1, <2>1, <2>2, <2>3, <2>4, <2>5
<1>5. Effect(r, seen) \in Day
  BY <1>4 DEF Effect, Day
<1> QED BY <1>3, <1>4, <1>5

\* Where one period runs at most, it is the one that the update read.
LEMMA Choices ==
  ASSUME periods \in Day, NEW r \in Decision, Sound(r), Planned(r), OneOpen(periods)
  PROVE  /\ Open(periods) = IF r.ongoing = None THEN {} ELSE {r.ongoing}
         /\ r.ongoing # None => r.ongoing \in Open(periods)
<1>1. Open(periods) \subseteq Times /\ r.ongoing = Latest(Open(periods))
  BY OpenOf DEF Planned
<1>2. CASE Open(periods) = {}
  BY <1>1, <1>2, LatestOf
<1>3. CASE Open(periods) # {}
  <2>1. r.ongoing \in Open(periods)
    BY <1>1, <1>3, LatestOf
  <2>2. r.ongoing # None
    BY <2>1, <1>1, DayAssumption
  <2> QED BY <2>1, <2>2 DEF OneOpen
<1> QED BY <1>2, <1>3

\* An update that fits the stored periods leaves one running period at most.
LEMMA StaysOpenOnce ==
  ASSUME periods \in Day, NEW r \in Decision, Sound(r), Planned(r), OneOpen(periods), ~Clashes(r),
         NEW seen, seen = Open(periods)
  PROVE  OneOpen(Effect(r, seen))
<1> DEFINE q == Effect(r, seen)
<1>1. q \in Day /\ seen \subseteq Times /\ r.discards \in BOOLEAN /\ r.home \in BOOLEAN
      /\ r.at \in Times /\ r.ongoing \in Times \cup {None}
  BY Writes, OpenOf DEF Decision
<1>2. \A t \in Times : q[t] = IF t \in Touched(r, seen) THEN After(r, t) ELSE periods[t]
  BY DEF Effect
<1>3. \A t \in Times \ Touched(r, seen) : t \in Open(q) <=> t \in Open(periods)
  BY <1>1, <1>2, ThreeKept
<1>4. \A t \in Open(q) : t \in Times
  BY <1>1, OpenOf
<1> SUFFICES OneOpen(q)
  OBVIOUS
<1> HIDE DEF q
<1>5. CASE r.discards
  <2>1. r.ongoing # None /\ r.ongoing \in Open(periods) /\ Open(periods) = {r.ongoing} /\ r.ongoing \in Times
    BY <1>1, <1>5, Choices DEF Sound
  <2>2. CASE Previous(r) = None
    <3>1. Touched(r, seen) = {r.ongoing}
      BY <1>5, <2>1, <2>2 DEF Touched
    <3> QED BY <3>1, <2>1, <1>3, <1>4 DEF OneOpen
  <2>3. CASE Previous(r) # None
    <3>1. Touched(r, seen) = {r.ongoing, Previous(r)}
      BY <1>5, <2>1, <2>3 DEF Touched
    <3>2. Previous(r) # r.ongoing
      BY <2>1, <2>3, PreviousOf, Numbers DEF Open
    <3>3. q[r.ongoing] = None
      BY <1>2, <1>5, <2>1, <2>3, <3>1, <3>2, AfterOf
    <3>4. r.ongoing \notin Open(q)
      BY <3>3, <2>1, <1>1, ValueOf
    <3> QED BY <3>1, <3>4, <2>1, <1>3, <1>4 DEF OneOpen
  <2> QED BY <2>2, <2>3
<1>6. CASE ~r.discards
  <2>1. \A t \in Touched(r, seen) : t \in Times /\ (r.starts = {} \/ t # r.at => t \notin Open(q))
    <3>1. SUFFICES ASSUME NEW t \in Touched(r, seen), r.starts = {} \/ t # r.at PROVE t \notin Open(q)
      BY <1>1, Writes
    <3>2. t \in Times
      BY <1>1, Writes
    <3>3. q[t] = IF periods[t] = None THEN None ELSE [periods[t] EXCEPT !.end = r.at]
      BY <1>2, <1>6, <3>1, <3>2, AfterOf
    <3>4. CASE periods[t] = None
      BY <3>2, <3>3, <3>4, <1>1, ValueOf
    <3>5. CASE periods[t] # None
      <4>1. periods[t] \in Period
        BY <3>2, <3>5 DEF Day
      <4>2. q[t].end = r.at
        BY <3>3, <3>5, <4>1, <1>1, EndedAt
      <4> QED BY <4>2, <1>1, <3>2, ValueOf, Numbers
    <3> QED BY <3>4, <3>5
  <2>2. CASE r.starts = {}
    <3>1. \A t \in Open(q) : t \in Open(periods)
      BY <2>1, <2>2, <1>3, <1>4
    <3> QED BY <3>1 DEF OneOpen
  <2>3. CASE r.starts # {}
    <3>1. Open(periods) \subseteq Touched(r, seen)
      BY <1>6, <2>3 DEF Touched, Closed
    <3>2. \A t \in Open(q) : t = r.at
      BY <3>1, <2>1, <1>3, <1>4
    <3> QED BY <3>2 DEF OneOpen
  <2> QED BY <2>2, <2>3
<1> QED BY <1>1, <1>5, <1>6

\* An update that fits the stored periods and comes in order leaves the day
\* in order.
LEMMA StaysInOrder ==
  ASSUME periods \in Day, NEW r \in Decision, Sound(r), Planned(r), OneOpen(periods), ~Clashes(r),
         NEW seen, seen = Open(periods), InOrder(periods, r.at)
  PROVE  InOrder(Effect(r, seen), r.at)
<1> DEFINE q == Effect(r, seen)
<1>1. q \in Day /\ seen \subseteq Times /\ r.discards \in BOOLEAN /\ r.home \in BOOLEAN
      /\ r.at \in Times /\ r.ongoing \in Times \cup {None}
  BY Writes, OpenOf DEF Decision
<1>2. \A t \in Times : q[t] = IF t \in Touched(r, seen) THEN After(r, t) ELSE periods[t]
  BY DEF Effect
<1>3. r.ongoing # None => r.ongoing \in Open(periods) /\ Open(periods) = {r.ongoing} /\ r.ongoing \in Times
  BY <1>1, Choices
<1> SUFFICES InOrder(q, r.at)
  OBVIOUS
<1> HIDE DEF q
<1>4. CASE r.discards
  <2>1. r.ongoing # None /\ r.ongoing \in Times /\ r.ongoing \in Open(periods) /\ periods[r.ongoing].type = "Piheno"
    BY <1>3, <1>4 DEF Sound, Planned
  <2>2. PICK u \in Rows(periods) : periods[u].type = "Vezetes" /\ periods[u].end = r.ongoing
    BY <2>1 DEF InOrder
  <2>3. u \in Driven(r)
    BY <2>1, <2>2, Numbers DEF Driven
  <2> DEFINE v == Previous(r)
  <2>4. v \in Driven(r) /\ EndsBefore(u, v) /\ v \in Rows(periods) /\ v \in Times
    BY <2>1, <2>3, PreviousOf, OpenOf
  <2>5. periods[v].end = r.ongoing /\ periods[v].type = "Vezetes"
    <3>1. periods[v].end \in Times /\ periods[v].end =< r.ongoing
      BY <2>1, <2>4, PreviousOf
    <3>2. periods[v].end \in Nat /\ r.ongoing \in Nat
      BY <3>1, <2>1, Numbers
    <3>3. periods[u].end < periods[v].end \/ periods[u].end = periods[v].end
      BY <2>4 DEF EndsBefore
    <3>4. periods[v].end = r.ongoing
      BY <3>1, <3>2, <3>3, <2>2
    <3>5. periods[v].type = "Vezetes"
      BY <2>4 DEF Driven
    <3> QED BY <3>4, <3>5
  <2>6. v # None /\ v # r.ongoing
    BY <2>4, <2>5, <2>1, DayAssumption, Numbers DEF Open
  <2>7. Touched(r, seen) = {r.ongoing, v}
    BY <1>4, <2>1, <2>6 DEF Touched
  <2>8. q[r.ongoing] = None /\ q[v] = [periods[v] EXCEPT !.end = Running]
    BY <1>2, <1>4, <2>1, <2>4, <2>6, <2>7, AfterOf
  <2>9. \A t \in Times \ {r.ongoing, v} : q[t] = periods[t]
    BY <1>2, <2>7
  <2> HIDE DEF v
  <2> QED BY <1>1, <2>1, <2>4, <2>5, <2>8, <2>9, Reopened
<1>5. CASE ~r.discards /\ r.starts # {}
  <2>1. periods[r.at] = None
    BY <1>5 DEF Clashes
  <2>2. Touched(r, seen) = Open(periods) \cup {r.at}
    BY <1>3, <1>5 DEF Touched, Closed, Sound
  <2> DEFINE k == CHOOSE x \in r.starts : TRUE
  <2>3. q[r.at] = [type |-> k, end |-> Running] /\ k \in r.starts /\ k \in Types
    BY <1>1, <1>2, <1>5, <2>2, AfterOf, StartedType
  <2>4. k = "Piheno" => \E o \in Open(periods) : periods[o].type = "Vezetes"
    BY <1>3, <2>3 DEF Planned
  <2>5. ASSUME NEW t \in Open(periods) PROVE q[t] = [periods[t] EXCEPT !.end = r.at]
    <3>1. t \in Times /\ periods[t] # None /\ t # r.at
      BY OpenOf, ValueOf, <2>1
    <3> QED BY <3>1, <1>2, <1>5, <2>2, AfterOf
  <2>6. \A t \in Times \ (Open(periods) \cup {r.at}) : q[t] = periods[t]
    BY <1>2, <2>2
  <2> HIDE DEF k
  <2> QED BY <1>1, <2>1, <2>3, <2>4, <2>5, <2>6, Started
<1>6. CASE ~r.discards /\ r.starts = {} /\ r.home
  <2>1. r.ongoing \in Open(periods) /\ r.ongoing \in Times /\ Touched(r, seen) = {r.ongoing}
    BY <1>3, <1>6 DEF Touched, Sound
  <2>2. q[r.ongoing] = [periods[r.ongoing] EXCEPT !.end = r.at]
    BY <1>2, <1>6, <2>1, ValueOf, AfterOf
  <2>3. \A t \in Times \ {r.ongoing} : q[t] = periods[t]
    BY <1>2, <2>1
  <2> QED BY <1>1, <2>1, <2>2, <2>3, Stopped
<1>7. CASE ~r.discards /\ r.starts = {} /\ ~r.home
  <2>1. Touched(r, seen) = {}
    BY <1>7 DEF Touched
  <2>2. q = periods
    BY <1>1, <1>2, <2>1 DEF Day
  <2> QED BY <2>2
<1> QED BY <1>1, <1>4, <1>5, <1>6, <1>7

-----------------------------------------------------------------------------
(* The steps keep the invariant *)

\* The step tells the kind of a request.
LEMMA KindOf ==
  ASSUME NEW q \in Requests
  PROVE  /\ q = Idle <=> q.step = "idle"
         /\ q \in Decision <=> q.step \in {"read", "wait"}
         /\ q \in Refusal <=> q.step = "refused"
         /\ q \in Transaction <=> q.step \in Writing
<1>1. CASE q = Idle
  BY <1>1 DEF Idle, Decision, Refusal, Transaction, Writing
<1>2. CASE q \in Decision
  BY <1>2 DEF Idle, Decision, Refusal, Transaction, Writing
<1>3. CASE q \in Refusal
  BY <1>3 DEF Idle, Decision, Refusal, Transaction, Writing
<1>4. CASE q \in Transaction
  BY <1>4 DEF Idle, Decision, Refusal, Transaction, Writing
<1> QED BY <1>1, <1>2, <1>3, <1>4 DEF Requests

\* A transaction writes rows of the day only.
LEMMA PutsOf ==
  ASSUME NEW q \in Requests, q.step \in Writing
  PROVE  \A t \in DOMAIN q.put : t \in Times
<1>1. q \in Transaction
  BY KindOf
<1> QED BY <1>1 DEF Transaction, Puts

\* A commit leaves a day.
LEMMA StoredOf ==
  ASSUME periods \in Day, NEW q \in Transaction
  PROVE  Stored(q) \in Day
<1>1. PICK S \in SUBSET Times : q.put \in [S -> Period \cup {None}]
  BY DEF Transaction, Puts
<1> QED BY <1>1 DEF Stored, Day

\* What an update decides fits what it read: a rest that is discarded runs
\* and starts nothing, and a rest is started where a ride runs.
LEMMA PlanOf ==
  ASSUME periods \in Day, stop \in BOOLEAN, NEW at \in Times, NEW v, NEW near
  PROVE  LET n == Plan(at, v, near) IN
         /\ n \in Decision /\ n.step = "read" /\ n.at = at /\ Sound(n) /\ Planned(n)
<1> DEFINE o == Latest(Open(periods))
           k == IF o = None THEN None ELSE periods[o].type
           n == Plan(at, v, near)
<1>1. o \in Times \cup {None} /\ (o # None => o \in Times /\ periods[o] \in Period /\ k \in Types)
  <2>1. Open(periods) \subseteq Times /\ o \in Open(periods) \cup {None}
    BY OpenOf, LatestOf
  <2>2. ASSUME o # None PROVE o \in Times /\ periods[o] \in Period
    BY <2>1, <2>2, OpenOf
  <2> QED BY <2>1, <2>2 DEF Period
<1>2. k \in Types => o # None
  BY DayAssumption
<1> HIDE DEF o, k
<1>3. n = [step |-> "read", at |-> at, ongoing |-> o, starts |-> Starts(k, at, v, near, o),
           discards |-> Discards(k, at, v, o), home |-> "home" \in near /\ v = "still" /\ k = "Vezetes",
           near |-> "stop" \in near, arriving |-> "stop" \in near /\ Slow(v) /\ ~stop, seen |-> {}]
  BY DEF Plan, o, k
<1>4. Starts(k, at, v, near, o) \subseteq Types /\ Discards(k, at, v, o) \in BOOLEAN
  BY DEF Starts, Discards
<1>5. /\ n.step = "read" /\ n.at = at /\ n.ongoing = o /\ n.starts = Starts(k, at, v, near, o) /\ n.seen = {}
      /\ n.discards = Discards(k, at, v, o) /\ n.home = ("home" \in near /\ v = "still" /\ k = "Vezetes")
  BY <1>3
<1>6. n \in Decision
  BY <1>1, <1>3, <1>4 DEF Decision
<1>7. Discards(k, at, v, o) => v = "fast" /\ k = "Piheno" /\ o # None
  BY <1>2 DEF Discards, Types
<1>8. ASSUME Discards(k, at, v, o), NEW x \in Starts(k, at, v, near, o) PROVE FALSE
  <2>1. v = "fast" /\ k = "Piheno" /\ o # None
    BY <1>7, <1>8
  <2>2. k # None
    BY <2>1, DayAssumption DEF Types
  <2>3. x \in {"Munka", "Vezetes", "Rakodas", "Piheno"}
    BY DEF Starts, Types
  <2> QED BY <1>8, <2>1, <2>2, <2>3 DEF Starts, Slow
<1>9. "Piheno" \in Starts(k, at, v, near, o) => k = "Vezetes" /\ o # None
  BY <1>2 DEF Starts, Types
<1>10. Sound(n)
  BY <1>2, <1>5, <1>7 DEF Sound, Types
<1>11. o # None => k = periods[o].type
  BY DEF k
<1>12. Planned(n)
  <2>1. n.ongoing = Latest(Open(periods))
    BY <1>5 DEF o
  <2>2. n.discards => periods[n.ongoing].type = "Piheno" /\ n.starts = {} /\ ~n.home
    BY <1>5, <1>7, <1>8, <1>11
  <2>3. "Piheno" \in n.starts => n.ongoing # None /\ periods[n.ongoing].type = "Vezetes"
    BY <1>5, <1>9, <1>11
  <2> HIDE DEF n
  <2> QED BY <1>5, <2>1, <2>2, <2>3 DEF Planned
<1> QED BY <1>5, <1>6, <1>10, <1>12

\* A day in order stays so as time goes on.
LEMMA LaterInOrder ==
  ASSUME NEW p \in Day, NEW m \in Times, NEW n \in Times, m =< n, InOrder(p, m)
  PROVE  InOrder(p, n)
<1>1. ASSUME NEW t \in Rows(p) PROVE t =< n /\ (p[t].end # Running => p[t].end =< n)
  <2>1. t \in Nat /\ m \in Nat /\ n \in Nat /\ (p[t].end # Running => p[t].end \in Nat)
    BY OpenOf, Numbers DEF Open
  <2>2. t =< m /\ (p[t].end # Running => p[t].end =< m)
    BY DEF InOrder
  <2> QED BY <2>1, <2>2
<1> QED BY <1>1 DEF InOrder

\* Neither an overlap nor an upload so far.
Unmoved == odd \cap {"overlap", "upload"} = {}

\* A step of one request that stores nothing keeps the invariant, when what
\* the request holds afterwards fits.
LEMMA OneSlot ==
  ASSUME Inv, NEW s \in Slots, NEW n \in Requests, req' = [req EXCEPT ![s] = n], req[s] # Idle,
         UNCHANGED <<periods, stop, trail, clock, last, odd>>,
         n \in Decision => /\ Sound(n)
                           /\ Unmoved => Planned(n)
                           /\ odd = {} => n.at = last,
         n \in Transaction => /\ Unmoved => OneOpen(Stored(n))
                              /\ odd = {} => InOrder(Stored(n), last)
  PROVE  Inv'
<1>1. req \in [Slots -> Requests] /\ req' \in [Slots -> Requests] /\ req'[s] = n
      /\ \A o \in Slots \ {s} : req'[o] = req[o]
  BY DEF Inv, Shape
<1>2. \A o \in Deciding' : o \in Slots /\ (o = s => n \in Decision) /\ (o # s => o \in Deciding)
  BY <1>1, KindOf DEF Deciding
<1>3. \A o \in Holding' : o \in Slots /\ (o = s => n \in Transaction) /\ (o # s => o \in Holding)
  BY <1>1, KindOf DEF Holding
<1>4. ASSUME NEW o \in Deciding' PROVE Sound(req'[o])
  BY <1>1, <1>2, <1>4 DEF Inv, Shape
<1>5. Shape'
  <2>1. TypeOK' /\ clock' \in Times /\ clock' - 1 \in Times /\ last' \in Times
        /\ odd' \subseteq {"overlap", "late", "upload"}
    <3>1. \A o \in Slots : req'[o].step \in Writing => \A t \in DOMAIN req'[o].put : t \in Times
      BY <1>1, PutsOf
    <3> QED BY <3>1 DEF Inv, Shape, TypeOK
  <2>2. \A o \in Deciding' : Sound(req[o])'
    BY <1>4 DEF Sound
  <2> QED BY <1>1, <2>1, <2>2 DEF Shape
<1>6. Alone'
  BY <1>1 DEF Inv, Alone
<1>7. Undisturbed'
  <2>1. SUFFICES ASSUME Unmoved PROVE /\ OneOpen(periods)'
                                      /\ \A o \in Deciding' : Planned(req[o])'
                                      /\ \A o \in Holding' : OneOpen(Stored(req[o]))'
    BY DEF Undisturbed, Unmoved
  <2>2. OneOpen(periods)'
    BY <2>1 DEF Inv, Undisturbed, Unmoved, OneOpen, Open, Rows
  <2>3. ASSUME NEW o \in Deciding' PROVE Planned(req[o])'
    <3>1. Planned(req'[o])
      BY <1>1, <1>2, <2>1 DEF Inv, Undisturbed, Unmoved
    <3> QED BY <3>1 DEF Planned, Open, Rows
  <2>4. ASSUME NEW o \in Holding' PROVE OneOpen(Stored(req[o]))'
    <3>1. OneOpen(Stored(req'[o]))
      BY <1>1, <1>3, <2>1 DEF Inv, Undisturbed, Unmoved
    <3>2. Stored(req[o])' = Stored(req'[o])
      BY DEF Stored
    <3> QED BY <3>1, <3>2
  <2> QED BY <2>2, <2>3, <2>4
<1>8. Ordered'
  <2>1. SUFFICES ASSUME odd = {} PROVE /\ InOrder(periods, last)'
                                       /\ \A o \in Deciding' : req'[o].at = last
                                       /\ \A o \in Holding' : InOrder(Stored(req[o]), last)'
    BY DEF Ordered
  <2>2. InOrder(periods, last)'
    BY <2>1 DEF Inv, Ordered, InOrder, Chain, Open, Rows
  <2>3. ASSUME NEW o \in Deciding' PROVE req'[o].at = last
    BY <1>1, <1>2, <2>1 DEF Inv, Ordered
  <2>4. ASSUME NEW o \in Holding' PROVE InOrder(Stored(req[o]), last)'
    <3>1. InOrder(Stored(req'[o]), last)
      BY <1>1, <1>3, <2>1 DEF Inv, Ordered
    <3>2. Stored(req[o])' = Stored(req'[o]) /\ last' = last
      BY DEF Stored
    <3> QED BY <3>1, <3>2
  <2> QED BY <2>2, <2>3, <2>4
<1> QED BY <1>5, <1>6, <1>7, <1>8 DEF Inv

\* The invariant holds of the days to begin with.
LEMMA InvInit == Init => Inv
<1> SUFFICES ASSUME Init PROVE Inv
  OBVIOUS
<1>1. periods \in Day /\ InOrder(periods, 2) /\ 1 \in Times /\ 2 \in Times
  BY DayAssumption DEF Init
<1>2. \A s \in Slots : req[s] = Idle /\ req[s].step = "idle"
  BY DEF Init, Idle
<1>3. Deciding = {} /\ Holding = {}
  BY <1>2 DEF Deciding, Holding, Writing
<1>4. Shape
  <2>1. TypeOK
    BY <1>1, <1>2 DEF Init, TypeOK, Writing
  <2>2. req \in [Slots -> Requests]
    BY DEF Init, Requests
  <2> QED BY <1>1, <1>3, <2>1, <2>2 DEF Shape, Init
<1>5. OneOpen(periods)
  <2>1. ASSUME NEW t \in Open(periods), NEW u \in Open(periods), t < u PROVE FALSE
    BY <1>1, <2>1 DEF InOrder, Chain, Open
  <2>2. \A t \in Open(periods) : t \in Nat
    BY <1>1, OpenOf, Numbers
  <2> QED BY <2>1, <2>2 DEF OneOpen
<1> QED BY <1>1, <1>2, <1>3, <1>4, <1>5 DEF Inv, Alone, Undisturbed, Ordered, Init

\* An update that comes in decides on what is stored.
LEMMA InvRead ==
  ASSUME Inv, NEW s \in Slots, NEW at \in {clock - 1, clock}, NEW v, NEW near, Read(s, at, v, near)
  PROVE  Inv'
<1>1. periods \in Day /\ stop \in BOOLEAN /\ at \in Times /\ last \in Times /\ last' \in Times
      /\ req \in [Slots -> Requests] /\ odd \subseteq {"overlap", "late", "upload"}
  BY DEF Inv, Shape, TypeOK, Read
<1>2. PICK n : n = Plan(at, v, near)
  OBVIOUS
<1>3. n \in Decision /\ n.step = "read" /\ n.at = at /\ Sound(n) /\ Planned(n)
  BY <1>1, <1>2, PlanOf
<1>4. n \in Requests
  BY <1>3 DEF Requests
<1>5. req' \in [Slots -> Requests] /\ req'[s] = n /\ \A o \in Slots \ {s} : req'[o] = req[o]
  BY <1>1, <1>2, <1>4 DEF Read
<1>6. periods' = periods /\ stop' = stop /\ trail' = trail /\ clock' = clock /\ req[s] = Idle
  BY DEF Read
<1>7. odd' \subseteq {"overlap", "late", "upload"} /\ odd \subseteq odd'
  BY <1>1 DEF Read
<1>8. ASSUME "overlap" \notin odd' PROVE \A o \in Slots : req[o] = Idle
  BY <1>8 DEF Read
<1>9. Shape'
  <2>1. \A o \in Slots : req'[o].step \in Writing => \A t \in DOMAIN req'[o].put : t \in Times
    BY <1>5, PutsOf
  <2>2. TypeOK'
    BY <1>6, <2>1 DEF Inv, Shape, TypeOK
  <2>3. ASSUME NEW o \in Deciding' PROVE Sound(req'[o])
    BY <1>3, <1>5, <1>6 DEF Inv, Shape, Deciding
  <2>4. \A o \in Deciding' : Sound(req[o])'
    BY <2>3 DEF Sound
  <2>5. clock' \in Times /\ clock' - 1 \in Times
    BY <1>6 DEF Inv, Shape
  <2> QED BY <1>1, <1>5, <1>7, <2>2, <2>4, <2>5 DEF Shape
<1>10. Alone'
  BY <1>5, <1>8 DEF Alone
<1>11. ASSUME "overlap" \notin odd' PROVE Deciding' \subseteq {s} /\ Holding' = {}
  <2>1. \A o \in Slots \ {s} : req'[o].step = "idle"
    BY <1>5, <1>8, <1>11 DEF Idle
  <2> QED BY <1>3, <1>5, <2>1 DEF Deciding, Holding, Writing
<1>12. Undisturbed'
  <2>1. SUFFICES ASSUME odd' \cap {"overlap", "upload"} = {}
                 PROVE  /\ OneOpen(periods)'
                        /\ \A o \in Deciding' : Planned(req[o])'
                        /\ \A o \in Holding' : OneOpen(Stored(req[o]))'
    BY DEF Undisturbed
  <2>2. OneOpen(periods)'
    <3>1. OneOpen(periods)
      BY <2>1, <1>7 DEF Inv, Undisturbed
    <3> QED BY <3>1, <1>6
  <2>3. Deciding' \subseteq {s} /\ Holding' = {}
    BY <1>11, <2>1
  <2>4. ASSUME NEW o \in Deciding' PROVE Planned(req[o])'
    <3>1. o = s
      BY <2>3
    <3>2. Planned(n)'
      BY <1>3, <1>6 DEF Planned, Open, Rows
    <3> QED BY <1>5, <3>1, <3>2 DEF Planned
  <2> QED BY <2>2, <2>3, <2>4
<1>13. Ordered'
  <2>1. SUFFICES ASSUME odd' = {}
                 PROVE  /\ InOrder(periods, last)'
                        /\ \A o \in Deciding' : req'[o].at = last'
                        /\ \A o \in Holding' : InOrder(Stored(req[o]), last)'
    BY DEF Ordered
  <2>2. odd = {} /\ ~(at < last) /\ "overlap" \notin odd'
    BY <2>1, <1>7 DEF Read
  <2>3. last' = at /\ last =< last'
    BY <2>2, <1>1, Numbers DEF Read
  <2>4. InOrder(periods, last')
    BY <1>1, <2>2, <2>3, LaterInOrder DEF Inv, Ordered
  <2>5. InOrder(periods, last)'
    BY <2>4, <1>6
  <2> QED BY <1>3, <1>5, <1>11, <2>2, <2>3, <2>5
<1> QED BY <1>9, <1>10, <1>12, <1>13 DEF Inv

\* Waiting for a lock keeps what was decided.
LEMMA InvWait ==
  ASSUME Inv, NEW s \in Slots, Wait(s)
  PROVE  Inv'
<1>1. periods \in Day /\ req \in [Slots -> Requests] /\ req[s].step = "read" /\ Open(periods) \subseteq Times
  BY OpenOf DEF Inv, Shape, TypeOK, Wait
<1>2. PICK r : r = req[s]
  OBVIOUS
<1>3. PICK n : n = [r EXCEPT !.step = "wait", !.seen = Open(periods)]
  OBVIOUS
<1>4. r \in Decision /\ s \in Deciding /\ r # Idle
  BY <1>1, <1>2, KindOf DEF Deciding
<1>5. n \in Decision /\ n.step = "wait" /\ n.seen = Open(periods) /\ n.at = r.at /\ n.ongoing = r.ongoing
      /\ n.starts = r.starts /\ n.discards = r.discards /\ n.home = r.home
  BY <1>1, <1>3, <1>4 DEF Decision
<1>6. n \in Requests /\ n \notin Transaction
  BY <1>5, KindOf DEF Requests, Writing
<1>7. req' = [req EXCEPT ![s] = n]
  BY <1>1, <1>2, <1>3 DEF Wait
<1>8. Sound(n)
  BY <1>2, <1>4, <1>5 DEF Inv, Shape, Sound
<1>9. Unmoved => Planned(n)
  <2>1. SUFFICES ASSUME Unmoved PROVE Planned(n)
    OBVIOUS
  <2>2. Planned(r)
    BY <1>2, <1>4, <2>1 DEF Inv, Undisturbed, Unmoved
  <2> QED BY <1>5, <2>2 DEF Planned
<1>10. odd = {} => n.at = last
  BY <1>2, <1>4, <1>5 DEF Inv, Ordered
<1> QED BY <1>2, <1>4, <1>6, <1>7, <1>8, <1>9, <1>10, OneSlot DEF Wait

\* The write is the effect of what was decided, or a refusal.
LEMMA InvWrite ==
  ASSUME Inv, NEW s \in Slots, Write(s)
  PROVE  Inv'
<1>1. periods \in Day /\ req \in [Slots -> Requests] /\ req[s].step \in {"read", "wait"}
      /\ Open(periods) \subseteq Times /\ UNCHANGED <<periods, stop, trail, clock, last, odd>>
  BY OpenOf DEF Inv, Shape, TypeOK, Write
<1>2. PICK r : r = req[s]
  OBVIOUS
<1>3. PICK seen : seen = IF r.step = "wait" THEN r.seen ELSE Open(periods)
  OBVIOUS
<1>4. r \in Decision /\ s \in Deciding /\ r # Idle /\ Sound(r)
  BY <1>1, <1>2, KindOf DEF Deciding, Inv, Shape
<1>5. seen \in SUBSET Times
  BY <1>1, <1>3, <1>4 DEF Decision
<1>6. /\ Unmoved => OneOpen(periods) /\ Planned(r)
      /\ odd = {} => InOrder(periods, r.at) /\ r.at = last
  BY <1>2, <1>4 DEF Inv, Undisturbed, Unmoved, Ordered
<1>7. CASE Clashes(r)
  <2>1. PICK n : n = [step |-> "refused", starts |-> r.starts]
    OBVIOUS
  <2>2. n \in Refusal /\ n.step = "refused"
    BY <1>4, <2>1 DEF Refusal, Decision
  <2>3. n \in Requests /\ n \notin Decision /\ n \notin Transaction
    BY <2>2, KindOf DEF Requests, Writing
  <2>4. req' = [req EXCEPT ![s] = n]
    BY <1>2, <1>7, <2>1 DEF Write
  <2> QED BY <1>1, <1>2, <1>4, <2>3, <2>4, OneSlot
<1>8. CASE ~Clashes(r)
  <2>1. PICK n : n = [step |-> "held", at |-> r.at, near |-> r.near,
                      arrives |-> r.arriving /\ \E t \in trail : t + Stay < r.at,
                      put |-> [t \in Touched(r, seen) |-> After(r, t)]]
    OBVIOUS
  <2>2. Touched(r, seen) \subseteq Times /\ \A t \in Times : After(r, t) \in Period \cup {None}
    BY <1>1, <1>4, <1>5, Writes
  <2>3. n.put \in Puts /\ n.put = [t \in Touched(r, seen) |-> After(r, t)] /\ n.step = "held"
    BY <2>1, <2>2 DEF Puts
  <2>4. n \in Transaction
    BY <1>4, <2>1, <2>3 DEF Transaction, Decision, Writing
  <2>5. n \in Requests /\ n \notin Decision
    BY <2>3, <2>4, KindOf DEF Requests
  <2>6. req' = [req EXCEPT ![s] = n]
    BY <1>2, <1>3, <1>8, <2>1 DEF Write
  <2>7. Stored(n) = Effect(r, seen)
    <3>1. DOMAIN n.put = Touched(r, seen) /\ \A t \in Touched(r, seen) : n.put[t] = After(r, t)
      BY <2>3
    <3> QED BY <3>1 DEF Stored, Effect
  <2>8. Unmoved => seen = Open(periods)
    BY <1>3, <1>6 DEF Planned
  <2>9. Unmoved => OneOpen(Stored(n))
    BY <1>1, <1>4, <1>6, <1>8, <2>7, <2>8, StaysOpenOnce
  <2>10. odd = {} => InOrder(Stored(n), last)
    <3>1. SUFFICES ASSUME odd = {} PROVE InOrder(Stored(n), last)
      OBVIOUS
    <3>2. Unmoved
      BY <3>1 DEF Unmoved
    <3> QED BY <1>1, <1>4, <1>6, <1>8, <2>7, <2>8, <3>1, <3>2, StaysInOrder
  <2> QED BY <1>1, <1>2, <1>4, <2>5, <2>6, <2>9, <2>10, OneSlot
<1> QED BY <1>7, <1>8

\* The routing service changes nothing.
LEMMA InvRoute ==
  ASSUME Inv, NEW s \in Slots, Route(s)
  PROVE  Inv'
<1>1. req \in [Slots -> Requests] /\ req[s].step = "held"
  BY DEF Inv, Shape, Route
<1>2. PICK r : r = req[s]
  OBVIOUS
<1>3. r \in Transaction /\ r # Idle /\ s \in Holding
  BY <1>1, <1>2, KindOf DEF Holding, Writing
<1>4. PICK n : n = [r EXCEPT !.step = "routed"]
  OBVIOUS
<1>5. n \in Transaction /\ n.step = "routed" /\ n.put = r.put
  BY <1>3, <1>4 DEF Transaction, Writing
<1>6. n \in Requests /\ n \notin Decision
  BY <1>5, KindOf DEF Requests
<1>7. req' = [req EXCEPT ![s] = n]
  BY <1>1, <1>2, <1>4 DEF Route
<1>8. Stored(n) = Stored(r)
  BY <1>5 DEF Stored
<1>9. /\ Unmoved => OneOpen(Stored(n))
      /\ odd = {} => InOrder(Stored(n), last)
  BY <1>2, <1>3, <1>8 DEF Inv, Undisturbed, Unmoved, Ordered
<1> QED BY <1>2, <1>3, <1>6, <1>7, <1>9, OneSlot DEF Route

\* A rollback leaves the day as it is.
LEMMA InvAbort ==
  ASSUME Inv, NEW s \in Slots, Abort(s)
  PROVE  Inv'
<1>1. req[s] # Idle
  BY DEF Abort, Idle, Writing
<1>2. Idle \in Requests /\ Idle.step = "idle"
  BY DEF Requests, Idle
<1>3. Idle \notin Decision /\ Idle \notin Transaction
  BY <1>2, KindOf DEF Writing
<1>4. PICK n : n = Idle
  OBVIOUS
<1> QED BY <1>1, <1>2, <1>3, <1>4, OneSlot DEF Abort

\* A commit stores what was written; alone, it leaves no other request.
LEMMA InvCommit ==
  ASSUME Inv, NEW s \in Slots, Commit(s)
  PROVE  Inv'
<1>1. periods \in Day /\ req \in [Slots -> Requests] /\ req[s].step = "routed" /\ last \in Times
  BY DEF Inv, Shape, TypeOK, Commit
<1>2. PICK r : r = req[s]
  OBVIOUS
<1>3. r \in Transaction /\ r # Idle /\ s \in Holding
  BY <1>1, <1>2, KindOf DEF Holding, Writing
<1>4. periods' = Stored(r) /\ Stored(r) \in Day /\ UNCHANGED <<clock, last, odd>>
  BY <1>1, <1>2, <1>3, StoredOf DEF Commit
<1>5. req' \in [Slots -> Requests] /\ req'[s] = Idle /\ \A o \in Slots \ {s} : req'[o] = req[o]
  BY <1>1 DEF Commit, Requests
<1>6. Idle.step = "idle"
  BY DEF Idle
<1>7. Shape'
  <2>1. \A o \in Slots : req'[o].step \in Writing => \A t \in DOMAIN req'[o].put : t \in Times
    BY <1>5, PutsOf
  <2>2. stop' \in BOOLEAN /\ trail' \subseteq Times
    BY <1>2, <1>3 DEF Commit, Inv, Shape, TypeOK, Transaction
  <2>3. TypeOK'
    BY <1>4, <2>1, <2>2 DEF TypeOK
  <2>4. ASSUME NEW o \in Deciding' PROVE Sound(req'[o])
    BY <1>5, <1>6 DEF Inv, Shape, Deciding
  <2>5. \A o \in Deciding' : Sound(req[o])'
    BY <2>4 DEF Sound
  <2>6. clock' \in Times /\ clock' - 1 \in Times /\ last' \in Times /\ odd' \subseteq {"overlap", "late", "upload"}
    BY <1>4 DEF Inv, Shape
  <2> QED BY <1>5, <2>3, <2>5, <2>6 DEF Shape
<1>8. Alone'
  BY <1>4, <1>5 DEF Inv, Alone
<1>9. ASSUME "overlap" \notin odd PROVE Deciding' = {} /\ Holding' = {}
  <2>1. \A o \in Slots \ {s} : req'[o] = Idle
    BY <1>2, <1>3, <1>5, <1>9 DEF Inv, Alone
  <2> QED BY <1>5, <1>6, <2>1 DEF Deciding, Holding, Writing
<1>10. Undisturbed'
  <2>1. SUFFICES ASSUME Unmoved PROVE OneOpen(periods)' /\ Deciding' = {} /\ Holding' = {}
    BY <1>4 DEF Undisturbed, Unmoved
  <2>2. OneOpen(Stored(r))
    BY <1>2, <1>3, <2>1 DEF Inv, Undisturbed, Unmoved
  <2>3. OneOpen(periods)'
    BY <1>4, <2>2
  <2> QED BY <1>9, <2>1, <2>3 DEF Unmoved
<1>11. Ordered'
  <2>1. SUFFICES ASSUME odd = {} PROVE InOrder(periods, last)' /\ Deciding' = {} /\ Holding' = {}
    BY <1>4 DEF Ordered
  <2>2. InOrder(Stored(r), last)
    BY <1>2, <1>3, <2>1 DEF Inv, Ordered
  <2>3. InOrder(periods, last)'
    BY <1>4, <2>2
  <2> QED BY <1>9, <2>1, <2>3
<1> QED BY <1>7, <1>8, <1>10, <1>11 DEF Inv

\* After an upload only the types and the overlap count.
LEMMA InvUpload ==
  ASSUME Inv, NEW t \in Times, NEW k \in {"Vezetes", "Piheno"}, NEW e \in Times \cup {Running},
         Upload(t, [type |-> k, end |-> e])
  PROVE  Inv'
<1>1. PICK p : p = [type |-> k, end |-> e]
  OBVIOUS
<1>2. p \in Period
  BY <1>1 DEF Period, Types
<1>3. periods' = [periods EXCEPT ![t] = p]
  BY <1>1 DEF Upload
<1>4. periods' \in Day
  BY <1>2, <1>3 DEF Inv, Shape, TypeOK, Day
<1>5. UNCHANGED <<stop, trail, clock, req, last>> /\ odd' = odd \cup {"upload"}
  BY DEF Upload
<1>6. Shape'
  <2>1. TypeOK'
    BY <1>4, <1>5 DEF Inv, Shape, TypeOK
  <2> QED BY <1>5, <2>1 DEF Inv, Shape, Deciding, Sound
<1>7. Alone'
  BY <1>5 DEF Inv, Alone
<1>8. Undisturbed' /\ Ordered'
  BY <1>5 DEF Undisturbed, Ordered
<1> QED BY <1>6, <1>7, <1>8 DEF Inv

\* Time, the office and stuttering.
LEMMA InvOther ==
  ASSUME Inv, Reopen \/ Tick \/ UNCHANGED vars
  PROVE  Inv'
<1>1. UNCHANGED <<periods, trail, req, last, odd>>
  BY DEF Reopen, Tick, vars
<1>2. stop' \in BOOLEAN /\ clock' \in Times /\ clock' - 1 \in Times
  <2>1. clock \in Nat /\ clock \in Times /\ clock - 1 \in Times
    BY Numbers DEF Inv, Shape
  <2>2. clock' = clock \/ (clock' = clock + 1 /\ clock' \in Times)
    BY DEF Reopen, Tick, vars
  <2>3. stop' \in BOOLEAN
    BY DEF Inv, Shape, TypeOK, Reopen, Tick, vars
  <2> QED BY <2>1, <2>2, <2>3
<1>3. Shape'
  <2>1. TypeOK'
    BY <1>1, <1>2 DEF Inv, Shape, TypeOK
  <2> QED BY <1>1, <1>2, <2>1 DEF Inv, Shape, Deciding, Sound
<1>4. Alone'
  BY <1>1 DEF Inv, Alone
<1>5. Undisturbed'
  BY <1>1 DEF Inv, Undisturbed, OneOpen, Open, Rows, Deciding, Holding, Planned, Stored
<1>6. Ordered'
  BY <1>1 DEF Inv, Ordered, InOrder, Chain, Open, Rows, Deciding, Holding, Stored
<1> QED BY <1>3, <1>4, <1>5, <1>6 DEF Inv

\* Every step keeps the invariant.
LEMMA InvNext == Inv /\ [Next]_vars => Inv'
<1> SUFFICES ASSUME Inv, [Next]_vars PROVE Inv'
  OBVIOUS
<1>1. ASSUME NEW s \in Slots, NEW at \in {clock - 1, clock}, NEW v \in Speeds, NEW near \in SUBSET {"stop", "home"},
             Read(s, at, v, near)
      PROVE  Inv'
  BY <1>1, InvRead
<1>2. ASSUME NEW s \in Slots, Wait(s) \/ Write(s) \/ Route(s) \/ Commit(s) \/ Abort(s) PROVE Inv'
  BY <1>2, InvWait, InvWrite, InvRoute, InvCommit, InvAbort
<1>3. ASSUME NEW t \in Times, NEW k \in {"Vezetes", "Piheno"},
             NEW e \in {u \in Times : t < u /\ u =< clock} \cup {Running}, Upload(t, [type |-> k, end |-> e])
      PROVE  Inv'
  BY <1>3, InvUpload
<1>4. ASSUME Reopen \/ Tick \/ UNCHANGED vars PROVE Inv'
  BY <1>4, InvOther
<1> QED BY <1>1, <1>2, <1>3, <1>4 DEF Next

\* The invariant implies the property.
LEMMA InvSound == Inv => PeriodsAreSound
<1> SUFFICES ASSUME Inv PROVE PeriodsAreSound
  OBVIOUS
<1>1. SecondOpenPeriodNeedsOverlap
  <2>1. SUFFICES ASSUME Unmoved PROVE ~(Cardinality(Open(periods)) > 1)
    BY DEF SecondOpenPeriodNeedsOverlap, Unmoved
  <2>2. OneOpen(periods)
    BY <2>1 DEF Inv, Undisturbed, Unmoved
  <2>3. CASE Open(periods) = {}
    BY <2>3, FS_EmptySet
  <2>4. CASE Open(periods) # {}
    <3>1. PICK t : t \in Open(periods)
      BY <2>4
    <3>2. Open(periods) = {t}
      BY <2>2, <3>1 DEF OneOpen
    <3>3. Cardinality({t}) = 1
      BY FS_Singleton
    <3> QED BY <3>2, <3>3
  <2> QED BY <2>3, <2>4
<1>2. PeriodsFormAChain
  BY DEF Inv, Ordered, InOrder, PeriodsFormAChain
<1>3. TypeOK
  BY DEF Inv, Shape
<1> QED BY <1>1, <1>2, <1>3 DEF PeriodsAreSound

-----------------------------------------------------------------------------
(* The theorem *)

\* Two periods of a driver run at a time only after an overlap or an upload,
\* and updates in order leave a chain of periods, whatever the times, the
\* thresholds, the days to begin with and the number of updates (status-
\* engine.js 31, 183-222).
THEOREM DayStaysSound == Spec => []PeriodsAreSound
<1>1. Init => Inv
  BY InvInit
<1>2. Inv /\ [Next]_vars => Inv'
  BY InvNext
<1>3. Inv => PeriodsAreSound
  BY InvSound
<1> QED BY <1>1, <1>2, <1>3, PTL DEF Spec

=============================================================================
