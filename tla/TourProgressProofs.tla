------------------------- MODULE TourProgressProofs -------------------------
(***************************************************************************)
(* What holds of a tour and its stops, however many stops, cargo, hotels    *)
(* and requests there are: an inductive invariant, one lemma per statement  *)
(* of a request that keeps it, and the four properties that TLC checks on   *)
(* two stops and two requests.                                              *)
(***************************************************************************)
EXTENDS TourProgress, FiniteSetTheorems, FunctionTheorems, WellFoundedInduction, NaturalsInduction, TLAPS

-----------------------------------------------------------------------------
(* The inductive invariant *)

\* Functions from some of S to T.
Maps(S, T) == UNION {[X -> T] : X \in SUBSET S}

\* The statements a request can be at.
Stage == {"idle", "gate", "prior", "form", "stops", "sequence", "tour", "sweep", "all", "drop", "load",
          "items", "refuse", "commit", "plan", "lock", "route", "read", "cargo", "hotel", "write"}

\* All that a request may be made of.
Requests == [op : Op, pc : Stage, put : Maps(Stops, StopStatus), item : Maps(Cargo, CargoStatus),
             todo : Seq(Stops), was : TourStatus, seen : TourStatus, yes : BOOLEAN,
             marked : SUBSET Stops, prior : Maps(Stops, StopRow), stock : Maps(Cargo \cup Hotels, CargoStatus \cup HotelStatus)]

\* Rows written or committed have their types.
Fit(f) == DOMAIN f \subseteq Rows /\ \A r \in DOMAIN f : f[r] \in RowType(r)

\* Which requests pass through which statement.
Staged(q) ==
    /\ q.pc = "idle" => q = Idle
    /\ q.pc = "gate" => q.op = "complete"
    /\ q.pc = "prior" => q.op = "sync"
    /\ q.pc = "form" => q.op \in {"patchTour", "patchStop", "save"}
    /\ q.pc = "stops" => q.op \in Marking \cup {"patchStop", "deleteStop", "addStop", "reorder", "sync", "save", "live"}
    /\ q.pc = "sequence" => q.op = "reorder"
    /\ q.pc \in {"tour", "sweep"} => q.op = "save"
    /\ q.pc \in {"all", "drop"} => q.op \in {"syncDelete", "deleteTour"}
    /\ q.pc \in {"load", "refuse"} => q.op = "sync"
    /\ q.pc = "items" => q.op \in {"sync", "save"}
    /\ q.pc = "commit" => q.op \in {"sync", "save", "live"}
    /\ q.pc \in {"plan", "lock", "route"} => q.op \in Recalculating
    /\ q.pc = "read" => q.op \in Recalculating \cup Marking \cup {"location"}
    /\ q.pc \in {"cargo", "hotel", "write"} => q.op \in Recalculating \cup Marking \cup {"location", "patchTour"}

\* What a request has left to write, and to what.
Listing(q) ==
    /\ q.pc \in {"gate", "prior", "stops", "route"} => q.todo # << >>
    /\ q.pc = "form" /\ q.op = "patchStop" => q.todo # << >>
    /\ q.pc \in {"form", "gate", "prior", "tour", "stops"} => \A i \in 1 .. Len(q.todo) : q.todo[i] \in DOMAIN q.put
    /\ q.op \in {"reorder", "sync", "save"} /\ q.pc \in {"form", "tour", "prior", "stops"} =>
          Len(q.todo) <= Cardinality(DOMAIN q.put)
    /\ q.op \in Marking \cup {"live"} /\ q.pc \in {"gate", "stops"} => Len(q.todo) = 1
    /\ q.op = "complete" => \A s \in DOMAIN q.put : q.put[s] = "COMPLETED"

\* Which rows a request holds.
Holding(q, o) ==
    /\ q.op \in {"none", "location", "patchTour", "deleteTour"} => DOMAIN o = {}
    /\ q.op \in Marking \cup {"live"} => DOMAIN o \subseteq Stops
    /\ q.op \in Marking \cup {"live"} /\ q.pc \in {"gate", "stops"} => DOMAIN o = {}
    /\ q.pc = "prior" => DOMAIN o = {}
    /\ q.op \in {"complete", "sync"} =>
          \A s \in DOMAIN q.put :
             s \in DOMAIN o \/ (q.pc \in {"gate", "prior", "stops"} /\ \E i \in 1 .. Len(q.todo) : q.todo[i] = s)
    /\ q.op \in Recalculating /\ q.pc \in {"route", "read", "cargo", "hotel", "write"} => Tour \in DOMAIN o

\* The status a request has for the tour, against the committed one.
Aware(q, o, d) ==
    /\ Tour \in DOMAIN o => o[Tour].status = d[Tour].status \/ (q.op = "sync" /\ o[Tour].status = "PLANNED")
    /\ q.op \in Recalculating /\ q.pc \in {"cargo", "hotel", "write"} =>
          /\ d[Tour].status = "COMPLETED" => q.seen = "COMPLETED"
          /\ d[Tour].status = "IN_PROGRESS" => q.seen # "PLANNED"

\* What holds a tour open
Opening == {"PLANNED", "PICKED_UP", "DAMAGED", "CHECKED_IN"}

\* A tour about to be completed was found clear.
Checked(q) ==
    /\ q.op # "patchTour" /\ q.pc \in {"cargo", "hotel"} => q.seen # "COMPLETED"
    /\ q.pc = "hotel" => \A c \in Cargo : q.stock[c] \in CargoStatus
    /\ q.pc = "write" /\ ~q.yes /\ q.seen = "COMPLETED" /\ q.was # "COMPLETED" =>
          \A r \in Cargo \cup Hotels : q.stock[r] \notin Opening

\* Who may take is_completed from a stop
Undoing(q, s) ==
    /\ s \in DOMAIN q.put
    /\ \/ q.op \in {"arrive", "save"}
       \/ q.op = "sync" /\ (q.prior[s].life = "new" \/ ~IsCompleted(q.prior[s]))

\* What a request may make of a stop d.
Follows(q, s, d, w) ==
    /\ d.life # "new" => w.life # "new"
    /\ Agree(d) => Agree(w) \/ PartsColumns(q, s, w)
    /\ d.life # "new" /\ d.done /\ ~w.done =>
          Undoing(q, s) /\ w.status # "COMPLETED" /\ (q.op = "sync" => q.pc = "commit")

\* What a completion makes of a stop: one that is there, and completed in
\* is_completed too.
Completes(q, s, w) ==
    s \in DOMAIN q.put =>
       /\ q.op \in {"complete", "sync"} => w.life # "new"
       /\ Completing(q, s) /\ IsCompleted(w) => w.done

\* So it is for every stop a request has written.
Kept(q, o, d) == \A s \in Stops \cap DOMAIN o : Follows(q, s, d[s], o[s]) /\ Completes(q, s, o[s])

\* A sync: what it has read, and that what it closes is not blocked.
Ruled(q, o) ==
    /\ q.op = "sync" /\ q.pc \in {"stops", "load", "items", "refuse", "commit"} => q.prior \in [Stops -> StopRow]
    /\ q.op = "sync" /\ q.pc = "commit" =>
          /\ \A c \in Cargo \cap DOMAIN o : o[c] = q.stock[c]
          /\ \A s \in DOMAIN q.put, c \in Cargo :
                SentClosed(q, s) /\ IsDone(o[s]) /\ ~IsDone(q.prior[s]) => ~BlocksStop(q.stock, c, s)

\* All of that, of a request q that holds the rows o, with d the committed
\* ones.
Sound(q, o, d) ==
    /\ q \in Requests /\ Fit(o)
    /\ Staged(q) /\ Listing(q) /\ Holding(q, o) /\ Aware(q, o, d) /\ Checked(q) /\ Kept(q, o, d) /\ Ruled(q, o)

\* Nobody holds a row that another holds.
Apart == \A h, g \in Request : h # g => DOMAIN own[h] \cap DOMAIN own[g] = {}

\* The committed rows, and the counts.
Base ==
    /\ DOMAIN db = Rows /\ Fit(db)
    /\ DOMAIN own = Request /\ DOMAIN req = Request
    /\ served \in 0 .. MaxServed /\ changes \in 0 .. MaxChanges

\* A completion that was told of is one: is_completed says so.
Told == accepted \subseteq Stops /\ \A s \in accepted : db[s].life # "new" /\ db[s].done

\* The inductive invariant.
TourInv == Base /\ Told /\ Apart /\ \A h \in Request : Sound(req[h], own[h], db)

-----------------------------------------------------------------------------
(* Orders of stops *)

\* A set of numbers has a least one.
LEMMA Least ==
  ASSUME NEW S, S \subseteq Nat, S # {}
  PROVE  \E x \in S : \A y \in S : x =< y
<1> DEFINE Less == {p \in Nat \X Nat : p[1] < p[2]}
<1>1. IsWellFoundedOn(Less, Nat)
  BY NatLessThanWellFounded DEF OpToRel
<1>2. PICK x \in S : \A y \in S : ~(<<y, x>> \in Less)
  <2> HIDE DEF Less
  <2> QED BY <1>1, WFMin
<1>3. ASSUME NEW y \in S PROVE x =< y
  <2>1. <<y, x>> \in Nat \X Nat => ~(y < x)
    BY <1>2
  <2> QED BY <2>1
<1> QED BY <1>3

\* A bounded set of numbers has a greatest one.
LEMMA Greatest ==
  ASSUME NEW n \in Nat, NEW S, S \subseteq 0 .. n, S # {}
  PROVE  \E x \in S : \A y \in S : y =< x
<1> DEFINE T == {n - x : x \in S}
<1>1. PICK m \in T : \A y \in T : m =< y
  <2>1. \A x \in S : n - x \in Nat
    OBVIOUS
  <2>2. T \subseteq Nat
    BY <2>1
  <2>3. T # {}
    OBVIOUS
  <2> HIDE DEF T
  <2> QED BY <2>2, <2>3, Least
<1>2. PICK x \in S : m = n - x
  OBVIOUS
<1>3. ASSUME NEW y \in S PROVE y =< x
  <2>1. m =< n - y
    BY <1>1
  <2>2. x \in 0 .. n /\ y \in 0 .. n
    OBVIOUS
  <2> HIDE DEF T
  <2> QED BY <1>2, <2>1, <2>2
<1> QED BY <1>3

\* The elements of a finite set in the order of their numbers.
LEMMA SortedExists ==
  ASSUME NEW S, IsFiniteSet(S), NEW f, \A s \in S : f[s] \in Nat
  PROVE  \E q \in [1 .. Cardinality(S) -> S] :
            /\ {q[i] : i \in DOMAIN q} = S
            /\ \A i, j \in DOMAIN q : i < j => f[q[i]] =< f[q[j]]
<1> DEFINE n == Cardinality(S)
           Good(k, q) == /\ q \in [1 .. k -> S]
                         /\ \A i, j \in 1 .. k : i < j => q[i] # q[j] /\ f[q[i]] =< f[q[j]]
                         /\ \A i \in 1 .. k : \A s \in S : s \in {q[j] : j \in 1 .. k} \/ f[q[i]] =< f[s]
           Ks == {k \in 0 .. n : \E q : Good(k, q)}
<1>1. n \in Nat
  BY FS_CardinalityType
<1>2. 0 \in Ks
  <2>1. Good(0, [i \in 1 .. 0 |-> i])
    OBVIOUS
  <2>2. \E q : Good(0, q)
    <3> HIDE DEF Good
    <3> QED BY <2>1
  <2>3. 0 \in 0 .. n
    BY <1>1
  <2> HIDE DEF Good, n
  <2> QED BY <2>2, <2>3
<1>3. PICK k \in Ks : \A y \in Ks : y =< k
  <2>1. Ks \subseteq 0 .. n /\ Ks # {}
    BY <1>2
  <2> HIDE DEF Ks
  <2> QED BY <2>1, <1>1, Greatest
<1>4. PICK q : Good(k, q)
  BY <1>3
<1> DEFINE R == S \ {q[j] : j \in 1 .. k}
<1>5. R = {}
  <2> SUFFICES ASSUME R # {} PROVE FALSE
    OBVIOUS
  <2>1. PICK s \in R : \A t \in R : f[s] =< f[t]
    <3> DEFINE N == {f[t] : t \in R}
    <3>1. N \subseteq Nat /\ N # {}
      OBVIOUS
    <3>2. PICK m \in N : \A y \in N : m =< y
      <4> HIDE DEF N
      <4> QED BY <3>1, Least
    <3> QED BY <3>2
  <2> DEFINE p == [i \in 1 .. k + 1 |-> IF i = k + 1 THEN s ELSE q[i]]
  <2>2. k \in 0 .. n
    BY <1>3
  <2>3. p \in [1 .. k + 1 -> S] /\ (\A i \in 1 .. k : p[i] = q[i]) /\ p[k + 1] = s
    BY <2>2, <1>4
  <2>4. {p[j] : j \in 1 .. k + 1} = {q[j] : j \in 1 .. k} \cup {s}
    <3>1. 1 .. k + 1 = (1 .. k) \cup {k + 1}
      BY <2>2
    <3> HIDE DEF p
    <3> QED BY <3>1, <2>3
  <2>5. \A i, j \in 1 .. k + 1 : i < j => p[i] # p[j] /\ f[p[i]] =< f[p[j]]
    <3> SUFFICES ASSUME NEW i \in 1 .. k + 1, NEW j \in 1 .. k + 1, i < j PROVE p[i] # p[j] /\ f[p[i]] =< f[p[j]]
      OBVIOUS
    <3>1. i \in 1 .. k /\ p[i] = q[i]
      BY <2>2, <2>3
    <3>2. CASE j \in 1 .. k
      <4>1. p[j] = q[j]
        BY <3>2, <2>3
      <4> HIDE DEF p
      <4> QED BY <3>1, <3>2, <4>1, <1>4
    <3>3. CASE j = k + 1
      <4>1. p[j] = s
        BY <3>3, <2>3
      <4> HIDE DEF p
      <4> QED BY <3>1, <4>1, <1>4, <2>1
    <3> QED BY <3>2, <3>3, <2>2
  <2>6. \A i \in 1 .. k + 1 : \A t \in S : t \in {p[j] : j \in 1 .. k + 1} \/ f[p[i]] =< f[t]
    <3> SUFFICES ASSUME NEW i \in 1 .. k + 1, NEW t \in S, t \notin {q[j] : j \in 1 .. k}, t # s
                 PROVE  f[p[i]] =< f[t]
      <4> HIDE DEF p
      <4> QED BY <2>4
    <3>1. t \in R
      OBVIOUS
    <3>2. CASE i = k + 1
      <4>1. p[i] = s
        BY <3>2, <2>3
      <4> HIDE DEF p, R
      <4> QED BY <4>1, <3>1, <2>1
    <3>3. CASE i \in 1 .. k
      <4>1. p[i] = q[i]
        BY <3>3, <2>3
      <4> HIDE DEF p, R
      <4> QED BY <4>1, <3>3, <1>4
    <3> QED BY <3>2, <3>3, <2>2
  <2>7. Good(k + 1, p)
    <3> HIDE DEF p
    <3> QED BY <2>3, <2>5, <2>6
  <2>8. k + 1 =< n
    <3> HIDE DEF n
    <3>1. p \in Injection(1 .. k + 1, S)
      <4>1. \A i, j \in 1 .. k + 1 : p[i] = p[j] => i = j
        <5> HIDE DEF p
        <5> QED BY <2>5, <2>2
      <4> HIDE DEF p
      <4> QED BY <4>1, <2>3 DEF Injection, IsInjective
    <3>2. IsFiniteSet(1 .. k + 1) /\ Cardinality(1 .. k + 1) = k + 1
      BY FS_Interval, <2>2, <1>1
    <3> HIDE DEF p
    <3>3. Cardinality(1 .. k + 1) =< Cardinality(S)
      BY <3>1, FS_Injection
    <3> QED BY <3>2, <3>3 DEF n
  <2>9. k + 1 \in Ks
    <3> HIDE DEF p, Good
    <3> QED BY <2>2, <2>7, <2>8
  <2> HIDE DEF Ks
  <2> QED BY <2>2, <2>9, <1>3, <1>1
<1>6. k = n
  <2>1. q \in [1 .. k -> S] /\ k \in 0 .. n
    BY <1>3, <1>4
  <2>2. q \in Bijection(1 .. k, S)
    <3>1. \A i, j \in 1 .. k : q[i] = q[j] => i = j
      BY <1>4, <2>1
    <3>2. \A s \in S : \E i \in 1 .. k : q[i] = s
      BY <1>5
    <3> QED BY <3>1, <3>2, <2>1 DEF Bijection, Injection, Surjection, IsInjective
  <2> QED BY <2>1, <2>2, FS_CountingElements, <1>1 DEF ExistsBijection
<1>7. DOMAIN q = 1 .. n /\ q \in [1 .. n -> S]
  BY <1>4, <1>6
<1>8. {q[i] : i \in DOMAIN q} = S
  BY <1>5, <1>6, <1>7
<1>9. \A i, j \in DOMAIN q : i < j => f[q[i]] =< f[q[j]]
  BY <1>4, <1>6, <1>7
<1> QED BY <1>7, <1>8, <1>9

\* Rows of one kind are not rows of another.
LEMMA Constants ==
  /\ IsFiniteSet(Stops) /\ IsFiniteSet(Request)
  /\ \A c \in Cargo : Pickup[c] \in Stops /\ Delivery[c] \in Stops
  /\ \A c \in Cargo : c \notin Stops /\ c \notin Hotels /\ c # Tour
  /\ \A x \in Hotels : x \notin Stops /\ x # Tour
  /\ \A s \in Stops : s \notin Cargo /\ s \notin Hotels /\ s # Tour
  /\ Tour \notin Stops /\ Tour \notin Cargo /\ Tour \notin Hotels
  BY TourAssumption

\* The rows, by their kind.
LEMMA RowTypes ==
  /\ RowType(Tour) = TourRow
  /\ \A s \in Stops : RowType(s) = StopRow
  /\ \A c \in Cargo : RowType(c) = CargoStatus
  /\ \A x \in Hotels : RowType(x) = HotelStatus
<1>1. RowType(Tour) = TourRow
  BY Constants DEF RowType
<1>2. ASSUME NEW s \in Stops PROVE RowType(s) = StopRow
  BY Constants DEF RowType
<1>3. ASSUME NEW c \in Cargo PROVE RowType(c) = CargoStatus
  BY Constants DEF RowType
<1>4. ASSUME NEW x \in Hotels PROVE RowType(x) = HotelStatus
  BY Constants DEF RowType
<1> QED BY <1>1, <1>2, <1>3, <1>4

\* The empty sequence, which is the empty function too.
LEMMA Nothing ==
  /\ DOMAIN << >> = {} /\ << >> \in Seq(Stops) /\ Len(<< >>) = 0
  /\ \A S, T : << >> \in Maps(S, T)
<1>1. ASSUME NEW S, NEW T PROVE << >> \in Maps(S, T)
  <2>1. << >> \in [{} -> T]
    OBVIOUS
  <2> QED BY <2>1 DEF Maps
<1> QED BY <1>1

\* Listed names every stop of a set, once.
LEMMA ListedNames ==
  ASSUME NEW S, S \subseteq Stops
  PROVE  /\ Listed(S) \in Seq(Stops)
         /\ Len(Listed(S)) = Cardinality(S) /\ Cardinality(S) \in Nat
         /\ \A s \in S : \E i \in 1 .. Len(Listed(S)) : Listed(S)[i] = s
         /\ \A i \in 1 .. Len(Listed(S)) : Listed(S)[i] \in S
<1>1. IsFiniteSet(S) /\ Cardinality(S) \in Nat
  BY FS_Subset, FS_CardinalityType, Constants
<1> DEFINE n == Cardinality(S)
           Right(q) == {q[i] : i \in DOMAIN q} = S
<1>2. \E q \in [1 .. n -> S] : Right(q)
  <2>1. \A s \in S : [x \in S |-> 0][s] \in Nat
    OBVIOUS
  <2>2. \E q \in [1 .. n -> S] : /\ {q[i] : i \in DOMAIN q} = S
            /\ \A i, j \in DOMAIN q : i < j => [x \in S |-> 0][q[i]] =< [x \in S |-> 0][q[j]]
    BY <1>1, <2>1, SortedExists
  <2> QED BY <2>2
<1>3. Listed(S) \in [1 .. n -> S] /\ Right(Listed(S))
  <2>1. Listed(S) = CHOOSE q \in [1 .. n -> S] : Right(q)
    BY DEF Listed
  <2> HIDE DEF Right
  <2> QED BY <1>2, <2>1
<1>4. DOMAIN Listed(S) = 1 .. n
  BY <1>3
<1> DEFINE q == Listed(S)
<1> HIDE DEF q
<1>5. q \in [1 .. n -> S] /\ DOMAIN q = 1 .. n /\ {q[i] : i \in DOMAIN q} = S
  BY <1>3, <1>4 DEF q
<1>6. q \in Seq(Stops) /\ Len(q) = n
  BY <1>1, <1>5
<1> QED BY <1>1, <1>5, <1>6 DEF q

\* A route is a sequence of stops.
LEMMA RouteNames ==
  ASSUME NEW v, \A s \in Stops : v[s] \in StopRow
  PROVE  RouteOrder(v) \in Seq(Stops)
<1> DEFINE S == LiveStops(v)
           n == Cardinality(S)
           f == [s \in S |-> v[s].order]
           Right(q) == /\ {q[i] : i \in DOMAIN q} = S
                       /\ \A i, j \in DOMAIN q : i < j => v[q[i]].order =< v[q[j]].order
<1>1. S \subseteq Stops /\ IsFiniteSet(S) /\ n \in Nat
  BY FS_Subset, FS_CardinalityType, Constants DEF LiveStops
<1>2. \A s \in S : f[s] \in Nat
  BY <1>1 DEF StopRow
<1>3. PICK q \in [1 .. n -> S] :
         /\ {q[i] : i \in DOMAIN q} = S
         /\ \A i, j \in DOMAIN q : i < j => f[q[i]] =< f[q[j]]
  <2> HIDE DEF f, S
  <2> QED BY <1>1, <1>2, SortedExists
<1>4. Right(q)
  BY <1>3
<1>5. RouteOrder(v) \in [1 .. n -> S]
  <2>1. RouteOrder(v) = CHOOSE p \in [1 .. n -> S] : Right(p)
    BY DEF RouteOrder
  <2> HIDE DEF Right, n, S
  <2> QED BY <1>3, <1>4, <2>1
<1> HIDE DEF n, S
<1> QED BY <1>1, <1>5

\* The place of a new stop is a number.
LEMMA NextOrderNumber ==
  ASSUME NEW v, \A s \in Stops : v[s] \in StopRow
  PROVE  NextOrder(v) \in Nat
<1> DEFINE S == LiveStops(v)
           f == [s \in S |-> v[s].order]
           N == {v[s].order : s \in S}
<1>1. CASE S = {}
  BY <1>1 DEF NextOrder
<1>2. CASE S # {}
  <2>1. S \subseteq Stops /\ IsFiniteSet(S) /\ Cardinality(S) \in Nat /\ Cardinality(S) # 0
    BY <1>2, FS_Subset, FS_CardinalityType, FS_EmptySet, Constants DEF LiveStops
  <2>2. \A s \in S : f[s] \in Nat /\ f[s] = v[s].order
    BY <2>1 DEF StopRow
  <2>3. PICK q \in [1 .. Cardinality(S) -> S] :
           /\ {q[i] : i \in DOMAIN q} = S
           /\ \A i, j \in DOMAIN q : i < j => f[q[i]] =< f[q[j]]
    <3> HIDE DEF f, S
    <3> QED BY <2>1, <2>2, SortedExists
  <2> DEFINE l == q[Cardinality(S)]
  <2>4. l \in S /\ \A s \in S : f[s] =< f[l]
    <3>1. l \in S
      BY <2>1, <2>3
    <3>2. ASSUME NEW s \in S PROVE f[s] =< f[l]
      <4>1. PICK i \in 1 .. Cardinality(S) : q[i] = s
        BY <2>3
      <4>2. CASE i = Cardinality(S)
        BY <4>1, <4>2, <2>2
      <4>3. CASE i < Cardinality(S)
        <5> HIDE DEF f, S
        <5> QED BY <4>1, <4>3, <2>3, <2>1
      <4> QED BY <4>2, <4>3, <2>1
    <3> QED BY <3>1, <3>2
  <2>5. f[l] \in N /\ \A s \in S : v[s].order =< f[l]
    BY <2>2, <2>4
  <2>6. NextOrder(v) = 1 + CHOOSE n \in N : \A s \in S : v[s].order =< n
    BY <1>2 DEF NextOrder
  <2>7. (CHOOSE n \in N : \A s \in S : v[s].order =< n) \in N
    <3> HIDE DEF N, S, f
    <3> QED BY <2>5
  <2>8. N \subseteq Nat
    BY <2>2
  <2> DEFINE c == CHOOSE n \in N : \A s \in S : v[s].order =< n
  <2>9. NextOrder(v) = 1 + c
    BY <2>6
  <2>10. c \in Nat
    <3> HIDE DEF N, S
    <3> QED BY <2>7, <2>8
  <2> HIDE DEF c
  <2> QED BY <2>9, <2>10
<1> QED BY <1>1, <1>2

-----------------------------------------------------------------------------
(* What a transaction sees; sound requests *)

\* What a transaction that wrote o sees of the rows d.
Look(o, d) == [r \in Rows |-> IF r \in DOMAIN o THEN o[r] ELSE d[r]]

\* View, as a function of the rows.
LEMMA Looks == \A h : View(h) = Look(own[h], db)
  BY DEF View, Look

\* What a transaction sees has the types of the rows.
LEMMA LookFits ==
  ASSUME NEW o, NEW d, Fit(o), Fit(d), DOMAIN d = Rows
  PROVE  /\ DOMAIN Look(o, d) = Rows
         /\ \A r \in DOMAIN o : Look(o, d)[r] = o[r]
         /\ \A r \in Rows \ DOMAIN o : Look(o, d)[r] = d[r]
         /\ \A r \in Rows : Look(o, d)[r] \in RowType(r)
         /\ Look(o, d)[Tour] \in TourRow
         /\ \A s \in Stops : Look(o, d)[s] \in StopRow
         /\ \A c \in Cargo : Look(o, d)[c] \in CargoStatus
         /\ \A x \in Hotels : Look(o, d)[x] \in HotelStatus
<1>1. /\ DOMAIN Look(o, d) = Rows
      /\ \A r \in DOMAIN o : Look(o, d)[r] = o[r]
      /\ \A r \in Rows \ DOMAIN o : Look(o, d)[r] = d[r]
      /\ \A r \in Rows : Look(o, d)[r] \in RowType(r)
  BY DEF Look, Fit
<1>2. Tour \in Rows /\ Stops \subseteq Rows /\ Cargo \subseteq Rows /\ Hotels \subseteq Rows
  BY DEF Rows
<1> QED BY <1>1, <1>2, RowTypes

\* One more row, of its type.
LEMMA WithFits ==
  ASSUME NEW o, Fit(o), NEW r \in Rows, NEW v \in RowType(r)
  PROVE  /\ Fit(With(o, r, v)) /\ DOMAIN With(o, r, v) = DOMAIN o \cup {r}
         /\ With(o, r, v)[r] = v
         /\ \A x \in DOMAIN o \ {r} : With(o, r, v)[x] = o[x]
  BY DEF With, Fit

\* Idle is one of them.
LEMMA IdleFits == Idle \in Requests /\ Idle.op = "none" /\ Idle.pc = "idle" /\ DOMAIN Idle.put = {}
  BY Nothing DEF Idle, Requests, Op, Stage, TourStatus

\* A request that holds nothing is sound if it starts as requests do.
LEMMA FreshSound ==
  ASSUME NEW q \in Requests, NEW o, DOMAIN o = {}, NEW d,
         Staged(q), Listing(q), q.pc \in {"idle", "gate", "prior", "form", "stops", "all", "plan", "read"},
         q.op \in {"complete", "sync"} =>
            /\ q.pc \in {"gate", "prior"}
            /\ \A s \in DOMAIN q.put : \E i \in 1 .. Len(q.todo) : q.todo[i] = s,
         q.op \in Recalculating => q.pc # "read"
  PROVE  Sound(q, o, d)
<1>1. Fit(o) /\ Aware(q, o, d) /\ Checked(q) /\ Kept(q, o, d)
  BY DEF Fit, Aware, Checked, Kept
<1>2. Holding(q, o)
  BY DEF Holding
<1>3. Ruled(q, o)
  BY DEF Ruled
<1> QED BY <1>1, <1>2, <1>3 DEF Sound

\* A request that is not in progress is sound.
LEMMA IdleSound ==
  ASSUME NEW o, DOMAIN o = {}, NEW d
  PROVE  Sound(Idle, o, d)
<1>1. Staged(Idle) /\ Listing(Idle)
  BY IdleFits DEF Staged, Listing, Marking
<1> QED BY <1>1, IdleFits, FreshSound DEF Recalculating

\* A request is sound whatever becomes of the rows it does not hold.
LEMMA SoundFrame ==
  ASSUME NEW q, NEW o, NEW d, NEW e, Sound(q, o, d), \A r \in DOMAIN o : e[r] = d[r]
  PROVE  Sound(q, o, e)
<1>1. Aware(q, o, e)
  BY DEF Sound, Aware, Holding
<1>2. Kept(q, o, e)
  BY DEF Sound, Kept
<1> QED BY <1>1, <1>2 DEF Sound

\* A statement that commits nothing.
LEMMA Works ==
  ASSUME TourInv, NEW h \in Request, NEW q, NEW o, Sound(q, o, db),
         DOMAIN req' = Request, req'[h] = q, \A g \in Request \ {h} : req'[g] = req[g],
         DOMAIN own' = Request, own'[h] = o, \A g \in Request \ {h} : own'[g] = own[g],
         \A r \in DOMAIN o : r \in DOMAIN own[h] \/ Free(h, r),
         UNCHANGED <<db, accepted>>, served' \in 0 .. MaxServed, changes' \in 0 .. MaxChanges
  PROVE  TourInv'
<1>1. Base' /\ Told'
  BY DEF TourInv, Base, Told
<1>2. Apart'
  <2> SUFFICES ASSUME NEW f \in Request, NEW g \in Request, f # g
               PROVE  DOMAIN own'[f] \cap DOMAIN own'[g] = {}
    BY DEF Apart
  <2>1. DOMAIN own[f] \cap DOMAIN own[g] = {}
    BY DEF TourInv, Apart
  <2>2. CASE f = h
    <3>1. \A r \in DOMAIN o : r \notin DOMAIN own[g]
      BY <2>1, <2>2 DEF Free
    <3> QED BY <3>1, <2>2
  <2>3. CASE g = h
    <3>1. \A r \in DOMAIN o : r \notin DOMAIN own[f]
      BY <2>1, <2>3 DEF Free
    <3> QED BY <3>1, <2>3
  <2>4. CASE f # h /\ g # h
    BY <2>1, <2>4
  <2> QED BY <2>2, <2>3, <2>4
<1>3. \A g \in Request : Sound(req'[g], own'[g], db')
  BY DEF TourInv
<1> QED BY <1>1, <1>2, <1>3 DEF TourInv

\* A statement, or a COMMIT, that changes rows no other transaction holds.
LEMMA Commits ==
  ASSUME TourInv, NEW h \in Request, NEW q, NEW o, DOMAIN o = {}, Sound(q, o, db'),
         DOMAIN req' = Request, req'[h] = q, \A g \in Request \ {h} : req'[g] = req[g],
         DOMAIN own' = Request, own'[h] = o, \A g \in Request \ {h} : own'[g] = own[g],
         NEW f, Fit(f), \A r \in DOMAIN f : r \in DOMAIN own[h] \/ Free(h, r), db' = Committed(f),
         Told', served' \in 0 .. MaxServed, changes' \in 0 .. MaxChanges
  PROVE  TourInv'
<1>1. Base'
  BY DEF TourInv, Base, Committed, Fit
<1>2. Apart'
  BY DEF TourInv, Apart
<1>3. ASSUME NEW g \in Request PROVE Sound(req'[g], own'[g], db')
  <2>1. CASE g = h
    BY <2>1
  <2>2. CASE g # h
    <3>1. Sound(req[g], own[g], db) /\ req'[g] = req[g] /\ own'[g] = own[g]
      BY <2>2 DEF TourInv
    <3>2. \A r \in DOMAIN own[g] : db'[r] = db[r]
      <4> SUFFICES ASSUME NEW r \in DOMAIN own[g] PROVE db'[r] = db[r]
        OBVIOUS
      <4>1. r \in Rows
        BY <3>1 DEF Sound, Fit
      <4>2. r \notin DOMAIN f
        <5>1. DOMAIN own[h] \cap DOMAIN own[g] = {}
          BY <2>2 DEF TourInv, Apart
        <5> QED BY <5>1, <2>2 DEF Free
      <4> QED BY <4>1, <4>2 DEF Committed
    <3> QED BY <3>1, <3>2, SoundFrame
  <2> QED BY <2>1, <2>2
<1> QED BY <1>1, <1>2, <1>3 DEF TourInv

-----------------------------------------------------------------------------
(* Requests start *)

\* The start of a request keeps the invariant if the request is sound then.
LEMMA BeginKeeps ==
  ASSUME TourInv, NEW h \in Request, NEW q \in Requests, Begin(h, q), Staged(q), Listing(q),
         q.pc \in {"gate", "prior", "form", "stops", "all", "plan", "read"},
         q.op \in {"complete", "sync"} =>
            /\ q.pc \in {"gate", "prior"}
            /\ \A s \in DOMAIN q.put : \E i \in 1 .. Len(q.todo) : q.todo[i] = s,
         q.op \in Recalculating => q.pc # "read"
  PROVE  TourInv'
<1>1. DOMAIN own[h] = {}
  <2>1. Sound(req[h], own[h], db) /\ req[h] = Idle
    BY DEF TourInv, Begin
  <2> QED BY <2>1, IdleFits DEF Sound, Holding
<1>2. Sound(q, own[h], db)
  BY <1>1, FreshSound
<1>3. /\ DOMAIN req' = Request /\ req'[h] = q /\ \A g \in Request \ {h} : req'[g] = req[g]
      /\ DOMAIN own' = Request /\ own'[h] = own[h] /\ \A g \in Request \ {h} : own'[g] = own[g]
  BY DEF TourInv, Base, Begin
<1>4. UNCHANGED <<db, accepted>> /\ served' \in 0 .. MaxServed /\ changes' \in 0 .. MaxChanges
  BY TourAssumption DEF TourInv, Base, Begin
<1> QED BY <1>1, <1>2, <1>3, <1>4, Works

\* The fields of a request that names stops without an order.
LEMMA PlainIs ==
  ASSUME NEW op \in Op, NEW pc \in Stage, NEW put \in Maps(Stops, StopStatus)
  PROVE  /\ Plain(op, pc, put) \in Requests
         /\ Plain(op, pc, put).op = op /\ Plain(op, pc, put).pc = pc /\ Plain(op, pc, put).put = put
         /\ Plain(op, pc, put).todo = << >>
  BY IdleFits, Nothing DEF Plain, Requests, Idle

\* The fields of a request that lists its stops.
LEMMA OnStopsIs ==
  ASSUME NEW op \in Op, NEW pc \in Stage, NEW put \in Maps(Stops, StopStatus)
  PROVE  /\ OnStops(op, pc, put) \in Requests
         /\ OnStops(op, pc, put).op = op /\ OnStops(op, pc, put).pc = pc /\ OnStops(op, pc, put).put = put
         /\ OnStops(op, pc, put).todo = Listed(DOMAIN put)
         /\ DOMAIN put \subseteq Stops
<1>1. DOMAIN put \subseteq Stops
  BY DEF Maps
<1>2. Listed(DOMAIN put) \in Seq(Stops)
  BY <1>1, ListedNames
<1> DEFINE p == Plain(op, pc, put)
           l == Listed(DOMAIN put)
<1>3. p \in Requests /\ p.op = op /\ p.pc = pc /\ p.put = put
  BY PlainIs
<1>4. OnStops(op, pc, put) = [p EXCEPT !.todo = l]
  BY DEF OnStops
<1> HIDE DEF p, l
<1>5. [p EXCEPT !.todo = l] \in Requests
  BY <1>2, <1>3 DEF Requests, l
<1>6. LET e == [p EXCEPT !.todo = l] IN e.op = op /\ e.pc = pc /\ e.put = put /\ e.todo = l
  BY <1>3 DEF Requests
<1> QED BY <1>1, <1>4, <1>5, <1>6 DEF l

\* The same for each stop.
LEMMA EachIs ==
  ASSUME NEW S, S \subseteq Stops, NEW x \in StopStatus
  PROVE  Each(S, x) \in Maps(Stops, StopStatus) /\ DOMAIN Each(S, x) = S /\ \A s \in S : Each(S, x)[s] = x
  BY DEF Each, Maps

\* A request that lists its stops.
LEMMA ListedSound ==
  ASSUME NEW q \in Requests, Staged(q), q.todo = Listed(DOMAIN q.put), DOMAIN q.put \subseteq Stops,
         q.pc \in {"gate", "prior", "form", "stops"}, q.op # "save" => DOMAIN q.put # {}, q.pc = "stops" => q.op # "save",
         q.op \in Marking \cup {"live"} => \E s \in Stops : DOMAIN q.put = {s},
         q.op = "complete" => \A s \in DOMAIN q.put : q.put[s] = "COMPLETED"
  PROVE  Listing(q) /\ \A s \in DOMAIN q.put : \E i \in 1 .. Len(q.todo) : q.todo[i] = s
<1> DEFINE S == DOMAIN q.put
<1>1. /\ q.todo \in Seq(Stops) /\ Len(q.todo) = Cardinality(S) /\ Cardinality(S) \in Nat
      /\ \A s \in S : \E i \in 1 .. Len(q.todo) : q.todo[i] = s
      /\ \A i \in 1 .. Len(q.todo) : q.todo[i] \in S
  BY ListedNames
<1>2. q.op \in Marking \cup {"live"} => Len(q.todo) = 1
  <2> SUFFICES ASSUME q.op \in Marking \cup {"live"} PROVE Len(q.todo) = 1
    OBVIOUS
  <2>1. PICK s \in Stops : S = {s}
    OBVIOUS
  <2>2. Cardinality({s}) = 1
    BY FS_Singleton
  <2> QED BY <1>1, <2>1, <2>2
<1>3. q.op # "save" => q.todo # << >>
  <2> SUFFICES ASSUME q.op # "save", q.todo = << >> PROVE FALSE
    OBVIOUS
  <2>1. PICK s \in S : TRUE
    OBVIOUS
  <2>2. \E i \in 1 .. Len(<< >>) : TRUE
    BY <1>1, <2>1
  <2> QED BY <2>2, Nothing
<1> QED BY <1>1, <1>2, <1>3 DEF Listing, Staged

\* A request for one stop starts sound.
LEMMA OneStopStarts ==
  ASSUME TourInv, NEW h \in Request, NEW s \in Stops, NEW x \in StopStatus, NEW op \in Op, NEW pc \in Stage,
         Begin(h, OnStops(op, pc, Each({s}, x))),
         \/ op = "arrive" /\ pc = "stops"
         \/ op = "complete" /\ pc = "gate" /\ x = "COMPLETED"
         \/ op = "patchStop" /\ pc = "form"
         \/ op \in {"deleteStop", "addStop", "live"} /\ pc = "stops"
  PROVE  TourInv'
<1> DEFINE put == Each({s}, x)
           q == OnStops(op, pc, put)
<1>1. put \in Maps(Stops, StopStatus) /\ DOMAIN put = {s} /\ \A t \in {s} : put[t] = x
  BY EachIs
<1>2. /\ q \in Requests /\ q.op = op /\ q.pc = pc /\ q.put = put
      /\ q.todo = Listed(DOMAIN put) /\ DOMAIN put \subseteq Stops
  <2> HIDE DEF put
  <2> QED BY <1>1, OnStopsIs
<1> HIDE DEF put, q
<1>4. Staged(q)
  BY <1>2 DEF Staged, Recalculating, Marking
<1>3. Listing(q) /\ \A t \in DOMAIN q.put : \E i \in 1 .. Len(q.todo) : q.todo[i] = t
  BY <1>1, <1>2, <1>4, ListedSound
<1>5. Begin(h, q)
  BY DEF q, put
<1>6. /\ q.pc \in {"gate", "prior", "form", "stops", "all", "plan", "read"}
      /\ q.op \in {"complete", "sync"} => q.pc \in {"gate", "prior"}
      /\ q.op \in Recalculating => q.pc # "read"
  BY <1>2
<1> QED BY <1>2, <1>3, <1>4, <1>5, <1>6, BeginKeeps

\* A request that names no stops yet.
LEMMA PlainStarts ==
  ASSUME TourInv, NEW h \in Request, NEW op \in Op, NEW pc \in Stage, NEW st \in TourStatus,
         Begin(h, [Plain(op, pc, << >>) EXCEPT !.seen = st]),
         \/ op = "location" /\ pc = "read"
         \/ op = "patchTour" /\ pc = "form"
         \/ op = "recalculate" /\ pc = "plan"
         \/ op \in {"syncDelete", "deleteTour"} /\ pc = "all"
  PROVE  TourInv'
<1> DEFINE p == Plain(op, pc, << >>)
           q == [p EXCEPT !.seen = st]
<1>0. p \in Requests /\ p.op = op /\ p.pc = pc /\ p.put = << >> /\ p.todo = << >>
  BY PlainIs, Nothing
<1> HIDE DEF p
<1>1. q \in Requests /\ q.op = op /\ q.pc = pc /\ q.put = << >> /\ q.todo = << >>
  BY <1>0 DEF Requests
<1>2. Begin(h, q)
  BY DEF p
<1> HIDE DEF q
<1>3. Listing(q)
  BY <1>1, Nothing DEF Listing, Marking
<1>4. Staged(q)
  BY <1>1 DEF Staged, Recalculating, Marking
<1>5. /\ q.pc \in {"gate", "prior", "form", "stops", "all", "plan", "read"}
      /\ q.op \notin {"complete", "sync"}
      /\ q.op \in Recalculating => q.pc # "read"
  BY <1>1 DEF Recalculating
<1> QED BY <1>1, <1>2, <1>3, <1>4, <1>5, BeginKeeps

\* A request is as it was if only the status it is to write is put again.
LEMMA SameSeen ==
  ASSUME NEW op \in Op, NEW pc \in Stage
  PROVE  [Plain(op, pc, << >>) EXCEPT !.seen = "PLANNED"] = Plain(op, pc, << >>)
<1> DEFINE p == Plain(op, pc, << >>)
<1>1. p \in Requests /\ p.seen = "PLANNED"
  BY PlainIs, Nothing DEF Plain, Idle
<1> HIDE DEF p
<1>2. [p EXCEPT !.seen = "PLANNED"] = p
  BY <1>1 DEF Requests
<1> QED BY <1>2 DEF p

\* The committed rows have their types.
LEMMA StopRows ==
  ASSUME TourInv
  PROVE  /\ \A s \in Stops : db[s] \in StopRow
         /\ db[Tour] \in TourRow /\ (\A c \in Cargo : db[c] \in CargoStatus)
         /\ LiveStops(db) \subseteq Stops
<1>1. DOMAIN db = Rows /\ Fit(db)
  BY DEF TourInv, Base
<1>2. Tour \in Rows /\ Stops \subseteq Rows /\ Cargo \subseteq Rows
  BY DEF Rows
<1> QED BY <1>1, <1>2, RowTypes DEF Fit, LiveStops

\* The tour editor opens.
LEMMA SaveKeeps ==
  ASSUME TourInv, NEW h \in Request, Save(h)
  PROVE  TourInv'
<1> DEFINE put == Each(LiveStops(db), "PENDING")
           p == OnStops("save", "form", put)
           items == [c \in Cargo |-> db[c]]
           q == [p EXCEPT !.item = items]
<1>1. put \in Maps(Stops, StopStatus) /\ DOMAIN put \subseteq Stops
  BY EachIs, StopRows DEF StopStatus
<1>2. /\ p \in Requests /\ p.op = "save" /\ p.pc = "form" /\ p.put = put
      /\ p.todo = Listed(DOMAIN put) /\ DOMAIN put \subseteq Stops
  <2> HIDE DEF put
  <2> QED BY <1>1, OnStopsIs DEF Op, Stage
<1>3. items \in Maps(Cargo, CargoStatus)
  BY StopRows DEF Maps
<1>4. Begin(h, q)
  BY DEF Save
<1> HIDE DEF p, items
<1>5. /\ q \in Requests /\ q.op = "save" /\ q.pc = "form" /\ q.put = put /\ q.todo = Listed(DOMAIN q.put)
  BY <1>2, <1>3 DEF Requests
<1> HIDE DEF put, q
<1>7. Staged(q)
  BY <1>5 DEF Staged
<1>6. Listing(q)
  BY <1>1, <1>5, <1>7, ListedSound DEF Marking
<1> QED BY <1>4, <1>5, <1>6, <1>7, BeginKeeps DEF Recalculating

\* The phone's sync comes.
LEMMA SyncKeeps ==
  ASSUME TourInv, NEW h \in Request, Sync(h)
  PROVE  TourInv'
<1>1. PICK s \in Stops, copy \in Copies, C \in SUBSET Cargo, to \in {"PICKED_UP", "DELIVERED"} :
        Begin(h, [OnStops("sync", "prior", With(Each(LiveStops(db), "PENDING"), s, copy[1]))
                      EXCEPT !.item = Each(C, to), !.marked = IF copy[2] THEN {s} ELSE {},
                             !.yes = db[Tour].life # "new"])
  BY DEF Sync
<1> DEFINE st == copy[1]
           put == With(Each(LiveStops(db), "PENDING"), s, st)
           p == OnStops("sync", "prior", put)
           items == Each(C, to)
           M == IF copy[2] THEN {s} ELSE {}
           q == [p EXCEPT !.item = items, !.marked = M, !.yes = db[Tour].life # "new"]
<1>0. st \in StopStatus /\ M \in SUBSET Stops
  BY TourAssumption
<1>2. put \in Maps(Stops, StopStatus) /\ DOMAIN put \subseteq Stops
  <2>1. LiveStops(db) \subseteq Stops
    BY StopRows
  <2>2. put = [x \in LiveStops(db) \cup {s} |-> IF x = s THEN st ELSE "PENDING"]
    BY DEF With, Each
  <2>3. put \in [LiveStops(db) \cup {s} -> StopStatus]
    <3> HIDE DEF st
    <3> QED BY <1>0, <2>2 DEF StopStatus
  <2> QED BY <2>1, <2>3 DEF Maps
<1>3. /\ p \in Requests /\ p.op = "sync" /\ p.pc = "prior" /\ p.put = put
      /\ p.todo = Listed(DOMAIN put) /\ DOMAIN put \subseteq Stops
  <2> HIDE DEF put
  <2> QED BY <1>2, OnStopsIs DEF Op, Stage
<1>4. items \in Maps(Cargo, CargoStatus)
  <2>1. items \in [C -> CargoStatus]
    BY DEF Each, CargoStatus
  <2> QED BY <2>1 DEF Maps
<1>5. Begin(h, q)
  BY <1>1
<1> HIDE DEF p, items, M
<1>6. /\ q \in Requests /\ q.op = "sync" /\ q.pc = "prior" /\ q.put = put /\ q.todo = Listed(DOMAIN q.put)
  BY <1>0, <1>3, <1>4 DEF Requests
<1> HIDE DEF put, q
<1>8. Staged(q)
  BY <1>6 DEF Staged
<1>9. DOMAIN q.put # {}
  BY <1>6 DEF put, With
<1>7. Listing(q) /\ \A x \in DOMAIN q.put : \E i \in 1 .. Len(q.todo) : q.todo[i] = x
  BY <1>2, <1>6, <1>8, <1>9, ListedSound DEF Marking
<1> QED BY <1>5, <1>6, <1>7, <1>8, BeginKeeps DEF Recalculating

\* The stops are to be put in another order.
LEMMA ReorderKeeps ==
  ASSUME TourInv, NEW h \in Request, Reorder(h)
  PROVE  TourInv'
<1> DEFINE L == LiveStops(db)
           n == Cardinality(L)
           put == Each(L, "PENDING")
           p == Plain("reorder", "stops", put)
<1>1. PICK l \in [1 .. n -> L] : /\ l # << >> /\ {l[i] : i \in DOMAIN l} = L
                                 /\ Begin(h, [p EXCEPT !.todo = l])
  BY DEF Reorder
<1> DEFINE q == [p EXCEPT !.todo = l]
<1>2. L \subseteq Stops /\ n \in Nat
  BY StopRows, FS_Subset, FS_CardinalityType, Constants
<1>3. put \in Maps(Stops, StopStatus) /\ DOMAIN put = L
  BY <1>2, EachIs DEF StopStatus
<1>4. p \in Requests /\ p.op = "reorder" /\ p.pc = "stops" /\ p.put = put
  <2> HIDE DEF put
  <2> QED BY <1>3, PlainIs DEF Op, Stage, Recalculating
<1>5. l \in Seq(Stops) /\ Len(l) = n /\ \A i \in 1 .. Len(l) : l[i] \in L
  <2> HIDE DEF L, n
  <2> QED BY <1>1, <1>2
<1>6. Begin(h, q)
  BY <1>1
<1> HIDE DEF p, L, n
<1>7. q \in Requests /\ q.op = "reorder" /\ q.pc = "stops" /\ q.put = put /\ q.todo = l
  BY <1>4, <1>5 DEF Requests
<1> HIDE DEF put, q
<1>8. Listing(q)
  BY <1>1, <1>2, <1>3, <1>5, <1>7 DEF Listing, Marking, n
<1>9. Staged(q)
  BY <1>7 DEF Staged, Recalculating
<1> QED BY <1>6, <1>7, <1>8, <1>9, BeginKeeps

\* A request that starts keeps the invariant.
LEMMA ArrivalKeeps ==
  ASSUME TourInv, NEW h \in Request, Arrival(h)
  PROVE  TourInv'
<1>1. ASSUME NEW s \in Stops, Arrive(h, s) PROVE TourInv'
  BY <1>1, OneStopStarts DEF Arrive, StopStatus, Op, Marking, Stage
<1>2. ASSUME NEW s \in Stops, Complete(h, s) PROVE TourInv'
  BY <1>2, OneStopStarts DEF Complete, StopStatus, Op, Marking, Stage
<1>3. ASSUME NEW s \in Stops, PatchStop(h, s) PROVE TourInv'
  <2>1. db[s].status \in StopStatus
    BY StopRows DEF StopRow
  <2> QED BY <1>3, <2>1, OneStopStarts DEF PatchStop, Op, Recalculating, Stage
<1>4. ASSUME NEW s \in Stops, DeleteStop(h, s) PROVE TourInv'
  BY <1>4, OneStopStarts DEF DeleteStop, StopStatus, Op, Recalculating, Stage
<1>5. ASSUME NEW s \in Stops, AddStop(h, s) PROVE TourInv'
  BY <1>5, OneStopStarts DEF AddStop, StopStatus, Op, Recalculating, Stage
<1>11. ASSUME NEW s \in Stops, LiveUpdate(h, s) PROVE TourInv'
  BY <1>11, OneStopStarts DEF LiveUpdate, StopStatus, Op, Stage
<1>6. CASE Location(h)
  <2>1. "location" \in Op /\ "read" \in Stage /\ "PLANNED" \in TourStatus
    BY DEF Op, Stage, TourStatus
  <2> QED BY <1>6, <2>1, PlainStarts, SameSeen DEF Location
<1>7. CASE PatchTour(h)
  <2>1. "patchTour" \in Op /\ "form" \in Stage /\ db[Tour].status \in TourStatus
    BY StopRows DEF Op, Stage, TourRow
  <2> QED BY <1>7, <2>1, PlainStarts DEF PatchTour
<1>8. CASE Recalculate(h)
  <2>1. "recalculate" \in Op /\ "plan" \in Stage /\ "PLANNED" \in TourStatus
    BY DEF Op, Stage, TourStatus, Recalculating
  <2> QED BY <1>8, <2>1, PlainStarts, SameSeen DEF Recalculate
<1>9. CASE SyncDelete(h)
  <2>1. "syncDelete" \in Op /\ "all" \in Stage /\ "PLANNED" \in TourStatus
    BY DEF Op, Stage, TourStatus
  <2> QED BY <1>9, <2>1, PlainStarts, SameSeen DEF SyncDelete
<1>10. CASE DeleteTour(h)
  <2>1. "deleteTour" \in Op /\ "all" \in Stage /\ "PLANNED" \in TourStatus
    BY DEF Op, Stage, TourStatus
  <2> QED BY <1>10, <2>1, PlainStarts, SameSeen DEF DeleteTour
<1> QED BY <1>1, <1>2, <1>3, <1>4, <1>5, <1>6, <1>7, <1>8, <1>9, <1>10, <1>11,
            SaveKeeps, SyncKeeps, ReorderKeeps DEF Arrival

-----------------------------------------------------------------------------
(* Requests go on, commit or roll back *)

\* What the invariant says of a request.
LEMMA Has ==
  ASSUME TourInv, NEW h \in Request
  PROVE  /\ Sound(req[h], own[h], db) /\ req[h] \in Requests /\ Fit(own[h])
         /\ DOMAIN own[h] \subseteq Rows
         /\ Fit(db) /\ DOMAIN db = Rows /\ DOMAIN own = Request /\ DOMAIN req = Request
         /\ served \in 0 .. MaxServed /\ changes \in 0 .. MaxChanges
  BY DEF TourInv, Base, Sound, Fit

\* What a request sees has the types of the rows.
LEMMA Views ==
  ASSUME TourInv, NEW h \in Request
  PROVE  /\ View(h) = Look(own[h], db) /\ DOMAIN View(h) = Rows
         /\ \A r \in DOMAIN own[h] : View(h)[r] = own[h][r]
         /\ \A r \in Rows \ DOMAIN own[h] : View(h)[r] = db[r]
         /\ \A r \in Rows : View(h)[r] \in RowType(r)
         /\ View(h)[Tour] \in TourRow
         /\ \A s \in Stops : View(h)[s] \in StopRow
         /\ \A c \in Cargo : View(h)[c] \in CargoStatus
         /\ \A x \in Hotels : View(h)[x] \in HotelStatus
<1>1. View(h) = Look(own[h], db)
  BY Looks
<1>2. Fit(own[h]) /\ Fit(db) /\ DOMAIN db = Rows
  BY Has
<1> QED BY <1>1, <1>2, LookFits

\* A statement that writes nothing.
LEMMA Moves ==
  ASSUME TourInv, NEW h \in Request, NEW q, req' = [req EXCEPT ![h] = q], Sound(q, own[h], db),
         UNCHANGED <<db, own, accepted, served, changes>>
  PROVE  TourInv'
<1>1. /\ DOMAIN req' = Request /\ req'[h] = q /\ \A g \in Request \ {h} : req'[g] = req[g]
      /\ DOMAIN own' = Request /\ own'[h] = own[h] /\ \A g \in Request \ {h} : own'[g] = own[g]
      /\ served' \in 0 .. MaxServed /\ changes' \in 0 .. MaxChanges
  BY Has
<1> QED BY <1>1, Works

\* A statement that writes rows nobody else has written.
LEMMA Writes ==
  ASSUME TourInv, NEW h \in Request, NEW q, NEW o, req' = [req EXCEPT ![h] = q], own' = [own EXCEPT ![h] = o],
         Sound(q, o, db), \A r \in DOMAIN o : r \in DOMAIN own[h] \/ Free(h, r),
         UNCHANGED <<db, accepted, served, changes>>
  PROVE  TourInv'
<1>1. /\ DOMAIN req' = Request /\ req'[h] = q /\ \A g \in Request \ {h} : req'[g] = req[g]
      /\ DOMAIN own' = Request /\ own'[h] = o /\ \A g \in Request \ {h} : own'[g] = own[g]
      /\ served' \in 0 .. MaxServed /\ changes' \in 0 .. MaxChanges
  BY Has
<1> QED BY <1>1, Works

\* ROLLBACK keeps the invariant.
LEMMA AbortKeeps ==
  ASSUME TourInv, NEW h \in Request, Abort(h), UNCHANGED <<served, changes>>
  PROVE  TourInv'
<1>1. Sound(Idle, << >>, db)
  BY IdleSound, Nothing
<1> QED BY <1>1, Nothing, Writes DEF Abort

\* The stops a request has stay what it may make of them when it goes on.
LEMMA KeptOn ==
  ASSUME NEW c, NEW o, NEW d, Kept(c, o, d), NEW q, q.op = c.op, q.put = c.put, q.marked = c.marked, q.prior = c.prior,
         q.op = "sync" => c.pc # "commit"
  PROVE  Kept(q, o, d)
  BY DEF Kept, Follows, Completes, Undoing, Completing, PartsColumns

\* COMMIT, with the tours row written by the last statement or not.
LEMMA CommitKeeps ==
  ASSUME TourInv, NEW h \in Request, NEW f, Fit(f), Commit(h, f), UNCHANGED <<served, changes>>,
         DOMAIN f \subseteq DOMAIN own[h] \cup {Tour}, Tour \in DOMAIN f => Tour \in DOMAIN own[h] \/ Free(h, Tour),
         \A s \in Stops \cap DOMAIN f : f[s] = own[h][s],
         req[h].op \in {"complete", "sync"} => DOMAIN req[h].put \subseteq DOMAIN own[h] \cap DOMAIN f
  PROVE  TourInv'
<1> DEFINE c == req[h]
           o == own[h]
<1>1. Sound(Idle, << >>, db')
  BY IdleSound, Nothing
<1>2. /\ DOMAIN req' = Request /\ req'[h] = Idle /\ \A g \in Request \ {h} : req'[g] = req[g]
      /\ DOMAIN own' = Request /\ own'[h] = << >> /\ \A g \in Request \ {h} : own'[g] = own[g]
      /\ served' \in 0 .. MaxServed /\ changes' \in 0 .. MaxChanges /\ db' = Committed(f)
  BY Has DEF Commit
<1>3. \A r \in DOMAIN f : r \in DOMAIN own[h] \/ Free(h, r)
  OBVIOUS
<1>4. Kept(c, o, db) /\ c \in Requests
  BY Has DEF Sound
<1>5. ASSUME NEW s \in accepted' PROVE s \in Stops /\ db'[s].life # "new" /\ db'[s].done
  <2>1. CASE s \in accepted /\ IsCompleted(Committed(f)[s])
    <3>1. s \in Stops /\ db[s].life # "new" /\ db[s].done
      BY <2>1 DEF TourInv, Told
    <3>2. s \in Rows
      BY <3>1 DEF Rows
    <3>3. CASE s \notin DOMAIN f
      BY <1>2, <3>1, <3>2, <3>3 DEF Committed
    <3>4. CASE s \in DOMAIN f
      <4>1. s \in DOMAIN o /\ db'[s] = o[s] /\ Committed(f)[s] = o[s]
        BY <1>2, <3>1, <3>2, <3>4, Constants DEF Committed
      <4>2. Follows(c, s, db[s], o[s])
        BY <1>4, <3>1, <4>1 DEF Kept
      <4> HIDE DEF c, o
      <4>3. o[s].life # "new" /\ (o[s].done \/ o[s].status # "COMPLETED")
        BY <3>1, <4>2 DEF Follows
      <4> QED BY <2>1, <3>1, <4>1, <4>3 DEF IsCompleted
    <3> QED BY <3>3, <3>4
  <2>2. CASE s \in DOMAIN c.put /\ Completing(c, s) /\ IsCompleted(f[s])
    <3>0. c.op \in {"complete", "sync"}
      BY <2>2 DEF Completing
    <3>1. s \in Stops
      BY <1>4, <2>2 DEF Requests, Maps
    <3>2. s \in Rows /\ s \in DOMAIN o /\ s \in DOMAIN f
      BY <2>2, <3>0, <3>1 DEF Rows
    <3>3. db'[s] = o[s] /\ f[s] = o[s]
      BY <1>2, <3>1, <3>2 DEF Committed
    <3>4. Completes(c, s, o[s])
      BY <1>4, <3>1, <3>2 DEF Kept
    <3> HIDE DEF c, o
    <3> QED BY <2>2, <3>0, <3>1, <3>3, <3>4 DEF Completes
  <2>3. (s \in accepted /\ IsCompleted(Committed(f)[s])) \/
        (s \in DOMAIN c.put /\ Completing(c, s) /\ IsCompleted(f[s]))
    BY DEF Commit
  <2> QED BY <2>1, <2>2, <2>3
<1>6. Told'
  BY <1>5 DEF Told
<1> QED BY <1>1, <1>2, <1>3, <1>6, Nothing, Commits

\* A row nobody holds is changed.
LEMMA OutsideKeeps ==
  ASSUME TourInv, NEW r \in Rows, r \notin Stops, NEW x \in RowType(r), \A h \in Request : r \notin DOMAIN own[h],
         db' = [db EXCEPT ![r] = x], UNCHANGED <<own, req, accepted>>,
         served' \in 0 .. MaxServed, changes' \in 0 .. MaxChanges
  PROVE  TourInv'
<1>1. Base'
  BY DEF TourInv, Base, Fit
<1>2. Told'
  BY DEF TourInv, Base, Told
<1>3. Apart'
  BY DEF TourInv, Apart
<1>4. ASSUME NEW h \in Request PROVE Sound(req'[h], own'[h], db')
  <2>1. Sound(req[h], own[h], db) /\ DOMAIN own[h] \subseteq Rows /\ DOMAIN db = Rows
    BY Has
  <2>2. \A t \in DOMAIN own[h] : db'[t] = db[t]
    BY <2>1
  <2> QED BY <2>1, <2>2, SoundFrame
<1> QED BY <1>1, <1>2, <1>3, <1>4 DEF TourInv

\* So does a tour that is created,
LEMMA CreateTourKeeps ==
  ASSUME TourInv, NEW st \in TourStatus, CreateTour(st)
  PROVE  TourInv'
<1>1. [life |-> "live", status |-> st] \in RowType(Tour)
  BY RowTypes DEF TourRow, Life
<1>2. Tour \in Rows /\ Tour \notin Stops
  BY Constants DEF Rows
<1>3. served' \in 0 .. MaxServed /\ changes' \in 0 .. MaxChanges
  BY TourAssumption DEF CreateTour, TourInv, Base
<1> QED BY <1>1, <1>2, <1>3, OutsideKeeps DEF CreateTour

\* and a change of cargo or of a hotel by its own routes.
LEMMA ChangeKeeps ==
  ASSUME TourInv, NEW r \in Cargo \cup Hotels, Change(r)
  PROVE  TourInv'
<1>1. r \in Rows /\ r \notin Stops
  BY Constants DEF Rows
<1>2. served' \in 0 .. MaxServed /\ changes' \in 0 .. MaxChanges
  BY TourAssumption DEF Change, TourInv, Base
<1>3. PICK st : st \in RowType(r) /\ db' = [db EXCEPT ![r] = st]
  <2>1. CASE r \in Cargo /\ \E st \in CargoStatus : <<db[r], st>> \in DriverMove /\ db' = [db EXCEPT ![r] = st]
    BY <2>1, RowTypes
  <2>2. CASE r \in Hotels /\ \E st \in HotelStatus \ {db[r]} : db[r] # "CHECKED_OUT" /\ db' = [db EXCEPT ![r] = st]
    BY <2>2, RowTypes
  <2> QED BY <2>1, <2>2 DEF Change
<1> QED BY <1>1, <1>2, <1>3, OutsideKeeps DEF Change

\* The hotel form writes a status to a stop that nobody holds.
LEMMA HotelFormKeeps ==
  ASSUME TourInv, NEW s \in Stops, HotelForm(s)
  PROVE  TourInv'
<1>1. s \in Rows /\ DOMAIN db = Rows /\ Fit(db) /\ db[s] \in StopRow
  BY StopRows DEF Rows, TourInv, Base
<1>2. db' = [db EXCEPT ![s].status = "PENDING"] /\ UNCHANGED <<own, req, accepted>>
  BY DEF HotelForm
<1>3. PICK x : x = [db[s] EXCEPT !.status = "PENDING"]
  OBVIOUS
<1>4. x \in StopRow /\ x.life = db[s].life /\ x.done = db[s].done
  BY <1>1, <1>3 DEF StopRow, StopStatus
<1>5. db' = [db EXCEPT ![s] = x]
  BY <1>1, <1>2, <1>3
<1>6. DOMAIN db' = Rows /\ db'[s] = x /\ \A r \in Rows \ {s} : db'[r] = db[r]
  BY <1>1, <1>5
<1>7. Base'
  <2>1. served' \in 0 .. MaxServed /\ changes' \in 0 .. MaxChanges
    BY TourAssumption DEF HotelForm, TourInv, Base
  <2>2. x \in RowType(s)
    BY <1>4, RowTypes
  <2>3. Fit(db')
    BY <1>1, <1>6, <2>2 DEF Fit
  <2> QED BY <1>2, <1>6, <2>1, <2>3 DEF TourInv, Base
<1>8. Told'
  <2>1. ASSUME NEW t \in accepted PROVE t \in Stops /\ db'[t].life # "new" /\ db'[t].done
    <3>1. t \in Stops /\ t \in Rows /\ db[t].life # "new" /\ db[t].done
      BY DEF TourInv, Told, Rows
    <3>2. CASE t = s
      BY <1>4, <1>6, <3>1, <3>2
    <3>3. CASE t # s
      BY <1>6, <3>1, <3>3
    <3> QED BY <3>1, <3>2, <3>3
  <2> QED BY <1>2, <2>1 DEF Told
<1>9. Apart'
  BY <1>2 DEF TourInv, Apart
<1>10. ASSUME NEW h \in Request PROVE Sound(req'[h], own'[h], db')
  <2>1. Sound(req[h], own[h], db) /\ DOMAIN own[h] \subseteq Rows /\ s \notin DOMAIN own[h]
    BY Has DEF HotelForm
  <2>2. \A t \in DOMAIN own[h] : db'[t] = db[t]
    BY <1>6, <2>1
  <2> QED BY <1>2, <2>1, <2>2, SoundFrame
<1> QED BY <1>7, <1>8, <1>9, <1>10 DEF TourInv

\* A request that goes on with the rows it has.
LEMMA GoesOn ==
  ASSUME NEW c, NEW o, NEW d, Sound(c, o, d), NEW q \in Requests, q.op = c.op, q.put = c.put, q.marked = c.marked, q.prior = c.prior,
         q.op = "sync" => c.pc # "commit", Staged(q), Listing(q), Holding(q, o), Checked(q), Ruled(q, o),
         q.op \in Recalculating /\ q.pc \in {"cargo", "hotel", "write"} =>
            /\ d[Tour].status = "COMPLETED" => q.seen = "COMPLETED"
            /\ d[Tour].status = "IN_PROGRESS" => q.seen # "PLANNED"
  PROVE  Sound(q, o, d)
<1>1. Kept(q, o, d)
  BY KeptOn DEF Sound
<1>2. Aware(q, o, d)
  BY DEF Sound, Aware
<1> QED BY <1>1, <1>2 DEF Sound

-----------------------------------------------------------------------------
(* Forms, gates and what a sync reads first *)

\* The tour form is sent.
LEMMA SubmitTourKeeps ==
  ASSUME TourInv, NEW h \in Request, SubmitTour(h)
  PROVE  TourInv'
<1>1. PICK st \in {req[h].seen, "COMPLETED"}, override \in BOOLEAN :
          req' = [req EXCEPT ![h].seen = st, ![h].yes = override,
                             ![h].pc = IF st = "COMPLETED" THEN "cargo" ELSE "write"]
  BY DEF SubmitTour
<1> DEFINE c == req[h]
           p == IF st = "COMPLETED" THEN "cargo" ELSE "write"
<1>2. c \in Requests /\ Sound(c, own[h], db) /\ c.op = "patchTour" /\ DOMAIN req = Request
  BY Has DEF SubmitTour
<1>3. st \in TourStatus /\ p \in Stage
  BY <1>2 DEF Requests, TourStatus, Stage
<1>4. PICK q : q = [c EXCEPT !.seen = st, !.yes = override, !.pc = p]
  OBVIOUS
<1>5. req' = [req EXCEPT ![h] = q]
  BY <1>1, <1>2, <1>4
<1> HIDE DEF c, p
<1>6. q \in Requests /\ q.op = "patchTour" /\ q.put = c.put /\ q.marked = c.marked /\ q.prior = c.prior /\ q.seen = st /\ q.pc = p
  BY <1>2, <1>3, <1>4 DEF Requests
<1>7. Staged(q) /\ Listing(q) /\ Checked(q)
  BY <1>6 DEF Staged, Listing, Checked, Marking, p
<1>8. Holding(q, own[h]) /\ Ruled(q, own[h])
  BY <1>2, <1>6 DEF Sound, Holding, Ruled, p, Marking, Recalculating
<1>9. q.op \notin Recalculating
  BY <1>6 DEF Recalculating
<1>10. Sound(q, own[h], db)
  BY <1>2, <1>6, <1>7, <1>8, <1>9, GoesOn
<1> QED BY <1>5, <1>10, Moves DEF SubmitTour, At

\* The stop table is sent.
LEMMA SubmitStopKeeps ==
  ASSUME TourInv, NEW h \in Request, SubmitStop(h)
  PROVE  TourInv'
<1> DEFINE c == req[h]
           o == own[h]
<1>1. c \in Requests /\ Sound(c, o, db) /\ c.op = "patchStop" /\ c.pc = "form" /\ DOMAIN req = Request
  BY Has DEF SubmitStop, At
<1>2. PICK st \in {c.put[s] : s \in DOMAIN c.put} \cup {"COMPLETED", "SKIPPED"} :
          req' = [req EXCEPT ![h].put = Each(DOMAIN @, st), ![h].pc = "stops"]
  BY DEF SubmitStop
<1> DEFINE put == Each(DOMAIN c.put, st)
<1>3. PICK q : q = [c EXCEPT !.put = put, !.pc = "stops"]
  OBVIOUS
<1>4. req' = [req EXCEPT ![h] = q]
  BY <1>1, <1>2, <1>3
<1>5. put \in Maps(Stops, StopStatus) /\ DOMAIN put = DOMAIN c.put
  <2>1. DOMAIN c.put \subseteq Stops /\ st \in StopStatus
    <3>1. c.put \in Maps(Stops, StopStatus)
      BY <1>1 DEF Requests
    <3>2. PICK S \in SUBSET Stops : c.put \in [S -> StopStatus]
      BY <3>1 DEF Maps
    <3> HIDE DEF c
    <3> QED BY <3>2 DEF StopStatus
  <2> QED BY <2>1, EachIs
<1> HIDE DEF c, put, o
<1>6. q \in Requests /\ q.op = "patchStop" /\ DOMAIN q.put = DOMAIN c.put /\ q.marked = c.marked /\ q.prior = c.prior /\ q.pc = "stops" /\ q.todo = c.todo
  BY <1>1, <1>3, <1>5 DEF Requests, Stage
<1>7. Staged(q) /\ Listing(q) /\ Checked(q)
  BY <1>1, <1>6 DEF Sound, Staged, Listing, Checked, Marking
<1>8. Holding(q, o) /\ Ruled(q, o) /\ Aware(q, o, db)
  BY <1>1, <1>6 DEF Sound, Holding, Ruled, Aware, Marking
<1>9. Kept(q, o, db)
  BY <1>1, <1>6 DEF Sound, Kept, Follows, Completes, Undoing, Completing, PartsColumns
<1>10. Sound(q, o, db)
  BY <1>1, <1>6, <1>7, <1>8, <1>9 DEF Sound
<1> QED BY <1>4, <1>10, Moves DEF SubmitStop, At, o

\* The tour editor is sent.
LEMMA SubmitSaveKeeps ==
  ASSUME TourInv, NEW h \in Request, SubmitSave(h)
  PROVE  TourInv'
<1> DEFINE c == req[h]
           o == own[h]
<1>1. c \in Requests /\ Sound(c, o, db) /\ c.op = "save" /\ c.pc = "form"
  BY Has DEF SubmitSave, At
<1>2. PICK q : q = [c EXCEPT !.pc = "tour"]
  OBVIOUS
<1>3. req' = [req EXCEPT ![h] = q]
  BY <1>2 DEF SubmitSave, Go
<1> HIDE DEF c, o
<1>4. /\ q \in Requests /\ q.op = c.op /\ q.put = c.put /\ q.marked = c.marked /\ q.prior = c.prior /\ q.pc = "tour" /\ q.todo = c.todo
      /\ q.op = "save"
  BY <1>1, <1>2 DEF Requests, Stage
<1>5. Staged(q) /\ Listing(q) /\ Checked(q)
  BY <1>1, <1>4 DEF Sound, Staged, Listing, Checked, Marking
<1>6. Holding(q, o) /\ Ruled(q, o)
  BY <1>1, <1>4 DEF Sound, Holding, Ruled, Marking, Recalculating
<1>7. Sound(q, o, db)
  BY <1>1, <1>4, <1>5, <1>6, GoesOn DEF Recalculating
<1> QED BY <1>3, <1>7, Moves DEF SubmitSave, At, o

\* markStop checks the cargo.
LEMMA GateKeeps ==
  ASSUME TourInv, NEW h \in Request, Gate(h)
  PROVE  TourInv'
<1> DEFINE c == req[h]
           o == own[h]
           stock == [x \in Cargo |-> View(h)[x]]
<1>1. CASE Abort(h)
  BY <1>1, AbortKeeps DEF Gate, At
<1>2. CASE /\ req' = [req EXCEPT ![h].pc = "stops", ![h].stock = stock]
           /\ UNCHANGED <<db, own, accepted>>
  <2>1. c \in Requests /\ Sound(c, o, db) /\ c.pc = "gate" /\ DOMAIN req = Request
    BY Has DEF Gate, At
  <2>2. stock \in Maps(Cargo \cup Hotels, CargoStatus \cup HotelStatus)
    <3>1. stock \in [Cargo -> CargoStatus \cup HotelStatus]
      BY Views
    <3> HIDE DEF stock
    <3> QED BY <3>1 DEF Maps
  <2> HIDE DEF stock
  <2>3. PICK q : q = [c EXCEPT !.pc = "stops", !.stock = stock]
    OBVIOUS
  <2>4. req' = [req EXCEPT ![h] = q]
    BY <1>2, <2>1, <2>3
  <2> HIDE DEF c, o
  <2>5. c.op = "complete"
    BY <2>1 DEF Sound, Staged
  <2>6. /\ q \in Requests /\ q.op = c.op /\ q.put = c.put /\ q.marked = c.marked /\ q.prior = c.prior /\ q.pc = "stops" /\ q.todo = c.todo
    BY <2>1, <2>2, <2>3 DEF Requests, Stage
  <2>7. Staged(q) /\ Listing(q) /\ Checked(q)
    BY <2>1, <2>5, <2>6 DEF Sound, Staged, Listing, Checked, Marking
  <2>8. Holding(q, o) /\ Ruled(q, o)
    BY <2>1, <2>5, <2>6 DEF Sound, Holding, Ruled, Marking, Recalculating
  <2>9. Sound(q, o, db)
    BY <2>1, <2>5, <2>6, <2>7, <2>8, GoesOn DEF Recalculating
  <2> QED BY <1>2, <2>4, <2>9, Moves DEF Gate, At, o
<1> QED BY <1>1, <1>2 DEF Gate

\* processTour reads the stops.
LEMMA PriorKeeps ==
  ASSUME TourInv, NEW h \in Request, Prior(h)
  PROVE  TourInv'
<1> DEFINE c == req[h]
           o == own[h]
           prior == [s \in Stops |-> View(h)[s]]
           new == [life |-> "live", status |-> "PLANNED"]
<1>1. CASE Abort(h)
  BY <1>1, AbortKeeps DEF Prior, At
<1>2. CASE /\ req' = [req EXCEPT ![h].prior = prior, ![h].pc = "stops"]
           /\ c.yes => UNCHANGED own
           /\ ~c.yes => Hold(h, Tour, new)
           /\ UNCHANGED <<db, accepted>>
  <2>1. c \in Requests /\ Sound(c, o, db) /\ c.pc = "prior" /\ DOMAIN req = Request /\ Fit(o) /\ DOMAIN own = Request
    BY Has DEF Prior, At
  <2>2. prior \in [Stops -> StopRow] /\ prior \in Maps(Stops, StopRow)
    <3>1. prior \in [Stops -> StopRow]
      BY Views
    <3> HIDE DEF prior
    <3> QED BY <3>1 DEF Maps
  <2> HIDE DEF prior
  <2>3. PICK q : q = [c EXCEPT !.prior = prior, !.pc = "stops"]
    OBVIOUS
  <2>4. req' = [req EXCEPT ![h] = q]
    BY <1>2, <2>1, <2>3
  <2>5. PICK w : /\ DOMAIN own' = Request /\ own'[h] = w /\ \A g \in Request \ {h} : own'[g] = own[g]
                 /\ Fit(w) /\ DOMAIN w \subseteq DOMAIN o \cup {Tour}
                 /\ Tour \in DOMAIN w => w[Tour].status = "PLANNED" \/ Tour \in DOMAIN o
                 /\ Tour \in DOMAIN w => Tour \in DOMAIN o \/ Free(h, Tour)
    <3>1. CASE c.yes
      BY <1>2, <2>1, <3>1
    <3>2. CASE ~c.yes
      <4>1. Tour \in Rows /\ new \in RowType(Tour)
        BY RowTypes DEF Rows, TourRow, Life, TourStatus
      <4> DEFINE w == With(o, Tour, new)
      <4>2. Fit(w) /\ DOMAIN w = DOMAIN o \cup {Tour} /\ w[Tour] = new /\ new.status = "PLANNED"
        <5>0. new.status = "PLANNED"
          OBVIOUS
        <5> HIDE DEF o, new
        <5> QED BY <2>1, <4>1, <5>0, WithFits
      <4>3. own' = [own EXCEPT ![h] = w]
        BY <1>2, <3>2 DEF Hold
      <4>4. Free(h, Tour)
        BY <3>2 DEF Prior
      <4> HIDE DEF w
      <4> QED BY <2>1, <4>2, <4>3, <4>4
    <3> QED BY <3>1, <3>2
  <2> HIDE DEF c, o
  <2>6. c.op = "sync" /\ DOMAIN o = {}
    BY <2>1 DEF Sound, Staged, Holding
  <2>7. /\ q \in Requests /\ q.op = "sync" /\ q.put = c.put /\ q.marked = c.marked /\ q.prior = prior /\ q.pc = "stops" /\ q.todo = c.todo
    BY <2>1, <2>2, <2>3, <2>6 DEF Requests, Stage
  <2>8. Staged(q) /\ Listing(q) /\ Checked(q)
    BY <2>1, <2>6, <2>7 DEF Sound, Staged, Listing, Checked, Marking
  <2>9. Holding(q, w) /\ Ruled(q, w)
    BY <2>1, <2>2, <2>6, <2>7 DEF Sound, Holding, Ruled, Marking, Recalculating
  <2>10. Aware(q, w, db)
    BY <2>5, <2>6, <2>7 DEF Aware, Recalculating
  <2>11. Kept(q, w, db)
    BY <2>5, <2>6, Constants DEF Kept
  <2>12. Sound(q, w, db)
    BY <2>5, <2>7, <2>8, <2>9, <2>10, <2>11 DEF Sound
  <2>13. \A r \in DOMAIN w : r \in DOMAIN own[h] \/ Free(h, r)
    BY <2>5, <2>6 DEF o
  <2>14. DOMAIN req' = Request /\ req'[h] = q /\ \A g \in Request \ {h} : req'[g] = req[g]
    BY <2>1, <2>4
  <2>15. UNCHANGED <<served, changes>> /\ served \in 0 .. MaxServed /\ changes \in 0 .. MaxChanges
    BY Has DEF Prior, At
  <2> QED BY <1>2, <2>5, <2>12, <2>13, <2>14, <2>15, Works
<1> QED BY <1>1, <1>2 DEF Prior

\* A new order is checked.
LEMMA SequenceKeeps ==
  ASSUME TourInv, NEW h \in Request, Sequence(h)
  PROVE  TourInv'
<1> DEFINE c == req[h]
           o == own[h]
<1>1. CASE Abort(h)
  BY <1>1, AbortKeeps DEF Sequence, At
<1>2. CASE Go(h, "plan") /\ UNCHANGED <<db, own, accepted>>
  <2>1. c \in Requests /\ Sound(c, o, db) /\ c.pc = "sequence"
    BY Has DEF Sequence, At
  <2>2. PICK q : q = [c EXCEPT !.pc = "plan"]
    OBVIOUS
  <2>3. req' = [req EXCEPT ![h] = q]
    BY <1>2, <2>2 DEF Go
  <2> HIDE DEF c, o
  <2>4. c.op = "reorder"
    BY <2>1 DEF Sound, Staged
  <2>5. q \in Requests /\ q.op = c.op /\ q.put = c.put /\ q.marked = c.marked /\ q.prior = c.prior /\ q.pc = "plan" /\ q.todo = c.todo
    BY <2>1, <2>2 DEF Requests, Stage
  <2>6. Staged(q) /\ Listing(q) /\ Checked(q)
    BY <2>1, <2>4, <2>5 DEF Sound, Staged, Listing, Checked, Marking, Recalculating
  <2>7. Holding(q, o) /\ Ruled(q, o)
    BY <2>1, <2>4, <2>5 DEF Sound, Holding, Ruled, Marking, Recalculating
  <2>8. Sound(q, o, db)
    BY <2>1, <2>4, <2>5, <2>6, <2>7, GoesOn
  <2> QED BY <1>2, <2>3, <2>8, Moves DEF Sequence, At, o
<1> QED BY <1>1, <1>2 DEF Sequence

-----------------------------------------------------------------------------
(* Statements that write stops *)

\* The first of the stops left, and the others.
LEMMA HeadTail ==
  ASSUME NEW t \in Seq(Stops), t # << >>
  PROVE  /\ Len(t) \in Nat /\ Len(t) >= 1 /\ Head(t) = t[1] /\ Head(t) \in Stops
         /\ Tail(t) \in Seq(Stops) /\ Len(Tail(t)) = Len(t) - 1
         /\ \A i \in 1 .. Len(Tail(t)) : Tail(t)[i] = t[i + 1] /\ i + 1 \in 1 .. Len(t)
         /\ \A i \in 1 .. Len(t) : t[i] = Head(t) \/ \E j \in 1 .. Len(Tail(t)) : Tail(t)[j] = t[i]
<1>1. /\ Len(t) \in Nat /\ Len(t) >= 1 /\ Head(t) = t[1] /\ Head(t) \in Stops
      /\ Tail(t) \in Seq(Stops) /\ Len(Tail(t)) = Len(t) - 1
      /\ \A i \in 1 .. Len(Tail(t)) : Tail(t)[i] = t[i + 1] /\ i + 1 \in 1 .. Len(t)
  OBVIOUS
<1>2. ASSUME NEW i \in 1 .. Len(t), t[i] # Head(t)
      PROVE  \E j \in 1 .. Len(Tail(t)) : Tail(t)[j] = t[i]
  <2>1. i # 1 /\ i - 1 \in 1 .. Len(Tail(t))
    BY <1>1, <1>2
  <2>2. Tail(t)[i - 1] = t[i]
    BY <1>1, <2>1
  <2> QED BY <2>1, <2>2
<1> QED BY <1>1, <1>2

\* The row of a stop that is inserted.
LEMMA InsertedIs ==
  ASSUME NEW st \in StopStatus, NEW n \in Nat
  PROVE  /\ Inserted(st, n) \in StopRow /\ Inserted(st, n).life = "live"
         /\ Inserted(st, n).status = st /\ Inserted(st, n).done = (st = "COMPLETED")
         /\ Agree(Inserted(st, n))
<1> DEFINE b == st = "COMPLETED"
<1>1. b \in BOOLEAN
  OBVIOUS
<1>2. Inserted(st, n) = [life |-> "live", status |-> st, done |-> b, order |-> n]
  BY DEF Inserted
<1> HIDE DEF b
<1>3. Inserted(st, n) \in StopRow
  BY <1>1, <1>2 DEF StopRow, Life
<1>4. Inserted(st, n).life = "live" /\ Inserted(st, n).status = st /\ Inserted(st, n).done = b
  BY <1>2
<1>5. Agree(Inserted(st, n))
  BY <1>4 DEF Agree, b
<1> QED BY <1>3, <1>4, <1>5 DEF b

\* What a statement makes of a stop is a stop, and what its request may make of it.
LEMMA WrittenFollows ==
  ASSUME TourInv, NEW h \in Request, req[h].pc = "stops", NEW s \in Stops, s \in DOMAIN req[h].put,
         NEW row \in StopRow, NEW d \in StopRow, NEW newer \in BOOLEAN,
         Finds(h, s, row), Follows(req[h], s, d, row),
         NEW w, w = Written(h, s, row, newer)
  PROVE  w \in StopRow /\ Follows(req[h], s, d, w) /\ Completes(req[h], s, w)
<1> DEFINE c == req[h]
           st == c.put[s]
           i == Cardinality(DOMAIN c.put) - Len(c.todo)
           n == NextOrder(View(h))
<1>1. c \in Requests /\ Sound(c, own[h], db)
  BY Has
<1>2. st \in StopStatus
  <2>1. c.put \in Maps(Stops, StopStatus)
    BY <1>1 DEF Requests
  <2>2. PICK S \in SUBSET Stops : c.put \in [S -> StopStatus]
    BY <2>1 DEF Maps
  <2>3. s \in S
    BY <2>2
  <2> HIDE DEF c
  <2> QED BY <2>2, <2>3
<1>3. n \in Nat
  BY Views, NextOrderNumber
<1>4. c.op \in {"reorder", "sync", "save"} => i \in Nat
  <2>1. c.todo \in Seq(Stops) /\ DOMAIN c.put \subseteq Stops
    BY <1>1 DEF Requests, Maps
  <2>2. IsFiniteSet(DOMAIN c.put) /\ Cardinality(DOMAIN c.put) \in Nat
    BY <2>1, Constants, FS_Subset, FS_CardinalityType
  <2>3. c.op \in {"reorder", "sync", "save"} => Len(c.todo) <= Cardinality(DOMAIN c.put)
    BY <1>1 DEF Sound, Listing
  <2> HIDE DEF c
  <2> QED BY <2>1, <2>2, <2>3
<1>5. row = [life |-> row.life, status |-> row.status, done |-> row.done, order |-> row.order]
      /\ row.life \in Life /\ row.status \in StopStatus /\ row.done \in BOOLEAN /\ row.order \in Nat
  BY DEF StopRow
<1>6. c.op \in Marking \cup {"patchStop", "deleteStop", "addStop", "reorder", "sync", "save", "live"}
  BY <1>1 DEF Sound, Staged
<1>13. c.op \notin {"complete", "sync"} => ~Completing(c, s)
  BY DEF Completing
<1>14. c.op = "sync" => (Completing(c, s) <=> s \in c.marked)
  BY DEF Completing
<1>15. PartsColumns(c, s, w) <=>
         \/ c.op \in {"patchStop", "live"}
         \/ (c.op = "sync" /\ (w.status = "SKIPPED" \/ ~(s \in c.marked <=> st = "COMPLETED")))
  BY DEF PartsColumns
<1>16. PartsColumns(c, s, row) <=>
         \/ c.op \in {"patchStop", "live"}
         \/ (c.op = "sync" /\ (row.status = "SKIPPED" \/ ~(s \in c.marked <=> st = "COMPLETED")))
  BY DEF PartsColumns
<1>7. CASE c.op \in Marking
  <2>1. w = [row EXCEPT !.status = st, !.done = st = "COMPLETED"]
    BY <1>7 DEF Written, Marking
  <2>2. row.life = "live"
    BY <1>7 DEF Finds, Marking
  <2>3. c.op = "complete" => st = "COMPLETED"
    BY <1>1 DEF Sound, Listing
  <2> HIDE DEF c, st, i, n
  <2>4. w \in StopRow /\ w.life = "live" /\ w.status = st /\ w.done = (st = "COMPLETED")
    BY <1>2, <2>1, <2>2 DEF StopRow
  <2>5. Agree(w)
    BY <2>4 DEF Agree
  <2> QED BY <1>7, <1>13, <2>3, <2>4, <2>5 DEF Marking, Follows, Completes, Undoing, c
<1>8. CASE c.op = "patchStop"
  <2>1. w = [row EXCEPT !.status = st]
    BY <1>8 DEF Written, Marking
  <2> HIDE DEF c, st, i, n
  <2>2. w \in StopRow /\ w.life = row.life /\ w.status = st /\ w.done = row.done
    BY <1>2, <2>1 DEF StopRow
  <2> QED BY <1>8, <1>13, <1>15, <1>16, <2>2 DEF Follows, Completes, Undoing, c
<1>9. CASE c.op = "deleteStop"
  <2>1. w = [row EXCEPT !.life = "gone"]
    BY <1>9 DEF Written, Marking
  <2> HIDE DEF c, st, i, n
  <2>2. w \in StopRow /\ w.life = "gone" /\ w.status = row.status /\ w.done = row.done
    BY <2>1 DEF StopRow, Life
  <2> QED BY <1>9, <1>13, <1>15, <1>16, <2>2 DEF Follows, Completes, Undoing, Agree, c
<1>10. CASE c.op = "reorder"
  <2>1. w = [row EXCEPT !.order = i]
    BY <1>10 DEF Written, Marking
  <2> HIDE DEF c, st, i, n
  <2>2. w \in StopRow /\ w.life = row.life /\ w.status = row.status /\ w.done = row.done
    BY <1>4, <1>10, <2>1 DEF StopRow
  <2> QED BY <1>10, <1>13, <1>15, <1>16, <2>2 DEF Follows, Completes, Undoing, Agree, c
<1>11. CASE c.op = "addStop"
  <2>1. w = Inserted(st, n)
    BY <1>11 DEF Written, Marking
  <2>2. row.life = "new"
    BY <1>11 DEF Finds, Marking
  <2> HIDE DEF c, st, i, n
  <2>3. w \in StopRow /\ w.life = "live" /\ Agree(w)
    BY <1>2, <1>3, <2>1, InsertedIs
  <2>4. d.life = "new"
    BY <2>2 DEF Follows
  <2>5. c.op = "addStop"
    BY <1>11 DEF c
  <2> QED BY <1>13, <2>3, <2>4, <2>5 DEF Follows, Completes, c
<1>17. CASE c.op = "live"
  <2>1. w = [row EXCEPT !.done = TRUE]
    BY <1>17 DEF Written, Marking
  <2> HIDE DEF c, st, i, n
  <2>2. w \in StopRow /\ w.life = row.life /\ w.done = TRUE
    BY <2>1 DEF StopRow
  <2> QED BY <1>13, <1>15, <1>17, <2>2 DEF Follows, Completes, c
<1>12. CASE c.op \in {"sync", "save"}
  <2> DEFINE m == s \in c.marked
  <2>1. w = Imported(c.op, row, st, m, i, newer) /\ m \in BOOLEAN
    BY <1>12 DEF Written, Marking
  <2> HIDE DEF c, st, i, n, m
  <2>2. CASE c.op = "save" /\ (row.life = "new" \/ newer)
    <3>1. w = Inserted(st, i)
      BY <2>1, <2>2 DEF Imported
    <3>2. w \in StopRow /\ w.life = "live" /\ Agree(w) /\ w.done = (st = "COMPLETED") /\ w.status = st
      BY <1>2, <1>4, <1>12, <3>1, InsertedIs
    <3> QED BY <1>13, <2>2, <3>2 DEF Follows, Completes, Undoing, IsCompleted, c, st
  <2>3. CASE c.op = "save" /\ row.life # "new" /\ ~newer
    <3>1. w = row
      BY <2>1, <2>3 DEF Imported
    <3> QED BY <1>13, <2>3, <3>1 DEF Completes, c
  <2>6. CASE c.op = "sync" /\ row.life = "new"
    <3> DEFINE x == Inserted(st, i)
    <3>1. w = [x EXCEPT !.done = m]
      BY <2>1, <2>6 DEF Imported
    <3>2. x \in StopRow /\ x.life = "live" /\ x.status = st
      BY <1>2, <1>4, <1>12, InsertedIs
    <3> HIDE DEF x
    <3>3. w \in StopRow /\ w.life = "live" /\ w.done = m /\ w.status = st
      BY <2>1, <3>1, <3>2 DEF StopRow
    <3>4. Agree(w) \/ PartsColumns(c, s, w)
      BY <1>15, <2>6, <3>3 DEF Agree, m
    <3>5. d.life = "new"
      BY <2>6 DEF Follows
    <3>6. Completes(c, s, w)
      BY <1>14, <2>6, <3>3 DEF Completes, m
    <3> QED BY <3>3, <3>4, <3>5, <3>6 DEF Follows, c
  <2>4. CASE c.op = "sync" /\ row.life # "new" /\ ~(newer \/ m)
    <3>1. w = row
      BY <2>1, <2>4 DEF Imported
    <3> QED BY <1>14, <2>4, <3>1 DEF Completes, c, m
  <2>5. CASE c.op = "sync" /\ row.life # "new" /\ (newer \/ m)
    <3>1. w = Merged(row, st, m)
      BY <2>1, <2>5 DEF Imported
    <3>2. /\ w \in StopRow /\ w.life = row.life /\ w.done = (row.done \/ m)
          /\ w.status = IF row.status \in Closed THEN row.status ELSE IF st = "PENDING" THEN row.status ELSE st
      BY <1>2, <2>1, <3>1 DEF StopRow, Merged
    <3>3. Agree(d) => Agree(w) \/ PartsColumns(c, s, w)
      <4>1. Agree(d) => Agree(row) \/ PartsColumns(c, s, row)
        BY DEF Follows, c
      <4>2. (m <=> st = "COMPLETED") /\ Agree(row) => Agree(w) \/ w.status = "SKIPPED"
        BY <1>2, <1>5, <2>1, <3>2 DEF Agree, Closed, StopStatus
      <4>3. row.status = "SKIPPED" => w.status = "SKIPPED"
        BY <3>2 DEF Closed
      <4> QED BY <1>15, <1>16, <2>5, <4>1, <4>2, <4>3 DEF m
    <3>4. ~w.done => ~row.done /\ ~m
      BY <1>5, <2>1, <3>2
    <3>7. d.life # "new" /\ d.done => row.done
      BY <2>5 DEF Follows, c
    <3>5. Completes(c, s, w)
      BY <1>14, <2>5, <3>2 DEF Completes, m
    <3> QED BY <2>5, <3>2, <3>3, <3>4, <3>5, <3>7 DEF Follows, c
  <2> QED BY <1>12, <2>2, <2>3, <2>4, <2>5, <2>6
<1> QED BY <1>6, <1>7, <1>8, <1>9, <1>10, <1>11, <1>12, <1>17

\* A stop as a request sees it is what the request may make of it.
LEMMA SeenFollows ==
  ASSUME TourInv, NEW h \in Request, NEW s \in Stops
  PROVE  Follows(req[h], s, db[s], View(h)[s]) /\ View(h)[s] \in StopRow /\ db[s] \in StopRow
<1>1. s \in Rows
  BY DEF Rows
<1>2. CASE s \in DOMAIN own[h]
  BY <1>2, Has, Views, StopRows DEF Sound, Kept
<1>3. CASE s \notin DOMAIN own[h]
  BY <1>1, <1>3, Views, StopRows DEF Follows
<1> QED BY <1>2, <1>3

\* After the last of its stops a request goes on as its kind does.
LEMMA StopsDone ==
  ASSUME NEW c \in Requests, Staged(c), c.pc = "stops"
  PROVE  /\ c.op \in Marking => AfterStops(c.op) = "read"
         /\ c.op = "reorder" => AfterStops(c.op) = "sequence"
         /\ c.op \in {"patchStop", "deleteStop", "addStop"} => AfterStops(c.op) = "plan"
         /\ c.op = "sync" => AfterStops(c.op) = "load"
         /\ c.op = "save" => AfterStops(c.op) = "sweep"
         /\ c.op = "live" => AfterStops(c.op) = "commit"
         /\ c.op \in Marking \cup {"patchStop", "deleteStop", "addStop", "reorder", "sync", "save", "live"}
  BY DEF Staged, AfterStops, Marking, Recalculating

\* A request that is done with one more of its stops.
LEMMA StopDone ==
  ASSUME NEW c, NEW o, NEW d, Sound(c, o, d), c.pc = "stops",
         NEW q, q = [c EXCEPT !.todo = Tail(c.todo), !.pc = IF Tail(c.todo) = << >> THEN AfterStops(c.op) ELSE c.pc],
         NEW w, Fit(w), DOMAIN w \subseteq DOMAIN o \cup {Head(c.todo)}, DOMAIN o \subseteq DOMAIN w,
         c.op # "reorder" => Head(c.todo) \in DOMAIN w,
         \A r \in DOMAIN o : r # Head(c.todo) => w[r] = o[r],
         Head(c.todo) \in DOMAIN w =>
            /\ Follows(c, Head(c.todo), d[Head(c.todo)], w[Head(c.todo)])
            /\ Completes(c, Head(c.todo), w[Head(c.todo)])
  PROVE  Sound(q, w, d)
<1> DEFINE s == Head(c.todo)
           rest == Tail(c.todo)
           p == IF rest = << >> THEN AfterStops(c.op) ELSE c.pc
<1>1. c \in Requests /\ Staged(c) /\ Listing(c) /\ Holding(c, o) /\ c.todo \in Seq(Stops) /\ c.todo # << >>
  BY DEF Sound, Requests, Listing
<1>2. /\ Len(c.todo) \in Nat /\ Len(c.todo) >= 1 /\ s = c.todo[1] /\ s \in Stops
      /\ rest \in Seq(Stops) /\ Len(rest) = Len(c.todo) - 1
      /\ \A i \in 1 .. Len(rest) : rest[i] = c.todo[i + 1] /\ i + 1 \in 1 .. Len(c.todo)
      /\ \A i \in 1 .. Len(c.todo) : c.todo[i] = s \/ \E j \in 1 .. Len(rest) : rest[j] = c.todo[i]
  BY <1>1, HeadTail
<1>3. /\ c.op \in Marking => AfterStops(c.op) = "read"
      /\ c.op = "reorder" => AfterStops(c.op) = "sequence"
      /\ c.op \in {"patchStop", "deleteStop", "addStop"} => AfterStops(c.op) = "plan"
      /\ c.op = "sync" => AfterStops(c.op) = "load"
      /\ c.op = "save" => AfterStops(c.op) = "sweep"
      /\ c.op = "live" => AfterStops(c.op) = "commit"
      /\ c.op \in Marking \cup {"patchStop", "deleteStop", "addStop", "reorder", "sync", "save", "live"}
  BY <1>1, StopsDone
<1>4. /\ p \in {"read", "sequence", "plan", "load", "sweep", "commit", "stops"}
      /\ p = "stops" => rest # << >>
      /\ p = "commit" => c.op = "live"
  BY <1>3
<1>5. q = [c EXCEPT !.todo = rest, !.pc = p]
  OBVIOUS
<1> HIDE DEF rest, p, s
<1>6. q \in Requests /\ q.op = c.op /\ q.put = c.put /\ q.marked = c.marked /\ q.prior = c.prior /\ q.pc = p /\ q.todo = rest
  BY <1>1, <1>2, <1>4, <1>5 DEF Requests, Stage
<1>7. p = "stops" => c.op \notin Marking \cup {"live"}
  <2>1. c.op \in Marking \cup {"live"} => Len(c.todo) = 1
    BY <1>1 DEF Listing
  <2>2. p = "stops" => Len(rest) # 0
    BY <1>2, <1>4
  <2> QED BY <1>2, <2>1, <2>2
<1>8. p # "stops" => p = AfterStops(c.op) /\ rest = << >>
  BY DEF p
<1>9. Staged(q)
  BY <1>3, <1>4, <1>6, <1>8 DEF Staged, Marking, Recalculating
<1>10. Listing(q)
  <2>1. \A i \in 1 .. Len(rest) : rest[i] \in DOMAIN c.put
    BY <1>1, <1>2 DEF Listing
  <2>2. c.op \in {"reorder", "sync", "save"} => Len(c.todo) <= Cardinality(DOMAIN c.put) /\ Cardinality(DOMAIN c.put) \in Nat
    <3>1. DOMAIN c.put \subseteq Stops
      BY <1>1 DEF Requests, Maps
    <3>2. Cardinality(DOMAIN c.put) \in Nat
      BY <3>1, Constants, FS_Subset, FS_CardinalityType
    <3> QED BY <1>1, <3>2 DEF Listing
  <2>3. c.op = "complete" => \A t \in DOMAIN c.put : c.put[t] = "COMPLETED"
    BY <1>1 DEF Listing
  <2>4. c.op \in {"reorder", "sync", "save"} => Len(rest) <= Cardinality(DOMAIN c.put)
    BY <1>2, <2>2
  <2> QED BY <1>4, <1>6, <1>7, <2>1, <2>3, <2>4 DEF Listing
<1>11. Holding(q, w)
  <2>1. c.op \in Marking \cup {"live"} => DOMAIN w \subseteq Stops
    BY <1>1, <1>2 DEF Holding, s
  <2>2. c.op \in {"complete", "sync"} =>
           \A t \in DOMAIN c.put : t \in DOMAIN w \/ (p = "stops" /\ \E i \in 1 .. Len(rest) : rest[i] = t)
    <3> SUFFICES ASSUME c.op \in {"complete", "sync"}, NEW t \in DOMAIN c.put, t \notin DOMAIN w
                 PROVE  p = "stops" /\ \E i \in 1 .. Len(rest) : rest[i] = t
      OBVIOUS
    <3>1. t \notin DOMAIN o /\ t # s
      BY DEF s
    <3>2. PICK i \in 1 .. Len(c.todo) : c.todo[i] = t
      BY <1>1, <3>1 DEF Holding
    <3>3. PICK j \in 1 .. Len(rest) : rest[j] = t
      BY <1>2, <3>1, <3>2
    <3>4. rest # << >>
      BY <1>2, <3>3, Nothing
    <3> QED BY <1>8, <3>3, <3>4
  <2>3. c.op \notin {"none", "location", "patchTour", "deleteTour"}
    BY <1>3 DEF Marking
  <2>4. c.op \in Recalculating => p \in {"stops", "sequence", "plan"}
    BY <1>3, <1>4, <1>8 DEF Marking, Recalculating
  <2>5. q.op \in Marking \cup {"live"} => DOMAIN w \subseteq Stops /\ q.pc \notin {"gate", "stops"}
    BY <1>4, <1>6, <1>7, <2>1
  <2>6. q.op \in Recalculating => q.pc \notin {"route", "read", "cargo", "hotel", "write"}
    BY <1>6, <2>4
  <2>7. q.pc # "prior"
    BY <1>4, <1>6
  <2>8. q.op \in {"complete", "sync"} =>
           \A t \in DOMAIN q.put : t \in DOMAIN w \/ (q.pc \in {"gate", "prior", "stops"} /\ \E i \in 1 .. Len(q.todo) : q.todo[i] = t)
    BY ONLY <1>6, <2>2, SMTT(60)
  <2>9. q.op \notin {"none", "location", "patchTour", "deleteTour"}
    BY <1>6, <2>3
  <2> QED BY ONLY <2>5, <2>6, <2>7, <2>8, <2>9, SMTT(60) DEF Holding
<1>12. Aware(q, w, d)
  <2>1. Aware(c, o, d)
    BY DEF Sound
  <2>2. Tour \in DOMAIN w => Tour \in DOMAIN o /\ w[Tour] = o[Tour]
    BY <1>2, Constants DEF s
  <2> QED BY <1>4, <1>6, <2>1, <2>2 DEF Aware
<1>13. Checked(q)
  BY <1>4, <1>6 DEF Checked
<1>14. Kept(q, w, d)
  <2>1. Kept(c, w, d)
    <3> SUFFICES ASSUME NEW t \in Stops \cap DOMAIN w PROVE Follows(c, t, d[t], w[t]) /\ Completes(c, t, w[t])
      BY DEF Kept
    <3>1. CASE t = s
      BY <3>1 DEF s
    <3>2. CASE t # s
      <4>1. t \in DOMAIN o /\ w[t] = o[t]
        BY <3>2 DEF s
      <4> QED BY <4>1 DEF Sound, Kept
    <3> QED BY <3>1, <3>2
  <2> QED BY <1>6, <2>1, KeptOn
<1>15. Ruled(q, w)
  <2>1. c.op = "sync" => c.prior \in [Stops -> StopRow]
    BY DEF Sound, Ruled
  <2> QED BY <1>4, <1>6, <2>1 DEF Ruled
<1> QED BY <1>6, <1>9, <1>10, <1>11, <1>12, <1>13, <1>14, <1>15 DEF Sound

\* A statement writes a stop.
LEMMA WriteStopKeeps ==
  ASSUME TourInv, NEW h \in Request, WriteStop(h)
  PROVE  TourInv'
<1> DEFINE c == req[h]
           o == own[h]
           s == Head(c.todo)
           rest == Tail(c.todo)
           v == View(h)[s]
<1>1. Sound(c, o, db) /\ c \in Requests /\ c.pc = "stops" /\ Fit(o) /\ UNCHANGED <<served, changes>>
      /\ DOMAIN req = Request /\ DOMAIN own = Request
  BY Has DEF WriteStop, At
<1>2. PICK q : q = [c EXCEPT !.todo = rest, !.pc = IF rest = << >> THEN AfterStops(c.op) ELSE c.pc]
  OBVIOUS
<1>3. c.todo \in Seq(Stops) /\ c.todo # << >> /\ s \in Stops /\ s \in DOMAIN c.put
  <2>1. c.todo \in Seq(Stops) /\ c.todo # << >> /\ \A i \in 1 .. Len(c.todo) : c.todo[i] \in DOMAIN c.put
    BY <1>1 DEF Sound, Requests, Listing
  <2>2. s = c.todo[1] /\ s \in Stops /\ Len(c.todo) \in Nat /\ Len(c.todo) >= 1
    BY <2>1, HeadTail
  <2> HIDE DEF c, s
  <2>3. 1 \in 1 .. Len(c.todo)
    BY <2>2
  <2> QED BY <2>1, <2>2, <2>3
<1>4. v \in StopRow /\ db[s] \in StopRow /\ Follows(c, s, db[s], v)
  BY <1>3, SeenFollows
<1>5. ASSUME req' = [req EXCEPT ![h].todo = rest, ![h].pc = IF rest = << >> THEN AfterStops(c.op) ELSE @]
      PROVE  req' = [req EXCEPT ![h] = q]
  BY <1>1, <1>2, <1>5
<1>6. CASE Abort(h)
  BY <1>1, <1>6, AbortKeeps
<1>7. ASSUME NEW newer \in BOOLEAN, Finds(h, s, v), Free(h, s), Hold(h, s, Written(h, s, v, newer)),
             req' = [req EXCEPT ![h] = q], UNCHANGED <<db, accepted>>
      PROVE  TourInv'
  <2>1. PICK x : x = Written(h, s, v, newer)
    OBVIOUS
  <2>2. x \in StopRow /\ Follows(c, s, db[s], x) /\ Completes(c, s, x)
    <3> HIDE DEF s, v
    <3> QED BY <1>1, <1>3, <1>4, <1>7, <2>1, WrittenFollows
  <2>3. s \in Rows /\ x \in RowType(s)
    <3> HIDE DEF s
    <3> QED BY <1>3, <2>2, RowTypes DEF Rows
  <2> DEFINE w == With(o, s, x)
  <2>4. own' = [own EXCEPT ![h] = w]
    BY <1>7, <2>1 DEF Hold
  <2>5. Fit(w) /\ DOMAIN w = DOMAIN o \cup {s} /\ w[s] = x /\ \A r \in DOMAIN o \ {s} : w[r] = o[r]
    <3> HIDE DEF o, s
    <3> QED BY <1>1, <2>3, WithFits
  <2>6. Sound(q, w, db)
    <3> HIDE DEF w, c, o
    <3> QED BY <1>1, <1>2, <2>2, <2>5, StopDone
  <2>7. \A r \in DOMAIN w : r \in DOMAIN own[h] \/ Free(h, r)
    BY <1>7, <2>5
  <2> HIDE DEF w
  <2> QED BY <1>1, <1>7, <2>4, <2>6, <2>7, Writes
<1>8. ASSUME c.op = "reorder", req' = [req EXCEPT ![h] = q], UNCHANGED <<db, own, accepted>>
      PROVE  TourInv'
  <2>1. Sound(q, o, db)
    <3>1. s \in DOMAIN o => Follows(c, s, db[s], o[s]) /\ Completes(c, s, o[s])
      BY <1>1, <1>3 DEF Sound, Kept
    <3> HIDE DEF c, o
    <3> QED BY <1>1, <1>2, <1>8, <3>1, StopDone
  <2> QED BY <1>1, <1>8, <2>1, Moves
<1>9. /\ Free(h, s)
      /\ \/ /\ Finds(h, s, v)
            /\ \E newer \in BOOLEAN : Hold(h, s, Written(h, s, v, newer))
            /\ req' = [req EXCEPT ![h].todo = rest, ![h].pc = IF rest = << >> THEN AfterStops(c.op) ELSE @]
            /\ UNCHANGED <<db, accepted>>
         \/ Abort(h)
         \/ /\ c.op = "reorder"
            /\ req' = [req EXCEPT ![h].todo = rest, ![h].pc = IF rest = << >> THEN AfterStops(c.op) ELSE @]
            /\ UNCHANGED <<db, own, accepted>>
  BY DEF WriteStop
<1> HIDE DEF c, o, s, rest, v
<1> QED BY <1>5, <1>6, <1>7, <1>8, <1>9

-----------------------------------------------------------------------------
(* The tours row, and deletions *)

\* Deleting a stop takes nothing else from it.
LEMMA GoneFollows ==
  ASSUME NEW c, NEW s, NEW d, NEW row \in StopRow, Follows(c, s, d, row), NEW w, w = [row EXCEPT !.life = "gone"]
  PROVE  w \in StopRow /\ Follows(c, s, d, w) /\ w.life = "gone" /\ w.status = row.status /\ w.done = row.done
<1>1. w \in StopRow /\ w.life = "gone" /\ w.status = row.status /\ w.done = row.done
  BY DEF StopRow, Life
<1> QED BY <1>1 DEF Follows, Undoing, Agree, PartsColumns

\* The tours row a request sees has the committed status, or the one of a tour
\* that the request itself inserted.
LEMMA SeenTour ==
  ASSUME TourInv, NEW h \in Request
  PROVE  /\ View(h)[Tour].status = db[Tour].status \/ (req[h].op = "sync" /\ View(h)[Tour].status = "PLANNED")
         /\ View(h)[Tour] \in TourRow
<1>1. Tour \in Rows
  BY DEF Rows
<1>2. CASE Tour \in DOMAIN own[h]
  BY <1>2, Has, Views DEF Sound, Aware
<1>3. CASE Tour \notin DOMAIN own[h]
  BY <1>1, <1>3, Views
<1> QED BY <1>2, <1>3

\* processTour writes the tour of the editor.
LEMMA SaveTourRowKeeps ==
  ASSUME TourInv, NEW h \in Request, SaveTourRow(h)
  PROVE  TourInv'
<1> DEFINE c == req[h]
           o == own[h]
           v == View(h)[Tour]
           x == [v EXCEPT !.life = "live"]
<1>1. PICK newer \in BOOLEAN :
        /\ newer \/ v.life = "new" => Hold(h, Tour, x)
        /\ ~newer /\ v.life # "new" => UNCHANGED own
        /\ req' = [req EXCEPT ![h].yes = newer \/ v.life = "new", ![h].pc = IF c.todo = << >> THEN "sweep" ELSE "stops"]
  BY DEF SaveTourRow
<1> DEFINE y == newer \/ v.life = "new"
           p == IF c.todo = << >> THEN "sweep" ELSE "stops"
<1>2. /\ c \in Requests /\ Sound(c, o, db) /\ c.pc = "tour" /\ DOMAIN req = Request /\ DOMAIN own = Request /\ Fit(o)
      /\ Free(h, Tour) /\ UNCHANGED <<db, accepted, served, changes>>
      /\ served \in 0 .. MaxServed /\ changes \in 0 .. MaxChanges
  BY Has DEF SaveTourRow, At
<1>3. c.op = "save"
  BY <1>2 DEF Sound, Staged
<1>4. PICK q : q = [c EXCEPT !.yes = y, !.pc = p]
  OBVIOUS
<1>5. req' = [req EXCEPT ![h] = q]
  BY <1>1, <1>2, <1>4
<1>6. v \in TourRow /\ v.status = db[Tour].status
  BY <1>3, SeenTour
<1>7. \E w : /\ DOMAIN own' = Request /\ own'[h] = w /\ \A g \in Request \ {h} : own'[g] = own[g]
             /\ Fit(w) /\ DOMAIN w \subseteq DOMAIN o \cup {Tour} /\ DOMAIN o \subseteq DOMAIN w
             /\ \A r \in DOMAIN o \ {Tour} : w[r] = o[r]
             /\ Tour \in DOMAIN w => w[Tour].status = db[Tour].status
  <2>1. CASE newer \/ v.life = "new"
    <3>1. x \in TourRow /\ x.status = v.status
      <4> HIDE DEF v
      <4> QED BY <1>6 DEF TourRow, Life
    <3>2. Tour \in Rows /\ x \in RowType(Tour)
      BY <3>1, RowTypes DEF Rows
    <3> DEFINE w == With(o, Tour, x)
    <3>3. Fit(w) /\ DOMAIN w = DOMAIN o \cup {Tour} /\ w[Tour] = x /\ \A r \in DOMAIN o \ {Tour} : w[r] = o[r]
      <4>1. Fit(o)
        BY <1>2
      <4> HIDE DEF o, x, c, v
      <4> QED BY <4>1, <3>2, WithFits
    <3>4. own' = [own EXCEPT ![h] = w]
      BY <1>1, <2>1 DEF Hold
    <3>5. w[Tour].status = db[Tour].status
      BY <1>6, <3>1, <3>3
    <3>6. DOMAIN own' = Request /\ own'[h] = w /\ \A g \in Request \ {h} : own'[g] = own[g]
      BY <1>2, <3>4
    <3> HIDE DEF w, x, v, o
    <3>7. DOMAIN w \subseteq DOMAIN o \cup {Tour} /\ DOMAIN o \subseteq DOMAIN w
      BY <3>3
    <3> QED BY <3>3, <3>5, <3>6, <3>7
  <2>2. CASE ~newer /\ v.life # "new"
    <3>1. Tour \in DOMAIN o => o[Tour].status = db[Tour].status
      BY <1>2, <1>3 DEF Sound, Aware
    <3> QED BY <1>1, <1>2, <2>2, <3>1
  <2> QED BY <2>1, <2>2
<1>7b. PICK w : /\ DOMAIN own' = Request /\ own'[h] = w /\ \A g \in Request \ {h} : own'[g] = own[g]
                /\ Fit(w) /\ DOMAIN w \subseteq DOMAIN o \cup {Tour} /\ DOMAIN o \subseteq DOMAIN w
                /\ \A r \in DOMAIN o \ {Tour} : w[r] = o[r]
                /\ Tour \in DOMAIN w => w[Tour].status = db[Tour].status
  BY <1>7
<1>8. y \in BOOLEAN /\ p \in Stage
  BY DEF Stage
<1>9. p \in {"stops", "sweep"} /\ (p = "stops" => c.todo # << >>)
  OBVIOUS
<1> HIDE DEF c, o, v, x, y, p
<1>10. q \in Requests /\ q.op = "save" /\ q.put = c.put /\ q.marked = c.marked /\ q.prior = c.prior /\ q.pc = p /\ q.todo = c.todo
  BY <1>2, <1>3, <1>4, <1>8 DEF Requests
<1>11. Staged(q) /\ Checked(q) /\ Ruled(q, w)
  BY <1>9, <1>10 DEF Staged, Checked, Ruled
<1>12. Listing(q)
  BY <1>2, <1>3, <1>9, <1>10 DEF Sound, Listing, Marking
<1>13. Holding(q, w)
  BY <1>9, <1>10 DEF Holding, Marking, Recalculating
<1>14. Aware(q, w, db)
  BY <1>7b, <1>9, <1>10 DEF Aware, Recalculating
<1>15. Kept(q, w, db)
  <2>1. Kept(c, w, db)
    BY <1>2, <1>7b, Constants DEF Sound, Kept
  <2> QED BY <1>3, <1>10, <2>1, KeptOn
<1>16. Sound(q, w, db)
  BY <1>7b, <1>10, <1>11, <1>12, <1>13, <1>14, <1>15 DEF Sound
<1>17. \A r \in DOMAIN w : r \in DOMAIN own[h] \/ Free(h, r)
  BY <1>2, <1>7b DEF o
<1>18. DOMAIN req' = Request /\ req'[h] = q /\ \A g \in Request \ {h} : req'[g] = req[g]
  BY <1>2, <1>5
<1> QED BY <1>2, <1>7b, <1>16, <1>17, <1>18, Works

\* The stops that the editor does not list go.
LEMMA SweepKeeps ==
  ASSUME TourInv, NEW h \in Request, Sweep(h)
  PROVE  TourInv'
<1> DEFINE c == req[h]
           o == own[h]
           S == {s \in LiveStops(View(h)) : c.yes /\ s \notin DOMAIN c.put}
           w == [r \in DOMAIN o \cup S |-> IF r \in S THEN [View(h)[r] EXCEPT !.life = "gone"] ELSE o[r]]
<1>1. /\ c \in Requests /\ Sound(c, o, db) /\ c.pc = "sweep" /\ DOMAIN req = Request /\ DOMAIN own = Request /\ Fit(o)
      /\ \A s \in S : Free(h, s) /\ UNCHANGED <<db, accepted, served, changes>>
      /\ req' = [req EXCEPT ![h].pc = "items"]
  BY Has DEF Sweep, At, Go
<1>2. UNCHANGED <<db, accepted, served, changes>> /\ own' = [own EXCEPT ![h] = w]
  BY DEF Sweep, At
<1>3. S \subseteq Stops /\ DOMAIN w = DOMAIN o \cup S
  BY DEF LiveStops
<1>4. \A r \in DOMAIN o \ S : w[r] = o[r]
  OBVIOUS
<1>5. ASSUME NEW s \in S PROVE w[s] \in StopRow /\ Follows(c, s, db[s], w[s])
  <2>1. s \in Stops
    BY <1>3
  <2>2. Follows(c, s, db[s], View(h)[s]) /\ View(h)[s] \in StopRow
    BY <2>1, SeenFollows
  <2>3. w[s] = [View(h)[s] EXCEPT !.life = "gone"]
    OBVIOUS
  <2> HIDE DEF w, c
  <2> QED BY <2>2, <2>3, GoneFollows
<1>6. PICK q : q = [c EXCEPT !.pc = "items"]
  OBVIOUS
<1>7. req' = [req EXCEPT ![h] = q]
  BY <1>1, <1>6
<1> HIDE DEF c, o, S, w
<1>8. c.op = "save"
  BY <1>1 DEF Sound, Staged
<1>9. q \in Requests /\ q.op = "save" /\ q.put = c.put /\ q.marked = c.marked /\ q.prior = c.prior /\ q.pc = "items" /\ q.todo = c.todo
  BY <1>1, <1>6, <1>8 DEF Requests, Stage
<1>10. Fit(w)
  <2>1. DOMAIN w \subseteq Rows
    BY <1>1, <1>3 DEF Fit, Rows
  <2>2. ASSUME NEW r \in DOMAIN w PROVE w[r] \in RowType(r)
    BY <1>1, <1>3, <1>4, <1>5, RowTypes DEF Fit
  <2> QED BY <2>1, <2>2 DEF Fit
<1>11. Staged(q) /\ Listing(q) /\ Checked(q) /\ Ruled(q, w) /\ Holding(q, w)
  BY <1>9 DEF Staged, Listing, Checked, Ruled, Holding, Marking, Recalculating
<1>12. Aware(q, w, db)
  <2>1. Tour \in DOMAIN w => Tour \in DOMAIN o /\ w[Tour] = o[Tour]
    BY <1>3, <1>4, Constants
  <2> QED BY <1>1, <1>8, <1>9, <2>1 DEF Sound, Aware, Recalculating
<1>13. Kept(q, w, db)
  <2> SUFFICES ASSUME NEW s \in Stops \cap DOMAIN w PROVE Follows(c, s, db[s], w[s]) /\ Completes(c, s, w[s])
    BY <1>8, <1>9, KeptOn DEF Kept
  <2>1. CASE s \in S
    BY <1>5, <1>8, <2>1 DEF Completes, Completing
  <2>2. CASE s \notin S
    BY <1>1, <1>3, <1>4, <2>2 DEF Sound, Kept
  <2> QED BY <2>1, <2>2
<1>14. Sound(q, w, db)
  BY <1>9, <1>10, <1>11, <1>12, <1>13 DEF Sound
<1>15. \A r \in DOMAIN w : r \in DOMAIN own[h] \/ Free(h, r)
  BY <1>1, <1>3 DEF o
<1> QED BY <1>2, <1>7, <1>14, <1>15, Writes

\* All stops go.
LEMMA DeleteAllKeeps ==
  ASSUME TourInv, NEW h \in Request, DeleteAll(h)
  PROVE  TourInv'
<1> DEFINE c == req[h]
           o == own[h]
           S == {s \in Stops : View(h)[s].life # "new"}
           f == [s \in S |-> [View(h)[s] EXCEPT !.life = "gone"]]
<1>1. /\ c \in Requests /\ Sound(c, o, db) /\ c.pc = "all" /\ DOMAIN req = Request /\ DOMAIN own = Request
      /\ served \in 0 .. MaxServed /\ changes \in 0 .. MaxChanges /\ DOMAIN db = Rows
  BY Has DEF DeleteAll, At
<1>2. /\ \A s \in S : Free(h, s)
      /\ UNCHANGED <<accepted, served, changes>> /\ req' = [req EXCEPT ![h].pc = "drop"]
  BY DEF DeleteAll, At, Go
<1>3. /\ c.op = "deleteTour" => db' = Committed(f) /\ UNCHANGED own
      /\ c.op # "deleteTour" => own' = [own EXCEPT ![h] = f] /\ UNCHANGED db
  BY DEF DeleteAll
<1>4. S \subseteq Stops /\ DOMAIN f = S
  OBVIOUS
<1>5. ASSUME NEW s \in S PROVE /\ f[s] \in StopRow /\ Follows(c, s, db[s], f[s]) /\ f[s].life = "gone"
                               /\ f[s].done = View(h)[s].done
  <2>1. s \in Stops
    BY <1>4
  <2>2. Follows(c, s, db[s], View(h)[s]) /\ View(h)[s] \in StopRow
    BY <2>1, SeenFollows
  <2>3. f[s] = [View(h)[s] EXCEPT !.life = "gone"]
    OBVIOUS
  <2> HIDE DEF f, c
  <2> QED BY <2>2, <2>3, GoneFollows
<1>6. PICK q : q = [c EXCEPT !.pc = "drop"]
  OBVIOUS
<1>7. req' = [req EXCEPT ![h] = q]
  BY <1>1, <1>2, <1>6
<1>8. Fit(f)
  <2> HIDE DEF f, S
  <2> QED BY <1>4, <1>5, RowTypes DEF Fit, Rows
<1> HIDE DEF c, f, S
<1>9. c.op \in {"syncDelete", "deleteTour"}
  BY <1>1 DEF Sound, Staged
<1>10. q \in Requests /\ q.op = c.op /\ q.put = c.put /\ q.marked = c.marked /\ q.prior = c.prior /\ q.pc = "drop" /\ q.todo = c.todo
  BY <1>1, <1>6, <1>9 DEF Requests, Stage
<1>11. Staged(q) /\ Listing(q) /\ Checked(q) /\ Ruled(q, o) /\ Ruled(q, f)
  BY <1>9, <1>10 DEF Staged, Listing, Checked, Ruled, Marking
<1>12. CASE c.op = "deleteTour"
  <2>1. DOMAIN o = {}
    BY <1>1, <1>12 DEF Sound, Holding
  <2>2. Sound(q, o, db')
    BY <1>10, <1>11, <1>12, <2>1 DEF Sound, Fit, Holding, Aware, Kept, Marking, Recalculating
  <2>3. ASSUME NEW s \in accepted PROVE s \in Stops /\ db'[s].life # "new" /\ db'[s].done
    <3>1. s \in Stops /\ db[s].life # "new" /\ db[s].done /\ s \in Rows
      BY DEF TourInv, Told, Rows
    <3>2. View(h)[s] = db[s]
      BY <2>1, <3>1, Views
    <3>3. CASE s \in S
      BY <1>3, <1>4, <1>5, <1>12, <3>1, <3>2, <3>3 DEF Committed
    <3>4. CASE s \notin S
      BY <1>3, <1>4, <1>12, <3>1, <3>4 DEF Committed
    <3> QED BY <3>1, <3>3, <3>4
  <2>4. Told'
    BY <1>2, <2>3 DEF Told
  <2>5. /\ DOMAIN req' = Request /\ req'[h] = q /\ \A g \in Request \ {h} : req'[g] = req[g]
        /\ DOMAIN own' = Request /\ own'[h] = o /\ \A g \in Request \ {h} : own'[g] = own[g]
        /\ served' \in 0 .. MaxServed /\ changes' \in 0 .. MaxChanges
    BY <1>1, <1>2, <1>3, <1>7, <1>12
  <2>6. \A r \in DOMAIN f : r \in DOMAIN own[h] \/ Free(h, r)
    BY <1>2, <1>4
  <2>7. db' = Committed(f)
    BY <1>3, <1>12
  <2> HIDE DEF o
  <2> QED BY <1>8, <2>1, <2>2, <2>4, <2>5, <2>6, <2>7, Commits
<1>13. CASE c.op = "syncDelete"
  <2>1. Kept(q, f, db)
    <3>1. Kept(c, f, db)
      BY <1>4, <1>5, <1>13 DEF Kept, Completes, Completing
    <3> QED BY <1>1, <1>10, <3>1, KeptOn
  <2>2. Tour \notin DOMAIN f
    BY <1>4, Constants
  <2>3. Sound(q, f, db)
    BY <1>8, <1>10, <1>11, <1>13, <2>1, <2>2 DEF Sound, Holding, Aware, Marking, Recalculating
  <2>4. \A r \in DOMAIN f : r \in DOMAIN own[h] \/ Free(h, r)
    BY <1>2, <1>4
  <2> QED BY <1>2, <1>3, <1>7, <1>13, <2>3, <2>4, Writes
<1> QED BY <1>9, <1>12, <1>13

\* The tour goes.
LEMMA DropKeeps ==
  ASSUME TourInv, NEW h \in Request, Drop(h)
  PROVE  TourInv'
<1> DEFINE c == req[h]
           o == own[h]
           v == View(h)[Tour]
           x == [v EXCEPT !.life = "gone"]
           f == With(o, Tour, x)
<1>1. c \in Requests /\ Sound(c, o, db) /\ c.pc = "drop" /\ Fit(o) /\ UNCHANGED <<served, changes>> /\ Free(h, Tour)
  BY Has DEF Drop, At
<1>2. CASE Abort(h)
  BY <1>1, <1>2, AbortKeeps
<1>3. CASE Commit(h, f)
  <2>1. x \in TourRow
    <3>1. v \in TourRow
      BY SeenTour
    <3> HIDE DEF v
    <3> QED BY <3>1 DEF TourRow, Life
  <2>2. Tour \in Rows /\ x \in RowType(Tour)
    BY <2>1, RowTypes DEF Rows
  <2>3. Fit(f) /\ DOMAIN f = DOMAIN o \cup {Tour} /\ \A r \in DOMAIN o \ {Tour} : f[r] = o[r]
    <3> HIDE DEF o, x
    <3> QED BY <1>1, <2>2, WithFits
  <2> HIDE DEF f, x, v
  <2>4. \A s \in Stops \cap DOMAIN f : f[s] = own[h][s]
    BY <2>3, Constants
  <2>5. c.op \notin {"complete", "sync"}
    BY <1>1 DEF Sound, Staged
  <2> QED BY <1>1, <1>3, <2>3, <2>4, <2>5, CommitKeeps
<1> QED BY <1>2, <1>3 DEF Drop

-----------------------------------------------------------------------------
(* Cargo of a sync or a saved tour *)

\* loadTourCargo
LEMMA LoadKeeps ==
  ASSUME TourInv, NEW h \in Request, Load(h)
  PROVE  TourInv'
<1> DEFINE c == req[h]
           o == own[h]
           stock == [x \in DOMAIN c.item |-> View(h)[x]]
<1>1. c \in Requests /\ Sound(c, o, db) /\ c.pc = "load" /\ DOMAIN req = Request
  BY Has DEF Load, At
<1>2. stock \in Maps(Cargo \cup Hotels, CargoStatus \cup HotelStatus)
  <2>1. DOMAIN c.item \subseteq Cargo
    BY <1>1 DEF Requests, Maps
  <2>2. stock \in [DOMAIN c.item -> CargoStatus \cup HotelStatus]
    BY <2>1, Views
  <2> HIDE DEF stock
  <2> QED BY <2>1, <2>2 DEF Maps
<1>3. req' = [req EXCEPT ![h].stock = stock, ![h].pc = "items"]
  BY DEF Load
<1> HIDE DEF stock
<1>4. PICK q : q = [c EXCEPT !.stock = stock, !.pc = "items"]
  OBVIOUS
<1>5. req' = [req EXCEPT ![h] = q]
  BY <1>1, <1>3, <1>4
<1> HIDE DEF c, o
<1>6. c.op = "sync"
  BY <1>1 DEF Sound, Staged
<1>7. q \in Requests /\ q.op = c.op /\ q.put = c.put /\ q.marked = c.marked /\ q.prior = c.prior /\ q.pc = "items" /\ q.todo = c.todo
  BY <1>1, <1>2, <1>4 DEF Requests, Stage
<1>8. Staged(q) /\ Listing(q) /\ Checked(q)
  BY <1>6, <1>7 DEF Staged, Listing, Checked, Marking
<1>9. Holding(q, o) /\ Ruled(q, o)
  BY <1>1, <1>6, <1>7 DEF Sound, Holding, Ruled, Marking, Recalculating
<1>10. Sound(q, o, db)
  BY <1>1, <1>6, <1>7, <1>8, <1>9, GoesOn DEF Recalculating
<1> QED BY <1>5, <1>10, Moves DEF Load, At, o

\* The cargo is written.
LEMMA WriteItemsKeeps ==
  ASSUME TourInv, NEW h \in Request, WriteItems(h)
  PROVE  TourInv'
<1> DEFINE c == req[h]
           o == own[h]
           p == IF c.op = "sync" THEN "refuse" ELSE "commit"
<1>1. PICK newer \in BOOLEAN :
        LET C == {x \in DOMAIN c.item : newer /\ (c.op = "sync" => <<c.stock[x], c.item[x]>> \in DriverMove)}
        IN /\ \A x \in C : Free(h, x)
           /\ own' = [own EXCEPT ![h] = [x \in DOMAIN @ \cup C |-> IF x \in C THEN c.item[x] ELSE @[x]]]
  BY DEF WriteItems
<1> DEFINE C == {x \in DOMAIN c.item : newer /\ (c.op = "sync" => <<c.stock[x], c.item[x]>> \in DriverMove)}
           w == [x \in DOMAIN o \cup C |-> IF x \in C THEN c.item[x] ELSE o[x]]
<1>2. /\ c \in Requests /\ Sound(c, o, db) /\ c.pc = "items" /\ DOMAIN req = Request /\ Fit(o) /\ DOMAIN own = Request
      /\ UNCHANGED <<db, accepted, served, changes>> /\ req' = [req EXCEPT ![h].pc = p]
  BY Has DEF WriteItems, At, Go
<1>3. own' = [own EXCEPT ![h] = w] /\ \A x \in C : Free(h, x)
  BY <1>1, <1>2
<1>4. PICK D \in SUBSET Cargo : c.item \in [D -> CargoStatus]
  BY <1>2 DEF Requests, Maps
<1>5. C \subseteq Cargo /\ \A x \in C : c.item[x] \in CargoStatus
  BY <1>4
<1>6. /\ DOMAIN w = DOMAIN o \cup C /\ (\A x \in C : w[x] = c.item[x])
      /\ \A x \in DOMAIN o \ C : w[x] = o[x]
  OBVIOUS
<1>7. p \in Stage /\ (p = "refuse" <=> c.op = "sync") /\ p \in {"refuse", "commit"}
  BY DEF Stage
<1>8. PICK q : q = [c EXCEPT !.pc = p]
  OBVIOUS
<1>9. req' = [req EXCEPT ![h] = q]
  BY <1>2, <1>8
<1> HIDE DEF c, o, C, w, p
<1>10. c.op \in {"sync", "save"}
  BY <1>2 DEF Sound, Staged
<1>11. q \in Requests /\ q.op = c.op /\ q.put = c.put /\ q.marked = c.marked /\ q.prior = c.prior /\ q.pc = p /\ q.todo = c.todo
  BY <1>2, <1>7, <1>8 DEF Requests
<1>12. Fit(w)
  <2>1. DOMAIN w \subseteq Rows
    BY <1>2, <1>5, <1>6 DEF Fit, Rows
  <2>2. ASSUME NEW r \in DOMAIN w PROVE w[r] \in RowType(r)
    <3>1. CASE r \in C
      BY <1>5, <1>6, <3>1, RowTypes
    <3>2. CASE r \notin C
      BY <1>2, <1>6, <3>2 DEF Fit
    <3> QED BY <3>1, <3>2
  <2> QED BY <2>1, <2>2 DEF Fit
<1>13. Staged(q) /\ Listing(q) /\ Checked(q)
  BY <1>7, <1>10, <1>11 DEF Staged, Listing, Checked, Marking
<1>14. Holding(q, w)
  BY <1>2, <1>6, <1>7, <1>10, <1>11 DEF Sound, Holding, Marking, Recalculating
<1>15. Ruled(q, w)
  BY <1>2, <1>7, <1>10, <1>11 DEF Sound, Ruled
<1>16. Aware(q, w, db)
  <2>1. Tour \in DOMAIN w => Tour \in DOMAIN o /\ w[Tour] = o[Tour]
    BY <1>5, <1>6, Constants
  <2> QED BY <1>2, <1>10, <1>11, <2>1 DEF Sound, Aware, Recalculating
<1>17. Kept(q, w, db)
  <2>1. \A s \in Stops \cap DOMAIN w : s \in DOMAIN o /\ w[s] = o[s]
    BY <1>5, <1>6, Constants
  <2>2. Kept(c, w, db)
    BY <1>2, <2>1 DEF Sound, Kept
  <2> QED BY <1>2, <1>11, <2>2, KeptOn
<1>18. Sound(q, w, db)
  BY <1>11, <1>12, <1>13, <1>14, <1>15, <1>16, <1>17 DEF Sound
<1>19. \A r \in DOMAIN w : r \in DOMAIN own[h] \/ Free(h, r)
  BY <1>3, <1>6 DEF o
<1> QED BY <1>2, <1>3, <1>9, <1>18, <1>19, Writes

\* What refuseCargoBlockedCompletions puts back.
LEMMA UndoneFollows ==
  ASSUME TourInv, NEW h \in Request, req[h].pc = "refuse", NEW s \in Refused(h), NEW w, w = Undone(h, s),
         NEW q, q.op = req[h].op, q.put = req[h].put, q.marked = req[h].marked, q.prior = req[h].prior, q.pc = "commit"
  PROVE  /\ s \in Stops /\ w \in StopRow /\ ~IsDone(w)
         /\ Follows(q, s, db[s], w) /\ Completes(q, s, w)
<1> DEFINE c == req[h]
           v == View(h)[s]
<1>1. c \in Requests /\ Sound(c, own[h], db) /\ c.pc = "refuse" /\ s \in DOMAIN c.put
  BY Has DEF Refused
<1>2. s \in Stops
  BY <1>1 DEF Requests, Maps
<1>3. c.op = "sync" /\ c.prior \in [Stops -> StopRow]
  BY <1>1 DEF Sound, Staged, Ruled
<1>4. c.prior[s] \in StopRow /\ (c.prior[s].life = "new" \/ ~IsDone(c.prior[s]))
  BY <1>2, <1>3 DEF Refused
<1>5. v \in StopRow /\ Follows(c, s, db[s], v)
  BY <1>2, SeenFollows
<1>6. v.life # "new"
  <2>1. s \in DOMAIN own[h]
    BY <1>1, <1>3 DEF Sound, Holding
  <2>2. v = own[h][s]
    BY <2>1, Views
  <2>3. Completes(c, s, own[h][s])
    BY <1>1, <1>2, <2>1 DEF Sound, Kept
  <2> QED BY <1>1, <1>3, <2>2, <2>3 DEF Completes
<1>7. CASE c.prior[s].life = "new"
  <2>1. w = [v EXCEPT !.status = "PENDING", !.done = FALSE]
    BY <1>7 DEF Undone
  <2> HIDE DEF c, v
  <2>2. w \in StopRow /\ w.status = "PENDING" /\ w.done = FALSE /\ w.life = v.life
    BY <1>5, <2>1 DEF StopRow, StopStatus
  <2> QED BY <1>1, <1>2, <1>3, <1>6, <1>7, <2>2 DEF Follows, Completes, Undoing, Agree, IsCompleted, IsDone, Closed, c
<1>8. CASE c.prior[s].life # "new"
  <2>1. w = [v EXCEPT !.status = c.prior[s].status, !.done = c.prior[s].done]
    BY <1>8 DEF Undone
  <2> HIDE DEF c, v
  <2>2. w \in StopRow /\ w.status = c.prior[s].status /\ w.done = c.prior[s].done /\ w.life = v.life
    BY <1>4, <1>5, <2>1 DEF StopRow
  <2>3. w.done = FALSE /\ w.status \notin Closed /\ ~IsCompleted(c.prior[s])
    BY <1>4, <1>8, <2>2 DEF StopRow, IsCompleted, IsDone, Closed
  <2> QED BY <1>1, <1>2, <1>3, <1>6, <2>2, <2>3 DEF Follows, Completes, Undoing, Agree, IsCompleted, IsDone, Closed, c
<1> QED BY <1>7, <1>8

\* refuseCargoBlockedCompletions
LEMMA RefuseKeeps ==
  ASSUME TourInv, NEW h \in Request, Refuse(h)
  PROVE  TourInv'
<1> DEFINE c == req[h]
           o == own[h]
           w == [r \in DOMAIN o |-> IF r \in Refused(h) THEN Undone(h, r) ELSE o[r]]
           stock == [x \in Cargo |-> View(h)[x]]
<1>1. /\ c \in Requests /\ Sound(c, o, db) /\ c.pc = "refuse" /\ DOMAIN req = Request /\ Fit(o) /\ DOMAIN own = Request
      /\ UNCHANGED <<db, accepted, served, changes>>
      /\ req' = [req EXCEPT ![h].pc = "commit", ![h].stock = stock]
  BY Has DEF Refuse, At
<1>2. own' = [own EXCEPT ![h] = w]
  BY <1>1 DEF Refuse
<1>3. stock \in [Cargo -> CargoStatus] /\ stock \in Maps(Cargo \cup Hotels, CargoStatus \cup HotelStatus)
  <2>1. stock \in [Cargo -> CargoStatus]
    BY Views
  <2> HIDE DEF stock
  <2>2. stock \in [Cargo -> CargoStatus \cup HotelStatus]
    BY <2>1
  <2> QED BY <2>1, <2>2 DEF Maps
<1>4. \A x \in Cargo : stock[x] = View(h)[x]
  OBVIOUS
<1>5. PICK q : q = [c EXCEPT !.pc = "commit", !.stock = stock]
  OBVIOUS
<1> HIDE DEF stock
<1>6. req' = [req EXCEPT ![h] = q]
  BY <1>1, <1>5
<1>7. DOMAIN w = DOMAIN o /\ \A r \in DOMAIN o \ Refused(h) : w[r] = o[r]
  OBVIOUS
<1>8. ASSUME q.op = c.op, q.put = c.put, q.marked = c.marked, q.prior = c.prior, q.pc = "commit",
             NEW s \in DOMAIN o \cap Refused(h)
      PROVE s \in Stops /\ w[s] \in StopRow /\ ~IsDone(w[s]) /\ Follows(q, s, db[s], w[s]) /\ Completes(q, s, w[s])
  <2>1. w[s] = Undone(h, s)
    OBVIOUS
  <2> QED BY <1>1, <1>8, <2>1, UndoneFollows
<1>9. \A s \in DOMAIN c.put, x \in Cargo :
        SentClosed(c, s) /\ ~IsDone(c.prior[s]) /\ s \notin Refused(h) => ~BlocksStop(View(h), x, s)
  BY DEF Refused
<1> HIDE DEF c, w
<1>10. c.op = "sync" /\ c.prior \in [Stops -> StopRow] /\ DOMAIN c.put \subseteq DOMAIN o
  BY <1>1 DEF Sound, Staged, Ruled, Holding
<1>11. /\ q \in Requests /\ q.op = "sync" /\ q.put = c.put /\ q.marked = c.marked /\ q.prior = c.prior /\ q.pc = "commit" /\ q.todo = c.todo
       /\ q.stock = stock
  BY <1>1, <1>3, <1>5, <1>10 DEF Requests, Stage
<1>20. \A s \in DOMAIN o \cap Refused(h) :
         s \in Stops /\ w[s] \in StopRow /\ ~IsDone(w[s]) /\ Follows(q, s, db[s], w[s]) /\ Completes(q, s, w[s])
  BY <1>8, <1>10, <1>11
<1>12. Fit(w)
  <2>1. ASSUME NEW r \in DOMAIN w PROVE w[r] \in RowType(r)
    BY <1>1, <1>7, <1>20, RowTypes DEF Fit
  <2> QED BY <1>1, <1>7, <2>1 DEF Fit
<1>13. Staged(q) /\ Listing(q) /\ Checked(q)
  BY <1>11 DEF Staged, Listing, Checked, Marking
<1>14. Holding(q, w)
  BY <1>7, <1>10, <1>11 DEF Holding, Marking, Recalculating
<1>15. Aware(q, w, db)
  <2>1. Tour \in DOMAIN w => Tour \in DOMAIN o /\ w[Tour] = o[Tour]
    BY <1>7, <1>20, Constants
  <2> QED BY <1>1, <1>10, <1>11, <2>1 DEF Sound, Aware, Recalculating
<1>16. Kept(q, w, db)
  <2> SUFFICES ASSUME NEW s \in Stops \cap DOMAIN w PROVE Follows(q, s, db[s], w[s]) /\ Completes(q, s, w[s])
    BY DEF Kept
  <2>1. CASE s \in Refused(h)
    BY <1>7, <1>20, <2>1
  <2>2. CASE s \notin Refused(h)
    <3>1. s \in DOMAIN o /\ w[s] = o[s]
      BY <1>7, <2>2
    <3>2. Kept(q, o, db)
      BY <1>1, <1>10, <1>11, KeptOn DEF Sound
    <3> QED BY <3>1, <3>2 DEF Kept
  <2> QED BY <2>1, <2>2
<1>17. Ruled(q, w)
  <2>1. ASSUME NEW x \in Cargo \cap DOMAIN w PROVE w[x] = stock[x]
    <3>1. x \in DOMAIN o /\ w[x] = o[x]
      BY <1>7, <1>20, Constants
    <3>2. View(h)[x] = o[x]
      BY <3>1, Views DEF o
    <3> QED BY <1>4, <3>1, <3>2
  <2>2. ASSUME NEW s \in DOMAIN c.put, NEW x \in Cargo, SentClosed(q, s), IsDone(w[s]), ~IsDone(c.prior[s])
        PROVE  ~BlocksStop(stock, x, s)
    <3>1. s \notin Refused(h)
      BY <1>10, <1>20, <2>2
    <3>3. SentClosed(c, s)
      BY <1>11, <2>2 DEF SentClosed
    <3>2. ~BlocksStop(View(h), x, s)
      BY <1>9, <2>2, <3>1, <3>3
    <3> QED BY <1>4, <3>2 DEF BlocksStop
  <2> QED BY <1>10, <1>11, <2>1, <2>2 DEF Ruled
<1>18. Sound(q, w, db)
  BY <1>11, <1>12, <1>13, <1>14, <1>15, <1>16, <1>17 DEF Sound
<1>19. \A r \in DOMAIN w : r \in DOMAIN own[h] \/ Free(h, r)
  BY <1>7 DEF o
<1> QED BY <1>1, <1>2, <1>6, <1>18, <1>19, Writes

\* COMMIT of the rows a request has.
LEMMA OwnCommitKeeps ==
  ASSUME TourInv, NEW h \in Request, Commit(h, own[h]), UNCHANGED <<served, changes>>,
         req[h].pc \notin {"gate", "prior", "stops"}
  PROVE  TourInv'
<1>1. Sound(req[h], own[h], db) /\ Fit(own[h])
  BY Has
<1>2. req[h].op \in {"complete", "sync"} => DOMAIN req[h].put \subseteq DOMAIN own[h]
  BY <1>1 DEF Sound, Holding
<1> QED BY <1>1, <1>2, CommitKeeps

\* An import commits.
LEMMA CommitImportKeeps ==
  ASSUME TourInv, NEW h \in Request, CommitImport(h)
  PROVE  TourInv'
  BY OwnCommitKeeps DEF CommitImport, At

-----------------------------------------------------------------------------
(* The recalculation *)

\* The route is planned.
LEMMA PlanKeeps ==
  ASSUME TourInv, NEW h \in Request, Plan(h)
  PROVE  TourInv'
<1> DEFINE c == req[h]
           o == own[h]
           t == RouteOrder(View(h))
<1>1. c \in Requests /\ Sound(c, o, db) /\ c.pc = "plan" /\ DOMAIN req = Request /\ UNCHANGED <<served, changes>>
  BY Has DEF Plan, At
<1>2. CASE Abort(h)
  BY <1>1, <1>2, AbortKeeps
<1>3. CASE Commit(h, own[h])
  BY <1>1, <1>3, OwnCommitKeeps
<1>4. CASE req' = [req EXCEPT ![h].todo = t, ![h].pc = "lock"] /\ UNCHANGED <<db, own, accepted>>
  <2>1. t \in Seq(Stops)
    BY Views, RouteNames
  <2> HIDE DEF t
  <2>2. PICK q : q = [c EXCEPT !.todo = t, !.pc = "lock"]
    OBVIOUS
  <2>3. req' = [req EXCEPT ![h] = q]
    BY <1>1, <1>4, <2>2
  <2> HIDE DEF c, o
  <2>4. c.op \in Recalculating
    BY <1>1 DEF Sound, Staged
  <2>5. q \in Requests /\ q.op = c.op /\ q.put = c.put /\ q.marked = c.marked /\ q.prior = c.prior /\ q.pc = "lock"
    BY <1>1, <2>1, <2>2 DEF Requests, Stage
  <2>6. Staged(q) /\ Listing(q) /\ Checked(q)
    BY <2>4, <2>5 DEF Staged, Listing, Checked, Marking, Recalculating
  <2>7. Holding(q, o) /\ Ruled(q, o)
    BY <2>4, <2>5 DEF Holding, Ruled, Marking, Recalculating
  <2>8. Sound(q, o, db)
    BY <1>1, <2>5, <2>6, <2>7, GoesOn
  <2> QED BY <1>1, <1>4, <2>3, <2>8, Moves DEF o
<1> QED BY <1>2, <1>3, <1>4 DEF Plan

\* persistRoute writes the tour,
LEMMA PersistTourKeeps ==
  ASSUME TourInv, NEW h \in Request, PersistTour(h)
  PROVE  TourInv'
<1> DEFINE c == req[h]
           o == own[h]
           v == View(h)[Tour]
           p == IF c.todo = << >> THEN "read" ELSE "route"
           w == With(o, Tour, v)
<1>1. /\ c \in Requests /\ Sound(c, o, db) /\ c.pc = "lock" /\ DOMAIN req = Request /\ Fit(o) /\ DOMAIN own = Request
      /\ UNCHANGED <<db, accepted, served, changes>> /\ req' = [req EXCEPT ![h].pc = p]
      /\ own' = [own EXCEPT ![h] = w] /\ Free(h, Tour)
  BY Has DEF PersistTour, At, Go, Hold
<1>2. c.op \in Recalculating
  BY <1>1 DEF Sound, Staged
<1>3. v \in TourRow /\ v.status = db[Tour].status
  BY <1>2, SeenTour DEF Recalculating
<1>4. Tour \in Rows /\ v \in RowType(Tour) /\ Fit(o)
  BY <1>1, <1>3, RowTypes DEF Rows
<1>5. Fit(w) /\ DOMAIN w = DOMAIN o \cup {Tour} /\ w[Tour] = v /\ \A r \in DOMAIN o \ {Tour} : w[r] = o[r]
  <2> HIDE DEF c, o, v
  <2> QED BY <1>4, WithFits
<1>6. p \in Stage /\ p \in {"read", "route"} /\ (p = "route" => c.todo # << >>)
  BY DEF Stage
<1>7. PICK q : q = [c EXCEPT !.pc = p]
  OBVIOUS
<1>8. req' = [req EXCEPT ![h] = q]
  BY <1>1, <1>7
<1> HIDE DEF c, o, v, p, w
<1>9. q \in Requests /\ q.op = c.op /\ q.put = c.put /\ q.marked = c.marked /\ q.prior = c.prior /\ q.pc = p /\ q.todo = c.todo
  BY <1>1, <1>6, <1>7 DEF Requests
<1>10. Staged(q) /\ Listing(q) /\ Checked(q) /\ Ruled(q, w)
  BY <1>2, <1>6, <1>9 DEF Staged, Listing, Checked, Ruled, Marking, Recalculating
<1>11. Holding(q, w)
  BY <1>2, <1>5, <1>6, <1>9 DEF Holding, Marking, Recalculating
<1>12. Aware(q, w, db)
  BY <1>3, <1>5, <1>6, <1>9 DEF Aware
<1>13. Kept(q, w, db)
  <2>1. Kept(c, w, db)
    BY <1>1, <1>5, Constants DEF Sound, Kept
  <2> QED BY <1>1, <1>9, <2>1, KeptOn
<1>14. Sound(q, w, db)
  BY <1>5, <1>9, <1>10, <1>11, <1>12, <1>13 DEF Sound
<1>15. \A r \in DOMAIN w : r \in DOMAIN own[h] \/ Free(h, r)
  BY <1>1, <1>5 DEF o
<1> QED BY <1>1, <1>8, <1>14, <1>15, Writes

\* and every stop.
LEMMA PersistStopKeeps ==
  ASSUME TourInv, NEW h \in Request, PersistStop(h)
  PROVE  TourInv'
<1> DEFINE c == req[h]
           o == own[h]
           s == Head(c.todo)
           rest == Tail(c.todo)
           v == View(h)[s]
           p == IF rest = << >> THEN "read" ELSE c.pc
           w == With(o, s, v)
<1>1. /\ c \in Requests /\ Sound(c, o, db) /\ c.pc = "route" /\ DOMAIN req = Request /\ Fit(o) /\ DOMAIN own = Request
      /\ UNCHANGED <<db, accepted, served, changes>> /\ req' = [req EXCEPT ![h].todo = rest, ![h].pc = p]
      /\ own' = [own EXCEPT ![h] = w] /\ Free(h, s)
  BY Has DEF PersistStop, At, Hold
<1>2. c.op \in Recalculating
  BY <1>1 DEF Sound, Staged
<1>3. c.todo \in Seq(Stops) /\ c.todo # << >>
  BY <1>1 DEF Sound, Listing, Requests
<1>4. s \in Stops /\ rest \in Seq(Stops)
  <2> HIDE DEF c
  <2> QED BY <1>3, HeadTail
<1>5. Follows(c, s, db[s], v) /\ v \in StopRow
  BY <1>4, SeenFollows
<1>6. s \in Rows /\ v \in RowType(s) /\ Fit(o)
  BY <1>1, <1>4, <1>5, RowTypes DEF Rows
<1>7. Fit(w) /\ DOMAIN w = DOMAIN o \cup {s} /\ w[s] = v /\ \A r \in DOMAIN o \ {s} : w[r] = o[r]
  <2> HIDE DEF c, o, v, s, rest, p
  <2>0. Fit(o)
    BY <1>6
  <2>1. \A r \in Rows : \A x \in RowType(r) :
          /\ Fit(With(o, r, x)) /\ DOMAIN With(o, r, x) = DOMAIN o \cup {r} /\ With(o, r, x)[r] = x
          /\ \A y \in DOMAIN o \ {r} : With(o, r, x)[y] = o[y]
    BY <2>0, WithFits
  <2> QED BY <1>6, <2>1
<1>8. p \in Stage /\ p \in {"read", "route"} /\ (p = "route" => rest # << >>)
  BY <1>1 DEF Stage
<1>9. PICK q : q = [c EXCEPT !.todo = rest, !.pc = p]
  OBVIOUS
<1>10. req' = [req EXCEPT ![h] = q]
  BY <1>1, <1>9
<1> HIDE DEF c, o, v, p, w, s, rest
<1>11. q \in Requests /\ q.op = c.op /\ q.put = c.put /\ q.marked = c.marked /\ q.prior = c.prior /\ q.pc = p /\ q.todo = rest
  BY <1>1, <1>4, <1>8, <1>9 DEF Requests
<1>12. Staged(q) /\ Listing(q) /\ Checked(q) /\ Ruled(q, w)
  BY <1>2, <1>8, <1>11 DEF Staged, Listing, Checked, Ruled, Marking, Recalculating
<1>13. Tour \in DOMAIN o /\ s # Tour
  BY <1>1, <1>2, <1>4, Constants DEF Sound, Holding
<1>14. Holding(q, w)
  BY <1>2, <1>7, <1>8, <1>11, <1>13 DEF Holding, Marking, Recalculating
<1>15. Aware(q, w, db)
  BY <1>1, <1>2, <1>7, <1>8, <1>11, <1>13 DEF Sound, Aware
<1>16. Kept(q, w, db)
  <2>1. Completes(c, s, w[s])
    BY <1>2 DEF Completes, Completing, Recalculating
  <2>2. ASSUME NEW x \in Stops \cap DOMAIN w PROVE Follows(c, x, db[x], w[x]) /\ Completes(c, x, w[x])
    <3>1. CASE x = s
      BY <1>5, <1>7, <2>1, <3>1
    <3>2. CASE x # s
      BY <1>1, <1>7, <3>2 DEF Sound, Kept
    <3> QED BY <3>1, <3>2
  <2>3. Kept(c, w, db)
    BY <2>2 DEF Kept
  <2> QED BY <1>1, <1>11, <2>3, KeptOn
<1>17. Sound(q, w, db)
  BY <1>7, <1>11, <1>12, <1>14, <1>15, <1>16 DEF Sound
<1>18. \A r \in DOMAIN w : r \in DOMAIN own[h] \/ Free(h, r)
  BY <1>1, <1>7 DEF o
<1> QED BY <1>1, <1>10, <1>17, <1>18, Writes

\* refreshProgress reads the status: it holds the tours row only in a
\* recalculation.
LEMMA RefreshKeeps ==
  ASSUME TourInv, NEW h \in Request, Refresh(h)
  PROVE  TourInv'
<1> DEFINE c == req[h]
           o == own[h]
           v == View(h)
           was == v[Tour].status
           st == Progressed(v)
           p == IF MayComplete(v) THEN "cargo" ELSE "write"
<1>1. c \in Requests /\ Sound(c, o, db) /\ c.pc = "read" /\ DOMAIN req = Request /\ UNCHANGED <<served, changes>>
  BY Has DEF Refresh, At
<1>2. c.op \in Recalculating \cup Marking \cup {"location"}
  BY <1>1 DEF Sound, Staged
<1>3. CASE Commit(h, own[h])
  BY <1>1, <1>3, OwnCommitKeeps
<1>4. CASE req' = [req EXCEPT ![h].was = was, ![h].seen = st, ![h].pc = p] /\ UNCHANGED <<db, own, accepted>>
  <2>1. was \in TourStatus /\ was = db[Tour].status
    <3>1. View(h)[Tour] \in TourRow /\ View(h)[Tour].status = db[Tour].status
      BY <1>2, SeenTour DEF Recalculating, Marking
    <3> QED BY <3>1 DEF TourRow
  <2>2. /\ st \in TourStatus /\ p \in Stage /\ p \in {"cargo", "write"}
        /\ st = "COMPLETED" <=> was = "COMPLETED"
        /\ was = "IN_PROGRESS" => st # "PLANNED"
        /\ p = "cargo" => was # "COMPLETED"
    BY <2>1 DEF Progressed, MayComplete, TourStatus, Stage
  <2>3. PICK q : q = [c EXCEPT !.was = was, !.seen = st, !.pc = p]
    OBVIOUS
  <2>4. req' = [req EXCEPT ![h] = q]
    BY <1>1, <1>4, <2>3
  <2> HIDE DEF c, o, was, st, p
  <2>5. /\ q \in Requests /\ q.op = c.op /\ q.put = c.put /\ q.marked = c.marked /\ q.prior = c.prior /\ q.pc = p
        /\ q.was = was /\ q.seen = st
    BY <1>1, <2>1, <2>2, <2>3 DEF Requests
  <2>6. Staged(q) /\ Listing(q) /\ Checked(q)
    <3>1. c.op = "complete" => \A s \in DOMAIN c.put : c.put[s] = "COMPLETED"
      BY <1>1 DEF Sound, Listing
    <3>2. Listing(q)
      BY <1>2, <2>2, <2>5, <3>1 DEF Listing, Marking, Recalculating
    <3> QED BY <1>2, <2>2, <2>5, <3>2 DEF Staged, Checked
  <2>7. Holding(q, o)
    BY <1>1, <1>2, <2>2, <2>5 DEF Sound, Holding, Marking, Recalculating
  <2>8. Ruled(q, o)
    BY <1>2, <2>5 DEF Ruled, Marking, Recalculating
  <2>9. Sound(q, o, db)
    BY <1>1, <2>1, <2>2, <2>5, <2>6, <2>7, <2>8, GoesOn
  <2> QED BY <1>1, <1>4, <2>4, <2>9, Moves DEF o
<1> QED BY <1>3, <1>4 DEF Refresh

-----------------------------------------------------------------------------
(* What holds a tour open, and the status *)

\* The query for cargo that holds the tour open
LEMMA CheckCargoKeeps ==
  ASSUME TourInv, NEW h \in Request, CheckCargo(h)
  PROVE  TourInv'
<1> DEFINE c == req[h]
           o == own[h]
           stock == [x \in Cargo |-> View(h)[x]]
<1>1. c \in Requests /\ Sound(c, o, db) /\ c.pc = "cargo" /\ DOMAIN req = Request
  BY Has DEF CheckCargo, At
<1>2. stock \in [Cargo -> CargoStatus] /\ stock \in Maps(Cargo \cup Hotels, CargoStatus \cup HotelStatus)
  <2>1. stock \in [Cargo -> CargoStatus]
    BY Views
  <2> HIDE DEF stock
  <2>2. stock \in [Cargo -> CargoStatus \cup HotelStatus]
    BY <2>1
  <2> QED BY <2>1, <2>2 DEF Maps
<1>3. req' = [req EXCEPT ![h].stock = stock, ![h].pc = "hotel"]
  BY DEF CheckCargo
<1> HIDE DEF stock
<1>4. PICK q : q = [c EXCEPT !.stock = stock, !.pc = "hotel"]
  OBVIOUS
<1>5. req' = [req EXCEPT ![h] = q]
  BY <1>1, <1>3, <1>4
<1> HIDE DEF c, o
<1>6. c.op \in Recalculating \cup Marking \cup {"location", "patchTour"}
  BY <1>1 DEF Sound, Staged
<1>7. /\ q \in Requests /\ q.op = c.op /\ q.put = c.put /\ q.marked = c.marked /\ q.prior = c.prior /\ q.pc = "hotel"
      /\ q.seen = c.seen /\ q.stock = stock
  BY <1>1, <1>2, <1>4 DEF Requests, Stage
<1>8. Staged(q) /\ Listing(q) /\ Checked(q)
  <2>1. Listing(q)
    BY <1>1, <1>6, <1>7 DEF Sound, Listing
  <2>2. Checked(q)
    BY <1>1, <1>2, <1>7 DEF Sound, Checked
  <2> QED BY <1>6, <1>7, <2>1, <2>2 DEF Staged
<1>9. Holding(q, o) /\ Ruled(q, o)
  BY <1>1, <1>6, <1>7 DEF Sound, Holding, Ruled, Marking, Recalculating
<1>10. Sound(q, o, db)
  BY <1>1, <1>7, <1>8, <1>9, GoesOn DEF Sound, Aware
<1> QED BY <1>5, <1>10, Moves DEF CheckCargo, At, o

\* The query for hotels, and what both found
LEMMA CheckHotelsKeeps ==
  ASSUME TourInv, NEW h \in Request, CheckHotels(h)
  PROVE  TourInv'
<1> DEFINE c == req[h]
           o == own[h]
           v == View(h)
           clear == /\ \A x \in Cargo : ~BlocksTour(c.stock, x)
                    /\ \A x \in Hotels : ~HotelBlocks(v, x)
           st == IF clear THEN "COMPLETED" ELSE c.seen
           stock == [x \in Cargo \cup Hotels |-> IF x \in Cargo THEN c.stock[x] ELSE v[x]]
<1>1. c \in Requests /\ Sound(c, o, db) /\ c.pc = "hotel" /\ DOMAIN req = Request /\ UNCHANGED <<served, changes>>
  BY Has DEF CheckHotels, At
<1>2. CASE Abort(h)
  BY <1>1, <1>2, AbortKeeps
<1>3. CASE /\ ~(c.op = "patchTour" /\ ~clear /\ ~c.yes)
           /\ req' = [req EXCEPT ![h].seen = st, ![h].stock = stock, ![h].pc = "write"]
           /\ UNCHANGED <<db, own, accepted>>
  <2>1. \A x \in Cargo : c.stock[x] \in CargoStatus
    BY <1>1 DEF Sound, Checked
  <2>2. \A x \in Hotels : v[x] \in HotelStatus
    BY Views
  <2>3. /\ stock \in [Cargo \cup Hotels -> CargoStatus \cup HotelStatus]
        /\ \A x \in Cargo : stock[x] = c.stock[x]
        /\ \A x \in Hotels : stock[x] = v[x]
    BY <2>1, <2>2, Constants
  <2>4. stock \in Maps(Cargo \cup Hotels, CargoStatus \cup HotelStatus)
    <3> HIDE DEF stock
    <3> QED BY <2>3 DEF Maps
  <2>5. st \in TourStatus
    BY <1>1 DEF Requests, TourStatus
  <2>6. clear => \A r \in Cargo \cup Hotels : stock[r] \notin Opening
    <3> SUFFICES ASSUME clear, NEW r \in Cargo \cup Hotels PROVE stock[r] \notin Opening
      OBVIOUS
    <3>1. CASE r \in Cargo
      <4>1. stock[r] \in CargoStatus /\ stock[r] \notin {"PLANNED", "PICKED_UP", "DAMAGED"}
        <5> HIDE DEF stock
        <5> QED BY <2>1, <2>3, <3>1 DEF BlocksTour
      <4> HIDE DEF stock
      <4> QED BY <4>1 DEF CargoStatus, Opening
    <3>2. CASE r \in Hotels
      <4>1. stock[r] \in HotelStatus /\ stock[r] # "CHECKED_IN"
        <5> HIDE DEF stock
        <5> QED BY <2>2, <2>3, <3>2 DEF HotelBlocks
      <4> HIDE DEF stock
      <4> QED BY <4>1 DEF HotelStatus, Opening
    <3> QED BY <3>1, <3>2
  <2>7. /\ clear => st = "COMPLETED"
        /\ ~clear => st = c.seen
        /\ ~clear /\ c.op = "patchTour" => c.yes = TRUE
    <3>1. c.yes \in BOOLEAN
      BY <1>1 DEF Requests
    <3> QED BY <1>3, <3>1
  <2> HIDE DEF stock, st, clear
  <2>8. PICK q : q = [c EXCEPT !.seen = st, !.stock = stock, !.pc = "write"]
    OBVIOUS
  <2>9. req' = [req EXCEPT ![h] = q]
    BY <1>1, <1>3, <2>8
  <2> HIDE DEF c, o, v
  <2>10. c.op \in Recalculating \cup Marking \cup {"location", "patchTour"}
    BY <1>1 DEF Sound, Staged
  <2>11. /\ q \in Requests /\ q.op = c.op /\ q.put = c.put /\ q.marked = c.marked /\ q.prior = c.prior /\ q.pc = "write"
         /\ q.seen = st /\ q.stock = stock /\ q.yes = c.yes /\ q.was = c.was
    BY <1>1, <2>4, <2>5, <2>8 DEF Requests, Stage
  <2>12. Staged(q) /\ Listing(q)
    <3>1. Listing(q)
      BY <1>1, <2>10, <2>11 DEF Sound, Listing
    <3> QED BY <2>10, <2>11, <3>1 DEF Staged
  <2>13. Checked(q)
    <3>1. CASE clear
      BY <2>6, <2>11, <3>1 DEF Checked
    <3>2. CASE ~clear
      <4>1. c.op # "patchTour" => c.seen # "COMPLETED"
        BY <1>1 DEF Sound, Checked
      <4> QED BY <2>7, <2>11, <3>2, <4>1 DEF Checked
    <3> QED BY <3>1, <3>2
  <2>14. Holding(q, o) /\ Ruled(q, o)
    BY <1>1, <2>10, <2>11 DEF Sound, Holding, Ruled, Marking, Recalculating
  <2>15. q.op \in Recalculating =>
            /\ db[Tour].status = "COMPLETED" => q.seen = "COMPLETED"
            /\ db[Tour].status = "IN_PROGRESS" => q.seen # "PLANNED"
    BY <1>1, <2>7, <2>11 DEF Sound, Aware
  <2>16. Sound(q, o, db)
    BY <1>1, <2>11, <2>12, <2>13, <2>14, <2>15, GoesOn
  <2> QED BY <1>1, <1>3, <2>9, <2>16, Moves DEF o
<1> QED BY <1>2, <1>3 DEF CheckHotels

\* The status is written.
LEMMA WriteTourKeeps ==
  ASSUME TourInv, NEW h \in Request, WriteTour(h)
  PROVE  TourInv'
<1> DEFINE c == req[h]
           o == own[h]
           v == View(h)[Tour]
           x == [v EXCEPT !.status = c.seen]
           f == With(o, Tour, x)
<1>1. c \in Requests /\ Sound(c, o, db) /\ c.pc = "write" /\ Fit(o) /\ UNCHANGED <<served, changes>> /\ Free(h, Tour)
  BY Has DEF WriteTour, At
<1>2. CASE Abort(h)
  BY <1>1, <1>2, AbortKeeps
<1>3. CASE Commit(h, f)
  <2>1. x \in TourRow
    <3>1. v \in TourRow /\ c.seen \in TourStatus
      BY <1>1, SeenTour DEF Requests
    <3> HIDE DEF v, c
    <3> QED BY <3>1 DEF TourRow
  <2>2. Tour \in Rows /\ x \in RowType(Tour) /\ Fit(o)
    BY <1>1, <2>1, RowTypes DEF Rows
  <2>3. Fit(f) /\ DOMAIN f = DOMAIN o \cup {Tour} /\ \A r \in DOMAIN o \ {Tour} : f[r] = o[r]
    <3> HIDE DEF o, x
    <3> QED BY <2>2, WithFits
  <2> HIDE DEF f, x, v
  <2>4. \A s \in Stops \cap DOMAIN f : f[s] = own[h][s]
    BY <2>3, Constants
  <2>5. c.op \in {"complete", "sync"} => DOMAIN c.put \subseteq DOMAIN own[h] \cap DOMAIN f
    BY <1>1, <2>3 DEF Sound, Holding
  <2> QED BY <1>1, <1>3, <2>3, <2>4, <2>5, CommitKeeps
<1> QED BY <1>2, <1>3 DEF WriteTour

-----------------------------------------------------------------------------
(* The invariant *)

\* Every statement keeps the invariant.
LEMMA StepKeeps ==
  ASSUME TourInv, NEW h \in Request, Step(h)
  PROVE  TourInv'
  BY GateKeeps, PriorKeeps, WriteStopKeeps, SequenceKeeps, SaveTourRowKeeps, SweepKeeps, DeleteAllKeeps, DropKeeps,
     LoadKeeps, WriteItemsKeeps, RefuseKeeps, CommitImportKeeps, PlanKeeps, PersistTourKeeps, PersistStopKeeps,
     RefreshKeeps, CheckCargoKeeps, CheckHotelsKeeps, WriteTourKeeps DEF Step

\* Every start is sound.
LEMMA TourInvStarts == Init => TourInv
<1> SUFFICES ASSUME Init PROVE TourInv
  OBVIOUS
<1>1. Base /\ Told
  BY TourAssumption DEF Init, Base, Told, Fit
<1>2. Apart
  BY Nothing DEF Init, Apart
<1>3. ASSUME NEW h \in Request PROVE Sound(req[h], own[h], db)
  <2>1. req[h] = Idle /\ own[h] = << >>
    BY DEF Init
  <2> QED BY <2>1, IdleSound, Nothing
<1> QED BY <1>1, <1>2, <1>3 DEF TourInv

\* Every step keeps the invariant.
LEMMA TourInvStays == TourInv /\ [Next]_vars => TourInv'
<1> SUFFICES ASSUME TourInv, [Next]_vars PROVE TourInv'
  OBVIOUS
<1>1. ASSUME NEW h \in Request, Arrival(h) PROVE TourInv'
  BY <1>1, ArrivalKeeps
<1>2. ASSUME NEW h \in Request, SubmitTour(h) PROVE TourInv'
  BY <1>2, SubmitTourKeeps
<1>3. ASSUME NEW h \in Request, SubmitStop(h) PROVE TourInv'
  BY <1>3, SubmitStopKeeps
<1>4. ASSUME NEW h \in Request, SubmitSave(h) PROVE TourInv'
  BY <1>4, SubmitSaveKeeps
<1>5. ASSUME NEW h \in Request, Step(h) PROVE TourInv'
  BY <1>5, StepKeeps
<1>6. ASSUME NEW h \in Request, Victim(h) PROVE TourInv'
  BY <1>6, AbortKeeps DEF Victim
<1>7. ASSUME NEW st \in TourStatus, CreateTour(st) PROVE TourInv'
  BY <1>7, CreateTourKeeps
<1>8. ASSUME NEW r \in Cargo \cup Hotels, Change(r) PROVE TourInv'
  BY <1>8, ChangeKeeps
<1>9. CASE UNCHANGED vars
  BY <1>9 DEF vars, TourInv, Base, Told, Apart
<1>10. ASSUME NEW s \in Stops, HotelForm(s) PROVE TourInv'
  BY <1>10, HotelFormKeeps
<1> QED BY <1>1, <1>2, <1>3, <1>4, <1>5, <1>6, <1>7, <1>8, <1>9, <1>10 DEF Next

\* In every state a request holds rows of its own, knows the status it read
\* or locked, and has stops that it may make of the committed ones (tour-
\* core.routes.js, import-engine.js: all writers of a tour).
THEOREM TourStaysSound == Spec => []TourInv
<1> QED BY TourInvStarts, TourInvStays, PTL DEF Spec

-----------------------------------------------------------------------------
(* Types and deadlocks *)

\* A request that marks a stop, refreshes a tour or sends the tour form, and a
\* live update, waits for the tours row at most, once it has written anything;
\* and none of them holds that row.
LEMMA MarkingWaitsForNoStop ==
  ASSUME TourInv, NEW h \in Request, NEW g \in Request, DOMAIN own[h] # {}, DOMAIN own[g] # {},
         req[h].op \notin Recalculating \cup {"sync", "syncDelete", "save"},
         req[g].op \notin Recalculating \cup {"sync", "syncDelete", "save"}
  PROVE  Needs(h) \cap DOMAIN own[g] = {}
<1>1. ASSUME NEW q \in Request, DOMAIN own[q] # {}, req[q].op \notin Recalculating \cup {"sync", "syncDelete", "save"}
      PROVE  DOMAIN own[q] \subseteq Stops /\ req[q].pc \in {"read", "cargo", "hotel", "write", "commit"}
  <2>1. req[q] \in Requests /\ Sound(req[q], own[q], db)
    BY Has
  <2>2. req[q].op \in Op /\ req[q].pc \in Stage
    BY <2>1 DEF Requests
  <2>3. req[q].op \in Marking \cup {"live"}
    BY <1>1, <2>1, <2>2 DEF Sound, Holding, Op
  <2>4. DOMAIN own[q] \subseteq Stops /\ req[q].pc \notin {"gate", "stops"}
    BY <1>1, <2>1, <2>3 DEF Sound, Holding
  <2>5. req[q].pc # "idle"
    BY <2>1, <2>3 DEF Sound, Staged, Idle, Marking
  <2> QED BY <2>1, <2>2, <2>3, <2>4, <2>5 DEF Sound, Staged, Stage, Marking, Recalculating
<1>2. Needs(h) \subseteq {Tour}
  <2>1. req[h].pc \in {"read", "cargo", "hotel", "write", "commit"}
    BY <1>1
  <2> QED BY <2>1 DEF Needs
<1> QED BY <1>1, <1>2, Constants

\* The rows have their types, and requests deadlock only as said.
LEMMA SoundRequests == TourInv => RequestsAreSound
<1> SUFFICES ASSUME TourInv PROVE RequestsAreSound
  OBVIOUS
<1>1. TypeOK
  <2>1. ASSUME NEW h \in Request
        PROVE  /\ DOMAIN own[h] \subseteq Rows /\ \A r \in DOMAIN own[h] : own[h][r] \in RowType(r)
               /\ req[h].op \in Op /\ req[h].seen \in TourStatus /\ req[h].yes \in BOOLEAN
               /\ DOMAIN req[h].put \subseteq Stops /\ DOMAIN req[h].item \subseteq Cargo
               /\ req[h].todo \in Seq(Stops) /\ req[h].marked \subseteq Stops
    BY Has DEF Fit, Requests, Maps
  <2>2. \A r \in Rows : db[r] \in RowType(r)
    BY DEF TourInv, Base, Fit
  <2> QED BY <2>1, <2>2 DEF TypeOK, TourInv, Base, Told
<1>2. DeadlockNeedsSeveralStops
  <2> SUFFICES ASSUME NEW h \in Request, NEW g \in Request, Deadlocked(h, g)
               PROVE  {req[h].op, req[g].op} \cap (Recalculating \cup {"sync", "syncDelete", "save"}) # {}
    BY DEF DeadlockNeedsSeveralStops
  <2>1. Needs(h) \cap DOMAIN own[g] # {} /\ Needs(g) \cap DOMAIN own[h] # {}
    BY DEF Deadlocked, WaitsFor
  <2> QED BY <2>1, MarkingWaitsForNoStop
<1> QED BY <1>1, <1>2 DEF RequestsAreSound

\* The rows and requests have their types, and a deadlock needs a request
\* that writes several stops (persistRoute, processTour, the deletions);
\* marking stops, locations, live updates and the tour form cannot block each
\* other.
THEOREM RequestsStaySound == Spec => []RequestsAreSound
<1> QED BY TourStaysSound, SoundRequests, PTL

-----------------------------------------------------------------------------
(* Who changes committed rows *)

\* A commit of what a request has, with the tours row its last statement makes.
Closes(h, f) ==
    /\ Commit(h, f) /\ req[h].pc \in {"commit", "drop", "plan", "read", "write"}
    /\ \A r \in DOMAIN f \ {Tour} : r \in DOMAIN own[h] /\ f[r] = own[h][r]
    /\ \A r \in DOMAIN own[h] : r \in DOMAIN f
    /\ req[h].pc = "commit" => f = own[h]
    /\ Tour \in DOMAIN f =>
          f[Tour].status = IF req[h].pc = "write" THEN req[h].seen ELSE View(h)[Tour].status

\* Whoever changes committed rows.
LEMMA WhoChanges ==
  ASSUME TourInv, [Next]_vars
  PROVE  \/ db' = db
         \/ \E st \in TourStatus : CreateTour(st)
         \/ \E r \in Cargo \cup Hotels : Change(r)
         \/ \E s \in Stops : HotelForm(s)
         \/ \E h \in Request : DeleteAll(h) /\ req[h].op = "deleteTour"
         \/ \E h \in Request : \E f : Closes(h, f)
<1>1. CASE UNCHANGED vars
  BY <1>1 DEF vars
<1>2. ASSUME NEW h \in Request, Arrival(h) PROVE db' = db
  BY <1>2 DEF Arrival, Arrive, Complete, PatchStop, DeleteStop, AddStop, LiveUpdate, Location, PatchTour, Save, Reorder,
              Recalculate, Sync, SyncDelete, DeleteTour, Begin
<1>3. ASSUME NEW h \in Request, SubmitTour(h) \/ SubmitStop(h) \/ SubmitSave(h) \/ Victim(h) PROVE db' = db
  BY <1>3 DEF SubmitTour, SubmitStop, SubmitSave, Victim, Abort
<1>4. ASSUME NEW h \in Request, Step(h)
      PROVE  \/ db' = db
             \/ DeleteAll(h) /\ req[h].op = "deleteTour"
             \/ \E f : Closes(h, f)
  <2>1. ASSUME Commit(h, own[h]), req[h].pc \in {"commit", "plan", "read"} PROVE Closes(h, own[h])
    <3>1. Tour \in DOMAIN own[h] => View(h)[Tour] = own[h][Tour]
      BY Views
    <3> QED BY <2>1, <3>1 DEF Closes
  <2>2. ASSUME NEW x, Commit(h, With(own[h], Tour, x)), req[h].pc \in {"drop", "write"},
               x.status = IF req[h].pc = "write" THEN req[h].seen ELSE View(h)[Tour].status
        PROVE  Closes(h, With(own[h], Tour, x))
    BY <2>2 DEF Closes, With
  <2>3. CASE Drop(h)
    <3>1. req[h].pc = "drop"
      BY <2>3 DEF Drop, At
    <3>2. CASE Abort(h)
      BY <3>2 DEF Abort
    <3> DEFINE v == View(h)[Tour]
               x == [v EXCEPT !.life = "gone"]
    <3>3. CASE Commit(h, With(own[h], Tour, x))
      <4>1. x.status = v.status
        <5>1. v \in TourRow
          BY SeenTour
        <5> HIDE DEF v
        <5> QED BY <5>1 DEF TourRow
      <4> HIDE DEF x
      <4> QED BY <2>2, <3>1, <3>3, <4>1
    <3> QED BY <2>3, <3>2, <3>3 DEF Drop
  <2>4. CASE WriteTour(h)
    <3>1. req[h].pc = "write"
      BY <2>4 DEF WriteTour, At
    <3>2. CASE Abort(h)
      BY <3>2 DEF Abort
    <3> DEFINE v == View(h)[Tour]
               x == [v EXCEPT !.status = req[h].seen]
    <3>3. CASE Commit(h, With(own[h], Tour, x))
      <4>1. x.status = req[h].seen
        <5>1. v \in TourRow
          BY SeenTour
        <5> HIDE DEF v
        <5> QED BY <5>1 DEF TourRow
      <4> HIDE DEF x
      <4> QED BY <2>2, <3>1, <3>3, <4>1
    <3> QED BY <2>4, <3>2, <3>3 DEF WriteTour
  <2>5. CASE CommitImport(h) \/ Plan(h) \/ Refresh(h)
    <3>1. req[h].pc \in {"commit", "plan", "read"}
      BY <2>5 DEF CommitImport, Plan, Refresh, At
    <3>2. db' = db \/ Commit(h, own[h])
      BY <2>5 DEF CommitImport, Plan, Refresh, Abort
    <3> QED BY <2>1, <3>1, <3>2
  <2>6. CASE DeleteAll(h)
    BY <2>6 DEF DeleteAll
  <2>7. CASE \/ Gate(h) \/ Prior(h) \/ WriteStop(h) \/ Sequence(h) \/ SaveTourRow(h) \/ Sweep(h)
             \/ Load(h) \/ WriteItems(h) \/ Refuse(h) \/ PersistTour(h) \/ PersistStop(h)
             \/ CheckCargo(h) \/ CheckHotels(h)
    BY <2>7 DEF Gate, Prior, WriteStop, Sequence, SaveTourRow, Sweep, Load, WriteItems, Refuse, PersistTour,
                PersistStop, CheckCargo, CheckHotels, Abort
  <2> QED BY <1>4, <2>3, <2>4, <2>5, <2>6, <2>7 DEF Step
<1> QED BY <1>1, <1>2, <1>3, <1>4 DEF Next

\* A request that commits is the only one that ends.
LEMMA OneEnds ==
  ASSUME TourInv, NEW h \in Request, NEW f, Closes(h, f)
  PROVE  /\ Ends(h) /\ \A g \in Request : Ends(g) => g = h
         /\ db' = Committed(f)
<1>1. DOMAIN req = Request
  BY Has
<1> QED BY <1>1, IdleFits DEF Closes, Commit, Ends

\* Nothing but its COMMIT ends an import that has come to it.
LEMMA ImportsCommit ==
  ASSUME TourInv, [Next]_vars, NEW h \in Request, Ends(h), req[h].pc = "commit"
  PROVE  Closes(h, own[h])
<1>1. DOMAIN req = Request
  BY Has
<1>2. ASSUME UNCHANGED vars PROVE FALSE
  BY <1>2 DEF vars, Ends
<1>3. ASSUME NEW g \in Request, Arrival(g) PROVE FALSE
  <2>1. \E q : Begin(g, q)
    BY <1>3 DEF Arrival, Arrive, Complete, PatchStop, DeleteStop, AddStop, LiveUpdate, Location, PatchTour, Save, Reorder,
                Recalculate, Sync, SyncDelete, DeleteTour
  <2> QED BY <1>1, <2>1, IdleFits DEF Begin, Ends
<1>4. ASSUME NEW g \in Request, SubmitTour(g) \/ SubmitStop(g) \/ SubmitSave(g) PROVE FALSE
  BY <1>1, <1>4 DEF SubmitTour, SubmitStop, SubmitSave, At, Go, Ends
<1>5. ASSUME NEW g \in Request, Victim(g) PROVE FALSE
  <2>1. g # h
    <3>1. Needs(g) # {}
      BY <1>5 DEF Victim, Deadlocked, WaitsFor
    <3> QED BY <3>1 DEF Needs
  <2> QED BY <1>1, <1>5, <2>1 DEF Victim, Abort, Ends
<1>6. ASSUME \/ \E st \in TourStatus : CreateTour(st)
             \/ \E r \in Cargo \cup Hotels : Change(r)
             \/ \E s \in Stops : HotelForm(s)
      PROVE  FALSE
  BY <1>6 DEF CreateTour, Change, HotelForm, Ends
<1>7. ASSUME NEW g \in Request, Step(g) PROVE CommitImport(h)
  <2>1. CASE CommitImport(g)
    BY <1>1, <2>1 DEF CommitImport, Commit, At, Ends
  <2>2. CASE Gate(g) \/ Prior(g) \/ Sequence(g) \/ Plan(g) \/ Refresh(g) \/ CheckHotels(g) \/ Drop(g) \/ WriteTour(g)
    BY <1>1, <2>2 DEF Gate, Prior, Sequence, Plan, Refresh, CheckHotels, Drop, WriteTour, At, Go, Abort, Commit, Ends
  <2>3. CASE \/ SaveTourRow(g) \/ Sweep(g) \/ DeleteAll(g) \/ Load(g) \/ WriteItems(g) \/ Refuse(g)
             \/ PersistTour(g) \/ PersistStop(g) \/ CheckCargo(g)
    BY <1>1, <2>3 DEF SaveTourRow, Sweep, DeleteAll, Load, WriteItems, Refuse, PersistTour, PersistStop, CheckCargo,
                      At, Go, Ends
  <2>4. CASE WriteStop(g)
    BY <1>1, <2>4 DEF WriteStop, At, Abort, Ends
  <2> QED BY <1>7, <2>1, <2>2, <2>3, <2>4 DEF Step
<1>8. CommitImport(h)
  BY <1>2, <1>3, <1>4, <1>5, <1>6, <1>7 DEF Next
<1>9. Tour \in DOMAIN own[h] => View(h)[Tour] = own[h][Tour]
  BY Views
<1> QED BY <1>8, <1>9 DEF CommitImport, At, Closes

\* The rows a COMMIT leaves.
LEMMA ClosedRows ==
  ASSUME TourInv, NEW h \in Request, NEW f, Closes(h, f), NEW r \in Rows, r # Tour
  PROVE  \/ r \in DOMAIN own[h] /\ db'[r] = own[h][r]
         \/ r \notin DOMAIN own[h] /\ db'[r] = db[r]
<1>1. db' = Committed(f)
  BY OneEnds
<1> QED BY <1>1 DEF Closes, Committed

\* The status a COMMIT leaves the tour.
LEMMA ClosedTour ==
  ASSUME TourInv, NEW h \in Request, NEW f, Closes(h, f)
  PROVE  \/ db'[Tour].status = db[Tour].status
         \/ req[h].pc = "write" /\ db'[Tour].status = req[h].seen
         \/ req[h].op = "sync" /\ db'[Tour].status = "PLANNED"
<1>1. db' = Committed(f)
  BY OneEnds
<1>2. Tour \in Rows
  BY DEF Rows
<1>3. View(h)[Tour].status = db[Tour].status \/ (req[h].op = "sync" /\ View(h)[Tour].status = "PLANNED")
  BY SeenTour
<1>4. CASE Tour \in DOMAIN f
  <2>1. db'[Tour] = f[Tour]
    BY <1>1, <1>2, <1>4 DEF Committed
  <2> QED BY <1>3, <1>4, <2>1 DEF Closes
<1>5. CASE Tour \notin DOMAIN f
  BY <1>1, <1>2, <1>5 DEF Committed
<1> QED BY <1>4, <1>5

\* What a step that is no COMMIT does to the tour and its stops.
LEMMA QuietSteps ==
  ASSUME TourInv,
         \/ \E st \in TourStatus : CreateTour(st)
         \/ \E r \in Cargo \cup Hotels : Change(r)
         \/ \E h \in Request : DeleteAll(h) /\ req[h].op = "deleteTour"
  PROVE  /\ \A h \in Request : ~Ends(h)
         /\ \A s \in Stops : db'[s].status = db[s].status /\ db'[s].done = db[s].done
<1>1. DOMAIN req = Request /\ DOMAIN db = Rows /\ Stops \subseteq Rows
  BY DEF TourInv, Base, Rows
<1>2. ASSUME NEW st \in TourStatus, CreateTour(st)
      PROVE  (\A h \in Request : ~Ends(h)) /\ \A s \in Stops : db'[s] = db[s]
  BY <1>1, <1>2, Constants DEF CreateTour, Ends
<1>3. ASSUME NEW r \in Cargo \cup Hotels, Change(r)
      PROVE  (\A h \in Request : ~Ends(h)) /\ \A s \in Stops : db'[s] = db[s]
  <2>1. (\E x : db' = [db EXCEPT ![r] = x]) /\ UNCHANGED req
    BY <1>3 DEF Change
  <2> QED BY <1>1, <2>1, Constants DEF Ends
<1>4. ASSUME NEW h \in Request, DeleteAll(h), req[h].op = "deleteTour"
      PROVE  /\ \A g \in Request : ~Ends(g)
             /\ \A s \in Stops : db'[s].status = db[s].status /\ db'[s].done = db[s].done
  <2> DEFINE S == {s \in Stops : View(h)[s].life # "new"}
             f == [s \in S |-> [View(h)[s] EXCEPT !.life = "gone"]]
  <2>1. db' = Committed(f) /\ req' = [req EXCEPT ![h].pc = "drop"]
    BY <1>4 DEF DeleteAll, Go
  <2>2. DOMAIN own[h] = {}
    BY <1>4, Has DEF Sound, Holding
  <2>3. ASSUME NEW s \in Stops PROVE db'[s].status = db[s].status /\ db'[s].done = db[s].done
    <3>1. View(h)[s] = db[s] /\ db[s] \in StopRow
      BY <1>1, <2>2, Views
    <3>2. CASE s \in S
      <4>1. db'[s] = [View(h)[s] EXCEPT !.life = "gone"]
        BY <1>1, <2>1, <3>2 DEF Committed
      <4> QED BY <3>1, <4>1 DEF StopRow
    <3>3. CASE s \notin S
      BY <1>1, <2>1, <3>3 DEF Committed
    <3> QED BY <3>2, <3>3
  <2>4. \A g \in Request : ~Ends(g)
    BY <1>1, <2>1 DEF Ends
  <2> QED BY <2>3, <2>4
<1> QED BY <1>2, <1>3, <1>4

\* The hotel form ends no request, and changes the status of one stop only.
LEMMA HotelFormWrites ==
  ASSUME TourInv, NEW s \in Stops, HotelForm(s)
  PROVE  /\ \A h \in Request : ~Ends(h)
         /\ \A x \in Stops : db'[x].done = db[x].done /\ (x # s => db'[x] = db[x])
<1>1. s \in Rows /\ DOMAIN db = Rows /\ db[s] \in StopRow
  BY Has, StopRows DEF Rows, TourInv, Base
<1>2. db' = [db EXCEPT ![s].status = "PENDING"] /\ UNCHANGED req
  BY DEF HotelForm
<1>3. \A x \in Stops : x # s => db'[x] = db[x]
  BY <1>1, <1>2
<1>4. db'[s] = [db[s] EXCEPT !.status = "PENDING"]
  BY <1>1, <1>2
<1>5. db'[s].done = db[s].done
  BY <1>1, <1>4 DEF StopRow
<1> QED BY <1>2, <1>3, <1>5 DEF Ends

-----------------------------------------------------------------------------
(* What follows for the tour *)

\* A recalculation never takes a tour back: persistRoute holds the tours row
\* before refreshProgress reads tour_status.
THEOREM LockedRefreshesGoForward == Spec => OnlyUnlockedRefreshesMoveBack
<1>1. ASSUME TourInv, [Next]_vars, NEW h \in Request, Ends(h), req[h].op \in Recalculating
      PROVE  /\ db[Tour].status = "COMPLETED" => db'[Tour].status = "COMPLETED"
             /\ db[Tour].status = "IN_PROGRESS" => db'[Tour].status # "PLANNED"
  <2>1. CASE db' = db
    BY <2>1
  <2>2. ASSUME NEW g \in Request, NEW f, Closes(g, f)
        PROVE  /\ db[Tour].status = "COMPLETED" => db'[Tour].status = "COMPLETED"
               /\ db[Tour].status = "IN_PROGRESS" => db'[Tour].status # "PLANNED"
    <3>1. g = h
      BY <1>1, <2>2, OneEnds
    <3>2. req[h].op # "sync"
      BY <1>1 DEF Recalculating
    <3>3. Aware(req[h], own[h], db)
      BY <1>1, Has DEF Sound
    <3>4. db'[Tour].status = db[Tour].status \/ (req[h].pc = "write" /\ db'[Tour].status = req[h].seen)
      BY <1>1, <2>2, <3>1, <3>2, ClosedTour
    <3> QED BY <1>1, <3>3, <3>4 DEF Aware
  <2> QED BY <1>1, <2>1, <2>2, WhoChanges, QuietSteps, HotelFormWrites
<1>2. TourInv /\ [Next]_vars =>
        [\A h \in Request : Ends(h) /\ req[h].op \in Recalculating =>
          /\ db[Tour].status = "COMPLETED" => db'[Tour].status = "COMPLETED"
          /\ db[Tour].status = "IN_PROGRESS" => db'[Tour].status # "PLANNED"]_vars
  BY <1>1
<1> QED BY <1>2, TourStaysSound, PTL DEF Spec, OnlyUnlockedRefreshesMoveBack

\* A tour that is completed was found clear.
LEMMA TourWasClear ==
  ASSUME TourInv, [Next]_vars
  PROVE  CompletionWasClear
<1> SUFFICES ASSUME NEW h \in Request, Ends(h), ~req[h].yes, req[h].was # "COMPLETED",
                    db[Tour].status # "COMPLETED", db'[Tour].status = "COMPLETED",
                    NEW r \in Cargo \cup Hotels, db'[r] \in {"PLANNED", "PICKED_UP", "DAMAGED", "CHECKED_IN"}
             PROVE  db'[r] # req[h].stock[r]
  BY DEF CompletionWasClear
<1>0. PICK g \in Request : \E f : Closes(g, f)
  BY WhoChanges, QuietSteps, HotelFormWrites
<1>1. PICK f : Closes(g, f)
  BY <1>0
<1>2. g = h
  BY <1>1, OneEnds
<1>3. req[h].pc = "write" /\ req[h].seen = "COMPLETED"
  BY <1>1, <1>2, ClosedTour
<1>4. Checked(req[h])
  BY Has DEF Sound
<1> QED BY <1>3, <1>4 DEF Checked, Opening

\* A stop that a sync closed was not blocked.
LEMMA SyncKept ==
  ASSUME TourInv, [Next]_vars
  PROVE  SyncKeepsCargoRules
<1> SUFFICES ASSUME NEW h \in Request, NEW s \in Stops, NEW c \in Cargo,
                    Ends(h), req[h].pc = "commit", req[h].op = "sync", s \in DOMAIN req[h].put,
                    SentClosed(req[h], s), IsDone(own[h][s]), ~IsDone(req[h].prior[s]), BlocksStop(db', c, s)
             PROVE  c \notin DOMAIN own[h] /\ db'[c] # req[h].stock[c]
  BY DEF SyncKeepsCargoRules
<1>1. Closes(h, own[h])
  BY ImportsCommit
<1>2. Ruled(req[h], own[h])
  BY Has DEF Sound
<1>3. ~BlocksStop(req[h].stock, c, s) /\ (c \in DOMAIN own[h] => own[h][c] = req[h].stock[c])
  BY <1>2 DEF Ruled
<1>4. db'[c] # req[h].stock[c]
  BY <1>3 DEF BlocksStop
<1>5. c \in Rows /\ c # Tour
  BY Constants DEF Rows
<1> QED BY <1>1, <1>3, <1>4, <1>5, ClosedRows

\* A tour is completed, and a sync closes a stop, only when the check found
\* nothing in its way (refreshProgress, patchTour's completion check,
\* refuseCargoBlockedCompletions).
THEOREM NothingClosedWasBlocked == Spec => CompletionsWereClear
<1>1. TourInv /\ [Next]_vars => [CompletionWasClear /\ SyncKeepsCargoRules]_vars
  BY TourWasClear, SyncKept
<1> QED BY <1>1, TourStaysSound, PTL DEF Spec, CompletionsWereClear

-----------------------------------------------------------------------------
(* What follows for the stops *)

\* What the invariant says of the stops a request has is what the properties
\* say of the committed ones.
LEMMA CompletionStays ==
  ASSUME TourInv, [Next]_vars
  PROVE  AcceptedCompletionsStand /\ ColumnsPartWhereOneIsWritten
<1>1. ASSUME NEW s \in Stops
      PROVE  \/ db'[s].status = db[s].status /\ db'[s].done = db[s].done
             \/ HotelForm(s) /\ db'[s].done = db[s].done
             \/ \E h \in Request : Ends(h) /\ Follows(req[h], s, db[s], db'[s])
  <2>1. CASE db' = db
    BY <2>1
  <2>2. ASSUME NEW h \in Request, NEW f, Closes(h, f)
        PROVE  \/ db'[s].status = db[s].status /\ db'[s].done = db[s].done
               \/ Ends(h) /\ Follows(req[h], s, db[s], db'[s])
    <3>1. s \in Rows /\ s # Tour
      BY Constants DEF Rows
    <3>2. Kept(req[h], own[h], db)
      BY Has DEF Sound
    <3>3. CASE s \in DOMAIN own[h] /\ db'[s] = own[h][s]
      BY <2>2, <3>2, <3>3, OneEnds DEF Kept
    <3> QED BY <2>2, <3>1, <3>3, ClosedRows
  <2>3. ASSUME NEW x \in Stops, HotelForm(x)
        PROVE  \/ db'[s].status = db[s].status /\ db'[s].done = db[s].done
               \/ HotelForm(s) /\ db'[s].done = db[s].done
    <3>1. db'[s].done = db[s].done /\ (s # x => db'[s] = db[s])
      BY <2>3, HotelFormWrites
    <3>2. CASE s = x
      BY <2>3, <3>1, <3>2
    <3>3. CASE s # x
      BY <3>1, <3>3
    <3> QED BY <3>2, <3>3
  <2> QED BY <2>1, <2>2, <2>3, WhoChanges, QuietSteps
<1>2. AcceptedCompletionsStand
  <2> SUFFICES ASSUME NEW s \in Stops, s \in accepted, IsCompleted(db[s]), ~IsCompleted(db'[s])
               PROVE  \E h \in Request : /\ Ends(h) /\ s \in DOMAIN req[h].put
                                         /\ \/ req[h].op \in {"arrive", "save"}
                                            \/ /\ req[h].op = "sync"
                                               /\ \/ req[h].prior[s].life = "new"
                                                  \/ ~IsCompleted(req[h].prior[s])
    BY DEF AcceptedCompletionsStand
  <2>2. db[s].life # "new" /\ db[s].done /\ ~db'[s].done
    BY DEF TourInv, Told, IsCompleted
  <2>1. PICK h \in Request : Ends(h) /\ Follows(req[h], s, db[s], db'[s])
    BY <1>1, <2>2
  <2>3. Undoing(req[h], s)
    BY <2>1, <2>2 DEF Follows
  <2> QED BY <2>1, <2>3 DEF Undoing
<1>3. ColumnsPartWhereOneIsWritten
  <2> SUFFICES ASSUME NEW s \in Stops, Agree(db[s]), ~Agree(db'[s])
               PROVE  HotelForm(s) \/ \E h \in Request : Ends(h) /\ PartsColumns(req[h], s, db'[s])
    BY DEF ColumnsPartWhereOneIsWritten
  <2>1. ~(db'[s].status = db[s].status /\ db'[s].done = db[s].done)
    BY DEF Agree
  <2>2. CASE HotelForm(s)
    BY <2>2
  <2>3. CASE \E h \in Request : Ends(h) /\ Follows(req[h], s, db[s], db'[s])
    BY <2>3 DEF Follows
  <2> QED BY <1>1, <2>1, <2>2, <2>3
<1> QED BY <1>2, <1>3

\* A completion that the driver was told of is undone by the writers named
\* only, and is_completed and stop_status part only where one of them is written
\* alone, or where they had parted before (markStop, processTour, updateStatus,
\* save-hotel-record: all writers of the two columns).
THEOREM CompletionsStayAccepted == Spec => CompletionsStand
<1>1. TourInv /\ [Next]_vars => [AcceptedCompletionsStand /\ ColumnsPartWhereOneIsWritten]_vars
  BY CompletionStays
<1> QED BY <1>1, TourStaysSound, PTL DEF Spec, CompletionsStand

=============================================================================
