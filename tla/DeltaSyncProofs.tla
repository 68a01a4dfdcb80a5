--------------------------- MODULE DeltaSyncProofs ---------------------------
(***************************************************************************)
(* What the delta sync keeps whatever the rows, the clients and the number  *)
(* of pushes: types, whole batches, locked days, and edits that were        *)
(* replaced.  Everything rests on Shape, the inductive invariant of the     *)
(* push transactions and of the phone's coroutines; Guarded adds what keeps *)
(* locked days, Traced what is known of the edits that are under way.       *)
(***************************************************************************)
EXTENDS DeltaSync, FiniteSetTheorems, TLAPS

-----------------------------------------------------------------------------
(* What pushes, coroutines and rows look like *)

\* A push that is served, as POST /api/sync keeps it.
PushType ==
    [at : {"idle", "check", "write"} \cup Answers, todo : Seq(Record),
     found : UNION {[S -> Nat] : S \in SUBSET Own}, mine : UNION {[S -> RowType] : S \in SUBSET Own},
     bad : SUBSET {"denied", "rejected", "conflict"}]

\* What is pulled has nothing pending.
Fetched == {c \in Copy : ~c.pending}

\* A coroutine of the phone: what it will push, and what it has pulled.
ClientType ==
    [at : {"off", "pull", "push", "wait"}, slot : Slots \cup {None}, left : Nat, batch : Seq(Record),
     pulled : UNION {[S -> Fetched] : S \in SUBSET Works}]

\* What is left of a Scene.
RestType ==
    [row : {None}, batches : SUBSET Seq(Record), pushes : Nat, edits : Nat, syncs : Nat, office : Nat, others : Nat]

\* A batch has a row once.
Distinct(q) == \A i, j \in 1..Len(q) : q[i].row = q[j].row => i = j

\* Only entries are part of a day, in the tables too.
RowsOK == row \in [Rows -> RowType] /\ \A r \in Rows \ Entries : row[r].parent = None

\* A coroutine has a slot while it waits for an answer.
ClientsOK ==
    /\ phone \in [Works -> Copy] /\ sync \in [Syncs -> ClientType]
    /\ \A k \in Syncs : Distinct(sync[k].batch) /\ (sync[k].slot # None <=> sync[k].at = "wait")
    /\ left \in RestType /\ \A b \in left.batches : Distinct(b)

\* The order of POST /api/sync: a row has been found before it is written,
\* what was found decides the revision written, the records that are left
\* have not been looked at, and only a stale record is found without being
\* written.
Orderly(q) ==
    /\ Distinct(q.todo) /\ DOMAIN q.mine \subseteq DOMAIN q.found
    /\ \A r \in DOMAIN q.mine : IF q.found[r] > 0 THEN q.mine[r].rev = q.found[r] + 1 ELSE q.mine[r].rev > 0
    /\ \A r \in DOMAIN q.mine : r \notin Entries => q.mine[r].parent = None
    /\ q.at \notin {"check", "write"} => q.found = Empty /\ q.mine = Empty
    /\ q.at = "check" =>
          /\ \A i \in 1..Len(q.todo) : q.todo[i].row \notin DOMAIN q.found
          /\ "conflict" \notin q.bad => DOMAIN q.found \subseteq DOMAIN q.mine
    /\ q.at = "write" =>
          /\ q.todo # <<>> /\ q.todo[1].row \in DOMAIN q.found \ DOMAIN q.mine
          /\ \A i \in 2..Len(q.todo) : q.todo[i].row \notin DOMAIN q.found
          /\ "conflict" \notin q.bad => DOMAIN q.found \subseteq DOMAIN q.mine \cup {q.todo[1].row}

\* Every push is in order.
PushesOK == req \in [Slots -> PushType] /\ \A s \in Slots : Orderly(req[s])

\* The inductive invariant that every theorem of this module rests on.
Shape == RowsOK /\ ClientsOK /\ PushesOK

\* The first record of a batch and the rest of it.
LEMMA Remainder ==
  ASSUME NEW q \in Seq(Record), q # <<>>
  PROVE  /\ Head(q) = q[1] /\ Head(q) \in Record /\ Tail(q) \in Seq(Record)
         /\ Len(q) \in Nat \ {0} /\ Len(Tail(q)) = Len(q) - 1
         /\ \A i \in 1..Len(Tail(q)) : Tail(q)[i] = q[i + 1]
         /\ \A i \in 1..Len(q) : q[i] \in Record
  OBVIOUS

\* The rest of a batch has each row once, and the first row no more.
LEMMA TailDistinct ==
  ASSUME NEW q \in Seq(Record), q # <<>>, Distinct(q)
  PROVE  Distinct(Tail(q)) /\ \A i \in 1..Len(Tail(q)) : Tail(q)[i].row # q[1].row
  BY Remainder DEF Distinct

\* The pending records of the phone, in any order, have each row once.
LEMMA Permuted ==
  ASSUME NEW S, S \subseteq Record, IsFiniteSet(S), \A a, b \in S : a.row = b.row => a = b,
         NEW q \in SetToAllKPermutations(S)
  PROVE  q \in Seq(Record) /\ Distinct(q)
<1>1. PICK T \in SUBSET S : q \in SetToSeqs(T)
  BY DEF SetToAllKPermutations
<1>2. Cardinality(T) \in Nat
  BY FS_Subset, FS_CardinalityType
<1> DEFINE n == Cardinality(T)
<1>3. q \in [1..n -> T] /\ \A i, j \in 1..n : i # j => q[i] # q[j]
  BY <1>1 DEF SetToSeqs
<1>4. q \in [1..n -> Record]
  BY <1>3
<1>5. q \in Seq(Record) /\ Len(q) = n
  BY <1>2, <1>4
<1>6. ASSUME NEW i \in 1..n, NEW j \in 1..n, q[i].row = q[j].row PROVE i = j
  BY <1>3, <1>6
<1> QED
  BY <1>5, <1>6 DEF Distinct

\* What a transaction sees is a table like the committed one.
LEMMA ViewOK ==
  ASSUME Shape, NEW s \in Slots
  PROVE  View(s) \in [Rows -> RowType] /\ \A r \in Rows \ Entries : View(s)[r].parent = None
<1>1. req[s] \in PushType /\ Orderly(req[s])
  BY DEF Shape, PushesOK
<1>2. \A r \in DOMAIN req[s].mine : req[s].mine[r] \in RowType
  BY <1>1 DEF PushType
<1> QED
  BY <1>1, <1>2 DEF View, Shape, RowsOK, Orderly

\* applyChange ends in one of four ways (sync.routes.js 290-340).
LEMMA VerdictOK ==
  ASSUME NEW v, NEW rec
  PROVE  Verdict(v, rec) \in {"denied", "rejected", "conflict", "write"}
  BY DEF Verdict

\* The revision of another driver's row is not even looked at.
LEMMA FoundIsOwn ==
  ASSUME NEW v, NEW rec, Verdict(v, rec) \in {"conflict", "write"}
  PROVE  rec.row \in Own
  BY DEF Verdict, Foreign

-----------------------------------------------------------------------------
(* Shape is kept by the steps of a push *)

\* A slot that serves nothing, or holds an answer, is in order.
LEMMA IdleOK == Idle \in PushType /\ Orderly(Idle) /\ \A a \in Answers : [Idle EXCEPT !.at = a] \in PushType /\ Orderly([Idle EXCEPT !.at = a])
<1>1. Empty \in [{} -> Nat] /\ Empty \in [{} -> RowType] /\ DOMAIN Empty = {}
  BY DEF Empty
<1>2. <<>> \in Seq(Record) /\ Len(<<>>) = 0
  OBVIOUS
<1>3. Idle.at = "idle" /\ Idle.todo = <<>> /\ Idle.found = Empty /\ Idle.mine = Empty /\ Idle.bad = {}
  BY DEF Idle
<1>4. \A a \in Answers \cup {"idle"} :
        [at |-> a, todo |-> <<>>, found |-> Empty, mine |-> Empty, bad |-> {}] \in PushType
  BY <1>1, <1>2 DEF PushType
<1>5. \A a \in Answers \cup {"idle"} : Orderly([at |-> a, todo |-> <<>>, found |-> Empty, mine |-> Empty, bad |-> {}])
  BY <1>1, <1>2 DEF Orderly, Distinct, Answers
<1>6. \A a : [Idle EXCEPT !.at = a] = [at |-> a, todo |-> <<>>, found |-> Empty, mine |-> Empty, bad |-> {}]
  BY DEF Idle
<1> QED
  BY <1>4, <1>5, <1>6 DEF Idle

\* BEGIN keeps the pushes in order.
LEMMA AcceptOK ==
  ASSUME PushesOK, NEW s \in Slots, NEW b \in Seq(Record), Distinct(b), Accept(s, b)
  PROVE  PushesOK'
<1> DEFINE q == [Idle EXCEPT !.at = "check", !.todo = b]
<1>1. req' = [req EXCEPT ![s] = q]
  BY DEF Accept
<1>2. q \in PushType /\ q.at = "check" /\ q.todo = b /\ q.found = Empty /\ q.mine = Empty
  <2>1. Idle \in PushType /\ Idle.found = Empty /\ Idle.mine = Empty
    BY IdleOK DEF Idle
  <2> QED
    BY <2>1 DEF PushType
<1>3. DOMAIN Empty = {}
  BY DEF Empty
<1> HIDE DEF q
<1>4. Orderly(q)
  BY <1>2, <1>3 DEF Orderly
<1> QED
  BY <1>1, <1>2, <1>4 DEF PushesOK

\* A record looked at, and let through or not, keeps the pushes in order.
LEMMA CheckOK ==
  ASSUME Shape, NEW s \in Slots, Check(s)
  PROVE  PushesOK' /\ Orderly(req'[s])
<1> DEFINE q == req[s]
           rec == Head1(s)
           verdict == Verdict(View(s), rec)
           f == IF verdict \in {"write", "conflict"} THEN {rec.row} ELSE {}
           found == [r \in DOMAIN q.found \cup f |-> IF r \in f THEN row[r].rev ELSE q.found[r]]
           at == IF verdict = "write" THEN "write" ELSE q.at
           todo == IF verdict = "write" THEN q.todo ELSE Tail(q.todo)
           bad == IF verdict = "write" THEN q.bad ELSE q.bad \cup {verdict}
           n == [q EXCEPT !.found = found, !.at = at, !.todo = todo, !.bad = bad]
<1>1. q \in PushType /\ Orderly(q) /\ q.at = "check" /\ q.todo # <<>> /\ q.todo \in Seq(Record)
  BY DEF Shape, PushesOK, Check, PushType
<1>2. rec = q.todo[1] /\ rec \in Record /\ rec.row \in Rows
  BY <1>1, Remainder DEF Head1, Record
<1>3. req' = [req EXCEPT ![s] = n]
  <2>1. req' = [req EXCEPT ![s].found = found, ![s].at = at, ![s].todo = todo, ![s].bad = bad]
    BY DEF Check
  <2> HIDE DEF found, at, todo, bad
  <2>2. req \in [Slots -> PushType]
    BY DEF Shape, PushesOK
  <2> QED
    BY <2>1, <2>2
<1>4. verdict \in {"denied", "rejected", "conflict", "write"} /\ f \subseteq Own
  BY VerdictOK, FoundIsOwn
<1>5. Own \subseteq Rows /\ \A r \in Rows : row[r].rev \in Nat
  BY DeltaSyncAssumption DEF Shape, RowsOK, RowType
<1> HIDE DEF verdict
<1>6. found \in UNION {[S -> Nat] : S \in SUBSET Own}
  <2>1. q.found \in UNION {[S -> Nat] : S \in SUBSET Own}
    BY <1>1 DEF PushType
  <2>2. DOMAIN q.found \subseteq Own /\ \A r \in DOMAIN q.found : q.found[r] \in Nat
    BY <2>1
  <2>3. found \in [DOMAIN q.found \cup f -> Nat]
    BY <1>4, <1>5, <2>2
  <2>4. DOMAIN q.found \cup f \in SUBSET Own
    BY <1>4, <2>2
  <2> HIDE DEF found, f
  <2> QED
    BY <2>3, <2>4
<1>7. n \in PushType /\ n.at = at /\ n.todo = todo /\ n.found = found /\ n.mine = q.mine /\ n.bad = bad
  <2>1. todo \in Seq(Record) /\ at \in {"check", "write"} /\ bad \in SUBSET {"denied", "rejected", "conflict"}
    BY <1>1, <1>4, Remainder DEF PushType
  <2>2. q.mine \in UNION {[S -> RowType] : S \in SUBSET Own}
    BY <1>1 DEF PushType
  <2> HIDE DEF found, at, todo, bad
  <2> QED
    BY <1>1, <1>6, <2>1, <2>2 DEF PushType
<1> HIDE DEF n
<1>8. Orderly(n)
  <2>1. Distinct(Tail(q.todo)) /\ \A i \in 1..Len(Tail(q.todo)) : Tail(q.todo)[i].row # rec.row
    BY <1>1, <1>2, TailDistinct DEF Orderly
  <2>2. /\ Len(q.todo) \in Nat \ {0} /\ Len(Tail(q.todo)) = Len(q.todo) - 1
        /\ \A i \in 1..Len(Tail(q.todo)) : Tail(q.todo)[i] = q.todo[i + 1]
    BY <1>1, Remainder
  <2>3. \A i \in 1..Len(q.todo) : q.todo[i].row \notin DOMAIN q.found
    BY <1>1 DEF Orderly
  <2>4. Distinct(q.todo) /\ \A i \in 2..Len(q.todo) : q.todo[i].row # rec.row
    BY <1>1, <1>2, <2>2 DEF Orderly, Distinct
  <2>5. DOMAIN q.mine \subseteq DOMAIN q.found /\ rec.row \notin DOMAIN q.found
    BY <1>1, <1>2, <2>2, <2>3 DEF Orderly
  <2>6. \A r \in DOMAIN q.mine : /\ found[r] = q.found[r]
                                 /\ IF q.found[r] > 0 THEN q.mine[r].rev = q.found[r] + 1 ELSE q.mine[r].rev > 0
                                 /\ r \notin Entries => q.mine[r].parent = None
    BY <1>1, <2>5 DEF Orderly
  <2>7. DOMAIN found = DOMAIN q.found \cup f
    OBVIOUS
  <2>8. "conflict" \notin q.bad => DOMAIN q.found \subseteq DOMAIN q.mine
    BY <1>1 DEF Orderly
  <2>9. CASE verdict = "write"
    <3>1. at = "write" /\ todo = q.todo /\ bad = q.bad /\ f = {rec.row}
      BY <2>9
    <3> HIDE DEF at, todo, bad, f, found
    <3> QED
      BY <1>1, <1>2, <2>2, <2>3, <2>4, <2>5, <2>6, <2>7, <2>8, <3>1, <1>7 DEF Orderly
  <2>10. CASE verdict # "write"
    <3>1. at = "check" /\ todo = Tail(q.todo) /\ bad = q.bad \cup {verdict} /\ f \subseteq {rec.row}
      BY <1>1, <2>10
    <3>2. verdict # "conflict" => f = {}
      BY <2>10
    <3>3. \A i \in 1..Len(Tail(q.todo)) : Tail(q.todo)[i].row \notin DOMAIN q.found \cup {rec.row}
      BY <2>1, <2>2, <2>3
    <3> HIDE DEF at, todo, bad, f, found
    <3> QED
      BY <2>1, <2>5, <2>6, <2>7, <2>8, <3>1, <3>2, <3>3, <1>7 DEF Orderly
  <2> QED
    BY <2>9, <2>10
<1>9. req'[s] = n
  BY <1>3 DEF Shape, PushesOK
<1> QED
  BY <1>3, <1>7, <1>8, <1>9 DEF Shape, PushesOK

\* What the upsert makes of the row: it stays a row, it does not touch the
\* lock, and it counts on from what was found.
LEMMA UpsertedOK ==
  ASSUME Shape, NEW s \in Slots, req[s].at = "write"
  PROVE  /\ Upserted(s) \in RowType /\ Upserted(s).locked = row[Head1(s).row].locked
         /\ Head1(s).row \notin Entries => Upserted(s).parent = None
         /\ Head1(s).row \in Own /\ Head1(s) = req[s].todo[1] /\ Head1(s) \in Record
         /\ Upserted(s).rev = Counted(Head1(s), req[s].found[Head1(s).row])
         /\ Upserted(s).edit = Head1(s).edit
         /\ req[s].found[Head1(s).row] \in Nat
<1>1. /\ req[s] \in PushType /\ Orderly(req[s]) /\ req[s].todo # <<>> /\ req[s].todo \in Seq(Record)
      /\ req[s].todo[1].row \in DOMAIN req[s].found
  BY DEF Shape, PushesOK, PushType, Orderly
<1> DEFINE rec == Head1(s)
<1>2. rec = req[s].todo[1] /\ rec \in Record /\ rec.row \in Rows /\ rec.base \in Nat /\ rec.edit \in Nat
      /\ rec.parent \in Days \cup {None} /\ (rec.row \notin Entries => rec.parent = None)
  BY <1>1, Remainder DEF Head1, Record
<1>3. req[s].found \in UNION {[S -> Nat] : S \in SUBSET Own}
  BY <1>1 DEF PushType
<1>4. req[s].found[rec.row] \in Nat /\ rec.row \in Own
  BY <1>1, <1>2, <1>3
<1>5. Counted(rec, req[s].found[rec.row]) \in Nat
  BY <1>2, <1>4 DEF Counted
<1>6. row[rec.row] \in RowType /\ (rec.row \notin Entries => row[rec.row].parent = None)
  BY <1>2 DEF Shape, RowsOK
<1> DEFINE o == row[rec.row]
           c == Counted(rec, req[s].found[rec.row])
           day == IF rec.parent = None THEN o.parent ELSE rec.parent
<1>7. Upserted(s) = [o EXCEPT !.rev = c, !.edit = rec.edit, !.stamped = TRUE, !.parent = day]
  BY DEF Upserted
<1>8. o \in RowType /\ c \in Nat /\ rec.edit \in Nat /\ day \in Days \cup {None}
  BY <1>2, <1>5, <1>6 DEF RowType
<1>9. rec.row \notin Entries => day = None
  BY <1>2, <1>6
<1> HIDE DEF o, c, day
<1>10. Upserted(s) \in RowType /\ Upserted(s).locked = o.locked /\ Upserted(s).rev = c /\ Upserted(s).edit = rec.edit
       /\ Upserted(s).parent = day
  BY <1>7, <1>8 DEF RowType
<1> QED
  BY <1>2, <1>4, <1>9, <1>10 DEF o, c

\* The upsert keeps the pushes in order.
LEMMA WriteOK ==
  ASSUME Shape, NEW s \in Slots, Write(s)
  PROVE  PushesOK'
<1> DEFINE q == req[s]
           rec == Head1(s)
           u == Upserted(s)
           mine == [r \in DOMAIN q.mine \cup {rec.row} |-> IF r = rec.row THEN u ELSE q.mine[r]]
           n == [q EXCEPT !.at = "check", !.todo = Tail(q.todo), !.mine = mine]
<1>1. q \in PushType /\ Orderly(q) /\ q.at = "write" /\ q.todo # <<>> /\ q.todo \in Seq(Record)
  BY DEF Shape, PushesOK, Write, PushType, Orderly
<1>2. /\ u \in RowType /\ rec.row \in Own /\ rec = q.todo[1] /\ rec \in Record /\ q.found[rec.row] \in Nat
      /\ u.rev = Counted(rec, q.found[rec.row]) /\ (rec.row \notin Entries => u.parent = None)
  BY <1>1, UpsertedOK
<1> HIDE DEF u, rec
<1>3. req' = [req EXCEPT ![s] = n]
  <2>1. req' = [req EXCEPT ![s].at = "check", ![s].todo = Tail(q.todo), ![s].mine = mine]
    BY DEF Write, u, rec
  <2>2. req \in [Slots -> PushType]
    BY DEF Shape, PushesOK
  <2> HIDE DEF mine
  <2> QED
    BY <2>1, <2>2
<1>4. q.mine \in UNION {[S -> RowType] : S \in SUBSET Own}
  BY <1>1 DEF PushType
<1>5. mine \in UNION {[S -> RowType] : S \in SUBSET Own}
  <2>1. DOMAIN q.mine \subseteq Own /\ \A r \in DOMAIN q.mine : q.mine[r] \in RowType
    BY <1>4
  <2>2. mine \in [DOMAIN q.mine \cup {rec.row} -> RowType]
    BY <1>2, <2>1
  <2>3. DOMAIN q.mine \cup {rec.row} \in SUBSET Own
    BY <1>2, <2>1
  <2> HIDE DEF mine
  <2> QED
    BY <2>2, <2>3
<1>6. n \in PushType /\ n.at = "check" /\ n.todo = Tail(q.todo) /\ n.found = q.found /\ n.mine = mine /\ n.bad = q.bad
  <2>1. Tail(q.todo) \in Seq(Record)
    BY <1>1, Remainder
  <2> HIDE DEF mine
  <2> QED
    BY <1>1, <1>5, <2>1 DEF PushType
<1> HIDE DEF n
<1>7. Orderly(n)
  <2>1. Distinct(Tail(q.todo))
    BY <1>1, TailDistinct DEF Orderly
  <2>2. /\ Len(q.todo) \in Nat \ {0} /\ Len(Tail(q.todo)) = Len(q.todo) - 1
        /\ \A i \in 1..Len(Tail(q.todo)) : Tail(q.todo)[i] = q.todo[i + 1]
    BY <1>1, Remainder
  <2>3. /\ rec.row \in DOMAIN q.found \ DOMAIN q.mine /\ DOMAIN q.mine \subseteq DOMAIN q.found
        /\ \A i \in 2..Len(q.todo) : q.todo[i].row \notin DOMAIN q.found
        /\ "conflict" \notin q.bad => DOMAIN q.found \subseteq DOMAIN q.mine \cup {rec.row}
    BY <1>1, <1>2 DEF Orderly
  <2>4. \A i \in 1..Len(Tail(q.todo)) : Tail(q.todo)[i].row \notin DOMAIN q.found
    BY <2>2, <2>3
  <2>5. DOMAIN mine = DOMAIN q.mine \cup {rec.row}
    OBVIOUS
  <2>6. \A r \in DOMAIN mine : /\ IF q.found[r] > 0 THEN mine[r].rev = q.found[r] + 1 ELSE mine[r].rev > 0
                               /\ r \notin Entries => mine[r].parent = None
    <3> SUFFICES ASSUME NEW r \in DOMAIN mine
                 PROVE  /\ IF q.found[r] > 0 THEN mine[r].rev = q.found[r] + 1 ELSE mine[r].rev > 0
                        /\ r \notin Entries => mine[r].parent = None
      OBVIOUS
    <3>1. CASE r = rec.row
      <4>1. rec.base \in Nat
        BY <1>2 DEF Record
      <4> QED
        BY <1>2, <3>1, <4>1 DEF Counted
    <3>2. CASE r # rec.row
      BY <1>1, <3>2 DEF Orderly
    <3> QED
      BY <3>1, <3>2
  <2> HIDE DEF mine
  <2> QED
    BY <1>6, <2>1, <2>3, <2>4, <2>5, <2>6 DEF Orderly
<1> QED
  BY <1>3, <1>6, <1>7 DEF Shape, PushesOK

-----------------------------------------------------------------------------
(* Shape is kept by the other writers and by the phone *)

\* Using up a part of the Scene leaves a Scene.
LEMMA UseOK ==
  ASSUME ClientsOK, NEW kind \in {"pushes", "edits", "syncs", "office", "others"}, Use(kind)
  PROVE  left' \in RestType /\ left'.batches = left.batches /\ left'.edits <= left.edits
         /\ (kind = "edits" => left'.edits = left.edits - 1 /\ left.edits > 0)
         /\ \A b \in left'.batches : Distinct(b)
<1>1. left \in RestType /\ left[kind] \in Nat \ {0}
  BY DEF ClientsOK, Use, RestType
<1>2. left' = [left EXCEPT ![kind] = left[kind] - 1] /\ left[kind] - 1 \in Nat
  BY <1>1 DEF Use
<1>3. left' \in RestType /\ left'.batches = left.batches
  BY <1>1, <1>2 DEF RestType
<1>4. left'.edits <= left.edits /\ (kind = "edits" => left'.edits = left.edits - 1 /\ left.edits > 0)
  BY <1>1, <1>2 DEF RestType
<1> QED
  BY <1>3, <1>4 DEF ClientsOK

\* The writers of the same tables besides the pushes.
OthersWrite ==
    \/ \E d \in Days, entries \in {{}, Entries}, locks \in BOOLEAN : Decide(d, entries, locks)
    \/ \E e \in Entries, office \in BOOLEAN : Correct(e, office)
    \/ \E w \in Works : EnginePeriod(w) \/ SyncWorktimes(w)

\* The other writers only count revisions up, leave the rows that a push
\* holds alone, move no entry, and their edits of periods are none of the
\* phone.
LEMMA OthersWriteRows ==
  ASSUME RowsOK, ClientsOK, OthersWrite
  PROVE  /\ RowsOK' /\ ClientsOK' /\ UNCHANGED <<req, phone, sync>>
         /\ stored' = stored \cup Held(row') /\ shut' = StillLocked(row') /\ left'.batches = left.batches /\ left'.edits <= left.edits
         /\ \A r \in Rows : row'[r].parent = row[r].parent /\ (row'[r].rev = row[r].rev \/ row'[r].rev > row[r].rev)
         /\ \A s \in Slots : \A r \in Rows \cap DOMAIN req[s].mine : row'[r] = row[r]
         /\ \A w \in Works : row'[w] # row[w] => row'[w].edit = 0
<1>0. DeltaSyncAssumption
  BY DeltaSyncAssumption
<1>1. row \in [Rows -> RowType] /\ \A r \in Rows \ Entries : row[r].parent = None
  BY DEF RowsOK
<1>2. ASSUME \E kind \in {"office", "others"} : \E new : Other(kind, new)
      PROVE  ClientsOK' /\ UNCHANGED <<req, phone, sync>> /\ stored' = stored \cup Held(row') /\ shut' = StillLocked(row')
             /\ left'.batches = left.batches /\ left'.edits <= left.edits
  <2>1. PICK kind \in {"office", "others"} : \E new : Other(kind, new)
    BY <1>2
  <2>2. left' \in RestType /\ left'.batches = left.batches /\ left'.edits <= left.edits
    BY <2>1, UseOK DEF Other
  <2> QED
    BY <2>1, <2>2 DEF Other, ClientsOK
<1>3. ASSUME NEW d \in Days, NEW entries \in {{}, Entries}, NEW locks \in BOOLEAN, Decide(d, entries, locks)
      PROVE  /\ RowsOK'
             /\ \A r \in Rows : row'[r].parent = row[r].parent /\ (row'[r].rev = row[r].rev \/ row'[r].rev > row[r].rev)
             /\ \A s \in Slots : \A r \in Rows \cap DOMAIN req[s].mine : row'[r] = row[r]
             /\ \A w \in Works : row'[w] = row[w]
             /\ \E kind \in {"office", "others"} : \E new : Other(kind, new)
  <2> DEFINE parts == {d} \cup {e \in entries : row[e].rev > 0 /\ row[e].parent = d}
             new == [r \in Rows |-> IF r \in parts THEN [row[r] EXCEPT !.rev = @ + 1, !.locked = r = d /\ locks] ELSE row[r]]
  <2>1. Other("office", new) /\ Free(parts) /\ row' = new
    BY <1>3 DEF Decide, Other
  <2>2. parts \subseteq Days \cup Entries
    OBVIOUS
  <2> HIDE DEF parts
  <2>3. \A r \in Rows : IF r \in parts THEN row'[r] = [row[r] EXCEPT !.rev = row[r].rev + 1, !.locked = r = d /\ locks] ELSE row'[r] = row[r]
    BY <2>1
  <2>4. \A r \in Rows : row'[r] \in RowType /\ row'[r].parent = row[r].parent /\ (r \in parts => row'[r].rev = row[r].rev + 1)
    <3> SUFFICES ASSUME NEW r \in Rows PROVE row'[r] \in RowType /\ row'[r].parent = row[r].parent /\ (r \in parts => row'[r].rev = row[r].rev + 1)
      OBVIOUS
    <3>1. row[r] \in RowType /\ (r = d /\ locks) \in BOOLEAN
      BY <1>1
    <3>2. row[r].rev + 1 \in Nat
      BY <3>1 DEF RowType
    <3> DEFINE l == r = d /\ locks
               n == row[r].rev + 1
               o == [row[r] EXCEPT !.rev = n, !.locked = l]
    <3>3. IF r \in parts THEN row'[r] = o ELSE row'[r] = row[r]
      BY <2>3
    <3> HIDE DEF l, n
    <3>4. o \in RowType /\ o.parent = row[r].parent /\ o.rev = n
      BY <3>1, <3>2 DEF RowType, l, n
    <3> HIDE DEF o
    <3> QED
      BY <3>1, <3>3, <3>4 DEF n
  <2>5. row' \in [Rows -> RowType]
    BY <2>1, <2>4
  <2>6. RowsOK'
    BY <1>1, <2>4, <2>5 DEF RowsOK
  <2>7. \A r \in Rows : row'[r].rev = row[r].rev \/ row'[r].rev > row[r].rev
    <3>1. \A r \in Rows : row[r].rev \in Nat
      BY <1>1 DEF RowType
    <3>2. \A r \in Rows \ parts : row'[r] = row[r]
      BY <2>3
    <3>3. \A r \in parts : r \in Rows => row'[r].rev > row[r].rev
      BY <2>4, <3>1
    <3> QED
      BY <3>2, <3>3
  <2>8. \A s \in Slots : \A r \in Rows \cap DOMAIN req[s].mine : row'[r] = row[r]
    BY <2>1, <2>3 DEF Free
  <2>9. \A w \in Works : row'[w] = row[w]
    BY <1>0, <2>2, <2>3 DEF DeltaSyncAssumption, Rows
  <2> HIDE DEF new
  <2> QED
    BY <2>1, <2>4, <2>6, <2>7, <2>8, <2>9
<1>4. ASSUME NEW e \in Entries, NEW office \in BOOLEAN, Correct(e, office)
      PROVE  /\ RowsOK'
             /\ \A r \in Rows : row'[r].parent = row[r].parent /\ (row'[r].rev = row[r].rev \/ row'[r].rev > row[r].rev)
             /\ \A s \in Slots : \A r \in Rows \cap DOMAIN req[s].mine : row'[r] = row[r]
             /\ \A w \in Works : row'[w] = row[w]
             /\ \E kind \in {"office", "others"} : \E new : Other(kind, new)
  <2> DEFINE d == row[e].parent
             new == [row EXCEPT ![e].rev = @ + 1, ![e].edit = 0, ![d].rev = @ + 1]
  <2>1. Other("office", new) /\ Free({e, d}) /\ row' = new /\ d # None
    BY <1>4 DEF Correct, Other
  <2>2. e \in Rows /\ d \in Days /\ d \in Rows /\ d # e /\ row[e] \in RowType /\ row[d] \in RowType
    BY <1>0, <1>1, <2>1 DEF Rows, RowType, DeltaSyncAssumption
  <2> DEFINE new1 == [row EXCEPT ![e] = [row[e] EXCEPT !.rev = row[e].rev + 1, !.edit = 0]]
  <2> HIDE DEF d
  <2>3. new = [new1 EXCEPT ![d] = [row[d] EXCEPT !.rev = row[d].rev + 1]]
    BY <1>1, <2>2
  <2>4. [row[e] EXCEPT !.rev = row[e].rev + 1, !.edit = 0] \in RowType
        /\ [row[e] EXCEPT !.rev = row[e].rev + 1, !.edit = 0].parent = row[e].parent
        /\ [row[e] EXCEPT !.rev = row[e].rev + 1, !.edit = 0].rev = row[e].rev + 1
    <3>1. row[e].rev + 1 \in Nat
      BY <2>2 DEF RowType
    <3>2. \A n \in Nat : LET o == [row[e] EXCEPT !.rev = n, !.edit = 0] IN
             o \in RowType /\ o.parent = row[e].parent /\ o.rev = n
      BY <2>2 DEF RowType
    <3> QED
      BY <3>1, <3>2
  <2>5. [row[d] EXCEPT !.rev = row[d].rev + 1] \in RowType
        /\ [row[d] EXCEPT !.rev = row[d].rev + 1].parent = row[d].parent
        /\ [row[d] EXCEPT !.rev = row[d].rev + 1].rev = row[d].rev + 1
    BY <2>2 DEF RowType
  <2>6. row' \in [Rows -> RowType] /\ \A r \in Rows : row'[r].parent = row[r].parent
    BY <1>1, <2>1, <2>2, <2>3, <2>4, <2>5
  <2>7. \A r \in Rows : row'[r].rev = row[r].rev \/ row'[r].rev > row[r].rev
    BY <1>1, <2>1, <2>2, <2>3, <2>4, <2>5 DEF RowType
  <2>8. \A r \in Rows \ {e, d} : row'[r] = row[r]
    BY <1>1, <2>1, <2>2, <2>3
  <2>9. \A s \in Slots : \A r \in Rows \cap DOMAIN req[s].mine : row'[r] = row[r]
    BY <2>1, <2>8 DEF Free
  <2>10. \A w \in Works : row'[w] = row[w]
    BY <1>0, <2>2, <2>8 DEF DeltaSyncAssumption, Rows
  <2>11. RowsOK'
    BY <1>1, <2>6 DEF RowsOK
  <2> HIDE DEF new
  <2> QED
    BY <2>1, <2>6, <2>7, <2>9, <2>10, <2>11
<1>5. ASSUME NEW w \in Works, EnginePeriod(w) \/ SyncWorktimes(w)
      PROVE  /\ RowsOK'
             /\ \A r \in Rows : row'[r].parent = row[r].parent /\ (row'[r].rev = row[r].rev \/ row'[r].rev > row[r].rev)
             /\ \A s \in Slots : \A r \in Rows \cap DOMAIN req[s].mine : row'[r] = row[r]
             /\ \A v \in Works : row'[v] # row[v] => row'[v].edit = 0
             /\ \E kind \in {"office", "others"} : \E new : Other(kind, new)
  <2>1. w \in Rows /\ row[w] \in RowType /\ row[w].rev \in Nat
    BY <1>1 DEF Rows, RowType
  <2>2. PICK n \in Nat, t \in BOOLEAN :
          /\ n = row[w].rev \/ n > row[w].rev
          /\ row' = [row EXCEPT ![w] = [row[w] EXCEPT !.rev = n, !.edit = 0, !.stamped = t]]
          /\ Free({w}) /\ \E new : Other("others", new)
    <3>1. CASE EnginePeriod(w)
      <4> DEFINE n == IF row[w].rev = 0 THEN 1 ELSE row[w].rev
                 o == [row[w] EXCEPT !.rev = n, !.edit = 0]
      <4>1. Free({w}) /\ Other("others", [row EXCEPT ![w].rev = n, ![w].edit = 0])
        BY <3>1 DEF EnginePeriod
      <4>2. row' = [row EXCEPT ![w].rev = n, ![w].edit = 0]
        BY <4>1 DEF Other
      <4>3. n \in Nat /\ (n = row[w].rev \/ n > row[w].rev) /\ row[w].stamped \in BOOLEAN
        BY <2>1 DEF RowType
      <4> HIDE DEF n
      <4>4. row' = [row EXCEPT ![w] = o]
        BY <1>1, <2>1, <4>2
      <4>5. o = [row[w] EXCEPT !.rev = n, !.edit = 0, !.stamped = row[w].stamped]
        <5> DEFINE o1 == [row[w] EXCEPT !.rev = n, !.edit = 0, !.stamped = row[w].stamped]
        <5>1. o \in RowType /\ o1 \in RowType /\ o.rev = o1.rev /\ o.edit = o1.edit /\ o.stamped = o1.stamped
              /\ o.parent = o1.parent /\ o.locked = o1.locked
          BY <2>1, <4>3 DEF RowType
        <5> HIDE DEF o, o1
        <5>2. o = o1
          BY <5>1 DEF RowType
        <5> QED
          BY <5>2 DEF o1
      <4> HIDE DEF o
      <4> QED
        BY <4>1, <4>3, <4>4, <4>5
    <3>2. CASE SyncWorktimes(w)
      <4> DEFINE n == row[w].rev + 1
                 o == [row[w] EXCEPT !.rev = n, !.edit = 0, !.stamped = TRUE]
      <4>1. Free({w}) /\ Other("others", [row EXCEPT ![w].rev = n, ![w].edit = 0, ![w].stamped = TRUE])
        BY <3>2 DEF SyncWorktimes
      <4>2. row' = [row EXCEPT ![w].rev = n, ![w].edit = 0, ![w].stamped = TRUE]
        BY <4>1 DEF Other
      <4>3. n \in Nat /\ n > row[w].rev
        BY <2>1
      <4> HIDE DEF n
      <4>4. row' = [row EXCEPT ![w] = o]
        BY <1>1, <2>1, <4>2
      <4> QED
        BY <4>1, <4>3, <4>4
    <3> QED
      BY <1>5, <3>1, <3>2
  <2> DEFINE o == [row[w] EXCEPT !.rev = n, !.edit = 0, !.stamped = t]
  <2>3. o \in RowType /\ o.parent = row[w].parent /\ o.rev = n /\ o.edit = 0
    BY <2>1 DEF RowType
  <2>4. row' = [row EXCEPT ![w] = o]
    BY <2>2
  <2> HIDE DEF o
  <2>5. row' \in [Rows -> RowType] /\ \A r \in Rows : row'[r].parent = row[r].parent /\ (row'[r].rev = row[r].rev \/ row'[r].rev > row[r].rev)
    BY <1>1, <2>1, <2>2, <2>3, <2>4
  <2>6. \A r \in Rows \ {w} : row'[r] = row[r]
    BY <1>1, <2>4
  <2>7. \A s \in Slots : \A r \in Rows \cap DOMAIN req[s].mine : row'[r] = row[r]
    BY <2>2, <2>6 DEF Free
  <2>8. \A v \in Works : row'[v] # row[v] => row'[v].edit = 0
    BY <1>1, <2>3, <2>4 DEF Rows
  <2>9. RowsOK'
    BY <1>1, <2>5 DEF RowsOK
  <2> QED
    BY <2>2, <2>5, <2>7, <2>8, <2>9
<1>6. CASE \E d \in Days, entries \in {{}, Entries}, locks \in BOOLEAN : Decide(d, entries, locks)
  BY <1>2, <1>3, <1>6
<1>7. CASE \E e \in Entries, office \in BOOLEAN : Correct(e, office)
  BY <1>2, <1>4, <1>7
<1>8. CASE \E w \in Works : EnginePeriod(w) \/ SyncWorktimes(w)
  <2>1. PICK w \in Works : EnginePeriod(w) \/ SyncWorktimes(w)
    BY <1>8
  <2> QED
    BY <1>2, <1>5, <2>1
<1> QED
  BY <1>6, <1>7, <1>8 DEF OthersWrite

\* A coroutine that has not begun.
LEMMA OffOK == Off \in ClientType /\ Distinct(Off.batch) /\ Off.slot = None /\ Off.at = "off"
<1>1. Empty \in UNION {[S -> Fetched] : S \in SUBSET Works}
  <2>1. Empty \in [{} -> Fetched] /\ {} \in SUBSET Works
    BY DEF Empty
  <2> QED
    BY <2>1
<1>2. <<>> \in Seq(Record) /\ Len(<<>>) = 0
  OBVIOUS
<1>3. Off.at = "off" /\ Off.slot = None /\ Off.batch = <<>>
  BY DEF Off
<1>4. Off \in ClientType
  BY <1>1, <1>2 DEF Off, ClientType
<1>5. Distinct(<<>>)
  BY <1>2 DEF Distinct
<1> QED
  BY <1>3, <1>4, <1>5

\* A step of one coroutine keeps the others as they are.
LEMMA OneClientOK ==
  ASSUME ClientsOK, NEW k \in Syncs, NEW c \in ClientType, Distinct(c.batch), c.slot # None <=> c.at = "wait",
         sync' = [sync EXCEPT ![k] = c], phone' \in [Works -> Copy],
         left' \in RestType, \A b \in left'.batches : Distinct(b)
  PROVE  ClientsOK'
  BY DEF ClientsOK

\* retryWithBackoff keeps the batch, and forgets the answer it waited for.
LEMMA RetriedOK ==
  ASSUME ClientsOK, NEW k \in Syncs
  PROVE  /\ Retried(k) \in ClientType /\ Distinct(Retried(k).batch)
         /\ Retried(k).slot = None /\ Retried(k).at \in {"off", "pull"}
         /\ Retried(k) = Off \/ Retried(k).batch = sync[k].batch
<1>1. sync[k] \in ClientType /\ Distinct(sync[k].batch)
  BY DEF ClientsOK
<1>2. CASE sync[k].left = 0
  BY <1>2, OffOK DEF Retried
<1>3. CASE sync[k].left # 0
  <2> DEFINE n == sync[k].left - 1
             c == [sync[k] EXCEPT !.at = "pull", !.left = n, !.slot = None]
  <2>1. n \in Nat
    BY <1>1, <1>3 DEF ClientType
  <2>2. Retried(k) = c
    BY <1>3 DEF Retried
  <2> HIDE DEF n
  <2>3. c \in ClientType /\ c.batch = sync[k].batch /\ c.slot = None /\ c.at = "pull"
    BY <1>1, <2>1 DEF ClientType
  <2> QED
    BY <1>1, <2>2, <2>3
<1> QED
  BY <1>2, <1>3

\* syncRemoteWorkTimes replaces copies by ones without anything pending.
LEMMA PulledOK ==
  ASSUME ClientsOK, NEW k \in Syncs
  PROVE  Pulled(k) \in [Works -> Copy] /\ \A w \in Works : Pulled(k)[w] = phone[w] \/ ~Pulled(k)[w].pending
<1>1. phone \in [Works -> Copy] /\ sync[k].pulled \in UNION {[S -> Fetched] : S \in SUBSET Works}
  BY DEF ClientsOK, ClientType
<1>2. \A w \in DOMAIN sync[k].pulled : sync[k].pulled[w] \in Copy /\ ~sync[k].pulled[w].pending
  BY <1>1 DEF Fetched
<1> QED
  BY <1>1, <1>2 DEF Pulled

\* updateStatus keeps the phone's tables in order.
LEMMA EditClients ==
  ASSUME ClientsOK, NEW w \in Works, Edit(w)
  PROVE  ClientsOK'
<1>1. left' \in RestType /\ left.edits \in Nat /\ \A b \in left'.batches : Distinct(b)
  BY UseOK DEF Edit, ClientsOK, RestType
<1> DEFINE n == IF phone[w].rev = 0 THEN 1 ELSE phone[w].rev
           c == [rev |-> n, edit |-> left.edits, pending |-> TRUE]
<1>2. phone' = [phone EXCEPT ![w] = c]
  BY DEF Edit
<1>3. phone \in [Works -> Copy] /\ n \in Nat
  BY DEF ClientsOK, Copy
<1> HIDE DEF n
<1>4. c \in Copy
  BY <1>1, <1>3 DEF Copy
<1>5. phone' \in [Works -> Copy]
  BY <1>2, <1>3, <1>4
<1> QED
  BY <1>1, <1>5 DEF ClientsOK, Edit

\* The periods that the phone has changes of.
Pending == {w \in Works : phone[w].pending}

\* The record that carries what the phone has of a period.
RecordOf(w) == [row |-> w, base |-> phone[w].rev, edit |-> phone[w].edit, parent |-> None]

\* A sync starts with the records of periods that are pending, in some order.
LEMMA StartSyncBatch ==
  ASSUME ClientsOK, NEW k \in Syncs, StartSync(k)
  PROVE  /\ \E b \in Seq(Record) :
              /\ sync' = [sync EXCEPT ![k] = [Off EXCEPT !.at = "pull", !.left = MaxAttempts - 1, !.batch = b]]
              /\ Distinct(b) /\ \A i \in 1..Len(b) : \E w \in Works : phone[w].pending /\ b[i] = RecordOf(w)
         /\ UNCHANGED <<row, req, phone, stored, shut>> /\ Use("syncs") /\ sync[k] = Off
<1> DEFINE S == {RecordOf(w) : w \in Pending}
<1>1. PICK b \in SetToAllKPermutations(S) :
         sync' = [sync EXCEPT ![k] = [Off EXCEPT !.at = "pull", !.left = MaxAttempts - 1, !.batch = b]]
  BY DEF StartSync, Pending, RecordOf
<1>2. \A w \in Works : RecordOf(w) \in Record /\ RecordOf(w).row = w
  <2> SUFFICES ASSUME NEW w \in Works PROVE RecordOf(w) \in Record /\ RecordOf(w).row = w
    OBVIOUS
  <2>1. phone[w] \in Copy
    BY DEF ClientsOK
  <2>2. w \in Rows /\ phone[w].rev \in Nat /\ phone[w].edit \in Nat
    BY <2>1 DEF Rows, Copy
  <2> QED
    BY <2>2 DEF RecordOf, Record
<1>3. S \subseteq Record /\ \A a, c \in S : a.row = c.row => a = c
  BY <1>2 DEF Pending
<1>4. IsFiniteSet(S)
  <2> DEFINE f == [w \in Pending |-> RecordOf(w)]
  <2>1. IsFiniteSet(Pending)
    BY DeltaSyncAssumption, FS_Subset DEF DeltaSyncAssumption, Pending
  <2>2. f \in Surjection(Pending, S)
    BY DEF Surjection
  <2> HIDE DEF f, S
  <2> QED
    BY <2>1, <2>2, FS_Surjection
<1>5. b \in Seq(Record) /\ Distinct(b) /\ \A i \in 1..Len(b) : b[i] \in S
  <2>1. b \in Seq(Record) /\ Distinct(b)
    BY <1>3, <1>4, Permuted
  <2>2. PICK T \in SUBSET S : b \in SetToSeqs(T)
    BY DEF SetToAllKPermutations
  <2>3. b \in [1..Cardinality(T) -> T]
    BY <2>2 DEF SetToSeqs
  <2>4. Cardinality(T) \in Nat
    BY <1>4, FS_Subset, FS_CardinalityType
  <2> QED
    BY <2>1, <2>3, <2>4
<1>6. \A i \in 1..Len(b) : \E w \in Works : phone[w].pending /\ b[i] = RecordOf(w)
  BY <1>5 DEF Pending
<1>7. UNCHANGED <<row, req, phone, stored, shut>> /\ Use("syncs") /\ sync[k] = Off
  BY DEF StartSync
<1> QED
  BY <1>1, <1>5, <1>6, <1>7

\* Starting a sync keeps the coroutines in order.
LEMMA StartSyncClients ==
  ASSUME ClientsOK, NEW k \in Syncs, StartSync(k)
  PROVE  ClientsOK'
<1>1. PICK b \in Seq(Record) :
         /\ sync' = [sync EXCEPT ![k] = [Off EXCEPT !.at = "pull", !.left = MaxAttempts - 1, !.batch = b]]
         /\ Distinct(b)
  BY StartSyncBatch
<1> DEFINE n == MaxAttempts - 1
           c == [Off EXCEPT !.at = "pull", !.left = n, !.batch = b]
<1>2. n \in Nat
  BY DeltaSyncAssumption DEF DeltaSyncAssumption
<1> HIDE DEF n
<1>3. c \in ClientType /\ c.batch = b /\ c.slot = None /\ c.at = "pull"
  BY <1>2, OffOK DEF ClientType
<1>4. sync' = [sync EXCEPT ![k] = c]
  BY <1>1 DEF n
<1>5. left' \in RestType /\ (\A d \in left'.batches : Distinct(d)) /\ phone' = phone
  BY StartSyncBatch, UseOK
<1> HIDE DEF c
<1> QED
  BY <1>1, <1>3, <1>4, <1>5, OneClientOK DEF ClientsOK

\* The pull keeps the coroutines in order.
LEMMA PullClients ==
  ASSUME RowsOK, ClientsOK, NEW k \in Syncs, Pull(k)
  PROVE  ClientsOK'
<1> DEFINE S == {q \in Works \cap Own : row[q].stamped}
           p == [w \in S |-> [rev |-> row[w].rev, edit |-> row[w].edit, pending |-> FALSE]]
           c == [sync[k] EXCEPT !.at = "push", !.pulled = p]
<1>1. sync[k] \in ClientType /\ Distinct(sync[k].batch) /\ sync[k].slot = None /\ sync \in [Syncs -> ClientType]
  BY DEF ClientsOK, Pull
<1>2. p \in [S -> Fetched]
  <2>1. \A w \in Works : row[w].rev \in Nat /\ row[w].edit \in Nat
    BY DEF RowsOK, RowType, Rows
  <2> QED
    BY <2>1 DEF Copy, Fetched
<1>3. p \in UNION {[T -> Fetched] : T \in SUBSET Works}
  <2>1. S \in SUBSET Works
    OBVIOUS
  <2> HIDE DEF S, p
  <2> QED
    BY <1>2, <2>1
<1>4. sync' = [sync EXCEPT ![k] = c]
  <2>1. sync' = [sync EXCEPT ![k].at = "push", ![k].pulled = p]
    BY DEF Pull
  <2> HIDE DEF p
  <2> QED
    BY <1>1, <2>1
<1> HIDE DEF p
<1>5. c \in ClientType /\ c.batch = sync[k].batch /\ c.slot = None /\ c.at = "push"
  BY <1>1, <1>3 DEF ClientType
<1> HIDE DEF c
<1>6. UNCHANGED <<phone, left>>
  BY DEF Pull
<1> QED
  BY <1>1, <1>4, <1>5, <1>6, OneClientOK DEF ClientsOK

\* A sync that ends or starts over keeps the coroutines in order.
LEMMA GiveUpClients ==
  ASSUME ClientsOK, NEW k \in Syncs, NothingToPush(k) \/ Lose(k) \/ Answered(k)
  PROVE  ClientsOK'
<1>1. sync' = [sync EXCEPT ![k] = Off] \/ sync' = [sync EXCEPT ![k] = Retried(k)]
  BY DEF NothingToPush, Lose, Answered
<1>2. phone' = Pulled(k) \/ phone' = phone
  BY DEF NothingToPush, Lose, Answered
<1>3. left' = left
  BY DEF NothingToPush, Lose, Answered
<1>4. phone' \in [Works -> Copy]
  BY <1>2, PulledOK DEF ClientsOK
<1>5. left' \in RestType /\ \A b \in left'.batches : Distinct(b)
  BY <1>3 DEF ClientsOK
<1>6. CASE sync' = [sync EXCEPT ![k] = Off]
  BY <1>4, <1>5, <1>6, OffOK, OneClientOK
<1>7. CASE sync' = [sync EXCEPT ![k] = Retried(k)]
  BY <1>4, <1>5, <1>7, RetriedOK, OneClientOK
<1> QED
  BY <1>1, <1>6, <1>7

\* Sending the push keeps the coroutines in order.
LEMMA PushClients ==
  ASSUME ClientsOK, NEW k \in Syncs, NEW s \in Slots, Accept(s, sync[k].batch),
         sync' = [sync EXCEPT ![k].at = "wait", ![k].slot = s], UNCHANGED phone
  PROVE  ClientsOK'
<1> DEFINE c == [sync[k] EXCEPT !.at = "wait", !.slot = s]
<1>1. sync[k] \in ClientType /\ Distinct(sync[k].batch) /\ sync \in [Syncs -> ClientType]
  BY DEF ClientsOK
<1>2. c \in ClientType /\ c.batch = sync[k].batch /\ c.slot = s /\ c.at = "wait"
  BY <1>1 DEF ClientType
<1>3. sync' = [sync EXCEPT ![k] = c] /\ s # None
  BY <1>1, DeltaSyncAssumption DEF DeltaSyncAssumption
<1>4. left' \in RestType /\ \A b \in left'.batches : Distinct(b)
  BY UseOK DEF Accept
<1> HIDE DEF c
<1> QED
  BY <1>1, <1>2, <1>3, <1>4, OneClientOK DEF ClientsOK

-----------------------------------------------------------------------------
(* Shape is an invariant *)

\* Shape holds at first.
LEMMA InitShape == Init => Shape
<1> SUFFICES ASSUME Init PROVE Shape
  OBVIOUS
<1>1. PICK t \in Start : row = t.row /\ left = [t EXCEPT !.row = None]
  BY DEF Init
<1>2. /\ t \in Scene /\ (\A b \in t.batches : IsInjective([i \in DOMAIN b |-> b[i].row]))
      /\ \A r \in Rows \ Entries : t.row[r].parent = None
  BY DeltaSyncAssumption DEF DeltaSyncAssumption
<1>3. RowsOK
  BY <1>1, <1>2 DEF RowsOK, Scene
<1>4. left \in RestType /\ left.batches = t.batches
  BY <1>1, <1>2 DEF Scene, RestType
<1>5. \A b \in left.batches : Distinct(b)
  <2> SUFFICES ASSUME NEW b \in left.batches PROVE Distinct(b)
    OBVIOUS
  <2>1. b \in Seq(Record) /\ IsInjective([i \in DOMAIN b |-> b[i].row])
    BY <1>2, <1>4 DEF Scene
  <2>2. DOMAIN b = 1..Len(b)
    BY <2>1
  <2> QED
    BY <2>1, <2>2 DEF IsInjective, Distinct
<1>6. phone \in [Works -> Copy]
  BY <1>3 DEF Init, RowsOK, RowType, Rows, Copy
<1>7. sync = [k \in Syncs |-> Off] /\ req = [s \in Slots |-> Idle]
  BY DEF Init
<1>8. ClientsOK
  <2>1. sync \in [Syncs -> ClientType] /\ \A k \in Syncs : Distinct(sync[k].batch) /\ sync[k].slot = None /\ sync[k].at = "off"
    BY <1>7, OffOK
  <2> QED
    BY <1>4, <1>5, <1>6, <2>1 DEF ClientsOK
<1>9. PushesOK
  BY <1>7, IdleOK DEF PushesOK
<1> QED
  BY <1>3, <1>8, <1>9 DEF Shape

\* A step of one push keeps the others as they are.
LEMMA OnePushOK ==
  ASSUME PushesOK, NEW s \in Slots, NEW q \in PushType, Orderly(q), req' = [req EXCEPT ![s] = q]
  PROVE  PushesOK'
  BY DEF PushesOK

\* The transaction is over, and its slot holds an answer or nothing.
Ended(s) == \E a \in Answers \cup {"idle"} : req' = [req EXCEPT ![s] = [Idle EXCEPT !.at = a]]

\* An idle slot is one that holds no answer.
LEMMA IdleIsIdle == Idle = [Idle EXCEPT !.at = "idle"] /\ Idle.at = "idle"
<1>1. \A a : [Idle EXCEPT !.at = a] = [at |-> a, todo |-> <<>>, found |-> Empty, mine |-> Empty, bad |-> {}]
  BY DEF Idle
<1>2. [Idle EXCEPT !.at = "idle"] = [at |-> "idle", todo |-> <<>>, found |-> Empty, mine |-> Empty, bad |-> {}]
  BY <1>1
<1> QED
  BY <1>2 DEF Idle

\* Ending a push leaves nothing of it and the others as they are.
LEMMA EndedOK ==
  ASSUME PushesOK, NEW s \in Slots, Ended(s)
  PROVE  PushesOK' /\ req'[s].at \notin {"check", "write"} /\ req'[s].found = Empty /\ req'[s].mine = Empty /\ req'[s].todo = <<>>
         /\ \A t \in Slots \ {s} : req'[t] = req[t]
<1>1. PICK a \in Answers \cup {"idle"} : req' = [req EXCEPT ![s] = [Idle EXCEPT !.at = a]]
  BY DEF Ended
<1> DEFINE q == [Idle EXCEPT !.at = a]
<1>2. q \in PushType /\ Orderly(q)
  BY IdleOK, IdleIsIdle
<1>3. q.at = a /\ q.found = Empty /\ q.mine = Empty /\ q.todo = <<>>
  BY DEF Idle
<1>4. a \notin {"check", "write"}
  BY DEF Answers
<1> HIDE DEF q
<1>5. PushesOK'
  BY <1>1, <1>2, OnePushOK DEF q
<1>6. req'[s] = q /\ \A t \in Slots \ {s} : req'[t] = req[t]
  BY <1>1 DEF q, PushesOK
<1> QED
  BY <1>3, <1>4, <1>5, <1>6

\* Only a batch with nothing denied and nothing stale commits.
LEMMA ResultIs == \A bad : Result(bad) \in {"ok", "conflict", "denied"} /\ (Result(bad) = "ok" <=> "denied" \notin bad /\ "conflict" \notin bad)
  BY DEF Result

\* COMMIT or ROLLBACK.
LEMMA FinishEnds ==
  ASSUME NEW s \in Slots, Finish(s)
  PROVE  Ended(s) /\ req' = [req EXCEPT ![s] = [Idle EXCEPT !.at = Result(req[s].bad)]]
         /\ row' = (IF Result(req[s].bad) = "ok" THEN View(s) ELSE row)
         /\ stored' = stored \cup Held(row') /\ shut' = StillLocked(row') /\ UNCHANGED <<phone, sync, left>>
<1>1. Result(req[s].bad) \in Answers
  BY ResultIs DEF Answers
<1> QED
  BY <1>1 DEF Finish, Ended

\* A deadlock, a record that names no day, or an answer nobody waits for.
LEMMA FailEnds ==
  ASSUME NEW s \in Slots, Fail(s) \/ Discard(s)
  PROVE  Ended(s) /\ UNCHANGED <<row, phone, sync, left, stored, shut>>
  BY IdleIsIdle DEF Fail, Discard, Ended, Answers

\* The phone takes the answer of its own push.
LEMMA AnsweredEnds ==
  ASSUME ClientsOK, NEW k \in Syncs, Answered(k)
  PROVE  /\ sync[k].slot \in Slots /\ Ended(sync[k].slot) /\ req[sync[k].slot].at \in Answers
         /\ UNCHANGED <<row, left, stored, shut>>
<1>1. sync[k].slot \in Slots
  BY DEF Answered, ClientsOK, ClientType
<1> QED
  BY <1>1, IdleIsIdle DEF Answered, Ended

\* Shape is kept by every step.
LEMMA NextShape == Shape /\ [Next]_vars => Shape'
<1> SUFFICES ASSUME Shape, [Next]_vars PROVE Shape'
  OBVIOUS
<1> USE DEF Shape
<1>1. ASSUME NEW s \in Slots, Send(s) PROVE Shape'
  <2>1. PICK b \in left.batches : Accept(s, b) /\ UNCHANGED <<phone, sync>>
    BY <1>1 DEF Send
  <2>2. b \in Seq(Record) /\ Distinct(b)
    BY DEF ClientsOK, RestType
  <2>3. PushesOK'
    BY <2>1, <2>2, AcceptOK
  <2>4. left' \in RestType /\ \A c \in left'.batches : Distinct(c)
    BY <2>1, UseOK DEF Accept
  <2>5. ClientsOK'
    BY <2>1, <2>4 DEF ClientsOK
  <2>6. RowsOK'
    BY <2>1 DEF Accept, RowsOK
  <2> QED
    BY <2>3, <2>5, <2>6
<1>2. ASSUME NEW s \in Slots, Check(s) PROVE Shape'
  <2>1. UNCHANGED <<row, phone, sync, left>>
    BY <1>2 DEF Check
  <2>2. RowsOK' /\ ClientsOK'
    BY <2>1 DEF RowsOK, ClientsOK
  <2> QED
    BY <1>2, <2>2, CheckOK
<1>3. ASSUME NEW s \in Slots, Write(s) PROVE Shape'
  <2>1. UNCHANGED <<row, phone, sync, left>>
    BY <1>3 DEF Write
  <2>2. RowsOK' /\ ClientsOK'
    BY <2>1 DEF RowsOK, ClientsOK
  <2> QED
    BY <1>3, <2>2, WriteOK
<1>4. ASSUME NEW s \in Slots, Finish(s) PROVE Shape'
  <2>1. Ended(s) /\ row' = (IF Result(req[s].bad) = "ok" THEN View(s) ELSE row) /\ UNCHANGED <<phone, sync, left>>
    BY <1>4, FinishEnds
  <2>2. RowsOK'
    BY <2>1, ViewOK DEF RowsOK
  <2>3. ClientsOK'
    BY <2>1 DEF ClientsOK
  <2> QED
    BY <2>1, <2>2, <2>3, EndedOK
<1>5. ASSUME NEW s \in Slots, Fail(s) \/ Discard(s) PROVE Shape'
  <2>1. Ended(s) /\ UNCHANGED <<row, phone, sync, left>>
    BY <1>5, FailEnds
  <2>2. RowsOK' /\ ClientsOK'
    BY <2>1 DEF RowsOK, ClientsOK
  <2> QED
    BY <2>1, <2>2, EndedOK
<1>6. ASSUME OthersWrite PROVE Shape'
  <2>1. RowsOK' /\ ClientsOK' /\ req' = req
    BY <1>6, OthersWriteRows
  <2> QED
    BY <2>1 DEF PushesOK
<1>7. ASSUME NEW w \in Works, Edit(w) PROVE Shape'
  <2>1. UNCHANGED <<row, req>>
    BY <1>7 DEF Edit
  <2> QED
    BY <1>7, <2>1, EditClients DEF RowsOK, PushesOK
<1>8. ASSUME NEW k \in Syncs, StartSync(k) PROVE Shape'
  <2>1. UNCHANGED <<row, req>>
    BY <1>8 DEF StartSync
  <2> QED
    BY <1>8, <2>1, StartSyncClients DEF RowsOK, PushesOK
<1>9. ASSUME NEW k \in Syncs, Pull(k) PROVE Shape'
  <2>1. UNCHANGED <<row, req>>
    BY <1>9 DEF Pull
  <2> QED
    BY <1>9, <2>1, PullClients DEF RowsOK, PushesOK
<1>10. ASSUME NEW k \in Syncs, NothingToPush(k) \/ Lose(k) PROVE Shape'
  <2>1. UNCHANGED <<row, req>>
    BY <1>10 DEF NothingToPush, Lose
  <2> QED
    BY <1>10, <2>1, GiveUpClients DEF RowsOK, PushesOK
<1>11. ASSUME NEW k \in Syncs, Answered(k) PROVE Shape'
  <2>1. row' = row /\ PushesOK'
    BY <1>11, AnsweredEnds, EndedOK
  <2> QED
    BY <1>11, <2>1, GiveUpClients DEF RowsOK
<1>12. ASSUME NEW k \in Syncs, Push(k) PROVE Shape'
  <2>1. PICK s \in Slots : Accept(s, sync[k].batch) /\ sync' = [sync EXCEPT ![k].at = "wait", ![k].slot = s] /\ UNCHANGED phone
    BY <1>12 DEF Push
  <2>2. sync[k].batch \in Seq(Record) /\ Distinct(sync[k].batch)
    BY DEF ClientsOK, ClientType
  <2>3. ClientsOK'
    BY <2>1, PushClients
  <2>4. PushesOK'
    BY <2>1, <2>2, AcceptOK
  <2>5. RowsOK'
    BY <2>1 DEF Accept, RowsOK
  <2> QED
    BY <2>3, <2>4, <2>5
<1>13. CASE UNCHANGED vars
  BY <1>13 DEF vars, RowsOK, ClientsOK, PushesOK
<1> QED
  <2>1. CASE \E s \in Slots : Send(s) \/ Serve(s)
    BY <1>1, <1>2, <1>3, <1>4, <1>5, <2>1 DEF Serve
  <2>2. CASE \/ \E d \in Days, entries \in {{}, Entries}, locks \in BOOLEAN : Decide(d, entries, locks)
             \/ \E e \in Entries, office \in BOOLEAN : Correct(e, office)
    BY <1>6, <2>2 DEF OthersWrite
  <2>3. CASE \E w \in Works : EnginePeriod(w) \/ SyncWorktimes(w) \/ Edit(w)
    BY <1>6, <1>7, <2>3 DEF OthersWrite
  <2>4. CASE \E k \in Syncs : StartSync(k) \/ Proceed(k) \/ Lose(k)
    BY <1>8, <1>9, <1>10, <1>11, <1>12, <2>4 DEF Proceed
  <2> QED
    BY <1>13, <2>1, <2>2, <2>3, <2>4 DEF Next

\* Pushes look before they write, batches have a row once, and a slot that
\* holds an answer holds nothing else (sync.routes.js 279-372).
THEOREM ShapeHolds == Spec => []Shape
<1>1. Init => Shape
  BY InitShape
<1>2. Shape /\ [Next]_vars => Shape'
  BY NextShape
<1> QED
  BY <1>1, <1>2, PTL DEF Spec

\* The type invariant is part of Shape.
LEMMA ShapeTypes == Shape => TypeOK
<1> SUFFICES ASSUME Shape PROVE TypeOK
  OBVIOUS
<1>1. row \in [Rows -> RowType] /\ phone \in [Works -> Copy]
  BY DEF Shape, RowsOK, ClientsOK
<1>2. ASSUME NEW s \in Slots
      PROVE  /\ req[s].at \in {"idle", "check", "write"} \cup Answers
             /\ req[s].todo \in Seq(Record)
             /\ DOMAIN req[s].mine \subseteq DOMAIN req[s].found
             /\ \A r \in DOMAIN req[s].mine : req[s].mine[r] \in RowType
  <2>1. req[s] \in PushType /\ Orderly(req[s])
    BY DEF Shape, PushesOK
  <2>2. req[s].mine \in UNION {[S -> RowType] : S \in SUBSET Own}
    BY <2>1 DEF PushType
  <2> QED
    BY <2>1, <2>2 DEF PushType, Orderly
<1>3. ASSUME NEW k \in Syncs
      PROVE  /\ sync[k].at \in {"off", "pull", "push", "wait"} /\ sync[k].slot \in Slots \cup {None}
             /\ sync[k].slot # None <=> sync[k].at = "wait"
  BY DEF Shape, ClientsOK, ClientType
<1> QED
  BY <1>1, <1>2, <1>3 DEF TypeOK

\* The type invariant of the run, for any rows and any number of clients: in
\* particular a coroutine waits if and only if it has a push of its own,
\* through retries and lost answers (DeltaSyncEngine.kt 77-95).
THEOREM PushesAndClientsAreSound == Spec => []TypeOK
  BY ShapeHolds, ShapeTypes, PTL

-----------------------------------------------------------------------------
(* Pushes replace whole batches *)

\* The variables of RevisionTable.
Revisions == [r \in Rows |-> row[r].rev]
Looked == [s \in Slots |-> req[s].found]

\* RevisionTable sees the revisions and what has been found, no more.
LEMMA TableNow == Table!vars = <<Revisions, Looked>> /\ Table!vars' = <<Revisions', Looked'>>
  BY DEF Table!vars, Revisions, Looked

\* The revisions are numbers.
LEMMA RevisionsOK ==
  ASSUME Shape
  PROVE  Revisions \in [Rows -> Nat]
  BY DEF Shape, RowsOK, RowType, Revisions

\* A step of one push changes only what that push has found.
LEMMA LookedAt ==
  ASSUME Shape, NEW s \in Slots, \A t \in Slots \ {s} : req'[t].found = req[t].found
  PROVE  Looked' = [Looked EXCEPT ![s] = req'[s].found]
  BY DEF Looked

\* A push that ends without commit is closed.
LEMMA ClosedStep ==
  ASSUME Shape, NEW s \in Slots, Ended(s), Revisions' = Revisions
  PROVE  Table!Next
<1>1. req'[s].found = Empty /\ \A t \in Slots \ {s} : req'[t] = req[t]
  BY EndedOK DEF Shape
<1>2. Looked' = [Looked EXCEPT ![s] = Empty]
  BY <1>1, LookedAt
<1>3. Table!Close(s)
  BY <1>2 DEF Table!Close, Looked, Empty
<1> QED
  BY <1>3 DEF Table!Next, Revisions

\* A record that is written or stale has been looked at; another is not.
LEMMA CheckLooks ==
  ASSUME Shape, NEW s \in Slots, Check(s)
  PROVE  [Table!Next]_(Table!vars)
<1> DEFINE q == req[s]
           rec == Head1(s)
           verdict == Verdict(View(s), rec)
           f == IF verdict \in {"write", "conflict"} THEN {rec.row} ELSE {}
           found == [r \in DOMAIN q.found \cup f |-> IF r \in f THEN row[r].rev ELSE q.found[r]]
           at == IF verdict = "write" THEN "write" ELSE q.at
           todo == IF verdict = "write" THEN q.todo ELSE Tail(q.todo)
           bad == IF verdict = "write" THEN q.bad ELSE q.bad \cup {verdict}
           n == [q EXCEPT !.found = found, !.at = at, !.todo = todo, !.bad = bad]
<1>1. q \in PushType /\ Orderly(q) /\ q.at = "check" /\ q.todo # <<>> /\ q.todo \in Seq(Record)
  BY DEF Shape, PushesOK, Check, PushType
<1>2. rec = q.todo[1] /\ rec \in Record /\ 1 \in 1..Len(q.todo) /\ rec.row \in Rows
  BY <1>1, Remainder DEF Head1, Record
<1>3. req' = [req EXCEPT ![s] = n] /\ row' = row
  <2>1. req' = [req EXCEPT ![s].found = found, ![s].at = at, ![s].todo = todo, ![s].bad = bad] /\ row' = row
    BY DEF Check
  <2> HIDE DEF found, at, todo, bad
  <2>2. req \in [Slots -> PushType]
    BY DEF Shape, PushesOK
  <2> QED
    BY <2>1, <2>2
<1>4. rec.row \notin DOMAIN q.found
  BY <1>1, <1>2 DEF Orderly
<1>5. f \subseteq Own /\ (f = {} \/ f = {rec.row})
  BY FoundIsOwn
<1> HIDE DEF f
<1>6. n.found = found
  <2> HIDE DEF found, at, todo, bad
  <2> QED
    BY <1>1 DEF PushType
<1> HIDE DEF n
<1>7. req'[s].found = found /\ \A t \in Slots \ {s} : req'[t] = req[t]
  BY <1>3, <1>6 DEF Shape, PushesOK
<1>8. Looked' = [Looked EXCEPT ![s] = found]
  <2> HIDE DEF found
  <2> QED
    BY <1>7, LookedAt
<1>9. Revisions' = Revisions
  BY <1>3 DEF Revisions
<1>10. CASE f = {}
  <2>1. PICK S \in SUBSET Own : q.found \in [S -> Nat]
    BY <1>1 DEF PushType
  <2> HIDE DEF q
  <2>2. found = [r \in S |-> q.found[r]]
    <3>1. DOMAIN q.found \cup f = S
      BY <1>10, <2>1
    <3>2. found = [r \in S |-> IF r \in f THEN row[r].rev ELSE q.found[r]]
      BY <3>1
    <3>3. \A r \in S : found[r] = q.found[r]
      BY <1>10, <3>2
    <3> HIDE DEF found
    <3> QED
      BY <3>2, <3>3
  <2>3. found = q.found
    BY <2>1, <2>2
  <2>4. found = Looked[s] /\ Looked = [t \in Slots |-> Looked[t]]
    BY <2>3 DEF Looked, q
  <2> HIDE DEF found
  <2>5. Looked' = Looked
    BY <1>8, <2>4
  <2> QED
    BY <1>9, <2>5, TableNow
<1>11. CASE f = {rec.row}
  <2>1. rec.row \in Own \ DOMAIN Looked[s]
    BY <1>4, <1>5, <1>11 DEF Looked
  <2>2. found = [p \in DOMAIN Looked[s] \cup {rec.row} |-> IF p = rec.row THEN Revisions[rec.row] ELSE Looked[s][p]]
    BY <1>2, <1>11 DEF Looked, Revisions
  <2> HIDE DEF found, rec
  <2>3. Looked' = [Looked EXCEPT ![s] = [p \in DOMAIN @ \cup {rec.row} |-> IF p = rec.row THEN Revisions[rec.row] ELSE @[p]]]
    BY <1>8, <2>2
  <2>4. Table!Look(s)
    BY <1>9, <2>1, <2>3 DEF Table!Look, Looked, Revisions
  <2> QED
    BY <2>4 DEF Table!Next
<1> QED
  BY <1>5, <1>10, <1>11

\* The commit replaces all that was looked at, in one step.
LEMMA FinishReplaces ==
  ASSUME Shape, NEW s \in Slots, Finish(s)
  PROVE  Table!Next
<1>1. Ended(s) /\ row' = (IF Result(req[s].bad) = "ok" THEN View(s) ELSE row)
  BY FinishEnds
<1>2. CASE Result(req[s].bad) # "ok"
  BY <1>1, <1>2, ClosedStep DEF Revisions
<1>3. CASE Result(req[s].bad) = "ok"
  <2> DEFINE q == req[s]
  <2>1. q \in PushType /\ Orderly(q) /\ q.at = "check" /\ "conflict" \notin q.bad
    BY <1>3, ResultIs DEF Shape, PushesOK, Finish
  <2>2. DOMAIN q.found = DOMAIN q.mine /\ \A r \in DOMAIN q.mine :
          IF q.found[r] > 0 THEN q.mine[r].rev = q.found[r] + 1 ELSE q.mine[r].rev > 0
    BY <2>1 DEF Orderly
  <2>3. row' = View(s)
    BY <1>1, <1>3
  <2>4. \A r \in Rows : row'[r] = IF r \in DOMAIN q.mine THEN q.mine[r] ELSE row[r]
    BY <2>3 DEF View
  <2>5. Revisions' \in [Rows -> Nat]
    BY <2>3, ViewOK DEF Revisions, RowType
  <2>6. \A r \in Rows : IF r \notin DOMAIN Looked[s] THEN Revisions'[r] = Revisions[r]
                        ELSE IF Looked[s][r] > 0 THEN Revisions'[r] = Looked[s][r] + 1 ELSE Revisions'[r] > 0
    BY <2>2, <2>4 DEF Looked, Revisions
  <2>7. req'[s].found = Empty /\ \A t \in Slots \ {s} : req'[t] = req[t]
    BY <1>1, EndedOK DEF Shape
  <2>8. Looked' = [Looked EXCEPT ![s] = Empty]
    BY <2>7, LookedAt
  <2>9. Table!Close(s)
    BY <2>8 DEF Table!Close, Looked, Empty
  <2>10. Table!Replace(s)
    BY <2>5, <2>6, <2>9 DEF Table!Replace, Revisions, Looked
  <2> QED
    BY <2>10 DEF Table!Next
<1> QED
  BY <1>2, <1>3

\* The other writers are the world outside.
LEMMA OthersAreOutside ==
  ASSUME Shape, OthersWrite
  PROVE  Table!Next
<1>1. /\ RowsOK' /\ req' = req
      /\ \A r \in Rows : row'[r].rev = row[r].rev \/ row'[r].rev > row[r].rev
  BY OthersWriteRows DEF Shape
<1> DEFINE changed == {r \in Rows : row'[r].rev # row[r].rev}
<1>2. Revisions' \in [Rows -> Nat]
  BY <1>1 DEF Revisions, RowsOK, RowType
<1>3. \A r \in Rows : IF r \in changed THEN Revisions'[r] > Revisions[r] ELSE Revisions'[r] = Revisions[r]
  BY <1>1 DEF Revisions
<1>4. changed \in SUBSET Rows /\ Looked' = Looked
  BY <1>1 DEF Looked
<1> HIDE DEF changed
<1>5. Table!Outside
  BY <1>2, <1>3, <1>4 DEF Table!Outside, Revisions, Looked
<1> QED
  BY <1>5 DEF Table!Next

\* BEGIN is no step of the abstract table.
LEMMA AcceptLooksAtNothing ==
  ASSUME Shape, NEW s \in Slots, NEW b, Accept(s, b)
  PROVE  Table!vars' = Table!vars
<1> DEFINE q == [Idle EXCEPT !.at = "check", !.todo = b]
<1>1. req' = [req EXCEPT ![s] = q] /\ row' = row /\ req[s] = Idle
  BY DEF Accept
<1>2. q.found = Idle.found
  BY DEF Idle
<1> HIDE DEF q
<1>3. \A t \in Slots : req'[t].found = req[t].found
  BY <1>1, <1>2 DEF Shape, PushesOK
<1>4. Looked' = Looked /\ Revisions' = Revisions
  BY <1>1, <1>3 DEF Looked, Revisions
<1> QED
  BY <1>4, TableNow

\* Nor is an upsert that is not committed.
LEMMA WriteLooksAtNothing ==
  ASSUME Shape, NEW s \in Slots, Write(s)
  PROVE  Table!vars' = Table!vars
<1> DEFINE mine == [r \in DOMAIN req[s].mine \cup {Head1(s).row} |-> IF r = Head1(s).row THEN Upserted(s) ELSE req[s].mine[r]]
<1>1. req' = [req EXCEPT ![s].at = "check", ![s].todo = Tail(req[s].todo), ![s].mine = mine] /\ row' = row
  BY DEF Write
<1> HIDE DEF mine
<1>2. req \in [Slots -> PushType]
  BY DEF Shape, PushesOK
<1>3. \A t \in Slots : req'[t].found = req[t].found
  BY <1>1, <1>2 DEF PushType
<1>4. Looked' = Looked /\ Revisions' = Revisions
  BY <1>1, <1>3 DEF Looked, Revisions
<1> QED
  BY <1>4, TableNow

\* At first nothing has been looked at.
LEMMA TableInit == Init => Table!Init
<1> SUFFICES ASSUME Init PROVE Table!Init
  OBVIOUS
<1>1. Revisions \in [Rows -> Nat]
  BY InitShape, RevisionsOK
<1>2. Looked = [s \in Slots |-> Empty]
  BY DEF Init, Looked, Idle
<1> QED
  BY <1>1, <1>2 DEF Table!Init, Revisions, Looked, Empty

\* Every step of the sync is a step of RevisionTable or none.
LEMMA TableStep == Shape /\ [Next]_vars => [Table!Next]_(Table!vars)
<1> SUFFICES ASSUME Shape, [Next]_vars PROVE [Table!Next]_(Table!vars)
  OBVIOUS
<1>1. ASSUME NEW s \in Slots, Send(s) \/ Serve(s) PROVE [Table!Next]_(Table!vars)
  <2>1. CASE Send(s)
    BY <2>1, AcceptLooksAtNothing DEF Send
  <2>2. CASE Check(s)
    BY <2>2, CheckLooks
  <2>3. CASE Write(s)
    BY <2>3, WriteLooksAtNothing
  <2>4. CASE Finish(s)
    BY <2>4, FinishReplaces
  <2>5. CASE Fail(s) \/ Discard(s)
    BY <2>5, FailEnds, ClosedStep DEF Revisions
  <2> QED
    BY <1>1, <2>1, <2>2, <2>3, <2>4, <2>5 DEF Serve
<1>2. CASE OthersWrite
  BY <1>2, OthersAreOutside
<1>3. ASSUME UNCHANGED <<row, req>> PROVE Table!vars' = Table!vars
  <2>1. Revisions' = Revisions /\ Looked' = Looked
    BY <1>3 DEF Revisions, Looked
  <2> QED
    BY <2>1, TableNow
<1>4. ASSUME NEW w \in Works, Edit(w) PROVE [Table!Next]_(Table!vars)
  BY <1>3, <1>4 DEF Edit
<1>5. ASSUME NEW k \in Syncs, StartSync(k) \/ Proceed(k) \/ Lose(k) PROVE [Table!Next]_(Table!vars)
  <2>1. CASE StartSync(k) \/ Pull(k) \/ NothingToPush(k) \/ Lose(k)
    BY <1>3, <2>1 DEF StartSync, Pull, NothingToPush, Lose
  <2>2. CASE Push(k)
    BY <2>2, AcceptLooksAtNothing DEF Push
  <2>3. CASE Answered(k)
    BY <2>3, AnsweredEnds, ClosedStep DEF Revisions, Shape
  <2> QED
    BY <1>5, <2>1, <2>2, <2>3 DEF Proceed
<1>6. CASE UNCHANGED vars
  BY <1>3, <1>6 DEF vars
<1> QED
  <2>1. CASE \/ \E d \in Days, entries \in {{}, Entries}, locks \in BOOLEAN : Decide(d, entries, locks)
             \/ \E e \in Entries, office \in BOOLEAN : Correct(e, office)
             \/ \E w \in Works : EnginePeriod(w) \/ SyncWorktimes(w)
    BY <1>2, <2>1 DEF OthersWrite
  <2> QED
    BY <1>1, <1>4, <1>5, <1>6, <2>1 DEF Next

\* The sync implements RevisionTable: a push changes all rows it may in one
\* step or none of them, each counted on from the revision found
\* (sync.routes.js 279, 326-345, 364-372).
THEOREM PushesAreReplacements == Spec => PushesReplaceWholeBatches
<1>1. Init => Table!Init
  BY TableInit
<1>2. Shape /\ [Next]_vars => [Table!Next]_(Table!vars)
  BY TableStep
<1> QED
  BY <1>1, <1>2, ShapeHolds, PTL DEF Spec, PushesReplaceWholeBatches, Table!Spec

-----------------------------------------------------------------------------
(* Locked days stand *)

\* A row that has been locked ever since the push came is locked now, and is
\* neither among the rows that the push has written nor the one it is about
\* to write; what it has written has the lock of the committed row; and no
\* two pushes hold the same row.
Guarded ==
    /\ shut \in [Slots -> SUBSET (Days \cup Entries)]
    /\ \A s \in Slots :
          /\ shut[s] \subseteq LockedRows(row)
          /\ DOMAIN req[s].mine \cap shut[s] = {}
          /\ req[s].at = "write" => req[s].todo[1].row \notin shut[s]
          /\ \A r \in DOMAIN req[s].mine : req[s].mine[r].locked = row[r].locked
    /\ \A s, t \in Slots : s # t => DOMAIN req[s].mine \cap DOMAIN req[t].mine = {}

\* What is still locked is locked.
LEMMA StillLockedOK ==
  ASSUME Guarded, shut' = StillLocked(row')
  PROVE  /\ shut' \in [Slots -> SUBSET (Days \cup Entries)]
         /\ \A s \in Slots : shut'[s] \subseteq shut[s] /\ shut'[s] \subseteq LockedRows(row')
  BY DEF Guarded, StillLocked

\* A push writes rows of the tables.
LEMMA MineIsOwn ==
  ASSUME Shape, NEW s \in Slots
  PROVE  DOMAIN req[s].mine \subseteq Rows /\ \A r \in DOMAIN req[s].mine : req[s].mine[r] \in RowType
<1>1. req[s].mine \in UNION {[S -> RowType] : S \in SUBSET Own}
  BY DEF Shape, PushesOK, PushType
<1> QED
  BY <1>1, DeltaSyncAssumption DEF DeltaSyncAssumption

\* A push starts with the rows that are locked when it comes.
LEMMA GuardedAccept ==
  ASSUME Shape, Guarded, NEW s \in Slots, NEW b, Accept(s, b)
  PROVE  Guarded'
<1> DEFINE q == [Idle EXCEPT !.at = "check", !.todo = b]
<1>1. req' = [req EXCEPT ![s] = q] /\ row' = row /\ shut' = [shut EXCEPT ![s] = LockedRows(row)]
  BY DEF Accept
<1>2. q.at = "check" /\ q.mine = Empty /\ DOMAIN Empty = {}
  BY DEF Idle, Empty
<1> HIDE DEF q
<1>3. req'[s] = q /\ \A t \in Slots \ {s} : req'[t] = req[t]
  BY <1>1 DEF Shape, PushesOK
<1>4. LockedRows(row) \subseteq Days \cup Entries
  BY DEF LockedRows
<1>5. shut' \in [Slots -> SUBSET (Days \cup Entries)] /\ shut'[s] = LockedRows(row) /\ \A t \in Slots \ {s} : shut'[t] = shut[t]
  BY <1>1, <1>4 DEF Guarded
<1> QED
  BY <1>1, <1>2, <1>3, <1>5 DEF Guarded

\* isWorkDayLocked turns away what has been locked since the push came: its
\* own writes change no lock, so what the transaction sees agrees with the
\* table.
LEMMA GuardedCheck ==
  ASSUME Shape, Guarded, NEW s \in Slots, Check(s)
  PROVE  Guarded'
<1> DEFINE q == req[s]
           rec == Head1(s)
           verdict == Verdict(View(s), rec)
           f == IF verdict \in {"write", "conflict"} THEN {rec.row} ELSE {}
           found == [r \in DOMAIN q.found \cup f |-> IF r \in f THEN row[r].rev ELSE q.found[r]]
           at == IF verdict = "write" THEN "write" ELSE q.at
           todo == IF verdict = "write" THEN q.todo ELSE Tail(q.todo)
           bad == IF verdict = "write" THEN q.bad ELSE q.bad \cup {verdict}
           n == [q EXCEPT !.found = found, !.at = at, !.todo = todo, !.bad = bad]
<1>1. q \in PushType /\ Orderly(q) /\ q.at = "check" /\ q.todo # <<>> /\ q.todo \in Seq(Record)
  BY DEF Shape, PushesOK, Check, PushType
<1>2. rec = q.todo[1] /\ rec \in Record /\ 1 \in 1..Len(q.todo) /\ rec.row \in Rows
  BY <1>1, Remainder DEF Head1, Record
<1>3. req' = [req EXCEPT ![s] = n] /\ row' = row /\ shut' = shut
  <2>1. req' = [req EXCEPT ![s].found = found, ![s].at = at, ![s].todo = todo, ![s].bad = bad] /\ row' = row /\ shut' = shut
    BY DEF Check
  <2> HIDE DEF found, at, todo, bad
  <2>2. req \in [Slots -> PushType]
    BY DEF Shape, PushesOK
  <2> QED
    BY <2>1, <2>2
<1>4. n.at = at /\ n.todo = todo /\ n.mine = q.mine
  <2> HIDE DEF found, at, todo, bad
  <2> QED
    BY <1>1 DEF PushType
<1> HIDE DEF n
<1>5. req'[s] = n /\ \A t \in Slots \ {s} : req'[t] = req[t]
  BY <1>3 DEF Shape, PushesOK
<1>6. rec.row \notin DOMAIN q.mine
  BY <1>1, <1>2 DEF Orderly
<1>7. ASSUME verdict = "write", rec.row \in shut[s] PROVE FALSE
  <2>1. ~Locked(View(s), rec)
    BY <1>7 DEF Verdict
  <2>2. rec.row \in LockedRows(row) /\ row[rec.row] \in RowType
    BY <1>2, <1>7 DEF Guarded, Shape, RowsOK
  <2>3. View(s)[rec.row] = row[rec.row]
    BY <1>2, <1>6 DEF View
  <2>4. ASSUME NEW d \in Days PROVE View(s)[d].locked = row[d].locked
    <3>1. d \in Rows
      BY DEF Rows
    <3>2. d \in DOMAIN q.mine => q.mine[d].locked = row[d].locked
      BY DEF Guarded
    <3> QED
      BY <3>1, <3>2 DEF View
  <2>5. row[rec.row].parent \in Days \cup {None}
    BY <2>2 DEF RowType
  <2>6. rec.row \in LockedRows(View(s))
    BY <2>2, <2>3, <2>4, <2>5 DEF LockedRows
  <2> QED
    BY <2>1, <2>6 DEF Locked
<1>8. at = "write" => verdict = "write" /\ todo = q.todo
  BY <1>1
<1> HIDE DEF q, rec, verdict, at, todo
<1> QED
  BY <1>2, <1>3, <1>4, <1>5, <1>7, <1>8 DEF Guarded, q

\* The upsert takes a row nobody holds, and leaves its lock as it is.
LEMMA GuardedWrite ==
  ASSUME Shape, Guarded, NEW s \in Slots, Write(s)
  PROVE  Guarded'
<1> DEFINE q == req[s]
           rec == Head1(s)
           u == Upserted(s)
           mine == [r \in DOMAIN q.mine \cup {rec.row} |-> IF r = rec.row THEN u ELSE q.mine[r]]
           n == [q EXCEPT !.at = "check", !.todo = Tail(q.todo), !.mine = mine]
<1>1. q \in PushType /\ Orderly(q) /\ q.at = "write"
  BY DEF Shape, PushesOK, Write, PushType
<1>2. rec = q.todo[1] /\ u.locked = row[rec.row].locked
  BY <1>1, UpsertedOK
<1>3. Free({rec.row})
  BY DEF Write
<1> HIDE DEF u, rec
<1>4. req' = [req EXCEPT ![s] = n] /\ row' = row /\ shut' = shut
  <2>1. req' = [req EXCEPT ![s].at = "check", ![s].todo = Tail(q.todo), ![s].mine = mine] /\ row' = row /\ shut' = shut
    BY DEF Write, u, rec
  <2>2. req \in [Slots -> PushType]
    BY DEF Shape, PushesOK
  <2> HIDE DEF mine
  <2> QED
    BY <2>1, <2>2
<1>5. n.at = "check" /\ n.mine = mine
  <2> HIDE DEF mine
  <2> QED
    BY <1>1 DEF PushType
<1> HIDE DEF n
<1>6. req'[s] = n /\ \A t \in Slots \ {s} : req'[t] = req[t]
  BY <1>4 DEF Shape, PushesOK
<1>7. DOMAIN mine = DOMAIN q.mine \cup {rec.row} /\ \A r \in DOMAIN mine : mine[r].locked = row[r].locked
  BY <1>2 DEF Guarded
<1>8. DOMAIN mine \cap shut[s] = {}
  BY <1>1, <1>2, <1>7 DEF Guarded
<1>9. \A t \in Slots \ {s} : DOMAIN mine \cap DOMAIN req[t].mine = {}
  BY <1>3, <1>7 DEF Guarded, Free
<1> HIDE DEF mine
<1> QED
  BY <1>4, <1>5, <1>6, <1>7, <1>8, <1>9 DEF Guarded

\* A push that ends leaves the others guarded.
LEMMA GuardedEnded ==
  ASSUME Shape, Guarded, NEW s \in Slots, Ended(s),
         shut' \in [Slots -> SUBSET (Days \cup Entries)],
         \A t \in Slots : shut'[t] \subseteq shut[t] /\ shut'[t] \subseteq LockedRows(row'),
         \A t \in Slots \ {s} : \A r \in DOMAIN req[t].mine : row'[r] = row[r]
  PROVE  Guarded'
<1>1. /\ req'[s].at \notin {"check", "write"} /\ req'[s].mine = Empty /\ DOMAIN Empty = {}
      /\ \A t \in Slots \ {s} : req'[t] = req[t]
  BY EndedOK DEF Shape, Empty
<1> QED
  BY <1>1 DEF Guarded

\* The commit changes no row that another push holds.
LEMMA GuardedFinish ==
  ASSUME Shape, Guarded, NEW s \in Slots, Finish(s)
  PROVE  Guarded'
<1>1. Ended(s) /\ row' = (IF Result(req[s].bad) = "ok" THEN View(s) ELSE row) /\ shut' = StillLocked(row')
  BY FinishEnds
<1>2. ASSUME NEW t \in Slots \ {s}, NEW r \in DOMAIN req[t].mine PROVE row'[r] = row[r]
  <2>1. r \in Rows /\ r \notin DOMAIN req[s].mine
    BY MineIsOwn DEF Guarded
  <2> QED
    BY <1>1, <2>1 DEF View
<1> QED
  BY <1>1, <1>2, StillLockedOK, GuardedEnded

\* Guarded is kept by every step.
LEMMA NextGuarded == Shape /\ Guarded /\ [Next]_vars => Guarded'
<1> SUFFICES ASSUME Shape, Guarded, [Next]_vars PROVE Guarded'
  OBVIOUS
<1>1. ASSUME NEW s \in Slots, Send(s) \/ Serve(s) PROVE Guarded'
  <2>1. CASE Send(s)
    BY <2>1, GuardedAccept DEF Send
  <2>2. CASE Check(s)
    BY <2>2, GuardedCheck
  <2>3. CASE Write(s)
    BY <2>3, GuardedWrite
  <2>4. CASE Finish(s)
    BY <2>4, GuardedFinish
  <2>5. CASE Fail(s) \/ Discard(s)
    <3>1. Ended(s) /\ row' = row /\ shut' = shut
      BY <2>5, FailEnds
    <3> QED
      BY <3>1, GuardedEnded DEF Guarded
  <2> QED
    BY <1>1, <2>1, <2>2, <2>3, <2>4, <2>5 DEF Serve
<1>2. CASE OthersWrite
  <2>1. /\ req' = req /\ shut' = StillLocked(row')
        /\ \A s \in Slots : \A r \in Rows \cap DOMAIN req[s].mine : row'[r] = row[r]
    BY <1>2, OthersWriteRows DEF Shape
  <2>2. \A s \in Slots : \A r \in DOMAIN req[s].mine : row'[r] = row[r]
    BY <2>1, MineIsOwn
  <2>3. /\ shut' \in [Slots -> SUBSET (Days \cup Entries)]
        /\ \A s \in Slots : shut'[s] \subseteq shut[s] /\ shut'[s] \subseteq LockedRows(row')
    BY <2>1, StillLockedOK
  <2> QED
    BY <2>1, <2>2, <2>3 DEF Guarded
<1>3. ASSUME UNCHANGED <<row, req, shut>> PROVE Guarded'
  BY <1>3 DEF Guarded
<1>4. ASSUME NEW w \in Works, Edit(w) PROVE Guarded'
  BY <1>3, <1>4 DEF Edit
<1>5. ASSUME NEW k \in Syncs, StartSync(k) \/ Proceed(k) \/ Lose(k) PROVE Guarded'
  <2>1. CASE StartSync(k) \/ Pull(k) \/ NothingToPush(k) \/ Lose(k)
    BY <1>3, <2>1 DEF StartSync, Pull, NothingToPush, Lose
  <2>2. CASE Push(k)
    BY <2>2, GuardedAccept DEF Push
  <2>3. CASE Answered(k)
    <3>1. sync[k].slot \in Slots /\ Ended(sync[k].slot) /\ row' = row /\ shut' = shut
      BY <2>3, AnsweredEnds DEF Shape
    <3> QED
      BY <3>1, GuardedEnded DEF Guarded
  <2> QED
    BY <1>5, <2>1, <2>2, <2>3 DEF Proceed
<1>6. CASE UNCHANGED vars
  BY <1>3, <1>6 DEF vars
<1> QED
  <2>1. CASE \/ \E d \in Days, entries \in {{}, Entries}, locks \in BOOLEAN : Decide(d, entries, locks)
             \/ \E e \in Entries, office \in BOOLEAN : Correct(e, office)
             \/ \E w \in Works : EnginePeriod(w) \/ SyncWorktimes(w)
    BY <1>2, <2>1 DEF OthersWrite
  <2> QED
    BY <1>1, <1>4, <1>5, <1>6, <2>1 DEF Next

\* Guarded holds at first.
LEMMA InitGuarded == Init => Guarded
<1> SUFFICES ASSUME Init PROVE Guarded
  OBVIOUS
<1>1. \A s \in Slots : req[s] = Idle /\ shut[s] = {}
  BY DEF Init
<1>2. Idle.mine = Empty /\ DOMAIN Empty = {} /\ Idle.at = "idle"
  BY DEF Idle, Empty
<1>3. shut \in [Slots -> SUBSET (Days \cup Entries)]
  BY DEF Init
<1> QED
  BY <1>1, <1>2, <1>3 DEF Guarded

\* The tables are changed by commits and by the other writers only.
LEMMA RowsChange ==
  ASSUME Shape, [Next]_vars, row' # row
  PROVE  OthersWrite \/ \E s \in Slots : Finish(s) /\ row' = View(s)
<1>1. ASSUME NEW s \in Slots, Send(s) \/ Serve(s) PROVE Finish(s) /\ row' = View(s)
  <2>1. ~Send(s) /\ ~Check(s) /\ ~Write(s) /\ ~Fail(s) /\ ~Discard(s)
    BY FailEnds DEF Send, Accept, Check, Write
  <2> QED
    BY <1>1, <2>1, FinishEnds DEF Serve
<1>2. ASSUME NEW k \in Syncs, StartSync(k) \/ Proceed(k) \/ Lose(k) PROVE FALSE
  BY <1>2, AnsweredEnds DEF StartSync, Proceed, Lose, Pull, NothingToPush, Push, Accept, Shape
<1>3. ASSUME NEW w \in Works, Edit(w) PROVE FALSE
  BY <1>3 DEF Edit
<1>4. Next
  BY DEF vars
<1> QED
  BY <1>1, <1>2, <1>3, <1>4 DEF Next, OthersWrite

\* When a push is answered with success, the table becomes what it saw.
LEMMA BecomesOk ==
  ASSUME Shape, [Next]_vars, NEW s \in Slots, Busy(s), req'[s].at = "ok", row' # row
  PROVE  row' = View(s)
<1>1. req[s].at \in {"check", "write"}
  BY DEF Busy
<1>2. req'[s] # req[s]
  BY <1>1
<1>3. ~OthersWrite
  BY <1>2, OthersWriteRows DEF Shape
<1>4. PICK t \in Slots : Finish(t) /\ row' = View(t)
  BY <1>3, RowsChange
<1>5. t = s
  BY <1>2, <1>4, FinishEnds, EndedOK DEF Shape
<1> QED
  BY <1>4, <1>5

\* A push changes no day that is approved or noted, and no entry of one, if
\* the row had been locked ever since the push came (sync.routes.js 98-103,
\* 299-311, 346). That the row must have been locked all the time is no
\* weakness of the proof: with two days, a push that looked before the entry
\* existed can move it out of a day that was locked meanwhile.
THEOREM LockedDaysAreLeftAlone == Spec => LockedDaysStand
<1>1. Init => Guarded
  BY InitGuarded
<1>2. Shape /\ Guarded /\ [Next]_vars => Guarded'
  BY NextGuarded
<1> DEFINE Stands == \A s \in Slots, r \in Days \cup Entries :
                        Busy(s) /\ req'[s].at = "ok" /\ row'[r] # row[r] => r \notin shut[s]
<1>3. Shape /\ Guarded /\ [Next]_vars => Stands
  <2> SUFFICES ASSUME Shape, Guarded, [Next]_vars, NEW s \in Slots, NEW r \in Days \cup Entries,
                      Busy(s), req'[s].at = "ok", row'[r] # row[r]
               PROVE  r \notin shut[s]
    OBVIOUS
  <2>1. row' = View(s) /\ r \in Rows
    BY BecomesOk DEF Rows
  <2>2. r \in DOMAIN req[s].mine
    BY <2>1 DEF View
  <2> QED
    BY <2>2 DEF Guarded
<1> QED
  BY <1>1, <1>2, <1>3, ShapeHolds, PTL DEF Spec, LockedDaysStand

-----------------------------------------------------------------------------
(* Replaced edits stay replaced *)

\* The records of a batch.
Elements(q) == {q[i] : i \in 1..Len(q)}

\* Every record that can still reach the table: of what is pending, of the
\* batches of the coroutines and of other clients, of the pushes that are
\* served.
Sent == {RecordOf(w) : w \in Pending} \cup (UNION {Elements(b) : b \in left.batches})
        \cup (UNION {Elements(sync[k].batch) : k \in Syncs}) \cup (UNION {Elements(req[s].todo) : s \in Slots})

\* The table has held this edit under this revision, or a push is about to
\* store it.
Version(w, x, n) ==
    \/ <<w, x, n>> \in stored
    \/ \E s \in Slots : w \in DOMAIN req[s].mine /\ req[s].mine[w].edit = x /\ req[s].mine[w].rev = n

\* What is about to be written was compared with what was found, unless there
\* was nothing or the client named nothing.
Compared == \A s \in Slots : req[s].at = "write" =>
    LET rec == req[s].todo[1] IN req[s].found[rec.row] = 0 \/ rec.base = 0 \/ rec.base = req[s].found[rec.row]

\* All copies of an edit name one revision, which the edit replaced or began
\* with: what the table holds of the edit has that revision or the next. An
\* edit that the phone makes from now on has a number nobody has seen.
Traced ==
    /\ Held(row) \subseteq stored
    /\ \A a \in Sent : a.row \in Works => a.base > 0 /\ a.edit > left.edits
    /\ \A a, c \in Sent : a.row \in Works /\ a.row = c.row /\ a.edit = c.edit => a.base = c.base
    /\ \A w \in Works, x, n \in Nat : x > 0 /\ Version(w, x, n) => x > left.edits
    /\ \A w \in Works, x, n \in Nat : \A a \in Sent :
          x > 0 /\ Version(w, x, n) /\ a.row = w /\ a.edit = x => n = a.base \/ n = a.base + 1
    /\ \A w \in Works, x, n, m \in Nat : x > 0 /\ Version(w, x, n) /\ Version(w, x, m) => n <= m + 1

\* The rest of a batch has no new records.
LEMMA TailElements ==
  ASSUME NEW q \in Seq(Record), q # <<>>
  PROVE  Elements(Tail(q)) \subseteq Elements(q) /\ q[1] \in Elements(q)
<1>1. \A i \in 1..Len(Tail(q)) : Tail(q)[i] = q[i + 1] /\ i + 1 \in 1..Len(q)
  BY Remainder
<1>2. 1 \in 1..Len(q)
  BY Remainder
<1> QED
  BY <1>1, <1>2 DEF Elements

\* What is on its way are records.
LEMMA SentAreRecords ==
  ASSUME Shape
  PROVE  Sent \subseteq Record /\ left.edits \in Nat
<1>1. \A q \in Seq(Record) : Elements(q) \subseteq Record
  BY DEF Elements
<1>2. ASSUME NEW w \in Works PROVE RecordOf(w) \in Record
  <2>1. phone[w] \in Copy
    BY DEF Shape, ClientsOK
  <2>2. w \in Rows /\ phone[w].rev \in Nat /\ phone[w].edit \in Nat
    BY <2>1 DEF Rows, Copy
  <2> QED
    BY <2>2 DEF RecordOf, Record
<1>3. \A b \in left.batches : b \in Seq(Record)
  BY DEF Shape, ClientsOK, RestType
<1>4. \A k \in Syncs : sync[k].batch \in Seq(Record)
  BY DEF Shape, ClientsOK, ClientType
<1>5. \A s \in Slots : req[s].todo \in Seq(Record)
  BY DEF Shape, PushesOK, PushType
<1>6. left.edits \in Nat
  BY DEF Shape, ClientsOK, RestType
<1> QED
  BY <1>1, <1>2, <1>3, <1>4, <1>5, <1>6 DEF Sent, Pending

\* Nothing new is on its way if the phone has nothing new pending.
LEMMA SentLess ==
  ASSUME \A w \in Pending' : w \in Pending /\ RecordOf(w)' = RecordOf(w),
         left'.batches = left.batches,
         \A k \in Syncs : Elements(sync'[k].batch) \subseteq Sent,
         \A s \in Slots : Elements(req'[s].todo) \subseteq Sent
  PROVE  Sent' \subseteq Sent
<1>1. \A a \in Sent' : \/ \E w \in Pending' : a = RecordOf(w)'
                       \/ \E b \in left'.batches : a \in Elements(b)
                       \/ \E k \in Syncs : a \in Elements(sync'[k].batch)
                       \/ \E s \in Slots : a \in Elements(req'[s].todo)
  BY DEF Sent, Elements
<1>2. \A a : (\E w \in Pending : a = RecordOf(w)) \/ (\E b \in left.batches : a \in Elements(b)) => a \in Sent
  BY DEF Sent
<1> QED
  BY <1>1, <1>2

\* Traced is kept by a step after which there is no new record and no new
\* version.
LEMMA TracedLess ==
  ASSUME Shape, Traced, Sent' \subseteq Sent, left'.edits \in Nat, left'.edits <= left.edits,
         \A w \in Works, x, n \in Nat : x > 0 /\ Version(w, x, n)' => Version(w, x, n),
         Held(row') \subseteq stored'
  PROVE  Traced'
<1>1. /\ Sent \subseteq Record /\ left.edits \in Nat
      /\ \A a \in Record : a.edit \in Nat
  BY SentAreRecords DEF Record
<1>2. \A a \in Sent' : a.row \in Works => a.base > 0 /\ a.edit > left'.edits
  BY <1>1 DEF Traced
<1>3. \A w \in Works, x, n \in Nat : x > 0 /\ Version(w, x, n)' => x > left'.edits
  BY <1>1 DEF Traced
<1>4. /\ \A a, c \in Sent' : a.row \in Works /\ a.row = c.row /\ a.edit = c.edit => a.base = c.base
      /\ \A w \in Works, x, n \in Nat : \A a \in Sent' :
          x > 0 /\ Version(w, x, n)' /\ a.row = w /\ a.edit = x => n = a.base \/ n = a.base + 1
      /\ \A w \in Works, x, n, m \in Nat : x > 0 /\ Version(w, x, n)' /\ Version(w, x, m)' => n <= m + 1
  BY DEF Traced
<1> QED
  BY <1>2, <1>3, <1>4 DEF Traced

\* Who sends.
LEMMA SentBy ==
  /\ \A w \in Pending : RecordOf(w) \in Sent
  /\ \A b \in left.batches : Elements(b) \subseteq Sent
  /\ \A k \in Syncs : Elements(sync[k].batch) \subseteq Sent
  /\ \A s \in Slots : Elements(req[s].todo) \subseteq Sent
  BY DEF Sent

\* An empty batch has no records.
LEMMA NoElements == Elements(<<>>) = {}
  BY DEF Elements

\* A push brings records that were on their way.
LEMMA TracedAccept ==
  ASSUME Shape, Traced, Compared, NEW s \in Slots, NEW b, Accept(s, b), Elements(b) \subseteq Sent, phone' = phone,
         \A k \in Syncs : sync'[k].batch = sync[k].batch
  PROVE  Traced' /\ Compared'
<1> DEFINE q == [Idle EXCEPT !.at = "check", !.todo = b]
<1>1. req' = [req EXCEPT ![s] = q] /\ row' = row /\ stored' = stored /\ Use("pushes")
  BY DEF Accept
<1>2. q.at = "check" /\ q.mine = Empty /\ DOMAIN Empty = {} /\ q.todo = b
  BY DEF Idle, Empty
<1> HIDE DEF q
<1>3. req'[s] = q /\ \A t \in Slots \ {s} : req'[t] = req[t]
  BY <1>1 DEF Shape, PushesOK
<1>4. left' \in RestType /\ left'.batches = left.batches /\ left'.edits <= left.edits
  BY <1>1, UseOK DEF Shape
<1>5. Sent' \subseteq Sent
  <2>1. \A t \in Slots : Elements(req'[t].todo) \subseteq Sent
    BY <1>2, <1>3, SentBy
  <2>2. \A k \in Syncs : Elements(sync'[k].batch) \subseteq Sent
    BY SentBy
  <2>3. Pending' = Pending /\ \A w : RecordOf(w)' = RecordOf(w)
    BY DEF Pending, RecordOf
  <2> QED
    BY <1>4, <2>1, <2>2, <2>3, SentLess
<1>6. \A w \in Works, x, n \in Nat : x > 0 /\ Version(w, x, n)' => Version(w, x, n)
  BY <1>1, <1>2, <1>3 DEF Version
<1>7. Compared'
  BY <1>2, <1>3 DEF Compared
<1>8. Held(row') \subseteq stored'
  BY <1>1 DEF Traced
<1> QED
  BY <1>4, <1>5, <1>6, <1>7, <1>8, TracedLess DEF RestType

\* A sync that pulls, gives up or starts over sends nothing new.
LEMMA TracedPhone ==
  ASSUME Shape, Traced, Compared, UNCHANGED <<row, req, left, stored>>, NEW k \in Syncs,
         sync'[k].batch = <<>> \/ sync'[k].batch = sync[k].batch, \A j \in Syncs \ {k} : sync'[j] = sync[j],
         phone' = phone \/ phone' = Pulled(k)
  PROVE  Traced' /\ Compared'
<1>1. \A w \in Pending' : w \in Pending /\ RecordOf(w)' = RecordOf(w)
  <2> SUFFICES ASSUME NEW w \in Pending' PROVE w \in Pending /\ RecordOf(w)' = RecordOf(w)
    OBVIOUS
  <2>1. w \in Works /\ phone'[w].pending
    BY DEF Pending
  <2>2. phone'[w] = phone[w]
    BY <2>1, PulledOK DEF Shape
  <2> QED
    BY <2>1, <2>2 DEF Pending, RecordOf
<1>2. \A j \in Syncs : Elements(sync'[j].batch) \subseteq Sent
  BY SentBy, NoElements
<1>3. Sent' \subseteq Sent
  BY <1>1, <1>2, SentBy, SentLess
<1>4. \A w \in Works, x, n \in Nat : x > 0 /\ Version(w, x, n)' => Version(w, x, n)
  BY DEF Version
<1>5. Compared' /\ Held(row') \subseteq stored'
  BY DEF Compared, Traced
<1>6. left.edits \in Nat
  BY SentAreRecords
<1> QED
  BY <1>3, <1>4, <1>5, <1>6, TracedLess

\* A new edit of the phone has a number of its own and one revision.
LEMMA TracedEdit ==
  ASSUME Shape, Traced, Compared, NEW w \in Works, Edit(w)
  PROVE  Traced' /\ Compared'
<1> DEFINE x == left.edits
           b == IF phone[w].rev = 0 THEN 1 ELSE phone[w].rev
           new == [row |-> w, base |-> b, edit |-> x, parent |-> None]
<1>1. /\ phone' = [phone EXCEPT ![w] = [rev |-> b, edit |-> x, pending |-> TRUE]]
      /\ UNCHANGED <<row, req, sync, stored, shut>> /\ Use("edits")
  BY DEF Edit
<1>2. /\ left'.batches = left.batches /\ left' \in RestType /\ left'.edits = x - 1 /\ x > 0 /\ x \in Nat
  BY <1>1, UseOK, SentAreRecords DEF Shape
<1>3. phone \in [Works -> Copy] /\ b \in Nat /\ b > 0
  BY DEF Shape, ClientsOK, Copy
<1> HIDE DEF b, x
<1>4. ASSUME NEW v \in Pending' PROVE RecordOf(v)' = new \/ (v \in Pending /\ RecordOf(v)' = RecordOf(v))
  <2>1. v \in Works /\ phone'[v].pending
    BY DEF Pending
  <2>2. CASE v = w
    BY <1>1, <1>3, <2>1, <2>2 DEF RecordOf
  <2>3. CASE v # w
    BY <1>1, <1>3, <2>1, <2>3 DEF RecordOf, Pending
  <2> QED
    BY <2>2, <2>3
<1>5. Sent' \subseteq Sent \cup {new}
  <2>1. \A a \in Sent' : \/ \E v \in Pending' : a = RecordOf(v)'
                         \/ \E c \in left'.batches : a \in Elements(c)
                         \/ \E k \in Syncs : a \in Elements(sync'[k].batch)
                         \/ \E s \in Slots : a \in Elements(req'[s].todo)
    BY DEF Sent, Elements
  <2> HIDE DEF new
  <2> QED
    BY <1>1, <1>2, <1>4, <2>1, SentBy
<1>6. new.row = w /\ new.base = b /\ new.edit = x
  OBVIOUS
<1> HIDE DEF new
<1>7. Sent \subseteq Record /\ \A a \in Record : a.edit \in Nat /\ a.base \in Nat
  BY SentAreRecords DEF Record
<1>8. \A v \in Works, y, n \in Nat : Version(v, y, n)' <=> Version(v, y, n)
  BY <1>1 DEF Version
<1>9. \A a \in Sent : a.row \in Works => a.base > 0 /\ a.edit > x
  BY DEF Traced, x
<1>10. \A v \in Works, y, n \in Nat : y > 0 /\ Version(v, y, n) => y > x
  BY DEF Traced, x
<1>11. \A a \in Sent' : a.row \in Works => a.base > 0 /\ a.edit > left'.edits
  BY <1>2, <1>3, <1>5, <1>6, <1>7, <1>9
<1>12. \A a, c \in Sent' : a.row \in Works /\ a.row = c.row /\ a.edit = c.edit => a.base = c.base
  <2> SUFFICES ASSUME NEW a \in Sent', NEW c \in Sent', a.row \in Works, a.row = c.row, a.edit = c.edit PROVE a.base = c.base
    OBVIOUS
  <2>1. CASE a \in Sent /\ c \in Sent
    BY <2>1 DEF Traced
  <2>2. CASE a = new /\ c = new
    BY <2>2
  <2>3. CASE (a = new /\ c \in Sent) \/ (a \in Sent /\ c = new)
    BY <1>2, <1>6, <1>7, <1>9, <2>3
  <2> QED
    BY <1>5, <2>1, <2>2, <2>3
<1>13. \A v \in Works, y, n \in Nat : y > 0 /\ Version(v, y, n)' => y > left'.edits
  BY <1>2, <1>8, <1>10
<1>14. \A v \in Works, y, n \in Nat : \A a \in Sent' :
          y > 0 /\ Version(v, y, n)' /\ a.row = v /\ a.edit = y => n = a.base \/ n = a.base + 1
  <2> SUFFICES ASSUME NEW v \in Works, NEW y \in Nat, NEW n \in Nat, NEW a \in Sent',
                      y > 0, Version(v, y, n), a.row = v, a.edit = y
               PROVE  n = a.base \/ n = a.base + 1
    BY <1>8
  <2>1. a # new
    BY <1>2, <1>6, <1>10
  <2> QED
    BY <1>5, <2>1 DEF Traced
<1>15. \A v \in Works, y, n, m \in Nat : y > 0 /\ Version(v, y, n)' /\ Version(v, y, m)' => n <= m + 1
  BY <1>8 DEF Traced
<1>16. Held(row') \subseteq stored' /\ Compared'
  BY <1>1 DEF Traced, Compared
<1> QED
  BY <1>11, <1>12, <1>13, <1>14, <1>15, <1>16 DEF Traced

\* A sync takes up what is pending.
LEMMA TracedStartSync ==
  ASSUME Shape, Traced, Compared, NEW k \in Syncs, StartSync(k)
  PROVE  Traced' /\ Compared'
<1>1. PICK b \in Seq(Record) :
        /\ sync' = [sync EXCEPT ![k] = [Off EXCEPT !.at = "pull", !.left = MaxAttempts - 1, !.batch = b]]
        /\ \A i \in 1..Len(b) : \E w \in Works : phone[w].pending /\ b[i] = RecordOf(w)
  BY StartSyncBatch DEF Shape
<1>2. UNCHANGED <<row, req, phone, stored, shut>> /\ Use("syncs")
  BY StartSyncBatch DEF Shape
<1>3. left' \in RestType /\ left'.batches = left.batches /\ left'.edits <= left.edits
  BY <1>2, UseOK DEF Shape
<1> DEFINE n == MaxAttempts - 1
           c == [Off EXCEPT !.at = "pull", !.left = n, !.batch = b]
<1>4. c.batch = b
  BY DEF Off
<1>5. sync'[k].batch = b /\ \A j \in Syncs \ {k} : sync'[j] = sync[j]
  <2>1. sync' = [sync EXCEPT ![k] = c]
    BY <1>1
  <2> HIDE DEF c
  <2> QED
    BY <1>4, <2>1 DEF Shape, ClientsOK
<1>6. Elements(b) \subseteq Sent
  BY <1>1, SentBy DEF Elements, Pending
<1>7. Sent' \subseteq Sent
  <2>1. \A j \in Syncs : Elements(sync'[j].batch) \subseteq Sent
    BY <1>5, <1>6, SentBy
  <2>2. Pending' = Pending /\ \A w : RecordOf(w)' = RecordOf(w)
    BY <1>2 DEF Pending, RecordOf
  <2> QED
    BY <1>2, <1>3, <2>1, <2>2, SentBy, SentLess
<1>8. \A w \in Works, x, m \in Nat : x > 0 /\ Version(w, x, m)' => Version(w, x, m)
  BY <1>2 DEF Version
<1>9. Compared' /\ Held(row') \subseteq stored'
  BY <1>2 DEF Compared, Traced
<1> QED
  BY <1>3, <1>7, <1>8, <1>9, TracedLess DEF RestType

\* The record let through was compared.
LEMMA TracedCheck ==
  ASSUME Shape, Traced, Compared, NEW s \in Slots, Check(s)
  PROVE  Traced' /\ Compared'
<1> DEFINE q == req[s]
           rec == Head1(s)
           verdict == Verdict(View(s), rec)
           f == IF verdict \in {"write", "conflict"} THEN {rec.row} ELSE {}
           found == [r \in DOMAIN q.found \cup f |-> IF r \in f THEN row[r].rev ELSE q.found[r]]
           at == IF verdict = "write" THEN "write" ELSE q.at
           todo == IF verdict = "write" THEN q.todo ELSE Tail(q.todo)
           bad == IF verdict = "write" THEN q.bad ELSE q.bad \cup {verdict}
           n == [q EXCEPT !.found = found, !.at = at, !.todo = todo, !.bad = bad]
<1>1. q \in PushType /\ Orderly(q) /\ q.at = "check" /\ q.todo # <<>> /\ q.todo \in Seq(Record)
  BY DEF Shape, PushesOK, Check, PushType
<1>2. rec = q.todo[1] /\ rec \in Record /\ 1 \in 1..Len(q.todo) /\ rec.row \in Rows
  BY <1>1, Remainder DEF Head1, Record
<1>3. req' = [req EXCEPT ![s] = n] /\ UNCHANGED <<row, phone, sync, left, stored>>
  <2>1. req' = [req EXCEPT ![s].found = found, ![s].at = at, ![s].todo = todo, ![s].bad = bad] /\ UNCHANGED <<row, phone, sync, left, stored>>
    BY DEF Check
  <2> HIDE DEF found, at, todo, bad
  <2>2. req \in [Slots -> PushType]
    BY DEF Shape, PushesOK
  <2> QED
    BY <2>1, <2>2
<1>4. n.at = at /\ n.todo = todo /\ n.mine = q.mine /\ n.found = found
  <2> HIDE DEF found, at, todo, bad
  <2> QED
    BY <1>1 DEF PushType
<1> HIDE DEF n
<1>5. req'[s] = n /\ \A t \in Slots \ {s} : req'[t] = req[t]
  BY <1>3 DEF Shape, PushesOK
<1>6. rec.row \notin DOMAIN q.mine
  BY <1>1, <1>2 DEF Orderly
<1>7. ASSUME verdict = "write"
      PROVE  found[rec.row] = 0 \/ rec.base = 0 \/ rec.base = found[rec.row]
  <2>1. ~Stale(View(s)[rec.row], rec)
    BY <1>7 DEF Verdict
  <2>2. View(s)[rec.row] = row[rec.row]
    BY <1>2, <1>6 DEF View
  <2>3. row[rec.row].rev \in Nat /\ rec.base \in Nat
    BY <1>2 DEF Shape, RowsOK, RowType, Record
  <2>4. row[rec.row].rev = 0 \/ rec.base = 0 \/ rec.base = row[rec.row].rev
    BY <2>1, <2>2, <2>3 DEF Stale
  <2>5. found[rec.row] = row[rec.row].rev
    BY <1>7
  <2> QED
    BY <2>4, <2>5
<1>8. at = "write" => verdict = "write" /\ todo = q.todo
  BY <1>1
<1>9. Elements(todo) \subseteq Elements(q.todo)
  BY <1>1, TailElements
<1> HIDE DEF q, rec, verdict, at, todo, found
<1>10. Compared'
  BY <1>2, <1>4, <1>5, <1>7, <1>8 DEF Compared
<1>11. \A t \in Slots : Elements(req'[t].todo) \subseteq Elements(req[t].todo) /\ req'[t].mine = req[t].mine
  BY <1>4, <1>5, <1>9 DEF q
<1>12. Pending' = Pending /\ \A w : RecordOf(w)' = RecordOf(w)
  BY <1>3 DEF Pending, RecordOf
<1>13. Sent' \subseteq Sent
  BY <1>3, <1>11, <1>12, SentBy, SentLess
<1>14. \A w \in Works, x, m \in Nat : x > 0 /\ Version(w, x, m)' => Version(w, x, m)
  BY <1>3, <1>11 DEF Version
<1>15. Held(row') \subseteq stored' /\ left' = left /\ left.edits \in Nat
  BY <1>3, SentAreRecords DEF Traced
<1> QED
  BY <1>10, <1>13, <1>14, <1>15, TracedLess

\* The upsert stores an edit under the revision it names or the next.
LEMMA TracedWrite ==
  ASSUME Shape, Traced, Compared, NEW s \in Slots, Write(s)
  PROVE  Traced' /\ Compared'
<1> DEFINE q == req[s]
           rec == Head1(s)
           u == Upserted(s)
           mine == [r \in DOMAIN q.mine \cup {rec.row} |-> IF r = rec.row THEN u ELSE q.mine[r]]
           n == [q EXCEPT !.at = "check", !.todo = Tail(q.todo), !.mine = mine]
<1>1. q \in PushType /\ Orderly(q) /\ q.at = "write" /\ q.todo # <<>> /\ q.todo \in Seq(Record)
  BY DEF Shape, PushesOK, Write, PushType, Orderly
<1>2. /\ rec = q.todo[1] /\ rec \in Record /\ q.found[rec.row] \in Nat
      /\ u.rev = Counted(rec, q.found[rec.row]) /\ u.edit = rec.edit
  BY <1>1, UpsertedOK
<1>3. rec \in Sent /\ Elements(Tail(q.todo)) \subseteq Elements(q.todo)
  BY <1>1, <1>2, TailElements, SentBy
<1>4. rec.base \in Nat /\ rec.edit \in Nat
  BY <1>2 DEF Record
<1>5. ASSUME rec.row \in Works PROVE u.rev = rec.base \/ u.rev = rec.base + 1
  <2>1. rec.base > 0 /\ (q.found[rec.row] = 0 \/ rec.base = q.found[rec.row])
    BY <1>1, <1>2, <1>3, <1>4, <1>5 DEF Traced, Compared
  <2> QED
    BY <1>2, <1>4, <2>1 DEF Counted
<1> HIDE DEF u, rec
<1>6. req' = [req EXCEPT ![s] = n] /\ UNCHANGED <<row, phone, sync, left, stored>>
  <2>1. req' = [req EXCEPT ![s].at = "check", ![s].todo = Tail(q.todo), ![s].mine = mine] /\ UNCHANGED <<row, phone, sync, left, stored>>
    BY DEF Write, u, rec
  <2>2. req \in [Slots -> PushType]
    BY DEF Shape, PushesOK
  <2> HIDE DEF mine
  <2> QED
    BY <2>1, <2>2
<1>7. n.at = "check" /\ n.mine = mine /\ n.todo = Tail(q.todo)
  <2> HIDE DEF mine
  <2> QED
    BY <1>1 DEF PushType
<1> HIDE DEF n
<1>8. req'[s] = n /\ \A t \in Slots \ {s} : req'[t] = req[t]
  BY <1>6 DEF Shape, PushesOK
<1>9. ASSUME NEW w \in Works, NEW x \in Nat, NEW m \in Nat, Version(w, x, m)'
      PROVE  Version(w, x, m) \/ (w = rec.row /\ x = rec.edit /\ m = u.rev)
  <2>1. <<w, x, m>> \in stored' \/ \E t \in Slots : w \in DOMAIN req'[t].mine /\ req'[t].mine[w].edit = x /\ req'[t].mine[w].rev = m
    BY <1>9 DEF Version
  <2>2. CASE <<w, x, m>> \in stored'
    BY <1>6, <2>2 DEF Version
  <2>3. ASSUME NEW t \in Slots, w \in DOMAIN req'[t].mine, req'[t].mine[w].edit = x, req'[t].mine[w].rev = m
        PROVE  Version(w, x, m) \/ (w = rec.row /\ x = rec.edit /\ m = u.rev)
    <3>1. CASE t # s
      BY <1>8, <2>3, <3>1 DEF Version
    <3>2. CASE t = s
      <4>1. w \in DOMAIN mine /\ mine[w].edit = x /\ mine[w].rev = m
        BY <1>7, <1>8, <2>3, <3>2
      <4> QED
        BY <1>2, <4>1 DEF Version
    <3> QED
      BY <3>1, <3>2
  <2> QED
    BY <2>1, <2>2, <2>3
<1> HIDE DEF mine
<1>10. Sent' \subseteq Sent
  <2>1. \A t \in Slots : Elements(req'[t].todo) \subseteq Sent
    BY <1>3, <1>7, <1>8, SentBy
  <2>2. Pending' = Pending /\ \A w : RecordOf(w)' = RecordOf(w)
    BY <1>6 DEF Pending, RecordOf
  <2> QED
    BY <1>6, <2>1, <2>2, SentBy, SentLess
<1>11. Sent \subseteq Record /\ left' = left /\ left.edits \in Nat /\ \A a \in Record : a.edit \in Nat /\ a.base \in Nat
  BY <1>6, SentAreRecords DEF Record
<1>12. ASSUME NEW w \in Works, NEW x \in Nat, NEW m \in Nat, NEW a \in Sent, x > 0, Version(w, x, m)', a.row = w, a.edit = x
       PROVE  m = a.base \/ m = a.base + 1
  <2>1. CASE Version(w, x, m)
    BY <1>12, <2>1 DEF Traced
  <2>2. CASE w = rec.row /\ x = rec.edit /\ m = u.rev
    <3>1. a.base = rec.base
      BY <1>3, <1>12, <2>2 DEF Traced
    <3> QED
      BY <1>5, <2>2, <3>1
  <2> QED
    BY <1>9, <1>12, <2>1, <2>2
<1>13. ASSUME NEW w \in Works, NEW x \in Nat, NEW m \in Nat, NEW k \in Nat, x > 0, Version(w, x, m)', Version(w, x, k)'
       PROVE  m <= k + 1
  <2>1. CASE Version(w, x, m) /\ Version(w, x, k)
    BY <1>13, <2>1 DEF Traced
  <2>2. CASE w = rec.row /\ x = rec.edit
    <3>1. (m = rec.base \/ m = rec.base + 1) /\ (k = rec.base \/ k = rec.base + 1)
      BY <1>3, <1>12, <1>13, <2>2
    <3> QED
      BY <1>4, <3>1
  <2> QED
    BY <1>9, <1>13, <2>1, <2>2
<1>14. ASSUME NEW w \in Works, NEW x \in Nat, NEW m \in Nat, x > 0, Version(w, x, m)'
       PROVE  x > left.edits
  <2>1. CASE Version(w, x, m)
    BY <1>14, <2>1 DEF Traced
  <2>2. CASE w = rec.row /\ x = rec.edit
    BY <1>3, <2>2 DEF Traced
  <2> QED
    BY <1>9, <1>14, <2>1, <2>2
<1>15. Held(row') \subseteq stored'
  BY <1>6 DEF Traced
<1>16. Compared'
  BY <1>7, <1>8 DEF Compared
<1>17. /\ \A a \in Sent' : a.row \in Works => a.base > 0 /\ a.edit > left'.edits
       /\ \A a, c \in Sent' : a.row \in Works /\ a.row = c.row /\ a.edit = c.edit => a.base = c.base
  BY <1>10, <1>11 DEF Traced
<1>18. /\ \A w \in Works, x, m \in Nat : x > 0 /\ Version(w, x, m)' => x > left'.edits
       /\ \A w \in Works, x, m \in Nat : \A a \in Sent' :
            x > 0 /\ Version(w, x, m)' /\ a.row = w /\ a.edit = x => m = a.base \/ m = a.base + 1
       /\ \A w \in Works, x, m, k \in Nat : x > 0 /\ Version(w, x, m)' /\ Version(w, x, k)' => m <= k + 1
  BY <1>10, <1>11, <1>12, <1>13, <1>14
<1> QED
  BY <1>15, <1>16, <1>17, <1>18 DEF Traced

\* A push that ends takes its records away.
LEMMA TracedEnded ==
  ASSUME Shape, Traced, Compared, NEW s \in Slots, Ended(s), left' = left, Pending' \subseteq Pending,
         \A w \in Pending' : RecordOf(w)' = RecordOf(w), \A k \in Syncs : Elements(sync'[k].batch) \subseteq Sent,
         \A w \in Works, x, n \in Nat : x > 0 /\ <<w, x, n>> \in stored' => Version(w, x, n),
         Held(row') \subseteq stored'
  PROVE  Traced' /\ Compared'
<1>1. /\ req'[s].at \notin {"check", "write"} /\ req'[s].mine = Empty /\ DOMAIN Empty = {} /\ req'[s].todo = <<>>
      /\ \A t \in Slots \ {s} : req'[t] = req[t]
  BY EndedOK DEF Shape, Empty
<1>2. Compared'
  BY <1>1 DEF Compared
<1>3. \A t \in Slots : Elements(req'[t].todo) \subseteq Sent
  BY <1>1, SentBy, NoElements
<1>4. Sent' \subseteq Sent
  BY <1>3, SentLess
<1>5. \A w \in Works, x, n \in Nat : x > 0 /\ Version(w, x, n)' => Version(w, x, n)
  BY <1>1 DEF Version
<1> QED
  BY <1>2, <1>4, <1>5, SentAreRecords, TracedLess

\* What is committed is what the push had written.
LEMMA TracedFinish ==
  ASSUME Shape, Traced, Compared, NEW s \in Slots, Finish(s)
  PROVE  Traced' /\ Compared'
<1>1. Ended(s) /\ row' = (IF Result(req[s].bad) = "ok" THEN View(s) ELSE row)
      /\ stored' = stored \cup Held(row') /\ UNCHANGED <<phone, sync, left>>
  BY FinishEnds
<1>2. ASSUME NEW w \in Works, NEW x \in Nat, NEW n \in Nat, x > 0, <<w, x, n>> \in stored' PROVE Version(w, x, n)
  <2>1. CASE <<w, x, n>> \in stored
    BY <2>1 DEF Version
  <2>2. CASE <<w, x, n>> \in Held(row')
    <3>1. row'[w].rev > 0 /\ row'[w].edit = x /\ row'[w].rev = n
      BY <2>2 DEF Held
    <3>2. CASE row'[w] = row[w]
      <4>1. <<w, x, n>> \in Held(row)
        BY <3>1, <3>2 DEF Held
      <4> QED
        BY <4>1 DEF Traced, Version
    <3>3. CASE row'[w] # row[w]
      <4>1. w \in DOMAIN req[s].mine /\ row'[w] = req[s].mine[w]
        BY <1>1, <3>3 DEF View, Rows
      <4> QED
        BY <3>1, <4>1 DEF Version
    <3> QED
      BY <3>2, <3>3
  <2> QED
    BY <1>1, <1>2, <2>1, <2>2
<1>3. Pending' = Pending /\ \A w : RecordOf(w)' = RecordOf(w)
  BY <1>1 DEF Pending, RecordOf
<1>4. Held(row') \subseteq stored'
  BY <1>1
<1> QED
  BY <1>1, <1>2, <1>3, <1>4, SentBy, TracedEnded

\* The other writers put no edit of the phone into the table.
LEMMA TracedOthers ==
  ASSUME Shape, Traced, Compared, OthersWrite
  PROVE  Traced' /\ Compared'
<1>1. /\ UNCHANGED <<req, phone, sync>> /\ ClientsOK'
      /\ stored' = stored \cup Held(row') /\ left'.batches = left.batches /\ left'.edits <= left.edits
      /\ \A w \in Works : row'[w] # row[w] => row'[w].edit = 0
  BY OthersWriteRows DEF Shape
<1>2. ASSUME NEW w \in Works, NEW x \in Nat, NEW n \in Nat, x > 0, Version(w, x, n)' PROVE Version(w, x, n)
  <2>1. <<w, x, n>> \in stored' \/ \E t \in Slots : w \in DOMAIN req'[t].mine /\ req'[t].mine[w].edit = x /\ req'[t].mine[w].rev = n
    BY <1>2 DEF Version
  <2>2. CASE <<w, x, n>> \in Held(row')
    <3>1. row'[w].rev > 0 /\ row'[w].edit = x /\ row'[w].rev = n
      BY <2>2 DEF Held
    <3>2. row'[w] = row[w]
      BY <1>1, <1>2, <3>1
    <3>3. <<w, x, n>> \in Held(row)
      BY <3>1, <3>2 DEF Held
    <3> QED
      BY <3>3 DEF Traced, Version
  <2> QED
    BY <1>1, <2>1, <2>2 DEF Version
<1>3. Sent' \subseteq Sent
  <2>1. Pending' = Pending /\ \A w : RecordOf(w)' = RecordOf(w)
    BY <1>1 DEF Pending, RecordOf
  <2> QED
    BY <1>1, <2>1, SentBy, SentLess
<1>4. left'.edits \in Nat /\ Held(row') \subseteq stored' /\ Compared'
  BY <1>1 DEF ClientsOK, RestType, Compared
<1> QED
  BY <1>1, <1>2, <1>3, <1>4, TracedLess

\* At first nothing of the phone is in the table.
LEMMA InitTraced ==
  ASSUME OtherClientsNameRevisions, Init
  PROVE  Traced /\ Compared
<1>1. PICK t \in Start : row = t.row /\ left = [t EXCEPT !.row = None]
  BY DEF Init
<1>2. /\ t \in Scene /\ (\A w \in Works : t.row[w].edit = 0)
      /\ \A b \in t.batches : \A i \in DOMAIN b : b[i].row \in Works =>
            /\ b[i].base > 0 /\ b[i].edit > t.edits
            /\ \A c \in t.batches : \A j \in DOMAIN c : c[j].row = b[i].row /\ c[j].edit = b[i].edit => c[j].base = b[i].base
  BY DeltaSyncAssumption DEF DeltaSyncAssumption, OtherClientsNameRevisions
<1>3. left.batches = t.batches /\ left.edits = t.edits /\ \A b \in t.batches : b \in Seq(Record) /\ DOMAIN b = 1..Len(b)
  BY <1>1, <1>2 DEF Scene
<1>4. /\ Pending = {} /\ (\A k \in Syncs : sync[k].batch = <<>>)
      /\ \A s \in Slots : req[s].todo = <<>> /\ req[s].mine = Empty /\ req[s].at = "idle"
  BY DEF Init, Pending, Off, Idle
<1>5. ASSUME NEW a \in Sent PROVE \E b \in t.batches : \E i \in DOMAIN b : a = b[i]
  <2>1. \E b \in left.batches : a \in Elements(b)
    BY <1>4, <1>5, NoElements DEF Sent
  <2> QED
    BY <1>3, <2>1 DEF Elements
<1>6. stored = Held(row) /\ DOMAIN Empty = {}
  BY DEF Init, Empty
<1>7. \A w \in Works, x, n \in Nat : Version(w, x, n) => x = 0
  <2> SUFFICES ASSUME NEW w \in Works, NEW x \in Nat, NEW n \in Nat, Version(w, x, n) PROVE x = 0
    OBVIOUS
  <2>1. <<w, x, n>> \in Held(row)
    BY <1>4, <1>6 DEF Version
  <2>2. row[w].edit = x
    BY <2>1 DEF Held
  <2> QED
    BY <1>1, <1>2, <2>2
<1>8. \A a \in Sent : a.row \in Works => a.base > 0 /\ a.edit > left.edits
  BY <1>2, <1>3, <1>5
<1>9. \A a, c \in Sent : a.row \in Works /\ a.row = c.row /\ a.edit = c.edit => a.base = c.base
  BY <1>2, <1>5
<1>10. /\ \A w \in Works, x, n \in Nat : ~(x > 0 /\ Version(w, x, n))
  BY <1>7
<1> QED
  BY <1>4, <1>6, <1>8, <1>9, <1>10 DEF Traced, Compared

\* Traced is kept by every step.
LEMMA NextTraced == Shape /\ Traced /\ Compared /\ [Next]_vars => Traced' /\ Compared'
<1> SUFFICES ASSUME Shape, Traced, Compared, [Next]_vars PROVE Traced' /\ Compared'
  OBVIOUS
<1>1. ASSUME NEW s \in Slots, Send(s) \/ Serve(s) PROVE Traced' /\ Compared'
  <2>1. CASE Send(s)
    BY <2>1, TracedAccept, SentBy DEF Send
  <2>2. CASE Check(s)
    BY <2>2, TracedCheck
  <2>3. CASE Write(s)
    BY <2>3, TracedWrite
  <2>4. CASE Finish(s)
    BY <2>4, TracedFinish
  <2>5. CASE Fail(s) \/ Discard(s)
    <3>1. Ended(s) /\ UNCHANGED <<row, phone, sync, left, stored>>
      BY <2>5, FailEnds
    <3>2. Pending' = Pending /\ \A w : RecordOf(w)' = RecordOf(w)
      BY <3>1 DEF Pending, RecordOf
    <3>3. \A w \in Works, x, n \in Nat : x > 0 /\ <<w, x, n>> \in stored' => Version(w, x, n)
      BY <3>1 DEF Version
    <3>4. Held(row') \subseteq stored'
      BY <3>1 DEF Traced
    <3> QED
      BY <3>1, <3>2, <3>3, <3>4, SentBy, TracedEnded
  <2> QED
    BY <1>1, <2>1, <2>2, <2>3, <2>4, <2>5 DEF Serve
<1>2. CASE OthersWrite
  BY <1>2, TracedOthers
<1>3. ASSUME NEW w \in Works, Edit(w) PROVE Traced' /\ Compared'
  BY <1>3, TracedEdit
<1>4. ASSUME NEW k \in Syncs, StartSync(k) PROVE Traced' /\ Compared'
  BY <1>4, TracedStartSync
<1>5. ASSUME NEW k \in Syncs, Pull(k) \/ NothingToPush(k) \/ Lose(k) PROVE Traced' /\ Compared'
  <2>1. UNCHANGED <<row, req, left, stored>> /\ sync \in [Syncs -> ClientType]
    BY <1>5 DEF Pull, NothingToPush, Lose, Shape, ClientsOK
  <2>2. Off.batch = <<>> /\ (Retried(k).batch = <<>> \/ Retried(k).batch = sync[k].batch)
    <3>1. Off.batch = <<>>
      BY DEF Off
    <3> QED
      BY <3>1, RetriedOK DEF Shape
  <2>3. CASE Pull(k)
    <3> DEFINE p == [w \in {q \in Works \cap Own : row[q].stamped} |-> [rev |-> row[w].rev, edit |-> row[w].edit, pending |-> FALSE]]
    <3>1. sync' = [sync EXCEPT ![k].at = "push", ![k].pulled = p] /\ phone' = phone
      BY <2>3 DEF Pull
    <3> HIDE DEF p
    <3>2. sync'[k].batch = sync[k].batch /\ \A j \in Syncs \ {k} : sync'[j] = sync[j]
      BY <2>1, <3>1 DEF ClientType
    <3> QED
      BY <2>1, <3>1, <3>2, TracedPhone
  <2>4. CASE NothingToPush(k) \/ Lose(k)
    <3>1. /\ sync' = [sync EXCEPT ![k] = Off] \/ sync' = [sync EXCEPT ![k] = Retried(k)]
          /\ phone' = phone \/ phone' = Pulled(k)
      BY <2>4 DEF NothingToPush, Lose
    <3>2. /\ sync'[k] = Off \/ sync'[k] = Retried(k)
          /\ \A j \in Syncs \ {k} : sync'[j] = sync[j]
      BY <2>1, <3>1
    <3> QED
      BY <2>1, <2>2, <3>1, <3>2, TracedPhone
  <2> QED
    BY <1>5, <2>3, <2>4
<1>6. ASSUME NEW k \in Syncs, Push(k) PROVE Traced' /\ Compared'
  <2>1. PICK s \in Slots : Accept(s, sync[k].batch) /\ sync' = [sync EXCEPT ![k].at = "wait", ![k].slot = s] /\ UNCHANGED phone
    BY <1>6 DEF Push
  <2>2. \A j \in Syncs : sync'[j].batch = sync[j].batch
    BY <2>1 DEF Shape, ClientsOK, ClientType
  <2> QED
    BY <2>1, <2>2, SentBy, TracedAccept
<1>7. ASSUME NEW k \in Syncs, Answered(k) PROVE Traced' /\ Compared'
  <2>1. sync[k].slot \in Slots /\ Ended(sync[k].slot) /\ UNCHANGED <<row, left, stored>>
    BY <1>7, AnsweredEnds DEF Shape
  <2>2. /\ sync' = [sync EXCEPT ![k] = Off] \/ sync' = [sync EXCEPT ![k] = Retried(k)]
        /\ phone' = phone \/ phone' = Pulled(k)
    BY <1>7 DEF Answered
  <2>3. Elements(Off.batch) = {} /\ (Elements(Retried(k).batch) = {} \/ Retried(k).batch = sync[k].batch)
    <3>1. Off.batch = <<>>
      BY DEF Off
    <3> QED
      BY <3>1, RetriedOK, NoElements DEF Shape
  <2>4. \A j \in Syncs : Elements(sync'[j].batch) \subseteq Sent
    <3>1. \A j \in Syncs \ {k} : sync'[j] = sync[j]
      BY <2>2 DEF Shape, ClientsOK
    <3>2. sync'[k] = Off \/ sync'[k] = Retried(k)
      BY <2>2 DEF Shape, ClientsOK
    <3> QED
      BY <2>3, <3>1, <3>2, SentBy
  <2>5. ASSUME NEW w \in Pending' PROVE w \in Pending /\ RecordOf(w)' = RecordOf(w)
    <3>1. w \in Works /\ phone'[w].pending
      BY DEF Pending
    <3>2. phone'[w] = phone[w]
      BY <2>2, <3>1, PulledOK DEF Shape
    <3> QED
      BY <3>1, <3>2 DEF Pending, RecordOf
  <2>6. \A w \in Works, x, n \in Nat : x > 0 /\ <<w, x, n>> \in stored' => Version(w, x, n)
    BY <2>1 DEF Version
  <2>7. Held(row') \subseteq stored'
    BY <2>1 DEF Traced
  <2> QED
    BY <2>1, <2>4, <2>5, <2>6, <2>7, TracedEnded
<1>8. CASE UNCHANGED vars
  <2>1. Sent' = Sent
    BY <1>8 DEF vars, Sent, Pending, RecordOf, Elements
  <2>2. \A w \in Works, x, n \in Nat : x > 0 /\ Version(w, x, n)' => Version(w, x, n)
    BY <1>8 DEF vars, Version
  <2>3. Held(row') \subseteq stored' /\ Compared' /\ left' = left
    BY <1>8 DEF vars, Compared, Traced
  <2> QED
    BY <2>1, <2>2, <2>3, SentAreRecords, TracedLess
<1> QED
  <2>1. CASE \/ \E d \in Days, entries \in {{}, Entries}, locks \in BOOLEAN : Decide(d, entries, locks)
             \/ \E e \in Entries, office \in BOOLEAN : Correct(e, office)
             \/ \E w \in Works : EnginePeriod(w) \/ SyncWorktimes(w)
    BY <1>2, <2>1 DEF OthersWrite
  <2> QED
    BY <1>1, <1>3, <1>4, <1>5, <1>6, <1>7, <1>8, <2>1 DEF Next, Proceed

\* An edit of the phone that has been replaced does not come back, however
\* often it is sent again, unless the push had looked before the replacement
\* or the replacement had left the revision as it was (DeltaSyncEngine.kt 46,
\* sync.routes.js 326). Assumed of other clients is that they name revisions
\* as the phone does: a push that names none is not compared at all.
THEOREM ReplacedEditsAreLeftReplaced ==
  ASSUME OtherClientsNameRevisions
  PROVE  Spec => ReplacedEditsStayReplaced
<1>1. Init => Traced /\ Compared
  BY InitTraced
<1>2. Shape /\ Traced /\ Compared /\ [Next]_vars => Traced' /\ Compared'
  BY NextTraced
<1> DEFINE Stays == \A w \in Works :
              LET x == row'[w].edit IN
              row[w].edit # x /\ x > 0 /\ (\E n \in 1..row[w].rev : <<w, x, n>> \in stored)
              => \/ \E s \in Slots : w \in DOMAIN req[s].mine /\ req[s].found[w] # row[w].rev
                 \/ <<w, x, row[w].rev>> \in stored
<1>3. Shape /\ Shape' /\ Traced /\ Compared /\ [Next]_vars => Stays
  <2> SUFFICES ASSUME Shape, Shape', Traced, [Next]_vars, NEW w \in Works, NEW x, x = row'[w].edit, row[w].edit # x, x > 0,
                      NEW n \in 1..row[w].rev, <<w, x, n>> \in stored,
                      \A s \in Slots : w \in DOMAIN req[s].mine => req[s].found[w] = row[w].rev
               PROVE  <<w, x, row[w].rev>> \in stored
    OBVIOUS
  <2>1. row'[w] # row[w] /\ row[w].rev \in Nat /\ x \in Nat /\ n \in Nat /\ n > 0 /\ n <= row[w].rev
    BY DEF Shape, RowsOK, RowType, Rows
  <2>2. ~OthersWrite
    BY <2>1, OthersWriteRows DEF Shape
  <2>3. PICK s \in Slots : Finish(s) /\ row' = View(s)
    BY <2>1, <2>2, RowsChange
  <2>4. w \in DOMAIN req[s].mine /\ row'[w] = req[s].mine[w]
    BY <2>1, <2>3 DEF View, Rows
  <2>5. req[s].found[w] = row[w].rev /\ Orderly(req[s])
    BY <2>4 DEF Shape, PushesOK
  <2>6. req[s].mine[w].rev = row[w].rev + 1
    BY <2>1, <2>4, <2>5 DEF Orderly
  <2>7. Version(w, x, row[w].rev + 1) /\ Version(w, x, n)
    BY <2>4, <2>6 DEF Version
  <2>8. row[w].rev + 1 <= n + 1
    BY <2>1, <2>7 DEF Traced
  <2>9. n = row[w].rev
    BY <2>1, <2>8
  <2> QED
    BY <2>9
<1> QED
  BY <1>1, <1>2, <1>3, ShapeHolds, PTL DEF Spec, ReplacedEditsStayReplaced

==============================================================================
