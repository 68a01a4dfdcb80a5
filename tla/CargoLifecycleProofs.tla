------------------------ MODULE CargoLifecycleProofs ------------------------
(***************************************************************************)
(* Proofs about CargoLifecycle, for every number of rows and of overlapping *)
(* requests.                                                               *)
(***************************************************************************)
EXTENDS CargoLifecycle, FiniteSetTheorems, TLAPS

USE CargoAssumption

\* A live row exists, and a row that exists has a status; only such rows were
\* ever saved.
RowOK(r) ==
    /\ r.live => r.rev > 0
    /\ r.rev > 0 => r.status \in Status
    /\ r.rev = 0 => r.saves = 0

\* What the checks of its endpoint established of a request in progress.
ReqOK(q) ==
    /\ q.stage # "idle" => q.cargo \in Cargo
    /\ q.stage = "begun" => q.kind = "transition" /\ q.to \in Status
    /\ q.stage = "unlogged" => q.kind \in {"delete", "resolve"}
    /\ q.stage = "unlogged" /\ q.kind = "resolve" => q.to \in Status
    /\ q.stage = "read" =>
          /\ q.rev > 0
          /\ q.saw \in Status
          /\ q.kind \in {"transition", "sync"} => <<q.saw, q.to>> \in DriverMove
          /\ q.kind \in {"transition", "sync", "resolve"} => q.to \in Status
          /\ q.kind = "edit" => EditAllowed(q.saw, q.to, q.reason)
          /\ q.kind = "delete" => q.saw \notin NonDeletable /\ q.to = None

\* No request has read a revision, or a save, that is still to come.
SeenOK(q, rows) ==
    q.stage = "read" => q.rev <= rows[q.cargo].rev /\ q.saves <= rows[q.cargo].saves

\* The shape of the state: types, and what they leave open about single values.
Shape ==
    /\ TypeOK
    /\ \A c \in Cargo : RowOK(row[c])
    /\ \A h \in Request : ReqOK(req[h]) /\ SeenOK(req[h], row)

-----------------------------------------------------------------------------
\* Lemmas about the values the actions build.

LEMMA UpdatedRow ==
    ASSUME NEW r \in Row, NEW s \in Status \cup {None}, NEW t \in 0 .. MaxClock
    PROVE  /\ Updated(r, s, t) \in Row
           /\ Updated(r, s, t).status = s
           /\ Updated(r, s, t).at = t
           /\ Updated(r, s, t).live = r.live
           /\ Updated(r, s, t).rev = r.rev + 1
           /\ Updated(r, s, t).saves = r.saves
<1>1. r.rev + 1 \in Nat
  BY DEF Row
<1>2. \A n \in Nat : LET e == [r EXCEPT !.status = s, !.at = t, !.rev = n]
                     IN  /\ e \in Row
                         /\ e.status = s /\ e.at = t /\ e.live = r.live /\ e.rev = n
                         /\ e.saves = r.saves
  BY DEF Row
<1> QED
  BY <1>1, <1>2 DEF Updated

LEMMA LoggedEvent ==
    ASSUME NEW f \in Status \cup {None}, NEW s \in Status \cup {None},
           NEW id \in EventId \cup {None}
    PROVE  /\ Logged(f, s, id) \in Event
           /\ Logged(f, s, id).from = f
           /\ Logged(f, s, id).to = s
           /\ Logged(f, s, id).id = id
BY DEF Logged, Event

LEMMA IdleReq == Idle \in Req /\ ReqOK(Idle) /\ Idle.stage = "idle"
BY DEF Idle, Req, ReqOK

LEMMA DriverMoveStatus ==
    ASSUME NEW f, NEW s, <<f, s>> \in DriverMove
    PROVE  f \in Status /\ s \in Status
BY DEF DriverMove, Status, Listed

\* Revisions and saves only grow.
Grows == \A c \in Cargo : row'[c].rev >= row[c].rev /\ row'[c].saves >= row[c].saves

\* One request changes, to a value that is in order, and rows only grow.
LEMMA OneRequest ==
    ASSUME Shape, NEW h \in Request, NEW q \in Req, ReqOK(q), SeenOK(q, row'),
           row' \in [Cargo -> Row], Grows, req' = [req EXCEPT ![h] = q]
    PROVE  /\ req' \in [Request -> Req]
           /\ \A k \in Request : ReqOK(req'[k]) /\ SeenOK(req'[k], row')
<1>1. req' \in [Request -> Req] /\ req'[h] = q /\ \A k \in Request \ {h} : req'[k] = req[k]
  BY DEF Shape, TypeOK
<1>2. ASSUME NEW k \in Request \ {h}
      PROVE  ReqOK(req[k]) /\ SeenOK(req[k], row')
  <2>1. req[k] \in Req /\ ReqOK(req[k]) /\ SeenOK(req[k], row)
    BY DEF Shape, TypeOK
  <2>2. ASSUME req[k].stage = "read"
        PROVE  /\ req[k].rev <= row'[req[k].cargo].rev
               /\ req[k].saves <= row'[req[k].cargo].saves
    <3>1. /\ req[k].cargo \in Cargo /\ req[k].rev <= row[req[k].cargo].rev
          /\ req[k].saves <= row[req[k].cargo].saves
      BY <2>1, <2>2 DEF ReqOK, SeenOK
    <3>2. /\ row'[req[k].cargo].rev >= row[req[k].cargo].rev
          /\ row'[req[k].cargo].saves >= row[req[k].cargo].saves
      BY <3>1 DEF Grows
    <3>3. /\ req[k].rev \in Nat /\ row[req[k].cargo].rev \in Nat
          /\ row'[req[k].cargo].rev \in Nat
          /\ req[k].saves \in Nat /\ row[req[k].cargo].saves \in Nat
          /\ row'[req[k].cargo].saves \in Nat
      BY <2>1, <3>1 DEF Shape, TypeOK, Req, Row
    <3> QED
      BY <3>1, <3>2, <3>3
  <2> QED
    BY <2>1, <2>2 DEF SeenOK
<1> QED
  BY <1>1, <1>2

LEMMA OneRow ==
    ASSUME Shape, NEW c \in Cargo, NEW r \in Row, RowOK(r),
           r.rev >= row[c].rev, r.saves >= row[c].saves, row' = [row EXCEPT ![c] = r]
    PROVE  /\ row' \in [Cargo -> Row]
           /\ \A d \in Cargo : RowOK(row'[d])
           /\ Grows
           /\ row'[c] = r
           /\ \A d \in Cargo \ {c} : row'[d] = row[d]
<1>1. /\ row' \in [Cargo -> Row] /\ row'[c] = r
      /\ \A d \in Cargo \ {c} : row'[d] = row[d]
  BY DEF Shape, TypeOK
<1>2. \A d \in Cargo : row[d].rev \in Nat /\ row[d].saves \in Nat
  BY DEF Shape, TypeOK, Row
<1>3. Grows
  BY <1>1, <1>2 DEF Grows
<1>4. \A d \in Cargo : RowOK(row'[d])
  BY <1>1 DEF Shape
<1> QED
  BY <1>1, <1>3, <1>4

LEMMA OneLog ==
    ASSUME Shape, NEW c \in Cargo, NEW e \in Event,
           log' = [log EXCEPT ![c] = Append(@, e)]
    PROVE  /\ log' \in [Cargo -> Seq(Event)]
           /\ log'[c] = Append(log[c], e)
           /\ Len(log'[c]) = Len(log[c]) + 1
           /\ Len(log[c]) + 1 \in DOMAIN log'[c] /\ log'[c][Len(log[c]) + 1] = e
           /\ \E i \in DOMAIN log'[c] : log'[c][i] = e
           /\ \A i \in DOMAIN log[c] : i \in DOMAIN log'[c] /\ log'[c][i] = log[c][i]
           /\ DOMAIN log'[c] = DOMAIN log[c] \cup {Len(log[c]) + 1}
           /\ \A d \in Cargo \ {c} : log'[d] = log[d]
<1>1. log \in [Cargo -> Seq(Event)]
  BY DEF Shape, TypeOK
<1>2. log'[c] = Append(log[c], e) /\ \A d \in Cargo \ {c} : log'[d] = log[d]
  BY <1>1
<1>3. log[c] \in Seq(Event) /\ Append(log[c], e) \in Seq(Event)
  BY <1>1
<1>4. log' \in [Cargo -> Seq(Event)]
  BY <1>1, <1>3
<1> QED
  BY <1>1, <1>2, <1>3, <1>4

\* A request that has read its row writes to a row that exists, and keeps it so.
LEMMA WriteStatusRow ==
    ASSUME Shape, NEW h \in Request, req[h].stage = "read", NEW s \in Status,
           WriteStatus(h, s)
    PROVE  /\ row' \in [Cargo -> Row]
           /\ \A d \in Cargo : RowOK(row'[d])
           /\ Grows
           /\ row'[req[h].cargo].status = s
           /\ row'[req[h].cargo].at = req[h].at
           /\ row'[req[h].cargo].live = row[req[h].cargo].live
           /\ row'[req[h].cargo].rev = row[req[h].cargo].rev + 1
           /\ row'[req[h].cargo].saves = row[req[h].cargo].saves
           /\ \A d \in Cargo \ {req[h].cargo} : row'[d] = row[d]
<1> DEFINE c == req[h].cargo
           r == Updated(row[c], s, req[h].at)
<1>1. /\ c \in Cargo /\ row[c] \in Row /\ RowOK(row[c])
      /\ req[h].at \in 0 .. MaxClock
  BY DEF Shape, TypeOK, ReqOK, Req
<1>2. /\ r \in Row /\ r.status = s /\ r.at = req[h].at
      /\ r.live = row[c].live /\ r.rev = row[c].rev + 1 /\ r.saves = row[c].saves
  BY <1>1, UpdatedRow
<1>3. RowOK(r) /\ r.rev >= row[c].rev /\ r.saves >= row[c].saves
  BY <1>1, <1>2 DEF RowOK, Row
<1>4. row' = [row EXCEPT ![c] = r]
  BY DEF WriteStatus
<1> HIDE DEF r
<1>5. /\ row' \in [Cargo -> Row] /\ Grows /\ \A d \in Cargo : RowOK(row'[d])
      /\ row'[c] = r /\ \A d \in Cargo \ {c} : row'[d] = row[d]
  BY <1>1, <1>2, <1>3, <1>4, OneRow
<1> QED
  BY <1>1, <1>2, <1>5

-----------------------------------------------------------------------------
\* The shape is inductive.

LEMMA ShapeInit == Init => Shape
<1> SUFFICES ASSUME Init PROVE Shape
  OBVIOUS
<1>1. \A c \in Cargo : /\ row[c] = [status |-> None, at |-> 0, live |-> FALSE,
                                 rev |-> 0, saves |-> 0]
                       /\ log[c] = << >>
  BY DEF Init
<1>2. row \in [Cargo -> Row] /\ \A c \in Cargo : RowOK(row[c])
  BY <1>1 DEF Init, Row, RowOK
<1>3. \A h \in Request : req[h] \in Req /\ ReqOK(req[h]) /\ SeenOK(req[h], row)
  BY IdleReq DEF Init, SeenOK
<1>4. req \in [Request -> Req]
  BY IdleReq DEF Init
<1>5. log \in [Cargo -> Seq(Event)]
  BY DEF Init
<1>6. clock \in 1 .. MaxClock /\ served \in 0 .. MaxServed /\ lost = {}
  BY DEF Init
<1> QED
  BY <1>2, <1>3, <1>4, <1>5, <1>6 DEF Shape, TypeOK, RowOK

\* What an arriving request records is in order.
LEMMA ArrivesShape ==
    ASSUME Shape, NEW h \in Request, NEW c \in Cargo, NEW s \in Status \cup {None},
           NEW reason \in BOOLEAN, NEW id \in EventId \cup {None}, NEW kind, NEW stage,
           <<kind, stage>> \in {<<"edit", "read">>, <<"delete", "read">>,
                               <<"resolve", "read">>, <<"transition", "begun">>},
           row[c].live,
           kind \in {"transition", "resolve"} => s \in Status,
           kind = "edit" => EditAllowed(row[c].status, s, reason),
           kind = "delete" => row[c].status \notin NonDeletable /\ s = None,
           Arrives(h, kind, stage, c, s, reason, id),
           UNCHANGED <<row, log, clock, lost>>
    PROVE  Shape'
<1> DEFINE q == [kind |-> kind, stage |-> stage, cargo |-> c, to |-> s, reason |-> reason,
                 id |-> id, at |-> clock,
                 saw |-> IF stage = "read" THEN row[c].status ELSE None,
                 rev |-> IF stage = "read" THEN row[c].rev ELSE 0,
                 saves |-> IF stage = "read" THEN row[c].saves ELSE 0]
<1>1. row[c] \in Row /\ RowOK(row[c]) /\ clock \in 0 .. MaxClock
  BY DEF Shape, TypeOK
<1>2. /\ row[c].rev \in Nat /\ row[c].rev > 0 /\ row[c].status \in Status
      /\ row[c].saves \in Nat
  BY <1>1 DEF RowOK, Row
<1>3. q \in Req
  BY <1>1, <1>2 DEF Req
<1>4. kind \notin {"sync"}
  OBVIOUS
<1>5. ReqOK(q)
  BY <1>2, <1>4 DEF ReqOK
<1>6. req' = [req EXCEPT ![h] = q] /\ served' \in 0 .. MaxServed
  BY DEF Arrives, TakeUp, Shape, TypeOK
<1>7. row' \in [Cargo -> Row] /\ Grows
  BY DEF Shape, TypeOK, Row, Grows
<1>8. SeenOK(q, row')
  BY <1>2 DEF SeenOK
<1> HIDE DEF q
<1>9. req' \in [Request -> Req] /\ \A k \in Request : ReqOK(req'[k]) /\ SeenOK(req'[k], row')
  BY <1>3, <1>5, <1>6, <1>7, <1>8, OneRequest
<1> QED
  BY <1>6, <1>9 DEF Shape, TypeOK

\* The end of a request.
LEMMA FinishShape ==
    ASSUME Shape, NEW h \in Request, Finish(h), row' \in [Cargo -> Row], Grows
    PROVE  /\ req' \in [Request -> Req]
           /\ \A k \in Request : ReqOK(req'[k]) /\ SeenOK(req'[k], row')
BY IdleReq, OneRequest DEF Finish, SeenOK

\* A request that goes on to its last statement.
LEMMA UnloggedShape ==
    ASSUME Shape, NEW h \in Request, req[h].stage = "read",
           req[h].kind \in {"delete", "resolve"},
           req' = [req EXCEPT ![h].stage = "unlogged"],
           row' \in [Cargo -> Row], Grows
    PROVE  /\ req' \in [Request -> Req]
           /\ \A k \in Request : ReqOK(req'[k]) /\ SeenOK(req'[k], row')
<1> DEFINE q == [req[h] EXCEPT !.stage = "unlogged"]
<1>1. req[h] \in Req /\ ReqOK(req[h])
  BY DEF Shape, TypeOK
<1>2. /\ q \in Req /\ q.stage = "unlogged" /\ q.kind = req[h].kind
      /\ q.cargo = req[h].cargo /\ q.to = req[h].to
  BY <1>1 DEF Req
<1>3. ReqOK(q) /\ SeenOK(q, row')
  BY <1>1, <1>2 DEF ReqOK, SeenOK
<1>4. req' = [req EXCEPT ![h] = q]
  BY DEF Shape, TypeOK
<1> HIDE DEF q
<1> QED
  BY <1>2, <1>3, <1>4, OneRequest

\* Rows that only grow leave what requests have read behind them.
LEMMA SeenStays ==
    ASSUME Shape, row' \in [Cargo -> Row], Grows
    PROVE  \A k \in Request : SeenOK(req[k], row')
<1> SUFFICES ASSUME NEW k \in Request, req[k].stage = "read"
             PROVE  /\ req[k].rev <= row'[req[k].cargo].rev
                    /\ req[k].saves <= row'[req[k].cargo].saves
  BY DEF SeenOK
<1>1. /\ req[k].cargo \in Cargo /\ req[k].rev \in Nat /\ req[k].saves \in Nat
      /\ req[k].rev <= row[req[k].cargo].rev /\ req[k].saves <= row[req[k].cargo].saves
  BY DEF Shape, TypeOK, Req, ReqOK, SeenOK
<1> QED
  BY <1>1 DEF Grows, Shape, TypeOK, Row

\* The row a save leaves behind.
LEMMA SavedRow ==
    ASSUME Shape, NEW c \in Cargo, NEW s \in AdminTo, SaveTour(c, s)
    PROVE  /\ row' \in [Cargo -> Row] /\ Grows /\ \A d \in Cargo : RowOK(row'[d])
           /\ row'[c].status = s
           /\ row'[c].saves = row[c].saves + 1
           /\ \A d \in Cargo \ {c} : row'[d] = row[d]
<1> DEFINE n == IF row[c].rev = 0 THEN 1 ELSE row[c].rev
           m == row[c].saves + 1
           r == [status |-> s, at |-> clock, live |-> TRUE, rev |-> n, saves |-> m]
<1>1. row[c].rev \in Nat /\ row[c].saves \in Nat /\ clock \in 0 .. MaxClock /\ s \in Status
  BY DEF Shape, TypeOK, Row
<1>2. n \in Nat /\ n > 0 /\ n >= row[c].rev /\ m \in Nat /\ m >= row[c].saves
  BY <1>1
<1>3. row' = [row EXCEPT ![c] = r]
  BY DEF SaveTour, Shape, TypeOK
<1> HIDE DEF n, m
<1>4. /\ r \in Row /\ RowOK(r) /\ r.status = s /\ r.saves = m
      /\ r.rev >= row[c].rev /\ r.saves >= row[c].saves
  BY <1>1, <1>2 DEF Row, RowOK
<1> HIDE DEF r
<1>5. /\ row' \in [Cargo -> Row] /\ Grows /\ \A d \in Cargo : RowOK(row'[d])
      /\ row'[c] = r /\ \A d \in Cargo \ {c} : row'[d] = row[d]
  BY <1>3, <1>4, OneRow
<1> QED
  BY <1>4, <1>5 DEF m

LEMMA ShapeSaveTour ==
    ASSUME Shape, NEW c \in Cargo, NEW s \in AdminTo, SaveTour(c, s)
    PROVE  Shape'
<1>1. row' \in [Cargo -> Row] /\ Grows /\ \A d \in Cargo : RowOK(row'[d])
  BY SavedRow
<1>2. \A k \in Request : SeenOK(req[k], row')
  BY <1>1, SeenStays
<1>3. /\ served' \in 0 .. MaxServed /\ lost' \subseteq Cargo \X (Status \cup {None})
      /\ UNCHANGED <<log, req, clock>>
  BY DEF SaveTour, TakeUp, Shape, TypeOK
<1> QED
  BY <1>1, <1>2, <1>3 DEF Shape, TypeOK, RowOK

LEMMA ShapeCreate ==
    ASSUME Shape, NEW c \in Cargo, NEW s \in AdminTo, Create(c, s)
    PROVE  Shape'
<1> DEFINE r == [status |-> s, at |-> clock, live |-> TRUE, rev |-> 1, saves |-> 0]
<1>1. r \in Row /\ RowOK(r) /\ s \in Status
  BY DEF Shape, TypeOK, Row, RowOK
<1>2. r.rev >= row[c].rev /\ r.saves >= row[c].saves /\ row' = [row EXCEPT ![c] = r]
  BY DEF Create, Shape, RowOK
<1> HIDE DEF r
<1>3. row' \in [Cargo -> Row] /\ Grows /\ \A d \in Cargo : RowOK(row'[d])
  BY <1>1, <1>2, OneRow
<1>4. log' \in [Cargo -> Seq(Event)]
  BY <1>1, LoggedEvent, OneLog DEF Create, Log
<1>5. \A k \in Request : SeenOK(req[k], row')
  BY <1>3, SeenStays
<1>6. served' \in 0 .. MaxServed
  BY DEF Create, TakeUp, Shape, TypeOK
<1>7. UNCHANGED <<req, clock, lost>>
  BY DEF Create
<1> QED
  BY <1>3, <1>4, <1>5, <1>6, <1>7 DEF Shape, TypeOK, RowOK

\* A request at its UPDATE: its row exists, so a write needs a status only.
LEMMA ReadingRow ==
    ASSUME Shape, NEW h \in Request, req[h].stage = "read"
    PROVE  /\ req[h] \in Req /\ ReqOK(req[h])
           /\ req[h].cargo \in Cargo /\ req[h].saw \in Status
           /\ row[req[h].cargo] \in Row /\ RowOK(row[req[h].cargo])
           /\ row[req[h].cargo].rev > 0 /\ row[req[h].cargo].status \in Status
<1>1. req[h] \in Req /\ ReqOK(req[h]) /\ SeenOK(req[h], row)
  BY DEF Shape, TypeOK
<1>2. /\ req[h].cargo \in Cargo /\ req[h].saw \in Status /\ req[h].rev > 0
      /\ req[h].rev <= row[req[h].cargo].rev
  BY <1>1 DEF ReqOK, SeenOK
<1>3. row[req[h].cargo] \in Row /\ RowOK(row[req[h].cargo])
  BY <1>2 DEF Shape, TypeOK
<1>4. row[req[h].cargo].rev > 0
  BY <1>1, <1>2, <1>3 DEF Row, Req
<1> QED
  BY <1>1, <1>2, <1>3, <1>4 DEF RowOK

LEMMA ShapeEditCommit ==
    ASSUME Shape, NEW h \in Request, EditCommit(h)
    PROVE  Shape'
<1> DEFINE c == req[h].cargo
           s == req[h].to
           w == IF s = None THEN row[c].status ELSE s
<1>1. /\ req[h].stage = "read" /\ WriteStatus(h, w) /\ Finish(h)
      /\ UNCHANGED <<clock, served, lost>>
      /\ IF s \notin {None, req[h].saw} THEN Log(c, Logged(req[h].saw, s, None))
                                         ELSE UNCHANGED log
  BY DEF EditCommit, Is
<1>2. /\ c \in Cargo /\ s \in Status \cup {None} /\ req[h].saw \in Status
      /\ row[c].status \in Status
  BY <1>1, ReadingRow DEF Req
<1>3. w \in Status
  BY <1>2
<1>4. row' \in [Cargo -> Row] /\ Grows /\ \A d \in Cargo : RowOK(row'[d])
  BY <1>1, <1>3, WriteStatusRow
<1>5. log' \in [Cargo -> Seq(Event)]
  <2>1. CASE s \notin {None, req[h].saw}
    BY <1>1, <1>2, <2>1, LoggedEvent, OneLog DEF Log
  <2>2. CASE s \in {None, req[h].saw}
    BY <1>1, <2>2 DEF Shape, TypeOK
  <2> QED
    BY <2>1, <2>2
<1>6. req' \in [Request -> Req] /\ \A k \in Request : ReqOK(req'[k]) /\ SeenOK(req'[k], row')
  BY <1>1, <1>4, FinishShape
<1> QED
  BY <1>1, <1>4, <1>5, <1>6 DEF Shape, TypeOK, RowOK

LEMMA DeletedRow ==
    ASSUME Shape, NEW h \in Request, DeleteMark(h)
    PROVE  /\ row' \in [Cargo -> Row] /\ Grows /\ \A d \in Cargo : RowOK(row'[d])
           /\ row'[req[h].cargo].status = row[req[h].cargo].status
           /\ ~row'[req[h].cargo].live
           /\ row'[req[h].cargo].rev = row[req[h].cargo].rev + 1
           /\ row'[req[h].cargo].saves = row[req[h].cargo].saves
           /\ \A d \in Cargo \ {req[h].cargo} : row'[d] = row[d]
<1> DEFINE c == req[h].cargo
           u == Updated(row[c], row[c].status, req[h].at)
           r == [u EXCEPT !.live = FALSE]
<1>1. /\ c \in Cargo /\ row[c] \in Row /\ RowOK(row[c]) /\ req[h].at \in 0 .. MaxClock
      /\ row[c].status \in Status
  BY ReadingRow DEF DeleteMark, Is, Req
<1>2. /\ u \in Row /\ u.status = row[c].status /\ u.rev = row[c].rev + 1
      /\ u.saves = row[c].saves
  BY <1>1, UpdatedRow
<1>3. row' = [row EXCEPT ![c] = r]
  BY DEF DeleteMark
<1> HIDE DEF u
<1>4. /\ r \in Row /\ r.status = row[c].status /\ r.rev = row[c].rev + 1
      /\ r.live = FALSE /\ r.saves = row[c].saves
  BY <1>2 DEF Row
<1>5. RowOK(r) /\ r.rev >= row[c].rev /\ r.saves >= row[c].saves
  BY <1>1, <1>4 DEF RowOK, Row
<1> HIDE DEF r
<1>6. /\ row' \in [Cargo -> Row] /\ Grows /\ \A d \in Cargo : RowOK(row'[d])
      /\ row'[c] = r
      /\ \A d \in Cargo \ {c} : row'[d] = row[d]
  BY <1>1, <1>3, <1>4, <1>5, OneRow
<1>7. /\ row'[c].status = row[c].status /\ row'[c].rev = row[c].rev + 1
      /\ row'[c].saves = row[c].saves
  BY <1>4, <1>6
<1>8. ~row'[c].live
  BY <1>4, <1>6
<1> QED
  BY <1>6, <1>7, <1>8

\* What the last statement of delete or resolve writes into the log.
LEMMA WrittenEvent ==
    ASSUME Shape, NEW h \in Request, WriteEvent(h)
    PROVE  /\ req[h].cargo \in Cargo
           /\ Logged(IF req[h].kind = "resolve" THEN req[h].saw ELSE None, req[h].to, None)
                 \in Event
<1>1. req[h] \in Req /\ ReqOK(req[h]) /\ req[h].stage = "unlogged"
  BY DEF Shape, TypeOK, WriteEvent
<1>2. /\ req[h].cargo \in Cargo /\ req[h].saw \in Status \cup {None}
      /\ req[h].to \in Status \cup {None}
  BY <1>1 DEF Req, ReqOK
<1> QED
  BY <1>2, LoggedEvent

LEMMA ShapeAdmin ==
    ASSUME Shape, NEW h \in Request, AdminStep(h)
    PROVE  Shape'
<1>1. CASE \E c \in Cargo, s \in AdminTo \cup {None}, reason \in BOOLEAN : EditRead(h, c, s, reason)
  <2>1. PICK c \in Cargo, s \in AdminTo \cup {None}, reason \in BOOLEAN : EditRead(h, c, s, reason)
    BY <1>1
  <2> QED
    BY <2>1, ArrivesShape DEF EditRead
<1>2. CASE EditCommit(h)
  BY <1>2, ShapeEditCommit
<1>3. CASE \E c \in Cargo : DeleteRead(h, c)
  <2>1. PICK c \in Cargo : DeleteRead(h, c)
    BY <1>3
  <2>2. PICK reason \in BOOLEAN : Arrives(h, "delete", "read", c, None, reason, None)
    BY <2>1, Zenon DEF DeleteRead
  <2> QED
    BY <2>1, <2>2, ArrivesShape DEF DeleteRead
<1>4. CASE DeleteMark(h)
  <2>1. /\ req[h].stage = "read" /\ req[h].kind \in {"delete", "resolve"}
        /\ req' = [req EXCEPT ![h].stage = "unlogged"]
        /\ UNCHANGED <<log, clock, served, lost>>
    BY <1>4 DEF DeleteMark, Is
  <2>2. row' \in [Cargo -> Row] /\ Grows /\ \A d \in Cargo : RowOK(row'[d])
    BY <1>4, DeletedRow
  <2>3. req' \in [Request -> Req] /\ \A k \in Request : ReqOK(req'[k]) /\ SeenOK(req'[k], row')
    BY <2>1, <2>2, UnloggedShape
  <2> QED
    BY <2>1, <2>2, <2>3 DEF Shape, TypeOK, RowOK
<1>5. CASE \E c \in Cargo, s \in AdminTo : ResolveRead(h, c, s)
  <2>1. PICK c \in Cargo, s \in AdminTo : ResolveRead(h, c, s)
    BY <1>5
  <2>2. PICK reason \in BOOLEAN : Arrives(h, "resolve", "read", c, s, reason, None)
    BY <2>1, Zenon DEF ResolveRead
  <2> QED
    BY <2>1, <2>2, ArrivesShape DEF ResolveRead
<1>6. CASE ResolveWrite(h)
  <2>1. /\ req[h].stage = "read" /\ req[h].kind = "resolve" /\ WriteStatus(h, req[h].to)
        /\ req' = [req EXCEPT ![h].stage = "unlogged"]
        /\ UNCHANGED <<log, clock, served, lost>>
    BY <1>6 DEF ResolveWrite, Is
  <2>2. req[h].to \in Status
    BY <2>1, ReadingRow DEF ReqOK
  <2>3. row' \in [Cargo -> Row] /\ Grows /\ \A d \in Cargo : RowOK(row'[d])
    BY <2>1, <2>2, WriteStatusRow
  <2>4. req' \in [Request -> Req] /\ \A k \in Request : ReqOK(req'[k]) /\ SeenOK(req'[k], row')
    BY <2>1, <2>3, UnloggedShape
  <2> QED
    BY <2>1, <2>3, <2>4 DEF Shape, TypeOK, RowOK
<1>7. CASE WriteEvent(h)
  <2>1. log' \in [Cargo -> Seq(Event)]
    BY <1>7, WrittenEvent, OneLog DEF WriteEvent, Log
  <2>2. row' \in [Cargo -> Row] /\ Grows
    BY <1>7 DEF WriteEvent, Shape, TypeOK, Row, Grows
  <2>3. req' \in [Request -> Req] /\ \A k \in Request : ReqOK(req'[k]) /\ SeenOK(req'[k], row')
    BY <1>7, <2>2, FinishShape DEF WriteEvent
  <2> QED
    BY <1>7, <2>1, <2>3 DEF Shape, TypeOK, RowOK, WriteEvent
<1> QED
  BY <1>1, <1>2, <1>3, <1>4, <1>5, <1>6, <1>7 DEF AdminStep

LEMMA ShapeTransitionRead ==
    ASSUME Shape, NEW h \in Request, TransitionRead(h)
    PROVE  Shape'
<1> DEFINE c == req[h].cargo
           q == [req[h] EXCEPT !.stage = "read", !.saw = row[c].status,
                               !.rev = row[c].rev, !.saves = row[c].saves]
<1>1. /\ req[h] \in Req /\ ReqOK(req[h])
      /\ req[h].stage = "begun" /\ req[h].kind = "transition"
      /\ UNCHANGED <<row, log, clock, served, lost>>
  BY DEF Shape, TypeOK, TransitionRead, Is
<1>2. c \in Cargo /\ row[c] \in Row /\ RowOK(row[c]) /\ req[h].to \in Status
  BY <1>1 DEF Shape, TypeOK, ReqOK
<1>3. row' \in [Cargo -> Row] /\ Grows
  BY <1>1 DEF Shape, TypeOK, Row, Grows
<1>4. req' \in [Request -> Req] /\ \A k \in Request : ReqOK(req'[k]) /\ SeenOK(req'[k], row')
  <2>1. CASE row[c].live /\ <<row[c].status, req[h].to>> \in DriverMove
    <3>1. /\ row[c].status \in Status /\ row[c].rev \in Nat /\ row[c].rev > 0
          /\ row[c].saves \in Nat
      BY <1>2, <2>1 DEF RowOK, Row
    <3>2. /\ q \in Req /\ q.stage = "read" /\ q.kind = "transition" /\ q.cargo = c
          /\ q.to = req[h].to /\ q.saw = row[c].status /\ q.rev = row[c].rev
          /\ q.saves = row[c].saves
      BY <1>1, <3>1 DEF Req
    <3>3. ReqOK(q) /\ SeenOK(q, row')
      BY <1>1, <1>2, <2>1, <3>1, <3>2 DEF ReqOK, SeenOK
    <3>4. req' = [req EXCEPT ![h].stage = "read", ![h].saw = row[c].status,
                             ![h].rev = row[c].rev, ![h].saves = row[c].saves]
      BY <2>1 DEF TransitionRead
    <3>5. req' = [req EXCEPT ![h] = q]
      BY <3>4 DEF Shape, TypeOK
    <3> HIDE DEF q
    <3> QED
      BY <1>3, <3>2, <3>3, <3>5, OneRequest
  <2>2. CASE ~(row[c].live /\ <<row[c].status, req[h].to>> \in DriverMove)
    BY <1>3, <2>2, FinishShape DEF TransitionRead
  <2> QED
    BY <2>1, <2>2
<1> QED
  BY <1>1, <1>4 DEF Shape, TypeOK, RowOK

LEMMA ShapeTransitionCommit ==
    ASSUME Shape, NEW h \in Request, TransitionCommit(h)
    PROVE  Shape'
<1>1. /\ req[h].stage = "read" /\ req[h].kind = "transition" /\ Finish(h)
      /\ UNCHANGED <<clock, served, lost>>
  BY DEF TransitionCommit, Is
<1>2. /\ row' \in [Cargo -> Row] /\ Grows /\ \A d \in Cargo : RowOK(row'[d])
      /\ log' \in [Cargo -> Seq(Event)]
  <2>1. CASE req[h].id # None /\ Recorded(req[h].id)
    BY <2>1 DEF TransitionCommit, Shape, TypeOK, Row, Grows
  <2>2. CASE ~(req[h].id # None /\ Recorded(req[h].id))
    <3>1. /\ WriteStatus(h, req[h].to)
          /\ Log(req[h].cargo, Logged(req[h].saw, req[h].to, req[h].id))
      BY <2>2 DEF TransitionCommit
    <3>2. /\ req[h].cargo \in Cargo /\ req[h].saw \in Status /\ req[h].to \in Status
          /\ req[h].id \in EventId \cup {None}
      BY <1>1, ReadingRow DEF ReqOK, Req
    <3>3. row' \in [Cargo -> Row] /\ Grows /\ \A d \in Cargo : RowOK(row'[d])
      BY <1>1, <3>1, <3>2, WriteStatusRow
    <3>4. Logged(req[h].saw, req[h].to, req[h].id) \in Event
      BY <3>2, LoggedEvent
    <3>5. log' \in [Cargo -> Seq(Event)]
      BY <3>1, <3>2, <3>4, OneLog DEF Log
    <3> QED
      BY <3>3, <3>5
  <2> QED
    BY <2>1, <2>2
<1>3. req' \in [Request -> Req] /\ \A k \in Request : ReqOK(req'[k]) /\ SeenOK(req'[k], row')
  BY <1>1, <1>2, FinishShape
<1> QED
  BY <1>1, <1>2, <1>3 DEF Shape, TypeOK, RowOK

LEMMA ShapeSyncRead ==
    ASSUME Shape, NEW h \in Request, NEW c \in Cargo, NEW s \in DriverTo,
           NEW t \in 1 .. MaxClock, SyncRead(h, c, s, t)
    PROVE  Shape'
<1> DEFINE q == [kind |-> "sync", stage |-> "read", cargo |-> c, to |-> s, reason |-> FALSE,
                 id |-> None, at |-> t, saw |-> row[c].status, rev |-> row[c].rev,
                 saves |-> row[c].saves]
<1>1. /\ row[c] \in Row /\ RowOK(row[c]) /\ row[c].live
      /\ <<row[c].status, s>> \in DriverMove
      /\ req' = [req EXCEPT ![h] = q] /\ served' \in 0 .. MaxServed
      /\ UNCHANGED <<row, log, clock, lost>>
  BY DEF SyncRead, TakeUp, Shape, TypeOK
<1>2. /\ row[c].status \in Status /\ s \in Status /\ row[c].rev \in Nat
      /\ row[c].rev > 0 /\ t \in 0 .. MaxClock /\ row[c].saves \in Nat
  BY <1>1, DriverMoveStatus DEF RowOK, Row, Shape, TypeOK
<1>3. q \in Req
  BY <1>2 DEF Req
<1>4. ReqOK(q) /\ SeenOK(q, row')
  BY <1>1, <1>2 DEF ReqOK, SeenOK
<1>5. row' \in [Cargo -> Row] /\ Grows
  BY <1>1 DEF Shape, TypeOK, Row, Grows
<1> HIDE DEF q
<1>6. req' \in [Request -> Req] /\ \A k \in Request : ReqOK(req'[k]) /\ SeenOK(req'[k], row')
  BY <1>1, <1>3, <1>4, <1>5, OneRequest
<1> QED
  BY <1>1, <1>6 DEF Shape, TypeOK, RowOK

LEMMA ShapeSyncCommit ==
    ASSUME Shape, NEW h \in Request, SyncCommit(h)
    PROVE  Shape'
<1>1. /\ req[h].stage = "read" /\ req[h].kind = "sync" /\ Finish(h)
      /\ Log(req[h].cargo, Logged(req[h].saw, req[h].to, None))
      /\ UNCHANGED <<clock, served, lost>>
  BY DEF SyncCommit, Is
<1>2. req[h].cargo \in Cargo /\ req[h].saw \in Status /\ req[h].to \in Status
  BY <1>1, ReadingRow DEF ReqOK
<1>3. row' \in [Cargo -> Row] /\ Grows /\ \A d \in Cargo : RowOK(row'[d])
  <2>1. CASE row[req[h].cargo].live
    BY <1>1, <1>2, <2>1, WriteStatusRow DEF SyncCommit
  <2>2. CASE ~row[req[h].cargo].live
    BY <2>2 DEF SyncCommit, Shape, TypeOK, Row, Grows
  <2> QED
    BY <2>1, <2>2
<1>4. log' \in [Cargo -> Seq(Event)]
  BY <1>1, <1>2, LoggedEvent, OneLog DEF Log
<1>5. req' \in [Request -> Req] /\ \A k \in Request : ReqOK(req'[k]) /\ SeenOK(req'[k], row')
  BY <1>1, <1>3, FinishShape
<1> QED
  BY <1>1, <1>3, <1>4, <1>5 DEF Shape, TypeOK, RowOK

LEMMA ShapeDriver ==
    ASSUME Shape, NEW h \in Request, DriverStep(h)
    PROVE  Shape'
<1>1. CASE \E c \in Cargo, s \in DriverTo, id \in EventId \cup {None} : TransitionArrive(h, c, s, id)
  <2>1. PICK c \in Cargo, s \in DriverTo, id \in EventId \cup {None} : TransitionArrive(h, c, s, id)
    BY <1>1
  <2>2. s \in Status
    BY DEF DriverTo, Status, Listed
  <2>3. PICK reason \in BOOLEAN : Arrives(h, "transition", "begun", c, s, reason, id)
    BY <2>1, Zenon DEF TransitionArrive
  <2> QED
    BY <2>1, <2>2, <2>3, ArrivesShape DEF TransitionArrive
<1>2. CASE TransitionRead(h)
  BY <1>2, ShapeTransitionRead
<1>3. CASE TransitionCommit(h)
  BY <1>3, ShapeTransitionCommit
<1>4. CASE \E c \in Cargo, s \in DriverTo, t \in 1 .. MaxClock : SyncRead(h, c, s, t)
  BY <1>4, ShapeSyncRead
<1>5. CASE SyncCommit(h)
  BY <1>5, ShapeSyncCommit
<1> QED
  BY <1>1, <1>2, <1>3, <1>4, <1>5 DEF DriverStep

LEMMA ShapeAbandon ==
    ASSUME Shape, NEW h \in Request, Abandon(h)
    PROVE  Shape'
<1>1. row' \in [Cargo -> Row] /\ Grows
  BY DEF Abandon, Shape, TypeOK, Row, Grows
<1>2. req' \in [Request -> Req] /\ \A k \in Request : ReqOK(req'[k]) /\ SeenOK(req'[k], row')
  BY <1>1, FinishShape DEF Abandon
<1>3. req[h].cargo \in Cargo /\ req[h].to \in Status \cup {None}
  BY DEF Shape, TypeOK, ReqOK, Req, Abandon
<1>4. lost' \subseteq Cargo \X (Status \cup {None})
  BY <1>3 DEF Abandon, Shape, TypeOK
<1> QED
  BY <1>2, <1>4 DEF Shape, TypeOK, Abandon, RowOK

LEMMA ShapeStep == Shape /\ [Next]_vars => Shape'
<1> SUFFICES ASSUME Shape, [Next]_vars PROVE Shape'
  OBVIOUS
<1>1. CASE \E c \in Cargo, s \in AdminTo : Create(c, s) \/ SaveTour(c, s)
  BY <1>1, ShapeCreate, ShapeSaveTour
<1>2. ASSUME NEW h \in Request, AdminStep(h) PROVE Shape'
  BY <1>2, ShapeAdmin
<1>3. ASSUME NEW h \in Request, DriverStep(h) PROVE Shape'
  BY <1>3, ShapeDriver
<1>4. ASSUME NEW h \in Request, Abandon(h) PROVE Shape'
  BY <1>4, ShapeAbandon
<1>5. CASE Tick
  BY <1>5 DEF Tick, Shape, TypeOK
<1>6. CASE UNCHANGED vars
  BY <1>6 DEF vars, Shape, TypeOK
<1> QED
  BY <1>1, <1>2, <1>3, <1>4, <1>5, <1>6 DEF Next

\* The variables keep their types, and a row that exists keeps a status
\* whatever an edit leaves out of its body.
THEOREM TypeCorrect == Spec => []TypeOK
<1>1. Shape => TypeOK
  BY DEF Shape
<1> QED
  BY <1>1, ShapeInit, ShapeStep, PTL DEF Spec
-----------------------------------------------------------------------------
\* The revision tells every race.

\* Only h's request changes, and every row that changes gets a new revision or
\* is saved: what other requests hold about an unchanged revision stays true.
LEMMA SeenKept ==
    ASSUME Shape, SeenRevisionMeansSeenRow, NEW h \in Request,
           \A k \in Request \ {h} : req'[k] = req[k],
           \A c \in Cargo : row'[c] = row[c] \/ row'[c].rev = row[c].rev + 1
                                            \/ row'[c].saves = row[c].saves + 1,
           req'[h].stage = "read" /\ row'[req'[h].cargo].rev = req'[h].rev
              /\ row'[req'[h].cargo].saves = req'[h].saves =>
              /\ row'[req'[h].cargo].live
              /\ row'[req'[h].cargo].status = req'[h].saw
              /\ req'[h].kind = "sync" => req'[h].at >= row'[req'[h].cargo].at
    PROVE  SeenRevisionMeansSeenRow'
<1> SUFFICES ASSUME NEW k \in Request \ {h}, req[k].stage = "read",
                    row'[req[k].cargo].rev = req[k].rev,
                    row'[req[k].cargo].saves = req[k].saves
             PROVE  /\ row'[req[k].cargo].live
                    /\ row'[req[k].cargo].status = req[k].saw
                    /\ req[k].kind = "sync" => req[k].at >= row'[req[k].cargo].at
  BY DEF SeenRevisionMeansSeenRow, Reading, Unraced
<1>1. /\ req[k].cargo \in Cargo /\ req[k].rev \in Nat
      /\ row[req[k].cargo].rev \in Nat /\ req[k].rev <= row[req[k].cargo].rev
      /\ req[k].saves \in Nat /\ row[req[k].cargo].saves \in Nat
      /\ req[k].saves <= row[req[k].cargo].saves
  BY ReadingRow DEF Shape, TypeOK, Req, Row, SeenOK
<1>2. row'[req[k].cargo] = row[req[k].cargo]
  BY <1>1
<1> QED
  BY <1>2 DEF SeenRevisionMeansSeenRow, Reading, Unraced

LEMMA SeenStep ==
    Shape /\ SeenRevisionMeansSeenRow /\ [Next]_vars => SeenRevisionMeansSeenRow'
<1> SUFFICES ASSUME Shape, SeenRevisionMeansSeenRow, [Next]_vars
             PROVE  SeenRevisionMeansSeenRow'
  OBVIOUS
<1> USE DEF Is
<1>t. req \in [Request -> Req] /\ row \in [Cargo -> Row]
  BY DEF Shape, TypeOK
<1>1. ASSUME NEW c \in Cargo, NEW s \in AdminTo, Create(c, s)
      PROVE  SeenRevisionMeansSeenRow'
  <2> SUFFICES ASSUME NEW k \in Request, req[k].stage = "read"
               PROVE  row'[req[k].cargo] = row[req[k].cargo]
    BY <1>1 DEF Create, SeenRevisionMeansSeenRow, Reading, Unraced
  <2>1. req[k].cargo \in Cargo /\ row[req[k].cargo].rev > 0
    BY ReadingRow
  <2>2. row[c].rev = 0 /\ \A d \in Cargo \ {c} : row'[d] = row[d]
    BY <1>1, <1>t DEF Create
  <2> QED
    BY <2>1, <2>2
<1>0. ASSUME NEW c \in Cargo, NEW s \in AdminTo, SaveTour(c, s)
      PROVE  SeenRevisionMeansSeenRow'
  <2>1. ASSUME NEW k \in Request, req[k].stage = "read", req[k].cargo = c
        PROVE  row'[c].saves # req[k].saves
    <3>1. row'[c].saves = row[c].saves + 1 /\ row[c].saves \in Nat
      BY <1>0, SavedRow DEF Shape, TypeOK, Row
    <3>2. req[k].saves \in Nat /\ req[k].saves <= row[c].saves
      BY <2>1 DEF Shape, TypeOK, Req, SeenOK
    <3> QED
      BY <3>1, <3>2
  <2>2. ASSUME NEW k \in Request, req[k].stage = "read", req[k].cargo # c
        PROVE  row'[req[k].cargo] = row[req[k].cargo]
    BY <1>0, <2>2, ReadingRow, SavedRow
  <2> QED
    BY <1>0, <2>1, <2>2 DEF SaveTour, SeenRevisionMeansSeenRow, Reading, Unraced
\* Reads: the request holds what the row has now.
<1>2. ASSUME NEW h \in Request, NEW q, req' = [req EXCEPT ![h] = q], UNCHANGED row,
             q.stage = "read" => /\ row[q.cargo].live /\ row[q.cargo].status = q.saw
                                 /\ q.kind = "sync" => q.at >= row[q.cargo].at
      PROVE  SeenRevisionMeansSeenRow'
  <2>1. req'[h] = q /\ \A k \in Request \ {h} : req'[k] = req[k]
    BY <1>2, <1>t
  <2> QED
    BY <1>2, <2>1, SeenKept
\* Writes: the request is done with its read.
<1>3. ASSUME NEW h \in Request, NEW q, req' = [req EXCEPT ![h] = q], q.stage # "read",
             \A c \in Cargo : row'[c] = row[c] \/ row'[c].rev = row[c].rev + 1
      PROVE  SeenRevisionMeansSeenRow'
  <2>1. req'[h] = q /\ \A k \in Request \ {h} : req'[k] = req[k]
    BY <1>3, <1>t
  <2> QED
    BY <1>3, <2>1, SeenKept
<1>4. ASSUME NEW h \in Request, req[h].stage = "read", NEW s \in Status, WriteStatus(h, s)
      PROVE  \A c \in Cargo : row'[c] = row[c] \/ row'[c].rev = row[c].rev + 1
  BY <1>4, WriteStatusRow
<1>5. ASSUME NEW h \in Request, NEW c \in Cargo, NEW kind, NEW stage, NEW s,
             NEW reason, NEW id, kind # "sync", row[c].live,
             Arrives(h, kind, stage, c, s, reason, id), UNCHANGED row
      PROVE  SeenRevisionMeansSeenRow'
  <2> DEFINE q == [kind |-> kind, stage |-> stage, cargo |-> c, to |-> s, reason |-> reason,
                   id |-> id, at |-> clock,
                   saw |-> IF stage = "read" THEN row[c].status ELSE None,
                   rev |-> IF stage = "read" THEN row[c].rev ELSE 0,
                   saves |-> IF stage = "read" THEN row[c].saves ELSE 0]
  <2>1. req' = [req EXCEPT ![h] = q]
    BY <1>5 DEF Arrives
  <2>2. /\ q.stage = stage /\ q.cargo = c /\ q.kind = kind
        /\ stage = "read" => q.saw = row[c].status
    OBVIOUS
  <2> HIDE DEF q
  <2> QED
    BY <1>2, <1>5, <2>1, <2>2
<1>6. ASSUME NEW h \in Request, AdminStep(h) PROVE SeenRevisionMeansSeenRow'
  <2>1. ASSUME NEW c \in Cargo, NEW s \in AdminTo \cup {None}, NEW reason \in BOOLEAN,
               EditRead(h, c, s, reason)
        PROVE  SeenRevisionMeansSeenRow'
    BY <1>5, <2>1 DEF EditRead
  <2>2. CASE EditCommit(h)
    <3>1. req[h].stage = "read" /\ req' = [req EXCEPT ![h] = Idle]
      BY <2>2 DEF EditCommit, Finish
    <3>2. PICK s \in Status : WriteStatus(h, s)
      <4>1. /\ row[req[h].cargo].status \in Status /\ req[h].to \in Status \cup {None}
        BY <3>1, ReadingRow DEF Req
      <4> QED
        BY <2>2, <4>1 DEF EditCommit
    <3> QED
      BY <1>3, <1>4, <3>1, <3>2, IdleReq
  <2>3. ASSUME NEW c \in Cargo, DeleteRead(h, c) PROVE SeenRevisionMeansSeenRow'
    <3>1. PICK reason \in BOOLEAN : Arrives(h, "delete", "read", c, None, reason, None)
      BY <2>3, Zenon DEF DeleteRead
    <3> QED
      BY <1>5, <2>3, <3>1 DEF DeleteRead
  <2>4. CASE DeleteMark(h)
    <3>1. \A c \in Cargo : row'[c] = row[c] \/ row'[c].rev = row[c].rev + 1
      BY <2>4, DeletedRow
    <3>2. req' = [req EXCEPT ![h] = [req[h] EXCEPT !.stage = "unlogged"]]
      BY <2>4, <1>t DEF DeleteMark
    <3>3. [req[h] EXCEPT !.stage = "unlogged"].stage # "read"
      BY <1>t DEF Req
    <3> QED
      BY <1>3, <3>1, <3>2, <3>3
  <2>5. ASSUME NEW c \in Cargo, NEW s \in AdminTo, ResolveRead(h, c, s)
        PROVE  SeenRevisionMeansSeenRow'
    <3>1. PICK reason \in BOOLEAN : Arrives(h, "resolve", "read", c, s, reason, None)
      BY <2>5, Zenon DEF ResolveRead
    <3> QED
      BY <1>5, <2>5, <3>1 DEF ResolveRead
  <2>6. CASE ResolveWrite(h)
    <3>1. req[h].stage = "read" /\ WriteStatus(h, req[h].to) /\ req[h].to \in Status
      BY <2>6, ReadingRow DEF ResolveWrite, ReqOK
    <3>2. req' = [req EXCEPT ![h] = [req[h] EXCEPT !.stage = "unlogged"]]
      BY <2>6, <1>t DEF ResolveWrite
    <3>3. [req[h] EXCEPT !.stage = "unlogged"].stage # "read"
      BY <1>t DEF Req
    <3> QED
      BY <1>3, <1>4, <3>1, <3>2, <3>3
  <2>7. CASE WriteEvent(h)
    BY <1>2, <2>7, IdleReq DEF WriteEvent, Finish
  <2> QED
    BY <1>6, <2>1, <2>2, <2>3, <2>4, <2>5, <2>6, <2>7 DEF AdminStep
<1>7. ASSUME NEW h \in Request, DriverStep(h) PROVE SeenRevisionMeansSeenRow'
  <2>1. ASSUME NEW c \in Cargo, NEW s \in DriverTo, NEW id \in EventId \cup {None},
               TransitionArrive(h, c, s, id)
        PROVE  SeenRevisionMeansSeenRow'
    <3>1. PICK reason \in BOOLEAN : Arrives(h, "transition", "begun", c, s, reason, id)
      BY <2>1, Zenon DEF TransitionArrive
    <3> QED
      BY <1>5, <2>1, <3>1 DEF TransitionArrive
  <2>2. CASE TransitionRead(h)
    <3>1. CASE row[req[h].cargo].live /\ <<row[req[h].cargo].status, req[h].to>> \in DriverMove
      <4> DEFINE q == [req[h] EXCEPT !.stage = "read", !.saw = row[req[h].cargo].status,
                                     !.rev = row[req[h].cargo].rev,
                                     !.saves = row[req[h].cargo].saves]
      <4>1. req' = [req EXCEPT ![h] = q] /\ UNCHANGED row
        BY <2>2, <3>1, <1>t DEF TransitionRead
      <4>2. /\ q.cargo = req[h].cargo /\ q.saw = row[req[h].cargo].status
            /\ q.kind = "transition"
        BY <2>2, <1>t DEF Req, TransitionRead
      <4> HIDE DEF q
      <4> QED
        BY <1>2, <3>1, <4>1, <4>2
    <3>2. CASE ~(row[req[h].cargo].live /\ <<row[req[h].cargo].status, req[h].to>> \in DriverMove)
      BY <1>2, <2>2, <3>2, IdleReq DEF TransitionRead, Finish
    <3> QED
      BY <3>1, <3>2
  <2>3. CASE TransitionCommit(h)
    <3>1. req[h].stage = "read" /\ req' = [req EXCEPT ![h] = Idle] /\ req[h].to \in Status
      BY <2>3, ReadingRow DEF TransitionCommit, Finish, ReqOK
    <3>2. UNCHANGED row \/ WriteStatus(h, req[h].to)
      BY <2>3 DEF TransitionCommit
    <3> QED
      BY <1>3, <1>4, <3>1, <3>2, IdleReq
  <2>4. ASSUME NEW c \in Cargo, NEW s \in DriverTo, NEW t \in 1 .. MaxClock, SyncRead(h, c, s, t)
        PROVE  SeenRevisionMeansSeenRow'
    <3> DEFINE q == [kind |-> "sync", stage |-> "read", cargo |-> c, to |-> s,
                     reason |-> FALSE, id |-> None, at |-> t, saw |-> row[c].status,
                     rev |-> row[c].rev, saves |-> row[c].saves]
    <3>1. req' = [req EXCEPT ![h] = q] /\ UNCHANGED row /\ row[c].live /\ t >= row[c].at
      BY <2>4 DEF SyncRead
    <3>2. q.cargo = c /\ q.saw = row[c].status /\ q.at = t
      OBVIOUS
    <3> HIDE DEF q
    <3> QED
      BY <1>2, <3>1, <3>2
  <2>5. CASE SyncCommit(h)
    <3>1. req[h].stage = "read" /\ req' = [req EXCEPT ![h] = Idle] /\ req[h].to \in Status
      BY <2>5, ReadingRow DEF SyncCommit, Finish, ReqOK
    <3>2. UNCHANGED row \/ WriteStatus(h, req[h].to)
      BY <2>5 DEF SyncCommit
    <3> QED
      BY <1>3, <1>4, <3>1, <3>2, IdleReq
  <2> QED
    BY <1>7, <2>1, <2>2, <2>3, <2>4, <2>5 DEF DriverStep
<1>8. ASSUME NEW h \in Request, Abandon(h) PROVE SeenRevisionMeansSeenRow'
  BY <1>2, <1>8, IdleReq DEF Abandon, Finish
<1>9. CASE Tick
  BY <1>9 DEF Tick, SeenRevisionMeansSeenRow, Reading, Unraced
<1>10. CASE UNCHANGED vars
  BY <1>10 DEF vars, SeenRevisionMeansSeenRow, Reading, Unraced
<1> QED
  BY <1>0, <1>1, <1>6, <1>7, <1>8, <1>9, <1>10 DEF Next

\* A request whose row still has the revision it read, and was not saved by the
\* tour editor, still sees the row as it is: comparing revisions in the UPDATEs
\* would catch every other race.
THEOREM RevisionTellsRaces == Spec => []SeenRevisionMeansSeenRow
<1>1. Init => SeenRevisionMeansSeenRow
  BY IdleReq DEF Init, SeenRevisionMeansSeenRow, Reading
<1> QED
  BY <1>1, ShapeInit, ShapeStep, SeenStep, PTL DEF Spec
-----------------------------------------------------------------------------
\* Writes that no other writer overlapped.

\* The one step of a reading request that changes its row without ending
\* elsewhere: each kind of write, on the row as the request read it, is legal.
LEMMA LegalWrite ==
    ASSUME Shape, SeenRevisionMeansSeenRow, [Next]_vars, NEW h \in Request,
           Reading(h), req'[h] # req[h], Unraced(h),
           row'[req[h].cargo] # row[req[h].cargo]
    PROVE  Legal(h, row[req[h].cargo], row'[req[h].cargo])
<1> DEFINE c == req[h].cargo
<1> USE DEF Is, Reading
<1>t. req \in [Request -> Req] /\ row \in [Cargo -> Row]
  BY DEF Shape, TypeOK
<1>1. /\ req[h] \in Req /\ ReqOK(req[h]) /\ c \in Cargo
      /\ row[c].live /\ row[c].status = req[h].saw
      /\ req[h].kind = "sync" => req[h].at >= row[c].at
      /\ req[h].saw \in Status
  BY ReadingRow DEF SeenRevisionMeansSeenRow
\* Any other step leaves h's request alone, or its row.
<1>2. \/ EditCommit(h) \/ DeleteMark(h) \/ ResolveWrite(h)
      \/ TransitionCommit(h) \/ SyncCommit(h)
  <2>1. ASSUME NEW k \in Request, req' = [req EXCEPT ![k] = req'[k]] PROVE k = h
    BY <2>1, <1>t
  <2>2. ASSUME NEW k \in Request, AdminStep(k) PROVE EditCommit(h) \/ DeleteMark(h) \/ ResolveWrite(h)
    <3>1. req' = [req EXCEPT ![k] = req'[k]]
      BY <2>2, <1>t DEF AdminStep, EditRead, EditCommit, DeleteRead, DeleteMark, ResolveRead,
                        ResolveWrite, WriteEvent, Arrives, Finish
    <3> QED
      BY <2>1, <2>2, <3>1 DEF AdminStep, EditRead, DeleteRead, ResolveRead, WriteEvent
  <2>3. ASSUME NEW k \in Request, DriverStep(k) PROVE TransitionCommit(h) \/ SyncCommit(h)
    <3>1. req' = [req EXCEPT ![k] = req'[k]]
      BY <2>3, <1>t DEF DriverStep, TransitionArrive, TransitionRead, TransitionCommit,
                        SyncRead, SyncCommit, Arrives, Finish
    <3> QED
      BY <2>1, <2>3, <3>1 DEF DriverStep, TransitionArrive, TransitionRead, SyncRead
  <2> QED
    BY <2>2, <2>3 DEF Next, Create, SaveTour, Abandon, Tick, vars
<1>3. CASE EditCommit(h)
  <2> DEFINE w == IF req[h].to = None THEN row[c].status ELSE req[h].to
  <2>1. req[h].kind = "edit" /\ WriteStatus(h, w)
    BY <1>3 DEF EditCommit
  <2>2. w \in Status
    BY <1>1 DEF Req
  <2>3. row'[c].status = w /\ row'[c].live = row[c].live
    BY <2>1, <2>2, WriteStatusRow
  <2>4. EditAllowed(req[h].saw, req[h].to, req[h].reason)
    BY <1>1, <2>1 DEF ReqOK
  <2> QED
    BY <1>1, <2>1, <2>3, <2>4 DEF Legal, EditAllowed
<1>4. CASE DeleteMark(h)
  <2>1. req[h].kind = "delete" /\ row'[c].status = row[c].status
    BY <1>4, DeletedRow DEF DeleteMark
  <2> QED
    BY <1>1, <2>1 DEF Legal, ReqOK
<1>5. CASE ResolveWrite(h)
  <2>1. req[h].kind = "resolve" /\ WriteStatus(h, req[h].to) /\ req[h].to \in Status
    BY <1>1, <1>5 DEF ResolveWrite, ReqOK
  <2>2. row'[c].live = row[c].live
    BY <2>1, WriteStatusRow
  <2> QED
    BY <1>1, <2>1, <2>2 DEF Legal
<1>6. CASE TransitionCommit(h) \/ SyncCommit(h)
  <2>1. /\ req[h].kind \in {"transition", "sync"} /\ WriteStatus(h, req[h].to)
        /\ req[h].to \in Status /\ <<req[h].saw, req[h].to>> \in DriverMove
    BY <1>1, <1>6 DEF TransitionCommit, SyncCommit, ReqOK
  <2>2. /\ row'[c].live = row[c].live /\ row'[c].status = req[h].to
        /\ row'[c].at = req[h].at
    BY <2>1, WriteStatusRow
  <2> QED
    BY <1>1, <2>1, <2>2 DEF Legal
<1> QED
  BY <1>2, <1>3, <1>4, <1>5, <1>6

\* The rules of the life cycle hold of every write that no other writer of the
\* row overlapped: what breaks them is concurrency alone.
THEOREM OnlyRacesBreakTheRules == Spec => UnracedWritesAreLegal
<1>1. Shape /\ SeenRevisionMeansSeenRow /\ [Next]_vars =>
        [\A h \in Request : LET c == req[h].cargo IN
            Reading(h) /\ req'[h] # req[h] /\ Unraced(h) /\ row'[c] # row[c]
            => Legal(h, row[c], row'[c])]_vars
  BY LegalWrite
<1> QED
  BY <1>1, ShapeInit, ShapeStep, RevisionTellsRaces, PTL DEF Spec, UnracedWritesAreLegal
-----------------------------------------------------------------------------
\* One event per client_event_id.

\* An event is added whose client_event_id, if it has one, is new.
LEMMA FreshEvent ==
    ASSUME Shape, EventIdRecordedOnce, NEW c \in Cargo, NEW e \in Event,
           log' = [log EXCEPT ![c] = Append(@, e)],
           e.id = None \/ ~Recorded(e.id)
    PROVE  EventIdRecordedOnce'
<1>1. /\ log \in [Cargo -> Seq(Event)] /\ Len(log[c]) \in Nat
      /\ DOMAIN log[c] = 1 .. Len(log[c])
  BY DEF Shape, TypeOK
<1>2. \A d \in Cargo : \A i \in DOMAIN log'[d] :
        \/ i \in DOMAIN log[d] /\ log'[d][i] = log[d][i]
        \/ d = c /\ i = Len(log[c]) + 1 /\ log'[d][i] = e
  BY <1>1, OneLog
<1>3. \A d \in Cargo : \A i \in DOMAIN log[d] : e.id # None => log[d][i].id # e.id
  BY DEF Recorded
<1> SUFFICES ASSUME NEW d1 \in Cargo, NEW d2 \in Cargo,
                    NEW i \in DOMAIN log'[d1], NEW j \in DOMAIN log'[d2],
                    log'[d1][i].id = log'[d2][j].id, log'[d1][i].id # None
             PROVE  d1 = d2 /\ i = j
  BY DEF EventIdRecordedOnce
<1>4. CASE i \in DOMAIN log[d1] /\ log'[d1][i] = log[d1][i]
           /\ j \in DOMAIN log[d2] /\ log'[d2][j] = log[d2][j]
  BY <1>4 DEF EventIdRecordedOnce
<1> QED
  BY <1>2, <1>3, <1>4

LEMMA EventIdStep == Shape /\ EventIdRecordedOnce /\ [Next]_vars => EventIdRecordedOnce'
<1> SUFFICES ASSUME Shape, EventIdRecordedOnce, [Next]_vars PROVE EventIdRecordedOnce'
  OBVIOUS
<1> USE DEF Is, Log
<1>1. ASSUME UNCHANGED log PROVE EventIdRecordedOnce'
  BY <1>1 DEF EventIdRecordedOnce
<1>2. ASSUME NEW c \in Cargo, NEW f \in Status \cup {None}, NEW s \in Status \cup {None},
             Log(c, Logged(f, s, None))
      PROVE  EventIdRecordedOnce'
  <2> DEFINE e == Logged(f, s, None)
  <2>1. e \in Event /\ e.id = None
    BY LoggedEvent
  <2>2. log' = [log EXCEPT ![c] = Append(@, e)]
    BY <1>2
  <2> HIDE DEF e
  <2> QED
    BY <2>1, <2>2, FreshEvent
<1>3. ASSUME NEW c \in Cargo, NEW s \in AdminTo, Create(c, s) PROVE EventIdRecordedOnce'
  BY <1>2, <1>3 DEF Create
<1>4. ASSUME NEW h \in Request, AdminStep(h) PROVE EventIdRecordedOnce'
  <2>1. CASE EditCommit(h)
    <3>1. req[h].cargo \in Cargo /\ req[h].saw \in Status /\ req[h].to \in Status \cup {None}
      BY <2>1, ReadingRow DEF EditCommit, Req
    <3> QED
      BY <1>1, <1>2, <2>1, <3>1 DEF EditCommit
  <2>2. CASE WriteEvent(h)
    <3>1. /\ req[h].cargo \in Cargo /\ req[h].to \in Status \cup {None}
          /\ req[h].saw \in Status \cup {None}
      BY <2>2 DEF WriteEvent, Shape, TypeOK, ReqOK, Req
    <3> QED
      BY <1>2, <2>2, <3>1 DEF WriteEvent
  <2> QED
    BY <1>1, <1>4, <2>1, <2>2 DEF AdminStep, EditRead, DeleteRead, DeleteMark, ResolveRead, ResolveWrite
<1>5. ASSUME NEW h \in Request, DriverStep(h) PROVE EventIdRecordedOnce'
  <2>1. CASE TransitionCommit(h)
    <3>1. /\ req[h].cargo \in Cargo /\ req[h].saw \in Status /\ req[h].to \in Status
          /\ req[h].id \in EventId \cup {None}
      BY <2>1, ReadingRow DEF TransitionCommit, ReqOK, Req
    <3>2. CASE req[h].id # None /\ Recorded(req[h].id)
      BY <1>1, <2>1, <3>2 DEF TransitionCommit
    <3>3. CASE ~(req[h].id # None /\ Recorded(req[h].id))
      <4> DEFINE e == Logged(req[h].saw, req[h].to, req[h].id)
      <4>1. e \in Event /\ e.id = req[h].id
        BY <3>1, LoggedEvent
      <4>2. log' = [log EXCEPT ![req[h].cargo] = Append(@, e)]
        BY <2>1, <3>3 DEF TransitionCommit
      <4> HIDE DEF e
      <4> QED
        BY <3>1, <3>3, <4>1, <4>2, FreshEvent
    <3> QED
      BY <3>2, <3>3
  <2>2. CASE SyncCommit(h)
    <3>1. req[h].cargo \in Cargo /\ req[h].saw \in Status /\ req[h].to \in Status
      BY <2>2, ReadingRow DEF SyncCommit, ReqOK
    <3> QED
      BY <1>2, <2>2, <3>1 DEF SyncCommit
  <2> QED
    BY <1>1, <1>5, <2>1, <2>2 DEF DriverStep, TransitionArrive, TransitionRead, SyncRead
<1> QED
  BY <1>1, <1>3, <1>4, <1>5 DEF Next, SaveTour, Abandon, Tick, vars

\* A driver's request takes effect at most once, however many copies of it
\* overlap: the search for the id and the UNIQUE constraint together.
THEOREM RetriesApplyOnce == Spec => []EventIdRecordedOnce
<1>1. Init => EventIdRecordedOnce
  BY DEF Init, EventIdRecordedOnce
<1> QED
  BY <1>1, ShapeInit, ShapeStep, EventIdStep, PTL DEF Spec
-----------------------------------------------------------------------------
\* The audit log accounts for every status.

\* An edit may write back the status it read, without an event: so what a
\* request has read must be on record as well.
OnRecord ==
    /\ StatusIsOnRecord
    /\ \A h \in Request : Reading(h) => Accounted(req[h].cargo, req[h].saw)

\* Whatever was accounted for stays so, if the log and lost only grow and a
\* resolve leaves its last statement only by an event or as a loss.
LEMMA AccountedStays ==
    ASSUME Shape, NEW c \in Cargo, NEW s, Accounted(c, s),
           \A i \in DOMAIN log[c] : i \in DOMAIN log'[c] /\ log'[c][i] = log[c][i],
           lost \subseteq lost',
           \A h \in Request : Is(h, "resolve", "unlogged") /\ req'[h] # req[h] =>
              \/ <<req[h].cargo, req[h].to>> \in lost'
              \/ \E i \in DOMAIN log'[req[h].cargo] : log'[req[h].cargo][i].to = req[h].to
    PROVE  Accounted(c, s)'
BY DEF Accounted, Is

\* The step's effect on the log, as AccountedStays needs it.
LEMMA LogGrows ==
    ASSUME Shape, [Next]_vars
    PROVE  /\ \A c \in Cargo : \A i \in DOMAIN log[c] :
                 i \in DOMAIN log'[c] /\ log'[c][i] = log[c][i]
           /\ lost \subseteq lost'
<1> USE DEF Is, Log
<1>1. ASSUME UNCHANGED log
      PROVE  \A c \in Cargo : \A i \in DOMAIN log[c] :
                i \in DOMAIN log'[c] /\ log'[c][i] = log[c][i]
  BY <1>1
<1>2. ASSUME NEW d \in Cargo, NEW e \in Event, log' = [log EXCEPT ![d] = Append(@, e)]
      PROVE  \A c \in Cargo : \A i \in DOMAIN log[c] :
                i \in DOMAIN log'[c] /\ log'[c][i] = log[c][i]
  <2>1. \A i \in DOMAIN log[d] : i \in DOMAIN log'[d] /\ log'[d][i] = log[d][i]
    BY <1>2, OneLog
  <2>2. \A c \in Cargo \ {d} : log'[c] = log[c]
    BY <1>2, OneLog
  <2> QED
    BY <2>1, <2>2
<1>3. \/ UNCHANGED log
      \/ \E d \in Cargo, e \in Event : log' = [log EXCEPT ![d] = Append(@, e)]
  <2>1. ASSUME NEW c \in Cargo, NEW s \in AdminTo, Create(c, s)
        PROVE  \E d \in Cargo, e \in Event : log' = [log EXCEPT ![d] = Append(@, e)]
    BY <2>1, LoggedEvent DEF Create
  <2>2. ASSUME NEW h \in Request, EditCommit(h)
        PROVE  \/ UNCHANGED log
               \/ \E d \in Cargo, e \in Event : log' = [log EXCEPT ![d] = Append(@, e)]
    <3>1. /\ req[h].cargo \in Cargo /\ Logged(req[h].saw, req[h].to, None) \in Event
      BY <2>2, ReadingRow, LoggedEvent DEF EditCommit, Req
    <3> QED
      BY <2>2, <3>1 DEF EditCommit
  <2>3. ASSUME NEW h \in Request, WriteEvent(h)
        PROVE  \E d \in Cargo, e \in Event : log' = [log EXCEPT ![d] = Append(@, e)]
    BY <2>3, WrittenEvent DEF WriteEvent
  <2>4. ASSUME NEW h \in Request, TransitionCommit(h) \/ SyncCommit(h)
        PROVE  \/ UNCHANGED log
               \/ \E d \in Cargo, e \in Event : log' = [log EXCEPT ![d] = Append(@, e)]
    <3>1. /\ req[h].cargo \in Cargo /\ req[h].saw \in Status /\ req[h].to \in Status
          /\ req[h].id \in EventId \cup {None}
      BY <2>4, ReadingRow DEF TransitionCommit, SyncCommit, ReqOK, Req
    <3>2. /\ Logged(req[h].saw, req[h].to, None) \in Event
          /\ Logged(req[h].saw, req[h].to, req[h].id) \in Event
      BY <3>1, LoggedEvent
    <3> QED
      BY <2>4, <3>1, <3>2 DEF TransitionCommit, SyncCommit
  <2> QED
    BY <2>1, <2>2, <2>3, <2>4 DEF Next, SaveTour, AdminStep, DriverStep, EditRead, DeleteRead, DeleteMark,
       ResolveRead, ResolveWrite, TransitionArrive, TransitionRead, SyncRead, Abandon, Tick, vars
<1>4. lost \subseteq lost'
  BY DEF Next, AdminStep, DriverStep, Create, SaveTour, EditRead, EditCommit, DeleteRead, DeleteMark,
     ResolveRead, ResolveWrite, WriteEvent, TransitionArrive, TransitionRead, TransitionCommit,
     SyncRead, SyncCommit, Abandon, Tick, vars
<1> QED
  BY <1>1, <1>2, <1>3, <1>4

\* A resolve that wrote the row leaves its event, or is counted as lost.
LEMMA ResolveEnds ==
    ASSUME Shape, [Next]_vars, NEW h \in Request, Is(h, "resolve", "unlogged"),
           req'[h] # req[h]
    PROVE  \/ <<req[h].cargo, req[h].to>> \in lost'
           \/ \E i \in DOMAIN log'[req[h].cargo] : log'[req[h].cargo][i].to = req[h].to
<1> USE DEF Is
<1>t. req \in [Request -> Req]
  BY DEF Shape, TypeOK
<1>1. WriteEvent(h) \/ Abandon(h)
  <2>1. ASSUME NEW k \in Request, req' = [req EXCEPT ![k] = req'[k]] PROVE k = h
    BY <2>1, <1>t
  <2>2. ASSUME NEW k \in Request, AdminStep(k) PROVE WriteEvent(h)
    <3>1. req' = [req EXCEPT ![k] = req'[k]]
      BY <2>2, <1>t DEF AdminStep, EditRead, EditCommit, DeleteRead, DeleteMark, ResolveRead,
                        ResolveWrite, WriteEvent, Arrives, Finish
    <3> QED
      BY <2>1, <2>2, <3>1 DEF AdminStep, EditRead, EditCommit, DeleteRead, DeleteMark,
                              ResolveRead, ResolveWrite, Arrives
  <2>3. ASSUME NEW k \in Request, DriverStep(k) PROVE FALSE
    <3>1. req' = [req EXCEPT ![k] = req'[k]]
      BY <2>3, <1>t DEF DriverStep, TransitionArrive, TransitionRead, TransitionCommit,
                        SyncRead, SyncCommit, Arrives, Finish
    <3> QED
      BY <2>1, <2>3, <3>1 DEF DriverStep, TransitionArrive, TransitionRead, TransitionCommit,
                              SyncRead, SyncCommit, Arrives
  <2>4. ASSUME NEW k \in Request, Abandon(k) PROVE Abandon(h)
    <3>1. req' = [req EXCEPT ![k] = req'[k]]
      BY <2>4, <1>t DEF Abandon, Finish
    <3> QED
      BY <2>1, <2>4, <3>1
  <2> QED
    BY <2>2, <2>3, <2>4 DEF Next, Create, SaveTour, Tick, vars
<1>2. CASE WriteEvent(h)
  <2> DEFINE e == Logged(IF req[h].kind = "resolve" THEN req[h].saw ELSE None, req[h].to, None)
  <2>1. e \in Event /\ req[h].cargo \in Cargo
    BY <1>2, WrittenEvent
  <2>2. e.to = req[h].to
    BY DEF Logged
  <2>3. log' = [log EXCEPT ![req[h].cargo] = Append(@, e)]
    BY <1>2 DEF WriteEvent, Log
  <2> HIDE DEF e
  <2>4. \E i \in DOMAIN log'[req[h].cargo] : log'[req[h].cargo][i] = e
    BY <2>1, <2>3, OneLog
  <2> QED
    BY <2>2, <2>4
<1>3. CASE Abandon(h)
  BY <1>3 DEF Abandon
<1> QED
  BY <1>1, <1>2, <1>3

LEMMA AccountedStep ==
    ASSUME Shape, [Next]_vars, NEW c \in Cargo, NEW s, Accounted(c, s)
    PROVE  Accounted(c, s)'
BY LogGrows, ResolveEnds, AccountedStays

\* The event a request adds accounts for the status it names.
LEMMA AddedEvent ==
    ASSUME Shape, NEW c \in Cargo, NEW f \in Status \cup {None}, NEW s \in Status \cup {None},
           NEW id \in EventId \cup {None}, Log(c, Logged(f, s, id))
    PROVE  Accounted(c, s)'
<1> DEFINE e == Logged(f, s, id)
<1>1. e \in Event /\ e.to = s
  BY LoggedEvent
<1>2. log' = [log EXCEPT ![c] = Append(@, e)]
  BY DEF Log
<1> HIDE DEF e
<1>3. \E i \in DOMAIN log'[c] : log'[c][i] = e
  BY <1>1, <1>2, OneLog
<1> QED
  BY <1>1, <1>3 DEF Accounted

\* What a request newly reads is the status of a live row.
LEMMA NewlyRead ==
    ASSUME Shape, [Next]_vars, NEW h \in Request, req'[h].stage = "read", req'[h] # req[h]
    PROVE  /\ req'[h].cargo \in Cargo /\ row[req'[h].cargo].rev > 0
           /\ req'[h].saw = row[req'[h].cargo].status
<1> USE DEF Is
<1>t. req \in [Request -> Req] /\ Idle.stage = "idle" /\ \A c \in Cargo : RowOK(row[c])
  BY IdleReq DEF Shape, TypeOK
<1>1. ASSUME NEW k \in Request, req' = [req EXCEPT ![k] = req'[k]] PROVE k = h
  BY <1>1, <1>t
<1>2. ASSUME NEW k \in Request, NEW c \in Cargo, NEW kind, NEW stage, NEW s, NEW reason, NEW id,
             row[c].live, Arrives(k, kind, stage, c, s, reason, id)
      PROVE  /\ req'[h].cargo \in Cargo /\ row[req'[h].cargo].rev > 0
             /\ req'[h].saw = row[req'[h].cargo].status
  <2>1. /\ req'[k].cargo = c /\ req'[k].stage = stage
        /\ stage = "read" => req'[k].saw = row[c].status
        /\ req' = [req EXCEPT ![k] = req'[k]]
    BY <1>2, <1>t DEF Arrives
  <2> QED
    BY <1>1, <1>2, <1>t, <2>1 DEF RowOK
<1>3. ASSUME NEW k \in Request, Finish(k) PROVE FALSE
  BY <1>1, <1>3, <1>t DEF Finish
<1>4. ASSUME NEW k \in Request, req' = [req EXCEPT ![k].stage = "unlogged"] PROVE FALSE
  <2>1. req'[k].stage = "unlogged" /\ req' = [req EXCEPT ![k] = req'[k]]
    BY <1>4, <1>t DEF Req
  <2> QED
    BY <1>1, <2>1
<1>5. ASSUME NEW k \in Request, AdminStep(k)
      PROVE  /\ req'[h].cargo \in Cargo /\ row[req'[h].cargo].rev > 0
             /\ req'[h].saw = row[req'[h].cargo].status
  <2>1. ASSUME NEW c \in Cargo, DeleteRead(k, c)
        PROVE  \E reason \in BOOLEAN : Arrives(k, "delete", "read", c, None, reason, None)
    BY <2>1, Zenon DEF DeleteRead
  <2>2. ASSUME NEW c \in Cargo, NEW s \in AdminTo, ResolveRead(k, c, s)
        PROVE  \E reason \in BOOLEAN : Arrives(k, "resolve", "read", c, s, reason, None)
    BY <2>2, Zenon DEF ResolveRead
  <2> QED
    BY <1>2, <1>3, <1>4, <1>5, <2>1, <2>2 DEF AdminStep, EditRead, EditCommit, DeleteRead,
       DeleteMark, ResolveRead, ResolveWrite, WriteEvent
<1>6. ASSUME NEW k \in Request, DriverStep(k)
      PROVE  /\ req'[h].cargo \in Cargo /\ row[req'[h].cargo].rev > 0
             /\ req'[h].saw = row[req'[h].cargo].status
  <2>1. ASSUME NEW c \in Cargo, NEW s \in DriverTo, NEW id \in EventId \cup {None},
               TransitionArrive(k, c, s, id)
        PROVE  \E reason \in BOOLEAN : Arrives(k, "transition", "begun", c, s, reason, id)
    BY <2>1, Zenon DEF TransitionArrive
  <2>2. CASE TransitionRead(k)
    <3>1. CASE row[req[k].cargo].live /\ <<row[req[k].cargo].status, req[k].to>> \in DriverMove
      <4>1. req' = [req EXCEPT ![k].stage = "read", ![k].saw = row[req[k].cargo].status,
                               ![k].rev = row[req[k].cargo].rev,
                               ![k].saves = row[req[k].cargo].saves]
        BY <2>2, <3>1 DEF TransitionRead
      <4>2. /\ req' = [req EXCEPT ![k] = req'[k]] /\ req'[k].cargo = req[k].cargo
            /\ req'[k].saw = row[req[k].cargo].status
        <5> DEFINE q == [req[k] EXCEPT !.stage = "read", !.saw = row[req[k].cargo].status,
                                       !.rev = row[req[k].cargo].rev,
                                       !.saves = row[req[k].cargo].saves]
        <5>1. req' = [req EXCEPT ![k] = q]
          BY <4>1, <1>t
        <5>2. q.cargo = req[k].cargo /\ q.saw = row[req[k].cargo].status
          BY <1>t DEF Req
        <5> HIDE DEF q
        <5> QED
          BY <5>1, <5>2, <1>t
      <4>3. req[k].cargo \in Cargo
        BY <2>2 DEF TransitionRead, Shape, ReqOK
      <4> QED
        BY <1>1, <1>t, <3>1, <4>2, <4>3 DEF RowOK
    <3>2. CASE ~(row[req[k].cargo].live /\ <<row[req[k].cargo].status, req[k].to>> \in DriverMove)
      BY <1>3, <2>2, <3>2 DEF TransitionRead
    <3> QED
      BY <3>1, <3>2
  <2>3. ASSUME NEW c \in Cargo, NEW s \in DriverTo, NEW t \in 1 .. MaxClock, SyncRead(k, c, s, t)
        PROVE  /\ req'[h].cargo \in Cargo /\ row[req'[h].cargo].rev > 0
               /\ req'[h].saw = row[req'[h].cargo].status
    <3>1. /\ req'[k].cargo = c /\ req'[k].saw = row[c].status /\ row[c].live
          /\ req' = [req EXCEPT ![k] = req'[k]]
      BY <2>3, <1>t DEF SyncRead
    <3> QED
      BY <1>1, <1>t, <3>1 DEF RowOK
  <2> QED
    BY <1>2, <1>3, <1>6, <2>1, <2>2, <2>3 DEF DriverStep, TransitionArrive, TransitionCommit,
       SyncCommit
<1> QED
  BY <1>3, <1>5, <1>6 DEF Next, Create, SaveTour, Abandon, Tick, vars

LEMMA OnRecordStep == Shape /\ OnRecord /\ [Next]_vars => OnRecord'
<1> SUFFICES ASSUME Shape, OnRecord, [Next]_vars PROVE OnRecord'
  OBVIOUS
<1> USE DEF Is
<1>t. req \in [Request -> Req] /\ row \in [Cargo -> Row] /\ Shape'
  BY ShapeStep DEF Shape, TypeOK
\* What requests hold.
<1>1. ASSUME NEW h \in Request, NEW d, NEW s,
             req'[h].stage = "read", req'[h].cargo = d, req'[h].saw = s
      PROVE  Accounted(d, s)'
  <2>1. CASE req'[h] = req[h]
    <3>1. d \in Cargo /\ Accounted(d, s)
      BY <1>1, <2>1, ReadingRow DEF OnRecord, Reading
    <3> QED
      BY <3>1, AccountedStep
  <2>2. CASE req'[h] # req[h]
    <3>1. d \in Cargo /\ Accounted(d, s)
      BY <1>1, <2>2, NewlyRead DEF OnRecord, StatusIsOnRecord
    <3> QED
      BY <3>1, AccountedStep
  <2> QED
    BY <2>1, <2>2
<1>2. (\A h \in Request : Reading(h) => Accounted(req[h].cargo, req[h].saw))'
  BY <1>1 DEF Reading, Accounted
\* The rows.
<1>3. ASSUME NEW c \in Cargo, NEW s, row[c].rev > 0, row[c].status = s
      PROVE  Accounted(c, s)'
  <2>1. Accounted(c, s)
    BY <1>3 DEF OnRecord, StatusIsOnRecord
  <2> QED
    BY <2>1, AccountedStep
<1>4. ASSUME NEW c \in Cargo, NEW s, row'[c].rev > 0, row'[c].status = s
      PROVE  Accounted(c, s)'
  <2>1. CASE row'[c] = row[c]
    BY <1>3, <1>4, <2>1
  <2>2. ASSUME NEW d \in Cargo, NEW t \in AdminTo, Create(d, t) PROVE Accounted(c, s)'
    <3>1. CASE c = d
      <4>1. s = t /\ Log(c, Logged(None, t, None)) /\ t \in Status
        BY <1>4, <1>t, <2>2, <3>1 DEF Create
      <4> QED
        BY <4>1, AddedEvent
    <3>2. CASE c # d
      BY <1>3, <1>4, <1>t, <2>2, <3>2 DEF Create
    <3> QED
      BY <3>1, <3>2
  <2>3. ASSUME NEW h \in Request, req[h].stage = "read", NEW w \in Status, WriteStatus(h, w),
               \/ w = row[req[h].cargo].status
               \/ w = req[h].saw
               \/ \E f \in Status \cup {None}, id \in EventId \cup {None} :
                     Log(req[h].cargo, Logged(f, w, id))
               \/ c = req[h].cargo => Accounted(c, w)'
        PROVE  Accounted(c, s)'
    <3>1. /\ req[h].cargo \in Cargo /\ row'[req[h].cargo].status = w
          /\ row[req[h].cargo].rev > 0
          /\ \A d \in Cargo \ {req[h].cargo} : row'[d] = row[d]
      BY <2>3, ReadingRow, WriteStatusRow
    <3>2. CASE c # req[h].cargo
      BY <1>3, <1>4, <3>1, <3>2
    <3>3. CASE c = req[h].cargo
      <4>1. s = w
        BY <1>4, <3>1, <3>3
      <4>2. CASE w = row[req[h].cargo].status
        BY <1>3, <3>1, <3>3, <4>1, <4>2
      <4>3. CASE w = req[h].saw
        <5>1. Accounted(c, s)
          BY <2>3, <3>3, <4>1, <4>3 DEF OnRecord, Reading
        <5> QED
          BY <5>1, AccountedStep
      <4>4. CASE \E f \in Status \cup {None}, id \in EventId \cup {None} :
                    Log(req[h].cargo, Logged(f, w, id))
        <5>1. PICK f \in Status \cup {None}, id \in EventId \cup {None} :
                 Log(req[h].cargo, Logged(f, w, id))
          BY <4>4
        <5> QED
          BY <3>3, <4>1, <5>1, AddedEvent
      <4>5. CASE c = req[h].cargo => Accounted(c, w)'
        BY <3>3, <4>1, <4>5
      <4> QED
        BY <2>3, <4>2, <4>3, <4>4, <4>5
    <3> QED
      BY <3>2, <3>3
  <2>4. ASSUME NEW h \in Request, EditCommit(h) PROVE Accounted(c, s)'
    <3>1. /\ req[h].stage = "read" /\ req[h].cargo \in Cargo
          /\ req[h].saw \in Status /\ req[h].to \in Status \cup {None}
          /\ row[req[h].cargo].status \in Status
      BY <2>4, ReadingRow DEF EditCommit, Req
    <3>2. CASE req[h].to = None
      <4>1. WriteStatus(h, row[req[h].cargo].status)
        BY <2>4, <3>2 DEF EditCommit
      <4> QED
        BY <2>3, <3>1, <4>1
    <3>3. CASE req[h].to # None
      <4>1. /\ WriteStatus(h, req[h].to) /\ req[h].to \in Status
            /\ \/ req[h].to = req[h].saw
               \/ Log(req[h].cargo, Logged(req[h].saw, req[h].to, None))
        BY <2>4, <3>1, <3>3 DEF EditCommit
      <4> QED
        BY <2>3, <3>1, <4>1
    <3> QED
      BY <3>2, <3>3
  <2>5. ASSUME NEW h \in Request, DeleteMark(h) PROVE Accounted(c, s)'
    <3>1. row'[c].status = row[c].status /\ row[c].rev > 0
      <4>1. CASE c = req[h].cargo
        BY <2>5, <4>1, DeletedRow, ReadingRow DEF DeleteMark
      <4>2. CASE c # req[h].cargo
        BY <1>4, <2>5, <4>2, DeletedRow
      <4> QED
        BY <4>1, <4>2
    <3> QED
      BY <1>3, <1>4, <3>1
  <2>6. ASSUME NEW h \in Request, ResolveWrite(h) PROVE Accounted(c, s)'
    <3>1. /\ req[h].stage = "read" /\ WriteStatus(h, req[h].to) /\ req[h].to \in Status
          /\ req[h].kind = "resolve" /\ req[h] \in Req
      BY <2>6, ReadingRow DEF ResolveWrite, ReqOK
    <3>2. /\ req'[h].kind = "resolve" /\ req'[h].stage = "unlogged"
          /\ req'[h].cargo = req[h].cargo /\ req'[h].to = req[h].to
      BY <2>6, <3>1, <1>t DEF ResolveWrite, Req
    <3>3. ASSUME NEW w, w = req[h].to, c = req[h].cargo PROVE Accounted(c, w)'
      BY <3>2, <3>3 DEF Accounted
    <3> QED
      BY <2>3, <3>1, <3>3
  <2>7. ASSUME NEW h \in Request, TransitionCommit(h) \/ SyncCommit(h) PROVE Accounted(c, s)'
    <3>1. /\ req[h].stage = "read" /\ req[h].to \in Status /\ req[h].saw \in Status
          /\ req[h].id \in EventId \cup {None}
      BY <2>7, ReadingRow DEF TransitionCommit, SyncCommit, ReqOK, Req
    <3>2. \/ UNCHANGED row
          \/ /\ WriteStatus(h, req[h].to)
             /\ \/ Log(req[h].cargo, Logged(req[h].saw, req[h].to, req[h].id))
                \/ Log(req[h].cargo, Logged(req[h].saw, req[h].to, None))
      BY <2>7 DEF TransitionCommit, SyncCommit
    <3> QED
      BY <2>1, <2>3, <3>1, <3>2
  <2>8. ASSUME NEW d \in Cargo, NEW t \in AdminTo, SaveTour(d, t) PROVE Accounted(c, s)'
    <3>1. CASE c = d
      BY <1>4, <2>8, <3>1, SavedRow DEF SaveTour, Accounted
    <3>2. CASE c # d
      BY <1>3, <1>4, <2>8, <3>2, SavedRow
    <3> QED
      BY <3>1, <3>2
  <2> QED
    BY <2>1, <2>2, <2>4, <2>5, <2>6, <2>7, <2>8 DEF Next, AdminStep, DriverStep, EditRead, DeleteRead,
       ResolveRead, WriteEvent, TransitionArrive, TransitionRead, SyncRead, Abandon, Tick, vars
<1>5. StatusIsOnRecord'
  BY <1>4 DEF StatusIsOnRecord
<1> QED
  BY <1>2, <1>5 DEF OnRecord

\* The audit log accounts for the status of every cargo row; only the tour editor
\* and a resolve cut off between its two statements leave a status unrecorded.
THEOREM AuditAccountsForStatus == Spec => []StatusIsOnRecord
<1>1. Init => OnRecord
  BY IdleReq DEF Init, OnRecord, StatusIsOnRecord, Reading
<1>2. OnRecord => StatusIsOnRecord
  BY DEF OnRecord
<1> QED
  BY <1>1, <1>2, ShapeInit, ShapeStep, OnRecordStep, PTL DEF Spec
-----------------------------------------------------------------------------
\* No event without a write.

\* The requests that have written c and owe its event.
Owing(r, c) == {h \in Request : r[h].stage = "unlogged" /\ r[h].cargo = c}

\* An event still owed is a write too many: this is what makes it inductive.
Backed(c) ==
    (row[c].live \/ row[c].rev = 0) /\ row[c].saves = 0 =>
        Len(log[c]) + Cardinality(Owing(req, c)) <= row[c].rev

AllBacked == \A c \in Cargo : Backed(c)

LEMMA OwingFinite ==
    ASSUME NEW r, NEW c
    PROVE  IsFiniteSet(Owing(r, c)) /\ Cardinality(Owing(r, c)) \in Nat
BY FS_Subset, FS_CardinalityType DEF Owing

LEMMA OwingShrinks ==
    ASSUME NEW r, NEW s, NEW c, Owing(s, c) \subseteq Owing(r, c)
    PROVE  Cardinality(Owing(s, c)) <= Cardinality(Owing(r, c))
BY OwingFinite, FS_Subset

\* A row, its log and what is owed to it as they were, or less owed.
LEMMA BackedKept ==
    ASSUME Shape, NEW c \in Cargo, Backed(c), row'[c] = row[c], log'[c] = log[c],
           Owing(req', c) \subseteq Owing(req, c)
    PROVE  Backed(c)'
<1>1. /\ Cardinality(Owing(req', c)) <= Cardinality(Owing(req, c))
      /\ Cardinality(Owing(req', c)) \in Nat /\ Cardinality(Owing(req, c)) \in Nat
  BY OwingShrinks, OwingFinite
<1>2. Len(log[c]) \in Nat /\ row[c].rev \in Nat
  BY DEF Shape, TypeOK, Row
<1> QED
  BY <1>1, <1>2 DEF Backed

\* One write to the row, at most one event, and nothing more owed.
LEMMA BackedWrite ==
    ASSUME Shape, NEW c \in Cargo, Backed(c), row'[c].rev = row[c].rev + 1,
           row'[c].live => row[c].live \/ row[c].rev = 0,
           row'[c].saves = row[c].saves,
           Len(log'[c]) \in {Len(log[c]), Len(log[c]) + 1},
           Owing(req', c) \subseteq Owing(req, c)
    PROVE  Backed(c)'
<1>1. /\ Cardinality(Owing(req', c)) <= Cardinality(Owing(req, c))
      /\ Cardinality(Owing(req', c)) \in Nat /\ Cardinality(Owing(req, c)) \in Nat
  BY OwingShrinks, OwingFinite
<1>2. Len(log[c]) \in Nat /\ row[c].rev \in Nat
  BY DEF Shape, TypeOK, Row
<1> QED
  BY <1>1, <1>2 DEF Backed

LEMMA BackedStep == Shape /\ AllBacked /\ [Next]_vars => AllBacked'
<1> SUFFICES ASSUME Shape, AllBacked, [Next]_vars, NEW c \in Cargo PROVE Backed(c)'
  BY DEF AllBacked
<1> USE DEF Is
<1>t. /\ req \in [Request -> Req] /\ row \in [Cargo -> Row] /\ log \in [Cargo -> Seq(Event)]
      /\ Backed(c) /\ Idle.stage = "idle"
  BY IdleReq DEF Shape, TypeOK, AllBacked
\* A request that owes nothing afterwards.
<1>1. ASSUME NEW h \in Request, NEW q, req' = [req EXCEPT ![h] = q], q.stage # "unlogged"
      PROVE  Owing(req', c) \subseteq Owing(req, c)
  BY <1>1, <1>t DEF Owing
<1>2. ASSUME NEW h \in Request, Finish(h) PROVE Owing(req', c) \subseteq Owing(req, c)
  BY <1>1, <1>2, <1>t DEF Finish
<1>3. ASSUME NEW h \in Request, NEW d, NEW kind, NEW stage, NEW s, NEW reason, NEW id,
             stage # "unlogged", Arrives(h, kind, stage, d, s, reason, id)
      PROVE  Owing(req', c) \subseteq Owing(req, c)
  <2> DEFINE q == [kind |-> kind, stage |-> stage, cargo |-> d, to |-> s,
                   reason |-> reason, id |-> id, at |-> clock,
                   saw |-> IF stage = "read" THEN row[d].status ELSE None,
                   rev |-> IF stage = "read" THEN row[d].rev ELSE 0,
                   saves |-> IF stage = "read" THEN row[d].saves ELSE 0]
  <2>1. req' = [req EXCEPT ![h] = q]
    BY <1>3 DEF Arrives
  <2>2. q.stage # "unlogged"
    BY <1>3
  <2> HIDE DEF q
  <2> QED
    BY <1>1, <2>1, <2>2
<1>4. ASSUME NEW d \in Cargo, NEW s \in AdminTo, Create(d, s) PROVE Backed(c)'
  <2>1. Owing(req', c) \subseteq Owing(req, c)
    BY <1>4 DEF Create
  <2>2. CASE c = d
    <3>1. row'[c].rev = row[c].rev + 1 /\ row[c].rev = 0 /\ row'[c].saves = row[c].saves
      BY <1>4, <1>t, <2>2 DEF Create, Shape, RowOK
    <3>2. Len(log'[c]) = Len(log[c]) + 1
      BY <1>4, <2>2, LoggedEvent, OneLog DEF Create, Log
    <3> QED
      BY <1>t, <2>1, <3>1, <3>2, BackedWrite
  <2>3. CASE c # d
    <3>1. row'[c] = row[c] /\ log'[c] = log[c]
      BY <1>4, <1>t, <2>3 DEF Create, Log
    <3> QED
      BY <1>t, <2>1, <3>1, BackedKept
  <2> QED
    BY <2>2, <2>3
\* A commit of a transaction: row and event, or neither, or the row only.
<1>5. ASSUME NEW h \in Request, req[h].stage = "read", Finish(h),
             NEW s \in Status, WriteStatus(h, s),
             \/ UNCHANGED log
             \/ \E e \in Event : log' = [log EXCEPT ![req[h].cargo] = Append(@, e)]
      PROVE  Backed(c)'
  <2>1. /\ req[h].cargo \in Cargo /\ Owing(req', c) \subseteq Owing(req, c)
        /\ row'[req[h].cargo].rev = row[req[h].cargo].rev + 1
        /\ row'[req[h].cargo].live = row[req[h].cargo].live
        /\ row'[req[h].cargo].saves = row[req[h].cargo].saves
        /\ \A d \in Cargo \ {req[h].cargo} : row'[d] = row[d]
    BY <1>2, <1>5, ReadingRow, WriteStatusRow
  <2>2. /\ Len(log'[req[h].cargo]) \in {Len(log[req[h].cargo]), Len(log[req[h].cargo]) + 1}
        /\ \A d \in Cargo \ {req[h].cargo} : log'[d] = log[d]
    BY <1>5, <2>1, OneLog
  <2>3. CASE c = req[h].cargo
    BY <1>t, <2>1, <2>2, <2>3, BackedWrite
  <2>4. CASE c # req[h].cargo
    BY <1>t, <2>1, <2>2, <2>4, BackedKept
  <2> QED
    BY <2>3, <2>4
<1>6. ASSUME NEW h \in Request, EditCommit(h) PROVE Backed(c)'
  <2>1. /\ req[h].stage = "read" /\ req[h].cargo \in Cargo /\ Finish(h)
        /\ req[h].saw \in Status /\ req[h].to \in Status \cup {None}
        /\ row[req[h].cargo].status \in Status
    BY <1>6, ReadingRow DEF EditCommit, Req
  <2>2. PICK s \in Status : WriteStatus(h, s)
    BY <1>6, <2>1 DEF EditCommit
  <2>3. Logged(req[h].saw, req[h].to, None) \in Event
    BY <2>1, LoggedEvent
  <2>4. \/ UNCHANGED log
        \/ \E e \in Event : log' = [log EXCEPT ![req[h].cargo] = Append(@, e)]
    BY <1>6, <2>3 DEF EditCommit, Log
  <2> QED
    BY <1>5, <2>1, <2>2, <2>4
<1>7. ASSUME NEW h \in Request, DeleteMark(h) PROVE Backed(c)'
  <2>1. req[h].stage = "read" /\ UNCHANGED log
    BY <1>7 DEF DeleteMark
  <2>2. CASE c = req[h].cargo
    <3>1. ~row'[c].live /\ row'[c].rev = row[c].rev + 1 /\ row[c].rev \in Nat
      BY <1>7, <1>t, <2>2, DeletedRow DEF Row
    <3> QED
      BY <3>1 DEF Backed
  <2>3. CASE c # req[h].cargo
    <3>1. row'[c] = row[c] /\ log'[c] = log[c]
      BY <1>7, <2>1, <2>3, DeletedRow
    <3>2. Owing(req', c) \subseteq Owing(req, c)
      BY <1>7, <1>t, <2>3 DEF DeleteMark, Owing, Req
    <3> QED
      BY <1>t, <3>1, <3>2, BackedKept
  <2> QED
    BY <2>2, <2>3
<1>8. ASSUME NEW h \in Request, ResolveWrite(h) PROVE Backed(c)'
  <2>1. /\ req[h].stage = "read" /\ WriteStatus(h, req[h].to) /\ req[h].to \in Status
        /\ UNCHANGED log /\ req[h].cargo \in Cargo
    BY <1>8, ReadingRow DEF ResolveWrite, ReqOK
  <2>2. /\ row'[req[h].cargo].rev = row[req[h].cargo].rev + 1
        /\ row'[req[h].cargo].live = row[req[h].cargo].live
        /\ row'[req[h].cargo].saves = row[req[h].cargo].saves
        /\ row[req[h].cargo].rev > 0
        /\ \A d \in Cargo \ {req[h].cargo} : row'[d] = row[d]
    BY <2>1, WriteStatusRow, ReadingRow
  <2>3. CASE c = req[h].cargo
    <3>1. Owing(req', c) = Owing(req, c) \cup {h}
      BY <1>8, <1>t, <2>3 DEF ResolveWrite, Owing, Req
    <3>2. /\ Cardinality(Owing(req', c)) <= Cardinality(Owing(req, c)) + 1
          /\ Cardinality(Owing(req', c)) \in Nat /\ Cardinality(Owing(req, c)) \in Nat
      <4>1. /\ IsFiniteSet(Owing(req, c))
            /\ Cardinality(Owing(req', c)) \in Nat /\ Cardinality(Owing(req, c)) \in Nat
        BY OwingFinite
      <4>2. Cardinality(Owing(req, c) \cup {h}) = IF h \in Owing(req, c)
                                                   THEN Cardinality(Owing(req, c))
                                                   ELSE Cardinality(Owing(req, c)) + 1
        BY <4>1, FS_AddElement
      <4> QED
        BY <3>1, <4>1, <4>2
    <3>3. Len(log[c]) \in Nat /\ row[c].rev \in Nat /\ log'[c] = log[c]
      BY <1>t, <2>1 DEF Row
    <3> QED
      BY <1>t, <2>2, <2>3, <3>2, <3>3 DEF Backed
  <2>4. CASE c # req[h].cargo
    <3>1. Owing(req', c) \subseteq Owing(req, c)
      BY <1>8, <1>t, <2>4 DEF ResolveWrite, Owing, Req
    <3> QED
      BY <1>t, <2>1, <2>2, <2>4, <3>1, BackedKept
  <2> QED
    BY <2>3, <2>4
<1>9. ASSUME NEW h \in Request, WriteEvent(h) PROVE Backed(c)'
  <2>1. PICK e \in Event : log' = [log EXCEPT ![req[h].cargo] = Append(@, e)]
    BY <1>9, WrittenEvent DEF WriteEvent, Log
  <2>2. req[h].cargo \in Cargo /\ UNCHANGED row /\ Finish(h) /\ req[h].stage = "unlogged"
    BY <1>9, WrittenEvent DEF WriteEvent
  <2>3. CASE c = req[h].cargo
    <3>1. h \in Owing(req, c) /\ Owing(req', c) = Owing(req, c) \ {h}
      BY <1>t, <2>2, <2>3 DEF Finish, Owing
    <3>2. /\ Cardinality(Owing(req', c)) = Cardinality(Owing(req, c)) - 1
          /\ Cardinality(Owing(req', c)) \in Nat /\ Cardinality(Owing(req, c)) \in Nat
      BY <3>1, OwingFinite, FS_RemoveElement
    <3>3. /\ Len(log[c]) \in Nat /\ row[c].rev \in Nat
          /\ Len(log'[c]) = Len(log[c]) + 1
      BY <1>t, <2>1, <2>2, <2>3, OneLog DEF Row
    <3> QED
      BY <1>t, <2>2, <3>2, <3>3 DEF Backed
  <2>4. CASE c # req[h].cargo
    BY <1>2, <1>t, <2>1, <2>2, <2>4, BackedKept
  <2> QED
    BY <2>3, <2>4
<1>10. ASSUME NEW h \in Request, TransitionCommit(h) PROVE Backed(c)'
  <2>1. /\ req[h].stage = "read" /\ Finish(h) /\ req[h].to \in Status
        /\ req[h].saw \in Status /\ req[h].id \in EventId \cup {None}
    BY <1>10, ReadingRow DEF TransitionCommit, ReqOK, Req
  <2>2. CASE UNCHANGED <<row, log>>
    BY <1>2, <1>t, <2>1, <2>2, BackedKept
  <2>3. CASE ~(UNCHANGED <<row, log>>)
    <3>1. /\ WriteStatus(h, req[h].to)
          /\ Log(req[h].cargo, Logged(req[h].saw, req[h].to, req[h].id))
      BY <1>10, <2>3 DEF TransitionCommit
    <3>2. Logged(req[h].saw, req[h].to, req[h].id) \in Event
      BY <2>1, LoggedEvent
    <3> QED
      BY <1>5, <2>1, <3>1, <3>2 DEF Log
  <2> QED
    BY <2>2, <2>3
<1>11. ASSUME NEW h \in Request, SyncCommit(h) PROVE Backed(c)'
  <2>1. /\ req[h].stage = "read" /\ Finish(h) /\ req[h].to \in Status
        /\ req[h].saw \in Status /\ req[h].cargo \in Cargo
        /\ row[req[h].cargo].rev > 0
        /\ Log(req[h].cargo, Logged(req[h].saw, req[h].to, None))
        /\ Logged(req[h].saw, req[h].to, None) \in Event
    BY <1>11, ReadingRow, LoggedEvent DEF SyncCommit, ReqOK
  <2>2. CASE row[req[h].cargo].live
    <3>1. WriteStatus(h, req[h].to)
      BY <1>11, <2>2 DEF SyncCommit
    <3> QED
      BY <1>5, <2>1, <3>1 DEF Log
  <2>3. CASE ~row[req[h].cargo].live
    <3>1. UNCHANGED row
      BY <1>11, <2>3 DEF SyncCommit
    <3>2. CASE c = req[h].cargo
      BY <2>1, <2>3, <3>1, <3>2 DEF Backed
    <3>3. CASE c # req[h].cargo
      <4>1. log'[c] = log[c]
        BY <1>t, <2>1, <3>3 DEF Log
      <4> QED
        BY <1>2, <1>t, <2>1, <3>1, <4>1, BackedKept
    <3> QED
      BY <3>2, <3>3
  <2> QED
    BY <2>2, <2>3
\* The other steps touch neither row nor log, and no request comes to owe.
<1>12. ASSUME UNCHANGED <<row, log>>, Owing(req', c) \subseteq Owing(req, c) PROVE Backed(c)'
  BY <1>12, <1>t, BackedKept
<1>13. ASSUME NEW h \in Request, TransitionRead(h) PROVE Backed(c)'
  <2> DEFINE q == [req[h] EXCEPT !.stage = "read", !.saw = row[req[h].cargo].status,
                                 !.rev = row[req[h].cargo].rev,
                                 !.saves = row[req[h].cargo].saves]
  <2>1. \/ req' = [req EXCEPT ![h] = q]
        \/ Finish(h)
    BY <1>13, <1>t DEF TransitionRead, Req
  <2>2. q.stage # "unlogged"
    BY <1>t DEF Req
  <2> HIDE DEF q
  <2>3. Owing(req', c) \subseteq Owing(req, c)
    BY <1>1, <1>2, <2>1, <2>2
  <2> QED
    BY <1>12, <1>13, <2>3 DEF TransitionRead
<1>14. ASSUME NEW h \in Request, NEW d \in Cargo, NEW s \in DriverTo, NEW t \in 1 .. MaxClock,
              SyncRead(h, d, s, t)
       PROVE  Backed(c)'
  <2> DEFINE q == [kind |-> "sync", stage |-> "read", cargo |-> d, to |-> s,
                   reason |-> FALSE, id |-> None, at |-> t, saw |-> row[d].status,
                   rev |-> row[d].rev, saves |-> row[d].saves]
  <2>1. req' = [req EXCEPT ![h] = q]
    BY <1>14 DEF SyncRead
  <2>2. q.stage # "unlogged"
    OBVIOUS
  <2> HIDE DEF q
  <2>3. Owing(req', c) \subseteq Owing(req, c)
    BY <1>1, <2>1, <2>2
  <2> QED
    BY <1>12, <1>14, <2>3 DEF SyncRead
<1>15. ASSUME NEW h \in Request, NEW d \in Cargo, DeleteRead(h, d) PROVE Backed(c)'
  <2>1. PICK reason \in BOOLEAN : Arrives(h, "delete", "read", d, None, reason, None)
    BY <1>15, Zenon DEF DeleteRead
  <2> QED
    BY <1>3, <1>12, <1>15, <2>1 DEF DeleteRead
<1>16. ASSUME NEW h \in Request, NEW d \in Cargo, NEW s \in AdminTo, ResolveRead(h, d, s)
       PROVE  Backed(c)'
  <2>1. PICK reason \in BOOLEAN : Arrives(h, "resolve", "read", d, s, reason, None)
    BY <1>16, Zenon DEF ResolveRead
  <2> QED
    BY <1>3, <1>12, <1>16, <2>1 DEF ResolveRead
<1>17. ASSUME NEW h \in Request, NEW d \in Cargo, NEW s \in DriverTo,
              NEW id \in EventId \cup {None}, TransitionArrive(h, d, s, id)
       PROVE  Backed(c)'
  <2>1. PICK reason \in BOOLEAN : Arrives(h, "transition", "begun", d, s, reason, id)
    BY <1>17, Zenon DEF TransitionArrive
  <2> QED
    BY <1>3, <1>12, <1>17, <2>1 DEF TransitionArrive
<1>18. ASSUME NEW h \in Request, NEW d \in Cargo, NEW s \in AdminTo \cup {None},
              NEW reason \in BOOLEAN, EditRead(h, d, s, reason)
       PROVE  Backed(c)'
  BY <1>3, <1>12, <1>18 DEF EditRead
<1>19. ASSUME NEW h \in Request, AdminStep(h) PROVE Backed(c)'
  BY <1>6, <1>7, <1>8, <1>9, <1>15, <1>16, <1>18, <1>19 DEF AdminStep
<1>20. ASSUME NEW h \in Request, DriverStep(h) PROVE Backed(c)'
  BY <1>10, <1>11, <1>13, <1>14, <1>17, <1>20 DEF DriverStep
<1>21. ASSUME NEW h \in Request, Abandon(h) PROVE Backed(c)'
  BY <1>2, <1>12, <1>21 DEF Abandon
<1>22. CASE Tick \/ UNCHANGED vars
  BY <1>12, <1>22 DEF Tick, vars
<1>23. ASSUME NEW d \in Cargo, NEW s \in AdminTo, SaveTour(d, s) PROVE Backed(c)'
  <2>1. CASE c = d
    <3>1. row'[c].saves = row[c].saves + 1 /\ row[c].saves \in Nat
      BY <1>23, <1>t, <2>1, SavedRow DEF Row
    <3> QED
      BY <3>1 DEF Backed
  <2>2. CASE c # d
    BY <1>23, <1>t, <2>2, SavedRow, BackedKept DEF SaveTour
  <2> QED
    BY <2>1, <2>2
<1> QED
  BY <1>4, <1>19, <1>20, <1>21, <1>22, <1>23 DEF Next

\* Nothing in the log of a live cargo that the tour editor left alone is invented
\* or repeated: every event has a write of the row behind it.
THEOREM NoEventWithoutWrite == Spec => []EventsAreBackedByWrites
<1>1. Init => AllBacked
  <2> SUFFICES ASSUME Init, NEW c \in Cargo PROVE Backed(c)
    BY DEF AllBacked
  <2>1. Owing(req, c) = {}
    BY IdleReq DEF Init, Owing
  <2>2. Cardinality(Owing(req, c)) = 0
    BY <2>1, FS_EmptySet
  <2>3. Len(log[c]) = 0 /\ row[c].rev = 0 /\ row[c].saves = 0
    BY DEF Init
  <2> QED
    BY <2>2, <2>3 DEF Backed
<1>2. Shape /\ AllBacked => EventsAreBackedByWrites
  <2> SUFFICES ASSUME Shape, AllBacked, NEW c \in Cargo, row[c].live, row[c].saves = 0
               PROVE  Len(log[c]) <= row[c].rev
    BY DEF EventsAreBackedByWrites
  <2>1. Len(log[c]) \in Nat /\ row[c].rev \in Nat /\ Cardinality(Owing(req, c)) \in Nat
    BY OwingFinite DEF Shape, TypeOK, Row
  <2> QED
    BY <2>1 DEF AllBacked, Backed
<1> QED
  BY <1>1, <1>2, ShapeInit, ShapeStep, BackedStep, PTL DEF Spec
\* The log and the rows agree, but for the exceptions that the two parts name.
THEOREM AuditAndRowsAgree == Spec => []LogAndRowsAgree
<1> QED
  BY AuditAccountsForStatus, NoEventWithoutWrite, PTL DEF LogAndRowsAgree

=============================================================================
