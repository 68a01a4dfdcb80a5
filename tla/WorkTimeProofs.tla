--------------------------- MODULE WorkTimeProofs ---------------------------
(***************************************************************************)
(* Proofs about the work-time handlers, for any number of drivers, days,   *)
(* entries and concurrent handlers.                                        *)
(***************************************************************************)
EXTENDS WorkTime, TLAPS

(***************************************************************************)
(* What an open transaction carries, by kind of handler.                   *)
(***************************************************************************)
Writer == {"change", "end", "correct"}

Arguments ==
    \A p \in Request :
        LET t == txn[p] IN
        /\ t.kind = "start" =>
             /\ t.driver \in Driver
             /\ t.day \in Day
             /\ t.fresh \in Entry
             /\ t.to \in Time
        /\ t.kind \in Writer =>
             /\ t.day \in Day
             /\ t.stage # "refused" => t.to \in Time
        /\ t.kind = "correct" /\ t.stage # "refused" => t.from \in Time

LEMMA InitType == WorkTimeAssumption /\ Init => TypeOK /\ Arguments
  BY DEF WorkTimeAssumption, Init, TypeOK, Arguments, Idle, BlankDay, BlankEntry, Txn, DayRow,
     EntryRow, Time, NoTime, Flag, Kind, Approval, Writer, AuditRow

LEMMA EntriesAfterType ==
  ASSUME TypeOK, Arguments, NEW p \in Request, txn[p].kind \in Writer,
         txn[p].stage # "refused"
  PROVE  EntriesAfter(txn[p]) \in [Entry -> EntryRow]
<1> DEFINE t == txn[p]
<1>1. /\ t.driver \in Driver \cup {None}
      /\ t.day \in Day \cup {None}
      /\ t.actor \in {"DRIVER", "ADMIN"}
      /\ t.to \in Time
      /\ t.kind = "correct" => t.from \in Time
  BY DEF TypeOK, Arguments, Txn, Writer
<1>2. ASSUME NEW row \in EntryRow, t.kind = "correct"
      PROVE  Corrected(row, t) \in EntryRow
  <2>1. row.rev + 1 \in Nat
    BY DEF EntryRow
  <2>2. \A n \in Nat : [row EXCEPT !.start = t.from, !.end = t.to, !.source = t.actor,
                          !.approval = "CORRECTION_REQUIRED", !.rev = n] \in EntryRow
    BY <1>1, <1>2 DEF EntryRow, Approval
  <2> QED BY <2>1, <2>2 DEF Corrected
<1>3. ASSUME NEW row \in EntryRow
      PROVE  Closed(row, t) \in EntryRow
  <2>1. row.rev + 1 \in Nat
    BY DEF EntryRow
  <2>2. \A n \in Nat : [row EXCEPT !.end = t.to, !.rev = n] \in EntryRow
    BY <1>1 DEF EntryRow
  <2> QED BY <2>1, <2>2 DEF Closed
<1>4. NewEntry(t) \in EntryRow
  BY <1>1 DEF NewEntry, BlankEntry, EntryRow, Approval
<1>5. \A e \in Entry : entry[e] \in EntryRow
  BY DEF TypeOK
<1> QED BY <1>2, <1>3, <1>4, <1>5 DEF EntriesAfter

LEMMA CommitType ==
  ASSUME TypeOK, NEW p \in Request, txn[p].kind \in Kind, Commit(p)
  PROVE  /\ txn' \in [Request -> Txn]
         /\ raced' \in [Driver -> SUBSET SUBSET Kind]
<1>1. Idle \in Txn
  BY DEF Idle, Txn, Kind, Time, NoTime, Approval
<1>2. ASSUME NEW q \in Request PROVE [txn[q] EXCEPT !.seen = @ \cup {txn[p].kind}] \in Txn
  BY DEF TypeOK, Txn
<1>3. txn' \in [Request -> Txn]
  BY <1>1, <1>2 DEF TypeOK, Commit
<1>4. raced' \in [Driver -> SUBSET SUBSET Kind]
  <2>1. \A k \in txn[p].seen : {txn[p].kind, k} \in SUBSET Kind
    BY DEF TypeOK, Txn
  <2> QED BY <2>1 DEF TypeOK, Commit
<1> QED BY <1>3, <1>4

LEMMA CommitKeeps ==
  ASSUME TypeOK, NEW p \in Request, Commit(p), NEW q \in Request, q # p
  PROVE  /\ txn'[q].kind = txn[q].kind
         /\ txn'[q].stage = txn[q].stage
         /\ txn'[q].driver = txn[q].driver
         /\ txn'[q].day = txn[q].day
         /\ txn'[q].entry = txn[q].entry
         /\ txn'[q].fresh = txn[q].fresh
         /\ txn'[q].from = txn[q].from
         /\ txn'[q].to = txn[q].to
         /\ txn'[q].days = txn[q].days
         /\ txn[q].seen \subseteq txn'[q].seen
  BY DEF TypeOK, Commit, Txn

LEMMA TallyType ==
  ASSUME NEW table \in [Entry -> EntryRow], NEW d \in Day, NEW sum \in Tallies(table, d)
  PROVE  sum \in SUBSET (Entry \X (Time \cup {NoTime}) \X Time)
<1>1. PICK now \in Time : sum = Tally(table, d, now)
  BY DEF Tallies
<1>2. \A e \in Entry : LastsUntil(table[e], now) \in Time
  BY DEF LastsUntil, EntryRow
<1> QED BY <1>1, <1>2 DEF Tally, EntriesOf, EntryRow

\* A day whose entries are all running may have been summed up before any of
\* them had lasted: it counts for nothing then.
LEMMA NothingYet ==
  ASSUME WorkTimeAssumption, NEW table \in [Entry -> EntryRow], NEW d,
         \A e \in EntriesOf(table, d) : table[e].end = NoTime /\ table[e].start \in Time
  PROVE  {} \in Tallies(table, d)
<1>1. 0 \in Time
  BY DEF WorkTimeAssumption, Time
<1>2. \A e \in EntriesOf(table, d) : ~ (LastsUntil(table[e], 0) > table[e].start)
  BY DEF LastsUntil, Time
<1>3. Tally(table, d, 0) = {}
  BY <1>2 DEF Tally
<1> QED BY <1>1, <1>3 DEF Tallies

(***************************************************************************)
(* A request that arrives reads, and changes nothing but its transaction.  *)
(***************************************************************************)
LEMMA ArriveType ==
  ASSUME WorkTimeAssumption, TypeOK, Arguments, NEW p \in Request, Arrive(p)
  PROVE  TypeOK' /\ Arguments'
<1> DEFINE Fine(t) ==
      /\ t.kind = "start" =>
           t.driver \in Driver /\ t.day \in Day /\ t.fresh \in Entry /\ t.to \in Time
      /\ t.kind \in Writer =>
           t.day \in Day /\ (t.stage # "refused" => t.to \in Time)
      /\ t.kind = "correct" /\ t.stage # "refused" => t.from \in Time
<1>1. ASSUME NEW t \in Txn, Fine(t), txn' = [txn EXCEPT ![p] = t], UNCHANGED Tables
      PROVE  TypeOK' /\ Arguments'
  BY <1>1 DEF TypeOK, Arguments, Tables
<1>2. CASE StartDayRead(p)
  <2>1. PICK dr \in Driver, t \in Time, d \in FreeDays, e \in FreeEntries :
           txn' = [txn EXCEPT ![p] = [Idle EXCEPT !.kind = "start", !.stage = "read",
                     !.driver = dr, !.day = d, !.fresh = e, !.to = t]]
    BY <1>2 DEF StartDayRead
  <2> DEFINE new == [Idle EXCEPT !.kind = "start", !.stage = "read",
                       !.driver = dr, !.day = d, !.fresh = e, !.to = t]
  <2>2. d \in Day /\ e \in Entry
    BY DEF FreeDays, FreeEntries
  <2>3. new \in Txn /\ Fine(new)
    BY <2>2 DEF Txn, Idle, Kind, Writer, Approval
  <2>4. txn' = [txn EXCEPT ![p] = new] /\ UNCHANGED Tables
    BY <2>1, <1>2 DEF StartDayRead
  <2> QED BY <2>3, <2>4, <1>1
<1>3. CASE ChangeStatusRead(p)
  <2>1. PICK dr \in Driver, d \in Day, e, x \in Entry \cup {None}, t \in Time :
           txn' = [txn EXCEPT ![p] = [Idle EXCEPT !.kind = "change",
                     !.stage = "read", !.driver = dr, !.day = d, !.entry = e,
                     !.fresh = x, !.to = t]]
    BY <1>3 DEF ChangeStatusRead
  <2> DEFINE new == [Idle EXCEPT !.kind = "change",
                     !.stage = "read", !.driver = dr, !.day = d, !.entry = e,
                     !.fresh = x, !.to = t]
  <2>2. new \in Txn /\ Fine(new)
    BY <2>1 DEF Txn, Idle, Kind, Writer, Approval, TypeOK, DayRow, EntryRow
  <2>3. txn' = [txn EXCEPT ![p] = new] /\ UNCHANGED Tables
    BY <2>1, <1>3 DEF ChangeStatusRead
  <2> QED BY <2>2, <2>3, <1>1
<1>4. CASE EndDayRead(p)
  <2>1. PICK dr \in Driver, d \in Day, e \in Entry \cup {None}, t \in Time :
           txn' = [txn EXCEPT ![p] = [Idle EXCEPT !.kind = "end",
                     !.stage = "read", !.driver = dr, !.day = d, !.entry = e,
                     !.to = t]]
    BY <1>4 DEF EndDayRead
  <2> DEFINE new == [Idle EXCEPT !.kind = "end",
                     !.stage = "read", !.driver = dr, !.day = d, !.entry = e,
                     !.to = t]
  <2>2. new \in Txn /\ Fine(new)
    BY <2>1 DEF Txn, Idle, Kind, Writer, Approval, TypeOK, DayRow, EntryRow
  <2>3. txn' = [txn EXCEPT ![p] = new] /\ UNCHANGED Tables
    BY <2>1, <1>4 DEF EndDayRead
  <2> QED BY <2>2, <2>3, <1>1
<1>5. CASE CorrectEntryRead(p)
  <2>1. PICK e \in Entry, actor \in {"DRIVER", "ADMIN"}, from, to \in Time :
           /\ entry[e].day \in Day
           /\ txn' = [txn EXCEPT ![p] = [Idle EXCEPT !.kind = "correct",
                     !.stage = "read", !.actor = actor,
                     !.driver = day[entry[e].day].driver, !.day = entry[e].day, !.entry = e,
                     !.from = from, !.to = to, !.rev = entry[e].rev]]
    BY <1>5 DEF CorrectEntryRead, CanStartOn, StoredDays, StoredEntries
  <2> DEFINE new == [Idle EXCEPT !.kind = "correct",
                     !.stage = "read", !.actor = actor,
                     !.driver = day[entry[e].day].driver, !.day = entry[e].day, !.entry = e,
                     !.from = from, !.to = to, !.rev = entry[e].rev]
  <2>a. entry[e].rev \in Nat /\ day[entry[e].day].driver \in Driver \cup {None}
    BY <2>1 DEF TypeOK, DayRow, EntryRow
  <2>2. new \in Txn /\ Fine(new)
    BY <2>1, <2>a DEF Txn, Idle, Kind, Writer, Approval
  <2>3. txn' = [txn EXCEPT ![p] = new] /\ UNCHANGED Tables
    BY <2>1, <1>5 DEF CorrectEntryRead
  <2> QED BY <2>2, <2>3, <1>1
<1>6. CASE CorrectEntryConflict(p)
  <2>1. PICK e \in Entry :
           /\ entry[e].day \in Day
           /\ txn' = [txn EXCEPT ![p] = [Idle EXCEPT !.kind = "correct",
                     !.stage = "refused", !.driver = day[entry[e].day].driver,
                     !.day = entry[e].day]]
    BY <1>6 DEF CorrectEntryConflict, CanStartOn, StoredDays, StoredEntries
  <2> DEFINE new == [Idle EXCEPT !.kind = "correct",
                     !.stage = "refused", !.driver = day[entry[e].day].driver,
                     !.day = entry[e].day]
  <2>a. entry[e].rev \in Nat /\ day[entry[e].day].driver \in Driver \cup {None}
    BY <2>1 DEF TypeOK, DayRow, EntryRow
  <2>2. new \in Txn /\ Fine(new)
    BY <2>1, <2>a DEF Txn, Idle, Kind, Writer, Approval
  <2>3. txn' = [txn EXCEPT ![p] = new] /\ UNCHANGED Tables
    BY <2>1, <1>6 DEF CorrectEntryConflict
  <2> QED BY <2>2, <2>3, <1>1
<1>7. CASE SetApprovalRead(p)
  <2>1. PICK d \in Day, decision \in Decision :
           txn' = [txn EXCEPT ![p] = [Idle EXCEPT !.kind = "approve",
                     !.stage = "read", !.actor = "ADMIN", !.days = {d},
                     !.approval = decision.status, !.note = decision.note,
                     !.rev = day[d].rev]]
    BY <1>7 DEF SetApprovalRead
  <2> DEFINE new == [Idle EXCEPT !.kind = "approve",
                     !.stage = "read", !.actor = "ADMIN", !.days = {d},
                     !.approval = decision.status, !.note = decision.note,
                     !.rev = day[d].rev]
  <2>2. new \in Txn /\ Fine(new)
    BY <2>1, WorkTimeAssumption DEF WorkTimeAssumption, Txn, Idle, Kind, Writer, Approval, TypeOK, DayRow, EntryRow
  <2>3. txn' = [txn EXCEPT ![p] = new] /\ UNCHANGED Tables
    BY <2>1, <1>7 DEF SetApprovalRead
  <2> QED BY <2>2, <2>3, <1>1
<1>8. CASE BulkRead(p)
  <2>1. PICK ds \in SUBSET Day, decision \in Decision :
           txn' = [txn EXCEPT ![p] = [Idle EXCEPT !.kind = "bulk",
                     !.stage = "read", !.actor = "ADMIN", !.days = ds,
                     !.approval = decision.status, !.note = decision.note]]
    BY <1>8 DEF BulkRead
  <2> DEFINE new == [Idle EXCEPT !.kind = "bulk",
                     !.stage = "read", !.actor = "ADMIN", !.days = ds,
                     !.approval = decision.status, !.note = decision.note]
  <2>2. new \in Txn /\ Fine(new)
    BY <2>1, WorkTimeAssumption DEF WorkTimeAssumption, Txn, Idle, Kind, Writer, Approval, TypeOK, DayRow, EntryRow
  <2>3. txn' = [txn EXCEPT ![p] = new] /\ UNCHANGED Tables
    BY <2>1, <1>8 DEF BulkRead
  <2> QED BY <2>2, <2>3, <1>1
<1> QED BY <1>2, <1>3, <1>4, <1>5, <1>6, <1>7, <1>8 DEF Arrive

(***************************************************************************)
(* An open transaction goes on.                                            *)
(***************************************************************************)
LEMMA RecalculatedType ==
  ASSUME TypeOK, NEW d \in Day, NEW t \in Txn
  PROVE  Recalculated(day[d], t) \in DayRow
<1> DEFINE row == day[d]
<1>1. row \in DayRow /\ row.rev + 1 \in Nat
  BY DEF TypeOK, DayRow
<1>2. t.sum \in SUBSET (Entry \X (Time \cup {NoTime}) \X Time)
  BY DEF Txn
<1>3. \A n \in Nat : [row EXCEPT !.tally = t.sum, !.flags = {}, !.rev = n] \in DayRow
  BY <1>1, <1>2 DEF DayRow
<1> QED BY <1>1, <1>3 DEF Recalculated

LEMMA EndedType ==
  ASSUME TypeOK, NEW d \in Day, NEW t \in Txn, t.to \in Time
  PROVE  Ended(day[d], t) \in DayRow
<1> DEFINE row == Recalculated(day[d], t)
<1>1. row \in DayRow
  BY RecalculatedType
<1> HIDE DEF row
<1>2. row.rev + 1 \in Nat
  BY <1>1 DEF DayRow
<1>3. \A n \in Nat : [row EXCEPT !.end = t.to, !.status = "CLOSED", !.rev = n] \in DayRow
  BY <1>1 DEF DayRow
<1>4. [row EXCEPT !.end = t.to, !.status = "CLOSED", !.rev = row.rev + 1] \in DayRow
  BY <1>2, <1>3
<1> QED BY <1>4 DEF row, Ended

LEMMA ApprovedType ==
  ASSUME TypeOK, NEW d \in Day, NEW t \in Txn
  PROVE  Approved(day[d], t) \in DayRow
<1> DEFINE row == day[d]
<1>1. row \in DayRow /\ row.rev + 1 \in Nat
  BY DEF TypeOK, DayRow
<1>2. t.approval \in Approval /\ t.note \in BOOLEAN
  BY DEF Txn
<1>3. \A n \in Nat : [row EXCEPT !.approval = t.approval, !.note = t.note, !.rev = n] \in DayRow
  BY <1>1, <1>2 DEF DayRow
<1> QED BY <1>1, <1>3 DEF Approved

LEMMA AuditType ==
  ASSUME TypeOK, NEW d \in Day
  PROVE  /\ [audit[d] EXCEPT !.started = @ + 1] \in AuditRow
         /\ [audit[d] EXCEPT !.edited = @ + 1] \in AuditRow
         /\ [audit[d] EXCEPT !.ended = @ + 1] \in AuditRow
<1> DEFINE a == audit[d]
<1>1. /\ a \in AuditRow
      /\ a.started + 1 \in Nat
      /\ a.edited + 1 \in Nat
      /\ a.ended + 1 \in Nat
  BY DEF TypeOK, AuditRow
<1>2. \A n \in Nat : /\ [a EXCEPT !.started = n] \in AuditRow
                     /\ [a EXCEPT !.edited = n] \in AuditRow
                     /\ [a EXCEPT !.ended = n] \in AuditRow
  BY <1>1 DEF AuditRow
<1> QED BY <1>1, <1>2

LEMMA CommitArguments ==
  ASSUME TypeOK, Arguments, NEW p \in Request, Commit(p)
  PROVE  Arguments'
<1>1. txn'[p].kind = "none"
  BY DEF Commit, Idle
<1>2. ASSUME NEW q \in Request, q # p
      PROVE  /\ txn'[q].kind = txn[q].kind
             /\ txn'[q].stage = txn[q].stage
             /\ txn'[q].driver = txn[q].driver
             /\ txn'[q].day = txn[q].day
             /\ txn'[q].fresh = txn[q].fresh
             /\ txn'[q].from = txn[q].from
             /\ txn'[q].to = txn[q].to
  BY <1>2, CommitKeeps
<1> QED BY <1>1, <1>2 DEF Arguments, Writer

LEMMA ProceedType ==
  ASSUME WorkTimeAssumption, TypeOK, Arguments, NEW p \in Request, Proceed(p)
  PROVE  TypeOK' /\ Arguments'
<1> DEFINE t == txn[p]
<1>1. t \in Txn
  BY DEF TypeOK
<1>2. ASSUME Commit(p), t.kind \in Kind
      PROVE  /\ txn' \in [Request -> Txn]
             /\ raced' \in [Driver -> SUBSET SUBSET Kind]
             /\ Arguments'
  BY <1>2, CommitType, CommitArguments
<1>3. CASE StartDayCommit(p)
  <2>1. t.driver \in Driver /\ t.day \in Day /\ t.fresh \in Entry /\ t.to \in Time
    BY <1>3 DEF StartDayCommit, Arguments
  <2>2. [BlankDay EXCEPT !.driver = t.driver, !.start = t.to, !.rev = 1] \in DayRow
    BY <2>1 DEF BlankDay, DayRow, Approval
  <2>3. NewEntry(t) \in EntryRow
    BY <2>1 DEF NewEntry, BlankEntry, EntryRow, Approval
  <2>4. day' \in [Day -> DayRow]
    BY <1>3, <2>2 DEF StartDayCommit, TypeOK
  <2>5. entry' \in [Entry -> EntryRow]
    BY <1>3, <2>3 DEF StartDayCommit, TypeOK
  <2>6. audit' \in [Day -> AuditRow]
    BY <1>3, <2>1, AuditType DEF StartDayCommit, TypeOK
  <2> QED BY <2>4, <2>5, <2>6, <1>2, <1>3 DEF StartDayCommit, TypeOK, Kind
<1>4. CASE UpdateEntries(p)
  <2>1. t.day \in Day /\ EntriesAfter(t) \in [Entry -> EntryRow]
    BY <1>4, EntriesAfterType DEF UpdateEntries, Arguments, Writer
  <2>2. PICK sum \in Tallies(EntriesAfter(t), t.day) :
           txn' = [txn EXCEPT ![p].stage = "wrote", ![p].locks = {t.entry} \ {None}, ![p].sum = sum]
    BY <1>4 DEF UpdateEntries
  <2>7. sum \in SUBSET (Entry \X (Time \cup {NoTime}) \X Time)
    BY <2>1, TallyType
  <2>3. ({t.entry} \ {None}) \in SUBSET (Day \cup Entry)
    BY <1>1 DEF Txn
  <2>4. \A s \in SUBSET (Entry \X (Time \cup {NoTime}) \X Time),
           l \in SUBSET (Day \cup Entry) :
           [t EXCEPT !.stage = "wrote", !.locks = l, !.sum = s] \in Txn
    BY <1>1 DEF Txn
  <2>5. [t EXCEPT !.stage = "wrote", !.locks = {t.entry} \ {None}, !.sum = sum] \in Txn
    BY <2>3, <2>4, <2>7
  <2>6. txn' = [txn EXCEPT ![p] = [t EXCEPT !.stage = "wrote", !.locks = {t.entry} \ {None},
                  !.sum = sum]]
    BY <2>2 DEF TypeOK
  <2> QED BY <2>5, <2>6, <1>4 DEF UpdateEntries, Tables, TypeOK, Arguments, Writer
<1>5. CASE ChangeStatusCommit(p)
  <2>1. t.day \in Day /\ EntriesAfter(t) \in [Entry -> EntryRow]
    BY <1>5, EntriesAfterType DEF ChangeStatusCommit, ReadyToCommit, Arguments, Writer
  <2>2. day' \in [Day -> DayRow] /\ audit' \in [Day -> AuditRow]
    BY <1>1, <1>5, <2>1, RecalculatedType, AuditType DEF ChangeStatusCommit, TypeOK
  <2> QED BY <2>1, <2>2, <1>2, <1>5 DEF ChangeStatusCommit, ReadyToCommit, TypeOK, Kind
<1>6. CASE CorrectEntryCommit(p)
  <2>1. t.day \in Day /\ EntriesAfter(t) \in [Entry -> EntryRow]
    BY <1>6, EntriesAfterType DEF CorrectEntryCommit, ReadyToCommit, Arguments, Writer
  <2>2. day' \in [Day -> DayRow] /\ audit' \in [Day -> AuditRow]
    BY <1>1, <1>6, <2>1, RecalculatedType, AuditType DEF CorrectEntryCommit, TypeOK
  <2> QED BY <2>1, <2>2, <1>2, <1>6 DEF CorrectEntryCommit, ReadyToCommit, TypeOK, Kind
<1>7. CASE EndDayCommit(p)
  <2>1. t.day \in Day /\ t.to \in Time /\ EntriesAfter(t) \in [Entry -> EntryRow]
    BY <1>7, EntriesAfterType DEF EndDayCommit, ReadyToCommit, Arguments, Writer
  <2>2. day' \in [Day -> DayRow] /\ audit' \in [Day -> AuditRow]
    BY <1>1, <1>7, <2>1, EndedType, AuditType DEF EndDayCommit, TypeOK
  <2> QED BY <2>1, <2>2, <1>2, <1>7 DEF EndDayCommit, ReadyToCommit, TypeOK, Kind
<1>8. CASE RefuseCorrection(p)
  <2>1. Idle \in Txn
    BY DEF Idle, Txn, Kind, Time, NoTime, Approval
  <2> QED BY <1>8, <2>1 DEF RefuseCorrection, TypeOK, Arguments, Idle, Writer
<1>9. CASE SetApprovalHold(p)
  <2>1. [t EXCEPT !.stage = "held", !.locks = t.days] \in Txn
    BY <1>1 DEF Txn
  <2>2. txn' = [txn EXCEPT ![p] = [t EXCEPT !.stage = "held", !.locks = t.days]]
    BY <1>9 DEF SetApprovalHold, TypeOK
  <2> QED BY <1>9, <2>1, <2>2 DEF SetApprovalHold, Tables, TypeOK, Arguments, Writer
<1>10. CASE SetApprovalCommit(p)
  <2>1. day' \in [Day -> DayRow] /\ audit' \in [Day -> AuditRow]
    BY <1>1, <1>10, ApprovedType, AuditType DEF SetApprovalCommit, TypeOK
  <2>2. ASSUME NEW e \in Entry
        PROVE  [entry[e] EXCEPT !.approval = t.approval, !.rev = @ + 1] \in EntryRow
    <3> DEFINE row == entry[e]
    <3>1. row \in EntryRow /\ row.rev + 1 \in Nat
      BY DEF TypeOK, EntryRow
    <3>2. \A n \in Nat : [row EXCEPT !.approval = t.approval, !.rev = n] \in EntryRow
      BY <1>1, <3>1 DEF EntryRow, Txn
    <3> QED BY <3>1, <3>2
  <2>3. entry' \in [Entry -> EntryRow]
    BY <1>10, <2>2 DEF SetApprovalCommit, TypeOK
  <2> QED BY <2>1, <2>3, <1>2, <1>10 DEF SetApprovalCommit, TypeOK, Kind
<1>11. CASE BulkCommit(p)
  <2>1. day' \in [Day -> DayRow] /\ audit' \in [Day -> AuditRow]
    BY <1>1, <1>11, ApprovedType, AuditType DEF BulkCommit, TypeOK
  <2> QED BY <2>1, <1>2, <1>11 DEF BulkCommit, TypeOK, Kind
<1> QED BY <1>3, <1>4, <1>5, <1>6, <1>7, <1>8, <1>9, <1>10, <1>11 DEF Proceed

LEMMA AbortType ==
  ASSUME TypeOK, Arguments, NEW p \in Request, Abort(p)
  PROVE  TypeOK' /\ Arguments'
<1>1. Idle \in Txn
  BY DEF Idle, Txn, Kind, Time, NoTime, Approval
<1> QED BY <1>1 DEF Abort, TypeOK, Arguments, Idle, Writer

(***************************************************************************)
(* Type correctness.                                                       *)
(***************************************************************************)
\* Rows, audit counts and open transactions keep their shape: in particular
\* every stored total was summed over closed intervals only.
THEOREM TypeCorrect == Spec => []TypeOK
<1>1. Init => TypeOK /\ Arguments
  BY WorkTimeAssumption, InitType
<1>2. TypeOK /\ Arguments /\ [Next]_vars => TypeOK' /\ Arguments'
  <2> SUFFICES ASSUME TypeOK, Arguments, [Next]_vars
               PROVE  TypeOK' /\ Arguments'
    OBVIOUS
  <2>1. CASE Next
    BY <2>1, WorkTimeAssumption, ArriveType, ProceedType, AbortType DEF Next
  <2>2. CASE UNCHANGED vars
    BY <2>2 DEF vars, TypeOK, Arguments
  <2> QED BY <2>1, <2>2
<1> QED BY <1>1, <1>2, PTL DEF Spec

(***************************************************************************)
(* Identities: a row that is to be inserted is nobody else's, and a row    *)
(* that is to be updated is there.  Books: revisions against audit trail.  *)
(***************************************************************************)
Fresh ==
    /\ \A d \in Day : day[d].driver = None => day[d].rev = 0
    /\ \A e \in Entry : entry[e].day = None => entry[e].rev = 0
    /\ \A p \in Request :
         LET t == txn[p] IN
         /\ t.kind = "start" => day[t.day].driver = None
         /\ t.fresh # None => entry[t.fresh].day = None

Present ==
    \A p \in Request :
        LET t == txn[p] IN
        /\ t.kind \in Writer => day[t.day].driver # None
        /\ t.entry # None => entry[t.entry].day # None
        /\ \A d \in t.days : day[d].driver # None

Unshared ==
    \A p, q \in Request :
        p # q =>
          /\ txn[p].kind = "start" => txn[q].day # txn[p].day
          /\ txn[p].fresh # None => txn[q].fresh # txn[p].fresh

Identities == Fresh /\ Present /\ Unshared

Books ==
    \A d \in Day :
        IF day[d].driver = None
        THEN /\ audit[d].started = 0
             /\ audit[d].edited = 0
             /\ audit[d].ended = 0
        ELSE /\ audit[d].started = 1
             /\ day[d].rev = audit[d].started + audit[d].edited + 2 * audit[d].ended

LEMMA InitIdentities == WorkTimeAssumption /\ Init => Identities /\ Books
  BY DEF WorkTimeAssumption, Init, Identities, Fresh, Present, Unshared, Books, Idle, BlankDay, BlankEntry, Writer

LEMMA ArriveIdentities ==
  ASSUME WorkTimeAssumption, TypeOK, Arguments, Identities, NEW p \in Request, Arrive(p)
  PROVE  Identities'
<1>1. CASE StartDayRead(p)
  <2>1. PICK dr \in Driver, t \in Time, d \in FreeDays, e \in FreeEntries :
           txn' = [txn EXCEPT ![p] = [Idle EXCEPT !.kind = "start", !.stage = "read",
                     !.driver = dr, !.day = d, !.fresh = e, !.to = t]]
    BY <1>1 DEF StartDayRead
  <2>2. /\ txn'[p].kind = "start" /\ txn'[p].day = d /\ txn'[p].fresh = e
        /\ txn'[p].entry = None /\ txn'[p].days = {}
        /\ \A q \in Request \ {p} : txn'[q] = txn[q]
    BY <2>1 DEF TypeOK, Idle
  <2>3. /\ d \in Day /\ day[d].driver = None
        /\ e \in Entry /\ entry[e].day = None
        /\ \A q \in Request : txn[q].day # d /\ txn[q].fresh # e
    BY DEF FreeDays, FreeEntries, StoredDays, StoredEntries
  <2>4. UNCHANGED Tables
    BY <1>1 DEF StartDayRead
  <2>5. Fresh'
    BY <2>2, <2>3, <2>4 DEF Identities, Fresh, Tables
  <2>6. Present'
    BY <2>2, <2>3, <2>4 DEF Identities, Present, Tables, Writer
  <2>7. Unshared'
    BY <2>2, <2>3 DEF Identities, Unshared
  <2> QED BY <2>5, <2>6, <2>7 DEF Identities
<1>2. CASE ChangeStatusRead(p)
  <2>1. PICK d \in Day, e, x \in Entry \cup {None} :
           /\ CanStartOn(p, d)
           /\ IsOpenEntry(d, e)
           /\ x \in FreeEntries \cup {None}
           /\ txn'[p].kind = "change" /\ txn'[p].day = d /\ txn'[p].fresh = x
           /\ txn'[p].entry = e /\ txn'[p].days = {}
           /\ \A q \in Request \ {p} : txn'[q] = txn[q]
    BY <1>2 DEF ChangeStatusRead, TypeOK, Idle
  <2>2. /\ d \in Day /\ day[d].driver # None
        /\ e # None => e \in Entry /\ entry[e].day # None
        /\ x # None => x \in Entry /\ entry[x].day = None /\ \A q \in Request : txn[q].fresh # x
    BY <2>1, WorkTimeAssumption DEF WorkTimeAssumption, FreeEntries, StoredDays, StoredEntries, CanStartOn, IsOpenEntry, OpenEntries, EntriesOf
  <2>3. UNCHANGED Tables
    BY <1>2 DEF ChangeStatusRead
  <2>4. Fresh'
    BY <2>1, <2>2, <2>3 DEF Identities, Fresh, Tables
  <2>5. Present'
    BY <2>1, <2>2, <2>3 DEF Identities, Present, Tables, Writer
  <2>6. Unshared'
    BY <2>1, <2>2, <2>3 DEF Identities, Unshared, Fresh
  <2> QED BY <2>4, <2>5, <2>6 DEF Identities
<1>3. CASE EndDayRead(p)
  <2>1. PICK d \in Day, e \in Entry \cup {None} :
           /\ CanStartOn(p, d)
           /\ IsOpenEntry(d, e)
           /\ txn'[p].kind = "end" /\ txn'[p].day = d /\ txn'[p].fresh = None
           /\ txn'[p].entry = e /\ txn'[p].days = {}
           /\ \A q \in Request \ {p} : txn'[q] = txn[q]
    BY <1>3 DEF EndDayRead, TypeOK, Idle
  <2>2. /\ d \in Day /\ day[d].driver # None
        /\ e # None => e \in Entry /\ entry[e].day # None
    BY <2>1, WorkTimeAssumption DEF WorkTimeAssumption, StoredDays, CanStartOn, IsOpenEntry, OpenEntries, EntriesOf
  <2>3. UNCHANGED Tables
    BY <1>3 DEF EndDayRead
  <2>4. Fresh'
    BY <2>1, <2>2, <2>3 DEF Identities, Fresh, Tables
  <2>5. Present'
    BY <2>1, <2>2, <2>3 DEF Identities, Present, Tables, Writer
  <2>6. Unshared'
    BY <2>1, <2>2, <2>3 DEF Identities, Unshared, Fresh
  <2> QED BY <2>4, <2>5, <2>6 DEF Identities
<1>4. CASE CorrectEntryRead(p) \/ CorrectEntryConflict(p)
  <2>1. PICK e \in StoredEntries, x \in StoredEntries \cup {None} :
           /\ CanStartOn(p, entry[e].day)
           /\ txn'[p].kind = "correct" /\ txn'[p].day = entry[e].day /\ txn'[p].fresh = None
           /\ txn'[p].entry = x /\ txn'[p].days = {}
           /\ \A q \in Request \ {p} : txn'[q] = txn[q]
    <3>1. CASE CorrectEntryRead(p)
      BY <3>1 DEF CorrectEntryRead, TypeOK, Idle
    <3>2. CASE CorrectEntryConflict(p)
      BY <3>2 DEF CorrectEntryConflict, TypeOK, Idle
    <3> QED BY <1>4, <3>1, <3>2
  <2>2. /\ entry[e].day \in Day /\ day[entry[e].day].driver # None
        /\ x # None => x \in Entry /\ entry[x].day # None
    BY <2>1 DEF StoredDays, StoredEntries, CanStartOn
  <2>3. UNCHANGED Tables
    BY <1>4 DEF CorrectEntryRead, CorrectEntryConflict
  <2>4. Fresh'
    BY <2>1, <2>2, <2>3 DEF Identities, Fresh, Tables
  <2>5. Present'
    BY <2>1, <2>2, <2>3 DEF Identities, Present, Tables, Writer
  <2>6. Unshared'
    BY <2>1, <2>2, <2>3 DEF Identities, Unshared, Fresh
  <2> QED BY <2>4, <2>5, <2>6 DEF Identities
<1>5. CASE SetApprovalRead(p) \/ BulkRead(p)
  <2>1. PICK ds \in SUBSET Day :
           /\ \A d \in ds : CanStartOn(p, d)
           /\ txn'[p].kind \in {"approve", "bulk"} /\ txn'[p].day = None /\ txn'[p].fresh = None
           /\ txn'[p].entry = None /\ txn'[p].days = ds
           /\ \A q \in Request \ {p} : txn'[q] = txn[q]
    <3>1. CASE SetApprovalRead(p)
      <4>1. PICK d \in Day, decision \in Decision :
               /\ CanStartOn(p, d)
               /\ txn' = [txn EXCEPT ![p] = [Idle EXCEPT !.kind = "approve",
                     !.stage = "read", !.actor = "ADMIN", !.days = {d},
                     !.approval = decision.status, !.note = decision.note,
                     !.rev = day[d].rev]]
        BY <3>1 DEF SetApprovalRead
      <4>2. /\ txn'[p].kind = "approve" /\ txn'[p].day = None /\ txn'[p].fresh = None
            /\ txn'[p].entry = None /\ txn'[p].days = {d}
            /\ \A q \in Request \ {p} : txn'[q] = txn[q]
        BY <4>1 DEF TypeOK, Idle
      <4>3. {d} \in SUBSET Day /\ \A x \in {d} : CanStartOn(p, x)
        BY <4>1
      <4> QED BY <4>2, <4>3
    <3>2. CASE BulkRead(p)
      BY <3>2 DEF BulkRead, TypeOK, Idle
    <3> QED BY <1>5, <3>1, <3>2
  <2>2. \A d \in ds : day[d].driver # None
    BY <2>1 DEF StoredDays, CanStartOn
  <2>3. UNCHANGED Tables
    BY <1>5 DEF SetApprovalRead, BulkRead
  <2>4. Fresh'
    BY <2>1, <2>2, <2>3 DEF Identities, Fresh, Tables
  <2>5. Present'
    BY <2>1, <2>2, <2>3 DEF Identities, Present, Tables, Writer
  <2>6. Unshared'
    <3>1. \A q \in Request : txn[q].kind = "start" => txn[q].day # None
      BY WorkTimeAssumption DEF WorkTimeAssumption, Arguments
    <3> QED BY <2>1, <2>2, <2>3, <3>1 DEF Identities, Unshared
  <2> QED BY <2>4, <2>5, <2>6 DEF Identities
<1> QED BY <1>1, <1>2, <1>3, <1>4, <1>5 DEF Arrive

\* The handlers other than p go on with what they have read.
OthersUntouched(p) ==
    \A q \in Request \ {p} :
        /\ txn'[q].kind = txn[q].kind
        /\ txn'[q].stage = txn[q].stage
        /\ txn'[q].driver = txn[q].driver
        /\ txn'[q].day = txn[q].day
        /\ txn'[q].entry = txn[q].entry
        /\ txn'[q].fresh = txn[q].fresh
        /\ txn'[q].days = txn[q].days
        /\ txn[q].seen \subseteq txn'[q].seen

\* Handler p is over, or still the one it was.
EndedOrSame(p) ==
    \/ txn'[p] = Idle
    \/ /\ txn'[p].kind = txn[p].kind
       /\ txn'[p].day = txn[p].day
       /\ txn'[p].driver = txn[p].driver
       /\ txn'[p].seen = txn[p].seen
       /\ txn'[p].fresh = txn[p].fresh
       /\ txn'[p].entry = txn[p].entry
       /\ txn'[p].days = txn[p].days

\* The only row that comes into being is the entry that p opens.
OnlyFreshEntry(p) ==
    \A e \in Entry :
        /\ entry[e].day # None => entry'[e].day = entry[e].day
        /\ entry[e].day = None /\ entry'[e] # entry[e] =>
             e = txn[p].fresh /\ txn'[p] = Idle /\ entry'[e].day # None

SameOwners == \A d \in Day : day'[d].driver = day[d].driver

LEMMA KeepsIdentities ==
  ASSUME WorkTimeAssumption, TypeOK, Arguments, Identities, NEW p \in Request,
         OthersUntouched(p), EndedOrSame(p), OnlyFreshEntry(p), SameOwners,
         \A d \in Day : day[d].driver = None => day'[d].rev = 0
  PROVE  Identities'
<1> USE DEF OthersUntouched, EndedOrSame, OnlyFreshEntry, SameOwners, Idle
<1>1. /\ \A q \in Request : txn[q].fresh \in Entry \cup {None} /\ txn[q].entry \in Entry \cup {None}
                            /\ txn[q].days \subseteq Day
      /\ \A q \in Request : txn[q].kind \in Writer \cup {"start"} => txn[q].day \in Day
      /\ None \notin Day
  BY WorkTimeAssumption DEF WorkTimeAssumption, Arguments, TypeOK, Txn
<1>2. Fresh'
  <2>1. \A d \in Day : day'[d].driver = None => day'[d].rev = 0
    OBVIOUS
  <2>2. \A e \in Entry : entry'[e].day = None => entry'[e].rev = 0
    BY DEF Identities, Fresh
  <2>3. \A q \in Request : txn'[q].kind = "start" => day'[txn'[q].day].driver = None
    BY <1>1 DEF Identities, Fresh
  <2>4. \A q \in Request : txn'[q].fresh # None => entry'[txn'[q].fresh].day = None
    BY <1>1 DEF Identities, Fresh, Unshared
  <2> QED BY <2>1, <2>2, <2>3, <2>4 DEF Fresh
<1>3. Present'
  BY <1>1 DEF Identities, Present, Writer
<1>4. Unshared'
  BY <1>1 DEF Identities, Unshared
<1> QED BY <1>2, <1>3, <1>4 DEF Identities

LEMMA CommitEnds ==
  ASSUME TypeOK, NEW p \in Request, Commit(p)
  PROVE  OthersUntouched(p) /\ txn'[p] = Idle
<1>1. txn'[p] = Idle
  BY DEF Commit
<1> QED BY <1>1, CommitKeeps DEF OthersUntouched

\* A handler that writes entries and sums up.
LEMMA EntriesAfterSteps ==
  ASSUME WorkTimeAssumption, TypeOK, Identities, NEW p \in Request,
         txn[p].kind \in Writer, txn[p].day \in Day,
         entry' = EntriesAfter(txn[p]), txn'[p] = Idle
  PROVE  /\ OnlyFreshEntry(p)
         /\ \A e \in Entry : entry'[e] # entry[e] => entry'[e].rev > entry[e].rev
<1> DEFINE t == txn[p]
<1>1. /\ t.entry \in Entry => entry[t.entry].day # None
      /\ t.fresh \in Entry => entry[t.fresh].day = None /\ entry[t.fresh].rev = 0
      /\ t.day # None
  BY WorkTimeAssumption DEF WorkTimeAssumption, Identities, Fresh, Present
<1>2. ASSUME NEW e \in Entry
      PROVE  /\ entry[e] \in EntryRow
             /\ entry[e].rev \in Nat
  BY DEF TypeOK, EntryRow
<1>3. ASSUME NEW row \in EntryRow
      PROVE  /\ Corrected(row, t).day = row.day /\ Corrected(row, t).rev = row.rev + 1
             /\ Closed(row, t).day = row.day /\ Closed(row, t).rev = row.rev + 1
  BY DEF Corrected, Closed, EntryRow
<1>4. NewEntry(t).day = t.day /\ NewEntry(t).rev = 1
  BY DEF NewEntry, BlankEntry
<1>5. ASSUME NEW e \in Entry, e = t.entry
      PROVE  entry'[e].day = entry[e].day /\ entry'[e].rev = entry[e].rev + 1
  BY <1>2, <1>3, <1>5 DEF EntriesAfter
<1>6. ASSUME NEW e \in Entry, e # t.entry, e = t.fresh
      PROVE  entry'[e].day = t.day /\ entry'[e].rev = 1
  BY <1>4, <1>6 DEF EntriesAfter
<1>7. ASSUME NEW e \in Entry, e # t.entry, e # t.fresh
      PROVE  entry'[e] = entry[e]
  BY <1>7 DEF EntriesAfter
<1>8. OnlyFreshEntry(p)
  BY <1>1, <1>5, <1>6, <1>7 DEF OnlyFreshEntry
<1>9. \A e \in Entry : entry'[e] # entry[e] => entry'[e].rev > entry[e].rev
  BY <1>1, <1>2, <1>5, <1>6, <1>7
<1> QED BY <1>8, <1>9

(***************************************************************************)
(* Books and revisions, action by action.                                  *)
(***************************************************************************)
DaysGrow    == \A d \in Day : day'[d] # day[d] => day'[d].rev > day[d].rev
EntriesGrow == \A e \in Entry : entry'[e] # entry[e] => entry'[e].rev > entry[e].rev

LEMMA ProceedBooks ==
  ASSUME WorkTimeAssumption, TypeOK, Arguments, Identities, Books,
         NEW p \in Request, Proceed(p)
  PROVE  Identities' /\ Books' /\ DaysGrow /\ EntriesGrow
<1> DEFINE t == txn[p]
<1> USE DEF DaysGrow, EntriesGrow
<1>1. CASE StartDayCommit(p)
  <2>1. /\ t.kind = "start" /\ t.driver \in Driver /\ t.driver # None
        /\ t.day \in Day /\ t.fresh \in Entry /\ t.fresh # None /\ t.day # None
        /\ Commit(p)
    BY <1>1, WorkTimeAssumption DEF WorkTimeAssumption, StartDayCommit, Arguments
  <2>2. /\ day[t.day].driver = None /\ day[t.day].rev = 0
        /\ entry[t.fresh].day = None /\ entry[t.fresh].rev = 0
    BY <2>1 DEF Identities, Fresh
  <2>3. /\ \A d \in Day \ {t.day} : day'[d] = day[d] /\ audit'[d] = audit[d]
        /\ day'[t.day].driver = t.driver /\ day'[t.day].rev = 1
        /\ audit'[t.day] = [audit[t.day] EXCEPT !.started = @ + 1]
        /\ \A e \in Entry \ {t.fresh} : entry'[e] = entry[e]
        /\ entry'[t.fresh].day = t.day /\ entry'[t.fresh].rev = 1
    BY <1>1, <2>1 DEF StartDayCommit, TypeOK, BlankDay, NewEntry, BlankEntry
  <2>4. OthersUntouched(p) /\ txn'[p] = Idle
    BY <2>1, CommitEnds
  <2>5. /\ \A q \in Request : txn[q].fresh \in Entry \cup {None} /\ txn[q].entry \in Entry \cup {None}
                              /\ txn[q].days \subseteq Day
        /\ \A q \in Request : txn[q].kind \in Writer \cup {"start"} => txn[q].day \in Day
    BY DEF Arguments, TypeOK, Txn
  <2>6. Fresh'
    BY <2>1, <2>2, <2>3, <2>4, <2>5 DEF OthersUntouched, Identities, Fresh, Unshared, Idle
  <2>7. Present'
    BY <2>1, <2>2, <2>3, <2>4, <2>5 DEF OthersUntouched, Identities, Present, Idle, Writer
  <2>8. Unshared'
    BY <2>4, <2>5, WorkTimeAssumption DEF WorkTimeAssumption, OthersUntouched, Identities, Unshared, Idle
  <2>9. Books'
    BY <2>1, <2>2, <2>3 DEF Books, TypeOK, AuditRow
  <2>10. DaysGrow /\ EntriesGrow
    BY <2>2, <2>3
  <2> QED BY <2>6, <2>7, <2>8, <2>9, <2>10 DEF Identities
<1>2. CASE ChangeStatusCommit(p)
  <2>1. /\ t.kind \in Writer /\ t.day \in Day /\ Commit(p)
        /\ entry' = EntriesAfter(t)
    BY <1>2 DEF ChangeStatusCommit, ReadyToCommit, Arguments, Writer
  <2>2. /\ \A d \in Day \ {t.day} : day'[d] = day[d] /\ audit'[d] = audit[d]
        /\ day'[t.day] = Recalculated(day[t.day], t)
        /\ audit'[t.day] = [audit[t.day] EXCEPT !.edited = @ + 1]
    BY <1>2, <2>1 DEF ChangeStatusCommit, TypeOK
  <2>3. OnlyFreshEntry(p) /\ EntriesGrow
    BY <2>1, CommitEnds, EntriesAfterSteps
  <2>4. day[t.day].driver # None
    BY <2>1 DEF Identities, Present
  <2>5. /\ day'[t.day].driver = day[t.day].driver
        /\ day'[t.day].rev = day[t.day].rev + 1
        /\ audit'[t.day].started = audit[t.day].started
        /\ audit'[t.day].edited = audit[t.day].edited + 1
        /\ audit'[t.day].ended = audit[t.day].ended + 0
        /\ day[t.day].rev \in Nat
        /\ audit[t.day].ended \in Nat /\ audit[t.day].edited \in Nat
    BY <2>1, <2>2 DEF TypeOK, DayRow, AuditRow, Recalculated
  <2>6. SameOwners /\ DaysGrow /\ \A d \in Day : day[d].driver = None => day'[d].rev = 0
    BY <2>1, <2>2, <2>4, <2>5 DEF SameOwners, Identities, Fresh
  <2>7. Identities'
    BY <2>1, <2>3, <2>6, CommitEnds, KeepsIdentities DEF EndedOrSame
  <2>8. Books'
    <3>1. audit[t.day].started = 1
      BY <2>1, <2>4 DEF Books
    <3>2. day[t.day].rev = audit[t.day].started + audit[t.day].edited + 2 * audit[t.day].ended
      BY <2>1, <2>4 DEF Books
    <3>3. day'[t.day].rev = audit'[t.day].started + audit'[t.day].edited + 2 * audit'[t.day].ended
      BY <2>5, <3>1, <3>2
    <3> QED BY <2>1, <2>2, <2>4, <2>5, <3>1, <3>3 DEF Books
  <2> QED BY <2>3, <2>6, <2>7, <2>8
<1>3. CASE CorrectEntryCommit(p)
  <2>1. /\ t.kind \in Writer /\ t.day \in Day /\ Commit(p)
        /\ entry' = EntriesAfter(t)
    BY <1>3 DEF CorrectEntryCommit, ReadyToCommit, Arguments, Writer
  <2>2. /\ \A d \in Day \ {t.day} : day'[d] = day[d] /\ audit'[d] = audit[d]
        /\ day'[t.day] = Recalculated(day[t.day], t)
        /\ audit'[t.day] = [audit[t.day] EXCEPT !.edited = @ + 1]
    BY <1>3, <2>1 DEF CorrectEntryCommit, TypeOK
  <2>3. OnlyFreshEntry(p) /\ EntriesGrow
    BY <2>1, CommitEnds, EntriesAfterSteps
  <2>4. day[t.day].driver # None
    BY <2>1 DEF Identities, Present
  <2>5. /\ day'[t.day].driver = day[t.day].driver
        /\ day'[t.day].rev = day[t.day].rev + 1
        /\ audit'[t.day].started = audit[t.day].started
        /\ audit'[t.day].edited = audit[t.day].edited + 1
        /\ audit'[t.day].ended = audit[t.day].ended + 0
        /\ day[t.day].rev \in Nat
        /\ audit[t.day].ended \in Nat /\ audit[t.day].edited \in Nat
    BY <2>1, <2>2 DEF TypeOK, DayRow, AuditRow, Recalculated
  <2>6. SameOwners /\ DaysGrow /\ \A d \in Day : day[d].driver = None => day'[d].rev = 0
    BY <2>1, <2>2, <2>4, <2>5 DEF SameOwners, Identities, Fresh
  <2>7. Identities'
    BY <2>1, <2>3, <2>6, CommitEnds, KeepsIdentities DEF EndedOrSame
  <2>8. Books'
    <3>1. audit[t.day].started = 1
      BY <2>1, <2>4 DEF Books
    <3>2. day[t.day].rev = audit[t.day].started + audit[t.day].edited + 2 * audit[t.day].ended
      BY <2>1, <2>4 DEF Books
    <3>3. day'[t.day].rev = audit'[t.day].started + audit'[t.day].edited + 2 * audit'[t.day].ended
      BY <2>5, <3>1, <3>2
    <3> QED BY <2>1, <2>2, <2>4, <2>5, <3>1, <3>3 DEF Books
  <2> QED BY <2>3, <2>6, <2>7, <2>8
<1>4. CASE EndDayCommit(p)
  <2>1. /\ t.kind \in Writer /\ t.day \in Day /\ Commit(p)
        /\ entry' = EntriesAfter(t)
    BY <1>4 DEF EndDayCommit, ReadyToCommit, Arguments, Writer
  <2>2. /\ \A d \in Day \ {t.day} : day'[d] = day[d] /\ audit'[d] = audit[d]
        /\ day'[t.day] = Ended(day[t.day], t)
        /\ audit'[t.day] = [audit[t.day] EXCEPT !.ended = @ + 1]
    BY <1>4, <2>1 DEF EndDayCommit, TypeOK
  <2>3. OnlyFreshEntry(p) /\ EntriesGrow
    BY <2>1, CommitEnds, EntriesAfterSteps
  <2>4. day[t.day].driver # None
    BY <2>1 DEF Identities, Present
  <2>5. /\ day'[t.day].driver = day[t.day].driver
        /\ day'[t.day].rev = day[t.day].rev + 2
        /\ audit'[t.day].started = audit[t.day].started
        /\ audit'[t.day].edited = audit[t.day].edited + 0
        /\ audit'[t.day].ended = audit[t.day].ended + 1
        /\ day[t.day].rev \in Nat
        /\ audit[t.day].ended \in Nat /\ audit[t.day].edited \in Nat
    BY <2>1, <2>2 DEF TypeOK, DayRow, AuditRow, Ended, Recalculated
  <2>6. SameOwners /\ DaysGrow /\ \A d \in Day : day[d].driver = None => day'[d].rev = 0
    BY <2>1, <2>2, <2>4, <2>5 DEF SameOwners, Identities, Fresh
  <2>7. Identities'
    BY <2>1, <2>3, <2>6, CommitEnds, KeepsIdentities DEF EndedOrSame
  <2>8. Books'
    <3>1. audit[t.day].started = 1
      BY <2>1, <2>4 DEF Books
    <3>2. day[t.day].rev = audit[t.day].started + audit[t.day].edited + 2 * audit[t.day].ended
      BY <2>1, <2>4 DEF Books
    <3>3. day'[t.day].rev = audit'[t.day].started + audit'[t.day].edited + 2 * audit'[t.day].ended
      BY <2>5, <3>1, <3>2
    <3> QED BY <2>1, <2>2, <2>4, <2>5, <3>1, <3>3 DEF Books
  <2> QED BY <2>3, <2>6, <2>7, <2>8
<1>5. CASE SetApprovalCommit(p)
  <2>1. Commit(p)
    BY <1>5 DEF SetApprovalCommit
  <2>2. \A d \in Day :
           \/ day'[d] = day[d] /\ audit'[d] = audit[d]
           \/ /\ d \in t.days
              /\ day'[d] = Approved(day[d], t)
              /\ audit'[d] = [audit[d] EXCEPT !.edited = @ + 1]
    BY <1>5 DEF SetApprovalCommit
  <2>3. OnlyFreshEntry(p) /\ EntriesGrow
    <3>1. ASSUME NEW e \in Entry
          PROVE  \/ entry'[e] = entry[e]
                 \/ /\ entry[e].day \in t.days
                    /\ entry'[e] = [entry[e] EXCEPT !.approval = t.approval, !.rev = @ + 1]
      BY <1>5 DEF SetApprovalCommit
    <3>2. ASSUME NEW e \in Entry
          PROVE  entry[e] \in EntryRow /\ entry[e].rev \in Nat
      BY DEF TypeOK, EntryRow
    <3>3. ASSUME NEW e \in Entry, entry'[e] # entry[e]
          PROVE  /\ entry[e].day # None
                 /\ entry'[e].day = entry[e].day
                 /\ entry'[e].rev = entry[e].rev + 1
      <4>1. /\ entry[e].day \in t.days
            /\ entry'[e] = [entry[e] EXCEPT !.approval = t.approval, !.rev = @ + 1]
        BY <3>1, <3>3
      <4>2. t.days \subseteq Day
        BY DEF TypeOK, Txn
      <4> QED BY <4>1, <4>2, <3>2, WorkTimeAssumption DEF WorkTimeAssumption, EntryRow
    <3> QED BY <3>2, <3>3 DEF OnlyFreshEntry
  <2>4. \A d \in t.days : day[d].driver # None
    BY DEF Identities, Present
  <2>5. ASSUME NEW d \in Day, day'[d] # day[d] \/ audit'[d] # audit[d]
        PROVE  /\ day[d].driver # None
               /\ day'[d].driver = day[d].driver
               /\ day'[d].rev = day[d].rev + 1
               /\ audit'[d].started = audit[d].started
               /\ audit'[d].edited = audit[d].edited + 1
               /\ audit'[d].ended = audit[d].ended
    <3>1. /\ d \in t.days
          /\ day'[d] = Approved(day[d], t)
          /\ audit'[d] = [audit[d] EXCEPT !.edited = @ + 1]
      BY <2>2, <2>5
    <3>2. day[d] \in DayRow /\ audit[d] \in AuditRow
      BY DEF TypeOK
    <3>3. Approved(day[d], t).driver = day[d].driver /\ Approved(day[d], t).rev = day[d].rev + 1
      BY <3>2 DEF DayRow, Approved
    <3> QED BY <3>1, <3>2, <3>3, <2>4 DEF AuditRow
  <2>6. \A d \in Day : day[d].rev \in Nat /\ audit[d].ended \in Nat /\ audit[d].edited \in Nat
    BY DEF TypeOK, DayRow, AuditRow
  <2>7. SameOwners /\ DaysGrow /\ \A d \in Day : day[d].driver = None => day'[d].rev = 0
    BY <2>5, <2>6 DEF SameOwners, Identities, Fresh
  <2>8. Identities'
    BY <2>1, <2>3, <2>7, CommitEnds, KeepsIdentities DEF EndedOrSame
  <2>9. Books'
    BY <2>5, <2>6 DEF Books
  <2> QED BY <2>3, <2>7, <2>8, <2>9
<1>6. CASE BulkCommit(p)
  <2>1. Commit(p)
    BY <1>6 DEF BulkCommit
  <2>2. \A d \in Day :
           \/ day'[d] = day[d] /\ audit'[d] = audit[d]
           \/ /\ d \in t.days
              /\ day'[d] = Approved(day[d], t)
              /\ audit'[d] = [audit[d] EXCEPT !.edited = @ + 1]
    BY <1>6 DEF BulkCommit
  <2>3. OnlyFreshEntry(p) /\ EntriesGrow
    BY <1>6 DEF BulkCommit, OnlyFreshEntry
  <2>4. \A d \in t.days : day[d].driver # None
    BY DEF Identities, Present
  <2>5. ASSUME NEW d \in Day, day'[d] # day[d] \/ audit'[d] # audit[d]
        PROVE  /\ day[d].driver # None
               /\ day'[d].driver = day[d].driver
               /\ day'[d].rev = day[d].rev + 1
               /\ audit'[d].started = audit[d].started
               /\ audit'[d].edited = audit[d].edited + 1
               /\ audit'[d].ended = audit[d].ended
    <3>1. /\ d \in t.days
          /\ day'[d] = Approved(day[d], t)
          /\ audit'[d] = [audit[d] EXCEPT !.edited = @ + 1]
      BY <2>2, <2>5
    <3>2. day[d] \in DayRow /\ audit[d] \in AuditRow
      BY DEF TypeOK
    <3>3. Approved(day[d], t).driver = day[d].driver /\ Approved(day[d], t).rev = day[d].rev + 1
      BY <3>2 DEF DayRow, Approved
    <3> QED BY <3>1, <3>2, <3>3, <2>4 DEF AuditRow
  <2>6. \A d \in Day : day[d].rev \in Nat /\ audit[d].ended \in Nat /\ audit[d].edited \in Nat
    BY DEF TypeOK, DayRow, AuditRow
  <2>7. SameOwners /\ DaysGrow /\ \A d \in Day : day[d].driver = None => day'[d].rev = 0
    BY <2>5, <2>6 DEF SameOwners, Identities, Fresh
  <2>8. Identities'
    BY <2>1, <2>3, <2>7, CommitEnds, KeepsIdentities DEF EndedOrSame
  <2>9. Books'
    BY <2>5, <2>6 DEF Books
  <2> QED BY <2>3, <2>7, <2>8, <2>9
<1>7. CASE UpdateEntries(p) \/ SetApprovalHold(p) \/ RefuseCorrection(p)
  <2>1. UNCHANGED <<day, entry, audit>>
    BY <1>7 DEF UpdateEntries, SetApprovalHold, RefuseCorrection, Tables
  <2>2. OthersUntouched(p) /\ EndedOrSame(p)
    BY <1>7 DEF UpdateEntries, SetApprovalHold, RefuseCorrection, OthersUntouched, EndedOrSame, TypeOK, Txn
  <2>3. Identities'
    BY <2>1, <2>2, KeepsIdentities DEF OnlyFreshEntry, SameOwners, Identities, Fresh
  <2> QED BY <2>1, <2>3 DEF Books
<1> QED BY <1>1, <1>2, <1>3, <1>4, <1>5, <1>6, <1>7 DEF Proceed

LEMMA AbortIdentities ==
  ASSUME WorkTimeAssumption, TypeOK, Arguments, Identities, Books, NEW p \in Request, Abort(p)
  PROVE  Identities' /\ Books' /\ UNCHANGED <<day, entry>>
<1>1. UNCHANGED <<day, entry, audit>>
  BY DEF Abort
<1>2. OthersUntouched(p) /\ EndedOrSame(p)
  BY DEF Abort, OthersUntouched, EndedOrSame, TypeOK, Txn
<1>3. Identities'
  BY <1>1, <1>2, KeepsIdentities DEF OnlyFreshEntry, SameOwners, Identities, Fresh
<1> QED BY <1>1, <1>3 DEF Books

\* The invariant the results below rest on.
Sound == TypeOK /\ Arguments /\ Identities /\ Books

LEMMA SoundInit == Init => Sound
  BY WorkTimeAssumption, InitType, InitIdentities DEF Sound

LEMMA SoundStep ==
  ASSUME Sound, [Next]_vars
  PROVE  /\ Sound'
         /\ day' # day \/ entry' # entry => DaysGrow /\ EntriesGrow
<1>1. CASE UNCHANGED vars
  BY <1>1 DEF vars, Sound, TypeOK, Arguments, Identities, Fresh, Present, Unshared, Books
<1>2. ASSUME NEW p \in Request, Arrive(p)
      PROVE  Sound' /\ UNCHANGED <<day, entry>>
  <2>1. UNCHANGED <<day, entry, audit>>
    BY <1>2 DEF Arrive, StartDayRead, ChangeStatusRead, EndDayRead, CorrectEntryRead,
       CorrectEntryConflict, SetApprovalRead, BulkRead, Tables
  <2>2. Books'
    BY <2>1 DEF Sound, Books
  <2>3. TypeOK' /\ Arguments'
    BY <1>2, WorkTimeAssumption, ArriveType DEF Sound
  <2>4. Identities'
    BY <1>2, WorkTimeAssumption, ArriveIdentities DEF Sound
  <2> QED BY <2>1, <2>2, <2>3, <2>4 DEF Sound
<1>3. ASSUME NEW p \in Request, Proceed(p)
      PROVE  Sound' /\ DaysGrow /\ EntriesGrow
  BY <1>3, WorkTimeAssumption, ProceedType, ProceedBooks DEF Sound
<1>4. ASSUME NEW p \in Request, Abort(p)
      PROVE  Sound' /\ UNCHANGED <<day, entry>>
  BY <1>4, WorkTimeAssumption, AbortType, AbortIdentities DEF Sound
<1>5. UNCHANGED vars => UNCHANGED <<day, entry>>
  BY DEF vars
<1> QED BY <1>1, <1>2, <1>3, <1>4, <1>5 DEF Next

\* The revision of every work day is accounted for by its audit trail, whatever
\* handlers run, interleave, fail or deadlock.
THEOREM AuditIsComplete == Spec => []AuditAccountsForRevisions
<1>1. Sound => AuditAccountsForRevisions
  BY DEF Sound, Books, AuditAccountsForRevisions, StoredDays
<1>2. Sound /\ [Next]_vars => Sound'
  BY SoundStep
<1> QED BY <1>1, <1>2, SoundInit, PTL DEF Spec

\* No handler changes a day or an entry without raising its revision.
THEOREM EveryChangeRaisesTheRevision == Spec => RevisionsGrow
<1> DEFINE Step == DaysGrow /\ EntriesGrow
<1>1. Sound /\ [Next]_vars => Sound'
  BY SoundStep
<1>2. Sound /\ [Next]_vars =>
        [/\ \A d \in Day : day'[d] # day[d] => day'[d].rev > day[d].rev
         /\ \A e \in Entry : entry'[e] # entry[e] => entry'[e].rev > entry[e].rev]_vars
  <2> SUFFICES ASSUME Sound, [Next]_vars PROVE Step
    BY DEF DaysGrow, EntriesGrow
  <2>1. CASE day' = day /\ entry' = entry
    BY <2>1 DEF DaysGrow, EntriesGrow
  <2>2. CASE ~(day' = day /\ entry' = entry)
    BY <2>2, SoundStep
  <2> QED BY <2>1, <2>2
<1> QED BY <1>1, <1>2, SoundInit, PTL DEF Spec, RevisionsGrow

(***************************************************************************)
(* Two open work days need two racing start-day requests.  The invariant   *)
(* behind it: a start-day that is under way has found no open day of its   *)
(* driver, and there is none unless another start-day has overtaken it.    *)
(***************************************************************************)
PendingStart ==
    \A p \in Request, dr \in Driver :
        txn[p].kind = "start" /\ txn[p].driver = dr =>
            OpenDays(dr) = {} \/ "start" \in txn[p].seen

\* Nothing but start-day opens a day, and what raced stays raced.
LEMMA NoDayOpens ==
  ASSUME Sound, NEW p \in Request, Proceed(p), txn[p].kind # "start"
  PROVE  /\ \A dr \in Driver : OpenDays(dr)' \subseteq OpenDays(dr)
         /\ \A dr \in Driver : raced[dr] \subseteq raced'[dr]
         /\ OthersUntouched(p)
         /\ txn'[p].kind # "start"
<1> DEFINE t == txn[p]
<1>1. ASSUME NEW d \in Day, day'[d].end = NoTime, ~day'[d].deleted, day'[d].driver \in Driver
      PROVE  day[d].end = NoTime /\ ~day[d].deleted /\ day'[d].driver = day[d].driver
  <2>1. day[d] \in DayRow
    BY DEF Sound, TypeOK
  <2>2. CASE day'[d] = day[d]
    BY <1>1, <2>2
  <2>3. CASE day'[d] = Recalculated(day[d], t)
    BY <1>1, <2>1, <2>3 DEF Recalculated, DayRow
  <2>4. CASE day'[d] = Ended(day[d], t) /\ t.to \in Time
    BY <1>1, <2>1, <2>4 DEF Ended, Recalculated, DayRow, Time, NoTime
  <2>5. CASE day'[d] = Approved(day[d], t)
    BY <1>1, <2>1, <2>5 DEF Approved, DayRow
  <2>6. \/ day'[d] = day[d]
        \/ day'[d] = Recalculated(day[d], t)
        \/ day'[d] = Ended(day[d], t) /\ t.to \in Time
        \/ day'[d] = Approved(day[d], t)
    <3>1. CASE EndDayCommit(p)
      BY <3>1 DEF EndDayCommit, ReadyToCommit, Sound, TypeOK, Arguments, Writer
    <3>2. CASE ChangeStatusCommit(p) \/ CorrectEntryCommit(p)
      BY <3>2 DEF ChangeStatusCommit, CorrectEntryCommit, Sound, TypeOK
    <3>3. CASE SetApprovalCommit(p) \/ BulkCommit(p)
      BY <3>3 DEF SetApprovalCommit, BulkCommit
    <3>4. CASE UpdateEntries(p) \/ SetApprovalHold(p) \/ RefuseCorrection(p)
      BY <3>4 DEF UpdateEntries, SetApprovalHold, RefuseCorrection, Tables
    <3> QED BY <3>1, <3>2, <3>3, <3>4 DEF Proceed, StartDayCommit
  <2> QED BY <2>2, <2>3, <2>4, <2>5, <2>6
<1>2. CASE Commit(p)
  <2>1. \A dr \in Driver : raced[dr] \subseteq raced'[dr]
    BY <1>2 DEF Commit
  <2>2. OthersUntouched(p) /\ txn'[p].kind # "start"
    BY <1>2, CommitEnds DEF Sound, Idle
  <2> QED BY <1>1, <2>1, <2>2 DEF OpenDays
<1>3. CASE UpdateEntries(p) \/ SetApprovalHold(p) \/ RefuseCorrection(p)
  <2>1. /\ OthersUntouched(p) /\ txn'[p].kind # "start"
        /\ raced' = raced
    BY <1>3 DEF UpdateEntries, SetApprovalHold, RefuseCorrection, Tables, OthersUntouched,
       Sound, TypeOK, Txn, Idle
  <2> QED BY <1>1, <2>1 DEF OpenDays
<1>4. Commit(p) \/ UpdateEntries(p) \/ SetApprovalHold(p) \/ RefuseCorrection(p)
  BY DEF Proceed, StartDayCommit, ChangeStatusCommit, EndDayCommit, CorrectEntryCommit,
     SetApprovalCommit, BulkCommit
<1> QED BY <1>2, <1>3, <1>4

LEMMA StartIsSeen ==
  ASSUME Sound, OpenDaysNeedRacingStarts, PendingStart, NEW p \in Request, StartDayCommit(p)
  PROVE  OpenDaysNeedRacingStarts' /\ PendingStart'
<1> DEFINE t == txn[p]
<1>1. /\ t.kind = "start" /\ t.driver \in Driver /\ t.day \in Day /\ Commit(p)
      /\ t.seen \subseteq Kind
  BY DEF StartDayCommit, Sound, Arguments, TypeOK, Txn
<1>0. PICK me \in Driver, new \in Day : me = t.driver /\ new = t.day
  BY <1>1
<1>2. /\ \A d \in Day \ {new} : day'[d] = day[d]
      /\ day'[new].driver = me
  BY <1>0, <1>1 DEF StartDayCommit, Sound, TypeOK, BlankDay
<1>3. \A dr \in Driver \ {me} : OpenDays(dr)' \subseteq OpenDays(dr)
  BY <1>2 DEF OpenDays
<1>4. OpenDays(me)' \subseteq OpenDays(me) \cup {new}
  BY <1>2 DEF OpenDays
<1>5. \A dr \in Driver : raced[dr] \subseteq raced'[dr]
  BY <1>1 DEF Commit
<1>6. "start" \in t.seen => {"start"} \in raced'[me]
  BY <1>0, <1>1 DEF Commit, Touches
<1>7. OpenDaysNeedRacingStarts'
  <2>1. ASSUME NEW dr \in Driver \ {me}
        PROVE  (\A a, b \in OpenDays(dr)' : a = b) \/ {"start"} \in raced'[dr]
    BY <1>3, <1>5 DEF OpenDaysNeedRacingStarts
  <2>2. (\A a, b \in OpenDays(me)' : a = b) \/ {"start"} \in raced'[me]
    <3>1. CASE "start" \in t.seen
      BY <3>1, <1>6
    <3>2. CASE OpenDays(me) = {}
      BY <3>2, <1>4
    <3> QED BY <1>0, <1>1, <3>1, <3>2 DEF PendingStart
  <2> QED BY <2>1, <2>2 DEF OpenDaysNeedRacingStarts
<1>8. PendingStart'
  <2>1. SUFFICES ASSUME NEW q \in Request, NEW dr \in Driver,
                        txn'[q].kind = "start", txn'[q].driver = dr
                 PROVE  OpenDays(dr)' = {} \/ "start" \in txn'[q].seen
    BY DEF PendingStart
  <2>2. q # p
    BY <2>1, <1>1, CommitEnds DEF Sound, Idle
  <2>3. /\ txn[q].kind = "start" /\ txn[q].driver = dr
        /\ txn[q].seen \subseteq txn'[q].seen
    BY <2>1, <2>2, <1>1, CommitEnds DEF Sound, OthersUntouched
  <2>4. CASE dr = me
    <3>1. Touches(txn[q]) \cap Touches(t) \cap Driver # {}
      BY <1>0, <2>3, <2>4 DEF Touches
    <3>2. txn'[q] = [txn[q] EXCEPT !.seen = @ \cup {t.kind}]
      BY <1>1, <2>2, <2>3, <3>1 DEF Commit
    <3>3. txn[q] \in Txn
      BY DEF Sound, TypeOK
    <3> QED BY <1>1, <3>2, <3>3 DEF Txn
  <2>5. CASE dr # me
    BY <2>3, <2>5, <1>3 DEF PendingStart
  <2> QED BY <2>4, <2>5
<1> QED BY <1>7, <1>8

LEMMA OneOpenDayStep ==
  ASSUME Sound, OpenDaysNeedRacingStarts, PendingStart, [Next]_vars
  PROVE  OpenDaysNeedRacingStarts' /\ PendingStart'
<1>1. CASE UNCHANGED vars
  BY <1>1 DEF vars, OpenDaysNeedRacingStarts, PendingStart, OpenDays
<1>2. ASSUME NEW p \in Request, Proceed(p), txn[p].kind # "start"
      PROVE  OpenDaysNeedRacingStarts' /\ PendingStart'
  <2>1. /\ \A dr \in Driver : OpenDays(dr)' \subseteq OpenDays(dr)
        /\ \A dr \in Driver : raced[dr] \subseteq raced'[dr]
        /\ OthersUntouched(p)
        /\ txn'[p].kind # "start"
    BY <1>2, NoDayOpens
  <2>2. OpenDaysNeedRacingStarts'
    BY <2>1 DEF OpenDaysNeedRacingStarts
  <2>3. PendingStart'
    BY <2>1 DEF PendingStart, OthersUntouched
  <2> QED BY <2>2, <2>3
<1>3. ASSUME NEW p \in Request, StartDayCommit(p)
      PROVE  OpenDaysNeedRacingStarts' /\ PendingStart'
  BY <1>3, StartIsSeen
<1>4. ASSUME NEW p \in Request, Arrive(p)
      PROVE  OpenDaysNeedRacingStarts' /\ PendingStart'
  <2>1. UNCHANGED Tables
    BY <1>4 DEF Arrive, StartDayRead, ChangeStatusRead, EndDayRead, CorrectEntryRead,
       CorrectEntryConflict, SetApprovalRead, BulkRead
  <2>2. /\ \A q \in Request \ {p} : txn'[q] = txn[q]
        /\ txn'[p].kind = "start" => OpenDays(txn'[p].driver) = {}
    <3>1. txn \in [Request -> Txn]
      BY DEF Sound, TypeOK
    <3>2. CASE StartDayRead(p)
      BY <3>1, <3>2 DEF StartDayRead, Idle
    <3>3. CASE ChangeStatusRead(p)
      BY <3>1, <3>3 DEF ChangeStatusRead, Idle
    <3>8. CASE EndDayRead(p)
      BY <3>1, <3>8 DEF EndDayRead, Idle
    <3>4. CASE CorrectEntryRead(p)
      BY <3>1, <3>4 DEF CorrectEntryRead, Idle
    <3>5. CASE CorrectEntryConflict(p)
      BY <3>1, <3>5 DEF CorrectEntryConflict, Idle
    <3>6. CASE SetApprovalRead(p)
      <4>1. PICK d \in Day, decision \in Decision :
               txn' = [txn EXCEPT ![p] = [Idle EXCEPT !.kind = "approve",
                     !.stage = "read", !.actor = "ADMIN", !.days = {d},
                     !.approval = decision.status, !.note = decision.note,
                     !.rev = day[d].rev]]
        BY <3>6 DEF SetApprovalRead
      <4> QED BY <3>1, <4>1 DEF Idle
    <3>7. CASE BulkRead(p)
      BY <3>1, <3>7 DEF BulkRead, Idle
    <3> QED BY <1>4, <3>2, <3>3, <3>4, <3>5, <3>6, <3>7, <3>8 DEF Arrive
  <2> QED BY <2>1, <2>2 DEF Tables, OpenDaysNeedRacingStarts, PendingStart, OpenDays
<1>5. ASSUME NEW p \in Request, Abort(p)
      PROVE  OpenDaysNeedRacingStarts' /\ PendingStart'
  BY <1>5 DEF Abort, OpenDaysNeedRacingStarts, PendingStart, OpenDays, Idle, Sound, TypeOK
<1>6. ASSUME NEW p \in Request, Proceed(p), txn[p].kind = "start"
      PROVE  StartDayCommit(p)
  BY <1>6 DEF Proceed, UpdateEntries, ChangeStatusCommit, EndDayCommit, CorrectEntryCommit,
     ReadyToCommit, RefuseCorrection, SetApprovalHold, SetApprovalCommit, BulkCommit
<1> QED BY <1>1, <1>2, <1>3, <1>4, <1>5, <1>6 DEF Next

\* However many drivers, days and handlers there are, a driver has a second open
\* work day only after two of its start-day requests overlapped.
THEOREM SecondOpenDayNeedsRace == Spec => []OpenDaysNeedRacingStarts
<1>1. Init => OpenDaysNeedRacingStarts /\ PendingStart
  BY WorkTimeAssumption DEF WorkTimeAssumption, Init, OpenDaysNeedRacingStarts, PendingStart,
     OpenDays, BlankDay, Idle
<1>2. Sound /\ [Next]_vars => Sound'
  BY SoundStep
<1>3. Sound /\ OpenDaysNeedRacingStarts /\ PendingStart /\ [Next]_vars
        => OpenDaysNeedRacingStarts' /\ PendingStart'
  BY OneOpenDayStep
<1> QED BY <1>1, <1>2, <1>3, SoundInit, PTL DEF Spec

(***************************************************************************)
(* What a handler has read and what has overtaken it since.                *)
(***************************************************************************)

\* work_time_entries as it is once t has written to it, whatever was there.
Applied(table, t) ==
    [e \in Entry |->
        IF e = t.entry
        THEN IF t.kind = "correct" THEN Corrected(table[e], t)
                                   ELSE Closed(table[e], t)
        ELSE IF e = t.fresh THEN NewEntry(t) ELSE table[e]]

\* Two tables have the same entries of day d, with the same times.
SameIntervals(A, B, d) ==
    \A e \in Entry :
        /\ A[e].day = d <=> B[e].day = d
        /\ A[e].day = d => /\ A[e].deleted = B[e].deleted
                           /\ A[e].start = B[e].start
                           /\ A[e].end = B[e].end

\* t and u are the same handler, whatever has overtaken it in between.
SameWork(t, u) ==
    /\ t.kind = u.kind     /\ t.stage = u.stage   /\ t.actor = u.actor
    /\ t.driver = u.driver /\ t.day = u.day       /\ t.entry = u.entry
    /\ t.fresh = u.fresh   /\ t.from = u.from     /\ t.to = u.to
    /\ t.days = u.days     /\ t.sum = u.sum

\* Intervals that are the same add up to the same.
LEMMA SameTally ==
  ASSUME NEW A, NEW B, NEW d, SameIntervals(A, B, d)
  PROVE  Tallies(A, d) = Tallies(B, d)
<1> SUFFICES ASSUME NEW now \in Time PROVE Tally(A, d, now) = Tally(B, d, now)
  BY DEF Tallies
<1>1. EntriesOf(A, d) = EntriesOf(B, d)
  BY DEF SameIntervals, EntriesOf
<1>2. \A e \in EntriesOf(A, d) : A[e].start = B[e].start /\ A[e].end = B[e].end
  BY DEF SameIntervals, EntriesOf
<1>3. \A e \in EntriesOf(A, d) : LastsUntil(A[e], now) = LastsUntil(B[e], now)
  BY <1>2 DEF LastsUntil
<1>4. {x \in EntriesOf(A, d) : LastsUntil(A[x], now) > A[x].start}
        = {x \in EntriesOf(B, d) : LastsUntil(B[x], now) > B[x].start}
  BY <1>1, <1>2, <1>3
<1> QED BY <1>2, <1>3, <1>4 DEF Tally

\* and leave the same entries running.
LEMMA SameOpenEntries ==
  ASSUME NEW d, SameIntervals(entry, entry', d)
  PROVE  OpenEntries(d)' = OpenEntries(d)
  BY DEF SameIntervals, OpenEntries, EntriesOf

\* A handler makes the same of entries that are the same on its day.
LEMMA SameApplied ==
  ASSUME NEW A \in [Entry -> EntryRow], NEW B \in [Entry -> EntryRow], NEW d,
         NEW t, NEW u, SameWork(t, u), SameIntervals(A, B, d)
  PROVE  Tallies(Applied(A, t), d) = Tallies(Applied(B, u), d)
<1>1. ASSUME NEW row \in EntryRow
      PROVE  /\ Corrected(row, t).day = row.day /\ Corrected(row, t).deleted = row.deleted
             /\ Corrected(row, t).start = t.from /\ Corrected(row, t).end = t.to
             /\ Closed(row, t).day = row.day /\ Closed(row, t).deleted = row.deleted
             /\ Closed(row, t).start = row.start /\ Closed(row, t).end = t.to
             /\ Corrected(row, u).day = row.day /\ Corrected(row, u).deleted = row.deleted
             /\ Corrected(row, u).start = u.from /\ Corrected(row, u).end = u.to
             /\ Closed(row, u).day = row.day /\ Closed(row, u).deleted = row.deleted
             /\ Closed(row, u).start = row.start /\ Closed(row, u).end = u.to
  BY DEF Corrected, Closed, EntryRow
<1>2. NewEntry(t) = NewEntry(u)
  BY DEF NewEntry, SameWork
<1>3. SameIntervals(Applied(A, t), Applied(B, u), d)
  <2>1. SUFFICES ASSUME NEW e \in Entry
                 PROVE  /\ Applied(A, t)[e].day = d <=> Applied(B, u)[e].day = d
                        /\ Applied(A, t)[e].day = d =>
                              /\ Applied(A, t)[e].deleted = Applied(B, u)[e].deleted
                              /\ Applied(A, t)[e].start = Applied(B, u)[e].start
                              /\ Applied(A, t)[e].end = Applied(B, u)[e].end
    BY DEF SameIntervals
  <2>2. /\ A[e].day = d <=> B[e].day = d
        /\ A[e].day = d => /\ A[e].deleted = B[e].deleted
                           /\ A[e].start = B[e].start
                           /\ A[e].end = B[e].end
    BY DEF SameIntervals
  <2>3. CASE e = t.entry /\ t.kind = "correct"
    <3>1. Applied(A, t)[e] = Corrected(A[e], t) /\ Applied(B, u)[e] = Corrected(B[e], u)
      BY <2>3 DEF Applied, SameWork
    <3> QED BY <1>1, <2>2, <3>1 DEF SameWork
  <2>4. CASE e = t.entry /\ t.kind # "correct"
    <3>1. Applied(A, t)[e] = Closed(A[e], t) /\ Applied(B, u)[e] = Closed(B[e], u)
      BY <2>4 DEF Applied, SameWork
    <3> QED BY <1>1, <2>2, <3>1 DEF SameWork
  <2>5. CASE e # t.entry /\ e = t.fresh
    BY <1>2, <2>5 DEF Applied, SameWork
  <2>6. CASE e # t.entry /\ e # t.fresh
    BY <2>2, <2>6 DEF Applied, SameWork
  <2> QED BY <2>3, <2>4, <2>5, <2>6
<1> QED BY <1>3, SameTally

\* COMMIT tells the others, and leaves them what they have read.
LEMMA CommitMarks ==
  ASSUME TypeOK, NEW p \in Request, Commit(p), NEW q \in Request, q # p
  PROVE  /\ SameWork(txn'[q], txn[q])
         /\ txn[q].seen \subseteq txn'[q].seen
         /\ \A dr \in Driver : /\ txn[q].kind # "none"
                               /\ dr \in Touches(txn[q]) \cap Touches(txn[p])
                               => txn[p].kind \in txn'[q].seen
<1>1. txn[q] \in Txn
  BY DEF TypeOK
<1>2. \/ txn'[q] = txn[q]
      \/ txn'[q] = [txn[q] EXCEPT !.seen = @ \cup {txn[p].kind}]
  BY DEF Commit
<1>3. ASSUME NEW dr \in Driver, txn[q].kind # "none", dr \in Touches(txn[q]) \cap Touches(txn[p])
      PROVE  txn'[q] = [txn[q] EXCEPT !.seen = @ \cup {txn[p].kind}]
  BY <1>3 DEF Commit
<1>4. SameWork(txn'[q], txn[q]) /\ txn[q].seen \subseteq txn'[q].seen
  BY <1>1, <1>2 DEF SameWork, Txn
<1>5. \A dr \in Driver : /\ txn[q].kind # "none"
                         /\ dr \in Touches(txn[q]) \cap Touches(txn[p])
                         => txn[p].kind \in txn'[q].seen
  BY <1>1, <1>3 DEF Txn
<1> QED BY <1>4, <1>5

\* and writes down with whom the handler that commits has overlapped.
LEMMA CommitRaces ==
  ASSUME NEW p \in Request, Commit(p)
  PROVE  /\ \A dr \in Driver : raced[dr] \subseteq raced'[dr]
         /\ txn[p].driver \in Driver =>
              \A k \in txn[p].seen : {txn[p].kind, k} \in raced'[txn[p].driver]
  BY DEF Commit, Touches

-----------------------------------------------------------------------------
(* What handlers have read, and what has become of it *)

\* An entry that has ended is of a day, the day is somebody's, and one that is
\* still running was not corrected.
EntryShape ==
    \A e \in Entry :
        /\ entry[e].day = None => entry[e].end = NoTime
        /\ entry[e].day # None => day[entry[e].day].driver # None
        /\ entry[e].end = NoTime => entry[e].source = "ANDROID"

\* A handler that writes entries works on a day of its driver and, if on one
\* that is there already, on an entry of that day; only a change opens one.
Bound ==
    \A p \in Request :
        LET t == txn[p] IN
        t.kind \in Writer =>
            /\ t.driver \in Driver
            /\ day[t.day].driver = t.driver
            /\ t.entry # None => entry[t.entry].day = t.day
            /\ t.fresh # None => t.kind = "change"

\* What a handler took for granted when it read: the running entry is the only
\* one, it was not corrected, the day is open, the totals are those of the
\* entries it leaves, the day is not approved.
FoundOpenEntry(t) ==
    \/ OpenEntries(t.day) \subseteq {t.entry}
    \/ "change" \in t.seen
    \/ {"change"} \in raced[t.driver]

FoundUncorrected(t) == entry[t.entry].source = "ANDROID" \/ "correct" \in t.seen

FoundOpenDay(t) == day[t.day].end = NoTime \/ "end" \in t.seen

SummedUp(t) == t.sum \in Tallies(EntriesAfter(t), t.day) \/ t.seen \cap Summing # {}

FoundUnapproved(t) ==
    day[t.day].approval # "APPROVED" \/ t.seen \cap {"approve", "bulk"} # {}

\* What a handler has read is still so, or a handler of a kind that can change
\* it has committed on the same driver since.
Current(t) ==
    /\ t.kind \in {"change", "end"} => FoundOpenEntry(t)
    /\ t.kind \in {"change", "end"} /\ t.entry # None => FoundUncorrected(t)
    /\ t.kind = "change" => FoundOpenDay(t)
    /\ t.kind \in Writer /\ t.stage = "wrote" => SummedUp(t)
    /\ t.kind = "correct" /\ t.actor = "DRIVER" /\ t.stage # "refused" => FoundUnapproved(t)

Pending == \A p \in Request : Current(txn[p])

\* The inductive invariant, beside Sound and Races.
Overtaken == EntryShape /\ Bound /\ Pending
Races == OpenEntriesNeedRaces /\ TotalsMatchEntries

\* In the beginning nothing has been read and nothing is stored.
LEMMA InitOvertaken == WorkTimeAssumption /\ Init => Overtaken /\ Races
<1> SUFFICES ASSUME WorkTimeAssumption, Init PROVE Overtaken /\ Races
  OBVIOUS
<1>1. /\ \A e \in Entry : /\ entry[e].day = None /\ entry[e].end = NoTime
                          /\ entry[e].source = "ANDROID"
      /\ \A p \in Request : txn[p].kind = "none"
      /\ \A d \in Day : day[d].driver = None
  BY DEF Init, BlankEntry, BlankDay, Idle
<1> QED BY <1>1 DEF Overtaken, Races, EntryShape, Bound, Pending, Current, Writer, OpenEntriesNeedRaces,
   OpenEntriesNeedRacingChanges, ClosedDayHasNoOpenEntry, TotalsMatchEntries, StoredDays

\* A request that arrives reads what is there.
LEMMA ArriveOvertaken ==
  ASSUME WorkTimeAssumption, Sound, Overtaken, Races, NEW p \in Request, Arrive(p)
  PROVE  Overtaken' /\ Races'
<1> DEFINE BoundOf(t) == t.kind \in Writer =>
                            /\ t.driver \in Driver
                            /\ day[t.day].driver = t.driver
                            /\ t.entry # None => entry[t.entry].day = t.day
                            /\ t.fresh # None => t.kind = "change"
<1>1. UNCHANGED Tables
  BY DEF Arrive, StartDayRead, ChangeStatusRead, EndDayRead, CorrectEntryRead,
     CorrectEntryConflict, SetApprovalRead, BulkRead
<1>2. txn \in [Request -> Txn]
  BY DEF Sound, TypeOK
<1>3. Races' /\ EntryShape'
  BY <1>1 DEF Tables, Overtaken, Races, EntryShape, OpenEntriesNeedRaces, OpenEntriesNeedRacingChanges,
     ClosedDayHasNoOpenEntry, TotalsMatchEntries, StoredDays, OpenEntries, EntriesOf
<1>4. \A t : Current(t)' <=> Current(t)
  BY <1>1 DEF Tables, Current, FoundOpenEntry, FoundUncorrected, FoundOpenDay, SummedUp, FoundUnapproved,
     OpenEntries, EntriesOf, Tallies, Tally, LastsUntil, EntriesAfter
<1>5. SUFFICES /\ \A q \in Request \ {p} : txn'[q] = txn[q]
               /\ BoundOf(txn'[p])
               /\ Current(txn'[p])
  BY <1>1, <1>3, <1>4 DEF Overtaken, Bound, Pending, Tables
<1>6. CASE StartDayRead(p) \/ SetApprovalRead(p) \/ BulkRead(p)
  <2>1. /\ \A q \in Request \ {p} : txn'[q] = txn[q]
        /\ txn'[p].kind \in {"start", "approve", "bulk"}
    <3>1. CASE StartDayRead(p)
      BY <1>2, <3>1 DEF StartDayRead, Idle
    <3>2. CASE SetApprovalRead(p)
      <4>1. PICK d \in Day, decision \in Decision :
               txn' = [txn EXCEPT ![p] = [Idle EXCEPT !.kind = "approve",
                     !.stage = "read", !.actor = "ADMIN", !.days = {d},
                     !.approval = decision.status, !.note = decision.note,
                     !.rev = day[d].rev]]
        BY <3>2 DEF SetApprovalRead
      <4> QED BY <1>2, <4>1 DEF Idle
    <3>3. CASE BulkRead(p)
      BY <1>2, <3>3 DEF BulkRead, Idle
    <3> QED BY <1>6, <3>1, <3>2, <3>3
  <2> QED BY <2>1 DEF Current, Writer
<1>7. CASE ChangeStatusRead(p) \/ EndDayRead(p)
  <2>1. PICK dr \in Driver, d \in Day, e, x \in Entry \cup {None} :
           /\ CanStartOn(p, d)
           /\ IsOpenDay(dr, d)
           /\ IsOpenEntry(d, e)
           /\ txn'[p].kind \in {"change", "end"} /\ txn'[p].stage = "read"
           /\ txn'[p].driver = dr /\ txn'[p].day = d
           /\ txn'[p].entry = e /\ txn'[p].fresh = x
           /\ x # None => txn'[p].kind = "change"
           /\ \A q \in Request \ {p} : txn'[q] = txn[q]
    <3>1. CASE ChangeStatusRead(p)
      BY <1>2, <3>1 DEF ChangeStatusRead, Idle
    <3>2. CASE EndDayRead(p)
      BY <1>2, <3>2 DEF EndDayRead, Idle
    <3> QED BY <1>7, <3>1, <3>2
  <2> DEFINE t == txn'[p]
  <2>2. day[d].driver = dr /\ day[d].end = NoTime
    BY <2>1 DEF IsOpenDay, OpenDays
  <2>3. e # None => e \in OpenEntries(d)
    BY <2>1 DEF IsOpenEntry
  <2>4. e # None => entry[e].day = d /\ entry[e].source = "ANDROID"
    BY <2>1, <2>3 DEF OpenEntries, EntriesOf, Overtaken, EntryShape
  <2>5. FoundOpenEntry(t)
    <3>1. CASE OpenEntries(d) = {}
      BY <2>1, <3>1 DEF FoundOpenEntry
    <3>2. CASE OpenEntries(d) # {}
      <4>1. e \in OpenEntries(d)
        BY <2>1, <3>2 DEF IsOpenEntry
      <4>2. d \in StoredDays
        BY <2>1 DEF CanStartOn
      <4>3. (\A a, b \in OpenEntries(d) : a = b) \/ {"change"} \in raced[dr]
        BY <4>2, <2>2 DEF Races, OpenEntriesNeedRaces, OpenEntriesNeedRacingChanges
      <4> QED BY <2>1, <4>1, <4>3 DEF FoundOpenEntry
    <3> QED BY <3>1, <3>2
  <2>6. BoundOf(t)
    BY <2>1, <2>2, <2>4
  <2>7. Current(t)
    BY <2>1, <2>2, <2>4, <2>5 DEF Current, FoundUncorrected, FoundOpenDay, Writer
  <2> QED BY <2>1, <2>6, <2>7
<1>8. CASE CorrectEntryRead(p)
  <2>1. PICK e \in StoredEntries, actor \in {"DRIVER", "ADMIN"} :
           /\ CanStartOn(p, entry[e].day)
           /\ actor = "DRIVER" => MayWriteWorkDay(day[entry[e].day])
           /\ txn'[p].kind = "correct" /\ txn'[p].stage = "read" /\ txn'[p].actor = actor
           /\ txn'[p].driver = day[entry[e].day].driver /\ txn'[p].day = entry[e].day
           /\ txn'[p].entry = e /\ txn'[p].fresh = None
           /\ \A q \in Request \ {p} : txn'[q] = txn[q]
    BY <1>2, <1>8 DEF CorrectEntryRead, Idle
  <2>2. day[entry[e].day].driver \in Driver
    BY <2>1 DEF CanStartOn, StoredDays, Sound, TypeOK, DayRow
  <2>3. BoundOf(txn'[p])
    BY <2>1, <2>2
  <2>4. Current(txn'[p])
    BY <2>1 DEF Current, FoundUnapproved, MayWriteWorkDay, Writer
  <2> QED BY <2>1, <2>3, <2>4
<1>9. CASE CorrectEntryConflict(p)
  <2>1. PICK e \in StoredEntries :
           /\ CanStartOn(p, entry[e].day)
           /\ txn'[p].kind = "correct" /\ txn'[p].stage = "refused"
           /\ txn'[p].driver = day[entry[e].day].driver /\ txn'[p].day = entry[e].day
           /\ txn'[p].entry = None /\ txn'[p].fresh = None
           /\ \A q \in Request \ {p} : txn'[q] = txn[q]
    BY <1>2, <1>9 DEF CorrectEntryConflict, Idle
  <2>2. day[entry[e].day].driver \in Driver
    BY <2>1 DEF CanStartOn, StoredDays, Sound, TypeOK, DayRow
  <2>3. BoundOf(txn'[p])
    BY <2>1, <2>2
  <2>4. Current(txn'[p])
    BY <2>1 DEF Current, Writer
  <2> QED BY <2>1, <2>3, <2>4
<1> QED BY <1>6, <1>7, <1>8, <1>9 DEF Arrive

\* Locks and rollbacks change no table.
LEMMA UncommittedOvertaken ==
  ASSUME WorkTimeAssumption, Sound, Overtaken, Races, NEW p \in Request,
         UpdateEntries(p) \/ SetApprovalHold(p) \/ RefuseCorrection(p) \/ Abort(p)
  PROVE  Overtaken' /\ Races'
<1>1. UNCHANGED Tables
  BY DEF UpdateEntries, SetApprovalHold, RefuseCorrection, Abort, Tables
<1>2. txn \in [Request -> Txn]
  BY DEF Sound, TypeOK
<1>3. Races' /\ EntryShape'
  BY <1>1 DEF Tables, Overtaken, Races, EntryShape, OpenEntriesNeedRaces, OpenEntriesNeedRacingChanges,
     ClosedDayHasNoOpenEntry, TotalsMatchEntries, StoredDays, OpenEntries, EntriesOf
<1>4. \A t : Current(t)' <=> Current(t)
  BY <1>1 DEF Tables, Current, FoundOpenEntry, FoundUncorrected, FoundOpenDay, SummedUp, FoundUnapproved,
     OpenEntries, EntriesOf, Tallies, Tally, LastsUntil, EntriesAfter
<1>5. \A q \in Request \ {p} : txn'[q] = txn[q]
  BY <1>2 DEF UpdateEntries, SetApprovalHold, RefuseCorrection, Abort
<1>6. CASE txn'[p].kind \notin Writer
  BY <1>1, <1>3, <1>4, <1>5, <1>6 DEF Overtaken, Bound, Pending, Tables, Current, Writer
<1>7. CASE txn'[p].kind \in Writer
  <2>1. UpdateEntries(p)
    BY <1>2, <1>7 DEF SetApprovalHold, RefuseCorrection, Abort, Idle, Writer, Txn
  <2>2. PICK sum \in Tallies(EntriesAfter(txn[p]), txn[p].day) :
           txn'[p] = [txn[p] EXCEPT !.stage = "wrote", !.locks = {txn[p].entry} \ {None},
                                    !.sum = sum]
    BY <1>2, <2>1 DEF UpdateEntries
  <2> DEFINE t == txn[p]
             u == txn'[p]
  <2>3. t \in Txn
    BY <1>2
  <2>4. /\ u.kind = t.kind /\ u.actor = t.actor /\ u.driver = t.driver /\ u.day = t.day
        /\ u.entry = t.entry /\ u.fresh = t.fresh /\ u.from = t.from /\ u.to = t.to
        /\ u.seen = t.seen /\ u.sum = sum
        /\ t.stage = "read"
    <3>1. t.stage = "read"
      BY <2>1 DEF UpdateEntries
    <3> HIDE DEF t, u
    <3>2. u = [t EXCEPT !.stage = "wrote", !.locks = {t.entry} \ {None},
                        !.sum = sum]
      BY <2>2 DEF t, u
    <3> QED BY <2>3, <3>1, <3>2 DEF Txn
  <2>5. EntriesAfter(u) = EntriesAfter(t)
    BY <2>4 DEF EntriesAfter, Corrected, Closed, NewEntry
  <2>6. Current(t)
    BY DEF Overtaken, Pending
  <2>7. Current(u)
    BY <2>2, <2>4, <2>5, <2>6 DEF Current, FoundOpenEntry, FoundUncorrected, FoundOpenDay, SummedUp, FoundUnapproved
  <2>8. Pending'
    BY <1>4, <1>5, <2>7 DEF Overtaken, Pending
  <2>9. Bound'
    BY <1>1, <1>5, <2>4 DEF Overtaken, Bound, Tables
  <2> QED BY <1>3, <2>8, <2>9 DEF Overtaken
<1> QED BY <1>6, <1>7

\* Nothing is committed on day d that its handlers or its row depend on.
KeepsDay(d) ==
    /\ SameIntervals(entry, entry', d)
    /\ day'[d].driver = day[d].driver
    /\ day'[d].end = day[d].end
    /\ day'[d].tally = day[d].tally

\* The rows a handler finds stay the driver's and the day's.
KeepsOwners ==
    /\ \A d \in Day : day[d].driver # None => day'[d].driver = day[d].driver
    /\ \A e \in Entry : entry[e].day # None => entry'[e].day = entry[e].day

\* COMMIT of a start-day: its day begins with one entry, the others keep theirs.
LEMMA StartEffects ==
  ASSUME WorkTimeAssumption, Sound, Overtaken, NEW p \in Request, StartDayCommit(p)
  PROVE  /\ \A d \in Day \ {txn[p].day} : day'[d] = day[d] /\ KeepsDay(d)
         /\ txn[p].day \in Day
         /\ day'[txn[p].day].end = NoTime /\ day'[txn[p].day].tally = {}
         /\ {} \in Tallies(entry', txn[p].day)
         /\ \A d \in Day : d = txn[p].day => OpenEntries(d)' \subseteq {txn[p].fresh}
         /\ \A e \in Entry : entry'[e].source = entry[e].source
         /\ \A e \in Entry : entry[e].source # "ANDROID" => entry'[e] = entry[e]
         /\ EntryShape'
         /\ KeepsOwners
<1> DEFINE t == txn[p]
<1>1. /\ t.driver \in Driver /\ t.day \in Day /\ t.fresh \in Entry /\ t.to \in Time
      /\ day[t.day].driver = None /\ entry[t.fresh].day = None
      /\ None \notin Driver \cup Day \cup Entry
  BY WorkTimeAssumption DEF WorkTimeAssumption, StartDayCommit, Sound, Arguments, Identities, Fresh
<1> HIDE DEF t
<1>2. /\ \A d \in Day \ {t.day} : day'[d] = day[d]
      /\ day'[t.day].driver = t.driver
      /\ day'[t.day].end = NoTime
      /\ day'[t.day].tally = {}
  BY <1>1 DEF StartDayCommit, Sound, TypeOK, BlankDay, t
<1>3. /\ \A e \in Entry \ {t.fresh} : entry'[e] = entry[e]
      /\ entry'[t.fresh].day = t.day /\ entry'[t.fresh].end = NoTime
      /\ entry'[t.fresh].start \in Time /\ entry'[t.fresh].source = "ANDROID"
  BY <1>1 DEF StartDayCommit, Sound, TypeOK, NewEntry, BlankEntry, t
<1>4. entry[t.fresh].end = NoTime /\ entry[t.fresh].source = "ANDROID"
  BY <1>1 DEF Overtaken, EntryShape
<1>5. \A e \in Entry : entry[e].day # t.day
  BY <1>1 DEF Overtaken, EntryShape
<1>6. \A d \in Day \ {t.day} : KeepsDay(d)
  BY <1>1, <1>2, <1>3 DEF KeepsDay, SameIntervals
<1>7. ASSUME NEW d \in Day, d = t.day
      PROVE  {} \in Tallies(entry', d) /\ OpenEntries(d)' \subseteq {t.fresh}
  <2>1. \A e \in EntriesOf(entry', d) : e = t.fresh
    BY <1>3, <1>5, <1>7 DEF EntriesOf
  <2>2. OpenEntries(d)' \subseteq {t.fresh}
    BY <2>1 DEF OpenEntries
  <2>3. entry' \in [Entry -> EntryRow]
    <3>1. NewEntry(t) \in EntryRow
      BY <1>1 DEF NewEntry, BlankEntry, EntryRow, Approval
    <3> QED BY <3>1, <1>1 DEF StartDayCommit, Sound, TypeOK, t
  <2>4. \A e \in EntriesOf(entry', d) : entry'[e].end = NoTime /\ entry'[e].start \in Time
    BY <1>3, <2>1
  <2> QED BY <2>2, <2>3, <2>4, NothingYet
<1>8. EntryShape'
  <2>1. \A e \in Entry : entry[e].day \in Day \cup {None}
    BY DEF Sound, TypeOK, EntryRow
  <2> QED BY <1>1, <1>2, <1>3, <1>5, <2>1 DEF Overtaken, EntryShape
<1>9. KeepsOwners
  BY <1>1, <1>2, <1>3 DEF KeepsOwners
<1> QED BY <1>1, <1>2, <1>3, <1>4, <1>6, <1>7, <1>8, <1>9 DEF t

\* A handler that sums up: the rows it updates and the one it inserts.
LEMMA WriterRows ==
  ASSUME WorkTimeAssumption, Sound, Overtaken, NEW p \in Request,
         txn[p].kind \in Writer, txn[p].stage = "wrote", entry' = EntriesAfter(txn[p])
  PROVE  LET t == txn[p] IN
         /\ t.day \in Day /\ t.driver \in Driver /\ day[t.day].driver = t.driver
         /\ \A e \in Entry \ {t.entry, t.fresh} : entry'[e] = entry[e]
         /\ \A e \in Entry : e = t.entry =>
              /\ entry[e].day = t.day /\ entry'[e].day = t.day
              /\ entry'[e].end \in Time
              /\ t.kind # "correct" => entry'[e].source = entry[e].source
         /\ \A e \in Entry : e = t.fresh =>
              /\ e # t.entry
              /\ t.kind = "change"
              /\ entry[e].day = None /\ entry[e].end = NoTime /\ entry[e].source = "ANDROID"
              /\ entry'[e].day = t.day /\ entry'[e].end = NoTime /\ entry'[e].source = "ANDROID"
<1> DEFINE t == txn[p]
<1>1. /\ t.day \in Day /\ t.driver \in Driver /\ day[t.day].driver = t.driver
      /\ t.to \in Time
      /\ t.entry # None => entry[t.entry].day = t.day
      /\ t.fresh # None => t.kind = "change" /\ entry[t.fresh].day = None
      /\ None \notin Driver \cup Day \cup Entry
  BY WorkTimeAssumption DEF WorkTimeAssumption, Sound, Arguments, Identities, Fresh, Overtaken, Bound
<1> HIDE DEF t
<1>2. \A e \in Entry \ {t.entry, t.fresh} : entry'[e] = entry[e]
  BY DEF EntriesAfter, t
<1>3. ASSUME NEW e \in Entry, e = t.entry
      PROVE  /\ entry[e].day = t.day /\ entry'[e].day = t.day
             /\ entry'[e].end \in Time
             /\ t.kind # "correct" => entry'[e].source = entry[e].source
  <2>1. entry'[e] = IF t.kind = "correct" THEN Corrected(entry[e], t) ELSE Closed(entry[e], t)
    BY <1>3 DEF EntriesAfter, t
  <2>2. entry[e] \in EntryRow
    BY DEF Sound, TypeOK
  <2>3. entry[e].day = t.day
    BY <1>1, <1>3
  <2> QED BY <1>1, <2>1, <2>2, <2>3 DEF Corrected, Closed, EntryRow
<1>4. ASSUME NEW e \in Entry, e = t.fresh
      PROVE  /\ e # t.entry
             /\ t.kind = "change"
             /\ entry[e].day = None /\ entry[e].end = NoTime /\ entry[e].source = "ANDROID"
             /\ entry'[e].day = t.day /\ entry'[e].end = NoTime /\ entry'[e].source = "ANDROID"
  <2>1. t.kind = "change" /\ entry[e].day = None /\ e # t.entry
    BY <1>1, <1>4
  <2>2. entry'[e] = NewEntry(t)
    BY <1>4, <2>1 DEF EntriesAfter, t
  <2>3. entry[e].end = NoTime /\ entry[e].source = "ANDROID"
    BY <2>1 DEF Overtaken, EntryShape
  <2> QED BY <2>1, <2>2, <2>3 DEF NewEntry, BlankEntry
<1> QED BY <1>1, <1>2, <1>3, <1>4 DEF t

WriterCommit(p) ==
    \/ ChangeStatusCommit(p)
    \/ EndDayCommit(p)
    \/ CorrectEntryCommit(p)

\* COMMIT of a change, an end or a correction: one day's entries are what the
\* handler made of them, with the totals it had summed up.
LEMMA WriterEffects ==
  ASSUME WorkTimeAssumption, Sound, Overtaken, NEW p \in Request, WriterCommit(p)
  PROVE  LET t == txn[p] IN
         /\ Commit(p)
         /\ t.kind \in Writer /\ t.stage = "wrote" /\ entry' = EntriesAfter(t)
         /\ t.day \in Day /\ t.driver \in Driver /\ day[t.day].driver = t.driver
         /\ \A d \in Day \ {t.day} : day'[d] = day[d] /\ KeepsDay(d)
         /\ day'[t.day].driver = day[t.day].driver
         /\ day'[t.day].approval = day[t.day].approval
         /\ day'[t.day].tally = t.sum
         /\ t.kind # "end" => day'[t.day].end = day[t.day].end
         /\ \A d \in Day : d = t.day =>
              /\ t.kind = "change" \/ OpenEntries(d)' \subseteq OpenEntries(d) \ {t.entry}
              /\ OpenEntries(d)' \subseteq (OpenEntries(d) \ {t.entry}) \cup {t.fresh}
         /\ t.kind # "correct" => \A e \in Entry : entry'[e].source = entry[e].source
         /\ \A e \in Entry : e # t.entry /\ entry[e].source # "ANDROID" => entry'[e] = entry[e]
         /\ EntryShape'
         /\ KeepsOwners
<1> DEFINE t == txn[p]
<1>1. /\ Commit(p)
      /\ t.kind \in Writer /\ t.stage = "wrote" /\ entry' = EntriesAfter(t)
  BY DEF WriterCommit, ChangeStatusCommit, EndDayCommit, CorrectEntryCommit, ReadyToCommit, Writer
<1>2. /\ t.day \in Day /\ t.driver \in Driver /\ day[t.day].driver = t.driver
      /\ None \notin Driver \cup Day \cup Entry
  BY <1>1, WriterRows, WorkTimeAssumption DEF WorkTimeAssumption
<1>3. /\ \A e \in Entry \ {t.entry, t.fresh} : entry'[e] = entry[e]
      /\ \A e \in Entry : e = t.entry =>
              /\ entry[e].day = t.day /\ entry'[e].day = t.day
              /\ entry'[e].end \in Time
              /\ t.kind # "correct" => entry'[e].source = entry[e].source
      /\ \A e \in Entry : e = t.fresh =>
              /\ e # t.entry
              /\ t.kind = "change"
              /\ entry[e].day = None /\ entry[e].end = NoTime /\ entry[e].source = "ANDROID"
              /\ entry'[e].day = t.day /\ entry'[e].end = NoTime /\ entry'[e].source = "ANDROID"
  BY <1>1, WriterRows
<1> HIDE DEF t
<1>4. /\ \A d \in Day \ {t.day} : day'[d] = day[d]
      /\ day'[t.day].driver = day[t.day].driver
      /\ day'[t.day].approval = day[t.day].approval
      /\ day'[t.day].tally = t.sum
      /\ t.kind # "end" => day'[t.day].end = day[t.day].end
  <2>1. day[t.day] \in DayRow /\ day \in [Day -> DayRow]
    BY <1>2 DEF Sound, TypeOK
  <2>2. CASE ChangeStatusCommit(p) \/ CorrectEntryCommit(p)
    <3>1. day' = [day EXCEPT ![t.day] = Recalculated(day[t.day], t)]
      BY <2>2 DEF ChangeStatusCommit, CorrectEntryCommit, t
    <3> QED BY <1>2, <2>1, <3>1 DEF Recalculated, DayRow
  <2>3. CASE EndDayCommit(p)
    <3>1. day' = [day EXCEPT ![t.day] = Ended(day[t.day], t)] /\ t.kind = "end"
      BY <2>3 DEF EndDayCommit, ReadyToCommit, t
    <3> QED BY <1>2, <2>1, <3>1 DEF Ended, Recalculated, DayRow
  <2> QED BY <2>2, <2>3 DEF WriterCommit
<1>5. \A d \in Day \ {t.day} : KeepsDay(d)
  BY <1>2, <1>3, <1>4 DEF KeepsDay, SameIntervals
<1>6. NoTime \notin Time
  BY DEF NoTime, Time
<1>7. ASSUME NEW d \in Day, d = t.day
      PROVE  /\ t.kind = "change" \/ OpenEntries(d)' \subseteq OpenEntries(d) \ {t.entry}
             /\ OpenEntries(d)' \subseteq (OpenEntries(d) \ {t.entry}) \cup {t.fresh}
  <2>1. ASSUME NEW e \in OpenEntries(d)'
        PROVE  \/ e \in OpenEntries(d) \ {t.entry}
               \/ e = t.fresh /\ t.kind = "change"
    <3>1. e \in Entry /\ entry'[e].day = d /\ ~entry'[e].deleted /\ entry'[e].end = NoTime
      BY DEF OpenEntries, EntriesOf
    <3>2. CASE e = t.fresh
      BY <1>3, <3>1, <3>2
    <3>3. CASE e # t.fresh
      BY <1>3, <1>6, <3>1, <3>3 DEF OpenEntries, EntriesOf
    <3> QED BY <3>2, <3>3
  <2> QED BY <2>1
<1>9. t.kind # "correct" => \A e \in Entry : entry'[e].source = entry[e].source
  BY <1>3
<1>10. \A e \in Entry : e # t.entry /\ entry[e].source # "ANDROID" => entry'[e] = entry[e]
  BY <1>3
<1>11. EntryShape'
  <2>1. \A e \in Entry : entry[e].day \in Day \cup {None}
    BY DEF Sound, TypeOK, EntryRow
  <2>2. ASSUME NEW e \in Entry
        PROVE  /\ entry'[e].day = None => entry'[e].end = NoTime
               /\ entry'[e].day # None => day'[entry'[e].day].driver # None
               /\ entry'[e].end = NoTime => entry'[e].source = "ANDROID"
    <3>1. CASE e = t.entry \/ e = t.fresh
      BY <1>2, <1>3, <1>4, <1>6, <3>1
    <3>2. CASE e # t.entry /\ e # t.fresh
      <4>1. entry'[e] = entry[e]
        BY <1>3, <3>2
      <4> QED BY <1>2, <1>4, <2>1, <4>1 DEF Overtaken, EntryShape
    <3> QED BY <3>1, <3>2
  <2> QED BY <2>2 DEF EntryShape
<1>12. KeepsOwners
  BY <1>2, <1>3, <1>4 DEF KeepsOwners
<1> QED BY <1>1, <1>2, <1>4, <1>5, <1>7, <1>9, <1>10, <1>11, <1>12 DEF t

ApprovalCommit(p) == SetApprovalCommit(p) \/ BulkCommit(p)

\* COMMIT of an approval touches no times.
LEMMA ApprovalEffects ==
  ASSUME WorkTimeAssumption, Sound, Overtaken, NEW p \in Request, ApprovalCommit(p)
  PROVE  LET t == txn[p] IN
         /\ Commit(p)
         /\ t.kind \in {"approve", "bulk"}
         /\ \A d \in Day : /\ KeepsDay(d)
                           /\ d \notin t.days => day'[d].approval = day[d].approval
         /\ \A e \in Entry : /\ entry'[e].source = entry[e].source
                             /\ entry'[e].start = entry[e].start
                             /\ entry'[e].end = entry[e].end
         /\ EntryShape'
         /\ KeepsOwners
<1> DEFINE t == txn[p]
<1>1. Commit(p) /\ t.kind \in {"approve", "bulk"}
  BY DEF ApprovalCommit, SetApprovalCommit, BulkCommit
<1>2. ASSUME NEW d \in Day
      PROVE  /\ day'[d].driver = day[d].driver
             /\ day'[d].end = day[d].end
             /\ day'[d].tally = day[d].tally
             /\ d \notin t.days => day'[d].approval = day[d].approval
  <2>1. day[d] \in DayRow
    BY DEF Sound, TypeOK
  <2>2. day'[d] = day[d] \/ (d \in t.days /\ day'[d] = Approved(day[d], t))
    BY DEF ApprovalCommit, SetApprovalCommit, BulkCommit
  <2> QED BY <2>1, <2>2 DEF Approved, DayRow
<1>3. ASSUME NEW e \in Entry
      PROVE  /\ entry'[e].day = entry[e].day
             /\ entry'[e].deleted = entry[e].deleted
             /\ entry'[e].source = entry[e].source
             /\ entry'[e].start = entry[e].start
             /\ entry'[e].end = entry[e].end
  <2>1. entry[e] \in EntryRow
    BY DEF Sound, TypeOK
  <2>2. \/ entry'[e] = entry[e]
        \/ entry'[e] = [entry[e] EXCEPT !.approval = t.approval, !.rev = @ + 1]
    BY DEF ApprovalCommit, SetApprovalCommit, BulkCommit
  <2> QED BY <2>1, <2>2 DEF EntryRow
<1>4. \A d \in Day : KeepsDay(d)
  BY <1>2, <1>3 DEF KeepsDay, SameIntervals
<1>5. EntryShape'
  <2>1. \A e \in Entry : entry[e].day \in Day \cup {None}
    BY DEF Sound, TypeOK, EntryRow
  <2> QED BY <1>2, <1>3, <2>1 DEF Overtaken, EntryShape
<1>6. KeepsOwners
  BY <1>2, <1>3 DEF KeepsOwners
<1> QED BY <1>1, <1>2, <1>3, <1>4, <1>5, <1>6

\* A commit that leaves a handler's day as it was, or approves it, leaves what
\* the handler has read current.
LEMMA UntouchedCurrent ==
  ASSUME WorkTimeAssumption, Sound, Sound', Overtaken, NEW p \in Request, Commit(p),
         NEW q \in Request, q # p, txn[q].kind \in Writer,
         KeepsDay(txn[q].day),
         \A e \in Entry : e = txn[q].entry => entry'[e].source = entry[e].source,
         \/ day'[txn[q].day].approval = day[txn[q].day].approval
         \/ txn'[q].seen \cap {"approve", "bulk"} # {}
  PROVE  Current(txn[q])'
<1> DEFINE t == txn[q]
           u == txn'[q]
<1>1. /\ SameWork(u, t)
      /\ t.seen \subseteq u.seen
  BY CommitMarks DEF Sound
<1>2. /\ t.day \in Day /\ t.driver \in Driver /\ t.entry \in Entry \cup {None}
      /\ u.seen \subseteq Kind
  BY DEF Sound, TypeOK, Txn, Arguments, Overtaken, Bound
<1>3. Current(t)
  BY DEF Overtaken, Pending
<1>4. PICK d \in Day : d = t.day
  BY <1>2
<1>5. u.day = d /\ u.driver = t.driver /\ u.entry = t.entry /\ u.kind = t.kind
      /\ u.stage = t.stage /\ u.actor = t.actor /\ u.sum = t.sum
  BY <1>1, <1>4 DEF SameWork
<1>6. /\ SameIntervals(entry, entry', d)
      /\ day'[d].end = day[d].end
  BY <1>4 DEF KeepsDay
<1>7. OpenEntries(d)' = OpenEntries(d)
  BY <1>6, SameOpenEntries
<1>8. raced[t.driver] \subseteq raced'[t.driver]
  BY <1>2, CommitRaces
<1>9. u.kind \in {"change", "end"} =>
        OpenEntries(d)' \subseteq {u.entry} \/ "change" \in u.seen \/ {"change"} \in raced'[u.driver]
  BY <1>1, <1>3, <1>4, <1>5, <1>7, <1>8 DEF Current, FoundOpenEntry
<1>10. u.kind \in {"change", "end"} /\ u.entry # None =>
         entry'[u.entry].source = "ANDROID" \/ "correct" \in u.seen
  BY <1>1, <1>2, <1>3, <1>5 DEF Current, FoundUncorrected
<1>11. u.kind = "change" => day'[d].end = NoTime \/ "end" \in u.seen
  BY <1>1, <1>3, <1>4, <1>5, <1>6 DEF Current, FoundOpenDay
<1>12. u.kind \in Writer /\ u.stage = "wrote" =>
         u.sum \in Tallies(Applied(entry', u), d) \/ u.seen \cap Summing # {}
  <2>1. Tallies(Applied(entry', u), d) = Tallies(Applied(entry, t), d)
    <3>1. entry \in [Entry -> EntryRow] /\ entry' \in [Entry -> EntryRow]
      BY DEF Sound, TypeOK
    <3>2. SameWork(t, u)
      BY <1>1 DEF SameWork
    <3> HIDE DEF t, u
    <3> QED BY <1>6, <3>1, <3>2, SameApplied
  <2>2. Applied(entry, t) = EntriesAfter(t)
    BY DEF Applied, EntriesAfter
  <2> QED BY <1>1, <1>3, <1>4, <1>5, <2>1, <2>2 DEF Current, SummedUp
<1>13. u.kind = "correct" /\ u.actor = "DRIVER" /\ u.stage # "refused" =>
         day'[d].approval # "APPROVED" \/ u.seen \cap {"approve", "bulk"} # {}
  BY <1>1, <1>3, <1>4, <1>5 DEF Current, FoundUnapproved
<1>14. EntriesAfter(txn[q])' = Applied(entry', u)
  BY DEF EntriesAfter, Applied
<1> QED BY <1>5, <1>9, <1>10, <1>11, <1>12, <1>13, <1>14
     DEF Current, FoundOpenEntry, FoundUncorrected, FoundOpenDay, SummedUp, FoundUnapproved

\* A handler that has written on the same day is among those seen.
LEMMA SameDayCurrent ==
  ASSUME WorkTimeAssumption, Sound, Overtaken, NEW p \in Request, WriterCommit(p),
         NEW q \in Request, q # p, txn[q].kind \in Writer, txn[q].day = txn[p].day
  PROVE  Current(txn[q])'
<1> DEFINE t == txn[q]
           u == txn'[q]
           w == txn[p]
<1>1. /\ Commit(p)
      /\ w.kind \in Writer
      /\ w.day \in Day /\ w.driver \in Driver /\ day[w.day].driver = w.driver
      /\ day'[w.day].approval = day[w.day].approval
      /\ w.kind # "end" => day'[w.day].end = day[w.day].end
      /\ \A d \in Day : d = w.day =>
              (w.kind = "change" \/ OpenEntries(d)' \subseteq OpenEntries(d) \ {w.entry})
      /\ w.kind # "correct" => \A e \in Entry : entry'[e].source = entry[e].source
  BY WriterEffects
<1>2. /\ SameWork(u, t)
      /\ t.seen \subseteq u.seen
  BY <1>1, CommitMarks DEF Sound
<1>3. t.driver = w.driver
  BY <1>1 DEF Overtaken, Bound
<1>4. w.kind \in u.seen
  <2>1. t.kind # "none" /\ w.driver \in Touches(t) \cap Touches(w)
    BY <1>3 DEF Touches, Writer
  <2> QED BY <1>1, <2>1, CommitMarks DEF Sound
<1>5. Current(t)
  BY DEF Overtaken, Pending
<1>6. PICK d \in Day : d = t.day
  BY <1>1
<1>7. u.day = d /\ u.driver = t.driver /\ u.entry = t.entry /\ u.kind = t.kind
      /\ u.stage = t.stage /\ u.actor = t.actor /\ u.sum = t.sum
      /\ t.entry \in Entry \cup {None}
  BY <1>2, <1>6 DEF SameWork, Sound, TypeOK, Txn
<1>8. raced[t.driver] \subseteq raced'[t.driver]
  BY <1>1, <1>3, CommitRaces
<1> HIDE DEF w, u, t
<1>9. u.kind \in {"change", "end"} =>
        OpenEntries(d)' \subseteq {u.entry} \/ "change" \in u.seen \/ {"change"} \in raced'[u.driver]
  <2>1. CASE w.kind = "change"
    BY <1>4, <2>1
  <2>2. CASE w.kind # "change"
    <3>1. OpenEntries(d)' \subseteq OpenEntries(d)
      BY <1>1, <1>6, <2>2 DEF t, w
    <3> QED BY <1>2, <1>5, <1>6, <1>7, <1>8, <3>1 DEF Current, FoundOpenEntry
  <2> QED BY <2>1, <2>2
<1>10. u.kind \in {"change", "end"} /\ u.entry # None =>
         entry'[u.entry].source = "ANDROID" \/ "correct" \in u.seen
  BY <1>1, <1>2, <1>4, <1>5, <1>7 DEF Current, FoundUncorrected
<1>11. u.kind = "change" => day'[d].end = NoTime \/ "end" \in u.seen
  BY <1>1, <1>2, <1>4, <1>5, <1>6, <1>7 DEF Current, FoundOpenDay, t, w
<1>12. u.seen \cap Summing # {}
  BY <1>1, <1>4 DEF Writer, Summing
<1>13. u.kind = "correct" /\ u.actor = "DRIVER" /\ u.stage # "refused" =>
         day'[d].approval # "APPROVED" \/ u.seen \cap {"approve", "bulk"} # {}
  BY <1>1, <1>2, <1>5, <1>6, <1>7 DEF Current, FoundUnapproved, t, w
<1> QED BY <1>7, <1>9, <1>10, <1>11, <1>12, <1>13
     DEF Current, FoundOpenEntry, FoundUncorrected, FoundOpenDay, SummedUp, FoundUnapproved, u

\* Who works on which day and entry does not change under the others' commits.
LEMMA BoundStays ==
  ASSUME WorkTimeAssumption, Sound, Overtaken, NEW p \in Request, Commit(p), KeepsOwners
  PROVE  Bound'
<1>1. SUFFICES ASSUME NEW q \in Request, txn'[q].kind \in Writer
               PROVE  LET u == txn'[q] IN
                      /\ u.driver \in Driver
                      /\ day'[u.day].driver = u.driver
                      /\ u.entry # None => entry'[u.entry].day = u.day
                      /\ u.fresh # None => u.kind = "change"
  BY DEF Bound
<1>2. q # p
  BY <1>1 DEF Commit, Idle, Writer
<1>3. SameWork(txn'[q], txn[q])
  BY <1>2, CommitMarks DEF Sound
<1>4. LET t == txn[q] IN
      /\ t.kind \in Writer
      /\ t.driver \in Driver /\ t.day \in Day /\ day[t.day].driver = t.driver
      /\ t.entry # None => t.entry \in Entry /\ entry[t.entry].day = t.day
      /\ t.fresh # None => t.kind = "change"
      /\ None \notin Driver \cup Day
  BY <1>1, <1>3, WorkTimeAssumption
     DEF WorkTimeAssumption, SameWork, Overtaken, Bound, Sound, TypeOK, Txn, Arguments
<1> QED BY <1>3, <1>4 DEF SameWork, KeepsOwners

\* A COMMIT leaves the others what they read, or they have been overtaken.
LEMMA CommitPending ==
  ASSUME WorkTimeAssumption, Sound, Sound', Overtaken, NEW p \in Request,
         StartDayCommit(p) \/ WriterCommit(p) \/ ApprovalCommit(p)
  PROVE  Pending'
<1>1. SUFFICES ASSUME NEW q \in Request, txn'[q].kind \in Writer
               PROVE  Current(txn[q])'
  BY DEF Pending, Current, Writer
<1>2. Commit(p)
  BY WriterEffects, ApprovalEffects DEF StartDayCommit
<1>3. q # p
  BY <1>1, <1>2 DEF Commit, Idle, Writer
<1>4. SameWork(txn'[q], txn[q])
  BY <1>2, <1>3, CommitMarks DEF Sound
<1>5. /\ txn[q].kind \in Writer
      /\ txn[q].day \in Day /\ txn[q].driver \in Driver
      /\ day[txn[q].day].driver = txn[q].driver
      /\ txn[q].entry # None => entry[txn[q].entry].day = txn[q].day
      /\ None \notin Driver \cup Day \cup Entry
  BY <1>1, <1>4, WorkTimeAssumption
     DEF WorkTimeAssumption, SameWork, Overtaken, Bound, Sound, Arguments
<1>6. CASE StartDayCommit(p)
  <2>1. txn[q].day # txn[p].day
    BY <1>5, <1>6 DEF StartDayCommit, Sound, Identities, Fresh, Present
  <2>2. /\ KeepsDay(txn[q].day)
        /\ day'[txn[q].day] = day[txn[q].day]
        /\ \A e \in Entry : entry'[e].source = entry[e].source
    BY <1>5, <1>6, <2>1, StartEffects
  <2> QED BY <1>2, <1>3, <1>5, <2>2, UntouchedCurrent
<1>7. CASE WriterCommit(p)
  <2>1. CASE txn[q].day = txn[p].day
    BY <1>3, <1>5, <1>7, <2>1, SameDayCurrent
  <2>2. CASE txn[q].day # txn[p].day
    <3>1. /\ KeepsDay(txn[q].day) /\ day'[txn[q].day] = day[txn[q].day]
          /\ \A e \in Entry : e # txn[p].entry /\ entry[e].source # "ANDROID" => entry'[e] = entry[e]
          /\ \A e \in Entry : e = txn[p].entry => entry[e].day = txn[p].day
          /\ \A e \in Entry \ {txn[p].entry, txn[p].fresh} : entry'[e] = entry[e]
          /\ \A e \in Entry : e = txn[p].fresh => entry[e].day = None
      BY <1>5, <1>7, <2>2, WriterEffects, WriterRows
    <3>2. \A e \in Entry : e = txn[q].entry => entry'[e].source = entry[e].source
      BY <1>5, <2>2, <3>1
    <3> QED BY <1>2, <1>3, <1>5, <3>1, <3>2, UntouchedCurrent
  <2> QED BY <2>1, <2>2
<1>8. CASE ApprovalCommit(p)
  <2>1. /\ KeepsDay(txn[q].day)
        /\ txn[q].day \notin txn[p].days => day'[txn[q].day].approval = day[txn[q].day].approval
        /\ \A e \in Entry : entry'[e].source = entry[e].source
        /\ txn[p].kind \in {"approve", "bulk"}
    BY <1>5, <1>8, ApprovalEffects
  <2>2. CASE txn[q].day \in txn[p].days
    <3>1. txn[q].kind # "none" /\ txn[q].driver \in Touches(txn[q]) \cap Touches(txn[p])
      BY <1>5, <2>2 DEF Touches, Writer
    <3>2. txn[p].kind \in txn'[q].seen
      BY <1>2, <1>3, <1>5, <3>1, CommitMarks DEF Sound
    <3> QED BY <1>2, <1>3, <1>5, <2>1, <3>2, UntouchedCurrent
  <2>3. CASE txn[q].day \notin txn[p].days
    BY <1>2, <1>3, <1>5, <2>1, <2>3, UntouchedCurrent
  <2> QED BY <2>2, <2>3
<1> QED BY <1>6, <1>7, <1>8

RacesOn(d) ==
    /\ \/ \A a, b \in OpenEntries(d) : a = b
       \/ {"change"} \in raced[day[d].driver]
    /\ \/ day[d].end = NoTime
       \/ OpenEntries(d) = {}
       \/ {"change"} \in raced[day[d].driver]
       \/ {"change", "end"} \in raced[day[d].driver]
    /\ \/ day[d].tally \in Tallies(entry, d)
       \/ \E a, b \in Summing : {a, b} \in raced[day[d].driver]

\* Day by day, what is left open and what the totals say.
LEMMA RacesByDay == Races <=> \A d \in StoredDays : RacesOn(d)
  BY DEF Races, RacesOn, OpenEntriesNeedRaces, OpenEntriesNeedRacingChanges,
     ClosedDayHasNoOpenEntry, TotalsMatchEntries

\* A day that a COMMIT does not touch stays as it was.
LEMMA UntouchedRaces ==
  ASSUME Sound, Races, NEW p \in Request, Commit(p), NEW d \in Day, day'[d].driver # None, KeepsDay(d)
  PROVE  RacesOn(d)'
<1>1. /\ day'[d].driver = day[d].driver /\ day'[d].end = day[d].end /\ day'[d].tally = day[d].tally
      /\ SameIntervals(entry, entry', d)
  BY DEF KeepsDay
<1>2. RacesOn(d)
  BY <1>1, RacesByDay DEF StoredDays
<1>3. day[d].driver \in Driver
  BY <1>1 DEF Sound, TypeOK, DayRow
<1>4. raced[day[d].driver] \subseteq raced'[day[d].driver]
  BY <1>3, CommitRaces
<1>5. OpenEntries(d)' = OpenEntries(d) /\ Tallies(entry', d) = Tallies(entry, d)
  BY <1>1, SameOpenEntries, SameTally
<1> QED BY <1>1, <1>2, <1>4, <1>5 DEF RacesOn

\* The day that a handler has written to: what has overtaken the handler is on
\* record from its commit on.
LEMMA WrittenRaces ==
  ASSUME WorkTimeAssumption, Sound, Overtaken, Races, NEW p \in Request, WriterCommit(p),
         NEW d \in Day, d = txn[p].day
  PROVE  RacesOn(d)'
<1> DEFINE t == txn[p]
<1>1. /\ Commit(p)
      /\ t.kind \in Writer /\ t.stage = "wrote" /\ entry' = EntriesAfter(t)
      /\ t.driver \in Driver /\ day[d].driver = t.driver
      /\ day'[d].driver = t.driver
      /\ day'[d].tally = t.sum
      /\ t.kind # "end" => day'[d].end = day[d].end
      /\ t.kind = "change" \/ OpenEntries(d)' \subseteq OpenEntries(d) \ {t.entry}
      /\ OpenEntries(d)' \subseteq (OpenEntries(d) \ {t.entry}) \cup {t.fresh}
  BY WriterEffects
<1>2. Current(t)
  BY DEF Overtaken, Pending
<1>3. RacesOn(d)
  <2>1. d \in StoredDays
    BY <1>1, WorkTimeAssumption DEF WorkTimeAssumption, StoredDays
  <2> QED BY <2>1, RacesByDay
<1>4. /\ raced[t.driver] \subseteq raced'[t.driver]
      /\ \A k \in t.seen : {t.kind, k} \in raced'[t.driver]
  BY <1>1, CommitRaces
<1>5. \/ \A a, b \in OpenEntries(d)' : a = b
      \/ {"change"} \in raced'[t.driver]
  <2>1. CASE t.kind = "change"
    <3>1. FoundOpenEntry(t)
      BY <1>2, <2>1 DEF Current
    <3>2. CASE OpenEntries(d) \subseteq {t.entry}
      BY <1>1, <3>2
    <3>3. CASE "change" \in t.seen
      <4>1. {"change", "change"} \in raced'[t.driver]
        BY <1>4, <2>1, <3>3
      <4>2. {"change", "change"} = {"change"}
        OBVIOUS
      <4> QED BY <4>1, <4>2
    <3>4. CASE {"change"} \in raced[t.driver]
      BY <1>4, <3>4
    <3> QED BY <3>1, <3>2, <3>3, <3>4 DEF FoundOpenEntry
  <2>2. CASE t.kind # "change"
    BY <1>1, <1>3, <1>4, <2>2 DEF RacesOn
  <2> QED BY <2>1, <2>2
<1>6. \/ day'[d].end = NoTime
      \/ OpenEntries(d)' = {}
      \/ {"change"} \in raced'[t.driver]
      \/ {"change", "end"} \in raced'[t.driver]
  <2>1. CASE t.kind = "change"
    <3>1. FoundOpenDay(t)
      BY <1>2, <2>1 DEF Current
    <3> QED BY <1>1, <1>4, <2>1, <3>1 DEF FoundOpenDay
  <2>2. CASE t.kind = "end"
    <3>1. FoundOpenEntry(t)
      BY <1>2, <2>2 DEF Current
    <3>2. CASE OpenEntries(d) \subseteq {t.entry}
      BY <1>1, <2>2, <3>2
    <3>3. CASE "change" \in t.seen
      <4>1. {"end", "change"} \in raced'[t.driver]
        BY <1>4, <2>2, <3>3
      <4>2. {"end", "change"} = {"change", "end"}
        OBVIOUS
      <4> QED BY <4>1, <4>2
    <3>4. CASE {"change"} \in raced[t.driver]
      BY <1>4, <3>4
    <3> QED BY <3>1, <3>2, <3>3, <3>4 DEF FoundOpenEntry
  <2>3. CASE t.kind = "correct"
    BY <1>1, <1>3, <1>4, <2>3 DEF RacesOn
  <2> QED BY <1>1, <2>1, <2>2, <2>3 DEF Writer
<1>7. \/ day'[d].tally \in Tallies(entry', d)
      \/ \E a, b \in Summing : {a, b} \in raced'[t.driver]
  <2>1. SummedUp(t)
    BY <1>1, <1>2 DEF Current
  <2>2. CASE t.sum \in Tallies(EntriesAfter(t), t.day)
    BY <1>1, <2>2
  <2>3. CASE t.seen \cap Summing # {}
    BY <1>1, <1>4, <2>3 DEF Summing, Writer
  <2> QED BY <2>1, <2>2, <2>3 DEF SummedUp
<1> QED BY <1>1, <1>5, <1>6, <1>7 DEF RacesOn

\* The day it touches stays so because what the handler read was still so, or
\* because the overlap is recorded now.
LEMMA CommitKeepsRaces ==
  ASSUME WorkTimeAssumption, Sound, Overtaken, Races, NEW p \in Request,
         StartDayCommit(p) \/ WriterCommit(p) \/ ApprovalCommit(p)
  PROVE  Races'
<1>1. SUFFICES ASSUME NEW d \in Day, day'[d].driver # None
               PROVE  RacesOn(d)'
  <2>1. (\A d \in StoredDays : RacesOn(d))' => Races'
    BY RacesByDay, PTL
  <2> QED BY <2>1 DEF StoredDays
<1>2. Commit(p)
  BY WriterEffects, ApprovalEffects DEF StartDayCommit
<1>3. CASE KeepsDay(d)
  BY <1>1, <1>2, <1>3, UntouchedRaces
<1>4. CASE ~KeepsDay(d) /\ StartDayCommit(p)
  <2>1. d = txn[p].day
    BY <1>4, StartEffects
  <2>2. /\ day'[d].end = NoTime /\ day'[d].tally = {}
        /\ {} \in Tallies(entry', d)
        /\ OpenEntries(d)' \subseteq {txn[p].fresh}
    BY <1>4, <2>1, StartEffects
  <2> QED BY <2>2 DEF RacesOn
<1>5. CASE ~KeepsDay(d) /\ WriterCommit(p)
  <2>1. d = txn[p].day
    BY <1>5, WriterEffects
  <2> QED BY <1>5, <2>1, WrittenRaces
<1>6. CASE ~KeepsDay(d) /\ ApprovalCommit(p)
  BY <1>6, ApprovalEffects
<1> QED BY <1>3, <1>4, <1>5, <1>6

\* Every step keeps it.
LEMMA OvertakenStep ==
  ASSUME WorkTimeAssumption, Sound, Overtaken, Races, [Next]_vars
  PROVE  Overtaken' /\ Races'
<1>1. CASE UNCHANGED vars
  <2>1. UNCHANGED <<day, entry, txn, raced>>
    BY <1>1 DEF vars
  <2>2. Races'
    BY <2>1 DEF Races, OpenEntriesNeedRaces, OpenEntriesNeedRacingChanges,
       ClosedDayHasNoOpenEntry, TotalsMatchEntries, StoredDays, OpenEntries, EntriesOf
  <2>5. EntryShape' /\ Bound'
    BY <2>1 DEF Overtaken, EntryShape, Bound
  <2>3. \A t : Current(t)' <=> Current(t)
    BY <2>1 DEF Current, FoundOpenEntry, FoundUncorrected, FoundOpenDay, SummedUp, FoundUnapproved,
       OpenEntries, EntriesOf, Tallies, Tally, LastsUntil, EntriesAfter
  <2>4. Pending'
    BY <2>1, <2>3 DEF Overtaken, Pending
  <2> QED BY <2>2, <2>4, <2>5 DEF Overtaken
<1>2. ASSUME NEW p \in Request, Arrive(p) PROVE Overtaken' /\ Races'
  BY <1>2, ArriveOvertaken
<1>3. ASSUME NEW p \in Request,
             UpdateEntries(p) \/ SetApprovalHold(p) \/ RefuseCorrection(p) \/ Abort(p)
      PROVE  Overtaken' /\ Races'
  BY <1>3, UncommittedOvertaken
<1>4. ASSUME NEW p \in Request, StartDayCommit(p) \/ WriterCommit(p) \/ ApprovalCommit(p)
      PROVE  Overtaken' /\ Races'
  <2>1. Sound'
    BY SoundStep
  <2>2. Commit(p) /\ EntryShape' /\ KeepsOwners
    BY <1>4, StartEffects, WriterEffects, ApprovalEffects DEF StartDayCommit
  <2>3. Bound'
    BY <2>2, BoundStays
  <2>4. Pending'
    BY <1>4, <2>1, CommitPending
  <2>5. Races'
    BY <1>4, CommitKeepsRaces
  <2> QED BY <2>2, <2>3, <2>4, <2>5 DEF Overtaken
<1> QED BY <1>1, <1>2, <1>3, <1>4 DEF Next, Proceed, WriterCommit, ApprovalCommit

\* So it holds in every state.
LEMMA OvertakenAlways == Spec => [](Sound /\ Overtaken /\ Races)
<1>1. Init => Sound /\ Overtaken /\ Races
  BY WorkTimeAssumption, SoundInit, InitOvertaken
<1>2. Sound /\ Overtaken /\ Races /\ [Next]_vars => (Sound /\ Overtaken /\ Races)'
  BY WorkTimeAssumption, SoundStep, OvertakenStep
<1> QED BY <1>1, <1>2, PTL DEF Spec

\* However many drivers, days, entries and handlers there are, a day is left
\* with a second open entry, or ended with one open, only after status changes
\* (or a status change and end-day) of its driver have overlapped.
THEOREM LeftOpenNeedsRace == Spec => []OpenEntriesNeedRaces
<1>1. Races => OpenEntriesNeedRaces
  BY DEF Races
<1> QED BY <1>1, OvertakenAlways, PTL

\* The totals that recalcDay stores with a day are those of its entries, the
\* running one counted up to some one moment, unless two handlers that sum up
\* have overlapped on the driver.
THEOREM TotalsStayTrue == Spec => []TotalsMatchEntries
<1>1. Races => TotalsMatchEntries
  BY DEF Races
<1> QED BY <1>1, OvertakenAlways, PTL

\* An entry corrected by hand keeps its times until it is corrected again,
\* except for a handler that had read it before the correction.
THEOREM CorrectionsStay == Spec => CorrectionSticks
<1>1. Sound /\ Overtaken /\ Races /\ [Next]_vars =>
        [\A e \in Entry :
           /\ entry[e].source # "ANDROID"
           /\ <<entry'[e].start, entry'[e].end>> # <<entry[e].start, entry[e].end>>
           => \E p \in Request :
                 /\ txn[p].entry = e
                 /\ txn[p].kind = "correct" \/ "correct" \in txn[p].seen]_vars
  <2> SUFFICES ASSUME Sound, Overtaken, [Next]_vars, NEW e \in Entry,
                      entry[e].source # "ANDROID",
                      <<entry'[e].start, entry'[e].end>> # <<entry[e].start, entry[e].end>>
               PROVE  \E p \in Request : /\ txn[p].entry = e
                                         /\ txn[p].kind = "correct" \/ "correct" \in txn[p].seen
    OBVIOUS
  <2>1. entry' # entry
    OBVIOUS
  <2>2. PICK p \in Request : StartDayCommit(p) \/ WriterCommit(p) \/ ApprovalCommit(p)
    <3>1. PICK p \in Request : Arrive(p) \/ Proceed(p) \/ Abort(p)
      BY <2>1 DEF vars, Next
    <3>2. ~Arrive(p)
      BY <2>1 DEF Arrive, StartDayRead, ChangeStatusRead, EndDayRead, CorrectEntryRead,
         CorrectEntryConflict, SetApprovalRead, BulkRead, Tables
    <3>3. ~(UpdateEntries(p) \/ RefuseCorrection(p) \/ SetApprovalHold(p) \/ Abort(p))
      BY <2>1 DEF UpdateEntries, RefuseCorrection, SetApprovalHold, Abort, Tables
    <3> QED BY <3>1, <3>2, <3>3 DEF Proceed, WriterCommit, ApprovalCommit
  <2>3. WriterCommit(p)
    BY <2>2, WorkTimeAssumption, StartEffects, ApprovalEffects
  <2>4. txn[p].entry = e /\ txn[p].kind \in Writer
    BY <2>3, WorkTimeAssumption, WriterEffects
  <2>5. txn[p].kind = "correct" \/ "correct" \in txn[p].seen
    <3>1. e # None
      BY WorkTimeAssumption DEF WorkTimeAssumption
    <3> QED BY <2>4, <3>1 DEF Overtaken, Pending, Current, FoundUncorrected, Writer
  <2> QED BY <2>4, <2>5
<1> QED BY <1>1, OvertakenAlways, PTL DEF Spec, CorrectionSticks

\* A driver's correction lands on an approved day only if the approval was
\* given between the check of assertAndroidMayWriteWorkDay and the commit.
THEOREM CorrectionsRespectApproval == Spec => DriverCorrectionRespectsApproval
<1>1. Sound /\ Overtaken /\ Races =>
        [\A p \in Request :
           /\ txn[p].actor = "DRIVER"
           /\ CorrectEntryCommit(p)
           => \/ day[txn[p].day].approval # "APPROVED"
              \/ txn[p].seen \cap {"approve", "bulk"} # {}]_vars
  BY DEF Overtaken, Pending, Current, FoundUnapproved, CorrectEntryCommit, ReadyToCommit
<1> QED BY <1>1, OvertakenAlways, PTL DEF Spec, DriverCorrectionRespectsApproval

=============================================================================
