----------------------- MODULE MigrationRuntimeProofs -----------------------
(***************************************************************************)
(* Proofs about MigrationRuntime, for any number of runners, releases and  *)
(* migrations.                                                             *)
(*                                                                         *)
(* The argument: the lock makes the runner between lock and unlock the     *)
(* only one that writes.  What it has read of the ledger is therefore      *)
(* still the ledger (Agreed), and stays Valid through its own writes, so   *)
(* that the least migration it has not applied has no successor in the     *)
(* ledger, nor, as the ledger is truthful, in the schema.                  *)
(***************************************************************************)
EXTENDS MigrationRuntime, TLAPS

\* What Valid says of a row: the release agrees with it.
Agrees(r, rows, allowed, m) ==
    /\ m \in Known(r)
    /\ \/ rows[m].sum = "none" /\ m \in allowed
       \/ Legacy(r, rows, m)
       \/ Current(r, rows, m)
    /\ \A k \in Known(r) : k < m => rows[k] # None

\* What the runner that holds the lock knows of the ledger, by stage.
Agreed(p) ==
    /\ run[p].stage \in {"heal", "rebaseline", "apply"} =>
         /\ run[p].applied = ledger
         /\ Valid(run[p].release, ledger, {Baseline})
    /\ run[p].stage \in {"rebaseline", "apply"} =>
         (ledger[Baseline] # None => ledger[Baseline].sum # "none")
    /\ run[p].stage = "apply" => NeedsRebaseline(run[p].release, ledger) = {}

AllAgreed == \A p \in Runner : Agreed(p)

Sound == TypeOK /\ RunnersAreSerialised /\ LedgerIsTruthful /\ AllAgreed

-----------------------------------------------------------------------------
(***************************************************************************)
(* Lemmas about the operators.                                             *)
(***************************************************************************)

\* A recorded row is a Row.
LEMMA RecordedRow ==
    ASSUME NEW rows \in LedgerType, NEW m \in Migration, rows[m] # None
    PROVE  rows[m] \in Row
BY DEF LedgerType

\* assertStateIsValid, row by row.
LEMMA ValidRows ==
    ASSUME NEW r, NEW rows \in LedgerType, NEW allowed
    PROVE  Valid(r, rows, allowed) <=>
               \A m \in Migration : rows[m] # None => Agrees(r, rows, allowed, m)
<1>1. ASSUME Valid(r, rows, allowed), NEW m \in Migration, rows[m] # None
      PROVE  Agrees(r, rows, allowed, m)
  <2>1. m \in Recorded(rows) /\ m \in Known(r)
    BY <1>1 DEF Valid, Unknown, Recorded
  <2>2. \A k \in Known(r) : k < m => rows[k] # None
    BY <1>1, <2>1 DEF Valid, Gaps, Pending, Recorded, Known
  <2>3. CASE m \in MissingSum(r, rows)
    BY <1>1, <2>1, <2>2, <2>3 DEF Agrees, Valid, MissingSum
  <2>4. CASE m \notin MissingSum(r, rows)
    <3>1. m \notin Mismatched(r, rows)
      BY <1>1 DEF Valid
    <3>2. Current(r, rows, m) \/ m \in NeedsRebaseline(r, rows)
      BY <3>1, <2>1, <2>4 DEF Mismatched
    <3>3. Current(r, rows, m) \/ Legacy(r, rows, m)
      BY <3>2 DEF NeedsRebaseline
    <3> QED BY <3>3, <2>1, <2>2 DEF Agrees
  <2> QED BY <2>3, <2>4
<1>2. ASSUME \A m \in Migration : rows[m] # None => Agrees(r, rows, allowed, m)
      PROVE  Valid(r, rows, allowed)
  <2>1. Unknown(r, rows) = {}
    BY <1>2 DEF Unknown, Recorded, Agrees
  <2>2. Mismatched(r, rows) = {}
    BY <1>2 DEF Mismatched, MissingSum, Recorded, NeedsRebaseline, Agrees
  <2>3. MissingSum(r, rows) \subseteq allowed
    BY <1>2 DEF MissingSum, Recorded, Agrees, Legacy, Current
  <2>4. Gaps(r, rows) = {}
    <3>1. SUFFICES ASSUME NEW m \in Gaps(r, rows)
                   PROVE  FALSE
      OBVIOUS
    <3>2. m \in Migration /\ rows[m] # None
      BY <3>1 DEF Gaps, Recorded
    <3>3. PICK k \in Pending(r, rows) : k < m
      BY <3>1 DEF Gaps
    <3>4. k \in Known(r) /\ rows[k] = None
      BY <3>3 DEF Pending, Recorded, Known
    <3> QED BY <3>2, <3>3, <3>4, <1>2 DEF Agrees
  <2> QED BY <2>1, <2>2, <2>3, <2>4 DEF Valid
<1> QED BY <1>1, <1>2

\* The texts and dependencies of a release.
LEMMA ReleaseType ==
    ASSUME NEW r \in Release, NEW m \in Known(r)
    PROVE  m \in Migration /\ r.text[m] \in Text /\ r.dep[m] \in Dep
BY MigrationAssumption DEF Known

\* A run whose stage is Over or "waiting" owes nothing to the ledger.
LEMMA AgreedWhenNotWorking ==
    ASSUME NEW p \in Runner, run'[p].stage \notin Working
    PROVE  Agreed(p)'
BY DEF Agreed, Working

\* A run that a step leaves alone, with the ledger, agrees as before.
LEMMA AgreedUnchanged ==
    ASSUME NEW p \in Runner, Agreed(p), run'[p] = run[p], ledger' = ledger
    PROVE  Agreed(p)'
BY DEF Agreed

\* While p works nobody else does.
LEMMA OnlyWorker ==
    ASSUME RunnersAreSerialised, NEW p \in Runner, NEW q \in Runner,
           run[p].stage \in Working, q # p
    PROVE  lock = p /\ run[q].stage \notin Working
BY DEF RunnersAreSerialised

-----------------------------------------------------------------------------
(***************************************************************************)
(* Sound is inductive: one lemma per action.                               *)
(***************************************************************************)
LEMMA SoundInit == Init => Sound
<1> SUFFICES ASSUME Init PROVE Sound
  OBVIOUS
<1>1. PICK r \in Release : \E to \in Known(r) :
         run = [p \in Runner |-> [stage |-> "idle", release |-> r, to |-> to,
                                 applied |-> NoRows]]
  BY DEF Init
<1>2. PICK to \in Known(r) :
         run = [p \in Runner |-> [stage |-> "idle", release |-> r, to |-> to,
                                 applied |-> NoRows]]
  BY <1>1
<1>3. ledger \in LedgerType
  BY MigrationAssumption DEF Init
<1>4. NoRows \in LedgerType /\ to \in Migration
  BY DEF NoRows, LedgerType, Known
<1>5. schema \in [Migration -> Text \cup {None}]
  BY <1>3, RecordedRow DEF Init, Row
<1>6. run \in [Runner -> Run]
  BY <1>2, <1>4 DEF Run, Over, Working
<1>7. TypeOK
  BY <1>3, <1>5, <1>6 DEF TypeOK, Init
<1>8. \A p \in Runner : run[p].stage = "idle"
  BY <1>2
<1>9. RunnersAreSerialised
  BY <1>8, MigrationAssumption DEF RunnersAreSerialised, Init, Working
<1>10. LedgerIsTruthful
  BY <1>3, RecordedRow, MigrationAssumption DEF LedgerIsTruthful, Init, Row
<1>11. AllAgreed
  BY <1>8 DEF AllAgreed, Agreed
<1> QED BY <1>7, <1>9, <1>10, <1>11 DEF Sound

\* A step that only moves p between stages that owe nothing to the ledger.
LEMMA SoundStage ==
    ASSUME Sound, NEW p \in Runner,
           exists' \in BOOLEAN, ledger' = ledger, schema' = schema,
           lock' \in Runner \cup {None},
           NEW x \in Run, run' = [run EXCEPT ![p] = x],
           x.stage \notin {"heal", "rebaseline", "apply"},
           RunnersAreSerialised'
    PROVE  Sound'
<1>1. TypeOK'
  BY DEF Sound, TypeOK
<1>2. LedgerIsTruthful'
  BY DEF Sound, LedgerIsTruthful
<1>3. ASSUME NEW q \in Runner PROVE Agreed(q)'
  <2>1. CASE q = p
    BY <2>1 DEF Agreed, Sound, TypeOK
  <2>2. CASE q # p
    BY <2>2, AgreedUnchanged DEF Sound, AllAgreed, TypeOK
  <2> QED BY <2>1, <2>2
<1> QED BY <1>1, <1>2, <1>3 DEF Sound, AllAgreed

LEMMA SoundStart ==
    ASSUME Sound, NEW p \in Runner, Start(p)
    PROVE  Sound'
<1>0. PICK r \in Release : \E to \in Known(r) :
         run' = [run EXCEPT ![p] = [stage |-> "waiting", release |-> r,
                                    to |-> to, applied |-> NoRows]]
  BY DEF Start
<1>1. PICK to \in Known(r) :
         run' = [run EXCEPT ![p] = [stage |-> "waiting", release |-> r,
                                    to |-> to, applied |-> NoRows]]
  BY <1>0
<1> DEFINE x == [stage |-> "waiting", release |-> r, to |-> to,
                 applied |-> NoRows]
<1>2. x \in Run /\ x.stage = "waiting"
  BY DEF Run, NoRows, LedgerType, Known
<1>3. run' = [run EXCEPT ![p] = x]
  BY <1>1
<1>4. lock # p
  BY DEF Start, Sound, RunnersAreSerialised, Over, Working
<1>5. RunnersAreSerialised'
  BY <1>2, <1>3, <1>4
     DEF Start, Sound, TypeOK, RunnersAreSerialised, Over, Working
<1> QED BY <1>2, <1>3, <1>5, SoundStage DEF Start, Sound, TypeOK

LEMMA SoundAcquire ==
    ASSUME Sound, NEW p \in Runner, Acquire(p)
    PROVE  Sound'
<1> DEFINE x == [run[p] EXCEPT !.stage = "bootstrap"]
<1>1. run[p] \in Run
  BY DEF Sound, TypeOK
<1>2. x \in Run /\ x.stage = "bootstrap"
  BY <1>1 DEF Run, Working
<1>3. run' = [run EXCEPT ![p] = x]
  BY DEF Acquire
<1>4. RunnersAreSerialised'
  BY <1>2, <1>3, MigrationAssumption
     DEF Acquire, Sound, TypeOK, RunnersAreSerialised, Working
<1> QED BY <1>2, <1>3, <1>4, SoundStage DEF Acquire, Sound, TypeOK

LEMMA SoundBootstrap ==
    ASSUME Sound, NEW p \in Runner, Bootstrap(p)
    PROVE  Sound'
<1> DEFINE x == [run[p] EXCEPT !.stage = "read"]
<1>1. run[p] \in Run
  BY DEF Sound, TypeOK
<1>2. x \in Run /\ x.stage = "read"
  BY <1>1 DEF Run, Working
<1>3. run' = [run EXCEPT ![p] = x]
  BY DEF Bootstrap
<1>4. RunnersAreSerialised'
  BY <1>2, <1>3 DEF Bootstrap, Sound, TypeOK, RunnersAreSerialised, Working
<1> QED BY <1>2, <1>3, <1>4, SoundStage DEF Bootstrap, Sound, TypeOK

\* The finally clause of whoever holds the lock.
LEMMA SoundEnd ==
    ASSUME Sound, NEW p \in Runner, run[p].stage \in Working,
           NEW outcome \in Over, End(p, outcome),
           UNCHANGED <<exists, ledger, schema>>
    PROVE  Sound'
<1> DEFINE x == [run[p] EXCEPT !.stage = outcome, !.applied = NoRows]
<1>1. run[p] \in Run
  BY DEF Sound, TypeOK
<1>2. x \in Run /\ x.stage \in Over
  BY <1>1 DEF Run, NoRows, LedgerType
<1>3. run' = [run EXCEPT ![p] = x]
  BY DEF End
<1>4. RunnersAreSerialised'
  BY <1>2, <1>3, MigrationAssumption
     DEF End, Sound, TypeOK, RunnersAreSerialised, Working, Over
<1>5. x.stage \notin {"heal", "rebaseline", "apply"}
  BY <1>2 DEF Over
<1> QED BY <1>2, <1>3, <1>4, <1>5, SoundStage DEF End, Sound, TypeOK

LEMMA SoundCrash ==
    ASSUME Sound, NEW p \in Runner, Crash(p)
    PROVE  Sound'
<1> DEFINE x == [run[p] EXCEPT !.stage = "idle", !.applied = NoRows]
<1>1. run[p] \in Run
  BY DEF Sound, TypeOK
<1>2. x \in Run /\ x.stage = "idle"
  BY <1>1 DEF Run, Over, NoRows, LedgerType
<1>3. run' = [run EXCEPT ![p] = x]
  BY DEF Crash
<1>4. RunnersAreSerialised'
  BY <1>2, <1>3, MigrationAssumption
     DEF Crash, Sound, TypeOK, RunnersAreSerialised, Working
<1>5. lock' \in Runner \cup {None}
  BY DEF Crash, Sound, TypeOK
<1> QED BY <1>2, <1>3, <1>4, <1>5, SoundStage DEF Crash, Sound, TypeOK

\* A step of the runner that holds the lock and keeps it.
LEMMA SoundWork ==
    ASSUME Sound, NEW p \in Runner, run[p].stage \in Working,
           NEW x \in Run, x.stage \in Working, run' = [run EXCEPT ![p] = x],
           UNCHANGED <<exists, lock>>,
           ledger' \in LedgerType, schema' \in [Migration -> Text \cup {None}],
           LedgerIsTruthful', Agreed(p)'
    PROVE  Sound'
<1>1. TypeOK'
  BY DEF Sound, TypeOK
<1>2. RunnersAreSerialised'
  BY DEF Sound, TypeOK, RunnersAreSerialised
<1>3. ASSUME NEW q \in Runner, q # p PROVE Agreed(q)'
  <2>1. run[q].stage \notin Working
    BY <1>3, OnlyWorker DEF Sound
  <2>2. run'[q] = run[q]
    BY <1>3 DEF Sound, TypeOK
  <2> QED BY <2>1, <2>2, AgreedWhenNotWorking
<1> QED BY <1>1, <1>2, <1>3 DEF Sound, AllAgreed

LEMMA SoundRead ==
    ASSUME Sound, NEW p \in Runner, Read(p)
    PROVE  Sound'
<1> DEFINE r == run[p].release
           stage == AfterRead(r, ledger)
           x == [run[p] EXCEPT !.stage = stage, !.applied = ledger]
<1>1. run[p] \in Run /\ ledger \in LedgerType
  BY DEF Sound, TypeOK
<1>2. stage \in {"heal", "rebaseline", "apply"}
  BY DEF AfterRead, AfterHeal
<1>3. x \in Run /\ x.stage \in Working /\ run[p].stage \in Working
  BY <1>1, <1>2 DEF Run, Working, Read
<1>4. run' = [run EXCEPT ![p] = x] /\ run'[p] = x
  BY <1>1 DEF Read, Sound, TypeOK
<1>5. LedgerIsTruthful' /\ ledger' = ledger
  BY DEF Read, Sound, LedgerIsTruthful
<1>6. Agreed(p)'
  <2>1. x.applied = ledger /\ x.release = r /\ x.stage = stage
    BY <1>1 DEF Run
  <2>2. Valid(r, ledger, {Baseline})
    BY DEF Read
  <2>3. stage \in {"rebaseline", "apply"} =>
            (ledger[Baseline] # None => ledger[Baseline].sum # "none")
    BY DEF AfterRead
  <2>4. stage = "apply" => NeedsRebaseline(r, ledger) = {}
    BY DEF AfterRead, AfterHeal
  <2> HIDE DEF stage
  <2> QED BY <1>4, <1>5, <2>1, <2>2, <2>3, <2>4 DEF Agreed
<1> QED BY <1>1, <1>3, <1>4, <1>5, <1>6, SoundWork DEF Read, Sound, TypeOK

LEMMA SoundHeal ==
    ASSUME Sound, NEW p \in Runner, Heal(p)
    PROVE  Sound'
<1> DEFINE r == run[p].release
           old == ledger[Baseline]
           healed == [sum |-> "v2", text |-> r.text[Baseline],
                      dep |-> IF old.dep = None THEN r.dep[Baseline] ELSE old.dep]
           rows == [ledger EXCEPT ![Baseline] =
                      IF old # None /\ old.sum = "none" THEN healed ELSE old]
           stage == AfterHeal(r, rows)
           x == [run[p] EXCEPT !.stage = stage, !.applied = rows]
<1>1. /\ run[p] \in Run /\ ledger \in LedgerType /\ r \in Release
      /\ Baseline \in Migration
  BY MigrationAssumption DEF Sound, TypeOK, Run
<1>2. ledger' = rows
  BY <1>1 DEF Heal, LedgerType
<1>3. run' = [run EXCEPT ![p] = x]
  BY <1>1, <1>2 DEF Heal, LedgerType
<1>4. /\ run[p].stage = "heal"
      /\ UNCHANGED <<exists, schema, lock>>
  BY DEF Heal
<1>5. \A m \in Migration : ledger[m] # None => Agrees(r, ledger, {Baseline}, m)
  BY <1>1, <1>4, ValidRows DEF Sound, AllAgreed, Agreed
<1>6. \A m \in Migration : m # Baseline => rows[m] = ledger[m]
  BY <1>1 DEF LedgerType
<1>7. /\ rows[Baseline] = IF old # None /\ old.sum = "none" THEN healed ELSE old
      /\ rows \in [Migration -> {healed} \cup Row \cup {None}]
  BY <1>1 DEF LedgerType
<1>8. old # None /\ old.sum = "none" => healed \in Row
  BY <1>1, <1>5, RecordedRow, ReleaseType DEF Agrees, Row
<1>9. rows \in LedgerType
  <2>1. \A m \in Migration : rows[m] \in Row \cup {None}
    BY <1>1, <1>6, <1>7, <1>8 DEF LedgerType
  <2> QED BY <1>7, <2>1 DEF LedgerType
<1>10. \A m \in Migration : rows[m] # None <=> ledger[m] # None
  <2>1. rows[Baseline] # None <=> ledger[Baseline] # None
    BY <1>7, <1>8, MigrationAssumption
  <2> QED BY <1>6, <2>1
<1>11. rows[Baseline] # None => rows[Baseline].sum # "none"
  BY <1>7
<1> HIDE DEF rows
<1>12. ASSUME NEW m \in Migration, rows[m] # None
       PROVE  Agrees(r, rows, {Baseline}, m)
  <2>1. Agrees(r, ledger, {Baseline}, m)
    BY <1>5, <1>10, <1>12
  <2>2. m \in Known(r) /\ \A k \in Known(r) : k < m => rows[k] # None
    BY <2>1, <1>10 DEF Agrees, Known
  <2>3. CASE rows[m] = ledger[m]
    BY <2>1, <2>2, <2>3 DEF Agrees, Legacy, Current
  <2>4. CASE rows[m] # ledger[m]
    <3>1. m = Baseline /\ rows[m] = healed
      BY <2>4, <1>6, <1>7
    <3>2. Current(r, rows, m)
      BY <3>1 DEF Current
    <3> QED BY <3>2, <2>2 DEF Agrees
  <2> QED BY <2>3, <2>4
<1>13. Valid(r, rows, {Baseline})
  BY <1>9, <1>12, ValidRows
<1>14. LedgerIsTruthful'
  BY <1>2, <1>4, <1>6, <1>10 DEF Sound, LedgerIsTruthful
<1>15. stage \in {"rebaseline", "apply"}
  BY DEF AfterHeal
<1>16. stage = "apply" => NeedsRebaseline(r, rows) = {}
  BY DEF AfterHeal
<1> HIDE DEF stage
<1>17. x \in Run /\ x.stage \in Working /\ run[p].stage \in Working
  BY <1>1, <1>4, <1>9, <1>15 DEF Run, Working
<1>18. /\ run'[p] = x
       /\ x.applied = rows /\ x.release = r /\ x.stage = stage
  BY <1>1, <1>3 DEF Run, Sound, TypeOK
<1>19. Agreed(p)'
  BY <1>2, <1>11, <1>13, <1>15, <1>16, <1>18 DEF Agreed
<1> HIDE DEF x
<1> QED BY <1>2, <1>3, <1>4, <1>9, <1>14, <1>17, <1>19, SoundWork
        DEF Sound, TypeOK

LEMMA SoundRebaseline ==
    ASSUME Sound, NEW p \in Runner, Rebaseline(p)
    PROVE  Sound'
<1> DEFINE r == run[p].release
           rows == [m \in Migration |->
                      IF /\ m \in NeedsRebaseline(r, run[p].applied)
                         /\ ledger[m] # None
                         /\ Legacy(r, ledger, m)
                      THEN [ledger[m] EXCEPT !.sum = "v2", !.text = r.text[m]]
                      ELSE ledger[m]]
           x == [run[p] EXCEPT !.stage = "apply", !.applied = rows]
<1>1. /\ run[p] \in Run /\ ledger \in LedgerType /\ r \in Release
      /\ Baseline \in Migration
  BY MigrationAssumption DEF Sound, TypeOK, Run
<1>2. ledger' = rows /\ run[p].stage = "rebaseline" /\ UNCHANGED <<exists, schema>>
  BY DEF Rebaseline
<1>3. run[p].applied = ledger
  BY <1>2 DEF Sound, AllAgreed, Agreed
<1>4. ASSUME NEW m \in Migration, ledger[m] # None
      PROVE  Agrees(r, ledger, {Baseline}, m) /\ ledger[m].sum # "none"
  <2>1. Agrees(r, ledger, {Baseline}, m)
    BY <1>1, <1>2, <1>4, ValidRows DEF Sound, AllAgreed, Agreed
  <2>2. ledger[Baseline] # None => ledger[Baseline].sum # "none"
    BY <1>2 DEF Sound, AllAgreed, Agreed
  <2>3. CASE m = Baseline
    BY <2>1, <2>2, <2>3, <1>4
  <2>4. CASE m # Baseline
    BY <2>1, <2>4 DEF Agrees, Legacy, Current
  <2> QED BY <2>3, <2>4
<1>5. ASSUME NEW m \in Migration, ledger[m] = None
      PROVE  rows[m] = None
  BY <1>5
<1>6. ASSUME NEW m \in Migration, ledger[m] # None
      PROVE  /\ rows[m] \in Row /\ rows[m].sum = "v2"
             /\ rows[m].text = r.text[m] /\ rows[m].text = ledger[m].text
  <2>1. ledger[m] \in Row /\ m \in Known(r) /\ r.text[m] \in Text
    BY <1>1, <1>4, <1>6, RecordedRow, ReleaseType DEF Agrees
  <2>2. CASE Legacy(r, ledger, m)
    <3>1. m \in NeedsRebaseline(r, run[p].applied)
      BY <1>3, <1>6, <2>1, <2>2 DEF NeedsRebaseline, Recorded
    <3>2. rows[m] = [ledger[m] EXCEPT !.sum = "v2", !.text = r.text[m]]
      BY <1>6, <2>2, <3>1
    <3> HIDE DEF rows
    <3> QED BY <2>1, <2>2, <3>2 DEF Row, Legacy
  <2>3. CASE ~Legacy(r, ledger, m)
    <3>1. rows[m] = ledger[m]
      BY <2>3
    <3>2. Current(r, ledger, m)
      BY <1>4, <1>6, <2>3 DEF Agrees
    <3> HIDE DEF rows
    <3> QED BY <2>1, <3>1, <3>2 DEF Current
  <2> QED BY <2>2, <2>3
<1>7. rows \in LedgerType
  <2>1. \A m \in Migration : rows[m] \in Row \cup {None}
    BY <1>5, <1>6
  <2> QED BY <2>1 DEF LedgerType
<1> HIDE DEF rows
<1>8. ASSUME NEW m \in Migration
      PROVE  ledger[m] = None <=> rows[m] = None
  BY <1>5, <1>6, MigrationAssumption
<1>9. ASSUME NEW m \in Migration, rows[m] # None
      PROVE  Agrees(r, rows, {Baseline}, m)
  <2>1. Current(r, rows, m)
    BY <1>6, <1>8, <1>9 DEF Current
  <2>2. m \in Known(r) /\ \A k \in Known(r) : k < m => rows[k] # None
    BY <1>4, <1>8, <1>9 DEF Agrees, Known
  <2> QED BY <2>1, <2>2 DEF Agrees
<1>10. Valid(r, rows, {Baseline})
  BY <1>7, <1>9, ValidRows
<1>11. run' = [run EXCEPT ![p] = x] /\ UNCHANGED lock
  BY <1>10 DEF Rebaseline, rows
<1>12. NeedsRebaseline(r, rows) = {}
  BY <1>6, <1>8 DEF NeedsRebaseline, Legacy, Recorded
<1>13. rows[Baseline] # None => rows[Baseline].sum # "none"
  BY <1>1, <1>6, <1>8
<1>14. LedgerIsTruthful'
  BY <1>2, <1>6, <1>8 DEF Sound, LedgerIsTruthful
<1>15. x \in Run /\ x.stage \in Working /\ run[p].stage \in Working
  BY <1>1, <1>2, <1>7 DEF Run, Working
<1>16. /\ run'[p] = x
       /\ x.applied = rows /\ x.release = r /\ x.stage = "apply"
  BY <1>1, <1>11 DEF Run, Sound, TypeOK
<1>17. Agreed(p)'
  BY <1>2, <1>10, <1>12, <1>13, <1>16 DEF Agreed
<1> HIDE DEF x
<1> QED BY <1>2, <1>7, <1>11, <1>14, <1>15, <1>17, SoundWork DEF Sound, TypeOK

\* What ApplyNext finds: every row is in its present form and agrees with the
\* release, and nothing after the next migration is there.
LEMMA BeforeApply ==
    ASSUME Sound, NEW p \in Runner, run[p].stage = "apply",
           NEW n \in Todo(run[p]), \A k \in Todo(run[p]) : n =< k
    PROVE  /\ n \in Known(run[p].release)
           /\ ledger[n] = None
           /\ \A m \in Migration : ledger[m] # None =>
                 /\ m \in Known(run[p].release)
                 /\ Current(run[p].release, ledger, m)
                 /\ ~(n < m)
                 /\ \A k \in Known(run[p].release) : k < m => ledger[k] # None
<1> DEFINE r == run[p].release
<1>1. /\ run[p] \in Run /\ ledger \in LedgerType
      /\ Baseline \in Migration /\ Migration \subseteq Nat
  BY MigrationAssumption DEF Sound, TypeOK
<1>2. /\ run[p].applied = ledger
      /\ Valid(r, ledger, {Baseline})
      /\ ledger[Baseline] # None => ledger[Baseline].sum # "none"
      /\ NeedsRebaseline(r, ledger) = {}
  BY DEF Sound, AllAgreed, Agreed
<1>3. n \in Known(r) /\ n \in Migration /\ ledger[n] = None
  BY <1>2 DEF Todo, Known
<1>4. ASSUME NEW m \in Migration, ledger[m] # None
      PROVE  /\ m \in Known(r)
             /\ Current(r, ledger, m)
             /\ ~(n < m)
             /\ \A k \in Known(r) : k < m => ledger[k] # None
  <2>1. Agrees(r, ledger, {Baseline}, m)
    BY <1>1, <1>2, <1>4, ValidRows
  <2>2. ~Legacy(r, ledger, m)
    BY <1>2, <1>4, <2>1 DEF NeedsRebaseline, Recorded, Agrees
  <2>3. Current(r, ledger, m)
    BY <1>2, <1>4, <2>1, <2>2 DEF Agrees
  <2>4. ~(n < m)
    BY <1>3, <2>1 DEF Agrees
  <2> QED BY <2>1, <2>3, <2>4 DEF Agrees
<1> QED BY <1>3, <1>4

LEMMA SoundApplyNext ==
    ASSUME Sound, NEW p \in Runner, ApplyNext(p)
    PROVE  Sound'
<1> DEFINE r == run[p].release
<1>1. /\ run[p] \in Run /\ ledger \in LedgerType /\ r \in Release
      /\ Baseline \in Migration /\ Migration \subseteq Nat
  BY MigrationAssumption DEF Sound, TypeOK, Run
<1>2. PICK n \in Todo(run[p]) :
        LET row == [sum |-> "v2", text |-> r.text[n], dep |-> r.dep[n]] IN
        /\ \A k \in Todo(run[p]) : n =< k
        /\ ledger[n] = None
        /\ schema' = [schema EXCEPT ![n] = row.text]
        /\ ledger' = [ledger EXCEPT ![n] = row]
        /\ run' = [run EXCEPT ![p].applied[n] = row]
  BY DEF ApplyNext
<1> DEFINE row == [sum |-> "v2", text |-> r.text[n], dep |-> r.dep[n]]
           rows == [ledger EXCEPT ![n] = row]
           x == [run[p] EXCEPT !.applied = rows]
<1>3. /\ run[p].stage = "apply" /\ run[p].applied = ledger
      /\ UNCHANGED <<exists, lock>>
  BY DEF ApplyNext, Sound, AllAgreed, Agreed
<1>4. n \in Known(r) /\ n \in Migration /\ n =< run[p].to
  BY DEF Todo, Known
<1>5. r.text[n] \in Text /\ row \in Row /\ row # None
  BY <1>1, <1>4, ReleaseType, MigrationAssumption DEF Row
<1>6. schema' = [schema EXCEPT ![n] = r.text[n]] /\ ledger' = rows
  BY <1>2
<1>7. run' = [run EXCEPT ![p] = x]
  BY <1>1, <1>2, <1>3
<1>8. rows \in LedgerType /\ schema' \in [Migration -> Text \cup {None}]
  BY <1>1, <1>4, <1>5, <1>6 DEF LedgerType, Sound, TypeOK
<1>9. /\ rows[n] = row
      /\ \A m \in Migration : m # n => rows[m] = ledger[m]
  BY <1>1, <1>4 DEF LedgerType
<1>10. LedgerIsTruthful'
  <2>1. /\ schema'[n] = r.text[n] /\ schema'[n] # None
        /\ \A m \in Migration : m # n => schema'[m] = schema[m]
    BY <1>4, <1>5, <1>6, MigrationAssumption DEF Sound, TypeOK
  <2>2. row.text = r.text[n]
    OBVIOUS
  <2> HIDE DEF row, rows
  <2> QED BY <2>1, <2>2, <1>5, <1>6, <1>9 DEF Sound, LedgerIsTruthful
<1>11. \A m \in Migration : ledger[m] # None =>
         /\ m \in Known(r)
         /\ Current(r, ledger, m)
         /\ ~(n < m)
         /\ \A k \in Known(r) : k < m => ledger[k] # None
  BY <1>2, <1>3, BeforeApply
<1>12. row.sum = "v2" /\ row.text = r.text[n]
  OBVIOUS
<1> HIDE DEF row, rows
<1>13. ASSUME NEW m \in Migration, rows[m] # None
       PROVE  Agrees(r, rows, {Baseline}, m) /\ rows[m].sum = "v2"
  <2>1. CASE m = n
    <3>1. ASSUME NEW k \in Known(r), k < n
          PROVE  rows[k] # None
      <4>1. k \in Migration /\ k # n /\ ~(n =< k)
        BY <1>1, <1>4, <3>1 DEF Known
      <4>2. k =< run[p].to
        <5>1. run[p].to \in Nat /\ k \in Nat /\ n \in Nat
          BY <1>1, <1>4, <4>1 DEF Run
        <5> QED BY <5>1, <1>4, <3>1
      <4>3. k \notin Todo(run[p])
        BY <1>2, <4>1
      <4>4. ledger[k] # None
        BY <1>3, <3>1, <4>2, <4>3 DEF Todo
      <4> QED BY <1>9, <4>1, <4>4
    <3>2. Current(r, rows, n)
      BY <1>9, <1>12 DEF Current
    <3> QED BY <2>1, <3>1, <3>2, <1>4, <1>9, <1>12 DEF Agrees
  <2>2. CASE m # n
    <3>1. rows[m] = ledger[m]
      BY <2>2, <1>9
    <3>2. Current(r, rows, m) /\ rows[m].sum = "v2" /\ m \in Known(r)
      BY <1>11, <1>13, <3>1 DEF Current
    <3>3. \A k \in Known(r) : k < m => rows[k] # None
      BY <1>5, <1>9, <1>11, <1>13, <3>1 DEF Known
    <3> QED BY <3>2, <3>3 DEF Agrees
  <2> QED BY <2>1, <2>2
<1>14. Valid(r, rows, {Baseline})
  BY <1>8, <1>13, ValidRows
<1>15. NeedsRebaseline(r, rows) = {}
  BY <1>13 DEF NeedsRebaseline, Legacy, Recorded
<1>16. rows[Baseline] # None => rows[Baseline].sum # "none"
  BY <1>1, <1>13
<1>17. x \in Run /\ x.stage \in Working /\ run[p].stage \in Working
  BY <1>1, <1>3, <1>8 DEF Run, Working
<1>18. /\ run'[p] = x
       /\ x.applied = rows /\ x.release = r /\ x.stage = "apply"
  BY <1>1, <1>3, <1>7 DEF Run, Sound, TypeOK
<1>19. Agreed(p)'
  BY <1>6, <1>14, <1>15, <1>16, <1>18 DEF Agreed
<1> HIDE DEF x
<1> QED BY <1>3, <1>6, <1>7, <1>8, <1>10, <1>17, <1>19, SoundWork
        DEF Sound, TypeOK

LEMMA SoundNext == Sound /\ [Next]_vars => Sound'
<1> SUFFICES ASSUME Sound, [Next]_vars PROVE Sound'
  OBVIOUS
<1>1. CASE UNCHANGED vars
  BY <1>1 DEF vars, Sound, TypeOK, RunnersAreSerialised, LedgerIsTruthful,
              AllAgreed, Agreed
<1>2. ASSUME NEW p \in Runner, Start(p) \/ Acquire(p) \/ Work(p) \/ Crash(p)
      PROVE  Sound'
  <2>1. CASE Reject(p)
    BY <2>1, SoundEnd DEF Reject, Working, Over
  <2>2. CASE Fails(p)
    BY <2>2, SoundEnd DEF Fails, Over
  <2>3. CASE Finish(p)
    BY <2>3, SoundEnd DEF Finish, Working, Over
  <2> QED BY <1>2, <2>1, <2>2, <2>3, SoundStart, SoundAcquire, SoundBootstrap,
             SoundRead, SoundHeal, SoundRebaseline, SoundApplyNext, SoundCrash
          DEF Work
<1> QED BY <1>1, <1>2 DEF Next

LEMMA SoundAlways == Spec => []Sound
BY SoundInit, SoundNext, PTL DEF Spec

-----------------------------------------------------------------------------
(***************************************************************************)
(* The theorems.                                                           *)
(***************************************************************************)

\* Every row of the ledger, every run and the lock keep their types.
THEOREM TypeCorrect == Spec => []TypeOK
<1>1. Sound => TypeOK
  BY DEF Sound
<1> QED BY <1>1, SoundAlways, PTL

\* The advisory lock is held by exactly the run that is between lock and
\* unlock, whoever crashes, fails or is started.
THEOREM OneRunnerAtATime == Spec => []RunnersAreSerialised
<1>1. Sound => RunnersAreSerialised
  BY DEF Sound
<1> QED BY <1>1, SoundAlways, PTL

\* A migration is in the ledger if and only if it took effect, with the text it
\* had then: no crash or failure separates the two.
THEOREM LedgerTellsTheTruth == Spec => []LedgerIsTruthful
<1>1. Sound => LedgerIsTruthful
  BY DEF Sound
<1> QED BY <1>1, SoundAlways, PTL

\* No migration is applied over a ledger that the release disagrees with, read
\* at that moment, although the run looked at it some transactions before.
THEOREM ApplyFailsClosed == Spec => FailsClosed
<1> DEFINE A == \A p \in Runner :
                  ApplyNext(p) =>
                    /\ Recorded(ledger) \subseteq Known(run[p].release)
                    /\ \A m \in Recorded(ledger) :
                         /\ ledger[m].text = run[p].release.text[m]
                         /\ ledger[m].sum = "v2"
<1>1. Sound /\ [Next]_vars => [A]_vars
  <2> SUFFICES ASSUME Sound, NEW p \in Runner, ApplyNext(p)
               PROVE  \A m \in Recorded(ledger) :
                        /\ m \in Known(run[p].release)
                        /\ ledger[m].text = run[p].release.text[m]
                        /\ ledger[m].sum = "v2"
    BY DEF vars
  <2>1. run[p].stage = "apply"
    BY DEF ApplyNext
  <2>2. PICK n \in Todo(run[p]) : \A k \in Todo(run[p]) : n =< k
    BY DEF ApplyNext
  <2> QED BY <2>1, <2>2, BeforeApply DEF Current, Recorded
<1> QED BY <1>1, SoundAlways, PTL DEF Spec, FailsClosed

\* The refinement: the runtime applies each migration once, as a whole, and
\* never after a later one.
THEOREM RuntimeImplementsEvolution == Spec => EvolvesInOrder
<1>1. Sound => Evolution!Init
  BY DEF Sound, TypeOK, Evolution!Init
<1>2. Sound /\ [Next]_vars => [Evolution!Next]_schema
  <2> SUFFICES ASSUME Sound, Next PROVE Evolution!Next \/ UNCHANGED schema
    BY DEF vars
  <2>1. PICK p \in Runner : Start(p) \/ Acquire(p) \/ Work(p) \/ Crash(p)
    BY DEF Next
  <2>2. CASE ApplyNext(p)
    <3>1. PICK n \in Todo(run[p]) :
            /\ \A k \in Todo(run[p]) : n =< k
            /\ schema' = [schema EXCEPT ![n] = run[p].release.text[n]]
      BY <2>2 DEF ApplyNext
    <3>2. /\ run[p].stage = "apply" /\ run[p].release \in Release
          /\ ledger \in LedgerType
      BY <2>2 DEF ApplyNext, Sound, TypeOK, Run
    <3>3. /\ n \in Known(run[p].release) /\ ledger[n] = None
          /\ \A m \in Migration : ledger[m] # None => ~(n < m)
      BY <3>1, <3>2, BeforeApply
    <3>4. n \in Migration /\ run[p].release.text[n] \in Text
      BY <3>2, <3>3, ReleaseType
    <3>5. /\ schema[n] = None
          /\ \A later \in Migration : later > n => schema[later] = None
      BY <3>3, <3>4, MigrationAssumption DEF Sound, LedgerIsTruthful
    <3>6. Evolution!Apply(n, run[p].release.text[n])
      BY <3>1, <3>5 DEF Evolution!Apply
    <3> QED BY <3>4, <3>6 DEF Evolution!Next
  <2>3. CASE ~ApplyNext(p)
    <3>1. UNCHANGED schema
      BY <2>1, <2>3 DEF Work, Start, Acquire, Bootstrap, Read, Reject, Heal,
                        Rebaseline, Fails, Finish, Crash
    <3> QED BY <3>1
  <2> QED BY <2>2, <2>3
<1> QED BY <1>1, <1>2, SoundAlways, PTL DEF Spec, EvolvesInOrder, Evolution!Spec

\* Whoever migrates, a row of the ledger stays: it only ever gets a checksum of
\* the present form, for the text that a checksum it already had stood for.
THEOREM HealingIsConservative == Spec => RowsAreOnlyHealed
<1> DEFINE A == \A m \in Migration :
                  ledger[m] # None /\ ledger'[m] # ledger[m] =>
                    /\ ledger'[m] # None
                    /\ ledger[m].sum # "v2"
                    /\ ledger'[m].sum = "v2"
                    /\ ledger[m].sum = "legacy" => ledger'[m].text = ledger[m].text
<1>1. Sound /\ [Next]_vars => [A]_vars
  <2> SUFFICES ASSUME Sound, Next, NEW m \in Migration,
                      ledger[m] # None, ledger'[m] # ledger[m]
               PROVE  /\ ledger'[m] # None
                      /\ ledger[m].sum # "v2"
                      /\ ledger'[m].sum = "v2"
                      /\ ledger[m].sum = "legacy" => ledger'[m].text = ledger[m].text
    BY DEF vars
  <2>1. PICK p \in Runner : Start(p) \/ Acquire(p) \/ Work(p) \/ Crash(p)
    BY DEF Next
  <2>2. ledger \in LedgerType /\ LedgerIsTruthful' /\ LedgerIsTruthful
    BY SoundNext DEF Sound, TypeOK, vars
  <2>3. schema' = schema => ledger'[m] # None
    BY <2>2 DEF LedgerIsTruthful
  <2>4. CASE Heal(p)
    <3>1. UNCHANGED schema
      BY <2>4 DEF Heal
    <3>2. m = Baseline /\ ledger[m].sum = "none" /\ ledger'[m].sum = "v2"
      BY <2>2, <2>4 DEF Heal, LedgerType
    <3> QED BY <2>3, <3>1, <3>2
  <2>5. CASE Rebaseline(p)
    <3>1. UNCHANGED schema
      BY <2>5 DEF Rebaseline
    <3>2. /\ Legacy(run[p].release, ledger, m)
          /\ ledger'[m] = [ledger[m] EXCEPT !.sum = "v2",
                                            !.text = run[p].release.text[m]]
      BY <2>5 DEF Rebaseline
    <3>3. ledger[m] \in Row
      BY <2>2, RecordedRow
    <3> QED BY <2>3, <3>1, <3>2, <3>3 DEF Legacy, Row
  <2>6. CASE ApplyNext(p)
    BY <2>2, <2>6 DEF ApplyNext, LedgerType
  <2>7. CASE ~(Heal(p) \/ Rebaseline(p) \/ ApplyNext(p))
    <3>1. UNCHANGED ledger
      BY <2>1, <2>7 DEF Work, Start, Acquire, Bootstrap, Read, Reject, Fails,
                        Finish, Crash
    <3> QED BY <3>1
  <2> QED BY <2>4, <2>5, <2>6, <2>7
<1> QED BY <1>1, SoundAlways, PTL DEF Spec, RowsAreOnlyHealed

\* A run that ends well leaves everything up to its target applied, with the
\* text of its release.
THEOREM DoneRunsAppliedAll == Spec => DoneMeansApplied
<1> DEFINE A == \A p \in Runner :
                  run[p].stage # "done" /\ run'[p].stage = "done" =>
                    \A m \in Known(run[p].release) :
                      m =< run[p].to =>
                        /\ ledger[m] # None
                        /\ ledger[m].text = run[p].release.text[m]
<1>1. Sound /\ [Next]_vars => [A]_vars
  <2> SUFFICES ASSUME Sound, Next, NEW p \in Runner,
                      run[p].stage # "done", run'[p].stage = "done",
                      NEW m \in Known(run[p].release), m =< run[p].to
               PROVE  /\ ledger[m] # None
                      /\ ledger[m].text = run[p].release.text[m]
    BY DEF vars
  <2>1. PICK q \in Runner : Start(q) \/ Acquire(q) \/ Work(q) \/ Crash(q)
    BY DEF Next
  <2>2. run \in [Runner -> Run] /\ ledger \in LedgerType
    BY DEF Sound, TypeOK
  <2>3. Finish(q) /\ q = p
    <3>1. q = p
      BY <2>1, <2>2 DEF Work, Start, Acquire, Bootstrap, Read, Reject, Heal,
                        Rebaseline, ApplyNext, Fails, Finish, Crash, End
    <3>2. run[p] \in Run
      BY <2>2
    <3>3. AfterRead(run[p].release, ledger) # "done"
      BY DEF AfterRead, AfterHeal
    <3>4. \A rows : AfterHeal(run[p].release, rows) # "done"
      BY DEF AfterHeal
    <3>5. Start(p) => run'[p].stage = "waiting"
      BY <2>2 DEF Start
    <3>6. /\ Acquire(p) => run'[p].stage = "bootstrap"
          /\ Bootstrap(p) => run'[p].stage = "read"
      <4>1. Acquire(p) => run'[p].stage = "bootstrap"
        BY <2>2, <3>2 DEF Acquire, Run
      <4>2. Bootstrap(p) => run'[p].stage = "read"
        BY <2>2, <3>2 DEF Bootstrap, Run
      <4> QED BY <4>1, <4>2
    <3>11. ASSUME NEW outcome, End(p, outcome) PROVE run'[p].stage = outcome
      BY <2>2, <3>2, <3>11 DEF End, Run
    <3>12. Reject(p) \/ Fails(p) => run'[p].stage = "failed"
      BY <3>11 DEF Reject, Fails
    <3>13. Crash(p) => run'[p].stage = "idle"
      BY <2>2, <3>2 DEF Crash, Run
    <3>7. CASE Read(p)
      BY <2>2, <3>3, <3>7 DEF Read
    <3>8. CASE Heal(p)
      BY <2>2, <3>4, <3>8 DEF Heal
    <3>9. ASSUME Rebaseline(p) PROVE run'[p].stage \in {"apply", "failed"}
      <4>1. CASE End(p, "failed")
        BY <3>11, <4>1
      <4>2. CASE ~End(p, "failed")
        BY <2>2, <3>2, <3>9, <4>2 DEF Rebaseline, Run
      <4> QED BY <4>1, <4>2
    <3>10. CASE ApplyNext(p)
      BY <2>2, <3>10 DEF ApplyNext
    <3> QED BY <2>1, <3>1, <3>5, <3>6, <3>7, <3>8, <3>9, <3>10, <3>12, <3>13
           DEF Work
  <2>4. /\ run[p].stage = "apply" /\ Todo(run[p]) = {}
        /\ Valid(run[p].release, ledger, {})
    BY <2>3 DEF Finish
  <2>5. run[p].applied = ledger /\ NeedsRebaseline(run[p].release, ledger) = {}
    BY <2>4 DEF Sound, AllAgreed, Agreed
  <2>6. m \in Migration /\ ledger[m] # None
    BY <2>4, <2>5 DEF Todo, Known
  <2>7. Agrees(run[p].release, ledger, {}, m)
    BY <2>2, <2>4, <2>6, ValidRows
  <2> QED BY <2>6, <2>7 DEF Agrees, Legacy, Current
<1> QED BY <1>1, SoundAlways, PTL DEF Spec, DoneMeansApplied

=============================================================================
