---------------------------- MODULE WorkSummary ----------------------------
(***************************************************************************)
(* The totals and the anomalies of a work day: one pass over its entries,  *)
(* ordered by their beginning (work-time-status.js), whatever corrections  *)
(* and the delta sync, which checks no times, have made of them            *)
(* (work-time.routes.js, sync.routes.js).                                  *)
(***************************************************************************)
EXTENDS Naturals, FiniteSets, SequencesExt

CONSTANTS Open,                \* no end_time
          WorkStatuses,
          Long, Ahead,         \* 14 hours, 5 minutes
          MaxMoment, MaxEntries  \* bounds

ASSUME MomentsAreBounded == MaxMoment \in Nat

VARIABLES entries, \* of the day, as SELECT ... ORDER BY start_time returns them
          instant  \* now

summaryVars == <<entries, instant>>

Clock == 0..MaxMoment
Entry == [status : WorkStatuses, start : Clock, end : Clock \cup {Open}]

SummaryTypeOK ==
    /\ entries \in Seq(Entry) /\ instant \in Clock
    /\ \A i, j \in DOMAIN entries : i < j => entries[i].start <= entries[j].start

Active(status) == status # "OFFLINE"
EndOf(e) == IF e.end = Open THEN instant ELSE e.end
Counts(e) == EndOf(e) > e.start

NoTime == [status \in WorkStatuses |-> 0]
Nothing == [ms |-> NoTime, totalMs |-> 0, previousEnd |-> 0, anomalies |-> {}]

Flag(condition, anomaly) == IF condition THEN {anomaly} ELSE {}
SkipEntryAfterItsEnd(s, e) == [s EXCEPT !.anomalies = @ \cup {"INVALID_DURATION"}, !.previousEnd = EndOf(e)]
SkipEntry(s, e) == [s EXCEPT !.anomalies = @ \cup {"INVALID_DURATION"}]
AddEntry(s, e) ==
    LET ms == EndOf(e) - e.start IN
    [ms |-> [s.ms EXCEPT ![e.status] = @ + ms],
     totalMs |-> s.totalMs + IF Active(e.status) THEN ms ELSE 0,
     previousEnd |-> EndOf(e),
     anomalies |-> s.anomalies \cup Flag(e.start < s.previousEnd, "OVERLAP")
                               \cup Flag(ms > Long, "LONG_SEGMENT")
                               \cup Flag(e.start > instant + Ahead, "FUTURE_TIME")]
\* The summary after each entry
summary[n \in 0..Len(entries)] ==
    IF n = 0 THEN Nothing
    ELSE LET e == entries[n] IN IF Counts(e) THEN AddEntry(summary[n - 1], e) ELSE SkipEntry(summary[n - 1], e)
summarizeEntries == summary[Len(entries)]

\* An entry comes to the day with any times; rows that begin together come in any order.
ChangeEntries ==
    /\ Len(entries) < MaxEntries
    /\ \E e \in Entry, i \in 1..(Len(entries) + 1) :
          /\ \A j \in DOMAIN entries : IF j < i THEN entries[j].start <= e.start ELSE e.start <= entries[j].start
          /\ entries' = InsertAt(entries, i, e)
    /\ UNCHANGED instant
MomentPasses == instant < MaxMoment /\ instant' = instant + 1 /\ UNCHANGED entries

SummaryInit == entries = <<>> /\ instant = 0
SummaryNext == ChangeEntries \/ MomentPasses
SummarySpec == SummaryInit /\ [][SummaryNext]_summaryVars

Counted == {i \in DOMAIN entries : Counts(entries[i])}
Moments(i) == entries[i].start..(EndOf(entries[i]) - 1)

(* Comparing each entry with the end of the one before finds every overlap, even
   with one further back, and reports none that is not there; a day without one
   has each moment in its totals once, and with one it has more than passed
   (work-time-status.js 108-130). *)
TotalsCountEachMomentOnce ==
    LET s == summarizeEntries
        time(S) == UNION {Moments(i) : i \in S}
        active == {i \in Counted : Active(entries[i].status)}
    IN
    /\ "OVERLAP" \in s.anomalies <=> \E i, j \in Counted : i # j /\ Moments(i) \cap Moments(j) # {}
    /\ "OVERLAP" \notin s.anomalies =>
          /\ s.totalMs = Cardinality(time(active))
          /\ \A status \in WorkStatuses :
                s.ms[status] = Cardinality(time({i \in Counted : entries[i].status = status}))
    /\ s.totalMs >= Cardinality(time(active))

=============================================================================
