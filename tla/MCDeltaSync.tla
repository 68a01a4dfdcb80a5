----------------------------- MODULE MCDeltaSync -----------------------------
(* An instance of DeltaSync for TLC: two days and an entry, a period of
   work_times that the phone has too, and a day of another driver. *)
EXTENDS DeltaSync, TLC

CONSTANTS d1, d2, f1, e1, w1

Row(rev, parent) == [rev |-> rev, edit |-> 0, stamped |-> rev > 0, parent |-> parent, locked |-> FALSE]
Rec(r, base, edit, parent) == [row |-> r, base |-> base, edit |-> edit, parent |-> parent]

Committed(d, f, e, w) == (d1 :> d) @@ (d2 :> f) @@ (f1 :> Row(1, None)) @@ (e1 :> e) @@ (w1 :> w)

\* The day and its entry in either order, the day named or not, the revision
\* sent or not; a day of another driver in the batch.
DayBatches == {<<Rec(d1, 1, 11, None), Rec(e1, 1, 11, d1)>>, <<Rec(e1, 0, 12, d1), Rec(d1, 2, 12, None)>>,
               <<Rec(e1, 0, 13, None), Rec(f1, 0, 13, None)>>}
OfDays == {[row |-> Committed(Row(1, None), Row(0, None), e, Row(0, None)),
            batches |-> DayBatches, pushes |-> 3, edits |-> 0, syncs |-> 0, office |-> 2, others |-> 0] :
           e \in {Row(0, None), Row(1, d1)}}

\* A new entry that is sent as part of one day, of another, or of none.
OfEntries == [row |-> Committed(Row(1, None), Row(1, None), Row(0, None), Row(0, None)),
              batches |-> {<<Rec(e1, 2, 15, d1)>>, <<Rec(e1, 0, 16, d2)>>, <<Rec(e1, 0, 17, None)>>},
              pushes |-> 3, edits |-> 0, syncs |-> 0, office |-> 1, others |-> 0]

\* The period, on the server or not, and another client that edits it.
OfPhone ==
          {[row |-> Committed(Row(0, None), Row(0, None), Row(0, None), w),
            batches |-> {<<Rec(w1, 1, 14, None)>>}, pushes |-> 3, edits |-> 2, syncs |-> 1, office |-> 0, others |-> 1] :
           w \in {Row(0, None), Row(1, None)}}

Scenes == OfDays \cup {OfEntries} \cup OfPhone

ASSUME OtherClientsNameRevisions
=============================================================================
