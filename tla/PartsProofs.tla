---------------------------- MODULE PartsProofs ----------------------------
(***************************************************************************)
(* The properties of the parts that share no state with another one, each  *)
(* for any number of requests, rows and clients of its own.                *)
(***************************************************************************)
EXTENDS Parts, PhoneProofs, FiniteSetTheorems, WellFoundedInduction, TLAPS

-----------------------------------------------------------------------------
(* HotelBooking: TerminalStatusStands and EventsTellTheStatus, whatever the
   requests, taps and uploads, as long as nothing else writes the status and no
   two of them overlap. *)

\* The types that the order of the steps needs.
HotelTypes ==
    /\ queue \subseteq Events /\ \A s \in Slots : req[s].step # "idle" => req[s].event \in Events
    /\ req = [s \in Slots |-> req[s]] /\ time \in Nat
    /\ hotel \in [status : Status, at : Nat, gone : BOOLEAN]

\* One request at a time, none of them an override; the one that was let through
\* found a status that is not terminal, and nothing has changed it since.
Guarded ==
    /\ \A s, o \in Slots : req[s] # Idle /\ req[o] # Idle => s = o
    /\ \A s \in Slots : req[s].step \in {"owned", "checked"} => ~req[s].event.override
    /\ \A s \in Slots : req[s].step = "checked" => hotel.status \notin Terminal
    /\ final = None => hotel.status \notin Terminal
    /\ final # None => final \in Terminal /\ hotel.status = final

\* The inductive invariant of TerminalStatusStands.
HotelInv == HotelTypes /\ ("unguarded" \notin odd => Guarded)

-----------------------------------------------------------------------------
(* A hotel begins as planned, without a request (hotel.routes.js 111-125). *)
LEMMA InitHotelInv == HotelInit => HotelInv
  BY DEF HotelInit, HotelInv, HotelTypes, Guarded, Status, Terminal, Idle

(* A write that is not of the status endpoints leaves the status as it was, or
   is unguarded (hotel.routes.js 48-87). *)
LEMMA PutHotelInv ==
  ASSUME HotelInv, NEW new \in [status : Status, at : Nat, gone : BOOLEAN], Put(new)
  PROVE  HotelInv'
<1>1. HotelTypes'
  BY DEF HotelInv, HotelTypes, Put
<1>2. ASSUME "unguarded" \notin odd' PROVE Guarded'
  <2>1. "unguarded" \notin odd /\ new.status = hotel.status
    BY <1>2 DEF Put, Both
  <2>2. final' = final
    BY <2>1 DEF HotelInv, Guarded, Put, Final
  <2> QED
    BY <2>1, <2>2 DEF HotelInv, Guarded, Put
<1> QED
  BY <1>1, <1>2 DEF HotelInv

(* Every step of a request, of the phone and of the office (hotel-engine.js
   27-72, hotel.routes.js 146-351). *)
LEMMA NextHotelInv ==
  ASSUME HotelInv, [HotelNext]_hotelVars
  PROVE  HotelInv'
<1> USE DEF HotelInv, HotelTypes, Guarded
<1>1. ASSUME NEW s \in Slots, NEW e \in queue, Ask(s, e) PROVE HotelInv'
  <2>1. HotelTypes'
    BY <1>1 DEF Ask
  <2>2. ASSUME "unguarded" \notin odd' PROVE Guarded'
    <3>1. "unguarded" \notin odd /\ ~e.override /\ \A o \in Slots : req[o] = Idle
      BY <1>1, <2>2 DEF Ask, Both
    <3>2. \A o \in Slots \ {s} : req'[o] = Idle
      BY <1>1, <3>1 DEF Ask
    <3>3. req'[s].step = "owned" /\ req'[s].event = e
      BY <1>1 DEF Ask
    <3>4. hotel' = hotel /\ final' = final
      BY <1>1 DEF Ask
    <3> QED
      BY <3>1, <3>2, <3>3, <3>4 DEF Idle
  <2> QED
    BY <2>1, <2>2
<1>2. ASSUME NEW s \in Slots, Check(s) PROVE HotelInv'
  <2>1. HotelTypes'
    <3>1. UNCHANGED <<hotel, queue, time>> /\ req' = [o \in Slots |-> req'[o]]
      BY <1>2 DEF Check
    <3>2. req'[s].step = "idle" \/ req'[s].event = req[s].event
      BY <1>2 DEF Check, Idle
    <3>3. req[s].event \in Events /\ \A o \in Slots \ {s} : req'[o] = req[o]
      BY <1>2 DEF Check
    <3> QED
      BY <3>1, <3>2, <3>3
  <2>2. ASSUME "unguarded" \notin odd' PROVE Guarded'
    <3>1. "unguarded" \notin odd /\ hotel' = hotel /\ final' = final
      BY <1>2, <2>2 DEF Check
    <3>2. req[s] # Idle /\ \A o \in Slots \ {s} : req'[o] = req[o]
      BY <1>2 DEF Check, Idle
    <3>3. \A o \in Slots \ {s} : req'[o] = Idle
      BY <3>1, <3>2
    <3>4. \/ req'[s].step \in {"idle", "answer"}
          \/ req'[s].step = "checked" /\ req'[s].event = req[s].event /\ ~Refused(req[s].event)
      BY <1>2 DEF Check, Idle
    <3>5. req'[s].step = "checked" => ~req'[s].event.override /\ hotel.status \notin Terminal
      BY <1>2, <3>1, <3>4 DEF Check, Refused, RefusedBlankOverride
    <3> QED
      BY <3>1, <3>3, <3>4, <3>5 DEF Idle
  <2> QED
    BY <2>1, <2>2
<1>3. ASSUME NEW s \in Slots, Write(s) PROVE HotelInv'
  <2> DEFINE to == req[s].event.to
  <2>0. to \in Status
    BY <1>3, HotelAssumption DEF Write
  <2>1. HotelTypes'
    <3>1. hotel' \in [status : Status, at : Nat, gone : BOOLEAN]
      BY <1>3, <2>0 DEF Write
    <3> QED
      BY <1>3, <3>1 DEF Write
  <2>2. ASSUME "unguarded" \notin odd' PROVE Guarded'
    <3>1. "unguarded" \notin odd /\ final = None
      BY <1>3, <2>2 DEF Write
    <3>2. hotel'.status = to /\ final' = Final(to)
      BY <1>3 DEF Write
    <3>3. req[s] # Idle /\ req'[s].step = "written" /\ \A o \in Slots \ {s} : req'[o] = req[o]
      BY <1>3 DEF Write, Idle
    <3>4. \A o \in Slots \ {s} : req'[o] = Idle
      BY <3>1, <3>3
    <3> QED
      BY <2>0, <3>1, <3>2, <3>3, <3>4, HotelAssumption DEF Idle, Final
  <2> QED
    BY <2>1, <2>2
<1>4. ASSUME NEW s \in Slots, Log(s) \/ LogFails(s) \/ Answer(s) \/ AnswerLost(s) PROVE HotelInv'
  <2>1. HotelTypes'
    BY <1>4 DEF Log, LogFails, Answer, AnswerLost, Idle
  <2>2. ASSUME "unguarded" \notin odd' PROVE Guarded'
    <3>1. "unguarded" \notin odd /\ hotel' = hotel /\ final' = final
      BY <1>4, <2>2 DEF Log, LogFails, Answer, AnswerLost
    <3>2. req[s] # Idle /\ req'[s].step \in {"idle", "answer"} /\ \A o \in Slots \ {s} : req'[o] = req[o]
      BY <1>4 DEF Log, LogFails, Answer, AnswerLost, Idle
    <3>3. \A o \in Slots \ {s} : req'[o] = Idle
      BY <3>1, <3>2
    <3> QED
      BY <3>1, <3>2, <3>3 DEF Idle
  <2> QED
    BY <2>1, <2>2
<1>5. ASSUME NEW e \in Events, Tap(e) PROVE HotelInv'
  BY <1>5 DEF Tap
<1>6. CASE OpenPage
  BY <1>6 DEF OpenPage
<1>7. ASSUME NEW st \in Status, SaveHotelRecord(st) PROVE HotelInv'
  <2>1. [hotel EXCEPT !.status = st, !.at = time] \in [status : Status, at : Nat, gone : BOOLEAN]
    OBVIOUS
  <2> QED
    BY <1>7, <2>1, PutHotelInv DEF SaveHotelRecord
<1>8. CASE Patch
  <2>1. [hotel EXCEPT !.at = time] \in [status : Status, at : Nat, gone : BOOLEAN]
    OBVIOUS
  <2> QED
    BY <1>8, <2>1, PutHotelInv DEF Patch
<1>9. CASE Delete
  <2>1. [hotel EXCEPT !.gone = TRUE] \in [status : Status, at : Nat, gone : BOOLEAN]
    OBVIOUS
  <2> QED
    BY <1>9, <2>1, PutHotelInv DEF Delete
<1>10. ASSUME NEW st \in Status, NEW at \in 0..time, SyncHotels(st, at) PROVE HotelInv'
  <2>1. [hotel EXCEPT !.status = st, !.at = at] \in [status : Status, at : Nat, gone : BOOLEAN]
    <3>1. at \in Nat
      OBVIOUS
    <3> HIDE DEF HotelInv, HotelTypes, Guarded
    <3>2. hotel \in [status : Status, at : Nat, gone : BOOLEAN]
      BY DEF HotelInv, HotelTypes
    <3> QED
      BY <3>1, <3>2
  <2> QED
    BY <1>10, <2>1, PutHotelInv DEF SyncHotels
<1>11. CASE Tick
  BY <1>11 DEF Tick
<1>12. CASE UNCHANGED hotelVars
  BY <1>12 DEF hotelVars
<1> QED
  BY <1>1, <1>2, <1>3, <1>4, <1>5, <1>6, <1>7, <1>8, <1>9, <1>10, <1>11, <1>12 DEF HotelNext

-----------------------------------------------------------------------------
(* A stay that the endpoints checked out or cancelled stays so, however many
   events are sent, late or again, as long as no two of them overlap, none is an
   override and neither the office nor an upload writes a status
   (hotel-engine.js 40-60). *)
THEOREM EndedStaysStayEnded == HotelSpec => []TerminalStatusStands
<1>1. HotelInv => TerminalStatusStands
  BY DEF HotelInv, Guarded, TerminalStatusStands
<1>2. HotelInv /\ [HotelNext]_hotelVars => HotelInv'
  BY NextHotelInv
<1> QED
  BY InitHotelInv, <1>1, <1>2, PTL DEF HotelSpec

-----------------------------------------------------------------------------
\* Only a status that is written and still to be logged is one that no event tells.
Told ==
    /\ \A s, o \in Slots : req[s] # Idle /\ req[o] # Idle => s = o
    /\ \A s \in Slots : req[s].step = "written" => hotel.status = req[s].event.to
    /\ (\A s \in Slots : req[s].step # "written") => told = hotel.status

\* The inductive invariant of EventsTellTheStatus.
Telling == "untold" \notin odd => Told

(* No step but an unlogged one leaves a status untold (hotel-engine.js 27-72,
   hotel.routes.js 146-351). *)
LEMMA NextTelling ==
  ASSUME HotelInv, Telling, [HotelNext]_hotelVars
  PROVE  Telling'
<1> SUFFICES ASSUME "untold" \notin odd' PROVE Told'
  BY DEF Telling
<1> USE DEF Told
<1>1. ASSUME NEW s \in Slots, NEW e \in queue, Ask(s, e) PROVE Told'
  <2>1. "untold" \notin odd /\ \A o \in Slots : req[o] = Idle
    BY <1>1 DEF Ask, Both
  <2>2. req'[s].step = "owned" /\ \A o \in Slots \ {s} : req'[o] = Idle
    BY <1>1, <2>1 DEF Ask, HotelInv, HotelTypes
  <2>3. told = hotel.status /\ UNCHANGED <<told, hotel>>
    BY <1>1, <2>1 DEF Ask, Telling, Idle
  <2> QED
    BY <2>2, <2>3 DEF Idle
<1>2. ASSUME NEW s \in Slots, Check(s) PROVE Told'
  <2>1. Told /\ UNCHANGED <<told, hotel>>
    BY <1>2 DEF Check, Telling
  <2>2. req[s] # Idle /\ req[s].step # "written" /\ \A o \in Slots \ {s} : req'[o] = req[o]
    BY <1>2 DEF Check, Idle, HotelInv, HotelTypes
  <2>3. \A o \in Slots \ {s} : req'[o] = Idle
    BY <2>1, <2>2
  <2>4. req'[s].step # "written"
    BY <1>2 DEF Check, Idle, HotelInv, HotelTypes
  <2>5. \A o \in Slots : req[o].step # "written"
    BY <2>1, <2>2 DEF Idle
  <2> QED
    BY <2>1, <2>3, <2>4, <2>5 DEF Idle
<1>3. ASSUME NEW s \in Slots, Write(s) PROVE Told'
  <2>1. Told /\ req[s] # Idle /\ \A o \in Slots \ {s} : req'[o] = req[o]
    BY <1>3 DEF Write, Telling, Idle, HotelInv, HotelTypes
  <2>2. \A o \in Slots \ {s} : req'[o] = Idle
    BY <2>1
  <2>3. req'[s].step = "written" /\ req'[s].event = req[s].event
    BY <1>3 DEF Write, HotelInv, HotelTypes
  <2>4. hotel'.status = req[s].event.to
    BY <1>3 DEF Write, HotelInv, HotelTypes
  <2> QED
    BY <2>2, <2>3, <2>4 DEF Idle
<1>4. ASSUME NEW s \in Slots, Log(s) PROVE Told'
  <2>1. Told /\ req[s] # Idle /\ \A o \in Slots \ {s} : req'[o] = req[o]
    BY <1>4 DEF Log, Telling, Idle, HotelInv, HotelTypes
  <2>2. \A o \in Slots \ {s} : req'[o] = Idle
    BY <2>1
  <2>3. req'[s].step = "answer" /\ hotel' = hotel
    BY <1>4 DEF Log, HotelInv, HotelTypes
  <2>4. told' = req[s].event.to /\ hotel.status = req[s].event.to
    BY <1>4, <2>1 DEF Log, LoggedStatus
  <2> QED
    BY <2>2, <2>3, <2>4 DEF Idle
<1>5. ASSUME NEW s \in Slots, LogFails(s) PROVE Told'
  BY <1>5 DEF LogFails
<1>6. ASSUME NEW s \in Slots, Answer(s) \/ AnswerLost(s) PROVE Told'
  <2>1. Told /\ req[s] # Idle /\ UNCHANGED <<told, hotel>> /\ \A o \in Slots \ {s} : req'[o] = req[o]
    BY <1>6 DEF Answer, AnswerLost, Telling, Idle, HotelInv, HotelTypes
  <2>2. \A o \in Slots \ {s} : req'[o] = Idle
    BY <2>1
  <2>3. req'[s] = Idle /\ req[s].step # "written"
    BY <1>6 DEF Answer, AnswerLost, HotelInv, HotelTypes
  <2>4. \A o \in Slots : req[o].step # "written"
    BY <2>1, <2>3 DEF Idle
  <2> QED
    BY <2>1, <2>2, <2>3, <2>4 DEF Idle
<1>7. ASSUME NEW new, Put(new) PROVE Told'
  BY <1>7 DEF Put, Both, Telling
<1>8. CASE UNCHANGED <<hotel, req, told, odd>>
  BY <1>8 DEF Telling
<1>9. ASSUME NEW st \in Status, SaveHotelRecord(st) \/ \E at \in 0..time : SyncHotels(st, at) PROVE Told'
  BY <1>7, <1>9 DEF SaveHotelRecord, SyncHotels
<1>10. CASE Patch \/ Delete
  BY <1>7, <1>10 DEF Patch, Delete
<1> QED
  BY <1>1, <1>2, <1>3, <1>4, <1>5, <1>6, <1>8, <1>9, <1>10 DEF HotelNext, Tap, OpenPage, Tick, hotelVars

(* When no status endpoint is at work the last event tells the status, whatever
   is sent, late or again, unless an event was lost or came again, two
   overlapped, or the office or an upload wrote a status (hotel-engine.js 27-72). *)
THEOREM EventsTell == HotelSpec => []EventsTellTheStatus
<1>1. HotelInit => Telling
  BY DEF HotelInit, Telling, Told, Idle
<1>2. Telling => EventsTellTheStatus
  BY DEF Telling, Told, EventsTellTheStatus, Idle
<1>3. HotelInv /\ Telling /\ [HotelNext]_hotelVars => HotelInv' /\ Telling'
  BY NextHotelInv, NextTelling
<1> QED
  BY InitHotelInv, <1>1, <1>2, <1>3, PTL DEF HotelSpec

(* The status of a stay is kept, and its events tell it. *)
THEOREM BookingIsKeptAndTold == HotelSpec => []StatusIsKeptAndTold
<1> QED
  BY EndedStaysStayEnded, EventsTell, PTL DEF StatusIsKeptAndTold

-----------------------------------------------------------------------------
(* CostSync: OfficeStatusStands and RemovedCostsStayRemoved. *)

\* A cost was decided when it was stored, as new at least.
CostInv ==
    /\ table \in [DOMAIN table -> [status : Statuses, gone : BOOLEAN]]
    /\ decided \in [DOMAIN table -> Statuses]
    /\ OfficeStatusStands

-----------------------------------------------------------------------------
(* No costs at first. *)
LEMMA InitCostInv == CostInit => CostInv
  BY DEF CostInit, CostInv, OfficeStatusStands

(* A push, whatever it holds, puts no status over the office's
   (cost.routes.js 73-89). *)
LEMMA PushCostInv ==
  ASSUME CostInv, NEW s \in Syncs, SyncCosts(s)
  PROVE  CostInv'
<1> DEFINE list == sync[s].list
           pushed == DOMAIN list
           all == pushed \cup DOMAIN table
           stored(c) == IF c \in DOMAIN table THEN table[c].status ELSE "Rogzitve"
<1>1. table' = [c \in all |-> IF c \in pushed THEN [status |-> stored(c), gone |-> FALSE] ELSE table[c]]
  BY DEF SyncCosts, Over, Stored
<1>2. decided' = [c \in all |-> IF c \in DOMAIN table THEN decided[c] ELSE "Rogzitve"]
  BY DEF SyncCosts, Over, CostInv
<1>3. \A c \in DOMAIN table : table[c].status \in Statuses /\ table[c].status = decided[c]
  BY DEF CostInv, OfficeStatusStands
<1>4. \A c \in all : stored(c) \in Statuses
  BY <1>3 DEF Statuses
<1>5. \A c \in DOMAIN table : stored(c) = table[c].status
  OBVIOUS
<1> HIDE DEF stored
<1>6. table' \in [all -> [status : Statuses, gone : BOOLEAN]]
  BY <1>1, <1>4 DEF CostInv
<1>7. decided' \in [all -> Statuses]
  BY <1>2, <1>3 DEF CostInv, Statuses
<1>8. \A c \in all : table'[c].status = decided'[c]
  <2> SUFFICES ASSUME NEW c \in all PROVE table'[c].status = decided'[c]
    OBVIOUS
  <2>1. CASE c \in DOMAIN table
    BY <1>1, <1>2, <1>3, <1>5, <2>1
  <2>2. CASE c \notin DOMAIN table
    BY <1>1, <1>2, <2>2 DEF stored
  <2> QED
    BY <2>1, <2>2
<1> QED
  BY <1>6, <1>7, <1>8 DEF CostInv, OfficeStatusStands

(* Every step of the phone, its syncs and the office (CostsViewModel.kt 68-181,
   cost.routes.js 46-191). *)
LEMMA NextCostInv ==
  ASSUME CostInv, [CostNext]_costVars
  PROVE  CostInv'
<1>1. ASSUME UNCHANGED Ours PROVE CostInv'
  BY <1>1 DEF CostInv, OfficeStatusStands, Ours
<1>2. ASSUME NEW c \in Costs, SaveCost(c) PROVE CostInv'
  <2>1. c \notin DOMAIN table
    BY <1>2 DEF SaveCost, Fresh
  <2>2. table' = [d \in DOMAIN table \cup {c} |-> IF d = c THEN [status |-> "Rogzitve", gone |-> FALSE] ELSE table[d]]
    BY <1>2, <2>1 DEF SaveCost, With
  <2>3. decided' = [d \in DOMAIN table \cup {c} |-> IF d = c THEN "Rogzitve" ELSE decided[d]]
    BY <1>2, <2>1 DEF SaveCost, With, CostInv
  <2> QED
    BY <2>2, <2>3 DEF CostInv, OfficeStatusStands, Statuses
<1>3. ASSUME NEW c \in Costs, NEW st \in Statuses, UpdateCostStatus(c, st) PROVE CostInv'
  BY <1>3 DEF UpdateCostStatus, CostInv, OfficeStatusStands
<1>4. ASSUME NEW c \in Costs, RemoveCost(c) PROVE CostInv'
  BY <1>4 DEF RemoveCost, Live, CostInv, OfficeStatusStands
<1>5. ASSUME NEW s \in Syncs, SyncCosts(s) PROVE CostInv'
  BY <1>5, PushCostInv
<1> QED
  BY <1>1, <1>2, <1>3, <1>4, <1>5
  DEF CostNext, costVars, Ours, AddCost, UpdateCost, DeleteCost, AddReadCost, GetCosts, ReadLocal,
      SyncRemoteCosts, Send, SyncFails, PollStatus

-----------------------------------------------------------------------------
(* No push puts an older status over the one that the office decided
   (cost.routes.js 73-89, 148-159). *)
THEOREM OfficeDecides == CostSpec => []OfficeStatusStands
<1>1. CostInv => OfficeStatusStands
  BY DEF CostInv
<1>2. CostInv /\ [CostNext]_costVars => CostInv'
  BY NextCostInv
<1> QED
  BY InitCostInv, <1>1, <1>2, PTL DEF CostSpec

-----------------------------------------------------------------------------
\* A removed cost that is not loose: no sync under way holds it, and one that is
\* past its pull has taken it from the phone, or is about to.
OutOfReach(c, s) ==
    /\ sync[s].step \in {"got", "read"} => c \notin DOMAIN sync[s].list /\ DOMAIN sync[s].list # {}
    /\ sync[s].step = "read" => (c \in DOMAIN room => c \in sync[s].local)
    /\ sync[s].step = "merged" => c \notin DOMAIN room
    /\ sync[s].step = "sent" => c \notin DOMAIN sync[s].list

\* The inductive invariant of RemovedCostsStayRemoved.
RemovedInv ==
    /\ CostInv /\ removed \subseteq DOMAIN table
    /\ sync = [s \in Syncs |-> sync[s]]
    /\ \A c \in removed \ loose : table[c].gone /\ \A s \in Syncs : OutOfReach(c, s)

(* No cost is removed at first. *)
LEMMA InitRemoved == CostInit => RemovedInv
  BY InitCostInv DEF CostInit, RemovedInv

(* A step of a sync changes that sync alone; it keeps the removed costs out of
   what it holds and out of the table (DriverRepositoryImpl.kt 111-125,
   cost.routes.js 12-114). *)
LEMMA SyncRemoved ==
  ASSUME RemovedInv, CostInv', NEW s \in Syncs,
         GetCosts(s) \/ ReadLocal(s) \/ SyncRemoteCosts(s) \/ Send(s) \/ SyncFails(s) \/ SyncCosts(s)
  PROVE  RemovedInv'
<1>1. sync' = [o \in Syncs |-> sync'[o]] /\ \A o \in Syncs \ {s} : sync'[o] = sync[o]
  BY DEF RemovedInv, GetCosts, ReadLocal, SyncRemoteCosts, Send, SyncFails, SyncCosts
<1>2. removed' = removed /\ loose \subseteq loose'
  BY DEF GetCosts, ReadLocal, SyncRemoteCosts, Send, SyncFails, SyncCosts, Ours
<1>3. DOMAIN table \subseteq DOMAIN table'
  <2>1. CASE SyncCosts(s)
    BY <2>1 DEF SyncCosts, Over
  <2> QED
    BY <2>1 DEF GetCosts, ReadLocal, SyncRemoteCosts, Send, SyncFails, Ours
<1>4. ASSUME NEW c \in removed \ loose' PROVE table'[c].gone /\ \A o \in Syncs : OutOfReach(c, o)'
  <2>1. c \in DOMAIN table /\ table[c].gone /\ \A o \in Syncs : OutOfReach(c, o)
    BY <1>2, <1>4 DEF RemovedInv
  <2>2. table'[c].gone
    <3>1. CASE SyncCosts(s)
      <4>1. c \notin DOMAIN sync[s].list
        BY <2>1, <3>1 DEF SyncCosts, OutOfReach
      <4>2. table'[c] = table[c]
        BY <2>1, <3>1, <4>1 DEF SyncCosts, Over
      <4> QED
        BY <2>1, <4>2
    <3> QED
      BY <2>1, <3>1 DEF GetCosts, ReadLocal, SyncRemoteCosts, Send, SyncFails, Ours
  <2>3. c \in DOMAIN room' => c \in DOMAIN room
    <3>1. CASE SyncRemoteCosts(s)
      <4>1. c \notin DOMAIN sync[s].list
        BY <2>1, <3>1 DEF SyncRemoteCosts, OutOfReach
      <4> QED
        BY <3>1, <4>1 DEF SyncRemoteCosts, Merged, Over, Only
    <3> QED
      BY <3>1 DEF GetCosts, ReadLocal, Send, SyncFails, SyncCosts
  <2>4. ASSUME NEW o \in Syncs \ {s} PROVE OutOfReach(c, o)'
    BY <1>1, <2>1, <2>3, <2>4 DEF OutOfReach
  <2>5. OutOfReach(c, s)'
    <3>1. CASE GetCosts(s)
      <4>1. sync'[s] = [step |-> "got", list |-> [d \in Live |-> table[d].status]] /\ Live # {}
        BY <1>4, <3>1 DEF GetCosts, RemovedInv
      <4>2. c \notin Live
        BY <2>1 DEF Live
      <4> QED
        BY <4>1, <4>2 DEF OutOfReach
    <3>2. CASE ReadLocal(s)
      BY <2>1, <2>3, <3>2 DEF ReadLocal, RemovedInv, OutOfReach
    <3>3. CASE SyncRemoteCosts(s)
      <4>1. sync'[s] = [step |-> "merged"]
        BY <3>3 DEF SyncRemoteCosts, RemovedInv
      <4>2. c \notin DOMAIN room'
        BY <2>1, <3>3 DEF SyncRemoteCosts, OutOfReach, Merged, Over, Only
      <4> QED
        BY <4>1, <4>2 DEF OutOfReach
    <3>4. CASE Send(s)
      BY <2>1, <3>4 DEF Send, RemovedInv, OutOfReach
    <3>5. CASE SyncFails(s) \/ SyncCosts(s)
      BY <3>5 DEF SyncFails, SyncCosts, NoSync, RemovedInv, OutOfReach
    <3> QED
      BY <3>1, <3>2, <3>3, <3>4, <3>5
  <2> QED
    BY <2>2, <2>4, <2>5
<1> QED
  BY <1>1, <1>2, <1>3, <1>4 DEF RemovedInv

(* A change of the driver starts a sync at its beginning; a receipt that was
   read starts one past its pull, and makes every removed cost loose
   (CostsViewModel.kt 68-181, AIViewModel.kt 213-222). *)
LEMMA PhoneRemoved ==
  ASSUME RemovedInv, CostInv', NEW s \in Syncs, NEW d,
         AddCost(s, d) \/ UpdateCost(s) \/ DeleteCost(s, d) \/ AddReadCost(s, d)
  PROVE  RemovedInv'
<1>1. sync' = [o \in Syncs |-> sync'[o]] /\ \A o \in Syncs \ {s} : sync'[o] = sync[o]
  BY DEF RemovedInv, AddCost, UpdateCost, DeleteCost, AddReadCost, StartSync
<1>2. removed' = removed /\ loose \subseteq loose' /\ table' = table
  BY DEF AddCost, UpdateCost, DeleteCost, AddReadCost, Ours
<1>3. ASSUME NEW c \in removed \ loose' PROVE \A o \in Syncs : OutOfReach(c, o)'
  <2>1. c \in DOMAIN table /\ \A o \in Syncs : OutOfReach(c, o)
    BY <1>2, <1>3 DEF RemovedInv
  <2>2. AddCost(s, d) \/ UpdateCost(s) \/ DeleteCost(s, d)
    BY <1>3 DEF AddReadCost
  <2>3. sync'[s].step = "asked"
    BY <2>2 DEF AddCost, UpdateCost, DeleteCost, StartSync, RemovedInv
  <2>4. c \in DOMAIN room' => c \in DOMAIN room
    BY <2>1, <2>2 DEF AddCost, UpdateCost, DeleteCost, Fresh, With, Only
  <2> QED
    BY <1>1, <2>1, <2>3, <2>4 DEF OutOfReach
<1> QED
  BY <1>1, <1>2, <1>3 DEF RemovedInv

(* The office's changes bring no removed cost back, and the cost that is removed
   now is loose if a sync is past its pull (cost.routes.js 148-191). *)
LEMMA OfficeRemoved ==
  ASSUME RemovedInv, CostInv', NEW d \in Costs,
         SaveCost(d) \/ (\E st \in Statuses : UpdateCostStatus(d, st)) \/ RemoveCost(d)
  PROVE  RemovedInv'
<1>1. UNCHANGED <<sync, room>> /\ loose \subseteq loose'
  BY DEF SaveCost, UpdateCostStatus, RemoveCost
<1>2. CASE SaveCost(d)
  <2>1. d \notin DOMAIN table /\ removed' = removed /\ table' = With(table, d, [status |-> "Rogzitve", gone |-> FALSE])
    BY <1>2 DEF SaveCost, Fresh
  <2> QED
    BY <1>1, <2>1 DEF RemovedInv, With, OutOfReach
<1>3. CASE \E st \in Statuses : UpdateCostStatus(d, st)
  <2>1. removed' = removed /\ DOMAIN table' = DOMAIN table
    BY <1>3 DEF UpdateCostStatus
  <2>2. \A c \in DOMAIN table : table'[c].gone = table[c].gone
    BY <1>3 DEF UpdateCostStatus, RemovedInv, CostInv
  <2> QED
    BY <1>1, <2>1, <2>2 DEF RemovedInv, OutOfReach
<1>4. CASE RemoveCost(d)
  <2>1. removed' = removed \cup {d} /\ DOMAIN table' = DOMAIN table /\ d \in DOMAIN table
    BY <1>4 DEF RemoveCost, Live
  <2>2. table'[d].gone /\ \A c \in DOMAIN table \ {d} : table'[c] = table[c]
    BY <1>4 DEF RemoveCost, Live, RemovedInv, CostInv
  <2>3. d \notin loose' => \A s \in Syncs : sync[s].step \in {"none", "asked"}
    BY <1>4 DEF RemoveCost
  <2> QED
    BY <1>1, <2>1, <2>2, <2>3 DEF RemovedInv, OutOfReach
<1> QED
  BY <1>2, <1>3, <1>4

(* A removed cost stays removed, whatever the phone still shows, unless it is
   loose (DriverRepositoryImpl.kt 121-125, cost.routes.js 73-89). *)
THEOREM RemovedCostsAreGone == CostSpec => []RemovedCostsStayRemoved
<1>1. RemovedInv => RemovedCostsStayRemoved
  BY DEF RemovedInv, RemovedCostsStayRemoved
<1>2. RemovedInv /\ [CostNext]_costVars => RemovedInv'
  <2> SUFFICES ASSUME RemovedInv, [CostNext]_costVars PROVE RemovedInv'
    OBVIOUS
  <2>1. CostInv'
    BY NextCostInv DEF RemovedInv
  <2>2. CASE PollStatus
    <3>1. DOMAIN room' = DOMAIN room /\ UNCHANGED <<sync, table, removed, loose>>
      BY <2>2 DEF PollStatus, Ours
    <3> QED
      BY <2>1, <3>1 DEF RemovedInv, OutOfReach
  <2>3. CASE UNCHANGED costVars
    BY <2>1, <2>3 DEF costVars, RemovedInv, OutOfReach
  <2> QED
    BY <2>1, <2>2, <2>3, SyncRemoved, PhoneRemoved, OfficeRemoved DEF CostNext
<1> QED
  BY InitRemoved, <1>1, <1>2, PTL DEF CostSpec
(* What the office decides of a cost stands: its status and its removal. *)
THEOREM OfficeStands == CostSpec => []CostsStand
<1> QED
  BY OfficeDecides, RemovedCostsAreGone, PTL DEF CostsStand

-----------------------------------------------------------------------------
(* PhotoUpload: FilesAndRowsAgree and PhotosStayScoped.  The names of the files
   are numbers, and no photo is not one of them. *)

\* A request for an upload.
UploadRecord == [step : {"none", "asked", "checked", "written", "updated", "refused"}, row : Targets, file : Nat]

\* The types; the files are numbered in the order they are written.
PhotoTypes ==
    /\ row \in [Targets -> [mine : BOOLEAN, photo : Nat \cup {NoPhoto}]]
    /\ upload \in [Uploads -> UploadRecord] /\ uploads \in Nat
    /\ files \subseteq 1..uploads /\ left \subseteq 1..uploads

\* Every file has a name of its own, and a row names one that was written.
NamesAreFresh ==
    /\ \A u \in Uploads : HasFile(u) => upload[u].file \in 1..uploads
    /\ \A u, v \in Uploads : HasFile(u) /\ HasFile(v) /\ upload[u].file = upload[v].file => u = v
    /\ \A t \in Targets : row[t].photo \in 1..uploads \cup {NoPhoto}

\* A request's file before and after the UPDATE
FileOfRequest ==
    \A u \in Uploads :
        /\ upload[u].step = "written" => upload[u].file \in files /\ \A t \in Targets : row[t].photo # upload[u].file
        /\ upload[u].step = "updated" => upload[u].file \in {row[t].photo : t \in Targets} \cup left
        /\ upload[u].step = "refused" =>
              upload[u].file \in lost \/ \A t \in Targets : row[t].photo # upload[u].file

\* The inductive invariant of FilesAndRowsAgree.
PhotoInv == PhotoTypes /\ NamesAreFresh /\ FileOfRequest /\ FilesAndRowsAgree

-----------------------------------------------------------------------------
(* No photo, no file and no request at first (upload.routes.js). *)
LEMMA InitPhotoInv == PhotoInit => PhotoInv
  BY SMTT(30) DEF PhotoInit, PhotoInv, PhotoTypes, NamesAreFresh, FileOfRequest, FilesAndRowsAgree,
     UploadRecord, Targets, NoUpload, HasFile, InFlight

(* Every step of a request, a restart and a change of scope keep the names of
   the files apart and the files accounted for (upload.routes.js 77-239). *)
LEMMA NextPhotoInv ==
  ASSUME PhotoInv, [PhotoNext]_photoVars
  PROVE  PhotoInv'
<1>0. NoPhoto \notin Nat
  BY PhotoAssumption
<1> USE <1>0 DEF PhotoInv, PhotoTypes, NamesAreFresh, FileOfRequest, FilesAndRowsAgree, UploadRecord, Targets, NoUpload, HasFile, InFlight
<1>1. ASSUME NEW u \in Uploads, NEW t \in Targets, AskUpload(u, t) PROVE PhotoInv'
  BY <1>1, SMTT(30) DEF AskUpload
<1>2. ASSUME NEW u \in Uploads, CheckStop(u) PROVE PhotoInv'
  BY <1>2, SMTT(30) DEF CheckStop
<1>3. ASSUME NEW u \in Uploads, RefuseImage(u) PROVE PhotoInv'
  BY <1>3, SMTT(30) DEF RefuseImage
<1>4. ASSUME NEW u \in Uploads, WriteFile(u) PROVE PhotoInv'
  <2>1. PhotoTypes'
    <3>1. row' \in [Targets -> [mine : BOOLEAN, photo : Nat \cup {NoPhoto}]]
      BY <1>4 DEF WriteFile
    <3>2. upload' \in [Uploads -> UploadRecord]
      <4> DEFINE new == [upload[u] EXCEPT !.step = "written", !.file = uploads + 1]
      <4>1. upload' = [upload EXCEPT ![u] = new]
        BY <1>4 DEF WriteFile
      <4>2. upload[u] \in UploadRecord /\ uploads + 1 \in Nat
        OBVIOUS
      <4>3. new \in UploadRecord
        <5> HIDE DEF PhotoInv, PhotoTypes, NamesAreFresh, FileOfRequest, FilesAndRowsAgree, HasFile, InFlight
        <5> QED
          BY <4>2
      <4> QED
        BY <4>1, <4>3
    <3>3. uploads' \in Nat /\ files' \subseteq 1..uploads' /\ left' \subseteq 1..uploads'
      BY <1>4 DEF WriteFile
    <3> QED
      BY <3>1, <3>2, <3>3
  <2>2. NamesAreFresh'
    BY <1>4, SMTT(60) DEF WriteFile
  <2>3. FileOfRequest'
    BY <1>4, SMTT(60) DEF WriteFile
  <2>4. FilesAndRowsAgree'
    BY <1>4, SMTT(60) DEF WriteFile
  <2> QED
    BY <2>1, <2>2, <2>3, <2>4
<1>5. ASSUME NEW u \in Uploads, Update(u) PROVE PhotoInv'
  BY <1>5, SMTT(30) DEF Update, Named, Matches
<1>6. ASSUME NEW u \in Uploads, UpdateFails(u) PROVE PhotoInv'
  BY <1>6, SMTT(30) DEF UpdateFails, Named, Matches
<1>7. ASSUME NEW u \in Uploads, RemoveFile(u) PROVE PhotoInv'
  <2>1. PhotoTypes'
    <3>1. row' \in [Targets -> [mine : BOOLEAN, photo : Nat \cup {NoPhoto}]]
      BY <1>7 DEF RemoveFile, Cleaned
    <3>2. upload' \in [Uploads -> UploadRecord]
      BY <1>7 DEF RemoveFile, Cleaned
    <3>3. uploads' \in Nat /\ files' \subseteq 1..uploads' /\ left' \subseteq 1..uploads'
      BY <1>7 DEF RemoveFile, Cleaned
    <3> QED
      BY <3>1, <3>2, <3>3
  <2>2. NamesAreFresh'
    BY <1>7, SMTT(60) DEF RemoveFile, Cleaned
  <2>3. FileOfRequest'
    BY <1>7, SMTT(60) DEF RemoveFile, Cleaned
  <2>4. FilesAndRowsAgree'
    <3> DEFINE f == upload[u].file
    <3>1. f \in lost \/ \A t \in Targets : row[t].photo # f
      BY <1>7 DEF RemoveFile
    <3>2. ASSUME NEW g \in InFlight, g # f PROVE g \in InFlight'
      <4>1. PICK v \in Uploads : HasFile(v) /\ upload[v].file = g
        BY <3>2
      <4>2. v # u /\ upload'[v] = upload[v]
        BY <1>7, <3>2, <4>1 DEF RemoveFile
      <4> QED
        BY <4>1, <4>2
    <3>3. row' = row /\ lost' = lost /\ ((files' = files \ {f} /\ left' = left) \/ (files' = files /\ left' = left \cup {f}))
      <4> HIDE DEF PhotoInv, PhotoTypes, NamesAreFresh, FileOfRequest, FilesAndRowsAgree, UploadRecord, Targets, NoUpload, HasFile, InFlight
      <4>1. row' = row /\ lost' = lost
        BY <1>7 DEF RemoveFile
      <4>2. (files' = files \ {f} /\ left' = left) \/ (files' = files /\ left' = left \cup {f})
        BY <1>7, Zenon DEF RemoveFile, Cleaned
      <4> QED
        BY <4>1, <4>2
    <3>4. \A t \in Targets : row'[t].photo \in files' \cup lost' \cup {NoPhoto}
      BY <3>1, <3>3
    <3>5. files' \subseteq {row'[t].photo : t \in Targets} \cup InFlight' \cup left'
      <4> SUFFICES ASSUME NEW g \in files' PROVE g \in {row[t].photo : t \in Targets} \cup InFlight' \cup left'
        BY <3>3
      <4>1. g \in {row[t].photo : t \in Targets} \cup InFlight \cup left
        BY <3>3 DEF FilesAndRowsAgree
      <4> HIDE DEF InFlight
      <4> QED
        BY <3>2, <3>3, <4>1
    <3> QED
      BY <3>4, <3>5
  <2> QED
    BY <2>1, <2>2, <2>3, <2>4
<1>8. ASSUME NEW u \in Uploads, AnswerUpload(u) PROVE PhotoInv'
  BY <1>8, SMTT(30) DEF AnswerUpload
<1>9. CASE Restart
  <2>1. PhotoTypes'
    <3>1. row' \in [Targets -> [mine : BOOLEAN, photo : Nat \cup {NoPhoto}]]
      BY <1>9 DEF Restart
    <3>2. upload' \in [Uploads -> UploadRecord]
      BY <1>9 DEF Restart
    <3>3. uploads' \in Nat /\ files' \subseteq 1..uploads' /\ left' \subseteq 1..uploads'
      <4>1. InFlight \subseteq 1..uploads
        OBVIOUS
      <4> QED
        BY <1>9, <4>1 DEF Restart
    <3> QED
      BY <3>1, <3>2, <3>3
  <2>2. NamesAreFresh'
    BY <1>9, SMTT(60) DEF Restart
  <2>3. FileOfRequest'
    BY <1>9, SMTT(60) DEF Restart
  <2>4. FilesAndRowsAgree'
    BY <1>9, SMTT(60) DEF Restart
  <2> QED
    BY <2>1, <2>2, <2>3, <2>4
<1>10. ASSUME NEW t \in Targets, Reassign(t) PROVE PhotoInv'
  <2>1. PhotoTypes'
    <3>1. row' \in [Targets -> [mine : BOOLEAN, photo : Nat \cup {NoPhoto}]]
      <4> DEFINE mine == ~row[t].mine
      <4>1. mine \in BOOLEAN
        OBVIOUS
      <4>2. row' = [row EXCEPT ![t].mine = mine]
        BY <1>10 DEF Reassign
      <4> HIDE DEF mine
      <4> QED
        BY <4>1, <4>2
    <3>2. upload' \in [Uploads -> UploadRecord]
      BY <1>10 DEF Reassign
    <3>3. uploads' \in Nat /\ files' \subseteq 1..uploads' /\ left' \subseteq 1..uploads'
      BY <1>10 DEF Reassign
    <3> QED
      BY <3>1, <3>2, <3>3
  <2>2. NamesAreFresh'
    BY <1>10, SMTT(60) DEF Reassign
  <2>3. FileOfRequest'
    BY <1>10, SMTT(60) DEF Reassign
  <2>4. FilesAndRowsAgree'
    BY <1>10, SMTT(60) DEF Reassign
  <2> QED
    BY <2>1, <2>2, <2>3, <2>4
<1>11. ASSUME NEW u \in Uploads, WriteFails(u) PROVE PhotoInv'
  <2>1. PhotoTypes'
    <3>1. upload' \in [Uploads -> UploadRecord] /\ UNCHANGED row
      BY <1>11 DEF WriteFails
    <3>2. uploads' \in Nat /\ files' \subseteq 1..uploads' /\ left' \subseteq 1..uploads'
      BY <1>11 DEF WriteFails
    <3> QED
      BY <3>1, <3>2
  <2>2. NamesAreFresh'
    BY <1>11, SMTT(60) DEF WriteFails
  <2>3. FileOfRequest'
    BY <1>11, SMTT(60) DEF WriteFails
  <2>4. FilesAndRowsAgree'
    BY <1>11, SMTT(60) DEF WriteFails
  <2> QED
    BY <2>1, <2>2, <2>3, <2>4
<1>12. CASE UNCHANGED photoVars
  BY <1>12, SMTT(30) DEF photoVars
<1> QED
  BY <1>1, <1>2, <1>3, <1>4, <1>5, <1>6, <1>7, <1>8, <1>9, <1>10, <1>11, <1>12 DEF PhotoNext

-----------------------------------------------------------------------------
(* A row's photo is a file unless the answer of its UPDATE was lost, and a file
   is a row's, a request's or one that is known to be left behind
   (upload.routes.js 77-93, 129-151, 212-237). *)
THEOREM PhotosAreFiles == PhotoSpec => []FilesAndRowsAgree
<1>1. PhotoInv => FilesAndRowsAgree
  BY DEF PhotoInv
<1>2. PhotoInv /\ [PhotoNext]_photoVars => PhotoInv'
  BY NextPhotoInv
<1> QED
  BY InitPhotoInv, <1>1, <1>2, PTL DEF PhotoSpec

(* A photo is written only to a driver or a stop that is still in scope when its
   row is updated (upload.routes.js 129-141, 212-229). *)
THEOREM PhotosAreScoped == PhotoSpec => PhotosStayScoped
<1>1. PhotoInv /\ [PhotoNext]_photoVars => [\A t \in Targets : row'[t].photo # row[t].photo => row[t].mine]_photoVars
  <2> SUFFICES ASSUME PhotoInv, PhotoNext, NEW t \in Targets, row'[t].photo # row[t].photo
               PROVE  row[t].mine
    BY DEF photoVars
  <2>1. row \in [Targets -> [mine : BOOLEAN, photo : Nat \cup {NoPhoto}]] /\ upload \in [Uploads -> UploadRecord]
    BY DEF PhotoInv, PhotoTypes
  <2>2. ASSUME NEW u \in Uploads, Matches(upload[u]), Named(upload[u]) PROVE row[t].mine
    BY <2>1, <2>2 DEF Named, Matches, UploadRecord
  <2>3. ASSUME NEW s \in Targets, Reassign(s) PROVE FALSE
    BY <2>1, <2>3 DEF Reassign
  <2> QED
    BY <2>2, <2>3 DEF PhotoNext, AskUpload, CheckStop, RefuseImage, WriteFile, WriteFails, Update, UpdateFails, RemoveFile, AnswerUpload, Restart
<1>2. PhotoInv /\ [PhotoNext]_photoVars => PhotoInv'
  BY NextPhotoInv
<1> QED
  BY InitPhotoInv, <1>1, <1>2, PTL DEF PhotoSpec, PhotosStayScoped

-----------------------------------------------------------------------------
(* BackupRestore: RestoreOkMeansAll. *)

\* What a script has done at each of its steps
ScriptOK ==
    /\ script \in {NoScript, "count", "dumped", "migrated", "loaded"}
    /\ script = "count" /\ ~busy => \A t \in Tables : counts[t] \in {Absent, source[t]}
    /\ script = "dumped" => archive.damaged \in {"no", "used"} /\ (~busy => counts = archive.rows)
    /\ script \in {"migrated", "loaded"} =>
          archive.damaged = "used" \/ (archive.damaged = "no" /\ CanRestore)
    /\ script = "loaded" /\ archive.damaged = "no" => target = archive.rows

\* A manifest whose checksum fits is of the archive beside it, as the dump left it
\* or as it was damaged before the checksum was taken.
ManifestOK ==
    manifest # Absent =>
        /\ manifest = [counts |-> manifest.counts, fits |-> manifest.fits, busy |-> manifest.busy]
        /\ manifest.fits => archive.damaged \in {"no", "used"} /\ (~manifest.busy => manifest.counts = archive.rows)

\* The inductive invariant of RestoreOkMeansAll.
BackupInv ==
    /\ source = [t \in Tables |-> source[t]] /\ counts = [t \in Tables |-> counts[t]]
    /\ script # NoScript => result = ""
    /\ archive # Absent => archive = [rows |-> archive.rows, damaged |-> archive.damaged]
    /\ ScriptOK /\ ManifestOK /\ RestoreOkMeansAll

-----------------------------------------------------------------------------
(* Nothing has run at first (db-backup.js, db-restore.js). *)
LEMMA InitBackupInv == BackupInit => BackupInv
  BY DEF BackupInit, BackupInv, ScriptOK, ManifestOK, RestoreOkMeansAll, Rows, NoScript, NoCounts

(* Every step of a backup, of a restore and of the application keeps what is
   known of the archive and of its manifest (db-backup.js 43-88,
   db-restore.js 58-95). *)
LEMMA NextBackupInv == BackupInv /\ [BackupNext]_backupVars => BackupInv'
<1> SUFFICES ASSUME BackupInv, [BackupNext]_backupVars PROVE BackupInv'
  OBVIOUS
<1> USE DEF BackupInv, RestoreOkMeansAll, CanRestore, NoScript, NoCounts
<1>1. ASSUME NEW t \in Tables, WriteRow(t) PROVE BackupInv'
  BY <1>1 DEF WriteRow, ScriptOK, ManifestOK
<1>2. CASE Backup
  BY <1>2 DEF Backup, Starts, ScriptOK, ManifestOK
<1>3. ASSUME NEW t \in Tables, CountTable(t) PROVE BackupInv'
  BY <1>3 DEF CountTable, ScriptOK, ManifestOK
<1>4. CASE Dump
  <2>1. ~busy => counts = source
    BY <1>4 DEF Dump, ScriptOK
  <2>2. ScriptOK'
    BY <1>4, <2>1 DEF Dump, ScriptOK
  <2>3. ManifestOK'
    BY <1>4 DEF Dump, ManifestOK
  <2> QED
    BY <1>4, <2>2, <2>3 DEF Dump
<1>5. CASE WriteManifest
  BY <1>5 DEF WriteManifest, Ends, ScriptOK, ManifestOK
<1>6. CASE Restore
  BY <1>6 DEF Restore, Starts, ScriptOK, ManifestOK
<1>7. CASE Load
  BY <1>7 DEF Load, Ends, ScriptOK, ManifestOK
<1>8. CASE Confirm
  BY <1>8 DEF Confirm, Confirms, Ends, ScriptOK, ManifestOK
<1>9. CASE ScriptFails
  BY <1>9 DEF ScriptFails, Ends, ScriptOK, ManifestOK
<1>10. CASE Damage
  <2>1. archive' = [rows |-> archive.rows,
                    damaged |-> IF script \in {"dumped", "migrated", "loaded"} THEN "used" ELSE "kept"]
    BY <1>10 DEF Damage
  <2>2. archive'.rows = archive.rows /\ archive'.damaged \in {"used", "kept"}
    BY <2>1
  <2>3. script \in {"dumped", "migrated", "loaded"} => archive'.damaged = "used"
    BY <2>1
  <2>4. manifest' # Absent =>
           /\ manifest # Absent /\ ~manifest'.fits
           /\ manifest' = [counts |-> manifest'.counts, fits |-> manifest'.fits, busy |-> manifest'.busy]
    BY <1>10 DEF Damage, ManifestOK
  <2>5. result' = "" /\ UNCHANGED <<source, script, counts, target, busy>>
    BY <1>10 DEF Damage
  <2>6. ManifestOK'
    BY <2>4 DEF ManifestOK
  <2>7. ScriptOK'
    BY <2>2, <2>3, <2>5 DEF ScriptOK
  <2> QED
    BY <2>1, <2>2, <2>3, <2>5, <2>6, <2>7
<1>11. CASE Recreate
  BY <1>11 DEF Recreate, ScriptOK, ManifestOK
<1>12. CASE UNCHANGED backupVars
  BY <1>12 DEF backupVars, ScriptOK, ManifestOK
<1> QED
  BY <1>1, <1>2, <1>3, <1>4, <1>5, <1>6, <1>7, <1>8, <1>9, <1>10, <1>11, <1>12 DEF BackupNext

-----------------------------------------------------------------------------
(* RESTORE_OK means the rows that the backup counted, from a file that was not
   damaged where it was kept, and the whole of it unless it was damaged under a
   script's hands, whatever the application wrote meanwhile; and a backup under
   which nothing was written is not refused for its counts (db-restore.js 71-93). *)
THEOREM RestoreIsOfTheWholeBackup == BackupSpec => []RestoreOkMeansAll
<1>1. BackupInv => RestoreOkMeansAll
  BY DEF BackupInv
<1> QED
  BY InitBackupInv, NextBackupInv, <1>1, PTL DEF BackupSpec

-----------------------------------------------------------------------------
(* SyncPull: MissedRowsWereLate, for any limit. *)

\* An answer under way holds every row that is newer than since, as it still is,
\* but for the late ones.
Holds ==
    /\ \A k \in Keys \ late : rows[k].at > pull.since => RowOf(k) \in pull.got
    /\ \A r \in pull.got : r.key \notin late => r = RowOf(r.key)

\* The inductive invariant of MissedRowsWereLate.
PullInv ==
    /\ rows \in [Keys -> [at : Nat, version : Nat]] /\ copies = [k \in Keys |-> copies[k]]
    /\ mark \in Nat /\ clock \in Nat /\ pull.since \in 0..mark
    /\ \A w \in Writers : stamped[w].at \in Nat /\ stamped[w].key \subseteq Keys
    /\ stamped = [w \in Writers |-> stamped[w]]
    /\ pull.step = "read" => Holds
    /\ MissedRowsWereLate

-----------------------------------------------------------------------------
(* Nothing is missing at first. *)
LEMMA InitPullInv == PullInit => PullInv
  BY DEF PullInit, PullInv, NoWrite, NoPull, MissedRowsWereLate

(* A row that is committed now is newer than the mark, or late; a row of an
   answer under way is late (sync.routes.js 331-362). *)
LEMMA CommitPullInv ==
  ASSUME PullInv, NEW w \in Writers, CommitWrite(w)
  PROVE  PullInv'
<1>1. PICK k \in Keys : /\ rows' = [rows EXCEPT ![k] = [at |-> stamped[w].at, version |-> @.version + 1]]
                        /\ stamped' = [stamped EXCEPT ![w] = NoWrite]
                        /\ late' = IF pull.step = "read" \/ stamped[w].at <= mark THEN late \cup {k} ELSE late
                        /\ UNCHANGED <<pull, copies, mark, clock>>
  BY DEF CommitWrite, PullInv
<1>2. rows' \in [Keys -> [at : Nat, version : Nat]] /\ rows'[k].at = stamped[w].at
  BY <1>1 DEF PullInv
<1>3. \A l \in Keys \ {k} : rows'[l] = rows[l] /\ (l \in late' <=> l \in late)
  BY <1>1 DEF PullInv
<1>4. \A v \in Writers : stamped'[v].at \in Nat /\ stamped'[v].key \subseteq Keys
  BY <1>1 DEF PullInv, NoWrite
<1>5. MissedRowsWereLate'
  BY <1>1, <1>2, <1>3 DEF PullInv, MissedRowsWereLate
<1>6. ASSUME pull.step = "read" PROVE Holds'
  <2>1. k \in late'
    BY <1>1, <1>6
  <2>2. \A l \in Keys \ {k} : RowOf(l)' = RowOf(l)
    BY <1>3 DEF RowOf
  <2>3. ASSUME NEW l \in Keys \ late', rows'[l].at > pull.since PROVE RowOf(l)' \in pull.got
    BY <1>3, <1>6, <2>1, <2>2, <2>3 DEF PullInv, Holds
  <2>4. ASSUME NEW r \in pull.got, r.key \notin late' PROVE r = RowOf(r.key)'
    <3>1. r.key # k /\ rows'[r.key] = rows[r.key] /\ r = RowOf(r.key)
      BY <1>1, <1>6, <2>1, <2>4 DEF PullInv, Holds
    <3> QED
      BY <3>1 DEF RowOf
  <2> QED
    BY <1>1, <2>3, <2>4 DEF Holds
<1> QED
  BY <1>1, <1>2, <1>4, <1>5, <1>6 DEF PullInv

(* What a pull reads is what is there, but for what the limit cuts off
   (sync.routes.js 257-266). *)
LEMMA ReadPullInv ==
  ASSUME PullInv, ReadRows
  PROVE  PullInv'
<1>1. PICK S \in SUBSET Newer(pull.since) :
         /\ pull' = [step |-> "read", since |-> pull.since, got |-> {RowOf(k) : k \in S}]
         /\ late' = late \cup (Newer(pull.since) \ S)
  BY DEF ReadRows
<1>2. UNCHANGED <<rows, stamped, copies, mark, clock>>
  BY DEF ReadRows
<1>3. Holds'
  <2>1. ASSUME NEW k \in Keys \ late', rows[k].at > pull.since PROVE k \in S
    BY <1>1, <2>1 DEF Newer
  <2>2. \A k : RowOf(k)' = RowOf(k)
    BY <1>2 DEF RowOf
  <2>3. \A r \in pull'.got : r = RowOf(r.key)
    BY <1>1 DEF RowOf
  <2> QED
    BY <1>1, <1>2, <2>1, <2>2, <2>3 DEF Holds
<1> QED
  BY <1>1, <1>2, <1>3 DEF PullInv, MissedRowsWereLate

(* The client has then what the answer held, and had the rest
   (sync.routes.js 270). *)
LEMMA AnswerPullInv ==
  ASSUME PullInv, AnswerPull
  PROVE  PullInv'
<1>1. UNCHANGED <<rows, stamped, clock, late>> /\ mark' = clock /\ pull' = NoPull
  BY DEF AnswerPull
<1>2. Holds
  BY DEF AnswerPull, PullInv
<1>3. ASSUME NEW k \in Keys \ late PROVE copies'[k] = rows[k].version
  <2> DEFINE held == \E r \in pull.got : r.key = k
             found == CHOOSE r \in pull.got : r.key = k
  <2>1. copies'[k] = IF held THEN found.version ELSE copies[k]
    BY DEF AnswerPull
  <2>2. CASE held
    <3>1. found \in pull.got /\ found.key = k
      BY <2>2
    <3>2. found = RowOf(k)
      BY <1>2, <1>3, <3>1 DEF Holds
    <3>3. copies'[k] = found.version
      BY <2>1, <2>2
    <3> HIDE DEF found
    <3> QED
      BY <3>2, <3>3 DEF RowOf
  <2>3. CASE ~held
    <3>1. ~(rows[k].at > pull.since)
      BY <1>2, <1>3, <2>3 DEF Holds, RowOf
    <3>2. rows[k].at <= mark
      BY <3>1 DEF PullInv
    <3> QED
      BY <2>1, <2>3, <3>2, <1>3 DEF PullInv, MissedRowsWereLate
  <2> QED
    BY <2>2, <2>3
<1>4. MissedRowsWereLate'
  BY <1>1, <1>3 DEF MissedRowsWereLate
<1>5. copies' = [k \in Keys |-> copies'[k]]
  BY DEF AnswerPull
<1> QED
  BY <1>1, <1>4, <1>5 DEF PullInv, NoPull

(* Every step of the writers, the client and the clock. *)
LEMMA NextPullInv ==
  ASSUME PullInv, [PullNext]_pullVars
  PROVE  PullInv'
<1>1. ASSUME NEW w \in Writers, NEW k \in Keys, NEW at \in Times, Stamp(w, k, at) PROVE PullInv'
  <2>1. at \in Nat
    BY <1>1 DEF Times
  <2>2. stamped' = [stamped EXCEPT ![w] = [key |-> {k}, at |-> at]] /\ UNCHANGED <<rows, pull, copies, mark, clock, late>>
    BY <1>1 DEF Stamp
  <2> QED
    BY <2>1, <2>2 DEF PullInv, Holds, RowOf, MissedRowsWereLate
<1>2. ASSUME NEW w \in Writers, RollBack(w) PROVE PullInv'
  BY <1>2 DEF RollBack, NoWrite, PullInv, Holds, RowOf, MissedRowsWereLate
<1>3. ASSUME NEW since \in {0, mark}, AskPull(since) PROVE PullInv'
  BY <1>3 DEF AskPull, PullInv, MissedRowsWereLate
<1>4. CASE LosePull
  BY <1>4 DEF LosePull, NoPull, PullInv, MissedRowsWereLate
<1>5. CASE Later
  BY <1>5 DEF Later, PullInv, Holds, RowOf, MissedRowsWereLate
<1>6. CASE UNCHANGED pullVars
  BY <1>6 DEF pullVars, PullInv, Holds, RowOf, MissedRowsWereLate
<1> QED
  BY <1>1, <1>2, <1>3, <1>4, <1>5, <1>6, CommitPullInv, ReadPullInv, AnswerPullInv DEF PullNext

-----------------------------------------------------------------------------
(* A client that goes on from serverTime misses nothing but the late rows
   (sync.routes.js 257-270, 331-332). *)
THEOREM OnlyLateRowsAreMissed == PullSpec => []MissedRowsWereLate
<1>1. PullInv => MissedRowsWereLate
  BY DEF PullInv
<1>2. PullInv /\ [PullNext]_pullVars => PullInv'
  BY NextPullInv
<1> QED
  BY InitPullInv, <1>1, <1>2, PTL DEF PullSpec

-----------------------------------------------------------------------------
(* AdminAccess: the logins that the limiter lets through, then the sessions and
   the writes, for any clients and any clock within its bound. *)

\* How many of the times p are in S.
CountIn(p, S) == Cardinality({i \in DOMAIN p : p[i] \in S})

\* The logins passed at some moments can be counted.
LEMMA CountInFinite ==
  ASSUME NEW p \in Seq(Nat), NEW S
  PROVE  IsFiniteSet({i \in DOMAIN p : p[i] \in S}) /\ CountIn(p, S) \in Nat
<1>1. IsFiniteSet(1..Len(p))
  BY FS_Interval
<1>2. {i \in DOMAIN p : p[i] \in S} \subseteq 1..Len(p)
  OBVIOUS
<1>3. IsFiniteSet({i \in DOMAIN p : p[i] \in S})
  BY <1>1, <1>2, FS_Subset
<1> QED BY <1>3, FS_CardinalityType DEF CountIn

\* Of moments at which none passed there are no logins.
LEMMA CountInNone ==
  ASSUME NEW p \in Seq(Nat), NEW S, \A i \in DOMAIN p : p[i] \notin S
  PROVE  CountIn(p, S) = 0
<1>1. {i \in DOMAIN p : p[i] \in S} = {}
  OBVIOUS
<1> QED BY <1>1, FS_EmptySet DEF CountIn

\* Of the times in S, as many as in both, or in T and in the rest, at most.
LEMMA CountInParts ==
  ASSUME NEW p \in Seq(Nat), NEW S, NEW T, NEW U, \A i \in DOMAIN p : p[i] \in S => p[i] \in T \cup U
  PROVE  CountIn(p, S) <= CountIn(p, T) + CountIn(p, U)
<1> DEFINE A == {i \in DOMAIN p : p[i] \in S}
           B == {i \in DOMAIN p : p[i] \in T}
           C == {i \in DOMAIN p : p[i] \in U}
<1>1. IsFiniteSet(B) /\ IsFiniteSet(C)
  BY CountInFinite
<1>2. A \subseteq B \cup C
  OBVIOUS
<1> HIDE DEF A, B, C
<1>3. IsFiniteSet(B \cup C) /\ Cardinality(B \cup C) = Cardinality(B) + Cardinality(C) - Cardinality(B \cap C)
  BY <1>1, FS_Union
<1>4. Cardinality(A) <= Cardinality(B \cup C) /\ IsFiniteSet(A)
  BY <1>2, <1>3, FS_Subset
<1>5. Cardinality(B \cap C) \in Nat
  <2>1. IsFiniteSet(B \cap C)
    BY <1>1, FS_Intersection
  <2> QED BY <2>1, FS_CardinalityType
<1>6. Cardinality(A) \in Nat /\ Cardinality(B) \in Nat /\ Cardinality(C) \in Nat
  BY <1>1, <1>4, FS_CardinalityType
<1>7. Cardinality(A) <= Cardinality(B) + Cardinality(C)
  <2> DEFINE x == Cardinality(B \cup C)
  <2>1. x \in Nat
    BY <1>3, FS_CardinalityType
  <2> QED BY <1>3, <1>4, <1>5, <1>6, <2>1
<1> QED BY <1>7 DEF CountIn, A, B, C

\* One time more.
LEMMA CountInAppend ==
  ASSUME NEW p \in Seq(Nat), NEW x \in Nat, NEW S
  PROVE  CountIn(Append(p, x), S) = CountIn(p, S) + IF x \in S THEN 1 ELSE 0
<1> DEFINE n == Len(p) + 1
           A == {i \in DOMAIN p : p[i] \in S}
           B == {i \in DOMAIN Append(p, x) : Append(p, x)[i] \in S}
<1>1. DOMAIN Append(p, x) = (1..Len(p)) \cup {n} /\ DOMAIN p = 1..Len(p) /\ n \notin 1..Len(p)
  OBVIOUS
<1>2. Append(p, x)[n] = x /\ \A i \in 1..Len(p) : Append(p, x)[i] = p[i]
  OBVIOUS
<1>3. B = (IF x \in S THEN A \cup {n} ELSE A) /\ n \notin A
  BY <1>1, <1>2
<1>4. IsFiniteSet(A) /\ Cardinality(A) \in Nat
  BY CountInFinite, FS_CardinalityType
<1> HIDE DEF A, B, n
<1>5. Cardinality(B) = Cardinality(A) + IF x \in S THEN 1 ELSE 0
  <2>1. Cardinality(A \cup {n}) = Cardinality(A) + 1
    BY <1>3, <1>4, FS_AddElement
  <2> QED BY <1>3, <1>4, <2>1
<1> QED BY <1>5 DEF A, B, CountIn

\* Times in the bucket's window, after the first of them, and before it but not
\* before t.
InBucket == {u \in Nat : u + Window >= bucket.reset}
AfterFirst == {u \in Nat : u + Window > bucket.reset}
EarlierFrom(t) == {u \in Nat : u >= t /\ u + Window < bucket.reset}
Stretch(t) == t..(t + Window - 1)

\* What holds of the limiter: its bucket began with a login that it let through.
LimiterInv ==
    /\ passed \in Seq(Nat) /\ now \in Ticks /\ attempts \in 0..MaxAttempts
    /\ bucket \in [count : 0..attempts, reset : 0..(now + Window)]
    /\ bucket.reset > 0 => bucket.count > 0
    /\ \A i \in DOMAIN passed : passed[i] < bucket.reset /\ passed[i] <= now
    /\ CountIn(passed, InBucket) <= MaxLogins /\ CountIn(passed, InBucket) <= bucket.count
    /\ CountIn(passed, AfterFirst) < MaxLogins
    /\ bucket.count > 0 => CountIn(passed, AfterFirst) < bucket.count
    /\ \A t \in Nat : t + 2 * Window > bucket.reset => CountIn(passed, EarlierFrom(t)) < MaxLogins
    /\ \A t \in Nat : CountIn(passed, Stretch(t)) < 2 * MaxLogins

\* Sessions are those that were born and have not ended, as they were born.
SessionsInv ==
    /\ \E n \in Nat : IsFiniteSet(DOMAIN born) /\ Cardinality(DOMAIN born) = n /\ DOMAIN born = 1..n
    /\ \A id \in DOMAIN born : born[id].role \in Roles /\ born[id].at \in Nat
    /\ ended \subseteq DOMAIN born /\ DOMAIN sessions \subseteq DOMAIN born \ ended
    /\ \A id \in DOMAIN sessions : sessions[id].role = born[id].role /\ sessions[id].expires = born[id].at + TTL
    /\ cookie \in [Browsers -> DOMAIN born \cup {NoSession}] /\ shown \in [Browsers -> DOMAIN born \cup {NoSession}]
    /\ write \in [Requests -> DOMAIN born \cup {NoSession, Token}]

\* The inductive invariant.
AdminInv == LimiterInv /\ SessionsInv

\* The constants
LEMMA AdminConstants ==
  /\ NoSession \notin Nat /\ Token \notin Nat /\ Token # NoSession
  /\ TTL \in Nat /\ Window \in Nat /\ MaxLogins \in Nat /\ TTL > 0 /\ Window > 0 /\ MaxLogins > 0
  /\ MaxNow \in Nat /\ MaxAttempts \in Nat
BY AdminAssumption

\* An attempt is counted, and let through as long as the bucket has room.
LEMMA AttemptKeepsTheLimiter ==
  ASSUME LimiterInv, Attempt, now' = now
  PROVE  LimiterInv'
<1>0. /\ passed \in Seq(Nat) /\ now \in Ticks /\ attempts \in 0..MaxAttempts
      /\ bucket \in [count : 0..attempts, reset : 0..(now + Window)]
      /\ bucket.reset > 0 => bucket.count > 0
      /\ \A i \in DOMAIN passed : passed[i] < bucket.reset /\ passed[i] <= now
      /\ CountIn(passed, InBucket) <= MaxLogins /\ CountIn(passed, InBucket) <= bucket.count
      /\ CountIn(passed, AfterFirst) < MaxLogins
      /\ bucket.count > 0 => CountIn(passed, AfterFirst) < bucket.count
      /\ \A t \in Nat : t + 2 * Window > bucket.reset => CountIn(passed, EarlierFrom(t)) < MaxLogins
      /\ \A t \in Nat : CountIn(passed, Stretch(t)) < 2 * MaxLogins
  BY DEF LimiterInv
<1>1. /\ Window \in Nat /\ Window > 0 /\ MaxLogins \in Nat /\ MaxLogins > 0 /\ MaxNow \in Nat /\ MaxAttempts \in Nat
      /\ now \in Nat /\ attempts \in Nat /\ bucket.count \in Nat /\ bucket.reset \in Nat
      /\ bucket = [count |-> bucket.count, reset |-> bucket.reset]
      /\ \A i \in DOMAIN passed : passed[i] \in Nat
  BY <1>0, AdminConstants DEF Ticks
<1>2. /\ attempts' = attempts + 1 /\ attempts < MaxAttempts
      /\ bucket' = [Bucket EXCEPT !.count = @ + 1]
      /\ passed' = IF bucket'.count <= MaxLogins THEN Append(passed, now) ELSE passed
  BY DEF Attempt
<1>3. /\ passed' \in Seq(Nat) /\ now' \in Ticks /\ attempts' \in 0..MaxAttempts
      /\ \A i \in DOMAIN passed' : passed'[i] <= now'
  <2>1. Append(passed, now) \in Seq(Nat) /\ \A i \in DOMAIN Append(passed, now) : Append(passed, now)[i] <= now
    BY <1>0, <1>1
  <2>2. attempts + 1 \in 0..MaxAttempts
    BY <1>1, <1>2
  <2> QED BY <1>0, <1>1, <1>2, <2>1, <2>2
<1>4. \A S : CountIn(passed, S) \in Nat
  BY <1>0, CountInFinite
<1>5. \A S : CountIn(Append(passed, now), S) = CountIn(passed, S) + IF now \in S THEN 1 ELSE 0
  BY <1>0, <1>1, CountInAppend
<1>6. CASE bucket.reset > now
  <2>1. bucket'.count = bucket.count + 1 /\ bucket'.reset = bucket.reset /\ bucket.count > 0
    BY <1>0, <1>1, <1>2, <1>6 DEF Bucket
  <2>2. bucket' \in [count : 0..attempts', reset : 0..(now' + Window)]
    <3>1. bucket' = [bucket EXCEPT !.count = @ + 1]
      BY <1>2, <1>6 DEF Bucket
    <3>2. bucket.count + 1 \in 0..(attempts + 1)
      BY <1>0, <1>1
    <3> QED BY <1>0, <1>2, <3>1, <3>2
  <2>3. InBucket' = InBucket /\ AfterFirst' = AfterFirst /\ (\A t \in Nat : EarlierFrom(t)' = EarlierFrom(t)) /\ \A t \in Nat : Stretch(t)' = Stretch(t)
    BY <2>1 DEF InBucket, AfterFirst, EarlierFrom, Stretch
  <2>0. /\ CountIn(passed, InBucket) + 1 <= bucket'.count /\ CountIn(passed, AfterFirst) + 1 < bucket'.count
        /\ bucket'.count \in Nat /\ CountIn(passed, InBucket) \in Nat /\ CountIn(passed, AfterFirst) \in Nat
    <3> DEFINE x == CountIn(passed, InBucket)
               y == CountIn(passed, AfterFirst)
    <3>1. x \in Nat /\ y \in Nat /\ x <= bucket.count /\ y < bucket.count
      BY <1>0, <1>4, <2>1
    <3>2. bucket.count \in Nat /\ bucket'.count = bucket.count + 1
      BY <1>1, <2>1
    <3> HIDE DEF x, y
    <3>3. x + 1 <= bucket'.count /\ y + 1 < bucket'.count /\ bucket'.count \in Nat
      BY <3>1, <3>2
    <3> QED BY <3>1, <3>3 DEF x, y
  <2>4. CASE bucket'.count <= MaxLogins
    <3>1. passed' = Append(passed, now)
      BY <1>2, <2>4
    <3>2. \A i \in DOMAIN passed' : passed'[i] < bucket'.reset
      BY <1>0, <1>1, <1>6, <2>1, <3>1
    <3>3. CountIn(passed', InBucket) <= CountIn(passed, InBucket) + 1
      BY <1>4, <1>5, <3>1
    <3>4. CountIn(passed', AfterFirst) <= CountIn(passed, AfterFirst) + 1
      BY <1>4, <1>5, <3>1
    <3>5. ASSUME NEW t \in Nat, t + 2 * Window > bucket.reset
          PROVE  CountIn(passed', EarlierFrom(t)) < MaxLogins
      <4>1. now \notin EarlierFrom(t)
        BY <1>0, <1>1 DEF EarlierFrom
      <4> QED BY <1>0, <1>4, <1>5, <3>1, <3>5, <4>1
    <3>6. ASSUME NEW t \in Nat
          PROVE  CountIn(passed', Stretch(t)) < 2 * MaxLogins
      <4>1. CASE now \notin Stretch(t)
        BY <1>0, <1>4, <1>5, <3>1, <4>1
      <4>2. CASE now \in Stretch(t)
        <5>1. t + 2 * Window > bucket.reset
          BY <1>0, <1>1, <4>2 DEF Stretch
        <5>2. CountIn(passed, Stretch(t)) <= CountIn(passed, EarlierFrom(t)) + CountIn(passed, InBucket)
          <6>1. \A i \in DOMAIN passed : passed[i] \in Stretch(t) => passed[i] \in EarlierFrom(t) \cup InBucket
            BY <1>1 DEF Stretch, EarlierFrom, InBucket
          <6> QED BY <1>0, <6>1, CountInParts
        <5>3. CountIn(passed, EarlierFrom(t)) < MaxLogins
          BY <1>0, <5>1
        <5>4. CountIn(passed', Stretch(t)) = CountIn(passed, Stretch(t)) + 1
          BY <1>5, <3>1, <4>2
        <5>5. CountIn(passed, InBucket) + 1 <= MaxLogins
          BY <1>0, <1>1, <1>4, <2>1, <2>4
        <5>6. ASSUME NEW a \in Nat, NEW b \in Nat, NEW c \in Nat, c <= a + b, a < MaxLogins, b + 1 <= MaxLogins
              PROVE  c + 1 < 2 * MaxLogins
          BY <1>1, <5>6
        <5> QED BY <1>4, <5>2, <5>3, <5>4, <5>5, <5>6
      <4> QED BY <4>1, <4>2
    <3>7. /\ CountIn(passed', InBucket) <= MaxLogins /\ CountIn(passed', InBucket) <= bucket'.count
          /\ CountIn(passed', AfterFirst) < MaxLogins /\ CountIn(passed', AfterFirst) < bucket'.count
      <4>1. CountIn(passed', InBucket) \in Nat /\ CountIn(passed', AfterFirst) \in Nat
        BY <1>3, CountInFinite
      <4>2. /\ CountIn(passed, InBucket) + 1 <= bucket'.count /\ CountIn(passed, InBucket) + 1 <= MaxLogins
            /\ CountIn(passed, AfterFirst) + 1 < bucket'.count /\ CountIn(passed, AfterFirst) + 1 < MaxLogins
        BY <2>4, <2>0, <1>1
      <4>3. CountIn(passed, InBucket) \in Nat /\ CountIn(passed, AfterFirst) \in Nat /\ bucket'.count \in Nat
        BY <1>1, <1>4, <2>1
      <4> QED BY <1>1, <3>3, <3>4, <4>1, <4>2, <4>3
    <3> QED BY <1>3, <2>1, <2>2, <2>3, <3>2, <3>5, <3>6, <3>7, <1>1 DEF LimiterInv
  <2>5. CASE ~(bucket'.count <= MaxLogins)
    <3>1. passed' = passed
      BY <1>2, <2>5
    <3>2. bucket.count < bucket'.count
      BY <1>1, <2>1
    <3>3. /\ CountIn(passed, InBucket) <= bucket'.count /\ CountIn(passed, AfterFirst) < bucket'.count
      BY <2>0
    <3> QED BY <1>0, <1>3, <2>1, <2>2, <2>3, <3>1, <3>3, <1>1 DEF LimiterInv
  <2> QED BY <2>4, <2>5
<1>7. CASE ~(bucket.reset > now)
  <2>1. bucket'.count = 1 /\ bucket'.reset = now + Window
    BY <1>1, <1>2, <1>7 DEF Bucket
  <2>2. bucket' \in [count : 0..attempts', reset : 0..(now' + Window)]
    BY <1>0, <1>1, <1>2, <1>7 DEF Bucket
  <2>3. passed' = Append(passed, now)
    BY <1>1, <1>2, <2>1
  <2>4. \A i \in DOMAIN passed' : passed'[i] < bucket'.reset
    BY <1>0, <1>1, <1>3, <2>1, <2>3
  <2>5. \A i \in DOMAIN passed : passed[i] < now
    BY <1>0, <1>1, <1>7
  <2>6. CountIn(passed', InBucket') = 1
    <3>1. \A i \in DOMAIN passed : passed[i] \notin InBucket'
      BY <1>1, <2>1, <2>5 DEF InBucket
    <3>2. now \in InBucket'
      BY <1>1, <2>1 DEF InBucket
    <3>3. CountIn(passed, InBucket') = 0
      BY <1>0, <3>1, CountInNone
    <3> QED BY <1>5, <2>3, <3>2, <3>3
  <2>7. CountIn(passed', AfterFirst') = 0
    <3>1. \A i \in DOMAIN passed : passed[i] \notin AfterFirst'
      BY <1>1, <2>1, <2>5 DEF AfterFirst
    <3>2. now \notin AfterFirst'
      BY <1>1, <2>1 DEF AfterFirst
    <3>3. CountIn(passed, AfterFirst') = 0
      BY <1>0, <3>1, CountInNone
    <3> QED BY <1>5, <2>3, <3>2, <3>3
  <2>8. ASSUME NEW t \in Nat, t + Window > now, NEW S, \A i \in DOMAIN passed : passed[i] \in S => passed[i] >= t
        PROVE  CountIn(passed, S) < MaxLogins
    <3>1. \A i \in DOMAIN passed : passed[i] \in S => passed[i] \in AfterFirst \cup {}
      BY <1>1, <1>7, <2>8 DEF AfterFirst
    <3>2. CountIn(passed, S) <= CountIn(passed, AfterFirst) + CountIn(passed, {})
      BY <1>0, <3>1, CountInParts
    <3>3. CountIn(passed, {}) = 0
      BY <1>0, CountInNone
    <3> QED BY <1>0, <1>1, <1>4, <3>2, <3>3
  <2>9. ASSUME NEW t \in Nat, t + 2 * Window > bucket'.reset
        PROVE  CountIn(passed', EarlierFrom(t)') < MaxLogins
    <3>1. now \notin EarlierFrom(t)'
      BY <1>1, <2>1 DEF EarlierFrom
    <3>2. t + Window > now /\ \A i \in DOMAIN passed : passed[i] \in EarlierFrom(t)' => passed[i] >= t
      BY <1>1, <2>1, <2>9 DEF EarlierFrom
    <3>3. CountIn(passed, EarlierFrom(t)') < MaxLogins
      BY <2>8, <3>2
    <3> QED BY <1>4, <1>5, <2>3, <3>1, <3>3
  <2>10. ASSUME NEW t \in Nat
         PROVE  CountIn(passed', Stretch(t)) < 2 * MaxLogins
    <3>1. CASE now \notin Stretch(t)
      BY <1>0, <1>4, <1>5, <2>3, <3>1
    <3>2. CASE now \in Stretch(t)
      <4>1. t + Window > now /\ \A i \in DOMAIN passed : passed[i] \in Stretch(t) => passed[i] >= t
        BY <1>1, <3>2 DEF Stretch
      <4>2. CountIn(passed, Stretch(t)) < MaxLogins
        BY <2>8, <4>1
      <4>3. CountIn(passed', Stretch(t)) = CountIn(passed, Stretch(t)) + 1
        BY <1>5, <2>3, <3>2
      <4> QED BY <1>1, <1>4, <4>2, <4>3
    <3> QED BY <3>1, <3>2
  <2>11. \A t \in Nat : Stretch(t)' = Stretch(t)
    BY DEF Stretch
  <2> QED BY <1>1, <1>3, <2>1, <2>2, <2>4, <2>6, <2>7, <2>9, <2>10, <2>11 DEF LimiterInv
<1> QED BY <1>6, <1>7

\* A restart forgets the logins, and time may pass.
LimiterEmpty ==
    now \in Ticks /\ attempts \in 0..MaxAttempts /\ bucket = [count |-> 0, reset |-> 0] /\ passed = <<>>

\* A limiter that has seen nothing (rate-limit.js 9).
LEMMA EmptyLimiter ==
  ASSUME LimiterEmpty
  PROVE  LimiterInv
<1> USE DEF LimiterEmpty
<1>1. passed \in Seq(Nat) /\ DOMAIN passed = {}
  OBVIOUS
<1>2. \A S : CountIn(passed, S) = 0
  BY <1>1, CountInNone
<1>3. now + Window \in Nat /\ attempts \in Nat /\ MaxLogins \in Nat /\ MaxLogins > 0
  BY AdminConstants DEF Ticks
<1> QED BY <1>1, <1>2, <1>3 DEF LimiterInv

\* The clock alone brings no login through.
LEMMA LimiterStays ==
  ASSUME LimiterInv, now' \in Ticks, now' >= now, UNCHANGED <<bucket, attempts, passed>>
  PROVE  LimiterInv'
<1>1. now \in Nat /\ now' \in Nat /\ Window \in Nat
  BY AdminConstants DEF LimiterInv, Ticks
<1>2. InBucket' = InBucket /\ AfterFirst' = AfterFirst /\ (\A t \in Nat : EarlierFrom(t)' = EarlierFrom(t)) /\ \A t \in Nat : Stretch(t)' = Stretch(t)
  BY DEF InBucket, AfterFirst, EarlierFrom, Stretch
<1>3. bucket' \in [count : 0..attempts', reset : 0..(now' + Window)]
  BY <1>1 DEF LimiterInv
<1>4. \A i \in DOMAIN passed : passed[i] \in Nat /\ passed[i] <= now => passed[i] <= now'
  BY <1>1
<1>5. \A i \in DOMAIN passed : passed[i] \in Nat
  BY DEF LimiterInv
<1> QED BY <1>2, <1>3, <1>4, <1>5 DEF LimiterInv


\* A new session is the next number, and only it is put into the map.
LEMMA LogInKeepsSessions ==
  ASSUME SessionsInv, now \in Nat, NEW b \in Browsers, NEW role \in Roles, LogIn(b, role)
  PROVE  SessionsInv'
<1>1. PICK n \in Nat : IsFiniteSet(DOMAIN born) /\ Cardinality(DOMAIN born) = n /\ DOMAIN born = 1..n
  BY DEF SessionsInv
<1> DEFINE id == n + 1
<1>2. /\ sessions' = Added(Pruned, id, NewSession(role))
      /\ born' = Added(born, id, [role |-> role, at |-> now])
      /\ cookie' = [cookie EXCEPT ![b] = id]
      /\ shown' = shown /\ write' = write /\ ended' = ended
  BY <1>1 DEF LogIn
<1>3. id \notin DOMAIN born /\ id \in Nat
  BY <1>1
<1>4. /\ DOMAIN born' = DOMAIN born \cup {id} /\ born'[id] = [role |-> role, at |-> now]
      /\ \A x \in DOMAIN born : born'[x] = born[x]
  BY <1>2, <1>3 DEF Added
<1>5. DOMAIN Pruned \subseteq DOMAIN sessions /\ \A x \in DOMAIN Pruned : Pruned[x] = sessions[x]
  BY DEF Pruned
<1>6. id \notin DOMAIN Pruned /\ id \notin ended
  BY <1>3, <1>5 DEF SessionsInv
<1>7. /\ DOMAIN sessions' = DOMAIN Pruned \cup {id} /\ sessions'[id] = [role |-> role, expires |-> now + TTL]
      /\ \A x \in DOMAIN Pruned : sessions'[x] = sessions[x]
  BY <1>2, <1>5, <1>6 DEF Added, NewSession
<1>8. \E m \in Nat : IsFiniteSet(DOMAIN born') /\ Cardinality(DOMAIN born') = m /\ DOMAIN born' = 1..m
  <2>1. DOMAIN born' = 1..(n + 1)
    BY <1>1, <1>4
  <2>2. IsFiniteSet(1..(n + 1)) /\ Cardinality(1..(n + 1)) = n + 1
    BY <1>1, FS_Interval
  <2> QED BY <2>1, <2>2
<1>9. \A x \in DOMAIN born' : born'[x].role \in Roles /\ born'[x].at \in Nat
  BY <1>3, <1>4 DEF SessionsInv
<1>10. ended' \subseteq DOMAIN born' /\ DOMAIN sessions' \subseteq DOMAIN born' \ ended'
  BY <1>2, <1>4, <1>5, <1>6, <1>7 DEF SessionsInv
<1>11. \A x \in DOMAIN sessions' : sessions'[x].role = born'[x].role /\ sessions'[x].expires = born'[x].at + TTL
  <2>1. \A x \in DOMAIN Pruned : x \in DOMAIN born /\ sessions[x].role = born[x].role /\ sessions[x].expires = born[x].at + TTL
    BY <1>5 DEF SessionsInv
  <2> HIDE DEF id
  <2> QED BY <1>4, <1>7, <2>1
<1>12. /\ cookie' \in [Browsers -> DOMAIN born' \cup {NoSession}] /\ shown' \in [Browsers -> DOMAIN born' \cup {NoSession}]
       /\ write' \in [Requests -> DOMAIN born' \cup {NoSession, Token}]
  BY <1>2, <1>4 DEF SessionsInv
<1> QED BY <1>8, <1>9, <1>10, <1>11, <1>12 DEF SessionsInv

\* The others take sessions away, if any.
LEMMA LessSessions ==
  ASSUME SessionsInv, born' = born, ended' \subseteq DOMAIN born,
         DOMAIN sessions' \subseteq DOMAIN sessions \ ended', \A x \in DOMAIN sessions' : sessions'[x] = sessions[x],
         cookie' \in [Browsers -> DOMAIN born \cup {NoSession}], shown' \in [Browsers -> DOMAIN born \cup {NoSession}],
         write' \in [Requests -> DOMAIN born \cup {NoSession, Token}]
  PROVE  SessionsInv'
BY DEF SessionsInv

\* Looking a session up only takes expired ones away (admin-session.js 31-40).
LEMMA LookedIsLess ==
  ASSUME NEW id, SessionsInv
  PROVE  /\ DOMAIN Looked(id) \subseteq DOMAIN sessions \ ended /\ ended \subseteq DOMAIN born
         /\ \A x \in DOMAIN Looked(id) : Looked(id)[x] = sessions[x]
BY DEF Looked, SessionsInv

\* Every step of the office's clients and of the server keeps it.
LEMMA AdminInvIsInductive ==
  ASSUME AdminInv, [AdminNext]_adminVars
  PROVE  AdminInv'
<1>0. LimiterInv /\ SessionsInv /\ now \in Ticks /\ now \in Nat /\ MaxNow \in Nat
  BY AdminConstants DEF AdminInv, LimiterInv, Ticks
<1>1. CASE LoginRefused
  <2>1. Attempt /\ now' = now
    BY <1>1 DEF LoginRefused
  <2>2. SessionsInv'
    BY <1>0, <1>1 DEF LoginRefused, SessionsInv
  <2> QED BY <1>0, <2>1, <2>2, AttemptKeepsTheLimiter DEF AdminInv
<1>2. CASE RestartServer
  <2>1. bucket' = [count |-> 0, reset |-> 0] /\ passed' = <<>> /\ now' \in Ticks /\ attempts' \in 0..MaxAttempts
    BY <1>0, <1>2 DEF RestartServer, LimiterInv
  <2>2. LimiterInv'
    <3>1. LimiterEmpty'
      BY <2>1 DEF LimiterEmpty, Ticks
    <3>2. LimiterEmpty' => LimiterInv'
      BY EmptyLimiter, PTL
    <3> QED BY <3>1, <3>2
  <2>3. SessionsInv'
    <3>1. DOMAIN sessions' = {}
      BY <1>2 DEF RestartServer
    <3> QED BY <1>0, <1>2, <3>1 DEF RestartServer, SessionsInv
  <2> QED BY <2>2, <2>3 DEF AdminInv
<1>3. CASE TimeGoes
  <2>1. now' \in Ticks /\ now' >= now
    BY <1>0, <1>3 DEF TimeGoes, Ticks
  <2>2. UNCHANGED <<sessions, bucket, cookie, shown, write, attempts, born, ended, passed>>
    BY <1>3 DEF TimeGoes
  <2>3. SessionsInv'
    BY <1>0, <2>2 DEF SessionsInv
  <2> QED BY <1>0, <2>1, <2>2, <2>3, LimiterStays DEF AdminInv
<1>4. ASSUME NEW b \in Browsers, ReadPage(b) PROVE AdminInv'
  <2>1. UNCHANGED <<bucket, attempts, passed, now>> /\ now' \in Ticks /\ now' >= now
    BY <1>0, <1>4 DEF ReadPage
  <2>2. shown' \in [Browsers -> DOMAIN born \cup {NoSession}]
    BY <1>0, <1>4 DEF ReadPage, SessionsInv, Found
  <2>3. SessionsInv'
    <3>1. sessions' = Looked(cookie[b]) /\ UNCHANGED <<born, ended, cookie, write>>
      BY <1>4 DEF ReadPage
    <3>2. cookie \in [Browsers -> DOMAIN born \cup {NoSession}] /\ write \in [Requests -> DOMAIN born \cup {NoSession, Token}]
      BY <1>0 DEF SessionsInv
    <3> QED BY <1>0, <2>2, <3>1, <3>2, LookedIsLess, LessSessions
  <2> QED BY <1>0, <2>1, <2>3, LimiterStays DEF AdminInv
<1>5. ASSUME NEW b \in Browsers, LogOut(b) PROVE AdminInv'
  <2>1. UNCHANGED <<bucket, attempts, passed, now>> /\ now' \in Ticks /\ now' >= now
    BY <1>0, <1>5 DEF LogOut
  <2>2. SessionsInv'
    <3>1. /\ sessions' = [id \in DOMAIN sessions \ {cookie[b]} |-> sessions[id]]
          /\ ended' = ended \cup {cookie[b]} /\ cookie' = [cookie EXCEPT ![b] = NoSession]
          /\ UNCHANGED <<born, shown, write>> /\ cookie[b] \in DOMAIN sessions
      BY <1>5 DEF LogOut, Found
    <3>2. cookie' \in [Browsers -> DOMAIN born \cup {NoSession}] /\ ended' \subseteq DOMAIN born
      BY <1>0, <3>1 DEF SessionsInv
    <3>3. DOMAIN sessions' \subseteq DOMAIN sessions \ ended' /\ \A x \in DOMAIN sessions' : sessions'[x] = sessions[x]
      BY <1>0, <3>1 DEF SessionsInv
    <3>4. shown' \in [Browsers -> DOMAIN born \cup {NoSession}] /\ write' \in [Requests -> DOMAIN born \cup {NoSession, Token}]
      BY <1>0, <3>1 DEF SessionsInv
    <3> QED BY <1>0, <3>1, <3>2, <3>3, <3>4, LessSessions
  <2> QED BY <1>0, <2>1, <2>2, LimiterStays DEF AdminInv
<1>6. ASSUME NEW b \in Browsers, NEW role \in Roles, LogIn(b, role) PROVE AdminInv'
  <2>1. Attempt /\ now' = now
    BY <1>6 DEF LogIn
  <2> QED BY <1>0, <1>6, <2>1, AttemptKeepsTheLimiter, LogInKeepsSessions DEF AdminInv
<1>7. ASSUME NEW r \in Requests, WriteDone(r) PROVE AdminInv'
  <2>1. UNCHANGED <<bucket, attempts, passed, now>> /\ now' \in Ticks /\ now' >= now
    BY <1>0, <1>7 DEF WriteDone
  <2>2. SessionsInv'
    BY <1>0, <1>7 DEF WriteDone, SessionsInv
  <2> QED BY <1>0, <2>1, <2>2, LimiterStays DEF AdminInv
<1>8. ASSUME NEW r \in Requests, NEW b \in Browsers, Post(r, b) PROVE AdminInv'
  <2>1. UNCHANGED <<bucket, attempts, passed, now>> /\ now' \in Ticks /\ now' >= now
    BY <1>0, <1>8 DEF Post
  <2>2. write' \in [Requests -> DOMAIN born \cup {NoSession, Token}]
    BY <1>0, <1>8 DEF Post, SessionsInv, Accepts, Found
  <2>3. SessionsInv'
    <3>1. sessions' = Looked(cookie[b]) /\ UNCHANGED <<born, ended, cookie, shown>>
      BY <1>8 DEF Post
    <3>2. cookie \in [Browsers -> DOMAIN born \cup {NoSession}] /\ shown \in [Browsers -> DOMAIN born \cup {NoSession}]
      BY <1>0 DEF SessionsInv
    <3> QED BY <1>0, <2>2, <3>1, <3>2, LookedIsLess, LessSessions
  <2> QED BY <1>0, <2>1, <2>3, LimiterStays DEF AdminInv
<1>9. ASSUME NEW r \in Requests, NEW role \in Roles, PostWithToken(r, role) PROVE AdminInv'
  <2>1. UNCHANGED <<bucket, attempts, passed, now>> /\ now' \in Ticks /\ now' >= now
    BY <1>0, <1>9 DEF PostWithToken
  <2>2. SessionsInv'
    BY <1>0, <1>9 DEF PostWithToken, SessionsInv
  <2> QED BY <1>0, <2>1, <2>2, LimiterStays DEF AdminInv
<1>10. CASE UNCHANGED adminVars
  <2>1. UNCHANGED <<bucket, attempts, passed, now>> /\ now' \in Ticks /\ now' >= now
    BY <1>0, <1>10 DEF adminVars
  <2>2. SessionsInv'
    BY <1>0, <1>10 DEF adminVars, SessionsInv
  <2> QED BY <1>0, <2>1, <2>2, LimiterStays DEF AdminInv
<1> QED BY <1>1, <1>2, <1>3, <1>4, <1>5, <1>6, <1>7, <1>8, <1>9, <1>10 DEF AdminNext

\* Only a live session of the full role lets a write through.
LEMMA WritesAreGuarded ==
  ASSUME AdminInv, [AdminNext]_adminVars
  PROVE  WriteHasALiveSession
<1>0. SessionsInv /\ DOMAIN born \subseteq Nat /\ NoSession \notin DOMAIN born /\ Token \notin DOMAIN born
  BY AdminConstants DEF AdminInv, SessionsInv
<1>1. SUFFICES ASSUME NEW r \in Requests, write[r] = NoSession, write'[r] \in DOMAIN born
               PROVE  LET id == write'[r] IN
                      /\ id \notin ended /\ now < born[id].at + TTL /\ born[id].role = "FULL_ADMIN"
                      /\ \E b \in Browsers : cookie[b] = id /\ shown[b] = id
  BY DEF WriteHasALiveSession
<1>2. write'[r] # write[r]
  BY <1>0, <1>1
<1>3. write \in [Requests -> DOMAIN born \cup {NoSession, Token}]
  BY <1>0 DEF SessionsInv
<1>4. PICK q \in Requests, b \in Browsers : Post(q, b)
  <2>1. ~LoginRefused /\ ~TimeGoes /\ ~(UNCHANGED adminVars)
    BY <1>2 DEF LoginRefused, TimeGoes, adminVars
  <2>2. ~RestartServer
    BY <1>0, <1>1 DEF RestartServer
  <2>3. \A b \in Browsers : ~ReadPage(b) /\ ~LogOut(b) /\ \A role \in Roles : ~LogIn(b, role)
    BY <1>2 DEF ReadPage, LogOut, LogIn
  <2>4. \A q \in Requests : ~WriteDone(q)
    BY <1>0, <1>1, <1>2, <1>3 DEF WriteDone
  <2>5. \A q \in Requests, role \in Roles : ~PostWithToken(q, role)
    BY <1>0, <1>1, <1>2, <1>3 DEF PostWithToken
  <2> QED BY <2>1, <2>2, <2>3, <2>4, <2>5 DEF AdminNext
<1>5. r = q /\ Accepts(b) /\ write'[r] = cookie[b]
  BY <1>2, <1>3, <1>4 DEF Post
<1>6. /\ cookie[b] \in DOMAIN sessions /\ sessions[cookie[b]].expires > now
      /\ sessions[cookie[b]].role # "READ_ONLY" /\ shown[b] = cookie[b]
  BY <1>5 DEF Accepts, Found, CsrfOf
<1>7. /\ cookie[b] \notin ended /\ cookie[b] \in DOMAIN born
      /\ born[cookie[b]].at + TTL > now /\ born[cookie[b]].role = "FULL_ADMIN"
  BY <1>0, <1>6 DEF SessionsInv, Roles
<1>8. now \in Nat /\ TTL \in Nat /\ born[cookie[b]].at \in Nat
  BY <1>0, <1>7, AdminConstants DEF AdminInv, LimiterInv, Ticks, SessionsInv
<1> QED BY <1>5, <1>6, <1>7, <1>8

\* What follows from it in a state.
LEMMA AdminInvImplies ==
  ASSUME AdminInv
  PROVE  AdminTypeOK /\ LoginsPerWindow
<1>1. /\ now \in Nat /\ MaxNow \in Nat /\ now <= MaxNow /\ attempts \in Nat /\ attempts <= MaxAttempts
      /\ MaxAttempts \in Nat /\ Window \in Nat /\ bucket \in [count : 0..attempts, reset : 0..(now + Window)]
  BY AdminConstants DEF AdminInv, LimiterInv, Ticks
<1>2. bucket \in [count : 0..MaxAttempts, reset : 0..(MaxNow + Window)]
  BY <1>1
<1>3. LoginsPerWindow
  BY AdminConstants DEF AdminInv, LimiterInv, LoginsPerWindow, CountIn, Stretch, Ticks
<1> QED BY <1>2, <1>3 DEF AdminTypeOK, AdminInv, SessionsInv

\* The process starts without sessions and attempts.
LEMMA AdminStarts ==
  ASSUME AdminInit
  PROVE  AdminInv
<1>1. LimiterInv
  BY AdminConstants, EmptyLimiter DEF AdminInit, Ticks, LimiterEmpty
<1>2. SessionsInv
  <2>1. DOMAIN born = {} /\ DOMAIN sessions = {} /\ 1..0 = {} /\ 0 \in Nat
    BY DEF AdminInit
  <2>2. IsFiniteSet({}) /\ Cardinality({}) = 0
    BY FS_EmptySet
  <2> QED BY <2>1, <2>2 DEF AdminInit, SessionsInv
<1> QED BY <1>1, <1>2 DEF AdminInv

(* For every number of clients, sessions and attempts, the limiter's count and
   window are within those that there may be, a session that is kept has not
   ended, and cookies are of logins (rate-limit.js 9-30, admin-session.js 14-40). *)
THEOREM AdminStaysTyped == AdminSpec => []AdminTypeOK
<1>1. AdminInv => AdminTypeOK
  BY AdminInvImplies
<1>2. AdminInv /\ [AdminNext]_adminVars => AdminInv'
  BY AdminInvIsInductive
<1> QED BY <1>1, <1>2, AdminStarts, PTL DEF AdminSpec

(* For every number of browsers, sessions, attempts and requests, and every
   limit, window and time to live: a write is let through only of a session with
   the full role that is alive, from a page read with it, and in any stretch of a
   window's length fewer than twice the limit of logins pass (requireAdmin.js
   103-117, admin-session.js 31-40, rate-limit.js 9-30). *)
THEOREM OfficeIsGuarded == AdminSpec => WritesAndLoginsAreGuarded
<1>1. AdminInv /\ [AdminNext]_adminVars => WriteHasALiveSession /\ LoginsPerWindow'
  <2>1. SUFFICES ASSUME AdminInv, [AdminNext]_adminVars PROVE WriteHasALiveSession /\ LoginsPerWindow'
    OBVIOUS
  <2>2. AdminInv'
    BY <2>1, AdminInvIsInductive
  <2>3. AdminInv' => LoginsPerWindow'
    BY AdminInvImplies, PTL
  <2> QED BY <2>1, <2>2, <2>3, WritesAreGuarded
<1>2. AdminInv /\ [AdminNext]_adminVars => AdminInv'
  BY AdminInvIsInductive
<1> QED BY <1>1, <1>2, AdminStarts, PTL DEF AdminSpec, WritesAndLoginsAreGuarded

-----------------------------------------------------------------------------
(* WorkSummary: the totals of a day, by induction over the entries that the pass
   has read. *)

\* A set of naturals that is not empty has a least element.
LEMMA LeastOf ==
  ASSUME NEW S, S \subseteq Nat, S # {}
  PROVE  \E x \in S : \A y \in S : x =< y
<1> DEFINE Less == {p \in Nat \X Nat : p[1] < p[2]}
<1>1. IsWellFoundedOn(Less, Nat)
  BY NatLessThanWellFounded DEF OpToRel
<1>2. PICK x \in S : \A y \in S : ~(<<y, x>> \in Less)
  <2> HIDE DEF Less
  <2> QED BY <1>1, WFMin
<1>3. ASSUME NEW y \in S PROVE x =< y
  <2>1. <<y, x>> \in Nat \X Nat => ~(y < x)
    BY <1>2
  <2> QED BY <2>1
<1> QED BY <1>3

\* What holds of 0, and of n + 1 if of n, holds of every number up to N: G are
\* the numbers it holds of.
LEMMA UpTo ==
  ASSUME NEW N \in Nat, NEW G, 0 \in G, \A n \in 0..N : n \in G /\ n < N => n + 1 \in G
  PROVE  \A n \in 0..N : n \in G
<1> DEFINE Bad == {n \in 0..N : n \notin G}
<1>1. SUFFICES ASSUME Bad # {} PROVE FALSE
  OBVIOUS
<1>2. PICK x \in Bad : \A y \in Bad : x =< y
  <2>1. Bad \subseteq Nat
    OBVIOUS
  <2> HIDE DEF Bad
  <2> QED BY <1>1, <2>1, LeastOf
<1>3. x \in 0..N /\ x # 0 /\ x \notin G
  OBVIOUS
<1>4. x - 1 \in 0..N /\ x - 1 < N /\ x - 1 + 1 = x /\ ~(x =< x - 1)
  BY <1>3
<1>5. x - 1 \notin Bad
  BY <1>2, <1>4
<1> QED BY <1>3, <1>4, <1>5

\* One turn of the loop (work-time-status.js 111-130).
Turn(s, e) == IF Counts(e) THEN AddEntry(s, e) ELSE SkipEntry(s, e)

\* The summary after each entry is that of the loop: there is such a function.
LEMMA SummaryIs ==
  ASSUME entries \in Seq(Entry)
  PROVE  /\ summary[0] = Nothing
         /\ \A n \in 1..Len(entries) : summary[n] = Turn(summary[n - 1], entries[n])
<1> DEFINE N == Len(entries)
           Law(g, n) == g = [k \in 0..n |-> IF k = 0 THEN Nothing ELSE Turn(g[k - 1], entries[k])]
           G == {n \in Nat : \E g : Law(g, n)}
<1>1. N \in Nat
  OBVIOUS
<1>2. 0 \in G
  <2>1. Law([k \in 0..0 |-> Nothing], 0)
    OBVIOUS
  <2> QED BY <2>1
<1>3. ASSUME NEW n \in 0..N, n \in G PROVE n + 1 \in G
  <2>1. PICK g : Law(g, n)
    BY <1>3
  <2> DEFINE h == [k \in 0..(n + 1) |-> IF k = n + 1 THEN Turn(g[n], entries[n + 1]) ELSE g[k]]
  <2>2. ASSUME NEW k \in 0..(n + 1)
        PROVE  h[k] = IF k = 0 THEN Nothing ELSE Turn(h[k - 1], entries[k])
    <3>1. CASE k = n + 1
      <4>1. k # 0 /\ k - 1 = n /\ n \in 0..(n + 1) /\ n # n + 1
        BY <3>1
      <4> QED BY <3>1, <4>1
    <3>2. CASE k # n + 1
      <4>1. k \in 0..n /\ (k # 0 => k - 1 \in 0..(n + 1) /\ k - 1 # n + 1)
        BY <3>2
      <4>2. g[k] = IF k = 0 THEN Nothing ELSE Turn(g[k - 1], entries[k])
        BY <2>1, <4>1
      <4> QED BY <3>2, <4>1, <4>2
    <3> QED BY <3>1, <3>2
  <2>3. h = [k \in 0..(n + 1) |-> IF k = 0 THEN Nothing ELSE Turn(h[k - 1], entries[k])]
    <3>1. h = [k \in 0..(n + 1) |-> h[k]]
      OBVIOUS
    <3> HIDE DEF h
    <3> QED BY <2>2, <3>1
  <2>4. Law(h, n + 1)
    BY <2>3
  <2>5. n + 1 \in Nat
    BY <1>1
  <2> HIDE DEF h, Law
  <2> QED BY <2>4, <2>5
<1>4. \E g : Law(g, N)
  <2>1. N \in G
    <3>1. \A n \in 0..N : n \in G /\ n < N => n + 1 \in G
      BY <1>3
    <3>2. N \in 0..N
      BY <1>1
    <3> HIDE DEF G, N
    <3> QED BY <1>1, <1>2, <3>1, <3>2, UpTo
  <2> QED BY <2>1
<1>5. summary = CHOOSE g : Law(g, N)
  BY DEF summary, Turn
<1>6. Law(summary, N)
  BY <1>4, <1>5
<1>7. \A k \in 0..N : summary[k] = IF k = 0 THEN Nothing ELSE Turn(summary[k - 1], entries[k])
  BY <1>6
<1> QED BY <1>1, <1>7


\* The entries among the first n that count, with a status, or with an active one.
CountedIn(n) == {i \in 1..n : Counts(entries[i])}
ActiveIn(n) == {i \in CountedIn(n) : Active(entries[i].status)}
OfStatus(n, s) == {i \in CountedIn(n) : entries[i].status = s}
Covered(S) == UNION {Moments(i) : i \in S}

\* What two entries share.
Overlapping(n) == \E i, j \in CountedIn(n) : i # j /\ Moments(i) \cap Moments(j) # {}

\* What summarizeEntries builds.
Summary == [ms : [WorkStatuses -> Nat], totalMs : Nat, previousEnd : Nat,
            anomalies : SUBSET {"OVERLAP", "INVALID_DURATION", "LONG_SEGMENT", "FUTURE_TIME"}]

\* What the loop knows after n entries.
Known(n) ==
    LET s == summary[n] IN
    /\ s \in Summary
    /\ CountedIn(n) = {} => s.previousEnd = 0
    /\ CountedIn(n) # {} => \E l \in CountedIn(n) : (\A i \in CountedIn(n) : i <= l) /\ s.previousEnd = EndOf(entries[l])
    /\ "OVERLAP" \in s.anomalies <=> Overlapping(n)
    /\ "OVERLAP" \notin s.anomalies =>
          /\ s.totalMs = Cardinality(Covered(ActiveIn(n)))
          /\ \A x \in WorkStatuses : s.ms[x] = Cardinality(Covered(OfStatus(n, x)))
    /\ s.totalMs >= Cardinality(Covered(ActiveIn(n)))

\* Times and lengths of entries.
LEMMA EntryTimes ==
  ASSUME SummaryTypeOK, NEW i \in 1..Len(entries)
  PROVE  /\ entries[i] \in Entry /\ entries[i].start \in Nat /\ EndOf(entries[i]) \in Nat
         /\ entries[i].status \in WorkStatuses
         /\ \A j \in i..Len(entries) : entries[i].start <= entries[j].start
<1>1. entries[i] \in Entry
  BY DEF SummaryTypeOK
<1>2. \A j \in i..Len(entries) : entries[i].start <= entries[j].start
  BY <1>1 DEF SummaryTypeOK, Entry, Clock
<1> QED BY <1>1, <1>2 DEF SummaryTypeOK, Entry, Clock, EndOf

\* The moments of an entry are as many as it is long.
LEMMA MomentsOf ==
  ASSUME SummaryTypeOK, NEW i \in 1..Len(entries), Counts(entries[i])
  PROVE  /\ IsFiniteSet(Moments(i))
         /\ Cardinality(Moments(i)) = EndOf(entries[i]) - entries[i].start
         /\ entries[i].start \in Moments(i)
<1> DEFINE a == entries[i].start
           b == EndOf(entries[i])
<1>1. a \in Nat /\ b \in Nat /\ b > a /\ Moments(i) = a..(b - 1)
  BY EntryTimes DEF Counts, Moments
<1> HIDE DEF a, b
<1>2. IsFiniteSet(a..(b - 1)) /\ Cardinality(a..(b - 1)) = b - a
  BY <1>1, FS_Interval
<1>3. a \in a..(b - 1)
  BY <1>1
<1> QED BY <1>1, <1>2, <1>3 DEF a, b

\* What any entries cover is finite.
LEMMA CoveredFinite ==
  ASSUME SummaryTypeOK, NEW S, S \subseteq CountedIn(Len(entries))
  PROVE  IsFiniteSet(Covered(S))
<1>1. \A i \in S : IsFiniteSet(Moments(i))
  BY MomentsOf DEF CountedIn
<1>2. IsFiniteSet(S)
  <2>1. IsFiniteSet(1..Len(entries))
    BY FS_Interval DEF SummaryTypeOK
  <2> QED BY <2>1, FS_Subset DEF CountedIn
<1> DEFINE M == {Moments(i) : i \in S}
           f == [i \in S |-> Moments(i)]
<1>3. f \in Surjection(S, M)
  BY DEF Surjection
<1>4. \A T \in M : IsFiniteSet(T)
  BY <1>1
<1>5. Covered(S) = UNION M
  BY DEF Covered
<1> HIDE DEF M, f
<1>6. IsFiniteSet(M)
  BY <1>2, <1>3, FS_Surjection
<1> QED BY <1>4, <1>5, <1>6, FS_UNION

\* One entry more covers so many moments more, and less if it shares some.
LEMMA CoveredMore ==
  ASSUME SummaryTypeOK, NEW S, S \subseteq CountedIn(Len(entries)), NEW i \in CountedIn(Len(entries))
  PROVE  LET ms == EndOf(entries[i]) - entries[i].start IN
         /\ Cardinality(Covered(S)) \in Nat /\ ms \in Nat
         /\ Cardinality(Covered(S \cup {i})) <= Cardinality(Covered(S)) + ms
         /\ (\A j \in S : Moments(j) \cap Moments(i) = {}) =>
               Cardinality(Covered(S \cup {i})) = Cardinality(Covered(S)) + ms
<1> DEFINE A == Covered(S)
           B == Moments(i)
<1>1. IsFiniteSet(A)
  BY CoveredFinite
<1>2. IsFiniteSet(B) /\ Cardinality(B) = EndOf(entries[i]) - entries[i].start
  BY MomentsOf DEF CountedIn
<1>3. Covered(S \cup {i}) = A \cup B
  BY DEF Covered
<1>4. (\A j \in S : Moments(j) \cap Moments(i) = {}) => A \cap B = {}
  BY DEF Covered
<1> HIDE DEF A, B
<1>5. Cardinality(A \cup B) = Cardinality(A) + Cardinality(B) - Cardinality(A \cap B)
  BY <1>1, <1>2, FS_Union
<1>6. Cardinality(A) \in Nat /\ Cardinality(B) \in Nat /\ Cardinality(A \cap B) \in Nat
  <2>1. IsFiniteSet(A \cap B)
    BY <1>1, FS_Intersection
  <2> QED BY <1>1, <1>2, <2>1, FS_CardinalityType
<1>7. A \cap B = {} => Cardinality(A \cap B) = 0
  BY FS_EmptySet
<1>8. /\ Cardinality(A \cup B) <= Cardinality(A) + Cardinality(B)
      /\ A \cap B = {} => Cardinality(A \cup B) = Cardinality(A) + Cardinality(B)
  BY <1>5, <1>6, <1>7
<1> QED BY <1>2, <1>3, <1>4, <1>6, <1>8 DEF A

\* What one turn of the loop does to a summary.
LEMMA AddEntryTo ==
  ASSUME NEW s \in Summary, NEW e, e.status \in WorkStatuses, e.start \in Nat, EndOf(e) \in Nat, Counts(e)
  PROVE  LET ms == EndOf(e) - e.start IN
         /\ AddEntry(s, e) \in Summary
         /\ AddEntry(s, e).previousEnd = EndOf(e)
         /\ AddEntry(s, e).totalMs = s.totalMs + IF Active(e.status) THEN ms ELSE 0
         /\ \A x \in WorkStatuses : AddEntry(s, e).ms[x] = IF x = e.status THEN s.ms[x] + ms ELSE s.ms[x]
         /\ "OVERLAP" \in AddEntry(s, e).anomalies <=> "OVERLAP" \in s.anomalies \/ e.start < s.previousEnd
<1> DEFINE d == EndOf(e) - e.start
           t == AddEntry(s, e)
<1>1. d \in Nat
  BY DEF Counts
<1>2. /\ s.ms \in [WorkStatuses -> Nat] /\ s.totalMs \in Nat /\ s.previousEnd \in Nat
      /\ s.anomalies \in SUBSET {"OVERLAP", "INVALID_DURATION", "LONG_SEGMENT", "FUTURE_TIME"}
  BY DEF Summary
<1>3. t = [ms |-> [s.ms EXCEPT ![e.status] = @ + d],
           totalMs |-> s.totalMs + IF Active(e.status) THEN d ELSE 0,
           previousEnd |-> EndOf(e),
           anomalies |-> s.anomalies \cup Flag(e.start < s.previousEnd, "OVERLAP")
                                     \cup Flag(d > Long, "LONG_SEGMENT")
                                     \cup Flag(e.start > instant + Ahead, "FUTURE_TIME")]
  BY DEF AddEntry
<1> HIDE DEF d, t
<1>4. [s.ms EXCEPT ![e.status] = @ + d] \in [WorkStatuses -> Nat]
  BY <1>1, <1>2
<1>5. s.totalMs + (IF Active(e.status) THEN d ELSE 0) \in Nat
  BY <1>1, <1>2
<1>6. /\ s.anomalies \cup Flag(e.start < s.previousEnd, "OVERLAP") \cup Flag(d > Long, "LONG_SEGMENT")
                     \cup Flag(e.start > instant + Ahead, "FUTURE_TIME")
            \in SUBSET {"OVERLAP", "INVALID_DURATION", "LONG_SEGMENT", "FUTURE_TIME"}
      /\ "OVERLAP" \in s.anomalies \cup Flag(e.start < s.previousEnd, "OVERLAP") \cup Flag(d > Long, "LONG_SEGMENT")
                     \cup Flag(e.start > instant + Ahead, "FUTURE_TIME")
            <=> "OVERLAP" \in s.anomalies \/ e.start < s.previousEnd
  BY <1>2 DEF Flag
<1>7. t \in Summary
  BY <1>3, <1>4, <1>5, <1>6 DEF Summary
<1>8. \A x \in WorkStatuses : t.ms[x] = IF x = e.status THEN s.ms[x] + d ELSE s.ms[x]
  BY <1>2, <1>3
<1>9. /\ t.previousEnd = EndOf(e)
      /\ t.totalMs = s.totalMs + IF Active(e.status) THEN d ELSE 0
      /\ "OVERLAP" \in t.anomalies <=> "OVERLAP" \in s.anomalies \/ e.start < s.previousEnd
  BY <1>3, <1>6
<1> QED BY <1>7, <1>8, <1>9 DEF d, t

\* An entry that does not count leaves the totals as they are.
LEMMA SkipEntryIn ==
  ASSUME NEW s \in Summary, NEW e
  PROVE  /\ SkipEntry(s, e) \in Summary /\ SkipEntry(s, e).totalMs = s.totalMs
         /\ SkipEntry(s, e).ms = s.ms /\ SkipEntry(s, e).previousEnd = s.previousEnd
         /\ "OVERLAP" \in SkipEntry(s, e).anomalies <=> "OVERLAP" \in s.anomalies
BY DEF SkipEntry, Summary

\* What holds of the loop goes on after one entry more.
LEMMA KnownGoesOn ==
  ASSUME SummaryTypeOK, NEW n \in 0..Len(entries), n < Len(entries), Known(n)
  PROVE  Known(n + 1)
<1> DEFINE k == n + 1
           e == entries[k]
           s == summary[n]
           ms == EndOf(e) - e.start
<1>1. /\ k \in 1..Len(entries) /\ k - 1 = n
      /\ e \in Entry /\ e.start \in Nat /\ EndOf(e) \in Nat /\ e.status \in WorkStatuses
  <2>1. k \in 1..Len(entries) /\ k - 1 = n
    BY DEF SummaryTypeOK
  <2> QED BY <2>1, EntryTimes
<1>2. summary[k] = Turn(s, e)
  BY <1>1, SummaryIs DEF SummaryTypeOK
<1>3. /\ s \in Summary
      /\ CountedIn(n) = {} => s.previousEnd = 0
      /\ CountedIn(n) # {} => \E l \in CountedIn(n) : (\A i \in CountedIn(n) : i <= l) /\ s.previousEnd = EndOf(entries[l])
      /\ "OVERLAP" \in s.anomalies <=> Overlapping(n)
      /\ "OVERLAP" \notin s.anomalies =>
            /\ s.totalMs = Cardinality(Covered(ActiveIn(n)))
            /\ \A x \in WorkStatuses : s.ms[x] = Cardinality(Covered(OfStatus(n, x)))
      /\ s.totalMs >= Cardinality(Covered(ActiveIn(n)))
  BY DEF Known
<1>4. 1..k = (1..n) \cup {k} /\ k \notin 1..n
  BY <1>1
<1>5. CASE ~Counts(e)
  <2>1. CountedIn(k) = CountedIn(n)
    BY <1>4, <1>5 DEF CountedIn
  <2>2. ActiveIn(k) = ActiveIn(n) /\ Overlapping(k) = Overlapping(n)
    BY <2>1 DEF ActiveIn, Overlapping
  <2>3. \A x \in WorkStatuses : OfStatus(k, x) = OfStatus(n, x)
    BY <2>1 DEF OfStatus
  <2>4. summary[k] = SkipEntry(s, e)
    BY <1>2, <1>5 DEF Turn
  <2>5. /\ SkipEntry(s, e) \in Summary /\ SkipEntry(s, e).totalMs = s.totalMs
        /\ SkipEntry(s, e).ms = s.ms /\ SkipEntry(s, e).previousEnd = s.previousEnd
        /\ "OVERLAP" \in SkipEntry(s, e).anomalies <=> "OVERLAP" \in s.anomalies
    BY <1>3, SkipEntryIn
  <2> HIDE DEF s, e
  <2> QED BY <1>3, <2>1, <2>2, <2>3, <2>4, <2>5 DEF Known
<1>6. CASE Counts(e)
  <2>1. CountedIn(k) = CountedIn(n) \cup {k} /\ k \notin CountedIn(n)
    BY <1>4, <1>6 DEF CountedIn
  <2>2. /\ CountedIn(k) \subseteq CountedIn(Len(entries)) /\ CountedIn(n) \subseteq CountedIn(Len(entries))
        /\ k \in CountedIn(Len(entries))
    BY <1>1, <1>6 DEF CountedIn
  <2>3. summary[k] = AddEntry(s, e)
    BY <1>2, <1>6 DEF Turn
  <2>4. ms \in Nat /\ ms = EndOf(e) - e.start
    BY <1>1, <1>6 DEF Counts
  <2>5. /\ AddEntry(s, e) \in Summary
        /\ AddEntry(s, e).previousEnd = EndOf(e)
        /\ AddEntry(s, e).totalMs = s.totalMs + IF Active(e.status) THEN ms ELSE 0
        /\ \A x \in WorkStatuses : AddEntry(s, e).ms[x] = IF x = e.status THEN s.ms[x] + ms ELSE s.ms[x]
        /\ "OVERLAP" \in AddEntry(s, e).anomalies <=> "OVERLAP" \in s.anomalies \/ e.start < s.previousEnd
    <3>1. s \in Summary /\ Counts(e) /\ e.status \in WorkStatuses /\ e.start \in Nat /\ EndOf(e) \in Nat
      BY <1>1, <1>3, <1>6
    <3> HIDE DEF s, e, k
    <3> QED BY <3>1, AddEntryTo
  <2>6. \A i \in CountedIn(n) : /\ i \in 1..Len(entries) /\ i < k /\ Counts(entries[i])
                                /\ entries[i].start \in Nat /\ EndOf(entries[i]) \in Nat
                                /\ EndOf(entries[i]) > entries[i].start
                                /\ entries[i].start <= e.start
    <3>1. SUFFICES ASSUME NEW i \in CountedIn(n)
                   PROVE  /\ i \in 1..Len(entries) /\ i < k /\ Counts(entries[i])
                          /\ entries[i].start \in Nat /\ EndOf(entries[i]) \in Nat
                          /\ EndOf(entries[i]) > entries[i].start
                          /\ entries[i].start <= e.start
      OBVIOUS
    <3>2. i \in 1..Len(entries) /\ i < k /\ Counts(entries[i]) /\ k \in i..Len(entries)
      BY <1>1 DEF CountedIn
    <3>3. entries[i].start \in Nat /\ EndOf(entries[i]) \in Nat /\ entries[i].start <= e.start
      BY <3>2, EntryTimes
    <3> QED BY <3>2, <3>3 DEF Counts
  <2>7. Overlapping(k) <=> Overlapping(n) \/ \E i \in CountedIn(n) : Moments(i) \cap Moments(k) # {}
    BY <2>1 DEF Overlapping
  <2>8. \A i \in CountedIn(n) : Moments(i) \cap Moments(k) # {} <=> EndOf(entries[i]) > e.start
    <3>1. SUFFICES ASSUME NEW i \in CountedIn(n)
                   PROVE  Moments(i) \cap Moments(k) # {} <=> EndOf(entries[i]) > e.start
      OBVIOUS
    <3>2. Moments(i) = entries[i].start..(EndOf(entries[i]) - 1) /\ Moments(k) = e.start..(EndOf(e) - 1)
      BY DEF Moments
    <3>3. EndOf(e) > e.start
      BY <1>6 DEF Counts
    <3>4. EndOf(entries[i]) > e.start => e.start \in Moments(i) /\ e.start \in Moments(k)
      BY <1>1, <2>6, <3>2, <3>3
    <3>5. ASSUME NEW m \in Moments(i), m \in Moments(k) PROVE EndOf(entries[i]) > e.start
      BY <1>1, <2>6, <3>2, <3>5
    <3> QED BY <3>4, <3>5
  <2>9. Overlapping(k) <=> Overlapping(n) \/ e.start < s.previousEnd
    <3>1. CASE CountedIn(n) = {}
      BY <1>1, <1>3, <2>7, <3>1
    <3>2. CASE CountedIn(n) # {}
      <4>1. PICK l \in CountedIn(n) : (\A i \in CountedIn(n) : i <= l) /\ s.previousEnd = EndOf(entries[l])
        BY <1>3, <3>2
      <4>2. e.start < s.previousEnd => Moments(l) \cap Moments(k) # {}
        BY <1>1, <2>6, <2>8, <4>1
      <4>3. ASSUME NEW i \in CountedIn(n), Moments(i) \cap Moments(k) # {}, ~(e.start < s.previousEnd)
            PROVE  Overlapping(n)
        <5>1. EndOf(entries[i]) > e.start /\ ~(EndOf(entries[l]) > e.start)
          BY <1>1, <2>6, <2>8, <4>1, <4>3
        <5>2. i # l /\ i <= l
          BY <4>1, <5>1
        <5>3. l \in i..Len(entries) /\ i \in 1..Len(entries)
          BY <2>6, <5>2
        <5>4. entries[i].start <= entries[l].start
          BY <5>3, EntryTimes
        <5>5. entries[l].start \in Moments(i) /\ entries[l].start \in Moments(l)
          BY <1>1, <2>6, <5>1, <5>4 DEF Moments
        <5> QED BY <5>2, <5>5 DEF Overlapping
      <4> QED BY <2>7, <4>2, <4>3
    <3> QED BY <3>1, <3>2
  <2>10. "OVERLAP" \in AddEntry(s, e).anomalies <=> Overlapping(k)
    BY <1>3, <2>5, <2>9
  <2>11. /\ ActiveIn(k) = IF Active(e.status) THEN ActiveIn(n) \cup {k} ELSE ActiveIn(n)
         /\ ActiveIn(n) \subseteq CountedIn(n)
    BY <2>1 DEF ActiveIn
  <2>12. \A x \in WorkStatuses : /\ OfStatus(k, x) = IF x = e.status THEN OfStatus(n, x) \cup {k} ELSE OfStatus(n, x)
                                 /\ OfStatus(n, x) \subseteq CountedIn(n)
    BY <2>1 DEF OfStatus
  <2>13. ASSUME NEW S, S \subseteq CountedIn(n)
         PROVE  /\ Cardinality(Covered(S)) \in Nat
                /\ Cardinality(Covered(S \cup {k})) <= Cardinality(Covered(S)) + ms
                /\ ~Overlapping(k) => Cardinality(Covered(S \cup {k})) = Cardinality(Covered(S)) + ms
    <3>1. ~Overlapping(k) => \A j \in S : Moments(j) \cap Moments(k) = {}
      BY <2>7, <2>13
    <3>2. S \subseteq CountedIn(Len(entries))
      BY <2>2, <2>13
    <3> HIDE DEF k
    <3> QED BY <2>2, <3>1, <3>2, CoveredMore
  <2>14. s.totalMs \in Nat /\ s.ms \in [WorkStatuses -> Nat]
    BY <1>3 DEF Summary
  <2>15. AddEntry(s, e).totalMs >= Cardinality(Covered(ActiveIn(k)))
    <3>1. CASE Active(e.status)
      <4>1. /\ Cardinality(Covered(ActiveIn(n))) \in Nat
            /\ Cardinality(Covered(ActiveIn(k))) <= Cardinality(Covered(ActiveIn(n))) + ms
        <5>1. ActiveIn(k) = ActiveIn(n) \cup {k}
          BY <2>11, <3>1
        <5> HIDE DEF k, ms
        <5> QED BY <2>11, <2>13, <5>1
      <4>2. \E c \in Nat : Cardinality(Covered(ActiveIn(k))) = c
        <5>1. ActiveIn(k) \subseteq CountedIn(Len(entries))
          BY <2>2 DEF ActiveIn
        <5> HIDE DEF k
        <5> QED BY <5>1, CoveredFinite, FS_CardinalityType
      <4> HIDE DEF s, e, k, ms
      <4> QED BY <1>3, <2>4, <2>5, <2>14, <3>1, <4>1, <4>2
    <3>2. CASE ~Active(e.status)
      <4>1. ActiveIn(k) = ActiveIn(n)
        BY <2>11, <3>2
      <4> HIDE DEF s, e, k, ms
      <4> QED BY <1>3, <2>5, <2>14, <3>2, <4>1
    <3> QED BY <3>1, <3>2
  <2>17. ASSUME ~Overlapping(k)
         PROVE  /\ AddEntry(s, e).totalMs = Cardinality(Covered(ActiveIn(k)))
                /\ \A x \in WorkStatuses : AddEntry(s, e).ms[x] = Cardinality(Covered(OfStatus(k, x)))
    <3>1. /\ s.totalMs = Cardinality(Covered(ActiveIn(n)))
          /\ \A x \in WorkStatuses : s.ms[x] = Cardinality(Covered(OfStatus(n, x)))
      BY <1>3, <2>7, <2>17
    <3>2. \A S : S \subseteq CountedIn(n) => Cardinality(Covered(S \cup {k})) = Cardinality(Covered(S)) + ms
      BY <2>13, <2>17
    <3>3. AddEntry(s, e).totalMs = Cardinality(Covered(ActiveIn(k)))
      <4> HIDE DEF s, e, k, ms
      <4> QED BY <2>4, <2>5, <2>11, <2>14, <3>1, <3>2
    <3>4. ASSUME NEW x \in WorkStatuses PROVE AddEntry(s, e).ms[x] = Cardinality(Covered(OfStatus(k, x)))
      <4>1. AddEntry(s, e).ms[x] = IF x = e.status THEN s.ms[x] + ms ELSE s.ms[x]
        BY <2>5
      <4>2. OfStatus(k, x) = (IF x = e.status THEN OfStatus(n, x) \cup {k} ELSE OfStatus(n, x)) /\ OfStatus(n, x) \subseteq CountedIn(n)
        BY <2>12
      <4>3. s.ms[x] = Cardinality(Covered(OfStatus(n, x)))
        BY <3>1
      <4> HIDE DEF s, e, k, ms
      <4> QED BY <3>2, <4>1, <4>2, <4>3
    <3> QED BY <3>3, <3>4
  <2>16. k \in CountedIn(k) /\ \A i \in CountedIn(k) : i <= k
    BY <2>1, <2>6, <1>1
  <2>18. CountedIn(k) # {} => \E l \in CountedIn(k) : (\A i \in CountedIn(k) : i <= l) /\ AddEntry(s, e).previousEnd = EndOf(entries[l])
    BY <2>5, <2>16
  <2>19. CountedIn(k) # {}
    BY <2>1
  <2> HIDE DEF s, e, ms
  <2> QED BY <2>3, <2>5, <2>10, <2>15, <2>17, <2>18, <2>19 DEF Known
<1> QED BY <1>5, <1>6


\* Before the first entry there are no totals, and nothing overlaps.
LEMMA KnownAtFirst ==
  ASSUME SummaryTypeOK
  PROVE  Known(0)
<1>1. CountedIn(0) = {}
  BY DEF CountedIn
<1>2. ActiveIn(0) = {} /\ ~Overlapping(0)
  BY <1>1 DEF ActiveIn, Overlapping
<1>3. \A x \in WorkStatuses : OfStatus(0, x) = {}
  BY <1>1 DEF OfStatus
<1>4. Cardinality(Covered({})) = 0
  <2>1. Covered({}) = {}
    BY DEF Covered
  <2> QED BY <2>1, FS_EmptySet
<1>5. summary[0] = Nothing
  BY SummaryIs DEF SummaryTypeOK
<1>6. Nothing \in Summary /\ Nothing.totalMs = 0 /\ Nothing.previousEnd = 0 /\ Nothing.anomalies = {}
  BY DEF Nothing, Summary, NoTime
<1>7. \A x \in WorkStatuses : Nothing.ms[x] = 0
  BY DEF Nothing, NoTime
<1> QED BY <1>1, <1>2, <1>3, <1>4, <1>5, <1>6, <1>7 DEF Known

\* The totals count each moment once, on every day the types allow.
LEMMA TotalsAreRight ==
  ASSUME SummaryTypeOK
  PROVE  TotalsCountEachMomentOnce
<1> DEFINE N == Len(entries)
           G == {n \in 0..N : Known(n)}
<1>1. N \in Nat /\ DOMAIN entries = 1..N
  BY DEF SummaryTypeOK
<1>2. Known(N)
  <2>1. 0 \in G
    BY <1>1, KnownAtFirst
  <2>2. \A n \in 0..N : n \in G /\ n < N => n + 1 \in G
    BY <1>1, KnownGoesOn
  <2>3. \A n \in 0..N : n \in G
    <3> HIDE DEF G, N
    <3> QED BY <1>1, <2>1, <2>2, UpTo
  <2> QED BY <1>1, <2>3
<1>3. Counted = CountedIn(N)
  BY <1>1 DEF Counted, CountedIn
<1>4. Overlapping(N) <=> \E i, j \in Counted : i # j /\ Moments(i) \cap Moments(j) # {}
  BY <1>3 DEF Overlapping
<1>5. Covered(ActiveIn(N)) = UNION {Moments(i) : i \in {i \in Counted : Active(entries[i].status)}}
  BY <1>3 DEF Covered, ActiveIn
<1>6. \A x \in WorkStatuses : Covered(OfStatus(N, x)) = UNION {Moments(i) : i \in {i \in Counted : entries[i].status = x}}
  BY <1>3 DEF Covered, OfStatus
<1>7. summarizeEntries = summary[N]
  BY DEF summarizeEntries
<1> HIDE DEF N
<1>8. /\ "OVERLAP" \in summary[N].anomalies <=> Overlapping(N)
      /\ "OVERLAP" \notin summary[N].anomalies =>
            /\ summary[N].totalMs = Cardinality(Covered(ActiveIn(N)))
            /\ \A x \in WorkStatuses : summary[N].ms[x] = Cardinality(Covered(OfStatus(N, x)))
      /\ summary[N].totalMs >= Cardinality(Covered(ActiveIn(N)))
  BY <1>2 DEF Known
<1> QED BY <1>4, <1>5, <1>6, <1>7, <1>8 DEF TotalsCountEachMomentOnce

\* A day stays one of entries in the order of their beginning.
LEMMA SummaryTypes ==
  ASSUME SummaryTypeOK, [SummaryNext]_summaryVars
  PROVE  SummaryTypeOK'
<1>1. CASE ChangeEntries
  <2>1. PICK e \in Entry, i \in 1..(Len(entries) + 1) :
          /\ \A j \in DOMAIN entries : IF j < i THEN entries[j].start <= e.start ELSE e.start <= entries[j].start
          /\ entries' = InsertAt(entries, i, e)
    BY <1>1 DEF ChangeEntries
  <2> DEFINE N == Len(entries)
             at(j) == IF j < i THEN entries[j] ELSE IF j = i THEN e ELSE entries[j - 1]
  <2>2. entries \in Seq(Entry) /\ N \in Nat /\ DOMAIN entries = 1..N
    BY DEF SummaryTypeOK
  <2>3. entries' = SubSeq(entries, 1, i - 1) \o <<e>> \o SubSeq(entries, i, N)
    BY <2>1 DEF InsertAt
  <2> DEFINE A == SubSeq(entries, 1, i - 1)
             B == SubSeq(entries, i, N)
  <2>a. A \in Seq(Entry) /\ Len(A) = i - 1 /\ \A j \in 1..(i - 1) : A[j] = entries[j]
    BY <2>2
  <2>b. B \in Seq(Entry) /\ Len(B) = N - i + 1 /\ \A j \in 1..(N - i + 1) : B[j] = entries[i + j - 1]
    BY <2>2
  <2>c. entries' = (A \o <<e>>) \o B
    BY <2>3
  <2>d. i \in Nat /\ i >= 1 /\ i <= N + 1
    BY <2>2
  <2> HIDE DEF A, B
  <2> DEFINE C == A \o <<e>>
  <2>e. C \in Seq(Entry) /\ Len(C) = i /\ \A j \in 1..i : C[j] = IF j < i THEN A[j] ELSE e
    BY <2>a, <2>d
  <2>f. entries' = C \o B
    BY <2>c
  <2> HIDE DEF C
  <2>4. entries' \in Seq(Entry) /\ Len(entries') = N + 1
    BY <2>b, <2>d, <2>2, <2>e, <2>f
  <2>5. ASSUME NEW j \in 1..(N + 1) PROVE entries'[j] = at(j)
    <3>1. CASE j <= i
      <4>1. entries'[j] = C[j]
        BY <2>b, <2>d, <2>2, <2>e, <2>f, <3>1
      <4> QED BY <2>a, <2>d, <2>e, <3>1, <4>1
    <3>2. CASE j > i
      <4>1. entries'[j] = B[j - i]
        BY <2>b, <2>d, <2>2, <2>e, <2>f, <3>2
      <4>2. j - i \in 1..(N - i + 1) /\ i + (j - i) - 1 = j - 1
        BY <2>d, <2>2, <3>2
      <4> QED BY <2>b, <2>d, <3>2, <4>1, <4>2
    <3> QED BY <2>d, <3>1, <3>2
  <2>6. DOMAIN entries' = 1..(N + 1)
    BY <2>4
  <2>7. ASSUME NEW j \in 1..(N + 1), NEW k \in 1..(N + 1), j < k PROVE at(j).start <= at(k).start
    <3>1. \A m, l \in 1..N : m < l => entries[m].start <= entries[l].start
      BY <2>2 DEF SummaryTypeOK
    <3>2. e.start \in Nat /\ \A m \in 1..N : entries[m].start \in Nat
      <4>1. \A x \in Entry : x.start \in Nat
        BY MomentsAreBounded DEF Entry, Clock
      <4>2. \A m \in 1..N : entries[m] \in Entry
        BY <2>2
      <4> QED BY <4>1, <4>2
    <3>3. \A m \in 1..N : IF m < i THEN entries[m].start <= e.start ELSE e.start <= entries[m].start
      BY <2>1, <2>2
    <3>4. i \in Nat /\ i =< N + 1 /\ i >= 1
      BY <2>2
    <3> HIDE DEF N
    <3>5. CASE k < i
      <4>1. j < i /\ j \in 1..N /\ k \in 1..N
        BY <2>2, <2>7, <3>4, <3>5
      <4> QED BY <2>7, <3>1, <3>5, <4>1
    <3>6. CASE k = i
      <4>1. j < i /\ j \in 1..N /\ at(k) = e
        BY <2>2, <2>7, <3>4, <3>6
      <4> QED BY <3>3, <4>1
    <3>7. CASE k > i
      <4>1. k - 1 \in 1..N /\ ~(k - 1 < i) /\ at(k) = entries[k - 1]
        BY <2>2, <2>7, <3>4, <3>7
      <4>2. CASE j < i
        <5>1. j \in 1..N /\ j < k - 1 /\ at(j) = entries[j]
          BY <2>2, <2>7, <3>4, <3>7, <4>2
        <5> QED BY <3>1, <4>1, <5>1
      <4>3. CASE j = i
        BY <3>3, <4>1, <4>3
      <4>4. CASE j > i
        <5>1. j - 1 \in 1..N /\ j - 1 < k - 1 /\ at(j) = entries[j - 1]
          BY <2>2, <2>7, <3>4, <4>4
        <5> QED BY <3>1, <4>1, <5>1
      <4> QED BY <3>4, <4>2, <4>3, <4>4
    <3> QED BY <2>2, <3>4, <3>5, <3>6, <3>7
  <2>8. instant' = instant
    BY <1>1 DEF ChangeEntries
  <2> HIDE DEF at, N
  <2> QED BY <2>4, <2>5, <2>6, <2>7, <2>8 DEF SummaryTypeOK, Clock, Entry
<1>2. CASE MomentPasses
  BY <1>2, MomentsAreBounded DEF MomentPasses, SummaryTypeOK, Clock, Entry
<1>3. CASE UNCHANGED summaryVars
  BY <1>3 DEF summaryVars, SummaryTypeOK, Clock, Entry
<1> QED BY <1>1, <1>2, <1>3 DEF SummaryNext

(* For a day of any number of entries at any times: comparing each entry with
   the end of the one before finds every overlap and reports no other; without
   one each moment is once in the totals, with one more than passed (work-
   time-status.js 108-130). *)
THEOREM DayTotalsCountEachMomentOnce == SummarySpec => [](SummaryTypeOK /\ TotalsCountEachMomentOnce)
<1>1. SummaryInit => SummaryTypeOK
  BY MomentsAreBounded DEF SummaryInit, SummaryTypeOK, Clock
<1>2. SummaryTypeOK => TotalsCountEachMomentOnce
  BY TotalsAreRight
<1> QED BY <1>1, <1>2, SummaryTypes, PTL DEF SummarySpec

-----------------------------------------------------------------------------
(* RouteProgress: the way that is left on a route, by induction over the stops. *)

\* Adding up distances gives a number.
LEMMA TotalIsNat ==
  ASSUME NEW n \in Nat, NEW f, \A i \in 1..n : f[i] \in Nat
  PROVE  Total(f, n) \in Nat
<1> DEFINE Law(g, m) == g = [k \in 0..m |-> IF k = 0 THEN 0 ELSE g[k - 1] + f[k]]
           G == {m \in Nat : \E g : Law(g, m) /\ g[m] \in Nat}
<1>1. 0 \in G
  <2>1. Law([k \in 0..0 |-> 0], 0) /\ [k \in 0..0 |-> 0][0] \in Nat
    OBVIOUS
  <2> QED BY <2>1
<1>2. ASSUME NEW m \in 0..n, m \in G, m < n PROVE m + 1 \in G
  <2>1. PICK g : Law(g, m) /\ g[m] \in Nat
    BY <1>2
  <2> DEFINE h == [k \in 0..(m + 1) |-> IF k = m + 1 THEN g[m] + f[m + 1] ELSE g[k]]
  <2>2. ASSUME NEW k \in 0..(m + 1)
        PROVE  h[k] = IF k = 0 THEN 0 ELSE h[k - 1] + f[k]
    <3>1. CASE k = m + 1
      <4>1. k # 0 /\ k - 1 = m /\ m \in 0..(m + 1) /\ m # m + 1
        BY <3>1
      <4> QED BY <3>1, <4>1
    <3>2. CASE k # m + 1
      <4>1. k \in 0..m /\ (k # 0 => k - 1 \in 0..(m + 1) /\ k - 1 # m + 1)
        BY <3>2
      <4>2. g[k] = IF k = 0 THEN 0 ELSE g[k - 1] + f[k]
        BY <2>1, <4>1
      <4> QED BY <3>2, <4>1, <4>2
    <3> QED BY <3>1, <3>2
  <2>3. h = [k \in 0..(m + 1) |-> IF k = 0 THEN 0 ELSE h[k - 1] + f[k]]
    <3>1. h = [k \in 0..(m + 1) |-> h[k]]
      OBVIOUS
    <3> HIDE DEF h
    <3> QED BY <2>2, <3>1
  <2>4. h[m + 1] \in Nat
    <3>1. m + 1 \in 1..n /\ m + 1 \in 0..(m + 1)
      BY <1>2
    <3>2. f[m + 1] \in Nat
      BY <3>1
    <3> QED BY <2>1, <3>1, <3>2
  <2>5. Law(h, m + 1) /\ m + 1 \in Nat
    BY <2>3
  <2> HIDE DEF h, Law
  <2> QED BY <2>4, <2>5
<1>3. \E g : Law(g, n) /\ g[n] \in Nat
  <2>1. n \in G
    <3>1. \A m \in 0..n : m \in G /\ m < n => m + 1 \in G
      BY <1>2
    <3>2. n \in 0..n
      OBVIOUS
    <3> HIDE DEF G
    <3> QED BY <1>1, <3>1, <3>2, UpTo
  <2> QED BY <2>1
<1>4. ASSUME NEW g, NEW h, Law(g, n), Law(h, n) PROVE g = h
  <2> DEFINE S == {m \in 0..n : g[m] = h[m]}
  <2>1. 0 \in S
    BY <1>4
  <2>2. ASSUME NEW m \in 0..n, m \in S, m < n PROVE m + 1 \in S
    <3>1. m + 1 \in 0..n /\ m + 1 # 0 /\ (m + 1) - 1 = m
      BY <2>2
    <3>2. g[m + 1] = g[m] + f[m + 1] /\ h[m + 1] = h[m] + f[m + 1]
      BY <1>4, <3>1
    <3> QED BY <2>2, <3>1, <3>2
  <2>3. \A m \in 0..n : m \in S
    <3>1. \A m \in 0..n : m \in S /\ m < n => m + 1 \in S
      BY <2>2
    <3> HIDE DEF S
    <3> QED BY <2>1, <3>1, UpTo
  <2>4. \A m \in 0..n : g[m] = h[m]
    BY <2>3
  <2>5. g = [m \in 0..n |-> g[m]] /\ h = [m \in 0..n |-> h[m]]
    BY <1>4
  <2> QED BY <2>4, <2>5
<1>5. Total(f, n) = (CHOOSE g : Law(g, n))[n]
  BY DEF Total
<1> HIDE DEF Law
<1> QED BY <1>3, <1>4, <1>5

\* The bounds.
LEMMA RouteConstants == MaxStops \in Nat /\ MaxPlace \in Nat /\ MaxRouteChanges \in Nat
BY RouteAssumption

\* Stops, and the last and the first of some.
LEMMA SomeStops ==
  ASSUME NEW S \in SUBSET Stops
  PROVE  /\ IsFiniteSet(S) /\ Cardinality(S) \in Nat /\ S \subseteq Nat
         /\ S # {} => /\ Nearest(S) \in S /\ \A t \in S : Nearest(S) <= t
                      /\ Farthest(S) \in S /\ \A t \in S : t <= Farthest(S)
<1>1. IsFiniteSet(S) /\ S \subseteq Nat
  <2>1. IsFiniteSet(Stops) /\ Stops \subseteq Nat
    BY RouteConstants, FS_Interval DEF Stops
  <2> QED BY <2>1, FS_Subset
<1>2. Cardinality(S) \in Nat
  BY <1>1, FS_CardinalityType
<1>3. ASSUME S # {} PROVE Nearest(S) \in S /\ \A t \in S : Nearest(S) <= t
  <2>1. \E s \in S : \A t \in S : s <= t
    BY <1>1, <1>3, LeastOf
  <2> QED BY <2>1 DEF Nearest
<1>4. ASSUME S # {} PROVE Farthest(S) \in S /\ \A t \in S : t <= Farthest(S)
  <2> DEFINE M == {MaxStops - s : s \in S}
  <2>1. \A s \in S : s \in Nat /\ MaxStops - s \in Nat
    BY RouteConstants DEF Stops
  <2>2. M \subseteq Nat /\ M # {}
    BY <1>4, <2>1
  <2>3. PICK m \in M : \A k \in M : m <= k
    <3> HIDE DEF M
    <3> QED BY <2>2, LeastOf
  <2>4. PICK s \in S : m = MaxStops - s
    BY <2>3
  <2>5. ASSUME NEW t \in S PROVE t <= s
    <3>1. m <= MaxStops - t
      BY <2>3
    <3> QED BY <2>1, <2>4, <3>1, RouteConstants
  <2>6. \E x \in S : \A t \in S : t <= x
    BY <2>5
  <2> QED BY <2>6 DEF Farthest
<1> QED BY <1>1, <1>2, <1>3, <1>4

\* The stops before one.
Earlier(S, s) == {t \in S : t < s}

\* The rank of a stop is one more than that of the stop before it.
LEMMA RankOfNext ==
  ASSUME NEW S \in SUBSET Stops, NEW s \in S
  PROVE  /\ Rank(S, s) \in 1..Cardinality(S)
         /\ Earlier(S, s) = {} => Rank(S, s) = 1
         /\ Earlier(S, s) # {} => /\ Farthest(Earlier(S, s)) \in Earlier(S, s)
                                  /\ Rank(S, s) = Rank(S, Farthest(Earlier(S, s))) + 1
<1> DEFINE UpToStop(x) == {t \in S : t <= x}
<1>1. \A x \in S : IsFiniteSet(UpToStop(x)) /\ Rank(S, x) = Cardinality(UpToStop(x)) /\ Cardinality(UpToStop(x)) \in Nat
  <2>1. \A x : UpToStop(x) \in SUBSET Stops
    OBVIOUS
  <2> QED BY <2>1, SomeStops DEF Rank
<1>2. S \subseteq Nat /\ IsFiniteSet(S) /\ Cardinality(S) \in Nat
  BY SomeStops
<1>3. Cardinality(UpToStop(s)) <= Cardinality(S)
  BY <1>2, FS_Subset
<1>4. Cardinality(UpToStop(s)) # 0
  <2>1. s \in UpToStop(s)
    BY <1>2
  <2> QED BY <1>1, <2>1, FS_EmptySet
<1>5. ASSUME Earlier(S, s) = {} PROVE Rank(S, s) = 1
  <2>1. UpToStop(s) = {s}
    <3>1. \A t \in S : t \in Nat /\ ~(t < s)
      BY <1>2, <1>5 DEF Earlier
    <3>2. \A t \in S : t <= s => t = s
      <4>1. s \in Nat
        BY <3>1
      <4> QED BY <3>1, <4>1
    <3>3. s <= s
      BY <3>1
    <3> QED BY <3>2, <3>3
  <2> QED BY <1>1, <2>1, FS_Singleton
<1>6. ASSUME Earlier(S, s) # {}
      PROVE  /\ Farthest(Earlier(S, s)) \in Earlier(S, s)
             /\ Rank(S, s) = Rank(S, Farthest(Earlier(S, s))) + 1
  <2> DEFINE p == Farthest(Earlier(S, s))
  <2>1. p \in Earlier(S, s) /\ \A t \in Earlier(S, s) : t <= p
    <3>1. Earlier(S, s) \in SUBSET Stops
      BY DEF Earlier
    <3> QED BY <1>6, <3>1, SomeStops
  <2> HIDE DEF p
  <2>2. p \in S /\ p < s
    BY <2>1 DEF Earlier
  <2>3. UpToStop(s) = UpToStop(p) \cup {s} /\ s \notin UpToStop(p)
    <3>1. \A t \in S : t < s => t <= p
      BY <2>1 DEF Earlier
    <3>2. \A t \in S : t \in Nat
      BY <1>2
    <3> QED BY <2>2, <3>1, <3>2
  <2>4. Cardinality(UpToStop(s)) = Cardinality(UpToStop(p)) + 1
    <3> HIDE DEF UpToStop
    <3> QED BY <1>1, <2>2, <2>3, FS_AddElement
  <2> QED BY <1>1, <2>1, <2>2, <2>4 DEF p
<1> HIDE DEF UpToStop
<1> QED BY <1>1, <1>2, <1>3, <1>4, <1>5, <1>6

\* Of two stops the later one has the higher rank.
LEMMA LaterRank ==
  ASSUME NEW S \in SUBSET Stops, NEW s \in S, NEW t \in S, s < t
  PROVE  Rank(S, s) < Rank(S, t)
<1> DEFINE A == {x \in S : x <= s}
           B == {x \in S : x <= t}
<1>1. IsFiniteSet(A) /\ IsFiniteSet(B) /\ Cardinality(A) \in Nat /\ Cardinality(B) \in Nat /\ S \subseteq Nat
  <2>1. A \in SUBSET Stops /\ B \in SUBSET Stops
    OBVIOUS
  <2> HIDE DEF A, B
  <2> QED BY <2>1, SomeStops
<1>2. A \subseteq B /\ t \in B /\ t \notin A
  <2>1. s \in Nat /\ t \in Nat
    BY <1>1
  <2>2. \A x \in S : x \in Nat /\ (x <= s => x <= t)
    BY <1>1, <2>1
  <2>3. t <= t /\ ~(t <= s)
    BY <2>1
  <2> QED BY <2>2, <2>3
<1>3. Cardinality(A) <= Cardinality(B) /\ Cardinality(A) # Cardinality(B)
  <2> HIDE DEF A, B
  <2> QED BY <1>1, <1>2, FS_Subset
<1>4. Rank(S, s) = Cardinality(A) /\ Rank(S, t) = Cardinality(B)
  BY DEF Rank
<1> HIDE DEF A, B
<1> QED BY <1>1, <1>3, <1>4

\* The stops in order: each is at its rank, and no other ones are there.
LEMMA InOrderIs ==
  ASSUME NEW S \in SUBSET Stops
  PROVE  /\ InOrder(S) \in Seq(S) /\ Len(InOrder(S)) = Cardinality(S)
         /\ \A s \in S : InOrder(S)[Rank(S, s)] = s
<1> DEFINE N == Cardinality(S)
           rank == [s \in S |-> Rank(S, s)]
<1>1. N \in Nat /\ IsFiniteSet(S) /\ S \subseteq Nat
  BY SomeStops
<1>2. \A s \in S : Rank(S, s) \in 1..N
  BY RankOfNext
<1>3. ASSUME NEW s \in S, NEW t \in S, Rank(S, s) = Rank(S, t) PROVE s = t
  <2>1. ~(s < t) /\ ~(t < s)
    <3>1. Rank(S, s) \in Nat
      BY <1>2
    <3>2. s < t => Rank(S, s) < Rank(S, t)
      BY LaterRank
    <3>3. t < s => Rank(S, t) < Rank(S, s)
      BY LaterRank
    <3> QED BY <1>3, <3>1, <3>2, <3>3
  <2> QED BY <1>1, <2>1
<1>4. rank \in Injection(S, 1..N)
  BY <1>2, <1>3 DEF Injection, IsInjective
<1>5. IsFiniteSet(1..N) /\ Cardinality(1..N) = N
  <2> HIDE DEF N
  <2> QED BY <1>1, FS_Interval
<1>6. rank \in Surjection(S, 1..N)
  <2>1. Cardinality(S) = Cardinality(1..N)
    BY <1>5
  <2> HIDE DEF rank, N
  <2> QED BY <1>4, <1>5, <2>1, FS_Injection
<1>7. \A i \in 1..N : \E s \in S : Rank(S, s) = i
  BY <1>6 DEF Surjection
<1>8. \A i \in 1..N : InOrder(S)[i] \in S /\ Rank(S, InOrder(S)[i]) = i
  BY <1>7 DEF InOrder
<1>9. InOrder(S) \in Seq(S) /\ Len(InOrder(S)) = N
  <2>1. InOrder(S) \in [1..N -> S]
    <3>1. InOrder(S) = [i \in 1..N |-> InOrder(S)[i]]
      BY DEF InOrder
    <3> HIDE DEF N
    <3> QED BY <1>8, <3>1
  <2> HIDE DEF N
  <2> QED BY <1>1, <2>1
<1>10. \A s \in S : InOrder(S)[Rank(S, s)] = s
  BY <1>2, <1>3, <1>8
<1> QED BY <1>9, <1>10

\* Places are numbers, and so are the distances between them.
LEMMA PlacesAre == Places \subseteq Nat /\ 0 \in Places /\ \A a, b \in Places : Distance(a, b) \in Places
<1>1. MaxPlace \in Nat
  BY RouteConstants
<1>2. ASSUME NEW a \in Places, NEW b \in Places PROVE Distance(a, b) \in Places
  BY <1>1, <1>2 DEF Distance, Places
<1> QED BY <1>1, <1>2 DEF Places

\* Where the first stop comes among the points of the route.
Shift == IF start = 0 THEN 0 ELSE 1

\* The points are places: the depot, and at each stop's rank its place.
LEMMA PointsAre ==
  ASSUME NEW pl \in [Stops -> Places], NEW st, start \in Places, terminal \in Places
  PROVE  LET stops == Visited(pl, st)
             points == RoutePoints(pl, st)
         IN /\ points \in Seq(Places)
            /\ Len(points) >= Shift + Cardinality(stops)
            /\ start # 0 => points[1] = start
            /\ \A s \in stops : points[Shift + Rank(stops, s)] = pl[s]
<1> DEFINE stops == Visited(pl, st)
           order == InOrder(stops)
           places == [i \in DOMAIN order |-> pl[order[i]]]
           first == IF start = 0 THEN <<>> ELSE <<start>>
           points == RoutePoints(pl, st)
           N == Cardinality(stops)
<1>1. stops \in SUBSET Stops
  BY DEF Visited
<1>2. N \in Nat /\ order \in Seq(stops) /\ Len(order) = N
  <2> HIDE DEF stops
  <2> QED BY <1>1, SomeStops, InOrderIs
<1>3. \A s \in stops : Rank(stops, s) \in 1..N /\ order[Rank(stops, s)] = s
  <2> HIDE DEF stops
  <2> QED BY <1>1, RankOfNext, InOrderIs
<1>4. places \in Seq(Places) /\ Len(places) = N /\ \A s \in stops : places[Rank(stops, s)] = pl[s]
  <2>1. DOMAIN order = 1..N /\ \A i \in 1..N : order[i] \in Stops
    <3> HIDE DEF order, N, stops
    <3> QED BY <1>1, <1>2
  <2>2. places \in [1..N -> Places]
    <3> HIDE DEF order, N, stops
    <3> QED BY <2>1
  <2>3. \A s \in stops : places[Rank(stops, s)] = pl[s]
    <3> HIDE DEF order, N, stops
    <3> QED BY <1>3, <2>1
  <2> HIDE DEF places, N, stops
  <2> QED BY <1>2, <2>2, <2>3
<1>5. first \in Seq(Places) /\ Len(first) = Shift /\ (start # 0 => first[1] = start)
  BY DEF Shift
<1>6. /\ first \o places \in Seq(Places) /\ Len(first \o places) = Shift + N
      /\ start # 0 => (first \o places)[1] = start
      /\ \A s \in stops : (first \o places)[Shift + Rank(stops, s)] = pl[s]
  <2>1. Shift \in Nat /\ (start # 0 => Shift = 1)
    BY DEF Shift
  <2> HIDE DEF first, places, N, stops
  <2>2. first \o places \in Seq(Places) /\ Len(first \o places) = Shift + N
    BY <1>2, <1>4, <1>5
  <2>3. start # 0 => (first \o places)[1] = start
    BY <1>2, <1>4, <1>5, <2>1
  <2>4. ASSUME NEW s \in stops PROVE (first \o places)[Shift + Rank(stops, s)] = pl[s]
    <3>1. Rank(stops, s) \in 1..N /\ places[Rank(stops, s)] = pl[s]
      BY <1>3, <1>4
    <3> QED BY <1>2, <1>4, <1>5, <2>1, <3>1
  <2> QED BY <2>2, <2>3, <2>4
<1> DEFINE base == first \o places
<1>7. points = base \/ points = Append(base, terminal)
  BY DEF RoutePoints
<1>8. ASSUME points = Append(base, terminal)
      PROVE  /\ points \in Seq(Places) /\ Len(points) = Shift + N + 1
             /\ \A i \in 1..(Shift + N) : points[i] = base[i]
  <2>1. base \in Seq(Places) /\ Len(base) = Shift + N
    BY <1>6
  <2> HIDE DEF base, points, N
  <2> QED BY <1>8, <2>1
<1>9. Shift \in Nat /\ (start # 0 => 1 \in 1..(Shift + N)) /\ \A s \in stops : Shift + Rank(stops, s) \in 1..(Shift + N)
  <2>1. Shift \in {0, 1} /\ (start # 0 => Shift = 1)
    BY DEF Shift
  <2> HIDE DEF N, stops
  <2>2. N \in Nat
    BY <1>2
  <2>3. ASSUME NEW s \in stops PROVE Shift + Rank(stops, s) \in 1..(Shift + N)
    <3>1. Rank(stops, s) \in 1..N
      BY <1>3
    <3> QED BY <2>1, <2>2, <3>1
  <2> QED BY <2>1, <2>2, <2>3
<1>10. base \in Seq(Places) /\ Len(base) = Shift + N /\ (start # 0 => base[1] = start)
       /\ \A s \in stops : base[Shift + Rank(stops, s)] = pl[s]
  BY <1>6
<1> HIDE DEF stops, points, base, N
<1>11. points \in Seq(Places) /\ Len(points) >= Shift + N
  BY <1>2, <1>7, <1>8, <1>9, <1>10
<1>12. \A i \in 1..(Shift + N) : points[i] = base[i]
  BY <1>7, <1>8
<1>13. (start # 0 => points[1] = start) /\ \A s \in stops : points[Shift + Rank(stops, s)] = pl[s]
  BY <1>9, <1>10, <1>12
<1> QED BY <1>11, <1>13 DEF stops, points, N

\* How far a stop is from the one before it on a route, or from its depot.
FromTheOneBefore(stops, pl, depot, s) ==
    IF Earlier(stops, s) # {} THEN Distance(pl[Farthest(Earlier(stops, s))], pl[s])
    ELSE IF depot = 0 THEN 0 ELSE Distance(depot, pl[s])

\* Between points of which there are n are n - 1 legs.
LEMMA LegsAre ==
  ASSUME NEW points \in Seq(Places)
  PROVE  /\ DOMAIN Legs(points) = 1..(Len(points) - 1)
         /\ \A i \in 1..(Len(points) - 1) : Legs(points)[i] = Distance(points[i], points[i + 1])
         /\ \A i \in DOMAIN Legs(points) : Legs(points)[i] \in Places
<1>1. {j \in DOMAIN points : j + 1 \in DOMAIN points} = 1..(Len(points) - 1)
  OBVIOUS
<1>2. Legs(points) = [i \in 1..(Len(points) - 1) |-> Distance(points[i], points[i + 1])]
  BY <1>1 DEF Legs
<1>3. \A i \in 1..(Len(points) - 1) : points[i] \in Places /\ points[i + 1] \in Places
  OBVIOUS
<1> QED BY <1>2, <1>3, PlacesAre

\* What the route stores with each stop.
LEMMA SegmentsAre ==
  ASSUME NEW pl \in [Stops -> Places], NEW st, start \in Places, terminal \in Places,
         segment \in [Stops -> Places]
  PROVE  /\ Segments(pl, st) \in [Stops -> Places]
         /\ \A s \in Visited(pl, st) : Segments(pl, st)[s] = FromTheOneBefore(Visited(pl, st), pl, start, s)
<1> DEFINE stops == Visited(pl, st)
           points == RoutePoints(pl, st)
           legs == Legs(points)
           N == Cardinality(stops)
<1>1. stops \in SUBSET Stops
  BY DEF Visited
<1>2. /\ points \in Seq(Places) /\ Len(points) >= Shift + N /\ N \in Nat
      /\ start # 0 => points[1] = start
      /\ \A s \in stops : points[Shift + Rank(stops, s)] = pl[s]
  <2>1. N \in Nat
    <3> HIDE DEF stops
    <3> QED BY <1>1, SomeStops
  <2> QED BY <2>1, PointsAre
<1>3. /\ DOMAIN legs = 1..(Len(points) - 1)
      /\ \A i \in 1..(Len(points) - 1) : legs[i] = Distance(points[i], points[i + 1])
  <2> HIDE DEF points
  <2> QED BY <1>2, LegsAre
<1>4. \A s \in Stops : Segments(pl, st)[s] =
         IF s \notin stops THEN segment[s]
         ELSE IF LegToStop(Rank(stops, s)) \in DOMAIN legs THEN legs[LegToStop(Rank(stops, s))] ELSE 0
  BY DEF Segments
<1>5. Segments(pl, st) = [s \in Stops |-> Segments(pl, st)[s]]
  BY DEF Segments
<1> HIDE DEF stops, points, legs, N
<1>6. ASSUME NEW s \in stops
      PROVE  Segments(pl, st)[s] = FromTheOneBefore(stops, pl, start, s)
  <2> DEFINE r == Rank(stops, s)
  <2>1. r \in 1..N /\ points[Shift + r] = pl[s] /\ s \in Stops
    BY <1>1, <1>2, RankOfNext DEF N
  <2>2. Segments(pl, st)[s] = IF LegToStop(r) \in DOMAIN legs THEN legs[LegToStop(r)] ELSE 0
    BY <1>4, <2>1
  <2>3. CASE Earlier(stops, s) # {}
    <3> DEFINE p == Farthest(Earlier(stops, s))
    <3>1. p \in stops /\ r = Rank(stops, p) + 1 /\ Rank(stops, p) \in 1..N
      <4>1. p \in Earlier(stops, s) /\ r = Rank(stops, p) + 1
        BY <1>1, <2>3, RankOfNext
      <4>2. p \in stops
        BY <4>1 DEF Earlier
      <4> QED BY <1>1, <4>1, <4>2, RankOfNext DEF N
    <3> HIDE DEF p, r
    <3>2. points[Shift + Rank(stops, p)] = pl[p]
      BY <1>2, <3>1
    <3>3. LegToStop(r) = Shift + Rank(stops, p) /\ LegToStop(r) + 1 = Shift + r /\ LegToStop(r) \in 1..(Len(points) - 1)
      <4>1. Shift \in {0, 1} /\ LegToStop(r) = r - 1 + Shift
        BY <2>1, <3>1 DEF Shift, LegToStop
      <4>2. Len(points) \in Nat
        BY <1>2
      <4> QED BY <1>2, <2>1, <3>1, <4>1, <4>2
    <3>4. legs[LegToStop(r)] = Distance(pl[p], pl[s])
      <4>1. legs[LegToStop(r)] = Distance(points[LegToStop(r)], points[LegToStop(r) + 1])
        BY <1>3, <3>3
      <4> QED BY <2>1, <3>2, <3>3, <4>1
    <3> QED BY <1>3, <2>2, <2>3, <3>3, <3>4 DEF FromTheOneBefore, p
  <2>4. CASE Earlier(stops, s) = {} /\ start # 0
    <3>1. r = 1
      BY <1>1, <2>4, RankOfNext
    <3> HIDE DEF r
    <3>2. LegToStop(r) = 1 /\ Shift = 1 /\ 1 \in 1..(Len(points) - 1)
      <4>1. Shift = 1 /\ LegToStop(r) = 1
        BY <2>4, <3>1 DEF Shift, LegToStop
      <4> QED BY <1>2, <2>1, <3>1, <4>1
    <3>3. legs[1] = Distance(points[1], points[1 + 1])
      BY <1>3, <3>2
    <3> QED BY <1>2, <1>3, <2>1, <2>2, <2>4, <3>1, <3>2, <3>3 DEF FromTheOneBefore
  <2>5. CASE Earlier(stops, s) = {} /\ start = 0
    <3>1. r = 1
      BY <1>1, <2>5, RankOfNext
    <3> HIDE DEF r
    <3>2. LegToStop(r) = 0
      BY <2>5, <3>1 DEF LegToStop
    <3>3. 0 \notin DOMAIN legs
      BY <1>2, <1>3
    <3> QED BY <2>2, <2>5, <3>2, <3>3 DEF FromTheOneBefore
  <2> QED BY <2>3, <2>4, <2>5
<1>7. ASSUME NEW s \in Stops PROVE Segments(pl, st)[s] \in Places
  <2>1. CASE s \in stops
    <3>1. Segments(pl, st)[s] = FromTheOneBefore(stops, pl, start, s)
      BY <1>6, <2>1
    <3>2. Earlier(stops, s) # {} => Farthest(Earlier(stops, s)) \in Stops
      <4>1. Earlier(stops, s) \in SUBSET Stops
        BY <1>1 DEF Earlier
      <4> QED BY <4>1, SomeStops
    <3> QED BY <3>1, <3>2, PlacesAre DEF FromTheOneBefore
  <2>2. CASE s \notin stops
    BY <1>4, <2>2
  <2> QED BY <2>1, <2>2
<1>8. Segments(pl, st) \in [Stops -> Places]
  BY <1>5, <1>7
<1> QED BY <1>6, <1>8 DEF stops

\* The statuses of a stop.
RouteStatuses == {"PENDING", "COMPLETED"}

\* Adding up distances over some stops gives a number.
LEMMA TotalOverIsNat ==
  ASSUME NEW f \in [Stops -> Places], NEW S
  PROVE  TotalOver(f, S) \in Nat
<1> DEFINE g == [s \in Stops |-> IF s \in S THEN f[s] ELSE 0]
<1>1. \A i \in 1..MaxStops : g[i] \in Nat
  BY PlacesAre DEF Stops
<1>2. Total(g, MaxStops) \in Nat
  <2> HIDE DEF g
  <2> QED BY <1>1, RouteConstants, TotalIsNat
<1> QED BY <1>2 DEF TotalOver

\* The planned distance is a number (tour-core-engine.js).
LEMMA PlannedIsNat ==
  ASSUME NEW pl \in [Stops -> Places], NEW st, start \in Places, terminal \in Places
  PROVE  Planned(pl, st) \in Nat
<1> DEFINE points == RoutePoints(pl, st)
           legs == Legs(points)
           n == Cardinality(DOMAIN legs)
<1>1. points \in Seq(Places)
  BY PointsAre
<1>2. DOMAIN legs = 1..(Len(points) - 1) /\ \A i \in DOMAIN legs : legs[i] \in Places
  <2> HIDE DEF points
  <2> QED BY <1>1, LegsAre
<1>3. Len(points) \in Nat
  <2> HIDE DEF points
  <2> QED BY <1>1
<1>4. n \in Nat /\ 1..n = DOMAIN legs
  <2> HIDE DEF points, legs
  <2>1. Cardinality(1..(Len(points) - 1)) = IF 1 > Len(points) - 1 THEN 0 ELSE Len(points) - 1 - 1 + 1
    <3> DEFINE b == Len(points) - 1
    <3>1. b \in Int
      BY <1>3
    <3> HIDE DEF b
    <3>2. Cardinality(1..b) = IF 1 > b THEN 0 ELSE b - 1 + 1
      BY <3>1, FS_Interval
    <3> QED BY <3>2 DEF b
  <2>2. n = IF Len(points) = 0 THEN 0 ELSE Len(points) - 1
    BY <1>2, <1>3, <2>1
  <2> HIDE DEF n
  <2> QED BY <1>2, <1>3, <2>2
<1>5. \A i \in 1..n : legs[i] \in Nat
  <2> HIDE DEF n, legs
  <2> QED BY <1>2, <1>4, PlacesAre
<1>6. Total(legs, n) \in Nat
  <2> HIDE DEF n, legs
  <2> QED BY <1>4, <1>5, TotalIsNat
<1> QED BY <1>6 DEF Planned

\* So is what is left.
LEMMA RemainingIsNat ==
  ASSUME NEW pl \in [Stops -> Places], NEW st, NEW seg \in [Stops -> Places], NEW at \in Places,
         NEW before \in Nat, terminal \in Places
  PROVE  Remaining(pl, st, seg, at, before) \in Nat
<1>1. OpenStops(st) \in SUBSET Stops
  BY DEF OpenStops
<1>2. TerminalDistance(pl, st) \in Nat
  <2>1. OpenStops(st) # {} => Farthest(OpenStops(st)) \in Stops
    BY <1>1, SomeStops
  <2> QED BY <2>1, PlacesAre DEF TerminalDistance
<1>3. \A S : TotalOver(seg, S) \in Nat
  BY TotalOverIsNat
<1>4. OpenStops(st) # {} => Nearest(OpenStops(st)) \in Stops
  BY <1>1, SomeStops
<1>5. \A S : TotalOver(seg, S) + TerminalDistance(pl, st) \in Nat
  BY <1>2, <1>3
<1>6. OpenStops(st) # {} => /\ Distance(at, pl[Nearest(OpenStops(st))]) \in Nat
                            /\ seg[Nearest(OpenStops(st))] \in Nat
  BY <1>4, PlacesAre
<1>7. \A a, b \in Nat : a + b \in Nat
  OBVIOUS
<1>8. \A S : /\ OpenStops(st) # {} =>
                   /\ Distance(at, pl[Nearest(OpenStops(st))]) + (TotalOver(seg, S) + TerminalDistance(pl, st)) \in Nat
                   /\ seg[Nearest(OpenStops(st))] + (TotalOver(seg, S) + TerminalDistance(pl, st)) \in Nat
  BY <1>5, <1>6, <1>7
<1> QED BY <1>5, <1>8 DEF Remaining

\* What a route has stored stays with its stops, and what is still to go was last
\* computed from what the stops, the terminal and the phone's place now are.
RouteInv ==
    /\ RouteTypeOK
    /\ \A s \in DOMAIN route.place :
          segment[s] = FromTheOneBefore(DOMAIN route.place, route.place, route.start, s)
    /\ refreshed => \E before \in Nat : remaining = Remaining(place, status, segment, live, before)

\* A route that is planned anew stores what is left over its own legs
\* (tour-core.routes.js).
LEMMA RecalculatedKeeps ==
  ASSUME RouteInv, NEW pl \in [Stops -> Places], NEW st \in [Stops -> RouteStatuses],
         place' = pl, status' = st, Recalculated(pl, st), UNCHANGED <<start, terminal, live>>,
         routeChanges' \in 0..MaxRouteChanges
  PROVE  RouteInv'
<1> USE DEF RouteInv, RouteTypeOK, RouteStatuses
<1>1. /\ Segments(pl, st) \in [Stops -> Places]
      /\ \A s \in Visited(pl, st) : Segments(pl, st)[s] = FromTheOneBefore(Visited(pl, st), pl, start, s)
  BY SegmentsAre
<1>2. Planned(pl, st) \in Nat
  BY PlannedIsNat
<1>3. remaining' = Remaining(pl, st, segment', live, Planned(pl, st)) /\ segment' = Segments(pl, st) /\ refreshed' = TRUE
  BY DEF Recalculated
<1>4. remaining' \in Nat
  BY <1>1, <1>2, <1>3, RemainingIsNat
<1>5. route' = [start |-> start, place |-> [s \in Visited(pl, st) |-> pl[s]]]
  BY DEF Recalculated
<1>6. DOMAIN route'.place = Visited(pl, st) /\ route'.start = start /\ \A s \in Visited(pl, st) : route'.place[s] = pl[s]
  BY <1>5
<1>7. \A s \in Visited(pl, st) : s \in Stops /\ pl[s] \in Places \ {0}
  BY DEF Visited
<1>8. ASSUME NEW s \in Visited(pl, st)
      PROVE  segment'[s] = FromTheOneBefore(DOMAIN route'.place, route'.place, route'.start, s)
  <2>1. Earlier(Visited(pl, st), s) # {} => Farthest(Earlier(Visited(pl, st), s)) \in Visited(pl, st)
    <3>1. Earlier(Visited(pl, st), s) \in SUBSET Stops /\ Earlier(Visited(pl, st), s) \subseteq Visited(pl, st)
      BY <1>7 DEF Earlier
    <3> QED BY <3>1, SomeStops
  <2>2. segment'[s] = FromTheOneBefore(Visited(pl, st), pl, start, s)
    BY <1>1, <1>3
  <2> QED BY <1>6, <2>1, <2>2 DEF FromTheOneBefore
<1>9. RouteTypeOK'
  BY <1>1, <1>3, <1>4, <1>6, <1>7
<1>10. \E before \in Nat : remaining' = Remaining(place, status, segment, live, before)'
  <2>1. ASSUME NEW before, remaining' = Remaining(pl, st, segment', live, before)
        PROVE  remaining' = Remaining(place, status, segment, live, before)'
    <3>1. TerminalDistance(place, status)' = TerminalDistance(pl, st)
      BY DEF TerminalDistance, OpenStops, IsOpen
    <3>2. OpenStops(status)' = OpenStops(st)
      BY DEF OpenStops, IsOpen
    <3> QED BY <2>1, <3>1, <3>2 DEF Remaining
  <2> QED BY <1>2, <1>3, <2>1
<1>11. RouteInv'
  <2>1. (\A s \in DOMAIN route.place :
          segment[s] = FromTheOneBefore(DOMAIN route.place, route.place, route.start, s))'
    BY <1>6, <1>8
  <2> QED BY <1>9, <1>10, <2>1 DEF RouteInv
<1> QED BY <1>11

\* A change of a stop or of the location adds up the stored legs again.
LEMMA RefreshedKeeps ==
  ASSUME RouteInv, NEW st \in [Stops -> RouteStatuses], NEW at \in Places,
         status' = st, live' = at, Refreshed(st, at), UNCHANGED <<place, segment, start, terminal, route>>,
         routeChanges' \in 0..MaxRouteChanges
  PROVE  RouteInv'
<1> USE DEF RouteInv, RouteTypeOK, RouteStatuses
<1>1. remaining' = Remaining(place, st, segment, at, remaining) /\ refreshed' = TRUE
  BY DEF Refreshed
<1>2. remaining' \in Nat
  BY <1>1, RemainingIsNat
<1>3. RouteTypeOK'
  BY <1>2
<1>4. \E before \in Nat : remaining' = Remaining(place, status, segment, live, before)'
  <2>1. ASSUME NEW before, remaining' = Remaining(place, st, segment, at, before)
        PROVE  remaining' = Remaining(place, status, segment, live, before)'
    <3>1. TerminalDistance(place, status)' = TerminalDistance(place, st)
      BY DEF TerminalDistance, OpenStops, IsOpen
    <3>2. OpenStops(status)' = OpenStops(st)
      BY DEF OpenStops, IsOpen
    <3> QED BY <2>1, <3>1, <3>2 DEF Remaining
  <2> QED BY <1>1, <2>1
<1>5. (\A s \in DOMAIN route.place :
          segment[s] = FromTheOneBefore(DOMAIN route.place, route.place, route.start, s))'
  OBVIOUS
<1> QED BY <1>3, <1>4, <1>5 DEF RouteInv

\* After anything else what is stored is of an earlier state, and is not claimed to be the rest.
LEMMA OthersKeep ==
  ASSUME RouteInv, RouteTypeOK', refreshed' = FALSE, UNCHANGED <<segment, route>>
  PROVE  RouteInv'
<1>1. (\A s \in DOMAIN route.place :
          segment[s] = FromTheOneBefore(DOMAIN route.place, route.place, route.start, s))'
  BY DEF RouteInv
<1> QED BY <1>1 DEF RouteInv

\* Every step keeps the stored legs those of the route, and the rest its sum.
LEMMA RouteInvIsInductive ==
  ASSUME RouteInv, [RouteNext]_routeVars
  PROVE  RouteInv'
<1> USE DEF RouteStatuses
<1>1. RouteTypeOK
  BY DEF RouteInv
<1>2. Change => routeChanges' \in 0..MaxRouteChanges
  BY <1>1, RouteConstants DEF RouteTypeOK, Change
<1>3. ASSUME NEW s \in Stops, NEW p \in Places, NEW st \in RouteStatuses, PatchStop(s, p, st) PROVE RouteInv'
  <2>1. place' \in [Stops -> Places] /\ status' \in [Stops -> RouteStatuses]
    BY <1>1, <1>3 DEF PatchStop, RouteTypeOK
  <2>2. Recalculated(place', status') /\ UNCHANGED <<start, terminal, live>> /\ Change
    BY <1>3 DEF PatchStop
  <2> QED BY <1>2, <2>1, <2>2, RecalculatedKeeps
<1>4. CASE RecalculateRoute
  <2>1. place' = place /\ status' = status /\ Recalculated(place, status)
        /\ UNCHANGED <<start, terminal, live>> /\ Change
    BY <1>4 DEF RecalculateRoute
  <2>2. place \in [Stops -> Places] /\ status \in [Stops -> RouteStatuses]
    BY <1>1 DEF RouteTypeOK
  <2> QED BY <1>2, <2>1, <2>2, RecalculatedKeeps
<1>5. ASSUME NEW s \in Stops, NEW st \in RouteStatuses, MarkStop(s, st) PROVE RouteInv'
  <2>1. status' \in [Stops -> RouteStatuses] /\ live \in Places
    BY <1>1, <1>5 DEF MarkStop, RouteTypeOK
  <2>2. Refreshed(status', live) /\ live' = live /\ UNCHANGED <<place, segment, start, terminal, route>> /\ Change
    BY <1>5 DEF MarkStop
  <2> QED BY <1>2, <2>1, <2>2, RefreshedKeeps
<1>6. ASSUME NEW p \in Places, SendLocation(p) PROVE RouteInv'
  <2>1. status \in [Stops -> RouteStatuses]
    BY <1>1 DEF RouteTypeOK
  <2>2. Refreshed(status, p) /\ live' = p /\ status' = status
        /\ UNCHANGED <<place, segment, start, terminal, route>> /\ Change
    BY <1>6 DEF SendLocation
  <2> QED BY <1>2, <2>1, <2>2, RefreshedKeeps
<1>7. CASE LocationGetsOld
  <2>1. RouteTypeOK'
    BY <1>1, <1>7, PlacesAre DEF LocationGetsOld, RouteTypeOK
  <2> QED BY <1>7, <2>1, OthersKeep DEF LocationGetsOld
<1>8. ASSUME NEW p \in Places, LiveUpdate(p) PROVE RouteInv'
  <2>1. RouteTypeOK'
    BY <1>1, <1>2, <1>8 DEF LiveUpdate, RouteTypeOK
  <2> QED BY <1>8, <2>1, OthersKeep DEF LiveUpdate
<1>9. ASSUME NEW s \in Stops, SyncStop(s) PROVE RouteInv'
  <2>1. RouteTypeOK'
    BY <1>1, <1>2, <1>9 DEF SyncStop, RouteTypeOK
  <2> QED BY <1>9, <2>1, OthersKeep DEF SyncStop
<1>10. ASSUME NEW s \in Stops, NEW p \in Places, NEW depot \in Places, SaveRoute(s, p, depot) PROVE RouteInv'
  <2>1. RouteTypeOK'
    BY <1>1, <1>2, <1>10 DEF SaveRoute, RouteTypeOK
  <2> QED BY <1>10, <2>1, OthersKeep DEF SaveRoute
<1>11. ASSUME NEW p \in Places, ChooseTerminal(p) PROVE RouteInv'
  <2>1. RouteTypeOK'
    BY <1>1, <1>2, <1>11 DEF ChooseTerminal, RouteTypeOK
  <2> QED BY <1>11, <2>1, OthersKeep DEF ChooseTerminal
<1>12. CASE UNCHANGED routeVars
  <2>1. UNCHANGED <<place, status, segment, start, terminal, remaining, live, routeChanges, route, refreshed>>
    BY <1>12 DEF routeVars
  <2>2. RouteTypeOK'
    BY <1>1, <2>1 DEF RouteTypeOK
  <2>3. (\A s \in DOMAIN route.place :
          segment[s] = FromTheOneBefore(DOMAIN route.place, route.place, route.start, s))'
    BY <2>1 DEF RouteInv
  <2>4. \A before : Remaining(place, status, segment, live, before)' = Remaining(place, status, segment, live, before)
    BY <2>1 DEF Remaining, TerminalDistance
  <2> QED BY <2>1, <2>2, <2>3, <2>4 DEF RouteInv
<1> QED BY <1>3, <1>4, <1>5, <1>6, <1>7, <1>8, <1>9, <1>10, <1>11, <1>12 DEF RouteNext

\* Nothing is stored at first.
LEMMA RouteStarts == RouteInit => RouteInv
<1>1. ASSUME RouteInit PROVE RouteTypeOK
  BY <1>1, PlacesAre, RouteConstants DEF RouteInit, RouteTypeOK
<1>2. ASSUME RouteInit PROVE DOMAIN route.place = {} /\ refreshed = FALSE
  BY <1>2 DEF RouteInit
<1> QED BY <1>1, <1>2 DEF RouteInv

\* A stop that is left is on the route if it has a place; the others have no
\* stored distance either.
LEMMA LeftOnTheRoute ==
  ASSUME RouteInv, OnTheRoute, NEW s \in OpenStops(status)
  PROVE  /\ s \in Visited(place, status) <=> s \in DOMAIN route.place
         /\ s \notin Visited(place, status) => segment[s] = 0
<1>1. s \in Stops /\ IsOpen(s, status)
  BY DEF OpenStops
<1>2. place[s] \in Nat /\ segment[s] \in Nat
  <2>1. place[s] \in Places /\ segment[s] \in Places
    BY <1>1 DEF RouteInv, RouteTypeOK
  <2> QED BY <2>1, PlacesAre
<1>3. s \in Visited(place, status) <=> place[s] # 0
  BY <1>1 DEF Visited
<1>4. CASE s \in DOMAIN route.place
  <2>1. place[s] = route.place[s]
    BY <1>4 DEF OnTheRoute
  <2>2. route.place[s] \in Places \ {0}
    BY <1>4 DEF RouteInv, RouteTypeOK
  <2> QED BY <1>3, <1>4, <2>1, <2>2
<1>5. CASE s \notin DOMAIN route.place
  <2>1. place[s] + segment[s] = 0
    BY <1>5 DEF OnTheRoute
  <2>2. place[s] = 0 /\ segment[s] = 0
    BY <1>2, <2>1
  <2> QED BY <1>3, <1>5, <2>2
<1> QED BY <1>4, <1>5

\* What is stored with the stops of the route is, of those that are left, the
\* way between them; the other stops that are left have neither.
LEMMA WhatIsStoredIsTheWay ==
  ASSUME RouteInv, OnTheRoute, NEW next \in DOMAIN route.place, IsOpen(next, status),
         NEW s \in Visited(place, status), next < s
  PROVE  /\ Earlier(Visited(place, status), s) # {}
         /\ Farthest(Earlier(DOMAIN route.place, s)) = Farthest(Earlier(Visited(place, status), s))
         /\ segment[s] = Distance(place[Farthest(Earlier(Visited(place, status), s))], place[s])
<1> DEFINE R == DOMAIN route.place
           V == Visited(place, status)
<1>1. R \in SUBSET Stops /\ V \in SUBSET Stops
  BY DEF Visited, RouteInv, RouteTypeOK
<1>2. \A x \in Stops : x \in V <=> x \in R /\ IsOpen(x, status)
  BY LeftOnTheRoute DEF Visited, OpenStops
<1>3. \A x \in V : place[x] = route.place[x]
  BY <1>1, <1>2 DEF OnTheRoute, OpenStops
<1>4. \A x, y \in R : x < y /\ ~IsOpen(y, status) => ~IsOpen(x, status)
  BY DEF OnTheRoute
<1>5. R \subseteq Nat /\ V \subseteq R /\ next \in V
  BY <1>1, <1>2, SomeStops
<1> DEFINE p == Farthest(Earlier(R, s))
<1> HIDE DEF R, V
<1>6. next \in Earlier(R, s) /\ next \in Earlier(V, s)
  BY <1>5 DEF Earlier, V, R
<1>7. Earlier(R, s) \in SUBSET Stops /\ Earlier(V, s) \in SUBSET Stops
  BY <1>1 DEF Earlier
<1>8. p \in Earlier(R, s) /\ \A t \in Earlier(R, s) : t <= p
  BY <1>6, <1>7, SomeStops
<1> DEFINE q == Farthest(Earlier(V, s))
<1>9. q \in Earlier(V, s) /\ \A t \in Earlier(V, s) : t <= q
  BY <1>6, <1>7, SomeStops
<1> HIDE DEF p, q
<1>10. p \in V
  <2>1. p \in R /\ p \in Nat /\ next \in Nat /\ next <= p
    BY <1>5, <1>6, <1>8 DEF Earlier
  <2>2. next = p \/ next < p
    BY <2>1
  <2>3. IsOpen(p, status)
    BY <1>4, <2>1, <2>2 DEF R
  <2> QED BY <1>1, <1>2, <2>1, <2>3
<1>11. p = q
  <2>1. p \in Earlier(V, s) /\ q \in Earlier(R, s)
    BY <1>5, <1>8, <1>9, <1>10 DEF Earlier
  <2>2. p <= q /\ q <= p /\ p \in Nat /\ q \in Nat
    BY <1>5, <1>8, <1>9, <2>1 DEF Earlier
  <2> QED BY <2>2
<1>12. segment[s] = FromTheOneBefore(R, route.place, route.start, s) /\ s \in V
  BY <1>5 DEF RouteInv, R, V
<1>13. segment[s] = Distance(route.place[p], route.place[s])
  BY <1>6, <1>12 DEF FromTheOneBefore, p
<1>14. segment[s] = Distance(place[q], place[s])
  BY <1>3, <1>10, <1>11, <1>12, <1>13
<1> QED BY <1>6, <1>11, <1>14 DEF p, q, R, V

\* The stored sum is the way over the stops that are left.
LEMMA RouteInvImplies == RouteInv => RemainingIsTheRest
<1> DEFINE open == OpenStops(status)
           next == Nearest(open)
           last == Farthest(open)
           stops == Visited(place, status)
<1> SUFFICES ASSUME RouteInv, refreshed, OnTheRoute, open # {}, place[last] # 0, place[next] # 0,
                    live # 0 \/ segment[next] # 0
             PROVE  remaining = WayLeft
  BY DEF RemainingIsTheRest
<1>1. /\ next \in open /\ last \in open /\ open \in SUBSET Stops
      /\ \A t \in open : t \in Nat /\ next <= t /\ t <= last
  <2>1. open \in SUBSET Stops
    BY DEF OpenStops
  <2> QED BY <2>1, SomeStops
<1>2. /\ place \in [Stops -> Places] /\ segment \in [Stops -> Places]
      /\ {start, terminal, live} \subseteq Places
      /\ \A s \in DOMAIN route.place : s \in Stops /\ route.place[s] \in Places \ {0}
  BY DEF RouteInv, RouteTypeOK
<1>3. \A s \in open : s \in stops <=> s \in DOMAIN route.place
  BY LeftOnTheRoute
<1>4. stops \subseteq open /\ next \in stops /\ last \in stops
  BY <1>1 DEF OpenStops, Visited
<1>5. \A s \in open \ stops : segment[s] = 0
  BY LeftOnTheRoute
<1>6. stops \in SUBSET Stops
  BY <1>1, <1>4
<1>7. next = Nearest(stops) /\ last = Farthest(stops)
  <2>1. Nearest(stops) \in stops /\ Farthest(stops) \in stops /\ \A t \in stops : Nearest(stops) <= t /\ t <= Farthest(stops)
    BY <1>4, <1>6, SomeStops
  <2>2. Nearest(stops) <= next /\ next <= Nearest(stops) /\ Farthest(stops) <= last /\ last <= Farthest(stops)
    BY <1>1, <1>4, <2>1
  <2>3. next \in Nat /\ last \in Nat /\ Nearest(stops) \in Nat /\ Farthest(stops) \in Nat
    BY <1>1, <1>4, <2>1
  <2> QED BY <2>2, <2>3
<1>8. PICK before \in Nat : remaining = Remaining(place, status, segment, live, before)
  BY DEF RouteInv
<1> DEFINE leg == [s \in stops \ {next} |-> Distance(place[Farthest({t \in stops : t < s})], place[s])]
<1>9. TotalOver(segment, open \ {next}) = TotalOver(leg, DOMAIN leg)
  <2> DEFINE f == [s \in Stops |-> IF s \in open \ {next} THEN segment[s] ELSE 0]
             g == [s \in Stops |-> IF s \in DOMAIN leg THEN leg[s] ELSE 0]
  <2>1. DOMAIN leg = stops \ {next}
    OBVIOUS
  <2>2. ASSUME NEW s \in stops \ {next} PROVE leg[s] = segment[s]
    <3>1. next < s
      BY <1>1, <1>4, <2>2
    <3>2. next \in DOMAIN route.place /\ IsOpen(next, status)
      BY <1>1, <1>3, <1>4 DEF OpenStops
    <3>3. segment[s] = Distance(place[Farthest(Earlier(stops, s))], place[s])
      BY <2>2, <3>1, <3>2, WhatIsStoredIsTheWay
    <3> QED BY <3>3 DEF Earlier
  <2>3. ASSUME NEW s \in Stops PROVE f[s] = g[s]
    <3>1. CASE s \in stops \ {next}
      BY <1>4, <2>1, <2>2, <3>1
    <3>2. CASE s \notin stops \ {next}
      BY <1>4, <1>5, <2>1, <3>2
    <3> QED BY <3>1, <3>2
  <2>4. f = g
    <3> HIDE DEF leg, open, next, stops
    <3> QED BY <2>3
  <2> QED BY <2>4 DEF TotalOver
<1>10. TerminalDistance(place, status) = IF terminal = 0 THEN 0 ELSE Distance(place[Farthest(stops)], terminal)
  BY <1>7 DEF TerminalDistance
<1> DEFINE rest == TotalOver(segment, open \ {next}) + TerminalDistance(place, status)
           from == IF live # 0 THEN live ELSE Before(next)
<1>11. remaining = Distance(from, place[next]) + rest
  <2>1. CASE live # 0
    BY <1>8, <2>1 DEF Remaining
  <2>2. CASE live = 0
    <3>1. segment[next] # 0 /\ remaining = segment[next] + rest
      BY <1>8, <2>2 DEF Remaining
    <3>2. next \in DOMAIN route.place /\ place[next] = route.place[next]
      BY <1>1, <1>3, <1>4 DEF OnTheRoute
    <3>3. segment[next] = FromTheOneBefore(DOMAIN route.place, route.place, route.start, next)
      BY <3>2 DEF RouteInv
    <3>4. segment[next] = Distance(Before(next), place[next])
      <4>1. {t \in DOMAIN route.place : t < next} = Earlier(DOMAIN route.place, next)
        BY DEF Earlier
      <4> HIDE DEF next
      <4> QED BY <3>1, <3>2, <3>3, <4>1 DEF FromTheOneBefore, Before
    <3> QED BY <2>2, <3>1, <3>4
  <2> QED BY <2>1, <2>2
<1>12. WayLeft = Distance(from, place[next]) + TotalOver(leg, DOMAIN leg)
                 + IF terminal = 0 THEN 0 ELSE Distance(place[Farthest(stops)], terminal)
  BY <1>7 DEF WayLeft
<1>13. /\ Distance(from, place[next]) \in Nat /\ TotalOver(segment, open \ {next}) \in Nat
       /\ TerminalDistance(place, status) \in Nat
  <2>1. from \in Places
    <3>1. Earlier(DOMAIN route.place, next) \in SUBSET Stops
      BY <1>2 DEF Earlier
    <3>2. {t \in DOMAIN route.place : t < next} = Earlier(DOMAIN route.place, next)
      BY DEF Earlier
    <3>3. Earlier(DOMAIN route.place, next) # {} => Farthest(Earlier(DOMAIN route.place, next)) \in DOMAIN route.place
      BY <3>1, SomeStops DEF Earlier
    <3>4. route.start \in Places
      BY DEF RouteInv, RouteTypeOK
    <3> HIDE DEF next
    <3> QED BY <1>2, <3>2, <3>3, <3>4 DEF Before
  <2>2. TerminalDistance(place, status) \in Nat
    BY <1>1, <1>2, <1>6, <1>4, <1>7, <1>10, PlacesAre
  <2> HIDE DEF from
  <2> QED BY <1>1, <1>2, <2>1, <2>2, PlacesAre, TotalOverIsNat
<1> HIDE DEF from, leg, open, next, stops
<1> QED BY <1>9, <1>10, <1>11, <1>12, <1>13

(* For any number of stops, places and changes: what the tour has left to go is
   the way over the stops that are left, unless a place or the leg to the next
   stop is not known (tour-core-engine.js, tour-core.routes.js). *)
THEOREM WhatIsStillToGo == RouteSpec => [](RouteTypeOK /\ RemainingIsTheRest)
<1>1. RouteInit => RouteInv
  BY RouteStarts
<1>2. RouteInv /\ [RouteNext]_routeVars => RouteInv'
  BY RouteInvIsInductive
<1>3. RouteInv => RouteTypeOK /\ RemainingIsTheRest
  BY RouteInvImplies DEF RouteInv
<1> QED BY <1>1, <1>2, <1>3, PTL DEF RouteSpec

-----------------------------------------------------------------------------
(* The types of the parts, where they need more than the invariants above. *)

\* The types in full, the status that a write found among them.
HotelTyped == HotelTypes /\ HotelTypeOK /\ time \in 0..MaxTime

\* Every write of the status names one (hotel-engine.js 38-60).
LEMMA HotelStaysTyped ==
  ASSUME HotelTyped, [HotelNext]_hotelVars
  PROVE  HotelTyped'
<1> USE DEF HotelTyped, HotelTypes, HotelTypeOK
<1>0. MaxTime \in Nat
  BY HotelAssumption
<1>1. ASSUME NEW s \in Slots, NEW e \in queue, Ask(s, e) PROVE HotelTyped'
  BY <1>1 DEF Ask, Idle
<1>2. ASSUME NEW s \in Slots, Check(s) PROVE HotelTyped'
  BY <1>2 DEF Check, IsAlready, Idle
<1>3. ASSUME NEW s \in Slots, Write(s) PROVE HotelTyped'
  <2>1. req[s].event \in Events /\ req[s].event.to \in Status
    BY <1>3, HotelAssumption DEF Write
  <2>2. hotel' \in [status : Status, at : 0..MaxTime, gone : BOOLEAN]
    BY <1>3, <2>1 DEF Write
  <2>3. req' = [o \in Slots |-> req'[o]] /\ UNCHANGED <<events, queue, page, time>>
    BY <1>3 DEF Write
  <2>4. \A o \in Slots : req'[o].step # "idle" => req'[o].event \in Events
    BY <1>3, <2>1 DEF Write
  <2>5. \A o \in Slots : req'[o].step \in {"checked", "written"} => req'[o].from # req'[o].event.to
    BY <1>3 DEF Write
  <2> QED BY <2>2, <2>3, <2>4, <2>5
<1>4. ASSUME NEW s \in Slots, Log(s) \/ LogFails(s) \/ Answer(s) \/ AnswerLost(s) PROVE HotelTyped'
  BY <1>4 DEF Log, LogFails, Answer, AnswerLost, Idle
<1>5. ASSUME NEW e \in Events, Tap(e) PROVE HotelTyped'
  BY <1>5 DEF Tap
<1>6. CASE OpenPage \/ Tick
  BY <1>0, <1>6 DEF OpenPage, Tick
<1>7. ASSUME NEW new \in [status : Status, at : 0..MaxTime, gone : BOOLEAN], Put(new), page' \in {page, None}
      PROVE  HotelTyped'
  BY <1>0, <1>7 DEF Put
<1>8. CASE Patch \/ Delete
  <2>1. [hotel EXCEPT !.at = time] \in [status : Status, at : 0..MaxTime, gone : BOOLEAN]
        /\ [hotel EXCEPT !.gone = TRUE] \in [status : Status, at : 0..MaxTime, gone : BOOLEAN]
    OBVIOUS
  <2> QED BY <1>7, <1>8, <2>1 DEF Patch, Delete
<1>9. ASSUME NEW st \in Status, SaveHotelRecord(st) PROVE HotelTyped'
  <2>1. [hotel EXCEPT !.status = st, !.at = time] \in [status : Status, at : 0..MaxTime, gone : BOOLEAN]
    OBVIOUS
  <2> QED BY <1>7, <1>9, <2>1 DEF SaveHotelRecord
<1>10. ASSUME NEW st \in Status, NEW at \in 0..time, SyncHotels(st, at) PROVE HotelTyped'
  <2>1. at \in 0..MaxTime
    BY <1>0
  <2>2. [hotel EXCEPT !.status = st, !.at = at] \in [status : Status, at : 0..MaxTime, gone : BOOLEAN]
    BY <2>1
  <2> QED BY <1>7, <1>10, <2>2 DEF SyncHotels
<1>11. CASE UNCHANGED hotelVars
  BY <1>11 DEF hotelVars
<1> QED BY <1>1, <1>2, <1>3, <1>4, <1>5, <1>6, <1>8, <1>9, <1>10, <1>11 DEF HotelNext

\* A hotel is planned at first.
LEMMA HotelStartsTyped == HotelInit => HotelTyped
  BY HotelAssumption DEF HotelInit, HotelTyped, HotelTypes, HotelTypeOK, Status, Terminal, Idle

\* Lists of costs that a sync carries.
CostList(f) == DOMAIN f \subseteq Costs /\ \A c \in DOMAIN f : f[c] \in Statuses

\* The inductive invariant of the types of the costs: a list is carried typed.
CostTyped ==
    /\ CostTypeOK /\ sync = [s \in Syncs |-> sync[s]]
    /\ \A s \in Syncs : sync[s].step \in {"got", "read", "sent"} => CostList(sync[s].list)

\* Every pull, push and change carries costs as they are.
LEMMA CostStaysTyped ==
  ASSUME CostTyped, [CostNext]_costVars
  PROVE  CostTyped'
<1> USE DEF CostTyped, CostTypeOK, CostList
<1>1. CASE UNCHANGED costVars
  BY <1>1 DEF costVars
<1>2. ASSUME NEW s \in Syncs, NEW c \in Costs, AddCost(s, c) \/ AddReadCost(s, c) PROVE CostTyped'
  BY <1>2 DEF AddCost, AddReadCost, StartSync, With, Ours, Statuses
<1>3. ASSUME NEW s \in Syncs, NEW c \in Costs, DeleteCost(s, c) PROVE CostTyped'
  BY <1>3 DEF DeleteCost, StartSync, Only, Ours
<1>4. ASSUME NEW s \in Syncs, UpdateCost(s) \/ SyncFails(s) PROVE CostTyped'
  BY <1>4 DEF UpdateCost, SyncFails, StartSync, NoSync, Ours
<1>5. ASSUME NEW s \in Syncs, GetCosts(s) PROVE CostTyped'
  BY <1>5 DEF GetCosts, Live, Ours
<1>6. ASSUME NEW s \in Syncs, ReadLocal(s) \/ Send(s) PROVE CostTyped'
  BY <1>6 DEF ReadLocal, Send, Ours
<1>7. ASSUME NEW s \in Syncs, SyncRemoteCosts(s) PROVE CostTyped'
  <2>1. CostList(sync[s].list)
    BY <1>7 DEF SyncRemoteCosts
  <2>2. CostList(room')
    BY <1>7, <2>1 DEF SyncRemoteCosts, Merged, Over, Only
  <2> QED BY <1>7, <2>2 DEF SyncRemoteCosts, Ours
<1>8. ASSUME NEW s \in Syncs, SyncCosts(s) PROVE CostTyped'
  <2>1. CostList(sync[s].list)
    BY <1>8 DEF SyncCosts
  <2>2. DOMAIN table' = DOMAIN sync[s].list \cup DOMAIN table
        /\ \A c \in DOMAIN table' : table'[c] \in [status : Statuses, gone : BOOLEAN]
    BY <1>8, <2>1 DEF SyncCosts, Over, Stored, Statuses
  <2> QED BY <1>8, <2>1, <2>2 DEF SyncCosts, NoSync
<1>9. CASE PollStatus
  <2>1. UNCHANGED <<sync, table, removed>>
    BY <1>9 DEF PollStatus, Ours
  <2>2. CostList(room')
    BY <1>9 DEF PollStatus, Live
  <2> QED BY <2>1, <2>2
<1>10. ASSUME NEW c \in Costs, SaveCost(c) PROVE CostTyped'
  <2>1. /\ DOMAIN table' = DOMAIN table \cup {c} /\ UNCHANGED <<room, sync, removed>>
        /\ \A d \in DOMAIN table' : table'[d] \in [status : Statuses, gone : BOOLEAN]
    BY <1>10 DEF SaveCost, With, Statuses
  <2> QED BY <2>1
<1>12. ASSUME NEW c \in Costs, RemoveCost(c) PROVE CostTyped'
  <2>1. /\ c \in DOMAIN table /\ table' = [table EXCEPT ![c].gone = TRUE] /\ removed' = removed \cup {c}
        /\ UNCHANGED <<room, sync>>
    BY <1>12 DEF RemoveCost, Live
  <2>2. DOMAIN table' = DOMAIN table /\ \A d \in DOMAIN table' : table'[d] \in [status : Statuses, gone : BOOLEAN]
    BY <2>1
  <2> QED BY <2>1, <2>2
<1>11. ASSUME NEW c \in Costs, NEW st \in Statuses, UpdateCostStatus(c, st) PROVE CostTyped'
  BY <1>11 DEF UpdateCostStatus
<1> QED BY <1>1, <1>2, <1>3, <1>4, <1>5, <1>6, <1>7, <1>8, <1>9, <1>10, <1>11, <1>12 DEF CostNext

\* There is no cost at first.
LEMMA CostStartsTyped == CostInit => CostTyped
  BY DEF CostInit, CostTyped, CostTypeOK, NoSync

\* No more uploads than there may be; a file that may be gone was written, and a
\* request has no file before it writes it.
PhotoLimits ==
    /\ uploads <= MaxUploads /\ lost \subseteq 1..uploads
    /\ \A u \in Uploads : ~HasFile(u) => upload[u].file = 0

\* A request takes a new name or none.
LEMMA PhotoStaysLimited ==
  ASSUME PhotoInv, PhotoLimits, [PhotoNext]_photoVars
  PROVE  PhotoLimits'
<1>0. /\ MaxUploads \in Nat /\ uploads \in Nat /\ upload = [u \in Uploads |-> upload[u]]
      /\ \A u \in Uploads : upload[u] = [step |-> upload[u].step, row |-> upload[u].row, file |-> upload[u].file]
  BY PhotoAssumption DEF PhotoInv, PhotoTypes, UploadRecord
<1>1. ASSUME NEW u \in Uploads, NEW r, upload' = [upload EXCEPT ![u] = r],
             r.step \in {"written", "updated", "refused"} \/ r.file = 0
      PROVE  \A v \in Uploads : ~HasFile(v)' => upload'[v].file = 0
  <2> SUFFICES ASSUME NEW v \in Uploads, ~HasFile(v)' PROVE upload'[v].file = 0
    OBVIOUS
  <2>1. CASE v = u
    BY <2>1, <1>1, <1>0 DEF HasFile
  <2>2. CASE v # u
    <3>1. upload'[v] = upload[v]
      BY <2>2, <1>1, <1>0
    <3> QED BY <3>1 DEF HasFile, PhotoLimits
  <2> QED BY <2>1, <2>2
<1>2. ASSUME NEW u \in Uploads, NEW t \in Targets, AskUpload(u, t) PROVE PhotoLimits'
  <2>1. UNCHANGED <<uploads, lost>>
    BY <1>2 DEF AskUpload
  <2>2. \A v \in Uploads : ~HasFile(v)' => upload'[v].file = 0
    <3>1. upload' = [upload EXCEPT ![u] = [step |-> IF t = "stop" THEN "asked" ELSE "checked", row |-> t, file |-> 0]]
      BY <1>2 DEF AskUpload
    <3>2. [step |-> IF t = "stop" THEN "asked" ELSE "checked", row |-> t, file |-> 0].file = 0
      OBVIOUS
    <3> QED BY <3>1, <3>2, <1>1
  <2> QED BY <2>1, <2>2 DEF PhotoLimits
<1>3. ASSUME NEW u \in Uploads, CheckStop(u) \/ RefuseImage(u) \/ AnswerUpload(u) PROVE PhotoLimits'
  <2>1. UNCHANGED <<uploads, lost>>
    BY <1>3 DEF CheckStop, RefuseImage, AnswerUpload
  <2>2. CheckStop(u) => upload[u].file = 0
    BY DEF CheckStop, PhotoLimits, HasFile
  <2>3. \A v \in Uploads : ~HasFile(v)' => upload'[v].file = 0
    <3>1. CASE CheckStop(u)
      <4>1. PICK r : upload' = [upload EXCEPT ![u] = r] /\ (r = [upload[u] EXCEPT !.step = "checked"] \/ r = NoUpload)
        BY <3>1 DEF CheckStop
      <4>2. r.file = 0
        BY <4>1, <3>1, <2>2, <1>0 DEF NoUpload
      <4> QED BY <4>1, <4>2, <1>1
    <3>2. CASE RefuseImage(u) \/ AnswerUpload(u)
      BY <3>2, <1>1 DEF RefuseImage, AnswerUpload, NoUpload
    <3> QED BY <1>3, <3>1, <3>2
  <2> QED BY <2>1, <2>3 DEF PhotoLimits
<1>4. ASSUME NEW u \in Uploads, WriteFile(u) \/ WriteFails(u) PROVE PhotoLimits'
  <2>1. uploads' = uploads + 1 /\ uploads < MaxUploads /\ UNCHANGED lost
    BY <1>4 DEF WriteFile, WriteFails
  <2>2. uploads' <= MaxUploads /\ lost' \subseteq 1..uploads'
    BY <2>1, <1>0 DEF PhotoLimits
  <2>3. \A v \in Uploads : ~HasFile(v)' => upload'[v].file = 0
    <3>1. CASE WriteFile(u)
      <4>1. upload' = [upload EXCEPT ![u] = [step |-> "written", row |-> upload[u].row, file |-> uploads']]
        <5>1. upload' = [upload EXCEPT ![u].step = "written", ![u].file = uploads']
          BY <3>1 DEF WriteFile
        <5>2. DOMAIN upload = Uploads
          BY <1>0
        <5>3. upload'[u] = [[upload[u] EXCEPT !.step = "written"] EXCEPT !.file = uploads']
          BY <5>1, <5>2
        <5>4. upload'[u] = [step |-> "written", row |-> upload[u].row, file |-> uploads']
          BY <5>3, <1>0
        <5>5. DOMAIN upload' = Uploads /\ \A v \in Uploads \ {u} : upload'[v] = upload[v]
          BY <5>1, <5>2
        <5> QED BY <5>1, <5>2, <5>4, <5>5
      <4> QED BY <4>1, <1>1
    <3>2. CASE WriteFails(u)
      BY <3>2, <1>1 DEF WriteFails, NoUpload
    <3> QED BY <1>4, <3>1, <3>2
  <2> QED BY <2>2, <2>3 DEF PhotoLimits
<1>5. ASSUME NEW u \in Uploads, Update(u) \/ UpdateFails(u) PROVE PhotoLimits'
  <2>1. UNCHANGED uploads
    BY <1>5 DEF Update, UpdateFails
  <2>2. upload[u].file \in 1..uploads
    BY <1>5 DEF Update, UpdateFails, PhotoInv, NamesAreFresh, HasFile
  <2>3. lost' \subseteq lost \cup {upload[u].file}
    BY <1>5 DEF Update, UpdateFails
  <2>4. lost' \subseteq 1..uploads'
    BY <2>1, <2>2, <2>3 DEF PhotoLimits
  <2>5. upload' = [upload EXCEPT ![u].step = "updated"] \/ upload' = [upload EXCEPT ![u].step = "refused"]
    BY <1>5 DEF Update, UpdateFails
  <2>6. PICK r : upload' = [upload EXCEPT ![u] = r] /\ r.step \in {"updated", "refused"}
    <3>1. upload' = [upload EXCEPT ![u] = [step |-> "updated", row |-> upload[u].row, file |-> upload[u].file]]
          \/ upload' = [upload EXCEPT ![u] = [step |-> "refused", row |-> upload[u].row, file |-> upload[u].file]]
      <4>1. DOMAIN upload = Uploads /\ upload[u] = [step |-> upload[u].step, row |-> upload[u].row, file |-> upload[u].file]
        BY <1>0
      <4> QED BY <2>5, <4>1
    <3>2. [step |-> "updated", row |-> upload[u].row, file |-> upload[u].file].step \in {"updated", "refused"}
          /\ [step |-> "refused", row |-> upload[u].row, file |-> upload[u].file].step \in {"updated", "refused"}
      OBVIOUS
    <3> QED BY <3>1, <3>2
  <2>7. \A v \in Uploads : ~HasFile(v)' => upload'[v].file = 0
    BY <2>6, <1>1
  <2> QED BY <2>1, <2>4, <2>7 DEF PhotoLimits
<1>6. ASSUME NEW u \in Uploads, RemoveFile(u) PROVE PhotoLimits'
  <2>1. UNCHANGED <<uploads, lost>>
    BY <1>6 DEF RemoveFile
  <2>2. \A v \in Uploads : ~HasFile(v)' => upload'[v].file = 0
    BY <1>6, <1>1 DEF RemoveFile, NoUpload
  <2> QED BY <2>1, <2>2 DEF PhotoLimits
<1>7. CASE Restart
  BY <1>7 DEF Restart, NoUpload, PhotoLimits, HasFile
<1>8. ASSUME NEW t \in Targets, Reassign(t) PROVE PhotoLimits'
  BY <1>8 DEF Reassign, PhotoLimits, HasFile
<1>9. CASE UNCHANGED photoVars
  BY <1>9 DEF photoVars, PhotoLimits, HasFile
<1> QED BY <1>2, <1>3, <1>4, <1>5, <1>6, <1>7, <1>8, <1>9 DEF PhotoNext

\* There is no upload at first.
LEMMA PhotoStartsLimited == PhotoInit => PhotoLimits
  BY PhotoAssumption DEF PhotoInit, PhotoLimits, NoUpload, HasFile

\* Both invariants give the types.
LEMMA PhotoTypesFollow == PhotoInv /\ PhotoLimits => PhotoTypeOK
<1> SUFFICES ASSUME PhotoInv, PhotoLimits PROVE PhotoTypeOK
  OBVIOUS
<1>0. MaxUploads \in Nat /\ uploads \in 0..MaxUploads
  BY PhotoAssumption DEF PhotoInv, PhotoTypes, PhotoLimits
<1>1. 1..uploads \subseteq FileNames
  BY <1>0 DEF FileNames
<1>2. \A t \in Targets : row[t] \in [mine : BOOLEAN, photo : FileNames \cup {NoPhoto}]
  BY <1>1 DEF PhotoInv, PhotoTypes, NamesAreFresh
<1>3. \A u \in Uploads : upload[u] \in [step : {"none", "asked", "checked", "written", "updated", "refused"},
                                         row : Targets, file : FileNames \cup {0}]
  <2> SUFFICES ASSUME NEW u \in Uploads
               PROVE  upload[u] \in [step : {"none", "asked", "checked", "written", "updated", "refused"},
                                     row : Targets, file : FileNames \cup {0}]
    OBVIOUS
  <2>1. upload[u] \in UploadRecord
    BY DEF PhotoInv, PhotoTypes
  <2>2. upload[u].file \in FileNames \cup {0}
    BY <1>1 DEF PhotoInv, NamesAreFresh, PhotoLimits
  <2> QED BY <2>1, <2>2 DEF UploadRecord
<1>4. row = [t \in Targets |-> row[t]] /\ upload = [u \in Uploads |-> upload[u]]
  BY DEF PhotoInv, PhotoTypes
<1>5. files \cup left \cup lost \subseteq FileNames
  BY <1>1 DEF PhotoInv, PhotoTypes, PhotoLimits
<1> QED BY <1>0, <1>2, <1>3, <1>4, <1>5 DEF PhotoTypeOK

\* A dump that is counted is of as many rows; an archive is one, and there is one
\* beside a manifest.
BackupTyped ==
    /\ BackupTypeOK
    /\ script = "dumped" => archive # Absent /\ counts \in Rows
    /\ archive # Absent => archive \in [rows : Rows, damaged : Damages]
    /\ manifest # Absent => archive # Absent /\ manifest = [counts |-> manifest.counts, fits |-> manifest.fits, busy |-> manifest.busy]
    /\ script = "migrated" => archive # Absent

\* A dump, a count and a load keep the numbers of rows within the tables'.
LEMMA BackupStaysTyped ==
  ASSUME BackupTyped, [BackupNext]_backupVars
  PROVE  BackupTyped'
<1>0. MaxRows \in Nat /\ Absent \notin [rows : Rows, damaged : Damages]
  BY BackupAssumption
<1>a. ASSUME NEW r \in Rows PROVE [rows |-> r, damaged |-> "no"] \in [rows : Rows, damaged : Damages]
  BY DEF Damages
<1>b. Empty \in Rows
  BY <1>0 DEF Empty, Rows
<1> USE <1>0 DEF BackupTyped, BackupTypeOK, NoScript, CanRestore
<1>1. ASSUME NEW t \in Tables, WriteRow(t) PROVE BackupTyped'
  BY <1>1 DEF WriteRow, Rows
<1>2. CASE Backup
  BY <1>2 DEF Backup, Starts, NoCounts
<1>3. ASSUME NEW t \in Tables, CountTable(t) PROVE BackupTyped'
  BY <1>3 DEF CountTable, Rows
<1>4. CASE Dump
  <2>0. archive' = [rows |-> source, damaged |-> "no"] /\ source \in Rows
    BY <1>4 DEF Dump
  <2>1. archive' = [rows |-> source, damaged |-> "no"] /\ archive' \in [rows : Rows, damaged : Damages] /\ archive' # Absent
    BY <2>0, <1>a
  <2>2. counts' = counts /\ counts \in Rows
    BY <1>4 DEF Dump, Rows
  <2>3. manifest' # Absent => manifest # Absent /\ manifest' = [manifest EXCEPT !.fits = FALSE]
    BY <1>4 DEF Dump
  <2>4. manifest' # Absent => /\ manifest' = [counts |-> manifest'.counts, fits |-> manifest'.fits, busy |-> manifest'.busy]
                              /\ manifest'.counts \in Rows
    BY <2>3
  <2>5. source' = source /\ target' = target /\ script' = "dumped"
    BY <1>4 DEF Dump
  <2> QED BY <2>1, <2>2, <2>4, <2>5
<1>5. CASE WriteManifest
  <2>1. manifest' = [counts |-> counts, fits |-> TRUE, busy |-> busy] /\ counts \in Rows /\ archive # Absent
    BY <1>5 DEF WriteManifest
  <2>2. UNCHANGED <<source, counts, archive, target>> /\ script' = "none"
    BY <1>5 DEF WriteManifest, Ends
  <2> QED BY <2>1, <2>2
<1>6. CASE Restore
  <2>1. target' \in Rows /\ archive # Absent /\ UNCHANGED <<source, counts, archive, manifest>> /\ script' = "migrated"
    BY <1>6, <1>b DEF Restore, Starts
  <2> QED BY <2>1
<1>7. CASE Load
  BY <1>7 DEF Load, Ends
<1>8. CASE Confirm
  BY <1>8 DEF Confirm, Ends
<1>9. CASE ScriptFails
  BY <1>9 DEF ScriptFails, Ends
<1>10. CASE Damage
  <2>1. PICK d \in Damages : archive # Absent /\ archive' = [archive EXCEPT !.damaged = d]
    BY <1>10 DEF Damage, Damages
  <2>2. archive' \in [rows : Rows, damaged : Damages] /\ archive' # Absent
    BY <2>1
  <2>3. manifest' # Absent =>
          /\ manifest' = [counts |-> manifest'.counts, fits |-> manifest'.fits, busy |-> manifest'.busy]
          /\ manifest'.counts \in Rows
    BY <1>10 DEF Damage
  <2>4. UNCHANGED <<source, script, counts, target>>
    BY <1>10 DEF Damage
  <2> QED BY <2>2, <2>3, <2>4
<1>11. CASE Recreate
  BY <1>11 DEF Recreate
<1>12. CASE UNCHANGED backupVars
  BY <1>12 DEF backupVars
<1> QED BY <1>1, <1>2, <1>3, <1>4, <1>5, <1>6, <1>7, <1>8, <1>9, <1>10, <1>11, <1>12 DEF BackupNext

\* There is no archive at first.
LEMMA BackupStartsTyped == BackupInit => BackupTyped
  BY BackupAssumption DEF BackupInit, BackupTyped, BackupTypeOK, NoCounts, NoScript, Rows

\* The writers that have stamped a row.
Stampers(st, k) == {o \in Writers : st[o].key = {k}}

\* A version for each write that may still be committed.
PullTyped ==
    /\ PullTypeOK /\ stamped \in [Writers -> {NoWrite} \cup [key : {{k} : k \in Keys}, at : Times]]
    /\ \A k \in Keys : rows[k].version + Cardinality(Stampers(stamped, k)) <= MaxVersion

\* There are as many as there are writers at most.
LEMMA StampersAreFinite ==
  ASSUME NEW st, NEW k
  PROVE  IsFiniteSet(Stampers(st, k)) /\ Cardinality(Stampers(st, k)) \in Nat
<1>1. Stampers(st, k) \subseteq Writers
  BY DEF Stampers
<1> QED BY <1>1, PullAssumption, FS_Subset, FS_CardinalityType

\* A write that is stamped is one more for its row.
LEMMA StampCounts ==
  ASSUME PullTyped, NEW w \in Writers, NEW k \in Keys, NEW at \in Times, Stamp(w, k, at)
  PROVE  \A j \in Keys : rows[j].version + Cardinality(Stampers(stamped', j)) <= MaxVersion
<1> SUFFICES ASSUME NEW j \in Keys PROVE rows[j].version + Cardinality(Stampers(stamped', j)) <= MaxVersion
  OBVIOUS
<1>1. /\ stamped[w].key = {} /\ stamped' = [stamped EXCEPT ![w] = [key |-> {k}, at |-> at]]
      /\ DOMAIN stamped = Writers
      /\ rows[k].version + Cardinality(Stampers(stamped, k)) < MaxVersion
  BY DEF Stamp, NoWrite, PullTyped, Stampers
<1>2. rows[j].version \in Nat /\ rows[j].version + Cardinality(Stampers(stamped, j)) <= MaxVersion /\ MaxVersion \in Nat
  BY PullAssumption DEF PullTyped, PullTypeOK, Versions
<1>3. CASE j = k
  <2>1. Stampers(stamped', j) = Stampers(stamped, j) \cup {w} /\ w \notin Stampers(stamped, j)
    BY <1>1, <1>3 DEF Stampers
  <2>2. Cardinality(Stampers(stamped', j)) = Cardinality(Stampers(stamped, j)) + 1
    BY <2>1, StampersAreFinite, FS_AddElement
  <2> QED BY <1>1, <1>2, <1>3, <2>2, StampersAreFinite
<1>4. CASE j # k
  <2>1. Stampers(stamped', j) = Stampers(stamped, j)
    BY <1>1, <1>4 DEF Stampers
  <2> QED BY <2>1, <1>2
<1> QED BY <1>3, <1>4

\* A commit takes the version that was kept for it.
LEMMA CommitCounts ==
  ASSUME PullTyped, NEW w \in Writers, NEW k \in stamped[w].key, k \in Keys,
         rows' = [rows EXCEPT ![k] = [at |-> stamped[w].at, version |-> @.version + 1]],
         stamped' = [stamped EXCEPT ![w] = NoWrite]
  PROVE  \A j \in Keys : /\ rows'[j].version + Cardinality(Stampers(stamped', j)) <= MaxVersion
                         /\ rows'[j] \in [at : Times, version : Versions]
<1> SUFFICES ASSUME NEW j \in Keys
             PROVE  /\ rows'[j].version + Cardinality(Stampers(stamped', j)) <= MaxVersion
                    /\ rows'[j] \in [at : Times, version : Versions]
  OBVIOUS
<1>1. stamped[w].key = {k} /\ stamped[w].at \in Times /\ DOMAIN stamped = Writers /\ DOMAIN rows = Keys
  BY DEF PullTyped, PullTypeOK, NoWrite
<1>2. /\ rows[j] \in [at : Times, version : Versions] /\ rows[j].version \in Nat
      /\ rows[j].version + Cardinality(Stampers(stamped, j)) <= MaxVersion /\ MaxVersion \in Nat
  BY PullAssumption DEF PullTyped, PullTypeOK, Versions
<1>3. CASE j = k
  <2>1. Stampers(stamped', j) = Stampers(stamped, j) \ {w} /\ w \in Stampers(stamped, j)
    BY <1>1, <1>3 DEF Stampers, NoWrite
  <2>2. Cardinality(Stampers(stamped', j)) = Cardinality(Stampers(stamped, j)) - 1
    BY <2>1, StampersAreFinite, FS_RemoveElement
  <2>3. rows'[j] = [at |-> stamped[w].at, version |-> rows[j].version + 1]
    BY <1>1, <1>3
  <2>4. Cardinality(Stampers(stamped', j)) \in Nat /\ Cardinality(Stampers(stamped, j)) \in Nat
    BY StampersAreFinite
  <2>5. rows[j].version + 1 + Cardinality(Stampers(stamped', j)) <= MaxVersion
    BY <1>2, <2>2, <2>4
  <2>6. rows[j].version + 1 \in Versions
    BY <1>2, <2>4, <2>5 DEF Versions
  <2> QED BY <1>1, <2>3, <2>5, <2>6
<1>4. CASE j # k
  <2>1. Stampers(stamped', j) = Stampers(stamped, j)
    BY <1>1, <1>4 DEF Stampers, NoWrite
  <2>2. rows'[j] = rows[j]
    BY <1>1, <1>4
  <2> QED BY <2>1, <2>2, <1>2
<1> QED BY <1>3, <1>4

\* A roll-back leaves no more to commit than there was.
LEMMA RollBackCounts ==
  ASSUME PullTyped, NEW w \in Writers, stamped' = [stamped EXCEPT ![w] = NoWrite]
  PROVE  \A j \in Keys : rows[j].version + Cardinality(Stampers(stamped', j)) <= MaxVersion
<1> SUFFICES ASSUME NEW j \in Keys PROVE rows[j].version + Cardinality(Stampers(stamped', j)) <= MaxVersion
  OBVIOUS
<1>1. Stampers(stamped', j) \subseteq Stampers(stamped, j)
  BY DEF Stampers, NoWrite, PullTyped
<1>2. Cardinality(Stampers(stamped', j)) <= Cardinality(Stampers(stamped, j))
  BY <1>1, StampersAreFinite, FS_Subset
<1>3. rows[j].version \in Nat /\ rows[j].version + Cardinality(Stampers(stamped, j)) <= MaxVersion /\ MaxVersion \in Nat
  BY PullAssumption DEF PullTyped, PullTypeOK, Versions
<1> QED BY <1>2, <1>3, StampersAreFinite

\* An answer has the rows that were chosen, and no more of them than there may be.
LEMMA AnswerIsLimited ==
  ASSUME PullTyped, NEW S \in SUBSET Keys, Cardinality(S) <= Limit, NEW got, got = {RowOf(k) : k \in S}
  PROVE  got \subseteq Row /\ Cardinality(got) <= Limit
<1>1. IsFiniteSet(S)
  BY PullAssumption, FS_Subset
<1>2. [k \in S |-> RowOf(k)] \in Surjection(S, got)
  BY DEF Surjection
<1>3. IsFiniteSet(got) /\ Cardinality(got) <= Cardinality(S)
  BY <1>1, <1>2, FS_Surjection
<1>4. got \subseteq Row
  BY DEF RowOf, Row, PullTyped, PullTypeOK
<1> QED BY <1>1, <1>3, <1>4, FS_CardinalityType, PullAssumption

\* Every step of the writers and of the client keeps the versions, and the answers to the limit.
LEMMA PullStaysTyped ==
  ASSUME PullTyped, [PullNext]_pullVars
  PROVE  PullTyped'
<1>0. /\ MaxClock \in Nat /\ MaxVersion \in Nat /\ Limit \in Nat
      /\ Cardinality({}) = 0
  BY PullAssumption, FS_EmptySet
<1>1. ASSUME UNCHANGED rows, stamped' \in [Writers -> {NoWrite} \cup [key : {{k} : k \in Keys}, at : Times]],
             UNCHANGED <<pull, copies, mark, clock, late>>,
             \A j \in Keys : rows[j].version + Cardinality(Stampers(stamped', j)) <= MaxVersion
      PROVE  PullTyped'
  BY <1>1 DEF PullTyped, PullTypeOK, Stampers
<1>11. ASSUME pull'.got = {}, UNCHANGED <<rows, stamped, copies, mark, clock, late>> PROVE PullTyped'
  <2>1. pull'.got \subseteq Row /\ Cardinality(pull'.got) <= Limit
    BY <1>0, <1>11
  <2>2. UNCHANGED <<rows, stamped, copies, mark, clock, late>>
    BY <1>11
  <2> QED BY <2>1, <2>2 DEF PullTyped, PullTypeOK, Stampers
<1>2. ASSUME NEW w \in Writers, NEW k \in Keys, NEW at \in Times, Stamp(w, k, at) PROVE PullTyped'
  <2>1. stamped' \in [Writers -> {NoWrite} \cup [key : {{j} : j \in Keys}, at : Times]]
    BY <1>2 DEF Stamp, PullTyped
  <2> QED BY <2>1, <1>1, <1>2, StampCounts DEF Stamp
<1>3. ASSUME NEW w \in Writers, RollBack(w) PROVE PullTyped'
  <2>1. stamped' \in [Writers -> {NoWrite} \cup [key : {{j} : j \in Keys}, at : Times]]
    BY <1>3 DEF RollBack, PullTyped
  <2> QED BY <2>1, <1>1, <1>3, RollBackCounts DEF RollBack
<1>4. ASSUME NEW w \in Writers, CommitWrite(w) PROVE PullTyped'
  <2>1. PICK k \in stamped[w].key :
              /\ rows' = [rows EXCEPT ![k] = [at |-> stamped[w].at, version |-> @.version + 1]]
              /\ stamped' = [stamped EXCEPT ![w] = NoWrite]
              /\ late' \subseteq late \cup {k} /\ UNCHANGED <<pull, copies, mark, clock>>
    BY <1>4 DEF CommitWrite
  <2>2. k \in Keys
    BY DEF PullTyped, NoWrite
  <2>3. \A j \in Keys : /\ rows'[j].version + Cardinality(Stampers(stamped', j)) <= MaxVersion
                        /\ rows'[j] \in [at : Times, version : Versions]
    BY <2>1, <2>2, CommitCounts
  <2>4. rows' = [j \in Keys |-> rows'[j]]
    BY <2>1 DEF PullTyped, PullTypeOK
  <2>5. rows' \in [Keys -> [at : Times, version : Versions]]
    BY <2>3, <2>4
  <2>6. stamped' \in [Writers -> {NoWrite} \cup [key : {{j} : j \in Keys}, at : Times]]
    BY <2>1 DEF PullTyped
  <2> QED BY <2>1, <2>2, <2>3, <2>5, <2>6 DEF PullTyped, PullTypeOK, Stampers
<1>5. ASSUME NEW since, AskPull(since) PROVE PullTyped'
  <2>1. pull'.got = {} /\ UNCHANGED <<rows, stamped, copies, mark, clock, late>>
    BY <1>5 DEF AskPull
  <2> QED BY <2>1, <1>11
<1>6. CASE ReadRows
  <2>1. PICK S \in SUBSET Newer(pull.since) :
              /\ Cardinality(S) = Limit \/ Cardinality(S) < Limit
              /\ pull'.got = {RowOf(k) : k \in S} /\ late' = late \cup (Newer(pull.since) \ S)
    <3>1. PICK S \in SUBSET Newer(pull.since) :
                /\ Cardinality(S) = Limit \/ (Cardinality(S) < Limit /\ S = Newer(pull.since))
                /\ pull' = [step |-> "read", since |-> pull.since, got |-> {RowOf(k) : k \in S}]
                /\ late' = late \cup (Newer(pull.since) \ S)
      BY <1>6 DEF ReadRows
    <3>2. pull'.got = {RowOf(k) : k \in S}
      BY <3>1
    <3> QED BY <3>1, <3>2
  <2>2. S \in SUBSET Keys /\ Newer(pull.since) \subseteq Keys
    BY DEF Newer
  <2>3. Cardinality(S) <= Limit
    <3>1. Cardinality(S) \in Nat
      BY <2>2, PullAssumption, FS_Subset, FS_CardinalityType
    <3> QED BY <2>1, <3>1, <1>0
  <2>4. pull'.got \subseteq Row /\ Cardinality(pull'.got) <= Limit
    BY <2>1, <2>2, <2>3, AnswerIsLimited
  <2>5. late' \subseteq Keys
    BY <2>1, <2>2 DEF PullTyped, PullTypeOK
  <2>6. UNCHANGED <<rows, stamped, copies, mark, clock>>
    BY <1>6 DEF ReadRows
  <2> QED BY <2>4, <2>5, <2>6 DEF PullTyped, PullTypeOK, Stampers
<1>7. CASE AnswerPull
  <2>1. ASSUME NEW k \in Keys PROVE copies'[k] \in Versions
    <3>1. CASE \E r \in pull.got : r.key = k
      BY <1>7, <3>1 DEF AnswerPull, PullTyped, PullTypeOK, Row
    <3>2. CASE ~\E r \in pull.got : r.key = k
      BY <1>7, <3>2 DEF AnswerPull, PullTyped, PullTypeOK
    <3> QED BY <3>1, <3>2
  <2>2. copies' = [k \in Keys |-> copies'[k]]
    BY <1>7 DEF AnswerPull
  <2>3. copies' \in [Keys -> Versions]
    BY <2>1, <2>2
  <2>4. mark' = clock /\ pull'.got = {} /\ UNCHANGED <<rows, stamped, clock, late>>
    BY <1>7 DEF AnswerPull, NoPull
  <2>5. mark' \in 0..clock'
    BY <2>4, <1>0 DEF PullTyped, PullTypeOK, Times
  <2>6. pull'.got \subseteq Row /\ Cardinality(pull'.got) <= Limit
    BY <2>4, <1>0
  <2>7. UNCHANGED <<rows, stamped, clock, late>>
    BY <2>4
  <2> QED BY <2>3, <2>5, <2>6, <2>7 DEF PullTyped, PullTypeOK, Stampers
<1>8. CASE LosePull
  <2>1. pull'.got = {} /\ UNCHANGED <<rows, stamped, copies, mark, clock, late>>
    BY <1>8 DEF LosePull, NoPull
  <2> QED BY <2>1, <1>11
<1>9. CASE Later
  <2>1. UNCHANGED <<rows, stamped, pull, copies, mark, late>> /\ clock' = clock + 1 /\ clock < MaxClock
    BY <1>9 DEF Later
  <2>2. clock' \in Times /\ mark' \in 0..clock'
    BY <1>0, <2>1 DEF PullTyped, PullTypeOK, Times
  <2> QED BY <2>1, <2>2 DEF PullTyped, PullTypeOK, Stampers
<1>10. CASE UNCHANGED pullVars
  BY <1>10 DEF pullVars, PullTyped, PullTypeOK, Stampers
<1> QED BY <1>2, <1>3, <1>4, <1>5, <1>6, <1>7, <1>8, <1>9, <1>10 DEF PullNext

\* The rows have their first versions.
LEMMA PullStartsTyped == PullInit => PullTyped
<1> SUFFICES ASSUME PullInit PROVE PullTyped
  OBVIOUS
<1>1. MaxClock \in Nat /\ MaxVersion \in Nat /\ Limit \in Nat /\ Cardinality({}) = 0
  BY PullAssumption, FS_EmptySet
<1>2. \A k : Stampers(stamped, k) = {}
  BY DEF PullInit, NoWrite, Stampers
<1> QED BY <1>1, <1>2 DEF PullInit, PullTyped, PullTypeOK, NoPull, Times, Versions

-----------------------------------------------------------------------------
(* What a connection has written is of a request or of a transaction left open. *)
PutsBelong == \A c \in Conns : conn[c].put # <<>> => job[c] # NoJob \/ conn[c].open

\* A request that ends commits, rolls back or leaves its transaction open
\* (admin-transfer-tour.routes.js 13, 34).
LEMMA PutsStayOwned ==
  ASSUME CurrentTyped, PutsBelong, [CurrentNext]_currentVars
  PROVE  PutsBelong'
<1>0. DOMAIN conn = Conns /\ DOMAIN job = Conns /\ \A c \in Conns : job[c] \in Jobs /\ DOMAIN conn[c] = {"open", "put", "answered"}
  BY DEF CurrentTyped, Connection
<1>1. ASSUME NEW c \in Conns, \A o \in Conns \ {c} : conn'[o] = conn[o] /\ job'[o] = job[o],
             job'[c] # NoJob \/ conn'[c].open \/ conn'[c].put = <<>>
      PROVE  PutsBelong'
  BY <1>1 DEF PutsBelong
<1>2. ASSUME NEW c \in Conns, NEW j, Comes(c, j), j.step # "none", Begins(c) \/ UNCHANGED conn PROVE PutsBelong'
  BY <1>0, <1>1, <1>2 DEF Comes, Begins, NoJob
<1>3. ASSUME NEW c \in Conns, NEW d, NEW t, NEW b, NEW old,
             \/ Choose(c, d, t) \/ SyncTour(c, d, t) \/ SaveTour(c, d, t, b) \/ TransferTour(c, d, t)
             \/ PatchTour(c, d, t) \/ PushTour(c, d, t) \/ SeedTour(c, d, t) \/ Rename(c, old, d) \/ ResetDatabase(c)
      PROVE  PutsBelong'
  <2>1. ASSUME NEW step, step # "none", NEW kind, NEW m, Comes(c, Task(step, kind, d, t, m)), Begins(c) \/ UNCHANGED conn
        PROVE  PutsBelong'
    BY <1>2, <2>1 DEF Task
  <2>2. CASE PushTour(c, d, t)
    <3>1. PICK step \in {"insert", "save", "move"} : Comes(c, Task(step, "direct", d, t, FALSE))
      BY <2>2 DEF PushTour
    <3> QED BY <2>1, <2>2, <3>1 DEF PushTour
  <2>3. CASE Rename(c, old, d) \/ ResetDatabase(c)
    BY <1>2, <2>3 DEF Rename, ResetDatabase
  <2> QED BY <1>3, <2>1, <2>2, <2>3 DEF Choose, SyncTour, SaveTour, TransferTour, PatchTour, SeedTour
\* A statement: only what its connection has written changes, and the request goes on.
<1>4. ASSUME NEW c \in Conns, NEW x, conn' = conn \/ conn' = [conn EXCEPT ![c].put = x],
             NEW s, job' = [job EXCEPT ![c].step = s], s # "none", job[c] # NoJob
      PROVE  PutsBelong'
  <2>1. job'[c].step = s /\ \A o \in Conns \ {c} : conn'[o] = conn[o] /\ job'[o] = job[o]
    BY <1>0, <1>4 DEF Jobs, Asking, Wiping, Naming
  <2> QED BY <2>1, <1>1, <1>4 DEF NoJob
<1>5. ASSUME NEW c \in Conns,
             Save(c) \/ Insert(c) \/ UpsertTour(c) \/ DeleteAll(c) \/ Move(c) \/ RenameTours(c) \/ Mark(c)
      PROVE  PutsBelong'
  <2>1. job[c] # NoJob
    BY <1>5 DEF Save, Insert, UpsertTour, DeleteAll, Move, RenameTours, Mark, NoJob
  <2>2. \E s : s # "none" /\ job' = [job EXCEPT ![c].step = s]
    BY <1>5 DEF Save, Insert, UpsertTour, DeleteAll, Move, RenameTours, Mark, Goes, AfterMove
  <2>3. conn' = conn \/ \E x : conn' = [conn EXCEPT ![c].put = x]
    BY <1>5 DEF Save, Insert, UpsertTour, DeleteAll, Move, RenameTours, Mark, Puts
  <2> QED BY <2>1, <2>2, <2>3, <1>4
<1>6. ASSUME NEW c \in Conns, NEW t, ReadTour(c) \/ Clear(c) \/ ClearRow(c, t) PROVE PutsBelong'
  <2>1. \A o \in Conns \ {c} : conn'[o] = conn[o] /\ job'[o] = job[o]
    BY <1>0, <1>6 DEF ReadTour, Clear, ClearRow, Puts
  <2>2. job[c] \in Asking
    <3>1. job[c].step \in {"read", "clear", "clearing"}
      BY <1>6 DEF ReadTour, Clear, ClearRow
    <3> QED BY <3>1, JobIs
  <2>3. job'[c].step # "none"
    BY <1>0, <1>6, <2>2 DEF ReadTour, Clear, ClearRow, Asking
  <2> QED BY <2>1, <2>3, <1>1 DEF NoJob
<1>7. ASSUME NEW c \in Conns, Commit(c) \/ QueryFails(c) \/ FailureSwallowed(c) \/ IdleClosed(c) \/ TransferRefused(c)
      PROVE  PutsBelong'
  <2>1. \A o \in Conns \ {c} : conn'[o] = conn[o] /\ job'[o] = job[o]
    BY <1>0, <1>7 DEF Commit, QueryFails, FailureSwallowed, IdleClosed, TransferRefused, Begins
  <2>2. conn'[c].open \/ conn'[c].put = <<>>
    BY <1>0, <1>7 DEF Commit, QueryFails, FailureSwallowed, IdleClosed, TransferRefused, Begins, Clean, RolledBack
  <2> QED BY <2>1, <2>2, <1>1
<1>8. CASE UNCHANGED currentVars
  BY <1>8 DEF currentVars, PutsBelong
<1> QED BY <1>3, <1>5, <1>6, <1>7, <1>8 DEF CurrentNext

\* With the types in full, those that the run checks.
LEMMA CurrentTypesFollow == CurrentTyped /\ PutsBelong => CurrentTypeOK
  BY DEF CurrentTyped, PutsBelong, CurrentTypeOK, TourRow

\* The pool's connections are clean at first.
LEMMA PutsBelongAtFirst == CurrentInit => PutsBelong
  BY DEF CurrentInit, PutsBelong, Clean

-----------------------------------------------------------------------------
(* Parts: what is proved of each holds of all of them side by side. *)

\* Each part begins as its own specification says.
LEMMA PartsBegin ==
  Init => /\ HotelInit /\ CostInit /\ PhotoInit /\ BackupInit /\ PullInit /\ AdminInit
          /\ CurrentInit /\ DriverInit /\ SummaryInit /\ RouteInit /\ AgentInit
  BY DEF Init

\* A step of one part is a step of it or leaves it alone.
LEMMA PartsGoOn ==
  [Next]_vars => /\ [HotelNext]_hotelVars /\ [CostNext]_costVars /\ [PhotoNext]_photoVars
                 /\ [BackupNext]_backupVars /\ [PullNext]_pullVars /\ [AdminNext]_adminVars
                 /\ [CurrentNext]_currentVars /\ [DriverNext]_driverVars
                 /\ [SummaryNext]_summaryVars /\ [RouteNext]_routeVars /\ [AgentNext]_agentVars
<1> USE DEF Next, HotelStep, CostStep, PhotoStep, AdminStep, CurrentStep, BackupStep, DriverStep,
            PullStep, SummaryStep, RouteStep, AgentStep, vars
<1>1. [Next]_vars => [HotelNext]_hotelVars
  OBVIOUS
<1>2. [Next]_vars => [CostNext]_costVars
  OBVIOUS
<1>3. [Next]_vars => [PhotoNext]_photoVars
  OBVIOUS
<1>4. [Next]_vars => [BackupNext]_backupVars
  OBVIOUS
<1>5. [Next]_vars => [PullNext]_pullVars
  OBVIOUS
<1>6. [Next]_vars => [AdminNext]_adminVars
  OBVIOUS
<1>7. [Next]_vars => [CurrentNext]_currentVars
  OBVIOUS
<1>8. [Next]_vars => [DriverNext]_driverVars
  OBVIOUS
<1>9. [Next]_vars => [SummaryNext]_summaryVars
  OBVIOUS
<1>10. [Next]_vars => [RouteNext]_routeVars
  OBVIOUS
<1>11. [Next]_vars => [AgentNext]_agentVars
  OBVIOUS
<1> QED BY <1>1, <1>2, <1>3, <1>4, <1>5, <1>6, <1>7, <1>8, <1>9, <1>10, <1>11

(* Side by side every part behaves as its own specification says, so that what
   is proved of a part alone holds of what the run checks. *)
THEOREM PartsAreTheirSpecs ==
  Spec => /\ HotelSpec /\ CostSpec /\ PhotoSpec /\ BackupSpec /\ PullSpec /\ AdminSpec
          /\ CurrentSpec /\ DriverSpec /\ SummarySpec /\ RouteSpec /\ AgentSpec
<1> QED
  BY PartsBegin, PartsGoOn, PTL DEF Spec, HotelSpec, CostSpec, PhotoSpec, BackupSpec, PullSpec, AdminSpec,
     CurrentSpec, DriverSpec, SummarySpec, RouteSpec, AgentSpec

(* Whatever the constants, every part's state has its types: a status that is
   written is a change (hotel-engine.js 41-60), an answer has no more rows than
   its limit (sync.routes.js 257-270), what a connection has written is of a
   request or of a transaction left open (admin-transfer-tour.routes.js 13), a
   session is not newer than its account (driver-session.js 63-65). *)
THEOREM EveryPartStaysTyped == Spec => []TypesOK
<1>1. HotelSpec => []HotelTypeOK
  <2>1. HotelTyped => HotelTypeOK
    BY DEF HotelTyped
  <2>2. HotelTyped /\ [HotelNext]_hotelVars => HotelTyped'
    BY HotelStaysTyped
  <2> QED BY <2>1, <2>2, HotelStartsTyped, PTL DEF HotelSpec
<1>2. CostSpec => []CostTypeOK
  <2>1. CostTyped => CostTypeOK
    BY DEF CostTyped
  <2>2. CostTyped /\ [CostNext]_costVars => CostTyped'
    BY CostStaysTyped
  <2> QED BY <2>1, <2>2, CostStartsTyped, PTL DEF CostSpec
<1>3. PhotoSpec => []PhotoTypeOK
  <2>1. PhotoInv /\ PhotoLimits /\ [PhotoNext]_photoVars => PhotoInv' /\ PhotoLimits'
    BY NextPhotoInv, PhotoStaysLimited
  <2> QED BY <2>1, InitPhotoInv, PhotoStartsLimited, PhotoTypesFollow, PTL DEF PhotoSpec
<1>4. BackupSpec => []BackupTypeOK
  <2>1. BackupTyped => BackupTypeOK
    BY DEF BackupTyped
  <2>2. BackupTyped /\ [BackupNext]_backupVars => BackupTyped'
    BY BackupStaysTyped
  <2> QED BY <2>1, <2>2, BackupStartsTyped, PTL DEF BackupSpec
<1>5. PullSpec => []PullTypeOK
  <2>1. PullTyped => PullTypeOK
    BY DEF PullTyped
  <2>2. PullTyped /\ [PullNext]_pullVars => PullTyped'
    BY PullStaysTyped
  <2> QED BY <2>1, <2>2, PullStartsTyped, PTL DEF PullSpec
<1>6. CurrentSpec => []CurrentTypeOK
  <2>1. CurrentInv /\ PutsBelong /\ [CurrentNext]_currentVars => CurrentInv' /\ PutsBelong'
    BY CurrentGoesOn, PutsStayOwned DEF CurrentInv
  <2>2. CurrentInv /\ PutsBelong => CurrentTypeOK
    BY CurrentTypesFollow DEF CurrentInv
  <2> QED BY <2>1, <2>2, CurrentBegins, PutsBelongAtFirst, PTL DEF CurrentSpec
<1> QED
  BY <1>1, <1>2, <1>3, <1>4, <1>5, <1>6, AdminStaysTyped, DriverStaysTyped, DayTotalsCountEachMomentOnce,
     WhatIsStillToGo, EventsHaveReasons, PartsAreTheirSpecs, PTL DEF TypesOK

(* What the run Parts checks of the parts on a small instance holds for all
   values of the constants: bookings, costs, files, the current tour, restores,
   passwords and drivers, pulled rows, totals, routes and diagnostics
   (each property's comment names its lines). *)
THEOREM EveryPartIsSafe ==
  Spec => /\ [](StatusIsKeptAndTold /\ CostsStand /\ FilesAndRowsAgree)
          /\ [](OneCurrentTour /\ AnsweredWritesAreKept /\ RestoreOkMeansAll)
          /\ [](OldPasswordsOpenNothing /\ RenamesAndDeletionsAreWhole /\ MissedRowsWereLate)
          /\ [](TotalsCountEachMomentOnce /\ RemainingIsTheRest /\ EventsLeaveForAReason)
          /\ WritesAndLoginsAreGuarded
<1>1. Spec => [](StatusIsKeptAndTold /\ CostsStand /\ FilesAndRowsAgree)
  BY PartsAreTheirSpecs, BookingIsKeptAndTold, OfficeStands, PhotosAreFiles, PTL
<1>2. Spec => [](OneCurrentTour /\ AnsweredWritesAreKept /\ RestoreOkMeansAll)
  BY PartsAreTheirSpecs, OneTourIsCurrent, AnswersAreKept, RestoreIsOfTheWholeBackup, PTL
<1>3. Spec => [](OldPasswordsOpenNothing /\ RenamesAndDeletionsAreWhole /\ MissedRowsWereLate)
  BY PartsAreTheirSpecs, PasswordChangesShut, DriverChangesAreWhole, OnlyLateRowsAreMissed, PTL
<1>4. Spec => [](TotalsCountEachMomentOnce /\ RemainingIsTheRest /\ EventsLeaveForAReason)
  BY PartsAreTheirSpecs, DayTotalsCountEachMomentOnce, WhatIsStillToGo, EventsHaveReasons, PTL
<1>5. Spec => WritesAndLoginsAreGuarded
  BY PartsAreTheirSpecs, OfficeIsGuarded
<1> QED BY <1>1, <1>2, <1>3, <1>4, <1>5

=============================================================================
