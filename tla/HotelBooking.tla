---------------------------- MODULE HotelBooking ----------------------------
(***************************************************************************)
(* A booked hotel: its status as the driver's phone changes it through the *)
(* status endpoints (hotel.routes.js, hotel-engine.js), as the office      *)
(* saves it from its page (admin.routes.js), and as a client uploads it    *)
(* with /api/sync-hotels.                                                  *)
(*                                                                         *)
(* A change of status is five queries without a transaction: the owner's   *)
(* row, the status, the UPDATE, the event; the phone sends one event again *)
(* until it has an answer, and two of its syncs may run at a time. BOOKED, *)
(* CONFIRMED and PROBLEM are like CHECKED_IN here.                         *)
(***************************************************************************)
EXTENDS Naturals, TLC

CONSTANTS None, Slots,
          Events,          \* what the driver may tap, and the overrides: [id, to, override, reason]
          MaxTime, MaxSent \* bounds

VARIABLES hotel,  \* the row: status, at (updated_at), gone (deleted_at)
          events, \* hotel_events: the client_event_id's there
          queue,  \* the phone's events that have no answer yet
          page,   \* the status that the office's page shows, or None
          req, time, sent,
          \* History, read by no action:
          told,   \* the status of the last event
          final,  \* the terminal status that the hotel came to, or None
          odd     \* "unguarded", "untold": how else the status or its trail was written

hotelVars == <<hotel, events, queue, page, req, time, sent, told, final, odd>>

Terminal == {"CHECKED_OUT", "CANCELLED"}
Status == {"PLANNED", "CHECKED_IN"} \cup Terminal
Idle == [step |-> "idle"]

ASSUME HotelAssumption ==
    None \notin Status /\ (\A e \in Events : e.to \in Status) /\ MaxTime \in Nat

HotelTypeOK ==
    /\ hotel \in [status : Status, at : 0..MaxTime, gone : BOOLEAN]
    /\ queue \subseteq Events /\ events \subseteq Events /\ page \in Status \cup {None}
    /\ \A s \in Slots : req[s].step \in {"checked", "written"} => req[s].from # req[s].event.to

Both == {"unguarded", "untold"}

\* The first terminal status, as long as it is the row's.
Final(status) == IF final = None /\ status \in Terminal THEN status ELSE final

-----------------------------------------------------------------------------
(* The status endpoints *)

\* ensureHotelOwned
Ask(s, e) ==
    /\ req[s] = Idle /\ sent < MaxSent /\ sent' = sent + 1
    /\ ~hotel.gone \* or 403
    /\ req' = [req EXCEPT ![s] = [step |-> "owned", event |-> e]]
    /\ odd' = odd \cup (IF \E o \in Slots : req[o] # Idle THEN Both ELSE {}) \cup (IF e.override THEN {"unguarded"} ELSE {})
    /\ UNCHANGED <<hotel, events, queue, page, time, told, final>>

RefusedBlankOverride(r) == r.override /\ ~r.reason
Refused(r) == RefusedBlankOverride(r) \/ (hotel.status \in Terminal /\ ~r.override)

\* transitionHotelStatus: the status it was is no change, and no event.
IsNever(e) == FALSE
IsAlready(e) == hotel.status = e.to
Check(s) ==
    LET e == req[s].event IN
    /\ req[s].step = "owned"
    /\ req' = [req EXCEPT ![s] =
                  CASE IsAlready(e) -> [step |-> "answer", event |-> e]
                    [] ~IsAlready(e) /\ Refused(e) -> Idle
                    [] OTHER -> [step |-> "checked", event |-> e, from |-> hotel.status]]
    /\ UNCHANGED <<hotel, events, queue, page, time, sent, told, final, odd>>

Write(s) ==
    /\ req[s].step = "checked"
    /\ hotel' = [hotel EXCEPT !.status = req[s].event.to, !.at = time]
    /\ final' = Final(req[s].event.to)
    /\ req' = [req EXCEPT ![s] = [step |-> "written", event |-> @.event, from |-> @.from]]
    /\ UNCHANGED <<events, queue, page, time, sent, told, odd>>

\* logHotelEvent: an id that is there is no new event.
LoggedStatus(r) == r.event.to
Log(s) ==
    LET r == req[s]
        known == r.event \in events
    IN
    /\ r.step = "written"
    /\ events' = events \cup {r.event}
    /\ told' = IF known THEN told ELSE LoggedStatus(r)
    /\ odd' = IF known THEN odd \cup {"untold"} ELSE odd
    /\ req' = [req EXCEPT ![s] = [step |-> "answer", event |-> r.event]]
    /\ UNCHANGED <<hotel, queue, page, time, sent, final>>

\* The INSERT fails, which is only logged, or the process stops before it.
LogFails(s) ==
    /\ req[s].step = "written" /\ odd' = odd \cup {"untold"}
    /\ req' = [req EXCEPT ![s] = Idle]
    /\ UNCHANGED <<hotel, events, queue, page, time, sent, told, final>>

Answer(s) ==
    /\ req[s].step = "answer" /\ queue' = queue \ {req[s].event}
    /\ req' = [req EXCEPT ![s] = Idle]
    /\ UNCHANGED <<hotel, events, page, time, sent, told, final, odd>>
\* The phone will send the event again.
AnswerLost(s) ==
    /\ req[s].step \in {"answer", "checked"} /\ req' = [req EXCEPT ![s] = Idle]
    /\ UNCHANGED <<hotel, events, queue, page, time, sent, told, final, odd>>

Tap(e) ==
    /\ e \notin queue \cup events /\ queue' = queue \cup {e}
    /\ UNCHANGED <<hotel, events, page, req, time, sent, told, final, odd>>

-----------------------------------------------------------------------------
(* The office and the upload *)

Put(row) ==
    /\ sent < MaxSent /\ sent' = sent + 1
    /\ hotel' = row /\ odd' = IF row.status = hotel.status THEN odd ELSE odd \cup Both
    /\ final' = Final(row.status)
    /\ UNCHANGED <<events, queue, req, time, told>>

\* GET /admin/hotels does not show a hotel that is deleted.
OpenPage == /\ ~hotel.gone /\ page' = hotel.status
            /\ UNCHANGED <<hotel, events, queue, req, time, sent, told, final, odd>>
\* The form sends every field, the status as the page shows it or another.
SaveHotelRecord(status) == page # None /\ page' = None /\ Put([hotel EXCEPT !.status = status, !.at = time])
Patch == Put([hotel EXCEPT !.at = time]) /\ UNCHANGED page
Delete == Put([hotel EXCEPT !.gone = TRUE]) /\ UNCHANGED page

\* The later updated_at wins; a deleted row stays deleted.
SyncHotels(status, at) ==
    /\ at >= hotel.at
    /\ Put([hotel EXCEPT !.status = status, !.at = at]) /\ UNCHANGED page

Tick == /\ time < MaxTime /\ time' = time + 1
        /\ UNCHANGED <<hotel, events, queue, page, req, sent, told, final, odd>>

HotelInit ==
    /\ hotel = [status |-> "PLANNED", at |-> 0, gone |-> FALSE]
    /\ events = {} /\ queue = {} /\ page = None
    /\ req = [s \in Slots |-> Idle] /\ time = 0 /\ sent = 0
    /\ told = "PLANNED" /\ final = None /\ odd = {}

HotelNext ==
    \/ \E s \in Slots :
          \/ \E e \in queue : Ask(s, e)
          \/ Check(s) \/ Write(s) \/ Log(s) \/ LogFails(s) \/ Answer(s) \/ AnswerLost(s)
    \/ \E e \in Events : Tap(e)
    \/ OpenPage \/ Patch \/ Delete \/ Tick
    \/ \E status \in Status : SaveHotelRecord(status) \/ \E at \in 0..time : SyncHotels(status, at)

HotelSpec == HotelInit /\ [][HotelNext]_hotelVars

(* A stay that was checked out or cancelled is not opened again by the status
   endpoints one after the other, sent late or twice as they may be: it takes
   an override, an overlap of two, the office's form or an upload
   (hotel-engine.js 41-60, hotel.routes.js 254, 331). *)
TerminalStatusStands == final # None /\ "unguarded" \notin odd => hotel.status = final

(* The last event tells the status when nothing is under way, except after an
   event that was lost or that came again with its id, an overlap, or a write
   that makes no event (hotel-engine.js 27-38, 57-72). *)
EventsTellTheStatus == "untold" \notin odd /\ (\A s \in Slots : req[s] = Idle) => told = hotel.status

(* The status of a stay is kept, and its events tell it (hotel-engine.js 27-72). *)
StatusIsKeptAndTold == TerminalStatusStands /\ EventsTellTheStatus

=============================================================================
