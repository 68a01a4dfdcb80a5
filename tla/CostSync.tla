------------------------------ MODULE CostSync ------------------------------
(***************************************************************************)
(* A driver's costs: the phone's table and the server's (cost.routes.js),  *)
(* and the syncs that the phone starts after every change: it pulls the    *)
(* server's live costs over its own (CostsViewModel.kt,                    *)
(* DriverRepositoryImpl.kt) and pushes what it then has.                   *)
(*                                                                         *)
(* Of a cost only the status is kept: the other fields always travel       *)
(* together, and the server's go over the phone's in the pull.             *)
(***************************************************************************)
EXTENDS Naturals

CONSTANTS Costs,      \* uuid's
          Syncs,       \* the phone's syncs that may be under way together
          MaxChanges   \* bound of what the driver and the office do

VARIABLES table,  \* costs on the server, by uuid: [status, gone]
          room,   \* the phone's, by uuid: the status
          sync, changes,
          \* History, read by no action:
          decided,       \* the status that the office gave last
          removed, loose \* costs removed on the server; those that a push may bring back

costVars == <<table, room, sync, changes, decided, removed, loose>>

Statuses == {"Rogzitve", "Elfogadva"}
NoSync == [step |-> "none"]
Live == {c \in DOMAIN table : ~table[c].gone}

Fresh == Costs \ (DOMAIN table \cup DOMAIN room \cup
                  UNION {DOMAIN sync[s].list : s \in {t \in Syncs : sync[t].step = "sent"}})
Over(f, g) == [c \in DOMAIN f \cup DOMAIN g |-> IF c \in DOMAIN f THEN f[c] ELSE g[c]]
With(f, c, v) == [d \in DOMAIN f \cup {c} |-> IF d = c THEN v ELSE f[d]]
Only(f, S) == [c \in DOMAIN f \cap S |-> f[c]]

CostTypeOK ==
    /\ DOMAIN table \subseteq Costs /\ \A c \in DOMAIN table : table[c] \in [status : Statuses, gone : BOOLEAN]
    /\ DOMAIN room \subseteq Costs /\ \A c \in DOMAIN room : room[c] \in Statuses
    /\ removed \subseteq DOMAIN table

-----------------------------------------------------------------------------
(* The phone *)

Changing == changes < MaxChanges /\ changes' = changes + 1
StartSync(s) == sync[s] = NoSync /\ sync' = [sync EXCEPT ![s] = [step |-> "asked"]]
Ours == <<table, decided, removed>>

AddCost(s, c) ==
    /\ Changing /\ StartSync(s) /\ c \in Fresh
    /\ room' = With(room, c, "Rogzitve") /\ UNCHANGED <<Ours, loose>>
UpdateCost(s) == Changing /\ StartSync(s) /\ room # <<>> /\ UNCHANGED <<room, Ours, loose>>
DeleteCost(s, c) ==
    /\ Changing /\ StartSync(s) /\ c \in DOMAIN room
    /\ room' = Only(room, Costs \ {c}) /\ UNCHANGED <<Ours, loose>>

\* A receipt that the AI read: the costs are pushed without a pull.
AddReadCost(s, c) ==
    /\ Changing /\ sync[s] = NoSync /\ c \in Fresh
    /\ room' = With(room, c, "Rogzitve")
    /\ sync' = [sync EXCEPT ![s] = [step |-> "merged"]]
    /\ loose' = loose \cup removed
    /\ UNCHANGED Ours

\* GET /api/get-costs
GetCosts(s) ==
    /\ sync[s].step = "asked"
    /\ sync' = [sync EXCEPT ![s] = [step |-> "got", list |-> [c \in Live |-> table[c].status]]]
    /\ loose' = IF Live = {} THEN loose \cup removed ELSE loose
    /\ UNCHANGED <<room, changes, Ours>>

ReadLocal(s) ==
    /\ sync[s].step = "got"
    /\ sync' = [sync EXCEPT ![s] = [step |-> "read", list |-> @.list, local |-> DOMAIN room]]
    /\ UNCHANGED <<room, changes, Ours, loose>>

\* syncRemoteCosts: nothing is deleted when the server has no costs.
Merged(r) == Over(r.list, IF DOMAIN r.list = {} THEN room ELSE Only(room, Costs \ r.local))
SyncRemoteCosts(s) ==
    /\ sync[s].step = "read" /\ room' = Merged(sync[s])
    /\ sync' = [sync EXCEPT ![s] = [step |-> "merged"]]
    /\ UNCHANGED <<changes, Ours, loose>>

Send(s) ==
    /\ sync[s].step = "merged" /\ sync' = [sync EXCEPT ![s] = [step |-> "sent", list |-> room]]
    /\ UNCHANGED <<room, changes, Ours, loose>>

\* A request or its answer is lost, or the app is closed.
SyncFails(s) ==
    /\ sync[s] # NoSync /\ sync' = [sync EXCEPT ![s] = NoSync]
    /\ UNCHANGED <<room, changes, Ours, loose>>

\* GET /api/cost-status, once a minute
PollStatus ==
    /\ room' = [c \in DOMAIN room |-> IF c \in Live THEN table[c].status ELSE room[c]]
    /\ UNCHANGED <<sync, changes, Ours, loose>>

-----------------------------------------------------------------------------
(* The server *)

\* The upsert of POST /api/sync-costs leaves the status, and clears deleted_at.
StoredAsSent(list, c) == [status |-> list[c], gone |-> FALSE]
Stored(list, c) == [status |-> IF c \in DOMAIN table THEN table[c].status ELSE "Rogzitve", gone |-> FALSE]
SyncCosts(s) ==
    /\ sync[s].step = "sent"
    /\ table' = Over([c \in DOMAIN sync[s].list |-> Stored(sync[s].list, c)], table)
    /\ decided' = Over(decided, [c \in DOMAIN sync[s].list |-> "Rogzitve"])
    /\ sync' = [sync EXCEPT ![s] = NoSync]
    /\ UNCHANGED <<room, changes, removed, loose>>

SaveCost(c) ==
    /\ Changing /\ c \in Fresh
    /\ table' = With(table, c, [status |-> "Rogzitve", gone |-> FALSE])
    /\ decided' = With(decided, c, "Rogzitve")
    /\ UNCHANGED <<room, sync, removed, loose>>

UpdateCostStatus(c, status) ==
    /\ Changing /\ c \in DOMAIN table /\ table' = [table EXCEPT ![c].status = status]
    /\ decided' = [decided EXCEPT ![c] = status]
    /\ UNCHANGED <<room, sync, removed, loose>>

\* A deletion comes with the generic sync (sync.routes.js).
RemoveCost(c) ==
    /\ Changing /\ c \in Live /\ table' = [table EXCEPT ![c].gone = TRUE]
    /\ removed' = removed \cup {c}
    /\ loose' = IF \A s \in Syncs : sync[s].step \in {"none", "asked"} THEN loose ELSE loose \cup {c}
    /\ UNCHANGED <<room, sync, decided>>

CostInit ==
    /\ table = <<>> /\ room = <<>> /\ sync = [s \in Syncs |-> NoSync] /\ changes = 0
    /\ decided = <<>> /\ removed = {} /\ loose = {}

CostNext ==
    \/ \E s \in Syncs :
          \/ UpdateCost(s) \/ GetCosts(s) \/ ReadLocal(s) \/ SyncRemoteCosts(s) \/ Send(s) \/ SyncFails(s) \/ SyncCosts(s)
          \/ \E c \in Costs : AddCost(s, c) \/ DeleteCost(s, c) \/ AddReadCost(s, c)
    \/ PollStatus
    \/ \E c \in Costs : SaveCost(c) \/ RemoveCost(c) \/ \E status \in Statuses : UpdateCostStatus(c, status)

CostSpec == CostInit /\ [][CostNext]_costVars

(* The status that the office decides is never put back by a phone that shows
   an older one, whatever it pushes and when (cost.routes.js 73-89, 148-159). *)
OfficeStatusStands == \A c \in DOMAIN table : table[c].status = decided[c]

(* A removed cost does not come back with a push, except from a sync that was
   past its pull, a push without one, or a pull that found no cost at all and
   so deleted none (DriverRepositoryImpl.kt 121-125, cost.routes.js 85). *)
RemovedCostsStayRemoved == \A c \in removed \ loose : table[c].gone

(* What the office decides of a cost stands: its status and its removal
   (cost.routes.js 73-89, 148-159). *)
CostsStand == OfficeStatusStands /\ RemovedCostsStayRemoved

(* What CostsViewModel.kt 132 promises, "PUSH local costs": a cost that
   the driver adds is not taken from the phone before the server has had it. *)
AddedCostIsKept ==
    \A c \in DOMAIN room \ DOMAIN table :
       c \in DOMAIN room' \/ \E s \in Syncs : DeleteCost(s, c)

=============================================================================
