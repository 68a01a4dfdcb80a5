-------------------------------- MODULE Parts --------------------------------
(***************************************************************************)
(* The parts that share no state with another one in the model, side by    *)
(* side: a behaviour is one of the part that focus names, the other parts  *)
(* stay as they began.                                                     *)
(***************************************************************************)
EXTENDS HotelBooking, CostSync, PhotoUpload, BackupRestore, SyncPull, CurrentTour, DriverAccess,
        AdminAccess, WorkSummary, RouteProgress, NdpAgent

CONSTANTS Focus

VARIABLES focus

vars == <<focus, hotelVars, costVars, photoVars, adminVars, currentVars, backupVars, driverVars, pullVars, summaryVars, routeVars, agentVars>>

\* Depot and terminal of a route: the other ways to choose them are mirror images.
FromOneSide == ({0} \X {0, 2}) \cup ({1} \X (0..2))

Unless(part, init) == focus = part \/ init

Init ==
    /\ focus \in Focus
    /\ HotelInit /\ CostInit /\ PhotoInit /\ AdminInit
    /\ CurrentInit /\ Unless("current", tours = <<>>)
    /\ BackupInit /\ Unless("backup", source = Empty)
    /\ DriverInit /\ PullInit /\ SummaryInit
    /\ RouteInit /\ Unless("route", place = [s \in Stops |-> 0] /\ start + terminal = 0)
    /\ <<start, terminal>> \in FromOneSide
    /\ AgentInit

HotelStep == /\ focus = "hotel" /\ HotelNext
              /\ UNCHANGED <<focus, costVars, photoVars, adminVars, currentVars, backupVars, driverVars, pullVars, summaryVars, routeVars, agentVars>>
CostStep == /\ focus = "cost" /\ CostNext
             /\ UNCHANGED <<focus, hotelVars, photoVars, adminVars, currentVars, backupVars, driverVars, pullVars, summaryVars, routeVars, agentVars>>
PhotoStep == /\ focus = "photo" /\ PhotoNext
              /\ UNCHANGED <<focus, hotelVars, costVars, adminVars, currentVars, backupVars, driverVars, pullVars, summaryVars, routeVars, agentVars>>
AdminStep == /\ focus = "admin" /\ AdminNext
              /\ UNCHANGED <<focus, hotelVars, costVars, photoVars, currentVars, backupVars, driverVars, pullVars, summaryVars, routeVars, agentVars>>
CurrentStep == /\ focus = "current" /\ CurrentNext
                /\ UNCHANGED <<focus, hotelVars, costVars, photoVars, adminVars, backupVars, driverVars, pullVars, summaryVars, routeVars, agentVars>>
BackupStep == /\ focus = "backup" /\ BackupNext
               /\ UNCHANGED <<focus, hotelVars, costVars, photoVars, adminVars, currentVars, driverVars, pullVars, summaryVars, routeVars, agentVars>>
DriverStep == /\ focus = "driver" /\ DriverNext
               /\ UNCHANGED <<focus, hotelVars, costVars, photoVars, adminVars, currentVars, backupVars, pullVars, summaryVars, routeVars, agentVars>>
PullStep == /\ focus = "pull" /\ PullNext
             /\ UNCHANGED <<focus, hotelVars, costVars, photoVars, adminVars, currentVars, backupVars, driverVars, summaryVars, routeVars, agentVars>>
SummaryStep == /\ focus = "summary" /\ SummaryNext
                /\ UNCHANGED <<focus, hotelVars, costVars, photoVars, adminVars, currentVars, backupVars, driverVars, pullVars, routeVars, agentVars>>
RouteStep == /\ focus = "route" /\ RouteNext
              /\ UNCHANGED <<focus, hotelVars, costVars, photoVars, adminVars, currentVars, backupVars, driverVars, pullVars, summaryVars, agentVars>>
AgentStep == /\ focus = "agent" /\ AgentNext
              /\ UNCHANGED <<focus, hotelVars, costVars, photoVars, adminVars, currentVars, backupVars, driverVars, pullVars, summaryVars, routeVars>>

Next == HotelStep \/ CostStep \/ PhotoStep \/ AdminStep \/ CurrentStep \/ BackupStep \/ DriverStep
        \/ PullStep \/ SummaryStep \/ RouteStep \/ AgentStep
Spec == Init /\ [][Next]_vars

-----------------------------------------------------------------------------

(* Every part's state has its types, and a status that is being written is a
   change, and a session is not newer than its account. *)
TypesOK ==
    /\ HotelTypeOK /\ CostTypeOK /\ PhotoTypeOK /\ BackupTypeOK /\ PullTypeOK /\ AdminTypeOK
    /\ CurrentTypeOK /\ DriverTypeOK /\ SummaryTypeOK /\ RouteTypeOK /\ AgentTypeOK

(* A cost that the driver adds reaches the server (CostsViewModel.kt 132). *)
AddedCostsAreKept == [][AddedCostIsKept]_costVars

=============================================================================
