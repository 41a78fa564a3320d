------------------------- MODULE MCMaintenanceChain -------------------------
(***************************************************************************)
(* MaintenanceChain for TLC.  The writers may fail for ever, so only the   *)
(* number of snapshots and of attempts is bounded, by the constants.       *)
(***************************************************************************)
EXTENDS MaintenanceChain

(* Bound: a serve schedules the re-seed before the first snapshot only.    *)
(* When later writes failed and left no pass behind, the same chains could *)
(* follow, with fewer commits to go.                                       *)
ReseedFirst ==
    stage[SelfHeal] = "off" /\ stage'[SelfHeal] # "off" => snap = 0
=============================================================================
