---------------------------- MODULE MCRetention -----------------------------
(***************************************************************************)
(* Retention for TLC.  The specification has no bound of its own on jobs   *)
(* that overlap; two interleaved jobs multiply the states, so behaviours   *)
(* are followed past an overlap on fewer snapshots than serial ones.       *)
(***************************************************************************)
EXTENDS Retention

CONSTANT MaxOverlapped \* bound: how many snapshots there are once jobs have overlapped

ASSUME MaxOverlapped \in 0 .. MaxSnapshots

(* State constraint of the runs. *)
Bounded == overlapped => last <= MaxOverlapped
=============================================================================
