--------------------------- MODULE MCStoreAccess ----------------------------
(* StoreAccess for TLC. *)
EXTENDS StoreAccess, TLC

(* Threads are interchangeable; sound for the safety runs only. *)
ThreadSymmetry == Permutations(Threads)
=============================================================================
