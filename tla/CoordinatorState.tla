-------------------------- MODULE CoordinatorState --------------------------
(***************************************************************************)
(* The pure state machine of daemon-policy/src/state.rs: the five values   *)
(* of CoordinatorState and the six transition functions.  No locking and   *)
(* no waiting here; RepoCoordinator adds those.                            *)
(*                                                                         *)
(* Reading(n) and RefreshingWithReaders(n) carry a u32 reader count.  The  *)
(* count is one per live thread, so it stays far from 2^32 and is a        *)
(* natural number here.  The texts inside Conflict and InvariantViolation  *)
(* are diagnostics and are left out.                                       *)
(***************************************************************************)
EXTENDS Naturals

Idle                     == [tag |-> "Idle", n |-> 0]
Reading(n)               == [tag |-> "Reading", n |-> n]
Writing                  == [tag |-> "Writing", n |-> 0]
Refreshing               == [tag |-> "Refreshing", n |-> 0]
RefreshingWithReaders(n) == [tag |-> "RefreshingWithReaders", n |-> n]

(* "Count must be > 0": a state that carries a count carries readers. *)
CoordinatorStates ==
    [tag : {"Idle", "Writing", "Refreshing"}, n : {0}]
        \cup [tag : {"Reading", "RefreshingWithReaders"}, n : Nat \ {0}]

(***************************************************************************)
(* TransitionResult.  A result that is not Ok leaves the state as it is.   *)
(***************************************************************************)
Ok(s)                 == [res |-> "Ok", state |-> s]
Blocked(s)            == [res |-> "Blocked", state |-> s]
Conflict(s)           == [res |-> "Conflict", state |-> s]
InvariantViolation(s) == [res |-> "InvariantViolation", state |-> s]

(***************************************************************************)
(* A refresh admits readers beside itself; only Writing keeps them out.    *)
(***************************************************************************)
try_acquire_read(s) ==
    CASE s.tag = "Idle"                  -> Ok(Reading(1))
      [] s.tag = "Reading"               -> Ok(Reading(s.n + 1))
      [] s.tag = "Refreshing"            -> Ok(RefreshingWithReaders(1))
      [] s.tag = "RefreshingWithReaders" -> Ok(RefreshingWithReaders(s.n + 1))
      [] s.tag = "Writing"               -> Blocked(s)

(* Mutant: the last reader is counted down like the others. *)
release_readKeepsTag(s) ==
    IF s.n > 0 THEN Ok([s EXCEPT !.n = s.n - 1]) ELSE InvariantViolation(s)

release_read(s) ==
    CASE s.tag = "Reading" /\ s.n = 1               -> Ok(Idle)
      [] s.tag = "Reading" /\ s.n > 1               -> Ok(Reading(s.n - 1))
      [] s.tag = "RefreshingWithReaders" /\ s.n = 1 -> Ok(Refreshing)
      [] s.tag = "RefreshingWithReaders" /\ s.n > 1
            -> Ok(RefreshingWithReaders(s.n - 1))
      [] OTHER                                      -> InvariantViolation(s)

(***************************************************************************)
(* A write and a refresh both start from Idle only: they wait for readers  *)
(* (Blocked) and for one another (Conflict).                               *)
(***************************************************************************)
FromIdle(s, target) ==
    CASE s.tag = "Idle"    -> Ok(target)
      [] s.tag = "Reading" -> Blocked(s)
      [] OTHER             -> Conflict(s)

try_acquire_write(s)   == FromIdle(s, Writing)
try_acquire_refresh(s) == FromIdle(s, Refreshing)

release_write(s) ==
    IF s.tag = "Writing" THEN Ok(Idle) ELSE InvariantViolation(s)

(* Mutants: the readers admitted beside a refresh are forgotten when it    *)
(* ends, or its guard cannot be dropped while they are there.              *)
release_refreshForgetsReaders(s) ==
    IF s.tag \in {"Refreshing", "RefreshingWithReaders"} THEN Ok(Idle)
    ELSE InvariantViolation(s)

release_refreshRejectsReaders(s) ==
    IF s.tag = "Refreshing" THEN Ok(Idle) ELSE InvariantViolation(s)

(***************************************************************************)
(* Readers admitted during the refresh outlive it as plain readers.        *)
(***************************************************************************)
release_refresh(s) ==
    CASE s.tag = "Refreshing"            -> Ok(Idle)
      [] s.tag = "RefreshingWithReaders" -> Ok(Reading(s.n))
      [] OTHER                           -> InvariantViolation(s)
=============================================================================
