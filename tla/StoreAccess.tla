---------------------------- MODULE StoreAccess -----------------------------
(***************************************************************************)
(* How the daemon's operations reach one repo's SQLite store.  Two locks   *)
(* guard it: the DB write mutex (DatabaseState.write_lock in               *)
(* daemon-runtime/src/state.rs) and the repo coordinator, here in its      *)
(* abstract form RepoLock, which RepoCoordinator implements.  Beside them  *)
(* the activity registry says who is writing; the background passes look   *)
(* at it before they try the mutex.                                        *)
(*                                                                         *)
(* An operation is the sequence of the lock steps and the work its handler *)
(* performs, in the handler's order (the section "Handlers").  What it     *)
(* acquired it drops in reverse order when it returns, as Rust drops the   *)
(* guards, on success and on every error path.                             *)
(*                                                                         *)
(* Data that is abstracted: what is read or written (module Retention has  *)
(* the snapshots), and time: a bounded wait may run out at any moment it   *)
(* is still waiting.  One repo has one database file.  Left out are the    *)
(* opens that take no lock at all (RepoState::open in load_repo,           *)
(* read_stamp of the automatic reindex): they rely on SQLite's own locks.  *)
(***************************************************************************)
EXTENDS RepoLock, FiniteSets, SequencesExt

CONSTANTS
    Nobody, \* the free DB write mutex
    Ops     \* the operations this instance starts

VARIABLES
    db,     \* the thread that holds the DB write mutex, or Nobody
    active, \* the threads with an entry in the ActivityRegistry for this DB
    op,     \* the operation each thread is in
    at,     \* the position in that operation's steps
    held    \* the guards each thread has, oldest first

accessVars == <<db, active, op, at, held>>

vars == <<lockVars, accessVars>>

-----------------------------------------------------------------------------
(***************************************************************************)
(* Handlers.                                                               *)
(*                                                                         *)
(* lockDb, lockDbTimed, tryDb   the DB write mutex: blocking, with         *)
(*                              patience, without waiting                  *)
(* coRead, coWrite, coRefresh   the coordinator, blocking                  *)
(* coRefreshTimed, coTryWrite   the coordinator, with patience, without    *)
(*                              waiting                                    *)
(* gate                         active_for_db must be None                 *)
(* stamp                        activity().begin                           *)
(* reading, mutating, vacuum, replacing   what it is all for               *)
(***************************************************************************)
ReadHandler == <<"coRead", "reading">>

(* Mutant: the index announces itself before it has the mutex. *)
HandleIndexStampsFirst == <<"stamp", "lockDb", "mutating">>

(* An initial index has no coordinator yet: it only takes the mutex. *)
HandleIndex == <<"lockDb", "stamp", "mutating">>

(* refresh and explicit enrich. *)
HandleRefresh == <<"lockDb", "coRefresh", "stamp", "mutating">>

(* livegraph_preload, livegraph_refresh and docs_extract: unannounced. *)
HandlePreload == <<"lockDb", "coRefresh", "mutating">>

(* Mutant: the second layer waits without a bound. *)
AcquireForegroundWriteUnbounded == <<"lockDbTimed", "coRefresh">>

AcquireForegroundWrite == <<"lockDbTimed", "coRefreshTimed">>

(* assess and coverage. *)
HandleAssess == AcquireForegroundWrite \o <<"mutating">>

HandleRepoRebuild == AcquireForegroundWrite \o <<"stamp", "replacing">>

(* After an interrupted rebuild the repo may not be loaded: the permit is  *)
(* then one of a coordinator that nobody else knows.                       *)
RebuildUnloaded == <<"lockDbTimed", "stamp", "replacing">>

(* mark_baseline and unmark_baseline: the coordinator alone. *)
HandleMarkBaseline == <<"coWrite", "mutating">>

(* Mutant: the reclaim waits for the mutex with the coordinator in hand. *)
HandleClassifyRetentionBlocking ==
    <<"coWrite", "mutating", "gate", "lockDb", "mutating", "vacuum">>

(* The lifecycle under the coordinator, then reclaim_orphaned_non_ready. *)
HandleClassifyRetention ==
    <<"coWrite", "mutating", "gate", "tryDb", "mutating", "vacuum">>

(* Mutant: VACUUM without the coordinator's Writing state. *)
RetentionAttemptUncoordinated ==
    <<"gate", "tryDb", "stamp", "mutating", "vacuum">>

RetentionAttempt ==
    <<"gate", "tryDb", "stamp", "mutating", "coTryWrite", "vacuum">>

EnrichAttempt == <<"gate", "tryDb", "coRefresh", "stamp", "mutating">>

ReconcileRepo == <<"gate", "tryDb", "mutating">>

(* forget of a loaded repo: neither lock is waited for. *)
ForgetRepo == <<"tryDb", "coTryWrite", "mutating">>

(* publish_guarded of the seed pass; gc, and forget of a repo that is not  *)
(* loaded, take the mutex the same way.                                    *)
PublishGuarded == <<"tryDb", "mutating">>

Steps(o) ==
    CASE o = "read"             -> ReadHandler
      [] o = "index"            -> HandleIndex
      [] o = "refresh"          -> HandleRefresh
      [] o = "preload"          -> HandlePreload
      [] o = "assess"           -> HandleAssess
      [] o = "rebuild"          -> HandleRepoRebuild
      [] o = "mark"             -> HandleMarkBaseline
      [] o = "classify"         -> HandleClassifyRetention
      [] o = "retention_pass"   -> RetentionAttempt
      [] o = "enrich_pass"      -> EnrichAttempt
      [] o = "reconcile"        -> ReconcileRepo
      [] o = "forget"           -> ForgetRepo
      [] o = "publish"          -> PublishGuarded
      [] o = "rebuild_unloaded" -> RebuildUnloaded
      [] o = "none"             -> <<>>

AllOps == {"read", "index", "refresh", "preload", "assess", "rebuild", "mark",
           "classify", "retention_pass", "enrich_pass", "reconcile", "forget",
           "publish", "rebuild_unloaded"}

ASSUME OpsAssumption == Ops \subseteq AllOps /\ Nobody \notin Threads

(* The step thread t is about to take, or is in the middle of. *)
Step(t) == IF at[t] > Len(Steps(op[t])) THEN "done" ELSE Steps(op[t])[at[t]]

WorkSteps == {"reading", "mutating", "vacuum", "replacing"}

Working(t) == Step(t) \in WorkSteps

-----------------------------------------------------------------------------
Init ==
    /\ LInit
    /\ db = Nobody
    /\ active = {}
    /\ op = [t \in Threads |-> "none"]
    /\ at = [t \in Threads |-> 1]
    /\ held = [t \in Threads |-> <<>>]

Advance(t) == at' = [at EXCEPT ![t] = @ + 1]

(* An early return: only the guards are left to drop. *)
Stop(t) == at' = [at EXCEPT ![t] = Len(Steps(op[t])) + 1]

Acquired(t, guard) ==
    Advance(t) /\ held' = [held EXCEPT ![t] = Append(@, guard)] /\ UNCHANGED op

Begin(t, o) ==
    /\ op[t] = "none"
    /\ op' = [op EXCEPT ![t] = o]
    /\ at' = [at EXCEPT ![t] = 1]
    /\ UNCHANGED <<lockVars, db, active, held>>

(* acquire_write, acquire_write_timeout and try_acquire_write of the mutex. *)
LockDb(t) ==
    /\ Step(t) \in {"lockDb", "lockDbTimed", "tryDb"}
    /\ db = Nobody
    /\ db' = t
    /\ Acquired(t, "db")
    /\ UNCHANGED <<lockVars, active>>

(* The patience runs out, or the try comes back empty. *)
DbRefused(t) ==
    /\ Step(t) \in {"lockDbTimed", "tryDb"}
    /\ db # Nobody
    /\ Stop(t)
    /\ UNCHANGED <<lockVars, db, active, op, held>>

(* active_for_db(db_path).is_some() sends the pass away. *)
Gate(t) ==
    /\ Step(t) = "gate"
    /\ IF active = {} THEN Advance(t) ELSE Stop(t)
    /\ UNCHANGED <<lockVars, db, active, op, held>>

CoRead(t) ==
    /\ Step(t) = "coRead"
    /\ AdmitReader(t)
    /\ Acquired(t, "co")
    /\ UNCHANGED <<db, active>>

InLine(t) == Contains(line, t)

CoWaits(t) == Step(t) \in {"coWrite", "coRefresh", "coRefreshTimed"}

(* The permit the step asks for, out of the two that Grant may give. *)
RightPermit(t) ==
    IF Step(t) \in {"coWrite", "coTryWrite"} THEN writers' = {t} ELSE refreshers' = {t}

CoGranted(t) ==
    /\ CoWaits(t) \/ Step(t) = "coTryWrite"
    /\ GrantFree(t) \/ (InLine(t) /\ Head(line) = t /\ GrantFirst)
    /\ RightPermit(t)
    /\ Acquired(t, "co")
    /\ UNCHANGED <<db, active>>

(* Mutant: the ticket is taken again on every round of the wait. *)
CoQueuesAgain(t) ==
    /\ CoWaits(t) /\ Len(line) <= Cardinality(Threads)
    /\ ~(line = <<>> /\ Free)
    /\ Join(t)
    /\ UNCHANGED accessVars

CoQueues(t) ==
    /\ CoWaits(t) /\ ~InLine(t)
    /\ ~(line = <<>> /\ Free)
    /\ Join(t)
    /\ UNCHANGED accessVars

(* acquire_refresh_timeout gives up: the DB guard is dropped on the way out. *)
CoTimeout(t) ==
    /\ Step(t) = "coRefreshTimed"
    /\ \E i \in DOMAIN line : line[i] = t /\ Leave(i)
    /\ Stop(t)
    /\ UNCHANGED <<db, active, op, held>>

CoTryRefused(t) ==
    /\ Step(t) = "coTryWrite"
    /\ ~(line = <<>> /\ Free)
    /\ Stop(t)
    /\ UNCHANGED <<lockVars, db, active, op, held>>

Stamp(t) ==
    /\ Step(t) = "stamp"
    /\ active' = active \cup {t}
    /\ Acquired(t, "stamp")
    /\ UNCHANGED <<lockVars, db>>

Work(t) ==
    /\ Working(t)
    /\ Advance(t)
    /\ UNCHANGED <<lockVars, db, active, op, held>>

(* Storage that does not open, a repo no longer registered, a pass with    *)
(* nothing to reclaim or a VACUUM below its threshold: return early.       *)
Fail(t) ==
    /\ Working(t) \/ Step(t) \in {"gate", "coTryWrite", "stamp"}
    /\ Stop(t)
    /\ UNCHANGED <<lockVars, db, active, op, held>>

(* The youngest guard goes out of scope. *)
Drop(t) ==
    /\ Step(t) = "done" /\ held[t] # <<>>
    /\ held' = [held EXCEPT ![t] = Front(@)]
    /\ CASE Last(held[t]) = "db"    -> db' = Nobody /\ UNCHANGED <<lockVars, active>>
         [] Last(held[t]) = "co"    -> Release(t) /\ UNCHANGED <<db, active>>
         [] Last(held[t]) = "stamp" -> active' = active \ {t} /\ UNCHANGED <<lockVars, db>>
    /\ UNCHANGED <<op, at>>

Finish(t) ==
    /\ op[t] # "none" /\ Step(t) = "done" /\ held[t] = <<>>
    /\ op' = [op EXCEPT ![t] = "none"]
    /\ at' = [at EXCEPT ![t] = 1]
    /\ UNCHANGED <<lockVars, db, active, held>>

(* Everything but the work itself, which takes as long as it takes. *)
Proceed(t) ==
    \/ LockDb(t) \/ DbRefused(t) \/ Gate(t)
    \/ CoRead(t) \/ CoGranted(t) \/ CoQueues(t) \/ CoTimeout(t) \/ CoTryRefused(t)
    \/ Stamp(t) \/ Drop(t) \/ Finish(t)

Next ==
    \E t \in Threads :
        (\E o \in Ops : Begin(t, o)) \/ Proceed(t) \/ Work(t) \/ Fail(t)

Spec == Init /\ [][Next]_vars

(***************************************************************************)
(* A runnable thread runs; parking_lot's mutex hands itself over fairly    *)
(* now and then, so a thread that waits for it is not passed for ever.     *)
(* Work may take for ever, and nobody has to begin anything.               *)
(***************************************************************************)
Fairness == \A t \in Threads : WF_vars(Proceed(t)) /\ SF_vars(LockDb(t))

FairSpec == Spec /\ Fairness

-----------------------------------------------------------------------------
Guards == {"db", "co", "stamp"}

TypeOK ==
    /\ readers \subseteq Threads /\ writers \subseteq Threads /\ refreshers \subseteq Threads
    /\ line \in Seq(Threads) /\ IsInjective(line)
    /\ db \in Threads \cup {Nobody}
    /\ active \subseteq Threads
    /\ op \in [Threads -> Ops \cup {"none"}]
    /\ \A t \in Threads :
          /\ at[t] \in 1 .. Len(Steps(op[t])) + 1
          /\ held[t] \in Seq(Guards) /\ IsInjective(held[t])

(***************************************************************************)
(* VACUUM leaves WAL mode and takes SQLite's exclusive lock, so nobody may *)
(* be inside the store under either lock: no reader, no index (which never *)
(* takes the coordinator), no baseline mark (which never takes the mutex). *)
(* Both the retention pass and the maintenance prune reach it, along       *)
(* different paths (retention_pass.rs, handlers/inventory/retention.rs).   *)
(***************************************************************************)
VacuumIsAlone ==
    \A t, u \in Threads : Step(t) = "vacuum" /\ Working(u) => t = u

(***************************************************************************)
(* Whoever the registry names holds the mutex: a Busy reply or the doctor  *)
(* names the real holder (busy_message), and a gate never turns a pass     *)
(* away because of an operation that is itself still waiting.              *)
(***************************************************************************)
RegistryNamesTheHolder == \A t \in active : db = t

(***************************************************************************)
(* No lock cycle: the mutex is taken before the coordinator by some, after *)
(* it by the maintenance prune.  If no work lasts for ever, every          *)
(* operation that has begun, other than a read, comes to its end.          *)
(***************************************************************************)
WritersFinish ==
    (\A u \in Threads : []<>~Working(u))
        => \A t \in Threads : (op[t] # "read") ~> (op[t] = "none")

(***************************************************************************)
(* Whatever others do, even if one of them never lets go, a foreground     *)
(* write (assess, coverage, rebuild) starts working or replies Busy.       *)
(***************************************************************************)
ForegroundNeverHangs ==
    \A t \in Threads :
        (op[t] \in {"assess", "rebuild", "rebuild_unloaded"}) ~> (Working(t) \/ op[t] = "none")

(***************************************************************************)
(* rebuild.rs says that a rebuild "holds the reader-excluding coordinator  *)
(* guard across the whole wipe+reindex".                                   *)
(***************************************************************************)
RebuildExcludesReaders ==
    \A t, u \in Threads : ~(Step(t) = "replacing" /\ Step(u) = "reading")
=============================================================================
