----------------------------- MODULE Retention ------------------------------
(***************************************************************************)
(* The snapshots of one repo: how index and refresh create them, how user  *)
(* baselines and the retention classes are written, and how the retention  *)
(* pass, the maintenance prune and the crash reconciliation remove them    *)
(* (storage/src/retention, storage/src/crud/snapshots.rs and their callers *)
(* in daemon-runtime and indexer).                                         *)
(*                                                                         *)
(* Two sides can be at work at the same time: whoever holds the DB write   *)
(* mutex ("db": index, refresh, retention pass) and whoever holds the repo *)
(* coordinator's write permit ("co": mark, unmark, maintenance prune).     *)
(* Each lock admits one, so one job per side is all there can be; a        *)
(* refresh holds both locks.  Module StoreAccess has the locks themselves. *)
(*                                                                         *)
(* A step is one SQLite statement or transaction, or several that touch    *)
(* what no other job can change in between.                                *)
(*                                                                         *)
(* Data that is abstracted: a snapshot uid is its place in creation order  *)
(* (created_at); `rows` says whether its graph rows are there, and graphs  *)
(* are not empty (for a snapshot recorded empty the row promise is void);  *)
(* the legacy class baseline_auto is treated like no class; of the epoch   *)
(* only NULL, equal to the running daemon's, or older.                     *)
(***************************************************************************)
EXTENDS Naturals, FiniteSets, FiniteSetsExt

CONSTANTS
    MaxSnapshots, \* bound: how many snapshots are ever created
    MaxUpgrades   \* bound: how often a daemon with a newer epoch is started

ASSUME BoundsAssumption ==
    MaxSnapshots \in Nat \ {0} /\ MaxUpgrades \in Nat

Uids == 1 .. MaxSnapshots

None == 0     \* no snapshot: a NULL parent, or nothing to serve

UserMarks == {"baseline_user", "baseline_stamp"}

Classes == UserMarks \cup {"current", "parent", "prunable", "none"}

Snapshots ==
    [status : {"absent", "building", "ready", "failed"},
     class  : Classes,
     parent : Uids \cup {None},
     rows   : BOOLEAN,
     epoch  : {"null", "current", "stale"}]

Absent == [status |-> "absent", class |-> "none", parent |-> None,
           rows |-> FALSE, epoch |-> "null"]

VARIABLES
    snap,       \* the snapshots table
    last,       \* the newest uid ever created
    upgrades,   \* how many upgrades there have been
    job,        \* what each side is doing
    promised,   \* ghost: the baseline marks acknowledged on READY snapshots
    overlapped  \* ghost: has a mutex-only job met a coordinator-only one?

vars == <<snap, last, upgrades, job, promised, overlapped>>

Sides == {"db", "co"}

(***************************************************************************)
(* uid: the snapshot being built or marked; class: the mark to write;      *)
(* plan: the assignments a classification is about to write; list: the     *)
(* snapshots a prune or narrow has still to treat, or a refresh builds on. *)
(***************************************************************************)
NoJob == [op |-> "none", at |-> "none", uid |-> None, class |-> "none",
          plan |-> <<>>, list |-> {}]

Ready == {u \in Uids : snap[u].status = "ready"}

(* get_latest_snapshot: the newest READY one is what the daemon serves. *)
Latest == IF Ready = {} THEN None ELSE Max(Ready)

IsUserMark(u) == snap[u].class \in UserMarks

IsValidEpoch(u) == snap[u].epoch # "stale"

-----------------------------------------------------------------------------
(* classify_repo_retention, first half: the rows read, the roles worked out. *)

(* Mutant: the serving snapshot is looked for at the wrong end. *)
CurrentOldest ==
    LET eligible == {u \in Ready : IsValidEpoch(u) /\ ~IsUserMark(u)}
    IN  IF eligible = {} THEN None ELSE Min(eligible)

Current ==
    LET eligible == {u \in Ready : IsValidEpoch(u) /\ ~IsUserMark(u)}
    IN  IF eligible = {} THEN None ELSE Max(eligible)

Parent ==
    IF Current = None THEN None
    ELSE LET p == snap[Current].parent
         IN  IF p \in Ready /\ IsValidEpoch(p) THEN p ELSE None

(* Mutant: user marks are classified like everything else. *)
AssignmentsOverwriteMarks ==
    [u \in Ready |->
        IF ~IsValidEpoch(u) THEN "prunable"
        ELSE IF u = Current THEN "current"
        ELSE IF u = Parent THEN "parent" ELSE "prunable"]

Assignments ==
    [u \in {r \in Ready : ~IsUserMark(r)} |->
        IF ~IsValidEpoch(u) THEN "prunable"
        ELSE IF u = Current THEN "current"
        ELSE IF u = Parent THEN "parent" ELSE "prunable"]

Classified(s, class) ==
    [s EXCEPT !.class = class, !.epoch = IF @ = "null" THEN "current" ELSE @]

-----------------------------------------------------------------------------
Init ==
    /\ snap = [u \in Uids |-> Absent]
    /\ last = None
    /\ upgrades = 0
    /\ job = [s \in Sides |-> NoJob]
    /\ promised = [u \in Uids |-> "none"]
    /\ overlapped = FALSE

At(s, step) == job[s].at = step

Go(s, step) == job' = [job EXCEPT ![s].at = step]

GoWith(s, step, list) == job' = [job EXCEPT ![s] = [@ EXCEPT !.at = step, !.list = list]]

End(s) == job' = [job EXCEPT ![s] = NoJob]

Free(s) == job[s].op = "none"

Start(s, j) == Free(s) /\ job' = [job EXCEPT ![s] = j]

(* Mutant: a refresh takes the mutex only. *)
CoordinatorFreeOfMarks == Free("co")

(* The coordinator's write permit: a refresh excludes it. *)
CoordinatorFree == Free("co") /\ job["db"].op # "refresh"

-----------------------------------------------------------------------------
(* index and refresh *)

NewSnapshot(parent) ==
    [status |-> "building", class |-> "none", parent |-> parent,
     rows |-> TRUE, epoch |-> "null"]

StartBuild(op, parent) ==
    /\ last < MaxSnapshots
    /\ last' = last + 1
    /\ snap' = [snap EXCEPT ![last + 1] = NewSnapshot(parent)]
    /\ Start("db", [NoJob EXCEPT !.op = op, !.at = "building", !.uid = last + 1,
                                 !.list = IF parent = None THEN {} ELSE {parent}])
    /\ UNCHANGED <<upgrades, promised>>

StartIndex == StartBuild("index", None)

(* On top of the latest READY snapshot, copying unchanged files forward; a *)
(* full index if there is none, or no file to copy (every file changed, or *)
(* the file rows were narrowed away).                                      *)
StartRefresh ==
    /\ CoordinatorFree
    /\ \/ Latest # None /\ snap[Latest].rows /\ StartBuild("refresh", Latest)
       \/ StartBuild("refresh", None)

SetStatus(u, status) ==
    snap' = [snap EXCEPT ![u].status = IF @ = "absent" THEN @ ELSE status]

BuildReady ==
    /\ At("db", "building")
    /\ SetStatus(job["db"].uid, "ready")
    /\ Go("db", "postpass")
    /\ UNCHANGED <<last, upgrades, promised>>

(* A pipeline error, or isolate_postpass demoting a READY snapshot. *)
BuildFails ==
    /\ At("db", "building") \/ At("db", "postpass")
    /\ SetStatus(job["db"].uid, "failed")
    /\ End("db")
    /\ UNCHANGED <<last, upgrades, promised>>

BuildDone ==
    /\ At("db", "postpass")
    /\ job' = [job EXCEPT !["db"] = [@ EXCEPT !.at = "classify", !.uid = None]]
    /\ UNCHANGED <<snap, last, upgrades, promised>>

-----------------------------------------------------------------------------
(* mark_baseline and unmark_baseline *)

MarkClass(u, retain_rows) ==
    IF retain_rows \/ snap[u].class = "baseline_user" THEN "baseline_user"
    ELSE "baseline_stamp"

(* A row promise over rows that are gone is refused; any status will do. *)
StartMark(u, retain_rows) ==
    /\ CoordinatorFree
    /\ snap[u].status # "absent"
    /\ ~(retain_rows /\ ~snap[u].rows)
    /\ Start("co", [NoJob EXCEPT !.op = "mark", !.at = "mark", !.uid = u,
                                 !.class = MarkClass(u, retain_rows)])
    /\ UNCHANGED <<snap, last, upgrades, promised>>

StartUnmark(u) ==
    /\ CoordinatorFree
    /\ snap[u].status # "absent"
    /\ Start("co", [NoJob EXCEPT !.op = "unmark", !.at = "mark", !.uid = u,
                                 !.class = "prunable"])
    /\ promised' = [promised EXCEPT ![u] = "none"]
    /\ UNCHANGED <<snap, last, upgrades>>

(* mark_snapshot_retention; an UPDATE of a row that is gone does nothing. *)
WriteMark ==
    /\ At("co", "mark")
    /\ LET u == job["co"].uid
       IN  snap' = [snap EXCEPT ![u] =
                       IF @.status = "absent" THEN @ ELSE Classified(@, job["co"].class)]
    /\ Go("co", "classify")
    /\ UNCHANGED <<last, upgrades, promised>>

(* The reply "marked": true. *)
Acknowledge(u, class) ==
    promised' = IF snap[u].status = "ready" THEN [promised EXCEPT ![u] = class] ELSE promised

-----------------------------------------------------------------------------
(* classify_repo_retention: the SELECT, then the transaction. *)

ClassifyRead(s) ==
    /\ At(s, "classify")
    /\ job' = [job EXCEPT ![s] = [@ EXCEPT !.at = "assign", !.plan = Assignments]]
    /\ UNCHANGED <<snap, last, upgrades, promised>>

(* Where a job goes once its classification is written, or has failed. *)
AfterClassify(s) ==
    CASE job[s].op \in {"pass", "maintenance"}
            -> /\ job' = [job EXCEPT ![s] = [@ EXCEPT !.at = "select", !.plan = <<>>]]
               /\ UNCHANGED promised
      [] job[s].op \in {"index", "refresh", "unmark"} -> End(s) /\ UNCHANGED promised
      [] job[s].op = "mark" -> End(s) /\ Acknowledge(job[s].uid, job[s].class)

ClassifyWrite(s) ==
    /\ At(s, "assign")
    /\ snap' = [u \in Uids |->
                  IF u \in DOMAIN job[s].plan /\ snap[u].status # "absent"
                  THEN Classified(snap[u], job[s].plan[u]) ELSE snap[u]]
    /\ AfterClassify(s)
    /\ UNCHANGED <<last, upgrades>>

-----------------------------------------------------------------------------
(* prune_prunable_snapshots, narrow_stamp_baselines and                    *)
(* prune_non_ready_snapshots, as the pass and the maintenance use them.    *)

StartPass ==
    /\ Start("db", [NoJob EXCEPT !.op = "pass", !.at = "classify"])
    /\ UNCHANGED <<snap, last, upgrades, promised>>

StartMaintenance ==
    /\ CoordinatorFree
    /\ Start("co", [NoJob EXCEPT !.op = "maintenance", !.at = "classify"])
    /\ UNCHANGED <<snap, last, upgrades, promised>>

(* The pass reclaims before it narrows and is done, the maintenance after. *)
AfterLoop(s, step) ==
    CASE step = "delete"    -> IF job[s].op = "pass" THEN "non_ready" ELSE "narrow"
      [] step = "narrowing" -> IF job[s].op = "pass" THEN "end" ELSE "non_ready"

(* The loop over the snapshots in rest goes on, or the job goes on after it. *)
Loop(s, step, rest) ==
    IF rest # {} THEN GoWith(s, step, rest)
    ELSE IF AfterLoop(s, step) = "end" THEN End(s)
    ELSE GoWith(s, AfterLoop(s, step), {})

SelectPrunable(s) ==
    /\ At(s, "select")
    /\ Loop(s, "delete", {u \in Ready : snap[u].class = "prunable"})
    /\ UNCHANGED <<snap, last, upgrades, promised>>

(* Mutant: the references to a deleted snapshot stay. *)
WithoutDangling(gone) == [u \in Uids |-> IF u \in gone THEN Absent ELSE snap[u]]

(* delete_snapshots_cascade: the rows, the references to them, the row. *)
Without(gone) ==
    [u \in Uids |-> IF u \in gone THEN Absent
                    ELSE [snap[u] EXCEPT !.parent = IF @ \in gone THEN None ELSE @]]

DeleteOne(s) ==
    /\ At(s, "delete")
    /\ \E u \in job[s].list :
          /\ snap' = Without({u})
          /\ Loop(s, "delete", job[s].list \ {u})
    /\ UNCHANGED <<last, upgrades, promised>>

(* Mutant: the pass carries on after its budget. *)
BudgetIgnored ==
    /\ At("db", "delete")
    /\ Loop("db", "delete", {})
    /\ UNCHANGED <<snap, last, upgrades, promised>>

(* A pass over its budget stops at a snapshot boundary, and altogether. *)
BudgetOverrun ==
    /\ At("db", "delete")
    /\ End("db")
    /\ UNCHANGED <<snap, last, upgrades, promised>>

(* Mutant: the maintenance reclaims without trying the mutex. *)
MayReclaimAlways(s) == TRUE

(* reclaim_orphaned_non_ready: no activity on the DB and the mutex free;   *)
(* the pass holds the mutex anyway.                                        *)
MayReclaim(s) == s = "db" \/ Free("db")

PruneNonReady(s) ==
    /\ At(s, "non_ready")
    /\ snap' = IF MayReclaim(s) THEN Without({u \in Uids : snap[u].status # "ready"}) ELSE snap
    /\ IF s = "db" THEN Go(s, "narrow") ELSE End(s)
    /\ UNCHANGED <<last, upgrades, promised>>

(* Mutant: the serving pair is not left out. *)
NarrowCandidatesAll == {u \in Ready : snap[u].class = "baseline_stamp"}

NarrowCandidates ==
    {u \in Ready : /\ snap[u].class = "baseline_stamp"
                   /\ u # Latest /\ u # snap[Latest].parent}

SelectNarrow(s) ==
    /\ At(s, "narrow")
    /\ Loop(s, "narrowing", NarrowCandidates)
    /\ UNCHANGED <<snap, last, upgrades, promised>>

NarrowOne(s) ==
    /\ At(s, "narrowing")
    /\ \E u \in job[s].list :
          /\ snap' = [snap EXCEPT ![u].rows = FALSE]
          /\ Loop(s, "narrowing", job[s].list \ {u})
    /\ UNCHANGED <<last, upgrades, promised>>

-----------------------------------------------------------------------------
(* reconcile_repo: what a dead daemon left building is interrupted. *)
Reconcile ==
    /\ Free("db")
    /\ snap' = [u \in Uids |->
                  IF snap[u].status = "building"
                  THEN [snap[u] EXCEPT !.status = "failed", !.class = "prunable"] ELSE snap[u]]
    /\ UNCHANGED <<last, upgrades, job, promised>>

(* A storage error ends a job where it is.  A build that is READY stays so *)
(* (the post-passes that isolate_postpass does not cover), and a mark that *)
(* is written is acknowledged even if the classification after it fails.   *)
StorageError(s) ==
    /\ job[s].at \in {"postpass", "mark", "classify", "assign", "select", "delete",
                      "non_ready", "narrow", "narrowing"}
    /\ End(s)
    /\ IF job[s].op = "mark" /\ ~At(s, "mark")
       THEN Acknowledge(job[s].uid, job[s].class) ELSE UNCHANGED promised
    /\ UNCHANGED <<snap, last, upgrades>>

(* The daemon dies; the one started next may have a newer cache epoch. *)
Crash(upgrade) ==
    /\ upgrade => upgrades < MaxUpgrades
    /\ upgrades' = IF upgrade THEN upgrades + 1 ELSE upgrades
    /\ snap' = IF upgrade
               THEN [u \in Uids |-> [snap[u] EXCEPT !.epoch = IF @ = "current" THEN "stale" ELSE @]]
               ELSE snap
    /\ job' = [s \in Sides |-> NoJob]
    /\ UNCHANGED <<last, promised>>

-----------------------------------------------------------------------------
DbStep ==
    \/ StartIndex \/ StartRefresh \/ BuildReady \/ BuildFails \/ BuildDone
    \/ StartPass \/ BudgetOverrun \/ Reconcile

CoStep ==
    \/ \E u \in Uids : (\E retain_rows \in BOOLEAN : StartMark(u, retain_rows)) \/ StartUnmark(u)
    \/ WriteMark \/ StartMaintenance

SharedStep(s) ==
    \/ ClassifyRead(s) \/ ClassifyWrite(s)
    \/ SelectPrunable(s) \/ DeleteOne(s)
    \/ PruneNonReady(s) \/ SelectNarrow(s) \/ NarrowOne(s)
    \/ StorageError(s)

(* A job with only the mutex beside a job with only the coordinator. *)
Overlap == job["db"].op \in {"index", "pass"} /\ job["co"].op # "none"

Next ==
    /\ \/ DbStep \/ CoStep
       \/ \E s \in Sides : SharedStep(s)
       \/ \E upgrade \in BOOLEAN : Crash(upgrade)
    /\ overlapped' = (overlapped \/ Overlap')

Spec == Init /\ [][Next]_vars

-----------------------------------------------------------------------------
(* Types; and a parent is a snapshot that exists. *)
TypeOK ==
    /\ snap \in [Uids -> Snapshots]
    /\ \A u \in Uids : LET p == snap[u].parent IN p # None => snap[p].status # "absent"
    /\ last \in 0 .. MaxSnapshots
    /\ upgrades \in 0 .. MaxUpgrades
    /\ DOMAIN job = Sides
    /\ promised \in [Uids -> UserMarks \cup {"none"}]
    /\ overlapped \in BOOLEAN

(***************************************************************************)
(* Nobody takes a live build away, whatever runs beside it: an index in    *)
(* progress keeps its building snapshot although the maintenance prune     *)
(* reclaims non-READY snapshots and reconciliation interrupts building     *)
(* ones (the two gates of reclaim_orphaned_non_ready and reconcile_repo).  *)
(***************************************************************************)
LiveBuildSurvives == At("db", "building") => snap[job["db"].uid].status = "building"

(***************************************************************************)
(* isolate_postpass demotes a refreshed snapshot because "serving falls    *)
(* back to the last-good parent (untouched during refresh)": until the     *)
(* refresh is over its base is READY and keeps its rows.                   *)
(***************************************************************************)
RefreshKeepsItsBase ==
    job["db"].op = "refresh"
        => \A u \in job["db"].list : snap[u].status = "ready" /\ snap[u].rows

(* A mark still stands: the snapshot is there, marked, with its rows if    *)
(* rows were promised.                                                     *)
MarkStands(u) ==
    /\ snap[u].status = "ready" /\ IsUserMark(u)
    /\ promised[u] = "baseline_user" => snap[u].class = "baseline_user" /\ snap[u].rows

(***************************************************************************)
(* classify.rs: a baseline mark is "an explicit human keep this that       *)
(* survives every reclassification".  It does, through refreshes, passes,  *)
(* prunes, failures, crashes and upgrades, as long as no operation that    *)
(* holds only the mutex overlaps one that holds only the coordinator.      *)
(***************************************************************************)
SerialMarksSurvive ==
    ~overlapped => \A u \in Uids : promised[u] # "none" => MarkStands(u)

(***************************************************************************)
(* The snapshot that is served is never narrowed to its stamp, not even    *)
(* when it becomes the served one later, after a newer build was demoted.  *)
(* (An upgrade breaks this: see NarrowingKeepsServing.)                    *)
(***************************************************************************)
ServedHasRows == ~overlapped /\ upgrades = 0 /\ Latest # None => snap[Latest].rows

(***************************************************************************)
(* No prune deletes the snapshot that is served, unless its epoch is that  *)
(* of an older daemon.                                                     *)
(***************************************************************************)
ServedIsKept ==
    [][overlapped' \/ Latest = None \/ snap[Latest].epoch = "stale"
          \/ snap'[Latest].status # "absent"]_vars

(***************************************************************************)
(* classify.rs: "Steady state is <= 2 ready snapshots per repo": when a    *)
(* prune has gone through, at most current and parent are left unmarked.   *)
(***************************************************************************)
SteadyState ==
    \A s \in Sides :
        ~overlapped /\ job[s].at \in {"narrow", "narrowing", "non_ready"}
            => Cardinality({u \in Ready : ~IsUserMark(u)}) <= 2

(***************************************************************************)
(* classify.rs again, without the proviso: no reclassification takes an    *)
(* acknowledged baseline mark off a snapshot that is still there.          *)
(***************************************************************************)
MarksSurvive ==
    \A u \in Uids : promised[u] # "none" /\ snap[u].status = "ready" => IsUserMark(u)

(***************************************************************************)
(* narrow.rs: "narrowing never disturbs serving state or the refresh       *)
(* chain": without any overlap, what is served has its graph rows.  (The   *)
(* step that breaks it is a prune: after an upgrade it deletes the served  *)
(* snapshot as stale, and an older stamp that was narrowed is served.)     *)
(***************************************************************************)
NarrowingKeepsServing == ~overlapped /\ Latest # None => snap[Latest].rows
=============================================================================
