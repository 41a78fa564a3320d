--------------------------- MODULE StoreLifecycle ---------------------------
(***************************************************************************)
(* How the files of one store come, are replaced and go: index (dispatch.rs *)
(* handle_index), repo rebuild (rebuild.rs), forget and gc (reclaim.rs),   *)
(* with the rebuild sentinel, the registry entry, the db_runtimes slot     *)
(* that they meet on, crashes and failing file operations.                 *)
(*                                                                         *)
(* A file holds a version of the store, 0 when it is absent.  The shm file *)
(* goes with the wal and holds no data.  A version whose last commits are  *)
(* only in its WAL is worthless without it.  An index of an existing store *)
(* works in SQL transactions and leaves it whole; what an interrupted one  *)
(* leaves in the tables is reconciled (module Retention).  Readers, the    *)
(* repo coordinator and the background passes are left to StoreAccess and  *)
(* MaintenanceChain.                                                       *)
(***************************************************************************)
EXTENDS Naturals, Sequences, FiniteSets, TLC

CONSTANTS
    Threads,   \* request threads of the daemon
    MaxOps,    \* bound: requests
    MaxFaults  \* bound: crashes and failed file operations

ASSUME LifecycleAssumption == MaxOps \in Nat /\ MaxFaults \in Nat

VARIABLES
    live, staged, \* the version in each file and in its .retired sibling
    sentinel,     \* <db>.rebuilding exists
    needsWal,     \* versions that are incomplete without their WAL
    registered,   \* the registry has the repo
    slot,         \* the db_runtimes entry, 0 when there is none
    th,           \* the request threads
    newest,       \* history: the version last committed and not forgotten
    made,         \* versions and slots made so far
    ops, faults,  \* requests and faults so far
    past          \* history: "forget", "keep" (forget --keep-db), "overlap", "late"

diskVars == <<live, staged, sentinel, needsWal, newest>>
vars == <<diskVars, registered, slot, th, made, ops, faults, past>>

Order == <<"wal", "db", "vec">>
Files == {Order[i] : i \in DOMAIN Order}
Absent == [f \in Files |-> 0]

(* files: what a rebuild has retired, or what a gc wants to remove. *)
Idle == [at |-> "idle", op |-> "none", slot |-> 0, held |-> FALSE, i |-> 1, files |-> {}]

Init ==
    /\ \E w \in {0, 1} :
          live = [f \in Files |-> IF f = "wal" THEN w ELSE 1] /\ needsWal = {v \in {1} : v = w}
    /\ staged = Absent /\ sentinel = FALSE /\ newest = 1
    /\ registered = TRUE /\ slot = 0
    /\ th = [t \in Threads |-> Idle]
    /\ made = [version |-> 1, slot |-> 0]
    /\ ops = 0 /\ faults = 0 /\ past = {}

At(t, p) == th[t].at = p

Goes(t, p) == th' = [th EXCEPT ![t].at = p]

(* The handler returns and drops its guards. *)
Ends(t) == th' = [th EXCEPT ![t] = Idle]

Fault == faults < MaxFaults /\ faults' = faults + 1

NoFault == UNCHANGED faults

-----------------------------------------------------------------------------
(* Up to the mutex.                                                        *)

(* index registers its repo; rebuild and forget need it registered. *)
Resolve(t) ==
    /\ At(t, "idle") /\ ops < MaxOps
    /\ ops' = ops + 1
    /\ \E op \in {"index", "rebuild", "forget"} :
          /\ op = "index" \/ registered
          /\ th' = [th EXCEPT ![t] = [@ EXCEPT !.op = op, !.at = "check"]]
          /\ registered' = (registered \/ op = "index")
    /\ UNCHANGED <<diskVars, slot, made, faults, past>>

(* run_gc reads the registry first and lists the directory later.  A store *)
(* that is registered has only a WAL without its database to lose.         *)
ResolveGc(t) ==
    /\ At(t, "idle") /\ ops < MaxOps
    /\ ops' = ops + 1
    /\ th' = [th EXCEPT ![t] =
                 [@ EXCEPT !.op = "gc", !.at = IF registered THEN "strays" ELSE "orphans"]]
    /\ UNCHANGED <<diskVars, registered, slot, made, faults, past>>

ScanOrphans(t) ==
    /\ At(t, "orphans") \/ At(t, "strays")
    /\ LET orphan(f) == At(t, "orphans") \/ (f = "wal" /\ live["db"] = 0)
           found == {f \in Files : live[f] # 0 /\ orphan(f)}
       IN  IF found = {}
           THEN Ends(t)
           ELSE th' = [th EXCEPT ![t] = [@ EXCEPT !.at = "lookup", !.files = found]]
    /\ UNCHANGED <<diskVars, registered, slot, made, ops, faults, past>>

(* The sentinel refuses an index; without it rebuild has to load the repo. *)
CheckSentinel(t) ==
    /\ At(t, "check")
    /\ IF \/ th[t].op = "index" /\ sentinel
          \/ th[t].op = "rebuild" /\ ~sentinel /\ live["db"] = 0
       THEN Ends(t)
       ELSE Goes(t, "lookup")
    /\ UNCHANGED <<diskVars, registered, slot, made, ops, faults, past>>

(* get_or_create_db_runtime_for_new_db: the look under the read lock ... *)
LookupSlot(t) ==
    /\ At(t, "lookup")
    /\ th' = [th EXCEPT ![t] =
                 [@ EXCEPT !.at = IF slot = 0 THEN "create" ELSE "acquire", !.slot = slot]]
    /\ UNCHANGED <<diskVars, registered, slot, made, ops, faults, past>>

(* Mutant: no second look under the write lock. *)
CreateSlotBlindly(t) ==
    /\ At(t, "create")
    /\ slot' = made.slot + 1
    /\ made' = [made EXCEPT !.slot = @ + 1]
    /\ th' = [th EXCEPT ![t] = [@ EXCEPT !.at = "acquire", !.slot = slot']]
    /\ UNCHANGED <<diskVars, registered, ops, faults, past>>

(* ... and the insertion, which looks again. *)
CreateSlot(t) ==
    /\ At(t, "create")
    /\ slot' = IF slot = 0 THEN made.slot + 1 ELSE slot
    /\ made' = IF slot = 0 THEN [made EXCEPT !.slot = @ + 1] ELSE made
    /\ th' = [th EXCEPT ![t] = [@ EXCEPT !.at = "acquire", !.slot = slot']]
    /\ UNCHANGED <<diskVars, registered, ops, faults, past>>

HeldSlots == {th[u].slot : u \in {u \in Threads : th[u].held}}

First == [index |-> "reregister", rebuild |-> "mark", forget |-> "unregister", gc |-> "recheck"]

(* Mutant: the mutex is not exclusive. *)
AcquireWriteShared(t) ==
    /\ At(t, "acquire")
    /\ th' = [th EXCEPT ![t] = [@ EXCEPT !.held = TRUE, !.at = First[th[t].op]]]
    /\ past' = IF HeldSlots = {} THEN past ELSE past \cup {"overlap"}
    /\ UNCHANGED <<diskVars, registered, slot, made, ops, faults>>

(* index waits, rebuild waits with patience and gives up as busy, forget   *)
(* and gc do not wait.                                                     *)
AcquireWrite(t) ==
    /\ At(t, "acquire")
    /\ \/ /\ th[t].slot \notin HeldSlots
          /\ th' = [th EXCEPT ![t] = [@ EXCEPT !.held = TRUE, !.at = First[th[t].op]]]
          /\ past' = IF HeldSlots = {} THEN past ELSE past \cup {"overlap"}
       \/ /\ th[t].slot \in HeldSlots /\ th[t].op # "index"
          /\ Ends(t) /\ UNCHANGED past
    /\ UNCHANGED <<diskVars, registered, slot, made, ops, faults>>

-----------------------------------------------------------------------------
(* The compose create path: opens the store, or makes a new version of it, *)
(* whose WAL may outlive the run.  SQLite drops a WAL without a database.  *)
OpenOrCreate ==
    LET v == IF live["db"] = 0 THEN made.version + 1 ELSE live["db"]
    IN  \E w \in BOOLEAN :
          /\ live' = [live EXCEPT !["db"] = v, !["wal"] = IF w THEN v ELSE 0]
          /\ needsWal' = IF w THEN needsWal \cup {v} ELSE needsWal \ {v}
          /\ made' = [made EXCEPT !.version = IF v > @ THEN v ELSE @]

(* Mutant: the registration from before the wait is taken for granted. *)
ReregisterNot(t) ==
    /\ At(t, "reregister")
    /\ Goes(t, "write")
    /\ UNCHANGED <<diskVars, registered, slot, made, ops, faults, past>>

(* index, under the mutex: a forget may have come first. *)
Reregister(t) ==
    /\ At(t, "reregister")
    /\ registered' = TRUE
    /\ Goes(t, "write")
    /\ UNCHANGED <<diskVars, slot, made, ops, faults, past>>

Index(t) ==
    /\ At(t, "write")
    /\ OpenOrCreate
    /\ newest' = live'["db"]
    /\ Ends(t)
    /\ UNCHANGED <<staged, sentinel, registered, slot, ops, faults, past>>

-----------------------------------------------------------------------------
(* rebuild.                                                                *)

(* write_rebuild_sentinel: may fail after the file is there. *)
Mark(t) ==
    /\ At(t, "mark")
    /\ \/ sentinel' = TRUE /\ Goes(t, "retire") /\ NoFault
       \/ sentinel' \in {sentinel, TRUE} /\ Ends(t) /\ Fault
    /\ UNCHANGED <<live, staged, needsWal, newest, registered, slot, made, ops, past>>

MoveAside(f) ==
    /\ staged' = [staged EXCEPT ![f] = live[f]]
    /\ live' = [live EXCEPT ![f] = 0]

MoveBack(f) ==
    /\ live' = [live EXCEPT ![f] = staged[f]]
    /\ staged' = [staged EXCEPT ![f] = 0]

(* Mutant: the files retired before the failing one stay retired. *)
RetireWithoutRollback(t) ==
    /\ At(t, "retire")
    /\ \/ th[t].i > Len(Order) /\ Goes(t, "reindex") /\ NoFault /\ UNCHANGED <<live, staged>>
       \/ /\ th[t].i <= Len(Order)
          /\ LET f == Order[th[t].i]
             IN  \/ /\ live[f] # 0
                    /\ MoveAside(f)
                    /\ th' = [th EXCEPT ![t] =
                                 [@ EXCEPT !.i = th[t].i + 1, !.files = th[t].files \cup {f}]]
                    /\ NoFault
                 \/ /\ live[f] = 0 /\ NoFault
                    /\ th' = [th EXCEPT ![t].i = @ + 1]
                    /\ UNCHANGED <<live, staged>>
                 \/ /\ live[f] # 0
                    /\ Goes(t, "clear") /\ Fault
                    /\ UNCHANGED <<live, staged>>
    /\ UNCHANGED <<sentinel, needsWal, newest, registered, slot, made, ops, past>>

(* retire_store_files, one rename per step; a leftover staging file is     *)
(* replaced.                                                               *)
Retire(t) ==
    /\ At(t, "retire")
    /\ \/ th[t].i > Len(Order) /\ Goes(t, "reindex") /\ NoFault /\ UNCHANGED <<live, staged>>
       \/ /\ th[t].i <= Len(Order)
          /\ LET f == Order[th[t].i]
             IN  \/ /\ live[f] # 0
                    /\ MoveAside(f)
                    /\ th' = [th EXCEPT ![t] =
                                 [@ EXCEPT !.i = th[t].i + 1, !.files = th[t].files \cup {f}]]
                    /\ NoFault
                 \/ /\ live[f] = 0 /\ NoFault
                    /\ th' = [th EXCEPT ![t].i = @ + 1]
                    /\ UNCHANGED <<live, staged>>
                 \/ /\ live[f] # 0
                    /\ Goes(t, "rollback") /\ Fault
                    /\ UNCHANGED <<live, staged>>
    /\ UNCHANGED <<sentinel, needsWal, newest, registered, slot, made, ops, past>>

(* RetiredStore::rollback, last file first, past any failure. *)
Rollback(t) ==
    /\ At(t, "rollback")
    /\ \/ /\ th[t].files = {} /\ Goes(t, "clear") /\ NoFault
          /\ UNCHANGED <<live, staged>>
       \/ \E i \in DOMAIN Order :
             /\ Order[i] \in th[t].files
             /\ \A j \in DOMAIN Order : Order[j] \in th[t].files => j <= i
             /\ th' = [th EXCEPT ![t].files = @ \ {Order[i]}]
             /\ \/ MoveBack(Order[i]) /\ NoFault
                \/ Fault /\ UNCHANGED <<live, staged>>
    /\ UNCHANGED <<sentinel, needsWal, newest, registered, slot, made, ops, past>>

Reindex(t) ==
    /\ At(t, "reindex")
    /\ OpenOrCreate
    /\ Goes(t, "building")
    /\ UNCHANGED <<staged, sentinel, newest, registered, slot, ops, faults, past>>

(* The reindex commits.  Its repo may have been forgotten before rebuild   *)
(* got the mutex: the registry is not asked again.                         *)
Commit(t) ==
    /\ At(t, "building")
    /\ newest' = live["db"]
    /\ past' = IF registered THEN past ELSE past \cup {"late"}
    /\ Goes(t, "discard")
    /\ UNCHANGED <<live, staged, sentinel, needsWal, registered, slot, made, ops, faults>>

ReindexFails(t) ==
    /\ At(t, "reindex") \/ At(t, "building")
    /\ Fault
    /\ th' = [th EXCEPT ![t] = [@ EXCEPT !.at = "wipe", !.i = 1]]
    /\ UNCHANGED <<diskVars, registered, slot, made, ops, past>>

(* RetiredStore::discard; what cannot be removed stays. *)
Discard(t) ==
    /\ At(t, "discard")
    /\ \E left \in SUBSET {f \in th[t].files : staged[f] # 0} :
          /\ staged' = [f \in Files |-> IF f \in th[t].files \ left THEN 0 ELSE staged[f]]
          /\ IF left = {} THEN NoFault ELSE Fault
    /\ Goes(t, "clear")
    /\ UNCHANGED <<live, sentinel, needsWal, newest, registered, slot, made, ops, past>>

(* RetiredStore::restore: remove_store_files_inplace, then the renames     *)
(* back, in order; at the first failure it ends and the sentinel stays.    *)
Wipe(t) ==
    /\ At(t, "wipe")
    /\ \/ /\ th[t].i <= Len(Order) /\ NoFault
          /\ live' = [live EXCEPT ![Order[th[t].i]] = 0]
          /\ th' = [th EXCEPT ![t].i = @ + 1]
       \/ /\ th[t].i <= Len(Order) /\ Fault /\ Ends(t) /\ UNCHANGED live
       \/ /\ th[t].i > Len(Order) /\ NoFault
          /\ th' = [th EXCEPT ![t] = [@ EXCEPT !.at = "restore", !.i = 1]] /\ UNCHANGED live
    /\ UNCHANGED <<staged, sentinel, needsWal, newest, registered, slot, made, ops, past>>

Restore(t) ==
    /\ At(t, "restore")
    /\ \/ th[t].i > Len(Order) /\ Goes(t, "clear") /\ NoFault /\ UNCHANGED <<live, staged>>
       \/ /\ th[t].i <= Len(Order)
          /\ LET f == Order[th[t].i]
             IN  \/ /\ th' = [th EXCEPT ![t].i = @ + 1]
                    /\ IF f \in th[t].files THEN MoveBack(f) ELSE UNCHANGED <<live, staged>>
                    /\ NoFault
                 \/ f \in th[t].files /\ Fault /\ Ends(t) /\ UNCHANGED <<live, staged>>
    /\ UNCHANGED <<sentinel, needsWal, newest, registered, slot, made, ops, past>>

(* remove_rebuild_sentinel. *)
ClearSentinel(t) ==
    /\ At(t, "clear")
    /\ \/ sentinel' = FALSE /\ NoFault
       \/ UNCHANGED sentinel /\ Fault
    /\ Ends(t)
    /\ UNCHANGED <<live, staged, needsWal, newest, registered, slot, made, ops, past>>

-----------------------------------------------------------------------------
(* forget_repo_barriered: the registry, then db, wal and vec unless        *)
(* --keep-db, then the slot, all under the mutex.                          *)
Unregister(t) ==
    /\ At(t, "unregister")
    /\ registered' = FALSE
    /\ newest' = 0
    /\ \/ Goes(t, "delete") /\ past' = past \cup {"forget"}
       \/ Goes(t, "dropslot") /\ past' = past \cup {"forget", "keep"}
    /\ UNCHANGED <<live, staged, sentinel, needsWal, slot, made, ops, faults>>

DeleteOrder == <<"db", "wal", "vec">>

DeleteFile(t) ==
    /\ At(t, "delete")
    /\ LET f == DeleteOrder[th[t].i]
       IN  \/ live' = [live EXCEPT ![f] = 0] /\ NoFault
           \/ live[f] # 0 /\ Fault /\ UNCHANGED live
    /\ th' = [th EXCEPT ![t] =
                 [@ EXCEPT !.i = th[t].i + 1,
                           !.at = IF th[t].i = Len(Order) THEN "dropslot" ELSE "delete"]]
    /\ UNCHANGED <<staged, sentinel, needsWal, newest, registered, slot, made, ops, past>>

DropSlot(t) ==
    /\ At(t, "dropslot")
    /\ slot' = 0
    /\ Ends(t)
    /\ UNCHANGED <<diskVars, registered, made, ops, faults, past>>

(* gc, under the mutex: the registry again, then the files it had found. *)
Recheck(t) ==
    /\ At(t, "recheck")
    /\ IF registered
       THEN Ends(t) /\ UNCHANGED newest
       ELSE Goes(t, "collect") /\ newest' = 0
    /\ UNCHANGED <<live, staged, sentinel, needsWal, registered, slot, made, ops, faults, past>>

Collect(t) ==
    /\ At(t, "collect")
    /\ \E left \in SUBSET {f \in th[t].files : live[f] # 0} :
          /\ live' = [f \in Files |-> IF f \in th[t].files \ left THEN 0 ELSE live[f]]
          /\ IF left = {} THEN NoFault ELSE Fault
    /\ Ends(t)
    /\ UNCHANGED <<staged, sentinel, needsWal, newest, registered, slot, made, ops, past>>

(* The daemon dies and starts again: the disk and the registry stay. *)
Crash ==
    /\ Fault
    /\ \E t \in Threads : ~At(t, "idle")
    /\ slot' = 0
    /\ th' = [t \in Threads |-> Idle]
    /\ UNCHANGED <<diskVars, registered, made, ops, past>>

-----------------------------------------------------------------------------
Step(t) ==
    \/ Resolve(t) \/ CheckSentinel(t) \/ LookupSlot(t) \/ CreateSlot(t) \/ AcquireWrite(t)
    \/ Reregister(t) \/ Index(t)
    \/ Mark(t) \/ Retire(t) \/ Rollback(t) \/ Reindex(t) \/ Commit(t) \/ ReindexFails(t)
    \/ Discard(t) \/ Wipe(t) \/ Restore(t) \/ ClearSentinel(t)
    \/ Unregister(t) \/ DeleteFile(t) \/ DropSlot(t)
    \/ ResolveGc(t) \/ ScanOrphans(t) \/ Recheck(t) \/ Collect(t)

Next == Crash \/ \E t \in Threads : Step(t)

Spec == Init /\ [][Next]_vars

Symmetry == Permutations(Threads)

-----------------------------------------------------------------------------
(* Type invariant; with it, a slot's mutex has one holder. *)
TypeOK ==
    /\ live \in [Files -> 0 .. made.version] /\ staged \in [Files -> 0 .. made.version]
    /\ sentinel \in BOOLEAN /\ registered \in BOOLEAN
    /\ needsWal \subseteq 1 .. made.version /\ newest \in 0 .. made.version
    /\ slot \in 0 .. made.slot
    /\ ops \in 0 .. MaxOps /\ faults \in 0 .. MaxFaults
    /\ past \subseteq {"forget", "keep", "overlap", "late"}
    /\ \A t, u \in Threads :
          th[t].held /\ th[u].held /\ th[t].slot = th[u].slot => t = u

Whole ==
    /\ live["db"] = newest
    /\ live["wal"] \in {0, newest}
    /\ newest \in needsWal => live["wal"] = newest

(***************************************************************************)
(* "Never SERVE a partial store", and never lose one: whenever the         *)
(* sentinel lets the store be opened, it is the one last committed, with   *)
(* its own WAL.  That survives any one crash or failed file operation, in  *)
(* the middle of the retire, the rollback, the reindex or the restore.     *)
(***************************************************************************)
ServedStoreIsWhole ==
    faults <= 1 /\ "overlap" \notin past /\ ~sentinel /\ newest # 0 => Whole

(***************************************************************************)
(* One writer at a time: the handlers meet on one slot however they race   *)
(* to create it.  Only a forget, which drops the slot that others may have *)
(* fetched, lets two of them write at once.                                *)
(***************************************************************************)
WritersExcludeUntilForget == "overlap" \in past => "forget" \in past

(***************************************************************************)
(* Forget leaves no orphan: a store on disk that the registry does not     *)
(* know was kept on request, or a file could not be deleted, or a rebuild  *)
(* that had resolved the repo before the forget recreated it, or two       *)
(* forgets let an index and a forget run at once.  An index that waited    *)
(* for a forget never makes one.                                           *)
(***************************************************************************)
OrphanOnlyByLateWriter ==
    (\A t \in Threads : At(t, "idle")) /\ live["db"] # 0 /\ ~registered =>
        faults > 0 \/ past \cap {"keep", "late", "overlap"} # {}

(***************************************************************************)
(* dispatch.rs on why handle_index asks for the sentinel: "Indexing into a *)
(* store whose files are mid-retire / partial-fresh would write on top of  *)
(* that residue"; rebuild.rs, when the restore fails too: "KEEP the        *)
(* sentinel so every open path refuses".  An index about to write never    *)
(* finds a sentinel beside a store that is not the one last committed,     *)
(* whatever happened while it waited for the mutex.                        *)
(***************************************************************************)
IndexRefusesRemains ==
    \A t \in Threads :
        At(t, "write") /\ sentinel /\ "overlap" \notin past /\ newest # 0 => Whole
=============================================================================
