---------------------- MODULE StoreLifecycleProofs ------------------------
(***************************************************************************)
(* Proofs about StoreLifecycle, for any number of request threads, of      *)
(* requests and of faults.                                                 *)
(***************************************************************************)
EXTENDS StoreLifecycle, TLAPS

-----------------------------------------------------------------------------
(* Where a handler can be *)

(* Before it has the mutex. *)
EarlyPlaces == {"check", "orphans", "strays", "lookup", "create", "acquire"}

RebuildPlaces == {"mark", "retire", "rollback", "reindex", "building", "discard", "wipe",
                  "restore", "clear"}

OwnerPlaces ==
    {"reregister", "write", "unregister", "delete", "dropslot", "recheck", "collect"}
        \cup RebuildPlaces

OpPlaces(op) ==
    CASE op = "none"    -> {"idle"}
      [] op = "index"   -> {"check", "lookup", "create", "acquire", "reregister", "write"}
      [] op = "rebuild" -> {"check", "lookup", "create", "acquire"} \cup RebuildPlaces
      [] op = "forget"  -> {"check", "lookup", "create", "acquire", "unregister", "delete",
                            "dropslot"}
      [] op = "gc"      -> {"orphans", "strays", "lookup", "create", "acquire", "recheck",
                            "collect"}

Ops == {"none", "index", "rebuild", "forget", "gc"}

ThreadStates ==
    [at : {"idle"} \cup EarlyPlaces \cup OwnerPlaces, op : Ops, slot : Nat, held : BOOLEAN,
     i : Nat, files : SUBSET Files]

(* held goes with the place; a rebuild and a forget begin at the first file. *)
Placed(x) ==
    /\ x.at \in OpPlaces(x.op)
    /\ x.held <=> x.at \in OwnerPlaces
    /\ x.at \in EarlyPlaces \cup {"idle", "mark", "unregister"} => x.i = 1
    /\ x.op # "gc" /\ x.at \in EarlyPlaces \cup {"idle", "mark"} => x.files = {}
    /\ x.at \in {"retire", "delete", "wipe", "restore"} => x.i \in 1 .. 4
    /\ x.at = "delete" => x.i \in 1 .. 3

Shape ==
    /\ made \in [version : Nat, slot : Nat]
    /\ live \in [Files -> 0 .. made.version] /\ staged \in [Files -> 0 .. made.version]
    /\ sentinel \in BOOLEAN /\ registered \in BOOLEAN
    /\ needsWal \subseteq 1 .. made.version /\ newest \in 0 .. made.version
    /\ slot \in 0 .. made.slot
    /\ ops \in 0 .. MaxOps /\ faults \in 0 .. MaxFaults
    /\ past \subseteq {"forget", "keep", "overlap", "late"}

Threaded == th \in [Threads -> ThreadStates] /\ \A t \in Threads : Placed(th[t])

-----------------------------------------------------------------------------
(* The mutexes *)

OneHolderPerSlot ==
    \A t, u \in Threads : th[t].held /\ th[u].held /\ th[t].slot = th[u].slot => t = u

OneHolder ==
    "overlap" \notin past => \A t, u \in Threads : th[t].held /\ th[u].held => t = u

(* Until a forget drops it, everyone who has looked the slot up has it. *)
SlotIsShared ==
    "forget" \notin past =>
        \A t \in Threads : th[t].at \in OwnerPlaces \cup {"acquire"} =>
            th[t].slot = slot /\ slot # 0

ForgetIsOnRecord ==
    \A t \in Threads : th[t].at \in {"delete", "dropslot"} => "forget" \in past

(* An undo is the consequence of a fault. *)
UndoNeedsAFault ==
    \A t \in Threads : th[t].at \in {"rollback", "wipe", "restore"} => faults > 0

-----------------------------------------------------------------------------
(* Orphans *)

IndexIsRegistered ==
    "overlap" \notin past => \A t \in Threads : At(t, "write") => registered

OrphanIsBeingHandled ==
    faults = 0 /\ past \cap {"keep", "late", "overlap"} = {} /\ ~registered /\ live["db"] # 0 =>
        \E t \in Threads : At(t, "building") \/ (At(t, "delete") /\ th[t].i = 1)

-----------------------------------------------------------------------------
(* The store behind a rebuild *)

(* WholeStore(newest, files) for the files as they are, or as an undo      *)
(* would bring them back.                                                  *)
WholeStore(w, d) == d = newest /\ w \in {0, newest} /\ (newest \in needsWal => w = newest)

(* The file as the undo of t's rebuild finds it, before the reindex ... *)
Behind(t, f) == IF f \in th[t].files THEN staged[f] ELSE live[f]

(* ... and once the live files are new, or gone. *)
Retired(t, f) == IF f \in th[t].files THEN staged[f] ELSE 0

BehindWhole(t) == WholeStore(Behind(t, "wal"), Behind(t, "db"))

RetiredWhole(t) == WholeStore(Retired(t, "wal"), Retired(t, "db"))

(* A crash in a rebuild: the sentinel keeps every index out. *)
Remains ==
    /\ sentinel /\ faults = 1
    /\ \A t \in Threads : th[t].op = "index" => At(t, "check")

(* A rebuild in which the store is not the one last committed. *)
Replacing(t) == th[t].at \in {"retire", "rollback", "reindex", "building", "wipe", "restore"}

RebuildCanUndo(t) ==
    /\ Replacing(t) => sentinel
    /\ At(t, "retire") =>
          /\ \A j \in 1 .. 3 : j < th[t].i => live[Order[j]] = 0
          /\ th[t].files \subseteq {Order[j] : j \in 1 .. th[t].i - 1}
          /\ newest # 0 => BehindWhole(t) \/ Remains
    /\ At(t, "rollback") /\ newest # 0 => BehindWhole(t)
    /\ At(t, "reindex") =>
          /\ \A f \in Files : live[f] = 0
          /\ newest # 0 => RetiredWhole(t) \/ Remains
    /\ At(t, "building") =>
          /\ live["wal"] \in {0, live["db"]}
          /\ live["db"] \in needsWal => live["wal"] = live["db"]
          /\ newest # 0 => RetiredWhole(t) \/ Remains
    /\ At(t, "wipe") =>
          /\ \A j \in 1 .. 3 : j < th[t].i => live[Order[j]] = 0
          /\ newest # 0 => RetiredWhole(t)
    /\ At(t, "restore") =>
          /\ \A j \in 1 .. 3 : j >= th[t].i => live[Order[j]] = 0
          /\ newest # 0 => WholeStore(IF th[t].i > 1 THEN live["wal"] ELSE Retired(t, "wal"),
                                      IF th[t].i > 2 THEN live["db"] ELSE Retired(t, "db"))
    /\ th[t].at \in {"discard", "clear"} /\ newest # 0 => Whole

(* With one fault at most, and one writer at a time. *)
StoreIsKept ==
    faults <= 1 /\ "overlap" \notin past =>
        /\ \A t \in Threads : RebuildCanUndo(t)
        /\ \A t \in Threads : th[t].at \in {"delete", "collect"} => newest = 0
        /\ newest # 0 /\ (\A t \in Threads : ~Replacing(t)) => Whole \/ Remains

WriterInv ==
    /\ Shape
    /\ Threaded
    /\ OneHolderPerSlot
    /\ OneHolder
    /\ SlotIsShared
    /\ ForgetIsOnRecord
    /\ UndoNeedsAFault
    /\ IndexIsRegistered
    /\ OrphanIsBeingHandled

-----------------------------------------------------------------------------
(* Helpers *)

LEMMA FileNames ==
    /\ Files = {"wal", "db", "vec"}
    /\ Len(Order) = 3 /\ DOMAIN Order = 1 .. 3
    /\ Order[1] = "wal" /\ Order[2] = "db" /\ Order[3] = "vec"
BY DEF Files, Order

(* What each operation does first once it has the mutex, and the order in  *)
(* which forget removes the files.                                         *)
LEMMA FirstPlaces ==
    /\ First["index"] = "reregister" /\ First["rebuild"] = "mark"
    /\ First["forget"] = "unregister" /\ First["gc"] = "recheck"
BY DEF First

LEMMA DeleteNames == DeleteOrder[1] = "db" /\ DeleteOrder[2] = "wal" /\ DeleteOrder[3] = "vec"
BY DEF DeleteOrder

(* What a returned handler leaves of its thread. *)
LEMMA IdleShape ==
    /\ Idle \in ThreadStates /\ Placed(Idle)
    /\ Idle.at = "idle" /\ Idle.op = "none" /\ Idle.held = FALSE
BY DEF Idle, ThreadStates, Ops, Placed, OpPlaces, EarlyPlaces, OwnerPlaces, RebuildPlaces

Everywhere == {"idle"} \cup EarlyPlaces \cup OwnerPlaces

(* A step of t is a step of no other thread. *)
Moves(t) ==
    /\ th' = [th EXCEPT ![t] = th'[t]]
    /\ th'[t] \in ThreadStates /\ Placed(th'[t])

(* A step of t leaves every other thread where it was.                     *)
LEMMA Moved ==
    ASSUME Threaded, NEW t \in Threads, Moves(t)
    PROVE  Threaded' /\ \A u \in Threads \ {t} : th'[u] = th[u]
BY DEF Threaded, Moves

(* A step that takes no mutex and fetches no slot. *)
LEMMA HoldersStay ==
    ASSUME Threaded, NEW t \in Threads, Moves(t), past \subseteq past',
           th'[t].at \in OwnerPlaces \cup {"acquire"} =>
               th[t].at \in OwnerPlaces /\ th'[t].slot = th[t].slot,
           slot' = slot \/ "forget" \in past,
           OneHolderPerSlot, OneHolder, SlotIsShared
    PROVE  (OneHolderPerSlot /\ OneHolder /\ SlotIsShared)'
<1>1. /\ \A u \in Threads \ {t} : th'[u] = th[u]
      /\ \A u \in Threads : th[u].held <=> th[u].at \in OwnerPlaces
      /\ \A u \in Threads : th'[u].held <=> th'[u].at \in OwnerPlaces
  BY Moved DEF Threaded, Placed
<1>2. OneHolderPerSlot'
  BY <1>1 DEF OneHolderPerSlot
<1>3. OneHolder'
  BY <1>1 DEF OneHolder
<1>4. SlotIsShared'
  BY <1>1 DEF SlotIsShared
<1> QED  BY <1>2, <1>3, <1>4

(* What a step makes of its thread. *)
Now(t, at, op, s, held, i, files) ==
    /\ th' = [th EXCEPT ![t] = th'[t]]
    /\ th'[t].at = at /\ th'[t].op = op /\ th'[t].slot = s
    /\ th'[t].held = held /\ th'[t].i = i /\ th'[t].files = files

-----------------------------------------------------------------------------
(* What the steps that change several fields of their thread make of it    *)

LEMMA ResolveMoves ==
    ASSUME Threaded, NEW t \in Threads, Resolve(t)
    PROVE  /\ Moves(t)
           /\ \E op \in {"index", "rebuild", "forget"} :
                Now(t, "check", op, th[t].slot, FALSE, 1, {})
<1>1. th[t].held = FALSE /\ th[t].i = 1 /\ th[t].files = {}
  BY DEF Threaded, ThreadStates, Resolve, At, Placed, OpPlaces, Ops, EarlyPlaces, OwnerPlaces,
     RebuildPlaces
<1>2. PICK op \in {"index", "rebuild", "forget"} :
         th' = [th EXCEPT ![t] = [@ EXCEPT !.op = op, !.at = "check"]]
  BY DEF Resolve
<1>3. th'[t] \in ThreadStates
  BY <1>2 DEF Threaded, ThreadStates, Ops, EarlyPlaces
<1>4. Now(t, "check", op, th[t].slot, FALSE, 1, {})
  BY <1>1, <1>2 DEF Threaded, ThreadStates, Now
<1>5. Placed(th'[t])
  BY <1>4 DEF Now, Placed, OpPlaces, EarlyPlaces, OwnerPlaces, RebuildPlaces
<1> QED  BY <1>3, <1>4, <1>5 DEF Now, Moves

LEMMA ResolveGcMoves ==
    ASSUME Threaded, NEW t \in Threads, ResolveGc(t)
    PROVE  /\ Moves(t)
           /\ \E p \in {"strays", "orphans"} : Now(t, p, "gc", th[t].slot, FALSE, 1, {})
<1>1. th[t].held = FALSE /\ th[t].i = 1 /\ th[t].files = {}
  BY DEF Threaded, ThreadStates, ResolveGc, At, Placed, OpPlaces, Ops, EarlyPlaces, OwnerPlaces,
     RebuildPlaces
<1>2. PICK p \in {"strays", "orphans"} : Now(t, p, "gc", th[t].slot, FALSE, 1, {})
  BY <1>1 DEF Threaded, ThreadStates, ResolveGc, At, Now
<1>3. th'[t] \in ThreadStates
  BY DEF Threaded, ThreadStates, ResolveGc, At, Ops, EarlyPlaces
<1>4. Placed(th'[t])
  BY <1>2 DEF Now, Placed, OpPlaces, EarlyPlaces, OwnerPlaces, RebuildPlaces
<1> QED  BY <1>2, <1>3, <1>4 DEF Now, Moves

LEMMA ScanOrphansMoves ==
    ASSUME Threaded, NEW t \in Threads, ScanOrphans(t)
    PROVE  /\ Moves(t)
           /\ \/ Ends(t)
              \/ Now(t, "lookup", "gc", th[t].slot, FALSE, 1, th'[t].files)
<1>1. th[t].held = FALSE /\ th[t].i = 1 /\ th[t].op = "gc"
  BY DEF Threaded, ThreadStates, ScanOrphans, At, Placed, OpPlaces, Ops, EarlyPlaces,
     OwnerPlaces, RebuildPlaces
<1>2. CASE Ends(t)
  BY <1>2, IdleShape DEF Threaded, Ends, Moves
<1>3. CASE \E F \in SUBSET Files : th' = [th EXCEPT ![t] = [@ EXCEPT !.at = "lookup", !.files = F]]
  <2>1. PICK F \in SUBSET Files : th' = [th EXCEPT ![t] = [@ EXCEPT !.at = "lookup", !.files = F]]
    BY <1>3
  <2>2. th'[t] \in ThreadStates
    BY <2>1 DEF Threaded, ThreadStates, EarlyPlaces
  <2>3. Now(t, "lookup", "gc", th[t].slot, FALSE, 1, th'[t].files)
    BY <1>1, <2>1 DEF Threaded, ThreadStates, Now
  <2>4. Placed(th'[t])
    BY <2>3 DEF Now, Placed, OpPlaces, EarlyPlaces, OwnerPlaces, RebuildPlaces
  <2> QED  BY <2>2, <2>3, <2>4 DEF Now, Moves
<1> QED  BY <1>2, <1>3 DEF ScanOrphans

LEMMA RetireMoves ==
    ASSUME Threaded, NEW t \in Threads, Retire(t)
    PROVE  /\ Moves(t) /\ th[t].i \in 1 .. 4
           /\ \/ /\ Now(t, "reindex", "rebuild", th[t].slot, TRUE, th[t].i, th[t].files)
                 /\ NoFault /\ th[t].i = 4 /\ UNCHANGED <<live, staged>>
              \/ /\ Now(t, "rollback", "rebuild", th[t].slot, TRUE, th[t].i, th[t].files)
                 /\ Fault /\ th[t].i < 4 /\ UNCHANGED <<live, staged>>
              \/ /\ Now(t, "retire", "rebuild", th[t].slot, TRUE, th[t].i + 1, th'[t].files)
                 /\ NoFault /\ th[t].i < 4
                 /\ \/ /\ live[Order[th[t].i]] # 0 /\ MoveAside(Order[th[t].i])
                       /\ th'[t].files = th[t].files \cup {Order[th[t].i]}
                    \/ /\ live[Order[th[t].i]] = 0 /\ UNCHANGED <<live, staged>>
                       /\ th'[t].files = th[t].files
<1> DEFINE f == Order[th[t].i]
<1>1. th[t].held = TRUE /\ th[t].i \in 1 .. 4 /\ th[t].op = "rebuild" /\ th[t].at = "retire"
  BY DEF Threaded, ThreadStates, Retire, At, Placed, OpPlaces, Ops, OwnerPlaces, RebuildPlaces
<1>2. /\ th[t].i <= Len(Order) => th[t].i < 4 /\ f \in Files
      /\ th[t].i > Len(Order) => th[t].i = 4
  BY <1>1, FileNames
<1>3. CASE th[t].i = 4 /\ Goes(t, "reindex") /\ NoFault /\ UNCHANGED <<live, staged>>
  <2>1. Now(t, "reindex", "rebuild", th[t].slot, TRUE, th[t].i, th[t].files)
    BY <1>1, <1>3 DEF Threaded, ThreadStates, Goes, Now
  <2>2. th'[t] \in ThreadStates
    BY <1>3 DEF Threaded, ThreadStates, Goes, OwnerPlaces, RebuildPlaces
  <2>3. Placed(th'[t])
    BY <2>1 DEF Now, Placed, OpPlaces, EarlyPlaces, OwnerPlaces, RebuildPlaces
  <2> QED  BY <1>1, <1>3, <2>1, <2>2, <2>3 DEF Now, Moves
<1>4. CASE th[t].i < 4 /\ Goes(t, "rollback") /\ Fault /\ UNCHANGED <<live, staged>>
  <2>1. Now(t, "rollback", "rebuild", th[t].slot, TRUE, th[t].i, th[t].files)
    BY <1>1, <1>4 DEF Threaded, ThreadStates, Goes, Now
  <2>2. th'[t] \in ThreadStates
    BY <1>4 DEF Threaded, ThreadStates, Goes, OwnerPlaces, RebuildPlaces
  <2>3. Placed(th'[t])
    BY <2>1 DEF Now, Placed, OpPlaces, EarlyPlaces, OwnerPlaces, RebuildPlaces
  <2> QED  BY <1>1, <1>4, <2>1, <2>2, <2>3 DEF Now, Moves
<1>5. CASE /\ th[t].i < 4 /\ f \in Files /\ live[f] # 0 /\ MoveAside(f) /\ NoFault
           /\ th' = [th EXCEPT ![t] = [@ EXCEPT !.i = th[t].i + 1, !.files = th[t].files \cup {f}]]
  <2> DEFINE n == th[t].i + 1
             F == th[t].files \cup {f}
  <2>0. /\ th' = [th EXCEPT ![t] = [@ EXCEPT !.i = n, !.files = F]]
        /\ n \in Nat /\ F \in SUBSET Files
    BY <1>1, <1>5 DEF Threaded, ThreadStates
  <2>1. Now(t, "retire", "rebuild", th[t].slot, TRUE, n, F)
    <3> HIDE DEF n, F
    <3> QED  BY <1>1, <2>0 DEF Threaded, ThreadStates, Now
  <2>2. th'[t] \in ThreadStates
    <3> HIDE DEF n, F
    <3> QED  BY <2>0 DEF Threaded, ThreadStates
  <2> HIDE DEF f
  <2>3. th[t].i + 1 \in 1 .. 4
    BY <1>1, <1>5
  <2>4. Placed(th'[t])
    BY <2>1, <2>3 DEF Now, Placed, OpPlaces, EarlyPlaces, OwnerPlaces, RebuildPlaces
  <2>5. Moves(t) /\ Now(t, "retire", "rebuild", th[t].slot, TRUE, th[t].i + 1, th'[t].files)
    BY <2>1, <2>2, <2>4 DEF Now, Moves
  <2>6. live[f] # 0 /\ MoveAside(f) /\ th'[t].files = th[t].files \cup {f} /\ NoFault
    BY <1>5, <2>1 DEF Now
  <2> QED  BY <1>1, <1>5, <2>5, <2>6 DEF f
<1>6. CASE /\ th[t].i < 4 /\ live[f] = 0 /\ NoFault
           /\ th' = [th EXCEPT ![t].i = @ + 1] /\ UNCHANGED <<live, staged>>
  <2>1. Now(t, "retire", "rebuild", th[t].slot, TRUE, th[t].i + 1, th[t].files)
    BY <1>1, <1>6 DEF Threaded, ThreadStates, Now
  <2>2. th'[t] \in ThreadStates
    BY <1>6 DEF Threaded, ThreadStates
  <2>3. th[t].i + 1 \in 1 .. 4
    BY <1>1, <1>6
  <2>4. Placed(th'[t])
    BY <2>1, <2>3 DEF Now, Placed, OpPlaces, EarlyPlaces, OwnerPlaces, RebuildPlaces
  <2> QED  BY <1>1, <1>6, <2>1, <2>2, <2>4 DEF Now, Moves
<1>7. \/ th[t].i > Len(Order) /\ Goes(t, "reindex") /\ NoFault /\ UNCHANGED <<live, staged>>
      \/ /\ th[t].i <= Len(Order)
         /\ \/ /\ live[f] # 0 /\ MoveAside(f) /\ NoFault
               /\ th' = [th EXCEPT ![t] = [@ EXCEPT !.i = th[t].i + 1,
                                                    !.files = th[t].files \cup {f}]]
            \/ /\ live[f] = 0 /\ NoFault
               /\ th' = [th EXCEPT ![t].i = @ + 1] /\ UNCHANGED <<live, staged>>
            \/ live[f] # 0 /\ Goes(t, "rollback") /\ Fault /\ UNCHANGED <<live, staged>>
  BY Zenon DEF Retire
<1> HIDE DEF f
<1> QED  BY <1>2, <1>3, <1>4, <1>5, <1>6, <1>7, Zenon

LEMMA WipeMoves ==
    ASSUME Threaded, NEW t \in Threads, Wipe(t)
    PROVE  /\ Moves(t) /\ th[t].i \in 1 .. 4
           /\ \/ Ends(t) /\ Fault /\ UNCHANGED live
              \/ /\ Now(t, "wipe", "rebuild", th[t].slot, TRUE, th[t].i + 1, th[t].files)
                 /\ NoFault /\ th[t].i < 4 /\ live' = [live EXCEPT ![Order[th[t].i]] = 0]
              \/ /\ Now(t, "restore", "rebuild", th[t].slot, TRUE, 1, th[t].files)
                 /\ NoFault /\ th[t].i = 4 /\ UNCHANGED live
<1>1. th[t].held = TRUE /\ th[t].i \in 1 .. 4 /\ th[t].op = "rebuild" /\ th[t].at = "wipe"
  BY DEF Threaded, ThreadStates, Wipe, At, Placed, OpPlaces, Ops, OwnerPlaces, RebuildPlaces
<1>2. (th[t].i <= Len(Order) => th[t].i < 4) /\ (th[t].i > Len(Order) => th[t].i = 4)
  BY <1>1, FileNames
<1>3. CASE Ends(t) /\ Fault /\ UNCHANGED live
  BY <1>1, <1>3, IdleShape DEF Threaded, Ends, Moves
<1>4. CASE /\ th[t].i < 4 /\ NoFault /\ live' = [live EXCEPT ![Order[th[t].i]] = 0]
           /\ th' = [th EXCEPT ![t].i = @ + 1]
  <2>1. Now(t, "wipe", "rebuild", th[t].slot, TRUE, th[t].i + 1, th[t].files)
    BY <1>1, <1>4 DEF Threaded, ThreadStates, Now
  <2>2. th'[t] \in ThreadStates
    BY <1>4 DEF Threaded, ThreadStates
  <2>3. th[t].i + 1 \in 1 .. 4
    BY <1>1, <1>4
  <2>4. Placed(th'[t])
    BY <2>1, <2>3 DEF Now, Placed, OpPlaces, EarlyPlaces, OwnerPlaces, RebuildPlaces
  <2> QED  BY <1>1, <1>4, <2>1, <2>2, <2>4 DEF Now, Moves
<1>5. CASE /\ th[t].i = 4 /\ NoFault /\ UNCHANGED live
           /\ th' = [th EXCEPT ![t] = [@ EXCEPT !.at = "restore", !.i = 1]]
  <2>1. Now(t, "restore", "rebuild", th[t].slot, TRUE, 1, th[t].files)
    BY <1>1, <1>5 DEF Threaded, ThreadStates, Now
  <2>2. th'[t] \in ThreadStates
    BY <1>5 DEF Threaded, ThreadStates, OwnerPlaces, RebuildPlaces
  <2>3. Placed(th'[t])
    BY <2>1 DEF Now, Placed, OpPlaces, EarlyPlaces, OwnerPlaces, RebuildPlaces
  <2> QED  BY <1>1, <1>5, <2>1, <2>2, <2>3 DEF Now, Moves
<1> QED  BY <1>2, <1>3, <1>4, <1>5, Zenon DEF Wipe

LEMMA ReindexFailsMoves ==
    ASSUME Threaded, NEW t \in Threads, ReindexFails(t)
    PROVE  /\ Moves(t)
           /\ Now(t, "wipe", "rebuild", th[t].slot, TRUE, 1, th[t].files)
<1>1. th[t].held = TRUE /\ th[t].op = "rebuild"
  BY DEF Threaded, ThreadStates, ReindexFails, At, Placed, OpPlaces, Ops, OwnerPlaces, RebuildPlaces
<1>2. Now(t, "wipe", "rebuild", th[t].slot, TRUE, 1, th[t].files)
  BY <1>1 DEF Threaded, ThreadStates, ReindexFails, Now
<1>3. th'[t] \in ThreadStates
  BY DEF Threaded, ThreadStates, ReindexFails, OwnerPlaces, RebuildPlaces
<1>4. Placed(th'[t])
  BY <1>2 DEF Now, Placed, OpPlaces, EarlyPlaces, OwnerPlaces, RebuildPlaces
<1> QED  BY <1>2, <1>3, <1>4 DEF Now, Moves

LEMMA LookupSlotMoves ==
    ASSUME Shape, Threaded, NEW t \in Threads, LookupSlot(t)
    PROVE  /\ Moves(t)
           /\ Now(t, IF slot = 0 THEN "create" ELSE "acquire", th[t].op, slot, FALSE, 1,
                  th[t].files)
<1>1. th[t].held = FALSE /\ th[t].i = 1 /\ slot \in Nat
  BY DEF Shape, Threaded, ThreadStates, LookupSlot, At, Placed, EarlyPlaces, OwnerPlaces,
     RebuildPlaces
<1>2. Now(t, IF slot = 0 THEN "create" ELSE "acquire", th[t].op, slot, FALSE, 1, th[t].files)
  BY <1>1 DEF Threaded, ThreadStates, LookupSlot, Now
<1>3. th'[t] \in ThreadStates
  BY <1>1 DEF Threaded, ThreadStates, LookupSlot, EarlyPlaces
<1>4. Placed(th'[t])
  BY <1>2 DEF Now, Threaded, ThreadStates, LookupSlot, At, Ops, Placed, OpPlaces, EarlyPlaces,
     OwnerPlaces, RebuildPlaces
<1> QED  BY <1>2, <1>3, <1>4 DEF Now, Moves

LEMMA CreateSlotMoves ==
    ASSUME Shape, Shape', Threaded, NEW t \in Threads, CreateSlot(t)
    PROVE  /\ Moves(t)
           /\ Now(t, "acquire", th[t].op, slot', FALSE, 1, th[t].files)
<1>1. th[t].held = FALSE /\ th[t].i = 1 /\ slot' \in Nat
  BY DEF Shape, Threaded, ThreadStates, CreateSlot, At, Placed, EarlyPlaces, OwnerPlaces,
     RebuildPlaces
<1>2. Now(t, "acquire", th[t].op, slot', FALSE, 1, th[t].files)
  BY <1>1 DEF Threaded, ThreadStates, CreateSlot, Now
<1>3. th'[t] \in ThreadStates
  BY <1>1 DEF Threaded, ThreadStates, CreateSlot, EarlyPlaces
<1>4. Placed(th'[t])
  BY <1>2 DEF Now, Threaded, ThreadStates, CreateSlot, At, Ops, Placed, OpPlaces, EarlyPlaces,
     OwnerPlaces, RebuildPlaces
<1> QED  BY <1>2, <1>3, <1>4 DEF Now, Moves

LEMMA AcquireWriteMoves ==
    ASSUME Threaded, NEW t \in Threads, AcquireWrite(t)
    PROVE  /\ Moves(t)
           /\ \/ Ends(t) /\ past' = past
              \/ /\ Now(t, First[th[t].op], th[t].op, th[t].slot, TRUE, 1, th[t].files)
                 /\ th[t].slot \notin HeldSlots
                 /\ past' = IF HeldSlots = {} THEN past ELSE past \cup {"overlap"}
                 /\ th'[t].at \in {"reregister", "mark", "unregister", "recheck"}
<1>1. th[t].op \in {"index", "rebuild", "forget", "gc"} /\ th[t].i = 1
  BY DEF Threaded, AcquireWrite, At, ThreadStates, Ops, Placed, OpPlaces, EarlyPlaces
<1>2. CASE Ends(t) /\ past' = past
  BY <1>2, IdleShape DEF Threaded, Ends, Moves
<1>3. CASE /\ th[t].slot \notin HeldSlots
           /\ th' = [th EXCEPT ![t] = [@ EXCEPT !.held = TRUE, !.at = First[th[t].op]]]
           /\ past' = IF HeldSlots = {} THEN past ELSE past \cup {"overlap"}
  <2>1. First[th[t].op] \in {"reregister", "mark", "unregister", "recheck"}
    BY <1>1, FirstPlaces
  <2>2. Now(t, First[th[t].op], th[t].op, th[t].slot, TRUE, 1, th[t].files)
    BY <1>1, <1>3 DEF Threaded, ThreadStates, Now
  <2>3. th'[t] \in ThreadStates
    BY <1>3, <2>1 DEF Threaded, ThreadStates, OwnerPlaces, RebuildPlaces
  <2>4. Placed(th'[t])
    BY <1>1, <2>2, FirstPlaces DEF Now, Threaded, AcquireWrite, At, Placed, OpPlaces, EarlyPlaces,
       OwnerPlaces, RebuildPlaces
  <2> QED  BY <1>3, <2>1, <2>2, <2>3, <2>4 DEF Now, Moves
<1> QED  BY <1>2, <1>3 DEF AcquireWrite

LEMMA DeleteFileMoves ==
    ASSUME Threaded, NEW t \in Threads, DeleteFile(t)
    PROVE  /\ Moves(t) /\ th[t].i \in 1 .. 3
           /\ Now(t, IF th[t].i = 3 THEN "dropslot" ELSE "delete", "forget", th[t].slot, TRUE,
                  th[t].i + 1, th[t].files)
<1>1. th[t].held = TRUE /\ th[t].i \in 1 .. 3 /\ th[t].op = "forget" /\ th[t].at = "delete"
  BY DEF Threaded, ThreadStates, DeleteFile, At, Placed, OpPlaces, Ops, OwnerPlaces, RebuildPlaces
<1> DEFINE x == th[t]
           p == IF th[t].i = Len(Order) THEN "dropslot" ELSE "delete"
<1>2. p = (IF th[t].i = 3 THEN "dropslot" ELSE "delete") /\ p \in Everywhere
  BY <1>1, FileNames DEF Everywhere, OwnerPlaces
<1>3. th' = [th EXCEPT ![t] = [x EXCEPT !.i = x.i + 1, !.at = p]]
  BY DEF DeleteFile
<1>4. th'[t] = [x EXCEPT !.i = x.i + 1, !.at = p] /\ th' = [th EXCEPT ![t] = th'[t]]
  <2> HIDE DEF x, p
  <2> QED  BY <1>3 DEF Threaded
<1>5. x \in ThreadStates /\ x.i + 1 \in Nat
  BY <1>1 DEF Threaded
<1>6. th'[t] \in ThreadStates
  <2> HIDE DEF x, p
  <2> QED  BY <1>2, <1>4, <1>5 DEF ThreadStates, Everywhere
<1>7. /\ th'[t].at = p /\ th'[t].op = x.op /\ th'[t].slot = x.slot
      /\ th'[t].held = x.held /\ th'[t].i = x.i + 1 /\ th'[t].files = x.files
  <2> HIDE DEF x, p
  <2> QED  BY <1>4, <1>5 DEF ThreadStates
<1>8. Now(t, IF th[t].i = 3 THEN "dropslot" ELSE "delete", "forget", th[t].slot, TRUE,
          th[t].i + 1, th[t].files)
  BY <1>1, <1>2, <1>4, <1>7 DEF Now
<1>9. Placed(th'[t])
  BY <1>1, <1>8 DEF Now, Placed, OpPlaces, EarlyPlaces, OwnerPlaces, RebuildPlaces
<1> QED  BY <1>1, <1>4, <1>6, <1>8, <1>9 DEF Moves

-----------------------------------------------------------------------------
(* The mutexes and the orphans: each step keeps WriterInv                  *)

LEMMA ResolveKeeps ==
    ASSUME WriterInv, NEW t \in Threads, Resolve(t)
    PROVE  WriterInv' /\ Moves(t)
<1> USE DEF WriterInv
<1>1. Moves(t) /\ Threaded' /\ \A u \in Threads \ {t} : th'[u] = th[u]
  BY ResolveMoves, Moved
<1>2. /\ UNCHANGED <<diskVars, slot, faults, past>> /\ (registered => registered')
      /\ th[t].at = "idle"
  BY DEF Resolve, At, diskVars
<1>3. th'[t].at = "check"
  BY <1>2, ResolveMoves DEF Now
<1>4. Shape'
  BY LifecycleAssumption, FileNames DEF Shape, Resolve, diskVars
<1>5. (OneHolderPerSlot /\ OneHolder /\ SlotIsShared)'
  BY <1>1, <1>2, ResolveMoves, HoldersStay, IdleShape DEF Threaded, Now, EarlyPlaces,
     OwnerPlaces, RebuildPlaces
<1>6. (ForgetIsOnRecord /\ UndoNeedsAFault)'
  BY <1>1, <1>2, <1>3 DEF Shape, ForgetIsOnRecord, UndoNeedsAFault
<1>7. IndexIsRegistered'
  BY <1>1, <1>2, <1>3 DEF At, IndexIsRegistered
<1>8. OrphanIsBeingHandled'
  BY <1>1, <1>2, <1>3 DEF diskVars, At, OrphanIsBeingHandled
<1> QED  BY <1>1, <1>4, <1>5, <1>6, <1>7, <1>8

LEMMA ResolveGcKeeps ==
    ASSUME WriterInv, NEW t \in Threads, ResolveGc(t)
    PROVE  WriterInv' /\ Moves(t)
<1> USE DEF WriterInv
<1>1. Moves(t) /\ Threaded' /\ \A u \in Threads \ {t} : th'[u] = th[u]
  BY ResolveGcMoves, Moved
<1>2. UNCHANGED <<diskVars, registered, slot, faults, past>> /\ th[t].at = "idle"
  BY DEF ResolveGc, At, diskVars
<1>3. th'[t].at \in {"strays", "orphans"}
  BY <1>2, ResolveGcMoves DEF Now
<1>4. Shape'
  BY LifecycleAssumption, FileNames DEF Shape, ResolveGc, diskVars
<1>5. (OneHolderPerSlot /\ OneHolder /\ SlotIsShared)'
  BY <1>1, <1>2, ResolveGcMoves, HoldersStay, IdleShape DEF Threaded, Now, EarlyPlaces,
     OwnerPlaces, RebuildPlaces
<1>6. (ForgetIsOnRecord /\ UndoNeedsAFault)'
  BY <1>1, <1>2, <1>3 DEF Shape, ForgetIsOnRecord, UndoNeedsAFault
<1>7. IndexIsRegistered'
  BY <1>1, <1>2, <1>3 DEF At, IndexIsRegistered
<1>8. OrphanIsBeingHandled'
  BY <1>1, <1>2, <1>3 DEF diskVars, At, OrphanIsBeingHandled
<1> QED  BY <1>1, <1>4, <1>5, <1>6, <1>7, <1>8

LEMMA ScanOrphansKeeps ==
    ASSUME WriterInv, NEW t \in Threads, ScanOrphans(t)
    PROVE  WriterInv' /\ Moves(t)
<1> USE DEF WriterInv
<1>1. Moves(t) /\ Threaded' /\ \A u \in Threads \ {t} : th'[u] = th[u]
  BY ScanOrphansMoves, Moved
<1>2. /\ UNCHANGED <<diskVars, registered, slot, faults, past>>
      /\ th[t].at \in {"orphans", "strays"}
  BY DEF ScanOrphans, At, diskVars
<1>3. th'[t].at \in {"idle", "lookup"}
  BY <1>2, ScanOrphansMoves, IdleShape DEF Now, Ends, Threaded
<1>4. Shape'
  BY LifecycleAssumption, FileNames DEF Shape, ScanOrphans, diskVars
<1>5. (OneHolderPerSlot /\ OneHolder /\ SlotIsShared)'
  BY <1>1, <1>2, ScanOrphansMoves, HoldersStay, IdleShape DEF Threaded, Now, EarlyPlaces,
     OwnerPlaces, RebuildPlaces, Ends
<1>6. (ForgetIsOnRecord /\ UndoNeedsAFault)'
  BY <1>1, <1>2, <1>3 DEF Shape, ForgetIsOnRecord, UndoNeedsAFault
<1>7. IndexIsRegistered'
  BY <1>1, <1>2, <1>3 DEF At, IndexIsRegistered
<1>8. OrphanIsBeingHandled'
  BY <1>1, <1>2, <1>3 DEF diskVars, At, OrphanIsBeingHandled
<1> QED  BY <1>1, <1>4, <1>5, <1>6, <1>7, <1>8

LEMMA CheckSentinelKeeps ==
    ASSUME WriterInv, NEW t \in Threads, CheckSentinel(t)
    PROVE  WriterInv' /\ Moves(t)
<1> USE FileNames, FirstPlaces, IdleShape DEF WriterInv
<1>1. Moves(t)
  BY DEF Moves, Placed, OpPlaces, Shape, Threaded, CheckSentinel, At, Goes, Ends, ThreadStates,
     Ops, EarlyPlaces, OwnerPlaces, RebuildPlaces
<1>2. Shape'
  BY LifecycleAssumption DEF Shape, CheckSentinel, diskVars, At, Goes, Ends
<1>3. (OneHolderPerSlot /\ OneHolder /\ SlotIsShared)'
  BY <1>1, HoldersStay DEF Threaded, ThreadStates, CheckSentinel, diskVars, At, Goes, Ends,
     EarlyPlaces, OwnerPlaces, RebuildPlaces
<1>4. (ForgetIsOnRecord /\ UndoNeedsAFault)'
  BY <1>1, Moved DEF Shape, Threaded, CheckSentinel, diskVars, At, Goes, Ends, ThreadStates,
     ForgetIsOnRecord, UndoNeedsAFault
<1>5. (IndexIsRegistered /\ OrphanIsBeingHandled)'
  BY <1>1, Moved DEF Shape, Threaded, CheckSentinel, diskVars, At, Goes, Ends, ThreadStates,
     Placed, OneHolder, IndexIsRegistered, OrphanIsBeingHandled, OwnerPlaces, RebuildPlaces
<1> QED  BY <1>1, <1>2, <1>3, <1>4, <1>5, Moved

LEMMA LookupSlotKeeps ==
    ASSUME WriterInv, NEW t \in Threads, LookupSlot(t)
    PROVE  WriterInv' /\ Moves(t)
<1> USE DEF WriterInv
<1>1. Moves(t) /\ Threaded' /\ \A u \in Threads \ {t} : th'[u] = th[u]
  BY LookupSlotMoves, Moved
<1>2. UNCHANGED <<diskVars, registered, slot, faults, past>> /\ th[t].at = "lookup"
  BY DEF LookupSlot, At, diskVars
<1>3. /\ th'[t].at = (IF slot = 0 THEN "create" ELSE "acquire")
      /\ th'[t].slot = slot /\ th'[t].held = FALSE
  BY <1>2, LookupSlotMoves DEF Now
<1>4. Shape'
  BY LifecycleAssumption, FileNames DEF Shape, LookupSlot, diskVars
<1>5. (OneHolderPerSlot /\ OneHolder /\ SlotIsShared)'
  BY <1>1, <1>2, <1>3 DEF OneHolderPerSlot, OneHolder, SlotIsShared, OwnerPlaces, RebuildPlaces
<1>6. (ForgetIsOnRecord /\ UndoNeedsAFault)'
  BY <1>1, <1>2, <1>3 DEF Shape, ForgetIsOnRecord, UndoNeedsAFault
<1>7. IndexIsRegistered'
  BY <1>1, <1>2, <1>3 DEF At, IndexIsRegistered
<1>8. OrphanIsBeingHandled'
  BY <1>1, <1>2, <1>3 DEF diskVars, At, OrphanIsBeingHandled
<1> QED  BY <1>1, <1>4, <1>5, <1>6, <1>7, <1>8

LEMMA CreateSlotKeeps ==
    ASSUME WriterInv, NEW t \in Threads, CreateSlot(t)
    PROVE  WriterInv' /\ Moves(t)
<1> USE DEF WriterInv
<1>1. Shape'
  BY LifecycleAssumption DEF Shape, CreateSlot, diskVars
<1>2. /\ Moves(t) /\ Threaded' /\ \A u \in Threads \ {t} : th'[u] = th[u]
      /\ Now(t, "acquire", th[t].op, slot', FALSE, 1, th[t].files)
  BY <1>1, CreateSlotMoves, Moved
<1>3. /\ UNCHANGED <<diskVars, registered, faults, past>> /\ th[t].at = "create"
      /\ slot' # 0 /\ (slot # 0 => slot' = slot)
  BY DEF CreateSlot, At, diskVars, Shape
<1>4. (OneHolderPerSlot /\ OneHolder /\ SlotIsShared)'
  BY <1>2, <1>3 DEF Now, OneHolderPerSlot, OneHolder, SlotIsShared, OwnerPlaces, RebuildPlaces
<1>5. (ForgetIsOnRecord /\ UndoNeedsAFault)'
  BY <1>2, <1>3 DEF Now, ForgetIsOnRecord, UndoNeedsAFault
<1>6. IndexIsRegistered'
  BY <1>2, <1>3 DEF Now, At, IndexIsRegistered
<1>7. OrphanIsBeingHandled'
  BY <1>2, <1>3 DEF Now, At, diskVars, OrphanIsBeingHandled
<1> QED  BY <1>1, <1>2, <1>4, <1>5, <1>6, <1>7

LEMMA AcquireWriteKeeps ==
    ASSUME WriterInv, NEW t \in Threads, AcquireWrite(t)
    PROVE  WriterInv' /\ Moves(t)
<1> USE DEF WriterInv
<1>1. Moves(t) /\ Threaded' /\ \A u \in Threads \ {t} : th'[u] = th[u]
  BY AcquireWriteMoves, Moved
<1>2. UNCHANGED <<diskVars, registered, slot, faults>> /\ th[t].at = "acquire"
  BY DEF AcquireWrite, At, diskVars
<1>3. Shape'
  BY LifecycleAssumption DEF Shape, AcquireWrite, diskVars
<1>4. CASE Ends(t) /\ past' = past
  <2>1. (OneHolderPerSlot /\ OneHolder /\ SlotIsShared)'
    BY <1>1, <1>2, <1>4, IdleShape, HoldersStay DEF Threaded, Ends, OwnerPlaces, RebuildPlaces
  <2>2. (ForgetIsOnRecord /\ UndoNeedsAFault)'
    BY <1>1, <1>2, <1>4, IdleShape DEF ForgetIsOnRecord, UndoNeedsAFault, Threaded, Ends
  <2>3. (IndexIsRegistered /\ OrphanIsBeingHandled)'
    BY <1>1, <1>2, <1>4, IdleShape DEF IndexIsRegistered, OrphanIsBeingHandled, Threaded, At, Ends,
       diskVars
  <2> QED  BY <1>1, <1>3, <2>1, <2>2, <2>3
<1>5. CASE /\ Now(t, First[th[t].op], th[t].op, th[t].slot, TRUE, 1, th[t].files)
           /\ th[t].slot \notin HeldSlots
           /\ past' = IF HeldSlots = {} THEN past ELSE past \cup {"overlap"}
           /\ th'[t].at \in {"reregister", "mark", "unregister", "recheck"}
  <2>1. th'[t].slot = th[t].slot /\ past \subseteq past'
    BY <1>5 DEF Now
  <2>2. \A u \in Threads : th[u].held => th[u].slot \in HeldSlots
    BY DEF HeldSlots
  <2>3. OneHolderPerSlot'
    BY <1>1, <1>5, <2>1, <2>2 DEF OneHolderPerSlot
  <2>4. OneHolder'
    <3>1. CASE HeldSlots = {}
      BY <1>1, <2>2, <3>1 DEF OneHolder
    <3>2. CASE HeldSlots # {}
      BY <1>5, <3>2 DEF OneHolder
    <3> QED  BY <3>1, <3>2
  <2>5. SlotIsShared'
    BY <1>1, <1>2, <2>1 DEF SlotIsShared
  <2>6. (ForgetIsOnRecord /\ UndoNeedsAFault)'
    BY <1>1, <1>2, <1>5, <2>1 DEF ForgetIsOnRecord, UndoNeedsAFault
  <2>7. (IndexIsRegistered /\ OrphanIsBeingHandled)'
    BY <1>1, <1>2, <1>5, <2>1 DEF IndexIsRegistered, OrphanIsBeingHandled, At, diskVars
  <2> QED  BY <1>1, <1>3, <2>3, <2>4, <2>5, <2>6, <2>7
<1> QED  BY <1>4, <1>5, AcquireWriteMoves

LEMMA ReregisterKeeps ==
    ASSUME WriterInv, NEW t \in Threads, Reregister(t)
    PROVE  WriterInv' /\ Moves(t)
<1> USE FileNames, FirstPlaces, IdleShape DEF WriterInv
<1>1. Moves(t)
  BY DEF Moves, Placed, OpPlaces, Shape, Threaded, Reregister, At, Goes, ThreadStates, Ops,
     EarlyPlaces, OwnerPlaces, RebuildPlaces
<1>2. Shape'
  BY LifecycleAssumption DEF Shape, Reregister, diskVars, At, Goes
<1>3. (OneHolderPerSlot /\ OneHolder /\ SlotIsShared)'
  BY <1>1, HoldersStay DEF Threaded, ThreadStates, Reregister, diskVars, At, Goes, EarlyPlaces,
     OwnerPlaces, RebuildPlaces
<1>4. (ForgetIsOnRecord /\ UndoNeedsAFault)'
  BY <1>1, Moved DEF Shape, Threaded, Reregister, diskVars, At, Goes, ThreadStates,
     ForgetIsOnRecord, UndoNeedsAFault
<1>5. (IndexIsRegistered /\ OrphanIsBeingHandled)'
  BY <1>1, Moved DEF Shape, Threaded, Reregister, diskVars, At, Goes, ThreadStates, Placed,
     OneHolder, IndexIsRegistered, OrphanIsBeingHandled, OwnerPlaces, RebuildPlaces
<1> QED  BY <1>1, <1>2, <1>3, <1>4, <1>5, Moved

LEMMA IndexKeeps ==
    ASSUME WriterInv, NEW t \in Threads, Index(t)
    PROVE  WriterInv' /\ Moves(t)
<1> USE FileNames, FirstPlaces, IdleShape DEF WriterInv
<1>1. Moves(t)
  BY DEF Moves, Placed, OpPlaces, Shape, Threaded, Index, At, Ends, ThreadStates, Ops,
     EarlyPlaces, OwnerPlaces, RebuildPlaces
<1>2. Shape'
  BY LifecycleAssumption DEF Shape, Index, At, Ends, OpenOrCreate
<1>3. (OneHolderPerSlot /\ OneHolder /\ SlotIsShared)'
  BY <1>1, HoldersStay DEF Threaded, ThreadStates, Index, At, Ends, OpenOrCreate, EarlyPlaces,
     OwnerPlaces, RebuildPlaces
<1>4. (ForgetIsOnRecord /\ UndoNeedsAFault)'
  BY <1>1, Moved DEF Shape, Threaded, Index, At, Ends, OpenOrCreate, ThreadStates,
     ForgetIsOnRecord, UndoNeedsAFault
<1>5. (IndexIsRegistered /\ OrphanIsBeingHandled)'
  BY <1>1, Moved DEF Shape, Threaded, Index, At, Ends, OpenOrCreate, ThreadStates, Placed,
     OneHolder, IndexIsRegistered, OrphanIsBeingHandled, OwnerPlaces, RebuildPlaces
<1> QED  BY <1>1, <1>2, <1>3, <1>4, <1>5, Moved

LEMMA MarkKeeps ==
    ASSUME WriterInv, NEW t \in Threads, Mark(t)
    PROVE  WriterInv' /\ Moves(t)
<1> USE FileNames, FirstPlaces, IdleShape DEF WriterInv
<1>1. /\ Moves(t)
      /\ At(t, "mark") /\ sentinel' \in BOOLEAN
      /\ (Goes(t, "retire") /\ NoFault) \/ (Ends(t) /\ Fault)
      /\ UNCHANGED <<live, staged, needsWal, newest, registered, slot, made, ops, past>>
  <2>1. /\ At(t, "mark") /\ sentinel' \in BOOLEAN
        /\ (Goes(t, "retire") /\ NoFault) \/ (Ends(t) /\ Fault)
        /\ UNCHANGED <<live, staged, needsWal, newest, registered, slot, made, ops, past>>
    BY Zenon DEF Mark, Shape
  <2>2. Moves(t)
    BY <2>1 DEF Moves, Placed, OpPlaces, Threaded, At, Goes, Ends, ThreadStates, Ops,
       EarlyPlaces, OwnerPlaces, RebuildPlaces
  <2> QED  BY <2>1, <2>2
<1>2. Shape'
  BY <1>1, LifecycleAssumption DEF Shape, Fault, NoFault
<1>3. (OneHolderPerSlot /\ OneHolder /\ SlotIsShared)'
  BY <1>1, HoldersStay DEF Threaded, ThreadStates, At, Goes, Ends, OwnerPlaces, RebuildPlaces
<1>4. (ForgetIsOnRecord /\ UndoNeedsAFault)'
  BY <1>1, Moved DEF Shape, Threaded, At, Goes, Ends, Fault, NoFault, ThreadStates,
     ForgetIsOnRecord, UndoNeedsAFault
<1>5. (IndexIsRegistered /\ OrphanIsBeingHandled)'
  <2>1. IndexIsRegistered'
    BY <1>1, Moved DEF IndexIsRegistered, Threaded, ThreadStates, At, Goes, Ends, Fault, NoFault
  <2>2. OrphanIsBeingHandled'
    BY <1>1, Moved DEF OrphanIsBeingHandled, Threaded, ThreadStates, Shape, At, Goes, Ends,
       Fault, NoFault
  <2> QED  BY <2>1, <2>2
<1> QED  BY <1>1, <1>2, <1>3, <1>4, <1>5, Moved

LEMMA RetireKeeps ==
    ASSUME WriterInv, NEW t \in Threads, Retire(t)
    PROVE  WriterInv' /\ Moves(t)
<1> USE DEF WriterInv
<1>1. Moves(t) /\ Threaded' /\ \A u \in Threads \ {t} : th'[u] = th[u]
  BY RetireMoves, Moved
<1>2. UNCHANGED <<registered, slot, past>> /\ th[t].at = "retire"
  BY DEF Retire, At, diskVars
<1>3. /\ \/ th'[t].at \in {"reindex", "retire"} /\ faults' = faults
         \/ th'[t].at = "rollback" /\ faults' = faults + 1
      /\ \A f \in Files : live'[f] \in {0, live[f]}
  BY <1>2, RetireMoves, FileNames DEF Now, Fault, NoFault, Shape, MoveAside
<1>4. Shape'
  BY LifecycleAssumption, FileNames DEF Shape, Retire, diskVars, Fault, NoFault, MoveAside
<1>5. (OneHolderPerSlot /\ OneHolder /\ SlotIsShared)'
  BY <1>1, <1>2, RetireMoves, HoldersStay, IdleShape DEF Threaded, Now, EarlyPlaces,
     OwnerPlaces, RebuildPlaces
<1>6. (ForgetIsOnRecord /\ UndoNeedsAFault)'
  BY <1>1, <1>2, <1>3 DEF Shape, ForgetIsOnRecord, UndoNeedsAFault
<1>7. IndexIsRegistered'
  BY <1>1, <1>2, <1>3 DEF At, IndexIsRegistered
<1>8. OrphanIsBeingHandled'
  <2>1. live'["db"] \in {0, live["db"]} /\ (faults' = 0 => faults = 0)
    BY <1>3, FileNames DEF Shape
  <2> QED  BY <1>1, <1>2, <1>3, <2>1 DEF At, OrphanIsBeingHandled
<1> QED  BY <1>1, <1>4, <1>5, <1>6, <1>7, <1>8

LEMMA RollbackKeeps ==
    ASSUME WriterInv, NEW t \in Threads, Rollback(t)
    PROVE  WriterInv' /\ Moves(t)
<1> USE FileNames, FirstPlaces, IdleShape DEF WriterInv
<1>1. Moves(t)
  BY DEF Moves, Placed, OpPlaces, Shape, Threaded, Rollback, At, Goes, ThreadStates, Ops,
     EarlyPlaces, OwnerPlaces, RebuildPlaces
<1>2. Shape'
  BY LifecycleAssumption DEF Shape, Rollback, At, Goes, Fault, NoFault, MoveBack
<1>3. (OneHolderPerSlot /\ OneHolder /\ SlotIsShared)'
  BY <1>1, HoldersStay DEF Threaded, ThreadStates, Rollback, At, Goes, Fault, NoFault, MoveBack,
     EarlyPlaces, OwnerPlaces, RebuildPlaces
<1>4. (ForgetIsOnRecord /\ UndoNeedsAFault)'
  BY <1>1, Moved DEF Shape, Threaded, Rollback, At, Goes, Fault, NoFault, MoveBack,
     ThreadStates, ForgetIsOnRecord, UndoNeedsAFault
<1>5. (IndexIsRegistered /\ OrphanIsBeingHandled)'
  <2>1. IndexIsRegistered'
    BY <1>1, Moved DEF IndexIsRegistered, Threaded, ThreadStates, Rollback, At, Goes, Fault,
       NoFault, MoveBack
  <2>2. OrphanIsBeingHandled'
    BY <1>1, Moved, <1>4 DEF OrphanIsBeingHandled, UndoNeedsAFault, Threaded, ThreadStates,
       Shape, Rollback, At, Goes, Fault, NoFault, MoveBack
  <2> QED  BY <2>1, <2>2
<1> QED  BY <1>1, <1>2, <1>3, <1>4, <1>5, Moved

LEMMA ReindexKeeps ==
    ASSUME WriterInv, NEW t \in Threads, Reindex(t)
    PROVE  WriterInv' /\ Moves(t)
<1> USE FileNames, FirstPlaces, IdleShape DEF WriterInv
<1>1. Moves(t)
  <2>1. th'[t] = [th[t] EXCEPT !.at = "building"] /\ th' = [th EXCEPT ![t] = th'[t]]
    BY DEF Threaded, Reindex, At, Goes
  <2>2. th'[t] \in ThreadStates
    BY <2>1 DEF Threaded, Shape, ThreadStates, OwnerPlaces, RebuildPlaces, EarlyPlaces
  <2>3. Placed(th'[t])
    BY <2>1 DEF Threaded, Reindex, At, ThreadStates, Placed, OpPlaces, Ops, EarlyPlaces,
       OwnerPlaces, RebuildPlaces
  <2> QED  BY <2>1, <2>2, <2>3 DEF Moves
<1>2. Shape'
  BY LifecycleAssumption DEF Shape, Reindex, At, Goes, OpenOrCreate
<1>3. (OneHolderPerSlot /\ OneHolder /\ SlotIsShared)'
  BY <1>1, HoldersStay DEF Threaded, ThreadStates, Reindex, At, Goes, OpenOrCreate, EarlyPlaces,
     OwnerPlaces, RebuildPlaces
<1>4. (ForgetIsOnRecord /\ UndoNeedsAFault)'
  BY <1>1, Moved DEF Shape, Threaded, Reindex, At, Goes, OpenOrCreate, ThreadStates,
     ForgetIsOnRecord, UndoNeedsAFault
<1>5. (IndexIsRegistered /\ OrphanIsBeingHandled)'
  BY <1>1, Moved DEF Shape, Threaded, Reindex, At, Goes, OpenOrCreate, ThreadStates, Placed,
     OneHolder, IndexIsRegistered, OrphanIsBeingHandled, OwnerPlaces, RebuildPlaces
<1> QED  BY <1>1, <1>2, <1>3, <1>4, <1>5, Moved

LEMMA CommitKeeps ==
    ASSUME WriterInv, NEW t \in Threads, Commit(t)
    PROVE  WriterInv' /\ Moves(t)
<1> USE FileNames, FirstPlaces, IdleShape DEF WriterInv
<1>1. Moves(t)
  <2>1. th'[t] = [th[t] EXCEPT !.at = "discard"] /\ th' = [th EXCEPT ![t] = th'[t]]
    BY DEF Threaded, Commit, At, Goes
  <2>2. th'[t] \in ThreadStates
    BY <2>1 DEF Threaded, Shape, ThreadStates, OwnerPlaces, RebuildPlaces, EarlyPlaces
  <2>3. Placed(th'[t])
    BY <2>1 DEF Threaded, Commit, At, ThreadStates, Placed, OpPlaces, Ops, EarlyPlaces,
       OwnerPlaces, RebuildPlaces
  <2> QED  BY <2>1, <2>2, <2>3 DEF Moves
<1>2. Shape'
  BY LifecycleAssumption DEF Shape, Commit, At, Goes
<1>3. (OneHolderPerSlot /\ OneHolder /\ SlotIsShared)'
  BY <1>1, HoldersStay DEF Threaded, ThreadStates, Commit, At, Goes, EarlyPlaces, OwnerPlaces,
     RebuildPlaces
<1>4. (ForgetIsOnRecord /\ UndoNeedsAFault)'
  BY <1>1, Moved DEF Shape, Threaded, Commit, At, Goes, ThreadStates, ForgetIsOnRecord,
     UndoNeedsAFault
<1>5. (IndexIsRegistered /\ OrphanIsBeingHandled)'
  <2>1. IndexIsRegistered'
    BY <1>1, Moved DEF IndexIsRegistered, Threaded, ThreadStates, Commit, At, Goes
  <2>2. OrphanIsBeingHandled'
    BY <1>1, Moved DEF OrphanIsBeingHandled, Threaded, ThreadStates, Shape, Commit, At, Goes
  <2> QED  BY <2>1, <2>2
<1> QED  BY <1>1, <1>2, <1>3, <1>4, <1>5, Moved

LEMMA ReindexFailsKeeps ==
    ASSUME WriterInv, NEW t \in Threads, ReindexFails(t)
    PROVE  WriterInv' /\ Moves(t)
<1> USE DEF WriterInv
<1>1. Moves(t) /\ Threaded' /\ \A u \in Threads \ {t} : th'[u] = th[u]
  BY ReindexFailsMoves, Moved
<1>2. /\ UNCHANGED <<diskVars, registered, slot, past>> /\ faults' = faults + 1
      /\ th[t].at \in {"reindex", "building"}
  BY DEF ReindexFails, At, diskVars, Fault
<1>3. th'[t].at = "wipe"
  BY <1>2, ReindexFailsMoves DEF Now
<1>4. Shape'
  BY LifecycleAssumption, FileNames DEF Shape, ReindexFails, diskVars, Fault
<1>5. (OneHolderPerSlot /\ OneHolder /\ SlotIsShared)'
  BY <1>1, <1>2, ReindexFailsMoves, HoldersStay, IdleShape DEF Threaded, Now, EarlyPlaces,
     OwnerPlaces, RebuildPlaces
<1>6. (ForgetIsOnRecord /\ UndoNeedsAFault)'
  BY <1>1, <1>2, <1>3 DEF Shape, ForgetIsOnRecord, UndoNeedsAFault
<1>7. IndexIsRegistered'
  BY <1>1, <1>2, <1>3 DEF At, IndexIsRegistered
<1>8. OrphanIsBeingHandled'
  BY <1>2 DEF Shape, OrphanIsBeingHandled
<1> QED  BY <1>1, <1>4, <1>5, <1>6, <1>7, <1>8

LEMMA DiscardKeeps ==
    ASSUME WriterInv, NEW t \in Threads, Discard(t)
    PROVE  WriterInv' /\ Moves(t)
<1> USE FileNames, FirstPlaces, IdleShape DEF WriterInv
<1>1. Moves(t)
  BY DEF Moves, Placed, OpPlaces, Shape, Threaded, Discard, At, Goes, ThreadStates, Ops,
     EarlyPlaces, OwnerPlaces, RebuildPlaces
<1>2. Shape'
  BY LifecycleAssumption DEF Shape, Discard, At, Goes, Fault, NoFault
<1>3. (OneHolderPerSlot /\ OneHolder /\ SlotIsShared)'
  BY <1>1, HoldersStay DEF Threaded, ThreadStates, Discard, At, Goes, Fault, NoFault,
     EarlyPlaces, OwnerPlaces, RebuildPlaces
<1>4. (ForgetIsOnRecord /\ UndoNeedsAFault)'
  BY <1>1, Moved DEF Shape, Threaded, Discard, At, Goes, Fault, NoFault, ThreadStates,
     ForgetIsOnRecord, UndoNeedsAFault
<1>5. (IndexIsRegistered /\ OrphanIsBeingHandled)'
  BY <1>1, Moved DEF Shape, Threaded, Discard, At, Goes, Fault, NoFault, ThreadStates, Placed,
     OneHolder, IndexIsRegistered, OrphanIsBeingHandled, OwnerPlaces, RebuildPlaces
<1> QED  BY <1>1, <1>2, <1>3, <1>4, <1>5, Moved

LEMMA WipeKeeps ==
    ASSUME WriterInv, NEW t \in Threads, Wipe(t)
    PROVE  WriterInv' /\ Moves(t)
<1> USE DEF WriterInv
<1>1. Moves(t) /\ Threaded' /\ \A u \in Threads \ {t} : th'[u] = th[u]
  BY WipeMoves, Moved
<1>2. UNCHANGED <<registered, slot, past>> /\ th[t].at = "wipe"
  BY DEF Wipe, At, diskVars
<1>3. /\ th'[t].at \in {"idle", "wipe", "restore"}
      /\ faults > 0 /\ faults' \in {faults, faults + 1}
  BY <1>2, WipeMoves, IdleShape DEF Now, Ends, Threaded, Fault, NoFault, UndoNeedsAFault
<1>4. Shape'
  BY LifecycleAssumption, FileNames DEF Shape, Wipe, diskVars, Fault, NoFault
<1>5. (OneHolderPerSlot /\ OneHolder /\ SlotIsShared)'
  BY <1>1, <1>2, WipeMoves, HoldersStay, IdleShape DEF Threaded, Now, EarlyPlaces, OwnerPlaces,
     RebuildPlaces, Ends
<1>6. (ForgetIsOnRecord /\ UndoNeedsAFault)'
  BY <1>1, <1>2, <1>3 DEF Shape, ForgetIsOnRecord, UndoNeedsAFault
<1>7. IndexIsRegistered'
  BY <1>1, <1>2, <1>3 DEF At, IndexIsRegistered
<1>8. OrphanIsBeingHandled'
  BY <1>3 DEF Shape, OrphanIsBeingHandled
<1> QED  BY <1>1, <1>4, <1>5, <1>6, <1>7, <1>8

LEMMA RestoreKeeps ==
    ASSUME WriterInv, NEW t \in Threads, Restore(t)
    PROVE  WriterInv' /\ Moves(t)
<1> USE FileNames, FirstPlaces, IdleShape DEF WriterInv
<1>1. Moves(t)
  BY DEF Moves, Placed, OpPlaces, Shape, Threaded, Restore, At, Goes, Ends, ThreadStates, Ops,
     EarlyPlaces, OwnerPlaces, RebuildPlaces
<1>2. Shape'
  BY LifecycleAssumption DEF Shape, Restore, At, Goes, Ends, Fault, NoFault, MoveBack
<1>3. (OneHolderPerSlot /\ OneHolder /\ SlotIsShared)'
  BY <1>1, HoldersStay DEF Threaded, ThreadStates, Restore, At, Goes, Ends, Fault, NoFault,
     MoveBack, EarlyPlaces, OwnerPlaces, RebuildPlaces
<1>4. (ForgetIsOnRecord /\ UndoNeedsAFault)'
  BY <1>1, Moved DEF Shape, Threaded, Restore, At, Goes, Ends, Fault, NoFault, MoveBack,
     ThreadStates, ForgetIsOnRecord, UndoNeedsAFault
<1>5. (IndexIsRegistered /\ OrphanIsBeingHandled)'
  <2>1. IndexIsRegistered'
    BY <1>1, Moved DEF IndexIsRegistered, Threaded, ThreadStates, Restore, At, Goes, Ends,
       Fault, NoFault, MoveBack
  <2>2. OrphanIsBeingHandled'
    BY <1>1, Moved, <1>4 DEF OrphanIsBeingHandled, UndoNeedsAFault, Threaded, ThreadStates,
       Shape, Restore, At, Goes, Ends, Fault, NoFault, MoveBack
  <2> QED  BY <2>1, <2>2
<1> QED  BY <1>1, <1>2, <1>3, <1>4, <1>5, Moved

LEMMA ClearSentinelKeeps ==
    ASSUME WriterInv, NEW t \in Threads, ClearSentinel(t)
    PROVE  WriterInv' /\ Moves(t)
<1> USE FileNames, FirstPlaces, IdleShape DEF WriterInv
<1>1. Moves(t)
  BY DEF Moves, Placed, OpPlaces, Shape, Threaded, ClearSentinel, At, Ends, ThreadStates, Ops,
     EarlyPlaces, OwnerPlaces, RebuildPlaces
<1>2. Shape'
  <2>1. sentinel' \in BOOLEAN
    BY DEF Shape, ClearSentinel
  <2> QED  BY <2>1, LifecycleAssumption DEF Shape, ClearSentinel, Fault, NoFault
<1>3. (OneHolderPerSlot /\ OneHolder /\ SlotIsShared)'
  BY <1>1, HoldersStay DEF Threaded, ThreadStates, ClearSentinel, At, Ends, Fault, NoFault,
     EarlyPlaces, OwnerPlaces, RebuildPlaces
<1>4. (ForgetIsOnRecord /\ UndoNeedsAFault)'
  BY <1>1, Moved DEF Shape, Threaded, ClearSentinel, At, Ends, Fault, NoFault, ThreadStates,
     ForgetIsOnRecord, UndoNeedsAFault
<1>5. (IndexIsRegistered /\ OrphanIsBeingHandled)'
  BY <1>1, Moved DEF Shape, Threaded, ClearSentinel, At, Ends, Fault, NoFault, ThreadStates,
     Placed, OneHolder, IndexIsRegistered, OrphanIsBeingHandled, OwnerPlaces, RebuildPlaces
<1> QED  BY <1>1, <1>2, <1>3, <1>4, <1>5, Moved

LEMMA UnregisterKeeps ==
    ASSUME WriterInv, NEW t \in Threads, Unregister(t)
    PROVE  WriterInv' /\ Moves(t)
<1> USE FileNames, FirstPlaces, IdleShape DEF WriterInv
<1>1. Moves(t)
  <2>1. PICK p \in {"delete", "dropslot"} : Goes(t, p)
    BY DEF Unregister
  <2>2. th[t].held = TRUE /\ th[t].i = 1 /\ th[t].op = "forget"
    BY DEF Threaded, Unregister, At, ThreadStates, Ops, Placed, OpPlaces, OwnerPlaces, RebuildPlaces
  <2>3. th'[t] \in ThreadStates
    BY <2>1 DEF Threaded, ThreadStates, OwnerPlaces, Goes
  <2>4. Now(t, p, "forget", th[t].slot, TRUE, 1, th[t].files)
    BY <2>1, <2>2 DEF Threaded, ThreadStates, Goes, Now
  <2>5. Placed(th'[t])
    BY <2>4 DEF Now, Placed, OpPlaces, EarlyPlaces, OwnerPlaces, RebuildPlaces
  <2> QED  BY <2>3, <2>4, <2>5 DEF Now, Moves
<1>2. Shape'
  <2>1. past' \subseteq {"forget", "keep", "overlap", "late"}
    BY DEF Shape, Unregister
  <2>2. registered' \in BOOLEAN
    BY DEF Unregister
  <2> QED  BY <2>1, <2>2 DEF Shape, Unregister
<1>3. (OneHolderPerSlot /\ OneHolder /\ SlotIsShared)'
  BY <1>1, HoldersStay DEF Threaded, ThreadStates, Unregister, At, Goes, EarlyPlaces,
     OwnerPlaces, RebuildPlaces
<1>4. (ForgetIsOnRecord /\ UndoNeedsAFault)'
  BY <1>1, Moved DEF Shape, Threaded, Unregister, At, Goes, ThreadStates, ForgetIsOnRecord,
     UndoNeedsAFault
<1>5. (IndexIsRegistered /\ OrphanIsBeingHandled)'
  <2>1. IndexIsRegistered'
    BY <1>1, Moved DEF IndexIsRegistered, OneHolder, Threaded, ThreadStates, Placed, Unregister,
       At, Goes, OwnerPlaces
  <2>2. CASE Goes(t, "delete")
    <3>1. th'[t].at = "delete" /\ th'[t].i = 1
      BY <2>2 DEF Threaded, ThreadStates, Placed, Unregister, At, Goes
    <3> QED  BY <2>1, <3>1 DEF OrphanIsBeingHandled, At
  <2>3. CASE "keep" \in past'
    BY <2>1, <2>3 DEF OrphanIsBeingHandled
  <2> QED  BY <2>2, <2>3 DEF Unregister
<1> QED  BY <1>1, <1>2, <1>3, <1>4, <1>5, Moved

LEMMA DeleteFileKeeps ==
    ASSUME WriterInv, NEW t \in Threads, DeleteFile(t)
    PROVE  WriterInv' /\ Moves(t)
<1> USE DEF WriterInv
<1>1. Moves(t) /\ Threaded' /\ \A u \in Threads \ {t} : th'[u] = th[u]
  BY DeleteFileMoves, Moved
<1>2. /\ UNCHANGED <<registered, slot, past>> /\ th[t].at = "delete"
      /\ faults' \in {faults, faults + 1}
  BY DEF DeleteFile, At, diskVars, Fault, NoFault
<1>3. /\ th'[t].at \in {"delete", "dropslot"} /\ th[t].i \in 1 .. 3
      /\ "forget" \in past
  BY <1>2, DeleteFileMoves DEF Now, ForgetIsOnRecord
<1>4. Shape'
  BY LifecycleAssumption, FileNames DEF Shape, DeleteFile, diskVars, Fault, NoFault
<1>5. (OneHolderPerSlot /\ OneHolder /\ SlotIsShared)'
  BY <1>1, <1>2, DeleteFileMoves, HoldersStay, IdleShape DEF Threaded, Now, EarlyPlaces,
     OwnerPlaces, RebuildPlaces
<1>6. (ForgetIsOnRecord /\ UndoNeedsAFault)'
  BY <1>1, <1>2, <1>3 DEF Shape, ForgetIsOnRecord, UndoNeedsAFault
<1>7. IndexIsRegistered'
  BY <1>1, <1>2, <1>3 DEF At, IndexIsRegistered
<1>8. OrphanIsBeingHandled'
  <2>1. \/ faults' > 0
        \/ /\ faults' = faults /\ (th[t].i = 1 => live'["db"] = 0)
           /\ live'["db"] \in {0, live["db"]}
    BY <1>3, DeleteNames, FileNames DEF Shape, DeleteFile, Fault, NoFault
  <2> QED  BY <1>1, <1>2, <2>1 DEF At, OrphanIsBeingHandled
<1> QED  BY <1>1, <1>4, <1>5, <1>6, <1>7, <1>8

LEMMA DropSlotKeeps ==
    ASSUME WriterInv, NEW t \in Threads, DropSlot(t)
    PROVE  WriterInv' /\ Moves(t)
<1> USE FileNames, FirstPlaces, IdleShape DEF WriterInv
<1>1. Moves(t)
  BY DEF Moves, Placed, OpPlaces, Shape, Threaded, DropSlot, At, Ends, ThreadStates, Ops,
     EarlyPlaces, OwnerPlaces, RebuildPlaces
<1>2. Shape'
  BY LifecycleAssumption DEF Shape, DropSlot, diskVars, At, Ends
<1>3. (OneHolderPerSlot /\ OneHolder /\ SlotIsShared)'
  <2>1. "forget" \in past /\ past' = past /\ th'[t].at = "idle"
    BY DEF DropSlot, At, Ends, ForgetIsOnRecord, Threaded
  <2> QED  BY <1>1, <2>1, HoldersStay DEF OwnerPlaces, RebuildPlaces
<1>4. (ForgetIsOnRecord /\ UndoNeedsAFault)'
  BY <1>1, Moved DEF Shape, Threaded, DropSlot, diskVars, At, Ends, ThreadStates,
     ForgetIsOnRecord, UndoNeedsAFault
<1>5. (IndexIsRegistered /\ OrphanIsBeingHandled)'
  BY <1>1, Moved DEF Shape, Threaded, DropSlot, diskVars, At, Ends, ThreadStates, Placed,
     OneHolder, IndexIsRegistered, OrphanIsBeingHandled, OwnerPlaces, RebuildPlaces
<1> QED  BY <1>1, <1>2, <1>3, <1>4, <1>5, Moved

LEMMA RecheckKeeps ==
    ASSUME WriterInv, NEW t \in Threads, Recheck(t)
    PROVE  WriterInv' /\ Moves(t)
<1> USE FileNames, FirstPlaces, IdleShape DEF WriterInv
<1>1. Moves(t)
  BY DEF Moves, Placed, OpPlaces, Shape, Threaded, Recheck, At, Goes, Ends, ThreadStates, Ops,
     EarlyPlaces, OwnerPlaces, RebuildPlaces
<1>2. Shape'
  BY LifecycleAssumption DEF Shape, Recheck, At, Goes, Ends
<1>3. (OneHolderPerSlot /\ OneHolder /\ SlotIsShared)'
  BY <1>1, HoldersStay DEF Threaded, ThreadStates, Recheck, At, Goes, Ends, EarlyPlaces,
     OwnerPlaces, RebuildPlaces
<1>4. (ForgetIsOnRecord /\ UndoNeedsAFault)'
  BY <1>1, Moved DEF Shape, Threaded, Recheck, At, Goes, Ends, ThreadStates, ForgetIsOnRecord,
     UndoNeedsAFault
<1>5. (IndexIsRegistered /\ OrphanIsBeingHandled)'
  BY <1>1, Moved DEF Shape, Threaded, Recheck, At, Goes, Ends, ThreadStates, Placed, OneHolder,
     IndexIsRegistered, OrphanIsBeingHandled, OwnerPlaces, RebuildPlaces
<1> QED  BY <1>1, <1>2, <1>3, <1>4, <1>5, Moved

LEMMA CollectKeeps ==
    ASSUME WriterInv, NEW t \in Threads, Collect(t)
    PROVE  WriterInv' /\ Moves(t)
<1> USE FileNames, FirstPlaces, IdleShape DEF WriterInv
<1>1. Moves(t)
  BY DEF Moves, Placed, OpPlaces, Shape, Threaded, Collect, At, Ends, ThreadStates, Ops,
     EarlyPlaces, OwnerPlaces, RebuildPlaces
<1>2. Shape'
  BY LifecycleAssumption DEF Shape, Collect, At, Ends, Fault, NoFault
<1>3. (OneHolderPerSlot /\ OneHolder /\ SlotIsShared)'
  BY <1>1, HoldersStay DEF Threaded, ThreadStates, Collect, At, Ends, Fault, NoFault,
     EarlyPlaces, OwnerPlaces, RebuildPlaces
<1>4. (ForgetIsOnRecord /\ UndoNeedsAFault)'
  BY <1>1, Moved DEF Shape, Threaded, Collect, At, Ends, Fault, NoFault, ThreadStates,
     ForgetIsOnRecord, UndoNeedsAFault
<1>5. (IndexIsRegistered /\ OrphanIsBeingHandled)'
  BY <1>1, Moved DEF Shape, Threaded, Collect, At, Ends, Fault, NoFault, ThreadStates, Placed,
     OneHolder, IndexIsRegistered, OrphanIsBeingHandled, OwnerPlaces, RebuildPlaces
<1> QED  BY <1>1, <1>2, <1>3, <1>4, <1>5, Moved

-----------------------------------------------------------------------------
(* The store is kept *)

IndInv == WriterInv /\ StoreIsKept

(* What StoreIsKept says of the only holder of a mutex. *)
Kept(t) ==
    /\ RebuildCanUndo(t)
    /\ th[t].at \in {"delete", "collect"} => newest = 0
    /\ newest # 0 /\ ~Replacing(t) => Whole \/ Remains

(* Nobody but the holder of the mutex is where the store is touched. *)
LEMMA OwnerIsAlone ==
    ASSUME Threaded, OneHolder, "overlap" \notin past, NEW t \in Threads,
           th[t].at \in OwnerPlaces
    PROVE  \A u \in Threads \ {t} : th[u].at \notin OwnerPlaces
BY DEF Threaded, OneHolder, Placed

(* A thread that has not begun to touch the store owes nothing.            *)
LEMMA ElsewhereNothing ==
    ASSUME NEW u \in Threads, th[u].at \notin OwnerPlaces
    PROVE  RebuildCanUndo(u) /\ ~Replacing(u) /\ th[u].at \notin {"delete", "collect"}
BY DEF RebuildCanUndo, Replacing, OwnerPlaces, RebuildPlaces, At

(* A step under the mutex concerns its holder alone. *)
LEMMA OwnerKeeps ==
    ASSUME IndInv, NEW t \in Threads, th[t].at \in OwnerPlaces, Moves(t),
           past \subseteq past', faults \in Nat, faults' \in Nat, faults <= faults',
           Kept(t) /\ faults' <= 1 => Kept(t)'
    PROVE  StoreIsKept'
<1> SUFFICES ASSUME faults' <= 1, "overlap" \notin past'
             PROVE  /\ \A u \in Threads : RebuildCanUndo(u)'
                    /\ \A u \in Threads : th'[u].at \in {"delete", "collect"} => newest' = 0
                    /\ newest' # 0 /\ (\A u \in Threads : ~Replacing(u)') => Whole' \/ Remains'
  BY DEF StoreIsKept
<1>1. faults <= 1 /\ "overlap" \notin past
  OBVIOUS
<1>2. \A u \in Threads \ {t} : th[u].at \notin OwnerPlaces /\ th'[u].at \notin OwnerPlaces
  BY <1>1, OwnerIsAlone, Moved DEF IndInv, WriterInv
<1>3. Kept(t)
  <2>1. \A u \in Threads \ {t} : ~Replacing(u)
    BY <1>2, ElsewhereNothing
  <2> QED  BY <1>1, <2>1 DEF IndInv, StoreIsKept, Kept
<1>4. Kept(t)'
  BY <1>3
<1>5. \A u \in Threads \ {t} : (RebuildCanUndo(u))' /\ th'[u].at \notin {"delete", "collect"}
  BY <1>2 DEF RebuildCanUndo, Replacing, OwnerPlaces, RebuildPlaces, At
<1> QED  BY <1>4, <1>5 DEF Kept

(* A step that leaves the disk alone, outside of a rebuild and of a removal. *)
Aside == {"idle", "reregister", "write", "unregister", "dropslot", "recheck", "mark"}
             \cup EarlyPlaces

(* A step that leaves the files alone.                                     *)
LEMMA AsideKeeps ==
    ASSUME IndInv, NEW t \in Threads, Moves(t), UNCHANGED diskVars, faults' = faults,
           past \subseteq past', th[t].at \in Aside, th'[t].at \in Aside,
           th'[t].op = "index" =>
               th'[t].at = "check" \/ ~sentinel \/ (th[t].op = "index" /\ th[t].at # "check")
    PROVE  StoreIsKept'
<1> SUFFICES ASSUME faults' <= 1, "overlap" \notin past'
             PROVE  /\ \A u \in Threads : RebuildCanUndo(u)'
                    /\ \A u \in Threads : th'[u].at \in {"delete", "collect"} => newest' = 0
                    /\ newest' # 0 /\ (\A u \in Threads : ~Replacing(u)') => Whole' \/ Remains'
  BY DEF StoreIsKept
<1>1. /\ \A u \in Threads : RebuildCanUndo(u)
      /\ \A u \in Threads : th[u].at \in {"delete", "collect"} => newest = 0
      /\ newest # 0 /\ (\A u \in Threads : ~Replacing(u)) => Whole \/ Remains
  BY DEF IndInv, StoreIsKept
<1>2. \A u \in Threads \ {t} : th'[u] = th[u]
  BY Moved DEF IndInv, WriterInv
<1>3. /\ (RebuildCanUndo(t))' /\ ~Replacing(t) /\ (~Replacing(t))'
      /\ th'[t].at \notin {"delete", "collect"}
  BY DEF RebuildCanUndo, Replacing, Aside, EarlyPlaces, At
<1>4. Remains => Remains'
  BY <1>2 DEF Remains, diskVars, At
<1>5. Whole => Whole'
  BY DEF Whole, diskVars
<1>6. ASSUME NEW u \in Threads \ {t}
      PROVE  (RebuildCanUndo(u))' /\ (Replacing(u)' <=> Replacing(u))
  <2>1. RebuildCanUndo(u)
    BY <1>1
  <2> QED  BY <1>2, <1>4, <2>1 DEF RebuildCanUndo, Replacing, At, diskVars, Whole, WholeStore,
              BehindWhole, RetiredWhole, Behind, Retired
<1> QED  BY <1>1, <1>2, <1>3, <1>4, <1>5, <1>6 DEF diskVars

(* The steps that do.                                                      *)
LEMMA AsideActions ==
    ASSUME IndInv, NEW t \in Threads, Moves(t),
           \/ Resolve(t) \/ ResolveGc(t) \/ ScanOrphans(t) \/ CheckSentinel(t) \/ LookupSlot(t)
           \/ CreateSlot(t) \/ AcquireWrite(t) \/ Reregister(t) \/ DropSlot(t)
    PROVE  StoreIsKept'
<1> USE IdleShape DEF At, Goes, Ends, Aside, EarlyPlaces
<1>1. Threaded /\ th[t] \in ThreadStates /\ Placed(th[t])
  BY DEF IndInv, WriterInv, Threaded
<1>2. CASE Resolve(t)
  BY <1>1, <1>2, AsideKeeps DEF Resolve, Threaded, ThreadStates
<1>3. CASE ResolveGc(t)
  BY <1>1, <1>3, AsideKeeps DEF ResolveGc, Threaded, ThreadStates
<1>4. CASE ScanOrphans(t)
  <2>1. /\ th'[t].at \in {"idle", "lookup"} /\ th'[t].op # "index"
        /\ th[t].at \in {"orphans", "strays"} /\ UNCHANGED <<diskVars, faults, past>>
    BY <1>1, <1>4, ScanOrphansMoves DEF ScanOrphans, Threaded, Now
  <2> QED  BY <2>1, AsideKeeps
<1>5. CASE CheckSentinel(t)
  BY <1>1, <1>5, AsideKeeps DEF CheckSentinel, Threaded, ThreadStates
<1>6. CASE LookupSlot(t)
  BY <1>1, <1>6, AsideKeeps DEF LookupSlot, Threaded, ThreadStates
<1>7. CASE CreateSlot(t)
  BY <1>1, <1>7, AsideKeeps DEF CreateSlot, Threaded, ThreadStates
<1>8. CASE AcquireWrite(t)
  <2>1. UNCHANGED <<diskVars, faults>> /\ th[t].at = "acquire"
    BY <1>8 DEF AcquireWrite
  <2>2. \/ th'[t].at = "idle" /\ th'[t].op = "none" /\ past' = past
        \/ /\ th'[t].at \in {"reregister", "mark", "unregister", "recheck"}
           /\ th'[t].op = th[t].op /\ past \subseteq past'
    BY <1>1, <1>8, AcquireWriteMoves DEF Threaded, Now
  <2> QED  BY <2>1, <2>2, AsideKeeps
<1>9. CASE Reregister(t)
  BY <1>1, <1>9, AsideKeeps DEF Reregister, Threaded, ThreadStates, Placed, OpPlaces, Ops,
     RebuildPlaces
<1>10. CASE DropSlot(t)
  BY <1>1, <1>10, AsideKeeps DEF DropSlot, Threaded, ThreadStates
<1> QED  BY <1>2, <1>3, <1>4, <1>5, <1>6, <1>7, <1>8, <1>9, <1>10

(* The reduction to the holder, for an action of it. *)
LEMMA UnderMutex ==
    ASSUME IndInv, NEW t \in Threads, Shape', Moves(t), th[t].at \in OwnerPlaces,
           past \subseteq past', faults' = faults \/ faults' = faults + 1,
           ASSUME Kept(t), faults' <= 1 PROVE Kept(t)'
    PROVE  StoreIsKept'
<1>1. faults \in Nat /\ faults' \in Nat /\ faults <= faults'
  BY LifecycleAssumption DEF IndInv, WriterInv, Shape
<1> QED  BY <1>1, OwnerKeeps

(* The steps that write the store, the sentinel or the registration, each  *)
(* under the mutex of its slot.                                            *)
LEMMA IndexKeepsStore ==
    ASSUME IndInv, NEW t \in Threads, Shape', Moves(t), Index(t)
    PROVE  StoreIsKept'
<1> USE FileNames, IdleShape DEF At
<1>1. Shape /\ Threaded /\ th[t] \in ThreadStates /\ Placed(th[t]) /\ UndoNeedsAFault
  BY DEF IndInv, WriterInv, Threaded
<1>2. th[t].at \in OwnerPlaces
  BY DEF Index, OwnerPlaces, RebuildPlaces
<1>3. past \subseteq past' /\ (faults' = faults \/ faults' = faults + 1)
  BY <1>1 DEF Shape, Index, Fault, NoFault
<1>4. ASSUME Kept(t), faults' <= 1
      PROVE  Kept(t)'
  BY <1>1, <1>4, LifecycleAssumption DEF Index, At, Ends, OpenOrCreate, Kept, RebuildCanUndo,
     Replacing, Remains, Whole, WholeStore, BehindWhole, RetiredWhole, Behind, Retired, Shape,
     Threaded, ThreadStates, Placed, UndoNeedsAFault
<1> QED  BY <1>2, <1>3, <1>4, UnderMutex

LEMMA MarkKeepsStore ==
    ASSUME IndInv, NEW t \in Threads, Shape', Moves(t), Mark(t)
    PROVE  StoreIsKept'
<1> USE FileNames, IdleShape DEF At
<1>1. Shape /\ Threaded /\ th[t] \in ThreadStates /\ Placed(th[t]) /\ UndoNeedsAFault
  BY DEF IndInv, WriterInv, Threaded
<1>2. th[t].at \in OwnerPlaces
  BY DEF Mark, OwnerPlaces, RebuildPlaces
<1>3. past \subseteq past' /\ (faults' = faults \/ faults' = faults + 1)
  BY <1>1 DEF Shape, Mark, Fault, NoFault
<1>4. ASSUME Kept(t), faults' <= 1
      PROVE  Kept(t)'
  <2>1. newest # 0 => Whole \/ Remains
    BY <1>4 DEF Mark, Kept, Replacing
  <2>2. newest' = newest /\ (Whole => Whole')
    BY DEF Mark, Whole
  <2>3. CASE sentinel' = TRUE /\ Goes(t, "retire") /\ NoFault
    <3>1. /\ th'[t].at = "retire" /\ th'[t].i = 1 /\ th'[t].files = {} /\ sentinel'
          /\ th'[t].op = "rebuild"
      BY <1>1, <2>3 DEF Goes, Mark, Threaded, ThreadStates, Placed, OpPlaces, Ops, EarlyPlaces
    <3>2. Remains => Remains'
      BY <1>1, <2>3, <3>1, Moved DEF Remains, NoFault, Threaded
    <3>3. (Whole => BehindWhole(t))'
      BY <3>1 DEF Whole, BehindWhole, WholeStore, Behind
    <3> QED  BY <2>1, <2>2, <3>1, <3>2, <3>3 DEF Kept, RebuildCanUndo, Replacing
  <2>4. CASE Ends(t) /\ Fault
    <3>1. th'[t].at = "idle" /\ faults = 0
      BY <1>1, <1>4, <2>4 DEF Ends, Fault, Threaded, Shape
    <3>2. newest # 0 => Whole'
      BY <2>1, <2>2, <3>1 DEF Remains
    <3> QED  BY <2>2, <3>1, <3>2 DEF Kept, RebuildCanUndo, Replacing
  <2> QED  BY <2>3, <2>4 DEF Mark
<1> QED  BY <1>2, <1>3, <1>4, UnderMutex

LEMMA RetireKeepsStore ==
    ASSUME IndInv, NEW t \in Threads, Shape', Moves(t), Retire(t)
    PROVE  StoreIsKept'
<1> DEFINE f == Order[th[t].i]
<1>1. Shape /\ Threaded /\ UndoNeedsAFault
  BY DEF IndInv, WriterInv
<1>2. /\ UNCHANGED <<sentinel, needsWal, newest, past>> /\ th[t].at = "retire"
      /\ \A u \in Threads \ {t} : th'[u] = th[u]
  BY <1>1, Moved DEF Retire, At
<1>3. th[t].i \in 1 .. 4 /\ (faults' = faults \/ faults' = faults + 1)
  BY <1>1, RetireMoves DEF Fault, NoFault
<1>4. ASSUME Kept(t), faults' <= 1
      PROVE  Kept(t)'
  <2>1. /\ sentinel
        /\ \A j \in 1 .. 3 : j < th[t].i => live[Order[j]] = 0
        /\ th[t].files \subseteq {Order[j] : j \in 1 .. th[t].i - 1}
        /\ newest # 0 => BehindWhole(t) \/ Remains
    BY <1>2, <1>4 DEF Kept, RebuildCanUndo, Replacing, At
  <2>2. CASE /\ Now(t, "reindex", "rebuild", th[t].slot, TRUE, th[t].i, th[t].files)
             /\ NoFault /\ th[t].i = 4 /\ UNCHANGED <<live, staged>>  \* everything is aside
    <3>1. th'[t].files = th[t].files /\ th'[t].at = "reindex" /\ th'[t].op = "rebuild"
      BY <2>2 DEF Now
    <3>2. \A g \in Files : live[g] = 0
      BY <2>1, <2>2, FileNames
    <3>3. BehindWhole(t) => RetiredWhole(t)'
      BY <1>2, <2>2, <3>1, <3>2, FileNames
         DEF BehindWhole, RetiredWhole, Behind, Retired, WholeStore
    <3>4. Remains => Remains'
      BY <1>2, <2>2, <3>1 DEF Remains, NoFault, At
    <3> QED  BY <1>2, <2>1, <2>2, <3>1, <3>2, <3>3, <3>4 DEF Kept, RebuildCanUndo, Replacing, At
  <2>3. CASE /\ Now(t, "retire", "rebuild", th[t].slot, TRUE, th[t].i + 1, th'[t].files)
             /\ NoFault /\ th[t].i < 4
             /\ \/ live[f] # 0 /\ MoveAside(f) /\ th'[t].files = th[t].files \cup {f}
                \/ live[f] = 0 /\ UNCHANGED <<live, staged>> /\ th'[t].files = th[t].files
    <3>1. /\ th'[t].at = "retire" /\ th'[t].op = "rebuild" /\ th'[t].i = th[t].i + 1
          /\ th[t].i \in 1 .. 3 /\ f \in Files
      BY <1>3, <2>3, FileNames DEF Now
    <3>2. \A g \in Files : Behind(t, g)' = Behind(t, g)
      BY <1>1, <2>1, <2>3, <3>1 DEF MoveAside, Shape, Behind
    <3>3. BehindWhole(t) => BehindWhole(t)'
      BY <1>2, <3>2, FileNames DEF BehindWhole, WholeStore
    <3>4. Remains => Remains'
      BY <1>2, <2>3, <3>1 DEF Remains, NoFault, At
    <3>5. \A j \in 1 .. 3 : j < th'[t].i => live'[Order[j]] = 0
      BY <1>1, <2>1, <2>3, <3>1, FileNames DEF MoveAside, Shape
    <3>6. th'[t].files \subseteq {Order[j] : j \in 1 .. th'[t].i - 1}
      BY <2>1, <2>3, <3>1
    <3> QED  BY <1>2, <2>1, <3>1, <3>3, <3>4, <3>5, <3>6 DEF Kept, RebuildCanUndo, Replacing, At
  <2>4. CASE /\ Now(t, "rollback", "rebuild", th[t].slot, TRUE, th[t].i, th[t].files)
             /\ Fault /\ UNCHANGED <<live, staged>>  \* the first fault: these are no remains
    <3>1. faults = 0 /\ th'[t].files = th[t].files /\ th'[t].at = "rollback"
      BY <1>1, <1>4, <2>4 DEF Now, Fault, Shape
    <3>2. newest # 0 => BehindWhole(t)
      BY <2>1, <3>1 DEF Remains
    <3>3. \A g \in Files : Behind(t, g)' = Behind(t, g)
      BY <2>4, <3>1 DEF Behind
    <3>4. BehindWhole(t) => BehindWhole(t)'
      BY <1>2, <3>3, FileNames DEF BehindWhole, WholeStore
    <3> QED  BY <1>2, <2>1, <3>1, <3>2, <3>4 DEF Kept, RebuildCanUndo, Replacing, At
  <2> QED  BY <1>1, <2>2, <2>3, <2>4, RetireMoves, Zenon
<1> QED  BY <1>2, <1>3, <1>4, UnderMutex DEF OwnerPlaces, RebuildPlaces

LEMMA RollbackKeepsStore ==
    ASSUME IndInv, NEW t \in Threads, Shape', Moves(t), Rollback(t)
    PROVE  StoreIsKept'
<1> USE FileNames, IdleShape DEF At
<1>1. Shape /\ Threaded /\ th[t] \in ThreadStates /\ Placed(th[t]) /\ UndoNeedsAFault
  BY DEF IndInv, WriterInv, Threaded
<1>2. th[t].at \in OwnerPlaces
  BY DEF Rollback, OwnerPlaces, RebuildPlaces
<1>3. past \subseteq past' /\ (faults' = faults \/ faults' = faults + 1)
  BY <1>1 DEF Shape, Rollback, Fault, NoFault
<1>4. ASSUME Kept(t), faults' <= 1
      PROVE  Kept(t)'
  BY <1>1, <1>4, LifecycleAssumption DEF Rollback, At, Goes, Fault, NoFault, MoveBack, Kept,
     RebuildCanUndo, Replacing, Remains, Whole, WholeStore, BehindWhole, RetiredWhole, Behind,
     Retired, Shape, Threaded, ThreadStates, Placed, UndoNeedsAFault
<1> QED  BY <1>2, <1>3, <1>4, UnderMutex

LEMMA ReindexKeepsStore ==
    ASSUME IndInv, NEW t \in Threads, Shape', Moves(t), Reindex(t)
    PROVE  StoreIsKept'
<1> USE FileNames, IdleShape DEF At
<1>1. Shape /\ Threaded /\ th[t] \in ThreadStates /\ Placed(th[t]) /\ UndoNeedsAFault
  BY DEF IndInv, WriterInv, Threaded
<1>2. th[t].at \in OwnerPlaces
  BY DEF Reindex, OwnerPlaces, RebuildPlaces
<1>3. past \subseteq past' /\ (faults' = faults \/ faults' = faults + 1)
  BY <1>1 DEF Shape, Reindex, Fault, NoFault
<1>4. ASSUME Kept(t), faults' <= 1
      PROVE  Kept(t)'
  <2>1. /\ sentinel /\ live["db"] = 0
        /\ newest # 0 => RetiredWhole(t) \/ Remains
    BY <1>4 DEF Reindex, Kept, RebuildCanUndo, Replacing
  <2>2. /\ th'[t].at = "building" /\ th'[t].files = th[t].files /\ th'[t].op = th[t].op
        /\ UNCHANGED <<staged, sentinel, newest, faults>>
    BY <1>1 DEF Reindex, Goes, Threaded, ThreadStates
  <2>3. newest \in needsWal' <=> newest \in needsWal  \* the version is new
    BY <1>1, <2>1 DEF Reindex, OpenOrCreate, Shape
  <2>4. (newest # 0 => RetiredWhole(t) \/ Remains)'
    BY <1>1, <2>1, <2>2, <2>3, Moved DEF RetiredWhole, Retired, WholeStore, Remains, Reindex
  <2>5. (live["wal"] \in {0, live["db"]} /\ (live["db"] \in needsWal => live["wal"] = live["db"]))'
    BY <1>1, <2>1 DEF Reindex, OpenOrCreate, Shape
  <2> QED  BY <2>1, <2>2, <2>4, <2>5 DEF Kept, RebuildCanUndo, Replacing
<1> QED  BY <1>2, <1>3, <1>4, UnderMutex

LEMMA CommitKeepsStore ==
    ASSUME IndInv, NEW t \in Threads, Shape', Moves(t), Commit(t)
    PROVE  StoreIsKept'
<1> USE FileNames, IdleShape DEF At
<1>1. Shape /\ Threaded /\ th[t] \in ThreadStates /\ Placed(th[t]) /\ UndoNeedsAFault
  BY DEF IndInv, WriterInv, Threaded
<1>2. th[t].at \in OwnerPlaces
  BY DEF Commit, OwnerPlaces, RebuildPlaces
<1>3. past \subseteq past' /\ (faults' = faults \/ faults' = faults + 1)
  BY <1>1 DEF Shape, Commit, Fault, NoFault
<1>4. ASSUME Kept(t), faults' <= 1
      PROVE  Kept(t)'
  BY <1>1, <1>4, LifecycleAssumption DEF Commit, At, Goes, Kept, RebuildCanUndo, Replacing,
     Remains, Whole, WholeStore, BehindWhole, RetiredWhole, Behind, Retired, Shape, Threaded,
     ThreadStates, Placed, UndoNeedsAFault
<1> QED  BY <1>2, <1>3, <1>4, UnderMutex

LEMMA ReindexFailsKeepsStore ==
    ASSUME IndInv, NEW t \in Threads, Shape', Moves(t), ReindexFails(t)
    PROVE  StoreIsKept'
<1> USE FileNames, IdleShape DEF At
<1>1. Shape /\ Threaded /\ th[t] \in ThreadStates /\ Placed(th[t]) /\ UndoNeedsAFault
  BY DEF IndInv, WriterInv, Threaded
<1>2. th[t].at \in OwnerPlaces
  BY DEF ReindexFails, OwnerPlaces, RebuildPlaces
<1>3. past \subseteq past' /\ (faults' = faults \/ faults' = faults + 1)
  BY <1>1 DEF Shape, ReindexFails, Fault, NoFault
<1>4. ASSUME Kept(t), faults' <= 1
      PROVE  Kept(t)'
  <2>1. faults = 0 /\ UNCHANGED <<live, staged, sentinel, needsWal, newest>>
    BY <1>1, <1>4 DEF ReindexFails, Fault, Shape, diskVars
  <2>2. th'[t].at = "wipe" /\ th'[t].i = 1 /\ th'[t].files = th[t].files
    BY <1>1 DEF ReindexFails, Threaded, ThreadStates
  <2>3. sentinel /\ (newest # 0 => RetiredWhole(t))
    BY <1>4, <2>1 DEF ReindexFails, Kept, RebuildCanUndo, Replacing, Remains
  <2>4. sentinel' /\ (newest' # 0 => RetiredWhole(t)')
    BY <2>1, <2>2, <2>3 DEF RetiredWhole, WholeStore, Retired
  <2> QED  BY <2>2, <2>4 DEF Kept, RebuildCanUndo, Replacing
<1> QED  BY <1>2, <1>3, <1>4, UnderMutex

LEMMA DiscardKeepsStore ==
    ASSUME IndInv, NEW t \in Threads, Shape', Moves(t), Discard(t)
    PROVE  StoreIsKept'
<1> USE FileNames, IdleShape DEF At
<1>1. Shape /\ Threaded /\ th[t] \in ThreadStates /\ Placed(th[t]) /\ UndoNeedsAFault
  BY DEF IndInv, WriterInv, Threaded
<1>2. th[t].at \in OwnerPlaces
  BY DEF Discard, OwnerPlaces, RebuildPlaces
<1>3. past \subseteq past' /\ (faults' = faults \/ faults' = faults + 1)
  BY <1>1 DEF Shape, Discard, Fault, NoFault
<1>4. ASSUME Kept(t), faults' <= 1
      PROVE  Kept(t)'
  BY <1>1, <1>4, LifecycleAssumption DEF Discard, At, Goes, Fault, NoFault, Kept,
     RebuildCanUndo, Replacing, Remains, Whole, WholeStore, BehindWhole, RetiredWhole, Behind,
     Retired, Shape, Threaded, ThreadStates, Placed, UndoNeedsAFault
<1> QED  BY <1>2, <1>3, <1>4, UnderMutex

LEMMA WipeKeepsStore ==
    ASSUME IndInv, NEW t \in Threads, Shape', Moves(t), Wipe(t)
    PROVE  StoreIsKept'
<1>1. Shape /\ Threaded /\ UndoNeedsAFault
  BY DEF IndInv, WriterInv
<1>2. UNCHANGED <<staged, sentinel, needsWal, newest, past>> /\ th[t].at = "wipe"
  BY DEF Wipe, At
<1>3. th[t].i \in 1 .. 4 /\ (faults' = faults \/ faults' = faults + 1)
  BY <1>1, WipeMoves DEF Fault, NoFault
<1>4. ASSUME Kept(t), faults' <= 1
      PROVE  Kept(t)'
  <2>1. /\ sentinel
        /\ \A j \in 1 .. 3 : j < th[t].i => live[Order[j]] = 0
        /\ newest # 0 => RetiredWhole(t)
    BY <1>2, <1>4 DEF Kept, RebuildCanUndo, Replacing, At
  <2>2. faults' = faults /\ faults = 1
    BY <1>1, <1>2, <1>3, <1>4 DEF UndoNeedsAFault, Shape
  <2>3. CASE /\ Now(t, "wipe", "rebuild", th[t].slot, TRUE, th[t].i + 1, th[t].files)
             /\ NoFault /\ th[t].i < 4 /\ live' = [live EXCEPT ![Order[th[t].i]] = 0]
    <3>1. /\ th'[t].at = "wipe" /\ th'[t].i = th[t].i + 1 /\ th'[t].files = th[t].files
          /\ th[t].i \in 1 .. 3
      BY <1>3, <2>3 DEF Now
    <3>2. \A j \in 1 .. 3 : j < th'[t].i => live'[Order[j]] = 0
      BY <1>1, <2>1, <2>3, <3>1, FileNames DEF Shape
    <3>3. newest # 0 => RetiredWhole(t)'
      <4>1. Retired(t, "wal")' = Retired(t, "wal") /\ Retired(t, "db")' = Retired(t, "db")
        BY <1>2, <3>1 DEF Retired
      <4>2. RetiredWhole(t) => RetiredWhole(t)'
        BY <1>2, <4>1 DEF RetiredWhole, WholeStore
      <4> QED  BY <2>1, <4>2
    <3> QED  BY <1>2, <2>1, <3>1, <3>2, <3>3 DEF Kept, RebuildCanUndo, Replacing, At
  <2>4. CASE /\ Now(t, "restore", "rebuild", th[t].slot, TRUE, 1, th[t].files)
             /\ NoFault /\ th[t].i = 4 /\ UNCHANGED live
    <3>1. th'[t].at = "restore" /\ th'[t].i = 1 /\ th'[t].files = th[t].files
      BY <2>4 DEF Now
    <3>2. \A j \in 1 .. 3 : live'[Order[j]] = 0
      BY <2>1, <2>4
    <3>3. newest # 0 => RetiredWhole(t)'
      <4>1. Retired(t, "wal")' = Retired(t, "wal") /\ Retired(t, "db")' = Retired(t, "db")
        BY <1>2, <3>1 DEF Retired
      <4>2. RetiredWhole(t) => RetiredWhole(t)'
        BY <1>2, <4>1 DEF RetiredWhole, WholeStore
      <4> QED  BY <2>1, <4>2
    <3> QED  BY <1>2, <2>1, <3>1, <3>2, <3>3 DEF Kept, RebuildCanUndo, Replacing, RetiredWhole, At
  <2>5. ~Fault
    BY <1>1, <2>2 DEF Fault, Shape
  <2> QED  BY <1>1, <2>3, <2>4, <2>5, WipeMoves, Zenon
<1> QED  BY <1>2, <1>3, <1>4, UnderMutex DEF OwnerPlaces, RebuildPlaces

LEMMA RestoreKeepsStore ==
    ASSUME IndInv, NEW t \in Threads, Shape', Moves(t), Restore(t)
    PROVE  StoreIsKept'
<1> USE FileNames, IdleShape DEF At
<1>1. Shape /\ Threaded /\ th[t] \in ThreadStates /\ Placed(th[t]) /\ UndoNeedsAFault
  BY DEF IndInv, WriterInv, Threaded
<1>2. th[t].at \in OwnerPlaces
  BY DEF Restore, OwnerPlaces, RebuildPlaces
<1>3. past \subseteq past' /\ (faults' = faults \/ faults' = faults + 1)
  BY <1>1 DEF Shape, Restore, Fault, NoFault
<1>4. ASSUME Kept(t), faults' <= 1
      PROVE  Kept(t)'
  <2> DEFINE Wal == IF th[t].i > 1 THEN live["wal"] ELSE Retired(t, "wal")
             Db == IF th[t].i > 2 THEN live["db"] ELSE Retired(t, "db")
  <2>1. /\ sentinel /\ th[t].i \in 1 .. 4
        /\ \A j \in 1 .. 3 : j >= th[t].i => live[Order[j]] = 0
        /\ newest # 0 => WholeStore(Wal, Db)
    BY <1>1, <1>4 DEF Restore, Kept, RebuildCanUndo, Replacing, Placed
  <2>2. NoFault  \* the fault was the one that led here
    BY <1>1, <1>4 DEF Restore, Fault, UndoNeedsAFault, Shape
  <2>3. CASE th[t].i > Len(Order) /\ Goes(t, "clear") /\ UNCHANGED <<live, staged>>
    <3>1. th'[t].at = "clear" /\ (newest # 0 => Whole)'
      BY <1>1, <2>1, <2>3 DEF Restore, Goes, Threaded, ThreadStates, WholeStore, Whole
    <3> QED  BY <3>1 DEF Kept, RebuildCanUndo, Replacing
  <2>4. CASE /\ th[t].i <= Len(Order) /\ th' = [th EXCEPT ![t].i = @ + 1]
             /\ IF Order[th[t].i] \in th[t].files
                THEN MoveBack(Order[th[t].i]) ELSE UNCHANGED <<live, staged>>
    <3>1. th'[t].at = "restore" /\ th'[t].i = th[t].i + 1 /\ th'[t].files = th[t].files
      BY <1>1, <2>4 DEF Restore, Threaded, ThreadStates
    <3>2. \A j \in 1 .. 3 : j >= th'[t].i => live'[Order[j]] = 0
      BY <1>1, <2>1, <2>4, <3>1 DEF MoveBack, Shape
    <3>3. Wal' = Wal /\ Db' = Db
      BY <1>1, <2>1, <2>4, <3>1 DEF MoveBack, Shape, Retired
    <3>4. (newest # 0 => WholeStore(Wal, Db))'
      BY <2>1, <3>3 DEF Restore, WholeStore
    <3> QED  BY <2>1, <3>1, <3>2, <3>4 DEF Restore, Kept, RebuildCanUndo, Replacing
  <2> QED  BY <1>1, <2>2, <2>3, <2>4 DEF Restore, Fault, NoFault, Shape
<1> QED  BY <1>2, <1>3, <1>4, UnderMutex

LEMMA ClearSentinelKeepsStore ==
    ASSUME IndInv, NEW t \in Threads, Shape', Moves(t), ClearSentinel(t)
    PROVE  StoreIsKept'
<1> USE FileNames, IdleShape DEF At
<1>1. Shape /\ Threaded /\ th[t] \in ThreadStates /\ Placed(th[t]) /\ UndoNeedsAFault
  BY DEF IndInv, WriterInv, Threaded
<1>2. th[t].at \in OwnerPlaces
  BY DEF ClearSentinel, OwnerPlaces, RebuildPlaces
<1>3. past \subseteq past' /\ (faults' = faults \/ faults' = faults + 1)
  BY <1>1 DEF Shape, ClearSentinel, Fault, NoFault
<1>4. ASSUME Kept(t), faults' <= 1
      PROVE  Kept(t)'
  BY <1>1, <1>4, LifecycleAssumption DEF ClearSentinel, At, Ends, Fault, NoFault, Kept,
     RebuildCanUndo, Replacing, Remains, Whole, WholeStore, BehindWhole, RetiredWhole, Behind,
     Retired, Shape, Threaded, ThreadStates, Placed, UndoNeedsAFault
<1> QED  BY <1>2, <1>3, <1>4, UnderMutex

LEMMA UnregisterKeepsStore ==
    ASSUME IndInv, NEW t \in Threads, Shape', Moves(t), Unregister(t)
    PROVE  StoreIsKept'
<1> USE FileNames, IdleShape DEF At
<1>1. Shape /\ Threaded /\ th[t] \in ThreadStates /\ Placed(th[t]) /\ UndoNeedsAFault
  BY DEF IndInv, WriterInv, Threaded
<1>2. th[t].at \in OwnerPlaces
  BY DEF Unregister, OwnerPlaces, RebuildPlaces
<1>3. past \subseteq past' /\ (faults' = faults \/ faults' = faults + 1)
  BY <1>1 DEF Shape, Unregister, Fault, NoFault
<1>4. ASSUME Kept(t), faults' <= 1
      PROVE  Kept(t)'
  BY <1>1, <1>4, LifecycleAssumption DEF Unregister, At, Goes, Kept, RebuildCanUndo, Replacing,
     Remains, Whole, WholeStore, BehindWhole, RetiredWhole, Behind, Retired, Shape, Threaded,
     ThreadStates, Placed, UndoNeedsAFault
<1> QED  BY <1>2, <1>3, <1>4, UnderMutex

LEMMA DeleteFileKeepsStore ==
    ASSUME IndInv, NEW t \in Threads, Shape', Moves(t), DeleteFile(t)
    PROVE  StoreIsKept'
<1> USE FileNames, IdleShape DEF At
<1>1. Shape /\ Threaded /\ th[t] \in ThreadStates /\ Placed(th[t]) /\ UndoNeedsAFault
  BY DEF IndInv, WriterInv, Threaded
<1>2. th[t].at \in OwnerPlaces
  BY DEF DeleteFile, OwnerPlaces, RebuildPlaces
<1>3. past \subseteq past' /\ (faults' = faults \/ faults' = faults + 1)
  BY <1>1 DEF Shape, DeleteFile, Fault, NoFault
<1>4. ASSUME Kept(t), faults' <= 1
      PROVE  Kept(t)'
  BY <1>1, <1>4, LifecycleAssumption DEF DeleteFile, At, Fault, NoFault, Kept, RebuildCanUndo,
     Replacing, Remains, Whole, WholeStore, BehindWhole, RetiredWhole, Behind, Retired, Shape,
     Threaded, ThreadStates, Placed, UndoNeedsAFault
<1> QED  BY <1>2, <1>3, <1>4, UnderMutex

LEMMA RecheckKeepsStore ==
    ASSUME IndInv, NEW t \in Threads, Shape', Moves(t), Recheck(t)
    PROVE  StoreIsKept'
<1> USE FileNames, IdleShape DEF At
<1>1. Shape /\ Threaded /\ th[t] \in ThreadStates /\ Placed(th[t]) /\ UndoNeedsAFault
  BY DEF IndInv, WriterInv, Threaded
<1>2. th[t].at \in OwnerPlaces
  BY DEF Recheck, OwnerPlaces, RebuildPlaces
<1>3. past \subseteq past' /\ (faults' = faults \/ faults' = faults + 1)
  BY <1>1 DEF Shape, Recheck, Fault, NoFault
<1>4. ASSUME Kept(t), faults' <= 1
      PROVE  Kept(t)'
  <2>1. CASE Ends(t) /\ newest' = newest
    <3>1. th'[t].at = "idle" /\ th'[t].op = "none"
      BY <1>1, <2>1 DEF Ends, Threaded
    <3>2. newest # 0 => Whole \/ Remains
      BY <1>4 DEF Recheck, Kept, Replacing
    <3>3. (Whole => Whole') /\ (Remains => Remains')
      BY <2>1, <3>1, Moved, <1>1 DEF Recheck, Whole, Remains
    <3> QED  BY <2>1, <3>1, <3>2, <3>3 DEF Kept, RebuildCanUndo, Replacing
  <2>2. CASE Goes(t, "collect") /\ newest' = 0
    <3>1. th'[t].at = "collect"
      BY <1>1, <2>2 DEF Goes, Threaded, ThreadStates
    <3> QED  BY <2>2, <3>1 DEF Kept, RebuildCanUndo, Replacing
  <2> QED  BY <2>1, <2>2 DEF Recheck
<1> QED  BY <1>2, <1>3, <1>4, UnderMutex

LEMMA CollectKeepsStore ==
    ASSUME IndInv, NEW t \in Threads, Shape', Moves(t), Collect(t)
    PROVE  StoreIsKept'
<1> USE FileNames, IdleShape DEF At
<1>1. Shape /\ Threaded /\ th[t] \in ThreadStates /\ Placed(th[t]) /\ UndoNeedsAFault
  BY DEF IndInv, WriterInv, Threaded
<1>2. th[t].at \in OwnerPlaces
  BY DEF Collect, OwnerPlaces, RebuildPlaces
<1>3. past \subseteq past' /\ (faults' = faults \/ faults' = faults + 1)
  BY <1>1 DEF Shape, Collect, Fault, NoFault
<1>4. ASSUME Kept(t), faults' <= 1
      PROVE  Kept(t)'
  BY <1>1, <1>4, LifecycleAssumption DEF Collect, At, Ends, Fault, NoFault, Kept,
     RebuildCanUndo, Replacing, Remains, Whole, WholeStore, BehindWhole, RetiredWhole, Behind,
     Retired, Shape, Threaded, ThreadStates, Placed, UndoNeedsAFault
<1> QED  BY <1>2, <1>3, <1>4, UnderMutex

-----------------------------------------------------------------------------
(* A crash, and every other step *)

LEMMA CrashKeeps ==
    ASSUME IndInv, Crash
    PROVE  IndInv'
<1> USE IdleShape DEF IndInv, WriterInv, Crash, diskVars
<1>1. /\ \A u \in Threads : th'[u] = Idle
      /\ faults' > 0 /\ UNCHANGED <<live, staged, sentinel, needsWal, newest>>
  BY LifecycleAssumption DEF Fault, Shape
<1>2. Shape'
  BY LifecycleAssumption DEF Shape, Fault
<1>3. Threaded'
  BY <1>1 DEF Threaded
<1>4. (OneHolderPerSlot /\ OneHolder /\ SlotIsShared /\ ForgetIsOnRecord /\ UndoNeedsAFault)'
  BY <1>1 DEF OneHolderPerSlot, OneHolder, SlotIsShared, ForgetIsOnRecord, UndoNeedsAFault,
     OwnerPlaces, RebuildPlaces
<1>5. (IndexIsRegistered /\ OrphanIsBeingHandled)'
  BY <1>1 DEF IndexIsRegistered, OrphanIsBeingHandled, At
<1>6. StoreIsKept'
  <2>1. SUFFICES ASSUME faults' <= 1, "overlap" \notin past
                 PROVE  newest # 0 => Whole' \/ Remains'
    BY <1>1 DEF StoreIsKept, RebuildCanUndo, Replacing, At
  <2>2. faults = 0 /\ faults' = 1
    BY <2>1 DEF Fault, Shape
  <2>3. ASSUME NEW u \in Threads, Replacing(u)
        PROVE  Remains'
    BY <1>1, <2>1, <2>2, <2>3 DEF StoreIsKept, RebuildCanUndo, Remains
  <2>4. ASSUME \A u \in Threads : ~Replacing(u), newest # 0
        PROVE  Whole'
    BY <1>1, <2>1, <2>2, <2>4 DEF StoreIsKept, Remains, Whole
  <2> QED  BY <2>3, <2>4
<1> QED  BY <1>2, <1>3, <1>4, <1>5, <1>6

(* The first daemon starts on an empty directory.                          *)
LEMMA InitHolds ==
    ASSUME Init
    PROVE  IndInv
<1> USE FileNames, IdleShape DEF IndInv, WriterInv, Init
<1>1. \A u \in Threads : th[u] = Idle
  OBVIOUS
<1>2. Shape
  <2>1. made.version = 1 /\ made.slot = 0 /\ made \in [version : Nat, slot : Nat]
    OBVIOUS
  <2>2. live \in [Files -> 0 .. 1] /\ needsWal \subseteq 1 .. 1
    OBVIOUS
  <2>3. staged \in [Files -> 0 .. 1]
    BY DEF Absent
  <2>4. ops \in 0 .. MaxOps /\ faults \in 0 .. MaxFaults /\ newest \in 0 .. 1 /\ slot \in 0 .. 0
    BY LifecycleAssumption
  <2> QED  BY <2>1, <2>2, <2>3, <2>4 DEF Shape
<1>3. Threaded
  BY <1>1 DEF Threaded
<1>4. OneHolderPerSlot /\ OneHolder /\ SlotIsShared /\ ForgetIsOnRecord /\ UndoNeedsAFault
  BY <1>1 DEF OneHolderPerSlot, OneHolder, SlotIsShared, ForgetIsOnRecord, UndoNeedsAFault,
     OwnerPlaces, RebuildPlaces
<1>5. IndexIsRegistered /\ OrphanIsBeingHandled
  BY <1>1 DEF IndexIsRegistered, OrphanIsBeingHandled, At
<1>6. Whole
  BY DEF Whole
<1>7. StoreIsKept
  BY <1>1, <1>6 DEF StoreIsKept, RebuildCanUndo, Replacing, At
<1> QED  BY <1>2, <1>3, <1>4, <1>5, <1>7

(* Every step of a handler, on WriterInv ...                               *)
LEMMA StepMoves ==
    ASSUME WriterInv, NEW t \in Threads, Step(t)
    PROVE  WriterInv' /\ Moves(t)
BY ResolveKeeps, CheckSentinelKeeps, LookupSlotKeeps, CreateSlotKeeps, AcquireWriteKeeps,
   ReregisterKeeps, IndexKeeps, MarkKeeps, RetireKeeps, RollbackKeeps, ReindexKeeps,
   CommitKeeps, ReindexFailsKeeps, DiscardKeeps, WipeKeeps, RestoreKeeps,
   ClearSentinelKeeps, UnregisterKeeps, DeleteFileKeeps, DropSlotKeeps, ResolveGcKeeps,
   ScanOrphansKeeps, RecheckKeeps, CollectKeeps
   DEF Step

(* ... and, with the crash, on the whole invariant.                        *)
LEMMA NextKeeps ==
    ASSUME IndInv, Next
    PROVE  IndInv'
<1>1. CASE Crash
  BY <1>1, CrashKeeps
<1>2. ASSUME NEW t \in Threads, Step(t)
      PROVE  IndInv'
  <2>1. WriterInv' /\ Moves(t) /\ Shape'
    BY <1>2, StepMoves DEF IndInv, WriterInv
  <2>2. StoreIsKept'
    BY <1>2, <2>1, AsideActions, IndexKeepsStore, MarkKeepsStore, RetireKeepsStore,
       RollbackKeepsStore,
       ReindexKeepsStore, CommitKeepsStore, ReindexFailsKeepsStore, DiscardKeepsStore,
       WipeKeepsStore, RestoreKeepsStore,
       ClearSentinelKeepsStore, UnregisterKeepsStore, DeleteFileKeepsStore,
       RecheckKeepsStore, CollectKeepsStore
       DEF Step
  <2> QED  BY <2>1, <2>2 DEF IndInv
<1> QED  BY <1>1, <1>2 DEF Next

LEMMA StutterKeeps ==
    ASSUME IndInv, UNCHANGED vars
    PROVE  IndInv'
BY DEF IndInv, WriterInv, StoreIsKept, vars, diskVars, Shape, Threaded, OneHolderPerSlot,
   OneHolder, SlotIsShared, ForgetIsOnRecord, UndoNeedsAFault, IndexIsRegistered,
   OrphanIsBeingHandled, RebuildCanUndo, Replacing, Remains, Whole, WholeStore, BehindWhole,
   RetiredWhole, Behind, Retired, At

LEMMA IndInvHolds == Spec => []IndInv
<1>1. Init => IndInv
  BY InitHolds
<1>2. IndInv /\ [Next]_vars => IndInv'
  BY NextKeeps, StutterKeeps
<1> QED  BY <1>1, <1>2, PTL DEF Spec

-----------------------------------------------------------------------------
(* The theorems *)

(* The files hold versions that were made, and each slot's mutex has one   *)
(* holder, whatever crashes and fails.                                     *)
THEOREM TypeCorrect == Spec => []TypeOK
<1>1. IndInv => TypeOK
  BY DEF IndInv, WriterInv, Shape, OneHolderPerSlot, TypeOK
<1> QED  BY <1>1, IndInvHolds, PTL

(* index, rebuild, forget and gc write one at a time, on the slot they     *)
(* share, as long as no forget has dropped it.                             *)
THEOREM WritersExclude == Spec => []WritersExcludeUntilForget
<1>1. Init => WritersExcludeUntilForget
  BY DEF Init, WritersExcludeUntilForget
<1>2. ASSUME IndInv, WritersExcludeUntilForget, [Next]_vars
      PROVE  WritersExcludeUntilForget'
  <2>1. CASE \E t \in Threads : AcquireWrite(t)
    <3>1. PICK t \in Threads : AcquireWrite(t)
      BY <2>1
    <3>2. ASSUME HeldSlots # {}, th[t].slot \notin HeldSlots
          PROVE  "forget" \in past
      <4>1. PICK u \in Threads : th[u].held /\ th[u].slot # th[t].slot
        BY <3>2 DEF HeldSlots
      <4>2. th[u].at \in OwnerPlaces /\ th[t].at = "acquire"
        BY <1>2, <3>1, <4>1 DEF IndInv, WriterInv, Threaded, Placed, AcquireWrite, At
      <4> QED  BY <1>2, <4>1, <4>2 DEF IndInv, WriterInv, SlotIsShared
    <3> QED  BY <1>2, <3>1, <3>2 DEF AcquireWrite, WritersExcludeUntilForget
  <2>2. CASE UNCHANGED past
    BY <1>2, <2>2 DEF WritersExcludeUntilForget
  <2>3. CASE \E t \in Threads : Commit(t) \/ Unregister(t)
    BY <1>2, <2>3 DEF WritersExcludeUntilForget, Commit, Unregister
  <2>4. (\E t \in Threads : AcquireWrite(t) \/ Commit(t) \/ Unregister(t)) \/ UNCHANGED past
    BY <1>2 DEF Next, Step, vars, Crash, Resolve, CheckSentinel, LookupSlot, CreateSlot,
       Reregister, Index, Mark, Retire, Rollback, Reindex, ReindexFails, Discard, Wipe, Restore,
       ClearSentinel, DeleteFile, DropSlot, ResolveGc, ScanOrphans, Recheck, Collect
  <2> QED  BY <2>1, <2>2, <2>3, <2>4
<1> QED  BY <1>1, <1>2, IndInvHolds, PTL DEF Spec

(* Forget leaves a store without its registration only on request, after a *)
(* failure, or through a rebuild or a writer that overlapped it.           *)
THEOREM OrphansAreExplained == Spec => []OrphanOnlyByLateWriter
<1>1. IndInv => OrphanOnlyByLateWriter
  <2> SUFFICES ASSUME IndInv, \A t \in Threads : At(t, "idle"), live["db"] # 0, ~registered,
                      ~(faults > 0), past \cap {"keep", "late", "overlap"} = {}
               PROVE  FALSE
    BY DEF OrphanOnlyByLateWriter
  <2>1. faults = 0
    BY DEF IndInv, WriterInv, Shape
  <2> QED  BY <2>1 DEF IndInv, WriterInv, OrphanIsBeingHandled, At
<1> QED  BY <1>1, IndInvHolds, PTL

(* Whenever the sentinel lets the store be opened, it is the one last      *)
(* committed, after any one crash or failed file operation.                *)
THEOREM NeverServesAPartialStore == Spec => []ServedStoreIsWhole
<1>1. IndInv => ServedStoreIsWhole
  BY DEF IndInv, StoreIsKept, RebuildCanUndo, Remains, ServedStoreIsWhole
<1> QED  BY <1>1, IndInvHolds, PTL
=============================================================================
