------------------------- MODULE StoreAccessProofs --------------------------
(***************************************************************************)
(* Proofs about StoreAccess, for any number of threads and any choice of   *)
(* the operations they run.                                                *)
(***************************************************************************)
EXTENDS StoreAccess, LineLemmas, SequenceTheorems, TLAPS

-----------------------------------------------------------------------------
(* What the handlers' step lists have in common *)

DbSteps == {"lockDb", "lockDbTimed", "tryDb"}

RefreshSteps == {"coRefresh", "coRefreshTimed"}

WriteSteps == {"coWrite", "coTryWrite"}

(* The guard a step leaves its thread with. *)
GuardOf(s) ==
    CASE s \in DbSteps                                   -> "db"
      [] s \in {"coRead"} \cup WriteSteps \cup RefreshSteps -> "co"
      [] s = "stamp"                                     -> "stamp"
      [] OTHER                                           -> "none"

(* The guards an operation has when it comes to its k-th step. *)
Taken(o, k) == {GuardOf(Steps(o)[j]) : j \in 1 .. k - 1} \ {"none"}

(* The operations that ask the coordinator for its Writing state. *)
WriteOps == {"mark", "classify", "retention_pass", "forget"}

(* What is asked of an operation's k-th step s, the steps before being p. *)
StepFits(o, k) ==
    LET s == Steps(o)[k] IN
    /\ GuardOf(s) # "none" => GuardOf(s) \notin Taken(o, k)
    /\ s = "stamp" => "db" \in Taken(o, k)
    /\ s \in WorkSteps => "db" \in Taken(o, k) \/ "co" \in Taken(o, k)
    /\ s = "vacuum" => {"db", "co"} \subseteq Taken(o, k) /\ o \in WriteOps
    /\ s \in WriteSteps <=> GuardOf(s) = "co" /\ o \in WriteOps
    /\ s = "coRead" <=> GuardOf(s) = "co" /\ o = "read"
    /\ s # "done"

(* acquire_foreground_write, with the handlers that start with it. *)
LEMMA ForegroundSteps ==
    /\ Len(HandleAssess) = 3
    /\ HandleAssess[1] = "lockDbTimed" /\ HandleAssess[2] = "coRefreshTimed"
    /\ HandleAssess[3] = "mutating"
    /\ Len(HandleRepoRebuild) = 4
    /\ HandleRepoRebuild[1] = "lockDbTimed" /\ HandleRepoRebuild[2] = "coRefreshTimed"
    /\ HandleRepoRebuild[3] = "stamp" /\ HandleRepoRebuild[4] = "replacing"
<1> DEFINE f == <<"lockDbTimed", "coRefreshTimed">>
           m == <<"mutating">>
           r == <<"stamp", "replacing">>
           S == {"lockDbTimed", "coRefreshTimed", "mutating", "stamp", "replacing"}
<1>1. /\ f \in Seq(S) /\ Len(f) = 2 /\ f[1] = "lockDbTimed" /\ f[2] = "coRefreshTimed"
      /\ m \in Seq(S) /\ Len(m) = 1 /\ m[1] = "mutating"
      /\ r \in Seq(S) /\ Len(r) = 2 /\ r[1] = "stamp" /\ r[2] = "replacing"
  OBVIOUS
<1>2. HandleAssess = f \o m /\ HandleRepoRebuild = f \o r
  BY DEF HandleAssess, HandleRepoRebuild, AcquireForegroundWrite
<1> HIDE DEF f, m, r, S
<1>3. /\ Len(f \o m) = Len(f) + Len(m)
      /\ \A i \in 1 .. Len(f) + Len(m) :
            (f \o m)[i] = IF i <= Len(f) THEN f[i] ELSE m[i - Len(f)]
  BY <1>1, ConcatProperties
<1>4. /\ Len(f \o r) = Len(f) + Len(r)
      /\ \A i \in 1 .. Len(f) + Len(r) :
            (f \o r)[i] = IF i <= Len(f) THEN f[i] ELSE r[i - Len(f)]
  BY <1>1, ConcatProperties
<1> QED  BY <1>1, <1>2, <1>3, <1>4

(* Every handler takes a guard at most once, announces itself only with    *)
(* the mutex, and works only with a lock in hand; VACUUM needs both.       *)
LEMMA EveryStepFits ==
    ASSUME NEW o \in AllOps
    PROVE  Len(Steps(o)) \in Nat /\ \A k \in 1 .. Len(Steps(o)) : StepFits(o, k)
<1> USE DEF StepFits, Taken, GuardOf, DbSteps, RefreshSteps, WriteSteps, WorkSteps, WriteOps
<1>1. CASE o = "read"
  <2>1. Steps(o) = ReadHandler
    BY <1>1 DEF Steps
  <2> QED  BY <1>1, <2>1 DEF ReadHandler
<1>2. CASE o = "index"
  <2>1. Steps(o) = HandleIndex
    BY <1>2 DEF Steps
  <2> QED  BY <1>2, <2>1 DEF HandleIndex
<1>3. CASE o = "refresh"
  <2>1. Steps(o) = HandleRefresh
    BY <1>3 DEF Steps
  <2> QED  BY <1>3, <2>1 DEF HandleRefresh
<1>4. CASE o = "preload"
  <2>1. Steps(o) = HandlePreload
    BY <1>4 DEF Steps
  <2> QED  BY <1>4, <2>1 DEF HandlePreload
<1>5. CASE o = "assess"
  <2>1. Steps(o) = HandleAssess
    BY <1>5 DEF Steps
  <2> QED  BY <1>5, <2>1, ForegroundSteps
<1>6. CASE o = "rebuild"
  <2>1. Steps(o) = HandleRepoRebuild
    BY <1>6 DEF Steps
  <2> QED  BY <1>6, <2>1, ForegroundSteps
<1>7. CASE o = "mark"
  <2>1. Steps(o) = HandleMarkBaseline
    BY <1>7 DEF Steps
  <2> QED  BY <1>7, <2>1 DEF HandleMarkBaseline
<1>8. CASE o = "classify"
  <2>1. Steps(o) = HandleClassifyRetention
    BY <1>8 DEF Steps
  <2> QED  BY <1>8, <2>1 DEF HandleClassifyRetention
<1>9. CASE o = "retention_pass"
  <2>1. Steps(o) = RetentionAttempt
    BY <1>9 DEF Steps
  <2> QED  BY <1>9, <2>1 DEF RetentionAttempt
<1>10. CASE o = "enrich_pass"
  <2>1. Steps(o) = EnrichAttempt
    BY <1>10 DEF Steps
  <2> QED  BY <1>10, <2>1 DEF EnrichAttempt
<1>11. CASE o = "reconcile"
  <2>1. Steps(o) = ReconcileRepo
    BY <1>11 DEF Steps
  <2> QED  BY <1>11, <2>1 DEF ReconcileRepo
<1>12. CASE o = "forget"
  <2>1. Steps(o) = ForgetRepo
    BY <1>12 DEF Steps
  <2> QED  BY <1>12, <2>1 DEF ForgetRepo
<1>13. CASE o = "publish"
  <2>1. Steps(o) = PublishGuarded
    BY <1>13 DEF Steps
  <2> QED  BY <1>13, <2>1 DEF PublishGuarded
<1>14. CASE o = "rebuild_unloaded"
  <2>1. Steps(o) = RebuildUnloaded
    BY <1>14 DEF Steps
  <2> QED  BY <1>14, <2>1 DEF RebuildUnloaded
<1> QED  BY <1>1, <1>2, <1>3, <1>4, <1>5, <1>6, <1>7, <1>8, <1>9, <1>10, <1>11, <1>12, <1>13,
            <1>14 DEF AllOps
-----------------------------------------------------------------------------
(* The inductive invariant *)

HeldBy(t) == Tickets(held[t])

Shape ==
    /\ readers \subseteq Threads /\ writers \subseteq Threads /\ refreshers \subseteq Threads
    /\ line \in Seq(Threads)
    /\ db \in Threads \cup {Nobody}
    /\ active \subseteq Threads
    /\ op \in [Threads -> Ops \cup {"none"}]
    /\ at \in [Threads -> Nat]
    /\ held \in [Threads -> Seq(Guards)]

(* A guard is held once, and an announcement only on top of the mutex. *)
Stacked(q) ==
    /\ NoTwice(q)
    /\ \A i \in 1 .. Len(q) : q[i] = "stamp" => \E j \in 1 .. i - 1 : q[j] = "db"

Stacks == \A t \in Threads : Stacked(held[t])

(* Before it is done, a thread has what the steps behind it acquired. *)
Placed(t) ==
    /\ at[t] \in 1 .. Len(Steps(op[t])) + 1
    /\ at[t] <= Len(Steps(op[t])) => HeldBy(t) = Taken(op[t], at[t])
    /\ op[t] = "none" => held[t] = <<>>

Places == \A t \in Threads : Placed(t)

(* A guard in hand is an entry in the lock's own state, of the right kind. *)
Owns(t) ==
    /\ db = t <=> "db" \in HeldBy(t)
    /\ t \in active <=> "stamp" \in HeldBy(t)
    /\ t \in readers <=> "co" \in HeldBy(t) /\ op[t] = "read"
    /\ t \in writers <=> "co" \in HeldBy(t) /\ op[t] \in WriteOps
    /\ t \in refreshers <=> "co" \in HeldBy(t) /\ op[t] \notin WriteOps \cup {"read"}

Owners == \A t \in Threads : Owns(t)

(* The coordinator's Writing state is held by one thread and nothing else. *)
WriterIsAlone == \A w \in writers : writers = {w} /\ readers = {} /\ refreshers = {}

(* Only threads at a blocking coordinator step are in line, each once. *)
LineWaits == NoTwice(line) /\ \A t \in Tickets(line) : t \in Threads /\ CoWaits(t)

IndInv == Shape /\ Stacks /\ Places /\ Owners /\ WriterIsAlone /\ LineWaits
-----------------------------------------------------------------------------
(* Facts about positions *)

LEMMA StepsLength ==
    ASSUME NEW o \in AllOps \cup {"none"}
    PROVE  Len(Steps(o)) \in Nat /\ (o = "none" => Len(Steps(o)) = 0)
<1>1. CASE o = "none"
  BY <1>1 DEF Steps
<1>2. CASE o \in AllOps
  BY <1>2, EveryStepFits DEF AllOps
<1> QED  BY <1>1, <1>2

(* A thread that is not done is at a step of a handler. *)
LEMMA AtAStep ==
    ASSUME IndInv, NEW t \in Threads, Step(t) # "done"
    PROVE  /\ op[t] \in AllOps /\ at[t] \in 1 .. Len(Steps(op[t]))
           /\ Step(t) = Steps(op[t])[at[t]]
           /\ StepFits(op[t], at[t])
           /\ HeldBy(t) = Taken(op[t], at[t])
           /\ Len(Steps(op[t])) \in Nat
<1>1. op[t] \in AllOps \cup {"none"} /\ at[t] \in Nat /\ Placed(t)
  BY OpsAssumption DEF IndInv, Shape, Places
<1>2. Len(Steps(op[t])) \in Nat /\ (op[t] = "none" => Len(Steps(op[t])) = 0)
  BY <1>1, StepsLength
<1>3. at[t] \in 1 .. Len(Steps(op[t])) /\ Step(t) = Steps(op[t])[at[t]]
  BY <1>1, <1>2 DEF Placed, Step
<1>4. op[t] \in AllOps
  BY <1>1, <1>2, <1>3
<1> QED  BY <1>1, <1>2, <1>3, <1>4, EveryStepFits DEF Placed

LEMMA TakenGrows ==
    ASSUME NEW o, NEW k \in Nat \ {0}
    PROVE  Taken(o, k + 1) = (Taken(o, k) \cup {GuardOf(Steps(o)[k])}) \ {"none"}
<1>1. 1 .. (k + 1) - 1 = (1 .. k - 1) \cup {k}
  OBVIOUS
<1> QED  BY <1>1 DEF Taken

LEMMA GuardKinds ==
    ASSUME NEW s
    PROVE  /\ GuardOf(s) \in Guards \cup {"none"}
           /\ GuardOf(s) = "db" <=> s \in DbSteps
           /\ GuardOf(s) = "stamp" <=> s = "stamp"
           /\ GuardOf(s) = "co" <=> s \in {"coRead"} \cup WriteSteps \cup RefreshSteps
           /\ s \in WorkSteps \cup {"gate"} => GuardOf(s) = "none"
BY DEF GuardOf, Guards, DbSteps, WriteSteps, RefreshSteps, WorkSteps

LEMMA NoneTaken == ASSUME NEW o PROVE Taken(o, 1) = {}
BY DEF Taken

(* What the coordinator's steps are, by the operation they belong to. *)
LEMMA WaitingSteps ==
    ASSUME NEW t
    PROVE  CoWaits(t) => Step(t) \in WriteSteps \cup RefreshSteps
BY DEF CoWaits, WriteSteps, RefreshSteps

-----------------------------------------------------------------------------
(* Steps that leave the guards and the locks alone *)

LEMMA MoveKeeps ==
    ASSUME IndInv, NEW t \in Threads, NEW o \in Ops \cup {"none"}, NEW k \in Nat,
           UNCHANGED <<lockVars, db, active, held>>,
           op' = [op EXCEPT ![t] = o], at' = [at EXCEPT ![t] = k],
           ~CoWaits(t),
           o = op[t] \/ held[t] = <<>>,
           k \in 1 .. Len(Steps(o)) + 1,
           k <= Len(Steps(o)) => HeldBy(t) = Taken(o, k),
           o = "none" => held[t] = <<>>
    PROVE  IndInv'
<1> USE DEF IndInv
<1>1. Shape'
  BY DEF Shape, lockVars
<1>2. Stacks'
  BY DEF Stacks
<1>3. Places'
  BY DEF Places, Placed, HeldBy, Shape
<1>4. Owners'
  <2>1. ASSUME NEW u \in Threads, u # t PROVE Owns(u)'
    BY <2>1 DEF Owners, Owns, HeldBy, Shape, lockVars
  <2>2. Owns(t)'
    <3>1. CASE o = op[t]
      BY <3>1 DEF Owners, Owns, HeldBy, Shape, lockVars
    <3>2. CASE held[t] = <<>>
      <4>1. HeldBy(t) = {}
        BY <3>2 DEF HeldBy, Tickets
      <4> QED  BY <4>1 DEF Owners, Owns, HeldBy, Shape, lockVars
    <3> QED  BY <3>1, <3>2
  <2> QED  BY <2>1, <2>2 DEF Owners
<1>5. WriterIsAlone'
  BY DEF WriterIsAlone, lockVars
<1>6. LineWaits'
  <2>1. ASSUME NEW u \in Tickets(line) PROVE u \in Threads /\ u # t /\ CoWaits(u)'
    <3>1. u \in Threads /\ CoWaits(u) /\ u # t
      BY DEF LineWaits
    <3>2. op'[u] = op[u] /\ at'[u] = at[u]
      BY <3>1 DEF Shape
    <3> QED  BY <3>1, <3>2 DEF CoWaits, Step
  <2> QED  BY <2>1 DEF LineWaits, lockVars
<1> QED  BY <1>1, <1>2, <1>3, <1>4, <1>5, <1>6

(* An early return may come from any step but a place in line. *)
LEMMA StopKeeps ==
    ASSUME IndInv, NEW t \in Threads, Stop(t), Step(t) # "done", ~CoWaits(t),
           UNCHANGED <<lockVars, db, active, op, held>>
    PROVE  IndInv'
<1> DEFINE k == Len(Steps(op[t])) + 1
<1>1. k \in Nat /\ ~(k <= Len(Steps(op[t]))) /\ k \in 1 .. k /\ op[t] \in AllOps
  BY AtAStep
<1>2. op' = [op EXCEPT ![t] = op[t]] /\ op[t] \in Ops \cup {"none"} /\ op[t] # "none"
  BY <1>1 DEF IndInv, Shape, AllOps
<1>3. at' = [at EXCEPT ![t] = k]
  BY DEF Stop
<1> HIDE DEF k
<1> QED  BY <1>1, <1>2, <1>3, MoveKeeps DEF k

(* A step that acquires nothing is left behind. *)
LEMMA AdvanceKeeps ==
    ASSUME IndInv, NEW t \in Threads, Advance(t), Step(t) # "done",
           GuardOf(Step(t)) = "none",
           UNCHANGED <<lockVars, db, active, op, held>>
    PROVE  IndInv'
<1> DEFINE k == at[t] + 1
<1>1. /\ op[t] \in AllOps /\ at[t] \in 1 .. Len(Steps(op[t])) /\ Len(Steps(op[t])) \in Nat
      /\ Step(t) = Steps(op[t])[at[t]] /\ HeldBy(t) = Taken(op[t], at[t])
  BY AtAStep
<1>2. op' = [op EXCEPT ![t] = op[t]] /\ op[t] \in Ops \cup {"none"} /\ op[t] # "none"
  BY <1>1 DEF IndInv, Shape, AllOps
<1>3. at' = [at EXCEPT ![t] = k] /\ k \in 1 .. Len(Steps(op[t])) + 1 /\ k \in Nat
  BY <1>1 DEF Advance, IndInv, Shape
<1>4. HeldBy(t) = Taken(op[t], k)
  <2>1. "none" \notin Taken(op[t], at[t])
    BY DEF Taken
  <2>2. at[t] \in Nat \ {0}
    BY <1>1
  <2>3. Taken(op[t], k) = (Taken(op[t], at[t]) \cup {GuardOf(Steps(op[t])[at[t]])}) \ {"none"}
    BY <2>2, TakenGrows
  <2>4. GuardOf(Steps(op[t])[at[t]]) = "none"
    BY <1>1
  <2> QED  BY <1>1, <2>1, <2>3, <2>4
<1>5. ~CoWaits(t)
  BY GuardKinds, WaitingSteps
<1> HIDE DEF k
<1> QED  BY <1>2, <1>3, <1>4, <1>5, MoveKeeps
-----------------------------------------------------------------------------
(* Steps that acquire a guard *)

(* The thread's own part of an acquisition. *)
LEMMA AcquireGuard ==
    ASSUME IndInv, NEW t \in Threads, Step(t) # "done",
           NEW g \in Guards, GuardOf(Step(t)) = g, Acquired(t, g)
    PROVE  /\ g \notin HeldBy(t)
           /\ HeldBy(t)' = HeldBy(t) \cup {g}
           /\ \A u \in Threads \ {t} : HeldBy(u)' = HeldBy(u) /\ (CoWaits(u)' <=> CoWaits(u))
           /\ op' = op /\ at' \in [Threads -> Nat] /\ held' \in [Threads -> Seq(Guards)]
           /\ Stacks' /\ Places'
           /\ g = "stamp" => "db" \in HeldBy(t)
<1>1. /\ op[t] \in AllOps /\ at[t] \in 1 .. Len(Steps(op[t])) /\ Len(Steps(op[t])) \in Nat
      /\ Step(t) = Steps(op[t])[at[t]] /\ HeldBy(t) = Taken(op[t], at[t])
      /\ StepFits(op[t], at[t])
  BY AtAStep
<1>2. /\ op' = op /\ at' = [at EXCEPT ![t] = at[t] + 1]
      /\ held' = [held EXCEPT ![t] = Append(held[t], g)]
      /\ at \in [Threads -> Nat] /\ held \in [Threads -> Seq(Guards)]
  BY DEF Acquired, Advance, IndInv, Shape
<1>3. g # "none" /\ g \notin HeldBy(t) /\ (g = "stamp" => "db" \in HeldBy(t))
  <2>1. g # "none"
    BY DEF Guards
  <2> QED  BY <1>1, <2>1, GuardKinds DEF StepFits
<1>4. Stacked(held[t]) /\ held[t] \in Seq(Guards)
  BY <1>2 DEF IndInv, Stacks
<1>5. /\ held'[t] = Append(held[t], g) /\ held'[t] \in Seq(Guards) /\ NoTwice(held'[t])
      /\ Tickets(held'[t]) = HeldBy(t) \cup {g}
  <2>1. g \notin Tickets(held[t]) /\ NoTwice(held[t])
    BY <1>3, <1>4 DEF HeldBy, Stacked
  <2>2. held'[t] = Append(held[t], g)
    BY <1>2
  <2> QED  BY <1>4, <2>1, <2>2, AppendTicket DEF HeldBy
<1>6. HeldBy(t)' = HeldBy(t) \cup {g}
  BY <1>5 DEF HeldBy
<1>7. at' \in [Threads -> Nat] /\ held' \in [Threads -> Seq(Guards)]
  BY <1>1, <1>2, <1>5
<1>8. ASSUME NEW u \in Threads \ {t}
      PROVE  HeldBy(u)' = HeldBy(u) /\ (CoWaits(u)' <=> CoWaits(u)) /\ Placed(u)'
             /\ Stacked(held[u])'
  <2>1. at'[u] = at[u] /\ held'[u] = held[u] /\ op'[u] = op[u]
    BY <1>2
  <2> QED  BY <2>1 DEF HeldBy, CoWaits, Step, Placed, IndInv, Places, Stacks
<1>9. Stacked(held[t])'
  <2> DEFINE q == held[t]
             r == held'[t]
  <2>1. /\ Len(q) \in Nat /\ Len(r) = Len(q) + 1 /\ r[Len(q) + 1] = g
        /\ \A i \in 1 .. Len(q) : r[i] = q[i]
    BY <1>4, <1>5, AppendProperties
  <2>2. g = "stamp" => \E j \in 1 .. Len(q) : q[j] = "db"
    BY <1>3 DEF HeldBy, Tickets
  <2>3. \A i \in 1 .. Len(q) : q[i] = "stamp" => \E j \in 1 .. i - 1 : q[j] = "db"
    BY <1>4 DEF Stacked
  <2> HIDE DEF q, r
  <2>4. \A i \in 1 .. Len(r) : r[i] = "stamp" => \E j \in 1 .. i - 1 : r[j] = "db"
    BY <2>1, <2>2, <2>3
  <2> QED  BY <1>5, <2>4 DEF Stacked, r
<1>10. Placed(t)'
  <2>1. at'[t] = at[t] + 1 /\ op'[t] = op[t] /\ at[t] \in Nat \ {0}
    BY <1>1, <1>2
  <2>2. Taken(op[t], at[t] + 1)
          = (Taken(op[t], at[t]) \cup {GuardOf(Steps(op[t])[at[t]])}) \ {"none"}
    BY <2>1, TakenGrows
  <2>3. "none" \notin Taken(op[t], at[t])
    BY DEF Taken
  <2>4. HeldBy(t)' = Taken(op[t], at[t] + 1)
    BY <1>1, <1>3, <1>6, <2>2, <2>3
  <2>5. op[t] # "none"
    BY <1>1 DEF AllOps
  <2> QED  BY <1>1, <2>1, <2>4, <2>5 DEF Placed
<1> QED  BY <1>2, <1>3, <1>6, <1>7, <1>8, <1>9, <1>10 DEF Stacks, Places

LEMMA LockDbKeeps ==
    ASSUME IndInv, NEW t \in Threads, LockDb(t)
    PROVE  IndInv'
<1>1. Step(t) \in DbSteps /\ Step(t) # "done" /\ GuardOf(Step(t)) = "db" /\ "db" \in Guards
  BY GuardKinds DEF LockDb, DbSteps, Guards
<1>2. /\ db = Nobody /\ db' = t /\ Acquired(t, "db") /\ UNCHANGED active
      /\ UNCHANGED <<readers, writers, refreshers, line>>
  BY DEF LockDb, lockVars
<1>3. /\ HeldBy(t)' = HeldBy(t) \cup {"db"}
      /\ \A u \in Threads \ {t} : HeldBy(u)' = HeldBy(u) /\ (CoWaits(u)' <=> CoWaits(u))
      /\ op' = op /\ at' \in [Threads -> Nat] /\ held' \in [Threads -> Seq(Guards)]
      /\ Stacks' /\ Places'
  BY <1>1, <1>2, AcquireGuard
<1>4. Shape'
  BY <1>2, <1>3 DEF IndInv, Shape
<1>5. Owners'
  <2>1. \A u \in Threads : "db" \notin HeldBy(u)
    BY <1>2, OpsAssumption DEF IndInv, Owners, Owns
  <2>2. Owns(t)'
    BY <1>2, <1>3 DEF IndInv, Owners, Owns
  <2>3. ASSUME NEW u \in Threads, u # t PROVE Owns(u)'
    <3>1. HeldBy(u)' = HeldBy(u) /\ "db" \notin HeldBy(u) /\ db' # u /\ Owns(u)
      BY <1>2, <1>3, <2>1, <2>3 DEF IndInv, Owners
    <3> QED  BY <1>2, <1>3, <3>1 DEF Owns
  <2> QED  BY <2>2, <2>3 DEF Owners
<1>6. WriterIsAlone'
  BY <1>2 DEF IndInv, WriterIsAlone
<1>7. LineWaits'
  <2>1. ~CoWaits(t)
    BY <1>1 DEF CoWaits, DbSteps
  <2> QED  BY <1>2, <1>3, <2>1 DEF IndInv, LineWaits
<1> QED  BY <1>3, <1>4, <1>5, <1>6, <1>7 DEF IndInv

LEMMA StampKeeps ==
    ASSUME IndInv, NEW t \in Threads, Stamp(t)
    PROVE  IndInv'
<1>1. Step(t) = "stamp" /\ GuardOf(Step(t)) = "stamp" /\ "stamp" \in Guards
  BY GuardKinds DEF Stamp, Guards
<1>2. /\ active' = active \cup {t} /\ Acquired(t, "stamp") /\ UNCHANGED db
      /\ UNCHANGED <<readers, writers, refreshers, line>>
  BY DEF Stamp, lockVars
<1>3. /\ HeldBy(t)' = HeldBy(t) \cup {"stamp"}
      /\ \A u \in Threads \ {t} : HeldBy(u)' = HeldBy(u) /\ (CoWaits(u)' <=> CoWaits(u))
      /\ op' = op /\ at' \in [Threads -> Nat] /\ held' \in [Threads -> Seq(Guards)]
      /\ Stacks' /\ Places'
  BY <1>1, <1>2, AcquireGuard
<1>4. Shape'
  BY <1>2, <1>3 DEF IndInv, Shape
<1>5. Owners'
  BY <1>2, <1>3 DEF IndInv, Owners, Owns
<1>6. WriterIsAlone'
  BY <1>2 DEF IndInv, WriterIsAlone
<1>7. LineWaits'
  <2>1. ~CoWaits(t)
    BY <1>1 DEF CoWaits
  <2> QED  BY <1>2, <1>3, <2>1 DEF IndInv, LineWaits
<1> QED  BY <1>3, <1>4, <1>5, <1>6, <1>7 DEF IndInv

LEMMA CoReadKeeps ==
    ASSUME IndInv, NEW t \in Threads, CoRead(t)
    PROVE  IndInv'
<1>1. Step(t) = "coRead" /\ GuardOf(Step(t)) = "co" /\ "co" \in Guards
  BY GuardKinds DEF CoRead, Guards
<1>2. /\ line = <<>> /\ writers = {} /\ readers' = readers \cup {t} /\ Acquired(t, "co")
      /\ UNCHANGED <<writers, refreshers, line, db, active>>
  BY DEF CoRead, AdmitReader
<1>3. /\ HeldBy(t)' = HeldBy(t) \cup {"co"}
      /\ \A u \in Threads \ {t} : HeldBy(u)' = HeldBy(u) /\ (CoWaits(u)' <=> CoWaits(u))
      /\ op' = op /\ at' \in [Threads -> Nat] /\ held' \in [Threads -> Seq(Guards)]
      /\ Stacks' /\ Places' /\ "co" \notin HeldBy(t)
  BY <1>1, <1>2, AcquireGuard
<1>4. Shape'
  BY <1>2, <1>3 DEF IndInv, Shape
<1>5. op[t] = "read"
  <2>1. Step(t) = Steps(op[t])[at[t]] /\ StepFits(op[t], at[t])
    BY <1>1, AtAStep
  <2> QED  BY <1>1, <2>1 DEF StepFits
<1>6. Owners'
  <2>1. Owns(t)'
    BY <1>2, <1>3, <1>5 DEF IndInv, Owners, Owns, WriteOps
  <2>2. ASSUME NEW u \in Threads, u # t PROVE Owns(u)'
    <3>1. HeldBy(u)' = HeldBy(u) /\ Owns(u)
      BY <1>3, <2>2 DEF IndInv, Owners
    <3> QED  BY <1>2, <1>3, <2>2, <3>1 DEF Owns
  <2> QED  BY <2>1, <2>2 DEF Owners
<1>7. WriterIsAlone'
  BY <1>2 DEF WriterIsAlone
<1>8. LineWaits'
  <2>1. ~CoWaits(t)
    BY <1>1 DEF CoWaits
  <2> QED  BY <1>2, <1>3, <2>1 DEF IndInv, LineWaits
<1> QED  BY <1>3, <1>4, <1>6, <1>7, <1>8 DEF IndInv

(* The line after a grant: the head leaves it, or it was empty. *)
LEMMA GrantedLine ==
    ASSUME IndInv, NEW t \in Threads, CoGranted(t)
    PROVE  /\ Free /\ line' \in Seq(Threads) /\ NoTwice(line')
           /\ Tickets(line') = Tickets(line) \ {t}
           /\ IF Step(t) \in WriteSteps
              THEN writers' = {t} /\ UNCHANGED <<readers, refreshers>>
              ELSE refreshers' = {t} /\ UNCHANGED <<readers, writers>>
<1>1. line \in Seq(Threads) /\ NoTwice(line)
  BY DEF IndInv, Shape, LineWaits
<1>2. PICK q : /\ Grant(t, q)
               /\ q \in Seq(Threads) /\ NoTwice(q) /\ Tickets(q) = Tickets(line) \ {t}
  <2>1. CASE GrantFree(t)
    <3>1. Grant(t, <<>>) /\ line = <<>>
      BY <2>1 DEF GrantFree
    <3>2. <<>> \in Seq(Threads) /\ NoTwice(<<>>) /\ Tickets(<<>>) = {}
      BY DEF NoTwice, Tickets
    <3> QED  BY <3>1, <3>2
  <2>2. CASE Head(line) = t /\ GrantFirst
    <3>1. Grant(t, Tail(line)) /\ line # <<>>
      BY <2>2 DEF GrantFirst
    <3> QED  BY <1>1, <2>2, <3>1, PopTicket
  <2> QED  BY <2>1, <2>2 DEF CoGranted
<1>3. RightPermit(t) /\ t \in {t}
  BY DEF CoGranted
<1> QED  BY <1>2, <1>3 DEF Grant, Free, RightPermit, WriteSteps

LEMMA CoGrantedKeeps ==
    ASSUME IndInv, NEW t \in Threads, CoGranted(t)
    PROVE  IndInv'
<1>1. Step(t) \in WriteSteps \cup RefreshSteps /\ Step(t) # "done" /\ Step(t) # "coRead"
      /\ "co" \in Guards
  BY DEF CoGranted, CoWaits, WriteSteps, RefreshSteps, Guards
<1>2. GuardOf(Step(t)) = "co"
  BY <1>1, GuardKinds
<1>3. Acquired(t, "co") /\ UNCHANGED <<db, active>>
  BY DEF CoGranted
<1>4. /\ HeldBy(t)' = HeldBy(t) \cup {"co"}
      /\ \A u \in Threads \ {t} : HeldBy(u)' = HeldBy(u) /\ (CoWaits(u)' <=> CoWaits(u))
      /\ op' = op /\ at' \in [Threads -> Nat] /\ held' \in [Threads -> Seq(Guards)]
      /\ Stacks' /\ Places'
  BY <1>1, <1>2, <1>3, AcquireGuard
<1>5. /\ Free /\ line' \in Seq(Threads) /\ NoTwice(line')
      /\ Tickets(line') = Tickets(line) \ {t}
      /\ IF Step(t) \in WriteSteps
         THEN writers' = {t} /\ UNCHANGED <<readers, refreshers>>
         ELSE refreshers' = {t} /\ UNCHANGED <<readers, writers>>
  BY GrantedLine
<1>6. op[t] # "read" /\ (Step(t) \in WriteSteps <=> op[t] \in WriteOps)
  <2>1. Step(t) = Steps(op[t])[at[t]] /\ StepFits(op[t], at[t])
    BY <1>1, AtAStep
  <2> QED  BY <1>1, <1>2, <2>1 DEF StepFits
<1>7. Shape'
  BY <1>3, <1>4, <1>5 DEF IndInv, Shape
<1>8. Owners'
  <2>1. Owns(t)'
    BY <1>3, <1>4, <1>5, <1>6 DEF IndInv, Owners, Owns, Free
  <2>2. ASSUME NEW u \in Threads, u # t PROVE Owns(u)'
    <3>1. HeldBy(u)' = HeldBy(u) /\ Owns(u)
      BY <1>4, <2>2 DEF IndInv, Owners
    <3> QED  BY <1>3, <1>4, <1>5, <2>2, <3>1 DEF Owns, Free
  <2> QED  BY <2>1, <2>2 DEF Owners
<1>9. WriterIsAlone'
  BY <1>5 DEF WriterIsAlone, Free
<1>10. LineWaits'
  BY <1>4, <1>5 DEF IndInv, LineWaits
<1> QED  BY <1>4, <1>7, <1>8, <1>9, <1>10 DEF IndInv
-----------------------------------------------------------------------------
(* Steps of the waiting line *)

LEMMA CoQueuesKeeps ==
    ASSUME IndInv, NEW t \in Threads, CoQueues(t)
    PROVE  IndInv'
<1>1. /\ line' = Append(line, t) /\ CoWaits(t) /\ ~InLine(t)
      /\ UNCHANGED <<readers, writers, refreshers, db, active, op, at, held>>
  BY DEF CoQueues, Join, accessVars
<1>2. line \in Seq(Threads) /\ NoTwice(line) /\ t \notin Tickets(line)
  BY <1>1 DEF IndInv, Shape, LineWaits, InLine, Contains, Tickets
<1>3. /\ line' \in Seq(Threads) /\ NoTwice(line')
      /\ Tickets(line') = Tickets(line) \cup {t}
  BY <1>1, <1>2, AppendTicket
<1>4. Shape' /\ Stacks' /\ Places'
  BY <1>1, <1>3 DEF IndInv, Shape, Stacks, Places, Placed, HeldBy
<1>5. Owners' /\ WriterIsAlone'
  BY <1>1 DEF IndInv, Owners, Owns, HeldBy, WriterIsAlone
<1>6. LineWaits'
  BY <1>1, <1>3 DEF IndInv, LineWaits, CoWaits, Step
<1> QED  BY <1>4, <1>5, <1>6 DEF IndInv

LEMMA CoTimeoutKeeps ==
    ASSUME IndInv, NEW t \in Threads, CoTimeout(t)
    PROVE  IndInv'
<1>1. PICK i \in DOMAIN line : line[i] = t /\ Leave(i)
  BY DEF CoTimeout
<1>2. line \in Seq(Threads) /\ NoTwice(line) /\ i \in 1 .. Len(line)
  BY <1>1 DEF IndInv, Shape, LineWaits
<1>3. /\ line' \in Seq(Threads) /\ NoTwice(line') /\ Tickets(line') = Tickets(line) \ {t}
      /\ UNCHANGED <<readers, writers, refreshers, db, active, op, held>>
  BY <1>1, <1>2, LeaveTicket DEF Leave, CoTimeout
<1>4. op[t] \in AllOps /\ Len(Steps(op[t])) \in Nat
  BY AtAStep DEF CoTimeout
<1>5. at' = [at EXCEPT ![t] = Len(Steps(op[t])) + 1] /\ at \in [Threads -> Nat]
  BY DEF CoTimeout, Stop, IndInv, Shape
<1>6. Shape' /\ Stacks'
  BY <1>3, <1>4, <1>5 DEF IndInv, Shape, Stacks
<1>7. Places'
  <2>1. Placed(t)'
    BY <1>3, <1>4, <1>5 DEF Placed, AllOps
  <2>2. ASSUME NEW u \in Threads, u # t PROVE Placed(u)'
    BY <1>3, <1>5, <2>2 DEF IndInv, Places, Placed, HeldBy
  <2> QED  BY <2>1, <2>2 DEF Places
<1>8. Owners' /\ WriterIsAlone'
  BY <1>3 DEF IndInv, Owners, Owns, HeldBy, WriterIsAlone
<1>9. LineWaits'
  <2>1. ASSUME NEW u \in Tickets(line') PROVE u \in Threads /\ CoWaits(u)'
    <3>1. u \in Threads /\ u # t /\ CoWaits(u)
      BY <1>3, <2>1 DEF IndInv, LineWaits
    <3> QED  BY <1>3, <1>5, <3>1 DEF CoWaits, Step
  <2> QED  BY <1>3, <2>1 DEF LineWaits
<1> QED  BY <1>6, <1>7, <1>8, <1>9 DEF IndInv

-----------------------------------------------------------------------------
(* Guards going out of scope *)

(* The thread's own part of a drop. *)
LEMMA DropGuard ==
    ASSUME IndInv, NEW t \in Threads, Drop(t)
    PROVE  /\ Last(held[t]) \in HeldBy(t) /\ Last(held[t]) \in Guards
           /\ HeldBy(t)' = HeldBy(t) \ {Last(held[t])}
           /\ Last(held[t]) = "db" => "stamp" \notin HeldBy(t)
           /\ \A u \in Threads \ {t} : HeldBy(u)' = HeldBy(u)
           /\ \A u \in Threads : CoWaits(u)' <=> CoWaits(u)
           /\ op' = op /\ at' = at /\ held' \in [Threads -> Seq(Guards)]
           /\ Stacks' /\ Places'
<1> DEFINE q == held[t]
           r == SubSeq(held[t], 1, Len(held[t]) - 1)
           x == held[t][Len(held[t])]
<1>1. /\ held \in [Threads -> Seq(Guards)] /\ q \in Seq(Guards) /\ q # <<>> /\ Stacked(q)
      /\ Placed(t)
  BY DEF IndInv, Shape, Stacks, Drop, Places
<1>2. op' = op /\ at' = at /\ held' = [held EXCEPT ![t] = r] /\ Last(q) = x
  BY DEF Drop, Front, Last
<1>3. /\ r \in Seq(Guards) /\ NoTwice(r) /\ Len(r) = Len(q) - 1
      /\ \A i \in 1 .. Len(r) : r[i] = q[i]
      /\ x \in Tickets(q) /\ Tickets(r) = Tickets(q) \ {x}
  BY <1>1, DropLast DEF Stacked
<1>4. Len(q) \in Nat \ {0} /\ x \in Guards
  BY <1>1
<1>5. held'[t] = r /\ \A u \in Threads \ {t} : held'[u] = held[u]
  BY <1>1, <1>2
<1>6. x = "db" => "stamp" \notin Tickets(q)
  <2>1. SUFFICES ASSUME x = "db", NEW i \in 1 .. Len(q), q[i] = "stamp" PROVE FALSE
    BY DEF Tickets
  <2>2. PICK j \in 1 .. i - 1 : q[j] = "db"
    BY <1>1, <2>1 DEF Stacked
  <2>3. j \in 1 .. Len(q) /\ Len(q) \in 1 .. Len(q) /\ j # Len(q)
    BY <1>4, <2>1, <2>2
  <2> QED  BY <1>1, <2>1, <2>2, <2>3 DEF Stacked, NoTwice
<1> HIDE DEF r, x
<1>7. Stacked(r)
  <2>1. ASSUME NEW i \in 1 .. Len(r), r[i] = "stamp"
        PROVE  \E j \in 1 .. i - 1 : r[j] = "db"
    <3>1. i \in 1 .. Len(q) /\ q[i] = "stamp"
      BY <1>3, <1>4, <2>1
    <3>2. PICK j \in 1 .. i - 1 : q[j] = "db"
      BY <1>1, <3>1 DEF Stacked
    <3>3. j \in 1 .. Len(r)
      BY <1>3, <1>4, <2>1, <3>2
    <3> QED  BY <1>3, <3>2, <3>3
  <2> QED  BY <1>3, <2>1 DEF Stacked
<1>8. Stacks' /\ held' \in [Threads -> Seq(Guards)]
  BY <1>1, <1>2, <1>3, <1>5, <1>7 DEF IndInv, Stacks
<1>9. \A u \in Threads \ {t} : HeldBy(u)' = HeldBy(u) /\ Placed(u)'
  BY <1>2, <1>5 DEF HeldBy, IndInv, Places, Placed
<1>10. Placed(t)'
  <2>1. op[t] \in AllOps \cup {"none"}
    BY OpsAssumption DEF IndInv, Shape
  <2>2. Len(Steps(op[t])) \in Nat /\ \A k \in 1 .. Len(Steps(op[t])) : Steps(op[t])[k] # "done"
    BY <2>1, StepsLength, EveryStepFits DEF StepFits
  <2>3. ~(at[t] <= Len(Steps(op[t])))
    BY <1>1, <2>2 DEF Drop, Step, Placed
  <2>4. op[t] # "none"
    BY <1>1 DEF Placed
  <2> QED  BY <1>1, <1>2, <2>3, <2>4 DEF Placed
<1>11. \A u \in Threads : CoWaits(u)' <=> CoWaits(u)
  BY <1>2 DEF CoWaits, Step
<1>12. HeldBy(t)' = Tickets(r) /\ HeldBy(t) = Tickets(q)
  BY <1>5 DEF HeldBy
<1> QED  BY <1>2, <1>3, <1>4, <1>6, <1>8, <1>9, <1>10, <1>11, <1>12 DEF Places

LEMMA DropKeeps ==
    ASSUME IndInv, NEW t \in Threads, Drop(t)
    PROVE  IndInv'
<1> DEFINE g == Last(held[t])
<1>1. /\ g \in HeldBy(t) /\ g \in Guards /\ HeldBy(t)' = HeldBy(t) \ {g}
      /\ g = "db" => "stamp" \notin HeldBy(t)
      /\ \A u \in Threads \ {t} : HeldBy(u)' = HeldBy(u)
      /\ \A u \in Threads : CoWaits(u)' <=> CoWaits(u)
      /\ op' = op /\ at' = at /\ held' \in [Threads -> Seq(Guards)]
      /\ Stacks' /\ Places'
  BY DropGuard
<1>2. CASE g = "db" /\ db' = Nobody /\ UNCHANGED <<readers, writers, refreshers, line, active>>
  <2>1. db = t
    BY <1>1, <1>2 DEF IndInv, Owners, Owns
  <2>2. Shape' /\ WriterIsAlone' /\ LineWaits'
    BY <1>1, <1>2 DEF IndInv, Shape, WriterIsAlone, LineWaits
  <2>3. Owners'
    BY <1>1, <1>2, <2>1, OpsAssumption DEF IndInv, Owners, Owns
  <2> QED  BY <1>1, <2>2, <2>3 DEF IndInv
<1>3. CASE g = "stamp" /\ active' = active \ {t}
           /\ UNCHANGED <<readers, writers, refreshers, line, db>>
  <2>1. Shape' /\ WriterIsAlone' /\ LineWaits'
    BY <1>1, <1>3 DEF IndInv, Shape, WriterIsAlone, LineWaits
  <2>2. Owners'
    BY <1>1, <1>3 DEF IndInv, Owners, Owns
  <2> QED  BY <1>1, <2>1, <2>2 DEF IndInv
<1>4. CASE g = "co" /\ Release(t) /\ UNCHANGED <<db, active>>
  <2>1. Owns(t)
    BY DEF IndInv, Owners
  <2>2. /\ readers' = readers \ {t} /\ writers' = writers \ {t}
        /\ refreshers' = refreshers \ {t} /\ UNCHANGED line
    BY <1>1, <1>4, <2>1 DEF Owns, Release, WriteOps
  <2>3. Shape' /\ WriterIsAlone' /\ LineWaits'
    BY <1>1, <1>4, <2>2 DEF IndInv, Shape, WriterIsAlone, LineWaits
  <2>4. Owners'
    BY <1>1, <1>4, <2>2 DEF IndInv, Owners, Owns
  <2> QED  BY <1>1, <2>3, <2>4 DEF IndInv
<1> QED  BY <1>1, <1>2, <1>3, <1>4 DEF Drop, Guards, lockVars
-----------------------------------------------------------------------------
(* The theorems *)

LEMMA InitIndInv == Init => IndInv
<1> SUFFICES ASSUME Init PROVE IndInv
  OBVIOUS
<1>1. /\ readers = {} /\ writers = {} /\ refreshers = {} /\ line = <<>>
      /\ db = Nobody /\ active = {} /\ op = [t \in Threads |-> "none"]
      /\ at = [t \in Threads |-> 1] /\ held = [t \in Threads |-> <<>>]
  BY DEF Init, LInit, Free
<1>2. NoTwice(<<>>) /\ Tickets(<<>>) = {} /\ Stacked(<<>>) /\ <<>> \in Seq(Guards)
      /\ <<>> \in Seq(Threads)
  BY DEF NoTwice, Tickets, Stacked
<1>3. Shape /\ Stacks /\ WriterIsAlone /\ LineWaits
  BY <1>1, <1>2 DEF Shape, Stacks, WriterIsAlone, LineWaits
<1>4. Places
  <2>1. Len(Steps("none")) = 0
    BY StepsLength
  <2>2. ASSUME NEW t \in Threads PROVE Placed(t)
    <3>1. op[t] = "none" /\ at[t] = 1 /\ held[t] = <<>>
      BY <1>1
    <3> QED  BY <2>1, <3>1 DEF Placed
  <2> QED  BY <2>2 DEF Places
<1>5. Owners
  BY <1>1, <1>2, OpsAssumption DEF Owners, Owns, HeldBy
<1> QED  BY <1>3, <1>4, <1>5 DEF IndInv

LEMMA BeginKeeps ==
    ASSUME IndInv, NEW t \in Threads, NEW o \in Ops, Begin(t, o)
    PROVE  IndInv'
<1>1. op[t] = "none" /\ Placed(t)
  BY DEF Begin, IndInv, Places
<1>2. held[t] = <<>> /\ HeldBy(t) = {} /\ Step(t) = "done"
  <2>1. held[t] = <<>> /\ at[t] = 1 /\ Len(Steps(op[t])) = 0
    BY <1>1, StepsLength DEF Placed
  <2> QED  BY <2>1 DEF HeldBy, Tickets, Step
<1>3. o \in AllOps /\ Len(Steps(o)) \in Nat /\ o # "none"
  BY OpsAssumption, StepsLength DEF AllOps
<1>4. 1 \in 1 .. Len(Steps(o)) + 1 /\ Taken(o, 1) = {} /\ ~CoWaits(t)
  BY <1>2, <1>3, NoneTaken DEF CoWaits
<1> QED  BY <1>2, <1>3, <1>4, MoveKeeps DEF Begin

LEMMA FinishKeeps ==
    ASSUME IndInv, NEW t \in Threads, Finish(t)
    PROVE  IndInv'
<1>1. Len(Steps("none")) = 0
  BY StepsLength
<1>2. held[t] = <<>> /\ ~CoWaits(t) /\ 1 \in 1 .. Len(Steps("none")) + 1
      /\ ~(1 <= Len(Steps("none")))
  BY <1>1 DEF Finish, CoWaits
<1> QED  BY <1>2, MoveKeeps DEF Finish

LEMMA NextKeeps == IndInv /\ [Next]_vars => IndInv'
<1> SUFFICES ASSUME IndInv, [Next]_vars PROVE IndInv'
  OBVIOUS
<1>1. CASE UNCHANGED vars
  BY <1>1 DEF vars, lockVars, accessVars, IndInv, Shape, Stacks, Places, Placed, Owners,
              Owns, HeldBy, WriterIsAlone, LineWaits, CoWaits, Step
<1>2. ASSUME NEW t \in Threads, (\E o \in Ops : Begin(t, o)) \/ Proceed(t) \/ Work(t) \/ Fail(t)
      PROVE  IndInv'
  <2>1. CASE \E o \in Ops : Begin(t, o)
    BY <2>1, BeginKeeps
  <2>2. CASE LockDb(t) \/ CoRead(t) \/ CoGranted(t) \/ Stamp(t)
    BY <2>2, LockDbKeeps, CoReadKeeps, CoGrantedKeeps, StampKeeps
  <2>3. CASE DbRefused(t)
    BY <2>3, StopKeeps DEF DbRefused, CoWaits
  <2>4. CASE Gate(t)
    <3>1. Step(t) = "gate" /\ ~CoWaits(t) /\ GuardOf(Step(t)) = "none"
      BY <2>4, GuardKinds DEF Gate, CoWaits
    <3>2. Advance(t) \/ Stop(t)
      BY <2>4 DEF Gate
    <3> QED  BY <2>4, <3>1, <3>2, StopKeeps, AdvanceKeeps DEF Gate
  <2>5. CASE CoQueues(t) \/ CoTimeout(t)
    BY <2>5, CoQueuesKeeps, CoTimeoutKeeps
  <2>6. CASE CoTryRefused(t)
    BY <2>6, StopKeeps DEF CoTryRefused, CoWaits
  <2>7. CASE Drop(t) \/ Finish(t)
    BY <2>7, DropKeeps, FinishKeeps
  <2>8. CASE Work(t)
    <3>1. Step(t) \in WorkSteps /\ Step(t) # "done"
      BY <2>8 DEF Work, Working, WorkSteps
    <3>2. GuardOf(Step(t)) = "none"
      BY <3>1, GuardKinds
    <3> QED  BY <2>8, <3>1, <3>2, AdvanceKeeps DEF Work
  <2>9. CASE Fail(t)
    <3>1. Step(t) # "done" /\ ~CoWaits(t)
      BY <2>9 DEF Fail, Working, WorkSteps, CoWaits
    <3> QED  BY <2>9, <3>1, StopKeeps DEF Fail
  <2> QED  BY <1>2, <2>1, <2>2, <2>3, <2>4, <2>5, <2>6, <2>7, <2>8, <2>9 DEF Proceed
<1> QED  BY <1>1, <1>2 DEF Next

LEMMA InductiveInvariant == Spec => []IndInv
BY InitIndInv, NextKeeps, PTL DEF Spec

(* The state has its types, nobody is in line twice and no guard is taken  *)
(* twice, whatever the threads and the mix of operations.                  *)
THEOREM TypeCorrect == Spec => []TypeOK
<1>1. IndInv => TypeOK
  <2> SUFFICES ASSUME IndInv PROVE TypeOK
    OBVIOUS
  <2>1. ASSUME NEW S, NEW q \in Seq(S), NoTwice(q) PROVE IsInjective(q)
    BY <2>1 DEF NoTwice, IsInjective
  <2>2. IsInjective(line) /\ \A t \in Threads : IsInjective(held[t])
    BY <2>1 DEF IndInv, Shape, LineWaits, Stacks, Stacked
  <2> QED  BY <2>2 DEF IndInv, Shape, Places, Placed, TypeOK
<1> QED  BY <1>1, InductiveInvariant, PTL

(* Whoever the activity registry names holds the DB mutex: the stamp is    *)
(* taken under it and, the guards dropping youngest first, gone before it. *)
THEOREM RegistryIsTruthful == Spec => []RegistryNamesTheHolder
<1>1. IndInv => RegistryNamesTheHolder
  <2> SUFFICES ASSUME IndInv, NEW t \in active PROVE db = t
    BY DEF RegistryNamesTheHolder
  <2>1. t \in Threads /\ Owns(t) /\ Stacked(held[t]) /\ held[t] \in Seq(Guards)
    BY DEF IndInv, Shape, Owners, Stacks
  <2>2. PICK i \in 1 .. Len(held[t]) : held[t][i] = "stamp"
    BY <2>1 DEF Owns, HeldBy, Tickets
  <2>3. PICK j \in 1 .. i - 1 : held[t][j] = "db"
    BY <2>1, <2>2 DEF Stacked
  <2>4. j \in 1 .. Len(held[t])
    BY <2>1, <2>2, <2>3
  <2> QED  BY <2>1, <2>3, <2>4 DEF Owns, HeldBy, Tickets
<1> QED  BY <1>1, InductiveInvariant, PTL

(* Nobody is inside the store while one of the two VACUUM paths runs.  The *)
(* mutex keeps out whoever works under it, the coordinator's Writing state *)
(* whoever works under a permit, and every handler works under one of them.*)
THEOREM VacuumExcludesEveryone == Spec => []VacuumIsAlone
<1>1. IndInv => VacuumIsAlone
  <2> SUFFICES ASSUME IndInv, NEW t \in Threads, NEW u \in Threads,
                      Step(t) = "vacuum", Working(u)
               PROVE  t = u
    BY DEF VacuumIsAlone
  <2>1. Step(u) \in WorkSteps /\ Step(u) # "done"
    BY DEF Working, WorkSteps
  <2>2. {"db", "co"} \subseteq HeldBy(t) /\ op[t] \in WriteOps
    BY AtAStep DEF StepFits
  <2>3. "db" \in HeldBy(u) \/ "co" \in HeldBy(u)
    BY <2>1, AtAStep DEF StepFits
  <2>4. Owns(t) /\ Owns(u)
    BY DEF IndInv, Owners
  <2>5. db = t /\ writers = {t} /\ readers = {} /\ refreshers = {}
    BY <2>2, <2>4 DEF Owns, IndInv, WriterIsAlone
  <2> QED  BY <2>3, <2>4, <2>5 DEF Owns
<1> QED  BY <1>1, InductiveInvariant, PTL
=============================================================================
