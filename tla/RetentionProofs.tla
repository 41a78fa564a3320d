-------------------------- MODULE RetentionProofs ---------------------------
(***************************************************************************)
(* Proofs about Retention, for any number of snapshots and of upgrades and *)
(* whatever jobs overlap, before and after an upgrade.                     *)
(*                                                                         *)
(* What holds however the two sides overlap is in Typed, Created and       *)
(* Building; what needs them to take turns is in Orderly.                  *)
(***************************************************************************)
EXTENDS Retention, FiniteSetTheorems, WellFoundedInduction, TLAPS

-----------------------------------------------------------------------------
(* Where a job can be *)

BuildSteps == {"building", "postpass", "classify", "assign"}

MarkSteps == {"mark", "classify", "assign"}

PruneSteps == {"classify", "assign", "select", "delete", "non_ready", "narrow", "narrowing"}

Ops == {"none", "index", "refresh", "pass", "mark", "unmark", "maintenance"}

Steps == {"none"} \cup BuildSteps \cup MarkSteps \cup PruneSteps

Roles == {"current", "parent", "prunable"}

Plans == UNION {[D -> Roles] : D \in SUBSET Uids}

Jobs ==
    [op : Ops, at : Steps, uid : Uids \cup {None}, class : Classes, plan : Plans,
     list : SUBSET Uids]

StepsOf(op) ==
    CASE op = "none"                     -> {"none"}
      [] op \in {"index", "refresh"}     -> BuildSteps
      [] op \in {"mark", "unmark"}       -> MarkSteps
      [] op \in {"pass", "maintenance"}  -> PruneSteps

OpsOf(s) ==
    IF s = "db" THEN {"none", "index", "refresh", "pass"}
    ELSE {"none", "mark", "unmark", "maintenance"}

Placed(s) ==
    /\ job[s].op \in OpsOf(s) /\ job[s].at \in StepsOf(job[s].op)
    /\ job[s].at \in {"building", "postpass"} => job[s].uid = last /\ last # 0
    /\ job[s].op \in {"mark", "unmark"} => job[s].uid \in 1 .. last
    /\ job[s].op = "mark" => job[s].class \in UserMarks
    /\ job[s].op = "unmark" => job[s].class = "prunable"

Typed == TypeOK /\ job \in [Sides -> Jobs] /\ \A s \in Sides : Placed(s)

-----------------------------------------------------------------------------
(* Whatever overlaps *)

Created == \A u \in Uids : snap[u].status # "absent" \/ promised[u] # "none" => u <= last

(* The gates that keep a live build: a prune has listed no building one. *)
Building ==
    /\ LiveBuildSurvives
    /\ \A s \in Sides : At(s, "delete") =>
          \A u \in job[s].list : u <= last /\ snap[u].status # "building"

(* A refresh holds both locks. *)
Refreshing ==
    job["db"].op = "refresh" =>
        /\ Free("co")
        /\ \A u \in job["db"].list :
              /\ snap[u].status = "ready" /\ snap[u].rows
              /\ job["db"].at \in {"building", "postpass"} => u # job["db"].uid

OverlapIsOnRecord == Overlap => overlapped

StaleNeedsAnUpgrade == upgrades = 0 => \A u \in Uids : IsValidEpoch(u)

-----------------------------------------------------------------------------
(* While the sides take turns *)

RowsArePromised == \A u \in Uids : snap[u].class = "baseline_user" => snap[u].rows

MarksStand == \A u \in Uids : promised[u] # "none" => MarkStands(u)

(* A build is no one's baseline yet. *)
BuildIsNew ==
    job["db"].at \in {"building", "postpass"} =>
        LET u == job["db"].uid
        IN  promised[u] = "none" /\ snap[u].rows

(* A mark about to be written, and one that is. *)
MarkInHand ==
    LET j == job["co"]
    IN  /\ j.op = "unmark" /\ j.at = "mark" => promised[j.uid] = "none"
        /\ j.op = "mark" /\ j.at = "mark" =>
              IF j.class = "baseline_user" THEN snap[j.uid].rows
              ELSE snap[j.uid].class # "baseline_user"
        /\ j.op = "mark" /\ j.at # "mark" /\ snap[j.uid].status = "ready" =>
              snap[j.uid].class = j.class

Unmarked == {u \in Ready : ~IsUserMark(u)}

(* At most two of the unmarked snapshots are not in X. *)
Settled(X) ==
    \E c, p \in Uids \cup {None} : \A u \in Unmarked : u \in X \/ u = c \/ u = p

(* What is to go has something newer that stays. *)
Superseded(u) == \E v \in Ready : v > u /\ snap[v].class = "current"

PlanIsSound(s) ==
    At(s, "assign") =>
        LET plan == job[s].plan
        IN  /\ DOMAIN plan = Unmarked
            /\ Settled({u \in Unmarked : plan[u] = "prunable"})
            /\ \A u \in Unmarked : plan[u] = "prunable" /\ IsValidEpoch(u) =>
                  \E v \in Unmarked : v > u /\ plan[v] = "current"

PruneIsSound(s) ==
    /\ At(s, "select") => Settled({u \in Unmarked : snap[u].class = "prunable"})
    /\ At(s, "delete") =>
          /\ \A u \in job[s].list : snap[u].class = "prunable"
          /\ Settled(job[s].list)
    /\ job[s].at \in {"select", "delete"} =>
          \A u \in Ready : snap[u].class = "prunable" /\ IsValidEpoch(u) => Superseded(u)
    /\ job[s].at \in {"non_ready", "narrow", "narrowing"} => Settled({})

NarrowIsSound(s) ==
    At(s, "narrowing") =>
        \A u \in job[s].list :
            u \in Ready /\ snap[u].class = "baseline_stamp" /\ \E v \in Ready : v > u

(* The newest of R has its rows. *)
TopHasRows(R) == \A u \in R : (\A v \in R : v <= u) => snap[u].rows

(* ... and so has the one a demoted build would leave as the newest. *)
ServingHasRows ==
    upgrades = 0 =>
        /\ TopHasRows(Ready)
        /\ At("db", "postpass") => TopHasRows(Ready \ {job["db"].uid})

Orderly ==
    ~overlapped =>
        /\ RowsArePromised
        /\ MarksStand
        /\ BuildIsNew
        /\ MarkInHand
        /\ \A s \in Sides : PlanIsSound(s) /\ PruneIsSound(s) /\ NarrowIsSound(s)
        /\ ServingHasRows

IndInv ==
    /\ Typed
    /\ Created
    /\ Building
    /\ Refreshing
    /\ OverlapIsOnRecord
    /\ StaleNeedsAnUpgrade
    /\ Orderly

-----------------------------------------------------------------------------
(* Helpers *)

LEMMA Numbers == Uids \subseteq Nat /\ None \notin Uids /\ MaxSnapshots \in Nat
BY BoundsAssumption DEF Uids, None

(* The empty plan, and the idle side.                                      *)
LEMMA NothingPlanned == <<>> \in Plans /\ DOMAIN <<>> = {}
<1>1. <<>> \in [{} -> Roles] /\ DOMAIN <<>> = {}
  OBVIOUS
<1> QED  BY <1>1 DEF Plans

LEMMA Idle == NoJob \in Jobs
BY NothingPlanned DEF NoJob, Jobs, Ops, Steps, BuildSteps, MarkSteps, PruneSteps, Classes

(* Only the job of s moves. *)
Moves(s) == \A r \in Sides \ {s} : job'[r] = job[r]

(* The job of s has gone on to another step. *)
Goes(s, step, list) ==
    /\ job'[s].op = job[s].op /\ job'[s].at = step /\ job'[s].uid = job[s].uid
    /\ job'[s].class = job[s].class /\ job'[s].list = list

(* The ways a job moves: on to a step, on with a list, to its end, and in. *)
LEMMA GoMoves ==
    ASSUME NEW s \in Sides, NEW step \in Steps, job \in [Sides -> Jobs], Go(s, step)
    PROVE  /\ job' \in [Sides -> Jobs] /\ Moves(s)
           /\ Goes(s, step, job[s].list) /\ job'[s].plan = job[s].plan
BY DEF Go, Jobs, Moves, Goes

LEMMA GoWithMoves ==
    ASSUME NEW s \in Sides, NEW step \in Steps, NEW list \in SUBSET Uids,
           job \in [Sides -> Jobs], GoWith(s, step, list)
    PROVE  job' \in [Sides -> Jobs] /\ Moves(s) /\ Goes(s, step, list)
BY DEF GoWith, Jobs, Moves, Goes

LEMMA EndMoves ==
    ASSUME NEW s \in Sides, job \in [Sides -> Jobs], End(s)
    PROVE  job' \in [Sides -> Jobs] /\ Moves(s) /\ job'[s] = NoJob
BY Idle DEF End, Moves

LEMMA StartMoves ==
    ASSUME NEW s \in Sides, NEW j \in Jobs, job \in [Sides -> Jobs], Start(s, j)
    PROVE  job' \in [Sides -> Jobs] /\ Moves(s) /\ job'[s] = j /\ Free(s)
BY DEF Start, Moves

(* A list that is worked off. *)
LEMMA LoopMoves ==
    ASSUME NEW s \in Sides, NEW step \in {"delete", "narrowing"}, NEW rest \in SUBSET Uids,
           job \in [Sides -> Jobs], Loop(s, step, rest)
    PROVE  /\ job' \in [Sides -> Jobs] /\ Moves(s)
           /\ \/ rest # {} /\ Goes(s, step, rest)
              \/ rest = {} /\ job'[s] = NoJob /\ step = "narrowing" /\ job[s].op = "pass"
              \/ /\ rest = {} /\ step = "delete"
                 /\ Goes(s, IF job[s].op = "pass" THEN "non_ready" ELSE "narrow", {})
              \/ /\ rest = {} /\ step = "narrowing" /\ job[s].op # "pass"
                 /\ Goes(s, "non_ready", {})
<1> USE DEF Steps, PruneSteps
<1>1. CASE rest # {}
  <2>1. GoWith(s, step, rest)
    BY <1>1 DEF Loop
  <2> QED  BY <1>1, <2>1, GoWithMoves
<1>2. CASE rest = {} /\ step = "narrowing" /\ job[s].op = "pass"
  <2>1. AfterLoop(s, step) = "end"
    BY <1>2 DEF AfterLoop
  <2>2. End(s)
    BY <1>2, <2>1 DEF Loop
  <2> QED  BY <1>2, <2>2, EndMoves
<1>3. CASE rest = {} /\ step = "narrowing" /\ job[s].op # "pass"
  <2>1. AfterLoop(s, step) = "non_ready"
    BY <1>3 DEF AfterLoop
  <2>2. GoWith(s, "non_ready", {})
    BY <1>3, <2>1 DEF Loop
  <2> QED  BY <1>3, <2>2, GoWithMoves
<1>4. CASE rest = {} /\ step = "delete"
  <2> DEFINE next == IF job[s].op = "pass" THEN "non_ready" ELSE "narrow"
  <2>1. AfterLoop(s, step) = next /\ next # "end"
    BY <1>4 DEF AfterLoop
  <2>2. GoWith(s, next, {})
    BY <1>4, <2>1 DEF Loop
  <2> QED  BY <1>4, <2>2, GoWithMoves
<1> QED  BY <1>1, <1>2, <1>3, <1>4

-----------------------------------------------------------------------------
(* The newest of a set of snapshots *)

Below == {ss \in Nat \X Nat : ss[1] < ss[2]}

LEMMA BelowIsWellFounded == IsWellFoundedOn(Below, Nat)
BY NatLessThanWellFounded, Zenon DEF OpToRel, Below

(* Induction on the distance to the last uid: there is a greatest one.     *)
LEMMA MaxOfUids ==
    ASSUME NEW S \in SUBSET Uids, S # {}
    PROVE  Max(S) \in S /\ \A y \in S : y <= Max(S)
<1> DEFINE N == MaxSnapshots
           T == {N - x : x \in S}
<1>0. N \in Nat /\ \A x \in S : x \in Nat /\ x <= N /\ N - x \in Nat
  BY Numbers DEF Uids
<1>1. T \subseteq Nat /\ T # {}
  BY <1>0
<1>2. PICK m \in T : \A y \in T : <<y, m>> \notin Below
  BY <1>1, BelowIsWellFounded, WFMin
<1>3. \A y \in T : m <= y
  <2> HIDE DEF T
  <2>1. m \in Nat /\ \A y \in T : y \in Nat /\ <<y, m>> \in Nat \X Nat
    BY <1>1
  <2>2. \A y \in T : ~(y < m)
    BY <1>2, <2>1 DEF Below
  <2> QED  BY <2>1, <2>2
<1>4. PICK x \in S : m = N - x
  OBVIOUS
<1>5. \A y \in S : y <= x
  <2> TAKE y \in S
  <2>1. m <= N - y
    BY <1>3
  <2> QED  BY <1>0, <1>4, <2>1
<1>6. \E x1 \in S : \A y \in S : x1 >= y
  BY <1>0, <1>5
<1>7. Max(S) \in S /\ \A y \in S : Max(S) >= y
  BY <1>6 DEF Max
<1> QED  BY <1>0, <1>7

(* get_latest_snapshot *)
LEMMA LatestIsNewest ==
    ASSUME Latest # None
    PROVE  Latest \in Ready /\ \A u \in Ready : u <= Latest
BY MaxOfUids DEF Latest, Ready

(* Nothing is served only if nothing is READY.                             *)
LEMMA NothingLatest == Latest = None <=> Ready = {}
BY MaxOfUids, Numbers DEF Latest, Ready

-----------------------------------------------------------------------------
(* What the statements do to the snapshots *)

Same(u) == snap'[u] = snap[u]

(* Nothing a snapshot promises or is served by. *)
Keeps(u) ==
    /\ snap'[u].status = snap[u].status /\ snap'[u].class = snap[u].class
    /\ snap'[u].rows = snap[u].rows /\ snap'[u].epoch = snap[u].epoch

ParentsExist == \A u \in Uids : LET p == snap[u].parent IN p # None => snap[p].status # "absent"

(* delete_snapshots_cascade                                                *)
LEMMA WithoutKeeps ==
    ASSUME snap \in [Uids -> Snapshots], ParentsExist, NEW gone \in SUBSET Uids,
           snap' = Without(gone)
    PROVE  /\ snap' \in [Uids -> Snapshots] /\ ParentsExist'
           /\ \A u \in gone : snap'[u] = Absent
           /\ \A u \in Uids \ gone : Keeps(u)
<1>1. Absent \in Snapshots /\ Absent.status = "absent" /\ Absent.parent = None
  BY DEF Absent, Snapshots, Classes
<1>2. ASSUME NEW u \in Uids \ gone
      PROVE  /\ snap'[u] \in Snapshots /\ Keeps(u)
             /\ snap'[u].parent = IF snap[u].parent \in gone THEN None ELSE snap[u].parent
  <2>1. snap[u] \in Snapshots
    OBVIOUS
  <2>2. snap'[u] = [snap[u] EXCEPT !.parent = IF snap[u].parent \in gone THEN None
                                               ELSE snap[u].parent]
    BY DEF Without
  <2> QED  BY <2>1, <2>2 DEF Snapshots, Keeps
<1>3. \A u \in gone : snap'[u] = Absent
  BY DEF Without
<1>4. snap' \in [Uids -> Snapshots]
  <2>1. snap' = [u \in Uids |-> snap'[u]]
    BY DEF Without
  <2>2. \A u \in Uids : snap'[u] \in Snapshots
    BY <1>1, <1>2, <1>3
  <2> QED  BY <2>1, <2>2
<1>5. ParentsExist'
  <2> SUFFICES ASSUME NEW u \in Uids, snap'[u].parent # None
               PROVE  snap'[snap'[u].parent].status # "absent"
    BY DEF ParentsExist
  <2>1. u \notin gone
    BY <1>1, <1>3
  <2>2. snap'[u].parent = snap[u].parent /\ snap[u].parent \notin gone
    BY <1>2, <2>1
  <2>3. snap[u].parent \in Uids
    BY <2>2 DEF Snapshots
  <2> QED  BY <1>2, <2>2, <2>3 DEF ParentsExist, Keeps
<1> QED  BY <1>2, <1>3, <1>4, <1>5

(* An UPDATE of the snapshots that are there: their rows and parents stay. *)
LEMMA UpdateKeepsTypes ==
    ASSUME snap \in [Uids -> Snapshots], ParentsExist, DOMAIN snap' = Uids,
           snap' = [u \in Uids |-> snap'[u]],
           \A u \in Uids :
              /\ snap'[u] \in Snapshots /\ snap'[u].parent = snap[u].parent
              /\ snap'[u].status = "absent" => snap[u].status = "absent"
    PROVE  snap' \in [Uids -> Snapshots] /\ ParentsExist'
<1>1. \A u \in Uids : snap[u].parent \in Uids \cup {None}
  BY DEF Snapshots
<1> QED  BY <1>1 DEF ParentsExist

-----------------------------------------------------------------------------
(* One side at a time *)

Recorded == overlapped' = (overlapped \/ Overlap')

(* What the step a job is at says of the job.                              *)
LEMMA Placing ==
    ASSUME Typed, NEW s \in Sides
    PROVE  /\ job[s] \in Jobs /\ (Free(s) <=> job[s].at = "none")
           /\ job[s].at \in {"building", "postpass"} =>
                 s = "db" /\ job[s].op \in {"index", "refresh"} /\ job[s].uid \in Uids
           /\ At(s, "mark") => s = "co" /\ job[s].op \in {"mark", "unmark"}
           /\ job[s].op \in {"mark", "unmark"} => s = "co" /\ job[s].uid \in Uids
           /\ job[s].op \in {"index", "refresh", "pass"} => s = "db"
           /\ job[s].op = "maintenance" => s = "co"
           /\ job[s].at \in {"select", "delete", "non_ready", "narrow", "narrowing"} =>
                 job[s].op \in {"pass", "maintenance"}
<1>1. job[s] \in Jobs /\ Placed(s)
  BY DEF Typed
<1>2. job[s].op \in OpsOf(s) /\ job[s].at \in StepsOf(job[s].op) /\ s \in {"db", "co"}
  BY <1>1 DEF Placed, Sides
<1>3. last \in 0 .. MaxSnapshots
  BY DEF Typed, TypeOK
<1>4. job[s].op \in {"mark", "unmark"} => job[s].uid \in Uids
  BY <1>1, <1>3, Numbers DEF Placed, Uids
<1>5. job[s].at \in {"building", "postpass"} => job[s].uid \in Uids
  BY <1>1, <1>3, Numbers DEF Placed, Uids
<1>6. job[s].op \in {"none", "index", "refresh", "pass", "mark", "unmark", "maintenance"}
  BY <1>2 DEF OpsOf
<1>7. CASE job[s].op = "none"
  BY <1>1, <1>2, <1>7 DEF StepsOf, Free, At
<1>8. CASE job[s].op \in {"index", "refresh"}
  BY <1>1, <1>2, <1>5, <1>8 DEF StepsOf, BuildSteps, OpsOf, Free, At
<1>9. CASE job[s].op \in {"mark", "unmark"}
  BY <1>1, <1>2, <1>4, <1>9 DEF StepsOf, MarkSteps, OpsOf, Free, At
<1>10. CASE job[s].op \in {"pass", "maintenance"}
  BY <1>1, <1>2, <1>10 DEF StepsOf, PruneSteps, OpsOf, Free, At
<1> QED  BY <1>6, <1>7, <1>8, <1>9, <1>10

(* Without an overlap on record, one side is idle.                         *)
LEMMA OneAtWork ==
    ASSUME Typed, Refreshing, OverlapIsOnRecord, ~overlapped
    PROVE  Free("db") \/ Free("co")
BY Placing DEF Refreshing, OverlapIsOnRecord, Overlap, Free, Typed, Placed, OpsOf, Sides

(* While the sides take turns, the other one is idle before and after. *)
LEMMA OthersAreIdle ==
    ASSUME Typed, Refreshing, OverlapIsOnRecord, (Typed /\ Refreshing /\ OverlapIsOnRecord)',
           NEW s \in Sides, Moves(s), job[s].op # "none" \/ job'[s].op # "none",
           Recorded, ~overlapped'
    PROVE  /\ ~overlapped
           /\ \A r \in Sides \ {s} :
                 /\ job[r].op = "none" /\ job[r].at = "none"
                 /\ job'[r].op = "none" /\ job'[r].at = "none"
<1>1. ~overlapped
  BY DEF Recorded
<1>2. Free("db") \/ Free("co")
  BY <1>1, OneAtWork
<1>3. (Free("db") \/ Free("co"))'
  BY OneAtWork, PTL
<1>4. \A r \in Sides \ {s} : job'[r] = job[r] /\ job[r].op = "none"
  BY <1>2, <1>3 DEF Moves, Free, Sides
<1> QED  BY <1>1, <1>4, Placing DEF Free

(* Then the order is kept if the mover keeps it. *)
OrderlyAt(s) ==
    /\ PlanIsSound(s) /\ PruneIsSound(s) /\ NarrowIsSound(s)

LEMMA OrderlyIfMoverIs ==
    ASSUME NEW s \in Sides, \A r \in Sides \ {s} : job'[r].at = "none",
           OrderlyAt(s)', (RowsArePromised /\ MarksStand /\ BuildIsNew /\ MarkInHand)',
           ServingHasRows'
    PROVE  Orderly'
<1>1. \A r \in Sides \ {s} : OrderlyAt(r)'
  BY DEF OrderlyAt, PlanIsSound, PruneIsSound, NarrowIsSound, At
<1> QED  BY <1>1 DEF Orderly, OrderlyAt

(* What a step that is not recorded as an overlap owes. *)
LEMMA IndInvIf ==
    ASSUME IndInv, Recorded, NEW s \in Sides, Moves(s),
           job[s].op # "none" \/ job'[s].op # "none",
           (Typed /\ Created /\ Building /\ Refreshing /\ StaleNeedsAnUpgrade)',
           ASSUME ~overlapped, ~overlapped',
                  \A r \in Sides \ {s} : job[r].op = "none" /\ job[r].at = "none",
                  RowsArePromised, MarksStand, BuildIsNew, MarkInHand, ServingHasRows,
                  OrderlyAt(s)
           PROVE  /\ OrderlyAt(s)' /\ ServingHasRows'
                  /\ (RowsArePromised /\ MarksStand /\ BuildIsNew /\ MarkInHand)'
    PROVE  IndInv'
<1>1. OverlapIsOnRecord'
  BY DEF Recorded, OverlapIsOnRecord
<1>2. ASSUME ~overlapped' PROVE Orderly'
  <2>1. /\ ~overlapped
        /\ \A r \in Sides \ {s} :
              /\ job[r].op = "none" /\ job[r].at = "none"
              /\ job'[r].op = "none" /\ job'[r].at = "none"
    BY <1>1, <1>2, OthersAreIdle DEF IndInv
  <2>2. /\ RowsArePromised /\ MarksStand /\ BuildIsNew /\ MarkInHand /\ ServingHasRows
        /\ OrderlyAt(s)
    BY <2>1 DEF IndInv, Orderly, OrderlyAt
  <2>3. /\ OrderlyAt(s)' /\ ServingHasRows'
        /\ (RowsArePromised /\ MarksStand /\ BuildIsNew /\ MarkInHand)'
    BY <1>2, <2>1, <2>2
  <2> QED  BY <2>1, <2>3, OrderlyIfMoverIs
<1>3. Orderly'
  BY <1>2 DEF Orderly
<1> QED  BY <1>1, <1>3 DEF IndInv

(* The types, from those of what the step changes.                         *)
LEMMA TypedIf ==
    ASSUME Typed, Recorded, NEW s \in Sides, Moves(s), job' \in [Sides -> Jobs], Placed(s)',
           snap' \in [Uids -> Snapshots], ParentsExist',
           last' \in 0 .. MaxSnapshots, last' = last \/ (s = "db" /\ last' = last + 1),
           upgrades' = upgrades, promised' \in [Uids -> UserMarks \cup {"none"}]
    PROVE  Typed'
<1>1. last \in Nat
  BY Numbers DEF Typed, TypeOK
<1>0. overlapped' \in BOOLEAN
  BY DEF Recorded
<1>2. \A r \in Sides \ {s} : Placed(r)'
  <2> TAKE r \in Sides \ {s}
  <2>1. job'[r] = job[r] /\ Placed(r)
    BY DEF Moves, Typed
  <2>2. job[r].at \in {"building", "postpass"} => r = "db"
    BY Placing
  <2> QED  BY <1>1, <2>1, <2>2 DEF Placed
<1>3. TypeOK'
  BY <1>0, <1>1 DEF TypeOK, ParentsExist, Typed
<1> QED  BY <1>2, <1>3 DEF Typed

-----------------------------------------------------------------------------
(* index and refresh *)

LEMMA StartBuildKeeps ==
    ASSUME IndInv, Recorded, NEW op \in {"index", "refresh"}, NEW parent \in Ready \cup {None},
           StartBuild(op, parent), op = "index" => parent = None,
           op = "refresh" => Free("co") /\ (parent # None => snap[parent].rows)
    PROVE  IndInv'
<1> DEFINE n == last + 1
           L == IF parent = None THEN {} ELSE {parent}
           j == [NoJob EXCEPT !.op = op, !.at = "building", !.uid = n, !.list = L]
<1>0. Typed
  BY DEF IndInv
<1>1. n \in Uids /\ n \in 0 .. MaxSnapshots /\ last \in Nat /\ last' = n /\ last' # 0
  BY Numbers DEF IndInv, Typed, TypeOK, StartBuild, Uids
<1>2. L \in SUBSET Uids
  BY DEF Ready
<1>3. /\ j \in Jobs /\ j.op = op /\ j.at = "building" /\ j.uid = n /\ j.list = L
      /\ j.class = "none"
  BY <1>1, <1>2, Idle DEF Jobs, NoJob, Ops, Steps, BuildSteps, Classes
<1>4. job' \in [Sides -> Jobs] /\ Moves("db") /\ job'["db"] = j /\ Free("db")
  <2>1. Start("db", j)
    BY DEF StartBuild
  <2> QED  BY <1>3, <2>1, StartMoves DEF IndInv, Typed, Sides
<1> HIDE DEF j, L
<1>5. snap \in [Uids -> Snapshots] /\ ParentsExist
  BY DEF IndInv, Typed, TypeOK, ParentsExist
<1>6. /\ snap' = [snap EXCEPT ![n] = NewSnapshot(parent)]
      /\ NewSnapshot(parent) \in Snapshots
      /\ NewSnapshot(parent).status = "building" /\ NewSnapshot(parent).rows = TRUE
      /\ NewSnapshot(parent).class = "none" /\ NewSnapshot(parent).epoch = "null"
      /\ NewSnapshot(parent).parent = parent
  BY DEF StartBuild, NewSnapshot, Snapshots, Ready, Classes
<1>7. /\ snap' \in [Uids -> Snapshots]
      /\ \A u \in Uids \ {n} : snap'[u] = snap[u]
      /\ snap'[n].status = "building" /\ snap'[n].rows = TRUE /\ snap'[n].class = "none"
      /\ snap'[n].epoch = "null" /\ snap'[n].parent = parent
  BY <1>1, <1>5, <1>6
<1>8. parent # None => parent \in Uids \ {n} /\ snap[parent].status = "ready"
  BY <1>1 DEF IndInv, Created, Ready
<1>9. ParentsExist'
  <2>1. \A u \in Uids : snap[u].parent \in Uids \cup {None}
    BY <1>5 DEF Snapshots
  <2> QED  BY <1>5, <1>7, <1>8, <2>1 DEF ParentsExist
<1>10. upgrades' = upgrades /\ promised' = promised
  BY DEF StartBuild
<1>11. Placed("db")'
  BY <1>1, <1>3, <1>4 DEF Placed, OpsOf, StepsOf, BuildSteps
<1>12. Typed'
  BY <1>0, <1>1, <1>4, <1>7, <1>9, <1>10, <1>11, TypedIf DEF Typed, TypeOK, Sides
<1>13. Created'
  <2>1. \A u \in Uids : u <= last => u <= last'
    BY <1>1, Numbers
  <2>2. n <= last'
    BY <1>1
  <2> QED  BY <1>7, <1>10, <2>1, <2>2 DEF IndInv, Created
<1>14. Ready' = Ready /\ n \notin Ready
  BY <1>1, <1>7 DEF Ready, IndInv, Created
<1>15. Building'
  <2>1. LiveBuildSurvives'
    BY <1>3, <1>4, <1>7 DEF LiveBuildSurvives
  <2>2. \A r \in Sides : job'[r].at = "delete" => r = "co" /\ job'[r] = job[r]
    BY <1>3, <1>4 DEF Moves, Sides
  <2>3. \A u \in job["co"].list : u \in Uids
    BY <1>0 DEF Typed, Jobs, Sides
  <2>4. \A u \in Uids : u <= last => u <= last' /\ u # n
    BY <1>1, Numbers
  <2> QED  BY <1>7, <2>1, <2>2, <2>3, <2>4 DEF IndInv, Building, At, Sides
<1>16. Refreshing'
  BY <1>3, <1>4, <1>7, <1>8 DEF Refreshing, Free, Moves, L, Sides
<1>17. StaleNeedsAnUpgrade'
  BY <1>7, <1>10 DEF StaleNeedsAnUpgrade, IndInv, IsValidEpoch
<1>18. ASSUME ~overlapped, ~overlapped',
              \A r \in Sides \ {"db"} : job[r].op = "none" /\ job[r].at = "none",
              RowsArePromised, MarksStand, BuildIsNew, MarkInHand, ServingHasRows,
              OrderlyAt("db")
       PROVE  /\ OrderlyAt("db")' /\ ServingHasRows'
              /\ (RowsArePromised /\ MarksStand /\ BuildIsNew /\ MarkInHand)'
  <2>1. promised[n] = "none"
    BY <1>1 DEF IndInv, Created
  <2>2. OrderlyAt("db")'
    BY <1>3, <1>4 DEF OrderlyAt, PlanIsSound, PruneIsSound, NarrowIsSound, At
  <2>3. \A u \in Ready : snap'[u] = snap[u]
    BY <1>7, <1>14 DEF Ready
  <2>4. ServingHasRows'
    BY <1>3, <1>4, <1>10, <1>14, <1>18, <2>3 DEF ServingHasRows, TopHasRows, At
  <2>5. RowsArePromised'
    BY <1>7, <1>18 DEF RowsArePromised
  <2>6. MarksStand'
    BY <1>7, <1>10, <1>18, <2>1 DEF MarksStand, MarkStands, IsUserMark
  <2>7. BuildIsNew'
    BY <1>3, <1>4, <1>7, <1>10, <2>1 DEF BuildIsNew
  <2>8. MarkInHand'
    BY <1>4, <1>18 DEF MarkInHand, Moves, Sides
  <2> QED  BY <2>2, <2>4, <2>5, <2>6, <2>7, <2>8
<1> QED
  BY <1>3, <1>4, <1>12, <1>13, <1>15, <1>16, <1>17, <1>18, IndInvIf DEF Sides

LEMMA StartIndexKeeps ==
    ASSUME IndInv, Recorded, StartIndex
    PROVE  IndInv'
BY StartBuildKeeps DEF StartIndex

LEMMA StartRefreshKeeps ==
    ASSUME IndInv, Recorded, StartRefresh
    PROVE  IndInv'
<1>1. Free("co")
  BY DEF StartRefresh, CoordinatorFree
<1>2. CASE Latest # None /\ snap[Latest].rows /\ StartBuild("refresh", Latest)
  BY <1>1, <1>2, LatestIsNewest, StartBuildKeeps
<1>3. CASE StartBuild("refresh", None)
  BY <1>1, <1>3, StartBuildKeeps
<1> QED  BY <1>2, <1>3 DEF StartRefresh

(* update_snapshot_status, on the snapshot the build holds. *)
LEMMA StatusIsSet ==
    ASSUME Typed, NEW u \in Uids, NEW status \in {"ready", "failed"}, SetStatus(u, status)
    PROVE  /\ snap' \in [Uids -> Snapshots] /\ ParentsExist'
           /\ \A v \in Uids \ {u} : snap'[v] = snap[v]
           /\ snap'[u].status = IF snap[u].status = "absent" THEN "absent" ELSE status
           /\ snap'[u].class = snap[u].class /\ snap'[u].rows = snap[u].rows
           /\ snap'[u].epoch = snap[u].epoch
<1> DEFINE st == IF snap[u].status = "absent" THEN "absent" ELSE status
<1>1. snap \in [Uids -> Snapshots] /\ ParentsExist /\ snap[u] \in Snapshots
  BY DEF Typed, TypeOK, ParentsExist
<1>2. snap' = [snap EXCEPT ![u].status = st] /\ st \in {"absent", "ready", "failed"}
  BY DEF SetStatus
<1>3. snap' = [v \in Uids |-> snap'[v]] /\ \A v \in Uids \ {u} : snap'[v] = snap[v]
  BY <1>1, <1>2
<1>4. snap'[u] = [snap[u] EXCEPT !.status = st]
  BY <1>1, <1>2
<1>5. /\ snap'[u] \in Snapshots /\ snap'[u].status = st /\ snap'[u].parent = snap[u].parent
      /\ snap'[u].class = snap[u].class /\ snap'[u].rows = snap[u].rows
      /\ snap'[u].epoch = snap[u].epoch
  <2> HIDE DEF st
  <2> QED  BY <1>1, <1>2, <1>4 DEF Snapshots
<1>6. snap' \in [Uids -> Snapshots] /\ ParentsExist'
  <2>1. \A v \in Uids :
           /\ snap'[v] \in Snapshots /\ snap'[v].parent = snap[v].parent
           /\ snap'[v].status = "absent" => snap[v].status = "absent"
    BY <1>1, <1>3, <1>5
  <2> QED  BY <1>1, <1>3, <2>1, UpdateKeepsTypes
<1> QED  BY <1>3, <1>5, <1>6

(* The snapshot under construction is the newest. *)
LEMMA BuildIsLast ==
    ASSUME IndInv, job["db"].at \in {"building", "postpass"}
    PROVE  /\ job["db"].uid \in Uids /\ job["db"].uid = last
           /\ job["db"].op \in {"index", "refresh"}
           /\ \A u \in Ready : u <= job["db"].uid
<1>1. /\ job["db"].uid \in Uids /\ job["db"].uid = last
      /\ job["db"].op \in {"index", "refresh"}
  BY Placing DEF IndInv, Typed, Placed, Sides
<1> QED  BY <1>1 DEF IndInv, Created, Ready

LEMMA BuildReadyKeeps ==
    ASSUME IndInv, Recorded, BuildReady
    PROVE  IndInv'
<1> DEFINE n == job["db"].uid
<1>0. Typed /\ job \in [Sides -> Jobs] /\ "db" \in Sides /\ "postpass" \in Steps
  BY DEF IndInv, Typed, Sides, Steps, BuildSteps
<1>1. /\ n \in Uids /\ n = last /\ job["db"].op \in {"index", "refresh"}
      /\ \A u \in Ready : u <= n
  BY BuildIsLast DEF BuildReady, At
<1>2. job' \in [Sides -> Jobs] /\ Moves("db") /\ Goes("db", "postpass", job["db"].list)
  BY <1>0, GoMoves DEF BuildReady
<1>3. snap[n].status = "building"
  BY DEF IndInv, Building, LiveBuildSurvives, BuildReady
<1>4. /\ snap' \in [Uids -> Snapshots] /\ ParentsExist'
      /\ \A v \in Uids \ {n} : snap'[v] = snap[v]
      /\ snap'[n].status = "ready" /\ snap'[n].class = snap[n].class
      /\ snap'[n].rows = snap[n].rows /\ snap'[n].epoch = snap[n].epoch
  BY <1>0, <1>1, <1>3, StatusIsSet DEF BuildReady
<1>5. last' = last /\ upgrades' = upgrades /\ promised' = promised
  BY DEF BuildReady
<1>6. Placed("db")'
  BY <1>0, <1>1, <1>2, <1>5 DEF Placed, Goes, OpsOf, StepsOf, BuildSteps, BuildReady, At, Typed
<1> HIDE DEF n
<1>7. Typed'
  BY <1>0, <1>2, <1>4, <1>5, <1>6, TypedIf DEF Typed, TypeOK
<1>8. Created' /\ StaleNeedsAnUpgrade'
  BY <1>3, <1>4, <1>5 DEF IndInv, Created, StaleNeedsAnUpgrade, IsValidEpoch
<1>9. Building'
  <2>1. \A u \in job["co"].list : u \in Uids
    BY <1>0 DEF Jobs, Sides
  <2> QED  BY <1>2, <1>4, <1>5, <2>1 DEF IndInv, Building, LiveBuildSurvives, At, Moves, Goes, Sides
<1>10. Refreshing'
  <2>1. \A u \in job["db"].list : u \in Uids
    BY <1>0 DEF Jobs, Sides
  <2> QED  BY <1>1, <1>2, <1>4, <2>1
              DEF IndInv, Refreshing, Free, Moves, Goes, Sides, BuildReady, At, n
<1>11. Ready' = Ready \cup {n} /\ n \notin Ready
  BY <1>1, <1>3, <1>4 DEF Ready
<1>12. ASSUME ~overlapped, ~overlapped',
              \A r \in Sides \ {"db"} : job[r].op = "none" /\ job[r].at = "none",
              RowsArePromised, MarksStand, BuildIsNew, MarkInHand, ServingHasRows,
              OrderlyAt("db")
       PROVE  /\ OrderlyAt("db")' /\ ServingHasRows'
              /\ (RowsArePromised /\ MarksStand /\ BuildIsNew /\ MarkInHand)'
  <2>1. promised[n] = "none" /\ snap[n].rows /\ job'["db"].uid = n
    BY <1>2, <1>12 DEF BuildIsNew, BuildReady, At, n, Goes
  <2>2. OrderlyAt("db")'
    BY <1>2 DEF OrderlyAt, PlanIsSound, PruneIsSound, NarrowIsSound, At, Goes
  <2>3. ServingHasRows'
    <3>1. (\A v \in Ready : v <= n) /\ n \in Nat /\ Ready \subseteq Nat
      BY <1>1, Numbers DEF Ready
    <3>2. /\ (Ready \ {job["db"].uid})' = Ready
          /\ \A u \in Ready : snap'[u] = snap[u]
      BY <1>4, <1>11, <2>1 DEF Ready
    <3>3. upgrades = 0 => TopHasRows(Ready \ {job["db"].uid})'
      BY <1>12, <3>2 DEF TopHasRows, ServingHasRows
    <3>4. ASSUME NEW u \in Ready', \A v \in Ready' : v <= u PROVE u = n
      BY <1>11, <3>1, <3>4
    <3>5. TopHasRows(Ready)'
      BY <1>4, <2>1, <3>4 DEF TopHasRows
    <3> QED  BY <1>5, <3>3, <3>5 DEF ServingHasRows
  <2>5. RowsArePromised' /\ MarksStand' /\ BuildIsNew'
    BY <1>4, <1>5, <1>12, <2>1 DEF RowsArePromised, MarksStand, MarkStands, IsUserMark, BuildIsNew
  <2>6. MarkInHand'
    BY <1>2, <1>12 DEF MarkInHand, Moves, Sides
  <2> QED  BY <2>2, <2>3, <2>5, <2>6
<1> QED
  BY <1>0, <1>1, <1>2, <1>7, <1>8, <1>9, <1>10, <1>12, IndInvIf

(* A job that is over keeps whatever a job has to keep. *)
LEMMA OverIsSound ==
    ASSUME NEW s \in Sides, job'[s] = NoJob
    PROVE  /\ job'[s].op = "none" /\ job'[s].at = "none"
           /\ Placed(s)' /\ OrderlyAt(s)'
           /\ s = "db" => BuildIsNew'
           /\ s = "co" => MarkInHand'
<1>1. job'[s].op = "none" /\ job'[s].at = "none"
  BY DEF NoJob
<1>2. Placed(s)'
  BY <1>1 DEF Placed, OpsOf, StepsOf
<1>3. OrderlyAt(s)'
  BY <1>1 DEF OrderlyAt, PlanIsSound, PruneIsSound, NarrowIsSound, At
<1>4. (s = "db" => BuildIsNew') /\ (s = "co" => MarkInHand')
  BY <1>1 DEF BuildIsNew, MarkInHand
<1> QED  BY <1>1, <1>2, <1>3, <1>4

LEMMA BuildFailsKeeps ==
    ASSUME IndInv, Recorded, BuildFails
    PROVE  IndInv'
<1> DEFINE n == job["db"].uid
<1>0. Typed /\ job \in [Sides -> Jobs] /\ "db" \in Sides
  BY DEF IndInv, Typed, Sides
<1>1. /\ n \in Uids /\ job["db"].op \in {"index", "refresh"}
      /\ job["db"].at \in {"building", "postpass"}
  BY BuildIsLast DEF BuildFails, At
<1>2. job' \in [Sides -> Jobs] /\ Moves("db") /\ job'["db"] = NoJob
  BY <1>0, EndMoves DEF BuildFails
<1>3. /\ snap' \in [Uids -> Snapshots] /\ ParentsExist'
      /\ \A v \in Uids \ {n} : snap'[v] = snap[v]
      /\ snap'[n].status \in {"absent", "failed"}
      /\ snap[n].status = "absent" => snap'[n].status = "absent"
      /\ snap'[n].class = snap[n].class
      /\ snap'[n].rows = snap[n].rows /\ snap'[n].epoch = snap[n].epoch
  BY <1>0, <1>1, StatusIsSet DEF BuildFails
<1>4. last' = last /\ upgrades' = upgrades /\ promised' = promised
  BY DEF BuildFails
<1>5. job'["db"].op = "none" /\ job'["db"].at = "none" /\ Placed("db")' /\ OrderlyAt("db")'
      /\ BuildIsNew'
  BY <1>0, <1>2, OverIsSound
<1>6. Typed'
  BY <1>0, <1>2, <1>3, <1>4, <1>5, TypedIf DEF Typed, TypeOK
<1> HIDE DEF n
<1>7. Created' /\ StaleNeedsAnUpgrade'
  BY <1>3, <1>4 DEF IndInv, Created, StaleNeedsAnUpgrade, IsValidEpoch
<1>8. Building'
  <2>1. \A u \in job["co"].list : u \in Uids
    BY <1>0 DEF Jobs, Sides
  <2> QED  BY <1>2, <1>3, <1>4, <1>5, <2>1 DEF IndInv, Building, LiveBuildSurvives, At, Moves, Sides
<1>9. Refreshing'
  BY <1>5 DEF Refreshing
<1>10. Ready' = Ready \ {n}
  BY <1>1, <1>3 DEF Ready
<1>11. ASSUME ~overlapped, ~overlapped',
              \A r \in Sides \ {"db"} : job[r].op = "none" /\ job[r].at = "none",
              RowsArePromised, MarksStand, BuildIsNew, MarkInHand, ServingHasRows,
              OrderlyAt("db")
       PROVE  /\ OrderlyAt("db")' /\ ServingHasRows'
              /\ (RowsArePromised /\ MarksStand /\ BuildIsNew /\ MarkInHand)'
  <2>1. promised[n] = "none"
    BY <1>1, <1>11 DEF BuildIsNew, n
  <2>2. upgrades = 0 => TopHasRows(Ready \ {n})
    <3>1. At("db", "building") => n \notin Ready
      BY DEF IndInv, Building, LiveBuildSurvives, Ready, n
    <3>2. At("db", "building") => Ready \ {n} = Ready
      BY <3>1
    <3> QED  BY <1>1, <1>11, <3>2 DEF ServingHasRows, n, At
  <2>3. \A u \in Ready \ {n} : snap'[u] = snap[u]
    BY <1>3 DEF Ready
  <2>4. ServingHasRows'
    BY <1>4, <1>5, <1>10, <2>2, <2>3 DEF ServingHasRows, TopHasRows, At
  <2>5. RowsArePromised' /\ MarksStand'
    BY <1>3, <1>4, <1>11, <2>1 DEF RowsArePromised, MarksStand, MarkStands, IsUserMark
  <2>6. MarkInHand'
    BY <1>2, <1>11 DEF MarkInHand, Moves, Sides
  <2> QED  BY <1>5, <2>4, <2>5, <2>6
<1> QED
  BY <1>0, <1>1, <1>2, <1>6, <1>7, <1>8, <1>9, <1>11, IndInvIf

(* A step that writes no snapshot. *)
LEMMA QuietKeeps ==
    ASSUME IndInv, Recorded, NEW s \in Sides, Moves(s), job' \in [Sides -> Jobs],
           job[s].op # "none" \/ job'[s].op # "none", Placed(s)',
           UNCHANGED <<snap, last, upgrades>>,
           promised' \in [Uids -> UserMarks \cup {"none"}],
           \A u \in Uids : promised'[u] # "none" => u <= last,
           job'[s].at \notin {"building", "postpass"},
           job'[s].at = "delete" =>
              \A u \in job'[s].list : u <= last /\ snap[u].status # "building",
           job'[s].op = "refresh" => job[s].op = "refresh" /\ job'[s].list = job[s].list,
           s = "co" /\ job'[s].op # "none" => job["db"].op # "refresh",
           ASSUME ~overlapped,
                  \A r \in Sides \ {s} : job[r].op = "none" /\ job[r].at = "none",
                  RowsArePromised, MarksStand, BuildIsNew, MarkInHand, OrderlyAt(s)
           PROVE  (OrderlyAt(s) /\ MarksStand /\ MarkInHand)'
    PROVE  IndInv'
<1>0. Typed /\ Sides = {"db", "co"}
  BY DEF IndInv, Sides
<1>1. snap' = snap /\ last' = last /\ upgrades' = upgrades /\ Ready' = Ready
  BY DEF Ready
<1>2. Typed'
  <2>1. snap \in [Uids -> Snapshots] /\ ParentsExist /\ last \in 0 .. MaxSnapshots
    BY <1>0 DEF Typed, TypeOK, ParentsExist
  <2>2. snap' \in [Uids -> Snapshots] /\ ParentsExist' /\ last' \in 0 .. MaxSnapshots
    BY <1>1, <2>1 DEF ParentsExist
  <2> QED  BY <1>0, <1>1, <2>2, TypedIf
<1>3. Created' /\ StaleNeedsAnUpgrade'
  BY <1>1 DEF IndInv, Created, StaleNeedsAnUpgrade, IsValidEpoch
<1>4. Building'
  BY <1>0, <1>1 DEF IndInv, Building, LiveBuildSurvives, At, Moves
<1>5. Refreshing'
  <2>1. CASE s = "db"
    BY <1>0, <1>1, <2>1 DEF IndInv, Refreshing, Free, Moves
  <2>2. CASE s = "co"
    BY <1>0, <1>1, <2>2 DEF IndInv, Refreshing, Free, Moves
  <2> QED  BY <1>0, <2>1, <2>2
<1>6. ASSUME ~overlapped, ~overlapped',
             \A r \in Sides \ {s} : job[r].op = "none" /\ job[r].at = "none",
             RowsArePromised, MarksStand, BuildIsNew, MarkInHand, ServingHasRows,
             OrderlyAt(s)
      PROVE  /\ OrderlyAt(s)' /\ ServingHasRows'
             /\ (RowsArePromised /\ MarksStand /\ BuildIsNew /\ MarkInHand)'
  <2>1. (OrderlyAt(s) /\ MarksStand /\ MarkInHand)'
    BY <1>6
  <2>2. RowsArePromised'
    BY <1>1, <1>6 DEF RowsArePromised
  <2>3. job'["db"].at \notin {"building", "postpass"}
    BY <1>0, <1>6 DEF Moves
  <2>4. ServingHasRows' /\ BuildIsNew'
    BY <1>1, <1>6, <2>3 DEF ServingHasRows, TopHasRows, At, BuildIsNew
  <2> QED  BY <2>1, <2>2, <2>4
<1> QED
  BY <1>2, <1>3, <1>4, <1>5, <1>6, IndInvIf

(* ... and no promise. *)
LEMMA CalmKeeps ==
    ASSUME IndInv, Recorded, NEW s \in Sides, Moves(s), job' \in [Sides -> Jobs],
           job[s].op # "none" \/ job'[s].op # "none", Placed(s)',
           UNCHANGED <<snap, last, upgrades, promised>>,
           job'[s].at \notin {"building", "postpass"},
           job'[s].at = "delete" =>
              \A u \in job'[s].list : u <= last /\ snap[u].status # "building",
           job'[s].op = "refresh" => job[s].op = "refresh" /\ job'[s].list = job[s].list,
           s = "co" /\ job'[s].op # "none" => job["db"].op # "refresh",
           ASSUME ~overlapped, RowsArePromised, MarksStand, MarkInHand, OrderlyAt(s)
           PROVE  OrderlyAt(s)' /\ (s = "co" => MarkInHand')
    PROVE  IndInv'
<1>1. ASSUME ~overlapped,
             \A r \in Sides \ {s} : job[r].op = "none" /\ job[r].at = "none",
             RowsArePromised, MarksStand, BuildIsNew, MarkInHand, OrderlyAt(s)
      PROVE  (OrderlyAt(s) /\ MarksStand /\ MarkInHand)'
  <2>1. OrderlyAt(s)' /\ (s = "co" => MarkInHand')
    BY <1>1
  <2>2. MarksStand'
    BY <1>1 DEF MarksStand, MarkStands, IsUserMark
  <2>3. s # "co" => MarkInHand'
    BY <1>1 DEF MarkInHand, Moves, Sides
  <2> QED  BY <2>1, <2>2, <2>3
<1>2. /\ promised' \in [Uids -> UserMarks \cup {"none"}]
      /\ \A u \in Uids : promised'[u] # "none" => u <= last
  BY DEF IndInv, Created, Typed, TypeOK
<1> QED  BY <1>1, <1>2, QuietKeeps

LEMMA BuildDoneKeeps ==
    ASSUME IndInv, Recorded, BuildDone
    PROVE  IndInv'
<1>0. Typed /\ job \in [Sides -> Jobs] /\ "db" \in Sides /\ "classify" \in Steps
  BY DEF IndInv, Typed, Sides, Steps, BuildSteps
<1>1. job["db"].op \in {"index", "refresh"}
  BY BuildIsLast DEF BuildDone, At
<1>2. /\ job' \in [Sides -> Jobs] /\ Moves("db") /\ job'["db"].op = job["db"].op
      /\ job'["db"].at = "classify" /\ job'["db"].list = job["db"].list
  BY <1>0 DEF BuildDone, Jobs, Moves
<1>3. Placed("db")'
  BY <1>1, <1>2 DEF Placed, OpsOf, StepsOf, BuildSteps
<1>4. OrderlyAt("db")'
  BY <1>2 DEF OrderlyAt, PlanIsSound, PruneIsSound, NarrowIsSound, At
<1>5. UNCHANGED <<snap, last, upgrades, promised>>
  BY DEF BuildDone
<1> QED  BY <1>0, <1>1, <1>2, <1>3, <1>4, <1>5, CalmKeeps

-----------------------------------------------------------------------------
(* The jobs that are started, and the ones that stop *)

LEMMA StartPassKeeps ==
    ASSUME IndInv, Recorded, StartPass
    PROVE  IndInv'
<1> DEFINE j == [NoJob EXCEPT !.op = "pass", !.at = "classify"]
<1>0. job \in [Sides -> Jobs] /\ "db" \in Sides
  BY DEF IndInv, Typed, Sides
<1>1. j \in Jobs /\ j.op = "pass" /\ j.at = "classify"
  BY Idle DEF Jobs, NoJob, Ops, Steps, PruneSteps
<1>2. job' \in [Sides -> Jobs] /\ Moves("db") /\ job'["db"] = j
  BY <1>0, <1>1, StartMoves DEF StartPass
<1> HIDE DEF j
<1>3. Placed("db")'
  BY <1>1, <1>2 DEF Placed, OpsOf, StepsOf, PruneSteps
<1>4. OrderlyAt("db")'
  BY <1>1, <1>2 DEF OrderlyAt, PlanIsSound, PruneIsSound, NarrowIsSound, At
<1>5. UNCHANGED <<snap, last, upgrades, promised>>
  BY DEF StartPass
<1> QED  BY <1>0, <1>1, <1>2, <1>3, <1>4, <1>5, CalmKeeps

LEMMA StartMaintenanceKeeps ==
    ASSUME IndInv, Recorded, StartMaintenance
    PROVE  IndInv'
<1> DEFINE j == [NoJob EXCEPT !.op = "maintenance", !.at = "classify"]
<1>0. job \in [Sides -> Jobs] /\ "co" \in Sides /\ job["db"].op # "refresh"
  BY DEF IndInv, Typed, Sides, StartMaintenance, CoordinatorFree
<1>1. j \in Jobs /\ j.op = "maintenance" /\ j.at = "classify"
  BY Idle DEF Jobs, NoJob, Ops, Steps, PruneSteps
<1>2. job' \in [Sides -> Jobs] /\ Moves("co") /\ job'["co"] = j
  BY <1>0, <1>1, StartMoves DEF StartMaintenance
<1> HIDE DEF j
<1>3. Placed("co")'
  BY <1>1, <1>2 DEF Placed, OpsOf, StepsOf, PruneSteps
<1>4. OrderlyAt("co")'
  BY <1>1, <1>2 DEF OrderlyAt, PlanIsSound, PruneIsSound, NarrowIsSound, At
<1>5. MarkInHand'
  BY <1>1, <1>2 DEF MarkInHand
<1>6. UNCHANGED <<snap, last, upgrades, promised>>
  BY DEF StartMaintenance
<1> QED  BY <1>0, <1>1, <1>2, <1>3, <1>4, <1>5, <1>6, CalmKeeps

LEMMA StartMarkKeeps ==
    ASSUME IndInv, Recorded, NEW u \in Uids, NEW retain_rows \in BOOLEAN,
           StartMark(u, retain_rows)
    PROVE  IndInv'
<1> DEFINE c == MarkClass(u, retain_rows)
           j == [NoJob EXCEPT !.op = "mark", !.at = "mark", !.uid = u, !.class = c]
<1>0. job \in [Sides -> Jobs] /\ "co" \in Sides /\ job["db"].op # "refresh"
  BY DEF IndInv, Typed, Sides, StartMark, CoordinatorFree
<1>1. /\ c \in UserMarks /\ c \in Classes
      /\ c = "baseline_user" => snap[u].rows \/ snap[u].class = "baseline_user"
      /\ c = "baseline_stamp" => snap[u].class # "baseline_user"
  BY DEF MarkClass, UserMarks, Classes, StartMark
<1> HIDE DEF c
<1>2. j \in Jobs /\ j.op = "mark" /\ j.at = "mark" /\ j.uid = u /\ j.class = c
  BY <1>1, Idle DEF Jobs, NoJob, Ops, Steps, MarkSteps
<1>3. job' \in [Sides -> Jobs] /\ Moves("co") /\ job'["co"] = j
  BY <1>0, <1>2, StartMoves DEF StartMark, c
<1> HIDE DEF j
<1>4. UNCHANGED <<snap, last, upgrades, promised>>
  BY DEF StartMark
<1>5. Placed("co")'
  <2>1. u \in 1 .. last
    BY Numbers DEF IndInv, Created, StartMark, Typed, TypeOK, Uids
  <2> QED  BY <1>1, <1>2, <1>3, <1>4, <2>1 DEF Placed, OpsOf, StepsOf, MarkSteps
<1>6. OrderlyAt("co")'
  BY <1>2, <1>3 DEF OrderlyAt, PlanIsSound, PruneIsSound, NarrowIsSound, At
<1>7. ASSUME RowsArePromised
      PROVE  MarkInHand'
  BY <1>1, <1>2, <1>3, <1>4, <1>7 DEF MarkInHand, RowsArePromised, UserMarks
<1> QED  BY <1>0, <1>2, <1>3, <1>4, <1>5, <1>6, <1>7, CalmKeeps

LEMMA StartUnmarkKeeps ==
    ASSUME IndInv, Recorded, NEW u \in Uids, StartUnmark(u)
    PROVE  IndInv'
<1> DEFINE j == [NoJob EXCEPT !.op = "unmark", !.at = "mark", !.uid = u, !.class = "prunable"]
<1>0. job \in [Sides -> Jobs] /\ "co" \in Sides /\ job["db"].op # "refresh"
  BY DEF IndInv, Typed, Sides, StartUnmark, CoordinatorFree
<1>1. j \in Jobs /\ j.op = "unmark" /\ j.at = "mark" /\ j.uid = u /\ j.class = "prunable"
  BY Idle DEF Jobs, NoJob, Ops, Steps, MarkSteps, Classes
<1>2. job' \in [Sides -> Jobs] /\ Moves("co") /\ job'["co"] = j
  BY <1>0, <1>1, StartMoves DEF StartUnmark
<1> HIDE DEF j
<1>3. UNCHANGED <<snap, last, upgrades>> /\ promised' = [promised EXCEPT ![u] = "none"]
  BY DEF StartUnmark
<1>4. Placed("co")'
  <2>1. u \in 1 .. last
    BY Numbers DEF IndInv, Created, StartUnmark, Typed, TypeOK, Uids
  <2> QED  BY <1>1, <1>2, <1>3, <2>1 DEF Placed, OpsOf, StepsOf, MarkSteps
<1>5. OrderlyAt("co")'
  BY <1>1, <1>2 DEF OrderlyAt, PlanIsSound, PruneIsSound, NarrowIsSound, At
<1>6. /\ promised' \in [Uids -> UserMarks \cup {"none"}] /\ promised'[u] = "none"
      /\ \A v \in Uids \ {u} : promised'[v] = promised[v]
  BY <1>3 DEF IndInv, Typed, TypeOK
<1>7. \A v \in Uids : promised'[v] # "none" => v <= last
  BY <1>6 DEF IndInv, Created
<1>8. MarkInHand'
  BY <1>1, <1>2, <1>6 DEF MarkInHand
<1>9. ASSUME MarksStand
      PROVE  MarksStand'
  BY <1>3, <1>6, <1>9 DEF MarksStand, MarkStands, IsUserMark
<1> QED
  BY <1>0, <1>1, <1>2, <1>3, <1>4, <1>5, <1>6, <1>7, <1>8, <1>9, QuietKeeps

LEMMA BudgetOverrunKeeps ==
    ASSUME IndInv, Recorded, BudgetOverrun
    PROVE  IndInv'
<1>1. Typed /\ job \in [Sides -> Jobs] /\ "db" \in Sides
  BY DEF IndInv, Typed, Sides
<1>2. job' \in [Sides -> Jobs] /\ Moves("db") /\ job'["db"] = NoJob
  BY <1>1, EndMoves DEF BudgetOverrun
<1>3. /\ job'["db"].op = "none" /\ job'["db"].at = "none"
      /\ Placed("db")' /\ OrderlyAt("db")'
  BY <1>1, <1>2, OverIsSound
<1>4. job["db"].op # "none"
  BY <1>1, Placing DEF BudgetOverrun, At, Free
<1>5. UNCHANGED <<snap, last, upgrades, promised>>
  BY DEF BudgetOverrun
<1> QED  BY <1>1, <1>2, <1>3, <1>4, <1>5, CalmKeeps

(* The reply to a mark: the snapshot is marked if it can be served. *)
LEMMA AcknowledgeKeeps ==
    ASSUME IndInv, job["co"].op = "mark", job["co"].at # "mark", "co" \in Sides,
           Acknowledge(job["co"].uid, job["co"].class)
    PROVE  /\ promised' \in [Uids -> UserMarks \cup {"none"}]
           /\ \A u \in Uids : promised'[u] # "none" => u <= last
           /\ RowsArePromised /\ MarksStand /\ MarkInHand =>
                 \A u \in Uids : promised'[u] # "none" =>
                    /\ MarkStands(u)
                    /\ promised'[u] = "baseline_user" =>
                          snap[u].class = "baseline_user" /\ snap[u].rows
<1> DEFINE n == job["co"].uid
           c == job["co"].class
<1>1. n \in Uids /\ n <= last /\ c \in UserMarks
  BY Placing, Numbers DEF IndInv, Typed, Placed, Uids
<1>2. promised \in [Uids -> UserMarks \cup {"none"}]
  BY DEF IndInv, Typed, TypeOK
<1>3. /\ snap[n].status # "ready" => promised' = promised
      /\ snap[n].status = "ready" => promised' = [promised EXCEPT ![n] = c]
  BY DEF Acknowledge
<1>4. ASSUME RowsArePromised, MarksStand, MarkInHand, snap[n].status = "ready"
      PROVE  /\ snap[n].class = c /\ IsUserMark(n)
             /\ c = "baseline_user" => snap[n].rows
  BY <1>1, <1>4 DEF MarkInHand, RowsArePromised, IsUserMark
<1> HIDE DEF n, c
<1>5. /\ promised' \in [Uids -> UserMarks \cup {"none"}]
      /\ \A u \in Uids : promised'[u] # "none" => u <= last
  BY <1>1, <1>2, <1>3 DEF IndInv, Created
<1>6. ASSUME RowsArePromised, MarksStand, MarkInHand,
             NEW u \in Uids, promised'[u] # "none"
      PROVE  /\ MarkStands(u)
             /\ promised'[u] = "baseline_user" =>
                   snap[u].class = "baseline_user" /\ snap[u].rows
  <2>1. CASE u # n \/ snap[n].status # "ready"
    BY <1>2, <1>3, <1>6, <2>1 DEF MarksStand, MarkStands
  <2>2. CASE u = n /\ snap[n].status = "ready"
    <3>1. promised'[u] = c
      BY <1>2, <1>3, <2>2
    <3>2. promised[u] = "baseline_user" => snap[u].class = "baseline_user" /\ snap[u].rows
      BY <1>6, <2>2 DEF MarksStand, MarkStands
    <3> QED  BY <1>4, <1>6, <2>2, <3>1, <3>2 DEF MarkStands
  <2> QED  BY <2>1, <2>2
<1> QED  BY <1>5, <1>6

LEMMA StorageErrorKeeps ==
    ASSUME IndInv, Recorded, NEW s \in Sides, StorageError(s)
    PROVE  IndInv'
<1>1. Typed /\ job \in [Sides -> Jobs] /\ job[s].op # "none"
  BY Placing DEF IndInv, Typed, StorageError, Free
<1>2. job' \in [Sides -> Jobs] /\ Moves(s) /\ job'[s] = NoJob
  BY <1>1, EndMoves DEF StorageError
<1>3. /\ job'[s].op = "none" /\ job'[s].at = "none" /\ Placed(s)' /\ OrderlyAt(s)'
      /\ s = "co" => MarkInHand'
  BY <1>2, OverIsSound
<1>4. UNCHANGED <<snap, last, upgrades>>
  BY DEF StorageError
<1>5. CASE ~(job[s].op = "mark" /\ ~At(s, "mark"))
  <2>1. promised' = promised
    BY <1>5 DEF StorageError
  <2> QED  BY <1>1, <1>2, <1>3, <1>4, <2>1, CalmKeeps
<1>6. CASE job[s].op = "mark" /\ ~At(s, "mark")
  <2>1. s = "co" /\ Acknowledge(job["co"].uid, job["co"].class)
    BY <1>1, <1>6, Placing DEF StorageError
  <2>2. /\ promised' \in [Uids -> UserMarks \cup {"none"}]
        /\ \A u \in Uids : promised'[u] # "none" => u <= last
        /\ RowsArePromised /\ MarksStand /\ MarkInHand =>
              \A u \in Uids : promised'[u] # "none" =>
                 /\ MarkStands(u)
                 /\ promised'[u] = "baseline_user" =>
                       snap[u].class = "baseline_user" /\ snap[u].rows
    BY <1>6, <2>1, AcknowledgeKeeps DEF At
  <2>3. ASSUME RowsArePromised, MarksStand, MarkInHand
        PROVE  MarksStand'
    BY <1>4, <2>2, <2>3 DEF MarksStand, MarkStands, IsUserMark
  <2> QED  BY <1>1, <1>2, <1>3, <1>4, <2>1, <2>2, <2>3, QuietKeeps
<1> QED  BY <1>5, <1>6

-----------------------------------------------------------------------------
(* classify_repo_retention *)

LEMMA RolesAreSnapshots ==
    /\ Current \in Uids \cup {None} /\ Parent \in Uids \cup {None}
    /\ \A u \in Unmarked : IsValidEpoch(u) =>
          /\ u <= Current /\ Current \in Unmarked /\ IsValidEpoch(Current)
<1> DEFINE E == {u \in Ready : IsValidEpoch(u) /\ ~IsUserMark(u)}
<1>1. E \subseteq Uids /\ \A u \in Unmarked : IsValidEpoch(u) => u \in E
  BY DEF Ready, Unmarked
<1>2. Current = IF E = {} THEN None ELSE Max(E)
  BY DEF Current
<1>3. E # {} => Max(E) \in E /\ \A y \in E : y <= Max(E)
  BY <1>1, MaxOfUids
<1>4. \A u \in E : u \in Unmarked /\ IsValidEpoch(u)
  BY DEF Unmarked
<1>5. Parent \in Uids \cup {None}
  BY DEF Parent, Ready
<1> HIDE DEF E
<1> QED  BY <1>1, <1>2, <1>3, <1>4, <1>5

(* The plan keeps the newest eligible snapshot and its parent. *)
LEMMA AssignmentsAreSound ==
    /\ DOMAIN Assignments = Unmarked /\ Assignments \in Plans
    /\ Settled({u \in Unmarked : Assignments[u] = "prunable"})
    /\ \A u \in Unmarked : Assignments[u] = "prunable" /\ IsValidEpoch(u) =>
          \E v \in Unmarked : v > u /\ Assignments[v] = "current"
<1>1. /\ DOMAIN Assignments = Unmarked /\ Unmarked \subseteq Uids
      /\ Assignments = [u \in Unmarked |-> Assignments[u]]
      /\ \A u \in Unmarked :
            Assignments[u] = IF ~IsValidEpoch(u) THEN "prunable"
                             ELSE IF u = Current THEN "current"
                             ELSE IF u = Parent THEN "parent" ELSE "prunable"
  BY DEF Assignments, Unmarked, Ready
<1>2. \A u \in Unmarked : Assignments[u] \in Roles
  BY <1>1 DEF Roles
<1>3. Assignments \in Plans
  <2>1. Assignments \in [Unmarked -> Roles]
    BY <1>1, <1>2
  <2> QED  BY <1>1, <2>1 DEF Plans
<1>4. Settled({u \in Unmarked : Assignments[u] = "prunable"})
  BY <1>1, RolesAreSnapshots DEF Settled
<1>5. ASSUME NEW u \in Unmarked, Assignments[u] = "prunable", IsValidEpoch(u)
      PROVE  \E v \in Unmarked : v > u /\ Assignments[v] = "current"
  <2>1. u # Current
    BY <1>1, <1>5
  <2>2. u <= Current /\ Current \in Unmarked /\ IsValidEpoch(Current)
    BY <1>5, RolesAreSnapshots
  <2>3. Current > u
    BY <1>1, <2>1, <2>2, Numbers
  <2>4. Assignments[Current] = "current"
    BY <1>1, <2>2
  <2> QED  BY <2>2, <2>3, <2>4
<1> QED  BY <1>1, <1>3, <1>4, <1>5

LEMMA ClassifyReadKeeps ==
    ASSUME IndInv, Recorded, NEW s \in Sides, ClassifyRead(s)
    PROVE  IndInv'
<1> DEFINE A == Assignments
<1>0. /\ Typed /\ job \in [Sides -> Jobs] /\ job[s].at = "classify" /\ job[s].op # "none"
      /\ Placed(s)
  BY Placing DEF IndInv, Typed, ClassifyRead, At, Free
<1>1. /\ A \in Plans /\ DOMAIN A = Unmarked /\ Settled({u \in Unmarked : A[u] = "prunable"})
      /\ \A u \in Unmarked : A[u] = "prunable" /\ IsValidEpoch(u) =>
            \E v \in Unmarked : v > u /\ A[v] = "current"
  BY AssignmentsAreSound
<1>2. job' = [job EXCEPT ![s] = [@ EXCEPT !.at = "assign", !.plan = A]]
  BY DEF ClassifyRead
<1> HIDE DEF A
<1>3. /\ job' \in [Sides -> Jobs] /\ Moves(s)
      /\ Goes(s, "assign", job[s].list) /\ job'[s].plan = A
  BY <1>0, <1>1, <1>2 DEF Jobs, Moves, Goes, Steps, BuildSteps
<1>4. UNCHANGED <<snap, last, upgrades, promised>>
  BY DEF ClassifyRead
<1>5. Placed(s)'
  <2>1. "assign" \in StepsOf(job[s].op)
    <3>1. job[s].op \in {"index", "refresh", "pass", "mark", "unmark", "maintenance"}
      BY <1>0 DEF Placed, OpsOf
    <3> QED  BY <3>1 DEF StepsOf, BuildSteps, MarkSteps, PruneSteps
  <2> QED  BY <1>0, <1>3, <1>4, <2>1 DEF Placed, Goes
<1>6. OrderlyAt(s)'
  <2>1. Unmarked' = Unmarked /\ \A u \in Unmarked : IsValidEpoch(u)' <=> IsValidEpoch(u)
    BY <1>4 DEF Unmarked, Ready, IsUserMark, IsValidEpoch
  <2>2. PlanIsSound(s)'
    BY <1>1, <1>3, <2>1 DEF PlanIsSound, Settled
  <2> QED  BY <1>3, <2>2 DEF OrderlyAt, PruneIsSound, NarrowIsSound, At, Goes
<1>7. ASSUME MarkInHand
      PROVE  s = "co" => MarkInHand'
  BY <1>0, <1>3, <1>4, <1>7 DEF MarkInHand, Goes
<1>8. s = "co" => job["db"].op # "refresh"
  BY <1>0 DEF IndInv, Refreshing, Free
<1> QED  BY <1>0, <1>3, <1>4, <1>5, <1>6, <1>7, <1>8, CalmKeeps DEF Goes

-----------------------------------------------------------------------------
(* prune_prunable_snapshots and narrow_stamp_baselines: the two SELECTs *)

LEMMA PruneIsPlaced ==
    ASSUME NEW s \in Sides, Typed, job[s].op \in {"pass", "maintenance"},
           job'[s].op = job[s].op, job'[s].at \in PruneSteps
    PROVE  Placed(s)'
<1>1. job[s].op \in OpsOf(s)
  BY DEF Typed, Placed
<1> QED  BY <1>1 DEF Placed, StepsOf, PruneSteps

LEMMA SelectPrunableKeeps ==
    ASSUME IndInv, Recorded, NEW s \in Sides, SelectPrunable(s)
    PROVE  IndInv'
<1> DEFINE L == {u \in Ready : snap[u].class = "prunable"}
           next == IF job[s].op = "pass" THEN "non_ready" ELSE "narrow"
<1>0. /\ Typed /\ job \in [Sides -> Jobs] /\ job[s].at = "select"
      /\ job[s].op \in {"pass", "maintenance"} /\ L \in SUBSET Uids
  BY Placing DEF IndInv, Typed, SelectPrunable, At, Ready
<1>1. \A u \in L : u <= last /\ snap[u].status # "building"
  BY DEF IndInv, Created, Ready
<1>2. /\ job' \in [Sides -> Jobs] /\ Moves(s)
      /\ (L # {} /\ Goes(s, "delete", L)) \/ (L = {} /\ Goes(s, next, {}))
  <2>1. Loop(s, "delete", L)
    BY DEF SelectPrunable
  <2> HIDE DEF L
  <2> QED  BY <1>0, <2>1, LoopMoves
<1>3. UNCHANGED <<snap, last, upgrades, promised>> /\ Ready' = Ready /\ Unmarked' = Unmarked
  BY DEF SelectPrunable, Ready, Unmarked, IsUserMark
<1>4. job'[s].op = job[s].op /\ job'[s].at \in {"delete", "non_ready", "narrow"}
  BY <1>2 DEF Goes
<1>5. Placed(s)'
  BY <1>0, <1>4, PruneIsPlaced DEF PruneSteps
<1>6. ASSUME OrderlyAt(s)
      PROVE  OrderlyAt(s)'
  <2>1. /\ Settled({u \in Unmarked : snap[u].class = "prunable"})
        /\ \A u \in Ready : snap[u].class = "prunable" /\ IsValidEpoch(u) => Superseded(u)
    BY <1>0, <1>6 DEF OrderlyAt, PruneIsSound, At
  <2>2. \A u \in Unmarked : snap[u].class = "prunable" => u \in L
    BY DEF Unmarked
  <2>3. Settled(L) /\ \A u \in L : snap[u].class = "prunable"
    BY <2>1, <2>2 DEF Settled
  <2> HIDE DEF L
  <2>4. CASE L # {} /\ Goes(s, "delete", L)
    <3>1. job'[s].at = "delete" /\ job'[s].list = L
      BY <2>4 DEF Goes
    <3>2. (\A u \in Ready : snap[u].class = "prunable" /\ IsValidEpoch(u) => Superseded(u))'
      BY <1>3, <2>1 DEF Superseded, IsValidEpoch
    <3>3. Settled(job[s].list)'
      BY <1>3, <2>3, <3>1 DEF Settled
    <3> QED  BY <1>3, <2>3, <3>1, <3>2, <3>3
                DEF OrderlyAt, PlanIsSound, PruneIsSound, NarrowIsSound, At
  <2>5. CASE L = {} /\ Goes(s, next, {})
    <3>1. job'[s].at \in {"non_ready", "narrow"}
      BY <2>5 DEF Goes
    <3>2. Settled({})'
      BY <1>3, <2>3, <2>5 DEF Settled
    <3> QED  BY <3>1, <3>2 DEF OrderlyAt, PlanIsSound, PruneIsSound, NarrowIsSound, At
  <2> QED  BY <1>2, <2>4, <2>5
<1>7. s = "co" => MarkInHand' /\ job["db"].op # "refresh"
  BY <1>0, <1>4 DEF MarkInHand, IndInv, Refreshing, Free
<1>8. job'[s].at = "delete" =>
         \A u \in job'[s].list : u <= last /\ snap[u].status # "building"
  BY <1>1, <1>2 DEF Goes
<1> QED  BY <1>0, <1>2, <1>3, <1>4, <1>5, <1>6, <1>7, <1>8, CalmKeeps

LEMMA SelectNarrowKeeps ==
    ASSUME IndInv, Recorded, NEW s \in Sides, SelectNarrow(s)
    PROVE  IndInv'
<1> DEFINE L == NarrowCandidates
<1>0. /\ Typed /\ job \in [Sides -> Jobs] /\ job[s].at = "narrow"
      /\ job[s].op \in {"pass", "maintenance"} /\ L \in SUBSET Uids
  BY Placing DEF IndInv, Typed, SelectNarrow, At, NarrowCandidates, Ready
<1>1. ASSUME NEW u \in L
      PROVE  u \in Ready /\ snap[u].class = "baseline_stamp" /\ \E v \in Ready : v > u
  <2>1. u \in Ready /\ u # Latest /\ snap[u].class = "baseline_stamp"
    BY DEF NarrowCandidates
  <2>2. Latest \in Ready /\ u <= Latest
    BY <2>1, NothingLatest, LatestIsNewest
  <2>3. Latest > u
    BY <2>1, <2>2, Numbers DEF Ready
  <2> QED  BY <2>1, <2>2, <2>3
<1> HIDE DEF L
<1>2. /\ job' \in [Sides -> Jobs] /\ Moves(s)
      /\ \/ Goes(s, "narrowing", L)
         \/ job'[s] = NoJob
         \/ Goes(s, "non_ready", {})
  <2>1. Loop(s, "narrowing", L)
    BY DEF SelectNarrow, L
  <2> QED  BY <1>0, <2>1, LoopMoves
<1>3. UNCHANGED <<snap, last, upgrades, promised>> /\ Ready' = Ready /\ Unmarked' = Unmarked
  BY DEF SelectNarrow, Ready, Unmarked, IsUserMark
<1>4. s = "co" => job["db"].op # "refresh"
  BY <1>0 DEF IndInv, Refreshing, Free
<1>5. CASE job'[s] = NoJob
  <2>1. /\ job'[s].op = "none" /\ job'[s].at = "none" /\ Placed(s)' /\ OrderlyAt(s)'
        /\ s = "co" => MarkInHand'
    BY <1>5, OverIsSound
  <2> QED  BY <1>0, <1>2, <1>3, <1>4, <2>1, CalmKeeps
<1>6. CASE Goes(s, "narrowing", L) \/ Goes(s, "non_ready", {})
  <2>1. job'[s].op = job[s].op /\ job'[s].at \in {"narrowing", "non_ready"}
    BY <1>6 DEF Goes
  <2>2. Placed(s)'
    BY <1>0, <2>1, PruneIsPlaced DEF PruneSteps
  <2>3. job'[s].at = "narrowing" =>
           \A u \in job'[s].list :
              u \in Ready /\ snap[u].class = "baseline_stamp" /\ \E v \in Ready : v > u
    BY <1>1, <1>6 DEF Goes
  <2>4. ASSUME OrderlyAt(s)
        PROVE  OrderlyAt(s)'
    <3>1. Settled({})'
      BY <1>0, <1>3, <2>4 DEF OrderlyAt, PruneIsSound, Settled
    <3>2. NarrowIsSound(s)'
      BY <1>3, <2>3 DEF NarrowIsSound, At
    <3> QED  BY <2>1, <3>1, <3>2 DEF OrderlyAt, PlanIsSound, PruneIsSound, At
  <2>5. s = "co" => MarkInHand'
    BY <1>0, <2>1 DEF MarkInHand
  <2> QED  BY <1>0, <1>2, <1>3, <1>4, <2>1, <2>2, <2>4, <2>5, CalmKeeps
<1> QED  BY <1>2, <1>5, <1>6

-----------------------------------------------------------------------------
(* The writes *)

(* mark_snapshot_retention and the classification's UPDATE *)
LEMMA ClassifiedIs ==
    ASSUME NEW x \in Snapshots, NEW class \in Classes
    PROVE  LET y == Classified(x, class)
           IN  /\ y \in Snapshots /\ y.class = class /\ y.status = x.status
               /\ y.rows = x.rows /\ y.parent = x.parent
               /\ y.epoch = "stale" <=> x.epoch = "stale"
<1> DEFINE e == IF x.epoch = "null" THEN "current" ELSE x.epoch
           y == Classified(x, class)
<1>1. y = [x EXCEPT !.class = class, !.epoch = e]
  BY DEF Classified
<1>2. e \in {"null", "current", "stale"} /\ (e = "stale" <=> x.epoch = "stale")
  BY DEF Snapshots
<1> HIDE DEF e
<1>3. /\ y \in Snapshots /\ y.class = class /\ y.status = x.status
      /\ y.rows = x.rows /\ y.parent = x.parent /\ y.epoch = e
  BY <1>1, <1>2 DEF Snapshots
<1> QED  BY <1>2, <1>3

(* A write of classes: nothing else moves, and who is served stays. *)
Reclassifies ==
    \A u \in Uids :
        /\ snap'[u] \in Snapshots /\ snap'[u].parent = snap[u].parent
        /\ snap'[u].status = snap[u].status /\ snap'[u].rows = snap[u].rows
        /\ IsValidEpoch(u)' <=> IsValidEpoch(u)

(* What such a write leaves to show is the order while sides take turns.   *)
LEMMA ReclassifyKeeps ==
    ASSUME IndInv, Recorded, NEW s \in Sides, Moves(s), job' \in [Sides -> Jobs],
           Placed(s)', Reclassifies, snap' = [u \in Uids |-> snap'[u]],
           UNCHANGED <<last, upgrades>>,
           promised' \in [Uids -> UserMarks \cup {"none"}],
           \A u \in Uids : promised'[u] # "none" => u <= last,
           job'[s].at \notin {"building", "postpass", "delete"},
           job[s].op # "none", job[s].at \notin {"building", "postpass"},
           job'[s].op = "refresh" => job[s].op = "refresh" /\ job'[s].list = job[s].list
    PROVE  /\ (Typed /\ Created /\ Building /\ Refreshing /\ StaleNeedsAnUpgrade)'
           /\ Ready' = Ready
           /\ \A r \in Sides \ {s} : job[r].at = "none" =>
                 /\ ServingHasRows => ServingHasRows'
                 /\ BuildIsNew'
<1>0. Typed /\ Sides = {"db", "co"}
  BY DEF IndInv, Sides
<1>1. snap \in [Uids -> Snapshots] /\ ParentsExist
  BY <1>0 DEF Typed, TypeOK, ParentsExist
<1>2. snap' \in [Uids -> Snapshots] /\ ParentsExist'
  BY <1>1, UpdateKeepsTypes DEF Reclassifies
<1>3. Typed'
  BY <1>0, <1>2, TypedIf DEF Typed, TypeOK
<1>4. Created' /\ StaleNeedsAnUpgrade' /\ Ready' = Ready
  BY DEF IndInv, Created, StaleNeedsAnUpgrade, Reclassifies, Ready
<1>5. \A r \in Sides : job[r].list \subseteq Uids
  BY <1>0 DEF Typed, Jobs
<1>6. Building'
  <2>1. job'["db"].at = "building" => job'["db"] = job["db"] /\ job["db"].uid \in Uids
    BY <1>0, Placing DEF Moves
  <2> QED  BY <1>0, <1>5, <2>1 DEF IndInv, Building, LiveBuildSurvives, At, Moves, Reclassifies
<1>7. Refreshing'
  <2>1. job'["db"].op = "refresh" =>
           job["db"].op = "refresh" /\ job'["db"].list = job["db"].list /\ s = "db"
    BY <1>0 DEF IndInv, Refreshing, Free, Moves
  <2> QED  BY <1>0, <1>5, <2>1 DEF IndInv, Refreshing, Free, Moves, Reclassifies
<1>8. ASSUME NEW r \in Sides \ {s}, job[r].at = "none"
      PROVE  (ServingHasRows => ServingHasRows') /\ BuildIsNew'
  <2>1. job'["db"].at \notin {"building", "postpass"}
    BY <1>0, <1>8 DEF Moves
  <2> QED  BY <1>4, <2>1 DEF ServingHasRows, TopHasRows, At, BuildIsNew, Reclassifies, Ready
<1> QED  BY <1>3, <1>4, <1>6, <1>7, <1>8

LEMMA WriteMarkKeeps ==
    ASSUME IndInv, Recorded, WriteMark
    PROVE  IndInv'
<1>0. /\ Typed /\ job \in [Sides -> Jobs] /\ "co" \in Sides /\ "classify" \in Steps
      /\ job["co"].at = "mark" /\ job["co"].op \in {"mark", "unmark"}
      /\ job["co"].uid \in Uids /\ Placed("co")
  BY Placing DEF IndInv, Typed, WriteMark, At, Sides, Steps, MarkSteps
<1>n. PICK n \in Uids : n = job["co"].uid
  BY <1>0
<1>1. PICK c \in Classes :
         /\ c = job["co"].class
         /\ job["co"].op = "mark" => c \in UserMarks
         /\ job["co"].op = "unmark" => c = "prunable"
  BY <1>0 DEF Placed, Classes
<1>2. job' \in [Sides -> Jobs] /\ Moves("co") /\ Goes("co", "classify", job["co"].list)
  BY <1>0, GoMoves DEF WriteMark
<1>3. snap \in [Uids -> Snapshots] /\ snap[n] \in Snapshots
  BY <1>0 DEF Typed, TypeOK
<1>4. /\ snap' = [snap EXCEPT ![n] = IF snap[n].status = "absent" THEN snap[n]
                                     ELSE Classified(snap[n], c)]
      /\ UNCHANGED <<last, upgrades, promised>>
  BY <1>n, <1>1 DEF WriteMark
<1>5. /\ snap' = [u \in Uids |-> snap'[u]]
      /\ \A u \in Uids \ {n} : snap'[u] = snap[u]
      /\ snap'[n] = IF snap[n].status = "absent" THEN snap[n] ELSE Classified(snap[n], c)
  BY <1>0, <1>3, <1>4
<1>6. /\ snap'[n] \in Snapshots /\ snap'[n].parent = snap[n].parent
      /\ snap'[n].status = snap[n].status /\ snap'[n].rows = snap[n].rows
      /\ snap'[n].epoch = "stale" <=> snap[n].epoch = "stale"
      /\ snap[n].status # "absent" => snap'[n].class = c
      /\ snap[n].status = "absent" => snap'[n].class = snap[n].class
  BY <1>1, <1>3, <1>5, ClassifiedIs
<1>7. Reclassifies
  BY <1>3, <1>5, <1>6 DEF Reclassifies, IsValidEpoch
<1>8. Placed("co")'
  BY <1>0, <1>2, <1>4 DEF Placed, Goes, StepsOf, MarkSteps
<1>9. /\ promised' \in [Uids -> UserMarks \cup {"none"}]
      /\ \A u \in Uids : promised'[u] # "none" => u <= last
  BY <1>4 DEF IndInv, Created, Typed, TypeOK
<1>10. /\ (Typed /\ Created /\ Building /\ Refreshing /\ StaleNeedsAnUpgrade)'
       /\ \A r \in Sides \ {"co"} : job[r].at = "none" =>
             (ServingHasRows => ServingHasRows') /\ BuildIsNew'
  BY <1>0, <1>2, <1>4, <1>5, <1>7, <1>8, <1>9, ReclassifyKeeps DEF Goes
<1>11. ASSUME ~overlapped, ~overlapped',
              \A r \in Sides \ {"co"} : job[r].op = "none" /\ job[r].at = "none",
              RowsArePromised, MarksStand, BuildIsNew, MarkInHand, ServingHasRows,
              OrderlyAt("co")
       PROVE  /\ OrderlyAt("co")' /\ ServingHasRows'
              /\ (RowsArePromised /\ MarksStand /\ BuildIsNew /\ MarkInHand)'
  <2>1. OrderlyAt("co")'
    BY <1>2 DEF OrderlyAt, PlanIsSound, PruneIsSound, NarrowIsSound, At, Goes
  <2>2. ServingHasRows' /\ BuildIsNew'
    BY <1>10, <1>11 DEF Sides
  <2>3. /\ job["co"].op = "unmark" => promised[n] = "none" /\ c = "prunable"
        /\ job["co"].op = "mark" => c \in UserMarks
        /\ job["co"].op = "mark" /\ c = "baseline_user" => snap[n].rows
        /\ job["co"].op = "mark" /\ c # "baseline_user" => snap[n].class # "baseline_user"
    BY <1>0, <1>n, <1>1, <1>11 DEF MarkInHand
  <2>4. RowsArePromised'
    BY <1>0, <1>5, <1>6, <1>11, <2>3 DEF RowsArePromised
  <2>5. MarksStand'
    <3>1. promised[n] # "none" => MarkStands(n) /\ job["co"].op = "mark"
      BY <1>0, <1>11, <2>3 DEF MarksStand
    <3>2. promised[n] # "none" => MarkStands(n)'
      BY <1>4, <1>6, <2>3, <3>1 DEF MarkStands, IsUserMark
    <3>3. \A u \in Uids \ {n} : promised[u] # "none" => MarkStands(u)'
      BY <1>4, <1>5, <1>11 DEF MarksStand, MarkStands, IsUserMark
    <3> QED  BY <1>4, <3>2, <3>3 DEF MarksStand
  <2>6. MarkInHand'
    BY <1>0, <1>n, <1>1, <1>2, <1>6 DEF MarkInHand, Goes
  <2> QED  BY <2>1, <2>2, <2>4, <2>5, <2>6
<1> QED
  BY <1>0, <1>2, <1>10, <1>11, IndInvIf

LEMMA ClassifyWriteKeeps ==
    ASSUME IndInv, Recorded, NEW s \in Sides, ClassifyWrite(s)
    PROVE  IndInv'
<1>0. /\ Typed /\ job \in [Sides -> Jobs] /\ Sides = {"db", "co"} /\ Placed(s)
      /\ job[s].at = "assign" /\ job[s].op # "none"
  BY Placing DEF IndInv, Typed, ClassifyWrite, At, Free, Sides
<1>1. PICK D \in SUBSET Uids : job[s].plan \in [D -> Roles]
  BY <1>0 DEF Jobs, Plans
<1>2. PICK plan \in [D -> Roles] : plan = job[s].plan
  BY <1>1
<1>3. /\ snap \in [Uids -> Snapshots] /\ UNCHANGED <<last, upgrades>>
      /\ snap' = [u \in Uids |-> IF u \in D /\ snap[u].status # "absent"
                                 THEN Classified(snap[u], plan[u]) ELSE snap[u]]
  BY <1>0, <1>2 DEF ClassifyWrite, Typed, TypeOK
<1>4. ASSUME NEW u \in Uids
      PROVE  /\ snap'[u] \in Snapshots /\ snap'[u].parent = snap[u].parent
             /\ snap'[u].status = snap[u].status /\ snap'[u].rows = snap[u].rows
             /\ snap'[u].epoch = "stale" <=> snap[u].epoch = "stale"
             /\ u \in D /\ snap[u].status # "absent" => snap'[u].class = plan[u]
             /\ ~(u \in D /\ snap[u].status # "absent") => snap'[u] = snap[u]
  <2>1. CASE u \in D /\ snap[u].status # "absent"
    <3>1. snap'[u] = Classified(snap[u], plan[u])
      BY <1>3, <2>1
    <3>2. snap[u] \in Snapshots /\ plan[u] \in Classes
      BY <1>2, <1>3, <2>1 DEF Roles, Classes
    <3> QED  BY <2>1, <3>1, <3>2, ClassifiedIs
  <2>2. CASE ~(u \in D /\ snap[u].status # "absent")
    BY <1>3, <2>2
  <2> QED  BY <2>1, <2>2
<1>5. Reclassifies /\ snap' = [u \in Uids |-> snap'[u]]
  BY <1>3, <1>4 DEF Reclassifies, IsValidEpoch
<1>6. /\ job' \in [Sides -> Jobs] /\ Moves(s)
      /\ \/ /\ job[s].op \in {"pass", "maintenance"} /\ promised' = promised
            /\ Goes(s, "select", job[s].list)
         \/ /\ job[s].op # "mark" /\ promised' = promised /\ job'[s] = NoJob
         \/ /\ job[s].op = "mark" /\ job'[s] = NoJob
            /\ Acknowledge(job[s].uid, job[s].class)
  <2>0. AfterClassify(s)
    BY DEF ClassifyWrite
  <2>1. CASE job[s].op \in {"pass", "maintenance"}
    <3>1. /\ job' = [job EXCEPT ![s] = [@ EXCEPT !.at = "select", !.plan = <<>>]]
          /\ promised' = promised
      BY <2>0, <2>1 DEF AfterClassify
    <3>2. <<>> \in Plans /\ "select" \in Steps
      BY NothingPlanned DEF Steps, PruneSteps
    <3>3. job' \in [Sides -> Jobs] /\ Moves(s) /\ Goes(s, "select", job[s].list)
      BY <1>0, <3>1, <3>2 DEF Jobs, Moves, Goes
    <3> QED  BY <2>1, <3>1, <3>3
  <2>2. CASE job[s].op \in {"index", "refresh", "unmark"}
    <3>1. End(s) /\ promised' = promised
      BY <2>0, <2>2 DEF AfterClassify
    <3> QED  BY <1>0, <2>2, <3>1, EndMoves
  <2>3. CASE job[s].op = "mark"
    <3>1. End(s) /\ Acknowledge(job[s].uid, job[s].class)
      BY <2>0, <2>3 DEF AfterClassify
    <3> QED  BY <1>0, <2>3, <3>1, EndMoves
  <2>4. job[s].op \in {"index", "refresh", "unmark", "mark", "pass", "maintenance"}
    BY <1>0 DEF Placed, OpsOf
  <2> QED  BY <2>1, <2>2, <2>3, <2>4
<1>7. /\ Placed(s)' /\ job'[s].at \in {"none", "select"} /\ job'[s].op # "refresh"
      /\ job'[s].op \notin {"mark", "unmark"}
  <2>1. CASE job'[s] = NoJob
    BY <2>1, OverIsSound
  <2>2. CASE job[s].op \in {"pass", "maintenance"} /\ Goes(s, "select", job[s].list)
    BY <1>0, <2>2, PruneIsPlaced DEF Goes, PruneSteps
  <2> QED  BY <1>6, <2>1, <2>2
<1>8. /\ promised' \in [Uids -> UserMarks \cup {"none"}]
      /\ \A u \in Uids : promised'[u] # "none" => u <= last
      /\ RowsArePromised /\ MarksStand /\ MarkInHand =>
            \A u \in Uids : promised'[u] # "none" =>
               /\ snap[u].status = "ready" /\ IsUserMark(u)
               /\ promised'[u] = "baseline_user" =>
                     snap[u].class = "baseline_user" /\ snap[u].rows
  <2>1. CASE promised' = promised
    BY <2>1 DEF IndInv, Created, Typed, TypeOK, MarksStand, MarkStands
  <2>2. CASE job[s].op = "mark" /\ Acknowledge(job[s].uid, job[s].class)
    <3>1. s = "co"
      BY <1>0, <2>2, Placing
    <3> QED  BY <1>0, <2>2, <3>1, AcknowledgeKeeps DEF MarkStands
  <2> QED  BY <1>6, <2>1, <2>2
<1>9. /\ (Typed /\ Created /\ Building /\ Refreshing /\ StaleNeedsAnUpgrade)'
      /\ Ready' = Ready
      /\ \A r \in Sides \ {s} : job[r].at = "none" =>
            (ServingHasRows => ServingHasRows') /\ BuildIsNew'
  BY <1>0, <1>3, <1>5, <1>6, <1>7, <1>8, ReclassifyKeeps
<1>10. ASSUME ~overlapped, ~overlapped',
              \A r \in Sides \ {s} : job[r].op = "none" /\ job[r].at = "none",
              RowsArePromised, MarksStand, BuildIsNew, MarkInHand, ServingHasRows,
              OrderlyAt(s)
       PROVE  /\ OrderlyAt(s)' /\ ServingHasRows'
              /\ (RowsArePromised /\ MarksStand /\ BuildIsNew /\ MarkInHand)'
  <2>1. ServingHasRows' /\ BuildIsNew'
    BY <1>0, <1>9, <1>10
  <2>2. /\ D = Unmarked
        /\ Settled({u \in Unmarked : plan[u] = "prunable"})
        /\ \A u \in Unmarked : plan[u] = "prunable" /\ IsValidEpoch(u) =>
              \E v \in Unmarked : v > u /\ plan[v] = "current"
    <3>1. DOMAIN plan = D
      BY <1>2
    <3> QED  BY <1>0, <1>2, <1>10, <3>1 DEF OrderlyAt, PlanIsSound, At
  <2>3. /\ \A u \in Unmarked : snap'[u].class = plan[u] /\ plan[u] \in Roles
        /\ \A u \in Uids \ Unmarked : snap'[u] = snap[u]
    BY <1>2, <1>4, <2>2 DEF Unmarked, Ready
  <2>4. \A u \in Uids : IsUserMark(u) => snap'[u] = snap[u]
    BY <2>3 DEF Unmarked
  <2>5. Unmarked' = Unmarked
    BY <1>9, <2>3 DEF Unmarked, IsUserMark, UserMarks, Roles, Ready
  <2>6. RowsArePromised'
    BY <1>4, <1>10, <2>3 DEF RowsArePromised, Roles
  <2>7. MarksStand'
    BY <1>8, <1>10, <2>4 DEF MarksStand, MarkStands, IsUserMark
  <2>8. MarkInHand'
    <3>1. CASE s = "co"
      BY <1>7, <3>1 DEF MarkInHand
    <3>2. CASE s = "db"
      BY <1>0, <1>6, <1>10, <3>2 DEF MarkInHand, Moves
    <3> QED  BY <1>0, <3>1, <3>2
  <2>9. OrderlyAt(s)'
    <3>1. CASE job'[s].at = "none"
      BY <3>1 DEF OrderlyAt, PlanIsSound, PruneIsSound, NarrowIsSound, At
    <3>2. CASE job'[s].at = "select"
      <4>1. Settled({u \in Unmarked : snap[u].class = "prunable"})'
        <5>1. PICK c, p \in Uids \cup {None} :
                 \A u \in Unmarked : plan[u] = "prunable" \/ u = c \/ u = p
          BY <2>2 DEF Settled
        <5>2. \A u \in Unmarked' : snap'[u].class = "prunable" \/ u = c \/ u = p
          BY <2>3, <2>5, <5>1
        <5> QED  BY <5>2 DEF Settled
      <4>2. ASSUME NEW u \in Ready', snap'[u].class = "prunable", IsValidEpoch(u)'
            PROVE  Superseded(u)'
        <5>1. u \in Unmarked /\ plan[u] = "prunable" /\ IsValidEpoch(u)
          BY <1>4, <2>3, <2>5, <4>2 DEF Unmarked, IsUserMark, UserMarks, IsValidEpoch, Ready
        <5>2. PICK v \in Unmarked : v > u /\ plan[v] = "current"
          BY <2>2, <5>1
        <5>3. v \in Ready' /\ snap'[v].class = "current"
          BY <1>9, <2>3, <5>2 DEF Unmarked
        <5> QED  BY <5>2, <5>3 DEF Superseded
      <4> QED  BY <3>2, <4>1, <4>2 DEF OrderlyAt, PlanIsSound, PruneIsSound, NarrowIsSound, At
    <3> QED  BY <1>7, <3>1, <3>2
  <2> QED  BY <2>1, <2>6, <2>7, <2>8, <2>9
<1> QED
  BY <1>0, <1>6, <1>9, <1>10, IndInvIf

(* delete_snapshots_cascade: what is left is as it was. *)
LEMMA DeletionKeeps ==
    ASSUME IndInv, Recorded, NEW s \in Sides, Moves(s), job' \in [Sides -> Jobs],
           Placed(s)', NEW gone \in SUBSET Uids, snap' = Without(gone),
           UNCHANGED <<last, upgrades, promised>>,
           job[s].op \in {"pass", "maintenance"},
           job'[s].op \in {"none", "pass", "maintenance"},
           job'[s].at \notin {"building", "postpass"},
           job'[s].at = "delete" => At(s, "delete") /\ job'[s].list \subseteq job[s].list,
           At("db", "building") => job["db"].uid \notin gone
    PROVE  /\ (Typed /\ Created /\ Building /\ Refreshing /\ StaleNeedsAnUpgrade)'
           /\ \A u \in gone : snap'[u] = Absent /\ snap'[u].class = "none"
           /\ \A u \in Uids \ gone : Keeps(u)
           /\ Ready' = Ready \ gone /\ Unmarked' = Unmarked \ gone
           /\ \A r \in Sides \ {s} : job[r].op = "none" /\ job[r].at = "none" =>
                 /\ BuildIsNew' /\ MarkInHand'
                 /\ RowsArePromised => RowsArePromised'
<1>0. Typed /\ Sides = {"db", "co"}
  BY DEF IndInv, Sides
<1>1. snap \in [Uids -> Snapshots] /\ ParentsExist
  BY <1>0 DEF Typed, TypeOK, ParentsExist
<1>2. /\ snap' \in [Uids -> Snapshots] /\ ParentsExist'
      /\ \A u \in gone : snap'[u] = Absent
      /\ \A u \in Uids \ gone : Keeps(u)
  BY <1>1, WithoutKeeps
<1>3. /\ Absent.status = "absent" /\ Absent.class = "none" /\ Absent.epoch = "null"
  BY DEF Absent
<1>4. Typed'
  BY <1>0, <1>2, TypedIf DEF Typed, TypeOK
<1>5. Created' /\ StaleNeedsAnUpgrade'
  BY <1>2, <1>3 DEF IndInv, Created, StaleNeedsAnUpgrade, IsValidEpoch, Keeps
<1>6. Ready' = Ready \ gone /\ Unmarked' = Unmarked \ gone
  BY <1>2, <1>3 DEF Ready, Unmarked, IsUserMark, Keeps
<1>7. \A r \in Sides : job[r].list \subseteq Uids
  BY <1>0 DEF Typed, Jobs
<1>8. Building'
  <2>1. LiveBuildSurvives'
    <3>1. job'["db"].at = "building" =>
             job'["db"] = job["db"] /\ At("db", "building") /\ job["db"].uid \in Uids \ gone
      BY <1>0, Placing DEF Moves, At
    <3> QED  BY <1>2, <3>1 DEF IndInv, Building, LiveBuildSurvives, Keeps, At
  <2>2. \A u \in Uids : snap[u].status # "building" => snap'[u].status # "building"
    BY <1>2, <1>3 DEF Keeps
  <2>3. \A r \in Sides : job'[r].at = "delete" =>
           At(r, "delete") /\ job'[r].list \subseteq job[r].list
    BY DEF Moves, At
  <2> QED  BY <1>7, <2>1, <2>2, <2>3 DEF IndInv, Building, At
<1>9. Refreshing'
  <2>1. job'["db"].op # "refresh"
    BY <1>0 DEF IndInv, Refreshing, Free, Moves
  <2> QED  BY <2>1 DEF Refreshing
<1>10. ASSUME NEW r \in Sides \ {s}, job[r].op = "none", job[r].at = "none"
       PROVE  BuildIsNew' /\ MarkInHand' /\ (RowsArePromised => RowsArePromised')
  <2>1. /\ job'["db"].at \notin {"building", "postpass"}
        /\ job'["co"].op \notin {"mark", "unmark"}
    BY <1>0, <1>10 DEF Moves
  <2>2. BuildIsNew' /\ MarkInHand'
    BY <2>1 DEF BuildIsNew, MarkInHand
  <2>3. RowsArePromised => RowsArePromised'
    BY <1>2, <1>3 DEF RowsArePromised, Keeps
  <2> QED  BY <2>2, <2>3
<1> QED  BY <1>2, <1>3, <1>4, <1>5, <1>6, <1>8, <1>9, <1>10

LEMMA DeleteOneKeeps ==
    ASSUME IndInv, Recorded, NEW s \in Sides, DeleteOne(s)
    PROVE  IndInv'
<1> DEFINE next == IF job[s].op = "pass" THEN "non_ready" ELSE "narrow"
<1>0. /\ Typed /\ job \in [Sides -> Jobs] /\ Sides = {"db", "co"}
      /\ job[s].at = "delete" /\ job[s].op \in {"pass", "maintenance"}
      /\ job[s].list \in SUBSET Uids
  BY Placing DEF IndInv, Typed, DeleteOne, At, Sides, Jobs
<1>1. PICK x \in job[s].list : snap' = Without({x}) /\ Loop(s, "delete", job[s].list \ {x})
  BY DEF DeleteOne
<1>2. PICK L \in SUBSET Uids : L = job[s].list \ {x}
  BY <1>0
<1>3. /\ job' \in [Sides -> Jobs] /\ Moves(s)
      /\ (L # {} /\ Goes(s, "delete", L)) \/ (L = {} /\ Goes(s, next, {}))
  BY <1>0, <1>1, <1>2, LoopMoves
<1>4. UNCHANGED <<last, upgrades, promised>>
  BY DEF DeleteOne
<1>5. /\ job'[s].op = job[s].op /\ job'[s].at \in {"delete", "non_ready", "narrow"}
      /\ job'[s].at = "delete" => job'[s].list = L
      /\ job'[s].at # "delete" => L = {}
  BY <1>3 DEF Goes
<1>6. Placed(s)'
  BY <1>0, <1>5, PruneIsPlaced DEF PruneSteps
<1>7. {x} \in SUBSET Uids /\ (At("db", "building") => job["db"].uid \notin {x})
  BY <1>0, <1>1 DEF IndInv, Building, LiveBuildSurvives, At
<1>8. /\ (Typed /\ Created /\ Building /\ Refreshing /\ StaleNeedsAnUpgrade)'
      /\ snap'[x] = Absent
      /\ \A u \in Uids \ {x} : Keeps(u)
      /\ Ready' = Ready \ {x} /\ Unmarked' = Unmarked \ {x}
      /\ \A r \in Sides \ {s} : job[r].op = "none" /\ job[r].at = "none" =>
            BuildIsNew' /\ MarkInHand' /\ (RowsArePromised => RowsArePromised')
  BY <1>0, <1>1, <1>2, <1>3, <1>4, <1>5, <1>6, <1>7, DeletionKeeps DEF At
<1>9. ASSUME ~overlapped, ~overlapped',
             \A r \in Sides \ {s} : job[r].op = "none" /\ job[r].at = "none",
             RowsArePromised, MarksStand, BuildIsNew, MarkInHand, ServingHasRows,
             OrderlyAt(s)
      PROVE  /\ OrderlyAt(s)' /\ ServingHasRows'
             /\ (RowsArePromised /\ MarksStand /\ BuildIsNew /\ MarkInHand)'
  <2>1. BuildIsNew' /\ MarkInHand' /\ RowsArePromised'
    BY <1>0, <1>8, <1>9
  <2>2. /\ \A u \in job[s].list : snap[u].class = "prunable"
        /\ Settled(job[s].list)
        /\ \A u \in Ready : snap[u].class = "prunable" /\ IsValidEpoch(u) => Superseded(u)
    BY <1>0, <1>9 DEF OrderlyAt, PruneIsSound, At
  <2>3. x \in Uids /\ snap[x].class = "prunable"
    BY <1>0, <1>1, <2>2
  <2>4. MarksStand'
    BY <1>4, <1>8, <1>9, <2>3 DEF MarksStand, MarkStands, IsUserMark, UserMarks, Keeps
  <2>5. PICK c, p \in Uids \cup {None} : \A u \in Unmarked' : u \in L \/ u = c \/ u = p
    BY <1>2, <1>8, <2>2 DEF Settled
  <2>6. (\A u \in Ready : snap[u].class = "prunable" /\ IsValidEpoch(u) => Superseded(u))'
    <3> SUFFICES ASSUME NEW u \in Ready', snap'[u].class = "prunable", IsValidEpoch(u)'
                 PROVE  Superseded(u)'
      OBVIOUS
    <3>1. u \in Ready /\ snap[u].class = "prunable" /\ IsValidEpoch(u)
      BY <1>8 DEF Keeps, IsValidEpoch, Ready
    <3>2. PICK v \in Ready : v > u /\ snap[v].class = "current"
      BY <2>2, <3>1 DEF Superseded
    <3>3. v \in Ready' /\ snap'[v].class = "current"
      BY <1>8, <2>3, <3>2 DEF Keeps, Ready
    <3> QED  BY <3>2, <3>3 DEF Superseded
  <2>7. OrderlyAt(s)'
    <3>1. job'[s].at = "delete" => \A u \in L : snap'[u].class = "prunable"
      BY <1>0, <1>2, <1>8, <2>2 DEF Keeps
    <3>2. Settled(job[s].list)' \/ job'[s].at # "delete"
      BY <1>5, <2>5 DEF Settled
    <3>3. Settled({})' \/ job'[s].at = "delete"
      BY <1>5, <2>5 DEF Settled
    <3> QED  BY <1>5, <2>6, <3>1, <3>2, <3>3
                DEF OrderlyAt, PlanIsSound, PruneIsSound, NarrowIsSound, At
  <2>8. ServingHasRows'
    <3>0. job'["db"].at # "postpass" /\ upgrades' = upgrades
      BY <1>0, <1>3, <1>4, <1>5, <1>9 DEF Moves
    <3> SUFFICES ASSUME upgrades = 0, NEW w \in Ready', \A v \in Ready' : v <= w
                 PROVE  snap'[w].rows
      BY <3>0 DEF ServingHasRows, TopHasRows, At
    <3>1. w \in Ready /\ w # x /\ w \in Nat /\ x \in Nat /\ Ready \subseteq Nat
      BY <1>8, <2>3, Numbers DEF Ready
    <3>2. x \in Ready => x <= w
      <4> SUFFICES ASSUME x \in Ready, ~(x <= w) PROVE FALSE
        OBVIOUS
      <4>1. Superseded(x)
        BY <2>2, <2>3 DEF IndInv, StaleNeedsAnUpgrade
      <4>2. PICK v \in Ready : v > x
        BY <4>1 DEF Superseded
      <4>3. v # x
        BY <3>1, <4>2
      <4>4. v <= w
        <5>1. v \in Ready'
          BY <1>8, <4>2, <4>3
        <5> QED  BY <5>1
      <4> QED  BY <3>1, <4>2, <4>4
    <3>3. \A v \in Ready : v <= w
      BY <1>8, <3>2
    <3> QED  BY <1>8, <1>9, <3>1, <3>3 DEF ServingHasRows, TopHasRows, Keeps, Ready
  <2> QED  BY <2>1, <2>4, <2>7, <2>8
<1> QED
  BY <1>0, <1>3, <1>8, <1>9, IndInvIf

LEMMA PruneNonReadyKeeps ==
    ASSUME IndInv, Recorded, NEW s \in Sides, PruneNonReady(s)
    PROVE  IndInv'
<1>0. /\ Typed /\ job \in [Sides -> Jobs] /\ Sides = {"db", "co"} /\ "narrow" \in Steps
      /\ job[s].at = "non_ready" /\ job[s].op \in {"pass", "maintenance"}
  BY Placing DEF IndInv, Typed, PruneNonReady, At, Sides, Steps, PruneSteps
<1>1. /\ job' \in [Sides -> Jobs] /\ Moves(s)
      /\ (s = "db" /\ Goes(s, "narrow", job[s].list)) \/ job'[s] = NoJob
  <2>1. CASE s = "db"
    BY <1>0, <2>1, GoMoves DEF PruneNonReady
  <2>2. CASE s # "db"
    BY <1>0, <2>2, EndMoves DEF PruneNonReady
  <2> QED  BY <2>1, <2>2
<1>2. /\ Placed(s)' /\ job'[s].at \in {"none", "narrow"}
      /\ job'[s].op \in {"none", "pass", "maintenance"}
      /\ s = "co" => MarkInHand'
  <2>1. CASE job'[s] = NoJob
    BY <2>1, OverIsSound
  <2>2. CASE s = "db" /\ Goes(s, "narrow", job[s].list)
    BY <1>0, <2>2, PruneIsPlaced DEF Goes, PruneSteps
  <2> QED  BY <1>1, <2>1, <2>2
<1>3. UNCHANGED <<last, upgrades, promised>>
  BY DEF PruneNonReady
<1>4. ASSUME Ready' = Ready, Unmarked' = Unmarked, OrderlyAt(s)
      PROVE  OrderlyAt(s)'
  <2>1. Settled({})'
    BY <1>0, <1>4 DEF OrderlyAt, PruneIsSound, Settled
  <2> QED  BY <1>2, <2>1 DEF OrderlyAt, PlanIsSound, PruneIsSound, NarrowIsSound, At
<1>5. CASE ~MayReclaim(s)
  <2>1. snap' = snap /\ Ready' = Ready /\ Unmarked' = Unmarked
    BY <1>5 DEF PruneNonReady, Ready, Unmarked, IsUserMark
  <2>2. s = "co" => job["db"].op # "refresh"
    BY <1>0 DEF IndInv, Refreshing, Free
  <2> QED  BY <1>0, <1>1, <1>2, <1>3, <1>4, <2>1, <2>2, CalmKeeps
<1>6. CASE MayReclaim(s)
  <2>1. PICK gone \in SUBSET Uids : gone = {u \in Uids : snap[u].status # "ready"}
    OBVIOUS
  <2>2. snap' = Without(gone)
    BY <1>6, <2>1 DEF PruneNonReady
  <2>3. ~At("db", "building")
    BY <1>0, <1>6, Placing DEF MayReclaim, At, Free
  <2>4. /\ (Typed /\ Created /\ Building /\ Refreshing /\ StaleNeedsAnUpgrade)'
        /\ \A u \in gone : snap'[u].class = "none"
        /\ \A u \in Uids \ gone : Keeps(u)
        /\ Ready' = Ready \ gone /\ Unmarked' = Unmarked \ gone
        /\ \A r \in Sides \ {s} : job[r].op = "none" /\ job[r].at = "none" =>
              BuildIsNew' /\ MarkInHand' /\ (RowsArePromised => RowsArePromised')
    BY <1>0, <1>1, <1>2, <1>3, <2>2, <2>3, DeletionKeeps
  <2>5. Ready' = Ready /\ Unmarked' = Unmarked /\ \A u \in Ready : Keeps(u)
    BY <2>1, <2>4 DEF Ready, Unmarked
  <2>6. ASSUME ~overlapped, ~overlapped',
               \A r \in Sides \ {s} : job[r].op = "none" /\ job[r].at = "none",
               RowsArePromised, MarksStand, BuildIsNew, MarkInHand, ServingHasRows,
               OrderlyAt(s)
        PROVE  /\ OrderlyAt(s)' /\ ServingHasRows'
               /\ (RowsArePromised /\ MarksStand /\ BuildIsNew /\ MarkInHand)'
    <3>1. BuildIsNew' /\ MarkInHand' /\ RowsArePromised' /\ OrderlyAt(s)'
      BY <1>0, <1>4, <2>4, <2>5, <2>6
    <3>2. MarksStand'
      BY <1>3, <2>5, <2>6 DEF MarksStand, MarkStands, IsUserMark, Keeps, Ready
    <3>3. job'["db"].at # "postpass"
      BY <1>0, <1>1, <1>2, <2>6 DEF Moves
    <3>4. ServingHasRows'
      BY <1>3, <2>5, <2>6, <3>3 DEF ServingHasRows, TopHasRows, Keeps, At
    <3> QED  BY <3>1, <3>2, <3>4
  <2> QED  BY <1>0, <1>1, <2>4, <2>6, IndInvIf
<1> QED  BY <1>5, <1>6

LEMMA NarrowOneKeeps ==
    ASSUME IndInv, Recorded, NEW s \in Sides, NarrowOne(s)
    PROVE  IndInv'
<1>0. /\ Typed /\ job \in [Sides -> Jobs] /\ Sides = {"db", "co"}
      /\ job[s].at = "narrowing" /\ job[s].op \in {"pass", "maintenance"}
      /\ job[s].list \in SUBSET Uids
  BY Placing DEF IndInv, Typed, NarrowOne, At, Sides, Jobs
<1>1. PICK x \in job[s].list :
         /\ snap' = [snap EXCEPT ![x].rows = FALSE]
         /\ Loop(s, "narrowing", job[s].list \ {x})
  BY DEF NarrowOne
<1>2. PICK L \in SUBSET Uids : L = job[s].list \ {x}
  BY <1>0
<1>3. /\ job' \in [Sides -> Jobs] /\ Moves(s)
      /\ Goes(s, "narrowing", L) \/ job'[s] = NoJob \/ Goes(s, "non_ready", {})
  BY <1>0, <1>1, <1>2, LoopMoves
<1>4. UNCHANGED <<last, upgrades, promised>>
  BY DEF NarrowOne
<1>5. /\ Placed(s)' /\ job'[s].at \in {"none", "narrowing", "non_ready"}
      /\ job'[s].at = "narrowing" => job'[s].list = L
      /\ job'[s].op \in {"none", "pass", "maintenance"}
  <2>1. CASE job'[s] = NoJob
    BY <2>1, OverIsSound
  <2>2. CASE Goes(s, "narrowing", L) \/ Goes(s, "non_ready", {})
    BY <1>0, <2>2, PruneIsPlaced DEF Goes, PruneSteps
  <2> QED  BY <1>3, <2>1, <2>2
<1>6. snap \in [Uids -> Snapshots] /\ ParentsExist /\ x \in Uids
  BY <1>0, <1>1 DEF Typed, TypeOK, ParentsExist
<1>7. /\ snap' = [u \in Uids |-> snap'[u]] /\ \A u \in Uids \ {x} : snap'[u] = snap[u]
      /\ snap'[x] = [snap[x] EXCEPT !.rows = FALSE]
  BY <1>1, <1>6
<1>8. /\ snap'[x] \in Snapshots /\ snap'[x].parent = snap[x].parent
      /\ snap'[x].status = snap[x].status /\ snap'[x].class = snap[x].class
      /\ snap'[x].epoch = snap[x].epoch
  <2>1. snap[x] \in Snapshots
    BY <1>6
  <2> QED  BY <1>7, <2>1 DEF Snapshots
<1>9. snap' \in [Uids -> Snapshots] /\ ParentsExist'
  <2>1. \A u \in Uids :
           /\ snap'[u] \in Snapshots /\ snap'[u].parent = snap[u].parent
           /\ snap'[u].status = "absent" => snap[u].status = "absent"
    BY <1>6, <1>7, <1>8
  <2> QED  BY <1>6, <1>7, <2>1, UpdateKeepsTypes
<1>10. \A u \in Uids : /\ snap'[u].status = snap[u].status /\ snap'[u].class = snap[u].class
                       /\ snap'[u].epoch = snap[u].epoch
  BY <1>7, <1>8
<1>11. Typed'
  BY <1>0, <1>3, <1>4, <1>5, <1>9, TypedIf DEF Typed, TypeOK
<1>12. Created' /\ StaleNeedsAnUpgrade'
  BY <1>4, <1>10 DEF IndInv, Created, StaleNeedsAnUpgrade, IsValidEpoch
<1>13. Building'
  <2>1. \A r \in Sides : job[r].list \subseteq Uids
    BY <1>0 DEF Jobs
  <2>2. job'["db"].at = "building" => job'["db"] = job["db"] /\ job["db"].uid \in Uids
    BY <1>0, <1>3, <1>5, Placing DEF Moves
  <2>3. \A r \in Sides : job'[r].at = "delete" => job'[r] = job[r]
    BY <1>3, <1>5 DEF Moves
  <2> QED  BY <1>0, <1>4, <1>10, <2>1, <2>2, <2>3 DEF IndInv, Building, LiveBuildSurvives, At
<1>14. Refreshing'
  <2>1. job'["db"].op # "refresh"
    BY <1>0, <1>3, <1>5 DEF IndInv, Refreshing, Free, Moves
  <2> QED  BY <2>1 DEF Refreshing
<1>15. Ready' = Ready /\ Unmarked' = Unmarked
  BY <1>10 DEF Ready, Unmarked, IsUserMark
<1>16. ASSUME ~overlapped, ~overlapped',
              \A r \in Sides \ {s} : job[r].op = "none" /\ job[r].at = "none",
              RowsArePromised, MarksStand, BuildIsNew, MarkInHand, ServingHasRows,
              OrderlyAt(s)
       PROVE  /\ OrderlyAt(s)' /\ ServingHasRows'
              /\ (RowsArePromised /\ MarksStand /\ BuildIsNew /\ MarkInHand)'
  <2>1. /\ job'["db"].at \notin {"building", "postpass"}
        /\ job'["co"].op \notin {"mark", "unmark"}
    BY <1>0, <1>3, <1>5, <1>16 DEF Moves
  <2>2. BuildIsNew' /\ MarkInHand'
    BY <2>1 DEF BuildIsNew, MarkInHand
  <2>3. /\ \A u \in job[s].list :
              u \in Ready /\ snap[u].class = "baseline_stamp" /\ \E v \in Ready : v > u
        /\ Settled({})
    BY <1>0, <1>16 DEF OrderlyAt, NarrowIsSound, PruneIsSound, At
  <2>4. OrderlyAt(s)'
    <3>1. Settled({})'
      BY <1>15, <2>3 DEF Settled
    <3>2. \A u \in L : /\ u \in Ready' /\ snap'[u].class = "baseline_stamp"
                       /\ \E v \in Ready' : v > u
      BY <1>2, <1>10, <1>15, <2>3
    <3>3. NarrowIsSound(s)'
      BY <1>5, <3>2 DEF NarrowIsSound, At
    <3> QED  BY <1>5, <3>1, <3>3 DEF OrderlyAt, PlanIsSound, PruneIsSound, At
  <2>5. snap[x].class = "baseline_stamp" /\ \E v \in Ready : v > x
    BY <2>3
  <2>6. RowsArePromised' /\ MarksStand'
    BY <1>4, <1>7, <1>10, <1>16, <2>5 DEF RowsArePromised, MarksStand, MarkStands, IsUserMark
  <2>7. ServingHasRows'
    <3>1. ASSUME NEW w \in Ready, \A v \in Ready : v <= w PROVE w # x
      BY <1>6, <2>5, <3>1, Numbers DEF Ready
    <3>2. \A w \in Ready \ {x} : snap'[w] = snap[w]
      BY <1>7 DEF Ready
    <3> QED  BY <1>4, <1>15, <1>16, <2>1, <3>1, <3>2 DEF ServingHasRows, TopHasRows, At
  <2> QED  BY <2>2, <2>4, <2>6, <2>7
<1> QED
  BY <1>0, <1>3, <1>11, <1>12, <1>13, <1>14, <1>16, IndInvIf

-----------------------------------------------------------------------------
(* Crash reconciliation, and the crash itself *)

LEMMA InterruptedIs ==
    ASSUME NEW x \in Snapshots
    PROVE  LET y == [x EXCEPT !.status = "failed", !.class = "prunable"]
           IN  /\ y \in Snapshots /\ y.status = "failed" /\ y.class = "prunable"
               /\ y.parent = x.parent /\ y.rows = x.rows /\ y.epoch = x.epoch
BY DEF Snapshots, Classes

LEMMA ReconcileKeeps ==
    ASSUME IndInv, Recorded, Reconcile
    PROVE  IndInv'
<1>0. /\ Typed /\ job \in [Sides -> Jobs] /\ Sides = {"db", "co"}
      /\ job["db"].op = "none" /\ job["db"].at = "none"
  BY Placing DEF IndInv, Typed, Reconcile, Free, Sides
<1>1. UNCHANGED <<last, upgrades, job, promised>>
  BY DEF Reconcile
<1>2. snap \in [Uids -> Snapshots] /\ ParentsExist
  BY <1>0 DEF Typed, TypeOK, ParentsExist
<1>3. /\ snap' = [u \in Uids |-> snap'[u]]
      /\ \A u \in Uids : snap[u].status # "building" => snap'[u] = snap[u]
      /\ \A u \in Uids : snap[u].status = "building" =>
            snap'[u] = [snap[u] EXCEPT !.status = "failed", !.class = "prunable"]
  BY <1>2 DEF Reconcile
<1>4. ASSUME NEW u \in Uids, snap[u].status = "building"
      PROVE  /\ snap'[u] \in Snapshots /\ snap'[u].parent = snap[u].parent
             /\ snap'[u].status = "failed" /\ snap'[u].class = "prunable"
             /\ snap'[u].rows = snap[u].rows /\ snap'[u].epoch = snap[u].epoch
  <2>1. PICK x \in Snapshots : x = snap[u]
    BY <1>2
  <2>2. snap'[u] = [x EXCEPT !.status = "failed", !.class = "prunable"]
    BY <1>3, <1>4, <2>1
  <2> QED  BY <2>1, <2>2, InterruptedIs, Zenon
<1>5. snap' \in [Uids -> Snapshots] /\ ParentsExist'
  <2>1. \A u \in Uids :
           /\ snap'[u] \in Snapshots /\ snap'[u].parent = snap[u].parent
           /\ snap'[u].status = "absent" => snap[u].status = "absent"
    BY <1>2, <1>3, <1>4
  <2> QED  BY <1>2, <1>3, <2>1, UpdateKeepsTypes
<1>6. Typed'
  <2>1. \A r \in Sides : Placed(r)'
    BY <1>0, <1>1 DEF Typed, Placed
  <2> QED  BY <1>0, <1>1, <1>5, <2>1, TypedIf DEF Typed, TypeOK, Moves
<1>7. Created' /\ StaleNeedsAnUpgrade'
  BY <1>1, <1>3, <1>4 DEF IndInv, Created, StaleNeedsAnUpgrade, IsValidEpoch
<1>8. Building' /\ Refreshing'
  <2>1. \A r \in Sides : job[r].list \subseteq Uids
    BY <1>0 DEF Jobs
  <2>2. \A u \in Uids : snap[u].status # "building" => snap'[u].status # "building"
    BY <1>3
  <2>3. Building'
    BY <1>0, <1>1, <2>1, <2>2 DEF IndInv, Building, LiveBuildSurvives, At
  <2>4. Refreshing'
    BY <1>0, <1>1 DEF Refreshing
  <2> QED  BY <2>3, <2>4
<1>9. OverlapIsOnRecord'
  BY DEF Recorded, OverlapIsOnRecord
<1>10. Ready' = Ready /\ Unmarked' = Unmarked /\ \A u \in Ready : snap'[u] = snap[u]
  BY <1>3, <1>4 DEF Ready, Unmarked, IsUserMark
<1>11. ASSUME ~overlapped' PROVE Orderly'
  <2>1. /\ RowsArePromised /\ MarksStand /\ MarkInHand /\ ServingHasRows
        /\ \A r \in Sides : PlanIsSound(r) /\ PruneIsSound(r) /\ NarrowIsSound(r)
    BY <1>11 DEF IndInv, Orderly, Recorded
  <2>2. RowsArePromised' /\ MarksStand'
    <3>1. RowsArePromised'
      BY <1>3, <1>4, <2>1 DEF RowsArePromised
    <3>2. MarksStand'
      BY <1>1, <1>3, <2>1 DEF MarksStand, MarkStands, IsUserMark
    <3> QED  BY <3>1, <3>2
  <2>3. BuildIsNew' /\ ServingHasRows'
    BY <1>0, <1>1, <1>10, <2>1 DEF BuildIsNew, ServingHasRows, TopHasRows, At
  <2>4. MarkInHand'
    <3>1. job["co"].op \in {"mark", "unmark"} => job["co"].uid \in Uids
      BY <1>0, Placing
    <3> QED  BY <1>1, <1>3, <1>4, <2>1, <3>1 DEF MarkInHand
  <2>5. ASSUME NEW r \in Sides
        PROVE  PlanIsSound(r)' /\ PruneIsSound(r)' /\ NarrowIsSound(r)'
    <3>1. PlanIsSound(r)'
      BY <1>1, <1>10, <2>1 DEF PlanIsSound, At, Settled, IsValidEpoch, Unmarked
    <3>2. NarrowIsSound(r)'
      BY <1>1, <1>10, <2>1 DEF NarrowIsSound, At
    <3>3. job[r].list \subseteq Uids
      BY <1>0 DEF Jobs
    <3>4. At(r, "delete") => /\ \A u \in job[r].list : snap'[u].class = "prunable"
                             /\ Settled(job[r].list)'
      <4>1. At(r, "delete") => \A u \in job[r].list : snap[u].class = "prunable"
        BY <2>1 DEF PruneIsSound
      <4>2. At(r, "delete") => Settled(job[r].list)'
        BY <1>1, <1>10, <2>1 DEF PruneIsSound, Settled
      <4> QED  BY <1>3, <1>4, <3>3, <4>1, <4>2
    <3>5. At(r, "select") => Settled({u \in Unmarked : snap[u].class = "prunable"})'
      BY <1>10, <2>1 DEF PruneIsSound, Settled, Unmarked
    <3>6. job[r].at \in {"select", "delete"} =>
             (\A u \in Ready : snap[u].class = "prunable" /\ IsValidEpoch(u) => Superseded(u))'
      <4>1. job[r].at \in {"select", "delete"} =>
               \A u \in Ready : snap[u].class = "prunable" /\ IsValidEpoch(u) => Superseded(u)
        BY <2>1 DEF PruneIsSound
      <4>2. \A u \in Ready : Superseded(u) => Superseded(u)'
        BY <1>10 DEF Superseded
      <4> QED  BY <1>10, <4>1, <4>2 DEF IsValidEpoch
    <3>7. job[r].at \in {"non_ready", "narrow", "narrowing"} => Settled({})'
      BY <1>10, <2>1 DEF PruneIsSound, Settled
    <3>8. PruneIsSound(r)'
      BY <1>1, <3>4, <3>5, <3>6, <3>7 DEF PruneIsSound, At
    <3> QED  BY <3>1, <3>2, <3>8
  <2> QED  BY <2>2, <2>3, <2>4, <2>5 DEF Orderly
<1>12. Orderly'
  BY <1>11 DEF Orderly
<1> QED  BY <1>6, <1>7, <1>8, <1>9, <1>12 DEF IndInv

LEMMA CrashKeeps ==
    ASSUME IndInv, Recorded, NEW upgrade \in BOOLEAN, Crash(upgrade)
    PROVE  IndInv'
<1>0. Typed /\ Sides = {"db", "co"}
  BY DEF IndInv, Sides
<1>1. last' = last /\ promised' = promised /\ \A s \in Sides : job'[s] = NoJob
  BY DEF Crash
<1>2. /\ snap \in [Uids -> Snapshots] /\ ParentsExist /\ last \in 0 .. MaxSnapshots
      /\ upgrades \in 0 .. MaxUpgrades /\ promised \in [Uids -> UserMarks \cup {"none"}]
  BY <1>0 DEF Typed, TypeOK, ParentsExist
<1>3. /\ upgrades' \in 0 .. MaxUpgrades
      /\ upgrades' = 0 => ~upgrade /\ upgrades = 0
  BY <1>2, BoundsAssumption DEF Crash
<1>4. ASSUME NEW u \in Uids
      PROVE  /\ snap'[u] \in Snapshots /\ snap'[u].parent = snap[u].parent
             /\ snap'[u].status = snap[u].status /\ snap'[u].class = snap[u].class
             /\ snap'[u].rows = snap[u].rows
             /\ ~upgrade => snap'[u] = snap[u]
  <2> DEFINE e == IF snap[u].epoch = "current" THEN "stale" ELSE snap[u].epoch
  <2>1. snap[u] \in Snapshots /\ e \in {"null", "current", "stale"}
    BY <1>2 DEF Snapshots
  <2>2. snap'[u] = IF upgrade THEN [snap[u] EXCEPT !.epoch = e] ELSE snap[u]
    BY DEF Crash
  <2> HIDE DEF e
  <2> QED  BY <2>1, <2>2 DEF Snapshots
<1>5. snap' \in [Uids -> Snapshots] /\ ParentsExist'
  <2>1. snap' = [u \in Uids |-> snap'[u]]
    BY <1>2 DEF Crash
  <2> QED  BY <1>2, <1>4, <2>1, UpdateKeepsTypes
<1>6. \A s \in Sides : /\ Placed(s)' /\ OrderlyAt(s)'
                       /\ job'[s].op = "none" /\ job'[s].at = "none"
  BY <1>1, OverIsSound
<1>7. Typed'
  <2>1. job' \in [Sides -> Jobs]
    BY Idle DEF Crash
  <2>2. overlapped' \in BOOLEAN
    BY DEF Recorded
  <2>3. TypeOK'
    BY <1>1, <1>2, <1>3, <1>5, <2>1, <2>2 DEF TypeOK, ParentsExist
  <2> QED  BY <1>6, <2>1, <2>3 DEF Typed
<1>8. Created' /\ StaleNeedsAnUpgrade'
  BY <1>1, <1>3, <1>4 DEF IndInv, Created, StaleNeedsAnUpgrade, IsValidEpoch
<1>9. Building' /\ Refreshing'
  BY <1>0, <1>6 DEF Building, LiveBuildSurvives, Refreshing, At
<1>10. OverlapIsOnRecord'
  BY DEF Recorded, OverlapIsOnRecord
<1>11. ASSUME ~overlapped' PROVE Orderly'
  <2>1. RowsArePromised /\ MarksStand /\ ServingHasRows
    BY <1>11 DEF IndInv, Orderly, Recorded
  <2>2. RowsArePromised' /\ MarksStand'
    BY <1>1, <1>4, <2>1 DEF RowsArePromised, MarksStand, MarkStands, IsUserMark
  <2>3. BuildIsNew' /\ MarkInHand'
    BY <1>0, <1>6 DEF BuildIsNew, MarkInHand
  <2>4. Ready' = Ready
    BY <1>4 DEF Ready
  <2>5. ServingHasRows'
    BY <1>0, <1>3, <1>4, <1>6, <2>1, <2>4 DEF ServingHasRows, TopHasRows, At, Ready
  <2> QED  BY <1>6, <2>2, <2>3, <2>5 DEF Orderly, OrderlyAt
<1>12. Orderly'
  BY <1>11 DEF Orderly
<1> QED  BY <1>7, <1>8, <1>9, <1>10, <1>12 DEF IndInv

-----------------------------------------------------------------------------
(* The inductive invariant *)

LEMMA IndInvInit == Init => IndInv
<1> SUFFICES ASSUME Init PROVE IndInv
  OBVIOUS
<1>1. Absent \in Snapshots /\ Absent.status = "absent" /\ Absent.parent = None
      /\ Absent.class = "none" /\ Absent.epoch = "null"
  BY DEF Absent, Snapshots, Classes
<1>2. \A u \in Uids : snap[u] = Absent /\ promised[u] = "none"
  BY DEF Init
<1>3. \A s \in Sides : job[s] = NoJob /\ job[s].op = "none" /\ job[s].at = "none"
  BY DEF Init, NoJob
<1>4. Typed
  <2>1. TypeOK
    <3>1. snap \in [Uids -> Snapshots] /\ promised \in [Uids -> UserMarks \cup {"none"}]
      BY <1>1 DEF Init
    <3>2. \A u \in Uids : snap[u].parent = None
      BY <1>1, <1>2
    <3>3. last \in 0 .. MaxSnapshots /\ upgrades \in 0 .. MaxUpgrades
      BY BoundsAssumption DEF Init, None
    <3> QED  BY <3>1, <3>2, <3>3 DEF Init, TypeOK
  <2>2. job \in [Sides -> Jobs]
    BY Idle DEF Init
  <2>3. \A s \in Sides : Placed(s)
    BY <1>3 DEF Placed, OpsOf, StepsOf
  <2> QED  BY <2>1, <2>2, <2>3 DEF Typed
<1>5. "db" \in Sides /\ "co" \in Sides
  BY DEF Sides
<1>6. Ready = {}
  BY <1>1, <1>2 DEF Ready
<1>7. Created /\ Building /\ Refreshing /\ OverlapIsOnRecord /\ StaleNeedsAnUpgrade
  BY <1>1, <1>2, <1>3, <1>5 DEF Created, Building, LiveBuildSurvives, Refreshing, At,
     OverlapIsOnRecord, Overlap, StaleNeedsAnUpgrade, IsValidEpoch
<1>8. RowsArePromised /\ MarksStand /\ BuildIsNew /\ MarkInHand /\ ServingHasRows
  BY <1>1, <1>2, <1>3, <1>5, <1>6 DEF RowsArePromised, MarksStand, BuildIsNew, MarkInHand,
     ServingHasRows, TopHasRows, At
<1>9. \A s \in Sides : PlanIsSound(s) /\ PruneIsSound(s) /\ NarrowIsSound(s)
  BY <1>3 DEF PlanIsSound, PruneIsSound, NarrowIsSound, At
<1> QED  BY <1>4, <1>7, <1>8, <1>9 DEF IndInv, Orderly

(* One lemma per action, put together.                                     *)
LEMMA IndInvNext == IndInv /\ Next => IndInv'
<1> SUFFICES ASSUME IndInv, Next PROVE IndInv'
  OBVIOUS
<1>0. Recorded
  BY DEF Next, Recorded
<1>1. CASE DbStep
  BY <1>0, <1>1, StartIndexKeeps, StartRefreshKeeps, BuildReadyKeeps, BuildFailsKeeps,
     BuildDoneKeeps, StartPassKeeps, BudgetOverrunKeeps, ReconcileKeeps DEF DbStep
<1>2. CASE CoStep
  BY <1>0, <1>2, StartMarkKeeps, StartUnmarkKeeps, WriteMarkKeeps, StartMaintenanceKeeps
     DEF CoStep
<1>3. ASSUME NEW s \in Sides, SharedStep(s) PROVE IndInv'
  BY <1>0, <1>3, ClassifyReadKeeps, ClassifyWriteKeeps, SelectPrunableKeeps, DeleteOneKeeps,
     PruneNonReadyKeeps, SelectNarrowKeeps, NarrowOneKeeps, StorageErrorKeeps DEF SharedStep
<1>4. ASSUME NEW upgrade \in BOOLEAN, Crash(upgrade) PROVE IndInv'
  BY <1>0, <1>4, CrashKeeps
<1> QED  BY <1>1, <1>2, <1>3, <1>4 DEF Next

LEMMA IndInvStutters == IndInv /\ UNCHANGED vars => IndInv'
<1> SUFFICES ASSUME IndInv, UNCHANGED vars PROVE IndInv'
  OBVIOUS
<1>1. /\ snap' = snap /\ last' = last /\ upgrades' = upgrades /\ job' = job
      /\ promised' = promised /\ overlapped' = overlapped
  BY DEF vars
<1>2. Typed'
  BY <1>1 DEF IndInv, Typed, TypeOK, Placed
<1>3. (Created /\ Building /\ Refreshing /\ OverlapIsOnRecord /\ StaleNeedsAnUpgrade)'
  BY <1>1 DEF IndInv, Created, Building, LiveBuildSurvives, At, Refreshing, Free,
     OverlapIsOnRecord, Overlap, StaleNeedsAnUpgrade, IsValidEpoch
<1>4. ASSUME ~overlapped PROVE Orderly'
  <2>1. /\ RowsArePromised /\ MarksStand /\ BuildIsNew /\ MarkInHand /\ ServingHasRows
        /\ \A s \in Sides : PlanIsSound(s) /\ PruneIsSound(s) /\ NarrowIsSound(s)
    BY <1>4 DEF IndInv, Orderly
  <2>2. Ready' = Ready /\ Unmarked' = Unmarked
    BY <1>1 DEF Ready, Unmarked, IsUserMark
  <2>3. (RowsArePromised /\ MarksStand /\ BuildIsNew /\ MarkInHand)'
    BY <1>1, <2>1 DEF RowsArePromised, MarksStand, MarkStands, IsUserMark, BuildIsNew, MarkInHand
  <2>4. ServingHasRows'
    BY <1>1, <2>1, <2>2 DEF ServingHasRows, TopHasRows, At
  <2>5. ASSUME NEW s \in Sides PROVE (PlanIsSound(s) /\ PruneIsSound(s) /\ NarrowIsSound(s))'
    <3>1. PlanIsSound(s)' /\ NarrowIsSound(s)'
      BY <1>1, <2>1, <2>2 DEF PlanIsSound, NarrowIsSound, At, Settled, IsValidEpoch
    <3>2. PruneIsSound(s)'
      BY <1>1, <2>1, <2>2 DEF PruneIsSound, At, Settled, Superseded, IsValidEpoch
    <3> QED  BY <3>1, <3>2
  <2> QED  BY <2>3, <2>4, <2>5 DEF Orderly
<1> QED  BY <1>1, <1>2, <1>3, <1>4 DEF IndInv, Orderly

LEMMA IndInvHolds == Spec => []IndInv
<1>1. IndInv /\ [Next]_vars => IndInv'
  BY IndInvNext, IndInvStutters
<1> QED  BY IndInvInit, <1>1, PTL DEF Spec

-----------------------------------------------------------------------------
(* What the code promises *)

(* Types, and: whatever order deletions and builds come in, no snapshot's  *)
(* parent is one that was deleted.                                         *)
THEOREM TypeCorrect == Spec => []TypeOK
<1>1. IndInv => TypeOK
  BY DEF IndInv, Typed
<1> QED  BY <1>1, IndInvHolds, PTL

(* An index in progress keeps its building snapshot although the           *)
(* maintenance prune and the reconciliation run beside it.                 *)
THEOREM NobodyTakesABuild == Spec => []LiveBuildSurvives
<1>1. IndInv => LiveBuildSurvives
  BY DEF IndInv, Building
<1> QED  BY <1>1, IndInvHolds, PTL

(* Until a refresh is over, the snapshot it builds on is READY and has its *)
(* rows, so that a demotion can fall back to it.                           *)
THEOREM RefreshHasAFallback == Spec => []RefreshKeepsItsBase
<1>1. IndInv => RefreshKeepsItsBase
  BY DEF IndInv, Refreshing, RefreshKeepsItsBase
<1> QED  BY <1>1, IndInvHolds, PTL

(* A baseline mark survives refreshes, passes, prunes, failures, crashes   *)
(* and upgrades while mutex-only and coordinator-only jobs take turns.     *)
THEOREM MarksSurviveTurns == Spec => []SerialMarksSurvive
<1>1. IndInv => SerialMarksSurvive
  BY DEF IndInv, Orderly, MarksStand, SerialMarksSurvive
<1> QED  BY <1>1, IndInvHolds, PTL

(* What is served has its rows, also when a newer build is demoted.        *)
THEOREM ServingIsNotNarrowed == Spec => []ServedHasRows
<1>1. IndInv => ServedHasRows
  <2> SUFFICES ASSUME IndInv, ~overlapped, upgrades = 0, Latest # None
               PROVE  snap[Latest].rows
    BY DEF ServedHasRows
  <2>1. Latest \in Ready /\ \A u \in Ready : u <= Latest
    BY LatestIsNewest
  <2> QED  BY <2>1 DEF IndInv, Orderly, ServingHasRows, TopHasRows
<1> QED  BY <1>1, IndInvHolds, PTL

(* A set with no more than two elements.                                   *)
LEMMA TwoAtMost ==
    ASSUME NEW S, NEW c, NEW p, S \subseteq {c, p}
    PROVE  Cardinality(S) <= 2
<1>1. IsFiniteSet({c}) /\ Cardinality({c}) = 1
  BY FS_Singleton
<1>2. IsFiniteSet({c} \cup {p}) /\ Cardinality({c} \cup {p}) <= 2
  BY <1>1, FS_AddElement
<1>3. S \subseteq {c} \cup {p}
  OBVIOUS
<1>4. IsFiniteSet(S) /\ Cardinality(S) <= Cardinality({c} \cup {p})
  BY <1>2, <1>3, FS_Subset
<1> QED  BY <1>2, <1>4, FS_CardinalityType

(* After a prune at most the current snapshot and its parent are unmarked. *)
THEOREM PruneLeavesTwo == Spec => []SteadyState
<1>1. IndInv => SteadyState
  <2> SUFFICES ASSUME IndInv, NEW s \in Sides, ~overlapped,
                      job[s].at \in {"narrow", "narrowing", "non_ready"}
               PROVE  Cardinality(Unmarked) <= 2
    BY DEF SteadyState, Unmarked
  <2>1. Settled({})
    BY DEF IndInv, Orderly, PruneIsSound
  <2>2. PICK c, p \in Uids \cup {None} : \A u \in Unmarked : u = c \/ u = p
    BY <2>1 DEF Settled
  <2>3. Unmarked \subseteq {c, p}
    BY <2>2
  <2> QED  BY <2>3, TwoAtMost, Zenon
<1> QED  BY <1>1, IndInvHolds, PTL

(* A step that deletes no snapshot. *)
KeepsAll == \A u \in Uids : snap[u].status # "absent" => snap'[u].status # "absent"

(* Everything but the two prunes.                                          *)
LEMMA BuildsDeleteNothing ==
    ASSUME IndInv, StartIndex \/ StartRefresh \/ BuildReady \/ BuildFails
    PROVE  KeepsAll
<1>1. Typed /\ snap \in [Uids -> Snapshots] /\ last \in Nat
  BY Numbers DEF IndInv, Typed, TypeOK
<1>2. ASSUME NEW op, NEW parent, StartBuild(op, parent) PROVE KeepsAll
  <2>1. NewSnapshot(parent).status = "building"
    BY DEF NewSnapshot
  <2>2. snap' = [snap EXCEPT ![last + 1] = NewSnapshot(parent)]
    BY <1>2 DEF StartBuild
  <2> QED  BY <1>1, <2>1, <2>2 DEF KeepsAll
<1>3. ASSUME NEW status \in {"ready", "failed"}, SetStatus(job["db"].uid, status),
             job["db"].at \in {"building", "postpass"}
      PROVE  KeepsAll
  BY <1>1, <1>3, StatusIsSet, BuildIsLast DEF KeepsAll
<1>4. CASE StartIndex \/ StartRefresh
  BY <1>2, <1>4 DEF StartIndex, StartRefresh
<1>5. CASE BuildReady \/ BuildFails
  BY <1>3, <1>5 DEF BuildReady, BuildFails, At
<1> QED  BY <1>4, <1>5

LEMMA ClassesDeleteNothing ==
    ASSUME IndInv, WriteMark \/ \E s \in Sides : ClassifyWrite(s)
    PROVE  KeepsAll
<1>1. snap \in [Uids -> Snapshots]
  BY DEF IndInv, Typed, TypeOK
<1>2. ASSUME NEW x \in Snapshots, NEW class PROVE Classified(x, class).status = x.status
  BY DEF Classified, Snapshots
<1>3. CASE WriteMark
  BY <1>1, <1>2, <1>3 DEF WriteMark, KeepsAll
<1>4. ASSUME NEW s \in Sides, ClassifyWrite(s) PROVE KeepsAll
  <2> SUFFICES ASSUME NEW u \in Uids, snap[u].status # "absent"
               PROVE  snap'[u].status # "absent"
    BY DEF KeepsAll
  <2>1. snap[u] \in Snapshots
    BY <1>1
  <2>2. snap'[u] = snap[u] \/ snap'[u] = Classified(snap[u], job[s].plan[u])
    BY <1>4 DEF ClassifyWrite
  <2> QED  BY <1>2, <2>1, <2>2
<1> QED  BY <1>3, <1>4

LEMMA RepairsDeleteNothing ==
    ASSUME IndInv, Reconcile \/ (\E upgrade \in BOOLEAN : Crash(upgrade))
                       \/ \E s \in Sides : NarrowOne(s)
    PROVE  KeepsAll
<1>1. snap \in [Uids -> Snapshots]
  BY DEF IndInv, Typed, TypeOK
<1>2. CASE Reconcile
  <2> SUFFICES ASSUME NEW u \in Uids, snap[u].status # "absent"
               PROVE  snap'[u].status # "absent"
    BY DEF KeepsAll
  <2>1. PICK x \in Snapshots : x = snap[u]
    BY <1>1
  <2>2. snap'[u] = x \/ snap'[u] = [x EXCEPT !.status = "failed", !.class = "prunable"]
    BY <1>2, <2>1 DEF Reconcile
  <2>3. [x EXCEPT !.status = "failed", !.class = "prunable"].status = "failed"
    BY InterruptedIs
  <2> QED  BY <2>1, <2>2, <2>3
<1>3. ASSUME NEW upgrade \in BOOLEAN, Crash(upgrade) PROVE KeepsAll
  <2> SUFFICES ASSUME NEW u \in Uids, snap[u].status # "absent"
               PROVE  snap'[u].status # "absent"
    BY DEF KeepsAll
  <2>1. snap[u] \in Snapshots
    BY <1>1
  <2>2. \/ snap'[u] = snap[u]
        \/ snap'[u] = [snap[u] EXCEPT !.epoch = IF @ = "current" THEN "stale" ELSE @]
    BY <1>3 DEF Crash
  <2> QED  BY <2>1, <2>2 DEF Snapshots
<1>4. ASSUME NEW s \in Sides, NarrowOne(s) PROVE KeepsAll
  <2>1. PICK u \in job[s].list : snap' = [snap EXCEPT ![u].rows = FALSE]
    BY <1>4 DEF NarrowOne
  <2> QED  BY <1>1, <2>1 DEF KeepsAll, Snapshots
<1> QED  BY <1>2, <1>3, <1>4

(* The two that do delete. *)
LEMMA PrunesKeepLatest ==
    ASSUME IndInv, ~overlapped, Latest # None, snap[Latest].epoch # "stale",
           NEW s \in Sides, DeleteOne(s) \/ PruneNonReady(s)
    PROVE  snap'[Latest].status # "absent"
<1>1. PICK l \in Ready : l = Latest /\ \A u \in Ready : u <= l
  BY LatestIsNewest
<1>2. /\ Typed /\ snap \in [Uids -> Snapshots] /\ ParentsExist /\ l \in Uids
      /\ snap[l].status = "ready" /\ Ready \subseteq Nat
  BY <1>1, Numbers DEF IndInv, Typed, TypeOK, ParentsExist, Ready
<1>3. ASSUME NEW gone \in SUBSET Uids, snap' = Without(gone), l \notin gone
      PROVE  snap'[l].status # "absent"
  BY <1>2, <1>3, WithoutKeeps DEF Keeps
<1>4. CASE PruneNonReady(s)
  <2>1. l \notin {u \in Uids : snap[u].status # "ready"}
    BY <1>2
  <2>2. snap' = snap \/ snap' = Without({u \in Uids : snap[u].status # "ready"})
    BY <1>4 DEF PruneNonReady
  <2> QED  BY <1>1, <1>2, <1>3, <2>1, <2>2
<1>5. CASE DeleteOne(s)
  <2>1. PICK u \in job[s].list : snap' = Without({u})
    BY <1>5 DEF DeleteOne
  <2>2. /\ u \in Uids /\ snap[u].class = "prunable"
        /\ \A v \in Ready : snap[v].class = "prunable" /\ IsValidEpoch(v) => Superseded(v)
    BY <1>2, <1>5, <2>1 DEF IndInv, Orderly, PruneIsSound, DeleteOne, At, Typed, Jobs
  <2>3. u # l
    <3> SUFFICES ASSUME u = l PROVE FALSE
      OBVIOUS
    <3>1. Superseded(l)
      BY <1>1, <2>2 DEF IsValidEpoch
    <3>2. PICK v \in Ready : v > l
      BY <3>1 DEF Superseded
    <3> QED  BY <1>1, <1>2, <3>2
  <2> QED  BY <1>1, <1>3, <2>1, <2>2, <2>3
<1> QED  BY <1>4, <1>5

(* While jobs take turns no prune deletes the snapshot that is served,     *)
(* unless a newer daemon has made its epoch stale: the class written by    *)
(* the classification keeps it off the list until the list is worked off.  *)
THEOREM ServedIsNeverPruned == Spec => ServedIsKept
<1>1. ASSUME IndInv, Next, ~overlapped', Latest # None, snap[Latest].epoch # "stale"
      PROVE  snap'[Latest].status # "absent"
  <2>1. ~overlapped
    BY <1>1 DEF Next
  <2>2. Latest \in Uids /\ snap[Latest].status # "absent"
    BY <1>1, LatestIsNewest DEF Ready
  <2>3. CASE KeepsAll \/ UNCHANGED snap
    BY <2>2, <2>3 DEF KeepsAll
  <2>4. ASSUME NEW s \in Sides, DeleteOne(s) \/ PruneNonReady(s)
        PROVE  snap'[Latest].status # "absent"
    BY <1>1, <2>1, <2>4, PrunesKeepLatest
  <2>5. \/ UNCHANGED snap
        \/ StartIndex \/ StartRefresh \/ BuildReady \/ BuildFails \/ Reconcile \/ WriteMark
        \/ \E s \in Sides : \/ ClassifyWrite(s) \/ NarrowOne(s)
                            \/ DeleteOne(s) \/ PruneNonReady(s)
        \/ \E upgrade \in BOOLEAN : Crash(upgrade)
    BY <1>1 DEF Next, DbStep, CoStep, SharedStep, BuildDone, StartPass, BudgetOverrun, StartMark,
       StartUnmark, StartMaintenance, ClassifyRead, SelectPrunable, SelectNarrow, StorageError
  <2> QED  BY <1>1, <2>3, <2>4, <2>5, BuildsDeleteNothing, ClassesDeleteNothing,
              RepairsDeleteNothing
<1>2. ASSUME UNCHANGED vars, Latest # None
      PROVE  snap'[Latest].status # "absent"
  BY <1>2, LatestIsNewest DEF vars, Ready
<1>3. IndInv /\ [Next]_vars =>
         [overlapped' \/ Latest = None \/ snap[Latest].epoch = "stale"
             \/ snap'[Latest].status # "absent"]_vars
  BY <1>1, <1>2
<1> QED  BY <1>3, IndInvHolds, PTL DEF Spec, ServedIsKept
=============================================================================
