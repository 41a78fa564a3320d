------------------------- MODULE AutoReindexProofs --------------------------
(***************************************************************************)
(* Proofs about AutoReindex, for any number of stores, clients, writes and *)
(* forgets.                                                                *)
(***************************************************************************)
EXTENDS AutoReindex, LineLemmas, FiniteSetTheorems, TLAPS

-----------------------------------------------------------------------------
(* The inductive invariant, by what its parts relate *)

UidsOfKey == 1 .. MaxForgets + 1

Jobs == [key : Keys, uid : UidsOfKey, state : JobStates]

ClientStates ==
    [at : {"idle", "asked", "writing", "leaving"}, key : Keys \cup {None},
     verb : {"index", "rebuild", None}, guard : BOOLEAN]

WorkerStates ==
    [at : {"idle", "reading", "found", "started", "indexing", "returned", "dead"},
     key : Keys \cup {None}, uid : 0 .. MaxForgets + 1, end : {"finished", "failed", None},
     saw : BOOLEAN]

Shape ==
    /\ registered \subseteq Keys /\ stale \subseteq registered /\ sentinel \subseteq Keys
    /\ uid \in [Keys -> UidsOfKey] /\ writes \in 0 .. MaxWrites
    /\ on \in BOOLEAN /\ failure \in BOOLEAN

ClientsFit ==
    /\ client \in [Clients -> ClientStates]
    /\ \A c \in Clients : client[c].at = "idle" => ~client[c].guard
    /\ \A c \in Clients : client[c].at # "idle" => client[c].key \in Keys

WorkerFits ==
    /\ worker \in WorkerStates
    /\ worker.at \notin {"idle", "dead"} => worker.key \in Keys
    /\ worker.at = "returned" => worker.end \in {"finished", "failed"}

(* The stamp was read with the repo registered. *)
StampWasSeen == worker.at \in {"found", "started", "indexing", "returned"} => worker.saw

(* One job for each registration. *)
OneEach(q) == \A i, j \in 1 .. Len(q) : q[i].key = q[j].key /\ q[i].uid = q[j].uid => i = j

QueueFits == jobs \in Seq(Jobs) /\ OneEach(jobs)

(* Nobody but the worker marks a job as running, and it is the one it runs. *)
RunningIsTheWorkers ==
    \A i \in 1 .. Len(jobs) : jobs[i].state = "running" =>
        /\ worker.at \in {"started", "indexing", "returned"}
        /\ jobs[i].key = worker.key /\ jobs[i].uid = worker.uid

Guarded(k) == {c \in Clients : client[c].key = k /\ client[c].guard}

GuardsAreCounted == explicit = [k \in Keys |-> Cardinality(Guarded(k))]

IndInv ==
    /\ Shape
    /\ ClientsFit
    /\ WorkerFits
    /\ StampWasSeen
    /\ QueueFits
    /\ RunningIsTheWorkers
    /\ GuardsAreCounted

-----------------------------------------------------------------------------
(* The queue *)

(* Append of a job whose registration has none. *)
LEMMA AppendJob ==
    ASSUME NEW q \in Seq(Jobs), OneEach(q), NEW x \in Jobs,
           \A i \in 1 .. Len(q) : ~Is(q[i], x.key, x.uid)
    PROVE  /\ Append(q, x) \in Seq(Jobs) /\ OneEach(Append(q, x))
           /\ Len(Append(q, x)) = Len(q) + 1
           /\ \A i \in 1 .. Len(q) : Append(q, x)[i] = q[i]
           /\ Append(q, x)[Len(q) + 1] = x
<1>1. /\ Append(q, x) \in Seq(Jobs) /\ Len(Append(q, x)) = Len(q) + 1
      /\ \A i \in 1 .. Len(q) : Append(q, x)[i] = q[i]
      /\ Append(q, x)[Len(q) + 1] = x
  BY AppendProperties
<1>2. OneEach(Append(q, x))
  BY <1>1 DEF OneEach, Is
<1> QED  BY <1>1, <1>2

LEMMA JobIndex ==
    ASSUME jobs \in Seq(Jobs), NEW k, NEW u, HasJob(k, u)
    PROVE  JobAt(k, u) \in 1 .. Len(jobs) /\ Is(jobs[JobAt(k, u)], k, u)
<1>1. DOMAIN jobs = 1 .. Len(jobs)
  BY LenProperties
<1> QED  BY <1>1 DEF HasJob, JobAt

(* What is left of the queue when a registration's job is taken out. *)
LEMMA WithoutJob ==
    ASSUME QueueFits, NEW k, NEW u
    PROVE  LET r == JobsWithout(k, u)
           IN  /\ r \in Seq(Jobs) /\ OneEach(r) /\ Len(jobs) <= Len(r) + 1
               /\ \A i \in 1 .. Len(r) : ~Is(r[i], k, u)
               /\ \A i \in 1 .. Len(r) :
                     \E m \in 1 .. Len(jobs) : (m = i \/ m = i + 1) /\ r[i] = jobs[m]
<1> DEFINE r == JobsWithout(k, u)
<1>1. jobs \in Seq(Jobs) /\ DOMAIN jobs = 1 .. Len(jobs) /\ Len(jobs) \in Nat
  BY LenProperties DEF QueueFits
<1>2. CASE ~HasJob(k, u)
  BY <1>1, <1>2 DEF JobsWithout, HasJob, QueueFits
<1>3. CASE HasJob(k, u)
  <2> DEFINE a == JobAt(k, u)
  <2>1. a \in 1 .. Len(jobs) /\ jobs[a].key = k /\ jobs[a].uid = u
    BY <1>1, <1>3, JobIndex DEF Is
  <2>2. r = SubSeq(jobs, 1, a - 1) \o SubSeq(jobs, a + 1, Len(jobs))
    BY <1>3 DEF JobsWithout, RemoveAt
  <2> HIDE DEF a, r
  <2>3. /\ r \in Seq(Jobs) /\ Len(r) = Len(jobs) - 1
        /\ \A i \in 1 .. Len(jobs) - 1 : r[i] = IF i < a THEN jobs[i] ELSE jobs[i + 1]
    BY <1>1, <2>1, <2>2, RemoveIndex
  <2>4. ASSUME NEW i \in 1 .. Len(r)
        PROVE  \E m \in 1 .. Len(jobs) : /\ m = (IF i < a THEN i ELSE i + 1)
                                         /\ m # a /\ r[i] = jobs[m]
    BY <1>1, <2>1, <2>3
  <2>5. \A i \in 1 .. Len(r) : ~Is(r[i], k, u)
    BY <2>1, <2>4 DEF QueueFits, OneEach, Is
  <2>6. ASSUME NEW i \in 1 .. Len(r), NEW j \in 1 .. Len(r),
               r[i].key = r[j].key, r[i].uid = r[j].uid
        PROVE  i = j
    <3>1. PICK m \in 1 .. Len(jobs) : m = (IF i < a THEN i ELSE i + 1) /\ r[i] = jobs[m]
      BY <2>4
    <3>2. PICK n \in 1 .. Len(jobs) : n = (IF j < a THEN j ELSE j + 1) /\ r[j] = jobs[n]
      BY <2>4
    <3>3. m = n
      BY <2>6, <3>1, <3>2 DEF QueueFits, OneEach
    <3> QED  BY <1>1, <2>1, <2>3, <3>1, <3>2, <3>3
  <2>7. \A i \in 1 .. Len(r) :
           \E m \in 1 .. Len(jobs) : (m = i \/ m = i + 1) /\ r[i] = jobs[m]
    BY <2>4
  <2>8. OneEach(r)
    BY <2>6 DEF OneEach
  <2> QED  BY <1>1, <2>3, <2>5, <2>7, <2>8 DEF r
<1> QED  BY <1>2, <1>3

(* set_job_state. *)
LEMMA SetsJobState ==
    ASSUME QueueFits, NEW k, NEW u, NEW s \in JobStates, SetJobState(k, u, s)
    PROVE  /\ QueueFits' /\ Len(jobs') = Len(jobs)
           /\ \A i \in 1 .. Len(jobs) :
                 /\ jobs'[i].key = jobs[i].key /\ jobs'[i].uid = jobs[i].uid
                 /\ jobs'[i].state = IF Is(jobs[i], k, u) THEN s ELSE jobs[i].state
<1>1. /\ jobs \in Seq(Jobs) /\ DOMAIN jobs = 1 .. Len(jobs) /\ Len(jobs) \in Nat
      /\ \A i \in 1 .. Len(jobs) : jobs[i] \in Jobs
  BY LenProperties, ElementOfSeq DEF QueueFits
<1>2. \A i \in 1 .. Len(jobs) :
         jobs'[i] = IF Is(jobs[i], k, u) THEN [jobs[i] EXCEPT !.state = s] ELSE jobs[i]
  BY <1>1 DEF SetJobState
<1>3. \A i \in 1 .. Len(jobs) :
         /\ jobs'[i] \in Jobs /\ jobs'[i].key = jobs[i].key /\ jobs'[i].uid = jobs[i].uid
         /\ jobs'[i].state = IF Is(jobs[i], k, u) THEN s ELSE jobs[i].state
  BY <1>1, <1>2 DEF Jobs
<1>4. jobs' \in Seq(Jobs) /\ Len(jobs') = Len(jobs)
  <2>1. jobs' \in [1 .. Len(jobs) -> Jobs]
    BY <1>1, <1>3 DEF SetJobState
  <2>2. jobs' \in Seq(Jobs)
    BY <1>1, <2>1, SeqDef
  <2> QED  BY <1>1, <2>1, <2>2, LenProperties
<1>5. OneEach(jobs')
  BY <1>3, <1>4 DEF QueueFits, OneEach
<1> QED  BY <1>3, <1>4, <1>5 DEF QueueFits

-----------------------------------------------------------------------------
(* The guards *)

(* A step that takes and drops none. *)
LEMMA CountStays ==
    ASSUME GuardsAreCounted, explicit' = explicit,
           \A c \in Clients : /\ client'[c].guard = client[c].guard
                              /\ client'[c].key = client[c].key
    PROVE  GuardsAreCounted'
<1>1. \A k \in Keys : Guarded(k)' = Guarded(k)
  BY DEF Guarded
<1> QED  BY <1>1 DEF GuardsAreCounted

LEMMA GuardedIsFinite ==
    ASSUME NEW k
    PROVE  IsFiniteSet(Guarded(k)) /\ Cardinality(Guarded(k)) \in Nat
<1>1. Guarded(k) \subseteq Clients
  BY DEF Guarded
<1> QED  BY <1>1, ReindexAssumption, FS_Subset, FS_CardinalityType

(* No entry in explicit_writes: no guard. *)
LEMMA NoEntryNoGuard ==
    ASSUME GuardsAreCounted, NEW k \in Keys, explicit[k] = 0
    PROVE  \A c \in Clients : ~(client[c].key = k /\ client[c].guard)
<1>1. Cardinality(Guarded(k)) = 0
  BY DEF GuardsAreCounted
<1>2. Guarded(k) = {}
  BY <1>1, GuardedIsFinite, FS_EmptySet
<1> QED  BY <1>2 DEF Guarded

-----------------------------------------------------------------------------
(* Requests *)

(* A step that leaves the worker and the queue alone. *)
queueAndWorker == <<jobs, worker>>

LEMMA QueueStays ==
    ASSUME IndInv, UNCHANGED queueAndWorker
    PROVE  (WorkerFits /\ StampWasSeen /\ QueueFits /\ RunningIsTheWorkers)'
BY DEF IndInv, queueAndWorker, WorkerFits, StampWasSeen, QueueFits, OneEach, RunningIsTheWorkers

LEMMA ExplicitWriteGuardKeeps ==
    ASSUME IndInv, NEW c \in Clients, ExplicitWriteGuard(c)
    PROVE  IndInv'
<1> USE DEF IndInv
<1>1. PICK k \in Keys, v \in {"index", "rebuild"} :
         /\ client' = [client EXCEPT ![c] =
                [at |-> "asked", key |-> k, verb |-> v, guard |-> k \in registered]]
         /\ explicit' = IF k \in registered THEN [explicit EXCEPT ![k] = @ + 1] ELSE explicit
  BY DEF ExplicitWriteGuard
<1>2. ClientsFit'
  <2>1. [at |-> "asked", key |-> k, verb |-> v, guard |-> k \in registered] \in ClientStates
    BY DEF ClientStates
  <2> QED  BY <1>1, <2>1 DEF ClientsFit, ClientStates
<1>3. Shape'
  BY ReindexAssumption DEF ExplicitWriteGuard, Shape, storeVars
<1>4. GuardsAreCounted'
  <2>1. /\ ~client[c].guard
        /\ \A d \in Clients \ {c} : client'[d] = client[d]
        /\ client'[c].key = k /\ (client'[c].guard <=> k \in registered)
    BY <1>1 DEF ExplicitWriteGuard, ClientsFit
  <2>2. CASE k \notin registered
    <3>1. \A l \in Keys : Guarded(l)' = Guarded(l)
      BY <2>1, <2>2 DEF Guarded
    <3> QED  BY <1>1, <2>2, <3>1 DEF GuardsAreCounted
  <2>3. CASE k \in registered
    <3>1. /\ \A l \in Keys \ {k} : Guarded(l)' = Guarded(l)
          /\ Guarded(k)' = Guarded(k) \cup {c} /\ c \notin Guarded(k)
      BY <2>1, <2>3 DEF Guarded
    <3>2. Cardinality(Guarded(k)') = Cardinality(Guarded(k)) + 1
      BY <3>1, GuardedIsFinite, FS_AddElement
    <3> QED  BY <1>1, <2>3, <3>1, <3>2 DEF GuardsAreCounted
  <2> QED  BY <2>2, <2>3
<1> QED  BY <1>2, <1>3, <1>4, QueueStays DEF ExplicitWriteGuard, queueAndWorker

LEMMA DropExplicitWriteGuardKeeps ==
    ASSUME IndInv, NEW c \in Clients, DropExplicitWriteGuard(c)
    PROVE  IndInv'
<1> USE DEF IndInv
<1>1. ClientsFit'
  BY DEF DropExplicitWriteGuard, Idle, ClientsFit, ClientStates
<1>2. Shape'
  BY DEF DropExplicitWriteGuard, Shape, storeVars
<1>3. GuardsAreCounted'
  <2>1. PICK k \in Keys : client[c].key = k
    BY DEF DropExplicitWriteGuard, ClientsFit
  <2>2. /\ \A d \in Clients \ {c} : client'[d] = client[d]
        /\ ~client'[c].guard
    BY DEF DropExplicitWriteGuard, Idle, ClientsFit
  <2>3. CASE ~client[c].guard
    <3>1. \A l \in Keys : Guarded(l)' = Guarded(l)
      BY <2>2, <2>3 DEF Guarded
    <3> QED  BY <2>3, <3>1 DEF GuardsAreCounted, DropExplicitWriteGuard
  <2>4. CASE client[c].guard
    <3>1. explicit' = [explicit EXCEPT ![k] = @ - 1]
      BY <2>1, <2>4 DEF DropExplicitWriteGuard
    <3>2. /\ \A l \in Keys \ {k} : Guarded(l)' = Guarded(l)
          /\ Guarded(k)' = Guarded(k) \ {c} /\ c \in Guarded(k)
      BY <2>1, <2>2, <2>4 DEF Guarded
    <3>3. Cardinality(Guarded(k)') = Cardinality(Guarded(k)) - 1
      BY <3>2, GuardedIsFinite, FS_RemoveElement
    <3> QED  BY <2>2, <3>1, <3>2, <3>3 DEF GuardsAreCounted
  <2> QED  BY <2>3, <2>4
<1> QED  BY <1>1, <1>2, <1>3, QueueStays DEF DropExplicitWriteGuard, queueAndWorker

LEMMA BeginWriteKeeps ==
    ASSUME IndInv, NEW c \in Clients, BeginWrite(c)
    PROVE  IndInv'
<1> USE DEF IndInv
<1>1. PICK p \in {"writing", "leaving"} : client' = [client EXCEPT ![c].at = p]
  BY DEF BeginWrite, Sits
<1>2. client[c].key \in Keys
  BY DEF BeginWrite, ClientsFit
<1>3. ClientsFit'
  BY <1>1, <1>2 DEF ClientsFit, ClientStates
<1>4. Shape'
  BY <1>2 DEF BeginWrite, Shape, queueVars
<1>5. GuardsAreCounted'
  BY <1>1, CountStays DEF BeginWrite, ClientsFit, ClientStates, queueVars
<1> QED  BY <1>3, <1>4, <1>5, QueueStays DEF BeginWrite, queueVars, queueAndWorker

LEMMA EndWriteKeeps ==
    ASSUME IndInv, NEW c \in Clients, EndWrite(c)
    PROVE  IndInv'
<1> USE DEF IndInv
<1>1. client' = [client EXCEPT ![c].at = "leaving"] /\ client[c].key \in Keys
  BY DEF EndWrite, Sits, ClientsFit
<1>2. ClientsFit'
  BY <1>1 DEF ClientsFit, ClientStates
<1>3. Shape'
  BY DEF EndWrite, Shape, queueVars
<1>4. GuardsAreCounted'
  BY <1>1, CountStays DEF EndWrite, ClientsFit, ClientStates, queueVars
<1> QED  BY <1>2, <1>3, <1>4, QueueStays DEF EndWrite, queueVars, queueAndWorker

LEMMA ForgetRepoKeeps ==
    ASSUME IndInv, NEW k \in Keys, ForgetRepo(k)
    PROVE  IndInv'
<1> USE DEF IndInv
<1>1. Shape'
  BY ReindexAssumption DEF ForgetRepo, Shape, UidsOfKey, queueVars
<1>2. ClientsFit' /\ GuardsAreCounted'
  BY CountStays DEF ForgetRepo, ClientsFit, queueVars
<1> QED  BY <1>1, <1>2, QueueStays DEF ForgetRepo, queueVars, queueAndWorker

LEMMA NewJobFits ==
    ASSUME Shape, NEW k \in Keys
    PROVE  NewJob(k) \in Jobs /\ NewJob(k).key = k /\ NewJob(k).uid = uid[k]
           /\ NewJob(k).state = "queued"
BY DEF Shape, NewJob, Jobs, JobStates

LEMMA NoteFirstUseKeeps ==
    ASSUME IndInv, NEW k \in Keys, NoteFirstUse(k)
    PROVE  IndInv'
<1> USE DEF IndInv
<1>1. jobs \in Seq(Jobs) /\ OneEach(jobs) /\ DOMAIN jobs = 1 .. Len(jobs) /\ Len(jobs) \in Nat
  BY LenProperties DEF QueueFits
<1>2. \A i \in 1 .. Len(jobs) : ~Is(jobs[i], NewJob(k).key, NewJob(k).uid)
  BY <1>1, NewJobFits DEF NoteFirstUse, HasJob
<1>3. /\ jobs' \in Seq(Jobs) /\ OneEach(jobs') /\ Len(jobs') = Len(jobs) + 1
      /\ \A i \in 1 .. Len(jobs) : jobs'[i] = jobs[i]
      /\ jobs'[Len(jobs) + 1] = NewJob(k)
  BY <1>1, <1>2, NewJobFits, AppendJob DEF NoteFirstUse
<1>4. RunningIsTheWorkers'
  BY <1>1, <1>3, NewJobFits DEF NoteFirstUse, RunningIsTheWorkers
<1>5. (Shape /\ ClientsFit /\ WorkerFits /\ StampWasSeen)'
  BY DEF NoteFirstUse, storeVars, Shape, ClientsFit, WorkerFits, StampWasSeen
<1>6. GuardsAreCounted'
  BY CountStays DEF NoteFirstUse
<1> QED  BY <1>3, <1>4, <1>5, <1>6 DEF QueueFits

LEMMA ReindexStateForRequestKeeps ==
    ASSUME IndInv, NEW k \in Keys, ReindexStateForRequest(k)
    PROVE  IndInv'
<1> USE DEF IndInv
<1> DEFINE r == JobsWithout(k, uid[k])
<1>1. /\ r \in Seq(Jobs) /\ OneEach(r) /\ Len(r) \in Nat
      /\ \A i \in 1 .. Len(r) : ~Is(r[i], k, uid[k])
      /\ \A i \in 1 .. Len(r) : \E m \in 1 .. Len(jobs) : r[i] = jobs[m]
  BY WithoutJob, LenProperties
<1>2. jobs' = Append(r, NewJob(k))
  BY DEF ReindexStateForRequest
<1> HIDE DEF r
<1>3. /\ jobs' \in Seq(Jobs) /\ OneEach(jobs') /\ Len(jobs') = Len(r) + 1
      /\ \A i \in 1 .. Len(r) : jobs'[i] = r[i]
      /\ jobs'[Len(r) + 1] = NewJob(k)
  BY <1>1, <1>2, NewJobFits, AppendJob
<1>4. RunningIsTheWorkers'
  BY <1>1, <1>3, NewJobFits DEF ReindexStateForRequest, RunningIsTheWorkers
<1>5. (Shape /\ ClientsFit /\ WorkerFits /\ StampWasSeen)'
  BY DEF ReindexStateForRequest, storeVars, Shape, ClientsFit, WorkerFits, StampWasSeen
<1>6. GuardsAreCounted'
  BY CountStays DEF ReindexStateForRequest
<1> QED  BY <1>3, <1>4, <1>5, <1>6 DEF QueueFits

-----------------------------------------------------------------------------
(* The worker *)

(* A step that leaves the registry, the stores and the requests alone. *)
requests == <<on, explicit, failure, storeVars, client, writes>>

LEMMA RequestsStay ==
    ASSUME IndInv, UNCHANGED requests
    PROVE  (Shape /\ ClientsFit /\ GuardsAreCounted)'
<1>1. (Shape /\ ClientsFit)'
  BY DEF IndInv, requests, storeVars, Shape, ClientsFit
<1> QED  BY <1>1, CountStays DEF IndInv, requests

LEMMA RestingFits ==
    /\ Resting \in WorkerStates /\ Resting.at = "idle"
    /\ [Resting EXCEPT !.at = "dead"] \in WorkerStates
    /\ [Resting EXCEPT !.at = "dead"].at = "dead"
<1>1. 0 \in 0 .. MaxForgets + 1
  BY ReindexAssumption
<1> QED  BY <1>1 DEF Resting, WorkerStates

(* A job that ends is not running any more: none is. *)
LEMMA JobEnds ==
    ASSUME IndInv, NEW s \in {"finished", "failed"}, SetJobState(worker.key, worker.uid, s),
           WorkerRests, UNCHANGED requests
    PROVE  IndInv'
<1>1. /\ QueueFits' /\ Len(jobs') = Len(jobs)
      /\ \A i \in 1 .. Len(jobs) :
            /\ jobs'[i].key = jobs[i].key /\ jobs'[i].uid = jobs[i].uid
            /\ jobs'[i].state = IF Is(jobs[i], worker.key, worker.uid) THEN s ELSE jobs[i].state
  BY SetsJobState DEF IndInv, JobStates
<1>2. RunningIsTheWorkers'
  BY <1>1 DEF IndInv, RunningIsTheWorkers, Is
<1>3. WorkerFits' /\ StampWasSeen'
  BY RestingFits DEF WorkerRests, WorkerFits, StampWasSeen
<1> QED  BY <1>1, <1>2, <1>3, RequestsStay DEF IndInv

(* The worker moves and leaves the queue alone. *)
LEMMA WorkerMoves ==
    ASSUME IndInv, UNCHANGED jobs,
           worker.at \in {"started", "indexing", "returned"} =>
               /\ worker'.at \in {"started", "indexing", "returned"}
               /\ worker'.key = worker.key /\ worker'.uid = worker.uid
    PROVE  QueueFits' /\ RunningIsTheWorkers'
BY DEF IndInv, QueueFits, OneEach, RunningIsTheWorkers

LEMMA NextStartableKeeps ==
    ASSUME IndInv, NextStartable
    PROVE  IndInv'
<1>1. DOMAIN jobs = 1 .. Len(jobs) /\ \A i \in 1 .. Len(jobs) : jobs[i] \in Jobs
  BY LenProperties, ElementOfSeq DEF IndInv, QueueFits
<1>2. PICK i \in 1 .. Len(jobs) :
         worker' = [Resting EXCEPT !.at = "reading", !.key = jobs[i].key, !.uid = jobs[i].uid]
  BY <1>1 DEF NextStartable
<1>3. jobs[i].key \in Keys /\ jobs[i].uid \in 0 .. MaxForgets + 1
  BY <1>1, ReindexAssumption DEF Jobs, UidsOfKey
<1>4. worker' = [at |-> "reading", key |-> jobs[i].key, uid |-> jobs[i].uid, end |-> None,
                 saw |-> FALSE]
  BY <1>2 DEF Resting
<1>5. WorkerFits' /\ StampWasSeen'
  BY <1>3, <1>4 DEF WorkerFits, WorkerStates, StampWasSeen
<1>6. QueueFits' /\ RunningIsTheWorkers'
  BY WorkerMoves DEF NextStartable, queueVars
<1> QED  BY <1>5, <1>6, RequestsStay DEF IndInv, NextStartable, queueVars, requests

LEMMA ReadStampContendedKeeps ==
    ASSUME IndInv, ReadStampContended
    PROVE  IndInv'
<1> DEFINE k == worker.key
           u == worker.uid
           r == JobsWithout(k, u)
<1>1. WorkerFits' /\ StampWasSeen'
  BY RestingFits DEF ReadStampContended, WorkerRests, WorkerFits, StampWasSeen
<1>2. CASE ~HasJob(k, u)
  <2>1. QueueFits' /\ RunningIsTheWorkers'
    BY <1>2, WorkerMoves DEF ReadStampContended
  <2> QED  BY <1>1, <2>1, RequestsStay DEF IndInv, ReadStampContended, requests
<1>3. CASE HasJob(k, u)
  <2> DEFINE a == JobAt(k, u)
  <2>1. jobs \in Seq(Jobs) /\ Len(jobs) \in Nat /\ \A i \in 1 .. Len(jobs) : jobs[i] \in Jobs
    BY LenProperties, ElementOfSeq DEF IndInv, QueueFits
  <2>2. a \in 1 .. Len(jobs) /\ jobs[a].key = k /\ jobs[a].uid = u
    BY <1>3, <2>1, JobIndex DEF Is
  <2>3. /\ r \in Seq(Jobs) /\ OneEach(r) /\ Len(r) \in Nat
        /\ \A i \in 1 .. Len(r) : ~Is(r[i], k, u)
        /\ \A i \in 1 .. Len(r) : \E m \in 1 .. Len(jobs) : r[i] = jobs[m]
    BY WithoutJob, LenProperties DEF IndInv
  <2>4. jobs' = Append(r, jobs[a])
    BY <1>3 DEF ReadStampContended
  <2> HIDE DEF r, a
  <2>5. /\ jobs' \in Seq(Jobs) /\ OneEach(jobs') /\ Len(jobs') = Len(r) + 1
        /\ \A i \in 1 .. Len(r) : jobs'[i] = r[i]
        /\ jobs'[Len(r) + 1] = jobs[a]
    BY <2>1, <2>2, <2>3, <2>4, AppendJob
  <2>6. \A m \in 1 .. Len(jobs) : jobs[m].state # "running"
    BY DEF IndInv, ReadStampContended, RunningIsTheWorkers
  <2>7. RunningIsTheWorkers'
    BY <2>2, <2>3, <2>5, <2>6 DEF RunningIsTheWorkers
  <2> QED  BY <1>1, <2>5, <2>7, RequestsStay DEF IndInv, QueueFits, ReadStampContended, requests
<1> QED  BY <1>2, <1>3

LEMMA ReadStampEndsKeeps ==
    ASSUME IndInv, ReadStampEnds
    PROVE  IndInv'
BY JobEnds DEF ReadStampEnds, requests

LEMMA EndJobKeeps ==
    ASSUME IndInv, EndJob
    PROVE  IndInv'
<1>1. worker.end \in {"finished", "failed"}
  BY DEF IndInv, WorkerFits, EndJob
<1> QED  BY <1>1, JobEnds DEF EndJob, requests

LEMMA ReadStampReindexKeeps ==
    ASSUME IndInv, ReadStampReindex
    PROVE  IndInv'
<1>1. worker' = [worker EXCEPT !.at = "found", !.saw = TRUE]
  BY DEF ReadStampReindex
<1>2. WorkerFits' /\ StampWasSeen'
  BY <1>1 DEF IndInv, WorkerFits, WorkerStates, StampWasSeen, ReadStampReindex
<1>3. QueueFits' /\ RunningIsTheWorkers'
  BY WorkerMoves DEF ReadStampReindex, queueVars
<1> QED  BY <1>2, <1>3, RequestsStay DEF IndInv, ReadStampReindex, queueVars, requests

LEMMA StartJobKeeps ==
    ASSUME IndInv, StartJob
    PROVE  IndInv'
<1>1. CASE WorkerRests /\ UNCHANGED jobs
  <2>1. WorkerFits' /\ StampWasSeen'
    BY <1>1, RestingFits DEF WorkerRests, WorkerFits, StampWasSeen
  <2>2. QueueFits' /\ RunningIsTheWorkers'
    BY <1>1, WorkerMoves DEF StartJob
  <2> QED  BY <2>1, <2>2, RequestsStay DEF IndInv, StartJob, requests
<1>2. CASE /\ SetJobState(worker.key, worker.uid, "running")
           /\ worker' = [worker EXCEPT !.at = "started"]
  <2>1. WorkerFits' /\ StampWasSeen' /\ worker'.key = worker.key /\ worker'.uid = worker.uid
    BY <1>2 DEF IndInv, WorkerFits, WorkerStates, StampWasSeen, StartJob
  <2>2. /\ QueueFits' /\ Len(jobs') = Len(jobs)
        /\ \A i \in 1 .. Len(jobs) :
              /\ jobs'[i].key = jobs[i].key /\ jobs'[i].uid = jobs[i].uid
              /\ jobs'[i].state = IF Is(jobs[i], worker.key, worker.uid)
                                  THEN "running" ELSE jobs[i].state
    BY <1>2, SetsJobState DEF IndInv, JobStates
  <2>3. worker'.at = "started" /\ \A i \in 1 .. Len(jobs) : jobs[i].state # "running"
    BY <1>2 DEF IndInv, WorkerFits, WorkerStates, RunningIsTheWorkers, StartJob
  <2>4. RunningIsTheWorkers'
    BY <2>1, <2>2, <2>3 DEF RunningIsTheWorkers, Is
  <2> QED  BY <2>1, <2>2, <2>4, RequestsStay DEF IndInv, StartJob, requests
<1> QED  BY <1>1, <1>2 DEF StartJob

LEMMA WorkerIndexKeeps ==
    ASSUME IndInv, WorkerBeginIndex \/ WorkerEndIndex
    PROVE  IndInv'
<1>1. /\ worker.at \in {"started", "indexing"} /\ worker'.at \in {"indexing", "returned"}
      /\ worker' \in WorkerStates /\ worker'.key = worker.key /\ worker'.uid = worker.uid
      /\ worker'.saw = worker.saw
      /\ worker'.at = "returned" => worker'.end \in {"finished", "failed"}
  BY DEF IndInv, WorkerFits, WorkerStates, WorkerBeginIndex, WorkerEndIndex
<1>2. WorkerFits' /\ StampWasSeen'
  BY <1>1 DEF IndInv, WorkerFits, StampWasSeen
<1>3. QueueFits' /\ RunningIsTheWorkers'
  BY <1>1, WorkerMoves DEF WorkerBeginIndex, WorkerEndIndex, queueVars
<1>4. Shape'
  BY <1>1 DEF IndInv, WorkerFits, Shape, WorkerBeginIndex, WorkerEndIndex, queueVars
<1>5. ClientsFit' /\ GuardsAreCounted'
  BY CountStays DEF IndInv, ClientsFit, WorkerBeginIndex, WorkerEndIndex, queueVars
<1> QED  BY <1>2, <1>3, <1>4, <1>5 DEF IndInv

LEMMA WorkerDiesKeeps ==
    ASSUME IndInv, WorkerDies
    PROVE  IndInv'
<1>1. WorkerFits' /\ StampWasSeen'
  BY RestingFits DEF WorkerDies, WorkerFits, StampWasSeen
<1>2. QueueFits' /\ RunningIsTheWorkers'
  BY WorkerMoves DEF WorkerDies
<1>3. (Shape /\ ClientsFit)'
  BY DEF IndInv, Shape, ClientsFit, WorkerDies, storeVars
<1>4. GuardsAreCounted'
  BY CountStays DEF IndInv, WorkerDies
<1> QED  BY <1>1, <1>2, <1>3, <1>4 DEF IndInv

-----------------------------------------------------------------------------
(* The invariant *)

LEMMA InitHolds ==
    ASSUME Init
    PROVE  IndInv
<1>1. Shape
  <2>1. writes \in 0 .. MaxWrites /\ uid \in [Keys -> UidsOfKey]
    BY ReindexAssumption DEF Init, UidsOfKey
  <2>2. on \in BOOLEAN /\ failure \in BOOLEAN
    BY DEF Init
  <2>3. registered \subseteq Keys /\ stale \subseteq registered /\ sentinel \subseteq Keys
    BY DEF Init
  <2> QED  BY <2>1, <2>2, <2>3 DEF Shape
<1>2. ClientsFit
  BY DEF Init, Idle, ClientsFit, ClientStates
<1>3. WorkerFits /\ StampWasSeen
  BY RestingFits DEF Init, WorkerFits, StampWasSeen
<1>4. QueueFits /\ RunningIsTheWorkers
  <2>1. jobs = <<>> /\ jobs \in Seq(Jobs) /\ Len(jobs) = 0
    BY EmptySeq DEF Init
  <2> QED  BY <2>1 DEF QueueFits, OneEach, RunningIsTheWorkers
<1>5. GuardsAreCounted
  <2>1. \A k \in Keys : Guarded(k) = {}
    BY DEF Init, Idle, Guarded
  <2> QED  BY <2>1, FS_EmptySet DEF Init, GuardsAreCounted
<1> QED  BY <1>1, <1>2, <1>3, <1>4, <1>5 DEF IndInv

LEMMA NextKeeps ==
    ASSUME IndInv, Next
    PROVE  IndInv'
BY NoteFirstUseKeeps, ReindexStateForRequestKeeps, ForgetRepoKeeps, ExplicitWriteGuardKeeps,
   BeginWriteKeeps, EndWriteKeeps, DropExplicitWriteGuardKeeps, NextStartableKeeps,
   ReadStampContendedKeeps, ReadStampEndsKeeps, ReadStampReindexKeeps, StartJobKeeps,
   WorkerIndexKeeps, EndJobKeeps, WorkerDiesKeeps DEF Next, Serve, RunOneJob

LEMMA StutterKeeps ==
    ASSUME IndInv, UNCHANGED vars
    PROVE  IndInv'
<1>1. (Shape /\ ClientsFit /\ GuardsAreCounted)'
  BY RequestsStay DEF vars, requests, storeVars
<1>2. (WorkerFits /\ StampWasSeen /\ QueueFits /\ RunningIsTheWorkers)'
  BY QueueStays DEF vars, queueAndWorker
<1> QED  BY <1>1, <1>2 DEF IndInv

LEMMA IndInvHolds == Spec => []IndInv
<1>1. Init => IndInv
  BY InitHolds
<1>2. IndInv /\ [Next]_vars => IndInv'
  BY NextKeeps, StutterKeeps
<1> QED  BY <1>1, <1>2, PTL DEF Spec

-----------------------------------------------------------------------------
(* The theorems *)

(* The queue has one job per registration however requests and the worker  *)
(* replace and move jobs, and explicit_writes counts the guards exactly.   *)
THEOREM TypeCorrect == Spec => []TypeOK
<1>1. IndInv => TypeOK
  <2> SUFFICES ASSUME IndInv PROVE TypeOK
    OBVIOUS
  <2>1. DOMAIN jobs = 1 .. Len(jobs) /\ \A i \in 1 .. Len(jobs) : jobs[i] \in Jobs
    BY LenProperties, ElementOfSeq DEF IndInv, QueueFits
  <2>2. \A i \in DOMAIN jobs :
           /\ jobs[i].key \in Keys /\ jobs[i].uid \in 1 .. MaxForgets + 1
           /\ jobs[i].state \in JobStates
           /\ \A j \in DOMAIN jobs : Is(jobs[j], jobs[i].key, jobs[i].uid) => i = j
    BY <2>1 DEF IndInv, QueueFits, OneEach, Is, Jobs, UidsOfKey
  <2>3. explicit = [k \in Keys |->
                    Cardinality({c \in Clients : client[c].key = k /\ client[c].guard})]
    BY DEF IndInv, GuardsAreCounted, Guarded
  <2>4. \A c \in Clients : client[c].at \in {"idle", "asked", "writing", "leaving"}
    BY DEF IndInv, ClientsFit, ClientStates
  <2>5. worker.at \in {"idle", "reading", "found", "started", "indexing", "returned", "dead"}
    BY DEF IndInv, WorkerFits, WorkerStates
  <2> QED  BY <2>2, <2>3, <2>4, <2>5 DEF IndInv, Shape, TypeOK, UidsOfKey
<1> QED  BY <1>1, IndInvHolds, PTL

(* Only the worker's start makes a job running, and a replaced or moved    *)
(* queue does not look as if one had started.                              *)
LEMMA OnlyStartJobRuns ==
    ASSUME IndInv, Next, Turns(worker.key, "running")
    PROVE  StartJob /\ GateOpen(worker.key)
<1>1. DOMAIN jobs = 1 .. Len(jobs) /\ Len(jobs) \in Nat /\ jobs \in Seq(Jobs)
  BY LenProperties DEF IndInv, QueueFits
<1>2. PICK i \in 1 .. Len(jobs) :
         /\ jobs[i].key = worker.key /\ jobs[i].uid = worker.uid
         /\ jobs[i].state # "running" /\ jobs'[i].state = "running"
  BY <1>1 DEF Turns, Is
<1>3. jobs' # jobs
  BY <1>2
<1>4. ASSUME NEW k \in Keys, NoteFirstUse(k)
      PROVE  FALSE
  BY <1>1, <1>2, <1>4, AppendProperties, NewJobFits DEF IndInv, NoteFirstUse
<1>5. ASSUME NEW k \in Keys, ReindexStateForRequest(k)
      PROVE  FALSE
  <2> DEFINE r == JobsWithout(k, uid[k])
  <2>1. /\ r \in Seq(Jobs) /\ Len(r) \in Nat /\ Len(jobs) <= Len(r) + 1
        /\ \A j \in 1 .. Len(r) :
              \E m \in 1 .. Len(jobs) : (m = j \/ m = j + 1) /\ r[j] = jobs[m]
    BY WithoutJob, LenProperties DEF IndInv
  <2>2. /\ jobs' = Append(r, NewJob(k))
        /\ NewJob(k) \in Jobs /\ NewJob(k).state = "queued"
    BY <1>5, NewJobFits DEF IndInv, ReindexStateForRequest
  <2> HIDE DEF r
  <2>3. /\ Len(jobs') = Len(r) + 1 /\ jobs'[Len(r) + 1] = NewJob(k)
        /\ \A j \in 1 .. Len(r) : jobs'[j] = r[j]
    BY <2>1, <2>2, AppendProperties
  <2>4. CASE i \in 1 .. Len(r)
    <3>1. PICK m \in 1 .. Len(jobs) : (m = i \/ m = i + 1) /\ jobs[m].state = "running"
      BY <1>2, <2>1, <2>3, <2>4
    <3>2. jobs[m].key = jobs[i].key /\ jobs[m].uid = jobs[i].uid
      BY <1>2, <3>1 DEF IndInv, RunningIsTheWorkers
    <3> QED  BY <1>2, <3>1, <3>2 DEF IndInv, QueueFits, OneEach
  <2>5. CASE i = Len(r) + 1
    BY <1>2, <2>2, <2>3, <2>5
  <2> QED  BY <1>1, <2>1, <2>4, <2>5
<1>6. ASSUME ReadStampContended
      PROVE  FALSE
  <2>1. \A m \in 1 .. Len(jobs) : jobs[m].state # "running"
    BY <1>6 DEF IndInv, ReadStampContended, RunningIsTheWorkers
  <2> DEFINE r == JobsWithout(worker.key, worker.uid)
             x == jobs[JobAt(worker.key, worker.uid)]
  <2>2. jobs' = Append(r, x) /\ x \in Jobs /\ x.state # "running"
    <3>1. HasJob(worker.key, worker.uid) /\ jobs' = Append(r, x)
      BY <1>3, <1>6 DEF ReadStampContended
    <3>2. JobAt(worker.key, worker.uid) \in 1 .. Len(jobs)
      BY <1>1, <3>1, JobIndex
    <3> QED  BY <1>1, <2>1, <3>1, <3>2, ElementOfSeq
  <2>3. /\ r \in Seq(Jobs) /\ Len(r) \in Nat /\ Len(jobs) <= Len(r) + 1
        /\ \A j \in 1 .. Len(r) : r[j].state # "running"
    BY <2>1, WithoutJob, LenProperties DEF IndInv
  <2> HIDE DEF r, x
  <2>4. \A j \in 1 .. Len(r) + 1 : jobs'[j].state # "running"
    BY <2>2, <2>3, AppendProperties
  <2> QED  BY <1>1, <1>2, <2>3, <2>4
<1>7. ASSUME NEW s \in {"finished", "failed"}, SetJobState(worker.key, worker.uid, s)
      PROVE  FALSE
  BY <1>2, <1>7, SetsJobState DEF IndInv, JobStates, Is
<1>8. CASE ReadStampEnds \/ EndJob
  BY <1>7, <1>8 DEF IndInv, WorkerFits, ReadStampEnds, EndJob
<1>9. CASE StartJob
  BY <1>3, <1>9 DEF StartJob
<1>10. \/ UNCHANGED jobs \/ ReadStampContended \/ ReadStampEnds \/ EndJob \/ StartJob
       \/ \E k \in Keys : NoteFirstUse(k) \/ ReindexStateForRequest(k)
  BY DEF Next, Serve, RunOneJob, ForgetRepo, ExplicitWriteGuard, BeginWrite, EndWrite,
     DropExplicitWriteGuard, NextStartable, ReadStampReindex, WorkerBeginIndex, WorkerEndIndex,
     WorkerDies, queueVars
<1> QED  BY <1>3, <1>4, <1>5, <1>6, <1>8, <1>9, <1>10

(* A job turns running only when no request on its store is in flight:     *)
(* gate_open is asked again after the stamp was read, and counts guards    *)
(* that came and went in any order.                                        *)
THEOREM ExplicitWritesGoFirst == Spec => AutoStartsAlone
<1>1. ASSUME IndInv, Next, NEW k \in Keys, worker.key = k, Turns(k, "running")
      PROVE  ~\E c \in Clients : client[c].key = k /\ (client[c].guard \/ Writing(c, k))
  <2>1. GateOpen(k)
    BY <1>1, OnlyStartJobRuns
  <2>2. \A c \in Clients : ~(client[c].key = k /\ client[c].guard)
    BY <1>1, <2>1, NoEntryNoGuard DEF IndInv, GateOpen
  <2> QED  BY <2>1, <2>2 DEF GateOpen, Busy
<1>2. IndInv /\ [Next]_vars =>
        [\A k \in Keys : worker.key = k /\ Turns(k, "running") =>
            ~\E c \in Clients : client[c].key = k /\ (client[c].guard \/ Writing(c, k))]_vars
  BY <1>1
<1> QED  BY <1>2, IndInvHolds, PTL DEF Spec, AutoStartsAlone

(* A forgotten repo is registered again by an explicit index, or by a job  *)
(* whose stamp check found it registered.                                  *)
THEOREM ForgottenStaysForgotten == Spec => RevivedOnlyInWindow
<1>1. ASSUME IndInv, Next, NEW k \in registered' \ registered
      PROVE  \/ \E c \in Clients : client[c].key = k /\ client[c].verb = "index"
             \/ worker.key = k /\ worker.saw
  <2>1. CASE \E c \in Clients : BeginWrite(c)
    BY <1>1, <2>1 DEF BeginWrite
  <2>2. CASE WorkerBeginIndex
    BY <1>1, <2>2 DEF WorkerBeginIndex, IndInv, StampWasSeen
  <2>3. \/ registered' \subseteq registered
        \/ WorkerBeginIndex \/ \E c \in Clients : BeginWrite(c)
    BY <1>1 DEF Next, Serve, RunOneJob, storeVars, NoteFirstUse, ReindexStateForRequest,
       ForgetRepo, ExplicitWriteGuard, EndWrite, DropExplicitWriteGuard, NextStartable,
       ReadStampContended, ReadStampEnds, ReadStampReindex, StartJob, WorkerEndIndex, EndJob,
       WorkerDies
  <2> QED  BY <1>1, <2>1, <2>2, <2>3
<1>2. IndInv /\ [Next]_vars =>
        [\A k \in registered' \ registered :
            \/ \E c \in Clients : client[c].key = k /\ client[c].verb = "index"
            \/ worker.key = k /\ worker.saw]_vars
  BY <1>1
<1> QED  BY <1>2, IndInvHolds, PTL DEF Spec, RevivedOnlyInWindow
=============================================================================
