----------------------------- MODULE AutoReindex -----------------------------
(***************************************************************************)
(* The automatic re-index of stale stores (daemon-runtime/auto_reindex.rs). *)
(* A repo used for the first time by this daemon gets a stamp-check job;   *)
(* one worker takes the jobs in FIFO order and re-indexes the stores that  *)
(* an older toolchain wrote.  Explicit writes go first: a request holds an *)
(* entry of explicit_writes while it is served, and the worker looks at    *)
(* that list twice.                                                        *)
(*                                                                         *)
(* A store is its db key; a registration is the key with a uid, which      *)
(* forget ends and the next index renews.  The DB mutex and the activity   *)
(* entry of a write are held together (module StoreAccess splits them);    *)
(* the timed wait of the worker makes a lost wakeup a delay.               *)
(***************************************************************************)
EXTENDS Naturals, Sequences, FiniteSets, SequencesExt

CONSTANTS
    Keys,       \* stores
    Locked,     \* stores that another process keeps locked for good
    Clients,    \* threads serving an explicit index, refresh or rebuild
    MaxWrites,  \* bound: explicit writes
    MaxForgets, \* bound: registrations that end
    None

ASSUME ReindexAssumption ==
    /\ Locked \subseteq Keys /\ None \notin Keys
    /\ IsFiniteSet(Clients)
    /\ MaxWrites \in Nat /\ MaxForgets \in Nat

VARIABLES
    on,         \* auto_reindex_enabled() and not a stdio daemon
    jobs,       \* Queue.jobs
    explicit,   \* Queue.explicit_writes: how many entries each key has
    failure,    \* worker_failure is set
    registered, \* keys in the registry
    uid,        \* the repo_uid of a key, or the next one it gets
    stale,      \* keys whose newest snapshot has another toolchain's stamp
    sentinel,   \* keys with a rebuild sentinel
    client,     \* each client's place, key, verb and whether it has a guard
    worker,     \* the worker's place, job and outcome
    writes      \* explicit writes so far

vars == <<on, jobs, explicit, failure, registered, uid, stale, sentinel, client, worker, writes>>

queueVars == <<jobs, explicit, failure>>
storeVars == <<registered, uid, stale, sentinel>>

Idle == [at |-> "idle", key |-> None, verb |-> None, guard |-> FALSE]
Resting == [at |-> "idle", key |-> None, uid |-> 0, end |-> None, saw |-> FALSE]

Init ==
    /\ on \in BOOLEAN /\ jobs = <<>> /\ explicit = [k \in Keys |-> 0] /\ failure = FALSE
    /\ registered = Keys /\ uid = [k \in Keys |-> 1]
    /\ stale \in SUBSET Keys /\ sentinel = {}
    /\ client = [c \in Clients |-> Idle] /\ worker = Resting /\ writes = 0

-----------------------------------------------------------------------------
(* The queue.                                                              *)

Is(j, k, u) == j.key = k /\ j.uid = u

HasJob(k, u) == \E i \in DOMAIN jobs : Is(jobs[i], k, u)

(* A registration has one job at most (TypeOK): the first is all of them. *)
JobAt(k, u) == CHOOSE i \in DOMAIN jobs : Is(jobs[i], k, u)

JobsWithout(k, u) == IF HasJob(k, u) THEN RemoveAt(jobs, JobAt(k, u)) ELSE jobs

NewJob(k) == [key |-> k, uid |-> uid[k], state |-> "queued"]

SetJobState(k, u, s) ==
    jobs' = [i \in DOMAIN jobs |->
                IF Is(jobs[i], k, u) THEN [jobs[i] EXCEPT !.state = s] ELSE jobs[i]]

(* note_first_use, from load_repo. *)
NoteFirstUse(k) ==
    /\ on /\ k \in registered /\ ~HasJob(k, uid[k])
    /\ jobs' = Append(jobs, NewJob(k))
    /\ UNCHANGED <<on, explicit, failure, storeVars, client, worker, writes>>

(* Mutant: the finished job stays in the queue beside the new one. *)
ReindexStateForRequestKeepsOld(k) ==
    /\ on /\ k \in registered /\ ~failure
    /\ \A i \in DOMAIN jobs : Is(jobs[i], k, uid[k]) => jobs[i].state = "finished"
    /\ jobs' = Append(jobs, NewJob(k))
    /\ UNCHANGED <<on, explicit, failure, storeVars, client, worker, writes>>

(* reindex_state_for_request: a status that finds a stale stamp (perhaps   *)
(* of a snapshot older than the newest) makes a job or replaces a finished *)
(* one, never a failed one.                                                *)
ReindexStateForRequest(k) ==
    /\ on /\ k \in registered /\ ~failure
    /\ \A i \in DOMAIN jobs : Is(jobs[i], k, uid[k]) => jobs[i].state = "finished"
    /\ jobs' = Append(JobsWithout(k, uid[k]), NewJob(k))
    /\ UNCHANGED <<on, explicit, failure, storeVars, client, worker, writes>>

-----------------------------------------------------------------------------
(* Explicit writes.                                                        *)

(* dispatch: explicit_write_guard, only for a registered repository. *)
ExplicitWriteGuard(c) ==
    /\ client[c].at = "idle" /\ writes < MaxWrites
    /\ \E k \in Keys, v \in {"index", "rebuild"} :
          /\ v = "rebuild" => k \in registered
          /\ client' = [client EXCEPT ![c] =
                 [at |-> "asked", key |-> k, verb |-> v, guard |-> k \in registered]]
          /\ explicit' = IF k \in registered THEN [explicit EXCEPT ![k] = @ + 1] ELSE explicit
    /\ writes' = writes + 1
    /\ UNCHANGED <<on, jobs, failure, storeVars, worker>>

Writing(c, k) == client[c].at = "writing" /\ client[c].key = k

Busy(k) == (\E c \in Clients : Writing(c, k)) \/ (worker.at = "indexing" /\ worker.key = k)

Sits(c, p) == client' = [client EXCEPT ![c].at = p]

(* An index registers its repo first.  Then refused (an index by the       *)
(* sentinel, a rebuild as busy) or with the mutex; a rebuild does not look  *)
(* at the registry again and puts up the sentinel.                         *)
BeginWrite(c) ==
    LET k == client[c].key
        index == client[c].verb = "index"
    IN  /\ client[c].at = "asked"
        /\ registered' = IF index THEN registered \cup {k} ELSE registered
        /\ \/ (index => k \in sentinel) /\ Sits(c, "leaving") /\ UNCHANGED sentinel
           \/ /\ ~Busy(k) /\ (index => k \notin sentinel)
              /\ sentinel' = IF index THEN sentinel ELSE sentinel \cup {k}
              /\ Sits(c, "writing")
        /\ UNCHANGED <<on, queueVars, uid, stale, worker, writes>>

(* Committed, failed, or (rebuild) failed with the old store not restored. *)
EndWrite(c) ==
    LET k == client[c].key
    IN  /\ client[c].at = "writing"
        /\ \/ stale' = stale \ {k} /\ sentinel' = sentinel \ {k}
           \/ UNCHANGED stale /\ sentinel' = sentinel \ {k}
           \/ client[c].verb = "rebuild" /\ UNCHANGED <<stale, sentinel>>
        /\ Sits(c, "leaving")
        /\ UNCHANGED <<on, queueVars, registered, uid, worker, writes>>

(* Mutant: the guard takes every entry of its key along (retain). *)
DropExplicitWriteGuardAll(c) ==
    /\ client[c].at = "leaving"
    /\ explicit' = IF client[c].guard THEN [explicit EXCEPT ![client[c].key] = 0] ELSE explicit
    /\ client' = [client EXCEPT ![c] = Idle]
    /\ UNCHANGED <<on, jobs, failure, storeVars, worker, writes>>

(* Drop for ExplicitWriteGuard removes one entry. *)
DropExplicitWriteGuard(c) ==
    /\ client[c].at = "leaving"
    /\ explicit' = IF client[c].guard THEN [explicit EXCEPT ![client[c].key] = @ - 1] ELSE explicit
    /\ client' = [client EXCEPT ![c] = Idle]
    /\ UNCHANGED <<on, jobs, failure, storeVars, worker, writes>>

(* forget_repo: refused while the mutex is held. *)
ForgetRepo(k) ==
    /\ k \in registered /\ ~Busy(k) /\ uid[k] <= MaxForgets
    /\ registered' = registered \ {k}
    /\ uid' = [uid EXCEPT ![k] = @ + 1]
    /\ stale' = stale \ {k}
    /\ UNCHANGED <<on, queueVars, sentinel, client, worker, writes>>

-----------------------------------------------------------------------------
(* The worker: run_one_job.                                                *)

GateOpen(k) == explicit[k] = 0 /\ k \notin sentinel /\ ~Busy(k)

WorkerRests == worker' = Resting

(* next_startable. *)
NextStartable ==
    /\ on /\ worker.at = "idle"
    /\ LET Startable == {i \in DOMAIN jobs : jobs[i].state = "queued" /\ GateOpen(jobs[i].key)}
       IN  \E i \in Startable :
              /\ \A j \in Startable : i <= j
              /\ worker' = [Resting EXCEPT !.at = "reading",
                                           !.key = jobs[i].key, !.uid = jobs[i].uid]
    /\ UNCHANGED <<on, queueVars, storeVars, client, writes>>

Contended == worker.key \in Locked \cup sentinel \/ \E c \in Clients : Writing(c, worker.key)

(* Mutant: a contended job keeps its place at the head of the queue. *)
ReadStampContendedKeepsPlace ==
    /\ worker.at = "reading"
    /\ worker.key \in registered /\ uid[worker.key] = worker.uid
    /\ Contended /\ WorkerRests
    /\ UNCHANGED <<on, queueVars, storeVars, client, writes>>

(* Busy, or a rebuild began: behind all the other jobs. *)
ReadStampContended ==
    /\ worker.at = "reading"
    /\ worker.key \in registered /\ uid[worker.key] = worker.uid
    /\ Contended /\ WorkerRests
    /\ jobs' = IF HasJob(worker.key, worker.uid)
               THEN Append(JobsWithout(worker.key, worker.uid), jobs[JobAt(worker.key, worker.uid)])
               ELSE jobs
    /\ UNCHANGED <<on, explicit, failure, storeVars, client, writes>>

(* Nothing to do: forgotten, no snapshot or a current one; or unreadable. *)
ReadStampEnds ==
    /\ worker.at = "reading"
    /\ \/ /\ worker.key \notin registered \/ uid[worker.key] # worker.uid
          /\ SetJobState(worker.key, worker.uid, "finished")
       \/ /\ worker.key \in registered /\ uid[worker.key] = worker.uid
          /\ worker.key \notin Locked \cup sentinel
          /\ \/ worker.key \notin stale /\ SetJobState(worker.key, worker.uid, "finished")
             \/ SetJobState(worker.key, worker.uid, "failed")
    /\ WorkerRests
    /\ UNCHANGED <<on, explicit, failure, storeVars, client, writes>>

(* Mutant: the stamp is read without looking for the registration. *)
ReadStampReindexUnregistered ==
    /\ worker.at = "reading"
    /\ worker.key \notin Locked \cup sentinel
    /\ worker' = [worker EXCEPT !.at = "found", !.saw = worker.key \in registered]
    /\ UNCHANGED <<on, queueVars, storeVars, client, writes>>

(* saw is history: the registration was there when the stamp was read. *)
ReadStampReindex ==
    /\ worker.at = "reading"
    /\ worker.key \in registered /\ uid[worker.key] = worker.uid
    /\ worker.key \in stale /\ worker.key \notin Locked \cup sentinel
    /\ worker' = [worker EXCEPT !.at = "found", !.saw = worker.key \in registered]
    /\ UNCHANGED <<on, queueVars, storeVars, client, writes>>

(* The gate again and the mark, under the queue lock. *)
StartJob ==
    /\ worker.at = "found"
    /\ \/ ~GateOpen(worker.key) /\ WorkerRests /\ UNCHANGED jobs
       \/ /\ GateOpen(worker.key)
          /\ SetJobState(worker.key, worker.uid, "running")
          /\ worker' = [worker EXCEPT !.at = "started"]
    /\ UNCHANGED <<on, explicit, failure, storeVars, client, writes>>

(* dispatch of an index request, which takes a guard like any other (not   *)
(* modelled: the list is read by this worker only) and registers the repo; *)
(* then refused by the sentinel, or with the mutex.                        *)
WorkerBeginIndex ==
    /\ worker.at = "started"
    /\ registered' = registered \cup {worker.key}
    /\ \/ /\ worker.key \in sentinel
          /\ worker' = [worker EXCEPT !.at = "returned", !.end = "failed"]
       \/ /\ worker.key \notin sentinel /\ ~Busy(worker.key)
          /\ worker' = [worker EXCEPT !.at = "indexing"]
    /\ UNCHANGED <<on, queueVars, uid, stale, sentinel, client, writes>>

(* Also a panic in the index: caught, and a failure. *)
WorkerEndIndex ==
    /\ worker.at = "indexing"
    /\ \/ /\ stale' = stale \ {worker.key}
          /\ worker' = [worker EXCEPT !.at = "returned", !.end = "finished"]
       \/ /\ worker' = [worker EXCEPT !.at = "returned", !.end = "failed"]
          /\ UNCHANGED stale
    /\ UNCHANGED <<on, queueVars, registered, uid, sentinel, client, writes>>

EndJob ==
    /\ worker.at = "returned"
    /\ SetJobState(worker.key, worker.uid, worker.end)
    /\ WorkerRests
    /\ UNCHANGED <<on, explicit, failure, storeVars, client, writes>>

(* A panic outside the index: worker_loop records it. *)
WorkerDies ==
    /\ on /\ worker.at \in {"idle", "reading", "found"}
    /\ worker' = [Resting EXCEPT !.at = "dead"]
    /\ failure' = TRUE
    /\ UNCHANGED <<on, jobs, explicit, storeVars, client, writes>>

-----------------------------------------------------------------------------
Serve(c) == BeginWrite(c) \/ EndWrite(c) \/ DropExplicitWriteGuard(c)

RunOneJob ==
    \/ NextStartable \/ ReadStampContended \/ ReadStampEnds \/ ReadStampReindex
    \/ StartJob \/ WorkerBeginIndex \/ WorkerEndIndex \/ EndJob

Next ==
    \/ \E k \in Keys : NoteFirstUse(k) \/ ReindexStateForRequest(k) \/ ForgetRepo(k)
    \/ \E c \in Clients : ExplicitWriteGuard(c) \/ Serve(c)
    \/ RunOneJob \/ WorkerDies

(* Requests end and the worker's thread runs; nobody has to ask or forget. *)
Spec ==
    /\ Init /\ [][Next]_vars
    /\ \A c \in Clients : WF_vars(Serve(c))
    /\ WF_vars(RunOneJob)

-----------------------------------------------------------------------------
JobStates == {"queued", "running", "finished", "failed"}

(* The queue has one job per registration, and explicit_writes an entry    *)
(* for every guard that is held.                                           *)
TypeOK ==
    /\ \A i \in DOMAIN jobs :
          /\ jobs[i].key \in Keys /\ jobs[i].uid \in 1 .. MaxForgets + 1
          /\ jobs[i].state \in JobStates
          /\ \A j \in DOMAIN jobs : Is(jobs[j], jobs[i].key, jobs[i].uid) => i = j
    /\ explicit = [k \in Keys |->
                   Cardinality({c \in Clients : client[c].key = k /\ client[c].guard})]
    /\ registered \subseteq Keys /\ stale \subseteq registered /\ sentinel \subseteq Keys
    /\ uid \in [Keys -> 1 .. MaxForgets + 1] /\ writes \in 0 .. MaxWrites
    /\ on \in BOOLEAN /\ failure \in BOOLEAN
    /\ \A c \in Clients : client[c].at \in {"idle", "asked", "writing", "leaving"}
    /\ worker.at \in {"idle", "reading", "found", "started", "indexing", "returned", "dead"}

Turns(k, s) ==
    \E i \in DOMAIN jobs : Is(jobs[i], k, worker.uid) /\ jobs[i].state # s /\ jobs'[i].state = s

(***************************************************************************)
(* Explicit writes go first: a job turns running only when no request on   *)
(* its store is in flight, whichever other requests on it came and went    *)
(* while the stamp was read.  (An index of a repo that was not registered  *)
(* when it arrived has no guard; it counts once it writes.)                *)
(***************************************************************************)
AutoStartsAlone ==
    [][\A k \in Keys : worker.key = k /\ Turns(k, "running") =>
          ~\E c \in Clients : client[c].key = k /\ (client[c].guard \/ Writing(c, k))]_vars

(***************************************************************************)
(* A forgotten repo comes back only because someone indexes it explicitly, *)
(* or through the one window the code leaves open: the forget came after   *)
(* the job's stamp check and before its index.                             *)
(***************************************************************************)
RevivedOnlyInWindow ==
    [][\A k \in registered' \ registered :
          \/ \E c \in Clients : client[c].key = k /\ client[c].verb = "index"
          \/ worker.key = k /\ worker.saw]_vars

(***************************************************************************)
(* No job is stuck: a queued job of a store that is not locked for good    *)
(* ends, although stores before it in the queue are, unless the worker     *)
(* died (status requests then say so) or a failed rebuild left its mark.   *)
(***************************************************************************)
JobsSettle ==
    \A k \in Keys \ Locked, u \in 1 .. MaxForgets + 1 :
        (\E i \in DOMAIN jobs : Is(jobs[i], k, u) /\ jobs[i].state \in {"queued", "running"}) ~>
        \/ failure \/ k \in sentinel
        \/ \E i \in DOMAIN jobs : Is(jobs[i], k, u) /\ jobs[i].state \in {"finished", "failed"}
=============================================================================
