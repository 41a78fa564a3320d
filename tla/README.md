# repo-graph: a TLA+ verification project

repo-graph keeps a code graph of each repository in a SQLite store. A daemon
(`rmapd`) serves many requests at once, indexes, refreshes and enriches in the
background, and prunes old snapshots. Paths below are relative to
`src/rust/crates/`.

The hard part of the program, and what this project models first, is not how
a graph is extracted but how concurrent operations share one repo: who may be
inside the store together, in which order locks are taken, what happens when a
wait runs out, a post-pass fails or the daemon dies, and which snapshots are
still there afterwards.

## Inventory

| Component | State | Operations | What is hard | What makes it correct |
|---|---|---|---|---|
| Repo coordinator (`daemon-policy`) | tag and reader count, queue of write tickets, one condition variable | acquire / try / timed acquire of read, write, refresh; drop of a guard | lost wake-ups, stale tickets, a refresh whose readers outlive it | exclusion, FIFO, no orphaned sleeper, drops never panic |
| Store access (`daemon-runtime`: state, activity, foreground_open, dispatch and the handlers) | DB write mutex, activity registry, coordinator | handlers and passes, by the locks they take | two locks, taken in both orders, each skipped by somebody | VACUUM alone, no lock cycle, bounded foreground writes, the registry is right |
| Snapshots and retention (`storage/src/retention`, `crud/snapshots.rs`, retention_pass, handlers/inventory) | the snapshots table: status, class, parent, rows, epoch | index, refresh, mark, unmark, classify, prune, narrow, reclaim | read-then-write in separate statements, two kinds of writer, demotion after READY | the served snapshot, its base, marks and live builds survive |
| Crash reconciliation (`reconcile.rs`) | none of its own | interrupt orphaned builds | must not hit a live build | live builds survive |
| Enrichment pass (`enrich_pass.rs`) | generations, run slot, running flag and pending marker | attempt, yield, requeue, hand-over | a yield asked for before the pass registers, superseded passes | an explicit write is never stuck behind a pass that was not told; a pass never enriches what a newer one is about to |
| Seed pass (`seed_pass.rs`) | generations, run slot, running flag, self-heal latch | embed, publish, requeue, hand-over | bump, cancel and registration are separate steps | no stale pass runs on unnoticed; every successful write reaches a retention pass |
| Rebuild (`rebuild.rs`) | sentinel file, retired store files | retire, reindex, restore, discard | crash between any two file operations | the old or the new store, or a named refusal |
| Forget, gc, runtime slots (`state.rs`, `reclaim.rs`, `registry.rs`) | registry entries, map of mutexes, store files | index, forget, gc | slot identity, late writers, scan-then-delete | one mutex per store, no orphan, no live store deleted |
| Repo cache (`state.rs`) | loaded repos | load, unload | check-then-insert | one coordinator per store |
| Automatic reindex (`auto_reindex.rs`) | job queue, list of explicit writes, worker | first use, status, gate, job | races with explicit writes, a store locked by others, forget | explicit writes first, each job ends, no repo revived |
| Cancellation (`cancel.rs`) | a latch per operation | cancel, poll | | with the passes that use it |
| Transport, CLI, LiveGraph, warm cache, extractors, LSP clients, gate, graph algorithms | mostly data and I/O | | | reference definitions for the pure parts |

Interaction: a request thread dispatches to a handler; the handler takes the
mutex and/or the coordinator, announces itself in the activity registry,
opens its own SQLite connection, works, and drops its guards in reverse order.
A write that succeeded queues the maintenance chain (enrich, seed, retention), whose
passes look at the registry and try the mutex without waiting.

`PROJECT.json` lists every component, its status, and the hazards, each at its
line with the properties that would catch it going wrong.

## Modules

    CoordinatorState          the transition table of daemon-policy/src/state.rs
      RepoCoordinator         coordinator.rs: threads, tickets, condition variable
        RepoCoordinatorProofs theorems
    RepoLock                  what the coordinator promises (abstract)
      StoreAccess             handlers over mutex + RepoLock + activity registry
        MCStoreAccess         for TLC
        StoreAccessProofs     theorems
    Retention                 the snapshots of one repo
      MCRetention             for TLC: the state constraint
      RetentionProofs         theorems
    SeedPass                  seed_pass.rs: the embed pass
      MaintenanceChain        writers, enrichment and seed pass of one repo
        MCMaintenanceChain    for TLC: the action constraint
        MaintenanceChainProofs theorems
    AutoReindex               auto_reindex.rs: queue, gate and worker
      AutoReindexProofs       theorems
    StoreLifecycle            the files of one store: index, rebuild, forget, gc
      StoreLifecycleProofs    theorems
    LineLemmas                lemmas on queues, for three of the proof modules

Modules without an MC module are checked as they are: their constants are
numbers and sets that the `.cfg` gives.

**RepoCoordinator.** A thread is one caller. Each critical section of the
internal mutex is one action; waiting on the condition variable is a state,
`notify_all` wakes every sleeper, and a woken thread goes through the same
test again. A timeout may strike at any moment of the wait, and the thread
then still has to reacquire the mutex, find out, and clean up, as in the code.
`CoordinatorState` has the pure transition functions, with the outcomes the
code distinguishes (`Ok`, `Blocked`, `Conflict`, `InvariantViolation`).

**RepoLock** is the abstract specification: sets of threads with a read, write
or refresh permit and a line of waiting writers. `RepoCoordinator` implements
it (`ImplementsRepoLock`, checked and proved), so `StoreAccess` may use it in
place of the coordinator.

**StoreAccess.** A handler is the sequence of its lock steps and its work, in
the handler's order; one set of actions interprets these sequences. A failure
anywhere jumps to the end, where the guards are dropped youngest first. The
bounded waits can end in refusal whenever the lock is not free. `index` takes
only the mutex, `mark`, `unmark` and the maintenance prune start with only the
coordinator; the retention pass takes the coordinator for its VACUUM alone;
`forget` tries both; the publication of the seed pass, gc and the forget of a
repo that is not loaded try the mutex only; a rebuild of a repo that is not
loaded waits for the mutex and holds a permit of a coordinator of its own. Two
opens take neither lock and are left out: `RepoState::open` in `load_repo`
(`state.rs:311-335`) and `read_stamp` (`auto_reindex.rs:582-592`), which rely on
SQLite's own locks.

**Retention.** A snapshot is a record (status, class, parent, rows, epoch). At
most one job runs under the mutex and one under the coordinator's write
permit; a refresh holds both. A step is a SQLite statement or transaction:
classification reads in one step and writes its plan in a later one, a prune
selects once and deletes one snapshot per step. A build can fail before READY
or after it, and is then demoted or stays READY unclassified; a storage error ends a job where it is, a crash ends all jobs, and
the next daemon may have a newer cache epoch. The SQLite engine itself is taken
at its word: a transaction is atomic, and committed means durable.

**SeedPass and MaintenanceChain.** A pass is a thread with a stage; pass `n`
belongs to the n-th snapshot made READY and goes through enrichment and
embedding, pass 0 is the self-heal a serve may schedule. A writer asks for a
yield, blocks on the mutex, makes its snapshot READY, and spawns a pass if the
post-passes that follow succeed. If one fails, the snapshot stays READY or is
demoted, and there is neither a generation bump nor a chain: the pass of that
number never begins. The generation is named by the snapshot whose pass bumped
it last (the code only compares it for equality); each critical section of the two
coordinators (`EnrichCoordinator`, `SeedCoordinator`) is one action, and what
the code does in two calls (bump then cancel, lock then register) is two. The
two switches `RMAP_AUTO_ENRICH` and the seed one are chosen in `Init`. The
histories `answered` and `erased` record which waiting writers' requests
reached a pass or were wiped by another writer; `lateCancel` records that a
cancel hit a newer pass than the one it was meant for.

**AutoReindex.** A job is a key with the uid of a registration; forgetting ends
the registration, so an old job no longer matches. The worker's `run_one_job`
is cut where the code lets go of the queue lock: choose, read the stamp, check
the gate again and mark, dispatch, record the end. `Locked` stores never open.

**StoreLifecycle.** Each of `db`, `wal` and `vec` holds a version number, in
place or retired; a version whose last commits are in its WAL is worthless
without it. The four operations resolve, look for the sentinel, fetch or create
the slot in `db_runtimes`, take its mutex and then do their renames and
deletions one by one. `MaxFaults` counts crashes and failed file operations.
The coordinator is left out here: readers are StoreAccess's business.

## Runs

| Run | Shows |
|---|---|
| Coordinator | three threads, all entry points: `TypeOK`, `StateMatchesGuards` (tag and count are exactly the live guards), `NeverPanics`, `NoStaleTickets`, `NoOrphanedSleeper`, `IdleHandsOver`, refinement `ImplementsRepoLock`; liveness `WritersAreServed`, `ReadersAreServed` |
| CoordinatorRefreshWakeup (violation) | a reader parked behind a queued refresh is not woken when the refresh is granted |
| StoreSafety | `VacuumIsAlone` on both VACUUM paths, `RegistryNamesTheHolder` |
| StoreLiveness | `WritersFinish` (no lock cycle), `ForegroundNeverHangs` |
| StoreRebuild (violation) | a reader works inside the store while a rebuild replaces it |
| RetentionSafety | `LiveBuildSurvives`, `RefreshKeepsItsBase`, `SerialMarksSurvive`, `ServedHasRows`, `ServedIsKept`, `SteadyState` |
| RetentionMarkLost (violation) | a classification overwrites an acknowledged baseline mark |
| RetentionUpgrade (violation) | after an upgrade a prune can leave a narrowed snapshot to be served |
| MaintenanceChain | `YieldIsHonoured`, `NoSpuriousYield`, `EnrichesTheNewest`, `StaleSeedIsCancelled`; liveness `ChainReachesRetention` |
| AutoReindex | `AutoStartsAlone`, `RevivedOnlyInWindow`; liveness `JobsSettle` |
| StoreLifecycle | `ServedStoreIsWhole`, `WritersExcludeUntilForget`, `OrphanOnlyByLateWriter` |
| StoreIndexOnRemains (violation) | an index writes into the remains of a rebuild that failed while it waited |

Every property of a passing run has a mutant in `PROJECT.json`: a plausible bug
in a mapped definition that makes TLC find the property violated. The mutants
stand in the modules just before the definition they change.

### Bounds

- Coordinator: three threads (one that holds, one at the front of the queue, one
  behind it, giving up or sharing), without symmetry, because liveness is
  checked in the same run. All its safety properties and the refinement are
  proved for any number of threads; only liveness rests on the bound.
- StoreAccess: four threads and all fourteen sequences for safety; for liveness
  three threads and one sequence per way of taking both locks (`read`,
  `refresh`, `assess`, `forget`, `classify`, `enrich_pass`).
- Retention: `MaxSnapshots` = 3 created in all (a stamped one, a delta base and
  the served one), `MaxOverlapped` = 2 once a mutex-only and a coordinator-only
  job have met, `MaxUpgrades` = 1. `MaxOverlapped` is a constraint of the runs
  (`Bounded` in MCRetention), not of the specification; overlaps and upgrades
  are explored together. The properties of these runs are invariants and an
  action property, which a constraint cannot make true on the states explored.
- MaintenanceChain: two snapshots made READY (one pass superseding another, or
  a write that fails after READY beside an older pass), two writers (one
  erasing the other's marker), two attempts (one retry and the last). The
  bound on commits also ends the requests: nothing is asked of an endless
  stream of writes. The self-heal re-seed is scheduled before the first snapshot
  only (`ReseedFirst` in MCMaintenanceChain, an action constraint of the run):
  after failed writes it would start the same chains with fewer commits to go.
  It has no fairness, so the behaviours that are left are behaviours of the
  specification; the proofs are about the specification without the constraint.
- AutoReindex: a store that can be opened and one that never can, two clients,
  two explicit writes and one forget: enough for two guards on one key and for a
  forget in every window of a job.
- StoreLifecycle: two threads and four requests (for instance forget, gc, index
  and rebuild), two faults. `ServedStoreIsWhole`, which a second fault breaks,
  says `faults <= 1`; the others hold with two. StoreIndexOnRemains needs two
  requests and two faults.

### Fairness

The coordinator's run assumes that a runnable thread runs and that
guards are dropped; a timeout or a fresh request is never forced. StoreAccess
assumes weak fairness of every thread outside its work and strong fairness of
taking the DB mutex: parking_lot's mutex hands itself over fairly from time to
time. Work is not fair: it may last for ever. `WritersFinish` therefore has the
premise that no work does, and `ForegroundNeverHangs` does without it. Reads
are excepted from `WritersFinish` because an endless stream of writers may keep
readers out: the queue is writer-preferring by design.

MaintenanceChain and AutoReindex assume weak fairness of each thread: a pass
that is spawned runs, its sleeps end, an embedding or an index terminates, and
a handler that was called returns. No request, serve or forget is forced. The
mutex needs no strong fairness there: the passes try it, give up after their
attempts and hand over, and the writers are finitely many. Nothing is assumed
of the worker's notification: its wait is timed.

## Proofs

Every invariant and every action property of the passing runs is also proved,
for every value of the constants that satisfies the assumption declared with
them: any number of threads, snapshots, writers, commits, attempts, requests
and faults. The bounds of the `.cfg` files play no part. The assumptions say
that bounds are natural numbers, that model values such as "nobody" are not
threads or keys, and, where something is counted (guards in AutoReindex, read
permits in RepoCoordinator), that the set counted over is finite.

Each proof module has one inductive invariant, `IndInv`, a conjunction with one
named part per idea. A lemma per action, or per action and part, shows that the
step keeps it; the theorems at the end of the module read the properties off.
TLC checked each invariant on the bounds of the module's safety run before it
was proved.

**RepoCoordinatorProofs**: `TypeCorrect`, `GuardsAreCounted`,
`DropsNeverPanic`, `QueueIsExact`, `HandOverIsNoticed`, `SomebodyIsAwake` and
`CoordinatorRefinesLock` (`ImplementsRepoLock`). The
properties are not inductive one by one: that a drop finds the right tag needs
the count to be the number of read guards; that count needs at most one
exclusive guard; that nobody is left asleep needs the queue to be exactly the
waiting writers, each once, and every sleeper's reason for sleeping to be
somebody who is awake or holds a guard.

**StoreAccessProofs**: `TypeCorrect`, `RegistryIsTruthful`,
`VacuumExcludesEveryone`. First, by cases over the fourteen sequences, what
their step lists have in common (`StepFits`): no guard is asked for twice, the
activity entry is written under the mutex, work is done under the mutex or a
permit, and VACUUM only by those that have the mutex and a write permit. The
invariant then ties a thread's position in its list to the guards it holds
(`Stacks`, `Places`), the guards to the owners of the locks (`Owners`,
`WriterIsAlone`), and the line of the mutex to the threads that wait
(`LineWaits`). That VACUUM is alone follows from holding both locks in
exclusive mode, whichever was taken first.

**RetentionProofs**: `TypeCorrect`, `NobodyTakesABuild`,
`RefreshHasAFallback`, `MarksSurviveTurns`, `ServingIsNotNarrowed`,
`PruneLeavesTwo` and the action property `ServedIsNeverPruned`. They are about
the specification without the runs' constraint: overlaps and upgrades in any
number and order. The first three
hold whatever overlaps: a prune's list never names a building snapshot, and a
refresh holds both locks, so its base is out of reach. The others hold while
mutex-only and coordinator-only jobs take turns, and need what a job carries
from one statement to the next to be true still when it is used (`Orderly`): a
plan read by a classification covers exactly the unmarked snapshots and spares
at most two of them; what a prune has listed is still "prunable" and has a newer
"current" snapshot above it; what is about to be narrowed has a newer READY one;
a build has no mark yet and its rows are there; and the snapshot that a
demotion would leave as the newest has its rows, which is why `ServedHasRows`
alone is not inductive.

**MaintenanceChainProofs**: `TypeCorrect`, `RequestsReachThePass`
(`YieldIsHonoured`), `MarkersHaveAWriter` (`NoSpuriousYield`),
`EnrichmentIsNeverStale` (`EnrichesTheNewest`), `StaleEmbeddingIsTold`
(`StaleSeedIsCancelled`). The mutex and the seed slot are matched with the
stages of passes and writers; the generation is the last pass that was spawned,
and the snapshot whose post-passes are under way has none yet; a pass that got
past its second look at the generation stays the last one until the mutex is let
go, also beside a newer snapshot whose write failed after READY; a waiting writer's request is a marker, was
adopted, or was erased. That the seed generation never runs ahead of the passes
that have left enrichment (`SeedsAreCounted`) is a counting argument over a
finite set of passes.

**AutoReindexProofs**: `TypeCorrect`, and the action properties
`ExplicitWritesGoFirst` (`AutoStartsAlone`) and `ForgottenStaysForgotten`
(`RevivedOnlyInWindow`). `explicit_writes` counts exactly the guards in
existence, so an open gate means that there is none; a running job is the
worker's, so a queue that is rearranged by a status request or by a contended
store does not look as if a job had started; and the worker has seen the repo
registered before it gets to its index.

**StoreLifecycleProofs**: `TypeCorrect`, `WritersExclude`
(`WritersExcludeUntilForget`), `OrphansAreExplained`
(`OrphanOnlyByLateWriter`) and `NeverServesAPartialStore`
(`ServedStoreIsWhole`). Until a forget drops the
slot everyone who has looked it up has the same one (`SlotIsShared`), so one
holder per slot is one holder. For the files, `RebuildCanUndo` says at each
place of a rebuild which files, in place or retired, make up the version last
committed, so that an undo begun there ends with that version; `Remains` is the
state a crash leaves, in which the sentinel is there and no index is past its
look at it. Both need at most one fault and no overlap of writers, as the
property does.

A record update of several fields is written as one nested update
(`[th EXCEPT ![t] = [@ EXCEPT !.at = ..., !.op = ...]]`) and a job is taken out
of the queue by its index (`JobAt`, `JobsWithout`): the provers' translation
handles these forms. They say the same as the shorter ones.

Only model-checked:

- all liveness: `WritersAreServed`, `ReadersAreServed`, `WritersFinish`,
  `ForegroundNeverHangs`, `ChainReachesRetention`, `JobsSettle`. Fairness
  needs ENABLED, which is outside the prover's reach;
- the five runs that expect a violation: a counterexample is TLC's to find.

## Findings

1. **Refresh wake-up** (CoordinatorRefreshWakeup). Granting a refresh does not
   notify; a reader parked because that refresh was queued sleeps until the
   refresh ends, although later readers are admitted.
2. **Rebuild does not exclude readers** (StoreRebuild). It holds a refresh
   permit, against what `rebuild.rs` says of it.
3. **Baseline marks can be lost** (RetentionMarkLost). Index and the retention
   pass classify under the mutex only, marks are written under the coordinator
   only.
4. **A narrowed snapshot can come to be served** (RetentionUpgrade), with no
   concurrency involved: the narrowing is right when it is made, but after an
   epoch change a prune deletes the stale snapshot that was served, and the
   narrowed one is the newest that is left.
5. **An index can write into the remains of a rebuild** (StoreIndexOnRemains).
   It looks for the sentinel before it waits for the mutex (`dispatch.rs:3078`,
   `3101`) and not again; if the rebuild it waited for failed and so did its
   restore, the sentinel is there and the index goes on.

Seen while modelling, without a run of their own:

- `foreground_open.rs:181` calls a second-layer timeout "PROVABLY a concurrent
  READER". Mark, unmark and the maintenance prune hold the coordinator's write
  permit without the mutex, so the holder may be one of these. For the same
  reason the mutex is not the "universal write barrier" of `state.rs` and
  `rebuild.rs`.
- `mark_baseline` by uid accepts a snapshot that is not READY; the next
  non-READY prune deletes it. `SerialMarksSurvive` counts marks on READY
  snapshots.
- With overlap, a maintenance prune beside an index whose new snapshot is then
  demoted can delete the last good one, so `ServedIsKept` and `ServedHasRows`
  are stated without overlap.
- The refresh permit of `livegraph_preload` and `livegraph_refresh` admits
  readers, against the comment there.
- **A late cancel** (`seed_pass.rs:290-291`). `spawn_auto_seed` bumps the
  generation and then cancels whatever is registered. On an enrichment thread
  the two are not under the mutex: if a newer pass bumps and registers in
  between, the old thread's cancel stops the newest pass. That pass ends as
  `Superseded`, whose comment says "A newer index's pass will chain retention";
  there is none, and the commit waits for the next index.
  `ChainReachesRetention` names this case (`lateCancel`) and shows that for a
  write that succeeded it is the only one. With enrichment off the handler spawns under the mutex and the
  case does not arise.
- **A write that fails after READY** (`compose.rs:3543-3843`, the comment at
  3555-3557; `dispatch.rs:3417-3424`, `3740-3746`). Many post-passes end in a
  bare `?`: the handler returns an error, the snapshot is READY and served, but
  it is not classified, and no enrichment, seed or retention pass is queued for
  it. It waits for the next write that succeeds; until then a pass of the write
  before it may enrich it (`run_enrich_pass` reads the latest snapshot).
  `ChainReachesRetention` promises nothing for such a write.
- **Shared marker** (`enrich_pass.rs:702`). A writer that gets the mutex clears
  the pending marker of the whole DB; another writer still blocked may then sit
  behind a full enrichment. `YieldIsHonoured` has this exception (`erased`).
- **Two faults during a rebuild.** If a rename fails and so does the rollback's,
  the sentinel is removed all the same (`rebuild.rs:284-303`) and a partial
  store is served. A crash in the retire followed by a rebuild whose reindex
  fails "restores" the remains, and calls them intact. `ServedStoreIsWhole`
  holds for one fault.
- **A late rebuild** resolves its repo before it waits for the mutex and does
  not look at the registry again; a forget in between leaves an orphan store.
  `handle_index` and `handle_refresh` do look again.
- **Two slots.** forget drops the slot while others may hold a reference to it.
  A writer waiting on the old slot and one that creates a new slot then write
  together; a second forget beside the waiting index leaves an orphan.
  `WritersExcludeUntilForget` shows that nothing but a forget does this.
- **A forgotten repo revived.** The automatic re-index dispatches an index by
  path, which registers it again when the repo was forgotten after the stamp
  check. `RevivedOnlyInWindow` shows that this window is the only one.
- A job whose index is refused by a passing rebuild (sentinel) is `Failed` and
  is not tried again in this process; a status request then reports a failure
  that is over.
- forget does not remove the sentinel of an interrupted rebuild. The next index
  registers the repo and is refused; the rebuild it names then works.

## Not modelled, and the plan

In this order:

1. The map of loaded repos: `load_repo` inserts without checking again, so two
   concurrent first loads may get two coordinators for one repo. RepoLock and
   StoreAccess take one coordinator for granted.
2. Proofs of what comes with 1 and 3, and of more of what the findings say by
   example: that a late cancel (`lateCancel`), an erased marker or a slot
   dropped by a forget is the only way to each exception is so far stated
   inside the invariants, not as theorems of their own.
3. forget beside a running seed pass: the publication's registry check.
4. Pure algorithms (strongly connected components, gate verdicts) as operators
   against reference definitions.

The map covers a small share of the repository's lines because most of them are
extractors, classifiers and renderers of replies: text in, rows or text out,
with no shared state and no order of steps to get wrong. Out of reach or of no
interest to a model: extractors and language servers, SQL text, formatting of
replies, transport framing.
