------------------------------ MODULE SeedPass ------------------------------
(***************************************************************************)
(* The background embed pass (daemon-runtime/src/seed_pass.rs): the second *)
(* hop of the maintenance chain enrich -> seed -> retention of one repo.   *)
(* A pass is a thread; pass n belongs to the n-th snapshot made READY (no  *)
(* thread, if its write failed after that), and pass SelfHeal is the       *)
(* re-seed that a serve schedules when it finds vectors without their      *)
(* classification.                                                         *)
(*                                                                         *)
(* The embedding itself holds no lock, so everything may happen meanwhile: *)
(* a newer pass bumps the generation and cancels this one, a writer holds  *)
(* the DB mutex when the vectors are to be published.  The rows written    *)
(* are keyed by snapshot and data; a load, read, model or write that fails *)
(* is the outcome Skipped.                                                 *)
(***************************************************************************)
EXTENDS Naturals

CONSTANTS
    MaxCommits,  \* bound: snapshots committed, hence passes spawned
    MaxAttempts, \* REQUEUE_MAX_ATTEMPTS, 60 in the code
    NoOne        \* a free mutex or slot

ASSUME SeedAssumption == MaxCommits \in Nat /\ MaxAttempts \in Nat \ {0} /\ NoOne \notin Nat

VARIABLES
    db,        \* who holds the DB write mutex: a writer, a pass or NoOne
    snap,      \* how many snapshots were made READY; the newest one's number
    stage,     \* where each pass is
    tries,     \* attempts of its current hop that yielded
    seedGen,   \* SeedCoordinator.generations
    mine,      \* the seed generation each pass captured
    slot,      \* SeedCoordinator.run_slot
    embedding, \* the pass whose flag is in SeedCoordinator.running
    seedCancel,\* that flag
    retained,  \* the newest snapshot when the last retention pass was spawned
    lateCancel \* history: a cancel hit a pass newer than the one it was for

seedState == <<seedGen, slot, embedding, seedCancel, lateCancel>>

seedVars == <<db, snap, stage, tries, mine, seedState, retained>>

SelfHeal == 0

Passes == SelfHeal .. MaxCommits

SeedInit ==
    /\ db = NoOne /\ snap = 0 /\ retained = 0
    /\ stage = [p \in Passes |-> "off"]
    /\ tries = [p \in Passes |-> 0]
    /\ seedGen = 0
    /\ mine = [p \in Passes |-> 0]
    /\ slot = NoOne /\ embedding = NoOne /\ seedCancel = FALSE /\ lateCancel = FALSE

Go(p, s) == stage' = [stage EXCEPT ![p] = s]

-----------------------------------------------------------------------------
(* spawn_auto_seed: bump the generation; the cancel follows in RequestCancel. *)
SpawnAutoSeed(p) ==
    /\ seedGen' = seedGen + 1
    /\ mine' = [mine EXCEPT ![p] = seedGen + 1]
    /\ tries' = [tries EXCEPT ![p] = 0]
    /\ Go(p, "cancelling")
    /\ UNCHANGED <<slot, embedding, seedCancel, lateCancel, retained>>

(* request_cancel_for_db reaches only a registered flag. *)
RequestCancel(p) ==
    /\ stage[p] = "cancelling"
    /\ seedCancel' = (seedCancel \/ embedding # NoOne)
    /\ lateCancel' = (lateCancel \/ (embedding # NoOne /\ mine[embedding] > mine[p]))
    /\ Go(p, "seed")
    /\ UNCHANGED <<db, snap, tries, seedGen, mine, slot, embedding, retained>>

(* A serve found vectors without their classification, which only the      *)
(* snapshot of an older daemon has (number 0): it is served until a write  *)
(* succeeds, failed ones may have been demoted.  The latch                 *)
(* reseed_scheduled is stage[SelfHeal] # "off".                            *)
ScheduleReseed ==
    /\ \A p \in Passes : stage[p] = "off"
    /\ Go(SelfHeal, "scheduled")
    /\ UNCHANGED <<db, snap, tries, mine, seedState, retained>>

(* The thread starts at its own time and captures the generation, unbumped. *)
BeginReseed(p) ==
    /\ stage[p] = "scheduled"
    /\ mine' = [mine EXCEPT ![p] = seedGen]
    /\ Go(p, "seed")
    /\ UNCHANGED <<db, snap, tries, seedState, retained>>

(* The attempt returns: its RunningGuard and its slot are dropped. *)
DropSeedGuards(p) ==
    /\ slot' = IF slot = p THEN NoOne ELSE slot
    /\ embedding' = IF embedding = p THEN NoOne ELSE embedding
    /\ seedCancel' = (embedding # p /\ seedCancel)
    /\ UNCHANGED <<db, snap, seedGen, lateCancel>>

(* A thread that has returned leaves no locals. *)
Ended(p) ==
    /\ Go(p, IF p = SelfHeal THEN "off" ELSE "over")
    /\ tries' = [tries EXCEPT ![p] = 0]
    /\ mine' = [mine EXCEPT ![p] = 0]

(* Superseded: a newer pass will chain retention. *)
SeedSuperseded(p) == DropSeedGuards(p) /\ Ended(p) /\ UNCHANGED retained

(* Ran, or Skipped: chain_retention. *)
SeedEnded(p) == DropSeedGuards(p) /\ Ended(p) /\ retained' = snap

(* Mutant: one attempt too many (0 ..= REQUEUE_MAX_ATTEMPTS). *)
SeedYieldedOnceMore(p) ==
    \/ /\ tries[p] < MaxAttempts
       /\ DropSeedGuards(p)
       /\ tries' = [tries EXCEPT ![p] = @ + 1]
       /\ Go(p, "seed")
       /\ UNCHANGED <<mine, retained>>
    \/ tries[p] = MaxAttempts /\ SeedEnded(p)

(* Yielded: sleep and retry; after the last attempt the tail is preserved. *)
SeedYielded(p) ==
    \/ /\ tries[p] + 1 < MaxAttempts
       /\ DropSeedGuards(p)
       /\ tries' = [tries EXCEPT ![p] = @ + 1]
       /\ Go(p, "seed")
       /\ UNCHANGED <<mine, retained>>
    \/ tries[p] + 1 = MaxAttempts /\ SeedEnded(p)

-----------------------------------------------------------------------------
Stale(p) == mine[p] # seedGen

(* The generation check before and after the slot is taken is one check:   *)
(* a bump in between has the same outcome.  The slot is daemon-global: the *)
(* pass of another repo may have it.                                       *)
SeedBegin(p) ==
    /\ stage[p] = "seed"
    /\ \/ Stale(p) /\ SeedSuperseded(p)
       \/ ~Stale(p) /\ SeedYielded(p)
       \/ /\ ~Stale(p) /\ slot = NoOne
          /\ slot' = p
          /\ Go(p, "corpus")
          /\ UNCHANGED <<db, snap, tries, seedGen, mine, embedding, seedCancel,
                         lateCancel, retained>>

(* load_repo, the corpus, the model and the prior vectors, under read       *)
(* locks that are dropped again; then register_running with a fresh flag.   *)
ReadAndRegister(p) ==
    /\ stage[p] = "corpus"
    /\ \/ SeedEnded(p)
       \/ /\ embedding' = p
          /\ seedCancel' = FALSE
          /\ Go(p, "registered")
          /\ UNCHANGED <<db, snap, tries, seedGen, mine, slot, lateCancel, retained>>

(* Mutant: a cancel that came before register_running is not caught up. *)
RecheckGenerationSkipped(p) ==
    /\ stage[p] = "registered"
    /\ Go(p, "embed") /\ UNCHANGED <<db, snap, tries, mine, seedState, retained>>

RecheckGeneration(p) ==
    /\ stage[p] = "registered"
    /\ \/ Stale(p) /\ SeedSuperseded(p)
       \/ ~Stale(p) /\ Go(p, "embed") /\ UNCHANGED <<db, snap, tries, mine, seedState, retained>>

(* build_store polls the flag between chunks. *)
Embed(p) ==
    /\ stage[p] = "embed"
    /\ \/ seedCancel /\ SeedSuperseded(p)
       \/ ~seedCancel /\ SeedEnded(p)
       \/ /\ ~seedCancel /\ Go(p, "publish")
          /\ UNCHANGED <<db, snap, tries, mine, seedState, retained>>

(* The mutex is tried, held for the write and dropped within the step. *)
PublishGuarded(p) ==
    /\ stage[p] = "publish"
    /\ \/ db # NoOne /\ SeedYielded(p)
       \/ db = NoOne /\ Stale(p) /\ SeedSuperseded(p)
       \/ db = NoOne /\ ~Stale(p) /\ SeedEnded(p)

RunSeed(p) ==
    \/ RequestCancel(p) \/ BeginReseed(p) \/ SeedBegin(p) \/ ReadAndRegister(p)
    \/ RecheckGeneration(p) \/ Embed(p) \/ PublishGuarded(p)

SeedStages == {"off", "scheduled", "cancelling", "seed", "corpus", "registered", "embed",
               "publish", "over"}
=============================================================================
