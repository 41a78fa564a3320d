-------------------------- MODULE MaintenanceChain --------------------------
(***************************************************************************)
(* What one repo's index and refresh set off, and how they get past it     *)
(* (daemon-runtime/src/enrich_pass.rs and the writing handlers of          *)
(* dispatch.rs).  A writer makes a snapshot READY under the DB write mutex *)
(* and, unless one of the post-passes fails after that, spawns a pass:     *)
(* enrichment, then the seed pass, then retention.  The enrichment holds   *)
(* the mutex while it runs, possibly for minutes, so a writer asks it to   *)
(* yield before it blocks: through the running pass's flag, or through a   *)
(* pending marker that a pass adopts when it registers.                    *)
(*                                                                         *)
(* The coordinator's refresh permit, which the pass takes between the      *)
(* mutex and its registration, is a delay here (module StoreAccess has the *)
(* locks); time is a step: a sleep may end at any moment.                  *)
(***************************************************************************)
EXTENDS SeedPass, FiniteSets

CONSTANT Writers \* threads that serve an explicit index or refresh

ASSUME WritersAssumption == Writers \cap (Passes \cup {NoOne}) = {}

VARIABLES
    enrichOn, \* auto_enrich_enabled()
    seedOn,   \* seed_enabled()
    gen,      \* EnrichCoordinator.generations: the snapshot whose pass bumped it last
    active,   \* entries of the activity registry for this DB
    wpc,      \* where each writer is
    running,  \* the pass whose flag is in RunningRegistry.flags
    cancel,   \* that flag
    pending,  \* RunningRegistry.pending holds this DB
    answered, \* history: writers whose request set a pass's flag
    erased    \* history: writers whose marker another writer cleared

enrichVars == <<enrichOn, seedOn, gen, active, wpc, running, cancel, pending, answered, erased>>

vars == <<seedVars, enrichVars>>

Init ==
    /\ SeedInit
    /\ enrichOn \in BOOLEAN /\ seedOn \in BOOLEAN
    /\ gen = 0 /\ active = {}
    /\ wpc = [w \in Writers |-> "idle"]
    /\ running = NoOne /\ cancel = FALSE /\ pending = FALSE
    /\ answered = {} /\ erased = {}

Blocked == {w \in Writers : wpc[w] = "blocked"}

At(w, s) == wpc' = [wpc EXCEPT ![w] = s]

-----------------------------------------------------------------------------
(* Writers: handle_index and handle_refresh.                               *)

(* request_yield_for_db, in one critical section, then block on the mutex. *)
RequestYield(w) ==
    /\ wpc[w] = "idle" /\ snap < MaxCommits
    /\ At(w, "blocked")
    /\ cancel' = (cancel \/ running # NoOne)
    /\ pending' = (pending \/ running = NoOne)
    /\ answered' = IF cancel' THEN answered \cup {w} ELSE answered
    /\ UNCHANGED <<seedVars, enrichOn, seedOn, gen, active, running, erased>>

AcquireWrite(w) ==
    /\ wpc[w] = "blocked" /\ db = NoOne
    /\ db' = w
    /\ At(w, "owner")
    /\ UNCHANGED <<snap, stage, tries, mine, seedState, retained, enrichOn, seedOn, gen, active,
                   running, cancel, pending, answered, erased>>

(* Mutant: the marker of an earlier request stays behind. *)
ClearPendingYieldForgotten(w) ==
    /\ wpc[w] = "owner"
    /\ active' = active \cup {w}
    /\ At(w, "writing")
    /\ UNCHANGED <<seedVars, enrichOn, seedOn, gen, running, cancel, pending, answered, erased>>

(* clear_pending_yield, whoever left the marker, and activity().begin. *)
ClearPendingYield(w) ==
    /\ wpc[w] = "owner"
    /\ pending' = FALSE
    /\ erased' = IF pending THEN erased \cup Blocked ELSE erased
    /\ active' = active \cup {w}
    /\ At(w, "writing")
    /\ UNCHANGED <<seedVars, enrichOn, seedOn, gen, running, cancel, answered>>

(* The orchestrator makes the snapshot READY; the post-passes follow. *)
Commit(w) ==
    /\ wpc[w] = "writing" /\ snap < MaxCommits
    /\ snap' = snap + 1
    /\ At(w, "committed")
    /\ UNCHANGED <<db, stage, tries, mine, seedState, retained, enrichOn, seedOn, gen, active,
                   running, cancel, pending, answered, erased>>

(* chain_seed_then_retention. *)
ChainTail(p) ==
    \/ seedOn /\ SpawnAutoSeed(p)
    \/ ~seedOn /\ retained' = snap /\ Ended(p) /\ UNCHANGED seedState

(* Drops the activity entry and the mutex. *)
Leave(w) ==
    /\ db' = NoOne
    /\ active' = active \ {w}
    /\ At(w, "idle")
    /\ answered' = answered \ {w}
    /\ erased' = erased \ {w}
    /\ UNCHANGED <<snap, enrichOn, seedOn, running, cancel, pending>>

(* The post-passes went well: finish_write_with_maintenance, under the     *)
(* mutex.                                                                  *)
FinishWrite(w) ==
    /\ wpc[w] = "committed"
    /\ \/ /\ enrichOn
          /\ gen' = snap
          /\ Go(snap, "gate")
          /\ UNCHANGED <<tries, mine, seedState, retained>>
       \/ /\ ~enrichOn
          /\ ChainTail(snap)
          /\ UNCHANGED gen
    /\ At(w, "returning")
    /\ UNCHANGED <<db, snap, enrichOn, seedOn, active, running, cancel, pending, answered, erased>>

(* With enrichment off the handler made the whole of spawn_auto_seed itself. *)
Return(w) ==
    /\ wpc[w] = "returning"
    /\ enrichOn \/ stage[snap] # "cancelling"
    /\ Leave(w)
    /\ UNCHANGED <<stage, tries, mine, seedState, retained, gen>>

(* Any error after the mutex was taken.  A post-pass fails when the        *)
(* snapshot is READY: it stays so, or isolate_postpass demotes it (the     *)
(* chain does not tell the two apart), and there is no bump and no chain.  *)
FailWrite(w) ==
    /\ wpc[w] \in {"writing", "committed"}
    /\ Leave(w)
    /\ UNCHANGED <<stage, tries, mine, seedState, retained, gen>>

-----------------------------------------------------------------------------
(* The enrichment pass: run_auto_enrich around try_enrich_attempt.         *)

Superseded(p) == Ended(p) /\ UNCHANGED <<seedState, retained>>

(* Mutant: a deferred pass ends without handing over to its tail. *)
YieldedForgetsTail(p) ==
    \/ /\ tries[p] + 1 < MaxAttempts
       /\ tries' = [tries EXCEPT ![p] = @ + 1]
       /\ Go(p, "gate")
       /\ UNCHANGED <<mine, seedState, retained>>
    \/ tries[p] + 1 = MaxAttempts /\ Superseded(p)

(* Sleep and retry; after the last attempt the pass is deferred. *)
Yielded(p) ==
    \/ /\ tries[p] + 1 < MaxAttempts
       /\ tries' = [tries EXCEPT ![p] = @ + 1]
       /\ Go(p, "gate")
       /\ UNCHANGED <<mine, seedState, retained>>
    \/ tries[p] + 1 = MaxAttempts /\ ChainTail(p)

EnrichGate(p) ==
    /\ stage[p] = "gate"
    /\ \/ gen # p /\ Superseded(p)
       \/ gen = p /\ active # {} /\ Yielded(p)
       \/ gen = p /\ active = {} /\ Go(p, "try") /\ UNCHANGED <<tries, mine, seedState, retained>>
    /\ UNCHANGED <<db, snap, enrichVars>>

(* The DB runtime (or the attempt fails), try_acquire_write, then the      *)
(* daemon-global run slot, which a pass of another repo may have: then the *)
(* mutex is dropped again.                                                 *)
EnrichTry(p) ==
    /\ stage[p] = "try"
    /\ \/ ChainTail(p) /\ UNCHANGED db
       \/ Yielded(p) /\ UNCHANGED db
       \/ /\ db = NoOne /\ db' = p /\ Go(p, "recheck")
          /\ UNCHANGED <<tries, mine, seedState, retained>>
    /\ UNCHANGED <<snap, enrichVars>>

(* Mutant: no second look at the generation under the locks. *)
EnrichRecheckSkipped(p) ==
    /\ stage[p] = "recheck"
    /\ Go(p, "window")
    /\ UNCHANGED <<db, snap, tries, mine, seedState, retained, enrichVars>>

(* The generation again, then load_repo. *)
EnrichRecheck(p) ==
    /\ stage[p] = "recheck"
    /\ \/ gen # p /\ Superseded(p) /\ db' = NoOne
       \/ gen = p /\ ChainTail(p) /\ db' = NoOne
       \/ gen = p /\ Go(p, "window") /\ UNCHANGED <<db, tries, mine, seedState, retained>>
    /\ UNCHANGED <<snap, enrichVars>>

(* Mutant: the flag starts clear although a writer is already waiting. *)
RegisterRunningIgnoresPending(p) ==
    /\ stage[p] = "window"
    /\ \/ /\ db' = NoOne /\ ChainTail(p)
          /\ UNCHANGED <<active, running, cancel, pending, answered>>
       \/ /\ active' = active \cup {p}
          /\ running' = p
          /\ cancel' = FALSE
          /\ Go(p, "running")
          /\ UNCHANGED <<db, tries, mine, seedState, retained, pending, answered>>
    /\ UNCHANGED <<snap, enrichOn, seedOn, gen, wpc, erased>>

(* The refresh permit is granted, the root is there (or the attempt        *)
(* fails); stamp, then register_running adopts a pending marker.           *)
RegisterRunning(p) ==
    /\ stage[p] = "window"
    /\ \/ /\ db' = NoOne /\ ChainTail(p)
          /\ UNCHANGED <<active, running, cancel, pending, answered>>
       \/ /\ active' = active \cup {p}
          /\ running' = p
          /\ cancel' = pending
          /\ pending' = FALSE
          /\ answered' = IF cancel' THEN answered \cup Blocked ELSE answered
          /\ Go(p, "running")
          /\ UNCHANGED <<db, tries, mine, seedState, retained>>
    /\ UNCHANGED <<snap, enrichOn, seedOn, gen, wpc, erased>>

(* classify_completed_attempt: a cancelled pass that ends well yields.     *)
(* The flag and the activity entry go first, the mutex last.               *)
EndRun(p) ==
    /\ stage[p] = "running"
    /\ \/ Go(p, "failed")
       \/ Go(p, IF cancel THEN "cancelled" ELSE "ran")
    /\ running' = NoOne
    /\ cancel' = FALSE
    /\ active' = active \ {p}
    /\ UNCHANGED <<db, snap, tries, mine, seedState, retained, enrichOn, seedOn, gen, wpc,
                   pending, answered, erased>>

ReleaseDb(p) ==
    /\ stage[p] \in {"failed", "cancelled", "ran"}
    /\ db' = NoOne
    /\ IF stage[p] = "cancelled" THEN Yielded(p) ELSE ChainTail(p)
    /\ UNCHANGED <<snap, enrichVars>>

RunEnrich(p) ==
    \/ EnrichGate(p) \/ EnrichTry(p) \/ EnrichRecheck(p)
    \/ RegisterRunning(p) \/ EndRun(p) \/ ReleaseDb(p)

-----------------------------------------------------------------------------
Write(w) ==
    \/ AcquireWrite(w) \/ ClearPendingYield(w) \/ Commit(w) \/ FinishWrite(w) \/ Return(w)
    \/ FailWrite(w)

SeedStep(p) == RunSeed(p) /\ UNCHANGED enrichVars

(* One chain: the enrichment thread, then the seed thread that it spawns. *)
RunPass(p) == SeedStep(p) \/ RunEnrich(p)

Next ==
    \/ \E w \in Writers : RequestYield(w) \/ Write(w)
    \/ \E p \in Passes : RunPass(p)
    \/ seedOn /\ ScheduleReseed /\ UNCHANGED enrichVars

(***************************************************************************)
(* Threads run; a handler that has begun comes to its end (the orchestrator *)
(* terminates), and so does an embedding or an enrichment.  Nobody has to  *)
(* ask for an index, and no serve has to find stale vectors.               *)
(***************************************************************************)
Fairness ==
    /\ \A w \in Writers : WF_vars(Write(w))
    /\ \A p \in Passes : WF_vars(RunPass(p))

Spec == Init /\ [][Next]_vars /\ Fairness

-----------------------------------------------------------------------------
EnrichStages == {"gate", "try", "recheck", "window", "running", "failed", "cancelled", "ran"}

TypeOK ==
    /\ db \in Writers \cup Passes \cup {NoOne}
    /\ snap \in 0 .. MaxCommits /\ gen \in 0 .. MaxCommits /\ retained \in 0 .. snap
    /\ stage \in [Passes -> SeedStages \cup EnrichStages]
    /\ tries \in [Passes -> 0 .. MaxAttempts - 1]
    /\ seedGen \in 0 .. MaxCommits /\ mine \in [Passes -> 0 .. seedGen]
    /\ slot \in Passes \cup {NoOne} /\ embedding \in {slot, NoOne}
    /\ seedCancel \in BOOLEAN
    /\ wpc \in [Writers -> {"idle", "blocked", "owner", "writing", "committed", "returning"}]
    /\ running \in Passes \cup {NoOne} /\ cancel \in BOOLEAN /\ pending \in BOOLEAN
    /\ active \subseteq Writers \cup Passes

(***************************************************************************)
(* "Explicit writes always win": no writer sits behind an enrichment that  *)
(* was not told to stop, however its request fell into the window between  *)
(* the pass's lock and its registration.  The exceptions are the two that  *)
(* the protocol has: the request already made a pass yield (a retry then   *)
(* got the mutex first), or another writer's clear_pending_yield erased    *)
(* the marker they shared.                                                 *)
(***************************************************************************)
YieldIsHonoured ==
    running # NoOne /\ ~cancel => Blocked \subseteq answered \cup erased

(***************************************************************************)
(* A marker never outlives the writers it was left for: with nobody        *)
(* waiting for the mutex, a pass that registers is not born cancelled.     *)
(***************************************************************************)
NoSpuriousYield ==
    pending => \E w \in Writers : wpc[w] \in {"blocked", "owner"}

(***************************************************************************)
(* A pass that got past the second generation check works for the last     *)
(* write that succeeded until it lets go of the mutex: the bump is made    *)
(* under the mutex, so an enrichment is never run twice over what a later  *)
(* index has replaced.  Newer snapshots are those of writes that failed    *)
(* after READY and handed over to nobody; if one of them still is READY,   *)
(* it is the one that this pass enriches (run_enrich_pass reads the latest *)
(* snapshot under the mutex).                                              *)
(***************************************************************************)
EnrichesTheNewest ==
    \A p \in Passes : stage[p] \in {"window", "running"} =>
        db = p /\ \A n \in p + 1 .. snap : stage[n] = "off"

(***************************************************************************)
(* No stale embed pass runs on unnoticed: whoever embeds for an old        *)
(* generation has been cancelled, or the newer pass is about to cancel it. *)
(***************************************************************************)
StaleSeedIsCancelled ==
    \A p \in Passes : stage[p] = "embed" /\ Stale(p) =>
        seedCancel \/ \E q \in Passes : stage[q] = "cancelling"

(***************************************************************************)
(* Superseded passes end silently and count on a newer one: after every    *)
(* write that succeeded a retention pass is spawned that sees its snapshot *)
(* (and the older ones), whatever is superseded, cancelled, skipped,       *)
(* deferred or switched off on the way.  A write that failed after READY   *)
(* promises nothing: its snapshot waits for the next one that succeeds.    *)
(***************************************************************************)
ChainReachesRetention ==
    \A n \in 1 .. MaxCommits : (stage[n] # "off") ~> (retained >= n \/ lateCancel)
=============================================================================
