----------------------- MODULE MaintenanceChainProofs -----------------------
(***************************************************************************)
(* Proofs about MaintenanceChain, for any number of writers, commits and   *)
(* attempts.                                                               *)
(***************************************************************************)
EXTENDS MaintenanceChain, FiniteSetTheorems, TLAPS

-----------------------------------------------------------------------------
(* The inductive invariant, by what its parts relate *)

Places == {"idle", "blocked", "owner", "writing", "committed", "returning"}

Stages == SeedStages \cup EnrichStages

Shape ==
    /\ db \in Writers \cup Passes \cup {NoOne}
    /\ stage \in [Passes -> Stages]
    /\ slot \in Passes \cup {NoOne} /\ embedding \in Passes \cup {NoOne}
    /\ seedCancel \in BOOLEAN
    /\ wpc \in [Writers -> Places]
    /\ running \in Passes \cup {NoOne} /\ cancel \in BOOLEAN /\ pending \in BOOLEAN
    /\ active \subseteq Writers \cup Passes
    /\ enrichOn \in BOOLEAN /\ seedOn \in BOOLEAN

Counters ==
    /\ snap \in 0 .. MaxCommits /\ gen \in 0 .. MaxCommits /\ retained \in 0 .. snap
    /\ tries \in [Passes -> 0 .. MaxAttempts - 1]
    /\ seedGen \in Nat /\ mine \in [Passes -> 0 .. seedGen]

(* The DB mutex: an enrichment from its try to its end, a writer while it  *)
(* serves its request.                                                     *)
DbStages == {"recheck", "window", "running", "failed", "cancelled", "ran"}

OwnerPlaces == {"owner", "writing", "committed", "returning"}

MutexMatches ==
    /\ \A p \in Passes : db = p <=> stage[p] \in DbStages
    /\ \A w \in Writers : db = w <=> wpc[w] \in OwnerPlaces

(* The seed coordinator's slot and its registered flag. *)
SlotMatches ==
    /\ \A p \in Passes : slot = p <=> stage[p] \in {"corpus", "registered", "embed", "publish"}
    /\ \A p \in Passes : embedding = p <=> stage[p] \in {"registered", "embed", "publish"}

(* The generation is the last pass handed over: no later one has begun,    *)
(* least of all that of the snapshot whose post-passes are under way.      *)
GenerationCounts ==
    /\ gen <= snap
    /\ enrichOn => \A p \in Passes : p > gen => stage[p] = "off"
    /\ \A p \in Passes : p > snap => stage[p] = "off"
    /\ \A w \in Writers : wpc[w] = "committed" => snap > 0 /\ gen < snap /\ stage[snap] = "off"
    /\ \A p \in Passes : stage[p] \in EnrichStages => enrichOn
    /\ stage[SelfHeal] \notin EnrichStages \cup {"cancelling"}

(* A pass past the second generation check is the newest. *)
CheckedIsNewest == \A p \in Passes : stage[p] \in {"window", "running"} => gen = p

(* RunningRegistry: a running pass has adopted whatever marker there was. *)
RegistryMatches ==
    /\ \A p \in Passes : running = p <=> stage[p] = "running"
    /\ running # NoOne => ~pending

(* A waiting writer has left a marker, unless it was adopted or erased. *)
RequestsAreKept == ~pending => Blocked \subseteq answered \cup erased

(* The passes that have left enrichment, by whichever way. *)
Seeded == {p \in 1 .. MaxCommits : stage[p] \notin EnrichStages \cup {"off"}}

(* Each spawns the seed pass at most once. *)
SeedsAreCounted == seedGen <= Cardinality(Seeded)

IndInv ==
    /\ Shape
    /\ Counters
    /\ MutexMatches
    /\ SlotMatches
    /\ GenerationCounts
    /\ CheckedIsNewest
    /\ RegistryMatches
    /\ RequestsAreKept
    /\ NoSpuriousYield
    /\ StaleSeedIsCancelled
    /\ SeedsAreCounted
-----------------------------------------------------------------------------
(* Helpers *)

(* Writers, passes and nobody are told apart. *)
LEMMA Kinds ==
    /\ Passes \subseteq Nat /\ NoOne \notin Passes /\ NoOne \notin Writers
    /\ \A w \in Writers : w \notin Passes
    /\ SelfHeal \in Passes /\ SelfHeal = 0
    /\ \A n \in 0 .. MaxCommits : n \in Passes
BY SeedAssumption, WritersAssumption DEF Passes, SelfHeal

LEMMA CountsPasses ==
    ASSUME NEW S, S \subseteq 1 .. MaxCommits
    PROVE  IsFiniteSet(S) /\ Cardinality(S) \in Nat /\ Cardinality(S) <= MaxCommits
<1>1. IsFiniteSet(1 .. MaxCommits) /\ Cardinality(1 .. MaxCommits) = MaxCommits
  BY FS_Interval, SeedAssumption
<1>2. IsFiniteSet(S) /\ Cardinality(S) <= MaxCommits
  BY <1>1, FS_Subset
<1> QED  BY <1>2, FS_CardinalityType

(* A step that spawns no seed pass, and brings none back to enrichment. *)
LEMMA CountKept ==
    ASSUME SeedsAreCounted, Counters, seedGen' = seedGen,
           \A p \in Passes : stage[p] \notin EnrichStages \cup {"off"} =>
               p = SelfHeal \/ stage'[p] \notin EnrichStages \cup {"off"}
    PROVE  SeedsAreCounted'
<1>1. Seeded \subseteq Seeded'
  BY Kinds DEF Seeded
<1>2. /\ Cardinality(Seeded) \in Nat /\ Cardinality(Seeded') \in Nat
      /\ Cardinality(Seeded) <= Cardinality(Seeded')
  <2>1. Seeded \subseteq 1 .. MaxCommits /\ Seeded' \subseteq 1 .. MaxCommits
    BY DEF Seeded
  <2> QED  BY <1>1, <2>1, CountsPasses, FS_Subset
<1>3. (SeedsAreCounted)' <=> seedGen' <= Cardinality(Seeded')
  BY DEF SeedsAreCounted
<1> QED  BY <1>2, <1>3 DEF SeedsAreCounted, Counters

(* spawn_auto_seed for a pass that has none yet. *)
LEMMA CountSpawned ==
    ASSUME SeedsAreCounted, Counters, Shape, NEW p \in Passes, p # SelfHeal,
           stage[p] \in EnrichStages \cup {"off"}, SpawnAutoSeed(p)
    PROVE  SeedsAreCounted'
<1>1. stage' = [stage EXCEPT ![p] = "cancelling"] /\ seedGen' = seedGen + 1
  BY DEF SpawnAutoSeed, Go
<1>2. p \in 1 .. MaxCommits
  BY SeedAssumption DEF Passes, SelfHeal
<1>3. p \notin Seeded /\ Seeded' = Seeded \cup {p}
  <2>1. p \notin Seeded
    BY DEF Seeded
  <2>2. "cancelling" \notin EnrichStages \cup {"off"}
    BY DEF EnrichStages
  <2>3. \A q \in 1 .. MaxCommits : q \in Passes
    BY Kinds
  <2> QED  BY <1>1, <1>2, <2>1, <2>2, <2>3 DEF Seeded, Shape
<1>4. Cardinality(Seeded') = Cardinality(Seeded) + 1 /\ Cardinality(Seeded) \in Nat
  <2>1. Seeded \subseteq 1 .. MaxCommits
    BY DEF Seeded
  <2> QED  BY <1>3, <2>1, CountsPasses, FS_AddElement
<1>5. (SeedsAreCounted)' <=> seedGen' <= Cardinality(Seeded')
  BY DEF SeedsAreCounted
<1> QED  BY <1>1, <1>4, <1>5 DEF SeedsAreCounted, Counters
-----------------------------------------------------------------------------
(* Writers *)

LEMMA RequestYieldKeeps ==
    ASSUME IndInv, NEW w \in Writers, RequestYield(w)
    PROVE  IndInv'
<1> USE DEF IndInv, RequestYield, seedVars, seedState, At
<1>1. Shape' /\ Counters'
  BY DEF Shape, Counters, Places
<1>2. MutexMatches' /\ GenerationCounts'
  BY DEF MutexMatches, GenerationCounts, Shape, OwnerPlaces
<1>3. SlotMatches' /\ CheckedIsNewest' /\ StaleSeedIsCancelled'
  BY DEF SlotMatches, CheckedIsNewest, StaleSeedIsCancelled, Stale
<1>4. RegistryMatches'
  BY DEF RegistryMatches, Shape
<1>5. RequestsAreKept' /\ NoSpuriousYield'
  BY DEF RequestsAreKept, NoSpuriousYield, Blocked, Shape
<1>6. SeedsAreCounted'
  BY CountKept
<1> QED  BY <1>1, <1>2, <1>3, <1>4, <1>5, <1>6

LEMMA AcquireWriteKeeps ==
    ASSUME IndInv, NEW w \in Writers, AcquireWrite(w)
    PROVE  IndInv'
<1> USE DEF IndInv, AcquireWrite, seedState, At
<1>1. Shape' /\ Counters'
  BY DEF Shape, Counters, Places
<1>2. MutexMatches' /\ GenerationCounts'
  BY Kinds DEF MutexMatches, GenerationCounts, Shape, OwnerPlaces
<1>3. SlotMatches' /\ CheckedIsNewest' /\ StaleSeedIsCancelled' /\ RegistryMatches'
  BY DEF SlotMatches, CheckedIsNewest, StaleSeedIsCancelled, Stale, RegistryMatches
<1>4. RequestsAreKept' /\ NoSpuriousYield'
  BY DEF RequestsAreKept, NoSpuriousYield, Blocked, Shape
<1>5. SeedsAreCounted'
  BY CountKept
<1> QED  BY <1>1, <1>2, <1>3, <1>4, <1>5

LEMMA ClearPendingYieldKeeps ==
    ASSUME IndInv, NEW w \in Writers, ClearPendingYield(w)
    PROVE  IndInv'
<1> USE DEF IndInv, ClearPendingYield, seedVars, seedState, At
<1>1. Shape' /\ Counters'
  BY DEF Shape, Counters, Places
<1>2. MutexMatches' /\ GenerationCounts'
  BY DEF MutexMatches, GenerationCounts, Shape, OwnerPlaces
<1>3. SlotMatches' /\ CheckedIsNewest' /\ StaleSeedIsCancelled' /\ RegistryMatches'
  BY DEF SlotMatches, CheckedIsNewest, StaleSeedIsCancelled, Stale, RegistryMatches
<1>4. RequestsAreKept' /\ NoSpuriousYield'
  BY DEF RequestsAreKept, NoSpuriousYield, Blocked, Shape
<1>5. SeedsAreCounted'
  BY CountKept
<1> QED  BY <1>1, <1>2, <1>3, <1>4, <1>5

LEMMA CommitKeeps ==
    ASSUME IndInv, NEW w \in Writers, Commit(w)
    PROVE  IndInv'
<1> USE DEF IndInv, Commit, seedState, At
<1>1. Shape'
  BY DEF Shape, Places
<1>2. Counters'
  BY SeedAssumption DEF Counters
<1>3. MutexMatches'
  BY DEF MutexMatches, Shape, OwnerPlaces
<1>4. GenerationCounts'
  <2>1. \A u \in Writers : wpc[u] # "committed"
    BY DEF MutexMatches, OwnerPlaces, Shape
  <2>2. snap \in Nat /\ snap + 1 \in Passes /\ stage[snap + 1] = "off"
    BY Kinds, SeedAssumption DEF Counters, GenerationCounts
  <2>3. \A p \in Passes : p > snap + 1 => stage[p] = "off"
    BY <2>2, Kinds DEF GenerationCounts
  <2> QED  BY <2>1, <2>2, <2>3 DEF GenerationCounts, Shape, Counters
<1>5. SlotMatches' /\ CheckedIsNewest' /\ StaleSeedIsCancelled' /\ RegistryMatches'
  BY DEF SlotMatches, CheckedIsNewest, StaleSeedIsCancelled, Stale, RegistryMatches
<1>6. RequestsAreKept' /\ NoSpuriousYield'
  BY DEF RequestsAreKept, NoSpuriousYield, Blocked, Shape
<1>7. SeedsAreCounted'
  BY CountKept
<1> QED  BY <1>1, <1>2, <1>3, <1>4, <1>5, <1>6, <1>7

(* Return and FailWrite: the guards go, and the writer's history. *)
LEMMA LeaveKeeps ==
    ASSUME IndInv, NEW w \in Writers, wpc[w] \in {"writing", "committed", "returning"}, Leave(w),
           UNCHANGED <<stage, tries, mine, seedState, retained, gen>>
    PROVE  IndInv'
<1> USE DEF IndInv, Leave, seedState, At
<1>1. Shape' /\ Counters'
  BY DEF Shape, Counters, Places
<1>2. MutexMatches' /\ GenerationCounts'
  BY Kinds DEF MutexMatches, GenerationCounts, Shape, OwnerPlaces
<1>3. SlotMatches' /\ CheckedIsNewest' /\ StaleSeedIsCancelled' /\ RegistryMatches'
  BY DEF SlotMatches, CheckedIsNewest, StaleSeedIsCancelled, Stale, RegistryMatches
<1>4. RequestsAreKept' /\ NoSpuriousYield'
  BY DEF RequestsAreKept, NoSpuriousYield, Blocked, Shape
<1>5. SeedsAreCounted'
  BY CountKept
<1> QED  BY <1>1, <1>2, <1>3, <1>4, <1>5
-----------------------------------------------------------------------------
(* How an enrichment ends or is requeued *)

(* What every outcome leaves to the action: the mutex, the registry and    *)
(* the writers.                                                            *)
SeedPartKept ==
    /\ Counters
    /\ slot \in Passes \cup {NoOne} /\ embedding \in Passes \cup {NoOne} /\ seedCancel \in BOOLEAN
    /\ SlotMatches /\ StaleSeedIsCancelled /\ SeedsAreCounted

(* Before its seed stages a pass has neither slot nor flag. *)
LEMMA GoOutcome ==
    ASSUME IndInv, NEW p \in Passes, p # SelfHeal, stage[p] \in EnrichStages \cup {"off"},
           NEW s \in EnrichStages, Go(p, s), gen' \in 0 .. MaxCommits,
           UNCHANGED <<snap, tries, mine, seedState, retained>>
    PROVE  SeedPartKept' /\ stage' = [stage EXCEPT ![p] = s]
<1> USE DEF IndInv, Go, seedState
<1>1. Counters'
  BY DEF Counters
<1>2. slot' \in Passes \cup {NoOne} /\ embedding' \in Passes \cup {NoOne} /\ seedCancel' \in BOOLEAN
  BY DEF Shape
<1>3. SlotMatches'
  BY DEF SlotMatches, EnrichStages, Shape
<1>4. StaleSeedIsCancelled'
  BY DEF StaleSeedIsCancelled, EnrichStages, Shape, Stale
<1>5. SeedsAreCounted'
  BY CountKept DEF Shape
<1> QED  BY <1>1, <1>2, <1>3, <1>4, <1>5 DEF SeedPartKept

LEMMA EndedOutcome ==
    ASSUME IndInv, NEW p \in Passes, p # SelfHeal, stage[p] \in EnrichStages \cup {"off"},
           Ended(p), retained' \in 0 .. snap, UNCHANGED <<snap, gen, seedState>>
    PROVE  SeedPartKept' /\ stage' = [stage EXCEPT ![p] = "over"]
<1> USE DEF IndInv, Go, seedState
<1>1. /\ stage' = [stage EXCEPT ![p] = "over"] /\ tries' = [tries EXCEPT ![p] = 0]
      /\ mine' = [mine EXCEPT ![p] = 0]
  BY DEF Ended
<1>2. Counters'
  BY <1>1, SeedAssumption DEF Counters
<1>3. slot' \in Passes \cup {NoOne} /\ embedding' \in Passes \cup {NoOne} /\ seedCancel' \in BOOLEAN
  BY DEF Shape
<1>4. SlotMatches'
  BY <1>1 DEF SlotMatches, EnrichStages, Shape
<1>5. StaleSeedIsCancelled'
  BY <1>1 DEF StaleSeedIsCancelled, EnrichStages, Shape, Stale, Counters
<1>6. SeedsAreCounted'
  BY <1>1, CountKept DEF Shape, EnrichStages
<1> QED  BY <1>1, <1>2, <1>3, <1>4, <1>5, <1>6 DEF SeedPartKept

LEMMA SpawnOutcome ==
    ASSUME IndInv, NEW p \in Passes, p # SelfHeal, stage[p] \in EnrichStages \cup {"off"},
           SpawnAutoSeed(p), UNCHANGED <<snap, gen>>
    PROVE  SeedPartKept' /\ stage' = [stage EXCEPT ![p] = "cancelling"]
<1> USE DEF IndInv, Go
<1>1. /\ stage' = [stage EXCEPT ![p] = "cancelling"] /\ tries' = [tries EXCEPT ![p] = 0]
      /\ mine' = [mine EXCEPT ![p] = seedGen + 1] /\ seedGen' = seedGen + 1
      /\ UNCHANGED <<slot, embedding, seedCancel, retained>>
  BY DEF SpawnAutoSeed
<1>2. Counters'
  <2>1. mine' \in [Passes -> 0 .. seedGen + 1] /\ seedGen + 1 \in Nat
    BY <1>1 DEF Counters
  <2>2. tries' \in [Passes -> 0 .. MaxAttempts - 1]
    BY <1>1, SeedAssumption DEF Counters
  <2> QED  BY <1>1, <2>1, <2>2 DEF Counters
<1>3. slot' \in Passes \cup {NoOne} /\ embedding' \in Passes \cup {NoOne} /\ seedCancel' \in BOOLEAN
  BY <1>1 DEF Shape
<1>4. SlotMatches'
  BY <1>1 DEF SlotMatches, EnrichStages, Shape
<1>5. StaleSeedIsCancelled'
  BY <1>1 DEF StaleSeedIsCancelled, Shape
<1>6. SeedsAreCounted'
  BY CountSpawned
<1> QED  BY <1>1, <1>2, <1>3, <1>4, <1>5, <1>6 DEF SeedPartKept

(* chain_seed_then_retention. *)
LEMMA ChainTailOutcome ==
    ASSUME IndInv, NEW p \in Passes, p # SelfHeal, stage[p] \in EnrichStages \cup {"off"},
           ChainTail(p), UNCHANGED <<snap, gen>>
    PROVE  /\ SeedPartKept'
           /\ \E s \in {"cancelling", "over"} : stage' = [stage EXCEPT ![p] = s]
<1>1. CASE SpawnAutoSeed(p)
  BY <1>1, SpawnOutcome
<1>2. CASE retained' = snap /\ Ended(p) /\ UNCHANGED seedState
  <2>1. retained' \in 0 .. snap
    BY <1>2 DEF IndInv, Counters
  <2> QED  BY <1>2, <2>1, EndedOutcome
<1> QED  BY <1>1, <1>2 DEF ChainTail

(* A retry, or the tail after the last attempt. *)
LEMMA YieldedOutcome ==
    ASSUME IndInv, NEW p \in Passes, p # SelfHeal, stage[p] \in EnrichStages,
           Yielded(p), UNCHANGED <<snap, gen>>
    PROVE  /\ SeedPartKept'
           /\ \E s \in {"gate", "cancelling", "over"} : stage' = [stage EXCEPT ![p] = s]
<1>1. CASE /\ tries[p] + 1 < MaxAttempts /\ tries' = [tries EXCEPT ![p] = @ + 1]
           /\ Go(p, "gate") /\ UNCHANGED <<mine, seedState, retained>>
  <2> USE DEF IndInv, Go, seedState
  <2>1. Counters'
    BY <1>1, SeedAssumption DEF Counters
  <2>2. slot' \in Passes \cup {NoOne} /\ embedding' \in Passes \cup {NoOne}
        /\ seedCancel' \in BOOLEAN
    BY <1>1 DEF Shape
  <2>3. SlotMatches'
    BY <1>1 DEF SlotMatches, EnrichStages, Shape
  <2>4. StaleSeedIsCancelled'
    BY <1>1 DEF StaleSeedIsCancelled, EnrichStages, Shape, Stale
  <2>5. SeedsAreCounted'
    BY <1>1, CountKept DEF Shape
  <2> QED  BY <1>1, <2>1, <2>2, <2>3, <2>4, <2>5 DEF SeedPartKept
<1>2. CASE ChainTail(p)
  BY <1>2, ChainTailOutcome
<1> QED  BY <1>1, <1>2 DEF Yielded

(* finish_write_with_maintenance: the pass spawned is the newest commit's. *)
LEMMA FinishWriteKeeps ==
    ASSUME IndInv, NEW w \in Writers, FinishWrite(w)
    PROVE  IndInv'
<1>1. /\ db = w /\ snap \in Passes /\ snap # SelfHeal /\ snap \in Nat
      /\ gen < snap /\ stage[snap] = "off"
  BY Kinds DEF IndInv, FinishWrite, MutexMatches, OwnerPlaces, GenerationCounts, Counters
<1>2. /\ wpc' = [wpc EXCEPT ![w] = "returning"]
      /\ UNCHANGED <<db, snap, enrichOn, seedOn, active, running, cancel, pending,
                     answered, erased>>
  BY DEF FinishWrite, At
<1>3. \A u \in Writers : wpc'[u] # "committed"
  BY <1>1, <1>2 DEF IndInv, MutexMatches, OwnerPlaces, Shape
<1>4. PICK s \in {"gate", "cancelling", "over"} :
          /\ SeedPartKept' /\ stage' = [stage EXCEPT ![snap] = s]
          /\ gen' \in 0 .. snap /\ (enrichOn => gen' = snap)
          /\ s = "gate" => enrichOn
  <2>1. CASE enrichOn /\ gen' = snap /\ Go(snap, "gate")
             /\ UNCHANGED <<tries, mine, seedState, retained>>
    <3>1. gen' \in 0 .. MaxCommits /\ snap \in 0 .. snap /\ "gate" \in EnrichStages
      BY <1>1, <2>1 DEF IndInv, Counters, EnrichStages
    <3> QED  BY <1>1, <1>2, <2>1, <3>1, GoOutcome
  <2>2. CASE ~enrichOn /\ ChainTail(snap) /\ UNCHANGED gen
    <3>1. gen' \in 0 .. snap
      BY <1>1, <2>2 DEF IndInv, Counters
    <3> QED  BY <1>1, <1>2, <2>2, <3>1, ChainTailOutcome
  <2> QED  BY <2>1, <2>2 DEF FinishWrite
<1> USE DEF IndInv
<1>5. Shape'
  BY <1>2, <1>4 DEF Shape, Places, Stages, SeedStages, EnrichStages, SeedPartKept
<1>6. MutexMatches'
  BY <1>1, <1>2, <1>4 DEF MutexMatches, Shape, OwnerPlaces, DbStages
<1>7. GenerationCounts'
  <2>1. gen' <= snap
    BY <1>1, <1>4
  <2>2. \A p \in Passes : p > snap => stage'[p] = "off"
    BY <1>1, <1>4, Kinds DEF GenerationCounts, Shape
  <2>3. \A p \in Passes : stage'[p] \in EnrichStages => enrichOn
    BY <1>4 DEF GenerationCounts, Shape, EnrichStages
  <2>4. stage'[SelfHeal] \notin EnrichStages \cup {"cancelling"}
    BY <1>1, <1>4, Kinds DEF GenerationCounts, Shape
  <2> QED  BY <1>2, <1>3, <1>4, <2>1, <2>2, <2>3, <2>4 DEF GenerationCounts
<1>8. CheckedIsNewest'
  <2>1. \A p \in Passes : stage[p] \notin {"window", "running"}
    BY <1>1, Kinds DEF MutexMatches, DbStages
  <2> QED  BY <1>4, <2>1 DEF CheckedIsNewest, Shape
<1>9. RegistryMatches'
  <2>1. running # snap
    BY <1>1 DEF RegistryMatches
  <2> QED  BY <1>1, <1>2, <1>4, <2>1 DEF RegistryMatches, Shape
<1>10. RequestsAreKept' /\ NoSpuriousYield'
  BY <1>2 DEF RequestsAreKept, NoSpuriousYield, Blocked, Shape, FinishWrite
<1> QED  BY <1>4, <1>5, <1>6, <1>7, <1>8, <1>9, <1>10 DEF SeedPartKept

-----------------------------------------------------------------------------
(* The enrichment pass *)

(* A pass in an enrichment stage is not the self-heal. *)
LEMMA EnrichesOnlyCommits ==
    ASSUME IndInv, NEW p \in Passes, stage[p] \in EnrichStages
    PROVE  p # SelfHeal
BY DEF IndInv, GenerationCounts

(* A pass that has begun is not later than the last one handed over. *)
LEMMA GenerationKept ==
    ASSUME IndInv, NEW p \in Passes, stage[p] # "off" \/ p = SelfHeal, NEW s,
           stage' = [stage EXCEPT ![p] = s], s \in EnrichStages => stage[p] \in EnrichStages,
           p = SelfHeal => s \notin EnrichStages \cup {"cancelling"},
           UNCHANGED <<snap, gen, enrichOn, wpc>>
    PROVE  GenerationCounts'
<1> USE DEF IndInv
<1>1. p \in Nat /\ gen \in Nat /\ snap \in Nat
  BY Kinds DEF Counters
<1>2. ~(p > snap) /\ (enrichOn => ~(p > gen))
  BY <1>1, Kinds DEF GenerationCounts
<1>3. \A w \in Writers : wpc[w] = "committed" => p # snap
  BY <1>1, Kinds DEF GenerationCounts
<1> QED  BY <1>2, <1>3, Kinds DEF GenerationCounts, Shape

(* The parts about the registry and the writers, for a pass that registers *)
(* nothing: it goes from stage[p] to s, with the mutex or without.         *)
LEMMA PassStepKeeps ==
    ASSUME IndInv, NEW p \in Passes, stage[p] \in EnrichStages \ {"running"},
           NEW s \in Stages \ {"off", "running"}, stage' = [stage EXCEPT ![p] = s], SeedPartKept',
           UNCHANGED <<snap, enrichVars>>,
           \/ db' = db /\ (s \in DbStages <=> stage[p] \in DbStages)
           \/ db = NoOne /\ db' = p /\ s \in DbStages
           \/ stage[p] \in DbStages /\ db' = NoOne /\ s \notin DbStages,
           s = "window" => gen = p
    PROVE  IndInv'
<1> USE DEF IndInv, enrichVars
<1>1. p # SelfHeal
  BY EnrichesOnlyCommits
<1>2. Shape'
  BY DEF Shape, SeedPartKept
<1>3. MutexMatches'
  BY Kinds DEF MutexMatches, Shape
<1>4. GenerationCounts'
  BY <1>1, GenerationKept DEF EnrichStages
<1>5. CheckedIsNewest' /\ RegistryMatches'
  BY DEF CheckedIsNewest, RegistryMatches, Shape
<1>6. RequestsAreKept' /\ NoSpuriousYield'
  BY DEF RequestsAreKept, NoSpuriousYield, Blocked
<1> QED  BY <1>2, <1>3, <1>4, <1>5, <1>6 DEF SeedPartKept

(* Superseded ends the pass and nothing else. *)
LEMMA SupersededOutcome ==
    ASSUME IndInv, NEW p \in Passes, stage[p] \in EnrichStages, Superseded(p),
           UNCHANGED <<snap, gen>>
    PROVE  SeedPartKept' /\ stage' = [stage EXCEPT ![p] = "over"]
<1>1. retained' \in 0 .. snap
  BY DEF Superseded, IndInv, Counters
<1> QED  BY <1>1, EnrichesOnlyCommits, EndedOutcome DEF Superseded

LEMMA OutcomeStages ==
    /\ {"gate", "cancelling", "over"} \subseteq Stages \ {"off", "running"}
    /\ EnrichStages \ {"running"} \subseteq Stages \ {"off", "running"}
    /\ "gate" \notin DbStages /\ "cancelling" \notin DbStages /\ "over" \notin DbStages
    /\ "try" \notin DbStages
    /\ DbStages \subseteq EnrichStages
    /\ "gate" \in EnrichStages /\ "try" \in EnrichStages
BY DEF Stages, SeedStages, EnrichStages, DbStages

LEMMA EnrichGateKeeps ==
    ASSUME IndInv, NEW p \in Passes, EnrichGate(p)
    PROVE  IndInv'
<1>1. stage[p] = "gate" /\ UNCHANGED <<db, snap, enrichVars, gen>> /\ p # SelfHeal
  BY EnrichesOnlyCommits, OutcomeStages DEF EnrichGate, enrichVars
<1>2. PICK s \in {"gate", "cancelling", "over", "try"} :
          SeedPartKept' /\ stage' = [stage EXCEPT ![p] = s]
  <2>1. CASE Superseded(p)
    BY <1>1, <2>1, SupersededOutcome, OutcomeStages
  <2>2. CASE Yielded(p)
    BY <1>1, <2>2, YieldedOutcome, OutcomeStages
  <2>3. CASE Go(p, "try") /\ UNCHANGED <<tries, mine, seedState, retained>>
    <3>1. gen' \in 0 .. MaxCommits
      BY <1>1 DEF IndInv, Counters
    <3> QED  BY <1>1, <2>3, <3>1, GoOutcome, OutcomeStages
  <2> QED  BY <2>1, <2>2, <2>3 DEF EnrichGate
<1>3. s \in Stages \ {"off", "running"} /\ s \notin DbStages /\ stage[p] \notin DbStages
      /\ stage[p] \in EnrichStages \ {"running"} /\ s # "window"
  BY <1>1, <1>2, OutcomeStages DEF EnrichStages, Stages
<1> QED  BY <1>1, <1>2, <1>3, PassStepKeeps

LEMMA EnrichTryKeeps ==
    ASSUME IndInv, NEW p \in Passes, EnrichTry(p)
    PROVE  IndInv'
<1>1. stage[p] = "try" /\ UNCHANGED <<snap, enrichVars, gen>> /\ p # SelfHeal
      /\ stage[p] \in EnrichStages \ {"running"} /\ stage[p] \notin DbStages
  BY EnrichesOnlyCommits, OutcomeStages DEF EnrichTry, enrichVars
<1>2. CASE (ChainTail(p) \/ Yielded(p)) /\ UNCHANGED db
  <2>1. PICK s \in {"gate", "cancelling", "over"} :
            SeedPartKept' /\ stage' = [stage EXCEPT ![p] = s]
    BY <1>1, <1>2, ChainTailOutcome, YieldedOutcome, OutcomeStages
  <2> QED  BY <1>1, <1>2, <2>1, PassStepKeeps, OutcomeStages
<1>3. CASE /\ db = NoOne /\ db' = p /\ Go(p, "recheck")
           /\ UNCHANGED <<tries, mine, seedState, retained>>
  <2>1. gen' \in 0 .. MaxCommits /\ "recheck" \in DbStages
        /\ "recheck" \in EnrichStages \ {"running"}
    BY <1>1 DEF IndInv, Counters, DbStages, EnrichStages
  <2>2. SeedPartKept' /\ stage' = [stage EXCEPT ![p] = "recheck"]
    BY <1>1, <1>3, <2>1, GoOutcome
  <2> QED  BY <1>1, <1>3, <2>1, <2>2, PassStepKeeps, OutcomeStages
<1> QED  BY <1>2, <1>3 DEF EnrichTry

LEMMA EnrichRecheckKeeps ==
    ASSUME IndInv, NEW p \in Passes, EnrichRecheck(p)
    PROVE  IndInv'
<1>1. stage[p] = "recheck" /\ UNCHANGED <<snap, enrichVars, gen>> /\ stage[p] \in DbStages
      /\ stage[p] \in EnrichStages \ {"running"} /\ p # SelfHeal
  BY EnrichesOnlyCommits DEF EnrichRecheck, enrichVars, EnrichStages, DbStages
<1>2. CASE (Superseded(p) \/ ChainTail(p)) /\ db' = NoOne
  <2>1. PICK s \in {"cancelling", "over"} :
            SeedPartKept' /\ stage' = [stage EXCEPT ![p] = s]
    BY <1>1, <1>2, ChainTailOutcome, SupersededOutcome
  <2> QED  BY <1>1, <1>2, <2>1, PassStepKeeps, OutcomeStages
<1>3. CASE gen = p /\ Go(p, "window") /\ UNCHANGED <<db, tries, mine, seedState, retained>>
  <2>1. gen' \in 0 .. MaxCommits /\ "window" \in DbStages
        /\ "window" \in EnrichStages \ {"running"}
    BY <1>1 DEF IndInv, Counters, DbStages, EnrichStages
  <2>2. SeedPartKept' /\ stage' = [stage EXCEPT ![p] = "window"]
    BY <1>1, <1>3, <2>1, GoOutcome
  <2> QED  BY <1>1, <1>3, <2>1, <2>2, PassStepKeeps, OutcomeStages
<1> QED  BY <1>2, <1>3 DEF EnrichRecheck

LEMMA ReleaseDbKeeps ==
    ASSUME IndInv, NEW p \in Passes, ReleaseDb(p)
    PROVE  IndInv'
<1>1. /\ stage[p] \in DbStages /\ stage[p] \in EnrichStages \ {"running"} /\ db' = NoOne
      /\ UNCHANGED <<snap, enrichVars, gen>> /\ p # SelfHeal
  BY EnrichesOnlyCommits DEF ReleaseDb, enrichVars, EnrichStages, DbStages
<1>2. PICK s \in {"gate", "cancelling", "over"} :
          SeedPartKept' /\ stage' = [stage EXCEPT ![p] = s]
  BY <1>1, ChainTailOutcome, YieldedOutcome DEF ReleaseDb
<1> QED  BY <1>1, <1>2, PassStepKeeps, OutcomeStages

(* stamp and register_running; the marker, if any, becomes the flag. *)
LEMMA RegisterRunningKeeps ==
    ASSUME IndInv, NEW p \in Passes, RegisterRunning(p)
    PROVE  IndInv'
<1>1. /\ stage[p] = "window" /\ stage[p] \in DbStages
      /\ stage[p] \in EnrichStages \ {"running"} /\ p # SelfHeal
      /\ UNCHANGED <<snap, enrichOn, seedOn, gen, wpc, erased>>
  BY EnrichesOnlyCommits DEF RegisterRunning, EnrichStages, DbStages
<1>2. CASE db' = NoOne /\ ChainTail(p) /\ UNCHANGED <<active, running, cancel, pending, answered>>
  <2>1. PICK s \in {"cancelling", "over"} :
            SeedPartKept' /\ stage' = [stage EXCEPT ![p] = s]
    BY <1>1, <1>2, ChainTailOutcome
  <2> QED  BY <1>1, <1>2, <2>1, PassStepKeeps, OutcomeStages DEF enrichVars
<1>3. CASE /\ active' = active \cup {p} /\ running' = p /\ cancel' = pending
           /\ pending' = FALSE
           /\ answered' = (IF cancel' THEN answered \cup Blocked ELSE answered)
           /\ Go(p, "running") /\ UNCHANGED <<db, tries, mine, seedState, retained>>
  <2>1. gen' \in 0 .. MaxCommits /\ "running" \in EnrichStages /\ "running" \in DbStages
    BY <1>1 DEF IndInv, Counters, EnrichStages, DbStages
  <2>2. SeedPartKept' /\ stage' = [stage EXCEPT ![p] = "running"]
    BY <1>1, <1>3, <2>1, GoOutcome
  <2> USE DEF IndInv
  <2>3. Shape'
    BY <1>1, <1>3, <2>1, <2>2 DEF Shape, SeedPartKept, Stages
  <2>4. MutexMatches' /\ CheckedIsNewest'
    BY <1>1, <1>3, <2>1, <2>2 DEF MutexMatches, CheckedIsNewest, Shape
  <2>5. GenerationCounts'
    BY <1>1, <2>2, GenerationKept DEF EnrichStages
  <2>6. RegistryMatches'
    <3>1. \A q \in Passes : stage[q] = "running" => q = p
      BY <1>1, Kinds DEF MutexMatches, DbStages
    <3> QED  BY <1>1, <1>3, <2>2, <3>1, Kinds DEF RegistryMatches, Shape
  <2>7. RequestsAreKept' /\ NoSpuriousYield'
    BY <1>1, <1>3 DEF RequestsAreKept, NoSpuriousYield, Blocked, Shape
  <2> QED  BY <2>2, <2>3, <2>4, <2>5, <2>6, <2>7 DEF SeedPartKept
<1> QED  BY <1>2, <1>3 DEF RegisterRunning

LEMMA EndRunKeeps ==
    ASSUME IndInv, NEW p \in Passes, EndRun(p)
    PROVE  IndInv'
<1>1. /\ stage[p] = "running" /\ stage[p] \in EnrichStages /\ stage[p] \in DbStages
      /\ p # SelfHeal
  BY EnrichesOnlyCommits DEF EndRun, EnrichStages, DbStages
<1>2. /\ running' = NoOne /\ cancel' = FALSE /\ active' = active \ {p}
      /\ UNCHANGED <<db, snap, tries, mine, seedState, retained, enrichOn, seedOn, gen, wpc,
                     pending, answered, erased>>
  BY DEF EndRun
<1>3. PICK s \in {"failed", "cancelled", "ran"} : Go(p, s)
  BY DEF EndRun
<1>4. s \in EnrichStages /\ s \in DbStages /\ gen' \in 0 .. MaxCommits
  BY <1>2, <1>3 DEF EnrichStages, DbStages, IndInv, Counters
<1>5. SeedPartKept' /\ stage' = [stage EXCEPT ![p] = s]
  BY <1>1, <1>2, <1>3, <1>4, GoOutcome
<1> USE DEF IndInv
<1>6. Shape'
  BY <1>1, <1>2, <1>4, <1>5 DEF Shape, SeedPartKept, Stages
<1>7. MutexMatches' /\ CheckedIsNewest'
  BY <1>1, <1>2, <1>3, <1>4, <1>5 DEF MutexMatches, CheckedIsNewest, Shape
<1>8. GenerationCounts'
  BY <1>1, <1>2, <1>5, GenerationKept DEF EnrichStages
<1>9. RegistryMatches'
  <2>1. \A q \in Passes : stage[q] = "running" => q = p
    BY <1>1 DEF RegistryMatches
  <2> QED  BY <1>2, <1>3, <1>5, <2>1, Kinds DEF RegistryMatches, Shape
<1>10. RequestsAreKept' /\ NoSpuriousYield'
  BY <1>2 DEF RequestsAreKept, NoSpuriousYield, Blocked
<1> QED  BY <1>5, <1>6, <1>7, <1>8, <1>9, <1>10 DEF SeedPartKept
-----------------------------------------------------------------------------
(* The seed pass *)

EnrichPartKept ==
    MutexMatches /\ GenerationCounts /\ CheckedIsNewest /\ RegistryMatches
        /\ RequestsAreKept /\ NoSpuriousYield

(* A step between seed stages is nothing to the enrichment's side. *)
LEMMA SeedStageStep ==
    ASSUME IndInv, NEW p \in Passes, stage[p] \in SeedStages, stage[p] = "off" => p = SelfHeal,
           NEW s \in SeedStages \ {"cancelling"}, stage' = [stage EXCEPT ![p] = s],
           s = "off" => p = SelfHeal, UNCHANGED <<db, snap, enrichVars>>
    PROVE  EnrichPartKept'
<1> USE DEF IndInv, enrichVars
<1>1. stage[p] \notin EnrichStages /\ s \notin EnrichStages
  BY DEF SeedStages, EnrichStages
<1>2. MutexMatches' /\ CheckedIsNewest' /\ RegistryMatches'
  BY <1>1 DEF MutexMatches, CheckedIsNewest, RegistryMatches, Shape, EnrichStages, DbStages
<1>3. GenerationCounts'
  BY <1>1, GenerationKept
<1>4. RequestsAreKept' /\ NoSpuriousYield'
  BY DEF RequestsAreKept, NoSpuriousYield, Blocked
<1> QED  BY <1>2, <1>3, <1>4 DEF EnrichPartKept

SeedingStages == {"seed", "corpus", "registered", "embed", "publish"}

(* The attempt returns, for good or to be retried. *)
LEMMA SeedReturnKeeps ==
    ASSUME IndInv, NEW p \in Passes, stage[p] \in SeedingStages,
           NEW s \in {"seed", "over", "off"}, stage' = [stage EXCEPT ![p] = s],
           s = "off" => p = SelfHeal, DropSeedGuards(p), UNCHANGED enrichVars,
           Counters', \A q \in Passes \ {p} : mine'[q] = mine[q]
    PROVE  IndInv'
<1> USE DEF IndInv, SeedingStages
<1>1. /\ UNCHANGED <<db, snap, seedGen>>
      /\ slot' = (IF slot = p THEN NoOne ELSE slot)
      /\ embedding' = (IF embedding = p THEN NoOne ELSE embedding)
      /\ seedCancel' = (embedding # p /\ seedCancel)
  BY DEF DropSeedGuards
<1>2. stage[p] \in SeedStages /\ stage[p] # "off" /\ s \in SeedStages \ {"cancelling"}
  BY DEF SeedStages
<1>3. EnrichPartKept'
  BY <1>1, <1>2, SeedStageStep
<1>4. Shape'
  BY <1>1, <1>2 DEF Shape, Stages, enrichVars
<1>5. SlotMatches'
  BY <1>1, Kinds DEF SlotMatches, Shape
<1>6. StaleSeedIsCancelled'
  <2> SUFFICES ASSUME NEW q \in Passes, stage'[q] = "embed", mine'[q] # seedGen'
               PROVE  seedCancel' \/ \E r \in Passes : stage'[r] = "cancelling"
    BY DEF StaleSeedIsCancelled, Stale
  <2>1. q # p /\ stage[q] = "embed" /\ mine[q] # seedGen
    BY <1>1 DEF Shape
  <2>2. embedding = q
    BY <2>1 DEF SlotMatches
  <2>3. CASE seedCancel
    BY <1>1, <2>1, <2>2, <2>3
  <2>4. CASE \E r \in Passes : stage[r] = "cancelling"
    BY <2>4 DEF Shape
  <2> QED  BY <2>1, <2>3, <2>4 DEF StaleSeedIsCancelled, Stale
<1>7. SeedsAreCounted'
  BY <1>1, CountKept DEF Shape, EnrichStages
<1> QED  BY <1>3, <1>4, <1>5, <1>6, <1>7 DEF EnrichPartKept

LEMMA SeedOverKeeps ==
    ASSUME IndInv, NEW p \in Passes, stage[p] \in SeedingStages, UNCHANGED enrichVars,
           SeedSuperseded(p) \/ SeedEnded(p)
    PROVE  IndInv'
<1> DEFINE s == IF p = SelfHeal THEN "off" ELSE "over"
<1>1. /\ DropSeedGuards(p) /\ stage' = [stage EXCEPT ![p] = s]
      /\ tries' = [tries EXCEPT ![p] = 0] /\ mine' = [mine EXCEPT ![p] = 0]
      /\ retained' = retained \/ retained' = snap
  BY DEF SeedSuperseded, SeedEnded, Ended, Go
<1>2. Counters' /\ \A q \in Passes \ {p} : mine'[q] = mine[q]
  BY <1>1, SeedAssumption DEF IndInv, Counters, DropSeedGuards, enrichVars
<1>3. s \in {"seed", "over", "off"} /\ (s = "off" => p = SelfHeal)
  OBVIOUS
<1> HIDE DEF s
<1> QED  BY <1>1, <1>2, <1>3, SeedReturnKeeps

LEMMA SeedYieldedKeeps ==
    ASSUME IndInv, NEW p \in Passes, stage[p] \in SeedingStages, UNCHANGED enrichVars,
           SeedYielded(p)
    PROVE  IndInv'
<1>1. CASE /\ tries[p] + 1 < MaxAttempts /\ DropSeedGuards(p)
           /\ tries' = [tries EXCEPT ![p] = @ + 1]
           /\ Go(p, "seed") /\ UNCHANGED <<mine, retained>>
  <2>1. Counters' /\ \A q \in Passes \ {p} : mine'[q] = mine[q]
    BY <1>1, SeedAssumption DEF IndInv, Counters, DropSeedGuards, enrichVars
  <2>2. stage' = [stage EXCEPT ![p] = "seed"]
    BY <1>1 DEF Go
  <2> QED  BY <1>1, <2>1, <2>2, SeedReturnKeeps
<1>2. CASE SeedEnded(p)
  BY <1>2, SeedOverKeeps
<1> QED  BY <1>1, <1>2 DEF SeedYielded

(* request_cancel_for_db: whoever embeds for an older generation has the   *)
(* registered flag.                                                        *)
LEMMA RequestCancelKeeps ==
    ASSUME IndInv, NEW p \in Passes, UNCHANGED enrichVars, RequestCancel(p)
    PROVE  IndInv'
<1> USE DEF IndInv
<1>1. /\ stage[p] = "cancelling" /\ stage' = [stage EXCEPT ![p] = "seed"]
      /\ seedCancel' = (seedCancel \/ embedding # NoOne)
      /\ UNCHANGED <<db, snap, tries, seedGen, mine, slot, embedding, retained>>
  BY DEF RequestCancel, Go
<1>2. EnrichPartKept'
  BY <1>1, SeedStageStep DEF SeedStages
<1>3. Shape' /\ Counters'
  BY <1>1 DEF Shape, Counters, Stages, SeedStages, enrichVars
<1>4. SlotMatches'
  BY <1>1 DEF SlotMatches, Shape
<1>5. StaleSeedIsCancelled'
  <2> SUFFICES ASSUME NEW q \in Passes, stage'[q] = "embed" PROVE seedCancel'
    BY DEF StaleSeedIsCancelled
  <2>1. stage[q] = "embed"
    BY <1>1 DEF Shape
  <2> QED  BY <1>1, <2>1, Kinds DEF SlotMatches
<1>6. SeedsAreCounted'
  BY <1>1, CountKept DEF Shape, EnrichStages
<1> QED  BY <1>2, <1>3, <1>4, <1>5, <1>6 DEF EnrichPartKept

(* A step that touches neither slot nor flag and does not start to embed. *)
LEMMA QuietSeedKeeps ==
    ASSUME IndInv, NEW p \in Passes, UNCHANGED enrichVars,
           UNCHANGED <<db, snap, tries, seedGen, slot, embedding, seedCancel, retained>>,
           stage[p] \in SeedStages \ {"cancelling"}, stage[p] = "off" => p = SelfHeal,
           NEW s \in SeedStages \ {"off", "cancelling"}, stage' = [stage EXCEPT ![p] = s],
           Counters', \A q \in Passes \ {p} : mine'[q] = mine[q],
           s \in {"corpus", "registered", "embed", "publish"}
               <=> stage[p] \in {"corpus", "registered", "embed", "publish"},
           s \in {"registered", "embed", "publish"}
               <=> stage[p] \in {"registered", "embed", "publish"},
           s = "embed" => mine'[p] = seedGen
    PROVE  IndInv'
<1> USE DEF IndInv
<1>1. EnrichPartKept'
  BY SeedStageStep
<1>2. Shape'
  BY DEF Shape, Stages, enrichVars
<1>3. SlotMatches'
  BY DEF SlotMatches, Shape
<1>4. StaleSeedIsCancelled'
  <2> SUFFICES ASSUME NEW q \in Passes, stage'[q] = "embed", mine'[q] # seedGen
               PROVE  seedCancel \/ \E r \in Passes : stage'[r] = "cancelling"
    BY DEF StaleSeedIsCancelled, Stale
  <2>1. q # p /\ stage[q] = "embed" /\ mine[q] # seedGen
    BY DEF Shape
  <2>2. \A r \in Passes : stage[r] = "cancelling" => stage'[r] = "cancelling"
    BY DEF Shape
  <2> QED  BY <2>1, <2>2 DEF StaleSeedIsCancelled, Stale
<1>5. SeedsAreCounted'
  BY CountKept DEF Shape, SeedStages, EnrichStages
<1> QED  BY <1>1, <1>2, <1>3, <1>4, <1>5 DEF EnrichPartKept

LEMMA SeedBeginKeeps ==
    ASSUME IndInv, NEW p \in Passes, UNCHANGED enrichVars, SeedBegin(p)
    PROVE  IndInv'
<1>1. stage[p] = "seed" /\ stage[p] \in SeedingStages
  BY DEF SeedBegin, SeedingStages
<1>2. CASE SeedSuperseded(p) \/ SeedYielded(p)
  BY <1>1, <1>2, SeedOverKeeps, SeedYieldedKeeps
<1>3. CASE /\ slot = NoOne /\ slot' = p /\ Go(p, "corpus")
           /\ UNCHANGED <<db, snap, tries, seedGen, mine, embedding, seedCancel,
                          lateCancel, retained>>
  <2> USE DEF IndInv, Go
  <2>1. EnrichPartKept'
    BY <1>1, <1>3, SeedStageStep DEF SeedStages
  <2>2. Shape' /\ Counters'
    BY <1>3 DEF Shape, Counters, Stages, SeedStages, enrichVars
  <2>3. SlotMatches'
    BY <1>1, <1>3, Kinds DEF SlotMatches, Shape
  <2>4. StaleSeedIsCancelled'
    BY <1>1, <1>3 DEF StaleSeedIsCancelled, Stale, Shape
  <2>5. SeedsAreCounted'
    BY <1>1, <1>3, CountKept DEF Shape, EnrichStages
  <2> QED  BY <2>1, <2>2, <2>3, <2>4, <2>5 DEF EnrichPartKept
<1> QED  BY <1>2, <1>3 DEF SeedBegin

LEMMA ReadAndRegisterKeeps ==
    ASSUME IndInv, NEW p \in Passes, UNCHANGED enrichVars, ReadAndRegister(p)
    PROVE  IndInv'
<1>1. stage[p] = "corpus" /\ stage[p] \in SeedingStages
  BY DEF ReadAndRegister, SeedingStages
<1>2. CASE SeedEnded(p)
  BY <1>1, <1>2, SeedOverKeeps
<1>3. CASE /\ embedding' = p /\ seedCancel' = FALSE /\ Go(p, "registered")
           /\ UNCHANGED <<db, snap, tries, seedGen, mine, slot, lateCancel, retained>>
  <2> USE DEF IndInv, Go
  <2>1. EnrichPartKept'
    BY <1>1, <1>3, SeedStageStep DEF SeedStages
  <2>2. Shape' /\ Counters'
    BY <1>3 DEF Shape, Counters, Stages, SeedStages, enrichVars
  <2>3. \A q \in Passes : stage[q] \in {"corpus", "registered", "embed", "publish"} => q = p
    BY <1>1 DEF SlotMatches
  <2>4. SlotMatches'
    BY <1>1, <1>3, <2>3, Kinds DEF SlotMatches, Shape
  <2>5. StaleSeedIsCancelled'
    BY <1>3, <2>3 DEF StaleSeedIsCancelled, Shape
  <2>6. SeedsAreCounted'
    BY <1>1, <1>3, CountKept DEF Shape, EnrichStages
  <2> QED  BY <2>1, <2>2, <2>4, <2>5, <2>6 DEF EnrichPartKept
<1> QED  BY <1>2, <1>3 DEF ReadAndRegister

LEMMA SeedStepKeeps ==
    ASSUME IndInv, NEW p \in Passes, SeedStep(p)
    PROVE  IndInv'
<1>1. UNCHANGED enrichVars /\ RunSeed(p)
  BY DEF SeedStep
<1>2. CASE RequestCancel(p) \/ SeedBegin(p) \/ ReadAndRegister(p)
  BY <1>1, <1>2, RequestCancelKeeps, SeedBeginKeeps, ReadAndRegisterKeeps
<1>3. CASE BeginReseed(p)
  <2>1. /\ stage[p] = "scheduled" /\ stage' = [stage EXCEPT ![p] = "seed"]
        /\ mine' = [mine EXCEPT ![p] = seedGen]
        /\ UNCHANGED <<db, snap, tries, seedGen, slot, embedding, seedCancel, retained>>
    BY <1>3 DEF BeginReseed, Go, seedState
  <2>2. Counters' /\ \A q \in Passes \ {p} : mine'[q] = mine[q]
    BY <1>1, <2>1 DEF IndInv, Counters, enrichVars
  <2> QED  BY <1>1, <2>1, <2>2, QuietSeedKeeps DEF SeedStages
<1>4. CASE RecheckGeneration(p)
  <2>1. stage[p] = "registered" /\ stage[p] \in SeedingStages
    BY <1>4 DEF RecheckGeneration, SeedingStages
  <2>2. CASE SeedSuperseded(p)
    BY <1>1, <2>1, <2>2, SeedOverKeeps
  <2>3. CASE ~Stale(p) /\ Go(p, "embed") /\ UNCHANGED <<db, snap, tries, mine, seedState, retained>>
    <3>1. Counters' /\ \A q \in Passes \ {p} : mine'[q] = mine[q]
      BY <1>1, <2>3 DEF IndInv, Counters, enrichVars, seedState
    <3>2. mine'[p] = seedGen /\ stage' = [stage EXCEPT ![p] = "embed"]
      BY <2>3 DEF Stale, Go
    <3> QED  BY <1>1, <2>1, <2>3, <3>1, <3>2, QuietSeedKeeps DEF SeedStages, seedState
  <2> QED  BY <1>4, <2>2, <2>3 DEF RecheckGeneration
<1>5. CASE Embed(p)
  <2>1. stage[p] = "embed" /\ stage[p] \in SeedingStages
    BY <1>5 DEF Embed, SeedingStages
  <2>2. CASE SeedSuperseded(p) \/ SeedEnded(p)
    BY <1>1, <2>1, <2>2, SeedOverKeeps
  <2>3. CASE Go(p, "publish") /\ UNCHANGED <<db, snap, tries, mine, seedState, retained>>
    <3>1. Counters' /\ \A q \in Passes \ {p} : mine'[q] = mine[q]
      BY <1>1, <2>3 DEF IndInv, Counters, enrichVars, seedState
    <3>2. stage' = [stage EXCEPT ![p] = "publish"]
      BY <2>3 DEF Go
    <3> QED  BY <1>1, <2>1, <2>3, <3>1, <3>2, QuietSeedKeeps DEF SeedStages, seedState
  <2> QED  BY <1>5, <2>2, <2>3 DEF Embed
<1>6. CASE PublishGuarded(p)
  <2>1. stage[p] \in SeedingStages
    BY <1>6 DEF PublishGuarded, SeedingStages
  <2> QED  BY <1>1, <1>6, <2>1, SeedOverKeeps, SeedYieldedKeeps DEF PublishGuarded
<1> QED  BY <1>1, <1>2, <1>3, <1>4, <1>5, <1>6 DEF RunSeed

LEMMA ScheduleReseedKeeps ==
    ASSUME IndInv, ScheduleReseed, UNCHANGED enrichVars
    PROVE  IndInv'
<1>1. /\ stage[SelfHeal] = "off" /\ stage' = [stage EXCEPT ![SelfHeal] = "scheduled"]
      /\ UNCHANGED <<db, snap, tries, mine, seedGen, slot, embedding, seedCancel, retained>>
  BY Kinds DEF ScheduleReseed, Go, seedState
<1>2. Counters' /\ SelfHeal \in Passes
  BY <1>1, Kinds DEF IndInv, Counters, enrichVars
<1> QED  BY <1>1, <1>2, QuietSeedKeeps DEF SeedStages
-----------------------------------------------------------------------------
(* The theorems *)

LEMMA InitIndInv == Init => IndInv
<1> SUFFICES ASSUME Init PROVE IndInv
  OBVIOUS
<1> USE DEF Init, SeedInit
<1>1. Shape /\ Counters
  <2>1. Shape
    BY DEF Shape, Places, Stages, SeedStages
  <2>2. Counters
    BY SeedAssumption DEF Counters
  <2> QED  BY <2>1, <2>2
<1>2. MutexMatches /\ SlotMatches /\ RegistryMatches
  BY Kinds DEF MutexMatches, SlotMatches, RegistryMatches, DbStages, OwnerPlaces
<1>3. GenerationCounts /\ CheckedIsNewest /\ StaleSeedIsCancelled
  BY Kinds DEF GenerationCounts, CheckedIsNewest, StaleSeedIsCancelled, EnrichStages
<1>4. RequestsAreKept /\ NoSpuriousYield
  BY DEF RequestsAreKept, NoSpuriousYield, Blocked
<1>5. SeedsAreCounted
  <2>1. Seeded \subseteq 1 .. MaxCommits
    BY DEF Seeded
  <2>2. Cardinality(Seeded) \in Nat
    BY <2>1, CountsPasses
  <2> QED  BY <2>2 DEF SeedsAreCounted
<1> QED  BY <1>1, <1>2, <1>3, <1>4, <1>5 DEF IndInv

LEMMA NextKeeps == IndInv /\ [Next]_vars => IndInv'
<1> SUFFICES ASSUME IndInv, [Next]_vars PROVE IndInv'
  OBVIOUS
<1>1. CASE UNCHANGED vars
  <2> USE <1>1 DEF vars, seedVars, seedState, enrichVars, IndInv
  <2>1. Shape' /\ Counters' /\ MutexMatches' /\ SlotMatches' /\ RegistryMatches'
    BY DEF Shape, Counters, MutexMatches, SlotMatches, RegistryMatches
  <2>2. GenerationCounts' /\ CheckedIsNewest' /\ StaleSeedIsCancelled'
    BY DEF GenerationCounts, CheckedIsNewest, StaleSeedIsCancelled, Stale
  <2>3. RequestsAreKept' /\ NoSpuriousYield'
    BY DEF RequestsAreKept, NoSpuriousYield, Blocked
  <2>4. SeedsAreCounted'
    BY CountKept
  <2> QED  BY <2>1, <2>2, <2>3, <2>4
<1>2. ASSUME NEW w \in Writers, RequestYield(w) \/ Write(w) PROVE IndInv'
  <2>1. CASE Return(w) \/ FailWrite(w)
    BY <2>1, LeaveKeeps DEF Return, FailWrite
  <2> QED  BY <1>2, <2>1, RequestYieldKeeps, AcquireWriteKeeps, ClearPendingYieldKeeps,
              CommitKeeps, FinishWriteKeeps DEF Write
<1>3. ASSUME NEW p \in Passes, RunPass(p) PROVE IndInv'
  BY <1>3, SeedStepKeeps, EnrichGateKeeps, EnrichTryKeeps, EnrichRecheckKeeps,
     RegisterRunningKeeps, EndRunKeeps, ReleaseDbKeeps DEF RunPass, RunEnrich
<1>4. CASE ScheduleReseed /\ UNCHANGED enrichVars
  BY <1>4, ScheduleReseedKeeps
<1> QED  BY <1>1, <1>2, <1>3, <1>4 DEF Next

LEMMA InductiveInvariant == Spec => []IndInv
BY InitIndInv, NextKeeps, PTL DEF Spec

(* The state has its types: in particular no more seed passes are spawned  *)
(* than snapshots are committed, and the registered flag belongs to the    *)
(* pass that has the slot.                                                 *)
THEOREM TypeCorrect == Spec => []TypeOK
<1>1. IndInv => TypeOK
  <2> SUFFICES ASSUME IndInv PROVE TypeOK
    OBVIOUS
  <2> USE DEF IndInv
  <2>1. seedGen \in 0 .. MaxCommits
    <3>1. Seeded \subseteq 1 .. MaxCommits
      BY DEF Seeded
    <3>2. Cardinality(Seeded) \in Nat /\ Cardinality(Seeded) <= MaxCommits
      BY <3>1, CountsPasses
    <3> QED  BY <3>2, SeedAssumption DEF SeedsAreCounted, Counters
  <2>2. embedding \in {slot, NoOne}
    BY DEF SlotMatches, Shape
  <2> QED  BY <2>1, <2>2 DEF TypeOK, Shape, Counters, Stages, Places
<1> QED  BY <1>1, InductiveInvariant, PTL

(* No waiting writer is forgotten by a running enrichment: its request set *)
(* a pass's flag, is still the pending marker, or was erased by another    *)
(* writer's clear_pending_yield; and a registered pass leaves no marker.   *)
THEOREM RequestsReachThePass == Spec => []YieldIsHonoured
<1>1. IndInv => YieldIsHonoured
  BY DEF IndInv, RegistryMatches, RequestsAreKept, YieldIsHonoured
<1> QED  BY <1>1, InductiveInvariant, PTL

(* A pending marker has a writer on its way to the mutex. *)
THEOREM MarkersHaveAWriter == Spec => []NoSpuriousYield
<1>1. IndInv => NoSpuriousYield
  BY DEF IndInv
<1> QED  BY <1>1, InductiveInvariant, PTL

(* An enrichment past its second look at the generation has the mutex and  *)
(* works for the last write that succeeded: a commit and the bump that     *)
(* announces it are made under that mutex, and a write that fails between  *)
(* the two has handed over to no other pass.                               *)
THEOREM EnrichmentIsNeverStale == Spec => []EnrichesTheNewest
<1>1. IndInv => EnrichesTheNewest
  <2> SUFFICES ASSUME IndInv, NEW p \in Passes, stage[p] \in {"window", "running"}
               PROVE  db = p /\ \A n \in p + 1 .. snap : stage[n] = "off"
    BY DEF EnrichesTheNewest
  <2> USE DEF IndInv
  <2>1. db = p /\ gen = p /\ enrichOn
    BY DEF MutexMatches, DbStages, CheckedIsNewest, GenerationCounts, EnrichStages
  <2>2. \A n \in p + 1 .. snap : n \in Passes /\ n > p
    BY SeedAssumption, Kinds DEF Counters, Passes, SelfHeal
  <2> QED  BY <2>1, <2>2 DEF GenerationCounts
<1> QED  BY <1>1, InductiveInvariant, PTL

(* Whoever embeds for an old generation has been cancelled or is about to  *)
(* be, although the bump and the cancel are two steps and the flag is      *)
(* registered only after the generation was captured.                      *)
THEOREM StaleEmbeddingIsTold == Spec => []StaleSeedIsCancelled
<1>1. IndInv => StaleSeedIsCancelled
  BY DEF IndInv
<1> QED  BY <1>1, InductiveInvariant, PTL
=============================================================================
