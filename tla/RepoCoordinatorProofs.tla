----------------------- MODULE RepoCoordinatorProofs ------------------------
(***************************************************************************)
(* Proofs about RepoCoordinator, for every finite set of threads.          *)
(***************************************************************************)
EXTENDS RepoCoordinator, LineLemmas, FiniteSetTheorems, SequenceTheorems, TLAPS

(***************************************************************************)
(* A thread is outside exactly when it serves no request.                  *)
(***************************************************************************)
CallsMatchPlaces == \A t \in Threads : pc[t] = "out" <=> req[t] = NoRequest

IndInv ==
    /\ TypeOK
    /\ CallsMatchPlaces
    /\ StateMatchesGuards
    /\ NeverPanics
    /\ NoStaleTickets
    /\ IdleHandsOver

-----------------------------------------------------------------------------
(* The pure transitions of CoordinatorState *)

WellFormed(s) == s \in CoordinatorStates

(* Reading and RefreshingWithReaders are the tags with a non-zero count. *)
LEMMA CountedTags ==
    ASSUME NEW s, WellFormed(s)
    PROVE  s.n \in Nat /\ (s.tag \in {"Reading", "RefreshingWithReaders"} <=> s.n # 0)
BY DEF WellFormed, CoordinatorStates

(* try_acquire_read counts one reader in and keeps the refresh, if any. *)
LEMMA TryReadCounts ==
    ASSUME NEW s, WellFormed(s), try_acquire_read(s).res = "Ok"
    PROVE  /\ s.tag # "Writing"
           /\ WellFormed(try_acquire_read(s).state)
           /\ try_acquire_read(s).state.n = s.n + 1
           /\ try_acquire_read(s).state.tag # "Idle"
           /\ try_acquire_read(s).state.tag # "Writing"
           /\ try_acquire_read(s).state.tag \in {"Refreshing", "RefreshingWithReaders"}
                <=> s.tag \in {"Refreshing", "RefreshingWithReaders"}
BY DEF WellFormed, CoordinatorStates, try_acquire_read, Ok, Blocked, Reading,
       RefreshingWithReaders

(* release_read counts one reader out of any state with readers. *)
LEMMA ReleaseReadCounts ==
    ASSUME NEW s, WellFormed(s), s.n # 0
    PROVE  /\ release_read(s).res = "Ok"
           /\ WellFormed(release_read(s).state)
           /\ release_read(s).state.n = s.n - 1
           /\ release_read(s).state.tag # "Writing"
           /\ release_read(s).state.tag \in {"Refreshing", "RefreshingWithReaders"}
                <=> s.tag \in {"Refreshing", "RefreshingWithReaders"}
BY DEF WellFormed, CoordinatorStates, release_read, Ok, Idle, Refreshing, Reading,
       RefreshingWithReaders, InvariantViolation

(* A write or refresh permit is taken from Idle only. *)
LEMMA TryFnFromIdle ==
    ASSUME NEW s, WellFormed(s), NEW kind \in WriteKind, TryFn(kind, s).res = "Ok"
    PROVE  /\ s.tag = "Idle" /\ s.n = 0
           /\ WellFormed(TryFn(kind, s).state)
           /\ TryFn(kind, s).state.n = 0
           /\ kind = "Write" => TryFn(kind, s).state.tag = "Writing"
           /\ kind = "Refresh" => TryFn(kind, s).state.tag = "Refreshing"
BY DEF WellFormed, CoordinatorStates, WriteKind, TryFn, try_acquire_write,
       try_acquire_refresh, FromIdle, Ok, Blocked, Conflict, Writing, Refreshing

LEMMA ReleaseWriteToIdle ==
    ASSUME NEW s, WellFormed(s), s.tag = "Writing"
    PROVE  release_write(s).res = "Ok" /\ release_write(s).state = Idle
BY DEF release_write, Ok

(* The end of a refresh keeps its readers. *)
LEMMA ReleaseRefreshKeepsReaders ==
    ASSUME NEW s, WellFormed(s), s.tag \in {"Refreshing", "RefreshingWithReaders"}
    PROVE  /\ release_refresh(s).res = "Ok"
           /\ WellFormed(release_refresh(s).state)
           /\ release_refresh(s).state.n = s.n
           /\ release_refresh(s).state.tag \in {"Idle", "Reading"}
BY DEF WellFormed, CoordinatorStates, release_refresh, Ok, Idle, Reading

(* An Idle coordinator admits whoever asks first. *)
LEMMA IdleAdmitsWriters ==
    ASSUME NEW s, s.tag = "Idle", NEW kind \in WriteKind
    PROVE  TryFn(kind, s).res = "Ok" /\ try_acquire_read(s).res = "Ok"
BY DEF WriteKind, TryFn, try_acquire_write, try_acquire_refresh, FromIdle, Ok,
       try_acquire_read

-----------------------------------------------------------------------------
(* The queue *)

(* retain: one ticket leaves, the others keep their order. *)
LEMMA RetainTicket ==
    ASSUME NEW q \in Seq(Threads), NEW t \in Tickets(q), NoTwice(q)
    PROVE  /\ Retain(q, t) \in Seq(Threads)
           /\ Tickets(Retain(q, t)) = Tickets(q) \ {t}
           /\ NoTwice(Retain(q, t))
           /\ \E i \in 1 .. Len(q) :
                 Retain(q, t) = SubSeq(q, 1, i - 1) \o SubSeq(q, i + 1, Len(q))
<1> DEFINE i == CHOOSE j \in 1 .. Len(q) : q[j] = t
<1>1. i \in 1 .. Len(q) /\ q[i] = t
  BY DEF Tickets
<1>2. Retain(q, t) = SubSeq(q, 1, i - 1) \o SubSeq(q, i + 1, Len(q))
  BY DEF Retain
<1> HIDE DEF i
<1> QED  BY <1>1, <1>2, LeaveTicket

-----------------------------------------------------------------------------
(* The inductive step, one lemma per kind of critical section *)

LEMMA InitIndInv == Init => IndInv
<1> SUFFICES ASSUME Init PROVE IndInv
  OBVIOUS
<1>1. TypeOK /\ CallsMatchPlaces /\ NeverPanics
  <2>1. Idle \in CoordinatorStates
    BY DEF CoordinatorStates, Idle
  <2>2. TypeOK
    <3>1. write_queue \in Seq(Threads) /\ pc \in [Threads -> Places]
      BY EmptySeq DEF Init, Places
    <3>2. req \in [Threads -> Requests \cup {NoRequest}] /\ panicked \in BOOLEAN
      BY Zenon DEF Init
    <3> QED  BY <2>1, <3>1, <3>2 DEF Init, TypeOK
  <2> QED  BY <2>2 DEF Init, CallsMatchPlaces, NeverPanics
<1>2. \A kind : Holders(kind) = {}
  BY DEF Init, Holders
<1>3. StateMatchesGuards
  <2>1. Cardinality(Holders("Read")) = 0
    BY <1>2, FS_EmptySet
  <2> QED  BY <1>2, <2>1 DEF Init, StateMatchesGuards, Idle
<1>4. NoStaleTickets /\ IdleHandsOver
  BY DEF Init, NoStaleTickets, WaitingWriters, Waiting, IdleHandsOver
<1> QED  BY <1>1, <1>3, <1>4 DEF IndInv

(* What a caller knows of req across its own step. *)
Serves(t, kinds) ==
    /\ req' \in [Threads -> Requests \cup {NoRequest}]
    /\ req'[t] \in Requests /\ req'[t].kind \in kinds
    /\ \A u \in Threads \ {t} : req'[u] = req[u]

LEMMA CallServes ==
    ASSUME TypeOK, NEW t \in Threads, NEW kind \in WriteKind \cup {"Read"},
           NEW timed \in BOOLEAN, Call(t, kind, timed)
    PROVE  Serves(t, {kind})
BY DEF TypeOK, Call, Serves, Requests

LEMMA KeepsServing ==
    ASSUME TypeOK, CallsMatchPlaces, NEW t \in Threads, pc[t] # "out", UNCHANGED req
    PROVE  req[t] \in Requests /\ Serves(t, {req[t].kind})
BY DEF TypeOK, CallsMatchPlaces, Serves

LEMMA HoldersFinite == \A kind : IsFiniteSet(Holders(kind))
BY ThreadsFinite, FS_Subset DEF Holders

LEMMA ReadGrantedStep ==
    ASSUME IndInv, NEW t \in Threads, pc[t] \in {"out", "woken"},
           pc[t] = "woken" => req[t].kind = "Read", Serves(t, {"Read"}), ReadGranted(t)
    PROVE  IndInv'
<1> USE DEF IndInv
<1>1. WellFormed(state)
  BY DEF TypeOK, WellFormed
<1>2. /\ WellFormed(state') /\ state'.n = state.n + 1
      /\ state'.tag # "Idle" /\ state'.tag # "Writing" /\ state.tag # "Writing"
      /\ state'.tag \in {"Refreshing", "RefreshingWithReaders"}
           <=> state.tag \in {"Refreshing", "RefreshingWithReaders"}
  BY <1>1, TryReadCounts DEF ReadGranted, ReadAdmissible
<1>3. TypeOK' /\ CallsMatchPlaces' /\ NeverPanics'
  BY <1>2 DEF TypeOK, CallsMatchPlaces, NeverPanics, ReadGranted, Move, Places, Serves,
              WellFormed, Requests, NoRequest
<1>4. /\ t \notin Holders("Read") /\ Holders("Read")' = Holders("Read") \cup {t}
      /\ Holders("Write")' = Holders("Write") /\ Holders("Refresh")' = Holders("Refresh")
  BY DEF Holders, ReadGranted, Move, Serves, TypeOK
<1>5. StateMatchesGuards'
  <2>1. Cardinality(Holders("Read")') = Cardinality(Holders("Read")) + 1
    BY <1>4, HoldersFinite, FS_AddElement
  <2>2. state'.n = Cardinality(Holders("Read")')
    BY <1>2, <2>1 DEF StateMatchesGuards
  <2> QED  BY <1>2, <1>4, <2>2 DEF StateMatchesGuards, WellFormed
<1>6. NoStaleTickets'
  <2>1. WaitingWriters' = WaitingWriters
    BY DEF WaitingWriters, Waiting, ReadGranted, Move, Serves, TypeOK, WriteKind
  <2> QED  BY <2>1 DEF NoStaleTickets, ReadGranted
<1>7. IdleHandsOver'
  BY <1>2 DEF IdleHandsOver
<1> QED  BY <1>3, <1>5, <1>6, <1>7

LEMMA ReadWaitsStep ==
    ASSUME IndInv, NEW t \in Threads, pc[t] \in {"out", "woken"},
           pc[t] = "woken" => req[t].kind = "Read", Serves(t, {"Read"}), ReadWaits(t)
    PROVE  IndInv'
<1> USE DEF IndInv
<1>1. TypeOK' /\ CallsMatchPlaces' /\ NeverPanics'
  BY DEF TypeOK, CallsMatchPlaces, NeverPanics, ReadWaits, Move, Places, Serves,
         Requests, NoRequest
<1>2. \A kind : Holders(kind)' = Holders(kind)
  BY DEF Holders, ReadWaits, Move, Serves, TypeOK
<1>3. StateMatchesGuards'
  BY <1>2 DEF StateMatchesGuards, ReadWaits
<1>4. WaitingWriters' = WaitingWriters
  BY DEF WaitingWriters, Waiting, ReadWaits, Move, Serves, TypeOK, WriteKind
<1>5. NoStaleTickets'
  BY <1>4 DEF NoStaleTickets, ReadWaits
<1>6. IdleHandsOver'
  <2> SUFFICES ASSUME state.tag = "Idle"
               PROVE  write_queue # <<>> /\ pc'[Head(write_queue)] # "parked"
    BY DEF IdleHandsOver, ReadWaits
  <2>1. write_queue # <<>>
    BY IdleAdmitsWriters DEF ReadWaits, ReadAdmissible, WriteKind
  <2>2. Head(write_queue) \in WaitingWriters
    BY <2>1, PopTicket DEF NoStaleTickets, TypeOK, Tickets, NoTwice
  <2>3. Head(write_queue) # t
    BY <2>2 DEF WaitingWriters, Waiting, WriteKind
  <2>4. pc[Head(write_queue)] # "parked"
    BY <2>2 DEF IdleHandsOver, WaitingWriters
  <2> QED  BY <2>1, <2>2, <2>3, <2>4 DEF ReadWaits, Move, TypeOK, WaitingWriters
<1> QED  BY <1>1, <1>3, <1>5, <1>6

(* q is the queue with t's own ticket in it. *)
LEMMA WriteGrantedStep ==
    ASSUME IndInv, NEW t \in Threads, NEW kind \in WriteKind, NEW q \in Seq(Threads),
           pc[t] \in {"out", "woken"}, Serves(t, {kind}),
           Tickets(q) = WaitingWriters \cup {t}, NoTwice(q),
           WriteGranted(t, kind, q)
    PROVE  IndInv'
<1> USE DEF IndInv
<1>1. WellFormed(state)
  BY DEF TypeOK, WellFormed
<1>2. /\ state.tag = "Idle" /\ state.n = 0 /\ WellFormed(state') /\ state'.n = 0
      /\ kind = "Write" => state'.tag = "Writing"
      /\ kind = "Refresh" => state'.tag = "Refreshing"
  BY <1>1, TryFnFromIdle DEF WriteGranted, WriteAdmissible
<1>3. q # <<>> /\ Head(q) = t /\ write_queue' = Tail(q)
  BY DEF WriteGranted, WriteAdmissible, AtFront
<1>4. write_queue' \in Seq(Threads) /\ Tickets(write_queue') = Tickets(q) \ {t}
      /\ NoTwice(write_queue')
  BY <1>3, PopTicket
<1>5. TypeOK' /\ CallsMatchPlaces' /\ NeverPanics'
  BY <1>2, <1>4 DEF TypeOK, CallsMatchPlaces, NeverPanics, WriteGranted, Move, Places,
                    Serves, WellFormed, Requests, NoRequest, WriteKind
<1>6. /\ Holders("Write") = {} /\ Holders("Refresh") = {}
      /\ Holders("Read")' = Holders("Read")
      /\ kind = "Write" => Holders("Write")' = {t} /\ Holders("Refresh")' = {}
      /\ kind = "Refresh" => Holders("Refresh")' = {t} /\ Holders("Write")' = {}
  <2>1. Holders("Write") = {} /\ Holders("Refresh") = {}
    BY <1>2 DEF StateMatchesGuards
  <2> QED  BY <2>1 DEF Holders, WriteGranted, Move, Serves, TypeOK, WriteKind
<1>7. StateMatchesGuards'
  BY <1>2, <1>6 DEF StateMatchesGuards, WellFormed, WriteKind
<1>8. NoStaleTickets'
  <2>1. WaitingWriters' = WaitingWriters \ {t}
    BY DEF WaitingWriters, Waiting, WriteGranted, Move, Serves, TypeOK
  <2> QED  BY <1>4, <2>1 DEF NoStaleTickets, Tickets, NoTwice
<1>9. IdleHandsOver'
  BY <1>2 DEF IdleHandsOver, WriteKind
<1> QED  BY <1>5, <1>7, <1>8, <1>9

LEMMA WriteWaitsStep ==
    ASSUME IndInv, NEW t \in Threads, NEW kind \in WriteKind, NEW q \in Seq(Threads),
           pc[t] \in {"out", "woken"}, Serves(t, {kind}), q # <<>>,
           Tickets(q) = WaitingWriters \cup {t}, NoTwice(q),
           Head(q) = (IF write_queue = <<>> THEN t ELSE Head(write_queue)),
           WriteWaits(t, kind, q)
    PROVE  IndInv'
<1> USE DEF IndInv
<1>1. TypeOK' /\ CallsMatchPlaces' /\ NeverPanics'
  BY DEF TypeOK, CallsMatchPlaces, NeverPanics, WriteWaits, Move, Places, Serves,
         Requests, NoRequest, WriteKind
<1>2. \A k : Holders(k)' = Holders(k)
  BY DEF Holders, WriteWaits, Move, Serves, TypeOK
<1>3. StateMatchesGuards'
  BY <1>2 DEF StateMatchesGuards, WriteWaits
<1>4. WaitingWriters' = WaitingWriters \cup {t}
  BY DEF WaitingWriters, Waiting, WriteWaits, Move, Serves, TypeOK
<1>5. NoStaleTickets'
  BY <1>4 DEF NoStaleTickets, WriteWaits, Tickets, NoTwice
<1>6. IdleHandsOver'
  <2> SUFFICES ASSUME state.tag = "Idle" PROVE pc'[Head(q)] # "parked"
    BY DEF IdleHandsOver, WriteWaits
  <2>1. Head(q) # t
    BY IdleAdmitsWriters DEF WriteWaits, WriteAdmissible, AtFront
  <2>2. Head(q) \in WaitingWriters
    BY <2>1, PopTicket
  <2>3. pc[Head(q)] # "parked"
    BY <2>1, <2>2 DEF IdleHandsOver, WaitingWriters
  <2> QED  BY <2>1, <2>2, <2>3 DEF WriteWaits, Move, TypeOK, WaitingWriters
<1> QED  BY <1>1, <1>3, <1>5, <1>6

(* A deadline passes: the sleeper wakes; no guard and no ticket is touched. *)
LEMMA ExpireStep ==
    ASSUME IndInv, NEW t \in Threads, Expire(t) PROVE IndInv'
<1> USE DEF IndInv
<1>1. TypeOK' /\ CallsMatchPlaces' /\ NeverPanics'
  BY DEF TypeOK, CallsMatchPlaces, NeverPanics, Expire, Move, Places
<1>2. \A k : Holders(k)' = Holders(k)
  BY DEF Holders, Expire, Move, TypeOK
<1>3. StateMatchesGuards'
  BY <1>2 DEF StateMatchesGuards, Expire
<1>4. WaitingWriters' = WaitingWriters
  BY DEF WaitingWriters, Waiting, Expire, Move, TypeOK
<1>5. NoStaleTickets'
  BY <1>4 DEF NoStaleTickets, Expire
<1>6. IdleHandsOver'
  <2>1. write_queue # <<>> => Head(write_queue) \in Threads
    BY HeadTailProperties DEF TypeOK
  <2> QED  BY <2>1 DEF IdleHandsOver, Expire, Move, TypeOK
<1> QED  BY <1>1, <1>3, <1>5, <1>6

LEMMA ReaderGivesUpStep ==
    ASSUME IndInv, NEW t \in Threads, ReaderGivesUp(t) PROVE IndInv'
<1> USE DEF IndInv
<1>1. TypeOK' /\ CallsMatchPlaces' /\ NeverPanics'
  BY DEF TypeOK, CallsMatchPlaces, NeverPanics, ReaderGivesUp, Move, Return, Places
<1>2. \A k : Holders(k)' = Holders(k)
  BY DEF Holders, ReaderGivesUp, Move, Return, TypeOK
<1>3. StateMatchesGuards'
  BY <1>2 DEF StateMatchesGuards, ReaderGivesUp
<1>4. WaitingWriters' = WaitingWriters
  BY DEF WaitingWriters, Waiting, ReaderGivesUp, Move, Return, TypeOK, WriteKind
<1>5. NoStaleTickets'
  BY <1>4 DEF NoStaleTickets, ReaderGivesUp
<1>6. IdleHandsOver'
  <2>1. write_queue # <<>> => Head(write_queue) \in Threads
    BY HeadTailProperties DEF TypeOK
  <2> QED  BY <2>1 DEF IdleHandsOver, ReaderGivesUp, Move, TypeOK
<1> QED  BY <1>1, <1>3, <1>5, <1>6

LEMMA WriterGivesUpStep ==
    ASSUME IndInv, NEW t \in Threads, WriterGivesUp(t) PROVE IndInv'
<1> USE DEF IndInv
<1>1. t \in Tickets(write_queue) /\ NoTwice(write_queue) /\ write_queue \in Seq(Threads)
  BY DEF WriterGivesUp, NoStaleTickets, Tickets, NoTwice, WaitingWriters, Waiting, TypeOK
<1>2. /\ write_queue' \in Seq(Threads) /\ NoTwice(write_queue')
      /\ Tickets(write_queue') = Tickets(write_queue) \ {t}
  BY <1>1, RetainTicket DEF WriterGivesUp
<1>3. TypeOK' /\ CallsMatchPlaces' /\ NeverPanics'
  BY <1>2 DEF TypeOK, CallsMatchPlaces, NeverPanics, WriterGivesUp, NotifyAll, Return, Places
<1>4. \A k : Holders(k)' = Holders(k)
  BY DEF Holders, WriterGivesUp, NotifyAll, Return, TypeOK
<1>5. StateMatchesGuards'
  BY <1>4 DEF StateMatchesGuards, WriterGivesUp
<1>6. WaitingWriters' = WaitingWriters \ {t}
  BY DEF WaitingWriters, Waiting, WriterGivesUp, NotifyAll, Return, TypeOK
<1>7. NoStaleTickets'
  BY <1>2, <1>6 DEF NoStaleTickets, Tickets, NoTwice
<1>8. IdleHandsOver'
  BY DEF IdleHandsOver, WriterGivesUp, NotifyAll
<1> QED  BY <1>3, <1>5, <1>7, <1>8

(* The release function of the guard that is dropped fits the state: the   *)
(* drop cannot panic.                                                      *)
LEMMA ReleaseFits ==
    ASSUME IndInv, NEW t \in Threads, pc[t] = "holding"
    PROVE  LET r == ReleaseFn(req[t].kind, state)
           IN  /\ req[t].kind \in WriteKind \cup {"Read"}
               /\ r.res = "Ok" /\ WellFormed(r.state)
               /\ req[t].kind = "Read" =>
                    /\ state.n # 0 /\ r.state.n = state.n - 1 /\ r.state.tag # "Writing"
                    /\ r.state.tag \in {"Refreshing", "RefreshingWithReaders"}
                         <=> state.tag \in {"Refreshing", "RefreshingWithReaders"}
               /\ req[t].kind \in WriteKind =>
                    /\ state.tag \in {"Writing", "Refreshing", "RefreshingWithReaders"}
                    /\ r.state.n = state.n /\ r.state.tag \in {"Idle", "Reading"}
<1> USE DEF IndInv
<1>1. WellFormed(state)
  BY DEF TypeOK, WellFormed
<1>2. req[t] \in Requests /\ req[t].kind \in WriteKind \cup {"Read"}
  BY DEF TypeOK, CallsMatchPlaces, Requests
<1>3. CASE req[t].kind = "Read"
  <2>1. t \in Holders("Read")
    BY <1>3 DEF Holders
  <2>2. state.n # 0
    BY <2>1, HoldersFinite, FS_EmptySet DEF StateMatchesGuards
  <2> QED  BY <1>1, <1>3, <2>2, ReleaseReadCounts DEF ReleaseFn, WriteKind
<1>4. CASE req[t].kind = "Write"
  <2>1. state.tag = "Writing" /\ state.n = 0
    BY <1>1, <1>4, CountedTags DEF Holders, StateMatchesGuards
  <2>2. WellFormed(Idle) /\ Idle.n = 0 /\ Idle.tag = "Idle"
    BY DEF WellFormed, Idle, CoordinatorStates
  <2>3. ReleaseFn(req[t].kind, state) = release_write(state)
    BY <1>4 DEF ReleaseFn
  <2> QED  BY <1>1, <1>2, <1>4, <2>1, <2>2, <2>3, ReleaseWriteToIdle
<1>5. CASE req[t].kind = "Refresh"
  <2>1. state.tag \in {"Refreshing", "RefreshingWithReaders"}
    BY <1>5 DEF Holders, StateMatchesGuards
  <2>2. ReleaseFn(req[t].kind, state) = release_refresh(state)
    BY <1>5 DEF ReleaseFn
  <2> QED  BY <1>1, <1>2, <1>5, <2>1, <2>2, ReleaseRefreshKeepsReaders
<1> QED  BY <1>2, <1>3, <1>4, <1>5 DEF WriteKind

LEMMA ReleaseStep ==
    ASSUME IndInv, NEW t \in Threads, ReleaseGuard(t) PROVE IndInv'
<1> USE DEF IndInv
<1> DEFINE r == ReleaseFn(req[t].kind, state)
<1>0. pc[t] = "holding" /\ UNCHANGED write_queue
  BY DEF ReleaseGuard
<1>1. /\ req[t].kind \in WriteKind \cup {"Read"}
      /\ r.res = "Ok" /\ WellFormed(r.state)
      /\ req[t].kind = "Read" =>
           /\ state.n # 0 /\ r.state.n = state.n - 1 /\ r.state.tag # "Writing"
           /\ r.state.tag \in {"Refreshing", "RefreshingWithReaders"}
                <=> state.tag \in {"Refreshing", "RefreshingWithReaders"}
      /\ req[t].kind \in WriteKind =>
           /\ state.tag \in {"Writing", "Refreshing", "RefreshingWithReaders"}
           /\ r.state.n = state.n /\ r.state.tag \in {"Idle", "Reading"}
  BY <1>0, ReleaseFits
<1>2. state' = r.state /\ NotifyAll(t, "out") /\ Return(t) /\ ~panicked'
  <2>1. state' = r.state /\ panicked' = (panicked \/ r.res # "Ok")
        /\ (IF r.res = "Ok" THEN NotifyAll(t, "out") ELSE Move(t, "out")) /\ Return(t)
    BY DEF ReleaseGuard
  <2> QED  BY <1>1, <2>1 DEF NeverPanics
<1> HIDE DEF r
<1>3. TypeOK' /\ CallsMatchPlaces' /\ NeverPanics'
  <2>1. state' \in CoordinatorStates /\ panicked' \in BOOLEAN
    <3>1. panicked' \in BOOLEAN
      BY Zenon DEF ReleaseGuard
    <3> QED  BY <1>1, <1>2, <3>1 DEF WellFormed
  <2> QED  BY <1>0, <1>2, <2>1 DEF TypeOK, CallsMatchPlaces, NeverPanics, NotifyAll, Return,
                                   Places
<1>4. \A k : Holders(k)' = Holders(k) \ {t}
  BY <1>2 DEF Holders, NotifyAll, Return, TypeOK
<1>5. StateMatchesGuards'
  <2>1. CASE req[t].kind = "Read"
    <3>1. t \in Holders("Read") /\ t \notin Holders("Write") /\ t \notin Holders("Refresh")
      BY <1>0, <2>1 DEF Holders
    <3>2. Holders("Write")' = Holders("Write") /\ Holders("Refresh")' = Holders("Refresh")
      BY <1>4, <3>1
    <3>3. Cardinality(Holders("Read")') = Cardinality(Holders("Read")) - 1
      BY <1>4, <3>1, HoldersFinite, FS_RemoveElement
    <3>4. state'.n = Cardinality(Holders("Read")')
      BY <1>1, <1>2, <2>1, <3>3 DEF StateMatchesGuards
    <3>5. state.tag # "Writing"
      BY <1>1, <2>1, CountedTags DEF StateMatchesGuards, TypeOK, WellFormed
    <3> QED  BY <1>1, <1>2, <2>1, <3>2, <3>4, <3>5 DEF StateMatchesGuards, WellFormed
  <2>2. CASE req[t].kind \in WriteKind
    <3>1. t \in Holders("Write") \cup Holders("Refresh") /\ t \notin Holders("Read")
      BY <1>0, <2>2 DEF Holders, WriteKind
    <3>2. Holders("Write") \cup Holders("Refresh") = {t}
      BY <1>1, <2>2, <3>1 DEF StateMatchesGuards
    <3>3. Holders("Write")' = {} /\ Holders("Refresh")' = {}
          /\ Holders("Read")' = Holders("Read")
      BY <1>4, <3>1, <3>2
    <3> QED  BY <1>1, <1>2, <2>2, <3>3 DEF StateMatchesGuards, WellFormed
  <2> QED  BY <1>1, <2>1, <2>2
<1>6. WaitingWriters' = WaitingWriters
  BY <1>0, <1>2 DEF WaitingWriters, Waiting, NotifyAll, Return, TypeOK
<1>7. NoStaleTickets'
  BY <1>0, <1>6 DEF NoStaleTickets
<1>8. IdleHandsOver'
  BY <1>2 DEF IdleHandsOver, NotifyAll
<1> QED  BY <1>3, <1>5, <1>7, <1>8

(* A write request enters with a fresh ticket at the back of the queue. *)
LEMMA EntersQueue ==
    ASSUME IndInv, NEW t \in Threads, pc[t] = "out"
    PROVE  LET q == Append(write_queue, t)
           IN  /\ q \in Seq(Threads) /\ q # <<>> /\ NoTwice(q)
               /\ Tickets(q) = WaitingWriters \cup {t}
               /\ Head(q) = (IF write_queue = <<>> THEN t ELSE Head(write_queue))
<1>1. t \notin WaitingWriters
  BY DEF WaitingWriters, Waiting
<1>2. write_queue \in Seq(Threads) /\ NoTwice(write_queue)
      /\ Tickets(write_queue) = WaitingWriters
  BY DEF IndInv, TypeOK, NoStaleTickets, Tickets, NoTwice
<1> QED  BY <1>1, <1>2, AppendTicket

(* A writer that retries has its ticket in the queue. *)
LEMMA StaysQueued ==
    ASSUME IndInv, NEW t \in Threads, pc[t] = "woken", req[t].kind \in WriteKind
    PROVE  /\ write_queue \in Seq(Threads) /\ write_queue # <<>> /\ NoTwice(write_queue)
           /\ Tickets(write_queue) = WaitingWriters \cup {t}
<1>1. t \in WaitingWriters
  BY DEF WaitingWriters, Waiting
<1>2. write_queue \in Seq(Threads) /\ NoTwice(write_queue)
      /\ Tickets(write_queue) = WaitingWriters
  BY DEF IndInv, TypeOK, NoStaleTickets, Tickets, NoTwice
<1>3. write_queue # <<>>
  BY <1>1, <1>2 DEF Tickets
<1> QED  BY <1>1, <1>2, <1>3

(* try_acquire_write is the queued path with an otherwise empty queue. *)
LEMMA TryWriteIsGrant ==
    ASSUME IndInv, NEW t \in Threads, NEW kind \in WriteKind, TryAcquireWriteKind(t, kind)
    PROVE  /\ write_queue = <<>>
           /\ WriteGranted(t, kind, Append(write_queue, t))
<1>1. write_queue = <<>>
  BY DEF TryAcquireWriteKind
<1>2. Append(write_queue, t) # <<>> /\ Head(Append(write_queue, t)) = t
      /\ Tail(Append(write_queue, t)) = <<>>
  BY <1>1
<1> QED  BY <1>1, <1>2 DEF TryAcquireWriteKind, WriteGranted, WriteAdmissible, AtFront

LEMMA NextIndInv == IndInv /\ [Next]_vars => IndInv'
<1> SUFFICES ASSUME IndInv, [Next]_vars PROVE IndInv'
  OBVIOUS
<1>1. ASSUME NEW t \in Threads, NEW timed \in BOOLEAN, AcquireRead(t, timed)
      PROVE  IndInv'
  <2>1. pc[t] = "out" /\ Serves(t, {"Read"})
    BY <1>1, CallServes DEF AcquireRead, IndInv
  <2> QED  BY <1>1, <2>1, ReadGrantedStep, ReadWaitsStep DEF AcquireRead
<1>2. ASSUME NEW t \in Threads, TryAcquireRead(t) PROVE IndInv'
  <2>1. pc[t] = "out" /\ Serves(t, {"Read"})
    BY <1>2, CallServes DEF TryAcquireRead, IndInv
  <2> QED  BY <1>2, <2>1, ReadGrantedStep DEF TryAcquireRead
<1>3. ASSUME NEW t \in Threads, ReaderRetries(t) PROVE IndInv'
  <2>1. pc[t] = "woken" /\ req[t].kind = "Read" /\ Serves(t, {"Read"})
    BY <1>3, KeepsServing DEF ReaderRetries, IndInv
  <2> QED  BY <1>3, <2>1, ReadGrantedStep, ReadWaitsStep DEF ReaderRetries
<1>4. ASSUME NEW t \in Threads, NEW kind \in WriteKind, NEW timed \in BOOLEAN,
             AcquireWriteKind(t, kind, timed)
      PROVE  IndInv'
  <2> DEFINE q == Append(write_queue, t)
  <2>1. pc[t] = "out" /\ Serves(t, {kind})
    BY <1>4, CallServes DEF AcquireWriteKind, IndInv
  <2>2. /\ q \in Seq(Threads) /\ q # <<>> /\ NoTwice(q)
        /\ Tickets(q) = WaitingWriters \cup {t}
        /\ Head(q) = (IF write_queue = <<>> THEN t ELSE Head(write_queue))
    BY <2>1, EntersQueue
  <2>3. WriteGranted(t, kind, q) \/ WriteWaits(t, kind, q)
    BY <1>4 DEF AcquireWriteKind
  <2> HIDE DEF q
  <2> QED  BY <2>1, <2>2, <2>3, WriteGrantedStep, WriteWaitsStep
<1>5. ASSUME NEW t \in Threads, NEW kind \in WriteKind, TryAcquireWriteKind(t, kind)
      PROVE  IndInv'
  <2> DEFINE q == Append(write_queue, t)
  <2>1. pc[t] = "out" /\ Serves(t, {kind})
    BY <1>5, CallServes DEF TryAcquireWriteKind, IndInv
  <2>2. q \in Seq(Threads) /\ NoTwice(q) /\ Tickets(q) = WaitingWriters \cup {t}
    BY <2>1, EntersQueue
  <2>3. WriteGranted(t, kind, q)
    BY <1>5, TryWriteIsGrant
  <2> HIDE DEF q
  <2> QED  BY <2>1, <2>2, <2>3, WriteGrantedStep
<1>6. ASSUME NEW t \in Threads, WriterRetries(t) PROVE IndInv'
  <2>1. /\ pc[t] = "woken" /\ req[t].kind \in WriteKind /\ Serves(t, {req[t].kind})
        /\ \/ WriteGranted(t, req[t].kind, write_queue)
           \/ WriteWaits(t, req[t].kind, write_queue)
    BY <1>6, KeepsServing DEF WriterRetries, IndInv
  <2>2. /\ write_queue \in Seq(Threads) /\ write_queue # <<>> /\ NoTwice(write_queue)
        /\ Tickets(write_queue) = WaitingWriters \cup {t}
    BY <2>1, StaysQueued
  <2> QED  BY <2>1, <2>2, WriteGrantedStep, WriteWaitsStep
<1>7. ASSUME NEW t \in Threads,
             ReaderGivesUp(t) \/ WriterGivesUp(t) \/ Expire(t) \/ ReleaseGuard(t)
      PROVE  IndInv'
  BY <1>7, ReaderGivesUpStep, WriterGivesUpStep, ExpireStep, ReleaseStep
<1>8. CASE UNCHANGED vars
  BY <1>8 DEF vars, IndInv, TypeOK, CallsMatchPlaces, StateMatchesGuards, NeverPanics,
              NoStaleTickets, IdleHandsOver, Holders, WaitingWriters, Waiting
<1> QED  BY <1>1, <1>2, <1>3, <1>4, <1>5, <1>6, <1>7, <1>8 DEF Next, Enter, Proceed

-----------------------------------------------------------------------------
(* Theorems *)

(***************************************************************************)
(* IndInv holds in every reachable state of the coordinator.               *)
(***************************************************************************)
THEOREM InductiveInvariant == Spec => []IndInv
BY InitIndInv, NextIndInv, PTL DEF Spec

(***************************************************************************)
(* Every variable of the coordinator keeps its type.                       *)
(***************************************************************************)
THEOREM TypeCorrect == Spec => []TypeOK
<1>1. IndInv => TypeOK
  BY DEF IndInv
<1> QED  BY <1>1, InductiveInvariant, PTL

(***************************************************************************)
(* The tag and reader count always describe exactly the live guards, so a  *)
(* write guard is alone and a refresh guard excludes other writers.        *)
(***************************************************************************)
THEOREM GuardsAreCounted == Spec => []StateMatchesGuards
<1>1. IndInv => StateMatchesGuards
  BY DEF IndInv
<1> QED  BY <1>1, InductiveInvariant, PTL

(***************************************************************************)
(* No drop of a guard reaches the panics of release_*_internal.            *)
(***************************************************************************)
THEOREM DropsNeverPanic == Spec => []NeverPanics
<1>1. IndInv => NeverPanics
  BY DEF IndInv
<1> QED  BY <1>1, InductiveInvariant, PTL

(***************************************************************************)
(* The queue holds exactly one ticket for each writer that still waits.    *)
(***************************************************************************)
THEOREM QueueIsExact == Spec => []NoStaleTickets
<1>1. IndInv => NoStaleTickets
  BY DEF IndInv
<1> QED  BY <1>1, InductiveInvariant, PTL

(***************************************************************************)
(* No wake-up is lost when the repo becomes Idle: the first queued writer  *)
(* is awake.                                                               *)
(***************************************************************************)
THEOREM HandOverIsNoticed == Spec => []IdleHandsOver
<1>1. IndInv => IdleHandsOver
  BY DEF IndInv
<1> QED  BY <1>1, InductiveInvariant, PTL

(***************************************************************************)
(* While a thread sleeps in the coordinator, another one holds a guard or  *)
(* is awake: the coordinator by itself cannot put everybody to sleep.      *)
(***************************************************************************)
THEOREM SomebodyIsAwake == Spec => []NoOrphanedSleeper
<1>1. IndInv => NoOrphanedSleeper
  <2> SUFFICES ASSUME IndInv, \E t \in Threads : pc[t] = "parked"
               PROVE  \E t \in Threads : pc[t] \in {"woken", "expired", "holding"}
    BY DEF NoOrphanedSleeper
  <2> USE DEF IndInv
  <2>1. CASE state.tag = "Idle"
    <3>1. write_queue # <<>> /\ pc[Head(write_queue)] # "parked"
      BY <2>1 DEF IdleHandsOver
    <3>2. Head(write_queue) \in WaitingWriters
      BY <3>1, PopTicket DEF NoStaleTickets, TypeOK, Tickets, NoTwice
    <3> QED  BY <3>1, <3>2 DEF WaitingWriters, Waiting
  <2>2. CASE state.n # 0
    <3>1. Holders("Read") # {}
      BY <2>2, FS_EmptySet DEF StateMatchesGuards
    <3> QED  BY <3>1 DEF Holders
  <2>3. CASE state.tag # "Idle" /\ state.n = 0
    <3>1. Holders("Write") \cup Holders("Refresh") # {}
      BY <2>3 DEF StateMatchesGuards, TypeOK, CoordinatorStates
    <3> QED  BY <3>1 DEF Holders
  <2> QED  BY <2>1, <2>2, <2>3
<1> QED  BY <1>1, InductiveInvariant, PTL

-----------------------------------------------------------------------------
(* Refinement: every critical section is a step of RepoLock or none *)

(* The lock's variables under the refinement mapping. *)
SameLock == /\ \A kind : Holders(kind)' = Holders(kind)
            /\ UNCHANGED write_queue

LEMMA SameLockStutters == SameLock => UNCHANGED Lock!lockVars
BY DEF SameLock, Lock!lockVars

LEMMA ReadGrantedRefines ==
    ASSUME IndInv, NEW t \in Threads, pc[t] \in {"out", "woken"}, Serves(t, {"Read"}),
           ReadGranted(t)
    PROVE  Lock!AdmitReader(t)
<1>1. /\ t \notin Holders("Read") /\ Holders("Read")' = Holders("Read") \cup {t}
      /\ Holders("Write")' = Holders("Write") /\ Holders("Refresh")' = Holders("Refresh")
  BY DEF IndInv, Holders, ReadGranted, Move, Serves, TypeOK
<1>2. Holders("Write") = {}
  <2>1. WellFormed(state)
    BY DEF IndInv, TypeOK, StateMatchesGuards, WellFormed
  <2>2. state.tag # "Writing"
    BY <2>1, TryReadCounts DEF ReadGranted, ReadAdmissible
  <2> QED  BY <2>2 DEF IndInv, StateMatchesGuards
<1> QED  BY <1>1, <1>2 DEF Lock!AdmitReader, ReadGranted, ReadAdmissible

LEMMA WriteGrantedRefines ==
    ASSUME IndInv, NEW t \in Threads, NEW kind \in WriteKind, NEW q,
           pc[t] \in {"out", "woken"}, Serves(t, {kind}), WriteGranted(t, kind, q)
    PROVE  Lock!Grant(t, Tail(q))
<1>1. state.tag = "Idle" /\ state.n = 0
  BY TryFnFromIdle DEF IndInv, TypeOK, StateMatchesGuards, WellFormed, WriteGranted,
                       WriteAdmissible
<1>2. Holders("Read") = {} /\ Holders("Write") = {} /\ Holders("Refresh") = {}
  BY <1>1, HoldersFinite, FS_EmptySet DEF IndInv, StateMatchesGuards
<1>3. /\ Holders("Read")' = {}
      /\ kind = "Write" => Holders("Write")' = {t} /\ Holders("Refresh")' = {}
      /\ kind = "Refresh" => Holders("Refresh")' = {t} /\ Holders("Write")' = {}
  BY <1>2 DEF IndInv, Holders, WriteGranted, Move, Serves, TypeOK, WriteKind
<1> QED  BY <1>2, <1>3 DEF Lock!Grant, Lock!Free, WriteGranted, WriteKind

LEMMA GivesUpRefines ==
    ASSUME IndInv, NEW t \in Threads, WriterGivesUp(t)
    PROVE  \E i \in 1 .. Len(write_queue) : Lock!Leave(i)
<1>1. t \in Tickets(write_queue) /\ NoTwice(write_queue) /\ write_queue \in Seq(Threads)
  BY DEF IndInv, WriterGivesUp, NoStaleTickets, Tickets, NoTwice, WaitingWriters, Waiting,
         TypeOK
<1>2. PICK i \in 1 .. Len(write_queue) :
        write_queue' = SubSeq(write_queue, 1, i - 1)
                         \o SubSeq(write_queue, i + 1, Len(write_queue))
  BY <1>1, RetainTicket DEF WriterGivesUp
<1>3. \A k : Holders(k)' = Holders(k)
  BY DEF IndInv, Holders, WriterGivesUp, NotifyAll, Return, TypeOK
<1> QED  BY <1>2, <1>3 DEF Lock!Leave

LEMMA ReleaseRefines ==
    ASSUME IndInv, NEW t \in Threads, ReleaseGuard(t)
    PROVE  Lock!Release(t)
<1>1. pc[t] = "holding" /\ UNCHANGED write_queue /\ Return(t)
      /\ (NotifyAll(t, "out") \/ Move(t, "out"))
  BY DEF ReleaseGuard
<1>2. req[t].kind \in {"Read", "Write", "Refresh"}
  BY <1>1, ReleaseFits DEF WriteKind
<1>3. \A k : Holders(k)' = Holders(k) \ {t}
  BY <1>1 DEF IndInv, Holders, NotifyAll, Move, Return, TypeOK
<1>4. \A k : t \in Holders(k) <=> k = req[t].kind
  BY <1>1 DEF Holders
<1> QED  BY <1>1, <1>2, <1>3, <1>4 DEF Lock!Release

LEMMA StepRefines == IndInv /\ [Next]_vars => [Lock!LNext]_(Lock!lockVars)
<1> SUFFICES ASSUME IndInv, [Next]_vars PROVE Lock!LNext \/ UNCHANGED Lock!lockVars
  OBVIOUS
<1>1. ASSUME NEW t \in Threads, Serves(t, {"Read"}), pc[t] \in {"out", "woken"},
             ReadGranted(t) \/ ReadWaits(t)
      PROVE  Lock!LNext \/ UNCHANGED Lock!lockVars
  <2>1. CASE ReadGranted(t)
    BY <1>1, <2>1, ReadGrantedRefines DEF Lock!LNext
  <2>2. CASE ReadWaits(t)
    <3>1. SameLock
      BY <1>1, <2>2 DEF SameLock, IndInv, Holders, ReadWaits, Move, Serves, TypeOK
    <3> QED  BY <3>1, SameLockStutters
  <2> QED  BY <1>1, <2>1, <2>2
<1>2. ASSUME NEW t \in Threads, NEW kind \in WriteKind, pc[t] = "out", Serves(t, {kind}),
             \/ WriteGranted(t, kind, Append(write_queue, t))
             \/ WriteWaits(t, kind, Append(write_queue, t))
      PROVE  Lock!LNext
  <2> DEFINE q == Append(write_queue, t)
  <2>1. write_queue \in Seq(Threads)
    BY DEF IndInv, TypeOK
  <2>2. CASE WriteGranted(t, kind, q)
    <3>1. Head(q) = t
      BY <2>2 DEF WriteGranted, WriteAdmissible, AtFront
    <3>2. write_queue = <<>>
      <4>1. Head(q) = (IF write_queue = <<>> THEN t ELSE Head(write_queue))
        BY <1>2, EntersQueue
      <4>2. write_queue # <<>> => Head(write_queue) \in WaitingWriters
        BY PopTicket DEF IndInv, NoStaleTickets, TypeOK, Tickets, NoTwice
      <4>3. t \notin WaitingWriters
        BY <1>2 DEF WaitingWriters, Waiting
      <4> QED  BY <3>1, <4>1, <4>2, <4>3
    <3>3. Tail(q) = <<>>
      BY <3>2
    <3>4. Lock!Grant(t, <<>>)
      <4>1. Lock!Grant(t, Tail(q))
        BY <1>2, <2>2, WriteGrantedRefines
      <4> QED  BY <3>3, <4>1 DEF Lock!Grant
    <3> QED  BY <3>2, <3>4 DEF Lock!LNext, Lock!GrantFree
  <2>3. CASE WriteWaits(t, kind, q)
    <3>1. \A k : Holders(k)' = Holders(k)
      BY <1>2, <2>3 DEF IndInv, Holders, WriteWaits, Move, Serves, TypeOK
    <3> QED  BY <2>3, <3>1 DEF Lock!LNext, Lock!Join, WriteWaits
  <2> QED  BY <1>2, <2>2, <2>3
<1>3. ASSUME NEW t \in Threads, WriterRetries(t)
      PROVE  Lock!LNext \/ UNCHANGED Lock!lockVars
  <2>1. /\ pc[t] = "woken" /\ req[t].kind \in WriteKind /\ Serves(t, {req[t].kind})
        /\ \/ WriteGranted(t, req[t].kind, write_queue)
           \/ WriteWaits(t, req[t].kind, write_queue)
    BY <1>3, KeepsServing DEF WriterRetries, IndInv
  <2>2. CASE WriteGranted(t, req[t].kind, write_queue)
    <3>1. write_queue # <<>> /\ Head(write_queue) = t
      BY <2>2 DEF WriteGranted, WriteAdmissible, AtFront
    <3>2. Lock!Grant(t, Tail(write_queue))
      BY <2>1, <2>2, WriteGrantedRefines
    <3> QED  BY <3>1, <3>2 DEF Lock!LNext, Lock!GrantFirst
  <2>3. CASE WriteWaits(t, req[t].kind, write_queue)
    <3>1. SameLock
      BY <2>1, <2>3 DEF SameLock, IndInv, Holders, WriteWaits, Move, Serves, TypeOK
    <3> QED  BY <3>1, SameLockStutters
  <2> QED  BY <2>1, <2>2, <2>3
<1>4. ASSUME NEW t \in Threads, ReaderGivesUp(t) \/ Expire(t)
      PROVE  UNCHANGED Lock!lockVars
  <2>1. SameLock
    BY <1>4 DEF SameLock, IndInv, Holders, ReaderGivesUp, Expire, Move, Return, TypeOK
  <2> QED  BY <2>1, SameLockStutters
<1>5. ASSUME NEW t \in Threads, WriterGivesUp(t) \/ ReleaseGuard(t)
      PROVE  Lock!LNext
  BY <1>5, GivesUpRefines, ReleaseRefines DEF Lock!LNext
<1>6. CASE UNCHANGED vars
  BY <1>6, SameLockStutters DEF vars, SameLock, Holders
<1>7. ASSUME NEW t \in Threads, Enter(t) \/ ReaderRetries(t)
      PROVE  Lock!LNext \/ UNCHANGED Lock!lockVars
  <2>1. ASSUME NEW timed \in BOOLEAN, AcquireRead(t, timed)
        PROVE  Lock!LNext \/ UNCHANGED Lock!lockVars
    BY <1>1, <2>1, CallServes DEF AcquireRead, IndInv
  <2>2. CASE TryAcquireRead(t)
    BY <1>1, <2>2, CallServes DEF TryAcquireRead, IndInv
  <2>3. CASE ReaderRetries(t)
    BY <1>1, <2>3, KeepsServing DEF ReaderRetries, IndInv
  <2>4. ASSUME NEW kind \in WriteKind, NEW timed \in BOOLEAN,
               AcquireWriteKind(t, kind, timed)
        PROVE  Lock!LNext
    BY <1>2, <2>4, CallServes DEF AcquireWriteKind, IndInv
  <2>5. ASSUME NEW kind \in WriteKind, TryAcquireWriteKind(t, kind)
        PROVE  Lock!LNext
    <3>1. pc[t] = "out" /\ Serves(t, {kind})
      BY <2>5, CallServes DEF TryAcquireWriteKind, IndInv
    <3> QED  BY <1>2, <2>5, <3>1, TryWriteIsGrant
  <2> QED  BY <1>7, <2>1, <2>2, <2>3, <2>4, <2>5 DEF Enter
<1> QED  BY <1>3, <1>4, <1>5, <1>6, <1>7 DEF Next, Proceed

(***************************************************************************)
(* The coordinator implements RepoLock: shared readers, a writer alone, a  *)
(* refresh that admits readers, first come first served among writers and  *)
(* nobody past a non-empty line.                                           *)
(***************************************************************************)
THEOREM CoordinatorRefinesLock == Spec => ImplementsRepoLock
<1>1. Init => Lock!LInit
  <2> SUFFICES ASSUME Init PROVE Lock!LInit
    OBVIOUS
  <2>1. \A kind : Holders(kind) = {}
    BY DEF Init, Holders
  <2> QED  BY <2>1 DEF Init, Lock!LInit, Lock!Free
<1> QED  BY <1>1, StepRefines, InductiveInvariant, PTL DEF Spec, ImplementsRepoLock, Lock!LSpec
=============================================================================
