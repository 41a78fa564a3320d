-------------------------- MODULE RepoCoordinator ---------------------------
(***************************************************************************)
(* The repo coordinator of daemon-policy/src/coordinator.rs: a mutex and   *)
(* one condition variable around a CoordinatorState and a FIFO queue of    *)
(* write requests, used by every request thread and background pass of     *)
(* the daemon.                                                             *)
(*                                                                         *)
(* One step is one critical section: what a thread does between taking     *)
(* the mutex and releasing it, either by returning or by waiting on        *)
(* state_changed.  parking_lot's condition variable has no spurious        *)
(* wake-ups, so a parked thread moves only when it is notified or, in a    *)
(* *_timeout call, when its deadline passes.                               *)
(*                                                                         *)
(* Data that is abstracted:                                                *)
(*  - a ticket is the thread that drew it: tickets are unique, compared    *)
(*    only for equality, and a thread has one request at a time (the       *)
(*    order in which the atomic counter hands them out is never looked at);*)
(*  - time: a *_timeout call may find its deadline passed whenever the     *)
(*    code looks at the clock after a wait (a deadline that has passed on  *)
(*    entry has the effect of waiting, expiring and giving up in a row).   *)
(***************************************************************************)
EXTENDS CoordinatorState, Sequences, FiniteSets

CONSTANT Threads    \* the threads of the daemon that use this repo

ASSUME ThreadsFinite == IsFiniteSet(Threads)

WriteKind == {"Write", "Refresh"}

(* A call in progress: what it asks for and whether it has a deadline. *)
Requests == [kind : WriteKind \cup {"Read"}, timed : BOOLEAN]

NoRequest == [kind |-> "None", timed |-> FALSE]

VARIABLES
    state,       \* CoordinatorInner.state
    write_queue, \* CoordinatorInner.write_queue, front first
    pc,          \* where each thread is
    req,         \* the request each thread is serving
    panicked     \* has an InvariantViolation been raised?

vars == <<state, write_queue, pc, req, panicked>>

(***************************************************************************)
(* Where a thread can be:                                                  *)
(*   out      not in the coordinator, no guard                             *)
(*   parked   in state_changed.wait / wait_for                             *)
(*   woken    notified, has not got the mutex back yet                     *)
(*   expired  wait_for timed out, has not got the mutex back yet           *)
(*   holding  has a ReadGuard or WriteGuard                                *)
(***************************************************************************)
Places == {"out", "parked", "woken", "expired", "holding"}

TypeOK ==
    /\ state \in CoordinatorStates
    /\ write_queue \in Seq(Threads)
    /\ pc \in [Threads -> Places]
    /\ req \in [Threads -> Requests \cup {NoRequest}]
    /\ panicked \in BOOLEAN

Init ==
    /\ state = Idle
    /\ write_queue = <<>>
    /\ pc = [t \in Threads |-> "out"]
    /\ req = [t \in Threads |-> NoRequest]
    /\ panicked = FALSE

-----------------------------------------------------------------------------
(* Helpers *)

Move(t, place) == pc' = [pc EXCEPT ![t] = place]

(* Mutant: the notification is forgotten. *)
NotifyNobody(t, place) == Move(t, place)

(* notify_all by t, which ends up at `place`. *)
NotifyAll(t, place) ==
    pc' = [u \in Threads |-> IF u = t THEN place
                             ELSE IF pc[u] = "parked" THEN "woken" ELSE pc[u]]

Call(t, kind, timed) == req' = [req EXCEPT ![t] = [kind |-> kind, timed |-> timed]]

Return(t) == req' = [req EXCEPT ![t] = NoRequest]

(* Mutant: a writer that times out leaves its ticket behind. *)
RetainEverything(q, t) == q

(* write_queue.retain(|(t, _)| *t != ticket): tickets occur once. *)
Retain(q, t) ==
    LET i == CHOOSE j \in 1 .. Len(q) : q[j] = t
    IN  SubSeq(q, 1, i - 1) \o SubSeq(q, i + 1, Len(q))

TryFn(kind, s) ==
    IF kind = "Write" THEN try_acquire_write(s) ELSE try_acquire_refresh(s)

ReleaseFn(kind, s) ==
    CASE kind = "Read"    -> release_read(s)
      [] kind = "Write"   -> release_write(s)
      [] kind = "Refresh" -> release_refresh(s)

(* Mutant: readers pass queued writers. *)
ReadAdmissibleWithWriters == try_acquire_read(state).res = "Ok"

ReadAdmissible == write_queue = <<>> /\ try_acquire_read(state).res = "Ok"

AtFront(t, q) == q # <<>> /\ Head(q) = t

WriteAdmissible(t, kind, q) == AtFront(t, q) /\ TryFn(kind, state).res = "Ok"

-----------------------------------------------------------------------------
(* One pass through the loop of acquire_read and acquire_read_timeout.     *)

ReadGranted(t) ==
    /\ ReadAdmissible
    /\ state' = try_acquire_read(state).state
    /\ Move(t, "holding")
    /\ UNCHANGED <<write_queue, panicked>>

ReadWaits(t) ==
    /\ ~ReadAdmissible
    /\ Move(t, "parked")
    /\ UNCHANGED <<state, write_queue, panicked>>

(* The entry of acquire_read and acquire_read_timeout. *)
AcquireRead(t, timed) ==
    /\ pc[t] = "out"
    /\ Call(t, "Read", timed)
    /\ ReadGranted(t) \/ ReadWaits(t)

(* A None result changes nothing and is not a step. *)
TryAcquireRead(t) ==
    /\ pc[t] = "out"
    /\ Call(t, "Read", FALSE)
    /\ ReadGranted(t)

(* A notified reader has the mutex again and goes round the loop. *)
ReaderRetries(t) ==
    /\ pc[t] = "woken" /\ req[t].kind = "Read"
    /\ UNCHANGED req
    /\ ReadGranted(t) \/ ReadWaits(t)

(* It finds its deadline passed (remaining.is_zero()) and returns Timeout. *)
ReaderGivesUp(t) ==
    /\ req[t].kind = "Read"
    /\ pc[t] = "expired" \/ (pc[t] = "woken" /\ req[t].timed /\ ~ReadAdmissible)
    /\ Move(t, "out") /\ Return(t)
    /\ UNCHANGED <<state, write_queue, panicked>>

-----------------------------------------------------------------------------
(* One pass through the loop of acquire_write_kind and its timeout form,   *)
(* q being the queue with t's ticket in it.  A grant notifies nobody.      *)

WriteGranted(t, kind, q) ==
    /\ WriteAdmissible(t, kind, q)
    /\ state' = TryFn(kind, state).state
    /\ write_queue' = Tail(q)
    /\ Move(t, "holding")
    /\ UNCHANGED panicked

WriteWaits(t, kind, q) ==
    /\ ~WriteAdmissible(t, kind, q)
    /\ write_queue' = q
    /\ Move(t, "parked")
    /\ UNCHANGED <<state, panicked>>

(* The entry of acquire_write, acquire_refresh and their _timeout forms. *)
AcquireWriteKind(t, kind, timed) ==
    /\ pc[t] = "out"
    /\ Call(t, kind, timed)
    /\ LET q == Append(write_queue, t)
       IN  WriteGranted(t, kind, q) \/ WriteWaits(t, kind, q)

(* Mutant: a non-blocking request does not look at the queue. *)
TryAcquireWriteKindBarges(t, kind) ==
    /\ pc[t] = "out"
    /\ TryFn(kind, state).res = "Ok"
    /\ Call(t, kind, FALSE)
    /\ state' = TryFn(kind, state).state
    /\ Move(t, "holding")
    /\ UNCHANGED <<write_queue, panicked>>

(* try_acquire_write and try_acquire_refresh; None is not a step. *)
TryAcquireWriteKind(t, kind) ==
    /\ pc[t] = "out"
    /\ write_queue = <<>>
    /\ TryFn(kind, state).res = "Ok"
    /\ Call(t, kind, FALSE)
    /\ state' = TryFn(kind, state).state
    /\ Move(t, "holding")
    /\ UNCHANGED <<write_queue, panicked>>

WriterRetries(t) ==
    /\ pc[t] = "woken" /\ req[t].kind \in WriteKind
    /\ UNCHANGED req
    /\ \/ WriteGranted(t, req[t].kind, write_queue)
       \/ WriteWaits(t, req[t].kind, write_queue)

(* Mutant: giving up wakes nobody. *)
WriterGivesUpQuietly(t) ==
    /\ req[t].kind \in WriteKind
    /\ \/ pc[t] = "expired"
       \/ /\ pc[t] = "woken" /\ req[t].timed
          /\ ~WriteAdmissible(t, req[t].kind, write_queue)
    /\ write_queue' = Retain(write_queue, t)
    /\ Move(t, "out") /\ Return(t)
    /\ UNCHANGED <<state, panicked>>

(* The writer drops its ticket, wakes everyone and returns Timeout. *)
WriterGivesUp(t) ==
    /\ req[t].kind \in WriteKind
    /\ \/ pc[t] = "expired"
       \/ /\ pc[t] = "woken" /\ req[t].timed
          /\ ~WriteAdmissible(t, req[t].kind, write_queue)
    /\ write_queue' = Retain(write_queue, t)
    /\ NotifyAll(t, "out") /\ Return(t)
    /\ UNCHANGED <<state, panicked>>

-----------------------------------------------------------------------------
(* wait_for runs into the deadline before any notification arrives. *)
Expire(t) ==
    /\ pc[t] = "parked" /\ req[t].timed
    /\ Move(t, "expired")
    /\ UNCHANGED <<state, write_queue, req, panicked>>

(* Drop of a ReadGuard or WriteGuard.  A violated invariant panics instead *)
(* of notifying.                                                           *)
ReleaseGuard(t) ==
    /\ pc[t] = "holding"
    /\ LET r == ReleaseFn(req[t].kind, state)
       IN  /\ state' = r.state
           /\ panicked' = (panicked \/ r.res # "Ok")
           /\ IF r.res = "Ok" THEN NotifyAll(t, "out") ELSE Move(t, "out")
    /\ Return(t)
    /\ UNCHANGED write_queue

Enter(t) ==
    \/ \E timed \in BOOLEAN : AcquireRead(t, timed)
    \/ TryAcquireRead(t)
    \/ \E kind \in WriteKind, timed \in BOOLEAN : AcquireWriteKind(t, kind, timed)
    \/ \E kind \in WriteKind : TryAcquireWriteKind(t, kind)

(* What a thread inside the coordinator does once it gets the mutex. *)
Proceed(t) ==
    ReaderRetries(t) \/ ReaderGivesUp(t) \/ WriterRetries(t) \/ WriterGivesUp(t)

Next == \E t \in Threads : Enter(t) \/ Proceed(t) \/ Expire(t) \/ ReleaseGuard(t)

Spec == Init /\ [][Next]_vars

(***************************************************************************)
(* A runnable thread gets the mutex in the end (parking_lot's mutex is     *)
(* eventually fair) and a handler drops its guard in the end.  Nothing     *)
(* forces a thread to call, and no deadline has to pass.                   *)
(***************************************************************************)
Fairness == \A t \in Threads : WF_vars(Proceed(t)) /\ WF_vars(ReleaseGuard(t))

FairSpec == Spec /\ Fairness

-----------------------------------------------------------------------------
(* Who holds what, and who waits: the threads behind the tag and the count. *)

Holders(kind) == {t \in Threads : pc[t] = "holding" /\ req[t].kind = kind}

Waiting(t) == pc[t] \in {"parked", "woken", "expired"}

WaitingWriters == {t \in Threads : Waiting(t) /\ req[t].kind \in WriteKind}

(***************************************************************************)
(* The tag and the count of CoordinatorState always describe exactly the   *)
(* guards that exist, across refreshes that start before and end after     *)
(* their readers (state.rs: RefreshingWithReaders, release_refresh).  It   *)
(* implies that a writer is alone and that a refresh excludes writers.     *)
(***************************************************************************)
StateMatchesGuards ==
    /\ state.n = Cardinality(Holders("Read"))
    /\ Holders("Write") # {} => state.tag = "Writing"
    /\ Holders("Refresh") # {} => state.tag \in {"Refreshing", "RefreshingWithReaders"}
    /\ state.tag \in {"Writing", "Refreshing", "RefreshingWithReaders"}
          => \E t \in Threads : Holders("Write") \cup Holders("Refresh") = {t}

(***************************************************************************)
(* No guard is ever dropped in a state that cannot release it: the panics  *)
(* of release_read_internal and release_write_internal are unreachable.    *)
(***************************************************************************)
NeverPanics == ~panicked

(***************************************************************************)
(* The queue holds the ticket of every writer that still waits, once, and  *)
(* no ticket of a writer that was served or timed out: a stale ticket at   *)
(* the front would block the repo for good (acquire_write_kind_timeout).   *)
(***************************************************************************)
NoStaleTickets ==
    /\ {write_queue[i] : i \in 1 .. Len(write_queue)} = WaitingWriters
    /\ \A i, j \in 1 .. Len(write_queue) : write_queue[i] = write_queue[j] => i = j

(***************************************************************************)
(* Nobody sleeps with nobody left to wake it: while a thread is parked,    *)
(* some thread holds a guard (its drop notifies), or is already runnable   *)
(* and will take a guard or notify.                                        *)
(***************************************************************************)
NoOrphanedSleeper ==
    (\E t \in Threads : pc[t] = "parked")
        => \E t \in Threads : pc[t] \in {"woken", "expired", "holding"}

(***************************************************************************)
(* No lost wake-up at a hand-over: if the repo is Idle and somebody still  *)
(* sleeps, then a write request is queued and its thread, the first in     *)
(* line, has been notified and will take the permit or leave the line.     *)
(***************************************************************************)
IdleHandsOver ==
    state.tag = "Idle" /\ (\E t \in Threads : pc[t] = "parked")
        => write_queue # <<>> /\ pc[Head(write_queue)] # "parked"

(***************************************************************************)
(* The permits the guards stand for.  The coordinator implements RepoLock: *)
(* readers share, writers are alone, refreshes admit readers, the line is  *)
(* served in order and nobody passes it.                                   *)
(***************************************************************************)
Lock == INSTANCE RepoLock WITH
            readers    <- Holders("Read"),
            writers    <- Holders("Write"),
            refreshers <- Holders("Refresh"),
            line       <- write_queue

ImplementsRepoLock == Lock!LSpec

(***************************************************************************)
(* Writers do not starve: a queued writer or refresher is served or, if it *)
(* has a deadline, gives up, however many readers keep arriving.           *)
(***************************************************************************)
WritersAreServed ==
    \A t \in Threads : t \in WaitingWriters ~> t \notin WaitingWriters

(***************************************************************************)
(* Readers yield to writers and may wait as long as writers keep coming;   *)
(* once no write is queued or active any more, every reader is admitted.   *)
(***************************************************************************)
ReadersAreServed ==
    \A t \in Threads :
        <>[](write_queue = <<>> /\ state.tag # "Writing")
            => ((Waiting(t) /\ req[t].kind = "Read") ~> ~Waiting(t))

(***************************************************************************)
(* state.rs says of a refresh: "acquire_read ... W-B: ADMITTED, not        *)
(* blocked".  Then a reader would sleep only while a write is queued or    *)
(* active.                                                                 *)
(***************************************************************************)
RefreshDoesNotBlockReaders ==
    \A t \in Threads :
        pc[t] = "parked" /\ req[t].kind = "Read"
            => write_queue # <<>> \/ state.tag = "Writing"
=============================================================================
