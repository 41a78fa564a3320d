------------------------------ MODULE RepoLock ------------------------------
(***************************************************************************)
(* What a repo coordinator promises its callers, without saying how: a     *)
(* lock with three kinds of permit and a waiting line for writers.         *)
(*                                                                         *)
(*  - any number of readers share the repo;                                *)
(*  - at most one writer or refresher is active;                           *)
(*  - a writer is alone; a refresher may be joined by readers;             *)
(*  - writers and refreshers are served in the order they joined the line, *)
(*    and nobody (reader or non-blocking writer) passes a non-empty line;  *)
(*  - a waiting writer may give up and leave the line.                     *)
(*                                                                         *)
(* The permits are the sets of threads that hold them, where the code      *)
(* keeps only a tag and a count.                                           *)
(***************************************************************************)
EXTENDS Naturals, Sequences

CONSTANT Threads

VARIABLES
    readers,    \* the threads that hold a read permit
    writers,    \* the threads that hold the write permit (at most one)
    refreshers, \* the threads that hold the refresh permit (at most one)
    line        \* the threads waiting for a write or refresh permit, in order

lockVars == <<readers, writers, refreshers, line>>

Free == readers = {} /\ writers = {} /\ refreshers = {}

LInit == Free /\ line = <<>>

AdmitReader(t) ==
    /\ line = <<>>
    /\ writers = {}
    /\ t \notin readers
    /\ readers' = readers \cup {t}
    /\ UNCHANGED <<writers, refreshers, line>>

(* t receives the write or the refresh permit; the rest of the line is q. *)
Grant(t, q) ==
    /\ Free
    /\ line' = q
    /\ \/ writers' = {t} /\ UNCHANGED <<readers, refreshers>>
       \/ refreshers' = {t} /\ UNCHANGED <<readers, writers>>

GrantFree(t) == line = <<>> /\ Grant(t, <<>>)

GrantFirst == line # <<>> /\ Grant(Head(line), Tail(line))

Join(t) == line' = Append(line, t) /\ UNCHANGED <<readers, writers, refreshers>>

Leave(i) ==
    /\ line' = SubSeq(line, 1, i - 1) \o SubSeq(line, i + 1, Len(line))
    /\ UNCHANGED <<readers, writers, refreshers>>

Release(t) ==
    /\ UNCHANGED line
    /\ \/ t \in readers /\ readers' = readers \ {t} /\ UNCHANGED <<writers, refreshers>>
       \/ t \in writers /\ writers' = writers \ {t} /\ UNCHANGED <<readers, refreshers>>
       \/ t \in refreshers /\ refreshers' = refreshers \ {t} /\ UNCHANGED <<readers, writers>>

LNext ==
    \/ \E t \in Threads : AdmitReader(t) \/ GrantFree(t) \/ Join(t) \/ Release(t)
    \/ GrantFirst
    \/ \E i \in 1 .. Len(line) : Leave(i)

LSpec == LInit /\ [][LNext]_lockVars
=============================================================================
