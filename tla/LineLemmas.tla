----------------------------- MODULE LineLemmas -----------------------------
(***************************************************************************)
(* Sequences in which nothing occurs twice: the coordinator's waiting line *)
(* and the stack of guards a handler holds.  What joining, popping and     *)
(* leaving do to them; cited by RepoCoordinatorProofs, StoreAccessProofs   *)
(* and AutoReindexProofs.                                                  *)
(***************************************************************************)
EXTENDS Naturals, Sequences, SequenceTheorems, TLAPS

Tickets(q) == {q[i] : i \in 1 .. Len(q)}

NoTwice(q) == \A i, j \in 1 .. Len(q) : q[i] = q[j] => i = j

-----------------------------------------------------------------------------
(* push_back of a new ticket. *)
LEMMA AppendTicket ==
    ASSUME NEW S, NEW q \in Seq(S), NEW t \in S, NoTwice(q), t \notin Tickets(q)
    PROVE  /\ Append(q, t) \in Seq(S)
           /\ Append(q, t) # <<>>
           /\ Tickets(Append(q, t)) = Tickets(q) \cup {t}
           /\ NoTwice(Append(q, t))
           /\ q # <<>> => Head(Append(q, t)) = Head(q)
           /\ q = <<>> => Head(Append(q, t)) = t
<1> DEFINE r == Append(q, t)
<1>1. /\ r \in Seq(S) /\ r # <<>> /\ Len(r) = Len(q) + 1
      /\ \A i \in 1 .. Len(q) : r[i] = q[i]
      /\ r[Len(q) + 1] = t
  BY AppendProperties
<1>2. Tickets(r) = Tickets(q) \cup {t}
  BY <1>1 DEF Tickets
<1>3. NoTwice(r)
  BY <1>1 DEF NoTwice, Tickets
<1>4. (q # <<>> => Head(r) = Head(q)) /\ (q = <<>> => Head(r) = t)
  BY <1>1
<1> QED  BY <1>1, <1>2, <1>3, <1>4

(* pop_front. *)
LEMMA PopTicket ==
    ASSUME NEW S, NEW q \in Seq(S), q # <<>>, NoTwice(q)
    PROVE  /\ Tail(q) \in Seq(S)
           /\ Head(q) \in Tickets(q)
           /\ Tickets(Tail(q)) = Tickets(q) \ {Head(q)}
           /\ NoTwice(Tail(q))
<1> DEFINE r == Tail(q)
<1>1. /\ r \in Seq(S) /\ Len(q) \in Nat \ {0} /\ Len(r) = Len(q) - 1
      /\ \A i \in 1 .. Len(r) : r[i] = q[i + 1]
      /\ Head(q) = q[1]
  BY HeadTailProperties
<1>2. Head(q) \in Tickets(q)
  BY <1>1 DEF Tickets
<1>3. ASSUME NEW x \in Tickets(r) PROVE x \in Tickets(q) \ {Head(q)}
  BY <1>1, <1>3 DEF Tickets, NoTwice
<1>4. ASSUME NEW x \in Tickets(q), x # Head(q) PROVE x \in Tickets(r)
  <2>1. PICK i \in 1 .. Len(q) : x = q[i]
    BY <1>4 DEF Tickets
  <2>2. i - 1 \in 1 .. Len(r) /\ r[i - 1] = x
    BY <1>1, <1>4, <2>1
  <2> QED  BY <2>2 DEF Tickets
<1>5. NoTwice(r)
  BY <1>1 DEF NoTwice
<1> QED  BY <1>1, <1>2, <1>3, <1>4, <1>5

(* Vec::remove, index by index. *)
LEMMA RemoveIndex ==
    ASSUME NEW S, NEW q \in Seq(S), NEW i \in 1 .. Len(q)
    PROVE  LET r == SubSeq(q, 1, i - 1) \o SubSeq(q, i + 1, Len(q))
           IN  /\ r \in Seq(S) /\ Len(r) = Len(q) - 1
               /\ \A k \in 1 .. Len(q) - 1 : r[k] = IF k < i THEN q[k] ELSE q[k + 1]
<1> DEFINE front == SubSeq(q, 1, i - 1)
           back  == SubSeq(q, i + 1, Len(q))
           r == front \o back
<1>1. i \in 1 .. Len(q) /\ Len(q) \in Nat
  OBVIOUS
<1>2. /\ front \in Seq(S) /\ Len(front) = i - 1
      /\ \A k \in 1 .. i - 1 : front[k] = q[k]
  BY <1>1, SubSeqProperties
<1>3. /\ back \in Seq(S) /\ Len(back) = Len(q) - i
      /\ \A k \in 1 .. Len(q) - i : back[k] = q[k + i]
  BY <1>1, SubSeqProperties
<1> HIDE DEF front, back
<1>4. r \in Seq(S) /\ Len(r) = Len(q) - 1
  <2>1. r \in Seq(S) /\ Len(r) = Len(front) + Len(back)
    BY <1>2, <1>3, ConcatProperties
  <2> QED  BY <1>1, <1>2, <1>3, <2>1
<1>5. ASSUME NEW k \in 1 .. Len(q) - 1
      PROVE  r[k] = IF k < i THEN q[k] ELSE q[k + 1]
  <2>1. r[k] = IF k <= i - 1 THEN front[k] ELSE back[k - (i - 1)]
    BY <1>1, <1>2, <1>3, ConcatProperties
  <2> QED  BY <1>1, <1>2, <1>3, <2>1
<1> QED  BY <1>4, <1>5 DEF r, front, back

(* One ticket leaves, the others keep their order. *)
LEMMA LeaveTicket ==
    ASSUME NEW S, NEW q \in Seq(S), NEW i \in 1 .. Len(q), NoTwice(q)
    PROVE  LET r == SubSeq(q, 1, i - 1) \o SubSeq(q, i + 1, Len(q))
           IN  r \in Seq(S) /\ Tickets(r) = Tickets(q) \ {q[i]} /\ NoTwice(r)
<1> DEFINE r == SubSeq(q, 1, i - 1) \o SubSeq(q, i + 1, Len(q))
<1>1. i \in 1 .. Len(q) /\ Len(q) \in Nat
  OBVIOUS
<1>2. /\ r \in Seq(S) /\ Len(r) = Len(q) - 1
      /\ \A k \in 1 .. Len(q) - 1 : r[k] = IF k < i THEN q[k] ELSE q[k + 1]
  BY RemoveIndex
<1> HIDE DEF r
<1>3. ASSUME NEW x \in Tickets(r) PROVE x \in Tickets(q) \ {q[i]}
  BY <1>1, <1>2, <1>3 DEF Tickets, NoTwice
<1>4. ASSUME NEW x \in Tickets(q), x # q[i] PROVE x \in Tickets(r)
  <2>1. PICK k \in 1 .. Len(q) : x = q[k]
    BY <1>4 DEF Tickets
  <2>2. CASE k < i
    BY <1>1, <1>2, <2>1, <2>2 DEF Tickets
  <2>3. CASE k > i
    <3>1. k - 1 \in 1 .. Len(r) /\ r[k - 1] = x
      BY <1>1, <1>2, <2>1, <2>3
    <3> QED  BY <3>1 DEF Tickets
  <2> QED  BY <1>1, <1>4, <2>1, <2>2, <2>3
<1>5. ASSUME NEW k \in 1 .. Len(r), NEW l \in 1 .. Len(r), r[k] = r[l] PROVE k = l
  <2>1. PICK m \in 1 .. Len(q) : m = (IF k < i THEN k ELSE k + 1) /\ r[k] = q[m]
    BY <1>1, <1>2
  <2>2. PICK n \in 1 .. Len(q) : n = (IF l < i THEN l ELSE l + 1) /\ r[l] = q[n]
    BY <1>1, <1>2
  <2>3. m = n
    BY <1>5, <2>1, <2>2 DEF NoTwice
  <2> QED  BY <1>1, <1>2, <2>1, <2>2, <2>3
<1>6. NoTwice(r)
  BY <1>5 DEF NoTwice
<1> QED  BY <1>2, <1>3, <1>4, <1>6 DEF r

(* The youngest guard of a stack goes: the others stay where they are. *)
LEMMA DropLast ==
    ASSUME NEW S, NEW q \in Seq(S), q # <<>>, NoTwice(q)
    PROVE  LET r == SubSeq(q, 1, Len(q) - 1)
               x == q[Len(q)]
           IN  /\ r \in Seq(S) /\ NoTwice(r) /\ Len(r) = Len(q) - 1
               /\ \A i \in 1 .. Len(r) : r[i] = q[i]
               /\ x \in Tickets(q) /\ Tickets(r) = Tickets(q) \ {x}
<1> DEFINE r == SubSeq(q, 1, Len(q) - 1)
<1>1. Len(q) \in Nat \ {0} /\ \A i \in 1 .. Len(q) : q[i] \in S
  OBVIOUS
<1>2. /\ r \in Seq(S) /\ Len(r) = Len(q) - 1
      /\ \A i \in 1 .. Len(r) : r[i] = q[i]
  <2> DEFINE n == Len(q) - 1
  <2>1. n \in Nat /\ n \in Int /\ 1 \in Int /\ \A i \in 1 .. n : q[i] \in S
    BY <1>1
  <2>2. r = SubSeq(q, 1, n)
    OBVIOUS
  <2> HIDE DEF r, n
  <2>3. /\ SubSeq(q, 1, n) \in Seq(S)
        /\ Len(SubSeq(q, 1, n)) = IF 1 <= n THEN n - 1 + 1 ELSE 0
        /\ \A i \in 1 .. n - 1 + 1 : SubSeq(q, 1, n)[i] = q[1 + i - 1]
    BY <2>1, SubSeqProperties
  <2>4. r \in Seq(S) /\ Len(r) = n
    BY <2>1, <2>2, <2>3
  <2>5. ASSUME NEW i \in 1 .. n PROVE r[i] = q[i]
    <3>1. 1 + i - 1 = i /\ i \in 1 .. n - 1 + 1
      BY <2>1
    <3> QED  BY <2>2, <2>3, <3>1
  <2> QED  BY <2>4, <2>5 DEF n
<1> HIDE DEF r
<1>3. q[Len(q)] \in Tickets(q) /\ NoTwice(r)
  BY <1>1, <1>2 DEF NoTwice, Tickets
<1>4. ASSUME NEW x \in Tickets(r) PROVE x \in Tickets(q) \ {q[Len(q)]}
  BY <1>1, <1>2, <1>4 DEF Tickets, NoTwice
<1>5. ASSUME NEW x \in Tickets(q), x # q[Len(q)] PROVE x \in Tickets(r)
  <2>1. PICK k \in 1 .. Len(q) : x = q[k]
    BY <1>5 DEF Tickets
  <2>2. k \in 1 .. Len(r) /\ r[k] = x
    BY <1>1, <1>2, <1>5, <2>1
  <2> QED  BY <2>2 DEF Tickets
<1> QED  BY <1>2, <1>3, <1>4, <1>5 DEF r
=============================================================================
