----------------------------- MODULE UnitProofs -----------------------------
(***************************************************************************)
(* What the proofs about units rest on: what the queries of the claim      *)
(* board return and how it changes, and what the operations of the swap    *)
(* lock do to its owner and its queue, for every board and set of tasks.   *)
(***************************************************************************)
EXTENDS ClaimBoard, SwapLock, SequenceTheorems, WellFoundedInduction, TLAPS

-----------------------------------------------------------------------------
(* The claim board.                                                        *)

\* A board in order: claims under ids that were granted.
BoardOK ==
    /\ nextId \in Nat \ {0}
    /\ DOMAIN board \subseteq 1..(nextId - 1)
    /\ \A i \in DOMAIN board : board[i] \in Claim

\* Init leaves the board in order.
LEMMA EmptyBoard == BoardInit => BoardOK
BY DEF BoardInit, BoardOK

\* A grant adds a claim under the next id; what else is left has not changed.
LEMMA GrantKeepsBoard ==
    ASSUME BoardOK, NEW c \in Claim, Grant(c)
    PROVE  /\ BoardOK' /\ nextId' = nextId + 1
           /\ \A i \in DOMAIN board' :
                 \/ i = nextId
                 \/ i \in DOMAIN board /\ i < nextId /\ board'[i] = board[i]
<1> DEFINE over == {i \in DOMAIN board : /\ board[i].unit = c.unit
                                         /\ Overlap(board[i].model, c.model)}
<1>1. /\ board' = [i \in (DOMAIN board \ over) \union {nextId} |->
                      IF i = nextId THEN c ELSE board[i]]
      /\ nextId' = nextId + 1
  BY DEF Grant
<1> HIDE DEF over
<1>2. /\ nextId \in Nat \ {0} /\ DOMAIN board \subseteq 1..(nextId - 1)
      /\ \A i \in DOMAIN board : board[i] \in Claim
  BY DEF BoardOK
<1>3. DOMAIN board' = (DOMAIN board \ over) \union {nextId}
  BY <1>1
<1>4. \A i \in DOMAIN board' : board'[i] = IF i = nextId THEN c ELSE board[i]
  BY <1>1
<1>5. \A i \in DOMAIN board' : i = nextId \/ (i \in DOMAIN board /\ i < nextId)
  BY <1>2, <1>3
<1>6. nextId' \in Nat \ {0} /\ DOMAIN board' \subseteq 1..(nextId' - 1)
  BY <1>1, <1>2, <1>5
<1>7. \A i \in DOMAIN board' : board'[i] \in Claim
  BY <1>2, <1>4, <1>5
<1>8. QED BY <1>1, <1>4, <1>5, <1>6, <1>7 DEF BoardOK

\* Claims end; what is left has not changed.
LEMMA EndKeepsBoard ==
    ASSUME BoardOK, NEW S, End(S)
    PROVE  /\ BoardOK' /\ nextId' = nextId
           /\ \A i \in DOMAIN board' :
                 i \in DOMAIN board /\ i \notin S /\ board'[i] = board[i]
<1>1. board' = [i \in DOMAIN board \ S |-> board[i]] /\ nextId' = nextId
  BY DEF End
<1>2. DOMAIN board' = DOMAIN board \ S /\ \A i \in DOMAIN board' : board'[i] = board[i]
  BY <1>1
<1>3. QED BY <1>1, <1>2 DEF BoardOK

\* No two live claims of a unit cover the same model: a grant replaces what it overlaps.
Disjoint ==
    \A i, j \in DOMAIN board :
        i # j /\ board[i].unit = board[j].unit => ~Overlap(board[i].model, board[j].model)

\* A claim that is granted replaces what it overlaps.
LEMMA GrantDisjoint ==
    ASSUME BoardOK, Disjoint, NEW c \in Claim, Grant(c)
    PROVE  Disjoint'
<1> DEFINE over == {i \in DOMAIN board : /\ board[i].unit = c.unit
                                         /\ Overlap(board[i].model, c.model)}
<1>1. /\ board' = [i \in (DOMAIN board \ over) \union {nextId} |->
                      IF i = nextId THEN c ELSE board[i]]
  BY DEF Grant
<1>2. nextId \notin DOMAIN board
  BY DEF BoardOK
<1>3. SUFFICES ASSUME NEW i \in DOMAIN board', NEW j \in DOMAIN board', i # j,
                      board'[i].unit = board'[j].unit
               PROVE  ~Overlap(board'[i].model, board'[j].model)
  BY DEF Disjoint
<1>4. \A k \in DOMAIN board' :
         \/ k = nextId /\ board'[k] = c
         \/ k \in DOMAIN board /\ k \notin over /\ k # nextId /\ board'[k] = board[k]
  BY <1>1, <1>2
<1>5. \A m1, m2 : Overlap(m1, m2) <=> Overlap(m2, m1)
  BY DEF Overlap
<1>6. CASE i = nextId
  <2>1. j \in DOMAIN board /\ j \notin over /\ board'[j] = board[j] /\ board'[i] = c
    BY <1>2, <1>3, <1>4, <1>6
  <2>2. QED BY <1>3, <1>5, <2>1
<1>7. CASE j = nextId
  <2>1. i \in DOMAIN board /\ i \notin over /\ board'[i] = board[i] /\ board'[j] = c
    BY <1>2, <1>3, <1>4, <1>7
  <2>2. QED BY <1>3, <2>1
<1>8. CASE i # nextId /\ j # nextId
  <2>1. /\ i \in DOMAIN board /\ board'[i] = board[i]
        /\ j \in DOMAIN board /\ board'[j] = board[j]
    BY <1>4, <1>8
  <2>2. QED BY <1>3, <2>1 DEF Disjoint
<1>9. QED BY <1>6, <1>7, <1>8

\* Claims that end leave the others apart.
LEMMA EndDisjoint ==
    ASSUME BoardOK, Disjoint, NEW S, End(S)
    PROVE  Disjoint'
<1>1. \A i \in DOMAIN board' : i \in DOMAIN board /\ board'[i] = board[i]
  BY EndKeepsBoard
<1>2. QED BY <1>1 DEF Disjoint

\* An extension re-states one claim.
LEMMA ExtendKeepsBoard ==
    ASSUME BoardOK, NEW i \in DOMAIN board, NEW c \in Claim, Extend(i, c)
    PROVE  /\ BoardOK' /\ nextId' = nextId /\ DOMAIN board' = DOMAIN board
           /\ board'[i] = c
           /\ \A j \in DOMAIN board : j # i => board'[j] = board[j]
<1>1. board' = [board EXCEPT ![i] = c] /\ nextId' = nextId
  BY DEF Extend
<1>2. /\ DOMAIN board' = DOMAIN board /\ board'[i] = c
      /\ \A j \in DOMAIN board : j # i => board'[j] = board[j]
  BY <1>1
<1>3. QED BY <1>1, <1>2 DEF BoardOK

\* A claim that is re-stated covers no more than it did.
LEMMA ExtendDisjoint ==
    ASSUME BoardOK, Disjoint, NEW i \in DOMAIN board, NEW c \in Claim, Extend(i, c)
    PROVE  Disjoint'
<1>1. /\ DOMAIN board' = DOMAIN board /\ board'[i] = c
      /\ \A j \in DOMAIN board : j # i => board'[j] = board[j]
  BY ExtendKeepsBoard
<1>2. c.unit = board[i].unit /\ board[i].model \in {c.model, Whole}
  BY DEF Extend
<1>3. \A m : Overlap(c.model, m) => Overlap(board[i].model, m)
  BY <1>2 DEF Overlap
<1>4. \A m : Overlap(m, c.model) => Overlap(m, board[i].model)
  BY <1>2 DEF Overlap
<1>5. QED BY <1>1, <1>2, <1>3, <1>4 DEF Disjoint

\* A set of ids that is not empty has a first member.
LEMMA FirstIsMember ==
    ASSUME NEW S, S \subseteq Nat \ {0}
    PROVE  /\ S = {} => First(S) = 0
           /\ S # {} => First(S) \in S /\ \A i \in S : First(S) <= i
<1>1. ASSUME S # {} PROVE First(S) \in S /\ \A i \in S : First(S) <= i
  <2>1. PICK x \in S : \A y \in S : ~ (<<y, x>> \in OpToRel(<, Nat))
    BY <1>1, NatLessThanWellFounded, WFMin
  <2>2. \A y \in S : <<y, x>> \in Nat \X Nat /\ <<y, x>>[1] = y /\ <<y, x>>[2] = x
    OBVIOUS
  <2>3. \A y \in S : ~(y < x)
    BY <2>1, <2>2 DEF OpToRel
  <2>4. \A y \in S : x <= y
    BY <2>3
  <2>5. Min(S) \in S /\ \A y \in S : Min(S) <= y
    BY <2>4 DEF Min
  <2>6. QED BY <1>1, <2>5 DEF First
<1>2. QED BY <1>1 DEF First

\* What holds of zero and goes on to the next number holds of all.
LEMMA AllNumbers ==
    ASSUME NEW N, 0 \in N, \A n \in Nat : n \in N => n + 1 \in N
    PROVE  Nat \subseteq N
<1> DEFINE R == {n \in Nat \ {0} : n \notin N}
<1>1. SUFFICES ASSUME R # {} PROVE FALSE
  OBVIOUS
<1>2. First(R) \in R /\ \A n \in R : First(R) <= n
  BY <1>1, FirstIsMember
<1> DEFINE k == First(R)
<1>3. k \in Nat \ {0} /\ k \notin N /\ \A n \in R : k <= n
  BY <1>2
<1> HIDE DEF k
<1>4. k - 1 \in Nat /\ k - 1 \in N
  BY <1>3
<1>5. QED BY <1>3, <1>4

\* The ids of a board are positive: 0 stands for none of them.
LEMMA IdsArePositive ==
    ASSUME BoardOK, NEW u
    PROVE  OnUnit(board, u) \subseteq Nat \ {0}
BY DEF BoardOK, OnUnit

\* Of claims that are apart the one active_for returns is the only one on the model.
LEMMA OneClaimCovers ==
    ASSUME BoardOK, Disjoint, NEW u, NEW m, m # Whole,
           NEW k, k = ActiveFor(board, u, m)
    PROVE  /\ k = 0 => Overlapping(board, u, m) = {}
           /\ k # 0 => Overlapping(board, u, m) = {k}
<1> DEFINE W == OnScope(board, u, Whole)
           M == OnScope(board, u, m)
<1>1. /\ W \subseteq Nat \ {0} /\ M \subseteq Nat \ {0}
  BY IdsArePositive DEF OnScope
<1>2. Overlapping(board, u, m) = W \union M
  BY DEF Overlapping, Overlap, OnScope
<1>3. k = IF W # {} THEN First(W) ELSE First(M)
  BY DEF ActiveFor
<1>4. \A i, j \in W \union M : i = j \/ (i \in M /\ j \in M)
  BY DEF Disjoint, Overlap, OnScope, OnUnit
<1>5. \A i, j \in M : i = j
  BY DEF Disjoint, Overlap, OnScope, OnUnit
<1> HIDE DEF W, M
<1>6. CASE W # {}
  <2>1. First(W) \in W
    BY <1>1, <1>6, FirstIsMember
  <2>2. k \in W /\ k # 0
    BY <1>1, <1>3, <1>6, <2>1
  <2>3. W \union M = {k}
    BY <1>4, <1>5, <2>2
  <2>4. QED BY <1>2, <2>2, <2>3
<1>7. CASE W = {} /\ M # {}
  <2>1. First(M) \in M
    BY <1>1, <1>7, FirstIsMember
  <2>2. k \in M /\ k # 0
    BY <1>1, <1>3, <1>7, <2>1
  <2>3. W \union M = {k}
    BY <1>5, <1>7, <2>2
  <2>4. QED BY <1>2, <2>2, <2>3
<1>8. CASE W = {} /\ M = {}
  <2>1. k = 0
    BY <1>1, <1>3, <1>8, FirstIsMember
  <2>2. QED BY <1>2, <1>8, <2>1
<1>9. QED BY <1>6, <1>7, <1>8

\* The unit-wide gate stops at the first claim on the unit that is not preemptible
\* (LeaseManager.blocks_unleased without a model).
LEMMA GateStopsAtFirst ==
    ASSUME BoardOK, NEW u, NEW k, k = BlocksUnleased(board, u, Whole)
    PROVE  /\ k = 0 => \A i \in OnUnit(board, u) : board[i].preemptible
           /\ k # 0 => /\ k \in OnUnit(board, u) /\ ~board[k].preemptible
                       /\ \A i \in OnUnit(board, u) : ~board[i].preemptible => k <= i
<1> DEFINE N == {j \in OnUnit(board, u) : ~board[j].preemptible}
<1>1. N \subseteq Nat \ {0}
  BY IdsArePositive
<1>2. k = IF First(N) # 0 /\ ~board[First(N)].preemptible THEN First(N) ELSE 0
  BY DEF BlocksUnleased
<1> HIDE DEF N
<1>3. CASE N = {}
  <2>1. k = 0
    BY <1>1, <1>2, <1>3, FirstIsMember
  <2>2. QED BY <1>3, <2>1 DEF N
<1>4. CASE N # {}
  <2>1. First(N) \in N /\ \A i \in N : First(N) <= i
    BY <1>1, <1>4, FirstIsMember
  <2>2. k = First(N) /\ k # 0
    BY <1>1, <1>2, <2>1 DEF N
  <2>3. QED BY <2>1, <2>2 DEF N
<1>5. QED BY <1>3, <1>4

-----------------------------------------------------------------------------
(* The swap lock.                                                          *)

\* A lock in order: well-formed, its owner does not queue, and whoever waits under a
\* timeout is in the queue.
InOrder(l, T) ==
    /\ l \in SwapLocks(T)
    /\ \A t \in T : t \in l.timed => Waits(l, t)
    /\ \A t \in T : l.owner = t => ~Waits(l, t)

\* The fields of a lock, and a lock from its fields.
LEMMA LockFields ==
    ASSUME NEW T, NEW l
    PROVE  l \in SwapLocks(T) <=>
              /\ l = [owner |-> l.owner, queue |-> l.queue, timed |-> l.timed]
              /\ l.owner \in T \union {NoTask} /\ l.queue \in Seq(T)
              /\ l.timed \subseteq T /\ IsInjective(l.queue)
BY DEF SwapLocks

\* Nobody owns a new lock, or waits for it.
LEMMA UnlockedInOrder ==
    ASSUME NEW T, NoTask \notin T
    PROVE  /\ InOrder(Unlocked, T)
           /\ \A t \in T : Unlocked.owner # t /\ ~Waits(Unlocked, t)
BY DEF Unlocked, InOrder, SwapLocks, Waits, IsInjective

\* x is in the sequence s.
IsIn(x, s) == \E i \in DOMAIN s : s[i] = x

\* A sequence without its first t, where t occurs once, has everybody else in it.
LEMMA RemovedOnce ==
    ASSUME NEW T, NEW q \in Seq(T), IsInjective(q), NEW t
    PROVE  /\ RemoveFirst(q, t) \in Seq(T)
           /\ IsInjective(RemoveFirst(q, t))
           /\ \A x : IsIn(x, RemoveFirst(q, t)) <=> x # t /\ IsIn(x, q)
<1> DEFINE r == RemoveFirst(q, t)
<1>0. DOMAIN q = 1..Len(q) /\ Len(q) \in Nat /\ \A i \in 1..Len(q) : q[i] \in T
  BY LenProperties, ElementOfSeq
<1>1. CASE \E i \in 1..Len(q) : q[i] = t
  <2> PICK k \in 1..Len(q) : q[k] = t
    BY <1>1
  <2>1. {i \in 1..Len(q) : q[i] = t} = {k}
    BY <1>0 DEF IsInjective
  <2>2. Min({k}) = k
    BY DEF Min
  <2>3. r = SubSeq(q, 1, k - 1) \o SubSeq(q, k + 1, Len(q))
    BY <1>1, <2>1, <2>2 DEF RemoveFirst, SelectInSeq, RemoveAt
  <2> DEFINE a == SubSeq(q, 1, k - 1)
             b == SubSeq(q, k + 1, Len(q))
  <2>4. /\ a \in Seq(T) /\ Len(a) = k - 1
        /\ \A i \in 1..(k - 1) : a[i] = q[i]
    <3>1. \A i \in 1..(k - 1) : q[i] \in T
      BY <1>0
    <3>2. 1 \in Int /\ k - 1 \in Int
      BY <1>0
    <3>3. /\ a \in Seq(T) /\ Len(a) = IF 1 <= k - 1 THEN k - 1 - 1 + 1 ELSE 0
          /\ \A i \in 1..(k - 1 - 1 + 1) : a[i] = q[1 + i - 1]
      BY <3>1, <3>2, SubSeqProperties
    <3> HIDE DEF a
    <3>4. QED BY <1>0, <3>3
  <2>5. /\ b \in Seq(T) /\ Len(b) = Len(q) - k
        /\ \A i \in 1..(Len(q) - k) : b[i] = q[k + i]
    <3>1. \A i \in (k + 1)..Len(q) : q[i] \in T
      BY <1>0
    <3>2. k + 1 \in Int /\ Len(q) \in Int
      BY <1>0
    <3>3. /\ b \in Seq(T) /\ Len(b) = IF k + 1 <= Len(q) THEN Len(q) - (k + 1) + 1 ELSE 0
          /\ \A i \in 1..(Len(q) - (k + 1) + 1) : b[i] = q[k + 1 + i - 1]
      BY <3>1, <3>2, SubSeqProperties
    <3> HIDE DEF b
    <3>4. Len(b) = Len(q) - k
      <4>1. k \in Int /\ Len(q) \in Int /\ k <= Len(q)
        BY <1>0
      <4>2. Len(b) = IF k + 1 <= Len(q) THEN Len(q) - (k + 1) + 1 ELSE 0
        BY <3>3
      <4>3. QED BY <4>1, <4>2
    <3>5. ASSUME NEW i \in 1..(Len(q) - k)
          PROVE  b[i] = q[k + i]
      <4>1. i \in 1..(Len(q) - (k + 1) + 1) /\ k + 1 + i - 1 = k + i
        BY <1>0
      <4>2. b[i] = q[k + 1 + i - 1]
        BY <3>3, <4>1
      <4>3. QED BY <4>1, <4>2
    <3>6. QED BY <3>3, <3>4, <3>5
  <2>6. r = a \o b
    BY <2>3
  <2> HIDE DEF a, b, r
  <2>7. /\ r \in Seq(T) /\ Len(r) = Len(q) - 1
        /\ \A i \in 1..(Len(q) - 1) : r[i] = IF i < k THEN q[i] ELSE q[i + 1]
    <3>1. /\ r \in Seq(T) /\ Len(r) = Len(a) + Len(b)
          /\ \A i \in 1..(Len(a) + Len(b)) :
                r[i] = IF i <= Len(a) THEN a[i] ELSE b[i - Len(a)]
      BY <2>4, <2>5, <2>6, ConcatProperties
    <3>2. Len(r) = Len(q) - 1
      BY <1>0, <2>4, <2>5, <3>1
    <3>3. ASSUME NEW i \in 1..(Len(q) - 1)
          PROVE  r[i] = IF i < k THEN q[i] ELSE q[i + 1]
      <4>1. i \in 1..(Len(a) + Len(b)) /\ Len(a) = k - 1
        BY <1>0, <2>4, <2>5
      <4>2. r[i] = IF i <= k - 1 THEN a[i] ELSE b[i - (k - 1)]
        BY <3>1, <4>1
      <4>3. CASE i < k
        <5>1. i <= k - 1 /\ i \in 1..(k - 1)
          BY <1>0, <4>3
        <5>2. r[i] = a[i] /\ a[i] = q[i]
          BY <2>4, <4>2, <5>1
        <5>3. QED BY <4>3, <5>2
      <4>4. CASE ~(i < k)
        <5>1. /\ ~(i <= k - 1) /\ i - (k - 1) \in 1..(Len(q) - k)
              /\ k + (i - (k - 1)) = i + 1
          BY <1>0, <4>4
        <5>2. b[i - (k - 1)] = q[k + (i - (k - 1))]
          BY <2>5, <5>1
        <5>3. QED BY <4>2, <4>4, <5>1, <5>2
      <4>5. QED BY <4>3, <4>4
    <3>4. QED BY <3>1, <3>2, <3>3
  <2>8. DOMAIN r = 1..(Len(q) - 1)
    BY <2>7, LenProperties
  <2>9. IsInjective(r)
    BY <1>0, <2>7, <2>8 DEF IsInjective
  <2>10. ASSUME NEW x, NEW i \in DOMAIN r, r[i] = x
         PROVE  x # t /\ \E j \in DOMAIN q : q[j] = x
    <3>1. CASE i < k
      BY <1>0, <2>7, <2>8, <2>10, <3>1 DEF IsInjective
    <3>2. CASE ~(i < k)
      BY <1>0, <2>7, <2>8, <2>10, <3>2 DEF IsInjective
    <3>3. QED BY <3>1, <3>2
  <2>11. ASSUME NEW x, x # t, NEW j \in DOMAIN q, q[j] = x
         PROVE  \E i \in DOMAIN r : r[i] = x
    <3>1. CASE j < k
      BY <1>0, <2>7, <2>8, <2>11, <3>1
    <3>2. CASE j > k
      <4>1. j - 1 \in DOMAIN r /\ r[j - 1] = x
        BY <1>0, <2>7, <2>8, <2>11, <3>2
      <4>2. QED BY <4>1
    <3>3. j # k
      BY <2>11
    <3>4. QED BY <1>0, <3>1, <3>2, <3>3
  <2>12. QED BY <2>7, <2>9, <2>10, <2>11 DEF r, IsIn
<1>2. CASE ~\E i \in 1..Len(q) : q[i] = t
  BY <1>0, <1>2 DEF RemoveFirst, IsIn
<1>3. QED BY <1>1, <1>2

-----------------------------------------------------------------------------
(* Each operation leaves the lock in order, and moves one task.            *)

\* acquire() that does not yield: t is the owner, and nobody waits.
LEMMA TakeMoves ==
    ASSUME NEW T, NEW l, InOrder(l, T), NEW t \in T, Uncontended(l)
    PROVE  /\ InOrder(Take(l, t), T)
           /\ Take(l, t).owner = t
           /\ \A x : ~Waits(l, x) /\ ~Waits(Take(l, t), x)
<1>1. /\ Take(l, t) = [owner |-> t, queue |-> l.queue, timed |-> l.timed]
      /\ l.queue = <<>>
  BY LockFields DEF Take, Uncontended, InOrder
<1>2. \A x : ~Waits(l, x) /\ ~Waits(Take(l, t), x)
  BY <1>1 DEF Waits
<1>3. Take(l, t) \in SwapLocks(T)
  BY <1>1, LockFields DEF InOrder
<1>4. \A x \in T : x \notin Take(l, t).timed
  BY <1>1, <1>2 DEF InOrder
<1>5. QED BY <1>1, <1>2, <1>3, <1>4 DEF InOrder

\* acquire() that has to wait: one more in the queue, and the owner stays.
LEMMA QueueMoves ==
    ASSUME NEW T, NEW l, InOrder(l, T), NEW t \in T, ~Waits(l, t), l.owner # t
    PROVE  /\ InOrder(Queue(l, t), T)
           /\ Queue(l, t).owner = l.owner
           /\ \A x : Waits(Queue(l, t), x) <=> Waits(l, x) \/ x = t
<1> DEFINE m == Queue(l, t)
           late == IF Locked(l) THEN l.timed \union {t} ELSE l.timed
<1>1. /\ l = [owner |-> l.owner, queue |-> l.queue, timed |-> l.timed]
      /\ l.queue \in Seq(T) /\ l.timed \subseteq T /\ IsInjective(l.queue)
      /\ l.owner \in T \union {NoTask}
  BY LockFields DEF InOrder
<1>2. m = [owner |-> l.owner, queue |-> Append(l.queue, t), timed |-> late]
  <2>1. l \in [owner : T \union {NoTask}, queue : Seq(T), timed : SUBSET T]
    BY DEF InOrder, SwapLocks
  <2> HIDE DEF late
  <2>2. m = [l EXCEPT !.queue = Append(l.queue, t), !.timed = late]
    BY DEF Queue, late
  <2> HIDE DEF m
  <2>3. QED BY <2>1, <2>2
<1>3. /\ Append(l.queue, t) \in Seq(T)
      /\ Len(Append(l.queue, t)) = Len(l.queue) + 1
      /\ Len(l.queue) \in Nat
      /\ DOMAIN l.queue = 1..Len(l.queue)
      /\ DOMAIN Append(l.queue, t) = 1..(Len(l.queue) + 1)
      /\ \A i \in 1..Len(l.queue) : Append(l.queue, t)[i] = l.queue[i]
      /\ Append(l.queue, t)[Len(l.queue) + 1] = t
  BY <1>1, AppendProperties, LenProperties
<1> HIDE DEF m
<1>4. \A x : Waits(m, x) <=> Waits(l, x) \/ x = t
  <2>1. ASSUME NEW x, Waits(m, x)
        PROVE  Waits(l, x) \/ x = t
    <3> PICK i \in 1..(Len(l.queue) + 1) : Append(l.queue, t)[i] = x
      BY <1>2, <1>3, <2>1 DEF Waits
    <3>1. CASE i = Len(l.queue) + 1
      BY <1>3, <3>1
    <3>2. CASE i \in 1..Len(l.queue)
      BY <1>3, <3>2 DEF Waits
    <3>3. QED BY <1>3, <3>1, <3>2
  <2>2. ASSUME NEW x, Waits(l, x)
        PROVE  Waits(m, x)
    <3> PICK i \in 1..Len(l.queue) : l.queue[i] = x
      BY <1>3, <2>2 DEF Waits
    <3>1. i \in 1..(Len(l.queue) + 1) /\ Append(l.queue, t)[i] = x
      BY <1>3
    <3>2. QED BY <1>2, <1>3, <3>1 DEF Waits
  <2>3. Waits(m, t)
    <3>1. Len(l.queue) + 1 \in 1..(Len(l.queue) + 1)
      BY <1>3
    <3>2. QED BY <1>2, <1>3, <3>1 DEF Waits
  <2>4. QED BY <2>1, <2>2, <2>3
<1>5. IsInjective(Append(l.queue, t))
  <2>1. \A i \in 1..Len(l.queue) : l.queue[i] # t
    BY <1>3 DEF Waits
  <2>2. SUFFICES ASSUME NEW i \in 1..(Len(l.queue) + 1), NEW j \in 1..(Len(l.queue) + 1),
                        Append(l.queue, t)[i] = Append(l.queue, t)[j]
                 PROVE  i = j
    BY <1>3 DEF IsInjective
  <2>3. CASE i \in 1..Len(l.queue) /\ j \in 1..Len(l.queue)
    BY <1>1, <1>3, <2>2, <2>3 DEF IsInjective
  <2>4. CASE i = Len(l.queue) + 1 \/ j = Len(l.queue) + 1
    BY <1>3, <2>1, <2>2, <2>4
  <2>5. QED BY <1>3, <2>3, <2>4
<1>6. m \in SwapLocks(T)
  <2>1. late \subseteq T
    BY <1>1
  <2> HIDE DEF late
  <2>2. QED BY <1>1, <1>2, <1>3, <1>5, <2>1, LockFields
<1>7. m.owner = l.owner /\ m.timed \subseteq l.timed \union {t}
  BY <1>2
<1>8. QED BY <1>4, <1>6, <1>7 DEF InOrder, m

\* The woken task becomes the owner and leaves the queue.
LEMMA ResumeMoves ==
    ASSUME NEW T, NEW l, InOrder(l, T), NEW t, Woken(l, t)
    PROVE  /\ t \in T /\ Waits(l, t) /\ l.owner = NoTask
           /\ InOrder(Resume(l, t), T)
           /\ Resume(l, t).owner = t
           /\ \A x : Waits(Resume(l, t), x) <=> Waits(l, x) /\ x # t
<1> DEFINE m == Resume(l, t)
           q == l.queue
<1>1. /\ q \in Seq(T) /\ l.timed \subseteq T /\ IsInjective(q)
      /\ q # <<>> /\ Head(q) = t /\ l.owner = NoTask
  BY LockFields DEF InOrder, Woken, Locked
<1>2. m = [owner |-> t, queue |-> Tail(q), timed |-> l.timed \ {t}]
  BY DEF Resume
<1>3. /\ Len(q) \in Nat \ {0} /\ DOMAIN q = 1..Len(q)
      /\ Tail(q) \in Seq(T) /\ Len(Tail(q)) = Len(q) - 1
      /\ DOMAIN Tail(q) = 1..(Len(q) - 1)
      /\ \A i \in 1..(Len(q) - 1) : Tail(q)[i] = q[i + 1]
      /\ t \in T
  BY <1>1, HeadTailProperties, LenProperties, EmptySeq
<1>4. q[1] = t /\ 1 \in DOMAIN q
  BY <1>1, <1>3
<1> HIDE DEF m
<1>5. Waits(l, t)
  BY <1>4 DEF Waits
<1>6. \A x : Waits(m, x) <=> Waits(l, x) /\ x # t
  <2>1. ASSUME NEW x, Waits(m, x)
        PROVE  Waits(l, x) /\ x # t
    <3> PICK i \in 1..(Len(q) - 1) : Tail(q)[i] = x
      BY <1>2, <1>3, <2>1 DEF Waits
    <3>1. i + 1 \in DOMAIN q /\ i + 1 # 1 /\ q[i + 1] = x
      BY <1>3
    <3>2. QED BY <1>1, <1>4, <3>1 DEF Waits, IsInjective
  <2>2. ASSUME NEW x, Waits(l, x), x # t
        PROVE  Waits(m, x)
    <3> PICK i \in DOMAIN q : q[i] = x
      BY <2>2 DEF Waits
    <3>1. i # 1
      BY <1>4, <2>2
    <3>2. i - 1 \in 1..(Len(q) - 1) /\ i - 1 + 1 = i
      BY <1>3, <3>1
    <3>3. Tail(q)[i - 1] = x
      BY <1>3, <3>2
    <3>4. QED BY <1>2, <1>3, <3>2, <3>3 DEF Waits
  <2>3. QED BY <2>1, <2>2
<1>7. IsInjective(Tail(q))
  <2>1. SUFFICES ASSUME NEW i \in 1..(Len(q) - 1), NEW j \in 1..(Len(q) - 1),
                        Tail(q)[i] = Tail(q)[j]
                 PROVE  i = j
    BY <1>3 DEF IsInjective
  <2>2. /\ i + 1 \in DOMAIN q /\ j + 1 \in DOMAIN q /\ q[i + 1] = q[j + 1]
    BY <1>3, <2>1
  <2>3. i + 1 = j + 1
    BY <1>1, <2>2 DEF IsInjective
  <2>4. QED BY <1>3, <2>3
<1>8. m \in SwapLocks(T)
  BY <1>1, <1>2, <1>3, <1>7, LockFields
<1>9. m.owner = t /\ m.timed = l.timed \ {t}
  BY <1>2
<1>10. QED BY <1>1, <1>3, <1>5, <1>6, <1>8, <1>9 DEF InOrder, m

\* A waiter that gives up leaves the queue, and the owner stays.
LEMMA GiveUpMoves ==
    ASSUME NEW T, NEW l, InOrder(l, T), NEW t
    PROVE  /\ InOrder(GiveUp(l, t), T)
           /\ GiveUp(l, t).owner = l.owner
           /\ \A x : Waits(GiveUp(l, t), x) <=> Waits(l, x) /\ x # t
<1> DEFINE m == GiveUp(l, t)
           q == RemoveFirst(l.queue, t)
<1>1. /\ l = [owner |-> l.owner, queue |-> l.queue, timed |-> l.timed]
      /\ l.owner \in T \union {NoTask}
      /\ l.queue \in Seq(T) /\ l.timed \subseteq T /\ IsInjective(l.queue)
  BY LockFields DEF InOrder
<1>2. m = [owner |-> l.owner, queue |-> q, timed |-> l.timed \ {t}]
  <2>1. l \in [owner : T \union {NoTask}, queue : Seq(T), timed : SUBSET T]
    BY DEF InOrder, SwapLocks
  <2> HIDE DEF q
  <2>2. m = [l EXCEPT !.queue = q, !.timed = l.timed \ {t}]
    BY DEF GiveUp, q
  <2> HIDE DEF m
  <2>3. QED BY <2>1, <2>2
<1>3. /\ q \in Seq(T) /\ IsInjective(q)
      /\ \A x : IsIn(x, q) <=> x # t /\ IsIn(x, l.queue)
  BY <1>1, RemovedOnce
<1> HIDE DEF m, q
<1>4. \A x : Waits(m, x) <=> Waits(l, x) /\ x # t
  BY <1>2, <1>3 DEF Waits, IsIn
<1>5. m \in SwapLocks(T) /\ m.owner = l.owner /\ m.timed = l.timed \ {t}
  BY <1>1, <1>2, <1>3, LockFields
<1>6. QED BY <1>4, <1>5 DEF InOrder, m

\* release(): nobody owns the lock, and the queue stays.
LEMMA ReleaseMoves ==
    ASSUME NEW T, NoTask \notin T, NEW l, InOrder(l, T)
    PROVE  /\ InOrder(Release(l), T)
           /\ Release(l).owner = NoTask
           /\ \A x : Waits(Release(l), x) <=> Waits(l, x)
<1>1. /\ l = [owner |-> l.owner, queue |-> l.queue, timed |-> l.timed]
      /\ l.queue \in Seq(T) /\ l.timed \subseteq T /\ IsInjective(l.queue)
  BY LockFields DEF InOrder
<1>2. Release(l) = [owner |-> NoTask, queue |-> l.queue, timed |-> l.timed]
  BY <1>1 DEF Release
<1>3. Release(l) \in SwapLocks(T)
  BY <1>1, <1>2, LockFields
<1>4. \A x : Waits(Release(l), x) <=> Waits(l, x)
  BY <1>2 DEF Waits
<1>5. QED BY <1>2, <1>3, <1>4 DEF InOrder
=============================================================================
