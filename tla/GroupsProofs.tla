----------------------------- MODULE GroupsProofs -----------------------------
(***************************************************************************)
(* Theorems about multi-node groups, for every set of nodes and groups     *)
(* over them, however they share their members, and every number of tasks: *)
(* swaps never wait in a circle, nothing is launched over the ranks of a   *)
(* claimed deployment, and a load reports no other's ranks as its own.     *)
(*                                                                         *)
(* GroupsInv is inductive.  LocksOK says that a task has a prefix of the   *)
(* locks it needs, in the one order of all members, and every one of them  *)
(* while it works.  From the locks follow SparedOK (no claim of others is  *)
(* made on the nodes of a swap, but by status()) and LookedOK (no other    *)
(* deployment is launched on a head that a load has looked at).            *)
(***************************************************************************)
EXTENDS Groups, FiniteSetTheorems, WellFoundedInduction, TLAPS

Loading == {"stop", "verify", "evict", "launch", "ready"}

\* The first k members of a group, and all locks that a task works under.
Prefix(g, k) == {Members[g][i] : i \in 1..k}
Needs(t) == {req[t].unit} \union IF IsGroup(t) THEN On(req[t].unit) ELSE {}

\* Who has which locks.
HasLocks(t) ==
    /\ pc[t] \in Over \union {"asks"} => Owned(t) = {}
    /\ pc[t] = "members" =>
          /\ IsGroup(t)
          /\ \E k \in 0..(Len(Members[req[t].unit]) - 1) :
                Owned(t) = {req[t].unit} \union Prefix(req[t].unit, k)
    /\ pc[t] \in Inside => Owned(t) = Needs(t)

LocksOK ==
    /\ owner \in [Nodes \union Groups -> Tasks \union {None}]
    /\ pc \in [Tasks -> Waiting \union Inside \union Over]
    /\ req \in [Tasks -> Requests]
    /\ \A t \in Tasks : HasLocks(t)

\* Who is where, and with which request.
PlacesOK ==
    /\ at \in [Tasks -> Nat]
    /\ \A t \in Tasks :
          /\ at[t] # 0 <=> pc[t] = "evict"
          /\ pc[t] \in Loading => IsGroup(t) /\ req[t].kind = "load"
          /\ pc[t] = "nodeLaunch" => ~IsGroup(t)
          /\ pc[t] = "clear" => ~IsGroup(t)

WorldOK ==
    /\ claims \in [Groups -> Models \union {None}]
    /\ deploys \subseteq Deployment /\ solo \subseteq Nodes
    /\ answers \subseteq Groups \X Models
    /\ booted \in Nat \ {0}

\* The groups with a claim that no status() made during a swap.
Firm == {g \in Groups : claims[g] # None /\ g \notin late}

\* A task at w with request r, as far as the firm claims F concern it: none is on its
\* nodes, nor its own group's once it has stopped what ran.
Spared(w, r, F) ==
    /\ w \in {"stop", "verify", "evict", "launch"} =>
          \A g \in F : g # r.unit => On(g) \intersect On(r.unit) = {}
    /\ w \in {"verify", "evict", "launch"} => r.unit \notin F
    /\ w = "nodeLaunch" \/ (w = "clear" /\ r.kind = "unload") =>
          \A g \in F : r.unit \notin On(g)

SparedOK == \A t \in Tasks : Spared(pc[t], req[t], Firm)

\* Whose deployments are on which head.
Made(D) == {<<HeadOf(d.group), d.by>> : d \in D}

\* Task t at w with request r, that is freeing member a, has looked at its head and seen
\* nothing: with the deployments of M there is none but its own.
Looked(t, w, r, a, M, f) ==
    t \notin f =>
        /\ w = "launch" \/ (w = "evict" /\ a > 1) => \A m \in M : m[1] # HeadOf(r.unit)
        /\ w = "ready" => \A m \in M : m[1] = HeadOf(r.unit) => m[2] = t

LookedOK == \A t \in Tasks : Looked(t, pc[t], req[t], at[t], Made(deploys), fooled)

GroupsInv == LocksOK /\ PlacesOK /\ WorldOK /\ SparedOK /\ LookedOK

-----------------------------------------------------------------------------
(* Members and locks.                                                      *)

\* A group is none of its members, which are distinct nodes.
LEMMA MembersOfGroup ==
    ASSUME NEW g \in Groups
    PROVE  /\ Len(Members[g]) \in Nat /\ Len(Members[g]) >= 2
           /\ On(g) = {Members[g][i] : i \in 1..Len(Members[g])}
           /\ On(g) \subseteq Nodes /\ g \notin Nodes
           /\ \A i \in 1..Len(Members[g]) : Members[g][i] \in Nodes
           /\ \A i, j \in 1..Len(Members[g]) : Members[g][i] = Members[g][j] => i = j
           /\ HeadOf(g) = Members[g][1] /\ HeadOf(g) \in On(g)
<1> DEFINE m == Members[g]
<1>1. m \in Seq(Nodes) /\ Len(m) >= 2 /\ IsInjective(m) /\ g \notin Nodes
  BY GroupsAssumption
<1> HIDE DEF m
<1>2. Len(m) \in Nat /\ DOMAIN m = 1..Len(m) /\ \A i \in 1..Len(m) : m[i] \in Nodes
  BY <1>1
<1>3. Range(m) = {m[i] : i \in 1..Len(m)} /\ m[1] \in Range(m)
  BY <1>1, <1>2 DEF Range
<1>4. \A i, j \in 1..Len(m) : m[i] = m[j] => i = j
  BY <1>1, <1>2 DEF IsInjective
<1>5. QED BY <1>1, <1>2, <1>3, <1>4 DEF m, On, HeadOf

\* A prefix of the members has as many nodes as its length says.
LEMMA PrefixCount ==
    ASSUME NEW g \in Groups, NEW k \in 0..Len(Members[g])
    PROVE  Cardinality(Prefix(g, k)) = k
<1> DEFINE f == [i \in 1..k |-> Members[g][i]]
<1>1. k \in Nat /\ k <= Len(Members[g]) /\ Len(Members[g]) \in Nat
  BY MembersOfGroup
<1>2. f \in [1..k -> Prefix(g, k)]
  BY DEF Prefix
<1>3. \A i, j \in 1..k : f[i] = f[j] => i = j
  BY <1>1, MembersOfGroup
<1>4. \A n \in Prefix(g, k) : \E i \in 1..k : f[i] = n
  BY DEF Prefix
<1> HIDE DEF f
<1>5. f \in Bijection(1..k, Prefix(g, k))
  BY <1>2, <1>3, <1>4 DEF Bijection, Injection, Surjection, IsInjective
<1>6. ExistsBijection(1..k, Prefix(g, k))
  BY <1>5 DEF ExistsBijection
<1>7. IsFiniteSet(1..k) /\ Cardinality(1..k) = k
  <2>1. 1 \in Int /\ k \in Int
    BY <1>1
  <2>2. IsFiniteSet(1..k) /\ Cardinality(1..k) = IF 1 > k THEN 0 ELSE k - 1 + 1
    BY <2>1, FS_Interval
  <2>3. QED BY <1>1, <2>2
<1>8. QED BY <1>6, <1>7, FS_Bijection

\* A request names a node or a group, which no task is.
LEMMA Units ==
    ASSUME LocksOK, NEW t \in Tasks
    PROVE  /\ req[t] \in Requests /\ req[t].unit \in Nodes \union Groups
           /\ IsGroup(t) <=> req[t].unit \in Groups
           /\ ~IsGroup(t) => req[t].unit \in Nodes
           /\ IsGroup(t) => req[t] \in GroupRequest
           /\ IsGroup(t) /\ req[t].kind = "load" => req[t].model \in Models
           /\ None \notin Tasks
<1>1. req[t] \in Requests
  BY DEF LocksOK
<1>2. req[t] \in GroupRequest \/ req[t] \in NodeRequest
  BY <1>1, GroupsAssumption
<1>3. req[t].unit \in Nodes \union Groups
  BY <1>2 DEF GroupRequest, NodeRequest
<1>4. IsGroup(t) => req[t] \in GroupRequest
  BY <1>2, GroupsAssumption DEF GroupRequest, NodeRequest, IsGroup
<1>5. QED BY <1>1, <1>3, <1>4, GroupsAssumption DEF IsGroup

\* The next member's lock comes after a prefix that the task has.
LEMMA NextMemberLock ==
    ASSUME LocksOK, NEW t \in Tasks, pc[t] = "members"
    PROVE  /\ IsGroup(t)
           /\ \E k \in 0..(Len(Members[req[t].unit]) - 1) :
                 /\ Owned(t) = {req[t].unit} \union Prefix(req[t].unit, k)
                 /\ NextLock(t) = Members[req[t].unit][k + 1]
                 /\ k + 1 \in 1..Len(Members[req[t].unit])
<1> DEFINE g == req[t].unit
<1>1. IsGroup(t) /\ g \in Groups
  BY Units DEF LocksOK, HasLocks
<1>2. PICK k \in 0..(Len(Members[g]) - 1) : Owned(t) = {g} \union Prefix(g, k)
  BY DEF LocksOK, HasLocks
<1> HIDE DEF g
<1>3. /\ g \notin Nodes /\ Len(Members[g]) \in Nat
      /\ \A i \in 1..Len(Members[g]) : Members[g][i] \in Nodes
  BY <1>1, MembersOfGroup
<1>4. k \in 0..Len(Members[g]) /\ k + 1 \in 1..Len(Members[g]) /\ 1..k \subseteq 1..Len(Members[g])
  BY <1>3
<1>5. Owned(t) \intersect Nodes = Prefix(g, k)
  BY <1>2, <1>3, <1>4 DEF Prefix
<1>6. Cardinality(Owned(t) \intersect Nodes) = k
  BY <1>1, <1>4, <1>5, PrefixCount
<1>7. NextLock(t) = Members[g][k + 1]
  BY <1>6 DEF NextLock, LockOrder, g
<1>8. QED BY <1>1, <1>2, <1>4, <1>7 DEF g

\* What a task waits for is a lock.
LEMMA NextIsLock ==
    ASSUME LocksOK, NEW t \in Tasks, pc[t] \in Waiting
    PROVE  NextLock(t) \in Nodes \union Groups
<1>1. CASE pc[t] = "asks"
  BY <1>1, Units DEF NextLock
<1>2. CASE pc[t] = "members"
  BY <1>2, NextMemberLock, Units, MembersOfGroup
<1>3. QED BY <1>1, <1>2 DEF Waiting

-----------------------------------------------------------------------------
(* What a step does to the locks.                                          *)

\* What a task has when a lock is taken, and when its locks are released.
LEMMA OneLockTaken ==
    ASSUME LocksOK, NEW t \in Tasks, NEW l \in Nodes \union Groups,
           owner[l] = None, owner' = [owner EXCEPT ![l] = t]
    PROVE  /\ owner' \in [Nodes \union Groups -> Tasks \union {None}]
           /\ Owned(t)' = Owned(t) \union {l}
           /\ \A x \in Tasks : x # t => Owned(x)' = Owned(x)
BY Units DEF LocksOK, Owned

LEMMA OwnLocksReleased ==
    ASSUME LocksOK, NEW t \in Tasks, NEW how, Finish(t, how)
    PROVE  /\ owner' \in [Nodes \union Groups -> Tasks \union {None}]
           /\ Owned(t)' = {}
           /\ \A x \in Tasks : x # t => Owned(x)' = Owned(x)
BY Units DEF LocksOK, Owned, Finish

\* A task that does not move has its locks.
LEMMA LocksOfOthers ==
    ASSUME LocksOK, NEW x \in Tasks, pc'[x] = pc[x], req' = req, Owned(x)' = Owned(x)
    PROVE  HasLocks(x)'
BY DEF LocksOK, HasLocks, IsGroup, Needs

\* A lock is taken: the unit's own, the next member's, or the last.
LEMMA LockKeeps ==
    ASSUME LocksOK, NEW t \in Tasks, Lock(t)
    PROVE  /\ LocksOK' /\ pc[t] \in Waiting /\ pc'[t] \in {"members", "held"}
           /\ req' = req /\ \A x \in Tasks : x # t => pc'[x] = pc[x]
<1> DEFINE l == NextLock(t)
           g == req[t].unit
           more == NeedsMembers(t) /\ ~(On(g) \subseteq Owned(t) \union {l})
<1>1. /\ pc[t] \in Waiting /\ owner[l] = None /\ owner' = [owner EXCEPT ![l] = t]
      /\ pc' = [pc EXCEPT ![t] = IF more THEN "members" ELSE "held"]
      /\ req' = req
  BY DEF Lock, Goto
<1>2. l \in Nodes \union Groups
  BY <1>1, NextIsLock
<1> HIDE DEF l
<1>3. /\ owner' \in [Nodes \union Groups -> Tasks \union {None}]
      /\ Owned(t)' = Owned(t) \union {l}
      /\ \A x \in Tasks : x # t => Owned(x)' = Owned(x)
  BY <1>1, <1>2, OneLockTaken
<1>4. /\ pc \in [Tasks -> Waiting \union Inside \union Over] /\ req \in [Tasks -> Requests]
  BY DEF LocksOK
<1>5. /\ pc'[t] = (IF more THEN "members" ELSE "held")
      /\ \A x \in Tasks : x # t => pc'[x] = pc[x]
      /\ pc' \in [Tasks -> Waiting \union Inside \union Over]
  <2> HIDE DEF more
  <2>1. QED BY <1>1, <1>4 DEF Waiting, Inside
<1> SUFFICES HasLocks(t)'
  BY <1>1, <1>3, <1>4, <1>5, LocksOfOthers DEF LocksOK
<1>6. CASE pc[t] = "asks"
  <2>1. Owned(t) = {} /\ l = g /\ Owned(t)' = {g}
    BY <1>3, <1>6 DEF LocksOK, HasLocks, NextLock, l
  <2>2. CASE IsGroup(t)
    <3>1. g \in Groups
      BY <2>2, Units
    <3>2. /\ Len(Members[g]) \in Nat /\ Len(Members[g]) >= 2
          /\ On(g) \subseteq Nodes /\ g \notin Nodes /\ HeadOf(g) \in On(g)
      BY <3>1, MembersOfGroup
    <3>3. more
      BY <2>1, <2>2, <3>2 DEF NeedsMembers
    <3>4. /\ 0 \in 0..(Len(Members[g]) - 1) /\ Owned(t)' = {g} \union Prefix(g, 0)
      BY <2>1, <3>2 DEF Prefix
    <3>5. pc'[t] = "members" /\ IsGroup(t)' /\ req'[t].unit = g
      BY <1>1, <1>5, <2>2, <3>3 DEF IsGroup
    <3>6. QED BY <3>4, <3>5 DEF HasLocks, Over, Inside
  <2>3. CASE ~IsGroup(t)
    <3>1. pc'[t] = "held"
      BY <1>5, <2>3 DEF NeedsMembers
    <3>2. Needs(t)' = {g}
      BY <1>1, <2>3 DEF Needs, IsGroup
    <3>3. QED BY <2>1, <3>1, <3>2 DEF HasLocks, Over
  <2>4. QED BY <2>2, <2>3
<1>7. CASE pc[t] = "members"
  <2>1. /\ IsGroup(t) /\ g \in Groups
        /\ \E k \in 0..(Len(Members[g]) - 1) :
                 /\ Owned(t) = {g} \union Prefix(g, k)
                 /\ l = Members[g][k + 1]
                 /\ k + 1 \in 1..Len(Members[g])
    BY <1>7, NextMemberLock, Units DEF l
  <2> PICK k \in 0..(Len(Members[g]) - 1) :
                 /\ Owned(t) = {g} \union Prefix(g, k)
                 /\ l = Members[g][k + 1]
                 /\ k + 1 \in 1..Len(Members[g])
    BY <2>1
  <2> HIDE DEF g
  <2>2. /\ Len(Members[g]) \in Nat /\ Len(Members[g]) >= 2
        /\ On(g) = {Members[g][i] : i \in 1..Len(Members[g])}
        /\ On(g) \subseteq Nodes /\ g \notin Nodes
        /\ \A i, j \in 1..Len(Members[g]) : Members[g][i] = Members[g][j] => i = j
    BY <2>1, MembersOfGroup
  <2>3. Owned(t)' = {g} \union Prefix(g, k + 1)
    <3>1. 1..(k + 1) = (1..k) \union {k + 1}
      OBVIOUS
    <3>2. Prefix(g, k + 1) = Prefix(g, k) \union {l}
      BY <3>1 DEF Prefix
    <3>3. QED BY <1>3, <3>2
  <2>4. CASE k + 1 = Len(Members[g])
    <3>1. Prefix(g, k + 1) = On(g)
      BY <2>2, <2>4 DEF Prefix
    <3>2. On(g) \subseteq Owned(t) \union {l}
      BY <1>3, <2>3, <3>1
    <3>3. pc'[t] = "held" /\ Owned(t)' = Needs(t)'
      BY <1>1, <1>5, <2>1, <2>3, <3>1, <3>2 DEF Needs, IsGroup, g
    <3>4. QED BY <3>3 DEF HasLocks, Over
  <2>5. CASE k + 1 # Len(Members[g])
    <3>1. /\ k + 1 \in 0..(Len(Members[g]) - 1)
          /\ Len(Members[g]) \in 1..Len(Members[g])
          /\ \A i \in 1..(k + 1) : i \in 1..Len(Members[g]) /\ i # Len(Members[g])
      BY <2>2, <2>5
    <3>2. /\ Members[g][Len(Members[g])] \in On(g)
          /\ Members[g][Len(Members[g])] \notin Prefix(g, k + 1)
      BY <2>2, <3>1 DEF Prefix
    <3>3. ~(On(g) \subseteq Owned(t) \union {l})
      BY <1>3, <2>2, <2>3, <3>2
    <3>4. pc'[t] = "members" /\ IsGroup(t)' /\ req'[t].unit = g
      BY <1>1, <1>5, <2>1, <3>3 DEF IsGroup, NeedsMembers, g
    <3>5. QED BY <2>3, <3>1, <3>4 DEF HasLocks, Over, Inside
  <2>6. QED BY <2>4, <2>5
<1>8. QED BY <1>1, <1>6, <1>7 DEF Waiting

\* The locks are released when a swap ends.
LEMMA FinishKeeps ==
    ASSUME LocksOK, PlacesOK, NEW t \in Tasks, NEW how \in Over, Finish(t, how)
    PROVE  /\ LocksOK' /\ PlacesOK' /\ pc'[t] = how /\ req' = req
           /\ \A x \in Tasks : x # t => pc'[x] = pc[x] /\ at'[x] = at[x]
<1>1. /\ pc' = [pc EXCEPT ![t] = how] /\ at' = [at EXCEPT ![t] = 0] /\ req' = req
  BY DEF Finish, Goto
<1>2. /\ owner' \in [Nodes \union Groups -> Tasks \union {None}]
      /\ Owned(t)' = {} /\ \A x \in Tasks : x # t => Owned(x)' = Owned(x)
  BY OwnLocksReleased
<1>3. /\ pc' \in [Tasks -> Waiting \union Inside \union Over] /\ at' \in [Tasks -> Nat]
      /\ pc'[t] = how /\ at'[t] = 0
      /\ \A x \in Tasks : x # t => pc'[x] = pc[x] /\ at'[x] = at[x]
  BY <1>1 DEF LocksOK, PlacesOK
<1>4. HasLocks(t)'
  BY <1>2, <1>3 DEF HasLocks, Over, Inside
<1>5. LocksOK'
  BY <1>1, <1>2, <1>3, <1>4, LocksOfOthers DEF LocksOK
<1>6. PlacesOK'
  BY <1>1, <1>3 DEF PlacesOK, IsGroup, Over, Loading
<1>7. QED BY <1>1, <1>3, <1>5, <1>6

\* And kept from one place of it to the next.
LEMMA GotoKeeps ==
    ASSUME LocksOK, NEW t \in Tasks, pc[t] \in Inside, NEW w \in Inside, Goto(t, w),
           UNCHANGED <<owner, req>>
    PROVE  /\ LocksOK' /\ pc'[t] = w /\ \A x \in Tasks : x # t => pc'[x] = pc[x]
<1>1. /\ pc' \in [Tasks -> Waiting \union Inside \union Over] /\ pc'[t] = w
      /\ \A x \in Tasks : x # t => pc'[x] = pc[x]
  BY DEF LocksOK, Goto
<1>2. \A x \in Tasks : Owned(x)' = Owned(x)
  BY DEF Owned
<1>3. HasLocks(t)'
  BY <1>1, <1>2 DEF LocksOK, HasLocks, Needs, IsGroup, Inside, Over
<1>4. QED BY <1>1, <1>2, <1>3, LocksOfOthers DEF LocksOK

\* Two tasks that work never need the same lock.
LEMMA LocksExclude ==
    ASSUME LocksOK, NEW t \in Tasks, NEW x \in Tasks, pc[t] \in Inside, pc[x] \in Inside,
           Needs(t) \intersect Needs(x) # {}
    PROVE  t = x
BY DEF LocksOK, HasLocks, Owned

-----------------------------------------------------------------------------
(* What a step does to claims and deployments.                             *)

\* Fewer firm claims, or fewer deployments, spare the same and show no more.
LEMMA SparedByFewer ==
    ASSUME NEW w, NEW r, NEW F, NEW G, G \subseteq F, Spared(w, r, F)
    PROVE  Spared(w, r, G)
BY DEF Spared

LEMMA LookedAtFewer ==
    ASSUME NEW t, NEW w, NEW r, NEW a, NEW M, NEW N, N \subseteq M, NEW f, NEW h,
           f \subseteq h, Looked(t, w, r, a, M, f)
    PROVE  Looked(t, w, r, a, N, h)
BY DEF Looked

\* Fewer deployments are on fewer heads.
LEMMA FewerMade ==
    ASSUME NEW D, NEW E, E \subseteq D
    PROVE  Made(E) \subseteq Made(D)
BY DEF Made

LEMMA OneMoreMade ==
    ASSUME NEW D, NEW d
    PROVE  Made(D \union {d}) = Made(D) \union {<<HeadOf(d.group), d.by>>}
<1> DEFINE p(e) == <<HeadOf(e.group), e.by>>
<1>1. {p(e) : e \in D \union {d}} = {p(e) : e \in D} \union {p(d)}
  <2> HIDE DEF p
  <2>1. QED OBVIOUS
<1>2. QED BY <1>1 DEF Made

\* A job that is stopped takes its group's claim with it.
LEMMA StopMoves ==
    ASSUME WorldOK, NEW g \in Groups, NEW m, StopJob(g, m)
    PROVE  /\ claims' \in [Groups -> Models \union {None}]
           /\ deploys' \subseteq Deployment /\ solo' \subseteq Nodes
           /\ Firm' \subseteq Firm /\ g \notin Firm'
           /\ Made(deploys') \subseteq Made(deploys)
<1>1. claims' = [claims EXCEPT ![g] = None] /\ late' = late \ {g} /\ solo' = solo
  BY DEF StopJob
<1>2. deploys' \subseteq deploys
  BY DEF StopJob
<1>3. claims \in [Groups -> Models \union {None}] /\ solo \subseteq Nodes
  BY DEF WorldOK
<1>4. Firm' \subseteq Firm /\ g \notin Firm'
  BY <1>1, <1>3 DEF Firm
<1>5. QED BY <1>1, <1>2, <1>3, <1>4, FewerMade DEF WorldOK

\* A step of one task that adds no firm claim and no deployment: what is said of the
\* others holds as it did.
LEMMA OneMoves ==
    ASSUME GroupsInv, NEW t \in Tasks, LocksOK', PlacesOK', WorldOK', req' = req,
           \A x \in Tasks : x # t => pc'[x] = pc[x] /\ at'[x] = at[x],
           Firm' \subseteq Firm, Made(deploys') \subseteq Made(deploys), fooled \subseteq fooled',
           Spared(pc'[t], req[t], Firm'),
           Looked(t, pc'[t], req[t], at'[t], Made(deploys'), fooled')
    PROVE  GroupsInv'
<1> DEFINE F == Firm'
           M == Made(deploys')
           h == fooled'
<1>1. ASSUME NEW x \in Tasks, x # t
      PROVE  /\ Spared(pc'[x], req[x], F)
             /\ Looked(x, pc'[x], req[x], at'[x], M, h)
  <2>1. /\ Spared(pc[x], req[x], Firm)
        /\ Looked(x, pc[x], req[x], at[x], Made(deploys), fooled)
    BY DEF GroupsInv, SparedOK, LookedOK
  <2>2. pc'[x] = pc[x] /\ at'[x] = at[x]
    BY <1>1
  <2> HIDE DEF F, M, h
  <2>3. F \subseteq Firm /\ M \subseteq Made(deploys) /\ fooled \subseteq h
    BY DEF F, M, h
  <2>4. QED BY <2>1, <2>2, <2>3, SparedByFewer, LookedAtFewer
<1>2. SparedOK'
  BY <1>1 DEF SparedOK
<1>3. LookedOK'
  BY <1>1 DEF LookedOK
<1>4. QED BY <1>2, <1>3 DEF GroupsInv

\* A swap ends.
LEMMA FinishStep ==
    ASSUME GroupsInv, NEW t \in Tasks, NEW how \in Over, Finish(t, how), WorldOK',
           Firm' \subseteq Firm, Made(deploys') \subseteq Made(deploys), fooled \subseteq fooled'
    PROVE  GroupsInv'
<1>1. /\ LocksOK' /\ PlacesOK' /\ pc'[t] = how /\ req' = req
      /\ \A x \in Tasks : x # t => pc'[x] = pc[x] /\ at'[x] = at[x]
  BY FinishKeeps DEF GroupsInv
<1>2. /\ Spared(pc'[t], req[t], Firm')
      /\ Looked(t, pc'[t], req[t], at'[t], Made(deploys'), fooled')
  BY <1>1 DEF Spared, Looked, Over
<1>3. QED BY <1>1, <1>2, OneMoves

\* A swap goes on, within what its place says.
LEMMA GoesOn ==
    ASSUME GroupsInv, NEW t \in Tasks, pc[t] \in Inside, NEW w \in Inside, Goto(t, w),
           NEW a \in Nat, at' = [at EXCEPT ![t] = a], a # 0 <=> w = "evict",
           UNCHANGED <<owner, req>>, WorldOK',
           w \in Loading => IsGroup(t) /\ req[t].kind = "load",
           w \in {"clear", "nodeLaunch"} => ~IsGroup(t),
           Firm' \subseteq Firm, Made(deploys') \subseteq Made(deploys), fooled \subseteq fooled',
           Spared(w, req[t], Firm'), Looked(t, w, req[t], a, Made(deploys'), fooled')
    PROVE  GroupsInv'
<1>1. LocksOK' /\ pc'[t] = w /\ \A x \in Tasks : x # t => pc'[x] = pc[x]
  BY GotoKeeps DEF GroupsInv
<1>2. /\ at' \in [Tasks -> Nat] /\ at'[t] = a
      /\ \A x \in Tasks : x # t => at'[x] = at[x]
  BY DEF GroupsInv, PlacesOK
<1>3. PlacesOK'
  BY <1>1, <1>2 DEF GroupsInv, PlacesOK, IsGroup
<1>4. /\ Spared(pc'[t], req[t], Firm')
      /\ Looked(t, pc'[t], req[t], at'[t], Made(deploys'), fooled')
  BY <1>1, <1>2
<1>5. QED BY <1>1, <1>2, <1>3, <1>4, OneMoves

\* The world stays.
LEMMA SameWorld ==
    ASSUME GroupsInv, UNCHANGED <<claims, worldVars, answers, bootVars, late>>
    PROVE  WorldOK' /\ Firm' = Firm /\ deploys' = deploys
BY DEF GroupsInv, WorldOK, worldVars, bootVars, Firm

\* A swap ends that has changed nothing.
LEMMA QuitStep ==
    ASSUME GroupsInv, NEW t \in Tasks, NEW how \in Over, Finish(t, how),
           UNCHANGED <<claims, worldVars, answers, bootVars, histVars>>
    PROVE  GroupsInv'
<1>1. WorldOK' /\ Firm' = Firm /\ deploys' = deploys /\ fooled' = fooled
  BY SameWorld DEF histVars
<1>2. QED BY <1>1, FinishStep

-----------------------------------------------------------------------------
(* The initial states, and the locks.                                      *)

LEMMA GroupsInit == Init => GroupsInv
<1> SUFFICES ASSUME Init PROVE GroupsInv
  OBVIOUS
<1>1. /\ owner = [l \in Nodes \union Groups |-> None] /\ pc = [t \in Tasks |-> "asks"]
      /\ req \in [Tasks -> Requests] /\ at = [t \in Tasks |-> 0]
      /\ deploys \in {{}} \union {{d} : d \in Running} /\ solo \subseteq Nodes
      /\ answers = {} /\ booted = Len(BootOrder) + 1
  BY GroupsAssumption DEF Init
<1>2. \A t \in Tasks : Owned(t) = {}
  BY <1>1, GroupsAssumption DEF Owned
<1>3. LocksOK
  BY <1>1, <1>2 DEF LocksOK, HasLocks, Waiting, Inside, Over
<1>4. PlacesOK
  BY <1>1 DEF PlacesOK, Loading
<1>5. WorldOK
  <2>1. deploys \subseteq Running /\ Running \subseteq Deployment
    BY <1>1, GroupsAssumption
  <2>2. claims \in [Groups -> Models \union {None}]
    <3> DEFINE D(g) == {d \in deploys : d.group = g}
    <3>1. claims = [g \in Groups |-> IF D(g) = {} THEN None
                                     ELSE (CHOOSE d \in D(g) : TRUE).model]
      BY DEF Init
    <3>2. \A g \in Groups : D(g) # {} => (CHOOSE d \in D(g) : TRUE) \in Deployment
      BY <2>1
    <3>3. \A d \in Deployment : d.model \in Models
      BY GroupsAssumption DEF Deployment
    <3> HIDE DEF D
    <3>4. QED BY <3>1, <3>2, <3>3
  <2>3. booted \in Nat \ {0}
    BY <1>1, GroupsAssumption
  <2>4. QED BY <1>1, <2>1, <2>2, <2>3 DEF WorldOK
<1>6. SparedOK /\ LookedOK
  BY <1>1 DEF SparedOK, LookedOK, Spared, Looked
<1>7. QED BY <1>3, <1>4, <1>5, <1>6 DEF GroupsInv

LEMMA LockStep ==
    ASSUME GroupsInv, NEW t \in Tasks, Lock(t) \/ LockRefused(t) \/ TimeOut(t)
    PROVE  GroupsInv'
<1>1. CASE Lock(t)
  <2>1. /\ LocksOK' /\ pc[t] \in Waiting /\ pc'[t] \in {"members", "held"}
        /\ req' = req /\ \A x \in Tasks : x # t => pc'[x] = pc[x]
    BY <1>1, LockKeeps DEF GroupsInv
  <2>2. at' = at /\ WorldOK' /\ Firm' = Firm /\ deploys' = deploys /\ fooled' = fooled
    BY <1>1, SameWorld DEF Lock, histVars
  <2>3. PlacesOK'
    BY <2>1, <2>2 DEF GroupsInv, PlacesOK, IsGroup, Waiting, Loading
  <2>4. /\ Spared(pc'[t], req[t], Firm')
        /\ Looked(t, pc'[t], req[t], at'[t], Made(deploys'), fooled')
    BY <2>1 DEF Spared, Looked
  <2>5. QED BY <2>1, <2>2, <2>3, <2>4, OneMoves
<1>2. CASE LockRefused(t)
  BY <1>2, QuitStep DEF LockRefused, Over
<1>3. CASE TimeOut(t)
  BY <1>3, QuitStep DEF TimeOut, Over
<1>4. QED BY <1>1, <1>2, <1>3

-----------------------------------------------------------------------------
(* The steps of a load of a group.                                         *)

LEMMA QuittingStep ==
    ASSUME GroupsInv, NEW t \in Tasks,
           \/ LoadConflict(t) \/ LoadServed(t) \/ StillThere(t) \/ LaunchFails(t)
           \/ NeverReady(t) \/ EvictNothing(t) \/ EvictRefused(t)
    PROVE  GroupsInv'
BY QuitStep DEF LoadConflict, LoadServed, StillThere, LaunchFails, NeverReady,
    EvictNothing, EvictRefused, Over

\* Nobody else's claim is on the nodes of a group whose claims do not conflict.
LEMMA NotForeign ==
    ASSUME WorldOK, NEW g \in Groups, ~Foreign(g), NEW h \in Firm, h # g
    PROVE  On(h) \intersect On(g) = {}
BY DEF Foreign, ClaimedGroups, Firm

\* The first member of a group is freed next, once what ran is stopped or nothing ran.
LEMMA FirstMemberNext ==
    ASSUME GroupsInv, NEW t \in Tasks, pc[t] \in Inside, Goto(t, "evict"),
           at' = [at EXCEPT ![t] = 1], UNCHANGED <<owner, req, deploys>>, WorldOK', Firm' = Firm,
           fooled \subseteq fooled', IsGroup(t), req[t].kind = "load", Spared("evict", req[t], Firm)
    PROVE  GroupsInv'
<1> DEFINE a == 1
<1>1. /\ a \in Nat /\ a # 0 /\ at' = [at EXCEPT ![t] = a]
      /\ Looked(t, "evict", req[t], a, Made(deploys'), fooled')
  BY DEF Looked
<1>2. Spared("evict", req[t], Firm') /\ Made(deploys') \subseteq Made(deploys)
  OBVIOUS
<1> HIDE DEF a
<1>3. QED BY <1>1, <1>2, GoesOn DEF Inside, Loading

LEMMA ReloadStep ==
    ASSUME GroupsInv, NEW t \in Tasks, LoadReload(t) \/ LoadFresh(t)
    PROVE  GroupsInv'
<1> DEFINE g == req[t].unit
<1>1. /\ GroupAt(t, "load", "held") /\ ~Foreign(g) /\ UNCHANGED <<owner, req>>
      /\ UNCHANGED <<claims, worldVars, answers, bootVars, histVars>>
  BY DEF LoadReload, LoadFresh, TakenMeanwhile, GoOn
<1>2. WorldOK' /\ Firm' = Firm /\ deploys' = deploys /\ fooled' = fooled
  BY <1>1, SameWorld DEF histVars
<1>3. IsGroup(t) /\ req[t].kind = "load" /\ pc[t] = "held" /\ g \in Groups
  BY <1>1 DEF GroupAt, IsGroup
<1>4. \A h \in Firm : h # g => On(h) \intersect On(g) = {}
  BY <1>1, <1>3, NotForeign DEF GroupsInv
<1>5. CASE LoadReload(t)
  <2>1. Goto(t, "stop") /\ at' = [at EXCEPT ![t] = 0]
    BY <1>3, <1>5 DEF LoadReload, GoOn, GroupsInv, PlacesOK
  <2>2. Spared("stop", req[t], Firm')
    BY <1>2, <1>4 DEF Spared
  <2>3. Looked(t, "stop", req[t], 0, Made(deploys'), fooled')
    BY DEF Looked
  <2>4. QED BY <1>1, <1>2, <1>3, <2>1, <2>2, <2>3, GoesOn DEF Inside, Loading
<1>6. CASE LoadFresh(t)
  <2>1. Goto(t, "evict") /\ at' = [at EXCEPT ![t] = 1] /\ g \notin Firm
    BY <1>6 DEF LoadFresh, Firm
  <2>2. Spared("evict", req[t], Firm)
    BY <1>4, <2>1 DEF Spared
  <2>3. QED BY <1>1, <1>2, <1>3, <2>1, <2>2, FirstMemberNext DEF Inside, worldVars
<1>7. QED BY <1>5, <1>6

LEMMA StopOldStep ==
    ASSUME GroupsInv, NEW t \in Tasks, StopOld(t)
    PROVE  GroupsInv'
<1> DEFINE g == req[t].unit
<1>1. /\ IsGroup(t) /\ req[t].kind = "load" /\ pc[t] = "stop" /\ g \in Groups
      /\ StopJob(g, claims[g]) /\ GoOn(t, "verify")
      /\ UNCHANGED <<answers, booted, fooled>>
  BY DEF StopOld, GroupAt, IsGroup, bootVars
<1>2. /\ claims' \in [Groups -> Models \union {None}]
      /\ deploys' \subseteq Deployment /\ solo' \subseteq Nodes
      /\ Firm' \subseteq Firm /\ g \notin Firm'
      /\ Made(deploys') \subseteq Made(deploys)
  BY <1>1, StopMoves DEF GroupsInv
<1>3. WorldOK'
  BY <1>1, <1>2 DEF GroupsInv, WorldOK
<1>4. Goto(t, "verify") /\ at' = [at EXCEPT ![t] = 0] /\ UNCHANGED <<owner, req>>
  BY <1>1 DEF GoOn, GroupsInv, PlacesOK
<1>5. Spared("verify", req[t], Firm')
  BY <1>1, <1>2 DEF GroupsInv, SparedOK, Spared
<1>6. Looked(t, "verify", req[t], 0, Made(deploys'), fooled')
  BY DEF Looked
<1>7. QED BY <1>1, <1>2, <1>3, <1>4, <1>5, <1>6, GoesOn DEF Inside, Loading

LEMMA VerifyGoneStep ==
    ASSUME GroupsInv, NEW t \in Tasks, VerifyGone(t)
    PROVE  GroupsInv'
<1>1. /\ IsGroup(t) /\ req[t].kind = "load" /\ pc[t] = "verify"
      /\ Goto(t, "evict") /\ at' = [at EXCEPT ![t] = 1]
      /\ UNCHANGED <<owner, req, claims, worldVars, answers, bootVars, late>>
      /\ fooled \subseteq fooled'
  BY DEF VerifyGone, GroupAt, Miss
<1>2. WorldOK' /\ Firm' = Firm /\ deploys' = deploys
  BY <1>1, SameWorld
<1>3. Spared("evict", req[t], Firm)
  BY <1>1 DEF GroupsInv, SparedOK, Spared
<1>4. QED BY <1>1, <1>2, <1>3, FirstMemberNext DEF Inside

\* A look at a head that finds nothing, and is right, finds all there is.
LEMMA MissSees ==
    ASSUME NEW t, NEW g, NEW seen, seen = {}, Miss(t, g, seen), t \notin fooled'
    PROVE  \A m \in Made(deploys) : m[1] # HeadOf(g)
<1>1. Port(HeadOf(g)) = {} /\ \A d \in deploys : HeadOf(d.group) = HeadOf(g) => d.up
  BY DEF Miss
<1>2. \A d \in deploys : HeadOf(d.group) # HeadOf(g)
  BY <1>1 DEF Port
<1>3. QED BY <1>2 DEF Made

LEMMA EvictMemberStep ==
    ASSUME GroupsInv, NEW t \in Tasks, EvictMember(t)
    PROVE  GroupsInv'
<1> DEFINE g == req[t].unit
           a == at[t]
           n == Members[g][a]
           last == a = Len(Members[g])
<1>1. /\ IsGroup(t) /\ req[t].kind = "load" /\ pc[t] = "evict" /\ g \in Groups
      /\ UNCHANGED <<claims, deploys, answers, bootVars, late>>
  BY DEF EvictMember, GroupAt, IsGroup
<1>2. PICK seen \in Sees(n) :
         /\ IF n = HeadOf(g) THEN Miss(t, g, seen) ELSE UNCHANGED fooled
         /\ \/ solo' \in {solo, solo \ {n}}
            \/ UNCHANGED solo
         /\ \/ Finish(t, "failed")
            \/ seen = {} /\ NextMember(t)
  BY DEF EvictMember, Stranger
<1>3. fooled \subseteq fooled'
  BY <1>2 DEF Miss
<1>4. WorldOK' /\ Firm' = Firm /\ deploys' = deploys
  BY <1>1, <1>2 DEF GroupsInv, WorldOK, bootVars, Firm
<1>5. CASE Finish(t, "failed")
  BY <1>3, <1>4, <1>5, FinishStep DEF Over
<1>6. CASE seen = {} /\ NextMember(t)
  <2>1. a \in Nat /\ a # 0 /\ Len(Members[g]) \in Nat /\ Len(Members[g]) >= 2 /\ HeadOf(g) = Members[g][1]
    BY <1>1, MembersOfGroup DEF GroupsInv, PlacesOK
  <2>2. /\ Goto(t, IF last THEN "launch" ELSE "evict")
        /\ at' = [at EXCEPT ![t] = IF last THEN 0 ELSE a + 1]
        /\ UNCHANGED <<owner, req>>
    BY <1>6 DEF NextMember
  <2>3. t \notin fooled' => \A m \in Made(deploys) : m[1] # HeadOf(g)
    <3>1. CASE a = 1
      BY <1>2, <1>6, <2>1, <3>1, MissSees
    <3>2. CASE a # 1
      BY <1>1, <1>3, <2>1, <3>2 DEF GroupsInv, LookedOK, Looked
    <3>3. QED BY <3>1, <3>2
  <2>4. /\ Spared("launch", req[t], Firm) /\ Spared("evict", req[t], Firm)
    BY <1>1 DEF GroupsInv, SparedOK, Spared
  <2>5. /\ Looked(t, "launch", req[t], 0, Made(deploys), fooled')
        /\ Looked(t, "evict", req[t], a + 1, Made(deploys), fooled')
    BY <2>3 DEF Looked
  <2>6. CASE last
    BY <1>1, <1>3, <1>4, <2>2, <2>4, <2>5, <2>6, GoesOn DEF Inside, Loading
  <2>7. CASE ~last
    <3>1. a + 1 \in Nat /\ a + 1 # 0
      BY <2>1
    <3>2. QED BY <1>1, <1>3, <1>4, <2>2, <2>4, <2>5, <2>7, <3>1, GoesOn DEF Inside, Loading
  <2>8. QED BY <2>6, <2>7
<1>7. QED BY <1>2, <1>5, <1>6

\* Ranks are started: nobody else is looking at that head, or has looked.
LEMMA LaunchStep ==
    ASSUME GroupsInv, NEW t \in Tasks, Launch(t)
    PROVE  GroupsInv'
<1> DEFINE g == req[t].unit
           M == Made(deploys)
           N == Made(deploys')
<1>1. /\ IsGroup(t) /\ req[t].kind = "load" /\ pc[t] = "launch" /\ g \in Groups
      /\ deploys' = deploys \union {Launched(t)}
      /\ UNCHANGED <<claims, solo, answers, bootVars, late, fooled>>
      /\ GoOn(t, "ready") \/ Finish(t, "failed")
  BY DEF Launch, GroupAt, IsGroup, histVars
<1>2. Launched(t) \in Deployment
  BY <1>1, Units DEF GroupsInv, Launched, Deployment
<1>3. WorldOK' /\ Firm' = Firm
  BY <1>1, <1>2 DEF GroupsInv, WorldOK, bootVars, Firm
<1>4. N = M \union {<<HeadOf(g), t>>}
  <2>1. Launched(t).group = g /\ Launched(t).by = t
    BY DEF Launched
  <2>2. QED BY <1>1, <2>1, OneMoreMade
<1>5. \A x \in Tasks : x # t => HeadOf(req[x].unit) # HeadOf(g) \/ ~(pc[x] \in Loading)
  <2> SUFFICES ASSUME NEW x \in Tasks, pc[x] \in Loading, HeadOf(req[x].unit) = HeadOf(g)
               PROVE  x = t
    OBVIOUS
  <2>1. IsGroup(x) /\ req[x].unit \in Groups /\ pc[x] \in Inside /\ pc[t] \in Inside
    BY <1>1 DEF GroupsInv, PlacesOK, IsGroup, Loading, Inside
  <2>2. HeadOf(g) \in On(g) /\ HeadOf(g) \in On(req[x].unit)
    BY <1>1, <2>1, MembersOfGroup
  <2>3. HeadOf(g) \in Needs(t) /\ HeadOf(g) \in Needs(x)
    BY <1>1, <2>1, <2>2 DEF Needs
  <2>4. QED BY <2>1, <2>3, LocksExclude DEF GroupsInv
<1>6. \A x \in Tasks : x # t =>
         Looked(x, pc[x], req[x], at[x], N, fooled)
  <2> SUFFICES ASSUME NEW x \in Tasks, x # t
               PROVE  Looked(x, pc[x], req[x], at[x], N, fooled)
    OBVIOUS
  <2>1. Looked(x, pc[x], req[x], at[x], M, fooled)
    BY DEF GroupsInv, LookedOK
  <2> HIDE DEF M, N, g
  <2>2. \A m \in N : m \in M \/ m[1] = HeadOf(g)
    BY <1>4
  <2>3. QED BY <1>5, <2>1, <2>2 DEF Looked, Loading
<1>7. Looked(t, "launch", req[t], at[t], M, fooled)
  BY <1>1 DEF GroupsInv, LookedOK
<1>8. Looked(t, "ready", req[t], at[t], N, fooled)
  <2> HIDE DEF M, N
  <2>1. QED BY <1>4, <1>7 DEF Looked
<1>9. /\ LocksOK' /\ PlacesOK' /\ req' = req /\ pc'[t] \in {"ready", "failed"}
      /\ \A x \in Tasks : x # t => pc'[x] = pc[x] /\ at'[x] = at[x]
      /\ pc'[t] = "ready" => at'[t] = at[t]
  <2>1. CASE Finish(t, "failed")
    BY <2>1, FinishKeeps DEF GroupsInv, Over
  <2>2. CASE GoOn(t, "ready")
    <3>1. Goto(t, "ready") /\ UNCHANGED <<owner, req, at>>
      BY <2>2 DEF GoOn
    <3>2. LocksOK' /\ pc'[t] = "ready" /\ \A x \in Tasks : x # t => pc'[x] = pc[x]
      BY <1>1, <3>1, GotoKeeps DEF GroupsInv, Inside
    <3>3. PlacesOK'
      BY <1>1, <3>1, <3>2 DEF GroupsInv, PlacesOK, IsGroup, Loading
    <3>4. QED BY <3>1, <3>2, <3>3
  <2>3. QED BY <1>1, <2>1, <2>2
<1>10. \A x \in Tasks : Spared(pc'[x], req[x], Firm)
  BY <1>9 DEF GroupsInv, SparedOK, Spared
<1>11. \A x \in Tasks : Looked(x, pc'[x], req[x], at'[x], N, fooled)
  <2>1. Looked(t, pc'[t], req[t], at'[t], N, fooled)
    <3> HIDE DEF N
    <3>1. QED BY <1>8, <1>9 DEF Looked
  <2>2. QED BY <1>6, <1>9, <2>1
<1>12. SparedOK' /\ LookedOK'
  BY <1>1, <1>3, <1>9, <1>10, <1>11 DEF SparedOK, LookedOK
<1>13. QED BY <1>3, <1>9, <1>12 DEF GroupsInv

\* A claim is made by a load that has all locks of its group: nobody else works there.
LEMMA ReadyStep ==
    ASSUME GroupsInv, NEW t \in Tasks, Ready(t)
    PROVE  GroupsInv'
<1> DEFINE g == req[t].unit
<1>1. /\ IsGroup(t) /\ req[t].kind = "load" /\ pc[t] = "ready" /\ g \in Groups
      /\ UNCHANGED <<worldVars, answers, bootVars, fooled>>
  BY DEF Ready, GroupAt, IsGroup
<1>2. CASE Finish(t, "failed") /\ UNCHANGED <<claims, late>>
  BY <1>1, <1>2, QuitStep DEF histVars, Over
<1>3. CASE /\ claims' = [claims EXCEPT ![g] = req[t].model]
           /\ late' = late \ {g}
           /\ Finish(t, "done")
  <2>1. req[t].model \in Models
    BY <1>1, Units DEF GroupsInv
  <2>2. WorldOK' /\ deploys' = deploys
    BY <1>1, <1>3, <2>1 DEF GroupsInv, WorldOK, worldVars, bootVars
  <2>3. Firm' \subseteq Firm \union {g}
    BY <1>1, <1>3 DEF GroupsInv, WorldOK, Firm
  <2>4. /\ LocksOK' /\ PlacesOK' /\ pc'[t] = "done" /\ req' = req
        /\ \A x \in Tasks : x # t => pc'[x] = pc[x] /\ at'[x] = at[x]
    BY <1>3, FinishKeeps DEF GroupsInv, Over
  <2>5. ASSUME NEW x \in Tasks, x # t
        PROVE  Spared(pc[x], req[x], Firm \union {g})
    <3>1. Spared(pc[x], req[x], Firm)
      BY DEF GroupsInv, SparedOK
    <3>2. CASE pc[x] \notin Inside
      BY <3>2 DEF Spared, Inside
    <3>3. CASE pc[x] \in Inside
      <4>1. Needs(t) \intersect Needs(x) = {}
        BY <1>1, <2>5, <3>3, LocksExclude DEF GroupsInv, Inside
      <4>2. req[x].unit # g /\ req[x].unit \notin On(g)
        BY <1>1, <4>1 DEF Needs
      <4>3. IsGroup(x) => On(g) \intersect On(req[x].unit) = {}
        BY <1>1, <4>1 DEF Needs
      <4>4. pc[x] \in {"stop", "verify", "evict", "launch"} => IsGroup(x)
        BY DEF GroupsInv, PlacesOK, Loading
      <4>5. QED BY <3>1, <4>2, <4>3, <4>4 DEF Spared
    <3>4. QED BY <3>2, <3>3
  <2>6. \A x \in Tasks : Spared(pc'[x], req[x], Firm \union {g})
    BY <2>4, <2>5 DEF Spared
  <2>7. \A x \in Tasks : Looked(x, pc'[x], req[x], at'[x], Made(deploys), fooled)
    BY <2>4 DEF GroupsInv, LookedOK, Looked
  <2>8. SparedOK'
    <3> DEFINE F == Firm'
    <3> SUFFICES ASSUME NEW x \in Tasks PROVE Spared(pc'[x], req[x], F)
      BY <2>4 DEF SparedOK
    <3>1. Spared(pc'[x], req[x], Firm \union {g}) /\ F \subseteq Firm \union {g}
      BY <2>3, <2>6
    <3> HIDE DEF F
    <3>2. QED BY <3>1, SparedByFewer
  <2>9. LookedOK'
    BY <1>1, <2>2, <2>4, <2>7 DEF LookedOK
  <2>10. QED BY <2>2, <2>4, <2>8, <2>9 DEF GroupsInv
<1>4. QED BY <1>2, <1>3 DEF Ready

\* An unload that is not named gets a name, and keeps its unit.
LEMMA NamesStep ==
    ASSUME GroupsInv, NEW t \in Tasks, UnloadNames(t)
    PROVE  GroupsInv'
<1> DEFINE g == req[t].unit
           r == req[t]
<1>1. /\ g \in Groups /\ r.kind = "unload" /\ pc[t] = "held" /\ IsGroup(t)
      /\ pc' = [pc EXCEPT ![t] = "unload"]
      /\ UNCHANGED <<owner, at, claims, worldVars, answers, bootVars, histVars>>
  BY DEF UnloadNames, GroupAt, IsGroup, Goto
<1>2. /\ r \in Requests /\ r \in GroupRequest
      /\ pc \in [Tasks -> Waiting \union Inside \union Over] /\ req \in [Tasks -> Requests]
  BY <1>1, Units DEF GroupsInv, LocksOK
<1>3. PICK m \in Named(g, r) : req' = [req EXCEPT ![t].model = m]
  BY DEF UnloadNames
<1>4. m \in Models \/ m = r.model
  <2>1. claims[g] = None \/ claims[g] \in Models
    BY <1>1 DEF GroupsInv, WorldOK
  <2>2. \A seen \in Sees(HeadOf(g)) : seen \subseteq Models
    BY DEF Sees, Port, GroupsInv, WorldOK, Deployment
  <2>3. QED BY <2>1, <2>2 DEF Named
<1> DEFINE n == [r EXCEPT !.model = m]
<1>5. n \in Requests /\ n.unit = g /\ n.kind = "unload"
  <2>1. n.unit = g /\ n.kind = "unload"
    BY <1>1, <1>2 DEF GroupRequest
  <2>2. CASE m = r.model
    <3>1. n = r
      BY <1>2, <2>2 DEF GroupRequest
    <3>2. QED BY <1>2, <2>1, <3>1
  <2>3. CASE m \in Models
    BY <1>1, <1>2, <2>1, <2>3, GroupsAssumption
  <2>4. QED BY <1>4, <2>2, <2>3
<1>6. /\ req' = [req EXCEPT ![t] = n] /\ req' \in [Tasks -> Requests]
      /\ \A x \in Tasks : req'[x].unit = req[x].unit /\ req'[x].kind = req[x].kind
  <2>1. req' = [req EXCEPT ![t] = n]
    BY <1>2, <1>3
  <2> HIDE DEF n
  <2>2. QED BY <1>1, <1>2, <1>5, <2>1
<1>7. /\ pc' \in [Tasks -> Waiting \union Inside \union Over] /\ pc'[t] = "unload"
      /\ \A x \in Tasks : x # t => pc'[x] = pc[x]
  BY <1>1, <1>2 DEF Inside
<1>8. \A x \in Tasks : /\ Owned(x)' = Owned(x) /\ IsGroup(x)' = IsGroup(x)
                       /\ Needs(x)' = Needs(x)
  BY <1>1, <1>6 DEF Owned, IsGroup, Needs
<1>9. LocksOK'
  <2>1. ASSUME NEW x \in Tasks PROVE HasLocks(x)'
    <3>1. HasLocks(x)
      BY DEF GroupsInv, LocksOK
    <3>2. CASE x = t
      <4>1. Owned(x) = Needs(x)
        BY <1>1, <3>1, <3>2 DEF HasLocks, Inside
      <4>2. QED BY <1>7, <1>8, <3>2, <4>1 DEF HasLocks, Over
    <3>3. CASE x # t
      BY <1>6, <1>7, <1>8, <3>1, <3>3 DEF HasLocks
    <3>4. QED BY <3>2, <3>3
  <2>2. QED BY <1>1, <1>6, <1>7, <2>1 DEF GroupsInv, LocksOK
<1>10. PlacesOK'
  BY <1>1, <1>6, <1>7, <1>8 DEF GroupsInv, PlacesOK, Loading
<1>11. WorldOK' /\ Firm' = Firm /\ deploys' = deploys /\ fooled' = fooled
  BY <1>1, SameWorld DEF histVars
<1>12. SparedOK'
  <2>1. ASSUME NEW x \in Tasks PROVE Spared(pc'[x], req'[x], Firm)
    <3>1. Spared(pc[x], req[x], Firm)
      BY DEF GroupsInv, SparedOK
    <3>2. CASE x = t
      BY <1>7, <3>2 DEF Spared
    <3>3. CASE x # t
      BY <1>6, <1>7, <3>1, <3>3 DEF Spared
    <3>4. QED BY <3>2, <3>3
  <2>2. QED BY <1>11, <2>1 DEF SparedOK
<1>13. LookedOK'
  <2>1. ASSUME NEW x \in Tasks
        PROVE  Looked(x, pc'[x], req'[x], at[x], Made(deploys), fooled)
    <3>1. Looked(x, pc[x], req[x], at[x], Made(deploys), fooled)
      BY DEF GroupsInv, LookedOK
    <3>2. CASE x = t
      BY <1>7, <3>2 DEF Looked
    <3>3. CASE x # t
      BY <1>6, <1>7, <3>1, <3>3 DEF Looked
    <3>4. QED BY <3>2, <3>3
  <2>2. QED BY <1>1, <1>11, <2>1 DEF LookedOK
<1>14. QED BY <1>9, <1>10, <1>11, <1>12, <1>13 DEF GroupsInv

\* The other steps that hold a group's locks: an unload, an eviction.
LEMMA UnloadStep ==
    ASSUME GroupsInv, NEW t \in Tasks, Unload(t) \/ Evict(t)
    PROVE  GroupsInv'
<1> DEFINE g == req[t].unit
<1>1. /\ g \in Groups /\ Finish(t, "done") /\ UNCHANGED <<answers, bootVars, fooled>>
  BY DEF Unload, Evict, GroupAt, IsGroup
<1>2. PICK m : StopJob(g, m)
  BY DEF Unload, Evict
<1>3. /\ claims' \in [Groups -> Models \union {None}]
      /\ deploys' \subseteq Deployment /\ solo' \subseteq Nodes
      /\ Firm' \subseteq Firm
      /\ Made(deploys') \subseteq Made(deploys)
  BY <1>1, <1>2, StopMoves DEF GroupsInv
<1>4. WorldOK'
  BY <1>1, <1>3 DEF GroupsInv, WorldOK, bootVars
<1>5. QED BY <1>1, <1>3, <1>4, FinishStep DEF Over

-----------------------------------------------------------------------------
(* A member's own load and unload.                                         *)

\* No firm claim is on a node that admits a load.
LEMMA NotClaimed ==
    ASSUME WorldOK, NEW n, ClaimedGroups(n) = {}, NEW h \in Firm
    PROVE  n \notin On(h)
BY DEF ClaimedGroups, Firm

LEMMA NodeGoesOn ==
    ASSUME GroupsInv, NEW t \in Tasks, pc[t] \in {"held", "clear"}, ~IsGroup(t),
           NEW w \in {"clear", "nodeLaunch"}, GoOn(t, w), WorldOK', Firm' = Firm,
           Made(deploys') \subseteq Made(deploys), fooled' = fooled,
           ClaimedGroups(req[t].unit) = {} \/ (w = "clear" /\ req[t].kind = "load")
    PROVE  GroupsInv'
<1>1. Goto(t, w) /\ at' = [at EXCEPT ![t] = 0] /\ UNCHANGED <<owner, req>> /\ pc[t] \in Inside
  BY DEF GoOn, GroupsInv, PlacesOK, Inside
<1>2. Spared(w, req[t], Firm')
  BY NotClaimed DEF GroupsInv, Spared
<1>3. Looked(t, w, req[t], 0, Made(deploys'), fooled')
  BY DEF Looked
<1>4. QED BY <1>1, <1>2, <1>3, GoesOn DEF Inside, Loading

LEMMA NodeWorld ==
    ASSUME GroupsInv, UNCHANGED <<claims, answers, bootVars, histVars>>,
           solo' \subseteq Nodes, deploys' \subseteq deploys
    PROVE  /\ WorldOK' /\ Firm' = Firm /\ fooled' = fooled
           /\ Made(deploys') \subseteq Made(deploys)
BY FewerMade DEF GroupsInv, WorldOK, Firm, bootVars, histVars

\* A node that has been cleared has no more than before.
LEMMA ClearLeaves ==
    ASSUME WorldOK, NEW n, ClearNode(n)
    PROVE  solo' \subseteq Nodes /\ deploys' \subseteq deploys
BY DEF ClearNode, WorldOK, worldVars

LEMMA NodeSteps ==
    ASSUME GroupsInv, NEW t \in Tasks, NodeStep(t)
    PROVE  GroupsInv'
<1> DEFINE n == req[t].unit
<1>0. n \in Nodes \/ IsGroup(t)
  BY Units DEF GroupsInv
<1>1. CASE NodeLoad(t)
  <2>1. /\ ~IsGroup(t) /\ req[t].kind = "load" /\ pc[t] = "held"
        /\ UNCHANGED <<claims, worldVars, answers, bootVars, histVars>>
        /\ \/ Finish(t, "done") \/ Finish(t, "failed")
           \/ GoOn(t, "clear") \/ Admit(t)
    BY <1>1 DEF NodeLoad, NodeAt
  <2>2. /\ WorldOK' /\ Firm' = Firm /\ fooled' = fooled
        /\ Made(deploys') \subseteq Made(deploys)
    BY <2>1, NodeWorld DEF worldVars, GroupsInv, WorldOK
  <2>3. CASE Finish(t, "done") \/ Finish(t, "failed")
    BY <2>2, <2>3, FinishStep DEF Over
  <2>4. CASE GoOn(t, "clear")
    BY <2>1, <2>2, <2>4, NodeGoesOn
  <2>5. CASE GoOn(t, "nodeLaunch") /\ ClaimedGroups(n) = {}
    BY <2>1, <2>2, <2>5, NodeGoesOn
  <2>6. QED BY <2>1, <2>3, <2>4, <2>5 DEF Admit, MayAdmit
<1>2. CASE NodeClear(t)
  <2>1. /\ ~IsGroup(t) /\ req[t].kind = "load" /\ pc[t] = "clear"
        /\ UNCHANGED <<claims, answers, bootVars, histVars>>
        /\ ClearNode(n) /\ Admit(t)
    BY <1>2 DEF NodeClear, NodeAt
  <2>2. solo' \subseteq Nodes /\ deploys' \subseteq deploys
    BY <2>1, ClearLeaves DEF GroupsInv
  <2>3. /\ WorldOK' /\ Firm' = Firm /\ fooled' = fooled
        /\ Made(deploys') \subseteq Made(deploys)
    BY <2>1, <2>2, NodeWorld
  <2>4. CASE Finish(t, "failed")
    BY <2>3, <2>4, FinishStep DEF Over
  <2>5. CASE GoOn(t, "nodeLaunch") /\ ClaimedGroups(n) = {}
    BY <2>1, <2>3, <2>5, NodeGoesOn
  <2>6. QED BY <2>1, <2>4, <2>5 DEF Admit, MayAdmit
<1>3. CASE NodeLaunch(t)
  <2>1. /\ ~IsGroup(t)
        /\ UNCHANGED <<claims, deploys, answers, bootVars, histVars>>
        /\ solo' = solo \union {n} \/ solo' = solo
        /\ Finish(t, "done") \/ Finish(t, "failed")
    BY <1>3 DEF NodeLaunch, NodeAt
  <2>2. solo' \subseteq Nodes /\ deploys' \subseteq deploys
    BY <1>0, <2>1 DEF GroupsInv, WorldOK
  <2>3. /\ WorldOK' /\ Firm' = Firm /\ fooled' = fooled
        /\ Made(deploys') \subseteq Made(deploys)
    BY <2>1, <2>2, NodeWorld
  <2>4. QED BY <2>1, <2>3, FinishStep DEF Over
<1>4. CASE NodeUnload(t)
  <2>1. /\ ~IsGroup(t) /\ req[t].kind = "unload" /\ pc[t] = "held"
        /\ UNCHANGED <<claims, worldVars, answers, bootVars, histVars>>
        /\ \/ Finish(t, "failed")
           \/ ClaimedGroups(n) = {} /\ GoOn(t, "clear")
    BY <1>4 DEF NodeUnload, NodeAt
  <2>2. /\ WorldOK' /\ Firm' = Firm /\ fooled' = fooled
        /\ Made(deploys') \subseteq Made(deploys)
    BY <2>1, NodeWorld DEF worldVars, GroupsInv, WorldOK
  <2>3. CASE Finish(t, "failed")
    BY <2>2, <2>3, FinishStep DEF Over
  <2>4. CASE ClaimedGroups(n) = {} /\ GoOn(t, "clear")
    BY <2>1, <2>2, <2>4, NodeGoesOn
  <2>5. QED BY <2>1, <2>3, <2>4
<1>5. CASE NodeUnloads(t)
  <2>1. /\ ~IsGroup(t) /\ Finish(t, "done")
        /\ UNCHANGED <<claims, answers, bootVars, histVars>>
        /\ ClearNode(n) \/ (solo' \in {solo, solo \ {n}} /\ UNCHANGED deploys)
    BY <1>5 DEF NodeUnloads, NodeAt
  <2>2. solo' \subseteq Nodes /\ deploys' \subseteq deploys
    BY <2>1, ClearLeaves DEF GroupsInv, WorldOK
  <2>3. /\ WorldOK' /\ Firm' = Firm /\ fooled' = fooled
        /\ Made(deploys') \subseteq Made(deploys)
    BY <2>1, <2>2, NodeWorld
  <2>4. QED BY <2>1, <2>3, FinishStep DEF Over
<1>6. QED BY <1>1, <1>2, <1>3, <1>4, <1>5 DEF NodeStep

-----------------------------------------------------------------------------
(* Steps of no task: status(), a restart, the deployments themselves.      *)

\* The tasks stay where they are.
LEMMA TasksStay ==
    ASSUME GroupsInv, UNCHANGED <<owner, pc, req, at>>
    PROVE  LocksOK' /\ PlacesOK'
<1>1. \A t \in Tasks : HasLocks(t) => HasLocks(t)'
  BY DEF HasLocks, Owned, Needs, IsGroup
<1>2. LocksOK'
  BY <1>1 DEF GroupsInv, LocksOK
<1>3. QED BY <1>2 DEF GroupsInv, PlacesOK, IsGroup

\* A claim that status() makes while a swap is under way is not firm.
LEMMA ReclaimStep ==
    ASSUME GroupsInv, NEW g \in Groups, NEW m \in Models, Reclaim(g, m),
           UNCHANGED <<owner, pc, req, at, worldVars, fooled>>,
           answers' \subseteq answers, booted' \in Nat \ {0}
    PROVE  GroupsInv'
<1>1. LocksOK' /\ PlacesOK'
  BY TasksStay
<1>2. WorldOK'
  BY DEF GroupsInv, WorldOK, Reclaim, worldVars
<1>3. Firm' \subseteq Firm \/ \A t \in Tasks : pc[t] \notin Inside
  BY DEF GroupsInv, WorldOK, Reclaim, Reclaims, Firm
<1>4. \A t \in Tasks : Spared(pc[t], req[t], Firm')
  <2> DEFINE F == Firm'
  <2> SUFFICES ASSUME NEW t \in Tasks PROVE Spared(pc[t], req[t], F)
    OBVIOUS
  <2>1. F \subseteq Firm \/ pc[t] \notin Inside
    BY <1>3
  <2>2. Spared(pc[t], req[t], Firm)
    BY DEF GroupsInv, SparedOK
  <2> HIDE DEF F
  <2>3. pc[t] \notin Inside => Spared(pc[t], req[t], F)
    BY DEF Spared, Inside
  <2>4. QED BY <2>1, <2>2, <2>3, SparedByFewer
<1>5. SparedOK'
  BY <1>4 DEF SparedOK
<1>6. LookedOK'
  BY DEF GroupsInv, LookedOK, worldVars
<1>7. QED BY <1>1, <1>2, <1>5, <1>6 DEF GroupsInv

\* Nothing is claimed by a step that leaves claims, tasks and ranks alone.
LEMMA NothingMoves ==
    ASSUME GroupsInv, UNCHANGED <<owner, pc, req, at, claims, late, worldVars, fooled>>,
           answers' \subseteq Groups \X Models, booted' \in Nat \ {0}
    PROVE  GroupsInv'
<1>1. LocksOK' /\ PlacesOK'
  BY TasksStay
<1>2. WorldOK' /\ Firm' = Firm
  BY DEF GroupsInv, WorldOK, worldVars, Firm
<1>3. SparedOK' /\ LookedOK'
  BY <1>2 DEF GroupsInv, SparedOK, LookedOK, worldVars
<1>4. QED BY <1>1, <1>2, <1>3 DEF GroupsInv

\* What answers on a port is a model.
LEMMA PortModels ==
    ASSUME WorldOK, NEW n, NEW seen \in Sees(n)
    PROVE  seen \subseteq Models
<1>1. Port(n) \subseteq Models
  BY GroupsAssumption DEF WorldOK, Port, Deployment
<1>2. QED BY <1>1 DEF Sees

LEMMA StatusSteps ==
    ASSUME GroupsInv, StatusStep
    PROVE  GroupsInv'
<1>1. ASSUME NEW g \in Groups, Ask(g) PROVE GroupsInv'
  <2>1. Port(HeadOf(g)) \subseteq Models
    BY PortModels DEF Sees, GroupsInv
  <2>2. answers' \subseteq Groups \X Models
    BY <1>1, <2>1 DEF Ask, GroupsInv, WorldOK
  <2>3. booted' \in Nat \ {0}
    BY <1>1 DEF Ask, bootVars, GroupsInv, WorldOK
  <2>4. QED BY <1>1, <2>2, <2>3, NothingMoves DEF Ask, histVars
<1>2. ASSUME NEW g \in Groups, NEW m \in Models, Judge(g, m) PROVE GroupsInv'
  <2>1. booted' \in Nat \ {0} /\ answers' \subseteq answers
    BY <1>2 DEF Judge, bootVars, GroupsInv, WorldOK
  <2>2. QED BY <1>2, <2>1, ReclaimStep DEF Judge
<1>3. QED BY <1>1, <1>2 DEF StatusStep

LEMMA BootStep ==
    ASSUME GroupsInv, BootReclaim
    PROVE  GroupsInv'
<1> DEFINE g == BootOrder[booted]
<1>1. /\ booted \in 1..Len(BootOrder) /\ booted' \in Nat \ {0}
      /\ UNCHANGED <<owner, pc, req, at, worldVars, answers, fooled>>
  BY GroupsAssumption DEF BootReclaim, GroupsInv, WorldOK
<1>2. g \in Groups
  BY <1>1, GroupsAssumption
<1>3. CASE UNCHANGED <<claims, late>>
  BY <1>1, <1>3, NothingMoves DEF GroupsInv, WorldOK
<1>4. CASE \E seen \in Sees(HeadOf(g)) : \E m \in seen : Reclaim(g, m)
  <2>1. PICK m \in Models : Reclaim(g, m)
    BY <1>4, PortModels DEF GroupsInv
  <2>2. QED BY <1>1, <1>2, <2>1, ReclaimStep
<1>5. QED BY <1>3, <1>4 DEF BootReclaim

LEMMA RestartStep ==
    ASSUME GroupsInv, Restart
    PROVE  GroupsInv'
<1>1. /\ owner' = [l \in Nodes \union Groups |-> None]
      /\ pc' = [t \in Tasks |-> IF pc[t] \in {"asks"} \union Over THEN pc[t] ELSE "failed"]
      /\ at' = [t \in Tasks |-> 0]
      /\ claims' = [g \in Groups |-> None]
      /\ answers' = {} /\ booted' = 1 /\ req' = req /\ deploys' = deploys /\ solo' = solo
  BY DEF Restart, worldVars
<1>2. \A t \in Tasks : Owned(t)' = {} /\ pc'[t] \in {"asks"} \union Over /\ at'[t] = 0
  BY <1>1, GroupsAssumption DEF Owned, Over
<1>3. LocksOK'
  <2>1. pc' \in [Tasks -> Waiting \union Inside \union Over]
    BY <1>1 DEF Waiting, Over
  <2>2. QED BY <1>1, <1>2, <2>1 DEF GroupsInv, LocksOK, HasLocks, Inside, Over
<1>4. PlacesOK'
  BY <1>1, <1>2 DEF PlacesOK, Loading, Over
<1>5. WorldOK'
  BY <1>1 DEF GroupsInv, WorldOK
<1>6. SparedOK' /\ LookedOK'
  BY <1>2 DEF SparedOK, LookedOK, Spared, Looked, Over
<1>7. QED BY <1>3, <1>4, <1>5, <1>6 DEF GroupsInv

\* A deployment that comes up is the same one, and one that dies is gone.
LEMMA WorldSteps ==
    ASSUME GroupsInv, WorldStep
    PROVE  GroupsInv'
<1>1. PICK d \in deploys : ComesUp(d) \/ Dies(d)
  BY DEF WorldStep
<1> DEFINE e == [d EXCEPT !.up = TRUE]
           M == Made(deploys)
           N == Made(deploys')
<1>2. /\ UNCHANGED <<owner, pc, req, at, claims, solo, answers, bootVars, histVars>>
      /\ deploys' = deploys \ {d} \/ deploys' = (deploys \ {d}) \union {e}
  BY <1>1 DEF ComesUp, Dies
<1>3. d \in Deployment
  BY DEF GroupsInv, WorldOK
<1>4. e \in Deployment /\ e.group = d.group /\ e.by = d.by
  BY <1>3 DEF Deployment
<1>5. N \subseteq M
  <2>1. Made(deploys \ {d}) \subseteq M
    BY FewerMade
  <2>2. <<HeadOf(d.group), d.by>> \in M
    BY DEF Made
  <2> HIDE DEF e
  <2>3. Made((deploys \ {d}) \union {e}) = Made(deploys \ {d}) \union {<<HeadOf(d.group), d.by>>}
    BY <1>4, OneMoreMade
  <2>4. QED BY <1>2, <2>1, <2>2, <2>3
<1>6. LocksOK' /\ PlacesOK'
  BY <1>2, TasksStay
<1>7. WorldOK' /\ Firm' = Firm
  BY <1>2, <1>4 DEF GroupsInv, WorldOK, bootVars, histVars, Firm
<1>8. SparedOK'
  BY <1>2, <1>7 DEF GroupsInv, SparedOK
<1>9. \A t \in Tasks : Looked(t, pc[t], req[t], at[t], N, fooled)
  <2> SUFFICES ASSUME NEW t \in Tasks PROVE Looked(t, pc[t], req[t], at[t], N, fooled)
    OBVIOUS
  <2>1. Looked(t, pc[t], req[t], at[t], M, fooled)
    BY DEF GroupsInv, LookedOK
  <2> HIDE DEF M, N
  <2>2. QED BY <1>5, <2>1, LookedAtFewer
<1>10. LookedOK'
  BY <1>2, <1>9 DEF LookedOK, histVars
<1>11. QED BY <1>6, <1>7, <1>8, <1>10 DEF GroupsInv

-----------------------------------------------------------------------------
(* Theorems.                                                               *)

LEMMA GroupsStep == GroupsInv /\ [Next]_vars => GroupsInv'
<1> SUFFICES ASSUME GroupsInv, [Next]_vars PROVE GroupsInv'
  OBVIOUS
<1>1. ASSUME NEW t \in Tasks, TaskStep(t) PROVE GroupsInv'
  <2>1. CASE Lock(t) \/ LockRefused(t) \/ TimeOut(t)
    BY <2>1, LockStep
  <2>2. CASE GroupStep(t)
    BY <2>2, QuittingStep, ReloadStep, StopOldStep, VerifyGoneStep, EvictMemberStep,
       LaunchStep, ReadyStep, NamesStep, UnloadStep DEF GroupStep, LoadStep
  <2>3. CASE NodeStep(t)
    BY <2>3, NodeSteps
  <2>4. QED BY <1>1, <2>1, <2>2, <2>3 DEF TaskStep
<1>2. CASE UNCHANGED vars
  <2>1. /\ UNCHANGED <<owner, pc, req, at, claims, late, worldVars, fooled>>
        /\ answers' = answers /\ booted' = booted
    BY <1>2 DEF vars, worldVars, bootVars, histVars
  <2>2. QED BY <2>1, NothingMoves DEF GroupsInv, WorldOK
<1>3. QED BY <1>1, <1>2, StatusSteps, RestartStep, BootStep, WorldSteps DEF Next

\* Locks are held as the places of the tasks say, no firm claim of others is on the nodes
\* of a swap, and on a head that a load has looked at there is no other's deployment
\* (spark_group.py, spark_unit.py, group_state.py).
THEOREM GroupsInvariant == Spec => []GroupsInv
<1>1. QED BY GroupsInit, GroupsStep, PTL DEF Spec

\* A swap of a group holds its lock and then its members' (_swap_lock of spark_group.py),
\* whatever the groups have in common.
THEOREM GroupsTyped == Spec => []TypeOK
<1>1. GroupsInv => TypeOK
  <2> SUFFICES ASSUME GroupsInv PROVE TypeOK
    OBVIOUS
  <2>1. ASSUME NEW t \in Tasks
        PROVE  /\ pc[t] \in Over \union {"asks"} => Owned(t) = {}
               /\ pc[t] = "members" => req[t].unit \in Owned(t)
               /\ pc[t] \in Inside =>
                     Owned(t) = {req[t].unit} \union IF IsGroup(t) THEN On(req[t].unit) ELSE {}
               /\ at[t] # 0 <=> pc[t] = "evict"
    BY DEF GroupsInv, LocksOK, HasLocks, PlacesOK, Needs
  <2>2. QED BY <2>1 DEF GroupsInv, LocksOK, WorldOK, TypeOK
<1>2. QED BY <1>1, GroupsInvariant, PTL

\* A set of places in a row that is not empty has a last one.
LEMMA HasLast ==
    ASSUME NEW N \in Nat, NEW P, P \subseteq 1..N, P # {}
    PROVE  \E p \in P : \A q \in P : q <= p
<1> DEFINE D == {N - p : p \in P}
<1>1. D \subseteq Nat
  OBVIOUS
<1>0. D # {}
  <2>1. PICK p : p \in P
    OBVIOUS
  <2>2. N - p \in D
    BY <2>1
  <2>3. QED BY <2>2
<1> HIDE DEF D
<1>2. \E x \in D : \A y \in D : ~ (<<y, x>> \in OpToRel(<, Nat))
  BY <1>0, <1>1, NatLessThanWellFounded, WFMin
<1>3. PICK x \in D : \A y \in D : ~ (<<y, x>> \in OpToRel(<, Nat))
  BY <1>2
<1>4. \A y \in D : <<y, x>> \in Nat \X Nat /\ <<y, x>>[1] = y /\ <<y, x>>[2] = x
  BY <1>1
<1>5. \A y \in D : ~(y < x)
  BY <1>3, <1>4 DEF OpToRel
<1>6. PICK p \in P : x = N - p
  BY DEF D
<1>7. ASSUME NEW q \in P PROVE q <= p
  <2>1. N - q \in D
    BY DEF D
  <2>2. ~(N - q < N - p)
    BY <1>5, <1>6, <2>1
  <2>3. p \in Int /\ q \in Int
    OBVIOUS
  <2>4. QED BY <2>2, <2>3
<1>8. QED BY <1>7

\* A task that blocks another, and waits itself, waits for a later member.
LEMMA BlockersAreAhead ==
    ASSUME GroupsInv, NEW pos \in [Nodes -> 1..Cardinality(Nodes)],
           \A g \in Groups : \A i, j \in 1..Len(Members[g]) :
              i < j => pos[Members[g][i]] < pos[Members[g][j]],
           NEW t \in Tasks, NEW b \in Tasks, BlockedBy(t) = b, pc[b] \in Waiting
    PROVE  /\ pc[b] = "members" /\ NextLock(b) \in Nodes
           /\ pc[t] = "members" =>
                 NextLock(t) \in Nodes /\ pos[NextLock(t)] < pos[NextLock(b)]
<1>1. pc[t] \in Waiting /\ owner[NextLock(t)] = b
  BY GroupsAssumption DEF BlockedBy
<1>2. NextLock(t) \in Owned(b)
  BY <1>1, NextIsLock DEF Owned, GroupsInv
<1>3. pc[b] = "members"
  BY <1>2 DEF GroupsInv, LocksOK, HasLocks, Waiting
<1> DEFINE g == req[b].unit
<1>4. /\ IsGroup(b) /\ g \in Groups
      /\ \E k \in 0..(Len(Members[g]) - 1) :
            /\ Owned(b) = {g} \union Prefix(g, k)
            /\ NextLock(b) = Members[g][k + 1]
            /\ k + 1 \in 1..Len(Members[g])
  BY <1>3, NextMemberLock DEF IsGroup, GroupsInv
<1>5. PICK k \in 0..(Len(Members[g]) - 1) :
            /\ Owned(b) = {g} \union Prefix(g, k)
            /\ NextLock(b) = Members[g][k + 1]
            /\ k + 1 \in 1..Len(Members[g])
  BY <1>4
<1> HIDE DEF g
<1>6. /\ Len(Members[g]) \in Nat /\ g \notin Nodes
      /\ \A i \in 1..Len(Members[g]) : Members[g][i] \in Nodes
  BY <1>4, MembersOfGroup
<1>7. NextLock(b) \in Nodes
  BY <1>5, <1>6
<1>8. ASSUME pc[t] = "members"
      PROVE  NextLock(t) \in Nodes /\ pos[NextLock(t)] < pos[NextLock(b)]
  <2>1. NextLock(t) \in Nodes
    BY <1>8, NextMemberLock, MembersOfGroup DEF GroupsInv, IsGroup
  <2>2. PICK i \in 1..k : NextLock(t) = Members[g][i]
    BY <1>2, <1>5, <1>6, <2>1 DEF Prefix
  <2>3. i \in 1..Len(Members[g]) /\ i < k + 1
    BY <1>5, <1>6
  <2>4. QED BY <1>4, <1>5, <2>1, <2>2, <2>3
<1>9. QED BY <1>3, <1>7, <1>8

\* Whatever the groups share: among any tasks there is one that none of the others blocks
\* (spark_group.py _swap_lock: "every group takes shared members in the same order").
THEOREM SwapsNeverCircle == Spec => []NoCircularWait
<1>1. GroupsInv => NoCircularWait
  <2> SUFFICES ASSUME GroupsInv, NEW S \in SUBSET Tasks, S # {},
                      \A t \in S : BlockedBy(t) \in S
               PROVE  FALSE
    BY DEF NoCircularWait
  <2>1. PICK pos \in [Nodes -> 1..Cardinality(Nodes)] :
           \A g \in Groups : \A i, j \in 1..Len(Members[g]) :
              i < j => pos[Members[g][i]] < pos[Members[g][j]]
    BY GroupsAssumption
  <2>2. \A t \in S : pc[t] \in Waiting
    BY GroupsAssumption DEF BlockedBy
  <2>3. \A t \in S : /\ pc[BlockedBy(t)] = "members" /\ NextLock(BlockedBy(t)) \in Nodes
                     /\ pc[t] = "members" =>
                           NextLock(t) \in Nodes /\ pos[NextLock(t)] < pos[NextLock(BlockedBy(t))]
    BY <2>1, <2>2, BlockersAreAhead
  <2> DEFINE W == {t \in S : pc[t] = "members"}
             P == {pos[NextLock(t)] : t \in W}
  <2>4. \A t \in W : NextLock(t) \in Nodes
    BY <2>3
  <2>5. Cardinality(Nodes) \in Nat
    BY GroupsAssumption, FS_CardinalityType
  <2>6. P \subseteq 1..Cardinality(Nodes) /\ P # {}
    <3>1. P # {}
      BY <2>3
    <3>2. P \subseteq 1..Cardinality(Nodes)
      BY <2>1, <2>4
    <3>3. QED BY <3>1, <3>2
  <2>7. PICK p \in P : \A q \in P : q <= p
    <3> HIDE DEF P
    <3>1. QED BY <2>5, <2>6, HasLast
  <2>8. PICK t \in W : p = pos[NextLock(t)]
    OBVIOUS
  <2>9. BlockedBy(t) \in W /\ p < pos[NextLock(BlockedBy(t))]
    BY <2>3, <2>8
  <2>10. pos[NextLock(BlockedBy(t))] \in P
    BY <2>9
  <2>11. p \in Int /\ pos[NextLock(BlockedBy(t))] \in Int
    BY <2>6, <2>10
  <2>12. QED BY <2>7, <2>9, <2>10, <2>11
<1>2. QED BY <1>1, GroupsInvariant, PTL

\* A step of another task, of status(), or of the world leaves a task where it is;
\* a step of its own changes no other's place.
LEMMA WhoMoves ==
    ASSUME GroupsInv, [Next]_vars, NEW t \in Tasks, pc'[t] # pc[t]
    PROVE  TaskStep(t) \/ Restart
<1>1. ASSUME NEW x \in Tasks, x # t, TaskStep(x) PROVE pc'[t] = pc[t]
  BY <1>1 DEF GroupsInv, LocksOK, TaskStep, Lock, LockRefused, TimeOut, GroupStep, LoadStep,
     LoadConflict, LoadServed, LoadReload, LoadFresh, StopOld, VerifyGone, StillThere,
     EvictMember, NextMember, Launch, LaunchFails, Ready, NeverReady, UnloadNames, Unload,
     EvictNothing, EvictRefused, Evict, NodeStep, NodeLoad, NodeClear, NodeLaunch, NodeUnload, NodeUnloads,
     Admit, Finish, GoOn, Goto
<1>2. pc' = pc \/ Restart \/ \E x \in Tasks : TaskStep(x)
  BY DEF Next, vars, StatusStep, Ask, Judge, BootReclaim, WorldStep, ComesUp, Dies
<1>3. QED BY <1>1, <1>2

\* A launch or a clearing unload hits no rank of a firmly claimed deployment (spark_unit.py
\* _admit and unload, spark_group.py load: "a claim owns the whole node").
THEOREM ClaimedRanksSpared == Spec => ClaimedRanksAreSpared
<1> DEFINE A == \A t \in Tasks : \A n \in Hits(t) : \A d \in Ranks(n) :
                   claims[d.group] = None \/ d.group \in late
<1>1. GroupsInv /\ [Next]_vars => A
  <2> SUFFICES ASSUME GroupsInv, [Next]_vars, NEW t \in Tasks, NEW n \in Hits(t),
                      NEW d \in Ranks(n)
               PROVE  d.group \notin Firm
    BY DEF GroupsInv, WorldOK, Ranks, Deployment, Firm
  <2>1. n \in On(d.group) /\ Spared(pc[t], req[t], Firm)
    BY DEF Ranks, GroupsInv, SparedOK
  <2>2. CASE pc[t] = "launch" /\ n \in On(req[t].unit)
    BY <2>1, <2>2 DEF Spared
  <2>3. CASE pc[t] = "nodeLaunch" /\ n = req[t].unit
    BY <2>1, <2>3 DEF Spared
  <2>4. CASE pc[t] = "clear" /\ req[t].kind = "unload" /\ n = req[t].unit
    BY <2>1, <2>4 DEF Spared
  <2>5. QED BY <2>2, <2>3, <2>4 DEF Hits
<1>2. QED BY <1>1, GroupsInvariant, PTL DEF Spec, ClaimedRanksAreSpared

\* A load that reports success, and whose looks at the head were right, has launched what
\* answers there (spark_group.py load, verify_gone: "a reload that never happened").
THEOREM SuccessIsOwn == Spec => SuccessIsOwnLaunch
<1> DEFINE B == \A t \in Tasks :
                   pc[t] = "ready" /\ pc'[t] = "done" =>
                      \/ t \in fooled
                      \/ \E d \in deploys : d.up /\ d.by = t
<1>1. GroupsInv /\ [Next]_vars => B
  <2> SUFFICES ASSUME GroupsInv, [Next]_vars, NEW t \in Tasks, pc[t] = "ready", pc'[t] = "done",
                      t \notin fooled
               PROVE  \E d \in deploys : d.up /\ d.by = t
    OBVIOUS
  <2>1. TaskStep(t) \/ Restart
    BY WhoMoves
  <2>2. ~Restart
    BY DEF Restart, Over, GroupsInv, LocksOK
  <2>3. pc' # [pc EXCEPT ![t] = "failed"]
    BY DEF GroupsInv, LocksOK
  <2>4. Ready(t)
    BY <2>1, <2>2, <2>3 DEF TaskStep, Lock, LockRefused, TimeOut, GroupStep, LoadStep, Waiting,
       LoadConflict, LoadServed, LoadReload, LoadFresh, StopOld, VerifyGone, StillThere,
       EvictMember, Launch, LaunchFails, NeverReady, UnloadNames, Unload, EvictNothing,
       EvictRefused, Evict, NodeStep, NodeLoad, NodeClear, NodeLaunch, NodeUnload, NodeUnloads, GroupAt, NodeAt,
       Finish, Goto
  <2>5. PICK d \in deploys : d.up /\ HeadOf(d.group) = HeadOf(req[t].unit)
    BY <2>4 DEF Ready, Port
  <2>6. <<HeadOf(d.group), d.by>> \in Made(deploys)
    BY DEF Made
  <2>7. \A m \in Made(deploys) : m[1] = HeadOf(req[t].unit) => m[2] = t
    BY DEF GroupsInv, LookedOK, Looked
  <2>8. d.by = t
    BY <2>5, <2>6, <2>7
  <2>9. QED BY <2>5, <2>8
<1>2. QED BY <1>1, GroupsInvariant, PTL DEF Spec, SuccessIsOwnLaunch

=============================================================================
