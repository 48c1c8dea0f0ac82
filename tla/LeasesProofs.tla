---------------------------- MODULE LeasesProofs ----------------------------
(***************************************************************************)
(* Theorems about the lease table, for every set of units, holders and     *)
(* models and every setting of the manager.                                *)
(***************************************************************************)
EXTENDS Leases, TLAPS, WellFoundedInduction

-----------------------------------------------------------------------------
(* The helpers.                                                            *)

\* Of two integers, Max returns the larger ...
LEMMA MaxOfTwo ==
    ASSUME NEW a \in Int, NEW c \in Int
    PROVE  /\ Max({a, c}) \in {a, c}
           /\ Max({a, c}) >= a /\ Max({a, c}) >= c
<1>1. \E x \in {a, c} : \A y \in {a, c} : x >= y
  OBVIOUS
<1>2. Max({a, c}) \in {a, c} /\ \A y \in {a, c} : Max({a, c}) >= y
  BY <1>1 DEF Max
<1>3. QED BY <1>2

\* ... and Min the smaller.
LEMMA MinOfTwo ==
    ASSUME NEW a \in Int, NEW c \in Int
    PROVE  /\ Min({a, c}) \in {a, c}
           /\ Min({a, c}) <= a /\ Min({a, c}) <= c
<1>1. \E x \in {a, c} : \A y \in {a, c} : x <= y
  OBVIOUS
<1>2. Min({a, c}) \in {a, c} /\ \A y \in {a, c} : Min({a, c}) <= y
  BY <1>1 DEF Min
<1>3. QED BY <1>2

\* A set of naturals that is not empty has a first member.
LEMMA FirstIsMember ==
    ASSUME NEW S, S \subseteq Nat \ {0}
    PROVE  /\ S = {} => First(S) = 0
           /\ S # {} => First(S) \in S /\ \A i \in S : First(S) <= i
<1>1. ASSUME S # {} PROVE First(S) \in S /\ \A i \in S : First(S) <= i
  <2>1. \E x \in S : \A y \in S : ~ (<<y, x>> \in OpToRel(<, Nat))
    BY <1>1, NatLessThanWellFounded, WFMin
  <2>2. PICK x \in S : \A y \in S : ~ (<<y, x>> \in OpToRel(<, Nat))
    BY <2>1
  <2>3. \A y \in S : <<y, x>> \in Nat \X Nat /\ <<y, x>>[1] = y /\ <<y, x>>[2] = x
    OBVIOUS
  <2>4. \A y \in S : ~(y < x)
    BY <2>2, <2>3 DEF OpToRel
  <2>5. \A y \in S : x <= y
    BY <2>4
  <2>6. Min(S) \in S /\ \A y \in S : Min(S) <= y
    BY <2>5 DEF Min
  <2>7. QED BY <1>1, <2>6 DEF First
<1>2. QED BY <1>1 DEF First

\* A clamped lifetime is positive (_clamp_ttl).
LEMMA ClampedTtl ==
    ASSUME NEW t \in Int
    PROVE  ClampTtl(t) \in Int /\ ClampTtl(t) > 0
<1>1. MinTtl \in Int /\ MaxTtl \in Int /\ MinTtl > 0
  BY LeasesAssumption
<1>2. Min({MaxTtl, t}) \in Int
  BY <1>1, MinOfTwo
<1>3. /\ Max({MinTtl, Min({MaxTtl, t})}) \in {MinTtl, Min({MaxTtl, t})}
      /\ Max({MinTtl, Min({MaxTtl, t})}) >= MinTtl
  BY <1>1, <1>2, MaxOfTwo
<1>4. QED
  BY <1>1, <1>2, <1>3 DEF ClampTtl

\* A priority is recorded inside 0..MaxPriority whatever was asked (claim's clamp).
LEMMA ClampedPriority ==
    ASSUME NEW p \in Int
    PROVE  ClampPriority(p) \in 0..MaxPriority
<1>1. MaxPriority \in Nat
  BY LeasesAssumption
<1>2. Min({MaxPriority, p}) \in Int /\ Min({MaxPriority, p}) <= MaxPriority
  BY <1>1, MinOfTwo
<1> DEFINE c == Min({MaxPriority, p})
<1>3. c \in Int /\ c <= MaxPriority
  BY <1>2
<1> HIDE DEF c
<1>4. Max({0, c}) \in {0, c} /\ Max({0, c}) >= 0
  <2>1. 0 \in Int
    OBVIOUS
  <2>2. QED BY <2>1, <1>3, MaxOfTwo
<1>5. Max({0, c}) \in 0..MaxPriority
  BY <1>1, <1>3, <1>4
<1>6. QED
  BY <1>5 DEF ClampPriority, c

\* The scope of a claim, a canonical model or the whole unit, is a scope (_canon).
LEMMA CanonIsScope ==
    ASSUME NEW n \in Names \union {Whole}
    PROVE  CanonOf(n) \in Scopes
BY ClaimsAssumption DEF CanonOf, Scopes, Models

\* A table of leases: a function from granted ids to leases.
Table(ls) ==
    /\ DOMAIN ls \subseteq Nat \ {0}
    /\ ls = [i \in DOMAIN ls |-> ls[i]]
    /\ \A i \in DOMAIN ls : ls[i] \in Lease

\* Lazy expiry changes nothing but the state of leases whose time is up.
LEMMA ExpireKeepsTable ==
    ASSUME NEW ls, Table(ls), NEW S
    PROVE  /\ Table(ExpireLapsed(ls, S))
           /\ DOMAIN ExpireLapsed(ls, S) = DOMAIN ls
           /\ LiveIds(ExpireLapsed(ls, S)) = LiveIds(ls)
           /\ Live(ExpireLapsed(ls, S)) = Live(ls)
           /\ \A i \in DOMAIN ls :
                 LET l == ls[i]  e == ExpireLapsed(ls, S)[i]
                 IN  /\ e.unit = l.unit /\ e.holder = l.holder /\ e.model = l.model
                     /\ e.preemptible = l.preemptible /\ e.priority = l.priority
                     /\ e.by = l.by /\ e.left = l.left
                     /\ e.state = l.state \/ (e.state = "expired" /\ Lapsed(l))
<1> DEFINE es == ExpireLapsed(ls, S)
<1>1. DOMAIN es = DOMAIN ls
  BY DEF ExpireLapsed
<1>2. \A i \in DOMAIN ls : es[i] = IF i \in S /\ Lapsed(ls[i])
                                   THEN [ls[i] EXCEPT !.state = "expired"] ELSE ls[i]
  BY DEF ExpireLapsed
<1>3. es = [i \in DOMAIN es |-> es[i]]
  BY DEF ExpireLapsed
<1> HIDE DEF es
<1>4. ASSUME NEW i \in DOMAIN ls
      PROVE  /\ es[i] \in Lease
             /\ es[i].unit = ls[i].unit /\ es[i].holder = ls[i].holder
             /\ es[i].model = ls[i].model /\ es[i].preemptible = ls[i].preemptible
             /\ es[i].priority = ls[i].priority /\ es[i].by = ls[i].by
             /\ es[i].left = ls[i].left
             /\ \/ es[i] = ls[i]
                \/ es[i].state = "expired" /\ Lapsed(ls[i])
  <2>1. ls[i] \in Lease
    BY DEF Table
  <2>2. CASE i \in S /\ Lapsed(ls[i])
    <3>1. es[i] = [ls[i] EXCEPT !.state = "expired"]
      BY <1>2, <2>2
    <3>2. QED BY <2>1, <2>2, <3>1 DEF Lease, State
  <2>3. CASE ~(i \in S /\ Lapsed(ls[i]))
    BY <1>2, <2>1, <2>3
  <2>4. QED BY <2>2, <2>3
<1>5. LiveIds(es) = LiveIds(ls)
  BY <1>1, <1>4 DEF LiveIds, Lapsed, Table, Lease
<1>6. Live(es) = Live(ls)
  BY <1>5, <1>4 DEF Live, LiveIds
<1>7. Table(es)
  BY <1>1, <1>3, <1>4 DEF Table
<1>8. QED
  BY <1>1, <1>4, <1>5, <1>6, <1>7 DEF es

\* Terminating a set of leases changes the active ones of the set only.
LEMMA TerminateKeepsTable ==
    ASSUME NEW ls, Table(ls), NEW S, NEW st \in State, st # "active",
           NEW by \in Holders \union {Operator, Placement, Nobody}
    PROVE  /\ Table(Terminate(ls, S, st, by))
           /\ DOMAIN Terminate(ls, S, st, by) = DOMAIN ls
           /\ LiveIds(Terminate(ls, S, st, by)) = LiveIds(ls) \ S
           /\ \A i \in DOMAIN ls :
                 LET l == ls[i]  t == Terminate(ls, S, st, by)[i]
                 IN  /\ t.unit = l.unit /\ t.holder = l.holder /\ t.model = l.model
                     /\ t.preemptible = l.preemptible /\ t.priority = l.priority
                     /\ \/ t = l
                        \/ /\ i \in S /\ l.state = "active"
                           /\ t.state = st /\ t.by = by
<1> DEFINE ts == Terminate(ls, S, st, by)
<1>1. DOMAIN ts = DOMAIN ls
  BY DEF Terminate
<1>2. \A i \in DOMAIN ls :
        ts[i] = IF i \in S /\ ls[i].state = "active"
                THEN [ls[i] EXCEPT !.state = st, !.by = by,
                                   !.left = IF st = "expired" THEN @ ELSE -Grace]
                ELSE ls[i]
  BY DEF Terminate
<1>3. ts = [i \in DOMAIN ts |-> ts[i]]
  BY DEF Terminate
<1> HIDE DEF ts
<1>4. ASSUME NEW i \in DOMAIN ls
      PROVE  /\ ts[i] \in Lease
             /\ ts[i].unit = ls[i].unit /\ ts[i].holder = ls[i].holder
             /\ ts[i].model = ls[i].model
             /\ ts[i].preemptible = ls[i].preemptible
             /\ ts[i].priority = ls[i].priority
             /\ \/ ts[i] = ls[i] /\ ~(i \in S /\ ls[i].state = "active")
                \/ /\ i \in S /\ ls[i].state = "active"
                   /\ ts[i].state = st /\ ts[i].by = by
  <2>1. ls[i] \in Lease /\ -Grace \in Int
    BY LeasesAssumption DEF Table
  <2>2. CASE i \in S /\ ls[i].state = "active"
    <3> DEFINE left == IF st = "expired" THEN ls[i].left ELSE -Grace
    <3>1. ts[i] = [ls[i] EXCEPT !.state = st, !.by = by, !.left = left]
      BY <1>2, <2>2
    <3>2. left \in Int
      BY <2>1 DEF Lease
    <3> HIDE DEF left
    <3>3. QED
      BY <2>1, <2>2, <3>1, <3>2 DEF Lease
  <2>3. CASE ~(i \in S /\ ls[i].state = "active")
    BY <1>2, <2>1, <2>3
  <2>4. QED BY <2>2, <2>3
<1>5. LiveIds(ts) = LiveIds(ls) \ S
  BY <1>1, <1>4 DEF LiveIds, State
<1>6. Table(ts)
  BY <1>1, <1>3, <1>4 DEF Table
<1>7. QED
  BY <1>1, <1>4, <1>5, <1>6 DEF ts

\* ... in particular each of the three ways a lease ends keeps the table's ids.
LEMMA EndingKeepsTable ==
    ASSUME NEW ls, Table(ls), NEW S,
           NEW by, by \in Holders \union {Operator, Placement, Nobody}
    PROVE  /\ Table(Terminate(ls, S, "released", by))
           /\ Table(Terminate(ls, S, "revoked", by))
           /\ Table(Terminate(ls, S, "expired", by))
           /\ DOMAIN Terminate(ls, S, "released", by) = DOMAIN ls
           /\ DOMAIN Terminate(ls, S, "revoked", by) = DOMAIN ls
           /\ DOMAIN Terminate(ls, S, "expired", by) = DOMAIN ls
<1>1. "released" \in State /\ "revoked" \in State /\ "expired" \in State
  BY DEF State
<1>2. Table(Terminate(ls, S, "released", by))
  BY <1>1, TerminateKeepsTable
<1>3. Table(Terminate(ls, S, "revoked", by))
  BY <1>1, TerminateKeepsTable
<1>4. Table(Terminate(ls, S, "expired", by))
  BY <1>1, TerminateKeepsTable
<1>5. QED
  BY <1>2, <1>3, <1>4 DEF Terminate

\* Pruning forgets terminal leases and nothing else.
LEMMA PruneKeepsTable ==
    ASSUME NEW ls, Table(ls)
    PROVE  /\ Table(Prune(ls))
           /\ DOMAIN Prune(ls) \subseteq DOMAIN ls
           /\ LiveIds(Prune(ls)) = LiveIds(ls)
           /\ \A i \in DOMAIN Prune(ls) : Prune(ls)[i] = ls[i]
           /\ \A i \in DOMAIN ls : ls[i].state = "active" => i \in DOMAIN Prune(ls)
<1>1. DOMAIN Prune(ls) = DOMAIN ls \ Excess(ls)
  BY DEF Prune
<1>2. \A i \in Excess(ls) : i \in DOMAIN ls /\ ls[i].state # "active"
  BY DEF Excess, Terminal
<1>3. \A i \in DOMAIN Prune(ls) : Prune(ls)[i] = ls[i]
  BY DEF Prune
<1>4. LiveIds(Prune(ls)) = LiveIds(ls)
  BY <1>1, <1>2, <1>3 DEF LiveIds
<1>5. Prune(ls) = [i \in DOMAIN Prune(ls) |-> Prune(ls)[i]]
  BY DEF Prune
<1>6. Table(Prune(ls))
  BY <1>1, <1>3, <1>5 DEF Table
<1>7. QED BY <1>1, <1>2, <1>3, <1>4, <1>6

\* A board made of a table lists granted ids, and a query answers with 0 or one of them.
LEMMA ConflictingIsLive ==
    ASSUME NEW ls, Table(ls), NEW u \in Units, NEW m \in Scopes, NEW h \in Holders
    PROVE  LET id == Conflicting(Live(ls), u, m, h)
           IN  \/ id = 0
               \/ /\ id \in LiveIds(ls) /\ ls[id].unit = u
                  /\ Overlap(m, ls[id].model)
                  /\ ls[id].model # m => OnScope(Live(ls), u, m) \intersect
                        {i \in DOMAIN ls : ls[i].holder = h} = {}
<1> DEFINE b == Live(ls)
           mine == {i \in OnScope(b, u, m) : b[i].holder = h}
           over == Overlapping(b, u, m)
<1>1. DOMAIN b = LiveIds(ls) /\ LiveIds(ls) \subseteq DOMAIN ls
  BY DEF Live, LiveIds
<1>2. \A i \in DOMAIN b : /\ b[i].unit = ls[i].unit /\ b[i].model = ls[i].model
                          /\ b[i].holder = ls[i].holder
  BY DEF Live
<1> HIDE DEF b
<1>3. mine \subseteq over
  BY DEF OnScope, OnUnit, Overlapping, Overlap
<1>4. \A i \in over : /\ i \in LiveIds(ls) /\ ls[i].unit = u
                      /\ Overlap(m, ls[i].model)
  BY <1>1, <1>2 DEF Overlapping, OnUnit
<1>5. over \subseteq Nat \ {0} /\ mine \subseteq Nat \ {0}
  BY <1>1, <1>3, <1>4 DEF Table
<1>6. CASE mine # {}
  <2>1. First(mine) \in mine
    BY <1>5, <1>6, FirstIsMember
  <2>2. ls[First(mine)].model = m
    BY <2>1, <1>1, <1>2 DEF OnScope, OnUnit
  <2>3. Conflicting(b, u, m, h) = First(mine)
    BY <1>6 DEF Conflicting
  <2>4. QED BY <2>1, <2>2, <2>3, <1>3, <1>4 DEF b
<1>7. CASE mine = {}
  <2>1. Conflicting(b, u, m, h) = First(over)
    BY <1>7 DEF Conflicting
  <2>2. First(over) = 0 \/ First(over) \in over
    BY <1>5, FirstIsMember
  <2>3. OnScope(b, u, m) \intersect {i \in DOMAIN ls : ls[i].holder = h} = {}
    BY <1>1, <1>2, <1>7 DEF OnScope, OnUnit
  <2>4. QED BY <2>1, <2>2, <2>3, <1>4 DEF b
<1>8. QED BY <1>6, <1>7

-----------------------------------------------------------------------------
(* Type correctness.                                                       *)

\* What TypeOK says of the table alone.
LEMMA TypedTable == TypeOK => Table(leases)
BY LeasesAssumption DEF TypeOK, Table

\* A step that keeps the ids of the table and the other variables' types
\* preserves TypeOK.
LEMMA SameIdsKeepType ==
    ASSUME TypeOK, Table(leases'), DOMAIN leases' = DOMAIN leases,
           nextId' = nextId, regained' \subseteq regained \union DOMAIN leases,
           pending' \in [Units \X Scopes -> {NoFree, ByOperator} \union 1..(nextId - 1)]
    PROVE  TypeOK'
BY DEF TypeOK, Table

\* The table holds well-formed leases under ids that were granted, and a queued
\* free names the operator or a granted lease, in every reachable state.
THEOREM TypeCorrect == Spec => []TypeOK
<1>1. Init => TypeOK
  BY LeasesAssumption DEF Init, TypeOK
<1>2. TypeOK /\ [Next]_leaseVars => TypeOK'
  <2> SUFFICES ASSUME TypeOK, [Next]_leaseVars PROVE TypeOK'
    OBVIOUS
  <2>0. /\ Table(leases)
        /\ pending \in [Units \X Scopes -> {NoFree, ByOperator} \union 1..(nextId - 1)]
        /\ DOMAIN leases \subseteq 1..(nextId - 1)
    BY TypedTable DEF TypeOK
  <2>1. ASSUME NEW u \in Units, NEW h \in Holders, NEW n \in Names \union {Whole},
               NEW p \in Priorities, NEW pre \in BOOLEAN, NEW ttl \in Ttls,
               NEW free \in FreeFlags(n), ClaimExtend(u, h, n, pre, p, ttl, free)
        PROVE  TypeOK'
    <3> DEFINE ls == Read(leases, u)
               id == Own(u, h, n)
               m  == IF n = Whole THEN ls[id].model ELSE Canon[n]
    <3>1. /\ id \in DOMAIN leases
          /\ leases[id].holder = h
      BY <2>0, <2>1, ConflictingIsLive, CanonIsScope
         DEF ClaimExtend, Own, LiveIds
    <3>2. Table(ls) /\ DOMAIN ls = DOMAIN leases
      BY <2>0, ExpireKeepsTable DEF Read
    <3>3. m \in Scopes /\ ls[id] \in Lease
      BY <3>1, <3>2, CanonIsScope DEF Table, Lease, CanonOf
    <3>4. ClampTtl(ttl) \in Int /\ ClampPriority(p) \in 0..MaxPriority
      BY ClampedTtl, ClampedPriority, LeasesAssumption
    <3>5. leases' = [ls EXCEPT ![id].preemptible = pre,
                               ![id].priority = ClampPriority(p),
                               ![id].model = m, ![id].left = ClampTtl(ttl)]
      BY <2>1 DEF ClaimExtend
    <3>6. pending' = IF free THEN [pending EXCEPT ![<<u, m>>] = id] ELSE pending
      BY <2>1 DEF ClaimExtend
    <3>7. UNCHANGED <<nextId, regained>>
      BY <2>1 DEF ClaimExtend
    <3> HIDE DEF ls, id, m
    <3>8. Table(leases') /\ DOMAIN leases' = DOMAIN leases
      BY <3>1, <3>2, <3>3, <3>4, <3>5 DEF Table, Lease
    <3>9. QED
      BY <2>0, <3>1, <3>3, <3>6, <3>7, <3>8, SameIdsKeepType
  <2>2. ASSUME NEW u \in Units, NEW h \in Holders, NEW n \in Names \union {Whole},
               NEW p \in Priorities, NEW pre \in BOOLEAN, NEW ttl \in Ttls,
               NEW free \in FreeFlags(n), NEW force \in BOOLEAN,
               ClaimGrant(u, h, n, pre, p, ttl, force, free)
        PROVE  TypeOK'
    <3> DEFINE ls  == Read(leases, u)
               m   == CanonOf(n)
               out == Terminate(ls, Overlapping(Live(ls), u, m), "revoked", h)
               new == [unit |-> u, holder |-> h, model |-> m, preemptible |-> pre,
                       priority |-> ClampPriority(p), state |-> "active",
                       by |-> Nobody, left |-> ClampTtl(ttl)]
               all == [i \in DOMAIN ls \union {nextId} |->
                          IF i = nextId THEN new ELSE out[i]]
    <3>1. Table(ls) /\ DOMAIN ls = DOMAIN leases
      BY <2>0, ExpireKeepsTable DEF Read
    <3>2. Table(out) /\ DOMAIN out = DOMAIN leases
      BY <3>1, EndingKeepsTable
    <3>3. ClampTtl(ttl) \in Int /\ ClampPriority(p) \in 0..MaxPriority /\ m \in Scopes
      BY ClampedTtl, ClampedPriority, CanonIsScope, LeasesAssumption
    <3>4. new \in Lease
      BY <3>3 DEF Lease, State
    <3>5. nextId \in LeaseId /\ nextId' = nextId + 1 /\ UNCHANGED regained
      BY <2>2 DEF ClaimGrant
    <3>6. /\ leases' = Prune(all)
          /\ pending' = IF free THEN [pending EXCEPT ![<<u, m>>] = nextId] ELSE pending
      BY <2>2 DEF ClaimGrant
    <3> HIDE DEF ls, m, out, new
    <3>7. Table(all) /\ DOMAIN all = DOMAIN leases \union {nextId}
      BY <3>1, <3>2, <3>4, <3>5, LeasesAssumption DEF Table, LeaseId
    <3> HIDE DEF all
    <3>8. Table(leases') /\ DOMAIN leases' \subseteq DOMAIN leases \union {nextId}
      BY <3>6, <3>7, PruneKeepsTable
    <3>9. nextId' \in 1..(MaxLeases + 1) /\ nextId \in 1..(nextId' - 1)
          /\ 1..(nextId - 1) \subseteq 1..(nextId' - 1)
      BY <3>5, LeasesAssumption DEF LeaseId
    <3>10. pending' \in [Units \X Scopes -> {NoFree, ByOperator} \union 1..(nextId' - 1)]
      BY <2>0, <3>3, <3>6, <3>9
    <3>11. QED
      BY <2>0, <3>5, <3>8, <3>9, <3>10 DEF TypeOK, Table
  <2>3. ASSUME NEW u \in Units, NEW h \in Holders, NEW n \in Names \union {Whole},
               NEW p \in Priorities, NEW force \in BOOLEAN,
               ClaimRefused(u, h, n, p, force)
        PROVE  TypeOK'
    BY <2>0, <2>3, ExpireKeepsTable, SameIdsKeepType DEF ClaimRefused, Read
  <2>4. ASSUME NEW id \in DOMAIN leases, NEW ttl \in Ttls, Renew(id, ttl)
        PROVE  TypeOK'
    <3> DEFINE ls == ExpireLapsed(leases, {id})
    <3>1. Table(ls) /\ DOMAIN ls = DOMAIN leases
      BY <2>0, ExpireKeepsTable
    <3>2. ClampTtl(ttl) \in Int
      BY ClampedTtl, LeasesAssumption
    <3>3. leases' = [ls EXCEPT ![id].state = "active", ![id].left = ClampTtl(ttl)]
      BY <2>4 DEF Renew
    <3>4. UNCHANGED <<pending, nextId>> /\ regained' \subseteq regained \union DOMAIN leases
      BY <2>4 DEF Renew
    <3> HIDE DEF ls
    <3>5. Table(leases') /\ DOMAIN leases' = DOMAIN leases
      <4> DEFINE l == [ls[id] EXCEPT !.state = "active", !.left = ClampTtl(ttl)]
      <4>1. leases' = [ls EXCEPT ![id] = l]
        BY <3>1, <3>3 DEF Table
      <4>2. l \in Lease
        <5>1. ls[id] \in Lease /\ "active" \in State
          BY <3>1 DEF Table, State
        <5>2. QED BY <5>1, <3>2 DEF Lease
      <4> HIDE DEF l
      <4>3. QED BY <3>1, <4>1, <4>2 DEF Table
    <3>6. QED BY <2>0, <3>4, <3>5, SameIdsKeepType
  <2>5. ASSUME NEW id \in DOMAIN leases, RenewRefused(id) \/ Get(id) PROVE TypeOK'
    BY <2>0, <2>5, ExpireKeepsTable, SameIdsKeepType DEF RenewRefused, Get
  <2>6. ASSUME NEW id \in DOMAIN leases, Release(id) \/ ExpireUnused(id) PROVE TypeOK'
    <3>1. /\ Table(Terminate(leases, {id}, "released", Nobody))
          /\ DOMAIN Terminate(leases, {id}, "released", Nobody) = DOMAIN leases
          /\ Table(Terminate(leases, {id}, "expired", Nobody))
          /\ DOMAIN Terminate(leases, {id}, "expired", Nobody) = DOMAIN leases
      BY <2>0, EndingKeepsTable
    <3>2. QED BY <2>0, <2>6, <3>1, SameIdsKeepType DEF Release, ExpireUnused
  <2>7. ASSUME NEW id \in DOMAIN leases, NEW free \in FreeFlags(leases[id].model), Revoke(id, free)
        PROVE  TypeOK'
    <3>1. leases[id].unit \in Units /\ leases[id].model \in Scopes
      BY <2>0 DEF Table, Lease
    <3>2. pending' \in [Units \X Scopes -> {NoFree, ByOperator} \union 1..(nextId - 1)]
      BY <2>0, <2>7, <3>1 DEF Revoke
    <3>3. Table(leases') /\ DOMAIN leases' = DOMAIN leases
      <4>1. /\ Table(Terminate(leases, {id}, "revoked", Operator))
            /\ DOMAIN Terminate(leases, {id}, "revoked", Operator) = DOMAIN leases
        BY <2>0, EndingKeepsTable
      <4>2. QED BY <2>7, <4>1 DEF Revoke
    <3>4. QED BY <2>7, <3>2, <3>3, SameIdsKeepType DEF Revoke
  <2>8. ASSUME NEW u \in Units, NEW n \in Names \union {Whole},
               NEW spare \in Holders \union {Nobody}, RevokeForEviction(u, n, spare)
        PROVE  TypeOK'
    <3>1. Table(Read(leases, u)) /\ DOMAIN Read(leases, u) = DOMAIN leases
      BY <2>0, ExpireKeepsTable DEF Read
    <3>2. Table(leases') /\ DOMAIN leases' = DOMAIN leases
      <4> DEFINE S == EvictionTargets(Live(Read(leases, u)), u, CanonOf(n), spare)
      <4>1. leases' = Terminate(Read(leases, u), S, "revoked", Placement)
        BY <2>8 DEF RevokeForEviction
      <4> HIDE DEF S
      <4>2. /\ Table(Terminate(Read(leases, u), S, "revoked", Placement))
            /\ DOMAIN Terminate(Read(leases, u), S, "revoked", Placement)
                  = DOMAIN leases
        BY <3>1, EndingKeepsTable
      <4>3. QED BY <4>1, <4>2
    <3>3. QED BY <2>0, <2>8, <3>2, SameIdsKeepType DEF RevokeForEviction
  <2>9. ASSUME NEW u \in Units, Query(u) PROVE TypeOK'
    BY <2>0, <2>9, ExpireKeepsTable, SameIdsKeepType DEF Query, Read
  <2>10. CASE Sweep
    BY <2>0, <2>10, ExpireKeepsTable, SameIdsKeepType DEF Sweep
  <2>11. ASSUME NEW k \in Units \X Scopes, ClearPending(k) PROVE TypeOK'
    BY <2>0, <2>11, SameIdsKeepType DEF ClearPending
  <2>12. CASE Tick
    <3>1. \A i \in DOMAIN leases : Max({leases[i].left - 1, -Grace}) \in Int
      <4>1. \A i \in DOMAIN leases : leases[i].left - 1 \in Int
        BY <2>0 DEF Table, Lease
      <4>2. -Grace \in Int
        BY LeasesAssumption
      <4>3. QED BY <4>1, <4>2, MaxOfTwo
    <3>2. Table(leases') /\ DOMAIN leases' = DOMAIN leases
      BY <2>0, <2>12, <3>1 DEF Tick, Table, Lease
    <3>3. QED BY <2>0, <2>12, <3>2, SameIdsKeepType DEF Tick
  <2>13. CASE UNCHANGED leaseVars
    BY <2>13 DEF leaseVars, TypeOK
  <2>14. CASE ClaimStep
    BY <2>1, <2>2, <2>3, <2>14 DEF ClaimStep
  <2>15. CASE HolderStep
    BY <2>4, <2>5, <2>6, <2>15 DEF HolderStep
  <2>16. CASE OperatorStep \/ EvictionStep \/ QueryStep
    BY <2>7, <2>8, <2>9, <2>16 DEF OperatorStep, EvictionStep, QueryStep
  <2>17. CASE SweeperStep
    BY <2>6, <2>10, <2>11, <2>17 DEF SweeperStep
  <2>18. QED
    BY <2>12, <2>13, <2>14, <2>15, <2>16, <2>17 DEF Next
<1>3. QED
  BY <1>1, <1>2, PTL DEF Spec

-----------------------------------------------------------------------------
(* Non-preemptible leases are taken by their holder or the operator only.  *)

Kept(ls) ==
    \A i \in DOMAIN ls :
        ls[i].state = "revoked" /\ ~ls[i].preemptible
            => ls[i].by \in {ls[i].holder, Operator}

\* Lazy expiry revokes nothing.
LEMMA ExpireKeepsKept ==
    ASSUME NEW ls, Table(ls), Kept(ls), NEW S
    PROVE  Kept(ExpireLapsed(ls, S))
<1> DEFINE es == ExpireLapsed(ls, S)
<1>1. DOMAIN es = DOMAIN ls
  BY DEF ExpireLapsed
<1>2. ASSUME NEW i \in DOMAIN ls
      PROVE  es[i] = ls[i] \/ es[i].state = "expired"
  <2>1. ls[i] \in Lease
    BY DEF Table
  <2>2. es[i] = ls[i] \/ es[i] = [ls[i] EXCEPT !.state = "expired"]
    BY DEF ExpireLapsed
  <2> HIDE DEF es
  <2>3. QED BY <2>1, <2>2 DEF Lease
<1> HIDE DEF es
<1>3. Kept(es)
  BY <1>1, <1>2 DEF Kept
<1>4. QED BY <1>3 DEF es

\* Ending leases keeps the promise when the ending is no revocation, or every live
\* lease it takes is preemptible, the revoker's own, or taken by the operator.
LEMMA TerminateKeepsKept ==
    ASSUME NEW ls, Table(ls), Kept(ls), NEW S, NEW st, NEW by,
           \A i \in S \intersect DOMAIN ls :
              ls[i].state = "active" /\ st = "revoked" =>
                 ls[i].preemptible \/ by \in {ls[i].holder, Operator}
    PROVE  Kept(Terminate(ls, S, st, by))
<1> DEFINE ts == Terminate(ls, S, st, by)
<1>1. DOMAIN ts = DOMAIN ls
  BY DEF Terminate
<1>2. ASSUME NEW i \in DOMAIN ls
      PROVE  \/ ts[i] = ls[i]
             \/ /\ i \in S /\ ls[i].state = "active"
                /\ ts[i].state = st /\ ts[i].by = by
                /\ ts[i].holder = ls[i].holder
                /\ ts[i].preemptible = ls[i].preemptible
  <2>1. ls[i] \in Lease
    BY DEF Table
  <2>2. CASE i \in S /\ ls[i].state = "active"
    <3> DEFINE left == IF st = "expired" THEN ls[i].left ELSE -Grace
    <3>1. ts[i] = [ls[i] EXCEPT !.state = st, !.by = by, !.left = left]
      BY <2>2 DEF Terminate
    <3> HIDE DEF left, ts
    <3>2. QED BY <2>1, <2>2, <3>1 DEF Lease
  <2>3. CASE ~(i \in S /\ ls[i].state = "active")
    BY <2>3 DEF Terminate
  <2>4. QED BY <2>2, <2>3
<1> HIDE DEF ts
<1>3. Kept(ts)
  BY <1>1, <1>2 DEF Kept
<1>4. QED BY <1>3 DEF ts

\* "Must not be interrupted": in every reachable state, a non-preemptible lease that
\* was taken away was taken by its own holder or the operator.
THEOREM NonPreemptibleLeasesAreKept == Spec => []NonPreemptibleKept
<1>1. Init => NonPreemptibleKept
  BY DEF Init, NonPreemptibleKept
<1>2. TypeOK /\ NonPreemptibleKept /\ [Next]_leaseVars => NonPreemptibleKept'
  <2> SUFFICES ASSUME TypeOK, NonPreemptibleKept, [Next]_leaseVars
               PROVE  NonPreemptibleKept'
    OBVIOUS
  <2>0. Table(leases) /\ Kept(leases)
    BY TypedTable DEF NonPreemptibleKept, Kept
  <2> SUFFICES Kept(leases')
    BY DEF NonPreemptibleKept, Kept
  <2>1. ASSUME NEW u \in Units, NEW h \in Holders, NEW n \in Names \union {Whole},
               NEW p \in Priorities, NEW pre \in BOOLEAN, NEW ttl \in Ttls,
               NEW free \in FreeFlags(n), ClaimExtend(u, h, n, pre, p, ttl, free)
        PROVE  Kept(leases')
    <3> DEFINE ls == Read(leases, u)
               id == Own(u, h, n)
               m  == IF n = Whole THEN ls[id].model ELSE Canon[n]
    <3>1. id \in LiveIds(leases)
      BY <2>0, <2>1, ConflictingIsLive, CanonIsScope DEF ClaimExtend, Own
    <3>2. Table(ls) /\ DOMAIN ls = DOMAIN leases /\ LiveIds(ls) = LiveIds(leases)
      BY <2>0, ExpireKeepsTable DEF Read
    <3>3. Kept(ls)
      BY <2>0, ExpireKeepsKept DEF Read
    <3>4. leases' = [ls EXCEPT ![id].preemptible = pre,
                               ![id].priority = ClampPriority(p),
                               ![id].model = m, ![id].left = ClampTtl(ttl)]
      BY <2>1 DEF ClaimExtend
    <3> HIDE DEF ls, id, m
    <3>5. ls[id].state = "active" /\ ls[id] \in Lease /\ id \in DOMAIN ls
      BY <3>1, <3>2 DEF LiveIds, Table
    <3>6. leases'[id].state = "active"
      BY <3>4, <3>5 DEF Lease
    <3>7. DOMAIN leases' = DOMAIN ls /\ \A i \in DOMAIN ls : i # id => leases'[i] = ls[i]
      BY <3>4
    <3>8. QED BY <3>3, <3>6, <3>7 DEF Kept
  <2>2. ASSUME NEW u \in Units, NEW h \in Holders, NEW n \in Names \union {Whole},
               NEW p \in Priorities, NEW pre \in BOOLEAN, NEW ttl \in Ttls,
               NEW free \in FreeFlags(n), NEW force \in BOOLEAN,
               ClaimGrant(u, h, n, pre, p, ttl, force, free)
        PROVE  Kept(leases')
    <3> DEFINE ls  == Read(leases, u)
               m   == CanonOf(n)
               S   == Overlapping(Live(ls), u, m)
               out == Terminate(ls, S, "revoked", h)
               new == [unit |-> u, holder |-> h, model |-> m, preemptible |-> pre,
                       priority |-> ClampPriority(p), state |-> "active",
                       by |-> Nobody, left |-> ClampTtl(ttl)]
               all == [i \in DOMAIN ls \union {nextId} |->
                          IF i = nextId THEN new ELSE out[i]]
    <3>1. Table(ls)
      BY <2>0, ExpireKeepsTable DEF Read
    <3>2. Kept(ls)
      BY <2>0, ExpireKeepsKept DEF Read
    <3>3. MayTake(Live(ls), u, m, h, ClampPriority(p), force)
      BY <2>2 DEF ClaimGrant
    <3>4. \A i \in S : i \in DOMAIN ls /\ (ls[i].preemptible \/ ls[i].holder = h)
      BY <3>3 DEF MayTake, Overlapping, OnUnit, Live, LiveIds
    <3>5. leases' = Prune(all)
      BY <2>2 DEF ClaimGrant
    <3> HIDE DEF ls, m, S
    <3>6. Kept(out)
      BY <3>1, <3>2, <3>4, TerminateKeepsKept
    <3>7. DOMAIN out = DOMAIN ls
      BY DEF Terminate
    <3>8. new.state = "active"
      OBVIOUS
    <3> HIDE DEF out, new
    <3>9. Kept(all)
      BY <3>6, <3>7, <3>8 DEF Kept
    <3>10. QED
      BY <3>5, <3>9 DEF Kept, Prune
  <2>3. ASSUME NEW u \in Units, NEW h \in Holders, NEW n \in Names \union {Whole},
               NEW p \in Priorities, NEW force \in BOOLEAN,
               ClaimRefused(u, h, n, p, force)
        PROVE  Kept(leases')
    BY <2>0, <2>3, ExpireKeepsKept DEF ClaimRefused, Read
  <2>4. ASSUME NEW id \in DOMAIN leases, NEW ttl \in Ttls, Renew(id, ttl)
        PROVE  Kept(leases')
    <3> DEFINE ls == ExpireLapsed(leases, {id})
    <3>1. Table(ls) /\ Kept(ls) /\ DOMAIN ls = DOMAIN leases
      BY <2>0, ExpireKeepsTable, ExpireKeepsKept
    <3>2. leases' = [ls EXCEPT ![id].state = "active", ![id].left = ClampTtl(ttl)]
      BY <2>4 DEF Renew
    <3> HIDE DEF ls
    <3>3. ls[id] \in Lease
      BY <3>1 DEF Table
    <3>4. leases'[id].state = "active"
      BY <3>1, <3>2, <3>3 DEF Lease
    <3>5. DOMAIN leases' = DOMAIN ls /\ \A i \in DOMAIN ls : i # id => leases'[i] = ls[i]
      BY <3>2
    <3>6. QED BY <3>1, <3>4, <3>5 DEF Kept
  <2>5. ASSUME NEW id \in DOMAIN leases, RenewRefused(id) \/ Get(id)
        PROVE  Kept(leases')
    BY <2>0, <2>5, ExpireKeepsKept DEF RenewRefused, Get
  <2>6. ASSUME NEW id \in DOMAIN leases, Release(id) \/ ExpireUnused(id)
        PROVE  Kept(leases')
    <3>1. Kept(Terminate(leases, {id}, "released", Nobody))
      BY <2>0, TerminateKeepsKept
    <3>2. Kept(Terminate(leases, {id}, "expired", Nobody))
      BY <2>0, TerminateKeepsKept
    <3>3. QED BY <2>6, <3>1, <3>2 DEF Release, ExpireUnused
  <2>7. ASSUME NEW id \in DOMAIN leases, NEW free \in FreeFlags(leases[id].model), Revoke(id, free)
        PROVE  Kept(leases')
    <3>1. Kept(Terminate(leases, {id}, "revoked", Operator))
      BY <2>0, TerminateKeepsKept
    <3>2. QED BY <2>7, <3>1 DEF Revoke
  <2>8. ASSUME NEW u \in Units, NEW n \in Names \union {Whole},
               NEW spare \in Holders \union {Nobody}, RevokeForEviction(u, n, spare)
        PROVE  Kept(leases')
    <3> DEFINE ls == Read(leases, u)
               S  == EvictionTargets(Live(ls), u, CanonOf(n), spare)
    <3>1. Table(ls) /\ Kept(ls)
      BY <2>0, ExpireKeepsTable, ExpireKeepsKept DEF Read
    <3>2. leases' = Terminate(ls, S, "revoked", Placement)
      BY <2>8 DEF RevokeForEviction
    <3> HIDE DEF ls
    <3>3. \A i \in S : Live(ls)[i].preemptible
      BY DEF EvictionTargets
    <3>4. \A i \in S \intersect LiveIds(ls) : ls[i].preemptible
      BY <3>3 DEF Live
    <3>5. S \subseteq LiveIds(ls)
      <4>1. OnUnit(Live(ls), u) \subseteq LiveIds(ls)
        BY DEF OnUnit, Live
      <4>2. ActiveFor(Live(ls), u, CanonOf(n)) \in LiveIds(ls) \union {0}
        <5>1. \A T : T \subseteq LiveIds(ls) => First(T) \in LiveIds(ls) \union {0}
          <6>1. LiveIds(ls) \subseteq Nat \ {0}
            BY <3>1 DEF LiveIds, Table
          <6>2. QED BY <6>1, FirstIsMember
        <5>2. \A mm : OnScope(Live(ls), u, mm) \subseteq LiveIds(ls)
          BY <4>1 DEF OnScope
        <5>3. QED BY <4>1, <5>1, <5>2 DEF ActiveFor
      <4>3. QED BY <4>1, <4>2 DEF EvictionTargets
    <3> HIDE DEF S
    <3>6. Kept(Terminate(ls, S, "revoked", Placement))
      BY <3>1, <3>4, <3>5, TerminateKeepsKept
    <3>7. QED BY <3>2, <3>6
  <2>9. ASSUME NEW u \in Units, Query(u) PROVE Kept(leases')
    BY <2>0, <2>9, ExpireKeepsKept DEF Query, Read
  <2>10. CASE Sweep
    BY <2>0, <2>10, ExpireKeepsKept DEF Sweep
  <2>11. ASSUME NEW k \in Units \X Scopes, ClearPending(k) PROVE Kept(leases')
    BY <2>0, <2>11 DEF ClearPending
  <2>12. CASE Tick
    <3>1. ASSUME NEW i \in DOMAIN leases
          PROVE  /\ leases'[i].state = leases[i].state /\ leases'[i].by = leases[i].by
                 /\ leases'[i].preemptible = leases[i].preemptible
                 /\ leases'[i].holder = leases[i].holder
      BY <2>0, <2>12 DEF Tick, Table, Lease
    <3>2. DOMAIN leases' = DOMAIN leases
      BY <2>12 DEF Tick
    <3>3. QED BY <2>0, <3>1, <3>2 DEF Kept
  <2>13. CASE UNCHANGED leaseVars
    BY <2>0, <2>13 DEF leaseVars
  <2>14. CASE ClaimStep
    BY <2>1, <2>2, <2>3, <2>14 DEF ClaimStep
  <2>15. CASE HolderStep
    BY <2>4, <2>5, <2>6, <2>15 DEF HolderStep
  <2>16. CASE OperatorStep \/ EvictionStep \/ QueryStep
    BY <2>7, <2>8, <2>9, <2>16 DEF OperatorStep, EvictionStep, QueryStep
  <2>17. CASE SweeperStep
    BY <2>6, <2>10, <2>11, <2>17 DEF SweeperStep
  <2>18. QED
    BY <2>12, <2>13, <2>14, <2>15, <2>16, <2>17 DEF Next
<1>3. QED
  BY <1>1, <1>2, TypeCorrect, PTL DEF Spec

-----------------------------------------------------------------------------
(* Live claims on a unit cover different models, revivals apart.           *)

\* No two live leases of ls overlap, those of R excepted.
Apart(ls, R) ==
    \A i, j \in LiveIds(ls) :
        /\ i # j /\ ls[i].unit = ls[j].unit
        /\ Overlap(ls[i].model, ls[j].model)
        => i \in R \/ j \in R

\* ts lists no live claim that ls did not list.
Shrinks(ls, ts) ==
    \A i \in LiveIds(ts) : /\ i \in LiveIds(ls)
                           /\ ts[i].unit = ls[i].unit /\ ts[i].model = ls[i].model

\* A table whose live leases are among those of another is apart if the other is.
LEMMA ShrinkingKeepsApart ==
    ASSUME NEW ls, NEW ts, NEW R, NEW Q, Apart(ls, R), Shrinks(ls, ts), R \subseteq Q
    PROVE  Apart(ts, Q)
BY DEF Apart, Shrinks

\* Lazy expiry makes no lease live and re-scopes none (_expire_if_lapsed).
LEMMA ExpireShrinks ==
    ASSUME NEW ls, Table(ls), NEW S
    PROVE  Shrinks(ls, ExpireLapsed(ls, S))
<1>1. /\ LiveIds(ExpireLapsed(ls, S)) = LiveIds(ls)
      /\ \A i \in DOMAIN ls : /\ ExpireLapsed(ls, S)[i].unit = ls[i].unit
                              /\ ExpireLapsed(ls, S)[i].model = ls[i].model
  BY ExpireKeepsTable
<1>2. QED BY <1>1 DEF Shrinks, LiveIds

\* What is terminated is live no more, and nothing else changes.
LEMMA TerminateShrinks ==
    ASSUME NEW ls, Table(ls), NEW S, NEW st, st # "active", NEW by
    PROVE  /\ Shrinks(ls, Terminate(ls, S, st, by))
           /\ LiveIds(Terminate(ls, S, st, by)) \intersect S = {}
<1> DEFINE ts == Terminate(ls, S, st, by)
<1>1. DOMAIN ts = DOMAIN ls
  BY DEF Terminate
<1>2. ASSUME NEW i \in DOMAIN ls
      PROVE  \/ ts[i] = ls[i] /\ ~(i \in S /\ ls[i].state = "active")
             \/ ts[i].state # "active"
  <2>1. ls[i] \in Lease
    BY DEF Table
  <2>2. CASE i \in S /\ ls[i].state = "active"
    <3> DEFINE left == IF st = "expired" THEN ls[i].left ELSE -Grace
    <3>1. ts[i] = [ls[i] EXCEPT !.state = st, !.by = by, !.left = left]
      BY <2>2 DEF Terminate
    <3> HIDE DEF left, ts
    <3>2. QED BY <2>1, <2>2, <3>1 DEF Lease
  <2>3. CASE ~(i \in S /\ ls[i].state = "active")
    BY <2>3 DEF Terminate
  <2>4. QED BY <2>2, <2>3
<1> HIDE DEF ts
<1>3. Shrinks(ls, ts) /\ LiveIds(ts) \intersect S = {}
  BY <1>1, <1>2 DEF Shrinks, LiveIds
<1>4. QED BY <1>3 DEF ts

\* Two live leases that cover a common model of a unit: in every reachable state, one
\* of them was revived by renew() after it had expired.
THEOREM LiveLeasesAreApart == Spec => []OverlapOnlyByRevival
<1>1. Init => OverlapOnlyByRevival
  BY DEF Init, OverlapOnlyByRevival, LiveIds
<1>2. TypeOK /\ OverlapOnlyByRevival /\ [Next]_leaseVars => OverlapOnlyByRevival'
  <2> SUFFICES ASSUME TypeOK, OverlapOnlyByRevival, [Next]_leaseVars
               PROVE  OverlapOnlyByRevival'
    OBVIOUS
  <2>0. Table(leases) /\ Apart(leases, regained)
    BY TypedTable DEF OverlapOnlyByRevival, Apart
  <2> SUFFICES Apart(leases', regained')
    BY DEF OverlapOnlyByRevival, Apart, LiveIds
  <2>a. ASSUME Shrinks(leases, leases'), regained \subseteq regained'
        PROVE  Apart(leases', regained')
    BY <2>0, <2>a, ShrinkingKeepsApart
  <2>1. ASSUME NEW u \in Units, NEW h \in Holders, NEW n \in Names \union {Whole},
               NEW p \in Priorities, NEW pre \in BOOLEAN, NEW ttl \in Ttls,
               NEW free \in FreeFlags(n), ClaimExtend(u, h, n, pre, p, ttl, free)
        PROVE  Apart(leases', regained')
    <3> DEFINE ls == Read(leases, u)
               id == Own(u, h, n)
               m  == IF n = Whole THEN ls[id].model ELSE Canon[n]
    <3>1. id \in LiveIds(leases) /\ leases[id].unit = u
          /\ Overlap(CanonOf(n), leases[id].model)
      <4> DEFINE c == Conflicting(Live(leases), u, CanonOf(n), h)
      <4>1. id = c /\ c # 0
        BY <2>1 DEF ClaimExtend, Own
      <4>2. c = 0 \/ /\ c \in LiveIds(leases) /\ leases[c].unit = u
                     /\ Overlap(CanonOf(n), leases[c].model)
        BY <2>0, ConflictingIsLive, CanonIsScope
      <4> HIDE DEF c
      <4>3. QED BY <4>1, <4>2
    <3>2. Table(ls) /\ DOMAIN ls = DOMAIN leases /\ LiveIds(ls) = LiveIds(leases)
      BY <2>0, ExpireKeepsTable DEF Read
    <3>3. Shrinks(leases, ls)
      BY <2>0, ExpireShrinks DEF Read
    <3>4. leases' = [ls EXCEPT ![id].preemptible = pre,
                               ![id].priority = ClampPriority(p),
                               ![id].model = m, ![id].left = ClampTtl(ttl)]
      BY <2>1 DEF ClaimExtend
    <3>5. regained' = regained
      BY <2>1 DEF ClaimExtend
    <3>6. ls[id].model = Whole \/ m = ls[id].model
      BY <3>1, <3>2, <3>3, ClaimsAssumption
         DEF Overlap, CanonOf, Shrinks
    <3> HIDE DEF ls, id, m
    <3>7. ls[id] \in Lease /\ id \in DOMAIN ls
      BY <3>1, <3>2 DEF LiveIds, Table
    <3>8. leases'[id].unit = ls[id].unit /\ leases'[id].model = m
      BY <3>4, <3>7 DEF Lease
    <3>9. DOMAIN leases' = DOMAIN ls /\ \A i \in DOMAIN ls : i # id => leases'[i] = ls[i]
      BY <3>4
    <3>10. LiveIds(leases') \subseteq LiveIds(ls)
      BY <3>1, <3>2, <3>9 DEF LiveIds
    <3>11. Apart(ls, regained)
      BY <2>0, <3>3, ShrinkingKeepsApart
    <3>12. ASSUME NEW i \in LiveIds(leases'), NEW j \in LiveIds(leases'),
                  i # j, leases'[i].unit = leases'[j].unit,
                  Overlap(leases'[i].model, leases'[j].model)
           PROVE  /\ ls[i].unit = ls[j].unit
                  /\ Overlap(ls[i].model, ls[j].model)
      <4>1. i \in DOMAIN ls /\ j \in DOMAIN ls
        BY <3>10 DEF LiveIds
      <4>2. CASE i = id
        BY <3>6, <3>8, <3>9, <3>12, <4>1, <4>2 DEF Overlap
      <4>3. CASE j = id
        BY <3>6, <3>8, <3>9, <3>12, <4>1, <4>3 DEF Overlap
      <4>4. CASE i # id /\ j # id
        BY <3>9, <3>12, <4>1, <4>4
      <4>5. QED BY <4>2, <4>3, <4>4
    <3>13. QED BY <3>5, <3>10, <3>11, <3>12 DEF Apart
  <2>2. ASSUME NEW u \in Units, NEW h \in Holders, NEW n \in Names \union {Whole},
               NEW p \in Priorities, NEW pre \in BOOLEAN, NEW ttl \in Ttls,
               NEW free \in FreeFlags(n), NEW force \in BOOLEAN,
               ClaimGrant(u, h, n, pre, p, ttl, force, free)
        PROVE  Apart(leases', regained')
    <3> DEFINE ls  == Read(leases, u)
               m   == CanonOf(n)
               S   == Overlapping(Live(ls), u, m)
               out == Terminate(ls, S, "revoked", h)
               new == [unit |-> u, holder |-> h, model |-> m, preemptible |-> pre,
                       priority |-> ClampPriority(p), state |-> "active",
                       by |-> Nobody, left |-> ClampTtl(ttl)]
               all == [i \in DOMAIN ls \union {nextId} |->
                          IF i = nextId THEN new ELSE out[i]]
    <3>1. Table(ls) /\ Shrinks(leases, ls) /\ DOMAIN ls = DOMAIN leases
      BY <2>0, ExpireKeepsTable, ExpireShrinks DEF Read
    <3>2. leases' = Prune(all) /\ regained' = regained
      BY <2>2 DEF ClaimGrant
    <3>3. \A i \in LiveIds(ls) :
             ls[i].unit = u /\ Overlap(m, ls[i].model) => i \in S
      BY DEF Overlapping, OnUnit, Live
    <3>4. new.unit = u /\ new.model = m
      OBVIOUS
    <3> HIDE DEF ls, m, S
    <3>5. Shrinks(ls, out) /\ LiveIds(out) \intersect S = {}
      BY <3>1, TerminateShrinks
    <3>6. DOMAIN out = DOMAIN ls
      BY DEF Terminate
    <3> HIDE DEF out, new
    <3>7. Apart(out, regained)
      BY <2>0, <3>1, <3>5, ShrinkingKeepsApart
    <3>8. ASSUME NEW i \in LiveIds(out), out[i].unit = u, Overlap(m, out[i].model)
          PROVE  FALSE
      BY <3>3, <3>5, <3>8 DEF Shrinks
    <3>10. nextId \in DOMAIN all /\ all[nextId] = new
      OBVIOUS
    <3>b. /\ DOMAIN all = DOMAIN out \union {nextId}
          /\ \A i \in DOMAIN out : i # nextId => all[i] = out[i]
      BY <3>6
    <3> HIDE DEF all
    <3>9. ASSUME NEW i \in LiveIds(all), i # nextId
          PROVE  i \in LiveIds(out) /\ all[i] = out[i]
      <4>1. i \in DOMAIN all /\ all[i].state = "active" /\ all[i].left > 0
        BY DEF LiveIds
      <4>2. i \in DOMAIN out /\ all[i] = out[i]
        BY <3>9, <3>b, <4>1
      <4>3. QED BY <4>1, <4>2 DEF LiveIds
    <3>11. ASSUME NEW i \in LiveIds(all), NEW j \in LiveIds(all),
                  i # j, all[i].unit = all[j].unit, Overlap(all[i].model, all[j].model)
           PROVE  i \in regained \/ j \in regained
      <4>1. CASE i = nextId
        <5>1. j \in LiveIds(out) /\ out[j].unit = u /\ Overlap(m, out[j].model)
          BY <3>4, <3>9, <3>10, <3>11, <4>1
        <5>2. QED BY <3>8, <5>1
      <4>2. CASE j = nextId
        <5>1. i \in LiveIds(out) /\ out[i].unit = u /\ Overlap(m, out[i].model)
          BY <3>4, <3>9, <3>10, <3>11, <4>2 DEF Overlap
        <5>2. QED BY <3>8, <5>1
      <4>3. CASE i # nextId /\ j # nextId
        BY <3>7, <3>9, <3>11, <4>3 DEF Apart
      <4>4. QED BY <4>1, <4>2, <4>3
    <3>12. Apart(all, regained)
      BY <3>11 DEF Apart
    <3>13. Shrinks(all, Prune(all))
      BY DEF Shrinks, Prune, LiveIds
    <3>14. QED
      BY <3>2, <3>12, <3>13, ShrinkingKeepsApart
  <2>3. ASSUME NEW u \in Units, NEW h \in Holders, NEW n \in Names \union {Whole},
               NEW p \in Priorities, NEW force \in BOOLEAN,
               ClaimRefused(u, h, n, p, force)
        PROVE  Apart(leases', regained')
    BY <2>0, <2>3, <2>a, ExpireShrinks DEF ClaimRefused, Read
  <2>4. ASSUME NEW id \in DOMAIN leases, NEW ttl \in Ttls, Renew(id, ttl)
        PROVE  Apart(leases', regained')
    <3> DEFINE ls == ExpireLapsed(leases, {id})
    <3>1. Table(ls) /\ DOMAIN ls = DOMAIN leases /\ LiveIds(ls) = LiveIds(leases)
          /\ Shrinks(leases, ls)
      BY <2>0, ExpireKeepsTable, ExpireShrinks
    <3>2. leases' = [ls EXCEPT ![id].state = "active", ![id].left = ClampTtl(ttl)]
      BY <2>4 DEF Renew
    <3>3. Renewable(ls[id]) /\ regained' = IF ls[id].state = "expired"
                                           THEN regained \union {id} ELSE regained
      BY <2>4 DEF Renew
    <3>4. ls[id].state = "active" => id \in LiveIds(leases)
      <4>1. leases[id] \in Lease
        BY <2>0 DEF Table
      <4>2. CASE Lapsed(leases[id])
        BY <4>1, <4>2 DEF ExpireLapsed, Lease
      <4>3. CASE ~Lapsed(leases[id])
        BY <4>1, <4>3 DEF ExpireLapsed, Lease, Lapsed, LiveIds
      <4>4. QED BY <4>2, <4>3
    <3> HIDE DEF ls
    <3>5. ls[id] \in Lease /\ id \in DOMAIN ls
      BY <3>1 DEF Table
    <3>6. leases'[id].unit = ls[id].unit /\ leases'[id].model = ls[id].model
      BY <3>2, <3>5 DEF Lease
    <3>7. DOMAIN leases' = DOMAIN ls /\ \A i \in DOMAIN ls : i # id => leases'[i] = ls[i]
      BY <3>2
    <3>8. Apart(ls, regained)
      BY <2>0, <3>1, ShrinkingKeepsApart
    <3>9. id \in LiveIds(ls) \/ id \in regained'
      BY <3>1, <3>3, <3>4 DEF Renewable
    <3>10. \A i \in LiveIds(leases') :
              /\ i = id \/ i \in LiveIds(ls)
              /\ leases'[i].unit = ls[i].unit /\ leases'[i].model = ls[i].model
      BY <3>6, <3>7 DEF LiveIds
    <3>11. regained \subseteq regained'
      BY <3>3
    <3>12. QED
      BY <3>8, <3>9, <3>10, <3>11 DEF Apart
  <2>5. ASSUME NEW id \in DOMAIN leases, RenewRefused(id) \/ Get(id)
        PROVE  Apart(leases', regained')
    BY <2>0, <2>5, <2>a, ExpireShrinks DEF RenewRefused, Get
  <2>6. ASSUME NEW id \in DOMAIN leases, Release(id) \/ ExpireUnused(id)
        PROVE  Apart(leases', regained')
    <3>1. /\ Shrinks(leases, Terminate(leases, {id}, "released", Nobody))
          /\ Shrinks(leases, Terminate(leases, {id}, "expired", Nobody))
      BY <2>0, TerminateShrinks
    <3>2. QED BY <2>6, <2>a, <3>1 DEF Release, ExpireUnused
  <2>7. ASSUME NEW id \in DOMAIN leases, NEW free \in FreeFlags(leases[id].model), Revoke(id, free)
        PROVE  Apart(leases', regained')
    <3>1. Shrinks(leases, Terminate(leases, {id}, "revoked", Operator))
      BY <2>0, TerminateShrinks
    <3>2. QED BY <2>7, <2>a, <3>1 DEF Revoke
  <2>8. ASSUME NEW u \in Units, NEW n \in Names \union {Whole},
               NEW spare \in Holders \union {Nobody}, RevokeForEviction(u, n, spare)
        PROVE  Apart(leases', regained')
    <3> DEFINE ls == Read(leases, u)
               S  == EvictionTargets(Live(ls), u, CanonOf(n), spare)
    <3>1. Table(ls) /\ Shrinks(leases, ls)
      BY <2>0, ExpireKeepsTable, ExpireShrinks DEF Read
    <3>2. leases' = Terminate(ls, S, "revoked", Placement) /\ regained' = regained
      BY <2>8 DEF RevokeForEviction
    <3> HIDE DEF ls, S
    <3>3. Shrinks(ls, leases')
      <4>1. Shrinks(ls, Terminate(ls, S, "revoked", Placement))
        BY <3>1, TerminateShrinks
      <4>2. QED BY <3>2, <4>1
    <3>4. Shrinks(leases, leases')
      BY <3>1, <3>3 DEF Shrinks
    <3>5. QED BY <2>a, <3>2, <3>4
  <2>9. ASSUME NEW u \in Units, Query(u) PROVE Apart(leases', regained')
    BY <2>0, <2>9, <2>a, ExpireShrinks DEF Query, Read
  <2>10. CASE Sweep
    BY <2>0, <2>10, <2>a, ExpireShrinks DEF Sweep
  <2>11. ASSUME NEW k \in Units \X Scopes, ClearPending(k)
         PROVE  Apart(leases', regained')
    BY <2>0, <2>11 DEF ClearPending
  <2>12. CASE Tick
    <3>1. ASSUME NEW i \in DOMAIN leases
          PROVE  /\ leases'[i].state = leases[i].state
                 /\ leases'[i].unit = leases[i].unit
                 /\ leases'[i].model = leases[i].model
                 /\ leases'[i].left > 0 => leases[i].left > 0
      <4>1. leases[i] \in Lease /\ leases[i].left - 1 \in Int
        BY <2>0 DEF Table, Lease
      <4>2. -Grace \in Int /\ -Grace <= 0
        BY LeasesAssumption
      <4> DEFINE left == Max({leases[i].left - 1, -Grace})
      <4>3. left \in {leases[i].left - 1, -Grace}
        BY <4>1, <4>2, MaxOfTwo
      <4>4. leases'[i] = [leases[i] EXCEPT !.left = left]
        BY <2>12 DEF Tick
      <4> HIDE DEF left
      <4>5. left > 0 => leases[i].left > 0
        <5>1. leases[i].left \in Int
          BY <4>1 DEF Lease
        <5>2. QED BY <4>2, <4>3, <5>1
      <4>6. QED BY <4>1, <4>4, <4>5 DEF Lease
    <3>2. DOMAIN leases' = DOMAIN leases
      BY <2>12 DEF Tick
    <3>3. Shrinks(leases, leases')
      BY <3>1, <3>2 DEF Shrinks, LiveIds
    <3>4. QED BY <2>12, <2>a, <3>3 DEF Tick
  <2>13. CASE UNCHANGED leaseVars
    BY <2>0, <2>13 DEF leaseVars
  <2>14. CASE ClaimStep
    BY <2>1, <2>2, <2>3, <2>14 DEF ClaimStep
  <2>15. CASE HolderStep
    BY <2>4, <2>5, <2>6, <2>15 DEF HolderStep
  <2>16. CASE OperatorStep \/ EvictionStep \/ QueryStep
    BY <2>7, <2>8, <2>9, <2>16 DEF OperatorStep, EvictionStep, QueryStep
  <2>17. CASE SweeperStep
    BY <2>6, <2>10, <2>11, <2>17 DEF SweeperStep
  <2>18. QED
    BY <2>12, <2>13, <2>14, <2>15, <2>16, <2>17 DEF Next
<1>3. QED
  BY <1>1, <1>2, TypeCorrect, PTL DEF Spec

-----------------------------------------------------------------------------
(* The board that a table shows.                                           *)

\* The claim a lease states.
ClaimOf(l) ==
    [unit |-> l.unit, holder |-> l.holder, model |-> l.model,
     preemptible |-> l.preemptible, priority |-> l.priority]

\* Every claim of ts is one that ls showed under the same id.
Fewer(ls, ts) ==
    \A i \in LiveIds(ts) : i \in LiveIds(ls) /\ ClaimOf(ts[i]) = ClaimOf(ls[i])

\* The board of a table lists the claims of its live leases.
LEMMA BoardOfTable ==
    ASSUME NEW ls, Table(ls)
    PROVE  /\ Live(ls) = [i \in LiveIds(ls) |-> ClaimOf(ls[i])]
           /\ DOMAIN Live(ls) = LiveIds(ls)
           /\ LiveIds(ls) \subseteq DOMAIN ls
           /\ \A i \in LiveIds(ls) : Live(ls)[i] \in Board!Claim
<1>1. /\ Live(ls) = [i \in LiveIds(ls) |-> ClaimOf(ls[i])]
      /\ LiveIds(ls) \subseteq DOMAIN ls
  BY DEF Live, ClaimOf, LiveIds
<1>2. ASSUME NEW i \in DOMAIN ls PROVE ClaimOf(ls[i]) \in Board!Claim
  <2>1. ls[i] \in Lease
    BY DEF Table
  <2>2. /\ ls[i].unit \in Units /\ ls[i].holder \in Holders /\ ls[i].model \in Scopes
        /\ ls[i].preemptible \in BOOLEAN /\ ls[i].priority \in 0..MaxPriority
    BY <2>1 DEF Lease
  <2>3. QED BY <2>2 DEF ClaimOf, Board!Claim, Board!Scopes, Board!Models, Scopes, Models
<1>3. QED BY <1>1, <1>2

\* Leases that state the same claim have the same fields.
LEMMA SameClaim ==
    ASSUME NEW l, NEW k, l.unit = k.unit, l.holder = k.holder, l.model = k.model,
           l.preemptible = k.preemptible, l.priority = k.priority
    PROVE  ClaimOf(l) = ClaimOf(k)
BY DEF ClaimOf

\* Lazy expiry leaves the board alone ...
LEMMA ExpireKeepsBoard ==
    ASSUME NEW ls, Table(ls), NEW S
    PROVE  Fewer(ls, ExpireLapsed(ls, S))
<1> DEFINE es == ExpireLapsed(ls, S)
<1>1. LiveIds(es) = LiveIds(ls) /\ LiveIds(ls) \subseteq DOMAIN ls
  BY ExpireKeepsTable DEF LiveIds
<1>2. ASSUME NEW i \in DOMAIN ls
      PROVE  ClaimOf(es[i]) = ClaimOf(ls[i])
  BY ExpireKeepsTable, SameClaim
<1>3. QED BY <1>1, <1>2 DEF Fewer

\* ... and a termination takes claims off it.
LEMMA TerminateShrinksBoard ==
    ASSUME NEW ls, Table(ls), NEW S, NEW st \in State, st # "active",
           NEW by \in Holders \union {Operator, Placement, Nobody}
    PROVE  Fewer(ls, Terminate(ls, S, st, by))
<1> DEFINE ts == Terminate(ls, S, st, by)
<1>1. LiveIds(ts) \subseteq LiveIds(ls) /\ LiveIds(ls) \subseteq DOMAIN ls
  BY TerminateKeepsTable DEF LiveIds
<1>2. ASSUME NEW i \in DOMAIN ls
      PROVE  ClaimOf(ts[i]) = ClaimOf(ls[i])
  <2>1. ls[i] \in Lease
    BY DEF Table
  <2>2. CASE i \in S /\ ls[i].state = "active"
    <3> DEFINE left == IF st = "expired" THEN ls[i].left ELSE -Grace
    <3>1. ts[i] = [ls[i] EXCEPT !.state = st, !.by = by, !.left = left]
      BY <2>2 DEF Terminate
    <3> HIDE DEF left, ts
    <3>2. QED BY <2>1, <3>1 DEF Lease, ClaimOf
  <2>3. CASE ~(i \in S /\ ls[i].state = "active")
    BY <2>3 DEF Terminate
  <2>4. QED BY <2>2, <2>3
<1>3. QED BY <1>1, <1>2 DEF Fewer

\* A table that shows fewer claims shows a restriction of the board.
LEMMA FewerIsRestriction ==
    ASSUME NEW ls, Table(ls), NEW ts, Table(ts), Fewer(ls, ts)
    PROVE  LET S == LiveIds(ls) \ LiveIds(ts)
           IN  Live(ts) = [i \in DOMAIN Live(ls) \ S |-> Live(ls)[i]]
<1> DEFINE S == LiveIds(ls) \ LiveIds(ts)
<1>1. DOMAIN Live(ls) \ S = LiveIds(ts)
  BY BoardOfTable DEF Fewer
<1>2. \A i \in LiveIds(ts) : ClaimOf(ts[i]) = Live(ls)[i]
  BY BoardOfTable DEF Fewer
<1>3. Live(ts) = [i \in LiveIds(ts) |-> ClaimOf(ts[i])]
  BY BoardOfTable
<1>4. QED BY <1>1, <1>2, <1>3

-----------------------------------------------------------------------------
(* Each kind of change of the table is a step of the board.                *)

\* Whatever only ends claims, or leaves the board alone, is an End.
LEMMA EndStep ==
    ASSUME Table(leases), Table(leases'), Fewer(leases, leases'), nextId' = nextId
    PROVE  Board!BoardNext
<1> DEFINE S == LiveIds(leases) \ LiveIds(leases')
<1>1. Live(leases') = [i \in DOMAIN Live(leases) \ S |-> Live(leases)[i]]
  BY FewerIsRestriction
<1>2. S \in SUBSET DOMAIN Live(leases)
  BY BoardOfTable
<1> HIDE DEF S
<1>3. Board!End(S)
  BY <1>1 DEF Board!End, Live, LiveIds
<1>4. QED BY <1>2, <1>3 DEF Board!BoardNext

\* A lease that is live before and after may be re-stated for the same unit and
\* holder, on the same model or, once it covered the unit, on one model.
LEMMA ExtendStep ==
    ASSUME Table(leases), Table(leases'), nextId' = nextId,
           NEW id \in LiveIds(leases),
           DOMAIN leases' = DOMAIN leases, LiveIds(leases') = LiveIds(leases),
           leases'[id].unit = leases[id].unit, leases'[id].holder = leases[id].holder,
           leases[id].model \in {leases'[id].model, Whole},
           \A i \in LiveIds(leases) : i # id => ClaimOf(leases'[i]) = ClaimOf(leases[i])
    PROVE  Board!BoardNext
<1> DEFINE c == ClaimOf(leases'[id])
           b == Live(leases)
           d == Live(leases')
<1>1. /\ b = [i \in LiveIds(leases) |-> ClaimOf(leases[i])]
      /\ d = [i \in LiveIds(leases) |-> ClaimOf(leases'[i])]
  BY BoardOfTable
<1>2. c \in Board!Claim
  BY BoardOfTable
<1>3. c.unit = b[id].unit /\ c.holder = b[id].holder /\ b[id].model \in {c.model, Whole}
  BY <1>1 DEF ClaimOf
<1>4. d = [b EXCEPT ![id] = c]
  BY <1>1
<1>5. Board!Extend(id, c)
  BY <1>3, <1>4 DEF Board!Extend, Live, LiveIds
<1>6. id \in DOMAIN Live(leases)
  BY <1>1
<1>7. QED BY <1>2, <1>5, <1>6 DEF Board!BoardNext

\* A lease that is not live but was granted comes back as a claim of its own.
LEMMA ReturnStep ==
    ASSUME TypeOK, Table(leases'), nextId' = nextId,
           NEW id \in DOMAIN leases, id \notin LiveIds(leases),
           LiveIds(leases') = LiveIds(leases) \union {id},
           \A i \in LiveIds(leases) : ClaimOf(leases'[i]) = ClaimOf(leases[i])
    PROVE  Board!BoardNext
<1> DEFINE c == ClaimOf(leases'[id])
           b == Live(leases)
           d == Live(leases')
<1>1. /\ b = [i \in LiveIds(leases) |-> ClaimOf(leases[i])]
      /\ d = [i \in LiveIds(leases') |-> ClaimOf(leases'[i])]
  BY BoardOfTable, TypedTable
<1>2. c \in Board!Claim
  BY BoardOfTable
<1>3. id < nextId /\ id \in 1..MaxLeases /\ id \notin DOMAIN b
  BY <1>1, LeasesAssumption DEF TypeOK
<1>4. d = [i \in DOMAIN b \union {id} |-> IF i = id THEN c ELSE b[i]]
  BY <1>1
<1>5. Board!Return(id, c)
  BY <1>3, <1>4 DEF Board!Return, Live, LiveIds
<1>6. QED BY <1>2, <1>3, <1>5 DEF Board!BoardNext

\* A fresh lease takes the place of every claim it overlaps, each of them its
\* holder's own or preemptible.
LEMMA GrantStep ==
    ASSUME Table(leases), Table(leases'), nextId \in LeaseId, nextId' = nextId + 1,
           nextId \notin DOMAIN leases, nextId \in LiveIds(leases'),
           NEW over, over = Overlapping(Live(leases), leases'[nextId].unit,
                                        leases'[nextId].model),
           \A i \in over : \/ leases[i].holder = leases'[nextId].holder
                           \/ leases[i].preemptible,
           LiveIds(leases') = (LiveIds(leases) \ over) \union {nextId},
           \A i \in LiveIds(leases) \ over : ClaimOf(leases'[i]) = ClaimOf(leases[i])
    PROVE  Board!BoardNext
<1> DEFINE c == ClaimOf(leases'[nextId])
           b == Live(leases)
           d == Live(leases')
<1>1. /\ b = [i \in LiveIds(leases) |-> ClaimOf(leases[i])]
      /\ d = [i \in LiveIds(leases') |-> ClaimOf(leases'[i])]
      /\ LiveIds(leases) \subseteq DOMAIN leases
  BY BoardOfTable
<1>2. c \in Board!Claim
  BY BoardOfTable
<1>3. over = {i \in DOMAIN b : /\ b[i].unit = c.unit
                              /\ Board!Overlap(b[i].model, c.model)}
  BY DEF Overlapping, OnUnit, Overlap, Board!Overlap, ClaimOf
<1>4. \A i \in over : b[i].holder = c.holder \/ b[i].preemptible
  BY <1>1, <1>3 DEF ClaimOf
<1>5. d = [i \in (DOMAIN b \ over) \union {nextId} |->
              IF i = nextId THEN c ELSE b[i]]
  BY <1>1
<1>6. nextId <= MaxLeases
  BY LeasesAssumption DEF LeaseId
<1>7. Board!Grant(c)
  <2> HIDE DEF b, c, d
  <2>1. d = Live(leases)'
    BY DEF d, Live, LiveIds
  <2>2. b = Live(leases)
    BY DEF b
  <2>3. QED BY <1>3, <1>4, <1>5, <1>6, <2>1, <2>2 DEF Board!Grant
<1>8. QED BY <1>2, <1>7 DEF Board!BoardNext

-----------------------------------------------------------------------------
(* The table implements the board.                                         *)

\* Every method of the table changes the live claims by one grant, extension, end or
\* return of ClaimBoard, or not at all: lazy expiry, the grace window, history and
\* queued frees are invisible to the components that consult the leases.
THEOREM TableImplementsBoard == Spec => ImplementsBoard
<1>1. Init => Board!BoardInit
  <2> SUFFICES ASSUME Init PROVE Board!BoardInit
    OBVIOUS
  <2>1. leases = <<>> /\ nextId = 1
    BY DEF Init
  <2>2. LiveIds(leases) = {}
    BY <2>1 DEF LiveIds
  <2>3. Live(leases) = <<>>
    BY <2>2 DEF Live
  <2>4. QED BY <2>1, <2>3 DEF Board!BoardInit
<1>2. TypeOK /\ TypeOK' /\ [Next]_leaseVars => [Board!BoardNext]_(Board!boardVars)
  <2> SUFFICES ASSUME TypeOK, TypeOK', [Next]_leaseVars
               PROVE  [Board!BoardNext]_(Board!boardVars)
    OBVIOUS
  <2>0. /\ Table(leases) /\ Table(leases')
        /\ DOMAIN leases \subseteq 1..(nextId - 1)
        /\ LiveIds(leases) \subseteq DOMAIN leases
    <3>1. Table(leases')
      BY LeasesAssumption DEF TypeOK, Table
    <3>2. QED BY <3>1, TypedTable DEF TypeOK, LiveIds
  <2>e. ASSUME Fewer(leases, leases'), nextId' = nextId
        PROVE  Board!BoardNext
    BY <2>0, <2>e, EndStep
  <2>r. ASSUME NEW S, leases' = ExpireLapsed(leases, S), nextId' = nextId
        PROVE  Board!BoardNext
    BY <2>0, <2>r, <2>e, ExpireKeepsBoard
  <2>t. ASSUME NEW S, NEW st \in State, st # "active",
               NEW by \in Holders \union {Operator, Placement, Nobody},
               leases' = Terminate(leases, S, st, by), nextId' = nextId
        PROVE  Board!BoardNext
    <3>1. Fewer(leases, Terminate(leases, S, st, by))
      BY <2>0, <2>t, TerminateShrinksBoard
    <3>2. QED BY <2>t, <2>e, <3>1
  <2>1. ASSUME NEW u \in Units, NEW h \in Holders, NEW n \in Names \union {Whole},
               NEW p \in Priorities, NEW pre \in BOOLEAN, NEW ttl \in Ttls,
               NEW free \in FreeFlags(n), ClaimExtend(u, h, n, pre, p, ttl, free)
        PROVE  Board!BoardNext
    <3> DEFINE ls == Read(leases, u)
               id == Own(u, h, n)
               m  == IF n = Whole THEN ls[id].model ELSE Canon[n]
               c  == Conflicting(Live(leases), u, CanonOf(n), h)
    <3>1. id \in LiveIds(leases) /\ Overlap(CanonOf(n), leases[id].model)
      <4>1. id = c /\ c # 0
        BY <2>1 DEF ClaimExtend, Own
      <4>2. c = 0 \/ (c \in LiveIds(leases) /\ Overlap(CanonOf(n), leases[c].model))
        BY <2>0, ConflictingIsLive, CanonIsScope
      <4> HIDE DEF c
      <4>3. QED BY <4>1, <4>2
    <3>2. /\ Table(ls) /\ DOMAIN ls = DOMAIN leases /\ LiveIds(ls) = LiveIds(leases)
          /\ Fewer(leases, ls)
      BY <2>0, ExpireKeepsTable, ExpireKeepsBoard DEF Read
    <3>3. /\ ls[id].unit = leases[id].unit /\ ls[id].holder = leases[id].holder
          /\ ls[id].model = leases[id].model
      BY <3>1, <3>2 DEF Fewer, ClaimOf
    <3>4. leases' = [ls EXCEPT ![id].preemptible = pre,
                               ![id].priority = ClampPriority(p),
                               ![id].model = m, ![id].left = ClampTtl(ttl)]
          /\ nextId' = nextId
      BY <2>1 DEF ClaimExtend
    <3>5. leases[id].model = Whole \/ m = leases[id].model
      BY <3>1, <3>3, ClaimsAssumption DEF Overlap, CanonOf
    <3>6. ClampTtl(ttl) \in Int /\ ClampTtl(ttl) > 0
      BY ClampedTtl, LeasesAssumption
    <3> HIDE DEF ls, id, m, c
    <3>7. ls[id] \in Lease /\ id \in DOMAIN ls /\ ls[id].state = "active"
      BY <3>1, <3>2 DEF LiveIds, Table
    <3>8. /\ leases'[id].unit = ls[id].unit /\ leases'[id].holder = ls[id].holder
          /\ leases'[id].model = m /\ leases'[id].left > 0
          /\ leases'[id].state = "active"
      BY <3>4, <3>6, <3>7 DEF Lease
    <3>9. DOMAIN leases' = DOMAIN ls /\ \A i \in DOMAIN ls : i # id => leases'[i] = ls[i]
      BY <3>4
    <3>10. LiveIds(leases') = LiveIds(leases)
      BY <3>1, <3>2, <3>8, <3>9 DEF LiveIds
    <3>11. \A i \in LiveIds(leases) : i # id => ClaimOf(leases'[i]) = ClaimOf(leases[i])
      BY <3>2, <3>9 DEF Fewer, LiveIds
    <3>12. /\ DOMAIN leases' = DOMAIN leases
           /\ leases'[id].unit = leases[id].unit /\ leases'[id].holder = leases[id].holder
           /\ leases[id].model \in {leases'[id].model, Whole}
      BY <3>2, <3>3, <3>5, <3>8, <3>9
    <3>13. QED
      BY <2>0, <3>1, <3>4, <3>10, <3>11, <3>12, ExtendStep
  <2>2. ASSUME NEW u \in Units, NEW h \in Holders, NEW n \in Names \union {Whole},
               NEW p \in Priorities, NEW pre \in BOOLEAN, NEW ttl \in Ttls,
               NEW free \in FreeFlags(n), NEW force \in BOOLEAN,
               ClaimGrant(u, h, n, pre, p, ttl, force, free)
        PROVE  Board!BoardNext
    <3> DEFINE ls  == Read(leases, u)
               m   == CanonOf(n)
               over == Overlapping(Live(ls), u, m)
               out == Terminate(ls, over, "revoked", h)
               new == [unit |-> u, holder |-> h, model |-> m, preemptible |-> pre,
                       priority |-> ClampPriority(p), state |-> "active",
                       by |-> Nobody, left |-> ClampTtl(ttl)]
               all == [i \in DOMAIN ls \union {nextId} |->
                          IF i = nextId THEN new ELSE out[i]]
    <3>1. /\ Table(ls) /\ DOMAIN ls = DOMAIN leases /\ LiveIds(ls) = LiveIds(leases)
          /\ Live(ls) = Live(leases) /\ Fewer(leases, ls)
      BY <2>0, ExpireKeepsTable, ExpireKeepsBoard DEF Read
    <3>2. /\ leases' = Prune(all) /\ nextId' = nextId + 1 /\ nextId \in LeaseId
          /\ MayTake(Live(ls), u, m, h, ClampPriority(p), force)
      BY <2>2 DEF ClaimGrant
    <3>3. nextId \notin DOMAIN leases
      BY <2>0 DEF TypeOK
    <3>4. \A i \in over : leases[i].holder = h \/ leases[i].preemptible
      BY <3>1, <3>2 DEF MayTake, Live, LiveIds, Overlapping, OnUnit
    <3>5. "revoked" \in State /\ h \in Holders \union {Operator, Placement, Nobody}
      BY DEF State
    <3>6. /\ Fewer(ls, out) /\ LiveIds(out) = LiveIds(ls) \ over
          /\ DOMAIN out = DOMAIN ls
      <4> HIDE DEF ls, over
      <4>1. Fewer(ls, out)
        BY <3>1, <3>5, TerminateShrinksBoard
      <4>2. LiveIds(out) = LiveIds(ls) \ over
        BY <3>1, <3>5, TerminateKeepsTable
      <4>3. DOMAIN out = DOMAIN ls
        BY DEF Terminate
      <4>4. QED BY <4>1, <4>2, <4>3
    <3>7. ClampTtl(ttl) \in Int /\ ClampTtl(ttl) > 0
      BY ClampedTtl, LeasesAssumption
    <3>8. new.unit = u /\ new.model = m /\ new.holder = h
          /\ new.state = "active" /\ new.left > 0
      BY <3>7
    <3> HIDE DEF ls, m, over, out, new
    <3>9. /\ DOMAIN all = DOMAIN out \union {nextId} /\ all[nextId] = new
          /\ \A i \in DOMAIN out : i # nextId => all[i] = out[i]
      BY <3>6
    <3>10. Prune(all) = [i \in DOMAIN Prune(all) |-> all[i]]
           /\ LiveIds(all) \subseteq DOMAIN Prune(all)
           /\ DOMAIN Prune(all) \subseteq DOMAIN all
      BY DEF Prune, Excess, Terminal, LiveIds
    <3> HIDE DEF all
    <3>11. LiveIds(all) = (LiveIds(leases) \ over) \union {nextId}
      BY <3>1, <3>3, <3>6, <3>8, <3>9 DEF LiveIds
    <3>12. LiveIds(leases') = LiveIds(all)
           /\ \A i \in LiveIds(all) : leases'[i] = all[i]
      BY <3>2, <3>10 DEF LiveIds
    <3>13. /\ nextId \in LiveIds(leases') /\ leases'[nextId] = new
           /\ LiveIds(leases') = (LiveIds(leases) \ over) \union {nextId}
      BY <3>9, <3>11, <3>12
    <3>14. \A i \in LiveIds(leases) \ over : ClaimOf(leases'[i]) = ClaimOf(leases[i])
      BY <2>0, <3>1, <3>3, <3>6, <3>9, <3>11, <3>12 DEF Fewer
    <3>15. over = Overlapping(Live(leases), leases'[nextId].unit, leases'[nextId].model)
      BY <3>1, <3>8, <3>13 DEF over
    <3>16. \A i \in over : \/ leases[i].holder = leases'[nextId].holder
                           \/ leases[i].preemptible
      BY <3>4, <3>8, <3>13
    <3>17. QED
      BY <2>0, <3>2, <3>3, <3>13, <3>14, <3>15, <3>16, GrantStep
  <2>3. ASSUME NEW u \in Units, NEW h \in Holders, NEW n \in Names \union {Whole},
               NEW p \in Priorities, NEW force \in BOOLEAN,
               ClaimRefused(u, h, n, p, force)
        PROVE  Board!BoardNext
    BY <2>3, <2>r DEF ClaimRefused, Read
  <2>4. ASSUME NEW id \in DOMAIN leases, NEW ttl \in Ttls, Renew(id, ttl)
        PROVE  Board!BoardNext
    <3> DEFINE ls == ExpireLapsed(leases, {id})
    <3>1. /\ Table(ls) /\ DOMAIN ls = DOMAIN leases /\ LiveIds(ls) = LiveIds(leases)
          /\ Fewer(leases, ls)
          /\ ls[id].unit = leases[id].unit /\ ls[id].holder = leases[id].holder
          /\ ls[id].model = leases[id].model
      BY <2>0, ExpireKeepsTable, ExpireKeepsBoard
    <3>2. leases' = [ls EXCEPT ![id].state = "active", ![id].left = ClampTtl(ttl)]
          /\ nextId' = nextId
      BY <2>4 DEF Renew
    <3>3. ClampTtl(ttl) \in Int /\ ClampTtl(ttl) > 0
      BY ClampedTtl, LeasesAssumption
    <3> HIDE DEF ls
    <3>4. ls[id] \in Lease /\ id \in DOMAIN ls
      BY <3>1 DEF Table
    <3>5. /\ leases'[id].unit = ls[id].unit /\ leases'[id].holder = ls[id].holder
          /\ leases'[id].model = ls[id].model
          /\ leases'[id].state = "active" /\ leases'[id].left > 0
      BY <3>2, <3>3, <3>4 DEF Lease
    <3>6. DOMAIN leases' = DOMAIN ls /\ \A i \in DOMAIN ls : i # id => leases'[i] = ls[i]
      BY <3>2
    <3>7. LiveIds(leases') = LiveIds(leases) \union {id}
      BY <2>0, <3>1, <3>5, <3>6 DEF LiveIds
    <3>8. \A i \in LiveIds(leases) : i # id => ClaimOf(leases'[i]) = ClaimOf(leases[i])
      BY <2>0, <3>1, <3>6 DEF Fewer
    <3>9. CASE id \in LiveIds(leases)
      <4>1. LiveIds(leases') = LiveIds(leases)
        BY <3>7, <3>9
      <4>2. QED
        BY <2>0, <3>1, <3>2, <3>5, <3>6, <3>8, <3>9, <4>1, ExtendStep
    <3>10. CASE id \notin LiveIds(leases)
      BY <2>0, <3>2, <3>7, <3>8, <3>10, ReturnStep
    <3>11. QED BY <3>9, <3>10
  <2>5. ASSUME NEW id \in DOMAIN leases, RenewRefused(id) \/ Get(id)
        PROVE  Board!BoardNext
    BY <2>5, <2>r DEF RenewRefused, Get
  <2>6. ASSUME NEW id \in DOMAIN leases, Release(id) \/ ExpireUnused(id)
        PROVE  Board!BoardNext
    BY <2>6, <2>t DEF Release, ExpireUnused, State
  <2>7. ASSUME NEW id \in DOMAIN leases, NEW free \in FreeFlags(leases[id].model),
               Revoke(id, free)
        PROVE  Board!BoardNext
    BY <2>7, <2>t DEF Revoke, State
  <2>8. ASSUME NEW u \in Units, NEW n \in Names \union {Whole},
               NEW spare \in Holders \union {Nobody}, RevokeForEviction(u, n, spare)
        PROVE  Board!BoardNext
    <3> DEFINE ls == Read(leases, u)
               S  == EvictionTargets(Live(ls), u, CanonOf(n), spare)
    <3>1. Table(ls) /\ Fewer(leases, ls)
      BY <2>0, ExpireKeepsTable, ExpireKeepsBoard DEF Read
    <3>2. leases' = Terminate(ls, S, "revoked", Placement) /\ nextId' = nextId
      BY <2>8 DEF RevokeForEviction
    <3> HIDE DEF ls, S
    <3>3. Fewer(ls, leases')
      BY <3>1, <3>2, TerminateShrinksBoard DEF State
    <3>4. QED BY <3>1, <3>2, <3>3, <2>e DEF Fewer
  <2>9. ASSUME NEW u \in Units, Query(u) PROVE Board!BoardNext
    BY <2>9, <2>r DEF Query, Read
  <2>10. CASE Sweep
    BY <2>10, <2>r DEF Sweep
  <2>11. ASSUME NEW k \in Units \X Scopes, ClearPending(k)
         PROVE  Board!BoardNext
    BY <2>11, <2>e DEF ClearPending, Fewer
  <2>12. ASSUME Tick PROVE Board!BoardNext
    <3>1. ASSUME NEW i \in DOMAIN leases
          PROVE  /\ leases'[i].state = leases[i].state
                 /\ ClaimOf(leases'[i]) = ClaimOf(leases[i])
                 /\ leases'[i].left > 0 => leases[i].left > 0
      <4>1. leases[i] \in Lease /\ leases[i].left \in Int /\ leases[i].left - 1 \in Int
        BY <2>0 DEF Table, Lease
      <4>2. -Grace \in Int /\ -Grace <= 0
        BY LeasesAssumption
      <4> DEFINE left == Max({leases[i].left - 1, -Grace})
      <4>3. left \in {leases[i].left - 1, -Grace}
        BY <4>1, <4>2, MaxOfTwo
      <4>4. leases'[i] = [leases[i] EXCEPT !.left = left]
        BY <2>12 DEF Tick
      <4> HIDE DEF left
      <4>5. left > 0 => leases[i].left > 0
        BY <4>1, <4>2, <4>3
      <4>6. QED BY <4>1, <4>4, <4>5 DEF Lease, ClaimOf
    <3>2. DOMAIN leases' = DOMAIN leases /\ nextId' = nextId
      BY <2>12 DEF Tick
    <3>3. Fewer(leases, leases')
      BY <3>1, <3>2 DEF Fewer, LiveIds
    <3>4. QED BY <2>e, <3>2, <3>3
  <2>13. CASE UNCHANGED leaseVars
    BY <2>13 DEF leaseVars, Board!boardVars, Live, LiveIds
  <2>14. CASE ClaimStep
    BY <2>1, <2>2, <2>3, <2>14 DEF ClaimStep
  <2>15. CASE HolderStep
    BY <2>4, <2>5, <2>6, <2>15 DEF HolderStep
  <2>16. CASE OperatorStep \/ EvictionStep \/ QueryStep
    BY <2>7, <2>8, <2>9, <2>16 DEF OperatorStep, EvictionStep, QueryStep
  <2>17. CASE SweeperStep
    BY <2>6, <2>10, <2>11, <2>17 DEF SweeperStep
  <2>18. QED
    BY <2>12, <2>13, <2>14, <2>15, <2>16, <2>17 DEF Next
<1>3. QED
  BY <1>1, <1>2, TypeCorrect, PTL DEF Spec, ImplementsBoard, Board!BoardSpec

-----------------------------------------------------------------------------
(* The gates.                                                              *)

\* Apart live claims are all the gates need: whichever lease active_for surfaces
\* first covers the model asked for, so it is the only one, or a revival is involved.
LEMMA ApartLeasesAreSeen == TypeOK /\ OverlapOnlyByRevival => GateSeesNonPreemptible
<1> SUFFICES ASSUME TypeOK, OverlapOnlyByRevival,
                    NEW i \in LiveIds(leases), ~Live(leases)[i].preemptible
             PROVE  LET b == Live(leases)
                    IN  /\ BlocksUnleased(b, b[i].unit, Whole) # 0
                        /\ \A m \in Models :
                              Overlap(m, b[i].model) =>
                                 \/ BlocksUnleased(b, b[i].unit, m) # 0
                                 \/ \E j \in DOMAIN b :
                                       /\ {i, j} \intersect regained # {}
                                       /\ b[j].unit = b[i].unit
                                       /\ Overlap(m, b[j].model)
  BY TypedTable, BoardOfTable DEF GateSeesNonPreemptible
<1> DEFINE b == Live(leases)
           u == b[i].unit
<1>1. DOMAIN b = LiveIds(leases) /\ DOMAIN b \subseteq Nat \ {0}
  BY TypedTable, BoardOfTable DEF Table
<1>2. \A j \in DOMAIN b : b[j].unit = leases[j].unit /\ b[j].model = leases[j].model
  BY <1>1 DEF Live
<1>3. ASSUME NEW j \in DOMAIN b, i # j, b[j].unit = u, Overlap(b[i].model, b[j].model)
      PROVE  {i, j} \intersect regained # {}
  BY <1>1, <1>2, <1>3 DEF OverlapOnlyByRevival
<1>4. ~b[i].preemptible /\ i \in DOMAIN b
  BY <1>1
<1> HIDE DEF b
<1>5. BlocksUnleased(b, u, Whole) # 0
  <2> DEFINE S == {j \in OnUnit(b, u) : ~b[j].preemptible}
  <2>1. S \subseteq Nat \ {0} /\ i \in S
    BY <1>1, <1>4 DEF OnUnit
  <2>2. First(S) \in S
    BY <2>1, FirstIsMember
  <2>3. First(S) # 0 /\ ~b[First(S)].preemptible
    BY <2>1, <2>2
  <2> HIDE DEF S
  <2>4. BlocksUnleased(b, u, Whole) = First(S)
    BY <2>3 DEF BlocksUnleased, S
  <2>5. QED BY <2>3, <2>4
<1>6. ASSUME NEW m \in Models, Overlap(m, b[i].model)
      PROVE  \/ BlocksUnleased(b, u, m) # 0
             \/ \E j \in DOMAIN b : /\ {i, j} \intersect regained # {}
                                   /\ b[j].unit = u /\ Overlap(m, b[j].model)
  <2> DEFINE k == ActiveFor(b, u, m)
  <2>1. m # Whole
    BY ClaimsAssumption DEF Models
  <2>2. k \in DOMAIN b /\ b[k].unit = u /\ Overlap(m, b[k].model)
        /\ Overlap(b[i].model, b[k].model)
    <3>1. CASE OnScope(b, u, Whole) # {}
      <4>1. OnScope(b, u, Whole) \subseteq Nat \ {0}
        BY <1>1 DEF OnScope, OnUnit
      <4>2. First(OnScope(b, u, Whole)) \in OnScope(b, u, Whole)
        BY <3>1, <4>1, FirstIsMember
      <4>3. k = First(OnScope(b, u, Whole))
        BY <3>1 DEF ActiveFor
      <4>4. QED BY <4>2, <4>3 DEF OnScope, OnUnit, Overlap
    <3>2. CASE OnScope(b, u, Whole) = {}
      <4>1. b[i].model = m
        BY <1>4, <1>6, <2>1, <3>2 DEF OnScope, OnUnit, Overlap
      <4>2. i \in OnScope(b, u, m) /\ OnScope(b, u, m) \subseteq Nat \ {0}
        BY <1>1, <1>4, <4>1 DEF OnScope, OnUnit
      <4>3. First(OnScope(b, u, m)) \in OnScope(b, u, m)
        BY <4>2, FirstIsMember
      <4>4. k = First(OnScope(b, u, m))
        BY <2>1, <3>2 DEF ActiveFor
      <4>5. QED BY <4>1, <4>3, <4>4 DEF OnScope, OnUnit, Overlap
    <3>3. QED BY <3>1, <3>2
  <2>3. CASE k = i
    <3>1. BlocksUnleased(b, u, m) = i
      BY <1>1, <1>4, <2>1, <2>3 DEF BlocksUnleased
    <3>2. QED BY <1>1, <1>4, <3>1
  <2>4. CASE k # i
    BY <1>3, <2>2, <2>4
  <2>5. QED BY <2>3, <2>4
<1>7. QED BY <1>5, <1>6 DEF b

\* In every reachable state a non-preemptible live lease refuses un-leased work on its
\* unit and on every model it covers, whichever of the unit's leases active_for
\* surfaces first; a lease revived in its grace window is the only exception.
THEOREM GateSeesEveryLease == Spec => []GateSeesNonPreemptible
BY ApartLeasesAreSeen, TypeCorrect, LiveLeasesAreApart, PTL

-----------------------------------------------------------------------------
(* The end of a lease.                                                     *)

\* A lease that is over keeps the reason that was recorded first.
EndsKept(ls, ts) ==
    \A i \in DOMAIN ls \intersect DOMAIN ts :
        ls[i].state # "active" => ts[i].state = ls[i].state /\ ts[i].by = ls[i].by

LEMMA ExpireKeepsEnds ==
    ASSUME NEW ls, Table(ls), NEW S
    PROVE  EndsKept(ls, ExpireLapsed(ls, S))
BY ExpireKeepsTable DEF EndsKept, Lapsed

LEMMA TerminateKeepsEnds ==
    ASSUME NEW ls, Table(ls), NEW S, NEW st, NEW by
    PROVE  EndsKept(ls, Terminate(ls, S, st, by))
BY DEF EndsKept, Terminate

LEMMA KeptIsTransitive ==
    ASSUME NEW ls, NEW ms, NEW ts, EndsKept(ls, ms), EndsKept(ms, ts),
           DOMAIN ls \intersect DOMAIN ts \subseteq DOMAIN ms
    PROVE  EndsKept(ls, ts)
BY DEF EndsKept

\* What was released or revoked stays so, with the reason recorded first
\* (_terminate's "if not active: return"), and an expired lease comes back only
\* through renew() inside its grace window, in every step of every behaviour.
THEOREM EndsAreFinal == Spec => EndIsFinal
<1> DEFINE A == \A i \in DOMAIN leases \intersect DOMAIN leases' :
          /\ leases[i].state \in {"released", "revoked"}
                => leases'[i].state = leases[i].state /\ leases'[i].by = leases[i].by
          /\ leases[i].state = "expired" /\ leases'[i].state # "expired"
                => leases'[i].state = "active" /\ leases[i].left + Grace > 0
<1>1. TypeOK /\ [Next]_leaseVars => [A]_leaseVars
  <2> SUFFICES ASSUME TypeOK, Next PROVE A
    OBVIOUS
  <2>0. Table(leases) /\ nextId \notin DOMAIN leases
    BY TypedTable DEF TypeOK
  <2>k. ASSUME EndsKept(leases, leases') PROVE A
    BY <2>k DEF EndsKept
  <2>r. ASSUME NEW S, leases' = ExpireLapsed(leases, S) PROVE A
    BY <2>0, <2>r, <2>k, ExpireKeepsEnds
  <2>t. ASSUME NEW S, NEW st, NEW by, leases' = Terminate(leases, S, st, by) PROVE A
    BY <2>0, <2>t, <2>k, TerminateKeepsEnds
  <2> HIDE DEF A
  <2>1. ASSUME NEW u \in Units, NEW h \in Holders, NEW n \in Names \union {Whole},
               NEW p \in Priorities, NEW pre \in BOOLEAN, NEW ttl \in Ttls,
               NEW free \in FreeFlags(n), ClaimExtend(u, h, n, pre, p, ttl, free)
        PROVE  A
    <3> DEFINE ls == Read(leases, u)
               id == Own(u, h, n)
               m  == IF n = Whole THEN ls[id].model ELSE Canon[n]
    <3>1. id \in LiveIds(leases)
      BY <2>0, <2>1, ConflictingIsLive, CanonIsScope DEF ClaimExtend, Own
    <3>2. EndsKept(leases, ls)
      BY <2>0, ExpireKeepsEnds DEF Read
    <3>3. leases' = [ls EXCEPT ![id].preemptible = pre,
                               ![id].priority = ClampPriority(p),
                               ![id].model = m, ![id].left = ClampTtl(ttl)]
      BY <2>1 DEF ClaimExtend
    <3> HIDE DEF ls, id, m
    <3>4. \A i \in DOMAIN ls : i # id => leases'[i] = ls[i]
      BY <3>3
    <3>5. DOMAIN leases' = DOMAIN ls
      BY <3>3
    <3>6. EndsKept(leases, leases')
      BY <3>1, <3>2, <3>4, <3>5 DEF EndsKept, LiveIds
    <3>7. QED BY <2>k, <3>6
  <2>2. ASSUME NEW u \in Units, NEW h \in Holders, NEW n \in Names \union {Whole},
               NEW p \in Priorities, NEW pre \in BOOLEAN, NEW ttl \in Ttls,
               NEW free \in FreeFlags(n), NEW force \in BOOLEAN,
               ClaimGrant(u, h, n, pre, p, ttl, force, free)
        PROVE  A
    <3> DEFINE ls  == Read(leases, u)
               m   == CanonOf(n)
               out == Terminate(ls, Overlapping(Live(ls), u, m), "revoked", h)
               new == [unit |-> u, holder |-> h, model |-> m, preemptible |-> pre,
                       priority |-> ClampPriority(p), state |-> "active",
                       by |-> Nobody, left |-> ClampTtl(ttl)]
               all == [i \in DOMAIN ls \union {nextId} |->
                          IF i = nextId THEN new ELSE out[i]]
    <3>1. leases' = Prune(all)
      BY <2>2 DEF ClaimGrant
    <3>2. Table(ls) /\ DOMAIN ls = DOMAIN leases /\ EndsKept(leases, ls)
      BY <2>0, ExpireKeepsTable, ExpireKeepsEnds DEF Read
    <3> HIDE DEF ls
    <3>3. EndsKept(ls, out) /\ DOMAIN out = DOMAIN ls
      <4>1. EndsKept(ls, out)
        BY <3>2, TerminateKeepsEnds
      <4>2. DOMAIN out = DOMAIN ls
        BY DEF Terminate
      <4>3. QED BY <4>1, <4>2
    <3> HIDE DEF out, new
    <3>4. \A i \in DOMAIN Prune(all) \intersect DOMAIN ls :
             i # nextId => Prune(all)[i] = out[i]
      BY DEF Prune
    <3> HIDE DEF all
    <3>5. EndsKept(leases, out)
      BY <3>2, <3>3, KeptIsTransitive
    <3>6. EndsKept(leases, leases')
      BY <2>0, <3>1, <3>2, <3>3, <3>4, <3>5 DEF EndsKept
    <3>7. QED BY <2>k, <3>6
  <2>3. ASSUME NEW u \in Units, NEW h \in Holders, NEW n \in Names \union {Whole},
               NEW p \in Priorities, NEW force \in BOOLEAN,
               ClaimRefused(u, h, n, p, force)
        PROVE  A
    BY <2>3, <2>r DEF ClaimRefused, Read
  <2>4. ASSUME NEW id \in DOMAIN leases, NEW ttl \in Ttls, Renew(id, ttl)
        PROVE  A
    <3> DEFINE ls == ExpireLapsed(leases, {id})
    <3>1. /\ Table(ls) /\ DOMAIN ls = DOMAIN leases /\ EndsKept(leases, ls)
          /\ ls[id].left = leases[id].left
      BY <2>0, ExpireKeepsTable, ExpireKeepsEnds
    <3>2. /\ Renewable(ls[id])
          /\ leases' = [ls EXCEPT ![id].state = "active", ![id].left = ClampTtl(ttl)]
      BY <2>4 DEF Renew
    <3> HIDE DEF ls
    <3>3. ls[id] \in Lease /\ leases[id] \in Lease
      BY <2>0, <3>1 DEF Table
    <3>4. leases'[id].state = "active"
      BY <3>1, <3>2, <3>3 DEF Lease
    <3>5. \A i \in DOMAIN ls : i # id => leases'[i] = ls[i]
      BY <3>2
    <3>6. leases[id].state # "active" => leases[id].state = "expired" /\ leases[id].left + Grace > 0
      BY <3>1, <3>2, <3>3 DEF EndsKept, Renewable
    <3>7. QED BY <3>1, <3>4, <3>5, <3>6 DEF A, EndsKept
  <2>5. ASSUME NEW id \in DOMAIN leases, RenewRefused(id) \/ Get(id)
        PROVE  A
    BY <2>5, <2>r DEF RenewRefused, Get
  <2>6. ASSUME NEW id \in DOMAIN leases, Release(id) \/ ExpireUnused(id)
        PROVE  A
    BY <2>6, <2>t DEF Release, ExpireUnused
  <2>7. ASSUME NEW id \in DOMAIN leases, NEW free \in FreeFlags(leases[id].model),
               Revoke(id, free)
        PROVE  A
    BY <2>7, <2>t DEF Revoke
  <2>8. ASSUME NEW u \in Units, NEW n \in Names \union {Whole},
               NEW spare \in Holders \union {Nobody}, RevokeForEviction(u, n, spare)
        PROVE  A
    <3> DEFINE ls == Read(leases, u)
               S  == EvictionTargets(Live(ls), u, CanonOf(n), spare)
    <3>1. Table(ls) /\ DOMAIN ls = DOMAIN leases /\ EndsKept(leases, ls)
      BY <2>0, ExpireKeepsTable, ExpireKeepsEnds DEF Read
    <3>2. leases' = Terminate(ls, S, "revoked", Placement)
      BY <2>8 DEF RevokeForEviction
    <3> HIDE DEF ls, S
    <3>3. EndsKept(ls, leases')
      BY <3>1, <3>2, TerminateKeepsEnds
    <3>4. EndsKept(leases, leases')
      BY <3>1, <3>3, KeptIsTransitive
    <3>5. QED BY <2>k, <3>4
  <2>9. ASSUME NEW u \in Units, Query(u) PROVE A
    BY <2>9, <2>r DEF Query, Read
  <2>10. CASE Sweep
    BY <2>10, <2>r DEF Sweep
  <2>11. ASSUME NEW k \in Units \X Scopes, ClearPending(k)
         PROVE  A
    BY <2>11, <2>k DEF ClearPending, EndsKept
  <2>12. CASE Tick
    <3>1. ASSUME NEW i \in DOMAIN leases
          PROVE  leases'[i].state = leases[i].state /\ leases'[i].by = leases[i].by
      <4> DEFINE left == Max({leases[i].left - 1, -Grace})
      <4>1. leases[i] \in Lease
        BY <2>0 DEF Table
      <4>2. leases'[i] = [leases[i] EXCEPT !.left = left]
        BY <2>12 DEF Tick
      <4> HIDE DEF left
      <4>3. QED BY <4>1, <4>2 DEF Lease
    <3>2. QED BY <2>k, <3>1 DEF EndsKept
  <2>13. CASE ClaimStep
    BY <2>1, <2>2, <2>3, <2>13 DEF ClaimStep
  <2>14. CASE HolderStep
    BY <2>4, <2>5, <2>6, <2>14 DEF HolderStep
  <2>15. CASE OperatorStep \/ EvictionStep \/ QueryStep
    BY <2>7, <2>8, <2>9, <2>15 DEF OperatorStep, EvictionStep, QueryStep
  <2>16. CASE SweeperStep
    BY <2>6, <2>10, <2>11, <2>16 DEF SweeperStep
  <2>17. QED
    BY <2>12, <2>13, <2>14, <2>15, <2>16 DEF Next
<1>2. QED
  BY <1>1, TypeCorrect, PTL DEF Spec, EndIsFinal
=============================================================================
