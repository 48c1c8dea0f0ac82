------------------------------- MODULE Leases -------------------------------
(***************************************************************************)
(* The lease table of the control plane: LeaseManager of                   *)
(* src/llmconfig/leases.py.  Every method of it is synchronous, so every   *)
(* method is one atomic action here.                                       *)
(*                                                                         *)
(* A lease is a holder's claim on one unit, either on the whole unit or on *)
(* one model of it.  Deadlines are kept as the time that is LEFT until     *)
(* `_deadline`, and Tick lets time pass; the code compares absolute times, *)
(* but only ever through `now - deadline`.  Expiry is lazy: a lease whose  *)
(* time is up stays `active` in the table until some method looks at it.   *)
(***************************************************************************)
EXTENDS Claims

CONSTANTS
    MaxLeases,      \* bound on the claims granted in one behaviour
    MaxHistory,     \* lease_max_history
    MinTtl, MaxTtl, \* lease_min_ttl_s, lease_max_ttl_s
    Ttls,           \* the ttl_s values requests ask for
    Priorities,     \* the priority values requests ask for
    MaxPriority,    \* 100 in the code
    FreeFor,        \* the scopes whose requests may carry free_on_preempt / --free
    Grace,          \* lease_expiry_grace_s
    Operator, Placement, Nobody  \* the other values of revoked_by

LeaseId == 1..MaxLeases
NoFree  == -1       \* no deferred free is queued for a key

ASSUME LeasesAssumption ==
    /\ MaxLeases \in Nat /\ MaxHistory \in Nat \ {0}
    /\ MinTtl \in Nat \ {0} /\ MaxTtl \in Nat /\ MinTtl <= MaxTtl
    /\ Ttls \subseteq Int /\ Priorities \subseteq Int
    /\ MaxPriority \in Nat /\ Grace \in Nat
    /\ FreeFor \subseteq Scopes
    /\ {Operator, Placement, Nobody} \intersect Holders = {}
    /\ Operator # Placement /\ Nobody \notin {Operator, Placement}

VARIABLES
    leases,    \* LeaseManager._leases; ids grow, so id order is claim order
    pending,   \* LeaseManager._pending_free
    nextId,    \* the next fresh lease id
    regained   \* history: the leases that renew() revived after they had expired

leaseVars == <<leases, pending, nextId, regained>>

State == {"active", "released", "revoked", "expired"}
Lease == [unit : Units, holder : Holders, model : Scopes,
          preemptible : BOOLEAN, priority : 0..MaxPriority,
          state : State, by : Holders \union {Operator, Placement, Nobody},
          left : Int]

-----------------------------------------------------------------------------
(* Helpers: pure functions of a lease table ls.                            *)

ClampTtl(t) == Max({MinTtl, Min({MaxTtl, t})})
MutClampPriority(p) == p             \* mutant: any priority is recorded as asked
ClampPriority(p) == Max({0, Min({MaxPriority, p})})

Lapsed(l) == l.state = "active" /\ l.left <= 0

\* _expire_if_lapsed applied to every lease of S
ExpireLapsed(ls, S) ==
    [i \in DOMAIN ls |-> IF i \in S /\ Lapsed(ls[i])
                         THEN [ls[i] EXCEPT !.state = "expired"] ELSE ls[i]]

\* what active_all(u) leaves behind, and the live claims it and its callers see
Read(ls, u) == ExpireLapsed(ls, OnUnit(ls, u))
LiveIds(ls) == {i \in DOMAIN ls : ls[i].state = "active" /\ ls[i].left > 0}
Live(ls) ==
    [i \in LiveIds(ls) |->
        [unit |-> ls[i].unit, holder |-> ls[i].holder, model |-> ls[i].model,
         preemptible |-> ls[i].preemptible, priority |-> ls[i].priority]]

\* mutant: the last writer wins
MutTerminate(ls, S, state, by) ==
    [i \in DOMAIN ls |-> IF i \in S THEN [ls[i] EXCEPT !.state = state, !.by = by]
                         ELSE ls[i]]

\* _terminate: the first end of life wins.  Nothing reads the deadline of a lease
\* that was released or revoked again, so it is not kept.
Terminate(ls, S, state, by) ==
    [i \in DOMAIN ls |->
        IF i \in S /\ ls[i].state = "active"
        THEN [ls[i] EXCEPT !.state = state, !.by = by,
                           !.left = IF state = "expired" THEN @ ELSE -Grace]
        ELSE ls[i]]

\* _prune: forget the oldest terminal leases above the cap, never an active one
MutTerminal(ls) == DOMAIN ls        \* mutant: live leases are history too
Terminal(ls) == {i \in DOMAIN ls : ls[i].state # "active"}
Excess(ls) ==
    {i \in Terminal(ls) :
        Cardinality({j \in Terminal(ls) : j < i})
            < Cardinality(DOMAIN ls) - MaxHistory}
Prune(ls) == [i \in DOMAIN ls \ Excess(ls) |-> ls[i]]

-----------------------------------------------------------------------------
(* LeaseManager's methods.                                                 *)

Init ==
    /\ leases = <<>>
    /\ pending = [k \in Units \X Scopes |-> NoFree]
    /\ nextId = 1
    /\ regained = {}

\* The claim (u, h, n) runs into a lease of its own holder: extend that one.
Own(u, h, n) ==
    LET id == Conflicting(Live(leases), u, CanonOf(n), h)
    IN  IF id # 0 /\ leases[id].holder = h THEN id ELSE 0

ClaimExtend(u, h, n, pre, p, ttl, free) ==
    LET ls == Read(leases, u)
        id == Own(u, h, n)
        m  == IF n = Whole THEN ls[id].model ELSE Canon[n]
    IN  /\ id # 0
        /\ leases' = [ls EXCEPT ![id].preemptible = pre,
                                ![id].priority = ClampPriority(p),
                                ![id].model = m,
                                ![id].left = ClampTtl(ttl)]
        /\ pending' = IF free THEN [pending EXCEPT ![<<u, m>>] = id] ELSE pending
        /\ UNCHANGED <<nextId, regained>>

\* claim() granted: every overlapping lease is preempted, the new one recorded
ClaimGrant(u, h, n, pre, p, ttl, force, free) ==
    LET ls  == Read(leases, u)
        m   == CanonOf(n)
        out == Terminate(ls, Overlapping(Live(ls), u, m), "revoked", h)
        new == [unit |-> u, holder |-> h, model |-> m, preemptible |-> pre,
                priority |-> ClampPriority(p), state |-> "active", by |-> Nobody,
                left |-> ClampTtl(ttl)]
    IN  /\ nextId \in LeaseId
        /\ Own(u, h, n) = 0
        /\ MayTake(Live(ls), u, m, h, ClampPriority(p), force)
        /\ leases' = Prune([i \in DOMAIN ls \union {nextId} |->
                                IF i = nextId THEN new ELSE out[i]])
        /\ pending' = IF free THEN [pending EXCEPT ![<<u, m>>] = nextId] ELSE pending
        /\ nextId' = nextId + 1
        /\ UNCHANGED regained

\* claim() refused with LeaseConflict: it has still expired what had lapsed
ClaimRefused(u, h, n, p, force) ==
    /\ Own(u, h, n) = 0
    /\ ~MayTake(Live(leases), u, CanonOf(n), h, ClampPriority(p), force)
    /\ leases' = Read(leases, u)
    /\ UNCHANGED <<pending, nextId, regained>>

\* renew(): revives an expired lease inside the grace window
Renewable(l) == l.state = "active" \/ (l.state = "expired" /\ l.left + Grace > 0)

Renew(id, ttl) ==
    LET ls == ExpireLapsed(leases, {id})
    IN  /\ Renewable(ls[id])
        /\ leases' = [ls EXCEPT ![id].state = "active",
                                ![id].left = ClampTtl(ttl)]
        /\ regained' = IF ls[id].state = "expired"
                       THEN regained \union {id} ELSE regained
        /\ UNCHANGED <<pending, nextId>>

\* renew() of a lease that has ended for good: refused, after the lazy expiry
RenewRefused(id) ==
    LET ls == ExpireLapsed(leases, {id})
    IN  /\ ~Renewable(ls[id])
        /\ leases' = ls
        /\ UNCHANGED <<pending, nextId, regained>>

\* get(), and active_all() as every gate and status read calls it
Get(id) ==
    /\ leases' = ExpireLapsed(leases, {id})
    /\ UNCHANGED <<pending, nextId, regained>>
Query(u) ==
    /\ leases' = Read(leases, u)
    /\ UNCHANGED <<pending, nextId, regained>>

Release(id) ==
    /\ leases' = Terminate(leases, {id}, "released", Nobody)
    /\ UNCHANGED <<pending, nextId, regained>>

\* revoke(): the operator's break-glass; free queues an unload even when it was over
Revoke(id, free) ==
    /\ leases' = Terminate(leases, {id}, "revoked", Operator)
    /\ pending' = IF free
                  THEN [pending EXCEPT ![<<leases[id].unit, leases[id].model>>] = ByOperator]
                  ELSE pending
    /\ UNCHANGED <<nextId, regained>>

\* revoke_for_eviction(): an eviction displaces the model, or the whole unit
RevokeForEviction(u, n, spare) ==
    LET ls == Read(leases, u)
        S  == EvictionTargets(Live(ls), u, CanonOf(n), spare)
    IN  /\ leases' = Terminate(ls, S, "revoked", Placement)
        /\ UNCHANGED <<pending, nextId, regained>>

\* expire_unused(): the sweeper's verdict on a lease nobody used
ExpireUnused(id) ==
    /\ leases' = Terminate(leases, {id}, "expired", Nobody)
    /\ UNCHANGED <<pending, nextId, regained>>

\* sweep(), list(): expire everything that has lapsed
Sweep ==
    /\ leases' = ExpireLapsed(leases, DOMAIN leases)
    /\ UNCHANGED <<pending, nextId, regained>>

\* clear_pending(): the sweeper has freed the unit, or gave the request up
ClearPending(k) ==
    /\ pending[k] # NoFree
    /\ pending' = [pending EXCEPT ![k] = NoFree]
    /\ UNCHANGED <<leases, nextId, regained>>

\* Time passes.  Below -Grace nothing tells deadlines apart.
Tick ==
    /\ leases' = [i \in DOMAIN leases |->
                    [leases[i] EXCEPT !.left = Max({@ - 1, -Grace})]]
    /\ UNCHANGED <<pending, nextId, regained>>

-----------------------------------------------------------------------------

FreeFlags(m) == {FALSE, (m \in FreeFor)}

ClaimStep ==
    \E u \in Units, h \in Holders, n \in Names \union {Whole}, p \in Priorities :
        \/ \E pre \in BOOLEAN, ttl \in Ttls, free \in FreeFlags(n) :
              \/ ClaimExtend(u, h, n, pre, p, ttl, free)
              \/ \E force \in BOOLEAN : ClaimGrant(u, h, n, pre, p, ttl, force, free)
        \/ \E force \in BOOLEAN : ClaimRefused(u, h, n, p, force)

HolderStep ==
    \E id \in DOMAIN leases :
        \/ \E ttl \in Ttls : Renew(id, ttl)
        \/ RenewRefused(id)
        \/ Get(id)
        \/ Release(id)

OperatorStep == \E id \in DOMAIN leases : \E free \in FreeFlags(leases[id].model) : Revoke(id, free)

EvictionStep ==
    \E u \in Units, n \in Names \union {Whole}, spare \in Holders \union {Nobody} :
        RevokeForEviction(u, n, spare)

SweeperStep ==
    \/ Sweep
    \/ \E id \in DOMAIN leases : ExpireUnused(id)
    \/ \E k \in Units \X Scopes : ClearPending(k)

QueryStep == \E u \in Units : Query(u)

Next == ClaimStep \/ HolderStep \/ OperatorStep \/ EvictionStep \/ QueryStep
        \/ SweeperStep \/ Tick

Spec == Init /\ [][Next]_leaseVars

-----------------------------------------------------------------------------
(* Properties.                                                             *)

\* The table holds well-formed leases under ids already given out, and a queued
\* free names the operator or a lease that was granted.
TypeOK ==
    /\ nextId \in 1..(MaxLeases + 1)
    /\ DOMAIN leases \subseteq 1..(nextId - 1)
    /\ leases = [i \in DOMAIN leases |-> leases[i]]
    /\ \A i \in DOMAIN leases : leases[i] \in Lease
    /\ pending \in [Units \X Scopes -> {NoFree, ByOperator} \union 1..(nextId - 1)]
    /\ regained \subseteq 1..(nextId - 1)

\* Two live leases that cover a common model of a unit: one of them came back
\* from the grace window.  Every other path -- claim's conflict check with the
\* preemption of EVERY overlapping lease, and the re-scoping of an extend --
\* keeps the claims on a unit apart (active_all, claim, _conflicting).
OverlapOnlyByRevival ==
    \A i, j \in LiveIds(leases) :
        /\ i # j /\ leases[i].unit = leases[j].unit
        /\ Overlap(leases[i].model, leases[j].model)
        => i \in regained \/ j \in regained

\* "Must not be interrupted": a non-preemptible lease that was taken away was
\* taken by its own holder or by the operator, never by another claimant (force
\* or any priority included) and never by an eviction (claim, revoke_for_eviction).
NonPreemptibleKept ==
    \A i \in DOMAIN leases :
        leases[i].state = "revoked" /\ ~leases[i].preemptible
            => leases[i].by \in {leases[i].holder, Operator}

\* A non-preemptible live lease is never hidden from the gateway and the loads by
\* a preemptible neighbour: the whole-unit question and the question about every
\* model it covers are answered with a refusal (blocks_unleased over active_for),
\* unless a lease revived in grace lies over it.
GateSeesNonPreemptible ==
    LET b == Live(leases)
    IN  \A i \in DOMAIN b :
            ~b[i].preemptible =>
                /\ BlocksUnleased(b, b[i].unit, Whole) # 0
                /\ \A m \in Models :
                      Overlap(m, b[i].model) =>
                         \/ BlocksUnleased(b, b[i].unit, m) # 0
                         \/ \E j \in DOMAIN b :
                               /\ {i, j} \intersect regained # {}
                               /\ b[j].unit = b[i].unit
                               /\ Overlap(m, b[j].model)

\* What has been handed back or taken away never comes back, with the first
\* recorded reason, and an expired lease comes back only inside its grace window.
EndIsFinal ==
    [][\A i \in DOMAIN leases \intersect DOMAIN leases' :
          /\ leases[i].state \in {"released", "revoked"}
                => leases'[i].state = leases[i].state /\ leases'[i].by = leases[i].by
          /\ leases[i].state = "expired" /\ leases'[i].state # "expired"
                => leases'[i].state = "active" /\ leases[i].left + Grace > 0]_leaseVars

-----------------------------------------------------------------------------
(* The table implements the board of claims that the rest of the system is *)
(* composed with: lazy expiry, history, grace and queued frees are hidden. *)

Board == INSTANCE ClaimBoard WITH board <- Live(leases)

\* Every method changes the live claims by one grant, extension, end or return
\* of the board, or not at all.
ImplementsBoard == Board!BoardSpec
=============================================================================
