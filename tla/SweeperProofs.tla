--------------------------- MODULE SweeperProofs ----------------------------
(***************************************************************************)
(* Theorems about the lease sweeper, for every set of units, holders and   *)
(* models and every bound on the claims: what a tick may drop and free.    *)
(*                                                                         *)
(* SweeperInv is inductive.  While a ghost is judged, what the probe saw   *)
(* is what the unit serves, unless a swap has moved it (ProbeOK); and      *)
(* while an unload() waits for a lock that was on its way to another task, *)
(* every claim on what it will stop is its own or newer than its last look *)
(* at the claims (QueuedOK).                                               *)
(***************************************************************************)
EXTENDS LeaseSweeper, UnitProofs

\* The claims, what is known of them, and the frees that are queued.
ClaimsOK ==
    /\ BoardOK /\ Disjoint /\ nextId <= MaxLeases + 1
    /\ used \union fresh \union ghosts \subseteq 1..(nextId - 1)
    /\ pending \in [Keys -> {NoFree, ByOperator} \union 1..MaxLeases]
    /\ \A k \in Keys : pending[k] < nextId
    /\ frees \subseteq Free

\* The units, and who swaps them.
UnitsOK ==
    /\ loaded \in [Units -> SUBSET Served] /\ swap \in [Units -> SwapState]
    /\ \A u \in Units : swap[u] = "sweeper" <=> at = "unload" /\ cur.key[1] = u

\* Where the tick is, and what it looks at.
TickOK ==
    /\ at \in {"reap", "reapProbe", "reapJudge",
               "free", "freeProbe", "freeDecide", "queued", "unload"}
    /\ since \in 0..nextId
    /\ seen \subseteq Served
    /\ at \in {"reapProbe", "reapJudge"} => cur \in ghosts
    /\ at \in {"freeProbe", "freeDecide", "queued", "unload"} => cur \in frees
    /\ at \in {"reap", "free"} => cur = Nothing

ProbeOK ==
    at = "reapJudge" /\ cur \in DOMAIN board /\ board[cur].unit \notin moved =>
        /\ seen = loaded[board[cur].unit]
        /\ swap[board[cur].unit] # "other"

QueuedOK ==
    at = "queued" => \A o \in Overlapping(board, cur.key[1], cur.key[2]) :
                        o = cur.pf \/ o >= since

SweeperInv == ClaimsOK /\ UnitsOK /\ TickOK /\ ProbeOK /\ QueuedOK

-----------------------------------------------------------------------------
(* The queued frees.                                                       *)

\* The parts of a free.
LEMMA FreeFields ==
    ASSUME NEW f \in Free
    PROVE  /\ f.key \in Keys /\ f.key[1] \in Units /\ f.key[2] \in Scopes
           /\ f.pf \in {ByOperator} \union 1..MaxLeases
BY DEF Free, Keys

\* What is wanted takes nothing from anybody else, unless its lease was narrowed.
LEMMA WantedSparesOthers ==
    ASSUME BoardOK, Disjoint, NEW u, NEW m, NEW pf \in Nat, StillWanted(board, pf, u, m),
           m = Whole /\ pf \in DOMAIN board => board[pf].model = Whole,
           NEW o \in Overlapping(board, u, m)
    PROVE  o = pf /\ pf \in DOMAIN board
<1> DEFINE k == ActiveFor(board, u, m)
           W == OnScope(board, u, Whole)
           A == OnUnit(board, u)
<1>1. pf = k
  BY DEF StillWanted, ByOperator
<1>2. A \subseteq Nat \ {0} /\ W \subseteq Nat \ {0} /\ o \in A
  BY IdsArePositive DEF OnScope, Overlapping
<1>3. CASE m = Whole
  <2>1. k = IF W # {} THEN First(W) ELSE First(A)
    BY <1>3 DEF ActiveFor
  <2> HIDE DEF k
  <2>2. k \in A /\ (W # {} => k \in W)
    <3>1. W # {} => First(W) \in W
      BY <1>2, FirstIsMember
    <3>2. First(A) \in A
      BY <1>2, FirstIsMember
    <3>3. QED BY <2>1, <3>1, <3>2 DEF OnScope
  <2>3. pf > 0 /\ pf \in DOMAIN board
    BY <1>1, <1>2, <2>2 DEF OnUnit
  <2>4. board[pf].model = Whole
    BY <1>3, <2>3
  <2>5. o = pf
    BY <1>1, <1>2, <2>2, <2>3, <2>4 DEF Disjoint, Overlap, OnUnit
  <2>6. QED BY <2>3, <2>5
<1>4. CASE m # Whole
  <2>1. k # 0 /\ Overlapping(board, u, m) = {k}
    <3>1. k = ActiveFor(board, u, m)
      OBVIOUS
    <3> HIDE DEF k
    <3>2. QED BY <1>4, <3>1, OneClaimCovers
  <2>2. o = pf /\ o \in DOMAIN board
    BY <1>1, <1>2, <2>1 DEF OnUnit
  <2>3. QED BY <2>2
<1>5. QED BY <1>3, <1>4

-----------------------------------------------------------------------------
(* What a step does to the claims and the queued frees.                    *)

\* The invariant says more than the type invariant.
LEMMA InvIsTyped == SweeperInv => TypeOK
BY DEF SweeperInv, ClaimsOK, UnitsOK, TickOK, TypeOK

\* Ids are counted from 1.
LEMMA IdsAreCounted == SweeperInv => nextId \in Nat \ {0}
BY DEF SweeperInv, ClaimsOK, BoardOK

\* A step that leaves the claims alone leaves them in order.
LEMMA ClaimsStay ==
    ASSUME ClaimsOK, UNCHANGED claimVars, frees' \subseteq frees, ghosts' \subseteq ghosts
    PROVE  ClaimsOK'
BY DEF ClaimsOK, claimVars, BoardOK, Disjoint

\* A free that is taken off the queue leaves the others where they are.
LEMMA ClearedKeepsClaims ==
    ASSUME ClaimsOK, NEW f \in Free, ClearPending(f), UNCHANGED <<board, nextId, used, fresh>>,
           frees' \subseteq frees, ghosts' \subseteq ghosts
    PROVE  ClaimsOK'
<1>1. pending' = [pending EXCEPT ![f.key] = NoFree] /\ f.key \in Keys
  BY FreeFields DEF ClearPending
<1>2. pending \in [Keys -> {NoFree, ByOperator} \union 1..MaxLeases] /\ nextId \in Nat
  BY DEF ClaimsOK, BoardOK
<1>3. /\ pending' \in [Keys -> {NoFree, ByOperator} \union 1..MaxLeases]
      /\ \A k \in Keys : pending'[k] = pending[k] \/ pending'[k] = NoFree
  BY <1>1, <1>2
<1>4. \A k \in Keys : pending'[k] < nextId'
  BY <1>2, <1>3 DEF ClaimsOK, NoFree
<1>5. QED BY <1>3, <1>4 DEF ClaimsOK, BoardOK, Disjoint

\* What is said of claims that are noted after they have changed.
LEMMA NotedClaims ==
    ASSUME ClaimsOK, NEW a, NEW l, Note(a, l),
           BoardOK', Disjoint', nextId <= nextId', nextId' <= MaxLeases + 1,
           pending' \in [Keys -> {NoFree, ByOperator} \union 1..MaxLeases],
           \A k \in Keys : pending'[k] = pending[k] \/ pending'[k] < nextId',
           frees' \subseteq frees, ghosts' \subseteq ghosts
    PROVE  ClaimsOK'
<1>1. /\ nextId \in Nat \ {0} /\ nextId' \in Nat \ {0}
      /\ DOMAIN board' \subseteq 1..(nextId' - 1)
  BY DEF ClaimsOK, BoardOK
<1>2. /\ used' \subseteq DOMAIN board' /\ fresh' \subseteq DOMAIN board'
  BY DEF Note
<1>3. ghosts' \subseteq 1..(nextId' - 1)
  BY <1>1 DEF ClaimsOK
<1>4. \A k \in Keys : pending[k] < nextId /\ pending[k] \in Int
  BY DEF ClaimsOK, NoFree, ByOperator
<1>5. \A k \in Keys : pending'[k] < nextId'
  BY <1>1, <1>4
<1>6. QED BY <1>1, <1>2, <1>3, <1>5 DEF ClaimsOK

\* A request is queued under its own unit and model.
LEMMA QueuedKey ==
    ASSUME ClaimsOK, NEW u \in Units, NEW m \in Scopes, NEW i \in {ByOperator} \union 1..MaxLeases,
           NEW free, Enqueue(u, m, i, free), i < nextId'
    PROVE  /\ pending' \in [Keys -> {NoFree, ByOperator} \union 1..MaxLeases]
           /\ \A k \in Keys : pending'[k] = pending[k] \/ pending'[k] < nextId'
<1> DEFINE key == <<u, m>>
<1>1. key \in Keys
  BY DEF Keys
<1>2. pending' = IF free THEN [pending EXCEPT ![key] = i] ELSE pending
  BY DEF Enqueue
<1>3. pending \in [Keys -> {NoFree, ByOperator} \union 1..MaxLeases]
  BY DEF ClaimsOK
<1> HIDE DEF key
<1>4. QED BY <1>1, <1>2, <1>3

\* Claims are granted, extended, ended and used: all stays in order, and a claim that
\* was there before covers no more than it did.
ClaimsOnlyShrink ==
    \A i \in DOMAIN board' :
        i < nextId => /\ i \in DOMAIN board /\ board'[i].unit = board[i].unit
                      /\ board[i].model \in {board'[i].model, Whole}

LEMMA ClaimStepKeepsClaims ==
    ASSUME ClaimsOK, ClaimStep
    PROVE  ClaimsOK' /\ nextId <= nextId' /\ ClaimsOnlyShrink
<1>0. /\ BoardOK /\ Disjoint /\ nextId <= MaxLeases + 1 /\ nextId \in Nat \ {0}
      /\ DOMAIN board \subseteq 1..(nextId - 1)
      /\ frees' \subseteq frees /\ ghosts' \subseteq ghosts
  BY DEF ClaimsOK, BoardOK, ClaimStep, tickVars
<1>1. MaxLeases \in Nat
  BY SweeperAssumption
<1>2. ASSUME NEW c \in Claim, NEW free \in BOOLEAN, GrantClaim(c, free)
      PROVE  ClaimsOK' /\ nextId <= nextId' /\ ClaimsOnlyShrink
  <2>1. /\ Grant(c) /\ Enqueue(c.unit, c.model, nextId, free)
        /\ Note(used, fresh \union {nextId})
    BY <1>2 DEF GrantClaim
  <2>2. /\ BoardOK' /\ Disjoint' /\ nextId' = nextId + 1
        /\ \A i \in DOMAIN board' :
              i = nextId \/ (i \in DOMAIN board /\ i < nextId /\ board'[i] = board[i])
    BY <1>0, <2>1, GrantKeepsBoard, GrantDisjoint
  <2>3. nextId \in 1..MaxLeases /\ nextId < nextId' /\ nextId' <= MaxLeases + 1
    BY <1>0, <1>1, <2>1, <2>2 DEF Grant
  <2>4. c.unit \in Units /\ c.model \in Scopes
    BY DEF Claim
  <2>5. /\ pending' \in [Keys -> {NoFree, ByOperator} \union 1..MaxLeases]
        /\ \A k \in Keys : pending'[k] = pending[k] \/ pending'[k] < nextId'
    <3> DEFINE n == nextId
    <3>1. n \in {ByOperator} \union 1..MaxLeases /\ n < nextId' /\ Enqueue(c.unit, c.model, n, free)
      BY <2>1, <2>3
    <3> HIDE DEF n
    <3>2. QED BY <2>4, <3>1, QueuedKey
  <2>6. ClaimsOK'
    <3> DEFINE l == fresh \union {nextId}
    <3> HIDE DEF l
    <3>1. Note(used, l)
      BY <2>1 DEF l
    <3>2. nextId <= nextId'
      BY <1>0, <2>2
    <3>3. QED BY <1>0, <2>2, <2>3, <2>5, <3>1, <3>2, NotedClaims
  <2>7. QED BY <1>0, <2>2, <2>6 DEF ClaimsOnlyShrink
<1>3. ASSUME NEW c \in Claim, NEW free \in BOOLEAN, NEW j \in DOMAIN board,
             ExtendClaim(j, c, free)
      PROVE  ClaimsOK' /\ nextId <= nextId' /\ ClaimsOnlyShrink
  <2> DEFINE l == fresh \union {j}
  <2>1. /\ Extend(j, c) /\ Enqueue(c.unit, c.model, j, free) /\ Note(used, l)
        /\ c.unit = board[j].unit /\ board[j].model \in {c.model, Whole}
    BY <1>3 DEF ExtendClaim, Extend
  <2>2. /\ BoardOK' /\ Disjoint' /\ nextId' = nextId /\ DOMAIN board' = DOMAIN board
        /\ board'[j] = c /\ \A i \in DOMAIN board : i # j => board'[i] = board[i]
    BY <1>0, <2>1, ExtendKeepsBoard, ExtendDisjoint
  <2>3. j \in 1..MaxLeases /\ j < nextId'
    BY <1>0, <1>1, <2>2
  <2>4. c.unit \in Units /\ c.model \in Scopes
    BY DEF Claim
  <2>5. /\ pending' \in [Keys -> {NoFree, ByOperator} \union 1..MaxLeases]
        /\ \A k \in Keys : pending'[k] = pending[k] \/ pending'[k] < nextId'
    BY <2>1, <2>3, <2>4, QueuedKey
  <2>6. ClaimsOnlyShrink
    BY <2>1, <2>2 DEF ClaimsOnlyShrink
  <2> HIDE DEF l
  <2>7. ClaimsOK'
    BY <1>0, <2>1, <2>2, <2>5, NotedClaims
  <2>8. QED BY <1>0, <2>2, <2>6, <2>7
<1>4. ASSUME NEW j \in DOMAIN board, NEW free \in BOOLEAN, EndClaim(j, free)
      PROVE  ClaimsOK' /\ nextId <= nextId' /\ ClaimsOnlyShrink
  <2>1. /\ End({j}) /\ Note(used, fresh)
        /\ Enqueue(board[j].unit, board[j].model, ByOperator, free)
    BY <1>4 DEF EndClaim
  <2>2. /\ BoardOK' /\ Disjoint' /\ nextId' = nextId
        /\ \A i \in DOMAIN board' : i \in DOMAIN board /\ board'[i] = board[i]
    BY <1>0, <2>1, EndKeepsBoard, EndDisjoint
  <2>3. board[j].unit \in Units /\ board[j].model \in Scopes
    BY <1>0 DEF BoardOK, Claim
  <2>4. /\ pending' \in [Keys -> {NoFree, ByOperator} \union 1..MaxLeases]
        /\ \A k \in Keys : pending'[k] = pending[k] \/ pending'[k] < nextId'
    <3>1. ByOperator \in {ByOperator} \union 1..MaxLeases /\ ByOperator < nextId'
      BY <1>0, <2>2 DEF ByOperator
    <3>2. QED BY <2>1, <2>3, <3>1, QueuedKey
  <2>5. ClaimsOK'
    BY <1>0, <2>1, <2>2, <2>4, NotedClaims
  <2>6. QED BY <1>0, <2>2, <2>5 DEF ClaimsOnlyShrink
<1>5. ASSUME NEW j \in DOMAIN board, UNCHANGED <<board, nextId, pending>>,
             UseClaim(j) \/ RenewClaim(j) \/ GoQuiet(j)
      PROVE  ClaimsOK' /\ nextId <= nextId' /\ ClaimsOnlyShrink
  <2>1. BoardOK' /\ Disjoint'
    BY <1>0, <1>5 DEF BoardOK, Disjoint
  <2>2. PICK a, l : Note(a, l)
    BY <1>5 DEF UseClaim, RenewClaim, GoQuiet
  <2>3. pending' \in [Keys -> {NoFree, ByOperator} \union 1..MaxLeases]
    BY <1>5 DEF ClaimsOK
  <2>4. ClaimsOK'
    BY <1>0, <1>5, <2>1, <2>2, <2>3, NotedClaims
  <2>5. QED BY <1>0, <1>5, <2>4 DEF ClaimsOnlyShrink
<1>6. QED
  BY <1>2, <1>3, <1>4, <1>5, SweeperAssumption DEF ClaimStep

-----------------------------------------------------------------------------
(* Every step keeps SweeperInv.                                            *)

\* Nothing is claimed, queued or resident that the constants do not allow.
LEMMA SweeperStarts == Init => SweeperInv
<1> SUFFICES ASSUME Init PROVE SweeperInv
  OBVIOUS
<1>1. /\ BoardOK /\ Disjoint /\ nextId <= MaxLeases + 1
  BY EmptyBoard, SweeperAssumption DEF Init, BoardInit, Disjoint
<1>2. ClaimsOK
  BY <1>1 DEF Init, ClaimsOK, BoardInit, NoFree, ByOperator
<1>3. UnitsOK /\ TickOK /\ ProbeOK /\ QueuedOK
  BY DEF Init, BoardInit, UnitsOK, TickOK, ProbeOK, QueuedOK, SwapState, Nothing
<1>4. QED BY <1>2, <1>3 DEF SweeperInv

LEMMA ClaimsStepOK == SweeperInv /\ ClaimStep => SweeperInv'
<1> SUFFICES ASSUME SweeperInv, ClaimStep PROVE SweeperInv'
  OBVIOUS
<1>1. ClaimsOK' /\ nextId <= nextId' /\ ClaimsOnlyShrink
  BY ClaimStepKeepsClaims DEF SweeperInv
<1>2. UNCHANGED <<unitVars, tickVars, moved, since>>
  BY DEF ClaimStep
<1>3. nextId \in Nat /\ nextId' \in Nat /\ DOMAIN board' \subseteq Int
  BY <1>1 DEF SweeperInv, ClaimsOK, BoardOK
<1>4. UnitsOK' /\ TickOK'
  BY <1>1, <1>2, <1>3 DEF SweeperInv, UnitsOK, TickOK, unitVars, tickVars
<1>5. at = "reapJudge" => cur \in Int /\ cur < nextId
  BY DEF SweeperInv, TickOK, ClaimsOK, BoardOK
<1>6. ProbeOK'
  BY <1>1, <1>2, <1>5 DEF SweeperInv, ProbeOK, ClaimsOnlyShrink, unitVars, tickVars
<1>7. QueuedOK'
  <2> SUFFICES ASSUME at = "queued", NEW o \in Overlapping(board', cur.key[1], cur.key[2])
               PROVE  o = cur.pf \/ o >= since
    BY <1>2 DEF QueuedOK, tickVars
  <2>1. o \in DOMAIN board' /\ o \in Int /\ since \in Int /\ since <= nextId
    BY <1>3 DEF Overlapping, OnUnit, SweeperInv, TickOK
  <2>2. CASE o < nextId
    <3>1. /\ o \in DOMAIN board /\ board'[o].unit = board[o].unit
          /\ board[o].model \in {board'[o].model, Whole}
      BY <1>1, <2>1, <2>2 DEF ClaimsOnlyShrink
    <3>2. o \in Overlapping(board, cur.key[1], cur.key[2])
      BY <3>1 DEF Overlapping, OnUnit, Overlap
    <3>3. QED BY <3>2 DEF SweeperInv, QueuedOK
  <2>3. QED BY <1>3, <2>1, <2>2
<1>8. QED BY <1>1, <1>4, <1>6, <1>7 DEF SweeperInv

LEMMA SwapStepOK == SweeperInv /\ SwapStep => SweeperInv'
<1> SUFFICES ASSUME SweeperInv, SwapStep PROVE SweeperInv'
  OBVIOUS
<1>0. PICK u \in Units : SwapBegins(u) \/ SwapEnds(u) \/ HandOver(u)
  BY DEF SwapStep
<1>1. UNCHANGED <<claimVars, tickVars, since>>
  BY <1>0 DEF SwapBegins, SwapEnds, HandOver, OthersOnly
<1>2. ClaimsOK'
  BY <1>1, ClaimsStay DEF SweeperInv, tickVars
<1>3. TickOK' /\ QueuedOK'
  BY <1>1 DEF SweeperInv, TickOK, QueuedOK, tickVars, claimVars
<1>4. UNCHANGED <<board, at, cur, seen>>
  BY <1>1 DEF claimVars, tickVars
<1>5. /\ loaded \in [Units -> SUBSET Served] /\ swap \in [Units -> SwapState]
      /\ \A v \in Units : swap[v] = "sweeper" <=> at = "unload" /\ cur.key[1] = v
  BY DEF SweeperInv, UnitsOK
\* what such a step does to a unit
<1>6. /\ loaded' \in [Units -> SUBSET Served] /\ swap' \in [Units -> SwapState]
      /\ \A v \in Units : v # u => loaded'[v] = loaded[v] /\ swap'[v] = swap[v]
      /\ swap[u] # "sweeper" /\ swap'[u] # "sweeper"
      /\ moved \subseteq moved'
      /\ at = "reapJudge" /\ u \notin moved' =>
            swap[u] = "other" \/ (loaded'[u] = loaded[u] /\ swap'[u] # "other")
  <2>1. CASE SwapBegins(u)
    BY <1>5, <2>1 DEF SwapBegins, Taken, SwapState
  <2>2. CASE SwapEnds(u)
    <3>1. PICK S \in SUBSET Served : loaded' = [loaded EXCEPT ![u] = S]
      BY <2>2 DEF SwapEnds
    <3>2. \E next \in {"none", "handed"} : swap' = [swap EXCEPT ![u] = next]
      BY <2>2 DEF SwapEnds, PassOn
    <3>3. swap[u] = "other" /\ moved' = moved
      BY <2>2 DEF SwapEnds
    <3>4. QED BY <1>5, <3>1, <3>2, <3>3 DEF SwapState
  <2>3. CASE HandOver(u)
    BY <1>5, <2>3 DEF HandOver, Taken, SwapState
  <2>4. QED BY <1>0, <2>1, <2>2, <2>3
<1>7. UnitsOK'
  BY <1>4, <1>5, <1>6 DEF UnitsOK
<1>8. ProbeOK'
  <2> SUFFICES ASSUME at = "reapJudge", cur \in DOMAIN board,
                      board[cur].unit \notin moved'
               PROVE  /\ seen = loaded'[board[cur].unit]
                      /\ swap'[board[cur].unit] # "other"
    BY <1>4 DEF ProbeOK
  <2>1. /\ seen = loaded[board[cur].unit] /\ swap[board[cur].unit] # "other"
    BY <1>6 DEF SweeperInv, ProbeOK
  <2>2. board[cur].unit \in Units
    BY DEF SweeperInv, ClaimsOK, BoardOK, Claim
  <2>3. QED BY <1>6, <2>1, <2>2
<1>9. QED BY <1>2, <1>3, <1>7, <1>8 DEF SweeperInv

\* The steps of the reaping.
LEMMA BeginTickOK == SweeperInv /\ BeginTick => SweeperInv'
<1> SUFFICES ASSUME SweeperInv, BeginTick PROVE SweeperInv'
  OBVIOUS
<1>1. ClaimsOK'
  <2>1. /\ UNCHANGED <<board, nextId, pending, used, fresh, frees>>
        /\ ghosts' \subseteq DOMAIN board
    BY DEF BeginTick, claimVars
  <2>2. BoardOK' /\ Disjoint'
    BY <2>1 DEF SweeperInv, ClaimsOK, BoardOK, Disjoint
  <2>3. ghosts' \subseteq 1..(nextId - 1)
    BY <2>1 DEF SweeperInv, ClaimsOK, BoardOK
  <2>4. QED BY <2>1, <2>2, <2>3 DEF SweeperInv, ClaimsOK
<1>2. UnitsOK' /\ TickOK' /\ ProbeOK' /\ QueuedOK'
  BY IdsAreCounted DEF SweeperInv, BeginTick, UnitsOK, TickOK, ProbeOK, QueuedOK,
         unitVars, Nothing, claimVars
<1>3. QED BY <1>1, <1>2 DEF SweeperInv

LEMMA LookAtLeaseOK == ASSUME SweeperInv, NEW i \in ghosts, LookAtLease(i) PROVE SweeperInv'
<1>1. ClaimsOK'
  BY ClaimsStay DEF SweeperInv, LookAtLease
<1>2. UnitsOK' /\ TickOK' /\ ProbeOK' /\ QueuedOK'
  BY IdsAreCounted DEF SweeperInv, LookAtLease, UnitsOK, TickOK, ProbeOK, QueuedOK,
         unitVars, Nothing, claimVars
<1>3. QED BY <1>1, <1>2 DEF SweeperInv

LEMMA ReapProbeOK == SweeperInv /\ ReapProbe => SweeperInv'
<1> SUFFICES ASSUME SweeperInv, ReapProbe PROVE SweeperInv'
  OBVIOUS
<1>1. ClaimsOK' /\ UnitsOK'
  BY ClaimsStay DEF SweeperInv, ReapProbe, UnitsOK, unitVars
<1>2. /\ at = "reapProbe" /\ at' = "reapJudge"
      /\ UNCHANGED <<board, nextId, loaded, swap, ghosts, cur, since>>
  BY DEF ReapProbe, claimVars, unitVars
<1>3. CASE cur \in DOMAIN board
  <2>1. board[cur].unit \in Units
    BY <1>3 DEF SweeperInv, ClaimsOK, BoardOK, Claim
  <2>2. /\ seen' = loaded[board[cur].unit]
        /\ moved' = IF Busy(board[cur].unit) THEN {board[cur].unit} ELSE {}
    BY <1>3 DEF ReapProbe, Busy
  <2>3. TickOK' /\ ProbeOK' /\ QueuedOK'
    BY <1>1, <1>2, <2>1, <2>2 DEF SweeperInv, TickOK, ProbeOK, QueuedOK, UnitsOK, Busy
  <2>4. QED BY <1>1, <2>3 DEF SweeperInv
<1>4. CASE cur \notin DOMAIN board
  <2>1. TickOK' /\ ProbeOK' /\ QueuedOK'
    BY <1>2, <1>4, IdsAreCounted DEF ReapProbe, SweeperInv, TickOK, ProbeOK, QueuedOK
  <2>2. QED BY <1>1, <2>1 DEF SweeperInv
<1>5. QED BY <1>3, <1>4

LEMMA ReapProbeFailsOK == SweeperInv /\ ReapProbeFails => SweeperInv'
<1> SUFFICES ASSUME SweeperInv, ReapProbeFails PROVE SweeperInv'
  OBVIOUS
<1>1. ClaimsOK'
  BY ClaimsStay DEF SweeperInv, ReapProbeFails, NextLease
<1>2. UnitsOK' /\ TickOK' /\ ProbeOK' /\ QueuedOK'
  BY IdsAreCounted DEF SweeperInv, ReapProbeFails, NextLease, UnitsOK, TickOK, ProbeOK,
         QueuedOK, unitVars, Nothing, claimVars
<1>3. QED BY <1>1, <1>2 DEF SweeperInv

LEMMA ReapJudgeOK == SweeperInv /\ ReapJudge => SweeperInv'
<1> SUFFICES ASSUME SweeperInv, ReapJudge PROVE SweeperInv'
  OBVIOUS
<1>1. /\ BoardOK /\ Disjoint /\ nextId \in Nat
      /\ Note(used, fresh) /\ pending' = pending
      /\ frees' = frees /\ ghosts' \subseteq ghosts
  BY DEF SweeperInv, ClaimsOK, BoardOK, ReapJudge, NextLease
<1>2. /\ BoardOK' /\ Disjoint' /\ nextId' = nextId
      /\ \A i \in DOMAIN board' : i \in DOMAIN board /\ board'[i] = board[i]
  <2>1. CASE End({cur})
    BY <1>1, <2>1, EndKeepsBoard, EndDisjoint
  <2>2. CASE UNCHANGED boardVars
    BY <1>1, <2>2 DEF boardVars, BoardOK, Disjoint
  <2>3. QED BY <2>1, <2>2 DEF ReapJudge
<1>3. ClaimsOK'
  <2>1. pending' \in [Keys -> {NoFree, ByOperator} \union 1..MaxLeases]
    BY <1>1 DEF SweeperInv, ClaimsOK
  <2>2. ClaimsOK /\ nextId' <= MaxLeases + 1
    BY <1>2 DEF SweeperInv, ClaimsOK
  <2>3. QED BY <1>1, <1>2, <2>1, <2>2, NotedClaims
<1>4. UnitsOK' /\ TickOK' /\ ProbeOK' /\ QueuedOK'
  BY <1>2, IdsAreCounted DEF SweeperInv, ReapJudge, NextLease, UnitsOK, TickOK, ProbeOK,
         QueuedOK, unitVars, Nothing, claimVars
<1>5. QED BY <1>3, <1>4 DEF SweeperInv

LEMMA EndReapOK == SweeperInv /\ EndReap => SweeperInv'
<1> SUFFICES ASSUME SweeperInv, EndReap PROVE SweeperInv'
  OBVIOUS
<1>1. /\ frees' = {f \in Free : pending[f.key] = f.pf} /\ ghosts' = {} /\ UNCHANGED claimVars
  BY DEF EndReap
<1>3. ClaimsOK'
  BY <1>1 DEF SweeperInv, ClaimsOK, claimVars, BoardOK, Disjoint
<1>4. UnitsOK' /\ TickOK' /\ ProbeOK' /\ QueuedOK'
  BY IdsAreCounted DEF SweeperInv, EndReap, UnitsOK, TickOK, ProbeOK, QueuedOK,
         unitVars, Nothing, claimVars
<1>5. QED BY <1>3, <1>4 DEF SweeperInv

\* The steps of the deferred frees.
LEMMA FreeSkipsOK == ASSUME SweeperInv, NEW f \in frees, FreeSkips(f) PROVE SweeperInv'
<1>1. ClaimsOK'
  BY ClaimsStay DEF SweeperInv, FreeSkips, NextFree
<1>2. UnitsOK' /\ TickOK' /\ ProbeOK' /\ QueuedOK'
  BY IdsAreCounted DEF SweeperInv, FreeSkips, NextFree, UnitsOK, TickOK, ProbeOK,
         QueuedOK, unitVars, Nothing, claimVars
<1>3. QED BY <1>1, <1>2 DEF SweeperInv

LEMMA FreeIsVoidOK == ASSUME SweeperInv, NEW f \in frees, FreeIsVoid(f) PROVE SweeperInv'
<1>1. ClaimsOK'
  <2>1. f \in Free
    BY DEF SweeperInv, ClaimsOK
  <2>2. QED BY <2>1, ClearedKeepsClaims DEF SweeperInv, FreeIsVoid, NextFree,
         DropsUnwanted
<1>2. UnitsOK' /\ TickOK' /\ ProbeOK' /\ QueuedOK'
  BY IdsAreCounted DEF SweeperInv, FreeIsVoid, NextFree, UnitsOK, TickOK, ProbeOK,
         QueuedOK, unitVars, Nothing, claimVars
<1>3. QED BY <1>1, <1>2 DEF SweeperInv

LEMMA FreeBeginsOK == ASSUME SweeperInv, NEW f \in frees, FreeBegins(f) PROVE SweeperInv'
<1>1. ClaimsOK'
  BY ClaimsStay DEF SweeperInv, FreeBegins
<1>2. UnitsOK' /\ TickOK' /\ ProbeOK' /\ QueuedOK'
  BY IdsAreCounted DEF SweeperInv, FreeBegins, UnitsOK, TickOK, ProbeOK, QueuedOK,
         unitVars, Nothing, claimVars
<1>3. QED BY <1>1, <1>2 DEF SweeperInv

LEMMA FreeProbeOK == SweeperInv /\ FreeProbe => SweeperInv'
<1> SUFFICES ASSUME SweeperInv, FreeProbe PROVE SweeperInv'
  OBVIOUS
<1>1. ClaimsOK'
  BY ClaimsStay DEF SweeperInv, FreeProbe
<1>2. cur \in Free
  BY DEF SweeperInv, FreeProbe, TickOK, ClaimsOK
<1>3. loaded[cur.key[1]] \subseteq Served
  BY <1>2, FreeFields DEF SweeperInv, UnitsOK
<1>4. UnitsOK' /\ TickOK' /\ ProbeOK' /\ QueuedOK'
  BY <1>3, IdsAreCounted DEF SweeperInv, FreeProbe, UnitsOK, TickOK, ProbeOK, QueuedOK,
         unitVars, Nothing, claimVars
<1>5. QED BY <1>1, <1>4 DEF SweeperInv

LEMMA FreeProbeFailsOK == SweeperInv /\ FreeProbeFails => SweeperInv'
<1> SUFFICES ASSUME SweeperInv, FreeProbeFails PROVE SweeperInv'
  OBVIOUS
<1>1. ClaimsOK'
  BY ClaimsStay DEF SweeperInv, FreeProbeFails, NextFree
<1>2. UnitsOK' /\ TickOK' /\ ProbeOK' /\ QueuedOK'
  BY IdsAreCounted DEF SweeperInv, FreeProbeFails, NextFree, UnitsOK, TickOK, ProbeOK,
         QueuedOK, unitVars, Nothing, claimVars
<1>3. QED BY <1>1, <1>2 DEF SweeperInv

LEMMA FreeIsMootOK == SweeperInv /\ FreeIsMoot => SweeperInv'
<1> SUFFICES ASSUME SweeperInv, FreeIsMoot PROVE SweeperInv'
  OBVIOUS
<1>1. cur \in Free
  BY DEF SweeperInv, FreeIsMoot, TickOK, ClaimsOK
<1>2. ClaimsOK'
  BY <1>1, ClearedKeepsClaims DEF SweeperInv, FreeIsMoot, NextFree
<1>3. UnitsOK' /\ TickOK' /\ ProbeOK' /\ QueuedOK'
  BY IdsAreCounted DEF SweeperInv, FreeIsMoot, NextFree, UnitsOK, TickOK, ProbeOK,
         QueuedOK, unitVars, Nothing, claimVars
<1>4. QED BY <1>2, <1>3 DEF SweeperInv

LEMMA FreeIsOfferedOK == SweeperInv /\ FreeIsOffered => SweeperInv'
<1> SUFFICES ASSUME SweeperInv, FreeIsOffered PROVE SweeperInv'
  OBVIOUS
<1>1. ClaimsOK'
  BY ClaimsStay DEF SweeperInv, FreeIsOffered, NextFree
<1>2. UnitsOK' /\ TickOK' /\ ProbeOK' /\ QueuedOK'
  BY IdsAreCounted DEF SweeperInv, FreeIsOffered, NextFree, UnitsOK, TickOK, ProbeOK,
         QueuedOK, unitVars, Nothing, claimVars
<1>3. QED BY <1>1, <1>2 DEF SweeperInv

\* Where the unload() is called, what it will stop is claimed by its own lease alone.
LEMMA DecidedSparesOthers ==
    ASSUME SweeperInv, FreeUnloads, ~Narrowed(cur),
           NEW o \in Overlapping(board, cur.key[1], cur.key[2])
    PROVE  o = cur.pf /\ cur.pf \in DOMAIN board
<1>1. cur \in Free /\ BoardOK /\ Disjoint
  BY DEF SweeperInv, FreeUnloads, TickOK, ClaimsOK
<1>2. cur.pf \in Nat /\ StillWanted(board, cur.pf, cur.key[1], cur.key[2])
  BY <1>1, FreeFields DEF FreeUnloads, FinalCheck, Wanted, ByOperator
<1>3. cur.key[2] = Whole /\ cur.pf \in DOMAIN board => board[cur.pf].model = Whole
  BY DEF Narrowed
<1> DEFINE u == cur.key[1]
           m == cur.key[2]
           pf == cur.pf
<1>4. /\ StillWanted(board, pf, u, m) /\ o \in Overlapping(board, u, m) /\ pf \in Nat
      /\ m = Whole /\ pf \in DOMAIN board => board[pf].model = Whole
  BY <1>2, <1>3
<1> HIDE DEF u, m, pf
<1>5. o = pf /\ pf \in DOMAIN board
  BY <1>1, <1>4, WantedSparesOthers
<1>6. QED BY <1>5 DEF pf

LEMMA FreeUnloadsOK == SweeperInv /\ FreeUnloads => SweeperInv'
<1> SUFFICES ASSUME SweeperInv, FreeUnloads PROVE SweeperInv'
  OBVIOUS
<1>1. cur \in Free /\ nextId \in Nat /\ DOMAIN board \subseteq Int
  BY DEF SweeperInv, FreeUnloads, TickOK, ClaimsOK, BoardOK
<1>2. ClaimsOK'
  BY <1>1, ClearedKeepsClaims DEF SweeperInv, FreeUnloads
<1>3. UnitsOK'
  <2>1. cur.key[1] \in Units
    BY <1>1, FreeFields
  <2>2. /\ swap \in [Units -> SwapState] /\ loaded' \in [Units -> SUBSET Served]
        /\ \A v \in Units : swap[v] # "sweeper"
        /\ cur' = cur
    BY DEF SweeperInv, FreeUnloads, UnitsOK
  <2>3. \/ at' = "unload" /\ swap' = [swap EXCEPT ![cur.key[1]] = "sweeper"]
        \/ at' = "queued" /\ swap' = swap
    BY DEF FreeUnloads
  <2>4. QED BY <2>1, <2>2, <2>3 DEF UnitsOK, SwapState
<1>4. TickOK' /\ ProbeOK'
  BY <1>1 DEF SweeperInv, FreeUnloads, TickOK, ProbeOK, Nothing
<1>5. QueuedOK'
  <2> SUFFICES ASSUME at' = "queued", NEW o \in Overlapping(board, cur.key[1], cur.key[2])
               PROVE  o = cur.pf \/ o >= since'
    BY DEF QueuedOK, FreeUnloads
  <2>1. CASE Narrowed(cur)
    <3>1. since' = 0 /\ o \in DOMAIN board
      BY <2>1 DEF FreeUnloads, Nothing, Overlapping, OnUnit
    <3>2. DOMAIN board \subseteq 1..(nextId - 1)
      BY DEF SweeperInv, ClaimsOK, BoardOK
    <3>3. QED BY <1>1, <3>1, <3>2
  <2>2. CASE ~Narrowed(cur)
    BY <2>2, DecidedSparesOthers
  <2>3. QED BY <2>1, <2>2
<1>6. QED BY <1>2, <1>3, <1>4, <1>5 DEF SweeperInv

LEMMA FreeTakesLockOK == SweeperInv /\ FreeTakesLock => SweeperInv'
<1> SUFFICES ASSUME SweeperInv, FreeTakesLock PROVE SweeperInv'
  OBVIOUS
<1>1. cur \in Free /\ nextId \in Nat
  BY DEF SweeperInv, FreeTakesLock, TickOK, ClaimsOK, BoardOK
<1>2. ClaimsOK'
  BY ClaimsStay DEF SweeperInv, FreeTakesLock
<1>3. UnitsOK'
  BY <1>1, FreeFields DEF SweeperInv, FreeTakesLock, UnitsOK, SwapState
<1>4. TickOK' /\ ProbeOK' /\ QueuedOK'
  BY <1>1 DEF SweeperInv, FreeTakesLock, TickOK, ProbeOK, QueuedOK, Nothing, claimVars
<1>5. QED BY <1>2, <1>3, <1>4 DEF SweeperInv

LEMMA FreeDoneOK == SweeperInv /\ FreeDone => SweeperInv'
<1> SUFFICES ASSUME SweeperInv, FreeDone PROVE SweeperInv'
  OBVIOUS
<1>1. ClaimsOK'
  BY ClaimsStay DEF SweeperInv, FreeDone, NextFree
<1>2. UnitsOK'
  <2>1. cur.key[1] \in Units
    BY FreeFields DEF SweeperInv, FreeDone, TickOK, ClaimsOK
  <2>2. /\ swap \in [Units -> SwapState] /\ loaded \in [Units -> SUBSET Served]
        /\ \A v \in Units : swap[v] = "sweeper" <=> cur.key[1] = v
        /\ at' = "free"
    BY DEF SweeperInv, FreeDone, NextFree, UnitsOK
  <2>3. PICK s : /\ s \in {"none", "handed"}
                 /\ swap' = [swap EXCEPT ![cur.key[1]] = s]
    BY DEF FreeDone, PassOn
  <2>4. PICK S : loaded' = [loaded EXCEPT ![cur.key[1]] = @ \ S]
    BY DEF FreeDone
  <2>5. loaded' \in [Units -> SUBSET Served]
    BY <2>2, <2>4
  <2>6. /\ swap' \in [Units -> SwapState]
        /\ \A v \in Units : swap'[v] # "sweeper"
    BY <2>1, <2>2, <2>3 DEF SwapState
  <2>7. QED BY <2>2, <2>5, <2>6 DEF UnitsOK
<1>3. TickOK' /\ ProbeOK' /\ QueuedOK'
  BY IdsAreCounted DEF SweeperInv, FreeDone, NextFree, TickOK, ProbeOK, QueuedOK,
         Nothing, claimVars
<1>4. QED BY <1>1, <1>2, <1>3 DEF SweeperInv

-----------------------------------------------------------------------------
(* The theorems.                                                           *)

\* SweeperInv holds in every state, whatever requests, swaps and probes come between
\* the awaits of a tick.
THEOREM SweeperInvariant == Spec => []SweeperInv
<1>1. SweeperInv /\ [Next]_vars => SweeperInv'
  <2> SUFFICES ASSUME SweeperInv, [Next]_vars PROVE SweeperInv'
    OBVIOUS
  <2>1. CASE SweeperStep
    BY <2>1, BeginTickOK, EndReapOK, LookAtLeaseOK, ReapProbeFailsOK,
       ReapJudgeOK, FreeSkipsOK, FreeIsVoidOK, FreeBeginsOK, FreeProbeFailsOK,
       FreeIsMootOK, FreeIsOfferedOK, FreeUnloadsOK, FreeTakesLockOK,
              FreeDoneOK DEF SweeperStep
  <2>2. CASE UNCHANGED vars
    <3>1. ClaimsOK'
      BY <2>2, ClaimsStay DEF SweeperInv, vars, tickVars
    <3>2. UnitsOK' /\ TickOK' /\ ProbeOK' /\ QueuedOK'
      BY <2>2 DEF SweeperInv, vars, claimVars, unitVars, tickVars, UnitsOK, TickOK,
             ProbeOK, QueuedOK
    <3>3. QED BY <3>1, <3>2 DEF SweeperInv
  <2>3. QED
    BY <2>1, <2>2, ClaimsStepOK, SwapStepOK, ReapProbeOK, FreeProbeOK DEF Next,
           ProbeAnswers
<1>2. QED BY <1>1, SweeperStarts, PTL DEF Spec

\* The frees that are queued name granted leases, the tick works on snapshots of them,
\* and the sweeper has the swap lock of the unit it unloads and of no other.
THEOREM SweeperTyped == Spec => []TypeOK
BY SweeperInvariant, InvIsTyped, PTL

\* A free takes nothing from anybody but the holder it is done for (_still_wanted, read
\* again after the probe), unless the lease that asked for the whole unit was narrowed
\* since, or the claim came while the unload() waited for a lock that was on its way to
\* another task.
THEOREM FreesSpareOthers == Spec => FreeSparesOthers
<1> DEFINE A == at # "unload" /\ at' = "unload" =>
         \A o \in Overlapping(board, cur.key[1], cur.key[2]) :
            \/ Narrowed(cur)
            \/ cur.pf \in DOMAIN board /\ board[o].holder = board[cur.pf].holder
            \/ at = "queued" /\ o >= since
<1>1. SweeperInv /\ [Next]_vars => [A]_vars
  <2> SUFFICES ASSUME SweeperInv, [Next]_vars, at # "unload", at' = "unload",
                      NEW o \in Overlapping(board, cur.key[1], cur.key[2])
               PROVE  \/ Narrowed(cur)
                      \/ cur.pf \in DOMAIN board /\ board[o].holder = board[cur.pf].holder
                      \/ at = "queued" /\ o >= since
    OBVIOUS
  <2>1. FreeUnloads \/ FreeTakesLock
    BY DEF Next, ClaimStep, SwapStep, SwapBegins, SwapEnds, HandOver, OthersOnly,
           SweeperStep, ProbeAnswers, BeginTick, EndReap, LookAtLease, ReapProbe,
           ReapProbeFails, ReapJudge, NextLease, FreeSkips, FreeIsVoid, FreeBegins,
           FreeProbe, FreeProbeFails, FreeIsMoot, FreeIsOffered, FreeDone, NextFree,
           tickVars, vars
  <2>2. CASE FreeUnloads
    BY <2>2, DecidedSparesOthers
  <2>3. CASE FreeTakesLock
    <3>1. at = "queued" /\ o \in DOMAIN board
      BY <2>3 DEF FreeTakesLock, Overlapping, OnUnit
    <3>2. QED BY <3>1 DEF SweeperInv, QueuedOK
  <2>4. QED BY <2>1, <2>2, <2>3
<1>2. QED BY <1>1, SweeperInvariant, PTL DEF Spec, FreeSparesOthers

\* A lease is dropped as unused only if what it names was not on its unit while it was
\* judged, or a swap has moved the unit's models since the probe (_reap_unused).
THEOREM ReapedLeasesHeldNothing == Spec => ReapedHeldNothing
<1> DEFINE A == \A i \in DOMAIN board :
         Reaps(i) =>
            LET u == board[i].unit
            IN  \/ u \in moved /\ ~Busy(u)
                \/ IF board[i].model = Whole THEN loaded[u] = {}
                   ELSE board[i].model \notin Resident(u)
<1>1. SweeperInv /\ [Next]_vars => [A]_vars
  <2> SUFFICES ASSUME SweeperInv, [Next]_vars, NEW i \in DOMAIN board, Reaps(i)
               PROVE  \/ board[i].unit \in moved /\ ~Busy(board[i].unit)
                      \/ IF board[i].model = Whole THEN loaded[board[i].unit] = {}
                         ELSE board[i].model \notin Resident(board[i].unit)
    OBVIOUS
  <2>1. ReapJudge
    BY DEF Reaps, Next, ClaimStep, SwapStep, SwapBegins, SwapEnds, HandOver,
           OthersOnly, SweeperStep, ProbeAnswers, BeginTick, EndReap,
           LookAtLease, ReapProbe, ReapProbeFails, FreeSkips, FreeIsVoid,
           FreeBegins, FreeProbe, FreeProbeFails, FreeIsMoot, FreeIsOffered, FreeUnloads,
           FreeTakesLock, FreeDone, NextFree, tickVars, vars
  <2>2. i = cur /\ Ghost(cur)
    BY <2>1 DEF Reaps, ReapJudge, End, boardVars
  <2>3. ~Busy(board[i].unit) /\ ~HoldsSomething(board[i].model)
    BY <2>2 DEF Ghost, Busy
  <2>4. CASE board[i].unit \in moved
    BY <2>3, <2>4
  <2>5. CASE board[i].unit \notin moved
    <3>1. seen = loaded[board[i].unit]
      BY <2>1, <2>2, <2>5 DEF SweeperInv, ProbeOK, ReapJudge
    <3>2. Seen = Resident(board[i].unit)
      BY <3>1 DEF Seen, Resident
    <3>3. Seen = {} => seen = {}
      BY DEF Seen
    <3>4. QED BY <2>3, <3>1, <3>2, <3>3 DEF HoldsSomething
  <2>6. QED BY <2>4, <2>5
<1>2. QED BY <1>1, SweeperInvariant, PTL DEF Spec, ReapedHeldNothing
=============================================================================
