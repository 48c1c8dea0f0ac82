---------------------------- MODULE LeaseSweeper ----------------------------
(***************************************************************************)
(* The background task that acts on leases: LeaseSweeper of                *)
(* src/llmconfig/leases.py.  A tick drops the leases nobody used           *)
(* (_reap_unused) and then carries out the deferred frees that claims and  *)
(* revocations queued (_free_unit).  Both probe a unit with an await, and  *)
(* between the probe and what follows the other tasks go on: they claim,   *)
(* renew, use and end leases, queue frees and swap models.                 *)
(*                                                                         *)
(* The lease table is the board it implements (ClaimBoard), here without   *)
(* the return of lapsed claims.  A unit is its resident models and its     *)
(* swap lock, an asyncio.Lock (SwapLock): once it is released, the waiter  *)
(* that release() woke has it next, but until that task runs the lock is   *)
(* not locked(), and who calls acquire() meanwhile waits behind it.        *)
(***************************************************************************)
EXTENDS ClaimBoard

CONSTANTS
    Lanes,       \* the units that hold one model and compare its name as it comes
    Served,      \* the names under which backends report resident models
    Offers,      \* the claims that requests make
    FreeHolders  \* the holders that ask for free_on_preempt

ASSUME SweeperAssumption ==
    /\ Lanes \subseteq Units
    /\ Served \subseteq Names
    /\ Offers \subseteq Claim
    /\ FreeHolders \subseteq Holders
    /\ MaxLeases \in Nat

VARIABLES
    pending,   \* LeaseManager._pending_free
    used,      \* leases with requests # 0
    fresh,     \* of the others, those acquired or renewed within lease_unused_release_s
    loaded,    \* unit -> the names it serves
    swap,      \* unit -> who holds its swap lock
    at,        \* where the tick is
    ghosts,    \* leases _reap_unused has still to look at
    frees,     \* the snapshot of pending that the tick has still to look at
    cur,       \* the lease or the free being looked at
    seen,      \* what the last unit.status() found resident
    moved,     \* history: units swapped since that status() read its backends
    since      \* history: the unload() that waits has not looked at leases from here on

unitVars  == <<loaded, swap>>
claimVars == <<board, nextId, pending, used, fresh>>
tickVars  == <<at, ghosts, frees, cur, seen>>
vars      == <<claimVars, unitVars, tickVars, moved, since>>

NoFree == -1
Keys   == Units \X Scopes
Free   == [key : Keys, pf : {ByOperator} \union 1..MaxLeases]
Nothing == 0
\* "handed": released, and the waiter that was woken has not run yet
SwapState == {"none", "other", "handed", "sweeper"}
Busy(u) == swap[u] \in {"other", "sweeper"}

\* what a unit can serve: names of different models, on a lane only one
CanServe(u, S) ==
    /\ S \subseteq Served
    /\ \A n, k \in S : (Canon[n] = Canon[k] \/ u \in Lanes) => n = k

Resident(u) == {Canon[n] : n \in loaded[u]}
MutSeen == seen     \* mutant: names are compared as they come
Seen == {Canon[n] : n \in seen}

Init ==
    /\ BoardInit
    /\ pending = [k \in Keys |-> NoFree]
    /\ used = {} /\ fresh = {} /\ moved = {} /\ since = Nothing
    /\ loaded \in {l \in [Units -> SUBSET Served] : \A u \in Units : CanServe(u, l[u])}
    /\ swap = [u \in Units |-> "none"]
    /\ at = "free" /\ ghosts = {} /\ frees = {} /\ cur = Nothing /\ seen = {}

-----------------------------------------------------------------------------
(* What the other tasks do to leases and units.                            *)

\* claim() granted or extended, with or without free_on_preempt
Enqueue(u, m, pf, free) ==
    pending' = IF free THEN [pending EXCEPT ![<<u, m>>] = pf] ELSE pending

\* how the leases are used, as far as they are still live
Note(requested, alive) ==
    /\ used' = requested \intersect DOMAIN board'
    /\ fresh' = (alive \intersect DOMAIN board') \ requested

GrantClaim(c, free) ==
    /\ Grant(c)
    /\ Enqueue(c.unit, c.model, nextId, free)
    /\ Note(used, fresh \union {nextId})

ExtendClaim(i, c, free) ==
    /\ Extend(i, c)
    /\ Enqueue(c.unit, c.model, i, free)
    /\ Note(used, fresh \union {i})

\* released, lapsed, evicted, or revoked by the operator -- with --free or without
EndClaim(i, free) ==
    /\ End({i})
    /\ Enqueue(board[i].unit, board[i].model, ByOperator, free)
    /\ Note(used, fresh)

\* note_request(), renew(), and the passing of time without either
UseClaim(i)   == Note(used \union {i}, fresh)
RenewClaim(i) == Note(used, fresh \union {i})
GoQuiet(i)    == Note(used, fresh \ {i})

ClaimStep ==
    /\ \/ \E c \in Offers, free \in BOOLEAN :
          /\ free => c.holder \in FreeHolders
          /\ \/ GrantClaim(c, free)
             \/ \E i \in DOMAIN board : ExtendClaim(i, c, free)
       \/ \E i \in DOMAIN board :
             \/ \E free \in BOOLEAN : EndClaim(i, free)
             \/ /\ UNCHANGED <<board, nextId, pending>>
                /\ UseClaim(i) \/ RenewClaim(i) \/ GoQuiet(i)
    /\ UNCHANGED <<unitVars, tickVars, moved, since>>

\* the lock goes to another task, whose load or unload moves models
Taken(u) ==
    /\ swap' = [swap EXCEPT ![u] = "other"]
    /\ moved' = IF at = "reapJudge" THEN moved \union {u} ELSE moved

\* the sweeper's own unload() waits for this unit's lock
Queued(u) == at = "queued" /\ cur.key[1] = u

\* A release(): somebody waits and is woken, or nobody does.  Bound: one task at most is
\* ahead of an unload() that waits; who comes later waits behind it.
PassOn(u) ==
    \/ swap' = [swap EXCEPT ![u] = "none"]
    \/ ~Queued(u) /\ swap' = [swap EXCEPT ![u] = "handed"]

OthersOnly == UNCHANGED <<claimVars, tickVars, since>>

\* mutant: a load goes ahead while the unit is being freed
MutSwapBegins(u) ==
    /\ swap[u] # "other" /\ ~Queued(u)
    /\ swap' = [swap EXCEPT ![u] = "other"]
    /\ UNCHANGED <<loaded, moved>> /\ OthersOnly

\* A load or an unload by somebody else takes the lock, and ends with any residents.
SwapBegins(u) ==
    /\ swap[u] = "none" /\ ~Queued(u)
    /\ Taken(u)
    /\ UNCHANGED loaded /\ OthersOnly
SwapEnds(u) ==
    /\ swap[u] = "other"
    /\ PassOn(u)
    /\ \E S \in SUBSET Served : CanServe(u, S) /\ loaded' = [loaded EXCEPT ![u] = S]
    /\ UNCHANGED moved /\ OthersOnly

\* The woken task resumes: it has the lock, or has been given up and wakes the next.
HandOver(u) ==
    /\ swap[u] = "handed"
    /\ \/ Taken(u)
       \/ swap' = [swap EXCEPT ![u] = "none"] /\ UNCHANGED moved
    /\ UNCHANGED loaded /\ OthersOnly

SwapStep == \E u \in Units : SwapBegins(u) \/ SwapEnds(u) \/ HandOver(u)

-----------------------------------------------------------------------------
(* _reap_unused                                                            *)

Alive(i) == i \in used \union fresh

\* The sleep between two ticks, with no frees left, is over.  The clock is read once:
\* who goes quiet later is not looked at.
BeginTick ==
    /\ at = "free" /\ frees = {}
    /\ at' = "reap" /\ ghosts' = {i \in DOMAIN board : ~Alive(i)}
    /\ UNCHANGED <<claimVars, unitVars, frees, cur, seen, moved, since>>

\* no requests and no renewals for the whole window, and none since
Quiet == {i \in ghosts : i \in DOMAIN board /\ ~Alive(i)}

\* the next of them: list() is newest first
LookAtLease(i) ==
    /\ at = "reap" /\ i \in Quiet /\ \A j \in Quiet : j <= i
    /\ at' = "reapProbe" /\ cur' = i /\ ghosts' = {j \in ghosts : j <= i}
    /\ UNCHANGED <<claimVars, unitVars, frees, seen, moved, since>>

\* the backends answer unit.status()
ReapProbe ==
    /\ at = "reapProbe"
    /\ at' = "reapJudge"
    /\ IF cur \in DOMAIN board
       THEN LET u == board[cur].unit
            IN  seen' = loaded[u] /\ moved' = IF Busy(u) THEN {u} ELSE {}
       ELSE UNCHANGED <<seen, moved>>
    /\ UNCHANGED <<claimVars, unitVars, ghosts, frees, cur, since>>

NextLease ==
    /\ at' = "reap" /\ ghosts' = {i \in ghosts : i < cur} /\ cur' = Nothing /\ seen' = {}
    /\ moved' = {}
    /\ UNCHANGED <<frees, unitVars, since>>

ReapProbeFails ==
    /\ at = "reapProbe"
    /\ NextLease
    /\ UNCHANGED claimVars

\* mutant: any co-tenant keeps the ghost alive
MutHoldsSomething(m) == Seen # {}
\* the model the lease names is resident; for a whole unit, anything is
HoldsSomething(m) == IF m = Whole THEN Seen # {} ELSE m \in Seen

Ghost(i) == ~Busy(board[i].unit) /\ ~HoldsSomething(board[i].model)

\* the rest of the iteration, once status() has answered: expire_unused or not
ReapJudge ==
    /\ at = "reapJudge"
    /\ IF cur \in DOMAIN board /\ Ghost(cur)
       THEN End({cur})
       ELSE UNCHANGED boardVars
    /\ UNCHANGED pending
    /\ Note(used, fresh)
    /\ NextLease

EndReap ==
    /\ at = "reap" /\ Quiet = {}
    /\ at' = "free" /\ ghosts' = {}
    /\ frees' = {f \in Free : pending[f.key] = f.pf}
    /\ UNCHANGED <<claimVars, unitVars, cur, seen, moved, since>>

-----------------------------------------------------------------------------
(* _free_unit, for the entries of pending in any order                     *)

ClearPending(f) == pending' = [pending EXCEPT ![f.key] = NoFree]
Wanted(f) == StillWanted(board, f.pf, f.key[1], f.key[2])

NextFree(f) ==
    /\ at' = "free" /\ frees' = frees \ {f} /\ cur' = Nothing /\ seen' = {}
    /\ since' = Nothing
    /\ UNCHANGED ghosts

\* mutant: a request that is no longer wanted stays queued
MutDropsUnwanted(f) == UNCHANGED pending
DropsUnwanted(f) == ClearPending(f)

\* the guards before the probe: a swap in flight, a request that is void
FreeSkips(f) ==
    /\ at = "free" /\ f \in frees
    /\ Busy(f.key[1])
    /\ NextFree(f)
    /\ UNCHANGED <<claimVars, unitVars, moved>>
FreeIsVoid(f) ==
    /\ at = "free" /\ f \in frees
    /\ ~Busy(f.key[1]) /\ ~Wanted(f)
    /\ DropsUnwanted(f)
    /\ NextFree(f)
    /\ UNCHANGED <<board, nextId, used, fresh, unitVars, moved>>
FreeBegins(f) ==
    /\ at = "free" /\ f \in frees
    /\ ~Busy(f.key[1]) /\ Wanted(f)
    /\ at' = "freeProbe" /\ cur' = f
    /\ UNCHANGED <<claimVars, unitVars, ghosts, frees, seen, moved, since>>

\* the backends answer unit.status()
FreeProbe ==
    /\ at = "freeProbe"
    /\ at' = "freeDecide" /\ seen' = loaded[cur.key[1]]
    /\ UNCHANGED <<claimVars, unitVars, ghosts, frees, cur, moved, since>>

FreeProbeFails ==
    /\ at = "freeProbe"
    /\ NextFree(cur)
    /\ UNCHANGED <<claimVars, unitVars, moved>>

\* status() ends with swap_in_progress; nothing yields from there to unload()
NothingToFree(f) ==
    \/ Busy(f.key[1])
    \/ ~HoldsSomething(f.key[2])

\* mutant: the claims are not read again after the probe
MutFinalCheck(f) == ~Busy(f.key[1])
FinalCheck(f) == ~Busy(f.key[1]) /\ Wanted(f)

FreeIsMoot ==
    /\ at = "freeDecide" /\ NothingToFree(cur)
    /\ ClearPending(cur)
    /\ NextFree(cur)
    /\ UNCHANGED <<board, nextId, used, fresh, unitVars, moved>>
FreeIsOffered ==
    /\ at = "freeDecide" /\ ~NothingToFree(cur) /\ ~FinalCheck(cur)
    /\ NextFree(cur)
    /\ UNCHANGED <<claimVars, unitVars, moved>>

\* history: the lease that asked for the whole unit has since been narrowed
Narrowed(f) == f.key[2] = Whole /\ f.pf \in DOMAIN board /\ board[f.pf].model # Whole

\* clear_pending, then unload(): its acquire does not yield where the lock is free,
\* and waits where it is on its way to a task that was woken
FreeUnloads ==
    /\ at = "freeDecide" /\ ~NothingToFree(cur) /\ FinalCheck(cur)
    /\ ClearPending(cur)
    /\ IF swap[cur.key[1]] = "none"
       THEN /\ at' = "unload" /\ swap' = [swap EXCEPT ![cur.key[1]] = "sweeper"]
            /\ UNCHANGED since
       ELSE /\ at' = "queued" /\ UNCHANGED swap
            /\ since' = IF Narrowed(cur) THEN Nothing ELSE nextId
    /\ seen' = {}
    /\ UNCHANGED <<board, nextId, used, fresh, loaded, ghosts, frees, cur, moved>>

\* the swaps that were ahead of it are over
FreeTakesLock ==
    /\ at = "queued" /\ swap[cur.key[1]] = "none"
    /\ at' = "unload" /\ swap' = [swap EXCEPT ![cur.key[1]] = "sweeper"]
    /\ since' = Nothing
    /\ UNCHANGED <<claimVars, loaded, ghosts, frees, cur, seen, moved>>

\* What unload() stops.  A lane compares the name it serves with the alias it is given
\* (_occupied_by), and stops what it has or nothing.
Stops(u, m) ==
    IF m = Whole \/ (u \in Lanes /\ m \in loaded[u]) THEN loaded[u]
    ELSE {n \in loaded[u] : u \notin Lanes /\ Canon[n] = m}

\* unload() done, and the lock released
FreeDone ==
    LET u == cur.key[1]
    IN  /\ at = "unload"
        /\ loaded' = [loaded EXCEPT ![u] = @ \ Stops(u, cur.key[2])]
        /\ PassOn(u)
        /\ NextFree(cur)
        /\ UNCHANGED <<claimVars, moved>>

-----------------------------------------------------------------------------

ProbeAnswers == ReapProbe \/ FreeProbe

SweeperStep ==
    \/ BeginTick \/ EndReap
    \/ \E i \in ghosts : LookAtLease(i)
    \/ ReapProbeFails \/ ReapJudge
    \/ \E f \in frees : FreeSkips(f) \/ FreeIsVoid(f) \/ FreeBegins(f)
    \/ FreeProbeFails \/ FreeIsMoot \/ FreeIsOffered
    \/ FreeUnloads \/ FreeTakesLock \/ FreeDone

Next == ClaimStep \/ SwapStep \/ SweeperStep \/ ProbeAnswers

Spec == Init /\ [][Next]_vars

\* The task loops for ever, and a unit that is asked about the same lease or the same
\* free again and again answers some time.  Swaps end (their waits are bounded), and a
\* task that was woken runs.
Fairness ==
    /\ WF_vars(SweeperStep \/ ProbeAnswers)
    /\ \A u \in Units : WF_vars(SwapEnds(u) \/ HandOver(u))
    /\ \A i \in 1..MaxLeases : SF_vars(ReapProbe /\ cur = i)
    /\ \A k \in Keys : SF_vars(FreeProbe /\ cur.key = k)
FairSpec == Spec /\ Fairness

-----------------------------------------------------------------------------
(* Properties.                                                             *)

\* Queued frees name granted leases, the tick works on snapshots of them, and the
\* sweeper holds at most the lock of the unit it is unloading.
TypeOK ==
    /\ pending \in [Keys -> {NoFree, ByOperator} \union 1..MaxLeases]
    /\ \A k \in Keys : pending[k] < nextId
    /\ used \union fresh \union ghosts \subseteq 1..(nextId - 1)
    /\ loaded \in [Units -> SUBSET Served] /\ swap \in [Units -> SwapState]
    /\ at \in {"reap", "reapProbe", "reapJudge",
               "free", "freeProbe", "freeDecide", "queued", "unload"}
    /\ since \in 0..nextId
    /\ frees \subseteq Free /\ seen \subseteq Served
    /\ cur \in CASE at \in {"reapProbe", "reapJudge"} -> ghosts
                 [] at \in {"freeProbe", "freeDecide", "queued", "unload"} -> frees
                 [] OTHER -> {Nothing}
    /\ \A u \in Units : swap[u] = "sweeper" <=> at = "unload" /\ cur.key[1] = u

\* A free takes a model, or a unit, from nobody but the holder it is done for: when
\* its unload has the lock, no other holder has a claim on anything it will stop.
\* There are two exceptions: a lease that asked for the whole unit and was narrowed to
\* a model since; and claims newer than the last look at them (_still_wanted, read
\* again after the probe), where the unload then had to wait for a swap to which the
\* released lock was already on its way.
FreeSparesOthers ==
    [][at # "unload" /\ at' = "unload" =>
         \A o \in Overlapping(board, cur.key[1], cur.key[2]) :
            \/ Narrowed(cur)
            \/ cur.pf \in DOMAIN board /\ board[o].holder = board[cur.pf].holder
            \/ at = "queued" /\ o >= since]_vars

Reaps(i) == at = "reapJudge" /\ at' = "reap" /\ i \notin DOMAIN board'

\* A lease is dropped as unused only if what it names was not resident while it was
\* judged, or a swap moved the unit's models after the probe (_reap_unused; a model
\* is reported under its served name and claimed under its alias).
ReapedHeldNothing ==
    [][\A i \in DOMAIN board :
         Reaps(i) =>
            LET u == board[i].unit
            IN  \/ u \in moved /\ ~Busy(u)
                \/ IF board[i].model = Whole THEN loaded[u] = {}
                   ELSE board[i].model \notin Resident(u)]_vars

\* A claim whose holder died -- no requests, no renewals, its model nowhere on a unit
\* that nobody swaps -- is gone in the end, whoever else is loaded there.
GhostsGo ==
    \A i \in 1..MaxLeases, u \in Units :
        ~<>[](/\ i \in DOMAIN board /\ ~Alive(i) /\ board[i].unit = u
              /\ swap[u] = "none"
              /\ board[i].model # Whole /\ board[i].model \notin Resident(u))

\* A queued free does not stay queued for ever, unless a swap of its unit is in
\* flight again and again: it is carried out, or dropped as void or moot.
QueuedFreesEnd ==
    \A k \in Keys :
        <>[](swap[k[1]] # "other") => (pending[k] # NoFree ~> pending[k] = NoFree)

-----------------------------------------------------------------------------
(* What docs and docstrings say of the sweeper, and the code does not keep. *)

=============================================================================
