------------------------------- MODULE Claims -------------------------------
(***************************************************************************)
(* Claims on units: who may take what from whom.  These are the queries of *)
(* LeaseManager (src/llmconfig/leases.py) as functions of a board b, which *)
(* maps the id of every LIVE lease to its claim: unit, holder, model,      *)
(* preemptible, priority.  Ids grow, so id order is the order in which the *)
(* manager's dictionary lists the leases.                                  *)
(***************************************************************************)
EXTENDS Integers, FiniteSetsExt

CONSTANTS
    Units,          \* unit ids the orchestrator knows
    Holders,        \* holder labels
    Names,          \* every way a request can spell a model
    Canon,          \* [Names -> Names], LeaseManager._canon
    Whole           \* the empty model name: a claim on the whole unit

Models == {Canon[n] : n \in Names}
Scopes == Models \union {Whole}

ASSUME ClaimsAssumption ==
    /\ Whole \notin Names
    /\ Canon \in [Names -> Names]
    /\ \A n \in Names : Canon[Canon[n]] = Canon[n]

CanonOf(n) == IF n = Whole THEN Whole ELSE Canon[n]

\* _conflicting: either claim covers the other
Overlap(m1, m2) == m1 = Whole \/ m2 = Whole \/ m1 = m2

\* the first lease of S in claim order, 0 if there is none
First(S) == IF S = {} THEN 0 ELSE Min(S)

OnUnit(b, u) == {i \in DOMAIN b : b[i].unit = u}
OnScope(b, u, m) == {i \in OnUnit(b, u) : b[i].model = m}

\* mutant: a claim on the whole unit does not contend with the per-model ones
MutOverlapping(b, u, m) == {i \in OnUnit(b, u) : b[i].model \in {m, Whole}}

Overlapping(b, u, m) == {i \in OnUnit(b, u) : Overlap(m, b[i].model)}

\* active_for(u, m); m = Whole stands for model=None
ActiveFor(b, u, m) ==
    IF OnScope(b, u, Whole) # {} THEN First(OnScope(b, u, Whole))
    ELSE First(IF m = Whole THEN OnUnit(b, u) ELSE OnScope(b, u, m))

\* mutant: the unit-level question asks only the lease active_for surfaces first
MutBlocksUnleased(b, u, m) ==
    LET i == ActiveFor(b, u, m) IN IF i # 0 /\ ~b[i].preemptible THEN i ELSE 0

\* blocks_unleased(u, m): the lease that refuses un-leased work on m, 0 if none
BlocksUnleased(b, u, m) ==
    LET i == IF m = Whole THEN First({j \in OnUnit(b, u) : ~b[j].preemptible})
             ELSE ActiveFor(b, u, m)
    IN  IF i # 0 /\ ~b[i].preemptible THEN i ELSE 0

\* _conflicting(u, m, h): the holder's own claim on exactly m, else the first overlap
Conflicting(b, u, m, h) ==
    LET mine == {i \in OnScope(b, u, m) : b[i].holder = h}
    IN  IF mine # {} THEN First(mine) ELSE First(Overlapping(b, u, m))

\* mutant: claim() looks only at the first conflict
MutMayTake(b, u, m, h, p, force) ==
    LET id == Conflicting(b, u, m, h)
    IN  id # 0 /\ b[id].holder # h =>
            /\ b[id].preemptible
            /\ p > b[id].priority \/ force

\* claim(): does every overlapping lease of another holder give way?
MayTake(b, u, m, h, p, force) ==
    \A o \in Overlapping(b, u, m) :
        b[o].holder # h => /\ b[o].preemptible
                           /\ p > b[o].priority \/ force

\* revoke_for_eviction(u, m): preemptible leases only, sparing the requester's own
EvictionTargets(b, u, m, spare) ==
    LET governing == IF m = Whole THEN OnUnit(b, u)
                     ELSE {ActiveFor(b, u, m)} \ {0}
    IN  {i \in governing : b[i].preemptible /\ b[i].holder # spare}

\* _still_wanted(u, pf): is the free that pf queued under (u, m) still right?
ByOperator == 0     \* PendingFree.lease_id = "": an operator asked
StillWanted(b, pf, u, m) ==
    LET i == ActiveFor(b, u, m)
    IN  IF pf = ByOperator THEN i = 0 ELSE i = pf
=============================================================================
