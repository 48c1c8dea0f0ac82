------------------------------ MODULE Placement ------------------------------
(***************************************************************************)
(* Auto-placement: rank() of src/llmconfig/placement.py, a pure function   *)
(* from facts about the units on which a model resolves to a decision.     *)
(*                                                                         *)
(* A candidate carries what the status sweep said of its unit (swap,       *)
(* usage, rows: what is resident), what the load would take there (want,   *)
(* whole: the node for itself) and what the gates say (refused: by a       *)
(* lease; proven; blocked).  Budgets are in units of mem_fraction, ages in *)
(* steps of idle_s, est in minutes.                                        *)
(***************************************************************************)
EXTENDS Integers, SequencesExt

CONSTANTS
    Headroom,       \* spark_mem_headroom
    Window,         \* usage_active_window_s
    MaxAge,         \* bound on the ages of rows
    Unmeasured,     \* est of a model that has never been measured, above any other
    Priority,       \* workload -> placement_priority_*
    EvictGroups, EvictLeasedIdle, EvictActive,  \* placement_group_eviction_enabled,
                                                \* placement_preempt_*_enabled
    RequireProven   \* placement_require_proven

Workload == {"interactive", "batch", "neutral"}

ASSUME PlacementAssumption ==
    /\ {Headroom, Window, MaxAge, Unmeasured} \subseteq Nat
    /\ Priority \in [Workload -> Nat]
    /\ {EvictGroups, EvictLeasedIdle, EvictActive, RequireProven} \subseteq BOOLEAN

\* ResidentFact: lease is the disposition of the live lease on the row, held at prio;
\* a row of a group spans its members and has no budget
IsRow(r) ==
    /\ r.budget \in Nat /\ r.age \in 0..MaxAge
    /\ r.lease \in {"none", "preemptible", "shield"} /\ r.prio \in Nat
    /\ r.span \in Nat \ {0} /\ r.group \in BOOLEAN

\* CandidateFacts of the units on which a model resolves; order is the place in settings.units()
IsCandidate(c) ==
    /\ {c.swap, c.whole, c.slot, c.refused, c.proven, c.blocked} \subseteq BOOLEAN
    /\ {c.inflight, c.want, c.est, c.fill, c.order, c.members} \subseteq Nat
    /\ DOMAIN c.rows \subseteq Nat /\ IsFiniteSet(DOMAIN c.rows)
    /\ \A i \in DOMAIN c.rows : IsRow(c.rows[i])
IsFleet(C) ==
    /\ IsFiniteSet(C) /\ \A c \in C : IsCandidate(c)
    /\ \A c, d \in C : c.order = d.order => c = d

\* a decision; victims and groups name the models to stop first
Refusal(how) == [outcome |-> how, unit |-> "", tier |-> "", victims |-> {}, groups |-> {}]
Choice(how, c, t) == [outcome |-> how, unit |-> c.unit, tier |-> t,
                      victims |-> {}, groups |-> {}]

-----------------------------------------------------------------------------
(* Who may be displaced.                                                   *)

\* mutant: only a lease protects
MutVictimEligible(r, p) == r.lease # "shield"
\* _victim_eligible
VictimEligible(r, p) ==
    LET idle == r.age > Window
    IN  /\ r.lease # "shield"
        /\ r.group => EvictGroups
        /\ CASE r.lease = "none" -> idle
             [] r.lease = "preemptible" /\ idle -> EvictLeasedIdle
             [] OTHER -> EvictActive /\ r.prio < p

\* a lane stops its one occupant itself; usage also knows the card's load and a swap
LaneEvictable(c, p) ==
    /\ c.kind = "gpu"
    /\ \/ c.usage = "free"
       \/ \E i \in DOMAIN c.rows :
             /\ c.rows[i].lease # "shield"
             /\ IF c.usage = "idle" THEN c.rows[i].lease = "none" \/ EvictLeasedIdle
                ELSE c.rows[i].lease = "preemptible" /\ EvictActive /\ c.rows[i].prio < p

-----------------------------------------------------------------------------
(* Which rows of a node make room.  Rows are named by their slot.          *)

Budgets(c, V) == FoldSet(LAMBDA i, n : n + c.rows[i].budget, 0, V)

\* declared budgets of what stays, and of a load in flight, beside what is wanted
Room(c, V) ==
    /\ Budgets(c, DOMAIN c.rows \ V) + c.inflight + c.want <= Headroom
    /\ c.slot \/ V # {}

\* mutant: a model without a budget takes nothing
MutUnbudgeted(c) == {}
\* they claim the whole node
Unbudgeted(c) == {i \in DOMAIN c.rows : c.rows[i].budget = 0}

\* the order of eligible: smallest span first, then stalest, then as they are listed
Staler(c, i, j) ==
    LET r == c.rows[i]  q == c.rows[j]
    IN  \/ r.span < q.span
        \/ r.span = q.span /\ (r.age > q.age \/ (r.age = q.age /\ i < j))

Eligible(c, p) == {i \in DOMAIN c.rows : VictimEligible(c.rows[i], p)}
Stalest(c, S)  == CHOOSE i \in S : \A j \in S \ {i} : Staler(c, i, j)
UpTo(c, S, i)  == {j \in S : j = i \/ Staler(c, j, i)}

\* _victims_for: the unbudgeted ones, then the stalest that is enough alone, else the
\* stalest ones until it fits; no element if it never does
VictimsFor(c, p) ==
    LET E      == Eligible(c, p)
        bad    == Unbudgeted(c)
        lone   == {i \in E \ bad : Room(c, bad \union {i})}
        first  == bad \union IF Room(c, bad) \/ lone = {} THEN {} ELSE {Stalest(c, lone)}
        others == E \ first
        enough == {V \in {first} \union {first \union UpTo(c, others, i) : i \in others} :
                      Room(c, V)}
    IN  IF c.whole THEN {V \in {E} : V # {} /\ V = DOMAIN c.rows}
        ELSE {V \in enough : bad \subseteq E /\ \A W \in enough : V \subseteq W}

\* victims[0]: unbudgeted rows come first, as they are listed
Foremost(c, V) ==
    IF c.whole \/ Unbudgeted(c) = {} THEN Stalest(c, V) ELSE Min(Unbudgeted(c))

\* _fits_without_displacement
FitsAsItIs(c) ==
    IF c.kind = "gpu" THEN c.usage = "free"
    ELSE /\ c.slot
         /\ IF c.whole THEN DOMAIN c.rows = {}
            ELSE Unbudgeted(c) = {} /\ Room(c, {})

-----------------------------------------------------------------------------
(* rank().                                                                 *)

Flag(b) == IF b THEN 1 ELSE 0
Before(k, l) == \E n \in DOMAIN k : /\ k[n] < l[n]
                                    /\ \A i \in 1..(n - 1) : k[i] = l[i]
\* keys end in the order of the units, so one comes first
FirstBy(key) == CHOOSE x \in DOMAIN key : \A y \in DOMAIN key \ {x} : Before(key[x], key[y])

Resident(m, c) == \E i \in DOMAIN c.rows : c.rows[i].model = m
Fresh(c) == ~c.blocked /\ (c.proven \/ ~RequireProven)

\* tier 2: idle before active; a batch prefers a node even if it is active
ResidentKey(wl, c) ==
    LET busy == Flag(c.usage # "idle")
    IN  (CASE wl = "batch"       -> <<Flag(c.kind # "spark"), busy>>
           [] wl = "interactive" -> <<busy, Flag(c.kind # "gpu")>>
           [] OTHER              -> <<busy>>)
        \o <<Flag(c.swap), c.order>>

\* tier 3: fewest nodes, then fastest to load, then emptiest
FitsKey(wl, c) ==
    <<Flag(c.swap), c.members>>
    \o (CASE wl = "batch"       -> <<Flag(c.kind # "spark"), c.est>>
          [] wl = "interactive" -> <<c.est, Flag(c.kind # "gpu")>>
          [] OTHER              -> <<c.est>>)
    \o <<c.fill, c.order>>

\* tier 4: fewest nodes, then the victims: smallest span, fewest, stalest
DisplaceKey(c, V) ==
    <<c.members, Max({1} \union {c.rows[i].span : i \in V}), Cardinality(V),
      IF V = {} THEN 0 ELSE 1 + MaxAge - c.rows[Foremost(c, V)].age, Flag(c.swap), c.order>>

\* the candidates that can take the model by displacing others, with their victims
Displacing(C, p) ==
    UNION {{c} \X IF c.kind = "spark" THEN VictimsFor(c, p)
                  ELSE IF LaneEvictable(c, p) THEN {{}} ELSE {} : c \in C}

Displace(cv) ==
    LET c == cv[1]  V == cv[2]
        Of(group) == {c.rows[i].model : i \in {j \in V : c.rows[j].group = group}}
    IN  [Choice("place", c, "displace") EXCEPT !.victims = Of(FALSE), !.groups = Of(TRUE)]

Rank(m, candidates, excluded, wl) ==
    LET C     == {c \in candidates : c.unit \notin excluded}
        open  == {c \in C : ~c.refused}
        there == {c \in open : Resident(m, c)}
        fits  == {c \in open : Fresh(c) /\ FitsAsItIs(c)}
        moves == Displacing({c \in open : Fresh(c)}, Priority[wl])
    IN  IF C = {}
        THEN Refusal(IF candidates = {} THEN "not_found" ELSE "no_capacity")
        ELSE IF Cardinality(C) = 1 THEN Choice("pin", CHOOSE c \in C : TRUE, "pin")
        ELSE IF there # {}
        THEN Choice("place", FirstBy([c \in there |-> ResidentKey(wl, c)]), "resident")
        ELSE IF fits # {}
        THEN Choice("place", FirstBy([c \in fits |-> FitsKey(wl, c)]), "fits")
        ELSE IF moves # {}
        THEN Displace(FirstBy([cv \in moves |-> DisplaceKey(cv[1], cv[2])]))
        ELSE Refusal("no_capacity")
=============================================================================
