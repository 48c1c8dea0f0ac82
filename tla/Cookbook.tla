------------------------------- MODULE Cookbook -------------------------------
(***************************************************************************)
(* Named fleet states and their application: src/llmconfig/cookbook.py.    *)
(*                                                                         *)
(* A saved state gives some units the models they are to serve ([] frees   *)
(* the unit) and some groups their multi-node model.  Applying it makes    *)
(* the fleet match: unwanted groups are torn down, then the units work in  *)
(* parallel, each unloading before it loads, then the wanted groups are    *)
(* loaded.  Meanwhile others load and unload, leases come and go, a        *)
(* stopped server is still there for a while, and a probe may miss what a  *)
(* node serves.                                                            *)
(*                                                                         *)
(* The units are Sparks.  What a unit and a group do when they are asked   *)
(* is in SparkNode and Groups; here they succeed, refuse or fail.          *)
(***************************************************************************)
EXTENDS Integers, FiniteSets, FiniteSetsExt

CONSTANTS
    Units, Groups, Names, Applies,
    Members,        \* [Groups -> SUBSET Units]: the cabled sets
    Models, Wide,   \* single-node models, multi-node models
    Catalog,        \* [Units -> SUBSET Models]
    Lone,           \* needs_empty_node
    Mem,            \* mem_fraction
    Holds,          \* the <<unit, model>> that non-preemptible leases may cover
    Edits,          \* the rows and groups that edit_units, edit_groups are given
    Books,          \* the cookbook files the program may start from
    MaxChanges,     \* how often the cookbook is written in a behaviour
    None

NoRow == {None}
Rows(u) == (SUBSET Catalog[u]) \union {NoRow}
State == [units : {r \in [Units -> SUBSET (Models \union {None})] :
                      \A u \in Units : r[u] \in Rows(u)},
          groups : [Groups -> Wide \union {None}]]

ASSUME CookbookAssumption ==
    /\ Members \in [Groups -> (SUBSET Units) \ {{}}] /\ Catalog \in [Units -> SUBSET Models]
    /\ Lone \subseteq Models /\ Mem \in [Models -> Nat] /\ Holds \subseteq Units \X Models
    /\ Edits \subseteq State /\ Books \subseteq [Names -> State \union {None}]
    /\ None \notin Models \union Wide \union Names \union State
    /\ Models \intersect Wide = {} /\ MaxChanges \in Nat

VARIABLES
    book,      \* _states: None under a name that no state has
    default,   \* the name that is marked, or None
    lanes,     \* LaneDefaults: what a boot loads, NoRow if nothing is said
    served,    \* the single-node models each node serves
    leaving,   \* those of them that were told to stop
    claim,     \* the model each group runs, or None
    shield,    \* the <<unit, model>> under a non-preemptible lease
    jobs,      \* the apply jobs
    snap,      \* the snapshot that is being taken
    disturbed, \* history: units where an apply was misled or others were at work
    changes    \* how often the cookbook was written

cookbookVars == <<book, default, lanes, changes, served, leaving, claim, shield, jobs, snap,
                  disturbed>>
fleet == <<served, leaving, claim, shield>>

\* One unit's share of an apply.  kept is what `skipped` reports of it.
Work == [at : {"none", "status", "unload", "stop", "wait", "load", "loading", "end"},
         extras : SUBSET (Models \union Wide), missing : SUBSET Models,
         freed : SUBSET (Models \union Wide), kept : SUBSET (Models \union Wide),
         cur : Models \union Wide \union {None}]
NoWork == [at |-> "none", extras |-> {}, missing |-> {}, freed |-> {}, kept |-> {},
           cur |-> None]

\* left: the groups a phase has still to look at
NoState == [units |-> [u \in Units |-> NoRow], groups |-> [g \in Groups |-> None]]
NoJob == [phase |-> "idle", want |-> NoState, unit |-> [u \in Units |-> NoWork],
          left |-> {}, failed |-> {}]
NoSnap == [name |-> None, rows |-> NoState.units]

Saved(n) == book[n] # None

CookbookInit ==
    /\ book \in Books /\ default \in {n \in Names : Saved(n)} \union {None}
    /\ lanes = NoState.units
    /\ served \in {s \in [Units -> SUBSET Models] : \A u \in Units : s[u] \subseteq Catalog[u]}
    /\ leaving = [u \in Units |-> {}] /\ claim = [g \in Groups |-> None]
    /\ shield = {} /\ jobs = [a \in Applies |-> NoJob] /\ snap = NoSnap /\ disturbed = {}
    /\ changes = 0

-----------------------------------------------------------------------------
(* The fleet, as status() shows it.                                        *)

Claims(u)  == {g \in Groups : claim[g] # None /\ u \in Members[g]}
Spanning(u) == {claim[g] : g \in Claims(u)}

\* a group's model is listed on its members' cards
Residents(u) == served[u] \union Spanning(u)
\* a node that misses its probe shows nothing but its claim
Statuses(u) == {Residents(u), Spanning(u)}

Desired(s) == {g \in Groups : s.groups[g] # None}
Reserved(s) == UNION {Members[g] : g \in Desired(s)}
\* the units an apply of s works on itself
Plain(s)   == {u \in Units : s.units[u] # NoRow} \ Reserved(s)

\* a unit's swap lock is held by an apply's unload or load
Swapping(u) == \E a \in Applies : jobs[a].unit[u].at \in {"stop", "loading"}

-----------------------------------------------------------------------------
(* Saved states.                                                           *)

Once == changes < MaxChanges /\ changes' = changes + 1

Store(n, s) == book' = [book EXCEPT ![n] = s]

SnapshotStarts(n) ==
    /\ snap.name = None /\ Once
    /\ snap' = [NoSnap EXCEPT !.name = n]
    /\ UNCHANGED <<book, default, lanes, jobs, disturbed>> /\ UNCHANGED fleet

\* mutant: a group's model is a row of its members
MutRecorded(u, seen) == seen
\* rows the group's claim accounts for are left out
Recorded(u, seen) == seen \ Spanning(u)

\* one unit after the other, each probed; a swap on it refuses the snapshot
SnapshotUnit(u) ==
    /\ snap.name # None /\ snap.rows[u] = NoRow
    /\ IF Swapping(u) THEN snap' = NoSnap
       ELSE \E seen \in Statuses(u) : snap' = [snap EXCEPT !.rows[u] = Recorded(u, seen)]
    /\ UNCHANGED <<changes, book, default, lanes, jobs, disturbed>> /\ UNCHANGED fleet

\* then the groups, from their claims
SnapshotEnds ==
    /\ snap.name # None /\ \A u \in Units : snap.rows[u] # NoRow
    /\ Store(snap.name, [units |-> snap.rows, groups |-> claim])
    /\ snap' = NoSnap
    /\ UNCHANGED <<changes, default, lanes, jobs, disturbed>> /\ UNCHANGED fleet

\* merge: the rows that are not given stay; nothing is asked of the groups
EditUnits(n) ==
    /\ Saved(n) /\ Once
    /\ \E e \in Edits :
          Store(n, [book[n] EXCEPT !.units =
                       [u \in Units |-> IF e.units[u] # NoRow THEN e.units[u] ELSE @[u]]])
    /\ UNCHANGED <<default, lanes, jobs, snap, disturbed>> /\ UNCHANGED fleet

\* refused when a member of any of the state's groups has models of its own
RowsAreClear(s) == \A u \in Reserved(s) : s.units[u] \in {NoRow, {}}

EditGroups(n) ==
    /\ Saved(n) /\ Once
    /\ \E g \in Groups, m \in Wide \union {None} :
          LET s == [book[n] EXCEPT !.groups[g] = m]
          IN  RowsAreClear(s) /\ Store(n, s)
    /\ UNCHANGED <<default, lanes, jobs, snap, disturbed>> /\ UNCHANGED fleet

Delete(n) ==
    /\ Saved(n) /\ Once
    /\ Store(n, None)
    /\ default' = IF default = n THEN None ELSE default
    /\ UNCHANGED <<lanes, jobs, snap, disturbed>> /\ UNCHANGED fleet

\* the boot's defaults follow the marked state, unit by unit that it names
SetDefault(n) ==
    /\ Saved(n) /\ Once
    /\ default' = n
    /\ lanes' = [u \in Units |-> IF book[n].units[u] # NoRow THEN book[n].units[u]
                                 ELSE lanes[u]]
    /\ UNCHANGED <<book, jobs, snap, disturbed>> /\ UNCHANGED fleet

BookStep == \/ \E n \in Names : \/ SnapshotStarts(n) \/ EditUnits(n) \/ EditGroups(n)
                                \/ Delete(n) \/ SetDefault(n)
            \/ \E u \in Units : SnapshotUnit(u)
            \/ SnapshotEnds

-----------------------------------------------------------------------------
(* Apply.                                                                  *)

Keep == UNCHANGED <<book, default, lanes, changes, snap>>
Set(a, j) == jobs' = [jobs EXCEPT ![a] = j]

\* mutant: applies are not kept apart
MutLive(a) == FALSE
Live(a) == jobs[a].phase \in {"teardown", "units", "span"}

Apply(a, n) ==
    /\ Saved(n) /\ jobs[a].phase = "idle" /\ ~\E b \in Applies : Live(b)
    /\ \A g, h \in Desired(book[n]) : g # h => Members[g] \intersect Members[h] = {}
    /\ Set(a, [NoJob EXCEPT !.phase = "teardown", !.want = book[n], !.left = Groups])
    /\ disturbed' = {}
    /\ Keep /\ UNCHANGED fleet

StartUnits(j) ==
    [j EXCEPT !.phase = "units",
              !.unit = [u \in Units |-> IF u \in Plain(j.want)
                                        THEN [NoWork EXCEPT !.at = "status"] ELSE NoWork]]

\* phase 1: a live group that is not wanted as it is
Unwanted(j, g) == claim[g] # None /\ claim[g] # j.want.groups[g]

TearDown(a) ==
    LET j == jobs[a]
    IN  /\ j.phase = "teardown"
        /\ \/ /\ j.left = {} /\ Set(a, StartUnits(j))
              /\ UNCHANGED claim
           \/ \E g \in j.left :
                 \/ /\ ~Unwanted(j, g) /\ UNCHANGED claim
                    /\ Set(a, [j EXCEPT !.left = @ \ {g}])
                 \/ /\ Unwanted(j, g) /\ claim' = [claim EXCEPT ![g] = None]
                    /\ Set(a, [j EXCEPT !.left = @ \ {g}])
                 \/ /\ Unwanted(j, g) /\ UNCHANGED claim
                    /\ Set(a, [j EXCEPT !.left = @ \ {g}, !.failed = @ \union {g}])
        /\ Keep /\ UNCHANGED <<served, leaving, shield, disturbed>>

\* phase 2, _apply_unit
SetUnit(a, u, w) == jobs' = [jobs EXCEPT ![a].unit[u] = w]
Misled(u, when) == disturbed' = IF when THEN disturbed \union {u} ELSE disturbed

\* mutant: a recipe that must own the node is loaded like any other
MutNeedsRebuild(missing, seen) == FALSE
NeedsRebuild(missing, seen) == missing \intersect Lone # {} /\ seen # {}

ReadStatus(a, u) ==
    LET w == jobs[a].unit[u]
        want == jobs[a].want.units[u]
    IN  /\ w.at = "status"
        /\ \E seen \in Statuses(u) :
              LET rebuild == NeedsRebuild(want \ seen, seen)
              IN  /\ SetUnit(a, u, [w EXCEPT !.at = "unload",
                                             !.extras = IF rebuild THEN seen ELSE seen \ want,
                                             !.missing = IF rebuild THEN want ELSE want \ seen])
                  /\ Misled(u, seen # Residents(u) \/ leaving[u] # {})
        /\ Keep /\ UNCHANGED fleet

NextExtra(a, u) ==
    LET w == jobs[a].unit[u]
    IN  /\ w.at = "unload"
        /\ \/ /\ w.extras = {}
              /\ SetUnit(a, u, [w EXCEPT !.at = IF w.freed = {} THEN "load" ELSE "wait"])
           \/ \E m \in w.extras :
                 SetUnit(a, u, IF <<u, m>> \in shield
                               THEN [w EXCEPT !.extras = @ \ {m}, !.kept = @ \union {m}]
                               ELSE [w EXCEPT !.extras = @ \ {m}, !.at = "stop", !.cur = m])
        /\ Keep /\ UNCHANGED fleet /\ UNCHANGED disturbed

\* unit.unload: a node in a group refuses, the lock may time out; either ends the unit
UnloadRaises(a, u) ==
    /\ jobs[a].unit[u].at = "stop"
    /\ jobs' = [jobs EXCEPT ![a].unit[u] = [NoWork EXCEPT !.at = "end"],
                            ![a].failed = @ \union {u}]
    /\ Keep /\ UNCHANGED fleet /\ UNCHANGED disturbed

\* its return says nothing: the server goes later, or has swallowed the stop
Unload(a, u) ==
    LET w == jobs[a].unit[u]
    IN  /\ w.at = "stop" /\ Claims(u) = {}
        /\ \/ leaving' = [leaving EXCEPT ![u] = @ \union ({w.cur} \intersect served[u])]
           \/ UNCHANGED leaving
        /\ SetUnit(a, u, [w EXCEPT !.at = "unload", !.freed = @ \union {w.cur}, !.cur = None])
        /\ Keep /\ UNCHANGED <<served, claim, shield, disturbed>>

\* mutant: what unload() returned is believed
MutSettled(seen, freed) == TRUE
Settled(seen, freed) == seen \intersect freed = {}

\* _wait_unloaded: polls until the models are gone, or evict_timeout_s is over, or the
\* probe raises
WaitUnloaded(a, u) ==
    LET w == jobs[a].unit[u]
    IN  /\ w.at = "wait"
        /\ \/ \E seen \in Statuses(u) :
                 Settled(seen, w.freed) /\ Misled(u, seen # Residents(u))
           \/ Misled(u, TRUE)
        /\ SetUnit(a, u, [w EXCEPT !.at = "load", !.freed = {}])
        /\ Keep /\ UNCHANGED fleet

\* mutant: the other way round
MutEarlier(m, n) == n \in Lone /\ m \notin Lone
\* boot_order_key
Earlier(m, n) == \/ m \in Lone /\ n \notin Lone
                 \/ (m \in Lone <=> n \in Lone) /\ Mem[m] > Mem[n]

NextLoad(a, u) ==
    LET w == jobs[a].unit[u]
    IN  /\ w.at = "load"
        /\ \/ w.missing = {} /\ SetUnit(a, u, [w EXCEPT !.at = "end"])
           \/ \E m \in w.missing :
                 /\ \A n \in w.missing : ~Earlier(n, m)
                 /\ SetUnit(a, u, [w EXCEPT !.at = "loading", !.missing = @ \ {m},
                                            !.cur = m])
        /\ Keep /\ UNCHANGED fleet /\ UNCHANGED disturbed

\* the unit's own job: the model is there already, or it can be launched
Launches(u, m) == Claims(u) = {} /\ (m \in Lone => served[u] = {})

Loaded(a, u) ==
    LET w == jobs[a].unit[u]
    IN  /\ w.at = "loading"
        /\ w.cur \in served[u] \/ Launches(u, w.cur)
        /\ served' = [served EXCEPT ![u] = @ \union {w.cur}]
        /\ SetUnit(a, u, [w EXCEPT !.at = "load", !.cur = None])
        /\ Keep /\ UNCHANGED <<leaving, claim, shield, disturbed>>

\* one model that fails does not keep the others from loading
LoadFails(a, u) ==
    /\ jobs[a].unit[u].at = "loading"
    /\ jobs' = [jobs EXCEPT ![a].unit[u] = [@ EXCEPT !.at = "load", !.cur = None],
                            ![a].failed = @ \union {u}]
    /\ Keep /\ UNCHANGED fleet /\ UNCHANGED disturbed

UnitStep(a, u) ==
    \/ ReadStatus(a, u) \/ NextExtra(a, u) \/ Unload(a, u) \/ UnloadRaises(a, u)
    \/ WaitUnloaded(a, u) \/ NextLoad(a, u) \/ Loaded(a, u) \/ LoadFails(a, u)

Gathered(a) ==
    /\ jobs[a].phase = "units" /\ \A u \in Units : jobs[a].unit[u].at \in {"none", "end"}
    /\ Set(a, [jobs[a] EXCEPT !.phase = "span", !.left = Desired(jobs[a].want)])
    /\ Keep /\ UNCHANGED fleet /\ UNCHANGED disturbed

\* phase 3: a group's load frees its members whole, then claims them, or fails on the way
Span(a) ==
    LET j == jobs[a]
        Take(g, freed) == served' = [u \in Units |-> IF u \in Members[g] /\ freed THEN {}
                                                     ELSE served[u]]
        Rest(g) == [j EXCEPT !.left = @ \ {g}]
        Alone(g) == \A u \in Members[g] : Claims(u) \subseteq {g}
    IN  /\ j.phase = "span"
        /\ \E g \in j.left :
              \/ /\ claim[g] = j.want.groups[g] /\ UNCHANGED <<served, claim>>
                 /\ Set(a, Rest(g))
              \/ /\ claim[g] # j.want.groups[g] /\ Alone(g) /\ Take(g, TRUE)
                 /\ claim' = [claim EXCEPT ![g] = j.want.groups[g]] /\ Set(a, Rest(g))
              \/ /\ claim[g] # j.want.groups[g] /\ \E freed \in BOOLEAN : Take(g, freed)
                 /\ claim' \in {claim, [claim EXCEPT ![g] = None]}
                 /\ Set(a, [Rest(g) EXCEPT !.failed = @ \union {g}])
        /\ leaving' = [u \in Units |-> leaving[u] \intersect served'[u]]
        /\ Keep /\ UNCHANGED <<shield, disturbed>>

\* the job ends; what it reports goes with it
Complete(a) ==
    /\ jobs[a].phase = "span" /\ jobs[a].left = {}
    /\ Set(a, NoJob) /\ disturbed' = {}
    /\ Keep /\ UNCHANGED fleet

ApplyStep ==
    \E a \in Applies :
        \/ \E n \in Names : Apply(a, n)
        \/ TearDown(a) \/ (\E u \in Units : UnitStep(a, u)) \/ Gathered(a) \/ Span(a)
        \/ Complete(a)

-----------------------------------------------------------------------------
(* Everybody else.                                                         *)

\* a server that was told to stop is gone
Departs == \E u \in Units, m \in Models :
    /\ m \in leaving[u]
    /\ served' = [served EXCEPT ![u] = @ \ {m}] /\ leaving' = [leaving EXCEPT ![u] = @ \ {m}]
    /\ UNCHANGED <<claim, shield, disturbed>>

OthersLoad == \E u \in Units, m \in Models :
    /\ m \in Catalog[u] \ served[u] /\ Launches(u, m)
    /\ served' = [served EXCEPT ![u] = @ \union {m}]
    /\ disturbed' = disturbed \union {u}
    /\ UNCHANGED <<leaving, claim, shield>>

OthersUnload == \E u \in Units, m \in Models :
    /\ m \in served[u] \ leaving[u] /\ leaving' = [leaving EXCEPT ![u] = @ \union {m}]
    /\ disturbed' = disturbed \union {u}
    /\ UNCHANGED <<served, claim, shield>>

OthersSpan == \E g \in Groups, m \in Wide \union {None} :
    /\ m # claim[g]
    /\ m # None => \A u \in Members[g] : Claims(u) \subseteq {g}
    /\ claim' = [claim EXCEPT ![g] = m]
    /\ served' = [u \in Units |-> IF u \in Members[g] THEN {} ELSE served[u]]
    /\ leaving' = [u \in Units |-> leaving[u] \intersect served'[u]]
    /\ disturbed' = disturbed \union Members[g]
    /\ UNCHANGED shield

LeaseStep == \E h \in Holds :
    /\ shield' = IF h \in shield THEN shield \ {h} ELSE shield \union {h}
    /\ UNCHANGED <<served, leaving, claim, disturbed>>

OtherStep == /\ Departs \/ OthersLoad \/ OthersUnload \/ OthersSpan \/ LeaseStep
             /\ UNCHANGED <<book, default, lanes, changes, jobs, snap>>

CookbookNext == BookStep \/ ApplyStep \/ OtherStep

CookbookSpec == CookbookInit /\ [][CookbookNext]_cookbookVars

-----------------------------------------------------------------------------
(* Properties.                                                             *)

\* Well-formed: every row is of models its unit can load, never a group's ("a member-id
\* row for a spanning model would be unapplyable"), the marked state exists, and no node
\* is in two groups.
CookbookTypeOK ==
    /\ book \in [Names -> State \union {None}]
    /\ default # None => Saved(default)
    /\ \A a \in Applies : /\ jobs[a].want \in State
                          /\ \A u \in Units : jobs[a].unit[u] \in Work
    /\ \A u \in Units : /\ served[u] \subseteq Catalog[u] /\ leaving[u] \subseteq served[u]
                        /\ Cardinality(Claims(u)) < 2

\* "All the models, and only those models": where an apply reports no failure, and neither
\* a probe nor anybody else interfered, the units serve what the state gives them and what
\* it reports as kept, and the groups run what it gives them.
AppliedMatches ==
    [][\A a \in Applies : jobs[a].phase = "span" /\ jobs'[a].phase = "idle" =>
         LET j == jobs[a]
         IN  /\ \A u \in Plain(j.want) \ (j.failed \union disturbed) :
                   /\ j.want.units[u] \subseteq served[u]
                   /\ served[u] \subseteq j.want.units[u] \union j.unit[u].kept
             /\ \A g \in Groups \ j.failed :
                   Members[g] \intersect disturbed = {} => claim[g] = j.want.groups[g]]_cookbookVars

\* A recipe that kills its neighbours is dispatched by an apply to an empty node, or to
\* one where only its like were launched before it, unless a lease keeps a model there or
\* somebody interfered.
LoneGoesFirst ==
    [][\A a \in Applies, u \in Units :
         LET w == jobs[a].unit[u]
         IN  /\ w.at = "load" /\ jobs'[a].unit[u].at = "loading"
             /\ jobs'[a].unit[u].cur \in Lone
             /\ u \notin disturbed /\ w.kept = {}
             => served[u] \subseteq Lone]_cookbookVars
=============================================================================
