------------------------------- MODULE Groups -------------------------------
(***************************************************************************)
(* Models that span several Spark nodes: SparkGroup of                     *)
(* src/llmconfig/spark_group.py and the claims of GroupState               *)
(* (group_state.py), beside the members' own loads and unloads             *)
(* (SparkUnit, spark_unit.py).                                             *)
(*                                                                         *)
(* A deployment of a group has a rank on every member, but only its head   *)
(* answers, on the head's base port.  What keeps others off the members    *)
(* are the claim of the group and, during a swap, the members' locks.      *)
(* Claims live in memory: status() makes them anew when it finds the head  *)
(* serving a multi-node model that its group has no claim for.             *)
(*                                                                         *)
(* Each await of a swap ends a step of its task; the probe of a member and *)
(* the stop of what it shows are one step.  A lock is its owner: any task  *)
(* that waits may be the next one, or give up while it is locked.  A node  *)
(* has one model of its own here, and whether it may be evicted (its       *)
(* lease, its activity) is left open.                                      *)
(***************************************************************************)
EXTENDS Integers, Sequences, FiniteSets, Functions

CONSTANTS
    Nodes,          \* Spark units
    Groups,         \* the groups that orch.units knows, also after a restart
    Members,        \* group -> its members, in the order of orch.units
    Models,         \* the models of the cluster catalog
    Tasks,          \* the tasks that carry requests
    Requests,       \* the requests they carry
    Running,        \* the deployments that may be up in the beginning
    Solos,          \* the nodes that may have a model of their own in the beginning
    BootOrder,      \* the order in which a restart looks at the groups
    MaxRestarts,    \* bound on the restarts of the control plane
    ProbesFail,     \* whether a probe of a live server may fail
    Unnamed, None

GroupRequest == [unit : Groups, kind : {"load", "unload", "evict"},
                 model : Models \union {Unnamed}, force : BOOLEAN]
\* wide: a load of a recipe with tp > 1, an unload that names no model;
\* default: a load that the boot autoload fires
NodeRequest  == [unit : Nodes, kind : {"load", "unload"}, wide : BOOLEAN,
                 default : BOOLEAN]
Deployment   == [group : Groups, model : Models, by : Tasks \union {None}, up : BOOLEAN]

ASSUME GroupsAssumption ==
    /\ IsFiniteSet(Nodes) /\ IsFiniteSet(Tasks)
    /\ Nodes \intersect Groups = {} /\ None \notin Tasks
    /\ {None, Unnamed} \intersect Models = {}
    /\ Members \in [Groups -> Seq(Nodes)]
    /\ \A g \in Groups : Len(Members[g]) >= 2 /\ IsInjective(Members[g])
    /\ \E pos \in [Nodes -> 1..Cardinality(Nodes)] :   \* the order of orch.units
          \A g \in Groups : \A i, j \in 1..Len(Members[g]) :
             i < j => pos[Members[g][i]] < pos[Members[g][j]]
    /\ Requests \subseteq GroupRequest \union NodeRequest
    /\ \A r \in Requests : r.unit \in Groups =>
          IF r.kind = "load" THEN r.model \in Models   \* whatever may be unloaded may be named
          ELSE r.kind = "unload" => \A m \in Models : [r EXCEPT !.model = m] \in Requests
    /\ Running \subseteq Deployment
    /\ \A d \in Running : d.up /\ d.by = None
    /\ Solos \subseteq Nodes
    /\ BootOrder \in Seq(Groups)
    /\ MaxRestarts \in Nat /\ ProbesFail \in BOOLEAN

VARIABLES
    owner,     \* unit -> the task that holds its swap lock
    pc,        \* where each task is
    req,       \* the request it carries
    at,        \* the member that a load is freeing
    claims,    \* GroupState._claims: the model of each group's live claim
    deploys,   \* the deployments whose ranks run
    solo,      \* the nodes that serve a model of their own
    answers,   \* what status() calls have read and not yet acted upon
    booted,    \* how far the reclaim after a restart has come
    restarts,
    late,      \* history: groups claimed by status() while a swap was under way
    fooled     \* history: loads that looked at the head and did not see what runs there

worldVars == <<deploys, solo>>
bootVars  == <<booted, restarts>>
histVars  == <<late, fooled>>
vars == <<owner, pc, req, at, claims, worldVars, answers, bootVars, histVars>>

On(g) == Range(Members[g])
HeadOf(g) == Members[g][1]
ClaimedGroups(n) == {g \in Groups : claims[g] # None /\ n \in On(g)}
\* GroupState.claim refuses: a member belongs to the claim of another group
Foreign(g) == \E n \in On(g) : ClaimedGroups(n) \ {g} # {}

Ranks(n) == {d \in deploys : n \in On(d.group)}
\* what answers on the base port of a node, besides the node's own model
Port(n) == {d.model : d \in {e \in deploys : e.up /\ HeadOf(e.group) = n}}
\* what a probe finds there
Sees(n) == {Port(n)} \union IF ProbesFail THEN {{}} ELSE {}

IsGroup(t) == req[t].unit \in Groups
Waiting == {"asks", "members"}
Inside  == {"held", "stop", "verify", "evict", "launch", "ready", "unload", "clear",
            "nodeLaunch"}
Over    == {"done", "failed"}

Init ==
    /\ owner = [l \in Nodes \union Groups |-> None]
    /\ pc = [t \in Tasks |-> "asks"]
    /\ req \in [Tasks -> Requests]
    /\ at = [t \in Tasks |-> 0]
    /\ deploys \in {{}} \union {{d} : d \in Running}
    /\ claims \in {[g \in Groups |-> LET ds == {d \in deploys : d.group = g}
                                     IN  IF ds = {} THEN None
                                         ELSE (CHOOSE d \in ds : TRUE).model]}
    /\ solo \in {S \in SUBSET Solos : \A n \in S : Ranks(n) = {}}
    /\ answers = {}
    /\ booted = Len(BootOrder) + 1 /\ restarts = 0
    /\ late = {} /\ fooled = {}

-----------------------------------------------------------------------------
(* Swap locks.                                                             *)

\* mutant: the members of a long group are locked head last
MutLockOrder(g) == IF Len(Members[g]) > 2
                   THEN [i \in DOMAIN Members[g] |-> Members[g][Len(Members[g]) + 1 - i]]
                   ELSE Members[g]
LockOrder(g) == Members[g]

Owned(t) == {l \in Nodes \union Groups : owner[l] = t}

\* the lock that a task waits for: its unit's own, or the next member's
NextLock(t) ==
    IF pc[t] = "asks" THEN req[t].unit
    ELSE LockOrder(req[t].unit)[Cardinality(Owned(t) \intersect Nodes) + 1]

Goto(t, where) == pc' = [pc EXCEPT ![t] = where]

\* the finally blocks: every lock that was taken is released
Finish(t, how) ==
    /\ Goto(t, how)
    /\ owner' = [l \in Nodes \union Groups |-> IF owner[l] = t THEN None ELSE owner[l]]
    /\ at' = [at EXCEPT ![t] = 0]
    /\ UNCHANGED req

GoOn(t, where) == Goto(t, where) /\ UNCHANGED <<owner, req, at>>

\* the autoload comes after the reclaim
MayAsk(t) == ~IsGroup(t) /\ req[t].default => booted > Len(BootOrder)

\* mutant: the locks of the members are not taken
MutNeedsMembers(t) == FALSE
NeedsMembers(t) == IsGroup(t)

Lock(t) ==
    /\ pc[t] \in Waiting /\ MayAsk(t)
    /\ owner[NextLock(t)] = None
    /\ owner' = [owner EXCEPT ![NextLock(t)] = t]
    /\ Goto(t, IF NeedsMembers(t) /\ ~(On(req[t].unit) \subseteq Owned(t) \union {NextLock(t)})
               THEN "members" ELSE "held")
    /\ UNCHANGED <<req, at, claims, worldVars, answers, bootVars, histVars>>

\* a load that finds a member claimed fails fast, before it takes the members' locks
LockRefused(t) ==
    /\ pc[t] = "asks" /\ IsGroup(t) /\ req[t].kind = "load"
    /\ owner[req[t].unit] = None /\ Foreign(req[t].unit)
    /\ Finish(t, "failed")
    /\ UNCHANGED <<claims, worldVars, answers, bootVars, histVars>>

\* swap_wait_timeout_s is over, for the unit's lock or for a member's
TimeOut(t) ==
    /\ pc[t] \in Waiting /\ MayAsk(t)
    /\ owner[NextLock(t)] # None
    /\ Finish(t, "failed")
    /\ UNCHANGED <<claims, worldVars, answers, bootVars, histVars>>

-----------------------------------------------------------------------------
(* A load of a group, its locks held.                                      *)

GroupAt(t, kind, where) == IsGroup(t) /\ req[t].kind = kind /\ pc[t] = where

\* asked a second time, after the wait for the members' locks
TakenMeanwhile(g) == Foreign(g)

\* the claims once more, then: served already, a reload, or a first load
LoadConflict(t) ==
    /\ GroupAt(t, "load", "held") /\ TakenMeanwhile(req[t].unit)
    /\ Finish(t, "failed")
    /\ UNCHANGED <<claims, worldVars, answers, bootVars, histVars>>
LoadServed(t) ==
    /\ GroupAt(t, "load", "held") /\ ~TakenMeanwhile(req[t].unit)
    /\ claims[req[t].unit] = req[t].model /\ ~req[t].force
    /\ Finish(t, "done")
    /\ UNCHANGED <<claims, worldVars, answers, bootVars, histVars>>
LoadReload(t) ==
    /\ GroupAt(t, "load", "held") /\ ~TakenMeanwhile(req[t].unit)
    /\ claims[req[t].unit] # None
    /\ req[t].force \/ claims[req[t].unit] # req[t].model
    /\ GoOn(t, "stop")
    /\ UNCHANGED <<claims, worldVars, answers, bootVars, histVars>>
LoadFresh(t) ==
    /\ GroupAt(t, "load", "held") /\ ~TakenMeanwhile(req[t].unit)
    /\ claims[req[t].unit] = None
    /\ Goto(t, "evict") /\ at' = [at EXCEPT ![t] = 1]
    /\ UNCHANGED <<owner, req, claims, worldVars, answers, bootVars, histVars>>

\* _stop_current: one job of that recipe with a rank on a member, and all its ranks --
\* or nothing, because there is none, or because the stop fails silently
StopJob(g, model) ==
    /\ \/ UNCHANGED deploys
       \/ \E d \in deploys :
             /\ d.model = model /\ On(d.group) \intersect On(g) # {}
             /\ deploys' = deploys \ {d}
    /\ UNCHANGED solo
    /\ claims' = [claims EXCEPT ![g] = None]
    /\ late' = late \ {g}

StopOld(t) ==
    /\ GroupAt(t, "load", "stop")
    /\ StopJob(req[t].unit, claims[req[t].unit])
    /\ GoOn(t, "verify")
    /\ UNCHANGED <<answers, bootVars, fooled>>

\* a look at the head that misses what is, or will be, there
Miss(t, g, seen) ==
    fooled' = IF seen = Port(HeadOf(g))
                 /\ \A d \in deploys : HeadOf(d.group) = HeadOf(g) => d.up
              THEN fooled ELSE fooled \union {t}

\* verify_gone: 15 probes, or up to the first one that finds nothing
VerifyGone(t) ==
    /\ GroupAt(t, "load", "verify")
    /\ \E seen \in Sees(HeadOf(req[t].unit)) :
          /\ seen = {}
          /\ Miss(t, req[t].unit, seen)
    /\ Goto(t, "evict") /\ at' = [at EXCEPT ![t] = 1]
    /\ UNCHANGED <<owner, req, claims, worldVars, answers, bootVars, late>>
StillThere(t) ==
    /\ GroupAt(t, "load", "verify")
    /\ Port(HeadOf(req[t].unit)) # {}
    /\ Finish(t, "failed")
    /\ UNCHANGED <<claims, worldVars, answers, bootVars, histVars>>

NextMember(t) ==
    /\ at' = [at EXCEPT ![t] = IF @ = Len(Members[req[t].unit]) THEN 0 ELSE @ + 1]
    /\ Goto(t, IF at[t] = Len(Members[req[t].unit]) THEN "launch" ELSE "evict")
    /\ UNCHANGED <<owner, req>>

\* mutant: what the node's catalog does not know is no victim
MutStranger(seen) == FALSE
\* a victim that the node's catalog does not know is a conflict
Stranger(seen) == seen # {}

\* free one member: its own model is stopped -- or not, whatever the stop reports --
\* or has become busy or leased since
EvictMember(t) ==
    /\ GroupAt(t, "load", "evict")
    /\ LET g == req[t].unit
           n == Members[g][at[t]]
       IN  \E seen \in Sees(n) :
              /\ IF n = HeadOf(g) THEN Miss(t, g, seen) ELSE UNCHANGED fooled
              /\ IF Stranger(seen)
                 THEN Finish(t, "failed") /\ UNCHANGED solo
                 ELSE \/ NextMember(t) /\ solo' \in {solo, solo \ {n}}
                      \/ n \in solo /\ Finish(t, "failed") /\ UNCHANGED solo
    /\ UNCHANGED <<claims, deploys, answers, bootVars, late>>

Launched(t) == [group |-> req[t].unit, model |-> req[t].model, by |-> t, up |-> FALSE]

\* sparkrun run: the ranks are started, and the job may yet be reported as failed
Launch(t) ==
    /\ GroupAt(t, "load", "launch")
    /\ deploys' = deploys \union {Launched(t)}
    /\ GoOn(t, "ready") \/ Finish(t, "failed")
    /\ UNCHANGED <<claims, solo, answers, bootVars, histVars>>
LaunchFails(t) ==
    /\ GroupAt(t, "load", "launch")
    /\ Finish(t, "failed")
    /\ UNCHANGED <<claims, worldVars, answers, bootVars, histVars>>

\* wait_ready, and then the claim -- which raises if a member is another group's
Ready(t) ==
    LET g == req[t].unit
    IN  /\ GroupAt(t, "load", "ready")
        /\ req[t].model \in Port(HeadOf(g))
        /\ IF Foreign(g)
           THEN Finish(t, "failed") /\ UNCHANGED <<claims, late>>
           ELSE /\ claims' = [claims EXCEPT ![g] = req[t].model]
                /\ late' = late \ {g}
                /\ Finish(t, "done")
        /\ UNCHANGED <<worldVars, answers, bootVars, fooled>>
NeverReady(t) ==
    /\ GroupAt(t, "load", "ready")
    /\ Finish(t, "failed")
    /\ UNCHANGED <<claims, worldVars, answers, bootVars, histVars>>

LoadStep(t) ==
    \/ LoadConflict(t) \/ LoadServed(t) \/ LoadReload(t) \/ LoadFresh(t)
    \/ StopOld(t) \/ VerifyGone(t) \/ StillThere(t) \/ EvictMember(t)
    \/ Launch(t) \/ LaunchFails(t) \/ Ready(t) \/ NeverReady(t)

-----------------------------------------------------------------------------
(* unload() and placement_evict() of a group, the locks held.  unload()    *)
(* ends with a status(), which is one of those below.                      *)

\* the claim says what to stop, or the request, or what the head answers, if it does
Named(g, r) == IF claims[g] # None THEN {claims[g]}
               ELSE IF r.model # Unnamed THEN {r.model}
               ELSE UNION {IF seen = {} THEN {Unnamed} ELSE seen : seen \in Sees(HeadOf(g))}

UnloadNames(t) ==
    /\ GroupAt(t, "unload", "held")
    /\ \E m \in Named(req[t].unit, req[t]) : req' = [req EXCEPT ![t].model = m]
    /\ Goto(t, "unload")
    /\ UNCHANGED <<owner, at, claims, worldVars, answers, bootVars, histVars>>

\* the claim is released in any case, one that status() has made meanwhile, too
Unload(t) ==
    /\ GroupAt(t, "unload", "unload")
    /\ StopJob(req[t].unit, req[t].model)
    /\ Finish(t, "done")
    /\ UNCHANGED <<answers, bootVars, fooled>>

\* gone already; refused, because it is leased or busy again; or torn down
EvictNothing(t) ==
    /\ GroupAt(t, "evict", "held") /\ claims[req[t].unit] = None
    /\ Finish(t, "done")
    /\ UNCHANGED <<claims, worldVars, answers, bootVars, histVars>>
EvictRefused(t) ==
    /\ GroupAt(t, "evict", "held") /\ claims[req[t].unit] # None
    /\ Finish(t, "failed")
    /\ UNCHANGED <<claims, worldVars, answers, bootVars, histVars>>
Evict(t) ==
    /\ GroupAt(t, "evict", "held") /\ claims[req[t].unit] # None
    /\ StopJob(req[t].unit, claims[req[t].unit])
    /\ Finish(t, "done")
    /\ UNCHANGED <<answers, bootVars, fooled>>

GroupStep(t) == \/ LoadStep(t) \/ UnloadNames(t) \/ Unload(t)
                \/ EvictNothing(t) \/ EvictRefused(t) \/ Evict(t)

-----------------------------------------------------------------------------
(* A member's own load and unload, its lock held.                          *)

NodeAt(t, kind, where) == ~IsGroup(t) /\ req[t].kind = kind /\ pc[t] = where

\* mutant: the node does not ask for the claims of groups
MutMayAdmit(n) == TRUE
\* _admit: a claim owns the whole node, also when its slots read empty
MayAdmit(n) == ClaimedGroups(n) = {}

Admit(t) ==
    IF MayAdmit(req[t].unit) THEN GoOn(t, "nodeLaunch") ELSE Finish(t, "failed")

\* the slots are probed: its model is there already, others have to go, it is refused
\* beside them, or goes in (beside what a probe has missed, too)
NodeLoad(t) ==
    LET n == req[t].unit
    IN  /\ NodeAt(t, "load", "held")
        /\ \E seen \in Sees(n) :
              \/ n \in solo /\ Finish(t, "done")
              \/ req[t].wide /\ (n \in solo \/ seen # {}) /\ GoOn(t, "clear")
              \/ ~req[t].wide /\ n \notin solo /\ seen # {} /\ Finish(t, "failed")
              \/ seen = {} /\ (n \notin solo \/ ProbesFail) /\ Admit(t)
        /\ UNCHANGED <<claims, worldVars, answers, bootVars, histVars>>

\* stop: everything on the node, a rank of a deployment included -- or nothing
ClearNode(n) ==
    \/ UNCHANGED worldVars
    \/ solo' = solo \ {n} /\ deploys' = deploys \ Ranks(n)

NodeClear(t) ==
    /\ NodeAt(t, "load", "clear")
    /\ ClearNode(req[t].unit)
    /\ Admit(t)
    /\ UNCHANGED <<claims, answers, bootVars, histVars>>

\* run_recipe and wait_ready; a process that comes up late comes up all the same
NodeLaunch(t) ==
    LET n == req[t].unit
    IN  /\ NodeAt(t, "load", "nodeLaunch")
        /\ \/ /\ Port(n) = {} /\ solo' = solo \union {n}
              /\ Finish(t, "done") \/ Finish(t, "failed")
           \/ UNCHANGED solo /\ Finish(t, "failed")
        /\ UNCHANGED <<claims, deploys, answers, bootVars, histVars>>

NodeUnload(t) ==
    /\ NodeAt(t, "unload", "held")
    /\ IF ClaimedGroups(req[t].unit) # {} THEN Finish(t, "failed") ELSE GoOn(t, "clear")
    /\ UNCHANGED <<claims, worldVars, answers, bootVars, histVars>>
NodeUnloads(t) ==
    LET n == req[t].unit
    IN  /\ NodeAt(t, "unload", "clear")
        /\ IF req[t].wide THEN ClearNode(n)
           ELSE solo' \in {solo, solo \ {n}} /\ UNCHANGED deploys
        /\ Finish(t, "done")
        /\ UNCHANGED <<claims, answers, bootVars, histVars>>

NodeStep(t) ==
    NodeLoad(t) \/ NodeClear(t) \/ NodeLaunch(t) \/ NodeUnload(t) \/ NodeUnloads(t)

-----------------------------------------------------------------------------
(* status() of a group, at any time: what the head answers, and then the   *)
(* claim for it.                                                           *)

Ask(g) ==
    /\ \E m \in Port(HeadOf(g)) : answers' = answers \union {<<g, m>>}
    /\ UNCHANGED <<owner, pc, req, at, claims, worldVars, bootVars, histVars>>

Reclaims(g) == claims[g] = None /\ ~Foreign(g)

Reclaim(g, m) ==
    IF Reclaims(g)
    THEN /\ claims' = [claims EXCEPT ![g] = m]
         /\ late' = IF \E t \in Tasks : pc[t] \in Inside THEN late \union {g} ELSE late
    ELSE UNCHANGED <<claims, late>>

Judge(g, m) ==
    /\ <<g, m>> \in answers
    /\ answers' = answers \ {<<g, m>>}
    /\ Reclaim(g, m)
    /\ UNCHANGED <<owner, pc, req, at, worldVars, bootVars, fooled>>

StatusStep ==
    \E g \in Groups : Ask(g) \/ \E m \in Models : Judge(g, m)

\* The process ends and starts again: the deployments go on, the rest is forgotten.
Restart ==
    /\ restarts < MaxRestarts
    /\ restarts' = restarts + 1 /\ booted' = 1
    /\ owner' = [l \in Nodes \union Groups |-> None]
    /\ pc' = [t \in Tasks |-> IF pc[t] \in {"asks"} \union Over THEN pc[t] ELSE "failed"]
    /\ at' = [t \in Tasks |-> 0]
    /\ claims' = [g \in Groups |-> None]
    /\ answers' = {} /\ late' = {}
    /\ UNCHANGED <<req, worldVars, fooled>>

\* _reclaim_groups asks one group after the other, before the autoload
BootReclaim ==
    /\ booted <= Len(BootOrder)
    /\ booted' = booted + 1
    /\ LET g == BootOrder[booted]
       IN  \E seen \in Sees(HeadOf(g)) :
              IF seen = {} THEN UNCHANGED <<claims, late>>
              ELSE \E m \in seen : Reclaim(g, m)
    /\ UNCHANGED <<owner, pc, req, at, worldVars, answers, restarts, fooled>>

-----------------------------------------------------------------------------
(* Deployments come up, if the head's port is free, and die.               *)

ComesUp(d) ==
    /\ ~d.up /\ Port(HeadOf(d.group)) = {} /\ HeadOf(d.group) \notin solo
    /\ deploys' = (deploys \ {d}) \union {[d EXCEPT !.up = TRUE]}
    /\ UNCHANGED <<owner, pc, req, at, claims, solo, answers, bootVars, histVars>>
Dies(d) ==
    /\ deploys' = deploys \ {d}
    /\ UNCHANGED <<owner, pc, req, at, claims, solo, answers, bootVars, histVars>>

WorldStep == \E d \in deploys : ComesUp(d) \/ Dies(d)

TaskStep(t) == Lock(t) \/ LockRefused(t) \/ TimeOut(t) \/ GroupStep(t) \/ NodeStep(t)

Next == \/ \E t \in Tasks : TaskStep(t)
        \/ StatusStep \/ Restart \/ BootReclaim \/ WorldStep

Spec == Init /\ [][Next]_vars

-----------------------------------------------------------------------------
(* Properties.                                                             *)

\* A swap of a group holds the group's lock and, from its members in order, a prefix;
\* past the wait all of them.
TypeOK ==
    /\ owner \in [Nodes \union Groups -> Tasks \union {None}]
    /\ pc \in [Tasks -> Waiting \union Inside \union Over] /\ req \in [Tasks -> Requests]
    /\ claims \in [Groups -> Models \union {None}]
    /\ deploys \subseteq Deployment /\ solo \subseteq Nodes
    /\ answers \subseteq Groups \X Models
    /\ \A t \in Tasks :
          /\ pc[t] \in Over \union {"asks"} => Owned(t) = {}
          /\ pc[t] = "members" => req[t].unit \in Owned(t)
          /\ pc[t] \in Inside =>
                Owned(t) = {req[t].unit} \union IF IsGroup(t) THEN On(req[t].unit) ELSE {}
          /\ at[t] # 0 <=> pc[t] = "evict"

BlockedBy(t) == IF pc[t] \in Waiting THEN owner[NextLock(t)] ELSE None

\* Groups that share nodes, and the nodes' own swaps, never wait for one another in a
\* circle: every set of tasks has one that none of the others blocks ("two overlapping
\* group loads queue instead of deadlocking").
NoCircularWait ==
    \A S \in SUBSET Tasks : S # {} => \E t \in S : BlockedBy(t) \notin S

\* the nodes on which a step of t starts something, or stops everything
Hits(t) ==
    IF pc'[t] = pc[t] THEN {}
    ELSE IF pc[t] = "launch" THEN On(req[t].unit)
    ELSE IF pc[t] = "nodeLaunch" THEN {req[t].unit}
    ELSE IF pc[t] = "clear" /\ req[t].wide /\ req[t].kind = "unload" THEN {req[t].unit}
    ELSE {}

\* Nothing is launched over, and no unload of a node stops, a rank of a deployment that
\* its group has claimed, though the rank itself does not answer -- unless status()
\* made the claim when the swap was already under way.
ClaimedRanksAreSpared ==
    [][\A t \in Tasks : \A n \in Hits(t) : \A d \in Ranks(n) :
          claims[d.group] = None \/ d.group \in late]_vars

\* A load reports success for the ranks it has launched itself, not for older ones that
\* still answer on the head ("a reload that never happened") -- unless the probes that
\* look for them failed, or they came up later.
SuccessIsOwnLaunch ==
    [][\A t \in Tasks :
          pc[t] = "ready" /\ pc'[t] = "done" =>
             \/ t \in fooled
             \/ \E d \in deploys : d.up /\ d.by = t]_vars
=============================================================================
