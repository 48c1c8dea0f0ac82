------------------------------- MODULE Gateway -------------------------------
(***************************************************************************)
(* Requests on their way through the control plane: the gateway            *)
(* (src/llmconfig/openai_gateway.py), the status sweep that placement      *)
(* ranks on (Placer of placement.py), the job table (jobs.py) and the      *)
(* queues behind the units' swap locks.                                    *)
(*                                                                         *)
(* One event loop: what a handler does between two awaits is one step.     *)
(* What a load does to its unit is modules Lane and SparkNode; here it is  *)
(* a job that waits, stops its victims and ends one way or another.  Also  *)
(* left open here: which models were used lately and which units the       *)
(* lease gate refuses (modules Leases and Claims).                         *)
(***************************************************************************)
EXTENDS Placement, FiniteSetsExt

CONSTANTS
    Units, Sparks,      \* Sparks \subseteq Units: several slots; the others are GPU lanes
    Order,              \* settings.units()
    Ports,              \* [Units -> slots of the unit]; a lane has one
    Models, Mem,        \* Mem: mem_fraction
    Requests,           \* the requests that are served side by side
    Asked,              \* what they may ask for
    Start,              \* what may run at first
    Loads, Unloads,     \* what others may load and unload: pairs of unit and model
    MaxJobs, MaxOthers, \* bounds: the jobs of one behaviour; others load among the first
    MaxMoves,           \* bound on commits and REST unloads, when the next unload ends
    MaxHistory,         \* _MAX_HISTORY of jobs.py
    ProbesFail,         \* whether a live server may miss a probe
    Shaky,              \* the units whose status() may raise
    None

Ask == [model : Models, kind : {"stream", "chat", "pooling", "rest"}, pin : Units \union {None},
        wl : Workload]
NoJob == 0

ASSUME GatewayAssumption ==
    /\ Start \subseteq {f \in [Units -> UNION {[P -> Models] : P \in UNION {SUBSET Ports[u] : u \in Units}}] :
                           \A u \in Units : DOMAIN f[u] \subseteq Ports[u] /\ IsInjective(f[u])}
    /\ Loads \union Unloads \subseteq Units \X Models
    /\ Sparks \union Shaky \subseteq Units /\ Asked \subseteq Ask /\ ProbesFail \in BOOLEAN
    /\ Order \in [Units -> Nat] /\ IsInjective(Order) /\ Mem \in [Models -> 1..Headroom]
    /\ Ports \in [Units -> SUBSET (Nat \ {0})] /\ None \notin Units \union Models
    /\ IsFiniteSet(Units) /\ \A u \in Units : IsFiniteSet(Ports[u])
    /\ {MaxJobs, MaxOthers, MaxMoves, MaxHistory} \subseteq Nat /\ MaxHistory > 0

VARIABLES
    serves,    \* what really runs: unit -> port -> model
    jobs,      \* JobManager._jobs; ids grow, so id order is creation order
    nextJob,
    queue,     \* the jobs that wait for the swap lock of a unit, in the order of their ids
    run,       \* the job that has it: _active_job_id, NoJob if it is free
    gen,       \* Placer._sweep_gen
    cache,     \* Placer._sweep_result, None if it is dropped or too old
    sweeps,    \* the sweeps that are on their way, by the generation they began in
    moves,     \* history: loads that were committed off a decision, REST unloads
    req        \* the requests

vars == <<serves, jobs, nextJob, queue, run, gen, cache, sweeps, moves, req>>
unitVars == <<serves, queue, run>>
placerVars == <<gen, cache, sweeps, moves>>

Job == [unit : Units, model : Models, evict : SUBSET Models,
        state : {"running", "launching", "succeeded", "failed", "conflict"}]
Ended(j) == jobs[j].state \in {"succeeded", "failed", "conflict"}

\* route: the port the request is sent to.  retried: this is the one re-place.  first: the
\* job whose failure led to it.  As history, since: moves when place() was entered;
\* moved: its unit has changed since it was probed
Fresh0 == [pc |-> "new", ask |-> None, unit |-> None, excluded |-> {}, evict |-> {},
           tries |-> 0, retried |-> FALSE, view |-> None, gen |-> 0, since |-> 0,
           rows |-> <<>>, job |-> NoJob, first |-> NoJob, route |-> 0, moved |-> FALSE]

Init ==
    /\ serves \in Start
    /\ jobs = <<>> /\ nextJob = 1
    /\ queue = [u \in Units |-> {}] /\ run = [u \in Units |-> NoJob]
    /\ gen = 0 /\ cache = None /\ sweeps = <<>> /\ moves = 0
    /\ req = [r \in Requests |-> Fresh0]

-----------------------------------------------------------------------------
(* Jobs and units.                                                         *)

\* mutant: any old job may be forgotten
MutTerminal(js) == DOMAIN js
\* _prune: above the cap the oldest terminal jobs go, the newest MaxHistory stay
Terminal(js) == {j \in DOMAIN js : js[j].state \in {"succeeded", "failed", "conflict"}}
Pruned(js) ==
    IF Cardinality(DOMAIN js) <= MaxHistory THEN js
    ELSE LET old == {j \in Terminal(js) :
                        Cardinality({k \in Terminal(js) : k > j}) >= MaxHistory}
         IN  [j \in DOMAIN js \ old |-> js[j]]

\* create() and start(): the job queues behind the unit's lock
NewJob(u, m, evict) ==
    /\ nextJob <= MaxJobs
    /\ jobs' = Pruned([j \in DOMAIN jobs \union {nextJob} |->
                  IF j = nextJob
                  THEN [unit |-> u, model |-> m, evict |-> evict, state |-> "running"]
                  ELSE jobs[j]])
    /\ queue' = [queue EXCEPT ![u] = @ \union {nextJob}]
    /\ nextJob' = nextJob + 1
    /\ UNCHANGED <<serves, run>>

\* invalidate(), for a load or an unload that is committed
Invalidate == gen' = gen + 1 /\ cache' = None /\ UNCHANGED sweeps /\ moves' = moves + 1

\* requests that have probed the unit are overtaken
Moving(u) == req' = [r \in Requests |->
                        [req[r] EXCEPT !.moved = @ \/ (req[r].unit = u /\ req[r].pc \in {"admit", "reroute"})]]

Set(j, how) == jobs' = [jobs EXCEPT ![j].state = how]

JobStarts(u) ==
    /\ run[u] = NoJob /\ queue[u] # {}
    /\ run' = [run EXCEPT ![u] = Min(queue[u])]
    /\ queue' = [queue EXCEPT ![u] = @ \ {Min(queue[u])}]
    /\ UNCHANGED <<serves, jobs, nextJob, placerVars, req>>

\* swap_wait_timeout_s
JobGivesUp(u) ==
    /\ run[u] # NoJob
    /\ \E j \in queue[u] :
          /\ queue' = [queue EXCEPT ![u] = @ \ {j}]
          /\ Set(j, "failed")
    /\ UNCHANGED <<serves, run, nextJob, placerVars, req>>

Without(u, M) == LET P == {p \in DOMAIN serves[u] : serves[u][p] \notin M}
                 IN  [p \in P |-> serves[u][p]]

\* the victims are stopped; a lane stops its occupant
JobEvicts(u) ==
    LET j == run[u]
    IN  /\ j # NoJob /\ jobs[j].state = "running"
        /\ jobs[j].model \notin Range(serves[u])
        /\ serves' = [serves EXCEPT ![u] =
              Without(u, IF u \in Sparks THEN jobs[j].evict ELSE Models)]
        /\ Set(j, "launching") /\ Moving(u)
        /\ UNCHANGED <<nextJob, queue, run, placerVars>>

FreePorts(u) == Ports[u] \ DOMAIN serves[u]
Load(u) == FoldSet(LAMBDA p, n : n + Mem[serves[u][p]], 0, DOMAIN serves[u])

\* the model is there already, or it comes up on the lowest free port
JobSucceeds(u) ==
    LET j == run[u]  m == jobs[j].model
    IN  /\ j # NoJob
        /\ IF m \in Range(serves[u]) THEN UNCHANGED serves
           ELSE /\ jobs[j].state = "launching"
                /\ FreePorts(u) # {} /\ (u \in Sparks => Load(u) + Mem[m] <= Headroom)
                /\ serves' = [serves EXCEPT ![u] =
                      [p \in DOMAIN @ \union {Min(FreePorts(u))} |->
                          IF p \in DOMAIN @ THEN @[p] ELSE m]]
        /\ Set(j, "succeeded") /\ Moving(u)
        /\ run' = [run EXCEPT ![u] = NoJob]
        /\ UNCHANGED <<nextJob, queue, placerVars>>

\* a refusal that says the world has moved (_CONFLICT_MARKERS), or any other failure
JobFails(u) ==
    /\ run[u] # NoJob
    /\ \E how \in {"failed", "conflict"} : Set(run[u], how)
    /\ run' = [run EXCEPT ![u] = NoJob]
    /\ UNCHANGED <<serves, nextJob, queue, placerVars, req>>

\* a load that is not the gateway's: at boot, by the cookbook
OtherLoad(u, m) ==
    /\ <<u, m>> \in Loads /\ nextJob <= MaxOthers
    /\ NewJob(u, m, {})
    /\ UNCHANGED <<placerVars, req>>

\* POST /api/unload, up to the stop
RestUnload(u) ==
    /\ run[u] = NoJob /\ queue[u] = {}
    /\ \E m \in {n \in Range(serves[u]) : <<u, n>> \in Unloads} :
          serves' = [serves EXCEPT ![u] = Without(u, {m})]
    /\ Moving(u)
    /\ UNCHANGED <<jobs, nextJob, queue, run, placerVars>>

\* and after the statuses it answers with, whether there was something to stop or not
RestUnloaded ==
    /\ moves < MaxMoves
    /\ Invalidate
    /\ UNCHANGED <<jobs, nextJob, unitVars, req>>

UnitStep ==
    \E u \in Units :
        \/ JobStarts(u) \/ JobGivesUp(u) \/ JobEvicts(u) \/ JobSucceeds(u) \/ JobFails(u)
        \/ (\E m \in Models : OtherLoad(u, m)) \/ RestUnload(u) \/ RestUnloaded

-----------------------------------------------------------------------------
(* The status of a unit, and the sweep over all of them.                   *)

\* the slots that answer; who has the lock
Answers(u) == {[p \in P |-> serves[u][p]] :
                  P \in IF ProbesFail THEN SUBSET DOMAIN serves[u] ELSE {DOMAIN serves[u]}}
\* or it raises: the unit is no candidate for this once
Status(u) == {[told |-> TRUE, rows |-> w, job |-> run[u]] : w \in Answers(u)}
             \union {[told |-> FALSE, rows |-> <<>>, job |-> NoJob] : v \in {u} \intersect Shaky}

SweepReads(g, u) ==
    /\ sweeps[g].seen[u] = None
    /\ \E st \in Status(u) : sweeps' = [sweeps EXCEPT ![g].seen[u] = st]
    /\ UNCHANGED <<jobs, nextJob, unitVars, gen, cache, moves, req>>

Tell(view) == {u \in Units : view.seen[u].told}

\* mutant: whoever ends last publishes
MutPublishes(g) == TRUE
\* a sweep that began before the last invalidate() does not
Publishes(g) == g = gen

\* whoever awaits it ranks on it, in a later turn of the loop
SweepEnds(g) ==
    /\ \A u \in Units : sweeps[g].seen[u] # None
    /\ cache' = IF ~Publishes(g) THEN cache
                ELSE IF Tell(sweeps[g]) = {} THEN None   \* as good as none
                ELSE sweeps[g]
    /\ req' = [r \in Requests |-> IF req[r].pc = "sweep" /\ req[r].gen = g
                                  THEN [req[r] EXCEPT !.view = sweeps[g], !.gen = 0, !.pc = "rank"]
                                  ELSE req[r]]
    /\ sweeps' = [h \in DOMAIN sweeps \ {g} |-> sweeps[h]]
    /\ UNCHANGED <<jobs, nextJob, unitVars, gen, moves>>

\* placement_cache_ttl_s
CacheAges ==
    /\ cache # None /\ cache' = None
    /\ UNCHANGED <<jobs, nextJob, unitVars, gen, sweeps, moves, req>>

SweepStep ==
    \/ \E g \in DOMAIN sweeps : SweepEnds(g) \/ \E u \in Units : SweepReads(g, u)
    \/ CacheAges

-----------------------------------------------------------------------------
(* place(): the cached statuses, or those of the one sweep on its way.     *)

Become(r, q) == req' = [req EXCEPT ![r] = q]

Place(r, q) ==
    /\ Become(r, IF cache # None
                 THEN [q EXCEPT !.view = cache, !.pc = "rank", !.since = moves]
                 ELSE [q EXCEPT !.gen = gen, !.pc = "sweep", !.since = moves])
    /\ sweeps' = IF cache # None \/ gen \in DOMAIN sweeps THEN sweeps
                 ELSE [g \in DOMAIN sweeps \union {gen} |->
                          IF g = gen THEN [since |-> moves, seen |-> [u \in Units |-> None]]
                          ELSE sweeps[g]]
    /\ UNCHANGED <<gen, cache, moves>>

\* _facts_for; hot: the models that were used within the window
Facts(u, st, m, hot, held) ==
    [unit |-> u, kind |-> IF u \in Sparks THEN "spark" ELSE "gpu", swap |-> st.job # NoJob,
     usage |-> IF st.job # NoJob THEN "active" ELSE IF DOMAIN st.rows = {} THEN "free"
               ELSE IF Range(st.rows) \intersect hot # {} THEN "active" ELSE "idle",
     rows |-> [p \in DOMAIN st.rows |->
                 [model |-> st.rows[p], lease |-> "none", prio |-> 0,
                  age |-> IF st.rows[p] \in hot THEN 0 ELSE MaxAge,
                  budget |-> Mem[st.rows[p]], span |-> 1, group |-> FALSE]],
     inflight |-> IF st.job \in DOMAIN jobs THEN Mem[jobs[st.job].model] ELSE 0,
     want |-> Mem[m], whole |-> FALSE,
     slot |-> Cardinality(DOMAIN st.rows) < Cardinality(Ports[u]),
     refused |-> u \in held, proven |-> TRUE, blocked |-> FALSE,
     est |-> Unmeasured, fill |-> 0, order |-> Order[u], members |-> 1]

\* answered with what the backend says, an error, or at once with an empty completion
Over == [Fresh0 EXCEPT !.pc = "over"]

Decision(q, hot, held) ==
    Rank(q.ask.model, {Facts(u, q.view.seen[u], q.ask.model, hot, held) : u \in Tell(q.view)},
         q.excluded, q.ask.wl)

\* the models of the view, some of which were used lately
Seen(view) == UNION {Range(view.seen[u].rows) : u \in Units}

\* bound: at a time at most one unit is held against un-leased requests
Refusals == {H \in SUBSET Units : Cardinality(H) <= 1}

\* rank(), then the lease gate, which sees the leases that rank() saw
RankAndGate(r) ==
    LET q == req[r]
    IN  /\ q.pc = "rank" /\ q.ask.kind # "rest"
        /\ \E hot \in SUBSET Seen(q.view), held \in Refusals :
              LET d == Decision(q, hot, held)
                  chosen == [Fresh0 EXCEPT !.pc = "probe", !.ask = q.ask, !.unit = d.unit,
                                           !.evict = d.victims,
                                           !.retried = q.retried, !.first = q.first]
              IN  IF d.outcome \notin {"pin", "place"}
                  THEN Become(r, Over) /\ UNCHANGED placerVars
                  ELSE IF d.unit \notin held
                  THEN Become(r, chosen) /\ UNCHANGED placerVars
                  ELSE IF q.tries = 0 /\ ~q.retried
                  THEN Place(r, [q EXCEPT !.view = None, !.excluded = {d.unit}, !.tries = 1])
                  ELSE Become(r, Over) /\ UNCHANGED placerVars
        /\ UNCHANGED <<jobs, nextJob, unitVars>>

\* POST /api/load with lane "auto": the job is all it waits for
RestLoad(r) ==
    LET q == req[r]
    IN  /\ q.pc = "rank" /\ q.ask.kind = "rest"
        /\ \E hot \in SUBSET Seen(q.view), held \in Refusals :
              LET d == Decision(q, hot, held)
              IN  IF d.outcome \in {"pin", "place"} /\ d.unit \notin held
                  THEN NewJob(d.unit, q.ask.model, d.victims) /\ Invalidate
                  ELSE UNCHANGED <<jobs, nextJob, unitVars, placerVars>>
        /\ Become(r, Over)

-----------------------------------------------------------------------------
(* A request.                                                              *)

\* a header that names a unit pins, behind the lease gate
Arrive(r) ==
    /\ req[r].pc = "new"
    /\ \E a \in Asked :
          LET q == [req[r] EXCEPT !.ask = a]
          IN  IF a.pin = None THEN Place(r, q)
              ELSE /\ \/ Become(r, [q EXCEPT !.unit = a.pin, !.pc = "probe"])
                      \/ Become(r, Over)
                   /\ UNCHANGED placerVars
    /\ UNCHANGED <<jobs, nextJob, unitVars>>

\* status(), up to its probe
Probe(r) ==
    /\ req[r].pc \in {"probe", "reprobe"}
    /\ \E w \in Answers(req[r].unit) :
          Become(r, [req[r] EXCEPT !.rows = w, !.moved = FALSE,
                                   !.pc = IF @ = "probe" THEN "admit" ELSE "reroute"])
    /\ UNCHANGED <<jobs, nextJob, unitVars, placerVars>>

Slot0(u) == Min(Ports[u])
\* _route: the port where the model is, slot 0 if it is not there
Route(u, rows, m) ==
    LET P == {p \in DOMAIN rows : rows[p] = m}
    IN  IF u \in Sparks /\ P # {} THEN Min(P) ELSE Slot0(u)

\* _ensure_load_job: an identical load that is under way
Attaches(q) ==
    LET j == run[q.unit]
    IN  j \in DOMAIN jobs /\ jobs[j].unit = q.unit /\ jobs[j].model = q.ask.model /\ ~Ended(j)
\* another load is under way on a lane: whoever does not stream does not wait for it
ShortCircuits(q) ==
    run[q.unit] # NoJob /\ ~Attaches(q) /\ q.ask.kind # "stream" /\ q.unit \notin Sparks

\* resident: forward; else wait for a load
Admit(r) ==
    LET q == req[r]
        routed == [q EXCEPT !.route = Route(q.unit, q.rows, q.ask.model),
                            !.rows = <<>>, !.evict = {}, !.moved = FALSE]
    IN  /\ q.pc = "admit"
        /\ IF q.ask.model \in Range(q.rows)
           THEN /\ Become(r, [routed EXCEPT !.pc = "forward"])
                /\ UNCHANGED <<jobs, nextJob, unitVars, placerVars>>
           ELSE IF Attaches(q)
           THEN /\ Become(r, [routed EXCEPT !.pc = "wait", !.job = run[q.unit]])
                /\ UNCHANGED <<jobs, nextJob, unitVars, placerVars>>
           ELSE IF ShortCircuits(q)
           THEN /\ Become(r, Over)
                /\ UNCHANGED <<jobs, nextJob, unitVars, placerVars>>
           ELSE /\ NewJob(q.unit, q.ask.model, q.evict)
                /\ Invalidate
                /\ Become(r, [routed EXCEPT !.pc = "wait", !.job = nextJob])

\* mutant: the port from before the load
MutReroutes(q) == q.retried
\* a node is asked where the model has come up; after a re-place everybody is
Reroutes(q) == q.unit \in Sparks \/ q.retried

\* mutant: whatever went wrong, it may go right elsewhere
MutMayRetry(q, how) == q.ask.pin = None /\ q.ask.kind # "stream" /\ ~q.retried
\* _retry_elsewhere
MayRetry(q, how) ==
    /\ how = "conflict" /\ q.ask.pin = None /\ q.ask.kind # "stream" /\ ~q.retried

LoadFailed(r, q, how) ==
    IF MayRetry(q, how)
    THEN Place(r, [Fresh0 EXCEPT !.ask = q.ask, !.excluded = {q.unit}, !.retried = TRUE,
                                 !.first = q.job])
    ELSE Become(r, Over) /\ UNCHANGED placerVars

\* _wait_job and the loop of a stream, once a second
Poll(r) ==
    LET q == req[r]
    IN  /\ q.pc = "wait"
        /\ IF q.job \notin DOMAIN jobs
           THEN LoadFailed(r, q, "vanished")
           ELSE /\ Ended(q.job)
                /\ IF jobs[q.job].state # "succeeded"
                   THEN LoadFailed(r, q, jobs[q.job].state)
                   ELSE /\ Become(r, [q EXCEPT !.pc = IF Reroutes(q) THEN "reprobe"
                                                      ELSE "forward"])
                        /\ UNCHANGED placerVars
        /\ UNCHANGED <<jobs, nextJob, unitVars>>

\* the time a request that does not stream gives to a load
WaitTimesOut(r) ==
    /\ req[r].pc = "wait" /\ req[r].ask.kind # "stream"
    /\ req[r].job \in DOMAIN jobs => jobs[req[r].job].state # "succeeded"
    /\ LoadFailed(r, req[r], "timeout")
    /\ UNCHANGED <<jobs, nextJob, unitVars>>

Reroute(r) ==
    LET q == req[r]
    IN  /\ q.pc = "reroute"
        /\ Become(r, [q EXCEPT !.route = Route(q.unit, q.rows, q.ask.model),
                         !.rows = <<>>, !.moved = FALSE, !.pc = "forward"])
        /\ UNCHANGED <<jobs, nextJob, unitVars, placerVars>>

Forward(r) ==
    /\ req[r].pc = "forward"
    /\ Become(r, Over)
    /\ UNCHANGED <<jobs, nextJob, unitVars, placerVars>>

RequestStep(r) ==
    \/ Arrive(r) \/ RankAndGate(r) \/ RestLoad(r) \/ Probe(r) \/ Admit(r)
    \/ Poll(r) \/ WaitTimesOut(r) \/ Reroute(r) \/ Forward(r)

Next == UnitStep \/ SweepStep \/ \E r \in Requests : RequestStep(r)
Spec == Init /\ [][Next]_vars

-----------------------------------------------------------------------------
(* Properties.                                                             *)

Where == {"new", "sweep", "rank", "probe", "admit", "wait", "reprobe", "reroute", "forward",
          "over"}

\* Well-formed; a job that waits for a lock or has it is in the table, and so "load job
\* vanished" is said of jobs that have ended only.
TypeOK ==
    /\ jobs = [j \in DOMAIN jobs |-> jobs[j]] /\ DOMAIN jobs \subseteq 1..(nextJob - 1)
    /\ \A j \in DOMAIN jobs : jobs[j] \in Job
    /\ \A u \in Units :
          /\ serves[u] \in [DOMAIN serves[u] -> Models] /\ DOMAIN serves[u] \subseteq Ports[u]
          /\ \A j \in queue[u] \union ({run[u]} \ {NoJob}) :
                j \in DOMAIN jobs /\ ~Ended(j)
    /\ \A r \in Requests :
          /\ req[r].pc \in Where
          /\ req[r].pc = "sweep" => req[r].gen \in DOMAIN sweeps
          /\ req[r].pc = "wait" => req[r].job \in 1..(nextJob - 1)

\* "A burst's next auto request must re-sweep": a request never ranks on statuses whose
\* sweep began before a load that had been committed off a decision, or a REST unload that
\* had been done, when the request asked for a placement.
FreshAfterCommit ==
    \A r \in Requests : req[r].pc = "rank" => req[r].view.since >= req[r].since

\* A request has one load at a time: while it is being placed again, or its second load
\* runs, on another unit, the first has ended.
OneLoadAtATime ==
    \A r \in Requests :
        /\ req[r].first \in DOMAIN jobs => Ended(req[r].first)
        /\ req[r].first # NoJob => req[r].job # req[r].first

\* A request goes to the port of another model only if its node did not say that its own
\* is there (it missed the probe, or is gone already), or has changed since it was asked.
RoutedToItsModel ==
    [][\A r \in Requests :
          LET q == req[r]  p == req'[r].route
          IN  req'[r].pc = "forward" /\ q.pc # "forward" /\ q.unit \in Sparks
              /\ p \in DOMAIN serves[q.unit] /\ serves[q.unit][p] # q.ask.model
              => /\ q.pc \in {"admit", "reroute"}
                 /\ q.moved \/ q.ask.model \notin Range(q.rows)]_vars
=============================================================================
