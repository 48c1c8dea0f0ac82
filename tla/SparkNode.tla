------------------------------ MODULE SparkNode ------------------------------
(***************************************************************************)
(* A DGX Spark node: SparkUnit of src/llmconfig/spark_unit.py with the     *)
(* claims on its models.                                                   *)
(*                                                                         *)
(* The node has one slot, a port, per model; what runs is discovered by    *)
(* probing the ports, never stored.  A load works on the view its one      *)
(* probe gave it: it takes victims out of the view as it stops them,       *)
(* admits by declared budgets over what is left, measures the free memory, *)
(* and launches on the lowest free port of the view.  What really runs may *)
(* differ: a server may miss a probe, a stop may be swallowed (rc 0), and  *)
(* a launch that was given up may come up later.                           *)
(*                                                                         *)
(* Served names stand for their aliases, which is what both are folded     *)
(* onto.  Claims by a group on the node are in module Groups.              *)
(***************************************************************************)
EXTENDS ClaimBoard, SwapLock

CONSTANTS
    Node,           \* this node's unit id
    Ports,          \* slot_ports, 1..max_models, at least one
    Mem,            \* [Models -> Nat], mem_fraction, 0 if unset
    Default,        \* what a model takes that was launched without a budget
    Total, Slack,   \* the node's memory, in the same units; the slack of the measurement
    Pool,           \* spark_mem_headroom: what may be declared of it
    Lone,           \* needs_empty_node
    Wide,           \* tp > 1
    Barred,         \* blocked: only a forced load starts them
    Tasks,
    Requests, Offers,
    PreemptActive, PreemptLeasedIdle,   \* placement_preempt_*_enabled
    ProbesFail,     \* whether a live server may miss a probe
    StopsFail,      \* whether a stop may be swallowed
    None

NoPriority == -1
Request == [kind : {"load", "unload"}, model : Models \union {None}, force : BOOLEAN,
            evict : SUBSET Models, priority : NoPriority..MaxPriority,
            by : Holders \union {None}]

ASSUME NodeAssumption ==
    /\ Node \in Units /\ \E n \in Ports : n \in Nat \ {0} /\ Ports = 1..n
    /\ {MaxLeases, MaxPriority} \subseteq Nat
    /\ Canon = [n \in Names |-> n]
    /\ {Total, Slack} \subseteq Nat /\ Pool \in 0..Total
    /\ Mem \in [Models -> 0..Total] /\ Default \in 0..Total
    /\ Lone \union Wide \union Barred \subseteq Models
    /\ Requests \subseteq Request /\ Offers \subseteq Claim
    /\ \A r \in Requests : r.kind = "load" => r.model \in Models
    /\ NoTask \notin Tasks /\ None \notin Models \union Holders \union Tasks
    /\ {PreemptActive, PreemptLeasedIdle, ProbesFail, StopsFail} \subseteq BOOLEAN

VARIABLES
    engines,   \* the servers on the node
    lock,      \* SparkUnit._lock
    pc,        \* where each task is
    req,       \* the request it carries
    own,       \* the locals of the swap that has the lock
    clk        \* last_activity and model_activity

vars == <<boardVars, engines, lock, pc, req, own, clk>>

\* by: the task that launched it, None if somebody else did, at the recipe's default
Engine == [port : Ports, model : Models, up : BOOLEAN, by : Tasks \union {None}]

Swapping == {"probe", "stop", "answer", "reload", "recheck", "clear", "measure",
             "launch", "ready", "free"}
Where == Swapping \union {"new", "queued", "done", "failed"}

\* view: slots and resident; todo: the victims that are left; victim: the one that is
\* being stopped; port: the slot to launch on.  As history, blind: the node did not tell
\* its free memory; growing: the servers that were still starting when it did; since: the
\* claims that were granted when the victim was judged; hidden: the servers the load
\* cannot know of, since they did not answer its probe or outlived their stop
NoView == [p \in {} |-> None]
NoSwap == [view |-> NoView, todo |-> {}, victim |-> None, port |-> 0, blind |-> FALSE,
           growing |-> {}, since |-> 0, hidden |-> {}]

Init ==
    /\ BoardInit
    /\ engines \in {E \in SUBSET [port : Ports, model : Models, up : {TRUE}, by : {None}] :
                      \A e, f \in E : e # f => e.port # f.port /\ e.model # f.model}
    /\ lock = Unlocked
    /\ pc = [t \in Tasks |-> "new"] /\ req = [t \in Tasks |-> None]
    /\ own = NoSwap
    /\ clk = [known |-> {}, recent |-> {}, warm |-> TRUE, hot |-> {}]

-----------------------------------------------------------------------------
(* The node, and what the code sees of it.                                 *)

Up == {e \in engines : e.up}
Use(e) == IF e.by = None \/ Mem[e.model] = 0 THEN Default ELSE Mem[e.model]
Used(E) == MapThenSumSet(Use, E)

\* what served_slots() may return
View(E) == [p \in {e.port : e \in E} |-> (CHOOSE e \in E : e.port = p).model]
Views   == {View(E) : E \in IF ProbesFail THEN SUBSET Up ELSE {Up}}

\* what served_info(p) may return
Answers(p) ==
    LET there == {e.model : e \in {f \in Up : f.port = p}}
    IN  there \union IF ProbesFail \/ there = {} THEN {None} ELSE {}

\* servers, whether they are up or still starting
Ids(E) == {[e EXCEPT !.up = TRUE] : e \in E}
Seen(vw) == {e \in engines : e.port \in DOMAIN vw /\ vw[e.port] = e.model}

Residents(vw)  == {vw[p] : p \in DOMAIN vw}

\* resident, by served name, has the last slot of a model; resident.pop and slots.pop
Slot(vw, m)    == Max({p \in DOMAIN vw : vw[p] = m})
Vacated(vw, m) == [p \in DOMAIN vw \ {Slot(vw, m)} |-> vw[p]]

\* `sparkrun stop` by job id ends one workload of the recipe, if it is tracked; it
\* reports success when it has not
Stops(m) ==
    \/ \E e \in engines : e.model = m /\ engines' = engines \ {e}
    \/ (StopsFail \/ ~\E e \in engines : e.model = m) /\ UNCHANGED engines
StopsAll ==
    \/ engines' = {}
    \/ StopsFail /\ UNCHANGED engines

-----------------------------------------------------------------------------
(* Activity: a clock per model (known; recent: used within                 *)
(* usage_active_window_s) and one for the unit (warm).  hot is history:    *)
(* the models that really were used.                                       *)

\* mutant: a model without a clock has never been used
MutIdleFor(m) == m \notin clk.recent
\* idle_for(m) > usage_active_window_s: a model without a clock is as old as the unit
IdleFor(m) == IF m \in clk.known THEN m \notin clk.recent ELSE ~clk.warm

Touched(c, m) == [known |-> c.known \union {m}, recent |-> c.recent \union {m},
                  warm |-> TRUE, hot |-> c.hot \union {m}]
Keeping(c, M) == [c EXCEPT !.known = @ \intersect M, !.recent = @ \intersect M]

-----------------------------------------------------------------------------
(* The swap lock, as on a lane.                                            *)

Goto(t, where) == pc' = [pc EXCEPT ![t] = where]
Over(t, how) == Goto(t, how) /\ req' = [req EXCEPT ![t] = None]
Work(t, where) == lock.owner = t /\ pc[t] = where

FirstStep(r) == IF r.kind = "load" THEN "probe" ELSE "free"

Enter(t) ==
    /\ pc[t] = "new"
    /\ \E r \in Requests :
          /\ req' = [req EXCEPT ![t] = r]
          /\ IF Uncontended(lock)
             THEN lock' = Take(lock, t) /\ Goto(t, FirstStep(r))
             ELSE lock' = Queue(lock, t) /\ Goto(t, "queued")
    /\ UNCHANGED <<boardVars, engines, own, clk>>

Wake(t) ==
    /\ Woken(lock, t)
    /\ lock' = Resume(lock, t) /\ Goto(t, FirstStep(req[t]))
    /\ UNCHANGED <<boardVars, engines, req, own, clk>>

TimeOut(t) ==
    /\ t \in lock.timed
    /\ lock' = GiveUp(lock, t) /\ Over(t, "failed")
    /\ UNCHANGED <<boardVars, engines, own, clk>>

\* the finally block of a load: its model's clock starts, good or bad
Finish(t, how, c) ==
    /\ lock' = Release(lock) /\ Over(t, how) /\ own' = NoSwap
    /\ clk' = Touched(c, req[t].model)

GoOn(t, where, o, c) == Goto(t, where) /\ own' = o /\ clk' = c /\ UNCHANGED <<lock, req>>

-----------------------------------------------------------------------------
(* load(): what the code does between two awaits, with locals o, clocks c. *)

FreePorts(o) == Ports \ DOMAIN o.view

\* _free_slot and on to run_recipe
PickSlot(t, o, c) ==
    IF FreePorts(o) = {} THEN Finish(t, "failed", c)
    ELSE GoOn(t, "launch", [o EXCEPT !.port = Min(FreePorts(o))], c)

Declared(M) == MapThenSumSet(LAMBDA m : Mem[m], M)

\* declared budgets: a model without one claims the whole node
Fits(m, vw) == /\ Mem[m] > 0 /\ \A n \in Residents(vw) : Mem[n] > 0
               /\ Declared(Residents(vw)) + Mem[m] <= Pool

\* mutant: force is not asked for
MutBesideOthers(r, vw) == FALSE
\* needs_empty_node, unless forced
BesideOthers(r, vw) == r.model \in Lone /\ vw # NoView /\ ~r.force

\* the rules about neighbours, then _admit up to its one await
Admit(t, o, c) ==
    IF BesideOthers(req[t], o.view) THEN Finish(t, "failed", c)
    ELSE IF o.view = NoView THEN PickSlot(t, o, c)
    ELSE IF Fits(req[t].model, o.view) THEN GoOn(t, "measure", o, c)
    ELSE Finish(t, "failed", c)

\* is it there already, and not evicted? reload it in its slot, or make room for it
Place(t, o, c) ==
    LET r == req[t]
    IN  IF r.model \in Residents(o.view) \ r.evict
        THEN GoOn(t, IF r.force THEN "reload" ELSE "answer", o, c)
        ELSE IF r.model \in Wide /\ o.view # NoView THEN GoOn(t, "clear", o, c)
        ELSE Admit(t, o, c)

\* _evict_victim, its checks: the same rules as placement's
MayEvict(v, r) ==
    LET i == ActiveFor(board, Node, v)
    IN  IF i = 0 THEN IdleFor(v)
        ELSE /\ board[i].preemptible
             /\ IF IdleFor(v) THEN PreemptLeasedIdle
                ELSE board[i].priority < r.priority /\ PreemptActive

\* mutant: the displaced holder keeps its lease
MutRevoked(v, r) == {}
\* revoke_for_eviction, in the same breath
Revoked(v, r) == EvictionTargets(board, Node, v, r.by)

\* the next victim that is still there, or on to the model itself
Proceed(t, o, c) ==
    LET there == o.todo \intersect Residents(o.view)
    IN  IF there = {}
        THEN Place(t, [o EXCEPT !.todo = {}, !.victim = None, !.since = 0], c)
             /\ UNCHANGED boardVars
        ELSE \E v \in there :
                IF MayEvict(v, req[t])
                THEN /\ End(Revoked(v, req[t]))
                     /\ GoOn(t, "stop", [o EXCEPT !.todo = there, !.victim = v,
                                                  !.since = nextId], c)
                ELSE Finish(t, "failed", c) /\ UNCHANGED boardVars

-----------------------------------------------------------------------------
(* load(), await by await.                                                 *)

LoadRefused(t) ==
    /\ Work(t, "probe") /\ req[t].model \in Barred /\ ~req[t].force
    /\ Finish(t, "failed", clk)
    /\ UNCHANGED <<boardVars, engines>>

LoadProbe(t) ==
    /\ Work(t, "probe") /\ ~(req[t].model \in Barred /\ ~req[t].force)
    /\ \E vw \in Views :
          Proceed(t, [own EXCEPT !.view = vw, !.todo = req[t].evict,
                                 !.hidden = Ids(engines \ (Seen(vw) \intersect Up))], clk)
    /\ UNCHANGED engines

\* the victim is gone from the view, whatever became of it
StopVictim(t) ==
    LET v == own.victim
    IN  /\ Work(t, "stop")
        /\ Stops(v)
        /\ Proceed(t, [own EXCEPT !.view = Vacated(@, v), !.todo = @ \ {v},
                                  !.hidden = @ \union Ids({e \in engines' : e.model = v})],
                   Keeping(clk, Models \ {v}))

\* serving, already or by now: the card is read for the result
Answer(t) ==
    /\ Work(t, "answer")
    /\ Finish(t, "done", clk)
    /\ UNCHANGED <<boardVars, engines>>

Reload(t) ==
    /\ Work(t, "reload")
    /\ Stops(req[t].model)
    /\ GoOn(t, "recheck", own, clk)
    /\ UNCHANGED boardVars

\* mutant: the exit code of the stop is trusted
MutGone(a) == TRUE
Gone(a) == a = None

\* its slot is probed again and again: gone, or the reload is given up
Recheck(t) ==
    LET p == Slot(own.view, req[t].model)
    IN  /\ Work(t, "recheck")
        /\ \E a \in Answers(p) :
              IF Gone(a)
              THEN Admit(t, [own EXCEPT !.view = Vacated(@, req[t].model),
                                        !.hidden = @ \union Ids({e \in Up : e.port = p
                                                                           /\ a = None})],
                         clk)
              ELSE Finish(t, "failed", clk)
        /\ UNCHANGED <<boardVars, engines>>

\* a recipe for several nodes frees this one first
Clear(t) ==
    /\ Work(t, "clear")
    /\ StopsAll
    /\ Admit(t, [own EXCEPT !.view = NoView, !.hidden = @ \union Ids(engines')], clk)
    /\ UNCHANGED boardVars

\* mutant: what is declared is what is used
MutEnough(m, taken) == TRUE
\* what is free, and a little that the kernel gives back
Enough(m, taken) == Mem[m] <= Total - taken + Slack

\* _admit, the measured free memory: a server that is starting has taken any part of what
\* it will, and one that was stopped may not have given all back; a node that does not
\* tell degrades the check
Measure(t) ==
    /\ Work(t, "measure")
    /\ \/ \E part \in 0..Total :
             IF Enough(req[t].model, Used(Up) + part)
             THEN PickSlot(t, [own EXCEPT !.growing = Ids(engines \ Up)], clk)
             ELSE Finish(t, "failed", clk)
       \/ ProbesFail /\ PickSlot(t, [own EXCEPT !.blind = TRUE], clk)
    /\ UNCHANGED <<boardVars, engines>>

New(t) == [port |-> own.port, model |-> req[t].model, up |-> FALSE, by |-> t]

Launch(t) ==
    /\ Work(t, "launch")
    /\ engines' = engines \union {New(t)}
    /\ GoOn(t, "ready", own, clk)
    /\ UNCHANGED boardVars

\* sparkrun fails, or is killed by its timeout with the server on its way
LaunchFails(t) ==
    /\ Work(t, "launch")
    /\ engines' \in {engines, engines \union {New(t)}}
    /\ Finish(t, "failed", clk)
    /\ UNCHANGED boardVars

Ready(t) ==
    /\ Work(t, "ready") /\ req[t].model \in Answers(own.port)
    /\ GoOn(t, "answer", own, clk)
    /\ UNCHANGED <<boardVars, engines>>

\* load_timeout_s is over, or the server has died; what is left of it is left there
NeverReady(t) ==
    /\ Work(t, "ready")
    /\ Finish(t, "failed", clk)
    /\ UNCHANGED <<boardVars, engines>>

LoadStep(t) ==
    \/ LoadRefused(t) \/ LoadProbe(t) \/ StopVictim(t) \/ Answer(t)
    \/ Reload(t) \/ Recheck(t) \/ Clear(t) \/ Measure(t)
    \/ Launch(t) \/ LaunchFails(t) \/ Ready(t) \/ NeverReady(t)

-----------------------------------------------------------------------------
(* unload(), and status() with its pruning of the clocks.                  *)

Free(t) ==
    LET m == req[t].model
    IN  /\ Work(t, "free")
        /\ IF m = None THEN StopsAll ELSE Stops(m)
        /\ lock' = Release(lock) /\ Over(t, "done")
        /\ clk' = Keeping(clk, IF m = None THEN {} ELSE Models \ {m})
        /\ UNCHANGED <<boardVars, own>>

Status ==
    /\ \E vw \in Views : vw # NoView /\ clk' = Keeping(clk, Residents(vw))
    /\ UNCHANGED <<boardVars, engines, lock, pc, req, own>>

-----------------------------------------------------------------------------
(* Around the node.                                                        *)

\* the gateway serves a request from a model; windows pass
Requested == \E e \in Up : clk' = Touched(clk, e.model)
Cools(m) == m \in clk.hot /\ clk' = [clk EXCEPT !.hot = @ \ {m}, !.recent = @ \ {m}]
Cold     == clk.warm /\ clk.hot = {} /\ clk' = [clk EXCEPT !.warm = FALSE]
Activity ==
    /\ Requested \/ (\E m \in Models : Cools(m)) \/ Cold
    /\ UNCHANGED <<boardVars, engines, lock, pc, req, own>>

ComesUp(e) == /\ ~e.up /\ ~\E f \in Up : f.port = e.port
              /\ engines' = (engines \ {e}) \union {[e EXCEPT !.up = TRUE]}
Dies(e) == engines' = engines \ {e}
ServerStep ==
    /\ \E e \in engines : ComesUp(e) \/ Dies(e)
    /\ UNCHANGED <<boardVars, lock, pc, req, own, clk>>

ClaimStep ==
    /\ \/ \E c \in Offers : Grant(c)
       \/ \E i \in DOMAIN board : End({i})
    /\ UNCHANGED <<engines, lock, pc, req, own, clk>>

Next ==
    \/ \E t \in Tasks : Enter(t) \/ Wake(t) \/ TimeOut(t) \/ LoadStep(t) \/ Free(t)
    \/ Status \/ Activity \/ ServerStep \/ ClaimStep

Spec == Init /\ [][Next]_vars

-----------------------------------------------------------------------------
(* Properties.                                                             *)

\* Well-formed, and the owner of the swap lock, nobody else, is in a swap.
TypeOK ==
    /\ engines \subseteq Engine /\ lock \in SwapLocks(Tasks)
    /\ pc \in [Tasks -> Where] /\ req \in [Tasks -> Requests \union {None}]
    /\ DOMAIN own.view \subseteq Ports /\ Residents(own.view) \subseteq Models
    /\ own.todo \subseteq Residents(own.view) /\ own.port \in Ports \union {0}
    /\ clk.recent \subseteq clk.known
    /\ \A t \in Tasks : /\ pc[t] \in Swapping <=> lock.owner = t
                        /\ pc[t] = "queued" <=> Waits(lock, t)

\* the servers whose memory a load with locals o cannot have counted: those it could not
\* know of, on a node that looked empty; else those that were starting when it measured
Uncounted(o) == IF o.view = NoView THEN o.hidden ELSE o.growing
Counted(E, o) == {e \in E : [e EXCEPT !.up = TRUE] \notin Uncounted(o)}

\* "What stands between co-residency and an OOM at load": a launch takes the node beyond
\* its memory and the slack only by servers that _admit could not count, or on a node that
\* did not tell its free memory.  On a node that looked empty, because every server missed
\* the probe, it counts none; and a server that is starting may go on to take more.
OvercommitIsBlind ==
    [][\A t \in Tasks :
         pc[t] = "launch" /\ New(t) \in engines' /\ ~own.blind =>
            Used(Counted(engines', own)) <= Total + Slack]_vars

\* A victim that has been in use is never stopped without a claim on it that the request
\* outranks, and that has ended or is the requester's own (idle_for: "an unknown model is
\* treated as active"), though status() forgets the clocks of models that a probe missed.
NoHotVictim ==
    [][\A t \in Tasks :
         lock.owner = t /\ own.victim # own'.victim /\ own'.victim \in clk.hot =>
            \E i \in Overlapping(board, Node, own'.victim) :
               /\ board[i].preemptible /\ board[i].priority < req[t].priority
               /\ i \notin DOMAIN board' \/ board[i].holder = req[t].by]_vars

\* When an eviction stops a model nobody but its requester has a claim on it, unless it
\* was granted while the node was being asked to stop it.
EvictedIsUnclaimed ==
    [][\A t \in Tasks :
         pc[t] = "stop" /\ Cardinality(engines') < Cardinality(engines) =>
            \A i \in Overlapping(board, Node, own.victim) :
               board[i].holder # req[t].by => i >= own.since]_vars

\* A recipe that kills its neighbours is launched, unless forced, only beside servers that
\* could not be seen: they missed the probe, came up after it, or outlived their stop.
LoneIsAlone ==
    \A t \in Tasks :
        pc[t] = "launch" /\ req[t].model \in Lone /\ ~req[t].force =>
            Ids(engines) \subseteq own.hidden

\* When wait_ready lets a load report its launch as good, the load has its own server on
\* its slot, or one it could not see ("Reloading over it would let wait_ready see the OLD
\* process").
SuccessIsOwnLaunch ==
    [][\A t \in Tasks :
         pc[t] = "ready" /\ pc'[t] = "answer" =>
            \E e \in Up : /\ e.port = own.port /\ e.model = req[t].model
                          /\ e.by = t \/ e \in own.hidden]_vars
=============================================================================
