-------------------------------- MODULE Lane --------------------------------
(***************************************************************************)
(* A GPU lane: Lane of src/llmconfig/lane.py, with the idle reaper that    *)
(* unloads it (src/llmconfig/idle.py) and the claims that gate its loads.  *)
(*                                                                         *)
(* One card, two backends that do not know of each other.  Every swap --   *)
(* load(), unload(), the reaper's unload() -- runs under the lane's swap   *)
(* lock and first clears the card, waiting until its memory is back at the *)
(* baseline.  Each await of a swap ends a step of the task; what the code  *)
(* does between two awaits is one step.  The probes of one decision        *)
(* (served model, loaded tags) are read together, and a backend that does  *)
(* not answer looks empty, as it does to the code.                         *)
(*                                                                         *)
(* Outside the lock, claims come and go, time passes, vLLM comes up late   *)
(* or dies, and clients that talk to Ollama directly load models.          *)
(***************************************************************************)
EXTENDS ClaimBoard, SwapLock

CONSTANTS
    Lane1,          \* this lane's unit id
    OModels,        \* Ollama tags
    VModels,        \* vLLM aliases
    Launchable,     \* aliases in the catalog, on a lane that has vLLM
    Barred,         \* aliases that are blocked: only a forced load starts them
    Tasks, Reaper,  \* the tasks that load and unload; the idle reaper's task
    Requests,       \* the load and unload requests they carry
    Offers,         \* the claims that requests make
    PreemptActive, PreemptLeasedIdle,  \* placement_preempt_*_enabled
    None, Unnamed       \* no model; no model or server named

Actors == Tasks \union {Reaper}

\* priority -1: not a placement-classified load; by None: requested_by = ""
NoPriority == -1
Request ==
    [kind : {"load", "unload"}, server : {"ollama", "vllm", Unnamed},
     model : Names \union {Unnamed}, force : BOOLEAN, pack : BOOLEAN,
     priority : NoPriority..MaxPriority, by : Holders \union {None}]

ASSUME LaneAssumption ==
    /\ Lane1 \in Units
    /\ Names = OModels \union VModels /\ OModels \intersect VModels = {}
    /\ \A n \in Names : Canon[n] = n
    /\ Launchable \subseteq VModels /\ Barred \subseteq Launchable
    /\ Reaper \notin Tasks /\ NoTask \notin Tasks \union {Reaper}
    /\ Requests \subseteq Request
    /\ \A r \in Requests :
          r.kind = "load" => \/ r.server = "ollama" /\ r.model \in OModels
                             \/ r.server = "vllm" /\ r.model \in VModels
    /\ Offers \subseteq Claim /\ {MaxLeases, MaxPriority} \subseteq Nat
    /\ {PreemptActive, PreemptLeasedIdle} \subseteq BOOLEAN
    /\ None \notin Names \union Holders /\ Unnamed \notin Names

VARIABLES
    lock,      \* Lane._lock
    pc,        \* where each task is
    req,       \* the request it carries
    served,    \* the model vLLM serves
    starting,  \* the model vLLM is coming up with
    tags,      \* the tags Ollama has loaded
    draining,  \* memory of stopped models is not back yet
    age,       \* of Lane.last_activity: 0 active, 1 idle, 2 past the idle timeout
    victim,    \* what the reaper's unit.status() found
    excused,   \* history: the current swap gave up waiting, or a direct client loaded
    probed,    \* history: the first claim that the gate of a probing load did not look at
    lost       \* history: vLLM died while a swap that is over read the card

cardVars == <<served, starting, tags, draining>>
histVars == <<excused, probed, lost>>
vars == <<boardVars, lock, pc, req, cardVars, age, victim, histVars>>

Idle     == [kind |-> "unload", server |-> Unnamed, model |-> Unnamed, force |-> FALSE,
             pack |-> FALSE, priority |-> NoPriority, by |-> None]
Swapping == {"probe", "gate", "occupied", "stop", "unload", "drain", "launch",
             "ready", "verify", "repack", "redrain", "reload", "restore",
             "recheck", "check", "answer"}
Over     == {"done", "failed"}
Where    == Swapping \union Over \union {"new", "queued", "rest", "status", "decide"}

Init ==
    /\ BoardInit
    /\ lock = Unlocked
    /\ pc = [t \in Actors |-> IF t = Reaper THEN "rest" ELSE "new"]
    /\ req \in {q \in [Actors -> Requests \union {Idle}] :
                   /\ q[Reaper] = Idle
                   /\ \A t \in Tasks : q[t] \in Requests}
    /\ \/ served = None /\ tags \in {S \in SUBSET OModels : Cardinality(S) <= 1}
       \/ served \in VModels /\ tags = {}
    /\ starting = None /\ draining = FALSE
    /\ age = 0 /\ victim = None
    /\ excused = FALSE /\ probed = 0 /\ lost = FALSE

-----------------------------------------------------------------------------
(* The card, and what the code can see of it.                              *)

Occupants == tags \union ({served} \ {None})
CardFree  == tags = {} /\ served = None /\ starting = None /\ ~draining

\* what a probe may find: a backend that does not answer looks empty
SeesServed == {served, None}
SeesTags   == {tags, {}}

Goto(t, where) == pc' = [pc EXCEPT ![t] = where]

FirstStep(r) == IF r.kind = "load" THEN "probe" ELSE "check"

\* _acquire_swap_lock: at once, or in the queue
Acquire(t, r) ==
    IF Uncontended(lock)
    THEN lock' = Take(lock, t) /\ Goto(t, FirstStep(r))
    ELSE lock' = Queue(lock, t) /\ Goto(t, "queued")

\* mutant: an early return that leaves the lock held
MutReleased(t) == lock' = IF pc[t] = "answer" THEN lock ELSE Release(lock)
Released(t) == lock' = Release(lock)

\* the finally blocks: a load, good or bad, restarts the idle window; so does the
\* reaper when its unload returns
Finish(t, how) ==
    /\ Released(t)
    /\ excused' = FALSE /\ lost' = FALSE
    /\ age' = IF req[t].kind = "load" \/ t = Reaper THEN 0 ELSE age
    /\ Goto(t, IF t = Reaper THEN "rest" ELSE how)
    /\ req' = [req EXCEPT ![t] = Idle]

\* the swap goes on
GoOn(t, where) == Goto(t, where) /\ UNCHANGED <<lock, excused, lost, age, req>>

Work(t, where) == lock.owner = t /\ pc[t] = where

\* the lock is released and its next owner woken: until that one resumes, the event loop
\* runs only what was ready before, one step of a task at most
HandingOver == ~Locked(lock) /\ lock.queue # <<>>

-----------------------------------------------------------------------------
(* The swap lock.                                                          *)

Enter(t) ==
    /\ pc[t] = "new"
    /\ Acquire(t, req[t])
    /\ UNCHANGED <<boardVars, req, cardVars, age, victim, histVars>>

Wake(t) ==
    /\ Woken(lock, t)
    /\ lock' = Resume(lock, t)
    /\ Goto(t, FirstStep(req[t]))
    /\ UNCHANGED <<boardVars, req, cardVars, age, victim, histVars>>

\* swap_wait_timeout_s is over: the request fails
TimeOut(t) ==
    /\ t \in lock.timed
    /\ lock' = GiveUp(lock, t)
    /\ Goto(t, "failed")
    /\ req' = [req EXCEPT ![t] = Idle]
    /\ UNCHANGED <<boardVars, cardVars, age, victim, histVars>>

-----------------------------------------------------------------------------
(* load(): _load_ollama and _load_vllm.                                    *)

Refused(r) ==
    /\ r.server = "vllm"
    /\ r.model \in Launchable => r.model \in Barred /\ ~r.force

LoadRefused(t) ==
    /\ Work(t, "probe") /\ Refused(req[t])
    /\ Finish(t, "failed")
    /\ UNCHANGED <<boardVars, cardVars, victim, probed>>

\* the fast path: the model is up already, and nothing else is
LoadProbe(t) ==
    LET r == req[t]
    IN  /\ Work(t, "probe") /\ ~Refused(r)
        /\ \E v \in SeesServed, o \in SeesTags :
              IF ~r.force /\ r.server = "vllm" /\ v = r.model
              THEN GoOn(t, "answer")
              ELSE GoOn(t, IF ~r.force /\ r.server = "ollama" /\ v = None
                              /\ o = {r.model}
                           THEN "verify" ELSE "gate")
        /\ UNCHANGED <<boardVars, cardVars, victim, probed>>

\* mutant: a forced load skips the gate
MutBlocked(r) ==
    LET i == BlocksUnleased(board, Lane1, Whole)
    IN  ~r.force /\ i # 0 /\ board[i].holder # r.by

\* _preempt_occupant_leases, its first half: another's non-preemptible lease refuses
Blocked(r) ==
    LET i == BlocksUnleased(board, Lane1, Whole)
    IN  i # 0 /\ board[i].holder # r.by

\* the first claim that the gate does not look at: it stops at the first that is not
\* preemptible, be it the requester's own
Unseen ==
    LET i == BlocksUnleased(board, Lane1, Whole)
    IN  IF i = 0 THEN nextId ELSE i + 1

\* revoke_for_eviction, and on to clearing the card
Revoke(t) ==
    /\ End(EvictionTargets(board, Lane1, Whole, req[t].by))
    /\ GoOn(t, "stop")

LoadBlocked(t) ==
    /\ Work(t, "gate") /\ Blocked(req[t])
    /\ Finish(t, "failed")
    /\ UNCHANGED <<boardVars, cardVars, victim, probed>>

LoadGate(t) ==
    /\ Work(t, "gate") /\ ~Blocked(req[t])
    /\ IF req[t].priority = NoPriority
       THEN Revoke(t) /\ UNCHANGED probed
       ELSE GoOn(t, "occupied") /\ probed' = Unseen /\ UNCHANGED boardVars
    /\ UNCHANGED <<cardVars, victim>>

\* a placement-driven load looks at its occupant again, after the probe for one
Displaceable(r) ==
    LET i == ActiveFor(board, Lane1, Whole)
    IN  IF age = 0
        THEN /\ i # 0
             /\ board[i].preemptible
             /\ board[i].priority < r.priority
             /\ PreemptActive
        ELSE i # 0 /\ board[i].preemptible /\ board[i].holder # r.by
                => PreemptLeasedIdle

LoadOccupied(t) ==
    /\ Work(t, "occupied")
    /\ \E v \in SeesServed, o \in SeesTags :
          IF (v # None \/ o # {}) /\ ~Displaceable(req[t])
          THEN Finish(t, "failed") /\ UNCHANGED boardVars
          ELSE Revoke(t)
    /\ probed' = 0
    /\ UNCHANGED <<cardVars, victim>>

\* vllm.stop(): unconditional, whatever the probe said
Stop(t) ==
    /\ Work(t, "stop")
    /\ Goto(t, IF req[t].server = "vllm" /\ req[t].kind = "unload"
               THEN "drain" ELSE "unload")
    /\ IF req[t].server = "ollama" /\ req[t].kind = "unload"
       THEN UNCHANGED <<served, starting, draining>>
       ELSE /\ served' = None /\ starting' = None
            /\ draining' = (draining \/ served # None \/ starting # None)
    /\ UNCHANGED <<boardVars, lock, req, tags, age, victim, histVars>>

\* ollama.unload_all(): a tag that cannot be unloaded stays, silently
UnloadAll(t) ==
    /\ Work(t, "unload")
    /\ Goto(t, "drain")
    /\ \E left \in SUBSET tags :
          tags' = left /\ draining' = (draining \/ left # tags)
    /\ UNCHANGED <<boardVars, lock, req, served, starting, age, victim, histVars>>

AfterDrain(t) == IF pc[t] = "redrain" THEN "reload" ELSE "launch"

\* mutant: the swap goes on as soon as the backends are told to stop
MutSeesFree == TRUE
SeesFree == CardFree

\* _wait_vram_free: the card is seen free, or evict_timeout_s is over
Drain(t) ==
    /\ Work(t, "drain") \/ Work(t, "redrain")
    /\ IF req[t].kind = "unload"
       THEN Finish(t, "done")
       ELSE \/ SeesFree /\ GoOn(t, AfterDrain(t))
            \/ /\ excused' = TRUE /\ Goto(t, AfterDrain(t))
               /\ UNCHANGED <<lock, lost, age, req>>
    /\ UNCHANGED <<boardVars, cardVars, victim, probed>>

\* Ollama is asked to load the tag, or vLLM to start with the alias; either may fail
Launch(t) ==
    /\ Work(t, "launch")
    /\ IF req[t].server = "ollama"
       THEN /\ tags' = tags \union {req[t].model}
            /\ Goto(t, "verify")
            /\ UNCHANGED <<served, starting>>
       ELSE /\ starting' = req[t].model /\ served' = None
            /\ Goto(t, "ready")
            /\ UNCHANGED tags
    /\ UNCHANGED <<boardVars, lock, req, draining, age, victim, histVars>>

LaunchFails(t) ==
    /\ Work(t, "launch")
    /\ Finish(t, "failed")
    /\ UNCHANGED <<boardVars, cardVars, victim, probed>>

\* wait_ready, the grace re-check included
Ready(t) ==
    /\ Work(t, "ready")
    /\ IF served = req[t].model THEN GoOn(t, "answer") ELSE Finish(t, "failed")
    /\ UNCHANGED <<boardVars, cardVars, victim, probed>>

\* _verify_ollama: gone, spilled with room to spare, or fine
Verify(t) ==
    /\ Work(t, "verify")
    /\ \E o \in SeesTags :
          \/ Finish(t, IF req[t].model \in o THEN "done" ELSE "failed")
          \/ /\ req[t].model \in o /\ req[t].pack
             /\ GoOn(t, "repack")
    /\ UNCHANGED <<boardVars, cardVars, victim, probed>>

\* _max_pack_reload: give up, or unload and load again with more layers
Repack(t) ==
    /\ Work(t, "repack")
    /\ \/ Goto(t, "recheck") /\ UNCHANGED <<tags, draining>>
       \/ /\ Goto(t, "redrain")
          /\ tags' = tags \ {req[t].model} /\ draining' = TRUE
    /\ UNCHANGED <<boardVars, lock, req, served, starting, age, victim, histVars>>

Reload(t) ==
    /\ Work(t, "reload")
    /\ \/ tags' = tags \union {req[t].model} /\ Goto(t, "recheck")
       \/ UNCHANGED tags /\ Goto(t, "restore")
    /\ UNCHANGED <<boardVars, lock, req, served, starting, draining, age, victim,
                   histVars>>

Restore(t) ==
    /\ Work(t, "restore")
    /\ tags' \in {tags, tags \union {req[t].model}}
    /\ Goto(t, "recheck")
    /\ UNCHANGED <<boardVars, lock, req, served, starting, draining, age, victim,
                   histVars>>

\* mutant: the result of the first verification is reported after a failed repack
MutStillLoaded(t, o) == TRUE
StillLoaded(t, o) == req[t].model \in o

\* the model may be gone after a failed repack: look again before reporting success
Recheck(t) ==
    /\ Work(t, "recheck")
    /\ \E o \in SeesTags :
          Finish(t, IF StillLoaded(t, o) THEN "done" ELSE "failed")
    /\ UNCHANGED <<boardVars, cardVars, victim, probed>>

LoadStep(t) ==
    \/ LoadRefused(t) \/ LoadProbe(t)
    \/ LoadBlocked(t) \/ LoadGate(t) \/ LoadOccupied(t)
    \/ Launch(t) \/ LaunchFails(t) \/ Ready(t)
    \/ Verify(t) \/ Repack(t) \/ Reload(t) \/ Restore(t) \/ Recheck(t)

-----------------------------------------------------------------------------
(* unload().                                                               *)

\* mutant: a targeted unload clears the lane whatever it holds
MutOccupiedBy(m, v, o) == TRUE
OccupiedBy(m, v, o) == IF v # None THEN v = m ELSE m \in o

\* a targeted unload of a model that is not resident is a no-op
Check(t) ==
    /\ Work(t, "check")
    /\ \E v \in SeesServed, o \in SeesTags :
          IF req[t].model # Unnamed /\ ~OccupiedBy(req[t].model, v, o)
          THEN GoOn(t, "answer")
          ELSE GoOn(t, "stop")
    /\ UNCHANGED <<boardVars, cardVars, victim, probed>>

\* the card is read for the answer, the lock still held: after a vLLM load (_gpu), and
\* after an unload that had nothing to do (status)
Answer(t) ==
    /\ Work(t, "answer")
    /\ Finish(t, "done")
    /\ UNCHANGED <<boardVars, cardVars, victim, probed>>

-----------------------------------------------------------------------------
(* IdleReaper._check_lane.                                                 *)

\* blocks_idle_unload
Held(m) == ActiveFor(board, Lane1, m)

\* the guards before the probe
ReapLooks ==
    /\ pc[Reaper] = "rest"
    /\ Held(Whole) # 0 => board[Held(Whole)].model # Whole
    /\ ~Locked(lock)
    /\ age = 2
    /\ Goto(Reaper, "status")
    /\ UNCHANGED <<boardVars, lock, req, cardVars, age, victim, histVars>>

\* unit.status(): the vLLM model, else the largest tag
ReapProbe ==
    /\ pc[Reaper] = "status" /\ ~HandingOver
    /\ \E v \in SeesServed, o \in SeesTags :
          victim' \in IF v # None THEN {v} ELSE IF o # {} THEN o ELSE {None}
    /\ Goto(Reaper, "decide")
    /\ UNCHANGED <<boardVars, lock, req, cardVars, age, histVars>>

\* from the end of status() to unload() nothing yields
Reapable == /\ victim # None /\ ~Locked(lock)
            /\ age = 2
            /\ Held(victim) = 0

ReapDecides ==
    /\ pc[Reaper] = "decide"
    /\ victim' = None
    /\ IF Reapable
       THEN LET r == [Idle EXCEPT !.model = victim]
            IN  req' = [req EXCEPT ![Reaper] = r] /\ Acquire(Reaper, r)
       ELSE Goto(Reaper, "rest") /\ UNCHANGED <<req, lock>>
    /\ UNCHANGED <<boardVars, cardVars, age, histVars>>

ReapStep == ReapLooks \/ ReapProbe \/ ReapDecides

-----------------------------------------------------------------------------
(* The world around the lane.                                              *)

ClaimStep ==
    /\ \/ \E c \in Offers : Grant(c)
       \/ \E i \in DOMAIN board : End({i})
    /\ UNCHANGED <<lock, pc, req, cardVars, age, victim, histVars>>

\* time passes, or the gateway or the monitor touches the lane; one that was just
\* touched stays active while the lock is handed over
Aging ==
    /\ \/ age' = 0
       \/ age' = 1 /\ age = 0 /\ ~HandingOver
       \/ age' = 2 /\ age = 1
    /\ UNCHANGED <<boardVars, lock, pc, req, cardVars, victim, histVars>>

ComesUp ==
    /\ starting # None
    /\ served' = starting /\ starting' = None
    /\ UNCHANGED <<tags, draining, excused, lost>>
Dies ==
    /\ served # None \/ starting # None
    /\ served' = None /\ starting' = None /\ draining' = TRUE
    /\ lost' = \E t \in Actors : Work(t, "answer")
    /\ UNCHANGED <<tags, excused>>
Drained ==
    /\ draining /\ draining' = FALSE
    /\ UNCHANGED <<served, starting, tags, excused, lost>>
DirectLoad ==
    /\ tags' \in {tags \union {o} : o \in OModels \ tags}
    /\ excused' = Locked(lock)
    /\ UNCHANGED <<served, starting, draining, lost>>

CardStep ==
    /\ ComesUp \/ Dies \/ Drained \/ DirectLoad
    /\ UNCHANGED <<boardVars, lock, pc, req, age, victim, probed>>

-----------------------------------------------------------------------------

TaskStep(t) ==
    \/ Wake(t) \/ TimeOut(t)
    \/ LoadStep(t) \/ Check(t) \/ Answer(t) \/ Stop(t) \/ UnloadAll(t) \/ Drain(t)

Next ==
    \/ \E t \in Tasks : Enter(t)
    \/ \E t \in Actors : TaskStep(t)
    \/ ReapStep
    \/ ClaimStep \/ Aging \/ CardStep

Spec == Init /\ [][Next]_vars

\* The event loop runs every task that can run; every call to a backend returns or
\* times out.
Fairness == \A t \in Actors : WF_vars(TaskStep(t))
FairSpec == Spec /\ Fairness

-----------------------------------------------------------------------------
(* Properties.                                                             *)

\* The owner of the swap lock, and nobody else, is in the middle of a swap; those in
\* its queue wait, and nobody waits twice.
TypeOK ==
    /\ lock \in SwapLocks(Actors)
    /\ pc \in [Actors -> Where] /\ req \in [Actors -> Requests \union Request]
    /\ served \in VModels \union {None} /\ starting \in VModels \union {None}
    /\ tags \subseteq OModels /\ draining \in BOOLEAN
    /\ age \in 0..2 /\ victim \in Names \union {None}
    /\ \A t \in Actors : /\ pc[t] \in Swapping <=> lock.owner = t
                         /\ pc[t] = "queued" <=> Waits(lock, t)

\* "The 100%-VRAM gate": a backend starts to load only onto a card that is back at its
\* baseline -- except when this swap gave up waiting for it, or a client of Ollama
\* loaded something behind the lane's back.  Two swaps never interleave here, so
\* nothing else can have been launched since the wait.
LaunchOnDrainedCard ==
    [][\A t \in Tasks :
         pc[t] = "launch" /\ pc'[t] \in {"verify", "ready"} => CardFree \/ excused]_vars

\* A swap evicts under nobody's non-preemptible claim that its gate looked at: when a
\* load goes on to clear the card, every claim of others that is left on the lane is
\* non-preemptible, and was granted while the load probed for its occupant, or comes
\* after a non-preemptible claim of the requester's own (_preempt_occupant_leases).
EvictionSparesClaims ==
    [][\A t \in Tasks :
         pc[t] # "stop" /\ pc'[t] = "stop" /\ req[t].kind = "load" =>
            \A i \in OnUnit(board', Lane1) :
               board'[i].holder # req[t].by =>
                  /\ ~board'[i].preemptible
                  /\ i >= IF pc[t] = "occupied" THEN probed ELSE Unseen]_vars

\* The reaper and targeted unloads name the victim they saw; by the time they own the
\* lock another swap may have replaced it, and vLLM is then not stopped for it
\* ("a neighbour loaded between their probe and this call must survive").
TargetedUnloadSparesNeighbour ==
    \A t \in Actors :
        /\ pc[t] = "stop" /\ req[t].kind = "unload" /\ req[t].model # Unnamed
        /\ served \notin {None, req[t].model}
        => req[t].model \in tags

\* A load that reports success left its model resident (an Ollama load looks again
\* after a repack that failed half-way) -- except when vLLM died while the card was
\* read for the answer, after the last look at the model.
SuccessIsResident ==
    [][\A t \in Tasks :
         pc[t] \in Swapping /\ pc'[t] = "done" /\ req[t].kind = "load" =>
            req[t].model \in Occupants \/ lost]_vars

\* Whoever waits for the swap lock gets it or gives up, and whoever has it ends: no
\* load, unload or reap hangs on the lane.
SwapsEnd == \A t \in Actors : pc[t] \in Swapping \union {"queued"} ~>
                                pc[t] \notin Swapping \union {"queued"}

-----------------------------------------------------------------------------
(* What a comment says of the lane, and the code does not keep.             *)

\* IdleReaper._check_lane: "No await between these checks and unload(): an uncontended
\* asyncio.Lock acquires without yielding ..., so neither a competing load nor a lease
\* claimed during the status probe above can interleave"
ReapsUnclaimedIdle ==
    [][pc[Reaper] # "check" /\ pc'[Reaper] = "check" =>
         age = 2 /\ Held(req'[Reaper].model) = 0]_vars
=============================================================================
