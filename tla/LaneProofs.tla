----------------------------- MODULE LaneProofs -----------------------------
(***************************************************************************)
(* Theorems about a lane, for every set of tasks, models, claims and       *)
(* requests: all that is said of it except that its swaps end.             *)
(*                                                                         *)
(* LaneInv is inductive.  It says who may be where and what he carries     *)
(* there (PlacesOK, CarriesOK), what the card can hold (CardOK), and for   *)
(* the task in the middle of a swap what its guards have established and   *)
(* the rest of the lane cannot undo before its next step (SwapOK).         *)
(***************************************************************************)
EXTENDS Lane, UnitProofs

\* Where only loads go, and of them only those to Ollama.
OllamaOnly == {"verify", "repack", "redrain", "reload", "restore", "recheck"}
LoadOnly   == {"probe", "gate", "occupied", "launch", "ready"} \union OllamaOnly

\* Where a guard of the swap has established something.
Guarded == {"occupied", "launch", "stop", "answer"}

\* The owner of the lock swaps, those in the queue wait, and nobody else does.
PlacesOK ==
    /\ InOrder(lock, Actors)
    /\ pc \in [Actors -> Where]
    /\ \A t \in Actors : /\ pc[t] \in Swapping <=> lock.owner = t
                         /\ pc[t] = "queued" <=> Waits(lock, t)

\* A load names a model of its server; who is where only loads go carries one.
CarriesOK ==
    /\ req \in [Actors -> Request]
    /\ \A t \in Actors :
          /\ req[t].kind = "load" => \/ req[t].server = "ollama" /\ req[t].model \in OModels
                                     \/ req[t].server = "vllm" /\ req[t].model \in VModels
          /\ pc[t] \in LoadOnly => req[t].kind = "load"
          /\ pc[t] \in OllamaOnly => req[t].server = "ollama"
          /\ pc[t] = "check" => req[t].kind = "unload"

\* vLLM serves a model or comes up with one, never both.
CardOK ==
    /\ served \in VModels \union {None} /\ starting \in VModels \union {None}
    /\ served = None \/ starting = None
    /\ tags \subseteq OModels /\ draining \in BOOLEAN
    /\ age \in 0..2 /\ victim \in Names \union {None} /\ excused \in BOOLEAN
    /\ lost \in BOOLEAN

\* While a load probes for its occupant: of the claims its gate looked at, those that
\* cannot be preempted are the requester's own.
Gated(t) ==
    pc[t] = "occupied" =>
        \A i \in OnUnit(board, Lane1) :
            i < probed /\ ~board[i].preemptible => board[i].holder = req[t].by

\* About to launch: the card is free, or the swap is excused.
Cleared(t) == pc[t] = "launch" => CardFree \/ excused

\* A targeted unload about to stop: its model is loaded, or vLLM holds no other.
Aimed(t) ==
    pc[t] = "stop" /\ req[t].kind = "unload" /\ req[t].model # Unnamed =>
        \/ req[t].model \in tags
        \/ served \in {None, req[t].model} /\ starting = None

\* A load that is about to report success: its model is up, or vLLM has died since.
Resident(t) ==
    pc[t] = "answer" /\ req[t].kind = "load" => served = req[t].model \/ lost

SwapOK == \A t \in Actors : Gated(t) /\ Cleared(t) /\ Aimed(t) /\ Resident(t)

LaneInv ==
    /\ BoardOK /\ probed \in 0..nextId
    /\ PlacesOK /\ CarriesOK /\ CardOK /\ SwapOK

-----------------------------------------------------------------------------
(* Who goes where.                                                         *)

\* One task moves, and the lock agrees about it and has not changed for the others.
LEMMA OneMoves ==
    ASSUME PlacesOK, NEW t \in Actors, NEW w \in Where, Goto(t, w),
           InOrder(lock', Actors),
           \A x \in Actors \ {t} : /\ lock'.owner = x <=> lock.owner = x
                                   /\ Waits(lock', x) <=> Waits(lock, x),
           w \in Swapping <=> lock'.owner = t,
           w = "queued" <=> Waits(lock', t)
    PROVE  /\ PlacesOK'
           /\ pc'[t] = w /\ \A x \in Actors \ {t} : pc'[x] = pc[x]
<1>1. /\ pc' \in [Actors -> Where]
      /\ pc'[t] = w /\ \A x \in Actors \ {t} : pc'[x] = pc[x]
  BY DEF PlacesOK, Goto
<1>2. ASSUME NEW x \in Actors
      PROVE  /\ pc'[x] \in Swapping <=> lock'.owner = x
             /\ pc'[x] = "queued" <=> Waits(lock', x)
  <2>1. CASE x = t
    BY <1>1, <2>1
  <2>2. CASE x # t
    BY <1>1, <2>2 DEF PlacesOK
  <2>3. QED BY <2>1, <2>2
<1>3. QED BY <1>1, <1>2 DEF PlacesOK

\* _acquire_swap_lock: the task owns the lock, or waits for it.
LEMMA AcquireMoves ==
    ASSUME PlacesOK, NEW t \in Actors, NEW r, Acquire(t, r),
           pc[t] \notin Swapping, pc[t] # "queued"
    PROVE  /\ PlacesOK'
           /\ pc'[t] \in {FirstStep(r), "queued"}
           /\ \A x \in Actors \ {t} : pc'[x] = pc[x]
<1>1. InOrder(lock, Actors) /\ ~Waits(lock, t) /\ lock.owner # t
  BY DEF PlacesOK
<1>2. FirstStep(r) \in Swapping /\ FirstStep(r) \in Where /\ FirstStep(r) # "queued"
  BY DEF FirstStep, Swapping, Where
<1>3. CASE Uncontended(lock)
  <2>1. lock' = Take(lock, t) /\ Goto(t, FirstStep(r))
    BY <1>3 DEF Acquire
  <2>2. /\ InOrder(lock', Actors) /\ lock'.owner = t
        /\ \A x : ~Waits(lock, x) /\ ~Waits(lock', x)
    BY <1>1, <1>3, <2>1, TakeMoves
  <2>3. \A x \in Actors \ {t} : lock'.owner = x <=> lock.owner = x
    BY <1>3, <2>2, LaneAssumption DEF Uncontended, Locked, Actors
  <2>4. QED BY <1>2, <2>1, <2>2, <2>3, OneMoves
<1>4. CASE ~Uncontended(lock)
  <2>1. lock' = Queue(lock, t) /\ Goto(t, "queued")
    BY <1>4 DEF Acquire
  <2>2. /\ InOrder(lock', Actors) /\ lock'.owner = lock.owner
        /\ \A x : Waits(lock', x) <=> Waits(lock, x) \/ x = t
    BY <1>1, <2>1, QueueMoves
  <2>3. "queued" \in Where /\ "queued" \notin Swapping
    BY DEF Where, Swapping
  <2>4. QED BY <1>1, <2>1, <2>2, <2>3, OneMoves
<1>5. QED BY <1>3, <1>4

\* The end of a swap: nobody owns the lock.
LEMMA FinishMoves ==
    ASSUME PlacesOK, NEW t \in Actors, lock.owner = t, NEW how \in Over, Finish(t, how)
    PROVE  /\ PlacesOK'
           /\ lock'.owner = NoTask
           /\ pc'[t] \in {"done", "failed", "rest"}
           /\ \A x \in Actors \ {t} : pc'[x] = pc[x]
<1> DEFINE w == IF t = Reaper THEN "rest" ELSE how
<1>1. lock' = Release(lock) /\ Goto(t, w)
  BY DEF Finish, Released
<1>2. /\ w \in {"done", "failed", "rest"}
      /\ w \in Where /\ w \notin Swapping /\ w # "queued"
  BY DEF Over, Where, Swapping
<1> HIDE DEF w
<1>3. /\ InOrder(lock', Actors) /\ lock'.owner = NoTask
      /\ \A x : Waits(lock', x) <=> Waits(lock, x)
  BY <1>1, ReleaseMoves, LaneAssumption DEF PlacesOK, Actors
<1>4. NoTask \notin Actors
  BY LaneAssumption DEF Actors
<1>5. ~Waits(lock, t)
  BY DEF PlacesOK, InOrder
<1>6. QED BY <1>1, <1>2, <1>3, <1>4, <1>5, OneMoves

\* A swap goes on: its task still owns the lock.
LEMMA SwapMoves ==
    ASSUME PlacesOK, NEW t \in Actors, lock.owner = t, NEW w \in Swapping, Goto(t, w),
           lock' = lock
    PROVE  /\ PlacesOK'
           /\ pc'[t] = w /\ \A x \in Actors \ {t} : pc'[x] = pc[x]
<1>1. w \in Where /\ w # "queued"
  BY DEF Where, Swapping
<1>2. InOrder(lock', Actors) /\ ~Waits(lock', t)
  BY DEF PlacesOK, InOrder
<1>3. QED BY <1>1, <1>2, OneMoves

-----------------------------------------------------------------------------
(* What they carry.                                                        *)

\* Everybody keeps his request, and the one who moves may go there with it.
LEMMA CarriedOn ==
    ASSUME PlacesOK, CarriesOK, NEW t \in Actors, NEW w, Goto(t, w), req' = req,
           w \in LoadOnly => req[t].kind = "load",
           w \in OllamaOnly => req[t].server = "ollama",
           w = "check" => req[t].kind = "unload"
    PROVE  CarriesOK'
<1>1. pc'[t] = w /\ \A x \in Actors \ {t} : pc'[x] = pc[x]
  BY DEF PlacesOK, Goto
<1>2. QED BY <1>1 DEF CarriesOK

\* The empty request is a request.
LEMMA IdleIsRequest == Idle \in Request
<1>1. NoPriority \in NoPriority..MaxPriority
  BY LaneAssumption DEF NoPriority
<1>2. QED BY <1>1 DEF Idle, Request

\* The one who has finished puts his request down.
LEMMA PutDown ==
    ASSUME PlacesOK, CarriesOK, NEW t \in Actors, NEW w \in {"done", "failed", "rest"},
           pc'[t] = w, \A x \in Actors \ {t} : pc'[x] = pc[x],
           req' = [req EXCEPT ![t] = Idle]
    PROVE  CarriesOK'
<1>1. /\ req' \in [Actors -> Request]
      /\ req'[t] = Idle /\ \A x \in Actors \ {t} : req'[x] = req[x]
  BY IdleIsRequest DEF CarriesOK
<1>2. Idle.kind = "unload"
  BY DEF Idle
<1>3. w \notin LoadOnly /\ w # "check" /\ w \notin OllamaOnly
  BY DEF LoadOnly, OllamaOnly
<1>4. ASSUME NEW x \in Actors
      PROVE  /\ req'[x].kind = "load" =>
                    \/ req'[x].server = "ollama" /\ req'[x].model \in OModels
                    \/ req'[x].server = "vllm" /\ req'[x].model \in VModels
             /\ pc'[x] \in LoadOnly => req'[x].kind = "load"
             /\ pc'[x] \in OllamaOnly => req'[x].server = "ollama"
             /\ pc'[x] = "check" => req'[x].kind = "unload"
  <2>1. CASE x = t
    BY <1>1, <1>2, <1>3, <2>1
  <2>2. CASE x # t
    BY <1>1, <2>2 DEF CarriesOK
  <2>3. QED BY <2>1, <2>2
<1>5. QED BY <1>1, <1>4 DEF CarriesOK

-----------------------------------------------------------------------------
(* What the guards of a swap have established.                             *)

\* Nobody but t can be in the middle of a swap.
LEMMA NobodyElseSwaps ==
    ASSUME PlacesOK', NEW t \in Actors, lock'.owner \in {t, NoTask},
           Gated(t)', Cleared(t)', Aimed(t)', Resident(t)'
    PROVE  SwapOK'
<1>1. NoTask \notin Actors
  BY LaneAssumption DEF Actors
<1>2. ASSUME NEW x \in Actors, x # t
      PROVE  Gated(x)' /\ Cleared(x)' /\ Aimed(x)' /\ Resident(x)'
  <2>1. pc'[x] \notin Swapping
    BY <1>1, <1>2 DEF PlacesOK
  <2>2. pc'[x] \notin Guarded
    BY <2>1 DEF Swapping, Guarded
  <2>3. QED BY <2>2 DEF Gated, Cleared, Aimed, Resident, Guarded
<1>3. QED BY <1>2 DEF SwapOK

\* A step that leaves the lane alone, and nobody reaches a guarded place by it.
LEMMA LeftAlone ==
    ASSUME SwapOK, UNCHANGED <<board, served, starting, tags, draining, excused, probed,
                       lost>>,
           \A x \in Actors : pc'[x] \in Guarded =>
                                pc'[x] = pc[x] /\ req'[x] = req[x]
    PROVE  SwapOK'
<1>1. ASSUME NEW x \in Actors
      PROVE  Gated(x)' /\ Cleared(x)' /\ Aimed(x)' /\ Resident(x)'
  <2>1. Gated(x) /\ Cleared(x) /\ Aimed(x) /\ Resident(x)
    BY DEF SwapOK
  <2>2. Gated(x)'
    BY <2>1 DEF Gated, Guarded
  <2>3. Cleared(x)'
    BY <2>1 DEF Cleared, CardFree, Guarded
  <2>4. Aimed(x)'
    BY <2>1 DEF Aimed, Guarded
  <2>5. Resident(x)'
    BY <2>1 DEF Resident, Guarded
  <2>6. QED BY <2>2, <2>3, <2>4, <2>5
<1>2. QED BY <1>1 DEF SwapOK

-----------------------------------------------------------------------------
(* The steps of a swap.                                                    *)

\* Where t is in the middle of a swap, it owns the lock.
LEMMA AtWork ==
    ASSUME LaneInv, NEW t \in Actors, NEW w, Work(t, w)
    PROVE  /\ lock.owner = t /\ pc[t] = w
           /\ PlacesOK /\ CarriesOK /\ CardOK /\ SwapOK /\ BoardOK
           /\ req[t] \in Request
BY DEF LaneInv, Work, CarriesOK

\* The end of a swap keeps the invariant, however it ends.
LEMMA FinishKeeps ==
    ASSUME LaneInv, NEW t \in Actors, lock.owner = t, NEW how \in Over, Finish(t, how),
           UNCHANGED <<boardVars, cardVars, victim>>, probed' \in {probed, 0}
    PROVE  LaneInv'
<1>1. PlacesOK /\ CarriesOK /\ CardOK /\ BoardOK /\ probed \in 0..nextId
  BY DEF LaneInv
<1>2. /\ PlacesOK' /\ lock'.owner = NoTask /\ pc'[t] \in {"done", "failed", "rest"}
      /\ \A x \in Actors \ {t} : pc'[x] = pc[x]
  BY <1>1, FinishMoves
<1>3. req' = [req EXCEPT ![t] = Idle] /\ age' \in {0, age} /\ excused' = FALSE
      /\ lost' = FALSE
  BY DEF Finish
<1>4. CarriesOK'
  BY <1>1, <1>2, <1>3, PutDown
<1>5. CardOK'
  <2>1. UNCHANGED <<served, starting, tags, draining, victim>>
    BY DEF cardVars
  <2>2. age' \in 0..2
    BY <1>1, <1>3 DEF CardOK
  <2>3. excused' \in BOOLEAN /\ lost' \in BOOLEAN
    BY <1>3
  <2>4. QED BY <1>1, <2>1, <2>2, <2>3 DEF CardOK
<1>6. BoardOK' /\ probed' \in 0..nextId'
  BY <1>1 DEF BoardOK, boardVars
<1>7. Gated(t)' /\ Cleared(t)' /\ Aimed(t)' /\ Resident(t)'
  BY <1>2 DEF Gated, Cleared, Aimed, Resident
<1>8. SwapOK'
  BY <1>2, <1>7, NobodyElseSwaps
<1>9. QED BY <1>2, <1>4, <1>5, <1>6, <1>8 DEF LaneInv

\* A swap that goes on keeps it where its task may be in the next place, and what the
\* next place asks for has been established.
LEMMA SwapKeeps ==
    ASSUME LaneInv, NEW t \in Actors, lock.owner = t, NEW w \in Swapping, Goto(t, w),
           lock' = lock, req' = req,
           w \in LoadOnly => req[t].kind = "load",
           w \in OllamaOnly => req[t].server = "ollama",
           w = "check" => req[t].kind = "unload",
           BoardOK', probed' \in 0..nextId', CardOK',
           w = "occupied" => Gated(t)', w = "launch" => Cleared(t)',
           w = "stop" => Aimed(t)', w = "answer" => Resident(t)'
    PROVE  LaneInv'
<1>1. PlacesOK /\ CarriesOK
  BY DEF LaneInv
<1>2. PlacesOK' /\ pc'[t] = w
  BY <1>1, SwapMoves
<1>3. CarriesOK'
  BY <1>1, CarriedOn
<1>4. Gated(t)' /\ Cleared(t)' /\ Aimed(t)' /\ Resident(t)'
  BY <1>2 DEF Gated, Cleared, Aimed, Resident
<1>5. SwapOK'
  BY <1>2, <1>4, NobodyElseSwaps
<1>6. QED BY <1>2, <1>3, <1>5 DEF LaneInv

\* A server refuses the load at once.
LEMMA LoadRefusedKeeps ==
    ASSUME LaneInv, NEW t \in Actors, LoadRefused(t)
    PROVE  LaneInv'
<1>1. Work(t, "probe") /\ Finish(t, "failed") /\ UNCHANGED <<boardVars, cardVars, victim>>
      /\ probed' = probed /\ "failed" \in Over
  BY DEF LoadRefused, Over
<1>2. QED BY <1>1, AtWork, FinishKeeps

\* The probe: the fast path, or on to the gate.
LEMMA LoadProbeKeeps ==
    ASSUME LaneInv, NEW t \in Actors, LoadProbe(t)
    PROVE  LaneInv'
<1>1. Work(t, "probe")
  BY DEF LoadProbe
<1>2. /\ lock.owner = t /\ pc[t] = "probe" /\ BoardOK /\ CardOK /\ probed \in 0..nextId
      /\ req[t].kind = "load"
  BY <1>1, AtWork DEF LaneInv, CarriesOK, LoadOnly
<1>3. UNCHANGED <<boardVars, cardVars, victim, probed>>
  BY DEF LoadProbe
<1>4. ASSUME NEW w \in {"answer", "verify", "gate"}, GoOn(t, w),
             w = "verify" => req[t].server = "ollama",
             w = "answer" => served = req[t].model
      PROVE  LaneInv'
  <2>1. BoardOK' /\ probed' \in 0..nextId' /\ CardOK'
    BY <1>2, <1>3, <1>4 DEF BoardOK, CardOK, GoOn, boardVars, cardVars
  <2>2. /\ w \in Swapping /\ w # "check" /\ w # "occupied" /\ w # "launch" /\ w # "stop"
        /\ w \in OllamaOnly => w = "verify"
    BY DEF Swapping, OllamaOnly
  <2>3. Goto(t, w) /\ lock' = lock /\ req' = req
    BY <1>4 DEF GoOn
  <2>4. w \in LoadOnly => req[t].kind = "load"
    BY <1>2
  <2>5. w = "answer" => Resident(t)'
    BY <1>3, <1>4, <2>3 DEF Resident, cardVars
  <2>6. QED BY <1>2, <1>4, <2>1, <2>2, <2>3, <2>4, <2>5, SwapKeeps
<1>5. None \notin VModels
  BY LaneAssumption
<1>6. \/ GoOn(t, "answer") /\ served = req[t].model
      \/ GoOn(t, "gate")
      \/ GoOn(t, "verify") /\ req[t].server = "ollama"
  <2>1. PICK v \in SeesServed, o \in SeesTags :
           \/ GoOn(t, "answer") /\ v = req[t].model /\ req[t].server = "vllm"
           \/ GoOn(t, "gate")
           \/ GoOn(t, "verify") /\ req[t].server = "ollama"
    BY DEF LoadProbe
  <2>2. req[t].server = "vllm" => req[t].model \in VModels
    BY <1>2, AtWork, <1>1 DEF CarriesOK
  <2>3. QED BY <1>5, <2>1, <2>2 DEF SeesServed
<1>7. QED BY <1>4, <1>6

\* Another's non-preemptible lease refuses the load.
LEMMA LoadBlockedKeeps ==
    ASSUME LaneInv, NEW t \in Actors, LoadBlocked(t)
    PROVE  LaneInv'
<1>1. Work(t, "gate") /\ Finish(t, "failed") /\ UNCHANGED <<boardVars, cardVars, victim>>
      /\ probed' = probed /\ "failed" \in Over
  BY DEF LoadBlocked, Over
<1>2. QED BY <1>1, AtWork, FinishKeeps

\* A revocation before the card is cleared.
LEMMA RevokeKeeps ==
    ASSUME LaneInv, NEW t \in Actors, lock.owner = t, req[t].kind = "load", Revoke(t),
           UNCHANGED <<cardVars, victim>>, probed' \in {probed, 0}
    PROVE  LaneInv'
<1>1. BoardOK /\ CardOK /\ probed \in 0..nextId
  BY DEF LaneInv
<1>2. /\ End(EvictionTargets(board, Lane1, Whole, req[t].by))
      /\ Goto(t, "stop") /\ UNCHANGED <<lock, excused, lost, age, req>>
  BY DEF Revoke, GoOn
<1>3. BoardOK' /\ nextId' = nextId
  BY <1>1, <1>2, EndKeepsBoard
<1>4. CardOK'
  BY <1>1, <1>2 DEF CardOK, cardVars
<1>5. Aimed(t)'
  BY <1>2 DEF Aimed
<1>6. /\ "stop" \in Swapping /\ "stop" \notin LoadOnly /\ "stop" \notin OllamaOnly
  BY DEF Swapping, LoadOnly, OllamaOnly
<1>7. probed' \in 0..nextId'
  BY <1>1, <1>3 DEF BoardOK
<1>8. QED BY <1>2, <1>3, <1>4, <1>5, <1>6, <1>7, SwapKeeps

\* The gate has looked at every claim before the first that it does not look at.
LEMMA GateHasSeen ==
    ASSUME BoardOK, NEW r, ~Blocked(r)
    PROVE  /\ Unseen \in 1..nextId
           /\ \A i \in OnUnit(board, Lane1) :
                 i < Unseen /\ ~board[i].preemptible => board[i].holder = r.by
<1> DEFINE k == BlocksUnleased(board, Lane1, Whole)
<1>1. /\ k = 0 => \A i \in OnUnit(board, Lane1) : board[i].preemptible
      /\ k # 0 => /\ k \in OnUnit(board, Lane1) /\ ~board[k].preemptible
                  /\ \A i \in OnUnit(board, Lane1) : ~board[i].preemptible => k <= i
  <2>1. k = BlocksUnleased(board, Lane1, Whole)
    OBVIOUS
  <2> HIDE DEF k
  <2>2. QED BY <2>1, GateStopsAtFirst
<1>2. k # 0 => board[k].holder = r.by
  BY DEF Blocked
<1>3. Unseen = IF k = 0 THEN nextId ELSE k + 1
  BY DEF Unseen
<1> HIDE DEF k
<1>4. /\ nextId \in Nat \ {0}
      /\ \A i \in OnUnit(board, Lane1) : i \in 1..(nextId - 1)
  BY DEF BoardOK, OnUnit
<1>5. CASE k = 0
  BY <1>1, <1>3, <1>4, <1>5
<1>6. CASE k # 0
  <2>1. k \in 1..(nextId - 1) /\ Unseen = k + 1
    BY <1>1, <1>3, <1>4, <1>6
  <2>2. ASSUME NEW i \in OnUnit(board, Lane1), i < k + 1, ~board[i].preemptible
        PROVE  board[i].holder = r.by
    <3>1. i \in Int /\ k <= i
      BY <1>1, <1>4, <1>6, <2>2
    <3>2. i = k
      BY <2>1, <2>2, <3>1
    <3>3. QED BY <1>2, <1>6, <3>2
  <2>3. Unseen \in 1..nextId
    BY <1>4, <2>1
  <2>4. QED BY <2>1, <2>2, <2>3
<1>7. QED BY <1>5, <1>6

\* The gate lets the load pass: to clear the card, or to look at its occupant.
LEMMA LoadGateKeeps ==
    ASSUME LaneInv, NEW t \in Actors, LoadGate(t)
    PROVE  LaneInv'
<1>1. Work(t, "gate")
  BY DEF LoadGate
<1>2. /\ lock.owner = t /\ pc[t] = "gate" /\ BoardOK /\ CardOK
      /\ req[t].kind = "load"
  BY <1>1, AtWork DEF CarriesOK, LoadOnly
<1>3. CASE req[t].priority = NoPriority
  BY <1>2, <1>3, RevokeKeeps DEF LoadGate
<1>4. CASE req[t].priority # NoPriority
  <2>1. /\ Goto(t, "occupied") /\ lock' = lock /\ req' = req /\ excused' = excused
        /\ lost' = lost
        /\ age' = age /\ probed' = Unseen /\ UNCHANGED boardVars
        /\ UNCHANGED <<cardVars, victim>> /\ ~Blocked(req[t])
    BY <1>4 DEF LoadGate, GoOn
  <2>2. BoardOK' /\ CardOK' /\ nextId' = nextId
    BY <1>2, <2>1 DEF BoardOK, CardOK, boardVars, cardVars
  <2>3. /\ Unseen \in 1..nextId
        /\ \A i \in OnUnit(board, Lane1) :
              i < Unseen /\ ~board[i].preemptible => board[i].holder = req[t].by
    BY <1>2, <2>1, GateHasSeen
  <2>4. Gated(t)'
    BY <2>1, <2>3 DEF Gated, boardVars, OnUnit
  <2>5. probed' \in 0..nextId'
    <3>1. nextId \in Nat
      BY <1>2 DEF BoardOK
    <3>2. QED BY <2>1, <2>2, <2>3, <3>1
  <2>6. /\ "occupied" \in Swapping /\ "occupied" \notin OllamaOnly
    BY DEF Swapping, OllamaOnly
  <2>7. QED BY <1>2, <2>1, <2>2, <2>4, <2>5, <2>6, SwapKeeps
<1>5. QED BY <1>3, <1>4

\* A placement-driven load finds its occupant in the way, or goes on to clear the card.
LEMMA LoadOccupiedKeeps ==
    ASSUME LaneInv, NEW t \in Actors, LoadOccupied(t)
    PROVE  LaneInv'
<1>1. Work(t, "occupied")
  BY DEF LoadOccupied
<1>2. lock.owner = t /\ req[t].kind = "load"
  BY <1>1, AtWork DEF CarriesOK, LoadOnly
<1>3. \/ Finish(t, "failed") /\ UNCHANGED boardVars
      \/ Revoke(t)
  BY DEF LoadOccupied
<1>4. probed' = 0 /\ UNCHANGED <<cardVars, victim>>
  BY DEF LoadOccupied
<1>5. QED BY <1>2, <1>3, <1>4, FinishKeeps, RevokeKeeps DEF Over

\* vLLM is told to stop.
LEMMA StopKeeps ==
    ASSUME LaneInv, NEW t \in Actors, Stop(t)
    PROVE  LaneInv'
<1> DEFINE w == IF req[t].server = "vllm" /\ req[t].kind = "unload" THEN "drain" ELSE "unload"
<1>1. Work(t, "stop") /\ Goto(t, w)
  BY DEF Stop
<1>2. lock.owner = t /\ BoardOK /\ CardOK /\ probed \in 0..nextId
  BY <1>1, AtWork DEF LaneInv
<1>3. /\ UNCHANGED <<boardVars, lock, req, tags, age, victim, excused, probed, lost>>
      /\ \/ UNCHANGED <<served, starting, draining>>
         \/ /\ served' = None /\ starting' = None
            /\ draining' = (draining \/ served # None \/ starting # None)
  BY DEF Stop, histVars
<1>4. /\ w \in Swapping /\ w \notin LoadOnly /\ w \notin OllamaOnly
      /\ w \notin {"check", "occupied", "launch", "stop", "answer"}
  BY DEF Swapping, LoadOnly, OllamaOnly
<1> HIDE DEF w
<1>5. BoardOK' /\ probed' \in 0..nextId'
  BY <1>2, <1>3 DEF BoardOK, boardVars
<1>6. draining' \in BOOLEAN
  BY <1>2, <1>3 DEF CardOK
<1>7. CardOK'
  BY <1>2, <1>3, <1>6 DEF CardOK
<1>8. QED BY <1>1, <1>2, <1>3, <1>4, <1>5, <1>7, SwapKeeps

\* Ollama is told to unload; some tags may stay.
LEMMA UnloadAllKeeps ==
    ASSUME LaneInv, NEW t \in Actors, UnloadAll(t)
    PROVE  LaneInv'
<1>1. Work(t, "unload") /\ Goto(t, "drain")
  BY DEF UnloadAll
<1>2. lock.owner = t /\ BoardOK /\ CardOK /\ probed \in 0..nextId
  BY <1>1, AtWork DEF LaneInv
<1>3. PICK left \in SUBSET tags : tags' = left /\ draining' = (draining \/ left # tags)
  BY DEF UnloadAll
<1>4. UNCHANGED <<boardVars, lock, req, served, starting, age, victim, excused, probed, lost>>
  BY DEF UnloadAll, histVars
<1>5. /\ "drain" \in Swapping /\ "drain" \notin LoadOnly /\ "drain" \notin OllamaOnly
  BY DEF Swapping, LoadOnly, OllamaOnly
<1>6. BoardOK' /\ probed' \in 0..nextId'
  BY <1>2, <1>4 DEF BoardOK, boardVars
<1>7. draining' \in BOOLEAN
  BY <1>3
<1>8. CardOK'
  BY <1>2, <1>3, <1>4, <1>7 DEF CardOK
<1>9. QED BY <1>1, <1>2, <1>4, <1>5, <1>6, <1>8, SwapKeeps

\* The wait for the card: it is seen free, or the swap is excused.
LEMMA DrainKeeps ==
    ASSUME LaneInv, NEW t \in Actors, Drain(t)
    PROVE  LaneInv'
<1>1. Work(t, "drain") \/ Work(t, "redrain")
  BY DEF Drain
<1>2. /\ lock.owner = t /\ BoardOK /\ CardOK /\ probed \in 0..nextId
      /\ req[t] \in Request /\ pc[t] \in {"drain", "redrain"}
  BY <1>1, AtWork DEF LaneInv
<1>3. UNCHANGED <<boardVars, cardVars, victim, probed>>
  BY DEF Drain
<1>4. CASE req[t].kind = "unload"
  <2>1. Finish(t, "done") /\ "done" \in Over
    BY <1>4 DEF Drain, Over
  <2>2. QED BY <1>2, <1>3, <2>1, FinishKeeps
<1>5. CASE req[t].kind # "unload"
  <2> DEFINE w == AfterDrain(t)
  <2>1. req[t].kind = "load"
    BY <1>2, <1>5 DEF Request
  <2>2. /\ w \in {"reload", "launch"}
        /\ w = "reload" => pc[t] = "redrain"
    BY DEF AfterDrain
  <2>3. /\ Goto(t, w) /\ lock' = lock /\ req' = req /\ age' = age /\ lost' = lost
        /\ (CardFree /\ excused' = excused) \/ excused' = TRUE
    BY <1>5 DEF Drain, GoOn, SeesFree
  <2> HIDE DEF w
  <2>4. /\ w \in Swapping
        /\ w \in OllamaOnly => w = "reload"
        /\ w \notin {"check", "occupied", "stop", "answer"}
    BY <2>2 DEF Swapping, OllamaOnly
  <2>5. w \in OllamaOnly => req[t].server = "ollama"
    <3>1. "redrain" \in OllamaOnly
      BY DEF OllamaOnly
    <3>2. QED BY <2>2, <2>4, <3>1 DEF LaneInv, CarriesOK
  <2>6. BoardOK' /\ probed' \in 0..nextId'
    BY <1>2, <1>3 DEF BoardOK, boardVars
  <2>7. UNCHANGED <<served, starting, tags, draining, victim>> /\ excused' \in BOOLEAN
    BY <1>2, <1>3, <2>3 DEF cardVars, CardOK
  <2>8. CardOK'
    BY <1>2, <2>3, <2>7 DEF CardOK
  <2>9. Cleared(t)'
    BY <2>3, <2>7 DEF Cleared, CardFree
  <2>10. QED BY <1>2, <2>1, <2>3, <2>4, <2>5, <2>6, <2>8, <2>9, SwapKeeps
<1>6. QED BY <1>4, <1>5

\* Ollama loads the tag, or vLLM starts to come up with the alias.
LEMMA LaunchKeeps ==
    ASSUME LaneInv, NEW t \in Actors, Launch(t)
    PROVE  LaneInv'
<1>1. Work(t, "launch")
  BY DEF Launch
<1>2. /\ lock.owner = t /\ BoardOK /\ CardOK /\ probed \in 0..nextId
      /\ req[t].kind = "load"
      /\ \/ req[t].server = "ollama" /\ req[t].model \in OModels
         \/ req[t].server = "vllm" /\ req[t].model \in VModels
  BY <1>1, AtWork DEF LaneInv, CarriesOK, LoadOnly
<1>3. UNCHANGED <<boardVars, lock, req, draining, age, victim, excused, probed, lost>>
  BY DEF Launch, histVars
<1>4. BoardOK' /\ probed' \in 0..nextId'
  BY <1>2, <1>3 DEF BoardOK, boardVars
<1>5. CASE req[t].server = "ollama"
  <2>1. /\ Goto(t, "verify") /\ tags' = tags \union {req[t].model}
        /\ UNCHANGED <<served, starting>>
    BY <1>5 DEF Launch
  <2>2. CardOK'
    BY <1>2, <1>3, <1>5, <2>1 DEF CardOK
  <2>3. "verify" \in Swapping
    BY DEF Swapping
  <2>4. QED BY <1>2, <1>3, <1>4, <1>5, <2>1, <2>2, <2>3, SwapKeeps
<1>6. CASE req[t].server # "ollama"
  <2>1. /\ Goto(t, "ready") /\ starting' = req[t].model /\ served' = None
        /\ UNCHANGED tags
    BY <1>6 DEF Launch
  <2>2. CardOK'
    BY <1>2, <1>3, <1>6, <2>1 DEF CardOK
  <2>3. "ready" \in Swapping /\ "ready" \notin OllamaOnly
    BY DEF Swapping, OllamaOnly
  <2>4. QED BY <1>2, <1>3, <1>4, <2>1, <2>2, <2>3, SwapKeeps
<1>7. QED BY <1>5, <1>6

\* The backend refuses to load or start.
LEMMA LaunchFailsKeeps ==
    ASSUME LaneInv, NEW t \in Actors, LaunchFails(t)
    PROVE  LaneInv'
<1>1. Work(t, "launch") /\ Finish(t, "failed") /\ UNCHANGED <<boardVars, cardVars, victim>>
      /\ probed' = probed /\ "failed" \in Over
  BY DEF LaunchFails, Over
<1>2. QED BY <1>1, AtWork, FinishKeeps

\* vLLM is ready in time or not.
LEMMA ReadyKeeps ==
    ASSUME LaneInv, NEW t \in Actors, Ready(t)
    PROVE  LaneInv'
<1>1. Work(t, "ready") /\ UNCHANGED <<boardVars, cardVars, victim>> /\ probed' = probed
  BY DEF Ready
<1>2. /\ lock.owner = t /\ BoardOK /\ CardOK /\ probed \in 0..nextId
      /\ req[t].kind = "load"
  BY <1>1, AtWork DEF LaneInv, CarriesOK, LoadOnly
<1>3. CASE served # req[t].model
  <2>1. Finish(t, "failed") /\ "failed" \in Over
    BY <1>3 DEF Ready, Over
  <2>2. QED BY <1>1, <1>2, <2>1, FinishKeeps
<1>4. CASE served = req[t].model
  <2>1. Goto(t, "answer") /\ UNCHANGED <<lock, excused, lost, age, req>>
    BY <1>4 DEF Ready, GoOn
  <2>2. BoardOK' /\ probed' \in 0..nextId' /\ CardOK'
    BY <1>1, <1>2, <2>1 DEF BoardOK, boardVars, CardOK, cardVars
  <2>3. Resident(t)'
    BY <1>1, <1>4, <2>1 DEF Resident, cardVars
  <2>4. "answer" \in Swapping /\ "answer" \notin LoadOnly /\ "answer" \notin OllamaOnly
    BY DEF Swapping, LoadOnly, OllamaOnly
  <2>5. QED BY <1>2, <2>1, <2>2, <2>3, <2>4, SwapKeeps
<1>5. QED BY <1>3, <1>4

\* The answer is given, and the swap over.
LEMMA AnswerKeeps ==
    ASSUME LaneInv, NEW t \in Actors, Answer(t)
    PROVE  LaneInv'
<1>1. Work(t, "answer") /\ Finish(t, "done") /\ UNCHANGED <<boardVars, cardVars, victim>>
      /\ probed' = probed /\ "done" \in Over
  BY DEF Answer, Over
<1>2. QED BY <1>1, AtWork, FinishKeeps

\* The verification of an Ollama load: over, or on to a repack.
LEMMA VerifyKeeps ==
    ASSUME LaneInv, NEW t \in Actors, Verify(t)
    PROVE  LaneInv'
<1>1. Work(t, "verify")
  BY DEF Verify
<1>2. /\ lock.owner = t /\ BoardOK /\ CardOK /\ probed \in 0..nextId
      /\ req[t].kind = "load" /\ req[t].server = "ollama"
  BY <1>1, AtWork DEF LaneInv, CarriesOK, LoadOnly, OllamaOnly
<1>3. UNCHANGED <<boardVars, cardVars, victim>> /\ probed' = probed
  BY DEF Verify
<1>4. \/ \E how \in Over : Finish(t, how)
      \/ GoOn(t, "repack")
  BY DEF Verify, Over
<1>5. CASE \E how \in Over : Finish(t, how)
  BY <1>2, <1>3, <1>5, FinishKeeps
<1>6. CASE GoOn(t, "repack")
  <2>1. Goto(t, "repack") /\ UNCHANGED <<lock, excused, lost, age, req>>
    BY <1>6 DEF GoOn
  <2>2. BoardOK' /\ probed' \in 0..nextId' /\ CardOK'
    BY <1>2, <1>3, <2>1 DEF BoardOK, boardVars, CardOK, cardVars
  <2>3. "repack" \in Swapping
    BY DEF Swapping
  <2>4. QED BY <1>2, <2>1, <2>2, <2>3, SwapKeeps
<1>7. QED BY <1>4, <1>5, <1>6

\* A step of the repack, which only Ollama's tags feel.
LEMMA RepackingKeeps ==
    ASSUME LaneInv, NEW t \in Actors, NEW p \in OllamaOnly, Work(t, p),
           NEW w \in OllamaOnly, Goto(t, w),
           tags' \subseteq tags \union {req[t].model}, draining' \in BOOLEAN,
           UNCHANGED <<boardVars, lock, req, served, starting, age, victim, histVars>>
    PROVE  LaneInv'
<1>1. /\ lock.owner = t /\ BoardOK /\ CardOK /\ probed \in 0..nextId
      /\ req[t].kind = "load" /\ req[t].server = "ollama" /\ req[t].model \in OModels
  BY AtWork DEF LaneInv, CarriesOK, LoadOnly
<1>2. UNCHANGED <<boardVars, lock, req, served, starting, age, victim, excused, probed, lost>>
  BY DEF histVars
<1>3. BoardOK' /\ probed' \in 0..nextId'
  BY <1>1, <1>2 DEF BoardOK, boardVars
<1>4. CardOK'
  BY <1>1, <1>2 DEF CardOK
<1>5. w \in Swapping /\ w \notin {"check", "occupied", "launch", "stop", "answer"}
  BY DEF Swapping, OllamaOnly
<1>6. QED BY <1>1, <1>2, <1>3, <1>4, <1>5, SwapKeeps

\* _max_pack_reload, step by step.
LEMMA RepackKeeps ==
    ASSUME LaneInv, NEW t \in Actors, Repack(t) \/ Reload(t) \/ Restore(t)
    PROVE  LaneInv'
<1>1. {"repack", "redrain", "reload", "restore", "recheck"} \subseteq OllamaOnly
  BY DEF OllamaOnly
<1>2. draining \in BOOLEAN
  BY DEF LaneInv, CardOK
<1>3. CASE Repack(t)
  <2>1. /\ Work(t, "repack")
        /\ UNCHANGED <<boardVars, lock, req, served, starting, age, victim, histVars>>
        /\ \/ Goto(t, "recheck") /\ tags' = tags /\ draining' = draining
           \/ Goto(t, "redrain") /\ tags' = tags \ {req[t].model} /\ draining' = TRUE
    BY <1>3 DEF Repack
  <2>2. tags' \subseteq tags \union {req[t].model} /\ draining' \in BOOLEAN
    BY <1>2, <2>1
  <2>3. QED BY <1>1, <2>1, <2>2, RepackingKeeps
<1>4. CASE Reload(t)
  <2>1. /\ Work(t, "reload")
        /\ UNCHANGED <<boardVars, lock, req, served, starting, age, victim, histVars>>
        /\ Goto(t, "recheck") \/ Goto(t, "restore")
        /\ tags' \in {tags, tags \union {req[t].model}} /\ draining' = draining
    BY <1>4 DEF Reload
  <2>2. tags' \subseteq tags \union {req[t].model} /\ draining' \in BOOLEAN
    BY <1>2, <2>1
  <2>3. QED BY <1>1, <2>1, <2>2, RepackingKeeps
<1>5. CASE Restore(t)
  <2>1. /\ Work(t, "restore") /\ Goto(t, "recheck")
        /\ UNCHANGED <<boardVars, lock, req, served, starting, age, victim, histVars>>
        /\ tags' \in {tags, tags \union {req[t].model}} /\ draining' = draining
    BY <1>5 DEF Restore
  <2>2. tags' \subseteq tags \union {req[t].model} /\ draining' \in BOOLEAN
    BY <1>2, <2>1
  <2>3. QED BY <1>1, <2>1, <2>2, RepackingKeeps
<1>6. QED BY <1>3, <1>4, <1>5

\* The last look at the model.
LEMMA RecheckKeeps ==
    ASSUME LaneInv, NEW t \in Actors, Recheck(t)
    PROVE  LaneInv'
<1>1. PICK how \in Over : Finish(t, how)
  BY DEF Recheck, Over
<1>2. Work(t, "recheck") /\ UNCHANGED <<boardVars, cardVars, victim>> /\ probed' = probed
  BY DEF Recheck
<1>3. QED BY <1>1, <1>2, AtWork, FinishKeeps

\* A targeted unload goes on only if it sees its model.
LEMMA CheckKeeps ==
    ASSUME LaneInv, NEW t \in Actors, Check(t)
    PROVE  LaneInv'
<1>1. Work(t, "check")
  BY DEF Check
<1>2. /\ lock.owner = t /\ BoardOK /\ CardOK /\ probed \in 0..nextId
      /\ req[t].kind = "unload"
  BY <1>1, AtWork DEF LaneInv, CarriesOK
<1>3. UNCHANGED <<boardVars, cardVars, victim, probed>>
  BY DEF Check
<1>4. PICK v \in SeesServed, o \in SeesTags :
         IF req[t].model # Unnamed /\ ~OccupiedBy(req[t].model, v, o)
         THEN GoOn(t, "answer") ELSE GoOn(t, "stop")
  BY DEF Check
<1>5. CASE req[t].model # Unnamed /\ ~OccupiedBy(req[t].model, v, o)
  <2>1. Goto(t, "answer") /\ UNCHANGED <<lock, excused, lost, age, req>>
    BY <1>4, <1>5 DEF GoOn
  <2>2. BoardOK' /\ probed' \in 0..nextId' /\ CardOK'
    BY <1>2, <1>3, <2>1 DEF BoardOK, boardVars, CardOK, cardVars
  <2>3. Resident(t)'
    BY <1>2, <2>1 DEF Resident
  <2>4. "answer" \in Swapping /\ "answer" \notin LoadOnly /\ "answer" \notin OllamaOnly
    BY DEF Swapping, LoadOnly, OllamaOnly
  <2>5. QED BY <1>2, <2>1, <2>2, <2>3, <2>4, SwapKeeps
<1>6. CASE ~(req[t].model # Unnamed /\ ~OccupiedBy(req[t].model, v, o))
  <2>1. Goto(t, "stop") /\ UNCHANGED <<lock, excused, lost, age, req>>
    BY <1>4, <1>6 DEF GoOn
  <2>2. BoardOK' /\ probed' \in 0..nextId' /\ CardOK'
    BY <1>2, <1>3, <2>1 DEF BoardOK, boardVars, CardOK, cardVars
  <2>3. Aimed(t)'
    BY <1>2, <1>3, <1>6, <2>1
       DEF Aimed, OccupiedBy, SeesServed, SeesTags, CardOK, cardVars
  <2>4. "stop" \in Swapping /\ "stop" \notin LoadOnly /\ "stop" \notin OllamaOnly
    BY DEF Swapping, LoadOnly, OllamaOnly
  <2>5. QED BY <1>2, <2>1, <2>2, <2>3, <2>4, SwapKeeps
<1>7. QED BY <1>5, <1>6

-----------------------------------------------------------------------------
(* Off the lock: who enters, gives up or looks; claims, time and the card. *)

\* A step on the lock or of the reaper leaves the lane alone.
LEMMA OffLockKeeps ==
    ASSUME LaneInv, PlacesOK', CarriesOK',
           UNCHANGED <<boardVars, cardVars, age, excused, probed, lost>>,
           victim' \in Names \union {None},
           \A x \in Actors : pc'[x] \in Guarded =>
                                pc'[x] = pc[x] /\ req'[x] = req[x]
    PROVE  LaneInv'
<1>1. /\ BoardOK /\ CardOK /\ SwapOK /\ probed \in 0..nextId
      /\ UNCHANGED <<board, nextId, served, starting, tags, draining>>
  BY DEF LaneInv, boardVars, cardVars
<1>2. BoardOK' /\ probed' \in 0..nextId'
  BY <1>1 DEF BoardOK
<1>3. CardOK'
  BY <1>1 DEF CardOK
<1>4. SwapOK'
  BY <1>1, LeftAlone
<1>5. QED BY <1>2, <1>3, <1>4 DEF LaneInv

\* A task asks for the lock.
LEMMA EnterKeeps ==
    ASSUME LaneInv, NEW t \in Tasks, Enter(t)
    PROVE  LaneInv'
<1>1. /\ t \in Actors /\ pc[t] = "new" /\ Acquire(t, req[t])
      /\ UNCHANGED <<boardVars, req, cardVars, age, victim, excused, probed, lost>>
      /\ PlacesOK /\ CarriesOK /\ victim \in Names \union {None}
  BY DEF Enter, Actors, histVars, LaneInv, CardOK
<1>2. "new" \notin Swapping
  BY DEF Swapping
<1>3. /\ PlacesOK' /\ pc'[t] \in {FirstStep(req[t]), "queued"}
      /\ \A x \in Actors \ {t} : pc'[x] = pc[x]
  BY <1>1, <1>2, AcquireMoves
<1>4. /\ pc'[t] \in {"probe", "check", "queued"}
      /\ pc'[t] = "probe" => req[t].kind = "load"
      /\ pc'[t] = "check" => req[t].kind # "load"
  BY <1>3 DEF FirstStep
<1>5. CarriesOK'
  <2>1. req[t].kind \in {"load", "unload"}
    BY <1>1 DEF CarriesOK, Request
  <2>2. "queued" \notin LoadOnly /\ "probe" \notin OllamaOnly /\ "check" \notin LoadOnly
        /\ "check" \notin OllamaOnly /\ "queued" \notin OllamaOnly
    BY DEF LoadOnly, OllamaOnly
  <2>3. QED BY <1>1, <1>3, <1>4, <2>1, <2>2 DEF CarriesOK
<1>6. QED BY <1>1, <1>3, <1>4, <1>5, OffLockKeeps DEF Guarded

\* The woken task takes the lock.
LEMMA WakeKeeps ==
    ASSUME LaneInv, NEW t \in Actors, Wake(t)
    PROVE  LaneInv'
<1> DEFINE w == FirstStep(req[t])
<1>1. /\ Woken(lock, t) /\ lock' = Resume(lock, t) /\ Goto(t, w)
      /\ UNCHANGED <<boardVars, req, cardVars, age, victim, excused, probed, lost>>
      /\ PlacesOK /\ CarriesOK /\ victim \in Names \union {None}
  BY DEF Wake, histVars, LaneInv, CardOK
<1>2. /\ lock.owner = NoTask /\ InOrder(lock', Actors) /\ lock'.owner = t
      /\ \A x : Waits(lock', x) <=> Waits(lock, x) /\ x # t
  BY <1>1, ResumeMoves DEF PlacesOK
<1>3. /\ w \in {"probe", "check"}
      /\ w = "probe" => req[t].kind = "load"
      /\ w = "check" => req[t].kind = "unload"
  BY <1>1 DEF FirstStep, CarriesOK, Request
<1>4. /\ w \in Where /\ w \in Swapping /\ w # "queued"
      /\ w \in LoadOnly => w = "probe"
      /\ w \notin OllamaOnly
  BY DEF Where, Swapping, LoadOnly, OllamaOnly, FirstStep
<1> HIDE DEF w
<1>5. NoTask \notin Actors
  BY LaneAssumption DEF Actors
<1>6. PlacesOK' /\ pc'[t] = w /\ \A x \in Actors \ {t} : pc'[x] = pc[x]
  BY <1>1, <1>2, <1>4, <1>5, OneMoves
<1>7. CarriesOK'
  BY <1>1, <1>3, <1>4, CarriedOn
<1>8. QED BY <1>1, <1>3, <1>6, <1>7, OffLockKeeps DEF Guarded

\* A waiter gives up.
LEMMA TimeOutKeeps ==
    ASSUME LaneInv, NEW t \in Actors, TimeOut(t)
    PROVE  LaneInv'
<1>1. /\ t \in lock.timed /\ lock' = GiveUp(lock, t) /\ Goto(t, "failed")
      /\ req' = [req EXCEPT ![t] = Idle]
      /\ UNCHANGED <<boardVars, cardVars, age, victim, excused, probed, lost>>
      /\ PlacesOK /\ CarriesOK /\ victim \in Names \union {None}
  BY DEF TimeOut, histVars, LaneInv, CardOK
<1>2. /\ InOrder(lock', Actors) /\ lock'.owner = lock.owner
      /\ \A x : Waits(lock', x) <=> Waits(lock, x) /\ x # t
  BY <1>1, GiveUpMoves DEF PlacesOK
<1>3. lock.owner # t
  BY <1>1 DEF PlacesOK, InOrder
<1>4. "failed" \in Where /\ "failed" \notin Swapping
  BY DEF Where, Swapping, Over
<1>5. PlacesOK' /\ pc'[t] = "failed" /\ \A x \in Actors \ {t} : pc'[x] = pc[x]
  BY <1>1, <1>2, <1>3, <1>4, OneMoves
<1>6. CarriesOK'
  BY <1>1, <1>5, PutDown
<1>7. \A x \in Actors \ {t} : req'[x] = req[x]
  BY <1>1 DEF CarriesOK
<1>8. QED BY <1>1, <1>5, <1>6, <1>7, OffLockKeeps DEF Guarded

\* The reaper looks and probes without the lock, and may ask for it.
LEMMA ReaperMoves ==
    ASSUME PlacesOK, CarriesOK, pc[Reaper] \in {"rest", "status", "decide"},
           NEW w \in {"rest", "status", "decide"}, Goto(Reaper, w),
           lock' = lock, req' = req
    PROVE  /\ PlacesOK' /\ CarriesOK'
           /\ \A x \in Actors : pc'[x] \in Guarded => pc'[x] = pc[x]
<1>1. Reaper \in Actors
  BY DEF Actors
<1>2. /\ w \in Where /\ w \notin Swapping /\ w # "queued"
      /\ pc[Reaper] \notin Swapping /\ pc[Reaper] # "queued"
      /\ w \notin LoadOnly /\ w \notin OllamaOnly /\ w # "check"
  BY DEF Where, Swapping, LoadOnly, OllamaOnly
<1>3. InOrder(lock', Actors) /\ lock.owner # Reaper /\ ~Waits(lock, Reaper)
  BY <1>1, <1>2 DEF PlacesOK
<1>4. PlacesOK' /\ pc'[Reaper] = w /\ \A x \in Actors \ {Reaper} : pc'[x] = pc[x]
  BY <1>1, <1>2, <1>3, OneMoves
<1>5. CarriesOK'
  BY <1>1, <1>2, CarriedOn
<1>6. QED BY <1>4, <1>5 DEF Guarded

LEMMA ReapKeeps ==
    ASSUME LaneInv, ReapStep
    PROVE  LaneInv'
<1>1. /\ PlacesOK /\ CarriesOK /\ CardOK /\ victim \in Names \union {None}
      /\ Reaper \in Actors
  BY DEF LaneInv, CardOK, Actors
<1>2. CASE ReapLooks
  <2>1. /\ pc[Reaper] = "rest" /\ Goto(Reaper, "status") /\ lock' = lock /\ req' = req
        /\ UNCHANGED <<boardVars, cardVars, age, victim, excused, probed, lost>>
    BY <1>2 DEF ReapLooks, histVars
  <2>2. QED BY <1>1, <2>1, ReaperMoves, OffLockKeeps
<1>3. CASE ReapProbe
  <2>1. /\ pc[Reaper] = "status" /\ Goto(Reaper, "decide") /\ lock' = lock /\ req' = req
        /\ UNCHANGED <<boardVars, cardVars, age, excused, probed, lost>>
    BY <1>3 DEF ReapProbe, histVars
  <2>2. victim' \in Names \union {None}
    BY <1>1, <1>3, LaneAssumption DEF ReapProbe, SeesServed, SeesTags, CardOK
  <2>3. QED BY <1>1, <2>1, <2>2, ReaperMoves, OffLockKeeps
<1>4. CASE ReapDecides
  <2>1. /\ pc[Reaper] = "decide" /\ victim' = None
        /\ UNCHANGED <<boardVars, cardVars, age, excused, probed, lost>>
    BY <1>4 DEF ReapDecides, histVars
  <2>2. CASE ~Reapable
    <3>1. Goto(Reaper, "rest") /\ lock' = lock /\ req' = req
      BY <1>4, <2>2 DEF ReapDecides
    <3>2. QED BY <1>1, <2>1, <3>1, ReaperMoves, OffLockKeeps
  <2>3. CASE Reapable
    <3> DEFINE r == [Idle EXCEPT !.model = victim]
    <3>1. req' = [req EXCEPT ![Reaper] = r] /\ Acquire(Reaper, r)
      BY <1>4, <2>3 DEF ReapDecides
    <3>2. r \in Request /\ r.kind = "unload"
      <4>1. victim \in Names
        BY <1>1, <2>3 DEF Reapable
      <4>2. Idle \in Request /\ Idle.kind = "unload"
        BY IdleIsRequest DEF Idle
      <4>3. QED BY <4>1, <4>2 DEF Request
    <3>3. FirstStep(r) = "check"
      BY <3>2 DEF FirstStep
    <3> HIDE DEF r
    <3>4. "decide" \notin Swapping
      BY DEF Swapping
    <3>5. /\ PlacesOK' /\ pc'[Reaper] \in {"check", "queued"}
          /\ \A x \in Actors \ {Reaper} : pc'[x] = pc[x]
      BY <1>1, <2>1, <3>1, <3>3, <3>4, AcquireMoves
    <3>6. /\ req' \in [Actors -> Request] /\ req'[Reaper] = r
          /\ \A x \in Actors \ {Reaper} : req'[x] = req[x]
      BY <1>1, <3>1, <3>2 DEF CarriesOK
    <3>7. "queued" \notin LoadOnly /\ "queued" \notin OllamaOnly
          /\ "check" \notin LoadOnly /\ "check" \notin OllamaOnly
      BY DEF LoadOnly, OllamaOnly
    <3>8. CarriesOK'
      BY <1>1, <3>2, <3>5, <3>6, <3>7 DEF CarriesOK
    <3>9. QED BY <2>1, <3>5, <3>6, <3>8, OffLockKeeps DEF Guarded
  <2>4. QED BY <2>2, <2>3
<1>5. QED BY <1>2, <1>3, <1>4 DEF ReapStep

\* A claim comes or goes: nothing that a gate has seen becomes another's.
LEMMA ClaimStepKeeps ==
    ASSUME LaneInv, ClaimStep
    PROVE  LaneInv'
<1>1. /\ BoardOK /\ probed \in 0..nextId /\ PlacesOK /\ CarriesOK /\ CardOK /\ SwapOK
      /\ UNCHANGED <<lock, pc, req, served, starting, tags, draining, age, victim, excused,
                     probed, lost>>
  BY DEF LaneInv, ClaimStep, cardVars, histVars
<1>2. /\ BoardOK' /\ nextId' \in {nextId, nextId + 1}
      /\ \A i \in DOMAIN board' :
            \/ i = nextId
            \/ i \in DOMAIN board /\ board'[i] = board[i]
  <2>1. CASE \E c \in Offers : Grant(c)
    <3>1. PICK c \in Offers : Grant(c)
      BY <2>1
    <3>2. c \in Claim
      BY LaneAssumption
    <3>3. QED BY <1>1, <3>1, <3>2, GrantKeepsBoard
  <2>2. CASE \E i \in DOMAIN board : End({i})
    BY <1>1, <2>2, EndKeepsBoard
  <2>3. QED BY <2>1, <2>2 DEF ClaimStep
<1>3. probed' \in 0..nextId'
  BY <1>1, <1>2 DEF BoardOK
<1>4. ASSUME NEW x \in Actors PROVE Gated(x)' /\ Cleared(x)' /\ Aimed(x)' /\ Resident(x)'
  <2>1. Gated(x) /\ Cleared(x) /\ Aimed(x) /\ Resident(x)
    BY <1>1 DEF SwapOK
  <2>2. Gated(x)'
    <3>1. SUFFICES ASSUME pc[x] = "occupied", NEW i \in OnUnit(board', Lane1),
                          i < probed, ~board'[i].preemptible
                   PROVE  board'[i].holder = req[x].by
      BY <1>1 DEF Gated
    <3>2. i # nextId
      BY <1>1, <3>1 DEF BoardOK
    <3>3. i \in DOMAIN board /\ board'[i] = board[i] /\ i \in OnUnit(board, Lane1)
      BY <1>2, <3>1, <3>2 DEF OnUnit
    <3>4. QED BY <2>1, <3>1, <3>3 DEF Gated
  <2>3. Cleared(x)' /\ Aimed(x)' /\ Resident(x)'
    BY <1>1, <2>1 DEF Cleared, Aimed, Resident, CardFree
  <2>4. QED BY <2>2, <2>3
<1>5. PlacesOK' /\ CarriesOK' /\ CardOK'
  BY <1>1 DEF PlacesOK, CarriesOK, CardOK
<1>6. QED BY <1>2, <1>3, <1>4, <1>5 DEF LaneInv, SwapOK

\* Time passes.
LEMMA AgingKeeps ==
    ASSUME LaneInv, Aging
    PROVE  LaneInv'
<1>1. /\ BoardOK /\ probed \in 0..nextId /\ PlacesOK /\ CarriesOK /\ CardOK /\ SwapOK
      /\ UNCHANGED <<board, nextId, lock, pc, req, served, starting, tags, draining, victim,
                     excused, probed, lost>>
  BY DEF LaneInv, Aging, boardVars, cardVars, histVars
<1>2. age' \in 0..2
  BY <1>1 DEF Aging, CardOK
<1>3. SwapOK'
  BY <1>1, LeftAlone
<1>4. PlacesOK' /\ CarriesOK' /\ BoardOK' /\ probed' \in 0..nextId'
  BY <1>1 DEF PlacesOK, CarriesOK, BoardOK
<1>5. CardOK'
  BY <1>1, <1>2 DEF CardOK
<1>6. QED BY <1>3, <1>4, <1>5 DEF LaneInv

\* The card changes by itself: a free card stays free, or the swap becomes excused; and
\* what a targeted unload is about to stop stays its own.
LEMMA CardStepKeeps ==
    ASSUME LaneInv, CardStep
    PROVE  LaneInv'
<1>1. /\ BoardOK /\ probed \in 0..nextId /\ PlacesOK /\ CarriesOK /\ CardOK /\ SwapOK
      /\ UNCHANGED <<board, nextId, lock, pc, req, age, victim, probed>>
  BY DEF LaneInv, CardStep, boardVars
<1>2. PlacesOK' /\ CarriesOK' /\ BoardOK' /\ probed' \in 0..nextId'
  BY <1>1 DEF PlacesOK, CarriesOK, BoardOK
<1>3. None \notin VModels
  BY LaneAssumption
<1>4. \/ /\ starting # None /\ served' = starting /\ starting' = None
         /\ UNCHANGED <<tags, draining, excused, lost>>
      \/ /\ served # None \/ starting # None
         /\ served' = None /\ starting' = None /\ draining' = TRUE
         /\ lost' = \E t \in Actors : Work(t, "answer")
         /\ UNCHANGED <<tags, excused>>
      \/ /\ draining /\ draining' = FALSE
         /\ UNCHANGED <<served, starting, tags, excused, lost>>
      \/ /\ tags' \in {tags \union {o} : o \in OModels \ tags}
         /\ excused' = Locked(lock)
         /\ UNCHANGED <<served, starting, draining, lost>>
  BY DEF CardStep, ComesUp, Dies, Drained, DirectLoad
<1>5. draining' \in BOOLEAN /\ excused' \in BOOLEAN /\ lost' \in BOOLEAN
  BY <1>1, <1>4 DEF CardOK, Locked
<1>6. CardOK'
  BY <1>1, <1>4, <1>5 DEF CardOK
<1>7. ASSUME NEW x \in Actors PROVE Gated(x)' /\ Cleared(x)' /\ Aimed(x)' /\ Resident(x)'
  <2>1. Gated(x) /\ Cleared(x) /\ Aimed(x) /\ Resident(x)
    BY <1>1 DEF SwapOK
  <2>2. Gated(x)'
    BY <1>1, <2>1 DEF Gated
  <2>3. Cleared(x)'
    <3>1. SUFFICES ASSUME pc[x] = "launch" PROVE CardFree' \/ excused'
      BY <1>1 DEF Cleared
    <3>2. "launch" \in Swapping
      BY DEF Swapping
    <3>3. Locked(lock)
      BY <1>1, <3>1, <3>2, LaneAssumption DEF PlacesOK, Locked, Actors
    <3>4. CASE excused
      BY <1>4, <3>3, <3>4
    <3>5. CASE CardFree
      BY <1>4, <3>3, <3>5 DEF CardFree
    <3>6. QED BY <2>1, <3>1, <3>4, <3>5 DEF Cleared
  <2>4. Aimed(x)'
    BY <1>1, <1>4, <2>1 DEF Aimed
  <2>5. Resident(x)'
    <3>1. SUFFICES ASSUME pc[x] = "answer", req[x].kind = "load"
                   PROVE  served' = req[x].model \/ lost'
      BY <1>1 DEF Resident
    <3>2. req[x].model \in Names /\ None \notin Names
      BY <1>1, <3>1, LaneAssumption DEF CarriesOK
    <3>3. Work(x, "answer")
      BY <1>1, <3>1 DEF PlacesOK, Work, Swapping
    <3>4. served = req[x].model \/ lost
      BY <2>1, <3>1 DEF Resident
    <3>5. served = req[x].model => starting = None
      BY <1>1, <3>2 DEF CardOK
    <3>6. (\E t \in Actors : Work(t, "answer")) = TRUE
      BY <3>3
    <3>7. CASE lost
      BY <1>4, <3>6, <3>7
    <3>8. CASE ~lost
      <4>1. served = req[x].model /\ starting = None
        BY <3>4, <3>5, <3>8
      <4>2. served' = served \/ lost' = \E t \in Actors : Work(t, "answer")
        BY <1>4, <4>1
      <4>3. QED BY <3>6, <4>1, <4>2
    <3>9. QED BY <3>7, <3>8
  <2>6. QED BY <2>2, <2>3, <2>4, <2>5
<1>8. QED BY <1>2, <1>6, <1>7 DEF LaneInv, SwapOK

-----------------------------------------------------------------------------
(* The inductive invariant, and what it gives.                             *)

LEMMA InitHolds == Init => LaneInv
<1> SUFFICES ASSUME Init PROVE LaneInv
  OBVIOUS
<1>1. /\ BoardInit /\ lock = Unlocked
      /\ pc = [t \in Actors |-> IF t = Reaper THEN "rest" ELSE "new"]
      /\ req \in [Actors -> Requests \union {Idle}]
      /\ starting = None /\ draining = FALSE /\ age = 0 /\ victim = None
      /\ excused = FALSE /\ probed = 0 /\ lost = FALSE
  BY DEF Init
<1>2. served \in VModels \union {None} /\ tags \subseteq OModels
  BY DEF Init
<1>3. BoardOK /\ probed \in 0..nextId
  BY <1>1, EmptyBoard DEF BoardOK
<1>4. /\ NoTask \notin Actors /\ InOrder(lock, Actors)
      /\ \A t \in Actors : lock.owner # t /\ ~Waits(lock, t)
  BY <1>1, LaneAssumption, UnlockedInOrder DEF Actors
<1>5. {"rest", "new"} \subseteq Where
      /\ \A w \in {"rest", "new"} :
            /\ w \notin Swapping /\ w # "queued" /\ w \notin LoadOnly
            /\ w \notin OllamaOnly /\ w # "check"
  BY DEF Where, Swapping, LoadOnly, OllamaOnly
<1>6. \A t \in Actors : pc[t] \in {"rest", "new"}
  BY <1>1
<1>7. PlacesOK
  <2>1. pc \in [Actors -> Where]
    BY <1>1, <1>5
  <2>2. QED BY <1>4, <1>5, <1>6, <2>1 DEF PlacesOK
<1>8. CarriesOK
  <2>1. Requests \union {Idle} \subseteq Request
    BY LaneAssumption, IdleIsRequest
  <2>2. req \in [Actors -> Request]
    BY <1>1, <2>1
  <2>3. ASSUME NEW t \in Actors, req[t].kind = "load"
        PROVE  \/ req[t].server = "ollama" /\ req[t].model \in OModels
               \/ req[t].server = "vllm" /\ req[t].model \in VModels
    <3>1. req[t] \in Requests
      BY <1>1, <2>3 DEF Idle
    <3>2. QED BY <2>3, <3>1, LaneAssumption
  <2>4. QED BY <1>5, <1>6, <2>2, <2>3 DEF CarriesOK
<1>9. CardOK
  <2>1. draining \in BOOLEAN /\ excused \in BOOLEAN /\ lost \in BOOLEAN
    BY <1>1
  <2>2. age \in 0..2 /\ victim \in Names \union {None}
    BY <1>1
  <2>3. starting \in VModels \union {None} /\ (served = None \/ starting = None)
    BY <1>1
  <2>4. QED BY <1>2, <2>1, <2>2, <2>3 DEF CardOK
<1>10. SwapOK
  <2>1. \A t \in Actors : pc[t] \notin Guarded
    BY <1>6 DEF Guarded
  <2>2. QED BY <2>1 DEF SwapOK, Gated, Cleared, Aimed, Resident, Guarded
<1>11. QED BY <1>3, <1>7, <1>8, <1>9, <1>10 DEF LaneInv

LEMMA TaskStepKeeps ==
    ASSUME LaneInv, NEW t \in Actors, TaskStep(t)
    PROVE  LaneInv'
<1>1. CASE Wake(t) \/ TimeOut(t)
  BY <1>1, WakeKeeps, TimeOutKeeps
<1>2. CASE LoadStep(t)
  <2>1. CASE LoadRefused(t) \/ LoadProbe(t) \/ LoadBlocked(t) \/ LoadGate(t) \/ LoadOccupied(t)
    BY <2>1, LoadRefusedKeeps, LoadProbeKeeps, LoadBlockedKeeps, LoadGateKeeps,
       LoadOccupiedKeeps
  <2>2. CASE Launch(t) \/ LaunchFails(t) \/ Ready(t)
    BY <2>2, LaunchKeeps, LaunchFailsKeeps, ReadyKeeps
  <2>3. CASE Verify(t) \/ Repack(t) \/ Reload(t) \/ Restore(t) \/ Recheck(t)
    BY <2>3, VerifyKeeps, RepackKeeps, RecheckKeeps
  <2>4. QED BY <1>2, <2>1, <2>2, <2>3 DEF LoadStep
<1>3. CASE Check(t) \/ Answer(t) \/ Stop(t) \/ UnloadAll(t) \/ Drain(t)
  BY <1>3, CheckKeeps, AnswerKeeps, StopKeeps, UnloadAllKeeps, DrainKeeps
<1>4. QED BY <1>1, <1>2, <1>3 DEF TaskStep

LEMMA NextKeeps ==
    ASSUME LaneInv, [Next]_vars
    PROVE  LaneInv'
<1>1. CASE UNCHANGED vars
  <2>1. UNCHANGED <<board, nextId, lock, pc, req, served, starting, tags, draining, age,
                   victim, excused, probed, lost>>
    BY <1>1 DEF vars, boardVars, cardVars, histVars
  <2>2. BoardOK' /\ PlacesOK' /\ CarriesOK' /\ CardOK' /\ probed' \in 0..nextId'
    BY <2>1 DEF LaneInv, BoardOK, PlacesOK, CarriesOK, CardOK
  <2>3. SwapOK'
    BY <2>1, LeftAlone DEF LaneInv
  <2>4. QED BY <2>2, <2>3 DEF LaneInv
<1>2. CASE \E t \in Tasks : Enter(t)
  BY <1>2, EnterKeeps
<1>3. CASE \E t \in Actors : TaskStep(t)
  BY <1>3, TaskStepKeeps
<1>4. CASE ReapStep \/ ClaimStep \/ Aging \/ CardStep
  BY <1>4, ReapKeeps, ClaimStepKeeps, AgingKeeps, CardStepKeeps
<1>5. QED BY <1>1, <1>2, <1>3, <1>4 DEF Next

\* The invariant holds of every behaviour of a lane.
THEOREM LaneInvariant == Spec => []LaneInv
<1>1. Init => LaneInv
  BY InitHolds
<1>2. LaneInv /\ [Next]_vars => LaneInv'
  BY NextKeeps
<1>3. QED BY <1>1, <1>2, PTL DEF Spec

\* The owner of the swap lock, and nobody else, is in the middle of a swap, and those in
\* its queue wait: for every number of tasks (_acquire_swap_lock).
THEOREM LaneTyped == Spec => []TypeOK
<1>1. LaneInv => TypeOK
  BY DEF LaneInv, TypeOK, PlacesOK, CarriesOK, CardOK, InOrder
<1>2. QED BY <1>1, LaneInvariant, PTL

\* vLLM is not stopped for a targeted unload whose model has been replaced while it
\* waited for the lock (Lane.unload).
THEOREM NeighbourSurvives == Spec => []TargetedUnloadSparesNeighbour
<1>1. LaneInv => TargetedUnloadSparesNeighbour
  BY DEF LaneInv, SwapOK, Aimed, TargetedUnloadSparesNeighbour
<1>2. QED BY <1>1, LaneInvariant, PTL

-----------------------------------------------------------------------------
(* What a step of a lane may not do.                                       *)

\* Every launch finds the card drained, or is excused (the 100%-VRAM gate).
THEOREM LaunchesOnDrainedCard == Spec => LaunchOnDrainedCard
<1>1. ASSUME LaneInv, NEW t \in Tasks, pc[t] = "launch"
      PROVE  CardFree \/ excused
  BY <1>1 DEF LaneInv, SwapOK, Cleared, Actors
<1>2. LaneInv /\ [Next]_vars =>
        [\A t \in Tasks :
           pc[t] = "launch" /\ pc'[t] \in {"verify", "ready"} => CardFree \/ excused]_vars
  BY <1>1
<1>3. QED BY <1>2, LaneInvariant, PTL DEF Spec, LaunchOnDrainedCard

\* A step of a task moves that task only.
LEMMA MovesAlone ==
    ASSUME LaneInv, NEW x \in Actors, Enter(x) \/ TaskStep(x)
    PROVE  \E w : pc' = [pc EXCEPT ![x] = w]
<1>1. CASE Enter(x) \/ Wake(x) \/ TimeOut(x)
  BY <1>1 DEF Enter, Acquire, Wake, TimeOut, Goto
<1>2. CASE Check(x) \/ Answer(x) \/ Stop(x) \/ UnloadAll(x) \/ Drain(x)
  BY <1>2 DEF Check, Answer, Stop, UnloadAll, Drain, GoOn, Finish, Goto
<1>3. CASE LoadRefused(x) \/ LoadProbe(x) \/ LoadBlocked(x) \/ LoadGate(x) \/ LoadOccupied(x)
  BY <1>3 DEF LoadRefused, LoadProbe, LoadBlocked, LoadGate, LoadOccupied, Revoke, GoOn,
              Finish, Goto
<1>4. CASE Launch(x) \/ LaunchFails(x) \/ Ready(x)
  BY <1>4 DEF Launch, LaunchFails, Ready, GoOn, Finish, Goto
<1>5. CASE Verify(x) \/ Repack(x) \/ Reload(x) \/ Restore(x) \/ Recheck(x)
  BY <1>5 DEF Verify, Repack, Reload, Restore, Recheck, GoOn, Finish, Goto
<1>6. QED BY <1>1, <1>2, <1>3, <1>4, <1>5 DEF TaskStep, LoadStep

\* A task that is somewhere else after a step has taken that step, or just entered.
LEMMA WhoMoved ==
    ASSUME LaneInv, [Next]_vars, NEW t \in Tasks, pc'[t] # pc[t]
    PROVE  Enter(t) \/ TaskStep(t)
<1>1. pc \in [Actors -> Where] /\ t \in Actors /\ Reaper \in Actors /\ t # Reaper
  BY LaneAssumption DEF LaneInv, PlacesOK, Actors
<1>2. ASSUME NEW x \in Actors, Enter(x) \/ TaskStep(x)
      PROVE  x = t
  BY <1>1, <1>2, MovesAlone
<1>3. ASSUME ReapStep \/ ClaimStep \/ Aging \/ CardStep \/ UNCHANGED vars
      PROVE  FALSE
  <2>1. CASE ReapStep
    <3>1. \E w : pc' = [pc EXCEPT ![Reaper] = w]
      BY <2>1 DEF ReapStep, ReapLooks, ReapProbe, ReapDecides, Acquire, Goto
    <3>2. QED BY <1>1, <3>1
  <2>2. CASE ClaimStep \/ Aging \/ CardStep \/ UNCHANGED vars
    BY <2>2 DEF ClaimStep, Aging, CardStep, vars
  <2>3. QED BY <1>3, <2>1, <2>2
<1>4. Tasks \subseteq Actors
  BY DEF Actors
<1>5. QED BY <1>2, <1>3, <1>4 DEF Next

\* What Finish leaves in pc.
LEMMA Finished ==
    ASSUME LaneInv, NEW t \in Tasks, NEW how, Finish(t, how)
    PROVE  pc'[t] = how
BY LaneAssumption DEF LaneInv, PlacesOK, Finish, Goto, Actors

\* ... and what Goto does.
LEMMA Went ==
    ASSUME LaneInv, NEW t \in Tasks, NEW w, Goto(t, w)
    PROVE  pc'[t] = w
BY DEF LaneInv, PlacesOK, Goto, Actors

\* A load begins to clear the card when it has revoked what it may.
LEMMA StopsAfterRevoke ==
    ASSUME LaneInv, NEW t \in Tasks, Enter(t) \/ TaskStep(t),
           pc[t] # "stop", pc'[t] = "stop", req[t].kind = "load"
    PROVE  /\ LoadGate(t) \/ LoadOccupied(t)
           /\ Revoke(t)
<1>1. ~(Enter(t) \/ Wake(t) \/ TimeOut(t))
  BY Went DEF Enter, Acquire, Wake, TimeOut, FirstStep
<1>2. ~(Check(t) \/ Answer(t) \/ Stop(t) \/ UnloadAll(t) \/ Drain(t))
  <2>1. pc[t] # "check"
    BY DEF LaneInv, CarriesOK, Actors
  <2>2. ~Check(t) /\ ~Stop(t)
    BY <2>1 DEF Check, Stop, Work
  <2>3. ~UnloadAll(t)
    BY Went DEF UnloadAll
  <2>4. ~Drain(t)
    BY Went DEF Drain, GoOn, AfterDrain
  <2>5. ~Answer(t)
    BY Finished DEF Answer
  <2>6. QED BY <2>2, <2>3, <2>4, <2>5
<1>3. ~(LoadRefused(t) \/ LoadProbe(t) \/ LoadBlocked(t))
  <2>1. ~LoadRefused(t) /\ ~LoadBlocked(t)
    BY Finished DEF LoadRefused, LoadBlocked
  <2>2. ~LoadProbe(t)
    <3>1. SUFFICES ASSUME LoadProbe(t) PROVE FALSE
      OBVIOUS
    <3>2. Goto(t, "answer") \/ Goto(t, "verify") \/ Goto(t, "gate")
      BY <3>1 DEF LoadProbe, GoOn
    <3>3. QED BY <3>2, Went
  <2>3. QED BY <2>1, <2>2
<1>4. ~(Launch(t) \/ LaunchFails(t) \/ Ready(t))
  BY Finished, Went DEF Launch, LaunchFails, Ready, GoOn
<1>5. ~(Verify(t) \/ Repack(t) \/ Reload(t) \/ Restore(t) \/ Recheck(t))
  <2>1. ~Repack(t) /\ ~Reload(t) /\ ~Restore(t)
    BY Went DEF Repack, Reload, Restore
  <2>2. ~Verify(t) /\ ~Recheck(t)
    BY Finished, Went DEF Verify, Recheck, GoOn
  <2>3. QED BY <2>1, <2>2
<1>6. LoadGate(t) \/ LoadOccupied(t)
  BY <1>1, <1>2, <1>3, <1>4, <1>5 DEF TaskStep, LoadStep
<1>7. Revoke(t)
  <2>1. LoadGate(t) => Revoke(t) \/ Goto(t, "occupied")
    BY DEF LoadGate, GoOn
  <2>2. LoadOccupied(t) => Revoke(t) \/ Finish(t, "failed")
    BY DEF LoadOccupied
  <2>3. QED BY <1>6, <2>1, <2>2, Finished, Went
<1>8. QED BY <1>6, <1>7

\* A swap evicts under nobody's non-preemptible claim that its gate has looked at
\* (_preempt_occupant_leases).
THEOREM EvictionsSpareClaims == Spec => EvictionSparesClaims
<1>1. ASSUME LaneInv, [Next]_vars, NEW t \in Tasks,
             pc[t] # "stop", pc'[t] = "stop", req[t].kind = "load",
             NEW i \in OnUnit(board', Lane1), board'[i].holder # req[t].by
      PROVE  /\ ~board'[i].preemptible
             /\ i >= IF pc[t] = "occupied" THEN probed ELSE Unseen
  <2>1. Enter(t) \/ TaskStep(t)
    BY <1>1, WhoMoved
  <2>2. (LoadGate(t) \/ LoadOccupied(t)) /\ Revoke(t)
    BY <1>1, <2>1, StopsAfterRevoke
  <2>3. BoardOK /\ probed \in 0..nextId /\ t \in Actors
    BY <1>1 DEF LaneInv, Actors
  <2>4. End(EvictionTargets(board, Lane1, Whole, req[t].by))
    BY <2>2 DEF Revoke
  <2>5. /\ i \in DOMAIN board /\ board'[i] = board[i]
        /\ i \notin EvictionTargets(board, Lane1, Whole, req[t].by)
    BY <1>1, <2>3, <2>4, EndKeepsBoard DEF OnUnit
  <2>6. i \in OnUnit(board, Lane1) /\ board[i].holder # req[t].by
    BY <1>1, <2>5 DEF OnUnit
  <2>7. ~board[i].preemptible
    BY <2>5, <2>6 DEF EvictionTargets
  <2>8. i \in Nat
    BY <2>3, <2>6, IdsArePositive
  <2>9. CASE LoadGate(t)
    <3>1. pc[t] = "gate" /\ ~Blocked(req[t])
      BY <2>9 DEF LoadGate, Work
    <3>2. /\ Unseen \in 1..nextId
          /\ i < Unseen /\ ~board[i].preemptible => board[i].holder = req[t].by
      BY <2>3, <2>6, <3>1, GateHasSeen
    <3>3. i >= Unseen
      BY <2>3, <2>6, <2>7, <2>8, <3>2 DEF BoardOK
    <3>4. QED BY <2>5, <2>7, <3>1, <3>3
  <2>10. CASE LoadOccupied(t)
    <3>1. pc[t] = "occupied"
      BY <2>10 DEF LoadOccupied, Work
    <3>2. i < probed /\ ~board[i].preemptible => board[i].holder = req[t].by
      BY <1>1, <2>3, <2>6, <3>1 DEF LaneInv, SwapOK, Gated
    <3>3. i >= probed
      BY <2>3, <2>6, <2>7, <2>8, <3>2 DEF BoardOK
    <3>4. QED BY <2>5, <2>7, <3>1, <3>3
  <2>11. QED BY <2>2, <2>9, <2>10
<1>2. LaneInv /\ [Next]_vars =>
        [\A t \in Tasks :
           pc[t] # "stop" /\ pc'[t] = "stop" /\ req[t].kind = "load" =>
              \A i \in OnUnit(board', Lane1) :
                 board'[i].holder # req[t].by =>
                    /\ ~board'[i].preemptible
                    /\ i >= IF pc[t] = "occupied" THEN probed ELSE Unseen]_vars
  BY <1>1
<1>3. QED BY <1>2, LaneInvariant, PTL DEF Spec, EvictionSparesClaims

\* A load that reports success has seen its model on the card, at last before it read
\* the card for the answer.
LEMMA EndsWell ==
    ASSUME LaneInv, NEW t \in Tasks, Enter(t) \/ TaskStep(t),
           pc[t] \in Swapping, pc'[t] = "done", req[t].kind = "load"
    PROVE  req[t].model \in Occupants \/ lost
<1>1. /\ t \in Actors /\ None \notin VModels
      /\ \/ req[t].server = "ollama" /\ req[t].model \in OModels
         \/ req[t].server = "vllm" /\ req[t].model \in VModels
      /\ pc[t] # "check"
      /\ pc[t] \in OllamaOnly => req[t].server = "ollama"
  BY LaneAssumption DEF LaneInv, CarriesOK, Actors
<1>2. ~(Enter(t) \/ Wake(t) \/ TimeOut(t))
  BY Went DEF Enter, Acquire, Wake, TimeOut, FirstStep
<1>3. ~(Check(t) \/ Stop(t) \/ UnloadAll(t) \/ Drain(t))
  <2>1. ~Check(t)
    BY <1>1 DEF Check, Work
  <2>2. ~Stop(t) /\ ~UnloadAll(t)
    BY Went DEF Stop, UnloadAll
  <2>3. ~Drain(t)
    BY Went DEF Drain, GoOn, AfterDrain
  <2>4. QED BY <2>1, <2>2, <2>3
<1>4. ~(LoadRefused(t) \/ LoadProbe(t) \/ LoadBlocked(t) \/ LoadGate(t) \/ LoadOccupied(t))
  <2>1. ~LoadRefused(t) /\ ~LoadBlocked(t)
    BY Finished DEF LoadRefused, LoadBlocked
  <2>2. LoadGate(t) => Goto(t, "stop") \/ Goto(t, "occupied")
    BY DEF LoadGate, Revoke, GoOn
  <2>3. LoadOccupied(t) => Finish(t, "failed") \/ Goto(t, "stop")
    BY DEF LoadOccupied, Revoke, GoOn
  <2>4. LoadProbe(t) => Goto(t, "answer") \/ Goto(t, "verify") \/ Goto(t, "gate")
    BY DEF LoadProbe, GoOn
  <2>5. QED BY <2>1, <2>2, <2>3, <2>4, Finished, Went
<1>5. ~(Launch(t) \/ LaunchFails(t) \/ Ready(t) \/ Repack(t) \/ Reload(t) \/ Restore(t))
  BY Finished, Went DEF Launch, LaunchFails, Ready, GoOn, Repack, Reload, Restore
<1>6. CASE Answer(t)
  <2>1. pc[t] = "answer" /\ Resident(t)
    BY <1>1, <1>6 DEF Answer, Work, LaneInv, SwapOK
  <2>2. req[t].model # None
    BY <1>1, LaneAssumption
  <2>3. QED BY <2>1, <2>2 DEF Resident, Occupants
<1>7. CASE Verify(t) \/ Recheck(t)
  <2>1. PICK o \in SeesTags :
           \/ Finish(t, IF req[t].model \in o THEN "done" ELSE "failed")
           \/ Goto(t, "repack")
    BY <1>7 DEF Verify, Recheck, StillLoaded, GoOn
  <2>2. req[t].model \in o
    BY <2>1, Finished, Went
  <2>3. QED BY <2>2 DEF SeesTags, Occupants
<1>8. QED BY <1>2, <1>3, <1>4, <1>5, <1>6, <1>7 DEF TaskStep, LoadStep

\* A load that reports success left its model resident, unless vLLM died while the card
\* was read for the answer (Lane._load_vllm: wait_ready, then _gpu()).
THEOREM SuccessLeavesModel == Spec => SuccessIsResident
<1>1. ASSUME LaneInv, [Next]_vars, NEW t \in Tasks,
             pc[t] \in Swapping, pc'[t] = "done", req[t].kind = "load"
      PROVE  req[t].model \in Occupants \/ lost
  <2>1. "done" \notin Swapping
    BY DEF Swapping
  <2>2. QED BY <1>1, <2>1, WhoMoved, EndsWell
<1>2. LaneInv /\ [Next]_vars =>
        [\A t \in Tasks :
           pc[t] \in Swapping /\ pc'[t] = "done" /\ req[t].kind = "load" =>
              req[t].model \in Occupants \/ lost]_vars
  BY <1>1
<1>3. QED BY <1>2, LaneInvariant, PTL DEF Spec, SuccessIsResident
=============================================================================
