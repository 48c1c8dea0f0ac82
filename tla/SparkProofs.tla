---------------------------- MODULE SparkProofs ----------------------------
(***************************************************************************)
(* Theorems about a Spark node, for every number of slots and tasks, and   *)
(* every set of models, budgets, claims and requests.                      *)
(*                                                                         *)
(* SparkInv is inductive.  It says who may be where and with which request *)
(* (PlacesOK, CarriesOK), how the clocks relate to what was really used    *)
(* (InTime), that live claims never overlap (Disjoint), and for the swap   *)
(* that has the lock what its locals mean at each await (Sound): which     *)
(* servers it knows of, which claims its victim can have, and where it is  *)
(* about to launch.  RoomInv adds what admission has found out about the   *)
(* memory; Used, a fold over the servers, is shown to be a sum first.      *)
(***************************************************************************)
EXTENDS SparkNode, UnitProofs, FiniteSetTheorems

LoadPlaces == {"probe", "stop", "answer", "reload", "recheck", "clear", "measure",
               "launch", "ready"}

\* The owner of the lock swaps, those in the queue wait, and nobody else does.
PlacesOK ==
    /\ InOrder(lock, Tasks)
    /\ pc \in [Tasks -> Where]
    /\ \A t \in Tasks : /\ pc[t] \in Swapping <=> lock.owner = t
                        /\ pc[t] = "queued" <=> Waits(lock, t)

\* Who swaps or waits to swap has a request, and only a load is where loads go.
CarriesOK ==
    /\ req \in [Tasks -> Requests \union {None}]
    /\ \A t \in Tasks :
          /\ pc[t] \in Swapping \union {"queued"} => req[t] \in Requests
          /\ pc[t] \in LoadPlaces => req[t].kind = "load"

\* The clocks c: a model that is in use is never idle_for the active window.
Clocks == [known : SUBSET Models, recent : SUBSET Models, warm : BOOLEAN,
           hot : SUBSET Models]
InTime(c) ==
    /\ c \in Clocks /\ c.recent \subseteq c.known
    /\ c.hot # {} => c.warm
    /\ c.hot \intersect c.known \subseteq c.recent

\* The views a load may have, and its locals.
SlotMaps == UNION {[P -> Models] : P \in SUBSET Ports}
Locals   == [view : SlotMaps, todo : SUBSET Models, victim : Models \union {None},
             port : Ports \union {0}, blind : BOOLEAN, growing : SUBSET Engine,
             since : Nat, hidden : SUBSET Engine]

\* Locals o tell of server e: it could not be seen, or it is up where the view has it.
Known(e, o) ==
    \/ [e EXCEPT !.up = TRUE] \in o.hidden
    \/ e.up /\ e.port \in DOMAIN o.view /\ o.view[e.port] = e.model

\* Nobody but the requester has a claim on the victim that was there when it was judged.
Judged(b, r, o) ==
    \A i \in Overlapping(b, Node, o.victim) : b[i].holder # r.by => i >= o.since

\* A recipe that is to be alone, and not forced, sees nobody.
SeesNobody(r, o) == r.model \in Lone /\ ~r.force => o.view = NoView

\* The locals o of t, at w with request r, on a node with servers E and claims b.
Sound(t, E, b, w, r, o) ==
    /\ o \in Locals /\ o.todo \subseteq Residents(o.view)
    /\ w \in {"probe", "free"} => o = NoSwap
    /\ w # "stop" => o.todo = {}
    /\ w = "stop" => o.victim \in o.todo /\ Judged(b, r, o)
    /\ w \in {"reload", "recheck"} => r.model \in Residents(o.view)
    /\ w \in LoadPlaces \ {"probe", "ready", "answer"} => \A e \in E : Known(e, o)
    /\ w \in {"ready", "answer"} => \A e \in E : Known(e, o) \/ e.by = t
    /\ w \in {"measure", "launch"} => SeesNobody(r, o)
    /\ w \in {"launch", "ready"} => o.port \in FreePorts(o)

SwapOK ==
    /\ lock.owner = NoTask => own = NoSwap
    /\ \A t \in Tasks : lock.owner = t => Sound(t, engines, board, pc[t], req[t], own)
    /\ own.since \in 0..nextId

SparkInv ==
    /\ BoardOK /\ Disjoint /\ engines \subseteq Engine /\ InTime(clk)
    /\ PlacesOK /\ CarriesOK /\ SwapOK

-----------------------------------------------------------------------------
(* Views, slots and servers.                                               *)

\* A model of a request is none of the names that stand for something else.
LEMMA ModelsAreModels ==
    /\ None \notin Models /\ NoTask \notin Tasks
    /\ \A m \in Models : m # Whole
BY NodeAssumption, ClaimsAssumption DEF Models

\* What nobody has begun yet.
LEMMA NoSwapIsLocals ==
    /\ NoView \in SlotMaps /\ DOMAIN NoView = {} /\ Residents(NoView) = {}
    /\ NoSwap \in Locals
<1>1. DOMAIN NoView = {} /\ NoView \in [{} -> Models]
  BY DEF NoView
<1>2. NoView \in SlotMaps /\ Residents(NoView) = {}
  BY <1>1 DEF SlotMaps, Residents
<1>3. NoSwap \in Locals
  BY <1>2 DEF NoSwap, Locals
<1>4. QED BY <1>1, <1>2, <1>3

\* A view has models under ports.
LEMMA ViewFields ==
    ASSUME NEW vw
    PROVE  /\ vw \in SlotMaps =>
                /\ DOMAIN vw \subseteq Ports /\ Residents(vw) \subseteq Models
                /\ vw = [p \in DOMAIN vw |-> vw[p]]
                /\ \A p \in DOMAIN vw : vw[p] \in Models
           /\ DOMAIN vw \subseteq Ports /\ vw = [p \in DOMAIN vw |-> vw[p]]
                /\ (\A p \in DOMAIN vw : vw[p] \in Models) => vw \in SlotMaps
<1>1. ASSUME vw \in SlotMaps
      PROVE  /\ DOMAIN vw \subseteq Ports /\ Residents(vw) \subseteq Models
             /\ vw = [p \in DOMAIN vw |-> vw[p]]
             /\ \A p \in DOMAIN vw : vw[p] \in Models
  <2>1. PICK P \in SUBSET Ports : vw \in [P -> Models]
    BY <1>1 DEF SlotMaps
  <2>2. QED BY <2>1 DEF Residents
<1>2. ASSUME DOMAIN vw \subseteq Ports, vw = [p \in DOMAIN vw |-> vw[p]],
             \A p \in DOMAIN vw : vw[p] \in Models
      PROVE  vw \in SlotMaps
  <2>1. vw \in [DOMAIN vw -> Models]
    BY <1>2
  <2>2. QED BY <1>2, <2>1 DEF SlotMaps
<1>3. QED BY <1>1, <1>2

\* A probe sees servers that are up.
LEMMA ProbeSees ==
    ASSUME engines \subseteq Engine, NEW vw \in Views
    PROVE  vw \in SlotMaps
<1>1. PICK E \in SUBSET Up : vw = View(E)
  BY DEF Views
<1>2. E \subseteq Engine
  BY <1>1 DEF Up
<1>3. /\ DOMAIN vw = {e.port : e \in E}
      /\ vw = [p \in DOMAIN vw |-> vw[p]]
      /\ \A p \in DOMAIN vw : vw[p] = (CHOOSE e \in E : e.port = p).model
  BY <1>1 DEF View
<1>4. DOMAIN vw \subseteq Ports
  BY <1>2, <1>3 DEF Engine
<1>5. ASSUME NEW p \in DOMAIN vw
      PROVE  vw[p] \in Models
  <2>1. \E e \in E : e.port = p
    BY <1>3
  <2>2. (CHOOSE e \in E : e.port = p) \in E
    BY <2>1
  <2>3. QED BY <1>2, <1>3, <2>2 DEF Engine
<1>6. QED BY <1>3, <1>4, <1>5, ViewFields

\* A set of ports that is not empty has a last one.
LEMMA LastIsMember ==
    ASSUME NEW S, S \subseteq Ports, S # {}
    PROVE  Max(S) \in S
<1>1. PICK n \in Nat \ {0} : Ports = 1..n
  BY NodeAssumption
<1> DEFINE R == {k \in Nat \ {0} : \E p \in S : k = n + 1 - p}
<1>2. \A p \in S : p \in 1..n /\ n + 1 - p \in R
  BY <1>1
<1>3. R # {} /\ R \subseteq Nat \ {0}
  BY <1>2
<1> HIDE DEF R
<1>4. First(R) \in R /\ \A k \in R : First(R) <= k
  BY <1>3, FirstIsMember
<1>5. PICK x \in S : First(R) = n + 1 - x
  BY <1>4 DEF R
<1>6. \A y \in S : n + 1 - x <= n + 1 - y
  BY <1>2, <1>4, <1>5
<1>7. \A y \in S : x >= y
  BY <1>1, <1>2, <1>6
<1>8. QED BY <1>7 DEF Max

\* resident has a slot of the model; without it the view is a view.
LEMMA SlotIsTaken ==
    ASSUME NEW vw \in SlotMaps, NEW m \in Residents(vw)
    PROVE  /\ Slot(vw, m) \in DOMAIN vw /\ vw[Slot(vw, m)] = m
           /\ Vacated(vw, m) \in SlotMaps
           /\ \A p \in DOMAIN vw :
                 p # Slot(vw, m) => /\ p \in DOMAIN Vacated(vw, m)
                                    /\ Vacated(vw, m)[p] = vw[p]
<1> DEFINE P == {p \in DOMAIN vw : vw[p] = m}
           s == Slot(vw, m)
           nv == Vacated(vw, m)
<1>1. /\ DOMAIN vw \subseteq Ports /\ \A p \in DOMAIN vw : vw[p] \in Models
  BY ViewFields
<1>2. P # {} /\ P \subseteq Ports
  BY <1>1 DEF Residents
<1>3. s \in P
  BY <1>2, LastIsMember DEF Slot
<1>4. s \in DOMAIN vw /\ vw[s] = m
  BY <1>3
<1>5. /\ DOMAIN nv = DOMAIN vw \ {s} /\ \A p \in DOMAIN vw \ {s} : nv[p] = vw[p]
      /\ nv = [p \in DOMAIN nv |-> nv[p]]
  BY DEF Vacated
<1> HIDE DEF s, nv, P
<1>6. DOMAIN nv \subseteq Ports /\ \A p \in DOMAIN nv : nv[p] \in Models
  BY <1>1, <1>5
<1>7. nv \in SlotMaps
  BY <1>5, <1>6, ViewFields
<1>8. QED BY <1>4, <1>5, <1>7 DEF s, nv

\* A free slot is picked where there is one.
LEMMA PickedIsFree ==
    ASSUME NEW o, FreePorts(o) # {}
    PROVE  Min(FreePorts(o)) \in FreePorts(o)
<1>1. FreePorts(o) \subseteq Nat \ {0}
  BY NodeAssumption DEF FreePorts
<1>2. QED BY <1>1, FirstIsMember DEF First

\* The servers of a node under their ids are servers.
LEMMA IdsAreServers ==
    ASSUME NEW E, E \subseteq Engine
    PROVE  /\ Ids(E) \subseteq Engine
           /\ \A e \in E : [e EXCEPT !.up = TRUE] \in Ids(E)
BY DEF Ids, Engine

-----------------------------------------------------------------------------
(* Claims.                                                                 *)

\* A model that was in use may be evicted only from under a claim that is outranked.
LEMMA HotNeedsRank ==
    ASSUME BoardOK, Disjoint, InTime(clk), NEW v \in clk.hot, NEW r, MayEvict(v, r),
           v # Whole
    PROVE  \E i \in Overlapping(board, Node, v) :
              /\ board[i].preemptible /\ board[i].priority < r.priority
              /\ i \in Revoked(v, r) \/ board[i].holder = r.by
<1> DEFINE k == ActiveFor(board, Node, v)
<1>1. ~IdleFor(v)
  BY DEF InTime, IdleFor
<1>2. /\ k # 0 /\ board[k].preemptible /\ board[k].priority < r.priority
  BY <1>1 DEF MayEvict
<1>3. k \in Overlapping(board, Node, v)
  <2>1. k = ActiveFor(board, Node, v)
    OBVIOUS
  <2> HIDE DEF k
  <2>2. QED BY <1>2, <2>1, OneClaimCovers
<1>4. k \in Revoked(v, r) \/ board[k].holder = r.by
  BY <1>2 DEF Revoked, EvictionTargets
<1>5. QED BY <1>2, <1>3, <1>4

\* When a victim has been judged and its claim revoked, nobody else has one on it.
LEMMA JudgedAndRevoked ==
    ASSUME BoardOK, Disjoint, NEW v, v # Whole, NEW r, MayEvict(v, r),
           End(Revoked(v, r))
    PROVE  \A i \in Overlapping(board', Node, v) : board'[i].holder = r.by
<1> DEFINE k == ActiveFor(board, Node, v)
<1>1. SUFFICES ASSUME NEW i \in Overlapping(board', Node, v)
               PROVE  board'[i].holder = r.by
  OBVIOUS
<1>2. i \in DOMAIN board'
  BY DEF Overlapping, OnUnit
<1>3. i \in DOMAIN board /\ i \notin Revoked(v, r) /\ board'[i] = board[i]
  BY <1>2, EndKeepsBoard
<1>4. i \in Overlapping(board, Node, v)
  BY <1>3 DEF Overlapping, OnUnit
<1>5. k # 0 /\ i = k
  <2>1. k = ActiveFor(board, Node, v)
    OBVIOUS
  <2> HIDE DEF k
  <2>2. QED BY <1>4, <2>1, OneClaimCovers
<1>6. board[k].preemptible
  BY <1>5 DEF MayEvict
<1>7. QED BY <1>3, <1>5, <1>6 DEF Revoked, EvictionTargets

-----------------------------------------------------------------------------
(* Who goes where.                                                         *)

\* One task moves, and the lock agrees about it and has not changed for the others.
LEMMA OneMoves ==
    ASSUME PlacesOK, NEW t \in Tasks, NEW w \in Where, Goto(t, w),
           InOrder(lock', Tasks),
           \A x \in Tasks \ {t} : /\ lock'.owner = x <=> lock.owner = x
                                  /\ Waits(lock', x) <=> Waits(lock, x),
           w \in Swapping <=> lock'.owner = t,
           w = "queued" <=> Waits(lock', t)
    PROVE  /\ PlacesOK'
           /\ pc'[t] = w /\ \A x \in Tasks \ {t} : pc'[x] = pc[x]
<1>1. /\ pc' \in [Tasks -> Where]
      /\ pc'[t] = w /\ \A x \in Tasks \ {t} : pc'[x] = pc[x]
  BY DEF PlacesOK, Goto
<1>2. ASSUME NEW x \in Tasks
      PROVE  /\ pc'[x] \in Swapping <=> lock'.owner = x
             /\ pc'[x] = "queued" <=> Waits(lock', x)
  <2>1. CASE x = t
    BY <1>1, <2>1
  <2>2. CASE x # t
    BY <1>1, <2>2 DEF PlacesOK
  <2>3. QED BY <2>1, <2>2
<1>3. QED BY <1>1, <1>2 DEF PlacesOK

\* The end of a swap: nobody owns the lock.
LEMMA ReleasedMoves ==
    ASSUME PlacesOK, NEW t \in Tasks, lock.owner = t, NEW how \in {"done", "failed"},
           lock' = Release(lock), Goto(t, how)
    PROVE  /\ PlacesOK' /\ lock'.owner = NoTask
           /\ pc'[t] = how /\ \A x \in Tasks \ {t} : pc'[x] = pc[x]
<1>1. how \in Where /\ how \notin Swapping /\ how # "queued"
  BY DEF Where, Swapping
<1>2. /\ InOrder(lock', Tasks) /\ lock'.owner = NoTask
      /\ \A x : Waits(lock', x) <=> Waits(lock, x)
  BY ReleaseMoves, ModelsAreModels DEF PlacesOK
<1>3. ~Waits(lock, t)
  BY DEF PlacesOK, InOrder
<1>4. QED BY <1>1, <1>2, <1>3, OneMoves, ModelsAreModels

\* A swap goes on: its task still owns the lock.
LEMMA SwapMoves ==
    ASSUME PlacesOK, NEW t \in Tasks, lock.owner = t, NEW w \in Swapping, Goto(t, w),
           lock' = lock
    PROVE  /\ PlacesOK'
           /\ pc'[t] = w /\ \A x \in Tasks \ {t} : pc'[x] = pc[x]
<1>1. w \in Where /\ w # "queued"
  BY DEF Where, Swapping
<1>2. InOrder(lock', Tasks) /\ ~Waits(lock', t)
  BY DEF PlacesOK, InOrder
<1>3. QED BY <1>1, <1>2, OneMoves

\* The one who has finished puts his request down.
LEMMA PutDown ==
    ASSUME PlacesOK, CarriesOK, NEW t \in Tasks, NEW how \in {"done", "failed"},
           Over(t, how)
    PROVE  CarriesOK'
<1>1. /\ req' \in [Tasks -> Requests \union {None}]
      /\ \A x \in Tasks \ {t} : req'[x] = req[x]
      /\ pc'[t] = how /\ \A x \in Tasks \ {t} : pc'[x] = pc[x]
  BY DEF Over, Goto, CarriesOK, PlacesOK
<1>2. how \notin Swapping \union {"queued"} /\ how \notin LoadPlaces
  BY DEF Swapping, LoadPlaces
<1>3. ASSUME NEW x \in Tasks
      PROVE  /\ pc'[x] \in Swapping \union {"queued"} => req'[x] \in Requests
             /\ pc'[x] \in LoadPlaces => req'[x].kind = "load"
  <2>1. CASE x = t
    BY <1>1, <1>2, <2>1
  <2>2. CASE x # t
    BY <1>1, <2>2 DEF CarriesOK
  <2>3. QED BY <2>1, <2>2
<1>4. QED BY <1>1, <1>3 DEF CarriesOK

-----------------------------------------------------------------------------
(* The clocks.                                                             *)

LEMMA TouchedInTime ==
    ASSUME NEW c, InTime(c), NEW m \in Models
    PROVE  InTime(Touched(c, m))
BY DEF InTime, Touched, Clocks

LEMMA KeptInTime ==
    ASSUME NEW c, InTime(c), NEW M
    PROVE  InTime(Keeping(c, M))
<1>1. /\ c \in Clocks
      /\ Keeping(c, M) = [c EXCEPT !.known = c.known \intersect M,
                                   !.recent = c.recent \intersect M]
  BY DEF InTime, Keeping
<1>2. QED BY <1>1 DEF InTime, Clocks

-----------------------------------------------------------------------------
(* A step of the swap that has the lock.                                   *)

\* Where t is in a load, it owns the lock and has a request to load a model.
LEMMA AtWork ==
    ASSUME SparkInv, NEW t \in Tasks, NEW w \in LoadPlaces, Work(t, w)
    PROVE  /\ lock.owner = t /\ pc[t] = w
           /\ req[t] \in Requests /\ req[t] \in Request
           /\ req[t].kind = "load" /\ req[t].model \in Models
           /\ BoardOK /\ Disjoint /\ engines \subseteq Engine /\ InTime(clk)
           /\ PlacesOK /\ CarriesOK
           /\ Sound(t, engines, board, w, req[t], own) /\ own \in Locals
           /\ own.since \in 0..nextId
<1>1. lock.owner = t /\ pc[t] = w /\ w \in Swapping
  BY DEF Work, LoadPlaces, Swapping
<1>2. /\ BoardOK /\ Disjoint /\ engines \subseteq Engine /\ InTime(clk)
      /\ PlacesOK /\ CarriesOK /\ own.since \in 0..nextId
      /\ Sound(t, engines, board, w, req[t], own)
  BY <1>1 DEF SparkInv, SwapOK
<1>3. req[t] \in Requests /\ req[t].kind = "load"
  BY <1>1, <1>2 DEF CarriesOK
<1>4. req[t] \in Request /\ req[t].model \in Models
  BY <1>3, NodeAssumption
<1>5. QED BY <1>1, <1>2, <1>3, <1>4 DEF Sound

\* A load ends, however.
LEMMA FinishKeeps ==
    ASSUME SparkInv, NEW t \in Tasks, lock.owner = t, pc[t] \in LoadPlaces,
           NEW how \in {"done", "failed"}, NEW c, InTime(c), Finish(t, how, c),
           BoardOK', Disjoint', engines' \subseteq Engine
    PROVE  SparkInv'
<1>1. /\ lock' = Release(lock) /\ Over(t, how) /\ own' = NoSwap
      /\ clk' = Touched(c, req[t].model) /\ Goto(t, how)
  BY DEF Finish, Over
<1>2. Work(t, pc[t])
  BY DEF Work
<1>3. PlacesOK /\ CarriesOK /\ req[t].model \in Models
  BY <1>2, AtWork
<1>4. PlacesOK' /\ lock'.owner = NoTask
  BY <1>1, <1>3, ReleasedMoves
<1>5. CarriesOK'
  BY <1>1, <1>3, PutDown
<1>6. InTime(clk')
  BY <1>1, <1>3, TouchedInTime
<1>7. SwapOK'
  <2>1. own'.since = 0 /\ 0 \in 0..nextId'
    BY <1>1 DEF NoSwap, BoardOK
  <2>2. QED BY <1>1, <1>4, <2>1, ModelsAreModels DEF SwapOK
<1>8. InTime(clk)'
  BY <1>6 DEF InTime, Clocks
<1>9. QED BY <1>4, <1>5, <1>7, <1>8 DEF SparkInv

\* A load goes on to w with locals o that are sound there.
LEMMA GoOnKeeps ==
    ASSUME SparkInv, NEW t \in Tasks, lock.owner = t, pc[t] \in LoadPlaces,
           NEW w \in LoadPlaces, NEW o, NEW c, InTime(c), GoOn(t, w, o, c),
           BoardOK', Disjoint', engines' \subseteq Engine,
           o.since \in 0..nextId', Sound(t, engines', board', w, req[t], o)
    PROVE  SparkInv'
<1>1. Goto(t, w) /\ own' = o /\ clk' = c /\ lock' = lock /\ req' = req
  BY DEF GoOn
<1>2. Work(t, pc[t]) /\ w \in Swapping
  BY DEF Work, LoadPlaces, Swapping
<1>3. PlacesOK /\ CarriesOK /\ req[t] \in Requests /\ req[t].kind = "load"
  BY <1>2, AtWork
<1>4. PlacesOK' /\ pc'[t] = w /\ \A x \in Tasks \ {t} : pc'[x] = pc[x]
  BY <1>1, <1>2, <1>3, SwapMoves
<1>5. CarriesOK'
  <2>1. ASSUME NEW x \in Tasks
        PROVE  /\ pc'[x] \in Swapping \union {"queued"} => req'[x] \in Requests
               /\ pc'[x] \in LoadPlaces => req'[x].kind = "load"
    <3>1. CASE x = t
      BY <1>1, <1>3, <3>1
    <3>2. CASE x # t
      BY <1>1, <1>3, <1>4, <3>2 DEF CarriesOK
    <3>3. QED BY <3>1, <3>2
  <2>2. QED BY <1>1, <1>3, <2>1 DEF CarriesOK
<1>6. SwapOK'
  <2>1. \A x \in Tasks : lock'.owner = x => x = t
    BY <1>1
  <2>2. Sound(t, engines', board', pc'[t], req'[t], own')
    BY <1>1, <1>4
  <2>3. lock'.owner # NoTask
    BY <1>1, ModelsAreModels
  <2>4. own'.since \in 0..nextId'
    BY <1>1
  <2>5. QED BY <2>1, <2>2, <2>3, <2>4 DEF SwapOK, Sound, Known, Judged
<1>7. InTime(clk)'
  BY <1>1 DEF InTime, Clocks
<1>8. QED BY <1>4, <1>5, <1>6, <1>7 DEF SparkInv

\* What holds in the code between two awaits of a load, with locals o and clocks c: it
\* knows of every server that is there when it goes on.
Between(t, o, c) ==
    /\ lock.owner = t /\ pc[t] \in LoadPlaces
    /\ o \in Locals /\ o.since \in 0..nextId
    /\ InTime(c) /\ engines' \subseteq Engine
    /\ \A e \in engines' : Known(e, o)

\* The claims are left alone.
LEMMA ClaimsStay ==
    ASSUME SparkInv, UNCHANGED boardVars
    PROVE  BoardOK' /\ Disjoint' /\ nextId' = nextId /\ board' = board
BY DEF SparkInv, boardVars, BoardOK, Disjoint

\* _free_slot: the port to launch on is not in the view.
LEMMA PickSlotKeeps ==
    ASSUME SparkInv, NEW t \in Tasks, NEW o, NEW c, Between(t, o, c), o.todo = {},
           SeesNobody(req[t], o), PickSlot(t, o, c), UNCHANGED boardVars
    PROVE  SparkInv'
<1>1. BoardOK' /\ Disjoint' /\ nextId' = nextId
  BY ClaimsStay
<1>2. CASE Finish(t, "failed", c)
  BY <1>1, <1>2, FinishKeeps DEF Between
<1>3. CASE /\ FreePorts(o) # {}
           /\ GoOn(t, "launch", [o EXCEPT !.port = Min(FreePorts(o))], c)
  <2> DEFINE n == [o EXCEPT !.port = Min(FreePorts(o))]
  <2>1. Min(FreePorts(o)) \in FreePorts(o) /\ FreePorts(o) \subseteq Ports
    BY <1>3, PickedIsFree DEF FreePorts
  <2>2. o \in Locals
    BY DEF Between
  <2>3. /\ n \in Locals /\ n.port = Min(FreePorts(o)) /\ n.view = o.view /\ n.todo = {}
        /\ n.since = o.since /\ n.hidden = o.hidden
    BY <2>1, <2>2 DEF Locals
  <2>4. GoOn(t, "launch", n, c)
    BY <1>3
  <2> HIDE DEF n
  <2>5. \A e \in engines' : Known(e, n)
    BY <2>3 DEF Between, Known
  <2>6. SeesNobody(req[t], n) /\ n.port \in FreePorts(n)
    BY <2>1, <2>3 DEF SeesNobody, FreePorts
  <2>7. Sound(t, engines', board', "launch", req[t], n)
    BY <2>3, <2>5, <2>6 DEF Sound
  <2>8. n.since \in 0..nextId' /\ "launch" \in LoadPlaces
    BY <1>1, <2>3 DEF Between, LoadPlaces
  <2>9. QED BY <1>1, <2>4, <2>7, <2>8, GoOnKeeps DEF Between
<1>4. QED BY <1>2, <1>3 DEF PickSlot

\* The load goes on with the same locals, to a place that asks for nothing more.
LEMMA GoOnSame ==
    ASSUME SparkInv, NEW t \in Tasks, NEW o, NEW c, Between(t, o, c), o.todo = {},
           NEW w \in {"answer", "reload", "recheck", "clear", "measure"}, GoOn(t, w, o, c),
           w = "measure" => SeesNobody(req[t], o),
           w \in {"reload", "recheck"} => req[t].model \in Residents(o.view),
           UNCHANGED boardVars
    PROVE  SparkInv'
<1>1. BoardOK' /\ Disjoint' /\ nextId' = nextId
  BY ClaimsStay
<1>2. Sound(t, engines', board', w, req[t], o) /\ w \in LoadPlaces
  BY DEF Between, Sound, LoadPlaces
<1>3. QED BY <1>1, <1>2, GoOnKeeps DEF Between

\* The rules about neighbours, and _admit.
LEMMA AdmitKeeps ==
    ASSUME SparkInv, NEW t \in Tasks, NEW o, NEW c, Between(t, o, c), o.todo = {},
           Admit(t, o, c), UNCHANGED boardVars
    PROVE  SparkInv'
<1>1. CASE Finish(t, "failed", c)
  BY <1>1, ClaimsStay, FinishKeeps DEF Between
<1>2. CASE ~BesideOthers(req[t], o.view) /\ PickSlot(t, o, c)
  <2>1. SeesNobody(req[t], o)
    BY <1>2 DEF BesideOthers, SeesNobody
  <2>2. QED BY <1>2, <2>1, PickSlotKeeps
<1>3. CASE ~BesideOthers(req[t], o.view) /\ GoOn(t, "measure", o, c)
  <2>1. SeesNobody(req[t], o)
    BY <1>3 DEF BesideOthers, SeesNobody
  <2>2. QED BY <1>3, <2>1, GoOnSame
<1>4. QED BY <1>1, <1>2, <1>3 DEF Admit

\* The model itself, when there is no victim left.
LEMMA PlaceKeeps ==
    ASSUME SparkInv, NEW t \in Tasks, NEW o, NEW c, Between(t, o, c), o.todo = {},
           Place(t, o, c), UNCHANGED boardVars
    PROVE  SparkInv'
<1>1. CASE req[t].model \in Residents(o.view) /\ GoOn(t, "reload", o, c)
  BY <1>1, GoOnSame
<1>2. CASE GoOn(t, "answer", o, c) \/ GoOn(t, "clear", o, c)
  BY <1>2, GoOnSame
<1>3. CASE Admit(t, o, c)
  BY <1>3, AdmitKeeps
<1>4. QED BY <1>1, <1>2, <1>3 DEF Place

\* The next victim is judged and its claim revoked.
LEMMA StopKeeps ==
    ASSUME SparkInv, NEW t \in Tasks, NEW o, NEW c, Between(t, o, c),
           NEW V, V = o.todo \intersect Residents(o.view), NEW v \in V,
           MayEvict(v, req[t]), End(Revoked(v, req[t])),
           GoOn(t, "stop", [o EXCEPT !.todo = V, !.victim = v, !.since = nextId], c)
    PROVE  SparkInv'
<1> DEFINE n == [o EXCEPT !.todo = V, !.victim = v, !.since = nextId]
<1>1. /\ BoardOK /\ Disjoint
  BY DEF SparkInv
<1>2. /\ BoardOK' /\ Disjoint' /\ nextId' = nextId
  BY <1>1, EndKeepsBoard, EndDisjoint
<1>3. /\ o \in Locals /\ V \subseteq Models /\ nextId \in Nat
  BY <1>1 DEF Between, Locals, BoardOK
<1>4. /\ n \in Locals /\ n.todo = V /\ n.victim = v /\ n.since = nextId
      /\ n.view = o.view /\ n.hidden = o.hidden
  BY <1>3 DEF Locals
<1>5. GoOn(t, "stop", n, c)
  OBVIOUS
<1> HIDE DEF n
<1>6. \A i \in Overlapping(board', Node, v) : board'[i].holder = req[t].by
  BY <1>1, <1>3, JudgedAndRevoked, ModelsAreModels
<1>7. Judged(board', req[t], n)
  BY <1>4, <1>6 DEF Judged
<1>8. \A e \in engines' : Known(e, n)
  BY <1>4 DEF Between, Known
<1>9. Sound(t, engines', board', "stop", req[t], n)
  BY <1>4, <1>7, <1>8 DEF Sound
<1>10. n.since \in 0..nextId' /\ "stop" \in LoadPlaces
  BY <1>2, <1>3, <1>4 DEF LoadPlaces
<1>11. QED BY <1>2, <1>5, <1>9, <1>10, GoOnKeeps DEF Between

\* _evict_victim for the next one, or on to the model itself.
LEMMA ProceedKeeps ==
    ASSUME SparkInv, NEW t \in Tasks, NEW o, NEW c, Between(t, o, c), Proceed(t, o, c)
    PROVE  SparkInv'
<1> DEFINE V == o.todo \intersect Residents(o.view)
           n == [o EXCEPT !.todo = {}, !.victim = None, !.since = 0]
<1>1. CASE Place(t, n, c) /\ UNCHANGED boardVars
  <2>1. o \in Locals
    BY DEF Between
  <2>2. /\ n \in Locals /\ n.todo = {} /\ n.since = 0
        /\ n.view = o.view /\ n.hidden = o.hidden
    BY <2>1 DEF Locals
  <2> HIDE DEF n
  <2>3. 0 \in 0..nextId
    BY DEF SparkInv, BoardOK
  <2>4. Between(t, n, c)
    BY <2>2, <2>3 DEF Between, Known
  <2>5. QED BY <1>1, <2>2, <2>4, PlaceKeeps
<1>2. CASE Finish(t, "failed", c) /\ UNCHANGED boardVars
  BY <1>2, ClaimsStay, FinishKeeps DEF Between
<1>3. ASSUME NEW v \in V, MayEvict(v, req[t]), End(Revoked(v, req[t])),
             GoOn(t, "stop", [o EXCEPT !.todo = V, !.victim = v, !.since = nextId], c)
      PROVE  SparkInv'
  <2>1. V = o.todo \intersect Residents(o.view)
    OBVIOUS
  <2> HIDE DEF V
  <2>2. QED BY <1>3, <2>1, StopKeeps
<1>4. QED BY <1>1, <1>2, <1>3 DEF Proceed

-----------------------------------------------------------------------------
(* load(), await by await.                                                 *)

\* Steps that only end the load.
LEMMA EndsKeep ==
    ASSUME SparkInv, NEW t \in Tasks,
           LoadRefused(t) \/ Answer(t) \/ NeverReady(t)
    PROVE  SparkInv'
<1>1. PICK w \in {"probe", "answer", "ready"}, how \in {"done", "failed"} :
         Work(t, w) /\ Finish(t, how, clk)
  BY DEF LoadRefused, Answer, NeverReady
<1>2. UNCHANGED <<board, nextId, engines>>
  BY DEF LoadRefused, Answer, NeverReady, boardVars
<1>3. w \in LoadPlaces
  BY DEF LoadPlaces
<1>4. lock.owner = t /\ pc[t] \in LoadPlaces /\ InTime(clk) /\ engines \subseteq Engine
  BY <1>1, <1>3, AtWork
<1>5. BoardOK' /\ Disjoint' /\ engines' \subseteq Engine
  BY <1>2, <1>4, ClaimsStay DEF boardVars
<1>6. QED BY <1>1, <1>4, <1>5, FinishKeeps

\* The one probe of the slots: what it has not seen is hidden from the load.
LEMMA LoadProbeKeeps ==
    ASSUME SparkInv, NEW t \in Tasks, LoadProbe(t)
    PROVE  SparkInv'
<1>1. Work(t, "probe") /\ engines' = engines /\ "probe" \in LoadPlaces
  BY DEF LoadProbe, LoadPlaces
<1>2. /\ lock.owner = t /\ pc[t] = "probe" /\ req[t] \in Request
      /\ engines \subseteq Engine /\ InTime(clk) /\ own = NoSwap /\ BoardOK
  BY <1>1, AtWork DEF Sound
<1>3. PICK vw \in Views :
         Proceed(t, [own EXCEPT !.view = vw, !.todo = req[t].evict,
                                !.hidden = Ids(engines \ (Seen(vw) \intersect Up))], clk)
  BY DEF LoadProbe
<1> DEFINE H == Ids(engines \ (Seen(vw) \intersect Up))
           o == [own EXCEPT !.view = vw, !.todo = req[t].evict, !.hidden = H]
<1>4. vw \in SlotMaps
  BY <1>2, ProbeSees
<1>5. req[t].evict \subseteq Models
  BY <1>2 DEF Request
<1>6. /\ H \subseteq Engine
      /\ \A e \in engines \ (Seen(vw) \intersect Up) : [e EXCEPT !.up = TRUE] \in H
  BY <1>2, IdsAreServers
<1>7. Proceed(t, o, clk)
  BY <1>3
<1> HIDE DEF H
<1>8. o \in Locals /\ o.view = vw /\ o.hidden = H /\ o.since = 0
  BY <1>2, <1>4, <1>5, <1>6, NoSwapIsLocals DEF Locals, NoSwap
<1> HIDE DEF o
<1>9. ASSUME NEW e \in engines
      PROVE  Known(e, o)
  <2>1. CASE e \in Seen(vw) \intersect Up
    BY <1>8, <2>1 DEF Seen, Up, Known
  <2>2. CASE e \notin Seen(vw) \intersect Up
    BY <1>6, <1>8, <2>2 DEF Known
  <2>3. QED BY <2>1, <2>2
<1>10. 0 \in 0..nextId
  BY <1>2 DEF BoardOK
<1>11. Between(t, o, clk)
  BY <1>1, <1>2, <1>8, <1>9, <1>10 DEF Between
<1>12. QED BY <1>7, <1>11, ProceedKeeps

\* A stop leaves some of the servers.
LEMMA StopsLeave ==
    ASSUME NEW m, Stops(m)
    PROVE  engines' \subseteq engines
BY DEF Stops

LEMMA StopVictimKeeps ==
    ASSUME SparkInv, NEW t \in Tasks, StopVictim(t)
    PROVE  SparkInv'
<1> DEFINE v == own.victim
           H == own.hidden \union Ids({e \in engines' : e.model = v})
           nv == Vacated(own.view, v)
           o == [own EXCEPT !.view = nv, !.todo = own.todo \ {v}, !.hidden = H]
           c == Keeping(clk, Models \ {v})
<1>1. Work(t, "stop") /\ "stop" \in LoadPlaces
  BY DEF StopVictim, LoadPlaces
<1>2. Stops(v)
  BY DEF StopVictim
<1>3. Proceed(t, o, c)
  BY DEF StopVictim
<1>4. /\ lock.owner = t /\ pc[t] = "stop" /\ engines \subseteq Engine /\ InTime(clk)
      /\ own \in Locals /\ own.since \in 0..nextId
      /\ Sound(t, engines, board, "stop", req[t], own)
  BY <1>1, AtWork
<1>5. v \in Residents(own.view) /\ own.view \in SlotMaps
  BY <1>4 DEF Sound, Locals
<1>6. engines' \subseteq engines
  BY <1>2, StopsLeave
<1>7. /\ H \subseteq Engine
      /\ \A e \in engines' : e.model = v => [e EXCEPT !.up = TRUE] \in H
      /\ own.hidden \subseteq H
  <2>1. {e \in engines' : e.model = v} \subseteq Engine
    BY <1>4, <1>6
  <2>2. own.hidden \subseteq Engine
    BY <1>4 DEF Locals
  <2>3. QED BY <2>1, <2>2, IdsAreServers
<1>8. /\ nv \in SlotMaps
      /\ \A p \in DOMAIN own.view : own.view[p] # v =>
            p \in DOMAIN nv /\ nv[p] = own.view[p]
  <2> DEFINE vw == own.view
  <2>1. vw \in SlotMaps /\ v \in Residents(vw)
    BY <1>5
  <2> HIDE DEF v, vw
  <2>2. /\ vw[Slot(vw, v)] = v /\ Vacated(vw, v) \in SlotMaps
        /\ \A p \in DOMAIN vw : p # Slot(vw, v) => /\ p \in DOMAIN Vacated(vw, v)
                                                 /\ Vacated(vw, v)[p] = vw[p]
    BY <2>1, SlotIsTaken
  <2>3. /\ Vacated(vw, v) \in SlotMaps
        /\ \A p \in DOMAIN vw : vw[p] # v => /\ p \in DOMAIN Vacated(vw, v)
                                           /\ Vacated(vw, v)[p] = vw[p]
    BY <2>2
  <2>4. QED BY <2>3 DEF vw
<1>9. InTime(c)
  BY <1>4, KeptInTime
<1> HIDE DEF H, nv, c, v
<1>10. /\ o \in Locals /\ o.view = nv /\ o.hidden = H /\ o.since = own.since
  BY <1>4, <1>7, <1>8 DEF Locals
<1> HIDE DEF o
<1>11. ASSUME NEW e \in engines'
       PROVE  Known(e, o)
  <2>1. CASE e.model = v
    BY <1>7, <1>10, <2>1 DEF Known
  <2>2. CASE e.model # v
    <3>1. Known(e, own)
      BY <1>4, <1>6 DEF Sound, LoadPlaces
    <3>2. CASE [e EXCEPT !.up = TRUE] \in own.hidden
      BY <1>7, <1>10, <3>2 DEF Known
    <3>3. CASE e.up /\ e.port \in DOMAIN own.view /\ own.view[e.port] = e.model
      BY <1>8, <1>10, <2>2, <3>3 DEF Known
    <3>4. QED BY <3>1, <3>2, <3>3 DEF Known
  <2>3. QED BY <2>1, <2>2
<1>12. Between(t, o, c)
  BY <1>1, <1>4, <1>6, <1>9, <1>10, <1>11 DEF Between
<1>13. QED BY <1>3, <1>12, ProceedKeeps

\* When a load is where its locals say nothing of a victim, and it goes on with them.
LEMMA BetweenAgain ==
    ASSUME SparkInv, NEW t \in Tasks, NEW w \in LoadPlaces \ {"probe", "stop", "ready", "answer"},
           Work(t, w), engines' \subseteq engines
    PROVE  Between(t, own, clk) /\ own.todo = {}
BY AtWork DEF Between, Sound

LEMMA ReloadKeeps ==
    ASSUME SparkInv, NEW t \in Tasks, Reload(t)
    PROVE  SparkInv'
<1>1. /\ Work(t, "reload") /\ "reload" \in LoadPlaces \ {"probe", "stop", "ready", "answer"}
      /\ engines' \subseteq engines /\ GoOn(t, "recheck", own, clk) /\ UNCHANGED boardVars
  BY StopsLeave DEF Reload, LoadPlaces
<1>2. Between(t, own, clk) /\ own.todo = {}
  BY <1>1, BetweenAgain
<1>3. req[t].model \in Residents(own.view)
  BY <1>1, AtWork DEF Sound
<1>4. QED BY <1>1, <1>2, <1>3, GoOnSame

\* The slot of the old server is silent: it is gone, or cannot be seen.
LEMMA RecheckKeeps ==
    ASSUME SparkInv, NEW t \in Tasks, Recheck(t)
    PROVE  SparkInv'
<1> DEFINE m == req[t].model
           p == Slot(own.view, m)
           nv == Vacated(own.view, m)
<1>1. Work(t, "recheck") /\ "recheck" \in LoadPlaces \ {"probe", "stop", "ready", "answer"}
  BY DEF Recheck, LoadPlaces
<1>2. engines' = engines /\ UNCHANGED boardVars
  BY DEF Recheck
<1>3. /\ Between(t, own, clk) /\ own.todo = {}
  BY <1>1, <1>2, BetweenAgain
<1>4. /\ lock.owner = t /\ pc[t] = "recheck" /\ engines \subseteq Engine /\ InTime(clk)
      /\ m \in Residents(own.view) /\ own \in Locals
      /\ \A e \in engines : Known(e, own)
  BY <1>1, AtWork DEF Sound, LoadPlaces
<1>5. PICK a \in Answers(p) :
         \/ /\ Gone(a)
            /\ Admit(t, [own EXCEPT !.view = nv,
                                    !.hidden = own.hidden \union
                                         Ids({e \in Up : e.port = p /\ a = None})], clk)
         \/ Finish(t, "failed", clk)
  BY DEF Recheck
<1>6. CASE Finish(t, "failed", clk)
  BY <1>2, <1>4, <1>6, ClaimsStay, FinishKeeps, <1>1
<1>7. CASE /\ Gone(a)
           /\ Admit(t, [own EXCEPT !.view = nv,
                                   !.hidden = own.hidden \union
                                         Ids({e \in Up : e.port = p /\ a = None})], clk)
  <2> DEFINE H == own.hidden \union Ids({e \in Up : e.port = p /\ a = None})
             o == [own EXCEPT !.view = nv, !.hidden = H]
  <2>1. Admit(t, o, clk)
    BY <1>7
  <2>2. a = None
    BY <1>7 DEF Gone
  <2>3. /\ H \subseteq Engine /\ own.hidden \subseteq H
        /\ \A e \in engines : e.up /\ e.port = p => [e EXCEPT !.up = TRUE] \in H
    <3>1. {e \in Up : e.port = p /\ a = None} \subseteq Engine
      BY <1>4 DEF Up
    <3>2. own.hidden \subseteq Engine
      BY <1>4 DEF Locals
    <3>3. QED BY <2>2, <3>1, <3>2, IdsAreServers DEF Up
  <2>4. own.view \in SlotMaps
    BY <1>4 DEF Locals
  <2>5. /\ nv \in SlotMaps
        /\ \A q \in DOMAIN own.view : q # p => q \in DOMAIN nv /\ nv[q] = own.view[q]
    <3> DEFINE vw == own.view
    <3>1. vw \in SlotMaps /\ m \in Residents(vw)
      BY <1>4, <2>4
    <3> HIDE DEF m, vw
    <3>2. /\ Vacated(vw, m) \in SlotMaps
          /\ \A q \in DOMAIN vw :
                q # Slot(vw, m) => /\ q \in DOMAIN Vacated(vw, m)
                                   /\ Vacated(vw, m)[q] = vw[q]
      BY <3>1, SlotIsTaken
    <3>3. QED BY <3>2 DEF vw
  <2> HIDE DEF H, nv, m, p
  <2>6. o \in Locals /\ o.view = nv /\ o.hidden = H /\ o.since = own.since /\ o.todo = {}
    BY <1>3, <1>4, <2>3, <2>5 DEF Locals
  <2> HIDE DEF o
  <2>7. ASSUME NEW e \in engines
        PROVE  Known(e, o)
    <3>1. Known(e, own)
      BY <1>4
    <3>2. CASE [e EXCEPT !.up = TRUE] \in own.hidden
      BY <2>3, <2>6, <3>2 DEF Known
    <3>3. CASE e.up /\ e.port \in DOMAIN own.view /\ own.view[e.port] = e.model
      BY <2>3, <2>5, <2>6, <3>3 DEF Known
    <3>4. QED BY <3>1, <3>2, <3>3 DEF Known
  <2>8. Between(t, o, clk)
    BY <1>2, <1>3, <2>6, <2>7 DEF Between
  <2>9. QED BY <1>2, <2>1, <2>6, <2>8, AdmitKeeps
<1>8. QED BY <1>5, <1>6, <1>7

\* The node is freed for a recipe that spans nodes: what survives cannot be seen.
LEMMA ClearKeeps ==
    ASSUME SparkInv, NEW t \in Tasks, Clear(t)
    PROVE  SparkInv'
<1> DEFINE H == own.hidden \union Ids(engines')
           o == [own EXCEPT !.view = NoView, !.hidden = H]
<1>1. Work(t, "clear") /\ "clear" \in LoadPlaces \ {"probe", "stop", "ready", "answer"}
  BY DEF Clear, LoadPlaces
<1>2. engines' \subseteq engines /\ UNCHANGED boardVars
  BY DEF Clear, StopsAll
<1>3. Between(t, own, clk) /\ own.todo = {} /\ own \in Locals
  BY <1>1, <1>2, BetweenAgain DEF Between
<1>4. Admit(t, o, clk)
  BY DEF Clear
<1>5. H \subseteq Engine /\ \A e \in engines' : [e EXCEPT !.up = TRUE] \in H
  <2>1. engines' \subseteq Engine /\ own.hidden \subseteq Engine
    BY <1>3 DEF Between, Locals
  <2>2. QED BY <2>1, IdsAreServers
<1> HIDE DEF H
<1>6. o \in Locals /\ o.hidden = H /\ o.since = own.since /\ o.todo = {}
  BY <1>3, <1>5, NoSwapIsLocals DEF Locals
<1> HIDE DEF o
<1>7. Between(t, o, clk)
  BY <1>3, <1>5, <1>6 DEF Between, Known
<1>8. QED BY <1>2, <1>4, <1>6, <1>7, AdmitKeeps

\* The free memory is measured, or not told.
LEMMA MeasureKeeps ==
    ASSUME SparkInv, NEW t \in Tasks, Measure(t)
    PROVE  SparkInv'
<1> DEFINE o == [own EXCEPT !.blind = TRUE]
           g == [own EXCEPT !.growing = Ids(engines \ Up)]
<1>1. Work(t, "measure") /\ "measure" \in LoadPlaces \ {"probe", "stop", "ready", "answer"}
  BY DEF Measure, LoadPlaces
<1>2. engines' = engines /\ UNCHANGED boardVars
  BY DEF Measure
<1>3. Between(t, own, clk) /\ own.todo = {} /\ own \in Locals
  BY <1>1, <1>2, BetweenAgain DEF Between
<1>4. SeesNobody(req[t], own) /\ lock.owner = t /\ pc[t] \in LoadPlaces /\ InTime(clk)
  BY <1>1, AtWork DEF Sound
<1>5. CASE Finish(t, "failed", clk)
  BY <1>2, <1>3, <1>4, <1>5, ClaimsStay, FinishKeeps DEF Between
<1>6. CASE PickSlot(t, g, clk)
  <2>1. Ids(engines \ Up) \in SUBSET Engine
    BY <1>2, <1>3 DEF Between, Ids, Engine
  <2>2. /\ g \in Locals /\ g.view = own.view /\ g.hidden = own.hidden
        /\ g.since = own.since /\ g.todo = {}
    BY <1>3, <2>1 DEF Locals
  <2> HIDE DEF g
  <2>3. Between(t, g, clk) /\ SeesNobody(req[t], g)
    BY <1>3, <1>4, <2>2 DEF Between, Known, SeesNobody
  <2>4. QED BY <1>2, <1>6, <2>2, <2>3, PickSlotKeeps
<1>7. CASE PickSlot(t, o, clk)
  <2>1. /\ o \in Locals /\ o.view = own.view /\ o.hidden = own.hidden
        /\ o.since = own.since /\ o.todo = {}
    BY <1>3 DEF Locals
  <2> HIDE DEF o
  <2>2. Between(t, o, clk) /\ SeesNobody(req[t], o)
    BY <1>3, <1>4, <2>1 DEF Between, Known, SeesNobody
  <2>3. QED BY <1>2, <1>7, <2>1, <2>2, PickSlotKeeps
<1>8. QED BY <1>5, <1>6, <1>7 DEF Measure

\* A server of its own on the slot that was free.
LEMMA LaunchKeeps ==
    ASSUME SparkInv, NEW t \in Tasks, Launch(t) \/ LaunchFails(t)
    PROVE  SparkInv'
<1>1. Work(t, "launch") /\ UNCHANGED boardVars /\ "launch" \in LoadPlaces
  BY DEF Launch, LaunchFails, LoadPlaces
<1>2. /\ lock.owner = t /\ pc[t] = "launch" /\ engines \subseteq Engine /\ InTime(clk)
      /\ own \in Locals /\ own.since \in 0..nextId /\ req[t].model \in Models
      /\ Sound(t, engines, board, "launch", req[t], own)
  BY <1>1, AtWork
<1>3. New(t) \in Engine /\ New(t).by = t
  BY <1>2 DEF Sound, FreePorts, New, Engine
<1>4. BoardOK' /\ Disjoint' /\ nextId' = nextId
  BY <1>1, ClaimsStay
<1>5. CASE LaunchFails(t)
  <2>1. Finish(t, "failed", clk) /\ engines' \subseteq Engine
    BY <1>2, <1>3, <1>5 DEF LaunchFails
  <2>2. QED BY <1>1, <1>2, <1>4, <2>1, FinishKeeps
<1>6. CASE Launch(t)
  <2>1. GoOn(t, "ready", own, clk) /\ engines' = engines \union {New(t)}
    BY <1>6 DEF Launch
  <2>2. \A e \in engines' : Known(e, own) \/ e.by = t
    BY <1>2, <1>3, <2>1 DEF Sound, LoadPlaces
  <2>3. Sound(t, engines', board', "ready", req[t], own)
    BY <1>2, <2>2 DEF Sound, LoadPlaces
  <2>4. "ready" \in LoadPlaces /\ engines' \subseteq Engine
    BY <1>2, <1>3, <2>1 DEF LoadPlaces
  <2>5. QED BY <1>1, <1>2, <1>4, <2>1, <2>3, <2>4, GoOnKeeps
<1>7. QED BY <1>5, <1>6

\* The server is up: what is left is to read the card.
LEMMA ReadyKeeps ==
    ASSUME SparkInv, NEW t \in Tasks, Ready(t)
    PROVE  SparkInv'
<1>1. /\ Work(t, "ready") /\ UNCHANGED <<boardVars, engines>> /\ GoOn(t, "answer", own, clk)
      /\ "ready" \in LoadPlaces /\ "answer" \in LoadPlaces
  BY DEF Ready, LoadPlaces
<1>2. /\ lock.owner = t /\ pc[t] = "ready" /\ engines \subseteq Engine /\ InTime(clk)
      /\ own \in Locals /\ own.since \in 0..nextId
      /\ Sound(t, engines, board, "ready", req[t], own)
  BY <1>1, AtWork
<1>3. BoardOK' /\ Disjoint' /\ nextId' = nextId
  BY <1>1, ClaimsStay
<1>4. Sound(t, engines', board', "answer", req[t], own)
  BY <1>1, <1>2 DEF Sound, boardVars
<1>5. QED BY <1>1, <1>2, <1>3, <1>4, GoOnKeeps

LEMMA LoadStepKeeps ==
    ASSUME SparkInv, NEW t \in Tasks, LoadStep(t)
    PROVE  SparkInv'
BY EndsKeep, LoadProbeKeeps, StopVictimKeeps, ReloadKeeps, RecheckKeeps, ClearKeeps,
   MeasureKeeps, LaunchKeeps, ReadyKeeps DEF LoadStep

-----------------------------------------------------------------------------
(* The lock, unload(), and what happens around the node.                   *)

\* Nobody has begun a swap when the lock is free; who takes it then has sound locals.
LEMMA FreshIsSound ==
    ASSUME NEW t, NEW E, NEW b, NEW w \in {"probe", "free"}, NEW r
    PROVE  Sound(t, E, b, w, r, NoSwap)
<1>1. NoSwap \in Locals /\ NoSwap.todo = {}
  BY NoSwapIsLocals DEF NoSwap
<1>2. w \notin LoadPlaces \ {"probe", "ready", "answer"}
  BY DEF LoadPlaces
<1>3. QED BY <1>1, <1>2 DEF Sound

\* A task takes the lock, or leaves the queue with it: its swap begins.
LEMMA BeginKeeps ==
    ASSUME SparkInv, NEW t \in Tasks, lock.owner = NoTask, NEW r \in Requests,
           req' \in [Tasks -> Requests \union {None}], req'[t] = r,
           \A x \in Tasks \ {t} : req'[x] = req[x],
           PlacesOK', lock'.owner = t, pc'[t] = FirstStep(r),
           \A x \in Tasks \ {t} : pc'[x] = pc[x],
           UNCHANGED <<boardVars, engines, own, clk>>
    PROVE  SparkInv'
<1>1. /\ BoardOK' /\ Disjoint' /\ engines' \subseteq Engine /\ InTime(clk)'
      /\ nextId' = nextId
  BY ClaimsStay DEF SparkInv, InTime, Clocks
<1>2. FirstStep(r) \in {"probe", "free"} /\ (FirstStep(r) \in LoadPlaces => r.kind = "load")
  BY DEF FirstStep, LoadPlaces
<1>3. CarriesOK'
  <2>1. ASSUME NEW x \in Tasks
        PROVE  /\ pc'[x] \in Swapping \union {"queued"} => req'[x] \in Requests
               /\ pc'[x] \in LoadPlaces => req'[x].kind = "load"
    <3>1. CASE x = t
      BY <1>2, <3>1
    <3>2. CASE x # t
      BY <3>2 DEF SparkInv, CarriesOK
    <3>3. QED BY <3>1, <3>2
  <2>2. QED BY <2>1 DEF CarriesOK
<1>4. own' = NoSwap
  BY DEF SparkInv, SwapOK
<1>5. Sound(t, engines', board', pc'[t], req'[t], own')
  BY <1>2, <1>4, FreshIsSound
<1>6. SwapOK'
  <2>1. \A x \in Tasks : lock'.owner = x => x = t
    OBVIOUS
  <2>2. own'.since \in 0..nextId'
    BY <1>1 DEF SparkInv, SwapOK
  <2>3. lock'.owner # NoTask
    BY ModelsAreModels
  <2>4. QED BY <1>5, <2>1, <2>2, <2>3 DEF SwapOK, Sound, Known, Judged
<1>7. QED BY <1>1, <1>3, <1>6 DEF SparkInv

\* The lock keeps its owner, and a task that does not swap comes or goes.
LEMMA WaitingKeeps ==
    ASSUME SparkInv, NEW t \in Tasks, pc[t] \notin Swapping, lock'.owner = lock.owner,
           PlacesOK', pc'[t] \notin Swapping,
           \A x \in Tasks \ {t} : pc'[x] = pc[x] /\ req'[x] = req[x],
           req' \in [Tasks -> Requests \union {None}],
           pc'[t] = "queued" => req'[t] \in Requests,
           UNCHANGED <<boardVars, engines, own, clk>>
    PROVE  SparkInv'
<1>1. /\ BoardOK' /\ Disjoint' /\ engines' \subseteq Engine /\ InTime(clk)'
      /\ nextId' = nextId /\ board' = board
  BY ClaimsStay DEF SparkInv, InTime, Clocks
<1>2. CarriesOK'
  <2>1. pc'[t] \notin LoadPlaces
    BY DEF LoadPlaces, Swapping
  <2>2. ASSUME NEW x \in Tasks
        PROVE  /\ pc'[x] \in Swapping \union {"queued"} => req'[x] \in Requests
               /\ pc'[x] \in LoadPlaces => req'[x].kind = "load"
    <3>1. CASE x = t
      BY <2>1, <3>1
    <3>2. CASE x # t
      BY <3>2 DEF SparkInv, CarriesOK
    <3>3. QED BY <3>1, <3>2
  <2>3. QED BY <2>2 DEF CarriesOK
<1>3. SwapOK'
  <2>1. ASSUME NEW x \in Tasks, lock'.owner = x
        PROVE  Sound(x, engines', board', pc'[x], req'[x], own')
    <3>1. x # t
      BY <2>1 DEF SparkInv, PlacesOK
    <3>2. Sound(x, engines, board, pc[x], req[x], own)
      BY <2>1 DEF SparkInv, SwapOK
    <3>3. QED BY <1>1, <3>1, <3>2
  <2>2. QED BY <1>1, <2>1 DEF SparkInv, SwapOK, Sound, Known, Judged
<1>4. QED BY <1>1, <1>2, <1>3 DEF SparkInv

LEMMA EnterKeeps ==
    ASSUME SparkInv, NEW t \in Tasks, Enter(t)
    PROVE  SparkInv'
<1>1. PlacesOK /\ CarriesOK /\ pc[t] = "new" /\ UNCHANGED <<boardVars, engines, own, clk>>
  BY DEF SparkInv, Enter
<1>2. InOrder(lock, Tasks) /\ ~Waits(lock, t) /\ lock.owner # t /\ pc[t] \notin Swapping
  BY <1>1 DEF PlacesOK, Swapping
<1>3. PICK r \in Requests :
         /\ req' = [req EXCEPT ![t] = r]
         /\ IF Uncontended(lock)
            THEN lock' = Take(lock, t) /\ Goto(t, FirstStep(r))
            ELSE lock' = Queue(lock, t) /\ Goto(t, "queued")
  BY DEF Enter
<1>4. /\ req' \in [Tasks -> Requests \union {None}] /\ req'[t] = r
      /\ \A x \in Tasks \ {t} : req'[x] = req[x]
  BY <1>1, <1>3 DEF CarriesOK
<1>5. CASE Uncontended(lock)
  <2>1. lock' = Take(lock, t) /\ Goto(t, FirstStep(r)) /\ lock.owner = NoTask
    BY <1>3, <1>5 DEF Uncontended, Locked
  <2>2. /\ InOrder(lock', Tasks) /\ lock'.owner = t
        /\ \A x : ~Waits(lock, x) /\ ~Waits(lock', x)
    BY <1>2, <1>5, <2>1, TakeMoves
  <2>3. FirstStep(r) \in Where /\ FirstStep(r) \in Swapping /\ FirstStep(r) # "queued"
    BY DEF FirstStep, Where, Swapping
  <2>4. PlacesOK' /\ pc'[t] = FirstStep(r) /\ \A x \in Tasks \ {t} : pc'[x] = pc[x]
    BY <1>1, <2>1, <2>2, <2>3, OneMoves, ModelsAreModels
  <2>5. QED BY <1>1, <1>4, <2>1, <2>2, <2>4, BeginKeeps
<1>6. CASE ~Uncontended(lock)
  <2>1. lock' = Queue(lock, t) /\ Goto(t, "queued")
    BY <1>3, <1>6
  <2>2. /\ InOrder(lock', Tasks) /\ lock'.owner = lock.owner
        /\ \A x : Waits(lock', x) <=> Waits(lock, x) \/ x = t
    BY <1>2, <2>1, QueueMoves
  <2>3. "queued" \in Where /\ "queued" \notin Swapping
    BY DEF Where, Swapping
  <2>4. PlacesOK' /\ pc'[t] = "queued" /\ \A x \in Tasks \ {t} : pc'[x] = pc[x]
    BY <1>1, <1>2, <2>1, <2>2, <2>3, OneMoves
  <2>5. QED BY <1>1, <1>2, <1>4, <2>2, <2>3, <2>4, WaitingKeeps
<1>7. QED BY <1>5, <1>6

LEMMA WakeKeeps ==
    ASSUME SparkInv, NEW t \in Tasks, Wake(t)
    PROVE  SparkInv'
<1>1. /\ PlacesOK /\ CarriesOK /\ InOrder(lock, Tasks)
      /\ Woken(lock, t) /\ lock' = Resume(lock, t) /\ Goto(t, FirstStep(req[t]))
      /\ UNCHANGED <<boardVars, engines, req, own, clk>>
  BY DEF SparkInv, PlacesOK, Wake
<1>2. /\ Waits(lock, t) /\ lock.owner = NoTask
      /\ InOrder(lock', Tasks) /\ lock'.owner = t
      /\ \A x : Waits(lock', x) <=> Waits(lock, x) /\ x # t
  BY <1>1, ResumeMoves
<1>3. pc[t] = "queued" /\ req[t] \in Requests
  BY <1>1, <1>2 DEF PlacesOK, CarriesOK
<1>4. /\ FirstStep(req[t]) \in Where /\ FirstStep(req[t]) \in Swapping
      /\ FirstStep(req[t]) # "queued"
  BY DEF FirstStep, Where, Swapping
<1>5. PlacesOK' /\ pc'[t] = FirstStep(req[t]) /\ \A x \in Tasks \ {t} : pc'[x] = pc[x]
  BY <1>1, <1>2, <1>4, OneMoves, ModelsAreModels
<1>6. /\ req' \in [Tasks -> Requests \union {None}] /\ req'[t] = req[t]
      /\ \A x \in Tasks \ {t} : req'[x] = req[x]
  BY <1>1 DEF CarriesOK
<1>7. QED BY <1>1, <1>2, <1>3, <1>5, <1>6, BeginKeeps

LEMMA TimeOutKeeps ==
    ASSUME SparkInv, NEW t \in Tasks, TimeOut(t)
    PROVE  SparkInv'
<1>1. /\ PlacesOK /\ CarriesOK /\ InOrder(lock, Tasks) /\ t \in lock.timed
      /\ lock' = GiveUp(lock, t) /\ Goto(t, "failed") /\ req' = [req EXCEPT ![t] = None]
      /\ UNCHANGED <<boardVars, engines, own, clk>>
  BY DEF SparkInv, PlacesOK, TimeOut, Over
<1>2. /\ InOrder(lock', Tasks) /\ lock'.owner = lock.owner
      /\ \A x : Waits(lock', x) <=> Waits(lock, x) /\ x # t
  BY <1>1, GiveUpMoves
<1>3. Waits(lock, t) /\ pc[t] = "queued" /\ lock.owner # t
  BY <1>1 DEF InOrder, PlacesOK
<1>4. "failed" \in Where /\ "failed" \notin Swapping /\ pc[t] \notin Swapping
  BY <1>3 DEF Where, Swapping
<1>5. PlacesOK' /\ pc'[t] = "failed" /\ \A x \in Tasks \ {t} : pc'[x] = pc[x]
  BY <1>1, <1>2, <1>3, <1>4, OneMoves
<1>6. /\ req' \in [Tasks -> Requests \union {None}]
      /\ \A x \in Tasks \ {t} : req'[x] = req[x]
  BY <1>1 DEF CarriesOK
<1>7. QED BY <1>1, <1>2, <1>4, <1>5, <1>6, WaitingKeeps

\* unload(): some of the servers stop, or none.
LEMMA FreeKeeps ==
    ASSUME SparkInv, NEW t \in Tasks, Free(t)
    PROVE  SparkInv'
<1> DEFINE M == IF req[t].model = None THEN {} ELSE Models \ {req[t].model}
<1>1. /\ lock.owner = t /\ pc[t] = "free" /\ engines' \subseteq engines
      /\ lock' = Release(lock) /\ Over(t, "done") /\ Goto(t, "done")
      /\ clk' = Keeping(clk, M) /\ UNCHANGED <<boardVars, own>>
  BY StopsLeave DEF Free, Work, Over, StopsAll
<1>2. PlacesOK /\ CarriesOK /\ InTime(clk) /\ engines \subseteq Engine /\ own = NoSwap
  BY <1>1 DEF SparkInv, SwapOK, Sound
<1>3. PlacesOK' /\ lock'.owner = NoTask
  BY <1>1, <1>2, ReleasedMoves
<1>4. CarriesOK'
  BY <1>1, <1>2, PutDown
<1> HIDE DEF M
<1>5. InTime(clk)'
  BY <1>1, <1>2, KeptInTime DEF InTime, Clocks
<1>6. BoardOK' /\ Disjoint' /\ nextId' = nextId
  BY <1>1, ClaimsStay
<1>7. SwapOK'
  BY <1>1, <1>2, <1>3, <1>6, ModelsAreModels DEF SparkInv, SwapOK
<1>8. QED BY <1>1, <1>2, <1>3, <1>4, <1>5, <1>6, <1>7 DEF SparkInv

\* What happens around the node leaves the swaps where they are.
LEMMA AroundKeeps ==
    ASSUME SparkInv, UNCHANGED <<lock, pc, req, own>>,
           BoardOK', Disjoint', engines' \subseteq Engine, InTime(clk'),
           nextId <= nextId',
           \A o \in Locals : (\A e \in engines : Known(e, o)) =>
                                \A e \in engines' : Known(e, o),
           \A o \in Locals, t \in Tasks :
              (\A e \in engines : Known(e, o) \/ e.by = t) =>
                 \A e \in engines' : Known(e, o) \/ e.by = t,
           \A r : Judged(board, r, own) => Judged(board', r, own)
    PROVE  SparkInv'
<1>1. PlacesOK' /\ CarriesOK'
  BY DEF SparkInv, PlacesOK, CarriesOK
<1>2. ASSUME NEW t \in Tasks, lock.owner = t
      PROVE  Sound(t, engines', board', pc[t], req[t], own)
  <2>1. Sound(t, engines, board, pc[t], req[t], own) /\ own \in Locals
    BY <1>2 DEF SparkInv, SwapOK, Sound
  <2>2. pc[t] = "stop" => Judged(board', req[t], own)
    BY <2>1 DEF Sound
  <2>3. pc[t] \in LoadPlaces \ {"probe", "ready", "answer"} => \A e \in engines' : Known(e, own)
    BY <2>1 DEF Sound
  <2>4. pc[t] \in {"ready", "answer"} => \A e \in engines' : Known(e, own) \/ e.by = t
    BY <2>1 DEF Sound
  <2>5. QED BY <2>1, <2>2, <2>3, <2>4 DEF Sound
<1>3. own.since \in 0..nextId'
  BY DEF SparkInv, SwapOK, BoardOK
<1>4. SwapOK'
  BY <1>2, <1>3 DEF SparkInv, SwapOK, Sound, Known, Judged
<1>5. InTime(clk)'
  BY DEF InTime, Clocks
<1>6. QED BY <1>1, <1>4, <1>5 DEF SparkInv

\* Requests, windows that pass, and status() change nothing but the clocks.
LEMMA ClocksKeep ==
    ASSUME SparkInv, Status \/ Activity
    PROVE  SparkInv'
<1>1. UNCHANGED <<boardVars, engines, lock, pc, req, own>>
  BY DEF Status, Activity
<1>2. InTime(clk) /\ engines \subseteq Engine /\ BoardOK
  BY DEF SparkInv
<1>3. InTime(clk')
  <2>1. CASE Status
    BY <1>2, <2>1, KeptInTime DEF Status
  <2>2. CASE Requested
    <3>1. PICK e \in Up : clk' = Touched(clk, e.model)
      BY <2>2 DEF Requested
    <3>2. e.model \in Models
      BY <1>2, <3>1 DEF Up, Engine
    <3>3. QED BY <1>2, <3>1, <3>2, TouchedInTime
  <2>3. CASE \E m \in Models : Cools(m)
    BY <1>2, <2>3 DEF Cools, InTime, Clocks
  <2>4. CASE Cold
    BY <1>2, <2>4 DEF Cold, InTime, Clocks
  <2>5. QED BY <2>1, <2>2, <2>3, <2>4 DEF Activity
<1>4. /\ BoardOK' /\ Disjoint' /\ nextId' = nextId /\ board' = board /\ engines' = engines
      /\ nextId <= nextId'
  BY <1>1, <1>2, ClaimsStay DEF BoardOK
<1>5. QED BY <1>1, <1>2, <1>3, <1>4, AroundKeeps

\* A server that comes up was hidden, and stays so; one that dies is not missed.
LEMMA ServerStepKeeps ==
    ASSUME SparkInv, ServerStep
    PROVE  SparkInv'
<1>1. UNCHANGED <<boardVars, lock, pc, req, own, clk>>
  BY DEF ServerStep
<1>2. InTime(clk') /\ engines \subseteq Engine /\ BoardOK
  BY <1>1 DEF SparkInv
<1>3. PICK e \in engines : ComesUp(e) \/ Dies(e)
  BY DEF ServerStep
<1>4. e \in Engine
  BY <1>2
<1> DEFINE u == [e EXCEPT !.up = TRUE]
<1>5. /\ u \in Engine /\ u.by = e.by
      /\ [u EXCEPT !.up = TRUE] = u
  BY <1>4 DEF Engine
<1>6. \A f \in engines' : f \in engines \/ (f = u /\ ~e.up)
  BY <1>3 DEF ComesUp, Dies
<1>7. engines' \subseteq Engine
  BY <1>2, <1>5, <1>6
<1>8. ASSUME NEW o, Known(e, o), ~e.up
      PROVE  Known(u, o)
  <2>1. u \in o.hidden
    BY <1>8 DEF Known
  <2>2. QED BY <1>5, <2>1 DEF Known
<1> HIDE DEF u
<1>9. ASSUME NEW o \in Locals, \A f \in engines : Known(f, o)
      PROVE  \A f \in engines' : Known(f, o)
  BY <1>6, <1>8, <1>9
<1>10. ASSUME NEW o \in Locals, NEW t \in Tasks,
              \A f \in engines : Known(f, o) \/ f.by = t
       PROVE  \A f \in engines' : Known(f, o) \/ f.by = t
  BY <1>5, <1>6, <1>8, <1>10
<1>11. /\ BoardOK' /\ Disjoint' /\ nextId' = nextId /\ board' = board
       /\ nextId <= nextId'
  BY <1>1, <1>2, ClaimsStay DEF BoardOK
<1>12. QED BY <1>1, <1>2, <1>7, <1>9, <1>10, <1>11, AroundKeeps

\* A claim granted while the victim stops comes after its judgement.
LEMMA ClaimStepKeeps ==
    ASSUME SparkInv, ClaimStep
    PROVE  SparkInv'
<1>1. UNCHANGED <<engines, lock, pc, req, own, clk>>
  BY DEF ClaimStep
<1>2. /\ InTime(clk') /\ engines' \subseteq Engine /\ BoardOK /\ Disjoint
      /\ own.since \in 0..nextId
  BY <1>1 DEF SparkInv, SwapOK
<1>3. CASE \E c \in Offers : Grant(c)
  <2>1. PICK c \in Claim : Grant(c)
    BY <1>3, NodeAssumption
  <2>2. /\ BoardOK' /\ Disjoint' /\ nextId' = nextId + 1
        /\ \A i \in DOMAIN board' :
              i = nextId \/ (i \in DOMAIN board /\ i < nextId /\ board'[i] = board[i])
    BY <1>2, <2>1, GrantKeepsBoard, GrantDisjoint
  <2>3. ASSUME NEW r, Judged(board, r, own)
        PROVE  Judged(board', r, own)
    <3>1. SUFFICES ASSUME NEW i \in Overlapping(board', Node, own.victim),
                          board'[i].holder # r.by
                   PROVE  i >= own.since
      BY DEF Judged
    <3>2. i \in DOMAIN board'
      BY DEF Overlapping, OnUnit
    <3>3. CASE i = nextId
      BY <1>2, <3>3 DEF BoardOK
    <3>4. CASE i \in DOMAIN board /\ board'[i] = board[i]
      <4>1. i \in Overlapping(board, Node, own.victim) /\ board[i].holder # r.by
        BY <3>1, <3>4 DEF Overlapping, OnUnit
      <4>2. QED BY <2>3, <4>1 DEF Judged
    <3>5. QED BY <2>2, <3>2, <3>3, <3>4
  <2>4. nextId <= nextId'
    BY <1>2, <2>2 DEF BoardOK
  <2>5. QED BY <1>1, <1>2, <2>2, <2>3, <2>4, AroundKeeps
<1>4. CASE \E i \in DOMAIN board : End({i})
  <2>1. PICK S : End(S)
    BY <1>4
  <2>2. /\ BoardOK' /\ Disjoint' /\ nextId' = nextId
        /\ \A i \in DOMAIN board' : i \in DOMAIN board /\ board'[i] = board[i]
    BY <1>2, <2>1, EndKeepsBoard, EndDisjoint
  <2>3. ASSUME NEW r, Judged(board, r, own)
        PROVE  Judged(board', r, own)
    BY <2>2, <2>3 DEF Judged, Overlapping, OnUnit
  <2>4. nextId <= nextId'
    BY <1>2, <2>2 DEF BoardOK
  <2>5. QED BY <1>1, <1>2, <2>2, <2>3, <2>4, AroundKeeps
<1>5. QED BY <1>3, <1>4 DEF ClaimStep

-----------------------------------------------------------------------------
(* The invariant.                                                          *)

LEMMA InitHolds == Init => SparkInv
<1> SUFFICES ASSUME Init PROVE SparkInv
  OBVIOUS
<1>1. /\ BoardInit /\ lock = Unlocked /\ pc = [t \in Tasks |-> "new"]
      /\ req = [t \in Tasks |-> None] /\ own = NoSwap
      /\ clk = [known |-> {}, recent |-> {}, warm |-> TRUE, hot |-> {}]
      /\ engines \subseteq [port : Ports, model : Models, up : {TRUE}, by : {None}]
  BY DEF Init
<1>2. BoardOK /\ Disjoint
  BY <1>1, EmptyBoard DEF Disjoint, BoardInit
<1>3. engines \subseteq Engine
  BY <1>1 DEF Engine
<1>4. InTime(clk)
  BY <1>1 DEF InTime, Clocks
<1>5. /\ InOrder(lock, Tasks) /\ lock.owner = NoTask
      /\ \A t \in Tasks : lock.owner # t /\ ~Waits(lock, t)
  BY <1>1, ModelsAreModels, UnlockedInOrder DEF Unlocked
<1>6. PlacesOK
  BY <1>1, <1>5 DEF PlacesOK, Where, Swapping
<1>7. CarriesOK
  BY <1>1 DEF CarriesOK, Swapping, LoadPlaces
<1>8. SwapOK
  <2>1. own.since = 0 /\ 0 \in 0..nextId
    BY <1>1, <1>2 DEF NoSwap, BoardOK
  <2>2. QED BY <1>1, <1>5, <2>1 DEF SwapOK
<1>9. QED BY <1>2, <1>3, <1>4, <1>6, <1>7, <1>8 DEF SparkInv

LEMMA NextKeeps ==
    ASSUME SparkInv, [Next]_vars
    PROVE  SparkInv'
<1>1. CASE UNCHANGED vars
  <2>1. UNCHANGED <<board, nextId, engines, lock, pc, req, own, clk>>
    BY <1>1 DEF vars, boardVars
  <2>2. QED
    BY <2>1 DEF SparkInv, BoardOK, Disjoint, InTime, Clocks, PlacesOK, CarriesOK, SwapOK,
                Sound, Known, Judged
<1>2. CASE \E t \in Tasks : Enter(t) \/ Wake(t) \/ TimeOut(t) \/ LoadStep(t) \/ Free(t)
  BY <1>2, EnterKeeps, WakeKeeps, TimeOutKeeps, LoadStepKeeps, FreeKeeps
<1>3. CASE Status \/ Activity \/ ServerStep \/ ClaimStep
  BY <1>3, ClocksKeep, ServerStepKeeps, ClaimStepKeeps
<1>4. QED BY <1>1, <1>2, <1>3 DEF Next

\* The invariant holds of every behaviour of a node.
THEOREM SparkInvariant == Spec => []SparkInv
<1>1. Init => SparkInv
  BY InitHolds
<1>2. SparkInv /\ [Next]_vars => SparkInv'
  BY NextKeeps
<1>3. QED BY <1>1, <1>2, PTL DEF Spec

\* The owner of the swap lock, and nobody else, is in a swap, and a load's victims are in
\* its view (SparkUnit._acquire_swap_lock, _load).
THEOREM SparkTyped == Spec => []TypeOK
<1>1. SparkInv => TypeOK
  <2> SUFFICES ASSUME SparkInv PROVE TypeOK
    OBVIOUS
  <2>1. /\ engines \subseteq Engine /\ lock \in SwapLocks(Tasks)
        /\ pc \in [Tasks -> Where] /\ req \in [Tasks -> Requests \union {None}]
        /\ clk.recent \subseteq clk.known
        /\ \A t \in Tasks : /\ pc[t] \in Swapping <=> lock.owner = t
                            /\ pc[t] = "queued" <=> Waits(lock, t)
    BY DEF SparkInv, PlacesOK, CarriesOK, InTime, InOrder
  <2>2. own \in Locals /\ own.todo \subseteq Residents(own.view)
    <3>1. lock.owner \in Tasks \union {NoTask}
      BY <2>1, LockFields
    <3>2. CASE lock.owner = NoTask
      <4>1. own = NoSwap /\ NoSwap \in Locals
        BY <3>2, NoSwapIsLocals DEF SparkInv, SwapOK
      <4>2. NoSwap.todo = {}
        BY DEF NoSwap
      <4>3. QED BY <4>1, <4>2
    <3>3. CASE lock.owner \in Tasks
      BY <3>3 DEF SparkInv, SwapOK, Sound
    <3>4. QED BY <3>1, <3>2, <3>3
  <2>3. own.view \in SlotMaps /\ own.port \in Ports \union {0}
    BY <2>2 DEF Locals
  <2>4. DOMAIN own.view \subseteq Ports /\ Residents(own.view) \subseteq Models
    <3> DEFINE vw == own.view
    <3>1. vw \in SlotMaps
      BY <2>3
    <3> HIDE DEF vw
    <3>2. DOMAIN vw \subseteq Ports /\ Residents(vw) \subseteq Models
      BY <3>1, ViewFields
    <3>3. QED BY <3>2 DEF vw
  <2>5. QED BY <2>1, <2>2, <2>3, <2>4 DEF TypeOK
<1>2. QED BY <1>1, SparkInvariant, PTL

\* A recipe that kills its neighbours is launched beside none that its load could see
\* (needs_empty_node in _load).
THEOREM LoneLaunchesAlone == Spec => []LoneIsAlone
<1>1. SparkInv => LoneIsAlone
  <2> SUFFICES ASSUME SparkInv, NEW t \in Tasks, pc[t] = "launch",
                      req[t].model \in Lone, ~req[t].force
               PROVE  Ids(engines) \subseteq own.hidden
    BY DEF LoneIsAlone
  <2>1. Sound(t, engines, board, "launch", req[t], own)
    BY AtWork DEF SparkInv, PlacesOK, Swapping, SwapOK
  <2>2. own.view = NoView /\ \A e \in engines : Known(e, own)
    BY <2>1 DEF Sound, SeesNobody, LoadPlaces
  <2>3. \A e \in engines : [e EXCEPT !.up = TRUE] \in own.hidden
    BY <2>2, NoSwapIsLocals DEF Known
  <2>4. QED BY <2>3 DEF Ids
<1>2. QED BY <1>1, SparkInvariant, PTL

-----------------------------------------------------------------------------
(* What a step of a node may not do.                                       *)

\* When an eviction stops a model, only its requester has an older claim on it
\* (_evict_victim revokes in the same breath as it judges).
THEOREM EvictsUnclaimed == Spec => EvictedIsUnclaimed
<1>1. ASSUME SparkInv, NEW t \in Tasks, pc[t] = "stop"
      PROVE  \A i \in Overlapping(board, Node, own.victim) :
                board[i].holder # req[t].by => i >= own.since
  <2>1. lock.owner = t
    BY <1>1 DEF SparkInv, PlacesOK, Swapping
  <2>2. QED BY <1>1, <2>1 DEF SparkInv, SwapOK, Sound, Judged
<1>2. SparkInv /\ [Next]_vars =>
        [\A t \in Tasks :
           pc[t] = "stop" /\ Cardinality(engines') < Cardinality(engines) =>
              \A i \in Overlapping(board, Node, own.victim) :
                 board[i].holder # req[t].by => i >= own.since]_vars
  BY <1>1
<1>3. QED BY <1>2, SparkInvariant, PTL DEF Spec, EvictedIsUnclaimed

\* Until a load chooses the next victim the last one is its victim, or it has none.
LEMMA PlacesNoVictim ==
    ASSUME NEW t, NEW o, "victim" \in DOMAIN o, NEW c,
           Place(t, o, c) \/ Admit(t, o, c) \/ PickSlot(t, o, c)
    PROVE  own'.victim \in {None, o.victim}
<1>1. \A how : Finish(t, how, c) => own'.victim = None
  BY DEF Finish, NoSwap
<1>2. \A w : GoOn(t, w, o, c) => own'.victim = o.victim
  BY DEF GoOn
<1>3. \A p : GoOn(t, "launch", [o EXCEPT !.port = p], c) => own'.victim = o.victim
  <2> SUFFICES ASSUME NEW p, GoOn(t, "launch", [o EXCEPT !.port = p], c)
               PROVE  own'.victim = o.victim
    OBVIOUS
  <2>1. own' = [o EXCEPT !.port = p]
    BY DEF GoOn
  <2>2. [o EXCEPT !.port = p].victim = o.victim
    OBVIOUS
  <2>3. QED BY <2>1, <2>2
<1>4. PickSlot(t, o, c) => own'.victim \in {None, o.victim}
  BY <1>1, <1>3 DEF PickSlot
<1>5. Admit(t, o, c) => own'.victim \in {None, o.victim}
  BY <1>1, <1>2, <1>4 DEF Admit
<1>6. Place(t, o, c) => own'.victim \in {None, o.victim}
  BY <1>1, <1>2, <1>5 DEF Place
<1>7. QED BY <1>4, <1>5, <1>6

\* A new victim has been judged, and what can be revoked has been.
LEMMA VictimIsJudged ==
    ASSUME NEW t, NEW o \in Locals, NEW c, Proceed(t, o, c), own'.victim # None
    PROVE  /\ own'.victim \in o.todo
           /\ MayEvict(own'.victim, req[t]) /\ End(Revoked(own'.victim, req[t]))
<1> DEFINE n == [o EXCEPT !.todo = {}, !.victim = None, !.since = 0]
           V == o.todo \intersect Residents(o.view)
<1>1. ~Place(t, n, c)
  <2>1. n.victim = None /\ "victim" \in DOMAIN n
    BY DEF Locals
  <2> HIDE DEF n
  <2>2. QED BY <2>1, PlacesNoVictim
<1>2. ~Finish(t, "failed", c)
  BY DEF Finish, NoSwap
<1>3. PICK v \in V : /\ MayEvict(v, req[t]) /\ End(Revoked(v, req[t]))
                     /\ GoOn(t, "stop", [o EXCEPT !.todo = V, !.victim = v,
                                                  !.since = nextId], c)
  BY <1>1, <1>2 DEF Proceed
<1>4. own'.victim = v
  <2>1. own' = [o EXCEPT !.todo = V, !.victim = v, !.since = nextId]
    BY <1>3 DEF GoOn
  <2>2. [o EXCEPT !.todo = V, !.victim = v, !.since = nextId].victim = v
    BY DEF Locals
  <2>3. QED BY <2>1, <2>2
<1>5. QED BY <1>3, <1>4

\* Only the owner of the lock changes what is being stopped, when it chooses a victim or
\* when it goes on without one.
LEMMA WhoChooses ==
    ASSUME SparkInv, [Next]_vars, NEW t \in Tasks, lock.owner = t,
           own'.victim # own.victim, own'.victim # None
    PROVE  LoadProbe(t) \/ StopVictim(t)
<1>1. own' # own
  OBVIOUS
<1>2. PICK x \in Tasks : LoadStep(x)
  BY <1>1 DEF Next, vars, Enter, Wake, TimeOut, Free, Status, Activity, ServerStep, ClaimStep
<1>3. x = t
  BY <1>2 DEF LoadStep, LoadRefused, LoadProbe, StopVictim, Answer, Reload, Recheck, Clear,
              Measure, Launch, LaunchFails, Ready, NeverReady, Work
<1>4. "victim" \in DOMAIN own
  <2>1. own \in Locals
    BY DEF SparkInv, SwapOK, Sound
  <2>2. QED BY <2>1 DEF Locals
<1>5. ASSUME NEW how, Finish(t, how, clk)
      PROVE  FALSE
  BY <1>5 DEF Finish, NoSwap
<1>6. ~(LoadRefused(t) \/ Answer(t) \/ LaunchFails(t) \/ NeverReady(t))
  BY <1>5 DEF LoadRefused, Answer, LaunchFails, NeverReady
<1>7. ~(Reload(t) \/ Launch(t) \/ Ready(t))
  BY <1>1 DEF Reload, Launch, Ready, GoOn
<1>8. ASSUME NEW vw, NEW H
      PROVE  ~Admit(t, [own EXCEPT !.view = vw, !.hidden = H], clk)
  <2> DEFINE o == [own EXCEPT !.view = vw, !.hidden = H]
  <2>1. o.victim = own.victim /\ "victim" \in DOMAIN o
    BY <1>4
  <2> HIDE DEF o
  <2>2. ~Admit(t, o, clk)
    BY <2>1, PlacesNoVictim
  <2>3. QED BY <2>2 DEF o
<1>9. ~(Recheck(t) \/ Clear(t))
  BY <1>5, <1>8 DEF Recheck, Clear
<1>10. ~Measure(t)
  <2> DEFINE o == [own EXCEPT !.blind = TRUE]
             g == [own EXCEPT !.growing = Ids(engines \ Up)]
  <2>1. /\ o.victim = own.victim /\ "victim" \in DOMAIN o
        /\ g.victim = own.victim /\ "victim" \in DOMAIN g
    BY <1>4
  <2> HIDE DEF o, g
  <2>2. ~PickSlot(t, o, clk) /\ ~PickSlot(t, g, clk)
    BY <2>1, PlacesNoVictim
  <2>3. QED BY <1>5, <2>2 DEF Measure, o, g
<1>11. QED BY <1>2, <1>3, <1>6, <1>7, <1>9, <1>10 DEF LoadStep

\* A victim that has been in use is stopped only from under a claim that the request
\* outranks (idle_for and the rules of _evict_victim).
THEOREM HotVictimsAreOutranked == Spec => NoHotVictim
<1>1. ASSUME SparkInv, [Next]_vars, NEW t \in Tasks, lock.owner = t,
             own.victim # own'.victim, own'.victim \in clk.hot
      PROVE  \E i \in Overlapping(board, Node, own'.victim) :
                /\ board[i].preemptible /\ board[i].priority < req[t].priority
                /\ i \notin DOMAIN board' \/ board[i].holder = req[t].by
  <2> DEFINE v == own'.victim
  <2>1. /\ BoardOK /\ Disjoint /\ InTime(clk) /\ own \in Locals
    BY <1>1 DEF SparkInv, SwapOK, Sound
  <2>2. v \in Models /\ v # None /\ v # Whole
    BY <1>1, <2>1, ModelsAreModels DEF InTime, Clocks
  <2>3. LoadProbe(t) \/ StopVictim(t)
    BY <1>1, <2>2, WhoChooses
  <2>4. MayEvict(v, req[t]) /\ End(Revoked(v, req[t]))
    <3>1. CASE LoadProbe(t)
      <4>1. PICK vw \in Views :
              Proceed(t, [own EXCEPT !.view = vw, !.todo = req[t].evict,
                                     !.hidden = Ids(engines \ (Seen(vw) \intersect Up))],
                      clk)
        BY <3>1 DEF LoadProbe
      <4> DEFINE H == Ids(engines \ (Seen(vw) \intersect Up))
                 o == [own EXCEPT !.view = vw, !.todo = req[t].evict, !.hidden = H]
      <4>2. /\ engines \subseteq Engine /\ req[t] \in Request
        BY <1>1, <3>1, AtWork DEF LoadProbe, LoadPlaces
      <4>3. vw \in SlotMaps /\ H \subseteq Engine /\ req[t].evict \subseteq Models
        BY <4>2, ProbeSees, IdsAreServers DEF Request
      <4> HIDE DEF H
      <4>4. o \in Locals
        BY <2>1, <4>3 DEF Locals
      <4>5. Proceed(t, o, clk)
        BY <4>1 DEF H
      <4> HIDE DEF o
      <4>6. QED BY <2>2, <4>4, <4>5, VictimIsJudged
    <3>2. CASE StopVictim(t)
      <4> DEFINE H == own.hidden \union Ids({e \in engines' : e.model = own.victim})
                 nv == Vacated(own.view, own.victim)
                 o == [own EXCEPT !.view = nv, !.todo = own.todo \ {own.victim},
                                  !.hidden = H]
                 c == Keeping(clk, Models \ {own.victim})
      <4>1. Proceed(t, o, c)
        BY <3>2 DEF StopVictim
      <4>2. /\ engines \subseteq Engine /\ own.victim \in Residents(own.view)
            /\ own.view \in SlotMaps
        BY <1>1, <3>2, AtWork DEF StopVictim, LoadPlaces, Sound, Locals
      <4>3. engines' \subseteq Engine
        BY <3>2, <4>2, StopsLeave DEF StopVictim
      <4>4. H \subseteq Engine
        <5>1. {e \in engines' : e.model = own.victim} \subseteq Engine
          BY <4>3
        <5>2. QED BY <2>1, <5>1, IdsAreServers DEF Locals
      <4>5. nv \in SlotMaps
        <5> DEFINE vw == own.view
                   m == own.victim
        <5>1. vw \in SlotMaps /\ m \in Residents(vw)
          BY <4>2
        <5> HIDE DEF vw, m
        <5>2. Vacated(vw, m) \in SlotMaps
          BY <5>1, SlotIsTaken
        <5>3. QED BY <5>2 DEF vw, m
      <4> HIDE DEF H, nv, c
      <4>6. o \in Locals
        BY <2>1, <4>4, <4>5 DEF Locals
      <4> HIDE DEF o
      <4>7. QED BY <2>2, <4>1, <4>6, VictimIsJudged
    <3>3. QED BY <2>3, <3>1, <3>2
  <2> HIDE DEF v
  <2>5. v \in clk.hot
    BY <1>1 DEF v
  <2>6. PICK i \in Overlapping(board, Node, v) :
           /\ board[i].preemptible /\ board[i].priority < req[t].priority
           /\ i \in Revoked(v, req[t]) \/ board[i].holder = req[t].by
    BY <2>1, <2>2, <2>4, <2>5, HotNeedsRank
  <2>7. i \in Revoked(v, req[t]) => i \notin DOMAIN board'
    BY <2>1, <2>4, EndKeepsBoard
  <2>8. QED BY <2>6, <2>7 DEF v
<1>2. SparkInv /\ [Next]_vars =>
        [\A t \in Tasks :
           lock.owner = t /\ own.victim # own'.victim /\ own'.victim \in clk.hot =>
              \E i \in Overlapping(board, Node, own'.victim) :
                 /\ board[i].preemptible /\ board[i].priority < req[t].priority
                 /\ i \notin DOMAIN board' \/ board[i].holder = req[t].by]_vars
  BY <1>1
<1>3. QED BY <1>2, SparkInvariant, PTL DEF Spec, NoHotVictim

\* A load that waits for its server is moved by its own steps only.
LEMMA WaitsForItself ==
    ASSUME SparkInv, [Next]_vars, NEW t \in Tasks, pc[t] = "ready", pc'[t] # "ready"
    PROVE  Ready(t) \/ NeverReady(t)
<1>1. /\ lock.owner = t /\ pc \in [Tasks -> Where] /\ ~Waits(lock, t)
      /\ InOrder(lock, Tasks)
  BY DEF SparkInv, PlacesOK, Swapping, InOrder
<1>2. ~(Status \/ Activity \/ ServerStep \/ ClaimStep \/ UNCHANGED vars)
  BY DEF Status, Activity, ServerStep, ClaimStep, vars
<1>3. ASSUME NEW x \in Tasks, Enter(x)
      PROVE  FALSE
  BY <1>1, <1>3 DEF Enter, Goto
<1>4. ASSUME NEW x \in Tasks, Wake(x)
      PROVE  FALSE
  BY <1>1, <1>4, ModelsAreModels DEF Wake, Woken, Locked
<1>5. ASSUME NEW x \in Tasks, TimeOut(x)
      PROVE  FALSE
  BY <1>1, <1>5 DEF TimeOut, Over, Goto, InOrder
<1>6. ASSUME NEW x \in Tasks, Free(x)
      PROVE  FALSE
  BY <1>1, <1>6 DEF Free, Work
<1>7. PICK x \in Tasks : LoadStep(x)
  BY <1>2, <1>3, <1>4, <1>5, <1>6 DEF Next
<1>8. QED
  BY <1>1, <1>7 DEF LoadStep, LoadRefused, LoadProbe, StopVictim, Answer, Reload, Recheck,
                    Clear, Measure, Launch, LaunchFails, Ready, NeverReady, Work

\* A load that goes on to report its launch as good has its own server, or one that was hidden
\* from it (wait_ready asks the slot for the served name).
THEOREM SuccessIsOwn == Spec => SuccessIsOwnLaunch
<1>1. ASSUME SparkInv, [Next]_vars, NEW t \in Tasks, pc[t] = "ready", pc'[t] = "answer"
      PROVE  \E e \in Up : /\ e.port = own.port /\ e.model = req[t].model
                           /\ e.by = t \/ e \in own.hidden
  <2>1. Ready(t) \/ NeverReady(t)
    BY <1>1, WaitsForItself
  <2>2. ~NeverReady(t)
    BY <1>1 DEF NeverReady, Finish, Over, Goto, SparkInv, PlacesOK
  <2>3. Work(t, "ready") /\ req[t].model \in Answers(own.port)
    BY <2>1, <2>2 DEF Ready
  <2>4. /\ req[t].model \in Models /\ engines \subseteq Engine
        /\ Sound(t, engines, board, "ready", req[t], own)
    BY <1>1, <2>3, AtWork DEF LoadPlaces
  <2>5. PICK e \in Up : e.port = own.port /\ e.model = req[t].model
    BY <2>3, <2>4, ModelsAreModels DEF Answers
  <2>6. e \in engines /\ e.up = TRUE /\ e \in Engine
    BY <2>4, <2>5 DEF Up, Engine
  <2>7. [e EXCEPT !.up = TRUE] = e
    BY <2>6 DEF Engine
  <2>8. own.port \notin DOMAIN own.view
    BY <2>4 DEF Sound, FreePorts
  <2>9. Known(e, own) \/ e.by = t
    BY <2>4, <2>6 DEF Sound
  <2>10. e \in own.hidden \/ e.by = t
    BY <2>5, <2>7, <2>8, <2>9 DEF Known
  <2>11. QED BY <2>5, <2>10
<1>2. SparkInv /\ [Next]_vars =>
        [\A t \in Tasks :
           pc[t] = "ready" /\ pc'[t] = "answer" =>
              \E e \in Up : /\ e.port = own.port /\ e.model = req[t].model
                            /\ e.by = t \/ e \in own.hidden]_vars
  BY <1>1
<1>3. QED BY <1>2, SparkInvariant, PTL DEF Spec, SuccessIsOwnLaunch

-----------------------------------------------------------------------------
(* What the servers of a node take together: Used is a fold over the set,  *)
(* and does not depend on the order in which it takes the servers.         *)

\* The server a sum takes next, and f has the sums of the sets in D.
Taken(s) == CHOOSE e \in s : TRUE
Sums(D, f) ==
    f = [s \in D |-> IF s = {} THEN 0 ELSE Use(Taken(s)) + f[s \ {Taken(s)}]]

\* Sums, one set at a time.
LEMMA SumsAre ==
    ASSUME NEW D, NEW f
    PROVE  Sums(D, f) <=>
           /\ f = [s \in D |-> f[s]]
           /\ \A s \in D :
                f[s] = IF s = {} THEN 0 ELSE Use(Taken(s)) + f[s \ {Taken(s)}]
<1> DEFINE e(s) == IF s = {} THEN 0 ELSE Use(Taken(s)) + f[s \ {Taken(s)}]
<1>1. Sums(D, f) <=> f = [s \in D |-> e(s)]
  BY DEF Sums
<1> HIDE DEF e
<1>2. Sums(D, f) <=> f = [s \in D |-> f[s]] /\ \A s \in D : f[s] = e(s)
  BY <1>1
<1>3. QED BY <1>2 DEF e

\* A set without the one that is taken is smaller.
LEMMA TakenAway ==
    ASSUME NEW s, IsFiniteSet(s), s # {}
    PROVE  /\ Taken(s) \in s /\ IsFiniteSet(s \ {Taken(s)})
           /\ Cardinality(s) \in Nat
           /\ Cardinality(s \ {Taken(s)}) = Cardinality(s) - 1
<1>1. Taken(s) \in s
  BY DEF Taken
<1>2. QED BY <1>1, FS_RemoveElement, FS_CardinalityType

\* Every finite set has its sums.
LEMMA SumsExist ==
    ASSUME NEW S, IsFiniteSet(S)
    PROVE  \E f : Sums(SUBSET S, f)
<1> DEFINE D(n) == {s \in SUBSET S : Cardinality(s) <= n}
           N == {n \in Nat : \E f : Sums(D(n), f)}
<1>1. \A s \in SUBSET S : /\ IsFiniteSet(s) /\ Cardinality(s) \in Nat
                          /\ Cardinality(s) = 0 => s = {}
                          /\ Cardinality(s) <= Cardinality(S)
  BY FS_Subset, FS_CardinalityType, FS_EmptySet
<1>2. 0 \in N
  <2> DEFINE f == [s \in D(0) |-> 0]
  <2>1. \A s \in D(0) : s = {} /\ f[s] = 0
    BY <1>1
  <2>2. f = [s \in D(0) |-> f[s]]
    OBVIOUS
  <2> HIDE DEF f, D
  <2>3. Sums(D(0), f)
    BY <2>1, <2>2, SumsAre
  <2>4. QED BY <2>3
<1>3. ASSUME NEW n \in Nat, n \in N
      PROVE  n + 1 \in N
  <2>1. PICK f : Sums(D(n), f)
    BY <1>3
  <2> DEFINE g == [s \in D(n + 1) |->
                     IF s = {} THEN 0 ELSE Use(Taken(s)) + f[s \ {Taken(s)}]]
  <2>2. \A s \in D(n) : s \in D(n + 1)
    BY <1>1
  <2>3. \A s \in D(n + 1) : s # {} => s \ {Taken(s)} \in D(n)
    <3> SUFFICES ASSUME NEW s \in D(n + 1), s # {}
                 PROVE  s \ {Taken(s)} \in D(n)
      OBVIOUS
    <3>1. IsFiniteSet(s) /\ Cardinality(s) <= n + 1 /\ s \in SUBSET S
      BY <1>1
    <3>2. QED BY <3>1, TakenAway
  <2>4. \A s \in D(n + 1) :
           g[s] = IF s = {} THEN 0 ELSE Use(Taken(s)) + f[s \ {Taken(s)}]
    OBVIOUS
  <2>5. g = [s \in D(n + 1) |-> g[s]]
    OBVIOUS
  <2> HIDE DEF D, g
  <2>6. \A s \in D(n) : g[s] = f[s]
    BY <2>1, <2>2, <2>4, SumsAre
  <2>7. \A s \in D(n + 1) :
           g[s] = IF s = {} THEN 0 ELSE Use(Taken(s)) + g[s \ {Taken(s)}]
    BY <2>3, <2>4, <2>6
  <2>8. Sums(D(n + 1), g)
    BY <2>5, <2>7, SumsAre
  <2>9. QED BY <2>8
<1>4. Cardinality(S) \in N
  <2> HIDE DEF N
  <2>1. Nat \subseteq N
    BY <1>2, <1>3, AllNumbers
  <2>2. QED BY <1>1, <2>1
<1>5. D(Cardinality(S)) = SUBSET S
  BY <1>1
<1> HIDE DEF D
<1>6. QED BY <1>4, <1>5

\* The sums a fold over S goes by.
SumsOf(S) == CHOOSE f : Sums(SUBSET S, f)

\* Used takes one server after another.
LEMMA UsedUnfolds ==
    ASSUME NEW S, IsFiniteSet(S)
    PROVE  /\ Used({}) = 0
           /\ S # {} => Used(S) = Use(Taken(S)) + Used(S \ {Taken(S)})
<1>1. \A T : Used(T) = SumsOf(T)[T]
  BY DEF Used, MapThenSumSet, MapThenFoldSet, SumsOf, Sums, Taken
<1>2. \A T : IsFiniteSet(T) => Sums(SUBSET T, SumsOf(T))
  BY SumsExist DEF SumsOf
<1>3. Used({}) = 0
  BY <1>1, <1>2, SumsAre, FS_EmptySet
<1>4. ASSUME S # {}
      PROVE  Used(S) = Use(Taken(S)) + Used(S \ {Taken(S)})
  <2> DEFINE R == S \ {Taken(S)}
             f == SumsOf(S)
             g == SumsOf(R)
             N == {n \in Nat : \A s \in SUBSET R : Cardinality(s) = n => f[s] = g[s]}
  <2>1. IsFiniteSet(R) /\ SUBSET R \subseteq SUBSET S /\ R \in SUBSET S
    BY <1>4, TakenAway
  <2>2. Sums(SUBSET S, f) /\ Sums(SUBSET R, g)
    BY <1>2, <2>1
  <2>3. \A s \in SUBSET R : IsFiniteSet(s) /\ Cardinality(s) \in Nat
    BY <2>1, FS_Subset, FS_CardinalityType
  <2> HIDE DEF R, f, g
  <2>4. \A s \in SUBSET R :
           /\ f[s] = IF s = {} THEN 0 ELSE Use(Taken(s)) + f[s \ {Taken(s)}]
           /\ g[s] = IF s = {} THEN 0 ELSE Use(Taken(s)) + g[s \ {Taken(s)}]
    BY <2>1, <2>2, SumsAre
  <2>5. 0 \in N
    BY <2>3, <2>4, FS_EmptySet
  <2>6. ASSUME NEW n \in Nat, n \in N
        PROVE  n + 1 \in N
    <3> SUFFICES ASSUME NEW s \in SUBSET R, Cardinality(s) = n + 1
                 PROVE  f[s] = g[s]
      OBVIOUS
    <3>1. s # {}
      BY FS_EmptySet
    <3>2. s \ {Taken(s)} \in SUBSET R /\ Cardinality(s \ {Taken(s)}) = n
      BY <2>3, <3>1, TakenAway
    <3>3. f[s \ {Taken(s)}] = g[s \ {Taken(s)}]
      BY <2>6, <3>2
    <3>4. QED BY <2>4, <3>1, <3>3
  <2>7. Nat \subseteq N
    <3> HIDE DEF N
    <3>1. QED BY <2>5, <2>6, AllNumbers
  <2>8. f[R] = g[R]
    BY <2>3, <2>7
  <2>9. f[S] = Use(Taken(S)) + f[R]
    BY <1>4, <2>2, SumsAre DEF R
  <2>10. Used(S) = f[S] /\ Used(R) = g[R]
    BY <1>1 DEF f, g
  <2>11. QED BY <2>8, <2>9, <2>10 DEF R
<1>5. QED BY <1>3, <1>4

\* It does not matter which one is taken first.
LEMMA UsedOfMember ==
    ASSUME NEW S, IsFiniteSet(S), S \subseteq Engine
    PROVE  /\ Used(S) \in Nat
           /\ \A e \in S : Use(e) \in Nat /\ Used(S) = Use(e) + Used(S \ {e})
<1> DEFINE Good(s) == /\ Used(s) \in Nat
                      /\ \A e \in s : Used(s) = Use(e) + Used(s \ {e})
           N == {n \in Nat : \A s \in SUBSET S : Cardinality(s) <= n => Good(s)}
<1>1. \A s \in SUBSET S : IsFiniteSet(s) /\ Cardinality(s) \in Nat
  BY FS_Subset, FS_CardinalityType
<1>2. \A e \in S : Use(e) \in Nat
  BY NodeAssumption DEF Use, Engine
<1>3. 0 \in N
  BY <1>1, FS_EmptySet, UsedUnfolds
<1>4. ASSUME NEW n \in Nat, n \in N
      PROVE  n + 1 \in N
  <2> SUFFICES ASSUME NEW s \in SUBSET S, Cardinality(s) <= n + 1
               PROVE  Good(s)
    OBVIOUS
  <2>0. Good({})
    <3>1. Used({}) = 0
      BY UsedUnfolds, FS_EmptySet
    <3>2. QED BY <3>1
  <2> SUFFICES ASSUME s # {} PROVE Good(s)
    BY <2>0
  <2> DEFINE x == Taken(s)
  <2>1. IsFiniteSet(s)
    BY <1>1
  <2>2. /\ x \in s /\ s \ {x} \in SUBSET S /\ Cardinality(s \ {x}) <= n
    BY <1>1, <2>1, TakenAway
  <2>3. Used(s) = Use(x) + Used(s \ {x})
    BY <2>1, UsedUnfolds
  <2>4. Good(s \ {x})
    BY <1>4, <2>2
  <2> HIDE DEF x
  <2>5. Used(s) \in Nat
    BY <1>2, <2>2, <2>3, <2>4
  <2>6. ASSUME NEW e \in s, e # x
        PROVE  Used(s) = Use(e) + Used(s \ {e})
    <3> DEFINE r == (s \ {x}) \ {e}
    <3>1. Used(s \ {x}) = Use(e) + Used(r)
      BY <2>4, <2>6
    <3>2. s \ {e} \in SUBSET S /\ Cardinality(s \ {e}) <= n
      BY <1>1, <2>1, <2>6, FS_RemoveElement
    <3>3. Good(s \ {e}) /\ x \in s \ {e}
      BY <1>4, <2>2, <2>6, <3>2
    <3>4. (s \ {e}) \ {x} = r
      OBVIOUS
    <3>5. Used(s \ {e}) = Use(x) + Used(r)
      BY <3>3, <3>4
    <3>6. r \in SUBSET S /\ r \subseteq s \ {x} /\ Cardinality(r) <= n
      <4>1. r \in SUBSET S /\ r \subseteq s \ {x} /\ IsFiniteSet(s \ {x})
        BY <1>1, <2>2
      <4>2. Cardinality(r) <= Cardinality(s \ {x})
        BY <4>1, FS_Subset
      <4>3. QED BY <1>1, <2>2, <4>1, <4>2
    <3>7. Used(r) \in Nat
      BY <1>4, <3>6
    <3>8. QED BY <1>2, <2>2, <2>3, <3>1, <3>5, <3>7
  <2>7. QED BY <2>3, <2>5, <2>6
<1>5. Nat \subseteq N
  <2> HIDE DEF N
  <2>1. QED BY <1>3, <1>4, AllNumbers
<1>6. Good(S)
  BY <1>1, <1>5
<1>7. QED BY <1>2, <1>6

\* A server more takes no more than its own, one less leaves no more than there was.
LEMMA UsedChanges ==
    ASSUME NEW E, IsFiniteSet(E), E \subseteq Engine
    PROVE  /\ Used(E) \in Nat
           /\ \A x \in Engine : /\ IsFiniteSet(E \union {x}) /\ Use(x) \in Nat
                                /\ Used(E \union {x}) \in Nat
                                /\ Used(E \union {x}) <= Used(E) + Use(x)
           /\ \A x \in E : /\ IsFiniteSet(E \ {x})
                           /\ Used(E \ {x}) \in Nat
                           /\ Used(E) = Use(x) + Used(E \ {x})
<1>1. ASSUME NEW x \in Engine
      PROVE  /\ IsFiniteSet(E \union {x}) /\ Use(x) \in Nat
             /\ Used(E \union {x}) \in Nat
             /\ Used(E \union {x}) <= Used(E) + Use(x)
  <2> DEFINE F == E \union {x}
  <2>1. IsFiniteSet(F) /\ F \subseteq Engine /\ x \in F
    BY FS_AddElement
  <2>2. F = E \/ F \ {x} = E
    OBVIOUS
  <2> HIDE DEF F
  <2>3. Used(F) \in Nat /\ Use(x) \in Nat /\ Used(F) = Use(x) + Used(F \ {x})
    BY <2>1, UsedOfMember
  <2>4. Used(E) \in Nat
    BY UsedOfMember
  <2>5. Used(F) <= Used(E) + Use(x)
    BY <2>2, <2>3, <2>4
  <2>6. QED BY <2>1, <2>3, <2>5 DEF F
<1>2. ASSUME NEW x \in E
      PROVE  /\ IsFiniteSet(E \ {x}) /\ Used(E \ {x}) \in Nat
             /\ Used(E) = Use(x) + Used(E \ {x})
  BY UsedOfMember, FS_RemoveElement
<1>3. QED BY <1>1, <1>2, UsedOfMember

\* Some of the servers take no more than all of them.
LEMMA UsedOfSome ==
    ASSUME NEW S, IsFiniteSet(S), S \subseteq Engine, NEW d \in SUBSET S
    PROVE  Used(d) <= Used(S)
<1> DEFINE Less(s) == \A e \in SUBSET s : Used(e) <= Used(s)
           N == {n \in Nat : \A s \in SUBSET S : Cardinality(s) <= n => Less(s)}
<1>1. \A s \in SUBSET S : IsFiniteSet(s) /\ Cardinality(s) \in Nat /\ Used(s) \in Nat
  <2>1. \A s \in SUBSET S : IsFiniteSet(s) /\ s \subseteq Engine
    BY FS_Subset
  <2>2. QED BY <2>1, FS_CardinalityType, UsedOfMember
<1>2. 0 \in N
  <2>1. \A s \in SUBSET S : Cardinality(s) <= 0 => s = {}
    BY <1>1, FS_EmptySet
  <2>2. \A s \in SUBSET S : s = {} => Less(s)
    <3>1. Used({}) <= Used({})
      BY <1>1
    <3>2. QED BY <3>1
  <2>3. QED BY <2>1, <2>2
<1>3. ASSUME NEW n \in Nat, n \in N
      PROVE  n + 1 \in N
  <2> SUFFICES ASSUME NEW s \in SUBSET S, Cardinality(s) <= n + 1, NEW e \in SUBSET s
               PROVE  Used(e) <= Used(s)
    OBVIOUS
  <2>1. Used(e) \in Nat /\ Used(s) \in Nat /\ IsFiniteSet(s) /\ s \subseteq Engine
    BY <1>1
  <2>2. CASE e = s
    BY <2>1, <2>2
  <2>3. CASE e # s
    <3>1. PICK x \in s : x \notin e
      BY <2>3
    <3>2. /\ e \in SUBSET (s \ {x}) /\ s \ {x} \in SUBSET S
          /\ Cardinality(s \ {x}) = Cardinality(s) - 1
      BY <2>1, <3>1, FS_RemoveElement
    <3>3. Cardinality(s \ {x}) <= n
      BY <1>1, <3>2
    <3>4. Used(e) <= Used(s \ {x})
      BY <1>3, <3>2, <3>3
    <3>5. Use(x) \in Nat /\ Used(s) = Use(x) + Used(s \ {x}) /\ Used(s \ {x}) \in Nat
      BY <1>1, <2>1, <3>2, UsedOfMember
    <3>6. QED BY <2>1, <3>4, <3>5
  <2>4. QED BY <2>2, <2>3
<1>4. Nat \subseteq N
  <2> HIDE DEF N
  <2>1. QED BY <1>2, <1>3, AllNumbers
<1>5. Less(S)
  BY <1>1, <1>4
<1>6. QED BY <1>5

\* Those of E that are none of G, whether they are up or still starting.
Outside(E, G) == {e \in E : [e EXCEPT !.up = TRUE] \notin G}

\* What happens to servers by themselves gives nothing more to what is used outside of G.
LEMMA ServersFree ==
    ASSUME IsFiniteSet(engines), engines \subseteq Engine, ServerStep, NEW G
    PROVE  /\ IsFiniteSet(engines')
           /\ Used(Outside(engines', G)) \in Nat
           /\ Used(Outside(engines', G)) <= Used(Outside(engines, G))
<1>1. PICK e \in engines : ComesUp(e) \/ Dies(e)
  BY DEF ServerStep
<1> DEFINE O == Outside(engines, G)
           R == O \ {e}
           g == [e EXCEPT !.up = TRUE]
<1>2. /\ O \in SUBSET engines /\ IsFiniteSet(O) /\ O \subseteq Engine
      /\ IsFiniteSet(engines \ {e}) /\ IsFiniteSet((engines \ {e}) \union {g})
  BY FS_Subset, FS_RemoveElement, FS_AddElement DEF Outside
<1>3. g \in Engine /\ Use(g) = Use(e) /\ [g EXCEPT !.up = TRUE] = g
  BY DEF Engine, Use
<1>4. engines' = (engines \ {e}) \union {g} \/ engines' = engines \ {e}
  BY <1>1 DEF ComesUp, Dies
<1>5. IsFiniteSet(engines')
  BY <1>2, <1>4
<1>6. Used(O) \in Nat
  BY <1>2, UsedChanges
<1>7. CASE e \notin O
  <2>1. g \in G
    BY <1>7 DEF Outside
  <2>2. Outside(engines', G) = O
    BY <1>3, <1>4, <1>7, <2>1 DEF Outside
  <2>3. QED BY <1>5, <1>6, <2>2
<1>8. CASE e \in O
  <2>1. g \notin G
    BY <1>8 DEF Outside
  <2>2. Outside(engines', G) = R \union {g} \/ Outside(engines', G) = R
    BY <1>3, <1>4, <2>1 DEF Outside
  <2>3. /\ IsFiniteSet(R) /\ R \subseteq Engine /\ Used(R) \in Nat /\ Use(e) \in Nat
        /\ Used(O) = Use(e) + Used(R)
    BY <1>2, <1>8, UsedChanges
  <2> HIDE DEF R, g, O
  <2>4. Used(R \union {g}) \in Nat /\ Used(R \union {g}) <= Used(R) + Use(g)
    BY <1>3, <2>3, UsedChanges
  <2>5. /\ Used(R \union {g}) <= Used(O)
        /\ Used(R) <= Used(O)
    BY <1>3, <1>6, <2>3, <2>4
  <2>6. QED BY <1>5, <2>2, <2>3, <2>4, <2>5 DEF O
<1>9. QED BY <1>7, <1>8

-----------------------------------------------------------------------------
(* Admission.                                                              *)

\* A load that measures has a budget.  One that launches saw no neighbour, or was not told
\* what is free, or has room for its budget beside all that it could count.
HasRoom(m) ==
    own.view # NoView /\ ~own.blind =>
        Used(Outside(engines, own.growing)) + Mem[m] <= Total + Slack
RoomInv ==
    /\ IsFiniteSet(engines)
    /\ \A t \in Tasks :
          /\ pc[t] = "measure" => Mem[req[t].model] > 0
          /\ pc[t] = "launch"  => /\ own.view = NoView \/ Mem[req[t].model] > 0
                                  /\ HasRoom(req[t].model)

\* No two servers start on one port of a node, and the ports are finite.
LEMMA RoomAtFirst == Init => RoomInv
<1> SUFFICES ASSUME Init PROVE RoomInv
  OBVIOUS
<1> DEFINE P == [e \in engines |-> e.port]
<1>1. /\ \A e \in engines : e.port \in Ports
      /\ \A e, f \in engines : e # f => e.port # f.port
  BY DEF Init
<1>2. P \in Injection(engines, Ports)
  BY <1>1 DEF Injection, IsInjective
<1>3. IsFiniteSet(Ports)
  <2>1. PICK n \in Ports : n \in Nat \ {0} /\ Ports = 1..n
    BY NodeAssumption
  <2>2. 1 \in Int /\ n \in Int
    BY <2>1
  <2>3. QED BY <2>1, <2>2, FS_Interval
<1>4. IsFiniteSet(engines)
  BY <1>2, <1>3, FS_Injection
<1>5. \A t \in Tasks : pc[t] = "new"
  BY DEF Init
<1>6. QED BY <1>4, <1>5 DEF RoomInv

\* Where the code between two awaits leaves a load without having measured.
Unmeasured(t) ==
    /\ pc'[t] = "measure" => Mem[req'[t].model] > 0
    /\ pc'[t] = "launch" => own'.view = NoView

\* A load that has not measured launches where it saw nobody.
LEMMA AdmitUnmeasured ==
    ASSUME pc \in [Tasks -> Where], NEW t \in Tasks, NEW o, "view" \in DOMAIN o, NEW c,
           Admit(t, o, c) \/ Place(t, o, c)
    PROVE  Unmeasured(t)
<1>1. \A how : Finish(t, how, c) => pc'[t] = how
  BY DEF Finish, Over, Goto
<1>2. \A w, n : GoOn(t, w, n, c) => pc'[t] = w /\ own' = n /\ req' = req
  BY DEF GoOn, Goto
<1>3. ASSUME NEW p, GoOn(t, "launch", [o EXCEPT !.port = p], c)
      PROVE  own'.view = o.view
  <2>1. own' = [o EXCEPT !.port = p]
    BY <1>3 DEF GoOn
  <2>2. QED BY <2>1
<1>4. ASSUME PickSlot(t, o, c), o.view = NoView PROVE Unmeasured(t)
  BY <1>1, <1>2, <1>3, <1>4 DEF PickSlot, Unmeasured
<1>5. ASSUME Admit(t, o, c) PROVE Unmeasured(t)
  BY <1>1, <1>2, <1>4, <1>5 DEF Admit, Unmeasured, Fits
<1>6. ASSUME Place(t, o, c) PROVE Unmeasured(t)
  BY <1>1, <1>2, <1>5, <1>6 DEF Place, Unmeasured
<1>7. QED BY <1>5, <1>6

\* The same of a load that has still to look at its victims.
LEMMA ProceedUnmeasured ==
    ASSUME pc \in [Tasks -> Where], NEW t \in Tasks, NEW o, "view" \in DOMAIN o, NEW c,
           Proceed(t, o, c)
    PROVE  Unmeasured(t)
<1> DEFINE n == [o EXCEPT !.todo = {}, !.victim = None, !.since = 0]
<1>0. \/ Place(t, n, c) \/ Finish(t, "failed", c)
      \/ \E m : GoOn(t, "stop", m, c)
  BY DEF Proceed
<1>1. "view" \in DOMAIN n
  OBVIOUS
<1> HIDE DEF n
<1>2. Place(t, n, c) => Unmeasured(t)
  BY <1>1, AdmitUnmeasured
<1>3. Finish(t, "failed", c) => pc'[t] = "failed"
  BY DEF Finish, Over, Goto
<1>4. \A m : GoOn(t, "stop", m, c) => pc'[t] = "stop"
  BY DEF GoOn, Goto
<1>5. QED BY <1>0, <1>2, <1>3, <1>4 DEF Unmeasured

\* The locals of a swap are locals, and so are those of none.
LEMMA OwnIsLocals ==
    ASSUME SparkInv
    PROVE  own \in Locals /\ pc \in [Tasks -> Where]
<1>1. lock.owner \in Tasks \union {NoTask} /\ pc \in [Tasks -> Where]
  BY LockFields DEF SparkInv, PlacesOK, InOrder
<1>2. QED BY <1>1, NoSwapIsLocals DEF SparkInv, SwapOK, Sound

\* Before its launch a load starts nothing.
LEMMA BeforeLaunch ==
    ASSUME SparkInv, RoomInv, NEW t \in Tasks,
           LoadRefused(t) \/ LoadProbe(t) \/ StopVictim(t) \/ Answer(t) \/ Reload(t)
              \/ Recheck(t) \/ Clear(t)
    PROVE  engines' \subseteq engines /\ Unmeasured(t)
<1>1. pc \in [Tasks -> Where]
  BY DEF SparkInv, PlacesOK
<1>2. "view" \in DOMAIN own
  BY OwnIsLocals DEF Locals
<1>3. \A how : Finish(t, how, clk) => pc'[t] = how
  BY <1>1 DEF Finish, Over, Goto
<1>4. \A w, n : GoOn(t, w, n, clk) => pc'[t] = w
  BY <1>1 DEF GoOn, Goto
<1>5. CASE LoadRefused(t) \/ Answer(t)
  BY <1>3, <1>5 DEF LoadRefused, Answer, Unmeasured
<1>6. CASE LoadProbe(t)
  <2>1. PICK vw \in Views :
          Proceed(t, [own EXCEPT !.view = vw, !.todo = req[t].evict,
                                 !.hidden = Ids(engines \ (Seen(vw) \intersect Up))], clk)
    BY <1>6 DEF LoadProbe
  <2> DEFINE o == [own EXCEPT !.view = vw, !.todo = req[t].evict,
                              !.hidden = Ids(engines \ (Seen(vw) \intersect Up))]
  <2>2. "view" \in DOMAIN o
    BY <1>2
  <2> HIDE DEF o
  <2>3. Proceed(t, o, clk)
    BY <2>1 DEF o
  <2>4. Unmeasured(t)
    BY <1>1, <2>2, <2>3, ProceedUnmeasured
  <2>5. QED BY <1>6, <2>4 DEF LoadProbe
<1>7. CASE StopVictim(t)
  <2> DEFINE v == own.victim
             o == [own EXCEPT !.view = Vacated(@, v), !.todo = @ \ {v},
                              !.hidden = @ \union Ids({e \in engines' : e.model = v})]
             c == Keeping(clk, Models \ {v})
  <2>1. Proceed(t, o, c) /\ Stops(v)
    BY <1>7 DEF StopVictim
  <2>2. "view" \in DOMAIN o
    BY <1>2
  <2> HIDE DEF o, c, v
  <2>3. QED BY <1>1, <2>1, <2>2, ProceedUnmeasured, StopsLeave
<1>8. CASE Reload(t)
  BY <1>4, <1>8, StopsLeave DEF Reload, Unmeasured
<1>9. CASE Recheck(t)
  <2> DEFINE p == Slot(own.view, req[t].model)
             n(a) == [own EXCEPT !.view = Vacated(@, req[t].model),
                                 !.hidden = @ \union Ids({e \in Up : e.port = p
                                                                    /\ a = None})]
  <2>1. \A a : "view" \in DOMAIN n(a)
    BY <1>2
  <2>2. /\ engines' = engines
        /\ \E a \in Answers(p) : Admit(t, n(a), clk) \/ Finish(t, "failed", clk)
    BY <1>9 DEF Recheck
  <2> HIDE DEF n
  <2>3. PICK a : Admit(t, n(a), clk) \/ Finish(t, "failed", clk)
    BY <2>2
  <2>4. Admit(t, n(a), clk) => Unmeasured(t)
    BY <1>1, <2>1, AdmitUnmeasured
  <2>5. QED BY <1>3, <2>2, <2>3, <2>4 DEF Unmeasured
<1>10. CASE Clear(t)
  <2> DEFINE o == [own EXCEPT !.view = NoView, !.hidden = @ \union Ids(engines')]
  <2>1. Admit(t, o, clk) /\ engines' \subseteq engines
    BY <1>10 DEF Clear, StopsAll
  <2>2. "view" \in DOMAIN o
    BY <1>2
  <2> HIDE DEF o
  <2>3. QED BY <1>1, <2>1, <2>2, AdmitUnmeasured
<1>11. QED BY <1>5, <1>6, <1>7, <1>8, <1>9, <1>10

\* What has been measured is enough, unless the node did not tell.
LEMMA MeasureFindsRoom ==
    ASSUME SparkInv, RoomInv, NEW t \in Tasks, Measure(t), pc'[t] = "launch"
    PROVE  /\ engines' = engines /\ Mem[req'[t].model] > 0
           /\ HasRoom(req[t].model)' /\ req'[t] = req[t]
<1>1. /\ pc \in [Tasks -> Where] /\ Work(t, "measure") /\ own \in Locals
      /\ engines \subseteq Engine /\ IsFiniteSet(engines)
  BY OwnIsLocals DEF Measure, SparkInv, RoomInv
<1>2. ~Finish(t, "failed", clk)
  BY <1>1 DEF Finish, Over, Goto
<1>3. \A o : PickSlot(t, o, clk) =>
         req' = req /\ own' = [o EXCEPT !.port = Min(FreePorts(o))]
  BY <1>2 DEF PickSlot, GoOn
<1>4. engines' = engines /\ Mem[req[t].model] > 0
  BY <1>1 DEF Measure, RoomInv, Work
<1>5. ASSUME NEW part \in 0..Total, Enough(req[t].model, Used(Up) + part),
             PickSlot(t, [own EXCEPT !.growing = Ids(engines \ Up)], clk)
      PROVE  HasRoom(req[t].model)'
  <2> DEFINE o == [own EXCEPT !.growing = Ids(engines \ Up)]
             O == Outside(engines, Ids(engines \ Up))
  <2>1. o.growing = Ids(engines \ Up) /\ "growing" \in DOMAIN o
    BY <1>1 DEF Locals
  <2>2. PickSlot(t, o, clk)
    BY <1>5
  <2> HIDE DEF o
  <2>3. req' = req /\ own' = [o EXCEPT !.port = Min(FreePorts(o))]
    BY <1>3, <2>2
  <2>4. own'.growing = Ids(engines \ Up)
    BY <2>1, <2>3
  <2>5. Up \in SUBSET engines /\ IsFiniteSet(Up) /\ Up \subseteq Engine
    BY <1>1, FS_Subset DEF Up
  <2>6. O \in SUBSET Up
    BY DEF Outside, Ids
  <2>7. Used(O) <= Used(Up)
    BY <2>5, <2>6, UsedOfSome
  <2>8. IsFiniteSet(O) /\ O \subseteq Engine
    BY <2>5, <2>6, FS_Subset
  <2>9. Used(Up) \in Nat /\ Used(O) \in Nat
    BY <2>5, <2>8, UsedChanges
  <2>10. Mem[req[t].model] \in Nat /\ Total \in Nat /\ Slack \in Nat
    BY <1>1, AtWork, NodeAssumption DEF LoadPlaces
  <2> HIDE DEF O
  <2>11. Used(O) + Mem[req[t].model] <= Total + Slack
    BY <1>5, <2>7, <2>9, <2>10 DEF Enough
  <2>12. QED BY <1>4, <2>3, <2>4, <2>11 DEF HasRoom, O
<1>6. ASSUME PickSlot(t, [own EXCEPT !.blind = TRUE], clk)
      PROVE  HasRoom(req[t].model)'
  <2> DEFINE o == [own EXCEPT !.blind = TRUE]
  <2>1. o.blind = TRUE /\ "blind" \in DOMAIN o
    BY <1>1 DEF Locals
  <2>2. PickSlot(t, o, clk)
    BY <1>6
  <2> HIDE DEF o
  <2>3. req' = req /\ own' = [o EXCEPT !.port = Min(FreePorts(o))]
    BY <1>3, <2>2
  <2>4. own'.blind = TRUE
    BY <2>1, <2>3
  <2>5. QED BY <2>4 DEF HasRoom
<1>7. \/ \E part \in 0..Total :
            /\ Enough(req[t].model, Used(Up) + part)
            /\ PickSlot(t, [own EXCEPT !.growing = Ids(engines \ Up)], clk)
      \/ PickSlot(t, [own EXCEPT !.blind = TRUE], clk)
  BY <1>2 DEF Measure
<1>8. req' = req
  BY <1>3, <1>7
<1>9. QED BY <1>4, <1>5, <1>6, <1>7, <1>8

\* What a load could not count at its launch, NoView or not.
LEMMA CountedIsOutside ==
    ASSUME own.view # NoView, NEW E
    PROVE  Counted(E, own) = Outside(E, own.growing)
BY DEF Counted, Uncounted, Outside

\* A load that saw nobody knows of nobody.
LEMMA NobodyIsCounted ==
    ASSUME SparkInv, NEW t \in Tasks, pc[t] = "launch", own.view = NoView
    PROVE  Counted(engines, own) = {}
<1>1. Work(t, "launch")
  BY DEF SparkInv, PlacesOK, Swapping, Work
<1>2. \A e \in engines : Known(e, own)
  BY <1>1, AtWork DEF LoadPlaces, Sound
<1>3. DOMAIN own.view = {}
  BY DEF NoView
<1>4. QED BY <1>2, <1>3 DEF Known, Counted, Uncounted

\* With the server of the request or without, the node has room.
LEMMA LaunchFits ==
    ASSUME SparkInv, RoomInv, NEW t \in Tasks, pc[t] = "launch",
           NEW E \in {engines, engines \union {New(t)}}
    PROVE  /\ IsFiniteSet(E)
           /\ ~own.blind => Used(Counted(E, own)) <= Total + Slack
<1> DEFINE m == req[t].model
           O == Counted(engines, own)
<1>1. /\ lock.owner = t /\ own.port \in Ports /\ m \in Models
      /\ engines \subseteq Engine /\ IsFiniteSet(engines)
  <2>1. Work(t, "launch")
    BY DEF SparkInv, PlacesOK, Swapping, Work
  <2>2. /\ lock.owner = t /\ m \in Models /\ engines \subseteq Engine
        /\ Sound(t, engines, board, "launch", req[t], own)
    BY <2>1, AtWork DEF LoadPlaces
  <2>3. QED BY <2>2 DEF Sound, FreePorts, RoomInv
<1>2. New(t) \in Engine
  BY <1>1 DEF New, Engine
<1>3. /\ O \in SUBSET engines /\ IsFiniteSet(O) /\ O \subseteq Engine
      /\ IsFiniteSet(engines \union {New(t)})
  BY <1>1, FS_Subset, FS_AddElement DEF Counted
<1>4. IsFiniteSet(E)
  BY <1>1, <1>3
<1>5. Counted(E, own) \in {O, O \union {New(t)}}
  BY DEF Counted
<1> HIDE DEF O
<1>6. /\ Used(O) \in Nat /\ Use(New(t)) \in Nat /\ Used(O \union {New(t)}) \in Nat
      /\ Used(O \union {New(t)}) <= Used(O) + Use(New(t))
  BY <1>2, <1>3, UsedChanges
<1>7. Mem[m] \in 0..Total /\ Default \in 0..Total /\ Total \in Nat /\ Slack \in Nat
  BY <1>1, NodeAssumption
<1>8. New(t).by = t /\ New(t).model = m /\ t # None
  BY NodeAssumption DEF New
<1>9. Use(New(t)) <= Total
  BY <1>7, <1>8 DEF Use
<1>10. ASSUME ~own.blind
       PROVE  Used(O) + Use(New(t)) <= Total + Slack
  <2>1. CASE own.view = NoView
    <3>1. Used(O) = 0
      BY <2>1, NobodyIsCounted, UsedUnfolds, FS_EmptySet DEF O
    <3>2. QED BY <1>6, <1>7, <1>9, <3>1
  <2>2. CASE own.view # NoView
    <3>1. Mem[m] > 0 /\ Used(O) + Mem[m] <= Total + Slack
      BY <1>10, <2>2, CountedIsOutside DEF RoomInv, HasRoom, O
    <3>2. Use(New(t)) = Mem[m]
      BY <1>7, <1>8, <3>1 DEF Use
    <3>3. QED BY <3>1, <3>2
  <2>3. QED BY <2>1, <2>2
<1>11. ASSUME ~own.blind
       PROVE  Used(Counted(E, own)) <= Total + Slack
  <2>1. /\ Used(O) <= Total + Slack
        /\ Used(O \union {New(t)}) <= Total + Slack
    BY <1>6, <1>7, <1>10, <1>11
  <2>2. QED BY <1>5, <2>1
<1>12. QED BY <1>4, <1>11

\* The owner of the lock is the only one who works.
LEMMA OthersRest ==
    ASSUME SparkInv, NEW x \in Tasks, LoadStep(x) \/ Free(x)
    PROVE  /\ \A t \in Tasks \ {x} : pc'[t] \notin {"measure", "launch"}
           /\ \A t \in Tasks \ {x} : pc[t] \notin {"measure", "launch"}
<1>1. lock.owner = x /\ pc \in [Tasks -> Where]
  <2>1. lock.owner = x
    BY DEF LoadStep, LoadRefused, LoadProbe, StopVictim, Answer, Reload, Recheck, Clear,
           Measure, Launch, LaunchFails, Ready, NeverReady, Free, Work
  <2>2. QED BY <2>1, OwnIsLocals
<1>2. \A t \in Tasks \ {x} : pc[t] \notin {"measure", "launch"}
  BY <1>1 DEF SparkInv, PlacesOK, Swapping
<1>3. \E w : pc' = [pc EXCEPT ![x] = w]
  <2>1. \A o, c, how : Finish(x, how, c) => \E w : pc' = [pc EXCEPT ![x] = w]
    BY DEF Finish, Over, Goto
  <2>2. \A o, c, w : GoOn(x, w, o, c) => pc' = [pc EXCEPT ![x] = w]
    BY DEF GoOn, Goto
  <2>3. \A o, c : PickSlot(x, o, c) => \E w : pc' = [pc EXCEPT ![x] = w]
    BY <2>1, <2>2 DEF PickSlot
  <2>4. \A o, c : Admit(x, o, c) => \E w : pc' = [pc EXCEPT ![x] = w]
    BY <2>1, <2>2, <2>3 DEF Admit
  <2>5. \A o, c : Place(x, o, c) => \E w : pc' = [pc EXCEPT ![x] = w]
    BY <2>2, <2>4 DEF Place
  <2>6. \A o, c : Proceed(x, o, c) => \E w : pc' = [pc EXCEPT ![x] = w]
    BY <2>1, <2>2, <2>5 DEF Proceed
  <2>7. QED
    BY <2>1, <2>2, <2>3, <2>4, <2>6
    DEF LoadStep, LoadRefused, LoadProbe, StopVictim, Answer, Reload, Recheck, Clear,
        Measure, Launch, LaunchFails, Ready, NeverReady, Free, Over, Goto
<1>4. QED BY <1>1, <1>2, <1>3

\* RoomInv speaks of the task that has the lock only, and of what it read last.
LEMMA RoomKept ==
    ASSUME SparkInv, RoomInv, [Next]_vars
    PROVE  RoomInv'
<1>1. /\ pc \in [Tasks -> Where] /\ req \in [Tasks -> Requests \union {None}]
      /\ IsFiniteSet(engines) /\ engines \subseteq Engine
      /\ \A t \in Tasks : pc[t] \in {"measure", "launch"} => lock.owner = t
  BY OwnIsLocals DEF SparkInv, RoomInv, PlacesOK, CarriesOK, Swapping
<1>2. ASSUME UNCHANGED <<engines, own>>,
             \A t \in Tasks : pc'[t] \in {"measure", "launch"} =>
                                 pc'[t] = pc[t] /\ req'[t] = req[t]
      PROVE  RoomInv'
  BY <1>2 DEF RoomInv, HasRoom
<1>3. CASE UNCHANGED vars \/ Status \/ Activity \/ ClaimStep
  BY <1>2, <1>3 DEF vars, Status, Activity, ClaimStep
<1>4. CASE ServerStep
  <2> DEFINE O == Outside(engines, own.growing)
             Q == Outside(engines', own.growing)
  <2>1. /\ IsFiniteSet(engines') /\ Used(Q) \in Nat
        /\ Used(Q) <= Used(O) /\ UNCHANGED <<pc, req, own>>
    BY <1>1, <1>4, ServersFree DEF ServerStep
  <2>2. Used(O) \in Nat
    <3>1. O \in SUBSET engines
      BY DEF Outside
    <3>2. IsFiniteSet(O) /\ O \subseteq Engine
      BY <1>1, <3>1, FS_Subset
    <3>3. QED BY <3>2, UsedChanges
  <2>3. ASSUME NEW t \in Tasks, pc[t] = "launch"
        PROVE  HasRoom(req[t].model)'
    <3>1. Mem[req[t].model] \in Nat /\ Total \in Nat /\ Slack \in Nat
      <4>1. Work(t, "launch")
        BY <1>1, <2>3 DEF Work
      <4>2. QED BY <4>1, AtWork, NodeAssumption DEF LoadPlaces
    <3>2. HasRoom(req[t].model)
      BY <2>3 DEF RoomInv
    <3>3. QED BY <2>1, <2>2, <3>1, <3>2 DEF HasRoom
  <2>4. QED BY <2>1, <2>3 DEF RoomInv
<1>5. ASSUME NEW x \in Tasks, Enter(x) \/ Wake(x) \/ TimeOut(x)
      PROVE  RoomInv'
  <2>1. /\ UNCHANGED <<engines, own>>
        /\ \A t \in Tasks \ {x} : pc'[t] = pc[t] /\ req'[t] = req[t]
    BY <1>1, <1>5 DEF Enter, Wake, TimeOut, Over, Goto
  <2>2. pc'[x] \in {"probe", "free", "queued", "failed"}
    BY <1>1, <1>5 DEF Enter, Wake, TimeOut, Over, Goto, FirstStep
  <2>3. QED BY <1>2, <2>1, <2>2
<1>6. ASSUME NEW x \in Tasks, LoadStep(x) \/ Free(x)
      PROVE  RoomInv'
  <2>1. SUFFICES /\ IsFiniteSet(engines')
                 /\ pc'[x] = "measure" => Mem[req'[x].model] > 0
                 /\ pc'[x] = "launch"  => /\ own'.view = NoView \/ Mem[req'[x].model] > 0
                                          /\ HasRoom(req[x].model)'
    BY <1>6, OthersRest DEF RoomInv
  <2>2. CASE LoadRefused(x) \/ LoadProbe(x) \/ StopVictim(x) \/ Answer(x) \/ Reload(x)
                \/ Recheck(x) \/ Clear(x)
    <3>1. engines' \subseteq engines /\ Unmeasured(x)
      BY <2>2, BeforeLaunch
    <3>2. IsFiniteSet(engines')
      BY <1>1, <3>1, FS_Subset
    <3>3. QED BY <3>1, <3>2 DEF Unmeasured, HasRoom
  <2>3. CASE Measure(x)
    <3>1. engines' = engines
      BY <2>3 DEF Measure
    <3>2. pc'[x] # "measure"
      BY <1>1, <2>3 DEF Measure, PickSlot, Finish, GoOn, Over, Goto
    <3>3. QED BY <1>1, <2>3, <3>1, <3>2, MeasureFindsRoom
  <2>4. CASE Launch(x) \/ LaunchFails(x)
    <3>1. pc[x] = "launch" /\ engines' \in {engines, engines \union {New(x)}}
      BY <2>4 DEF Launch, LaunchFails, Work
    <3>2. IsFiniteSet(engines')
      BY <3>1, LaunchFits
    <3>3. pc'[x] \in {"ready", "failed"}
      BY <1>1, <2>4 DEF Launch, LaunchFails, Finish, GoOn, Over, Goto
    <3>4. QED BY <3>2, <3>3
  <2>5. CASE Ready(x) \/ NeverReady(x)
    BY <1>1, <2>5 DEF Ready, NeverReady, Finish, GoOn, Over, Goto
  <2>6. CASE Free(x)
    <3>1. engines' \subseteq engines
      BY <2>6, StopsLeave DEF Free, StopsAll
    <3>2. IsFiniteSet(engines')
      BY <1>1, <3>1, FS_Subset
    <3>3. pc'[x] = "done"
      BY <1>1, <2>6 DEF Free, Over, Goto
    <3>4. QED BY <3>2, <3>3
  <2>7. QED BY <1>6, <2>2, <2>3, <2>4, <2>5, <2>6 DEF LoadStep
<1>7. QED BY <1>3, <1>4, <1>5, <1>6 DEF Next

\* Admission holds of every behaviour of a node.
LEMMA RoomInvariant == Spec => []RoomInv
<1>1. SparkInv /\ RoomInv /\ [Next]_vars => RoomInv'
  BY RoomKept
<1>2. QED BY <1>1, RoomAtFirst, SparkInvariant, PTL DEF Spec

\* A launch keeps the node within its memory and the slack, as far as the load could count:
\* without the servers that were starting when it measured or, on a node that looked empty,
\* those it could not know of.  A load that the node did not tell its memory is exempt.
THEOREM OvercommitsBlindly == Spec => OvercommitIsBlind
<1> DEFINE Fine == Used(Counted(engines', own)) <= Total + Slack
           A == \A t \in Tasks :
                  pc[t] = "launch" /\ New(t) \in engines' /\ ~own.blind => Fine
<1>1. SparkInv /\ RoomInv /\ [Next]_vars => A
  <2> SUFFICES ASSUME SparkInv, RoomInv, [Next]_vars, NEW t \in Tasks, pc[t] = "launch",
                      ~own.blind
               PROVE  Fine
    OBVIOUS
  <2>1. ASSUME engines' \in {engines, engines \union {New(t)}}
        PROVE  Fine
    BY <2>1, LaunchFits
  <2>2. CASE engines' = engines
    BY <2>1, <2>2
  <2>3. CASE ServerStep
    <3>1. IsFiniteSet(engines) /\ engines \subseteq Engine
      BY DEF SparkInv, RoomInv
    <3>2. Used(Counted(engines, own)) <= Total + Slack
      BY LaunchFits
    <3>3. \A E : Counted(E, own) = Outside(E, Uncounted(own))
      BY DEF Counted, Outside
    <3>4. /\ Used(Counted(engines', own)) \in Nat
          /\ Used(Counted(engines', own)) <= Used(Counted(engines, own))
      BY <2>3, <3>1, <3>3, ServersFree
    <3>5. Used(Counted(engines, own)) \in Nat
      <4>1. Counted(engines, own) \in SUBSET engines
        BY DEF Counted
      <4>2. IsFiniteSet(Counted(engines, own)) /\ Counted(engines, own) \subseteq Engine
        BY <3>1, <4>1, FS_Subset
      <4>3. QED BY <4>2, UsedChanges
    <3>6. QED BY <3>2, <3>4, <3>5, NodeAssumption
  <2>4. CASE \E x \in Tasks : LoadStep(x) \/ Free(x)
    <3>1. PICK x \in Tasks : LoadStep(x) \/ Free(x)
      BY <2>4
    <3>2. x = t
      BY <3>1, OthersRest
    <3>3. Launch(t) \/ LaunchFails(t)
      BY <3>1, <3>2 DEF LoadStep, LoadRefused, LoadProbe, StopVictim, Answer, Reload,
         Recheck, Clear, Measure, Ready, NeverReady, Free, Work
    <3>4. QED BY <2>1, <3>3 DEF Launch, LaunchFails
  <2>5. QED
    BY <2>2, <2>3, <2>4 DEF Next, vars, Enter, Wake, TimeOut, Status, Activity, ClaimStep
<1>2. QED BY <1>1, SparkInvariant, RoomInvariant, PTL DEF Spec, OvercommitIsBlind
=============================================================================
