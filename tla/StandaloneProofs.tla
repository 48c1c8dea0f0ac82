--------------------------- MODULE StandaloneProofs ---------------------------
(***************************************************************************)
(* Theorems about the two parts that share no state with any other: the    *)
(* WSL bridge, for every set of callers and every threshold, retry window, *)
(* cooldown and deadline; and the cookbook, for every fleet, every book to *)
(* start from and any number of applies.                                   *)
(***************************************************************************)
EXTENDS WslHealth, Cookbook, FiniteSetTheorems, TLAPS

-----------------------------------------------------------------------------
(* The breaker.                                                            *)

\* What is known of a breaker: it is open when enough timeouts were counted.
BreakerOK(h) == h \in Health /\ (h.open <=> h.count = After)

\* A closed breaker has counted nothing.
LEMMA ClosedIsOK == BreakerOK(Closed) /\ ~Closed.open
BY WslAssumption DEF BreakerOK, Closed, Health

\* record() keeps the breaker's count and its state together, and a missing wsl.exe
\* does not touch it.
LEMMA RecordKeepsBreaker ==
    ASSUME NEW h, BreakerOK(h), NEW o
    PROVE  BreakerOK(Record(h, o)) /\ (o = "absent" => Record(h, o) = h)
<1>1. CASE o = "absent"
  BY <1>1 DEF Record
<1>2. CASE o # "absent" /\ o # "timeout"
  BY <1>2, ClosedIsOK DEF Record, Reset
<1>3. CASE o = "timeout"
  <2> DEFINE n == IF h.count < After THEN h.count + 1 ELSE After
             t == IF h.open THEN h.since ELSE 0
  <2>1. /\ h.count \in 0..After /\ h.open \in BOOLEAN /\ h.since \in 0..Retry
        /\ h.open <=> h.count = After
    BY DEF BreakerOK, Health
  <2>2. n \in 0..After /\ (h.open => n = After)
    BY <2>1, WslAssumption
  <2>3. t \in 0..Retry
    BY <2>1, WslAssumption
  <2>4. Record(h, o) = [count |-> n, open |-> h.open \/ n = After, since |-> t]
    BY <1>3 DEF Record
  <2>5. [count |-> n, open |-> h.open \/ n = After, since |-> t] \in Health
    BY <2>1, <2>2, <2>3 DEF Health
  <2>6. (h.open \/ n = After) <=> n = After
    BY <2>2
  <2>7. Record(h, o) \in Health
    BY <2>4, <2>5
  <2>8. Record(h, o).open = (h.open \/ n = After) /\ Record(h, o).count = n
    BY <2>4
  <2>9. BreakerOK(Record(h, o))
    BY <2>6, <2>7, <2>8 DEF BreakerOK
  <2>10. QED BY <1>3, <2>9
<1>4. QED BY <1>1, <1>2, <1>3

\* A trial leaves the breaker open.
LEMMA TrialKeepsBreaker ==
    ASSUME NEW h, BreakerOK(h)
    PROVE  BreakerOK(Trial(h)) /\ Trial(h).open = h.open
BY WslAssumption DEF BreakerOK, Trial, Health

Steps == [Runners -> {"off", "begins"} \union Rungs]

\* Asking for recovery moves the background task at most, and from rest only; nothing is
\* asked for because of a missing wsl.exe.
LEMMA EscalateMovesTheTask ==
    ASSUME NEW o, step \in Steps
    PROVE  /\ Escalate(step, o) \in Steps
           /\ Escalate(step, o)["boot"] = step["boot"]
           /\ \/ Escalate(step, o)["task"] = step["task"]
              \/ step["task"] = "off" /\ Escalate(step, o)["task"] = "begins"
           /\ o = "absent" => Escalate(step, o) = step
BY DEF Escalate, Escalates, Steps, Runners

-----------------------------------------------------------------------------
(* The inductive invariant: _busy is what keeps the second ladder away.    *)

BusyOnLadder == busy <=> OnLadder("task") \/ OnLadder("boot")

IInv == TypeOK /\ BusyOnLadder /\ OneLadder /\ AbsentIsLeftAlone

\* It holds in the beginning: nobody is on the ladder.
LEMMA InitIInv == Init => IInv
<1> SUFFICES ASSUME Init PROVE IInv
  OBVIOUS
<1>1. TypeOK
  <2>1. health \in Health /\ (health.open <=> health.count = After)
    BY ClosedIsOK DEF Init, BreakerOK
  <2>2. stalls \in 0..(After - 1) /\ left \in 0..Deadline /\ cool \in 0..Cooldown
    BY WslAssumption DEF Init
  <2>3. step \in [Runners -> {"off", "begins"} \union Rungs] /\ step["boot"] = "off"
    BY DEF Init, Runners
  <2>4. proc \in [Callers \union Runners -> {"none", "runs", "killed"}]
    BY DEF Init
  <2>5. QED BY <2>1, <2>2, <2>3, <2>4 DEF Init, TypeOK, Boot
<1>2. \A r \in Runners : step[r] = "off"
  BY DEF Init
<1>3. BusyOnLadder /\ OneLadder
  BY <1>2 DEF Init, BusyOnLadder, OneLadder, OnLadder, Runners, Rungs
<1>4. AbsentIsLeftAlone
  BY <1>2, ClosedIsOK DEF Init, AbsentIsLeftAlone
<1>5. QED BY <1>1, <1>3, <1>4 DEF IInv

\* What the invariant says, spelled out for the steps below.
LEMMA Facts ==
    ASSUME IInv
    PROVE  /\ BreakerOK(health) /\ step \in Steps
           /\ proc \in [Callers \union Runners -> {"none", "runs", "killed"}]
           /\ distro \in Distro /\ busy \in BOOLEAN /\ selfheal \in BOOLEAN
           /\ cool \in 0..Cooldown /\ boot \in Boot
           /\ stalls \in 0..(After - 1) /\ left \in 0..Deadline
           /\ boot = "stalled" <=> step["boot"] # "off"
           /\ busy <=> step["task"] \in Rungs \/ step["boot"] \in Rungs
           /\ ~(step["task"] \in Rungs /\ step["boot"] \in Rungs)
           /\ distro = "absent" =>
                 ~health.open /\ step["task"] = "off" /\ step["boot"] = "off"
BY DEF IInv, TypeOK, BusyOnLadder, OneLadder, AbsentIsLeftAlone, OnLadder, BreakerOK,
       Steps, Runners

\* The same of the next state gives the invariant there.
LEMMA FactsPrime ==
    ASSUME BreakerOK(health'), step' \in Steps,
           proc' \in [Callers \union Runners -> {"none", "runs", "killed"}],
           distro' \in Distro, busy' \in BOOLEAN, selfheal' \in BOOLEAN,
           cool' \in 0..Cooldown, boot' \in Boot,
           stalls' \in 0..(After - 1), left' \in 0..Deadline,
           boot' = "stalled" <=> step'["boot"] # "off",
           busy' <=> step'["task"] \in Rungs \/ step'["boot"] \in Rungs,
           ~(step'["task"] \in Rungs /\ step'["boot"] \in Rungs),
           distro' = "absent" =>
              ~health'.open /\ step'["task"] = "off" /\ step'["boot"] = "off"
    PROVE  IInv'
BY DEF IInv, TypeOK, BusyOnLadder, OneLadder, AbsentIsLeftAlone, OnLadder, BreakerOK,
       Steps, Runners

\* The outcome of a process says whether there is a wsl.exe.
LEMMA AbsentOutcome ==
    ASSUME NEW p, NEW o \in Outcomes(p)
    PROVE  distro = "absent" <=> o = "absent"
BY DEF Outcomes

-----------------------------------------------------------------------------
(* Every step keeps it.                                                    *)

\* A call moves the trial's clock and starts a process.
LEMMA CallKeepsIInv == ASSUME IInv, NEW c \in Callers, Call(c) PROVE IInv'
<1> USE Facts
<1>1. BreakerOK(health') /\ health'.open = health.open
  BY TrialKeepsBreaker DEF Call
<1>2. proc' \in [Callers \union Runners -> {"none", "runs", "killed"}]
  BY DEF Call
<1>3. QED BY <1>1, <1>2, FactsPrime DEF Call, bootVars

\* An answer is recorded, and may wake the background task; on a machine without
\* wsl.exe it changes neither.
LEMMA ReturnKeepsIInv ==
    ASSUME IInv, NEW c \in Callers, NEW o \in Outcome, Return(c, o) PROVE IInv'
<1> USE Facts
<1>1. BreakerOK(health') /\ (distro = "absent" => health' = health /\ step' = step)
  BY RecordKeepsBreaker, EscalateMovesTheTask, AbsentOutcome DEF Return
<1>2. proc' \in [Callers \union Runners -> {"none", "runs", "killed"}]
  BY DEF Return
<1>3. /\ step' \in Steps /\ step'["boot"] = step["boot"]
      /\ step'["task"] \in Rungs <=> step["task"] \in Rungs
  BY EscalateMovesTheTask DEF Return, Rungs
<1>4. QED BY <1>1, <1>2, <1>3, FactsPrime DEF Return, bootVars

\* The background task steps onto the ladder only while _busy is off, so the boot is not
\* on it.
LEMMA BeginKeepsIInv == ASSUME IInv, Begin PROVE IInv'
<1> USE Facts
<1>1. /\ step' \in Steps /\ step'["boot"] = step["boot"]
      /\ step'["task"] = IF MayClimb THEN "kill" ELSE "off"
  BY DEF Begin, Steps, Runners, Rungs
<1>2. distro # "absent"
  BY DEF Begin
<1>3. cool' \in 0..Cooldown /\ busy' \in BOOLEAN
  <2>1. (cool' = Cooldown /\ busy' = TRUE) \/ (cool' = cool /\ busy' = busy)
    BY DEF Begin
  <2>2. cool \in 0..Cooldown /\ busy \in BOOLEAN
    OBVIOUS
  <2>3. cool' = Cooldown \/ cool' = cool
    BY <2>1
  <2>4. cool' \in 0..Cooldown
    BY <2>2, <2>3, WslAssumption
  <2>5. busy' \in BOOLEAN
    BY <2>1, <2>2
  <2>6. QED BY <2>4, <2>5
<1>4. CASE MayClimb
  <2>1. busy' /\ step["boot"] \notin Rungs
    BY <1>4 DEF Begin, MayClimb
  <2>2. "kill" \in Rungs
    BY DEF Rungs
  <2>3. QED BY <1>1, <1>2, <1>3, <1>4, <2>1, <2>2, FactsPrime DEF Begin, bootVars
<1>5. CASE ~MayClimb
  <2>1. busy' = busy /\ step["task"] \notin Rungs /\ "off" \notin Rungs
    BY <1>5 DEF Begin, Rungs
  <2>2. QED BY <1>1, <1>2, <1>3, <1>5, <2>1, FactsPrime DEF Begin, bootVars
<1>6. QED BY <1>4, <1>5

\* A rung leads to a rung: who is on the ladder does not change.
LEMMA ClimbKeepsIInv ==
    ASSUME IInv, NEW r \in Runners, NEW dead \in SUBSET InFlight, NEW after \in Distro,
           Climb(r, dead, after)
    PROVE  IInv'
<1> USE Facts
<1>1. step[r] \in Rungs /\ Above(step[r]) \in Rungs
  BY DEF Climb, Above, Rungs
<1>2. /\ step' \in Steps /\ step'[r] \in Rungs
      /\ \A q \in Runners : q # r => step'[q] = step[q]
  BY <1>1 DEF Climb, Steps
<1>3. /\ step'["task"] \in Rungs <=> step["task"] \in Rungs
      /\ step'["boot"] \in Rungs <=> step["boot"] \in Rungs
      /\ step'["boot"] = "off" <=> step["boot"] = "off"
  BY <1>1, <1>2 DEF Runners, Rungs
<1>4. distro # "absent" /\ distro' \in Distro /\ distro' # "absent"
  BY <1>1 DEF Climb, Runners, Rungs, Distro
<1>5. proc' \in [Callers \union Runners -> {"none", "runs", "killed"}]
  <2>1. DOMAIN proc = Callers \union Runners
    OBVIOUS
  <2>2. QED BY <2>1 DEF Climb
<1>6. QED BY <1>2, <1>3, <1>4, <1>5, FactsPrime DEF Climb, bootVars

\* Whoever reaches the top was alone on the ladder, so _busy may go off.
LEMMA TaskTopsKeepsIInv == ASSUME IInv, NEW o \in Outcome, TaskTops(o) PROVE IInv'
<1> USE Facts
<1>1. BreakerOK(health') /\ distro # "absent"
  BY RecordKeepsBreaker DEF TaskTops
<1>2. proc' \in [Callers \union Runners -> {"none", "runs", "killed"}]
  BY DEF TaskTops
<1>3. /\ step' \in Steps /\ step'["boot"] = step["boot"] /\ step'["task"] = "off"
      /\ step["task"] \in Rungs /\ "off" \notin Rungs
  BY DEF TaskTops, Steps, Runners, Rungs
<1>4. QED BY <1>1, <1>2, <1>3, FactsPrime DEF TaskTops, bootVars

\* The boot steps onto the ladder only while _busy is off.
LEMMA BootProbeKeepsIInv == ASSUME IInv, NEW o \in Outcome, BootProbe(o) PROVE IInv'
<1> USE Facts
<1> DEFINE n == IF o = "timeout" THEN stalls + 1 ELSE 0
<1>1. BreakerOK(health') /\ (distro = "absent" <=> o = "absent")
  BY RecordKeepsBreaker, AbsentOutcome DEF BootProbe
<1>2. proc' \in [Callers \union Runners -> {"none", "runs", "killed"}]
  BY DEF BootProbe, PauseOrGiveUp
<1>3. step["boot"] = "off" /\ boot = "probe" /\ "off" \notin Rungs /\ "begins" \notin Rungs
  BY DEF BootProbe, Rungs
<1>4. n \in 0..After
  BY WslAssumption
<1>5. /\ Escalate(step, o) \in Steps /\ Escalate(step, o)["boot"] = "off"
      /\ Escalate(step, o)["task"] \in Rungs <=> step["task"] \in Rungs
      /\ o = "absent" => Escalate(step, o) = step
  BY <1>3, EscalateMovesTheTask
<1>6. CASE o \in {"ok", "absent"}
  <2>1. /\ boot' \in Boot /\ boot' # "stalled" /\ step' = Escalate(step, o)
        /\ stalls' = stalls /\ busy' = busy /\ cool' = cool
    BY <1>6 DEF BootProbe, Boot
  <2>2. o = "absent" => health' = health
    BY RecordKeepsBreaker DEF BootProbe
  <2>3. QED BY <1>1, <1>2, <1>3, <1>5, <2>1, <2>2, FactsPrime DEF BootProbe
<1>7. CASE o \notin {"ok", "absent"} /\ n >= After /\ MayClimb
  <2>1. /\ boot' = "stalled" /\ stalls' = 0 /\ busy' = TRUE /\ cool' = Cooldown
        /\ step' = [Escalate(step, o) EXCEPT !["boot"] = "kill"]
    BY <1>7 DEF BootProbe
  <2>2. /\ step' \in Steps /\ step'["boot"] = "kill" /\ "kill" \in Rungs
        /\ step'["task"] = Escalate(step, o)["task"]
    BY <1>5, <2>1 DEF Steps, Runners, Rungs
  <2>3. step["task"] \notin Rungs
    BY <1>7 DEF MayClimb
  <2>4. stalls' \in 0..(After - 1) /\ cool' \in 0..Cooldown /\ boot' \in Boot
    BY <2>1, WslAssumption DEF Boot
  <2>5. QED
    BY <1>1, <1>2, <1>3, <1>5, <1>7, <2>1, <2>2, <2>3, <2>4, FactsPrime DEF BootProbe, Rungs
<1>8. CASE o \notin {"ok", "absent"} /\ ~(n >= After /\ MayClimb)
  <2>1. /\ boot' \in {"skipped", "sleeps"} /\ stalls' = IF n >= After THEN 0 ELSE n
        /\ step' = Escalate(step, o) /\ busy' = busy /\ cool' = cool
    BY <1>8 DEF BootProbe, PauseOrGiveUp
  <2>2. stalls' \in 0..(After - 1) /\ boot' \in Boot /\ boot' # "stalled"
    BY <1>4, <2>1, WslAssumption DEF Boot
  <2>3. QED BY <1>1, <1>2, <1>3, <1>5, <1>8, <2>1, <2>2, FactsPrime DEF BootProbe
<1>9. QED BY <1>6, <1>7, <1>8

\* The boot leaves the ladder as the background task does.
LEMMA BootTopsKeepsIInv == ASSUME IInv, NEW o \in Outcome, BootTops(o) PROVE IInv'
<1> USE Facts
<1>1. BreakerOK(health') /\ distro # "absent"
  BY RecordKeepsBreaker DEF BootTops
<1>2. proc' \in [Callers \union Runners -> {"none", "runs", "killed"}]
  BY DEF BootTops, PauseOrGiveUp
<1>3. /\ Escalate(step, o) \in Steps
      /\ Escalate(step, o)["task"] \in Rungs <=> step["task"] \in Rungs
  BY EscalateMovesTheTask DEF Rungs
<1>4. /\ step' \in Steps /\ step'["boot"] = "off"
      /\ step'["task"] = Escalate(step, o)["task"] /\ "off" \notin Rungs
  BY <1>3 DEF BootTops, Steps, Runners, Rungs
<1>5. step["boot"] \in Rungs
  BY DEF BootTops, Rungs
<1>6. boot' \in Boot /\ boot' # "stalled"
  BY DEF BootTops, PauseOrGiveUp, Boot
<1>7. QED BY <1>1, <1>2, <1>3, <1>4, <1>5, <1>6, FactsPrime DEF BootTops

\* Waking, wedging and the passing of time do not touch the ladder.
LEMMA WorldKeepsIInv == ASSUME IInv, BootWakes \/ Wedges \/ Tick PROVE IInv'
<1> USE Facts
<1>1. CASE BootWakes
  <2>1. proc' \in [Callers \union Runners -> {"none", "runs", "killed"}]
    BY <1>1 DEF BootWakes
  <2>2. boot = "sleeps" /\ boot' = "probe" /\ boot' \in Boot
    BY <1>1 DEF BootWakes, Boot
  <2>3. QED BY <1>1, <2>1, <2>2, FactsPrime DEF BootWakes
<1>2. CASE Wedges
  <2>1. distro' \in Distro /\ distro' # "absent"
    BY <1>2 DEF Wedges, Distro
  <2>2. QED BY <1>2, <2>1, FactsPrime DEF Wedges, bootVars
<1>3. CASE Tick
  <2>1. BreakerOK(health') /\ health'.open = health.open
    BY <1>3, WslAssumption DEF Tick, BreakerOK, Health
  <2>2. cool' \in 0..Cooldown /\ left' \in 0..Deadline
    BY <1>3, WslAssumption DEF Tick, Down
  <2>3. QED BY <1>3, <2>1, <2>2, FactsPrime DEF Tick
<1>4. QED BY <1>1, <1>2, <1>3

\* Every step keeps the invariant.
LEMMA NextIInv == IInv /\ [Next]_vars => IInv'
<1> SUFFICES ASSUME IInv, [Next]_vars PROVE IInv'
  OBVIOUS
<1>1. ASSUME NEW c \in Callers, Call(c) PROVE IInv'
  BY <1>1, CallKeepsIInv
<1>2. ASSUME NEW c \in Callers, NEW o \in Outcome, Return(c, o) PROVE IInv'
  BY <1>2, ReturnKeepsIInv
<1>3. CASE Begin
  BY <1>3, BeginKeepsIInv
<1>4. ASSUME NEW r \in Runners, ClimbSome(r) PROVE IInv'
  BY <1>4, ClimbKeepsIInv DEF ClimbSome
<1>5. ASSUME NEW o \in Outcome, TaskTops(o) PROVE IInv'
  BY <1>5, TaskTopsKeepsIInv
<1>6. ASSUME NEW o \in Outcome, BootProbe(o) PROVE IInv'
  BY <1>6, BootProbeKeepsIInv
<1>7. ASSUME NEW o \in Outcome, BootTops(o) PROVE IInv'
  BY <1>7, BootTopsKeepsIInv
<1>8. CASE BootWakes \/ Wedges \/ Tick
  BY <1>8, WorldKeepsIInv
<1>9. CASE UNCHANGED vars
  BY <1>9 DEF vars, bootVars, IInv, TypeOK, BusyOnLadder, OneLadder, AbsentIsLeftAlone,
              OnLadder
<1>10. QED BY <1>1, <1>2, <1>3, <1>4, <1>5, <1>6, <1>7, <1>8, <1>9 DEF Next

-----------------------------------------------------------------------------
(* The bridge's theorems.                                                  *)

\* The invariant holds in every reachable state.
THEOREM Invariance == Spec => []IInv
BY InitIInv, NextIInv, PTL DEF Spec

\* The bridge is well-formed, and its breaker is open exactly when enough consecutive
\* timeouts were counted (WslHealth.record, WslHealth.allow).
THEOREM TypeCorrect == Spec => []TypeOK
BY Invariance, PTL DEF IInv

\* Whatever the breaker's background task and the boot do, one of them is on the recovery
\* ladder at a time (WslRecovery.attempt), for every cooldown, zero included.
THEOREM OneLadderAtATime == Spec => []OneLadder
BY Invariance, PTL DEF IInv

\* A machine without wsl.exe is left alone by breaker and ladder.
THEOREM NoWslNoRecovery == Spec => []AbsentIsLeftAlone
BY Invariance, PTL DEF IInv

-----------------------------------------------------------------------------
(* The cookbook: what is invariant of the fleet, and of an apply.          *)

Phase == {"idle", "teardown", "units", "span"}
Job == [phase : Phase, want : State, unit : [Units -> Work], left : SUBSET Groups,
        failed : SUBSET (Groups \union Units)]
Snap == [name : Names \union {None}, rows : {r \in [Units -> SUBSET (Models \union {None})] :
                                                \A u \in Units : r[u] \in Rows(u)}]

\* The types, with what a claim, a server and the marked state owe each other.
BookTyped ==
    /\ book \in [Names -> State \union {None}]
    /\ default \in Names \union {None} /\ (default # None => Saved(default))
    /\ snap \in Snap /\ jobs \in [Applies -> Job]
FleetTyped ==
    /\ served \in [Units -> SUBSET Models] /\ leaving \in [Units -> SUBSET Models]
    /\ \A u \in Units : served[u] \subseteq Catalog[u] /\ leaving[u] \subseteq served[u]
    /\ claim \in [Groups -> Wide \union {None}]
    /\ \A u \in Units : \A g, h \in Claims(u) : g = h
    /\ shield \subseteq Holds /\ disturbed \subseteq Units

\* One apply at a time; where its units are in each phase, and which groups are left.
InPhase(j) ==
    /\ j.phase \in {"idle", "teardown"} => \A u \in Units : j.unit[u].at = "none"
    /\ j.phase = "units" => \A u \in Units : j.unit[u].at = "none" <=> u \notin Plain(j.want)
    /\ j.phase = "span" =>
          /\ \A u \in Units : j.unit[u].at = IF u \in Plain(j.want) THEN "end" ELSE "none"
          /\ j.left \subseteq Desired(j.want)
OneApply ==
    /\ \A a, b \in Applies : Live(a) /\ Live(b) => a = b
    /\ \A a \in Applies : InPhase(jobs[a])

\* What a unit's share has still to load, and to stop.
Ahead(w) == w.missing \union (IF w.at = "loading" THEN {w.cur} ELSE {})
Going(w) == w.extras \union w.freed \union (IF w.at = "stop" THEN {w.cur} ELSE {})

\* Its locals: what is to be loaded is what the state gives the unit.
Aimed(want, w) ==
    /\ Ahead(w) \subseteq want
    /\ w.at = "loading" => w.cur \notin w.missing
    /\ w.at = "stop" => w.cur # None
    /\ w.at = "status" => w.freed = {}

\* What the unit serves (S) and what is on its way out (L) at each place of its share, if
\* nobody interfered.
Stops(S, L, want, w) ==
    /\ L \subseteq w.freed
    /\ S \subseteq w.kept \union Going(w)
                     \union (IF w.missing \intersect Lone = {} THEN want ELSE {})
    /\ want \ w.missing \subseteq S \ Going(w)
    /\ w.at = "wait" => w.extras = {}
Starts(S, L, want, w, failed) ==
    /\ L = {} /\ S \subseteq want \union w.kept
    /\ Ahead(w) \intersect Lone # {} /\ w.kept = {} => S \subseteq Lone
    /\ w.at = "loading" /\ w.missing \intersect Lone # {} => w.cur \in Lone
    /\ failed \/ want \ Ahead(w) \subseteq S
Ends(S, L, want, w, failed) ==
    \/ failed
    \/ L = {} /\ want \subseteq S /\ S \subseteq want \union w.kept
Stands(S, L, want, w, failed) ==
    /\ w.at \in {"unload", "stop", "wait"} => Stops(S, L, want, w)
    /\ w.at \in {"load", "loading"} => Starts(S, L, want, w, failed)
    /\ w.at = "end" => Ends(S, L, want, w, failed)
ShareSound(j, u) ==
    /\ Aimed(j.want.units[u], j.unit[u])
    /\ \/ u \in disturbed
       \/ Stands(served[u], leaving[u], j.want.units[u], j.unit[u], u \in j.failed)
UnitsSound ==
    \A a \in Applies : Live(a) => \A u \in Plain(jobs[a].want) : ShareSound(jobs[a], u)

\* A group runs what it is to run (c is what it runs), or nothing while it is still to be
\* loaded.
GroupDone(c, j, g) ==
    \/ g \in j.failed
    \/ j.phase = "teardown" /\ g \in j.left
    \/ c = j.want.groups[g]
    \/ c = None /\ (j.phase = "span" => g \in j.left)
GroupsSound ==
    \A a \in Applies, g \in Groups :
       Live(a) => Members[g] \intersect disturbed # {} \/ GroupDone(claim[g], jobs[a], g)

CookbookInv == BookTyped /\ FleetTyped /\ OneApply /\ UnitsSound /\ GroupsSound

-----------------------------------------------------------------------------
(* Records and their fields.                                               *)

\* A state from its two fields.
LEMMA StateFields ==
    ASSUME NEW s
    PROVE  s \in State <=>
              /\ s = [units |-> s.units, groups |-> s.groups]
              /\ s.units \in [Units -> SUBSET (Models \union {None})]
              /\ \A u \in Units : s.units[u] \in Rows(u)
              /\ s.groups \in [Groups -> Wide \union {None}]
BY DEF State

\* The state that says nothing is one.
LEMMA NoStateIsState == NoState \in State
<1>1. [u \in Units |-> NoRow] \in [Units -> SUBSET (Models \union {None})]
  BY DEF NoRow
<1>2. \A u \in Units : [v \in Units |-> NoRow][u] \in Rows(u)
  BY DEF Rows
<1>3. [g \in Groups |-> None] \in [Groups -> Wide \union {None}]
  OBVIOUS
<1>4. QED BY <1>1, <1>2, <1>3, StateFields DEF NoState

\* A unit's share before it begins.
LEMMA NoWorkIsWork == NoWork \in Work
BY DEF NoWork, Work

\* An apply that is over.
LEMMA NoJobIsJob == NoJob \in Job
BY NoStateIsState, NoWorkIsWork DEF NoJob, Job, Phase

\* The fields of an apply, and an apply from its fields.
LEMMA JobFields ==
    ASSUME NEW j
    PROVE  j \in Job <=>
              /\ j = [phase |-> j.phase, want |-> j.want, unit |-> j.unit,
                      left |-> j.left, failed |-> j.failed]
              /\ j.phase \in Phase /\ j.want \in State /\ j.unit \in [Units -> Work]
              /\ j.left \subseteq Groups /\ j.failed \subseteq Groups \union Units
BY DEF Job

\* The fields of a share, and a share from its fields.
LEMMA WorkFields ==
    ASSUME NEW w
    PROVE  w \in Work <=>
              /\ w = [at |-> w.at, extras |-> w.extras, missing |-> w.missing,
                      freed |-> w.freed, kept |-> w.kept, cur |-> w.cur]
              /\ w.at \in {"none", "status", "unload", "stop", "wait", "load", "loading", "end"}
              /\ w.extras \subseteq Models \union Wide /\ w.missing \subseteq Models
              /\ w.freed \subseteq Models \union Wide /\ w.kept \subseteq Models \union Wide
              /\ w.cur \in Models \union Wide \union {None}
BY DEF Work

\* What a unit is given, if anything, is of its catalog.
LEMMA GivenIsListed ==
    ASSUME NEW s \in State, NEW u \in Plain(s)
    PROVE  u \in Units /\ s.units[u] \subseteq Catalog[u] /\ s.units[u] \subseteq Models
<1>1. u \in Units /\ s.units[u] # NoRow
  BY DEF Plain
<1>2. s.units[u] \in Rows(u)
  BY <1>1, StateFields
<1>3. s.units[u] \in SUBSET Catalog[u]
  BY <1>1, <1>2 DEF Rows
<1>4. QED BY <1>1, <1>3, CookbookAssumption

-----------------------------------------------------------------------------
(* The beginning.                                                          *)

\* Nothing is under way, and a saved state is one.
LEMMA CookbookStarts == CookbookInit => CookbookInv
<1> SUFFICES ASSUME CookbookInit PROVE CookbookInv
  OBVIOUS
<1>1. jobs \in [Applies -> Job] /\ \A a \in Applies : jobs[a] = NoJob
  BY NoJobIsJob DEF CookbookInit
<1>2. \A a \in Applies : /\ jobs[a].phase = "idle" /\ jobs[a].want = NoState
                         /\ \A u \in Units : jobs[a].unit[u].at = "none"
  BY <1>1 DEF NoJob, NoWork
<1>3. BookTyped
  <2>1. snap \in Snap
    BY NoStateIsState, StateFields DEF CookbookInit, NoSnap, Snap
  <2>2. QED BY <1>1, <2>1, CookbookAssumption DEF CookbookInit, BookTyped
<1>4. FleetTyped
  BY CookbookAssumption DEF CookbookInit, FleetTyped, Claims
<1>5. OneApply
  BY <1>2 DEF OneApply, InPhase, Live
<1>6. UnitsSound
  BY <1>2 DEF UnitsSound, Live
<1>7. GroupsSound
  BY <1>2 DEF GroupsSound, Live
<1>8. QED BY <1>3, <1>4, <1>5, <1>6, <1>7 DEF CookbookInv

-----------------------------------------------------------------------------
(* The cookbook is written.                                                *)

\* Nothing of the fleet and of the applies has changed.
LEMMA FleetSame ==
    ASSUME CookbookInv, UNCHANGED <<fleet, jobs, disturbed>>
    PROVE  FleetTyped' /\ OneApply' /\ UnitsSound' /\ GroupsSound'
<1> USE DEF CookbookInv, fleet
<1>1. FleetTyped'
  BY DEF FleetTyped, Claims
<1>2. OneApply'
  BY DEF OneApply, InPhase, Live
<1>3. UnitsSound'
  BY DEF UnitsSound, ShareSound, Live
<1>4. GroupsSound'
  BY DEF GroupsSound, GroupDone, Live
<1>5. QED BY <1>1, <1>2, <1>3, <1>4

\* A state is stored, or the entry of one is dropped.
LEMMA StoreKeepsBook ==
    ASSUME BookTyped, NEW n \in Names, NEW s \in State \union {None}, Store(n, s),
           default' \in {default, None, n}, s = None => default' # n,
           UNCHANGED jobs, snap' \in Snap,
           default' = n => s # None
    PROVE  BookTyped'
<1>1. /\ book' \in [Names -> State \union {None}] /\ book'[n] = s
      /\ \A k \in Names : k # n => book'[k] = book[k]
  BY DEF Store, BookTyped
<1>2. default' \in Names \union {None}
  BY DEF BookTyped
<1>3. default' # None => book'[default'] # None
  BY <1>1, <1>2 DEF BookTyped, Saved
<1>4. QED BY <1>1, <1>2, <1>3 DEF BookTyped, Saved

\* A row of a snapshot is of the unit's catalog: what its group runs is left out.
LEMMA RecordedIsRow ==
    ASSUME FleetTyped, NEW u \in Units, NEW seen \in Statuses(u)
    PROVE  /\ Recorded(u, seen) \in Rows(u)
           /\ Recorded(u, seen) \subseteq Models
<1>1. Recorded(u, seen) \subseteq served[u]
  BY DEF Recorded, Statuses, Residents
<1>2. served[u] \subseteq Catalog[u] /\ served[u] \subseteq Models
  BY DEF FleetTyped
<1>3. Recorded(u, seen) \in SUBSET Catalog[u]
  BY <1>1, <1>2
<1>4. QED BY <1>1, <1>2, <1>3 DEF Rows

\* Every way to write the cookbook keeps its entries states, and the mark on one of them.
LEMMA BookStepKeeps ==
    ASSUME CookbookInv, BookStep
    PROVE  CookbookInv'
<1>0. BookTyped /\ FleetTyped
  BY DEF CookbookInv
<1>1. UNCHANGED <<fleet, jobs, disturbed>>
  BY DEF BookStep, SnapshotStarts, EditUnits, EditGroups, Delete, SetDefault, SnapshotUnit,
         SnapshotEnds
<1>2. FleetTyped' /\ OneApply' /\ UnitsSound' /\ GroupsSound'
  BY <1>1, FleetSame
<1>3. ASSUME NEW n \in Names, SnapshotStarts(n) PROVE BookTyped'
  <2>1. [NoSnap EXCEPT !.name = n] \in Snap
    BY NoStateIsState, StateFields DEF NoSnap, Snap
  <2>2. QED BY <1>0, <1>3, <2>1 DEF SnapshotStarts, BookTyped, Saved
<1>4. ASSUME NEW n \in Names, EditUnits(n) PROVE BookTyped'
  <2>1. book[n] \in State
    BY <1>0, <1>4 DEF EditUnits, Saved, BookTyped
  <2>2. PICK e \in Edits :
           Store(n, [book[n] EXCEPT !.units =
                        [u \in Units |-> IF e.units[u] # NoRow THEN e.units[u] ELSE @[u]]])
    BY <1>4 DEF EditUnits
  <2> DEFINE s == [book[n] EXCEPT !.units =
                      [u \in Units |-> IF e.units[u] # NoRow THEN e.units[u] ELSE @[u]]]
             r == [u \in Units |-> IF e.units[u] # NoRow THEN e.units[u] ELSE book[n].units[u]]
  <2>3. e \in State
    BY CookbookAssumption
  <2>4. \A u \in Units : /\ e.units[u] \in Rows(u) /\ book[n].units[u] \in Rows(u)
                         /\ e.units[u] \in SUBSET (Models \union {None})
                         /\ book[n].units[u] \in SUBSET (Models \union {None})
    BY <2>1, <2>3, StateFields
  <2>5. r \in [Units -> SUBSET (Models \union {None})] /\ \A u \in Units : r[u] \in Rows(u)
    BY <2>4
  <2>6. s.units = r /\ s.groups = book[n].groups /\ s = [units |-> s.units, groups |-> s.groups]
    BY <2>1, StateFields
  <2>7. s \in State
    BY <2>1, <2>5, <2>6, StateFields
  <2> HIDE DEF s
  <2>8. s # None
    BY <2>7, CookbookAssumption
  <2>9. default' = default /\ snap' = snap /\ UNCHANGED jobs
    BY <1>4 DEF EditUnits
  <2>10. Store(n, s)
    BY <2>2 DEF s
  <2>11. QED BY <1>0, <2>7, <2>8, <2>9, <2>10, StoreKeepsBook DEF BookTyped
<1>5. ASSUME NEW n \in Names, EditGroups(n) PROVE BookTyped'
  <2>1. book[n] \in State
    BY <1>0, <1>5 DEF EditGroups, Saved, BookTyped
  <2>2. PICK g \in Groups, m \in Wide \union {None} : Store(n, [book[n] EXCEPT !.groups[g] = m])
    BY <1>5 DEF EditGroups
  <2> DEFINE s == [book[n] EXCEPT !.groups[g] = m]
  <2>3. /\ s = [units |-> s.units, groups |-> s.groups] /\ s.units = book[n].units
        /\ s.groups = [book[n].groups EXCEPT ![g] = m]
    BY <2>1, StateFields
  <2>4. s.groups \in [Groups -> Wide \union {None}]
    BY <2>1, <2>3, StateFields
  <2>5. s \in State
    BY <2>1, <2>3, <2>4, StateFields
  <2>6. Store(n, s)
    BY <2>2
  <2> HIDE DEF s
  <2>7. s # None
    BY <2>5, CookbookAssumption
  <2>8. default' = default /\ snap' = snap /\ UNCHANGED jobs
    BY <1>5 DEF EditGroups
  <2>9. QED BY <1>0, <2>5, <2>6, <2>7, <2>8, StoreKeepsBook DEF BookTyped
<1>6. ASSUME NEW n \in Names, Delete(n) PROVE BookTyped'
  <2>1. /\ Store(n, None) /\ default' = IF default = n THEN None ELSE default
        /\ snap' = snap /\ UNCHANGED jobs
    BY <1>6 DEF Delete
  <2>2. n # None
    BY CookbookAssumption
  <2>3. QED BY <1>0, <2>1, <2>2, StoreKeepsBook DEF BookTyped
<1>7. ASSUME NEW n \in Names, SetDefault(n) PROVE BookTyped'
  BY <1>0, <1>7 DEF SetDefault, BookTyped, Saved
<1>8. ASSUME NEW u \in Units, SnapshotUnit(u) PROVE BookTyped'
  <2>1. UNCHANGED <<book, default, jobs>>
    BY <1>8 DEF SnapshotUnit
  <2>2. snap' \in Snap
    <3>1. NoSnap \in Snap
      BY NoStateIsState, StateFields DEF NoSnap, Snap
    <3>2. ASSUME NEW seen \in Statuses(u), snap' = [snap EXCEPT !.rows[u] = Recorded(u, seen)]
          PROVE  snap' \in Snap
      BY <1>0, <3>2, RecordedIsRow DEF BookTyped, Snap
    <3>3. QED BY <1>8, <3>1, <3>2 DEF SnapshotUnit
  <2>3. QED BY <1>0, <2>1, <2>2 DEF BookTyped, Saved
<1>9. ASSUME SnapshotEnds PROVE BookTyped'
  <2> DEFINE s == [units |-> snap.rows, groups |-> claim]
  <2>0. snap.name \in Names /\ Store(snap.name, s)
    BY <1>0, <1>9 DEF SnapshotEnds, BookTyped, Snap
  <2>1. PICK n \in Names : Store(n, s)
    BY <2>0
  <2>2. s \in State
    BY <1>0, StateFields DEF BookTyped, FleetTyped, Snap
  <2>3. NoSnap \in Snap
    BY NoStateIsState, StateFields DEF NoSnap, Snap
  <2> HIDE DEF s
  <2>4. s # None
    BY <2>2, CookbookAssumption
  <2>5. default' = default /\ snap' = NoSnap /\ UNCHANGED jobs
    BY <1>9 DEF SnapshotEnds
  <2>6. QED BY <1>0, <2>1, <2>2, <2>3, <2>4, <2>5, StoreKeepsBook DEF BookTyped
<1>10. BookTyped'
  <2>1. ASSUME NEW n \in Names, \/ SnapshotStarts(n) \/ EditUnits(n) \/ EditGroups(n)
                                \/ Delete(n) \/ SetDefault(n)
        PROVE  BookTyped'
    BY <2>1, <1>3, <1>4, <1>5, <1>6, <1>7
  <2>2. QED BY <1>8, <1>9, <2>1 DEF BookStep
<1>11. QED BY <1>2, <1>10 DEF CookbookInv

-----------------------------------------------------------------------------
(* Everybody else.                                                         *)

\* A server that was told to stop is gone: only one that was in the way.
LEMMA DepartureStands ==
    ASSUME NEW S, NEW L, NEW want, NEW w, NEW f, NEW m \in L, Stands(S, L, want, w, f)
    PROVE  Stands(S \ {m}, L \ {m}, want, w, f)
<1>1. ~(w.at \in {"load", "loading"})
  BY DEF Stands, Starts
<1>2. ASSUME w.at = "end" PROVE f
  BY <1>2 DEF Stands, Ends
<1>3. ASSUME Stops(S, L, want, w) PROVE Stops(S \ {m}, L \ {m}, want, w)
  <2>1. m \in Going(w)
    BY <1>3 DEF Stops, Going
  <2>2. QED BY <1>3, <2>1 DEF Stops
<1>4. QED BY <1>1, <1>2, <1>3 DEF Stands, Ends

\* Applies are where they were, and units that nobody disturbed serve what they did.
LEMMA UnitsAsBefore ==
    ASSUME UnitsSound, UNCHANGED jobs, disturbed \subseteq disturbed',
           \A u \in Units \ disturbed' : \A want, w, f :
              Stands(served[u], leaving[u], want, w, f) =>
                 Stands(served'[u], leaving'[u], want, w, f)
    PROVE  UnitsSound'
<1> SUFFICES ASSUME NEW a \in Applies, Live(a), NEW u \in Plain(jobs[a].want)
             PROVE  ShareSound(jobs[a], u)'
  BY DEF UnitsSound, Live
<1>1. u \in Units /\ ShareSound(jobs[a], u)
  BY DEF Plain, UnitsSound
<1>2. QED BY <1>1 DEF ShareSound

\* Claims are as they were, or a group was disturbed.
LEMMA GroupsAsBefore ==
    ASSUME GroupsSound, UNCHANGED jobs, disturbed \subseteq disturbed',
           \A g \in Groups : claim'[g] = claim[g] \/ Members[g] \intersect disturbed' # {}
    PROVE  GroupsSound'
<1> SUFFICES ASSUME NEW a \in Applies, NEW g \in Groups, Live(a),
                    Members[g] \intersect disturbed' = {}
             PROVE  GroupDone(claim'[g], jobs[a], g)
  BY DEF GroupsSound, Live
<1>1. GroupDone(claim[g], jobs[a], g) /\ claim'[g] = claim[g]
  BY DEF GroupsSound
<1>2. QED BY <1>1

\* A group that takes its members, each free or its own, is the only one that has them.
LEMMA OneGroupPerUnit ==
    ASSUME FleetTyped, NEW g \in Groups, NEW m \in Wide \union {None},
           claim' = [claim EXCEPT ![g] = m],
           m # None => \A u \in Members[g] : Claims(u) \subseteq {g}
    PROVE  /\ claim' \in [Groups -> Wide \union {None}]
           /\ \A u \in Units : \A h, k \in Claims(u)' : h = k
<1>1. /\ claim' \in [Groups -> Wide \union {None}] /\ claim'[g] = m
      /\ \A h \in Groups : h # g => claim'[h] = claim[h]
  BY DEF FleetTyped
<1>2. ASSUME NEW u \in Units, NEW h \in Claims(u)', NEW k \in Claims(u)', h # k
      PROVE  FALSE
  <2>1. /\ h \in Groups /\ claim'[h] # None /\ u \in Members[h]
        /\ k \in Groups /\ claim'[k] # None /\ u \in Members[k]
    BY <1>2 DEF Claims
  <2>2. \A x \in Groups : x # g /\ claim'[x] # None /\ u \in Members[x] => x \in Claims(u)
    BY <1>1 DEF Claims
  <2>3. CASE h # g /\ k # g
    BY <1>2, <2>1, <2>2, <2>3 DEF FleetTyped
  <2>4. CASE h = g
    BY <1>1, <1>2, <2>1, <2>2, <2>4
  <2>5. CASE k = g
    BY <1>1, <1>2, <2>1, <2>2, <2>5
  <2>6. QED BY <2>3, <2>4, <2>5
<1>3. QED BY <1>1, <1>2

\* Loads and unloads of others, groups that come and go, leases: whatever an apply has
\* established on a unit that they left alone stands.
LEMMA OtherStepKeeps ==
    ASSUME CookbookInv, OtherStep
    PROVE  CookbookInv'
<1>0. BookTyped /\ FleetTyped /\ OneApply /\ UnitsSound /\ GroupsSound
  BY DEF CookbookInv
<1>1. UNCHANGED <<book, default, jobs, snap>>
  BY DEF OtherStep
<1>2. BookTyped' /\ OneApply'
  BY <1>0, <1>1 DEF BookTyped, Saved, OneApply, InPhase, Live
<1>3. ASSUME Departs PROVE FleetTyped' /\ UnitsSound' /\ GroupsSound'
  <2> PICK u \in Units, m \in Models :
         /\ m \in leaving[u]
         /\ served' = [served EXCEPT ![u] = @ \ {m}]
         /\ leaving' = [leaving EXCEPT ![u] = @ \ {m}]
         /\ UNCHANGED <<claim, shield, disturbed>>
    BY <1>3 DEF Departs
  <2>1. \A v \in Units :
           /\ served'[v] = IF v = u THEN served[u] \ {m} ELSE served[v]
           /\ leaving'[v] = IF v = u THEN leaving[u] \ {m} ELSE leaving[v]
    BY <1>0 DEF FleetTyped
  <2>2. FleetTyped'
    BY <1>0, <2>1 DEF FleetTyped, Claims
  <2>3. ASSUME NEW v \in Units, NEW want, NEW w, NEW f,
               Stands(served[v], leaving[v], want, w, f)
        PROVE  Stands(served'[v], leaving'[v], want, w, f)
    BY <2>1, <2>3, DepartureStands
  <2>4. UnitsSound'
    BY <1>0, <1>1, <2>3, UnitsAsBefore
  <2>5. QED BY <1>0, <1>1, <2>2, <2>4, GroupsAsBefore
<1>4. ASSUME OthersLoad PROVE FleetTyped' /\ UnitsSound' /\ GroupsSound'
  <2> PICK u \in Units, m \in Models :
         /\ m \in Catalog[u] \ served[u]
         /\ served' = [served EXCEPT ![u] = @ \union {m}]
         /\ disturbed' = disturbed \union {u}
         /\ UNCHANGED <<leaving, claim, shield>>
    BY <1>4 DEF OthersLoad
  <2>1. \A v \in Units : served'[v] = IF v = u THEN served[u] \union {m} ELSE served[v]
    BY <1>0 DEF FleetTyped
  <2>2. FleetTyped'
    BY <1>0, <2>1 DEF FleetTyped, Claims
  <2>3. \A v \in Units \ disturbed' : served'[v] = served[v] /\ leaving'[v] = leaving[v]
    BY <2>1
  <2>4. UnitsSound'
    BY <1>0, <1>1, <2>3, UnitsAsBefore
  <2>5. QED BY <1>0, <1>1, <2>2, <2>4, GroupsAsBefore
<1>5. ASSUME OthersUnload PROVE FleetTyped' /\ UnitsSound' /\ GroupsSound'
  <2> PICK u \in Units, m \in Models :
         /\ m \in served[u] \ leaving[u]
         /\ leaving' = [leaving EXCEPT ![u] = @ \union {m}]
         /\ disturbed' = disturbed \union {u}
         /\ UNCHANGED <<served, claim, shield>>
    BY <1>5 DEF OthersUnload
  <2>1. \A v \in Units : leaving'[v] = IF v = u THEN leaving[u] \union {m} ELSE leaving[v]
    BY <1>0 DEF FleetTyped
  <2>2. FleetTyped'
    BY <1>0, <2>1 DEF FleetTyped, Claims
  <2>3. \A v \in Units \ disturbed' : served'[v] = served[v] /\ leaving'[v] = leaving[v]
    BY <2>1
  <2>4. UnitsSound'
    BY <1>0, <1>1, <2>3, UnitsAsBefore
  <2>5. QED BY <1>0, <1>1, <2>2, <2>4, GroupsAsBefore
<1>6. ASSUME OthersSpan PROVE FleetTyped' /\ UnitsSound' /\ GroupsSound'
  <2> PICK g \in Groups, m \in Wide \union {None} :
         /\ m # claim[g] /\ (m # None => \A u \in Members[g] : Claims(u) \subseteq {g})
         /\ claim' = [claim EXCEPT ![g] = m]
         /\ served' = [u \in Units |-> IF u \in Members[g] THEN {} ELSE served[u]]
         /\ leaving' = [u \in Units |-> leaving[u] \intersect served'[u]]
         /\ disturbed' = disturbed \union Members[g]
         /\ UNCHANGED shield
    BY <1>6 DEF OthersSpan
  <2>1. Members[g] \subseteq Units /\ Members[g] # {}
    BY CookbookAssumption
  <2>2. \A v \in Units : /\ served'[v] = IF v \in Members[g] THEN {} ELSE served[v]
                         /\ leaving'[v] = leaving[v] \intersect served'[v]
    OBVIOUS
  <2>3. FleetTyped'
    <3>1. served' \in [Units -> SUBSET Models] /\ leaving' \in [Units -> SUBSET Models]
      BY <1>0, <2>2 DEF FleetTyped
    <3>2. \A v \in Units : served'[v] \subseteq Catalog[v] /\ leaving'[v] \subseteq served'[v]
      BY <1>0, <2>2 DEF FleetTyped
    <3>3. disturbed' \subseteq Units
      BY <1>0, <2>1 DEF FleetTyped
    <3>4. QED BY <1>0, <3>1, <3>2, <3>3, OneGroupPerUnit DEF FleetTyped
  <2>4. \A v \in Units \ disturbed' : served'[v] = served[v] /\ leaving'[v] = leaving[v]
    BY <1>0, <2>2 DEF FleetTyped
  <2>5. UnitsSound'
    BY <1>0, <1>1, <2>4, UnitsAsBefore
  <2>6. \A h \in Groups : claim'[h] = claim[h] \/ Members[h] \intersect disturbed' # {}
    BY <1>0, <2>1 DEF FleetTyped
  <2>7. QED BY <1>0, <1>1, <2>3, <2>5, <2>6, GroupsAsBefore
<1>7. ASSUME LeaseStep PROVE FleetTyped' /\ UnitsSound' /\ GroupsSound'
  <2>1. UNCHANGED <<served, leaving, claim, disturbed>> /\ shield' \subseteq Holds
    BY <1>0, <1>7 DEF LeaseStep, FleetTyped
  <2>2. FleetTyped'
    BY <1>0, <2>1 DEF FleetTyped, Claims
  <2>3. QED BY <1>0, <1>1, <2>1, <2>2, UnitsAsBefore, GroupsAsBefore
<1>8. FleetTyped' /\ UnitsSound' /\ GroupsSound'
  BY <1>3, <1>4, <1>5, <1>6, <1>7 DEF OtherStep
<1>9. QED BY <1>2, <1>8 DEF CookbookInv

-----------------------------------------------------------------------------
(* An apply.                                                               *)

\* The applies are a function of them.
LEMMA SetMoves ==
    ASSUME BookTyped, NEW a \in Applies, NEW j \in Job, Set(a, j)
    PROVE  /\ jobs' \in [Applies -> Job] /\ jobs'[a] = j
           /\ \A b \in Applies : b # a => jobs'[b] = jobs[b]
BY DEF BookTyped, Set

\* An apply goes on, and what it has established of its units and of the groups stands.
LEMMA ApplyMoves ==
    ASSUME CookbookInv, NEW a \in Applies, NEW j \in Job, Set(a, j), Keep,
           \A b \in Applies : Live(b) => b = a,
           FleetTyped', InPhase(j),
           j.phase # "idle" =>
              \A u \in Plain(j.want) :
                 /\ Aimed(j.want.units[u], j.unit[u])
                 /\ \/ u \in disturbed'
                    \/ Stands(served'[u], leaving'[u], j.want.units[u], j.unit[u],
                              u \in j.failed),
           j.phase # "idle" =>
              \A g \in Groups :
                 Members[g] \intersect disturbed' # {} \/ GroupDone(claim'[g], j, g)
    PROVE  CookbookInv'
<1>0. BookTyped /\ OneApply
  BY DEF CookbookInv
<1>1. /\ jobs' \in [Applies -> Job] /\ jobs'[a] = j
      /\ \A b \in Applies : b # a => jobs'[b] = jobs[b]
  BY <1>0, SetMoves
<1>2. BookTyped'
  BY <1>0, <1>1 DEF BookTyped, Keep, Saved
<1>3. \A b \in Applies : Live(b)' => b = a /\ j.phase # "idle"
  BY <1>1 DEF Live
<1>4. OneApply'
  <2>1. \A b \in Applies : InPhase(jobs'[b])
    BY <1>0, <1>1 DEF OneApply
  <2>2. \A b, c \in Applies : Live(b)' /\ Live(c)' => b = c
    BY <1>3
  <2>3. QED BY <2>1, <2>2 DEF OneApply, InPhase
<1>5. UnitsSound'
  BY <1>1, <1>3 DEF UnitsSound, ShareSound
<1>6. GroupsSound'
  BY <1>1, <1>3 DEF GroupsSound
<1>7. QED BY <1>2, <1>4, <1>5, <1>6 DEF CookbookInv

\* Of the applies one is at work.
LEMMA TheOne ==
    ASSUME CookbookInv, NEW a \in Applies, jobs[a].phase # "idle"
    PROVE  /\ Live(a) /\ \A b \in Applies : Live(b) => b = a
           /\ jobs[a] \in Job /\ InPhase(jobs[a])
<1>1. jobs[a] \in Job /\ OneApply
  BY DEF CookbookInv, BookTyped
<1>2. jobs[a].phase \in Phase
  BY <1>1, JobFields
<1>3. QED BY <1>1, <1>2 DEF Phase, Live, OneApply

\* An apply begins when no other is under way.
LEMMA ApplyKeeps ==
    ASSUME CookbookInv, NEW a \in Applies, NEW n \in Names, Apply(a, n)
    PROVE  CookbookInv'
<1> DEFINE j == [NoJob EXCEPT !.phase = "teardown", !.want = book[n], !.left = Groups]
<1>1. Set(a, j) /\ disturbed' = {} /\ Keep /\ UNCHANGED fleet /\ \A b \in Applies : ~Live(b)
  BY DEF Apply
<1>2. book[n] \in State
  BY DEF Apply, Saved, CookbookInv, BookTyped
<1>3. j \in [phase : {"teardown"}, want : {book[n]}, unit : {[u \in Units |-> NoWork]},
             left : {Groups}, failed : {{}}]
  BY DEF NoJob
<1>4. /\ j.phase = "teardown" /\ j.left = Groups
      /\ \A u \in Units : j.unit[u] = NoWork
  BY <1>3
<1>5. j \in Job
  BY <1>2, <1>3, NoWorkIsWork DEF Job, Phase
<1> HIDE DEF j
<1>6. FleetTyped'
  BY <1>1 DEF CookbookInv, FleetTyped, Claims, fleet
<1>7. NoWork.at = "none" /\ NoWork.missing = {}
  BY DEF NoWork
<1>8. InPhase(j)
  BY <1>4, <1>7 DEF InPhase
<1>9. ASSUME NEW u \in Plain(j.want)
      PROVE  /\ Aimed(j.want.units[u], j.unit[u])
             /\ \A S, L, f : Stands(S, L, j.want.units[u], j.unit[u], f)
  BY <1>4, <1>7 DEF Plain, Aimed, Ahead, Stands
<1>10. \A g \in Groups : \A c : GroupDone(c, j, g)
  BY <1>4 DEF GroupDone
<1>11. QED BY <1>1, <1>5, <1>6, <1>8, <1>9, <1>10, ApplyMoves

\* Unwanted groups are torn down one by one; when none is left the units begin.
LEMMA TearDownKeeps ==
    ASSUME CookbookInv, NEW a \in Applies, TearDown(a)
    PROVE  CookbookInv'
<1> DEFINE j == jobs[a]
<1>0. /\ BookTyped /\ FleetTyped /\ GroupsSound
      /\ Keep /\ UNCHANGED <<served, leaving, shield, disturbed>> /\ j.phase = "teardown"
  BY DEF CookbookInv, TearDown
<1>1. /\ Live(a) /\ \A b \in Applies : Live(b) => b = a
      /\ j \in Job /\ InPhase(j)
  BY <1>0, TheOne
<1>2. \A u \in Units : j.unit[u] \in Work /\ j.unit[u].at = "none"
  BY <1>0, <1>1, JobFields DEF InPhase
<1>3. \A g \in Groups : \/ Members[g] \intersect disturbed # {}
                        \/ GroupDone(claim[g], j, g)
  BY <1>0, <1>1 DEF GroupsSound
<1>4. CASE j.left = {} /\ Set(a, StartUnits(j)) /\ UNCHANGED claim
  <2> DEFINE k == StartUnits(j)
             share(u) == IF u \in Plain(j.want) THEN [NoWork EXCEPT !.at = "status"] ELSE NoWork
  <2>1. k \in [phase : {"units"}, want : {j.want}, unit : {[u \in Units |-> share(u)]},
               left : {{}}, failed : {j.failed}]
    BY <1>1, <1>4 DEF StartUnits, Job
  <2>2. \A u \in Units :
           /\ share(u) \in Work /\ share(u).missing = {} /\ share(u).freed = {}
           /\ share(u).at = IF u \in Plain(j.want) THEN "status" ELSE "none"
    BY NoWorkIsWork DEF NoWork, Work
  <2> HIDE DEF share
  <2>3. k \in Job /\ k.phase = "units" /\ k.want = j.want /\ k.failed = j.failed
    <3>1. [u \in Units |-> share(u)] \in [Units -> Work]
      BY <2>2
    <3>2. j.want \in State /\ j.failed \subseteq Groups \union Units
      BY <1>1, JobFields
    <3>3. QED BY <2>1, <3>1, <3>2 DEF Job, Phase
  <2>4. \A u \in Units : k.unit[u] = share(u)
    BY <2>1
  <2> HIDE DEF k, j
  <2>5. InPhase(k)
    BY <2>2, <2>3, <2>4 DEF InPhase
  <2>6. ASSUME NEW u \in Plain(k.want)
        PROVE  /\ Aimed(k.want.units[u], k.unit[u])
               /\ \A S, L, f : Stands(S, L, k.want.units[u], k.unit[u], f)
    <3>1. u \in Units
      BY DEF Plain
    <3>2. k.unit[u].missing = {} /\ k.unit[u].freed = {} /\ k.unit[u].at = "status"
      BY <2>2, <2>3, <2>4, <2>6, <3>1
    <3>3. QED BY <3>2 DEF Aimed, Ahead, Stands
  <2>7. ASSUME NEW g \in Groups, GroupDone(claim[g], j, g) PROVE GroupDone(claim[g], k, g)
    BY <1>0, <1>4, <2>3, <2>7 DEF GroupDone
  <2>8. FleetTyped'
    BY <1>0, <1>4 DEF FleetTyped, Claims
  <2>9. Set(a, k)
    BY <1>4 DEF k
  <2>10. QED BY <1>0, <1>1, <1>3, <1>4, <2>3, <2>5, <2>6, <2>7, <2>8, <2>9, ApplyMoves
<1>5. ASSUME NEW g \in j.left, NEW F \in {{}, {g}}, NEW m \in {claim[g], None},
             jobs' = [jobs EXCEPT ![a] = [j EXCEPT !.left = @ \ {g}, !.failed = @ \union F]],
             claim' = [claim EXCEPT ![g] = m],
             F = {} => m \in {None, j.want.groups[g]}
      PROVE  CookbookInv'
  <2> DEFINE k == [j EXCEPT !.left = @ \ {g}, !.failed = @ \union F]
  <2>0. g \in Groups
    BY <1>1, JobFields
  <2>1. /\ k.phase = "teardown" /\ k.want = j.want /\ k.unit = j.unit
        /\ k.left = j.left \ {g} /\ k.failed = j.failed \union F /\ k \in Job
    <3>1. k \in [phase : {j.phase}, want : {j.want}, unit : {j.unit},
                 left : {j.left \ {g}}, failed : {j.failed \union F}]
      BY <1>1 DEF Job
    <3>2. j.failed \union F \subseteq Groups \union Units
      BY <1>1, <2>0, JobFields
    <3>3. /\ j.want \in State /\ j.unit \in [Units -> Work] /\ j.left \ {g} \subseteq Groups
          /\ j.phase \in Phase
      BY <1>1, JobFields
    <3> HIDE DEF k, j
    <3>4. QED BY <1>0, <3>1, <3>2, <3>3 DEF Job
  <2>2. Set(a, k)
    BY <1>5 DEF Set
  <2> HIDE DEF k, j
  <2>3. InPhase(k)
    BY <1>2, <2>1 DEF InPhase
  <2>4. ASSUME NEW u \in Plain(k.want)
        PROVE  /\ Aimed(k.want.units[u], k.unit[u])
               /\ \A S, L, f : Stands(S, L, k.want.units[u], k.unit[u], f)
    <3>1. Aimed(j.want.units[u], j.unit[u])
      BY <1>1, <2>1 DEF CookbookInv, UnitsSound, ShareSound, j
    <3>2. u \in Units
      BY DEF Plain
    <3>3. k.unit[u].at = "none"
      BY <1>2, <2>1, <3>2
    <3>4. QED BY <2>1, <3>1, <3>3 DEF Stands
  <2>5. /\ claim' \in [Groups -> Wide \union {None}] /\ claim'[g] = m
        /\ \A h \in Groups : h # g => claim'[h] = claim[h]
    BY <1>0, <1>5, <2>0 DEF FleetTyped
  <2>6. ASSUME NEW h \in Groups, GroupDone(claim[h], j, h) PROVE GroupDone(claim'[h], k, h)
    BY <1>5, <2>1, <2>5, <2>6 DEF GroupDone
  <2>7. FleetTyped'
    <3>1. \A u \in Units : Claims(u)' \subseteq Claims(u)
      BY <1>5, <2>0, <2>5 DEF Claims
    <3>2. QED BY <1>0, <2>5, <3>1 DEF FleetTyped
  <2>8. QED BY <1>0, <1>1, <1>3, <2>1, <2>2, <2>3, <2>4, <2>6, <2>7, ApplyMoves
<1>6. ASSUME NEW g \in j.left, ~Unwanted(j, g), UNCHANGED claim,
             Set(a, [j EXCEPT !.left = @ \ {g}])
      PROVE  CookbookInv'
  <2>1. g \in Groups
    BY <1>1, JobFields
  <2>2. claim' = [claim EXCEPT ![g] = claim[g]]
    BY <1>0, <1>6 DEF FleetTyped
  <2>3. [j EXCEPT !.left = @ \ {g}] = [j EXCEPT !.left = @ \ {g}, !.failed = @ \union {}]
    BY <1>1, JobFields
  <2>4. jobs' = [jobs EXCEPT ![a] = [j EXCEPT !.left = @ \ {g}, !.failed = @ \union {}]]
    BY <1>6, <2>3 DEF Set
  <2>5. claim[g] \in {None, j.want.groups[g]}
    BY <1>6 DEF Unwanted
  <2>6. QED BY <1>5, <2>2, <2>4, <2>5
<1>7. ASSUME NEW g \in j.left, claim' = [claim EXCEPT ![g] = None],
             Set(a, [j EXCEPT !.left = @ \ {g}])
      PROVE  CookbookInv'
  <2>1. [j EXCEPT !.left = @ \ {g}] = [j EXCEPT !.left = @ \ {g}, !.failed = @ \union {}]
    BY <1>1, JobFields
  <2>2. jobs' = [jobs EXCEPT ![a] = [j EXCEPT !.left = @ \ {g}, !.failed = @ \union {}]]
    BY <1>7, <2>1 DEF Set
  <2>3. QED BY <1>5, <1>7, <2>2
<1>8. ASSUME NEW g \in j.left, UNCHANGED claim,
             Set(a, [j EXCEPT !.left = @ \ {g}, !.failed = @ \union {g}])
      PROVE  CookbookInv'
  <2>1. claim' = [claim EXCEPT ![g] = claim[g]]
    BY <1>0, <1>8 DEF FleetTyped
  <2>2. QED BY <1>5, <1>8, <2>1 DEF Set
<1>9. QED BY <1>4, <1>6, <1>7, <1>8 DEF TearDown

-----------------------------------------------------------------------------
(* A unit's share of an apply.                                             *)

\* i becomes j: the share of u is w now, and what is in F has failed.
ShareMoved(i, j, u, w, F) ==
    /\ j \in Job /\ j.phase = i.phase /\ j.want = i.want /\ j.left = i.left
    /\ j.failed = i.failed \union F
    /\ \A v \in Units : j.unit[v] = IF v = u THEN w ELSE i.unit[v]

\* A share goes on.
LEMMA SharesGoOn ==
    ASSUME NEW i \in Job, NEW u \in Units, NEW w \in Work
    PROVE  ShareMoved(i, [i EXCEPT !.unit[u] = w], u, w, {})
<1>1. [i EXCEPT !.unit[u] = w] \in
         [phase : {i.phase}, want : {i.want}, unit : {[i.unit EXCEPT ![u] = w]},
          left : {i.left}, failed : {i.failed}]
  BY DEF Job
<1>2. i.unit \in [Units -> Work]
  BY JobFields
<1>3. [i.unit EXCEPT ![u] = w] \in [Units -> Work]
  BY <1>2
<1> DEFINE j == [i EXCEPT !.unit[u] = w]
<1>4. j \in Job
  BY <1>1, <1>3, JobFields DEF Job
<1> HIDE DEF j
<1>5. QED BY <1>1, <1>2, <1>4 DEF ShareMoved, j

\* A share goes on, and the unit is among what has failed.
LEMMA SharesFail ==
    ASSUME NEW i \in Job, NEW u \in Units, NEW w \in Work
    PROVE  ShareMoved(i, [i EXCEPT !.unit[u] = w, !.failed = @ \union {u}], u, w, {u})
<1>1. [i EXCEPT !.unit[u] = w, !.failed = @ \union {u}] \in
         [phase : {i.phase}, want : {i.want}, unit : {[i.unit EXCEPT ![u] = w]},
          left : {i.left}, failed : {i.failed \union {u}}]
  BY DEF Job
<1>2. i.unit \in [Units -> Work] /\ i.failed \union {u} \subseteq Groups \union Units
  BY JobFields
<1>3. [i.unit EXCEPT ![u] = w] \in [Units -> Work]
  BY <1>2
<1> DEFINE j == [i EXCEPT !.unit[u] = w, !.failed = @ \union {u}]
<1>4. j \in Job
  BY <1>1, <1>2, <1>3, JobFields DEF Job
<1> HIDE DEF j
<1>5. QED BY <1>1, <1>2, <1>4 DEF ShareMoved, j

\* A unit that is at its share is one that the state gives something, and its share is
\* sound.
LEMMA ShareIs ==
    ASSUME CookbookInv, NEW a \in Applies, NEW u \in Units,
           jobs[a].unit[u].at \notin {"none", "end"}
    PROVE  /\ jobs[a] \in Job /\ jobs[a].phase = "units" /\ Live(a)
           /\ jobs[a].unit[u] \in Work
           /\ u \in Plain(jobs[a].want) /\ ShareSound(jobs[a], u)
           /\ jobs[a].want.units[u] \subseteq Catalog[u]
           /\ jobs[a].want.units[u] \subseteq Models
<1>1. jobs[a] \in Job /\ InPhase(jobs[a])
  BY DEF CookbookInv, BookTyped, OneApply
<1>2. jobs[a].phase \in Phase /\ jobs[a].want \in State /\ jobs[a].unit \in [Units -> Work]
  BY <1>1, JobFields
<1>3. jobs[a].phase = "units" /\ u \in Plain(jobs[a].want)
  BY <1>1, <1>2 DEF InPhase, Phase
<1>4. Live(a)
  BY <1>3 DEF Live
<1>5. QED BY <1>1, <1>2, <1>3, <1>4, GivenIsListed DEF CookbookInv, UnitsSound

\* A share goes on soundly; the other units are left alone.
LEMMA ShareKeeps ==
    ASSUME CookbookInv, NEW a \in Applies, NEW u \in Units,
           jobs[a].unit[u].at \notin {"none", "end"},
           NEW j, NEW w, NEW F \in SUBSET {u}, ShareMoved(jobs[a], j, u, w, F), Set(a, j),
           Keep, FleetTyped', UNCHANGED claim, disturbed' \in {disturbed, disturbed \union {u}},
           \A v \in Units \ {u} : served'[v] = served[v] /\ leaving'[v] = leaving[v],
           w.at # "none", Aimed(jobs[a].want.units[u], w),
           \/ u \in disturbed'
           \/ Stands(served'[u], leaving'[u], jobs[a].want.units[u], w,
                     u \in jobs[a].failed \union F)
    PROVE  CookbookInv'
<1> DEFINE i == jobs[a]
<1>1. /\ i \in Job /\ i.phase = "units" /\ Live(a) /\ u \in Plain(i.want)
  BY ShareIs
<1>2. /\ InPhase(i) /\ \A b \in Applies : Live(b) => b = a
  BY <1>1, TheOne
<1>3. /\ j \in Job /\ j.phase = "units" /\ j.want = i.want /\ j.left = i.left
      /\ j.failed = i.failed \union F
      /\ \A v \in Units : j.unit[v] = IF v = u THEN w ELSE i.unit[v]
  BY <1>1 DEF ShareMoved
<1>4. InPhase(j)
  BY <1>1, <1>2, <1>3 DEF InPhase
<1>5. ASSUME NEW v \in Plain(j.want)
      PROVE  /\ Aimed(j.want.units[v], j.unit[v])
             /\ \/ v \in disturbed'
                \/ Stands(served'[v], leaving'[v], j.want.units[v], j.unit[v], v \in j.failed)
  <2>1. CASE v = u
    BY <1>1, <1>3, <2>1
  <2>2. CASE v # u
    <3>1. ShareSound(i, v) /\ v \in Units
      BY <1>1, <1>3 DEF CookbookInv, UnitsSound, Plain
    <3>2. /\ j.unit[v] = i.unit[v] /\ (v \in j.failed <=> v \in i.failed)
          /\ served'[v] = served[v] /\ leaving'[v] = leaving[v]
      BY <1>3, <2>2, <3>1
    <3>3. QED BY <1>3, <3>1, <3>2 DEF ShareSound
  <2>3. QED BY <2>1, <2>2
<1>6. ASSUME NEW g \in Groups
      PROVE  Members[g] \intersect disturbed' # {} \/ GroupDone(claim'[g], j, g)
  <2>1. Members[g] \intersect disturbed # {} \/ GroupDone(claim[g], i, g)
    BY <1>1 DEF CookbookInv, GroupsSound
  <2>2. QED BY <1>1, <1>3, <2>1 DEF GroupDone
<1> HIDE DEF i
<1>7. QED BY <1>2, <1>3, <1>4, <1>5, <1>6, ApplyMoves DEF i

\* Only the jobs have moved, and who is disturbed.
LEMMA FleetStays ==
    ASSUME CookbookInv, NEW u \in Units, UNCHANGED fleet,
           disturbed' \in {disturbed, disturbed \union {u}}
    PROVE  /\ FleetTyped' /\ UNCHANGED claim
           /\ \A v \in Units : served'[v] = served[v] /\ leaving'[v] = leaving[v]
BY DEF CookbookInv, FleetTyped, Claims, fleet

\* A share that is set.
LEMMA SetUnitMoves ==
    ASSUME CookbookInv, NEW a \in Applies, NEW u \in Units, NEW w \in Work, SetUnit(a, u, w)
    PROVE  \E j : Set(a, j) /\ ShareMoved(jobs[a], j, u, w, {})
<1>1. jobs[a] \in Job
  BY DEF CookbookInv, BookTyped
<1>2. Set(a, [jobs[a] EXCEPT !.unit[u] = w])
  BY DEF SetUnit, Set
<1>3. QED BY <1>1, <1>2, SharesGoOn

\* A share that is set goes on soundly.
LEMMA ShareGoesOn ==
    ASSUME CookbookInv, NEW a \in Applies, NEW u \in Units,
           jobs[a].unit[u].at \notin {"none", "end"},
           NEW w \in Work, SetUnit(a, u, w), w.at # "none",
           Keep, FleetTyped', UNCHANGED claim, disturbed' \in {disturbed, disturbed \union {u}},
           \A v \in Units \ {u} : served'[v] = served[v] /\ leaving'[v] = leaving[v],
           Aimed(jobs[a].want.units[u], w),
           \/ u \in disturbed'
           \/ Stands(served'[u], leaving'[u], jobs[a].want.units[u], w, u \in jobs[a].failed)
    PROVE  CookbookInv'
<1>1. PICK j : Set(a, j) /\ ShareMoved(jobs[a], j, u, w, {})
  BY SetUnitMoves
<1>2. {} \in SUBSET {u} /\ (u \in jobs[a].failed \union {} <=> u \in jobs[a].failed)
  OBVIOUS
<1>3. QED BY <1>1, <1>2, ShareKeeps

\* What a node shows of what it runs.
LEMMA SeenIs ==
    ASSUME FleetTyped, NEW u \in Units, NEW seen \in Statuses(u)
    PROVE  /\ seen \subseteq Models \union Wide
           /\ seen = Residents(u) => /\ served[u] \subseteq seen
                                     /\ seen \intersect Models = served[u]
<1>1. Spanning(u) \subseteq Wide
  BY DEF FleetTyped, Spanning, Claims
<1>2. served[u] \subseteq Models
  BY DEF FleetTyped
<1>3. QED BY <1>1, <1>2, CookbookAssumption DEF Statuses, Residents

\* The share's first look at its unit: what is there is right, in the way, or hidden.
LEMMA ReadStatusKeeps ==
    ASSUME CookbookInv, NEW a \in Applies, NEW u \in Units, ReadStatus(a, u)
    PROVE  CookbookInv'
<1> DEFINE w == jobs[a].unit[u]
           want == jobs[a].want.units[u]
           S == served[u]
<1>0. /\ w.at = "status" /\ Keep /\ UNCHANGED fleet
  BY DEF ReadStatus
<1>1. /\ jobs[a] \in Job /\ w \in Work /\ ShareSound(jobs[a], u) /\ want \subseteq Models
      /\ u \in Plain(jobs[a].want)
  BY <1>0, ShareIs
<1>2. PICK seen \in Statuses(u) :
         /\ SetUnit(a, u, [w EXCEPT !.at = "unload",
                                    !.extras = IF NeedsRebuild(want \ seen, seen)
                                               THEN seen ELSE seen \ want,
                                    !.missing = IF NeedsRebuild(want \ seen, seen)
                                                THEN want ELSE want \ seen])
         /\ Misled(u, seen # Residents(u) \/ leaving[u] # {})
  BY DEF ReadStatus
<1> DEFINE x == [w EXCEPT !.at = "unload",
                          !.extras = IF NeedsRebuild(want \ seen, seen)
                                     THEN seen ELSE seen \ want,
                          !.missing = IF NeedsRebuild(want \ seen, seen)
                                      THEN want ELSE want \ seen]
           rebuild == NeedsRebuild(want \ seen, seen)
<1>3. /\ seen \subseteq Models \union Wide
      /\ seen = Residents(u) => S \subseteq seen /\ seen \intersect Models = S
  BY SeenIs DEF CookbookInv
<1>4. w.freed = {} /\ w.freed \subseteq Models \union Wide /\ w.kept \subseteq Models \union Wide
  BY <1>0, <1>1, WorkFields DEF ShareSound, Aimed
<1>5. /\ x.at = "unload" /\ x.extras = (IF rebuild THEN seen ELSE seen \ want)
      /\ x.missing = (IF rebuild THEN want ELSE want \ seen)
      /\ x.freed = {} /\ x.kept = w.kept /\ x.cur = w.cur
  BY <1>1, <1>4 DEF Work
<1>6. x \in Work
  BY <1>1, <1>3 DEF Work
<1> HIDE DEF x, w, want, S
<1>7. Aimed(want, x)
  BY <1>5 DEF Aimed, Ahead
<1>8. ASSUME seen = Residents(u), leaving[u] = {}
      PROVE  \A f : Stands(S, leaving[u], want, x, f)
  <2>1. Going(x) = x.extras
    BY <1>5 DEF Going
  <2>2. want \ x.missing \subseteq S \ Going(x)
    BY <1>1, <1>3, <1>5, <1>8, <2>1
  <2>3. S \subseteq Going(x) \union (IF x.missing \intersect Lone = {} THEN want ELSE {})
    <3>1. CASE rebuild
      BY <1>3, <1>5, <1>8, <2>1, <3>1
    <3>2. CASE ~rebuild
      BY <1>3, <1>5, <1>8, <2>1, <3>2 DEF NeedsRebuild
    <3>3. QED BY <3>1, <3>2
  <2>4. Stops(S, leaving[u], want, x)
    BY <1>5, <1>8, <2>2, <2>3 DEF Stops
  <2>5. QED BY <1>5, <2>4 DEF Stands
<1>9. disturbed' \in {disturbed, disturbed \union {u}}
  BY <1>2 DEF Misled
<1>10. u \in disturbed' \/ (seen = Residents(u) /\ leaving[u] = {})
  BY <1>2 DEF Misled
<1>11. /\ FleetTyped' /\ UNCHANGED claim
       /\ \A v \in Units : served'[v] = served[v] /\ leaving'[v] = leaving[v]
  BY <1>0, <1>9, FleetStays
<1>12. SetUnit(a, u, x)
  BY <1>2 DEF x, w, want
<1>13. \/ u \in disturbed'
       \/ Stands(served'[u], leaving'[u], want, x, u \in jobs[a].failed)
  BY <1>8, <1>10, <1>11 DEF S
<1>14. w.at \notin {"none", "end"} /\ x.at # "none"
  BY <1>0, <1>5
<1>15. QED BY <1>0, <1>6, <1>7, <1>9, <1>11, <1>12, <1>13, <1>14, ShareGoesOn DEF w, want

\* The next model in the way: a lease keeps it, or it is told to stop.
LEMMA NextExtraKeeps ==
    ASSUME CookbookInv, NEW a \in Applies, NEW u \in Units, NextExtra(a, u)
    PROVE  CookbookInv'
<1> DEFINE w == jobs[a].unit[u]
           want == jobs[a].want.units[u]
           S == served[u]
           L == leaving[u]
<1>0. /\ w.at = "unload" /\ Keep /\ UNCHANGED fleet /\ UNCHANGED disturbed
  BY DEF NextExtra
<1>1. jobs[a] \in Job /\ w \in Work /\ ShareSound(jobs[a], u)
  BY <1>0, ShareIs
<1>2. Aimed(want, w) /\ (u \in disturbed \/ Stops(S, L, want, w))
  BY <1>0, <1>1 DEF ShareSound, Stands
<1>3. /\ FleetTyped' /\ UNCHANGED claim
      /\ \A v \in Units : served'[v] = served[v] /\ leaving'[v] = leaving[v]
  BY <1>0, FleetStays
<1>4. ASSUME NEW x \in Work, SetUnit(a, u, x), x.at \notin {"none", "end"}, Aimed(want, x),
             \A f : Stops(S, L, want, w) => Stands(S, L, want, x, f)
      PROVE  CookbookInv'
  <2>1. \/ u \in disturbed'
        \/ Stands(served'[u], leaving'[u], want, x, u \in jobs[a].failed)
    BY <1>0, <1>2, <1>3, <1>4
  <2>2. /\ w.at \notin {"none", "end"} /\ x.at # "none" /\ Keep
        /\ disturbed' \in {disturbed, disturbed \union {u}}
    BY <1>0, <1>4
  <2> HIDE DEF w, want, S, L
  <2>3. QED BY <1>3, <1>4, <2>1, <2>2, ShareGoesOn DEF w, want
<1>5. ASSUME w.extras = {}, SetUnit(a, u, [w EXCEPT !.at = IF w.freed = {} THEN "load" ELSE "wait"])
      PROVE  CookbookInv'
  <2> DEFINE x == [w EXCEPT !.at = IF w.freed = {} THEN "load" ELSE "wait"]
  <2>1. /\ x.at = (IF w.freed = {} THEN "load" ELSE "wait")
        /\ x.extras = {} /\ x.missing = w.missing /\ x.freed = w.freed /\ x.kept = w.kept
        /\ x.cur = w.cur
    BY <1>1, <1>5 DEF Work
  <2>2. x \in Work
    BY <1>1 DEF Work
  <2> HIDE DEF x, w, want, S, L
  <2>3. Aimed(want, x)
    BY <1>0, <1>2, <2>1 DEF Aimed, Ahead
  <2>4. ASSUME Stops(S, L, want, w), NEW f PROVE Stands(S, L, want, x, f)
    <3>1. Going(w) = w.freed /\ Going(x) = w.freed
      BY <1>0, <1>5, <2>1 DEF Going
    <3>2. CASE w.freed = {}
      <4>1. x.at = "load" /\ Ahead(x) = w.missing
        BY <2>1, <3>2 DEF Ahead
      <4>2. Starts(S, L, want, x, f)
        BY <2>1, <2>4, <3>1, <3>2, <4>1 DEF Stops, Starts
      <4>3. QED BY <4>1, <4>2 DEF Stands
    <3>3. CASE w.freed # {}
      <4>1. x.at = "wait"
        BY <2>1, <3>3
      <4>2. Stops(S, L, want, x)
        BY <2>1, <2>4, <3>1 DEF Stops
      <4>3. QED BY <4>1, <4>2 DEF Stands
    <3>4. QED BY <3>2, <3>3
  <2>5. SetUnit(a, u, x)
    BY <1>5 DEF x, w
  <2>6. QED BY <1>4, <2>1, <2>2, <2>3, <2>4, <2>5
<1>6. ASSUME NEW m \in w.extras,
             SetUnit(a, u, [w EXCEPT !.extras = @ \ {m}, !.kept = @ \union {m}])
      PROVE  CookbookInv'
  <2> DEFINE x == [w EXCEPT !.extras = @ \ {m}, !.kept = @ \union {m}]
  <2>1. /\ x.at = "unload" /\ x.extras = w.extras \ {m} /\ x.missing = w.missing
        /\ x.freed = w.freed /\ x.kept = w.kept \union {m} /\ x.cur = w.cur
    BY <1>0, <1>1 DEF Work
  <2>2. x \in Work
    BY <1>1 DEF Work
  <2> HIDE DEF x, w, want, S, L
  <2>3. Aimed(want, x)
    BY <1>0, <1>2, <2>1 DEF Aimed, Ahead
  <2>4. ASSUME Stops(S, L, want, w), NEW f PROVE Stands(S, L, want, x, f)
    <3>1. Going(w) = w.extras \union w.freed /\ Going(x) = (w.extras \ {m}) \union w.freed
      BY <1>0, <2>1 DEF Going
    <3>2. Stops(S, L, want, x)
      BY <2>1, <2>4, <3>1 DEF Stops
    <3>3. QED BY <2>1, <3>2 DEF Stands
  <2>5. SetUnit(a, u, x)
    BY <1>6 DEF x, w
  <2>6. QED BY <1>4, <2>1, <2>2, <2>3, <2>4, <2>5
<1>7. ASSUME NEW m \in w.extras,
             SetUnit(a, u, [w EXCEPT !.extras = @ \ {m}, !.at = "stop", !.cur = m])
      PROVE  CookbookInv'
  <2> DEFINE x == [w EXCEPT !.extras = @ \ {m}, !.at = "stop", !.cur = m]
  <2>1. /\ x.at = "stop" /\ x.extras = w.extras \ {m} /\ x.missing = w.missing
        /\ x.freed = w.freed /\ x.kept = w.kept /\ x.cur = m
    BY <1>1 DEF Work
  <2>2. m \in Models \union Wide
    BY <1>1, WorkFields
  <2>3. x \in Work /\ m # None
    BY <1>1, <2>2, CookbookAssumption DEF Work
  <2> HIDE DEF x, w, want, S, L
  <2>4. Aimed(want, x)
    BY <1>0, <1>2, <2>1, <2>3 DEF Aimed, Ahead
  <2>5. ASSUME Stops(S, L, want, w), NEW f PROVE Stands(S, L, want, x, f)
    <3>1. Going(w) = w.extras \union w.freed /\ Going(x) = Going(w)
      BY <1>0, <1>7, <2>1 DEF Going
    <3>2. Stops(S, L, want, x)
      BY <2>1, <2>5, <3>1 DEF Stops
    <3>3. QED BY <2>1, <3>2 DEF Stands
  <2>6. SetUnit(a, u, x)
    BY <1>7 DEF x, w
  <2>7. QED BY <1>4, <2>1, <2>3, <2>4, <2>5, <2>6
<1>8. QED BY <1>5, <1>6, <1>7 DEF NextExtra

\* An unload that is refused ends the unit's share, as a failure.
LEMMA UnloadRaisesKeeps ==
    ASSUME CookbookInv, NEW a \in Applies, NEW u \in Units, UnloadRaises(a, u)
    PROVE  CookbookInv'
<1> DEFINE w == jobs[a].unit[u]
           want == jobs[a].want.units[u]
           x == [NoWork EXCEPT !.at = "end"]
           k == [jobs[a] EXCEPT !.unit[u] = x, !.failed = @ \union {u}]
<1>0. /\ w.at = "stop" /\ Keep /\ UNCHANGED fleet /\ UNCHANGED disturbed
      /\ Set(a, k)
  BY DEF UnloadRaises, Set
<1>1. jobs[a] \in Job
  BY <1>0, ShareIs
<1>2. /\ x \in Work /\ x.at = "end" /\ x.missing = {}
  BY NoWorkIsWork DEF NoWork, Work
<1> HIDE DEF x
<1>3. ShareMoved(jobs[a], k, u, x, {u})
  BY <1>1, <1>2, SharesFail
<1>4. /\ FleetTyped' /\ UNCHANGED claim
      /\ \A v \in Units : served'[v] = served[v] /\ leaving'[v] = leaving[v]
  BY <1>0, FleetStays
<1>5. Aimed(want, x) /\ Stands(served'[u], leaving'[u], want, x, u \in jobs[a].failed \union {u})
  BY <1>2 DEF Aimed, Ahead, Stands, Ends
<1>6. w.at \notin {"none", "end"} /\ x.at # "none"
  BY <1>0, <1>2
<1> HIDE DEF k, want
<1>7. QED BY <1>0, <1>3, <1>4, <1>5, <1>6, ShareKeeps DEF want

\* The model that was told to stop is on its way out, or has swallowed that.
LEMMA UnloadKeeps ==
    ASSUME CookbookInv, NEW a \in Applies, NEW u \in Units, Unload(a, u)
    PROVE  CookbookInv'
<1> DEFINE w == jobs[a].unit[u]
           want == jobs[a].want.units[u]
           S == served[u]
           L == leaving[u]
           x == [w EXCEPT !.at = "unload", !.freed = @ \union {w.cur}, !.cur = None]
<1>0. /\ w.at = "stop" /\ Keep /\ UNCHANGED <<served, claim, shield, disturbed>>
      /\ SetUnit(a, u, x)
      /\ \/ leaving' = [leaving EXCEPT ![u] = @ \union ({w.cur} \intersect S)]
         \/ UNCHANGED leaving
  BY DEF Unload
<1>1. jobs[a] \in Job /\ w \in Work /\ ShareSound(jobs[a], u) /\ FleetTyped
  BY <1>0, ShareIs DEF CookbookInv
<1>2. Aimed(want, w) /\ (u \in disturbed \/ Stops(S, L, want, w))
  BY <1>0, <1>1 DEF ShareSound, Stands
<1>3. w.cur \in Models \union Wide
  BY <1>0, <1>1, <1>2, WorkFields DEF Aimed
<1>4. /\ x.at = "unload" /\ x.extras = w.extras /\ x.missing = w.missing
      /\ x.freed = w.freed \union {w.cur} /\ x.kept = w.kept
  BY <1>1 DEF Work
<1>5. x \in Work
  BY <1>1, <1>3 DEF Work
<1>6. /\ leaving' \in [Units -> SUBSET Models]
      /\ \A v \in Units : leaving'[v] \subseteq served[v]
      /\ \A v \in Units \ {u} : leaving'[v] = leaving[v]
      /\ leaving'[u] \subseteq L \union {w.cur}
  BY <1>0, <1>1 DEF FleetTyped
<1>7. FleetTyped'
  BY <1>0, <1>1, <1>6 DEF FleetTyped, Claims
<1> HIDE DEF x, w, want, S, L
<1>8. Aimed(want, x)
  BY <1>0, <1>2, <1>4 DEF Aimed, Ahead
<1>9. ASSUME Stops(S, L, want, w), NEW f PROVE Stands(S, leaving'[u], want, x, f)
  <2>1. /\ Going(w) = w.extras \union w.freed \union {w.cur}
        /\ Going(x) = Going(w)
    BY <1>0, <1>4 DEF Going
  <2>2. Stops(S, leaving'[u], want, x)
    BY <1>4, <1>6, <1>9, <2>1 DEF Stops
  <2>3. QED BY <1>4, <2>2 DEF Stands
<1>10. SetUnit(a, u, x) /\ x \in Work
  BY <1>0, <1>5
<1>11. \/ u \in disturbed'
       \/ Stands(served'[u], leaving'[u], want, x, u \in jobs[a].failed)
  BY <1>0, <1>2, <1>9 DEF S
<1>12. w.at \notin {"none", "end"} /\ x.at # "none"
  BY <1>0, <1>4
<1>13. /\ \A v \in Units \ {u} : served'[v] = served[v] /\ leaving'[v] = leaving[v]
       /\ UNCHANGED claim /\ disturbed' \in {disturbed, disturbed \union {u}} /\ Keep
  BY <1>0, <1>6
<1>14. QED BY <1>7, <1>8, <1>10, <1>11, <1>12, <1>13, ShareGoesOn DEF w, want

\* Of what was told to stop nothing is seen any more, or the wait was given up.
LEMMA WaitUnloadedKeeps ==
    ASSUME CookbookInv, NEW a \in Applies, NEW u \in Units, WaitUnloaded(a, u)
    PROVE  CookbookInv'
<1> DEFINE w == jobs[a].unit[u]
           want == jobs[a].want.units[u]
           S == served[u]
           L == leaving[u]
           x == [w EXCEPT !.at = "load", !.freed = {}]
<1>0. /\ w.at = "wait" /\ Keep /\ UNCHANGED fleet
      /\ SetUnit(a, u, x)
      /\ \/ \E seen \in Statuses(u) :
               Settled(seen, w.freed) /\ Misled(u, seen # Residents(u))
         \/ Misled(u, TRUE)
  BY DEF WaitUnloaded
<1>1. jobs[a] \in Job /\ w \in Work /\ ShareSound(jobs[a], u) /\ FleetTyped
  BY <1>0, ShareIs DEF CookbookInv
<1>2. Aimed(want, w) /\ (u \in disturbed \/ Stops(S, L, want, w))
  BY <1>0, <1>1 DEF ShareSound, Stands
<1>3. /\ x.at = "load" /\ x.extras = w.extras /\ x.missing = w.missing
      /\ x.freed = {} /\ x.kept = w.kept /\ x \in Work
  BY <1>1 DEF Work
<1>4. disturbed' \in {disturbed, disturbed \union {u}}
  BY <1>0 DEF Misled
<1>5. u \in disturbed' \/ (S \intersect w.freed = {} /\ disturbed' = disturbed)
  BY <1>0, <1>1, SeenIs DEF Misled, Settled
<1>6. L \subseteq S
  BY <1>1 DEF FleetTyped
<1>7. /\ FleetTyped' /\ UNCHANGED claim
      /\ \A v \in Units : served'[v] = served[v] /\ leaving'[v] = leaving[v]
  BY <1>0, <1>4, FleetStays
<1> HIDE DEF x, w, want, S, L
<1>8. Aimed(want, x)
  BY <1>0, <1>2, <1>3 DEF Aimed, Ahead
<1>9. ASSUME Stops(S, L, want, w), S \intersect w.freed = {}, NEW f
      PROVE  Stands(S, L, want, x, f)
  <2>1. Going(w) = w.freed /\ Ahead(x) = w.missing
    BY <1>0, <1>3, <1>9 DEF Going, Stops, Ahead
  <2>2. Starts(S, L, want, x, f)
    BY <1>3, <1>6, <1>9, <2>1 DEF Stops, Starts
  <2>3. QED BY <1>3, <2>2 DEF Stands
<1>10. SetUnit(a, u, x) /\ x \in Work
  BY <1>0, <1>3
<1>11. \/ u \in disturbed'
       \/ Stands(served'[u], leaving'[u], want, x, u \in jobs[a].failed)
  BY <1>2, <1>5, <1>7, <1>9 DEF S, L
<1>12. w.at \notin {"none", "end"} /\ x.at # "none"
  BY <1>0, <1>3
<1>13. QED BY <1>0, <1>4, <1>7, <1>8, <1>10, <1>11, <1>12, ShareGoesOn DEF w, want

\* The next model to be loaded: of those that must be alone first.
LEMMA NextLoadKeeps ==
    ASSUME CookbookInv, NEW a \in Applies, NEW u \in Units, NextLoad(a, u)
    PROVE  CookbookInv'
<1> DEFINE w == jobs[a].unit[u]
           want == jobs[a].want.units[u]
           S == served[u]
           L == leaving[u]
<1>0. /\ w.at = "load" /\ Keep /\ UNCHANGED fleet /\ UNCHANGED disturbed
  BY DEF NextLoad
<1>1. jobs[a] \in Job /\ w \in Work /\ ShareSound(jobs[a], u)
  BY <1>0, ShareIs
<1>2. /\ Aimed(want, w) /\ w.missing \subseteq Models
      /\ u \in disturbed \/ Starts(S, L, want, w, u \in jobs[a].failed)
  BY <1>0, <1>1, WorkFields DEF ShareSound, Stands
<1>3. /\ FleetTyped' /\ UNCHANGED claim
      /\ \A v \in Units : served'[v] = served[v] /\ leaving'[v] = leaving[v]
  BY <1>0, FleetStays
<1>4. ASSUME NEW x \in Work, SetUnit(a, u, x), x.at # "none", Aimed(want, x),
             \A f : Starts(S, L, want, w, f) => Stands(S, L, want, x, f)
      PROVE  CookbookInv'
  <2>1. \/ u \in disturbed'
        \/ Stands(served'[u], leaving'[u], want, x, u \in jobs[a].failed)
    BY <1>0, <1>2, <1>3, <1>4
  <2>2. /\ w.at \notin {"none", "end"} /\ Keep
        /\ disturbed' \in {disturbed, disturbed \union {u}}
    BY <1>0
  <2> HIDE DEF w, want, S, L
  <2>3. QED BY <1>3, <1>4, <2>1, <2>2, ShareGoesOn DEF w, want
<1>5. ASSUME w.missing = {}, SetUnit(a, u, [w EXCEPT !.at = "end"])
      PROVE  CookbookInv'
  <2> DEFINE x == [w EXCEPT !.at = "end"]
  <2>1. x.at = "end" /\ x.missing = {} /\ x.kept = w.kept /\ x \in Work
    BY <1>1, <1>5 DEF Work
  <2> HIDE DEF x, w, want, S, L
  <2>2. Aimed(want, x)
    BY <2>1 DEF Aimed, Ahead
  <2>3. ASSUME NEW f, Starts(S, L, want, w, f) PROVE Stands(S, L, want, x, f)
    BY <1>0, <1>5, <2>1, <2>3 DEF Starts, Ahead, Stands, Ends
  <2>4. SetUnit(a, u, x)
    BY <1>5 DEF x, w
  <2>5. QED BY <1>4, <2>1, <2>2, <2>3, <2>4
<1>6. ASSUME NEW m \in w.missing, \A n \in w.missing : ~Earlier(n, m),
             SetUnit(a, u, [w EXCEPT !.at = "loading", !.missing = @ \ {m}, !.cur = m])
      PROVE  CookbookInv'
  <2> DEFINE x == [w EXCEPT !.at = "loading", !.missing = @ \ {m}, !.cur = m]
  <2>1. /\ x.at = "loading" /\ x.missing = w.missing \ {m} /\ x.kept = w.kept /\ x.cur = m
    BY <1>1 DEF Work
  <2>2. x \in Work
    BY <1>1, <1>2 DEF Work
  <2> HIDE DEF x, w, want, S, L
  <2>3. Ahead(x) = Ahead(w)
    BY <1>0, <1>6, <2>1 DEF Ahead
  <2>4. Aimed(want, x)
    BY <1>2, <2>1, <2>3 DEF Aimed
  <2>5. x.missing \intersect Lone # {} => m \in Lone
    BY <1>6, <2>1 DEF Earlier
  <2>6. ASSUME NEW f, Starts(S, L, want, w, f) PROVE Stands(S, L, want, x, f)
    <3>1. Starts(S, L, want, x, f)
      BY <2>1, <2>3, <2>5, <2>6 DEF Starts
    <3>2. QED BY <2>1, <3>1 DEF Stands
  <2>7. SetUnit(a, u, x)
    BY <1>6 DEF x, w
  <2>8. QED BY <1>4, <2>1, <2>2, <2>4, <2>6, <2>7
<1>7. QED BY <1>5, <1>6 DEF NextLoad

\* A load that has succeeded: the unit serves one more of what it is given.
LEMMA LoadedKeeps ==
    ASSUME CookbookInv, NEW a \in Applies, NEW u \in Units, Loaded(a, u)
    PROVE  CookbookInv'
<1> DEFINE w == jobs[a].unit[u]
           want == jobs[a].want.units[u]
           S == served[u]
           L == leaving[u]
           x == [w EXCEPT !.at = "load", !.cur = None]
<1>0. /\ w.at = "loading" /\ Keep /\ UNCHANGED <<leaving, claim, shield, disturbed>>
      /\ served' = [served EXCEPT ![u] = @ \union {w.cur}] /\ SetUnit(a, u, x)
  BY DEF Loaded
<1>1. /\ jobs[a] \in Job /\ w \in Work /\ ShareSound(jobs[a], u) /\ FleetTyped
      /\ want \subseteq Catalog[u] /\ want \subseteq Models
  BY <1>0, ShareIs DEF CookbookInv
<1>2. /\ Aimed(want, w)
      /\ u \in disturbed \/ Starts(S, L, want, w, u \in jobs[a].failed)
  BY <1>0, <1>1 DEF ShareSound, Stands
<1>3. w.cur \in want /\ w.cur \notin w.missing
  BY <1>0, <1>2 DEF Aimed, Ahead
<1>4. /\ x.at = "load" /\ x.missing = w.missing /\ x.kept = w.kept /\ x \in Work
  BY <1>1 DEF Work
<1>5. \A v \in Units : served'[v] = IF v = u THEN S \union {w.cur} ELSE served[v]
  BY <1>0, <1>1 DEF FleetTyped
<1>6. FleetTyped'
  BY <1>0, <1>1, <1>3, <1>5 DEF FleetTyped, Claims
<1> HIDE DEF x, w, want, S, L
<1>7. Aimed(want, x)
  BY <1>0, <1>2, <1>4 DEF Aimed, Ahead
<1>8. ASSUME NEW f, Starts(S, L, want, w, f) PROVE Stands(S \union {w.cur}, L, want, x, f)
  <2>1. Ahead(w) = w.missing \union {w.cur} /\ Ahead(x) = w.missing
    BY <1>0, <1>4 DEF Ahead
  <2>2. Starts(S \union {w.cur}, L, want, x, f)
    BY <1>0, <1>3, <1>4, <1>8, <2>1 DEF Starts
  <2>3. QED BY <1>4, <2>2 DEF Stands
<1>9. SetUnit(a, u, x) /\ x \in Work
  BY <1>0, <1>4
<1>10. \/ u \in disturbed'
       \/ Stands(served'[u], leaving'[u], want, x, u \in jobs[a].failed)
  BY <1>0, <1>2, <1>5, <1>8 DEF L
<1>11. w.at \notin {"none", "end"} /\ x.at # "none"
  BY <1>0, <1>4
<1>12. /\ \A v \in Units \ {u} : served'[v] = served[v] /\ leaving'[v] = leaving[v]
       /\ UNCHANGED claim /\ disturbed' \in {disturbed, disturbed \union {u}} /\ Keep
  BY <1>0, <1>5
<1>13. QED BY <1>6, <1>7, <1>9, <1>10, <1>11, <1>12, ShareGoesOn DEF w, want

\* A load that has failed: the unit is among what failed, and the next model is loaded.
LEMMA LoadFailsKeeps ==
    ASSUME CookbookInv, NEW a \in Applies, NEW u \in Units, LoadFails(a, u)
    PROVE  CookbookInv'
<1> DEFINE w == jobs[a].unit[u]
           want == jobs[a].want.units[u]
           S == served[u]
           L == leaving[u]
           x == [w EXCEPT !.at = "load", !.cur = None]
           k == [jobs[a] EXCEPT !.unit[u] = x, !.failed = @ \union {u}]
<1>0. /\ w.at = "loading" /\ Keep /\ UNCHANGED fleet /\ UNCHANGED disturbed
  BY DEF LoadFails
<1>1. jobs[a] \in Job /\ w \in Work /\ ShareSound(jobs[a], u)
  BY <1>0, ShareIs
<1>2. /\ Aimed(want, w)
      /\ u \in disturbed \/ Starts(S, L, want, w, u \in jobs[a].failed)
  BY <1>0, <1>1 DEF ShareSound, Stands
<1>3. /\ x.at = "load" /\ x.missing = w.missing /\ x.kept = w.kept /\ x \in Work
  BY <1>1 DEF Work
<1>4. Set(a, k)
  BY DEF LoadFails, Set
<1>5. ShareMoved(jobs[a], k, u, x, {u})
  BY <1>1, <1>3, SharesFail
<1>6. /\ FleetTyped' /\ UNCHANGED claim
      /\ \A v \in Units : served'[v] = served[v] /\ leaving'[v] = leaving[v]
  BY <1>0, FleetStays
<1> HIDE DEF k, x, w, want, S, L
<1>7. Aimed(want, x)
  BY <1>0, <1>2, <1>3 DEF Aimed, Ahead
<1>8. ASSUME NEW f, Starts(S, L, want, w, f) PROVE Stands(S, L, want, x, TRUE)
  <2>1. Ahead(w) = w.missing \union {w.cur} /\ Ahead(x) = w.missing
    BY <1>0, <1>3 DEF Ahead
  <2>2. Starts(S, L, want, x, TRUE)
    BY <1>0, <1>3, <1>8, <2>1 DEF Starts
  <2>3. QED BY <1>3, <2>2 DEF Stands
<1>9. \/ u \in disturbed'
      \/ Stands(served'[u], leaving'[u], want, x, u \in jobs[a].failed \union {u})
  BY <1>0, <1>2, <1>6, <1>8 DEF S, L
<1>10. w.at \notin {"none", "end"} /\ x.at # "none"
  BY <1>0, <1>3
<1>11. QED BY <1>0, <1>4, <1>5, <1>6, <1>7, <1>9, <1>10, ShareKeeps DEF w, want

\* Every step of a share.
LEMMA UnitStepKeeps ==
    ASSUME CookbookInv, NEW a \in Applies, NEW u \in Units, UnitStep(a, u)
    PROVE  CookbookInv'
BY ReadStatusKeeps, NextExtraKeeps, UnloadKeeps, UnloadRaisesKeeps, WaitUnloadedKeeps,
   NextLoadKeeps, LoadedKeeps, LoadFailsKeeps DEF UnitStep

-----------------------------------------------------------------------------
(* The end of an apply.                                                    *)

\* When every unit has ended, the groups are loaded.
LEMMA GatheredKeeps ==
    ASSUME CookbookInv, NEW a \in Applies, Gathered(a)
    PROVE  CookbookInv'
<1> DEFINE j == jobs[a]
           k == [j EXCEPT !.phase = "span", !.left = Desired(j.want)]
<1>0. /\ Keep /\ UNCHANGED fleet /\ UNCHANGED disturbed /\ j.phase = "units" /\ Set(a, k)
      /\ \A u \in Units : j.unit[u].at \in {"none", "end"}
  BY DEF Gathered
<1>1. /\ Live(a) /\ \A b \in Applies : Live(b) => b = a
      /\ j \in Job /\ InPhase(j)
  BY <1>0, TheOne
<1>2. k \in [phase : {"span"}, want : {j.want}, unit : {j.unit}, left : {Desired(j.want)},
             failed : {j.failed}]
  BY <1>1 DEF Job
<1>3. Desired(j.want) \subseteq Groups
  BY DEF Desired
<1>4. /\ j.want \in State /\ j.unit \in [Units -> Work]
      /\ j.failed \subseteq Groups \union Units
  BY <1>1, JobFields
<1> HIDE DEF j, k
<1>5. /\ k \in Job /\ k.phase = "span" /\ k.want = j.want /\ k.unit = j.unit
      /\ k.left = Desired(j.want) /\ k.failed = j.failed
  BY <1>2, <1>3, <1>4 DEF Job, Phase
<1>6. InPhase(k)
  BY <1>0, <1>1, <1>5 DEF InPhase
<1>7. FleetTyped'
  BY <1>0 DEF CookbookInv, FleetTyped, Claims, fleet
<1>8. ASSUME NEW u \in Plain(k.want)
      PROVE  /\ Aimed(k.want.units[u], k.unit[u])
             /\ \/ u \in disturbed'
                \/ Stands(served'[u], leaving'[u], k.want.units[u], k.unit[u], u \in k.failed)
  <2>1. ShareSound(j, u)
    BY <1>1, <1>5 DEF CookbookInv, UnitsSound, j
  <2>2. QED BY <1>0, <1>5, <2>1 DEF ShareSound, fleet
<1>9. ASSUME NEW g \in Groups
      PROVE  Members[g] \intersect disturbed' # {} \/ GroupDone(claim'[g], k, g)
  <2>1. Members[g] \intersect disturbed # {} \/ GroupDone(claim[g], j, g)
    BY <1>1 DEF CookbookInv, GroupsSound, j
  <2>2. g \in Desired(j.want) \/ j.want.groups[g] = None
    BY DEF Desired
  <2>3. claim' = claim /\ disturbed' = disturbed
    BY <1>0 DEF fleet
  <2>4. QED BY <1>0, <1>5, <2>1, <2>2, <2>3 DEF GroupDone
<1>10. QED BY <1>0, <1>1, <1>5, <1>6, <1>7, <1>8, <1>9, ApplyMoves

\* A group of the state is loaded: it runs already, it takes its members, or it fails.
LEMMA SpanKeeps ==
    ASSUME CookbookInv, NEW a \in Applies, Span(a)
    PROVE  CookbookInv'
<1> DEFINE j == jobs[a]
<1>0. /\ Keep /\ UNCHANGED <<shield, disturbed>> /\ j.phase = "span" /\ FleetTyped
      /\ leaving' = [u \in Units |-> leaving[u] \intersect served'[u]]
  BY DEF Span, CookbookInv
<1>1. /\ Live(a) /\ \A b \in Applies : Live(b) => b = a
      /\ j \in Job /\ InPhase(j)
  BY <1>0, TheOne
<1>2. ASSUME NEW g \in j.left, NEW F \in {{}, {g}}, NEW m \in {claim[g], None, j.want.groups[g]},
             jobs' = [jobs EXCEPT ![a] = [j EXCEPT !.left = @ \ {g}, !.failed = @ \union F]],
             claim' = [claim EXCEPT ![g] = m],
             m \in {claim[g], None} \/ \A u \in Members[g] : Claims(u) \subseteq {g},
             F = {} => m = j.want.groups[g],
             served' \in [Units -> SUBSET Models],
             \A u \in Units : \/ served'[u] = served[u]
                              \/ u \in Members[g] /\ served'[u] = {}
      PROVE  CookbookInv'
  <2> DEFINE k == [j EXCEPT !.left = @ \ {g}, !.failed = @ \union F]
  <2>0. g \in Groups /\ g \in Desired(j.want)
    BY <1>0, <1>1, JobFields DEF InPhase
  <2>1. k \in [phase : {"span"}, want : {j.want}, unit : {j.unit}, left : {j.left \ {g}},
               failed : {j.failed \union F}]
    BY <1>0, <1>1 DEF Job
  <2>2. /\ j.want \in State /\ j.unit \in [Units -> Work] /\ j.left \ {g} \subseteq Groups
        /\ j.failed \union F \subseteq Groups \union Units
    BY <1>1, <2>0, JobFields
  <2>3. Set(a, k)
    BY <1>2 DEF Set
  <2> HIDE DEF k, j
  <2>4. /\ k \in Job /\ k.phase = "span" /\ k.want = j.want /\ k.unit = j.unit
        /\ k.left = j.left \ {g} /\ k.failed = j.failed \union F
    BY <2>1, <2>2 DEF Job, Phase
  <2>5. InPhase(k)
    BY <1>0, <1>1, <2>4 DEF InPhase
  <2>6. m \in Wide \union {None}
    BY <1>0, <1>2, <2>0, <2>2, StateFields DEF FleetTyped
  <2>7. /\ claim' \in [Groups -> Wide \union {None}] /\ claim'[g] = m
        /\ \A h \in Groups : h # g => claim'[h] = claim[h]
    BY <1>0, <1>2, <2>0, <2>6 DEF FleetTyped
  <2>8. \A u \in Units : \A h, l \in Claims(u)' : h = l
    <3>1. CASE m \in {claim[g], None}
      <4>1. \A u \in Units : Claims(u)' \subseteq Claims(u)
        BY <2>0, <2>7, <3>1 DEF Claims
      <4>2. QED BY <1>0, <4>1 DEF FleetTyped
    <3>2. CASE \A u \in Members[g] : Claims(u) \subseteq {g}
      BY <1>0, <1>2, <2>0, <2>6, <3>2, OneGroupPerUnit
    <3>3. QED BY <1>2, <3>1, <3>2
  <2>9. FleetTyped'
    <3>1. \A u \in Units : leaving'[u] = leaving[u] \intersect served'[u]
      BY <1>0
    <3>2. leaving' \in [Units -> SUBSET Models]
      BY <1>0 DEF FleetTyped
    <3>3. \A u \in Units : served'[u] \subseteq Catalog[u] /\ leaving'[u] \subseteq served'[u]
      BY <1>0, <1>2, <3>1 DEF FleetTyped
    <3>4. QED BY <1>0, <1>2, <2>7, <2>8, <3>2, <3>3 DEF FleetTyped
  <2>10. ASSUME NEW u \in Plain(k.want)
         PROVE  /\ Aimed(k.want.units[u], k.unit[u])
                /\ \/ u \in disturbed'
                   \/ Stands(served'[u], leaving'[u], k.want.units[u], k.unit[u],
                             u \in k.failed)
    <3>1. ShareSound(j, u)
      BY <1>1, <2>4 DEF CookbookInv, UnitsSound, j
    <3>2. u \in Units /\ u \notin Members[g]
      BY <2>0, <2>4 DEF Plain, Reserved
    <3>3. served'[u] = served[u] /\ leaving'[u] = leaving[u]
      BY <1>0, <1>2, <3>2 DEF FleetTyped
    <3>4. k.unit[u].at = "end"
      BY <2>4, <2>5, <3>2 DEF InPhase
    <3>5. \A S, L, want, f : Stands(S, L, want, k.unit[u], f) <=> Ends(S, L, want, k.unit[u], f)
      BY <3>4 DEF Stands
    <3>6. \A S, L, want : Ends(S, L, want, k.unit[u], u \in j.failed) =>
                             Ends(S, L, want, k.unit[u], u \in k.failed)
      BY <2>4 DEF Ends
    <3>7. /\ Aimed(k.want.units[u], k.unit[u])
          /\ \/ u \in disturbed
             \/ Stands(served[u], leaving[u], k.want.units[u], k.unit[u], u \in j.failed)
      BY <2>4, <3>1 DEF ShareSound
    <3>8. QED BY <1>0, <3>3, <3>5, <3>6, <3>7
  <2>11. ASSUME NEW h \in Groups
         PROVE  Members[h] \intersect disturbed' # {} \/ GroupDone(claim'[h], k, h)
    <3>1. Members[h] \intersect disturbed # {} \/ GroupDone(claim[h], j, h)
      BY <1>1 DEF CookbookInv, GroupsSound, j
    <3>2. CASE h = g
      BY <1>2, <2>4, <2>7, <3>2 DEF GroupDone, j
    <3>3. CASE h # g
      <4>1. claim'[h] = claim[h] /\ (h \in k.left <=> h \in j.left)
        BY <2>4, <2>7, <3>3
      <4>2. QED BY <1>0, <2>4, <3>1, <4>1 DEF GroupDone, j
    <3>4. QED BY <3>2, <3>3
  <2>12. QED BY <1>0, <1>1, <2>3, <2>4, <2>5, <2>9, <2>10, <2>11, ApplyMoves
<1>3. PICK g \in j.left :
         \/ /\ claim[g] = j.want.groups[g] /\ UNCHANGED <<served, claim>>
            /\ Set(a, [j EXCEPT !.left = @ \ {g}])
         \/ /\ claim[g] # j.want.groups[g] /\ \A u \in Members[g] : Claims(u) \subseteq {g}
            /\ served' = [u \in Units |-> IF u \in Members[g] /\ TRUE THEN {} ELSE served[u]]
            /\ claim' = [claim EXCEPT ![g] = j.want.groups[g]]
            /\ Set(a, [j EXCEPT !.left = @ \ {g}])
         \/ /\ claim[g] # j.want.groups[g]
            /\ \E freed \in BOOLEAN :
                  served' = [u \in Units |-> IF u \in Members[g] /\ freed THEN {}
                                             ELSE served[u]]
            /\ claim' \in {claim, [claim EXCEPT ![g] = None]}
            /\ Set(a, [[j EXCEPT !.left = @ \ {g}] EXCEPT !.failed = @ \union {g}])
  BY DEF Span
<1>4. /\ g \in Groups /\ claim = [claim EXCEPT ![g] = claim[g]]
      /\ served \in [Units -> SUBSET Models]
  BY <1>0, <1>1, JobFields DEF FleetTyped
<1>5. /\ [j EXCEPT !.left = @ \ {g}] = [j EXCEPT !.left = @ \ {g}, !.failed = @ \union {}]
      /\ [[j EXCEPT !.left = @ \ {g}] EXCEPT !.failed = @ \union {g}] =
            [j EXCEPT !.left = @ \ {g}, !.failed = @ \union {g}]
  BY <1>1, JobFields
<1> HIDE DEF j
<1>6. CASE /\ claim[g] = j.want.groups[g] /\ UNCHANGED <<served, claim>>
           /\ Set(a, [j EXCEPT !.left = @ \ {g}])
  <2>1. /\ jobs' = [jobs EXCEPT ![a] = [j EXCEPT !.left = @ \ {g}, !.failed = @ \union {}]]
        /\ claim' = [claim EXCEPT ![g] = claim[g]]
    BY <1>4, <1>5, <1>6 DEF Set
  <2>2. QED BY <1>2, <1>4, <1>6, <2>1
<1>7. CASE /\ \A u \in Members[g] : Claims(u) \subseteq {g}
           /\ served' = [u \in Units |-> IF u \in Members[g] /\ TRUE THEN {} ELSE served[u]]
           /\ claim' = [claim EXCEPT ![g] = j.want.groups[g]]
           /\ Set(a, [j EXCEPT !.left = @ \ {g}])
  <2>1. jobs' = [jobs EXCEPT ![a] = [j EXCEPT !.left = @ \ {g}, !.failed = @ \union {}]]
    BY <1>5, <1>7 DEF Set
  <2>2. /\ served' \in [Units -> SUBSET Models]
        /\ \A u \in Units : \/ served'[u] = served[u]
                            \/ u \in Members[g] /\ served'[u] = {}
    BY <1>4, <1>7
  <2>3. QED BY <1>2, <1>7, <2>1, <2>2
<1>8. CASE /\ \E freed \in BOOLEAN :
                 served' = [u \in Units |-> IF u \in Members[g] /\ freed THEN {}
                                            ELSE served[u]]
           /\ claim' \in {claim, [claim EXCEPT ![g] = None]}
           /\ Set(a, [[j EXCEPT !.left = @ \ {g}] EXCEPT !.failed = @ \union {g}])
  <2>1. jobs' = [jobs EXCEPT ![a] = [j EXCEPT !.left = @ \ {g}, !.failed = @ \union {g}]]
    BY <1>5, <1>8 DEF Set
  <2>2. /\ served' \in [Units -> SUBSET Models]
        /\ \A u \in Units : \/ served'[u] = served[u]
                            \/ u \in Members[g] /\ served'[u] = {}
    BY <1>4, <1>8
  <2>3. PICK m \in {claim[g], None} : claim' = [claim EXCEPT ![g] = m]
    BY <1>4, <1>8
  <2>4. QED BY <1>2, <2>1, <2>2, <2>3
<1>9. QED BY <1>3, <1>6, <1>7, <1>8

\* An apply that is over leaves nothing behind.
LEMMA CompleteKeeps ==
    ASSUME CookbookInv, NEW a \in Applies, Complete(a)
    PROVE  CookbookInv'
<1>0. /\ Keep /\ UNCHANGED fleet /\ disturbed' = {} /\ jobs[a].phase = "span"
      /\ Set(a, NoJob)
  BY DEF Complete
<1>1. \A b \in Applies : Live(b) => b = a
  BY <1>0, TheOne
<1>2. FleetTyped'
  BY <1>0 DEF CookbookInv, FleetTyped, Claims, fleet
<1>3. NoJob.phase = "idle" /\ InPhase(NoJob)
  BY DEF NoJob, NoWork, InPhase
<1>4. QED BY <1>0, <1>1, <1>2, <1>3, NoJobIsJob, ApplyMoves

\* Every step keeps what the units and groups of an apply have come to.
LEMMA CookbookInvariant == CookbookSpec => []CookbookInv
<1>1. CookbookInit => CookbookInv
  BY CookbookStarts
<1>2. CookbookInv /\ [CookbookNext]_cookbookVars => CookbookInv'
  <2> SUFFICES ASSUME CookbookInv, [CookbookNext]_cookbookVars PROVE CookbookInv'
    OBVIOUS
  <2>1. ASSUME ApplyStep PROVE CookbookInv'
    BY <2>1, ApplyKeeps, TearDownKeeps, UnitStepKeeps, GatheredKeeps, SpanKeeps,
       CompleteKeeps DEF ApplyStep
  <2>2. CASE UNCHANGED cookbookVars
    <3>1. BookTyped'
      BY <2>2 DEF cookbookVars, CookbookInv, BookTyped, Saved
    <3>2. UNCHANGED <<fleet, jobs, disturbed>>
      BY <2>2 DEF cookbookVars, fleet
    <3>3. QED BY <3>1, <3>2, FleetSame DEF CookbookInv
  <2>3. QED BY <2>1, <2>2, BookStepKeeps, OtherStepKeeps DEF CookbookNext
<1>3. QED BY <1>1, <1>2, PTL DEF CookbookSpec

-----------------------------------------------------------------------------
(* What an apply leaves behind.                                            *)

\* Of an apply that is under way every step that moves it is its own.
LEMMA MovesItself ==
    ASSUME CookbookInv, [CookbookNext]_cookbookVars,
           NEW a \in Applies, jobs[a].phase # "idle", jobs'[a] # jobs[a]
    PROVE  \/ TearDown(a) \/ (\E u \in Units : UnitStep(a, u)) \/ Gathered(a) \/ Span(a)
           \/ Complete(a)
<1>1. Live(a) /\ \A b \in Applies : Live(b) => b = a
  BY TheOne
<1>2. ~(BookStep \/ OtherStep \/ UNCHANGED cookbookVars)
  BY DEF BookStep, SnapshotStarts, EditUnits, EditGroups, Delete, SetDefault, SnapshotUnit,
         SnapshotEnds, OtherStep, cookbookVars
<1>3. PICK b \in Applies :
         \/ \E n \in Names : Apply(b, n)
         \/ TearDown(b) \/ (\E u \in Units : UnitStep(b, u)) \/ Gathered(b) \/ Span(b)
         \/ Complete(b)
  BY <1>2 DEF CookbookNext, ApplyStep
<1>4. ~\E n \in Names : Apply(b, n)
  BY <1>1 DEF Apply
<1>5. ASSUME NEW u \in Units, UnitStep(b, u) PROVE Live(b)
  <2>1. jobs[b].unit[u].at \notin {"none", "end"}
    BY <1>5 DEF UnitStep, ReadStatus, NextExtra, Unload, UnloadRaises, WaitUnloaded,
                NextLoad, Loaded, LoadFails
  <2>2. QED BY <2>1, ShareIs
<1>6. Live(b)
  BY <1>3, <1>4, <1>5 DEF TearDown, Gathered, Span, Complete, Live
<1>7. QED BY <1>1, <1>3, <1>4, <1>6

\* It ends when it has looked at every group it was to load.
LEMMA EndsWhenDone ==
    ASSUME CookbookInv, [CookbookNext]_cookbookVars,
           NEW a \in Applies, jobs[a].phase = "span", jobs'[a].phase = "idle"
    PROVE  jobs[a].left = {}
<1>0. jobs'[a].phase # "span"
  OBVIOUS
<1>1. jobs[a] \in Job /\ jobs \in [Applies -> Job] /\ InPhase(jobs[a])
  BY TheOne DEF CookbookInv, BookTyped
<1>2. \A u \in Units : ~UnitStep(a, u)
  <2>1. \A u \in Units : jobs[a].unit[u].at \in {"none", "end"}
    BY <1>1 DEF InPhase
  <2>2. QED BY <2>1 DEF UnitStep, ReadStatus, NextExtra, Unload, UnloadRaises, WaitUnloaded,
                        NextLoad, Loaded, LoadFails
<1>3. ~Span(a)
  <2> SUFFICES ASSUME Span(a) PROVE FALSE
    OBVIOUS
  <2>1. PICK g, F : \/ Set(a, [jobs[a] EXCEPT !.left = @ \ {g}])
                    \/ Set(a, [[jobs[a] EXCEPT !.left = @ \ {g}] EXCEPT !.failed = F])
    BY DEF Span
  <2>2. /\ [jobs[a] EXCEPT !.left = @ \ {g}].phase = "span"
        /\ [[jobs[a] EXCEPT !.left = @ \ {g}] EXCEPT !.failed = F].phase = "span"
    BY <1>1 DEF Job
  <2>3. jobs'[a].phase = "span"
    BY <1>1, <2>1, <2>2 DEF Set
  <2>4. QED BY <1>0, <2>3
<1>4. ~TearDown(a) /\ ~Gathered(a)
  BY DEF TearDown, Gathered
<1>5. QED BY <1>2, <1>3, <1>4, MovesItself DEF Complete

\* What Cookbook.apply promises: every model the state gives a unit is served there, and
\* nothing else but what a lease kept, and every group runs what it was given, wherever no
\* failure is reported, no probe misled it and nobody interfered.
THEOREM AppliesMatch == CookbookSpec => AppliedMatches
<1>1. ASSUME CookbookInv, [CookbookNext]_cookbookVars,
             NEW a \in Applies, jobs[a].phase = "span", jobs'[a].phase = "idle"
      PROVE  LET j == jobs[a]
             IN  /\ \A u \in Plain(j.want) \ (j.failed \union disturbed) :
                       /\ j.want.units[u] \subseteq served[u]
                       /\ served[u] \subseteq j.want.units[u] \union j.unit[u].kept
                 /\ \A g \in Groups \ j.failed :
                       Members[g] \intersect disturbed = {} => claim[g] = j.want.groups[g]
  <2> DEFINE j == jobs[a]
  <2>1. Live(a) /\ j \in Job /\ InPhase(j) /\ j.left = {}
    BY <1>1, TheOne, EndsWhenDone
  <2>2. ASSUME NEW u \in Plain(j.want) \ (j.failed \union disturbed)
        PROVE  /\ j.want.units[u] \subseteq served[u]
               /\ served[u] \subseteq j.want.units[u] \union j.unit[u].kept
    <3>1. j.unit[u].at = "end"
      BY <1>1, <2>1, <2>2 DEF InPhase, Plain
    <3>2. ShareSound(j, u)
      BY <1>1, <2>1, <2>2 DEF CookbookInv, UnitsSound
    <3>3. Ends(served[u], leaving[u], j.want.units[u], j.unit[u], u \in j.failed)
      BY <2>2, <3>1, <3>2 DEF ShareSound, Stands
    <3>4. QED BY <2>2, <3>3 DEF Ends
  <2>3. ASSUME NEW g \in Groups \ j.failed, Members[g] \intersect disturbed = {}
        PROVE  claim[g] = j.want.groups[g]
    <3>1. GroupDone(claim[g], j, g)
      BY <1>1, <2>1, <2>3 DEF CookbookInv, GroupsSound
    <3>2. QED BY <1>1, <2>1, <2>3, <3>1 DEF GroupDone
  <2>4. QED BY <2>2, <2>3
<1>2. CookbookInv /\ [CookbookNext]_cookbookVars =>
         [\A a \in Applies : jobs[a].phase = "span" /\ jobs'[a].phase = "idle" =>
            LET j == jobs[a]
            IN  /\ \A u \in Plain(j.want) \ (j.failed \union disturbed) :
                      /\ j.want.units[u] \subseteq served[u]
                      /\ served[u] \subseteq j.want.units[u] \union j.unit[u].kept
                /\ \A g \in Groups \ j.failed :
                      Members[g] \intersect disturbed = {} =>
                         claim[g] = j.want.groups[g]]_cookbookVars
  BY <1>1
<1>3. QED BY <1>2, CookbookInvariant, PTL DEF CookbookSpec, AppliedMatches

\* A model is dispatched by the step that takes it from what is missing.
LEMMA DispatchIsNextLoad ==
    ASSUME CookbookInv, [CookbookNext]_cookbookVars, NEW a \in Applies, NEW u \in Units,
           jobs[a].unit[u].at = "load", jobs'[a].unit[u].at = "loading"
    PROVE  NextLoad(a, u)
<1>1. /\ jobs[a] \in Job /\ jobs \in [Applies -> Job] /\ jobs[a].phase = "units"
      /\ jobs[a].unit \in [Units -> Work]
  BY ShareIs, JobFields DEF CookbookInv, BookTyped
<1>2. ~(TearDown(a) \/ Gathered(a) \/ Span(a) \/ Complete(a))
  BY <1>1 DEF TearDown, Gathered, Span, Complete
<1>3. PICK v \in Units : UnitStep(a, v)
  BY <1>1, <1>2, MovesItself
<1>4. ASSUME v # u PROVE FALSE
  <2>1. \A w : SetUnit(a, v, w) => jobs'[a].unit[u] = jobs[a].unit[u]
    BY <1>1, <1>4 DEF SetUnit, Job
  <2>2. ~(UnloadRaises(a, v) \/ LoadFails(a, v))
    BY <1>1, <1>4 DEF UnloadRaises, LoadFails, Job
  <2>3. QED BY <1>3, <2>1, <2>2 DEF UnitStep, ReadStatus, NextExtra, Unload, WaitUnloaded,
                                    NextLoad, Loaded
<1>5. QED BY <1>3, <1>4 DEF UnitStep, ReadStatus, NextExtra, Unload, UnloadRaises,
                            WaitUnloaded, Loaded, LoadFails

\* A recipe that kills its neighbours (needs_empty_node) finds none: what _apply_unit has
\* to stop is gone before, and boot_order_key launches the others after it.
THEOREM LoneAreFirst == CookbookSpec => LoneGoesFirst
<1>1. ASSUME CookbookInv, [CookbookNext]_cookbookVars, NEW a \in Applies, NEW u \in Units,
             jobs[a].unit[u].at = "load", jobs'[a].unit[u].at = "loading",
             jobs'[a].unit[u].cur \in Lone, u \notin disturbed, jobs[a].unit[u].kept = {}
      PROVE  served[u] \subseteq Lone
  <2> DEFINE w == jobs[a].unit[u]
             want == jobs[a].want.units[u]
  <2>1. NextLoad(a, u)
    BY <1>1, DispatchIsNextLoad
  <2>2. /\ jobs[a] \in Job /\ w \in Work /\ ShareSound(jobs[a], u)
        /\ jobs \in [Applies -> Job] /\ jobs[a].unit \in [Units -> Work]
    BY <1>1, ShareIs, JobFields DEF CookbookInv, BookTyped
  <2>3. Starts(served[u], leaving[u], want, w, u \in jobs[a].failed)
    BY <1>1, <2>2 DEF ShareSound, Stands
  <2>4. \E m \in w.missing : jobs'[a].unit[u].cur = m
    <3>1. \A x : SetUnit(a, u, x) => jobs'[a].unit[u] = x
      BY <2>2 DEF SetUnit, Job
    <3>2. ~SetUnit(a, u, [w EXCEPT !.at = "end"])
      BY <1>1, <2>2, <3>1, WorkFields
    <3>3. PICK m \in w.missing :
             SetUnit(a, u, [w EXCEPT !.at = "loading", !.missing = @ \ {m}, !.cur = m])
      BY <2>1, <3>2 DEF NextLoad
    <3>4. [w EXCEPT !.at = "loading", !.missing = @ \ {m}, !.cur = m].cur = m
      BY <2>2 DEF Work
    <3>5. QED BY <3>1, <3>3, <3>4
  <2>5. Ahead(w) \intersect Lone # {}
    BY <1>1, <2>4 DEF Ahead
  <2>6. QED BY <1>1, <2>3, <2>5 DEF Starts
<1>2. CookbookInv /\ [CookbookNext]_cookbookVars =>
         [\A a \in Applies, u \in Units :
            LET w == jobs[a].unit[u]
            IN  /\ w.at = "load" /\ jobs'[a].unit[u].at = "loading"
                /\ jobs'[a].unit[u].cur \in Lone
                /\ u \notin disturbed /\ w.kept = {}
                => served[u] \subseteq Lone]_cookbookVars
  BY <1>1
<1>3. QED BY <1>2, CookbookInvariant, PTL DEF CookbookSpec, LoneGoesFirst

\* Whatever snapshot, edit_units, edit_groups and delete do: rows are of models their units
\* can load and the marked state exists.  Whatever is applied and spanned: what is on its way
\* out is served, and no node is in two groups.
THEOREM CookbookTyped == CookbookSpec => []CookbookTypeOK
<1>1. ASSUME CookbookInv PROVE CookbookTypeOK
  <2>1. ASSUME NEW a \in Applies
        PROVE  jobs[a].want \in State /\ \A u \in Units : jobs[a].unit[u] \in Work
    BY <1>1, JobFields DEF CookbookInv, BookTyped
  <2>2. ASSUME NEW u \in Units PROVE Cardinality(Claims(u)) < 2
    <3>1. CASE Claims(u) = {}
      BY <3>1, FS_EmptySet
    <3>2. CASE Claims(u) # {}
      <4>1. PICK g \in Claims(u) : Claims(u) = {g}
        BY <1>1, <2>2, <3>2 DEF CookbookInv, FleetTyped
      <4>2. QED BY <4>1, FS_Singleton
    <3>3. QED BY <3>1, <3>2
  <2>3. QED BY <1>1, <2>1, <2>2 DEF CookbookInv, BookTyped, FleetTyped, CookbookTypeOK
<1>2. QED BY <1>1, CookbookInvariant, PTL

=============================================================================
