----------------------------- MODULE WslHealth -----------------------------
(***************************************************************************)
(* The bridge into the WSL2 distro, src/llmconfig/wsl.py: the breaker that *)
(* WslHealth puts before run_wsl, the recovery ladder of WslRecovery, and  *)
(* the wait of the boot for a distro that executes (wait_ready).           *)
(*                                                                         *)
(* Processes in the distro hang when it is wedged; the ladder kills those  *)
(* in flight, and a killed process looks like a command that has failed.   *)
(* The ladder is climbed by the breaker's background task or by the boot.  *)
(* run_argv turns every failure into a return code, so nothing raises.     *)
(* Clocks are times left, or passed, in units that Tick counts; the count  *)
(* of timeouts stops at After, since the code only compares it with that.  *)
(***************************************************************************)
EXTENDS Integers

CONSTANTS
    Callers,        \* the tasks that run commands in the distro
    After,          \* wsl_selfheal_after_failures
    Retry,          \* wsl_breaker_retry_s
    Cooldown,       \* wsl_selfheal_cooldown_s
    Deadline        \* wsl_ready_timeout_s

Runners == {"task", "boot"}

ASSUME WslAssumption ==
    /\ After \in Nat \ {0} /\ Retry \in Nat /\ Cooldown \in Nat /\ Deadline \in Nat
    /\ Callers \intersect Runners = {}

VARIABLES
    distro,     \* whether the distro executes, hangs, or is not there at all
    proc,       \* the process that each caller or runner waits for
    health,     \* consecutive_timeouts, whether opened_at is set, and the time since
                \* then or since last_trial
    step,       \* where each runner is on the ladder
    busy,       \* WslRecovery._busy
    cool,       \* the time until the ladder may be climbed again
    boot,       \* where wait_ready is
    stalls,     \* its own count of consecutive timeouts
    left,       \* the time it has left
    selfheal    \* wsl_selfheal_enabled

bootVars == <<boot, stalls, left>>
vars == <<distro, proc, health, step, busy, cool, bootVars, selfheal>>

Distro == {"ok", "wedged", "absent"}
Health == [count : 0..After, open : BOOLEAN, since : 0..Retry]
Rungs  == {"kill", "shutdown", "restart", "probe"}
Boot   == {"probe", "stalled", "sleeps", "ready", "skipped"}

Closed == [count |-> 0, open |-> FALSE, since |-> 0]

Init ==
    /\ distro \in Distro
    /\ proc = [p \in Callers \union Runners |-> IF p = "boot" THEN "runs" ELSE "none"]
    /\ health = Closed
    /\ step = [r \in Runners |-> "off"] /\ busy = FALSE /\ cool = 0
    /\ boot = "probe" /\ stalls = 0 /\ left = Deadline
    /\ selfheal \in BOOLEAN

-----------------------------------------------------------------------------
(* run_wsl and the breaker.                                                *)

\* What the process that p waits for may return: a command that fails in the distro is
\* an answer like any other; one that is killed after its timeout still counts as that.
Outcomes(p) ==
    IF proc[p] = "none" THEN {}
    ELSE IF distro = "absent" THEN {"absent"}
    ELSE IF proc[p] = "killed" THEN {"failed", "timeout"}
    ELSE IF distro = "ok" THEN {"ok", "timeout"}
    ELSE {"timeout"}

\* mutant: no trial is ever admitted
MutAllow(h) == ~h.open
\* the breaker admits everything while it is closed, and a trial when one is due
Allow(h) == ~h.open \/ h.since >= Retry

\* mutant: an answer closes the breaker but does not reset the count
MutReset(h) == [Closed EXCEPT !.count = h.count]
Reset(h) == Closed
\* record: a timeout counts, an answer of any kind closes, a missing wsl.exe is ignored
Record(h, o) ==
    IF o = "absent" THEN h
    ELSE IF o # "timeout" THEN Reset(h)
    ELSE LET n == IF h.count < After THEN h.count + 1 ELSE After
         IN  [count |-> n, open |-> h.open \/ n = After,
              since |-> IF h.open THEN h.since ELSE 0]

\* mutant: recovery is asked for only when the breaker opens
MutEscalates(h, o) == ~h.open /\ Record(h, o).open
\* every timeout while the breaker is open asks for recovery
Escalates(h, o) == o = "timeout" /\ Record(h, o).open

\* ... in the background, unless an earlier task is not done
Escalate(s, o) ==
    IF Escalates(health, o) /\ s["task"] = "off"
    THEN [s EXCEPT !["task"] = "begins"] ELSE s

Trial(h) == IF h.open THEN [h EXCEPT !.since = 0] ELSE h

\* a call that the breaker refuses returns at once and changes nothing
Call(c) ==
    /\ proc[c] = "none" /\ Allow(health)
    /\ proc' = [proc EXCEPT ![c] = "runs"]
    /\ health' = Trial(health)
    /\ UNCHANGED <<distro, step, busy, cool, bootVars, selfheal>>

Return(c, o) ==
    /\ o \in Outcomes(c)
    /\ proc' = [proc EXCEPT ![c] = "none"]
    /\ health' = Record(health, o)
    /\ step' = Escalate(step, o)
    /\ UNCHANGED <<distro, busy, cool, bootVars, selfheal>>

-----------------------------------------------------------------------------
(* WslRecovery.attempt: one await per rung.                                *)

\* mutant: the cooldown alone keeps a second ladder away
MutMayClimb == selfheal /\ cool = 0
MayClimb == selfheal /\ ~busy /\ cool = 0

\* the background task starts to run
Begin ==
    /\ step["task"] = "begins"
    /\ IF MayClimb
       THEN /\ busy' = TRUE /\ cool' = Cooldown
            /\ step' = [step EXCEPT !["task"] = "kill"]
       ELSE step' = [step EXCEPT !["task"] = "off"] /\ UNCHANGED <<busy, cool>>
    /\ UNCHANGED <<distro, proc, health, bootVars, selfheal>>

Above(rung) == CASE rung = "kill"     -> "shutdown"
                 [] rung = "shutdown" -> "restart"
                 [] rung = "restart"  -> "probe"

\* kill the orphans, shut down, restart the service: processes in flight may die, and
\* from the second rung on the distro may be well again
Climb(r, dead, after) ==
    /\ step[r] \in {"kill", "shutdown", "restart"}
    /\ \/ after = distro
       \/ step[r] # "kill" /\ distro = "wedged" /\ after = "ok"
    /\ distro' = after
    /\ proc' = [p \in DOMAIN proc |->
                  IF p \in dead THEN "killed"
                  ELSE IF p = r /\ step[r] = "restart" THEN "runs" ELSE proc[p]]
    /\ step' = [step EXCEPT ![r] = Above(step[r])]
    /\ UNCHANGED <<health, busy, cool, bootVars, selfheal>>

InFlight == {p \in DOMAIN proc : proc[p] = "runs"}
ClimbSome(r) == \E dead \in SUBSET InFlight, after \in Distro : Climb(r, dead, after)
Restarts(r)  == \E dead \in SUBSET InFlight : step[r] = "restart" /\ Climb(r, dead, "ok")

\* the last rung probes, past the breaker
TaskTops(o) ==
    /\ step["task"] = "probe" /\ o \in Outcomes("task")
    /\ proc' = [proc EXCEPT !["task"] = "none"]
    /\ health' = Record(health, o)
    /\ step' = [step EXCEPT !["task"] = "off"] /\ busy' = FALSE
    /\ UNCHANGED <<distro, cool, bootVars, selfheal>>

-----------------------------------------------------------------------------
(* wait_ready, with attempt as on_stall.                                   *)

TimeIsUp == left = 0

\* the deadline, or a pause until the next probe
PauseOrGiveUp ==
    /\ boot' = IF TimeIsUp THEN "skipped" ELSE "sleeps"
    /\ proc' = [proc EXCEPT !["boot"] = "none"]

BootProbe(o) ==
    /\ boot = "probe" /\ o \in Outcomes("boot")
    /\ health' = Record(health, o)
    /\ LET n == IF o = "timeout" THEN stalls + 1 ELSE 0
       IN  IF o \in {"ok", "absent"}
           THEN /\ boot' = IF o = "ok" THEN "ready" ELSE "skipped"
                /\ proc' = [proc EXCEPT !["boot"] = "none"]
                /\ step' = Escalate(step, o) /\ UNCHANGED <<stalls, busy, cool>>
           ELSE IF n >= After /\ MayClimb
           THEN /\ boot' = "stalled" /\ stalls' = 0
                /\ proc' = [proc EXCEPT !["boot"] = "none"]
                /\ step' = [Escalate(step, o) EXCEPT !["boot"] = "kill"]
                /\ busy' = TRUE /\ cool' = Cooldown
           ELSE /\ PauseOrGiveUp /\ stalls' = IF n >= After THEN 0 ELSE n
                /\ step' = Escalate(step, o) /\ UNCHANGED <<busy, cool>>
    /\ UNCHANGED <<distro, left, selfheal>>

\* a ladder that helped is followed by a probe, whatever the deadline says
BootTops(o) ==
    /\ boot = "stalled" /\ step["boot"] = "probe" /\ o \in Outcomes("boot")
    /\ health' = Record(health, o)
    /\ step' = [Escalate(step, o) EXCEPT !["boot"] = "off"] /\ busy' = FALSE
    /\ IF o = "ok" THEN boot' = "probe" /\ proc' = [proc EXCEPT !["boot"] = "runs"]
       ELSE PauseOrGiveUp
    /\ UNCHANGED <<distro, cool, stalls, left, selfheal>>

BootWakes ==
    /\ boot = "sleeps" /\ boot' = "probe"
    /\ proc' = [proc EXCEPT !["boot"] = "runs"]
    /\ UNCHANGED <<distro, health, step, busy, cool, stalls, left, selfheal>>

-----------------------------------------------------------------------------
(* The distro wedges, or recovers by itself; time passes.                  *)

Wedges ==
    /\ distro' = CASE distro = "ok" -> "wedged" [] distro = "wedged" -> "ok"
                   [] distro = "absent" -> "absent"
    /\ distro' # distro
    /\ UNCHANGED <<proc, health, step, busy, cool, bootVars, selfheal>>

Down(n) == IF n > 0 THEN n - 1 ELSE 0
Tick ==
    /\ health' = [health EXCEPT !.since = IF health.open /\ @ < Retry THEN @ + 1 ELSE @]
    /\ cool' = Down(cool) /\ left' = Down(left)
    /\ UNCHANGED <<distro, proc, step, busy, boot, stalls, selfheal>>

Outcome == {"ok", "failed", "timeout", "absent"}

Next ==
    \/ \E c \in Callers : Call(c) \/ \E o \in Outcome : Return(c, o)
    \/ Begin \/ \E r \in Runners : ClimbSome(r)
    \/ \E o \in Outcome : TaskTops(o) \/ BootProbe(o) \/ BootTops(o)
    \/ BootWakes \/ Wedges \/ Tick

Spec == Init /\ [][Next]_vars

\* Every wait has a timeout and the monitor's loop goes on calling.  A distro that
\* executes answers some call in the end, and some restart of the service helps.
Fairness ==
    /\ WF_vars(Tick) /\ WF_vars(Begin) /\ WF_vars(BootWakes)
    /\ \A c \in Callers : WF_vars(Call(c)) /\ WF_vars(\E o \in Outcome : Return(c, o))
    /\ \A r \in Runners : WF_vars(ClimbSome(r))
    /\ WF_vars(\E o \in Outcome : TaskTops(o))
    /\ WF_vars(\E o \in Outcome : BootProbe(o) \/ BootTops(o))
    /\ SF_vars(\E c \in Callers : Return(c, "ok")) /\ SF_vars(BootProbe("ok"))
    /\ SF_vars(\E r \in Runners : Restarts(r))

FairSpec == Spec /\ Fairness

-----------------------------------------------------------------------------
(* Properties.                                                             *)

OnLadder(r) == step[r] \in Rungs

\* The breaker is open exactly when enough timeouts were counted; _busy says whether
\* somebody is on the ladder; the boot is stalled while it is.
TypeOK ==
    /\ distro \in Distro /\ health \in Health /\ busy \in BOOLEAN /\ selfheal \in BOOLEAN
    /\ proc \in [Callers \union Runners -> {"none", "runs", "killed"}]
    /\ step \in [Runners -> {"off", "begins"} \union Rungs]
    /\ cool \in 0..Cooldown /\ boot \in Boot /\ stalls \in 0..(After - 1) /\ left \in 0..Deadline
    /\ health.open <=> health.count = After
    /\ boot = "stalled" <=> step["boot"] # "off"

\* "One ladder at a time": never do the background task and the boot both kill processes
\* and restart the service.
OneLadder == ~(OnLadder("task") /\ OnLadder("boot"))

\* On a machine without wsl.exe the breaker never opens and nothing is recovered
\* (record: "rc 127 must never open the breaker or call recovery").
AbsentIsLeftAlone ==
    distro = "absent" => ~health.open /\ \A r \in Runners : step[r] = "off"

\* A distro that wedges at runtime is recovered in the end, also if a ladder has failed
\* before, if the ladder is enabled ("Nothing recovered a wedge that began at runtime").
WedgeIsCleared == selfheal => (distro = "wedged" ~> distro = "ok")

\* The breaker does not stay open over a distro that executes, with recovery or without
\* ("so the breaker can close itself even if recovery is disabled").
BreakerCloses == health.open /\ distro = "ok" ~> ~health.open \/ distro = "wedged"
=============================================================================
