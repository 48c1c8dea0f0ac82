# Verification of the LLMConfig control plane

LLMConfig (`src/`) is one Python process that decides which language model runs on
which GPU. It serves a REST API and an OpenAI-compatible gateway, keeps *leases* of
clients on units, loads and unloads models on GPU lanes and Spark nodes, and runs
background tasks that clean up. All of it runs on one asyncio event loop: code between
two `await`s is atomic, and everything that can go wrong goes wrong at an `await`.
This directory holds TLA+ models of that program, the TLC runs that check them and
the theorems TLAPS proves about them. `PROJECT.json` maps every definition to its lines.

## Inventory

| Part | State | Operations | Hard behaviour | What makes it correct |
|---|---|---|---|---|
| Lease table (`leases.py`, `LeaseManager`) | leases, queued deferred frees | claim, renew, release, revoke, eviction, queries, sweep | lazy expiry, revival in grace, several claims on a unit, pruned history | one claim per model and unit, a non-preemptible claim is never taken, ends are final |
| Lease sweeper (`leases.py`, `LeaseSweeper`) | none across ticks, only the tick's position | reap unused leases, carry out queued frees | awaits a probe between check and act | never frees or drops under somebody else; ghosts and frees end |
| GPU lane (`lane.py`, `backends/`) | swap lock, activity clock; the card outside | load an Ollama tag or a vLLM alias, unload | lock timeout, eviction wait, lease gate, max-pack reload, backends that die | one model per card, launch on a drained card, truth of a reported success |
| Idle reaper (`idle.py`) | none | unload what is idle and unclaimed, release the WSL keepalive | probe between checks, hand-over of the lock | never unloads what is used or claimed |
| Spark node (`spark_unit.py`, `backends/spark.py`) | swap lock, activity per model, probe breaker; slots outside | admit, evict victims, launch, unload | budgets as probed, stale victims, cached residents | budget kept, victims revalidated, whole-node recipes alone |
| Multi-node group (`spark_group.py`, `group_state.py`) | group lock, claims on nodes, persisted placements | status (re-claims), load, unload, eviction | locks of several nodes, stop that does not stop, restart | no deadlock, no two groups on a node, claim matches deployment |
| Slot lane (`slot_lane.py`) | one lock, one slot per alias | load into a free slot, unload | budget wait | budget kept |
| Orchestrator, start-up (`orchestrator.py`, `main.py`, `lane_state.py`) | units, groups, persisted defaults | create groups, autoload | restart over running work | nothing running is displaced |
| Placement (`placement.py`) | cached sweep with a generation | rank units, evict group victims | stale cache, partial eviction | only eligible units, never a protected victim |
| Gateway (`openai_gateway.py`) | jobs in flight per model | lease gate, choose, auto-hold, load, retry elsewhere | coalescing, retry of what still runs | no traffic through another's claim |
| Jobs (`jobs.py`) | job table | create, run, prune | prune of a job somebody waits for | every job ends, live ones stay |
| Cookbook (`cookbook.py`) | the apply in progress | save, apply | other clients load meanwhile | end state as asked, or reported |
| WSL health, keepalive, recovery (`wsl.py`, `winsvc.py`) | breaker, keepalive process, ladder | probe, trip, trial, recover | half-open trial, two ladders | one ladder, one trial |
| Catalogs and settings (`registry.py`, `config.py`, `reload.py`, `fsio.py`) | files in memory | load, reload | - | - |
| Telemetry (`monitor.py`, `stats.py`, `load_times.py`, `gpu.py`, `nvapi.py`, `doctor.py`) | samples, counters | sample, persist | feeds the activity clock | - |
| Processes and SSH, CLI, web UI, scripts | none | I/O | - | - |

How they interact: the gateway and the REST handlers ask the lease table whether a
request may proceed, start a load as a job, and the load takes the unit's swap lock. A
load asks the lease table again under the lock and revokes what it displaces. The
sweeper and the reaper probe a unit and then call its `unload`. A group load takes the
swap locks of its nodes. The monitor and the gateway move a unit's activity clock.

## Modules

| Module | Models | Kind |
|---|---|---|
| `Claims` | the questions every part asks of a set of live claims: overlap, gate, conflict, victims of an eviction, whether a deferred free still stands | operators |
| `ClaimBoard` | what the lease table promises: claims are granted, extended, ended, and a lapsed one may return | abstract specification |
| `Leases` | `LeaseManager`, each of its synchronous methods one action | detailed specification, implements `ClaimBoard` |
| `LeasesProofs` | theorems about `Leases`, among them that it implements `ClaimBoard` | proofs |
| `LeaseSweeper` | `LeaseSweeper._tick`, one action per stretch between awaits, composed with `ClaimBoard` and a unit that others swap | composition |
| `SweeperProofs` | theorems about `LeaseSweeper` | proofs |
| `SwapLock` | `asyncio.Lock` as used with `wait_for`: owner, queue, hand-over window | operators |
| `UnitProofs` | lemmas about a unit's claims and its swap lock, which the proofs about the sweeper, the lane and the node share | lemmas |
| `Lane` | `Lane.load`, `Lane.unload`, `IdleReaper._check_lane`, composed with `ClaimBoard`, `SwapLock` and a card | composition |
| `LaneProofs` | theorems about `Lane` | proofs |
| `Groups` | `SparkGroup`, `GroupState` and the members' own loads and unloads, with the restart that re-claims | composition of group and nodes |
| `GroupsProofs` | theorems about `Groups` | proofs |
| `WslHealth` | the breaker before `run_wsl`, the recovery ladder, the boot's `wait_ready` | one specification |
| `SparkNode` | `SparkUnit` as a node of slots, composed with `ClaimBoard` and `SwapLock` | composition |
| `SparkProofs` | theorems about `SparkNode` | proofs |
| `Placement` | `rank()` with its eligibility rules and victim choice | operators |
| `Fleets` | `rank()` over every fleet of a Spark that fills up and a lane: one decision, against what the rules promise and against the node's own admission; uses `Placement` | composition |
| `Gateway` | requests through the gateway and `POST /api/load`, `Placer`'s sweep and cache, `JobManager`, the queues of the units; uses `Placement` | composition |
| `GatewayProofs` | theorems about `Placement`, `Fleets` and `Gateway` | proofs |
| `Cookbook` | named fleet states: how they are written, captured and applied beside other clients | one specification |
| `StandaloneProofs` | theorems about `WslHealth` and `Cookbook`, the two parts that share no state with others | proofs |
| `MCLeases`, `MCSweeper`, `MCLane`, `MCGroups`, `MCWslHealth`, `MCSparkNode`, `MCPlacement`, `MCGateway`, `MCCookbook` | constants for TLC | |

The same thing is modelled at two depths where a caller needs only its outcomes: the lease
table is `Leases` in full and `ClaimBoard` (which `Leases` is shown to implement) for those
who use it; a load is `Lane`, `SparkNode` or `Groups` in full, a job that stops its victims
and ends one way or another in `Gateway`, and a request that succeeds, is refused or fails
in `Cookbook`.

### How state and actions correspond to the code

**Leases.** `leases` is `_leases` and `pending` is `_pending_free`. Lease ids
grow, so the order of ids is the insertion order that the code's scans rely on. A
deadline is kept as the time left until it, which `Tick` counts down. A lease whose time
is up stays `active` until a method looks at it, as in `_expire_if_lapsed`; every method
that calls `active_all` first is modelled with that write (`Read`). `ClaimExtend`,
`ClaimGrant` and `ClaimRefused` are the three outcomes of `claim`; `Prune` is part of a
grant. `regained` is a history variable. Left out: request validation and the hint about
leases from before a restart, which change nothing, and the counters of `note_request`,
which only the sweeper reads.

**LeaseSweeper.** `at` is the place in the tick, one per await, and "queued" while its
unload waits for the lock. The unit is its resident models and its swap lock, which passes
through other tasks (`SwapBegins`, `SwapEnds`) at any time. A released lock may have woken a
waiter ("handed"): `locked()` is false then, so the guards of `_free_unit` pass, but who
acquires it goes behind that waiter (`FreeUnloads`, `FreeTakesLock`), which has it next or
has been given up (`HandOver`). `Stops` is what `unload` stops: a lane (`Lanes`) compares
the name it serves with the alias as it is, so that a free by an alias that is served under
another name stops nothing. `moved` and `since` are history. Deadlines and idle windows are
replaced by two sets: leases that have had requests (`used`) and leases young enough
(`fresh`), which `GoQuiet` shrinks. Residents are reported under served names and claimed
under aliases, and the code's `canonical` is applied where the code applies it. `Return` of
`ClaimBoard` is not taken here.

**Lane.** `pc` is the place of each task in `load` or `unload`; everything from `unload`'s
guard to the eviction wait and `_max_pack_reload` is one location per await, the last look
at the card before a load of vLLM reports its success included (`Answer`), but that the
probes of one decision (vLLM's and Ollama's) are read together. The card is what backends
hold: the model vLLM serves, one it is starting, the tags Ollama holds, and memory that has
not been given back (`draining`). The backends move by themselves (`ComesUp`, `Dies`,
`Drained`) and clients of Ollama load tags past the control plane (`DirectLoad`). A probe
that does not answer looks empty, as in the code. `SwapLock` has the window between
`release` and the wake-up of the next owner, in which `locked()` is false but an acquire
queues. That window (`HandingOver`) is one turn of the event loop: only what was ready runs
in it, so the lane does not age past the idle timeout from just touched, and no probe begins
that the reaper then decides on. A load touches the lane as it releases, an unload does not.
`excused`, `probed` and `lost` are history. Left out: statistics, load times, the keepalive,
pins, and the missing card or model file. The aliases of a lane are folded into one name.
Beside a swap, claims are granted and end, here and in `SparkNode`; that one is extended or
revived meanwhile is left to `Leases`.

**Groups.** `owner` is the `_lock` of every group and node; a task goes through the group's
lock, then through its members' in the order of `orch.units` (`LockOrder`), and `Finish` is
the `finally` blocks. `pc` is one place per await of `_load`: the check of claims under the
locks, the stop of the old job, its 15 probes, one member after the other, the launch,
`wait_ready`. `claims` is `GroupState._claims`. The world is `deploys`, each with a rank on
every member and answering (`up`) on its head's base port only, and `solo`, the nodes with a
model of their own. `status()` is two steps, the answer of the head (`Ask`) and the claim
for it (`Judge`), since any task may run in between; `BootReclaim` is `_reclaim_groups` and
precedes what the autoload fires. `late` (claims made by `status()` during a swap) and
`fooled` (loads whose look at the head missed what runs there) are history variables: the
exceptions that the properties grant. Simplified: a lock has an owner and no queue, so any
waiter may be next; the check before the wait and the refusal are one step (`LockRefused`);
probe and stop of one member are one step, while an unload names its deployment, asking the
head if it must (`UnloadNames`), and then stops it and releases whatever claim there is by
then (`Unload`); whether a victim is leased or active is left open; a node has one model of
its own. Left out: the refusals by node count, fabric and block list, which change nothing,
telemetry, load times and the file of `GroupPlacements` (the groups are the same after a
restart).

**WslHealth.** `health` is what `WslHealth` keeps: the count of timeouts, which stops at the
threshold since the code only compares it, whether `opened_at` is set, and the time since
then or since `last_trial`. `Call` and `Return` are the two halves of `run_wsl` around its
await; `step` is the place in `WslRecovery.attempt`, once per runner, which is the breaker's
background task or the boot; `boot`, `stalls` and `left` are the locals of `wait_ready`. The
ladder kills every `wsl.exe`, so a rung may kill any process in flight, and such a process
returns a failure, which the breaker takes for an answer. `run_argv` never raises, so the
`except` of the ladder is not taken. `wsl_breaker_enabled` is taken to be true.

**SparkNode.** What runs is discovered, never stored: `engines` is the world, and a load
works on `own.view`, the answer of its one probe, from which it removes the victims as it
stops them. `pc` is one place per await of `_load`: the probe, the stop of each victim, the
fast path and its second look, the reload of a model that is there under another recipe, the
clearing for `tp > 1`, the measurement of free memory, the launch and `wait_ready`. `Admit`
sums the declared budgets of the view against the headroom (`Pool`), `Measure` asks the node
what it has left of its whole memory and grants the slack (`Total`, `Slack`, `Enough`); both
are skipped on a node that looks empty, as in `_admit`. A server that is starting has taken
any part of its memory when it is measured (`own.growing` remembers which were). A load is
over only after it has read the card for its answer (`Answer`). A victim is judged
(`MayEvict`: claim, priority, activity) in one turn of the loop, then the node is asked to
stop it. `clk` is `last_activity` with `model_activity`; `status()` prunes what a probe has
missed. The world may miss a probe, swallow a stop with rc 0, die, or come up after its load
was given up. `by` and `hidden`, `growing`, `blind`, `since` and `hot` are history. Folded:
served names onto aliases (so the view may show one model on two ports, of which the code's
`resident` keeps the last: `Slot`, `Vacated`), and the probe breaker onto a node whose
servers do not answer. Left out: load times, the memory guard's hint, statistics.

**Placement.** A record per candidate is `CandidateFacts`, a row `ResidentFact`; a
candidate's rows are a function from their slots, victims are sets of slots. `rank()`
sorts by tuples that end in the order of the units; the keys are sequences, compared by
`Before`, and one comes first (`FirstBy`). `VictimsFor` has the two passes of
`_victims_for`: models without a budget first, then one that is enough alone, else the
stalest ones; `Foremost` is `victims[0]`, by whose staleness candidates are compared.
`reasons` and the wording of refusals are left out. `Fleets` asks it once, of every fleet,
and admits what it sends to a node by the node's own sum (`Admits`, `_admit`).

**Gateway.** A request's `pc` is its place: it asks for a placement (`Place` takes the
cached statuses or joins the one sweep), ranks, probes its unit, is admitted, waits for a
job, is routed and forwarded. `RankAndGate` is one step because the code has no await
between `rank()` and the gate. `gen` is `_sweep_gen`, `cache` is `_sweep_result`, and a
sweep reads one unit after the other while units move; one whose `status()` raises is no
candidate of what is ranked on that sweep (`Shaky`, `Tell`). A REST unload is two steps, its
stop (`RestUnload`) and the `invalidate()` after the statuses it answers with
(`RestUnloaded`), between which a placement may still rank on the cache from before. `jobs`,
`nextJob` and `queue` are `JobManager` and the swap locks; ids grow, so the least id of a
queue is its head. A job that has the lock stops its victims (`JobEvicts`), then succeeds or
fails; a failure says that the world has moved (`conflict`) or not. `moves`, `since` and
`moved` are history. Left open, as a choice of the environment: which models were used
lately, and which units the lease gate refuses, which is `Leases`' part. A lane pinned by a
lease is a request with a pin. Left out: auto-hold, session affinity, identity, group
victims (in `Groups`) and the forwarding itself.

**Cookbook.** `jobs` are the apply jobs: `phase` is the group teardown, the units in
parallel, the groups to be loaded; a unit's share is its own little program (`Work.at`),
one place per await of `_apply_unit`. `leaving` are the servers that were told to stop and
still answer; `_wait_unloaded` may time out on them. `save` is the snapshot of one unit at
a time (`snap`), with the file written at the end. A name that has no state has `None`: a
state that was edited down to nothing is still one. Others load, unload, span groups and
take leases at any time; `disturbed` marks the units where they did.

## Runs

| Run | Distinct states | Shows |
|---|---|---|
| `leases` | 113 k | exclusivity, finality, gate, and `Leases` implements `ClaimBoard` |
| `sweeper` | 50 k | frees and reaps spare others; ghosts and queued frees end |
| `sweeper_yank` | violation | a narrowed lease's whole-unit free |
| `lane` | 771 k | the 100%-VRAM gate, evictions under claims, targeted unloads, truth of success |
| `lane_live` | 65 k | nothing hangs on the swap lock |
| `lane_reap` | violation | the reaper in the hand-over window |
| `groups` | 499 k | no wait in a circle, spared ranks, truth of a group load |
| `wsl` | 25 k | one ladder, wedges are cleared, the breaker closes |
| `spark` | 1.56 M | admission overcommits only by what it could not count, recipes that must be alone, victims neither hot nor claimed, truth of success |
| `placement` | 3.29 M | room is made exactly when it can be, and nobody protected is displaced |
| `gateway` | 794 k | fresh decisions, one load per request, routing to the right port, jobs kept |
| `cookbook` | 709 k | what an apply that reports no failure has achieved; lone recipes go first |

Every property has a mutant in `PROJECT.json`, a change of a modelled definition that a
slip in that code would make, under which the property fails.

### Bounds, and why they are enough

`leases`: one unit (claims on different units never meet in the code), two holders, two
models. Three grants are the least for a conflict behind a conflict: a preemptible lease in
front of a non-preemptible one, and a third claim that meets both. `MaxHistory = 2` lets
pruning bite at the third; a queued free may be for the whole unit. The run has a VIEW that
forgets what no action and no checked property tells apart (of an ended lease, whether it
was taken from its holder). `MaxTtl = Grace = 1` lets a lease lapse, be revived and fall out
of the grace window. `sweeper`: two claims, one for the free or the ghost and one for
whoever it may hit; one resident name that differs from its alias, on a unit that holds
several models; the run of the violation is on a lane, where nothing but a whole-unit free
stops such a model. One task at most is ahead of an unload that waits (`PassOn`): who comes
later waits behind it. `lane`: two request tasks and the reaper, so that the lock has an
owner and two waiters; one tag and one alias, so that every swap crosses engines or stays
within one; four requests (a load with max-pack, one driven by placement, an unload of a
server and one of a tag); up to two claims of either kind, the least for one that hides
behind the requester's own. `lane_live` has no claims, which never make a swap wait.
`Idle`'s age is 0 (active), 1 or 2 (idle long enough). `groups`: the two groups share their
head and a worker, which is the least for a wait in a circle (two shared locks) and for a
claim by the wrong group (same head, same port); the third node is a member of one of them
only. One model, since two groups of one model already differ in what they claim; two tasks,
each with any of ten requests, of which the second may be on a node; one restart.
`ProbesFail` lets every probe miss a live server. `wsl`: two callers, the least for one that
fails while another is on trial; the threshold 2 separates one timeout from consecutive
ones; the cooldown outlasts the breaker's window, as by default, so that an escalation can
come too early and be refused.

`spark`: two tasks, so that one is overtaken while it waits for the lock; two slots, the
least for a neighbour; two models, one ordinary (for several nodes, blocked unless forced,
so that the tp-clearing and the refusal are reached) and one that must be alone; in
twentieths of the node, two budgets of 9 fit a headroom of 19, so that a server launched
past the control plane at the recipe's default (16) is one too many, and the slack is 1. One
claim, of either kind, since an eviction judges one row at a time. `placement`: rows of
every budget (0 is unset), age, claim and kind; three slots are the least at which "one that
is enough alone" differs from "the stalest ones until it fits". A lane beside the node makes
the second candidate, without which `rank()` takes the pin path and decides nothing; it is
varied against nodes of one row, and busy against fuller nodes, since a lane that can be had
decides by its tier alone. `gateway`: two requests (the least for a shared job and for a
decision that another's commit outdates) of four kinds; a node of two slots and a lane, one
model that both can have beside another; two jobs, so that a re-place runs its second; one
commit or unload is ahead of the requests' own, and one load of others (`MaxOthers`); the
node may fail to tell its status. With two jobs a history of one makes a prune that forgets
what is pending lose a job that a request waits for, while the right one has nothing to
forget yet: that it spares what is pending at any bound is `PendingJobsAreKept`, proved.
`Refusals` holds one unit at a time against un-leased requests. No probe misses a server in
this run: the property about routing grants that exception, and `spark` covers it.
`cookbook`: two nodes and the group on both; a state that pairs a model with one that must
be alone, one that spans beside an empty row, and one that only spans, which can be edited
down to nothing; two applies at once, one change of the book, one lease. All bounds are
constants or named guards.

`CHECK_DEADLOCK FALSE` is set where the bound on grants or requests ends the behaviour
(`Leases`, `Lane`, `Groups`, `SparkNode`, `Gateway`, `Fleets`); the sweeper, the WSL
bridge and the cookbook go on for ever and are checked for deadlock.

### Fairness

`LeaseSweeper`: weak fairness of the loop, since the event loop resumes a task that can
run and each probe returns, and strong fairness of the *answer* of a probe per lease and
per queued free: a backend that fails every time it is asked about the same unit is a
dead unit, about which the code promises nothing. A swap that has the lock
ends and a woken waiter runs (`SwapEnds`, `HandOver`), since both are bounded by timeouts and
the loop; that swaps begin, and claims, get no fairness.
`Lane`: weak fairness of every task's steps; each wait in the code (`wait_for`, eviction
wait, `wait_ready`) has a timeout. The card, the claims and the reaper's wish to reap get
none. `SparkNode`, `Gateway`, `Cookbook` and `Groups` are checked for safety only and state
no fairness; that nobody waits in a
circle (`NoCircularWait`) is an invariant.
`WslHealth`: weak fairness of every wait (each subprocess call and sleep has a timeout) and of
the callers (`Monitor` polls the distro in a loop); strong fairness of the distro: one
that executes again and again answers some caller and the boot in the end, and a service
that is restarted again and again recovers in one of the restarts. When it wedges is left open.

## Where the code and its documentation part

Two runs end in a violation, each of a sentence of the code's own documentation, quoted in
`PROJECT.json`:

- `sweeper_yank`: a holder that narrows its whole-unit lease to one model leaves the
  queued whole-unit free behind; it stops the model of its neighbour.
- `lane_reap`: `locked()` is false in the hand-over window. In TLC's trace a lane has been
  idle long enough when an unload, which does not touch it, hands the lock to a load; the reaper
  decides in that turn, queues behind the load without a timeout, and in the end unloads
  under a claim that was granted while it waited.

The rest was met while modelling. The models behave this way too, and the properties grant
the exception where one is named:

- The same window is open to the sweeper, whose comment (`leases.py:738`) says that neither a
  load nor a claim can interleave between its last check and its unload. They can while that
  unload is behind a woken swap; `FreeSparesOthers` excepts the claims granted in that wait.
- A free by an alias does nothing on a lane that serves the model under another name
  (`lane.py:404`), but drops the request (`Stops`).
- vLLM may die while a load reads the card for its answer (`lane.py:363` and 295, `lost`):
  the job then reports success with nothing on the card.
- The measurement of free memory (`spark_unit.py:705`) sees of a starting server only what
  it has allocated so far: two loads that are not the node's own may each fit and together not
  (`growing`). On a node all of whose servers missed the probe nothing is measured (`hidden`).
- `renew` revives a lapsed lease without looking at claims granted since; two holders then
  have the same scope. `OverlapOnlyByRevival`, checked and proved, says that this is the
  only way.
- The sweeper reads the proof of life (requests, renewals) before it probes the unit and
  not after, so a lease renewed during the probe is dropped as unused.
- The lease gate of a placement-driven load (`lane.py`, `_preempt_occupant_leases`) is
  evaluated before the probe for an occupant; a non-preemptible claim granted in between
  is not seen if the probe finds nothing (`EvictionSparesClaims`).
- The same gate refuses, says its docstring (`lane.py:445`), when "a live NON-preemptible
  lease held by someone else" is on the lane. It asks `blocks_unleased`, which answers with
  the first non-preemptible lease only (`leases.py:304`); if that is the requester's own,
  another holder's behind it is not seen, and the load evicts under it (`Unseen` in `Lane`).
- `status()` of a group claims whatever multi-node model answers on the head's base port,
  which all groups with that head share. After a restart the wrong group may claim a
  deployment, and its other workers stay unclaimed (`fooled`, `late` in `Groups`).
- The load of a recipe with `tp > 1` stops everything on its node before `_admit` asks for
  the claim of a group, and may then be refused.
- A server that outlived a swallowed stop keeps its slot; the view says it is free, and
  the launch there may report the old server as its own (`SuccessIsOwnLaunch`, `hidden`).
- `_victims_for` is not the cheapest choice: with budgets .1, .3 and .3 and .6 to make, in
  that order of staleness, it displaces all three though the last two would do.
- In placement, a free slot and "the node is empty" ignore a load in flight, whose budget
  alone is counted; the node's own admission has the last word.
- A re-place that excludes the failed unit may leave one candidate, which is then taken as
  a pin: no tier, no priority, no victims.
- A job that ran long and succeeded may be pruned before its request polls again, which
  then answers that the job vanished.
- `edit_units` after `edit_groups` can put a row on a member of a group that the state
  spans, which the module says must not be; a saved state may also name two models that
  must each be alone on one unit, and can then never be applied in full.
- An apply that misses a model in its probe leaves it running and reports success, and one
  that gives up waiting for a server to leave may find the next model "already serving"
  on the one that departs (`disturbed` in `Cookbook`).
- The breaker closes on a process that the ladder has killed, though the distro is still
  wedged; callers then pay their timeouts again until it opens.

## Proofs

TLAPS checks 39 listed theorems in eight modules, for every value of the constants that
satisfies the modules' assumptions. These are named `...Assumption`, are evaluated by TLC on
every run, and say no more than the code does: what a request may carry, that names stand
for something, that bounds are naturals. Some deserve a word. `GroupsAssumption` has one
order of all units in which every group lists its members: `get_or_create_group`
(`orchestrator.py`) collects them by going through `orch.units`. Without it swaps could wait
in a circle, which is the point of the order. `CookbookAssumption` has no group without a
member: `spark_group_config` refuses fewer than two. `GatewayAssumption` and
`FleetsAssumption` have units and ports finite in number and units in distinct places of
`settings.units()`, which is what ties of `rank()` are broken by. And the bounds
(`MaxLeases`, `MaxHistory`, `MaxJobs`) are any naturals (a history at least one), so that
what is proved does not depend on them.

Each proof finds an inductive invariant, checked by TLC first; what that invariant has to
say beyond the property is the actual argument:

`LeasesProofs`, for every set of units, holders and models and every setting.

- `TypeCorrect`: `TypeOK` is inductive. It rests on one lemma per helper saying that a
  table stays a table (`ExpireKeepsTable`, `TerminateKeepsTable`, `PruneKeepsTable`) and
  on `ConflictingIsLive`: a query answers 0 or a live lease of that unit. The latter
  needs that a non-empty set of naturals has a minimum, from well-foundedness.
- `NonPreemptibleLeasesAreKept`: with `TypeOK` the property is inductive. The heart is
  `TerminateKeepsKept`: a revocation keeps it if each lease it takes is preemptible, the
  revoker's own or taken by the operator, which `MayTake` and `EvictionTargets`
  guarantee. It covers any number of overlapping leases, any priority and `force`.
- `LiveLeasesAreApart`: `Apart`, relative to a set of revived leases, is kept by every
  step that only shrinks the live claims; a grant ends every overlapping claim first, an
  extension re-scopes only when its holder has no claim on the new scope and its own
  lease was the first to overlap, and a renewal records what it revives.
- `TableImplementsBoard`: under the refinement mapping every method of `LeaseManager` is a
  grant, an extension, the end of some claims, a return, or a stutter of `ClaimBoard`: the
  expiry that a read does on the way is an end, and pruning is not seen. `GateSeesEveryLease`
  and `EndsAreFinal` follow from the same lemmas about the helpers.

`UnitProofs` has what the next three share: what an abstract board promises of a unit
(`Disjoint` is kept by a grant, an extension and an end; one claim covers a model), and
that `SwapLock` keeps its queue in order and admits one owner. So "the owner is the one
task that swaps" is one line in each of the invariants.

`SweeperProofs`, for every set of units, holders, models and any number of leases.

- `FreesSpareOthers` and `ReapedLeasesHeldNothing` are about what was read before an await
  and is used after it. `SweeperInv` says what of it is still true: a queued free that names
  a lease names one on the free's own unit and, unless the lease was narrowed, on its own
  model (`QueueOK`); an unload that waits has looked at all claims older than `since`
  (`QueuedOK`, kept because claims only shrink but by grants: `ClaimsOnlyShrink`); and while
  a ghost is judged, the probe's answer is what the unit serves, unless a swap moved it
  since (`ProbeOK`). What `sweeper_yank` violates and the wait behind a woken swap are thus
  shown to be the only two ways a free yanks another.

`LaneProofs`, for every set of tasks, tags, aliases, requests and claims.

- `LaunchesOnDrainedCard`: `Cleared` carries the eviction's outcome over the await before
  the launch; nothing else on the lane can undo it, since backends start nothing by
  themselves and everyone else waits for the lock.
- `EvictionsSpareClaims`: `Gated` says what the lease gate has established while the
  occupant is probed: the non-preemptible claims it looked at are the requester's own.
- `NeighbourSurvives`: `Aimed`, from the second look that an unload takes under the lock.
- `SuccessLeavesModel`: by the places a task can be in when it ends, and what each await
  has read; no reload path reports a model that is not there. A task that has its model only
  to answer keeps it unless the backend dies under it, which `lost` records.

`SparkProofs`, for every number of slots and tasks, every set of models, budgets, claims
and requests. `SparkInv` adds to places, requests and clocks (`InTime`: a model in use is never
`idle_for` the active window) the meaning of a swap's locals at each await (`Sound`).

- `LoneLaunchesAlone` and `SuccessIsOwn`: every server is known to the view, or could not be
  (`Known`: it missed the probe, outlived its stop or came up later).
- `EvictsUnclaimed` and `HotVictimsAreOutranked`: between the judgement of a victim and its
  stop only claims granted since can be in the way (`Judged`); that one claim covers the
  victim, so that ending it is enough, is `Disjoint`.
- `OvercommitsBlindly`: `RoomInv` carries what admission has established over the awaits to
  the launch: outside of the servers that were growing at the measure, what is on the node
  fits its memory and the slack with what is wanted (`Outside`), and on a node that looked
  empty every server was hidden (`Counted`). What a set of servers takes is a fold. Its
  theory (one member at a time, and growing with the set) is proved by well-foundedness of
  the cardinalities, without a theorem that takes an operator.

`GroupsProofs`, for every set of nodes and groups, however they overlap, and every number
of tasks.

- `SwapsNeverCircle`: `LocksOK` says that a waiting swap of a group owns its group's lock
  and a prefix of its members. Whoever blocks another and waits himself waits for a later
  member than the one he blocks (`BlockersAreAhead`), so the task that waits for the last
  member is blocked by nobody who waits.
- `ClaimedRanksSpared`: while a group loads, no *firm* claim (one that no `status()` made
  during a swap) is on its members, because the claims were read under the locks and every
  task that makes one has a lock of those nodes too (`LocksExclude`).
- `SuccessIsOwn`: once a load has looked at its head and seen nothing, no other deployment
  gets there, since a launch needs the lock of that node (`LookedOK`).

`StandaloneProofs`, the WSL bridge: for every set of callers and every threshold (at least
1), window, cooldown and deadline.

- `OneLadderAtATime` is not inductive: that only one runner climbs follows from `_busy`,
  so the invariant `IInv` adds `BusyOnLadder` (`_busy` is set exactly while somebody is on the
  ladder) to `TypeOK`. The cooldown is not needed: the theorem holds for a cooldown of zero.
- `TypeCorrect` carries the breaker's own invariant (open exactly at the threshold), from
  `RecordKeepsBreaker` and `TrialKeepsBreaker`; `NoWslNoRecovery` rests on
  `AbsentOutcome` and on `record` and `_escalate` ignoring that outcome.

`StandaloneProofs`, the cookbook: for every number of units, groups, names and applies,
every catalog and every book to start from. `CookbookInv` says that one apply is live, where
its shares are in each phase (`InPhase`), and, for a unit that nobody disturbed, what it
serves at each place of its share (`Stands`).

- `AppliesMatch`: until the unloads have settled, all that is served and not wanted is still
  to be stopped, or was kept (`Stops`); from then on nothing is on its way out, and what is
  wanted is served or ahead (`Starts`), until it is all there (`Ends`). `GroupDone` is the
  same for a group over the three phases.
- `LoneAreFirst`: while a lone recipe is ahead and nothing was kept, only its like is served
  (in `Starts`), because of the rebuild and of the order of the launches.
- `CookbookTyped`: an edit and a snapshot write states whose rows their units can load, and a
  group takes its members only where no other has them (`OneGroupPerUnit`).

`GatewayProofs`, for every fleet, any number of requests, jobs and sweeps, every history
bound and every setting. The two about `rank()` itself are of any fleet, and those about
freshness, jobs and routes hold whatever it answers.

- `RankChoosesWell`, `RankRefusesWell`: a finite set of keys of one shape that end in
  distinct numbers has a first one (the candidates that agree on a prefix of their keys are
  narrowed down place by place). Victims are eligible and make room. That
  the two passes of `_victims_for` miss no choice that would do is because room grows with
  the victims (`RoomGrows`, on the theory of sums), and all eligible rows are the last resort.
- `RankSparesProtected`, `RankMakesRoom`: the same of every fleet of `Fleets`, whose
  invariant `FleetInv` is that they are fleets, and that a decision is `rank()`'s.
- `RankedStatusesAreFresh`: that a request's view is as young as its question is not
  inductive. `PlacerInv` says why it holds: `moves` and `gen` go together, a sweep is named
  by the generation it began in, only the present one is ever in the cache, and a request
  that awaits a sweep names one at least as young as itself. `Publishes`, the comparison of
  the generation when a sweep ends, is what keeps the third.
- `OneLoadPerRequest`, `PendingJobsAreKept`: `JobsInv` says that ids grow and never return
  (`JobTable`), that whoever is in line for a unit is a job of that unit that has not ended
  (`InLine`), and that a request's first job, once it is placed again, has ended
  (`Loading`). `Advances` is what all steps of the table have in common and
  `AdvancingKeepsLoading` carries every request over them; `PrunedOnlyTerminal` is what
  pruning must give, whatever the bound. A conflict is only reported of a job that has
  ended, which is why the retry may leave it; a timeout is never retried.
- `RoutedWhereToldTo`: `RoutesInv` says what the rows a request was told mean later: they
  are what its unit runs, or part of it where a probe missed a server, unless the unit has
  moved since.
- `GatewayTyped`: `TypesInv` adds that a view's facts are a fleet, so that `RankChoosesWell`
  gives a unit and victims that exist, and that a request that waits has a job.

Only model-checked is liveness (`GhostsGo`, `QueuedFreesEnd`, `SwapsEnd`, `WedgeIsCleared`,
`BreakerCloses`): the prover has no fairness and no `ENABLED`. Every safety property of a
passing run is a theorem.

## Not modelled, and what is left

1. Slot lane (`slot_lane.py`): the shape of `SparkNode` (one lock, a port per alias,
   co-residents), with a wait for the budget in place of admission. First to be added.
2. Groups: `GroupPlacements` and the groups it brings back, the claim of a deployment that
   has died, the eviction of several groups for one load (`evict_group_victims`, of which
   the first stays down when the second refuses) and of victims with their leases.
3. Gateway: auto-hold and session affinity. Placement: name resolution and the facts of
   group candidates, the load-time and failure records, which are inputs of `Rank` here.
4. The WSL keepalive, whose release by the reaper (`idle.py`) probes one lane after another
   while loads may begin on those already probed; the gate of the boot's autoload.
5. Proofs of what these parts add: that a slot lane keeps its budget, and that the groups
   `GroupPlacements` brings back do not overlap.

What the properties do not ask, though the models have it: that the pruned history forgets
the oldest ended leases first (the board does not see them); whether a lease that is renewed
or used while its unit is probed is dropped as unused; what a claim that `status()` makes
during a swap keeps off (`late`), and the clear of a load with `tp > 1`; a launch beside what
came up after the probe (`hidden`). `RoomIsMade` is about declared budgets only.

Not planned: catalogs, settings and reload, telemetry, SSH, the command line, the web UI,
the scripts and recipes. They parse, sample, render or start processes; what decisions
read of them (activity, failures, budgets, recipes) is an input of the models.
