# A verification model of the IXP BGP stress harness

The harness drives a VyOS/FRR router (the *DUT*) with simulated BGP peers,
disturbs it for hours, and says at the end whether the router passed.  Its
own `FINDINGS.md` is a history of runs whose verdict was wrong because of the
harness: a convergence gate that opened too early (H-50) or never (H-52), a
router faulted for outages the harness had made (H-13), a configuration left
behind (H-42), detectors that were blind (H-39).  What can go wrong is
concurrent: the router moves while it is being read, a sampling thread and the
main loop look at different moments, commits outlive the code that waits for
them.  The modules here model that, TLC checks them on small instances, and
TLAPS proves all of their safety properties that hold for every instance.

Paths below are relative to the repository; `H-nn` refers to `FINDINGS.md`.

## The system

| Component | Source | State | Operations |
| --- | --- | --- | --- |
| Sampler | `harness/telemetry.py` | `_n`, `latest`, last log read, last CPU reading | `sample` every interval in its own thread; `event` from the main thread |
| Convergence gate | `telemetry.py`, `runner.py` | tracker: streak, key, install counter, FIB seen, reason; `_converge`: sticky reason | `feed`, `reset`, `wait_for_convergence`, `_converge`, `_fib_agrees` |
| Predicates | `telemetry.py` | known pids, announced restarts, impairment window, codes reported | `check`, `check_new`, `impair_begin/end`, `expect_daemon_restart`, `feed_fib` |
| Run loop | `runner.py` | violations, events, abort | `cmd_run`, `cmd_exercise`, `cmd_ramp`, `cmd_converge` |
| Scheduler and events | `harness/scenarios.py` | walk offsets, RNG | peer_flap, blackhole, churn, policy_churn, maxprefix_trip, netem, gr_event, dut_bgpd_restart, probes, malformed updates |
| DUT access | `harness/dut.py` | none of its own; the router's configuration, log floor, debug flags | `configure`, `reassert_logging`, `vtysh_json`, `proc_stats`, `route_summary`, log readers |
| Peer fleet | `harness/peers.py` | the generators' processes, tables and addresses | start, inject, flap, unflap, blackhole, netem, restore addresses |
| Prefix plan, wire formats | `harness/routegen.py` | none | index to prefix, windows of a session, MRT and ExaBGP encoders |
| Profile expansion | `harness/model.py`, `generate.py` | the inventory | allocate addresses, ports and slots, write the lab's files |
| DUT configuration | `harness/dutconfig.py` | none | render base, neighbours and the apply/revert fragments |
| Probe command | `harness/policyprobe.py`, `scenarios.py`, `runner.py` | the helper's FIFO, ExaBGP's Adj-RIB-Out | `probe_check`, `malformed_burst`, `malformed_isolate`, `restart_exabgp` |
| Bring-up and ramp | `runner.py`, `peers.py` | which sessions were started, which tables are loaded | `cmd_bringup`, `_start_generators`, `cmd_ramp` |
| Analysis | `analysis/analyze.py` | none | report from the recorded files |
| Scripts, images | `scripts/`, `images/` | the host | preflight, tuning, image builds |

How they interact.  The sampling thread publishes each finished record as
`Sampler.latest`.  The main thread runs one event after another; after each it
hands `latest` to `PredicateSet.check_new`, and when it needs a settled router
it polls `latest` in `wait_for_convergence`, and asks zebra before it believes
the answer.  Events tell the predicates about their impairments through
`Ctx.impair` and `expect_daemon_restart`, and change the router through
`docker exec`.  The router is a third party that acts on its own all the time.

Hard behaviours, and where they are modelled:

- records older than the decisions made on them, samples that are not atomic,
  samples nobody saw: `Convergence`, `Predicates`;
- reads that fail exactly when the router is busiest: all modules;
- commits that are refused, or time out and land later: `ConfigChange`;
- exceptions that leave an event half done: `Predicates`, `ConfigChange`;
- restarts that are intended and ones that are not: `Predicates`;
- a gate that must open: `PromptVerdict` in `Convergence`;
- calls into a container that fail or are given up while their shell goes on,
  and restarts between a churn's two halves: `Churn`;
- sessions that share a container's link, addresses and packet filter, and an
  operator's interrupt in the middle of a fault: `PeerFaults`;
- writes nobody confirms, into a FIFO that a helper reads when it gets to it,
  and a process replaced while lines are on their way: `Probing`;
- quantities that are differences of two reads, with a restart, an exception or
  a failed read between the two: `Sampling`;
- a fleet that is started in waves while the router is judged as a whole:
  `Ramp`;
- addresses, ASNs and prefixes handed out to sessions of several fleets from
  one space: `Inventory`, `PrefixPlan`.

What makes each component correct: the gate says *converged* only of a table
that held still, with every session up, on samples of this wait, and opens on
a router that has settled; the predicates report every restart once, excuse
only what was announced, and do not fault the router for the harness's flaps;
the events leave the router as the profile describes it, or say so; the
generators hold what the profile says they announce; the prefix plan gives
different sessions different prefixes; a malformed case is blamed only for the
resets it caused, and what was probed with is gone afterwards; no line of the
router's log falls between two samples, as far as its source still shows it; a
bring-up that succeeds has loaded the tables, and a step of a ramp that
converged had all its sessions.

## The modules

**`Gate`** is what a caller of `_converge` relies on, without samples, streaks
or polling: the router changes its table at certain moments, the gate may point
at a stretch of time in which it did not, *converged* is said only of such a
stretch, a verdict is final.  `Convergence` implements it (`ImplementsGate`):
the moments are the table's changes in sampler periods, the stretch is the one
the streak spans once the tracker has its samples, a wait begun again after
zebra disagreed is `Overrule`.  `Ramp` relies on it for what a wait means.

**`Convergence`** follows one call of `_converge`.  Three actors interleave:
`Dut` (the router), `Sampler` (`Sampler.sample` in two steps, `SampleBgp` and
`SampleRest`, because the summaries are read well before the rest), and
`Waiter` (the polling loop and the question to zebra).  `feed` is one operator
per way out of it (`FeedDown` ... `FeedSettled`), in the order of the code.
Routes are counted in batches that move from `table` over `offered` to
`installs`.  History variables remember what the code cannot know: when the
table moved (`moves`), whether the streak saw trouble (`trouble`), how long
the router has been calm for the waiter (`calmFed`).

**`Predicates`** follows a chaos run.  The clock matters here (grace windows,
the age of a record), so time is a counter in sampler periods.  `CheckNew` and
`CheckFinal` are `check_new` and the last `check`; the events are the flap in
its three steps with its `finally`, the announced restart, and one that does
neither.  `RunGoesOn` and `StopOnViolation` are the end of the loop's body.

**`ConfigChange`** follows the events that commit a change and undo it.  A
commit is `running` while the harness waits; it `Returns`, is `Refused`,
`TimesOut` (and joins `abandoned` if it has not landed yet), or
`RaisesAfterCommit` when reading the log state raises.  Peers of the squeezed
group bounce and trip.  `excuses`, `blind` and `missed` are history variables:
they record the ways, all seen in the code, in which the promise is not kept,
so that the properties say that there are no others.

**`PrefixPlan`** is the class of that name as operators: windows of the prefix
space, the contested pool at its bottom, the exclusive part of a slot above it.
A prefix is written as a pair of block and position; how a pair becomes dotted
digits is the only thing left out.  `Churn` and `Inventory` build on it.

**`Churn`** follows one generator through churns and restarts.  A path in a
gobgpd has a source, the MRT injection or the API, and the documentation leaves
open whether a delete of one finds the other (H-16), so `Matching` is a set of
answers and the properties hold under each.  Every call `Works`, `Fails` or
`TimesOut`; in the last case what was left of it is in `late` and may be done
at any later time.  The events are the four modes of `ev_churn` on both engines
and the two restarts; `pc` is the next of an event's commands (`del`, `readd`,
`fresh`, `load`, `again`, `kill`, `start`), and a batch of adds or deletes is
one step.  `dirty`, `walked`, `used` and `held` are history: whether a call
failed since the table was last empty, whether a walk moved the window, which
fractions were named, and what the last walk left announced.

**`Inventory`** is `build_inventory`: a list of fleets becomes sessions with
addresses, ASNs, containers, ports and slots, one `AddPeer` at a time, in the
order of the code's loops and with its counters; `Finish` is `check_capacity`.
Its initial states are every list of fleets the constants allow; a profile the
code raises a `ProfileError` for is `refused`.  Its specification is named
`ExpansionSpec`, with `ExpansionInit` and `ExpansionTypeOK`, so that one module
of proofs can extend it and `Churn`, which share the lemmas about the plan.

**`PeerFaults`** follows the faults on the peers' side: flaps of the modes that
do not restart a generator, blackholes and netem, the restoring and checking of
addresses after a link flap, an interrupt anywhere, and `make teardown`.  The
calls of a stage form a set, `todo`, and may run in any order, for the code
runs some of them in a loop and the order of the rest does not matter to the
properties; `InTurn` keeps the one order that does.  A teardown is a new
process: it knows the inventory and nothing of the run before.  `luck` is
history: the worst that happened to the calls of the event.

**`Probing`** is the probe command from `_send_all` of the first probe to the
last case of the isolation.  A write is a set of lines in `pipe`; the helper
serves it (`ServeFifo`) any time later, ExaBGP keeps it in `rib` and sends it
whenever a session comes up, the router takes a route, drops it, or resets the
session.  `restart_exabgp` is `kill` and `start`, between which a process may
survive its TERM.  Writes that fail, outlive their timeout (`late`) or go to a
process about to die are upsets; `mishap` is the history that one of them
happened.  `culprits` is what really reset a session since the counter was
read, `residue` what was still in the way at that moment.

**`Sampling`** is one sample in the order of its calls, each of which takes
time: the router is read at one moment and the clock at another, at most
`MaxDelay` later where the code's arithmetic spans the gap.  It has the two
sources of the log with the fallback that is never left again, the main thread
that uses the same one, and `Judge`, the predicates at the end of an event.
The journal answers with a window of time, the file with its last `TailLines`
lines of any age and kind (`tail -n 4000`).  Of a line the moment is kept; the
constant `Warnings` says which lines are watchfrr's, the only kind the
predicates modelled here look at.  `due` is history: the lines that were there
when the log was last read.  So is `excused`: lines of before the first window,
of a read that failed, and of a `Burst`, more lines since the last look than
the end of the file shows.  In those three cases the code loses lines, in the
last without saying so.  A rotation of the file is not modelled.

**`Ramp`** is `cmd_bringup` and `cmd_ramp` with `_start_generators` and the
loading of the tables.  What the world may do at any time (`World`) is to let
sessions come up or go down, kill a generator, boot a helper or publish a
sample; the initial states have generators of before and containers that look
at a stale directory.  Of a table only the source is kept: a file of the size
of the one generated for the session or of another.  The harness compares sizes
only for the sessions `onHost`, whose generated file is on the host; a session
with an `mrt:` of its own, or whose file was removed, is loaded with whatever
its container sees.  `died` is history.

`ConvergenceProofs`, `PredicatesProofs`, `ConfigChangeProofs`,
`PrefixPlanProofs`, `PeerFaultsProofs`, `ProbingProofs`, `SamplingProofs` and
`RampProofs` hold the theorems; `PrefixPlanProofs` has those about the prefix
plan and about the two components built on it, `Inventory` and `Churn`.
`MCChurn`, `MCInventory`, `MCPeerFaults`,
`MCProbing` and `MCRamp` hold the values of constants a configuration file
cannot write.

Planned next: `FibLag` (`feed_fib` with its one clock for two families) as a
part of `Predicates`.

## The runs

| Run | Shows | Bounds |
| --- | --- | --- |
| `convergence` | the gate implements `Gate`: a converged verdict rests on a stretch of this wait in which the table held still; that the gate opens; that a failure is explained | streak of 2, slow sample every 3rd, 6 samples (2 before the wait), 2 upsets |
| `converge_empty_fib` (violation) | a missing BGP row counts as agreement | streak of 3, every 5th, the values of the code |
| `predicates` | restarts reported once and excused once, flaps not faulted, suppression ends | grace 3, recovery 1, record age 1, 4 periods, 3 events, 1 fault |
| `predicates_harness` (violation) | `dut_bgpd_restart` is faulted for its own outage | same |
| `config_change` | between events: the profile's router, armed detectors, no peer left down | 2 peers, 2 events, 3 troubles |
| `churn` | the table is the profile's between events; a walk announces its window and takes back the one before | 4 events, 2 troubles, 4 IPv4 and 3 IPv6 prefixes in spaces of 10 and 8 |
| `inventory` | no endpoint twice; an accepted profile of uniform sessions fits | 1 or 2 fleets, 2 LANs of 4 usable addresses, 16 prefixes |
| `peer_faults` | what was put on is taken back, healed, named or cleared by a teardown | 2 containers, 3 sessions, 2 events, 1 trouble, interrupt, teardown |
| `probing` | who is blamed for a reset; probes gone before malformed cases; a clean slate; everything withdrawn and every session back in the end | 2 probes, 3 cases of two families, 1 upset, 2 writes not yet read |
| `sampling` | no log line between two samples; no impossible CPU time | 3 units of time, slow every 2nd, window 1, margin 2, delay 1, 2 lines of which the file shows 1, 2 upsets |
| `ramp` | a bring-up that returns 0 has loaded its tables; a converged row is whole | 1 gobgp session, its file on the host or not, an ExaBGP container with 2, 2 steps, 2 upsets |
| `ramp_limit` (violation) | a ramp stops at its first step for peers it has not started | same, no upsets |

Six more configurations ask questions whose answer is no; each ends in a
violation that a finding describes: `PredicatesGone` (a failed `/proc` read is
a dead daemon), `ConfigLeftModified` (a fragment left in place without the
flag), `ConfigFloor` (a commit that timed out leaves the detectors blind),
`ChurnWalk` (walks change the size of the table), `ProbingAlone` (a malformed
case is not announced alone) and `SamplingUnjudged` (a kill is not put down to
the watchdog although a record had its line).

Why the bounds are enough.  Six samples hold a streak broken once and built
again, with a slow sample in both; two upsets are what it takes to move the
table and hide it by a failed read, or to move it twice.  Three events are two
that interfere and one to observe it; the proofs remove the bound altogether.
In `ConfigChange` two events let a commit of the first land in the second, and
three troubles let an apply and its revert time out and a third thing fail.
In `Churn` a prefix space of ten makes windows meet the end of the space and
each other within four events; two troubles are an add and a delete of one
walk, or one each of two.  In `Inventory` two fleets are what it takes for two
allocations to meet, and four addresses make a LAN run out.  In `PeerFaults`
two containers give one with two sessions, which share everything, and one
beside it; two events let the shells of the first land in the second, and the
run also passes with two troubles (19 million states).
In `Probing` two probes are one that is accepted and one that is not, three
cases one that resets the session, one whose withdrawal does not clear it and
one of the other family that is tried only by name; a helper two writes behind
has an announcement and its withdrawal unread, or a pass and the next.  In
`Sampling` three units hold two slow samples with a quick one between them (a
sample may take no time at all) and a window that no longer reaches the first
line; of two lines the file shows one, so that a read of it finds a burst, or
only what the journal left unread; without the excuse for a burst TLC finds the
lost line.  The margin is the least the property allows, twice the delay, and
with one less TLC finds a line that nobody reads.  In `Ramp` waves of every width meet a
container whose two sessions share one generator, so that a wave starts a
session of the next; two upsets are a table that cannot be loaded and a read
that does not notice; one gobgp session has a file in its container that is
right, stale or missing and one on the host or none.
The upsets, faults and troubles are the only bounds on the environment: in all
modules the router moves between any two steps of the harness.

Fairness is stated by `Probing` alone, for `RoutesLeave` and `SessionsReturn`:
weak fairness of `ServeFifo` of each process (the helper loops over its FIFO for
ever), of `Connect` per family (ExaBGP reconnects without a limit), of
`HearWithdrawn` per item (BGP delivers over TCP) and of the harness, which is a
straight line of calls with timeouts.  The action of the environment that loses
a session is not fair and spends the upsets, a lost write stays lost.

The liveness question of `Convergence`, does the gate open, is asked as a
safety property with a bound, `PromptVerdict`: a waiter that sees every sample
of a settled router waits for fewer than `GateOpensWithin` of them.  That is
stronger than *eventually*, and it does not need the sampler or the waiter to
be scheduled fairly.  `GateOpensWithin` is the bound that the proof gives; the
one first written down was too small where every sample is slow and one
unchanged sample is enough, for the install counter is compared between two.

`CHECK_DEADLOCK FALSE` is set because every module follows one call, one run,
one command or one expansion, which ends, and because the bounds stop it.

## What is proved

For every value of the constants that satisfies the module's `ASSUME`:

- `Convergence`: `TypeOK`, `TableHeldStill`, `StreakIsClean`, `FreshEvidence`,
  `PromptVerdict` and `FailureIsExplained`. `TableHeldStill` is not inductive.
  The strengthening (`KeysInv`) orders four readings of the table that exist at
  the same time, the tracker's key, the latest record, the draft and the table
  itself: between two of them the later is strictly larger if the table moved
  in between, so equal keys mean a table that held still. `TicksInv` keeps the
  samples in order, `StreakInv` relates the streak's length to the samples it
  spans. `PromptVerdict` follows what a calm router shows: a calm record says
  of the router what is still true (`CalmInv`), so the waiter sees the same
  table in a row, and `SeenInARow` counts: the streak is at most one slow
  period behind, the install counter has stood still since the last slow
  sample, and after two of them the FIB was seen. `ExplainInv` carries the
  reason over a reset of the tracker. `GateImplemented` is the refinement: one
  lemma per actor maps its steps to steps of `Gate` or stutters, and the only
  hard one, a `feed` that completes the streak, maps to `PointAt` because
  `TableHeldStill` and `FreshEvidence` hold after it. `StreakIsClean` and
  `FreshEvidence` are stated by no run of their own: the refinement implies
  what they are for, and they are proved.
- `Predicates`: `TypeOK`, all four safety properties, and the invariants
  behind them.  `FlapIsNotAFault` rests on `PredicatesAssumption`: the grace
  window is longer than the peers need to come back plus the age of the record
  that is judged.  The code passes 60 s; the comment in `ev_peer_flap` puts
  recovery at 46 s at most and the sampler's period is 2 or 3 s, but nothing
  enforces it.  The argument (`FlapInv`) is that a record which saw a flapped
  peer was begun at a moment that is covered by the window with `MaxAge` to
  spare.  `RestartsFormChain` needs `PidsInv`: the pid known to the
  predicates, the one in the latest record and the router's only grow.
- `ConfigChange`: `TypeOK` and its three safety properties.
  `RunMeasuresProfile` follows from `ProfileInv` (a fragment in place is the
  event's own, a late commit's, or flagged) and `RaisingInv`, which needs
  `RunningInv`, the shape of a commit in flight.  `DetectorsArmed` follows from
  `BlindInv` (the floor or a debug flag is lost only through a commit that
  timed out or a read that raised), `NoPeerLeftOver` from `StagesInv` and
  `OverInv`, which say at which stages a peer may be down or over its limit.
- `PrefixPlan`: `AtOneToOne` (two indices of a family are two prefixes),
  `SlicesDisjoint` (the exclusive parts of two slots do not meet as long as
  they fit the space) and `ExclusiveAboveThePool`.
- `Churn`: `TypeOK` and all three properties, from `ChurnAssumption`, which
  includes `WindowsFit`: the windows of a profile's churns fit the exclusive
  part of its sessions.  Nothing in the code checks that; the profiles have it.
  `CleanInv` says that no shell is left over while nothing failed; `SteadyInv`,
  `WalkInv`, `HeldInv` and `DriftInv` follow the table through the commands of
  an event, that is, what is announced between a delete and its add.
- `Inventory`: `ExpansionTypeOK`, `EndpointsDistinct` and `UniformIsExact`.
  `CursorInv` keeps the cursor of a LAN above the addresses given from it,
  `PlaceInv` says where in the profile a session came from, which is what tells
  two ports of a container apart. That `next_safe_asn` finds an ASN needs a
  least natural that no range holds; the lemma is proved by well-founded
  induction over the naturals. `UniformIsExact` needs two things. Of equal
  sizes `check_capacity`'s sum is their number times one of them (`UniformSum`,
  by a least counterexample, for induction as a rule is out of the provers'
  reach), so the last slot ends within the space. And the indices of a window
  are one to one: the exclusive ones lie within one turn of the space, above
  the pool, and the contested ones go round a pool that is no smaller than
  their number.
- `PeerFaults`: `TypeOK` and all five properties.  The idea is `Owed`: a call
  that put something on is owed until the call that takes it back was made, by
  this event, or after an interrupt by a teardown.  `LinkInv`, `DisabledInv`,
  `QdiscInv` and `RulesInv` say that whatever is in place is owed, for rules
  that there are no more of them than sessions that owe one; the lemma
  `OwedLasts` goes through all actions once for the four.  `HealInv` and
  `NamedInv` follow the addresses of a link flap from `linkup` over the read
  to the repair and the check.  `QuietInv` relates the history of the calls to
  the shells that may still run.
- `Probing`: `TypeOK` and the four safety properties, one of them an action
  property.  `BlameIsEarned` follows from `BlameInv`: while a case is under
  test only it and what was in the way when the counter was read can reset a
  session, and a counter that moved has a cause (`HasCause`).  `BurstInv` is
  the same for the burst.  `CleanSlate` needs `ProcsInv` (one process, but
  between TERM and start) and `SlateInv`.  `ProbesGoneFirst` needs `OrderInv`,
  an invariant of the FIFO: each probe has left no trace, or its withdrawal is
  on the way ahead of every case and nothing after it announces it again.
- `Sampling`: `TypeOK`, `EveryLineRead` and `CpuIsPossible`.  `ClockInv` puts
  the moment of a read at most one delay before its clock.  `CpuInv` says so
  of the baseline: what its ticks stand for lies within a delay before its
  clock, as long as the daemon of that pid lives and whenever a later read of
  it exists, so that a difference of two reads errs by one delay.  `LinesInv`
  says that every line older than one delay before `_last_log_read` is
  accounted for; `WindowMeetsTheLast` is the lemma that a next window, which
  reaches back to there and a margin further, leaves no gap when the margin
  covers a delay at either end.  For the file it says that the lines not
  accounted for are the latest ones; `TailMeetsTheLast` counts them: when there
  are no more than the file shows, the last lines of the file hold them all.
- `Ramp`: `TypeOK`, `ExitZeroIsLoaded` and `ConvergedRowsAreWhole`.  The exit
  code says what was counted (`ExitInv`): nothing failed and every gobgp
  session was injected.  `LoadedInv` turns an injection into a table with the
  file of its session, `FilesInv` makes that file one of the size generated for
  it where that is on the host, and one that is there at all otherwise, which
  is the only use of the checks before: without them a stale directory is
  loaded.  `ConvergedRowsAreWhole` is inductive with `TypeOK`: the count of
  established sessions alone would let a session of a wave still to come stand
  in for one that is down, the condition that no peer failed does not.

Only model-checked: `RoutesLeave` and `SessionsReturn`, for liveness under
fairness is out of the prover's reach.  The runs that expect a violation need
nothing but their counterexample.

## Disagreements with the documentation

Three runs end in a violation, each of one sentence of the repository's
documentation; the `findings` of `PROJECT.json` quote the lines.  In short: an
empty FIB passes the gate; a restart the harness made is faulted; a ramp that
starts fewer than all sessions stops at its first step.  The configurations
named under the table of runs show six more.

Other findings were read in the code while it was modelled, and need no run:

- run loop: what `check_new` has put aside before a stop is reported nowhere;
  the loop's abort does not stop the run's last phases;
- profiles: `check_capacity` sums exclusive parts that wrap around the space;
  two fleets of one id give two sessions one `sid`;
- peers: a link left down after a flap is not named, only addresses are; a
  teardown says it cleared impairments it leaves in place; an ineffective flap
  is never counted as one;
- sampling: one journal read that fails makes every later slow sample count
  historical lines, which the predicates take for new ones, and of these only
  the last 4000, so that a burst between two samples is lost unnoticed; the log
  windows hold together only while calls are faster than the margin; `feed_fib`
  keeps one clock for two families;
- bring-up: the size of a table is not compared when the generated file is
  missing on the host, so that a stale one passes and the exit code is 0;
- ramp: the last good step may be the one that failed; the results of starting
  generators and loading tables are dropped; a helper's log of the run before
  speaks for the one that runs;
- probes: `--keep-probes` does not keep them; a probe that expects a reject
  passes when nothing was announced or looked up; the session check after the
  burst is for IPv4 only; `restart_exabgp` may leave the old process.

## Not modelled

Post-processing (`analysis/`), the wire encoders, text rendering, the remaining
commands and the shell scripts keep no state that a step of another actor could
disturb: a function from files to a report has nothing a model checker reaches.
Parsing of the router's output appears only as its results: read, unreadable,
or without the field.  Two address families are one where the code treats them
alike.  Memory budgets and the thresholds of log signatures in the predicates
are comparisons of one record with a number.  An interrupt by the operator is
modelled where it leads to a verdict (`Predicates`, `Ramp`) and where it leaves
a fault in place (`PeerFaults`), not in `ConfigChange`.  `PROJECT.json` lists
every component and every hazard, the ones no property covers yet included.
