---------------------------- MODULE Convergence ----------------------------
(***************************************************************************)
(* The convergence gate of the harness: the telemetry sampler              *)
(* (harness/telemetry.py, Sampler.sample), the tracker that turns samples  *)
(* into a verdict (ConvergenceTracker.feed), the loop that polls the       *)
(* sampler (wait_for_convergence) and the caller that lets zebra overrule  *)
(* the verdict (harness/runner.py, _converge and _fib_agrees).  Beside     *)
(* them runs the router under test, which changes whenever it likes.       *)
(*                                                                         *)
(* Three threads of control interleave: the router, the sampling thread    *)
(* and the waiting thread.  A sample is not atomic: the BGP summaries are  *)
(* read first, /proc and zebra after them, and only then is the record     *)
(* published as Sampler.latest.                                            *)
(*                                                                         *)
(* Abstractions.  The routes are counted in batches: bgpd has learned      *)
(* `table' of them, has handed `offered' of those to zebra, and zebra has  *)
(* installed `installs' of those in the FIB.  The tracker's key            *)
(* (tableVersion and pfxRcd of both families) is `table' itself, so two    *)
(* equal keys are the same table: a restarted bgpd that counts back up to  *)
(* exactly the same four numbers is left out.  Time is counted in sampler  *)
(* periods, and a deadline may pass at any moment.                         *)
(***************************************************************************)
EXTENDS Integers

CONSTANTS
    StableSamples,   \* ConvergenceTracker.stable_samples
    SlowEvery,       \* Sampler.slow_every
    RequireQuiet,    \* ConvergenceTracker.require_quiet
    MaxEarly,        \* bound: samples taken before _converge is called
    MaxSamples,      \* bound: samples taken
    MaxUpsets        \* bound: disturbances of the router or of a reading

ASSUME ConvergenceAssumption ==
    /\ StableSamples \in Nat \ {0}
    /\ SlowEvery \in Nat \ {0}
    /\ RequireQuiet \in BOOLEAN
    /\ MaxEarly \in Nat
    /\ MaxSamples \in Nat
    /\ MaxUpsets \in Nat

VARIABLES
    alive,           \* the DUT container runs
    sessions,        \* every expected session is Established
    cpuBusy,         \* bgpd is at or above busy_cpu_pct
    table,           \* batches bgpd has learned (ribCount)
    offered,         \* batches bgpd has handed to zebra
    installs,        \* batches zebra has installed (route_installs)
    upsets,          \* disturbances so far
    moves,           \* history: Sampler._n at each change of the table
    n,               \* Sampler._n: samples begun
    draft,           \* the BGP half of the sample being taken, or NoDraft
    latest,          \* Sampler.latest
    pc,              \* where _converge is
    last,            \* wait_for_convergence's `last', by its tick
    startedAt,       \* Sampler._n when this wait began (its t0)
    firstTick,       \* history: the sample that opened the streak
    trouble,         \* history: a sample fed since then showed trouble
    calmDraft, calmLatest,  \* history: no upset since that sample was begun
    calmFed,         \* history: samples fed in a row since the last upset
    streak, lastKey, lastInstalls, fibSeen, reason,   \* the tracker
    sticky,          \* _converge's reason for rejecting a candidate
    fibDetail,       \* what the last _fib_agrees found
    verdict          \* what _converge returned

dutVars     == <<alive, sessions, cpuBusy, table, offered, installs, moves>>
samplerVars == <<n, draft, latest, calmDraft, calmLatest>>
trackerVars == <<firstTick, trouble, calmFed, streak, lastKey, lastInstalls,
                 fibSeen, reason>>
callVars    == <<pc, last, startedAt, sticky, fibDetail, verdict>>
vars        == <<dutVars, upsets, samplerVars, trackerVars, callVars>>

(***************************************************************************)
(* Samples.  NoVersion stands for a summary that parsed but carries no     *)
(* tableVersion, Absent for a counter the record does not carry.           *)
(***************************************************************************)
NoVersion == -1
Absent    == -1
NoDraft   == [readOk |-> FALSE, key |-> -2, sessions |-> FALSE]
NoReason  == "none"

Draft  == [readOk : BOOLEAN, key : Int, sessions : BOOLEAN]
Sample == [tick : Nat, down : BOOLEAN, readOk : BOOLEAN, key : Int,
           sessions : BOOLEAN, cpuBusy : BOOLEAN, queued : BOOLEAN,
           installs : Int]
NoSample == [tick |-> 0, down |-> TRUE, readOk |-> FALSE, key |-> NoVersion,
             sessions |-> FALSE, cpuBusy |-> FALSE, queued |-> FALSE,
             installs |-> Absent]
Reasons == {NoReason, "down", "read_failed", "busy", "sessions",
            "stabilising", "fib_reading"}

Init ==
    /\ alive = TRUE /\ sessions = TRUE /\ cpuBusy = FALSE
    /\ table \in 0..1 /\ offered = 0 /\ installs = 0
    /\ upsets = 0 /\ moves = {}
    /\ n = 0 /\ draft = NoDraft /\ latest = NoSample
    /\ calmDraft = FALSE /\ calmLatest = FALSE
    /\ pc = "idle" /\ last = 0 /\ startedAt = 0
    /\ firstTick = 0 /\ trouble = FALSE /\ calmFed = 0
    /\ streak = 0 /\ lastKey = NoVersion /\ lastInstalls = Absent
    /\ fibSeen = FALSE /\ reason = NoReason
    /\ sticky = NoReason /\ fibDetail = "none" /\ verdict = "none"

----------------------------------------------------------------------------
(***************************************************************************)
(* The router under test.  Learning routes, losing a session, burning CPU  *)
(* or dying counts against MaxUpsets; working a backlog off does not.      *)
(***************************************************************************)
Upset == upsets < MaxUpsets /\ upsets' = upsets + 1

LearnRoutes ==
    /\ Upset
    /\ alive
    /\ table' = table + 1
    /\ moves' = moves \cup {n}
    /\ UNCHANGED <<alive, sessions, cpuBusy, offered, installs>>

SessionsChange ==
    /\ Upset
    /\ sessions' = ~sessions
    /\ UNCHANGED <<alive, cpuBusy, table, offered, installs, moves>>

CpuChanges ==
    /\ Upset
    /\ cpuBusy' = ~cpuBusy
    /\ UNCHANGED <<alive, sessions, table, offered, installs, moves>>

ContainerStopsOrStarts ==
    /\ Upset
    /\ alive' = ~alive
    /\ UNCHANGED <<sessions, cpuBusy, table, offered, installs, moves>>

\* bgpd runs bestpath and hands a batch to zebra.  In read-only mode
\* (update-delay) it does not, and idles.
HandToZebra ==
    /\ alive /\ offered < table
    /\ offered' = offered + 1
    /\ UNCHANGED <<alive, sessions, cpuBusy, table, installs, moves, upsets>>

ZebraInstalls ==
    /\ alive /\ installs < offered
    /\ installs' = installs + 1
    /\ UNCHANGED <<alive, sessions, cpuBusy, table, offered, moves, upsets>>

Dut ==
    /\ \/ LearnRoutes \/ SessionsChange \/ CpuChanges
       \/ ContainerStopsOrStarts \/ HandToZebra \/ ZebraInstalls
    /\ calmDraft' = FALSE /\ calmLatest' = FALSE /\ calmFed' = 0
    /\ UNCHANGED <<n, draft, latest, callVars, firstTick, trouble, streak,
                   lastKey, lastInstalls, fibSeen, reason>>

----------------------------------------------------------------------------
(***************************************************************************)
(* Sampler.sample                                                          *)
(***************************************************************************)
Slow == (n - 1) % SlowEvery = 0

BeginSample ==
    /\ draft = NoDraft
    /\ n < IF pc = "idle" THEN MaxEarly ELSE MaxSamples
    /\ n' = n + 1

Publish(rec, calm) == latest' = rec /\ calmLatest' = calm

SampleDown ==
    /\ BeginSample
    /\ ~alive
    /\ Publish([tick |-> n + 1, down |-> TRUE, readOk |-> FALSE,
                key |-> NoVersion, sessions |-> FALSE, cpuBusy |-> FALSE,
                queued |-> FALSE, installs |-> Absent], FALSE)
    /\ UNCHANGED <<draft, calmDraft, upsets>>

\* alive() was true; the two BGP summaries are read.  A read that fails, or
\* a reply without a tableVersion, is a disturbance.
SampleBgp ==
    /\ BeginSample
    /\ alive
    /\ \/ /\ draft' = [readOk |-> TRUE, key |-> table, sessions |-> sessions]
          /\ calmDraft' = TRUE
          /\ UNCHANGED upsets
       \/ /\ Upset
          /\ calmDraft' = FALSE
          /\ \/ draft' = [readOk |-> FALSE, key |-> NoVersion,
                          sessions |-> FALSE]
             \/ draft' = [readOk |-> TRUE, key |-> NoVersion,
                          sessions |-> sessions]
    /\ UNCHANGED <<latest, calmLatest>>

\* /proc, and on a slow sample zebra and its dataplane, are read some time
\* after the summaries; then the record is published.
SampleRest ==
    /\ draft # NoDraft
    /\ \E queued \in IF alive /\ Slow /\ installs < offered
                       THEN BOOLEAN ELSE {FALSE},
          zebraOk \in IF alive /\ Slow THEN BOOLEAN ELSE {FALSE} :
         /\ IF alive /\ Slow /\ ~zebraOk THEN Upset ELSE UNCHANGED upsets
         /\ Publish([tick |-> n, down |-> FALSE, readOk |-> draft.readOk,
                     key |-> draft.key, sessions |-> draft.sessions,
                     cpuBusy |-> alive /\ cpuBusy, queued |-> queued,
                     installs |-> IF zebraOk THEN installs ELSE Absent],
                    calmDraft /\ (Slow => zebraOk))
    /\ draft' = NoDraft /\ calmDraft' = FALSE
    /\ UNCHANGED n

\* An exception in sample(): _loop records a sampler_error and goes on.
SampleRaises ==
    /\ draft # NoDraft
    /\ Upset
    /\ draft' = NoDraft /\ calmDraft' = FALSE /\ calmLatest' = FALSE
    /\ UNCHANGED <<n, latest>>

Sampler ==
    /\ SampleDown \/ SampleBgp \/ SampleRest \/ SampleRaises
    /\ UNCHANGED <<dutVars, trackerVars, callVars>>

----------------------------------------------------------------------------
(***************************************************************************)
(* ConvergenceTracker                                                      *)
(***************************************************************************)
\* ConvergenceTracker.reset
TrackerReset ==
    /\ streak' = 0 /\ firstTick' = 0 /\ trouble' = FALSE /\ calmFed' = 0
    /\ lastKey' = NoVersion /\ lastInstalls' = Absent
    /\ fibSeen' = FALSE /\ reason' = NoReason

\* busy() returns before it looks at the install counter when bgpd is busy
\* or the dataplane queue is not empty.
ReadsInstalls(rec) ==
    RequireQuiet /\ ~rec.cpuBusy /\ ~rec.queued /\ rec.installs # Absent
\* Mutant: a reading behind bgpd's table counts as still moving (H-52).
BehindRib(rec) == ReadsInstalls(rec) /\ rec.installs # rec.key
InstallsMoved(rec) ==
    ReadsInstalls(rec) /\ lastInstalls \notin {Absent, rec.installs}
SawFib(rec) == ReadsInstalls(rec) /\ lastInstalls = rec.installs
Busy(rec) ==
    RequireQuiet /\ (rec.cpuBusy \/ rec.queued \/ InstallsMoved(rec))
NotesInstalls(rec) ==
    lastInstalls' = IF ReadsInstalls(rec) THEN rec.installs ELSE lastInstalls

\* Mutants: a bad sample costs one sample, or nothing.
StreakDecays == streak' = streak - 1 /\ firstTick' = 0
StreakHeld   == UNCHANGED <<streak, firstTick>>
StreakBroken == streak' = 0 /\ firstTick' = 0

\* Mutant: any earlier table will do.
SomeTable(rec) == lastKey # NoVersion
SameTable(rec) == rec.key = lastKey

\* feed(), one operator per way out of it, in the order of the code.
FeedDown(rec) ==
    /\ rec.down
    /\ StreakBroken
    /\ reason' = "down"
    /\ UNCHANGED <<lastKey, lastInstalls, fibSeen>>

FeedReadFailed(rec) ==
    /\ ~rec.down /\ ~rec.readOk
    /\ reason' = "read_failed"
    /\ UNCHANGED <<streak, firstTick, lastKey, lastInstalls, fibSeen>>

FeedBusy(rec) ==
    /\ ~rec.down /\ rec.readOk /\ Busy(rec)
    /\ NotesInstalls(rec)
    /\ StreakBroken
    /\ reason' = "busy"
    /\ UNCHANGED <<lastKey, fibSeen>>

FeedNoVersion(rec) ==
    /\ ~rec.down /\ rec.readOk /\ ~Busy(rec)
    /\ rec.key = NoVersion
    /\ NotesInstalls(rec) /\ fibSeen' = (fibSeen \/ SawFib(rec))
    /\ StreakBroken
    /\ lastKey' = rec.key
    /\ reason' = NoReason

FeedSessionsDown(rec) ==
    /\ ~rec.down /\ rec.readOk /\ ~Busy(rec)
    /\ rec.key # NoVersion /\ ~rec.sessions
    /\ NotesInstalls(rec) /\ fibSeen' = (fibSeen \/ SawFib(rec))
    /\ StreakBroken
    /\ lastKey' = rec.key
    /\ reason' = "sessions"

FeedSettled(rec) ==
    /\ ~rec.down /\ rec.readOk /\ ~Busy(rec)
    /\ rec.key # NoVersion /\ rec.sessions
    /\ NotesInstalls(rec)
    /\ IF SameTable(rec)
         THEN /\ streak' = streak + 1
              /\ firstTick' = IF streak = 0 THEN rec.tick ELSE firstTick
              /\ fibSeen' = (fibSeen \/ SawFib(rec))
         ELSE /\ streak' = 1
              /\ firstTick' = rec.tick
              /\ fibSeen' = FALSE
    /\ lastKey' = rec.key
    /\ reason' = CASE streak' < StableSamples -> "stabilising"
                   [] streak' >= StableSamples /\ RequireQuiet /\ ~fibSeen'
                        -> "fib_reading"
                   [] OTHER -> NoReason

FeedInconclusive(rec) ==
    \/ FeedDown(rec) \/ FeedReadFailed(rec) \/ FeedBusy(rec)
    \/ FeedNoVersion(rec) \/ FeedSessionsDown(rec)

Confirmed == streak >= StableSamples /\ (RequireQuiet => fibSeen)

\* What the record itself shows, whatever the tracker makes of it.
ShowsTrouble(rec) ==
    \/ rec.down
    \/ rec.readOk /\ \/ rec.key = NoVersion \/ ~rec.sessions
                     \/ RequireQuiet /\ (rec.cpuBusy \/ rec.queued)

Remembers(rec) ==
    /\ trouble' = (ShowsTrouble(rec) \/ (trouble /\ firstTick' = firstTick))
    /\ calmFed' = IF ~calmLatest THEN 0
                  ELSE IF last + 1 = rec.tick THEN calmFed + 1 ELSE 1

----------------------------------------------------------------------------
(***************************************************************************)
(* wait_for_convergence and _converge                                      *)
(***************************************************************************)
\* The head of wait_for_convergence: tracker.reset(), t0, last = {}.
BeginWait ==
    /\ TrackerReset
    /\ startedAt' = n
    /\ last' = 0
    /\ pc' = "waiting"

StartConverge ==
    /\ pc = "idle"
    /\ BeginWait
    /\ UNCHANGED <<sticky, fibDetail, verdict, upsets>>

\* Mutant: the record is fed again on every poll.
AnySample == latest.tick # 0
NewSample == latest.tick # 0 /\ latest.tick # last

\* One round of the polling loop that finds a new record in Sampler.latest.
Poll ==
    /\ pc = "waiting"
    /\ NewSample
    /\ last' = latest.tick
    /\ \/ FeedInconclusive(latest) /\ UNCHANGED pc
       \/ /\ FeedSettled(latest)
          /\ pc' = IF Confirmed' THEN "asking" ELSE pc
    /\ Remembers(latest)
    /\ UNCHANGED <<startedAt, sticky, fibDetail, verdict, upsets>>

Deadline ==
    /\ pc = "waiting"
    /\ pc' = "done"
    /\ verdict' = "not_converged"
    /\ UNCHANGED <<last, startedAt, sticky, fibDetail, upsets, trackerVars>>

\* _fib_agrees.  The two address families are asked in turn and the first
\* short one decides; one family stands for both here.  A FIB below
\* fib_min_ratio of zebra's own routes is one batch short.
FibDetail(readable) ==
    CASE lastKey = 0 -> "rib_empty"
      [] lastKey # 0 /\ ~readable -> "unreadable"
      [] lastKey # 0 /\ readable /\ offered = 0 -> "no_bgp_row"
      [] OTHER -> IF installs < offered THEN "short" ELSE "installed"

Agrees(detail) == detail # "short"

AskZebra ==
    /\ pc = "asking"
    /\ \E readable \in IF alive THEN BOOLEAN ELSE {FALSE} :
         /\ IF alive /\ ~readable THEN Upset ELSE UNCHANGED upsets
         /\ fibDetail' = FibDetail(readable)
    /\ IF Agrees(fibDetail')
         THEN /\ pc' = "done" /\ verdict' = "converged"
              /\ UNCHANGED <<last, startedAt, sticky, trackerVars>>
         ELSE /\ sticky' = "fib_short"
              /\ BeginWait
              /\ UNCHANGED verdict

\* Mutant: the tracker's last word only (H-53).
BlockedByTracker == reason

\* `reason' in _converge: what it reports when it did not converge.
BlockedBy == IF sticky # NoReason THEN sticky ELSE reason

Waiter ==
    /\ StartConverge \/ Poll \/ Deadline \/ AskZebra
    /\ UNCHANGED <<dutVars, samplerVars>>

\* The model follows one call of _converge, from some time before it.
Next == pc # "done" /\ (Dut \/ Sampler \/ Waiter)

Spec == Init /\ [][Next]_vars

----------------------------------------------------------------------------
FlagsOK ==
    /\ alive \in BOOLEAN /\ sessions \in BOOLEAN /\ cpuBusy \in BOOLEAN
    /\ calmDraft \in BOOLEAN /\ calmLatest \in BOOLEAN
    /\ trouble \in BOOLEAN /\ fibSeen \in BOOLEAN

RecordsOK == draft \in Draft /\ latest \in Sample

CountsOK ==
    /\ table \in Nat /\ offered \in Nat /\ installs \in Nat
    /\ upsets \in Nat /\ n \in Nat /\ moves \subseteq Nat
    /\ last \in Nat /\ startedAt \in Nat
    /\ firstTick \in Nat /\ calmFed \in Nat
    /\ streak \in Nat /\ lastKey \in Int /\ lastInstalls \in Int

StatesOK ==
    /\ pc \in {"idle", "waiting", "asking", "done"}
    /\ reason \in Reasons
    /\ sticky \in {NoReason, "fib_short"}
    /\ fibDetail \in {"none", "rib_empty", "unreadable", "no_bgp_row",
                      "short", "installed"}
    /\ verdict \in {"none", "converged", "not_converged"}

TypeOK == FlagsOK /\ RecordsOK /\ CountsOK /\ StatesOK

(***************************************************************************)
(* Properties                                                              *)
(***************************************************************************)
\* A candidate for `converged' rests on one table: between the reading of
\* the summaries for the sample that opened the streak and for the one that
\* closed it, the router's table did not move, not even in the samples the
\* polling loop never saw.  (feed compares keys; wait_for_convergence skips
\* records; sample() reads the summaries before everything else.)
TableHeldStill ==
    pc = "asking" => ~ \E m \in moves : firstTick <= m /\ m < last

\* No sample of the streak showed the router down, busy, without a table or
\* short of a session: every such sample breaks the streak, and only a
\* failed read holds it (feed's early returns, H-43).
StreakIsClean == pc = "asking" => ~trouble

\* The verdict is not taken from old samples: the streak spans at least
\* StableSamples different samples, and of those at most two had their
\* summaries read before the wait began: the record found in Sampler.latest
\* and the one being taken.
FreshEvidence ==
    pc = "asking" =>
        /\ last >= firstTick + StableSamples - 1
        /\ StableSamples > 1 => last >= startedAt + StableSamples - 2

\* The gate opens: once the router is settled and every reading succeeds,
\* a waiter that misses no sample holds out for less than this many.  (The
\* first slow sample may still show the install counter moving, and that
\* breaks the streak; from there the streak grows and the next slow sample
\* confirms, or the one after it if every sample is slow: H-41 and H-43.)
SettledDut == /\ alive /\ sessions /\ ~cpuBusy
              /\ installs = offered
Larger(a, b) == IF a > b THEN a ELSE b
GateOpensWithin ==
    SlowEvery + Larger(StableSamples, Larger(SlowEvery, 2))
PromptVerdict ==
    pc = "waiting" /\ SettledDut => calmFed < GateOpensWithin

\* A wait that failed says what blocked it, if it saw a sample or zebra
\* overruled it; only a summary without a tableVersion goes unexplained.
\* (H-53: the reason used to be overwritten by the next sample.)
FailureIsExplained ==
    verdict = "not_converged" /\ (last # 0 \/ fibDetail # "none")
        => BlockedBy # NoReason \/ (last # 0 /\ lastKey = NoVersion)

\* FINDINGS.md H-50: an empty route summary, while bgpd claims routes, is
\* not agreement.
EmptyFibBlocks ==
    verdict = "converged" /\ lastKey > 0 /\ fibDetail # "unreadable"
        => installs > 0

(***************************************************************************)
(* Gate is what a caller of _converge relies on.  The gate points at the   *)
(* samples of a confirmed streak, from the moment the tracker confirms it  *)
(* until zebra overrules it.                                               *)
(***************************************************************************)
PointedAt ==
    IF pc = "asking" \/ verdict = "converged"
      THEN [from |-> firstTick, to |-> last]
      ELSE [from |-> -1, to |-> -1]

G == INSTANCE Gate WITH
       Span    <- StableSamples - 1,
       now     <- n,
       begun   <- IF pc = "idle" THEN -1 ELSE startedAt,
       stretch <- PointedAt

\* Sampling, polling, the tracker and zebra's second opinion together do
\* what Gate promises: `converged' is only ever said of StableSamples
\* periods of this wait in which the table did not move, never of evidence
\* gathered before zebra overruled the gate, and it is not taken back.
\* (_converge resets the tracker when it rejects a candidate.)
ImplementsGate == G!Spec

----------------------------------------------------------------------------
(***************************************************************************)
(* The inductive invariant behind TableHeldStill, StreakIsClean and        *)
(* FreshEvidence.  It orders four readings of the table that exist at the  *)
(* same time: the tracker's key, Sampler.latest, the draft and the table   *)
(* itself.  Between two of them the later one is larger whenever the table *)
(* moved in between, so equal keys mean a table that held still.           *)
(***************************************************************************)
Versioned(rec) == rec.readOk /\ rec.key # NoVersion

\* The key read at sample `from' and the one read at sample `to'.
Ordered(from, key, to, laterKey) ==
    /\ key <= laterKey
    /\ \A m \in moves : from <= m /\ m < to => key < laterKey

\* The key read at sample `from' and the table as it is now.
UpToNow(from, key) ==
    /\ key <= table
    /\ \A m \in moves : from <= m => key < table

TicksInv ==
    /\ latest.tick <= n /\ last <= latest.tick /\ startedAt <= n
    /\ draft # NoDraft => latest.tick < n
    /\ \A m \in moves : m <= n
    /\ last # 0 /\ latest.tick # last => latest.tick >= startedAt

StreakInv ==
    /\ streak = 0 => firstTick = 0
    /\ streak > 0 => /\ ~trouble
                     /\ 0 < firstTick /\ streak <= last - firstTick + 1
    /\ streak > 1 => last >= startedAt + streak - 2

KeysInv ==
    /\ Versioned(draft)  => UpToNow(n, draft.key)
    /\ Versioned(latest) => UpToNow(latest.tick, latest.key)
    /\ Versioned(latest) /\ Versioned(draft)
          => Ordered(latest.tick, latest.key, n, draft.key)
    /\ streak > 0 => UpToNow(firstTick, lastKey)
    /\ streak > 0 /\ Versioned(latest)
          => Ordered(firstTick, lastKey, latest.tick, latest.key)
    /\ streak > 0 /\ Versioned(draft)
          => Ordered(firstTick, lastKey, n, draft.key)

AskedInv == pc = "asking" => streak >= StableSamples /\ TableHeldStill

IInv == TypeOK /\ TicksInv /\ StreakInv /\ KeysInv /\ AskedInv

\* The invariants behind PromptVerdict.  A calm record shows the router as it
\* still is.  Calm records in a row: all but the first slow one extend the
\* streak, that one leaves its counter behind, and a later slow one sees it
\* again, on the table of the streak.
SinceSlow(tick) == (tick - 1) % SlowEvery

CalmInv ==
    /\ calmDraft =>
         draft.readOk /\ draft.key = table /\ draft.sessions = sessions
    /\ calmLatest =>
         /\ ~latest.down /\ latest.readOk
         /\ latest.key = table /\ latest.sessions = sessions
         /\ latest.cpuBusy => cpuBusy
         /\ latest.queued => installs < offered
         /\ latest.installs =
              IF SinceSlow(latest.tick) = 0 THEN installs ELSE Absent

SeenInARow ==
    /\ last > 0
    /\ streak >= calmFed - SlowEvery
    /\ \/ lastKey = table
       \/ calmFed = 1 /\ RequireQuiet /\ lastInstalls = installs
    /\ RequireQuiet =>
         /\ calmFed > SinceSlow(last) => lastInstalls = installs
         /\ calmFed > SinceSlow(last) + Larger(SlowEvery, 2) => fibSeen

PromptInv ==
    /\ pc = "waiting" => ~Confirmed
    /\ calmFed > 0 /\ SettledDut => SeenInARow

\* The invariant behind FailureIsExplained: sticky outlives the tracker's
\* reset, and a sample that does not close the wait leaves a reason.
ExplainInv ==
    /\ verdict # "none" => pc = "done"
    /\ fibDetail # "none" /\ verdict # "converged" => sticky # NoReason
    /\ last # 0 /\ (pc = "waiting" \/ verdict = "not_converged")
          => reason # NoReason \/ lastKey = NoVersion
=============================================================================
