----------------------------- MODULE Predicates -----------------------------
(***************************************************************************)
(* The failure predicates of a chaos run: PredicateSet.check and check_new *)
(* (harness/telemetry.py), fed by the sampler, called by the loop of       *)
(* cmd_run (harness/runner.py) at the end of every event and once more     *)
(* when the run ends, while the events (harness/scenarios.py) take peers   *)
(* down and restart FRR on purpose and the router has faults of its own.   *)
(*                                                                         *)
(* The verdict of a run is what these predicates report, so they must tell *)
(* the harness's doing from the router's.  They only see samples: records  *)
(* read some time before they are judged, at the boundary of an event.     *)
(*                                                                         *)
(* Abstractions.  One daemon, bgpd, stands for the three whose pids are    *)
(* tracked; one address family for both; what a slow sample adds (log      *)
(* signatures, dataplane counters) and the memory budgets are left out.    *)
(* Time is counted in sampler periods.  Pids only grow.                    *)
(***************************************************************************)
EXTENDS Integers, FiniteSets

CONSTANTS
    Grace,         \* grace_s of impair_end, as the events pass it
    Recovery,      \* peers the harness took down are back this long after
    MaxAge,        \* Sampler.latest was begun at most this long ago
    MaxTime,       \* bound: length of the run
    MaxEvents,     \* bound: events run
    MaxFaults      \* bound: faults of the router and failed reads

\* The grace window has to cover re-establishing (the comment in
\* ev_peer_flap) and the age of the record that is judged.
ASSUME PredicatesAssumption ==
    /\ Grace \in Nat /\ Recovery \in Nat /\ MaxAge \in Nat
    /\ Grace > Recovery + MaxAge
    /\ MaxTime \in Nat /\ MaxEvents \in Nat /\ MaxFaults \in Nat

VARIABLES
    now,           \* the clock
    alive,         \* the DUT container runs
    bgpd,          \* bgpd's pid, or Gone
    newest,        \* the last pid handed out
    down,          \* why sessions are down: "flap", "fault"
    faults,        \* faults and failed reads so far
    dutFault,      \* history: the router had a fault of its own
    bgpdDied,      \* history: bgpd was gone at some time
    draft,         \* the sample being taken, or NoSample
    latest,        \* Sampler.latest
    knownPid,      \* PredicateSet._pids
    restarts,      \* _restarts
    expect,        \* bgpd is in _expect_restart
    seen,          \* _seen, for the restarts
    impaired, impairUntil,
    codes,         \* the codes the run has reported, restarts apart
    restartReports,   \* the bgpd_restarted violations the run has reported
    pc,            \* where cmd_run and its event are
    stopOnViolation,  \* the run was started with --stop-on-violation
    events,        \* events run
    liftedAt,      \* history: when the last flap was undone
    announced      \* history: restarts announced

dutVars     == <<alive, bgpd, newest, down>>
historyVars == <<dutFault, bgpdDied>>
samplerVars == <<draft, latest>>
predVars    == <<knownPid, restarts, expect, seen, impaired, impairUntil>>
runVars     == <<codes, restartReports, pc, stopOnViolation, events, liftedAt,
                 announced>>
vars        == <<now, dutVars, faults, historyVars, samplerVars, predVars,
                 runVars>>

Gone == 0

\* Kinds of record: nothing yet, the container down, a BGP summary read that
\* failed, and a complete sample.
Kinds    == {"none", "down", "unread", "full"}
Sample   == [kind : Kinds, at : Nat, failed : BOOLEAN, pid : Nat]
NoSample == [kind |-> "none", at |-> 0, failed |-> FALSE, pid |-> Gone]
Restart  == [old : Nat, new : Nat, nth : Nat, sev : {"info", "fail"}]

Init ==
    /\ now = 0
    /\ alive = TRUE /\ bgpd = 1 /\ newest = 1 /\ down = {}
    /\ faults = 0 /\ dutFault = FALSE /\ bgpdDied = FALSE
    /\ draft = NoSample /\ latest = NoSample
    /\ knownPid = Gone /\ restarts = 0 /\ expect = FALSE
    /\ seen = {} /\ impaired = FALSE /\ impairUntil = 0
    /\ codes = {} /\ restartReports = {}
    /\ pc = "gap" /\ events = 0 /\ liftedAt = 0 /\ announced = 0
    /\ stopOnViolation \in BOOLEAN

----------------------------------------------------------------------------
(***************************************************************************)
(* The router and its supervisor                                           *)
(***************************************************************************)
Fault == faults < MaxFaults /\ faults' = faults + 1

\* bgpd crashes, is killed by watchfrr or by the kernel.
BgpdDies ==
    /\ Fault
    /\ bgpd # Gone
    /\ bgpd' = Gone /\ bgpdDied' = TRUE /\ dutFault' = TRUE
    /\ down' = down \cup {"fault"}
    /\ UNCHANGED <<alive, newest>>

\* Its supervisor starts it again, unless the harness is restarting FRR.
BgpdStarts ==
    /\ alive /\ bgpd = Gone /\ pc # "restart"
    /\ newest' = newest + 1 /\ bgpd' = newest + 1
    /\ UNCHANGED <<alive, down, faults, historyVars>>

SessionsFail ==
    /\ Fault
    /\ down' = down \cup {"fault"} /\ dutFault' = TRUE
    /\ UNCHANGED <<alive, bgpd, newest, bgpdDied>>

\* Sessions come back once what took them down is over.
SessionsRecover ==
    /\ \/ "fault" \in down /\ bgpd # Gone /\ down' = down \ {"fault"}
       \/ "flap" \in down /\ pc # "flap" /\ down' = down \ {"flap"}
    /\ UNCHANGED <<alive, bgpd, newest, faults, historyVars>>

ContainerStops ==
    /\ Fault
    /\ alive
    /\ alive' = FALSE /\ bgpd' = Gone /\ bgpdDied' = TRUE /\ dutFault' = TRUE
    /\ UNCHANGED <<newest, down>>

Dut ==
    /\ \/ BgpdDies \/ BgpdStarts \/ SessionsFail \/ SessionsRecover
       \/ ContainerStops
    /\ UNCHANGED <<now, samplerVars, predVars, runVars>>

\* Time passes, but no further than the two assumptions on the environment
\* allow: flapped peers are back within Recovery, and the sampler is alive.
Tick ==
    /\ now < MaxTime
    /\ "flap" \in down /\ pc # "flap" => now < liftedAt + Recovery
    /\ now < latest.at + MaxAge
    /\ now' = now + 1
    /\ UNCHANGED <<dutVars, faults, historyVars, samplerVars, predVars,
                   runVars>>

----------------------------------------------------------------------------
(***************************************************************************)
(* Sampler.sample, at most once a period.  The summaries are read first,   *)
(* /proc later.                                                            *)
(***************************************************************************)
BeginSample ==
    /\ draft = NoSample
    /\ latest = NoSample \/ latest.at < now

SampleDown ==
    /\ BeginSample
    /\ ~alive
    /\ latest' = [NoSample EXCEPT !.kind = "down", !.at = now]
    /\ UNCHANGED <<draft, faults>>

\* vtysh cannot answer for a bgpd that is gone, and may fail for another.
SampleBgp ==
    /\ BeginSample
    /\ alive
    /\ \/ /\ bgpd # Gone
          /\ draft' = [NoSample EXCEPT !.kind = "full", !.at = now,
                                       !.failed = (down # {})]
          /\ UNCHANGED faults
       \/ /\ IF bgpd = Gone THEN UNCHANGED faults ELSE Fault
          /\ draft' = [NoSample EXCEPT !.kind = "unread", !.at = now]
    /\ UNCHANGED latest

\* The /proc read may fail as well, and then no daemon is in the record.
SampleRest ==
    /\ draft # NoSample
    /\ \E procOk \in BOOLEAN :
         /\ IF procOk THEN UNCHANGED faults ELSE Fault
         /\ latest' = [draft EXCEPT !.pid = IF procOk THEN bgpd ELSE Gone]
    /\ draft' = NoSample

Sampler ==
    /\ SampleDown \/ SampleBgp \/ SampleRest
    /\ UNCHANGED <<now, alive, bgpd, newest, down, historyVars, predVars,
                   runVars>>

----------------------------------------------------------------------------
(***************************************************************************)
(* PredicateSet                                                            *)
(***************************************************************************)
ImpairBegin == impaired' = TRUE /\ UNCHANGED impairUntil

\* Mutant: no grace once the impairment is lifted.
ImpairEndAtOnce == impaired' = FALSE /\ impairUntil' = now
\* Mutant: the grace is counted the wrong way.
ImpairEndBefore == impaired' = FALSE /\ impairUntil' = now - Grace
ImpairEnd       == impaired' = FALSE /\ impairUntil' = now + Grace

PeerFaultsSuppressed == impaired \/ now < impairUntil

PidChanged(rec) ==
    rec.kind = "full" /\ rec.pid # Gone /\ knownPid \notin {Gone, rec.pid}

RestartViolation(rec) ==
    [old |-> knownPid, new |-> rec.pid, nth |-> restarts + 1,
     sev |-> IF expect THEN "info" ELSE "fail"]

\* Mutant: every restart of a severity is the same violation (H-55).
KeyBySeverity(v) == <<v.sev, Gone, Gone>>
\* Violation.key of a restart: severity and dedup.
Key(v) == <<v.sev, v.old, v.new>>

\* The codes check() returns for a record, restarts apart, and which of them
\* make the run fail.
CodesFor(rec) ==
    CASE rec.kind = "none"   -> {}
      [] rec.kind = "unread" -> {"telemetry_read_failed"}
      [] rec.kind = "down"   -> {"dut_container_down"}
      [] rec.kind = "full"   ->
           (IF rec.failed /\ ~PeerFaultsSuppressed
              THEN {"failed_peers"} ELSE {})
           \cup (IF rec.pid = Gone /\ knownPid # Gone
                   THEN {"bgpd_gone"} ELSE {})

\* Mutant: the announcement is never used up.
StillAnnounced(rec) == UNCHANGED expect
UsesAnnouncement(rec) == expect' = (expect /\ ~PidChanged(rec))

\* check(): a record that is not a complete sample ends it before the pids.
Check(rec) ==
    /\ UsesAnnouncement(rec)
    /\ restarts' = IF PidChanged(rec) THEN restarts + 1 ELSE restarts
    /\ knownPid' = IF rec.kind = "full" /\ rec.pid # Gone
                     THEN rec.pid ELSE knownPid

RestartsIn(rec) == IF PidChanged(rec) THEN {RestartViolation(rec)} ELSE {}

\* check_new(): what has been reported under the same key is not again.
NewRestarts(rec) == {v \in RestartsIn(rec) : Key(v) \notin seen}
NewFaults(rec) == CodesFor(rec) \ (codes \cup {"telemetry_read_failed"})
CheckNew(rec) ==
    /\ Check(rec)
    /\ seen' = seen \cup {Key(v) : v \in NewRestarts(rec)}

Report(newCodes, newRestarts) ==
    /\ codes' = codes \cup newCodes
    /\ restartReports' = restartReports \cup newRestarts

\* The last word of a run: check() itself, whatever was seen.
CheckFinal(rec) ==
    /\ Check(rec)
    /\ Report(CodesFor(rec), RestartsIn(rec))
    /\ UNCHANGED seen

----------------------------------------------------------------------------
(***************************************************************************)
(* cmd_run and its events                                                  *)
(***************************************************************************)
BeginEvent == pc = "gap" /\ events < MaxEvents /\ events' = events + 1

\* ev_peer_flap: the impairment is declared, the peers go down ...
FlapBegin ==
    /\ BeginEvent
    /\ ImpairBegin
    /\ down' = down \cup {"flap"}
    /\ pc' = "flap"
    /\ UNCHANGED <<bgpd, newest, expect, announced, liftedAt, faults,
                   dutFault>>

\* ... they are released ...
FlapLifted ==
    /\ pc = "flap"
    /\ pc' = "verify"
    /\ liftedAt' = now
    /\ UNCHANGED <<bgpd, newest, down, expect, impaired, impairUntil,
                   announced, events, faults, dutFault>>

\* ... what was released is verified, and `finally' lifts the impairment.
FlapEnd ==
    /\ pc = "verify"
    /\ pc' = "boundary"
    /\ ImpairEnd
    /\ UNCHANGED <<bgpd, newest, down, expect, announced, liftedAt, events,
                   faults, dutFault>>

\* Mutant: nothing lifts the impairment when a step of the flap raises.
LeftImpaired == UNCHANGED <<impaired, impairUntil>>
\* `finally', on the way of an exception that run_one swallows.
LiftOnError == ImpairEnd

\* flap or unflap raises and the peers stay down: the harness broke the lab,
\* which counts as a fault here.  run_one records an event_error.
FlapRaises ==
    /\ pc = "flap"
    /\ Fault
    /\ dutFault' = TRUE
    /\ down' = (down \ {"flap"}) \cup {"fault"}
    /\ LiftOnError
    /\ pc' = "boundary"
    /\ UNCHANGED <<bgpd, newest, expect, announced, liftedAt, events>>

\* ev_dut_bgpd_restart announces the restart, then restarts FRR, which takes
\* the sessions down with it; the restart may fail.
RestartBegin ==
    /\ BeginEvent
    /\ alive
    /\ expect' = TRUE /\ announced' = announced + 1
    /\ bgpd' = Gone
    /\ down' = down \cup {"fault"}
    /\ pc' = "restart"
    /\ UNCHANGED <<newest, impaired, impairUntil, liftedAt, faults, dutFault>>

RestartEnd ==
    /\ pc = "restart"
    /\ pc' = "boundary"
    /\ \/ /\ alive
          /\ newest' = newest + 1 /\ bgpd' = newest + 1
          /\ UNCHANGED <<faults, dutFault>>
       \/ /\ Fault /\ dutFault' = TRUE
          /\ UNCHANGED <<newest, bgpd>>
    /\ UNCHANGED <<down, expect, impaired, impairUntil, announced, liftedAt,
                   events>>

\* Events that neither restart FRR nor take a peer down.
OtherEvent ==
    /\ BeginEvent
    /\ pc' = "boundary"
    /\ UNCHANGED <<bgpd, newest, down, expect, impaired, impairUntil,
                   announced, liftedAt, faults, dutFault>>

Event ==
    /\ \/ FlapBegin \/ FlapLifted \/ FlapEnd \/ FlapRaises
       \/ RestartBegin \/ RestartEnd \/ OtherEvent
    /\ bgpdDied' = (bgpdDied \/ bgpd' = Gone)
    /\ UNCHANGED <<now, alive, samplerVars, knownPid, restarts, seen,
                   codes, restartReports, stopOnViolation>>

\* The boundary of an event: check_new on whatever Sampler.latest is.
BoundaryFrame ==
    /\ pc = "boundary"
    /\ CheckNew(latest)
    /\ UNCHANGED <<impaired, impairUntil, events, liftedAt, announced>>

HardFailure(rec) ==
    \/ NewFaults(rec) # {}
    \/ \E v \in NewRestarts(rec) : v.sev = "fail"

RunGoesOn ==
    /\ BoundaryFrame
    /\ ~(stopOnViolation /\ HardFailure(latest))
    /\ Report(CodesFor(latest), NewRestarts(latest))
    /\ pc' = "gap"

\* The loop raises at the first failure of the list.  Failed peers come
\* before the restarts, which check_new has marked as reported by then.
StopOnViolation ==
    /\ BoundaryFrame
    /\ stopOnViolation /\ HardFailure(latest)
    /\ IF "failed_peers" \in NewFaults(latest)
         THEN Report({"failed_peers"}, {})
         ELSE Report(CodesFor(latest), NewRestarts(latest))
    /\ pc' = "final"

\* The time is up; the post-chaos convergence and the accounting follow.
EndOfChaos ==
    /\ pc = "gap"
    /\ pc' = "final"
    /\ UNCHANGED <<knownPid, restarts, expect, seen, codes,
                   restartReports, impaired, impairUntil, events, liftedAt,
                   announced>>

\* The operator interrupts.  `finally' of a flap lifts the impairment, but
\* nothing releases peers that are still held down; the last check follows.
Interrupt ==
    /\ pc \notin {"final", "done"}
    /\ pc' = "done"
    /\ CheckFinal(latest)
    /\ IF pc \in {"flap", "verify"} THEN LiftOnError
                                    ELSE UNCHANGED <<impaired, impairUntil>>
    /\ UNCHANGED <<events, liftedAt, announced>>

Final ==
    /\ pc = "final"
    /\ CheckFinal(latest)
    /\ pc' = "done"
    /\ UNCHANGED <<impaired, impairUntil, events, liftedAt, announced>>

Run ==
    \/ Event
    \/ /\ RunGoesOn \/ StopOnViolation \/ EndOfChaos \/ Interrupt \/ Final
       /\ UNCHANGED <<now, dutVars, faults, historyVars, samplerVars,
                      stopOnViolation>>

Next == pc # "done" /\ (Dut \/ Tick \/ Sampler \/ Run)

Spec == Init /\ [][Next]_vars

----------------------------------------------------------------------------
FlagsOK ==
    /\ alive \in BOOLEAN /\ dutFault \in BOOLEAN /\ bgpdDied \in BOOLEAN
    /\ expect \in BOOLEAN /\ impaired \in BOOLEAN
    /\ stopOnViolation \in BOOLEAN

RecordsOK == draft \in Sample /\ latest \in Sample

CountsOK ==
    /\ now \in Nat /\ bgpd \in Nat /\ newest \in Nat /\ faults \in Nat
    /\ knownPid \in Nat /\ restarts \in Nat /\ impairUntil \in Nat
    /\ events \in Nat /\ liftedAt \in Nat /\ announced \in Nat

StatesOK ==
    /\ down \subseteq {"flap", "fault"}
    /\ codes \subseteq {"telemetry_read_failed", "dut_container_down",
                        "failed_peers", "bgpd_gone"}
    /\ pc \in {"gap", "flap", "verify", "restart", "boundary", "final", "done"}

ReportsOK ==
    /\ seen \subseteq {"info", "fail"} \X Nat \X Nat
    /\ restartReports \subseteq Restart

TypeOK == FlagsOK /\ RecordsOK /\ CountsOK /\ StatesOK /\ ReportsOK

(***************************************************************************)
(* Properties                                                              *)
(***************************************************************************)
\* Every pid change the predicates observed is reported exactly once: the
\* reports are numbered without a gap and each continues where the previous
\* one ended, up to the pid that is known now (H-55).  A run stopped by
\* --stop-on-violation may drop the restart it observed last.
RestartsFormChain ==
    ~stopOnViolation =>
        /\ {v.nth : v \in restartReports} = 1..restarts
        /\ \A v \in restartReports :
             /\ v.old < v.new
             /\ v.nth = restarts => v.new = knownPid
             /\ \A w \in restartReports : w.nth = v.nth + 1 => w.old = v.new

\* An announcement excuses one restart, so it cannot mask a second one: the
\* restarts reported as intended are no more than those announced.
AnnouncementExcusesOne ==
    Cardinality({v \in restartReports : v.sev = "info"}) <= announced

\* A run that only flaps peers does not fault the router for it, although
\* the record it judges may be older than the end of the flap (H-13).
FlapIsNotAFault ==
    "failed_peers" \in codes => dutFault \/ announced > 0

\* No event leaves the impairment declared behind it, whichever way it ends:
\* at a boundary the suppression has an end, and the end is near.
ImpairmentHasAnEnd ==
    pc \notin {"flap", "verify"} => ~impaired /\ impairUntil <= now + Grace

\* Class docstring, 1: the predicate set must not fault the router for an
\* impairment the harness itself applied.
HarnessIsNotFaulted == "failed_peers" \in codes => dutFault

\* check(): a read the harness could not complete is no fault of the router.
GoneMeansGone == "bgpd_gone" \in codes => bgpdDied

----------------------------------------------------------------------------
(***************************************************************************)
(* The inductive invariants behind the properties                          *)
(***************************************************************************)
\* Pids only grow on their way from the router to what the predicates know.
PidsInv ==
    /\ bgpd \in {Gone, newest}
    /\ knownPid <= newest
    /\ latest.pid # Gone => knownPid <= latest.pid /\ latest.pid <= newest
    /\ draft.pid = Gone
    /\ \A k \in seen : k[3] <= knownPid

\* An announcement is either pending or has been used.
AnnouncedInv ==
    /\ IsFiniteSet(restartReports)
    /\ Cardinality({v \in restartReports : v.sev = "info"})
         + (IF expect THEN 1 ELSE 0) <= announced

\* The suppression and the clock.
ImpairedInv ==
    /\ impaired <=> pc \in {"flap", "verify"}
    /\ impairUntil <= now + Grace
    /\ liftedAt <= now

\* Records are at most MaxAge old.
SamplesInv ==
    /\ latest.at <= now /\ draft.at <= now /\ now <= latest.at + MaxAge
    /\ draft # NoSample => latest.at <= draft.at

\* While nothing but flaps has been done to the router, sessions are seen
\* down only while a flap is declared or Recovery into its grace window.
Covered(t) == impaired \/ t + Grace <= impairUntil + Recovery
FlapInv ==
    ~dutFault /\ announced = 0 =>
        /\ "fault" \notin down
        /\ "flap" \in down => Covered(now)
        /\ "flap" \in down /\ ~impaired => liftedAt + Grace <= impairUntil
        /\ draft.failed => Covered(draft.at)
        /\ latest.failed => Covered(latest.at)
        /\ "failed_peers" \notin codes

IInv == TypeOK /\ PidsInv /\ RestartsFormChain /\ AnnouncedInv /\ ImpairedInv
        /\ SamplesInv /\ FlapInv
=============================================================================
