---------------------------- MODULE ConfigChange ----------------------------
(***************************************************************************)
(* The events that change the configuration of the router and undo it:     *)
(* ev_policy_churn and ev_maxprefix_trip (harness/scenarios.py), on top of *)
(* Dut.configure and reassert_logging (harness/dut.py), called by the loop *)
(* of cmd_run or of cmd_exercise (harness/runner.py).                      *)
(*                                                                         *)
(* A commit runs inside the container while the harness waits for docker   *)
(* exec.  It may be refused, it may outlive the harness's patience and     *)
(* still land later, and landing it reloads FRR, which loses the severity  *)
(* floor the log detectors need.  Meanwhile the peers of the squeezed      *)
(* peer-group drop, reconnect and trip over the lowered maximum-prefix.    *)
(*                                                                         *)
(* Abstractions.  The churn fragments are told apart only as the policy    *)
(* ones and the squeeze.  A snapshot of the peers is the set seen          *)
(* Established, or unreadable; the polling between the two snapshots that  *)
(* decide what tripped is left out, and so are dry runs and interrupts.    *)
(***************************************************************************)
EXTENDS Naturals

CONSTANTS
    Peers,         \* the members of the squeezed peer-group
    MaxEvents,     \* bound: events run
    MaxTrouble     \* bound: timeouts, refusals, failed reads, exceptions

ASSUME ConfigChangeAssumption == MaxEvents \in Nat /\ MaxTrouble \in Nat

VARIABLES
    mode,          \* the loop that calls the events: cmd_run or cmd_exercise
    config,        \* the fragments that are in place
    abandoned,     \* commits the harness gave up on that may still land
    running,       \* the commit the harness waits for, or NoCommit
    landed,        \* it has taken effect
    floor,         \* FRR's log destination lets debug messages through
    debugs,        \* bgpd's neighbor-events debug flag
    session,       \* each peer: up, down, or over its maximum-prefix
    pc,            \* where the loop and its event are
    frag,          \* the fragment of the event
    before,        \* peers the first snapshot saw Established
    tripped,       \* of those, the ones seen down later
    raising,       \* an exception is on its way through `finally'
    flagged,       \* config_left_modified of the event's record
    events,        \* events run
    trouble,       \* troubles so far
    excuses,       \* history: why a fragment may be in place between events
    blind,         \* history: why the detectors may have been left blind
    missed         \* history: peers over their limit the event lost sight of

routerVars  == <<config, abandoned, landed, floor, debugs, session>>
eventVars   == <<mode, running, pc, frag, before, tripped, raising, flagged,
                 events>>
historyVars == <<excuses, blind, missed>>
vars        == <<routerVars, eventVars, trouble, historyVars>>

Fragments == {"policy", "squeeze"}
Commits   == [op : {"apply", "revert"}, frag : Fragments]
NoCommit  == [op |-> "none", frag |-> "none"]

Init ==
    /\ mode \in {"run", "exercise"}
    /\ config = {} /\ abandoned = {} /\ running = NoCommit /\ landed = FALSE
    /\ floor = TRUE /\ debugs = TRUE
    /\ session = [p \in Peers |-> "up"]
    /\ pc = "gap" /\ frag = "policy" /\ before = {} /\ tripped = {}
    /\ raising = FALSE /\ flagged = FALSE /\ events = 0 /\ trouble = 0
    /\ excuses = {} /\ blind = {} /\ missed = {}

Trouble == trouble < MaxTrouble /\ trouble' = trouble + 1

----------------------------------------------------------------------------
(***************************************************************************)
(* The router                                                              *)
(***************************************************************************)
\* A commit takes effect: frr-reload drops the log floor, which is config,
\* and keeps the debug flag, which is not.
TakesEffect(c) ==
    /\ floor' = FALSE
    /\ IF c.op = "apply" THEN config' = config \cup {c.frag}
                         ELSE config' = config \ {c.frag}

Forget(f) == {e \in excuses : e[2] # f}

CommitLands ==
    /\ running # NoCommit /\ ~landed
    /\ TakesEffect(running)
    /\ landed' = TRUE
    /\ excuses' = Forget(running.frag)
    /\ UNCHANGED <<abandoned, debugs, session, trouble, blind, missed>>

AbandonedCommitLands ==
    /\ \E c \in abandoned :
         /\ TakesEffect(c)
         /\ abandoned' = abandoned \ {c}
         /\ excuses' = IF c.op = "apply" THEN excuses \cup {<<"late", c.frag>>}
                                         ELSE Forget(c.frag)
    /\ blind' = blind \cup {"unwatched"}
    /\ UNCHANGED <<landed, debugs, session, trouble, missed>>

AbandonedCommitDies ==
    /\ \E c \in abandoned : abandoned' = abandoned \ {c}
    /\ UNCHANGED <<config, landed, floor, debugs, session, trouble,
                   historyVars>>

Becomes(p, was, is) ==
    /\ session[p] = was
    /\ session' = [session EXCEPT ![p] = is]

\* Sessions bounce, on a reload or by themselves, and come back.
PeerMoves ==
    /\ \E p \in Peers : \/ Becomes(p, "up", "down")
                        \/ Becomes(p, "down", "up")
                        \/ "squeeze" \notin config /\ Becomes(p, "over", "down")
    /\ UNCHANGED <<config, abandoned, landed, floor, debugs, trouble,
                   historyVars>>

\* A peer above the lowered limit is torn down, and stays down.
PeerTrips ==
    /\ "squeeze" \in config
    /\ \E p \in Peers : Becomes(p, "up", "over") /\ missed' = missed \cup {p}
    /\ UNCHANGED <<config, abandoned, landed, floor, debugs, trouble, excuses,
                   blind>>

Router ==
    /\ \/ CommitLands \/ AbandonedCommitLands \/ AbandonedCommitDies
       \/ PeerMoves \/ PeerTrips
    /\ UNCHANGED eventVars

----------------------------------------------------------------------------
(***************************************************************************)
(* Dut.configure                                                           *)
(***************************************************************************)
Begin(op, f) == running' = [op |-> op, frag |-> f] /\ landed' = FALSE

\* Mutant: only the debug flag is put back (H-39).
RearmDebugs ==
    /\ debugs' = TRUE /\ blind' = {}
    /\ UNCHANGED floor
\* reassert_logging, all of it.
Rearm == floor' = TRUE /\ debugs' = TRUE /\ blind' = {}

\* Its vtysh calls may fail, and configure does not look at the result.
ReassertLogging ==
    \/ Rearm /\ UNCHANGED trouble
    \/ /\ Trouble
       /\ floor' \in {floor, TRUE} /\ debugs' \in {debugs, TRUE}
       /\ blind' = blind \cup {"unasserted"}

\* docker exec returns: the commit has landed, or VyOS refused it.
Returns ==
    /\ running # NoCommit
    /\ running' = NoCommit
    /\ landed
    /\ ReassertLogging
    /\ UNCHANGED <<abandoned, landed, excuses>>

Refused ==
    /\ running # NoCommit
    /\ running' = NoCommit
    /\ ~landed
    /\ Trouble
    /\ Rearm
    /\ excuses' = IF running.op = "revert"
                    THEN excuses \cup {<<"refused", running.frag>>}
                    ELSE excuses
    /\ UNCHANGED <<abandoned, landed>>

\* CommitTimeout: raised before reassert_logging.  What runs in the container
\* is not stopped by it.
TimesOut ==
    /\ running # NoCommit
    /\ running' = NoCommit
    /\ Trouble
    /\ abandoned' = IF landed THEN abandoned ELSE abandoned \cup {running}
    /\ blind' = IF landed THEN blind \cup {"unwatched"} ELSE blind
    /\ UNCHANGED <<landed, floor, debugs, excuses>>

\* reassert_logging raises (a vtysh that times out hands it bytes).
RaisesAfterCommit ==
    /\ running # NoCommit
    /\ running' = NoCommit
    /\ landed
    /\ Trouble
    /\ Rearm
    /\ excuses' = IF running.op = "apply"
                    THEN excuses \cup {<<"raised", running.frag>>}
                    ELSE excuses
    /\ UNCHANGED <<abandoned, landed>>

----------------------------------------------------------------------------
(***************************************************************************)
(* The two events                                                          *)
(***************************************************************************)
Up == {p \in Peers : session[p] = "up"}

BeginEvent(f) ==
    /\ pc = "gap" /\ events < MaxEvents
    /\ frag' = f
    /\ raising' = FALSE /\ flagged' = FALSE
    /\ IF mode = "exercise" THEN debugs' = TRUE ELSE UNCHANGED debugs
    /\ pc' = "apply"
    /\ Begin("apply", f)
    /\ UNCHANGED <<config, abandoned, floor, session, excuses, blind>>

PolicyChurn ==
    /\ BeginEvent("policy")
    /\ UNCHANGED <<before, tripped, trouble, missed>>

\* The squeeze takes a snapshot first; one that cannot be read is empty.
MaxprefixTrip ==
    /\ BeginEvent("squeeze")
    /\ tripped' = {}
    /\ \/ before' = Up /\ UNCHANGED trouble
       \/ before' = {} /\ Trouble
    /\ UNCHANGED missed

\* The event goes on to its revert.
GoesOn ==
    /\ pc' = IF frag = "policy" THEN "hold" ELSE "early"
    /\ UNCHANGED raising
\* Mutant: an apply that times out ends the event (H-42).
GivesUp      == pc' = "boundary" /\ UNCHANGED raising
AfterTimeout == GoesOn

ApplyDone ==
    /\ pc = "apply"
    /\ \/ (Returns \/ Refused) /\ GoesOn
       \/ TimesOut /\ AfterTimeout
    /\ UNCHANGED <<config, session, frag, before, tripped, flagged, missed>>

\* In ev_policy_churn the exception passes through `finally', which reverts;
\* in ev_maxprefix_trip it leaves the event.
ApplyRaises ==
    /\ pc = "apply"
    /\ RaisesAfterCommit
    /\ raising' = TRUE
    /\ pc' = IF frag = "policy" THEN "hold" ELSE "boundary"
    /\ UNCHANGED <<config, session, frag, before, tripped, flagged, missed>>

\* The two snapshots that tell which peers tripped.  Mutants: every peer that
\* is down tripped; the second snapshot is not looked at.
NoticesDown  == tripped' = tripped \cup (Peers \ Up)
NoticesEarly == tripped' = IF pc = "early" THEN before \ Up ELSE tripped
Notices      == tripped' = tripped \cup (before \ Up)

Snapshot ==
    /\ pc \in {"early", "late"}
    /\ pc' = IF pc = "early" THEN "late" ELSE "revert"
    /\ \/ Notices /\ missed' = missed \ before /\ UNCHANGED trouble
       \/ Trouble /\ UNCHANGED <<tripped, missed>>
    /\ UNCHANGED <<routerVars, running, frag, before, raising, flagged,
                   excuses, blind>>

Over == {p \in Peers : session[p] = "over"}
LosesSight == missed' = missed \cup Over

\* Reading the running configuration before the first snapshot, or the
\* neighbours after the last, may raise, and no `finally' guards it.
SqueezeRaises ==
    /\ pc \in {"early", "revert"}
    /\ Trouble
    /\ raising' = TRUE
    /\ pc' = "boundary"
    /\ excuses' = excuses \cup {<<"raised", frag>>}
    /\ LosesSight
    /\ UNCHANGED <<routerVars, running, frag, before, tripped, flagged, blind>>

BeginRevert ==
    /\ pc \in {"hold", "revert"}
    /\ pc' = "reverting"
    /\ Begin("revert", frag)
    /\ UNCHANGED <<config, abandoned, floor, debugs, session, frag, before,
                   tripped, raising, flagged, trouble, historyVars>>

\* Only a CommitTimeout flags the record, and an exception takes the record
\* with it.
RevertDone ==
    /\ pc = "reverting"
    /\ \/ /\ Returns \/ Refused
          /\ pc' = IF frag = "squeeze" THEN "after" ELSE "boundary"
          /\ UNCHANGED <<flagged, raising, missed>>
       \/ /\ TimesOut
          /\ flagged' = ~raising
          /\ pc' = "boundary"
          /\ LosesSight /\ UNCHANGED raising
       \/ /\ RaisesAfterCommit
          /\ raising' = TRUE
          /\ pc' = "boundary"
          /\ LosesSight /\ UNCHANGED flagged
    /\ UNCHANGED <<config, session, frag, before, tripped>>

\* Peers the raised limit did not bring back are cleared, and all the others
\* with them.  A peer missing from an unreadable snapshot is not back.
ClearTripped ==
    /\ pc = "after"
    /\ pc' = "boundary"
    /\ \E readable \in BOOLEAN, cleared \in BOOLEAN :
         /\ IF readable /\ cleared THEN UNCHANGED trouble ELSE Trouble
         /\ IF tripped \ (IF readable THEN Up ELSE {}) = {}
              THEN UNCHANGED <<session, missed>>
              ELSE IF cleared
                     THEN session' = [p \in Peers |-> "down"] /\ missed' = {}
                     ELSE LosesSight /\ UNCHANGED session
    /\ UNCHANGED <<config, abandoned, landed, floor, debugs, running, frag,
                   before, tripped, raising, flagged, excuses, blind>>

\* dut_bgpd_restart: the debug flag is gone, and the floor with it unless
\* frr.conf holds it.
BgpdRestart ==
    /\ pc = "gap" /\ events < MaxEvents
    /\ pc' = "boundary"
    /\ debugs' = FALSE /\ floor' \in {floor, FALSE}
    /\ blind' = blind \cup {"restarted"}
    /\ session' = [p \in Peers |-> "down"]
    /\ raising' = FALSE /\ flagged' = FALSE
    /\ UNCHANGED <<config, abandoned, landed, running, frag, before, tripped,
                   trouble, excuses, missed>>

\* cmd_run breaks off at a flagged record, cmd_exercise does not look.
Boundary ==
    /\ pc = "boundary"
    /\ pc' = IF mode = "run" /\ flagged THEN "aborted" ELSE "gap"
    /\ UNCHANGED <<routerVars, running, frag, before, tripped, raising,
                   flagged, trouble, historyVars>>

BeginsEvent == PolicyChurn \/ MaxprefixTrip \/ BgpdRestart
Goes ==
    \/ ApplyDone \/ ApplyRaises \/ Snapshot \/ SqueezeRaises \/ BeginRevert
    \/ RevertDone \/ ClearTripped \/ Boundary
Harness ==
    /\ \/ BeginsEvent /\ events' = events + 1
       \/ Goes /\ UNCHANGED events
    /\ UNCHANGED mode

Next == pc # "aborted" /\ (Router \/ Harness)

Spec == Init /\ [][Next]_vars

----------------------------------------------------------------------------
FlagsOK ==
    /\ floor \in BOOLEAN /\ debugs \in BOOLEAN /\ landed \in BOOLEAN
    /\ raising \in BOOLEAN /\ flagged \in BOOLEAN

CountsOK == events \in Nat /\ trouble \in Nat

SetsOK ==
    /\ config \subseteq Fragments /\ frag \in Fragments
    /\ abandoned \subseteq Commits /\ running \in Commits \cup {NoCommit}
    /\ session \in [Peers -> {"up", "down", "over"}]
    /\ before \subseteq Peers /\ tripped \subseteq before
    /\ missed \subseteq Peers
    /\ excuses \subseteq {"late", "refused", "raised"} \X Fragments
    /\ blind \subseteq {"unwatched", "unasserted", "restarted"}

StatesOK ==
    /\ mode \in {"run", "exercise"}
    /\ pc \in {"gap", "apply", "hold", "early", "late", "revert", "reverting",
               "after", "boundary", "aborted"}

TypeOK == FlagsOK /\ CountsOK /\ SetsOK /\ StatesOK

(***************************************************************************)
(* Properties                                                              *)
(***************************************************************************)
Excused(f) == \E why \in {"late", "refused", "raised"} : <<why, f>> \in excuses

\* A chaos run that goes on to its next event measures the router of the
\* profile, whatever timed out, except in three ways: the revert was refused,
\* the event raised, or an apply that had timed out landed after its revert.
\* (ev_policy_churn's `finally', ev_maxprefix_trip's revert after a timeout
\* and the abort of cmd_run; H-42 and H-44.)
RunMeasuresProfile ==
    mode = "run" /\ pc = "gap" => \A f \in config : Excused(f)

\* Between events the detectors are armed, unless a commit landed that
\* nobody waited for, reassert_logging failed, or bgpd was restarted (H-39).
DetectorsArmed == pc = "gap" /\ ~(floor /\ debugs) => blind # {}

\* An event leaves no peer torn down that was in its snapshots: raising the
\* limit need not bring it back, the clear does.  The peers it may leave are
\* those that tripped after the last snapshot, or in an event cut short.
NoPeerLeftOver == pc = "gap" => Over \subseteq missed

\* ev_policy_churn, docstring: config_left_modified says that the router is
\* no longer in the state the profile describes, and the run treats it as
\* fatal: a run that goes on is in that state.
LeftModifiedIsFlagged == mode = "run" /\ pc = "gap" => config = {}

\* reassert_logging, docstring: configure is the only place the floor can be
\* lost, so reasserting it there keeps it between events.
FloorIsRestored ==
    pc = "gap" /\ blind \cap {"unasserted", "restarted"} = {} => floor

----------------------------------------------------------------------------
(***************************************************************************)
(* The inductive invariants behind the properties                          *)
(***************************************************************************)
\* The harness waits for a commit in two places.
RunningInv ==
    running = CASE pc = "apply"     -> [op |-> "apply", frag |-> frag]
                [] pc = "reverting" -> [op |-> "revert", frag |-> frag]
                [] OTHER            -> NoCommit

\* The event may still revert its fragment, or the loop will break off.
Pending ==
    \/ pc \in {"apply", "hold", "early", "late", "revert"}
    \/ pc = "reverting" /\ ~landed
    \/ pc = "boundary" /\ flagged

\* A fragment that is in place is excused, or the event's own and pending.
ProfileInv ==
    mode = "run" =>
        \A f \in config : Excused(f) \/ pc = "aborted" \/ (f = frag /\ Pending)

\* An exception on its way has left an excuse behind.
RaisingInv ==
    mode = "run" /\ raising =>
        pc # "apply" /\ (frag \in config => Excused(frag))

BlindInv ==
    /\ ~debugs => blind # {}
    /\ ~floor => blind # {} \/ (running # NoCommit /\ landed)

\* Only the squeeze takes snapshots and clears.
StagesInv == pc \in {"early", "late", "revert", "after"} => frag = "squeeze"

\* From its first snapshot to the clear the squeeze knows who tripped.
Knows == pc \in {"late", "revert", "reverting", "after"} /\ frag = "squeeze"
OverInv == Over \subseteq missed \cup (IF Knows THEN tripped ELSE {})

IInv == /\ TypeOK /\ RunningInv /\ ProfileInv /\ RaisingInv
        /\ BlindInv /\ StagesInv /\ OverInv
=============================================================================
