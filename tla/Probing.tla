------------------------------ MODULE Probing ------------------------------
(***************************************************************************)
(* The `probe' command (harness/runner.py, cmd_probe): policy probes       *)
(* (scenarios.ev_probe_check), the suite of malformed updates sent at once *)
(* (ev_malformed_burst) and, when that reset the session, one case at a    *)
(* time (ev_malformed_isolate).                                            *)
(*                                                                         *)
(* Everything is sent through the FIFO of the helper that ExaBGP runs      *)
(* (generate.py, EXABGP_HELPER).  The harness never looks at the result of *)
(* a write, the helper reads when it gets to it, ExaBGP advertises what it *)
(* was told each time a session comes up, and the router acts on what it   *)
(* hears: it takes the route, drops it or resets the session.  restart_-   *)
(* exabgp replaces the process in the middle of this.                      *)
(*                                                                         *)
(* Abstractions.  A probe or a case is one item; the order of the lines of *)
(* one write and of the cases of one pass is free.  connectionsDropped is  *)
(* kept as `moved': whether it changed since the harness last read it,     *)
(* which is all that is ever asked of it.  A sleep may be as short as it   *)
(* likes for the router and the helper.                                    *)
(***************************************************************************)
EXTENDS Naturals, Sequences

CONSTANTS
    Probes,          \* build_probes
    Cases,           \* build_malformed
    Excluded,        \* the cases with a tag in EXCLUDED_TAGS
    Only,            \* --isolate-only, {} for every case not excluded
    FamilyOf,        \* the address family of an item
    Accepted,        \* items whose route the router takes
    Resetting,       \* items on which the router resets the session
    Sticky,          \* cases that `withdraw route' does not clear
    KeepProbes,      \* --keep-probes
    FreshSession,    \* not --no-restart
    MaxUpsets,       \* bound: failures of a call, a read or a session
    MaxBacklog       \* bound: writes the helper has not read yet

Families == {"ipv4", "ipv6"}
Items    == Probes \cup Cases
Processes == 1..2
NoProcess == 0
NoCase    == "no case"
Outside   == "outside"   \* a session lost for a reason of its own

ASSUME ProbingAssumption ==
    /\ Probes \cap Cases = {} /\ Outside \notin Items
    /\ FamilyOf \in [Items -> Families]
    /\ Excluded \subseteq Cases /\ Only \subseteq Cases
    /\ Sticky \subseteq Cases
    /\ KeepProbes \in BOOLEAN /\ FreshSession \in BOOLEAN
    /\ MaxUpsets \in Nat /\ MaxBacklog \in Nat

VARIABLES
    procs,        \* ExaBGP processes that run
    terminated,   \* the first one was sent a TERM
    rib,          \* what each process advertises
    pipe,         \* writes the helper has not read yet
    late,         \* lines of writers that outlived the harness's timeout
    owner,        \* the process that holds the session of a family
    told,         \* items the router has processed in its sessions
    routes,       \* items whose route the router has
    moved,        \* connectionsDropped moved since it was last read
    upsets,       \* failures so far
    pc, todo, cur,    \* the harness: where it is, what is left, which case
    beforeKnown,      \* families whose first reading succeeded
    burstReset,       \* `reset' in cmd_probe
    sawReset,         \* resets_session of the case under test
    culprits,         \* history: what reset sessions since `before'
    residue,          \* history: items in the way when `before' was read
    mishap            \* history: a write was lost or late, a process survived

routerVars  == <<owner, told, routes, moved, culprits>>
exabgpVars  == <<procs, terminated, rib>>
channelVars == <<pipe, late>>
resultVars  == <<beforeKnown, burstReset, sawReset, residue>>
harnessVars == <<pc, todo, cur, resultVars>>
vars == <<routerVars, exabgpVars, channelVars, upsets, mishap, harnessVars>>

Announce(items) == [op : {"announce"}, item : items]
Withdraw(items) == [op : {"withdraw"}, item : items]
Commands == Announce(Items) \cup Withdraw(Items)

\* The tag filter of build_malformed, for the burst and for isolation.
\* Mutant: isolation goes through the probes as well.
BurstCases    == Cases \ Excluded
IsolatedItems == Items \ Excluded
IsolatedCases == IF Only = {} THEN BurstCases ELSE Only

Init ==
    /\ procs = {1} /\ terminated = FALSE
    /\ rib = [p \in Processes |-> {}]
    /\ pipe = <<>> /\ late = {}
    /\ owner = [f \in Families |-> 1]
    /\ told = {} /\ routes = {} /\ moved = [f \in Families |-> FALSE]
    /\ upsets = 0 /\ mishap = FALSE
    /\ pc = "announce" /\ todo = {} /\ cur = NoCase
    /\ beforeKnown = {} /\ burstReset = FALSE /\ sawReset = "unknown"
    /\ culprits = {} /\ residue = {}

Upset == upsets < MaxUpsets /\ upsets' = upsets + 1

----------------------------------------------------------------------------
(***************************************************************************)
(* ExaBGP and its helper                                                   *)
(***************************************************************************)
\* Mutant: a line the helper does not know by heart is dropped: withdrawals.
ObeyAnnouncements(items, line) ==
    IF line.op = "announce" THEN items \cup {line.item} ELSE items

\* What a line does to the process's Adj-RIB-Out.  `withdraw route' does not
\* clear a route with a hand-encoded attribute.
Obey(items, line) ==
    IF line.op = "announce" THEN items \cup {line.item}
    ELSE items \ ({line.item} \ Sticky)

\* The helper's loop: each line of a write is passed on, and the FIFO is
\* opened again at its end.  Two processes read the same FIFO.
ServeFifo(p) ==
    /\ p \in procs /\ pipe # <<>>
    /\ \E line \in Head(pipe) :
         /\ rib' = [rib EXCEPT ![p] = Obey(rib[p], line)]
         /\ pipe' = IF Head(pipe) \ {line} = {} THEN Tail(pipe)
                    ELSE [pipe EXCEPT ![1] = Head(pipe) \ {line}]
    /\ UNCHANGED <<procs, terminated, late, routerVars, upsets, mishap>>

\* A shell in the container that outlived its docker exec gets to write.
LateWrite(line) ==
    /\ procs # {} /\ line \in late
    /\ pipe' = Append(pipe, {line}) /\ late' = late \ {line}
    /\ UNCHANGED <<exabgpVars, routerVars, upsets, mishap>>

----------------------------------------------------------------------------
(***************************************************************************)
(* The router and its sessions with ExaBGP                                 *)
(***************************************************************************)
Up(f) == owner[f] # NoProcess
OfFamilies(fs) == {i \in Items : FamilyOf[i] \in fs}

Connect(f, p) ==
    /\ ~Up(f) /\ p \in procs
    /\ owner' = [owner EXCEPT ![f] = p]
    /\ UNCHANGED <<told, routes, moved, culprits,
                   exabgpVars, channelVars, upsets, mishap>>

\* The sessions of these families go down: bgpd counts it and drops what it
\* learned from them.
SessionsDrop(fs) ==
    /\ owner' = [f \in Families |-> IF f \in fs THEN NoProcess ELSE owner[f]]
    /\ moved' = [f \in Families |-> f \in fs \/ moved[f]]
    /\ told' = told \ OfFamilies(fs) /\ routes' = routes \ OfFamilies(fs)

Hear(i) ==
    LET f == FamilyOf[i] IN
    /\ Up(f) /\ i \in rib[owner[f]] \ told
    /\ IF i \in Resetting
         THEN SessionsDrop({f}) /\ culprits' = culprits \cup {i}
         ELSE /\ told' = told \cup {i}
              /\ routes' = routes \cup ({i} \cap Accepted)
              /\ UNCHANGED <<owner, moved, culprits>>
    /\ UNCHANGED <<exabgpVars, channelVars, upsets, mishap>>

HearWithdrawn(i) ==
    LET f == FamilyOf[i] IN
    /\ Up(f) /\ i \in told \ rib[owner[f]]
    /\ told' = told \ {i} /\ routes' = routes \ {i}
    /\ UNCHANGED <<owner, moved, culprits,
                   exabgpVars, channelVars, upsets, mishap>>

SessionLost(f) ==
    /\ Upset /\ Up(f)
    /\ SessionsDrop({f}) /\ culprits' = culprits \cup {Outside}
    /\ UNCHANGED <<exabgpVars, channelVars, mishap>>

HeldBy(p) == {f \in Families : owner[f] = p}

\* What is unread in the FIFO is lost with its last reader.
Dies(p) ==
    /\ procs' = procs \ {p} /\ rib' = [rib EXCEPT ![p] = {}]
    /\ pipe' = IF procs = {p} THEN <<>> ELSE pipe
    /\ SessionsDrop(HeldBy(p))
    /\ culprits' = culprits \cup IF HeldBy(p) = {} THEN {} ELSE {Outside}

\* The old process takes longer than restart_exabgp waits for it.
OldProcessDies ==
    /\ terminated /\ 1 \in procs /\ 2 \in procs
    /\ Dies(1)
    /\ UNCHANGED <<terminated, late, upsets, mishap>>

Environment ==
    /\ \/ \E p \in Processes : ServeFifo(p)
       \/ \E line \in late : LateWrite(line)
       \/ \E f \in Families, p \in Processes : Connect(f, p)
       \/ \E i \in Items : Hear(i) \/ HearWithdrawn(i)
       \/ \E f \in Families : SessionLost(f)
       \/ OldProcessDies
    /\ UNCHANGED harnessVars

----------------------------------------------------------------------------
(***************************************************************************)
(* Writes                                                                  *)
(***************************************************************************)
\* With no process there is no reader, and every write is lost.
Mishap == IF procs = {} THEN UNCHANGED <<upsets, mishap>>
          ELSE Upset /\ mishap' = TRUE

\* exabgp_send_many: a failed write is not noticed, no lines are no write.
Send(lines) ==
    \/ lines = {} /\ UNCHANGED <<channelVars, upsets, mishap>>
    \/ /\ procs # {} /\ lines # {} /\ Len(pipe) < MaxBacklog
       /\ pipe' = Append(pipe, lines)
       /\ UNCHANGED <<late, upsets, mishap>>
    \/ Mishap /\ UNCHANGED channelVars

\* exabgp_send: the shell that holds the line may outlive the timeout.
SendOne(line) ==
    \/ Send({line})
    \/ Mishap /\ late' = late \cup {line} /\ UNCHANGED pipe

\* probe_withdraw_commands, malformed_withdraw_commands.  Mutant: none.
NoLines(items)       == {}
WithdrawLines(items) == Withdraw(items)

GoTo(next) == pc' = next

----------------------------------------------------------------------------
(***************************************************************************)
(* cmd_probe and ev_probe_check                                            *)
(***************************************************************************)
\* cmd_probe announces the probes, and ev_probe_check does so again.
AnnounceProbes ==
    /\ pc = "announce"
    /\ Send(Announce(Probes))
    /\ GoTo("check")
    /\ UNCHANGED <<todo, cur, resultVars>>

CheckBegins ==
    /\ pc = "check"
    /\ Send(Announce(Probes))
    /\ GoTo("lookup")
    /\ UNCHANGED <<todo, cur, resultVars>>

\* The lookups in between only read, and their rows go into the report.
\* The end of ev_probe_check, whose `withdraw' nobody sets to False.
CheckEnds ==
    /\ pc = "lookup"
    /\ Send(WithdrawLines(Probes))
    /\ GoTo("withdraw")
    /\ UNCHANGED <<todo, cur, resultVars>>

WithdrawProbes ==
    /\ pc = "withdraw"
    /\ IF KeepProbes THEN UNCHANGED <<channelVars, upsets, mishap>>
       ELSE Send(WithdrawLines(Probes))
    /\ GoTo("before")
    /\ UNCHANGED <<todo, cur, resultVars>>

ProbeCheck == AnnounceProbes \/ CheckBegins \/ CheckEnds \/ WithdrawProbes

----------------------------------------------------------------------------
(***************************************************************************)
(* ev_malformed_burst                                                      *)
(***************************************************************************)
\* What can still make itself felt: lines not read, routes advertised.
Unread == {line \in Commands :
             line \in late \/ \E k \in 1..Len(pipe) : line \in pipe[k]}
InTheWay ==
    {i \in Items : [op |-> "announce", item |-> i] \in Unread}
      \cup UNION {rib[p] : p \in Processes}

\* The summaries of these families are read before the announcement.
ReadsBefore(fs) ==
    /\ \E known \in SUBSET fs :
         /\ IF known # fs THEN Upset ELSE UNCHANGED upsets
         /\ beforeKnown' = known
    /\ moved' = [f \in Families |-> IF f \in fs THEN FALSE ELSE moved[f]]
    /\ culprits' = {} /\ residue' = InTheWay

BurstBegins ==
    /\ pc = "before"
    /\ ReadsBefore(Families)
    /\ GoTo("burst")
    /\ UNCHANGED <<channelVars, mishap, owner, told, routes, todo, cur,
                   burstReset, sawReset>>

AnnounceCases ==
    /\ pc = "burst"
    /\ Send(Announce(BurstCases))
    /\ GoTo("after")
    /\ UNCHANGED <<todo, cur, resultVars>>

\* connectionsDropped before and after; a summary that could not be read
\* says nothing.  Mutant: the state of the session is asked instead.
ShowsDown(f, known) == f \in known /\ ~Up(f)
Shows(f, known)     == f \in known /\ moved[f]

\* The route checks in between are read-only and are not kept.
BurstEnds ==
    /\ pc = "after"
    /\ \E readable \in SUBSET Families :
         /\ IF readable # Families THEN Upset ELSE UNCHANGED upsets
         /\ burstReset' = \E f \in Families : Shows(f, readable \cap beforeKnown)
    /\ GoTo("unburst")
    /\ UNCHANGED <<channelVars, mishap, todo, cur, beforeKnown, sawReset,
                   residue>>

WithdrawCases ==
    /\ pc = "unburst"
    /\ Send(WithdrawLines(BurstCases))
    /\ GoTo(IF ~burstReset THEN "done"
            ELSE IF FreshSession THEN "kill" ELSE "isolate")
    /\ todo' = IF burstReset THEN IsolatedCases ELSE {}
    /\ UNCHANGED <<cur, resultVars>>

----------------------------------------------------------------------------
(***************************************************************************)
(* restart_exabgp                                                          *)
(***************************************************************************)
\* TERM, then a wait for the process to be gone.  The read of the pids may
\* fail, in which case nothing is killed, and the wait may end first.
\* Mutant: no TERM is sent, because the first read of the pids is skipped.
TermIgnored ==
    /\ UNCHANGED <<procs, rib, pipe, owner, moved, told, routes, culprits,
                   upsets, mishap, terminated>>
TermSent ==
    \/ Dies(1) /\ terminated' = TRUE /\ UNCHANGED <<upsets, mishap>>
    \/ /\ Upset /\ mishap' = TRUE /\ terminated' \in BOOLEAN
       /\ UNCHANGED <<procs, rib, pipe, owner, moved, told, routes, culprits>>

KillExabgp ==
    /\ pc = "kill"
    /\ TermSent
    /\ GoTo("start")
    /\ UNCHANGED <<late, todo, cur, resultVars>>

\* Mutant: nothing is started, because the old process was seen running.
NotStarted == UNCHANGED procs
Started    == procs' = procs \cup {2}

\* The new process.  Whether it runs is reported and decides nothing.
StartExabgp ==
    /\ pc = "start"
    /\ \/ Started /\ UNCHANGED <<upsets, mishap>>
       \/ Upset /\ mishap' = TRUE /\ UNCHANGED procs
    /\ GoTo("isolate")
    /\ UNCHANGED <<terminated, rib, todo, cur, resultVars>>

----------------------------------------------------------------------------
(***************************************************************************)
(* ev_malformed_isolate                                                    *)
(***************************************************************************)
\* The summary is read until the session is Established, and after 30 s as
\* it is.  Mutant: the readings before the burst do for every case.
ReadsOnce(m) ==
    /\ culprits' = {} /\ residue' = InTheWay
    /\ UNCHANGED <<beforeKnown, moved, upsets>>
ReadsBeforeCase(m) == ReadsBefore({FamilyOf[m]})

CaseBegins(m) ==
    /\ pc = "isolate" /\ m \in todo
    /\ ReadsBeforeCase(m)
    /\ todo' = todo \ {m} /\ cur' = m /\ sawReset' = "unknown"
    /\ GoTo("send")
    /\ UNCHANGED <<channelVars, mishap, owner, told, routes, burstReset>>

SendCase ==
    /\ pc = "send"
    /\ SendOne([op |-> "announce", item |-> cur])
    /\ GoTo("measure")
    /\ UNCHANGED <<todo, cur, resultVars>>

\* The summary after the case.  A negative or positive difference is a
\* reset; the route looked up next is not kept.
MeasureCase ==
    /\ pc = "measure"
    /\ \E readable \in BOOLEAN :
         /\ IF readable THEN UNCHANGED upsets ELSE Upset
         /\ sawReset' = IF ~readable \/ FamilyOf[cur] \notin beforeKnown
                          THEN "unknown"
                        ELSE IF moved[FamilyOf[cur]] THEN "yes" ELSE "no"
    /\ GoTo("retract")
    /\ UNCHANGED <<channelVars, mishap, todo, cur, beforeKnown, burstReset,
                   residue>>

RetractCase ==
    /\ pc = "retract"
    /\ SendOne([op |-> "withdraw", item |-> cur])
    /\ GoTo("isolate")
    /\ UNCHANGED <<todo, cur, resultVars>>

IsolationEnds ==
    /\ pc = "isolate" /\ todo = {}
    /\ GoTo("done")
    /\ UNCHANGED <<channelVars, upsets, mishap, todo, cur, resultVars>>

----------------------------------------------------------------------------
\* The harness's steps that only write, read and decide.
Quiet ==
    \/ ProbeCheck \/ AnnounceCases \/ BurstEnds \/ WithdrawCases
    \/ SendCase \/ MeasureCase \/ RetractCase \/ IsolationEnds

Harness ==
    \/ Quiet /\ UNCHANGED <<routerVars, exabgpVars>>
    \/ BurstBegins /\ UNCHANGED exabgpVars
    \/ (\E m \in Cases : CaseBegins(m)) /\ UNCHANGED exabgpVars
    \/ KillExabgp
    \/ StartExabgp /\ UNCHANGED <<routerVars, channelVars>>

Next == Environment \/ Harness

\* The helper's loop never ends, ExaBGP dials again, bgpd processes what it
\* receives, and every call and sleep of the harness comes back.
Fairness ==
    /\ \A p \in Processes : WF_vars(ServeFifo(p) /\ UNCHANGED harnessVars)
    /\ \A f \in Families :
         WF_vars(\E p \in Processes : Connect(f, p) /\ UNCHANGED harnessVars)
    /\ \A i \in Items : WF_vars(HearWithdrawn(i) /\ UNCHANGED harnessVars)
    /\ WF_vars(Harness)

Spec == Init /\ [][Next]_vars /\ Fairness

----------------------------------------------------------------------------
ExabgpOK ==
    /\ procs \subseteq Processes /\ terminated \in BOOLEAN
    /\ rib \in [Processes -> SUBSET Items]
    /\ pipe \in Seq(SUBSET Commands) /\ late \subseteq Commands

RouterOK ==
    /\ owner \in [Families -> Processes \cup {NoProcess}]
    /\ told \subseteq Items /\ routes \subseteq Items
    /\ moved \in [Families -> BOOLEAN]
    /\ culprits \subseteq Items \cup {Outside}

HarnessOK ==
    /\ upsets \in Nat /\ mishap \in BOOLEAN
    /\ todo \subseteq Cases /\ cur \in Cases \cup {NoCase}
    /\ beforeKnown \subseteq Families
    /\ burstReset \in BOOLEAN
    /\ sawReset \in {"unknown", "yes", "no"}
    /\ residue \subseteq Items
    /\ pc \in {"announce", "check", "lookup", "withdraw", "before", "burst",
               "after", "unburst", "kill", "start", "isolate", "send",
               "measure", "retract", "done"}
    /\ pc \in {"send", "measure", "retract"} => cur \in Cases

TypeOK == ExabgpOK /\ RouterOK /\ HarnessOK

(***************************************************************************)
(* Properties                                                              *)
(***************************************************************************)
\* FINDINGS.md H-9: by the time ExaBGP advertises a malformed case it no
\* longer advertises a policy probe, so a reset loop does not repeat the
\* probes and their log lines are not taken for the case's.  The helper may
\* be any number of writes behind; only a lost or late write breaks this.
ProbesGoneFirst ==
    ~mishap => \A p \in Processes :
                 rib[p] \cap Probes = {} \/ rib[p] \cap Cases = {}

\* restart_exabgp's purpose: isolation starts with an empty Adj-RIB-Out and
\* nothing on its way there, although some of the burst's cases are not
\* cleared by their withdrawal and others were not yet read.
CleanSlate ==
    /\ pc = "isolate" /\ todo = IsolatedCases
    /\ FreshSession /\ ~mishap
    => InTheWay = {}

\* A case is blamed for a reset only if it caused one, unless something else
\* of its family was in the way when the counter was first read or a session
\* went down by itself.  (ev_malformed_isolate: the counter is read again
\* before each case.)
BlameIsEarned ==
    /\ pc = "retract" /\ sawReset = "yes"
    /\ Outside \notin culprits
    /\ residue \cap OfFamilies({FamilyOf[cur]}) = {}
    => cur \in culprits

\* The burst reports a reset exactly when there was one between its two
\* pairs of summaries, however soon the session came back.
ResetsAreNoticed ==
    [][pc = "after" /\ pc' = "unburst" /\ UNCHANGED upsets
         /\ beforeKnown = Families
       => (burstReset' <=> culprits # {})]_vars

\* What the command announced leaves the router again, resets or not, except
\* what `withdraw route' does not clear and what a lost or late write left.
RoutesLeave == <>[](routes \subseteq Sticky \/ mishap)

\* Both sessions come back to stay, unless a case is left that resets them.
SessionsReturn ==
    <>[](\/ mishap \/ \A f \in Families : Up(f)
         \/ \E p \in Processes : rib[p] \cap Resetting # {})

\* ev_malformed_isolate: `Announce each malformed case alone'.
CaseIsAlone ==
    pc = "measure" /\ ~mishap /\ Unread = {}
        => UNION {rib[p] : p \in Processes} \subseteq {cur}

----------------------------------------------------------------------------
(***************************************************************************)
(* The invariants behind the safety properties.                            *)
(***************************************************************************)
HasCause(causes, f) == \E c \in causes : c = Outside \/ FamilyOf[c] = f

\* While a case is under test nothing else can make itself felt but what
\* was in the way before, and a counter that moved has a cause.
BlameInv ==
    pc \in {"send", "measure", "retract"} =>
        /\ culprits \subseteq residue \cup {cur, Outside}
        /\ InTheWay \subseteq residue \cup {cur}
        /\ pc # "retract" /\ moved[FamilyOf[cur]] => HasCause(culprits, FamilyOf[cur])
        /\ pc = "retract" /\ sawReset = "yes" => HasCause(culprits, FamilyOf[cur])

BurstInv ==
    pc \in {"burst", "after"} =>
        ((\E f \in Families : moved[f]) <=> culprits # {})

\* Without a mishap one process runs, except between TERM and start.
BeforeRestart == {"announce", "check", "lookup", "withdraw", "before",
                  "burst", "after", "unburst", "kill"}
ProcsInv ==
    ~mishap =>
        /\ late = {}
        /\ IF pc = "start" THEN procs = {} ELSE procs = {1} \/ procs = {2}
        /\ pc \in BeforeRestart => procs = {1}
        /\ \A p \in Processes : p \notin procs => rib[p] = {}

SlateInv ==
    /\ ~mishap /\ FreshSession
         /\ (pc = "start" \/ (pc = "isolate" /\ todo = IsolatedCases))
       => pipe = <<>> /\ \A p \in Processes : rib[p] = {}
    /\ pc \in {"start", "isolate", "send", "measure", "retract"}
       => todo \subseteq IsolatedCases
    /\ pc \in {"kill", "start"} => todo = IsolatedCases
    /\ pc \in {"send", "measure", "retract"} => todo # IsolatedCases

\* The order of the writes in the FIFO.  A probe is clean when no trace of
\* it is left, and going when its withdrawal is on the way and nothing after
\* that announces it again.
Ann(i)  == [op |-> "announce", item |-> i]
Wdr(i)  == [op |-> "withdraw", item |-> i]
Clean(fifo, ribs, i) ==
    /\ \A k \in 1..Len(fifo) : Ann(i) \notin fifo[k]
    /\ \A p \in Processes : i \notin ribs[p]
Going(fifo, i, upto) ==
    \E w \in 1..Len(fifo) :
        /\ w <= upto /\ Wdr(i) \in fifo[w]
        /\ \A x \in 1..Len(fifo) : x >= w => Ann(i) \notin fifo[x]
Gone(fifo, ribs, i, upto) == Clean(fifo, ribs, i) \/ Going(fifo, i, upto)
Early == {"announce", "check", "lookup"}

OrderInv ==
    ~mishap =>
        /\ pc \notin Early => \A i \in Probes : Gone(pipe, rib, i, Len(pipe))
        /\ \A k \in 1..Len(pipe), c \in Cases :
              Ann(c) \in pipe[k] =>
                  pc \notin Early /\ \A i \in Probes : Gone(pipe, rib, i, k - 1)
        /\ \A p \in Processes, c \in Cases :
              c \in rib[p] =>
                  pc \notin Early /\ \A i \in Probes : Clean(pipe, rib, i)
=============================================================================
