----------------------------- MODULE PeerFaults -----------------------------
(***************************************************************************)
(* The faults the harness puts on the peers' side and has to take back:    *)
(* ev_peer_flap (admin_down and notification, blackhole, link_down, and    *)
(* the resets, which leave nothing behind), ev_blackhole_peer and ev_netem,*)
(* an interrupt of the run, and cmd_teardown.  process_kill and gr_event   *)
(* are in Churn.                                                           *)
(*                                                                         *)
(* Every call is a `docker exec' whose result is dropped.  It works, fails,*)
(* or times out, and then the shell in the container may still run it.     *)
(* A read that fails gives nothing; one that times out with half an answer *)
(* gives bytes, on which the caller raises.                                *)
(*                                                                         *)
(* The sessions of a container share its link, its addresses, its packet   *)
(* filter and its queueing discipline.  On a VLAN fabric the addresses are *)
(* on eth1.<vlan>, a child of the eth1 that a flap takes down.             *)
(***************************************************************************)
EXTENDS Integers, FiniteSets

CONSTANTS
    Containers,
    Sessions,      \* the gobgp sessions that are flappable
    Home,          \* [Sessions -> Containers]
    Vlan,          \* the containers on a VLAN fabric
    V4, V6,        \* addresses; every container has its own of each
    Modes,         \* of peer_flap
    MaxTargets,    \* count, of the profile's events
    MaxEvents,     \* bounds the run
    MaxTroubles    \* bounds the calls that do not work

Afis == {"ipv4", "ipv6"}

FlapModes == {"admin_down", "reset", "blackhole", "link_down"}

(* expected_container_addrs: which addresses belong on the peering interface. *)
Plan == V4 \cup V6

Guests(c) == {s \in Sessions : Home[s] = c}

ASSUME PeerFaultsAssumption ==
    /\ IsFiniteSet(Sessions)
    /\ Home \in [Sessions -> Containers]
    /\ Vlan \subseteq Containers
    /\ V4 \cap V6 = {}
    /\ Modes \subseteq FlapModes
    /\ MaxTargets \in Nat
    /\ MaxEvents \in Nat
    /\ MaxTroubles \in Nat

VARIABLES
    \* the containers
    keep,      \* those where keep_addr_on_down took
    link,      \* those whose eth1 is up
    dev,       \* addresses on the peering interface
    par,       \* addresses of the plan on its parent
    rules,     \* DROP rules, in copies of the set that one call inserts
    qdisc,     \* those with a netem qdisc
    disabled,  \* neighbors that are administratively down, in gobgpd
    gens,      \* sessions whose gobgpd runs
    \* the harness
    kind, mode, targets,   \* the event
    pc,        \* the stage it is at
    todo,      \* calls left in this stage
    repair,    \* calls left in restore_addrs
    look,      \* containers left to check
    effective, \* the impairment was read back
    named,     \* containers its record calls broken
    impaired,  \* PredicateSet: between impair_begin and impair_end
    stopping,  \* the run is being interrupted
    late,      \* calls that were given up and may still run
    events, troubles,
    luck       \* history: what became of this event's calls

lab == <<keep, link, dev, par, rules, qdisc, disabled, gens>>
event == <<kind, mode, targets>>
vars == <<lab, event, pc, todo, repair, look, effective, named, impaired, stopping, late,
          events, troubles, luck>>

Stages == {"idle", "down", "count", "giveup", "hold", "up", "read", "check", "stopped",
           "teardown", "over"}

Lucks == {"worked", "failed", "given up", "raised"}

Ops == {"disable", "enable", "linkdown", "linkup", "insert", "delete", "netem", "clear",
        "kill", "put", "take", "nothing"}

Call(op, s, c, x) == [op |-> op, session |-> s, container |-> c, what |-> x]

Calls == [op : Ops, session : Sessions, container : Containers,
          what : Afis \cup Plan \cup {"-"}]

On(op, s) == Call(op, s, Home[s], "-")

----------------------------------------------------------------------------

(* The calls of flap and unflap for a session, of ev_blackhole_peer and of
   ev_netem, which speaks to containers: a session stands for its own. *)
FlapCalls(m, s) ==
    CASE m = "admin_down" -> {Call("disable", s, Home[s], a) : a \in Afis}
      [] m = "reset"      -> {On("nothing", s)}
      [] m = "blackhole"  -> {On("insert", s)}
      [] m = "link_down"  -> {On("linkdown", s)}

UnflapCalls(m, s) ==
    CASE m = "admin_down" -> {Call("enable", s, Home[s], a) : a \in Afis}
      [] m = "reset"      -> {}
      [] m = "blackhole"  -> {On("delete", s)}
      [] m = "link_down"  -> {On("linkup", s)}

Touched == {Home[s] : s \in targets}

DownCalls(k, m, ss) ==
    CASE k = "peer_flap"      -> UNION {FlapCalls(m, s) : s \in ss}
      [] k = "blackhole_peer" -> {On("insert", s) : s \in ss}
      [] k = "netem"          -> {On("netem", s) : s \in ss}

UpCalls ==
    CASE kind = "peer_flap"      -> UNION {UnflapCalls(mode, s) : s \in targets}
      [] kind = "blackhole_peer" -> {On("delete", s) : s \in targets}
      [] kind = "netem"          -> {On("clear", s) : s \in targets}

(* Mutant of TeardownCalls: the rules are deleted once per container. *)
TeardownOnce(c) ==
    UNION {{On("clear", s), On("kill", s)} : s \in Guests(c)}
        \cup {On("delete", CHOOSE s \in Sessions : Home[s] = c)}

(* cmd_teardown for a container: its netem, its rules once per session, then
   its generators. *)
TeardownCalls(c) == UNION {{On("clear", s), On("delete", s), On("kill", s)} : s \in Guests(c)}

InTurn(a) == a.op = "kill" => \A b \in todo : b.op = "kill"

(* Mutant of OneLess: a -D that takes away what is not there. *)
OneLessAnyway(n) == n - 1

OneLess(n) == IF n > 0 THEN n - 1 ELSE 0

(* What a call does.  Linux flushes the global IPv6 addresses of a link that
   goes down, and of its VLAN children, unless told to keep them. *)
Does(a) ==
    LET c == a.container  p == <<a.session, a.what>> IN
    /\ link' = CASE a.op = "linkdown" -> link \ {c}
                 [] a.op = "linkup"   -> link \cup {c}
                 [] OTHER             -> link
    /\ dev' = CASE a.op = "linkdown" /\ c \in link \ keep -> [dev EXCEPT ![c] = @ \ V6]
                [] a.op = "put"                           -> [dev EXCEPT ![c] = @ \cup {a.what}]
                [] OTHER                                  -> dev
    /\ par' = CASE a.op = "linkdown" /\ c \in link \ keep -> [par EXCEPT ![c] = @ \ V6]
                [] a.op = "take"                          -> [par EXCEPT ![c] = @ \ {a.what}]
                [] OTHER                                  -> par
    /\ rules' = CASE a.op = "insert" -> [rules EXCEPT ![c] = @ + 1]
                  [] a.op = "delete" -> [rules EXCEPT ![c] = OneLess(@)]
                  [] OTHER           -> rules
    /\ qdisc' = CASE a.op = "netem" -> qdisc \cup {c}
                  [] a.op = "clear" -> qdisc \ {c}
                  [] OTHER          -> qdisc
    /\ disabled' = CASE a.op = "disable" /\ a.session \in gens -> disabled \cup {p}
                     [] a.op = "enable"                        -> disabled \ {p}
                     [] a.op = "kill"                          -> disabled \ ({a.session} \X Afis)
                     [] OTHER                                  -> disabled
    /\ gens' = IF a.op = "kill" THEN gens \ {a.session} ELSE gens
    /\ UNCHANGED keep

----------------------------------------------------------------------------

(* A call and the three ways it can go. *)
Works(a) == Does(a) /\ UNCHANGED <<late, troubles, luck>>

Trouble(l) ==
    /\ troubles < MaxTroubles
    /\ troubles' = troubles + 1
    /\ luck' = IF luck = "given up" THEN luck ELSE l

Fails(a) == Trouble("failed") /\ UNCHANGED <<lab, late>>

TimesOut(a) == Trouble("given up") /\ late' = late \cup {a} /\ UNCHANGED lab

Perform(a) == Works(a) \/ Fails(a) \/ TimesOut(a)

(* What addrs_on sees of a set when the read of a family fails. *)
Seen(A) == {A \ V4, A \ V6, {}}

(* The end of an event: its record, and the end of the impairment. *)
Finish ==
    /\ pc' = IF stopping THEN "stopped" ELSE "idle"
    /\ impaired' = FALSE

(* An exception: the finally clause of ev_peer_flap, none in ev_netem. *)
Raises ==
    /\ Trouble("raised")
    /\ Finish
    /\ todo' = {} /\ repair' = {} /\ look' = {}
    /\ UNCHANGED <<lab, event, effective, named, stopping, late, events>>

Init ==
    /\ keep \in SUBSET Containers
    /\ link = Containers
    /\ dev = [c \in Containers |-> Plan]
    /\ par \in [Containers -> SUBSET Plan]          \* strays of an earlier version
    /\ \A c \in Containers \ Vlan : par[c] = {}
    /\ rules = [c \in Containers |-> 0]
    /\ qdisc = {}
    /\ disabled = {}
    /\ gens = Sessions
    /\ kind = "none" /\ mode = "none" /\ targets = {}
    /\ pc = "idle"
    /\ todo = {} /\ repair = {} /\ look = {}
    /\ effective = FALSE
    /\ named = {}
    /\ impaired = FALSE
    /\ stopping = FALSE
    /\ late = {}
    /\ events = 0 /\ troubles = 0
    /\ luck = "worked"

(* Ctx.pick; ev_blackhole_peer takes one session whatever its count. *)
StartEvent ==
    /\ pc = "idle"
    /\ events < MaxEvents
    /\ events' = events + 1
    /\ \E k \in {"peer_flap", "blackhole_peer", "netem"}, m \in Modes,
          ss \in SUBSET Sessions \ {{}} :
          /\ Cardinality(ss) <= (IF k = "blackhole_peer" THEN 1 ELSE MaxTargets)
          /\ k = "netem" => \A s, t \in ss : Home[s] = Home[t] => s = t
          /\ kind' = k
          /\ mode' = IF k = "peer_flap" THEN m ELSE "none"
          /\ targets' = ss
          /\ todo' = DownCalls(k, m, ss)
          /\ impaired' = (k # "netem")
    /\ pc' = "down"
    /\ effective' = FALSE
    /\ named' = {}
    /\ luck' = IF late = {} THEN "worked" ELSE "given up"
    /\ UNCHANGED <<lab, repair, look, stopping, late, troubles>>

(* A fault is put on; blackhole and netem are then read back. *)
CallDown ==
    /\ pc = "down"
    /\ \E a \in todo :
          /\ Perform(a)
          /\ todo' = todo \ {a}
          /\ IF kind = "peer_flap"
             THEN /\ pc' = IF todo' = {} THEN "hold" ELSE "down"
                  /\ look' = {}
             ELSE /\ pc' = "count"
                  /\ look' = {a.container}
    /\ UNCHANGED <<event, repair, effective, named, impaired, stopping, events>>

(* blackhole_rules or netem_active.  Of a netem nothing is cleared when the
   read raises; what is not effective is taken back at once. *)
Counted ==
    /\ look' = {}
    /\ IF todo # {} THEN pc' = "down" /\ UNCHANGED todo
       ELSE IF effective' THEN pc' = "hold" /\ UNCHANGED todo
       ELSE pc' = (IF kind = "netem" THEN "up" ELSE "giveup") /\ todo' = UpCalls
    /\ UNCHANGED <<lab, event, repair, named, impaired, stopping, late, events>>

Count ==
    /\ pc = "count"
    /\ \/ /\ effective' = (effective \/ \E c \in look : IF kind = "netem" THEN c \in qdisc
                                                                       ELSE rules[c] > 0)
          /\ Counted
          /\ UNCHANGED <<troubles, luck>>
       \/ /\ Trouble("failed")
          /\ UNCHANGED effective
          /\ Counted
       \/ kind = "netem" /\ Raises

(* Mutant of Hold: the impairment ends with it, before it is taken back. *)
HoldLifts ==
    /\ pc = "hold"
    /\ pc' = "up"
    /\ todo' = UpCalls
    /\ impaired' = FALSE
    /\ UNCHANGED <<lab, event, repair, look, effective, named, stopping, late, events, troubles,
                   luck>>

(* The hold is over. *)
Hold ==
    /\ pc = "hold"
    /\ pc' = "up"
    /\ todo' = UpCalls
    /\ UNCHANGED <<lab, event, repair, look, effective, named, impaired, stopping, late,
                   events, troubles, luck>>

(* A fault is taken back; a link that came up has its addresses read. *)
CallUp ==
    /\ pc \in {"up", "giveup", "teardown"}
    /\ repair = {}
    /\ \E a \in todo :
          /\ InTurn(a)
          /\ Perform(a)
          /\ todo' = todo \ {a}
          /\ IF a.op = "linkup"
             THEN pc' = "read" /\ look' = {a.container}
             ELSE UNCHANGED <<pc, look>>
    /\ UNCHANGED <<event, repair, effective, named, impaired, stopping, events>>

(* Mutants of Repairs: before H-59 nothing was put back; before H-61 what is
   on the parent stayed there. *)
RepairsNothing(s, have, stray) == {}

RepairsOnlyMissing(s, have, stray) == {Call("put", s, Home[s], x) : x \in Plan \ have}

(* restore_addrs, with what was read. *)
Repairs(s, have, stray) ==
    {Call("put", s, Home[s], x) : x \in Plan \ have}
        \cup {Call("take", s, Home[s], x) : x \in stray}

Read ==
    /\ pc = "read"
    /\ \/ /\ \E s \in targets, have, stray \in SUBSET Plan :
                /\ look = {Home[s]}
                /\ \/ /\ have = dev[Home[s]] /\ stray = par[Home[s]]
                      /\ UNCHANGED <<troubles, luck>>
                   \/ /\ have \in {dev[Home[s]]} \cup Seen(dev[Home[s]])
                      /\ stray \in {par[Home[s]]} \cup Seen(par[Home[s]])
                      /\ Trouble("failed")
                /\ repair' = Repairs(s, have, stray)
          /\ pc' = "up"
          /\ look' = {}
          /\ UNCHANGED <<lab, event, todo, effective, named, impaired, stopping, late, events>>
       \/ Raises

Repair ==
    /\ pc = "up"
    /\ \E a \in repair :
          /\ Perform(a)
          /\ repair' = repair \ {a}
    /\ UNCHANGED <<event, pc, todo, look, effective, named, impaired, stopping, events>>

(* All is taken back: a link flap is checked, any other event is over. *)
AllUp ==
    /\ todo = {} /\ repair = {}
    /\ \/ /\ pc = "up"
          /\ IF mode = "link_down"
             THEN pc' = "check" /\ look' = Touched /\ UNCHANGED impaired
             ELSE Finish /\ UNCHANGED look
          /\ UNCHANGED todo
       \/ /\ pc = "giveup"
          /\ pc' = "up"
          /\ todo' = UpCalls
          /\ UNCHANGED <<look, impaired>>
       \/ /\ pc = "teardown"
          /\ IF look = {} THEN pc' = "over" /\ UNCHANGED <<todo, look>>
             ELSE \E c \in look :
                     /\ todo' = TeardownCalls(c)
                     /\ look' = look \ {c}
                     /\ UNCHANGED pc
          /\ UNCHANGED impaired
    /\ UNCHANGED <<lab, event, repair, effective, named, stopping, late, events, troubles, luck>>

(* Mutant of Broken: a container is broken when nothing is left. *)
BrokenIfBare(have, stray) == have = {} \/ stray # {}

(* addrs_missing and addrs_misplaced. *)
Broken(have, stray) == have # Plan \/ stray # {}

Check ==
    /\ pc = "check"
    /\ \/ /\ \E c \in look, have, stray \in SUBSET Plan :
                /\ \/ /\ have = dev[c] /\ stray = par[c]
                      /\ UNCHANGED <<troubles, luck>>
                   \/ /\ have \in {dev[c]} \cup Seen(dev[c])
                      /\ stray \in {par[c]} \cup Seen(par[c])
                      /\ Trouble("failed")
                /\ named' = IF Broken(have, stray) THEN named \cup {c} ELSE named
                /\ look' = look \ {c}
          /\ IF look' = {} THEN Finish ELSE UNCHANGED <<pc, impaired>>
          /\ UNCHANGED <<lab, event, todo, repair, effective, stopping, late, events>>
       \/ Raises

(* Ctrl-C.  ev_blackhole_peer still takes its rules back; the others end as
   they are.  A call it interrupts may go on. *)
Interrupt ==
    /\ pc \in {"down", "count", "giveup", "hold", "up", "read", "check"}
    /\ ~stopping
    /\ stopping' = TRUE
    /\ \/ UNCHANGED <<late, troubles, luck>>
       \/ \E a \in todo \cup repair : late' = late \cup {a} /\ Trouble("given up")
    /\ repair' = {} /\ look' = {}
    /\ IF kind = "blackhole_peer" /\ pc # "up"
       THEN pc' = "up" /\ todo' = UpCalls /\ UNCHANGED impaired
       ELSE /\ pc' = "stopped"
            /\ todo' = {}
            /\ impaired' = (kind = "blackhole_peer")
    /\ UNCHANGED <<lab, event, effective, named, events>>

(* make teardown, after a run or an interrupted one: a new process. *)
StartTeardown ==
    /\ pc \in {"idle", "stopped"}
    /\ pc' = "teardown"
    /\ look' = Containers
    /\ kind' = "none" /\ mode' = "none" /\ targets' = {}
    /\ effective' = FALSE /\ named' = {} /\ impaired' = FALSE /\ stopping' = FALSE
    /\ events' = 0 /\ luck' = "worked"
    /\ UNCHANGED <<lab, todo, repair, late, troubles>>

(* A shell that was given up does its call after all. *)
RunsLate ==
    /\ \E a \in late : Does(a) /\ late' = late \ {a}
    /\ UNCHANGED <<event, pc, todo, repair, look, effective, named, impaired, stopping, events,
                   troubles, luck>>

Next ==
    \/ StartEvent \/ CallDown \/ Count \/ Hold \/ CallUp \/ Read \/ Repair \/ AllUp \/ Check
    \/ Interrupt \/ StartTeardown \/ RunsLate

Spec == Init /\ [][Next]_vars

----------------------------------------------------------------------------

(* Type correctness of the containers and of the harness. *)
TypeOK ==
    /\ keep \cup link \cup qdisc \cup look \cup named \subseteq Containers
    /\ dev \in [Containers -> SUBSET Plan]
    /\ par \in [Containers -> SUBSET Plan]
    /\ rules \in [Containers -> Nat]
    /\ disabled \subseteq Sessions \X Afis
    /\ gens \cup targets \subseteq Sessions
    /\ kind \in {"none", "peer_flap", "blackhole_peer", "netem"}
    /\ mode \in FlapModes \cup {"none"}
    /\ pc \in Stages
    /\ todo \cup repair \cup late \subseteq Calls
    /\ effective \in BOOLEAN
    /\ impaired \in BOOLEAN
    /\ stopping \in BOOLEAN
    /\ events \in 0 .. MaxEvents
    /\ troubles \in 0 .. MaxTroubles
    /\ luck \in Lucks

Clean == troubles = 0

Flapped == pc = "idle" /\ mode = "link_down"

(* While every call works, each event takes back what it put on: no rule, no
   qdisc, no neighbor or link is left down, and every address is where it
   was, though the sessions of a container share all of it. *)
Restored ==
    pc = "idle" /\ Clean =>
        /\ link = Containers
        /\ qdisc = {}
        /\ disabled = {}
        /\ \A c \in Containers : rules[c] = 0 /\ dev[c] = Plan

(* A link flap whose own calls work leaves its containers as the inventory
   says, whatever earlier events broke: all addresses on the interface they
   belong to, and none on its parent (H-59, H-61). *)
HealedByFlap ==
    Flapped /\ luck = "worked" =>
        \A c \in Touched : c \in link /\ dev[c] = Plan /\ par[c] = {}

(* A link flap that loses an address says so in its record, though any of
   its calls and reads may have failed. *)
BrokenIsNamed ==
    Flapped /\ luck \in {"worked", "failed"} =>
        \A c \in Touched : dev[c] # Plan => c \in named

(* As long as the harness holds a peer down the predicates know of it. *)
ImpairmentCovers ==
    /\ Clean
    /\ pc \notin {"stopped", "teardown", "over"}
    /\ link # Containers \/ disabled # {} \/ \E c \in Containers : rules[c] > 0
    => impaired

(* After a teardown that works there is no rule, no qdisc and no generator,
   wherever the run was interrupted. *)
TeardownClears ==
    pc = "over" /\ Clean =>
        /\ \A c \in Containers : rules[c] = 0
        /\ qdisc = {}
        /\ gens = {} /\ disabled = {}

----------------------------------------------------------------------------

(* The parts of the inductive invariant. *)

Acting == {"down", "count", "giveup", "hold", "up", "read", "check"}

StageInv ==
    /\ kind = "peer_flap" <=> mode # "none"
    /\ pc \in Acting => kind # "none"
    /\ pc = "count" => kind # "peer_flap"
    /\ pc = "giveup" => kind = "blackhole_peer"
    /\ pc \in {"read", "check"} => mode = "link_down"
    /\ pc = "read" => \E s \in targets : look = {Home[s]}

WellFormed(a) ==
    /\ a.container = Home[a.session]
    /\ a.op \in {"put", "take"} => a.what \in Plan
    /\ a.op \in {"disable", "enable"} => a.what \in Afis

(* Which calls can be left at a stage. *)
CallsInv ==
    /\ \A a \in todo \cup repair \cup late : WellFormed(a)
    /\ \A a \in repair : a.op \in {"put", "take"}
    /\ pc \in {"down", "count"} => todo \subseteq DownCalls(kind, mode, targets)
    /\ pc \in {"giveup", "up", "read"} => todo \subseteq UpCalls
    /\ pc = "teardown" => \A a \in todo : a.op \in {"clear", "delete", "kill"}
    /\ pc \in {"idle", "hold", "check", "stopped", "over"} => todo = {}
    /\ pc # "up" => repair = {}

(* Without a call that was given up nothing runs late; an exception ends the
   event. *)
QuietInv ==
    /\ pc \in Acting => luck # "raised"
    /\ luck # "given up" /\ pc \notin {"teardown", "over"} => late = {}
    /\ Clean => late = {} /\ luck = "worked"

(* After its linkup a session's container is to be read, and after the read
   what it lacks is to be repaired. *)
HealInv ==
    mode = "link_down" /\ luck = "worked" /\ pc \in {"up", "read", "check", "idle"} =>
        \A s \in targets :
            LET c == Home[s] IN
            \/ On("linkup", s) \in todo
            \/ pc = "read" /\ look = {c} /\ c \in link
            \/ /\ c \in link
               /\ \A x \in Plan \ dev[c] :
                     \E a \in repair : a.op = "put" /\ a.container = c /\ a.what = x
               /\ \A x \in par[c] :
                     \E a \in repair : a.op = "take" /\ a.container = c /\ a.what = x

NamedInv ==
    mode = "link_down" /\ luck \in {"worked", "failed"} /\ pc \in {"check", "idle"} =>
        \A c \in Touched : dev[c] # Plan => c \in named \/ (pc = "check" /\ c \in look)

ImpairedInv == pc \in Acting /\ kind # "netem" => impaired

(* The call that takes back what another did. *)
Undo(a) ==
    [a EXCEPT !.op = CASE @ = "disable"  -> "enable"
                       [] @ = "linkdown" -> "linkup"
                       [] @ = "insert"   -> "delete"
                       [] @ = "netem"    -> "clear"
                       [] OTHER          -> @]

(* A call was made, and what takes it back is to come: in this event, or,
   after an interrupt, in a teardown. *)
Owed(a) ==
    \/ pc \in {"down", "count", "hold", "giveup"} /\ a \in DownCalls(kind, mode, targets) \ todo
    \/ pc \in {"up", "read", "check"} /\ Undo(a) \in todo
    \/ pc = "stopped"
    \/ pc = "teardown" /\ (a.container \in look \/ Undo(a) \in todo)

RulesInv ==
    Clean => \A c \in Containers :
                rules[c] <= Cardinality({s \in Guests(c) : Owed(On("insert", s))})

QdiscInv == Clean => \A c \in qdisc : \E s \in Guests(c) : Owed(On("netem", s))

Running == pc \notin {"stopped", "teardown", "over"}

LinkInv ==
    Clean /\ Running => \A c \in Containers \ link : \E s \in Guests(c) : Owed(On("linkdown", s))

DisabledInv ==
    /\ disabled \subseteq gens \X Afis
    /\ Clean /\ Running =>
          \A s \in Sessions, a \in Afis :
              <<s, a>> \in disabled => Owed(Call("disable", s, Home[s], a))

DevInv ==
    Clean /\ Running =>
        \A c \in Containers :
            dev[c] # Plan => mode = "link_down" /\ c \in Touched /\ pc # "idle"

GensInv ==
    Clean /\ pc \in {"teardown", "over"} =>
        \A s \in gens : pc = "teardown" /\ (Home[s] \in look \/ On("kill", s) \in todo)

IInv ==
    /\ TypeOK /\ StageInv /\ CallsInv
    /\ QuietInv /\ HealInv /\ NamedInv /\ ImpairedInv
    /\ RulesInv /\ QdiscInv /\ LinkInv /\ DisabledInv /\ DevInv /\ GensInv

=============================================================================
