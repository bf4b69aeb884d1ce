------------------------------- MODULE Churn -------------------------------
(***************************************************************************)
(* What one generator announces while a chaos run churns it: ev_churn with *)
(* its four modes, and the restarts of peer_flap and gr_event, after which *)
(* the table is loaded again.                                              *)
(*                                                                         *)
(* The harness keeps one number per session, walk_offset; the table is in  *)
(* the generator.  Every call is a `docker exec' whose result is dropped:  *)
(* it may fail (a batch longer than the kernel takes as one argument does  *)
(* so every time), or be given up after its timeout, while the shell in    *)
(* the container goes on with what is left of it.                          *)
(*                                                                         *)
(* A gobgpd keeps a path by prefix and source.  `rib add' and `rib del'    *)
(* come from another source than `mrt inject', and FINDINGS.md H-16 leaves *)
(* open whether a del matches a path that was injected: Matching.          *)
(***************************************************************************)
EXTENDS PrefixPlan, FiniteSets

CONSTANTS
    Plan,        \* [Afis -> plan]
    Slot,        \* nlri_slot
    Count,       \* [Afis -> Nat]: prefixes_v4, prefixes_v6
    Fractions,   \* the fractions of the profile's churn events, in Per-ths
    Per,
    Engines,     \* subset of {"gobgp", "exabgp"}
    Matching,    \* subset of BOOLEAN
    Modes,       \* the events the profile schedules
    MaxEvents,   \* bounds the run
    MaxTroubles  \* bounds the calls that fail or are given up

Afis == {"ipv4", "ipv6"}

Churns == {"flap_same", "withdraw_storm", "attr_churn", "walk"}

Restarts == {"process_kill", "gr_event"}

(* How many prefixes of a family an event of fraction f names: int() of the
   product, at least one if the session has any (_session_prefixes). *)
Named(afi, f) == IF Count[afi] = 0 THEN 0 ELSE Larger(1, (Count[afi] * f) \div Per)

Window(off, f) ==
    UNION {{afi} \X FirstPrefixes(Plan[afi], Slot, Count[afi], off, Named(afi, f)) :
              afi \in Afis}

(* What the session's MRT file and ExaBGP's boot file hold. *)
Own ==
    UNION {{afi} \X SessionPrefixes(Plan[afi], Slot, Count[afi], 0) : afi \in Afis}

(* The step of a walk, one for both families: max(1, len(v4) or len(v6)). *)
WalkStep(f) ==
    Larger(1, IF Named("ipv4", f) # 0 THEN Named("ipv4", f) ELSE Named("ipv6", f))

(* The windows lie in the exclusive part of the table, no longer than the
   step, and two in a row do not reach around the prefix space.  Nothing
   checks it; the profiles have it: at most 60% against 85% exclusive, and
   never more IPv6 than IPv4 prefixes. *)
WindowsFit ==
    \A f \in Fractions, afi \in Afis :
        /\ Named(afi, f) <= Exclusive(Plan[afi], Count[afi])
        /\ Named(afi, f) <= WalkStep(f)
        /\ 2 * WalkStep(f) <= Capacity(Plan[afi])

ASSUME ChurnAssumption ==
    /\ \A afi \in Afis : IsPlan(Plan[afi])
    /\ Slot \in Nat
    /\ Count \in [Afis -> Nat]
    /\ Per \in Nat \ {0}
    /\ Fractions \subseteq 1 .. Per
    /\ Engines \subseteq {"gobgp", "exabgp"}
    /\ Matching \subseteq BOOLEAN
    /\ Modes \subseteq Churns \cup Restarts
    /\ MaxEvents \in Nat
    /\ MaxTroubles \in Nat
    /\ WindowsFit

----------------------------------------------------------------------------

VARIABLES
    engine,    \* the session's generator
    matches,   \* whether `rib del' removes a path of the MRT injection
    up,        \* the generator runs
    mrt,       \* prefixes with a path from the MRT or the boot file
    api,       \* prefixes with a path from `rib add'
    offset,    \* ctx.walk_offset of the session
    mode, fraction,  \* the event
    pc,        \* its next command
    late,      \* commands left in the shells of calls that were given up
    events, troubles,
    \* history
    dirty,     \* a call failed or was given up since the table was last empty
    walked,    \* a window other than the first was named since then
    used,      \* the fractions named since then
    held       \* fraction of the last walk, 0 once its window was taken back

generator == <<up, mrt, api>>
event == <<mode, fraction, events>>
history == <<walked, used, held>>
vars == <<engine, matches, generator, offset, event, pc, late, troubles, dirty, history>>

Commands == {"del", "readd", "fresh", "load", "again", "kill", "start"}

Table == mrt \cup api

Between == pc = "idle"

(* ExaBGP does not walk: its offset stays 0 and it announces the window. *)
Walking == mode = "walk" /\ engine = "gobgp"

Init ==
    /\ engine \in Engines
    /\ matches \in (IF engine = "gobgp" THEN Matching ELSE {TRUE})
    /\ up = TRUE
    /\ mrt = Own
    /\ api = {}
    /\ offset = 0
    /\ mode = "none" /\ fraction = 1
    /\ pc = "idle"
    /\ late = {}
    /\ events = 0 /\ troubles = 0
    /\ dirty = FALSE /\ walked = FALSE /\ used = {} /\ held = 0

----------------------------------------------------------------------------

(* What a command does to the generator; without a process it does nothing. *)
Delete(window) ==
    /\ mrt' = IF up /\ matches THEN mrt \ window ELSE mrt
    /\ api' = IF up THEN api \ window ELSE api
    /\ UNCHANGED up

Announce(window) ==
    /\ api' = IF up THEN api \cup window ELSE api
    /\ UNCHANGED <<up, mrt>>

InjectMrt ==
    /\ mrt' = IF up THEN mrt \cup Own ELSE mrt
    /\ UNCHANGED <<up, api>>

(* SIGINT or SIGTERM: the table goes with the process. *)
Kill ==
    /\ up' = FALSE
    /\ mrt' = {} /\ api' = {}

(* A second gobgpd does not get the port of one that runs. *)
StartGobgpd ==
    /\ up' = TRUE
    /\ UNCHANGED <<mrt, api>>

Does(cmd, off, f) ==
    \/ cmd = "del" /\ Delete(Window(off, f))
    \/ cmd = "readd" /\ Announce(Window(off, f))
    \/ cmd = "fresh" /\ Announce(Window(off + WalkStep(f), f))
    \/ cmd \in {"load", "again"} /\ InjectMrt
    \/ cmd = "kill" /\ Kill
    \/ cmd = "start" /\ StartGobgpd

(* The first command of an event and, per mode, the one after each call:
   the four branches of _churn_gobgp, the two of _churn_exabgp, and flap,
   unflap and gr_event's own load. *)
First(m) ==
    CASE m \in Restarts                            -> "kill"
      [] m \in {"flap_same", "withdraw_storm"}     -> "del"
      [] m = "walk" /\ engine = "gobgp"            -> "fresh"
      [] OTHER                                     -> "readd"

AfterDelete ==
    IF Walking THEN "idle"
    ELSE IF mode = "withdraw_storm" /\ engine = "gobgp" THEN "load"
    ELSE "readd"

(* Mutant of AfterCall, the unflap of before H-25: the process comes back and
   its table does not. *)
AfterCallSessionOnly(cmd) ==
    CASE cmd = "del"  -> AfterDelete
      [] cmd = "kill" -> "start"
      [] OTHER        -> "idle"

AfterCall(cmd) ==
    CASE cmd = "del"                           -> AfterDelete
      [] cmd = "kill"                          -> "start"
      [] cmd = "start"                         -> "load"
      [] cmd = "load" /\ mode = "gr_event"     -> "again"
      [] OTHER                                 -> "idle"

(* Mutant of After: the walk announces its window and leaves the old one. *)
AfterWalkAdds(cmd) == AfterCall(cmd)

(* A walk is one call of two commands. *)
After(cmd) == IF cmd = "fresh" THEN "del" ELSE AfterCall(cmd)

(* Mutants of Advance: every churn event moves the offset; a walk that goes
   back instead of forth. *)
AdvanceAlways(next) ==
    offset' = IF mode \in Churns /\ next = "idle" THEN offset + WalkStep(fraction) ELSE offset

AdvanceBack(next) ==
    offset' = IF Walking /\ next = "idle" THEN offset - WalkStep(fraction) ELSE offset

(* The offset moves when the walk's call returns, whatever became of it. *)
Advance(next) ==
    offset' = IF Walking /\ next = "idle" THEN offset + WalkStep(fraction) ELSE offset

----------------------------------------------------------------------------

StartEvent ==
    /\ Between
    /\ events < MaxEvents
    /\ events' = events + 1
    /\ \E m \in Modes, f \in Fractions :
          /\ m \in Restarts => engine = "gobgp"
          /\ mode' = m
          /\ fraction' = f
          /\ pc' = First(m)
          /\ IF m \in Churns
             THEN /\ walked' = (walked \/ offset # 0 \/ First(m) = "fresh")
                  /\ used' = used \cup {f}
             ELSE UNCHANGED <<walked, used>>
    /\ UNCHANGED <<engine, matches, generator, offset, late, troubles, dirty, held>>

(* A call does what it should.  Started from nothing, with no shell left
   over, the generator has a history of its own again. *)
Works ==
    /\ pc \in Commands
    /\ Does(pc, offset, fraction)
    /\ pc' = After(pc)
    /\ Advance(After(pc))
    /\ IF pc = "start" /\ ~up /\ late = {}
       THEN dirty' = FALSE /\ walked' = FALSE /\ used' = {} /\ held' = 0
       ELSE /\ held' = IF pc = "del" /\ Walking THEN fraction
                       ELSE IF pc = "load" THEN 0 ELSE held
            /\ UNCHANGED <<dirty, walked, used>>
    /\ UNCHANGED <<engine, matches, event, late, troubles>>

(* docker exec fails, the pid is not found, the port is still taken: the
   result is not looked at and the event goes on. *)
Fails ==
    /\ pc \in Commands
    /\ troubles < MaxTroubles
    /\ troubles' = troubles + 1
    /\ dirty' = TRUE
    /\ pc' = AfterCall(IF pc = "fresh" THEN "del" ELSE pc)
    /\ Advance(pc')
    /\ UNCHANGED <<engine, matches, generator, event, late, history>>

(* The timeout ends the wait, not the shell in the container. *)
TimesOut ==
    /\ pc \in Commands
    /\ troubles < MaxTroubles
    /\ troubles' = troubles + 1
    /\ dirty' = TRUE
    /\ late' = late \cup {[cmd |-> pc, off |-> offset, f |-> fraction, nr |-> troubles]}
    /\ pc' = AfterCall(IF pc = "fresh" THEN "del" ELSE pc)
    /\ Advance(pc')
    /\ UNCHANGED <<engine, matches, generator, event, history>>

(* A shell that was given up runs its next command. *)
RunsLate ==
    /\ \E l \in late :
          /\ Does(l.cmd, l.off, l.f)
          /\ late' = IF l.cmd = "fresh"
                     THEN (late \ {l}) \cup {[l EXCEPT !.cmd = "del"]}
                     ELSE late \ {l}
    /\ UNCHANGED <<engine, matches, offset, event, pc, troubles, dirty, history>>

Next == StartEvent \/ Works \/ Fails \/ TimesOut \/ RunsLate

Spec == Init /\ [][Next]_vars

----------------------------------------------------------------------------

Prefixes == Afis \X (Nat \X Nat)

(* Type correctness of the harness's and the generator's state. *)
TypeOK ==
    /\ engine \in {"gobgp", "exabgp"}
    /\ matches \in BOOLEAN
    /\ up \in BOOLEAN
    /\ mrt \cup api \subseteq Prefixes
    /\ offset \in Nat
    /\ mode \in Churns \cup Restarts \cup {"none"}
    /\ fraction \in 1 .. Per
    /\ pc \in Commands \cup {"idle"}
    /\ late \subseteq [cmd : Commands, off : Nat, f : 1 .. Per, nr : Nat]
    /\ events \in 0 .. MaxEvents
    /\ troubles \in 0 .. MaxTroubles
    /\ dirty \in BOOLEAN
    /\ walked \in BOOLEAN
    /\ used \subseteq Fractions
    /\ held \in Fractions \cup {0}

(* Between events the generator announces what its profile says, unless a
   window was walked or a call failed since the table was last empty; the
   restarts give the table back, whatever was walked or failed before, if
   no shell was left over.  This is what reinject_after_restart (H-25) and
   the restore of withdraw_storm are for. *)
Steady == Between /\ ~dirty /\ ~walked => Table = Own

(* The window of the last walk is announced until a storm or a restart:
   the del of the previous window takes nothing of it. *)
WalkedWindowAnnounced ==
    Between /\ ~dirty /\ held # 0 => Window(offset, held) \subseteq Table

(* What is announced beyond the profile is the current window: a walk takes
   the previous one back (as long as all events name the same fraction; a
   larger one leaves the rest of its window behind when a smaller walks). *)
DriftIsTheWindow ==
    \A f \in Fractions :
        Between /\ ~dirty /\ used \subseteq {f} => Table \subseteq Own \cup Window(offset, f)

(* RUNBOOK.md:808 of churn mode=walk: "announce fresh NLRI, withdraw older
   - stable table size, every prefix new". *)
WalkIsStable ==
    Between /\ ~dirty => Cardinality(Table) = Cardinality(Own)

----------------------------------------------------------------------------

(* The parts of the inductive invariant. *)

(* Which commands an event can be at. *)
StageInv ==
    /\ pc # "idle" => fraction \in Fractions
    /\ pc \in {"kill", "start", "again"} => mode \in Restarts
    /\ pc = "load" => mode \in Restarts \cup {"withdraw_storm"}
    /\ pc \in {"readd", "del"} => mode \in Churns /\ fraction \in used
    /\ pc = "readd" => ~Walking
    /\ pc = "fresh" => Walking /\ fraction \in used

(* A table dies with its process, and its MRT part is the profile's. *)
TableInv ==
    /\ ~up => Table = {}
    /\ mrt \subseteq Own

(* While nothing failed no shell is left over, and the process runs unless
   it is being restarted. *)
CleanInv ==
    ~dirty => late = {} /\ (pc # "start" => up) /\ (pc = "start" => ~up)

SteadyInv ==
    ~dirty /\ ~walked =>
        /\ Table \subseteq Own
        /\ pc \in {"readd", "del"} => offset = 0 /\ ~Walking
        /\ pc # "fresh"
        /\ pc = "load" /\ mode \in Churns => offset = 0
        /\ pc \in {"idle", "kill", "del"} => Own \subseteq Table
        /\ pc = "readd" => Own \subseteq Table \cup Window(offset, fraction)

WalkInv ==
    ~dirty /\ Walking /\ pc = "del" => Window(offset + WalkStep(fraction), fraction) \subseteq api

HeldInv ==
    ~dirty /\ held # 0 =>
        /\ pc # "again"
        /\ pc \in {"idle", "kill", "fresh"} => Window(offset, held) \subseteq Table
        /\ pc = "del" /\ ~Walking => Window(offset, held) \subseteq Table
        /\ pc = "readd" => Window(offset, held) \subseteq Table \cup Window(offset, fraction)

DriftInv ==
    \A f \in Fractions :
        ~dirty /\ used \subseteq {f} =>
            Table \subseteq Own \cup Window(offset, f)
                            \cup (IF Walking /\ pc = "del"
                                  THEN Window(offset + WalkStep(fraction), f) ELSE {})

IInv ==
    /\ TypeOK
    /\ StageInv
    /\ TableInv
    /\ CleanInv
    /\ SteadyInv
    /\ WalkInv
    /\ HeldInv
    /\ DriftInv

============================================================================
