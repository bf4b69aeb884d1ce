------------------------------- MODULE Ramp -------------------------------
(***************************************************************************)
(* The start of the fleet (cmd_bringup, _start_generators) and the search  *)
(* for the router's limit in waves (cmd_ramp).                             *)
(*                                                                         *)
(* A gobgp session has a generator of its own; the ExaBGP sessions of a    *)
(* container share one.  The router is configured with a neighbor for      *)
(* every session of the profile before the first generator starts, and     *)
(* FRR counts as failed every neighbor that is not Established.            *)
(*                                                                         *)
(* Abstractions.  Of a table only its source is kept: a file of the size   *)
(* of the one generated for the session, or of another; the harness cannot *)
(* tell two files of one size apart.  A converged wait rests on a record   *)
(* of the wait itself (module Gate).  The predicates are represented by    *)
(* the failed peers, with a budget of none, as all profiles have it.  A    *)
(* second generator started beside one that runs does not stay.  There are *)
(* sessions.                                                               *)
(***************************************************************************)
EXTENDS Integers, Sequences, FiniteSets

CONSTANTS
    Order,         \* the sessions, as the ramp starts them
    Box,           \* the container of an ExaBGP session
    MaxSteps,      \* max_steps
    MaxUpsets      \* bound: calls that fail, crashes and sessions lost

Sessions == {Order[i] : i \in 1..Len(Order)}
Exabgp   == DOMAIN Box
Gobgp    == Sessions \ Exabgp
Boxes    == {Box[s] : s \in Exabgp}

(* The generator of a session. *)
Generator(s)   == IF s \in Exabgp THEN Box[s] ELSE s
GeneratorsOf(S) == {Generator(s) : s \in S}

ASSUME RampAssumption ==
    /\ Order \in Seq(Sessions)
    /\ Exabgp \subseteq Sessions
    /\ Boxes \cap Sessions = {}
    /\ {MaxSteps, MaxUpsets} \subseteq Nat

VARIABLES
    upsets,        \* what has gone wrong so far
    file,          \* what a session's container has as its MRT file
    bootFile,      \* the containers with a boot file
    running,       \* generators
    table,         \* the source of what a gobgpd announces
    booted,        \* the containers whose ExaBGP has read its boot file
    helperLog,     \* what the helpers of a container have reported so far
    up,            \* sessions that the router has Established
    latest,        \* Sampler.latest
    fresh,         \* it was begun after the wait
    onHost,        \* sessions whose generated file is on the host
    command,       \* bringup, with inject or without, or ramp
    width,         \* step_peers
    pc,            \* where the command is
    todo,          \* what the present loop has still to do
    failed,        \* failed is not empty
    hidden,        \* stale: sessions whose table cannot be loaded
    injected,      \* sessions whose injection returned ok
    step,          \* i
    started,       \* len(started)
    row,           \* the step's row: converged, and the record it quotes
    verdict,       \* verdict of a ramp, exit code of a bring-up
    died           \* history: generators that died since they were loaded

peersVars   == <<file, bootFile, running, table, booted, helperLog, up, died>>
samplerVars == <<latest, fresh>>
fixedVars   == <<onHost, command, width>>
harnessVars == <<pc, todo, failed, hidden, injected, step, started, row, verdict>>
vars == <<upsets, peersVars, samplerVars, fixedVars, harnessVars>>

NoTable  == "none"
NoRecord == [read |-> FALSE, established |-> {}]
NoRow    == [converged |-> FALSE, shown |-> {}]

(* A profile that has been deployed and configured, with generators of an  *)
(* earlier bring-up, their logs, and mounts that have gone stale.  Nothing *)
(* is generated for a session with an mrt: of its own, and what was may    *)
(* have been removed since; only a bring-up that injects looks.            *)
Init ==
    /\ upsets = 0
    /\ file \in [Gobgp -> {"whole", "other", "missing"}]
    /\ bootFile \in SUBSET Boxes
    /\ running \in SUBSET GeneratorsOf(Sessions)
    /\ table = [s \in Gobgp |-> NoTable]
    /\ booted = {} /\ up = {} /\ died = {}
    /\ helperLog \in [Boxes -> SUBSET {"sent", "missing"}]
    /\ latest = NoRecord /\ fresh = FALSE
    /\ command \in {"bringup", "bringup --no-inject", "ramp"}
    /\ onHost \in SUBSET Gobgp /\ (command # "bringup" => onHost = Gobgp)
    /\ width \in 1..Len(Order) /\ (command # "ramp" => width = Len(Order))
    /\ pc = IF command = "ramp" THEN "step" ELSE "start"
    /\ todo = IF command = "ramp" THEN {} ELSE GeneratorsOf(Sessions)
    /\ failed = FALSE /\ hidden = {} /\ injected = {}
    /\ step = 0 /\ started = IF command = "ramp" THEN 0 ELSE Len(Order)
    /\ row = NoRow /\ verdict = "none"

Upset == upsets < MaxUpsets /\ upsets' = upsets + 1
Works == UNCHANGED upsets

First(k) == {Order[i] : i \in {j \in 1..Len(Order) : j <= k}}

----------------------------------------------------------------------------
(***************************************************************************)
(* The generators, the router and the sampler                              *)
(***************************************************************************)
WorldFrame == UNCHANGED <<fixedVars, harnessVars, file, bootFile>>

Dies(g) ==
    /\ g \in running /\ Upset
    /\ running' = running \ {g}
    /\ booted' = booted \ {g}
    /\ died' = died \cup {g}
    /\ table' = [s \in Gobgp |-> IF s = g THEN NoTable ELSE table[s]]
    /\ up' = {s \in up : Generator(s) # g}
    /\ WorldFrame /\ UNCHANGED <<helperLog, samplerVars>>

SessionUp ==
    /\ \E s \in Sessions \ up : Generator(s) \in running /\ up' = up \cup {s}
    /\ WorldFrame
    /\ UNCHANGED <<upsets, running, table, booted, helperLog, died, samplerVars>>

SessionDown ==
    /\ Upset
    /\ \E s \in up : up' = up \ {s}
    /\ WorldFrame
    /\ UNCHANGED <<running, table, booted, helperLog, died, samplerVars>>

(* The helper announces its boot file and appends to its log, which is     *)
(* opened in append mode, whether or not there was a boot file.            *)
HelperBoots(c) ==
    /\ c \in running \ booted
    /\ booted' = booted \cup {c}
    /\ helperLog' = [helperLog EXCEPT ![c] =
                       @ \cup {IF c \in bootFile THEN "sent" ELSE "missing"}]
    /\ WorldFrame
    /\ UNCHANGED <<upsets, running, table, up, died, samplerVars>>

(* A bring-up samples as well, and does not look at what it sampled.       *)
Sample ==
    /\ command = "ramp" /\ pc # "done"
    /\ \/ Works /\ latest' = [read |-> TRUE, established |-> up]
       \/ Upset /\ latest' = NoRecord
    /\ fresh' = TRUE
    /\ WorldFrame
    /\ UNCHANGED <<running, table, booted, helperLog, up, died>>

World ==
    \/ \E g \in GeneratorsOf(Sessions) : Dies(g)
    \/ SessionUp \/ SessionDown
    \/ \E c \in Boxes : HelperBoots(c)
    \/ Sample

----------------------------------------------------------------------------
(***************************************************************************)
(* _start_generators                                                       *)
(***************************************************************************)
HarnessFrame == UNCHANGED <<fixedVars, samplerVars, file, bootFile, helperLog, up>>

(* gobgpd_pid and exabgp_pids find nothing when the read fails, too. *)
Seen(g)    == g \in running /\ Works
NotSeen(g) == IF g \in running THEN Upset ELSE Works

Done(x) == x \in todo /\ todo' = todo \ {x}

StartGenerator(g) ==
    /\ pc = "start" /\ Done(g)
    /\ \/ Seen(g) /\ UNCHANGED running
       \/ NotSeen(g) /\ running' = running \cup {g}
       \/ g \notin running /\ Upset /\ UNCHANGED running
    /\ HarnessFrame
    /\ UNCHANGED <<table, booted, died, pc, failed, hidden, injected, step,
                   started, row, verdict>>

(* The generators of the present call: all, or those of the wave. *)
Wave == IF command = "ramp" THEN First(started) \ First(width * (step - 1))
                            ELSE Sessions

Confirm ==
    /\ pc = "start" /\ todo = {}
    /\ pc' = "confirm" /\ todo' = GeneratorsOf(Wave)
    /\ HarnessFrame
    /\ UNCHANGED <<upsets, running, table, booted, died, failed, hidden,
                   injected, step, started, row, verdict>>

(* _boot_commands_sent: None, when nothing was reported, is no failure; one *)
(* report of a missing file outweighs every count.                         *)
SentNothing(c) == "missing" \in helperLog[c]

ConfirmGenerator(g) ==
    /\ pc = "confirm" /\ Done(g)
    /\ \/ Seen(g) /\ failed' = (failed \/ (g \in Boxes /\ SentNothing(g)))
       \/ NotSeen(g) /\ failed' = TRUE
    /\ HarnessFrame
    /\ UNCHANGED <<running, table, booted, died, pc, hidden, injected, step,
                   started, row, verdict>>

(* The debugs are armed here, which changes nothing of this module.        *)
Confirmed ==
    /\ pc = "confirm" /\ todo = {}
    /\ pc' = CASE command = "bringup" -> "check"
               [] command = "ramp" -> "inject"
               [] OTHER -> "exit"
    /\ todo' = Gobgp \cap First(started)
    /\ HarnessFrame
    /\ UNCHANGED <<upsets, running, table, booted, died, failed, hidden,
                   injected, step, started, row, verdict>>

(* _check_mrt_visible compares sizes, through a mount that may be stale,   *)
(* if there is a size on the host to compare with.                         *)
(* Mutant: that the file is there is enough.                               *)
IsThere(s) == file[s] # "missing"
Visible(s) == IsThere(s) /\ (s \in onHost => file[s] = "whole")

CheckTable(s) ==
    /\ pc = "check" /\ Done(s)
    /\ \/ Visible(s) /\ Works /\ UNCHANGED <<failed, hidden>>
       \/ /\ IF Visible(s) THEN Upset ELSE Works
          /\ failed' = TRUE /\ hidden' = hidden \cup {s}
    /\ HarnessFrame
    /\ UNCHANGED <<running, table, booted, died, pc, injected, step, started,
                   row, verdict>>

Checked ==
    /\ pc = "check" /\ todo = {}
    /\ pc' = "inject" /\ todo' = Gobgp \ hidden
    /\ HarnessFrame
    /\ UNCHANGED <<upsets, running, table, booted, died, failed, hidden,
                   injected, step, started, row, verdict>>

(* inject_mrt, in a ramp up to the step's cap, whose result is dropped     *)
(* there.  One that timed out may load the table all the same.             *)
Loaded(s) == [table EXCEPT ![s] = file[s]]

Inject(s) ==
    /\ pc = "inject" /\ Done(s)
    /\ \/ /\ s \in running /\ IsThere(s) /\ Works
          /\ table' = Loaded(s) /\ died' = died \ {s}
          /\ injected' = injected \cup {s}
       \/ /\ IF s \in running /\ IsThere(s) THEN Upset ELSE Works
          /\ \/ UNCHANGED <<table, died>>
             \/ /\ s \in running /\ IsThere(s)
                /\ table' = Loaded(s) /\ died' = died \ {s}
          /\ UNCHANGED injected
    /\ HarnessFrame
    /\ UNCHANGED <<running, booted, pc, failed, hidden, step, started, row,
                   verdict>>

Injected ==
    /\ pc = "inject" /\ todo = {}
    /\ pc' = IF command = "ramp" THEN "wait" ELSE "exit"
    /\ fresh' = FALSE
    /\ UNCHANGED <<upsets, peersVars, latest, fixedVars, todo, failed, hidden,
                   injected, step, started, row, verdict>>

(* cmd_bringup's exit code. *)
Exit ==
    /\ pc = "exit"
    /\ pc' = "done"
    /\ verdict' = IF failed \/ (command = "bringup" /\ injected # Gobgp)
                    THEN "1" ELSE "0"
    /\ HarnessFrame
    /\ UNCHANGED <<upsets, running, table, booted, died, todo, failed, hidden,
                   injected, step, started, row>>

----------------------------------------------------------------------------
(***************************************************************************)
(* cmd_ramp                                                                *)
(***************************************************************************)
RampFrame == UNCHANGED <<upsets, peersVars, samplerVars, fixedVars, failed,
                         hidden, injected>>

Smaller(a, b) == IF a < b THEN a ELSE b

(* Mutant: the last wave is not cut at the end of the list.                *)
WithWaveWhole == started + width
WithWave      == Smaller(started + width, Len(Order))

Step ==
    /\ pc = "step" /\ step < MaxSteps
    /\ step' = step + 1
    /\ started' = WithWave
    /\ todo' = GeneratorsOf(First(WithWave) \ First(started))
    /\ pc' = "start" /\ row' = NoRow
    /\ RampFrame /\ UNCHANGED verdict

AllSteps ==
    /\ pc = "step" /\ step = MaxSteps
    /\ pc' = "done" /\ verdict' = "completed-all-steps"
    /\ RampFrame /\ UNCHANGED <<todo, step, started, row>>

(* failedPeers of the summary. *)
FailedPeers(rec) == IF rec.read THEN Sessions \ rec.established ELSE {}

(* ConvergenceTracker.sessions_ok; a record that was not read has no say.  *)
(* Mutant: the Established are counted, and not the failed.                *)
EnoughUp(rec) == rec.read /\ Cardinality(rec.established) >= started
SessionsOK(rec) == EnoughUp(rec) /\ FailedPeers(rec) = {}

Converges ==
    /\ pc = "wait" /\ fresh /\ SessionsOK(latest)
    /\ row' = [converged |-> TRUE, shown |-> latest.established]
    /\ pc' = "judge"
    /\ RampFrame /\ UNCHANGED <<todo, step, started, verdict>>

TimesOut ==
    /\ pc = "wait"
    /\ row' = [converged |-> FALSE, shown |-> latest.established]
    /\ pc' = "judge"
    /\ RampFrame /\ UNCHANGED <<todo, step, started, verdict>>

(* check_new of the latest record, then the wait's result. *)
Judge ==
    /\ pc = "judge"
    /\ \/ /\ FailedPeers(latest) # {}
          /\ pc' = "done" /\ verdict' = "predicate-failed"
       \/ /\ FailedPeers(latest) = {} /\ ~row.converged
          /\ pc' = "done" /\ verdict' = "convergence-budget-exceeded"
       \/ /\ FailedPeers(latest) = {} /\ row.converged
          /\ pc' = "step" /\ UNCHANGED verdict
    /\ RampFrame /\ UNCHANGED <<todo, step, started, row>>

(* KeyboardInterrupt, anywhere in a step. *)
Interrupt ==
    /\ command = "ramp" /\ pc # "done"
    /\ pc' = "done" /\ verdict' = "interrupted"
    /\ RampFrame /\ UNCHANGED <<todo, step, started, row>>

----------------------------------------------------------------------------
Next ==
    \/ World
    \/ \E g \in GeneratorsOf(Sessions) : StartGenerator(g) \/ ConfirmGenerator(g)
    \/ \E s \in Gobgp : CheckTable(s) \/ Inject(s)
    \/ Confirm \/ Confirmed \/ Checked \/ Injected \/ Exit
    \/ Step \/ AllSteps \/ Converges \/ TimesOut \/ Judge \/ Interrupt

Spec == Init /\ [][Next]_vars

Verdicts == {"none", "0", "1", "completed-all-steps", "predicate-failed",
             "convergence-budget-exceeded", "interrupted"}

TypeOK ==
    /\ upsets \in 0..MaxUpsets
    /\ file \in [Gobgp -> {"whole", "other", "missing"}]
    /\ table \in [Gobgp -> {NoTable, "whole", "other"}]
    /\ {running, died, todo} \subseteq SUBSET (GeneratorsOf(Sessions) \cup Gobgp)
    /\ onHost \subseteq Gobgp
    /\ booted \subseteq running \cap Boxes /\ bootFile \subseteq Boxes
    /\ helperLog \in [Boxes -> SUBSET {"sent", "missing"}]
    /\ up \subseteq {s \in Sessions : Generator(s) \in running}
    /\ latest \in [read : BOOLEAN, established : SUBSET Sessions]
    /\ row \in [converged : BOOLEAN, shown : SUBSET Sessions]
    /\ {hidden, injected} \subseteq SUBSET Gobgp
    /\ failed \in BOOLEAN /\ fresh \in BOOLEAN
    /\ command \in {"bringup", "bringup --no-inject", "ramp"}
    /\ width \in 1..Len(Order)
    /\ pc \in {"start", "confirm", "check", "inject", "exit", "step", "wait",
               "judge", "done"}
    /\ step \in 0..MaxSteps /\ started \in 0..Len(Order)
    /\ verdict \in Verdicts /\ (verdict # "none" <=> pc = "done")

(***************************************************************************)
(* Properties                                                              *)
(***************************************************************************)
(* cmd_bringup's `MRT tables loaded' and its exit code: a bring-up that    *)
(* returns 0 has loaded a table into every gobgp session, and where the    *)
(* generated file is on the host one of its size, whatever it found        *)
(* running, whichever reads and calls failed and whatever stale directory  *)
(* a container looks at; but for a generator that died since.  Without a   *)
(* file on the host there is no promise whose table it is.                 *)
ExitZeroIsLoaded ==
    command = "bringup" /\ verdict = "0" =>
        \A s \in Gobgp \ died :
            table[s] # NoTable /\ (s \in onHost => table[s] = "whole")

(* A row that says converged rests on a record in which all sessions that  *)
(* the ramp had started were Established, although sessions_ok only counts *)
(* and ExaBGP brings up sessions of waves still to come.                   *)
ConvergedRowsAreWhole == row.converged => First(started) \subseteq row.shown

(* RUNBOOK.md, `Find the limit': sessions start in batches, and the first  *)
(* step that fails is the answer: a ramp that stops for failed peers has   *)
(* found one that it had started.                                          *)
FailedPeersWereStarted ==
    verdict = "predicate-failed" => FailedPeers(latest) \cap First(started) # {}

----------------------------------------------------------------------------
(***************************************************************************)
(* The invariants behind the properties.                                   *)
(***************************************************************************)
(* A bring-up starts all sessions at once and knows no steps.              *)
CommandInv ==
    command # "ramp" => started = Len(Order) /\ pc \notin {"step", "wait", "judge"}

(* A file whose check did not fail is there, and of the size on the host.  *)
FilesInv ==
    command = "bringup" /\ ~failed =>
        /\ pc = "check" => \A s \in Gobgp \ todo : Visible(s)
        /\ pc \in {"inject", "exit", "done"} => \A s \in Gobgp : Visible(s)

(* An injection that returned ok put the session's file into the table,    *)
(* where it stays until the generator dies.                                *)
LoadedInv == \A s \in injected : table[s] = file[s] \/ s \in died

(* The exit code is what the bring-up counted.                             *)
ExitInv == command = "bringup" /\ verdict = "0" => ~failed /\ injected = Gobgp

IInv ==
    /\ TypeOK
    /\ CommandInv /\ FilesInv /\ LoadedInv /\ ExitInv
    /\ ConvergedRowsAreWhole
=============================================================================
