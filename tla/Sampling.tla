------------------------------ MODULE Sampling ------------------------------
(***************************************************************************)
(* What one sample measures as a difference to the one before: the CPU     *)
(* time of a daemon (Sampler._cpu_pct) and the lines of the router's log   *)
(* since the last look (Sampler.sample, Dut.log_since).  And what a run    *)
(* makes of it at the end of an event, when the predicates judge the       *)
(* latest record (PredicateSet.check).                                     *)
(*                                                                         *)
(* A call takes time, and the moment the harness writes down is not the    *)
(* moment the router was read.  MaxDelay bounds only the gaps that the     *)
(* arithmetic spans: from asking for the log to its being read, and from a *)
(* read to the clock taken after it.  Everything else takes any time.      *)
(*                                                                         *)
(* Abstractions.  One daemon with one thread that never sleeps, so its     *)
(* tick counter is its age.  Of a log line only its moment is kept, which  *)
(* no two share, and a constant says which of them are watchfrr's that the *)
(* daemon is unresponsive; a search concerns each line by itself.  The log *)
(* is not rotated.  All that is modelled happens within                    *)
(* WATCHDOG_ATTRIBUTION_S, ten minutes.                                    *)
(***************************************************************************)
EXTENDS Integers, FiniteSets

CONSTANTS
    SlowEvery,     \* slow_every
    LogWindow,     \* log_window, the floor of a window
    Margin,        \* log_window_margin_s
    TailLines,     \* how many lines of the file are read, the last 4000
    Warnings,      \* the moments at which a line is watchfrr's
    MaxDelay,      \* how far a call's effect and the clock may be apart
    MaxTime,       \* bound: the time
    MaxLines,      \* bound: lines in the log
    MaxUpsets      \* bound: failed calls, exceptions and restarts

ASSUME SamplingAssumption ==
    /\ SlowEvery \in Nat \ {0}
    /\ {LogWindow, Margin, TailLines, MaxDelay} \subseteq Nat
    /\ Warnings \subseteq Nat
    /\ {MaxTime, MaxLines, MaxUpsets} \subseteq Nat

VARIABLES
    now,           \* the clock
    pid, born,     \* the daemon and when it was started
    lines,         \* when the log got a line
    upsets,        \* failures so far
    journalOk,     \* _journal_ok is not False
    n,             \* _n, modulo slow_every
    phase,         \* where sample() is
    at,            \* when it made its last call
    draft,         \* rec
    prev,          \* _prev_proc of the daemon
    lastLogRead,   \* _last_log_read
    latest,        \* Sampler.latest
    asking,        \* the main thread reads the log as well
    knownPid,      \* _pids of the daemon
    noted,         \* _unresponsive_at is set
    due,           \* history: lines written before the log was last read
    recorded,      \* history: lines in a record
    excused,       \* history: lines of before, of a failed read, of a burst
    denied         \* history: a kill was not put down to the watchdog

routerVars  == <<pid, born, lines>>
samplerVars == <<n, phase, at, draft, prev, lastLogRead, latest>>
judgeVars   == <<knownPid, noted, denied>>
historyVars == <<due, recorded, excused>>
vars == <<now, routerVars, upsets, journalOk, samplerVars, asking, judgeVars,
          historyVars>>

Never  == -1
NoPid  == 0
NoProc == [pid |-> NoPid, ticks |-> 0]
NoCpu  == [ticks |-> 0, time |-> 0]
NoRecord == [ok |-> TRUE, proc |-> NoProc, cpu |-> NoCpu, lines |-> {}]
NoBaseline == [pid |-> NoPid, ticks |-> 0, clock |-> 0]

Init ==
    /\ now = 0 /\ pid = 1 /\ born = 0 /\ lines = {}
    /\ upsets = 0 /\ journalOk = TRUE
    /\ n = 0 /\ phase = "idle" /\ at = 0 /\ draft = NoRecord
    /\ prev = NoBaseline /\ lastLogRead = Never
    /\ latest = [ok |-> FALSE, pid |-> NoPid, line |-> FALSE]
    /\ asking = FALSE
    /\ knownPid = NoPid /\ noted = FALSE /\ denied = FALSE
    /\ due = {} /\ recorded = {} /\ excused = {}

Upset == upsets < MaxUpsets /\ upsets' = upsets + 1

----------------------------------------------------------------------------
(***************************************************************************)
(* The router, and time                                                    *)
(***************************************************************************)
Tick ==
    /\ now < MaxTime
    /\ phase \in {"read", "journal", "file", "logged"} => now - at < MaxDelay
    /\ now' = now + 1
    /\ UNCHANGED <<routerVars, upsets, journalOk, samplerVars, asking,
                   judgeVars, historyVars>>

LogLine ==
    /\ Cardinality(lines) < MaxLines
    /\ lines' = lines \cup {now}
    /\ UNCHANGED <<now, pid, born, upsets, journalOk, samplerVars, asking,
                   judgeVars, historyVars>>

DaemonRestarts ==
    /\ Upset
    /\ pid' = pid + 1 /\ born' = now
    /\ UNCHANGED <<now, lines, journalOk, samplerVars, asking, judgeVars,
                   historyVars>>

----------------------------------------------------------------------------
(***************************************************************************)
(* Sampler.sample                                                          *)
(***************************************************************************)
SampleFrame ==
    UNCHANGED <<now, routerVars, asking, judgeVars>>

\* The rest of the record, the summaries and zebra's counters, is not kept.
Begin ==
    /\ phase = "idle"
    /\ phase' = "begun" /\ n' = (n + 1) % SlowEvery
    /\ SampleFrame
    /\ UNCHANGED <<upsets, journalOk, at, draft, prev, lastLogRead, latest,
                   historyVars>>

\* The first sample is slow, and every SlowEvery-th after it.
Slow == n = 1 % SlowEvery

\* Mutant: one record is used for all samples.
EmitReused(rec) ==
    /\ latest' = [ok |-> rec.ok, pid |-> rec.proc.pid,
                  line |-> rec.lines \cap Warnings # {}]
    /\ recorded' = recorded \cup rec.lines
    /\ phase' = "idle" /\ draft' = rec

\* What the predicates look at in a record.
Emit(rec) ==
    /\ latest' = [ok |-> rec.ok, pid |-> rec.proc.pid,
                  line |-> rec.lines \cap Warnings # {}]
    /\ recorded' = recorded \cup rec.lines
    /\ phase' = "idle" /\ draft' = NoRecord

\* The container is down: the record says that and nothing else.
SampleDown ==
    /\ phase = "begun" /\ draft.ok /\ Upset
    /\ Emit([draft EXCEPT !.ok = FALSE])
    /\ SampleFrame
    /\ UNCHANGED <<journalOk, n, at, prev, lastLogRead, due, excused>>

\* A BGP summary could not be read, and the record says so.
SummaryFails ==
    /\ phase = "begun" /\ draft.ok /\ Upset
    /\ draft' = [draft EXCEPT !.ok = FALSE]
    /\ SampleFrame
    /\ UNCHANGED <<journalOk, n, phase, at, prev, lastLogRead, latest,
                   historyVars>>

\* proc_stats, which leaves the daemon out when the call failed.
ReadProc ==
    /\ phase = "begun"
    /\ \/ /\ draft' = [draft EXCEPT !.proc = [pid |-> pid, ticks |-> now - born]]
          /\ UNCHANGED upsets
       \/ Upset /\ UNCHANGED draft
    /\ phase' = "read" /\ at' = now
    /\ SampleFrame
    /\ UNCHANGED <<journalOk, n, prev, lastLogRead, latest, historyVars>>

\* Mutant: the pid is not compared.
AnyBaseline == prev # NoBaseline
Baseline    == prev # NoBaseline /\ prev.pid = draft.proc.pid

\* _cpu_pct, with the clock taken after the read.  The percentage is kept as
\* what it divides.
CpuPct ==
    IF Baseline /\ now > prev.clock
      THEN [ticks |-> draft.proc.ticks - prev.ticks, time |-> now - prev.clock]
      ELSE NoCpu

TakeClock ==
    /\ phase = "read"
    /\ IF draft.proc = NoProc THEN UNCHANGED <<prev, draft>>
       ELSE /\ draft' = [draft EXCEPT !.cpu = CpuPct]
            /\ prev' = [pid |-> draft.proc.pid, ticks |-> draft.proc.ticks,
                        clock |-> now]
    /\ phase' = "measured"
    /\ SampleFrame
    /\ UNCHANGED <<upsets, journalOk, n, at, lastLogRead, latest, historyVars>>

PublishQuick ==
    /\ phase = "measured" /\ ~Slow
    /\ Emit(draft)
    /\ SampleFrame
    /\ UNCHANGED <<upsets, journalOk, n, at, prev, lastLogRead, due, excused>>

\* nowm, and a look at _journal_ok
AskForLog ==
    /\ phase = "measured" /\ Slow
    /\ phase' = (IF journalOk THEN "journal" ELSE "file") /\ at' = now
    /\ SampleFrame
    /\ UNCHANGED <<upsets, journalOk, n, draft, prev, lastLogRead, latest,
                   historyVars>>

Larger(a, b) == IF a > b THEN a ELSE b

\* How far a window reaches back from when journalctl gets to run.
\* Mutant: a window of one length (H-56).
FixedSpan(asked) == LogWindow
Span(asked) ==
    IF lastLogRead = Never THEN LogWindow
    ELSE Larger(LogWindow, asked - lastLogRead + Margin)

InWindow == {l \in lines : l >= now - Span(at)}

\* The last lines of the file.
Tail == {l \in lines : Cardinality({m \in lines : m > l}) < TailLines}

\* Lines that are in a record, or that nothing promises.
Accounted == recorded \cup draft.lines \cup excused

\* More lines were written since the log was last read than its end shows.
Burst == Cardinality(lines \ Accounted) > TailLines

ReadsLog(found) ==
    /\ draft' = [draft EXCEPT !.lines = found]
    /\ due' = {l \in lines : l < now}

\* Dut.log_since: journalctl, or once that has failed the last lines of the
\* file, however old.  When that fails as well there are no lines.
ReadJournal ==
    /\ phase = "journal" /\ journalOk' = TRUE
    /\ ReadsLog(InWindow)
    /\ excused' = IF lastLogRead = Never THEN lines \ InWindow ELSE excused
    /\ UNCHANGED upsets

NoJournal == journalOk' = (journalOk /\ phase # "journal")

ReadFile ==
    /\ IF phase = "journal" THEN Upset ELSE UNCHANGED upsets
    /\ NoJournal
    /\ ReadsLog(Tail)
    /\ excused' = IF Burst THEN excused \cup (lines \ Tail) ELSE excused

ReadNothing ==
    /\ Upset /\ NoJournal
    /\ excused' = excused \cup (lines \ recorded)
    /\ UNCHANGED <<draft, due>>

ReadLog ==
    /\ phase \in {"journal", "file"}
    /\ ReadJournal \/ ReadFile \/ ReadNothing
    /\ phase' = "logged" /\ at' = now
    /\ SampleFrame
    /\ UNCHANGED <<n, prev, lastLogRead, latest, recorded>>

Publish ==
    /\ phase = "logged"
    /\ lastLogRead' = now
    /\ Emit(draft)
    /\ SampleFrame
    /\ UNCHANGED <<upsets, journalOk, n, at, prev, due, excused>>

\* A call raises and _loop goes on with the next sample.  What a call that
\* timed out printed is bytes, which the searches refuse.
SampleRaises ==
    /\ phase \in {"measured", "journal", "file"} /\ Slow /\ Upset
    /\ NoJournal
    /\ phase' = "idle" /\ draft' = NoRecord
    /\ SampleFrame
    /\ UNCHANGED <<n, at, prev, lastLogRead, latest, historyVars>>

Sampler ==
    \/ Begin \/ SampleDown \/ SummaryFails \/ ReadProc \/ TakeClock
    \/ PublishQuick \/ AskForLog \/ ReadLog \/ Publish \/ SampleRaises

----------------------------------------------------------------------------
(***************************************************************************)
(* The main thread                                                         *)
(***************************************************************************)
\* cmd_exercise and the malformed burst count log lines with the same Dut,
\* and what becomes of their journalctl goes into the same _journal_ok.
AskJournal ==
    /\ ~asking /\ journalOk
    /\ asking' = TRUE
    /\ UNCHANGED <<now, routerVars, upsets, journalOk, samplerVars, judgeVars,
                   historyVars>>

JournalAnswers ==
    /\ asking
    /\ \/ journalOk' = TRUE /\ UNCHANGED upsets
       \/ Upset /\ journalOk' = FALSE
    /\ asking' = FALSE
    /\ UNCHANGED <<now, routerVars, samplerVars, judgeVars, historyVars>>

\* PredicateSet.check of the latest record, at the end of an event, with
\* _note_watchdog before it.  The daemons are not looked at when a summary
\* could not be read.
Judge ==
    /\ noted' = (noted \/ latest.line)
    /\ IF latest.ok /\ latest.pid # NoPid
         THEN /\ knownPid' = latest.pid
              /\ denied' = (denied \/ /\ knownPid \notin {NoPid, latest.pid}
                                      /\ ~noted' /\ recorded \cap Warnings # {})
         ELSE UNCHANGED <<knownPid, denied>>
    /\ UNCHANGED <<now, routerVars, upsets, journalOk, samplerVars, asking,
                   historyVars>>

Next ==
    \/ Tick \/ LogLine \/ DaemonRestarts
    \/ Sampler
    \/ AskJournal \/ JournalAnswers \/ Judge

Spec == Init /\ [][Next]_vars

----------------------------------------------------------------------------
Times   == 0..MaxTime
Records ==
    [ok : BOOLEAN, proc : [pid : Nat, ticks : Nat],
     cpu : [ticks : Int, time : Nat], lines : SUBSET Times]

TypeOK ==
    /\ now \in Times /\ pid \in Nat \ {NoPid} /\ born \in Times
    /\ lines \subseteq Times
    /\ upsets \in Nat /\ journalOk \in BOOLEAN /\ asking \in BOOLEAN
    /\ n \in 0..(SlowEvery - 1) /\ at \in Times
    /\ phase \in {"idle", "begun", "read", "measured", "journal", "file", "logged"}
    /\ draft \in Records /\ (phase = "idle" => draft = NoRecord)
    /\ prev \in [pid : Nat, ticks : Nat, clock : Times]
    /\ lastLogRead \in Times \cup {Never}
    /\ latest \in [ok : BOOLEAN, pid : 0..pid, line : BOOLEAN]
    /\ knownPid \in 0..pid /\ noted \in BOOLEAN /\ denied \in BOOLEAN
    /\ {due, recorded, excused} \subseteq SUBSET lines

(***************************************************************************)
(* Properties                                                              *)
(***************************************************************************)
\* FINDINGS.md H-56: no line goes unread between two reads of the log,
\* whatever raised in between, whichever of the two sources answered and
\* whoever else read the log meanwhile, as long as the margin covers the
\* delays at both ends of a window; but for lines from before the first
\* window, those of a read that failed altogether, and where the file was
\* read, those of a burst of more lines than its end shows.
EveryLineRead == 2 * MaxDelay <= Margin => due \subseteq Accounted

\* FINDINGS.md H-21: a thread is never reported to have run faster than the
\* clock, but for the delay of a call, nor backwards.
CpuIsPossible ==
    draft.cpu.time > 0 =>
        0 <= draft.cpu.ticks /\ draft.cpu.ticks <= draft.cpu.time + MaxDelay

\* _note_watchdog: `Called on every sample, not only on ones that show a PID
\* change', so that a kill is put down to the watchdog when any record of the
\* time before has its line.
KillIsAttributed == ~denied

----------------------------------------------------------------------------
(***************************************************************************)
(* The invariants behind the properties.                                   *)
(***************************************************************************)
\* Nothing is of the future, and between a call and the clock after it there
\* is at most MaxDelay.
Timed == {"read", "journal", "file", "logged"}
ClockInv ==
    /\ born <= now /\ lastLogRead <= now /\ prev.clock <= now
    /\ \A l \in lines : l <= now
    /\ phase \in Timed => at <= now /\ now <= at + MaxDelay
    /\ phase = "read" => prev.clock <= at

\* A record is filled in the order of the calls, with what there is.
DraftInv ==
    /\ phase \in {"idle", "begun"} => draft.proc = NoProc /\ draft.cpu = NoCpu
    /\ phase # "logged" => draft.lines = {}
    /\ draft.lines \subseteq lines
    /\ draft.proc = NoProc \/ draft.proc.pid \in 1..pid
    /\ prev = NoBaseline \/ prev.pid \in 1..pid

\* The moment of an earlier read is what its ticks say, and lies no more than
\* MaxDelay before its clock: by the daemon's birth as long as it lives, and
\* by a later read of the same daemon.
JustBefore(moment, clock) == moment <= clock /\ clock <= moment + MaxDelay
CpuInv ==
    /\ prev.pid = pid => JustBefore(prev.ticks + born, prev.clock)
    /\ phase = "read" /\ draft.proc.pid = pid => draft.proc.ticks = at - born
    /\ phase = "read" /\ draft.proc # NoProc /\ prev.pid = draft.proc.pid
         => JustBefore(at - (draft.proc.ticks - prev.ticks), prev.clock)

\* What was written before the log was read is accounted for, and so is what
\* was written MaxDelay before _last_log_read.  The lines that are not are the
\* latest ones.
LinesInv ==
    2 * MaxDelay <= Margin =>
        /\ due \subseteq Accounted
        /\ lastLogRead # Never =>
             \A l \in lines : l < lastLogRead - MaxDelay => l \in Accounted
        /\ phase = "logged" => \A l \in lines : l < at => l \in Accounted
        /\ \A l \in Accounted, m \in lines : m < l => m \in Accounted

IInv == TypeOK /\ ClockInv /\ DraftInv /\ CpuInv /\ CpuIsPossible /\ LinesInv
=============================================================================
