------------------------------- MODULE Gate -------------------------------
(***************************************************************************)
(* What a caller of _converge relies on, without samples, readings,        *)
(* streaks or polling: the router changes its table at certain moments,    *)
(* the gate may point at a stretch of time in which it did not, and        *)
(* `converged' is said only of such a stretch.  Zebra may overrule it, the *)
(* gate may give up, and what it said it does not take back.               *)
(*                                                                         *)
(* Time is counted in sampler periods.  Convergence implements this        *)
(* specification.                                                          *)
(***************************************************************************)
EXTENDS Integers

CONSTANT Span  \* periods a stretch takes in at the least

VARIABLES
    now,       \* the time
    moves,     \* when the table changed
    begun,     \* when the wait began, or NotBegun
    stretch,   \* what the gate points at, or NoStretch
    verdict    \* what it said

vars == <<now, moves, begun, stretch, verdict>>

NotBegun  == -1
NoStretch == [from |-> -1, to |-> -1]

Init ==
    /\ now = 0 /\ moves = {}
    /\ begun = NotBegun /\ stretch = NoStretch /\ verdict = "none"

TimePasses ==
    /\ now' = now + 1
    /\ UNCHANGED <<moves, begun, stretch, verdict>>

TableMoves ==
    /\ moves' = moves \cup {now}
    /\ UNCHANGED <<now, begun, stretch, verdict>>

Still(s)      == ~ \E m \in moves : s.from <= m /\ m < s.to
LongEnough(s) == s.to - s.from >= Span
\* At most one period and the record being taken lie before the wait.
OfThisWait(s) == s.to <= now /\ (Span > 0 => s.to >= begun + Span - 1)

Begin ==
    /\ begun = NotBegun /\ verdict = "none"
    /\ begun' = now
    /\ UNCHANGED <<now, moves, stretch, verdict>>

PointAt ==
    /\ begun # NotBegun /\ verdict = "none" /\ stretch = NoStretch
    /\ \E from, to \in 1..now :
         LET s == [from |-> from, to |-> to] IN
         /\ Still(s) /\ LongEnough(s) /\ OfThisWait(s)
         /\ stretch' = s
    /\ UNCHANGED <<now, moves, begun, verdict>>

\* Zebra is behind: the wait begins again.
Overrule ==
    /\ verdict = "none" /\ stretch # NoStretch
    /\ stretch' = NoStretch /\ begun' = now
    /\ UNCHANGED <<now, moves, verdict>>

Open ==
    /\ verdict = "none" /\ stretch # NoStretch
    /\ verdict' = "converged"
    /\ UNCHANGED <<now, moves, begun, stretch>>

GiveUp ==
    /\ begun # NotBegun /\ verdict = "none" /\ stretch = NoStretch
    /\ verdict' = "not_converged"
    /\ UNCHANGED <<now, moves, begun, stretch>>

Next == \/ TimePasses \/ TableMoves \/ Begin \/ PointAt
        \/ Overrule \/ Open \/ GiveUp

Spec == Init /\ [][Next]_vars
=============================================================================
