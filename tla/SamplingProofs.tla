--------------------------- MODULE SamplingProofs ---------------------------
(***************************************************************************)
(* Proofs for Sampling: what a difference between two samples says, for    *)
(* every margin, window, delay and cadence, any number of failed calls and *)
(* of restarts of the daemon, and any interleaving with the main thread.   *)
(***************************************************************************)
EXTENDS Sampling, FiniteSetTheorems, TLAPS

LEMMA ConstantTypes ==
    /\ SlowEvery \in Nat \ {0} /\ LogWindow \in Nat /\ Margin \in Nat
    /\ MaxDelay \in Nat /\ MaxTime \in Nat /\ TailLines \in Nat
  BY SamplingAssumption

(* The types of what the steps compute with. *)
LEMMA DraftTypes ==
    ASSUME TypeOK
    PROVE  /\ now \in Nat /\ at \in Nat /\ born \in Nat /\ pid \in Nat
           /\ draft = [ok |-> draft.ok, proc |-> draft.proc, cpu |-> draft.cpu,
                       lines |-> draft.lines]
           /\ draft.ok \in BOOLEAN
           /\ draft.proc \in [pid : Nat, ticks : Nat]
           /\ draft.proc.pid \in Nat /\ draft.proc.ticks \in Nat
           /\ draft.cpu \in [ticks : Int, time : Nat]
           /\ draft.cpu.ticks \in Int /\ draft.cpu.time \in Nat
           /\ draft.lines \subseteq Times
           /\ prev.pid \in Nat /\ prev.ticks \in Nat /\ prev.clock \in Nat
           /\ lastLogRead \in Int
           /\ \A l \in lines : l \in Nat
  BY ConstantTypes DEF TypeOK, Records, Times, Never

(* A record without anything is one. *)
LEMMA NoRecordType == NoRecord \in Records
  BY ConstantTypes DEF NoRecord, NoProc, NoCpu, NoPid, Records, Times

LEMMA InitOK == Init => IInv
<1> SUFFICES ASSUME Init PROVE IInv
  OBVIOUS
<1> USE ConstantTypes DEF Init
<1>1. TypeOK
  <2>1. 0 \in Times /\ 0 \in 0 .. SlowEvery - 1 /\ pid \in Nat \ {NoPid}
    BY DEF Times, NoPid
  <2>2. /\ prev \in [pid : Nat, ticks : Nat, clock : Times]
        /\ latest \in [ok : BOOLEAN, pid : 0 .. pid, line : BOOLEAN]
        /\ knownPid \in 0 .. pid
    BY <2>1 DEF NoBaseline, NoPid
  <2> QED
    BY <2>1, <2>2, NoRecordType DEF TypeOK
<1>2. ClockInv
  <2>1. phase \notin Timed /\ phase # "read"
    BY DEF Timed
  <2> QED
    BY <2>1 DEF ClockInv, Never, NoBaseline
<1>3. DraftInv
  BY DEF DraftInv, NoRecord
<1>4. CpuInv /\ CpuIsPossible
  BY DEF CpuInv, CpuIsPossible, NoBaseline, NoRecord, NoCpu, NoPid
<1>5. LinesInv
  BY DEF LinesInv, Never, Accounted, NoRecord
<1> QED
  BY <1>1, <1>2, <1>3, <1>4, <1>5 DEF IInv

----------------------------------------------------------------------------
(***************************************************************************)
(* The router, time and the main thread                                    *)
(***************************************************************************)
LEMMA TickStep == IInv /\ Tick => IInv'
<1> SUFFICES ASSUME IInv, Tick PROVE IInv'
  OBVIOUS
<1>1. /\ now' = now + 1 /\ now < MaxTime
      /\ phase \in {"read", "journal", "file", "logged"} => now - at < MaxDelay
      /\ UNCHANGED <<pid, born, lines, upsets, journalOk, n, phase, at, draft, prev,
                     lastLogRead, latest, asking, knownPid, noted, denied, due,
                     recorded, excused>>
  BY DEF Tick, routerVars, samplerVars, judgeVars, historyVars
<1>2. TypeOK /\ ClockInv /\ DraftInv /\ CpuInv /\ CpuIsPossible /\ LinesInv
  BY DEF IInv
<1>3. TypeOK'
  <2>1. now' \in Times
    BY <1>1, <1>2, ConstantTypes DEF TypeOK, Times
  <2> QED
    BY <1>1, <1>2, <2>1 DEF TypeOK
<1>4. ClockInv'
  BY <1>1, <1>2, DraftTypes, ConstantTypes DEF ClockInv, Timed
<1>5. DraftInv' /\ CpuInv' /\ CpuIsPossible'
  BY <1>1, <1>2 DEF DraftInv, CpuInv, CpuIsPossible, JustBefore
<1>6. LinesInv'
  BY <1>1, <1>2 DEF LinesInv, Accounted
<1> QED
  BY <1>3, <1>4, <1>5, <1>6 DEF IInv

LEMMA LogLineStep == IInv /\ LogLine => IInv'
<1> SUFFICES ASSUME IInv, LogLine PROVE IInv'
  OBVIOUS
<1>1. /\ lines' = lines \cup {now}
      /\ UNCHANGED <<now, pid, born, upsets, journalOk, n, phase, at, draft, prev,
                     lastLogRead, latest, asking, knownPid, noted, denied, due,
                     recorded, excused>>
  BY DEF LogLine, samplerVars, judgeVars, historyVars
<1>2. TypeOK /\ ClockInv /\ DraftInv /\ CpuInv /\ CpuIsPossible /\ LinesInv
  BY DEF IInv
<1>3. TypeOK'
  <2>1. lines' \subseteq Times
    BY <1>1, <1>2 DEF TypeOK
  <2>2. {due, recorded, excused} \subseteq SUBSET lines'
    BY <1>1, <1>2 DEF TypeOK
  <2> QED
    BY <1>1, <1>2, <2>1, <2>2 DEF TypeOK
<1>4. ClockInv'
  BY <1>1, <1>2, DraftTypes DEF ClockInv
<1>5. DraftInv'
  BY <1>1, <1>2 DEF DraftInv
<1>6. CpuInv' /\ CpuIsPossible'
  BY <1>1, <1>2 DEF CpuInv, CpuIsPossible, JustBefore
<1>7. LinesInv'
  <2>1. Accounted' = Accounted
    BY <1>1 DEF Accounted
  <2>2. ~(now < lastLogRead - MaxDelay) /\ (phase = "logged" => ~(now < at))
    BY <1>2, DraftTypes, ConstantTypes DEF ClockInv, Timed
  <2>3. \A l \in Accounted : ~(now < l)
    BY <1>2, DraftTypes DEF Accounted, TypeOK, DraftInv, ClockInv
  <2> QED
    BY <1>1, <1>2, <2>1, <2>2, <2>3 DEF LinesInv
<1> QED
  BY <1>3, <1>4, <1>5, <1>6, <1>7 DEF IInv

(* The samples of another daemon are not compared with the new one. *)
LEMMA RestartStep == IInv /\ DaemonRestarts => IInv'
<1> SUFFICES ASSUME IInv, DaemonRestarts PROVE IInv'
  OBVIOUS
<1>1. /\ pid' = pid + 1 /\ born' = now /\ upsets' = upsets + 1
      /\ UNCHANGED <<now, lines, journalOk, n, phase, at, draft, prev,
                     lastLogRead, latest, asking, knownPid, noted, denied, due,
                     recorded, excused>>
  BY DEF DaemonRestarts, Upset, samplerVars, judgeVars, historyVars
<1>2. TypeOK /\ ClockInv /\ DraftInv /\ CpuInv /\ CpuIsPossible /\ LinesInv
  BY DEF IInv
<1>3. TypeOK'
  <2>1. pid' \in Nat \ {NoPid} /\ born' \in Times /\ upsets' \in Nat
    BY <1>1, <1>2 DEF TypeOK, NoPid
  <2>2. 0 .. pid \subseteq 0 .. pid'
    BY <1>1, <1>2, DraftTypes
  <2>3. latest' \in [ok : BOOLEAN, pid : 0 .. pid', line : BOOLEAN] /\ knownPid' \in 0 .. pid'
    BY <1>1, <1>2, <2>2 DEF TypeOK
  <2> QED
    BY <1>1, <1>2, <2>1, <2>3 DEF TypeOK
<1>4. ClockInv'
  BY <1>1, <1>2, DraftTypes DEF ClockInv
<1>5. DraftInv'
  BY <1>1, <1>2, DraftTypes DEF DraftInv
<1>6. CpuInv'
  <2>1. prev.pid # pid'
    BY <1>1, <1>2, DraftTypes DEF DraftInv, NoBaseline, NoPid
  <2>2. draft.proc.pid # pid'
    BY <1>1, <1>2, DraftTypes DEF DraftInv, NoProc, NoPid
  <2> QED
    BY <1>1, <1>2, <2>1, <2>2 DEF CpuInv, JustBefore
<1>7. CpuIsPossible' /\ LinesInv'
  BY <1>1, <1>2 DEF CpuIsPossible, LinesInv, Accounted
<1> QED
  BY <1>3, <1>4, <1>5, <1>6, <1>7 DEF IInv

(* What the main thread changes, no difference is made of. *)
LEMMA MainStep ==
    IInv /\ (AskJournal \/ JournalAnswers \/ Judge \/ UNCHANGED vars) => IInv'
<1> SUFFICES ASSUME IInv, AskJournal \/ JournalAnswers \/ Judge \/ UNCHANGED vars
             PROVE  IInv'
  OBVIOUS
<1>1. UNCHANGED <<now, pid, born, lines, n, phase, at, draft, prev, lastLogRead,
                  latest, due, recorded, excused>>
  BY DEF AskJournal, JournalAnswers, Judge, vars, routerVars, samplerVars, historyVars
<1>2. TypeOK /\ ClockInv /\ DraftInv /\ CpuInv /\ CpuIsPossible /\ LinesInv
  BY DEF IInv
<1>3. /\ upsets' \in Nat /\ journalOk' \in BOOLEAN /\ asking' \in BOOLEAN
      /\ knownPid' \in 0 .. pid /\ noted' \in BOOLEAN /\ denied' \in BOOLEAN
  <2>1. CASE AskJournal
    BY <1>2, <2>1 DEF AskJournal, judgeVars, TypeOK
  <2>2. CASE JournalAnswers
    <3>1. /\ asking' = FALSE /\ UNCHANGED <<knownPid, noted, denied>>
          /\ (journalOk' = TRUE /\ upsets' = upsets) \/ (journalOk' = FALSE /\ upsets' = upsets + 1)
      BY <2>2 DEF JournalAnswers, Upset, judgeVars
    <3>2. journalOk' \in BOOLEAN
      BY <3>1, Zenon
    <3>3. upsets' \in Nat
      BY <1>2, <3>1 DEF TypeOK
    <3> QED
      BY <1>2, <3>1, <3>2, <3>3 DEF TypeOK
  <2>3. CASE Judge
    <3>1. UNCHANGED <<upsets, journalOk, asking>>
      BY <2>3 DEF Judge
    <3>2. noted' \in BOOLEAN
      <4>1. noted' = (noted \/ latest.line)
        BY <2>3 DEF Judge
      <4> QED
        BY <4>1, Zenon
    <3>3. knownPid' \in 0 .. pid /\ denied' \in BOOLEAN
      <4>1. latest.pid \in 0 .. pid /\ knownPid \in 0 .. pid /\ denied \in BOOLEAN
        BY <1>2 DEF TypeOK
      <4>2. knownPid' \in {knownPid, latest.pid} /\ denied' \in BOOLEAN
        BY <2>3, <4>1, Zenon DEF Judge
      <4> QED
        BY <4>1, <4>2
    <3> QED
      BY <1>2, <3>1, <3>2, <3>3 DEF TypeOK
  <2>4. CASE UNCHANGED vars
    BY <1>2, <2>4 DEF vars, judgeVars, TypeOK
  <2> QED
    BY <2>1, <2>2, <2>3, <2>4
<1>4. TypeOK'
  BY <1>1, <1>2, <1>3 DEF TypeOK
<1>5. ClockInv' /\ DraftInv' /\ CpuIsPossible' /\ LinesInv'
  BY <1>1, <1>2 DEF ClockInv, DraftInv, CpuIsPossible, LinesInv, Accounted
<1>6. CpuInv'
  BY <1>1, <1>2 DEF CpuInv, JustBefore
<1> QED
  BY <1>4, <1>5, <1>6 DEF IInv

----------------------------------------------------------------------------
(***************************************************************************)
(* Sampler.sample                                                          *)
(***************************************************************************)
LEMMA BeginStep == IInv /\ Begin => IInv'
<1> SUFFICES ASSUME IInv, Begin PROVE IInv'
  OBVIOUS
<1>1. /\ phase = "idle" /\ phase' = "begun" /\ n' = (n + 1) % SlowEvery
      /\ UNCHANGED <<now, pid, born, lines, upsets, journalOk, at, draft, prev,
                     lastLogRead, latest, asking, knownPid, noted, denied, due,
                     recorded, excused>>
  BY DEF Begin, SampleFrame, routerVars, judgeVars, historyVars
<1>2. TypeOK /\ ClockInv /\ DraftInv /\ CpuInv /\ CpuIsPossible /\ LinesInv
  BY DEF IInv
<1>3. TypeOK'
  <2>1. n' \in 0 .. SlowEvery - 1
    BY <1>1, <1>2, ConstantTypes, SMT DEF TypeOK
  <2> QED
    BY <1>1, <1>2, <2>1 DEF TypeOK
<1>4. ClockInv' /\ DraftInv' /\ CpuInv'
  BY <1>1, <1>2 DEF ClockInv, Timed, DraftInv, CpuInv, JustBefore
<1>5. CpuIsPossible' /\ LinesInv'
  BY <1>1, <1>2 DEF CpuIsPossible, LinesInv, Accounted
<1> QED
  BY <1>3, <1>4, <1>5 DEF IInv

LEMMA SummaryFailsStep == IInv /\ SummaryFails => IInv'
<1> SUFFICES ASSUME IInv, SummaryFails PROVE IInv'
  OBVIOUS
<1>1. /\ phase = "begun" /\ draft' = [draft EXCEPT !.ok = FALSE] /\ upsets' = upsets + 1
      /\ UNCHANGED <<now, pid, born, lines, journalOk, n, phase, at, prev,
                     lastLogRead, latest, asking, knownPid, noted, denied, due,
                     recorded, excused>>
  BY DEF SummaryFails, Upset, SampleFrame, routerVars, judgeVars, historyVars
<1>2. TypeOK /\ ClockInv /\ DraftInv /\ CpuInv /\ CpuIsPossible /\ LinesInv
  BY DEF IInv
<1>3. /\ draft' \in Records
      /\ draft'.proc = draft.proc /\ draft'.cpu = draft.cpu /\ draft'.lines = draft.lines
  BY <1>1, <1>2 DEF TypeOK, Records
<1>4. TypeOK'
  <2>1. upsets' \in Nat
    BY <1>1, <1>2 DEF TypeOK
  <2> QED
    BY <1>1, <1>2, <1>3, <2>1 DEF TypeOK
<1>5. ClockInv' /\ DraftInv' /\ CpuInv'
  BY <1>1, <1>2, <1>3 DEF ClockInv, Timed, DraftInv, CpuInv, JustBefore
<1>6. CpuIsPossible' /\ LinesInv'
  BY <1>1, <1>2, <1>3 DEF CpuIsPossible, LinesInv, Accounted
<1> QED
  BY <1>4, <1>5, <1>6 DEF IInv

(* The ticks are those of the moment of the read. *)
LEMMA ReadProcStep == IInv /\ ReadProc => IInv'
<1> SUFFICES ASSUME IInv, ReadProc PROVE IInv'
  OBVIOUS
<1>1. /\ phase = "begun" /\ phase' = "read" /\ at' = now
      /\ UNCHANGED <<now, pid, born, lines, journalOk, n, prev, lastLogRead, latest,
                     asking, knownPid, noted, denied, due, recorded, excused>>
      /\ \/ /\ draft' = [draft EXCEPT !.proc = [pid |-> pid, ticks |-> now - born]]
            /\ upsets' = upsets
         \/ draft' = draft /\ upsets' = upsets + 1
  BY DEF ReadProc, Upset, SampleFrame, routerVars, judgeVars, historyVars
<1>2. TypeOK /\ ClockInv /\ DraftInv /\ CpuInv /\ CpuIsPossible /\ LinesInv
  BY DEF IInv
<1>3. now - born \in Nat /\ pid \in Nat /\ pid # 0
  BY <1>2, DraftTypes DEF ClockInv, TypeOK, NoPid
<1>4. /\ draft' \in Records /\ draft'.cpu = draft.cpu /\ draft'.lines = draft.lines
      /\ \/ draft'.proc = [pid |-> pid, ticks |-> now - born]
         \/ draft'.proc = NoProc
  <2>1. CASE draft' = [draft EXCEPT !.proc = [pid |-> pid, ticks |-> now - born]]
    <3>1. [pid |-> pid, ticks |-> now - born] \in [pid : Nat, ticks : Nat]
      BY <1>3
    <3> QED
      BY <1>2, <2>1, <3>1 DEF TypeOK, Records
  <2>2. CASE draft' = draft
    BY <1>1, <1>2, <2>2 DEF TypeOK, DraftInv
  <2> QED
    BY <1>1, <2>1, <2>2
<1>5. TypeOK'
  <2>1. upsets' \in Nat /\ at' \in Times
    BY <1>1, <1>2 DEF TypeOK
  <2> QED
    BY <1>1, <1>2, <1>4, <2>1 DEF TypeOK
<1>6. ClockInv'
  BY <1>1, <1>2, DraftTypes, ConstantTypes DEF ClockInv, Timed
<1>7. DraftInv'
  BY <1>1, <1>2, <1>3, <1>4 DEF DraftInv
<1>8. CpuInv'
  <2>1. CASE draft'.proc = [pid |-> pid, ticks |-> now - born]
    <3>1. draft'.proc.pid = pid /\ draft'.proc.ticks = now - born
      BY <2>1
    <3>2. at' - (draft'.proc.ticks - prev.ticks) = prev.ticks + born
      BY <1>1, <1>2, <3>1, DraftTypes
    <3> QED
      BY <1>1, <1>2, <3>1, <3>2 DEF CpuInv, JustBefore
  <2>2. CASE draft'.proc = NoProc
    <3>1. draft'.proc.pid # pid
      BY <1>3, <2>2 DEF NoProc, NoPid
    <3> QED
      BY <1>1, <1>2, <2>2, <3>1 DEF CpuInv, JustBefore
  <2> QED
    BY <1>4, <2>1, <2>2
<1>9. CpuIsPossible' /\ LinesInv'
  BY <1>1, <1>2, <1>4 DEF CpuIsPossible, LinesInv, Accounted
<1> QED
  BY <1>5, <1>6, <1>7, <1>8, <1>9 DEF IInv

(* The daemon ran from one read to the next, which is no more than MaxDelay
   longer than from one clock to the next. *)
LEMMA CpuPctPossible ==
    ASSUME IInv, phase = "read", draft.proc # NoProc
    PROVE  /\ CpuPct \in [ticks : Int, time : Nat]
           /\ CpuPct.time > 0 =>
                0 <= CpuPct.ticks /\ CpuPct.ticks <= CpuPct.time + MaxDelay
<1>1. TypeOK /\ ClockInv /\ CpuInv
  BY DEF IInv
<1>2. CASE Baseline /\ now > prev.clock
  <2>1. CpuPct = [ticks |-> draft.proc.ticks - prev.ticks, time |-> now - prev.clock]
    BY <1>2 DEF CpuPct
  <2>2. JustBefore(at - (draft.proc.ticks - prev.ticks), prev.clock)
    BY <1>1, <1>2 DEF CpuInv, Baseline
  <2>3. prev.clock <= at /\ at <= now
    BY <1>1 DEF ClockInv, Timed
  <2> QED
    BY <1>1, <2>1, <2>2, <2>3, DraftTypes, ConstantTypes DEF JustBefore
<1>3. CASE ~(Baseline /\ now > prev.clock)
  <2>1. CpuPct = NoCpu
    BY <1>3 DEF CpuPct
  <2> QED
    BY <2>1 DEF NoCpu
<1> QED
  BY <1>2, <1>3

LEMMA TakeClockStep == IInv /\ TakeClock => IInv'
<1> SUFFICES ASSUME IInv, TakeClock PROVE IInv'
  OBVIOUS
<1>1. /\ phase = "read" /\ phase' = "measured"
      /\ UNCHANGED <<now, pid, born, lines, upsets, journalOk, n, at, lastLogRead, latest,
                     asking, knownPid, noted, denied, due, recorded, excused>>
  BY DEF TakeClock, SampleFrame, routerVars, judgeVars, historyVars
<1>2. TypeOK /\ ClockInv /\ DraftInv /\ CpuInv /\ CpuIsPossible /\ LinesInv
  BY DEF IInv
<1>3. CASE draft.proc = NoProc
  <2>1. draft' = draft /\ prev' = prev
    BY <1>3 DEF TakeClock
  <2>2. TypeOK' /\ ClockInv'
    BY <1>1, <1>2, <2>1 DEF TypeOK, ClockInv, Timed
  <2>3. DraftInv' /\ CpuInv'
    BY <1>1, <1>2, <2>1 DEF DraftInv, CpuInv, JustBefore
  <2>4. CpuIsPossible' /\ LinesInv'
    BY <1>1, <1>2, <2>1 DEF CpuIsPossible, LinesInv, Accounted
  <2> QED
    BY <2>2, <2>3, <2>4 DEF IInv
<1>4. CASE draft.proc # NoProc
  <2>1. /\ draft' = [draft EXCEPT !.cpu = CpuPct]
        /\ prev' = [pid |-> draft.proc.pid, ticks |-> draft.proc.ticks, clock |-> now]
    BY <1>4 DEF TakeClock
  <2>2. /\ CpuPct \in [ticks : Int, time : Nat]
        /\ CpuPct.time > 0 =>
             0 <= CpuPct.ticks /\ CpuPct.ticks <= CpuPct.time + MaxDelay
    BY <1>1, <1>4, CpuPctPossible
  <2>3. /\ draft' \in Records /\ draft'.proc = draft.proc
        /\ draft'.cpu = CpuPct /\ draft'.lines = draft.lines
    BY <1>2, <2>1, <2>2 DEF TypeOK, Records
  <2>4. prev'.pid = draft.proc.pid /\ prev'.ticks = draft.proc.ticks /\ prev'.clock = now
    BY <2>1
  <2>5. TypeOK'
    <3>1. prev' \in [pid : Nat, ticks : Nat, clock : Times]
      BY <1>2, <2>1, DraftTypes DEF TypeOK
    <3> QED
      BY <1>1, <1>2, <2>3, <3>1 DEF TypeOK
  <2>6. ClockInv'
    BY <1>1, <1>2, <2>4, DraftTypes DEF ClockInv, Timed
  <2>7. DraftInv'
    BY <1>1, <1>2, <1>4, <2>3, <2>4 DEF DraftInv
  <2>8. CpuInv'
    <3>1. ASSUME draft.proc.pid = pid PROVE JustBefore(draft.proc.ticks + born, now)
      <4>1. draft.proc.ticks = at - born /\ at <= now /\ now <= at + MaxDelay
        BY <1>1, <1>2, <3>1 DEF CpuInv, ClockInv, Timed
      <4> QED
        BY <1>2, <4>1, DraftTypes, ConstantTypes DEF JustBefore
    <3> QED
      BY <1>1, <2>4, <3>1 DEF CpuInv, JustBefore
  <2>9. CpuIsPossible'
    BY <2>2, <2>3 DEF CpuIsPossible
  <2>10. LinesInv'
    BY <1>1, <1>2, <2>3 DEF LinesInv, Accounted
  <2> QED
    BY <2>5, <2>6, <2>7, <2>8, <2>9, <2>10 DEF IInv
<1> QED
  BY <1>3, <1>4

LEMMA AskForLogStep == IInv /\ AskForLog => IInv'
<1> SUFFICES ASSUME IInv, AskForLog PROVE IInv'
  OBVIOUS
<1>1. /\ phase = "measured" /\ phase' \in {"journal", "file"} /\ at' = now
      /\ UNCHANGED <<now, pid, born, lines, upsets, journalOk, n, draft, prev, lastLogRead,
                     latest, asking, knownPid, noted, denied, due, recorded, excused>>
  BY DEF AskForLog, SampleFrame, routerVars, judgeVars, historyVars
<1>2. TypeOK /\ ClockInv /\ DraftInv /\ CpuInv /\ CpuIsPossible /\ LinesInv
  BY DEF IInv
<1>3. TypeOK'
  BY <1>1, <1>2 DEF TypeOK
<1>4. ClockInv'
  BY <1>1, <1>2, DraftTypes, ConstantTypes DEF ClockInv, Timed
<1>5. DraftInv' /\ CpuInv'
  BY <1>1, <1>2 DEF DraftInv, CpuInv, JustBefore
<1>6. CpuIsPossible' /\ LinesInv'
  BY <1>1, <1>2 DEF CpuIsPossible, LinesInv, Accounted
<1> QED
  BY <1>3, <1>4, <1>5, <1>6 DEF IInv

(* The window reaches back to what a read of MaxDelay before _last_log_read
   left. *)
LEMMA WindowMeetsTheLast ==
    ASSUME TypeOK, ClockInv, phase \in {"journal", "file"}, 2 * MaxDelay <= Margin,
           lastLogRead # Never, NEW l \in lines, l \notin InWindow
    PROVE  l < lastLogRead - MaxDelay
<1>1. at \in Nat /\ now \in Nat /\ lastLogRead \in Int /\ l \in Nat
  BY DraftTypes
<1>2. now <= at + MaxDelay
  BY DEF ClockInv, Timed
<1>3. l < now - Span(at)
  <2>1. Span(at) \in Int
    BY <1>1, ConstantTypes DEF Span, Larger
  <2> QED
    BY <1>1, <2>1 DEF InWindow
<1>4. Span(at) >= (at - lastLogRead) + Margin /\ Span(at) \in Int
  BY <1>1, ConstantTypes DEF Span, Larger
<1> QED
  BY <1>1, <1>2, <1>3, <1>4, ConstantTypes

(* A file that was not written to in a burst shows all that is not accounted
   for: of those lines there are no more than it shows, and no later ones. *)
LEMMA TailMeetsTheLast ==
    ASSUME TypeOK, DraftInv, LinesInv, 2 * MaxDelay <= Margin, ~Burst,
           NEW l \in lines, l \notin Accounted
    PROVE  l \in Tail
<1> DEFINE missed == lines \ Accounted
           later  == {m \in lines : m > l}
<1>1. IsFiniteSet(lines)
  <2>1. IsFiniteSet(0 .. MaxTime)
    BY ConstantTypes, FS_Interval
  <2> QED
    BY <2>1, FS_Subset DEF TypeOK, Times
<1>2. IsFiniteSet(missed) /\ Cardinality(missed) \in Nat /\ Cardinality(missed) <= TailLines
  <2>1. IsFiniteSet(missed)
    BY <1>1, FS_Subset
  <2>2. Cardinality(missed) \in Nat
    BY <2>1, FS_CardinalityType
  <2> QED
    BY <2>1, <2>2, ConstantTypes DEF Burst
<1>3. later \subseteq missed \ {l}
  <2> SUFFICES ASSUME NEW m \in lines, m > l
               PROVE  m \notin Accounted /\ m # l
    OBVIOUS
  <2>1. l \in Nat /\ m \in Nat
    BY DraftTypes
  <2>2. m \notin Accounted
    BY <2>1 DEF LinesInv
  <2> QED
    BY <2>1, <2>2
<1>4. /\ IsFiniteSet(missed \ {l})
      /\ Cardinality(missed \ {l}) = Cardinality(missed) - 1
  BY <1>2, FS_RemoveElement
<1>5. Cardinality(later) \in Nat /\ Cardinality(later) <= Cardinality(missed) - 1
  BY <1>3, <1>4, FS_Subset, FS_CardinalityType
<1>6. Cardinality(later) < TailLines
  BY <1>2, <1>5, ConstantTypes
<1> QED
  BY <1>6 DEF Tail

(* Whatever answers, what was written before is accounted for. *)
LEMMA ReadLogAccounts ==
    ASSUME IInv, ReadLog, 2 * MaxDelay <= Margin
    PROVE  /\ lines = Accounted'
           /\ due' = due \/ due' = {l \in lines : l < now}
<1>1. /\ phase \in {"journal", "file"} /\ recorded' = recorded /\ lines' = lines
  BY DEF ReadLog, SampleFrame, routerVars
<1>2. TypeOK /\ ClockInv /\ DraftInv /\ LinesInv
  BY DEF IInv
<1>3. draft.lines = {} /\ Accounted = recorded \cup excused /\ Accounted \subseteq lines
  BY <1>1, <1>2 DEF DraftInv, Accounted, TypeOK
<1>4. CASE ReadJournal
  <2>1. /\ draft' = [draft EXCEPT !.lines = InWindow]
        /\ due' = {l \in lines : l < now}
        /\ excused' = IF lastLogRead = Never THEN lines \ InWindow ELSE excused
    BY <1>4 DEF ReadJournal, ReadsLog
  <2>2. draft'.lines = InWindow /\ InWindow \subseteq lines
    BY <1>2, <2>1, DraftTypes DEF InWindow
  <2>3. Accounted' = recorded \cup InWindow \cup excused'
    BY <1>1, <2>2 DEF Accounted
  <2>4. CASE lastLogRead = Never
    BY <1>3, <2>1, <2>2, <2>3, <2>4
  <2>5. CASE lastLogRead # Never
    <3>1. Accounted' = Accounted \cup InWindow
      BY <1>3, <2>1, <2>3, <2>5
    <3>2. ASSUME NEW l \in lines, l \notin InWindow PROVE l \in Accounted
      <4>1. l < lastLogRead - MaxDelay
        BY <1>1, <1>2, <2>5, <3>2, WindowMeetsTheLast
      <4> QED
        BY <1>2, <2>5, <4>1 DEF LinesInv
    <3> QED
      BY <1>3, <2>1, <2>2, <3>1, <3>2
  <2> QED
    BY <2>4, <2>5
<1>5. CASE ReadFile
  <2>1. /\ draft' = [draft EXCEPT !.lines = Tail]
        /\ due' = {l \in lines : l < now}
        /\ excused' = IF Burst THEN excused \cup (lines \ Tail) ELSE excused
    BY <1>5 DEF ReadFile, ReadsLog
  <2>2. draft'.lines = Tail /\ Tail \subseteq lines
    BY <1>2, <2>1, DraftTypes DEF Tail
  <2>3. Accounted' = recorded \cup Tail \cup excused'
    BY <1>1, <2>2 DEF Accounted
  <2>4. CASE Burst
    BY <1>3, <2>1, <2>2, <2>3, <2>4
  <2>5. CASE ~Burst
    <3>1. Accounted' = Accounted \cup Tail
      BY <1>3, <2>1, <2>3, <2>5
    <3>2. \A l \in lines : l \notin Accounted => l \in Tail
      BY <1>2, <2>5, TailMeetsTheLast
    <3> QED
      BY <1>3, <2>1, <2>2, <3>1, <3>2
  <2> QED
    BY <2>4, <2>5
<1>6. CASE ReadNothing
  <2>1. draft' = draft /\ due' = due /\ excused' = excused \cup (lines \ recorded)
    BY <1>6 DEF ReadNothing
  <2>2. Accounted' = recorded \cup excused'
    BY <1>1, <1>3, <2>1 DEF Accounted
  <2> QED
    BY <1>3, <2>1, <2>2
<1> QED
  BY <1>4, <1>5, <1>6 DEF ReadLog

LEMMA ReadLogStep == IInv /\ ReadLog => IInv'
<1> SUFFICES ASSUME IInv, ReadLog PROVE IInv'
  OBVIOUS
<1>1. /\ phase \in {"journal", "file"} /\ phase' = "logged" /\ at' = now
      /\ UNCHANGED <<now, pid, born, lines, n, prev, lastLogRead, latest,
                     asking, knownPid, noted, denied, recorded>>
  BY DEF ReadLog, SampleFrame, routerVars, judgeVars
<1>2. TypeOK /\ ClockInv /\ DraftInv /\ CpuInv /\ CpuIsPossible /\ LinesInv
  BY DEF IInv
<1>3. PICK found \in SUBSET lines : draft' = [draft EXCEPT !.lines = found]
  <2>1. CASE ReadJournal
    BY <2>1 DEF ReadJournal, ReadsLog, InWindow
  <2>2. CASE ReadFile
    BY <2>2 DEF ReadFile, ReadsLog, Tail
  <2>3. CASE ReadNothing
    <3>1. draft' = [draft EXCEPT !.lines = draft.lines]
      BY <1>2, <2>3, DraftTypes DEF ReadNothing
    <3> QED
      BY <1>2, <3>1 DEF DraftInv
  <2> QED
    BY <2>1, <2>2, <2>3 DEF ReadLog
<1>4. /\ draft' \in Records /\ draft'.lines = found
      /\ draft'.proc = draft.proc /\ draft'.cpu = draft.cpu
  BY <1>2, <1>3 DEF TypeOK, Records
<1>5. upsets' \in Nat /\ journalOk' \in BOOLEAN
  <2>1. (journalOk' = TRUE \/ journalOk' = (journalOk /\ phase # "journal"))
    BY Zenon DEF ReadLog, ReadJournal, ReadFile, ReadNothing, NoJournal
  <2>2. journalOk' \in BOOLEAN
    BY <2>1, Zenon
  <2>3. upsets' = upsets \/ upsets' = upsets + 1
    BY DEF ReadLog, ReadJournal, ReadFile, ReadNothing, Upset
  <2> QED
    BY <1>2, <2>2, <2>3 DEF TypeOK
<1>6. due' \subseteq lines /\ excused' \subseteq lines
  BY <1>2 DEF ReadLog, ReadJournal, ReadFile, ReadNothing, ReadsLog, TypeOK
<1>7. TypeOK'
  <2>1. {due', recorded', excused'} \subseteq SUBSET lines'
    BY <1>1, <1>2, <1>6 DEF TypeOK
  <2> QED
    BY <1>1, <1>2, <1>4, <1>5, <2>1 DEF TypeOK
<1>8. ClockInv'
  BY <1>1, <1>2, DraftTypes, ConstantTypes DEF ClockInv, Timed
<1>9. DraftInv' /\ CpuInv' /\ CpuIsPossible'
  BY <1>1, <1>2, <1>4 DEF DraftInv, CpuInv, CpuIsPossible, JustBefore
<1>10. LinesInv'
  <2> SUFFICES ASSUME 2 * MaxDelay <= Margin
               PROVE  /\ due' \subseteq Accounted'
                      /\ \A l \in lines : l \in Accounted'
    BY <1>1 DEF LinesInv
  <2>1. lines = Accounted' /\ (due' = due \/ due' = {l \in lines : l < now})
    BY ReadLogAccounts
  <2>2. due \subseteq lines
    BY <1>2 DEF TypeOK
  <2> QED
    BY <2>1, <2>2
<1> QED
  BY <1>7, <1>8, <1>9, <1>10 DEF IInv

(* Emitting a record moves its lines to the recorded ones.  Publish is the
   one of the three that remembers when the log was read. *)
LEMMA EmitStep == IInv /\ (SampleDown \/ PublishQuick \/ Publish) => IInv'
<1> SUFFICES ASSUME IInv, SampleDown \/ PublishQuick \/ Publish PROVE IInv'
  OBVIOUS
<1>1. /\ UNCHANGED <<now, pid, born, lines, journalOk, n, at, prev, asking, knownPid,
                     noted, denied, due, excused>>
      /\ upsets' = upsets \/ upsets' = upsets + 1
  BY DEF SampleDown, PublishQuick, Publish, Upset, SampleFrame, routerVars, judgeVars
<1>2. TypeOK /\ ClockInv /\ DraftInv /\ CpuInv /\ CpuIsPossible /\ LinesInv
  BY DEF IInv
<1>3. PICK rec : Emit(rec) /\ rec.lines = draft.lines /\ rec.proc = draft.proc
                           /\ rec.ok \in BOOLEAN
  <2>1. CASE SampleDown
    <3> DEFINE down == [draft EXCEPT !.ok = FALSE]
    <3>1. down.lines = draft.lines /\ down.proc = draft.proc /\ down.ok \in BOOLEAN
      BY <1>2, DraftTypes
    <3>2. Emit(down)
      BY <2>1 DEF SampleDown
    <3> QED
      BY <3>1, <3>2
  <2>2. CASE PublishQuick \/ Publish
    BY <1>2, <2>2, DraftTypes DEF PublishQuick, Publish
  <2> QED
    BY <2>1, <2>2
<1>4. /\ latest' = [ok |-> rec.ok, pid |-> draft.proc.pid, line |-> rec.lines \cap Warnings # {}]
      /\ recorded' = recorded \cup draft.lines
      /\ phase' = "idle" /\ draft' = NoRecord
  BY <1>3 DEF Emit
<1>5. /\ draft'.proc = NoProc /\ draft'.cpu = NoCpu /\ draft'.lines = {}
      /\ draft'.cpu.time = 0
  BY <1>4 DEF NoRecord, NoCpu
<1>6. lastLogRead' = lastLogRead \/ (phase = "logged" /\ lastLogRead' = now)
  BY DEF SampleDown, PublishQuick, Publish
<1>7. TypeOK'
  <2>1. draft.proc.pid \in 0 .. pid
    BY <1>2, DraftTypes DEF DraftInv, NoProc, NoPid
  <2>2. latest' \in [ok : BOOLEAN, pid : 0 .. pid, line : BOOLEAN]
    <3>1. (rec.lines \cap Warnings # {}) \in BOOLEAN
      OBVIOUS
    <3> QED
      BY <1>3, <1>4, <2>1, <3>1
  <2>3. recorded' \subseteq lines
    BY <1>2, <1>4 DEF TypeOK, DraftInv
  <2>4. upsets' \in Nat /\ lastLogRead' \in Times \cup {Never}
    BY <1>1, <1>2, <1>6 DEF TypeOK
  <2> QED
    BY <1>1, <1>2, <1>4, <2>2, <2>3, <2>4, NoRecordType DEF TypeOK
<1>8. ClockInv'
  BY <1>1, <1>2, <1>4, <1>6, DraftTypes DEF ClockInv, Timed
<1>9. DraftInv' /\ CpuInv' /\ CpuIsPossible'
  BY <1>1, <1>2, <1>4, <1>5 DEF DraftInv, CpuInv, CpuIsPossible, JustBefore
<1>10. LinesInv'
  <2>1. Accounted' = Accounted
    BY <1>1, <1>4, <1>5 DEF Accounted
  <2>2. CASE lastLogRead' = lastLogRead
    BY <1>1, <1>2, <1>4, <2>1, <2>2 DEF LinesInv
  <2>3. CASE phase = "logged" /\ lastLogRead' = now
    <3>1. now - MaxDelay <= at
      BY <1>2, <2>3, DraftTypes, ConstantTypes DEF ClockInv, Timed
    <3>2. \A l \in lines : l < now - MaxDelay => l < at
      BY <1>2, <3>1, DraftTypes, ConstantTypes
    <3> QED
      BY <1>1, <1>2, <1>4, <2>1, <2>3, <3>2 DEF LinesInv
  <2> QED
    BY <1>6, <2>2, <2>3
<1> QED
  BY <1>7, <1>8, <1>9, <1>10 DEF IInv

(* Nothing of a sample that raised is kept, and none of its lines was due:
   the log had not been read. *)
LEMMA SampleRaisesStep == IInv /\ SampleRaises => IInv'
<1> SUFFICES ASSUME IInv, SampleRaises PROVE IInv'
  OBVIOUS
<1>1. /\ phase \in {"measured", "journal", "file"} /\ phase' = "idle"
      /\ draft' = NoRecord /\ upsets' = upsets + 1
      /\ journalOk' = (journalOk /\ phase # "journal")
      /\ UNCHANGED <<now, pid, born, lines, n, at, prev, lastLogRead, latest,
                     asking, knownPid, noted, denied, due, recorded, excused>>
  BY DEF SampleRaises, NoJournal, Upset, SampleFrame, routerVars, judgeVars, historyVars
<1>2. TypeOK /\ ClockInv /\ DraftInv /\ CpuInv /\ CpuIsPossible /\ LinesInv
  BY DEF IInv
<1>3. /\ draft'.proc = NoProc /\ draft'.cpu = NoCpu /\ draft'.lines = {}
      /\ draft'.cpu.time = 0
  BY <1>1 DEF NoRecord, NoCpu
<1>4. TypeOK'
  <2>1. journalOk' \in BOOLEAN
    BY <1>1, Zenon
  <2>2. upsets' \in Nat
    BY <1>1, <1>2 DEF TypeOK
  <2> QED
    BY <1>1, <1>2, <2>1, <2>2, NoRecordType DEF TypeOK
<1>5. ClockInv' /\ DraftInv' /\ CpuInv' /\ CpuIsPossible'
  BY <1>1, <1>2, <1>3 DEF ClockInv, Timed, DraftInv, CpuInv, CpuIsPossible, JustBefore
<1>6. LinesInv'
  <2>1. draft.lines = {}
    BY <1>1, <1>2 DEF DraftInv
  <2>2. Accounted' = Accounted
    BY <1>1, <1>3, <2>1 DEF Accounted
  <2> QED
    BY <1>1, <1>2, <2>2 DEF LinesInv
<1> QED
  BY <1>4, <1>5, <1>6 DEF IInv

----------------------------------------------------------------------------
(* The conjunction of all parts is an invariant. *)
THEOREM SamplingInductive == Spec => []IInv
<1>1. IInv /\ [Next]_vars => IInv'
  <2> SUFFICES ASSUME IInv, [Next]_vars PROVE IInv'
    OBVIOUS
  <2>1. CASE Tick \/ LogLine \/ DaemonRestarts
    BY <2>1, TickStep, LogLineStep, RestartStep
  <2>2. CASE Sampler
    BY <2>2, BeginStep, SummaryFailsStep, ReadProcStep, TakeClockStep, AskForLogStep,
       ReadLogStep, EmitStep, SampleRaisesStep DEF Sampler
  <2>3. CASE AskJournal \/ JournalAnswers \/ Judge \/ UNCHANGED vars
    BY <2>3, MainStep
  <2> QED
    BY <2>1, <2>2, <2>3 DEF Next
<1> QED
  BY InitOK, <1>1, PTL DEF Spec

(* Every reachable state of the sampling thread and its router is well
   typed. *)
THEOREM SamplingTyped == Spec => []TypeOK
<1>1. IInv => TypeOK
  BY DEF IInv
<1> QED
  BY SamplingInductive, <1>1, PTL

(* FINDINGS.md H-56: no line of the log goes unread between two reads, when
   the margin is twice the delay of a call or more. *)
THEOREM NoLineUnread == Spec => []EveryLineRead
<1>1. IInv => EveryLineRead
  BY DEF IInv, LinesInv, EveryLineRead
<1> QED
  BY SamplingInductive, <1>1, PTL

(* FINDINGS.md H-21: the CPU time of a record is never negative and never
   more than the time it is divided by and the delay of one call. *)
THEOREM NoImpossibleCpu == Spec => []CpuIsPossible
<1>1. IInv => CpuIsPossible
  BY DEF IInv
<1> QED
  BY SamplingInductive, <1>1, PTL

=============================================================================
