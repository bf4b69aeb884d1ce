------------------------- MODULE ConvergenceProofs -------------------------
(***************************************************************************)
(* Proofs about Convergence, for every value of its constants.             *)
(*                                                                         *)
(* TypeOK is inductive on its own.  IInv, the invariant the three safety   *)
(* properties follow from, is proved in four parts, one lemma each for     *)
(* the router's, the sampler's and the waiter's steps.                     *)
(***************************************************************************)
EXTENDS Convergence, TLAPS

----------------------------------------------------------------------------
(* Types *)

\* The two records that stand for `nothing yet' are records.
LEMMA NothingYetTyped == NoSample \in Sample /\ NoDraft \in Draft
  BY DEF NoSample, Sample, NoDraft, Draft, NoVersion, Absent

\* A record of the right fields is a sample.
LEMMA SampleTyped ==
  ASSUME NEW t \in Nat, NEW d \in BOOLEAN, NEW r \in BOOLEAN, NEW k \in Int,
         NEW s \in BOOLEAN, NEW c \in BOOLEAN, NEW q \in BOOLEAN, NEW i \in Int
  PROVE  [tick |-> t, down |-> d, readOk |-> r, key |-> k, sessions |-> s,
          cpuBusy |-> c, queued |-> q, installs |-> i] \in Sample
  BY DEF Sample

\* The initial state is well typed.
LEMMA InitTyped == Init => TypeOK
<1> SUFFICES ASSUME Init PROVE TypeOK
  OBVIOUS
<1>1. FlagsOK
  BY Zenon DEF Init, FlagsOK
<1>2. RecordsOK
  BY NothingYetTyped DEF Init, RecordsOK
<1>3. CountsOK
  BY DEF Init, CountsOK, NoVersion, Absent
<1>4. StatesOK
  BY DEF Init, StatesOK, Reasons
<1> QED BY <1>1, <1>2, <1>3, <1>4 DEF TypeOK

\* The router's steps keep the types.
LEMMA DutTyped == TypeOK /\ Dut => TypeOK'
<1> SUFFICES ASSUME TypeOK, Dut PROVE TypeOK'
  OBVIOUS
<1> USE DEF TypeOK, LearnRoutes, SessionsChange, CpuChanges,
            ContainerStopsOrStarts, HandToZebra, ZebraInstalls
<1>1. FlagsOK'
  BY Zenon DEF Dut, FlagsOK
<1>2. RecordsOK' /\ StatesOK'
  BY DEF Dut, RecordsOK, StatesOK, callVars
<1>3. CountsOK'
  <2>1. upsets' \in Nat
    BY DEF Dut, CountsOK, Upset
  <2>2. table' \in Nat /\ offered' \in Nat /\ installs' \in Nat
    BY DEF Dut, CountsOK
  <2>3. moves' \subseteq Nat
    BY DEF Dut, CountsOK
  <2>4. calmFed' \in Nat
    BY DEF Dut
  <2> QED BY <2>1, <2>2, <2>3, <2>4 DEF Dut, CountsOK, callVars
<1> QED BY <1>1, <1>2, <1>3

\* The sampler's steps keep the types.
LEMMA SamplerTyped == TypeOK /\ Sampler => TypeOK'
<1> SUFFICES ASSUME TypeOK, Sampler PROVE TypeOK'
  OBVIOUS
<1> USE DEF TypeOK
<1>1. StatesOK'
  BY DEF Sampler, StatesOK, trackerVars, callVars
<1>2. CountsOK'
  <2>1. n' \in {n, n + 1}
    BY Zenon DEF Sampler, SampleDown, SampleBgp, SampleRest, SampleRaises,
                 BeginSample
  <2>2. upsets' \in {upsets, upsets + 1}
    BY Zenon DEF Sampler, SampleDown, SampleBgp, SampleRest, SampleRaises,
                 Upset
  <2> QED BY <2>1, <2>2 DEF Sampler, CountsOK, dutVars, trackerVars, callVars
<1>3. FlagsOK'
  BY DEF Sampler, SampleDown, SampleBgp, SampleRest, SampleRaises, FlagsOK,
            Publish, dutVars, trackerVars, callVars
<1>4. RecordsOK'
  <2>1. CASE SampleDown
    <3>1. n + 1 \in Nat /\ NoVersion \in Int /\ Absent \in Int
      BY DEF CountsOK, NoVersion, Absent
    <3>2. latest' = [tick |-> n + 1, down |-> TRUE, readOk |-> FALSE,
                     key |-> NoVersion, sessions |-> FALSE,
                     cpuBusy |-> FALSE, queued |-> FALSE,
                     installs |-> Absent]
      BY <2>1 DEF SampleDown, Publish
    <3>3. latest' \in Sample
      BY <3>1, <3>2, SampleTyped, Zenon
    <3> QED BY <2>1, <3>3 DEF SampleDown, RecordsOK
  <2>2. CASE SampleBgp
    <3>1. PICK r \in BOOLEAN, k \in {table, NoVersion},
               s \in {sessions, FALSE} :
            draft' = [readOk |-> r, key |-> k, sessions |-> s]
      BY <2>2, Zenon DEF SampleBgp
    <3>2. k \in Int
      BY DEF CountsOK, NoVersion
    <3>3. s \in BOOLEAN
      BY DEF FlagsOK
    <3>4. draft' \in Draft
      BY <3>1, <3>2, <3>3 DEF Draft
    <3> QED BY <2>2, <3>4 DEF SampleBgp, RecordsOK
  <2>3. CASE SampleRest
    <3>1. PICK q \in BOOLEAN, i \in {installs, Absent} :
            latest' = [tick |-> n, down |-> FALSE, readOk |-> draft.readOk,
                       key |-> draft.key, sessions |-> draft.sessions,
                       cpuBusy |-> alive /\ cpuBusy, queued |-> q,
                       installs |-> i]
      BY <2>3, Zenon DEF SampleRest, Publish
    <3>2. i \in Int /\ n \in Nat
      BY DEF CountsOK, Absent
    <3>3. /\ draft.readOk \in BOOLEAN /\ draft.key \in Int
          /\ draft.sessions \in BOOLEAN
      BY DEF RecordsOK, Draft
    <3>4. latest' \in Sample
      BY <3>1, <3>2, <3>3, SampleTyped, Zenon
    <3> QED BY <2>3, <3>4, NothingYetTyped DEF SampleRest, RecordsOK
  <2>4. CASE SampleRaises
    BY <2>4, NothingYetTyped DEF SampleRaises, RecordsOK
  <2> QED BY <2>1, <2>2, <2>3, <2>4 DEF Sampler
<1> QED BY <1>1, <1>2, <1>3, <1>4

\* The waiter's steps keep the types.
LEMMA WaiterTyped == TypeOK /\ Waiter => TypeOK'
<1> SUFFICES ASSUME TypeOK, Waiter PROVE TypeOK'
  OBVIOUS
<1> USE DEF TypeOK, FeedInconclusive, FeedDown, FeedReadFailed, FeedBusy,
            FeedNoVersion, FeedSessionsDown, FeedSettled, BeginWait,
            TrackerReset
<1>1. RecordsOK'
  BY DEF Waiter, RecordsOK, samplerVars
<1>2. CountsOK'
  <2>1. /\ latest.tick \in Nat /\ latest.key \in Int
        /\ latest.installs \in Int
    BY DEF RecordsOK, Sample
  <2>2. /\ streak' \in {0, 1, streak, streak + 1}
        /\ firstTick' \in {0, firstTick, latest.tick}
    BY Zenon DEF Waiter, StartConverge, Poll, Deadline, AskZebra,
                 StreakBroken, trackerVars
  <2>3. /\ lastKey' \in {NoVersion, lastKey, latest.key}
        /\ lastInstalls' \in {Absent, lastInstalls, latest.installs}
    BY Zenon DEF Waiter, StartConverge, Poll, Deadline, AskZebra,
                 NotesInstalls, trackerVars
  <2>4. calmFed' \in {0, 1, calmFed, calmFed + 1}
    BY Zenon DEF Waiter, StartConverge, Poll, Deadline, AskZebra,
                 Remembers, trackerVars
  <2>5. last' \in {0, last, latest.tick} /\ startedAt' \in {startedAt, n}
    BY Zenon DEF Waiter, StartConverge, Poll, Deadline, AskZebra
  <2>6. upsets' \in {upsets, upsets + 1}
    BY Zenon DEF Waiter, StartConverge, Poll, Deadline, AskZebra, Upset
  <2> QED BY <2>1, <2>2, <2>3, <2>4, <2>5, <2>6
    DEF Waiter, CountsOK, dutVars, samplerVars, NoVersion, Absent
<1>3. StatesOK'
  BY DEF Waiter, StartConverge, Poll, Deadline, AskZebra, StatesOK, Reasons,
         FibDetail, trackerVars
<1>4. FlagsOK'
  <2>1. trouble' \in BOOLEAN
    BY DEF Waiter, StartConverge, Poll, Deadline, AskZebra, FlagsOK,
           Remembers, trackerVars
  <2>2. fibSeen' \in BOOLEAN
    BY DEF Waiter, StartConverge, Poll, Deadline, AskZebra, FlagsOK,
           trackerVars
  <2> QED BY <2>1, <2>2 DEF Waiter, FlagsOK, dutVars, samplerVars
<1> QED BY <1>1, <1>2, <1>3, <1>4

\* Every variable keeps its type: a key is always a table or NoVersion, a
\* streak never goes negative, a verdict is one of the two _converge returns.
THEOREM TypeCorrect == Spec => []TypeOK
<1>1. TypeOK /\ [Next]_vars => TypeOK'
  <2> SUFFICES ASSUME TypeOK, [Next]_vars PROVE TypeOK'
    OBVIOUS
  <2>1. CASE Next
    BY <2>1, DutTyped, SamplerTyped, WaiterTyped DEF Next
  <2>2. CASE UNCHANGED vars
    BY <2>2 DEF TypeOK, FlagsOK, RecordsOK, CountsOK, StatesOK,
                vars, dutVars, samplerVars, trackerVars, callVars
  <2> QED BY <2>1, <2>2
<1> QED BY <1>1, InitTyped, PTL DEF Spec

----------------------------------------------------------------------------
(* What a step of each party does to the variables IInv is about *)

\* The router moves the table forward or leaves it alone.
LEMMA DutFrame ==
  ASSUME Dut
  PROVE  /\ UNCHANGED <<n, draft, latest, pc, last, startedAt,
                        firstTick, trouble, streak, lastKey>>
         /\ \/ UNCHANGED <<table, moves>>
            \/ table' = table + 1 /\ moves' = moves \cup {n}
  BY Zenon DEF Dut, LearnRoutes, SessionsChange, CpuChanges, callVars,
               ContainerStopsOrStarts, HandToZebra, ZebraInstalls

\* The sampler begins a sample with the table as it is, publishes what it
\* read when the sample began, or drops it.
LEMMA SamplerFrame ==
  ASSUME Sampler
  PROVE  /\ UNCHANGED <<table, moves, pc, last, startedAt,
                        firstTick, trouble, streak, lastKey>>
         /\ \/ /\ draft = NoDraft /\ n' = n + 1
               /\ UNCHANGED draft
               /\ latest'.tick = n + 1 /\ ~latest'.readOk
            \/ /\ draft = NoDraft /\ n' = n + 1
               /\ UNCHANGED latest
               /\ Versioned(draft') => draft'.key = table
            \/ /\ draft # NoDraft /\ n' = n
               /\ draft' = NoDraft
               /\ latest'.tick = n /\ latest'.key = draft.key
               /\ latest'.readOk = draft.readOk
            \/ /\ UNCHANGED <<n, latest>>
               /\ draft' = NoDraft
<1> USE DEF Sampler, BeginSample, Publish, dutVars, trackerVars, callVars
<1>1. CASE SampleDown
  BY <1>1 DEF SampleDown
<1>2. CASE SampleBgp
  BY <1>2 DEF SampleBgp, Versioned
<1>3. CASE SampleRest
  BY <1>3 DEF SampleRest
<1>4. CASE SampleRaises
  BY <1>4 DEF SampleRaises
<1> QED BY <1>1, <1>2, <1>3, <1>4

\* A record fed to the tracker breaks the streak, leaves it, extends it with
\* the same table or opens a new one; only the last two can close the wait.
LEMMA PollFrame ==
  ASSUME Waiter, Poll
  PROVE  /\ UNCHANGED <<table, moves, n, draft, latest, startedAt>>
         /\ pc = "waiting" /\ NewSample /\ last' = latest.tick
         /\ \/ streak' = 0 /\ firstTick' = 0 /\ pc' = pc
            \/ /\ UNCHANGED <<streak, firstTick, lastKey, pc>>
               /\ trouble' => trouble
            \/ /\ streak' = streak + 1 /\ streak # 0
               /\ Versioned(latest) /\ latest.key = lastKey
               /\ UNCHANGED <<firstTick, lastKey>>
               /\ trouble' => trouble
               /\ pc' # pc => streak' >= StableSamples
            \/ /\ streak' = 1 /\ firstTick' = latest.tick
               /\ Versioned(latest) /\ lastKey' = latest.key
               /\ trouble' => firstTick' = firstTick
               /\ pc' # pc => streak' >= StableSamples
<1> USE DEF Waiter, Poll, dutVars, samplerVars
<1>1. CASE FeedInconclusive(latest) /\ UNCHANGED pc
  <2>1. CASE FeedReadFailed(latest)
    BY <2>1, <1>1 DEF FeedReadFailed, Remembers, ShowsTrouble
  <2>2. CASE ~FeedReadFailed(latest)
    BY <2>2, <1>1 DEF FeedInconclusive, FeedDown, FeedBusy, FeedNoVersion,
                      FeedSessionsDown, StreakBroken
  <2> QED BY <2>1, <2>2
<1>2. CASE FeedSettled(latest) /\ pc' = IF Confirmed' THEN "asking" ELSE pc
  <2>1. trouble' => trouble /\ firstTick' = firstTick
    BY <1>2 DEF FeedSettled, Remembers, ShowsTrouble, Busy
  <2>2. Versioned(latest)
    BY <1>2 DEF FeedSettled, Versioned
  <2>3. pc' # pc => streak' >= StableSamples
    BY <1>2 DEF Confirmed
  <2>4. CASE SameTable(latest) /\ streak # 0
    BY <1>2, <2>1, <2>2, <2>3, <2>4 DEF FeedSettled, SameTable
  <2>5. CASE SameTable(latest) /\ streak = 0
    BY <1>2, <2>1, <2>2, <2>3, <2>5 DEF FeedSettled
  <2>6. CASE ~SameTable(latest)
    BY <1>2, <2>1, <2>2, <2>3, <2>6 DEF FeedSettled
  <2> QED BY <2>4, <2>5, <2>6
<1> QED BY <1>1, <1>2

\* The rest of the waiter's steps start a wait or end it.
LEMMA WaiterFrame ==
  ASSUME Waiter, ~Poll
  PROVE  /\ UNCHANGED <<table, moves, n, draft, latest>>
         /\ \/ /\ pc' = "waiting" /\ startedAt' = n /\ last' = 0
               /\ streak' = 0 /\ firstTick' = 0 /\ ~trouble'
            \/ /\ pc' = "done"
               /\ UNCHANGED <<last, startedAt, firstTick, trouble, streak,
                              lastKey>>
  BY Zenon DEF Waiter, StartConverge, Deadline, AskZebra, BeginWait,
               TrackerReset, dutVars, samplerVars, trackerVars

----------------------------------------------------------------------------
(* The inductive invariant *)

\* The two types IInv's arithmetic needs.
LEMMA TickTyped ==
  ASSUME TypeOK
  PROVE  /\ latest.tick \in Nat /\ latest.key \in Int /\ draft.key \in Int
         /\ n \in Nat /\ table \in Nat /\ moves \subseteq Nat
         /\ last \in Nat /\ startedAt \in Nat /\ firstTick \in Nat
         /\ streak \in Nat /\ lastKey \in Int
  BY DEF TypeOK, RecordsOK, CountsOK, Sample, Draft

\* Nothing has been read, fed or moved at the start.
LEMMA InitIInv == Init => IInv
<1> SUFFICES ASSUME Init PROVE IInv
  OBVIOUS
<1>1. TypeOK
  BY InitTyped
<1>2. TicksInv /\ StreakInv
  BY DEF Init, TicksInv, StreakInv, NoSample
<1>3. KeysInv
  BY DEF Init, KeysInv, Versioned, NoSample, NoDraft
<1>4. AskedInv
  BY DEF Init, AskedInv
<1> QED BY <1>1, <1>2, <1>3, <1>4 DEF IInv

\* The router's steps keep IInv: a batch learned after a reading makes the
\* table larger than what was read.
LEMMA DutKeeps == IInv /\ TypeOK' /\ Dut => IInv'
<1> SUFFICES ASSUME IInv, TypeOK', Dut PROVE IInv'
  OBVIOUS
<1> USE DutFrame, TickTyped DEF IInv
<1>1. TicksInv'
  BY DEF TicksInv
<1>2. StreakInv'
  BY DEF StreakInv
<1>3. KeysInv'
  BY DEF KeysInv, TicksInv, StreakInv, UpToNow, Ordered, Versioned
<1>4. AskedInv'
  BY DEF AskedInv, TableHeldStill, TicksInv
<1> QED BY <1>1, <1>2, <1>3, <1>4

\* The sampler's steps keep IInv: what it publishes was read after every
\* reading that is still in use, and before the table as it is now.
LEMMA SamplerKeeps == IInv /\ TypeOK' /\ Sampler => IInv'
<1> SUFFICES ASSUME IInv, TypeOK', Sampler PROVE IInv'
  OBVIOUS
<1> USE SamplerFrame, TickTyped DEF IInv
<1>1. TicksInv'
  BY DEF TicksInv
<1>2. StreakInv'
  BY DEF StreakInv
<1>3. KeysInv'
  BY DEF KeysInv, TicksInv, StreakInv, UpToNow, Ordered, Versioned, NoDraft
<1>4. AskedInv'
  BY DEF AskedInv, TableHeldStill
<1> QED BY <1>1, <1>2, <1>3, <1>4

\* The waiter's steps keep IInv: it extends a streak only with an equal key,
\* and an equal key means that the table held still in between.
LEMMA WaiterKeeps == IInv /\ TypeOK' /\ Waiter => IInv'
<1> SUFFICES ASSUME IInv, TypeOK', Waiter PROVE IInv'
  OBVIOUS
<1> USE TickTyped DEF IInv
<1>1. CASE Poll
  <2> USE <1>1, PollFrame DEF NewSample
  <2>1. TicksInv'
    BY DEF TicksInv
  <2>2. CASE streak' = 0 /\ firstTick' = 0 /\ pc' = pc
    BY <2>1, <2>2 DEF StreakInv, KeysInv, AskedInv, UpToNow, Ordered,
                      Versioned
  <2>3. CASE UNCHANGED <<streak, firstTick, lastKey, pc>> /\ (trouble' => trouble)
    <3>1. StreakInv'
      BY <2>3 DEF StreakInv, TicksInv
    <3>2. KeysInv'
      BY <2>3 DEF KeysInv, UpToNow, Ordered, Versioned
    <3> QED BY <2>1, <2>3, <3>1, <3>2 DEF AskedInv
  <2>4. CASE /\ streak' = streak + 1 /\ streak # 0
             /\ Versioned(latest) /\ latest.key = lastKey
             /\ UNCHANGED <<firstTick, lastKey>>
             /\ trouble' => trouble
             /\ pc' # pc => streak' >= StableSamples
    <3>1. StreakInv'
      <4>1. ~trouble' /\ streak' # 0
        BY <2>4 DEF StreakInv
      <4>2. 0 < firstTick' /\ streak' <= last' - firstTick' + 1
        BY <2>4 DEF StreakInv, TicksInv
      <4>3. last' >= startedAt' + streak' - 2
        <5>1. CASE streak = 1
          BY <2>4, <5>1 DEF StreakInv, TicksInv
        <5>2. CASE streak > 1
          BY <2>4, <5>2 DEF StreakInv, TicksInv
        <5> QED BY <2>4, <5>1, <5>2
      <4> QED BY <4>1, <4>2, <4>3 DEF StreakInv
    <3>2. KeysInv'
      BY <2>4 DEF KeysInv, UpToNow, Ordered, Versioned
    <3>3. AskedInv'
      BY <2>4 DEF AskedInv, TableHeldStill, KeysInv, Ordered
    <3> QED BY <2>1, <3>1, <3>2, <3>3
  <2>5. CASE /\ streak' = 1 /\ firstTick' = latest.tick
             /\ Versioned(latest) /\ lastKey' = latest.key
             /\ trouble' => firstTick' = firstTick
             /\ pc' # pc => streak' >= StableSamples
    <3>1. StreakInv'
      BY <2>5 DEF StreakInv, TicksInv
    <3>2. KeysInv'
      BY <2>5 DEF KeysInv, UpToNow, Ordered, Versioned
    <3>3. AskedInv'
      BY <2>5 DEF AskedInv, TableHeldStill
    <3> QED BY <2>1, <3>1, <3>2, <3>3
  <2> QED BY <2>2, <2>3, <2>4, <2>5
<1>2. CASE ~Poll
  <2> USE <1>2, WaiterFrame
  <2>1. TicksInv'
    BY DEF TicksInv
  <2>2. StreakInv'
    BY DEF StreakInv
  <2>3. KeysInv'
    BY DEF KeysInv, UpToNow, Ordered, Versioned
  <2>4. AskedInv'
    BY DEF AskedInv
  <2> QED BY <2>1, <2>2, <2>3, <2>4
<1> QED BY <1>1, <1>2

\* IInv holds in every reachable state.
THEOREM Inductive == Spec => []IInv
<1>1. IInv /\ [Next]_vars => IInv'
  <2> SUFFICES ASSUME IInv, [Next]_vars PROVE IInv'
    OBVIOUS
  <2>1. CASE Next
    BY <2>1, DutTyped, SamplerTyped, WaiterTyped,
       DutKeeps, SamplerKeeps, WaiterKeeps DEF Next, IInv
  <2>2. CASE UNCHANGED vars
    BY <2>2 DEF IInv, TypeOK, FlagsOK, RecordsOK, CountsOK, StatesOK,
                TicksInv, StreakInv, KeysInv, AskedInv, TableHeldStill,
                UpToNow, Ordered, Versioned,
                vars, dutVars, samplerVars, trackerVars, callVars
  <2> QED BY <2>1, <2>2
<1> QED BY <1>1, InitIInv, PTL DEF Spec

----------------------------------------------------------------------------
(* What the invariant implies *)

\* A candidate for `converged' rests on one table, whatever the number of
\* samples the polling loop missed and however long the streak.
THEOREM ConvergedOnOneTable == Spec => []TableHeldStill
<1>1. IInv => TableHeldStill
  BY DEF IInv, AskedInv, TableHeldStill
<1> QED BY <1>1, Inductive, PTL

\* No sample of a confirmed streak showed trouble.
THEOREM ConvergedOnCleanSamples == Spec => []StreakIsClean
<1>1. IInv => StreakIsClean
  BY ConvergenceAssumption, TickTyped
  DEF IInv, AskedInv, StreakInv, StreakIsClean
<1> QED BY <1>1, Inductive, PTL

\* A confirmed streak spans StableSamples samples, all but two of them read
\* after the wait began.
THEOREM ConvergedOnFreshSamples == Spec => []FreshEvidence
<1>1. IInv => FreshEvidence
  BY ConvergenceAssumption, TickTyped
  DEF IInv, AskedInv, StreakInv, FreshEvidence
<1> QED BY <1>1, Inductive, PTL

----------------------------------------------------------------------------
(* A failure is explained *)

\* A record that does not close the wait leaves a reason behind, or the key
\* of a summary without a tableVersion.
LEMMA FeedLeavesReason ==
  ASSUME TypeOK, Poll, pc' = "waiting"
  PROVE  reason' # NoReason \/ lastKey' = NoVersion
<1> USE DEF NoReason
<1>1. CASE FeedInconclusive(latest)
  BY <1>1 DEF FeedInconclusive, FeedDown, FeedReadFailed, FeedBusy,
              FeedNoVersion, FeedSessionsDown
<1>2. CASE FeedSettled(latest) /\ pc' = IF Confirmed' THEN "asking" ELSE pc
  <2>1. ~Confirmed'
    BY <1>2
  <2>2. streak' \in Nat
    BY <1>2 DEF FeedSettled, TypeOK, CountsOK
  <2>3. \/ streak' < StableSamples
        \/ streak' >= StableSamples /\ RequireQuiet /\ ~fibSeen'
    BY <2>1, <2>2, ConvergenceAssumption DEF Confirmed
  <2> QED BY <1>2, <2>3 DEF FeedSettled
<1> QED BY <1>1, <1>2 DEF Poll

\* A wait that failed says what blocked it: _converge's own reason survives
\* the tracker's reset (H-53), and the tracker's last word fills in when
\* zebra never overruled a candidate.
THEOREM FailureExplained == Spec => []FailureIsExplained
<1>1. Init => ExplainInv
  BY DEF Init, ExplainInv
<1>2. TypeOK /\ ExplainInv /\ [Next]_vars => ExplainInv'
  <2> SUFFICES ASSUME TypeOK, ExplainInv, [Next]_vars PROVE ExplainInv'
    OBVIOUS
  <2> USE DEF ExplainInv, NoReason
  <2>1. CASE pc # "done" /\ Dut
    BY <2>1, DutFrame DEF Dut, callVars
  <2>2. CASE pc # "done" /\ Sampler
    BY <2>2 DEF Sampler, callVars, trackerVars
  <2>3. CASE pc # "done" /\ StartConverge
    BY <2>3 DEF StartConverge, BeginWait
  <2>4. CASE pc # "done" /\ Poll
    <3>1. pc' \in {"waiting", "asking"} /\ UNCHANGED <<verdict, sticky, fibDetail>>
      BY <2>4 DEF Poll
    <3> QED BY <2>4, <3>1, FeedLeavesReason
  <2>5. CASE pc # "done" /\ Deadline
    BY <2>5 DEF Deadline, trackerVars
  <2>6. CASE pc # "done" /\ AskZebra
    BY <2>6 DEF AskZebra, BeginWait, trackerVars
  <2>7. CASE UNCHANGED vars
    BY <2>7 DEF vars, callVars, trackerVars
  <2> QED BY <2>1, <2>2, <2>3, <2>4, <2>5, <2>6, <2>7 DEF Next, Waiter
<1>3. ExplainInv => FailureIsExplained
  BY DEF ExplainInv, FailureIsExplained, BlockedBy
<1> QED BY <1>1, <1>2, <1>3, TypeCorrect, PTL DEF Spec

----------------------------------------------------------------------------
(* Convergence implements Gate *)

\* A verdict ends the call.
VerdictEnds == verdict # "none" => pc = "done"

LEMMA VerdictEndsAlways == Spec => []VerdictEnds
<1>1. Init => VerdictEnds
  BY DEF Init, VerdictEnds
<1>2. VerdictEnds /\ [Next]_vars => VerdictEnds'
  BY DEF VerdictEnds, Next, Dut, Sampler, Waiter, StartConverge, Poll,
         Deadline, AskZebra, BeginWait, vars, callVars
<1> QED BY <1>1, <1>2, PTL DEF Spec

\* The initial states are Gate's.
LEMMA InitImplements == Init => G!Init
  BY DEF Init, G!Init, G!NotBegun, G!NoStretch, PointedAt

\* The router's steps are Gate's TableMoves, or nothing.
LEMMA DutImplements ==
  ASSUME Dut PROVE G!TableMoves \/ UNCHANGED G!vars
<1>1. UNCHANGED <<n, pc, last, startedAt, firstTick, verdict>>
  BY DutFrame DEF Dut, callVars
<1>2. UNCHANGED <<PointedAt, IF pc = "idle" THEN -1 ELSE startedAt>>
  BY <1>1 DEF PointedAt
<1> QED BY <1>1, <1>2, DutFrame DEF G!TableMoves, G!vars

\* The sampler's steps are Gate's TimePasses, or nothing.
LEMMA SamplerImplements ==
  ASSUME Sampler PROVE G!TimePasses \/ UNCHANGED G!vars
<1>1. UNCHANGED <<moves, pc, last, startedAt, firstTick, verdict>>
  BY SamplerFrame DEF Sampler, callVars
<1>2. UNCHANGED <<PointedAt, IF pc = "idle" THEN -1 ELSE startedAt>>
  BY <1>1 DEF PointedAt
<1>3. n' = n + 1 \/ n' = n
  BY SamplerFrame
<1> QED BY <1>1, <1>2, <1>3 DEF G!TimePasses, G!vars

\* A streak of enough samples fits in front of the present and spans enough.
LEMMA StretchFits ==
  ASSUME NEW first \in Nat, NEW to \in Nat, NEW long \in Nat,
         NEW begun \in Nat, NEW now \in Nat, NEW need \in Nat \ {0},
         long >= need, to <= now,
         0 < first, long <= to - first + 1,
         long > 1 => to >= begun + long - 2
  PROVE  /\ first \in 1..now /\ to \in 1..now
         /\ to - first >= need - 1
         /\ need - 1 > 0 => to >= begun + (need - 1) - 1
  OBVIOUS

\* A poll that confirms the streak is Gate's PointAt: the samples of the
\* streak are a stretch that Gate may point at.  Any other poll is nothing.
LEMMA PollImplements ==
  ASSUME IInv, IInv', VerdictEnds, pc # "done", Waiter, Poll
  PROVE  G!PointAt \/ UNCHANGED G!vars
<1>1. /\ UNCHANGED <<moves, n, startedAt, verdict>>
      /\ pc = "waiting" /\ verdict = "none"
      /\ pc' \in {"waiting", "asking"}
  BY PollFrame DEF VerdictEnds, Poll
<1>2. CASE pc' = "waiting"
  BY <1>1, <1>2 DEF G!vars, PointedAt
<1>3. CASE pc' = "asking"
  <2> DEFINE s == [from |-> firstTick', to |-> last']
  <2>1. /\ n \in Nat /\ last' \in Nat /\ firstTick' \in Nat
        /\ streak' \in Nat /\ startedAt \in Nat /\ latest'.tick \in Nat
    BY TickTyped, <1>1 DEF IInv, TypeOK, CountsOK, RecordsOK, Sample
  <2>2. streak' >= StableSamples
    BY <1>3 DEF IInv, AskedInv
  <2>3. streak' > 0
    BY <2>1, <2>2, ConvergenceAssumption
  <2>4. last' <= n
    <3>1. last' <= latest'.tick /\ latest'.tick <= n
      BY <1>1 DEF IInv, TicksInv
    <3> QED BY <3>1, <2>1
  <2>5. /\ 0 < firstTick' /\ streak' <= last' - firstTick' + 1
        /\ streak' > 1 => last' >= startedAt + streak' - 2
    <3>1. StreakInv'
      BY DEF IInv
    <3> QED BY <1>1, <2>1, <2>3, <3>1, Zenon DEF StreakInv
  <2>6. G!Still(s)
    BY <1>1, <1>3 DEF IInv, AskedInv, TableHeldStill, G!Still
  <2>7. /\ firstTick' \in 1..n /\ last' \in 1..n
        /\ last' - firstTick' >= StableSamples - 1
        /\ StableSamples - 1 > 0
              => last' >= startedAt + (StableSamples - 1) - 1
    BY <2>1, <2>2, <2>3, <2>4, <2>5, ConvergenceAssumption, StretchFits
  <2>8. G!LongEnough(s) /\ G!OfThisWait(s)
    BY <1>1, <1>3, <2>4, <2>7 DEF G!LongEnough, G!OfThisWait
  <2>9. PointedAt' = s /\ PointedAt = G!NoStretch
    BY <1>1, <1>3 DEF PointedAt, G!NoStretch
  <2>10. /\ (IF pc = "idle" THEN -1 ELSE startedAt) = startedAt
         /\ (IF pc' = "idle" THEN -1 ELSE startedAt') = startedAt
    BY <1>1, <1>3
  <2> HIDE DEF s
  <2>11. \E from, to \in 1..n :
           LET t == [from |-> from, to |-> to] IN
           /\ G!Still(t) /\ G!LongEnough(t) /\ G!OfThisWait(t)
           /\ PointedAt' = t
    BY <2>6, <2>7, <2>8, <2>9, Zenon DEF s
  <2> QED BY <1>1, <2>1, <2>9, <2>10, <2>11 DEF G!PointAt, G!NotBegun
<1> QED BY <1>1, <1>2, <1>3

\* The waiter's other steps begin a wait, give up, or act on zebra's answer.
LEMMA WaiterImplements ==
  ASSUME IInv, VerdictEnds, pc # "done", Waiter, ~Poll
  PROVE  G!Begin \/ G!GiveUp \/ G!Open \/ G!Overrule
<1>1. UNCHANGED <<n, moves>> /\ verdict = "none"
  BY WaiterFrame DEF VerdictEnds
<1> USE DEF G!NotBegun, G!NoStretch, PointedAt
<1>2. CASE StartConverge
  BY <1>1, <1>2 DEF StartConverge, BeginWait, G!Begin
<1>3. CASE Deadline
  <2>1. startedAt \in Nat
    BY DEF IInv, TypeOK, CountsOK
  <2> QED BY <1>1, <1>3, <2>1 DEF Deadline, G!GiveUp
<1>4. CASE AskZebra
  <2>1. firstTick \in Nat /\ startedAt \in Nat
    BY DEF IInv, TypeOK, CountsOK
  <2>2. PointedAt # G!NoStretch
    <3>1. pc = "asking"
      BY <1>4 DEF AskZebra
    <3> QED BY <2>1, <3>1
  <2>3. CASE Agrees(fibDetail')
    BY <1>1, <1>4, <2>2, <2>3 DEF AskZebra, G!Open, trackerVars
  <2>4. CASE ~Agrees(fibDetail')
    BY <1>1, <1>4, <2>2, <2>4 DEF AskZebra, BeginWait, G!Overrule
  <2> QED BY <2>3, <2>4
<1> QED BY <1>2, <1>3, <1>4 DEF Waiter

\* Convergence implements Gate, for every number of stable samples and every
\* schedule of the three threads: `converged' is only said of a stretch of
\* this wait in which the table held still.
THEOREM GateImplemented == Spec => ImplementsGate
<1>1. IInv /\ IInv' /\ VerdictEnds /\ [Next]_vars => [G!Next]_(G!vars)
  <2> SUFFICES ASSUME IInv, IInv', VerdictEnds, [Next]_vars
               PROVE  G!Next \/ UNCHANGED G!vars
    OBVIOUS
  <2>1. CASE pc # "done" /\ Dut
    BY <2>1, DutImplements DEF G!Next
  <2>2. CASE pc # "done" /\ Sampler
    BY <2>2, SamplerImplements DEF G!Next
  <2>3. CASE pc # "done" /\ Waiter /\ Poll
    BY <2>3, PollImplements DEF G!Next
  <2>4. CASE pc # "done" /\ Waiter /\ ~Poll
    BY <2>4, WaiterImplements DEF G!Next
  <2>5. CASE UNCHANGED vars
    BY <2>5 DEF vars, dutVars, samplerVars, trackerVars, callVars,
                G!vars, PointedAt
  <2> QED BY <2>1, <2>2, <2>3, <2>4, <2>5 DEF Next
<1> QED BY <1>1, InitImplements, Inductive, VerdictEndsAlways, PTL
        DEF Spec, ImplementsGate, G!Spec
----------------------------------------------------------------------------
(* The gate opens *)

\* Where a sample lies between the slow ones, from one sample to the next.
LEMMA NextTick ==
  ASSUME NEW t \in Nat \ {0}
  PROVE  /\ SinceSlow(t) \in 0..SlowEvery - 1
         /\ SinceSlow(t + 1) \in 0..SlowEvery - 1
         /\ SinceSlow(t + 1) = 0 => SinceSlow(t) = SlowEvery - 1
         /\ SinceSlow(t + 1) # 0 => SinceSlow(t + 1) = SinceSlow(t) + 1
<1> DEFINE q == (t - 1) \div SlowEvery
           r == (t - 1) % SlowEvery
           p == t \div SlowEvery
           s == t % SlowEvery
<1>1. SlowEvery \in Nat \ {0}
  BY ConvergenceAssumption
<1>2. q \in Int /\ r \in 0..SlowEvery - 1 /\ t - 1 = SlowEvery * q + r
  BY <1>1
<1>3. p \in Int /\ s \in 0..SlowEvery - 1 /\ t = SlowEvery * p + s
  BY <1>1
<1>4. SinceSlow(t) = r /\ SinceSlow(t + 1) = s
  <2>1. (t + 1) - 1 = t
    OBVIOUS
  <2> QED BY <2>1 DEF SinceSlow
<1> HIDE DEF q, r, p, s
<1>5. SlowEvery * (p - q) = 1 + r - s
  BY <1>1, <1>2, <1>3, SMT
<1>6. p - q = 0 \/ p - q = 1
  <2>1. p - q > -1
    <3>1. SUFFICES ASSUME p - q <= -1 PROVE FALSE
      BY <1>2, <1>3
    <3>2. SlowEvery * (p - q) <= -SlowEvery
      BY <1>1, <1>2, <1>3, <3>1, SMT
    <3> QED BY <1>1, <1>2, <1>3, <1>5, <3>2
  <2>2. p - q < 2
    <3>1. SUFFICES ASSUME p - q >= 2 PROVE FALSE
      BY <1>2, <1>3
    <3>2. SlowEvery * (p - q) >= 2 * SlowEvery
      BY <1>1, <1>2, <1>3, <3>1, SMT
    <3> QED BY <1>1, <1>2, <1>3, <1>5, <3>2
  <2> QED BY <1>2, <1>3, <2>1, <2>2
<1>7. CASE p - q = 0
  <2>1. s = r + 1
    BY <1>1, <1>2, <1>3, <1>5, <1>7
  <2> QED BY <1>2, <1>3, <1>4, <2>1
<1>8. CASE p - q = 1
  <2>1. s = 0 /\ r = SlowEvery - 1
    BY <1>1, <1>2, <1>3, <1>5, <1>8
  <2> QED BY <1>2, <1>3, <1>4, <2>1
<1> QED BY <1>6, <1>7, <1>8

\* A record that is calm still shows the router, whoever moves.
LEMMA CalmKept ==
  ASSUME TypeOK, CalmInv, [Next]_vars
  PROVE  CalmInv'
<1>1. CASE Dut
  BY <1>1 DEF Dut, CalmInv
<1>2. CASE Sampler
  <2> USE <1>2 DEF Sampler, BeginSample, Publish, dutVars, CalmInv
  <2>1. CASE SampleDown
    BY <2>1 DEF SampleDown
  <2>2. CASE SampleBgp
    BY <2>2 DEF SampleBgp
  <2>3. CASE SampleRest
    <3>1. PICK queued \in IF alive /\ Slow /\ installs < offered
                            THEN BOOLEAN ELSE {FALSE},
               zebraOk \in IF alive /\ Slow THEN BOOLEAN ELSE {FALSE} :
            /\ latest' = [tick |-> n, down |-> FALSE, readOk |-> draft.readOk,
                     key |-> draft.key, sessions |-> draft.sessions,
                     cpuBusy |-> alive /\ cpuBusy, queued |-> queued,
                     installs |-> IF zebraOk THEN installs ELSE Absent]
            /\ calmLatest' = (calmDraft /\ (Slow => zebraOk))
      BY <2>3 DEF SampleRest
    <3>2. ~calmDraft'
      BY <2>3 DEF SampleRest
    <3>3. SUFFICES ASSUME calmLatest'
                   PROVE  /\ ~latest'.down /\ latest'.readOk
                          /\ latest'.key = table' /\ latest'.sessions = sessions'
                          /\ latest'.cpuBusy => cpuBusy'
                          /\ latest'.queued => installs' < offered'
                          /\ latest'.installs =
                               IF SinceSlow(latest'.tick) = 0 THEN installs' ELSE Absent
      BY <3>2
    <3>4. calmDraft /\ (Slow => zebraOk)
      BY <3>1, <3>3
    <3>5. draft.readOk /\ draft.key = table /\ draft.sessions = sessions
      BY <3>4
    <3>6. SinceSlow(latest'.tick) = 0 <=> Slow
      BY <3>1 DEF SinceSlow, Slow
    <3>7. /\ latest'.down = FALSE /\ latest'.readOk = draft.readOk
          /\ latest'.key = draft.key /\ latest'.sessions = draft.sessions
          /\ latest'.cpuBusy = (alive /\ cpuBusy) /\ latest'.queued = queued
          /\ latest'.installs = IF zebraOk THEN installs ELSE Absent
      BY <3>1
    <3>8. zebraOk => Slow
      BY <3>1
    <3>9. queued => installs < offered
      BY <3>1
    <3> QED BY <3>4, <3>5, <3>6, <3>7, <3>8, <3>9
  <2>4. CASE SampleRaises
    BY <2>4 DEF SampleRaises
  <2> QED BY <2>1, <2>2, <2>3, <2>4
<1>3. CASE Waiter
  BY <1>3 DEF Waiter, dutVars, samplerVars, CalmInv
<1>4. CASE UNCHANGED vars
  BY <1>4 DEF vars, dutVars, samplerVars, CalmInv
<1> QED BY <1>1, <1>2, <1>3, <1>4 DEF Next

\* What a calm record of a settled router does to the tracker: it extends the
\* streak or opens one on the router's table, unless it is a slow one that
\* shows a counter the tracker has not seen.
LEMMA CalmFeed ==
  ASSUME TypeOK, CalmInv, Poll, calmLatest, SettledDut
  PROVE  LET slow == SinceSlow(latest.tick) = 0 IN
         /\ RequireQuiet /\ slow => lastInstalls' = installs
         /\ ~(RequireQuiet /\ slow) => lastInstalls' = lastInstalls
         /\ \/ /\ lastKey' = table /\ streak' >= 1
               /\ lastKey = table => /\ streak' = streak + 1
                                     /\ fibSeen => fibSeen'
                                     /\ RequireQuiet /\ slow /\ lastInstalls = installs
                                          => fibSeen'
            \/ /\ RequireQuiet /\ slow /\ lastInstalls # installs
               /\ streak' = 0 /\ lastKey' = lastKey
<1>1. /\ ~latest.down /\ latest.readOk /\ latest.key = table /\ latest.sessions
      /\ ~latest.cpuBusy /\ ~latest.queued
      /\ latest.installs = IF SinceSlow(latest.tick) = 0 THEN installs ELSE Absent
  <2>1. latest.sessions
    BY Zenon DEF CalmInv, SettledDut
  <2>2. ~latest.queued
    BY DEF CalmInv, SettledDut, TypeOK, CountsOK
  <2> QED BY <2>1, <2>2, Zenon DEF CalmInv, SettledDut
<1>2. table \in Nat /\ installs \in Nat /\ streak \in Nat
  BY DEF TypeOK, CountsOK
<1>3. table # NoVersion /\ installs # Absent
  BY <1>2 DEF NoVersion, Absent
<1>4. ReadsInstalls(latest) <=> RequireQuiet /\ SinceSlow(latest.tick) = 0
  BY <1>1, <1>3 DEF ReadsInstalls
<1>5. CASE FeedSettled(latest)
  <2>1. lastInstalls' = IF ReadsInstalls(latest) THEN latest.installs ELSE lastInstalls
    BY <1>5 DEF FeedSettled, NotesInstalls
  <2>2. lastKey' = table
    BY <1>1, <1>5 DEF FeedSettled
  <2>3. streak' = IF lastKey = table THEN streak + 1 ELSE 1
    BY <1>1, <1>5 DEF FeedSettled, SameTable
  <2>4. lastKey = table => fibSeen' = (fibSeen \/ SawFib(latest))
    BY <1>1, <1>5 DEF FeedSettled, SameTable
  <2>5. RequireQuiet /\ SinceSlow(latest.tick) = 0 /\ lastInstalls = installs
          => SawFib(latest)
    BY <1>1, <1>4 DEF SawFib
  <2>6. lastKey = table => /\ fibSeen => fibSeen'
                           /\ SawFib(latest) => fibSeen'
    BY <2>4, Zenon
  <2>7. streak' >= 1 /\ (lastKey = table => streak' = streak + 1)
    BY <1>2, <2>3
  <2>8. /\ RequireQuiet /\ SinceSlow(latest.tick) = 0 => lastInstalls' = installs
        /\ ~(RequireQuiet /\ SinceSlow(latest.tick) = 0)
             => lastInstalls' = lastInstalls
    BY <1>1, <1>4, <2>1
  <2> QED BY <2>2, <2>5, <2>6, <2>7, <2>8, Zenon
<1>6. CASE FeedInconclusive(latest)
  <2>1. FeedBusy(latest)
    BY <1>1, <1>3, <1>6 DEF FeedInconclusive, FeedDown, FeedReadFailed,
                            FeedNoVersion, FeedSessionsDown
  <2>2. InstallsMoved(latest)
    BY <1>1, <2>1 DEF FeedBusy, Busy
  <2>3. ReadsInstalls(latest) /\ lastInstalls # latest.installs
    BY <2>2 DEF InstallsMoved
  <2> QED BY <1>1, <1>4, <2>1, <2>3 DEF FeedBusy, NotesInstalls, StreakBroken
<1> QED BY <1>5, <1>6 DEF Poll

\* While the loop polls it has not seen enough.
LEMMA WaitingKept ==
  ASSUME TypeOK, pc = "waiting" => ~Confirmed, [Next]_vars, pc' = "waiting"
  PROVE  ~Confirmed'
<1>1. CASE Dut \/ Sampler
  BY <1>1 DEF Dut, Sampler, callVars, trackerVars, Confirmed
<1>2. CASE Waiter /\ Poll
  <2>1. pc = "waiting"
    BY <1>2 DEF Poll
  <2>2. CASE FeedReadFailed(latest)
    BY <2>1, <2>2 DEF FeedReadFailed, Confirmed
  <2>3. CASE FeedInconclusive(latest) /\ ~FeedReadFailed(latest)
    <3>1. streak' = 0
      BY <2>3 DEF FeedInconclusive, FeedDown, FeedBusy, FeedNoVersion,
                  FeedSessionsDown, StreakBroken
    <3> QED BY <3>1, ConvergenceAssumption DEF Confirmed
  <2>4. CASE FeedSettled(latest) /\ pc' = IF Confirmed' THEN "asking" ELSE pc
    BY <2>4
  <2> QED BY <1>2, <2>2, <2>3, <2>4 DEF Poll
<1>3. CASE Waiter /\ ~Poll
  <2>1. streak' = 0
    BY <1>3 DEF Waiter, StartConverge, Deadline, AskZebra, BeginWait,
                TrackerReset
  <2> QED BY <2>1, ConvergenceAssumption DEF Confirmed
<1>4. CASE UNCHANGED vars
  BY <1>4 DEF vars, callVars, trackerVars, Confirmed
<1> QED BY <1>1, <1>2, <1>3, <1>4 DEF Next

\* A record fed to the tracker: it does not count, it is the first of a row,
\* or it follows the one before.
LEMMA RowGrows ==
  ASSUME TypeOK, TicksInv, CalmInv, PromptInv, Waiter, Poll,
         calmFed' > 0, SettledDut'
  PROVE  SeenInARow'
<1>1. UNCHANGED dutVars /\ last' = latest.tick /\ latest.tick # 0
  BY DEF Waiter, Poll, NewSample
<1>2. SettledDut /\ installs' = installs /\ table' = table
  BY <1>1 DEF dutVars, SettledDut
<1>3. calmLatest /\ calmFed' = IF last + 1 = latest.tick THEN calmFed + 1 ELSE 1
  BY DEF Poll, Remembers
<1>4. /\ latest.tick \in Nat /\ last \in Nat /\ calmFed \in Nat /\ streak \in Nat
      /\ SlowEvery \in Nat \ {0} /\ installs \in Nat
      /\ calmFed' \in Nat
  BY <1>3, ConvergenceAssumption DEF TypeOK, RecordsOK, CountsOK, Sample
<1> DEFINE slow == SinceSlow(latest.tick) = 0
<1>5. /\ RequireQuiet /\ slow => lastInstalls' = installs
      /\ ~(RequireQuiet /\ slow) => lastInstalls' = lastInstalls
      /\ \/ /\ lastKey' = table /\ streak' >= 1
            /\ lastKey = table => /\ streak' = streak + 1
                                  /\ fibSeen => fibSeen'
                                  /\ RequireQuiet /\ slow /\ lastInstalls = installs
                                       => fibSeen'
         \/ /\ RequireQuiet /\ slow /\ lastInstalls # installs
            /\ streak' = 0 /\ lastKey' = lastKey
  BY <1>2, <1>3, CalmFeed
<1>6. streak' \in Int
  <2>1. streak' \in {0, 1, streak, streak + 1}
    BY Zenon DEF Poll, FeedInconclusive, FeedDown, FeedReadFailed, FeedBusy,
                 FeedNoVersion, FeedSessionsDown, FeedSettled, StreakBroken
  <2> QED BY <1>4, <2>1
<1>7. Larger(SlowEvery, 2) \in Nat /\ Larger(SlowEvery, 2) >= SlowEvery
      /\ Larger(SlowEvery, 2) >= 2
  BY <1>4 DEF Larger
<1> DEFINE since == SinceSlow(latest.tick)
           before == SinceSlow(last)
           two == Larger(SlowEvery, 2)
<1>8. CASE calmFed' = 1
  <2>1. since \in 0..SlowEvery - 1
    <3>1. latest.tick \in Nat \ {0}
      BY <1>1, <1>4
    <3> QED BY <3>1, NextTick
  <2>2. ~(1 > since + two)
    BY <1>4, <1>7, <2>1
  <2>3. 1 > since => slow
    BY <1>4, <2>1
  <2>4. streak' >= 1 - SlowEvery
    BY <1>4, <1>5, <1>6
  <2> QED BY <1>1, <1>2, <1>4, <1>5, <1>8, <2>2, <2>3, <2>4 DEF SeenInARow
<1>9. CASE calmFed' # 1
  <2>1. calmFed > 0 /\ latest.tick = last + 1 /\ calmFed' = calmFed + 1
    BY <1>3, <1>4, <1>9
  <2>2. /\ last > 0
        /\ streak >= calmFed - SlowEvery
        /\ \/ lastKey = table
           \/ calmFed = 1 /\ RequireQuiet /\ lastInstalls = installs
        /\ RequireQuiet =>
             /\ calmFed > before => lastInstalls = installs
             /\ calmFed > before + two => fibSeen
    BY <1>2, <2>1 DEF PromptInv, SeenInARow
  <2>3. /\ before \in 0..SlowEvery - 1 /\ since \in 0..SlowEvery - 1
        /\ slow => before = SlowEvery - 1
        /\ ~slow => since = before + 1
    <3>1. last \in Nat \ {0}
      BY <1>4, <2>2
    <3> QED BY <2>1, <3>1, NextTick
  <2> HIDE DEF since, before, two
  <2>4. lastKey' = table
    BY <1>5, <2>2
  <2>5. RequireQuiet /\ calmFed' > since => lastInstalls' = installs
    <3>1. RequireQuiet /\ ~slow /\ calmFed' > since => calmFed > before
      BY <1>4, <2>1, <2>3
    <3> QED BY <1>5, <2>2, <3>1
  <2>6. streak' >= calmFed' - SlowEvery
    <3>1. CASE streak' = 0 /\ RequireQuiet /\ slow /\ lastInstalls # installs
      <4>1. ~(calmFed > before)
        BY <2>2, <3>1
      <4> QED BY <1>4, <2>1, <2>3, <3>1, <4>1
    <3>2. CASE lastKey = table /\ streak' = streak + 1
      BY <1>4, <2>1, <2>2, <3>2
    <3>3. CASE lastKey # table /\ streak' >= 1
      <4>1. calmFed = 1
        BY <2>2, <3>3
      <4> QED BY <1>4, <1>6, <2>1, <3>3, <4>1
    <3> QED BY <1>5, <3>1, <3>2, <3>3
  <2>7. RequireQuiet /\ calmFed' > since + two => fibSeen'
    <3> SUFFICES ASSUME RequireQuiet, calmFed' > since + two PROVE fibSeen'
      OBVIOUS
    <3>1. two \in Nat /\ two >= SlowEvery /\ two >= 2
      BY <1>7 DEF two
    <3>2. calmFed >= 2
      BY <1>4, <2>1, <2>3, <3>1
    <3>3. lastKey = table
      BY <1>4, <2>2, <3>2
    <3>4. CASE slow
      <4>1. calmFed > before
        <5>1. since = 0
          BY <3>4 DEF since
        <5> QED BY <1>4, <2>1, <2>3, <3>1, <3>4, <5>1
      <4> QED BY <1>5, <2>2, <3>3, <3>4, <4>1
    <3>5. CASE ~slow
      <4>1. calmFed > before + two
        BY <1>4, <2>1, <2>3, <3>1, <3>5
      <4> QED BY <1>5, <2>2, <3>3, <3>5, <4>1
    <3> QED BY <3>4, <3>5
  <2> QED BY <1>1, <1>2, <1>4, <2>1, <2>4, <2>5, <2>6, <2>7
         DEF SeenInARow, since, two
<1> QED BY <1>8, <1>9

\* PromptInv is kept by everybody's steps.
LEMMA PromptKept ==
  ASSUME TypeOK, TicksInv, CalmInv, PromptInv, [Next]_vars
  PROVE  PromptInv'
<1>1. pc' = "waiting" => ~Confirmed'
  BY WaitingKept DEF PromptInv
<1>2. CASE Dut
  BY <1>1, <1>2 DEF Dut, PromptInv
<1>3. CASE Sampler \/ (Waiter /\ Deadline)
  BY <1>1, <1>3 DEF Sampler, Waiter, Deadline, dutVars, trackerVars, callVars,
                    PromptInv, SettledDut, SeenInARow
<1>4. CASE Waiter /\ Poll
  <2>1. ASSUME calmFed' > 0, SettledDut' PROVE SeenInARow'
    BY <1>4, <2>1, RowGrows
  <2> QED BY <1>1, <2>1, Zenon DEF PromptInv
<1>5. CASE Waiter /\ (StartConverge \/ AskZebra)
  <2>1. CASE BeginWait
    BY <1>1, <2>1 DEF BeginWait, TrackerReset, PromptInv
  <2>2. CASE UNCHANGED <<dutVars, last, trackerVars>>
    BY <1>1, <2>2 DEF dutVars, trackerVars, PromptInv, SettledDut, SeenInARow
  <2> QED BY <1>5, <2>1, <2>2 DEF Waiter, StartConverge, AskZebra
<1>6. CASE UNCHANGED vars
  BY <1>1, <1>6 DEF vars, dutVars, trackerVars, callVars, PromptInv,
              SettledDut, SeenInARow
<1> QED BY <1>2, <1>3, <1>4, <1>5, <1>6 DEF Next, Waiter

\* The gate opens: in a router that is settled, however many samples apart
\* the slow ones are and however long the streak has to be, a waiter that
\* misses no sample does not wait for more than GateOpensWithin says.
THEOREM GateOpens == Spec => []PromptVerdict
<1>1. Init => CalmInv /\ PromptInv
  <2> SUFFICES ASSUME Init PROVE CalmInv /\ PromptInv
    OBVIOUS
  <2>1. ~calmDraft /\ ~calmLatest /\ pc # "waiting" /\ ~(calmFed > 0)
    BY DEF Init
  <2> QED BY <2>1, Zenon DEF CalmInv, PromptInv
<1>2. TypeOK /\ TicksInv /\ CalmInv /\ PromptInv /\ [Next]_vars
        => CalmInv' /\ PromptInv'
  BY CalmKept, PromptKept
<1>3. TypeOK /\ PromptInv => PromptVerdict
  <2> SUFFICES ASSUME TypeOK, PromptInv, pc = "waiting", SettledDut,
                      calmFed >= GateOpensWithin
               PROVE  FALSE
    BY ConvergenceAssumption
       DEF PromptVerdict, TypeOK, CountsOK, GateOpensWithin, Larger
  <2> DEFINE two == Larger(SlowEvery, 2)
  <2>1. /\ calmFed \in Nat /\ last \in Nat /\ streak \in Nat
        /\ SlowEvery \in Nat \ {0} /\ StableSamples \in Nat \ {0}
    BY ConvergenceAssumption DEF TypeOK, CountsOK
  <2>2. two \in Nat /\ two >= 2
    BY <2>1 DEF Larger
  <2>3. calmFed >= SlowEvery + StableSamples /\ calmFed >= SlowEvery + two
    BY <2>1, <2>2 DEF GateOpensWithin, Larger
  <2>4. /\ last > 0 /\ streak >= calmFed - SlowEvery
        /\ RequireQuiet /\ calmFed > SinceSlow(last) + two => fibSeen
    BY <2>1, <2>2, <2>3 DEF PromptInv, SeenInARow
  <2>5. SinceSlow(last) \in 0..SlowEvery - 1
    <3>1. last \in Nat \ {0}
      BY <2>1, <2>4
    <3> QED BY <3>1, NextTick
  <2> HIDE DEF two
  <2>6. Confirmed
    <3>1. streak >= StableSamples
      BY <2>1, <2>3, <2>4
    <3>2. RequireQuiet => fibSeen
      BY <2>1, <2>2, <2>3, <2>4, <2>5
    <3> QED BY <3>1, <3>2 DEF Confirmed
  <2> QED BY <2>6 DEF PromptInv
<1>4. IInv => TypeOK /\ TicksInv
  BY DEF IInv
<1> QED BY <1>1, <1>2, <1>3, <1>4, Inductive, PTL DEF Spec
=============================================================================
