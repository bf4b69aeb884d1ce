--------------------------- MODULE ProbingProofs ---------------------------
(***************************************************************************)
(* Proofs about Probing, for every set of probes and cases and every       *)
(* behaviour of the router towards them.                                   *)
(***************************************************************************)
EXTENDS Probing, SequenceTheorems, TLAPS

----------------------------------------------------------------------------
(* Types *)

\* Announcements and withdrawals are lines.
LEMMA LinesTyped ==
  /\ \A items \in SUBSET Items :
       Announce(items) \subseteq Commands /\ Withdraw(items) \subseteq Commands
  /\ \A i \in Items : /\ [op |-> "announce", item |-> i] \in Commands
                      /\ [op |-> "withdraw", item |-> i] \in Commands
  BY DEF Announce, Withdraw, Commands

\* A write adds one batch of lines to the FIFO or is lost.
LEMMA SendTyped ==
  ASSUME TypeOK, NEW lines \in SUBSET Commands, Send(lines)
  PROVE  /\ pipe' \in Seq(SUBSET Commands) /\ late' = late
         /\ upsets' \in Nat /\ mishap' \in BOOLEAN
         /\ pipe' = pipe \/ pipe' = Append(pipe, lines)
<1>1. /\ pipe \in Seq(SUBSET Commands) /\ upsets \in Nat
      /\ mishap \in BOOLEAN
  BY DEF TypeOK, ExabgpOK, HarnessOK
<1>2. Append(pipe, lines) \in Seq(SUBSET Commands)
  BY <1>1, AppendProperties
<1>3. upsets + 1 \in Nat
  BY <1>1
<1> QED BY <1>1, <1>2, <1>3, Zenon DEF Send, Mishap, Upset, channelVars

\* A write of one line may also be kept for later.
LEMMA SendOneTyped ==
  ASSUME TypeOK, NEW line \in Commands, SendOne(line)
  PROVE  /\ pipe' \in Seq(SUBSET Commands) /\ late' \subseteq Commands
         /\ upsets' \in Nat /\ mishap' \in BOOLEAN
         /\ pipe' = pipe \/ pipe' = Append(pipe, {line})
         /\ late' \subseteq late \cup {line}
<1>1. /\ pipe \in Seq(SUBSET Commands) /\ upsets \in Nat
      /\ mishap \in BOOLEAN /\ late \subseteq Commands
  BY DEF TypeOK, ExabgpOK, HarnessOK
<1>2. CASE Send({line})
  BY <1>1, <1>2, SendTyped
<1>3. CASE Mishap /\ late' = late \cup {line} /\ UNCHANGED pipe
  <2>1. upsets' \in {upsets, upsets + 1}
    BY <1>3, Zenon DEF Mishap, Upset
  <2>2. mishap' \in BOOLEAN
    BY <1>1, <1>3, Zenon DEF Mishap
  <2> QED BY <1>1, <1>3, <2>1, <2>2
<1> QED BY <1>2, <1>3 DEF SendOne

\* Serving one line takes it out of the first write and shifts the others.
LEMMA ServeFrame ==
  ASSUME TypeOK, NEW p \in Processes, ServeFifo(p)
  PROVE  \E line \in Commands :
           /\ Len(pipe) > 0 /\ line \in pipe[1]
           /\ rib' = [rib EXCEPT ![p] = Obey(rib[p], line)]
           /\ pipe' \in Seq(SUBSET Commands)
           /\ \/ /\ Len(pipe') = Len(pipe) - 1
                 /\ pipe[1] = {line}
                 /\ \A k \in 1..Len(pipe') : pipe'[k] = pipe[k + 1]
              \/ /\ Len(pipe') = Len(pipe)
                 /\ \A k \in 1..Len(pipe') :
                      pipe'[k] = IF k = 1 THEN pipe[1] \ {line} ELSE pipe[k]
<1>1. pipe \in Seq(SUBSET Commands) /\ pipe # <<>>
  BY DEF TypeOK, ExabgpOK, ServeFifo
<1>2. Len(pipe) \in Nat /\ Len(pipe) > 0
  BY <1>1, EmptySeq, LenProperties
<1>3. Head(pipe) = pipe[1] /\ pipe[1] \in SUBSET Commands
  BY <1>1, <1>2, HeadTailProperties, ElementOfSeq
<1>4. PICK line \in Head(pipe) :
        /\ rib' = [rib EXCEPT ![p] = Obey(rib[p], line)]
        /\ pipe' = IF Head(pipe) \ {line} = {} THEN Tail(pipe)
                   ELSE [pipe EXCEPT ![1] = Head(pipe) \ {line}]
  BY DEF ServeFifo
<1>5. line \in Commands /\ line \in pipe[1]
  BY <1>3, <1>4
<1>6. CASE Head(pipe) \ {line} = {}
  <2>1. pipe' = Tail(pipe) /\ pipe[1] = {line}
    BY <1>3, <1>4, <1>6
  <2>2. /\ pipe' \in Seq(SUBSET Commands) /\ Len(pipe') = Len(pipe) - 1
        /\ \A k \in 1..Len(pipe') : pipe'[k] = pipe[k + 1]
    BY <1>1, <2>1, HeadTailProperties
  <2> QED BY <1>2, <1>4, <1>5, <2>1, <2>2
<1>7. CASE Head(pipe) \ {line} # {}
  <2>1. pipe' = [pipe EXCEPT ![1] = pipe[1] \ {line}]
    BY <1>3, <1>4, <1>7
  <2>2. pipe[1] \ {line} \in SUBSET Commands /\ 1 \in 1..Len(pipe)
    BY <1>2, <1>3
  <2>3. /\ pipe' \in Seq(SUBSET Commands) /\ Len(pipe') = Len(pipe)
        /\ \A k \in 1..Len(pipe') :
             pipe'[k] = IF k = 1 THEN pipe[1] \ {line} ELSE pipe[k]
    BY <1>1, <2>1, <2>2, ExceptSeq
  <2> QED BY <1>2, <1>4, <1>5, <2>3
<1> QED BY <1>6, <1>7

\* Sessions going down keeps the types.
LEMMA DropTyped ==
  ASSUME TypeOK, NEW fs, SessionsDrop(fs)
  PROVE  /\ owner' \in [Families -> Processes \cup {NoProcess}]
         /\ moved' \in [Families -> BOOLEAN]
         /\ told' \subseteq Items /\ routes' \subseteq Items
  BY DEF TypeOK, RouterOK, SessionsDrop

\* A process that dies keeps the types.
LEMMA DiesTyped ==
  ASSUME TypeOK, NEW p \in Processes, Dies(p)
  PROVE  /\ procs' \subseteq Processes /\ rib' \in [Processes -> SUBSET Items]
         /\ pipe' \in Seq(SUBSET Commands) /\ RouterOK'
<1>1. pipe' \in Seq(SUBSET Commands)
  BY EmptySeq DEF TypeOK, ExabgpOK, Dies
<1>2. RouterOK'
  BY DropTyped DEF TypeOK, RouterOK, Dies
<1> QED BY <1>1, <1>2 DEF TypeOK, ExabgpOK, Dies

\* ExaBGP's and the router's steps keep the types.
LEMMA EnvironmentTyped == TypeOK /\ Environment => TypeOK'
<1> SUFFICES ASSUME TypeOK, Environment PROVE TypeOK'
  OBVIOUS
<1> USE DEF TypeOK
<1>1. HarnessOK'
  <2>1. upsets' \in {upsets, upsets + 1} /\ mishap' = mishap
    BY Zenon DEF Environment, ServeFifo, LateWrite, Connect, Hear,
       HearWithdrawn, SessionLost, OldProcessDies, Upset
  <2> QED BY <2>1 DEF Environment, HarnessOK, harnessVars, resultVars
<1>2. ASSUME NEW p \in Processes, ServeFifo(p) PROVE ExabgpOK' /\ RouterOK'
  <2>1. PICK line \in Commands :
          /\ rib' = [rib EXCEPT ![p] = Obey(rib[p], line)]
          /\ pipe' \in Seq(SUBSET Commands)
    BY <1>2, ServeFrame
  <2>2. line.item \in Items
    BY DEF Commands, Announce, Withdraw
  <2>3. rib' \in [Processes -> SUBSET Items]
    BY <2>1, <2>2 DEF ExabgpOK, Obey
  <2> QED BY <1>2, <2>1, <2>3 DEF ServeFifo, ExabgpOK, RouterOK, routerVars
<1>3. ASSUME NEW line \in late, LateWrite(line) PROVE ExabgpOK' /\ RouterOK'
  <2>1. Append(pipe, {line}) \in Seq(SUBSET Commands)
    BY AppendProperties DEF ExabgpOK
  <2> QED BY <1>3, <2>1 DEF LateWrite, ExabgpOK, RouterOK, routerVars, exabgpVars
<1>4. ASSUME NEW f \in Families, NEW p \in Processes, Connect(f, p)
      PROVE  ExabgpOK' /\ RouterOK'
  BY <1>4 DEF Connect, ExabgpOK, RouterOK, exabgpVars, channelVars
<1>5. ASSUME NEW i \in Items, Hear(i) PROVE ExabgpOK' /\ RouterOK'
  <2>1. RouterOK'
    <3>1. CASE i \in Resetting
      BY <1>5, <3>1, DropTyped DEF Hear, RouterOK
    <3>2. CASE i \notin Resetting
      BY <1>5, <3>2 DEF Hear, RouterOK
    <3> QED BY <3>1, <3>2
  <2> QED BY <1>5, <2>1 DEF Hear, ExabgpOK, exabgpVars, channelVars
<1>6. ASSUME NEW i \in Items, HearWithdrawn(i) PROVE ExabgpOK' /\ RouterOK'
  BY <1>6 DEF HearWithdrawn, ExabgpOK, RouterOK, exabgpVars, channelVars
<1>7. ASSUME NEW f \in Families, SessionLost(f) PROVE ExabgpOK' /\ RouterOK'
  <2>1. RouterOK'
    BY <1>7, DropTyped DEF SessionLost, RouterOK
  <2> QED BY <1>7, <2>1 DEF SessionLost, ExabgpOK, exabgpVars, channelVars
<1>8. ASSUME OldProcessDies PROVE ExabgpOK' /\ RouterOK'
  BY <1>8, DiesTyped DEF OldProcessDies, ExabgpOK, Processes
<1> QED BY <1>1, <1>2, <1>3, <1>4, <1>5, <1>6, <1>7, <1>8 DEF Environment

\* What a reading of the summaries leaves.
LEMMA ReadTyped ==
  ASSUME TypeOK, NEW fs \in SUBSET Families, ReadsBefore(fs)
  PROVE  /\ beforeKnown' \subseteq Families /\ upsets' \in Nat
         /\ moved' \in [Families -> BOOLEAN]
         /\ culprits' = {} /\ residue' = InTheWay /\ InTheWay \subseteq Items
<1>1. upsets' \in {upsets, upsets + 1} /\ beforeKnown' \subseteq Families
  BY DEF ReadsBefore, Upset
<1>2. InTheWay \subseteq Items
  BY DEF TypeOK, ExabgpOK, InTheWay
<1>3. moved' \in [Families -> BOOLEAN]
  BY Zenon DEF ReadsBefore, TypeOK, RouterOK
<1>4. upsets' \in Nat
  BY <1>1 DEF TypeOK, HarnessOK
<1> QED BY <1>1, <1>2, <1>3, <1>4, Zenon DEF ReadsBefore

\* The harness's steps keep the types.
LEMMA HarnessTyped == TypeOK /\ Harness => TypeOK'
<1> SUFFICES ASSUME TypeOK, Harness PROVE TypeOK'
  OBVIOUS
<1> USE DEF TypeOK, GoTo, resultVars
<1>1. CASE Quiet /\ UNCHANGED <<routerVars, exabgpVars>>
  <2>1. RouterOK'
    BY <1>1 DEF RouterOK, routerVars
  <2>2. CASE ProbeCheck
    <3>1. \/ Send(Announce(Probes)) \/ Send(Withdraw(Probes))
          \/ UNCHANGED <<channelVars, upsets, mishap>>
      BY <2>2, Zenon DEF ProbeCheck, AnnounceProbes, CheckBegins, CheckEnds,
                         WithdrawProbes, WithdrawLines
    <3>2. Probes \subseteq Items
      BY DEF Items
    <3>3. /\ pipe' \in Seq(SUBSET Commands) /\ late' \subseteq Commands
          /\ upsets' \in Nat /\ mishap' \in BOOLEAN
      BY <3>1, <3>2, SendTyped, LinesTyped DEF ExabgpOK, HarnessOK, channelVars
    <3> QED BY <1>1, <2>1, <2>2, <3>3
            DEF ProbeCheck, AnnounceProbes, CheckBegins, CheckEnds,
                WithdrawProbes, ExabgpOK, HarnessOK, exabgpVars
  <2>3. CASE AnnounceCases \/ WithdrawCases
    <3>1. Send(Announce(BurstCases)) \/ Send(Withdraw(BurstCases))
      BY <2>3 DEF AnnounceCases, WithdrawCases, WithdrawLines
    <3>2. /\ BurstCases \subseteq Items
          /\ IsolatedCases \subseteq Cases
      BY ProbingAssumption DEF Items, BurstCases, IsolatedCases
    <3>3. /\ pipe' \in Seq(SUBSET Commands) /\ late' \subseteq Commands
          /\ upsets' \in Nat /\ mishap' \in BOOLEAN
      BY <3>1, <3>2, SendTyped, LinesTyped DEF ExabgpOK
    <3> QED BY <1>1, <2>1, <2>3, <3>2, <3>3
            DEF AnnounceCases, WithdrawCases, ExabgpOK, HarnessOK, exabgpVars
  <2>4. CASE BurstEnds
    <3>1. upsets' \in {upsets, upsets + 1} /\ burstReset' \in BOOLEAN
      BY <2>4, Zenon DEF BurstEnds, Upset
    <3> QED BY <1>1, <2>1, <2>4, <3>1
            DEF BurstEnds, ExabgpOK, HarnessOK, exabgpVars, channelVars
  <2>5. CASE SendCase \/ RetractCase
    <3>1. pc \in {"send", "retract"}
      BY <2>5 DEF SendCase, RetractCase
    <3>2. CASE cur \in Cases
      <4>1. /\ [op |-> "announce", item |-> cur] \in Commands
            /\ [op |-> "withdraw", item |-> cur] \in Commands
        BY <3>2, LinesTyped DEF Items
      <4>2. /\ pipe' \in Seq(SUBSET Commands) /\ late' \subseteq Commands
            /\ upsets' \in Nat /\ mishap' \in BOOLEAN
        BY <2>5, <4>1, SendOneTyped DEF SendCase, RetractCase
      <4> QED BY <1>1, <2>1, <2>5, <4>2
              DEF SendCase, RetractCase, ExabgpOK, HarnessOK, exabgpVars
    <3>3. cur \in Cases
      BY <3>1 DEF HarnessOK
    <3> QED BY <3>2, <3>3
  <2>6. CASE MeasureCase
    <3>1. /\ upsets' \in {upsets, upsets + 1}
          /\ sawReset' \in {"unknown", "yes", "no"}
      BY <2>6, Zenon DEF MeasureCase, Upset
    <3> QED BY <1>1, <2>1, <2>6, <3>1
            DEF MeasureCase, ExabgpOK, HarnessOK, exabgpVars, channelVars
  <2>7. CASE IsolationEnds
    BY <1>1, <2>1, <2>7
    DEF IsolationEnds, ExabgpOK, HarnessOK, exabgpVars, channelVars
  <2> QED BY <1>1, <2>2, <2>3, <2>4, <2>5, <2>6, <2>7 DEF Quiet
<1>2. CASE BurstBegins /\ UNCHANGED exabgpVars
  <2>1. ReadsBefore(Families)
    BY <1>2 DEF BurstBegins
  <2> QED BY <1>2, <2>1, ReadTyped
          DEF BurstBegins, ExabgpOK, RouterOK, HarnessOK, exabgpVars,
              channelVars
<1>3. ASSUME NEW m \in Cases, CaseBegins(m), UNCHANGED exabgpVars
      PROVE  TypeOK'
  <2>1. FamilyOf[m] \in Families
    BY ProbingAssumption DEF Items
  <2>2. ReadsBefore({FamilyOf[m]})
    BY <1>3 DEF CaseBegins, ReadsBeforeCase
  <2>3. /\ beforeKnown' \subseteq Families /\ upsets' \in Nat
        /\ moved' \in [Families -> BOOLEAN]
        /\ culprits' = {} /\ residue' \subseteq Items
    BY <2>1, <2>2, ReadTyped
  <2> QED BY <1>3, <2>3
          DEF CaseBegins, ExabgpOK, RouterOK, HarnessOK, exabgpVars,
              channelVars
<1>4. CASE KillExabgp
  <2>1. CASE Dies(1) /\ terminated' = TRUE /\ UNCHANGED <<upsets, mishap>>
    <3>1. 1 \in Processes
      BY DEF Processes
    <3> QED BY <1>4, <2>1, <3>1, DiesTyped DEF KillExabgp, ExabgpOK, HarnessOK
  <2>2. CASE /\ Upset /\ mishap' = TRUE /\ terminated' \in BOOLEAN
             /\ UNCHANGED <<procs, rib, pipe, owner, moved, told, routes,
                            culprits>>
    BY <1>4, <2>2 DEF KillExabgp, ExabgpOK, RouterOK, HarnessOK, Upset
  <2> QED BY <1>4, <2>1, <2>2 DEF KillExabgp, TermSent
<1>5. CASE StartExabgp /\ UNCHANGED <<routerVars, channelVars>>
  <2>1. procs' \subseteq Processes
    <3>1. procs' = procs \/ procs' = procs \cup {2}
      BY <1>5, Zenon DEF StartExabgp, Started
    <3>2. procs \subseteq 1..2 /\ 2 \in 1..2
      BY DEF ExabgpOK, Processes
    <3> QED BY <3>1, <3>2 DEF Processes
  <2>2. upsets' \in {upsets, upsets + 1} /\ mishap' \in BOOLEAN
    BY <1>5 DEF StartExabgp, Upset, HarnessOK
  <2> QED BY <1>5, <2>1, <2>2
          DEF StartExabgp, ExabgpOK, RouterOK, HarnessOK, routerVars,
              channelVars
<1> QED BY <1>1, <1>2, <1>3, <1>4, <1>5 DEF Harness

\* Every variable keeps its type.
THEOREM TypeCorrect == Spec => []TypeOK
<1>1. Init => TypeOK
  <2> SUFFICES ASSUME Init PROVE TypeOK
    OBVIOUS
  <2>1. ExabgpOK
    <3>1. pipe \in Seq(SUBSET Commands)
      BY EmptySeq DEF Init
    <3>2. procs \subseteq Processes
      BY DEF Init, Processes
    <3> QED BY <3>1, <3>2 DEF Init, ExabgpOK
  <2>2. RouterOK
    BY DEF Init, RouterOK, Processes
  <2>3. HarnessOK
    BY DEF Init, HarnessOK
  <2> QED BY <2>1, <2>2, <2>3 DEF TypeOK
<1>2. TypeOK /\ [Next]_vars => TypeOK'
  <2>1. TypeOK /\ UNCHANGED vars => TypeOK'
    BY DEF TypeOK, ExabgpOK, RouterOK, HarnessOK, vars, routerVars,
           exabgpVars, channelVars, harnessVars, resultVars
  <2> QED BY <2>1, EnvironmentTyped, HarnessTyped DEF Next
<1> QED BY <1>1, <1>2, PTL DEF Spec

----------------------------------------------------------------------------
(* What ExaBGP and the router may do to what the harness measures *)

\* Sessions that go down move their counters, and no counter moves back.
LEMMA DropCounted ==
  ASSUME TypeOK, NEW fs \in SUBSET Families, SessionsDrop(fs)
  PROVE  \A f \in Families : moved'[f] <=> f \in fs \/ moved[f]
  BY DEF SessionsDrop, TypeOK, RouterOK

\* A process that dies is a cause from outside.
LEMMA DiesCounted ==
  ASSUME TypeOK, NEW p \in Processes, Dies(p)
  PROVE  /\ culprits \subseteq culprits'
         /\ culprits' \subseteq culprits \cup {Outside}
         /\ \A f \in Families : /\ moved[f] => moved'[f]
                                /\ moved'[f] => moved[f] \/ Outside \in culprits'
         /\ culprits' = culprits \/ \E f \in Families : moved'[f]
<1>1. HeldBy(p) \in SUBSET Families
  BY DEF HeldBy
<1>2. /\ SessionsDrop(HeldBy(p))
      /\ culprits' = culprits \cup IF HeldBy(p) = {} THEN {} ELSE {Outside}
  BY DEF Dies
<1>3. \A f \in Families : moved'[f] <=> f \in HeldBy(p) \/ moved[f]
  BY <1>1, <1>2, DropCounted
<1>4. CASE HeldBy(p) = {}
  BY <1>2, <1>3, <1>4
<1>5. CASE HeldBy(p) # {}
  BY <1>1, <1>2, <1>3, <1>5
<1> QED BY <1>4, <1>5

\* Only what is in the way causes a reset, a counter that moves has a cause,
\* and a cause moves a counter.
LEMMA EnvironmentCounted ==
  ASSUME TypeOK, Environment
  PROVE  /\ culprits \subseteq culprits'
         /\ culprits' \subseteq culprits \cup InTheWay \cup {Outside}
         /\ \A f \in Families : moved[f] => moved'[f]
         /\ \A f \in Families : moved'[f] =>
              \/ moved[f]
              \/ \E c \in culprits' : c = Outside \/ FamilyOf[c] = f
         /\ culprits' = culprits \/ \E f \in Families : moved'[f]
<1>1. CASE UNCHANGED <<culprits, moved>>
  BY <1>1
<1>2. ASSUME NEW i \in Items, Hear(i), i \in Resetting
      PROVE  /\ culprits' = culprits \cup {i} /\ i \in InTheWay
             /\ FamilyOf[i] \in Families
             /\ \A f \in Families : moved'[f] <=> f = FamilyOf[i] \/ moved[f]
  <2>1. /\ FamilyOf[i] \in Families /\ owner[FamilyOf[i]] \in Processes
        /\ i \in rib[owner[FamilyOf[i]]]
    BY <1>2, ProbingAssumption DEF Hear, Up, TypeOK, RouterOK
  <2>2. i \in InTheWay
    BY <2>1 DEF InTheWay
  <2>3. SessionsDrop({FamilyOf[i]}) /\ culprits' = culprits \cup {i}
    BY <1>2 DEF Hear
  <2>4. \A f \in Families : moved'[f] <=> f \in {FamilyOf[i]} \/ moved[f]
    BY <2>1, <2>3, DropCounted
  <2> QED BY <2>1, <2>2, <2>3, <2>4
<1>3. ASSUME NEW f \in Families, SessionLost(f)
      PROVE  /\ culprits' = culprits \cup {Outside}
             /\ \A g \in Families : moved'[g] <=> g = f \/ moved[g]
  <2>1. SessionsDrop({f}) /\ culprits' = culprits \cup {Outside}
    BY <1>3 DEF SessionLost
  <2>2. \A g \in Families : moved'[g] <=> g \in {f} \/ moved[g]
    BY <2>1, DropCounted
  <2> QED BY <2>1, <2>2
<1>4. CASE OldProcessDies
  <2>1. Dies(1) /\ 1 \in Processes
    BY <1>4 DEF OldProcessDies, Processes
  <2> QED BY <2>1, DiesCounted
<1>5. \/ UNCHANGED <<culprits, moved>>
      \/ \E i \in Items : Hear(i) /\ i \in Resetting
      \/ \E f \in Families : SessionLost(f)
      \/ OldProcessDies
  BY Zenon DEF Environment, ServeFifo, LateWrite, Connect, Hear, HearWithdrawn,
               routerVars
<1>6. CASE \E i \in Items : Hear(i) /\ i \in Resetting
  <2>1. PICK i \in Items : Hear(i) /\ i \in Resetting
    BY <1>6
  <2> QED BY <1>2, <2>1
<1>7. CASE \E f \in Families : SessionLost(f)
  <2>1. PICK f \in Families : SessionLost(f)
    BY <1>7
  <2> QED BY <1>3, <2>1
<1> QED BY <1>1, <1>4, <1>5, <1>6, <1>7

\* Nothing new gets in the way by itself.
LEMMA EnvironmentAddsNothing ==
  ASSUME TypeOK, Environment
  PROVE  InTheWay' \subseteq InTheWay
<1> USE DEF TypeOK, ExabgpOK
<1>1. ASSUME NEW p \in Processes, ServeFifo(p) PROVE InTheWay' \subseteq InTheWay
  <2>1. PICK line \in Commands :
           /\ Len(pipe) > 0 /\ line \in pipe[1]
           /\ rib' = [rib EXCEPT ![p] = Obey(rib[p], line)]
           /\ pipe' \in Seq(SUBSET Commands)
           /\ \/ /\ Len(pipe') = Len(pipe) - 1
                 /\ pipe[1] = {line}
                 /\ \A k \in 1..Len(pipe') : pipe'[k] = pipe[k + 1]
              \/ /\ Len(pipe') = Len(pipe)
                 /\ \A k \in 1..Len(pipe') :
                      pipe'[k] = IF k = 1 THEN pipe[1] \ {line} ELSE pipe[k]
    BY <1>1, ServeFrame
  <2>2. late' = late /\ Len(pipe) \in Nat /\ Len(pipe') \in Nat
    BY <1>1, <2>1, LenProperties DEF ServeFifo
  <2>3. \A k \in 1..Len(pipe') : \E j \in 1..Len(pipe) : pipe'[k] \subseteq pipe[j]
    <3>1. TAKE k \in 1..Len(pipe')
    <3>2. CASE Len(pipe') = Len(pipe) - 1 /\ pipe'[k] = pipe[k + 1]
      <4>1. k + 1 \in 1..Len(pipe)
        BY <2>2, <3>2
      <4> QED BY <3>2, <4>1
    <3>3. CASE /\ Len(pipe') = Len(pipe)
               /\ pipe'[k] = IF k = 1 THEN pipe[1] \ {line} ELSE pipe[k]
      BY <3>3
    <3> QED BY <2>1, <3>2, <3>3
  <2>4. Unread' \subseteq Unread
    BY <2>2, <2>3 DEF Unread
  <2>5. line \in Unread
    BY <2>1, <2>2 DEF Unread
  <2>6. \A i \in Items, q \in Processes :
          i \in rib'[q] => i \in rib[q] \/ line = [op |-> "announce", item |-> i]
    <3>1. \/ Obey(rib[p], line) \subseteq rib[p]
          \/ /\ line = [op |-> "announce", item |-> line.item]
             /\ Obey(rib[p], line) = rib[p] \cup {line.item}
      <4>1. CASE line.op = "announce"
        <5>1. line \in Announce(Items)
          BY <4>1 DEF Commands, Announce, Withdraw
        <5>2. line = [op |-> "announce", item |-> line.item]
          BY <5>1 DEF Announce
        <5> QED BY <4>1, <5>2, Zenon DEF Obey
      <4>2. CASE line.op # "announce"
        BY <4>2 DEF Obey
      <4> QED BY <4>1, <4>2
    <3>2. \A q \in Processes :
            rib'[q] = rib[q] \/ (rib'[q] = Obey(rib[p], line) /\ q = p)
      BY <2>1
    <3>3. SUFFICES ASSUME NEW i \in Items, NEW q \in Processes,
                          i \in rib'[q], i \notin rib[q]
                   PROVE  line = [op |-> "announce", item |-> i]
      OBVIOUS
    <3>4. i \in Obey(rib[p], line) /\ i \notin rib[p]
      BY <3>2, <3>3, Zenon
    <3>5. i = line.item /\ line = [op |-> "announce", item |-> line.item]
      BY <3>1, <3>4, Zenon
    <3> QED BY <3>5, Zenon
  <2>7. \A i \in Items : line = [op |-> "announce", item |-> i] =>
          [op |-> "announce", item |-> i] \in Unread
    BY <2>5, Zenon
  <2>8. \A i \in Items, q \in Processes : i \in rib'[q] => i \in InTheWay
    BY <2>6, <2>7, Zenon DEF InTheWay
  <2>9. \A i \in Items :
          [op |-> "announce", item |-> i] \in Unread' => i \in InTheWay
    BY <2>4, Zenon DEF InTheWay
  <2>10. \A q \in Processes : rib'[q] \subseteq Items
    <3>1. line.item \in Items
      BY DEF Commands, Announce, Withdraw
    <3> QED BY <2>1, <3>1 DEF Obey
  <2>11. \A i \in InTheWay' :
           \/ i \in Items /\ [op |-> "announce", item |-> i] \in Unread'
           \/ \E q \in Processes : i \in rib'[q]
    BY Zenon DEF InTheWay
  <2> QED BY <2>8, <2>9, <2>10, <2>11, Zenon
<1>2. ASSUME NEW line \in late, LateWrite(line) PROVE InTheWay' \subseteq InTheWay
  <2>1. /\ Len(Append(pipe, {line})) = Len(pipe) + 1 /\ Len(pipe) \in Nat
        /\ \A k \in 1..(Len(pipe) + 1) : Append(pipe, {line})[k] =
              IF k = Len(pipe) + 1 THEN {line} ELSE pipe[k]
    BY AppendProperties, LenProperties
  <2>2. \A k \in 1..(Len(pipe) + 1) : k = Len(pipe) + 1 \/ k \in 1..Len(pipe)
    BY <2>1
  <2>3. pipe' = Append(pipe, {line}) /\ late' = late \ {line} /\ rib' = rib
    BY <1>2 DEF LateWrite, exabgpVars
  <2>4. Unread' \subseteq Unread
    BY <2>1, <2>2, <2>3 DEF Unread
  <2> QED BY <2>3, <2>4 DEF InTheWay
<1>3. ASSUME Dies(1), late' = late PROVE InTheWay' \subseteq InTheWay
  <2>1. pipe' = pipe \/ pipe' = <<>>
    BY <1>3 DEF Dies
  <2>2. Unread' \subseteq Unread
    BY <1>3, <2>1 DEF Unread
  <2>3. \A q \in Processes : rib'[q] \subseteq rib[q]
    BY <1>3 DEF Dies
  <2> QED BY <2>2, <2>3 DEF InTheWay
<1>4. CASE UNCHANGED <<pipe, late, rib>>
  BY <1>4 DEF InTheWay, Unread
<1>5. \/ \E p \in Processes : ServeFifo(p)
      \/ \E line \in late : LateWrite(line)
      \/ Dies(1) /\ late' = late
      \/ UNCHANGED <<pipe, late, rib>>
  BY Zenon DEF Environment, OldProcessDies, Connect, Hear, HearWithdrawn,
               SessionLost, exabgpVars, channelVars
<1> QED BY <1>1, <1>2, <1>3, <1>4, <1>5

\* A write puts its own announcements in the way and nothing else.
LEMMA WriteAddsItsLines ==
  ASSUME TypeOK, NEW lines \in SUBSET Commands,
         pipe' = pipe \/ pipe' = Append(pipe, lines),
         late' \subseteq late \cup lines, rib' = rib
  PROVE  \A i \in InTheWay' : i \in InTheWay \/ Ann(i) \in lines
<1>1. pipe \in Seq(SUBSET Commands) /\ Len(pipe) \in Nat
  BY LenProperties DEF TypeOK, ExabgpOK
<1>2. /\ Len(Append(pipe, lines)) = Len(pipe) + 1
      /\ \A k \in 1..(Len(pipe) + 1) : Append(pipe, lines)[k] =
            IF k = Len(pipe) + 1 THEN lines ELSE pipe[k]
  BY <1>1, AppendProperties
<1>3. \A k \in 1..(Len(pipe) + 1) : k = Len(pipe) + 1 \/ k \in 1..Len(pipe)
  BY <1>1
<1>4. \A line \in Unread' : line \in Unread \/ line \in lines
  BY <1>2, <1>3 DEF Unread
<1> QED BY <1>4, Zenon DEF InTheWay, Ann

----------------------------------------------------------------------------
(* What a reset is blamed on *)

\* While a case is measured, what resets a session was in the way before or
\* is the case, and a counter that moved has a cause.
LEMMA BlameKept == TypeOK /\ BlameInv /\ [Next]_vars => BlameInv'
<1> SUFFICES
        ASSUME TypeOK, BlameInv, [Next]_vars,
               pc' \in {"send", "measure", "retract"}
        PROVE  /\ culprits' \subseteq residue' \cup {cur', Outside}
               /\ InTheWay' \subseteq residue' \cup {cur'}
               /\ pc' # "retract" /\ moved'[FamilyOf[cur']]
                    => HasCause(culprits', FamilyOf[cur'])
               /\ pc' = "retract" /\ sawReset' = "yes"
                    => HasCause(culprits', FamilyOf[cur'])
  BY Zenon DEF BlameInv
<1>a. pc \in {"send", "measure", "retract"} =>
        /\ culprits \subseteq residue \cup {cur, Outside}
        /\ InTheWay \subseteq residue \cup {cur}
        /\ pc # "retract" /\ moved[FamilyOf[cur]] => HasCause(culprits, FamilyOf[cur])
        /\ pc = "retract" /\ sawReset = "yes" => HasCause(culprits, FamilyOf[cur])
  BY Zenon DEF BlameInv
<1>1. CASE Environment
  <2>1. /\ pc' = pc /\ cur' = cur /\ residue' = residue /\ sawReset' = sawReset
    BY <1>1 DEF Environment, harnessVars, resultVars
  <2>2. FamilyOf[cur] \in Families
    BY <2>1, ProbingAssumption DEF TypeOK, HarnessOK, Items
  <2>3. InTheWay' \subseteq InTheWay
    BY <1>1, EnvironmentAddsNothing
  <2>4. /\ culprits \subseteq culprits'
        /\ culprits' \subseteq culprits \cup InTheWay \cup {Outside}
        /\ moved'[FamilyOf[cur]] =>
              moved[FamilyOf[cur]] \/ HasCause(culprits', FamilyOf[cur])
    BY <1>1, <2>2, EnvironmentCounted, Zenon DEF HasCause
  <2>5. HasCause(culprits, FamilyOf[cur]) => HasCause(culprits', FamilyOf[cur])
    BY <2>4 DEF HasCause
  <2>6. /\ culprits \subseteq residue \cup {cur, Outside}
        /\ InTheWay \subseteq residue \cup {cur}
        /\ pc # "retract" /\ moved[FamilyOf[cur]] => HasCause(culprits, FamilyOf[cur])
        /\ pc = "retract" /\ sawReset = "yes" => HasCause(culprits, FamilyOf[cur])
    BY <2>1, <1>a, Zenon
  <2>7. /\ culprits' \subseteq residue \cup {cur, Outside}
        /\ InTheWay' \subseteq residue \cup {cur}
    BY <2>3, <2>4, <2>6
  <2> QED BY <2>1, <2>4, <2>5, <2>6, <2>7, Zenon
<1>2. CASE Quiet /\ UNCHANGED <<routerVars, exabgpVars>>
  <2>1. CASE SendCase
    <3>1. /\ cur' = cur /\ residue' = residue /\ pc = "send" /\ pc' = "measure"
          /\ culprits' = culprits /\ moved' = moved /\ rib' = rib
      BY <1>2, <2>1
      DEF SendCase, GoTo, resultVars, routerVars, exabgpVars
    <3>2. cur \in Cases
      BY <3>1 DEF TypeOK, HarnessOK
    <3>3. Ann(cur) \in Commands
      BY <3>2, LinesTyped DEF Items, Ann
    <3>4. SendOne(Ann(cur))
      BY <2>1 DEF SendCase, Ann
    <3>5. /\ pipe' = pipe \/ pipe' = Append(pipe, {Ann(cur)})
          /\ late' \subseteq late \cup {Ann(cur)}
      BY <3>3, <3>4, SendOneTyped
    <3>6. \A i \in InTheWay' : i \in InTheWay \/ Ann(i) \in {Ann(cur)}
      BY <3>1, <3>3, <3>5, WriteAddsItsLines
    <3>7. \A i : Ann(i) = Ann(cur) => i = cur
      BY DEF Ann
    <3>8. InTheWay' \subseteq residue \cup {cur}
      BY <3>1, <3>6, <3>7, <1>a, Zenon
    <3>9. HasCause(culprits', FamilyOf[cur]) <=> HasCause(culprits, FamilyOf[cur])
      BY <3>1
    <3>10. /\ culprits \subseteq residue \cup {cur, Outside}
           /\ moved[FamilyOf[cur]] => HasCause(culprits, FamilyOf[cur])
      BY <3>1, <1>a, Zenon
    <3> QED BY <3>1, <3>8, <3>9, <3>10, Zenon
  <2>2. CASE MeasureCase
    <3>1. /\ cur' = cur /\ residue' = residue /\ pc = "measure"
          /\ pc' = "retract" /\ culprits' = culprits
          /\ UNCHANGED <<pipe, late, rib>>
          /\ sawReset' = "yes" => moved[FamilyOf[cur]]
      BY <1>2, <2>2, Zenon
      DEF MeasureCase, GoTo, resultVars, routerVars, exabgpVars, channelVars
    <3>2. InTheWay' = InTheWay
      BY <3>1 DEF InTheWay, Unread
    <3>3. HasCause(culprits', FamilyOf[cur]) <=> HasCause(culprits, FamilyOf[cur])
      BY <3>1
    <3>4. /\ culprits \subseteq residue \cup {cur, Outside}
          /\ InTheWay \subseteq residue \cup {cur}
          /\ moved[FamilyOf[cur]] => HasCause(culprits, FamilyOf[cur])
      BY <3>1, <1>a
    <3> QED BY <3>1, <3>2, <3>3, <3>4, Zenon
  <2>3. ~ProbeCheck /\ ~AnnounceCases /\ ~BurstEnds /\ ~WithdrawCases
        /\ ~RetractCase /\ ~IsolationEnds
    BY DEF ProbeCheck, AnnounceProbes, CheckBegins, CheckEnds, WithdrawProbes,
           AnnounceCases, BurstEnds, WithdrawCases, RetractCase,
           IsolationEnds, GoTo
  <2> QED BY <1>2, <2>1, <2>2, <2>3 DEF Quiet
<1>3. CASE BurstBegins
  BY <1>3 DEF BurstBegins, GoTo
<1>4. ASSUME NEW m \in Cases, CaseBegins(m), UNCHANGED exabgpVars
      PROVE  /\ pc' = "send" /\ culprits' = {} /\ residue' = InTheWay
             /\ InTheWay' = InTheWay /\ ~moved'[FamilyOf[cur']]
  <2>1. /\ ReadsBefore({FamilyOf[m]}) /\ cur' = m
        /\ UNCHANGED <<pipe, late, rib>> /\ pc' = "send"
    BY <1>4 DEF CaseBegins, ReadsBeforeCase, channelVars, exabgpVars, GoTo
  <2>2. FamilyOf[m] \in Families
    BY ProbingAssumption DEF Items
  <2>3. ~moved'[FamilyOf[m]]
    BY <2>1, <2>2 DEF ReadsBefore
  <2>4. InTheWay' = InTheWay
    BY <2>1 DEF InTheWay, Unread
  <2> QED BY <2>1, <2>3, <2>4 DEF ReadsBefore
<1>5. CASE KillExabgp \/ StartExabgp
  BY <1>5 DEF KillExabgp, StartExabgp, GoTo
<1>6. CASE UNCHANGED vars
  <2>1. UNCHANGED <<pc, cur, residue, sawReset, culprits, moved, pipe, late, rib>>
    BY <1>6 DEF vars, routerVars, exabgpVars, channelVars, harnessVars, resultVars
  <2>2. InTheWay' = InTheWay
    BY <2>1 DEF InTheWay, Unread
  <2>3. HasCause(culprits', FamilyOf[cur]) <=> HasCause(culprits, FamilyOf[cur])
    BY <2>1
  <2>4. /\ culprits \subseteq residue \cup {cur, Outside}
        /\ InTheWay \subseteq residue \cup {cur}
        /\ pc # "retract" /\ moved[FamilyOf[cur]] => HasCause(culprits, FamilyOf[cur])
        /\ pc = "retract" /\ sawReset = "yes" => HasCause(culprits, FamilyOf[cur])
    BY <2>1, <1>a, Zenon
  <2> QED BY <2>1, <2>2, <2>3, <2>4, Zenon
<1> QED BY <1>1, <1>2, <1>3, <1>4, <1>5, <1>6 DEF Next, Harness

\* A case is blamed for a reset only if it caused one, whatever is still on
\* its way or advertised (ev_malformed_isolate).
THEOREM BlameCorrect == Spec => []BlameIsEarned
<1>1. Init => BlameInv
  BY DEF Init, BlameInv
<1>2. TypeOK /\ BlameInv => BlameIsEarned
  <2> SUFFICES ASSUME TypeOK, BlameInv, pc = "retract", sawReset = "yes",
                      Outside \notin culprits,
                      residue \cap OfFamilies({FamilyOf[cur]}) = {}
               PROVE  cur \in culprits
    BY DEF BlameIsEarned
  <2>1. PICK c \in culprits : c = Outside \/ FamilyOf[c] = FamilyOf[cur]
    <3>1. HasCause(culprits, FamilyOf[cur])
      BY Zenon DEF BlameInv
    <3> QED BY <3>1 DEF HasCause
  <2>2. FamilyOf[c] = FamilyOf[cur] /\ c \in residue \cup {cur}
    BY <2>1 DEF BlameInv
  <2>3. c \in residue => c \in residue \cap OfFamilies({FamilyOf[cur]})
    BY <2>2 DEF OfFamilies, TypeOK, HarnessOK
  <2> QED BY <2>1, <2>2, <2>3
<1> QED BY <1>1, <1>2, BlameKept, TypeCorrect, PTL DEF Spec

\* Between the burst's two pairs of summaries a counter moved exactly when
\* something reset a session.
LEMMA BurstKept == TypeOK /\ BurstInv /\ [Next]_vars => BurstInv'
<1> SUFFICES ASSUME TypeOK, BurstInv, [Next]_vars, pc' \in {"burst", "after"}
             PROVE  (\E f \in Families : moved'[f]) <=> culprits' # {}
  BY DEF BurstInv
<1>1. CASE Environment
  <2>1. pc' = pc
    BY <1>1 DEF Environment, harnessVars
  <2>2. ASSUME NEW c \in culprits', culprits' # culprits
        PROVE  \E f \in Families : moved'[f]
    BY <1>1, <2>2, EnvironmentCounted
  <2>3. ASSUME NEW f \in Families, moved'[f] PROVE culprits' # {}
    BY <1>1, <2>1, <2>3, EnvironmentCounted DEF BurstInv
  <2>4. culprits' # {} => \E f \in Families : moved'[f]
    BY <1>1, <2>1, <2>2, EnvironmentCounted DEF BurstInv
  <2> QED BY <2>3, <2>4
<1>2. CASE UNCHANGED routerVars /\ pc \in {"burst", "after"}
  BY <1>2 DEF routerVars, BurstInv
<1>3. CASE BurstBegins
  BY <1>3 DEF BurstBegins, ReadsBefore
<1>4. Quiet => pc \in {"burst", "after"}
  BY DEF Quiet, ProbeCheck, AnnounceProbes, CheckBegins, CheckEnds,
         WithdrawProbes, AnnounceCases, BurstEnds, WithdrawCases, SendCase,
         MeasureCase, RetractCase, IsolationEnds, GoTo
<1>5. ~KillExabgp /\ ~StartExabgp /\ \A m \in Cases : ~CaseBegins(m)
  BY DEF KillExabgp, StartExabgp, CaseBegins, GoTo
<1>6. CASE UNCHANGED vars
  BY <1>6, <1>2 DEF vars, harnessVars
<1> QED BY <1>1, <1>2, <1>3, <1>4, <1>5, <1>6 DEF Next, Harness

\* The burst reports a reset exactly when there was one (ev_malformed_burst).
THEOREM ResetsNoticed == Spec => ResetsAreNoticed
<1>1. Init => BurstInv
  BY DEF Init, BurstInv
<1>2. TypeOK /\ BurstInv /\ [Next]_vars
        => [pc = "after" /\ pc' = "unburst" /\ UNCHANGED upsets
              /\ beforeKnown = Families
            => (burstReset' <=> culprits # {})]_vars
  <2> SUFFICES ASSUME TypeOK, BurstInv, Next, pc = "after", pc' = "unburst",
                      UNCHANGED upsets, beforeKnown = Families
               PROVE  burstReset' <=> culprits # {}
    BY DEF vars
  <2>1. ~Environment
    BY DEF Environment, harnessVars
  <2>2. BurstEnds
    BY <2>1 DEF Next, Harness, Quiet, ProbeCheck, AnnounceProbes, CheckBegins,
                CheckEnds, WithdrawProbes, AnnounceCases, WithdrawCases,
                SendCase, MeasureCase, RetractCase, IsolationEnds,
                BurstBegins, CaseBegins, KillExabgp, StartExabgp, GoTo
  <2>3. PICK readable \in SUBSET Families :
          /\ IF readable # Families THEN Upset ELSE UNCHANGED upsets
          /\ burstReset' = \E f \in Families : Shows(f, readable \cap beforeKnown)
    BY <2>2 DEF BurstEnds
  <2>4. readable = Families
    BY <2>3 DEF Upset, TypeOK, HarnessOK
  <2>5. burstReset' <=> \E f \in Families : moved[f]
    BY <2>3, <2>4, Zenon DEF Shows
  <2> QED BY <2>5 DEF BurstInv
<1> QED BY <1>1, <1>2, BurstKept, TypeCorrect, PTL DEF Spec, ResetsAreNoticed

----------------------------------------------------------------------------
(* The restart of ExaBGP *)

\* Where a step of the harness leads.
LEMMA QuietFlow ==
  ASSUME Quiet
  PROVE  /\ pc' # "start" /\ pc # "start" /\ pc # "kill"
         /\ pc' \in BeforeRestart => pc \in BeforeRestart
         /\ pc \notin Early => pc' \notin Early
         /\ pc' = "isolate" => pc = "unburst" \/ pc = "retract"
         /\ pc' \in {"send", "measure", "retract"} =>
              pc \in {"send", "measure", "retract"}
         /\ todo' = todo \/ pc = "unburst"
BY DEF Quiet, ProbeCheck, AnnounceProbes, CheckBegins, CheckEnds,
       WithdrawProbes, AnnounceCases, BurstEnds, WithdrawCases, SendCase,
       MeasureCase, RetractCase, IsolationEnds, GoTo, BeforeRestart, Early,
       resultVars

\* A write that is not lost or late leaves nothing to be written later.
LEMMA SendKeepsLate ==
  /\ \A lines : Send(lines) => late' = late
  /\ \A line : SendOne(line) /\ ~mishap' /\ procs # {} => late' = late
BY Zenon DEF Send, SendOne, Mishap, channelVars

\* Without a mishap a write is in the FIFO, or there was nobody to read it.
LEMMA QuietWrites ==
  ASSUME TypeOK, ProcsInv, Quiet, ~mishap, ~mishap'
  PROVE  late' = {}
<1>1. late = {}
  BY DEF ProcsInv
<1>2. CASE UNCHANGED late
  BY <1>1, <1>2
<1>3. CASE SendCase \/ RetractCase
  <2>1. pc \in {"send", "retract"}
    BY <1>3 DEF SendCase, RetractCase
  <2>2. procs # {}
    BY <2>1 DEF ProcsInv
  <2> QED BY <1>1, <1>3, <2>2, SendKeepsLate, Zenon DEF SendCase, RetractCase
<1>4. UNCHANGED late \/ SendCase \/ RetractCase
  BY SendKeepsLate, Zenon
  DEF Quiet, ProbeCheck, AnnounceProbes, CheckBegins, CheckEnds,
      WithdrawProbes, AnnounceCases, BurstEnds, WithdrawCases, MeasureCase,
      IsolationEnds, channelVars
<1> QED BY <1>2, <1>3, <1>4

\* A mishap is never forgotten.
LEMMA MishapStays == TypeOK /\ [Next]_vars /\ ~mishap' => ~mishap
BY Zenon DEF TypeOK, HarnessOK, Next, vars, Environment, ServeFifo, LateWrite, Connect,
    Hear, HearWithdrawn, SessionLost, OldProcessDies, Harness, Quiet,
    ProbeCheck, AnnounceProbes, CheckBegins, CheckEnds, WithdrawProbes,
    AnnounceCases, BurstEnds, WithdrawCases, SendCase, MeasureCase,
    RetractCase, IsolationEnds, BurstBegins, CaseBegins, KillExabgp,
    StartExabgp, TermSent, Send, SendOne, Mishap

\* Which processes run, unless a process survived or a write was lost.
LEMMA ProcsKept == TypeOK /\ ProcsInv /\ [Next]_vars => ProcsInv'
<1> SUFFICES ASSUME TypeOK, ProcsInv, [Next]_vars, ~mishap'
             PROVE  /\ late' = {}
                    /\ IF pc' = "start" THEN procs' = {}
                       ELSE procs' = {1} \/ procs' = {2}
                    /\ pc' \in BeforeRestart => procs' = {1}
                    /\ \A p \in Processes : p \notin procs' => rib'[p] = {}
  BY Zenon DEF ProcsInv
<1>0. ~mishap
  BY MishapStays
<1>1. /\ late = {}
      /\ IF pc = "start" THEN procs = {} ELSE procs = {1} \/ procs = {2}
      /\ pc \in BeforeRestart => procs = {1}
      /\ \A p \in Processes : p \notin procs => rib[p] = {}
  BY <1>0 DEF ProcsInv
<1>2. CASE Environment
  <2>1. pc' = pc
    BY <1>2 DEF Environment, harnessVars
  <2>2. ASSUME NEW p \in Processes, ServeFifo(p)
        PROVE  /\ procs' = procs /\ late' = late
               /\ \A q \in Processes : q \notin procs' => rib'[q] = {}
    <3>1. PICK line : rib' = [rib EXCEPT ![p] = Obey(rib[p], line)]
      BY <2>2 DEF ServeFifo
    <3> QED BY <1>1, <2>2, <3>1 DEF ServeFifo
  <2>3. ASSUME OldProcessDies PROVE FALSE
    <3>1. 1 \in procs /\ 2 \in procs
      BY <2>3 DEF OldProcessDies
    <3> QED BY <1>1, <3>1
  <2>4. \/ \E p \in Processes : ServeFifo(p)
        \/ UNCHANGED <<procs, rib, late>>
    BY <1>1, <1>2, <2>3
    DEF Environment, LateWrite, Connect, Hear, HearWithdrawn, SessionLost,
        exabgpVars, channelVars
  <2> QED BY <1>1, <2>1, <2>2, <2>4
<1>3. CASE Quiet /\ UNCHANGED <<routerVars, exabgpVars>>
  BY <1>0, <1>1, <1>3, QuietWrites, QuietFlow DEF exabgpVars
<1>4. CASE \/ BurstBegins /\ UNCHANGED exabgpVars
           \/ (\E m \in Cases : CaseBegins(m)) /\ UNCHANGED exabgpVars
  BY <1>1, <1>4
  DEF BurstBegins, CaseBegins, GoTo, exabgpVars, channelVars, BeforeRestart
<1>5. CASE KillExabgp
  <2>1. Dies(1) /\ late' = late /\ pc = "kill" /\ pc' = "start"
    BY <1>5, Zenon DEF KillExabgp, TermSent, GoTo
  <2>2. procs = {1}
    BY <1>1, <2>1 DEF BeforeRestart
  <2>3. procs' = {} /\ rib' = [rib EXCEPT ![1] = {}]
    BY <2>1, <2>2 DEF Dies
  <2> QED BY <1>1, <2>1, <2>2, <2>3 DEF BeforeRestart, TypeOK, ExabgpOK
<1>6. CASE StartExabgp /\ UNCHANGED <<routerVars, channelVars>>
  <2>1. /\ pc = "start" /\ pc' = "isolate" /\ procs' = procs \cup {2}
        /\ rib' = rib /\ late' = late
    BY <1>6, Zenon DEF StartExabgp, Started, GoTo, channelVars
  <2> QED BY <1>1, <2>1 DEF BeforeRestart
<1>7. CASE UNCHANGED vars
  BY <1>1, <1>7 DEF vars, exabgpVars, channelVars, harnessVars
<1> QED BY <1>2, <1>3, <1>4, <1>5, <1>6, <1>7 DEF Next, Harness

\* From the death of the old process to the first case nothing is in the
\* FIFO and nothing is advertised.
LEMMA SlateKept == TypeOK /\ ProcsInv /\ SlateInv /\ [Next]_vars => SlateInv'
<1> SUFFICES ASSUME TypeOK, ProcsInv, SlateInv, [Next]_vars PROVE SlateInv'
  OBVIOUS
<1> DEFINE Empty == pipe = <<>> /\ \A p \in Processes : rib[p] = {}
           Fresh == pc = "start" \/ (pc = "isolate" /\ todo = IsolatedCases)
<1>1. /\ ~mishap /\ FreshSession /\ Fresh => Empty
      /\ pc \in {"start", "isolate", "send", "measure", "retract"}
           => todo \subseteq IsolatedCases
      /\ pc \in {"kill", "start"} => todo = IsolatedCases
      /\ pc \in {"send", "measure", "retract"} => todo # IsolatedCases
  BY Zenon DEF SlateInv
<1>2. ~mishap' => ~mishap
  BY MishapStays
<1>3. SUFFICES
        /\ ~mishap' /\ FreshSession /\ Fresh' => Empty'
        /\ pc' \in {"start", "isolate", "send", "measure", "retract"}
             => todo' \subseteq IsolatedCases
        /\ pc' \in {"kill", "start"} => todo' = IsolatedCases
        /\ pc' \in {"send", "measure", "retract"} => todo' # IsolatedCases
  BY <1>3, Zenon DEF SlateInv
<1>4. CASE Environment
  <2>1. pc' = pc /\ todo' = todo
    BY <1>4 DEF Environment, harnessVars
  <2>2. ASSUME ~mishap', FreshSession, Fresh' PROVE Empty'
    <3>1. ~mishap /\ Empty /\ late = {} /\ (procs = {} \/ procs = {1} \/ procs = {2})
      BY <1>1, <1>2, <2>1, <2>2 DEF ProcsInv
    <3>2. \A p \in Processes : ~ServeFifo(p)
      BY <3>1 DEF ServeFifo
    <3>3. ~OldProcessDies
      BY <3>1 DEF OldProcessDies
    <3>4. pipe' = pipe /\ rib' = rib
      BY <1>4, <3>1, <3>2, <3>3
      DEF Environment, LateWrite, Connect, Hear, HearWithdrawn, SessionLost,
          exabgpVars, channelVars
    <3> QED BY <3>1, <3>4
  <2> QED BY <1>1, <2>1, <2>2
<1>5. CASE Quiet /\ UNCHANGED <<routerVars, exabgpVars>>
  <2>1. CASE WithdrawCases
    <3>1. /\ pc' \in {"done", "kill", "isolate"}
          /\ pc' \in {"kill", "isolate"} => todo' = IsolatedCases
          /\ pc' = "isolate" => ~FreshSession
      BY <2>1 DEF WithdrawCases, GoTo
    <3> QED BY <3>1
  <2>2. CASE ~WithdrawCases
    <3>1. todo' = todo /\ pc # "unburst" /\ pc' # "kill"
      BY <1>5, <2>2
      DEF Quiet, ProbeCheck, AnnounceProbes, CheckBegins, CheckEnds,
          WithdrawProbes, AnnounceCases, BurstEnds, SendCase, MeasureCase,
          RetractCase, IsolationEnds, GoTo, resultVars
    <3> QED BY <1>1, <1>5, <3>1, QuietFlow
  <2> QED BY <2>1, <2>2
<1>6. ASSUME BurstBegins PROVE pc' = "burst"
  BY <1>6 DEF BurstBegins, GoTo
<1>7. ASSUME NEW m \in Cases, CaseBegins(m)
      PROVE  /\ pc' = "send" /\ todo' \subseteq IsolatedCases
             /\ todo' # IsolatedCases
  <2>1. pc = "isolate" /\ m \in todo /\ todo' = todo \ {m} /\ pc' = "send"
    BY <1>7 DEF CaseBegins, GoTo
  <2> QED BY <1>1, <2>1
<1>8. CASE KillExabgp
  <2>1. pc = "kill" /\ pc' = "start" /\ todo' = todo
    BY <1>8 DEF KillExabgp, GoTo
  <2>2. ASSUME ~mishap' PROVE Empty'
    <3>1. Dies(1)
      BY <1>8, <2>2, Zenon DEF KillExabgp, TermSent
    <3>2. procs = {1} /\ \A p \in Processes : p \notin procs => rib[p] = {}
      BY <1>2, <2>1, <2>2 DEF ProcsInv, BeforeRestart
    <3> QED BY <3>1, <3>2 DEF Dies, TypeOK, ExabgpOK
  <2> QED BY <1>1, <2>1, <2>2
<1>9. CASE StartExabgp /\ UNCHANGED <<routerVars, channelVars>>
  <2>1. /\ pc = "start" /\ pc' = "isolate" /\ todo' = todo
        /\ pipe' = pipe /\ rib' = rib
    BY <1>9 DEF StartExabgp, GoTo, channelVars
  <2> QED BY <1>1, <1>2, <2>1
<1>10. CASE UNCHANGED vars
  <2>1. UNCHANGED <<pc, todo, pipe, rib, mishap>>
    BY <1>10 DEF vars, exabgpVars, channelVars, harnessVars
  <2> QED BY <1>1, <2>1
<1> QED BY <1>4, <1>5, <1>6, <1>7, <1>8, <1>9, <1>10 DEF Next, Harness

\* Isolation starts with nothing advertised and nothing on its way, unless
\* a write was lost or late or the old process survived (restart_exabgp).
THEOREM SlateCorrect == Spec => []CleanSlate
<1>1. Init => ProcsInv /\ SlateInv
  BY DEF Init, ProcsInv, SlateInv, BeforeRestart
<1>2. TypeOK /\ ProcsInv /\ SlateInv => CleanSlate
  <2> SUFFICES ASSUME TypeOK, ProcsInv, SlateInv, pc = "isolate",
                      todo = IsolatedCases, FreshSession, ~mishap
               PROVE  InTheWay = {}
    BY DEF CleanSlate
  <2>1. pipe = <<>> /\ late = {} /\ \A p \in Processes : rib[p] = {}
    BY DEF ProcsInv, SlateInv
  <2>2. Unread = {}
    BY <2>1 DEF Unread
  <2> QED BY <2>1, <2>2 DEF InTheWay
<1> QED BY <1>1, <1>2, ProcsKept, SlateKept, TypeCorrect, PTL DEF Spec

----------------------------------------------------------------------------
(* The order of the writes *)

\* Announcements and withdrawals of items are never mixed up.
LEMMA LinesDiffer ==
  /\ \A i, j : Ann(i) = Ann(j) => i = j
  /\ \A i, j : Ann(i) # Wdr(j)
  /\ \A items : \A i : /\ Ann(i) \notin Withdraw(items)
                       /\ Ann(i) \in Announce(items) <=> i \in items
                       /\ i \in items => Wdr(i) \in Withdraw(items)
BY DEF Ann, Wdr, Announce, Withdraw

\* A write that does not announce a probe leaves it clean or going.
LEMMA AppendKeeps ==
  ASSUME TypeOK, NEW lines \in SUBSET Commands,
         pipe' = Append(pipe, lines), rib' = rib,
         NEW i, Ann(i) \notin lines
  PROVE  /\ Len(pipe') = Len(pipe) + 1 /\ Len(pipe) \in Nat
         /\ pipe'[Len(pipe) + 1] = lines
         /\ \A k \in 1..Len(pipe) : pipe'[k] = pipe[k]
         /\ Clean(pipe, rib, i) => Clean(pipe', rib', i)
         /\ \A u \in Int : Going(pipe, i, u) => Going(pipe', i, u)
         /\ Wdr(i) \in lines => \A u \in Int : u > Len(pipe) => Going(pipe', i, u)
<1>1. /\ pipe \in Seq(SUBSET Commands) /\ Len(pipe) \in Nat
  BY LenProperties DEF TypeOK, ExabgpOK
<1>2. /\ Len(pipe') = Len(pipe) + 1
      /\ pipe'[Len(pipe) + 1] = lines
      /\ \A k \in 1..Len(pipe) : pipe'[k] = pipe[k]
  BY <1>1, AppendProperties
<1>3. \A k \in 1..Len(pipe') : k \in 1..Len(pipe) \/ k = Len(pipe) + 1
  BY <1>1, <1>2
<1>4. Clean(pipe, rib, i) => Clean(pipe', rib', i)
  BY <1>2, <1>3 DEF Clean
<1>5. ASSUME NEW u \in Int, Going(pipe, i, u) PROVE Going(pipe', i, u)
  <2>1. PICK w \in 1..Len(pipe) :
          /\ w <= u /\ Wdr(i) \in pipe[w]
          /\ \A x \in 1..Len(pipe) : x >= w => Ann(i) \notin pipe[x]
    BY <1>5 DEF Going
  <2>2. w \in 1..Len(pipe') /\ Wdr(i) \in pipe'[w]
    BY <1>1, <1>2, <2>1
  <2>3. \A x \in 1..Len(pipe') : x >= w => Ann(i) \notin pipe'[x]
    BY <1>2, <1>3, <2>1
  <2> QED BY <2>1, <2>2, <2>3 DEF Going
<1>6. ASSUME Wdr(i) \in lines, NEW u \in Int, u > Len(pipe) PROVE Going(pipe', i, u)
  <2>1. Len(pipe) + 1 \in 1..Len(pipe') /\ Len(pipe) + 1 <= u
    BY <1>1, <1>2, <1>6
  <2>2. \A x \in 1..Len(pipe') : x >= Len(pipe) + 1 => x = Len(pipe) + 1
    BY <1>1, <1>2
  <2> QED BY <1>2, <1>6, <2>1, <2>2 DEF Going
<1> QED BY <1>1, <1>2, <1>4, <1>5, <1>6

\* When a line is served, what is clean stays clean, and what is going gets
\* nearer or is gone.
LEMMA ServeClears ==
  ASSUME TypeOK, ProcsInv, ~mishap, NEW p \in Processes, ServeFifo(p),
         NEW i \in Probes, NEW line \in Commands, NEW shift \in {0, 1},
         Len(pipe) > 0, line \in pipe[1],
         rib' = [rib EXCEPT ![p] = Obey(rib[p], line)],
         pipe' \in Seq(SUBSET Commands),
         Len(pipe') = Len(pipe) - shift,
         shift = 1 => pipe[1] = {line},
         \A k \in 1..Len(pipe') : pipe'[k] = IF shift = 1 THEN pipe[k + 1]
                                   ELSE IF k = 1 THEN pipe[1] \ {line}
                                   ELSE pipe[k]
  PROVE  /\ Clean(pipe, rib, i) => Clean(pipe', rib', i)
         /\ \A u \in Int : Going(pipe, i, u) => Clean(pipe', rib', i) \/ Going(pipe', i, u - shift)
<1>1. Len(pipe) \in Nat /\ Len(pipe') \in Nat
  BY LenProperties DEF TypeOK, ExabgpOK
<1>2. \A k \in 1..Len(pipe') :
        k + shift \in 1..Len(pipe) /\ pipe'[k] \subseteq pipe[k + shift]
  <2>1. TAKE k \in 1..Len(pipe')
  <2>2. CASE shift = 1
    BY <1>1, <2>2
  <2>3. CASE shift = 0
    BY <1>1, <2>3
  <2> QED BY <2>2, <2>3
<1>3. \A q \in Processes : q # p => rib[q] = {}
  <2>1. procs = {p}
    BY DEF ProcsInv, ServeFifo
  <2> QED BY <2>1 DEF ProcsInv
<1>4. \A q \in Processes : rib'[q] = IF q = p THEN Obey(rib[p], line) ELSE rib[q]
  BY DEF TypeOK, ExabgpOK
<1>5. i \notin Sticky
  BY ProbingAssumption
<1>6. ASSUME Clean(pipe, rib, i) PROVE Clean(pipe', rib', i)
  <2>1. line # Ann(i) /\ i \notin rib[p]
    BY <1>1, <1>6 DEF Clean
  <2>2. i \notin Obey(rib[p], line)
    <3>1. line.op = "announce" => line.item # i
      <4>1. ASSUME line.op = "announce", line.item = i PROVE line = Ann(i)
        <5>1. line \in Announce(Items)
          BY <4>1 DEF Commands, Announce, Withdraw
        <5> QED BY <4>1, <5>1 DEF Announce, Ann
      <4> QED BY <2>1, <4>1
    <3> QED BY <2>1, <3>1 DEF Obey
  <2>3. \A q \in Processes : i \notin rib'[q]
    BY <1>4, <1>6, <2>2 DEF Clean
  <2>4. \A k \in 1..Len(pipe') : Ann(i) \notin pipe'[k]
    BY <1>2, <1>6 DEF Clean
  <2> QED BY <2>3, <2>4 DEF Clean
<1>7. ASSUME NEW u \in Int, Going(pipe, i, u) PROVE Clean(pipe', rib', i) \/ Going(pipe', i, u - shift)
  <2>1. PICK w \in 1..Len(pipe) :
          /\ w <= u /\ Wdr(i) \in pipe[w]
          /\ \A x \in 1..Len(pipe) : x >= w => Ann(i) \notin pipe[x]
    BY <1>7 DEF Going
  <2>2. CASE w = 1 /\ line = Wdr(i)
    <3>1. \A k \in 1..Len(pipe') : Ann(i) \notin pipe'[k]
      BY <1>1, <1>2, <2>1, <2>2
    <3>2. i \notin Obey(rib[p], line)
      BY <1>5, <2>2 DEF Obey, Wdr
    <3>3. \A q \in Processes : i \notin rib'[q]
      BY <1>3, <1>4, <3>2
    <3> QED BY <3>1, <3>3 DEF Clean
  <2>3. CASE w # 1 \/ line # Wdr(i)
    <3>1. w - shift \in 1..Len(pipe') /\ w - shift <= u - shift
      <4>1. ASSUME shift = 1 PROVE w # 1
        BY <2>1, <2>3, <4>1
      <4> QED BY <1>1, <2>1, <4>1
    <3>2. Wdr(i) \in pipe'[w - shift]
      <4>1. CASE shift = 1
        <5>1. w - 1 \in 1..Len(pipe') /\ (w - 1) + 1 = w
          BY <3>1, <4>1
        <5>2. pipe'[w - 1] = pipe[(w - 1) + 1]
          BY <4>1, <5>1
        <5> QED BY <2>1, <4>1, <5>1, <5>2
      <4>2. CASE shift = 0
        <5>1. w \in 1..Len(pipe') /\ w - shift = w
          BY <3>1, <4>2
        <5>2. pipe'[w] = IF w = 1 THEN pipe[1] \ {line} ELSE pipe[w]
          <6>1. shift # 1
            BY <4>2
          <6> QED BY <5>1, <6>1, Zenon
        <5>3. Wdr(i) \in pipe'[w]
          <6>1. CASE w = 1
            BY <2>1, <2>3, <5>2, <6>1
          <6>2. CASE w # 1
            BY <2>1, <5>2, <6>2
          <6> QED BY <6>1, <6>2
        <5> QED BY <5>1, <5>3
      <4> QED BY <4>1, <4>2
    <3>3. \A x \in 1..Len(pipe') : x >= w - shift => Ann(i) \notin pipe'[x]
      BY <1>1, <1>2, <2>1
    <3> QED BY <3>1, <3>2, <3>3 DEF Going
  <2> QED BY <2>2, <2>3
<1> QED BY <1>6, <1>7

\* A write after the check keeps the order: it announces no probe, and the
\* probes' withdrawal is before it.
LEMMA WriteOrdered ==
  ASSUME TypeOK, OrderInv, ~mishap, pc \notin Early, pc' \notin Early,
         NEW lines \in SUBSET Commands,
         \A i \in Probes : Ann(i) \notin lines,
         pipe' = Append(pipe, lines), rib' = rib
  PROVE  OrderInv'
<1>1. /\ \A i \in Probes : Gone(pipe, rib, i, Len(pipe))
      /\ \A k \in 1..Len(pipe), c \in Cases :
            Ann(c) \in pipe[k] => \A i \in Probes : Gone(pipe, rib, i, k - 1)
      /\ \A p \in Processes, c \in Cases :
            c \in rib[p] => \A i \in Probes : Clean(pipe, rib, i)
  BY Zenon DEF OrderInv
<1>2. Len(pipe) \in Nat /\ pipe \in Seq(SUBSET Commands)
  BY LenProperties DEF TypeOK, ExabgpOK
<1>3. /\ Len(pipe') = Len(pipe) + 1
      /\ \A k \in 1..Len(pipe) : pipe'[k] = pipe[k]
  BY <1>2, AppendProperties
<1>4. \A i \in Probes : /\ Clean(pipe, rib, i) => Clean(pipe', rib', i)
                        /\ \A u \in Int : Gone(pipe, rib, i, u) => Gone(pipe', rib', i, u)
  BY AppendKeeps DEF Gone
<1>5. \A i \in Probes : /\ Gone(pipe', rib', i, Len(pipe))
                        /\ Gone(pipe', rib', i, Len(pipe) + 1)
  <2>1. TAKE i \in Probes
  <2>2. Gone(pipe', rib', i, Len(pipe))
    BY <1>1, <1>2, <1>4
  <2>3. Going(pipe', i, Len(pipe)) => Going(pipe', i, Len(pipe) + 1)
    BY <1>2, <1>3 DEF Going
  <2> QED BY <2>2, <2>3 DEF Gone
<1>6. ASSUME NEW k \in 1..Len(pipe'), NEW c \in Cases, Ann(c) \in pipe'[k],
             NEW i \in Probes
      PROVE  Gone(pipe', rib', i, k - 1)
  <2>1. CASE k \in 1..Len(pipe)
    BY <1>1, <1>3, <1>4, <1>6, <2>1
  <2>2. CASE k = Len(pipe) + 1
    <3>1. k - 1 = Len(pipe)
      BY <1>2, <2>2
    <3> QED BY <1>5, <3>1
  <2> QED BY <1>2, <1>3, <2>1, <2>2
<1>7. \A p \in Processes, c \in Cases :
        c \in rib'[p] => \A i \in Probes : Clean(pipe', rib', i)
  BY <1>1, <1>4
<1>8. \A i \in Probes : Gone(pipe', rib', i, Len(pipe'))
  BY <1>3, <1>5
<1> QED BY <1>6, <1>7, <1>8 DEF OrderInv

\* A step that leaves the FIFO and what is advertised alone keeps the order,
\* unless it ends the check.
LEMMA StillOrdered ==
  ASSUME OrderInv, ~mishap, UNCHANGED <<pipe, rib>>,
         pc \notin Early => pc' \notin Early,
         pc' \in Early \/ pc \notin Early \/ Probes = {}
  PROVE  OrderInv'
BY Zenon DEF OrderInv

\* The helper's reading keeps the order.
LEMMA ServeOrdered ==
  ASSUME TypeOK, ProcsInv, OrderInv, ~mishap, pc' = pc,
         NEW p \in Processes, ServeFifo(p)
  PROVE  OrderInv'
<1>1. /\ pc \notin Early => \A i \in Probes : Gone(pipe, rib, i, Len(pipe))
      /\ \A k \in 1..Len(pipe), c \in Cases :
            Ann(c) \in pipe[k] =>
                pc \notin Early /\ \A i \in Probes : Gone(pipe, rib, i, k - 1)
      /\ \A q \in Processes, c \in Cases :
            c \in rib[q] => pc \notin Early /\ \A i \in Probes : Clean(pipe, rib, i)
  BY Zenon DEF OrderInv
<1>2. PICK line \in Commands :
         /\ Len(pipe) > 0 /\ line \in pipe[1]
         /\ rib' = [rib EXCEPT ![p] = Obey(rib[p], line)]
         /\ pipe' \in Seq(SUBSET Commands)
         /\ \/ /\ Len(pipe') = Len(pipe) - 1
               /\ pipe[1] = {line}
               /\ \A k \in 1..Len(pipe') : pipe'[k] = pipe[k + 1]
            \/ /\ Len(pipe') = Len(pipe)
               /\ \A k \in 1..Len(pipe') :
                    pipe'[k] = IF k = 1 THEN pipe[1] \ {line} ELSE pipe[k]
  BY ServeFrame
<1>3. Len(pipe) \in Nat /\ Len(pipe') \in Nat
  BY <1>2, LenProperties DEF TypeOK, ExabgpOK
<1>4. PICK shift \in {0, 1} :
         /\ Len(pipe') = Len(pipe) - shift
         /\ shift = 1 => pipe[1] = {line}
         /\ \A k \in 1..Len(pipe') : pipe'[k] = IF shift = 1 THEN pipe[k + 1]
                                      ELSE IF k = 1 THEN pipe[1] \ {line}
                                      ELSE pipe[k]
  <2>1. CASE /\ Len(pipe') = Len(pipe) - 1
             /\ pipe[1] = {line}
             /\ \A k \in 1..Len(pipe') : pipe'[k] = pipe[k + 1]
    <3>1. 1 \in {0, 1}
      OBVIOUS
    <3> QED BY <2>1, <3>1, Zenon
  <2>2. CASE /\ Len(pipe') = Len(pipe)
             /\ \A k \in 1..Len(pipe') :
                  pipe'[k] = IF k = 1 THEN pipe[1] \ {line} ELSE pipe[k]
    <3>1. Len(pipe') = Len(pipe) - 0 /\ 0 \in {0, 1} /\ 0 # 1
      BY <1>3, <2>2
    <3> QED BY <2>2, <3>1, Zenon
  <2> QED BY <1>2, <2>1, <2>2
<1>5. \A i \in Probes :
        /\ Clean(pipe, rib, i) => Clean(pipe', rib', i)
        /\ \A u \in Int : Gone(pipe, rib, i, u) => Gone(pipe', rib', i, u - shift)
  <2>1. TAKE i \in Probes
  <2>2. /\ Clean(pipe, rib, i) => Clean(pipe', rib', i)
        /\ \A u \in Int : Going(pipe, i, u) =>
             Clean(pipe', rib', i) \/ Going(pipe', i, u - shift)
    BY <1>2, <1>4, ServeClears
  <2> QED BY <2>2 DEF Gone
<1>6. ASSUME pc \notin Early, NEW i \in Probes
      PROVE  Gone(pipe', rib', i, Len(pipe'))
  BY <1>1, <1>3, <1>4, <1>5, <1>6
<1>7. ASSUME NEW k \in 1..Len(pipe'), NEW c \in Cases, Ann(c) \in pipe'[k]
      PROVE  pc \notin Early /\ \A i \in Probes : Gone(pipe', rib', i, k - 1)
  <2>1. k + shift \in 1..Len(pipe) /\ (k + shift) - 1 \in Int
        /\ ((k + shift) - 1) - shift = k - 1
    BY <1>3, <1>4
  <2>2. pipe'[k] \subseteq pipe[k + shift]
    <3>1. CASE shift = 1
      BY <1>4, <3>1
    <3>2. CASE shift = 0
      <4>1. k + shift = k /\ shift # 1
        BY <3>2
      <4>2. pipe'[k] = IF k = 1 THEN pipe[1] \ {line} ELSE pipe[k]
        BY <1>4, <4>1, Zenon
      <4> QED BY <4>1, <4>2
    <3> QED BY <3>1, <3>2
  <2>3. pc \notin Early /\ \A i \in Probes : Gone(pipe, rib, i, (k + shift) - 1)
    BY <1>1, <1>7, <2>1, <2>2
  <2>4. \A i \in Probes : Gone(pipe', rib', i, ((k + shift) - 1) - shift)
    BY <1>5, <2>1, <2>3
  <2> QED BY <2>1, <2>3, <2>4
<1>8. ASSUME NEW q \in Processes, NEW c \in Cases, c \in rib'[q]
      PROVE  pc \notin Early /\ \A i \in Probes : Clean(pipe', rib', i)
  <2>1. CASE c \in rib[q]
    BY <1>1, <1>5, <2>1
  <2>2. CASE c \notin rib[q]
    <3>1. c \in Obey(rib[p], line) /\ c \notin rib[p]
      BY <1>2, <1>8, <2>2 DEF TypeOK, ExabgpOK
    <3>2. line.op = "announce" /\ line.item = c
      BY <3>1 DEF Obey
    <3>3. line = Ann(c)
      <4>1. line \in Announce(Items)
        BY <3>2 DEF Commands, Announce, Withdraw
      <4> QED BY <3>2, <4>1 DEF Announce, Ann
    <3>4. 1 \in 1..Len(pipe) /\ 1 - 1 = 0
      BY <1>2, <1>3
    <3>5. pc \notin Early /\ \A i \in Probes : Gone(pipe, rib, i, 0)
      BY <1>1, <1>2, <3>3, <3>4
    <3>6. \A i \in Probes : ~Going(pipe, i, 0)
      BY <1>3 DEF Going
    <3> QED BY <1>5, <3>5, <3>6 DEF Gone
  <2> QED BY <2>1, <2>2
<1> QED BY <1>6, <1>7, <1>8, Zenon DEF OrderInv

\* A write during the check announces no case, and the last one withdraws
\* the probes.
LEMMA CheckOrdered ==
  ASSUME TypeOK, ProcsInv, OrderInv, ~mishap, ~mishap', ProbeCheck,
         pc \in Early, rib' = rib
  PROVE  OrderInv'
<1>1. pipe \in Seq(SUBSET Commands) /\ Len(pipe) \in Nat
  BY LenProperties DEF TypeOK, ExabgpOK
<1>2. procs = {1}
  BY DEF ProcsInv, Early, BeforeRestart
<1>3. /\ \A k \in 1..Len(pipe), c \in Cases : Ann(c) \notin pipe[k]
      /\ \A p \in Processes, c \in Cases : c \notin rib[p]
  BY Zenon DEF OrderInv
<1>4. Announce(Probes) \in SUBSET Commands /\ Withdraw(Probes) \in SUBSET Commands
  BY LinesTyped DEF Items
<1>5. \A c \in Cases : Ann(c) \notin Announce(Probes) /\ Ann(c) \notin Withdraw(Probes)
  BY LinesDiffer, ProbingAssumption
<1>6. ASSUME NEW lines \in SUBSET Commands, \A c \in Cases : Ann(c) \notin lines,
             pipe' = pipe \/ pipe' = Append(pipe, lines)
      PROVE  /\ \A k \in 1..Len(pipe'), c \in Cases : Ann(c) \notin pipe'[k]
             /\ \A p \in Processes, c \in Cases : c \notin rib'[p]
  <2>1. CASE pipe' = pipe
    BY <1>3, <2>1
  <2>2. CASE pipe' = Append(pipe, lines)
    <3>1. /\ Len(pipe') = Len(pipe) + 1 /\ pipe'[Len(pipe) + 1] = lines
          /\ \A k \in 1..Len(pipe) : pipe'[k] = pipe[k]
      BY <1>1, <2>2, AppendProperties
    <3>2. \A k \in 1..Len(pipe') : k \in 1..Len(pipe) \/ k = Len(pipe) + 1
      BY <1>1, <3>1
    <3> QED BY <1>3, <1>6, <3>1, <3>2
  <2> QED BY <1>6, <2>1, <2>2
<1>7. CASE AnnounceProbes \/ CheckBegins
  <2>1. Send(Announce(Probes)) /\ pc' \in Early
    BY <1>7 DEF AnnounceProbes, CheckBegins, GoTo, Early
  <2>2. pipe' = pipe \/ pipe' = Append(pipe, Announce(Probes))
    BY <1>4, <2>1, SendTyped
  <2>3. /\ \A k \in 1..Len(pipe'), c \in Cases : Ann(c) \notin pipe'[k]
        /\ \A p \in Processes, c \in Cases : c \notin rib'[p]
    BY <1>4, <1>5, <1>6, <2>2
  <2> QED BY <2>1, <2>3, Zenon DEF OrderInv
<1>8. CASE CheckEnds
  <2>1. Send(Withdraw(Probes)) /\ pc' = "withdraw"
    BY <1>8 DEF CheckEnds, WithdrawLines, GoTo
  <2>2. Withdraw(Probes) = {} \/ pipe' = Append(pipe, Withdraw(Probes))
    BY <1>2, <2>1, Zenon DEF Send, Mishap
  <2>3. pipe' = pipe \/ pipe' = Append(pipe, Withdraw(Probes))
    BY <1>4, <2>1, SendTyped
  <2>4. /\ \A k \in 1..Len(pipe'), c \in Cases : Ann(c) \notin pipe'[k]
        /\ \A p \in Processes, c \in Cases : c \notin rib'[p]
    BY <1>4, <1>5, <1>6, <2>3
  <2>5. ASSUME NEW i \in Probes PROVE Gone(pipe', rib', i, Len(pipe'))
    <3>1. Wdr(i) \in Withdraw(Probes) /\ Ann(i) \notin Withdraw(Probes)
      BY LinesDiffer
    <3>2. pipe' = Append(pipe, Withdraw(Probes))
      BY <2>2, <3>1
    <3>3. /\ Len(pipe') = Len(pipe) + 1
          /\ \A u \in Int : u > Len(pipe) => Going(pipe', i, u)
      BY <1>4, <3>1, <3>2, AppendKeeps
    <3> QED BY <1>1, <3>3 DEF Gone
  <2> QED BY <2>4, <2>5, Zenon DEF OrderInv
<1>9. ~WithdrawProbes
  BY DEF WithdrawProbes, Early
<1> QED BY <1>7, <1>8, <1>9 DEF ProbeCheck

\* The harness's writes after the check announce no probe.
LEMMA QuietOrdered ==
  ASSUME TypeOK, ProcsInv, OrderInv, ~mishap, ~mishap', Quiet, rib' = rib
  PROVE  OrderInv'
<1>1. CASE ProbeCheck /\ pc \in Early
  BY <1>1, CheckOrdered
<1>2. CASE pc \notin Early
  <2>1. pc' \notin Early
    BY <1>2, QuietFlow
  <2>2. CASE UNCHANGED pipe
    BY <1>2, <2>1, <2>2, StillOrdered
  <2>3. ASSUME NEW lines \in SUBSET Commands, \A i \in Probes : Ann(i) \notin lines,
               pipe' = Append(pipe, lines)
        PROVE  OrderInv'
    BY <1>2, <2>1, <2>3, WriteOrdered
  <2>4. ASSUME NEW items \in SUBSET Items, Send(Withdraw(items)) PROVE OrderInv'
    <3>1. Withdraw(items) \in SUBSET Commands
      BY LinesTyped
    <3>2. \A i \in Probes : Ann(i) \notin Withdraw(items)
      BY LinesDiffer
    <3>3. pipe' = pipe \/ pipe' = Append(pipe, Withdraw(items))
      BY <2>4, <3>1, SendTyped
    <3> QED BY <2>2, <2>3, <3>1, <3>2, <3>3
  <2>5. CASE AnnounceCases
    <3>1. BurstCases \in SUBSET Items /\ BurstCases \cap Probes = {}
      BY ProbingAssumption DEF BurstCases, Items
    <3>2. Announce(BurstCases) \in SUBSET Commands
      BY <3>1, LinesTyped
    <3>3. \A i \in Probes : Ann(i) \notin Announce(BurstCases)
      BY <3>1, LinesDiffer
    <3>4. pipe' = pipe \/ pipe' = Append(pipe, Announce(BurstCases))
      BY <2>5, <3>2, SendTyped DEF AnnounceCases
    <3> QED BY <2>2, <2>3, <3>2, <3>3, <3>4
  <2>6. CASE SendCase \/ RetractCase
    <3>1. cur \in Cases
      BY <2>6 DEF SendCase, RetractCase, TypeOK, HarnessOK
    <3>2. PICK line \in {Ann(cur), Wdr(cur)} : SendOne(line)
      BY <2>6 DEF SendCase, RetractCase, Ann, Wdr
    <3>3. line \in Commands
      BY <3>1, LinesTyped DEF Items, Ann, Wdr
    <3>4. \A i \in Probes : Ann(i) \notin {line}
      BY <3>1, <3>2, LinesDiffer, ProbingAssumption
    <3>5. pipe' = pipe \/ pipe' = Append(pipe, {line})
      BY <3>2, <3>3, SendOneTyped
    <3>6. {line} \in SUBSET Commands
      BY <3>3
    <3> QED BY <2>2, <2>3, <3>4, <3>5, <3>6
  <2>7. Probes \in SUBSET Items /\ BurstCases \in SUBSET Items
    BY DEF BurstCases, Items
  <2>8. \/ UNCHANGED pipe \/ Send(Withdraw(Probes)) \/ Send(Withdraw(BurstCases))
        \/ AnnounceCases \/ SendCase \/ RetractCase
    <3>1. ~AnnounceProbes /\ ~CheckBegins /\ ~CheckEnds
      BY <1>2 DEF AnnounceProbes, CheckBegins, CheckEnds, Early
    <3> QED BY <3>1, Zenon
            DEF Quiet, ProbeCheck, WithdrawProbes, BurstEnds, WithdrawCases,
                MeasureCase, IsolationEnds, WithdrawLines, channelVars
  <2> QED BY <2>2, <2>4, <2>5, <2>6, <2>7, <2>8
<1>3. pc \in Early => ProbeCheck
  BY DEF Early, Quiet, AnnounceCases, BurstEnds, WithdrawCases, SendCase,
         MeasureCase, RetractCase, IsolationEnds
<1> QED BY <1>1, <1>2, <1>3

\* The order of the writes is kept.
LEMMA OrderKept == TypeOK /\ ProcsInv /\ OrderInv /\ [Next]_vars => OrderInv'
<1> SUFFICES ASSUME TypeOK, ProcsInv, OrderInv, [Next]_vars, ~mishap'
             PROVE  OrderInv'
  BY Zenon DEF OrderInv
<1>1. ~mishap
  BY MishapStays
<1>2. CASE Environment
  <2>1. pc' = pc
    BY <1>2 DEF Environment, harnessVars
  <2>2. late = {} /\ (procs = {} \/ procs = {1} \/ procs = {2})
    BY <1>1 DEF ProcsInv
  <2>3. ~OldProcessDies
    BY <2>2 DEF OldProcessDies
  <2>4. (\E p \in Processes : ServeFifo(p)) \/ UNCHANGED <<pipe, rib>>
    BY <1>2, <2>2, <2>3
    DEF Environment, LateWrite, Connect, Hear, HearWithdrawn, SessionLost,
        exabgpVars, channelVars
  <2>5. CASE UNCHANGED <<pipe, rib>>
    BY <1>1, <2>1, <2>5, Zenon DEF OrderInv
  <2> QED BY <1>1, <2>1, <2>4, <2>5, ServeOrdered
<1>3. CASE Quiet /\ UNCHANGED <<routerVars, exabgpVars>>
  BY <1>1, <1>3, QuietOrdered DEF exabgpVars
<1>4. CASE \/ BurstBegins /\ UNCHANGED exabgpVars
           \/ (\E m \in Cases : CaseBegins(m)) /\ UNCHANGED exabgpVars
           \/ StartExabgp /\ UNCHANGED <<routerVars, channelVars>>
  <2>1. UNCHANGED <<pipe, rib>> /\ pc \notin Early /\ pc' \notin Early
    BY <1>4 DEF BurstBegins, CaseBegins, StartExabgp, GoTo, exabgpVars,
                channelVars, Early
  <2> QED BY <1>1, <2>1, StillOrdered
<1>5. CASE KillExabgp
  <2>1. Dies(1) /\ pc = "kill" /\ pc' = "start"
    BY <1>5, Zenon DEF KillExabgp, TermSent, GoTo
  <2>2. procs = {1} /\ \A p \in Processes : p \notin procs => rib[p] = {}
    BY <1>1, <2>1 DEF ProcsInv, BeforeRestart
  <2>3. pipe' = <<>> /\ \A p \in Processes : rib'[p] = {}
    BY <2>1, <2>2 DEF Dies, TypeOK, ExabgpOK
  <2>4. Len(pipe') = 0
    BY <2>3
  <2> QED BY <2>3, <2>4 DEF OrderInv, Gone, Clean
<1>6. CASE UNCHANGED vars
  <2>1. UNCHANGED <<pc, pipe, rib, mishap>>
    BY <1>6 DEF vars, exabgpVars, channelVars, harnessVars
  <2> QED BY <1>1, <2>1, Zenon DEF OrderInv
<1> QED BY <1>2, <1>3, <1>4, <1>5, <1>6 DEF Next, Harness

\* No process advertises a probe and a case at once, however far behind the
\* helper is, unless a write was lost or late (FINDINGS.md H-9).
THEOREM ProbesGoFirst == Spec => []ProbesGoneFirst
<1>1. Init => ProcsInv /\ OrderInv
  BY DEF Init, ProcsInv, OrderInv, BeforeRestart, Early
<1>2. OrderInv => ProbesGoneFirst
  <2> SUFFICES ASSUME OrderInv, ~mishap, NEW p \in Processes,
                      NEW i \in Probes, i \in rib[p],
                      NEW c \in Cases, c \in rib[p]
               PROVE  FALSE
    BY DEF ProbesGoneFirst
  <2>1. Clean(pipe, rib, i)
    BY Zenon DEF OrderInv
  <2> QED BY <2>1 DEF Clean
<1> QED BY <1>1, <1>2, OrderKept, ProcsKept, TypeCorrect, PTL DEF Spec
=============================================================================
