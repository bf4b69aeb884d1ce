-------------------------- MODULE PredicatesProofs --------------------------
(***************************************************************************)
(* Proofs about Predicates, for every value of its constants.              *)
(***************************************************************************)
EXTENDS Predicates, FiniteSetTheorems, TLAPS

----------------------------------------------------------------------------
(* Types *)

\* The record that stands for `nothing yet' is a record.
LEMMA NoSampleTyped == NoSample \in Sample
  BY DEF NoSample, Sample, Kinds, Gone

\* The initial state is well typed.
LEMMA InitTyped == Init => TypeOK
<1> SUFFICES ASSUME Init PROVE TypeOK
  OBVIOUS
<1>1. FlagsOK
  BY Zenon DEF Init, FlagsOK
<1>2. RecordsOK
  BY NoSampleTyped DEF Init, RecordsOK
<1>3. CountsOK
  BY DEF Init, CountsOK, Gone
<1>4. StatesOK /\ ReportsOK
  BY DEF Init, StatesOK, ReportsOK
<1> QED BY <1>1, <1>2, <1>3, <1>4 DEF TypeOK

\* The router's steps and the clock keep the types.
LEMMA DutTyped == TypeOK /\ (Dut \/ Tick) => TypeOK'
<1> SUFFICES ASSUME TypeOK, Dut \/ Tick PROVE TypeOK'
  OBVIOUS
<1> USE DEF TypeOK, Dut, Tick, samplerVars, predVars, runVars, dutVars,
            historyVars
<1>1. FlagsOK'
  BY Zenon DEF FlagsOK, BgpdDies, BgpdStarts, SessionsFail, SessionsRecover,
               ContainerStops
<1>2. RecordsOK' /\ ReportsOK'
  BY DEF RecordsOK, ReportsOK
<1>3. /\ now' \in {now, now + 1} /\ faults' \in {faults, faults + 1}
      /\ newest' \in {newest, newest + 1} /\ bgpd' \in {bgpd, Gone, newest + 1}
  BY Zenon DEF BgpdDies, BgpdStarts, SessionsFail, SessionsRecover,
               ContainerStops, Fault
<1>4. CountsOK'
  BY <1>3 DEF CountsOK, Gone
<1>5. StatesOK'
  BY DEF StatesOK, BgpdDies, BgpdStarts, SessionsFail, SessionsRecover,
         ContainerStops
<1> QED BY <1>1, <1>2, <1>4, <1>5

\* The sampler's steps keep the types.
LEMMA SamplerTyped == TypeOK /\ Sampler => TypeOK'
<1> SUFFICES ASSUME TypeOK, Sampler PROVE TypeOK'
  OBVIOUS
<1> USE DEF TypeOK, Sampler, historyVars, predVars, runVars
<1>1. FlagsOK' /\ StatesOK' /\ ReportsOK'
  BY DEF FlagsOK, StatesOK, ReportsOK
<1>2. faults' \in {faults, faults + 1}
  BY Zenon DEF SampleDown, SampleBgp, SampleRest, Fault
<1>3. CountsOK'
  BY <1>2 DEF CountsOK
<1>4. RecordsOK'
  <2> USE NoSampleTyped DEF RecordsOK, Sample, Kinds, CountsOK
  <2>1. CASE SampleDown
    BY <2>1 DEF SampleDown, BeginSample
  <2>2. CASE SampleBgp
    <3>1. (down # {}) \in BOOLEAN
      BY Zenon
    <3>2. draft' \in Sample
      BY <2>2, <3>1 DEF SampleBgp
    <3> QED BY <2>2, <3>2 DEF SampleBgp
  <2>3. CASE SampleRest
    BY <2>3 DEF SampleRest, Gone
  <2> QED BY <2>1, <2>2, <2>3
<1> QED BY <1>1, <1>3, <1>4

\* What the steps of the run that judge a record have in common.
Judging ==
    /\ Check(latest)
    /\ codes' \subseteq codes \cup CodesFor(latest)
    /\ seen' \in {seen, seen \cup {Key(v) : v \in NewRestarts(latest)}}
    /\ \/ restartReports' \in {restartReports \cup NewRestarts(latest),
                              restartReports \cup RestartsIn(latest)}
       \/ stopOnViolation /\ restartReports' = restartReports

\* Only a run that stops on a violation drops a report.
LEMMA Judges ==
  ASSUME RunGoesOn \/ StopOnViolation \/ Interrupt \/ Final
  PROVE  Judging /\ UNCHANGED announced
<1>1. CASE RunGoesOn
  BY <1>1, Zenon DEF RunGoesOn, BoundaryFrame, CheckNew, Report, Judging
<1>2. CASE StopOnViolation
  <2>1. /\ Check(latest) /\ UNCHANGED announced /\ stopOnViolation
        /\ seen' = seen \cup {Key(v) : v \in NewRestarts(latest)}
    BY <1>2, Zenon DEF StopOnViolation, BoundaryFrame, CheckNew
  <2>2. CASE "failed_peers" \in NewFaults(latest)
    <3>1. "failed_peers" \in CodesFor(latest)
      BY <2>2, Zenon DEF NewFaults
    <3>2. /\ codes' = codes \cup {"failed_peers"}
          /\ restartReports' = restartReports \cup {}
      BY <1>2, <2>2, Zenon DEF StopOnViolation, Report
    <3>3. restartReports' = restartReports
      BY <3>2
    <3> QED BY <2>1, <3>1, <3>2, <3>3, Zenon DEF Judging
  <2>3. CASE "failed_peers" \notin NewFaults(latest)
    BY <1>2, <2>1, <2>3, Zenon DEF StopOnViolation, Report, Judging
  <2> QED BY <2>2, <2>3
<1>3. CASE Interrupt \/ Final
  BY <1>3, Zenon DEF Interrupt, Final, CheckFinal, Report, Judging
<1> QED BY <1>1, <1>2, <1>3

\* The only report a judged record can lead to, and its key.
LEMMA OneReport ==
  ASSUME Judging
  PROVE  /\ restartReports' \in {restartReports, restartReports
                                 \cup {RestartViolation(latest)}}
         /\ seen' \in {seen, seen \cup {Key(RestartViolation(latest))}}
<1> DEFINE v == RestartViolation(latest)
<1>1. RestartsIn(latest) \in {{}, {v}}
  BY Zenon DEF RestartsIn
<1>2. NewRestarts(latest) \in {{}, {v}}
  BY <1>1 DEF NewRestarts
<1> HIDE DEF v
<1>3. {Key(w) : w \in NewRestarts(latest)} \in {{}, {Key(v)}}
  BY <1>2
<1>4. seen' \in {seen, seen \cup {Key(v)}}
  BY <1>3 DEF Judging
<1>5. restartReports' \in {restartReports, restartReports \cup {v}}
  BY <1>1, <1>2 DEF Judging
<1> QED BY <1>4, <1>5 DEF v

\* A record judged keeps the types of what the predicates remember.
LEMMA CheckTyped ==
  ASSUME TypeOK, Judging
  PROVE  /\ restarts' \in {restarts, restarts + 1}
         /\ knownPid' \in {knownPid, latest.pid}
         /\ expect' \in BOOLEAN
         /\ codes' \subseteq {"telemetry_read_failed", "dut_container_down",
                              "failed_peers", "bgpd_gone"}
         /\ ReportsOK'
<1> DEFINE v == RestartViolation(latest)
<1>1. v \in Restart /\ Key(v) \in {"info", "fail"} \X Nat \X Nat
  BY DEF TypeOK, RestartViolation, Key, Restart, CountsOK, RecordsOK, Sample
<1>2. ReportsOK'
  BY <1>1, OneReport DEF TypeOK, ReportsOK
<1>3. CodesFor(latest) \subseteq {"telemetry_read_failed",
                         "dut_container_down", "failed_peers", "bgpd_gone"}
  BY DEF CodesFor, TypeOK, RecordsOK, Sample, Kinds
<1>4. expect' \in BOOLEAN
  BY Zenon DEF Judging, Check, UsesAnnouncement
<1>5. /\ restarts' \in {restarts, restarts + 1}
      /\ knownPid' \in {knownPid, latest.pid}
  BY Zenon DEF Judging, Check
<1>6. codes' \subseteq {"telemetry_read_failed", "dut_container_down",
                       "failed_peers", "bgpd_gone"}
  BY <1>3 DEF Judging, TypeOK, StatesOK
<1> QED BY <1>2, <1>4, <1>5, <1>6

\* The run's steps keep the types.
LEMMA RunTyped == TypeOK /\ Run => TypeOK'
<1> SUFFICES ASSUME TypeOK, Run PROVE TypeOK'
  OBVIOUS
<1>1. CASE Event
  <2> USE <1>1 DEF TypeOK, Event, FlapBegin, FlapLifted, FlapEnd, FlapRaises,
        RestartBegin, RestartEnd, OtherEvent, BeginEvent, samplerVars
  <2>1. FlagsOK'
    BY Zenon DEF FlagsOK, ImpairBegin, ImpairEnd, LiftOnError
  <2>2. /\ events' \in {events, events + 1} /\ faults' \in {faults, faults + 1}
        /\ announced' \in {announced, announced + 1}
        /\ newest' \in {newest, newest + 1}
        /\ bgpd' \in {bgpd, Gone, newest + 1}
        /\ liftedAt' \in {liftedAt, now}
        /\ impairUntil' \in {impairUntil, now + Grace}
    BY Zenon DEF Fault, ImpairBegin, ImpairEnd, LiftOnError
  <2>3. CountsOK'
    BY <2>2, PredicatesAssumption DEF CountsOK, Gone
  <2>4. StatesOK'
    BY DEF StatesOK
  <2>5. RecordsOK' /\ ReportsOK'
    BY DEF RecordsOK, ReportsOK
  <2> QED BY <2>1, <2>3, <2>4, <2>5
<1>2. CASE /\ RunGoesOn \/ StopOnViolation \/ EndOfChaos \/ Interrupt \/ Final
           /\ UNCHANGED <<now, dutVars, faults, historyVars, samplerVars,
                          stopOnViolation>>
  <2> USE <1>2 DEF dutVars, historyVars, samplerVars
  <2>1. /\ restarts' \in {restarts, restarts + 1}
        /\ knownPid' \in {knownPid, latest.pid}
        /\ expect' \in BOOLEAN
        /\ codes' \subseteq {"telemetry_read_failed", "dut_container_down",
                             "failed_peers", "bgpd_gone"}
        /\ ReportsOK'
    <3>1. CASE EndOfChaos
      BY <3>1 DEF EndOfChaos, TypeOK, FlagsOK, StatesOK, ReportsOK
    <3>2. CASE RunGoesOn \/ StopOnViolation \/ Interrupt \/ Final
      BY <3>2, CheckTyped, Judges
    <3> QED BY <3>1, <3>2
  <2>2. /\ impairUntil' \in {impairUntil, now + Grace}
        /\ impaired' \in {impaired, FALSE}
    BY Zenon DEF RunGoesOn, StopOnViolation, BoundaryFrame, EndOfChaos,
                 Interrupt, Final, LiftOnError, ImpairEnd
  <2>3. UNCHANGED <<events, liftedAt, announced>>
    BY DEF RunGoesOn, StopOnViolation, BoundaryFrame, EndOfChaos, Interrupt,
           Final
  <2>4. pc' \in {"gap", "final", "done"}
    BY DEF RunGoesOn, StopOnViolation, BoundaryFrame, EndOfChaos, Interrupt,
           Final
  <2>5. FlagsOK'
    BY <2>1, <2>2 DEF TypeOK, FlagsOK
  <2>6. CountsOK'
    BY <2>1, <2>2, <2>3, PredicatesAssumption
    DEF TypeOK, CountsOK, RecordsOK, Sample
  <2>7. StatesOK' /\ RecordsOK'
    BY <2>1, <2>4 DEF TypeOK, StatesOK, RecordsOK
  <2> QED BY <2>1, <2>5, <2>6, <2>7 DEF TypeOK
<1> QED BY <1>1, <1>2 DEF Run

\* Every variable keeps its type.
THEOREM TypeCorrect == Spec => []TypeOK
<1>1. TypeOK /\ [Next]_vars => TypeOK'
  <2> SUFFICES ASSUME TypeOK, [Next]_vars PROVE TypeOK'
    OBVIOUS
  <2>1. CASE Next
    BY <2>1, DutTyped, SamplerTyped, RunTyped DEF Next
  <2>2. CASE UNCHANGED vars
    BY <2>2 DEF TypeOK, FlagsOK, RecordsOK, CountsOK, StatesOK, ReportsOK,
                vars, dutVars, historyVars, samplerVars, predVars, runVars
  <2> QED BY <2>1, <2>2
<1> QED BY <1>1, InitTyped, PTL DEF Spec

----------------------------------------------------------------------------
(* Pids grow on their way to the predicates *)

\* What judging a record does to what is remembered and reported: nothing,
\* or one restart more, which has not been reported before.
LEMMA Judged ==
  ASSUME TypeOK, PidsInv, Judging
  PROVE
    \/ /\ UNCHANGED <<restarts, expect, restartReports, seen>>
       /\ \/ UNCHANGED knownPid
          \/ latest.pid # Gone /\ knownPid' = latest.pid /\ knownPid = Gone
    \/ /\ latest.pid # Gone /\ knownPid # Gone /\ knownPid < latest.pid
       /\ restarts' = restarts + 1 /\ knownPid' = latest.pid /\ ~expect'
       /\ \/ restartReports' = restartReports \cup {RestartViolation(latest)}
          \/ stopOnViolation /\ restartReports' = restartReports
       /\ seen' \in {seen, seen \cup {Key(RestartViolation(latest))}}
<1> DEFINE v == RestartViolation(latest)
<1>1. Check(latest)
  BY DEF Judging
<1>2. latest.pid \in Nat /\ knownPid \in Nat /\ expect \in BOOLEAN
  BY DEF TypeOK, RecordsOK, Sample, CountsOK, FlagsOK
<1>3. CASE ~PidChanged(latest)
  <2>1. UNCHANGED <<restarts, restartReports, seen>>
    <3>1. RestartsIn(latest) = {} /\ restarts' = restarts
      BY <1>1, <1>3, Zenon DEF RestartsIn, Check
    <3>2. NewRestarts(latest) = {}
      BY <3>1 DEF NewRestarts
    <3>3. seen' = seen /\ restartReports' = restartReports
      BY <3>1, <3>2 DEF Judging
    <3> QED BY <3>1, <3>3
  <2>2. UNCHANGED expect
    BY <1>1, <1>2, <1>3 DEF Check, UsesAnnouncement
  <2>3. \/ UNCHANGED knownPid
        \/ latest.pid # Gone /\ knownPid' = latest.pid /\ knownPid = Gone
    BY <1>1, <1>2, <1>3 DEF Check, PidChanged
  <2> QED BY <2>1, <2>2, <2>3
<1>4. CASE PidChanged(latest)
  <2>1. latest.pid # Gone /\ knownPid # Gone /\ knownPid < latest.pid
    BY <1>2, <1>4 DEF PidChanged, PidsInv
  <2>2. restarts' = restarts + 1 /\ knownPid' = latest.pid /\ ~expect'
    BY <1>1, <1>4 DEF Check, PidChanged, UsesAnnouncement
  <2>3. Key(v) \notin seen
    <3>1. Key(v)[3] = latest.pid
      BY DEF Key, RestartViolation
    <3>2. \A k \in seen : k[3] <= knownPid
      BY DEF PidsInv
    <3> QED BY <1>2, <2>1, <3>1, <3>2
  <2>4. \/ restartReports' = restartReports \cup {v}
        \/ stopOnViolation /\ restartReports' = restartReports
    <3>1. RestartsIn(latest) = {v}
      BY <1>4, Zenon DEF RestartsIn
    <3> HIDE DEF v
    <3>2. NewRestarts(latest) = {v}
      BY <2>3, <3>1 DEF NewRestarts
    <3> QED BY <3>1, <3>2 DEF Judging
  <2> QED BY <2>1, <2>2, <2>4, OneReport
<1> QED BY <1>3, <1>4

\* PidsInv is inductive.
THEOREM PidsGrow == Spec => []PidsInv
<1>1. Init => PidsInv
  <2> SUFFICES ASSUME Init PROVE PidsInv
    OBVIOUS
  <2>1. seen = {} /\ bgpd = 1 /\ newest = 1 /\ knownPid = Gone
    BY DEF Init
  <2>2. draft.pid = Gone /\ latest.pid = Gone
    BY DEF Init, NoSample
  <2> QED BY <2>1, <2>2 DEF PidsInv, Gone
<1>2. TypeOK /\ PidsInv /\ [Next]_vars => PidsInv'
  <2> SUFFICES ASSUME TypeOK, PidsInv, [Next]_vars PROVE PidsInv'
    OBVIOUS
  <2>1. CASE Dut \/ Tick
    <3>1. UNCHANGED <<draft, latest, knownPid, seen>>
      BY <2>1 DEF Dut, Tick, samplerVars, predVars
    <3>2. \/ UNCHANGED <<bgpd, newest>>
          \/ bgpd' = Gone /\ newest' = newest
          \/ bgpd' = newest + 1 /\ newest' = newest + 1
      BY <2>1, Zenon DEF Dut, Tick, BgpdDies, BgpdStarts, SessionsFail,
                         SessionsRecover, ContainerStops, dutVars
    <3> QED BY <3>1, <3>2 DEF PidsInv, TypeOK, CountsOK, RecordsOK, Sample,
                              Gone
  <2>2. CASE Sampler
    <3>1. UNCHANGED <<bgpd, newest, knownPid, seen>>
      BY <2>2 DEF Sampler, predVars
    <3>2. draft'.pid = Gone
      <4>1. CASE SampleDown
        BY <4>1 DEF SampleDown, PidsInv
      <4>2. CASE SampleBgp
        BY <4>2 DEF SampleBgp, NoSample
      <4>3. CASE SampleRest
        BY <4>3 DEF SampleRest, NoSample
      <4> QED BY <2>2, <4>1, <4>2, <4>3 DEF Sampler
    <3>3. latest'.pid \in {latest.pid, Gone, bgpd}
      <4>1. CASE SampleDown
        BY <4>1 DEF SampleDown, NoSample
      <4>2. CASE SampleBgp
        BY <4>2 DEF SampleBgp
      <4>3. CASE SampleRest
        BY <4>3, <2>2 DEF SampleRest, TypeOK, RecordsOK, Sample
      <4> QED BY <2>2, <4>1, <4>2, <4>3 DEF Sampler
    <3> QED BY <3>1, <3>2, <3>3 DEF PidsInv, TypeOK, CountsOK, Gone
  <2>3. CASE Event
    <3>1. UNCHANGED <<draft, latest, knownPid, seen>>
      BY <2>3 DEF Event, samplerVars
    <3>2. \/ UNCHANGED <<bgpd, newest>>
          \/ bgpd' = Gone /\ newest' = newest
          \/ bgpd' = newest + 1 /\ newest' = newest + 1
      BY <2>3 DEF Event, FlapBegin, FlapLifted, FlapEnd, FlapRaises,
                  RestartBegin, RestartEnd, OtherEvent
    <3> QED BY <3>1, <3>2 DEF PidsInv, TypeOK, CountsOK, RecordsOK, Sample,
                              Gone
  <2>4. CASE /\ RunGoesOn \/ StopOnViolation \/ EndOfChaos \/ Interrupt \/ Final
             /\ UNCHANGED <<now, dutVars, faults, historyVars, samplerVars,
                            stopOnViolation>>
    <3>1. UNCHANGED <<bgpd, newest, draft, latest>>
      BY <2>4 DEF dutVars, samplerVars
    <3>2. UNCHANGED <<knownPid, seen>> \/ Judging
      BY <2>4, Judges DEF EndOfChaos
    <3>3. CASE UNCHANGED <<knownPid, seen>>
      BY <3>1, <3>3 DEF PidsInv
    <3>4. CASE Judging
      <4>1. /\ knownPid <= knownPid' /\ knownPid' <= newest
            /\ knownPid' \in {knownPid, latest.pid}
            /\ seen' \subseteq seen \cup {Key(RestartViolation(latest))}
            /\ seen' = seen \/ knownPid' = latest.pid
        BY <3>4, Judged DEF PidsInv, TypeOK, CountsOK, RecordsOK, Sample, Gone
      <4>2. Key(RestartViolation(latest))[3] = latest.pid
        BY DEF Key, RestartViolation
      <4>3. \A k \in seen : k[3] \in Nat
        BY DEF TypeOK, ReportsOK
      <4>4. \A k \in seen' : k[3] <= knownPid'
        BY <4>1, <4>2, <4>3 DEF PidsInv, TypeOK, CountsOK, RecordsOK, Sample
      <4> QED BY <3>1, <4>1, <4>4
              DEF PidsInv, TypeOK, CountsOK, RecordsOK, Sample, Gone
    <3> QED BY <3>2, <3>3, <3>4
  <2>5. CASE UNCHANGED vars
    BY <2>5 DEF PidsInv, vars, dutVars, samplerVars, predVars
  <2> QED BY <2>1, <2>2, <2>3, <2>4, <2>5 DEF Next, Run
<1> QED BY <1>1, <1>2, TypeCorrect, PTL DEF Spec

----------------------------------------------------------------------------
(* The impairment of a flap *)

\* The run's steps, as far as they touch the declaration of an impairment.
LEMMA ImpairFrame ==
  ASSUME Run
  PROVE
    /\ now' = now
    /\ \/ pc' = "flap" /\ impaired' /\ UNCHANGED <<impairUntil, liftedAt>>
       \/ /\ pc = "flap" /\ pc' = "verify" /\ liftedAt' = now
          /\ UNCHANGED <<impaired, impairUntil>>
       \/ /\ pc' \notin {"flap", "verify"} /\ ~impaired'
          /\ impairUntil' = now + Grace /\ UNCHANGED liftedAt
       \/ /\ pc \notin {"flap", "verify"} /\ pc' \notin {"flap", "verify"}
          /\ UNCHANGED <<impaired, impairUntil, liftedAt>>
<1> USE DEF Run, BeginEvent
<1>1. CASE Event
  <2> USE <1>1 DEF Event
  <2>1. CASE FlapBegin
    BY <2>1 DEF FlapBegin, ImpairBegin
  <2>2. CASE FlapLifted
    BY <2>2 DEF FlapLifted
  <2>3. CASE FlapEnd \/ FlapRaises
    BY <2>3 DEF FlapEnd, FlapRaises, LiftOnError, ImpairEnd
  <2>4. CASE RestartBegin \/ RestartEnd \/ OtherEvent
    BY <2>4 DEF RestartBegin, RestartEnd, OtherEvent
  <2> QED BY <2>1, <2>2, <2>3, <2>4
<1>2. CASE /\ RunGoesOn \/ StopOnViolation \/ EndOfChaos \/ Interrupt \/ Final
           /\ UNCHANGED <<now, dutVars, faults, historyVars, samplerVars,
                          stopOnViolation>>
  <2>1. CASE RunGoesOn \/ StopOnViolation \/ EndOfChaos \/ Final
    BY <1>2, <2>1 DEF RunGoesOn, StopOnViolation, BoundaryFrame, EndOfChaos,
                      Final
  <2>2. CASE Interrupt /\ pc \in {"flap", "verify"}
    BY <1>2, <2>2 DEF Interrupt, LiftOnError, ImpairEnd
  <2>3. CASE Interrupt /\ pc \notin {"flap", "verify"}
    BY <1>2, <2>3 DEF Interrupt
  <2> QED BY <1>2, <2>1, <2>2, <2>3
<1> QED BY <1>1, <1>2

\* An impairment is declared exactly while a flap is under way, and what is
\* left of its grace is no more than Grace.
THEOREM ImpairedWhileFlapping == Spec => []ImpairedInv
<1>1. Init => ImpairedInv
  BY PredicatesAssumption DEF Init, ImpairedInv
<1>2. TypeOK /\ ImpairedInv /\ [Next]_vars => ImpairedInv'
  <2> SUFFICES ASSUME TypeOK, ImpairedInv, [Next]_vars PROVE ImpairedInv'
    OBVIOUS
  <2> USE DEF TypeOK, CountsOK
  <2>1. CASE Run
    <3>1. (impaired <=> pc \in {"flap", "verify"})'
      <4>1. impaired <=> pc \in {"flap", "verify"}
        BY DEF ImpairedInv
      <4>2. \/ pc' = "flap" /\ impaired'
            \/ pc = "flap" /\ pc' = "verify" /\ UNCHANGED impaired
            \/ pc' \notin {"flap", "verify"} /\ ~impaired'
            \/ /\ pc \notin {"flap", "verify"}
               /\ pc' \notin {"flap", "verify"} /\ UNCHANGED impaired
        BY <2>1, ImpairFrame
      <4>3. CASE pc' = "flap" /\ impaired'
        BY <4>3
      <4>4. CASE pc = "flap" /\ pc' = "verify" /\ UNCHANGED impaired
        <5>1. impaired'
          BY <4>1, <4>4, Zenon
        <5> QED BY <4>4, <5>1
      <4>5. CASE pc' \notin {"flap", "verify"} /\ ~impaired'
        BY <4>5
      <4>6. CASE /\ pc \notin {"flap", "verify"}
                 /\ pc' \notin {"flap", "verify"} /\ UNCHANGED impaired
        BY <4>1, <4>6, Zenon
      <4> QED BY <4>2, <4>3, <4>4, <4>5, <4>6
    <3>2. (impairUntil <= now + Grace /\ liftedAt <= now)'
      BY <2>1, ImpairFrame, PredicatesAssumption DEF ImpairedInv
    <3> QED BY <3>1, <3>2 DEF ImpairedInv
  <2>2. CASE Dut \/ Tick \/ Sampler \/ UNCHANGED vars
    <3>1. /\ now' \in {now, now + 1}
          /\ UNCHANGED <<pc, impaired, impairUntil, liftedAt>>
      BY <2>2 DEF Dut, Tick, Sampler, vars, predVars, runVars
    <3>2. (impaired <=> pc \in {"flap", "verify"})'
      BY <3>1, Zenon DEF ImpairedInv
    <3>3. (impairUntil <= now + Grace /\ liftedAt <= now)'
      <4>1. /\ now' = now \/ now' = now + 1
            /\ impairUntil' = impairUntil /\ liftedAt' = liftedAt
            /\ impairUntil <= now + Grace /\ liftedAt <= now
        BY <3>1, Zenon DEF ImpairedInv
      <4>2. /\ now \in Nat /\ impairUntil \in Nat /\ liftedAt \in Nat
            /\ Grace \in Nat
        BY PredicatesAssumption
      <4> HIDE DEF TypeOK
      <4> QED BY <4>1, <4>2
    <3> QED BY <3>2, <3>3, Zenon DEF ImpairedInv
  <2> QED BY <2>1, <2>2 DEF Next
<1> QED BY <1>1, <1>2, TypeCorrect, PTL DEF Spec

\* Whichever way an event ends, nothing stays declared behind it.
THEOREM SuppressionEnds == Spec => []ImpairmentHasAnEnd
<1>1. ImpairedInv => ImpairmentHasAnEnd
  BY DEF ImpairedInv, ImpairmentHasAnEnd
<1> QED BY <1>1, ImpairedWhileFlapping, PTL

----------------------------------------------------------------------------
(* A flap is not a fault *)

\* The router's steps, as long as it has had no fault of its own.
LEMMA DutFrame ==
  ASSUME Dut, ~dutFault'
  PROVE  /\ down' \subseteq down /\ ~dutFault
         /\ UNCHANGED <<now, draft, latest, impaired, impairUntil, codes, pc,
                        liftedAt, announced>>
<1>1. down' \subseteq down /\ ~dutFault
  <2>1. CASE BgpdDies \/ SessionsFail \/ ContainerStops
    BY <2>1 DEF BgpdDies, SessionsFail, ContainerStops
  <2>2. CASE BgpdStarts
    BY <2>2 DEF BgpdStarts, historyVars
  <2>3. CASE SessionsRecover
    BY <2>3 DEF SessionsRecover, historyVars
  <2> QED BY <2>1, <2>2, <2>3 DEF Dut
<1> QED BY <1>1 DEF Dut, samplerVars, predVars, runVars

\* The sampler's steps: a record is taken while sessions are down or not.
LEMMA SamplerFrame ==
  ASSUME TypeOK, Sampler
  PROVE  /\ UNCHANGED <<now, down, dutFault, impaired, impairUntil, codes, pc,
                        liftedAt, announced>>
         /\ \/ /\ draft = NoSample /\ draft' = NoSample
               /\ latest'.at = now /\ ~latest'.failed
            \/ /\ draft = NoSample /\ draft'.at = now
               /\ draft'.failed => down # {}
               /\ latest' = latest
            \/ /\ draft # NoSample /\ draft' = NoSample
               /\ latest'.at = draft.at
               /\ latest'.failed => draft.failed
<1>1. UNCHANGED <<now, down, dutFault, impaired, impairUntil, codes, pc,
                  liftedAt, announced>>
  BY DEF Sampler, historyVars, predVars, runVars
<1>2. draft.at \in Nat /\ draft.failed \in BOOLEAN
  BY DEF TypeOK, RecordsOK, Sample
<1>3. CASE SampleDown
  BY <1>1, <1>3 DEF SampleDown, BeginSample, NoSample
<1>4. CASE SampleBgp
  <2>1. draft'.failed => down # {}
    BY <1>4 DEF SampleBgp, NoSample
  <2>2. draft = NoSample /\ draft'.at = now /\ latest' = latest
    BY <1>4 DEF SampleBgp, BeginSample, NoSample
  <2> QED BY <1>1, <2>1, <2>2
<1>5. CASE SampleRest
  <2>1. draft # NoSample /\ draft' = NoSample
    BY <1>5 DEF SampleRest
  <2>2. latest'.at = draft.at /\ (latest'.failed => draft.failed)
    BY <1>5, <1>2 DEF SampleRest, TypeOK, RecordsOK, Sample
  <2> QED BY <1>1, <2>1, <2>2
<1> QED BY <1>3, <1>4, <1>5 DEF Sampler

\* The run's steps, as long as nothing but flaps has been done to the router.
LEMMA FlapFrame ==
  ASSUME TypeOK, Run, ~dutFault', announced' = 0
  PROVE  /\ ~dutFault /\ announced = 0
         /\ UNCHANGED <<now, draft, latest>>
         /\ \/ pc' = "flap" /\ down' = down \cup {"flap"}
            \/ down' = down
         /\ codes' \subseteq codes \cup CodesFor(latest)
<1>1. CASE Event
  <2>1. UNCHANGED <<now, draft, latest, codes>>
    BY <1>1 DEF Event, samplerVars
  <2>2. announced \in Nat
    BY DEF TypeOK, CountsOK
  <2>3. CASE FlapBegin \/ FlapLifted \/ FlapEnd \/ OtherEvent
    BY <2>1, <2>3 DEF FlapBegin, FlapLifted, FlapEnd, OtherEvent
  <2>4. CASE FlapRaises \/ RestartBegin
    BY <2>2, <2>4 DEF FlapRaises, RestartBegin
  <2>5. CASE RestartEnd
    BY <2>1, <2>5 DEF RestartEnd
  <2> QED BY <1>1, <2>3, <2>4, <2>5 DEF Event
<1>2. CASE /\ RunGoesOn \/ StopOnViolation \/ EndOfChaos \/ Interrupt \/ Final
           /\ UNCHANGED <<now, dutVars, faults, historyVars, samplerVars,
                          stopOnViolation>>
  <2>1. UNCHANGED <<now, down, dutFault, draft, latest, announced>>
    BY <1>2, Judges DEF dutVars, historyVars, samplerVars, EndOfChaos
  <2>2. codes' \subseteq codes \cup CodesFor(latest)
    BY <1>2, Judges DEF EndOfChaos, Judging
  <2> QED BY <2>1, <2>2
<1> QED BY <1>1, <1>2 DEF Run

\* The record judged is at most MaxAge old.
THEOREM SamplesAreYoung == Spec => []SamplesInv
<1>1. Init => SamplesInv
  BY PredicatesAssumption DEF Init, SamplesInv, NoSample
<1>2. TypeOK /\ SamplesInv /\ [Next]_vars => SamplesInv'
  <2> SUFFICES ASSUME TypeOK, SamplesInv, [Next]_vars PROVE SamplesInv'
    OBVIOUS
  <2>1. /\ now \in Nat /\ latest.at \in Nat /\ draft.at \in Nat
        /\ MaxAge \in Nat
    BY PredicatesAssumption DEF TypeOK, CountsOK, RecordsOK, Sample
  <2>2. CASE Sampler
    <3>1. now' = now /\ NoSample.at = 0
      BY <2>2 DEF Sampler, NoSample
    <3> QED BY <2>1, <2>2, <3>1, SamplerFrame DEF SamplesInv
  <2>3. CASE Tick
    BY <2>1, <2>3 DEF Tick, SamplesInv, samplerVars
  <2>4. CASE Dut \/ Run \/ UNCHANGED vars
    <3>1. UNCHANGED <<now, draft, latest>>
      BY <2>4 DEF Dut, Run, Event, samplerVars, vars
    <3> QED BY <3>1 DEF SamplesInv
  <2> QED BY <2>2, <2>3, <2>4 DEF Next
<1> QED BY <1>1, <1>2, TypeCorrect, PTL DEF Spec

\* A record that is judged while peer faults are not suppressed was not taken
\* while the flap could still be seen.
LEMMA NotFaulted ==
  ASSUME TypeOK, SamplesInv, latest.failed => Covered(latest.at)
  PROVE  "failed_peers" \notin CodesFor(latest)
<1>1. /\ now \in Nat /\ latest.at \in Nat /\ impairUntil \in Nat
      /\ MaxAge \in Nat /\ Grace \in Nat /\ Recovery \in Nat
      /\ Grace > Recovery + MaxAge
  BY PredicatesAssumption DEF TypeOK, CountsOK, RecordsOK, Sample
<1>2. SUFFICES ASSUME "failed_peers" \in CodesFor(latest) PROVE FALSE
  OBVIOUS
<1>3. latest.failed /\ ~PeerFaultsSuppressed
  BY <1>2 DEF CodesFor, TypeOK, RecordsOK, Sample, Kinds
<1>4. ~impaired /\ ~(now < impairUntil)
  BY <1>3 DEF PeerFaultsSuppressed
<1>5. latest.at + Grace <= impairUntil + Recovery
  BY <1>3, <1>4, Zenon DEF Covered
<1> QED BY <1>1, <1>4, <1>5 DEF SamplesInv

\* As long as nothing but flaps has been done to the router, no failed peer is
\* seen outside what the impairment and its grace cover.
THEOREM FlapsAreCovered == Spec => []FlapInv
<1>1. Init => FlapInv
  BY DEF Init, FlapInv, NoSample
<1>2. TypeOK /\ ImpairedInv /\ ImpairedInv' /\ SamplesInv /\ FlapInv
        /\ [Next]_vars => FlapInv'
  <2> SUFFICES ASSUME TypeOK, ImpairedInv, ImpairedInv', SamplesInv, FlapInv,
                      [Next]_vars, ~dutFault', announced' = 0
               PROVE  /\ "fault" \notin down'
                      /\ "flap" \in down' => Covered(now)'
                      /\ "flap" \in down' /\ ~impaired'
                           => liftedAt' + Grace <= impairUntil'
                      /\ draft'.failed => Covered(draft.at)'
                      /\ latest'.failed => Covered(latest.at)'
                      /\ "failed_peers" \notin codes'
    BY DEF FlapInv
  <2>1. /\ now \in Nat /\ latest.at \in Nat /\ draft.at \in Nat
        /\ impairUntil \in Nat /\ liftedAt \in Nat
        /\ Grace \in Nat /\ Recovery \in Nat
    BY PredicatesAssumption DEF TypeOK, CountsOK, RecordsOK, Sample
  <2>2. CASE Dut
    <3>1. /\ down' \subseteq down /\ ~dutFault /\ announced = 0
          /\ UNCHANGED <<now, draft, latest, impaired, impairUntil, codes,
                         liftedAt>>
      BY <2>2, DutFrame
    <3> QED BY <3>1 DEF FlapInv, Covered
  <2>3. CASE Tick
    <3>1. /\ now' = now + 1 /\ ~dutFault /\ announced = 0
          /\ UNCHANGED <<down, draft, latest, impaired, impairUntil, codes,
                         liftedAt>>
      BY <2>3 DEF Tick, dutVars, historyVars, samplerVars, predVars, runVars
    <3>2. "flap" \in down /\ ~impaired => now < liftedAt + Recovery
      BY <2>3, Zenon DEF Tick, ImpairedInv
    <3>3. "flap" \in down' => Covered(now)'
      BY <2>1, <3>1, <3>2 DEF FlapInv, Covered
    <3> QED BY <3>1, <3>3 DEF FlapInv, Covered
  <2>4. CASE Sampler
    <3>1. /\ ~dutFault /\ announced = 0
          /\ UNCHANGED <<now, down, impaired, impairUntil, codes, liftedAt>>
      BY <2>4, SamplerFrame
    <3>2. down # {} => "flap" \in down
      BY <3>1 DEF FlapInv, TypeOK, StatesOK
    <3>3. ~NoSample.failed
      BY DEF NoSample
    <3>4. draft'.failed => Covered(draft.at)'
      BY <2>4, <3>1, <3>2, <3>3, SamplerFrame DEF FlapInv, Covered
    <3>5. latest'.failed => Covered(latest.at)'
      BY <2>4, <3>1, SamplerFrame DEF FlapInv, Covered
    <3> QED BY <3>1, <3>4, <3>5 DEF FlapInv, Covered
  <2>5. CASE Run
    <3>1. /\ ~dutFault /\ announced = 0 /\ UNCHANGED <<now, draft, latest>>
          /\ \/ pc' = "flap" /\ down' = down \cup {"flap"}
             \/ down' = down
          /\ codes' \subseteq codes \cup CodesFor(latest)
      BY <2>5, FlapFrame
    <3>2. "failed_peers" \notin codes'
      BY <3>1, NotFaulted DEF FlapInv
    <3>3. CASE impaired'
      BY <3>1, <3>2, <3>3 DEF FlapInv, Covered
    <3>4. CASE ~impaired'
      <4>1. pc' # "flap"
        BY <3>4 DEF ImpairedInv
      <4>2. \/ impairUntil' = now + Grace /\ UNCHANGED liftedAt
            \/ UNCHANGED <<impaired, impairUntil, liftedAt>>
        BY <2>5, <3>4, <4>1, ImpairFrame, Zenon DEF ImpairedInv
      <4>3. CASE impairUntil' = now + Grace /\ UNCHANGED liftedAt
        BY <2>1, <3>1, <3>2, <4>1, <4>3
        DEF FlapInv, Covered, SamplesInv, ImpairedInv
      <4>4. CASE UNCHANGED <<impaired, impairUntil, liftedAt>>
        BY <3>1, <3>2, <4>1, <4>4 DEF FlapInv, Covered
      <4> QED BY <4>2, <4>3, <4>4
    <3> QED BY <3>3, <3>4
  <2>6. CASE UNCHANGED vars
    BY <2>6 DEF FlapInv, Covered, vars, dutVars, historyVars, samplerVars,
                predVars, runVars
  <2> QED BY <2>2, <2>3, <2>4, <2>5, <2>6 DEF Next
<1> QED BY <1>1, <1>2, TypeCorrect, ImpairedWhileFlapping, SamplesAreYoung, PTL
        DEF Spec

\* A run that only flaps peers never reports failed peers.
THEOREM FlapsAreNotFaults == Spec => []FlapIsNotAFault
<1>1. TypeOK /\ FlapInv => FlapIsNotAFault
  BY DEF FlapInv, FlapIsNotAFault, TypeOK, CountsOK
<1> QED BY <1>1, TypeCorrect, FlapsAreCovered, PTL

----------------------------------------------------------------------------
(* The restarts that are reported *)

\* Only the run reports or remembers a restart.
LEMMA ReportFrame ==
  ASSUME TypeOK, PidsInv, [Next]_vars
  PROVE
    \/ /\ UNCHANGED <<restarts, restartReports, knownPid>>
       /\ \/ expect' = expect /\ announced' = announced
          \/ expect' /\ announced' = announced + 1
    \/ Judging /\ UNCHANGED announced
<1>1. CASE Dut \/ Tick \/ Sampler \/ UNCHANGED vars
  BY <1>1 DEF Dut, Tick, Sampler, vars, predVars, runVars
<1>2. CASE Event
  <2>1. UNCHANGED <<restarts, restartReports, knownPid>>
    BY <1>2 DEF Event
  <2>2. \/ expect' = expect /\ announced' = announced
        \/ expect' /\ announced' = announced + 1
    <3>1. CASE RestartBegin
      BY <3>1, Zenon DEF RestartBegin
    <3>2. CASE \/ FlapBegin \/ FlapLifted \/ FlapEnd \/ FlapRaises
               \/ RestartEnd \/ OtherEvent
      <4>1. expect' = expect /\ announced' = announced
        BY <3>2 DEF FlapBegin, FlapLifted, FlapEnd, FlapRaises, RestartEnd,
                    OtherEvent
      <4> QED BY <4>1, Zenon
    <3> QED BY <1>2, <3>1, <3>2 DEF Event
  <2> QED BY <2>1, <2>2
<1>3. CASE RunGoesOn \/ StopOnViolation \/ EndOfChaos \/ Interrupt \/ Final
  BY <1>3, Judges DEF EndOfChaos
<1> QED BY <1>1, <1>2, <1>3 DEF Next, Run

\* Every observed restart is reported once, in order: the numbers of the
\* reports have no gap, and each starts from the pid the one before ended with.
THEOREM RestartsAreReported == Spec => []RestartsFormChain
<1>1. Init => RestartsFormChain
  BY DEF Init, RestartsFormChain
<1>2. TypeOK /\ PidsInv /\ RestartsFormChain /\ [Next]_vars
        => RestartsFormChain'
  <2> SUFFICES ASSUME TypeOK, PidsInv, RestartsFormChain, [Next]_vars,
                      ~stopOnViolation'
               PROVE  RestartsFormChain'
    BY DEF RestartsFormChain
  <2> DEFINE new == RestartViolation(latest)
  <2>1. /\ restarts \in Nat /\ knownPid \in Nat /\ latest.pid \in Nat
        /\ \A v \in restartReports :
             v.nth \in Nat /\ v.old \in Nat /\ v.new \in Nat
    BY DEF TypeOK, CountsOK, ReportsOK, RecordsOK, Sample, Restart
  <2>2. ~stopOnViolation
    BY Zenon DEF Next, Dut, Tick, Sampler, Run, Event, vars, runVars
  <2>3. CASE UNCHANGED <<restarts, restartReports, knownPid>>
    BY <2>2, <2>3 DEF RestartsFormChain
  <2>4. CASE UNCHANGED <<restarts, restartReports>> /\ knownPid = Gone
    <3>1. ASSUME NEW v \in restartReports, v.nth = restarts PROVE FALSE
      <4>1. v.old < v.new /\ v.new = knownPid
        BY <2>2, <3>1 DEF RestartsFormChain
      <4> QED BY <2>1, <2>4, <4>1 DEF Gone
    <3> QED BY <2>2, <2>4, <3>1 DEF RestartsFormChain
  <2>5. CASE /\ restarts' = restarts + 1 /\ knownPid' = latest.pid
             /\ knownPid < latest.pid
             /\ restartReports' = restartReports \cup {new}
    <3>1. /\ new.nth = restarts + 1 /\ new.old = knownPid
          /\ new.new = latest.pid
      BY <2>1 DEF RestartViolation
    <3>2. \A v \in restartReports : v.nth \in 1..restarts
      BY <2>2 DEF RestartsFormChain
    <3>3. {v.nth : v \in restartReports'} = 1..restarts'
      <4>1. {v.nth : v \in restartReports'} = 1..restarts \cup {restarts + 1}
        BY <2>2, <2>5, <3>1 DEF RestartsFormChain
      <4> QED BY <2>1, <2>5, <4>1
    <3>4. ASSUME NEW v \in restartReports'
          PROVE  /\ v.old < v.new
                 /\ v.nth = restarts' => v.new = knownPid'
                 /\ \A w \in restartReports' :
                      w.nth = v.nth + 1 => w.old = v.new
      <4>1. CASE v = new
        BY <2>1, <2>5, <3>1, <3>2, <4>1
      <4>2. CASE v \in restartReports
        BY <2>1, <2>2, <2>5, <3>1, <3>2, <4>2 DEF RestartsFormChain
      <4> QED BY <2>5, <4>1, <4>2
    <3> QED BY <3>3, <3>4 DEF RestartsFormChain
  <2>6. CASE Judging
    BY <2>2, <2>3, <2>4, <2>5, <2>6, Judged
  <2> QED BY <2>3, <2>6, ReportFrame
<1> QED BY <1>1, <1>2, TypeCorrect, PidsGrow, PTL DEF Spec

\* An announcement is pending or used up.
THEOREM AnnouncementsAreUsed == Spec => []AnnouncedInv
<1> DEFINE Excused(R) == {v \in R : v.sev = "info"}
<1>1. Init => AnnouncedInv
  <2> SUFFICES ASSUME Init PROVE AnnouncedInv
    OBVIOUS
  <2>1. /\ restartReports = {} /\ Excused(restartReports) = {}
        /\ ~expect /\ announced = 0
    BY DEF Init
  <2> QED BY <2>1, FS_EmptySet DEF AnnouncedInv
<1>2. TypeOK /\ PidsInv /\ AnnouncedInv /\ [Next]_vars => AnnouncedInv'
  <2> SUFFICES ASSUME TypeOK, PidsInv, AnnouncedInv, [Next]_vars
               PROVE  AnnouncedInv'
    OBVIOUS
  <2> DEFINE new  == RestartViolation(latest)
             n    == Cardinality(Excused(restartReports))
             pend == IF expect THEN 1 ELSE 0
  <2>1. announced \in Nat /\ expect \in BOOLEAN
    BY DEF TypeOK, CountsOK, FlagsOK
  <2>2. /\ IsFiniteSet(restartReports) /\ IsFiniteSet(Excused(restartReports))
        /\ n \in Nat /\ n + pend <= announced
    BY FS_Subset, FS_CardinalityType DEF AnnouncedInv
  <2>3. CASE /\ UNCHANGED restartReports
             /\ \/ expect' = expect /\ announced' = announced
                \/ expect' /\ announced' = announced + 1
    BY <2>1, <2>2, <2>3 DEF AnnouncedInv
  <2>4. CASE /\ restartReports' = restartReports \cup {new}
             /\ ~expect' /\ UNCHANGED announced
    <3>1. IsFiniteSet(restartReports')
      BY <2>2, <2>4, FS_AddElement
    <3>2. Cardinality(Excused(restartReports')) <= n + pend
      <4>1. CASE expect
        <5>1. Excused(restartReports')
                \subseteq Excused(restartReports) \cup {new}
          BY <2>4
        <5>2. /\ IsFiniteSet(Excused(restartReports) \cup {new})
              /\ Cardinality(Excused(restartReports) \cup {new}) <= n + 1
          BY <2>2, FS_AddElement
        <5>3. Cardinality(Excused(restartReports'))
                <= Cardinality(Excused(restartReports) \cup {new})
          BY <5>1, <5>2, FS_Subset
        <5>4. IsFiniteSet(Excused(restartReports'))
          BY <3>1, FS_Subset
        <5> HIDE DEF Excused
        <5> QED BY <2>2, <4>1, <5>2, <5>3, <5>4, FS_CardinalityType
      <4>2. CASE ~expect
        <5>1. Excused(restartReports') = Excused(restartReports)
          BY <2>4, <4>2 DEF RestartViolation
        <5> QED BY <2>2, <4>2, <5>1
      <4> QED BY <4>1, <4>2
    <3>3. Cardinality(Excused(restartReports')) \in Nat
      BY <3>1, FS_Subset, FS_CardinalityType
    <3> HIDE DEF Excused
    <3>4. Cardinality(Excused(restartReports')) + 0 <= announced'
      BY <2>1, <2>2, <2>4, <3>2, <3>3
    <3> QED BY <2>4, <3>1, <3>4 DEF AnnouncedInv, Excused
  <2>5. CASE /\ UNCHANGED <<restartReports, announced>> /\ ~expect'
    BY <2>1, <2>2, <2>5 DEF AnnouncedInv
  <2>6. CASE Judging
    BY <2>3, <2>4, <2>5, <2>6, Judged, ReportFrame
  <2> QED BY <2>3, <2>6, ReportFrame
<1> QED BY <1>1, <1>2, TypeCorrect, PidsGrow, PTL DEF Spec

\* No announcement excuses two restarts.
THEOREM AnnouncementsExcuseOne == Spec => []AnnouncementExcusesOne
<1>1. TypeOK /\ AnnouncedInv => AnnouncementExcusesOne
  <2> SUFFICES ASSUME TypeOK, AnnouncedInv PROVE AnnouncementExcusesOne
    OBVIOUS
  <2> DEFINE E == {v \in restartReports : v.sev = "info"}
  <2>1. Cardinality(E) \in Nat
    BY FS_Subset, FS_CardinalityType DEF AnnouncedInv
  <2>2. Cardinality(E) + (IF expect THEN 1 ELSE 0) <= announced
    BY DEF AnnouncedInv
  <2> HIDE DEF E
  <2>3. Cardinality(E) <= announced
    BY <2>1, <2>2 DEF TypeOK, CountsOK
  <2> QED BY <2>3 DEF AnnouncementExcusesOne, E
<1> QED BY <1>1, TypeCorrect, AnnouncementsAreUsed, PTL

\* The parts together are the inductive invariant.
THEOREM Inductive == Spec => []IInv
BY TypeCorrect, PidsGrow, RestartsAreReported, AnnouncementsAreUsed,
   ImpairedWhileFlapping, SamplesAreYoung, FlapsAreCovered, PTL DEF IInv
=============================================================================
