------------------------- MODULE ConfigChangeProofs -------------------------
(***************************************************************************)
(* Proofs about ConfigChange, for every value of its constants.            *)
(***************************************************************************)
EXTENDS ConfigChange, TLAPS

----------------------------------------------------------------------------
(* Types *)

\* The initial state is well typed.
LEMMA InitTyped == Init => TypeOK
<1> SUFFICES ASSUME Init PROVE TypeOK
  OBVIOUS
<1>1. FlagsOK
  BY Zenon DEF Init, FlagsOK
<1>2. CountsOK /\ StatesOK
  BY DEF Init, CountsOK, StatesOK
<1>3. SetsOK
  BY DEF Init, SetsOK, Fragments
<1> QED BY <1>1, <1>2, <1>3 DEF TypeOK

\* The router's steps keep the types.
LEMMA RouterTyped == TypeOK /\ Router => TypeOK'
<1> SUFFICES ASSUME TypeOK, Router PROVE TypeOK'
  OBVIOUS
<1> USE DEF TypeOK, Router, CommitLands, AbandonedCommitLands,
            AbandonedCommitDies, PeerMoves, PeerTrips, TakesEffect, historyVars
<1>1. FlagsOK'
  BY Zenon DEF FlagsOK, eventVars
<1>2. CountsOK' /\ StatesOK'
  BY DEF CountsOK, StatesOK, eventVars
<1>3. config' \subseteq Fragments /\ abandoned' \subseteq Commits
  BY DEF SetsOK, Commits, NoCommit
<1>4. session' \in [Peers -> {"up", "down", "over"}]
  BY DEF SetsOK, Becomes
<1>5. excuses' \subseteq {"late", "refused", "raised"} \X Fragments
  <2>1. \A f : Forget(f) \subseteq excuses
    BY DEF Forget
  <2>2. \A c \in Commits : <<"late", c.frag>>
                            \in {"late", "refused", "raised"} \X Fragments
    BY DEF Commits
  <2>3. abandoned \subseteq Commits
    BY DEF SetsOK
  <2>4. \/ excuses' \subseteq excuses
        \/ \E c \in abandoned : excuses' = excuses \cup {<<"late", c.frag>>}
    BY <2>1
  <2> QED BY <2>2, <2>3, <2>4 DEF SetsOK
<1>6. missed' \subseteq Peers
      /\ blind' \subseteq {"unwatched", "unasserted", "restarted"}
  BY DEF SetsOK
<1>7. SetsOK'
  BY <1>3, <1>4, <1>5, <1>6 DEF SetsOK, eventVars
<1> QED BY <1>1, <1>2, <1>7

\* What waiting for a commit can end in.
Ends == Returns \/ Refused \/ TimesOut \/ RaisesAfterCommit

\* The end of a commit keeps the types of what it changes.
LEMMA EndsTyped ==
  ASSUME TypeOK, Ends
  PROVE  /\ running' = NoCommit /\ landed' = landed
         /\ floor' \in BOOLEAN /\ debugs' \in BOOLEAN
         /\ trouble' \in {trouble, trouble + 1}
         /\ abandoned' \subseteq Commits
         /\ excuses' \subseteq {"late", "refused", "raised"} \X Fragments
         /\ blind' \subseteq {"unwatched", "unasserted", "restarted"}
<1> USE DEF Ends, Returns, Refused, TimesOut, RaisesAfterCommit,
            ReassertLogging, Rearm, Trouble
<1>1. running' = NoCommit /\ landed' = landed
  BY Zenon
<1>2. floor' \in BOOLEAN /\ debugs' \in BOOLEAN
  BY Zenon DEF TypeOK, FlagsOK
<1>3. trouble' \in {trouble, trouble + 1}
  BY Zenon
<1>4. running \in Commits
  BY DEF TypeOK, SetsOK
<1>5. abandoned' \subseteq Commits
  BY <1>4 DEF TypeOK, SetsOK
<1>6. excuses' \subseteq {"late", "refused", "raised"} \X Fragments
  <2>1. \A w \in {"late", "refused", "raised"} :
            <<w, running.frag>> \in {"late", "refused", "raised"} \X Fragments
    BY <1>4 DEF Commits
  <2>2. excuses' \in {excuses, excuses \cup {<<"refused", running.frag>>},
                      excuses \cup {<<"raised", running.frag>>}}
    BY Zenon
  <2> QED BY <2>1, <2>2 DEF TypeOK, SetsOK
<1>7. blind' \subseteq {"unwatched", "unasserted", "restarted"}
  BY DEF TypeOK, SetsOK
<1> QED BY <1>1, <1>2, <1>3, <1>5, <1>6, <1>7

\* The harness's steps keep the types.
LEMMA HarnessTyped == TypeOK /\ Harness => TypeOK'
<1> SUFFICES ASSUME TypeOK, Harness PROVE TypeOK'
  OBVIOUS
<1>1. mode' = mode /\ events' \in {events, events + 1}
  BY DEF Harness
<1>2. CASE PolicyChurn \/ MaxprefixTrip
  <2> USE <1>2 DEF PolicyChurn, MaxprefixTrip, BeginEvent, Begin
  <2>1. FlagsOK'
    BY Zenon DEF TypeOK, FlagsOK
  <2>2. trouble' \in {trouble, trouble + 1}
    BY Zenon DEF Trouble
  <2>3. StatesOK'
    BY <1>1 DEF TypeOK, StatesOK
  <2>4. frag' \in Fragments /\ running' \in Commits
    BY DEF Fragments, Commits
  <2>5. before' \subseteq Peers /\ tripped' \subseteq before'
    BY DEF TypeOK, SetsOK, Up
  <2>6. SetsOK'
    BY <2>4, <2>5 DEF TypeOK, SetsOK
  <2>7. CountsOK'
    BY <1>1, <2>2 DEF TypeOK, CountsOK
  <2> QED BY <2>1, <2>3, <2>6, <2>7 DEF TypeOK
<1>3. CASE BgpdRestart
  <2> USE <1>3 DEF BgpdRestart
  <2>1. FlagsOK'
    BY Zenon DEF TypeOK, FlagsOK
  <2>2. StatesOK' /\ SetsOK' /\ CountsOK'
    BY <1>1 DEF TypeOK, StatesOK, SetsOK, CountsOK
  <2> QED BY <2>1, <2>2 DEF TypeOK
<1>4. CASE ApplyDone \/ ApplyRaises \/ RevertDone
  <2>1. Ends
    BY <1>4, Zenon DEF ApplyDone, ApplyRaises, RevertDone, Ends
  <2> USE <1>4, <2>1, EndsTyped DEF ApplyDone, ApplyRaises, RevertDone, GoesOn,
                                    AfterTimeout
  <2>2. raising' \in BOOLEAN /\ flagged' \in BOOLEAN
    BY Zenon DEF TypeOK, FlagsOK
  <2>3. FlagsOK'
    BY <2>2, Zenon DEF TypeOK, FlagsOK
  <2>4. StatesOK'
    BY <1>1 DEF TypeOK, StatesOK
  <2>5. SetsOK'
    BY DEF TypeOK, SetsOK, LosesSight, Over
  <2>6. CountsOK'
    BY <1>1 DEF TypeOK, CountsOK
  <2> QED BY <2>3, <2>4, <2>5, <2>6 DEF TypeOK
<1>5. CASE Snapshot \/ SqueezeRaises \/ BeginRevert \/ ClearTripped \/ Boundary
  <2> USE <1>5 DEF Snapshot, SqueezeRaises, BeginRevert, ClearTripped, Boundary,
                   routerVars, historyVars
  <2>1. FlagsOK'
    BY Zenon DEF TypeOK, FlagsOK, Begin
  <2>2. trouble' \in {trouble, trouble + 1}
    BY Zenon DEF Trouble
  <2>3. StatesOK'
    BY <1>1 DEF TypeOK, StatesOK
  <2>4. /\ UNCHANGED <<config, abandoned, frag, before, blind>>
        /\ running' \in Commits \cup {NoCommit}
    BY DEF TypeOK, SetsOK, Begin, Commits
  <2>5. session' \in [Peers -> {"up", "down", "over"}]
    BY DEF TypeOK, SetsOK
  <2>6. tripped' \subseteq before /\ missed' \subseteq Peers
    BY DEF TypeOK, SetsOK, Notices, LosesSight, Over
  <2>7. excuses' \subseteq {"late", "refused", "raised"} \X Fragments
    <3>1. <<"raised", frag>> \in {"late", "refused", "raised"} \X Fragments
      BY DEF TypeOK, SetsOK
    <3>2. excuses' \in {excuses, excuses \cup {<<"raised", frag>>}}
      BY Zenon
    <3> QED BY <3>1, <3>2 DEF TypeOK, SetsOK
  <2>8. SetsOK'
    BY <2>4, <2>5, <2>6, <2>7 DEF TypeOK, SetsOK
  <2>9. CountsOK'
    BY <1>1, <2>2 DEF TypeOK, CountsOK
  <2> QED BY <2>1, <2>3, <2>8, <2>9 DEF TypeOK
<1> QED BY <1>2, <1>3, <1>4, <1>5 DEF Harness, BeginsEvent, Goes

\* Every variable keeps its type.
THEOREM TypeCorrect == Spec => []TypeOK
<1>1. TypeOK /\ [Next]_vars => TypeOK'
  <2> SUFFICES ASSUME TypeOK, [Next]_vars PROVE TypeOK'
    OBVIOUS
  <2>1. CASE Next
    BY <2>1, RouterTyped, HarnessTyped DEF Next
  <2>2. CASE UNCHANGED vars
    BY <2>2 DEF TypeOK, FlagsOK, CountsOK, SetsOK, StatesOK, vars, routerVars,
                eventVars, historyVars
  <2> QED BY <2>1, <2>2
<1> QED BY <1>1, InitTyped, PTL DEF Spec

----------------------------------------------------------------------------
(* What the harness waits for *)

\* RunningInv is inductive.
THEOREM RunningAsPlaced == Spec => []RunningInv
<1>1. Init => RunningInv
  BY DEF Init, RunningInv
<1>2. TypeOK /\ RunningInv /\ [Next]_vars => RunningInv'
  <2> SUFFICES ASSUME TypeOK, RunningInv, [Next]_vars PROVE RunningInv'
    OBVIOUS
  <2>1. CASE Router
    BY <2>1 DEF Router, eventVars, RunningInv
  <2>2. CASE PolicyChurn \/ MaxprefixTrip \/ BgpdRestart
    BY <2>2 DEF PolicyChurn, MaxprefixTrip, BgpdRestart, BeginEvent, Begin,
                RunningInv
  <2>3. CASE ApplyDone \/ ApplyRaises \/ RevertDone
    <3>1. running' = NoCommit
      BY <2>3, Zenon DEF ApplyDone, ApplyRaises, RevertDone, Returns, Refused,
                         TimesOut, RaisesAfterCommit
    <3>2. pc' \in {"hold", "early", "after", "boundary"}
      BY <2>3 DEF ApplyDone, ApplyRaises, RevertDone, GoesOn, AfterTimeout
    <3> QED BY <3>1, <3>2 DEF RunningInv
  <2>4. CASE Snapshot \/ SqueezeRaises \/ BeginRevert \/ ClearTripped \/ Boundary
    BY <2>4 DEF Snapshot, SqueezeRaises, BeginRevert, ClearTripped, Boundary,
                Begin, RunningInv
  <2>5. CASE UNCHANGED vars
    BY <2>5 DEF vars, eventVars, RunningInv
  <2> QED BY <2>1, <2>2, <2>3, <2>4, <2>5 DEF Next, Harness, BeginsEvent, Goes
<1> QED BY <1>1, <1>2, TypeCorrect, PTL DEF Spec

----------------------------------------------------------------------------
(* A chaos run measures the profile's router *)

\* Forgetting why one fragment is in place keeps the excuses of the others.
LEMMA ForgetsOne ==
  ASSUME NEW f, NEW g, f # g, Excused(f), Forget(g) \subseteq excuses'
  PROVE  Excused(f)'
<1>1. PICK w \in {"late", "refused", "raised"} : <<w, f>> \in excuses
  BY DEF Excused
<1>2. <<w, f>> \in Forget(g)
  BY <1>1 DEF Forget
<1> QED BY <1>2 DEF Excused

\* The router's steps keep a chaos run's fragments accounted for.
LEMMA RouterKeepsProfile ==
  ASSUME TypeOK, RunningInv, ProfileInv, RaisingInv, Router
  PROVE  ProfileInv' /\ RaisingInv'
<1>1. UNCHANGED <<mode, running, pc, frag, raising, flagged>>
  BY DEF Router, eventVars
<1>2. CASE CommitLands
  <2>1. /\ running.frag = frag /\ landed' = TRUE
        /\ \/ pc = "apply" /\ config' = config \cup {frag}
           \/ pc = "reverting" /\ config' = config \ {frag}
    BY <1>2 DEF CommitLands, TakesEffect, RunningInv
  <2>2. \A f : f # frag /\ Excused(f) => Excused(f)'
    BY <1>2, <2>1, ForgetsOne DEF CommitLands
  <2> QED BY <1>1, <2>1, <2>2 DEF ProfileInv, RaisingInv, Pending
<1>3. CASE AbandonedCommitLands
  <2>1. landed' = landed
    BY <1>3 DEF AbandonedCommitLands
  <2>2. PICK c \in abandoned :
          /\ \/ config' = config \cup {c.frag}
                /\ excuses' = excuses \cup {<<"late", c.frag>>}
             \/ config' = config \ {c.frag} /\ excuses' = Forget(c.frag)
    BY <1>3 DEF AbandonedCommitLands, TakesEffect
  <2>3. c.frag \in config' => Excused(c.frag)'
    BY <2>2 DEF Excused
  <2>4. Forget(c.frag) \subseteq excuses'
    BY <2>2 DEF Forget
  <2>5. \A f : f # c.frag /\ Excused(f) => Excused(f)'
    BY <2>4, ForgetsOne
  <2>6. \A f \in config' : f = c.frag \/ f \in config
    BY <2>2
  <2> QED BY <1>1, <2>1, <2>3, <2>5, <2>6 DEF ProfileInv, RaisingInv, Pending
<1>4. CASE AbandonedCommitDies \/ PeerMoves \/ PeerTrips
  BY <1>1, <1>4 DEF AbandonedCommitDies, PeerMoves, PeerTrips, historyVars,
                    ProfileInv, RaisingInv, Pending, Excused
<1> QED BY <1>2, <1>3, <1>4 DEF Router

\* So do the harness's, which never forget an excuse.
LEMMA HarnessKeepsProfile ==
  ASSUME TypeOK, RunningInv, ProfileInv, RaisingInv, Harness
  PROVE  ProfileInv' /\ RaisingInv'
<1>1. mode' = mode
  BY DEF Harness
<1>2. CASE PolicyChurn \/ MaxprefixTrip \/ BgpdRestart
  <2>1. pc = "gap" /\ raising' = FALSE
    BY <1>2, Zenon DEF PolicyChurn, MaxprefixTrip, BgpdRestart, BeginEvent
  <2>2. config' = config /\ excuses' = excuses
    BY <1>2 DEF PolicyChurn, MaxprefixTrip, BgpdRestart, BeginEvent
  <2>3. ~Pending
    BY <2>1 DEF Pending
  <2> QED BY <1>1, <2>1, <2>2, <2>3 DEF ProfileInv, RaisingInv, Excused
<1>3. CASE ApplyDone
  <2>1. /\ pc = "apply" /\ pc' \in {"hold", "early"}
        /\ UNCHANGED <<config, frag, raising>>
    BY <1>3 DEF ApplyDone, GoesOn, AfterTimeout
  <2>2. excuses \subseteq excuses'
    BY <1>3 DEF ApplyDone, Returns, Refused, TimesOut
  <2>3. \A f : Excused(f) => Excused(f)'
    BY <2>2 DEF Excused
  <2> QED BY <1>1, <2>1, <2>3 DEF ProfileInv, RaisingInv, Pending
<1>4. CASE ApplyRaises
  <2>1. /\ pc = "apply" /\ pc' \in {"hold", "boundary"}
        /\ UNCHANGED <<config, frag>>
    BY <1>4 DEF ApplyRaises
  <2>2. excuses' = excuses \cup {<<"raised", frag>>}
    BY <1>4, <2>1 DEF ApplyRaises, RaisesAfterCommit, RunningInv
  <2>3. Excused(frag)' /\ \A f : Excused(f) => Excused(f)'
    BY <2>1, <2>2 DEF Excused
  <2> QED BY <1>1, <2>1, <2>3 DEF ProfileInv, RaisingInv, Pending
<1>5. CASE SqueezeRaises
  <2>1. /\ pc' = "boundary" /\ excuses' = excuses \cup {<<"raised", frag>>}
        /\ UNCHANGED <<config, frag>> /\ pc \in {"early", "revert"}
    BY <1>5 DEF SqueezeRaises, routerVars
  <2>2. Excused(frag)' /\ \A f : Excused(f) => Excused(f)'
    BY <2>1 DEF Excused
  <2> QED BY <1>1, <2>1, <2>2 DEF ProfileInv, RaisingInv, Pending
<1>6. CASE Snapshot \/ BeginRevert
  <2>1. /\ pc \in {"early", "late", "hold", "revert"}
        /\ \/ pc' \in {"late", "revert"}
           \/ pc' = "reverting" /\ landed' = FALSE
        /\ UNCHANGED <<config, frag, raising, excuses>>
    BY <1>6 DEF Snapshot, BeginRevert, Begin, routerVars, historyVars
  <2> QED BY <1>1, <2>1 DEF ProfileInv, RaisingInv, Pending, Excused
<1>7. CASE RevertDone
  <2>1. /\ pc = "reverting" /\ pc' \in {"after", "boundary"}
        /\ UNCHANGED <<config, frag>>
    BY <1>7 DEF RevertDone
  <2>2. running.op = "revert" /\ running.frag = frag
    BY <2>1 DEF RunningInv
  <2>3. CASE Returns \/ RaisesAfterCommit
    <3>1. landed /\ excuses' = excuses
      BY <2>2, <2>3 DEF Returns, RaisesAfterCommit
    <3>2. ~Pending
      BY <2>1, <3>1 DEF Pending
    <3> QED BY <1>1, <2>1, <3>1, <3>2 DEF ProfileInv, RaisingInv, Excused
  <2>4. CASE Refused
    <3>1. excuses' = excuses \cup {<<"refused", frag>>}
      BY <2>2, <2>4 DEF Refused
    <3>2. Excused(frag)' /\ \A f : Excused(f) => Excused(f)'
      BY <2>1, <3>1 DEF Excused
    <3> QED BY <1>1, <2>1, <3>2 DEF ProfileInv, RaisingInv
  <2>5. CASE /\ TimesOut
             /\ flagged' = ~raising
             /\ pc' = "boundary"
             /\ LosesSight /\ UNCHANGED raising
    <3>1. excuses' = excuses /\ raising' = raising
      BY <2>5 DEF TimesOut
    <3>2. raising \/ Pending'
      BY <2>5, Zenon DEF Pending
    <3> QED BY <1>1, <2>1, <2>5, <3>1, <3>2 DEF ProfileInv, RaisingInv, Excused
  <2> QED BY <1>7, <2>3, <2>4, <2>5 DEF RevertDone
<1>8. CASE ClearTripped
  <2>1. /\ pc = "after" /\ pc' = "boundary"
        /\ UNCHANGED <<config, frag, raising, excuses>>
    BY <1>8 DEF ClearTripped
  <2> QED BY <1>1, <2>1 DEF ProfileInv, RaisingInv, Pending, Excused
<1>9. CASE Boundary
  <2>1. /\ pc = "boundary" /\ pc' \in {"gap", "aborted"}
        /\ UNCHANGED <<config, frag, raising, excuses>>
    BY <1>9 DEF Boundary, routerVars, historyVars
  <2>2. mode = "run" /\ pc' # "aborted" => ~Pending
    BY <1>9, Zenon DEF Boundary, Pending
  <2> QED BY <1>1, <2>1, <2>2 DEF ProfileInv, RaisingInv, Excused
<1> QED BY <1>2, <1>3, <1>4, <1>5, <1>6, <1>7, <1>8, <1>9
        DEF Harness, BeginsEvent, Goes

\* ProfileInv and RaisingInv are inductive.
THEOREM FragmentsAccountedFor == Spec => [](ProfileInv /\ RaisingInv)
<1>1. Init => ProfileInv /\ RaisingInv
  BY DEF Init, ProfileInv, RaisingInv
<1>2. TypeOK /\ RunningInv /\ ProfileInv /\ RaisingInv /\ [Next]_vars
        => ProfileInv' /\ RaisingInv'
  <2>1. CASE UNCHANGED vars
    BY <2>1 DEF vars, routerVars, eventVars, historyVars, ProfileInv,
                RaisingInv, Pending, Excused
  <2> QED BY <2>1, RouterKeepsProfile, HarnessKeepsProfile DEF Next
<1> QED BY <1>1, <1>2, TypeCorrect, RunningAsPlaced, PTL DEF Spec

\* A chaos run that goes on measures the router of the profile, but for a
\* refused revert, an exception and an apply that lands after its revert.
THEOREM ProfileMeasured == Spec => []RunMeasuresProfile
<1>1. ProfileInv => RunMeasuresProfile
  BY DEF ProfileInv, RunMeasuresProfile, Pending
<1> QED BY <1>1, FragmentsAccountedFor, PTL

----------------------------------------------------------------------------
(* The detectors *)

\* BlindInv is inductive.
THEOREM BlindnessExplained == Spec => []BlindInv
<1>1. Init => BlindInv
  BY DEF Init, BlindInv
<1>2. TypeOK /\ RunningInv /\ BlindInv /\ [Next]_vars => BlindInv'
  <2> SUFFICES ASSUME TypeOK, RunningInv, BlindInv, [Next]_vars
               PROVE  BlindInv'
    OBVIOUS
  <2> USE DEF BlindInv
  <2>1. CASE Router
    BY <2>1 DEF Router, CommitLands, AbandonedCommitLands, AbandonedCommitDies,
                PeerMoves, PeerTrips, TakesEffect, eventVars, historyVars
  <2>2. CASE PolicyChurn \/ MaxprefixTrip \/ BgpdRestart
    <3>1. running = NoCommit
      BY <2>2 DEF RunningInv, PolicyChurn, MaxprefixTrip, BgpdRestart,
                  BeginEvent
    <3> QED BY <2>2, <3>1 DEF PolicyChurn, MaxprefixTrip, BgpdRestart,
                              BeginEvent
  <2>3. CASE ApplyDone \/ ApplyRaises \/ RevertDone
    <3>1. Returns \/ Refused \/ TimesOut \/ RaisesAfterCommit
      BY <2>3, Zenon DEF ApplyDone, ApplyRaises, RevertDone
    <3>2. CASE Returns \/ Refused \/ RaisesAfterCommit
      BY <3>2 DEF Returns, Refused, RaisesAfterCommit, ReassertLogging, Rearm
    <3>3. CASE TimesOut
      BY <3>3 DEF TimesOut
    <3> QED BY <3>1, <3>2, <3>3
  <2>4. CASE BeginRevert
    <3>1. running = NoCommit
      BY <2>4 DEF RunningInv, BeginRevert
    <3> QED BY <2>4, <3>1 DEF BeginRevert, historyVars
  <2>5. CASE Snapshot \/ SqueezeRaises \/ ClearTripped \/ Boundary
    BY <2>5 DEF Snapshot, SqueezeRaises, ClearTripped, Boundary, routerVars,
                historyVars
  <2>6. CASE UNCHANGED vars
    BY <2>6 DEF vars, routerVars, eventVars, historyVars
  <2> QED BY <2>1, <2>2, <2>3, <2>4, <2>5, <2>6 DEF Next, Harness, BeginsEvent,
                                                    Goes
<1> QED BY <1>1, <1>2, TypeCorrect, RunningAsPlaced, PTL DEF Spec

\* Between events the detectors are armed, unless a commit landed that nobody
\* waited for, reassert_logging failed, or bgpd was restarted.
THEOREM ArmedBetweenEvents == Spec => []DetectorsArmed
<1>1. RunningInv /\ BlindInv => DetectorsArmed
  BY DEF RunningInv, BlindInv, DetectorsArmed
<1> QED BY <1>1, RunningAsPlaced, BlindnessExplained, PTL

----------------------------------------------------------------------------
(* The squeezed peers *)

\* StagesInv is inductive.
THEOREM StagesOfTheSqueeze == Spec => []StagesInv
<1>1. Init => StagesInv
  BY DEF Init, StagesInv
<1>2. TypeOK /\ StagesInv /\ [Next]_vars => StagesInv'
  <2> SUFFICES ASSUME TypeOK, StagesInv, Next \/ UNCHANGED vars
               PROVE  StagesInv'
    OBVIOUS
  <2>1. CASE Router \/ UNCHANGED vars
    BY <2>1 DEF Router, vars, eventVars, StagesInv
  <2>2. CASE BeginsEvent
    BY <2>2 DEF BeginsEvent, PolicyChurn, MaxprefixTrip, BgpdRestart,
                BeginEvent, StagesInv
  <2>3. CASE Goes
    <3>1. frag \in Fragments
      BY DEF TypeOK, SetsOK
    <3>2. frag' = frag
      BY <2>3, Zenon DEF Goes, ApplyDone, ApplyRaises, Snapshot, SqueezeRaises,
                    BeginRevert, RevertDone, ClearTripped, Boundary
    <3>3. \/ pc' \in {"hold", "reverting", "boundary", "gap", "aborted"}
          \/ pc \in {"early", "late"}
          \/ pc' = "early" /\ frag # "policy"
          \/ pc' = "after" /\ frag = "squeeze"
      BY <2>3 DEF Goes, ApplyDone, ApplyRaises, Snapshot, SqueezeRaises,
                  BeginRevert, RevertDone, ClearTripped, Boundary, GoesOn,
                  AfterTimeout
    <3> QED BY <3>1, <3>2, <3>3 DEF StagesInv, Fragments
  <2> QED BY <2>1, <2>2, <2>3 DEF Next, Harness
<1> QED BY <1>1, <1>2, TypeCorrect, PTL DEF Spec

\* The router's steps lose sight of no peer the event knows.
LEMMA RouterKeepsSight ==
  ASSUME TypeOK, OverInv, Router
  PROVE  OverInv'
<1>1. Knows' = Knows /\ tripped' = tripped
  BY DEF Router, eventVars, Knows
<1>2. CASE PeerTrips
  <2>1. PICK p \in Peers : /\ missed' = missed \cup {p}
                           /\ session' = [session EXCEPT ![p] = "over"]
    BY <1>2 DEF PeerTrips, Becomes
  <2>2. Over' \subseteq Over \cup {p}
    BY <2>1 DEF Over, TypeOK, SetsOK
  <2> QED BY <1>1, <2>1, <2>2 DEF OverInv
<1>3. CASE PeerMoves
  <2>1. Over' \subseteq Over
    BY <1>3 DEF PeerMoves, Becomes, Over, TypeOK, SetsOK
  <2> QED BY <1>1, <1>3, <2>1 DEF PeerMoves, historyVars, OverInv
<1>4. CASE CommitLands \/ AbandonedCommitLands \/ AbandonedCommitDies
  BY <1>1, <1>4 DEF CommitLands, AbandonedCommitLands, AbandonedCommitDies,
                    historyVars, OverInv, Over
<1> QED BY <1>2, <1>3, <1>4 DEF Router

\* Nor do the harness's: the event learns of a peer that is over in its
\* snapshots, and lets go of it by clearing it.
LEMMA HarnessKeepsSight ==
  ASSUME TypeOK, StagesInv, OverInv, Harness
  PROVE  OverInv'
<1>1. CASE PolicyChurn \/ MaxprefixTrip
  <2>1. /\ pc = "gap" /\ pc' = "apply"
        /\ UNCHANGED <<session, missed>>
    BY <1>1 DEF PolicyChurn, MaxprefixTrip, BeginEvent
  <2> QED BY <2>1 DEF OverInv, Knows, Over
<1>2. CASE BgpdRestart
  BY <1>2 DEF BgpdRestart, OverInv, Over
<1>3. CASE ApplyDone \/ ApplyRaises
  <2>1. /\ pc = "apply" /\ pc' \in {"hold", "early", "boundary"}
        /\ UNCHANGED <<session, missed>>
    BY <1>3 DEF ApplyDone, ApplyRaises, GoesOn, AfterTimeout
  <2> QED BY <2>1 DEF OverInv, Knows, Over
<1>4. CASE Snapshot
  <2>1. /\ pc \in {"early", "late"} /\ pc' \in {"late", "revert"}
        /\ UNCHANGED <<session, frag, before>>
    BY <1>4 DEF Snapshot, routerVars
  <2>2. frag = "squeeze"
    BY <2>1 DEF StagesInv
  <2>3. Knows'
    BY <2>1, <2>2 DEF Knows
  <2>4. \/ Notices /\ missed' = missed \ before
        \/ UNCHANGED <<tripped, missed>>
    BY <1>4, Zenon DEF Snapshot
  <2>5. Over \cap Up = {}
    BY DEF Over, Up
  <2>6. Over' = Over
    BY <2>1 DEF Over
  <2> QED BY <2>3, <2>4, <2>5, <2>6 DEF OverInv, Notices
<1>5. CASE SqueezeRaises
  BY <1>5 DEF SqueezeRaises, LosesSight, OverInv, Over, routerVars
<1>6. CASE BeginRevert
  <2>1. /\ pc \in {"hold", "revert"} /\ pc' = "reverting"
        /\ UNCHANGED <<session, missed, frag, tripped>>
    BY <1>6 DEF BeginRevert, historyVars
  <2>2. Knows => Knows'
    BY <2>1 DEF Knows
  <2> QED BY <2>1, <2>2 DEF OverInv, Over
<1>7. CASE RevertDone
  <2>1. pc = "reverting" /\ UNCHANGED <<session, frag, tripped>>
    BY <1>7 DEF RevertDone
  <2>2. \/ /\ pc' = IF frag = "squeeze" THEN "after" ELSE "boundary"
           /\ missed' = missed
        \/ LosesSight
    BY <1>7, Zenon DEF RevertDone
  <2> QED BY <2>1, <2>2 DEF OverInv, Over, LosesSight, Knows
<1>8. CASE ClearTripped
  <2>1. pc = "after" /\ pc' = "boundary" /\ tripped' = tripped
    BY <1>8 DEF ClearTripped
  <2>2. PICK back \in {Up, {}} :
          IF tripped \ back = {}
            THEN UNCHANGED <<session, missed>>
            ELSE \/ session' = [p \in Peers |-> "down"] /\ missed' = {}
                 \/ LosesSight /\ UNCHANGED session
    BY <1>8 DEF ClearTripped
  <2>3. Over \cap Up = {}
    BY DEF Over, Up
  <2>4. CASE tripped \ back = {}
    <3>1. Over \subseteq missed
      BY <2>3, <2>4 DEF OverInv
    <3> QED BY <2>2, <2>4, <3>1 DEF OverInv, Over
  <2>5. CASE tripped \ back # {}
    BY <2>2, <2>5 DEF OverInv, Over, LosesSight
  <2> QED BY <2>4, <2>5
<1>9. CASE Boundary
  <2>1. pc = "boundary" /\ UNCHANGED <<session, missed>>
    BY <1>9 DEF Boundary, routerVars, historyVars
  <2> QED BY <2>1 DEF OverInv, Knows, Over
<1> QED BY <1>1, <1>2, <1>3, <1>4, <1>5, <1>6, <1>7, <1>8, <1>9
        DEF Harness, BeginsEvent, Goes

\* OverInv is inductive.
THEOREM OverAccountedFor == Spec => []OverInv
<1>1. Init => OverInv
  BY DEF Init, OverInv, Over
<1>2. TypeOK /\ StagesInv /\ OverInv /\ [Next]_vars => OverInv'
  <2>1. CASE UNCHANGED vars
    BY <2>1 DEF vars, routerVars, eventVars, historyVars, OverInv, Knows, Over
  <2> QED BY <2>1, RouterKeepsSight, HarnessKeepsSight DEF Next
<1> QED BY <1>1, <1>2, TypeCorrect, StagesOfTheSqueeze, PTL DEF Spec

\* Between events a peer that is over its limit is one that no snapshot of the
\* squeeze could see trip, or one of a squeeze that was cut short.
THEOREM NoneLeftOver == Spec => []NoPeerLeftOver
<1>1. OverInv => NoPeerLeftOver
  BY DEF OverInv, Knows, NoPeerLeftOver
<1> QED BY <1>1, OverAccountedFor, PTL

\* The whole invariant.
THEOREM Inductive == Spec => []IInv
<1> QED BY TypeCorrect, RunningAsPlaced, FragmentsAccountedFor,
           BlindnessExplained, StagesOfTheSqueeze, OverAccountedFor, PTL DEF IInv
=============================================================================
