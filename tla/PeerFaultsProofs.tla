-------------------------- MODULE PeerFaultsProofs --------------------------
(***************************************************************************)
(* Proofs about PeerFaults: its invariant IInv is inductive, so that each  *)
(* of its properties holds for every fleet, every number of events and of  *)
(* calls that go wrong.                                                    *)
(***************************************************************************)
EXTENDS PeerFaults, FiniteSetTheorems, TLAPS

(***************************************************************************)
(* The calls of an event.                                                  *)
(***************************************************************************)

DownOps == {"disable", "nothing", "insert", "linkdown", "netem"}
UpOps == {"enable", "delete", "linkup", "clear"}

LEMMA CallTyped ==
    ASSUME NEW op \in Ops, NEW s \in Sessions, NEW x \in Afis \cup Plan \cup {"-"}
    PROVE  /\ Call(op, s, Home[s], x) \in Calls
           /\ Call(op, s, Home[s], x).op = op
           /\ Call(op, s, Home[s], x).session = s
           /\ Call(op, s, Home[s], x).container = Home[s]
           /\ Call(op, s, Home[s], x).what = x
  BY PeerFaultsAssumption DEF Call, Calls

LEMMA OnTyped ==
    ASSUME NEW op \in Ops, NEW s \in Sessions
    PROVE  /\ On(op, s) \in Calls
           /\ On(op, s).op = op
           /\ On(op, s).session = s
           /\ On(op, s).container = Home[s]
  BY CallTyped DEF On

(* What an event puts on a peer. *)
LEMMA DownShape ==
    ASSUME NEW k \in {"peer_flap", "blackhole_peer", "netem"}, NEW m,
           k = "peer_flap" => m \in FlapModes,
           k # "peer_flap" => m = "none",
           NEW ss \in SUBSET Sessions, NEW a \in DownCalls(k, m, ss)
    PROVE  /\ a \in Calls /\ WellFormed(a) /\ a.session \in ss
           /\ a.op \in DownOps
           /\ a.op = "netem" <=> k = "netem"
           /\ a.op = "linkdown" => m = "link_down"
           /\ a.op = "disable" => a = Call("disable", a.session, Home[a.session], a.what)
           /\ a.op # "disable" => a = On(a.op, a.session)
<1>1. \E s \in ss :
        \/ \E x \in Afis : k = "peer_flap" /\ a = Call("disable", s, Home[s], x)
        \/ k = "peer_flap" /\ a = On("nothing", s)
        \/ k # "netem" /\ a = On("insert", s)
        \/ k = "peer_flap" /\ m = "link_down" /\ a = On("linkdown", s)
        \/ k = "netem" /\ a = On("netem", s)
  <2>1. CASE k = "peer_flap"
    <3>1. PICK s \in ss : a \in FlapCalls(m, s)
      BY <2>1 DEF DownCalls
    <3>2. m \in {"admin_down", "reset", "blackhole", "link_down"}
      BY <2>1 DEF FlapModes
    <3> QED
      BY <2>1, <3>1, <3>2 DEF FlapCalls
  <2>2. CASE k = "blackhole_peer"
    BY <2>2 DEF DownCalls
  <2>3. CASE k = "netem"
    BY <2>3 DEF DownCalls
  <2> QED
    BY <2>1, <2>2, <2>3
<1>2. PICK s \in ss :
        \/ \E x \in Afis : k = "peer_flap" /\ a = Call("disable", s, Home[s], x)
        \/ k = "peer_flap" /\ a = On("nothing", s)
        \/ k # "netem" /\ a = On("insert", s)
        \/ k = "peer_flap" /\ m = "link_down" /\ a = On("linkdown", s)
        \/ k = "netem" /\ a = On("netem", s)
  BY <1>1
<1>3. s \in Sessions /\ {"disable", "nothing", "insert", "linkdown", "netem"} \subseteq Ops
  BY DEF Ops
<1>4. CASE \E x \in Afis : k = "peer_flap" /\ a = Call("disable", s, Home[s], x)
  <2>1. PICK x \in Afis : k = "peer_flap" /\ a = Call("disable", s, Home[s], x)
    BY <1>4
  <2>2. x \in Afis \cup Plan \cup {"-"}
    OBVIOUS
  <2> QED
    BY <1>3, <2>1, <2>2, CallTyped DEF WellFormed, DownOps
<1>5. ASSUME NEW op \in {"nothing", "insert", "linkdown", "netem"}, a = On(op, s)
      PROVE  a \in Calls /\ WellFormed(a) /\ a.session = s /\ a.op = op
  BY <1>3, <1>5, OnTyped DEF WellFormed
<1> QED
  BY <1>2, <1>4, <1>5 DEF DownOps

(* What it does to take it back. *)
LEMMA UpShape ==
    ASSUME kind \in {"peer_flap", "blackhole_peer", "netem"},
           kind = "peer_flap" => mode \in FlapModes,
           kind # "peer_flap" => mode = "none",
           targets \subseteq Sessions, NEW a \in UpCalls
    PROVE  /\ a \in Calls /\ WellFormed(a) /\ a.session \in targets
           /\ a.op \in UpOps
           /\ a.op = "linkup" <=> mode = "link_down"
           /\ a.op = "clear" <=> kind = "netem"
           /\ kind = "blackhole_peer" => a.op = "delete"
           /\ a.op # "enable" => a = On(a.op, a.session)
<1>1. \E s \in targets :
        \/ \E x \in Afis : mode = "admin_down" /\ a = Call("enable", s, Home[s], x)
        \/ kind # "netem" /\ mode # "link_down" /\ a = On("delete", s)
        \/ mode = "link_down" /\ a = On("linkup", s)
        \/ kind = "netem" /\ a = On("clear", s)
  <2>1. CASE kind = "peer_flap"
    <3>1. PICK s \in targets : a \in UnflapCalls(mode, s)
      BY <2>1 DEF UpCalls
    <3>2. mode \in {"admin_down", "reset", "blackhole", "link_down"}
      BY <2>1 DEF FlapModes
    <3> QED
      BY <2>1, <3>1, <3>2 DEF UnflapCalls
  <2>2. CASE kind = "blackhole_peer"
    BY <2>2 DEF UpCalls
  <2>3. CASE kind = "netem"
    BY <2>3 DEF UpCalls
  <2> QED
    BY <2>1, <2>2, <2>3
<1>2. PICK s \in targets :
        \/ \E x \in Afis : mode = "admin_down" /\ a = Call("enable", s, Home[s], x)
        \/ kind # "netem" /\ mode # "link_down" /\ a = On("delete", s)
        \/ mode = "link_down" /\ a = On("linkup", s)
        \/ kind = "netem" /\ a = On("clear", s)
  BY <1>1
<1>3. s \in Sessions /\ {"enable", "delete", "linkup", "clear"} \subseteq Ops
  BY DEF Ops
<1>4. CASE \E x \in Afis : mode = "admin_down" /\ a = Call("enable", s, Home[s], x)
  <2>1. PICK x \in Afis : mode = "admin_down" /\ a = Call("enable", s, Home[s], x)
    BY <1>4
  <2>2. x \in Afis \cup Plan \cup {"-"}
    OBVIOUS
  <2>3. kind = "peer_flap"
    BY <2>1
  <2> QED
    BY <1>3, <2>1, <2>2, <2>3, CallTyped DEF WellFormed, UpOps
<1>5. ASSUME NEW op \in {"delete", "linkup", "clear"}, a = On(op, s)
      PROVE  a \in Calls /\ WellFormed(a) /\ a.session = s /\ a.op = op
  BY <1>3, <1>5, OnTyped DEF WellFormed
<1>6. kind = "netem" => mode # "link_down"
  OBVIOUS
<1>7. mode = "link_down" => kind = "peer_flap"
  OBVIOUS
<1> QED
  BY <1>2, <1>4, <1>5, <1>6, <1>7 DEF UpOps

(* Each call that puts something on has one that takes it off. *)
LEMMA UndoneByUp ==
    ASSUME kind \in {"peer_flap", "blackhole_peer", "netem"},
           kind = "peer_flap" => mode \in FlapModes,
           targets \subseteq Sessions,
           NEW a \in DownCalls(kind, mode, targets), a.op # "nothing"
    PROVE  Undo(a) \in UpCalls
<1> USE DEF Undo, On, Call
<1>1. CASE kind = "peer_flap"
  <2>1. PICK s \in targets : a \in FlapCalls(mode, s)
    BY <1>1 DEF DownCalls
  <2>2. mode \in {"admin_down", "reset", "blackhole", "link_down"}
    BY <1>1 DEF FlapModes
  <2>3. Undo(a) \in UnflapCalls(mode, s)
    <3>1. CASE mode = "admin_down"
      BY <2>1, <3>1 DEF FlapCalls, UnflapCalls
    <3>2. CASE mode = "reset"
      BY <2>1, <3>2 DEF FlapCalls, UnflapCalls
    <3>3. CASE mode = "blackhole"
      BY <2>1, <3>3 DEF FlapCalls, UnflapCalls
    <3>4. CASE mode = "link_down"
      BY <2>1, <3>4 DEF FlapCalls, UnflapCalls
    <3> QED
      BY <2>2, <3>1, <3>2, <3>3, <3>4
  <2> QED
    BY <1>1, <2>1, <2>3 DEF UpCalls
<1>2. CASE kind = "blackhole_peer"
  BY <1>2 DEF DownCalls, UpCalls
<1>3. CASE kind = "netem"
  BY <1>3 DEF DownCalls, UpCalls
<1> QED
  BY <1>1, <1>2, <1>3

(* A link flap brings every session's link up. *)
LEMMA LinkupsDue ==
    ASSUME mode = "link_down", kind = "peer_flap", NEW s \in targets
    PROVE  On("linkup", s) \in UpCalls
  BY DEF UpCalls, UnflapCalls

(* The calls of a teardown. *)
LEMMA TeardownShape ==
    ASSUME NEW c \in Containers, NEW a \in TeardownCalls(c)
    PROVE  /\ a \in Calls /\ WellFormed(a)
           /\ a.op \in {"clear", "delete", "kill"}
           /\ a.container = c
<1>1. PICK s \in Guests(c) : a \in {On("clear", s), On("delete", s), On("kill", s)}
  BY DEF TeardownCalls
<1>2. s \in Sessions /\ Home[s] = c /\ {"clear", "delete", "kill"} \subseteq Ops
  BY DEF Guests, Ops
<1> QED
  BY <1>1, <1>2, OnTyped DEF WellFormed

(* An event that goes on keeps its calls. *)
LEMMA EventFrame ==
    ASSUME UNCHANGED event
    PROVE  UpCalls' = UpCalls /\ Touched' = Touched
  BY DEF event, UpCalls, Touched

(***************************************************************************)
(* Types and stages.                                                       *)
(***************************************************************************)

Base == TypeOK /\ StageInv /\ CallsInv

(* Every event is one of the three, with its mode. *)
LEMMA KindOf ==
    ASSUME Base
    PROVE  /\ kind = "peer_flap" => mode \in FlapModes
           /\ kind # "peer_flap" => mode = "none"
           /\ pc \in Acting => kind \in {"peer_flap", "blackhole_peer", "netem"}
           /\ targets \subseteq Sessions
  BY DEF Base, TypeOK, StageInv

LEMMA InitBase == Init => Base
<1> SUFFICES ASSUME Init PROVE Base
  OBVIOUS
<1> USE PeerFaultsAssumption
<1>1. TypeOK
  <2>1. dev \in [Containers -> SUBSET Plan] /\ par \in [Containers -> SUBSET Plan]
        /\ rules \in [Containers -> Nat]
    BY DEF Init
  <2>2. events \in 0 .. MaxEvents /\ troubles \in 0 .. MaxTroubles
    BY DEF Init
  <2>3. /\ keep \cup link \cup qdisc \cup look \cup named \subseteq Containers
        /\ gens \cup targets \subseteq Sessions
        /\ disabled \subseteq Sessions \X Afis
        /\ todo \cup repair \cup late \subseteq Calls
    BY DEF Init
  <2>4. /\ kind \in {"none", "peer_flap", "blackhole_peer", "netem"}
        /\ mode \in FlapModes \cup {"none"}
        /\ pc \in Stages /\ luck \in Lucks
        /\ effective \in BOOLEAN /\ impaired \in BOOLEAN /\ stopping \in BOOLEAN
    BY DEF Init, Stages, Lucks
  <2> QED
    BY <2>1, <2>2, <2>3, <2>4 DEF TypeOK
<1>2. StageInv
  BY DEF Init, StageInv, Acting
<1>3. CallsInv
  BY DEF Init, CallsInv
<1> QED
  BY <1>1, <1>2, <1>3 DEF Base

(* What a call may change, and how. *)
LEMMA DoesTyped ==
    ASSUME TypeOK, NEW a \in Calls, WellFormed(a), Does(a)
    PROVE  /\ keep' = keep
           /\ link' \subseteq Containers
           /\ dev' \in [Containers -> SUBSET Plan]
           /\ par' \in [Containers -> SUBSET Plan]
           /\ rules' \in [Containers -> Nat]
           /\ qdisc' \subseteq Containers
           /\ disabled' \subseteq Sessions \X Afis
           /\ gens' \subseteq Sessions
<1>1. a.session \in Sessions /\ a.container \in Containers
  BY DEF Calls
<1>2. link' \subseteq Containers /\ qdisc' \subseteq Containers /\ gens' \subseteq Sessions
      /\ keep' = keep
  BY <1>1 DEF Does, TypeOK
<1>3. dev' \in [Containers -> SUBSET Plan]
  <2>1. dev \in [Containers -> SUBSET Plan]
    BY DEF TypeOK
  <2>2. a.op = "put" => a.what \in Plan
    BY DEF WellFormed
  <2>3. \/ dev' = [dev EXCEPT ![a.container] = @ \ V6]
        \/ a.op = "put" /\ dev' = [dev EXCEPT ![a.container] = @ \cup {a.what}]
        \/ dev' = dev
    BY DEF Does
  <2> QED
    BY <1>1, <2>1, <2>2, <2>3
<1>4. par' \in [Containers -> SUBSET Plan]
  <2>1. par \in [Containers -> SUBSET Plan]
    BY DEF TypeOK
  <2>2. \/ par' = [par EXCEPT ![a.container] = @ \ V6]
        \/ par' = [par EXCEPT ![a.container] = @ \ {a.what}]
        \/ par' = par
    BY DEF Does
  <2> QED
    BY <1>1, <2>1, <2>2
<1>5. rules' \in [Containers -> Nat]
  <2>1. rules \in [Containers -> Nat]
    BY DEF TypeOK
  <2>2. \/ rules' = [rules EXCEPT ![a.container] = @ + 1]
        \/ rules' = [rules EXCEPT ![a.container] = OneLess(@)]
        \/ rules' = rules
    BY DEF Does
  <2>3. rules[a.container] \in Nat /\ OneLess(rules[a.container]) \in Nat
    BY <1>1, <2>1 DEF OneLess
  <2> QED
    BY <1>1, <2>1, <2>2, <2>3
<1>6. disabled' \subseteq Sessions \X Afis
  <2>1. \/ disabled' = disabled \cup {<<a.session, a.what>>} /\ a.op = "disable"
        \/ disabled' \subseteq disabled
    BY DEF Does
  <2>2. a.op = "disable" => a.what \in Afis
    BY DEF WellFormed
  <2> QED
    BY <1>1, <2>1, <2>2 DEF TypeOK
<1> QED
  BY <1>2, <1>3, <1>4, <1>5, <1>6

(* The containers as TypeOK has them. *)
LabTyped ==
    /\ keep \subseteq Containers
    /\ link \subseteq Containers
    /\ dev \in [Containers -> SUBSET Plan]
    /\ par \in [Containers -> SUBSET Plan]
    /\ rules \in [Containers -> Nat]
    /\ qdisc \subseteq Containers
    /\ disabled \subseteq Sessions \X Afis
    /\ gens \subseteq Sessions

LEMMA SameLabTyped == ASSUME TypeOK, UNCHANGED lab PROVE LabTyped'
  BY DEF TypeOK, LabTyped, lab

LEMMA TroubleTyped ==
    ASSUME TypeOK, NEW l \in Lucks, Trouble(l)
    PROVE  troubles' \in 0 .. MaxTroubles /\ luck' \in Lucks
<1>1. luck' \in Lucks
  BY DEF Trouble, TypeOK
<1>2. troubles \in 0 .. MaxTroubles /\ troubles < MaxTroubles /\ troubles' = troubles + 1
      /\ MaxTroubles \in Nat
  BY PeerFaultsAssumption DEF Trouble, TypeOK
<1>3. troubles' \in 0 .. MaxTroubles
  BY <1>2
<1> QED
  BY <1>1, <1>3

LEMMA PerformTyped ==
    ASSUME TypeOK, NEW a \in Calls, WellFormed(a), Perform(a)
    PROVE  /\ LabTyped'
           /\ late' \subseteq late \cup {a}
           /\ troubles' \in 0 .. MaxTroubles
           /\ luck' \in Lucks
<1>1. CASE Works(a)
  BY <1>1, DoesTyped DEF Works, LabTyped, TypeOK
<1>2. CASE Fails(a)
  BY <1>2, SameLabTyped, TroubleTyped DEF Fails, Lucks
<1>3. CASE TimesOut(a)
  BY <1>3, SameLabTyped, TroubleTyped DEF TimesOut, Lucks
<1> QED
  BY <1>1, <1>2, <1>3 DEF Perform

LEMMA RaisesTyped ==
    ASSUME TypeOK, Raises
    PROVE  TypeOK'
<1>1. LabTyped' /\ troubles' \in 0 .. MaxTroubles /\ luck' \in Lucks
  BY SameLabTyped, TroubleTyped DEF Raises, Lucks
<1> QED
  BY <1>1 DEF Raises, Finish, TypeOK, LabTyped, Stages, event

LEMMA StartEventBase == ASSUME Base, StartEvent PROVE Base'
<1>1. PICK k \in {"peer_flap", "blackhole_peer", "netem"}, m \in Modes,
           ss \in SUBSET Sessions \ {{}} :
        /\ kind' = k
        /\ mode' = IF k = "peer_flap" THEN m ELSE "none"
        /\ targets' = ss
        /\ todo' = DownCalls(k, m, ss)
        /\ impaired' = (k # "netem")
  BY DEF StartEvent
<1>2. m \in FlapModes
  BY PeerFaultsAssumption
<1>3. todo' = DownCalls(kind', mode', targets')
  BY <1>1 DEF DownCalls
<1>4. \A a \in todo' : a \in Calls /\ WellFormed(a)
  BY <1>1, <1>2, <1>3, DownShape
<1>5. events' \in 0 .. MaxEvents
  <2>1. events \in 0 .. MaxEvents /\ events < MaxEvents /\ events' = events + 1
        /\ MaxEvents \in Nat
    BY PeerFaultsAssumption DEF StartEvent, Base, TypeOK
  <2> QED
    BY <2>1
<1>6. TypeOK'
  <2>1. LabTyped'
    BY SameLabTyped DEF StartEvent, Base
  <2>2. kind' \in {"none", "peer_flap", "blackhole_peer", "netem"}
        /\ mode' \in FlapModes \cup {"none"} /\ targets' \subseteq Sessions
    BY <1>1, <1>2
  <2>3. pc' \in Stages /\ luck' \in Lucks /\ effective' \in BOOLEAN /\ impaired' \in BOOLEAN
    BY <1>1 DEF StartEvent, Stages, Lucks
  <2> QED
    BY <1>4, <1>5, <2>1, <2>2, <2>3 DEF StartEvent, Base, TypeOK, LabTyped
<1>7. StageInv'
  BY <1>1, <1>2 DEF StartEvent, StageInv, FlapModes
<1>8. CallsInv'
  BY <1>3, <1>4 DEF StartEvent, CallsInv, Base
<1> QED
  BY <1>6, <1>7, <1>8 DEF Base

LEMMA CallDownBase == ASSUME Base, CallDown PROVE Base'
<1>1. PICK a \in todo :
        /\ Perform(a)
        /\ todo' = todo \ {a}
        /\ IF kind = "peer_flap"
           THEN /\ pc' = IF todo' = {} THEN "hold" ELSE "down"
                /\ look' = {}
           ELSE /\ pc' = "count"
                /\ look' = {a.container}
  BY DEF CallDown
<1>2. a \in Calls /\ WellFormed(a) /\ a.container \in Containers
  BY DEF Base, TypeOK, CallsInv, Calls
<1>3. LabTyped' /\ late' \subseteq late \cup {a} /\ troubles' \in 0 .. MaxTroubles
      /\ luck' \in Lucks
  BY <1>1, <1>2, PerformTyped DEF Base
<1>4. UNCHANGED <<kind, mode, targets, repair, effective, named, impaired, stopping, events>>
  BY DEF CallDown, event
<1>5. TypeOK'
  <2>1. look' \subseteq Containers /\ pc' \in Stages /\ todo' \subseteq Calls
        /\ late' \subseteq Calls
    BY <1>1, <1>2, <1>3 DEF Base, TypeOK, Stages
  <2> QED
    BY <1>3, <1>4, <2>1 DEF Base, TypeOK, LabTyped
<1>6. StageInv'
  BY <1>1, <1>4 DEF Base, StageInv, CallDown, Acting
<1>7. CallsInv'
  <2>1. \A b \in todo' \cup repair' \cup late' : WellFormed(b)
    BY <1>1, <1>2, <1>3, <1>4 DEF Base, CallsInv
  <2>2. todo \subseteq DownCalls(kind, mode, targets) /\ repair = {}
    BY DEF Base, CallsInv, CallDown
  <2>3. todo' \subseteq DownCalls(kind', mode', targets')
    BY <1>1, <1>4, <2>2
  <2>4. pc' \in {"hold", "down", "count"} /\ (pc' = "hold" => todo' = {})
    BY <1>1
  <2> QED
    BY <1>4, <2>1, <2>2, <2>3, <2>4 DEF CallsInv
<1> QED
  BY <1>5, <1>6, <1>7 DEF Base

(* An exception leaves no call behind. *)
LEMMA RaisesBase == ASSUME Base, Raises PROVE Base'
<1>1. TypeOK'
  BY RaisesTyped DEF Base
<1>2. StageInv'
  BY DEF Raises, Finish, Base, StageInv, event, Acting
<1>3. CallsInv'
  BY DEF Raises, Finish, Base, CallsInv
<1> QED
  BY <1>1, <1>2, <1>3 DEF Base

LEMMA CountBase == ASSUME Base, Count PROVE Base'
<1>1. CASE Raises
  BY <1>1, RaisesBase
<1>2. CASE ~Raises
  <2>1. Counted /\ pc = "count" /\ effective' \in BOOLEAN
        /\ troubles' \in 0 .. MaxTroubles /\ luck' \in Lucks
    <3>1. CASE Trouble("failed") /\ UNCHANGED effective /\ Counted
      BY <3>1, TroubleTyped DEF Base, TypeOK, Lucks, Count
    <3>2. CASE /\ effective' = (effective \/ \E c \in look : IF kind = "netem" THEN c \in qdisc
                                                                        ELSE rules[c] > 0)
               /\ Counted
               /\ UNCHANGED <<troubles, luck>>
      BY <3>2 DEF Base, TypeOK, Count
    <3> QED
      BY <1>2, <3>1, <3>2 DEF Count
  <2>2. UNCHANGED <<lab, kind, mode, targets, repair, named, impaired, stopping, late, events>>
        /\ look' = {}
    BY <2>1 DEF Counted, event
  <2>3. kind \in {"blackhole_peer", "netem"} /\ mode = "none" /\ targets \subseteq Sessions
    BY <2>1, KindOf DEF Base, StageInv, Acting
  <2>4. \A a \in UpCalls : a \in Calls /\ WellFormed(a)
    BY <2>3, UpShape
  <2>5. UpCalls' = UpCalls
    BY <2>2, EventFrame DEF event
  <2>6. \/ pc' = "down" /\ todo' = todo
        \/ pc' = "hold" /\ todo' = todo /\ todo = {}
        \/ pc' = "up" /\ todo' = UpCalls
        \/ pc' = "giveup" /\ todo' = UpCalls /\ kind # "netem"
    BY <2>1 DEF Counted
  <2>7. todo \subseteq Calls /\ todo \subseteq DownCalls(kind, mode, targets) /\ repair = {}
        /\ \A a \in todo \cup late : WellFormed(a)
    BY <2>1 DEF Base, TypeOK, CallsInv
  <2>8. TypeOK'
    <3>1. LabTyped'
      BY <2>2, SameLabTyped DEF Base
    <3>2. todo' \subseteq Calls /\ pc' \in Stages
      BY <2>4, <2>6, <2>7 DEF Stages
    <3> QED
      BY <2>1, <2>2, <3>1, <3>2 DEF Base, TypeOK, LabTyped
  <2>9. StageInv'
    BY <2>2, <2>3, <2>6 DEF StageInv, Acting
  <2>10. CallsInv'
    BY <2>2, <2>4, <2>5, <2>6, <2>7 DEF CallsInv
  <2> QED
    BY <2>8, <2>9, <2>10 DEF Base
<1> QED
  BY <1>1, <1>2

LEMMA HoldBase == ASSUME Base, Hold PROVE Base'
<1>1. kind \in {"peer_flap", "blackhole_peer", "netem"}
      /\ (kind = "peer_flap" => mode \in FlapModes) /\ (kind # "peer_flap" => mode = "none")
      /\ targets \subseteq Sessions
  BY KindOf DEF Hold, Acting
<1>2. \A a \in UpCalls : a \in Calls /\ WellFormed(a)
  BY <1>1, UpShape
<1>3. UpCalls' = UpCalls
  BY EventFrame DEF Hold
<1>4. TypeOK'
  <2>1. LabTyped'
    BY SameLabTyped DEF Base, Hold
  <2> QED
    BY <1>2, <2>1 DEF Base, TypeOK, LabTyped, Hold, event, Stages
<1>5. StageInv'
  BY <1>1 DEF Base, StageInv, Hold, event
<1>6. CallsInv'
  BY <1>2, <1>3 DEF Base, CallsInv, Hold
<1> QED
  BY <1>4, <1>5, <1>6 DEF Base

LEMMA CallUpBase == ASSUME Base, CallUp PROVE Base'
<1>1. PICK a \in todo :
        /\ Perform(a)
        /\ todo' = todo \ {a}
        /\ IF a.op = "linkup"
           THEN pc' = "read" /\ look' = {a.container}
           ELSE UNCHANGED <<pc, look>>
  BY DEF CallUp
<1>2. a \in Calls /\ WellFormed(a) /\ a.container \in Containers
  BY DEF Base, TypeOK, CallsInv, Calls
<1>3. LabTyped' /\ late' \subseteq late \cup {a} /\ troubles' \in 0 .. MaxTroubles
      /\ luck' \in Lucks
  BY <1>1, <1>2, PerformTyped DEF Base
<1>4. UNCHANGED <<kind, mode, targets, repair, effective, named, impaired, stopping, events>>
      /\ repair = {} /\ pc \in {"up", "giveup", "teardown"}
  BY DEF CallUp, event
<1>5. a.op = "linkup" => pc = "up" /\ mode = "link_down" /\ \E s \in targets : a.container = Home[s]
  <2> SUFFICES ASSUME a.op = "linkup"
               PROVE  pc = "up" /\ mode = "link_down" /\ \E s \in targets : a.container = Home[s]
    OBVIOUS
  <2>1. pc # "teardown"
    BY DEF Base, CallsInv
  <2>2. a \in UpCalls /\ pc \in Acting
    BY <1>4, <2>1 DEF Base, CallsInv, Acting
  <2>3. a.session \in targets /\ mode = "link_down"
    BY <2>2, KindOf, UpShape
  <2>4. pc # "giveup"
    BY <2>3 DEF Base, StageInv
  <2> QED
    BY <1>2, <1>4, <2>1, <2>3, <2>4 DEF WellFormed
<1>6. TypeOK'
  <2>1. look' \subseteq Containers /\ pc' \in Stages /\ todo' \subseteq Calls
        /\ late' \subseteq Calls
    BY <1>1, <1>2, <1>3 DEF Base, TypeOK, Stages
  <2> QED
    BY <1>3, <1>4, <2>1 DEF Base, TypeOK, LabTyped
<1>7. StageInv'
  <2>1. CASE a.op = "linkup"
    BY <1>1, <1>4, <1>5, <2>1 DEF Base, StageInv, Acting
  <2>2. CASE a.op # "linkup"
    BY <1>1, <1>4, <2>2 DEF Base, StageInv, Acting
  <2> QED
    BY <2>1, <2>2
<1>8. CallsInv'
  <2>1. \A b \in todo' \cup repair' \cup late' : WellFormed(b)
    BY <1>1, <1>2, <1>3, <1>4 DEF Base, CallsInv
  <2>2. UpCalls' = UpCalls
    BY <1>4, EventFrame DEF event
  <2>3. CASE a.op = "linkup"
    <3>1. todo \subseteq UpCalls /\ pc' = "read"
      BY <1>1, <1>5, <2>3 DEF Base, CallsInv
    <3> QED
      BY <1>1, <1>4, <2>1, <2>2, <3>1 DEF CallsInv
  <2>4. CASE a.op # "linkup"
    <3>1. pc' = pc /\ todo' \subseteq todo
      BY <1>1, <2>4
    <3> QED
      BY <1>4, <2>1, <2>2, <3>1 DEF Base, CallsInv
  <2> QED
    BY <2>3, <2>4
<1> QED
  BY <1>6, <1>7, <1>8 DEF Base

LEMMA RepairShape ==
    ASSUME NEW s \in Sessions, NEW have, NEW stray \in SUBSET Plan,
           NEW a \in Repairs(s, have, stray)
    PROVE  a \in Calls /\ WellFormed(a) /\ a.op \in {"put", "take"} /\ a.container = Home[s]
<1>1. \/ \E x \in Plan \ have : a = Call("put", s, Home[s], x)
      \/ \E x \in stray : a = Call("take", s, Home[s], x)
  BY DEF Repairs
<1>2. PICK x \in Plan : a = Call("put", s, Home[s], x) \/ a = Call("take", s, Home[s], x)
  BY <1>1
<1>3. {"put", "take"} \subseteq Ops /\ x \in Afis \cup Plan \cup {"-"}
  BY DEF Ops
<1> QED
  BY <1>2, <1>3, CallTyped DEF WellFormed

(* A read that is answered, truly or in part. *)
LEMMA ReadAnswered ==
    ASSUME Base, Read, ~Raises
    PROVE  /\ \E s \in targets, have, stray \in SUBSET Plan :
                 /\ look = {Home[s]}
                 /\ \/ /\ have = dev[Home[s]] /\ stray = par[Home[s]]
                       /\ UNCHANGED <<troubles, luck>>
                    \/ Trouble("failed")
                 /\ repair' = Repairs(s, have, stray)
           /\ pc = "read" /\ pc' = "up" /\ look' = {}
           /\ UNCHANGED <<lab, event, todo, effective, named, impaired, stopping, late, events>>
  BY DEF Read

LEMMA ReadBase == ASSUME Base, Read PROVE Base'
<1>1. CASE Raises
  BY <1>1, RaisesBase
<1>2. CASE ~Raises
  <2>1. PICK s \in targets, have, stray \in SUBSET Plan :
          /\ UNCHANGED <<troubles, luck>> \/ Trouble("failed")
          /\ repair' = Repairs(s, have, stray)
    BY <1>2, ReadAnswered
  <2>2. pc = "read" /\ pc' = "up" /\ look' = {}
        /\ UNCHANGED <<lab, kind, mode, targets, todo, effective, named, impaired, stopping, late,
                       events>>
    BY <1>2, ReadAnswered DEF event
  <2>3. s \in Sessions
    BY DEF Base, TypeOK
  <2>4. \A a \in repair' : a \in Calls /\ WellFormed(a) /\ a.op \in {"put", "take"}
    BY <2>1, <2>3, RepairShape
  <2>5. troubles' \in 0 .. MaxTroubles /\ luck' \in Lucks
    <3>1. CASE Trouble("failed")
      BY <3>1, TroubleTyped DEF Base, Lucks
    <3> QED
      BY <2>1, <3>1 DEF Base, TypeOK
  <2>6. TypeOK'
    <3>1. LabTyped'
      BY <2>2, SameLabTyped DEF Base
    <3> QED
      BY <2>2, <2>4, <2>5, <3>1 DEF Base, TypeOK, LabTyped, Stages
  <2>7. StageInv'
    BY <2>2 DEF Base, StageInv, Acting
  <2>8. UpCalls' = UpCalls
    BY <2>2, EventFrame DEF event
  <2>9. CallsInv'
    BY <2>2, <2>4, <2>8 DEF Base, CallsInv
  <2> QED
    BY <2>6, <2>7, <2>9 DEF Base
<1> QED
  BY <1>1, <1>2

LEMMA RepairBase == ASSUME Base, Repair PROVE Base'
<1>1. PICK a \in repair : Perform(a) /\ repair' = repair \ {a}
  BY DEF Repair
<1>2. a \in Calls /\ WellFormed(a)
  BY DEF Base, TypeOK, CallsInv
<1>3. LabTyped' /\ late' \subseteq late \cup {a} /\ troubles' \in 0 .. MaxTroubles
      /\ luck' \in Lucks
  BY <1>1, <1>2, PerformTyped DEF Base
<1>4. UNCHANGED <<kind, mode, targets, pc, todo, look, effective, named, impaired, stopping,
                  events>>
      /\ pc = "up"
  BY DEF Repair, event
<1>5. late' \subseteq Calls /\ repair' \subseteq Calls
  BY <1>1, <1>2, <1>3 DEF Base, TypeOK
<1>6. TypeOK'
  BY <1>3, <1>4, <1>5 DEF Base, TypeOK, LabTyped
<1>7. StageInv'
  BY <1>4 DEF Base, StageInv
<1>8. UpCalls' = UpCalls
  BY <1>4, EventFrame DEF event
<1>9. CallsInv'
  <2>1. \A b \in todo' \cup repair' \cup late' : WellFormed(b)
    BY <1>1, <1>2, <1>3, <1>4 DEF Base, CallsInv
  <2> QED
    BY <1>1, <1>4, <1>8, <2>1 DEF Base, CallsInv
<1> QED
  BY <1>6, <1>7, <1>9 DEF Base

LEMMA AllUpBase == ASSUME Base, AllUp PROVE Base'
<1>1. todo = {} /\ repair = {}
      /\ UNCHANGED <<lab, kind, mode, targets, repair, effective, named, stopping, late, events,
                     troubles, luck>>
  BY DEF AllUp, event
<1>2. \/ pc = "up" /\ mode = "link_down" /\ pc' = "check" /\ look' = Touched /\ todo' = {}
         /\ impaired' = impaired
      \/ pc = "up" /\ pc' \in {"idle", "stopped"} /\ look' = look /\ todo' = {}
         /\ impaired' = FALSE
      \/ pc = "giveup" /\ pc' = "up" /\ todo' = UpCalls /\ look' = look /\ impaired' = impaired
      \/ pc = "teardown" /\ pc' = "over" /\ todo' = {} /\ look' = look /\ impaired' = impaired
      \/ /\ pc = "teardown" /\ pc' = "teardown" /\ impaired' = impaired
         /\ \E c \in look : todo' = TeardownCalls(c) /\ look' = look \ {c}
  BY <1>1 DEF AllUp, Finish
<1>3. Touched \subseteq Containers
  BY PeerFaultsAssumption DEF Touched, Base, TypeOK
<1>4. pc = "giveup" => \A a \in UpCalls : a \in Calls /\ WellFormed(a)
  BY KindOf, UpShape DEF Acting
<1>5. \A c \in look : \A a \in TeardownCalls(c) :
         a \in Calls /\ WellFormed(a) /\ a.op \in {"clear", "delete", "kill"}
  BY TeardownShape DEF Base, TypeOK
<1>6. todo' \subseteq Calls /\ look' \subseteq Containers /\ pc' \in Stages
      /\ impaired' \in BOOLEAN /\ \A a \in todo' : WellFormed(a)
  BY <1>2, <1>3, <1>4, <1>5 DEF Base, TypeOK, Stages
<1>7. TypeOK'
  <2>1. LabTyped'
    BY <1>1, SameLabTyped DEF Base
  <2> QED
    BY <1>1, <1>6, <2>1 DEF Base, TypeOK, LabTyped
<1>8. StageInv'
  BY <1>1, <1>2 DEF Base, StageInv, Acting
<1>9. UpCalls' = UpCalls
  BY <1>1, EventFrame DEF event
<1>10. CallsInv'
  <2>1. \A b \in todo' \cup repair' \cup late' : WellFormed(b)
    BY <1>1, <1>6 DEF Base, CallsInv
  <2>2. pc' = "teardown" => \A a \in todo' : a.op \in {"clear", "delete", "kill"}
    BY <1>2, <1>5
  <2> QED
    BY <1>1, <1>2, <1>9, <2>1, <2>2 DEF CallsInv
<1> QED
  BY <1>7, <1>8, <1>10 DEF Base

LEMMA CheckAnswered ==
    ASSUME Check, ~Raises
    PROVE  /\ \E c \in look, have, stray \in SUBSET Plan :
                 /\ \/ /\ have = dev[c] /\ stray = par[c]
                       /\ UNCHANGED <<troubles, luck>>
                    \/ /\ have \in {dev[c]} \cup Seen(dev[c])
                       /\ Trouble("failed")
                 /\ named' = IF Broken(have, stray) THEN named \cup {c} ELSE named
                 /\ look' = look \ {c}
           /\ pc = "check"
           /\ \/ look' = {} /\ pc' \in {"idle", "stopped"} /\ impaired' = FALSE
              \/ look' # {} /\ UNCHANGED <<pc, impaired>>
           /\ UNCHANGED <<lab, event, todo, repair, effective, stopping, late, events>>
  BY DEF Check, Finish

LEMMA CheckBase == ASSUME Base, Check PROVE Base'
<1>1. CASE Raises
  BY <1>1, RaisesBase
<1>2. CASE ~Raises
  <2>1. PICK c \in look, have, stray \in SUBSET Plan :
          /\ UNCHANGED <<troubles, luck>> \/ Trouble("failed")
          /\ named' = IF Broken(have, stray) THEN named \cup {c} ELSE named
          /\ look' = look \ {c}
    BY <1>2, CheckAnswered
  <2>2. /\ pc = "check"
        /\ \/ look' = {} /\ pc' \in {"idle", "stopped"} /\ impaired' = FALSE
           \/ look' # {} /\ UNCHANGED <<pc, impaired>>
        /\ UNCHANGED <<lab, kind, mode, targets, todo, repair, effective, stopping, late, events>>
    BY <1>2, CheckAnswered DEF event
  <2>3. troubles' \in 0 .. MaxTroubles /\ luck' \in Lucks
    <3>1. CASE Trouble("failed")
      BY <3>1, TroubleTyped DEF Base, Lucks
    <3> QED
      BY <2>1, <3>1 DEF Base, TypeOK
  <2>4. TypeOK'
    <3>1. LabTyped'
      BY <2>2, SameLabTyped DEF Base
    <3>2. named' \subseteq Containers /\ look' \subseteq Containers /\ pc' \in Stages
          /\ impaired' \in BOOLEAN
      BY <2>1, <2>2 DEF Base, TypeOK, Stages
    <3> QED
      BY <2>2, <2>3, <3>1, <3>2 DEF Base, TypeOK, LabTyped
  <2>5. StageInv'
    BY <2>2 DEF Base, StageInv, Acting
  <2>6. CallsInv'
    BY <2>2 DEF Base, CallsInv
  <2> QED
    BY <2>4, <2>5, <2>6 DEF Base
<1> QED
  BY <1>1, <1>2

(* Where an interrupt leads. *)
LEMMA Interrupted ==
    ASSUME Interrupt
    PROVE  /\ pc \in Acting /\ repair' = {} /\ look' = {} /\ stopping' = TRUE
           /\ \/ kind = "blackhole_peer" /\ pc' = "up" /\ todo' = UpCalls /\ impaired' = impaired
              \/ pc' = "stopped" /\ todo' = {} /\ impaired' \in BOOLEAN
           /\ \/ UNCHANGED <<late, troubles, luck>>
              \/ \E a \in todo \cup repair : late' = late \cup {a} /\ Trouble("given up")
           /\ UNCHANGED <<lab, event, effective, named, events>>
  BY DEF Interrupt, Acting

LEMMA InterruptBase == ASSUME Base, Interrupt PROVE Base'
<1>1. pc \in Acting /\ repair' = {} /\ look' = {} /\ stopping' = TRUE
      /\ UNCHANGED <<lab, kind, mode, targets, effective, named, events>>
  BY Interrupted DEF event
<1>2. \/ kind = "blackhole_peer" /\ pc' = "up" /\ todo' = UpCalls /\ impaired' = impaired
      \/ pc' = "stopped" /\ todo' = {} /\ impaired' \in BOOLEAN
  BY Interrupted
<1>3. \/ UNCHANGED <<late, troubles, luck>>
      \/ \E a \in todo \cup repair : late' = late \cup {a} /\ Trouble("given up")
  BY Interrupted
<1>4. \A a \in UpCalls : a \in Calls /\ WellFormed(a)
  BY <1>1, KindOf, UpShape
<1>5. troubles' \in 0 .. MaxTroubles /\ luck' \in Lucks
  <2>1. CASE Trouble("given up")
    BY <2>1, TroubleTyped DEF Base, Lucks
  <2> QED
    BY <1>3, <2>1 DEF Base, TypeOK
<1>6. late' \subseteq Calls /\ \A a \in late' : WellFormed(a)
  BY <1>3 DEF Base, TypeOK, CallsInv
<1>7. todo' \subseteq Calls /\ \A a \in todo' : WellFormed(a)
  BY <1>2, <1>4
<1>8. TypeOK'
  <2>1. LabTyped'
    BY <1>1, SameLabTyped DEF Base
  <2> QED
    BY <1>1, <1>2, <1>5, <1>6, <1>7, <2>1 DEF Base, TypeOK, LabTyped, Stages
<1>9. StageInv'
  BY <1>1, <1>2 DEF Base, StageInv, Acting
<1>10. UpCalls' = UpCalls
  BY <1>1, EventFrame DEF event
<1>11. CallsInv'
  BY <1>1, <1>2, <1>6, <1>7, <1>10 DEF CallsInv
<1> QED
  BY <1>8, <1>9, <1>11 DEF Base

LEMMA StartTeardownBase == ASSUME Base, StartTeardown PROVE Base'
<1>1. LabTyped'
  BY SameLabTyped DEF Base, StartTeardown
<1>2. 0 \in 0 .. MaxEvents
  BY PeerFaultsAssumption
<1>3. TypeOK'
  BY <1>1, <1>2 DEF StartTeardown, Base, TypeOK, LabTyped, Stages, Lucks
<1>4. StageInv'
  BY DEF StartTeardown, Base, StageInv, Acting
<1>5. CallsInv'
  BY DEF StartTeardown, Base, CallsInv
<1> QED
  BY <1>3, <1>4, <1>5 DEF Base

LEMMA RunsLateBase == ASSUME Base, RunsLate PROVE Base'
<1>1. PICK a \in late : Does(a) /\ late' = late \ {a}
  BY DEF RunsLate
<1>2. a \in Calls /\ WellFormed(a)
  BY DEF Base, TypeOK, CallsInv
<1>3. LabTyped'
  BY <1>1, <1>2, DoesTyped DEF Base, TypeOK, LabTyped
<1>4. UNCHANGED <<kind, mode, targets, pc, todo, repair, look, effective, named, impaired,
                  stopping, events, troubles, luck>>
  BY DEF RunsLate, event
<1>5. TypeOK'
  BY <1>1, <1>3, <1>4 DEF Base, TypeOK, LabTyped
<1>6. StageInv'
  BY <1>4 DEF Base, StageInv
<1>7. UpCalls' = UpCalls
  BY <1>4, EventFrame DEF event
<1>8. CallsInv'
  BY <1>1, <1>4, <1>7 DEF Base, CallsInv
<1> QED
  BY <1>5, <1>6, <1>8 DEF Base

LEMMA BaseStep == Base /\ [Next]_vars => Base'
<1> SUFFICES ASSUME Base, [Next]_vars PROVE Base'
  OBVIOUS
<1>1. CASE UNCHANGED vars
  <2>1. TypeOK' /\ StageInv'
    BY <1>1 DEF vars, lab, event, Base, TypeOK, StageInv
  <2>2. UpCalls' = UpCalls
    BY <1>1, EventFrame DEF vars
  <2>3. CallsInv'
    BY <1>1, <2>2 DEF vars, event, Base, CallsInv
  <2> QED
    BY <2>1, <2>3 DEF Base
<1> QED
  BY <1>1, StartEventBase, CallDownBase, CountBase, HoldBase, CallUpBase, ReadBase, RepairBase,
     AllUpBase, CheckBase, InterruptBase, StartTeardownBase, RunsLateBase DEF Next

(***************************************************************************)
(* Where a step leads from each stage.                                     *)
(***************************************************************************)

LEMMA StageFrom ==
    ASSUME Base, [Next]_vars
    PROVE  /\ ~StartEvent /\ pc' \in Acting => pc \in Acting
           /\ pc \in {"teardown", "over"} => pc' \in {"teardown", "over"}
           /\ pc' \in {"teardown", "over"} /\ ~StartTeardown => pc = "teardown" \/ pc' = pc
           /\ Running' => Running
           /\ ~StartEvent /\ ~StartTeardown => UNCHANGED event
<1> USE DEF Acting, Running
<1>1. CASE CallUp
  <2>1. PICK a \in todo :
          IF a.op = "linkup" THEN pc' = "read" ELSE pc' = pc
    BY <1>1 DEF CallUp
  <2>2. a.op = "linkup" => pc # "teardown"
    BY <1>1 DEF Base, CallsInv, CallUp
  <2> QED
    BY <1>1, <2>1, <2>2 DEF CallUp
<1>2. CASE AllUp
  BY <1>2 DEF AllUp, Finish
<1>3. CASE Count
  BY <1>3 DEF Count, Counted, Raises, Finish
<1>4. CASE Read
  BY <1>4, ReadAnswered DEF Raises, Finish, Read
<1>5. CASE Check
  BY <1>5, CheckAnswered DEF Raises, Finish, Check
<1>6. CASE Interrupt
  BY <1>6, Interrupted
<1>7. CASE StartEvent \/ StartTeardown
  BY <1>7 DEF StartEvent, StartTeardown
<1>8. CASE CallDown
  BY <1>8 DEF CallDown
<1>9. CASE Hold \/ Repair \/ RunsLate
  BY <1>9 DEF Hold, Repair, RunsLate
<1> QED
  BY <1>1, <1>2, <1>3, <1>4, <1>5, <1>6, <1>7, <1>8, <1>9 DEF Next, vars

(***************************************************************************)
(* What a call that did not go wrong did.                                  *)
(***************************************************************************)

LEMMA TroubleCounts ==
    ASSUME TypeOK, NEW l, Trouble(l)
    PROVE  ~Clean'
<1>1. troubles \in 0 .. MaxTroubles /\ MaxTroubles \in Nat
  BY PeerFaultsAssumption DEF TypeOK
<1>2. troubles' = troubles + 1
  BY DEF Trouble
<1>3. troubles' # 0
  BY <1>1, <1>2
<1> QED
  BY <1>3 DEF Clean

LEMMA TroubleShows ==
    ASSUME TypeOK, NEW l, l # "worked", Trouble(l)
    PROVE  /\ ~Clean'
           /\ luck' # "worked"
           /\ luck' # "given up" => luck # "given up" /\ luck' = l
  BY TroubleCounts DEF Trouble

LEMMA PerformShows ==
    ASSUME TypeOK, NEW a, Perform(a)
    PROVE  /\ luck' # "given up" => luck # "given up" /\ late' = late
           /\ luck' = "raised" => luck = "raised"
           /\ luck' = "worked" => luck = "worked" /\ Does(a)
           /\ Clean' => Clean /\ Does(a) /\ UNCHANGED <<late, luck>>
<1>1. CASE Works(a)
  BY <1>1 DEF Works, Clean
<1>2. CASE Fails(a)
  <2>1. ~Clean' /\ luck' # "worked"
        /\ (luck' # "given up" => luck # "given up" /\ luck' = "failed")
    BY <1>2, TroubleShows DEF Fails
  <2> QED
    BY <1>2, <2>1 DEF Fails
<1>3. CASE TimesOut(a)
  <2>1. ~Clean' /\ luck' # "worked" /\ luck' = "given up"
    BY <1>3, TroubleShows DEF TimesOut, Trouble
  <2> QED
    BY <2>1
<1> QED
  BY <1>1, <1>2, <1>3 DEF Perform

(* A step without trouble does not touch the history, but for the start of
   an event or of a teardown. *)
LEMMA LuckStep ==
    ASSUME Base, [Next]_vars
    PROVE  \/ StartEvent \/ StartTeardown
           \/ UNCHANGED <<troubles, luck, late>>
           \/ RunsLate
           \/ \E a : Perform(a) /\ UNCHANGED kind /\ (pc \in Acting <=> pc' \in Acting)
                  /\ (pc \in {"teardown", "over"} <=> pc' \in {"teardown", "over"})
           \/ Trouble("failed") /\ UNCHANGED late /\ pc \in Acting
           \/ Trouble("raised") /\ UNCHANGED late /\ pc' \notin Acting /\ pc \in Acting
           \/ Trouble("given up") /\ pc \in Acting
<1>1. CASE CallDown
  BY <1>1 DEF CallDown, event, Acting
<1>2. CASE Count
  BY <1>2 DEF Count, Counted, Raises, Finish, Acting
<1>3. CASE CallUp
  <2>1. PICK a \in todo :
          /\ Perform(a)
          /\ IF a.op = "linkup"
             THEN pc' = "read" /\ look' = {a.container}
             ELSE UNCHANGED <<pc, look>>
    BY <1>3 DEF CallUp
  <2>2. a.op = "linkup" => pc # "teardown"
    BY <1>3 DEF Base, CallsInv, CallUp
  <2> QED
    BY <1>3, <2>1, <2>2 DEF CallUp, event, Acting
<1>4. CASE Read
  <2>1. CASE Raises
    BY <1>4, <2>1 DEF Raises, Finish, Acting, Read
  <2>2. CASE ~Raises
    BY <2>2, <1>4, ReadAnswered DEF Acting
  <2> QED
    BY <2>1, <2>2
<1>5. CASE Repair
  BY <1>5 DEF Repair, event, Acting
<1>6. CASE Check
  <2>1. CASE Raises
    BY <1>6, <2>1 DEF Raises, Finish, Acting, Check
  <2>2. CASE ~Raises
    BY <2>2, <1>6, CheckAnswered DEF Acting
  <2> QED
    BY <2>1, <2>2
<1>7. CASE Interrupt
  BY <1>7, Interrupted
<1>8. CASE Hold
  BY <1>8 DEF Hold
<1>9. CASE AllUp
  BY <1>9 DEF AllUp
<1> QED
  BY <1>1, <1>2, <1>3, <1>4, <1>5, <1>6, <1>7, <1>8, <1>9 DEF Next, vars

LEMMA QuietStep == Base /\ QuietInv /\ [Next]_vars => QuietInv'
<1> SUFFICES ASSUME Base, QuietInv, [Next]_vars PROVE QuietInv'
  OBVIOUS
<1> USE DEF QuietInv
<1>1. CASE StartEvent
  BY <1>1 DEF StartEvent, Clean, Acting
<1>2. CASE StartTeardown
  BY <1>2 DEF StartTeardown, Clean, Acting
<1>3. CASE RunsLate
  BY <1>3 DEF RunsLate, Clean
<1>4. ASSUME NEW a, Perform(a), pc \in Acting <=> pc' \in Acting,
             pc \in {"teardown", "over"} <=> pc' \in {"teardown", "over"}
      PROVE  QuietInv'
  BY <1>4, PerformShows DEF Base
<1>5. CASE Trouble("failed") /\ UNCHANGED late /\ pc \in Acting
  <2>1. ~Clean' /\ (luck' # "given up" => luck # "given up" /\ luck' = "failed")
    BY <1>5, TroubleShows DEF Base
  <2>2. pc \notin {"teardown", "over"}
    BY <1>5 DEF Acting
  <2>3. luck' # "raised"
    BY <2>1
  <2> QED
    BY <1>5, <2>1, <2>2, <2>3
<1>6. CASE Trouble("raised") /\ UNCHANGED late /\ pc' \notin Acting /\ pc \in Acting
  BY <1>6, TroubleShows DEF Base, Acting
<1>7. CASE Trouble("given up") /\ pc \in Acting
  <2>1. luck' = "given up"
    BY <1>7 DEF Trouble
  <2> QED
    BY <1>7, <2>1, TroubleShows DEF Base
<1>8. CASE UNCHANGED <<troubles, luck, late>> /\ ~StartEvent /\ ~StartTeardown
  <2>1. pc' \in Acting => pc \in Acting
    BY <1>8, StageFrom
  <2>2. pc \in {"teardown", "over"} => pc' \in {"teardown", "over"}
    BY <1>8, StageFrom
  <2> QED
    BY <1>8, <2>1, <2>2 DEF Clean
<1> QED
  BY <1>1, <1>2, <1>3, <1>4, <1>5, <1>6, <1>7, <1>8, LuckStep

LEMMA ImpairedStep == Base /\ ImpairedInv /\ [Next]_vars => ImpairedInv'
<1> SUFFICES ASSUME Base, ImpairedInv, [Next]_vars, pc' \in Acting, kind' # "netem"
             PROVE  impaired'
  BY DEF ImpairedInv
<1>1. CASE StartEvent
  BY <1>1 DEF StartEvent
<1>2. CASE ~StartEvent
  <2>1. ~StartTeardown
    BY DEF StartTeardown, Acting
  <2>2. pc \in Acting /\ UNCHANGED kind
    BY <1>2, <2>1, StageFrom DEF event
  <2>3. impaired
    BY <2>2 DEF ImpairedInv
  <2>4. impaired' = impaired
    <3>1. CASE Count
      BY <3>1 DEF Count, Counted, Raises, Finish, Acting
    <3>2. CASE Read
      BY <3>2, ReadAnswered DEF Raises, Finish, Acting
    <3>3. CASE Check
      BY <3>3, CheckAnswered DEF Raises, Finish, Acting
    <3>4. CASE Interrupt
      BY <3>4, Interrupted DEF Acting
    <3>5. CASE AllUp
      BY <3>5 DEF AllUp, Finish, Acting
    <3>6. CASE CallDown \/ Hold \/ CallUp \/ Repair \/ RunsLate
      BY <3>6 DEF CallDown, Hold, CallUp, Repair, RunsLate
    <3> QED
      BY <1>2, <2>1, <3>1, <3>2, <3>3, <3>4, <3>5, <3>6 DEF Next, vars
  <2> QED
    BY <2>3, <2>4
<1> QED
  BY <1>1, <1>2

(***************************************************************************)
(* Addresses: what a link flap repairs, and what it names.                 *)
(***************************************************************************)

(* A put or a take does one of two things to the addresses, and neither to
   any link. *)
LEMMA RepairDoes ==
    ASSUME TypeOK, NEW a \in Calls, a.op \in {"put", "take"}, Does(a), NEW c \in Containers
    PROVE  /\ link' = link
           /\ dev'[c] = IF a.op = "put" /\ a.container = c THEN dev[c] \cup {a.what} ELSE dev[c]
           /\ par'[c] = IF a.op = "take" /\ a.container = c THEN par[c] \ {a.what} ELSE par[c]
<1>1. link' = link
  BY DEF Does
<1>2. a.op = "put" => dev' = [dev EXCEPT ![a.container] = @ \cup {a.what}] /\ par' = par
  BY DEF Does
<1>3. a.op = "take" => par' = [par EXCEPT ![a.container] = @ \ {a.what}] /\ dev' = dev
  BY DEF Does
<1> QED
  BY <1>1, <1>2, <1>3 DEF TypeOK

(* HealInv for a session. *)
Healing(s) ==
    \/ On("linkup", s) \in todo
    \/ pc = "read" /\ look = {Home[s]} /\ Home[s] \in link
    \/ /\ Home[s] \in link
       /\ \A x \in Plan \ dev[Home[s]] :
             \E a \in repair : a.op = "put" /\ a.container = Home[s] /\ a.what = x
       /\ \A x \in par[Home[s]] :
             \E a \in repair : a.op = "take" /\ a.container = Home[s] /\ a.what = x

LEMMA HealStep == Base /\ QuietInv /\ HealInv /\ [Next]_vars => HealInv'
<1> SUFFICES ASSUME Base, QuietInv, HealInv, [Next]_vars,
                    mode' = "link_down", luck' = "worked",
                    pc' \in {"up", "read", "check", "idle"},
                    NEW s \in targets'
             PROVE  Healing(s)'
  BY DEF HealInv, Healing
<1>1. ~StartEvent /\ ~StartTeardown /\ ~CallDown
  BY DEF StartEvent, StartTeardown, CallDown
<1>2. mode = "link_down" /\ targets' = targets /\ kind = "peer_flap" /\ s \in Sessions
  BY <1>1, StageFrom DEF event, Base, StageInv, TypeOK
<1>3. Home[s] \in Containers
  BY <1>2, PeerFaultsAssumption
<1>4. ASSUME luck = "worked", pc \in {"up", "read", "check", "idle"}
      PROVE  Healing(s)
  BY <1>2, <1>4 DEF HealInv, Healing
<1>5. ~Raises
  <2> SUFFICES ASSUME Raises PROVE FALSE
    OBVIOUS
  <2>1. luck' # "worked"
    BY TroubleShows DEF Raises, Base
  <2> QED
    BY <2>1
<1>6. CASE Count
  BY <1>2, <1>6 DEF Count, Base, StageInv
<1>7. CASE Hold
  <2>1. On("linkup", s) \in UpCalls
    BY <1>2, LinkupsDue
  <2> QED
    BY <1>7, <2>1 DEF Hold, Healing
<1>8. CASE CallUp
  <2>1. PICK a \in todo :
          /\ Perform(a)
          /\ todo' = todo \ {a}
          /\ IF a.op = "linkup"
             THEN pc' = "read" /\ look' = {a.container}
             ELSE UNCHANGED <<pc, look>>
    BY <1>8 DEF CallUp
  <2>2. pc = "up"
    BY <1>2, <1>8, <2>1 DEF CallUp, Base, StageInv, CallsInv
  <2>3. a.op = "linkup" /\ a \in Calls /\ a = On("linkup", a.session) /\ a.container = Home[a.session]
    BY <1>2, <2>2, KindOf, UpShape DEF Base, CallsInv, WellFormed, Acting
  <2>4. luck = "worked" /\ Does(a)
    BY <2>1, PerformShows DEF Base
  <2>5. link' = link \cup {a.container} /\ dev' = dev /\ par' = par /\ repair' = repair
    BY <1>8, <2>3, <2>4 DEF Does, CallUp
  <2>6. Healing(s)
    BY <1>4, <2>2, <2>4
  <2>7. CASE On("linkup", s) = a
    <3>1. a.session = s
      BY <1>2, <2>7, OnTyped DEF Ops
    <3> QED
      BY <2>1, <2>3, <2>5, <3>1 DEF Healing
  <2> QED
    BY <2>1, <2>2, <2>5, <2>6, <2>7 DEF Healing
<1>9. CASE Read
  <2>1. PICK t \in targets, have, stray \in SUBSET Plan :
          /\ look = {Home[t]}
          /\ \/ have = dev[Home[t]] /\ stray = par[Home[t]] /\ UNCHANGED <<troubles, luck>>
             \/ Trouble("failed")
          /\ repair' = Repairs(t, have, stray)
    BY <1>5, <1>9, ReadAnswered
  <2>2. ~Trouble("failed")
    BY TroubleShows DEF Base
  <2>3. have = dev[Home[t]] /\ stray = par[Home[t]] /\ luck = "worked" /\ look = {Home[t]}
    BY <2>1, <2>2
  <2>4. pc = "read" /\ pc' = "up" /\ todo' = todo /\ link' = link /\ dev' = dev /\ par' = par
    BY <1>5, <1>9, ReadAnswered DEF lab
  <2>5. Healing(s)
    BY <1>4, <2>3, <2>4
  <2>6. repair = {}
    BY <2>4 DEF Base, CallsInv
  <2>7. CASE Home[s] = Home[t]
    <3>1. t \in Sessions /\ {"put", "take"} \subseteq Ops
      BY DEF Base, TypeOK, Ops
    <3>2. \A x \in Plan \ dev[Home[s]] :
             \E a \in repair' : a.op = "put" /\ a.container = Home[s] /\ a.what = x
      <4> TAKE x \in Plan \ dev[Home[s]]
      <4>1. Call("put", t, Home[t], x) \in repair'
        BY <2>1, <2>3, <2>7 DEF Repairs
      <4>2. x \in Afis \cup Plan \cup {"-"}
        OBVIOUS
      <4> QED
        BY <2>7, <3>1, <4>1, <4>2, CallTyped
    <3>3. \A x \in par[Home[s]] :
             \E a \in repair' : a.op = "take" /\ a.container = Home[s] /\ a.what = x
      <4> TAKE x \in par[Home[s]]
      <4>1. Call("take", t, Home[t], x) \in repair'
        BY <2>1, <2>3, <2>7 DEF Repairs
      <4>2. x \in Afis \cup Plan \cup {"-"}
        BY <1>3 DEF Base, TypeOK
      <4> QED
        BY <2>7, <3>1, <4>1, <4>2, CallTyped
    <3>4. On("linkup", s) \in todo \/ Home[s] \in link
      BY <2>5 DEF Healing
    <3> QED
      BY <2>4, <3>2, <3>3, <3>4 DEF Healing
  <2>8. CASE Home[s] # Home[t]
    BY <2>3, <2>4, <2>5, <2>6, <2>8 DEF Healing
  <2> QED
    BY <2>7, <2>8
<1>10. CASE Repair
  <2>1. PICK a \in repair : Perform(a) /\ repair' = repair \ {a}
    BY <1>10 DEF Repair
  <2>2. a \in Calls /\ a.op \in {"put", "take"}
    BY DEF Base, CallsInv, TypeOK
  <2>3. luck = "worked" /\ Does(a)
    BY <2>1, PerformShows DEF Base
  <2>4. pc = "up" /\ pc' = "up" /\ todo' = todo
    BY <1>10 DEF Repair
  <2>5. Healing(s)
    BY <1>4, <2>3, <2>4
  <2>6. /\ link' = link
        /\ dev'[Home[s]] = IF a.op = "put" /\ a.container = Home[s]
                           THEN dev[Home[s]] \cup {a.what} ELSE dev[Home[s]]
        /\ par'[Home[s]] = IF a.op = "take" /\ a.container = Home[s]
                           THEN par[Home[s]] \ {a.what} ELSE par[Home[s]]
    BY <1>3, <2>2, <2>3, RepairDoes DEF Base
  <2> QED
    BY <2>1, <2>4, <2>5, <2>6 DEF Healing
<1>11. CASE AllUp
  <2>1. pc = "up" /\ pc' = "check"
    BY <1>2, <1>11 DEF AllUp, Finish, Base, StageInv
  <2>2. /\ UNCHANGED <<link, dev, par, repair, luck>>
        /\ todo' = todo
    BY <1>11, <2>1 DEF AllUp, lab
  <2>3. Healing(s)
    BY <1>4, <2>1, <2>2
  <2> QED
    BY <2>1, <2>2, <2>3 DEF Healing
<1>12. CASE Check
  <2>1. pc = "check" /\ UNCHANGED <<link, dev, par, repair, todo>>
    BY <1>5, <1>12, CheckAnswered DEF lab
  <2>2. luck = "worked"
    <3>1. ~Trouble("failed")
      BY TroubleShows DEF Base
    <3> QED
      BY <1>5, <1>12, <3>1, CheckAnswered
  <2> QED
    BY <1>4, <2>1, <2>2 DEF Healing
<1>13. CASE Interrupt
  BY <1>2, <1>13, Interrupted
<1>14. CASE RunsLate
  <2>1. luck = "worked" /\ pc' = pc /\ late # {}
    BY <1>14 DEF RunsLate
  <2> QED
    BY <2>1 DEF QuietInv
<1>15. CASE UNCHANGED vars
  <2>1. UNCHANGED <<luck, pc, look, todo, repair, link, dev, par>>
    BY <1>15 DEF vars, lab
  <2> QED
    BY <1>4, <2>1 DEF Healing
<1> QED
  BY <1>1, <1>6, <1>7, <1>8, <1>9, <1>10, <1>11, <1>12, <1>13, <1>14, <1>15 DEF Next

LEMMA NamedStep == Base /\ QuietInv /\ NamedInv /\ [Next]_vars => NamedInv'
<1> SUFFICES ASSUME Base, QuietInv, NamedInv, [Next]_vars,
                    mode' = "link_down", luck' \in {"worked", "failed"},
                    pc' \in {"check", "idle"},
                    NEW c \in Touched', dev'[c] # Plan
             PROVE  c \in named' \/ (pc' = "check" /\ c \in look')
  BY DEF NamedInv
<1>1. ~StartEvent /\ ~StartTeardown
  BY DEF StartEvent, StartTeardown
<1>2. mode = "link_down" /\ c \in Touched /\ kind = "peer_flap"
  BY <1>1, StageFrom, EventFrame DEF event, Base, StageInv
<1>3. ~Raises
  <2> SUFFICES ASSUME Raises PROVE FALSE
    OBVIOUS
  <2>1. luck' # "given up" => luck' = "raised"
    BY TroubleShows DEF Raises, Base
  <2> QED
    BY <2>1
<1>4. ASSUME luck \in {"worked", "failed"}, pc \in {"check", "idle"}, dev[c] # Plan
      PROVE  c \in named \/ (pc = "check" /\ c \in look)
  BY <1>2, <1>4 DEF NamedInv
<1>5. CASE AllUp
  <2>1. pc = "up" /\ pc' = "check" /\ look' = Touched
    BY <1>2, <1>5 DEF AllUp, Finish, Base, StageInv
  <2> QED
    BY <1>2, <2>1
<1>6. CASE Check
  <2>1. PICK d \in look, have, stray \in SUBSET Plan :
          /\ \/ /\ have = dev[d] /\ stray = par[d]
                /\ UNCHANGED <<troubles, luck>>
             \/ /\ have \in {dev[d]} \cup Seen(dev[d])
                /\ Trouble("failed")
          /\ named' = IF Broken(have, stray) THEN named \cup {d} ELSE named
          /\ look' = look \ {d}
    BY <1>3, <1>6, CheckAnswered
  <2>2. pc = "check" /\ dev' = dev /\ (look' # {} => pc' = "check")
    BY <1>3, <1>6, CheckAnswered DEF lab
  <2>3. luck \in {"worked", "failed"}
    <3>1. CASE Trouble("failed")
      <4>1. luck # "given up"
        BY <3>1, TroubleShows DEF Base
      <4>2. luck # "raised"
        BY <2>2 DEF QuietInv, Acting
      <4> QED
        BY <4>1, <4>2 DEF Base, TypeOK, Lucks
    <3> QED
      BY <2>1, <3>1
  <2>4. c \in named \/ c \in look
    BY <1>4, <2>2, <2>3
  <2>5. CASE c = d
    <3>1. have \subseteq dev[c] /\ have \in SUBSET Plan
      BY <2>1, <2>5 DEF Seen
    <3>2. dev[c] \subseteq Plan
      BY <2>5 DEF Base, TypeOK
    <3>3. have # Plan
      BY <2>2, <3>1, <3>2
    <3> QED
      BY <2>1, <2>5, <3>3 DEF Broken
  <2>6. CASE c # d
    BY <2>1, <2>2, <2>4, <2>6
  <2> QED
    BY <2>5, <2>6
<1>7. CASE RunsLate
  <2>1. luck = luck' /\ pc' = pc /\ late # {}
    BY <1>7 DEF RunsLate
  <2> QED
    BY <2>1 DEF QuietInv
<1>8. CASE Count
  BY <1>2, <1>8 DEF Count, Base, StageInv
<1>9. CASE CallDown \/ Hold \/ CallUp \/ Repair
  <2>1. CallUp => pc' # "idle" /\ pc' # "check"
    BY DEF CallUp
  <2> QED
    BY <1>9, <2>1 DEF CallDown, Hold, Repair
<1>10. CASE Read
  BY <1>3, <1>10, ReadAnswered
<1>11. CASE Interrupt
  BY <1>2, <1>11, Interrupted
<1>12. CASE UNCHANGED vars
  BY <1>4, <1>12 DEF vars, lab
<1> QED
  BY <1>1, <1>5, <1>6, <1>7, <1>8, <1>9, <1>10, <1>11, <1>12 DEF Next

(***************************************************************************)
(* What is owed, in steps without trouble.                                 *)
(***************************************************************************)

(* Without trouble every call is done when it is made. *)
LEMMA LabStep ==
    ASSUME Base, QuietInv, [Next]_vars, Clean'
    PROVE  /\ Clean /\ ~RunsLate /\ ~Raises /\ luck = "worked"
           /\ \/ UNCHANGED lab /\ ~CallDown /\ ~CallUp
              \/ CallDown /\ \E a \in todo : Does(a) /\ todo' = todo \ {a}
              \/ CallUp /\ \E a \in todo : Does(a) /\ todo' = todo \ {a}
              \/ Repair /\ \E a \in repair : Does(a)
<1>1. ~Raises
  BY TroubleShows DEF Raises, Base
<1>2. Clean
  <2>1. \A l : Trouble(l) => ~Clean'
    BY TroubleCounts DEF Base
  <2>2. StartEvent \/ StartTeardown => troubles' = troubles
    BY DEF StartEvent, StartTeardown
  <2>3. RunsLate => troubles' = troubles
    BY DEF RunsLate
  <2>4. \A a : Perform(a) => Clean
    BY PerformShows DEF Base
  <2> QED
    BY <2>1, <2>2, <2>3, <2>4, LuckStep DEF Clean
<1>3. late = {} /\ luck = "worked"
  BY <1>2 DEF QuietInv
<1>4. ~RunsLate
  BY <1>3 DEF RunsLate
<1>5. CASE CallDown
  <2>1. PICK a \in todo : Perform(a) /\ todo' = todo \ {a}
    BY <1>5 DEF CallDown
  <2>2. Does(a)
    BY <2>1, PerformShows DEF Base
  <2> QED
    BY <1>1, <1>2, <1>3, <1>4, <1>5, <2>1, <2>2
<1>6. CASE CallUp
  <2>1. PICK a \in todo : Perform(a) /\ todo' = todo \ {a}
    BY <1>6 DEF CallUp
  <2>2. Does(a)
    BY <2>1, PerformShows DEF Base
  <2> QED
    BY <1>1, <1>2, <1>3, <1>4, <1>6, <2>1, <2>2
<1>7. CASE Repair
  <2>1. PICK a \in repair : Perform(a)
    BY <1>7 DEF Repair
  <2>2. Does(a)
    BY <2>1, PerformShows DEF Base
  <2> QED
    BY <1>1, <1>2, <1>3, <1>4, <1>7, <2>1, <2>2
<1>8. CASE ~CallDown /\ ~CallUp /\ ~Repair
  <2>1. UNCHANGED lab
    <3>1. CASE Count
      BY <1>1, <3>1 DEF Count, Counted
    <3>2. CASE Read
      BY <1>1, <3>2, ReadAnswered
    <3>3. CASE Check
      BY <1>1, <3>3, CheckAnswered
    <3>4. CASE Interrupt
      BY <3>4, Interrupted
    <3>5. CASE StartEvent \/ Hold \/ AllUp \/ StartTeardown
      BY <3>5 DEF StartEvent, Hold, AllUp, StartTeardown
    <3> QED
      BY <1>4, <1>8, <3>1, <3>2, <3>3, <3>4, <3>5 DEF Next, vars
  <2> QED
    BY <1>1, <1>2, <1>3, <1>4, <1>8, <2>1
<1> QED
  BY <1>5, <1>6, <1>7, <1>8

(* The four kinds of calls that something takes back. *)
Impairing(a) ==
    \E s \in Sessions, x \in Afis \cup {"-"}, op \in {"disable", "linkdown", "insert", "netem"} :
        a = Call(op, s, Home[s], x)

Cleared(a) == \E s \in Sessions, op \in {"insert", "netem"} : a = On(op, s)

LEMMA ImpairingShape ==
    ASSUME NEW a, Impairing(a)
    PROVE  /\ a \in Calls /\ a.op \in {"disable", "linkdown", "insert", "netem"}
           /\ a.container = Home[a.session]
           /\ Undo(a).op = CASE a.op = "disable"  -> "enable"
                             [] a.op = "linkdown" -> "linkup"
                             [] a.op = "insert"   -> "delete"
                             [] a.op = "netem"    -> "clear"
           /\ Undo(a).session = a.session /\ Undo(a).what = a.what
           /\ Undo(a).container = a.container
<1>1. PICK s \in Sessions, x \in Afis \cup {"-"},
           op \in {"disable", "linkdown", "insert", "netem"} : a = Call(op, s, Home[s], x)
  BY DEF Impairing
<1>2. op \in Ops /\ x \in Afis \cup Plan \cup {"-"}
  BY DEF Ops
<1>3. a \in Calls /\ a.op = op /\ a.session = s /\ a.container = Home[s]
  BY <1>1, <1>2, CallTyped
<1> QED
  BY <1>1, <1>3 DEF Undo, Call

LEMMA ClearedShape ==
    ASSUME NEW a, Cleared(a)
    PROVE  Impairing(a) /\ a.container \in Containers /\ Undo(a) \in TeardownCalls(a.container)
<1>1. PICK s \in Sessions, op \in {"insert", "netem"} : a = On(op, s)
  BY DEF Cleared
<1>2. a = Call(op, s, Home[s], "-")
  BY <1>1 DEF On
<1>3. Impairing(a)
  BY <1>2 DEF Impairing
<1>4. a.container = Home[s] /\ Home[s] \in Containers /\ s \in Guests(Home[s])
  BY <1>2, PeerFaultsAssumption DEF Call, Guests
<1>5. Undo(a) \in {On("delete", s), On("clear", s)}
  BY <1>2 DEF Undo, Call, On
<1> QED
  BY <1>3, <1>4, <1>5 DEF TeardownCalls

LEMMA OwedMade ==
    ASSUME Base, CallDown, NEW a \in todo, todo' = todo \ {a}
    PROVE  /\ Owed(a)' /\ ~Owed(a)
           /\ a \in Calls /\ WellFormed(a) /\ a.session \in targets
           /\ a.op \in DownOps
           /\ a.op = "linkdown" => mode = "link_down"
           /\ a.op = "disable" => a = Call("disable", a.session, Home[a.session], a.what)
           /\ a.op # "disable" => a = On(a.op, a.session)
<1>1. pc = "down" /\ pc' \in {"down", "hold", "count"} /\ UNCHANGED <<kind, mode, targets>>
  BY DEF CallDown, event
<1>2. a \in DownCalls(kind, mode, targets)
  BY <1>1 DEF Base, CallsInv
<1>3. Owed(a)' /\ ~Owed(a)
  BY <1>1, <1>2 DEF Owed
<1> QED
  BY <1>1, <1>2, <1>3, KindOf, DownShape DEF Acting

(* What is owed stays so until it is taken back. *)
LEMMA OwedLasts ==
    ASSUME Base, QuietInv, [Next]_vars, Clean', NEW a, Impairing(a), Owed(a),
           Running' \/ Cleared(a)
    PROVE  Owed(a)' \/ (CallUp /\ Undo(a) \in todo \ todo')
<1>1. ~Raises /\ ~RunsLate
  BY LabStep
<1>2. a.op \in {"disable", "linkdown", "insert", "netem"} /\ Undo(a).op \notin DownOps
  BY ImpairingShape DEF DownOps
<1>3. pc \notin {"idle", "over"}
  BY DEF Owed
<1>4. pc = "check" => FALSE
  BY DEF Owed, Base, CallsInv
<1>5. ASSUME pc \in {"down", "count", "hold", "giveup"}
      PROVE  Undo(a) \in UpCalls /\ a \in DownCalls(kind, mode, targets) \ todo
  <2>1. a \in DownCalls(kind, mode, targets) \ todo
    BY <1>5 DEF Owed
  <2> QED
    BY <1>2, <1>5, <2>1, KindOf, UndoneByUp DEF Acting
<1>6. CASE StartEvent
  BY <1>3, <1>6 DEF StartEvent
<1>7. CASE CallDown
  <2>1. pc = "down" /\ pc' \in {"down", "hold", "count"} /\ UNCHANGED <<kind, mode, targets>>
        /\ todo' \subseteq todo
    BY <1>7 DEF CallDown, event
  <2> QED
    BY <1>5, <2>1 DEF Owed
<1>8. CASE Count
  <2>1. pc = "count" /\ Counted
    BY <1>1, <1>8 DEF Count
  <2>2. UNCHANGED <<kind, mode, targets>>
    BY <2>1 DEF Counted, event
  <2>3. \/ pc' \in {"down", "hold"} /\ todo' = todo
        \/ pc' = "up" /\ todo' = UpCalls
        \/ pc' = "giveup" /\ todo' = UpCalls
    BY <2>1 DEF Counted
  <2>4. a \notin UpCalls
    <3> SUFFICES ASSUME a \in UpCalls PROVE FALSE
      OBVIOUS
    <3>1. a.op \in UpOps
      BY <2>1, KindOf, UpShape DEF Acting
    <3> QED
      BY <1>2, <3>1 DEF UpOps
  <2> QED
    BY <1>5, <2>1, <2>2, <2>3, <2>4 DEF Owed
<1>9. CASE Hold
  BY <1>5, <1>9 DEF Hold, Owed
<1>10. CASE CallUp
  <2>1. pc \in {"up", "giveup", "teardown"} /\ UNCHANGED <<kind, mode, targets>>
    BY <1>10 DEF CallUp, event
  <2>2. PICK b \in todo :
          /\ todo' = todo \ {b}
          /\ IF b.op = "linkup"
             THEN pc' = "read" /\ look' = {b.container}
             ELSE UNCHANGED <<pc, look>>
    BY <1>10 DEF CallUp
  <2>3. b.op = "linkup" => pc = "up"
    <3>1. pc # "teardown" \/ b.op # "linkup"
      BY DEF Base, CallsInv
    <3>2. pc = "giveup" => b.op = "delete"
      BY KindOf, UpShape DEF Base, CallsInv, StageInv, Acting
    <3> QED
      BY <2>1, <3>1, <3>2
  <2>4. CASE pc = "giveup"
    BY <1>5, <2>1, <2>2, <2>3, <2>4 DEF Owed
  <2>5. CASE pc # "giveup"
    BY <1>10, <2>1, <2>2, <2>3, <2>5 DEF Owed
  <2> QED
    BY <2>4, <2>5
<1>11. CASE Read
  BY <1>1, <1>11, ReadAnswered DEF Owed
<1>12. CASE Repair
  BY <1>12 DEF Repair, Owed
<1>13. CASE AllUp
  <2>1. todo = {} /\ UNCHANGED <<kind, mode, targets>>
    BY <1>13 DEF AllUp, event
  <2>2. CASE pc = "giveup"
    BY <1>5, <1>13, <2>2 DEF AllUp, Owed
  <2>3. CASE pc = "teardown"
    <3>1. a.container \in look
      BY <2>1, <2>3 DEF Owed
    <3>2. PICK c \in look : todo' = TeardownCalls(c) /\ look' = look \ {c} /\ pc' = "teardown"
      BY <1>13, <2>3, <3>1 DEF AllUp
    <3>3. Undo(a) \in TeardownCalls(a.container)
      BY <3>2, ClearedShape DEF Running
    <3> QED
      BY <3>1, <3>2, <3>3 DEF Owed
  <2> QED
    BY <1>13, <2>1, <2>2, <2>3 DEF AllUp, Owed
<1>14. CASE Check
  BY <1>4, <1>14 DEF Check
<1>15. CASE Interrupt
  <2>1. UNCHANGED <<kind, mode, targets>>
    BY <1>15, Interrupted DEF event
  <2>2. CASE pc' = "stopped"
    BY <2>2 DEF Owed
  <2>3. CASE kind = "blackhole_peer" /\ pc' = "up" /\ todo' = UpCalls
    <3>1. pc # "read"
      BY <2>3 DEF Base, StageInv
    <3>2. pc = "up" => Undo(a) \in UpCalls
      BY DEF Owed, Base, CallsInv
    <3>3. Undo(a) \in UpCalls
      BY <1>4, <1>5, <1>15, <3>1, <3>2, Interrupted DEF Acting
    <3> QED
      BY <2>3, <3>3 DEF Owed
  <2> QED
    BY <1>15, <2>2, <2>3, Interrupted
<1>16. CASE StartTeardown
  <2>1. a.container \in Containers
    BY <1>16, ClearedShape DEF StartTeardown, Running
  <2> QED
    BY <1>16, <2>1 DEF StartTeardown, Owed
<1>17. CASE UNCHANGED vars
  BY <1>17 DEF vars, event, Owed
<1> QED
  BY <1>1, <1>6, <1>7, <1>8, <1>9, <1>10, <1>11, <1>12, <1>13, <1>14, <1>15, <1>16, <1>17
     DEF Next

LEMMA OnImpairs ==
    ASSUME NEW s \in Sessions, NEW op \in {"linkdown", "insert", "netem"}
    PROVE  /\ Impairing(On(op, s))
           /\ On(op, s).op = op /\ On(op, s).session = s /\ On(op, s).container = Home[s]
           /\ op # "linkdown" => Cleared(On(op, s))
<1>1. Impairing(On(op, s))
  BY DEF Impairing, On
<1>2. op # "linkdown" => Cleared(On(op, s))
  BY DEF Cleared
<1>3. op \in Ops
  BY DEF Ops
<1> QED
  BY <1>1, <1>2, <1>3, OnTyped

(* The calls that are still to come once a stage takes things back. *)
LEMMA CallUpOps ==
    ASSUME Base, CallUp, NEW a \in todo
    PROVE  a \in Calls /\ WellFormed(a) /\ a.op \in UpOps \cup {"kill"}
<1>1. a \in Calls /\ WellFormed(a)
  BY DEF Base, TypeOK, CallsInv
<1>2. CASE pc = "teardown"
  BY <1>1, <1>2 DEF Base, CallsInv, UpOps
<1>3. CASE pc \in {"up", "giveup"}
  BY <1>1, <1>3, KindOf, UpShape DEF Base, CallsInv, Acting
<1> QED
  BY <1>1, <1>2, <1>3 DEF CallUp

LEMMA LinkStep == Base /\ QuietInv /\ LinkInv /\ [Next]_vars => LinkInv'
<1> SUFFICES ASSUME Base, QuietInv, LinkInv, [Next]_vars, Clean', Running',
                    NEW c \in Containers \ link'
             PROVE  \E s \in Guests(c) : Owed(On("linkdown", s))'
  BY DEF LinkInv
<1>1. Clean /\ Running
  BY LabStep, StageFrom
<1>2. ASSUME c \notin link
      PROVE  \E s \in Guests(c) : Owed(On("linkdown", s))'
                 \/ (CallUp /\ Undo(On("linkdown", s)) \in todo \ todo')
  <2>1. PICK s \in Guests(c) : Owed(On("linkdown", s))
    BY <1>1, <1>2 DEF LinkInv
  <2>2. Impairing(On("linkdown", s))
    BY OnImpairs DEF Guests
  <2> QED
    BY <2>1, <2>2, OwedLasts
<1>3. CASE UNCHANGED lab /\ ~CallDown /\ ~CallUp
  BY <1>2, <1>3 DEF lab
<1>4. CASE CallDown /\ \E a \in todo : Does(a) /\ todo' = todo \ {a}
  <2>1. PICK a \in todo : Does(a) /\ todo' = todo \ {a}
    BY <1>4
  <2>2. CASE a.op = "linkdown"
    <3>1. a = On("linkdown", a.session) /\ Owed(a)' /\ a.container = Home[a.session]
          /\ a.session \in Sessions
      BY <1>4, <2>1, <2>2, OwedMade DEF Base, TypeOK, WellFormed
    <3>2. link' = link \ {a.container}
      BY <2>1, <2>2 DEF Does
    <3>3. CASE c = a.container
      <4>1. a.session \in Guests(c)
        BY <3>1, <3>3 DEF Guests
      <4>2. Owed(On("linkdown", a.session))'
        BY <3>1
      <4> QED
        BY <4>1, <4>2
    <3>4. CASE c # a.container
      BY <1>2, <1>4, <3>2, <3>4 DEF CallUp, CallDown
    <3> QED
      BY <3>3, <3>4
  <2>3. CASE a.op # "linkdown"
    <3>1. link \subseteq link'
      BY <2>1, <2>3 DEF Does
    <3> QED
      BY <1>2, <1>4, <3>1 DEF CallUp, CallDown
  <2> QED
    BY <2>2, <2>3
<1>5. CASE CallUp /\ \E a \in todo : Does(a) /\ todo' = todo \ {a}
  <2>1. PICK a \in todo : Does(a) /\ todo' = todo \ {a}
    BY <1>5
  <2>2. a.op # "linkdown"
    BY <1>5, CallUpOps DEF UpOps
  <2>3. link' = IF a.op = "linkup" THEN link \cup {a.container} ELSE link
    BY <2>1, <2>2 DEF Does
  <2>4. PICK s \in Guests(c) : Owed(On("linkdown", s))' \/ Undo(On("linkdown", s)) = a
    BY <1>2, <2>1, <2>3
  <2>5. Undo(On("linkdown", s)) # a
    <3> SUFFICES ASSUME Undo(On("linkdown", s)) = a PROVE FALSE
      OBVIOUS
    <3>1. s \in Sessions /\ Home[s] = c
      BY DEF Guests
    <3>2. a.op = "linkup" /\ a.container = c
      BY <3>1, OnImpairs, ImpairingShape
    <3> QED
      BY <2>3, <3>2
  <2> QED
    BY <2>4, <2>5
<1>6. CASE Repair /\ \E a \in repair : Does(a)
  <2>1. link' = link
    BY <1>6, RepairDoes DEF Base, TypeOK, CallsInv, Does
  <2> QED
    BY <1>2, <1>6, <2>1 DEF CallUp, Repair, Base, CallsInv
<1> QED
  BY <1>3, <1>4, <1>5, <1>6, LabStep

LEMMA QdiscStep == Base /\ QuietInv /\ QdiscInv /\ [Next]_vars => QdiscInv'
<1> SUFFICES ASSUME Base, QuietInv, QdiscInv, [Next]_vars, Clean',
                    NEW c \in qdisc'
             PROVE  \E s \in Guests(c) : Owed(On("netem", s))'
  BY DEF QdiscInv
<1>1. Clean
  BY LabStep
<1>2. ASSUME c \in qdisc
      PROVE  \E s \in Guests(c) : Owed(On("netem", s))'
                 \/ (CallUp /\ Undo(On("netem", s)) \in todo \ todo')
  <2>1. PICK s \in Guests(c) : Owed(On("netem", s))
    BY <1>1, <1>2 DEF QdiscInv
  <2>2. Impairing(On("netem", s)) /\ Cleared(On("netem", s))
    BY OnImpairs DEF Guests
  <2> QED
    BY <2>1, <2>2, OwedLasts
<1>3. CASE UNCHANGED lab /\ ~CallDown /\ ~CallUp
  BY <1>2, <1>3 DEF lab
<1>4. CASE CallDown /\ \E a \in todo : Does(a) /\ todo' = todo \ {a}
  <2>1. PICK a \in todo : Does(a) /\ todo' = todo \ {a}
    BY <1>4
  <2>2. CASE a.op = "netem"
    <3>1. a = On("netem", a.session) /\ Owed(a)' /\ a.container = Home[a.session]
          /\ a.session \in Sessions
      BY <1>4, <2>1, <2>2, OwedMade DEF Base, TypeOK, WellFormed
    <3>2. qdisc' = qdisc \cup {a.container}
      BY <2>1, <2>2 DEF Does
    <3>3. CASE c = a.container
      <4>1. a.session \in Guests(c)
        BY <3>1, <3>3 DEF Guests
      <4>2. Owed(On("netem", a.session))'
        BY <3>1
      <4> QED
        BY <4>1, <4>2
    <3>4. CASE c # a.container
      BY <1>2, <1>4, <3>2, <3>4 DEF CallUp, CallDown
    <3> QED
      BY <3>3, <3>4
  <2>3. CASE a.op # "netem"
    <3>1. qdisc' \subseteq qdisc
      BY <2>1, <2>3 DEF Does
    <3> QED
      BY <1>2, <1>4, <3>1 DEF CallUp, CallDown
  <2> QED
    BY <2>2, <2>3
<1>5. CASE CallUp /\ \E a \in todo : Does(a) /\ todo' = todo \ {a}
  <2>1. PICK a \in todo : Does(a) /\ todo' = todo \ {a}
    BY <1>5
  <2>2. a.op # "netem"
    BY <1>5, CallUpOps DEF UpOps
  <2>3. qdisc' = IF a.op = "clear" THEN qdisc \ {a.container} ELSE qdisc
    BY <2>1, <2>2 DEF Does
  <2>4. PICK s \in Guests(c) : Owed(On("netem", s))' \/ Undo(On("netem", s)) = a
    BY <1>2, <2>1, <2>3
  <2>5. Undo(On("netem", s)) # a
    <3> SUFFICES ASSUME Undo(On("netem", s)) = a PROVE FALSE
      OBVIOUS
    <3>1. s \in Sessions /\ Home[s] = c
      BY DEF Guests
    <3>2. a.op = "clear" /\ a.container = c
      BY <3>1, OnImpairs, ImpairingShape
    <3> QED
      BY <2>3, <3>2
  <2> QED
    BY <2>4, <2>5
<1>6. CASE Repair /\ \E a \in repair : Does(a)
  <2>1. qdisc' = qdisc
    BY <1>6 DEF Base, CallsInv, Does
  <2> QED
    BY <1>2, <1>6, <2>1 DEF CallUp, Repair, Base, CallsInv
<1> QED
  BY <1>3, <1>4, <1>5, <1>6, LabStep

(* Any step leaves the containers alone or does one well-formed call. *)
LEMMA OneCall ==
    ASSUME Base, [Next]_vars
    PROVE  UNCHANGED lab \/ \E a \in todo \cup repair \cup late : Does(a)
<1> USE DEF Perform, Works, Fails, TimesOut
<1>1. CASE CallDown
  BY <1>1 DEF CallDown
<1>2. CASE CallUp
  BY <1>2 DEF CallUp
<1>3. CASE Repair
  BY <1>3 DEF Repair
<1>4. CASE RunsLate
  BY <1>4 DEF RunsLate
<1>5. CASE Count
  BY <1>5 DEF Count, Counted, Raises
<1>6. CASE Read
  BY <1>6, ReadAnswered DEF Raises
<1>7. CASE Check
  BY <1>7, CheckAnswered DEF Raises
<1>8. CASE Interrupt
  BY <1>8, Interrupted
<1>9. CASE StartEvent \/ Hold \/ AllUp \/ StartTeardown
  BY <1>9 DEF StartEvent, Hold, AllUp, StartTeardown
<1> QED
  BY <1>1, <1>2, <1>3, <1>4, <1>5, <1>6, <1>7, <1>8, <1>9 DEF Next, vars

LEMMA DisabledStep == Base /\ QuietInv /\ DisabledInv /\ [Next]_vars => DisabledInv'
<1> SUFFICES ASSUME Base, QuietInv, DisabledInv, [Next]_vars PROVE DisabledInv'
  OBVIOUS
<1>1. disabled' \subseteq gens' \X Afis
  <2>1. CASE UNCHANGED lab
    BY <2>1 DEF lab, DisabledInv
  <2>2. ASSUME NEW a \in todo \cup repair \cup late, Does(a)
        PROVE  disabled' \subseteq gens' \X Afis
    <3>1. a.op \in {"disable", "enable"} => a.what \in Afis
      BY DEF Base, CallsInv, WellFormed
    <3>2. disabled \subseteq gens \X Afis
      BY DEF DisabledInv
    <3>3. CASE a.op = "kill"
      BY <2>2, <3>2, <3>3 DEF Does
    <3>4. CASE a.op # "kill"
      BY <2>2, <3>1, <3>2, <3>4 DEF Does
    <3> QED
      BY <3>3, <3>4
  <2> QED
    BY <2>1, <2>2, OneCall
<1>2. ASSUME Clean', Running', NEW s \in Sessions, NEW x \in Afis, <<s, x>> \in disabled'
      PROVE  Owed(Call("disable", s, Home[s], x))'
  <2> DEFINE d == Call("disable", s, Home[s], x)
  <2>1. Clean /\ Running
    BY <1>2, LabStep, StageFrom
  <2>2. Impairing(d) /\ d.op = "disable" /\ d.session = s /\ d.what = x
        /\ Undo(d) = Call("enable", s, Home[s], x)
    BY DEF Impairing, Call, Undo
  <2>3. <<s, x>> \in disabled => Owed(d)' \/ (CallUp /\ Undo(d) \in todo \ todo')
    <3>1. <<s, x>> \in disabled => Owed(d)
      BY <2>1 DEF DisabledInv
    <3> QED
      BY <1>2, <2>2, <3>1, OwedLasts
  <2>4. CASE UNCHANGED lab /\ ~CallDown /\ ~CallUp
    BY <1>2, <2>3, <2>4 DEF lab
  <2>5. CASE CallDown /\ \E a \in todo : Does(a) /\ todo' = todo \ {a}
    <3>1. PICK a \in todo : Does(a) /\ todo' = todo \ {a}
      BY <2>5
    <3>2. Owed(a)' /\ (a.op = "disable" => a = Call("disable", a.session, Home[a.session], a.what))
      BY <2>5, <3>1, OwedMade
    <3>3. CASE <<s, x>> \notin disabled
      <4>1. a.op = "disable" /\ <<a.session, a.what>> = <<s, x>>
        BY <1>2, <3>1, <3>3 DEF Does
      <4>2. a = d
        BY <3>2, <4>1
      <4> QED
        BY <3>2, <4>2
    <3> QED
      BY <2>3, <2>5, <3>3 DEF CallUp, CallDown
  <2>6. CASE CallUp /\ \E a \in todo : Does(a) /\ todo' = todo \ {a}
    <3>1. PICK a \in todo : Does(a) /\ todo' = todo \ {a}
      BY <2>6
    <3>2. a.op # "disable"
      BY <2>6, CallUpOps DEF UpOps
    <3>3. disabled' \subseteq disabled
      BY <3>1, <3>2 DEF Does
    <3>4. Undo(d) # a
      <4> SUFFICES ASSUME Undo(d) = a PROVE FALSE
        OBVIOUS
      <4>1. a.op = "enable" /\ a.session = s /\ a.what = x
        BY <2>2 DEF Call
      <4>2. <<s, x>> \notin disabled'
        BY <3>1, <4>1 DEF Does
      <4> QED
        BY <1>2, <4>2
    <3> QED
      BY <1>2, <2>3, <3>1, <3>3, <3>4
  <2>7. CASE Repair /\ \E a \in repair : Does(a)
    <3>1. disabled' = disabled
      BY <2>7 DEF Base, CallsInv, Does
    <3> QED
      BY <1>2, <2>3, <2>7, <3>1 DEF CallUp, Repair, Base, CallsInv
  <2> QED
    BY <1>2, <2>4, <2>5, <2>6, <2>7, LabStep
<1> QED
  BY <1>1, <1>2 DEF DisabledInv

(* The sessions of a container that owe a rule. *)
Blackholed(c) == {s \in Guests(c) : Owed(On("insert", s))}

LEMMA BlackholedFinite ==
    ASSUME NEW T \in SUBSET Sessions
    PROVE  IsFiniteSet(T) /\ Cardinality(T) \in Nat
<1>1. IsFiniteSet(T)
  BY PeerFaultsAssumption, FS_Subset
<1> QED
  BY <1>1, FS_CardinalityType

LEMMA RulesStep == Base /\ QuietInv /\ RulesInv /\ [Next]_vars => RulesInv'
<1> SUFFICES ASSUME Base, QuietInv, RulesInv, [Next]_vars, Clean', NEW c \in Containers
             PROVE  rules'[c] <= Cardinality(Blackholed(c)')
  BY DEF RulesInv, Blackholed
<1> DEFINE B == Blackholed(c)
           Bn == Blackholed(c)'
<1>1. Clean /\ rules[c] <= Cardinality(B) /\ rules[c] \in Nat
  BY LabStep DEF RulesInv, Blackholed, Base, TypeOK
<1>2. B \in SUBSET Sessions /\ Bn \in SUBSET Sessions
  BY DEF Blackholed, Guests
<1>3. IsFiniteSet(B) /\ IsFiniteSet(Bn) /\ Cardinality(B) \in Nat /\ Cardinality(Bn) \in Nat
  BY <1>2, BlackholedFinite
<1>4. ASSUME NEW s \in B
      PROVE  s \in Bn \/ (CallUp /\ Undo(On("insert", s)) \in todo \ todo')
  <2>1. s \in Sessions /\ s \in Guests(c) /\ Owed(On("insert", s))
    BY DEF Blackholed, Guests
  <2>2. Impairing(On("insert", s)) /\ Cleared(On("insert", s))
    BY <2>1, OnImpairs
  <2>3. Owed(On("insert", s))' \/ (CallUp /\ Undo(On("insert", s)) \in todo \ todo')
    BY <2>1, <2>2, OwedLasts
  <2> QED
    BY <2>1, <2>3 DEF Blackholed
<1>5. ASSUME B \subseteq Bn, rules'[c] = rules[c]
      PROVE  rules'[c] <= Cardinality(Bn)
  <2>1. Cardinality(B) <= Cardinality(Bn)
    BY <1>3, <1>5, FS_Subset
  <2> QED
    BY <1>1, <1>3, <1>5, <2>1
<1>6. CASE UNCHANGED lab /\ ~CallDown /\ ~CallUp
  BY <1>4, <1>5, <1>6 DEF lab
<1>7. CASE CallDown /\ \E a \in todo : Does(a) /\ todo' = todo \ {a}
  <2>1. PICK a \in todo : Does(a) /\ todo' = todo \ {a}
    BY <1>7
  <2>2. B \subseteq Bn
    BY <1>4, <1>7 DEF CallUp, CallDown
  <2>3. CASE a.op = "insert" /\ a.container = c
    <3>1. a = On("insert", a.session) /\ Owed(a)' /\ ~Owed(a) /\ a.session \in Guests(c)
      BY <1>7, <2>1, <2>3, OwedMade DEF Base, TypeOK, WellFormed, Guests
    <3>2. rules'[c] = rules[c] + 1
      BY <2>1, <2>3 DEF Does, Base, TypeOK
    <3>3. a.session \notin B
      BY <3>1 DEF Blackholed
    <3>4. a.session \in Bn
      <4>1. Owed(On("insert", a.session))'
        BY <3>1
      <4> QED
        BY <3>1, <4>1 DEF Blackholed
    <3>5. Cardinality(B \cup {a.session}) = Cardinality(B) + 1
      BY <1>3, <3>3, FS_AddElement
    <3>6. B \cup {a.session} \in SUBSET Bn
      BY <2>2, <3>4
    <3>7. Cardinality(B \cup {a.session}) <= Cardinality(Bn)
      BY <1>3, <3>6, FS_Subset
    <3> QED
      BY <1>1, <1>3, <3>2, <3>5, <3>7
  <2>4. CASE ~(a.op = "insert" /\ a.container = c)
    <3>1. a.op # "delete"
      BY <1>7, <2>1, OwedMade DEF DownOps
    <3>2. rules'[c] = rules[c]
      BY <2>1, <2>4, <3>1 DEF Does, Base, TypeOK
    <3> QED
      BY <1>5, <2>2, <3>2
  <2> QED
    BY <2>3, <2>4
<1>8. CASE CallUp /\ \E a \in todo : Does(a) /\ todo' = todo \ {a}
  <2>1. PICK a \in todo : Does(a) /\ todo' = todo \ {a}
    BY <1>8
  <2>2. a.op # "insert"
    BY <1>8, CallUpOps DEF UpOps
  <2>3. \A s \in B : s \in Bn \/ (a.op = "delete" /\ a.container = c /\ a.session = s)
    <3> TAKE s \in B
    <3>1. s \in Sessions /\ Home[s] = c
      BY DEF Blackholed, Guests
    <3>2. Undo(On("insert", s)).op = "delete" /\ Undo(On("insert", s)).container = c
          /\ Undo(On("insert", s)).session = s
      BY <3>1, OnImpairs, ImpairingShape
    <3>3. s \in Bn \/ Undo(On("insert", s)) = a
      BY <1>4, <2>1
    <3> QED
      BY <3>2, <3>3
  <2>4. CASE a.op = "delete" /\ a.container = c
    <3>1. rules'[c] = OneLess(rules[c])
      BY <2>1, <2>4 DEF Does, Base, TypeOK
    <3>2. B \ {a.session} \in SUBSET Bn
      BY <2>3
    <3>3. Cardinality(B \ {a.session}) <= Cardinality(Bn)
      BY <1>3, <3>2, FS_Subset
    <3>4. Cardinality(B \ {a.session}) = Cardinality(B) - 1
          \/ Cardinality(B \ {a.session}) = Cardinality(B)
      BY <1>3, FS_RemoveElement
    <3>5. Cardinality(B) - 1 <= Cardinality(Bn)
      BY <1>3, <3>3, <3>4
    <3> QED
      BY <1>1, <1>3, <3>1, <3>5 DEF OneLess
  <2>5. CASE ~(a.op = "delete" /\ a.container = c)
    <3>1. rules'[c] = rules[c]
      BY <2>1, <2>2, <2>5 DEF Does, Base, TypeOK
    <3> QED
      BY <1>5, <2>3, <2>5, <3>1
  <2> QED
    BY <2>4, <2>5
<1>9. CASE Repair /\ \E a \in repair : Does(a)
  <2>1. rules' = rules
    BY <1>9 DEF Base, CallsInv, Does
  <2>2. ~CallUp
    BY <1>9 DEF CallUp, Repair
  <2> QED
    BY <1>4, <1>5, <2>1, <2>2
<1> QED
  BY <1>6, <1>7, <1>8, <1>9, LabStep

LEMMA DevStep == Base /\ QuietInv /\ HealInv /\ DevInv /\ [Next]_vars => DevInv'
<1> SUFFICES ASSUME Base, QuietInv, HealInv, DevInv, [Next]_vars, Clean', Running',
                    NEW c \in Containers, dev'[c] # Plan
             PROVE  mode' = "link_down" /\ c \in Touched' /\ pc' # "idle"
  BY DEF DevInv
<1>1. Clean /\ Running /\ luck = "worked" /\ ~Raises
  BY LabStep, StageFrom
<1>2. dev[c] # Plan => mode = "link_down" /\ c \in Touched /\ pc # "idle"
  BY <1>1 DEF DevInv
<1>3. CASE UNCHANGED lab /\ ~CallDown /\ ~CallUp
  <2>1. mode = "link_down" /\ c \in Touched /\ pc # "idle"
    BY <1>2, <1>3 DEF lab
  <2>2. ~StartEvent /\ ~StartTeardown
    BY <2>1 DEF StartEvent, StartTeardown, Running
  <2>3. mode' = "link_down" /\ c \in Touched'
    BY <2>1, <2>2, StageFrom, EventFrame DEF event
  <2>4. pc' # "idle"
    <3>1. CASE Check
      <4>1. todo = {} /\ repair = {} /\ pc = "check"
        BY <3>1 DEF Check, Base, CallsInv
      <4>2. PICK s \in targets : c = Home[s]
        BY <2>1 DEF Touched
      <4>3. Plan \ dev[c] = {}
        BY <1>1, <2>1, <4>1, <4>2 DEF HealInv
      <4>4. dev[c] \subseteq Plan
        BY DEF Base, TypeOK
      <4> QED
        BY <1>3, <4>3, <4>4 DEF lab
    <3>2. CASE AllUp
      BY <2>1, <3>2 DEF AllUp, Finish, Base, StageInv
    <3>3. CASE Count
      BY <2>1, <3>3 DEF Count, Base, StageInv
    <3>4. CASE Read
      BY <1>1, <3>4, ReadAnswered
    <3>5. CASE Interrupt
      BY <2>1, <3>5, Interrupted
    <3>6. CASE Hold \/ Repair \/ RunsLate
      BY <2>1, <3>6 DEF Hold, Repair, RunsLate
    <3> QED
      BY <1>3, <2>1, <2>2, <3>1, <3>2, <3>3, <3>4, <3>5, <3>6 DEF Next, vars
  <2> QED
    BY <2>3, <2>4
<1>4. CASE CallDown /\ \E a \in todo : Does(a) /\ todo' = todo \ {a}
  <2>1. PICK a \in todo : Does(a) /\ todo' = todo \ {a}
    BY <1>4
  <2>2. UNCHANGED event /\ pc' # "idle"
    BY <1>4 DEF CallDown
  <2>3. mode' = mode /\ Touched' = Touched
    BY <2>2, EventFrame DEF event
  <2>4. CASE a.op = "linkdown" /\ a.container = c
    <3>1. mode = "link_down" /\ a.session \in targets /\ c = Home[a.session]
      BY <1>4, <2>1, <2>4, OwedMade DEF WellFormed
    <3> QED
      BY <2>2, <2>3, <3>1 DEF Touched
  <2>5. CASE ~(a.op = "linkdown" /\ a.container = c)
    <3>1. a.op # "put"
      BY <1>4, <2>1, OwedMade DEF DownOps
    <3>2. dev'[c] = dev[c]
      BY <2>1, <2>5, <3>1 DEF Does, Base, TypeOK
    <3> QED
      BY <1>2, <2>2, <2>3, <3>2
  <2> QED
    BY <2>4, <2>5
<1>5. CASE CallUp /\ \E a \in todo : Does(a) /\ todo' = todo \ {a}
  <2>1. PICK a \in todo : Does(a)
    BY <1>5
  <2>2. a.op \notin {"linkdown", "put"}
    BY <1>5, CallUpOps DEF UpOps
  <2>3. dev' = dev
    BY <2>1, <2>2 DEF Does
  <2>4. UNCHANGED event /\ pc' # "idle"
    BY <1>5 DEF CallUp
  <2> QED
    BY <1>2, <2>3, <2>4, EventFrame DEF event
<1>6. CASE Repair /\ \E a \in repair : Does(a)
  <2>1. PICK a \in repair : Does(a)
    BY <1>6
  <2>2. a \in Calls /\ a.op \in {"put", "take"} /\ a.what \in Plan
    <3>1. a \in Calls /\ a.op \in {"put", "take"} /\ WellFormed(a)
      BY DEF Base, TypeOK, CallsInv
    <3> QED
      BY <3>1 DEF WellFormed
  <2>3. dev'[c] = dev[c] \/ (dev'[c] = dev[c] \cup {a.what} /\ a.what \in Plan)
    BY <2>1, <2>2, RepairDoes DEF Base
  <2>4. dev[c] # Plan
    BY <2>3
  <2>5. UNCHANGED event /\ pc' # "idle"
    BY <1>6 DEF Repair
  <2> QED
    BY <1>2, <2>4, <2>5, EventFrame DEF event
<1> QED
  BY <1>3, <1>4, <1>5, <1>6, LabStep

LEMMA GensStep == Base /\ QuietInv /\ GensInv /\ [Next]_vars => GensInv'
<1> SUFFICES ASSUME Base, QuietInv, GensInv, [Next]_vars, Clean',
                    pc' \in {"teardown", "over"}, NEW s \in gens'
             PROVE  pc' = "teardown" /\ (Home[s] \in look' \/ On("kill", s) \in todo')
  BY DEF GensInv
<1>1. Clean /\ ~RunsLate
  BY LabStep
<1>2. gens' \subseteq gens
  <2>1. CASE UNCHANGED lab
    BY <2>1 DEF lab
  <2>2. CASE \E a \in todo \cup repair \cup late : Does(a)
    BY <2>2 DEF Does
  <2> QED
    BY <2>1, <2>2, OneCall
<1>3. s \in Sessions /\ Home[s] \in Containers
  BY <1>2, PeerFaultsAssumption DEF Base, TypeOK
<1>4. CASE StartTeardown
  BY <1>3, <1>4 DEF StartTeardown
<1>5. CASE ~StartTeardown
  <2>1. pc \in {"teardown", "over"}
    BY <1>5, StageFrom
  <2>2. pc = "teardown" /\ (Home[s] \in look \/ On("kill", s) \in todo)
    BY <1>1, <1>2, <2>1 DEF GensInv
  <2>3. CASE CallUp
    <3>1. PICK a \in todo : Does(a) /\ todo' = todo \ {a}
      BY <2>3, LabStep DEF Repair, CallDown, CallUp
    <3>2. UNCHANGED <<pc, look>>
      BY <2>2, <2>3 DEF CallUp, Base, CallsInv
    <3>3. On("kill", s) # a
      <4> SUFFICES ASSUME On("kill", s) = a PROVE FALSE
        OBVIOUS
      <4>1. a.op = "kill" /\ a.session = s
        BY <1>3, OnTyped DEF Ops
      <4> QED
        BY <3>1, <4>1 DEF Does
    <3> QED
      BY <2>2, <3>1, <3>2, <3>3
  <2>4. CASE AllUp
    <3>1. Home[s] \in look
      BY <2>2, <2>4 DEF AllUp
    <3>2. PICK c \in look : todo' = TeardownCalls(c) /\ look' = look \ {c} /\ pc' = "teardown"
      BY <2>2, <2>4, <3>1 DEF AllUp
    <3>3. Home[s] = c => On("kill", s) \in TeardownCalls(c)
      BY <1>3 DEF TeardownCalls, Guests
    <3> QED
      BY <3>1, <3>2, <3>3
  <2>5. CASE UNCHANGED vars
    BY <2>2, <2>5 DEF vars
  <2>6. ~StartEvent /\ ~CallDown /\ ~Count /\ ~Hold /\ ~Read /\ ~Repair /\ ~Check /\ ~Interrupt
    BY <2>2 DEF StartEvent, CallDown, Count, Hold, Read, Repair, Check, Interrupt
  <2> QED
    BY <1>1, <1>5, <2>3, <2>4, <2>5, <2>6 DEF Next
<1> QED
  BY <1>4, <1>5

(***************************************************************************)
(* The invariant, and what it says of the properties.                      *)
(***************************************************************************)

LEMMA IInvIs ==
    IInv <=> /\ Base /\ QuietInv /\ HealInv /\ NamedInv /\ ImpairedInv
             /\ RulesInv /\ QdiscInv /\ LinkInv /\ DisabledInv /\ DevInv /\ GensInv
  BY DEF IInv, Base

LEMMA InitIInv == Init => IInv
<1> SUFFICES ASSUME Init PROVE IInv
  OBVIOUS
<1>1. Base
  BY InitBase
<1>2. QuietInv /\ HealInv /\ NamedInv /\ ImpairedInv
  BY DEF Init, QuietInv, HealInv, NamedInv, ImpairedInv, Acting
<1>3. RulesInv
  <2> SUFFICES ASSUME NEW c \in Containers
               PROVE  rules[c] <= Cardinality(Blackholed(c))
    BY DEF RulesInv, Blackholed
  <2>1. rules[c] = 0
    BY DEF Init
  <2>2. Blackholed(c) \in SUBSET Sessions
    BY DEF Blackholed, Guests
  <2>3. Cardinality(Blackholed(c)) \in Nat
    BY <2>2, BlackholedFinite
  <2> QED
    BY <2>1, <2>3
<1>4. QdiscInv /\ LinkInv /\ DisabledInv /\ DevInv /\ GensInv
  BY DEF Init, QdiscInv, LinkInv, DisabledInv, DevInv, GensInv
<1> QED
  BY <1>1, <1>2, <1>3, <1>4, IInvIs

LEMMA IInvStep == IInv /\ [Next]_vars => IInv'
<1> SUFFICES ASSUME IInv, [Next]_vars PROVE IInv'
  OBVIOUS
<1>1. /\ Base /\ QuietInv /\ HealInv /\ NamedInv /\ ImpairedInv
      /\ RulesInv /\ QdiscInv /\ LinkInv /\ DisabledInv /\ DevInv /\ GensInv
  BY IInvIs
<1>2. Base' /\ QuietInv' /\ HealInv' /\ NamedInv' /\ ImpairedInv'
  BY <1>1, BaseStep, QuietStep, HealStep, NamedStep, ImpairedStep
<1>3. RulesInv' /\ QdiscInv' /\ LinkInv' /\ DisabledInv' /\ DevInv' /\ GensInv'
  BY <1>1, RulesStep, QdiscStep, LinkStep, DisabledStep, DevStep, GensStep
<1> QED
  BY <1>2, <1>3 DEF IInv, Base

(* The invariant holds in every reachable state. *)
THEOREM Inductive == Spec => []IInv
  BY InitIInv, IInvStep, PTL DEF Spec

(* The containers and the harness are always of their types. *)
THEOREM TypeCorrect == Spec => []TypeOK
<1>1. IInv => TypeOK
  BY DEF IInv
<1> QED
  BY <1>1, Inductive, PTL

(* Nothing is owed between events, nor after a teardown. *)
LEMMA NothingOwed ==
    ASSUME IInv, Clean, pc \in {"idle", "over"}
    PROVE  /\ \A c \in Containers : rules[c] = 0
           /\ qdisc = {}
           /\ pc = "idle" => link = Containers /\ disabled = {}
<1>1. \A a : ~Owed(a)
  BY DEF Owed
<1>2. ASSUME NEW c \in Containers PROVE rules[c] = 0
  <2>1. Blackholed(c) = {}
    BY <1>1 DEF Blackholed
  <2>2. rules[c] <= Cardinality(Blackholed(c)) /\ rules[c] \in Nat
    BY DEF IInv, RulesInv, Blackholed, TypeOK
  <2>3. Cardinality(Blackholed(c)) = 0
    BY <2>1, FS_EmptySet
  <2> QED
    BY <2>2, <2>3
<1>3. qdisc = {}
  BY <1>1 DEF IInv, QdiscInv
<1>4. ASSUME pc = "idle" PROVE link = Containers /\ disabled = {}
  <2>1. Containers \ link = {}
    BY <1>1, <1>4 DEF IInv, LinkInv, Running
  <2>2. link \subseteq Containers
    BY DEF IInv, TypeOK
  <2>3. disabled \subseteq Sessions \X Afis
    BY DEF IInv, TypeOK
  <2>4. \A s \in Sessions, x \in Afis : <<s, x>> \notin disabled
    BY <1>1, <1>4 DEF IInv, DisabledInv, Running
  <2> QED
    BY <2>1, <2>2, <2>3, <2>4
<1> QED
  BY <1>2, <1>3, <1>4

(* While every call works an event takes back all it put on. *)
THEOREM EventsTakeBack == Spec => []Restored
<1>1. ASSUME IInv, pc = "idle", Clean
      PROVE  /\ link = Containers /\ qdisc = {} /\ disabled = {}
             /\ \A c \in Containers : rules[c] = 0 /\ dev[c] = Plan
  <2>1. \A c \in Containers : dev[c] = Plan
    BY <1>1 DEF IInv, DevInv, Running
  <2> QED
    BY <1>1, <2>1, NothingOwed
<1>2. IInv => Restored
  BY <1>1 DEF Restored
<1> QED
  BY <1>2, Inductive, PTL

(* A link flap whose calls work leaves its containers as planned. *)
THEOREM FlapHeals == Spec => []HealedByFlap
<1>1. ASSUME IInv, Flapped, luck = "worked", NEW c \in Touched
      PROVE  c \in link /\ dev[c] = Plan /\ par[c] = {}
  <2>1. PICK s \in targets : c = Home[s]
    BY DEF Touched
  <2>2. mode = "link_down" /\ pc = "idle" /\ todo = {} /\ repair = {}
    BY <1>1 DEF Flapped, IInv, CallsInv
  <2>3. c \in link /\ Plan \ dev[c] = {} /\ par[c] = {}
    BY <1>1, <2>1, <2>2 DEF IInv, HealInv
  <2>4. c \in Containers
    BY <1>1, <2>1, PeerFaultsAssumption DEF IInv, TypeOK
  <2>5. dev[c] \subseteq Plan
    BY <1>1, <2>4 DEF IInv, TypeOK
  <2> QED
    BY <2>3, <2>5
<1>2. IInv => HealedByFlap
  BY <1>1 DEF HealedByFlap
<1> QED
  BY <1>2, Inductive, PTL

(* A link flap that lost an address names the container. *)
THEOREM LossIsNamed == Spec => []BrokenIsNamed
<1>1. IInv => BrokenIsNamed
  BY DEF IInv, NamedInv, BrokenIsNamed, Flapped
<1> QED
  BY <1>1, Inductive, PTL

(* As long as a peer is held down the predicates know of it. *)
THEOREM HeldDownIsKnown == Spec => []ImpairmentCovers
<1>1. ASSUME IInv, Running, NEW a, Impairing(a), a.op # "netem", Owed(a)
      PROVE  impaired
  <2>1. /\ kind = "peer_flap" => mode \in FlapModes
        /\ kind # "peer_flap" => mode = "none"
        /\ pc \in Acting => kind \in {"peer_flap", "blackhole_peer", "netem"}
        /\ targets \subseteq Sessions
    BY <1>1, KindOf DEF IInv, Base
  <2>2. pc \in Acting
    BY <1>1 DEF Owed, Acting, Running
  <2>3. kind # "netem"
    <3>1. CASE pc \in {"down", "count", "hold", "giveup"}
      <4>1. a \in DownCalls(kind, mode, targets)
        BY <1>1, <3>1 DEF Owed
      <4> QED
        BY <1>1, <2>1, <2>2, <4>1, DownShape
    <3>2. CASE pc \in {"up", "read", "check"}
      <4>1. Undo(a) \in UpCalls
        BY <1>1, <3>2 DEF Owed, IInv, CallsInv
      <4>2. Undo(a).op # "clear"
        BY <1>1, ImpairingShape
      <4> QED
        BY <2>1, <2>2, <4>1, <4>2, UpShape
    <3> QED
      BY <2>2, <3>1, <3>2 DEF Acting
  <2> QED
    BY <1>1, <2>2, <2>3 DEF IInv, ImpairedInv
<1>2. ASSUME IInv, Clean, Running, link # Containers
      PROVE  impaired
  <2>1. PICK c \in Containers : c \notin link
    BY <1>2 DEF IInv, TypeOK
  <2>2. PICK s \in Guests(c) : Owed(On("linkdown", s))
    BY <1>2, <2>1 DEF IInv, LinkInv
  <2>3. Impairing(On("linkdown", s)) /\ On("linkdown", s).op = "linkdown"
    BY OnImpairs DEF Guests
  <2> QED
    BY <1>1, <1>2, <2>2, <2>3
<1>3. ASSUME IInv, Clean, Running, disabled # {}
      PROVE  impaired
  <2>1. PICK s \in Sessions, x \in Afis : <<s, x>> \in disabled
    BY <1>3 DEF IInv, TypeOK
  <2>2. Owed(Call("disable", s, Home[s], x))
    BY <1>3, <2>1 DEF IInv, DisabledInv
  <2>3. Impairing(Call("disable", s, Home[s], x)) /\ Call("disable", s, Home[s], x).op = "disable"
    BY DEF Impairing, Call
  <2> QED
    BY <1>1, <1>3, <2>2, <2>3
<1>4. ASSUME IInv, Clean, Running, NEW c \in Containers, rules[c] > 0
      PROVE  impaired
  <2>1. rules[c] <= Cardinality(Blackholed(c)) /\ rules[c] \in Nat
    BY <1>4 DEF IInv, RulesInv, Blackholed, TypeOK
  <2>2. Blackholed(c) # {}
    BY <1>4, <2>1, FS_EmptySet
  <2>3. PICK s \in Guests(c) : Owed(On("insert", s))
    BY <2>2 DEF Blackholed
  <2>4. Impairing(On("insert", s)) /\ On("insert", s).op = "insert"
    BY OnImpairs DEF Guests
  <2> QED
    BY <1>1, <1>4, <2>3, <2>4
<1>5. IInv => ImpairmentCovers
  BY <1>2, <1>3, <1>4 DEF ImpairmentCovers, Running
<1> QED
  BY <1>5, Inductive, PTL

(* A teardown that works leaves no rule, no qdisc and no generator. *)
THEOREM TeardownTakesBack == Spec => []TeardownClears
<1>1. ASSUME IInv, pc = "over", Clean
      PROVE  (\A c \in Containers : rules[c] = 0) /\ qdisc = {} /\ gens = {} /\ disabled = {}
  <2>1. gens = {}
    BY <1>1 DEF IInv, GensInv
  <2>2. disabled \subseteq gens \X Afis
    BY <1>1 DEF IInv, DisabledInv
  <2>3. \A p \in gens \X Afis : p[1] \in gens
    OBVIOUS
  <2>4. disabled = {}
    BY <2>1, <2>2, <2>3
  <2> QED
    BY <1>1, <2>1, <2>4, NothingOwed
<1>2. IInv => TeardownClears
  BY <1>1 DEF TeardownClears
<1> QED
  BY <1>2, Inductive, PTL

============================================================================
