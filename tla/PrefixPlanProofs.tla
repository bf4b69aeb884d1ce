------------------------- MODULE PrefixPlanProofs -------------------------
(***************************************************************************)
(* Proofs about the prefix plan and the two components built on it:        *)
(* Inventory, which gives sessions their slots of the prefix space, for    *)
(* every list of fleets and every set of bogon ranges; and Churn, which    *)
(* follows what one generator announces of its slot between events, for    *)
(* every plan, session and set of fractions that satisfy ChurnAssumption,  *)
(* any number of events, and any number of calls that fail or are given    *)
(* up.                                                                     *)
(***************************************************************************)
EXTENDS Inventory, Churn, FiniteSetTheorems, WellFoundedInduction, TLAPS

(***************************************************************************)
(* What the index arithmetic of routegen.py guarantees for every plan.     *)
(***************************************************************************)

(* The quotient and the remainder that divmod gives. *)
LEMMA DivMod ==
    ASSUME NEW a \in Int, NEW c \in Nat \ {0}
    PROVE  /\ a \div c \in Int
           /\ a % c \in 0 .. c - 1
           /\ a = c * (a \div c) + (a % c)
    BY SMT

(* Two numbers with the same remainder are at least the divisor apart. *)
LEMMA SameRemainder ==
    ASSUME NEW a \in Int, NEW b \in Int, NEW c \in Nat \ {0},
           a % c = b % c, a < b
    PROVE  b - a >= c
<1> DEFINE d == (b \div c) - (a \div c)
<1>1. d \in Int /\ b - a = c * d
  BY DivMod, SMT
<1>2. d >= 1
  <2>1. SUFFICES ASSUME d <= 0 PROVE FALSE
    BY <1>1
  <2>2. c * d <= 0
    BY <1>1, <2>1, SMT
  <2> QED
    BY <1>1, <2>2
<1>3. c * d >= c
  BY <1>1, <1>2, SMT
<1> QED
  BY <1>1, <1>3

LEMMA CapacityPositive ==
    ASSUME NEW p, IsPlan(p)
    PROVE  /\ p.per \in Nat \ {0}
           /\ Len(p.blocks) \in Nat \ {0}
           /\ Capacity(p) \in Nat \ {0}
<1>1. p.blocks \in Seq(Nat) /\ p.blocks # << >> /\ p.per \in Nat \ {0}
  BY DEF IsPlan
<1>2. Len(p.blocks) \in Nat \ {0}
  BY <1>1
<1>3. Len(p.blocks) * p.per \in Nat \ {0}
  BY <1>1, <1>2, SMT
<1> QED
  BY <1>1, <1>2, <1>3 DEF Capacity

(* An index below the capacity lies in one of the blocks. *)
LEMMA BlockOf ==
    ASSUME NEW L \in Nat \ {0}, NEW m \in Nat \ {0}, NEW z \in 0 .. (L * m) - 1
    PROVE  z \div m \in 0 .. L - 1
<1>1. /\ L * m \in Int
      /\ z \in Int /\ z >= 0 /\ z < L * m
  BY SMT
<1> DEFINE q == z \div m
           r == z % m
<1>2. q \in Int /\ r \in 0 .. m - 1 /\ z = m * q + r
  BY <1>1, DivMod
<1> HIDE DEF q, r
<1>3. q >= 0
  <2>1. SUFFICES ASSUME q <= -1 PROVE FALSE
    BY <1>2
  <2>2. m * q <= -m
    BY <1>2, <2>1, SMT
  <2> QED
    BY <1>1, <1>2, <2>2
<1>4. q < L
  <2>1. SUFFICES ASSUME q >= L PROVE FALSE
    BY <1>2
  <2>2. m * q >= L * m
    BY <1>2, <2>1, SMT
  <2> QED
    BY <1>1, <1>2, <2>2
<1> QED
  BY <1>2, <1>3, <1>4 DEF q

(* v4_at and v6_at are one-to-one on any stretch of indices no longer than
   the capacity, whether or not it reaches around the end of the space: two
   indices that are closer than that never give the same prefix. *)
THEOREM AtOneToOne ==
    ASSUME NEW p, IsPlan(p), NEW i \in Int, NEW j \in Int,
           i < j, j - i < Capacity(p)
    PROVE  At(p, i) # At(p, j)
<1> DEFINE m == p.per
           L == Len(p.blocks)
           c == L * m
           x == i % c
           y == j % c
<1>1. m \in Nat \ {0} /\ L \in Nat \ {0} /\ c \in Nat \ {0} /\ c = Capacity(p)
  BY CapacityPositive DEF Capacity
<1>2. SUFFICES ASSUME At(p, i) = At(p, j) PROVE FALSE
  OBVIOUS
<1>3. p.blocks[(x \div m) + 1] = p.blocks[(y \div m) + 1] /\ x % m = y % m
  BY <1>2 DEF At, Capacity
<1>4. /\ DOMAIN p.blocks = 1 .. L
      /\ \A a, b \in DOMAIN p.blocks : p.blocks[a] = p.blocks[b] => a = b
  BY DEF IsPlan
<1> HIDE DEF m, L, c
<1>5. x \in 0 .. c - 1 /\ y \in 0 .. c - 1
  BY <1>1, DivMod
<1>6. x # y
  BY <1>1, SameRemainder
<1> HIDE DEF x, y
<1>7. x \div m \in 0 .. L - 1 /\ y \div m \in 0 .. L - 1
  BY <1>1, <1>5, BlockOf DEF c
<1>8. x \div m = y \div m
  <2> DEFINE a == x \div m
             b == y \div m
  <2>1. a + 1 \in 1 .. L /\ b + 1 \in 1 .. L
    BY <1>1, <1>7
  <2>2. p.blocks[a + 1] = p.blocks[b + 1]
    BY <1>3
  <2> HIDE DEF a, b
  <2>3. a + 1 = b + 1
    BY <1>4, <2>1, <2>2
  <2> QED
    BY <1>1, <1>7, <2>3 DEF a, b
<1>9. x \in Int /\ y \in Int
  BY <1>1, <1>5
<1>10. x = m * (x \div m) + (x % m) /\ y = m * (y \div m) + (y % m)
  BY <1>1, <1>9, DivMod
<1> QED
  BY <1>3, <1>6, <1>8, <1>10

LEMMA Quotient ==
    ASSUME NEW a \in Nat, NEW c \in Nat \ {0}
    PROVE  a \div c \in Nat
<1>1. a \div c \in Int /\ a % c \in 0 .. c - 1 /\ a = c * (a \div c) + (a % c)
  BY DivMod
<1> DEFINE q == a \div c
<1>2. q \in Int /\ a < c * q + c
  BY <1>1
<1> HIDE DEF q
<1>3. q >= 0
  <2>1. SUFFICES ASSUME q <= -1 PROVE FALSE
    BY <1>2
  <2>2. c * q <= -c
    BY <1>2, <2>1, SMT
  <2> QED
    BY <1>2, <2>2
<1> QED
  BY <1>2, <1>3 DEF q

(* A prefix is a block and a position in it. *)
LEMMA AtType ==
    ASSUME NEW p, IsPlan(p), NEW i \in Int
    PROVE  At(p, i) \in Nat \X Nat
<1> DEFINE m == p.per
           L == Len(p.blocks)
           x == i % (L * m)
<1>1. m \in Nat \ {0} /\ L \in Nat \ {0} /\ L * m \in Nat \ {0}
  BY CapacityPositive DEF Capacity
<1>2. p.blocks \in Seq(Nat) /\ At(p, i) = <<p.blocks[(x \div m) + 1], x % m>>
  BY DEF IsPlan, At, Capacity
<1>3. x \in 0 .. (L * m) - 1
  BY <1>1, DivMod
<1> HIDE DEF m, x
<1>4. x \div m \in 0 .. L - 1
  BY <1>1, <1>3, BlockOf
<1>5. x % m \in Nat
  BY <1>1, <1>3, DivMod
<1>6. (x \div m) + 1 \in 1 .. L
  BY <1>1, <1>4
<1>7. p.blocks[(x \div m) + 1] \in Nat
  BY <1>2, <1>6
<1> QED
  BY <1>2, <1>5, <1>7

LEMMA SplitType ==
    ASSUME NEW p, IsPlan(p), NEW count \in Nat
    PROVE  /\ Exclusive(p, count) \in Int
           /\ Width(p, count) \in Nat
           /\ Length(p, count) \in Int
           /\ Width(p, count) > 0 => p.pool \in Nat \ {0}
<1>1. p.num \in Nat /\ p.den \in Nat \ {0} /\ p.pool \in Nat
  BY DEF IsPlan
<1>2. count * p.num \in Nat
  BY <1>1, SMT
<1>3. Contested(p, count) \in Nat
  BY <1>1, <1>2, Quotient DEF Contested
<1> QED
  BY <1>1, <1>3 DEF Exclusive, Width, Length, Smaller

LEMMA BaseType ==
    ASSUME NEW p, IsPlan(p), NEW slot \in Nat, NEW count \in Nat, NEW off \in Nat
    PROVE  Base(p, slot, count, off) \in Int
<1>1. p.pool \in Nat /\ Larger(Exclusive(p, count), 1) \in Int
  BY SplitType DEF IsPlan, Larger
<1>2. slot * Larger(Exclusive(p, count), 1) \in Int
  BY <1>1, SMT
<1> QED
  BY <1>1, <1>2 DEF Base

LEMMA PrefixType ==
    ASSUME NEW p, IsPlan(p), NEW slot \in Nat, NEW count \in Nat, NEW off \in Nat,
           NEW i \in 0 .. Length(p, count) - 1
    PROVE  Prefix(p, slot, count, off, i) \in Nat \X Nat
<1> DEFINE e == Exclusive(p, count)
           w == Width(p, count)
<1>1. e \in Int /\ w \in Nat /\ Length(p, count) = e + w /\ (w > 0 => p.pool \in Nat \ {0})
  BY SplitType DEF Length
<1>2. i \in Int /\ i < e + w
  BY <1>1
<1> HIDE DEF e, w
<1>3. CASE i < e
  <2>1. Base(p, slot, count, off) + i \in Int
    BY <1>2, BaseType
  <2> QED
    BY <1>3, <2>1, AtType DEF Prefix, e
<1>4. CASE ~(i < e)
  <2>1. p.pool \in Nat \ {0}
    BY <1>1, <1>2, <1>4
  <2>2. Larger(1, w \div 4) \in Nat
    <3>1. w \div 4 \in Nat
      BY <1>1, Quotient
    <3> QED
      BY <3>1 DEF Larger
  <2>3. slot * Larger(1, w \div 4) \in Nat
    BY <2>2, SMT
  <2> DEFINE r == (slot * Larger(1, w \div 4)) % p.pool
  <2>4. r \in Int
    <3> DEFINE m == p.pool
    <3>1. m \in Nat \ {0}
      BY <2>1
    <3> HIDE DEF m
    <3>2. (slot * Larger(1, w \div 4)) % m \in Int
      BY <2>3, <3>1, DivMod
    <3> QED
      BY <3>2 DEF m
  <2> HIDE DEF r
  <2>5. r + (i - e) \in Int
    BY <1>1, <1>2, <2>4
  <2>6. (r + (i - e)) % p.pool \in Int
    <3> DEFINE m == p.pool
    <3>1. m \in Nat \ {0}
      BY <2>1
    <3> HIDE DEF m
    <3>2. (r + (i - e)) % m \in Int
      BY <2>5, <3>1, DivMod
    <3> QED
      BY <3>2 DEF m
  <2>7. ContestedIndex(p, slot, count, i - e) \in Int
    BY <2>6 DEF ContestedIndex, r, w
  <2> QED
    BY <1>4, <2>7, AtType DEF Prefix, e
<1> QED
  BY <1>3, <1>4

(* The exclusive windows of two sessions have no prefix in common, if the
   session with the larger slot is not the smaller one and the stretch from
   one window to the other is shorter than the prefix space.  This is what
   "exclusive" rests on: check_capacity tests neither. *)
THEOREM SlicesDisjoint ==
    ASSUME NEW p, IsPlan(p),
           NEW a \in Nat, NEW b \in Nat, a < b,
           NEW ca \in Nat, NEW cb \in Nat,
           Exclusive(p, ca) <= Exclusive(p, cb),
           NEW i \in 0 .. Exclusive(p, ca) - 1, NEW j \in 0 .. Exclusive(p, cb) - 1,
           (Base(p, b, cb, 0) + j) - (Base(p, a, ca, 0) + i) < Capacity(p)
    PROVE  Prefix(p, a, ca, 0, i) # Prefix(p, b, cb, 0, j)
<1> DEFINE x == Larger(Exclusive(p, ca), 1)
           y == Larger(Exclusive(p, cb), 1)
<1>0. Exclusive(p, ca) \in Int /\ Exclusive(p, cb) \in Int /\ p.pool \in Nat
  BY SplitType DEF IsPlan
<1>1. x \in Nat /\ y \in Nat /\ x <= y /\ i \in Nat /\ j \in Nat /\ i < x
  BY <1>0 DEF Larger
<1>2. /\ Base(p, a, ca, 0) = p.pool + (a * x) + 0
      /\ Base(p, b, cb, 0) = p.pool + (b * y) + 0
  BY DEF Base
<1> HIDE DEF x, y
<1>3. (a * x) + x <= b * y /\ a * x \in Nat /\ b * y \in Nat
  <2>1. a + 1 <= b /\ a * x \in Nat /\ b * y \in Nat /\ b * x \in Nat
    BY <1>1, SMT
  <2>2. (a + 1) * x <= b * x
    BY <1>1, <2>1, SMT
  <2>3. b * x <= b * y
    BY <1>1, SMT
  <2>4. (a + 1) * x = (a * x) + x
    BY <1>1, SMT
  <2> QED
    BY <1>1, <2>1, <2>2, <2>3, <2>4
<1>4. Base(p, a, ca, 0) + i \in Int /\ Base(p, b, cb, 0) + j \in Int
      /\ Base(p, a, ca, 0) + i < Base(p, b, cb, 0) + j
  BY <1>0, <1>1, <1>2, <1>3
<1>5. /\ Prefix(p, a, ca, 0, i) = At(p, Base(p, a, ca, 0) + i)
      /\ Prefix(p, b, cb, 0, j) = At(p, Base(p, b, cb, 0) + j)
  BY <1>0 DEF Prefix
<1> QED
  BY <1>4, <1>5, AtOneToOne

(* An exclusive prefix is not one of the contested pool as long as its index
   has not wrapped around: the comment of session_v4, with its condition. *)
THEOREM ExclusiveAboveThePool ==
    ASSUME NEW p, IsPlan(p), NEW slot \in Nat, NEW count \in Nat, NEW off \in Nat,
           NEW i \in 0 .. Exclusive(p, count) - 1, NEW k \in 0 .. p.pool - 1,
           Base(p, slot, count, off) + i < Capacity(p)
    PROVE  Prefix(p, slot, count, off, i) # At(p, k)
<1> DEFINE x == Larger(Exclusive(p, count), 1)
<1>1. Exclusive(p, count) \in Int /\ p.pool \in Nat /\ Capacity(p) \in Nat
  BY SplitType, CapacityPositive DEF IsPlan
<1>2. x \in Nat
  BY <1>1 DEF Larger
<1>3. Base(p, slot, count, off) = p.pool + (slot * x) + off
  BY DEF Base
<1> HIDE DEF x
<1>4. slot * x \in Nat
  BY <1>2, SMT
<1>5. Base(p, slot, count, off) + i \in Int /\ k \in Int
      /\ k < Base(p, slot, count, off) + i
      /\ (Base(p, slot, count, off) + i) - k < Capacity(p)
  BY <1>1, <1>3, <1>4
<1>6. Prefix(p, slot, count, off, i) = At(p, Base(p, slot, count, off) + i)
  BY <1>1 DEF Prefix
<1> QED
  BY <1>5, <1>6, AtOneToOne

----------------------------------------------------------------------------
(***************************************************************************)
(* The expansion of a profile.                                             *)
(***************************************************************************)

(* A non-empty set of naturals has a least element. *)
LEMMA LeastNat ==
    ASSUME NEW T, T \subseteq Nat, T # {}
    PROVE  \E x \in T : \A y \in T : x <= y
<1>1. PICK x \in T : \A y \in T : ~(<<y, x>> \in OpToRel(<, Nat))
  BY NatLessThanWellFounded, WFMin
<1>2. \A y \in T : ~(y < x)
  BY <1>1 DEF OpToRel
<1> QED
  BY <1>2

(* There is an ASN beyond all ranges. *)
LEMMA SafeExists ==
    ASSUME NEW n \in Nat
    PROVE  \E a \in Nat : n <= a /\ ~IsBogon(a)
<1>1. CASE Bogons = {}
  BY <1>1 DEF IsBogon
<1>2. CASE Bogons # {}
  <2>1. PICK last \in Bogons : \A r \in Bogons : r[2] <= last[2]
    BY <1>2, InventoryAssumption
  <2>2. last[2] \in Nat /\ \A r \in Bogons : r[1] \in Nat /\ r[2] \in Nat
    BY InventoryAssumption
  <2> DEFINE a == n + last[2] + 1
  <2>3. a \in Nat /\ n <= a /\ \A r \in Bogons : ~(a <= r[2])
    BY <2>1, <2>2
  <2>4. ~IsBogon(a)
    BY <2>3 DEF IsBogon
  <2> QED
    BY <2>3, <2>4
<1> QED
  BY <1>1, <1>2

(* next_safe_asn finds one, no smaller than what it was given. *)
LEMMA NextSafe ==
    ASSUME NEW n \in Nat
    PROVE  NextSafeAsn(n) \in Nat /\ n <= NextSafeAsn(n) /\ ~IsBogon(NextSafeAsn(n))
<1> DEFINE T == {a \in Nat : n <= a /\ ~IsBogon(a)}
           Candidates == {n} \cup {r[2] + 1 : r \in Bogons}
           Good(a) == /\ n <= a /\ ~IsBogon(a)
                      /\ \A b \in n .. a - 1 : IsBogon(b)
<1>1. PICK x \in T : \A y \in T : x <= y
  BY SafeExists, LeastNat, Zenon
<1>2. x \in Nat /\ n <= x /\ ~IsBogon(x)
  OBVIOUS
<1>3. \A b \in n .. x - 1 : IsBogon(b)
  <2> SUFFICES ASSUME NEW b \in n .. x - 1, ~IsBogon(b) PROVE FALSE
    OBVIOUS
  <2>1. b \in Nat /\ n <= b /\ b < x
    BY <1>2
  <2>2. b \in T
    BY <2>1
  <2>3. x <= b
    BY <1>1, <2>2
  <2> QED
    BY <1>2, <2>1, <2>3
<1>4. x \in Candidates
  <2>1. CASE x = n
    BY <2>1
  <2>2. CASE x # n
    <3>1. x - 1 \in n .. x - 1 /\ x - 1 \in Nat
      BY <1>2, <2>2
    <3>2. PICK r \in Bogons : r[1] <= x - 1 /\ x - 1 <= r[2]
      BY <1>3, <3>1 DEF IsBogon
    <3>3. r[1] \in Nat /\ r[2] \in Nat
      BY InventoryAssumption
    <3>4. ~(r[1] <= x /\ x <= r[2])
      BY <1>2 DEF IsBogon
    <3>5. x = r[2] + 1
      BY <1>2, <3>2, <3>3, <3>4
    <3> QED
      BY <3>5
  <2> QED
    BY <2>1, <2>2
<1>5. \A a \in Candidates : a \in Nat
  BY InventoryAssumption
<1>6. Good(x)
  BY <1>2, <1>3
<1> HIDE DEF Good, Candidates
<1>7. \E a \in Candidates : Good(a)
  BY <1>4, <1>6
<1>8. NextSafeAsn(n) = CHOOSE a \in Candidates : Good(a)
  BY DEF NextSafeAsn, Good, Candidates
<1>9. NextSafeAsn(n) \in Candidates /\ Good(NextSafeAsn(n))
  BY <1>7, <1>8, Zenon
<1> QED
  BY <1>5, <1>9 DEF Good

(* Two peers of one container do not have one remainder. *)
LEMMA PortsDiffer ==
    ASSUME NEW a \in Nat, NEW b \in Nat, NEW c \in Nat \ {0},
           a # b, a \div c = b \div c
    PROVE  a % c # b % c
<1>1. a = c * (a \div c) + (a % c) /\ b = c * (b \div c) + (b % c)
  BY DivMod
<1> DEFINE q == a \div c
           t == c * q
<1>2. t \in Int /\ a % c \in Int /\ b % c \in Int
  BY DivMod
<1>3. a = t + (a % c) /\ b = t + (b % c)
  BY <1>1
<1> HIDE DEF t
<1> QED
  BY <1>2, <1>3

(* The fleet being expanded, when there is one. *)
LEMMA FleetType ==
    ASSUME ExpansionTypeOK, Expanding
    PROVE  /\ fleet \in DOMAIN fleets
           /\ F = fleets[fleet]
           /\ F \in [id : Ids, fabric : Fabrics, engine : {"gobgp", "exabgp"},
                     peers : Nat, per : Nat \ {0}, base : Nat, count : Nat]
<1>1. fleets \in Seq(FleetChoices) /\ fleet \in 1 .. Len(fleets)
  BY DEF ExpansionTypeOK, Expanding
<1>2. fleet \in DOMAIN fleets /\ fleets[fleet] \in FleetChoices
  BY <1>1
<1> QED
  BY <1>2, InventoryAssumption DEF F

LEMMA SessionFields ==
    ASSUME ExpansionTypeOK, NEW k \in DOMAIN sessions
    PROVE  /\ sessions[k].fleet \in Nat /\ sessions[k].nr \in Nat
           /\ sessions[k].fabric \in Fabrics /\ sessions[k].host \in Nat
<1>1. sessions \in Seq(Sessions)
  BY DEF ExpansionTypeOK
<1>2. sessions[k] \in Sessions
  BY <1>1
<1> QED
  BY <1>2 DEF Sessions

LEMMA ExpansionInitOK == ExpansionInit => ExpansionInv
<1> SUFFICES ASSUME ExpansionInit PROVE ExpansionInv
  OBVIOUS
<1>1. PICK n \in 1 .. MaxFleets : fleets \in [1 .. n -> FleetChoices]
  BY DEF ExpansionInit
<1>2. MaxFleets \in Nat /\ n \in Nat /\ 1 <= n
  BY <1>1, InventoryAssumption
<1>3. fleets \in Seq(FleetChoices) /\ Len(fleets) = n
  BY <1>1, <1>2
<1>4. fleets[1] \in FleetChoices
  BY <1>1, <1>2
<1>5. fleets[1].base \in Nat
  BY <1>4, InventoryAssumption
<1>6. asn \in Nat /\ ~IsBogon(asn)
  BY <1>5, NextSafe DEF ExpansionInit
<1>7. sessions = << >> /\ DOMAIN sessions = {}
  BY DEF ExpansionInit
<1>8. ExpansionTypeOK
  BY <1>2, <1>3, <1>6, <1>7, InventoryAssumption DEF ExpansionInit, ExpansionTypeOK
<1>9. AcceptInv
  BY DEF ExpansionInit, AcceptInv
<1> QED
  BY <1>6, <1>7, <1>8, <1>9 DEF ExpansionInv, PlaceInv, CursorInv, EndpointsDistinct

(* A new session is unlike all older ones. *)
LEMMA AddPeerStep == ExpansionInv /\ AddPeer => ExpansionInv'
<1> SUFFICES ASSUME ExpansionInv, AddPeer PROVE ExpansionInv'
  OBVIOUS
<1> DEFINE n == Len(sessions)
           f == fleets[fleet]
           new == sessions'[n + 1]
<1>1. ExpansionTypeOK /\ Expanding
  BY DEF ExpansionInv, AddPeer
<1>2. /\ fleet \in DOMAIN fleets
      /\ F = f
      /\ f \in [id : Ids, fabric : Fabrics, engine : {"gobgp", "exabgp"},
                peers : Nat, per : Nat \ {0}, base : Nat, count : Nat]
  BY <1>1, FleetType
<1>3. /\ fleets' = fleets /\ fleet' = fleet /\ peer' = peer + 1
      /\ cursor' = [cursor EXCEPT ![f.fabric] = @ + 1]
      /\ owner' = owner \cup {asn}
      /\ asn' = NextSafeAsn(asn + 1)
      /\ sessions' = Append(sessions, Session)
      /\ verdict' = verdict
      /\ asn \notin owner /\ asn # DutAsn
      /\ ~Exhausted
  BY <1>2 DEF AddPeer
<1>4. /\ fleets \in Seq(FleetChoices) /\ peer \in Nat /\ asn \in Nat
      /\ cursor \in [Fabrics -> Nat] /\ owner \subseteq Nat
      /\ fleet \in 1 .. Len(fleets) + 1
      /\ n \in Nat
  BY <1>1 DEF ExpansionTypeOK
<1>5. asn' \in Nat /\ ~IsBogon(asn')
  BY <1>3, <1>4, NextSafe
<1>6. peer \div f.per \in Nat /\ peer % f.per \in Nat
  <2>1. f.per \in Nat \ {0} /\ peer \in Nat
    BY <1>2, <1>4
  <2> DEFINE c == f.per
  <2> HIDE DEF c
  <2>2. c \in Nat \ {0}
    BY <2>1 DEF c
  <2>3. peer \div c \in Nat /\ peer % c \in 0 .. c - 1
    BY <2>1, <2>2, peer \in Int, Quotient, DivMod
  <2>4. peer % c \in Nat
    BY <2>2, <2>3
  <2> QED
    BY <2>3, <2>4 DEF c
<1>7. Session \in Sessions
  <2>1. /\ fleet \in Nat /\ f.fabric \in Fabrics /\ f.engine \in {"gobgp", "exabgp"}
        /\ cursor[f.fabric] \in Nat /\ f.id \in Ids /\ f.count \in Nat
    BY <1>2, <1>4
  <2>2. (IF f.engine = "gobgp" THEN peer % f.per ELSE 0) \in Nat
    BY <1>6
  <2> QED
    BY <1>2, <1>4, <1>6, <2>1, <2>2 DEF Session, Sessions
<1>8. /\ new = Session
      /\ DOMAIN sessions' = 1 .. n + 1
      /\ DOMAIN sessions = 1 .. n
      /\ \A k \in 1 .. n : sessions'[k] = sessions[k]
  BY <1>1, <1>3, <1>4, <1>7 DEF ExpansionTypeOK
<1>9. ExpansionTypeOK'
  <2>1. sessions' \in Seq(Sessions)
    BY <1>1, <1>3, <1>7 DEF ExpansionTypeOK
  <2>2. cursor' \in [Fabrics -> Nat]
    BY <1>2, <1>3, <1>4
  <2>3. owner' \subseteq Nat /\ peer' \in Nat
    BY <1>3, <1>4
  <2> QED
    BY <1>1, <1>3, <1>5, <2>1, <2>2, <2>3 DEF ExpansionTypeOK
<1>10. /\ new.fleet = fleet /\ new.nr = peer /\ new.fabric = f.fabric /\ new.engine = f.engine
       /\ new.host = cursor[f.fabric] /\ new.asn = asn /\ new.slot = n
       /\ new.container = <<f.id, peer \div f.per>>
       /\ new.engine = "gobgp" => new.port = peer % f.per
  BY <1>2, <1>8 DEF Session
<1>11. PlaceInv'
  <2> SUFFICES ASSUME NEW k \in 1 .. n + 1
               PROVE  LET s == sessions'[k] IN
                      /\ s.fleet \in DOMAIN fleets
                      /\ s.fleet < fleet \/ (s.fleet = fleet /\ s.nr < peer + 1)
                      /\ s.engine = fleets[s.fleet].engine
                      /\ s.container = <<fleets[s.fleet].id, s.nr \div fleets[s.fleet].per>>
                      /\ s.engine = "gobgp" => s.port = s.nr % fleets[s.fleet].per
    BY <1>3, <1>8 DEF PlaceInv
  <2>1. CASE k = n + 1
    BY <2>1, <1>2, <1>4, <1>10
  <2>2. CASE k \in 1 .. n
    <3>1. sessions'[k] = sessions[k] /\ k \in DOMAIN sessions /\ sessions[k].nr \in Nat
      BY <2>2, <1>1, <1>8, SessionFields
    <3> QED
      BY <3>1, <1>4 DEF ExpansionInv, PlaceInv
  <2> QED
    BY <1>4, <2>1, <2>2
<1>12. CursorInv'
  <2> SUFFICES ASSUME NEW k \in 1 .. n + 1
               PROVE  LET s == sessions'[k] IN
                      /\ s.host < cursor'[s.fabric]
                      /\ s.asn \in owner \cup {asn}
                      /\ s.slot = k - 1
    BY <1>3, <1>8 DEF CursorInv
  <2>1. CASE k = n + 1
    BY <2>1, <1>2, <1>3, <1>4, <1>10
  <2>2. CASE k \in 1 .. n
    <3>1. /\ sessions'[k] = sessions[k] /\ k \in DOMAIN sessions
          /\ sessions[k].host \in Nat /\ sessions[k].fabric \in Fabrics
      BY <2>2, <1>1, <1>8, SessionFields
    <3>2. /\ sessions[k].host < cursor[sessions[k].fabric]
          /\ sessions[k].asn \in owner
          /\ sessions[k].slot = k - 1
      BY <3>1 DEF ExpansionInv, CursorInv
    <3>3. cursor[sessions[k].fabric] <= cursor'[sessions[k].fabric]
      BY <3>1, <1>3, <1>4
    <3>4. cursor'[sessions[k].fabric] \in Nat /\ cursor[sessions[k].fabric] \in Nat
      BY <3>1, <1>3, <1>4
    <3> QED
      BY <3>1, <3>2, <3>3, <3>4
  <2> QED
    BY <1>4, <2>1, <2>2
<1>13. EndpointsDistinct'
  <2>1. ASSUME NEW b \in 1 .. n
        PROVE  /\ new.asn # sessions[b].asn
               /\ new.fabric = sessions[b].fabric => new.host # sessions[b].host
               /\ IdsDistinct /\ new.engine = "gobgp" /\ new.container = sessions[b].container =>
                     new.port # sessions[b].port
               /\ new.slot # sessions[b].slot
    <3> DEFINE t == sessions[b]
    <3>1. b \in DOMAIN sessions /\ t.nr \in Nat /\ t.host \in Nat
      BY <1>1, <1>8, SessionFields
    <3>2. t.asn \in owner /\ t.host < cursor[t.fabric] /\ t.slot = b - 1
      BY <3>1 DEF ExpansionInv, CursorInv
    <3>3. new.fabric = t.fabric => new.host # t.host
      BY <3>1, <3>2, <1>10
    <3>4. /\ t.fleet \in DOMAIN fleets
          /\ t.fleet < fleet \/ (t.fleet = fleet /\ t.nr < peer)
          /\ t.engine = fleets[t.fleet].engine
          /\ t.container = <<fleets[t.fleet].id, t.nr \div fleets[t.fleet].per>>
          /\ t.engine = "gobgp" => t.port = t.nr % fleets[t.fleet].per
      BY <3>1 DEF ExpansionInv, PlaceInv
    <3>5. ASSUME IdsDistinct, new.engine = "gobgp", new.container = t.container
          PROVE  new.port # t.port
      <4>1. fleets[t.fleet].id = f.id /\ t.nr \div fleets[t.fleet].per = peer \div f.per
        BY <3>4, <3>5, <1>10
      <4>2. t.fleet = fleet
        BY <3>4, <3>5, <1>2, <4>1 DEF IdsDistinct
      <4>3. t.nr < peer /\ t.nr \div f.per = peer \div f.per
        BY <3>4, <4>1, <4>2, <1>4
      <4>4. t.nr # peer /\ f.per \in Nat \ {0}
        BY <3>1, <4>3, <1>2, <1>4
      <4>5. t.nr % f.per # peer % f.per
        BY <3>1, <4>3, <4>4, <1>4, PortsDiffer
      <4>6. t.port = t.nr % f.per /\ new.port = peer % f.per
        BY <3>4, <3>5, <4>2, <1>10
      <4> QED
        BY <4>5, <4>6
    <3>6. new.slot # t.slot
      BY <3>2, <1>4, <1>10
    <3> QED
      BY <3>2, <3>3, <3>5, <3>6, <1>3, <1>10
  <2>2. ~IsBogon(new.asn) /\ new.asn # DutAsn /\ new.host < Addresses[new.fabric] - 1
    <3>1. ~(cursor[f.fabric] >= Addresses[f.fabric] - 1)
      BY <1>2, <1>3 DEF Exhausted
    <3>2. Addresses[f.fabric] \in Nat /\ cursor[f.fabric] \in Nat
      BY <1>2, <1>4, InventoryAssumption
    <3> QED
      BY <3>1, <3>2, <1>3, <1>10 DEF ExpansionInv
  <2> SUFFICES ASSUME NEW a \in 1 .. n + 1
               PROVE  LET s == sessions'[a] IN
                      /\ ~IsBogon(s.asn) /\ s.asn # DutAsn
                      /\ s.host < Addresses[s.fabric] - 1
                      /\ \A b \in 1 .. a - 1 :
                            LET t == sessions'[b] IN
                            /\ s.asn # t.asn
                            /\ s.fabric = t.fabric => s.host # t.host
                            /\ IdsDistinct /\ s.engine = "gobgp" /\ s.container = t.container =>
                                  s.port # t.port
                            /\ s.slot # t.slot
    <3>1. IdsDistinct' <=> IdsDistinct
      BY <1>3 DEF IdsDistinct
    <3>2. \A x : IsBogon(x)' <=> IsBogon(x)
      BY DEF IsBogon
    <3> QED
      BY <1>8, <3>1 DEF EndpointsDistinct, IsBogon
  <2>3. CASE a = n + 1
    <3>1. \A b \in 1 .. n : sessions'[b] = sessions[b]
      BY <1>8
    <3>2. sessions'[a] = new /\ 1 .. a - 1 = 1 .. n
      BY <2>3, <1>4
    <3> HIDE DEF new
    <3> QED
      BY <2>1, <2>2, <3>1, <3>2
  <2>4. CASE a \in 1 .. n
    <3>1. /\ sessions'[a] = sessions[a] /\ a \in DOMAIN sessions
          /\ \A b \in 1 .. a - 1 : sessions'[b] = sessions[b]
      BY <2>4, <1>4, <1>8
    <3> QED
      BY <3>1 DEF ExpansionInv, EndpointsDistinct
  <2> QED
    BY <1>4, <2>3, <2>4
<1>14. AcceptInv'
  BY <1>1, <1>3 DEF AcceptInv, Expanding
<1> QED
  BY <1>5, <1>9, <1>11, <1>12, <1>13, <1>14 DEF ExpansionInv

(* The other steps leave the sessions alone. *)
LEMMA QuietStep ==
    ASSUME ExpansionInv, RefusePeer \/ NextFleet \/ Finish \/ UNCHANGED expansionVars
    PROVE  ExpansionInv'
<1>1. sessions' = sessions /\ fleets' = fleets /\ owner' = owner /\ cursor' = cursor
  BY DEF RefusePeer, NextFleet, Finish, expansionVars
<1>2. ExpansionTypeOK
  BY DEF ExpansionInv
<1>3. CursorInv' /\ EndpointsDistinct'
  BY <1>1 DEF ExpansionInv, CursorInv, EndpointsDistinct, IdsDistinct, IsBogon
<1>4. AcceptInv'
  <2>1. CASE Finish
    BY <1>1, <2>1 DEF Finish, AcceptInv
  <2>2. CASE RefusePeer \/ NextFleet \/ UNCHANGED expansionVars
    BY <1>1, <2>2 DEF RefusePeer, NextFleet, Expanding, expansionVars, AcceptInv, ExpansionInv
  <2> QED
    BY <2>1, <2>2
<1>5. CASE NextFleet
  <2>1. /\ Expanding /\ fleet' = fleet + 1 /\ peer' = 0 /\ verdict' = verdict
        /\ asn' = IF fleet < Len(fleets) THEN NextSafeAsn(fleets[fleet + 1].base) ELSE asn
    BY <1>5 DEF NextFleet
  <2>2. fleets \in Seq(FleetChoices) /\ fleet \in 1 .. Len(fleets) /\ asn \in Nat /\ ~IsBogon(asn)
    BY <1>2, <2>1 DEF ExpansionTypeOK, Expanding, ExpansionInv
  <2>3. ASSUME fleet < Len(fleets)
        PROVE  fleets[fleet + 1].base \in Nat
    <3>1. fleets[fleet + 1] \in FleetChoices
      BY <2>2, <2>3
    <3> QED
      BY <3>1, InventoryAssumption
  <2>4. asn' \in Nat /\ ~IsBogon(asn')
    BY <2>1, <2>2, <2>3, NextSafe
  <2>5. ExpansionTypeOK'
    BY <1>1, <1>2, <2>1, <2>2, <2>4 DEF ExpansionTypeOK
  <2>6. PlaceInv'
    <3> SUFFICES ASSUME NEW k \in DOMAIN sessions
                 PROVE  sessions[k].fleet < fleet + 1
      BY <1>1, <2>1 DEF PlaceInv, ExpansionInv
    <3>1. sessions[k].fleet < fleet \/ sessions[k].fleet = fleet
      BY DEF ExpansionInv, PlaceInv
    <3>2. sessions[k].fleet \in Nat
      BY <1>2, SessionFields
    <3> QED
      BY <2>2, <3>1, <3>2
  <2> QED
    BY <1>3, <1>4, <2>4, <2>5, <2>6 DEF ExpansionInv
<1>6. CASE RefusePeer \/ Finish \/ UNCHANGED expansionVars
  <2>1. fleet' = fleet /\ peer' = peer /\ asn' = asn
    BY <1>6 DEF RefusePeer, Finish, expansionVars
  <2>2. verdict' \in {"open", "accepted", "refused"}
    BY <1>2, <1>6 DEF RefusePeer, Finish, expansionVars, ExpansionTypeOK
  <2>3. ExpansionTypeOK' /\ PlaceInv' /\ ~IsBogon(asn')
    BY <1>1, <1>2, <2>1, <2>2 DEF ExpansionInv, ExpansionTypeOK, PlaceInv, IsBogon
  <2> QED
    BY <1>3, <1>4, <2>3 DEF ExpansionInv
<1> QED
  BY <1>5, <1>6

(* The conjunction of all parts is an invariant. *)
THEOREM InventoryInductive == ExpansionSpec => []ExpansionInv
<1>1. ExpansionInv /\ [ExpansionNext]_expansionVars => ExpansionInv'
  BY AddPeerStep, QuietStep DEF ExpansionNext
<1> QED
  BY ExpansionInitOK, <1>1, PTL DEF ExpansionSpec

(* Every reachable state of the expansion is well typed. *)
THEOREM InventoryTyped == ExpansionSpec => []ExpansionTypeOK
<1>1. ExpansionInv => ExpansionTypeOK
  BY DEF ExpansionInv
<1> QED
  BY InventoryInductive, <1>1, PTL

(* No two sessions share an address, an ASN, a port or a slot. *)
THEOREM NoTwoEndpointsAlike == ExpansionSpec => []EndpointsDistinct
<1>1. ExpansionInv => EndpointsDistinct
  BY DEF ExpansionInv
<1> QED
  BY InventoryInductive, <1>1, PTL

----------------------------------------------------------------------------
(***************************************************************************)
(* What an accepted profile of equal sessions rests on.                    *)
(***************************************************************************)

(* check_capacity's sum of equal parts is their number times the part.  The
   sum is a recursion on sets; a least set for which this fails would have
   one below it for which it fails. *)
LEMMA UniformSum ==
    ASSUME NEW p, NEW n \in Nat, NEW e \in Nat, NEW counts, DOMAIN counts = 1 .. n,
           \A k \in 1 .. n : Larger(1, Exclusive(p, counts[k])) = e,
           CheckCapacity(p, counts)
    PROVE  p.pool + n * e <= Capacity(p)
<1> DEFINE part(s) == Larger(1, Exclusive(p, counts[s]))
           pick(s) == CHOOSE x \in s : TRUE
           Sum(f) == [s \in SUBSET (1 .. n) |->
                        IF s = {} THEN 0 ELSE part(pick(s)) + f[s \ {pick(s)}]]
           sum == CHOOSE f : f = Sum(f)
           total == [s \in SUBSET (1 .. n) |-> Cardinality(s) * e]
<1>1. MapThenSumSet(LAMBDA s : Larger(1, Exclusive(p, counts[s])), 1 .. n) = sum[1 .. n]
  BY DEF MapThenSumSet, MapThenFoldSet
<1>2. \A s \in SUBSET (1 .. n) : /\ IsFiniteSet(s) /\ Cardinality(s) \in Nat
  BY FS_Interval, FS_Subset, FS_CardinalityType, n \in Int, 1 \in Int
<1>3. ASSUME NEW s \in SUBSET (1 .. n), s # {}
      PROVE  /\ pick(s) \in s /\ part(pick(s)) = e
             /\ s \ {pick(s)} \in SUBSET (1 .. n)
             /\ Cardinality(s \ {pick(s)}) = Cardinality(s) - 1
             /\ Cardinality(s) \in Nat \ {0}
  <2>1. pick(s) \in s
    BY <1>3
  <2>2. part(pick(s)) = e
    BY <2>1
  <2>3. Cardinality(s \ {pick(s)}) = Cardinality(s) - 1
    BY <1>2, <2>1, FS_RemoveElement
  <2>4. Cardinality(s) # 0
    BY <1>2, <1>3, FS_EmptySet
  <2> QED
    BY <1>2, <2>1, <2>2, <2>3, <2>4
<1> HIDE DEF pick, part
<1>4. total = Sum(total)
  <2> SUFFICES ASSUME NEW s \in SUBSET (1 .. n)
               PROVE  Cardinality(s) * e =
                        IF s = {} THEN 0 ELSE part(pick(s)) + total[s \ {pick(s)}]
    OBVIOUS
  <2>1. CASE s = {}
    BY <2>1, FS_EmptySet
  <2>2. CASE s # {}
    <3> DEFINE c == Cardinality(s)
    <3>1. part(pick(s)) = e /\ total[s \ {pick(s)}] = (c - 1) * e /\ c \in Nat \ {0}
      BY <1>3, <2>2
    <3> HIDE DEF c, total
    <3>2. c * e = e + ((c - 1) * e)
      BY <3>1, SMT
    <3> QED
      BY <2>2, <3>1, <3>2 DEF c
  <2> QED
    BY <2>1, <2>2
<1>5. sum = Sum(sum)
  <2> HIDE DEF Sum, total
  <2>1. \E f : f = Sum(f)
    BY <1>4
  <2> QED
    BY <2>1
<1> HIDE DEF sum, total
<1>6. \A s \in SUBSET (1 .. n) :
        sum[s] = IF s = {} THEN 0 ELSE part(pick(s)) + sum[s \ {pick(s)}]
  BY <1>5
<1> DEFINE Wrong == {k \in Nat : \E s \in SUBSET (1 .. n) :
                        Cardinality(s) = k /\ sum[s] # k * e}
<1>7. Wrong = {}
  <2> SUFFICES ASSUME Wrong # {} PROVE FALSE
    OBVIOUS
  <2>1. PICK k \in Wrong : \A m \in Wrong : k <= m
    BY LeastNat
  <2>2. PICK s \in SUBSET (1 .. n) : Cardinality(s) = k /\ sum[s] # k * e
    OBVIOUS
  <2>3. CASE s = {}
    <3>1. k = 0 /\ sum[s] = 0
      BY <1>6, <2>2, <2>3, FS_EmptySet
    <3> QED
      BY <2>2, <3>1, SMT
  <2>4. CASE s # {}
    <3> DEFINE rest == s \ {pick(s)}
    <3>1. /\ rest \in SUBSET (1 .. n) /\ Cardinality(rest) = k - 1 /\ k \in Nat \ {0}
          /\ part(pick(s)) = e
      BY <1>3, <2>2, <2>4
    <3>2. k - 1 \notin Wrong /\ k - 1 \in Nat
      BY <2>1, <3>1
    <3>3. sum[rest] = (k - 1) * e
      BY <3>1, <3>2
    <3>4. sum[s] = e + sum[rest]
      BY <1>6, <2>4, <3>1
    <3>5. k * e = e + ((k - 1) * e)
      BY <3>1, SMT
    <3> QED
      BY <2>2, <3>3, <3>4, <3>5
  <2> QED
    BY <2>3, <2>4
<1>8. 1 .. n \in SUBSET (1 .. n) /\ Cardinality(1 .. n) = n
  BY FS_Interval, n \in Int, 1 \in Int
<1>9. sum[1 .. n] = n * e
  <2>1. n \notin Wrong
    BY <1>7
  <2> QED
    BY <1>8, <2>1
<1> QED
  BY <1>1, <1>9 DEF CheckCapacity

(* A contested window starts somewhere in the pool and goes round. *)
LEMMA ContestedForm ==
    ASSUME NEW p, IsPlan(p), NEW slot \in Nat, NEW count \in Nat, p.pool \in Nat \ {0}
    PROVE  \E r \in Int : \A k : ContestedIndex(p, slot, count, k) = (r + k) % p.pool
<1> DEFINE m == p.pool
           t == Larger(1, Width(p, count) \div 4)
           z == slot * t
<1>1. t \in Nat
  <2>1. Width(p, count) \in Nat
    BY SplitType
  <2>2. Width(p, count) \div 4 \in Nat
    BY <2>1, Quotient
  <2> QED
    BY <2>2 DEF Larger
<1>2. \A k : ContestedIndex(p, slot, count, k) = ((z % m) + k) % m
  BY DEF ContestedIndex
<1> HIDE DEF m, t
<1>3. z \in Nat /\ m \in Nat \ {0}
  BY <1>1, SMT DEF m
<1> HIDE DEF z
<1>4. z % m \in Int
  BY <1>3, DivMod
<1> QED
  BY <1>2, <1>4 DEF m

LEMMA ContestedType ==
    ASSUME NEW p, IsPlan(p), NEW slot \in Nat, NEW count \in Nat, p.pool \in Nat \ {0},
           NEW a \in Int
    PROVE  ContestedIndex(p, slot, count, a) \in 0 .. p.pool - 1
<1> DEFINE m == p.pool
<1>1. PICK r \in Int : \A k : ContestedIndex(p, slot, count, k) = (r + k) % m
  BY ContestedForm
<1>2. m \in Nat \ {0} /\ r + a \in Int
  OBVIOUS
<1> HIDE DEF m
<1>3. (r + a) % m \in 0 .. m - 1
  BY <1>2, DivMod
<1> QED
  BY <1>1, <1>3 DEF m

(* The contested part of a session takes each index of the pool at most
   once, as long as it is no larger than the pool. *)
LEMMA ContestedOneToOne ==
    ASSUME NEW p, IsPlan(p), NEW slot \in Nat, NEW count \in Nat, p.pool \in Nat \ {0},
           NEW a \in Int, NEW b \in Int, a < b, b - a < p.pool
    PROVE  ContestedIndex(p, slot, count, a) # ContestedIndex(p, slot, count, b)
<1> DEFINE m == p.pool
<1>1. PICK r \in Int : \A k : ContestedIndex(p, slot, count, k) = (r + k) % m
  BY ContestedForm
<1>2. m \in Nat \ {0} /\ b - a < m
  OBVIOUS
<1> HIDE DEF m
<1>3. /\ r + a \in Int /\ r + b \in Int /\ r + a < r + b
      /\ ~((r + b) - (r + a) >= m)
  BY <1>2
<1>4. (r + a) % m # (r + b) % m
  BY <1>2, <1>3, SameRemainder
<1> QED
  BY <1>1, <1>4

(* The exclusive indices of a session among so many that the prefix space
   holds all of their size. *)
LEMMA BaseInSpace ==
    ASSUME NEW p, IsPlan(p), NEW n \in Nat, NEW count \in Nat, NEW slot \in 0 .. n - 1,
           p.pool + n * Larger(1, Exclusive(p, count)) <= Capacity(p),
           NEW k \in 0 .. Exclusive(p, count) - 1
    PROVE  /\ Base(p, slot, count, 0) + k \in p.pool .. Capacity(p) - 1
<1> DEFINE x == Larger(Exclusive(p, count), 1)
<1>1. Exclusive(p, count) \in Int /\ p.pool \in Nat /\ Capacity(p) \in Nat
  BY SplitType, CapacityPositive DEF IsPlan
<1>2. x \in Nat \ {0} /\ k < x /\ k \in Nat /\ x = Larger(1, Exclusive(p, count))
  BY <1>1 DEF Larger
<1>3. Base(p, slot, count, 0) = p.pool + (slot * x) + 0
  BY DEF Base
<1>4. p.pool + n * x <= Capacity(p)
  BY <1>2
<1> HIDE DEF x
<1>5. slot * x \in Nat /\ n * x \in Nat /\ (slot * x) + x <= n * x
  <2>1. slot \in Nat /\ slot + 1 <= n
    OBVIOUS
  <2>2. (slot + 1) * x <= n * x
    BY <1>2, <2>1, SMT
  <2>3. (slot + 1) * x = (slot * x) + x
    BY <1>2, <2>1, SMT
  <2>4. slot * x \in Nat /\ n * x \in Nat
    BY <1>2, <2>1, SMT
  <2> QED
    BY <2>2, <2>3, <2>4
<1> QED
  BY <1>1, <1>2, <1>3, <1>4, <1>5

(* Two indices within the space are two prefixes. *)
LEMMA AtInSpace ==
    ASSUME NEW p, IsPlan(p), NEW a \in 0 .. Capacity(p) - 1, NEW b \in 0 .. Capacity(p) - 1,
           a # b
    PROVE  At(p, a) # At(p, b)
<1>1. Capacity(p) \in Nat \ {0}
  BY CapacityPositive
<1>2. CASE a < b
  BY <1>1, <1>2, AtOneToOne
<1>3. CASE b < a
  BY <1>1, <1>3, AtOneToOne
<1> QED
  BY <1>1, <1>2, <1>3

(* Such a session has as many prefixes as its profile says. *)
LEMMA ExactCount ==
    ASSUME NEW p, IsPlan(p), NEW n \in Nat, NEW count \in Nat, NEW slot \in 0 .. n - 1,
           Contested(p, count) <= p.pool,
           p.pool + n * Larger(1, Exclusive(p, count)) <= Capacity(p)
    PROVE  Cardinality(SessionPrefixes(p, slot, count, 0)) = count
<1> DEFINE e == Exclusive(p, count)
           index(k) == IF k < e THEN Base(p, slot, count, 0) + k
                                ELSE ContestedIndex(p, slot, count, k - e)
<1>1. /\ e \in Int /\ p.pool \in Nat /\ Capacity(p) \in Nat \ {0}
      /\ Contested(p, count) \in Int /\ Width(p, count) \in Nat
  <2>1. e \in Int /\ Width(p, count) \in Nat /\ p.pool \in Nat
    BY SplitType DEF IsPlan
  <2>2. Contested(p, count) \in Int
    <3>1. count * p.num \in Nat /\ p.den \in Nat \ {0}
      <4>1. p.num \in Nat
        BY DEF IsPlan
      <4> QED
        BY <4>1, SMT DEF IsPlan
    <3> QED
      BY <3>1, Quotient DEF Contested
  <2> QED
    BY <2>1, <2>2, CapacityPositive
<1>2. Width(p, count) = Contested(p, count) /\ count = e + Contested(p, count)
      /\ Length(p, count) = count
  BY <1>1 DEF Width, Smaller, Exclusive, Length
<1>3. SessionPrefixes(p, slot, count, 0) = {At(p, index(k)) : k \in 0 .. count - 1}
  BY <1>1, <1>2 DEF SessionPrefixes, FirstPrefixes, Smaller, Prefix
<1>4. p.pool <= Capacity(p)
  <2> DEFINE x == Larger(1, Exclusive(p, count))
  <2>1. x \in Nat
    BY <1>1 DEF Larger
  <2> HIDE DEF x
  <2>2. n * x \in Nat
    BY <2>1, SMT
  <2>3. p.pool + n * x <= Capacity(p)
    BY DEF x
  <2> QED
    BY <1>1, <2>2, <2>3
<1>5. ASSUME NEW k \in 0 .. count - 1, k < e
      PROVE  index(k) \in p.pool .. Capacity(p) - 1 /\ index(k) = Base(p, slot, count, 0) + k
  <2>1. k \in 0 .. Exclusive(p, count) - 1
    BY <1>1, <1>5
  <2> QED
    BY <1>5, <2>1, BaseInSpace
<1>6. ASSUME NEW k \in 0 .. count - 1, ~(k < e)
      PROVE  /\ index(k) \in 0 .. p.pool - 1
             /\ \A j \in 0 .. count - 1 : j # k /\ ~(j < e) => index(k) # index(j)
  <2>1. p.pool \in Nat \ {0} /\ k - e \in Int
    BY <1>1, <1>2, <1>6
  <2>2. \A c : ~(c < e) => index(c) = ContestedIndex(p, slot, count, c - e)
    OBVIOUS
  <2> HIDE DEF index
  <2>3. index(k) \in 0 .. p.pool - 1
    <3> DEFINE c == k - e
    <3>1. c \in Int /\ slot \in Nat
      BY <2>1
    <3> HIDE DEF c
    <3>2. ContestedIndex(p, slot, count, c) \in 0 .. p.pool - 1
      BY <2>1, <3>1, ContestedType
    <3> QED
      BY <1>6, <2>2, <3>2 DEF c
  <2>4. ASSUME NEW j \in 0 .. count - 1, j # k, ~(j < e)
        PROVE  index(k) # index(j)
    <3>1. ContestedIndex(p, slot, count, k - e) # ContestedIndex(p, slot, count, j - e)
      <4>1. /\ j - e \in Int
            /\ (k - e) - (j - e) < p.pool /\ (j - e) - (k - e) < p.pool
        BY <1>1, <1>2, <1>6, <2>4
      <4>2. CASE k - e < j - e
        BY <2>1, <4>1, <4>2, ContestedOneToOne
      <4>3. CASE j - e < k - e
        BY <2>1, <4>1, <4>3, ContestedOneToOne
      <4> QED
        BY <1>1, <2>4, <4>2, <4>3
    <3> QED
      BY <1>6, <2>2, <2>4, <3>1
  <2> QED
    BY <2>3, <2>4
<1>7. ASSUME NEW k \in 0 .. count - 1, NEW j \in 0 .. count - 1, k # j
      PROVE  At(p, index(k)) # At(p, index(j))
  <2>1. index(k) # index(j)
    <3>1. CASE k < e /\ j < e
      BY <1>5, <1>7, <3>1, BaseType
    <3>2. CASE k < e /\ ~(j < e)
      BY <1>1, <1>5, <1>6, <3>2
    <3>3. CASE ~(k < e) /\ j < e
      BY <1>1, <1>5, <1>6, <3>3
    <3>4. CASE ~(k < e) /\ ~(j < e)
      BY <1>6, <1>7, <3>4
    <3> QED
      BY <3>1, <3>2, <3>3, <3>4
  <2>2. index(k) \in 0 .. Capacity(p) - 1 /\ index(j) \in 0 .. Capacity(p) - 1
    BY <1>1, <1>4, <1>5, <1>6
  <2> HIDE DEF index
  <2> QED
    BY <2>1, <2>2, AtInSpace
<1> HIDE DEF index, e
<1> DEFINE S == {At(p, index(k)) : k \in 0 .. count - 1}
           f == [k \in 1 .. count |-> At(p, index(k - 1))]
<1>8. f \in Bijection(1 .. count, S)
  <2>1. f \in [1 .. count -> S]
    OBVIOUS
  <2>2. \A a, b \in 1 .. count : f[a] = f[b] => a = b
    <3> SUFFICES ASSUME NEW a \in 1 .. count, NEW b \in 1 .. count, a # b
                 PROVE  f[a] # f[b]
      BY Zenon
    <3>1. a - 1 \in 0 .. count - 1 /\ b - 1 \in 0 .. count - 1 /\ a - 1 # b - 1
      OBVIOUS
    <3> QED
      BY <1>7, <3>1
  <2>3. \A s \in S : \E a \in 1 .. count : f[a] = s
    <3> SUFFICES ASSUME NEW k \in 0 .. count - 1
                 PROVE  \E a \in 1 .. count : f[a] = At(p, index(k))
      OBVIOUS
    <3>1. k + 1 \in 1 .. count /\ (k + 1) - 1 = k
      OBVIOUS
    <3>2. f[k + 1] = At(p, index(k))
      BY <3>1
    <3> QED
      BY <3>1, <3>2
  <2> QED
    BY <2>1, <2>2, <2>3 DEF Bijection, Injection, Surjection, IsInjective
<1> QED
  BY <1>3, <1>8, FS_CountingElements DEF ExistsBijection

(* Where one size fits all sessions, the sum that check_capacity tests is
   the end of the last one's window. *)
LEMMA AcceptedFits ==
    ASSUME ExpansionTypeOK,
           CheckCapacity(FamilyPlan, [k \in DOMAIN sessions |-> sessions[k].count]),
           NEW c \in Nat, \A k \in DOMAIN sessions : sessions[k].count = c,
           sessions # << >>
    PROVE  /\ Contested(FamilyPlan, c) <= FamilyPlan.pool
           /\ FamilyPlan.pool + Len(sessions) * Larger(1, Exclusive(FamilyPlan, c))
                <= Capacity(FamilyPlan)
<1> DEFINE n == Len(sessions)
           counts == [k \in DOMAIN sessions |-> sessions[k].count]
           e == Larger(1, Exclusive(FamilyPlan, c))
<1>1. n \in Nat \ {0} /\ DOMAIN sessions = 1 .. n
  BY DEF ExpansionTypeOK
<1>2. \A k \in 1 .. n : counts[k] = c
  BY <1>1
<1>3. DOMAIN counts = 1 .. n
  BY <1>1
<1>4. e \in Nat
  BY SplitType, InventoryAssumption DEF Larger
<1>5. CheckCapacity(FamilyPlan, counts)
  OBVIOUS
<1> HIDE DEF counts, n
<1>6. \A k \in 1 .. n : Larger(1, Exclusive(FamilyPlan, counts[k])) = e
  BY <1>2
<1> HIDE DEF e
<1>7. FamilyPlan.pool + n * e <= Capacity(FamilyPlan)
  BY <1>1, <1>3, <1>4, <1>5, <1>6, UniformSum
<1>8. Contested(FamilyPlan, c) <= FamilyPlan.pool
  <2>1. 1 \in 1 .. n
    BY <1>1
  <2>2. Contested(FamilyPlan, counts[1]) <= FamilyPlan.pool
    BY <1>3, <1>5, <2>1 DEF CheckCapacity
  <2> QED
    BY <1>2, <2>1, <2>2
<1> QED
  BY <1>7, <1>8 DEF n, e

(* What UniformIsExact says of one session and the ones before it. *)
LEMMA SessionExact ==
    ASSUME ExpansionInv, verdict = "accepted",
           \A a, b \in DOMAIN sessions : sessions[a].count = sessions[b].count,
           NEW a \in DOMAIN sessions
    PROVE  /\ Cardinality(SessionPrefixes(FamilyPlan, sessions[a].slot, sessions[a].count, 0))
                = sessions[a].count
           /\ ExclusiveOf(sessions[a]) \cap Pool = {}
           /\ \A b \in 1 .. a - 1 : ExclusiveOf(sessions[a]) \cap ExclusiveOf(sessions[b]) = {}
<1> DEFINE n == Len(sessions)
           c == sessions[a].count
           e == Exclusive(FamilyPlan, c)
<1>1. ExpansionTypeOK /\ CursorInv /\ AcceptInv /\ IsPlan(FamilyPlan)
  BY InventoryAssumption DEF ExpansionInv
<1>2. n \in Nat /\ DOMAIN sessions = 1 .. n /\ sessions # << >>
  BY <1>1 DEF ExpansionTypeOK
<1>3. c \in Nat
  <2>1. sessions[a] \in Sessions
    BY <1>1 DEF ExpansionTypeOK
  <2> QED
    BY <2>1 DEF Sessions
<1>4. \A k \in DOMAIN sessions : sessions[k].count = c /\ sessions[k].slot = k - 1
  BY <1>1 DEF CursorInv
<1> HIDE DEF c
<1>5. /\ Contested(FamilyPlan, c) <= FamilyPlan.pool
      /\ FamilyPlan.pool + n * Larger(1, e) <= Capacity(FamilyPlan)
  BY <1>1, <1>2, <1>3, <1>4, AcceptedFits DEF AcceptInv
<1>6. /\ e \in Int /\ Length(FamilyPlan, c) \in Int
      /\ FamilyPlan.pool \in Nat /\ Capacity(FamilyPlan) \in Nat
  BY <1>1, <1>3, SplitType, CapacityPositive DEF IsPlan
<1>7. ASSUME NEW k \in DOMAIN sessions
      PROVE  /\ sessions[k].slot \in 0 .. n - 1
             /\ \A x \in ExclusiveOf(sessions[k]) : \E j \in 0 .. e - 1 :
                   x = Prefix(FamilyPlan, k - 1, c, 0, j)
  <2>1. sessions[k].slot \in 0 .. n - 1
    BY <1>2, <1>4
  <2>2. ExclusiveOf(sessions[k]) =
          {Prefix(FamilyPlan, k - 1, c, 0, j) : j \in 0 .. Smaller(e, Length(FamilyPlan, c)) - 1}
    BY <1>4 DEF ExclusiveOf, FirstPrefixes
  <2>3. 0 .. Smaller(e, Length(FamilyPlan, c)) - 1 \subseteq 0 .. e - 1
    BY <1>6 DEF Smaller
  <2> QED
    BY <2>1, <2>2, <2>3
<1>8. ASSUME NEW k \in DOMAIN sessions, NEW j \in 0 .. e - 1
      PROVE  Base(FamilyPlan, k - 1, c, 0) + j \in FamilyPlan.pool .. Capacity(FamilyPlan) - 1
  BY <1>1, <1>2, <1>3, <1>5, k - 1 \in 0 .. n - 1, BaseInSpace
<1>9. Cardinality(SessionPrefixes(FamilyPlan, sessions[a].slot, sessions[a].count, 0)) = c
  BY <1>1, <1>2, <1>3, <1>4, <1>5, <1>7, ExactCount
<1>10. ExclusiveOf(sessions[a]) \cap Pool = {}
  <2> SUFFICES ASSUME NEW x \in ExclusiveOf(sessions[a]), x \in Pool PROVE FALSE
    OBVIOUS
  <2>1. PICK j \in 0 .. e - 1 : x = Prefix(FamilyPlan, a - 1, c, 0, j)
    BY <1>7
  <2>2. PICK k \in 0 .. FamilyPlan.pool - 1 : x = At(FamilyPlan, k)
    BY DEF Pool
  <2>3. Base(FamilyPlan, a - 1, c, 0) + j < Capacity(FamilyPlan)
    BY <1>6, <1>8
  <2>4. a - 1 \in Nat
    BY <1>2
  <2>5. Prefix(FamilyPlan, a - 1, c, 0, j) # At(FamilyPlan, k)
    BY <1>1, <1>3, <2>3, <2>4, 0 \in Nat, ExclusiveAboveThePool
  <2> QED
    BY <2>1, <2>2, <2>5
<1>11. ASSUME NEW b \in 1 .. a - 1
       PROVE  ExclusiveOf(sessions[a]) \cap ExclusiveOf(sessions[b]) = {}
  <2> SUFFICES ASSUME NEW x \in ExclusiveOf(sessions[a]), x \in ExclusiveOf(sessions[b])
               PROVE  FALSE
    OBVIOUS
  <2>1. b \in DOMAIN sessions /\ b - 1 \in Nat /\ a - 1 \in Nat /\ b - 1 < a - 1
    BY <1>2
  <2>2. PICK j \in 0 .. e - 1 : x = Prefix(FamilyPlan, a - 1, c, 0, j)
    BY <1>7
  <2>3. PICK k \in 0 .. e - 1 : x = Prefix(FamilyPlan, b - 1, c, 0, k)
    BY <1>7, <2>1
  <2>4. (Base(FamilyPlan, a - 1, c, 0) + j) - (Base(FamilyPlan, b - 1, c, 0) + k)
          < Capacity(FamilyPlan)
    <3>1. /\ Base(FamilyPlan, a - 1, c, 0) + j \in FamilyPlan.pool .. Capacity(FamilyPlan) - 1
          /\ Base(FamilyPlan, b - 1, c, 0) + k \in FamilyPlan.pool .. Capacity(FamilyPlan) - 1
      BY <1>8, <2>1
    <3> QED
      BY <1>6, <3>1
  <2>5. Prefix(FamilyPlan, b - 1, c, 0, k) # Prefix(FamilyPlan, a - 1, c, 0, j)
    BY <1>1, <1>3, <1>6, <2>1, <2>4, SlicesDisjoint
  <2> QED
    BY <2>2, <2>3, <2>5
<1> QED
  BY <1>9, <1>10, <1>11 DEF c

(* A profile that check_capacity accepts and whose sessions are of one size
   has what it declares: as many prefixes as it says, and exclusive ones. *)
THEOREM UniformProfileExact == ExpansionSpec => []UniformIsExact
<1>1. ExpansionInv => UniformIsExact
  BY SessionExact DEF UniformIsExact
<1> QED
  BY InventoryInductive, <1>1, PTL

----------------------------------------------------------------------------
(***************************************************************************)
(* Churn.                                                                  *)
(***************************************************************************)

(***************************************************************************)
(* Facts about the windows.                                                *)
(***************************************************************************)

LEMMA NamedType ==
    ASSUME NEW afi \in Afis, NEW f \in 1 .. Per
    PROVE  Named(afi, f) \in Nat
<1>1. Count[afi] \in Nat /\ f \in Nat /\ Per \in Nat \ {0}
  BY ChurnAssumption
<1>2. Count[afi] * f \in Nat
  BY <1>1, SMT
<1>3. (Count[afi] * f) \div Per \in Nat
  BY <1>1, <1>2, Quotient
<1> QED
  BY <1>3 DEF Named, Larger

LEMMA WalkStepType ==
    ASSUME NEW f \in 1 .. Per
    PROVE  WalkStep(f) \in Nat \ {0}
  BY NamedType DEF WalkStep, Larger, Afis

LEMMA WindowType ==
    /\ \A off \in Nat, f \in 1 .. Per : Window(off, f) \subseteq Prefixes
    /\ Own \subseteq Prefixes
<1>1. ASSUME NEW afi \in Afis, NEW off \in Nat, NEW n \in Int
      PROVE  FirstPrefixes(Plan[afi], Slot, Count[afi], off, n) \subseteq Nat \X Nat
  <2>1. IsPlan(Plan[afi]) /\ Slot \in Nat /\ Count[afi] \in Nat
    BY ChurnAssumption
  <2>2. Length(Plan[afi], Count[afi]) \in Int
    BY <2>1, SplitType
  <2>3. \A i \in 0 .. Smaller(n, Length(Plan[afi], Count[afi])) - 1 :
           i \in 0 .. Length(Plan[afi], Count[afi]) - 1
    BY <2>2 DEF Smaller
  <2> QED
    BY <2>1, <2>3, PrefixType DEF FirstPrefixes
<1>2. \A off \in Nat, f \in 1 .. Per : Window(off, f) \subseteq Prefixes
  BY <1>1, NamedType DEF Window, Prefixes
<1>3. \A afi \in Afis : Length(Plan[afi], Count[afi]) \in Int
  BY ChurnAssumption, SplitType
<1>4. Own \subseteq Prefixes
  BY <1>1, <1>3 DEF Own, SessionPrefixes, Prefixes
<1> QED
  BY <1>2, <1>4

(* The first window is a part of the session's own table. *)
LEMMA FirstWindowIsOwn ==
    ASSUME NEW f \in Fractions
    PROVE  Window(0, f) \subseteq Own
<1>1. f \in 1 .. Per
  BY ChurnAssumption
<1>2. ASSUME NEW afi \in Afis
      PROVE  FirstPrefixes(Plan[afi], Slot, Count[afi], 0, Named(afi, f))
                \subseteq SessionPrefixes(Plan[afi], Slot, Count[afi], 0)
  <2>1. Length(Plan[afi], Count[afi]) \in Int /\ Named(afi, f) \in Int
    BY <1>1, ChurnAssumption, SplitType, NamedType
  <2> QED
    BY <2>1 DEF FirstPrefixes, SessionPrefixes, Smaller
<1> QED
  BY <1>2 DEF Window, Own

(* Two windows one step apart have nothing in common. *)
LEMMA WindowsApart ==
    ASSUME NEW off \in Nat, NEW f \in Fractions
    PROVE  Window(off, f) \cap Window(off + WalkStep(f), f) = {}
<1> DEFINE step == WalkStep(f)
<1>1. f \in 1 .. Per /\ step \in Nat \ {0}
  BY ChurnAssumption, WalkStepType
<1>2. ASSUME NEW afi \in Afis
      PROVE  FirstPrefixes(Plan[afi], Slot, Count[afi], off, Named(afi, f))
                \cap FirstPrefixes(Plan[afi], Slot, Count[afi], off + step, Named(afi, f)) = {}
  <2> DEFINE p == Plan[afi]
             c == Count[afi]
             n == Named(afi, f)
             e == Exclusive(p, c)
  <2>1. IsPlan(p) /\ c \in Nat /\ Slot \in Nat /\ n \in Nat
    BY <1>1, ChurnAssumption, NamedType
  <2>2. n <= e /\ n <= step /\ 2 * step <= Capacity(p)
    BY ChurnAssumption DEF WindowsFit
  <2>3. e \in Int /\ Length(p, c) \in Int /\ e <= Length(p, c) /\ Capacity(p) \in Int
    <3> HIDE DEF p, c
    <3>1. e \in Int /\ Length(p, c) \in Int /\ Width(p, c) \in Nat
      BY <2>1, SplitType DEF e
    <3>2. Capacity(p) \in Int
      BY <2>1, CapacityPositive
    <3> QED
      BY <3>1, <3>2 DEF Length, e
  <2>4. Base(p, Slot, c, off) \in Int /\ Base(p, Slot, c, off + step) = Base(p, Slot, c, off) + step
    <3>1. p.pool \in Nat /\ Larger(e, 1) \in Int
      BY <2>1, <2>3 DEF IsPlan, Larger
    <3> DEFINE k == Slot * Larger(e, 1)
    <3>2. k \in Int
      BY <2>1, <3>1, SMT
    <3>3. /\ Base(p, Slot, c, off) = p.pool + k + off
          /\ Base(p, Slot, c, off + step) = p.pool + k + (off + step)
      BY DEF Base
    <3> HIDE DEF k, step
    <3> QED
      BY <1>1, <3>1, <3>2, <3>3
  <2> HIDE DEF p, c, n, e, step
  <2>5. SUFFICES ASSUME NEW i \in 0 .. n - 1, NEW j \in 0 .. n - 1
                 PROVE  Prefix(p, Slot, c, off, i) # Prefix(p, Slot, c, off + step, j)
    BY <1>1, <2>1, <2>2, <2>3 DEF FirstPrefixes, Smaller, p, c, n
  <2>6. /\ Prefix(p, Slot, c, off, i) = At(p, Base(p, Slot, c, off) + i)
        /\ Prefix(p, Slot, c, off + step, j) = At(p, Base(p, Slot, c, off) + step + j)
    BY <1>1, <2>1, <2>2, <2>3, <2>4 DEF Prefix, e
  <2>7. /\ Base(p, Slot, c, off) + i < Base(p, Slot, c, off) + step + j
        /\ (Base(p, Slot, c, off) + step + j) - (Base(p, Slot, c, off) + i) < Capacity(p)
    BY <1>1, <2>1, <2>2, <2>3, <2>4
  <2> QED
    BY <1>1, <2>1, <2>4, <2>6, <2>7, AtOneToOne
<1> QED
  BY <1>2 DEF Window, Afis

(***************************************************************************)
(* The invariant.                                                          *)
(***************************************************************************)

LEMMA InitOK == Init => IInv
<1> SUFFICES ASSUME Init PROVE IInv
  OBVIOUS
<1>1. TypeOK
  <2>1. mrt \cup api \subseteq Prefixes
    BY WindowType DEF Init
  <2>2. engine \in {"gobgp", "exabgp"} /\ matches \in BOOLEAN
    BY ChurnAssumption DEF Init
  <2>3. 1 \in 1 .. Per /\ 0 \in 0 .. MaxEvents /\ 0 \in 0 .. MaxTroubles
    BY ChurnAssumption
  <2> QED
    BY <2>1, <2>2, <2>3 DEF Init, TypeOK, Commands
<1>2. StageInv /\ TableInv /\ CleanInv /\ SteadyInv /\ WalkInv /\ HeldInv /\ DriftInv
  BY DEF Init, StageInv, TableInv, CleanInv, SteadyInv, WalkInv, HeldInv, DriftInv, Table
<1> QED
  BY <1>1, <1>2 DEF IInv

(* A command names prefixes of the plan only. *)
LEMMA DoesType ==
    ASSUME TypeOK, NEW cmd, NEW off \in Nat, NEW f \in 1 .. Per, Does(cmd, off, f)
    PROVE  /\ up' \in BOOLEAN
           /\ mrt' \cup api' \subseteq Prefixes
<1>1. off + WalkStep(f) \in Nat
  BY WalkStepType
<1>2. Window(off, f) \subseteq Prefixes /\ Window(off + WalkStep(f), f) \subseteq Prefixes
      /\ Own \subseteq Prefixes
  BY <1>1, WindowType
<1> QED
  BY <1>2 DEF TypeOK, Does, Delete, Announce, InjectMrt, Kill, StartGobgpd

(* Where a call leaves the event. *)
LEMMA LeavesCall ==
    ASSUME NEW cmd \in Commands
    PROVE  /\ AfterCall(cmd) \in Commands \cup {"idle"}
           /\ After(cmd) \in Commands \cup {"idle"}
  BY DEF AfterCall, AfterDelete, After, Commands

LEMMA OffsetType ==
    ASSUME TypeOK, NEW next, Advance(next)
    PROVE  offset' \in Nat
<1>1. WalkStep(fraction) \in Nat /\ offset \in Nat
  BY WalkStepType DEF TypeOK
<1> DEFINE n == offset + WalkStep(fraction)
<1>2. n \in Nat
  BY <1>1
<1>3. offset' = n \/ offset' = offset
  BY DEF Advance
<1> QED
  BY <1>1, <1>2, <1>3

LEMMA TypeStep == TypeOK /\ StageInv /\ [Next]_vars => TypeOK'
<1> SUFFICES ASSUME TypeOK, StageInv, [Next]_vars PROVE TypeOK'
  OBVIOUS
<1> USE ChurnAssumption
<1>1. CASE StartEvent
  <2>1. PICK m \in Modes, f \in Fractions :
           /\ mode' = m /\ fraction' = f /\ pc' = First(m)
           /\ IF m \in Churns
              THEN /\ walked' = (walked \/ offset # 0 \/ First(m) = "fresh")
                   /\ used' = used \cup {f}
              ELSE UNCHANGED <<walked, used>>
    BY <1>1 DEF StartEvent
  <2>2. mode' \in Churns \cup Restarts \cup {"none"} /\ fraction' \in 1 .. Per
    BY <2>1
  <2>3. pc' \in Commands \cup {"idle"}
    BY <2>1 DEF First, Commands
  <2>4. used' \subseteq Fractions /\ walked' \in BOOLEAN
    BY <2>1, Zenon DEF TypeOK
  <2>5. events' \in 0 .. MaxEvents
    BY <1>1 DEF StartEvent, TypeOK
  <2> QED
    BY <1>1, <2>2, <2>3, <2>4, <2>5 DEF StartEvent, TypeOK, generator
<1>2. CASE Works
  <2>1. up' \in BOOLEAN /\ mrt' \cup api' \subseteq Prefixes
    BY <1>2, DoesType DEF Works, TypeOK
  <2>2. pc' \in Commands \cup {"idle"} /\ offset' \in Nat
    BY <1>2, LeavesCall, OffsetType DEF Works
  <2>3. dirty' \in BOOLEAN /\ walked' \in BOOLEAN /\ used' \subseteq Fractions
        /\ held' \in Fractions \cup {0}
    BY <1>2 DEF Works, TypeOK, StageInv
  <2> QED
    BY <1>2, <2>1, <2>2, <2>3 DEF Works, TypeOK, event
<1>3. CASE Fails
  <2>1. pc' \in Commands \cup {"idle"} /\ offset' \in Nat
    BY <1>3, LeavesCall, OffsetType DEF Fails, Commands
  <2> QED
    BY <1>3, <2>1 DEF Fails, TypeOK, event, generator, history
<1>4. CASE TimesOut
  <2>1. pc' \in Commands \cup {"idle"} /\ offset' \in Nat
    BY <1>4, LeavesCall, OffsetType DEF TimesOut, Commands
  <2> QED
    BY <1>4, <2>1 DEF TimesOut, TypeOK, event, generator, history
<1>5. CASE RunsLate
  <2>1. PICK l \in late :
           /\ Does(l.cmd, l.off, l.f)
           /\ late' = IF l.cmd = "fresh"
                      THEN (late \ {l}) \cup {[l EXCEPT !.cmd = "del"]}
                      ELSE late \ {l}
    BY <1>5 DEF RunsLate
  <2>2. up' \in BOOLEAN /\ mrt' \cup api' \subseteq Prefixes
    BY <2>1, DoesType DEF TypeOK
  <2>3. late' \subseteq [cmd : Commands, off : Nat, f : 1 .. Per, nr : Nat]
    BY <2>1 DEF TypeOK, Commands
  <2> QED
    BY <1>5, <2>2, <2>3 DEF RunsLate, TypeOK, event, history
<1>6. CASE UNCHANGED vars
  BY <1>6 DEF TypeOK, vars, generator, event, history
<1> QED
  BY <1>1, <1>2, <1>3, <1>4, <1>5, <1>6 DEF Next

LEMMA StageStep == TypeOK /\ StageInv /\ [Next]_vars => StageInv'
<1> SUFFICES ASSUME TypeOK, StageInv, [Next]_vars PROVE StageInv'
  OBVIOUS
<1>1. CASE StartEvent
  <2>1. PICK m \in Modes, f \in Fractions :
           /\ m \in Restarts => engine = "gobgp"
           /\ mode' = m /\ fraction' = f /\ pc' = First(m)
           /\ IF m \in Churns
              THEN /\ walked' = (walked \/ offset # 0 \/ First(m) = "fresh")
                   /\ used' = used \cup {f}
              ELSE UNCHANGED <<walked, used>>
    BY <1>1 DEF StartEvent
  <2>2. m \in Churns \cup Restarts /\ engine' = engine
    BY <1>1, ChurnAssumption DEF StartEvent
  <2> QED
    BY <2>1, <2>2 DEF StageInv, First, Churns, Restarts, Walking
<1>2. CASE Works
  <2>1. /\ mode' = mode /\ fraction' = fraction /\ engine' = engine
        /\ pc' = After(pc)
        /\ used' = used \/ pc = "start"
    BY <1>2 DEF Works, event
  <2>2. Walking' = Walking /\ pc \in Commands
    BY <1>2, <2>1 DEF Walking, Works
  <2>3. CASE pc = "fresh"
    BY <2>1, <2>2, <2>3 DEF StageInv, After, Walking, Churns
  <2>4. CASE pc = "del"
    BY <2>1, <2>2, <2>4 DEF StageInv, After, AfterCall, AfterDelete, Walking
  <2>5. CASE pc \in {"readd", "load", "again", "kill", "start"}
    BY <2>1, <2>2, <2>5 DEF StageInv, After, AfterCall, AfterDelete, Restarts
  <2> QED
    BY <2>2, <2>3, <2>4, <2>5 DEF Commands
<1>3. CASE Fails \/ TimesOut
  <2>1. /\ mode' = mode /\ fraction' = fraction /\ engine' = engine /\ used' = used
        /\ pc \in Commands
        /\ pc' = AfterCall(IF pc = "fresh" THEN "del" ELSE pc)
    BY <1>3 DEF Fails, TimesOut, event, history
  <2>2. Walking' = Walking
    BY <2>1 DEF Walking
  <2>3. CASE pc = "fresh"
    BY <2>1, <2>2, <2>3 DEF StageInv, AfterCall, AfterDelete
  <2>4. CASE pc = "del"
    BY <2>1, <2>2, <2>4 DEF StageInv, AfterCall, AfterDelete, Walking
  <2>5. CASE pc \in {"readd", "load", "again", "kill", "start"}
    BY <2>1, <2>2, <2>5 DEF StageInv, AfterCall, AfterDelete, Restarts
  <2> QED
    BY <2>1, <2>3, <2>4, <2>5 DEF Commands
<1>4. CASE RunsLate \/ UNCHANGED vars
  BY <1>4 DEF RunsLate, vars, event, history, StageInv, Walking
<1> QED
  BY <1>1, <1>2, <1>3, <1>4 DEF Next

LEMMA TableStep == TypeOK /\ TableInv /\ [Next]_vars => TableInv'
<1> SUFFICES ASSUME TypeOK, TableInv, [Next]_vars PROVE TableInv'
  OBVIOUS
<1>1. ASSUME NEW cmd, NEW off, NEW f, Does(cmd, off, f)
      PROVE  TableInv'
  BY <1>1 DEF TableInv, Table, Does, Delete, Announce, InjectMrt, Kill, StartGobgpd
<1>2. CASE UNCHANGED generator
  BY <1>2 DEF TableInv, Table, generator
<1>3. CASE Works
  BY <1>1, <1>3 DEF Works
<1>4. CASE RunsLate
  BY <1>1, <1>4 DEF RunsLate
<1> QED
  BY <1>2, <1>3, <1>4 DEF Next, StartEvent, Fails, TimesOut, vars

LEMMA CleanStep == TypeOK /\ StageInv /\ CleanInv /\ [Next]_vars => CleanInv'
<1> SUFFICES ASSUME TypeOK, StageInv, CleanInv, [Next]_vars PROVE CleanInv'
  OBVIOUS
<1>1. CASE StartEvent
  BY <1>1 DEF StartEvent, First, CleanInv, Between, generator
<1>2. CASE Works
  <2>1. pc' = After(pc) /\ late' = late /\ mode' = mode /\ engine' = engine
    BY <1>2 DEF Works, event
  <2>2. CASE pc = "start"
    BY <1>2, <2>1, <2>2 DEF Works, After, AfterCall, AfterDelete, CleanInv, Does, StartGobgpd
  <2>3. CASE pc = "kill"
    BY <1>2, <2>1, <2>3 DEF Works, After, AfterCall, AfterDelete, CleanInv, Does, Kill
  <2>4. CASE pc \notin {"start", "kill"}
    <3>1. up' = up /\ dirty' = dirty
      BY <1>2, <2>4 DEF Works, Does, Delete, Announce, InjectMrt
    <3>2. pc' # "start"
      BY <2>1, <2>4 DEF After, AfterCall, AfterDelete
    <3> QED
      BY <2>1, <2>4, <3>1, <3>2 DEF CleanInv
  <2> QED
    BY <2>2, <2>3, <2>4
<1>3. CASE Fails \/ TimesOut
  BY <1>3 DEF Fails, TimesOut, CleanInv
<1>4. CASE RunsLate
  BY <1>4 DEF RunsLate, CleanInv
<1>5. CASE UNCHANGED vars
  BY <1>5 DEF vars, generator, CleanInv
<1> QED
  BY <1>1, <1>2, <1>3, <1>4, <1>5 DEF Next

(* What the invariants of a clean table say is disturbed by an event that
   starts, and by a call that works; a call that does not, and a shell that
   is left over, make the table dirty. *)
CleanParts == SteadyInv /\ WalkInv /\ HeldInv /\ DriftInv

LEMMA StartEventKeeps ==
    ASSUME TypeOK, StageInv, CleanParts, StartEvent
    PROVE  CleanParts'
<1>1. PICK m \in Modes, f \in Fractions :
         /\ mode' = m /\ fraction' = f /\ pc' = First(m)
         /\ IF m \in Churns
            THEN /\ walked' = (walked \/ offset # 0 \/ First(m) = "fresh")
                 /\ used' = used \cup {f}
            ELSE UNCHANGED <<walked, used>>
  BY DEF StartEvent
<1>2. /\ pc = "idle" /\ Table' = Table /\ offset' = offset /\ dirty' = dirty
      /\ held' = held /\ engine' = engine /\ api' = api
  BY DEF StartEvent, Between, generator, Table
<1>3. m \in Churns \cup Restarts
  BY ChurnAssumption
<1>4. /\ First(m) \in {"kill", "del", "fresh", "readd"}
      /\ First(m) \in {"del", "fresh", "readd"} => m \in Churns
      /\ First(m) = "kill" => m \in Restarts
      /\ First(m) = "fresh" <=> Walking'
      /\ First(m) = "del" => ~Walking'
  BY <1>1, <1>2, <1>3 DEF First, Walking, Churns, Restarts
<1>5. SteadyInv'
  <2>1. CASE m \in Churns
    BY <1>1, <1>2, <1>4, <2>1 DEF CleanParts, SteadyInv, TypeOK
  <2>2. CASE m \notin Churns
    BY <1>1, <1>2, <1>4, <2>2 DEF CleanParts, SteadyInv
  <2> QED
    BY <2>1, <2>2
<1>6. WalkInv'
  BY <1>1, <1>4 DEF WalkInv
<1>7. HeldInv'
  BY <1>1, <1>2, <1>4 DEF CleanParts, HeldInv
<1>8. DriftInv'
  <2> SUFFICES ASSUME NEW g \in Fractions, ~dirty', used' \subseteq {g}
               PROVE  Table' \subseteq Own \cup Window(offset', g)
    BY DEF DriftInv
  <2>1. used \subseteq {g}
    BY <1>1
  <2> QED
    BY <1>2, <2>1 DEF CleanParts, DriftInv
<1> QED
  BY <1>5, <1>6, <1>7, <1>8 DEF CleanParts

LEMMA WorksKeeps ==
    ASSUME TypeOK, StageInv, TableInv, CleanInv, CleanParts, Works
    PROVE  CleanParts'
<1>1. /\ mode' = mode /\ fraction' = fraction /\ engine' = engine /\ late' = late
      /\ pc' = After(pc) /\ Walking' = Walking
      /\ Does(pc, offset, fraction)
      /\ Advance(After(pc))
      /\ pc \in Commands
  BY DEF Works, event, Walking
<1>2. CASE pc = "start"
  <2>1. Table' = Table /\ api' = api /\ pc' = "load" /\ mode \in Restarts
    BY <1>1, <1>2 DEF Does, StartGobgpd, Table, After, AfterCall, StageInv
  <2>2. CASE ~up /\ late = {}
    <3>1. Table' = {} /\ ~walked' /\ held' = 0
      BY <1>2, <2>1, <2>2 DEF Works, TableInv
    <3> QED
      BY <1>1, <2>1, <3>1 DEF CleanParts, SteadyInv, WalkInv, HeldInv, DriftInv, Churns, Restarts
  <2>3. CASE ~(~up /\ late = {})
    <3>1. dirty' = dirty /\ dirty
      BY <1>2, <2>3 DEF Works, CleanInv
    <3> QED
      BY <3>1 DEF CleanParts, SteadyInv, WalkInv, HeldInv, DriftInv
  <2> QED
    BY <2>2, <2>3
<1>3. CASE pc # "start"
  <2>1. /\ dirty' = dirty /\ walked' = walked /\ used' = used
        /\ held' = IF pc = "del" /\ Walking THEN fraction
                   ELSE IF pc = "load" THEN 0 ELSE held
    BY <1>3 DEF Works
  <2>2. CASE dirty
    BY <2>1, <2>2 DEF CleanParts, SteadyInv, WalkInv, HeldInv, DriftInv
  <2>3. CASE ~dirty /\ pc = "fresh"
    <3> DEFINE next == Window(offset + WalkStep(fraction), fraction)
    <3>1. Walking /\ pc' = "del" /\ offset' = offset /\ up
      BY <1>1, <2>3 DEF StageInv, After, Advance, CleanInv
    <3>2. api' = api \cup next /\ Table' = Table \cup next
      BY <1>1, <2>3, <3>1 DEF Does, Announce, Table
    <3>3. SteadyInv'
      BY <2>1, <2>3 DEF CleanParts, SteadyInv
    <3>4. WalkInv'
      BY <1>1, <3>1, <3>2 DEF WalkInv
    <3>5. HeldInv'
      BY <1>1, <3>1 DEF HeldInv
    <3>6. DriftInv'
      <4> SUFFICES ASSUME NEW g \in Fractions, used \subseteq {g}
                   PROVE  Table' \subseteq Own \cup Window(offset, g)
                                     \cup Window(offset + WalkStep(fraction), g)
        BY <1>1, <2>1, <3>1 DEF DriftInv
      <4>1. fraction = g
        BY <2>3 DEF StageInv
      <4> QED
        BY <2>3, <3>2, <4>1 DEF CleanParts, DriftInv
    <3> QED
      BY <3>3, <3>4, <3>5, <3>6 DEF CleanParts
  <2>4. CASE ~dirty /\ pc = "del" /\ Walking
    <3> DEFINE next == Window(offset + WalkStep(fraction), fraction)
    <3>1. pc' = "idle" /\ offset' = offset + WalkStep(fraction) /\ up /\ held' = fraction
      BY <1>1, <2>1, <2>4 DEF After, AfterCall, AfterDelete, Advance, CleanInv
    <3>2. /\ api' = api \ Window(offset, fraction)
          /\ mrt' \subseteq mrt
      BY <1>1, <2>4, <3>1 DEF Does, Delete
    <3>3. next \subseteq api /\ fraction \in Fractions /\ offset \in Nat
      BY <2>4 DEF CleanParts, WalkInv, StageInv, TypeOK
    <3>4. next \subseteq api'
      BY <3>2, <3>3, WindowsApart
    <3>5. SteadyInv'
      BY <2>1, <2>4 DEF CleanParts, SteadyInv
    <3>6. WalkInv'
      BY <3>1 DEF WalkInv
    <3>7. HeldInv'
      BY <3>1, <3>4 DEF HeldInv, Table
    <3>8. DriftInv'
      <4> SUFFICES ASSUME NEW g \in Fractions, used \subseteq {g}
                   PROVE  Table' \subseteq Own \cup Window(offset + WalkStep(fraction), g)
        BY <1>1, <2>1, <3>1 DEF DriftInv
      <4>1. fraction = g
        BY <2>4 DEF StageInv
      <4>2. Table \subseteq Own \cup Window(offset, g) \cup Window(offset + WalkStep(fraction), g)
        BY <2>4 DEF CleanParts, DriftInv
      <4> QED
        BY <3>2, <4>1, <4>2 DEF Table, TableInv
    <3> QED
      BY <3>5, <3>6, <3>7, <3>8 DEF CleanParts
  <2>5. CASE ~dirty /\ pc = "del" /\ ~Walking
    <3>1. pc' \in {"load", "readd"} /\ offset' = offset /\ up /\ held' = held
      BY <1>1, <2>1, <2>5 DEF After, AfterCall, AfterDelete, Advance, CleanInv
    <3>2. Table' \subseteq Table /\ Table \subseteq Table' \cup Window(offset, fraction)
      BY <1>1, <2>5, <3>1 DEF Does, Delete, Table
    <3>3. SteadyInv'
      BY <1>1, <2>1, <2>5, <3>1, <3>2 DEF CleanParts, SteadyInv
    <3>4. WalkInv' /\ HeldInv'
      BY <1>1, <2>1, <2>5, <3>1, <3>2 DEF CleanParts, WalkInv, HeldInv
    <3>5. DriftInv'
      BY <1>1, <2>1, <2>5, <3>1, <3>2 DEF CleanParts, DriftInv
    <3> QED
      BY <3>3, <3>4, <3>5 DEF CleanParts
  <2>6. CASE ~dirty /\ pc = "readd"
    <3>1. pc' = "idle" /\ offset' = offset /\ up /\ held' = held /\ ~Walking /\ fraction \in used
      BY <1>1, <2>1, <2>6 DEF After, AfterCall, Advance, CleanInv, StageInv
    <3>2. Table' = Table \cup Window(offset, fraction)
      BY <1>1, <2>6, <3>1 DEF Does, Announce, Table
    <3>3. SteadyInv'
      <4> SUFFICES ASSUME ~walked
                   PROVE  Table' \subseteq Own /\ Own \subseteq Table'
        BY <1>1, <2>1, <3>1 DEF SteadyInv
      <4>1. offset = 0 /\ Table \subseteq Own /\ Own \subseteq Table \cup Window(offset, fraction)
        BY <2>6 DEF CleanParts, SteadyInv
      <4>2. Window(0, fraction) \subseteq Own
        BY <2>6, FirstWindowIsOwn DEF StageInv
      <4> QED
        BY <3>2, <4>1, <4>2
    <3>4. WalkInv' /\ HeldInv'
      BY <2>1, <2>6, <3>1, <3>2 DEF CleanParts, WalkInv, HeldInv
    <3>5. DriftInv'
      <4> SUFFICES ASSUME NEW g \in Fractions, used \subseteq {g}
                   PROVE  Table' \subseteq Own \cup Window(offset, g)
        BY <2>1, <3>1 DEF DriftInv
      <4> QED
        BY <2>6, <3>1, <3>2 DEF CleanParts, DriftInv
    <3> QED
      BY <3>3, <3>4, <3>5 DEF CleanParts
  <2>7. CASE ~dirty /\ pc \in {"load", "again"}
    <3>1. pc' \in {"idle", "again"} /\ offset' = offset /\ up /\ ~Walking
      BY <1>1, <2>7 DEF After, AfterCall, Advance, CleanInv, StageInv, Walking, Restarts
    <3>2. Table' = Table \cup Own
      BY <1>1, <2>7, <3>1 DEF Does, InjectMrt, Table
    <3>3. SteadyInv'
      BY <2>1, <2>7, <3>1, <3>2 DEF CleanParts, SteadyInv
    <3>4. WalkInv'
      BY <3>1 DEF WalkInv
    <3>5. HeldInv'
      BY <2>1, <2>7, <3>1, <3>2 DEF CleanParts, HeldInv
    <3>6. DriftInv'
      BY <2>1, <2>7, <3>1, <3>2 DEF CleanParts, DriftInv
    <3> QED
      BY <3>3, <3>4, <3>5, <3>6 DEF CleanParts
  <2>8. CASE ~dirty /\ pc = "kill"
    <3>1. pc' = "start" /\ offset' = offset /\ Table' = {}
      BY <1>1, <2>8 DEF After, AfterCall, Advance, Does, Kill, Table
    <3> QED
      BY <3>1 DEF CleanParts, SteadyInv, WalkInv, HeldInv, DriftInv
  <2> QED
    BY <1>1, <1>3, <2>2, <2>3, <2>4, <2>5, <2>6, <2>7, <2>8 DEF Commands
<1> QED
  BY <1>2, <1>3

LEMMA CleanPartsStep ==
    TypeOK /\ StageInv /\ TableInv /\ CleanInv /\ CleanParts /\ [Next]_vars => CleanParts'
<1> SUFFICES ASSUME TypeOK, StageInv, TableInv, CleanInv, CleanParts, [Next]_vars
             PROVE  CleanParts'
  OBVIOUS
<1>1. ASSUME dirty' PROVE CleanParts'
  BY <1>1 DEF CleanParts, SteadyInv, WalkInv, HeldInv, DriftInv
<1>2. CASE Fails \/ TimesOut
  BY <1>1, <1>2 DEF Fails, TimesOut
<1>3. CASE RunsLate
  BY <1>1, <1>3 DEF RunsLate, CleanInv
<1>4. CASE UNCHANGED vars
  BY <1>4 DEF vars, generator, event, history, CleanParts, SteadyInv, WalkInv, HeldInv,
              DriftInv, Table, Walking
<1> QED
  BY <1>2, <1>3, <1>4, StartEventKeeps, WorksKeeps DEF Next

(* The conjunction of all parts is an invariant. *)
THEOREM Inductive == Spec => []IInv
<1>1. IInv /\ [Next]_vars => IInv'
  BY TypeStep, StageStep, TableStep, CleanStep, CleanPartsStep DEF IInv, CleanParts
<1> QED
  BY InitOK, <1>1, PTL DEF Spec

(* Every reachable state of a churned session is well typed. *)
THEOREM TypeCorrect == Spec => []TypeOK
<1>1. IInv => TypeOK
  BY DEF IInv
<1> QED
  BY Inductive, <1>1, PTL

(* Whatever was walked, failed or given up before: a table that was loaded
   into a fresh process and never walked since is the profile's. *)
THEOREM TableIsTheProfiles == Spec => []Steady
<1>1. IInv => Steady
  BY DEF IInv, SteadyInv, Steady, Between
<1> QED
  BY Inductive, <1>1, PTL

(* The window of the last walk stays announced, for every plan in which the
   windows fit: a walk never deletes what it has just added. *)
THEOREM WalkKeepsItsWindow == Spec => []WalkedWindowAnnounced
<1>1. IInv => WalkedWindowAnnounced
  BY DEF IInv, HeldInv, WalkedWindowAnnounced, Between
<1> QED
  BY Inductive, <1>1, PTL

(* Nothing but the current window is announced beyond the profile. *)
THEOREM WalkTakesBack == Spec => []DriftIsTheWindow
<1>1. IInv => DriftIsTheWindow
  BY DEF IInv, DriftInv, DriftIsTheWindow, Between
<1> QED
  BY Inductive, <1>1, PTL

=============================================================================
