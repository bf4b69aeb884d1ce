---------------------------- MODULE PrefixPlan ----------------------------
(***************************************************************************)
(* The prefix allocator of harness/routegen.py as pure operators.  A plan  *)
(* is the dataclass PrefixPlan for one address family:                     *)
(*                                                                         *)
(*   blocks   the /8s the prefixes are carved from, in the profile's order *)
(*            (one block for IPv6, v6_base)                                *)
(*   per      prefixes in a block                                          *)
(*   pool     contested_pool_v4 or _v6                                     *)
(*   num/den  contested_fraction                                           *)
(*                                                                         *)
(* A prefix is <<block, position in the block>>: the address and its text  *)
(* are a one-to-one image of that pair.  session_v4 and session_v6 differ  *)
(* in the plan only.                                                       *)
(***************************************************************************)
EXTENDS Integers, Sequences, FiniteSetsExt

(* A plan that expand_octets and PrefixPlan.__post_init__ accept: no block
   twice, at least one prefix in each, a fraction between 0 and 1. *)
IsPlan(p) ==
    /\ p.blocks \in Seq(Nat)
    /\ p.blocks # << >>
    /\ \A a, b \in DOMAIN p.blocks : p.blocks[a] = p.blocks[b] => a = b
    /\ p.per \in Nat \ {0}
    /\ p.pool \in Nat
    /\ p.num \in Nat
    /\ p.den \in Nat \ {0}
    /\ p.num <= p.den

Smaller(a, b) == IF a < b THEN a ELSE b

Larger(a, b) == IF a > b THEN a ELSE b

Capacity(p) == Len(p.blocks) * p.per

(* v4_at, v6_at: an index beyond the capacity wraps around. *)
At(p, index) ==
    LET i == index % Capacity(p)
    IN  <<p.blocks[(i \div p.per) + 1], i % p.per>>

(* _split: how much of a session's table is drawn from the contested pool. *)
Contested(p, count) == (count * p.num) \div p.den

Exclusive(p, count) == count - Contested(p, count)

(* _contested_indices: a window of the pool, of Width indices, whose start
   moves by a quarter of its width from slot to slot. *)
Width(p, count) == Smaller(Contested(p, count), p.pool)

ContestedIndex(p, slot, count, i) ==
    LET rotate == Larger(1, Width(p, count) \div 4)
    IN  (((slot * rotate) % p.pool) + i) % p.pool

(* Where the exclusive window of a session starts. *)
Base(p, slot, count, offset) ==
    p.pool + slot * Larger(Exclusive(p, count), 1) + offset

(* session_v4, session_v6: the i-th prefix of a session, of Length. *)
Length(p, count) == Exclusive(p, count) + Width(p, count)

Prefix(p, slot, count, offset, i) ==
    LET e == Exclusive(p, count)
    IN  IF i < e THEN At(p, Base(p, slot, count, offset) + i)
                 ELSE At(p, ContestedIndex(p, slot, count, i - e))

(* The first n prefixes of a session whose window is shifted by offset:
   islice of the generator, which ends by itself if n is too large. *)
FirstPrefixes(p, slot, count, offset, n) ==
    {Prefix(p, slot, count, offset, i) : i \in 0 .. Smaller(n, Length(p, count)) - 1}

SessionPrefixes(p, slot, count, offset) ==
    FirstPrefixes(p, slot, count, offset, Length(p, count))

(* Mutant of CheckCapacity: the contested pool is forgotten in the sum. *)
CheckExclusive(p, counts) ==
    /\ \A s \in DOMAIN counts : Contested(p, counts[s]) <= p.pool
    /\ MapThenSumSet(LAMBDA s : Larger(1, Exclusive(p, counts[s])), DOMAIN counts) <= Capacity(p)

(* check_capacity for one family; counts is the sequence of the sessions'
   prefixes_v4 or _v6.  It bounds the sum of the exclusive parts. *)
CheckCapacity(p, counts) ==
    /\ \A s \in DOMAIN counts : Contested(p, counts[s]) <= p.pool
    /\ p.pool + MapThenSumSet(LAMBDA s : Larger(1, Exclusive(p, counts[s])), DOMAIN counts)
         <= Capacity(p)

===========================================================================
