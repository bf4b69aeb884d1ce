----------------------------- MODULE Inventory -----------------------------
(***************************************************************************)
(* harness/model.py build_inventory: the fleets of a profile become BGP    *)
(* sessions, each with an address on its fabric, an ASN, a container, an   *)
(* API port and an NLRI slot; then check_capacity, and the lab is written. *)
(* The profile is the operator's, so Init takes every list of fleets.      *)
(***************************************************************************)
EXTENDS PrefixPlan, FiniteSets

CONSTANTS
    Fabrics,      \* the peering LANs
    Addresses,    \* v4_net.num_addresses of each
    HostBase,     \* peer_host_base of each
    Bogons,       \* BOGON_ASN_RANGES, a set of <<low, high>>
    DutAsn,
    FamilyPlan,   \* the prefix plan of one family
    Ids,          \* the names of fleets
    FleetChoices, \* the fleets a profile may declare
    MaxFleets     \* bounds a profile

IsBogon(asn) == \E r \in Bogons : r[1] <= asn /\ asn <= r[2]

(* next_safe_asn: past the range asn lies in, until it lies in none. *)
NextSafeAsn(asn) ==
    CHOOSE a \in {asn} \cup {r[2] + 1 : r \in Bogons} :
        /\ asn <= a /\ ~IsBogon(a)
        /\ \A b \in asn .. a - 1 : IsBogon(b)

ASSUME InventoryAssumption ==
    /\ Addresses \in [Fabrics -> Nat]
    /\ HostBase \in [Fabrics -> Nat]
    /\ \A r \in Bogons : r \in Nat \X Nat
    /\ Bogons # {} => \E last \in Bogons : \A r \in Bogons : r[2] <= last[2]
    /\ DutAsn \in Nat /\ ~IsBogon(DutAsn)     \* _validate_dut
    /\ IsPlan(FamilyPlan)
    /\ FleetChoices \subseteq [id : Ids, fabric : Fabrics, engine : {"gobgp", "exabgp"},
                               peers : Nat, per : Nat \ {0}, base : Nat, count : Nat]
    /\ MaxFleets \in Nat

VARIABLES
    fleets,    \* the profile
    fleet,     \* the one being expanded
    peer,      \* its next peer
    asn,       \* the next ASN
    cursor,    \* host_cursor
    owner,     \* the keys of asn_owner
    sessions,
    verdict    \* "open", "accepted" or "refused"

expansionVars == <<fleets, fleet, peer, asn, cursor, owner, sessions, verdict>>

F == fleets[fleet]

ExpansionInit ==
    /\ fleets \in UNION {[1 .. n -> FleetChoices] : n \in 1 .. MaxFleets}
    /\ fleet = 1
    /\ peer = 0
    /\ asn = NextSafeAsn(fleets[1].base)
    /\ cursor = HostBase
    /\ owner = {}
    /\ sessions = << >>
    /\ verdict = "open"

(* The session of the next peer.  The first gobgpd of a container listens on
   port 50051; ports and containers are counted from 0 here. *)
Session ==
    [fleet     |-> fleet,
     nr        |-> peer,
     fabric    |-> F.fabric,
     engine    |-> F.engine,
     host      |-> cursor[F.fabric],
     asn       |-> asn,
     container |-> <<F.id, peer \div F.per>>,
     port      |-> IF F.engine = "gobgp" THEN peer % F.per ELSE 0,
     slot      |-> Len(sessions),
     count     |-> F.count]

Exhausted == cursor[F.fabric] >= Addresses[F.fabric] - 1

Expanding == verdict = "open" /\ fleet <= Len(fleets)

AddPeer ==
    /\ Expanding
    /\ peer < F.peers
    /\ ~Exhausted
    /\ asn \notin owner
    /\ asn # DutAsn
    /\ cursor' = [cursor EXCEPT ![F.fabric] = @ + 1]
    /\ owner' = owner \cup {asn}
    /\ sessions' = Append(sessions, Session)
    /\ peer' = peer + 1
    /\ asn' = NextSafeAsn(asn + 1)
    /\ UNCHANGED <<fleets, fleet, verdict>>

(* A ProfileError: the LAN is exhausted, another fleet has the ASN, or the
   DUT has it. *)
RefusePeer ==
    /\ Expanding
    /\ peer < F.peers
    /\ Exhausted \/ asn \in owner \/ asn = DutAsn
    /\ verdict' = "refused"
    /\ UNCHANGED <<fleets, fleet, peer, asn, cursor, owner, sessions>>

(* Mutants of NextFleet: each fleet counts its hosts from the LAN's base; an
   empty fleet takes the next one with it. *)
NextFleetFromBase ==
    /\ Expanding
    /\ peer >= F.peers
    /\ fleet' = fleet + 1
    /\ peer' = 0
    /\ asn' = IF fleet < Len(fleets) THEN NextSafeAsn(fleets[fleet + 1].base) ELSE asn
    /\ cursor' = HostBase
    /\ UNCHANGED <<fleets, owner, sessions, verdict>>

NextFleetSkips ==
    /\ Expanding
    /\ peer >= F.peers
    /\ fleet' = IF peer = 0 THEN fleet + 2 ELSE fleet + 1
    /\ peer' = 0
    /\ asn' = IF fleet' <= Len(fleets) THEN NextSafeAsn(fleets[fleet'].base) ELSE asn
    /\ UNCHANGED <<fleets, cursor, owner, sessions, verdict>>

NextFleet ==
    /\ Expanding
    /\ peer >= F.peers
    /\ fleet' = fleet + 1
    /\ peer' = 0
    /\ asn' = IF fleet < Len(fleets) THEN NextSafeAsn(fleets[fleet + 1].base) ELSE asn
    /\ UNCHANGED <<fleets, cursor, owner, sessions, verdict>>

(* No sessions is an error; the rest is check_capacity's to say. *)
Finish ==
    /\ verdict = "open"
    /\ fleet > Len(fleets)
    /\ verdict' = IF sessions # << >>
                     /\ CheckCapacity(FamilyPlan, [k \in DOMAIN sessions |-> sessions[k].count])
                  THEN "accepted" ELSE "refused"
    /\ UNCHANGED <<fleets, fleet, peer, asn, cursor, owner, sessions>>

ExpansionNext == AddPeer \/ RefusePeer \/ NextFleet \/ Finish

ExpansionSpec == ExpansionInit /\ [][ExpansionNext]_expansionVars

----------------------------------------------------------------------------

Sessions ==
    [fleet : Nat, nr : Nat, fabric : Fabrics, engine : {"gobgp", "exabgp"}, host : Nat,
     asn : Nat, container : Ids \X Nat, port : Nat, slot : Nat, count : Nat]

(* Type correctness of the expansion: in particular next_safe_asn always
   finds an ASN, and the cursors stay within the profile's fleets. *)
ExpansionTypeOK ==
    /\ fleets \in Seq(FleetChoices)
    /\ fleet \in 1 .. Len(fleets) + 1
    /\ peer \in Nat
    /\ asn \in Nat
    /\ cursor \in [Fabrics -> Nat]
    /\ owner \subseteq Nat
    /\ sessions \in Seq(Sessions)
    /\ verdict \in {"open", "accepted", "refused"}

(* Nothing checks it: two fleets of one id get sessions and containers of the
   same names, and a container's first fleet decides its LAN. *)
IdsDistinct == \A a, b \in DOMAIN fleets : fleets[a].id = fleets[b].id => a = b

(* No two sessions share an address of a LAN, an ASN, or, in a profile whose
   fleets have different ids, a gobgpd's port in a container, whatever else
   the fleets declare and in whatever order they take turns on a LAN; no ASN
   is one the router filters or its own. *)
EndpointsDistinct ==
    \A a \in DOMAIN sessions :
        LET s == sessions[a] IN
        /\ ~IsBogon(s.asn) /\ s.asn # DutAsn
        /\ s.host < Addresses[s.fabric] - 1
        /\ \A b \in 1 .. a - 1 :
              LET t == sessions[b] IN
              /\ s.asn # t.asn
              /\ s.fabric = t.fabric => s.host # t.host
              /\ IdsDistinct /\ s.engine = "gobgp" /\ s.container = t.container =>
                    s.port # t.port
              /\ s.slot # t.slot

ExclusiveOf(s) == FirstPrefixes(FamilyPlan, s.slot, s.count, 0, Exclusive(FamilyPlan, s.count))

Pool == {At(FamilyPlan, k) : k \in 0 .. FamilyPlan.pool - 1}

(* A profile that is accepted and gives all its sessions one size has what
   it declares: every session announces exactly that many prefixes, and its
   exclusive ones are neither in the contested pool nor anybody else's.
   That check_capacity's sum is enough rests on the sizes being equal. *)
UniformIsExact ==
    (verdict = "accepted" /\ \A a, b \in DOMAIN sessions : sessions[a].count = sessions[b].count) =>
        \A a \in DOMAIN sessions :
            LET s == sessions[a] IN
            /\ Cardinality(SessionPrefixes(FamilyPlan, s.slot, s.count, 0)) = s.count
            /\ ExclusiveOf(s) \cap Pool = {}
            /\ \A b \in 1 .. a - 1 : ExclusiveOf(s) \cap ExclusiveOf(sessions[b]) = {}

----------------------------------------------------------------------------

(* The parts of the inductive invariant.  A session remembers where in the
   profile it came from, and lies behind the cursors. *)
PlaceInv ==
    \A k \in DOMAIN sessions :
        LET s == sessions[k] IN
        /\ s.fleet \in DOMAIN fleets
        /\ s.fleet < fleet \/ (s.fleet = fleet /\ s.nr < peer)
        /\ s.engine = fleets[s.fleet].engine
        /\ s.container = <<fleets[s.fleet].id, s.nr \div fleets[s.fleet].per>>
        /\ s.engine = "gobgp" => s.port = s.nr % fleets[s.fleet].per

CursorInv ==
    \A k \in DOMAIN sessions :
        LET s == sessions[k] IN
        /\ s.host < cursor[s.fabric]
        /\ s.asn \in owner
        /\ s.slot = k - 1

AcceptInv ==
    verdict = "accepted" =>
        CheckCapacity(FamilyPlan, [k \in DOMAIN sessions |-> sessions[k].count])

ExpansionInv ==
    /\ ExpansionTypeOK
    /\ ~IsBogon(asn)
    /\ PlaceInv
    /\ CursorInv
    /\ EndpointsDistinct
    /\ AcceptInv

===========================================================================
