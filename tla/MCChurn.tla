------------------------------ MODULE MCChurn ------------------------------
(***************************************************************************)
(* A small session for TLC: four IPv4 and three IPv6 prefixes, a quarter   *)
(* of them contested, in spaces small enough to be walked around in four   *)
(* events.                                                                 *)
(***************************************************************************)
EXTENDS Churn

MCPlan == [ipv4 |-> [blocks |-> <<11, 5>>, per |-> 5, pool |-> 2, num |-> 1, den |-> 4],
           ipv6 |-> [blocks |-> <<0>>, per |-> 8, pool |-> 1, num |-> 1, den |-> 4]]

MCCount == [ipv4 |-> 4, ipv6 |-> 3]

=============================================================================
