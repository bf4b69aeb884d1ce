---------------------------- MODULE MCInventory ----------------------------
(***************************************************************************)
(* Two LANs with four usable addresses, ASNs 4 and 5 filtered, and a space *)
(* of 16 prefixes that five sessions of the larger size overfill.          *)
(***************************************************************************)
EXTENDS Inventory

MCAddresses == [a |-> 6, b |-> 6]
MCHostBase == [a |-> 1, b |-> 1]
MCBogons == {<<0, 0>>, <<4, 4>>, <<5, 5>>}
MCPlan == [blocks |-> <<7, 3>>, per |-> 8, pool |-> 2, num |-> 1, den |-> 4]
MCFleets == [id : {"x", "y"}, fabric : {"a", "b"}, engine : {"gobgp", "exabgp"},
             peers : {0, 2, 3}, per : {1, 2}, base : {1, 3, 6}, count : {2, 4}]

============================================================================
