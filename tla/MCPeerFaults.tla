---------------------------- MODULE MCPeerFaults ----------------------------
(***************************************************************************)
(* Two containers, the first with two sessions and on a VLAN fabric.       *)
(***************************************************************************)
EXTENDS PeerFaults

MCHome == [s1 |-> "a", s2 |-> "a", s3 |-> "b"]

=============================================================================
