---------------------------- MODULE MCPaxosMaster ----------------------------
(* PaxosMasterSafety on a few nodes; the nodes are alike. *)
EXTENDS PaxosMasterSafety, TLC
NodeSymmetry == Permutations(Node)
=============================================================================
