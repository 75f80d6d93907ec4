----------------------------- MODULE MCPaxosCommit ------------------------------
(***************************************************************************)
(* A small instance of the committer.                                      *)
(***************************************************************************)
EXTENDS PaxosCommitSafety
==============================================================================
