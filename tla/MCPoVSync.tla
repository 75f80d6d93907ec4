------------------------------ MODULE MCPoVSync -------------------------------
(***************************************************************************)
(* Small instances of synchronisation: three commissioners one of whom     *)
(* starts late, and a commissioner and a node that fetches from it.        *)
(***************************************************************************)
EXTENDS PoVSyncSafety

MCThree == 1 .. 3
MCThird == {3}

MCPair == 1 .. 2
MCFirst == {1}
MCSecond == {2}
==============================================================================
