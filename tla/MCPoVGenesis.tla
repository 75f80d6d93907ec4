----------------------------- MODULE MCPoVGenesis ------------------------------
(***************************************************************************)
(* A small instance of the genesis phase.                                  *)
(***************************************************************************)
EXTENDS PoVGenesisSafety
==============================================================================
