---------------------------- MODULE MCSimulator ----------------------------
(***************************************************************************)
(* Instance of Simulator: two components, both wired to the port the       *)
(* program writes.                                                         *)
(***************************************************************************)
EXTENDS Simulator

MCWire == <<<<1, 2>>, <<1, 3>>>>
=============================================================================
