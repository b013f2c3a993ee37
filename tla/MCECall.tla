------------------------------ MODULE MCECall ------------------------------
(***************************************************************************)
(* Instances of ECallMachine for TLC; all parameters are set in the cfgs.  *)
(***************************************************************************)
EXTENDS ECallRefinement
=============================================================================
