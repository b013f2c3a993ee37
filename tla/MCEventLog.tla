----------------------------- MODULE MCEventLog -----------------------------
(***************************************************************************)
(* Instances of EventLog for TLC; all parameters are set in the cfgs.      *)
(***************************************************************************)
EXTENDS EventLog
=============================================================================
