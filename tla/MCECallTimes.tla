---------------------------- MODULE MCECallTimes ---------------------------
(* Instances of ECallTimes for TLC; the other parameters are in the cfgs.  *)
EXTENDS ECallTimes

(* Attempts with room in their intervals, and without.                     *)
TwoConfigs ==
    { [autoAnswer |-> 2, duration |-> 6, attempts |-> 3],
      [autoAnswer |-> 3, duration |-> 3, attempts |-> 3] }
=============================================================================
