--------------------------- MODULE MCCommandGate ---------------------------
(* Instances of CommandGate for TLC; the bounds are set in the cfgs.       *)
EXTENDS CommandGate

(* Mixes of commands: the gate with a link that comes and goes; commands   *)
(* that need no support and that do, with an aCall that comes and goes; the*)
(* routine control among commands the gate treats otherwise.               *)
ThreeTraffics ==
    { {"aPress", "aTrigger", "connected", "disconnected"},
      {"aRecovery", "aTrigger", "hwChanged", "connected"},
      {"aShortPress", "eLongPress", "dtcChanged", "passedOn",
       "startXCall", "startBoth", "startOther", "result"} }
=============================================================================
