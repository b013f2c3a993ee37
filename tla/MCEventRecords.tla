--------------------------- MODULE MCEventRecords ---------------------------
(* Instance of EventRecords for TLC; the bounds are set in the cfg.        *)
EXTENDS EventRecords

TwoCallStates == {"DIAL", "ACTIVE"}
TwoMsdStates == {"REQUESTED", "ACKNOWLEDGED"}
TwoStates == {"REGISTERED", "SEARCHING"}
OneCell == {"c1"}
=============================================================================
