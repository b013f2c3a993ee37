----------------------------- MODULE MCStateArq -----------------------------
(* Instances of DiagStateArq for TLC.                                      *)
EXTENDS DiagStateArq

CONSTANTS OFF, ON, ERROR

TwoValues == {OFF, ON}
ThreeValues == {OFF, ON, ERROR}
=============================================================================
