-------------------------- MODULE ECallRefinement --------------------------
(***************************************************************************)
(* The eCall state machine implements the stages of an eCall.              *)
(***************************************************************************)
EXTENDS ECallMachine

StageOf(x) ==
    CASE x.state = "OFF"              -> "off"
      [] x.state = "MANUAL_TRIGGERED" -> "triggered"
      [] x.state = "REGISTRATION"     -> "registering"
      [] x.state = "CALL"             -> "dialling"
      [] x.state = "MSD_TRANSFER"     -> "transferring"
      [] x.state = "VOICE_COMMUNICATION" -> IF x.inWCB THEN "called back" ELSE "talking"
      [] OTHER -> IF x.sub = "TRIGGERED" THEN "triggered again" ELSE "waiting"

\* What is saved counts only while the machine itself does nothing.
OwedOf(x) ==
    IF x.state # "OFF" THEN "nothing"
    ELSE CASE x.saved = "OFF" -> "nothing"
           [] x.saved = WCB   -> "wait"
           [] OTHER           -> "trigger"

Staged == INSTANCE ECallStages
    WITH Waits <- AutoAnswers, stage <- StageOf(m), owed <- OwedOf(m)

\* Whatever the order of late reports, stale timeouts and restarts, the state
\* machine takes only the steps an eCall may take: it is not cancelled once it
\* is confirmed, does not end after a call without having waited for the PSAP
\* (unless it may not wait), gets the whole time for that after a new call, and
\* takes up what a restart has interrupted.
ImplementsStages == Staged!Spec

\* What a restart owes is taken up in the end: an interrupted eCall is
\* triggered again and an interrupted wait is resumed or found to be over.
InterruptedResumes == OwedOf(m) # "nothing" ~> OwedOf(m) = "nothing"
=============================================================================
