---------------------- MODULE ECallRefinement_proofs -----------------------
(***************************************************************************)
(* The proof that the eCall state machine implements the stages of an      *)
(* eCall, for every configuration, every length of the queue and every     *)
(* number of failures.                                                     *)
(***************************************************************************)
EXTENDS ECallRefinement, ECallMachine_proofs

\* The machine has been waiting since the last dial: it still does, or talks.
CalledBack(x) ==
    /\ x.inWCB => x.state \in {"VOICE_COMMUNICATION", WCB}
    /\ x.state = WCB => x.inWCB

\* A completed transition into a stage: nothing is owed.
Enters(x, s) ==
    x \in Machine /\ CalledBack(x) /\ StageOf(x) = s /\ OwedOf(x) = "nothing"

\* Changes that the stages do not see.
Unseen(x, y) ==
    y.state = x.state /\ y.sub = x.sub /\ y.inWCB = x.inWCB /\ y.saved = x.saved

-----------------------------------------------------------------------------
(* The stages that the functions on the record enter.                      *)

\* What the stages do not see leaves the stage as it is.
LEMMA UnseenStage ==
    ASSUME NEW x, NEW y, Unseen(x, y)
    PROVE  /\ StageOf(y) = StageOf(x) /\ OwedOf(y) = OwedOf(x)
           /\ CalledBack(x) => CalledBack(y)
BY DEF Unseen, StageOf, OwedOf, CalledBack

\* The stage of each state.
LEMMA StageOfState ==
    ASSUME NEW x \in Machine
    PROVE  /\ x.state = "OFF" => StageOf(x) = "off"
           /\ x.state = "MANUAL_TRIGGERED" => StageOf(x) = "triggered"
           /\ x.state = "REGISTRATION" => StageOf(x) = "registering"
           /\ x.state = "CALL" => StageOf(x) = "dialling"
           /\ x.state = "MSD_TRANSFER" => StageOf(x) = "transferring"
           /\ x.state = "VOICE_COMMUNICATION" /\ x.inWCB => StageOf(x) = "called back"
           /\ x.state = "VOICE_COMMUNICATION" /\ ~x.inWCB => StageOf(x) = "talking"
           /\ x.state = WCB /\ x.sub = "TRIGGERED" => StageOf(x) = "triggered again"
           /\ x.state = WCB /\ x.sub # "TRIGGERED" => StageOf(x) = "waiting"
           /\ x.state # "OFF" \/ x.saved = "OFF" => OwedOf(x) = "nothing"
           /\ x.state = "OFF" /\ x.saved = WCB => OwedOf(x) = "wait"
           /\ x.state = "OFF" /\ x.saved \notin {"OFF", WCB} => OwedOf(x) = "trigger"
<1>1. x.inWCB \in BOOLEAN
  BY DEF Machine
<1>2. ASSUME x.state = "VOICE_COMMUNICATION"
      PROVE  StageOf(x) = IF x.inWCB THEN "called back" ELSE "talking"
  BY <1>2 DEF StageOf
<1>3. /\ x.state = "OFF" => StageOf(x) = "off"
      /\ x.state = "MANUAL_TRIGGERED" => StageOf(x) = "triggered"
      /\ x.state = "REGISTRATION" => StageOf(x) = "registering"
      /\ x.state = "CALL" => StageOf(x) = "dialling"
      /\ x.state = "MSD_TRANSFER" => StageOf(x) = "transferring"
      /\ x.state = WCB => StageOf(x) = IF x.sub = "TRIGGERED" THEN "triggered again" ELSE "waiting"
  BY DEF StageOf, WCB
<1>4. /\ x.state # "OFF" \/ x.saved = "OFF" => OwedOf(x) = "nothing"
      /\ x.state = "OFF" /\ x.saved = WCB => OwedOf(x) = "wait"
      /\ x.state = "OFF" /\ x.saved \notin {"OFF", WCB} => OwedOf(x) = "trigger"
  BY DEF OwedOf, WCB
<1> QED
  BY <1>1, <1>2, <1>3, <1>4

\* Entering OFF, MANUAL_TRIGGERED and REGISTRATION.
LEMMA EarlyStages ==
    ASSUME NEW x \in Machine
    PROVE  /\ Enters(EnterOff(x), "off")
           /\ ~x.inWCB => Enters(EnterManualTrigger(x), "triggered")
           /\ ~x.inWCB => Enters(EnterRegistration(x), "registering")
<1>1. Enters(EnterOff(x), "off")
  <2>1. /\ EnterOff(x) \in Machine /\ EnterOff(x).state = "OFF" /\ EnterOff(x).saved = "OFF"
        /\ ~EnterOff(x).inWCB
    BY DEF EnterOff, Machine, State, CallState, NoTimer, SavedState
  <2>2. QED
    BY <2>1, StageOfState DEF Enters, CalledBack
<1>2. ASSUME ~x.inWCB PROVE Enters(EnterManualTrigger(x), "triggered")
  <2>1. /\ EnterManualTrigger(x) \in Machine /\ ~EnterManualTrigger(x).inWCB
        /\ EnterManualTrigger(x).state = "MANUAL_TRIGGERED"
    BY <1>2 DEF EnterManualTrigger, Machine, State, StateTimer, SavedState
  <2>2. QED
    BY <2>1, StageOfState DEF Enters, CalledBack
<1>3. ASSUME ~x.inWCB PROVE Enters(EnterRegistration(x), "registering")
  <2>1. /\ EnterRegistration(x) \in Machine /\ ~EnterRegistration(x).inWCB
        /\ EnterRegistration(x).state = "REGISTRATION"
    BY <1>3 DEF EnterRegistration, Machine, State, StateTimer, SavedState
  <2>2. QED
    BY <2>1, StageOfState DEF Enters, CalledBack
<1> QED
  BY <1>1, <1>2, <1>3

\* Entering CALL for a new call, a redial, or neither.
LEMMA DiallingStage ==
    ASSUME NEW x \in Machine
    PROVE  Enters(EnterCall(x), "dialling")
<1> DEFINE y == [x EXCEPT !.state = "CALL", !.inWCB = FALSE, !.saved = "CALL"]
           z == EnterCall(x)
<1>1. y \in Machine /\ y.state = "CALL" /\ ~y.inWCB
  BY DEF Machine, State, SavedState
<1>2. \/ z = ResetRedialAttempts(Dial(y), "CALL", TRUE)
      \/ z = [Dial(y) EXCEPT !.attempts = @ + 1]
      \/ z = HangUp(SetCall(y, "NONE"))
      \/ z = y
  BY Zenon DEF EnterCall
<1> HIDE DEF y, z
<1>3. Dial(y) \in Machine /\ Dial(y).state = "CALL" /\ ~Dial(y).inWCB
  BY <1>1 DEF Dial, Machine, StateTimer, CallState, Modem
<1>4. CASE z = ResetRedialAttempts(Dial(y), "CALL", TRUE)
  <2>1. z = [Dial(y) EXCEPT !.attempts = 1, !.stage = "CALL"]
    BY <1>4 DEF ResetRedialAttempts
  <2>2. z \in Machine /\ z.state = "CALL" /\ ~z.inWCB
    BY <1>3, <2>1 DEF Machine, State
  <2>3. QED
    BY <2>2, StageOfState DEF z, Enters, CalledBack
<1>5. CASE z = [Dial(y) EXCEPT !.attempts = @ + 1]
  <2>1. z \in Machine /\ z.state = "CALL" /\ ~z.inWCB
    BY <1>3, <1>5 DEF Machine
  <2>2. QED
    BY <2>1, StageOfState DEF z, Enters, CalledBack
<1>6. CASE z = HangUp(SetCall(y, "NONE"))
  <2>1. z \in Machine /\ z.state = "CALL" /\ ~z.inWCB
    BY <1>1, <1>6 DEF HangUp, SetCall, Machine, CallState, Modem
  <2>2. QED
    BY <2>1, StageOfState DEF z, Enters, CalledBack
<1>7. CASE z = y
  BY <1>1, <1>7, StageOfState DEF z, Enters, CalledBack
<1> QED
  BY <1>2, <1>4, <1>5, <1>6, <1>7

\* The attempts have no part in the stages.
LEMMA ResetKeeps ==
    ASSUME NEW x \in Machine, NEW s \in State
    PROVE  LET y == ResetRedialAttempts(x, s, FALSE)
           IN  y \in Machine /\ y.inWCB = x.inWCB
<1> DEFINE y == [x EXCEPT !.attempts = 1, !.stage = s]
<1>1. y \in Machine /\ y.inWCB = x.inWCB
  BY DEF Machine
<1>2. ResetRedialAttempts(x, s, FALSE) \in {x, y}
  BY DEF ResetRedialAttempts
<1> QED
  BY <1>1, <1>2

\* Entering MSD_TRANSFER and VOICE_COMMUNICATION.
LEMMA LateStages ==
    ASSUME NEW x \in Machine
    PROVE  /\ ~x.inWCB => Enters(EnterMsdTransfer(x), "transferring")
           /\ ~x.inWCB => Enters(EnterVoiceCommunication(x), "talking")
           /\ x.inWCB => Enters(EnterVoiceCommunication(x), "called back")
<1> DEFINE d == EnterMsdTransfer(x)
           r == ResetRedialAttempts(x, "MSD_TRANSFER", FALSE)
           y == IF x.state = "WAITING_FOR_CALLBACK" THEN SetExitWCBTime(x) ELSE x
           q == ResetRedialAttempts(y, "VOICE_COMMUNICATION", FALSE)
           v == EnterVoiceCommunication(x)
<1>1. /\ d \in Machine /\ d.state = "MSD_TRANSFER" /\ d.inWCB = x.inWCB
  <2>1. r \in Machine /\ r.inWCB = x.inWCB
    BY ResetKeeps DEF State
  <2>2. \E t \in StateTimer \cup {NoTimer} :
           d = [r EXCEPT !.state = "MSD_TRANSFER", !.saved = "MSD_TRANSFER",
                         !.stateTimer = t]
    BY <2>1 DEF EnterMsdTransfer, Machine, StateTimer
  <2> HIDE DEF r, d
  <2>3. QED
    BY <2>1, <2>2 DEF Machine, State, SavedState
<1>2. /\ v \in Machine /\ v.state = "VOICE_COMMUNICATION" /\ v.inWCB = x.inWCB
  <2>1. y \in Machine /\ y.inWCB = x.inWCB
    BY DEF SetExitWCBTime, Machine
  <2> HIDE DEF y
  <2>2. q \in Machine /\ q.inWCB = y.inWCB
    BY <2>1, ResetKeeps DEF State
  <2>3. v = [q EXCEPT !.state = "VOICE_COMMUNICATION", !.saved = "VOICE_COMMUNICATION",
                      !.stateTimer = "clear_down"]
    BY DEF EnterVoiceCommunication, y
  <2> HIDE DEF q, v
  <2>4. QED
    BY <2>1, <2>2, <2>3 DEF Machine, State, SavedState, StateTimer
<1> HIDE DEF d, v
<1>3. ~x.inWCB => Enters(d, "transferring")
  BY <1>1, StageOfState DEF Enters, CalledBack
<1>4. /\ ~x.inWCB => Enters(v, "talking")
      /\ x.inWCB => Enters(v, "called back")
  BY <1>2, StageOfState DEF Enters, CalledBack
<1> QED
  BY <1>3, <1>4 DEF d, v

\* The wait for a call back: a first one has its time.
LEMMA WaitingStage ==
    ASSUME NEW x \in Machine
    PROVE  LET z == EnterWCB(x)
           IN  /\ Enters(z, "waiting") \/ Enters(z, "off")
               /\ ~x.inWCB => Enters(z, IF AutoAnswers THEN "waiting" ELSE "off")
<1> DEFINE y == [SetEnterWCBTime(x) EXCEPT
                    !.redialTimer = FALSE, !.stateTimer = NoTimer, !.msdTimer = FALSE,
                    !.remaining = IF x.inWCB THEN @ ELSE AutoAnswers]
           w == [y EXCEPT !.state = "WAITING_FOR_CALLBACK", !.sub = "IDLE",
                          !.inWCB = TRUE, !.callbackTimer = TRUE,
                          !.saved = "WAITING_FOR_CALLBACK"]
<1>1. EnterWCB(x) = IF ~y.remaining THEN EnterOff(y) ELSE w
  BY Zenon DEF EnterWCB
<1>2. y \in Machine /\ (~x.inWCB => y.remaining = AutoAnswers)
  BY MachineAssumption DEF SetEnterWCBTime, Machine, NoTimer
<1>3. w \in Machine /\ w.state = WCB /\ w.sub = "IDLE" /\ w.inWCB
  <2> HIDE DEF y
  <2>1. QED
    BY <1>2 DEF Machine, State, SavedState, WCB
<1> HIDE DEF y, w
<1>4. Enters(w, "waiting") /\ Enters(EnterOff(y), "off")
  BY <1>2, <1>3, StageOfState, EarlyStages DEF Enters, CalledBack
<1> QED
  BY <1>1, <1>2, <1>4, MachineAssumption

\* The manual trigger while waiting, and its cancellation.
LEMMA TriggeredAgainStage ==
    ASSUME NEW x \in Machine, x.state = WCB, x.inWCB
    PROVE  /\ Enters(EnterWCBManualTrigger(x), "triggered again")
           /\ Enters(EnterWCBIdle(x), "waiting")
<1> DEFINE y == EnterWCBManualTrigger(x)
           z == EnterWCBIdle(x)
<1>1. y \in Machine /\ y.state = WCB /\ y.sub = "TRIGGERED" /\ y.inWCB
  BY DEF EnterWCBManualTrigger, Machine, StateTimer, SavedState
<1>2. z \in Machine /\ z.state = WCB /\ z.sub = "IDLE" /\ z.inWCB
  BY DEF EnterWCBIdle, SetEnterWCBTime, Machine, SavedState, NoTimer, WCB
<1> HIDE DEF y, z
<1>3. Enters(y, "triggered again") /\ Enters(z, "waiting")
  BY <1>1, <1>2, StageOfState DEF Enters, CalledBack, WCB
<1> QED
  BY <1>3 DEF y, z

-----------------------------------------------------------------------------
(* Steps.                                                                  *)

Simulates == (Staged!Next \/ UNCHANGED Staged!vars) /\ CalledBack(m)'

\* What is true of the machine between two steps.
StagesKnown == IInv /\ CalledBack(m)

\* A step that the stages do not see.
LEMMA UnseenStep ==
    ASSUME CalledBack(m), NEW x, Unseen(m, x), m' = x
    PROVE  Simulates
<1>1. StageOf(m') = StageOf(m) /\ OwedOf(m') = OwedOf(m) /\ CalledBack(m')
  BY UnseenStage
<1> QED
  BY <1>1 DEF Simulates, Staged!vars

\* A step into a stage.
LEMMA StageMoves ==
    ASSUME NEW t, NEW x, Enters(x, t), m' = x,
           \/ t = "off" /\ StageOf(m) \in {"triggered", "registering", "waiting",
                                          "called back", "triggered again"}
           \/ t = "off" /\ ~AutoAnswers
                /\ StageOf(m) \in {"dialling", "transferring", "talking"}
           \/ t = "triggered" /\ StageOf(m) = "off"
           \/ t = "registering" /\ StageOf(m) \in {"off", "triggered"}
           \/ t = "dialling" /\ StageOf(m) \notin {"off", "triggered"} /\ m.state # "OFF"
                /\ m \in Machine
           \/ t = "transferring" /\ StageOf(m) = "dialling"
           \/ t = "talking" /\ StageOf(m) = "transferring"
           \/ t = "waiting" /\ AutoAnswers
                /\ StageOf(m) \in {"dialling", "transferring", "talking"}
           \/ t = "waiting" /\ StageOf(m) \in {"called back", "triggered again"}
           \/ t = "called back" /\ StageOf(m) \in {"waiting", "triggered again"}
           \/ t = "triggered again" /\ StageOf(m) = "waiting"
           \/ t \in {"off", "waiting"} /\ StageOf(m) = "off" /\ OwedOf(m) = "wait"
           \/ t = StageOf(m) /\ OwedOf(m) = "nothing"
    PROVE  Simulates
<1>1. StageOf(m') = t /\ OwedOf(m') = "nothing" /\ CalledBack(m')
  BY DEF Enters
<1>2. CASE t = "dialling" /\ StageOf(m) \notin {"off", "triggered"} /\ m.state # "OFF"
           /\ m \in Machine
  <2>1. StageOf(m) \in {"registering", "dialling", "transferring", "talking", "waiting",
                        "called back", "triggered again"} /\ OwedOf(m) = "nothing"
    BY <1>2, StageOfState DEF Machine, State, WCB
  <2>2. CASE StageOf(m) = "dialling"
    BY <1>1, <1>2, <2>1, <2>2 DEF Simulates, Staged!vars
  <2>3. CASE StageOf(m) # "dialling"
    BY <1>1, <1>2, <2>1, <2>3 DEF Simulates, Staged!Next, Staged!Dial, Staged!Goes
  <2>4. QED
    BY <2>2, <2>3
<1>3. CASE t = StageOf(m) /\ OwedOf(m) = "nothing"
  BY <1>1, <1>3 DEF Simulates, Staged!vars
<1>4. CASE t \in {"off", "waiting"} /\ StageOf(m) = "off" /\ OwedOf(m) = "wait"
  BY <1>1, <1>4 DEF Simulates, Staged!Next, Staged!Resume, Staged!Goes
<1>5. CASE t = "off" /\ StageOf(m) \in {"triggered", "registering", "waiting",
                                       "called back", "triggered again"}
  BY <1>1, <1>5 DEF Simulates, Staged!Next, Staged!Cancel, Staged!NoNetwork,
                    Staged!TimeOver, Staged!Goes
<1>6. CASE t = "off" /\ ~AutoAnswers /\ StageOf(m) \in {"dialling", "transferring", "talking"}
  BY <1>1, <1>6 DEF Simulates, Staged!Next, Staged!Wait, Staged!Goes
<1>7. CASE \/ t = "triggered" /\ StageOf(m) = "off"
           \/ t = "registering" /\ StageOf(m) \in {"off", "triggered"}
  BY <1>1, <1>7 DEF Simulates, Staged!Next, Staged!Trigger, Staged!Confirm, Staged!Goes
<1>8. CASE \/ t = "transferring" /\ StageOf(m) = "dialling"
           \/ t = "talking" /\ StageOf(m) = "transferring"
           \/ t = "called back" /\ StageOf(m) \in {"waiting", "triggered again"}
           \/ t = "triggered again" /\ StageOf(m) = "waiting"
  BY <1>1, <1>8 DEF Simulates, Staged!Next, Staged!Connect, Staged!Transfer, Staged!Answer,
                    Staged!TriggerAgain, Staged!Goes
<1>9. CASE t = "waiting" /\ AutoAnswers
           /\ StageOf(m) \in {"dialling", "transferring", "talking"}
  BY <1>1, <1>9 DEF Simulates, Staged!Next, Staged!Wait, Staged!Goes
<1>10. CASE t = "waiting" /\ StageOf(m) \in {"called back", "triggered again"}
  BY <1>1, <1>10 DEF Simulates, Staged!Next, Staged!WaitOn, Staged!Cancel, Staged!Goes
<1>11. CASE t \in {"off", "waiting"}
  BY <1>3, <1>4, <1>5, <1>6, <1>9, <1>10, <1>11
<1>12. CASE t \in {"triggered", "registering", "dialling"}
  BY <1>2, <1>3, <1>7, <1>12
<1>13. CASE t \in {"transferring", "talking", "called back", "triggered again"}
  BY <1>3, <1>8, <1>13
<1> QED
  BY <1>3, <1>11, <1>12, <1>13

-----------------------------------------------------------------------------
(* The handlers.                                                           *)

\* What the handlers use.
LEMMA StageFacts ==
    ASSUME StagesKnown
    PROVE  /\ m \in Machine
           /\ m.inWCB => m.state \in {"VOICE_COMMUNICATION", WCB}
           /\ m.state = WCB => m.inWCB
           /\ m.state # "OFF" => OwedOf(m) = "nothing"
           /\ \A s, E : In(s, E) => m.state = s
           /\ \A x : Becomes(x) => m' = x
BY StageOfState DEF StagesKnown, CalledBack, IInv, Good, In, Becomes

\* A call ends in one of its stages: it is redialled, or the PSAP may call back.
LEMMA CallEndSimulates ==
    ASSUME StagesKnown, m.state \in {"CALL", "MSD_TRANSFER", "VOICE_COMMUNICATION"},
           NEW y \in Machine, Unseen(m, y),
           m' = RedialOrGiveUp(y) \/ m' = EnterWCB(y)
    PROVE  Simulates
<1>1. y.inWCB = m.inWCB /\ OwedOf(m) = "nothing" /\ m \in Machine
  BY StageFacts DEF Unseen
<1>2. CASE m' = EnterWCB(y)
  <2>1. CASE m.inWCB
    <3>1. StageOf(m) = "called back"
      BY <1>1, <2>1, StageFacts, StageOfState DEF WCB
    <3>2. QED
      BY <1>2, <3>1, WaitingStage, StageMoves
  <2>2. CASE ~m.inWCB
    <3>1. StageOf(m) \in {"dialling", "transferring", "talking"}
      BY <1>1, <2>2, StageOfState
    <3>2. Enters(EnterWCB(y), IF AutoAnswers THEN "waiting" ELSE "off")
      BY <1>1, <2>2, WaitingStage
    <3>3. CASE AutoAnswers
      BY <1>2, <3>1, <3>2, <3>3, StageMoves
    <3>4. CASE ~AutoAnswers
      BY <1>2, <3>1, <3>2, <3>4, StageMoves
    <3>5. QED
      BY <3>3, <3>4
  <2>3. QED
    BY <2>1, <2>2
<1>3. CASE m' = RedialOrGiveUp(y) /\ m' # EnterWCB(y)
  <2> DEFINE z == [y EXCEPT !.redialTimer = TRUE]
  <2>1. m' = z
    BY <1>3 DEF RedialOrGiveUp
  <2>2. Unseen(m, z)
    BY DEF Unseen, Machine
  <2>3. QED
    BY <2>1, <2>2, UnseenStep DEF StagesKnown
<1> QED
  BY <1>2, <1>3

\* The handlers of OFF.
LEMMA OffSimulates ==
    ASSUME StagesKnown, ProcessOff
    PROVE  Simulates
<1>1. m \in Machine /\ m.state = "OFF" /\ ~m.inWCB /\ StageOf(m) = "off"
  BY StageFacts, StageOfState DEF ProcessOff, TriggerInOff, LongPressInOff, RecoverInOff, WCB
<1>2. CASE TriggerInOff \/ LongPressInOff
  <2>1. m' = EnterRegistration(m) \/ m' = EnterManualTrigger(m)
    BY <1>2, StageFacts DEF TriggerInOff, LongPressInOff
  <2>2. QED
    BY <1>1, <2>1, EarlyStages, StageMoves
<1>3. CASE RecoverInOff
  <2> DEFINE x == SetExitWCBTime([m EXCEPT !.inWCB = TRUE])
  <2>1. x \in Machine
    BY <1>1 DEF SetExitWCBTime, Machine
  <2>2. \/ m' = m
        \/ m.saved = WCB /\ (m' = EnterWCB(x) \/ m' = EnterOff(x))
    BY <1>3, StageFacts DEF RecoverInOff, WCB
  <2> HIDE DEF x
  <2>3. CASE m' = m
    BY <2>3, UnseenStep DEF Unseen, StagesKnown
  <2>4. CASE m.saved = WCB /\ (m' = EnterWCB(x) \/ m' = EnterOff(x))
    <3>1. OwedOf(m) = "wait"
      BY <1>1, <2>4, StageOfState
    <3>2. Enters(m', "waiting") \/ Enters(m', "off")
      BY <2>1, <2>4, WaitingStage, EarlyStages
    <3>3. QED
      BY <1>1, <3>1, <3>2, StageMoves
  <2>5. QED
    BY <2>2, <2>3, <2>4
<1> QED
  BY <1>2, <1>3 DEF ProcessOff

\* The handlers of MANUAL_TRIGGERED and REGISTRATION.
LEMMA TriggerSimulates ==
    ASSUME StagesKnown, ProcessManualTrigger \/ ProcessRegistration
    PROVE  Simulates
<1>1. m \in Machine /\ ~m.inWCB /\ m.state # "OFF"
  BY StageFacts DEF ProcessManualTrigger, ProcessRegistration, CancelManualTrigger,
     ConfirmManualTrigger, Registered, RegistrationFails, WCB
<1>2. CASE CancelManualTrigger
  <2>1. StageOf(m) = "triggered" /\ m' = EnterOff(m)
    BY <1>1, <1>2, StageFacts, StageOfState DEF CancelManualTrigger
  <2>2. QED
    BY <1>1, <2>1, EarlyStages, StageMoves
<1>3. CASE ConfirmManualTrigger
  <2>1. StageOf(m) = "triggered" /\ m' = EnterRegistration(m)
    BY <1>1, <1>3, StageFacts, StageOfState DEF ConfirmManualTrigger
  <2>2. QED
    BY <1>1, <2>1, EarlyStages, StageMoves
<1>4. CASE Registered
  <2>1. StageOf(m) = "registering" /\ m' = EnterCall(SetCall(m, "NONE"))
    BY <1>1, <1>4, StageFacts, StageOfState DEF Registered
  <2>2. SetCall(m, "NONE") \in Machine
    BY <1>1, AssignResult DEF CallState
  <2>3. QED
    BY <1>1, <2>1, <2>2, DiallingStage, StageMoves
<1>5. CASE RegistrationFails
  <2>1. StageOf(m) = "registering" /\ m' = EnterOff(m)
    BY <1>1, <1>5, StageFacts, StageOfState DEF RegistrationFails
  <2>2. QED
    BY <1>1, <2>1, EarlyStages, StageMoves
<1> QED
  BY <1>2, <1>3, <1>4, <1>5 DEF ProcessManualTrigger, ProcessRegistration

\* The handlers of CALL.
LEMMA CallSimulates ==
    ASSUME StagesKnown, ProcessCall
    PROVE  Simulates
<1>1. m \in Machine /\ ~m.inWCB /\ m.state = "CALL" /\ StageOf(m) = "dialling"
  BY StageFacts, StageOfState DEF ProcessCall, CallActive, CallActiveOverwritten,
     CallAbnormalHangup, CallDisconnected, CalloutFail, CalloutTimeout, WCB
<1>2. CASE CallActive \/ CallActiveOverwritten
  <2>1. PICK x : /\ m' = EnterMsdTransfer(x)
                 /\ \/ x = [StopStateTimer(m) EXCEPT !.call = "ACTIVE", !.msd = "NONE"]
                    \/ x = [StopStateTimer(m) EXCEPT !.call = "ACTIVE", !.msd = "TIMEOUT",
                                                     !.msdTimer = FALSE]
    BY <1>2, StageFacts DEF CallActive, CallActiveOverwritten
  <2>2. StopStateTimer(m) \in Machine /\ ~StopStateTimer(m).inWCB
    BY <1>1 DEF StopStateTimer, Machine, NoTimer
  <2>3. x \in Machine /\ ~x.inWCB
    BY <2>1, <2>2 DEF Machine, CallState, MsdState
  <2>4. QED
    BY <1>1, <2>1, <2>3, LateStages, StageMoves
<1>3. CASE CallAbnormalHangup \/ CallDisconnected
  <2>1. \/ m' = m
        \/ \E c \in {"ABNORMAL_HANGUP", "DISCONNECTED"} :
              m' = RedialOrGiveUp(SetCall(StopStateTimer(m), c))
    BY <1>3, StageFacts DEF CallAbnormalHangup, CallDisconnected
  <2>2. \A c \in {"ABNORMAL_HANGUP", "DISCONNECTED"} :
           LET y == SetCall(StopStateTimer(m), c) IN y \in Machine /\ Unseen(m, y)
    BY <1>1 DEF SetCall, StopStateTimer, Machine, CallState, NoTimer, Unseen
  <2>3. CASE m' = m
    BY <2>3, UnseenStep DEF Unseen, StagesKnown
  <2>4. QED
    BY <1>1, <2>1, <2>2, <2>3, CallEndSimulates
<1>4. CASE CalloutFail
  <2>1. m' = SetCall(m, "FAIL") /\ Unseen(m, SetCall(m, "FAIL"))
    BY <1>1, <1>4, StageFacts DEF CalloutFail, SetCall, Unseen, Machine
  <2>2. QED
    BY <2>1, UnseenStep DEF StagesKnown
<1>5. CASE CalloutTimeout
  <2> DEFINE y == HangUp(SetCall(m, "FAIL"))
  <2>1. m' = RedialOrGiveUp(y)
    BY <1>5, StageFacts DEF CalloutTimeout
  <2>2. y \in Machine /\ Unseen(m, y)
    BY <1>1 DEF HangUp, SetCall, Unseen, Machine, CallState, Modem
  <2>3. QED
    BY <1>1, <2>1, <2>2, CallEndSimulates
<1> QED
  BY <1>2, <1>3, <1>4, <1>5 DEF ProcessCall

\* The handlers of MSD_TRANSFER.
LEMMA MsdTransferSimulates ==
    ASSUME StagesKnown, ProcessMsdTransfer
    PROVE  Simulates
<1>1. /\ m \in Machine /\ ~m.inWCB /\ m.state = "MSD_TRANSFER"
      /\ StageOf(m) = "transferring" /\ OwedOf(m) = "nothing"
  BY StageFacts, StageOfState DEF ProcessMsdTransfer, MsdTimeout, MsdProgresses,
     MsdProgressOverwritten, MsdAcknowledged, MsdClearedDown, MsdCallLost, MsdCallEnd, WCB
<1>2. CASE MsdTimeout \/ MsdAcknowledged
  <2>1. PICK x : /\ m' = EnterVoiceCommunication(x)
                 /\ x = m \/ x = [m EXCEPT !.msd = "ALACK_POSITIVE"]
    BY <1>2, StageFacts DEF MsdTimeout, MsdAcknowledged
  <2>2. x \in Machine /\ ~x.inWCB
    BY <1>1, <2>1 DEF Machine, MsdState
  <2>3. QED
    BY <1>1, <2>1, <2>2, LateStages, StageMoves
<1>3. CASE MsdProgresses \/ MsdProgressOverwritten
  <2>1. \E s \in MsdState, t \in {m.stateTimer, NoTimer}, b \in BOOLEAN :
           m' = EnterMsdTransfer([m EXCEPT !.msd = s, !.stateTimer = t, !.msdTimer = b])
    <3>1. CASE MsdProgresses
      <4>1. m' = EnterMsdTransfer([m EXCEPT !.msd = ReportedMsd(Head(queue))])
        BY <3>1, StageFacts DEF MsdProgresses
      <4>2. ReportedMsd(Head(queue)) \in MsdState
        BY DEF ReportedMsd, MsdState, MsdProgress
      <4>3. [m EXCEPT !.msd = ReportedMsd(Head(queue))] =
            [m EXCEPT !.msd = ReportedMsd(Head(queue)), !.stateTimer = m.stateTimer,
                      !.msdTimer = m.msdTimer] /\ m.msdTimer \in BOOLEAN
        BY <1>1 DEF Machine
      <4>4. QED
        BY <4>1, <4>2, <4>3
    <3>2. CASE MsdProgressOverwritten
      <4>1. \/ m' = EnterMsdTransfer([StopStateTimer(m) EXCEPT !.msd = "TIMEOUT"])
            \/ m' = EnterMsdTransfer([m EXCEPT !.msd = "TIMEOUT", !.msdTimer = FALSE])
        BY <3>2 DEF MsdProgressOverwritten
      <4>2. /\ [StopStateTimer(m) EXCEPT !.msd = "TIMEOUT"] =
               [m EXCEPT !.msd = "TIMEOUT", !.stateTimer = NoTimer, !.msdTimer = m.msdTimer]
            /\ [m EXCEPT !.msd = "TIMEOUT", !.msdTimer = FALSE] =
               [m EXCEPT !.msd = "TIMEOUT", !.stateTimer = m.stateTimer, !.msdTimer = FALSE]
            /\ m.msdTimer \in BOOLEAN
        BY <1>1 DEF StopStateTimer, Machine
      <4>3. "TIMEOUT" \in MsdState
        BY DEF MsdState
      <4>4. QED
        BY <4>1, <4>2, <4>3
    <3>3. QED
      BY <1>3, <3>1, <3>2
  <2>2. PICK s \in MsdState, t \in {m.stateTimer, NoTimer}, b \in BOOLEAN :
           m' = EnterMsdTransfer([m EXCEPT !.msd = s, !.stateTimer = t, !.msdTimer = b])
    BY <2>1
  <2> DEFINE x == [m EXCEPT !.msd = s, !.stateTimer = t, !.msdTimer = b]
  <2>3. x \in Machine /\ ~x.inWCB
    BY <1>1 DEF Machine
  <2> HIDE DEF x
  <2>4. m' = EnterMsdTransfer(x)
    BY <2>2 DEF x
  <2>5. QED
    BY <1>1, <2>3, <2>4, LateStages, StageMoves
<1>4. CASE MsdClearedDown
  <2> DEFINE y == [HangUp(m) EXCEPT !.msd = "ALACK_CLEARDOWN", !.call = "NONE"]
  <2>1. m' = EnterWCB(y)
    BY <1>4, StageFacts DEF MsdClearedDown
  <2>2. y \in Machine /\ Unseen(m, y)
    BY <1>1 DEF HangUp, Unseen, Machine, CallState, Modem, MsdState
  <2>3. QED
    BY <1>1, <2>1, <2>2, CallEndSimulates
<1>5. CASE MsdCallLost
  <2> DEFINE y == SetCall(StopStateTimer(m), Head(queue))
  <2>1. m' = RedialOrGiveUp(y) \/ m' = EnterWCB(y)
    BY <1>5, StageFacts DEF MsdCallLost
  <2>2. Head(queue) \in CallState
    BY <1>5 DEF MsdCallLost, In, CallState
  <2>3. y \in Machine /\ Unseen(m, y)
    BY <1>1, <2>2 DEF SetCall, StopStateTimer, Unseen, Machine, NoTimer
  <2>4. QED
    BY <1>1, <2>1, <2>3, CallEndSimulates
<1>6. CASE MsdCallEnd
  <2>1. m' = StopStateTimer(m) /\ Unseen(m, StopStateTimer(m))
    BY <1>1, <1>6, StageFacts DEF MsdCallEnd, StopStateTimer, Unseen, Machine
  <2>2. QED
    BY <2>1, UnseenStep DEF StagesKnown
<1> QED
  BY <1>2, <1>3, <1>4, <1>5, <1>6 DEF ProcessMsdTransfer

\* The handlers of VOICE_COMMUNICATION.
LEMMA VoiceSimulates ==
    ASSUME StagesKnown, ProcessVoiceComm
    PROVE  Simulates
<1>1. m \in Machine /\ m.state = "VOICE_COMMUNICATION"
  BY StageFacts DEF ProcessVoiceComm, VoiceMsdTimeout, ClearDownTimeout, VoiceDisconnected,
     VoiceMsdProgresses, VoiceMsdAcknowledged, VoiceClearedDown, VoiceAbnormalHangup,
     VoiceCallEnd
<1>2. CASE VoiceMsdTimeout \/ VoiceMsdProgresses \/ VoiceMsdAcknowledged
  <2>1. \/ m' = m
        \/ m' = [m EXCEPT !.msd = ReportedMsd(Head(queue)), !.msdTimer = TRUE]
        \/ m' = [m EXCEPT !.msd = "NONE", !.msdTimer = FALSE]
    BY <1>2, StageFacts DEF VoiceMsdTimeout, VoiceMsdProgresses, VoiceMsdAcknowledged
  <2>2. Unseen(m, m')
    BY <1>1, <2>1 DEF Unseen, Machine
  <2>3. QED
    BY <2>2, UnseenStep DEF StagesKnown
<1>3. CASE ClearDownTimeout \/ VoiceDisconnected
  <2>1. PICK y : m' = EnterWCB(y) /\ (y = SetCall(HangUp(m), "NONE") \/ y = SetCall(m, "NONE"))
    BY <1>3, StageFacts DEF ClearDownTimeout, VoiceDisconnected
  <2>2. y \in Machine /\ Unseen(m, y)
    BY <1>1, <2>1 DEF HangUp, SetCall, Unseen, Machine, CallState, Modem
  <2>3. QED
    BY <1>1, <2>1, <2>2, CallEndSimulates
<1>4. CASE VoiceClearedDown
  <2> DEFINE y == [HangUp(m) EXCEPT !.msdTimer = FALSE, !.msd = "ALACK_CLEARDOWN",
                                    !.call = "NONE"]
  <2>1. m' = EnterWCB(y)
    BY <1>4, StageFacts DEF VoiceClearedDown
  <2>2. y \in Machine /\ Unseen(m, y)
    BY <1>1 DEF HangUp, Unseen, Machine, CallState, Modem, MsdState
  <2>3. QED
    BY <1>1, <2>1, <2>2, CallEndSimulates
<1>5. CASE VoiceAbnormalHangup
  <2> DEFINE y == SetCall(m, "ABNORMAL_HANGUP")
  <2>1. m' = RedialOrGiveUp(y)
    BY <1>5, StageFacts DEF VoiceAbnormalHangup
  <2>2. y \in Machine /\ Unseen(m, y)
    BY <1>1 DEF SetCall, Unseen, Machine, CallState
  <2>3. QED
    BY <1>1, <2>1, <2>2, CallEndSimulates
<1>6. CASE VoiceCallEnd
  <2> DEFINE y == SetCall(m, "NONE")
  <2>1. m' = m \/ m' = EnterWCB(y)
    BY <1>6, StageFacts DEF VoiceCallEnd
  <2>2. y \in Machine /\ Unseen(m, y) /\ Unseen(m, m)
    BY <1>1 DEF SetCall, Unseen, Machine, CallState
  <2>3. QED
    BY <1>1, <2>1, <2>2, CallEndSimulates, UnseenStep DEF StagesKnown
<1> QED
  BY <1>2, <1>3, <1>4, <1>5, <1>6 DEF ProcessVoiceComm

\* The handlers of WAITING_FOR_CALLBACK.
LEMMA WaitCallbackSimulates ==
    ASSUME StagesKnown, ProcessWaitCallback
    PROVE  Simulates
<1>1. /\ m \in Machine /\ m.state = WCB /\ m.inWCB /\ m.state # "OFF" /\ OwedOf(m) = "nothing"
      /\ StageOf(m) = IF m.sub = "TRIGGERED" THEN "triggered again" ELSE "waiting"
  BY StageFacts, StageOfState DEF ProcessWaitCallback, LongPressInWCB, ManualTriggerInWCB,
     NewCallInWCB, CancelInWCB, CallBackTimeout, DiagCancel, AnswerCallback, CallbackActive,
     CallbackEnd, WCB
<1>2. Unseen(m, m)
  BY DEF Unseen
<1>3. \A c \in {"NONE", "ACTIVE"} : SetCall(m, c) \in Machine /\ Unseen(m, SetCall(m, c))
  BY <1>1 DEF SetCall, Unseen, Machine, CallState
<1>4. LET x == SetExitWCBTime(m) IN x \in Machine /\ Unseen(m, x)
  BY <1>1 DEF SetExitWCBTime, Unseen, Machine
<1>5. CASE LongPressInWCB \/ ManualTriggerInWCB \/ NewCallInWCB
  <2> DEFINE x == SetExitWCBTime(m)
  <2>1. \/ m' = EnterWCBManualTrigger(x)
        \/ m' = EnterCall(SetCall(x, "NONE"))
        \/ m' = EnterCall(SetCall(m, "NONE"))
    BY <1>5, StageFacts DEF LongPressInWCB, ManualTriggerInWCB, NewCallInWCB
  <2>2. SetCall(x, "NONE") \in Machine /\ x.state = WCB /\ x.inWCB
    BY <1>1, <1>4, AssignResult DEF CallState, Unseen
  <2> HIDE DEF x
  <2>3. CASE m' = EnterWCBManualTrigger(x)
    <3>1. Enters(EnterWCBManualTrigger(x), "triggered again")
      BY <1>4, <2>2, TriggeredAgainStage DEF x
    <3>2. QED
      BY <1>1, <2>3, <3>1, StageMoves
  <2>4. CASE m' # EnterWCBManualTrigger(x)
    BY <1>1, <1>3, <2>1, <2>2, <2>4, DiallingStage, StageMoves
  <2>5. QED
    BY <2>3, <2>4
<1>6. CASE CancelInWCB
  <2>1. m' = m \/ m' = EnterWCBIdle(m)
    BY <1>6, StageFacts DEF CancelInWCB
  <2>2. Enters(EnterWCBIdle(m), "waiting")
    BY <1>1, TriggeredAgainStage
  <2>3. QED
    BY <1>1, <1>2, <2>1, <2>2, StageMoves, UnseenStep DEF StagesKnown
<1>7. CASE CallBackTimeout \/ DiagCancel
  <2>1. m' = m \/ m' = EnterOff(m)
    BY <1>7, StageFacts DEF CallBackTimeout, DiagCancel
  <2>2. Enters(EnterOff(m), "off")
    BY <1>1, EarlyStages
  <2>3. QED
    BY <1>1, <1>2, <2>1, <2>2, StageMoves, UnseenStep DEF StagesKnown
<1>8. CASE AnswerCallback
  <2> DEFINE y == [m EXCEPT !.call = "INCOMING",
                            !.modem = IF @ = "ringing" THEN "answered" ELSE @]
  <2>1. m' = y /\ Unseen(m, y)
    BY <1>1, <1>8, StageFacts DEF AnswerCallback, Unseen, Machine
  <2>2. QED
    BY <2>1, UnseenStep DEF StagesKnown
<1>9. CASE CallbackActive
  <2> DEFINE y == SetCall(m, "ACTIVE")
  <2>1. m' = m \/ m' = EnterVoiceCommunication(y)
    BY <1>9, StageFacts DEF CallbackActive
  <2>2. CASE m' = m
    BY <1>2, <2>2, UnseenStep DEF StagesKnown
  <2>3. CASE m' = EnterVoiceCommunication(y)
    <3>1. Enters(m', "called back")
      BY <1>1, <1>3, <2>3, LateStages DEF Unseen
    <3>2. QED
      BY <1>1, <3>1, StageMoves
  <2>4. QED
    BY <2>1, <2>2, <2>3
<1>10. CASE CallbackEnd
  <2> DEFINE x == SetCall(SetEnterWCBTime(SetExitWCBTime(m)), "NONE")
  <2>1. m' = m \/ m' = x \/ m' = EnterOff(x)
    BY <1>10, StageFacts DEF CallbackEnd
  <2>2. x \in Machine /\ Unseen(m, x)
    BY <1>1, <1>4 DEF SetCall, SetEnterWCBTime, SetExitWCBTime, Unseen, Machine, CallState
  <2>3. Enters(EnterOff(x), "off")
    BY <2>2, EarlyStages
  <2>4. QED
    BY <1>1, <1>2, <2>1, <2>2, <2>3, StageMoves, UnseenStep DEF StagesKnown
<1> QED
  BY <1>5, <1>6, <1>7, <1>8, <1>9, <1>10 DEF ProcessWaitCallback

\* The handlers shared by the stages of the call, and of what no handler takes.
LEMMA SharedSimulates ==
    ASSUME StagesKnown, DemoappCrash \/ RedialTimeout \/ Drop
    PROVE  Simulates
<1>1. m \in Machine
  BY StageFacts
<1>2. CASE DemoappCrash
  <2>1. PICK s \in {"CALL", "MSD_TRANSFER", "VOICE_COMMUNICATION"} :
           /\ In(s, {"DEMOAPP_STATUS_IND"})
           /\ LET x == IF s = "VOICE_COMMUNICATION" THEN m ELSE StopStateTimer(m)
              IN  Becomes(RedialOrGiveUp(HangUp(SetCall(x, "ABNORMAL_HANGUP"))))
    BY <1>2 DEF DemoappCrash
  <2> DEFINE x == IF s = "VOICE_COMMUNICATION" THEN m ELSE StopStateTimer(m)
             y == HangUp(SetCall(x, "ABNORMAL_HANGUP"))
  <2>2. m' = RedialOrGiveUp(y) /\ m.state \in {"CALL", "MSD_TRANSFER", "VOICE_COMMUNICATION"}
    BY <2>1, StageFacts
  <2>3. x \in Machine /\ Unseen(m, x)
    BY <1>1 DEF StopStateTimer, Machine, NoTimer, Unseen
  <2> HIDE DEF x
  <2>4. y \in Machine /\ Unseen(m, y)
    BY <2>3 DEF HangUp, SetCall, Machine, CallState, Modem, Unseen
  <2> HIDE DEF y
  <2>5. QED
    BY <2>2, <2>4, CallEndSimulates
<1>3. CASE RedialTimeout
  <2>1. /\ m' = m \/ m' = EnterCall(SetCall(m, "REDIAL"))
        /\ m.state \in {"CALL", "MSD_TRANSFER", "VOICE_COMMUNICATION", WCB}
    BY <1>3, StageFacts DEF RedialTimeout, Redial, WCB
  <2>2. CASE m' = m
    BY <2>2, UnseenStep DEF Unseen, StagesKnown
  <2>3. CASE m' = EnterCall(SetCall(m, "REDIAL"))
    <3>1. Enters(m', "dialling")
      BY <1>1, <2>3, AssignResult, DiallingStage DEF CallState
    <3>2. StageOf(m) \notin {"off", "triggered"} /\ m.state # "OFF"
      BY <1>1, <2>1, StageOfState DEF WCB, Machine
    <3>3. QED
      BY <1>1, <3>1, <3>2, StageMoves
  <2>4. QED
    BY <2>1, <2>2, <2>3
<1>4. CASE Drop
  <2>1. m' = m
    BY <1>4, StageFacts DEF Drop
  <2>2. QED
    BY <2>1, UnseenStep DEF Unseen, StagesKnown
<1> QED
  BY <1>2, <1>3, <1>4

\* The timers and the modem change nothing that the stages see.
LEMMA AsideSimulates ==
    ASSUME StagesKnown, TimerThreads \/ ModemActs
    PROVE  Simulates
<1>1. m \in Machine
  BY StageFacts
<1>2. CASE TimerThreads
  <2>1. \/ StateTimerFires \/ MsdTimerFires \/ RedialTimerFires
        \/ CallbackTimerFires \/ CallbackTimePasses
    BY <1>2 DEF TimerThreads
  <2>2. Unseen(m, m')
    BY <1>1, <2>1 DEF StateTimerFires, MsdTimerFires, RedialTimerFires, CallbackTimerFires,
       CallbackTimePasses, Posts, Unseen, Machine
  <2>3. QED
    BY <2>2, UnseenStep DEF StagesKnown
<1>3. CASE ModemActs
  <2>1. m' = m \/ \E s : m' = [m EXCEPT !.modem = s]
    BY <1>3 DEF ModemActs, NetworkFound, CallProceeds, OutgoingCallEnds, IncomingCallEnds,
       ReleasedSilently, MsdIsReported, Reports, Posts
  <2>2. Unseen(m, m')
    BY <1>1, <2>1 DEF Unseen, Machine
  <2>3. QED
    BY <2>2, UnseenStep DEF StagesKnown
<1> QED
  BY <1>2, <1>3

\* The driver, the PSAP and failures; a restart owes what was saved.
LEMMA OutsideSimulates ==
    ASSUME StagesKnown, Outside
    PROVE  Simulates
<1>1. m \in Machine
  BY StageFacts
<1>2. CASE DriverActs \/ PsapCalls \/ ModemAppCrashes \/ Retrigger
  <2>1. m' = m \/ \E s : m' = [m EXCEPT !.modem = s]
    BY <1>2 DEF DriverActs, PsapCalls, ModemAppCrashes, Retrigger, Stimulated
  <2>2. Unseen(m, m')
    BY <1>1, <2>1 DEF Unseen, Machine
  <2>3. QED
    BY <2>2, UnseenStep DEF StagesKnown
<1>3. CASE Restart
  <2>1. PICK over \in BOOLEAN :
           m' = [m EXCEPT !.state = "OFF", !.sub = "IDLE", !.call = "NONE", !.msd = "NONE",
                   !.attempts = 0, !.stage = "OFF", !.inWCB = FALSE, !.elapsed = over,
                   !.stateTimer = NoTimer, !.redialTimer = FALSE, !.msdTimer = FALSE,
                   !.callbackTimer = FALSE]
    BY <1>3 DEF Restart, Stimulated
  <2>2. /\ m'.state = "OFF" /\ m'.saved = m.saved /\ ~m'.inWCB
        /\ m' \in Machine
    <3>1. m'.state = "OFF" /\ m'.saved = m.saved /\ ~m'.inWCB
      BY <1>1, <2>1 DEF Machine
    <3>2. IInv'
      BY OutsideStep DEF StagesKnown
    <3>3. QED
      BY <3>1, <3>2 DEF IInv, Good
  <2>3. /\ StageOf(m') = "off" /\ CalledBack(m')
        /\ OwedOf(m') = IF m.saved = "OFF" THEN "nothing"
                        ELSE IF m.saved = WCB THEN "wait" ELSE "trigger"
    BY <2>2, StageOfState DEF CalledBack, WCB
  <2>4. CASE m.state = "OFF"
    <3>1. StageOf(m) = "off" /\ OwedOf(m) = OwedOf(m')
      BY <1>1, <2>3, <2>4, StageOfState
    <3>2. QED
      BY <2>3, <3>1 DEF Simulates, Staged!vars
  <2>5. CASE m.state # "OFF"
    <3>1. m.saved = IF Triggered(m) THEN "TRIGGERED" ELSE m.state
      BY <2>5 DEF StagesKnown, IInv, Good, SavedFits
    <3>2. /\ StageOf(m) # "off"
          /\ StageOf(m) = "waiting" <=> m.saved = WCB
      BY <1>1, <2>5, <3>1, StageOfState DEF Triggered, WCB, Machine, State
    <3>3. OwedOf(m') = IF StageOf(m) = "waiting" THEN "wait" ELSE "trigger"
      BY <1>1, <2>3, <2>5, <3>1, <3>2 DEF Triggered, WCB, Machine
    <3>4. QED
      BY <2>3, <3>2, <3>3 DEF Simulates, Staged!Next, Staged!Restart
  <2>6. QED
    BY <2>4, <2>5
<1> QED
  BY <1>2, <1>3 DEF Outside

-----------------------------------------------------------------------------
\* Each step of the machine is a step of the stages, or none.
LEMMA StepSimulates ==
    ASSUME StagesKnown, [Next]_vars
    PROVE  Simulates
<1>1. CASE Process
  BY <1>1, OffSimulates, TriggerSimulates, CallSimulates, MsdTransferSimulates,
     VoiceSimulates, WaitCallbackSimulates, SharedSimulates DEF Process
<1>2. CASE TimerThreads \/ ModemActs
  BY <1>2, AsideSimulates
<1>3. CASE Outside
  BY <1>3, OutsideSimulates
<1>4. CASE UNCHANGED vars
  BY <1>4, UnseenStep DEF vars, Unseen, StagesKnown
<1> QED
  BY <1>1, <1>2, <1>3, <1>4 DEF Next

\* The eCall state machine keeps every promise about the stages of an eCall.
THEOREM MachineImplementsStages == Spec => ImplementsStages
<1>1. Init => Staged!Init /\ StagesKnown
  <2> SUFFICES ASSUME Init PROVE Staged!Init /\ StagesKnown
    OBVIOUS
  <2>1. IInv
    BY InitIInv
  <2>2. m \in Machine /\ m.state = "OFF" /\ m.saved = "OFF" /\ ~m.inWCB
    BY <2>1 DEF Init, IInv, Good
  <2>3. QED
    BY <2>1, <2>2, StageOfState DEF Staged!Init, StagesKnown, CalledBack, WCB
<1>2. StagesKnown /\ [Next]_vars => StagesKnown' /\ [Staged!Next]_(Staged!vars)
  <2> SUFFICES ASSUME StagesKnown, [Next]_vars
               PROVE  StagesKnown' /\ [Staged!Next]_(Staged!vars)
    OBVIOUS
  <2>1. IInv' /\ Simulates
    BY NextIInv, StepSimulates DEF StagesKnown
  <2>2. QED
    BY <2>1 DEF Simulates, StagesKnown
<1>3. QED
  BY <1>1, <1>2, PTL DEF Spec, ImplementsStages, Staged!Spec
=============================================================================
