------------------------ MODULE ECallMachine_proofs ------------------------
(***************************************************************************)
(* Proofs about the eCall state machine for every number of redials, every *)
(* configuration and every length of the queue.                            *)
(***************************************************************************)
EXTENDS ECallMachine, TLAPS

Stages == {"CALL", "MSD_TRANSFER", "VOICE_COMMUNICATION"}
Triggered(x) == x.state = "MANUAL_TRIGGERED" \/ (x.state = WCB /\ x.sub = "TRIGGERED")

\* The parts of the inductive invariant that are about the record m alone.
TimerFits(x) ==
    /\ x.stateTimer = "manual_cancel" => Triggered(x)
    /\ x.stateTimer = "registration" => x.state = "REGISTRATION"
    /\ x.stateTimer = "call" => x.state = "CALL"
    /\ x.stateTimer = "msd" => x.state = "MSD_TRANSFER"
    /\ x.stateTimer = "clear_down" => x.state = "VOICE_COMMUNICATION"
    /\ x.redialTimer => x.state \in Stages

CallFits(x) ==
    /\ x.state \in {"OFF", "MANUAL_TRIGGERED", "REGISTRATION"} => x.call = "NONE"
    /\ x.state = "CALL" => x.call \in {"DIAL", "FAIL", "ABNORMAL_HANGUP", "DISCONNECTED"}
    /\ x.state \in {"MSD_TRANSFER", "VOICE_COMMUNICATION"} =>
           x.call \in {"ACTIVE", "ABNORMAL_HANGUP", "DISCONNECTED"}
    /\ x.state = WCB => x.call \notin {"DIAL", "REDIAL", "ACTIVE"}

SavedFits(x) ==
    x.state # "OFF" => x.saved = IF Triggered(x) THEN "TRIGGERED" ELSE x.state

Limit == IF DialAttemptsEU = 0 THEN 1 ELSE DialAttemptsEU

\* The attempts are counted from the first dialling on; while a redial is
\* pending one more is allowed.
AttemptsFit(x) ==
    /\ x.attempts = 0 => x.stage = "OFF"
    /\ x.state \in Stages => x.attempts # 0
    /\ Prompt => x.attempts <= Limit /\ (x.redialTimer => x.attempts < DialAttemptsEU)

Good(x) == x \in Machine /\ TimerFits(x) /\ CallFits(x) /\ SavedFits(x) /\ AttemptsFit(x)

\* A timer runs that takes the eCall out of its state.
Armed(x) ==
    /\ Triggered(x) => x.stateTimer = "manual_cancel"
    /\ x.state = "REGISTRATION" => x.stateTimer = "registration"
    /\ x.state = "CALL" => x.stateTimer = "call" \/ (x.call # "DIAL" /\ x.redialTimer)
    /\ x.state = "VOICE_COMMUNICATION" => x.stateTimer = "clear_down"

\* What a completed transition leaves behind.
Fine(x) == Good(x) /\ Armed(x) /\ (x.state # "OFF" \/ x.saved = "OFF")

InQueue(q, e) == \E i \in 1..Len(q) : q[i] = e

\* The parts of the inductive invariant that are about the queue.
Watched(x, q) ==
    /\ Triggered(x) => x.stateTimer = "manual_cancel" \/ InQueue(q, "MANUAL_CANCEL_TIMEOUT")
    /\ x.state = "REGISTRATION" =>
           x.stateTimer = "registration" \/ InQueue(q, "REGISTRATION_TIMEOUT")
    /\ x.state = "CALL" =>
           \/ x.stateTimer = "call" \/ InQueue(q, "CALLOUT_TIMEOUT")
           \/ x.call # "DIAL" /\ (x.redialTimer \/ InQueue(q, "REDIAL_TIMEOUT"))
    /\ x.state = "VOICE_COMMUNICATION" =>
           x.stateTimer = "clear_down" \/ InQueue(q, "CLEARDOWN_TIMEOUT")

\* A call that was interrupted is triggered again; only the wait for a call
\* back is recovered.
Pending(x, q, r) ==
    x.state = "OFF" /\ x.saved # "OFF" =>
        \/ r
        \/ InQueue(q, "MANUAL_TRIGGER") \/ InQueue(q, "AUTO_TRIGGER")
        \/ x.saved = WCB /\ InQueue(q, "CALL_CRASH_RECOVERY_IND")

\* A redial that is due is handled next, and counts on the attempt left for it.
RedialNext(x, q) ==
    Prompt => \A i \in 1..Len(q) : q[i] = "REDIAL_TIMEOUT" =>
                  i = 1 /\ ~x.redialTimer /\ x.attempts < DialAttemptsEU

IInv ==
    /\ Good(m)
    /\ queue \in Seq(Event) /\ retrigger \in BOOLEAN /\ stimuli \in Nat
    /\ Watched(m, queue)
    /\ Pending(m, queue, retrigger)
    /\ RedialNext(m, queue)

-----------------------------------------------------------------------------
(* What the functions on the record return.                                *)

\* Assignments to one member.
LEMMA AssignResult ==
    ASSUME NEW x \in Machine, NEW c \in CallState
    PROVE  /\ SetCall(x, c) \in Machine /\ SetCall(x, c) = [x EXCEPT !.call = c]
           /\ SetCall(x, c).call = c
           /\ StopStateTimer(x) \in Machine /\ StopStateTimer(x).stateTimer = NoTimer
           /\ HangUp(x) \in Machine
BY DEF SetCall, StopStateTimer, HangUp, Machine, NoTimer, Modem

\* What the machine is after it has entered OFF.
LEMMA EnterOffResult ==
    ASSUME NEW x \in Machine
    PROVE  /\ EnterOff(x) \in Machine
           /\ EnterOff(x).state = "OFF" /\ EnterOff(x).call = "NONE"
           /\ EnterOff(x).stateTimer = NoTimer /\ EnterOff(x).saved = "OFF"
           /\ EnterOff(x).redialTimer = x.redialTimer
           /\ EnterOff(x).attempts = x.attempts /\ EnterOff(x).stage = x.stage
BY DEF EnterOff, Machine, State, CallState, NoTimer, SavedState

\* What a dial changes.
LEMMA DialResult ==
    ASSUME NEW x \in Machine
    PROVE  /\ Dial(x) \in Machine
           /\ Dial(x).call = "DIAL" /\ Dial(x).stateTimer = "call"
           /\ Dial(x).state = x.state /\ Dial(x).redialTimer = x.redialTimer
           /\ Dial(x).saved = x.saved
           /\ Dial(x).attempts = x.attempts /\ Dial(x).stage = x.stage
BY DEF Dial, Machine, StateTimer, CallState, Modem

\* The attempts are kept or start again with one.
LEMMA ResetResult ==
    ASSUME NEW x \in Machine, NEW s \in State, NEW b \in BOOLEAN
    PROVE  LET y == ResetRedialAttempts(x, s, b)
           IN  /\ y \in Machine
               /\ y = [x EXCEPT !.attempts = y.attempts, !.stage = y.stage]
               /\ \/ b /\ y.attempts = 1
                  \/ Rank(s) > Rank(x.stage) /\ y.attempts = 1
                  \/ y.attempts = x.attempts /\ y.stage = x.stage
                     /\ ~(Rank(s) > Rank(x.stage))
BY DEF ResetRedialAttempts, Machine

-----------------------------------------------------------------------------
(* The functions on the record establish its part of the invariant.        *)

\* Entering OFF leads to a good machine.
LEMMA OffFine ==
    ASSUME NEW x \in Machine, AttemptsFit(x), ~x.redialTimer
    PROVE  Fine(EnterOff(x)) /\ EnterOff(x).state = "OFF" /\ EnterOff(x).saved = "OFF"
BY EnterOffResult DEF Fine, Armed, Good, TimerFits, CallFits, SavedFits, AttemptsFit, Triggered,
                      NoTimer, WCB, Stages

\* So does entering MANUAL_TRIGGERED.
LEMMA ManualTriggerFine ==
    ASSUME NEW x \in Machine, AttemptsFit(x), ~x.redialTimer, x.call = "NONE"
    PROVE  Fine(EnterManualTrigger(x))
<1> DEFINE y == EnterManualTrigger(x)
<1>1. y \in Machine
  BY DEF EnterManualTrigger, Machine, State, StateTimer, SavedState
<1>2. /\ y.state = "MANUAL_TRIGGERED" /\ y.stateTimer = "manual_cancel"
      /\ y.saved = "TRIGGERED" /\ y.call = x.call /\ y.redialTimer = x.redialTimer
      /\ y.attempts = x.attempts /\ y.stage = x.stage
  BY DEF EnterManualTrigger, Machine
<1> QED
  BY <1>1, <1>2 DEF Fine, Armed, Good, TimerFits, CallFits, SavedFits, AttemptsFit, Triggered, WCB, Stages

\* So does entering REGISTRATION.
LEMMA RegistrationFine ==
    ASSUME NEW x \in Machine, AttemptsFit(x), ~x.redialTimer, x.call = "NONE"
    PROVE  Fine(EnterRegistration(x))
<1> DEFINE y == EnterRegistration(x)
<1>1. y \in Machine
  BY DEF EnterRegistration, Machine, State, StateTimer, SavedState
<1>2. /\ y.state = "REGISTRATION" /\ y.stateTimer = "registration"
      /\ y.saved = "REGISTRATION" /\ y.call = x.call /\ y.redialTimer = x.redialTimer
      /\ y.attempts = x.attempts /\ y.stage = x.stage
  BY DEF EnterRegistration, Machine
<1> QED
  BY <1>1, <1>2 DEF Fine, Armed, Good, TimerFits, CallFits, SavedFits, AttemptsFit, Triggered, WCB, Stages

\* A new call starts to count its attempts.
LEMMA NewCallFine ==
    ASSUME NEW x \in Machine, ~x.redialTimer
    PROVE  Fine(EnterCall(SetCall(x, "NONE")))
<1> DEFINE y == [SetCall(x, "NONE") EXCEPT !.state = "CALL", !.inWCB = FALSE, !.saved = "CALL"]
           z == EnterCall(SetCall(x, "NONE"))
<1>1. y \in Machine /\ SetCall(x, "NONE").call = "NONE" /\ y.redialTimer = x.redialTimer
      /\ y.state = "CALL" /\ y.saved = "CALL"
  BY DEF SetCall, Machine, State, CallState, SavedState
<1>2. z = ResetRedialAttempts(Dial(y), "CALL", TRUE)
  BY <1>1 DEF EnterCall
<1>3. z = [Dial(y) EXCEPT !.attempts = 1, !.stage = "CALL"]
  BY <1>2 DEF ResetRedialAttempts
<1> HIDE DEF y, z
<1>4. /\ z \in Machine
      /\ z.state = "CALL" /\ z.saved = "CALL" /\ z.call = "DIAL" /\ z.stateTimer = "call"
      /\ z.redialTimer = FALSE /\ z.attempts = 1 /\ z.stage = "CALL"
  <2>1. Dial(y) \in Machine
    BY <1>1, DialResult
  <2>2. z \in Machine
    BY <2>1, <1>3 DEF Machine, State
  <2>3. z.attempts = 1 /\ z.stage = "CALL" /\ z.call = Dial(y).call
        /\ z.stateTimer = Dial(y).stateTimer /\ z.state = Dial(y).state
        /\ z.redialTimer = Dial(y).redialTimer /\ z.saved = Dial(y).saved
    BY <2>1, <1>3 DEF Machine
  <2>4. x.redialTimer = FALSE
    BY DEF Machine
  <2>5. QED
    BY <1>1, <2>2, <2>3, <2>4, DialResult
<1>5. Limit >= 1
  BY MachineAssumption DEF Limit
<1> QED
  BY <1>4, <1>5 DEF z, Fine, Armed, Good, TimerFits, CallFits, SavedFits, AttemptsFit, Triggered, WCB, Stages

\* A redial is one more attempt, and is only made while one is left.
LEMMA RedialFine ==
    ASSUME NEW x \in Machine, Good(x), x.redialTimer => x.state \in Stages,
           Prompt => ~x.redialTimer /\ x.attempts < DialAttemptsEU
    PROVE  Fine(EnterCall(SetCall(x, "REDIAL")))
<1> DEFINE y == [SetCall(x, "REDIAL") EXCEPT !.state = "CALL", !.inWCB = FALSE, !.saved = "CALL"]
           z == EnterCall(SetCall(x, "REDIAL"))
<1>1. y \in Machine /\ SetCall(x, "REDIAL").call = "REDIAL" /\ y.redialTimer = x.redialTimer
      /\ y.state = "CALL" /\ y.saved = "CALL" /\ y.attempts = x.attempts /\ y.stage = x.stage
  BY DEF SetCall, Machine, State, CallState, SavedState
<1>2. z = [Dial(y) EXCEPT !.attempts = Dial(y).attempts + 1]
  BY <1>1 DEF EnterCall
<1> HIDE DEF y, z
<1>3. Dial(y) \in Machine
  BY <1>1, DialResult
<1>4. z \in Machine
  BY <1>2, <1>3 DEF Machine
<1>5. z.attempts = Dial(y).attempts + 1 /\ z.stage = Dial(y).stage /\ z.call = Dial(y).call
      /\ z.stateTimer = Dial(y).stateTimer /\ z.state = Dial(y).state
      /\ z.redialTimer = Dial(y).redialTimer /\ z.saved = Dial(y).saved
  BY <1>2, <1>3 DEF Machine
<1>6. x.attempts \in Nat
  BY DEF Machine
<1>7. /\ z.state = "CALL" /\ z.saved = "CALL" /\ z.call = "DIAL" /\ z.stateTimer = "call"
      /\ z.redialTimer = x.redialTimer /\ z.attempts = x.attempts + 1
  BY <1>1, <1>5, DialResult
<1>8. AttemptsFit(z)
  <2>1. z.attempts # 0
    BY <1>6, <1>7
  <2>2. ASSUME Prompt PROVE z.attempts <= Limit /\ ~z.redialTimer
    BY <1>6, <1>7, <2>2, MachineAssumption DEF Limit
  <2>3. QED
    BY Zenon, <2>1, <2>2 DEF AttemptsFit
<1> QED
  BY <1>4, <1>7, <1>8 DEF z, Fine, Armed, Good, TimerFits, CallFits, SavedFits, Triggered,
                          WCB, Stages

\* A later stage of the call counts its attempts anew; a pending redial stays
\* within the number.
LEMMA ResetFits ==
    ASSUME NEW x \in Machine, AttemptsFit(x), NEW s \in Stages,
           x.attempts = 0 => ~x.redialTimer
    PROVE  LET y == ResetRedialAttempts(x, s, FALSE)
           IN  /\ y.attempts # 0
               /\ Prompt => /\ y.attempts <= Limit
                            /\ x.redialTimer => y.attempts < DialAttemptsEU
<1> DEFINE y == ResetRedialAttempts(x, s, FALSE)
<1>1. s \in State /\ x.attempts \in Nat
  BY DEF Stages, State, Machine
<1>2. \/ y.attempts = 1
      \/ y.attempts = x.attempts /\ y.stage = x.stage /\ ~(Rank(s) > Rank(x.stage))
  BY <1>1, ResetResult
<1>3. Rank(s) > Rank("OFF")
  BY DEF Rank, Stages
<1>4. Limit >= 1 /\ Limit \in Nat /\ DialAttemptsEU \in Nat
  BY MachineAssumption DEF Limit
<1> HIDE DEF y
<1>5. CASE y.attempts = 1
  <2>1. ASSUME Prompt, x.redialTimer PROVE 1 < DialAttemptsEU
    BY <1>1, <1>4, <2>1 DEF AttemptsFit
  <2>2. y.attempts # 0 /\ y.attempts <= Limit /\ (1 < DialAttemptsEU => y.attempts < DialAttemptsEU)
    BY <1>4, <1>5
  <2>3. QED
    BY Zenon, <2>1, <2>2 DEF y
<1>6. CASE y.attempts = x.attempts /\ ~(Rank(s) > Rank(x.stage))
  <2>1. x.attempts # 0
    BY <1>3, <1>6 DEF AttemptsFit
  <2>2. QED
    BY <1>6, <2>1 DEF AttemptsFit, y
<1> QED
  BY <1>2, <1>5, <1>6

\* So does entering MSD_TRANSFER with a call that has been dialled.
LEMMA MsdTransferFine ==
    ASSUME NEW x \in Machine, AttemptsFit(x), x.attempts # 0,
           x.call \in {"ACTIVE", "ABNORMAL_HANGUP", "DISCONNECTED"},
           x.stateTimer \in {NoTimer, "msd"}
    PROVE  Fine(EnterMsdTransfer(x)) /\ EnterMsdTransfer(x).state = "MSD_TRANSFER"
<1> DEFINE r == ResetRedialAttempts(x, "MSD_TRANSFER", FALSE)
           z == EnterMsdTransfer(x)
<1>1. "MSD_TRANSFER" \in State /\ "MSD_TRANSFER" \in Stages
  BY DEF State, Stages
<1>2. r \in Machine /\ r = [x EXCEPT !.attempts = r.attempts, !.stage = r.stage]
  BY <1>1, ResetResult
<1>3. r.attempts # 0 /\ (Prompt => /\ r.attempts <= Limit
                                   /\ x.redialTimer => r.attempts < DialAttemptsEU)
  BY <1>1, ResetFits
<1>4. \E t \in {NoTimer, "msd"} :
         z = [r EXCEPT !.state = "MSD_TRANSFER", !.saved = "MSD_TRANSFER", !.stateTimer = t]
  <2>1. r.stateTimer = x.stateTimer
    BY <1>2 DEF Machine
  <2>2. QED
    BY <2>1 DEF EnterMsdTransfer
<1>5. PICK t \in {NoTimer, "msd"} :
         z = [r EXCEPT !.state = "MSD_TRANSFER", !.saved = "MSD_TRANSFER", !.stateTimer = t]
  BY <1>4
<1> HIDE DEF r, z
<1>6. z \in Machine
  BY <1>2, <1>5 DEF Machine, State, SavedState, StateTimer
<1>7. r.call = x.call /\ r.redialTimer = x.redialTimer
  BY <1>2 DEF Machine
<1>8. /\ z.state = "MSD_TRANSFER" /\ z.saved = "MSD_TRANSFER" /\ z.stateTimer = t
      /\ z.call = x.call /\ z.redialTimer = x.redialTimer /\ z.attempts = r.attempts
  BY <1>2, <1>5, <1>7 DEF Machine
<1> QED
  BY <1>3, <1>6, <1>8 DEF z, Fine, Armed, Good, TimerFits, CallFits, SavedFits, AttemptsFit, Triggered,
                          WCB, Stages, NoTimer

\* So does entering VOICE_COMMUNICATION with a call.
LEMMA VoiceFine ==
    ASSUME NEW x \in Machine, AttemptsFit(x), x.attempts = 0 => ~x.redialTimer,
           x.call \in {"ACTIVE", "ABNORMAL_HANGUP", "DISCONNECTED"}
    PROVE  /\ Fine(EnterVoiceCommunication(x))
           /\ EnterVoiceCommunication(x).state = "VOICE_COMMUNICATION"
           /\ EnterVoiceCommunication(x).stateTimer = "clear_down"
<1> DEFINE y == IF x.state = "WAITING_FOR_CALLBACK" THEN SetExitWCBTime(x) ELSE x
           r == ResetRedialAttempts(y, "VOICE_COMMUNICATION", FALSE)
           z == EnterVoiceCommunication(x)
<1>1. "VOICE_COMMUNICATION" \in State /\ "VOICE_COMMUNICATION" \in Stages
  BY DEF State, Stages
<1>2. y \in Machine /\ y.call = x.call /\ y.redialTimer = x.redialTimer
      /\ y.attempts = x.attempts /\ y.stage = x.stage /\ y.state = x.state
  BY DEF SetExitWCBTime, Machine
<1>3. z = [r EXCEPT !.state = "VOICE_COMMUNICATION", !.saved = "VOICE_COMMUNICATION",
                    !.stateTimer = "clear_down"]
  BY DEF EnterVoiceCommunication
<1> HIDE DEF y
<1>4. AttemptsFit(y)
  BY <1>2 DEF AttemptsFit
<1>5. r \in Machine /\ r = [y EXCEPT !.attempts = r.attempts, !.stage = r.stage]
  BY <1>1, <1>2, ResetResult
<1>6. r.attempts # 0 /\ (Prompt => /\ r.attempts <= Limit
                                   /\ y.redialTimer => r.attempts < DialAttemptsEU)
  BY <1>1, <1>2, <1>4, ResetFits
<1> HIDE DEF r, z
<1>7. z \in Machine
  BY <1>3, <1>5 DEF Machine, State, SavedState, StateTimer
<1>8. r.call = x.call /\ r.redialTimer = x.redialTimer
  BY <1>2, <1>5 DEF Machine
<1>9. /\ z.state = "VOICE_COMMUNICATION" /\ z.saved = "VOICE_COMMUNICATION"
      /\ z.stateTimer = "clear_down" /\ z.call = x.call
      /\ z.redialTimer = x.redialTimer /\ z.attempts = r.attempts
  BY <1>3, <1>5, <1>8 DEF Machine
<1> QED
  BY <1>2, <1>6, <1>7, <1>9 DEF z, Fine, Armed, Good, TimerFits, CallFits, SavedFits, AttemptsFit,
                                Triggered, WCB, Stages

\* WAITING_FOR_CALLBACK is entered with no timer of the call running.
LEMMA WCBFine ==
    ASSUME NEW x \in Machine, AttemptsFit(x), x.call \notin {"DIAL", "REDIAL", "ACTIVE"}
    PROVE  /\ Fine(EnterWCB(x))
           /\ \/ EnterWCB(x).state = "OFF" /\ EnterWCB(x).saved = "OFF"
              \/ EnterWCB(x).state = WCB /\ EnterWCB(x).sub = "IDLE"
<1> DEFINE y == [SetEnterWCBTime(x) EXCEPT
                    !.redialTimer = FALSE, !.stateTimer = NoTimer, !.msdTimer = FALSE,
                    !.remaining = IF x.inWCB THEN @ ELSE AutoAnswers]
           w == [y EXCEPT !.state = "WAITING_FOR_CALLBACK", !.sub = "IDLE",
                          !.inWCB = TRUE, !.callbackTimer = TRUE,
                          !.saved = "WAITING_FOR_CALLBACK"]
<1>1. EnterWCB(x) = IF ~y.remaining THEN EnterOff(y) ELSE w
  BY Zenon DEF EnterWCB
<1>2. y \in Machine /\ y.redialTimer = FALSE /\ y.attempts = x.attempts
      /\ y.stage = x.stage /\ y.call = x.call /\ y.stateTimer = NoTimer
  BY MachineAssumption DEF SetEnterWCBTime, Machine, NoTimer
<1>3. /\ w \in Machine /\ w.state = WCB /\ w.sub = "IDLE" /\ w.saved = WCB
      /\ w.redialTimer = y.redialTimer /\ w.attempts = y.attempts /\ w.stage = y.stage
      /\ w.call = y.call /\ w.stateTimer = y.stateTimer
  <2> HIDE DEF y
  <2> QED
    BY <1>2 DEF Machine, State, SavedState, WCB
<1> HIDE DEF y, w
<1>4. AttemptsFit(y) /\ AttemptsFit(w)
  <2>1. ~y.redialTimer /\ ~w.redialTimer /\ w.state \notin Stages /\ y.attempts = x.attempts
        /\ w.attempts = x.attempts /\ y.stage = x.stage /\ w.stage = x.stage
    BY <1>2, <1>3 DEF Stages, WCB
  <2>2. x.attempts = 0 => x.stage = "OFF"
    BY DEF AttemptsFit
  <2>3. Prompt => x.attempts <= Limit
    BY DEF AttemptsFit
  <2>4. y.state \in Stages => x.attempts # 0
    BY DEF AttemptsFit, y, SetEnterWCBTime, Machine
  <2>5. QED
    BY Zenon, <2>1, <2>2, <2>3, <2>4 DEF AttemptsFit
<1>5. Fine(w)
  BY <1>2, <1>3, <1>4 DEF Fine, Armed, Good, TimerFits, CallFits, SavedFits, Triggered, WCB, NoTimer, Stages
<1> QED
  BY <1>1, <1>2, <1>3, <1>4, <1>5, OffFine

\* The manual trigger while waiting for a call back, and its cancellation.
LEMMA WCBTriggerFine ==
    ASSUME NEW x \in Machine, AttemptsFit(x), ~x.redialTimer, x.state = WCB,
           x.call \notin {"DIAL", "REDIAL", "ACTIVE"}
    PROVE  Fine(EnterWCBManualTrigger(x)) /\ Fine(EnterWCBIdle(x))
<1> DEFINE y == EnterWCBManualTrigger(x)
           z == EnterWCBIdle(x)
<1>1. y \in Machine
  BY DEF EnterWCBManualTrigger, Machine, StateTimer, SavedState
<1>2. /\ y.state = WCB /\ y.sub = "TRIGGERED" /\ y.stateTimer = "manual_cancel"
      /\ y.saved = "TRIGGERED" /\ y.call = x.call /\ y.redialTimer = x.redialTimer
      /\ y.attempts = x.attempts /\ y.stage = x.stage
  BY DEF EnterWCBManualTrigger, Machine
<1>3. z \in Machine
  BY DEF EnterWCBIdle, SetEnterWCBTime, Machine, SavedState, NoTimer
<1>4. /\ z.state = WCB /\ z.sub = "IDLE" /\ z.stateTimer = NoTimer
      /\ z.saved = WCB /\ z.call = x.call /\ z.redialTimer = x.redialTimer
      /\ z.attempts = x.attempts /\ z.stage = x.stage
  BY DEF EnterWCBIdle, SetEnterWCBTime, Machine, WCB
<1> HIDE DEF y, z
<1>5. Fine(y)
  BY <1>1, <1>2 DEF Fine, Armed, Good, TimerFits, CallFits, SavedFits, AttemptsFit,
                    Triggered, WCB, Stages
<1>6. Fine(z)
  BY <1>3, <1>4 DEF Fine, Armed, Good, TimerFits, CallFits, SavedFits, AttemptsFit,
                    Triggered, WCB, Stages, NoTimer
<1> QED
  BY <1>5, <1>6 DEF y, z

\* A change of the record that no part of the invariant about it looks at, or
\* that only stops the timer of the state.
LEMMA KeepsGood ==
    ASSUME NEW x, Good(x), NEW y \in Machine,
           y.state = x.state, y.sub = x.sub, y.saved = x.saved,
           y.attempts = x.attempts, y.stage = x.stage, y.redialTimer => x.redialTimer,
           y.stateTimer = x.stateTimer \/ y.stateTimer = NoTimer,
           CallFits(y)
    PROVE  Good(y)
<1>1. TimerFits(y)
  BY DEF Good, TimerFits, Triggered, NoTimer
<1>2. SavedFits(y)
  BY DEF Good, SavedFits, Triggered
<1>3. AttemptsFit(y)
  <2>1. x.redialTimer \in BOOLEAN /\ y.redialTimer \in BOOLEAN
    BY DEF Good, Machine
  <2>2. QED
    BY <2>1 DEF Good, AttemptsFit
<1> QED
  BY <1>1, <1>2, <1>3 DEF Good

\* Ends of a call in one of its stages, with or without an attempt left.
LEMMA RedialOrGiveUpResult ==
    ASSUME NEW x, Good(x), x.state \in Stages, x.call \notin {"DIAL", "ACTIVE"}
    PROVE  LET y == RedialOrGiveUp(x)
           IN  \/ Fine(y)
               \/ /\ Good(y) /\ x.state = "VOICE_COMMUNICATION" /\ y.state = x.state
                  /\ y.sub = x.sub /\ y.stateTimer = x.stateTimer /\ y.redialTimer
                  /\ y.call = x.call /\ y.saved = x.saved
<1> DEFINE y == [x EXCEPT !.redialTimer = TRUE]
<1>1. x \in Machine /\ x.call # "REDIAL"
  BY DEF Good, CallFits, Stages
<1>2. CASE ~(x.attempts < DialAttemptsEU)
  BY <1>1, <1>2, WCBFine DEF RedialOrGiveUp, Good
<1>3. CASE x.attempts < DialAttemptsEU
  <2>1. RedialOrGiveUp(x) = y
    BY <1>3 DEF RedialOrGiveUp
  <2>2. /\ y \in Machine /\ y.redialTimer
        /\ y.state = x.state /\ y.sub = x.sub /\ y.saved = x.saved /\ y.call = x.call
        /\ y.attempts = x.attempts /\ y.stage = x.stage /\ y.stateTimer = x.stateTimer
    BY <1>1 DEF Machine
  <2> HIDE DEF y
  <2>3. TimerFits(y) /\ CallFits(y) /\ SavedFits(y)
    BY <2>2 DEF Good, TimerFits, CallFits, SavedFits, Triggered
  <2>4. AttemptsFit(y)
    BY <1>3, <2>2 DEF Good, AttemptsFit
  <2>5. Good(y)
    BY <2>2, <2>3, <2>4 DEF Good
  <2>6. CASE x.state = "VOICE_COMMUNICATION"
    BY <2>1, <2>2, <2>5, <2>6
  <2>7. CASE x.state # "VOICE_COMMUNICATION"
    <3>1. Armed(y)
      BY <2>2, <2>7 DEF Armed, Triggered, WCB, Stages
    <3>2. QED
      BY <2>1, <2>2, <2>5, <3>1 DEF Fine, Stages
  <2>8. QED
    BY <2>6, <2>7
<1> QED
  BY <1>2, <1>3

-----------------------------------------------------------------------------
(* The queue.                                                              *)

\* The events of a queue without its head.
LEMMA TailFacts ==
    ASSUME NEW q \in Seq(Event), q # <<>>
    PROVE  /\ Tail(q) \in Seq(Event) /\ Head(q) \in Event
           /\ \A e : InQueue(q, e) => Head(q) = e \/ InQueue(Tail(q), e)
           /\ \A i \in 1..Len(Tail(q)) : i + 1 \in 1..Len(q) /\ Tail(q)[i] = q[i + 1]
<1>1. /\ Tail(q) \in Seq(Event) /\ Head(q) \in Event /\ Head(q) = q[1]
      /\ Len(q) \in Nat /\ Len(Tail(q)) = Len(q) - 1
  OBVIOUS
<1>2. \A i \in 1..Len(Tail(q)) : i + 1 \in 1..Len(q) /\ Tail(q)[i] = q[i + 1]
  BY <1>1
<1>3. ASSUME NEW e, NEW i \in 1..Len(q), q[i] = e, i # 1
      PROVE  \E j \in 1..Len(Tail(q)) : Tail(q)[j] = e
  <2>1. i - 1 \in 1..Len(Tail(q)) /\ (i - 1) + 1 = i
    BY <1>1, <1>3
  <2>2. Tail(q)[i - 1] = q[(i - 1) + 1]
    BY <1>2, <2>1
  <2>3. Tail(q)[i - 1] = e
    BY <1>3, <2>1, <2>2
  <2>4. QED
    BY <2>1, <2>3
<1> QED
  BY <1>1, <1>2, <1>3 DEF InQueue

\* The events of a queue with one more.
LEMMA AppendFacts ==
    ASSUME NEW q \in Seq(Event), NEW e \in Event
    PROVE  /\ q \o <<e>> = Append(q, e) /\ q \o <<>> = q
           /\ Append(q, e) \in Seq(Event)
           /\ InQueue(Append(q, e), e)
           /\ \A d : InQueue(q, d) => InQueue(Append(q, e), d)
           /\ \A i \in 1..Len(Append(q, e)) :
                 (i \in 1..Len(q) /\ Append(q, e)[i] = q[i])
                 \/ (i = Len(q) + 1 /\ Append(q, e)[i] = e)
<1>1. /\ q \o <<e>> = Append(q, e) /\ q \o <<>> = q /\ Append(q, e) \in Seq(Event)
      /\ Len(q) \in Nat /\ Len(Append(q, e)) = Len(q) + 1
      /\ Append(q, e)[Len(q) + 1] = e
  OBVIOUS
<1>2. \A i \in 1..Len(q) : Append(q, e)[i] = q[i]
  OBVIOUS
<1>3. \A i \in 1..(Len(q) + 1) : i \in 1..Len(q) \/ i = Len(q) + 1
  BY <1>1
<1>4. InQueue(Append(q, e), e)
  <2>1. Len(q) + 1 \in 1..Len(Append(q, e))
    BY <1>1
  <2>2. QED
    BY <1>1, <2>1 DEF InQueue
<1>5. ASSUME NEW d, InQueue(q, d) PROVE InQueue(Append(q, e), d)
  <2>1. PICK i \in 1..Len(q) : q[i] = d
    BY <1>5 DEF InQueue
  <2>2. i \in 1..Len(Append(q, e)) /\ Append(q, e)[i] = d
    BY <1>1, <1>2, <2>1
  <2>3. QED
    BY <2>2 DEF InQueue
<1>6. \A i \in 1..Len(Append(q, e)) :
         (i \in 1..Len(q) /\ Append(q, e)[i] = q[i])
         \/ (i = Len(q) + 1 /\ Append(q, e)[i] = e)
  BY <1>1, <1>2, <1>3
<1> QED
  BY <1>1, <1>4, <1>5, <1>6

\* No second redial waits behind the event that is handled.
LEMMA NoRedialBehind ==
    ASSUME NEW q \in Seq(Event), q # <<>>, NEW x, RedialNext(x, q)
    PROVE  \A y : RedialNext(y, Tail(q))
<1>1. ASSUME Prompt, NEW i \in 1..Len(Tail(q)) PROVE Tail(q)[i] # "REDIAL_TIMEOUT"
  <2>1. i + 1 \in 1..Len(q) /\ Tail(q)[i] = q[i + 1] /\ i + 1 # 1
    BY TailFacts
  <2>2. QED
    BY <1>1, <2>1 DEF RedialNext
<1> QED
  BY <1>1 DEF RedialNext

\* A handler that completes a transition.
LEMMA BecomesFine ==
    ASSUME IInv, queue # <<>>, NEW x, Fine(x), Becomes(x)
    PROVE  IInv'
<1>1. m' = x /\ queue' = Tail(queue) /\ retrigger' = retrigger /\ stimuli' = stimuli
  BY DEF Becomes
<1>2. Good(m')
  BY <1>1 DEF Fine, Good, TimerFits, CallFits, SavedFits, AttemptsFit, Triggered
<1>3. queue' \in Seq(Event) /\ retrigger' \in BOOLEAN /\ stimuli' \in Nat
  BY <1>1, TailFacts DEF IInv
<1>4. Watched(m', queue') /\ Pending(m', queue', retrigger')
  BY <1>1 DEF Fine, Armed, Triggered, Watched, Pending
<1>5. RedialNext(m', queue')
  BY <1>1, NoRedialBehind DEF IInv
<1> QED
  BY <1>2, <1>3, <1>4, <1>5 DEF IInv

\* A handler that leaves the machine where it is, and takes no event that the
\* state waits for.
LEMMA BecomesKeeps ==
    ASSUME IInv, queue # <<>>, NEW x, Good(x), Becomes(x),
           x.state = m.state, x.sub = m.sub, x.stateTimer = m.stateTimer,
           x.saved = m.saved, m.redialTimer => x.redialTimer,
           x.state = "CALL" /\ x.call = "DIAL" => m.call = "DIAL",
           Triggered(m) => Head(queue) # "MANUAL_CANCEL_TIMEOUT",
           m.state = "REGISTRATION" => Head(queue) # "REGISTRATION_TIMEOUT",
           m.state = "CALL" => Head(queue) # "CALLOUT_TIMEOUT",
           m.state = "CALL" /\ m.call # "DIAL" => Head(queue) # "REDIAL_TIMEOUT",
           m.state = "VOICE_COMMUNICATION" => Head(queue) # "CLEARDOWN_TIMEOUT",
           m.state = "OFF" => Head(queue) \notin {"MANUAL_TRIGGER", "AUTO_TRIGGER"},
           m.state = "OFF" /\ m.saved = WCB => Head(queue) # "CALL_CRASH_RECOVERY_IND"
    PROVE  IInv'
<1>1. m' = x /\ queue' = Tail(queue) /\ retrigger' = retrigger /\ stimuli' = stimuli
  BY DEF Becomes
<1>2. Good(m')
  BY <1>1 DEF Good, TimerFits, CallFits, SavedFits, AttemptsFit, Triggered
<1>3. queue' \in Seq(Event) /\ retrigger' \in BOOLEAN /\ stimuli' \in Nat
  BY <1>1, TailFacts DEF IInv
<1>4. \A e : InQueue(queue, e) => Head(queue) = e \/ InQueue(queue', e)
  BY <1>1, TailFacts DEF IInv
<1>5. Triggered(x) <=> Triggered(m)
  BY DEF Triggered
<1>6. Watched(x, queue')
  <2>1. Triggered(x) => x.stateTimer = "manual_cancel" \/ InQueue(queue', "MANUAL_CANCEL_TIMEOUT")
    BY <1>4, <1>5 DEF IInv, Watched
  <2>2. x.state = "REGISTRATION" =>
            x.stateTimer = "registration" \/ InQueue(queue', "REGISTRATION_TIMEOUT")
    BY <1>4 DEF IInv, Watched
  <2>3. x.state = "VOICE_COMMUNICATION" =>
            x.stateTimer = "clear_down" \/ InQueue(queue', "CLEARDOWN_TIMEOUT")
    BY <1>4 DEF IInv, Watched
  <2>4. ASSUME x.state = "CALL", x.stateTimer # "call", ~InQueue(queue', "CALLOUT_TIMEOUT")
        PROVE  x.call # "DIAL" /\ (x.redialTimer \/ InQueue(queue', "REDIAL_TIMEOUT"))
    BY <1>4, <2>4 DEF IInv, Watched
  <2>5. QED
    BY <2>1, <2>2, <2>3, <2>4 DEF Watched
<1>7. Pending(m', queue', retrigger')
  BY <1>1, <1>4 DEF IInv, Pending
<1>8. RedialNext(m', queue')
  BY <1>1, NoRedialBehind DEF IInv
<1> QED
  BY <1>1, <1>2, <1>3, <1>6, <1>7, <1>8 DEF IInv

-----------------------------------------------------------------------------
(* The handlers.                                                           *)

\* What the handlers use of the invariant, and the event that one of them takes.
LEMMA HandlerFacts ==
    ASSUME IInv
    PROVE  /\ Good(m) /\ m \in Machine /\ AttemptsFit(m)
           /\ m.state \notin Stages => ~m.redialTimer
           /\ m.state \in {"OFF", "MANUAL_TRIGGERED", "REGISTRATION"} => m.call = "NONE"
           /\ m.state \in Stages => m.attempts # 0 /\ m.call \notin {"REDIAL", "NONE"}
           /\ m.state = WCB => m.call \notin {"DIAL", "REDIAL", "ACTIVE"}
           /\ \A s, E : In(s, E) => m.state = s /\ queue # <<>> /\ Head(queue) \in E
BY DEF IInv, Good, TimerFits, CallFits, AttemptsFit, Stages, In, WCB

\* The handlers of OFF keep the invariant.
LEMMA OffStep ==
    ASSUME IInv, ProcessOff
    PROVE  IInv'
<1>1. CASE TriggerInOff
  BY <1>1, HandlerFacts, RegistrationFine, BecomesFine DEF TriggerInOff, Stages
<1>2. CASE LongPressInOff
  BY <1>2, HandlerFacts, RegistrationFine, ManualTriggerFine, BecomesFine
     DEF LongPressInOff, Stages
<1>3. CASE RecoverInOff
  <2> DEFINE x == SetExitWCBTime([m EXCEPT !.inWCB = TRUE])
  <2>1. m.state = "OFF" /\ queue # <<>> /\ Head(queue) = "CALL_CRASH_RECOVERY_IND"
    BY <1>3 DEF RecoverInOff, In
  <2>2. /\ x \in Machine /\ x.state = m.state /\ x.call = m.call /\ x.stage = m.stage
        /\ x.attempts = m.attempts /\ x.redialTimer = m.redialTimer
    BY HandlerFacts DEF SetExitWCBTime, Machine
  <2>3. ~m.redialTimer /\ m.call = "NONE" /\ AttemptsFit(m)
    BY <2>1, HandlerFacts DEF Stages
  <2>4. AttemptsFit(x)
    BY <2>2, <2>3 DEF AttemptsFit
  <2>5. \/ m.saved # WCB /\ Becomes(m)
        \/ Becomes(EnterWCB(x))
        \/ Becomes(EnterOff(x))
    BY <1>3 DEF RecoverInOff, WCB
  <2> HIDE DEF x
  <2>6. CASE m.saved # WCB /\ Becomes(m)
    BY <2>1, <2>6, HandlerFacts, BecomesKeeps DEF Triggered, WCB
  <2>7. CASE Becomes(EnterWCB(x))
    BY <2>1, <2>2, <2>3, <2>4, <2>7, WCBFine, BecomesFine
  <2>8. CASE Becomes(EnterOff(x))
    BY <2>1, <2>2, <2>3, <2>4, <2>8, OffFine, BecomesFine
  <2>9. QED
    BY <2>5, <2>6, <2>7, <2>8
<1> QED
  BY <1>1, <1>2, <1>3 DEF ProcessOff

\* The handlers of MANUAL_TRIGGERED and REGISTRATION keep the invariant.
LEMMA TriggerStep ==
    ASSUME IInv, ProcessManualTrigger \/ ProcessRegistration
    PROVE  IInv'
<1>1. CASE CancelManualTrigger
  BY <1>1, HandlerFacts, OffFine, BecomesFine DEF CancelManualTrigger, Stages
<1>2. CASE ConfirmManualTrigger
  BY <1>2, HandlerFacts, RegistrationFine, BecomesFine DEF ConfirmManualTrigger, Stages
<1>3. CASE Registered
  BY <1>3, HandlerFacts, NewCallFine, BecomesFine DEF Registered, Stages
<1>4. CASE RegistrationFails
  BY <1>4, HandlerFacts, OffFine, BecomesFine DEF RegistrationFails, Stages
<1> QED
  BY <1>1, <1>2, <1>3, <1>4 DEF ProcessManualTrigger, ProcessRegistration

\* The ends of a call: the timer of the state is stopped, or not, and the
\* state of the call is set.
LEMMA CallEnds ==
    ASSUME IInv, queue # <<>>, m.state \in Stages, NEW y \in Machine,
           NEW c \in {"ABNORMAL_HANGUP", "DISCONNECTED"},
           y.call = c, y.state = m.state, y.sub = m.sub, y.saved = m.saved,
           y.attempts = m.attempts, y.stage = m.stage, y.redialTimer = m.redialTimer,
           m.state = "VOICE_COMMUNICATION" =>
               y.stateTimer = m.stateTimer /\ Head(queue) # "CLEARDOWN_TIMEOUT",
           m.state # "VOICE_COMMUNICATION" => y.stateTimer = NoTimer,
           Becomes(RedialOrGiveUp(y))
    PROVE  IInv'
<1>1. CallFits(y)
  BY DEF CallFits, Stages, WCB
<1>2. Good(y)
  BY <1>1, HandlerFacts, KeepsGood
<1>3. CASE Fine(RedialOrGiveUp(y))
  BY <1>3, BecomesFine
<1>4. CASE ~Fine(RedialOrGiveUp(y))
  <2> DEFINE z == RedialOrGiveUp(y)
  <2>1. /\ Good(z) /\ y.state = "VOICE_COMMUNICATION" /\ z.state = y.state
        /\ z.sub = y.sub /\ z.stateTimer = y.stateTimer /\ z.redialTimer
        /\ z.call = y.call /\ z.saved = y.saved
    BY <1>2, <1>4, RedialOrGiveUpResult
  <2> HIDE DEF z
  <2>2. Becomes(z)
    BY DEF z
  <2>3. QED
    BY <2>1, <2>2, BecomesKeeps DEF Triggered, WCB
<1> QED
  BY <1>3, <1>4

\* A handler that enters MSD_TRANSFER while the callback of the MSD timer queues
\* its timeout keeps the invariant.
LEMMA MsdTimeoutQueued ==
    ASSUME IInv, queue # <<>>, Fine(m'), m'.state = "MSD_TRANSFER",
           queue' = Append(Tail(queue), "MSD_TRANSFER_TIMEOUT"),
           retrigger' = retrigger, stimuli' = stimuli
    PROVE  IInv'
<1>1. Tail(queue) \in Seq(Event) /\ "MSD_TRANSFER_TIMEOUT" \in Event
  BY TailFacts DEF IInv, Event
<1>2. RedialNext(m', queue')
  <2>1. ASSUME Prompt, NEW i \in 1..Len(queue') PROVE queue'[i] # "REDIAL_TIMEOUT"
    <3>1. RedialNext(m, Tail(queue)) /\ \A j \in 1..Len(Tail(queue)) :
              j + 1 \in 1..Len(queue) /\ j + 1 # 1 /\ Tail(queue)[j] = queue[j + 1]
      BY TailFacts, NoRedialBehind DEF IInv
    <3>2. (i \in 1..Len(Tail(queue)) /\ queue'[i] = Tail(queue)[i])
          \/ queue'[i] = "MSD_TRANSFER_TIMEOUT"
      BY <1>1, AppendFacts
    <3>3. QED
      BY <2>1, <3>1, <3>2 DEF IInv, RedialNext
  <2>2. QED
    BY <2>1 DEF RedialNext
<1>3. queue' \in Seq(Event)
  BY <1>1, AppendFacts
<1>4. Watched(m', queue') /\ Pending(m', queue', retrigger')
  BY DEF Fine, Armed, Triggered, Watched, Pending, WCB
<1> QED
  BY <1>2, <1>3, <1>4 DEF IInv, Fine, Good, TimerFits, CallFits, SavedFits, AttemptsFit,
     Triggered

\* The handlers of CALL keep the invariant.
LEMMA CallStep ==
    ASSUME IInv, ProcessCall
    PROVE  IInv'
<1>1. /\ m.state = "CALL" /\ queue # <<>> /\ m \in Machine /\ Good(m) /\ AttemptsFit(m)
      /\ m.attempts # 0 /\ m.call \notin {"ACTIVE", "REDIAL", "NONE", "INCOMING"}
      /\ m.state \in Stages
  BY HandlerFacts DEF ProcessCall, CallActive, CallActiveOverwritten, CallAbnormalHangup,
     CallDisconnected, CalloutFail, CalloutTimeout, In, Stages, Good, CallFits
<1>2. ASSUME NEW y \in Machine, y.call = "ACTIVE", y.stateTimer = NoTimer,
             y.attempts = m.attempts, y.stage = m.stage, y.redialTimer = m.redialTimer,
             y.state = m.state
      PROVE  Fine(EnterMsdTransfer(y)) /\ EnterMsdTransfer(y).state = "MSD_TRANSFER"
  BY <1>1, <1>2, MsdTransferFine DEF AttemptsFit
<1>3. CASE CallActive
  <2> DEFINE y == [StopStateTimer(m) EXCEPT !.call = "ACTIVE", !.msd = "NONE"]
  <2>1. /\ y \in Machine /\ y.call = "ACTIVE" /\ y.stateTimer = NoTimer /\ y.attempts = m.attempts
        /\ y.stage = m.stage /\ y.redialTimer = m.redialTimer /\ y.state = m.state
    BY <1>1 DEF StopStateTimer, Machine, CallState, MsdState, NoTimer
  <2>2. Becomes(EnterMsdTransfer(y))
    BY <1>3 DEF CallActive
  <2> HIDE DEF y
  <2>3. QED
    BY <1>1, <1>2, <2>1, <2>2, BecomesFine
<1>4. CASE CallActiveOverwritten
  <2> DEFINE y == [StopStateTimer(m) EXCEPT !.call = "ACTIVE", !.msd = "TIMEOUT",
                                            !.msdTimer = FALSE]
  <2>1. /\ y \in Machine /\ y.call = "ACTIVE" /\ y.stateTimer = NoTimer /\ y.attempts = m.attempts
        /\ y.stage = m.stage /\ y.redialTimer = m.redialTimer /\ y.state = m.state
    BY <1>1 DEF StopStateTimer, Machine, CallState, MsdState, NoTimer
  <2>2. /\ m' = EnterMsdTransfer(y) /\ retrigger' = retrigger /\ stimuli' = stimuli
        /\ queue' \in {Tail(queue), Append(Tail(queue), "MSD_TRANSFER_TIMEOUT")}
    BY <1>4 DEF CallActiveOverwritten
  <2> HIDE DEF y
  <2>3. Fine(m') /\ m'.state = "MSD_TRANSFER"
    BY <1>2, <2>1, <2>2
  <2>4. CASE queue' = Tail(queue)
    BY <1>1, <2>2, <2>3, <2>4, BecomesFine DEF Becomes
  <2>5. CASE queue' = Append(Tail(queue), "MSD_TRANSFER_TIMEOUT")
    BY <1>1, <2>2, <2>3, <2>5, MsdTimeoutQueued
  <2>6. QED
    BY <2>2, <2>4, <2>5
<1>5. ASSUME NEW c \in {"ABNORMAL_HANGUP", "DISCONNECTED"},
             Becomes(RedialOrGiveUp(SetCall(StopStateTimer(m), c)))
      PROVE  IInv'
  <2> DEFINE y == SetCall(StopStateTimer(m), c)
  <2>1. /\ y \in Machine /\ y.call = c /\ y.state = m.state /\ y.sub = m.sub
        /\ y.saved = m.saved /\ y.attempts = m.attempts /\ y.stage = m.stage
        /\ y.redialTimer = m.redialTimer /\ y.stateTimer = NoTimer
    BY <1>1 DEF SetCall, StopStateTimer, Machine, CallState, NoTimer
  <2>2. Becomes(RedialOrGiveUp(y))
    BY <1>5
  <2> HIDE DEF y
  <2>3. QED
    BY <1>1, <2>1, <2>2, CallEnds
<1>6. CASE CallAbnormalHangup
  BY <1>5, <1>6 DEF CallAbnormalHangup
<1>7. CASE CallDisconnected
  <2>1. CASE Becomes(RedialOrGiveUp(SetCall(StopStateTimer(m), "DISCONNECTED")))
    BY <1>5, <2>1
  <2>2. CASE Becomes(m)
    <3>1. Head(queue) = "DISCONNECTED"
      BY <1>7 DEF CallDisconnected, In
    <3>2. QED
      BY <1>1, <2>2, <3>1, BecomesKeeps
  <2>3. QED
    BY <1>7, <2>1, <2>2 DEF CallDisconnected
<1>8. CASE CalloutFail
  <2> DEFINE y == SetCall(m, "FAIL")
  <2>1. /\ y \in Machine /\ y.call = "FAIL" /\ y.state = m.state /\ y.sub = m.sub
        /\ y.saved = m.saved /\ y.attempts = m.attempts /\ y.stage = m.stage
        /\ y.redialTimer = m.redialTimer /\ y.stateTimer = m.stateTimer
    BY <1>1 DEF SetCall, Machine, CallState
  <2>2. Becomes(y) /\ Head(queue) = "CALLOUT_FAIL"
    BY <1>8 DEF CalloutFail, In
  <2> HIDE DEF y
  <2>3. Good(y)
    <3>1. CallFits(y)
      BY <1>1, <2>1 DEF CallFits, WCB
    <3>2. QED
      BY <1>1, <2>1, <3>1, KeepsGood
  <2>4. QED
    BY <1>1, <2>1, <2>2, <2>3, BecomesKeeps DEF Triggered, WCB
<1>9. CASE CalloutTimeout
  <2> DEFINE y == HangUp(SetCall(m, "FAIL"))
  <2>1. /\ y \in Machine /\ y.call = "FAIL" /\ y.state = m.state /\ y.sub = m.sub
        /\ y.saved = m.saved /\ y.attempts = m.attempts /\ y.stage = m.stage
        /\ y.redialTimer = m.redialTimer /\ y.stateTimer = m.stateTimer
    BY <1>1 DEF HangUp, SetCall, Machine, CallState, Modem
  <2>2. Becomes(RedialOrGiveUp(y))
    BY <1>9 DEF CalloutTimeout
  <2> HIDE DEF y
  <2>3. Good(y)
    <3>1. CallFits(y)
      BY <1>1, <2>1 DEF CallFits, WCB
    <3>2. QED
      BY <1>1, <2>1, <3>1, KeepsGood
  <2>4. Fine(RedialOrGiveUp(y))
    BY <1>1, <2>1, <2>3, RedialOrGiveUpResult
  <2>5. QED
    BY <1>1, <2>2, <2>4, BecomesFine
<1> QED
  BY <1>3, <1>4, <1>6, <1>7, <1>8, <1>9 DEF ProcessCall

\* The end of the call in the stages that wait for a call back.
LEMMA CallOver ==
    ASSUME IInv, queue # <<>>, NEW x \in Machine,
           x.state = m.state, x.attempts = m.attempts, x.stage = m.stage,
           x.redialTimer = m.redialTimer, x.call \notin {"DIAL", "REDIAL", "ACTIVE"},
           Becomes(EnterWCB(x))
    PROVE  IInv'
<1>1. AttemptsFit(x)
  BY HandlerFacts DEF AttemptsFit
<1> QED
  BY <1>1, WCBFine, BecomesFine

\* The handlers of MSD_TRANSFER keep the invariant.
LEMMA MsdTransferStep ==
    ASSUME IInv, ProcessMsdTransfer
    PROVE  IInv'
<1>1. /\ m.state = "MSD_TRANSFER" /\ queue # <<>> /\ m \in Machine /\ Good(m) /\ AttemptsFit(m)
      /\ m.attempts # 0 /\ m.call \in {"ACTIVE", "ABNORMAL_HANGUP", "DISCONNECTED"}
      /\ m.stateTimer \in {NoTimer, "msd"} /\ m.state \in Stages
  <2>1. m.state = "MSD_TRANSFER" /\ queue # <<>>
    BY DEF ProcessMsdTransfer, MsdTimeout, MsdProgresses, MsdProgressOverwritten,
           MsdAcknowledged, MsdClearedDown, MsdCallLost, MsdCallEnd, In
  <2>2. QED
    BY <2>1, HandlerFacts DEF Stages, Good, CallFits, TimerFits, Triggered, WCB, Machine,
       StateTimer
<1>2. CASE MsdTimeout
  BY <1>1, <1>2, VoiceFine, BecomesFine DEF MsdTimeout
<1>3. ASSUME NEW s \in MsdState
      PROVE  LET y == [m EXCEPT !.msd = s]
             IN  /\ y \in Machine /\ y.call = m.call /\ y.stateTimer = m.stateTimer
                 /\ y.attempts = m.attempts /\ y.stage = m.stage /\ y.state = m.state
                 /\ y.redialTimer = m.redialTimer
  BY <1>1 DEF Machine
<1>4. \A e : ReportedMsd(e) \in MsdState
  BY DEF ReportedMsd, MsdState, MsdProgress
<1>5. ASSUME NEW y \in Machine, y.call = m.call, y.stateTimer \in {NoTimer, "msd"},
             y.attempts = m.attempts, y.stage = m.stage, y.redialTimer = m.redialTimer,
             y.state = m.state
      PROVE  Fine(EnterMsdTransfer(y)) /\ EnterMsdTransfer(y).state = "MSD_TRANSFER"
  BY <1>1, <1>5, MsdTransferFine DEF AttemptsFit
<1>6. CASE MsdProgresses
  <2> DEFINE y == [m EXCEPT !.msd = ReportedMsd(Head(queue))]
  <2>1. /\ y \in Machine /\ y.call = m.call /\ y.stateTimer = m.stateTimer
        /\ y.attempts = m.attempts /\ y.stage = m.stage /\ y.state = m.state
        /\ y.redialTimer = m.redialTimer
    BY <1>3, <1>4
  <2>2. Becomes(EnterMsdTransfer(y))
    BY <1>6 DEF MsdProgresses
  <2> HIDE DEF y
  <2>3. Fine(EnterMsdTransfer(y))
    BY <1>1, <1>5, <2>1
  <2>4. QED
    BY <1>1, <2>2, <2>3, BecomesFine
<1>7. CASE MsdProgressOverwritten
  <2>1. \E y \in Machine :
           /\ y.call = m.call /\ y.stateTimer \in {NoTimer, "msd"} /\ y.state = m.state
           /\ y.attempts = m.attempts /\ y.stage = m.stage /\ y.redialTimer = m.redialTimer
           /\ m' = EnterMsdTransfer(y)
    <3>1. CASE m' = EnterMsdTransfer([StopStateTimer(m) EXCEPT !.msd = "TIMEOUT"])
      <4> DEFINE y == [StopStateTimer(m) EXCEPT !.msd = "TIMEOUT"]
      <4>1. /\ y \in Machine /\ y.call = m.call /\ y.stateTimer = NoTimer
            /\ y.attempts = m.attempts /\ y.stage = m.stage /\ y.state = m.state
            /\ y.redialTimer = m.redialTimer
        BY <1>1 DEF StopStateTimer, Machine, MsdState, NoTimer
      <4>2. QED
        BY <3>1, <4>1
    <3>2. CASE m' = EnterMsdTransfer([m EXCEPT !.msd = "TIMEOUT", !.msdTimer = FALSE])
      <4> DEFINE y == [m EXCEPT !.msd = "TIMEOUT", !.msdTimer = FALSE]
      <4>1. /\ y \in Machine /\ y.call = m.call /\ y.stateTimer = m.stateTimer
            /\ y.attempts = m.attempts /\ y.stage = m.stage /\ y.state = m.state
            /\ y.redialTimer = m.redialTimer
        BY <1>1 DEF Machine, MsdState
      <4>2. QED
        BY <1>1, <3>2, <4>1
    <3>3. QED
      BY <1>7, <3>1, <3>2 DEF MsdProgressOverwritten
  <2>2. Fine(m') /\ m'.state = "MSD_TRANSFER"
    BY <1>1, <1>5, <2>1
  <2>3. /\ queue' = Append(Tail(queue), "MSD_TRANSFER_TIMEOUT")
        /\ retrigger' = retrigger /\ stimuli' = stimuli
    BY <1>7 DEF MsdProgressOverwritten
  <2>4. QED
    BY <1>1, <2>2, <2>3, MsdTimeoutQueued
<1>8. CASE MsdAcknowledged
  <2> DEFINE y == [m EXCEPT !.msd = "ALACK_POSITIVE"]
  <2>1. /\ y \in Machine /\ y.call = m.call /\ y.attempts = m.attempts /\ y.stage = m.stage
        /\ y.state = m.state /\ y.redialTimer = m.redialTimer
    BY <1>3 DEF MsdState
  <2>2. Becomes(EnterVoiceCommunication(y))
    BY <1>8 DEF MsdAcknowledged
  <2> HIDE DEF y
  <2>3. AttemptsFit(y)
    BY <1>1, <2>1 DEF AttemptsFit
  <2>4. QED
    BY <1>1, <2>1, <2>2, <2>3, VoiceFine, BecomesFine
<1>9. CASE MsdClearedDown
  <2> DEFINE y == [HangUp(m) EXCEPT !.msd = "ALACK_CLEARDOWN", !.call = "NONE"]
  <2>1. /\ y \in Machine /\ y.call = "NONE" /\ y.attempts = m.attempts /\ y.stage = m.stage
        /\ y.state = m.state /\ y.redialTimer = m.redialTimer
    BY <1>1 DEF HangUp, Machine, CallState, MsdState, Modem
  <2>2. Becomes(EnterWCB(y))
    BY <1>9 DEF MsdClearedDown
  <2> HIDE DEF y
  <2>3. QED
    BY <1>1, <2>1, <2>2, CallOver
<1>10. CASE MsdCallLost
  <2>1. PICK c \in {"DISCONNECTED", "ABNORMAL_HANGUP"} : c = Head(queue)
    BY <1>10 DEF MsdCallLost, In
  <2> DEFINE y == SetCall(StopStateTimer(m), c)
  <2>2. /\ y \in Machine /\ y.call = c /\ y.state = m.state /\ y.sub = m.sub
        /\ y.saved = m.saved /\ y.attempts = m.attempts /\ y.stage = m.stage
        /\ y.redialTimer = m.redialTimer /\ y.stateTimer = NoTimer
    BY <1>1 DEF SetCall, StopStateTimer, Machine, CallState, NoTimer
  <2>3. Becomes(RedialOrGiveUp(y)) \/ Becomes(EnterWCB(y))
    BY <1>10, <2>1 DEF MsdCallLost
  <2> HIDE DEF y
  <2>4. CASE Becomes(RedialOrGiveUp(y))
    BY <1>1, <2>2, <2>4, CallEnds
  <2>5. CASE Becomes(EnterWCB(y))
    BY <1>1, <2>2, <2>5, CallOver
  <2>6. QED
    BY <2>3, <2>4, <2>5
<1>11. CASE MsdCallEnd
  <2> DEFINE y == StopStateTimer(m)
  <2>1. /\ y \in Machine /\ y.call = m.call /\ y.state = m.state /\ y.sub = m.sub
        /\ y.saved = m.saved /\ y.attempts = m.attempts /\ y.stage = m.stage
        /\ y.redialTimer = m.redialTimer /\ y.stateTimer = NoTimer
    BY <1>1 DEF StopStateTimer, Machine, NoTimer
  <2>2. Becomes(y)
    BY <1>11 DEF MsdCallEnd
  <2> HIDE DEF y
  <2>3. CallFits(y)
    BY <1>1, <2>1 DEF CallFits, WCB
  <2>4. Good(y)
    BY <1>1, <2>1, <2>3, KeepsGood
  <2>5. Fine(y)
    BY <1>1, <2>1, <2>4 DEF Fine, Armed, Triggered, WCB
  <2>6. QED
    BY <1>1, <2>2, <2>5, BecomesFine
<1> QED
  BY <1>2, <1>6, <1>7, <1>8, <1>9, <1>10, <1>11 DEF ProcessMsdTransfer

\* The handlers of VOICE_COMMUNICATION keep the invariant.
LEMMA VoiceStep ==
    ASSUME IInv, ProcessVoiceComm
    PROVE  IInv'
<1>1. /\ m.state = "VOICE_COMMUNICATION" /\ queue # <<>> /\ m \in Machine /\ Good(m)
      /\ m.attempts # 0 /\ m.call \in {"ACTIVE", "ABNORMAL_HANGUP", "DISCONNECTED"}
      /\ m.state \in Stages
  <2>1. m.state = "VOICE_COMMUNICATION" /\ queue # <<>>
    BY DEF ProcessVoiceComm, VoiceMsdTimeout, ClearDownTimeout, VoiceDisconnected,
           VoiceMsdProgresses, VoiceMsdAcknowledged, VoiceClearedDown,
           VoiceAbnormalHangup, VoiceCallEnd, In
  <2>2. QED
    BY <2>1, HandlerFacts DEF Stages, Good, CallFits
<1>2. ASSUME NEW y \in Machine, y.state = m.state, y.sub = m.sub, y.saved = m.saved,
             y.attempts = m.attempts, y.stage = m.stage, y.redialTimer = m.redialTimer,
             y.stateTimer = m.stateTimer, y.call = m.call,
             Head(queue) # "CLEARDOWN_TIMEOUT", Becomes(y)
      PROVE  IInv'
  <2>1. CallFits(y)
    BY <1>1, <1>2 DEF CallFits, WCB
  <2>2. Good(y)
    BY <1>1, <1>2, <2>1, KeepsGood
  <2>3. QED
    BY <1>1, <1>2, <2>2, BecomesKeeps DEF Triggered, WCB
<1>3. ASSUME NEW y \in Machine, y.state = m.state, y.attempts = m.attempts,
             y.stage = m.stage, y.redialTimer = m.redialTimer, y.call = "NONE",
             Becomes(EnterWCB(y))
      PROVE  IInv'
  BY <1>1, <1>3, CallOver
<1>4. CASE VoiceMsdTimeout
  BY <1>1, <1>2, <1>4 DEF VoiceMsdTimeout, In
<1>5. CASE ClearDownTimeout
  <2> DEFINE y == SetCall(HangUp(m), "NONE")
  <2>1. /\ y \in Machine /\ y.call = "NONE" /\ y.attempts = m.attempts /\ y.stage = m.stage
        /\ y.state = m.state /\ y.redialTimer = m.redialTimer
    BY <1>1 DEF SetCall, HangUp, Machine, CallState, Modem
  <2>2. Becomes(EnterWCB(y))
    BY <1>5 DEF ClearDownTimeout
  <2> HIDE DEF y
  <2>3. QED
    BY <1>3, <2>1, <2>2
<1>6. ASSUME Becomes(EnterWCB(SetCall(m, "NONE"))) PROVE IInv'
  <2> DEFINE y == SetCall(m, "NONE")
  <2>1. /\ y \in Machine /\ y.call = "NONE" /\ y.attempts = m.attempts /\ y.stage = m.stage
        /\ y.state = m.state /\ y.redialTimer = m.redialTimer
    BY <1>1 DEF SetCall, Machine, CallState
  <2>2. Becomes(EnterWCB(y))
    BY <1>6
  <2> HIDE DEF y
  <2>3. QED
    BY <1>3, <2>1, <2>2
<1>7. CASE VoiceDisconnected
  BY <1>6, <1>7 DEF VoiceDisconnected
<1>8. CASE VoiceMsdProgresses
  <2> DEFINE y == [m EXCEPT !.msd = ReportedMsd(Head(queue)), !.msdTimer = TRUE]
  <2>1. ReportedMsd(Head(queue)) \in MsdState
    BY DEF ReportedMsd, MsdState, MsdProgress
  <2>2. /\ y \in Machine /\ y.call = m.call /\ y.state = m.state /\ y.sub = m.sub
        /\ y.saved = m.saved /\ y.attempts = m.attempts /\ y.stage = m.stage
        /\ y.redialTimer = m.redialTimer /\ y.stateTimer = m.stateTimer
    BY <1>1, <2>1 DEF Machine
  <2>3. Becomes(y) /\ Head(queue) # "CLEARDOWN_TIMEOUT"
    BY <1>8 DEF VoiceMsdProgresses, In, MsdReport
  <2> HIDE DEF y
  <2>4. QED
    BY <1>2, <2>2, <2>3
<1>9. CASE VoiceMsdAcknowledged
  <2> DEFINE y == [m EXCEPT !.msd = "NONE", !.msdTimer = FALSE]
  <2>1. /\ y \in Machine /\ y.call = m.call /\ y.state = m.state /\ y.sub = m.sub
        /\ y.saved = m.saved /\ y.attempts = m.attempts /\ y.stage = m.stage
        /\ y.redialTimer = m.redialTimer /\ y.stateTimer = m.stateTimer
    BY <1>1 DEF Machine, MsdState
  <2>2. Becomes(y) /\ Head(queue) # "CLEARDOWN_TIMEOUT"
    BY <1>9 DEF VoiceMsdAcknowledged, In
  <2> HIDE DEF y
  <2>3. QED
    BY <1>2, <2>1, <2>2
<1>10. CASE VoiceClearedDown
  <2> DEFINE y == [HangUp(m) EXCEPT !.msdTimer = FALSE,
                       !.msd = "ALACK_CLEARDOWN", !.call = "NONE"]
  <2>1. /\ y \in Machine /\ y.call = "NONE" /\ y.attempts = m.attempts /\ y.stage = m.stage
        /\ y.state = m.state /\ y.redialTimer = m.redialTimer
    BY <1>1 DEF HangUp, Machine, CallState, MsdState, Modem
  <2>2. Becomes(EnterWCB(y))
    BY <1>10 DEF VoiceClearedDown
  <2> HIDE DEF y
  <2>3. QED
    BY <1>3, <2>1, <2>2
<1>11. CASE VoiceAbnormalHangup
  <2> DEFINE y == SetCall(m, "ABNORMAL_HANGUP")
  <2>1. /\ y \in Machine /\ y.call = "ABNORMAL_HANGUP" /\ y.state = m.state /\ y.sub = m.sub
        /\ y.saved = m.saved /\ y.attempts = m.attempts /\ y.stage = m.stage
        /\ y.redialTimer = m.redialTimer /\ y.stateTimer = m.stateTimer
    BY <1>1 DEF SetCall, Machine, CallState
  <2>2. Becomes(RedialOrGiveUp(y)) /\ Head(queue) # "CLEARDOWN_TIMEOUT"
    BY <1>11 DEF VoiceAbnormalHangup, In
  <2> HIDE DEF y
  <2>3. QED
    BY <1>1, <2>1, <2>2, CallEnds
<1>12. CASE VoiceCallEnd
  <2>1. Becomes(EnterWCB(SetCall(m, "NONE"))) \/ Becomes(m)
    BY <1>12 DEF VoiceCallEnd
  <2>2. Head(queue) # "CLEARDOWN_TIMEOUT"
    BY <1>12 DEF VoiceCallEnd, In
  <2>3. QED
    BY <1>1, <1>2, <1>6, <2>1, <2>2
<1> QED
  BY <1>4, <1>5, <1>7, <1>8, <1>9, <1>10, <1>11, <1>12 DEF ProcessVoiceComm

\* The handlers of WAITING_FOR_CALLBACK keep the invariant.
LEMMA WaitCallbackStep ==
    ASSUME IInv, ProcessWaitCallback
    PROVE  IInv'
<1>1. /\ m.state = WCB /\ queue # <<>> /\ m \in Machine /\ Good(m) /\ AttemptsFit(m)
      /\ ~m.redialTimer /\ m.call \notin {"DIAL", "REDIAL", "ACTIVE"}
  <2>1. m.state = WCB /\ queue # <<>>
    BY DEF ProcessWaitCallback, LongPressInWCB, ManualTriggerInWCB, NewCallInWCB,
           CancelInWCB, CallBackTimeout, DiagCancel, AnswerCallback, CallbackActive,
           CallbackEnd, In
  <2>2. QED
    BY <2>1, HandlerFacts DEF Stages, WCB
<1>2. LET x == SetExitWCBTime(m)
      IN  /\ x \in Machine /\ x.state = m.state /\ x.call = m.call /\ x.stage = m.stage
          /\ x.attempts = m.attempts /\ x.redialTimer = m.redialTimer
  BY <1>1 DEF SetExitWCBTime, Machine
<1>3. AttemptsFit(SetExitWCBTime(m))
  BY <1>1, <1>2 DEF AttemptsFit
<1>4. ASSUME NEW y \in Machine, y.state = m.state, y.sub = m.sub, y.saved = m.saved,
             y.attempts = m.attempts, y.stage = m.stage, y.redialTimer = m.redialTimer,
             y.stateTimer = m.stateTimer, y.call \notin {"DIAL", "REDIAL", "ACTIVE"},
             m.sub # "TRIGGERED" \/ Head(queue) # "MANUAL_CANCEL_TIMEOUT", Becomes(y)
      PROVE  IInv'
  <2>1. CallFits(y)
    BY <1>1, <1>4 DEF CallFits, WCB
  <2>2. Good(y)
    BY <1>1, <1>4, <2>1, KeepsGood
  <2>3. QED
    BY <1>1, <1>4, <2>2, BecomesKeeps DEF Triggered, WCB
<1>5. CASE LongPressInWCB
  <2>1. \/ Becomes(EnterWCBManualTrigger(SetExitWCBTime(m)))
        \/ Becomes(EnterCall(SetCall(SetExitWCBTime(m), "NONE")))
    BY <1>5 DEF LongPressInWCB
  <2>2. QED
    BY <1>1, <1>2, <1>3, <2>1, WCBTriggerFine, NewCallFine, BecomesFine
<1>6. CASE ManualTriggerInWCB
  BY <1>1, <1>2, <1>3, <1>6, WCBTriggerFine, BecomesFine DEF ManualTriggerInWCB
<1>7. CASE NewCallInWCB
  BY <1>1, <1>7, NewCallFine, BecomesFine DEF NewCallInWCB
<1>8. CASE CancelInWCB
  <2>1. Head(queue) = "BTN_SHORT_PRESS" /\ (Becomes(EnterWCBIdle(m)) \/ Becomes(m))
    BY <1>8 DEF CancelInWCB, In
  <2>2. QED
    BY <1>1, <1>4, <2>1, WCBTriggerFine, BecomesFine
<1>9. CASE CallBackTimeout \/ DiagCancel
  <2>1. /\ Head(queue) \in {"CALL_BACK_TIMEOUT", "DIAG_REQ_CANCEL_ECALL"}
        /\ Becomes(EnterOff(m)) \/ Becomes(m)
    BY <1>9 DEF CallBackTimeout, DiagCancel, In
  <2>2. QED
    BY <1>1, <1>4, <2>1, OffFine, BecomesFine
<1>10. CASE AnswerCallback
  <2> DEFINE y == [m EXCEPT !.call = "INCOMING",
                            !.modem = IF @ = "ringing" THEN "answered" ELSE @]
  <2>1. /\ y \in Machine /\ y.call = "INCOMING" /\ y.state = m.state /\ y.sub = m.sub
        /\ y.saved = m.saved /\ y.attempts = m.attempts /\ y.stage = m.stage
        /\ y.redialTimer = m.redialTimer /\ y.stateTimer = m.stateTimer
    BY <1>1 DEF Machine, CallState, Modem
  <2>2. Becomes(y) /\ Head(queue) # "MANUAL_CANCEL_TIMEOUT"
    BY <1>10 DEF AnswerCallback, In
  <2> HIDE DEF y
  <2>3. QED
    BY <1>4, <2>1, <2>2
<1>11. CASE CallbackActive
  <2> DEFINE y == SetCall(m, "ACTIVE")
  <2>1. /\ y \in Machine /\ y.call = "ACTIVE" /\ y.state = m.state
        /\ y.attempts = m.attempts /\ y.stage = m.stage /\ y.redialTimer = m.redialTimer
    BY <1>1 DEF SetCall, Machine, CallState
  <2>2. /\ Head(queue) # "MANUAL_CANCEL_TIMEOUT"
        /\ Becomes(EnterVoiceCommunication(y)) \/ Becomes(m)
    BY <1>11 DEF CallbackActive, In
  <2> HIDE DEF y
  <2>3. AttemptsFit(y)
    BY <1>1, <2>1 DEF AttemptsFit
  <2>4. QED
    BY <1>1, <1>4, <2>1, <2>2, <2>3, VoiceFine, BecomesFine
<1>12. CASE CallbackEnd
  <2> DEFINE y == SetCall(SetEnterWCBTime(SetExitWCBTime(m)), "NONE")
  <2>1. /\ y \in Machine /\ y.call = "NONE" /\ y.state = m.state /\ y.sub = m.sub
        /\ y.saved = m.saved /\ y.attempts = m.attempts /\ y.stage = m.stage
        /\ y.redialTimer = m.redialTimer /\ y.stateTimer = m.stateTimer
    BY <1>1 DEF SetCall, SetEnterWCBTime, SetExitWCBTime, Machine, CallState
  <2>2. Head(queue) # "MANUAL_CANCEL_TIMEOUT"
    BY <1>12 DEF CallbackEnd, In
  <2>3. Becomes(m) \/ Becomes(y) \/ Becomes(EnterOff(y))
    BY <1>12 DEF CallbackEnd
  <2> HIDE DEF y
  <2>4. AttemptsFit(y)
    BY <1>1, <2>1 DEF AttemptsFit
  <2>5. QED
    BY <1>1, <1>4, <2>1, <2>2, <2>3, <2>4, OffFine, BecomesFine
<1> QED
  BY <1>5, <1>6, <1>7, <1>8, <1>9, <1>10, <1>11, <1>12 DEF ProcessWaitCallback

\* The handler of a crash of the modem application keeps the invariant.
LEMMA DemoappStep ==
    ASSUME IInv, DemoappCrash
    PROVE  IInv'
<1>1. PICK s \in Stages : /\ In(s, {"DEMOAPP_STATUS_IND"})
                          /\ LET x == IF s = "VOICE_COMMUNICATION" THEN m ELSE StopStateTimer(m)
                             IN  Becomes(RedialOrGiveUp(HangUp(SetCall(x, "ABNORMAL_HANGUP"))))
  BY DEF DemoappCrash, Stages
<1>2. m.state = s /\ queue # <<>> /\ Head(queue) = "DEMOAPP_STATUS_IND" /\ m \in Machine
  BY <1>1, HandlerFacts DEF In
<1> DEFINE x == IF s = "VOICE_COMMUNICATION" THEN m ELSE StopStateTimer(m)
           y == HangUp(SetCall(x, "ABNORMAL_HANGUP"))
<1>3. /\ x \in Machine /\ x.state = m.state /\ x.sub = m.sub /\ x.saved = m.saved
      /\ x.attempts = m.attempts /\ x.stage = m.stage /\ x.redialTimer = m.redialTimer
      /\ x.stateTimer = IF s = "VOICE_COMMUNICATION" THEN m.stateTimer ELSE NoTimer
  BY <1>2 DEF StopStateTimer, Machine, NoTimer
<1> HIDE DEF x
<1>4. /\ y \in Machine /\ y.call = "ABNORMAL_HANGUP"
      /\ y.state = x.state /\ y.sub = x.sub /\ y.saved = x.saved
      /\ y.attempts = x.attempts /\ y.stage = x.stage /\ y.redialTimer = x.redialTimer
      /\ y.stateTimer = x.stateTimer
  BY <1>3 DEF HangUp, SetCall, Machine, CallState, Modem
<1>5. Becomes(RedialOrGiveUp(y))
  BY <1>1 DEF x
<1> HIDE DEF y
<1> QED
  BY <1>2, <1>3, <1>4, <1>5, CallEnds

\* The handlers of a redial timeout keep the invariant.
LEMMA RedialStep ==
    ASSUME IInv, RedialTimeout
    PROVE  IInv'
<1>1. /\ m.state \in Stages \cup {WCB} /\ queue # <<>> /\ Head(queue) = "REDIAL_TIMEOUT"
      /\ Becomes(Redial(m)) /\ m \in Machine /\ Good(m)
  BY HandlerFacts DEF RedialTimeout, In, Stages, WCB
<1>2. CASE IsECallActive(m)
  <2>1. Becomes(m)
    BY <1>1, <1>2 DEF Redial
  <2>2. m.state = "CALL" => m.call = "DIAL"
    BY <1>1, <1>2 DEF IsECallActive, Good, CallFits
  <2>3. QED
    BY <1>1, <2>1, <2>2, BecomesKeeps DEF Stages, WCB
<1>3. CASE ~IsECallActive(m)
  <2>1. Becomes(EnterCall(SetCall(m, "REDIAL")))
    BY <1>1, <1>3 DEF Redial
  <2>2. Prompt => ~m.redialTimer /\ m.attempts < DialAttemptsEU
    <3>1. 1 \in 1..Len(queue) /\ queue[1] = "REDIAL_TIMEOUT"
      BY <1>1 DEF IInv
    <3>2. QED
      BY <3>1 DEF IInv, RedialNext
  <2>3. m.redialTimer => m.state \in Stages
    BY <1>1 DEF Good, TimerFits
  <2>4. Fine(EnterCall(SetCall(m, "REDIAL")))
    BY <1>1, <2>2, <2>3, RedialFine
  <2>5. QED
    BY <1>1, <2>1, <2>4, BecomesFine
<1> QED
  BY <1>2, <1>3

\* A state never drops an event that it waits for.
LEMMA DropStep ==
    ASSUME IInv, Drop
    PROVE  IInv'
<1>1. Becomes(m) /\ queue # <<>> /\ Head(queue) \notin Handled(m.state) /\ Good(m)
  BY HandlerFacts DEF Drop, In
<1>2. m.state \in State
  BY <1>1 DEF Good, Machine
<1>3. CASE m.state \in {"OFF", "MANUAL_TRIGGERED", "REGISTRATION"}
  BY <1>1, <1>3, BecomesKeeps DEF Handled, Triggered, WCB
<1>4. CASE m.state \in Stages
  BY <1>1, <1>4, BecomesKeeps DEF Handled, Triggered, WCB, Stages
<1>5. CASE m.state = WCB
  BY <1>1, <1>5, BecomesKeeps DEF Handled, Triggered, WCB
<1> QED
  BY <1>2, <1>3, <1>4, <1>5 DEF State, Stages, WCB

-----------------------------------------------------------------------------
(* The timers, the modem and the outside.                                  *)

\* An event is put into the queue, which keeps what is in it.
LEMMA PostKeeps ==
    ASSUME IInv, NEW x, NEW e \in Event, Good(x), e # "REDIAL_TIMEOUT",
           x.state = m.state, x.sub = m.sub, x.saved = m.saved, x.call = m.call,
           x.attempts = m.attempts, x.redialTimer = m.redialTimer,
           \/ x.stateTimer = m.stateTimer
           \/ m.stateTimer = "manual_cancel" /\ e = "MANUAL_CANCEL_TIMEOUT"
           \/ m.stateTimer = "registration" /\ e = "REGISTRATION_TIMEOUT"
           \/ m.stateTimer = "call" /\ e = "CALLOUT_TIMEOUT"
           \/ m.stateTimer = "clear_down" /\ e = "CLEARDOWN_TIMEOUT"
           \/ m.stateTimer = "msd",
           m' = x,
           \/ queue' = Append(queue, e)
           \/ queue' = queue /\ x.stateTimer = m.stateTimer,
           retrigger' = retrigger, stimuli' \in Nat
    PROVE  IInv'
<1>1. Good(m') /\ queue' \in Seq(Event) /\ retrigger' \in BOOLEAN
  BY AppendFacts DEF IInv, Good, TimerFits, CallFits, SavedFits, AttemptsFit, Triggered
<1>2. \A d : InQueue(queue, d) => InQueue(queue', d)
  BY AppendFacts DEF IInv
<1>3. queue' = Append(queue, e) => InQueue(queue', e)
  BY AppendFacts DEF IInv
<1>4. Triggered(x) <=> Triggered(m)
  BY DEF Triggered
<1>5. Watched(x, queue')
  <2>1. Triggered(x) => x.stateTimer = "manual_cancel" \/ InQueue(queue', "MANUAL_CANCEL_TIMEOUT")
    BY <1>2, <1>3, <1>4 DEF IInv, Watched, Good, TimerFits, Triggered, WCB
  <2>2. x.state = "REGISTRATION" =>
            x.stateTimer = "registration" \/ InQueue(queue', "REGISTRATION_TIMEOUT")
    BY <1>2, <1>3 DEF IInv, Watched, Good, TimerFits, Triggered, WCB
  <2>3. x.state = "VOICE_COMMUNICATION" =>
            x.stateTimer = "clear_down" \/ InQueue(queue', "CLEARDOWN_TIMEOUT")
    BY <1>2, <1>3 DEF IInv, Watched, Good, TimerFits, Triggered, WCB
  <2>4. ASSUME x.state = "CALL", x.stateTimer # "call", ~InQueue(queue', "CALLOUT_TIMEOUT")
        PROVE  x.call # "DIAL" /\ (x.redialTimer \/ InQueue(queue', "REDIAL_TIMEOUT"))
    BY <1>2, <1>3, <2>4 DEF IInv, Watched, Good, TimerFits, Triggered, WCB
  <2>5. QED
    BY <2>1, <2>2, <2>3, <2>4 DEF Watched
<1>6. Pending(x, queue', retrigger')
  BY <1>2 DEF IInv, Pending
<1>7. RedialNext(x, queue')
  <2>1. ASSUME Prompt, NEW i \in 1..Len(queue'), queue'[i] = "REDIAL_TIMEOUT"
        PROVE  i \in 1..Len(queue) /\ queue[i] = "REDIAL_TIMEOUT"
    BY <2>1, AppendFacts DEF IInv
  <2>2. QED
    BY <2>1 DEF IInv, RedialNext
<1> QED
  BY <1>1, <1>5, <1>6, <1>7 DEF IInv

\* Changes of members that the invariant does not look at.
LEMMA AsideGood ==
    ASSUME IInv, NEW x \in Machine,
           x.state = m.state, x.sub = m.sub, x.saved = m.saved, x.call = m.call,
           x.attempts = m.attempts, x.stage = m.stage, x.redialTimer = m.redialTimer,
           x.stateTimer = m.stateTimer \/ x.stateTimer = NoTimer
    PROVE  Good(x)
<1>1. CallFits(x)
  BY DEF IInv, Good, CallFits
<1> QED
  BY <1>1, KeepsGood DEF IInv

\* The callbacks of the state timer keep the invariant.
LEMMA StateTimerStep ==
    ASSUME IInv, StateTimerFires
    PROVE  IInv'
<1> DEFINE x == [m EXCEPT !.stateTimer = NoTimer,
                          !.msd = IF m.stateTimer = "msd" THEN "TIMEOUT" ELSE @]
<1>1. m \in Machine /\ TimerFits(m) /\ m.stateTimer \in StateTimer
  BY DEF StateTimerFires, IInv, Good, Machine
<1>2. /\ x \in Machine /\ x.state = m.state /\ x.sub = m.sub /\ x.saved = m.saved
      /\ x.call = m.call /\ x.attempts = m.attempts /\ x.stage = m.stage
      /\ x.redialTimer = m.redialTimer /\ x.stateTimer = NoTimer
  BY <1>1 DEF Machine, MsdState, NoTimer
<1>3. m' = x /\ queue' = queue \o StateTimerEvent(m) /\ retrigger' = retrigger
      /\ stimuli' = stimuli /\ stimuli \in Nat
  BY DEF StateTimerFires, Posts, IInv
<1> HIDE DEF x
<1>4. Good(x)
  BY <1>2, AsideGood
<1>5. ASSUME NEW e \in Event, StateTimerEvent(m) = <<e>>, e # "REDIAL_TIMEOUT",
             \/ m.stateTimer = "manual_cancel" /\ e = "MANUAL_CANCEL_TIMEOUT"
             \/ m.stateTimer = "registration" /\ e = "REGISTRATION_TIMEOUT"
             \/ m.stateTimer = "call" /\ e = "CALLOUT_TIMEOUT"
             \/ m.stateTimer = "clear_down" /\ e = "CLEARDOWN_TIMEOUT"
             \/ m.stateTimer = "msd"
      PROVE  IInv'
  <2>1. queue' = Append(queue, e)
    BY <1>3, <1>5, AppendFacts DEF IInv
  <2>2. QED
    BY <1>2, <1>3, <1>4, <1>5, <2>1, PostKeeps
<1>6. CASE m.stateTimer = "manual_cancel"
  <2>1. StateTimerEvent(m) = <<"MANUAL_CANCEL_TIMEOUT">> /\ "MANUAL_CANCEL_TIMEOUT" \in Event
    BY <1>1, <1>6 DEF StateTimerEvent, TimerFits, Triggered, Event
  <2>2. QED
    BY <1>5, <1>6, <2>1
<1>7. CASE m.stateTimer = "registration"
  <2>1. StateTimerEvent(m) = <<"REGISTRATION_TIMEOUT">> /\ "REGISTRATION_TIMEOUT" \in Event
    BY <1>1, <1>7 DEF StateTimerEvent, TimerFits, Event
  <2>2. QED
    BY <1>5, <1>7, <2>1
<1>8. CASE m.stateTimer = "call"
  <2>1. StateTimerEvent(m) = <<"CALLOUT_TIMEOUT">> /\ "CALLOUT_TIMEOUT" \in Event
    BY <1>1, <1>8 DEF StateTimerEvent, TimerFits, Event
  <2>2. QED
    BY <1>5, <1>8, <2>1
<1>9. CASE m.stateTimer = "msd"
  <2>1. StateTimerEvent(m) = <<"MSD_TRANSFER_TIMEOUT">> /\ "MSD_TRANSFER_TIMEOUT" \in Event
    BY <1>1, <1>9 DEF StateTimerEvent, TimerFits, Event
  <2>2. QED
    BY <1>5, <1>9, <2>1
<1>10. CASE m.stateTimer = "clear_down"
  <2>1. StateTimerEvent(m) = <<"CLEARDOWN_TIMEOUT">> /\ "CLEARDOWN_TIMEOUT" \in Event
    BY <1>1, <1>10 DEF StateTimerEvent, TimerFits, Event
  <2>2. QED
    BY <1>5, <1>10, <2>1
<1> QED
  BY <1>1, <1>6, <1>7, <1>8, <1>9, <1>10 DEF StateTimer

\* What puts at most one event into the queue and else changes only the modem,
\* m_msd_state, the passing of time or the timers the invariant leaves aside.
LEMMA AsideStep ==
    ASSUME IInv, NEW x \in Machine, NEW e \in Event, e # "REDIAL_TIMEOUT",
           x.state = m.state, x.sub = m.sub, x.saved = m.saved, x.call = m.call,
           x.attempts = m.attempts, x.stage = m.stage, x.redialTimer = m.redialTimer,
           x.stateTimer = m.stateTimer,
           m' = x, queue' = queue \o <<e>> \/ queue' = Append(queue, e) \/ queue' = queue \o <<>>,
           retrigger' = retrigger, stimuli' \in Nat
    PROVE  IInv'
<1>1. queue' = Append(queue, e) \/ queue' = queue
  BY AppendFacts DEF IInv
<1>2. Good(x)
  BY AsideGood
<1> QED
  BY <1>1, <1>2, PostKeeps

\* The callbacks of all timers keep the invariant.
LEMMA TimerStep ==
    ASSUME IInv, TimerThreads
    PROVE  IInv'
<1>1. m \in Machine /\ stimuli \in Nat /\ queue \in Seq(Event)
  BY DEF IInv, Good
<1>2. CASE StateTimerFires
  BY <1>2, StateTimerStep
<1>3. CASE MsdTimerFires
  <2> DEFINE x == [m EXCEPT !.msdTimer = FALSE, !.msd = "TIMEOUT"]
  <2>1. /\ x \in Machine /\ x.state = m.state /\ x.sub = m.sub /\ x.saved = m.saved
        /\ x.call = m.call /\ x.attempts = m.attempts /\ x.stage = m.stage
        /\ x.redialTimer = m.redialTimer /\ x.stateTimer = m.stateTimer
    BY <1>1 DEF Machine, MsdState
  <2>2. /\ m' = x /\ retrigger' = retrigger /\ stimuli' = stimuli
        /\ queue' = queue \o <<"MSD_TRANSFER_TIMEOUT">> \/ queue' = queue \o <<>>
    BY <1>3 DEF MsdTimerFires, Posts
  <2>3. "MSD_TRANSFER_TIMEOUT" \in Event
    BY DEF Event
  <2> HIDE DEF x
  <2>4. QED
    BY <1>1, <2>1, <2>2, <2>3, AsideStep
<1>4. CASE RedialTimerFires
  <2> DEFINE x == [m EXCEPT !.redialTimer = FALSE]
  <2>1. /\ x \in Machine /\ x.state = m.state /\ x.sub = m.sub /\ x.saved = m.saved
        /\ x.call = m.call /\ x.attempts = m.attempts /\ x.stage = m.stage
        /\ ~x.redialTimer /\ x.stateTimer = m.stateTimer
    BY <1>1 DEF Machine
  <2>2. /\ m' = x /\ retrigger' = retrigger /\ stimuli' = stimuli /\ m.redialTimer
        /\ queue' = queue \o <<"REDIAL_TIMEOUT">> /\ (Prompt => queue = <<>>)
    BY <1>4 DEF RedialTimerFires, Posts
  <2>3. "REDIAL_TIMEOUT" \in Event
    BY DEF Event
  <2>4. /\ queue' = Append(queue, "REDIAL_TIMEOUT") /\ queue' \in Seq(Event)
        /\ InQueue(queue', "REDIAL_TIMEOUT")
        /\ \A d : InQueue(queue, d) => InQueue(queue', d)
    <3>1. queue' = Append(queue, "REDIAL_TIMEOUT")
      BY <1>1, <2>2, <2>3, AppendFacts
    <3>2. QED
      BY <1>1, <2>3, <3>1, AppendFacts
  <2> HIDE DEF x
  <2>5. Good(x)
    <3>1. CallFits(x)
      BY <2>1 DEF IInv, Good, CallFits
    <3>2. QED
      BY <2>1, <3>1, KeepsGood DEF IInv
  <2>6. Good(m')
    BY <2>2, <2>5 DEF Good, TimerFits, CallFits, SavedFits, AttemptsFit, Triggered
  <2>7. Watched(x, queue')
    <3>1. Triggered(x) <=> Triggered(m)
      BY <2>1 DEF Triggered
    <3>2. QED
      BY <2>1, <2>4, <3>1 DEF IInv, Watched
  <2>8. Pending(x, queue', retrigger')
    BY <2>1, <2>2, <2>4 DEF IInv, Pending
  <2>9. RedialNext(x, queue')
    <3>1. ASSUME Prompt, NEW i \in 1..Len(queue')
          PROVE  i = 1 /\ x.attempts < DialAttemptsEU
      <4>1. i = 1
        BY <2>2, <3>1
      <4>2. x.attempts < DialAttemptsEU
        BY <2>1, <2>2, <3>1 DEF IInv, Good, AttemptsFit
      <4>3. QED
        BY <4>1, <4>2
    <3>2. QED
      BY <2>1, <3>1 DEF RedialNext
  <2>10. QED
    BY <1>1, <2>2, <2>4, <2>6, <2>7, <2>8, <2>9 DEF IInv
<1>5. CASE CallbackTimerFires
  <2> DEFINE x == [m EXCEPT !.callbackTimer = FALSE, !.elapsed = TRUE]
  <2>1. /\ x \in Machine /\ x.state = m.state /\ x.sub = m.sub /\ x.saved = m.saved
        /\ x.call = m.call /\ x.attempts = m.attempts /\ x.stage = m.stage
        /\ x.redialTimer = m.redialTimer /\ x.stateTimer = m.stateTimer
    BY <1>1 DEF Machine
  <2>2. /\ m' = x /\ retrigger' = retrigger /\ stimuli' = stimuli
        /\ queue' = queue \o <<"CALL_BACK_TIMEOUT">>
    BY <1>5 DEF CallbackTimerFires, Posts
  <2>3. "CALL_BACK_TIMEOUT" \in Event
    BY DEF Event
  <2> HIDE DEF x
  <2>4. QED
    BY <1>1, <2>1, <2>2, <2>3, AsideStep
<1>6. CASE CallbackTimePasses
  <2> DEFINE x == [m EXCEPT !.elapsed = TRUE]
  <2>1. /\ x \in Machine /\ x.state = m.state /\ x.sub = m.sub /\ x.saved = m.saved
        /\ x.call = m.call /\ x.attempts = m.attempts /\ x.stage = m.stage
        /\ x.redialTimer = m.redialTimer /\ x.stateTimer = m.stateTimer
    BY <1>1 DEF Machine
  <2>2. m' = x /\ retrigger' = retrigger /\ stimuli' = stimuli /\ queue' = queue \o <<>>
    BY <1>6 DEF CallbackTimePasses, Posts
  <2>3. "CALL_BACK_TIMEOUT" \in Event
    BY DEF Event
  <2> HIDE DEF x
  <2>4. QED
    BY <1>1, <2>1, <2>2, <2>3, AsideStep
<1> QED
  BY <1>2, <1>3, <1>4, <1>5, <1>6 DEF TimerThreads

\* The reports of the modem keep the invariant.
LEMMA ModemStep ==
    ASSUME IInv, ModemActs
    PROVE  IInv'
<1>1. m \in Machine /\ stimuli \in Nat /\ queue \in Seq(Event)
  BY DEF IInv, Good
<1>2. ASSUME NEW d \in Modem
      PROVE  LET x == [m EXCEPT !.modem = d]
             IN  /\ x \in Machine /\ x.state = m.state /\ x.sub = m.sub /\ x.saved = m.saved
                 /\ x.call = m.call /\ x.attempts = m.attempts /\ x.stage = m.stage
                 /\ x.redialTimer = m.redialTimer /\ x.stateTimer = m.stateTimer
  BY <1>1 DEF Machine
<1>3. ASSUME NEW e \in Event, e # "REDIAL_TIMEOUT", NEW d \in Modem, Reports(e, d)
      PROVE  IInv'
  <2> DEFINE x == [m EXCEPT !.modem = d]
  <2>1. /\ x \in Machine /\ x.state = m.state /\ x.sub = m.sub /\ x.saved = m.saved
        /\ x.call = m.call /\ x.attempts = m.attempts /\ x.stage = m.stage
        /\ x.redialTimer = m.redialTimer /\ x.stateTimer = m.stateTimer
    BY <1>2
  <2>2. m' = x /\ retrigger' = retrigger /\ stimuli' = stimuli /\ queue' = queue \o <<e>>
    BY <1>3 DEF Reports, Posts
  <2> HIDE DEF x
  <2>3. QED
    BY <1>1, <1>3, <2>1, <2>2, AsideStep
<1>4. CASE NetworkFound
  <2>1. /\ m' = m /\ retrigger' = retrigger /\ stimuli' = stimuli
        /\ queue' = queue \o <<"REGISTRATION_SUCCESS">>
    BY <1>4 DEF NetworkFound, Posts
  <2>2. "REGISTRATION_SUCCESS" \in Event
    BY DEF Event
  <2>3. QED
    BY <1>1, <2>1, <2>2, AsideStep
<1>5. CASE CallProceeds
  <2>1. \E e \in {"ACTIVE", "CONVERSATION"}, d \in {"up", "talking"} : Reports(e, d)
    BY <1>5 DEF CallProceeds
  <2>2. QED
    BY <1>3, <2>1 DEF Event, Modem
<1>6. CASE OutgoingCallEnds
  <2>1. \E e \in {"CALLOUT_FAIL", "END_OUTGOING", "ABNORMAL_HANGUP", "DISCONNECTED"},
           d \in {"idle", "lost"} : Reports(e, d)
    BY <1>6 DEF OutgoingCallEnds
  <2>2. QED
    BY <1>3, <2>1 DEF Event, Modem
<1>7. CASE IncomingCallEnds
  <2>1. \E e \in {"END_INCOMING", "ABNORMAL_HANGUP"} : Reports(e, "idle")
    BY <1>7 DEF IncomingCallEnds
  <2>2. QED
    BY <1>3, <2>1 DEF Event, Modem
<1>8. CASE ReleasedSilently
  <2> DEFINE x == [m EXCEPT !.modem = "idle"]
  <2>1. /\ x \in Machine /\ x.state = m.state /\ x.sub = m.sub /\ x.saved = m.saved
        /\ x.call = m.call /\ x.attempts = m.attempts /\ x.stage = m.stage
        /\ x.redialTimer = m.redialTimer /\ x.stateTimer = m.stateTimer
    BY <1>2 DEF Modem
  <2>2. m' = x /\ retrigger' = retrigger /\ stimuli' = stimuli /\ queue' = queue \o <<>>
    BY <1>8 DEF ReleasedSilently, Posts
  <2>3. "ACTIVE" \in Event
    BY DEF Event
  <2> HIDE DEF x
  <2>4. QED
    BY <1>1, <2>1, <2>2, <2>3, AsideStep
<1>9. CASE MsdIsReported
  <2>1. m.modem \in Modem
    BY <1>1 DEF Machine
  <2>2. \E e \in MsdReport \cup {"ALACK_POSITIVE_RECEIVED", "ALACK_CLEARDOWN_RECEIVED"} :
           Reports(e, m.modem)
    BY <1>9 DEF MsdIsReported
  <2>3. QED
    BY <1>3, <2>1, <2>2 DEF Event, MsdReport
<1> QED
  BY <1>4, <1>5, <1>6, <1>7, <1>8, <1>9 DEF ModemActs

\* A restart with its recovery keeps the invariant.
LEMMA RestartStep ==
    ASSUME IInv, Restart
    PROVE  IInv'
<1>1. m \in Machine /\ stimuli \in Nat
  BY DEF IInv, Good
<1>2. PICK over \in BOOLEAN :
         Stimulated(
            [m EXCEPT !.state = "OFF", !.sub = "IDLE", !.call = "NONE", !.msd = "NONE",
                !.attempts = 0, !.stage = "OFF", !.inWCB = FALSE, !.elapsed = over,
                !.stateTimer = NoTimer, !.redialTimer = FALSE, !.msdTimer = FALSE,
                !.callbackTimer = FALSE],
            IF m.saved # "OFF" THEN <<"CALL_CRASH_RECOVERY_IND">> ELSE <<>>)
  BY DEF Restart
<1> DEFINE x == [m EXCEPT !.state = "OFF", !.sub = "IDLE", !.call = "NONE", !.msd = "NONE",
                    !.attempts = 0, !.stage = "OFF", !.inWCB = FALSE, !.elapsed = over,
                    !.stateTimer = NoTimer, !.redialTimer = FALSE, !.msdTimer = FALSE,
                    !.callbackTimer = FALSE]
<1>3. /\ x \in Machine /\ x.state = "OFF" /\ x.call = "NONE" /\ x.saved = m.saved
      /\ x.attempts = 0 /\ x.stage = "OFF" /\ ~x.redialTimer /\ x.stateTimer = NoTimer
  <2> DEFINE y == [m EXCEPT !.state = "OFF", !.sub = "IDLE", !.call = "NONE", !.msd = "NONE",
                      !.attempts = 0, !.stage = "OFF"]
             z == [y EXCEPT !.inWCB = FALSE, !.elapsed = over, !.stateTimer = NoTimer,
                      !.redialTimer = FALSE, !.msdTimer = FALSE, !.callbackTimer = FALSE]
  <2>1. x = z
    OBVIOUS
  <2>2. /\ y \in Machine /\ y.state = "OFF" /\ y.call = "NONE" /\ y.saved = m.saved
        /\ y.attempts = 0 /\ y.stage = "OFF"
    BY <1>1 DEF Machine, State, CallState, MsdState
  <2> HIDE DEF x, y
  <2>3. /\ z \in Machine /\ z.state = y.state /\ z.call = y.call /\ z.saved = y.saved
        /\ z.attempts = y.attempts /\ z.stage = y.stage /\ z.redialTimer = FALSE
        /\ z.stateTimer = NoTimer
    BY <2>2 DEF Machine, NoTimer
  <2> HIDE DEF z
  <2>4. QED
    BY <2>1, <2>2, <2>3
<1>4. /\ m' = x /\ stimuli' \in Nat
      /\ queue' = IF m.saved # "OFF" THEN <<"CALL_CRASH_RECOVERY_IND">> ELSE <<>>
      /\ retrigger' \in BOOLEAN /\ (m.saved \notin {"OFF", WCB} => retrigger' = TRUE)
  <2>1. retrigger' \in IF m.saved \in {"OFF", WCB} THEN BOOLEAN ELSE {TRUE}
    BY DEF Restart, Retriggers
  <2>2. retrigger' \in BOOLEAN /\ (m.saved \notin {"OFF", WCB} => retrigger' = TRUE)
    BY <2>1
  <2>3. stimuli' = stimuli + 1 /\ m' = x
        /\ queue' = IF m.saved # "OFF" THEN <<"CALL_CRASH_RECOVERY_IND">> ELSE <<>>
    BY Zenon, <1>2 DEF Stimulated
  <2> HIDE DEF x
  <2>4. QED
    BY <1>1, <2>2, <2>3
<1> HIDE DEF x
<1>5. Good(x) /\ Armed(x)
  <2>1. 0 <= Limit
    BY MachineAssumption DEF Limit
  <2>2. QED
    BY <1>3, <2>1 DEF Good, Armed, TimerFits, CallFits, SavedFits, AttemptsFit, Triggered,
                      WCB, Stages, NoTimer
<1>6. Good(m') /\ Watched(m', queue')
  BY <1>4, <1>5 DEF Good, TimerFits, CallFits, SavedFits, AttemptsFit, Triggered, Armed, Watched
<1>7. queue' \in Seq(Event)
  <2>1. "CALL_CRASH_RECOVERY_IND" \in Event
    BY DEF Event
  <2>2. QED
    BY <1>4, <2>1
<1>8. Pending(x, queue', retrigger')
  <2>1. CASE m.saved = "OFF"
    BY <1>3, <2>1 DEF Pending
  <2>2. CASE m.saved = WCB
    <3>1. queue' = <<"CALL_CRASH_RECOVERY_IND">>
      BY <1>4, <2>2 DEF WCB
    <3>2. InQueue(queue', "CALL_CRASH_RECOVERY_IND")
      BY <3>1 DEF InQueue
    <3>3. QED
      BY <1>3, <2>2, <3>2 DEF Pending
  <2>3. CASE m.saved \notin {"OFF", WCB}
    BY <1>4, <2>3 DEF Pending
  <2>4. QED
    BY <2>1, <2>2, <2>3
<1>9. RedialNext(x, queue')
  <2>1. ASSUME NEW i \in 1..Len(queue') PROVE queue'[i] # "REDIAL_TIMEOUT"
    BY <1>4, <2>1
  <2>2. QED
    BY <2>1 DEF RedialNext
<1> QED
  BY <1>4, <1>6, <1>7, <1>8, <1>9 DEF IInv

\* Driver, PSAP, failures and restarts keep the invariant.
LEMMA OutsideStep ==
    ASSUME IInv, Outside
    PROVE  IInv'
<1>1. m \in Machine /\ stimuli \in Nat /\ queue \in Seq(Event) /\ Good(m)
  BY DEF IInv, Good
<1>2. CASE DriverActs
  <2>1. PICK e \in DriverEvent : Stimulated(m, Append(queue, e)) /\ retrigger' = retrigger
    BY <1>2 DEF DriverActs
  <2>2. e \in Event /\ e # "REDIAL_TIMEOUT"
    BY DEF Event, DriverEvent
  <2>3. m' = m /\ queue' = Append(queue, e) /\ stimuli' \in Nat
    BY <1>1, <2>1 DEF Stimulated
  <2>4. QED
    BY <1>1, <2>1, <2>2, <2>3, AsideStep
<1>3. ASSUME NEW e \in Event, e # "REDIAL_TIMEOUT", NEW d \in Modem,
             Stimulated([m EXCEPT !.modem = d], Append(queue, e)), retrigger' = retrigger
      PROVE  IInv'
  <2> DEFINE x == [m EXCEPT !.modem = d]
  <2>1. /\ x \in Machine /\ x.state = m.state /\ x.sub = m.sub /\ x.saved = m.saved
        /\ x.call = m.call /\ x.attempts = m.attempts /\ x.stage = m.stage
        /\ x.redialTimer = m.redialTimer /\ x.stateTimer = m.stateTimer
    BY <1>1 DEF Machine
  <2>2. m' = x /\ queue' = Append(queue, e) /\ stimuli' \in Nat
    BY <1>1, <1>3 DEF Stimulated
  <2> HIDE DEF x
  <2>3. QED
    BY <1>1, <1>3, <2>1, <2>2, AsideStep
<1>4. CASE PsapCalls
  BY <1>3, <1>4 DEF PsapCalls, Event, Modem
<1>5. CASE ModemAppCrashes
  <2> DEFINE d == IF EndReported /\ m.modem \in {"ringing", "answered", "talking"}
                  THEN m.modem ELSE "idle"
  <2>1. d \in Modem /\ "DEMOAPP_STATUS_IND" \in Event
    BY DEF Modem, Event
  <2>2. Stimulated([m EXCEPT !.modem = d], Append(queue, "DEMOAPP_STATUS_IND"))
        /\ retrigger' = retrigger
    BY <1>5 DEF ModemAppCrashes
  <2> HIDE DEF d
  <2>3. QED
    BY <1>3, <2>1, <2>2
<1>6. CASE Restart
  BY <1>6, RestartStep
<1>7. CASE Retrigger
  <2>1. PICK e \in {"MANUAL_TRIGGER", "AUTO_TRIGGER"} : queue' = Append(queue, e)
    BY <1>7 DEF Retrigger
  <2>2. m' = m /\ stimuli' = stimuli /\ retrigger' = FALSE
    BY <1>7 DEF Retrigger
  <2>3. e \in Event /\ e # "REDIAL_TIMEOUT"
    BY DEF Event, DriverEvent
  <2>4. queue' \in Seq(Event) /\ InQueue(queue', e)
        /\ \A d : InQueue(queue, d) => InQueue(queue', d)
    BY <1>1, <2>1, <2>3, AppendFacts
  <2>5. Watched(m, queue')
    BY <2>4 DEF IInv, Watched
  <2>6. Pending(m, queue', retrigger')
    BY <2>4 DEF Pending
  <2>7. RedialNext(m, queue')
    <3>1. ASSUME NEW i \in 1..Len(queue'), queue'[i] = "REDIAL_TIMEOUT"
          PROVE  i \in 1..Len(queue) /\ queue[i] = "REDIAL_TIMEOUT"
      BY <1>1, <2>1, <2>3, <3>1, AppendFacts
    <3>2. QED
      BY <3>1 DEF IInv, RedialNext
  <2>8. QED
    BY <1>1, <2>2, <2>4, <2>5, <2>6, <2>7 DEF IInv
<1> QED
  BY <1>2, <1>4, <1>5, <1>6, <1>7 DEF Outside

-----------------------------------------------------------------------------
(* The inductive invariant and what follows from it.                       *)

\* The invariant holds initially.
LEMMA InitIInv == Init => IInv
<1> SUFFICES ASSUME Init PROVE IInv
  OBVIOUS
<1>1. /\ m.state = "OFF" /\ m.call = "NONE" /\ m.saved = "OFF" /\ m.attempts = 0
      /\ m.stage = "OFF" /\ ~m.redialTimer /\ m.stateTimer = NoTimer
  BY DEF Init
<1>2. m \in Machine
  <2>1. /\ {"OFF"} \subseteq State /\ {"IDLE"} \subseteq {"IDLE", "TRIGGERED"}
        /\ {"NONE"} \subseteq CallState /\ {"NONE"} \subseteq MsdState /\ {0} \subseteq Nat
        /\ {"OFF"} \subseteq SavedState /\ {"idle"} \subseteq Modem
    BY DEF State, CallState, MsdState, SavedState, Modem
  <2>2. {FALSE} \subseteq BOOLEAN /\ {NoTimer} \subseteq StateTimer \cup {NoTimer}
    OBVIOUS
  <2>3. m \in [state : {"OFF"}, sub : {"IDLE"}, call : {"NONE"}, msd : {"NONE"},
              attempts : {0}, stage : {"OFF"}, inWCB : {FALSE},
              remaining : BOOLEAN, elapsed : {FALSE}, stateTimer : {NoTimer},
              redialTimer : {FALSE}, msdTimer : {FALSE}, callbackTimer : {FALSE},
              saved : {"OFF"}, modem : {"idle"}]
    BY DEF Init
  <2>4. QED
    BY <2>1, <2>2, <2>3 DEF Machine
<1>3. 0 <= Limit
  BY MachineAssumption DEF Limit
<1>4. Good(m)
  BY <1>1, <1>2, <1>3 DEF Good, TimerFits, CallFits, SavedFits, AttemptsFit, Triggered,
     WCB, Stages, NoTimer
<1>5. queue \in Seq(Event) /\ Len(queue) = 0 /\ retrigger \in BOOLEAN /\ stimuli \in Nat
  <2>1. queue = <<>> /\ retrigger = FALSE /\ stimuli = 0
    BY DEF Init
  <2>2. queue \in Seq(Event) /\ Len(queue) = 0
    BY <2>1
  <2>3. retrigger \in BOOLEAN /\ stimuli \in Nat
    BY <2>1
  <2>4. QED
    BY <2>2, <2>3
<1>6. Watched(m, queue) /\ Pending(m, queue, retrigger)
  BY <1>1 DEF Watched, Pending, Triggered, WCB
<1>7. RedialNext(m, queue)
  BY <1>5 DEF RedialNext
<1> QED
  BY <1>4, <1>5, <1>6, <1>7 DEF IInv

\* Each action preserves the invariant.
LEMMA NextIInv == IInv /\ [Next]_vars => IInv'
<1> SUFFICES ASSUME IInv, [Next]_vars PROVE IInv'
  OBVIOUS
<1>1. CASE Process
  BY <1>1, OffStep, TriggerStep, CallStep, MsdTransferStep, VoiceStep, WaitCallbackStep,
     DemoappStep, RedialStep, DropStep DEF Process
<1>2. CASE TimerThreads
  BY <1>2, TimerStep
<1>3. CASE ModemActs
  BY <1>3, ModemStep
<1>4. CASE Outside
  BY <1>4, OutsideStep
<1>5. CASE UNCHANGED vars
  BY <1>5 DEF vars, IInv, Good, TimerFits, CallFits, SavedFits, AttemptsFit, Triggered,
     Watched, Pending, RedialNext, InQueue
<1> QED
  BY <1>1, <1>2, <1>3, <1>4, <1>5 DEF Next

\* The invariant holds in every state of the eCall machine.
THEOREM Inductive == Spec => []IInv
  BY InitIInv, NextIInv, PTL DEF Spec

\* The members of the machine keep their types, and the queue holds events.
THEOREM MachineTypeCorrect == Spec => []TypeOK
<1>1. IInv => TypeOK
  BY DEF IInv, Good, TypeOK
<1> QED
  BY <1>1, Inductive, PTL

\* No timer runs for a state that the machine is not in.
THEOREM TimersFit == Spec => []TimerFitsState
<1>1. IInv => TimerFitsState
  <2> SUFFICES ASSUME IInv PROVE TimerFitsState
    OBVIOUS
  <2>1. TimerFits(m) /\ m.stateTimer \in StateTimer \cup {NoTimer}
    BY DEF IInv, Good, Machine
  <2>2. m.stateTimer # NoTimer => StateTimerEvent(m) # <<>>
    BY <2>1 DEF TimerFits, StateTimer, StateTimerEvent, Triggered
  <2>3. QED
    BY <2>1, <2>2 DEF TimerFitsState, TimerFits, Stages
<1> QED
  BY <1>1, Inductive, PTL

\* What the handlers believe of the call fits the state they are in.
THEOREM CallFitsAlways == Spec => []CallFitsState
<1>1. IInv => CallFitsState
  BY DEF IInv, Good, CallFits, CallFitsState
<1> QED
  BY <1>1, Inductive, PTL

\* A silent modem does not stop an eCall in a supervised stage.
THEOREM AlwaysSupervised == Spec => []Supervised
<1>1. IInv => Supervised
  BY DEF IInv, Watched, Triggered, Supervised, Queued, InQueue
<1> QED
  BY <1>1, Inductive, PTL

\* A crash at any point leaves a saved state that says what was interrupted,
\* and what is saved of an interrupted eCall is taken up.
THEOREM SavedFitsAlways == Spec => []SavedFitsState
<1>1. IInv => SavedFitsState
  <2> SUFFICES ASSUME IInv PROVE SavedFitsState
    OBVIOUS
  <2>1. SavedFits(m) /\ Pending(m, queue, retrigger)
    BY DEF IInv, Good
  <2>2. m.state = "OFF" /\ m.saved # "OFF" =>
           \/ retrigger
           \/ \E e \in {"MANUAL_TRIGGER", "AUTO_TRIGGER", "CALL_CRASH_RECOVERY_IND"} : Queued(e)
    BY <2>1 DEF Pending, Queued, InQueue
  <2>3. QED
    BY <2>1, <2>2 DEF SavedFitsState, SavedFits, Triggered
<1> QED
  BY <1>1, Inductive, PTL

\* If the queue is empty whenever the redial timer expires, the machine never
\* dials more often in a stage than the configuration allows.
THEOREM AttemptsAlwaysBounded == Spec => []AttemptsBounded
<1>1. IInv => AttemptsBounded
  BY DEF IInv, Good, AttemptsFit, Limit, AttemptsBounded
<1> QED
  BY <1>1, Inductive, PTL
=============================================================================
