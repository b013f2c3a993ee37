---------------------------- MODULE ECallMachine ----------------------------
(***************************************************************************)
(* The state machine of an emergency call, CeCallMachine.  One thread      *)
(* takes events from the state queue and runs the handler of the current   *)
(* state to its end.  The callbacks of the Poco timers run on threads of   *)
(* their own: they check the state and put an event into the queue, so     *)
(* that an event may be stale when it is handled.  The modem, the callback *)
(* timer, which another component runs, and the driver put events too.     *)
(*                                                                         *)
(* The handlers are compositions of functions on the record m of the       *)
(* members of CeCallMachine, in the order of the calls in the code.        *)
(* Prompts, LEDs, traces and the event log are left out, and so is         *)
(* ECALL_FLOW_HANGUP_TIMEOUT, which hangs up in CALL: nothing queues it.   *)
(***************************************************************************)
EXTENDS Integers, Sequences

CONSTANTS
    DialAttemptsEU,     \* ECALL_DIAL_ATTEMPTS_EU
    ManualCanCancel,    \* ECALL_MANUAL_CAN_CANCEL
    AutoAnswers,        \* CALL_AUTO_ANSWER_TIME is not zero
    Prompt,             \* the queue is worked off within redial_delay_time
    EndReported,        \* the modem reports the end of an incoming call even if its
                        \* application crashes meanwhile
    MaxStimuli,         \* bounds of the model: what the driver, the PSAP and
    MaxQueue            \* failures do, and the events the outside queues

ASSUME MachineAssumption ==
    /\ DialAttemptsEU \in Nat
    /\ ManualCanCancel \in BOOLEAN /\ AutoAnswers \in BOOLEAN
    /\ Prompt \in BOOLEAN /\ EndReported \in BOOLEAN
    /\ MaxStimuli \in Nat /\ MaxQueue \in Nat

VARIABLES
    m,          \* the members of CeCallMachine, its timers and its modem
    queue,      \* the state queue
    retrigger,  \* m_triggerECallAfterReboot
    stimuli     \* how often the outside acted, for the bound

vars == <<m, queue, retrigger, stimuli>>

State == {"OFF", "MANUAL_TRIGGERED", "REGISTRATION", "CALL", "MSD_TRANSFER",
          "VOICE_COMMUNICATION", "WAITING_FOR_CALLBACK"}
CallState == {"NONE", "FAIL", "ABNORMAL_HANGUP", "ACTIVE", "INCOMING", "DIAL",
              "REDIAL", "DISCONNECTED"}
MsdProgress == {"START", "MSD", "LLACK"}
MsdState == MsdProgress \cup {"NONE", "ALACK_POSITIVE", "ALACK_CLEARDOWN", "TIMEOUT"}
SavedState == {"OFF", "TRIGGERED", "REGISTRATION", "CALL", "MSD_TRANSFER",
               "VOICE_COMMUNICATION", "WAITING_FOR_CALLBACK"}

\* The modem as CeCallFunction sees it: "lost" calls have ended and their
\* status is still to come, "released" ones have been hung up by the machine.
Modem == {"idle", "dialing", "up", "lost", "released",
          "ringing", "answered", "talking"}

\* What m_statetimer has been started for, by its callback.
StateTimer == {"manual_cancel", "registration", "call", "msd", "clear_down"}
NoTimer == "none"

Machine ==
    [state : State,             \* m_state
     sub : {"IDLE", "TRIGGERED"}, \* m_sub_state, of WAITING_FOR_CALLBACK
     call : CallState,          \* m_call_sub_state
     msd : MsdState,            \* m_msd_state
     attempts : Nat,            \* dial_attempts
     stage : State,             \* eCall_state_for_redial
     inWCB : BOOLEAN,           \* m_is_already_in_WCB
     remaining : BOOLEAN,       \* m_remaining_time_in_WCB > 0
     elapsed : BOOLEAN,         \* that time has passed since m_enter_WCB_time
     stateTimer : StateTimer \cup {NoTimer},
     redialTimer : BOOLEAN,
     msdTimer : BOOLEAN,        \* m_msdRequestTimer
     callbackTimer : BOOLEAN,   \* run by the receiver of XCALL_STATE_ECALL_WCB
     saved : SavedState,        \* ECALL_STATE in the configuration file
     modem : Modem]

DriverEvent == {"MANUAL_TRIGGER", "BTN_LONG_PRESS", "AUTO_TRIGGER",
                "BTN_SHORT_PRESS", "DIAG_REQ_CANCEL_ECALL"}
MsdReport == {"SENDING_START", "SENDING_MSD", "LLACK_RECEIVED"}
Event == DriverEvent \cup MsdReport \cup
    {"REGISTRATION_SUCCESS", "CALLOUT_FAIL", "ACTIVE", "ABNORMAL_HANGUP",
     "DISCONNECTED", "ALACK_POSITIVE_RECEIVED", "ALACK_CLEARDOWN_RECEIVED",
     "END_OUTGOING", "INCOMING", "CONVERSATION", "END_INCOMING",
     "DEMOAPP_STATUS_IND", "CALL_CRASH_RECOVERY_IND", "MANUAL_CANCEL_TIMEOUT",
     "REGISTRATION_TIMEOUT", "CALLOUT_TIMEOUT", "MSD_TRANSFER_TIMEOUT",
     "CLEARDOWN_TIMEOUT", "REDIAL_TIMEOUT", "CALL_BACK_TIMEOUT"}

TypeOK ==
    /\ m \in Machine
    /\ queue \in Seq(Event)
    /\ retrigger \in BOOLEAN
    /\ stimuli \in Nat

Init ==
    /\ m \in [state : {"OFF"}, sub : {"IDLE"}, call : {"NONE"}, msd : {"NONE"},
              attempts : {0}, stage : {"OFF"}, inWCB : {FALSE},
              remaining : BOOLEAN, elapsed : {FALSE}, stateTimer : {NoTimer},
              redialTimer : {FALSE}, msdTimer : {FALSE}, callbackTimer : {FALSE},
              saved : {"OFF"}, modem : {"idle"}]
    /\ queue = <<>>
    /\ retrigger = FALSE
    /\ stimuli = 0

-----------------------------------------------------------------------------
(* Faulty variants of definitions below, for the mutation runs.            *)

\* The redial attempts start again at each transition into the same stage.
ResetAlways(x, s, isNewCall) ==
    IF isNewCall \/ s # "OFF" THEN [x EXCEPT !.attempts = 1, !.stage = s] ELSE x

\* A new call does not start the wait for a call back afresh.
CallStaysInWCB(x) ==
    LET y == [x EXCEPT !.state = "CALL", !.saved = "CALL", !.stateTimer = "call",
                       !.modem = "dialing", !.call = "DIAL"]
    IN  IF x.call = "REDIAL" THEN [y EXCEPT !.attempts = @ + 1]
        ELSE [y EXCEPT !.attempts = 1, !.stage = "CALL"]

\* An interrupted call is triggered again only if the button was pressed.
RetriggersByButton(saved) == BOOLEAN

\* WAITING_FOR_CALLBACK is entered with the redial timer running.
WCBKeepsRedialTimer(x) ==
    [x EXCEPT !.state = "WAITING_FOR_CALLBACK", !.sub = "IDLE", !.inWCB = TRUE,
              !.remaining = AutoAnswers, !.elapsed = FALSE, !.callbackTimer = TRUE,
              !.stateTimer = NoTimer, !.msdTimer = FALSE, !.saved = "WAITING_FOR_CALLBACK"]

\* The sub state is written to m_state.
WCBTriggerSetsState(x) ==
    [x EXCEPT !.state = "TRIGGERED", !.stateTimer = "manual_cancel", !.saved = "TRIGGERED"]

\* The state is not saved.
RegistrationUnsaved(x) ==
    [x EXCEPT !.state = "REGISTRATION", !.stateTimer = "registration"]

\* A redial does not start the call timer again.
DialUnsupervised(x) == [x EXCEPT !.call = "DIAL", !.modem = "dialing"]

\* Redial when the attempts have just been used up.
RedialOnceMore(x) ==
    IF x.attempts <= DialAttemptsEU
    THEN [x EXCEPT !.redialTimer = TRUE]
    ELSE [x EXCEPT !.redialTimer = FALSE, !.stateTimer = NoTimer]

\* OFF keeps the state of the call.
OffKeepsCall(x) ==
    [x EXCEPT !.state = "OFF", !.sub = "IDLE", !.inWCB = FALSE, !.stateTimer = NoTimer,
              !.saved = "OFF"]

-----------------------------------------------------------------------------
(* Members called by the handlers, as functions of the record x.           *)

SetCall(x, c) == [x EXCEPT !.call = c]
StopStateTimer(x) == [x EXCEPT !.stateTimer = NoTimer]

HangUp(x) == [x EXCEPT !.modem = IF @ = "idle" THEN @ ELSE "released"]

IsECallActive(x) == x.call \in {"ACTIVE", "INCOMING", "DIAL", "REDIAL"}

\* The order of the enumeration eCallState.
Rank(s) == CASE s = "OFF" -> 0 [] s = "MANUAL_TRIGGERED" -> 1
             [] s = "REGISTRATION" -> 2 [] s = "CALL" -> 3 [] s = "MSD_TRANSFER" -> 4
             [] s = "VOICE_COMMUNICATION" -> 5 [] OTHER -> 6

ResetRedialAttempts(x, s, isNewCall) ==
    IF isNewCall \/ Rank(s) > Rank(x.stage)
    THEN [x EXCEPT !.attempts = 1, !.stage = s]
    ELSE x

SetExitWCBTime(x)  == [x EXCEPT !.remaining = @ /\ ~x.elapsed]
SetEnterWCBTime(x) == [x EXCEPT !.elapsed = FALSE]

EnterOff(x) ==
    [x EXCEPT !.state = "OFF", !.sub = "IDLE", !.call = "NONE", !.inWCB = FALSE,
              !.stateTimer = NoTimer, !.saved = "OFF"]

EnterManualTrigger(x) ==
    [x EXCEPT !.state = "MANUAL_TRIGGERED", !.stateTimer = "manual_cancel",
              !.saved = "TRIGGERED"]

EnterRegistration(x) ==
    [x EXCEPT !.state = "REGISTRATION", !.stateTimer = "registration",
              !.saved = "REGISTRATION"]

Dial(x) == [x EXCEPT !.call = "DIAL", !.stateTimer = "call", !.modem = "dialing"]

\* A new call, a redial, or a change of state only.
EnterCall(x) ==
    LET y == [x EXCEPT !.state = "CALL", !.inWCB = FALSE, !.saved = "CALL"]
    IN  CASE x.call = "NONE"   -> ResetRedialAttempts(Dial(y), "CALL", TRUE)
          [] x.call = "REDIAL" -> [Dial(y) EXCEPT !.attempts = @ + 1]
          [] x.call = "DIAL"   -> HangUp(SetCall(y, "NONE"))
          [] OTHER             -> y

EnterMsdTransfer(x) ==
    [ResetRedialAttempts(x, "MSD_TRANSFER", FALSE) EXCEPT
        !.state = "MSD_TRANSFER", !.saved = "MSD_TRANSFER",
        !.stateTimer = CASE x.msd \in {"NONE", "MSD", "LLACK"} -> "msd"
                         [] x.msd = "START" -> NoTimer
                         [] OTHER -> @]

EnterVoiceCommunication(x) ==
    LET y == IF x.state = "WAITING_FOR_CALLBACK" THEN SetExitWCBTime(x) ELSE x
    IN  [ResetRedialAttempts(y, "VOICE_COMMUNICATION", FALSE) EXCEPT
            !.state = "VOICE_COMMUNICATION", !.saved = "VOICE_COMMUNICATION",
            !.stateTimer = "clear_down"]

EnterWCB(x) ==
    LET y == [SetEnterWCBTime(x) EXCEPT
                !.redialTimer = FALSE, !.stateTimer = NoTimer, !.msdTimer = FALSE,
                !.remaining = IF x.inWCB THEN @ ELSE AutoAnswers]
    IN  IF ~y.remaining
        THEN EnterOff(y)
        ELSE [y EXCEPT !.state = "WAITING_FOR_CALLBACK", !.sub = "IDLE",
                       !.inWCB = TRUE, !.callbackTimer = TRUE,
                       !.saved = "WAITING_FOR_CALLBACK"]

EnterWCBIdle(x) ==
    [SetEnterWCBTime(x) EXCEPT !.sub = "IDLE", !.stateTimer = NoTimer,
        !.callbackTimer = TRUE, !.saved = "WAITING_FOR_CALLBACK"]

EnterWCBManualTrigger(x) ==
    [x EXCEPT !.sub = "TRIGGERED", !.stateTimer = "manual_cancel", !.saved = "TRIGGERED"]

\* if (!tryRedial()) ecall_trans_state(ECALL_WAITING_FOR_CALLBACK)
RedialOrGiveUp(x) ==
    IF x.attempts < DialAttemptsEU THEN [x EXCEPT !.redialTimer = TRUE] ELSE EnterWCB(x)

\* The handlers of a redial timeout, which is ignored while a call is active.
Redial(x) == IF IsECallActive(x) THEN x ELSE EnterCall(SetCall(x, "REDIAL"))

-----------------------------------------------------------------------------
(* The handlers.  Each takes the head of the queue.                        *)

In(s, E) == m.state = s /\ queue # <<>> /\ Head(queue) \in E

Becomes(x) == m' = x /\ queue' = Tail(queue) /\ UNCHANGED <<retrigger, stimuli>>

\* ecall_process_off
TriggerInOff ==
    /\ In("OFF", {"MANUAL_TRIGGER", "AUTO_TRIGGER"})
    /\ Becomes(EnterRegistration(m))

LongPressInOff ==
    /\ In("OFF", {"BTN_LONG_PRESS"})
    /\ Becomes(IF ManualCanCancel THEN EnterManualTrigger(m) ELSE EnterRegistration(m))

RecoverInOff ==
    /\ In("OFF", {"CALL_CRASH_RECOVERY_IND"})
    /\ LET x == SetExitWCBTime([m EXCEPT !.inWCB = TRUE])
       IN  Becomes(IF m.saved # "WAITING_FOR_CALLBACK" THEN m
                   ELSE IF x.remaining THEN EnterWCB(x) ELSE EnterOff(x))

\* ecall_process_manual_trigger
CancelManualTrigger ==
    /\ In("MANUAL_TRIGGERED", {"BTN_SHORT_PRESS"})
    /\ Becomes(EnterOff(m))

ConfirmManualTrigger ==
    /\ In("MANUAL_TRIGGERED", {"MANUAL_CANCEL_TIMEOUT"})
    /\ Becomes(EnterRegistration(m))

\* ecall_process_registration
Registered ==
    /\ In("REGISTRATION", {"REGISTRATION_SUCCESS"})
    /\ Becomes(EnterCall(SetCall(m, "NONE")))

RegistrationFails ==
    /\ In("REGISTRATION", {"REGISTRATION_TIMEOUT"})
    /\ Becomes(EnterOff(m))

\* ecall_process_call
CallActive ==
    /\ In("CALL", {"ACTIVE"})
    /\ Becomes(EnterMsdTransfer([StopStateTimer(m) EXCEPT !.call = "ACTIVE", !.msd = "NONE"]))

\* A timer started in an earlier call writes m_msd_state between its reset and
\* its use by enterECallStateECallMSDTransfer, and then sees the old state or
\* the new one, in which it queues its timeout.
CallActiveOverwritten ==
    /\ In("CALL", {"ACTIVE"}) /\ m.msdTimer
    /\ m' = EnterMsdTransfer([StopStateTimer(m) EXCEPT
                !.call = "ACTIVE", !.msd = "TIMEOUT", !.msdTimer = FALSE])
    /\ queue' \in {Tail(queue), Append(Tail(queue), "MSD_TRANSFER_TIMEOUT")}
    /\ UNCHANGED <<retrigger, stimuli>>

CallAbnormalHangup ==
    /\ In("CALL", {"ABNORMAL_HANGUP"})
    /\ Becomes(RedialOrGiveUp(SetCall(StopStateTimer(m), "ABNORMAL_HANGUP")))

CallDisconnected ==
    /\ In("CALL", {"DISCONNECTED"})
    /\ Becomes(IF IsECallActive(m)
               THEN RedialOrGiveUp(SetCall(StopStateTimer(m), "DISCONNECTED"))
               ELSE m)

CalloutFail ==
    /\ In("CALL", {"CALLOUT_FAIL"})
    /\ Becomes(SetCall(m, "FAIL"))

CalloutTimeout ==
    /\ In("CALL", {"CALLOUT_TIMEOUT"})
    /\ Becomes(RedialOrGiveUp(HangUp(SetCall(m, "FAIL"))))

\* ecall_process_msd_transfer
MsdTimeout ==
    /\ In("MSD_TRANSFER", {"MSD_TRANSFER_TIMEOUT"})
    /\ Becomes(EnterVoiceCommunication(m))

ReportedMsd(e) == CASE e = "SENDING_START" -> "START" [] e = "SENDING_MSD" -> "MSD"
                    [] OTHER -> "LLACK"

MsdProgresses ==
    /\ In("MSD_TRANSFER", MsdReport)
    /\ Becomes(EnterMsdTransfer([m EXCEPT !.msd = ReportedMsd(Head(queue))]))

\* A timeout writes m_msd_state between the assignment and its use.
MsdProgressOverwritten ==
    /\ In("MSD_TRANSFER", MsdReport)
    /\ \/ /\ m.stateTimer = "msd"
          /\ m' = EnterMsdTransfer([StopStateTimer(m) EXCEPT !.msd = "TIMEOUT"])
       \/ /\ m.msdTimer
          /\ m' = EnterMsdTransfer([m EXCEPT !.msd = "TIMEOUT", !.msdTimer = FALSE])
    /\ queue' = Append(Tail(queue), "MSD_TRANSFER_TIMEOUT")
    /\ UNCHANGED <<retrigger, stimuli>>

MsdAcknowledged ==
    /\ In("MSD_TRANSFER", {"ALACK_POSITIVE_RECEIVED"})
    /\ Becomes(EnterVoiceCommunication([m EXCEPT !.msd = "ALACK_POSITIVE"]))

MsdClearedDown ==
    /\ In("MSD_TRANSFER", {"ALACK_CLEARDOWN_RECEIVED"})
    /\ Becomes(EnterWCB([HangUp(m) EXCEPT !.msd = "ALACK_CLEARDOWN", !.call = "NONE"]))

\* Unless the PSAP has acknowledged the MSD, the call is dialled again.
MsdCallLost ==
    /\ In("MSD_TRANSFER", {"DISCONNECTED", "ABNORMAL_HANGUP"})
    /\ LET x == SetCall(StopStateTimer(m), Head(queue))
       IN  Becomes(IF m.msd \in MsdProgress \cup {"NONE"}
                   THEN RedialOrGiveUp(x) ELSE EnterWCB(x))

MsdCallEnd ==
    /\ In("MSD_TRANSFER", {"END_OUTGOING", "END_INCOMING"})
    /\ Becomes(StopStateTimer(m))

\* ecall_process_voice_comm
VoiceMsdTimeout ==
    /\ In("VOICE_COMMUNICATION", {"MSD_TRANSFER_TIMEOUT"})
    /\ Becomes(m)

ClearDownTimeout ==
    /\ In("VOICE_COMMUNICATION", {"CLEARDOWN_TIMEOUT"})
    /\ Becomes(EnterWCB(SetCall(HangUp(m), "NONE")))

VoiceDisconnected ==
    /\ In("VOICE_COMMUNICATION", {"DISCONNECTED"})
    /\ Becomes(EnterWCB(SetCall(m, "NONE")))

VoiceMsdProgresses ==
    /\ In("VOICE_COMMUNICATION", MsdReport)
    /\ Becomes([m EXCEPT !.msd = ReportedMsd(Head(queue)), !.msdTimer = TRUE])

VoiceMsdAcknowledged ==
    /\ In("VOICE_COMMUNICATION", {"ALACK_POSITIVE_RECEIVED"})
    /\ Becomes([m EXCEPT !.msd = "NONE", !.msdTimer = FALSE])

VoiceClearedDown ==
    /\ In("VOICE_COMMUNICATION", {"ALACK_CLEARDOWN_RECEIVED"})
    /\ Becomes(EnterWCB([HangUp(m) EXCEPT !.msdTimer = FALSE,
                            !.msd = "ALACK_CLEARDOWN", !.call = "NONE"]))

VoiceAbnormalHangup ==
    /\ In("VOICE_COMMUNICATION", {"ABNORMAL_HANGUP"})
    /\ Becomes(RedialOrGiveUp(SetCall(m, "ABNORMAL_HANGUP")))

VoiceCallEnd ==
    /\ In("VOICE_COMMUNICATION", {"END_INCOMING"})
    /\ Becomes(IF m.call = "ACTIVE" THEN EnterWCB(SetCall(m, "NONE")) ELSE m)

\* ecall_process_call, ecall_process_msd_transfer, ecall_process_voice_comm
DemoappCrash == \E s \in {"CALL", "MSD_TRANSFER", "VOICE_COMMUNICATION"} :
    /\ In(s, {"DEMOAPP_STATUS_IND"})
    /\ LET x == IF s = "VOICE_COMMUNICATION" THEN m ELSE StopStateTimer(m)
       IN  Becomes(RedialOrGiveUp(HangUp(SetCall(x, "ABNORMAL_HANGUP"))))

RedialTimeout == \E s \in {"CALL", "MSD_TRANSFER", "VOICE_COMMUNICATION",
                           "WAITING_FOR_CALLBACK"} :
    /\ In(s, {"REDIAL_TIMEOUT"})
    /\ Becomes(Redial(m))

\* ecall_process_wait_callback
WCB == "WAITING_FOR_CALLBACK"

LongPressInWCB ==
    /\ In(WCB, {"BTN_LONG_PRESS"})
    /\ LET x == SetExitWCBTime(m)
       IN  Becomes(IF ManualCanCancel THEN EnterWCBManualTrigger(x)
                                      ELSE EnterCall(SetCall(x, "NONE")))

ManualTriggerInWCB ==
    /\ In(WCB, {"MANUAL_TRIGGER"})
    /\ Becomes(EnterWCBManualTrigger(SetExitWCBTime(m)))

NewCallInWCB ==
    /\ In(WCB, {"AUTO_TRIGGER", "MANUAL_CANCEL_TIMEOUT"})
    /\ Becomes(EnterCall(SetCall(m, "NONE")))

CancelInWCB ==
    /\ In(WCB, {"BTN_SHORT_PRESS"})
    /\ Becomes(IF m.sub = "TRIGGERED" THEN EnterWCBIdle(m) ELSE m)

CallBackTimeout ==
    /\ In(WCB, {"CALL_BACK_TIMEOUT"})
    /\ Becomes(IF m.sub = "IDLE" /\ m.call # "INCOMING" THEN EnterOff(m) ELSE m)

DiagCancel ==
    /\ In(WCB, {"DIAG_REQ_CANCEL_ECALL"})
    /\ Becomes(IF m.sub = "IDLE" THEN EnterOff(m) ELSE m)

AnswerCallback ==
    /\ In(WCB, {"INCOMING"})
    /\ Becomes([m EXCEPT !.call = "INCOMING",
                         !.modem = IF @ = "ringing" THEN "answered" ELSE @])

CallbackActive ==
    /\ In(WCB, {"CONVERSATION"})
    /\ Becomes(IF m.call = "INCOMING" THEN EnterVoiceCommunication(SetCall(m, "ACTIVE"))
                                      ELSE m)

CallbackEnd ==
    /\ In(WCB, {"END_INCOMING"})
    /\ LET x == SetCall(SetEnterWCBTime(SetExitWCBTime(m)), "NONE")
       IN  Becomes(IF m.call # "INCOMING" THEN m
                   ELSE IF x.remaining THEN x ELSE EnterOff(x))

\* Events the handler of a state has a case for; the others are dropped.
Handled(s) ==
    CASE s = "OFF" -> {"MANUAL_TRIGGER", "AUTO_TRIGGER", "BTN_LONG_PRESS",
                       "CALL_CRASH_RECOVERY_IND"}
      [] s = "MANUAL_TRIGGERED" -> {"BTN_SHORT_PRESS", "MANUAL_CANCEL_TIMEOUT"}
      [] s = "REGISTRATION" -> {"REGISTRATION_SUCCESS", "REGISTRATION_TIMEOUT"}
      [] s = "CALL" -> {"ACTIVE", "ABNORMAL_HANGUP", "DISCONNECTED", "CALLOUT_FAIL",
                        "CALLOUT_TIMEOUT", "REDIAL_TIMEOUT", "DEMOAPP_STATUS_IND"}
      [] s = "MSD_TRANSFER" -> MsdReport \cup
            {"MSD_TRANSFER_TIMEOUT", "ALACK_POSITIVE_RECEIVED",
             "ALACK_CLEARDOWN_RECEIVED", "DISCONNECTED", "ABNORMAL_HANGUP",
             "END_OUTGOING", "END_INCOMING", "REDIAL_TIMEOUT", "DEMOAPP_STATUS_IND"}
      [] s = "VOICE_COMMUNICATION" -> MsdReport \cup
            {"MSD_TRANSFER_TIMEOUT", "CLEARDOWN_TIMEOUT", "ALACK_POSITIVE_RECEIVED",
             "ALACK_CLEARDOWN_RECEIVED", "DISCONNECTED", "ABNORMAL_HANGUP",
             "END_INCOMING", "REDIAL_TIMEOUT", "DEMOAPP_STATUS_IND"}
      [] OTHER -> (DriverEvent \cup {"MANUAL_CANCEL_TIMEOUT", "CALL_BACK_TIMEOUT",
             "INCOMING", "CONVERSATION", "END_INCOMING", "REDIAL_TIMEOUT"})

Drop ==
    /\ In(m.state, Event \ Handled(m.state))
    /\ Becomes(m)

-----------------------------------------------------------------------------
(* Timer threads.  A timer runs once; its callback puts an event into the  *)
(* queue if the state is one it belongs to.                                *)

Posts(x, s) == m' = x /\ queue' = queue \o s /\ UNCHANGED <<retrigger, stimuli>>

StateTimerEvent(x) ==
    CASE x.stateTimer = "manual_cancel"
            /\ (x.state = "MANUAL_TRIGGERED" \/ (x.state = WCB /\ x.sub = "TRIGGERED"))
                                                        -> <<"MANUAL_CANCEL_TIMEOUT">>
      [] x.stateTimer = "registration" /\ x.state = "REGISTRATION"
                                                        -> <<"REGISTRATION_TIMEOUT">>
      [] x.stateTimer = "call" /\ x.state = "CALL"      -> <<"CALLOUT_TIMEOUT">>
      [] x.stateTimer = "msd" /\ x.state \in {"MSD_TRANSFER", "VOICE_COMMUNICATION"}
                                                        -> <<"MSD_TRANSFER_TIMEOUT">>
      [] x.stateTimer = "clear_down" /\ x.state = "VOICE_COMMUNICATION"
                                                        -> <<"CLEARDOWN_TIMEOUT">>
      [] OTHER                                          -> <<>>

StateTimerFires ==
    /\ m.stateTimer # NoTimer
    /\ Posts([m EXCEPT !.stateTimer = NoTimer,
                       !.msd = IF m.stateTimer = "msd" THEN "TIMEOUT" ELSE @],
             StateTimerEvent(m))

\* ecall_msd_transfer_timeout writes m_msd_state on the thread of the timer.
MsdTimerFires ==
    /\ m.msdTimer
    /\ Posts([m EXCEPT !.msdTimer = FALSE, !.msd = "TIMEOUT"],
             IF m.state \in {"MSD_TRANSFER", "VOICE_COMMUNICATION"}
             THEN <<"MSD_TRANSFER_TIMEOUT">> ELSE <<>>)

RedialTimerFires ==
    /\ m.redialTimer
    /\ Prompt => queue = <<>>
    /\ Posts([m EXCEPT !.redialTimer = FALSE], <<"REDIAL_TIMEOUT">>)

CallbackTimerFires ==
    /\ m.callbackTimer
    /\ Posts([m EXCEPT !.callbackTimer = FALSE, !.elapsed = TRUE], <<"CALL_BACK_TIMEOUT">>)

CallbackTimePasses ==
    /\ m.state = WCB /\ ~m.elapsed
    /\ Posts([m EXCEPT !.elapsed = TRUE], <<>>)

-----------------------------------------------------------------------------
(* The modem and the PSAP.                                                 *)

Room == Len(queue) < MaxQueue

Reports(event, modem) == Posts([m EXCEPT !.modem = modem], <<event>>)

NetworkFound ==
    /\ Room /\ m.state = "REGISTRATION"
    /\ Posts(m, <<"REGISTRATION_SUCCESS">>)

CallProceeds ==
    \/ Room /\ m.modem = "dialing" /\ Reports("ACTIVE", "up")
    \/ Room /\ m.modem = "answered" /\ Reports("CONVERSATION", "talking")

\* The status of an outgoing call, and its end, which may be reported first.
OutgoingCallEnds ==
    \/ Room /\ m.modem = "dialing" /\ Reports("CALLOUT_FAIL", "idle")
    \/ Room /\ m.modem = "up" /\ Reports("END_OUTGOING", "lost")
    \/ /\ Room /\ m.modem \in {"dialing", "up", "lost", "released"}
       /\ \E e \in {"ABNORMAL_HANGUP", "DISCONNECTED"} : Reports(e, "idle")

IncomingCallEnds ==
    \/ /\ Room /\ m.modem \in {"ringing", "answered", "talking", "released"}
       /\ Reports("END_INCOMING", "idle")
    \/ Room /\ m.modem = "talking" /\ Reports("ABNORMAL_HANGUP", "idle")

ReleasedSilently ==
    /\ m.modem = "released"
    /\ Posts([m EXCEPT !.modem = "idle"], <<>>)

MsdIsReported ==
    /\ Room /\ m.modem \in {"up", "talking"}
    /\ \E e \in MsdReport \cup {"ALACK_POSITIVE_RECEIVED", "ALACK_CLEARDOWN_RECEIVED"} :
          Reports(e, m.modem)

-----------------------------------------------------------------------------
(* Stimuli from outside: the driver, diagnosis, a calling PSAP, failures.  *)

Stimulated(x, q) ==
    /\ stimuli < MaxStimuli
    /\ stimuli' = stimuli + 1
    /\ m' = x
    /\ queue' = q

DriverActs == \E e \in DriverEvent :
    /\ Room
    /\ Stimulated(m, Append(queue, e))
    /\ UNCHANGED retrigger

PsapCalls ==
    /\ Room /\ m.modem = "idle"
    /\ Stimulated([m EXCEPT !.modem = "ringing"], Append(queue, "INCOMING"))
    /\ UNCHANGED retrigger

ModemAppCrashes ==
    /\ Room
    /\ Stimulated([m EXCEPT !.modem =
                     IF EndReported /\ @ \in {"ringing", "answered", "talking"} THEN @ ELSE "idle"],
                  Append(queue, "DEMOAPP_STATUS_IND"))
    /\ UNCHANGED retrigger

\* What is interrupted is triggered again; otherwise the button may have been
\* pressed meanwhile.
Retriggers(saved) == IF saved \in {"OFF", WCB} THEN BOOLEAN ELSE {TRUE}

\* The program restarts; initStartUp reads what had been saved.
Restart ==
    /\ \E over \in BOOLEAN :
          Stimulated(
            [m EXCEPT !.state = "OFF", !.sub = "IDLE", !.call = "NONE", !.msd = "NONE",
                !.attempts = 0, !.stage = "OFF", !.inWCB = FALSE, !.elapsed = over,
                !.stateTimer = NoTimer, !.redialTimer = FALSE, !.msdTimer = FALSE,
                !.callbackTimer = FALSE],
            IF m.saved # "OFF" THEN <<"CALL_CRASH_RECOVERY_IND">> ELSE <<>>)
    /\ retrigger' \in Retriggers(m.saved)

\* The interrupted call is triggered again once the vehicle state is known.
Retrigger ==
    /\ retrigger
    /\ retrigger' = FALSE
    /\ \E e \in {"MANUAL_TRIGGER", "AUTO_TRIGGER"} : queue' = Append(queue, e)
    /\ UNCHANGED <<m, stimuli>>

-----------------------------------------------------------------------------
ProcessOff == TriggerInOff \/ LongPressInOff \/ RecoverInOff
ProcessManualTrigger == CancelManualTrigger \/ ConfirmManualTrigger
ProcessRegistration == Registered \/ RegistrationFails
ProcessCall == CallActive \/ CallActiveOverwritten \/ CallAbnormalHangup \/ CallDisconnected
               \/ CalloutFail \/ CalloutTimeout
ProcessMsdTransfer == MsdTimeout \/ MsdProgresses \/ MsdProgressOverwritten
                      \/ MsdAcknowledged \/ MsdClearedDown \/ MsdCallLost \/ MsdCallEnd
ProcessVoiceComm == VoiceMsdTimeout \/ ClearDownTimeout \/ VoiceDisconnected
                    \/ VoiceMsdProgresses \/ VoiceMsdAcknowledged \/ VoiceClearedDown
                    \/ VoiceAbnormalHangup \/ VoiceCallEnd
ProcessWaitCallback == LongPressInWCB \/ ManualTriggerInWCB \/ NewCallInWCB
                       \/ CancelInWCB \/ CallBackTimeout \/ DiagCancel
                       \/ AnswerCallback \/ CallbackActive \/ CallbackEnd

\* ecall_process_cmd
Process == ProcessOff \/ ProcessManualTrigger \/ ProcessRegistration \/ ProcessCall
           \/ ProcessMsdTransfer \/ ProcessVoiceComm \/ ProcessWaitCallback
           \/ DemoappCrash \/ RedialTimeout \/ Drop

TimerThreads == StateTimerFires \/ MsdTimerFires \/ RedialTimerFires
                \/ CallbackTimerFires \/ CallbackTimePasses

ModemActs == NetworkFound \/ CallProceeds \/ OutgoingCallEnds \/ IncomingCallEnds
             \/ ReleasedSilently \/ MsdIsReported

Outside == DriverActs \/ PsapCalls \/ ModemAppCrashes \/ Restart \/ Retrigger

Next == Process \/ TimerThreads \/ ModemActs \/ Outside

Spec == Init /\ [][Next]_vars

\* The handler thread and the timers run, and calls end some day.
Fairness ==
    /\ WF_vars(Process)
    /\ WF_vars(StateTimerFires) /\ WF_vars(RedialTimerFires)
    /\ WF_vars(CallbackTimerFires) /\ WF_vars(Retrigger)
    /\ WF_vars(ReleasedSilently)
    /\ SF_vars(OutgoingCallEnds) /\ SF_vars(IncomingCallEnds)

FairSpec == Spec /\ Fairness

-----------------------------------------------------------------------------
(* Properties.                                                             *)

\* An armed timer belongs to the state the machine is in: no callback finds
\* itself "on wrong state" and drops the timeout the state is waiting for, and
\* no redial is pending once the eCall has left the call stages.
TimerFitsState ==
    /\ m.stateTimer # NoTimer => StateTimerEvent(m) # <<>>
    /\ m.stateTimer = "msd" => m.state = "MSD_TRANSFER"
    /\ m.redialTimer => m.state \in {"CALL", "MSD_TRANSFER", "VOICE_COMMUNICATION"}

\* The state of the call fits the state of the machine, whichever of the stale
\* events in the queue the handlers meet: what isECallActive answers is right
\* in every state that asks it.
CallFitsState ==
    /\ m.state \in {"OFF", "MANUAL_TRIGGERED", "REGISTRATION"} => m.call = "NONE"
    /\ m.state = "CALL" => m.call \in {"DIAL", "FAIL", "ABNORMAL_HANGUP", "DISCONNECTED"}
    /\ m.state \in {"MSD_TRANSFER", "VOICE_COMMUNICATION"} =>
           m.call \in {"ACTIVE", "ABNORMAL_HANGUP", "DISCONNECTED"}
    /\ m.state = WCB => m.call \notin {"DIAL", "REDIAL", "ACTIVE"}

Queued(e) == \E i \in 1..Len(queue) : queue[i] = e

\* Every stage of an eCall but the MSD transfer is supervised: a timer runs or
\* its timeout waits in the queue, so that the eCall goes on if the modem stays
\* silent.
Supervised ==
    /\ m.state = "MANUAL_TRIGGERED" \/ (m.state = WCB /\ m.sub = "TRIGGERED") =>
           m.stateTimer = "manual_cancel" \/ Queued("MANUAL_CANCEL_TIMEOUT")
    /\ m.state = "REGISTRATION" =>
           m.stateTimer = "registration" \/ Queued("REGISTRATION_TIMEOUT")
    /\ m.state = "CALL" =>
           \/ m.stateTimer = "call" \/ Queued("CALLOUT_TIMEOUT")
           \/ m.call # "DIAL" /\ (m.redialTimer \/ Queued("REDIAL_TIMEOUT"))
    /\ m.state = "VOICE_COMMUNICATION" =>
           m.stateTimer = "clear_down" \/ Queued("CLEARDOWN_TIMEOUT")

\* What the configuration file says after a crash is what the machine was doing:
\* the saved state follows the machine, and while it names an eCall that the
\* restarted machine does not run, its recovery or its trigger is on the way.
SavedFitsState ==
    /\ m.state # "OFF" =>
           m.saved = IF m.state = "MANUAL_TRIGGERED" \/ (m.state = WCB /\ m.sub = "TRIGGERED")
                     THEN "TRIGGERED" ELSE m.state
    /\ m.state = "OFF" /\ m.saved # "OFF" =>
           \/ retrigger
           \/ \E e \in {"MANUAL_TRIGGER", "AUTO_TRIGGER", "CALL_CRASH_RECOVERY_IND"} : Queued(e)

\* The machine dials at most ECALL_DIAL_ATTEMPTS_EU times in a stage of the
\* call, and a pending redial is within that number, if the queue is empty when
\* the redial timer expires.
AttemptsBounded ==
    Prompt => /\ m.attempts <= IF DialAttemptsEU = 0 THEN 1 ELSE DialAttemptsEU
              /\ m.redialTimer => m.attempts < DialAttemptsEU

\* Every eCall comes to its end: the machine does not redial for ever, nor wait
\* for a call back, or for the end of one, that does not come.
ECallEnds == m.state # "OFF" ~> m.state = "OFF"
=============================================================================
