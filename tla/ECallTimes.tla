---------------------------- MODULE ECallTimes -----------------------------
(***************************************************************************)
(* The times of an eCall that CeCallMachine computes from the wall clock:  *)
(* when a lost call is dialled again, and how much of the time for         *)
(* callbacks (CALL_AUTO_ANSWER_TIME) is left, over calls of the PSAP,      *)
(* manual triggers, restarts and changes of the clock.                     *)
(*                                                                         *)
(* The states are those of ECallMachine, reduced to what the times depend  *)
(* on; a handler runs when it is due.  Its writes to the configuration     *)
(* file follow one by one, so that a crash may come between two of them.   *)
(* The callback timer runs in the receiver of the state notifications.     *)
(***************************************************************************)
EXTENDS Integers, Sequences

CONSTANTS
    Configs,        \* the configurations: callback time, dial duration, attempts
    RedialDelay,    \* redial_delay_time: 5 s in the code
    MinCallTime,    \* the shortest call timer: 60 s in the code
    U32,            \* unsigned arithmetic is modulo U32: 2^32 in the code
    MaxTime,        \* bounds of the model: time that passes, crashes,
    MaxCrashes, MaxClockSets, MaxTriggers \* changes of the clock, new calls

Config == [autoAnswer : Nat, duration : Nat, attempts : Nat \ {0}]

ASSUME TimesAssumption ==
    /\ Configs \subseteq Config /\ \A c \in Configs : c.duration < U32
    /\ RedialDelay \in Nat /\ MinCallTime \in Nat \ {0} /\ U32 \in Nat \ {0}
    /\ MaxTime \in Nat /\ MaxCrashes \in Nat
    /\ MaxClockSets \in Nat /\ MaxTriggers \in Nat

Stopped == -1                       \* a timer that is not running

Phase == {"OFF", "CALL", "MSD", "VOICE", "WCB", "DOWN"}
Save  == [item : {"enter", "remaining"}, value : Int] \cup
         [item : {"state"}, value : {"OFF", "BUSY", "WCB"}]

VARIABLES
    config,     \* the configuration
    clock,      \* the wall clock, in seconds
    m,          \* members of CeCallMachine, and the writes still to be done
    file,       \* the configuration file
    callback,   \* the receiver's timer
    timeout,    \* its CALL_BACK_TIMEOUT: none, behind one event, or next
    time,       \* ghost: the true time
    sinceFirst, \* ghost: true time since the first dial of the call
    waitedIdle, \* ghost: time spent waiting, no call ringing, in this eCall
    waitedAll,  \* ghost: time spent waiting, also ringing or restarting
    disturbed,  \* ghost: a set of what happened to the times
    crashes, clockSets, triggers    \* for the bounds

ghosts == <<sinceFirst, waitedIdle, waitedAll>>
bounds == <<crashes, clockSets, triggers>>
vars == <<config, clock, m, file, callback, timeout, time, ghosts, disturbed, bounds>>

Machine ==
    [phase : Phase, triggered : BOOLEAN, ringing : BOOLEAN,
     inWCB : BOOLEAN,           \* m_is_already_in_WCB
     remaining : Nat,           \* m_remaining_time_in_WCB
     enter : Int,               \* m_enter_WCB_epoch_time
     attempts : Nat,            \* dial_attempts
     stage : Phase,             \* eCall_state_for_redial
     firstDial : Int,           \* m_first_dial_time
     callTimer : Int,           \* m_statetimer, of CALL
     redialTimer : Int,         \* m_redialtimer
     saves : Seq(Save)]

TypeOK ==
    /\ config \in Configs
    /\ clock \in Int /\ time \in Nat
    /\ m \in Machine /\ m.remaining <= config.autoAnswer
    /\ file \in [state : {"OFF", "BUSY", "WCB"}, remaining : Nat, enter : Int]
    /\ callback \in Int /\ timeout \in {"none", "behind", "next"}
    /\ sinceFirst \in Nat /\ waitedIdle \in Nat /\ waitedAll \in Nat
    /\ disturbed \subseteq {"back", "forward", "cut", "trigger"}
    /\ crashes \in Nat /\ clockSets \in Nat /\ triggers \in Nat

Init ==
    /\ config \in Configs
    /\ clock = MaxTime
    /\ m = [phase |-> "OFF", triggered |-> FALSE, ringing |-> FALSE, inWCB |-> FALSE,
            remaining |-> 0, enter |-> 0, attempts |-> 0, stage |-> "OFF",
            firstDial |-> 0, callTimer |-> Stopped, redialTimer |-> Stopped,
            saves |-> <<>>]
    /\ file = [state |-> "OFF", remaining |-> 0, enter |-> 0]
    /\ callback = Stopped /\ timeout = "none"
    /\ time = 0 /\ sinceFirst = 0 /\ waitedIdle = 0 /\ waitedAll = 0
    /\ disturbed = {}
    /\ crashes = 0 /\ clockSets = 0 /\ triggers = 0

-----------------------------------------------------------------------------
(* Faulty variants of definitions below, for the mutation runs.            *)

MaxOf(a, b) == IF a > b THEN a ELSE b
MinOf(a, b) == IF a < b THEN a ELSE b

SaveItem(x, item, value) ==
    [x EXCEPT !.saves = Append(@, [item |-> item, value |-> value])]

\* The time is rearmed when the PSAP has called back.
RearmedRemaining(x) == config.autoAnswer

\* The subtraction wraps.
Wrapped(left) == left % U32

\* The elapsed time is not subtracted at the beginning of a callback.
VoiceKeepsRemaining(x) == x

\* The timer starts anew with the full time after a cancelled trigger.
FullTime(x) == config.autoAnswer

\* The next dial is counted from now.
RedialFromNow(x) == (config.duration \div config.attempts) * x.attempts

-----------------------------------------------------------------------------
(* Members called by the handlers, as functions of the record x.           *)

\* std::round of an integer division
Interval == config.duration \div config.attempts

SetEnterWCBTime(x) == SaveItem([x EXCEPT !.enter = clock], "enter", clock)

\* calElapsedTimeInWCB, calRemainingTimeInWCB.  The cast of the elapsed seconds
\* to uint32_t is left out: it would take a wait of 136 years.
ElapsedTimeInWCB(x) == IF clock > x.enter THEN clock - x.enter ELSE 0

Saturated(left) == MinOf(MaxOf(left, 0), config.autoAnswer)

SetExitWCBTime(x) ==
    LET left == Saturated(x.remaining - ElapsedTimeInWCB(x))
    IN  SaveItem([x EXCEPT !.remaining = left], "remaining", left)

\* Unless the machine has waited for callbacks before, the time is set anew.
RemainingOnEntry(x) == IF x.inWCB THEN x.remaining ELSE config.autoAnswer

\* The time with which the receiver is told to wait.
NotifiedTime(x) == x.remaining

StopTimers(x) == [x EXCEPT !.callTimer = Stopped, !.redialTimer = Stopped]

EnterOff(x) ==
    SaveItem([x EXCEPT !.phase = "OFF", !.triggered = FALSE, !.ringing = FALSE,
                       !.inWCB = FALSE, !.callTimer = Stopped], "state", "OFF")

EnterWCB(x) ==
    LET y == [SetEnterWCBTime(StopTimers(x)) EXCEPT !.remaining = RemainingOnEntry(x)]
        z == IF x.inWCB THEN y ELSE SaveItem(y, "remaining", y.remaining)
    IN  IF z.remaining = 0 THEN EnterOff(z)
        ELSE SaveItem([z EXCEPT !.phase = "WCB", !.triggered = FALSE,
                          !.ringing = FALSE, !.inWCB = TRUE], "state", "WCB")

EnterWCBIdle(x) ==
    SaveItem([SetEnterWCBTime(x) EXCEPT !.triggered = FALSE], "state", "WCB")

ExitOnCallback(x) == SetExitWCBTime(x)

EnterVoice(x) ==
    LET y == IF x.phase = "WCB" THEN ExitOnCallback(x) ELSE x
    IN  SaveItem([y EXCEPT !.phase = "VOICE", !.ringing = FALSE, !.triggered = FALSE,
                           !.attempts = IF x.stage = "VOICE" THEN @ ELSE 1,
                           !.stage = "VOICE"], "state", "BUSY")

\* A first dial and a redial.  The difference is unsigned.
EnterNewCall(x) ==
    SaveItem([x EXCEPT !.phase = "CALL", !.triggered = FALSE, !.ringing = FALSE,
                       !.inWCB = FALSE, !.attempts = 1, !.stage = "CALL",
                       !.firstDial = clock,
                       !.callTimer = MaxOf((Interval - RedialDelay) % U32, MinCallTime)],
             "state", "BUSY")

\* Only the last attempt has the whole interval.
RedialCallTime(x) ==
    IF x.attempts + 1 < config.attempts /\ Interval > RedialDelay
    THEN Interval - RedialDelay ELSE Interval

EnterRedial(x) ==
    SaveItem([x EXCEPT !.phase = "CALL", !.inWCB = FALSE, !.attempts = @ + 1,
                       !.redialTimer = Stopped,
                       !.callTimer = MaxOf(RedialCallTime(x), MinCallTime)],
             "state", "BUSY")

\* getRedialTimer; the difference of the times is cast to an unsigned number.
NextDial(x) ==
    LET diff == clock - x.firstDial
    IN  MaxOf(Interval * x.attempts - (diff % U32), 0)

RedialTime(x) ==
    IF x.stage = "CALL" /\ clock - x.firstDial < config.duration
    THEN MaxOf(NextDial(x), RedialDelay) ELSE RedialDelay

RedialOrGiveUp(x) ==
    IF x.attempts < config.attempts
    THEN [x EXCEPT !.callTimer = Stopped, !.redialTimer = RedialTime(x)]
    ELSE EnterWCB(x)

-----------------------------------------------------------------------------
(* The handlers.  A CALL_BACK_TIMEOUT on its way may come behind one other *)
(* event.                                                                  *)
MayHandle == m.phase # "DOWN" /\ m.saves = <<>> /\ timeout # "next"

Becomes(x) ==
    /\ m' = x
    /\ timeout' = IF timeout = "behind" THEN "next" ELSE timeout
    /\ UNCHANGED <<config, clock, file, time, crashes, clockSets>>

\* What the receiver's timer does when it is told of the new state.
Notified(x, told) ==
    callback' = CASE told = "WCB"  -> NotifiedTime(x)
                  [] told = "same" -> callback
                  [] OTHER         -> Stopped

NewECall == sinceFirst' = 0 /\ waitedIdle' = 0 /\ waitedAll' = 0

SameECall == UNCHANGED ghosts /\ UNCHANGED triggers

Trigger == triggers < MaxTriggers /\ triggers' = triggers + 1

\* The trigger, registration, and the call.
StartCall ==
    /\ MayHandle /\ m.phase = "OFF" /\ Trigger
    /\ Becomes(EnterNewCall(m))
    /\ Notified(m, "TRIGGERED")
    /\ NewECall /\ disturbed' = {}

Dialling == m.phase = "CALL" /\ m.redialTimer = Stopped

CallConnected ==
    /\ MayHandle /\ Dialling
    /\ Becomes(SaveItem([m EXCEPT !.phase = "MSD", !.callTimer = Stopped,
                            !.attempts = IF m.stage = "CALL" THEN 1 ELSE @,
                            !.stage = IF @ = "CALL" THEN "MSD" ELSE @],
                        "state", "BUSY"))
    /\ Notified(m, "same") /\ SameECall /\ UNCHANGED disturbed

\* The MSD has been sent, or its timer has run out.
MsdDone ==
    /\ MayHandle /\ m.phase = "MSD" /\ m.redialTimer = Stopped
    /\ Becomes(EnterVoice(m))
    /\ Notified(m, "VOICE") /\ SameECall /\ UNCHANGED disturbed

\* The call is lost, fails, or is not answered before its timer runs out.
CallLost ==
    /\ MayHandle
    /\ m.phase \in {"CALL", "MSD", "VOICE"} /\ m.redialTimer = Stopped
    /\ LET x == RedialOrGiveUp(m)
       IN  /\ Becomes(x)
           /\ Notified(x, IF x.phase \in {"WCB", "OFF"} THEN x.phase ELSE "same")
    /\ SameECall /\ UNCHANGED disturbed

RedialTimeout ==
    /\ MayHandle /\ m.redialTimer = 0
    /\ Becomes(EnterRedial(m))
    /\ Notified(m, "same")
    /\ waitedIdle' = 0 /\ waitedAll' = 0
    /\ UNCHANGED <<sinceFirst, triggers, disturbed>>

\* The end of the conversation, or a call that is lost with the MSD acknowledged.
CallEnds ==
    /\ MayHandle /\ m.phase \in {"MSD", "VOICE"} /\ m.redialTimer = Stopped
    /\ LET x == EnterWCB(m) IN (Becomes(x) /\ Notified(x, x.phase))
    /\ SameECall /\ UNCHANGED disturbed

PsapCalls ==
    /\ MayHandle /\ m.phase = "WCB" /\ ~m.ringing
    /\ Becomes([m EXCEPT !.ringing = TRUE])
    /\ Notified(m, "same") /\ SameECall /\ UNCHANGED disturbed

CallbackActive ==
    /\ MayHandle /\ m.phase = "WCB" /\ m.ringing
    /\ Becomes(EnterVoice(m))
    /\ Notified(m, "VOICE") /\ SameECall
    /\ disturbed' = disturbed \cup (IF m.triggered THEN {"trigger"} ELSE {})

CallbackEnd ==
    /\ MayHandle /\ m.phase = "WCB" /\ m.ringing
    /\ LET x == [SetEnterWCBTime(SetExitWCBTime(m)) EXCEPT !.ringing = FALSE]
           y == IF x.remaining = 0 THEN EnterOff(x) ELSE x
       IN  /\ Becomes(y)
           /\ Notified(y, IF y.phase = "OFF" THEN "OFF" ELSE "same")
    /\ disturbed' = disturbed \cup (IF m.triggered THEN {"trigger"} ELSE {})
    /\ SameECall

\* A long press, or a manual trigger, that may still be cancelled.
ManualTriggerInWCB ==
    /\ MayHandle /\ m.phase = "WCB" /\ Trigger
    /\ Becomes(SaveItem([SetExitWCBTime(m) EXCEPT !.triggered = TRUE], "state", "BUSY"))
    /\ Notified(m, "TRIGGERED")
    /\ disturbed' = disturbed \cup (IF m.triggered THEN {"trigger"} ELSE {})
    /\ UNCHANGED ghosts

CancelInWCB ==
    /\ MayHandle /\ m.phase = "WCB" /\ m.triggered
    /\ LET x == EnterWCBIdle(m) IN (Becomes(x) /\ Notified(x, "WCB"))
    /\ SameECall /\ UNCHANGED disturbed

\* An automatic trigger, or the manual one is confirmed.
NewCallInWCB ==
    /\ MayHandle /\ m.phase = "WCB"
    /\ IF m.triggered THEN UNCHANGED triggers ELSE Trigger
    /\ Becomes(EnterNewCall(m))
    /\ Notified(m, "TRIGGERED")
    /\ NewECall /\ disturbed' = {}

CallBackTimeout ==
    /\ m.phase # "DOWN" /\ m.saves = <<>> /\ timeout \in {"behind", "next"}
    /\ timeout' = "none"
    /\ LET over == m.phase = "WCB" /\ ~m.triggered /\ ~m.ringing
       IN  /\ m' = IF over THEN EnterOff(m) ELSE m
           /\ Notified(m, IF over THEN "OFF" ELSE "same")
    /\ SameECall /\ UNCHANGED disturbed
    /\ UNCHANGED <<config, clock, file, time, crashes, clockSets>>

Handlers ==
    \/ StartCall \/ CallConnected \/ MsdDone \/ CallLost \/ RedialTimeout \/ CallEnds
    \/ PsapCalls \/ CallbackActive \/ CallbackEnd \/ ManualTriggerInWCB
    \/ CancelInWCB \/ NewCallInWCB \/ CallBackTimeout

-----------------------------------------------------------------------------
(* The configuration file, restarts, and time.                             *)

WriteFile ==
    /\ m.saves # <<>>
    /\ LET save == Head(m.saves) IN file' = [file EXCEPT ![save.item] = save.value]
    /\ m' = [m EXCEPT !.saves = Tail(@)]
    /\ UNCHANGED <<config, clock, callback, timeout, time, ghosts, disturbed, bounds>>

Crash ==
    /\ m.phase # "DOWN" /\ crashes < MaxCrashes
    /\ crashes' = crashes + 1
    /\ m' = [StopTimers(m) EXCEPT !.phase = "DOWN", !.triggered = FALSE,
                                  !.ringing = FALSE, !.inWCB = FALSE, !.saves = <<>>]
    /\ disturbed' = disturbed \cup (IF m.saves # <<>> THEN {"cut"} ELSE {})
    /\ timeout' = "none"
    /\ UNCHANGED <<config, clock, file, callback, time, ghosts, clockSets, triggers>>

\* initStartUp, and ECALL_FLOW_CALL_CRASH_RECOVERY_IND in OFF.
Restart ==
    /\ m.phase = "DOWN"
    /\ LET x == [m EXCEPT !.phase = "OFF", !.remaining = file.remaining,
                          !.enter = file.enter]
           y == SetExitWCBTime([x EXCEPT !.inWCB = TRUE])
           z == IF y.remaining = 0 THEN EnterOff(y) ELSE EnterWCB(y)
       IN  IF file.state = "WCB"
           THEN /\ m' = z /\ Notified(z, z.phase)
           ELSE /\ m' = x /\ Notified(x, "same")
    /\ UNCHANGED <<config, clock, file, timeout, time, ghosts, disturbed, bounds>>

CallbackTimerFires ==
    /\ callback = 0 /\ timeout = "none"
    /\ callback' = Stopped
    /\ timeout' \in IF m.phase = "DOWN" THEN {"none", "next"} ELSE {"behind", "next"}
    /\ UNCHANGED <<config, clock, m, file, time, ghosts, disturbed, bounds>>

Down(t) == IF t > 0 THEN t - 1 ELSE t

\* Time passes when nothing is due.
Tick ==
    /\ time < MaxTime
    /\ m.saves = <<>> /\ timeout = "none" /\ callback # 0
    /\ m.redialTimer # 0 /\ m.callTimer # 0
    /\ time' = time + 1 /\ clock' = clock + 1
    /\ callback' = Down(callback)
    /\ m' = [m EXCEPT !.redialTimer = Down(@), !.callTimer = Down(@)]
    /\ sinceFirst' = IF m.phase = "CALL" THEN sinceFirst + 1 ELSE sinceFirst
    /\ waitedIdle' = IF m.phase = "WCB" /\ ~m.triggered /\ ~m.ringing
                     THEN waitedIdle + 1 ELSE waitedIdle
    /\ waitedAll' = IF \/ m.phase = "WCB" /\ ~m.triggered
                       \/ m.phase = "DOWN" /\ file.state = "WCB"
                    THEN waitedAll + 1 ELSE waitedAll
    /\ UNCHANGED <<config, file, timeout, disturbed, bounds>>

\* The clock is set, by the network or the GNSS.
SetClock ==
    /\ clockSets < MaxClockSets
    /\ clockSets' = clockSets + 1
    /\ clock' \in {clock - 2, clock + 2}
    /\ disturbed' = disturbed \cup {IF clock' < clock THEN "back" ELSE "forward"}
    /\ UNCHANGED <<config, m, file, callback, timeout, time, ghosts, crashes, triggers>>

Next == Handlers \/ WriteFile \/ Crash \/ Restart \/ CallbackTimerFires \/ Tick \/ SetClock

Spec == Init /\ [][Next]_vars

-----------------------------------------------------------------------------
(* The callback time is not rearmed by calls of the PSAP, by triggers that *)
(* are cancelled, or by restarts: since the last dial the machine has not  *)
(* waited longer for a call than configured, if the clock is not set back. *)
NotRearmed == "back" \notin disturbed => waitedIdle <= config.autoAnswer

(* What is left is the configured time less the time waited, to the second,*)
(* unless the clock is set, the program stops between two writes, or a     *)
(* call or a second press comes while a trigger waits for its confirmation.*)
Left == IF m.phase = "WCB" /\ ~m.triggered
        THEN m.remaining - (clock - m.enter) ELSE m.remaining

TimeExact ==
    disturbed = {} /\ m.inWCB
        => MaxOf(Left, 0) = MaxOf(config.autoAnswer - waitedAll, 0)

(* While the machine waits, the receiver's timer runs and will end the     *)
(* waiting when the time that is left has passed, or has just done so.     *)
TimerAgrees ==
    (/\ m.phase = "WCB" /\ ~m.triggered /\ ~m.ringing
     /\ disturbed \cap {"back", "forward"} = {})
        => \/ callback = Left
           \/ timeout # "none" /\ Left <= 0

(* The k-th attempt begins when k-1 intervals have passed, unless the dial *)
(* duration is over, and, if the interval has room for the shortest call   *)
(* and the redial delay, it is over when k have.                           *)
Roomy == Interval >= MinCallTime + RedialDelay

DialsSpaced ==
    (m.phase = "CALL" /\ m.stage = "CALL" /\ disturbed \cap {"back", "forward"} = {})
        => /\ sinceFirst >= MinOf(Interval * (m.attempts - 1), config.duration)
           /\ Roomy => sinceFirst <= Interval * m.attempts
=============================================================================
