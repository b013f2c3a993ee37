------------------------- MODULE ECallTimes_proofs -------------------------
(***************************************************************************)
(* Proofs about the times of an eCall, for every configuration and for any *)
(* number of calls, restarts and changes of the clock.                     *)
(***************************************************************************)
EXTENDS ECallTimes, SequenceTheorems, TLAPS

-----------------------------------------------------------------------------
(* The inductive invariant.                                                *)

\* The time is running: no manual trigger waits for its confirmation.
Waiting == m.phase = "WCB" /\ ~m.triggered

\* What would be left if the waiting that f tells of ended now.
LeftIn(f) == MaxOf(f.remaining - MaxOf(clock - f.enter, 0), 0)

\* What is left, by the machine's members.
LeftNow == IF Waiting THEN LeftIn(m) ELSE m.remaining

\* The clock has been set since the first dial.
ClockSet == disturbed \cap {"back", "forward"} # {}

\* Which members are meaningful in which phase.
Phases ==
    /\ m.inWCB => m.phase \in {"WCB", "VOICE"}
    /\ m.phase = "WCB" => m.inWCB
    /\ m.triggered \/ m.ringing => m.phase = "WCB"
    /\ m.phase = "DOWN" => m.saves = <<>>
    /\ m.redialTimer # Stopped => m.phase \in {"CALL", "MSD", "VOICE"}
    /\ m.phase \in {"CALL", "MSD", "VOICE"} => m.stage \in {"CALL", "MSD", "VOICE"}
    /\ m.phase \in {"MSD", "VOICE"} => m.stage # "CALL"
    /\ m.phase = "CALL" /\ m.redialTimer = Stopped => m.callTimer >= 0
    /\ m.callTimer >= Stopped /\ m.redialTimer >= Stopped /\ callback >= Stopped
    /\ m.phase \in {"CALL", "MSD", "VOICE"} /\ ~m.inWCB => waitedIdle = 0 /\ waitedAll = 0

\* What has been waited and what is left are no more than configured, and the
\* receiver's timer does not stop before it.
Budget ==
    "back" \notin disturbed =>
        /\ waitedIdle <= config.autoAnswer
        /\ m.inWCB => waitedIdle + LeftNow <= config.autoAnswer
        /\ Waiting => m.enter <= clock
        /\ Waiting /\ callback # Stopped =>
              Left <= callback /\ waitedIdle + callback <= config.autoAnswer
        /\ Waiting /\ callback = Stopped =>
              Left <= 0 /\ (m.ringing \/ timeout # "none")

\* The receiver's timer runs to the very second, unless the clock has been set.
TimerRuns == ~ClockSet /\ Waiting /\ callback # Stopped => callback = Left

\* What is left, known to the machine or told by the file while the program is
\* down, is the configured time less the time waited.
Exact ==
    disturbed = {} =>
        /\ m.inWCB => LeftNow = MaxOf(config.autoAnswer - waitedAll, 0)
        /\ m.phase = "DOWN" /\ file.state = "WCB" =>
              file.enter <= clock /\ LeftIn(file) = MaxOf(config.autoAnswer - waitedAll, 0)

\* A file from which the program may be started again at any time.
Safe(f) ==
    /\ f.remaining <= config.autoAnswer
    /\ "back" \notin disturbed /\ f.state = "WCB"
          => waitedIdle + LeftIn(f) <= config.autoAnswer

\* A file that tells what the machine knows.
Agrees(f) ==
    /\ m.phase # "DOWN" => (Waiting <=> f.state = "WCB")
    /\ m.inWCB => f.remaining = m.remaining
    /\ Waiting => f.enter = m.enter

\* The file after the writes still to be done.
Saved(f, save) == [f EXCEPT ![save.item] = save.value]
Saved1 == Saved(file, m.saves[1])
Saved2 == Saved(Saved1, m.saves[2])
Saved3 == Saved(Saved2, m.saves[3])

File == [state : {"OFF", "BUSY", "WCB"}, remaining : Nat, enter : Int]

\* The program may be started again from the file after each of the writes, of
\* which there are at most three; after the last the file tells what the machine
\* knows.
Writes ==
    /\ Len(m.saves) <= 3
    /\ Safe(file)
    /\ Len(m.saves) = 0 => Agrees(file)
    /\ Len(m.saves) >= 1 => Saved1 \in File /\ Safe(Saved1)
    /\ Len(m.saves) = 1 => Agrees(Saved1)
    /\ Len(m.saves) >= 2 => Saved2 \in File /\ Safe(Saved2)
    /\ Len(m.saves) = 2 => Agrees(Saved2)
    /\ Len(m.saves) = 3 => Saved3 \in File /\ Safe(Saved3) /\ Agrees(Saved3)

\* The true time of the attempt, with what is left of its timers.
Dials ==
    m.phase = "CALL" /\ m.stage = "CALL" =>
        /\ m.attempts \in 1..config.attempts
        /\ m.redialTimer # Stopped => m.attempts < config.attempts
        /\ ~ClockSet =>
            /\ clock - m.firstDial = sinceFirst
            /\ sinceFirst >= MinOf(Interval * (m.attempts - 1), config.duration)
            /\ m.redialTimer # Stopped =>
                  sinceFirst + m.redialTimer >= MinOf(Interval * m.attempts, config.duration)
            /\ Roomy /\ m.redialTimer = Stopped =>
                  /\ sinceFirst + m.callTimer <= Interval * m.attempts
                  /\ m.attempts < config.attempts =>
                        sinceFirst + m.callTimer + RedialDelay <= Interval * m.attempts
            /\ Roomy /\ m.redialTimer # Stopped =>
                  sinceFirst + m.redialTimer <= Interval * m.attempts

\* The inductive invariant.
TimesInv ==
    /\ TypeOK
    /\ Phases
    /\ Budget
    /\ TimerRuns
    /\ Exact
    /\ Writes
    /\ Dials

-----------------------------------------------------------------------------
(* Arithmetic, and the writes to the file.                                 *)

\* The constants and the configuration have the values they are assumed to have.
LEMMA ConfigFacts ==
    ASSUME TypeOK
    PROVE  /\ config.autoAnswer \in Nat /\ config.duration \in Nat
           /\ config.attempts \in Nat \ {0} /\ config.duration < U32
           /\ RedialDelay \in Nat /\ MinCallTime \in Nat \ {0} /\ U32 \in Nat \ {0}
           /\ MaxTime \in Nat
<1>1. config \in Config /\ config.duration < U32
  BY TimesAssumption DEF TypeOK
<1>2. /\ RedialDelay \in Nat /\ MinCallTime \in Nat \ {0} /\ U32 \in Nat \ {0} /\ MaxTime \in Nat
  BY TimesAssumption
<1> QED
  BY <1>1, <1>2 DEF Config

\* Unsigned arithmetic: a remainder is below the modulus, and a number that fits is
\* its own.
LEMMA Remainders ==
    ASSUME NEW d \in Int, NEW u \in Nat \ {0}
    PROVE  /\ d % u \in 0..(u - 1)
           /\ d >= 0 => d % u <= d
           /\ 0 <= d /\ d < u => d % u = d
OBVIOUS

\* The interval between two dials is no longer than the whole duration.
LEMMA IntervalFacts ==
    ASSUME TypeOK
    PROVE  Interval \in Nat /\ Interval <= config.duration
<1>1. \A d \in Nat, n \in Nat \ {0} : d \div n \in Nat /\ d \div n <= d
  OBVIOUS
<1> QED
  BY <1>1, ConfigFacts DEF Interval

\* A write of one item of the file.
Saving(item, value) == [item |-> item, value |-> value]

\* The writes have the type of writes.
LEMMA SavingTypes ==
    /\ \A v \in {"OFF", "BUSY", "WCB"} : Saving("state", v) \in Save
    /\ \A v \in Int : Saving("enter", v) \in Save /\ Saving("remaining", v) \in Save
BY DEF Saving, Save

\* What a write changes of the file.
LEMMA SavedItems ==
    ASSUME NEW f \in File
    PROVE  /\ \A v \in {"OFF", "BUSY", "WCB"} :
                 Saved(f, Saving("state", v)) = [f EXCEPT !.state = v]
           /\ \A v \in Int : Saved(f, Saving("enter", v)) = [f EXCEPT !.enter = v]
           /\ \A v \in Nat : Saved(f, Saving("remaining", v)) = [f EXCEPT !.remaining = v]
BY DEF Saved, Saving, File

\* Up to three writes, appended one by one, are the list of them.
LEMMA Appended ==
    ASSUME NEW S, NEW a \in S, NEW b \in S, NEW c \in S
    PROVE  /\ Append(<<>>, a) = <<a>> /\ Append(<<a>>, b) = <<a, b>>
           /\ Append(<<a, b>>, c) = <<a, b, c>>
<1>1. /\ <<>> \in Seq(S) /\ <<a>> \in Seq(S) /\ <<a, b>> \in Seq(S) /\ <<a, b, c>> \in Seq(S)
      /\ Len(<<>>) = 0 /\ Len(<<a>>) = 1 /\ Len(<<a, b>>) = 2 /\ Len(<<a, b, c>>) = 3
  OBVIOUS
<1>2. Append(<<>>, a) = <<a>>
  BY <1>1, AppendProperties, SeqEqual
<1>3. Append(<<a>>, b) = <<a, b>>
  <2>1. /\ Append(<<a>>, b) \in Seq(S) /\ Len(Append(<<a>>, b)) = 2
        /\ Append(<<a>>, b)[1] = a /\ Append(<<a>>, b)[2] = b
    BY <1>1, AppendProperties
  <2>2. \A i \in 1..2 : Append(<<a>>, b)[i] = <<a, b>>[i]
    BY <2>1
  <2>3. QED
    BY <1>1, <2>1, <2>2, SeqEqual
<1>4. Append(<<a, b>>, c) = <<a, b, c>>
  <2>1. /\ Append(<<a, b>>, c) \in Seq(S) /\ Len(Append(<<a, b>>, c)) = 3
        /\ Append(<<a, b>>, c)[1] = a /\ Append(<<a, b>>, c)[2] = b /\ Append(<<a, b>>, c)[3] = c
    BY <1>1, AppendProperties
  <2>2. \A i \in 1..3 : Append(<<a, b>>, c)[i] = <<a, b, c>>[i]
    BY <2>1
  <2>3. QED
    BY <1>1, <2>1, <2>2, SeqEqual
<1> QED
  BY <1>2, <1>3, <1>4

-----------------------------------------------------------------------------
(* One lemma per action.                                                   *)

\* Before a handler there is nothing to be written.
LEMMA Handling ==
    ASSUME TimesInv, MayHandle
    PROVE  /\ m \in Machine /\ file \in File /\ m.saves = <<>> /\ Safe(file) /\ Agrees(file)
           /\ m.phase # "DOWN" /\ timeout \in {"none", "behind"}
<1>1. m \in Machine /\ file \in File /\ timeout \in {"none", "behind", "next"}
  BY DEF TimesInv, TypeOK, File
<1>2. m.saves = <<>> /\ m.phase # "DOWN" /\ timeout # "next"
  BY DEF MayHandle
<1>3. Safe(file) /\ Agrees(file)
  BY <1>2 DEF TimesInv, Writes
<1> QED
  BY <1>1, <1>2, <1>3

\* The constants of the machine have their types.
LEMMA Literals ==
    /\ \A p \in {"OFF", "CALL", "MSD", "VOICE", "WCB", "DOWN"} : p \in Phase
    /\ Stopped \in Int /\ <<>> \in Seq(Save) /\ 0 \in Nat /\ 1 \in Nat
    /\ \A save \in Save : <<save>> \in Seq(Save)
    /\ \A save, next \in Save : <<save, next>> \in Seq(Save)
    /\ \A save, next, last \in Save : <<save, next, last>> \in Seq(Save)
BY DEF Phase, Stopped

\* The first write a handler leaves to be done.
LEMMA SaveItemOf ==
    ASSUME NEW x \in Machine, NEW item, NEW value, Saving(item, value) \in Save
    PROVE  /\ SaveItem(x, item, value) = [x EXCEPT !.saves = Append(x.saves, Saving(item, value))]
           /\ SaveItem(x, item, value) \in Machine
           /\ x.saves = <<>> => SaveItem(x, item, value) = [x EXCEPT !.saves = <<Saving(item, value)>>]
<1> DEFINE save == Saving(item, value)
<1>1. SaveItem(x, item, value) = [x EXCEPT !.saves = Append(x.saves, save)]
  BY DEF SaveItem, Saving
<1>2. x.saves \in Seq(Save)
  BY DEF Machine
<1> HIDE DEF save
<1>3. Append(x.saves, save) \in Seq(Save)
  BY <1>2 DEF save
<1>4. [x EXCEPT !.saves = Append(x.saves, save)] \in Machine
  BY <1>3 DEF Machine
<1>5. x.saves = <<>> => Append(x.saves, save) = <<save>>
  BY Appended DEF save
<1> QED
  BY <1>1, <1>4, <1>5 DEF save

\* The call is connected: the state alone is written.
LEMMA CallConnectedStep ==
    ASSUME TimesInv, CallConnected
    PROVE  TimesInv'
<1>0. /\ m \in Machine /\ file \in File /\ m.saves = <<>> /\ Safe(file) /\ Agrees(file)
      /\ m.phase # "DOWN" /\ timeout \in {"none", "behind"}
  BY Handling DEF CallConnected
<1> DEFINE x == [m EXCEPT !.phase = "MSD", !.callTimer = Stopped,
                            !.attempts = IF m.stage = "CALL" THEN 1 ELSE @,
                            !.stage = IF @ = "CALL" THEN "MSD" ELSE @]
           save == Saving("state", "BUSY")
<1>1. x \in Machine /\ x.saves = <<>>
  BY <1>0, Literals DEF Machine
<1>2. save \in Save
  BY SavingTypes
<1>3. m' = [x EXCEPT !.saves = <<save>>] /\ m' \in Machine
  <2>1. m' = SaveItem(x, "state", "BUSY")
    BY DEF CallConnected, Becomes
  <2> HIDE DEF x, save
  <2>2. QED
    BY <1>1, <1>2, <2>1, SaveItemOf DEF save
<1>4. m'.saves = <<save>> 
  BY <1>0, <1>3 DEF Machine
<1>5. /\ m'.phase = "MSD" /\ m'.inWCB = m.inWCB /\ m'.remaining = m.remaining
      /\ m'.redialTimer = m.redialTimer /\ m'.triggered = m.triggered /\ m'.ringing = m.ringing
      /\ m'.callTimer = Stopped /\ m'.stage = (IF m.stage = "CALL" THEN "MSD" ELSE m.stage)
  BY <1>0, <1>3 DEF Machine
<1>6. /\ m.phase = "CALL" /\ m.redialTimer = Stopped
      /\ UNCHANGED <<config, clock, file, time, callback, ghosts, bounds, disturbed>>
      /\ timeout' \in {"none", "next"}
  BY <1>0 DEF CallConnected, Dialling, Becomes, Notified, SameECall, bounds
<1>7. /\ TypeOK /\ Phases /\ config \in Config
  BY ConfigFacts, TimesAssumption DEF TimesInv, TypeOK
<1>8. TypeOK'
  BY <1>3, <1>5, <1>6, <1>7 DEF TypeOK, ghosts, bounds
<1>9. Phases'
  BY <1>4, <1>5, <1>6, <1>7 DEF Phases, ghosts, Stopped
<1>10. Budget'
  BY <1>5, <1>6, <1>7 DEF TimesInv, Budget, Phases, LeftNow, Waiting, ghosts
<1>11. TimerRuns' /\ Exact' /\ Dials'
  BY <1>5, <1>6, <1>7 DEF TimerRuns, Exact, Dials, Phases, LeftNow, Waiting, ghosts
<1>12. Writes'
  <2>1. Saved1' = [file EXCEPT !.state = "BUSY"]
    BY <1>0, <1>4, <1>6, SavedItems DEF Saved1
  <2>2. QED
    BY <1>0, <1>4, <1>5, <1>6, <1>7, <2>1 DEF Writes, Safe, Agrees, Waiting, Phases, File, ghosts
<1> QED
  BY <1>8, <1>9, <1>10, <1>11, <1>12 DEF TimesInv

\* A new call forgets what has been waited, and its first attempt begins now.
LEMMA NewCallStep ==
    ASSUME TimesInv, MayHandle, m.phase \in {"OFF", "WCB"}, Becomes(EnterNewCall(m)),
           Notified(m, "TRIGGERED"), NewECall, disturbed' = {}, triggers' \in Nat
    PROVE  TimesInv'
<1>0. /\ m \in Machine /\ file \in File /\ m.saves = <<>> /\ Safe(file) /\ Agrees(file)
      /\ m.phase # "DOWN" /\ timeout \in {"none", "behind"}
  BY Handling
<1>1. /\ TypeOK /\ Phases /\ config.autoAnswer \in Nat /\ config.duration \in Nat
      /\ config.attempts \in Nat \ {0} /\ config.duration < U32 /\ U32 \in Nat \ {0}
      /\ RedialDelay \in Nat /\ MinCallTime \in Nat \ {0}
  BY ConfigFacts DEF TimesInv
<1>2. Interval \in Nat /\ Interval <= config.duration
  BY <1>1, IntervalFacts
<1> DEFINE rem == (Interval - RedialDelay) % U32
           timer == MaxOf(rem, MinCallTime)
           x == [m EXCEPT !.phase = "CALL", !.triggered = FALSE, !.ringing = FALSE,
                          !.inWCB = FALSE, !.attempts = 1, !.stage = "CALL",
                          !.firstDial = clock, !.callTimer = timer]
           save == Saving("state", "BUSY")
<1>3. rem \in Nat /\ (Interval >= RedialDelay => rem = Interval - RedialDelay)
  <2>1. Interval - RedialDelay \in Int
    BY <1>1, <1>2
  <2> HIDE DEF rem
  <2>2. rem \in 0..(U32 - 1)
    BY <1>1, <2>1, Remainders DEF rem
  <2>3. ASSUME Interval >= RedialDelay PROVE rem = Interval - RedialDelay
    <3>1. 0 <= Interval - RedialDelay /\ Interval - RedialDelay < U32
      BY <1>1, <1>2, <2>3
    <3>2. QED
      BY <1>1, <2>1, <3>1, Remainders DEF rem
  <2>4. QED
    BY <1>1, <2>2, <2>3
<1> HIDE DEF rem
<1>4. timer \in Nat
  BY <1>1, <1>3 DEF MaxOf
<1>5. clock \in Int
  BY <1>1 DEF TypeOK
<1> HIDE DEF timer
<1>6. x \in Machine /\ x.saves = <<>>
  <2>1. "CALL" \in Phase /\ timer \in Int
    BY <1>4, Literals
  <2>2. QED
    BY <1>0, <1>5, <2>1 DEF Machine
<1>7. save \in Save
  BY SavingTypes
<1>8. m' = [x EXCEPT !.saves = <<save>>] /\ m' \in Machine
  <2>1. m' = SaveItem(x, "state", "BUSY")
    BY DEF Becomes, EnterNewCall, timer, rem
  <2> HIDE DEF x, save
  <2>2. QED
    BY <1>6, <1>7, <2>1, SaveItemOf DEF save
<1>9. m'.saves = <<save>>
  BY <1>0, <1>8 DEF Machine
<1>10. /\ m'.phase = "CALL" /\ m'.inWCB = FALSE /\ m'.remaining = m.remaining
       /\ m'.redialTimer = m.redialTimer /\ m'.triggered = FALSE /\ m'.ringing = FALSE
       /\ m'.callTimer = timer /\ m'.stage = "CALL" /\ m'.attempts = 1 /\ m'.firstDial = clock
  BY <1>0, <1>8 DEF Machine
<1>11. /\ UNCHANGED <<config, clock, file, time, crashes, clockSets>>
       /\ timeout' \in {"none", "next"} /\ callback' = Stopped
       /\ sinceFirst' = 0 /\ waitedIdle' = 0 /\ waitedAll' = 0
  BY <1>0 DEF Becomes, Notified, NewECall
<1>12. TypeOK'
  BY <1>1, <1>8, <1>10, <1>11 DEF TypeOK, Stopped
<1>13. Phases'
  BY <1>1, <1>4, <1>9, <1>10, <1>11 DEF Phases, Stopped
<1>14. Budget' /\ TimerRuns' /\ Exact'
  BY <1>1, <1>10, <1>11 DEF Budget, TimerRuns, Exact, LeftNow, Waiting
<1>15. Writes'
  <2>1. Saved1' = [file EXCEPT !.state = "BUSY"]
    BY <1>0, <1>9, <1>11, SavedItems DEF Saved1
  <2>2. QED
    BY <1>0, <1>1, <1>5, <1>9, <1>10, <1>11, <2>1
       DEF Writes, Safe, Agrees, Waiting, File, LeftIn, MaxOf
<1>16. Dials'
  <2>1. Interval' = Interval /\ (Roomy' <=> Roomy)
    BY <1>11 DEF Interval, Roomy
  <2>2. Interval * 1 = Interval /\ Interval * (1 - 1) = 0
    BY <1>2
  <2>3. m.redialTimer = Stopped
    BY <1>1 DEF Phases
  <2>4. Roomy => timer = Interval - RedialDelay
    BY <1>1, <1>2, <1>3 DEF Roomy, timer, MaxOf
  <2>5. QED
    BY <1>1, <1>2, <1>4, <1>5, <1>10, <1>11, <2>1, <2>2, <2>3, <2>4 DEF Dials, MinOf
<1> QED
  BY <1>12, <1>13, <1>14, <1>15, <1>16 DEF TimesInv

\* The conversation begins after a call of the machine: the state alone is written.
LEMMA MsdDoneStep ==
    ASSUME TimesInv, MsdDone
    PROVE  TimesInv'
<1>0. /\ m \in Machine /\ file \in File /\ m.saves = <<>> /\ Safe(file) /\ Agrees(file)
      /\ m.phase # "DOWN" /\ timeout \in {"none", "behind"}
  BY Handling DEF MsdDone
<1> DEFINE x == [m EXCEPT !.phase = "VOICE", !.ringing = FALSE, !.triggered = FALSE,
                          !.attempts = IF m.stage = "VOICE" THEN @ ELSE 1, !.stage = "VOICE"]
           save == Saving("state", "BUSY")
<1>1. x \in Machine /\ x.saves = <<>>
  BY <1>0, Literals DEF Machine
<1>2. save \in Save
  BY SavingTypes
<1>3. m' = [x EXCEPT !.saves = <<save>>] /\ m' \in Machine
  <2>1. m' = SaveItem(x, "state", "BUSY")
    BY DEF MsdDone, Becomes, EnterVoice
  <2> HIDE DEF x, save
  <2>2. QED
    BY <1>1, <1>2, <2>1, SaveItemOf DEF save
<1>4. m'.saves = <<save>>
  BY <1>0, <1>3 DEF Machine
<1>5. /\ m'.phase = "VOICE" /\ m'.inWCB = m.inWCB /\ m'.remaining = m.remaining
      /\ m'.redialTimer = m.redialTimer /\ m'.triggered = FALSE /\ m'.ringing = FALSE
      /\ m'.callTimer = m.callTimer /\ m'.stage = "VOICE"
  BY <1>0, <1>3 DEF Machine
<1>6. /\ m.phase = "MSD" /\ m.redialTimer = Stopped /\ callback' = Stopped
      /\ UNCHANGED <<config, clock, file, time, ghosts, bounds, disturbed>>
      /\ timeout' \in {"none", "next"}
  BY <1>0 DEF MsdDone, Becomes, Notified, SameECall, bounds
<1>7. /\ TypeOK /\ Phases /\ config \in Config
  BY ConfigFacts, TimesAssumption DEF TimesInv, TypeOK
<1>8. TypeOK'
  BY <1>3, <1>5, <1>6, <1>7 DEF TypeOK, ghosts, bounds, Stopped
<1>9. Phases'
  BY <1>4, <1>5, <1>6, <1>7 DEF Phases, ghosts, Stopped
<1>10. Budget' /\ TimerRuns' /\ Exact' /\ Dials'
  BY <1>5, <1>6, <1>7
     DEF TimesInv, Budget, TimerRuns, Exact, Dials, Phases, LeftNow, Waiting, ghosts
<1>11. Writes'
  <2>1. Saved1' = [file EXCEPT !.state = "BUSY"]
    BY <1>0, <1>4, <1>6, SavedItems DEF Saved1
  <2>2. QED
    BY <1>0, <1>4, <1>5, <1>6, <1>7, <2>1 DEF Writes, Safe, Agrees, Waiting, Phases, File, ghosts
<1> QED
  BY <1>8, <1>9, <1>10, <1>11 DEF TimesInv

\* The next attempt begins when the redial timer has run down.
LEMMA RedialTimeoutStep ==
    ASSUME TimesInv, RedialTimeout
    PROVE  TimesInv'
<1>0. /\ m \in Machine /\ file \in File /\ m.saves = <<>> /\ Safe(file) /\ Agrees(file)
      /\ m.phase # "DOWN" /\ timeout \in {"none", "behind"}
  BY Handling DEF RedialTimeout
<1>1. /\ TypeOK /\ Phases /\ config.autoAnswer \in Nat /\ config.duration \in Nat
      /\ config.attempts \in Nat \ {0}
      /\ RedialDelay \in Nat /\ MinCallTime \in Nat \ {0}
  BY ConfigFacts DEF TimesInv
<1>2. Interval \in Nat /\ Interval <= config.duration
  BY <1>1, IntervalFacts
<1>3. m.redialTimer = 0 /\ m.phase \in {"CALL", "MSD", "VOICE"} /\ m.attempts \in Nat
  BY <1>0, <1>1 DEF RedialTimeout, Phases, Stopped, Machine
<1> DEFINE timer == MaxOf(RedialCallTime(m), MinCallTime)
           x == [m EXCEPT !.phase = "CALL", !.inWCB = FALSE, !.attempts = m.attempts + 1,
                          !.redialTimer = Stopped, !.callTimer = timer]
           save == Saving("state", "BUSY")
<1>4. timer \in Int /\ timer >= 0
  BY <1>1, <1>2 DEF MaxOf, RedialCallTime
<1> HIDE DEF timer
<1>5. x \in Machine /\ x.saves = <<>>
  <2>1. "CALL" \in Phase /\ m.attempts + 1 \in Nat /\ Stopped \in Int
    BY <1>3, Literals
  <2>2. QED
    BY <1>0, <1>4, <2>1 DEF Machine
<1>6. save \in Save
  BY SavingTypes
<1>7. m' = [x EXCEPT !.saves = <<save>>] /\ m' \in Machine
  <2>1. m' = SaveItem(x, "state", "BUSY")
    BY DEF RedialTimeout, Becomes, EnterRedial, timer
  <2> HIDE DEF x, save
  <2>2. QED
    BY <1>5, <1>6, <2>1, SaveItemOf DEF save
<1>8. m'.saves = <<save>>
  BY <1>0, <1>7 DEF Machine
<1>9. /\ m'.phase = "CALL" /\ m'.inWCB = FALSE /\ m'.remaining = m.remaining
      /\ m'.redialTimer = Stopped /\ m'.triggered = m.triggered /\ m'.ringing = m.ringing
      /\ m'.callTimer = timer /\ m'.stage = m.stage /\ m'.attempts = m.attempts + 1
      /\ m'.firstDial = m.firstDial
  BY <1>0, <1>7 DEF Machine
<1>10. /\ UNCHANGED <<config, clock, file, time, callback, sinceFirst, disturbed, bounds>>
       /\ timeout' \in {"none", "next"} /\ waitedIdle' = 0 /\ waitedAll' = 0
  BY <1>0 DEF RedialTimeout, Becomes, Notified, bounds
<1>11. TypeOK'
  BY <1>1, <1>7, <1>9, <1>10 DEF TypeOK, bounds
<1>12. Phases'
  BY <1>1, <1>3, <1>4, <1>8, <1>9, <1>10 DEF Phases, Stopped
<1>13. Budget' /\ TimerRuns' /\ Exact'
  BY <1>1, <1>9, <1>10 DEF Budget, TimerRuns, Exact, LeftNow, Waiting
<1>14. Writes'
  <2>1. Saved1' = [file EXCEPT !.state = "BUSY"]
    BY <1>0, <1>8, <1>10, SavedItems DEF Saved1
  <2>2. clock \in Int
    BY <1>1 DEF TypeOK
  <2>3. QED
    BY <1>0, <1>1, <1>8, <1>9, <1>10, <2>1, <2>2
       DEF Writes, Safe, Agrees, Waiting, File, LeftIn, MaxOf
<1>15. Dials'
  <2>1. Interval' = Interval /\ (Roomy' <=> Roomy) /\ (ClockSet' <=> ClockSet)
    BY <1>10 DEF Interval, Roomy, ClockSet
  <2> SUFFICES ASSUME m.stage = "CALL"
               PROVE  Dials'
    BY <1>9 DEF Dials
  <2>2. m.phase = "CALL" /\ m.redialTimer # Stopped
    BY <1>1, <1>3 DEF Phases, Stopped
  <2>3. m.attempts \in 1..config.attempts /\ m.attempts < config.attempts
    BY <2>2 DEF TimesInv, Dials
  <2>4. ~ClockSet =>
           /\ clock - m.firstDial = sinceFirst
           /\ sinceFirst >= MinOf(Interval * m.attempts, config.duration)
           /\ Roomy => sinceFirst <= Interval * m.attempts
    <3>1. ~ClockSet =>
             /\ clock - m.firstDial = sinceFirst
             /\ sinceFirst + 0 >= MinOf(Interval * m.attempts, config.duration)
             /\ Roomy => sinceFirst + 0 <= Interval * m.attempts
      BY <1>3, <2>2 DEF TimesInv, Dials
    <3>2. sinceFirst \in Nat
      BY <1>1 DEF TypeOK
    <3>3. QED
      BY <3>1, <3>2
  <2>5. /\ Interval * m.attempts \in Nat /\ m.attempts + 1 - 1 = m.attempts
        /\ Interval * (m.attempts + 1) = Interval * m.attempts + Interval
    BY <1>2, <1>3
  <2>6. Roomy => /\ timer <= Interval
                 /\ m.attempts + 1 < config.attempts => timer + RedialDelay <= Interval
    BY <1>1, <1>2, <1>3 DEF Roomy, timer, MaxOf, RedialCallTime
  <2> DEFINE product == Interval * m.attempts
  <2>7. sinceFirst \in Nat
    BY <1>1 DEF TypeOK
  <2>8. ~ClockSet /\ Roomy =>
           /\ sinceFirst + timer <= Interval * (m.attempts + 1)
           /\ m.attempts + 1 < config.attempts
                => sinceFirst + timer + RedialDelay <= Interval * (m.attempts + 1)
    BY <1>1, <1>2, <1>4, <2>4, <2>5, <2>6, <2>7
  <2>9. m.attempts + 1 \in 1..config.attempts
    BY <1>1, <2>3
  <2>10. /\ Interval' * (m'.attempts - 1) = Interval * m.attempts
         /\ Interval' * m'.attempts = Interval * (m.attempts + 1)
    <3>1. m'.attempts = m.attempts + 1 /\ m'.attempts - 1 = m.attempts
      BY <1>3, <1>9
    <3>2. QED
      BY <2>1, <3>1
  <2>11. m'.attempts \in 1..config'.attempts /\ m'.redialTimer = Stopped
    BY <1>9, <1>10, <2>9
  <2>12. ~ClockSet => clock' - m'.firstDial = sinceFirst'
    BY <1>9, <1>10, <2>4
  <2>13. ~ClockSet => sinceFirst' >= MinOf(Interval' * (m'.attempts - 1), config'.duration)
    BY <1>10, <2>4, <2>10
  <2>14. ~ClockSet /\ Roomy =>
            /\ sinceFirst' + m'.callTimer <= Interval' * m'.attempts
            /\ m'.attempts < config'.attempts =>
                  sinceFirst' + m'.callTimer + RedialDelay <= Interval' * m'.attempts
    BY <1>9, <1>10, <2>8, <2>10
  <2>15. QED
    BY <2>1, <2>11, <2>12, <2>13, <2>14 DEF Dials
<1> QED
  BY <1>11, <1>12, <1>13, <1>14, <1>15 DEF TimesInv

\* A call is lost and attempts are left: the redial timer runs to the next one.
LEMMA RedialStep ==
    ASSUME TimesInv, CallLost, m.attempts < config.attempts
    PROVE  TimesInv'
<1>0. /\ m \in Machine /\ file \in File /\ m.saves = <<>> /\ Safe(file) /\ Agrees(file)
      /\ m.phase # "DOWN" /\ timeout \in {"none", "behind"}
  BY Handling DEF CallLost
<1>1. /\ TypeOK /\ Phases /\ config.autoAnswer \in Nat /\ config.duration \in Nat
      /\ config.attempts \in Nat \ {0} /\ U32 \in Nat \ {0} /\ config.duration < U32
      /\ RedialDelay \in Nat /\ MinCallTime \in Nat \ {0}
  BY ConfigFacts DEF TimesInv
<1>2. Interval \in Nat /\ Interval <= config.duration
  BY <1>1, IntervalFacts
<1>3. /\ m.redialTimer = Stopped /\ m.phase \in {"CALL", "MSD", "VOICE"}
      /\ m.attempts \in Nat /\ m.firstDial \in Int /\ m.callTimer \in Int
      /\ clock \in Int /\ sinceFirst \in Nat
  BY <1>0, <1>1 DEF CallLost, Machine, TypeOK
<1> DEFINE timer == RedialTime(m)
           diff == clock - m.firstDial
<1>4. diff \in Int /\ diff % U32 \in Nat /\ (diff >= 0 => diff % U32 <= diff)
      /\ (0 <= diff /\ diff < U32 => diff % U32 = diff)
  <2>1. diff \in Int
    BY <1>3
  <2> HIDE DEF diff
  <2>2. /\ diff % U32 \in 0..(U32 - 1)
        /\ diff >= 0 => diff % U32 <= diff
        /\ 0 <= diff /\ diff < U32 => diff % U32 = diff
    BY <1>1, <2>1, Remainders
  <2>3. QED
    BY <1>1, <2>1, <2>2
<1>5. Interval * m.attempts \in Nat
  BY <1>2, <1>3
<1> DEFINE product == Interval * m.attempts
           rem == diff % U32
<1>6. timer = (IF m.stage = "CALL" /\ diff < config.duration
               THEN MaxOf(MaxOf(product - rem, 0), RedialDelay) ELSE RedialDelay)
  BY DEF RedialTime, NextDial
<1> HIDE DEF timer, diff, product, rem
<1>7. product \in Nat /\ rem \in Nat /\ diff \in Int
  BY <1>4, <1>5 DEF product, rem
<1>8. timer \in Int /\ timer >= 0
  BY <1>1, <1>6, <1>7 DEF MaxOf
<1>9. m' = [m EXCEPT !.callTimer = Stopped, !.redialTimer = timer]
  BY DEF CallLost, RedialOrGiveUp, Becomes, timer
<1>10. m' \in Machine
  BY <1>0, <1>8, <1>9, Literals DEF Machine
<1>11. /\ m'.phase = m.phase /\ m'.inWCB = m.inWCB /\ m'.remaining = m.remaining
       /\ m'.redialTimer = timer /\ m'.triggered = m.triggered /\ m'.ringing = m.ringing
       /\ m'.callTimer = Stopped /\ m'.stage = m.stage /\ m'.attempts = m.attempts
       /\ m'.firstDial = m.firstDial /\ m'.saves = <<>>
  BY <1>0, <1>9 DEF Machine
<1>12. /\ UNCHANGED <<config, clock, file, time, callback, ghosts, disturbed, bounds>>
       /\ timeout' \in {"none", "next"}
  <2>1. /\ m' = RedialOrGiveUp(m)
        /\ Notified(m', IF m'.phase \in {"WCB", "OFF"} THEN m'.phase ELSE "same")
    BY DEF CallLost, Becomes
  <2>2. callback' = callback
    BY <1>3, <1>11, <2>1 DEF Notified
  <2>3. QED
    BY <1>0, <2>2 DEF CallLost, Becomes, SameECall, bounds
<1>13. TypeOK'
  BY <1>1, <1>10, <1>11, <1>12 DEF TypeOK, ghosts, bounds
<1>14. Phases'
  BY <1>1, <1>3, <1>8, <1>11, <1>12 DEF Phases, Stopped, ghosts
<1>15. Budget' /\ TimerRuns' /\ Exact'
  BY <1>1, <1>3, <1>11, <1>12
     DEF TimesInv, Budget, TimerRuns, Exact, LeftNow, Waiting, ghosts
<1>16. Writes'
  BY <1>0, <1>3, <1>11, <1>12 DEF Writes, Safe, Agrees, Waiting, LeftIn, ghosts
<1>17. Dials'
  <2>1. Interval' = Interval /\ (Roomy' <=> Roomy) /\ (ClockSet' <=> ClockSet)
    BY <1>12 DEF Interval, Roomy, ClockSet
  <2> SUFFICES ASSUME m.phase = "CALL", m.stage = "CALL"
               PROVE  Dials'
    BY <1>11 DEF Dials
  <2>2. m.callTimer >= 0
    BY <1>1, <1>3 DEF Phases
  <2>3. m.attempts \in 1..config.attempts
    BY DEF TimesInv, Dials
  <2>4. ~ClockSet =>
           /\ diff = sinceFirst
           /\ sinceFirst >= MinOf(Interval * (m.attempts - 1), config.duration)
           /\ Roomy => sinceFirst + m.callTimer + RedialDelay <= product
    BY <1>3 DEF TimesInv, Dials, diff, product
  <2>5. ~ClockSet => sinceFirst + timer >= MinOf(product, config.duration)
    <3>1. CASE diff < config.duration
      BY <1>1, <1>3, <1>4, <1>6, <1>7, <2>4, <3>1 DEF MinOf, MaxOf, rem
    <3>2. CASE ~(diff < config.duration)
      BY <1>1, <1>3, <1>6, <1>7, <1>8, <2>4, <3>2 DEF MinOf
    <3>3. QED
      BY <3>1, <3>2
  <2>6. ~ClockSet /\ Roomy => sinceFirst + timer <= product
    BY <1>1, <1>3, <1>4, <1>6, <1>7, <2>2, <2>4 DEF MaxOf, rem
  <2>7. QED
    BY <1>3, <1>8, <1>11, <1>12, <2>1, <2>3, <2>4, <2>5, <2>6
       DEF Dials, ghosts, diff, product, Stopped
<1> QED
  BY <1>13, <1>14, <1>15, <1>16, <1>17 DEF TimesInv

\* What the entry of the waiting writes: the time, what is left if that is new,
\* and the state.
EntrySaves(x, remaining, state) ==
    LET entered == Append(x.saves, Saving("enter", clock))
    IN  Append(IF x.inWCB THEN entered ELSE Append(entered, Saving("remaining", remaining)),
               Saving("state", state))

\* The machine waits for callbacks, or the time for them is over.
LEMMA EnterWCBFields ==
    ASSUME TypeOK, NEW x \in Machine, NEW r \in Nat, r = RemainingOnEntry(x),
           NEW w, w = EnterWCB(x)
    PROVE  /\ w \in Machine
           /\ w.callTimer = Stopped /\ w.redialTimer = Stopped
           /\ w.enter = clock /\ w.remaining = r
           /\ r = 0 => w.phase = "OFF" /\ ~w.inWCB /\ w.saves = EntrySaves(x, r, "OFF")
           /\ r # 0 => w.phase = "WCB" /\ w.inWCB /\ w.saves = EntrySaves(x, r, "WCB")
           /\ ~w.triggered /\ ~w.ringing
<1> DEFINE s1 == Append(x.saves, Saving("enter", clock))
           s2 == IF x.inWCB THEN s1 ELSE Append(s1, Saving("remaining", r))
           y == [SetEnterWCBTime(StopTimers(x)) EXCEPT !.remaining = RemainingOnEntry(x)]
           z == IF x.inWCB THEN y ELSE SaveItem(y, "remaining", y.remaining)
           last == Saving("state", IF r = 0 THEN "OFF" ELSE "WCB")
           s3 == Append(s2, last)
<1>1. clock \in Int
  BY DEF TypeOK
<1>2. y = [x EXCEPT !.callTimer = Stopped, !.redialTimer = Stopped, !.enter = clock,
                    !.saves = s1, !.remaining = r]
  BY <1>1 DEF SetEnterWCBTime, StopTimers, SaveItem, Saving, Machine
<1>3. z = [x EXCEPT !.callTimer = Stopped, !.redialTimer = Stopped, !.enter = clock,
                    !.saves = s2, !.remaining = r]
  <2> HIDE DEF s1, y
  <2>1. y.remaining = r /\ y.saves = s1
    BY <1>2 DEF Machine
  <2>2. QED
    BY <1>2, <2>1 DEF SaveItem, Saving, Machine
<1>4. w = IF z.remaining = 0 THEN EnterOff(z)
          ELSE SaveItem([z EXCEPT !.phase = "WCB", !.triggered = FALSE,
                                  !.ringing = FALSE, !.inWCB = TRUE], "state", "WCB")
  BY DEF EnterWCB
<1>5. s3 \in Seq(Save)
  <2>1. /\ x.saves \in Seq(Save) /\ Saving("enter", clock) \in Save
        /\ Saving("remaining", r) \in Save /\ last \in Save
    BY <1>1, SavingTypes DEF Machine
  <2> HIDE DEF last
  <2>2. QED
    BY <2>1
<1> HIDE DEF y, z, s1, s2
<1>6. z.remaining = r /\ z.saves = s2
  BY <1>3 DEF Machine
<1>7. CASE r = 0
  <2>1. w = [x EXCEPT !.callTimer = Stopped, !.redialTimer = Stopped, !.enter = clock,
                !.remaining = r, !.phase = "OFF", !.triggered = FALSE, !.ringing = FALSE,
                !.inWCB = FALSE, !.saves = s3]
    <3>1. w = [z EXCEPT !.phase = "OFF", !.triggered = FALSE, !.ringing = FALSE,
                        !.inWCB = FALSE, !.callTimer = Stopped, !.saves = s3]
      <4>1. PICK q : q = [z EXCEPT !.phase = "OFF", !.triggered = FALSE, !.ringing = FALSE,
                                   !.inWCB = FALSE, !.callTimer = Stopped]
        OBVIOUS
      <4>2. w = [q EXCEPT !.saves = Append(q.saves, last)]
        BY <1>4, <1>6, <1>7, <4>1 DEF EnterOff, SaveItem, Saving
      <4>3. q.saves = s2
        BY <1>3, <4>1 DEF Machine
      <4>4. QED
        BY <1>3, <4>1, <4>2, <4>3 DEF Machine
    <3>2. QED
      BY <1>3, <3>1 DEF Machine
  <2> HIDE DEF s3
  <2>2. "OFF" \in Phase /\ Stopped \in Int
    BY Literals
  <2>3. w \in Machine
    <3>1. PICK q : q = [x EXCEPT !.callTimer = Stopped, !.redialTimer = Stopped,
                                 !.enter = clock, !.remaining = r]
      OBVIOUS
    <3>2. q \in Machine
      BY <1>1, <2>2, <3>1 DEF Machine
    <3>3. w = [q EXCEPT !.phase = "OFF", !.triggered = FALSE, !.ringing = FALSE,
                        !.inWCB = FALSE, !.saves = s3]
      BY <2>1, <3>1 DEF Machine
    <3>4. QED
      BY <1>5, <2>2, <3>2, <3>3 DEF Machine
  <2>4. /\ w.callTimer = Stopped /\ w.redialTimer = Stopped /\ w.enter = clock
        /\ w.remaining = r /\ w.phase = "OFF" /\ w.inWCB = FALSE
        /\ w.triggered = FALSE /\ w.ringing = FALSE /\ w.saves = s3
    BY <2>1 DEF Machine
  <2>5. QED
    BY <1>7, <2>3, <2>4 DEF EntrySaves, s1, s2, s3
<1>8. CASE r # 0
  <2>1. w = [x EXCEPT !.callTimer = Stopped, !.redialTimer = Stopped, !.enter = clock,
                !.remaining = r, !.phase = "WCB", !.triggered = FALSE, !.ringing = FALSE,
                !.inWCB = TRUE, !.saves = s3]
    <3>1. w = [z EXCEPT !.phase = "WCB", !.triggered = FALSE, !.ringing = FALSE,
                        !.inWCB = TRUE, !.saves = s3]
      <4>1. PICK q : q = [z EXCEPT !.phase = "WCB", !.triggered = FALSE, !.ringing = FALSE,
                                   !.inWCB = TRUE]
        OBVIOUS
      <4>2. w = [q EXCEPT !.saves = Append(q.saves, last)]
        BY <1>4, <1>6, <1>8, <4>1 DEF SaveItem, Saving
      <4>3. q.saves = s2
        BY <1>3, <4>1 DEF Machine
      <4>4. QED
        BY <1>3, <4>1, <4>2, <4>3 DEF Machine
    <3>2. QED
      BY <1>3, <3>1 DEF Machine
  <2> HIDE DEF s3
  <2>2. "WCB" \in Phase /\ Stopped \in Int
    BY Literals
  <2>3. w \in Machine
    <3>1. PICK q : q = [x EXCEPT !.callTimer = Stopped, !.redialTimer = Stopped,
                                 !.enter = clock, !.remaining = r]
      OBVIOUS
    <3>2. q \in Machine
      BY <1>1, <2>2, <3>1 DEF Machine
    <3>3. w = [q EXCEPT !.phase = "WCB", !.triggered = FALSE, !.ringing = FALSE,
                        !.inWCB = TRUE, !.saves = s3]
      BY <2>1, <3>1 DEF Machine
    <3>4. QED
      BY <1>5, <2>2, <3>2, <3>3 DEF Machine
  <2>4. /\ w.callTimer = Stopped /\ w.redialTimer = Stopped /\ w.enter = clock
        /\ w.remaining = r /\ w.phase = "WCB" /\ w.inWCB = TRUE
        /\ w.triggered = FALSE /\ w.ringing = FALSE /\ w.saves = s3
    BY <2>1 DEF Machine
  <2>5. QED
    BY <1>8, <2>3, <2>4 DEF EntrySaves, s1, s2, s3
<1> QED
  BY <1>7, <1>8

\* The waiting begins when a call is over or the attempts are.
LEMMA WaitStep ==
    ASSUME TimesInv, MayHandle, m.phase \in {"CALL", "MSD", "VOICE"},
           Becomes(EnterWCB(m)), Notified(EnterWCB(m), EnterWCB(m).phase),
           SameECall, UNCHANGED disturbed
    PROVE  TimesInv'
<1>0. /\ m \in Machine /\ file \in File /\ m.saves = <<>> /\ Safe(file) /\ Agrees(file)
      /\ m.phase # "DOWN" /\ timeout \in {"none", "behind"}
  BY Handling
<1>1. /\ TypeOK /\ Phases /\ config.autoAnswer \in Nat
      /\ clock \in Int /\ waitedIdle \in Nat /\ waitedAll \in Nat
      /\ m.remaining \in Nat /\ m.remaining <= config.autoAnswer
  BY <1>0, ConfigFacts DEF TimesInv, TypeOK, Machine
<1>2. PICK r \in Nat : r = RemainingOnEntry(m)
  BY <1>1 DEF RemainingOnEntry
<1>3. r = (IF m.inWCB THEN m.remaining ELSE config.autoAnswer) /\ r <= config.autoAnswer
  BY <1>1, <1>2 DEF RemainingOnEntry
<1> DEFINE state == IF r = 0 THEN "OFF" ELSE "WCB"
<1>4. m' = EnterWCB(m)
  BY DEF Becomes
<1>5. /\ m' \in Machine
      /\ m'.callTimer = Stopped /\ m'.redialTimer = Stopped
      /\ m'.enter = clock /\ m'.remaining = r
      /\ r = 0 => m'.phase = "OFF" /\ ~m'.inWCB
      /\ r # 0 => m'.phase = "WCB" /\ m'.inWCB
      /\ ~m'.triggered /\ ~m'.ringing
      /\ m'.saves = EntrySaves(m, r, state)
  <2>1. PICK w : w = EnterWCB(m)
    OBVIOUS
  <2>2. /\ w \in Machine
        /\ w.callTimer = Stopped /\ w.redialTimer = Stopped
        /\ w.enter = clock /\ w.remaining = r
        /\ r = 0 => w.phase = "OFF" /\ ~w.inWCB /\ w.saves = EntrySaves(m, r, "OFF")
        /\ r # 0 => w.phase = "WCB" /\ w.inWCB /\ w.saves = EntrySaves(m, r, "WCB")
        /\ ~w.triggered /\ ~w.ringing
    BY <1>0, <1>1, <1>2, <2>1, EnterWCBFields
  <2>3. QED
    BY <1>4, <2>1, <2>2
<1>6. m'.saves = IF m.inWCB THEN <<Saving("enter", clock), Saving("state", state)>>
                 ELSE <<Saving("enter", clock), Saving("remaining", r), Saving("state", state)>>
  <2>1. /\ Saving("enter", clock) \in Save /\ Saving("remaining", r) \in Save
        /\ Saving("state", state) \in Save
    BY <1>1, SavingTypes
  <2>2. QED
    BY <1>0, <1>5, <2>1, Appended DEF EntrySaves
<1>7. /\ UNCHANGED <<config, clock, file, time, ghosts, disturbed, bounds>>
      /\ timeout' \in {"none", "next"}
      /\ r = 0 => callback' = Stopped
      /\ r # 0 => callback' = r
  <2>1. callback' = (IF m'.phase = "WCB" THEN m'.remaining ELSE Stopped)
    BY <1>4, <1>5 DEF Notified, NotifiedTime
  <2>2. QED
    BY <1>0, <1>5, <2>1 DEF Becomes, SameECall, bounds
<1>8. TypeOK'
  BY <1>1, <1>2, <1>3, <1>5, <1>7 DEF TypeOK, ghosts, bounds, Stopped
<1>9. Phases'
  BY <1>1, <1>2, <1>5, <1>7 DEF Phases, Stopped, ghosts
<1>10. (r # 0 => LeftNow' = r /\ Left' = r /\ Waiting') /\ (r = 0 => ~Waiting')
  BY <1>1, <1>2, <1>5, <1>7 DEF LeftNow, LeftIn, Left, Waiting, MaxOf
<1>11. Budget' /\ TimerRuns'
  <2>1. "back" \notin disturbed => waitedIdle + r <= config.autoAnswer
    BY <1>1, <1>3 DEF TimesInv, Budget, Phases, LeftNow, Waiting
  <2>2. QED
    BY <1>1, <1>2, <1>5, <1>7, <1>10, <2>1 DEF Budget, TimerRuns, ghosts, Stopped
<1>12. Exact'
  <2>1. disturbed = {} => r = MaxOf(config.autoAnswer - waitedAll, 0)
    BY <1>1, <1>3 DEF TimesInv, Exact, Phases, LeftNow, Waiting, MaxOf
  <2>2. QED
    BY <1>5, <1>7, <1>10, <2>1 DEF Exact, ghosts
<1>13. Dials'
  BY <1>5 DEF Dials
<1>14. Writes'
  <2>0. file.state # "WCB" /\ (m.inWCB => file.remaining = m.remaining)
        /\ file.remaining \in Nat /\ file.remaining <= config.autoAnswer
    BY <1>0, <1>1 DEF Agrees, Safe, Waiting, File
  <2>1. PICK f1 \in File : f1 = [file EXCEPT !.enter = clock]
    BY <1>0, <1>1 DEF File
  <2>2. f1.state = file.state /\ f1.remaining = file.remaining /\ f1.enter = clock
    BY <1>0, <2>1 DEF File
  <2>3. Saved1' = f1
    BY <1>0, <1>1, <1>6, <1>7, <2>1, SavedItems DEF Saved1
  <2>4. waitedIdle' = waitedIdle /\ clock' = clock /\ config' = config /\ file' = file
        /\ disturbed' = disturbed
    BY <1>7 DEF ghosts
  <2>5. Safe(file)' /\ Safe(Saved1)'
    BY <2>0, <2>2, <2>3, <2>4 DEF Safe
  <2>6. "back" \notin disturbed => waitedIdle + r <= config.autoAnswer
    BY <1>1, <1>3 DEF TimesInv, Budget, Phases, LeftNow, Waiting
  <2>7. CASE m.inWCB
    <3>1. PICK f2 \in File : f2 = [f1 EXCEPT !.state = state]
      BY <2>1 DEF File
    <3>2. f2.state = state /\ f2.remaining = r /\ f2.enter = clock
      BY <1>3, <2>0, <2>1, <2>2, <2>7, <3>1 DEF File
    <3>3. Saved2' = f2
      BY <1>6, <2>3, <2>7, <3>1, SavedItems DEF Saved2
    <3>4. Safe(f2)'
      BY <1>1, <1>2, <1>3, <2>4, <2>6, <3>2 DEF Safe, LeftIn, MaxOf
    <3>5. Agrees(f2)'
      BY <1>5, <1>7, <3>2 DEF Agrees, Waiting
    <3>6. Len(m'.saves) = 2
      BY <1>6, <2>7
    <3>7. QED
      BY <2>3, <2>5, <3>3, <3>4, <3>5, <3>6 DEF Writes
  <2>8. CASE ~m.inWCB
    <3>1. PICK f2 \in File : f2 = [f1 EXCEPT !.remaining = r]
      BY <2>1 DEF File
    <3>2. PICK f3 \in File : f3 = [f2 EXCEPT !.state = state]
      BY <3>1 DEF File
    <3>3. /\ f2.state = file.state /\ f2.remaining = r /\ f2.enter = clock
          /\ f3.state = state /\ f3.remaining = r /\ f3.enter = clock
      BY <2>1, <2>2, <3>1, <3>2 DEF File
    <3>4. Saved2' = f2
      BY <1>6, <2>3, <2>8, <3>1, SavedItems DEF Saved2
    <3>5. Saved3' = f3
      BY <1>6, <2>8, <3>2, <3>4, SavedItems DEF Saved3
    <3>6. Safe(f2)' /\ Safe(f3)'
      BY <1>1, <1>2, <1>3, <2>0, <2>4, <2>6, <3>3 DEF Safe, LeftIn, MaxOf
    <3>7. Agrees(f3)'
      BY <1>5, <1>7, <3>3 DEF Agrees, Waiting
    <3>8. Len(m'.saves) = 3
      BY <1>6, <2>8
    <3>9. QED
      BY <2>3, <2>5, <3>4, <3>5, <3>6, <3>7, <3>8 DEF Writes
  <2>9. QED
    BY <2>7, <2>8
<1> QED
  BY <1>8, <1>9, <1>11, <1>12, <1>13, <1>14 DEF TimesInv

\* A call is lost: it is dialled again, or the waiting begins.
LEMMA CallLostStep ==
    ASSUME TimesInv, CallLost
    PROVE  TimesInv'
<1>1. CASE m.attempts < config.attempts
  BY <1>1, RedialStep
<1>2. CASE ~(m.attempts < config.attempts)
  <2>1. RedialOrGiveUp(m) = EnterWCB(m) /\ TypeOK /\ m \in Machine
    BY <1>2 DEF RedialOrGiveUp, TimesInv, TypeOK
  <2>2. PICK r \in Nat : r = RemainingOnEntry(m)
    BY <2>1, ConfigFacts DEF RemainingOnEntry, Machine
  <2>3. EnterWCB(m).phase \in {"OFF", "WCB"}
    BY <2>1, <2>2, EnterWCBFields
  <2>4. QED
    BY <2>1, <2>3, WaitStep DEF CallLost
<1> QED
  BY <1>1, <1>2

\* The conversation is over: the waiting begins.
LEMMA CallEndsStep ==
    ASSUME TimesInv, CallEnds
    PROVE  TimesInv'
BY WaitStep DEF CallEnds

\* A call of the PSAP rings: nothing is written, and the timer runs on.
LEMMA PsapCallsStep ==
    ASSUME TimesInv, PsapCalls
    PROVE  TimesInv'
<1>0. /\ m \in Machine /\ file \in File /\ m.saves = <<>> /\ Safe(file) /\ Agrees(file)
      /\ m.phase # "DOWN" /\ timeout \in {"none", "behind"}
  BY Handling DEF PsapCalls
<1>1. TypeOK /\ Phases
  BY DEF TimesInv
<1>2. m' = [m EXCEPT !.ringing = TRUE] /\ m.phase = "WCB"
  BY DEF PsapCalls, Becomes
<1>3. m' \in Machine
  BY <1>0, <1>2 DEF Machine
<1>4. /\ m'.phase = m.phase /\ m'.inWCB = m.inWCB /\ m'.remaining = m.remaining
      /\ m'.redialTimer = m.redialTimer /\ m'.triggered = m.triggered /\ m'.ringing
      /\ m'.callTimer = m.callTimer /\ m'.stage = m.stage /\ m'.enter = m.enter
      /\ m'.saves = <<>>
  BY <1>0, <1>2 DEF Machine
<1>5. /\ UNCHANGED <<config, clock, file, time, callback, ghosts, bounds, disturbed>>
      /\ timeout' \in {"none", "next"}
  BY <1>0 DEF PsapCalls, Becomes, Notified, SameECall, bounds
<1>6. TypeOK'
  BY <1>1, <1>3, <1>4, <1>5 DEF TypeOK, ghosts, bounds
<1>7. Phases'
  BY <1>1, <1>2, <1>4, <1>5 DEF Phases, ghosts
<1>8. Budget' /\ TimerRuns' /\ Exact'
  BY <1>4, <1>5
     DEF TimesInv, Budget, TimerRuns, Exact, LeftNow, LeftIn, Left, Waiting, ClockSet, ghosts
<1>9. Dials'
  BY <1>2, <1>4 DEF Dials
<1>10. Writes'
  BY <1>0, <1>4, <1>5 DEF Writes, Safe, Agrees, Waiting, LeftIn, ghosts
<1> QED
  BY <1>6, <1>7, <1>8, <1>9, <1>10 DEF TimesInv

\* What an exit from the waiting leaves of the time.
LEMMA ExitOf ==
    ASSUME TypeOK, NEW x \in Machine, x.remaining <= config.autoAnswer
    PROVE  /\ LeftIn(x) \in Nat /\ LeftIn(x) <= x.remaining
           /\ SetExitWCBTime(x) = [x EXCEPT !.remaining = LeftIn(x),
                                    !.saves = Append(x.saves, Saving("remaining", LeftIn(x)))]
<1>1. clock \in Int /\ x.remaining \in Nat /\ x.enter \in Int /\ config.autoAnswer \in Nat
  BY ConfigFacts DEF TypeOK, Machine
<1>2. LeftIn(x) \in Nat /\ LeftIn(x) <= x.remaining
  BY <1>1 DEF LeftIn, MaxOf
<1>3. Saturated(x.remaining - ElapsedTimeInWCB(x)) = LeftIn(x)
  BY <1>1 DEF LeftIn, MaxOf, MinOf, Saturated, ElapsedTimeInWCB
<1>4. SetExitWCBTime(x) = SaveItem([x EXCEPT !.remaining = LeftIn(x)], "remaining", LeftIn(x))
  BY <1>3 DEF SetExitWCBTime
<1> DEFINE left == LeftIn(x)
<1> HIDE DEF left
<1>5. [x EXCEPT !.remaining = left].saves = x.saves
  BY DEF Machine
<1>6. SaveItem([x EXCEPT !.remaining = left], "remaining", left)
         = [x EXCEPT !.remaining = left, !.saves = Append(x.saves, Saving("remaining", left))]
  BY <1>5 DEF SaveItem, Saving, Machine
<1> QED
  BY <1>2, <1>4, <1>6 DEF left

\* What is left when a call, or a trigger, comes while the machine waits.
LEMMA LeftOf ==
    ASSUME TimesInv, m.phase = "WCB"
    PROVE  /\ m.inWCB
           /\ "back" \notin disturbed => waitedIdle + LeftIn(m) <= config.autoAnswer
           /\ disturbed = {} /\ ~m.triggered => LeftIn(m) = MaxOf(config.autoAnswer - waitedAll, 0)
<1>1. /\ m \in Machine /\ m.remaining <= config.autoAnswer /\ TypeOK
      /\ waitedIdle \in Nat /\ config.autoAnswer \in Nat
  BY ConfigFacts DEF TimesInv, TypeOK
<1>2. m.inWCB
  BY DEF TimesInv, Phases
<1>3. LeftIn(m) \in Nat /\ LeftIn(m) <= m.remaining /\ m.remaining \in Nat
  BY <1>1, ExitOf DEF Machine
<1> QED
  BY <1>1, <1>2, <1>3 DEF TimesInv, Budget, Exact, LeftNow, Waiting

\* The PSAP's call is answered, or a trigger is to be confirmed: what is left of
\* the time is written, and then the state.
LEMMA LeaveStep ==
    ASSUME TimesInv, MayHandle, m.phase = "WCB", NEW x \in Machine,
           x = m',
           x.remaining = LeftIn(m), x.inWCB, x.enter = m.enter,
           x.saves = <<Saving("remaining", LeftIn(m)), Saving("state", "BUSY")>>,
           \/ x.phase = "VOICE" /\ ~x.triggered /\ ~x.ringing /\ x.stage = "VOICE"
           \/ x.phase = "WCB" /\ x.triggered,
           x.callTimer = m.callTimer, x.redialTimer = m.redialTimer,
           UNCHANGED <<config, clock, file, time, ghosts, crashes, clockSets>>,
           callback' = Stopped, timeout' \in {"none", "next"}, triggers' \in Nat,
           disturbed' = disturbed \cup (IF m.triggered THEN {"trigger"} ELSE {})
    PROVE  TimesInv'
<1>0. /\ m \in Machine /\ file \in File /\ m.saves = <<>> /\ Safe(file) /\ Agrees(file)
      /\ m.phase # "DOWN" /\ timeout \in {"none", "behind"}
  BY Handling
<1>1. /\ TypeOK /\ Phases /\ m.inWCB /\ m.remaining <= config.autoAnswer
      /\ config.autoAnswer \in Nat /\ clock \in Int /\ waitedIdle \in Nat
  BY LeftOf, ConfigFacts DEF TimesInv, TypeOK
<1>2. PICK left \in Nat : left = LeftIn(m) /\ left <= m.remaining
  BY <1>0, <1>1, ExitOf
<1>3. /\ "back" \notin disturbed => waitedIdle + left <= config.autoAnswer
      /\ disturbed = {} /\ ~m.triggered => left = MaxOf(config.autoAnswer - waitedAll, 0)
  BY <1>2, LeftOf
<1>4. m.remaining \in Nat /\ left <= config.autoAnswer
  BY <1>0, <1>1, <1>2 DEF Machine
<1>5. TypeOK'
  BY <1>1, <1>2, <1>4 DEF TypeOK, ghosts, Stopped
<1>6. Phases'
  BY <1>1 DEF Phases, ghosts, Stopped
<1>7. Budget' /\ TimerRuns' /\ Exact'
  BY <1>1, <1>2, <1>3 DEF TimesInv, Budget, TimerRuns, Exact, LeftNow, Waiting, ghosts
<1>8. Dials'
  BY DEF Dials
<1>9. Writes'
  <2>1. /\ file.state = "WCB" => file.enter = m.enter /\ file.remaining = m.remaining
        /\ file.remaining \in Nat /\ file.remaining <= config.autoAnswer
    BY <1>0, <1>1 DEF Agrees, Safe, Waiting, File
  <2>2. PICK f1 \in File : f1 = [file EXCEPT !.remaining = left]
    BY <1>0, <1>2 DEF File
  <2>3. PICK f2 \in File : f2 = [f1 EXCEPT !.state = "BUSY"]
    BY <2>2 DEF File
  <2>4. /\ f1.state = file.state /\ f1.enter = file.enter /\ f1.remaining = left
        /\ f2.state = "BUSY" /\ f2.remaining = left
    BY <1>0, <2>2, <2>3 DEF File
  <2>5. Saved1' = f1
    BY <1>0, <1>2, <2>2, SavedItems DEF Saved1
  <2>6. Saved2' = f2
    BY <2>3, <2>5, SavedItems DEF Saved2
  <2>7. LeftIn(f1) <= left /\ LeftIn(f1) \in Nat
    BY <1>1, <2>2, <2>4 DEF LeftIn, MaxOf, File
  <2>8. /\ waitedIdle' = waitedIdle /\ clock' = clock /\ config' = config /\ file' = file
        /\ "back" \in disturbed' <=> "back" \in disturbed
    BY DEF ghosts
  <2>9. Safe(file)'
    BY <1>0, <2>8 DEF Safe, LeftIn
  <2>10. Safe(f1)' /\ Safe(f2)'
    BY <1>1, <1>3, <1>4, <2>4, <2>7, <2>8 DEF Safe, LeftIn
  <2>11. Agrees(f2)'
    BY <1>2, <2>4 DEF Agrees, Waiting
  <2>12. QED
    BY <2>5, <2>6, <2>9, <2>10, <2>11 DEF Writes
<1> QED
  BY <1>5, <1>6, <1>7, <1>8, <1>9 DEF TimesInv

\* The PSAP's call is answered while the machine waits.
LEMMA CallbackActiveStep ==
    ASSUME TimesInv, CallbackActive
    PROVE  TimesInv'
<1>0. /\ m \in Machine /\ m.saves = <<>> /\ timeout \in {"none", "behind"} /\ MayHandle
  BY Handling DEF CallbackActive
<1>1. TypeOK /\ m.inWCB /\ m.remaining <= config.autoAnswer /\ m.phase = "WCB"
  BY LeftOf DEF TimesInv, TypeOK, CallbackActive
<1>2. PICK left \in Nat : left = LeftIn(m)
  BY <1>0, <1>1, ExitOf
<1> DEFINE s1 == Saving("remaining", left)
           s2 == Saving("state", "BUSY")
<1>3. s1 \in Save /\ s2 \in Save
  BY SavingTypes
<1> HIDE DEF s1, s2
<1>4. PICK y : y = [m EXCEPT !.remaining = left, !.saves = <<s1>>]
  OBVIOUS
<1>5. SetExitWCBTime(m) = y
  BY <1>0, <1>1, <1>2, <1>3, <1>4, ExitOf, Appended DEF s1
<1>6. y \in Machine /\ y.saves = <<s1>> /\ y.stage = m.stage /\ y.attempts = m.attempts
  <2>1. <<s1>> \in Seq(Save)
    BY <1>3, Literals
  <2>2. QED
    BY <1>0, <1>4, <2>1 DEF Machine
<1> DEFINE n == IF m.stage = "VOICE" THEN m.attempts ELSE 1
           z == [y EXCEPT !.phase = "VOICE", !.ringing = FALSE, !.triggered = FALSE,
                          !.attempts = IF m.stage = "VOICE" THEN @ ELSE 1, !.stage = "VOICE"]
<1>7. EnterVoice(m) = SaveItem(z, "state", "BUSY")
  BY <1>1, <1>5 DEF EnterVoice, ExitOnCallback
<1>8. z \in Machine /\ z.saves = <<s1>>
  BY <1>6, Literals DEF Machine
<1>9. EnterVoice(m) = [z EXCEPT !.saves = <<s1, s2>>]
  <2> HIDE DEF z
  <2>1. EnterVoice(m) = [z EXCEPT !.saves = Append(z.saves, s2)]
    BY <1>7 DEF SaveItem, Saving, s2
  <2>2. QED
    BY <1>3, <1>8, <2>1, Appended
<1>10. EnterVoice(m) = [m EXCEPT !.remaining = left, !.phase = "VOICE", !.ringing = FALSE,
                           !.triggered = FALSE, !.attempts = n, !.stage = "VOICE",
                           !.saves = <<s1, s2>>]
  BY <1>0, <1>4, <1>9 DEF Machine
<1>11. PICK x : x = EnterVoice(m)
  OBVIOUS
<1>12. x \in Machine
  <2>1. n \in Nat /\ "VOICE" \in Phase /\ <<s1, s2>> \in Seq(Save)
    BY <1>0, <1>3, Literals DEF Machine
  <2> HIDE DEF n
  <2>2. QED
    BY <1>0, <1>10, <1>11, <2>1 DEF Machine
<1>13. /\ x.remaining = left /\ x.inWCB /\ x.enter = m.enter /\ x.saves = <<s1, s2>>
       /\ x.phase = "VOICE" /\ ~x.triggered /\ ~x.ringing /\ x.stage = "VOICE"
       /\ x.callTimer = m.callTimer /\ x.redialTimer = m.redialTimer
  BY <1>0, <1>1, <1>10, <1>11 DEF Machine
<1>14. /\ x = m' /\ callback' = Stopped /\ timeout' \in {"none", "next"}
       /\ UNCHANGED <<config, clock, file, time, ghosts, crashes, clockSets, triggers>>
       /\ disturbed' = disturbed \cup (IF m.triggered THEN {"trigger"} ELSE {})
  BY <1>0, <1>11 DEF CallbackActive, Becomes, Notified, SameECall
<1>15. triggers' \in Nat
  BY <1>1, <1>14 DEF TypeOK
<1> QED
  BY <1>0, <1>1, <1>2, <1>12, <1>13, <1>14, <1>15, LeaveStep DEF s1, s2

\* A trigger, and the call; the previous one is forgotten.
LEMMA StartCallStep ==
    ASSUME TimesInv, StartCall
    PROVE  TimesInv'
<1>1. triggers' \in Nat
  BY DEF StartCall, Trigger, TimesInv, TypeOK
<1> QED
  BY <1>1, NewCallStep DEF StartCall

\* The same while the machine waits for callbacks.
LEMMA NewCallInWCBStep ==
    ASSUME TimesInv, NewCallInWCB
    PROVE  TimesInv'
<1>1. triggers' \in Nat
  BY DEF NewCallInWCB, Trigger, TimesInv, TypeOK
<1> QED
  BY <1>1, NewCallStep DEF NewCallInWCB

\* A manual trigger while the machine waits takes what is left of the time with it.
LEMMA ManualTriggerInWCBStep ==
    ASSUME TimesInv, ManualTriggerInWCB
    PROVE  TimesInv'
<1>0. /\ m \in Machine /\ m.saves = <<>> /\ timeout \in {"none", "behind"} /\ MayHandle
  BY Handling DEF ManualTriggerInWCB
<1>1. TypeOK /\ m.inWCB /\ m.remaining <= config.autoAnswer /\ m.phase = "WCB"
  BY LeftOf DEF TimesInv, TypeOK, ManualTriggerInWCB
<1>2. PICK left \in Nat : left = LeftIn(m)
  BY <1>0, <1>1, ExitOf
<1> DEFINE s1 == Saving("remaining", left)
           s2 == Saving("state", "BUSY")
<1>3. s1 \in Save /\ s2 \in Save
  BY SavingTypes
<1> HIDE DEF s1, s2
<1>4. PICK y : y = [m EXCEPT !.remaining = left, !.saves = <<s1>>]
  OBVIOUS
<1>5. SetExitWCBTime(m) = y
  BY <1>0, <1>1, <1>2, <1>3, <1>4, ExitOf, Appended DEF s1
<1>6. <<s1>> \in Seq(Save) /\ <<s1, s2>> \in Seq(Save)
  BY <1>3, Literals
<1>7. PICK z : z = [y EXCEPT !.triggered = TRUE]
  OBVIOUS
<1>8. z \in Machine /\ z.saves = <<s1>>
  BY <1>0, <1>4, <1>6, <1>7 DEF Machine
<1>9. PICK x : x = SaveItem(z, "state", "BUSY")
  OBVIOUS
<1>10. x = [z EXCEPT !.saves = <<s1, s2>>]
  <2>1. x = [z EXCEPT !.saves = Append(z.saves, s2)]
    BY <1>9 DEF SaveItem, Saving, s2
  <2>2. QED
    BY <1>3, <1>8, <2>1, Appended
<1>11. x \in Machine
  BY <1>6, <1>8, <1>10 DEF Machine
<1>12. /\ x.remaining = left /\ x.inWCB /\ x.enter = m.enter /\ x.saves = <<s1, s2>>
       /\ x.phase = "WCB" /\ x.triggered
       /\ x.callTimer = m.callTimer /\ x.redialTimer = m.redialTimer
  BY <1>0, <1>1, <1>4, <1>7, <1>10 DEF Machine
<1>13. x = m'
  BY <1>5, <1>7, <1>9 DEF ManualTriggerInWCB, Becomes
<1>14. /\ callback' = Stopped /\ timeout' \in {"none", "next"}
       /\ UNCHANGED <<config, clock, file, time, ghosts, crashes, clockSets>>
       /\ disturbed' = disturbed \cup (IF m.triggered THEN {"trigger"} ELSE {})
  BY <1>0 DEF ManualTriggerInWCB, Becomes, Notified
<1>15. triggers' \in Nat
  BY <1>1 DEF TypeOK, ManualTriggerInWCB, Trigger
<1> QED
  BY <1>0, <1>1, <1>2, <1>11, <1>12, <1>13, <1>14, <1>15, LeaveStep DEF s1, s2

\* The PSAP's call is over: the waiting goes on with what is left, or ends.
LEMMA CallbackEndStep ==
    ASSUME TimesInv, CallbackEnd
    PROVE  TimesInv'
<1>0. /\ m \in Machine /\ file \in File /\ m.saves = <<>> /\ Safe(file) /\ Agrees(file)
      /\ m.phase # "DOWN" /\ timeout \in {"none", "behind"}
  BY Handling DEF CallbackEnd
<1>1. /\ TypeOK /\ Phases /\ m.inWCB /\ m.remaining <= config.autoAnswer /\ m.phase = "WCB"
      /\ config.autoAnswer \in Nat /\ clock \in Int /\ waitedIdle \in Nat /\ callback \in Int
      /\ m.remaining \in Nat /\ m.enter \in Int
  BY <1>0, LeftOf, ConfigFacts DEF TimesInv, TypeOK, CallbackEnd, Machine
<1>2. PICK left \in Nat : left = LeftIn(m) /\ left <= m.remaining
  BY <1>0, <1>1, ExitOf
<1>3. /\ "back" \notin disturbed => waitedIdle + left <= config.autoAnswer
      /\ disturbed = {} /\ ~m.triggered => left = MaxOf(config.autoAnswer - waitedAll, 0)
      /\ left <= config.autoAnswer
  BY <1>1, <1>2, LeftOf
<1> DEFINE s1 == Saving("remaining", left)
           s2 == Saving("enter", clock)
           s3 == Saving("state", "OFF")
<1>4. s1 \in Save /\ s2 \in Save /\ s3 \in Save
  BY <1>1, SavingTypes
<1> HIDE DEF s1, s2, s3
<1>5. <<s1>> \in Seq(Save) /\ <<s1, s2>> \in Seq(Save) /\ <<s1, s2, s3>> \in Seq(Save)
  BY <1>4, Literals
<1>6. PICK x : x = [m EXCEPT !.remaining = left, !.enter = clock, !.ringing = FALSE,
                             !.saves = <<s1, s2>>]
  OBVIOUS
<1>7. /\ x \in Machine /\ x.saves = <<s1, s2>> /\ x.remaining = left /\ x.enter = clock
      /\ ~x.ringing /\ x.phase = "WCB" /\ x.inWCB /\ x.triggered = m.triggered
      /\ x.callTimer = m.callTimer /\ x.redialTimer = m.redialTimer /\ x.stage = m.stage
  BY <1>0, <1>1, <1>5, <1>6 DEF Machine
<1>8. [SetEnterWCBTime(SetExitWCBTime(m)) EXCEPT !.ringing = FALSE] = x
  <2>1. PICK v : v = [m EXCEPT !.remaining = left, !.saves = <<s1>>]
    OBVIOUS
  <2>2. SetExitWCBTime(m) = v
    BY <1>0, <1>1, <1>2, <1>4, <2>1, ExitOf, Appended DEF s1
  <2>3. v.saves = <<s1>>
    BY <1>0, <2>1 DEF Machine
  <2>4. SetEnterWCBTime(v) = [v EXCEPT !.enter = clock, !.saves = Append(v.saves, s2)]
    BY <1>0, <2>1 DEF SetEnterWCBTime, SaveItem, Saving, s2, Machine
  <2>5. Append(v.saves, s2) = <<s1, s2>>
    BY <1>4, <2>3, Appended
  <2>6. SetEnterWCBTime(v) = [v EXCEPT !.enter = clock, !.saves = <<s1, s2>>]
    BY <2>4, <2>5
  <2>7. QED
    BY <1>0, <1>6, <2>1, <2>2, <2>6 DEF Machine
<1>9. m' = IF left = 0 THEN EnterOff(x) ELSE x
  BY <1>7, <1>8 DEF CallbackEnd, Becomes
<1>10. /\ UNCHANGED <<config, clock, file, time, ghosts, bounds>>
       /\ timeout' \in {"none", "next"}
       /\ disturbed' = disturbed \cup (IF m.triggered THEN {"trigger"} ELSE {})
       /\ callback' = IF m'.phase = "OFF" THEN Stopped ELSE callback
  BY <1>0, <1>8, <1>9 DEF CallbackEnd, Becomes, Notified, SameECall, bounds
<1>11. /\ waitedIdle' = waitedIdle /\ clock' = clock /\ config' = config /\ file' = file
       /\ "back" \in disturbed' <=> "back" \in disturbed
       /\ "forward" \in disturbed' <=> "forward" \in disturbed
  BY <1>10 DEF ghosts
<1>12. PICK f1 \in File : f1 = [file EXCEPT !.remaining = left]
  BY <1>0, <1>2 DEF File
<1>13. PICK f2 \in File : f2 = [f1 EXCEPT !.enter = clock]
  BY <1>1, <1>12 DEF File
<1>14. /\ f1.state = file.state /\ f1.enter = file.enter /\ f1.remaining = left
       /\ f2.state = file.state /\ f2.remaining = left /\ f2.enter = clock
       /\ file.state = "WCB" <=> Waiting
  BY <1>0, <1>12, <1>13 DEF File, Agrees
<1>15. Safe(file)' /\ Safe(f1)' /\ Safe(f2)'
  <2>1. LeftIn(f1) <= left /\ LeftIn(f1) \in Nat /\ LeftIn(f2) = left
    BY <1>1, <1>14, <1>12, <1>13 DEF LeftIn, MaxOf, File
  <2>2. Safe(file)'
    BY <1>0, <1>11 DEF Safe, LeftIn
  <2>3. QED
    BY <1>1, <1>3, <1>11, <1>14, <2>1, <2>2 DEF Safe, LeftIn
<1>16. CASE left = 0
  <2>1. /\ m' = [x EXCEPT !.phase = "OFF", !.triggered = FALSE, !.ringing = FALSE,
                          !.inWCB = FALSE, !.callTimer = Stopped, !.saves = <<s1, s2, s3>>]
    <3>1. m' = [x EXCEPT !.phase = "OFF", !.triggered = FALSE, !.ringing = FALSE,
                !.inWCB = FALSE, !.callTimer = Stopped, !.saves = Append(x.saves, s3)]
      BY <1>7, <1>9, <1>16 DEF EnterOff, SaveItem, Saving, s3, Machine
    <3>2. Append(x.saves, s3) = <<s1, s2, s3>>
      <4>1. Append(<<s1, s2>>, s3) = <<s1, s2, s3>>
        BY <1>4, Appended
      <4>2. QED
        BY <1>7, <4>1
    <3>3. QED
      BY <3>1, <3>2
  <2>2. m' \in Machine
    BY <1>5, <1>7, <2>1, Literals DEF Machine
  <2>3. /\ m'.phase = "OFF" /\ ~m'.triggered /\ ~m'.ringing /\ ~m'.inWCB
        /\ m'.callTimer = Stopped /\ m'.redialTimer = m.redialTimer /\ m'.remaining = left
        /\ m'.saves = <<s1, s2, s3>> /\ callback' = Stopped
    BY <1>7, <1>10, <2>1 DEF Machine
  <2>4. TypeOK'
    BY <1>1, <1>3, <1>10, <2>2, <2>3 DEF TypeOK, ghosts, bounds, Stopped
  <2>5. Phases'
    BY <1>1, <1>10, <2>3 DEF Phases, ghosts, Stopped
  <2>6. Budget' /\ TimerRuns' /\ Exact' /\ Dials'
    BY <1>11, <2>3 DEF TimesInv, Budget, TimerRuns, Exact, Dials, Waiting
  <2>7. Writes'
    <3>1. PICK f3 \in File : f3 = [f2 EXCEPT !.state = "OFF"]
      BY <1>13 DEF File
    <3>2. f3.state = "OFF" /\ f3.remaining = left
      BY <1>13, <1>14, <3>1 DEF File
    <3>3. Saved1' = f1
      BY <1>0, <1>2, <1>11, <1>12, <2>3, SavedItems DEF Saved1, s1
    <3>4. Saved2' = f2
      BY <1>1, <1>13, <2>3, <3>3, SavedItems DEF Saved2, s2
    <3>5. Saved3' = f3
      BY <2>3, <3>1, <3>4, SavedItems DEF Saved3, s3
    <3>6. Safe(f3)' /\ Agrees(f3)'
      BY <1>3, <1>11, <2>3, <3>2 DEF Safe, Agrees, Waiting
    <3>7. Len(m'.saves) = 3
      BY <2>3
    <3>8. QED
      BY <1>15, <3>3, <3>4, <3>5, <3>6, <3>7 DEF Writes
  <2>8. QED
    BY <2>4, <2>5, <2>6, <2>7 DEF TimesInv
<1>17. CASE left # 0
  <2>1. m' = x /\ callback' = callback
    BY <1>7, <1>9, <1>10, <1>17
  <2>2. TypeOK'
    BY <1>1, <1>3, <1>7, <1>10, <2>1 DEF TypeOK, ghosts, bounds
  <2>3. Phases'
    BY <1>1, <1>7, <1>10, <2>1 DEF Phases, ghosts, Stopped
  <2>4. (Waiting' <=> Waiting) /\ LeftNow' = left /\ (Waiting' => Left' = left)
    BY <1>1, <1>2, <1>7, <1>11, <2>1 DEF Waiting, LeftNow, LeftIn, Left, MaxOf
  <2>5. Waiting /\ m.enter <= clock => left = Left
    BY <1>1, <1>2, <1>17 DEF LeftIn, Left, MaxOf, Waiting
  <2>6. Budget'
    BY <1>1, <1>2, <1>3, <1>7, <1>11, <1>17, <2>1, <2>4, <2>5 DEF TimesInv, Budget, Phases
  <2>7. TimerRuns'
    BY <1>11, <2>1, <2>4, <2>5 DEF TimesInv, Budget, TimerRuns, ClockSet
  <2>8. Exact'
    BY <1>3, <1>7, <1>10, <2>1, <2>4 DEF Exact, ghosts
  <2>9. Dials'
    BY <1>7, <2>1 DEF Dials
  <2>10. Writes'
    <3>1. Saved1' = f1
      BY <1>0, <1>2, <1>7, <1>11, <1>12, <2>1, SavedItems DEF Saved1, s1
    <3>2. Saved2' = f2
      BY <1>1, <1>7, <1>13, <2>1, <3>1, SavedItems DEF Saved2, s2
    <3>3. Agrees(f2)'
      BY <1>7, <1>14, <2>1, <2>4 DEF Agrees
    <3>4. Len(m'.saves) = 2
      BY <1>7, <2>1
    <3>5. QED
      BY <1>15, <3>1, <3>2, <3>3, <3>4 DEF Writes
  <2>11. QED
    BY <2>2, <2>3, <2>6, <2>7, <2>8, <2>9, <2>10 DEF TimesInv
<1> QED
  BY <1>16, <1>17

\* The trigger is cancelled: the waiting begins anew with what was left.
LEMMA CancelInWCBStep ==
    ASSUME TimesInv, CancelInWCB
    PROVE  TimesInv'
<1>0. /\ m \in Machine /\ file \in File /\ m.saves = <<>> /\ Safe(file) /\ Agrees(file)
      /\ m.phase # "DOWN" /\ timeout \in {"none", "behind"}
  BY Handling DEF CancelInWCB
<1>1. /\ TypeOK /\ Phases /\ m.inWCB /\ m.remaining <= config.autoAnswer /\ m.phase = "WCB"
      /\ config.autoAnswer \in Nat /\ clock \in Int /\ waitedIdle \in Nat
      /\ m.remaining \in Nat /\ m.triggered
  BY <1>0, LeftOf, ConfigFacts DEF TimesInv, TypeOK, CancelInWCB, Machine
<1>2. /\ "back" \notin disturbed => waitedIdle + m.remaining <= config.autoAnswer
      /\ disturbed = {} => m.remaining = MaxOf(config.autoAnswer - waitedAll, 0)
  BY <1>1 DEF TimesInv, Budget, Exact, LeftNow, Waiting
<1> DEFINE s1 == Saving("enter", clock)
           s2 == Saving("state", "WCB")
<1>3. s1 \in Save /\ s2 \in Save
  BY <1>1, SavingTypes
<1> HIDE DEF s1, s2
<1>4. <<s1, s2>> \in Seq(Save) /\ Append(<<>>, s1) = <<s1>> /\ Append(<<s1>>, s2) = <<s1, s2>>
  BY <1>3, Literals, Appended
<1>5. m' = [m EXCEPT !.enter = clock, !.triggered = FALSE, !.saves = <<s1, s2>>]
  <2>1. SetEnterWCBTime(m) = [m EXCEPT !.enter = clock, !.saves = <<s1>>]
    BY <1>0, <1>4 DEF SetEnterWCBTime, SaveItem, Saving, s1, Machine
  <2>2. PICK v : v = [m EXCEPT !.enter = clock, !.saves = <<s1>>, !.triggered = FALSE]
    OBVIOUS
  <2>3. [SetEnterWCBTime(m) EXCEPT !.triggered = FALSE] = v /\ v.saves = <<s1>>
    BY <1>0, <2>1, <2>2 DEF Machine
  <2>4. m' = [v EXCEPT !.saves = Append(v.saves, s2)]
    BY <2>3 DEF CancelInWCB, Becomes, EnterWCBIdle, SaveItem, Saving, s2
  <2>5. m' = [v EXCEPT !.saves = <<s1, s2>>]
    BY <1>4, <2>3, <2>4
  <2>6. QED
    BY <1>0, <2>2, <2>5 DEF Machine
<1>6. m' \in Machine
  BY <1>0, <1>1, <1>4, <1>5 DEF Machine
<1>7. /\ m'.phase = "WCB" /\ m'.inWCB /\ m'.remaining = m.remaining /\ m'.enter = clock
      /\ ~m'.triggered /\ m'.ringing = m.ringing /\ m'.redialTimer = m.redialTimer
      /\ m'.callTimer = m.callTimer /\ m'.stage = m.stage /\ m'.saves = <<s1, s2>>
  BY <1>0, <1>1, <1>5 DEF Machine
<1>8. /\ UNCHANGED <<config, clock, file, time, ghosts, bounds, disturbed>>
      /\ timeout' \in {"none", "next"} /\ callback' = m.remaining
  <2>1. callback' = m'.remaining
    BY DEF CancelInWCB, Becomes, Notified, NotifiedTime
  <2>2. QED
    BY <1>0, <1>7, <2>1 DEF CancelInWCB, Becomes, SameECall, bounds
<1>9. TypeOK'
  BY <1>1, <1>6, <1>7, <1>8 DEF TypeOK, ghosts, bounds
<1>10. Phases'
  BY <1>1, <1>7, <1>8 DEF Phases, ghosts, Stopped
<1>11. Waiting' /\ LeftNow' = m.remaining /\ Left' = m.remaining
  BY <1>1, <1>7, <1>8 DEF Waiting, LeftNow, LeftIn, Left, MaxOf
<1>12. Budget' /\ TimerRuns' /\ Exact'
  BY <1>1, <1>2, <1>7, <1>8, <1>11 DEF Budget, TimerRuns, Exact, ghosts, Stopped
<1>13. Dials'
  BY <1>7 DEF Dials
<1>14. Writes'
  <2>1. file.state # "WCB" /\ file.remaining = m.remaining
    BY <1>0, <1>1 DEF Agrees, Waiting
  <2>2. PICK f1 \in File : f1 = [file EXCEPT !.enter = clock]
    BY <1>0, <1>1 DEF File
  <2>3. PICK f2 \in File : f2 = [f1 EXCEPT !.state = "WCB"]
    BY <2>2 DEF File
  <2>4. /\ f1.state = file.state /\ f1.enter = clock /\ f1.remaining = m.remaining
        /\ f2.state = "WCB" /\ f2.remaining = m.remaining /\ f2.enter = clock
    BY <1>0, <2>1, <2>2, <2>3 DEF File
  <2>5. Saved1' = f1
    BY <1>0, <1>1, <1>7, <1>8, <2>2, SavedItems DEF Saved1, s1
  <2>6. Saved2' = f2
    BY <1>7, <2>3, <2>5, SavedItems DEF Saved2, s2
  <2>7. /\ waitedIdle' = waitedIdle /\ clock' = clock /\ config' = config /\ file' = file
        /\ disturbed' = disturbed
    BY <1>8 DEF ghosts
  <2>8. Safe(file)' /\ Safe(f1)' /\ Safe(f2)'
    BY <1>0, <1>1, <1>2, <2>1, <2>4, <2>7 DEF Safe, LeftIn, MaxOf
  <2>9. Agrees(f2)'
    BY <1>7, <1>11, <2>4 DEF Agrees
  <2>10. Len(m'.saves) = 2
    BY <1>7
  <2>11. QED
    BY <2>5, <2>6, <2>8, <2>9, <2>10 DEF Writes
<1> QED
  BY <1>9, <1>10, <1>12, <1>13, <1>14 DEF TimesInv

\* The time is over: the waiting ends, unless a call rings or a trigger has come.
LEMMA CallBackTimeoutStep ==
    ASSUME TimesInv, CallBackTimeout
    PROVE  TimesInv'
<1>1. /\ m \in Machine /\ file \in File /\ m.saves = <<>> /\ m.phase # "DOWN"
      /\ TypeOK /\ Phases /\ m.remaining <= config.autoAnswer
  BY DEF CallBackTimeout, TimesInv, TypeOK, File
<1>2. Safe(file) /\ Agrees(file)
  BY <1>1 DEF TimesInv, Writes
<1> DEFINE over == m.phase = "WCB" /\ ~m.triggered /\ ~m.ringing
<1>3. /\ UNCHANGED <<config, clock, file, time, ghosts, bounds, disturbed>>
      /\ timeout' = "none"
      /\ over => m' = EnterOff(m) /\ callback' = Stopped
      /\ ~over => m' = m /\ callback' = callback
  BY DEF CallBackTimeout, Notified, SameECall, bounds
<1>4. CASE ~over
  <2>1. TypeOK' /\ Phases'
    BY <1>1, <1>3, <1>4 DEF TypeOK, Phases, ghosts, bounds
  <2>2. Budget'
    BY <1>3, <1>4 DEF TimesInv, Budget, LeftNow, LeftIn, Left, Waiting, ghosts
  <2>3. TimerRuns' /\ Exact'
    BY <1>3, <1>4
       DEF TimesInv, TimerRuns, ClockSet, Exact, LeftNow, LeftIn, Left, Waiting, ghosts
  <2>4. Writes'
    <3>1. Safe(file)' /\ Agrees(file)'
      BY <1>2, <1>3, <1>4 DEF Safe, Agrees, LeftIn, Waiting, ghosts
    <3>2. Len(m'.saves) = 0
      BY <1>1, <1>3, <1>4
    <3>3. QED
      BY <3>1, <3>2 DEF Writes
  <2>5. Dials'
    <3>1. Interval' = Interval /\ (Roomy' <=> Roomy)
      BY <1>3 DEF Interval, Roomy
    <3>2. QED
      BY <1>3, <1>4, <3>1 DEF TimesInv, Dials, ClockSet, ghosts
  <2>6. QED
    BY <2>1, <2>2, <2>3, <2>4, <2>5 DEF TimesInv
<1>5. CASE over
  <2> DEFINE save == Saving("state", "OFF")
  <2>1. save \in Save
    BY SavingTypes
  <2> HIDE DEF save
  <2>2. <<save>> \in Seq(Save) /\ Append(<<>>, save) = <<save>>
    BY <2>1, Literals, Appended
  <2>3. m' = [m EXCEPT !.phase = "OFF", !.triggered = FALSE, !.ringing = FALSE,
                       !.inWCB = FALSE, !.callTimer = Stopped, !.saves = <<save>>]
    BY <1>1, <1>3, <1>5, <2>2 DEF EnterOff, SaveItem, Saving, save, Machine
  <2>4. m' \in Machine
    BY <1>1, <2>2, <2>3, Literals DEF Machine
  <2>5. /\ m'.phase = "OFF" /\ ~m'.triggered /\ ~m'.ringing /\ ~m'.inWCB
        /\ m'.callTimer = Stopped /\ m'.redialTimer = m.redialTimer
        /\ m'.remaining = m.remaining /\ m'.saves = <<save>> /\ callback' = Stopped
    BY <1>1, <1>3, <1>5, <2>3 DEF Machine
  <2>6. TypeOK'
    BY <1>1, <1>3, <2>4, <2>5 DEF TypeOK, ghosts, bounds, Stopped
  <2>7. Phases'
    BY <1>1, <1>3, <1>5, <2>5 DEF Phases, ghosts, Stopped
  <2>8. Budget' /\ TimerRuns' /\ Exact' /\ Dials'
    BY <1>3, <2>5 DEF TimesInv, Budget, TimerRuns, Exact, Dials, Waiting, ghosts
  <2>9. Writes'
    <3>1. PICK f1 \in File : f1 = [file EXCEPT !.state = "OFF"]
      BY <1>1 DEF File
    <3>2. f1.state = "OFF" /\ f1.remaining = file.remaining
      BY <1>1, <3>1 DEF File
    <3>3. Saved1' = f1
      BY <1>1, <1>3, <2>5, <3>1, SavedItems DEF Saved1, save
    <3>4. Safe(file)' /\ Safe(f1)' /\ Agrees(f1)'
      BY <1>2, <1>3, <2>5, <3>2 DEF Safe, Agrees, LeftIn, Waiting, ghosts
    <3>5. QED
      BY <2>5, <3>3, <3>4 DEF Writes
  <2>10. QED
    BY <2>6, <2>7, <2>8, <2>9 DEF TimesInv
<1> QED
  BY <1>4, <1>5

\* The program may stop at any time: the file is one to be started from, and
\* tells what was left if nothing was still to be written.
LEMMA CrashStep ==
    ASSUME TimesInv, Crash
    PROVE  TimesInv'
<1>0. /\ m \in Machine /\ file \in File /\ TypeOK /\ Phases /\ Safe(file)
      /\ m.phase # "DOWN" /\ m.remaining <= config.autoAnswer
  BY DEF Crash, TimesInv, TypeOK, File, Writes
<1>1. m' = [m EXCEPT !.phase = "DOWN", !.triggered = FALSE, !.ringing = FALSE, !.inWCB = FALSE,
                     !.callTimer = Stopped, !.redialTimer = Stopped, !.saves = <<>>]
  BY <1>0 DEF Crash, StopTimers, Machine
<1>2. m' \in Machine
  BY <1>0, <1>1, Literals DEF Machine
<1>3. /\ m'.phase = "DOWN" /\ ~m'.triggered /\ ~m'.ringing /\ ~m'.inWCB
      /\ m'.callTimer = Stopped /\ m'.redialTimer = Stopped
      /\ m'.remaining = m.remaining /\ m'.saves = <<>>
  BY <1>0, <1>1 DEF Machine
<1>4. /\ UNCHANGED <<config, clock, file, callback, time, ghosts, clockSets, triggers>>
      /\ timeout' = "none" /\ crashes' = crashes + 1
      /\ disturbed' = disturbed \cup (IF m.saves # <<>> THEN {"cut"} ELSE {})
      /\ "back" \in disturbed' <=> "back" \in disturbed
  BY DEF Crash
<1>5. TypeOK'
  BY <1>0, <1>2, <1>3, <1>4 DEF TypeOK, ghosts
<1>6. Phases'
  BY <1>0, <1>3, <1>4 DEF Phases, ghosts, Stopped
<1>7. Budget' /\ TimerRuns' /\ Dials'
  BY <1>3, <1>4 DEF TimesInv, Budget, TimerRuns, Dials, Waiting, ghosts
<1>8. Exact'
  <2>1. SUFFICES ASSUME disturbed' = {}, file.state = "WCB"
                 PROVE  /\ file.enter <= clock
                        /\ LeftIn(file) = MaxOf(config.autoAnswer - waitedAll, 0)
    BY <1>3, <1>4 DEF Exact, LeftIn, ghosts
  <2>2. disturbed = {} /\ m.saves = <<>>
    BY <1>4, <2>1
  <2>3. Agrees(file)
    BY <2>2 DEF TimesInv, Writes
  <2>4. Waiting /\ m.inWCB /\ file.remaining = m.remaining /\ file.enter = m.enter
    BY <1>0, <2>1, <2>3 DEF Agrees, Phases, Waiting
  <2>5. QED
    BY <2>2, <2>4 DEF TimesInv, Budget, Exact, LeftNow, LeftIn
<1>9. Writes'
  <2>1. Safe(file)' /\ Agrees(file)'
    BY <1>0, <1>3, <1>4 DEF Safe, Agrees, LeftIn, Waiting, ghosts
  <2>2. Len(m'.saves) = 0
    BY <1>3
  <2>3. QED
    BY <2>1, <2>2 DEF Writes
<1> QED
  BY <1>5, <1>6, <1>7, <1>8, <1>9 DEF TimesInv

\* The receiver's timer has run down.
LEMMA CallbackTimerFiresStep ==
    ASSUME TimesInv, CallbackTimerFires
    PROVE  TimesInv'
<1>1. /\ TypeOK /\ Phases /\ callback = 0 /\ callback' = Stopped
      /\ UNCHANGED <<config, clock, m, file, time, ghosts, disturbed, bounds>>
      /\ timeout' \in {"none", "behind", "next"}
      /\ m.phase # "DOWN" => timeout' # "none"
  BY DEF TimesInv, CallbackTimerFires
<1>2. TypeOK'
  BY <1>1 DEF TypeOK, ghosts, bounds, Stopped
<1>3. Phases'
  BY <1>1 DEF Phases, ghosts, Stopped
<1>4. Budget' /\ TimerRuns'
  <2>1. Waiting => m.phase # "DOWN"
    BY DEF Waiting
  <2>2. QED
    BY <1>1, <2>1
       DEF TimesInv, Budget, TimerRuns, LeftNow, LeftIn, Left, Waiting, ghosts, Stopped
<1>5. Exact'
  BY <1>1 DEF TimesInv, Exact, LeftNow, LeftIn, Waiting, ghosts
<1>6. Writes'
  BY <1>1 DEF TimesInv, Writes, Saved1, Saved2, Saved3, Safe, Agrees, LeftIn, Waiting, ghosts
<1>7. Dials'
  <2>1. Interval' = Interval /\ (Roomy' <=> Roomy)
    BY <1>1 DEF Interval, Roomy
  <2>2. QED
    BY <1>1, <2>1 DEF TimesInv, Dials, ClockSet, ghosts
<1> QED
  BY <1>2, <1>3, <1>4, <1>5, <1>6, <1>7 DEF TimesInv

\* A file from which the program may be started again remains one when the clock
\* goes on, or is set.
LEMMA SafeLater ==
    ASSUME TypeOK, NEW f \in File, Safe(f), clock' \in Int, config' = config,
           waitedIdle' = waitedIdle, clock' < clock => "back" \in disturbed',
           "back" \notin disturbed' => "back" \notin disturbed
    PROVE  Safe(f)'
<1>1. clock \in Int /\ f.remaining \in Nat /\ f.enter \in Int /\ waitedIdle \in Nat
      /\ config.autoAnswer \in Nat
  BY ConfigFacts DEF TypeOK, File
<1>2. f.remaining <= config'.autoAnswer
  BY DEF Safe
<1>3. ASSUME "back" \notin disturbed', f.state = "WCB"
      PROVE  waitedIdle' + LeftIn(f)' <= config'.autoAnswer
  <2>1. waitedIdle + LeftIn(f) <= config.autoAnswer /\ clock <= clock'
    BY <1>1, <1>3 DEF Safe
  <2>2. MaxOf(f.remaining - MaxOf(clock' - f.enter, 0), 0)
           <= MaxOf(f.remaining - MaxOf(clock - f.enter, 0), 0)
    BY <1>1, <2>1 DEF MaxOf
  <2>3. /\ MaxOf(f.remaining - MaxOf(clock' - f.enter, 0), 0) \in Int
        /\ MaxOf(f.remaining - MaxOf(clock - f.enter, 0), 0) \in Int
    BY <1>1 DEF MaxOf
  <2>4. QED
    BY <1>1, <2>1, <2>2, <2>3 DEF LeftIn
<1> QED
  BY <1>2, <1>3 DEF Safe

\* The clock is set: forward, less is left than before; back, nothing is claimed.
LEMMA SetClockStep ==
    ASSUME TimesInv, SetClock
    PROVE  TimesInv'
<1>1. /\ TypeOK /\ Phases /\ m \in Machine /\ clock \in Int /\ waitedIdle \in Nat
      /\ m.remaining \in Nat /\ m.enter \in Int /\ config.autoAnswer \in Nat
  BY ConfigFacts DEF TimesInv, TypeOK, Machine
<1>2. /\ UNCHANGED <<config, m, file, callback, timeout, time, ghosts, crashes, triggers>>
      /\ clock' \in Int /\ clockSets' = clockSets + 1
      /\ disturbed' = disturbed \cup {IF clock' < clock THEN "back" ELSE "forward"}
  BY <1>1 DEF SetClock
<1>3. /\ disturbed' # {} /\ ClockSet'
      /\ clock' < clock => "back" \in disturbed'
      /\ "back" \notin disturbed' => "back" \notin disturbed /\ clock <= clock'
  BY <1>1, <1>2 DEF ClockSet
<1>4. TypeOK'
  BY <1>1, <1>2 DEF TypeOK, ghosts
<1>5. Phases'
  BY <1>1, <1>2 DEF Phases, ghosts
<1>6. Budget'
  <2>1. SUFFICES ASSUME "back" \notin disturbed' PROVE Budget'
    BY DEF Budget
  <2>2. clock <= clock' /\ "back" \notin disturbed
    BY <1>3, <2>1
  <2>3. Waiting' <=> Waiting
    BY <1>2 DEF Waiting
  <2>4. LeftIn(m)' <= LeftIn(m) /\ LeftIn(m)' \in Int /\ LeftIn(m) \in Int
    BY <1>1, <1>2, <2>2 DEF LeftIn, MaxOf
  <2>5. Waiting => Left' <= Left /\ Left' \in Int /\ Left \in Int
    BY <1>1, <1>2, <2>2 DEF Left, Waiting
  <2>6. LeftNow' <= LeftNow /\ LeftNow' \in Int /\ LeftNow \in Int
    BY <1>1, <1>2, <2>3, <2>4 DEF LeftNow
  <2>7. callback \in Int /\ callback' = callback /\ waitedIdle' = waitedIdle
    BY <1>1, <1>2 DEF TypeOK, ghosts
  <2>8. QED
    BY <1>1, <1>2, <2>2, <2>3, <2>5, <2>6, <2>7 DEF TimesInv, Budget
<1>7. TimerRuns' /\ Exact'
  BY <1>3 DEF TimerRuns, Exact
<1>8. Dials'
  BY <1>2, <1>3 DEF TimesInv, Dials
<1>9. Writes'
  <2>1. \A f \in File : Safe(f) => Safe(f)'
    <3>1. TAKE f \in File
    <3>2. HAVE Safe(f)
    <3>3. QED
      BY <1>1, <1>2, <1>3, <3>2, SafeLater DEF ghosts
  <2>2. file \in File /\ file' = file
    BY <1>1, <1>2 DEF TypeOK, File
  <2>3. Saved1' = Saved1 /\ Saved2' = Saved2 /\ Saved3' = Saved3
    BY <1>2 DEF Saved1, Saved2, Saved3
  <2>4. \A f : Agrees(f)' <=> Agrees(f)
    BY <1>2 DEF Agrees, Waiting
  <2>5. PICK f0, f1, f2, f3 : f0 = file /\ f1 = Saved1 /\ f2 = Saved2 /\ f3 = Saved3
    OBVIOUS
  <2>6. /\ Len(m.saves) <= 3
        /\ Safe(f0)
        /\ Len(m.saves) = 0 => Agrees(f0)
        /\ Len(m.saves) >= 1 => f1 \in File /\ Safe(f1)
        /\ Len(m.saves) = 1 => Agrees(f1)
        /\ Len(m.saves) >= 2 => f2 \in File /\ Safe(f2)
        /\ Len(m.saves) = 2 => Agrees(f2)
        /\ Len(m.saves) = 3 => f3 \in File /\ Safe(f3) /\ Agrees(f3)
    BY <2>5 DEF TimesInv, Writes
  <2>7. /\ Len(m.saves) <= 3
        /\ Safe(f0)'
        /\ Len(m.saves) = 0 => Agrees(f0)'
        /\ Len(m.saves) >= 1 => f1 \in File /\ Safe(f1)'
        /\ Len(m.saves) = 1 => Agrees(f1)'
        /\ Len(m.saves) >= 2 => f2 \in File /\ Safe(f2)'
        /\ Len(m.saves) = 2 => Agrees(f2)'
        /\ Len(m.saves) = 3 => f3 \in File /\ Safe(f3)' /\ Agrees(f3)'
    BY <2>1, <2>2, <2>4, <2>5, <2>6
  <2>8. m' = m /\ f0 = file' /\ f1 = Saved1' /\ f2 = Saved2' /\ f3 = Saved3'
    BY <1>2, <2>2, <2>3, <2>5
  <2>9. QED
    BY <2>7, <2>8 DEF Writes
<1> QED
  BY <1>4, <1>5, <1>6, <1>7, <1>8, <1>9 DEF TimesInv



\* Time passes: what is left becomes less as what has been waited becomes more.
LEMMA TickStep ==
    ASSUME TimesInv, Tick
    PROVE  TimesInv'
<1>0. /\ TypeOK /\ Phases /\ m \in Machine /\ file \in File /\ m.saves = <<>>
      /\ clock \in Int /\ waitedIdle \in Nat /\ waitedAll \in Nat /\ sinceFirst \in Nat
      /\ callback \in Int /\ callback # 0 /\ callback >= Stopped /\ timeout = "none"
      /\ m.remaining \in Nat /\ m.enter \in Int /\ config.autoAnswer \in Nat
      /\ m.callTimer \in Int /\ m.redialTimer \in Int /\ m.callTimer # 0 /\ m.redialTimer # 0
      /\ m.callTimer >= Stopped /\ m.redialTimer >= Stopped /\ Stopped = -1
      /\ file.remaining \in Nat /\ file.enter \in Int
  BY ConfigFacts DEF TimesInv, TypeOK, Machine, File, Tick, Phases, Stopped
<1>1. Safe(file) /\ Agrees(file)
  BY <1>0 DEF TimesInv, Writes
<1>2. /\ time' = time + 1 /\ clock' = clock + 1
      /\ UNCHANGED <<config, file, timeout, disturbed, bounds>>
      /\ waitedIdle' = IF Waiting /\ ~m.ringing THEN waitedIdle + 1 ELSE waitedIdle
      /\ waitedAll' = IF Waiting \/ (m.phase = "DOWN" /\ file.state = "WCB")
                      THEN waitedAll + 1 ELSE waitedAll
      /\ sinceFirst' = IF m.phase = "CALL" THEN sinceFirst + 1 ELSE sinceFirst
  BY DEF Tick, Waiting
<1>3. /\ callback > 0 => callback' = callback - 1
      /\ callback = Stopped => callback' = Stopped
      /\ callback > 0 \/ callback = Stopped
  <2>1. callback' = Down(callback)
    BY DEF Tick
  <2>2. callback \in Int /\ callback # 0 /\ callback >= -1
    BY <1>0
  <2>3. QED
    BY <2>1, <2>2 DEF Down, Stopped
<1>4. m' = [m EXCEPT !.redialTimer = Down(m.redialTimer), !.callTimer = Down(m.callTimer)]
  BY DEF Tick
<1>5. PICK cT, rT \in Int : cT = Down(m.callTimer) /\ rT = Down(m.redialTimer)
  BY <1>0 DEF Down
<1>6. /\ m.callTimer > 0 => cT = m.callTimer - 1
      /\ m.callTimer = Stopped => cT = Stopped
      /\ m.redialTimer > 0 => rT = m.redialTimer - 1
      /\ m.redialTimer = Stopped => rT = Stopped
      /\ cT >= Stopped /\ rT >= Stopped
  BY <1>0, <1>5 DEF Down
<1>7. m' \in Machine
  BY <1>0, <1>4, <1>5 DEF Machine
<1>8. /\ m'.callTimer = cT /\ m'.redialTimer = rT /\ m'.phase = m.phase
      /\ m'.inWCB = m.inWCB /\ m'.triggered = m.triggered /\ m'.ringing = m.ringing
      /\ m'.remaining = m.remaining /\ m'.enter = m.enter /\ m'.saves = m.saves
      /\ m'.attempts = m.attempts /\ m'.stage = m.stage /\ m'.firstDial = m.firstDial
  <2>1. m \in Machine
    BY <1>0
  <2>2. m' = [m EXCEPT !.redialTimer = rT, !.callTimer = cT]
    BY <1>4, <1>5
  <2>3. QED
    BY <2>1, <2>2 DEF Machine
<1>9. TypeOK'
  BY <1>0, <1>2, <1>3, <1>7, <1>8 DEF TypeOK, bounds
<1>10. Phases'
  BY <1>0, <1>2, <1>3, <1>6, <1>8 DEF Phases, Waiting
<1>11. /\ Waiting' <=> Waiting
       /\ ClockSet' <=> ClockSet
       /\ Waiting => Left' = Left - 1 /\ Left = m.remaining - (clock - m.enter)
       /\ Waiting /\ m.enter <= clock => LeftNow = MaxOf(Left, 0) /\ LeftNow' = MaxOf(Left - 1, 0)
       /\ ~Waiting => LeftNow' = LeftNow
  <2>0. /\ clock' = clock + 1 /\ disturbed' = disturbed
        /\ clock \in Int /\ m.remaining \in Int /\ m.enter \in Int
    BY <1>0, <1>2
  <2>1. (Waiting' <=> Waiting) /\ (ClockSet' <=> ClockSet)
    BY <1>8, <2>0 DEF Waiting, ClockSet
  <2>2. ~Waiting => LeftNow' = LeftNow
    BY <1>8, <2>1 DEF LeftNow
  <2>3. Waiting => Left = m.remaining - (clock - m.enter)
    BY DEF Waiting, Left
  <2>4. Waiting => Left' = m.remaining - (clock + 1 - m.enter)
    BY <1>8, <2>0 DEF Waiting, Left
  <2>5. Waiting => LeftNow = LeftIn(m)
    BY DEF LeftNow
  <2>6. Waiting => LeftNow' = MaxOf(m.remaining - MaxOf(clock + 1 - m.enter, 0), 0)
    BY <1>8, <2>0, <2>1 DEF LeftNow, LeftIn
  <2>7. QED
    <3>1. Waiting => Left' = Left - 1
      BY <2>0, <2>3, <2>4
    <3>2. Waiting /\ m.enter <= clock => LeftNow = MaxOf(Left, 0)
      BY <2>0, <2>3, <2>5 DEF LeftIn, MaxOf
    <3>3. Waiting /\ m.enter <= clock => LeftNow' = MaxOf(Left - 1, 0)
      BY <2>0, <2>3, <2>6 DEF MaxOf
    <3>4. QED
      BY <2>1, <2>2, <2>3, <3>1, <3>2, <3>3
<1>12. Left \in Int
  BY <1>0 DEF Left
<1>13. Budget'
  <2>1. SUFFICES ASSUME "back" \notin disturbed' PROVE Budget'
    BY DEF Budget
  <2>2. CASE Waiting
    <3>0. /\ waitedIdle \in Nat /\ config.autoAnswer \in Nat /\ Left \in Int /\ callback \in Int
          /\ waitedIdle' = waitedIdle \/ (~m.ringing /\ waitedIdle' = waitedIdle + 1)
          /\ callback = Stopped \/ (callback > 0 /\ callback # Stopped)
      <4>1. waitedIdle' = waitedIdle \/ (~m.ringing /\ waitedIdle' = waitedIdle + 1)
        BY <1>2
      <4>2. callback > 0 => callback # Stopped
        BY DEF Stopped
      <4>3. QED
        BY <1>0, <1>3, <1>12, <4>1, <4>2
    <3>1. /\ waitedIdle + MaxOf(Left, 0) <= config.autoAnswer /\ m.enter <= clock
          /\ waitedIdle <= config.autoAnswer
          /\ callback # Stopped => Left <= callback /\ waitedIdle + callback <= config.autoAnswer
          /\ callback = Stopped => Left <= 0 /\ m.ringing
      BY <1>0, <1>2, <1>11, <2>1, <2>2 DEF TimesInv, Budget, Phases, Waiting
    <3>2. waitedIdle' <= config.autoAnswer
      BY <3>0, <3>1
    <3>3. waitedIdle' + MaxOf(Left - 1, 0) <= config.autoAnswer
      <4>1. Left <= 0 \/ Left >= 1
        BY <3>0
      <4>2. CASE Left <= 0
        BY <3>0, <3>2, <4>2 DEF MaxOf
      <4>3. CASE Left >= 1
        BY <3>0, <3>1, <4>3 DEF MaxOf
      <4>4. QED
        BY <4>1, <4>2, <4>3
    <3>4. callback' # Stopped => Left - 1 <= callback' /\ waitedIdle' + callback' <= config.autoAnswer
      BY <1>3, <3>0, <3>1
    <3>5. callback' = Stopped => Left - 1 <= 0 /\ m.ringing
      <4>1. callback > 0 => callback - 1 # Stopped
        BY <3>0 DEF Stopped
      <4>2. QED
        BY <1>3, <3>0, <3>1, <4>1
    <3>6. QED
      <4>1. config' = config /\ clock' = clock + 1 /\ Waiting'
        BY <1>2, <1>11, <2>2
      <4>2. m'.enter <= clock'
        BY <1>0, <1>8, <3>1, <4>1
      <4>3. LeftNow' = MaxOf(Left - 1, 0) /\ Left' = Left - 1
        BY <1>11, <2>2, <3>1
      <4>4. m'.ringing = m.ringing
        BY <1>8
      <4>5. QED
        BY <3>2, <3>3, <3>4, <3>5, <4>1, <4>2, <4>3, <4>4 DEF Budget
  <2>3. CASE ~Waiting
    BY <1>2, <1>8, <1>11, <2>1, <2>3 DEF TimesInv, Budget
  <2>4. QED
    BY <2>2, <2>3
<1>14. TimerRuns'
  BY <1>0, <1>3, <1>11 DEF TimesInv, TimerRuns
<1>15. Exact'
  <2>1. SUFFICES ASSUME disturbed' = {} PROVE Exact'
    BY DEF Exact
  <2>2. disturbed = {} /\ "back" \notin disturbed
    BY <1>2, <2>1
  <2>3. ASSUME m.inWCB PROVE LeftNow' = MaxOf(config.autoAnswer - waitedAll', 0)
    <3>1. LeftNow = MaxOf(config.autoAnswer - waitedAll, 0)
      BY <2>2, <2>3 DEF TimesInv, Exact
    <3>2. CASE Waiting
      <4>1. LeftNow = MaxOf(Left, 0) /\ LeftNow' = MaxOf(Left - 1, 0) /\ waitedAll' = waitedAll + 1
        BY <1>2, <1>11, <2>2, <3>2 DEF TimesInv, Budget
      <4>2. QED
        BY <1>0, <1>12, <3>1, <4>1 DEF MaxOf
    <3>3. CASE ~Waiting
      <4>1. waitedAll' = waitedAll /\ LeftNow' = LeftNow
        BY <1>0, <1>2, <1>11, <2>3, <3>3 DEF Phases
      <4>2. QED
        BY <3>1, <4>1
    <3>4. QED
      BY <3>2, <3>3
  <2>4. ASSUME m.phase = "DOWN", file.state = "WCB"
        PROVE  /\ file.enter <= clock + 1
               /\ MaxOf(file.remaining - MaxOf(clock + 1 - file.enter, 0), 0)
                     = MaxOf(config.autoAnswer - waitedAll', 0)
    <3>1. /\ file.enter <= clock
          /\ MaxOf(file.remaining - MaxOf(clock - file.enter, 0), 0)
                = MaxOf(config.autoAnswer - waitedAll, 0)
      BY <2>2, <2>4 DEF TimesInv, Exact, LeftIn
    <3>2. waitedAll' = waitedAll + 1
      BY <1>2, <2>4
    <3>3. clock + 1 - file.enter = (clock - file.enter) + 1 /\ clock - file.enter \in Nat
      BY <1>0, <3>1
    <3>4. MaxOf(clock - file.enter, 0) = clock - file.enter
          /\ MaxOf(clock + 1 - file.enter, 0) = (clock - file.enter) + 1
      BY <3>3 DEF MaxOf
    <3>5. MaxOf(file.remaining - ((clock - file.enter) + 1), 0)
             = MaxOf(MaxOf(file.remaining - (clock - file.enter), 0) - 1, 0)
      BY <1>0 DEF MaxOf
    <3>6. MaxOf(config.autoAnswer - (waitedAll + 1), 0)
             = MaxOf(MaxOf(config.autoAnswer - waitedAll, 0) - 1, 0)
      BY <1>0 DEF MaxOf
    <3>7. file.enter <= clock + 1
      BY <1>0, <3>1
    <3>8. QED
      BY <3>1, <3>2, <3>4, <3>5, <3>6, <3>7
  <2>5. /\ m'.inWCB => LeftNow' = MaxOf(config'.autoAnswer - waitedAll', 0)
        /\ m'.phase = "DOWN" /\ file'.state = "WCB" =>
              /\ file'.enter <= clock'
              /\ MaxOf(file'.remaining - MaxOf(clock' - file'.enter, 0), 0)
                    = MaxOf(config'.autoAnswer - waitedAll', 0)
    <3>1. clock' = clock + 1 /\ file' = file /\ config' = config /\ clock' \in Int
      BY <1>0, <1>2
    <3>2. file'.remaining = file.remaining /\ file'.enter = file.enter
      BY <3>1
    <3>3. MaxOf(file'.remaining - MaxOf(clock' - file'.enter, 0), 0)
             = MaxOf(file.remaining - MaxOf(clock + 1 - file.enter, 0), 0)
      BY <1>0, <3>1, <3>2 DEF MaxOf
    <3>4. QED
      BY <1>0, <1>8, <2>3, <2>4, <3>1, <3>2, <3>3
  <2>6. QED
    BY <2>5 DEF Exact, LeftIn
<1>16. Writes'
  <2>1. PICK f : f = file
    OBVIOUS
  <2>2. file' = f /\ f \in File
    BY <1>0, <1>2, <2>1
  <2>3. Safe(f)'
    <3>1. CASE Waiting
      <4>1. f.state = "WCB" /\ f.remaining = m.remaining /\ f.enter = m.enter
        BY <1>0, <1>1, <2>1, <3>1 DEF Agrees, Phases, Waiting
      <4>2. LeftIn(f)' = LeftNow'
        BY <1>8, <1>11, <3>1, <4>1 DEF LeftNow, LeftIn
      <4>3. m.inWCB
        BY <1>0, <3>1 DEF Phases, Waiting
      <4>4. QED
        BY <1>1, <1>2, <1>8, <1>13, <2>1, <4>2, <4>3 DEF Safe, Budget
    <3>2. CASE ~Waiting
      <4>1. waitedIdle' = waitedIdle /\ clock' \in Int /\ config' = config /\ disturbed' = disturbed
            /\ ~(clock' < clock)
        BY <1>0, <1>2, <3>2
      <4>2. Safe(f)
        BY <1>1, <2>1
      <4>3. QED
        BY <1>0, <2>2, <4>1, <4>2, SafeLater
    <3>3. QED
      BY <3>1, <3>2
  <2>4. Agrees(f)'
    BY <1>1, <1>8, <1>11, <2>1 DEF Agrees
  <2>5. Len(m'.saves) = 0
    BY <1>0, <1>8
  <2>6. QED
    BY <2>2, <2>3, <2>4, <2>5 DEF Writes
<1>17. Dials'
  <2>1. SUFFICES ASSUME m.phase = "CALL", m.stage = "CALL" PROVE Dials'
    BY <1>8 DEF Dials
  <2>2. Interval' = Interval /\ (Roomy' <=> Roomy) /\ Interval \in Nat /\ sinceFirst' = sinceFirst + 1
        /\ config.duration \in Nat /\ RedialDelay \in Nat
    BY <1>0, <1>2, <2>1, IntervalFacts, ConfigFacts DEF Interval, Roomy
  <2>3. m.attempts \in 1..config.attempts /\ m.firstDial \in Int
    BY <1>0, <2>1 DEF TimesInv, Dials, Machine
  <2> DEFINE before == Interval * (m.attempts - 1)
             after == Interval * m.attempts
  <2>4. before \in Int /\ after \in Int
    BY <2>2, <2>3
  <2>5. /\ Interval' * (m'.attempts - 1) = before /\ Interval' * m'.attempts = after
        /\ config' = config
    BY <1>2, <1>8, <2>2
  <2>6. m.redialTimer # Stopped => m.attempts < config.attempts
    BY <2>1 DEF TimesInv, Dials
  <2>7. ~ClockSet =>
            /\ clock - m.firstDial = sinceFirst
            /\ sinceFirst >= MinOf(before, config.duration)
            /\ m.redialTimer # Stopped =>
                  sinceFirst + m.redialTimer >= MinOf(after, config.duration)
            /\ Roomy /\ m.redialTimer = Stopped =>
                  /\ sinceFirst + m.callTimer <= after
                  /\ m.attempts < config.attempts =>
                        sinceFirst + m.callTimer + RedialDelay <= after
            /\ Roomy /\ m.redialTimer # Stopped => sinceFirst + m.redialTimer <= after
    BY <2>1 DEF TimesInv, Dials
  <2> HIDE DEF before, after
  <2>8. m.redialTimer = Stopped => m.callTimer > 0
    BY <1>0, <2>1 DEF Phases
  <2>9. ~ClockSet =>
            /\ clock' - m.firstDial = sinceFirst'
            /\ sinceFirst' >= MinOf(before, config.duration)
            /\ rT # Stopped => sinceFirst' + rT >= MinOf(after, config.duration)
            /\ Roomy /\ rT = Stopped =>
                  /\ sinceFirst' + cT <= after
                  /\ m.attempts < config.attempts => sinceFirst' + cT + RedialDelay <= after
            /\ Roomy /\ rT # Stopped => sinceFirst' + rT <= after
    <3>1. rT = Stopped <=> m.redialTimer = Stopped
      BY <1>0, <1>6
    <3>2. MinOf(before, config.duration) \in Int /\ MinOf(after, config.duration) \in Int
      BY <2>2, <2>4 DEF MinOf
    <3>3. PICK lo, hi \in Int :
             lo = MinOf(before, config.duration) /\ hi = MinOf(after, config.duration)
      BY <3>2
    <3>4. /\ clock' - m.firstDial = (clock - m.firstDial) + 1
          /\ sinceFirst' + cT = sinceFirst + m.callTimer \/ m.redialTimer # Stopped
          /\ sinceFirst' + rT = sinceFirst + m.redialTimer \/ m.redialTimer = Stopped
          /\ sinceFirst' >= sinceFirst
      <4>1. /\ clock' = clock + 1 /\ clock \in Int /\ m.firstDial \in Int
            /\ m.callTimer \in Int /\ sinceFirst \in Int /\ sinceFirst' = sinceFirst + 1
        BY <1>0, <1>2, <2>2, <2>3
      <4>2. clock' - m.firstDial = (clock - m.firstDial) + 1
        BY <4>1
      <4>3. m.redialTimer = Stopped => sinceFirst' + cT = sinceFirst + m.callTimer
        <5>1. m.redialTimer = Stopped => cT = m.callTimer - 1
          BY <1>6, <2>8
        <5>2. QED
          BY <4>1, <5>1
      <4>4. m.redialTimer # Stopped => sinceFirst' + rT = sinceFirst + m.redialTimer
        <5>1. SUFFICES ASSUME m.redialTimer # Stopped
                       PROVE  sinceFirst' + rT = sinceFirst + m.redialTimer
          OBVIOUS
        <5>2. m.redialTimer > 0
          BY <1>0, <5>1
        <5>3. rT = m.redialTimer - 1
          BY <1>6, <5>2
        <5>4. m.redialTimer \in Int /\ sinceFirst \in Int /\ sinceFirst' = sinceFirst + 1
          BY <1>0, <2>2
        <5>5. QED
          BY <5>3, <5>4
      <4>5. QED
        BY <1>0, <2>2, <4>2, <4>3, <4>4
    <3>5. ASSUME ~ClockSet
          PROVE  /\ clock' - m.firstDial = sinceFirst'
                 /\ sinceFirst' >= lo
                 /\ rT # Stopped => sinceFirst' + rT >= hi
      BY <1>0, <2>2, <2>7, <3>1, <3>3, <3>4, <3>5
    <3>6. ASSUME ~ClockSet, Roomy
          PROVE  /\ rT = Stopped =>
                       /\ sinceFirst' + cT <= after
                       /\ m.attempts < config.attempts => sinceFirst' + cT + RedialDelay <= after
                 /\ rT # Stopped => sinceFirst' + rT <= after
      BY <2>7, <3>1, <3>4, <3>6
    <3>7. QED
      BY <3>3, <3>5, <3>6
  <2>10. rT # Stopped => m.attempts < config.attempts
    BY <1>0, <1>6, <2>6
  <2>11. QED
    BY <1>8, <1>11, <2>2, <2>3, <2>5, <2>9, <2>10 DEF Dials
<1> QED
  BY <1>9, <1>10, <1>13, <1>14, <1>15, <1>16, <1>17 DEF TimesInv

\* The next write is done: the file becomes the first of those expected.
LEMMA WriteFileStep ==
    ASSUME TimesInv, WriteFile
    PROVE  TimesInv'
<1>1. /\ TypeOK /\ Phases /\ m \in Machine /\ m.saves \in Seq(Save) /\ m.saves # <<>>
  BY DEF TimesInv, TypeOK, WriteFile, Machine
<1>2. /\ file' = Saved1 /\ m' = [m EXCEPT !.saves = Tail(m.saves)]
      /\ UNCHANGED <<config, clock, callback, timeout, time, ghosts, disturbed, bounds>>
  <2>1. Head(m.saves) = m.saves[1]
    BY <1>1, HeadTailProperties
  <2>2. QED
    BY <2>1 DEF WriteFile, Saved1, Saved
<1>3. /\ Len(m.saves) >= 1 /\ Len(m.saves) \in Nat
      /\ Tail(m.saves) \in Seq(Save) /\ Len(Tail(m.saves)) = Len(m.saves) - 1
      /\ \A i \in 1..Len(Tail(m.saves)) : Tail(m.saves)[i] = m.saves[i + 1]
  BY <1>1, HeadTailProperties, EmptySeq
<1>4. m' \in Machine
  BY <1>1, <1>2, <1>3 DEF Machine
<1>5. /\ m'.callTimer = m.callTimer /\ m'.redialTimer = m.redialTimer /\ m'.phase = m.phase
      /\ m'.inWCB = m.inWCB /\ m'.triggered = m.triggered /\ m'.ringing = m.ringing
      /\ m'.remaining = m.remaining /\ m'.enter = m.enter /\ m'.saves = Tail(m.saves)
      /\ m'.attempts = m.attempts /\ m'.stage = m.stage /\ m'.firstDial = m.firstDial
  BY <1>1, <1>2 DEF Machine
<1>6. m.phase # "DOWN"
  BY <1>1 DEF Phases
<1>7. Saved1 \in File
  BY <1>3 DEF TimesInv, Writes
<1>8. TypeOK'
  <2>1. file' \in File
    BY <1>2, <1>7
  <2>2. QED
    BY <1>1, <1>2, <1>4, <1>5, <2>1 DEF TypeOK, File, ghosts, bounds
<1>9. Phases'
  BY <1>1, <1>2, <1>5, <1>6 DEF Phases, ghosts
<1>10. Budget' /\ TimerRuns'
  BY <1>2, <1>5 DEF TimesInv, Budget, TimerRuns, ClockSet, LeftNow, LeftIn, Left, Waiting, ghosts
<1>11. Exact'
  BY <1>2, <1>5, <1>6 DEF TimesInv, Exact, LeftNow, LeftIn, Waiting, ghosts
<1>12. Dials'
  <2>1. Interval' = Interval /\ (Roomy' <=> Roomy)
    BY <1>2 DEF Interval, Roomy
  <2>2. QED
    BY <1>2, <1>5, <2>1 DEF TimesInv, Dials, ClockSet, ghosts
<1>13. Writes'
  <2>1. \A f : (Safe(f)' <=> Safe(f)) /\ (Agrees(f)' <=> Agrees(f))
    BY <1>2, <1>5 DEF Safe, Agrees, LeftIn, Waiting, ghosts
  <2>2. PICK f1, f2, f3 : f1 = Saved1 /\ f2 = Saved2 /\ f3 = Saved3
    OBVIOUS
  <2>3. /\ Len(m.saves) <= 3
        /\ f1 \in File /\ Safe(f1)
        /\ Len(m.saves) = 1 => Agrees(f1)
        /\ Len(m.saves) >= 2 => f2 \in File /\ Safe(f2)
        /\ Len(m.saves) = 2 => Agrees(f2)
        /\ Len(m.saves) = 3 => f3 \in File /\ Safe(f3) /\ Agrees(f3)
    BY <1>3, <2>2 DEF TimesInv, Writes
  <2>4. /\ Safe(f1)'
        /\ Len(m.saves) = 1 => Agrees(f1)'
        /\ Len(m.saves) >= 2 => f2 \in File /\ Safe(f2)'
        /\ Len(m.saves) = 2 => Agrees(f2)'
        /\ Len(m.saves) = 3 => f3 \in File /\ Safe(f3)' /\ Agrees(f3)'
    BY <2>1, <2>3
  <2>5. file' = f1 /\ Len(m'.saves) = Len(m.saves) - 1
    BY <1>2, <1>3, <1>5, <2>2
  <2>6. Len(m.saves) >= 2 => Saved1' = f2
    <3>1. Len(m.saves) >= 2 => m'.saves[1] = m.saves[2]
      BY <1>3, <1>5
    <3>2. QED
      BY <2>2, <2>5, <3>1 DEF Saved1, Saved2
  <2>7. Len(m.saves) = 3 => Saved2' = f3
    <3>1. Len(m.saves) = 3 => m'.saves[2] = m.saves[3]
      BY <1>3, <1>5
    <3>2. QED
      BY <2>2, <2>6, <3>1 DEF Saved2, Saved3
  <2>8. PICK n \in 0..2 : Len(m'.saves) = n /\ Len(m.saves) = n + 1
    <3>1. PICK k : k = Len(m.saves)
      OBVIOUS
    <3>2. k \in Nat /\ k >= 1 /\ k <= 3 /\ Len(m'.saves) = k - 1
      BY <1>3, <2>3, <2>5, <3>1
    <3>3. k - 1 \in 0..2 /\ k = (k - 1) + 1
      BY <3>2
    <3>4. QED
      BY <3>1, <3>2, <3>3
  <2>9. /\ n >= 1 => Len(m.saves) >= 2
        /\ n = 0 => Len(m.saves) = 1
        /\ n = 1 => Len(m.saves) = 2
        /\ n >= 2 => Len(m.saves) = 3
    BY <2>8
  <2>10. Safe(file)'
    BY <2>4, <2>5 DEF Safe
  <2>11. n = 0 => Agrees(file)'
    BY <2>4, <2>5, <2>9 DEF Agrees
  <2>12. n >= 1 => Saved1' \in File /\ Safe(Saved1)'
    BY <2>4, <2>6, <2>9 DEF Safe
  <2>13. n = 1 => Agrees(Saved1)'
    BY <2>4, <2>6, <2>8, <2>9 DEF Agrees
  <2>14. n >= 2 => Saved2' \in File /\ Safe(Saved2)' /\ Agrees(Saved2)'
    BY <2>4, <2>7, <2>9 DEF Safe, Agrees
  <2>15. n <= 3 /\ n # 3
    OBVIOUS
  <2>16. QED
    BY <2>8, <2>10, <2>11, <2>12, <2>13, <2>14, <2>15 DEF Writes
<1> QED
  BY <1>8, <1>9, <1>10, <1>11, <1>12, <1>13 DEF TimesInv

\* The program starts again: it goes on waiting with what the file leaves it.
LEMMA RestartStep ==
    ASSUME TimesInv, Restart
    PROVE  TimesInv'
<1>1. /\ TypeOK /\ Phases /\ m \in Machine /\ file \in File /\ Safe(file)
      /\ m.phase = "DOWN" /\ m.saves = <<>> /\ ~m.inWCB /\ ~m.triggered /\ ~m.ringing
      /\ m.redialTimer = Stopped
      /\ clock \in Int /\ waitedIdle \in Nat /\ config.autoAnswer \in Nat
      /\ file.remaining \in Nat /\ file.enter \in Int /\ file.remaining <= config.autoAnswer
  BY ConfigFacts DEF Restart, TimesInv, TypeOK, File, Writes, Phases, Safe
<1> DEFINE x == [m EXCEPT !.phase = "OFF", !.remaining = file.remaining, !.enter = file.enter]
           y == SetExitWCBTime([x EXCEPT !.inWCB = TRUE])
           z == IF y.remaining = 0 THEN EnterOff(y) ELSE EnterWCB(y)
<1>2. /\ UNCHANGED <<config, clock, file, timeout, time, ghosts, disturbed, bounds>>
      /\ file.state = "WCB" => m' = z /\ Notified(z, z.phase)
      /\ file.state # "WCB" => m' = x /\ callback' = callback
  BY DEF Restart, Notified
<1>3. /\ waitedIdle' = waitedIdle /\ waitedAll' = waitedAll /\ clock' = clock
      /\ config' = config /\ file' = file /\ disturbed' = disturbed
  BY <1>2 DEF ghosts
<1>4. Safe(file)'
  BY <1>1, <1>3 DEF Safe, LeftIn
<1>5. CASE file.state # "WCB"
  <2>1. m' = [m EXCEPT !.phase = "OFF", !.remaining = file.remaining, !.enter = file.enter]
    BY <1>2, <1>5
  <2>2. m' \in Machine
    BY <1>1, <2>1, Literals DEF Machine
  <2>3. /\ m'.phase = "OFF" /\ m'.saves = <<>> /\ ~m'.inWCB /\ ~m'.triggered /\ ~m'.ringing
        /\ m'.callTimer = m.callTimer /\ m'.redialTimer = m.redialTimer
        /\ m'.remaining = file.remaining
    BY <1>1, <2>1 DEF Machine
  <2>4. TypeOK'
    BY <1>1, <1>2, <1>5, <2>2, <2>3 DEF TypeOK, ghosts, bounds
  <2>5. Phases'
    BY <1>1, <1>2, <1>5, <2>3 DEF Phases
  <2>6. Budget' /\ TimerRuns' /\ Exact' /\ Dials'
    BY <1>3, <2>3 DEF TimesInv, Budget, TimerRuns, Exact, Dials, Waiting
  <2>7. Agrees(file)'
    BY <1>3, <1>5, <2>3 DEF Agrees, Waiting
  <2>8. Len(m'.saves) = 0
    BY <2>3
  <2>9. Writes'
    BY <1>4, <2>7, <2>8 DEF Writes
  <2>10. QED
    BY <2>4, <2>5, <2>6, <2>9 DEF TimesInv
<1>6. CASE file.state = "WCB"
  <2>1. PICK left \in Nat : left = LeftIn(file) /\ left <= file.remaining
    <3>1. LeftIn(file) \in Nat /\ LeftIn(file) <= file.remaining
      BY <1>1 DEF LeftIn, MaxOf
    <3>2. QED
      BY <3>1
  <2>2. /\ "back" \notin disturbed => waitedIdle + left <= config.autoAnswer
        /\ disturbed = {} => left = MaxOf(config.autoAnswer - waitedAll, 0)
        /\ left <= config.autoAnswer
    BY <1>1, <1>6, <2>1 DEF TimesInv, Exact, Safe
  <2> DEFINE s1 == Saving("remaining", left)
             s2 == Saving("enter", clock)
             off == Saving("state", "OFF")
             wcb == Saving("state", "WCB")
  <2>3. s1 \in Save /\ s2 \in Save /\ off \in Save /\ wcb \in Save
    BY <1>1, SavingTypes
  <2> HIDE DEF s1, s2, off, wcb
  <2>4. /\ Append(<<>>, s1) = <<s1>> /\ Append(<<s1>>, off) = <<s1, off>>
        /\ Append(<<s1>>, s2) = <<s1, s2>> /\ Append(<<s1, s2>>, wcb) = <<s1, s2, wcb>>
        /\ <<s1>> \in Seq(Save) /\ <<s1, off>> \in Seq(Save)
    <3>1. Append(<<>>, s1) = <<s1>> /\ Append(<<s1>>, off) = <<s1, off>>
      BY <2>3, Appended
    <3>2. Append(<<s1>>, s2) = <<s1, s2>> /\ Append(<<s1, s2>>, wcb) = <<s1, s2, wcb>>
      BY <2>3, Appended
    <3>3. <<s1>> \in Seq(Save) /\ <<s1, off>> \in Seq(Save)
      BY <2>3, Literals
    <3>4. QED
      BY <3>1, <3>2, <3>3
  <2>5. PICK w : w = [m EXCEPT !.phase = "OFF", !.remaining = file.remaining,
                               !.enter = file.enter, !.inWCB = TRUE]
    OBVIOUS
  <2>6. /\ w \in Machine /\ w.saves = <<>> /\ w.remaining = file.remaining
        /\ w.enter = file.enter /\ [x EXCEPT !.inWCB = TRUE] = w
    BY <1>1, <2>5, Literals DEF Machine
  <2>7. PICK v : v = [m EXCEPT !.phase = "OFF", !.remaining = left, !.enter = file.enter,
                               !.inWCB = TRUE, !.saves = <<s1>>]
    OBVIOUS
  <2>8. /\ v \in Machine /\ v.remaining = left /\ v.inWCB /\ v.saves = <<s1>>
        /\ ~v.triggered /\ ~v.ringing /\ v.redialTimer = Stopped
    BY <1>1, <2>4, <2>7, Literals DEF Machine
  <2>9. y = v
    <3>1. LeftIn(w) = left
      BY <2>1, <2>6 DEF LeftIn
    <3>2. w.remaining <= config.autoAnswer
      BY <1>1, <2>6
    <3>3. SetExitWCBTime(w) = [w EXCEPT !.remaining = left, !.saves = <<s1>>]
      <4>1. SetExitWCBTime(w) = [w EXCEPT !.remaining = LeftIn(w),
                                   !.saves = Append(w.saves, Saving("remaining", LeftIn(w)))]
        BY <1>1, <2>6, <3>2, ExitOf
      <4>2. Append(w.saves, Saving("remaining", left)) = <<s1>>
        BY <2>4, <2>6 DEF s1
      <4>3. QED
        BY <3>1, <4>1, <4>2
    <3>4. [w EXCEPT !.remaining = left, !.saves = <<s1>>] = v
      BY <1>1, <2>5, <2>7 DEF Machine
    <3>5. QED
      BY <2>6, <3>3, <3>4
  <2>10. m' = (IF left = 0 THEN EnterOff(v) ELSE EnterWCB(v))
    BY <1>2, <1>6, <2>8, <2>9
  <2>11. PICK f1 \in File : f1 = [file EXCEPT !.remaining = left]
    BY <1>1 DEF File
  <2>12. f1.state = "WCB" /\ f1.enter = file.enter /\ f1.remaining = left
    BY <1>1, <1>6, <2>11 DEF File
  <2>13. Safe(f1)'
    <3>1. LeftIn(f1) <= left /\ LeftIn(f1) \in Nat
      BY <1>1, <2>12 DEF LeftIn, MaxOf
    <3>2. QED
      BY <1>1, <1>3, <2>2, <2>12, <3>1 DEF Safe, LeftIn
  <2>14. CASE left = 0
    <3>1. m' = [v EXCEPT !.phase = "OFF", !.triggered = FALSE, !.ringing = FALSE,
                         !.inWCB = FALSE, !.callTimer = Stopped, !.saves = <<s1, off>>]
      <4>1. m' = [v EXCEPT !.phase = "OFF", !.triggered = FALSE, !.ringing = FALSE,
                  !.inWCB = FALSE, !.callTimer = Stopped, !.saves = Append(v.saves, off)]
        BY <2>8, <2>10, <2>14 DEF EnterOff, SaveItem, Saving, off, Machine
      <4>2. QED
        BY <2>4, <2>8, <4>1
    <3>2. m' \in Machine
      BY <2>4, <2>8, <3>1, Literals DEF Machine
    <3>3. /\ m'.phase = "OFF" /\ ~m'.triggered /\ ~m'.ringing /\ ~m'.inWCB
          /\ m'.callTimer = Stopped /\ m'.redialTimer = Stopped /\ m'.remaining = left
          /\ m'.saves = <<s1, off>>
      BY <2>8, <3>1 DEF Machine
    <3>4. callback' = Stopped
      BY <1>2, <1>6, <3>3 DEF Notified
    <3>5. TypeOK'
      BY <1>1, <1>2, <2>2, <3>2, <3>3, <3>4 DEF TypeOK, ghosts, bounds, Stopped
    <3>6. Phases'
      BY <1>1, <1>2, <3>3, <3>4 DEF Phases, Stopped
    <3>7. Budget' /\ TimerRuns' /\ Exact' /\ Dials'
      BY <1>3, <3>3 DEF TimesInv, Budget, TimerRuns, Exact, Dials, Waiting
    <3>8. Writes'
      <4>1. PICK f2 \in File : f2 = [f1 EXCEPT !.state = "OFF"]
        BY <2>11 DEF File
      <4>2. f2.state = "OFF" /\ f2.remaining = left
        BY <2>11, <2>12, <4>1 DEF File
      <4>3. Saved1' = f1
        BY <1>1, <1>3, <2>11, <3>3, SavedItems DEF Saved1, s1
      <4>4. Saved2' = f2
        BY <3>3, <4>1, <4>3, SavedItems DEF Saved2, off
      <4>5. Safe(f2)' /\ Agrees(f2)'
        BY <1>3, <2>2, <3>3, <4>2 DEF Safe, Agrees, Waiting
      <4>6. Len(m'.saves) = 2
        BY <3>3
      <4>7. QED
        BY <1>4, <2>13, <4>3, <4>4, <4>5, <4>6 DEF Writes
    <3>9. QED
      BY <3>5, <3>6, <3>7, <3>8 DEF TimesInv
  <2>15. CASE left # 0
    <3>1. PICK n : n = EnterWCB(v)
      OBVIOUS
    <3>2. m' = n
      BY <2>10, <2>15, <3>1
    <3>3. /\ n \in Machine /\ n.callTimer = Stopped /\ n.redialTimer = Stopped
          /\ n.enter = clock /\ n.remaining = left /\ n.phase = "WCB" /\ n.inWCB
          /\ n.saves = EntrySaves(v, left, "WCB") /\ ~n.triggered /\ ~n.ringing
      <4>1. left = RemainingOnEntry(v)
        BY <2>8 DEF RemainingOnEntry
      <4>2. QED
        BY <1>1, <2>8, <2>15, <3>1, <4>1, EnterWCBFields
    <3>4. n.saves = <<s1, s2, wcb>>
      BY <2>4, <2>8, <3>3 DEF EntrySaves, s2, wcb
    <3>5. callback' = left
      BY <1>2, <1>6, <3>2, <3>3 DEF Notified, NotifiedTime
    <3>6. TypeOK'
      BY <1>1, <1>2, <2>2, <3>2, <3>3, <3>5 DEF TypeOK, ghosts, bounds
    <3>7. Phases'
      BY <1>1, <1>2, <3>2, <3>3, <3>4, <3>5 DEF Phases, Stopped
    <3>8. Waiting' /\ LeftNow' = left /\ Left' = left
      BY <1>1, <1>3, <3>2, <3>3 DEF Waiting, LeftNow, LeftIn, Left, MaxOf
    <3>9. Budget' /\ TimerRuns' /\ Exact'
      BY <1>1, <1>3, <2>2, <3>2, <3>3, <3>5, <3>8 DEF Budget, TimerRuns, Exact, Stopped
    <3>10. Dials'
      BY <3>2, <3>3 DEF Dials
    <3>11. Writes'
      <4>1. PICK f2 \in File : f2 = [f1 EXCEPT !.enter = clock]
        BY <1>1, <2>11 DEF File
      <4>2. PICK f3 \in File : f3 = [f2 EXCEPT !.state = "WCB"]
        BY <4>1 DEF File
      <4>3. /\ f2.state = "WCB" /\ f2.remaining = left /\ f2.enter = clock
            /\ f3.state = "WCB" /\ f3.remaining = left /\ f3.enter = clock
        BY <2>11, <2>12, <4>1, <4>2 DEF File
      <4>4. Saved1' = f1
        BY <1>1, <1>3, <2>11, <3>2, <3>4, SavedItems DEF Saved1, s1
      <4>5. Saved2' = f2
        BY <1>1, <3>2, <3>4, <4>1, <4>4, SavedItems DEF Saved2, s2
      <4>6. Saved3' = f3
        BY <3>2, <3>4, <4>2, <4>5, SavedItems DEF Saved3, wcb
      <4>7. Safe(f2)' /\ Safe(f3)'
        BY <1>1, <1>3, <2>2, <4>3 DEF Safe, LeftIn, MaxOf
      <4>8. Agrees(f3)'
        BY <3>2, <3>3, <3>8, <4>3 DEF Agrees
      <4>9. Len(m'.saves) = 3
        BY <3>2, <3>4
      <4>10. QED
        BY <1>4, <2>13, <4>4, <4>5, <4>6, <4>7, <4>8, <4>9 DEF Writes
    <3>12. QED
      BY <3>6, <3>7, <3>9, <3>10, <3>11 DEF TimesInv
  <2>16. QED
    BY <2>14, <2>15
<1> QED
  BY <1>5, <1>6

\* No call has been made, and the file tells of none.
LEMMA InitTimes ==
    ASSUME Init
    PROVE  TimesInv
<1>1. /\ config \in Configs /\ clock = MaxTime
      /\ m = [phase |-> "OFF", triggered |-> FALSE, ringing |-> FALSE, inWCB |-> FALSE,
              remaining |-> 0, enter |-> 0, attempts |-> 0, stage |-> "OFF",
              firstDial |-> 0, callTimer |-> Stopped, redialTimer |-> Stopped,
              saves |-> <<>>]
      /\ file = [state |-> "OFF", remaining |-> 0, enter |-> 0]
      /\ callback = Stopped /\ timeout = "none" /\ disturbed = {}
      /\ time = 0 /\ sinceFirst = 0 /\ waitedIdle = 0 /\ waitedAll = 0
      /\ crashes = 0 /\ clockSets = 0 /\ triggers = 0
  BY DEF Init
<1>2. config.autoAnswer \in Nat /\ MaxTime \in Int
  BY <1>1, TimesAssumption DEF Config
<1>3. m \in Machine
  BY <1>1, Literals DEF Machine
<1>4. /\ m.phase = "OFF" /\ ~m.inWCB /\ m.saves = <<>> /\ m.callTimer = Stopped
      /\ m.redialTimer = Stopped /\ m.remaining = 0 /\ ~m.triggered /\ ~m.ringing
  BY <1>1
<1>5. TypeOK
  BY <1>1, <1>2, <1>3, <1>4 DEF TypeOK, Stopped
<1>6. Phases
  BY <1>1, <1>4 DEF Phases, Stopped
<1>7. Budget /\ TimerRuns /\ Exact /\ Dials
  BY <1>1, <1>2, <1>4 DEF Budget, TimerRuns, Exact, Dials, Waiting
<1>8. Writes
  BY <1>1, <1>2, <1>4 DEF Writes, Safe, Agrees, Waiting
<1> QED
  BY <1>5, <1>6, <1>7, <1>8 DEF TimesInv

\* A stutter changes nothing the invariant speaks of.
LEMMA StutterTimes ==
    ASSUME TimesInv, UNCHANGED vars
    PROVE  TimesInv'
<1>1. /\ UNCHANGED <<config, clock, m, file, callback, timeout, time, disturbed>>
      /\ UNCHANGED ghosts /\ UNCHANGED bounds
  BY DEF vars
<1>2. TypeOK' /\ Phases'
  BY <1>1 DEF TimesInv, TypeOK, Phases, ghosts, bounds
<1>3. Budget' /\ TimerRuns' /\ Exact'
  BY <1>1 DEF TimesInv, Budget, TimerRuns, Exact, ClockSet, LeftNow, LeftIn, Left, Waiting, ghosts
<1>4. Writes'
  BY <1>1 DEF TimesInv, Writes, Saved1, Saved2, Saved3, Safe, Agrees, LeftIn, Waiting, ghosts
<1>5. Dials'
  <2>1. Interval' = Interval /\ (Roomy' <=> Roomy)
    BY <1>1 DEF Interval, Roomy
  <2>2. QED
    BY <1>1, <2>1 DEF TimesInv, Dials, ClockSet, ghosts
<1> QED
  BY <1>2, <1>3, <1>4, <1>5 DEF TimesInv

\* The invariant is kept by every handler, write, crash, restart and passing of time.
LEMMA NextTimes ==
    ASSUME TimesInv, [Next]_vars
    PROVE  TimesInv'
<1>1. CASE Handlers
  <2>1. CASE StartCall
    BY <2>1, StartCallStep
  <2>2. CASE CallConnected
    BY <2>2, CallConnectedStep
  <2>3. CASE MsdDone
    BY <2>3, MsdDoneStep
  <2>4. CASE CallLost
    BY <2>4, CallLostStep
  <2>5. CASE RedialTimeout
    BY <2>5, RedialTimeoutStep
  <2>6. CASE CallEnds
    BY <2>6, CallEndsStep
  <2>7. CASE PsapCalls
    BY <2>7, PsapCallsStep
  <2>8. CASE CallbackActive
    BY <2>8, CallbackActiveStep
  <2>9. CASE CallbackEnd
    BY <2>9, CallbackEndStep
  <2>10. CASE ManualTriggerInWCB
    BY <2>10, ManualTriggerInWCBStep
  <2>11. CASE CancelInWCB
    BY <2>11, CancelInWCBStep
  <2>12. CASE NewCallInWCB
    BY <2>12, NewCallInWCBStep
  <2>13. CASE CallBackTimeout
    BY <2>13, CallBackTimeoutStep
  <2>14. QED
    BY <1>1, <2>1, <2>2, <2>3, <2>4, <2>5, <2>6, <2>7, <2>8, <2>9, <2>10, <2>11, <2>12, <2>13
       DEF Handlers
<1>2. CASE WriteFile
  BY <1>2, WriteFileStep
<1>3. CASE Crash
  BY <1>3, CrashStep
<1>4. CASE Restart
  BY <1>4, RestartStep
<1>5. CASE CallbackTimerFires
  BY <1>5, CallbackTimerFiresStep
<1>6. CASE Tick
  BY <1>6, TickStep
<1>7. CASE SetClock
  BY <1>7, SetClockStep
<1>8. CASE UNCHANGED vars
  BY <1>8, StutterTimes
<1> QED
  BY <1>1, <1>2, <1>3, <1>4, <1>5, <1>6, <1>7, <1>8 DEF Next

-----------------------------------------------------------------------------
(* The theorems.                                                           *)

\* The times known to the machine, to the file and to the receiver's timer, and
\* the true times, keep to each other as the invariant says, for every
\* configuration and any number of restarts and changes of the clock.
THEOREM TimesInductive == Spec => []TimesInv
<1>1. Init => TimesInv
  BY InitTimes
<1>2. TimesInv /\ [Next]_vars => TimesInv'
  BY NextTimes
<1> QED
  BY <1>1, <1>2, PTL DEF Spec

\* The variables have their types.
THEOREM TimesTypeOK == Spec => []TypeOK
<1>1. TimesInv => TypeOK
  BY DEF TimesInv
<1> QED
  BY <1>1, TimesInductive, PTL

\* Calls of the PSAP, cancelled triggers and restarts do not give the machine more
\* time for callbacks than configured, if the clock is not set back.
THEOREM BudgetKept == Spec => []NotRearmed
<1>1. TimesInv => NotRearmed
  BY DEF TimesInv, Budget, NotRearmed
<1> QED
  BY <1>1, TimesInductive, PTL

\* What is left is the configured time less the time waited, to the second, over
\* restarts too.
THEOREM LeftExact == Spec => []TimeExact
<1>1. TimesInv => TimeExact
  <2>1. SUFFICES ASSUME TimesInv, disturbed = {}, m.inWCB
                 PROVE  MaxOf(Left, 0) = MaxOf(config.autoAnswer - waitedAll, 0)
    BY DEF TimeExact
  <2>2. LeftNow = MaxOf(config.autoAnswer - waitedAll, 0)
    BY <2>1 DEF TimesInv, Exact
  <2>3. m.remaining \in Nat /\ m.enter \in Int /\ clock \in Int
    BY <2>1 DEF TimesInv, TypeOK, Machine
  <2>4. Waiting => m.enter <= clock
    BY <2>1 DEF TimesInv, Budget
  <2>5. MaxOf(Left, 0) = LeftNow
    BY <2>3, <2>4 DEF Left, LeftNow, LeftIn, Waiting, MaxOf
  <2>6. QED
    BY <2>2, <2>5
<1> QED
  BY <1>1, TimesInductive, PTL

\* While the machine waits, the receiver's timer runs to the very second at which
\* the time that is left is over.
THEOREM TimerKept == Spec => []TimerAgrees
<1>1. TimesInv => TimerAgrees
  BY DEF TimesInv, TimerRuns, Budget, Waiting, ClockSet, TimerAgrees
<1> QED
  BY <1>1, TimesInductive, PTL

\* The attempts to dial keep to the intervals, whatever the duration, their number
\* and the delay.
THEOREM DialsKept == Spec => []DialsSpaced
<1>1. TimesInv => DialsSpaced
  <2>1. SUFFICES ASSUME TimesInv, m.phase = "CALL", m.stage = "CALL", ~ClockSet
                 PROVE  /\ sinceFirst >= MinOf(Interval * (m.attempts - 1), config.duration)
                        /\ Roomy => sinceFirst <= Interval * m.attempts
    BY DEF DialsSpaced, ClockSet
  <2>2. /\ sinceFirst \in Nat /\ Interval \in Nat /\ m.attempts \in Nat
        /\ m.callTimer \in Int /\ m.redialTimer \in Int
    BY <2>1, IntervalFacts DEF TimesInv, TypeOK, Machine
  <2>3. /\ m.redialTimer = Stopped => m.callTimer >= 0
        /\ m.redialTimer # Stopped => m.redialTimer >= 0
    BY <2>1, <2>2 DEF TimesInv, Phases, Stopped
  <2> DEFINE after == Interval * m.attempts
  <2>4. after \in Int
    BY <2>2
  <2>5. /\ sinceFirst >= MinOf(Interval * (m.attempts - 1), config.duration)
        /\ Roomy /\ m.redialTimer = Stopped => sinceFirst + m.callTimer <= after
        /\ Roomy /\ m.redialTimer # Stopped => sinceFirst + m.redialTimer <= after
    BY <2>1 DEF TimesInv, Dials
  <2> HIDE DEF after
  <2>6. Roomy => sinceFirst <= after
    BY <2>2, <2>3, <2>4, <2>5
  <2>7. QED
    BY <2>5, <2>6 DEF after
<1> QED
  BY <1>1, TimesInductive, PTL
=============================================================================
