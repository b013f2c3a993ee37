---------------------------- MODULE DiagStateArq ----------------------------
(***************************************************************************)
(* The stop-and-wait ARQ with which CxCallCmd keeps the MCU's copy of a    *)
(* diagnostic state up to date.  The program runs two of them: one for     *)
(* XXCALL_STATE (XCALL_SET_DIAG_STATE) and one for XCALL_DRIVING           *)
(* (SOC_SERVICE_SET_DIAG_STATE); they differ in the constants below.       *)
(*                                                                         *)
(* One thread takes commands from cmd_queue.  A sent frame stays in the    *)
(* wait queue of the command handler until its reply or its timeout has    *)
(* been handled.  The UART to the MCU and back is FIFO and may lose or     *)
(* delay frames; the MCU may restart and then asks for a synchronisation.  *)
(***************************************************************************)
EXTENDS Integers, Sequences

CONSTANTS
    Value,              \* the values of the diagnostic state
    InitValue,          \* XXCALL_STATE_OFF, XCALL_DRIVING_NOT_READY
    NoState,            \* the MCU has received no state since it started
    SNModulus,          \* serial numbers are uint8_t: 256 in the code
    InitSN,             \* serial number of Out and Current at start
    SyncsAtStart,       \* run() queues a NEED_SYNC before its loop
    SyncsOnRequest,     \* MCU_REQ_SYNC_DIAG_STATE is handled for this state
    RequestsArrive,     \* the UART does not lose the requests of the MCU
    MaxUpdates, MaxRestarts, \* bounds of the model: the environment's actions,
    MaxQueue            \* and the length of each queue it appends to

SerialNumber == 0..(SNModulus - 1)
Frame == [sn : SerialNumber, value : Value]

ASSUME ArqAssumption ==
    /\ NoState \notin Frame
    /\ InitValue \in Value
    /\ SNModulus \in Nat \ {0}
    /\ InitSN \in 0..(SNModulus - 1)
    /\ SyncsAtStart \in BOOLEAN
    /\ SyncsOnRequest \in BOOLEAN
    /\ RequestsArrive \in BOOLEAN
    /\ MaxUpdates \in Nat /\ MaxRestarts \in Nat /\ MaxQueue \in Nat

VARIABLES
    arqIn,      \* xCallStateArqIn: the last frame the MCU acknowledged
    arqOut,     \* xCallStateArqOut: the frame being sent
    arqCurrent, \* xCallStateArqCurrent: the newest state
    waiting,    \* entry of the wait queue: none, armed, or its timer has fired
    cmd_queue,  \* commands for the command thread
    toMcu,      \* frames on their way to the MCU
    fromMcu,    \* replies and requests on their way back
    mcu,        \* the frame the MCU holds
    updates, restarts   \* how often the environment acted, for the bounds

vars == <<arqIn, arqOut, arqCurrent, waiting, cmd_queue, toMcu, fromMcu, mcu,
          updates, restarts>>

Update(v)  == [cmd |-> "UPDATE", value |-> v]
Reply(f)   == [cmd |-> "REPLY", frame |-> f]
NeedSync   == [cmd |-> "NEED_SYNC"]
Timeout    == [cmd |-> "TIMEOUT"]
McuRequest == [cmd |-> "MCU_REQ_SYNC"]

FromMcuMessage == {Reply(f) : f \in Frame} \cup {McuRequest}
Command == {Update(v) : v \in Value} \cup FromMcuMessage \cup {NeedSync, Timeout}

TypeOK ==
    /\ arqIn \in Frame /\ arqOut \in Frame /\ arqCurrent \in Frame
    /\ waiting \in {"none", "armed", "expired"}
    /\ cmd_queue \in Seq(Command)
    /\ toMcu \in Seq(Frame)
    /\ fromMcu \in Seq(FromMcuMessage)
    /\ mcu \in Frame \cup {NoState}
    /\ updates \in Nat /\ restarts \in Nat

InitFrame == [sn |-> InitSN, value |-> InitValue]

Init ==
    /\ arqIn = [sn |-> SNModulus - 1, value |-> InitValue]
    /\ arqOut = InitFrame
    /\ arqCurrent = InitFrame
    /\ waiting = "none"
    /\ cmd_queue = IF SyncsAtStart THEN <<NeedSync>> ELSE <<>>
    /\ toMcu = <<>>
    /\ fromMcu = <<>>
    /\ mcu = NoState
    /\ updates = 0
    /\ restarts = 0

-----------------------------------------------------------------------------
(* Faulty variants of the definitions below, for the mutation runs.        *)

\* The serial number is not cut to its width.
NextSNUnbounded == arqOut.sn + 1

\* Out follows Current before it has been acknowledged.
SyncUnacknowledged(cur) ==
    IF waiting # "none"
    THEN UNCHANGED <<arqOut, waiting, toMcu>>
    ELSE arqOut' = cur /\ toMcu' = Append(toMcu, arqOut') /\ waiting' = "armed"

\* Any reply is taken for the acknowledgement of Out.
ReceiveAnyAck(f) ==
    /\ arqIn' = arqOut
    /\ cmd_queue' = IF arqCurrent # arqOut THEN Append(Tail(cmd_queue), NeedSync)
                                           ELSE Tail(cmd_queue)
    /\ waiting' = "none"

\* An acknowledgement does not start the synchronisation of a newer state.
ReceiveAckOnly(f) ==
    /\ arqIn' = f
    /\ cmd_queue' = Tail(cmd_queue)
    /\ waiting' = IF f = arqOut THEN "none" ELSE waiting

\* A timeout is only taken out of the wait queue.
ExecTimeoutOnly ==
    /\ cmd_queue # <<>> /\ Head(cmd_queue) = Timeout
    /\ cmd_queue' = Tail(cmd_queue)
    /\ waiting' = "none"
    /\ UNCHANGED <<arqIn, arqOut, arqCurrent, toMcu, fromMcu, mcu, updates, restarts>>

-----------------------------------------------------------------------------
(* The command thread.  Each action takes the head of cmd_queue.           *)

Takes(c) == cmd_queue # <<>> /\ Head(cmd_queue) = c

\* Current gets the serial number after that of Out, a uint8_t.
NextSN == (arqOut.sn + 1) % SNModulus

\* syncDiagXCallStateStopAndWaitArq, for the newest state cur: moves Out on
\* to it when Out has been acknowledged, and sends Out unless a send is
\* already waiting for its reply.
Sync(cur) ==
    IF waiting # "none"
    THEN UNCHANGED <<arqOut, waiting, toMcu>>
    ELSE /\ arqOut' = IF arqOut = arqIn THEN cur ELSE arqOut
         /\ toMcu' = Append(toMcu, arqOut')
         /\ waiting' = "armed"

ExecUpdate == \E v \in Value :
    /\ Takes(Update(v))
    /\ cmd_queue' = Tail(cmd_queue)
    /\ IF v = arqCurrent.value
       THEN UNCHANGED <<arqOut, arqCurrent, waiting, toMcu>>
       ELSE /\ arqCurrent' = [sn |-> NextSN, value |-> v]
            /\ Sync(arqCurrent')
    /\ UNCHANGED <<arqIn, fromMcu, mcu, updates, restarts>>

ExecNeedSync ==
    /\ Takes(NeedSync)
    /\ cmd_queue' = Tail(cmd_queue)
    /\ Sync(arqCurrent)
    /\ UNCHANGED <<arqIn, arqCurrent, fromMcu, mcu, updates, restarts>>

ExecMcuRequest ==
    /\ Takes(McuRequest)
    /\ cmd_queue' = Tail(cmd_queue)
    /\ IF SyncsOnRequest THEN Sync(arqCurrent) ELSE UNCHANGED <<arqOut, waiting, toMcu>>
    /\ UNCHANGED <<arqIn, arqCurrent, fromMcu, mcu, updates, restarts>>

\* receiveAckDiagXCallStateStopAndWaitArq: only the acknowledgement of Out takes
\* the entry out of the wait queue.
ReceiveAck(f) ==
    /\ arqIn' = f
    /\ cmd_queue' = IF f = arqOut /\ arqCurrent # arqOut
                    THEN Append(Tail(cmd_queue), NeedSync)
                    ELSE Tail(cmd_queue)
    /\ waiting' = IF f = arqOut THEN "none" ELSE waiting

\* execReply: a reply to a command that is not in the wait queue is ignored.
ExecReply == \E f \in Frame :
    /\ Takes(Reply(f))
    /\ IF waiting = "none"
       THEN cmd_queue' = Tail(cmd_queue) /\ UNCHANGED <<arqIn, waiting>>
       ELSE ReceiveAck(f)
    /\ UNCHANGED <<arqOut, arqCurrent, toMcu, fromMcu, mcu, updates, restarts>>

\* execTimeout: matches the entry of the command, also one sent after the
\* timer of an earlier entry had fired.
ExecTimeout ==
    /\ Takes(Timeout)
    /\ IF waiting = "none"
       THEN cmd_queue' = Tail(cmd_queue)
       ELSE cmd_queue' = Append(Tail(cmd_queue), NeedSync)
    /\ waiting' = "none"
    /\ UNCHANGED <<arqIn, arqOut, arqCurrent, toMcu, fromMcu, mcu, updates, restarts>>

CommandThread ==
    ExecUpdate \/ ExecNeedSync \/ ExecMcuRequest \/ ExecReply \/ ExecTimeout

-----------------------------------------------------------------------------
(* The rest of the system.                                                 *)

HasRoom == Len(cmd_queue) < MaxQueue

\* updateDiagXCallState, called by the xCall machine on other threads.
UpdateDiagState(v) ==
    /\ updates < MaxUpdates /\ HasRoom
    /\ cmd_queue' = Append(cmd_queue, Update(v))
    /\ updates' = updates + 1
    /\ UNCHANGED <<arqIn, arqOut, arqCurrent, waiting, toMcu, fromMcu, mcu, restarts>>

\* The two seconds of the entry in the wait queue are over.
TimerFires ==
    /\ waiting = "armed" /\ HasRoom /\ Len(toMcu) < MaxQueue
    /\ waiting' = "expired"
    /\ cmd_queue' = Append(cmd_queue, Timeout)
    /\ UNCHANGED <<arqIn, arqOut, arqCurrent, toMcu, fromMcu, mcu, updates, restarts>>

\* The MCU stores a frame and answers with the same serial number and value.
McuReceives ==
    /\ toMcu # <<>> /\ Len(fromMcu) < MaxQueue
    /\ mcu' = Head(toMcu)
    /\ toMcu' = Tail(toMcu)
    /\ fromMcu' = Append(fromMcu, Reply(Head(toMcu)))
    /\ UNCHANGED <<arqIn, arqOut, arqCurrent, waiting, cmd_queue, updates, restarts>>

ReplyArrives ==
    /\ fromMcu # <<>> /\ HasRoom
    /\ cmd_queue' = Append(cmd_queue, Head(fromMcu))
    /\ fromMcu' = Tail(fromMcu)
    /\ UNCHANGED <<arqIn, arqOut, arqCurrent, waiting, toMcu, mcu, updates, restarts>>

LoseFrame ==
    /\ toMcu # <<>>
    /\ toMcu' = Tail(toMcu)
    /\ UNCHANGED <<arqIn, arqOut, arqCurrent, waiting, cmd_queue, fromMcu, mcu,
                   updates, restarts>>

\* A reply, or a request, which the MCU does not repeat: for the liveness
\* properties requests arrive.
LoseReply ==
    /\ fromMcu # <<>>
    /\ RequestsArrive => Head(fromMcu) # McuRequest
    /\ fromMcu' = Tail(fromMcu)
    /\ UNCHANGED <<arqIn, arqOut, arqCurrent, waiting, cmd_queue, toMcu, mcu,
                   updates, restarts>>

McuRestarts ==
    /\ restarts < MaxRestarts /\ Len(fromMcu) < MaxQueue
    /\ mcu' = NoState
    /\ fromMcu' = Append(fromMcu, McuRequest)
    /\ restarts' = restarts + 1
    /\ UNCHANGED <<arqIn, arqOut, arqCurrent, waiting, cmd_queue, toMcu, updates>>

Environment ==
    \/ \E v \in Value : UpdateDiagState(v)
    \/ TimerFires
    \/ McuReceives \/ ReplyArrives
    \/ LoseFrame \/ LoseReply
    \/ McuRestarts

Next == CommandThread \/ Environment

Spec == Init /\ [][Next]_vars

\* The command thread polls its queue every 200 ms and the handler's timers
\* run; a frame or reply that is sent again and again gets through.
Fairness ==
    /\ WF_vars(CommandThread)
    /\ WF_vars(TimerFires)
    /\ SF_vars(McuReceives)
    /\ SF_vars(ReplyArrives)

\* "2 sec, because Uart send and ack normal less than 0.5 sec": in the long run
\* the timer of a send fires only when the frame or its reply has been lost.
\* (Without it every reply may come just after its timeout, for ever.)
ReplyUnderWay ==
    \/ toMcu # <<>> \/ fromMcu # <<>>
    \/ \E i \in DOMAIN cmd_queue : cmd_queue[i].cmd = "REPLY"
TimelyReplies == <>[][TimerFires => ~ReplyUnderWay]_vars

FairSpec == Spec /\ Fairness /\ TimelyReplies

-----------------------------------------------------------------------------
(* Properties.                                                             *)

\* What the manager takes for synchronised is what a running MCU holds: an
\* acknowledgement that is late, repeated or belongs to an earlier frame never
\* makes receiveAckDiagXCallStateStopAndWaitArq believe in a delivery.
AckedIsDelivered == arqIn = arqOut /\ mcu # NoState => mcu = arqOut

\* Out leaves a frame only after the MCU has received it: no published state
\* is skipped and a running MCU lags by at most one publication.
Abstract == INSTANCE DiagStateSync
    WITH source <- arqCurrent, published <- arqOut, replica <- mcu
ImplementsSync == Abstract!Spec

\* The chain of frames from the one last acknowledged over the replies under
\* way and the MCU's copy to the frames under way: once Out, only Out follows,
\* and all frames that are not Out are the one frame before it.
RepliesAreOut(q) ==
    \A i \in DOMAIN q : q[i].cmd = "REPLY" => q[i].frame = arqOut
OutStaysOut(q) ==
    \A i, j \in DOMAIN q : i < j /\ q[i] = Reply(arqOut) /\ q[j].cmd = "REPLY"
                             => q[j].frame = arqOut
McuSideIsOut ==
    /\ mcu \in {arqOut, NoState}
    /\ \A i \in DOMAIN toMcu : toMcu[i] = arqOut

PipelineInv ==
    /\ arqIn = arqOut =>
          RepliesAreOut(cmd_queue) /\ RepliesAreOut(fromMcu) /\ McuSideIsOut
    /\ OutStaysOut(cmd_queue)
    /\ (\E i \in DOMAIN cmd_queue : cmd_queue[i] = Reply(arqOut)) =>
          RepliesAreOut(fromMcu) /\ McuSideIsOut
    /\ OutStaysOut(fromMcu)
    /\ (\E i \in DOMAIN fromMcu : fromMcu[i] = Reply(arqOut)) => McuSideIsOut
    /\ mcu = arqOut => \A i \in DOMAIN toMcu : toMcu[i] = arqOut
    /\ \A i, j \in DOMAIN toMcu : i < j /\ toMcu[i] = arqOut => toMcu[j] = arqOut
    /\ \A i, j \in DOMAIN toMcu :
          toMcu[i] # arqOut /\ toMcu[j] # arqOut => toMcu[i] = toMcu[j]
    /\ mcu \notin {arqOut, NoState} =>
          \A i \in DOMAIN toMcu : toMcu[i] \in {arqOut, mcu}

\* Once the updates and restarts are over, the MCU holds the newest state for
\* good, whatever was lost, also when a request of the MCU met a send that was
\* still waiting and was dropped.
StateConverges == <>[](mcu = arqCurrent)

\* The same for a state that is not sent before its first change.
ChangeReachesMcu == <>[](arqCurrent # InitFrame => mcu = arqCurrent)
=============================================================================
