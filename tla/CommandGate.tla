---------------------------- MODULE CommandGate ----------------------------
(***************************************************************************)
(* The command thread of CxCallCmd: which commands are executed, which are *)
(* dropped, and which wait until the eCall process (the "NEE") is          *)
(* connected; and the diagnosis' routine control, which the same thread    *)
(* answers from two flags.                                                 *)
(*                                                                         *)
(* Senders append commands to CHD.cmd_queue; the thread takes them one by  *)
(* one.  While the link to the eCall process is down, commands of an aCall *)
(* are parked in waitECallConnectedCmdQueue; the report that the link is   *)
(* up is itself a command, and moves them back to the end of cmd_queue.    *)
(* Commands carry the number of their acceptance, which the program does   *)
(* not keep: the properties speak of it.                                   *)
(***************************************************************************)
EXTENDS Integers, Sequences, FiniteSets

CONSTANTS
    Traffics,       \* sets of kinds of commands that come in one behaviour
    MaxCommands,    \* bounds of the model: commands accepted, and, apart from
    MaxReports      \* them, reports about the link to the eCall process

ACallButtons  == {"aPress", "aShortPress"}  \* aPress: BTN_PRESS, BTN_RELEASE
ACallTriggers == {"aTrigger", "aRecovery"}  \* long press, manual, auto; RECOVERY_*
ECallButtons  == {"ePress"}                 \* BTN_PRESS, BTN_RELEASE, BTN_SHORT_PRESS
ECallTriggers == {"eLongPress"}
ACallGated    == ACallButtons \cup ACallTriggers
ECallGated    == ECallButtons \cup ECallTriggers
RoutineStarts == {"startXCall", "startBoth", "startOther"}  \* by the bits selected
LinkReports   == {"connected", "disconnected"}
\* passedOn: every other command that its handler passes on as it is
Plain         == {"hwChanged", "dtcChanged", "result", "passedOn"} \cup RoutineStarts
Kind          == ACallGated \cup ECallGated \cup Plain \cup LinkReports

NeedSupport == {"aPress", "aTrigger"}       \* the list in can_be_exec

ASSUME GateAssumption ==
    /\ Traffics \subseteq SUBSET Kind
    /\ MaxCommands \in Nat /\ MaxReports \in Nat

Cmd     == [id : Nat \ {0}, kind : Kind]
Outcome == {"executed", "consumed", "dropped"}

VARIABLES
    cmd_queue,      \* CHD.cmd_queue
    parked,         \* waitECallConnectedCmdQueue
    connected,      \* mIsECallConnected
    aCallSupported, \* isAcallSupported() and isEcallSupported() of the
    eCallSupported, \* hardware validator
    needResponse,   \* isNeedToResponseForXCallDriving
    drivingResult,  \* xCallDrivingResult
    traffic,        \* the kinds of commands that come
    accepted, reports,  \* ghosts: commands accepted, link reports among them
    settled,        \* ghost: with its outcome, each command in the order the thread was done with it
    announced,      \* ghost: ids with ACALL_TRIGGERED_PENDING_NEE put for them
    linkUps,        \* ghost: number of each executed "connected", and commands
                    \* accepted by then
    routine         \* ghost: answers to the latest start and to result requests

gateVars == <<parked, connected, aCallSupported, eCallSupported, linkUps, announced>>
routineVars == <<needResponse, drivingResult, routine>>
vars == <<cmd_queue, gateVars, routineVars, traffic, accepted, reports, settled>>

TypeOK ==
    /\ cmd_queue \in Seq(Cmd) /\ parked \in Seq([id : Nat \ {0}, kind : ACallGated])
    /\ connected \in BOOLEAN
    /\ aCallSupported \in BOOLEAN /\ eCallSupported \in BOOLEAN
    /\ needResponse \in BOOLEAN /\ drivingResult \in BOOLEAN
    /\ traffic \in Traffics
    /\ accepted \in Nat /\ reports \in Nat
    /\ settled \in Seq([id : Nat \ {0}, kind : Kind, outcome : Outcome])
    /\ announced \subseteq Nat
    /\ linkUps \subseteq [id : Nat, accepted : Nat]
    /\ routine \in [start : {"none", "positive", "NRC22", "NRC24"},
                    cancelPut : BOOLEAN,
                    result : {"none", "completed", "failed"}]

NoRoutine == [start |-> "none", cancelPut |-> FALSE, result |-> "none"]

Init ==
    /\ cmd_queue = <<>> /\ parked = <<>>
    /\ connected = FALSE
    /\ aCallSupported \in BOOLEAN /\ eCallSupported \in BOOLEAN
    /\ needResponse = FALSE /\ drivingResult = FALSE
    /\ traffic \in Traffics
    /\ accepted = 0 /\ reports = 0
    /\ settled = <<>> /\ announced = {} /\ linkUps = {}
    /\ routine = NoRoutine

-----------------------------------------------------------------------------
(* Other components put a command into cmd_queue.                          *)
Accept(kind) ==
    /\ IF kind \in LinkReports
       THEN reports < MaxReports /\ reports' = reports + 1
       ELSE accepted - reports < MaxCommands /\ UNCHANGED reports
    /\ accepted' = accepted + 1
    /\ cmd_queue' = Append(cmd_queue, [id |-> accepted + 1, kind |-> kind])
    /\ UNCHANGED <<gateVars, routineVars, traffic, settled>>

-----------------------------------------------------------------------------
(* The command thread.                                                     *)
HasNext == cmd_queue # <<>>
Front   == Head(cmd_queue)

Settle(outcome) ==
    settled' = Append(settled, [id |-> Front.id, kind |-> Front.kind, outcome |-> outcome])

(* checkNeedCoverNEENotReadySituation                                      *)
NeedsCover ==
    /\ ~connected
    /\ \/ Front.kind \in ACallGated /\ aCallSupported
       \/ Front.kind \in ECallGated /\ eCallSupported

CanBeExec == aCallSupported \/ Front.kind \notin NeedSupport

Passes == HasNext /\ ~NeedsCover /\ CanBeExec

(* putStringToStateQ(BCALL_FLOW_ACALL_TRIGGERED_PENDING_NEE); whether an   *)
(* aCall could be triggered is the answer of the aCall's machine.          *)
Announce ==
    \E canTrigger \in BOOLEAN :
        announced' = IF Front.kind \in ACallTriggers /\ canTrigger
                     THEN announced \cup {Front.id} ELSE announced

(* What the end of cmd_queue gets when the link comes up.                  *)
FirstParked == IF parked = <<>> THEN <<>> ELSE <<Head(parked)>>
MovedBack   == parked

InFront(cmd) == <<cmd>> \o parked
Parked(cmd)  == Append(parked, cmd)

(* Variants of the code, for the sensitivity of the properties: a parked   *)
(* command is executed as well, or announced and forgotten as an eCall is; *)
(* or an eCall's is parked like an aCall's.                                *)
ParkAndForward ==
    /\ HasNext /\ NeedsCover /\ Front.kind \in ACallGated
    /\ parked' = Parked(Front) /\ Announce /\ Settle("executed")
    /\ cmd_queue' = Tail(cmd_queue)
    /\ UNCHANGED <<connected, aCallSupported, eCallSupported, linkUps,
                   routineVars, traffic, accepted, reports>>

ConsumeACall ==
    /\ HasNext /\ NeedsCover /\ Front.kind \in ACallGated
    /\ Settle("consumed") /\ Announce
    /\ cmd_queue' = Tail(cmd_queue)
    /\ UNCHANGED <<parked, connected, aCallSupported, eCallSupported, linkUps,
                   routineVars, traffic, accepted, reports>>

ParkECall ==
    /\ HasNext /\ NeedsCover /\ Front.kind \in ECallGated
    /\ parked' = Parked(Front)
    /\ cmd_queue' = Tail(cmd_queue)
    /\ UNCHANGED <<connected, aCallSupported, eCallSupported, linkUps, announced,
                   settled, routineVars, traffic, accepted, reports>>

(* checkNeedCoverNEENotReadySituationACall                                 *)
ParkACall ==
    /\ HasNext /\ NeedsCover /\ Front.kind \in ACallGated
    /\ parked' = Parked(Front)
    /\ Announce
    /\ cmd_queue' = Tail(cmd_queue)
    /\ UNCHANGED <<connected, aCallSupported, eCallSupported, linkUps, settled,
                   routineVars, traffic, accepted, reports>>

(* checkNeedCoverNEENotReadySituationECall: the command goes no further.   *)
ConsumeECall ==
    /\ HasNext /\ NeedsCover /\ Front.kind \in ECallGated
    /\ Settle("consumed")
    /\ cmd_queue' = Tail(cmd_queue)
    /\ UNCHANGED <<gateVars, routineVars, traffic, accepted, reports>>

(* exec_xcall_Cmd leaves out what can_be_exec refuses, and notices of DTCs.*)
Drop ==
    /\ HasNext /\ ~NeedsCover
    /\ ~CanBeExec \/ Front.kind = "dtcChanged"
    /\ Settle("dropped")
    /\ cmd_queue' = Tail(cmd_queue)
    /\ UNCHANGED <<gateVars, routineVars, traffic, accepted, reports>>

(* The handlers that forward a command to the handler thread or to the     *)
(* eCall's button logic.                                                   *)
Forward ==
    /\ Passes /\ Front.kind \in ACallGated \cup ECallGated \cup {"passedOn"}
    /\ Settle("executed")
    /\ cmd_queue' = Tail(cmd_queue)
    /\ UNCHANGED <<gateVars, routineVars, traffic, accepted, reports>>

ECallConnected ==
    /\ Passes /\ Front.kind = "connected"
    /\ connected' = TRUE
    /\ cmd_queue' = Tail(cmd_queue) \o MovedBack
    /\ parked' = SubSeq(parked, Len(MovedBack) + 1, Len(parked))
    /\ linkUps' = linkUps \cup {[id |-> Front.id, accepted |-> accepted]}
    /\ Settle("executed")
    /\ UNCHANGED <<aCallSupported, eCallSupported, announced, routineVars,
                   traffic, accepted, reports>>

ECallDisconnected ==
    /\ Passes /\ Front.kind = "disconnected"
    /\ connected' = FALSE
    /\ Settle("executed")
    /\ cmd_queue' = Tail(cmd_queue)
    /\ UNCHANGED <<parked, aCallSupported, eCallSupported, linkUps, announced,
                   routineVars, traffic, accepted, reports>>

(* checkAcallPushPresence finds out anew whether there is an aCall.        *)
DIDChanged ==
    /\ Passes /\ Front.kind = "hwChanged"
    /\ aCallSupported' \in BOOLEAN
    /\ Settle("executed")
    /\ cmd_queue' = Tail(cmd_queue)
    /\ UNCHANGED <<parked, connected, eCallSupported, linkUps, announced,
                   routineVars, traffic, accepted, reports>>

-----------------------------------------------------------------------------
(* handle_routine_ctl_req.  Bits are active low: xCall is bit 0, the eCall *)
(* bits 1, 4 and 5.  The state of the aCall's machine is read while its    *)
(* own thread may change it: any value.                                    *)
(* The last branch, for a selection that is not the xCall's; the variant   *)
(* leaves the flags of an earlier start as they are.                       *)
KeepFlags  == UNCHANGED <<needResponse, drivingResult>>
ClearFlags == drivingResult' = FALSE /\ needResponse' = FALSE

StartRoutine ==
    /\ Passes /\ Front.kind \in RoutineStarts
    /\ \/ /\ Front.kind = "startXCall"
          /\ \E waitingIdle \in BOOLEAN :
                /\ drivingResult' = waitingIdle
                /\ routine' = [start |-> IF waitingIdle THEN "positive" ELSE "NRC22",
                               cancelPut |-> waitingIdle, result |-> "none"]
          /\ needResponse' = TRUE
       \/ /\ Front.kind = "startBoth"
          /\ drivingResult' = FALSE
          /\ needResponse' = TRUE
          /\ routine' = [NoRoutine EXCEPT !.start = "NRC24"]
       \/ /\ Front.kind = "startOther"
          /\ ClearFlags
          /\ routine' = NoRoutine
    /\ Settle("executed")
    /\ cmd_queue' = Tail(cmd_queue)
    /\ UNCHANGED <<gateVars, traffic, accepted, reports>>

RequestResult ==
    /\ Passes /\ Front.kind = "result"
    /\ routine' = IF needResponse
                  THEN [routine EXCEPT !.result =
                           IF drivingResult THEN "completed" ELSE "failed"]
                  ELSE routine
    /\ Settle("executed")
    /\ cmd_queue' = Tail(cmd_queue)
    /\ UNCHANGED <<gateVars, needResponse, drivingResult, traffic, accepted, reports>>

CommandThread ==
    \/ ParkACall \/ ConsumeECall \/ Drop \/ Forward
    \/ ECallConnected \/ ECallDisconnected \/ DIDChanged
    \/ StartRoutine \/ RequestResult

Next == CommandThread \/ \E kind \in traffic : Accept(kind)

Spec == Init /\ [][Next]_vars

(* The thread runs as long as the program does.                            *)
FairSpec == Spec /\ WF_vars(CommandThread)

-----------------------------------------------------------------------------
(* Once the eCall process is connected no command waits for it: what was   *)
(* parked has been moved back, and nothing is parked any more.             *)
NothingStranded == connected => parked = <<>>

CountIn(q, n) == Cardinality({i \in DOMAIN q : q[i].id = n})

(* Every command accepted is in exactly one place: it waits in cmd_queue,  *)
(* it is parked, or the thread has been done with it once.                 *)
EachOnce ==
    \A n \in 1..accepted :
        CountIn(cmd_queue, n) + CountIn(parked, n) + CountIn(settled, n) = 1

(* A command of the aCall is executed before an earlier one is done with,  *)
(* which was parked, in two ways only.  It was sent after the report that  *)
(* the link is up, and was in cmd_queue already when the parked ones were  *)
(* put behind it; or it does not need the aCall's support, and the aCall   *)
(* was found to be missing meanwhile, so that it is not parked itself.     *)
Overtaking(early, late, before) ==
    \/ \E up \in linkUps :
          early < up.id /\ up.id < late.id /\ late.id <= up.accepted
    \/ /\ late.kind \notin NeedSupport
       /\ \E k \in before : settled[k].kind = "hwChanged" /\ settled[k].id > early

OrderKept ==
    \A i, j \in DOMAIN settled :
        ( /\ i < j /\ settled[j].id < settled[i].id
          /\ {settled[i].kind, settled[j].kind} \subseteq ACallGated
          /\ settled[i].outcome = "executed" )
            => Overtaking(settled[j].id, settled[i], 1..(i - 1))

(* The diagnosis is told that the routine completed only if the start it   *)
(* sent last got a positive answer and queued the cancel of the aCall, and *)
(* that it failed only if that start was refused.                          *)
RoutineAgrees ==
    /\ routine.result = "completed"
          => routine.start = "positive" /\ routine.cancelPut
    /\ routine.result = "failed" => routine.start \in {"NRC22", "NRC24"}

IsSettled(n)  == \E i \in DOMAIN settled : settled[i].id = n
IsExecuted(n) == \E i \in DOMAIN settled : settled[i].id = n /\ settled[i].outcome = "executed"
Id == 1..(MaxCommands + MaxReports)

(* If the link to the eCall process comes up for good in the end, however  *)
(* often it was lost before, every command is handled.                     *)
CommandsSettle ==
    <>[]connected => \A n \in Id : accepted >= n ~> IsSettled(n)

(* An aCall that was announced as pending is then triggered, unless the    *)
(* vehicle turns out to have no aCall.                                     *)
AnnouncedTriggers ==
    ([]aCallSupported /\ <>[]connected)
        => \A n \in Id : n \in announced ~> IsExecuted(n)
=============================================================================
