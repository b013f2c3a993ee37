---------------------------- MODULE EventRecords ----------------------------
(***************************************************************************)
(* The records in the log file of an eCall session, CeCallEventLog.        *)
(*                                                                         *)
(* Records are collected in dynamicEvents, and after each of them the file *)
(* is written anew from its first byte with all that has been collected.   *)
(* Two threads do so: the handlers, one at a time under the mutex of the   *)
(* updateEvent delegate, and the callback of the period timer, without it. *)
(* An update takes three steps, between which the other thread may act:    *)
(* collect_event, the text made of dynamicEvents, store.                   *)
(*                                                                         *)
(* The machine starts a session with each dial, after it has notified the  *)
(* state DIAL of the call.  Records are abstracted to what the properties  *)
(* tell apart.  What an update compares and sets before it collects is one *)
(* step.  Names, rotation and expiry of the files are in EventLog.         *)
(***************************************************************************)
EXTENDS Integers, SequencesExt

CONSTANTS
    CallStates,     \* what PSAP_CALL_STATE reports
    MsdStates,      \* what MSD_TRANSMISSION_STATE reports
    NetworkStates,  \* Enum_Registration_state
    Cells,          \* the cells the modem may report
    MaxSessions,    \* bounds of the model: sessions, and records collected
    MaxRecords      \* in each of them

ASSUME RecordsAssumption ==
    /\ "DIAL" \in CallStates /\ "" \notin CallStates
    /\ "" \notin NetworkStates /\ "" \notin Cells
    /\ MaxSessions \in Nat \ {0} /\ MaxRecords \in Nat

Thread  == {"handler", "period"}
Network == (NetworkStates \cup {""}) \X (Cells \cup {""})
Value   == Network \cup ((CallStates \cup MsdStates) \X {""})
Record  == [session : 1..MaxSessions, value : Value,
            kind : {"initial", "network", "call", "msd", "event", "position", "end"}]
None    == <<"", "">>

VARIABLES
    events,     \* dynamicEvents
    file,       \* the file of the latest session: its records, and those in
                \* the longest text ever written to it, which gives its length
    session,    \* m_SessionState
    id,         \* m_sessionId
    network,    \* CellularNetworkLog: state and cell
    call,       \* PSAPCallLog: state
    msd,        \* MSDTransmissionLog: state
    timer,      \* m_informTimer
    step,       \* where each thread is in its update
    pending,    \* the record it collects
    text,       \* what it stores
    then,       \* what the handler does after its update
    dialled,    \* the machine has notified DIAL, and starts a session next
    alone,      \* ghost: the other thread has not been updating meanwhile
    clean,      \* ghost: the last store was of an update that was alone
    lost,       \* ghost: a record collected in the session has been lost
    msdBefore   \* ghost: msd when the session started

msdVars == <<msd, msdBefore>>
threadVars == <<step, pending, text, then>>
ghosts == <<alone, clean, lost>>
vars == <<events, file, session, id, network, call, msdVars, timer, threadVars,
          dialled, ghosts>>

NoFile == [records |-> <<>>, extent |-> <<>>]
NoRecord == [session |-> 1, value |-> None, kind |-> "event"]

Init ==
    /\ events = <<>> /\ file = NoFile /\ session = "STOP" /\ id = 0
    /\ network = None /\ call = "" /\ msd = "" /\ msdBefore = ""
    /\ timer = "off"
    /\ step = [t \in Thread |-> "idle"]
    /\ pending = [t \in Thread |-> NoRecord]
    /\ text = [t \in Thread |-> <<>>]
    /\ then = "return" /\ dialled = FALSE
    /\ alone = [t \in Thread |-> TRUE] /\ clean = TRUE /\ lost = FALSE

-----------------------------------------------------------------------------
(* updateEventLog: collect_event and update                                *)

Updating(t) == step[t] \in {"collect", "write", "store"}
Other(t) == CHOOSE u \in Thread : u # t

\* An update begins with a record.
Begin(t, kind, value) ==
    /\ kind = "end" \/ Len(events) < MaxRecords
    /\ step' = [step EXCEPT ![t] = "collect"]
    /\ pending' = [pending EXCEPT ![t] =
                      [session |-> id, value |-> value, kind |-> kind]]
    /\ alone' = IF Updating(Other(t)) THEN [u \in Thread |-> FALSE]
                ELSE [alone EXCEPT ![t] = TRUE]
    /\ UNCHANGED <<text, clean, lost>>

\* Two threads that append to the vector at the same time may write the same
\* element: one of the records is lost.
Collect(t) ==
    /\ step[t] = "collect"
    /\ events' = Append(events, pending[t])
    /\ \/ step' = [step EXCEPT ![t] = "write"] /\ UNCHANGED lost
       \/ /\ step[Other(t)] = "collect"
          /\ step' = [u \in Thread |-> "write"]
          /\ lost' = TRUE
    /\ UNCHANGED <<file, session, id, network, call, msdVars, timer, pending,
                   text, then, dialled, alone, clean>>

\* Variant of the code: the text is made of what had been collected before.
WriteBefore(t) ==
    /\ step[t] = "write"
    /\ text' = [text EXCEPT ![t] = SelectSeq(events, LAMBDA r : r # pending[t])]
    /\ step' = [step EXCEPT ![t] = "store"]
    /\ UNCHANGED <<events, file, session, id, network, call, msdVars, timer,
                   pending, then, dialled, ghosts>>

Write(t) ==
    /\ step[t] = "write"
    /\ text' = [text EXCEPT ![t] = events]
    /\ step' = [step EXCEPT ![t] = "store"]
    /\ UNCHANGED <<events, file, session, id, network, call, msdVars, timer,
                   pending, then, dialled, ghosts>>

\* A text overwrites the old one and leaves what is longer of it.
Overwritten(f, records) ==
    [records |-> records,
     extent |-> IF IsPrefix(f.extent, records) THEN records ELSE f.extent]

NextStep(t) ==
    CASE t = "handler" /\ then # "return" -> "stopping"
      [] t = "period" /\ pending[t].kind = "network" -> "position"
      [] OTHER -> "idle"

Store(t) ==
    /\ step[t] = "store"
    /\ file' = Overwritten(file, text[t])
    /\ clean' = alone[t]
    /\ text' = [text EXCEPT ![t] = <<>>]
    /\ step' = [step EXCEPT ![t] = NextStep(t)]
    /\ UNCHANGED <<events, session, id, network, call, msdVars, timer, pending,
                   then, dialled, alone, lost>>

\* getCellNetworkCellData: none if the modem answers without a registered cell;
\* if it does not answer the cell known is kept, which is one of these too.
ReportedCells == Cells \cup {""}

-----------------------------------------------------------------------------
(* The events the handlers handle.  Those of the machine come on its       *)
(* thread, which is between two of them while dialled is set.              *)

Free == step["handler"] = "idle"
MachineFree == Free /\ ~dialled

\* A state other than the one known is recorded, within a session.
RecordChange(kind, state, known) ==
    /\ then' = "return"
    /\ IF state # known /\ session = "START" THEN Begin("handler", kind, <<state, "">>)
       ELSE UNCHANGED <<step, pending, text, ghosts>>

\* Variant of the code: states are ignored, not only unrecorded, out of a session.
SetCallInSession(state) ==
    /\ call' = IF session = "START" THEN state ELSE call
    /\ RecordChange("call", state, call)

\* updatePSAPCallState: the state is remembered if there is no session too.
SetCall(state) ==
    /\ call' = state
    /\ RecordChange("call", state, call)

\* Variant of the code: a change is not recorded while the other thread writes.
SetMsdUnlessBusy(state) ==
    /\ msd' = state
    /\ RecordChange("msd", state, IF Updating("period") THEN state ELSE msd)

\* updateMsdTransmissionState: neither a dial nor the start of a session resets
\* what is remembered, so that a state reported again is not recorded again.
SetMsd(state) ==
    /\ msd' = state
    /\ RecordChange("msd", state, msd)

CallReported ==
    /\ MachineFree
    /\ \E state \in CallStates \ {"DIAL"} : SetCall(state)
    /\ UNCHANGED <<events, file, session, id, network, msdVars, timer, dialled>>

MsdReported ==
    /\ MachineFree
    /\ \E state \in MsdStates : SetMsd(state)
    /\ UNCHANGED <<events, file, session, id, network, call, msdBefore, timer,
                   dialled>>

\* enterECallStateECallCall: DIAL, and ecall_make_fast_ecall after it.
Dial ==
    /\ MachineFree /\ id < MaxSessions
    /\ SetCall("DIAL")
    /\ dialled' = TRUE
    /\ UNCHANGED <<events, file, session, id, network, msdVars, timer>>

\* updateCellularNetworkState: a new state, and the cell if the modem knows it.
NetworkReported ==
    /\ MachineFree
    /\ \E state \in NetworkStates \ {network[1]}, cell \in ReportedCells :
          /\ network' = <<state, cell>>
          /\ then' = "return"
          /\ IF session = "START" THEN Begin("handler", "network", <<state, cell>>)
             ELSE UNCHANGED <<step, pending, text, ghosts>>
    /\ UNCHANGED <<events, file, session, id, call, msdVars, timer, dialled>>

\* A crash, the power, the vehicle, or another state of the session.
EventReported ==
    /\ Free /\ session = "START"
    /\ then' = "return"
    /\ Begin("handler", "event", None)
    /\ UNCHANGED <<events, file, session, id, network, call, msdVars, timer,
                   dialled>>

-----------------------------------------------------------------------------
(* Sessions                                                                *)

\* startSession: no period timer runs, and no other handler.
StartSession(cell) ==
    LET initial == [session |-> id + 1, value |-> <<network[1], cell>>, kind |-> "initial"]
    IN  /\ id' = id + 1
        /\ network' = <<network[1], cell>>
        /\ events' = <<initial>>
        /\ file' = Overwritten(NoFile, <<initial>>)
        /\ timer' = "armed" /\ session' = "START"
        /\ clean' = TRUE /\ lost' = FALSE /\ msdBefore' = msd

\* updateECallSessionStateStarted, after the dial.
SessionStarted ==
    /\ Free /\ dialled
    /\ dialled' = FALSE
    /\ \/ /\ session = "STOP"
          /\ \E cell \in ReportedCells : StartSession(cell)
          /\ UNCHANGED <<call, msd, threadVars, alone>>
       \/ /\ session = "START"
          /\ then' = "restart"
          /\ Begin("handler", "end", None)
          /\ UNCHANGED <<events, file, session, id, network, call, msdVars, timer>>

\* Variant of the code: the session ends before its end is recorded.
SessionStoppedFirst ==
    /\ MachineFree
    /\ then' = "end"
    /\ step' = [step EXCEPT !["handler"] = "stopping"]
    /\ UNCHANGED <<events, file, session, id, network, call, msdVars, timer,
                   dialled, pending, text, ghosts>>

\* endSession up to stopPeriodTimer.
SessionStopped ==
    /\ MachineFree
    /\ then' = "end"
    /\ IF session = "START" THEN Begin("handler", "end", None)
       ELSE /\ step' = [step EXCEPT !["handler"] = "stopping"]
            /\ UNCHANGED <<pending, text, ghosts>>
    /\ UNCHANGED <<events, file, session, id, network, call, msdVars, timer,
                   dialled>>

\* The rest of endSession, once the callback of the timer has returned, and
\* startSession if there is a new call.
EndSession ==
    /\ step' = [step EXCEPT !["handler"] = "idle"]
    /\ then' = "return"
    /\ \/ /\ then = "end"
          /\ session' = "STOP" /\ timer' = "off"
          /\ UNCHANGED <<events, file, id, network, clean, lost, msdBefore>>
       \/ /\ then = "restart"
          /\ \E cell \in ReportedCells : StartSession(cell)
    /\ UNCHANGED <<call, msd, pending, text, dialled, alone>>

\* Variants of the code: the timer is not stopped, or stop does not wait for
\* the callback.
PeriodTimerLeft ==
    /\ step["handler"] = "stopping" /\ step["period"] = "idle" /\ then = "end"
    /\ session' = "STOP" /\ step' = [step EXCEPT !["handler"] = "idle"]
    /\ then' = "return"
    /\ UNCHANGED <<events, file, id, network, call, msdVars, timer, pending,
                   text, dialled, ghosts>>

PeriodTimerNotAwaited == step["handler"] = "stopping" /\ EndSession

PeriodTimerStopped ==
    /\ step["handler"] = "stopping" /\ step["period"] = "idle"
    /\ EndSession

-----------------------------------------------------------------------------
(* The callback of the period timer: TimeOut                               *)

\* Variant of the code: a new cell is set but not recorded.
CellUnrecorded(cell) ==
    /\ network' = <<network[1], cell>>
    /\ step' = [step EXCEPT !["period"] = "position"]
    /\ UNCHANGED <<pending, text, ghosts>>

\* updateCellData(true)
UpdateCellData(cell) ==
    /\ network' = <<network[1], cell>>
    /\ IF cell # network[2] THEN Begin("period", "network", <<network[1], cell>>)
       ELSE /\ step' = [step EXCEPT !["period"] = "position"]
            /\ UNCHANGED <<pending, text, ghosts>>

PeriodTimerFires ==
    /\ timer = "armed" /\ step["period"] = "idle"
    /\ step["handler"] # "stopping" /\ session = "START"
    /\ \E cell \in ReportedCells : UpdateCellData(cell)
    /\ UNCHANGED <<events, file, session, id, call, msdVars, timer, then, dialled>>

\* updateGnssData
UpdateGnssData ==
    /\ step["period"] = "position"
    /\ \/ Begin("period", "position", None)
       \/ /\ step' = [step EXCEPT !["period"] = "idle"]
          /\ UNCHANGED <<pending, text, ghosts>>
    /\ UNCHANGED <<events, file, session, id, network, call, msdVars, timer,
                   then, dialled>>

\* The program is started again, or stopped by what the two threads did to the
\* vector.  The number of the session is saved, the file is left as it is.
Restart ==
    /\ events' = <<>> /\ file' = NoFile /\ session' = "STOP" /\ UNCHANGED id
    /\ network' = None /\ call' = "" /\ msd' = "" /\ msdBefore' = "" /\ timer' = "off"
    /\ step' = [t \in Thread |-> "idle"]
    /\ pending' = [t \in Thread |-> NoRecord]
    /\ text' = [t \in Thread |-> <<>>]
    /\ then' = "return" /\ dialled' = FALSE
    /\ alone' = [t \in Thread |-> TRUE] /\ clean' = TRUE /\ lost' = FALSE

Next ==
    \/ CallReported \/ MsdReported \/ Dial \/ NetworkReported \/ EventReported
    \/ SessionStarted \/ SessionStopped \/ PeriodTimerStopped
    \/ PeriodTimerFires \/ UpdateGnssData \/ Restart
    \/ \E t \in Thread : Collect(t) \/ Write(t) \/ Store(t)

Spec == Init /\ [][Next]_vars

-----------------------------------------------------------------------------

\* Every variable has its type.
TypeOK ==
    /\ events \in Seq(Record)
    /\ file.records \in Seq(Record) /\ file.extent \in Seq(Record)
    /\ session \in {"STOP", "START"} /\ id \in 0..MaxSessions
    /\ network \in Network /\ call \in CallStates \cup {""}
    /\ msd \in MsdStates \cup {""} /\ msdBefore \in MsdStates \cup {""}
    /\ timer = IF session = "START" THEN "armed" ELSE "off"
    /\ step \in [Thread -> {"idle", "collect", "write", "store", "stopping", "position"}]
    /\ pending \in [Thread -> Record] /\ text \in [Thread -> Seq(Record)]
    /\ then \in {"return", "end", "restart"} /\ dialled \in BOOLEAN
    /\ alone \in [Thread -> BOOLEAN] /\ clean \in BOOLEAN /\ lost \in BOOLEAN

\* A session's file holds records of that session only, also where the periodic
\* update and the end of the session before it meet.
SessionPure ==
    session = "START" =>
        /\ \A i \in DOMAIN events : events[i].session = id
        /\ \A i \in DOMAIN file.records : file.records[i].session = id
        /\ \A i \in DOMAIN file.extent : file.extent[i].session = id

Quiet == \A t \in Thread : ~Updating(t)

\* When nothing is being written the file holds all records collected, and no
\* remains of another text, if the last update was alone.  So what two updates
\* at the same time do to the file is repaired by the next one that is alone,
\* but for records they have lost.
FileComplete == Quiet /\ clean => file.records = events /\ file.extent = events

\* The state of the network and the cell the program knows are in the file: no
\* change goes unrecorded, neither one that the periodic update has found, nor
\* one from before the session.  They need not be in the last such record: the
\* two threads may collect theirs in the other order.
NetworkTold ==
    Quiet /\ clean /\ ~lost /\ session = "START"
        => \E i \in DOMAIN file.records :
              /\ file.records[i].kind \in {"initial", "network"}
              /\ file.records[i].value = network

\* The last record of a kind is of the state, which has not changed from the one
\* before if there is none.
LastTells(kind, state, before) ==
    LET told == {i \in DOMAIN file.records : file.records[i].kind = kind}
    IN  IF told = {} THEN state = before
        ELSE \E i \in told : /\ file.records[i].value = <<state, "">>
                             /\ \A j \in told : j <= i

\* The last record of PSAP_CALL_STATE tells the state of the call.  The dial
\* itself is missing in the file of its session, since it comes before the
\* session's start: a call without a record has been dialled and nothing else.
CallTold ==
    Quiet /\ clean /\ ~lost /\ session = "START" => LastTells("call", call, "DIAL")

\* The last record of MSD_TRANSMISSION_STATE tells the state of the MSD, but only
\* with what was known before the session: that state may have been reported in
\* the session too, and is not in its file, if it is the one the session before
\* has left.
MsdTold ==
    Quiet /\ clean /\ ~lost /\ session = "START" => LastTells("msd", msd, msdBefore)

\* A session that has ended has its end recorded.
EndTold ==
    session = "STOP" /\ clean /\ ~lost /\ file.records # <<>>
        => \E i \in DOMAIN file.records : file.records[i].kind = "end"
=============================================================================
