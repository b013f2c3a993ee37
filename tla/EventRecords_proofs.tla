------------------------ MODULE EventRecords_proofs ------------------------
(***************************************************************************)
(* Proofs about the records of a session, for any number of sessions,      *)
(* records, states and cells.                                              *)
(***************************************************************************)
EXTENDS EventRecords, SequenceTheorems, TLAPS

-----------------------------------------------------------------------------
(* The inductive invariant.                                                *)

\* Updates happen within a session, of which they are; the dial that starts the
\* next session has been notified.
Within ==
    /\ session = "START" => id # 0
    /\ session = "STOP" => step["period"] = "idle" /\ ~Updating("handler")
    /\ step["handler"] # "position" /\ step["period"] # "stopping"
    /\ step["handler"] = "idle" => then = "return"
    /\ dialled => then = "return"
    /\ dialled \/ then = "restart" => id < MaxSessions /\ call = "DIAL"
    /\ \A t \in Thread : Updating(t) => pending[t].session = id
    /\ Updating("period") => pending["period"].kind \in {"network", "position"}
    /\ Updating("handler") /\ then # "return" => pending["handler"].kind = "end"

\* What is stored, or was, is a beginning of what has been collected.
Beginnings ==
    /\ IsPrefix(file.records, events) /\ IsPrefix(file.extent, events)
    /\ \A t \in Thread : step[t] = "store" => IsPrefix(text[t], events)

\* An update that is alone stores all that has been collected.
Lone ==
    /\ \A t \in Thread : Updating(t) /\ alone[t] => ~Updating(Other(t))
    /\ \A t \in Thread : step[t] = "store" /\ alone[t] => text[t] = events

EventsPure ==
    session = "START" => \A i \in DOMAIN events : events[i].session = id

Collecting(t, kind, value) ==
    step[t] = "collect" /\ pending[t].kind = kind /\ pending[t].value = value

\* What is known of the network has been collected, or is being.
NetworkCollected ==
    session = "START" /\ ~lost =>
        \/ \E t \in Thread : Collecting(t, "network", network)
        \/ \E i \in DOMAIN events :
              events[i].kind \in {"initial", "network"} /\ events[i].value = network

\* So have the states of the call and of the MSD, as the last ones of them, if
\* they are not what they were before.
LastIs(s, kind, state, before) ==
    \/ state = before /\ \A i \in DOMAIN s : s[i].kind # kind
    \/ \E i \in DOMAIN s :
          /\ s[i].kind = kind /\ s[i].value = <<state, "">>
          /\ \A j \in DOMAIN s : s[j].kind = kind => j <= i

ChangeCollected(kind, state, before) ==
    IF step["handler"] = "collect" /\ pending["handler"].kind = kind
    THEN pending["handler"].value = <<state, "">>
    ELSE LastIs(events, kind, state, before)

CallCollected ==
    session = "START" /\ ~lost => ChangeCollected("call", call, "DIAL")

MsdCollected ==
    session = "START" /\ ~lost => ChangeCollected("msd", msd, msdBefore)

\* A session that is to end has the record of its end.
EndCollected ==
    (/\ session = "START" /\ ~lost /\ then # "return"
     /\ step["handler"] \in {"write", "store", "stopping"})
        => \E i \in DOMAIN events : events[i].kind = "end"

RecordsInv ==
    /\ TypeOK
    /\ Within
    /\ Beginnings
    /\ Lone
    /\ FileComplete
    /\ EventsPure
    /\ NetworkCollected
    /\ CallCollected
    /\ MsdCollected
    /\ EndCollected
    /\ EndTold

-----------------------------------------------------------------------------
(* Threads and beginnings of sequences.                                    *)

\* There are two threads.
LEMMA OtherThread ==
    /\ Thread = {"handler", "period"}
    /\ Other("handler") = "period" /\ Other("period") = "handler"
BY DEF Thread, Other

\* A sequence begins with itself.
LEMMA PrefixSelf ==
    ASSUME NEW S, NEW s \in Seq(S)
    PROVE  IsPrefix(s, s)
BY LenProperties DEF IsPrefix

\* Every sequence begins with nothing.
LEMMA PrefixEmpty ==
    ASSUME NEW S, NEW s \in Seq(S)
    PROVE  IsPrefix(<<>>, s)
<1>1. SubSeq(<<>>, 1, 0) = <<>> /\ SubSeq(s, 1, 0) = <<>>
  BY SubSeqEmpty
<1> QED
  BY <1>1, LenProperties, EmptySeq DEF IsPrefix

\* A beginning of a sequence is no longer, and has the same elements.
LEMMA PrefixElements ==
    ASSUME NEW S, NEW s \in Seq(S), NEW t \in Seq(S)
    PROVE  IsPrefix(s, t) <=> Len(s) <= Len(t) /\ \A i \in 1..Len(s) : s[i] = t[i]
<1>1. Len(s) \in Nat /\ Len(t) \in Nat
  BY LenProperties
<1>2. SubSeq(s, 1, Len(s)) = s
  BY SubSeqFull
<1>3. ASSUME Len(s) <= Len(t)
      PROVE  LET u == SubSeq(t, 1, Len(s))
             IN  u \in Seq(S) /\ Len(u) = Len(s) /\ \A i \in 1..Len(s) : u[i] = t[i]
  <2>1. \A i \in 1..Len(s) : t[i] \in S
    BY <1>1, <1>3, ElementOfSeq
  <2>2. QED
    BY <1>1, <2>1, SubSeqProperties
<1>4. CASE Len(s) <= Len(t)
  <2> DEFINE u == SubSeq(t, 1, Len(s))
  <2>1. u \in Seq(S) /\ Len(u) = Len(s) /\ \A i \in 1..Len(s) : u[i] = t[i]
    BY <1>3, <1>4
  <2>2. IsPrefix(s, t) <=> s = u
    BY <1>2, <1>4 DEF IsPrefix
  <2> HIDE DEF u
  <2>3. (\A i \in 1..Len(s) : s[i] = u[i]) => s = u
    BY <2>1, SeqEqual
  <2>4. QED
    BY <1>4, <2>1, <2>2, <2>3
<1>5. CASE ~(Len(s) <= Len(t))
  BY <1>5 DEF IsPrefix
<1> QED
  BY <1>4, <1>5

\* It remains a beginning when something is appended.
LEMMA PrefixAppend ==
    ASSUME NEW S, NEW s \in Seq(S), NEW t \in Seq(S), NEW e \in S, IsPrefix(s, t)
    PROVE  IsPrefix(s, Append(t, e))
<1>1. /\ Append(t, e) \in Seq(S) /\ Len(Append(t, e)) = Len(t) + 1
      /\ \A i \in 1..Len(t) : Append(t, e)[i] = t[i]
  BY AppendProperties
<1>2. Len(s) \in Nat /\ Len(t) \in Nat
  BY LenProperties
<1>3. Len(s) <= Len(t) /\ \A i \in 1..Len(s) : s[i] = t[i]
  BY PrefixElements
<1>4. Len(s) <= Len(t) + 1 /\ \A i \in 1..Len(s) : i \in 1..Len(t)
  BY <1>2, <1>3
<1>5. \A i \in 1..Len(s) : s[i] = Append(t, e)[i]
  BY <1>1, <1>3, <1>4
<1> QED
  BY <1>1, <1>4, <1>5, PrefixElements

-----------------------------------------------------------------------------
(* Types.                                                                  *)

\* A pair is made of its components.
LEMMA Pairs ==
    ASSUME NEW A, NEW B, NEW n \in A \X B
    PROVE  n[1] \in A /\ n[2] \in B /\ n = <<n[1], n[2]>>
OBVIOUS

\* What records are of: states of the network and cells, of the call and the MSD.
LEMMA ValueTypes ==
    /\ None \in Value /\ Network \subseteq Value
    /\ \A state \in CallStates \cup MsdStates : <<state, "">> \in Value
    /\ \A n \in Network : n[1] \in NetworkStates \cup {""} /\ n = <<n[1], n[2]>>
    /\ \A state \in NetworkStates \cup {""}, cell \in ReportedCells : <<state, cell>> \in Network
<1>1. None \in Network /\ Network \subseteq Value
  BY DEF None, Value, Network
<1>2. \A state \in CallStates \cup MsdStates : <<state, "">> \in Value
  BY DEF Value
<1>3. \A n \in Network : n[1] \in NetworkStates \cup {""} /\ n = <<n[1], n[2]>>
  <2> SUFFICES ASSUME NEW n \in Network
               PROVE  n[1] \in NetworkStates \cup {""} /\ n = <<n[1], n[2]>>
    OBVIOUS
  <2> DEFINE A == NetworkStates \cup {""}
             B == Cells \cup {""}
  <2>1. n \in A \X B
    BY DEF Network
  <2> HIDE DEF A, B
  <2>2. n[1] \in A /\ n = <<n[1], n[2]>>
    BY <2>1, Pairs
  <2>3. QED
    BY <2>2 DEF A
<1>4. \A state \in NetworkStates \cup {""}, cell \in ReportedCells : <<state, cell>> \in Network
  BY DEF Network, ReportedCells
<1> QED
  BY <1>1, <1>2, <1>3, <1>4

\* A record that is collected has the type of records.
LEMMA BeginType ==
    ASSUME TypeOK, NEW t \in Thread, NEW value \in Value, id # 0,
           NEW kind \in {"network", "call", "msd", "event", "position", "end"},
           Begin(t, kind, value)
    PROVE  /\ step' = [step EXCEPT ![t] = "collect"]
           /\ pending' \in [Thread -> Record] /\ alone' \in [Thread -> BOOLEAN]
           /\ text' \in [Thread -> Seq(Record)] /\ clean' \in BOOLEAN /\ lost' \in BOOLEAN
<1>0. MaxSessions \in Nat
  BY RecordsAssumption
<1>00. id \in 0..MaxSessions
  BY DEF TypeOK
<1>1. id \in 1..MaxSessions
  BY <1>0, <1>00
<1>2. [session |-> id, value |-> value, kind |-> kind] \in Record
  BY <1>1 DEF Record
<1> QED
  BY <1>2 DEF Begin, TypeOK

\* A state changes, with a record of it within a session.
LEMMA RecordChangeType ==
    ASSUME TypeOK, Within, NEW state \in CallStates \cup MsdStates,
           NEW kind \in {"call", "msd"}, NEW known, RecordChange(kind, state, known)
    PROVE  /\ then' = "return"
           /\ step' \in [Thread -> {"idle", "collect", "write", "store", "stopping", "position"}]
           /\ pending' \in [Thread -> Record] /\ alone' \in [Thread -> BOOLEAN]
           /\ text' \in [Thread -> Seq(Record)] /\ clean' \in BOOLEAN /\ lost' \in BOOLEAN
<1>1. CASE state # known /\ session = "START"
  <2>1. Begin("handler", kind, <<state, "">>) /\ id # 0 /\ <<state, "">> \in Value
    BY <1>1, ValueTypes DEF RecordChange, Within
  <2>2. "handler" \in Thread
    BY DEF Thread
  <2>3. step' = [step EXCEPT !["handler"] = "collect"]
        /\ pending' \in [Thread -> Record] /\ alone' \in [Thread -> BOOLEAN]
        /\ text' \in [Thread -> Seq(Record)] /\ clean' \in BOOLEAN /\ lost' \in BOOLEAN
    BY <2>1, <2>2, BeginType
  <2>4. QED
    BY <2>3 DEF RecordChange, TypeOK
<1>2. CASE ~(state # known /\ session = "START")
  BY <1>2 DEF RecordChange, TypeOK, ghosts
<1> QED
  BY <1>1, <1>2

\* A session's first record.
Initial(cell) ==
    [session |-> id + 1, value |-> <<network[1], cell>>, kind |-> "initial"]

\* What the start of a session sets.
LEMMA StartType ==
    ASSUME TypeOK, id < MaxSessions, NEW cell \in ReportedCells, StartSession(cell)
    PROVE  /\ id' = id + 1 /\ id' \in 0..MaxSessions /\ id' # 0
           /\ events' = <<Initial(cell)>>
           /\ file'.records = <<Initial(cell)>> /\ file'.extent = <<Initial(cell)>>
           /\ Initial(cell) \in Record /\ <<Initial(cell)>> \in Seq(Record)
           /\ network' = <<network[1], cell>> /\ network' \in Network
           /\ timer' = "armed" /\ session' = "START"
           /\ clean' = TRUE /\ lost' = FALSE /\ msdBefore' = msd
<1> DEFINE initial == Initial(cell)
<1>1. id \in 0..MaxSessions /\ MaxSessions \in Nat /\ network \in Network
  BY RecordsAssumption DEF TypeOK
<1>2. id + 1 \in 1..MaxSessions
  BY <1>1
<1>3. <<network[1], cell>> \in Network /\ <<network[1], cell>> \in Value
  BY <1>1, ValueTypes
<1>4. initial \in Record
  BY <1>2, <1>3 DEF Record, Initial
<1>5. <<initial>> \in Seq(Record)
  BY <1>4
<1>6. IsPrefix(<<>>, <<initial>>)
  BY <1>5, PrefixEmpty
<1>7. file'.records = <<initial>> /\ file'.extent = <<initial>>
  BY <1>6 DEF StartSession, Overwritten, NoFile, Initial
<1> QED
  BY <1>1, <1>2, <1>3, <1>4, <1>5, <1>7 DEF StartSession, Initial

Steps == {"idle", "collect", "write", "store", "stopping", "position"}

\* Each action keeps the types.
LEMMA TypeStep ==
    ASSUME TypeOK, Within, [Next]_vars
    PROVE  TypeOK'
<1> USE DEF Thread
<1>0. /\ step \in [Thread -> Steps] /\ pending \in [Thread -> Record]
      /\ events \in Seq(Record) /\ text \in [Thread -> Seq(Record)]
      /\ id \in 0..MaxSessions /\ network \in Network
      /\ MaxSessions \in Nat
      /\ session = "START" => id # 0
  BY RecordsAssumption DEF TypeOK, Within, Steps
<1>1. CASE CallReported
  <2>1. PICK state \in CallStates \ {"DIAL"} : SetCall(state)
    BY <1>1 DEF CallReported
  <2>2. call' \in CallStates /\ RecordChange("call", state, call)
    BY <2>1 DEF SetCall
  <2>3. QED
    BY <1>1, <2>2, RecordChangeType DEF CallReported, TypeOK, msdVars
<1>1b. CASE MsdReported
  <2>1. PICK state \in MsdStates : SetMsd(state)
    BY <1>1b DEF MsdReported
  <2>2. msd' \in MsdStates /\ RecordChange("msd", state, msd)
    BY <2>1 DEF SetMsd
  <2>3. QED
    BY <1>1b, <2>2, RecordChangeType DEF MsdReported, TypeOK, msdVars
<1>2. CASE Dial
  <2>1. "DIAL" \in CallStates /\ call' = "DIAL" /\ RecordChange("call", "DIAL", call)
    BY <1>2, RecordsAssumption DEF Dial, SetCall
  <2>2. QED
    BY <1>2, <2>1, RecordChangeType DEF Dial, TypeOK, msdVars
<1>3. CASE NetworkReported
  <2>1. PICK state \in NetworkStates \ {network[1]}, cell \in ReportedCells :
          /\ network' = <<state, cell>> /\ then' = "return"
          /\ IF session = "START" THEN Begin("handler", "network", <<state, cell>>)
             ELSE UNCHANGED <<step, pending, text, ghosts>>
    BY <1>3 DEF NetworkReported
  <2>2. <<state, cell>> \in Network /\ <<state, cell>> \in Value
    BY ValueTypes
  <2>3. CASE session = "START"
    <3>1. /\ step' = [step EXCEPT !["handler"] = "collect"]
          /\ pending' \in [Thread -> Record] /\ alone' \in [Thread -> BOOLEAN]
          /\ text' \in [Thread -> Seq(Record)] /\ clean' \in BOOLEAN /\ lost' \in BOOLEAN
      BY <1>0, <2>1, <2>2, <2>3, BeginType
    <3>2. QED
      BY <1>3, <2>1, <2>2, <3>1 DEF NetworkReported, TypeOK, msdVars
  <2>4. CASE session # "START"
    BY <1>3, <2>1, <2>2, <2>4 DEF NetworkReported, TypeOK, msdVars, ghosts
  <2>5. QED
    BY <2>3, <2>4
<1>4. CASE EventReported
  <2>1. /\ step' = [step EXCEPT !["handler"] = "collect"]
        /\ pending' \in [Thread -> Record] /\ alone' \in [Thread -> BOOLEAN]
        /\ text' \in [Thread -> Seq(Record)] /\ clean' \in BOOLEAN /\ lost' \in BOOLEAN
    BY <1>0, <1>4, ValueTypes, BeginType DEF EventReported
  <2>2. QED
    BY <1>4, <2>1 DEF EventReported, TypeOK, msdVars
<1>5. CASE SessionStarted
  <2>1. CASE session = "STOP"
    <3>1. PICK cell \in ReportedCells : StartSession(cell)
      BY <1>5, <2>1 DEF SessionStarted
    <3>2. id < MaxSessions
      BY <1>5 DEF SessionStarted, Within
    <3>3. QED
      <4>1. /\ id' \in 0..MaxSessions /\ events' \in Seq(Record)
            /\ file'.records \in Seq(Record) /\ file'.extent \in Seq(Record)
            /\ network' \in Network /\ timer' = "armed" /\ session' = "START"
            /\ clean' = TRUE /\ lost' = FALSE /\ msdBefore' = msd
        BY <1>0, <3>1, <3>2, StartType
      <4>2. /\ dialled' = FALSE /\ UNCHANGED <<call, msd, threadVars, alone>>
        BY <1>5, <2>1 DEF SessionStarted
      <4>3. QED
        BY <4>1, <4>2 DEF TypeOK, msdVars, threadVars
  <2>2. CASE session = "START"
    <3>1. /\ step' = [step EXCEPT !["handler"] = "collect"]
          /\ pending' \in [Thread -> Record] /\ alone' \in [Thread -> BOOLEAN]
          /\ text' \in [Thread -> Seq(Record)] /\ clean' \in BOOLEAN /\ lost' \in BOOLEAN
      BY <1>0, <1>5, <2>2, ValueTypes, BeginType DEF SessionStarted
    <3>2. QED
      BY <1>5, <2>2, <3>1 DEF SessionStarted, TypeOK, msdVars
  <2>3. QED
    BY <2>1, <2>2 DEF TypeOK, msdVars
<1>6. CASE SessionStopped
  <2>1. CASE session = "START"
    <3>1. /\ step' = [step EXCEPT !["handler"] = "collect"]
          /\ pending' \in [Thread -> Record] /\ alone' \in [Thread -> BOOLEAN]
          /\ text' \in [Thread -> Seq(Record)] /\ clean' \in BOOLEAN /\ lost' \in BOOLEAN
      BY <1>0, <1>6, <2>1, ValueTypes, BeginType DEF SessionStopped
    <3>2. QED
      BY <1>6, <3>1 DEF SessionStopped, TypeOK, msdVars
  <2>2. CASE session # "START"
    BY <1>6, <2>2 DEF SessionStopped, TypeOK, msdVars, ghosts
  <2>3. QED
    BY <2>1, <2>2
<1>7. CASE PeriodTimerStopped
  <2>1. CASE then = "end"
    BY <1>7, <2>1 DEF PeriodTimerStopped, EndSession, TypeOK, msdVars
  <2>2. CASE then = "restart"
    <3>1. PICK cell \in ReportedCells : StartSession(cell)
      BY <1>7, <2>2 DEF PeriodTimerStopped, EndSession
    <3>2. id < MaxSessions
      BY <2>2 DEF Within
    <3>3. QED
      <4>1. /\ id' \in 0..MaxSessions /\ events' \in Seq(Record)
            /\ file'.records \in Seq(Record) /\ file'.extent \in Seq(Record)
            /\ network' \in Network /\ timer' = "armed" /\ session' = "START"
            /\ clean' = TRUE /\ lost' = FALSE /\ msdBefore' = msd
        BY <1>0, <3>1, <3>2, StartType
      <4>2. /\ step' = [step EXCEPT !["handler"] = "idle"] /\ then' = "return"
            /\ UNCHANGED <<call, msd, pending, text, dialled, alone>>
        BY <1>7, <2>2 DEF PeriodTimerStopped, EndSession
      <4>3. QED
        BY <4>1, <4>2 DEF TypeOK, msdVars
  <2>3. QED
    BY <1>7, <2>1, <2>2 DEF PeriodTimerStopped, EndSession
<1>8. CASE PeriodTimerFires
  <2>1. PICK cell \in ReportedCells : UpdateCellData(cell)
    BY <1>8 DEF PeriodTimerFires
  <2>2. <<network[1], cell>> \in Network /\ <<network[1], cell>> \in Value
    BY <1>0, ValueTypes
  <2>3. CASE cell # network[2]
    <3>1. /\ step' = [step EXCEPT !["period"] = "collect"]
          /\ pending' \in [Thread -> Record] /\ alone' \in [Thread -> BOOLEAN]
          /\ text' \in [Thread -> Seq(Record)] /\ clean' \in BOOLEAN /\ lost' \in BOOLEAN
      BY <1>0, <1>8, <2>1, <2>2, <2>3, BeginType DEF PeriodTimerFires, UpdateCellData
    <3>2. QED
      BY <1>8, <2>1, <2>2, <3>1 DEF PeriodTimerFires, UpdateCellData, TypeOK, msdVars
  <2>4. CASE cell = network[2]
    BY <1>8, <2>1, <2>2, <2>4 DEF PeriodTimerFires, UpdateCellData, TypeOK, msdVars, ghosts
  <2>5. QED
    BY <2>3, <2>4
<1>9. CASE UpdateGnssData
  <2>1. id # 0
    BY <1>9 DEF UpdateGnssData, Within, TypeOK, msdVars
  <2>2. CASE Begin("period", "position", None)
    <3>1. /\ step' = [step EXCEPT !["period"] = "collect"]
          /\ pending' \in [Thread -> Record] /\ alone' \in [Thread -> BOOLEAN]
          /\ text' \in [Thread -> Seq(Record)] /\ clean' \in BOOLEAN /\ lost' \in BOOLEAN
      BY <2>1, <2>2, ValueTypes, BeginType
    <3>2. QED
      BY <1>9, <3>1 DEF UpdateGnssData, TypeOK, msdVars
  <2>3. CASE ~Begin("period", "position", None)
    BY <1>9, <2>3 DEF UpdateGnssData, TypeOK, msdVars, ghosts
  <2>4. QED
    BY <2>2, <2>3
<1>10. CASE Restart
  <2>0. 1 \in 1..MaxSessions
    <3>1. MaxSessions \in Nat \ {0}
      BY RecordsAssumption
    <3>2. QED
      BY <3>1
  <2>1. NoRecord \in Record /\ <<>> \in Seq(Record)
    BY <2>0, ValueTypes, EmptySeq DEF NoRecord, Record
  <2>2. None \in Network
    BY DEF None, Network
  <2>3. QED
    BY <1>0, <1>10, <2>1, <2>2 DEF Restart, TypeOK, msdVars, NoFile
<1>11. ASSUME NEW t \in Thread, Collect(t) PROVE TypeOK'
  <2>1. Append(events, pending[t]) \in Seq(Record)
    BY <1>0, AppendProperties
  <2>2. step' \in [Thread -> Steps]
    BY <1>0, <1>11 DEF Collect, Steps
  <2>3. QED
    BY <1>11, <2>1, <2>2 DEF Collect, TypeOK, msdVars, Steps
<1>12. ASSUME NEW t \in Thread, Write(t) PROVE TypeOK'
  BY <1>0, <1>12 DEF Write, TypeOK, msdVars, ghosts
<1>13. ASSUME NEW t \in Thread, Store(t) PROVE TypeOK'
  <2>1. step' \in [Thread -> Steps]
    <3>1. NextStep(t) \in Steps
      BY DEF NextStep, Steps
    <3>2. QED
      BY <1>0, <1>13, <3>1 DEF Store
  <2>2. text' \in [Thread -> Seq(Record)]
    BY <1>0, <1>13, EmptySeq DEF Store
  <2>3. file'.records \in Seq(Record) /\ file'.extent \in Seq(Record)
    BY <1>0, <1>13 DEF Store, Overwritten, TypeOK, msdVars
  <2>4. QED
    BY <1>13, <2>1, <2>2, <2>3 DEF Store, TypeOK, msdVars, Steps
<1>14. CASE UNCHANGED vars
  BY <1>14 DEF vars, threadVars, ghosts, TypeOK, msdVars
<1> QED
  BY <1>1, <1>1b, <1>2, <1>3, <1>4, <1>5, <1>6, <1>7, <1>8, <1>9, <1>10, <1>11, <1>12,
     <1>13, <1>14 DEF Next

-----------------------------------------------------------------------------
(* Updates within their sessions.                                          *)

\* What the beginning of an update changes.
LEMMA BeginStep ==
    ASSUME TypeOK, NEW t \in Thread, NEW kind, NEW value, Begin(t, kind, value)
    PROVE  /\ step' = [step EXCEPT ![t] = "collect"]
           /\ pending'[t] = [session |-> id, value |-> value, kind |-> kind]
           /\ \A u \in Thread : u # t => step'[u] = step[u] /\ pending'[u] = pending[u]
           /\ step'[t] = "collect"
           /\ UNCHANGED <<text, clean, lost>>
BY DEF Begin, TypeOK

\* An update begun in a session is of that session.
LEMMA BeginWithin ==
    ASSUME TypeOK, Within, NEW t \in Thread, NEW kind, NEW value, Begin(t, kind, value),
           session = "START", session' = session, id' = id,
           dialled' \/ then' = "restart" => id < MaxSessions /\ call' = "DIAL",
           dialled' => then' = "return",
           t = "period" => kind \in {"network", "position"} /\ then' = then,
           t = "handler" => kind = "end" \/ then' = "return"
    PROVE  Within'
<1>1. /\ "handler" \in Thread /\ "period" \in Thread
      /\ \A u \in Thread : u = "handler" \/ u = "period"
  BY DEF Thread
<1>2. /\ step'[t] = "collect"
      /\ pending'[t] = [session |-> id, value |-> value, kind |-> kind]
      /\ \A u \in Thread : u # t => step'[u] = step[u] /\ pending'[u] = pending[u]
  BY BeginStep
<1>3. CASE t = "handler"
  <2>1. /\ step'["handler"] = "collect" /\ step'["period"] = step["period"]
        /\ pending'["handler"] = [session |-> id, value |-> value, kind |-> kind]
        /\ pending'["period"] = pending["period"]
    BY <1>1, <1>2, <1>3
  <2>2. QED
    BY <1>1, <1>3, <2>1 DEF Within, Updating
<1>4. CASE t = "period"
  <2>1. /\ step'["period"] = "collect" /\ step'["handler"] = step["handler"]
        /\ pending'["period"] = [session |-> id, value |-> value, kind |-> kind]
        /\ pending'["handler"] = pending["handler"]
    BY <1>1, <1>2, <1>4
  <2>2. QED
    BY <1>1, <1>4, <2>1 DEF Within, Updating
<1> QED
  BY <1>1, <1>3, <1>4

\* Updates do not outlive their session: the end of a session waits for both.
LEMMA WithinStep ==
    ASSUME TypeOK, TypeOK', Within, [Next]_vars
    PROVE  Within'
<1> USE DEF Updating
<1>0. /\ step \in [Thread -> Steps] /\ pending \in [Thread -> Record]
      /\ id \in Nat /\ MaxSessions \in Nat /\ session \in {"STOP", "START"}
      /\ "handler" \in Thread /\ "period" \in Thread /\ Thread = {"handler", "period"}
  <2>1. MaxSessions \in Nat \ {0}
    BY RecordsAssumption
  <2>2. id \in 0..MaxSessions
    BY DEF TypeOK
  <2>3. id \in Nat /\ MaxSessions \in Nat
    BY <2>1, <2>2
  <2>4. QED
    BY <2>3 DEF TypeOK, Steps, Thread
<1>1. CASE CallReported
  <2>1. PICK state \in CallStates \ {"DIAL"} : SetCall(state)
    BY <1>1 DEF CallReported
  <2>2. CASE state # call /\ session = "START"
    <3>1. /\ Begin("handler", "call", <<state, "">>) /\ then' = "return" /\ ~dialled'
          /\ UNCHANGED <<session, id>>
      BY <1>1, <2>1, <2>2 DEF SetCall, RecordChange, CallReported, MachineFree
    <3>2. QED
      BY <1>0, <2>2, <3>1, BeginWithin
  <2>3. CASE ~(state # call /\ session = "START")
    BY <1>0, <1>1, <2>1, <2>3 DEF SetCall, RecordChange, CallReported, MachineFree, Free, Within
  <2>4. QED
    BY <2>2, <2>3
<1>1b. CASE MsdReported
  <2>1. PICK state \in MsdStates : SetMsd(state)
    BY <1>1b DEF MsdReported
  <2>2. CASE state # msd /\ session = "START"
    <3>1. /\ Begin("handler", "msd", <<state, "">>) /\ then' = "return" /\ ~dialled'
          /\ UNCHANGED <<session, id>>
      BY <1>1b, <2>1, <2>2 DEF SetMsd, RecordChange, MsdReported, MachineFree
    <3>2. QED
      BY <1>0, <2>2, <3>1, BeginWithin
  <2>3. CASE ~(state # msd /\ session = "START")
    BY <1>0, <1>1b, <2>1, <2>3 DEF SetMsd, RecordChange, MsdReported, MachineFree, Free, Within
  <2>4. QED
    BY <2>2, <2>3
<1>2. CASE Dial
  <2>1. SetCall("DIAL") /\ Free /\ id < MaxSessions /\ UNCHANGED <<id, session>>
    BY <1>2 DEF Dial, MachineFree
  <2>2. CASE "DIAL" # call /\ session = "START"
    <3>1. /\ Begin("handler", "call", <<"DIAL", "">>) /\ then' = "return" /\ call' = "DIAL"
      BY <2>1, <2>2 DEF SetCall, RecordChange
    <3>2. QED
      BY <1>0, <2>1, <2>2, <3>1, BeginWithin
  <2>3. CASE ~("DIAL" # call /\ session = "START")
    BY <1>0, <2>1, <2>3 DEF SetCall, RecordChange, Free, Within
  <2>4. QED
    BY <2>2, <2>3
<1>3. CASE NetworkReported
  <2>1. PICK state \in NetworkStates \ {network[1]}, cell \in ReportedCells :
          /\ then' = "return"
          /\ IF session = "START" THEN Begin("handler", "network", <<state, cell>>)
             ELSE UNCHANGED <<step, pending, text, ghosts>>
    BY <1>3 DEF NetworkReported
  <2>2. Free /\ ~dialled /\ UNCHANGED <<session, id, call, dialled>>
    BY <1>3 DEF NetworkReported, MachineFree
  <2>3. CASE session = "START"
    BY <1>0, <2>1, <2>2, <2>3, BeginWithin
  <2>4. CASE session # "START"
    BY <1>0, <2>1, <2>2, <2>4 DEF Free, Within
  <2>5. QED
    BY <2>3, <2>4
<1>4. CASE EventReported
  <2>1. /\ Begin("handler", "event", None) /\ Free /\ session = "START" /\ then' = "return"
        /\ UNCHANGED <<session, id, call, dialled>>
    BY <1>4 DEF EventReported
  <2>2. dialled => id < MaxSessions /\ call = "DIAL"
    BY DEF Within
  <2>3. QED
    BY <1>0, <2>1, <2>2, BeginWithin
<1>5. CASE SessionStarted
  <2>1. CASE session = "STOP"
    <3>1. PICK cell \in ReportedCells : StartSession(cell)
      BY <1>5, <2>1 DEF SessionStarted
    <3>2. id' = id + 1 /\ id' # 0 /\ session' = "START"
      BY <1>5, <3>1, StartType DEF SessionStarted, Within
    <3>3. Free /\ ~dialled' /\ UNCHANGED <<call, step, pending, then>>
      BY <1>5, <2>1 DEF SessionStarted, threadVars
    <3>4. QED
      BY <1>0, <2>1, <3>2, <3>3 DEF Free, Within
  <2>2. CASE session = "START"
    <3>1. /\ dialled /\ ~dialled' /\ then' = "restart" /\ Begin("handler", "end", None)
          /\ UNCHANGED <<session, id, call>>
      BY <1>5, <2>2 DEF SessionStarted
    <3>2. id < MaxSessions /\ call = "DIAL"
      BY <3>1 DEF Within
    <3>3. QED
      BY <1>0, <2>2, <3>1, <3>2, BeginWithin
  <2>3. QED
    BY <1>0, <2>1, <2>2
<1>6. CASE SessionStopped
  <2>1. CASE session = "START"
    <3>1. /\ Begin("handler", "end", None) /\ then' = "end" /\ ~dialled'
          /\ UNCHANGED <<session, id>>
      BY <1>6, <2>1 DEF SessionStopped, MachineFree
    <3>2. QED
      BY <1>0, <2>1, <3>1, BeginWithin
  <2>2. CASE session # "START"
    BY <1>0, <1>6, <2>2 DEF SessionStopped, MachineFree, Free, Within
  <2>3. QED
    BY <2>1, <2>2
<1>7. CASE PeriodTimerStopped
  <2>0. /\ step["handler"] = "stopping" /\ step["period"] = "idle" /\ then' = "return"
        /\ step' = [step EXCEPT !["handler"] = "idle"]
        /\ UNCHANGED <<call, pending, dialled>>
    BY <1>7 DEF PeriodTimerStopped, EndSession
  <2>1. CASE then = "end"
    <3>1. session' = "STOP" /\ id' = id
      BY <1>7, <2>1 DEF PeriodTimerStopped, EndSession
    <3>2. QED
      BY <1>0, <2>0, <3>1 DEF Within
  <2>2. CASE then = "restart"
    <3>1. PICK cell \in ReportedCells : StartSession(cell)
      BY <1>7, <2>2 DEF PeriodTimerStopped, EndSession
    <3>2. id' = id + 1 /\ id' # 0 /\ session' = "START"
      BY <2>2, <3>1, StartType DEF Within
    <3>3. ~dialled
      BY <2>2 DEF Within
    <3>4. QED
      BY <1>0, <2>0, <2>2, <3>2, <3>3 DEF Within
  <2>3. QED
    BY <1>7, <2>1, <2>2 DEF PeriodTimerStopped, EndSession
<1>8. CASE PeriodTimerFires
  <2>1. PICK cell \in ReportedCells : UpdateCellData(cell)
    BY <1>8 DEF PeriodTimerFires
  <2>2. CASE cell # network[2]
    <3>1. /\ Begin("period", "network", <<network[1], cell>>) /\ session = "START"
          /\ UNCHANGED <<session, id, call, then, dialled>>
      BY <1>8, <2>1, <2>2 DEF PeriodTimerFires, UpdateCellData
    <3>2. QED
      BY <1>0, <3>1, BeginWithin DEF Within
  <2>3. CASE cell = network[2]
    BY <1>0, <1>8, <2>1, <2>3 DEF PeriodTimerFires, UpdateCellData, Within
  <2>4. QED
    BY <2>2, <2>3
<1>9. CASE UpdateGnssData
  <2>1. session = "START" /\ UNCHANGED <<session, id, call, then, dialled>>
    BY <1>0, <1>9 DEF UpdateGnssData, Within
  <2>2. CASE Begin("period", "position", None)
    BY <1>0, <2>1, <2>2, BeginWithin DEF Within
  <2>3. CASE ~Begin("period", "position", None)
    BY <1>0, <1>9, <2>1, <2>3 DEF UpdateGnssData, Within
  <2>4. QED
    BY <2>2, <2>3
<1>10. CASE Restart
  BY <1>0, <1>10 DEF Restart, Within
<1>11. ASSUME NEW t \in Thread, Collect(t) PROVE Within'
  BY <1>0, <1>11, OtherThread DEF Collect, Within
<1>12. ASSUME NEW t \in Thread, Write(t) PROVE Within'
  BY <1>0, <1>12 DEF Write, Within
<1>13. ASSUME NEW t \in Thread, Store(t) PROVE Within'
  BY <1>0, <1>13 DEF Store, NextStep, Within
<1>14. CASE UNCHANGED vars
  BY <1>14 DEF vars, threadVars, ghosts, Within
<1> QED
  BY <1>1, <1>1b, <1>2, <1>3, <1>4, <1>5, <1>6, <1>7, <1>8, <1>9, <1>10, <1>11, <1>12,
     <1>13, <1>14 DEF Next

-----------------------------------------------------------------------------
(* What a handler, or the callback of the timer, does between two steps of *)
(* updates.                                                                *)

\* A thread begins an update.
Begun(t) ==
    /\ ~Updating(t) /\ step' = [step EXCEPT ![t] = "collect"]
    /\ \A u \in Thread : u # t => pending'[u] = pending[u]
    /\ alone' = IF Updating(Other(t)) THEN [u \in Thread |-> FALSE]
                ELSE [alone EXCEPT ![t] = TRUE]

NoneBegun ==
    /\ UNCHANGED <<pending, alone>>
    /\ \A t \in Thread : step'[t] = step[t] \/ (~Updating(t) /\ ~Updating(t)')

Begins(kind) ==
    /\ step["handler"] # "collect" /\ step'["handler"] = "collect"
    /\ pending'["handler"].kind = kind

Handled ==
    /\ UNCHANGED <<events, file, id, text, clean, lost, msdBefore>>
    /\ NoneBegun \/ \E t \in Thread : Begun(t)
    /\ session' # session =>
          /\ session' = "STOP" /\ session = "START" /\ then = "end"
          /\ step["handler"] = "stopping" /\ step["period"] = "idle"
          /\ step'["handler"] = "idle"
    /\ session' = "START" =>
          /\ network' = network \/ \E t \in Thread : Collecting(t, "network", network)'
          /\ call' # call \/ Begins("call") => Collecting("handler", "call", <<call, "">>)'
          /\ msd' # msd \/ Begins("msd") => Collecting("handler", "msd", <<msd, "">>)'
          /\ step'["handler"] \in {"write", "store", "stopping"}
                => step'["handler"] = step["handler"] /\ then' = then

\* A session is started while nothing is being written.
Started(cell) ==
    /\ StartSession(cell) /\ id < MaxSessions
    /\ \A t \in Thread : ~Updating(t) /\ ~Updating(t)'
    /\ step'["handler"] = "idle" /\ then' = "return" /\ call = "DIAL"
    /\ UNCHANGED <<call, msd, pending, text, alone>>

\* A thread that begins an update was in none.
LEMMA BeginBegun ==
    ASSUME TypeOK, NEW t \in Thread, NEW kind, NEW value, Begin(t, kind, value),
           step[t] \in {"idle", "position"}
    PROVE  /\ Begun(t) /\ UNCHANGED <<text, clean, lost>>
           /\ Collecting(t, kind, value)'
           /\ step'[t] = "collect"
<1>1. /\ step' = [step EXCEPT ![t] = "collect"] /\ step'[t] = "collect"
      /\ pending'[t] = [session |-> id, value |-> value, kind |-> kind]
      /\ \A u \in Thread : u # t => pending'[u] = pending[u]
      /\ UNCHANGED <<text, clean, lost>>
  BY BeginStep
<1>2. Begun(t)
  BY <1>1 DEF Begun, Begin, Updating
<1>3. Collecting(t, kind, value)'
  BY <1>1 DEF Collecting
<1> QED
  BY <1>1, <1>2, <1>3

\* Every step is of one of these kinds, or one of an update, or a restart.
LEMMA StepKinds ==
    ASSUME TypeOK, Within, [Next]_vars
    PROVE  \/ Handled
           \/ \E cell \in ReportedCells : Started(cell)
           \/ Restart
           \/ \E t \in Thread : Collect(t) \/ Write(t) \/ Store(t)
<1>0. /\ "handler" \in Thread /\ "period" \in Thread /\ Thread = {"handler", "period"}
      /\ step \in [Thread -> Steps] /\ network \in Network /\ session \in {"STOP", "START"}
  BY DEF TypeOK, Steps, Thread
<1>1. CASE CallReported
  <2>1. PICK state \in CallStates \ {"DIAL"} : SetCall(state)
    BY <1>1 DEF CallReported
  <2>2. /\ step["handler"] = "idle"
        /\ UNCHANGED <<events, file, session, id, network, msdVars>>
    BY <1>1 DEF CallReported, MachineFree, Free
  <2>3. CASE state # call /\ session = "START"
    <3>1. Begin("handler", "call", <<state, "">>) /\ call' = state
      BY <2>1, <2>3 DEF SetCall, RecordChange
    <3>2. /\ Begun("handler") /\ UNCHANGED <<text, clean, lost>>
          /\ Collecting("handler", "call", <<state, "">>)' /\ step'["handler"] = "collect"
      BY <1>0, <2>2, <3>1, BeginBegun
    <3>3. Collecting("handler", "call", <<call, "">>)' /\ ~Begins("msd")
      BY <3>1, <3>2 DEF Collecting, Begins
    <3>4. QED
      BY <1>0, <2>2, <3>2, <3>3 DEF Handled, msdVars
  <2>4. CASE ~(state # call /\ session = "START")
    BY <2>1, <2>2, <2>4 DEF SetCall, RecordChange, Handled, msdVars, NoneBegun, Begins, ghosts
  <2>5. QED
    BY <2>3, <2>4
<1>1b. CASE MsdReported
  <2>1. PICK state \in MsdStates : SetMsd(state)
    BY <1>1b DEF MsdReported
  <2>2. /\ step["handler"] = "idle"
        /\ UNCHANGED <<events, file, session, id, network, call, msdBefore>>
    BY <1>1b DEF MsdReported, MachineFree, Free
  <2>3. CASE state # msd /\ session = "START"
    <3>1. Begin("handler", "msd", <<state, "">>) /\ msd' = state
      BY <2>1, <2>3 DEF SetMsd, RecordChange
    <3>2. /\ Begun("handler") /\ UNCHANGED <<text, clean, lost>>
          /\ Collecting("handler", "msd", <<state, "">>)' /\ step'["handler"] = "collect"
      BY <1>0, <2>2, <3>1, BeginBegun
    <3>3. Collecting("handler", "msd", <<msd, "">>)' /\ ~Begins("call")
      BY <3>1, <3>2 DEF Collecting, Begins
    <3>4. QED
      BY <1>0, <2>2, <3>2, <3>3 DEF Handled, msdVars
  <2>4. CASE ~(state # msd /\ session = "START")
    BY <2>1, <2>2, <2>4 DEF SetMsd, RecordChange, Handled, msdVars, NoneBegun, Begins, ghosts
  <2>5. QED
    BY <2>3, <2>4
<1>2. CASE Dial
  <2>1. /\ SetCall("DIAL") /\ step["handler"] = "idle"
        /\ UNCHANGED <<events, file, session, id, network, msdVars>>
    BY <1>2 DEF Dial, MachineFree, Free
  <2>2. CASE "DIAL" # call /\ session = "START"
    <3>1. Begin("handler", "call", <<"DIAL", "">>) /\ call' = "DIAL"
      BY <2>1, <2>2 DEF SetCall, RecordChange
    <3>2. /\ Begun("handler") /\ UNCHANGED <<text, clean, lost>>
          /\ Collecting("handler", "call", <<"DIAL", "">>)' /\ step'["handler"] = "collect"
      BY <1>0, <2>1, <3>1, BeginBegun
    <3>3. Collecting("handler", "call", <<call, "">>)' /\ ~Begins("msd")
      BY <3>1, <3>2 DEF Collecting, Begins
    <3>4. QED
      BY <1>0, <2>1, <3>2, <3>3 DEF Handled, msdVars
  <2>3. CASE ~("DIAL" # call /\ session = "START")
    BY <2>1, <2>3 DEF SetCall, RecordChange, Handled, msdVars, NoneBegun, Begins, ghosts
  <2>4. QED
    BY <2>2, <2>3
<1>3. CASE NetworkReported
  <2>1. PICK state \in NetworkStates \ {network[1]}, cell \in ReportedCells :
          /\ network' = <<state, cell>> /\ then' = "return"
          /\ IF session = "START" THEN Begin("handler", "network", <<state, cell>>)
             ELSE UNCHANGED <<step, pending, text, ghosts>>
    BY <1>3 DEF NetworkReported
  <2>2. /\ step["handler"] = "idle" /\ UNCHANGED <<events, file, session, id, call, msdVars>>
    BY <1>3 DEF NetworkReported, MachineFree, Free
  <2>3. CASE session = "START"
    <3>1. /\ Begun("handler") /\ UNCHANGED <<text, clean, lost>>
          /\ Collecting("handler", "network", <<state, cell>>)' /\ step'["handler"] = "collect"
      BY <1>0, <2>1, <2>2, <2>3, BeginBegun
    <3>2. Collecting("handler", "network", network)' /\ ~Begins("call") /\ ~Begins("msd")
      BY <2>1, <3>1 DEF Collecting, Begins
    <3>3. QED
      BY <1>0, <2>2, <3>1, <3>2 DEF Handled, msdVars
  <2>4. CASE session # "START"
    BY <2>1, <2>2, <2>4 DEF Handled, msdVars, NoneBegun, Begins, ghosts
  <2>5. QED
    BY <2>3, <2>4
<1>4. CASE EventReported
  <2>1. /\ Begin("handler", "event", None) /\ step["handler"] = "idle"
        /\ UNCHANGED <<events, file, session, id, network, call, msdVars>>
    BY <1>4 DEF EventReported, Free
  <2>2. /\ Begun("handler") /\ UNCHANGED <<text, clean, lost>> /\ step'["handler"] = "collect"
        /\ ~Begins("call") /\ ~Begins("msd")
    BY <1>0, <2>1, BeginBegun DEF Collecting, Begins
  <2>3. QED
    BY <1>0, <2>1, <2>2 DEF Handled, msdVars
<1>5. CASE SessionStarted
  <2>0. step["handler"] = "idle" /\ dialled
    BY <1>5 DEF SessionStarted, Free
  <2>1. CASE session = "STOP"
    <3>1. PICK cell \in ReportedCells : StartSession(cell)
      BY <1>5, <2>1 DEF SessionStarted
    <3>2. id < MaxSessions /\ call = "DIAL" /\ then = "return" /\ step["period"] = "idle"
      BY <2>0, <2>1 DEF Within
    <3>3. UNCHANGED <<call, msd, step, pending, text, then, alone>>
      BY <1>5, <2>1 DEF SessionStarted, threadVars
    <3>4. Started(cell)
      BY <1>0, <2>0, <3>1, <3>2, <3>3 DEF Started, Updating
    <3>5. QED
      BY <3>4
  <2>2. CASE session = "START"
    <3>1. /\ Begin("handler", "end", None)
          /\ UNCHANGED <<events, file, session, id, network, call, msdVars>>
      BY <1>5, <2>2 DEF SessionStarted
    <3>2. /\ Begun("handler") /\ UNCHANGED <<text, clean, lost>> /\ step'["handler"] = "collect"
          /\ ~Begins("call") /\ ~Begins("msd")
      BY <1>0, <2>0, <3>1, BeginBegun DEF Collecting, Begins
    <3>3. QED
      BY <1>0, <3>1, <3>2 DEF Handled, msdVars
  <2>3. QED
    BY <1>0, <2>1, <2>2
<1>6. CASE SessionStopped
  <2>1. step["handler"] = "idle" /\ UNCHANGED <<events, file, session, id, network, call, msdVars>>
    BY <1>6 DEF SessionStopped, MachineFree, Free
  <2>2. CASE session = "START"
    <3>1. Begin("handler", "end", None)
      BY <1>6, <2>2 DEF SessionStopped
    <3>2. /\ Begun("handler") /\ UNCHANGED <<text, clean, lost>> /\ step'["handler"] = "collect"
          /\ ~Begins("call") /\ ~Begins("msd")
      BY <1>0, <2>1, <3>1, BeginBegun DEF Collecting, Begins
    <3>3. QED
      BY <1>0, <2>1, <3>2 DEF Handled, msdVars
  <2>3. CASE session # "START"
    <3>1. step' = [step EXCEPT !["handler"] = "stopping"] /\ UNCHANGED <<pending, text, ghosts>>
      BY <1>6, <2>3 DEF SessionStopped
    <3>2. NoneBegun /\ ~Begins("call") /\ ~Begins("msd")
      BY <1>0, <2>1, <3>1 DEF NoneBegun, Begins, Updating, ghosts
    <3>3. QED
      BY <2>1, <2>3, <3>1, <3>2 DEF Handled, msdVars, ghosts
  <2>4. QED
    BY <2>2, <2>3
<1>7. CASE PeriodTimerStopped
  <2>1. /\ step["handler"] = "stopping" /\ step["period"] = "idle" /\ then' = "return"
        /\ step' = [step EXCEPT !["handler"] = "idle"]
        /\ UNCHANGED <<call, msd, pending, text, alone>>
    BY <1>7 DEF PeriodTimerStopped, EndSession
  <2>2. step'["handler"] = "idle" /\ step'["period"] = "idle"
    BY <1>0, <2>1
  <2>3. CASE then = "end"
    <3>1. session' = "STOP" /\ UNCHANGED <<events, file, id, network, clean, lost, msdBefore>>
      BY <1>7, <2>3 DEF PeriodTimerStopped, EndSession
    <3>2. NoneBegun
      BY <1>0, <2>1, <2>2 DEF NoneBegun, Updating
    <3>3. QED
      BY <1>0, <2>1, <2>2, <2>3, <3>1, <3>2 DEF Handled, msdVars
  <2>4. CASE then = "restart"
    <3>1. PICK cell \in ReportedCells : StartSession(cell)
      BY <1>7, <2>4 DEF PeriodTimerStopped, EndSession
    <3>2. id < MaxSessions /\ call = "DIAL"
      BY <2>4 DEF Within
    <3>3. Started(cell)
      BY <1>0, <2>1, <2>2, <3>1, <3>2 DEF Started, Updating
    <3>4. QED
      BY <3>3
  <2>5. QED
    BY <1>7, <2>3, <2>4 DEF PeriodTimerStopped, EndSession
<1>8. CASE PeriodTimerFires
  <2>1. PICK cell \in ReportedCells : UpdateCellData(cell)
    BY <1>8 DEF PeriodTimerFires
  <2>2. /\ step["period"] = "idle" /\ step["handler"] # "stopping"
        /\ UNCHANGED <<events, file, session, id, call, msdVars, then>>
        /\ network' = <<network[1], cell>>
    BY <1>8, <2>1 DEF PeriodTimerFires, UpdateCellData
  <2>3. CASE cell # network[2]
    <3>1. /\ Begun("period") /\ UNCHANGED <<text, clean, lost>>
          /\ Collecting("period", "network", <<network[1], cell>>)'
      BY <1>0, <2>1, <2>2, <2>3, BeginBegun DEF UpdateCellData
    <3>2. Collecting("period", "network", network)'
      BY <2>2, <3>1 DEF Collecting
    <3>3. step'["handler"] = step["handler"] /\ ~Begins("call") /\ ~Begins("msd")
      BY <1>0, <3>1 DEF Begun, Begins
    <3>4. QED
      BY <1>0, <2>2, <3>1, <3>2, <3>3 DEF Handled, msdVars
  <2>4. CASE cell = network[2]
    <3>1. /\ step' = [step EXCEPT !["period"] = "position"]
          /\ UNCHANGED <<pending, text, ghosts>>
      BY <2>1, <2>4 DEF UpdateCellData
    <3>2. NoneBegun /\ step'["handler"] = step["handler"] /\ ~Begins("call") /\ ~Begins("msd")
      BY <1>0, <2>2, <3>1 DEF NoneBegun, Begins, Updating, ghosts
    <3>3. network' = network
      BY <1>0, <2>2, <2>4, ValueTypes
    <3>4. QED
      BY <2>2, <3>1, <3>2, <3>3 DEF Handled, msdVars, ghosts
  <2>5. QED
    BY <2>3, <2>4
<1>9. CASE UpdateGnssData
  <2>1. /\ step["period"] = "position"
        /\ UNCHANGED <<events, file, session, id, network, call, msdVars, then>>
    BY <1>9 DEF UpdateGnssData
  <2>2. CASE Begin("period", "position", None)
    <3>1. Begun("period") /\ UNCHANGED <<text, clean, lost>>
      BY <1>0, <2>1, <2>2, BeginBegun
    <3>2. step'["handler"] = step["handler"] /\ ~Begins("call") /\ ~Begins("msd")
      BY <1>0, <3>1 DEF Begun, Begins
    <3>3. QED
      BY <1>0, <2>1, <3>1, <3>2 DEF Handled, msdVars
  <2>3. CASE ~Begin("period", "position", None)
    <3>1. step' = [step EXCEPT !["period"] = "idle"] /\ UNCHANGED <<pending, text, ghosts>>
      BY <1>9, <2>3 DEF UpdateGnssData
    <3>2. NoneBegun /\ step'["handler"] = step["handler"] /\ ~Begins("call") /\ ~Begins("msd")
      BY <1>0, <2>1, <3>1 DEF NoneBegun, Begins, Updating, ghosts
    <3>3. QED
      BY <2>1, <3>1, <3>2 DEF Handled, msdVars, ghosts
  <2>4. QED
    BY <2>2, <2>3
<1>10. CASE UNCHANGED vars
  BY <1>10 DEF vars, threadVars, ghosts, Handled, msdVars, NoneBegun, Begins
<1> QED
  BY <1>1, <1>1b, <1>2, <1>3, <1>4, <1>5, <1>6, <1>7, <1>8, <1>9, <1>10 DEF Next

\* Nothing but its own steps, and those of the other thread, change an update.
LEMMA UpdatesKept ==
    ASSUME TypeOK, Handled, NEW t \in Thread
    PROVE  /\ Updating(t) => step'[t] = step[t] /\ pending'[t] = pending[t]
           /\ step'[t] \in {"write", "store"} => step'[t] = step[t]
<1>1. CASE NoneBegun
  BY <1>1 DEF NoneBegun, Updating
<1>2. ASSUME NEW u \in Thread, Begun(u)
      PROVE  /\ Updating(t) => step'[t] = step[t] /\ pending'[t] = pending[t]
             /\ step'[t] \in {"write", "store"} => step'[t] = step[t]
  BY <1>2 DEF Begun, TypeOK
<1> QED
  BY <1>1, <1>2 DEF Handled

\* Nothing is being written before a step of a handler, if nothing is after it.
LEMMA QuietKept ==
    ASSUME TypeOK, Handled, Quiet'
    PROVE  Quiet
BY UpdatesKept DEF Quiet, Updating

\* What has been collected stays so.
LEMMA Collected ==
    ASSUME TypeOK, NEW t \in Thread, Collect(t)
    PROVE  /\ events' \in Seq(Record) /\ Len(events') = Len(events) + 1
           /\ Len(events) \in Nat
           /\ \A i \in 1..Len(events) : events'[i] = events[i]
           /\ events'[Len(events) + 1] = pending[t]
           /\ DOMAIN events = 1..Len(events) /\ DOMAIN events' = 1..(Len(events) + 1)
<1>1. events \in Seq(Record) /\ pending[t] \in Record
  BY DEF TypeOK
<1>2. events' = Append(events, pending[t])
  BY DEF Collect
<1> QED
  BY <1>1, <1>2, AppendProperties, LenProperties

\* The file, and what is stored in it, remain beginnings of what is collected.
LEMMA BeginningsStep ==
    ASSUME TypeOK, TypeOK', Within, Beginnings, [Next]_vars
    PROVE  Beginnings'
<1>1. CASE Handled
  <2>1. \A t \in Thread : step'[t] = "store" => step[t] = "store"
    BY <1>1, UpdatesKept
  <2>2. QED
    BY <1>1, <2>1 DEF Handled, Beginnings
<1>2. ASSUME NEW cell \in ReportedCells, Started(cell) PROVE Beginnings'
  <2>1. /\ file'.records = <<Initial(cell)>> /\ file'.extent = <<Initial(cell)>>
        /\ events' = <<Initial(cell)>> /\ <<Initial(cell)>> \in Seq(Record)
    BY <1>2, StartType DEF Started
  <2>2. IsPrefix(<<Initial(cell)>>, <<Initial(cell)>>)
    BY <2>1, PrefixSelf
  <2>3. QED
    BY <1>2, <2>1, <2>2 DEF Beginnings, Started, Updating
<1>3. CASE Restart
  <2>1. IsPrefix(<<>>, <<>>)
    BY PrefixSelf, EmptySeq
  <2>2. QED
    BY <1>3, <2>1 DEF Restart, NoFile, Beginnings
<1>4. ASSUME NEW t \in Thread, Collect(t) PROVE Beginnings'
  <2>1. /\ events' = Append(events, pending[t]) /\ UNCHANGED <<file, text>>
        /\ events \in Seq(Record) /\ pending[t] \in Record
        /\ file.records \in Seq(Record) /\ file.extent \in Seq(Record)
        /\ \A u \in Thread : text[u] \in Seq(Record)
    BY <1>4 DEF Collect, TypeOK
  <2>2. \A u \in Thread : step'[u] = "store" => step[u] = "store"
    BY <1>4 DEF Collect, TypeOK
  <2>3. IsPrefix(file.records, events') /\ IsPrefix(file.extent, events')
    BY <2>1, PrefixAppend DEF Beginnings
  <2>4. \A u \in Thread : step'[u] = "store" => IsPrefix(text[u], events')
    BY <2>1, <2>2, PrefixAppend DEF Beginnings
  <2>5. QED
    BY <2>1, <2>3, <2>4 DEF Beginnings
<1>5. ASSUME NEW t \in Thread, Write(t) PROVE Beginnings'
  <2>1. IsPrefix(events, events)
    BY PrefixSelf DEF TypeOK
  <2>2. QED
    BY <1>5, <2>1 DEF Write, Beginnings, TypeOK
<1>6. ASSUME NEW t \in Thread, Store(t) PROVE Beginnings'
  <2>1. IsPrefix(text[t], events)
    BY <1>6 DEF Store, Beginnings
  <2>2. IsPrefix(file'.records, events) /\ IsPrefix(file'.extent, events)
    BY <1>6, <2>1 DEF Store, Overwritten, Beginnings
  <2>3. NextStep(t) # "store"
    BY DEF NextStep
  <2>4. QED
    BY <1>6, <2>2, <2>3 DEF Store, Beginnings, TypeOK
<1> QED
  BY <1>1, <1>2, <1>3, <1>4, <1>5, <1>6, StepKinds

\* An update that is alone remains so until it has stored all there is, or the
\* other thread begins one.
LEMMA LoneStep ==
    ASSUME TypeOK, TypeOK', Within, Lone, [Next]_vars
    PROVE  Lone'
<1>0. /\ step \in [Thread -> Steps] /\ alone \in [Thread -> BOOLEAN]
      /\ "handler" \in Thread /\ "period" \in Thread /\ Thread = {"handler", "period"}
      /\ \A t \in Thread : Other(t) \in Thread /\ Other(t) # t /\ Other(Other(t)) = t
  BY OtherThread DEF TypeOK, Steps
<1>1. CASE Handled /\ NoneBegun
  <2>1. \A t \in Thread : /\ Updating(t)' => Updating(t)
                          /\ step'[t] = "store" => step[t] = "store"
    BY <1>1, UpdatesKept DEF NoneBegun, Updating
  <2>2. QED
    BY <1>0, <1>1, <2>1 DEF Handled, NoneBegun, Lone
<1>2. ASSUME Handled, NEW t \in Thread, Begun(t) PROVE Lone'
  <2>1. /\ step'[t] = "collect" /\ step'[Other(t)] = step[Other(t)]
        /\ UNCHANGED <<text, events>>
    BY <1>0, <1>2 DEF Begun, Handled
  <2>2. CASE Updating(Other(t))
    <3>1. \A u \in Thread : alone'[u] = FALSE
      BY <1>2, <2>2 DEF Begun
    <3>2. QED
      BY <3>1 DEF Lone
  <2>3. CASE ~Updating(Other(t))
    <3>1. ~Updating(Other(t))' /\ step'[Other(t)] # "store"
      BY <2>1, <2>3 DEF Updating
    <3>2. \A u \in Thread : u = t \/ u = Other(t)
      BY <1>0
    <3>3. QED
      BY <1>0, <2>1, <3>1, <3>2 DEF Lone, Updating
  <2>4. QED
    BY <2>2, <2>3
<1>3. ASSUME NEW cell \in ReportedCells, Started(cell) PROVE Lone'
  BY <1>3 DEF Started, Lone, Updating
<1>4. CASE Restart
  BY <1>4 DEF Restart, Lone, Updating
<1>5. ASSUME NEW t \in Thread, Collect(t) PROVE Lone'
  <2>1. \A u \in Thread : /\ Updating(u)' <=> Updating(u)
                          /\ step'[u] = "store" => step[u] = "store" /\ u # t
    BY <1>0, <1>5 DEF Collect, Updating
  <2>2. UNCHANGED <<alone, text>>
    BY <1>5 DEF Collect
  <2>3. ASSUME NEW u \in Thread, step'[u] = "store", alone'[u] PROVE FALSE
    <3>1. step[u] = "store" /\ alone[u] /\ u # t /\ t = Other(u)
      BY <1>0, <2>1, <2>2, <2>3
    <3>2. ~Updating(t)
      BY <3>1 DEF Lone, Updating
    <3>3. QED
      BY <1>5, <3>2 DEF Collect, Updating
  <2>4. QED
    BY <1>0, <2>1, <2>2, <2>3 DEF Lone
<1>6. ASSUME NEW t \in Thread, Write(t) PROVE Lone'
  <2>1. /\ step' = [step EXCEPT ![t] = "store"] /\ text' = [text EXCEPT ![t] = events]
        /\ UNCHANGED <<alone, events>> /\ step[t] = "write"
    BY <1>6 DEF Write, ghosts
  <2>2. \A u \in Thread : Updating(u)' <=> Updating(u)
    BY <1>0, <2>1 DEF Updating
  <2>3. \A u \in Thread : step'[u] = "store" =>
            \/ u = t /\ text'[u] = events
            \/ step[u] = "store" /\ text'[u] = text[u]
    BY <1>0, <2>1 DEF TypeOK
  <2>4. QED
    BY <1>0, <2>1, <2>2, <2>3 DEF Lone
<1>7. ASSUME NEW t \in Thread, Store(t) PROVE Lone'
  <2>1. NextStep(t) \notin {"collect", "write", "store"}
    BY DEF NextStep
  <2>2. /\ step' = [step EXCEPT ![t] = NextStep(t)] /\ text' = [text EXCEPT ![t] = <<>>]
        /\ UNCHANGED <<alone, events>>
    BY <1>7 DEF Store
  <2>3. \A u \in Thread : /\ Updating(u)' => Updating(u)
                          /\ step'[u] = "store" => step[u] = "store" /\ u # t
    BY <1>0, <2>1, <2>2 DEF Updating
  <2>4. \A u \in Thread : u # t => text'[u] = text[u]
    BY <2>2 DEF TypeOK
  <2>5. QED
    BY <1>0, <2>2, <2>3, <2>4 DEF Lone
<1> QED
  BY <1>1, <1>2, <1>3, <1>4, <1>5, <1>6, <1>7, StepKinds DEF Handled

\* The file is completed by an update that is alone.
LEMMA FileCompleteStep ==
    ASSUME TypeOK, TypeOK', Within, Beginnings, Lone, FileComplete, [Next]_vars
    PROVE  FileComplete'
<1>1. CASE Handled
  BY <1>1, QuietKept DEF Handled, FileComplete
<1>2. ASSUME NEW cell \in ReportedCells, Started(cell) PROVE FileComplete'
  BY <1>2, StartType DEF Started, FileComplete
<1>3. CASE Restart
  BY <1>3 DEF Restart, NoFile, FileComplete
<1>4. ASSUME NEW t \in Thread, Collect(t) \/ Write(t) PROVE FileComplete'
  <2>1. step'[t] \in {"write", "store"}
    BY <1>4 DEF Collect, Write, TypeOK
  <2>2. QED
    BY <2>1 DEF FileComplete, Quiet, Updating
<1>5. ASSUME NEW t \in Thread, Store(t) PROVE FileComplete'
  <2>1. CASE alone[t]
    <3>1. text[t] = events /\ IsPrefix(file.extent, text[t])
      BY <1>5, <2>1 DEF Store, Lone, Beginnings
    <3>2. file'.records = events /\ file'.extent = events /\ events' = events
      BY <1>5, <3>1 DEF Store, Overwritten
    <3>3. QED
      BY <3>2 DEF FileComplete
  <2>2. CASE ~alone[t]
    BY <1>5, <2>2 DEF Store, FileComplete
  <2>3. QED
    BY <2>1, <2>2
<1> QED
  BY <1>1, <1>2, <1>3, <1>4, <1>5, StepKinds

\* Records are collected in the session they are of.
LEMMA EventsPureStep ==
    ASSUME TypeOK, TypeOK', Within, EventsPure, [Next]_vars
    PROVE  EventsPure'
<1>1. CASE Handled
  BY <1>1 DEF Handled, EventsPure, TypeOK
<1>2. ASSUME NEW cell \in ReportedCells, Started(cell) PROVE EventsPure'
  <2>1. events' = <<Initial(cell)>> /\ id' = id + 1
    BY <1>2, StartType DEF Started
  <2>2. Initial(cell).session = id + 1
    BY DEF Initial
  <2>3. QED
    BY <2>1, <2>2 DEF EventsPure
<1>3. CASE Restart
  BY <1>3 DEF Restart, EventsPure
<1>4. ASSUME NEW t \in Thread, Collect(t) PROVE EventsPure'
  <2>1. pending[t].session = id /\ UNCHANGED <<id, session>>
    BY <1>4 DEF Collect, Within, Updating
  <2>2. /\ \A i \in 1..Len(events) : events'[i] = events[i]
        /\ events'[Len(events) + 1] = pending[t] /\ Len(events) \in Nat
        /\ DOMAIN events = 1..Len(events) /\ DOMAIN events' = 1..(Len(events) + 1)
    BY <1>4, Collected
  <2>3. \A i \in DOMAIN events' : i \in DOMAIN events \/ i = Len(events) + 1
    BY <2>2
  <2>4. QED
    BY <2>1, <2>2, <2>3 DEF EventsPure
<1>5. ASSUME NEW t \in Thread, Write(t) \/ Store(t) PROVE EventsPure'
  BY <1>5 DEF Write, Store, EventsPure
<1> QED
  BY <1>1, <1>2, <1>3, <1>4, <1>5, StepKinds

\* A record that is lost leaves nothing to say of those of its session.
LEMMA CollectStep ==
    ASSUME TypeOK, NEW t \in Thread, Collect(t)
    PROVE  /\ step[t] = "collect"
           /\ UNCHANGED <<session, id, network, call, msdVars, pending, then>>
           /\ lost' \/ (/\ lost' = lost /\ step'[t] = "write"
                        /\ \A u \in Thread : u # t => step'[u] = step[u])
BY DEF Collect, TypeOK

\* A change of the network or of the cell is collected, by whatever thread.
LEMMA NetworkCollectedStep ==
    ASSUME TypeOK, TypeOK', Within, NetworkCollected, [Next]_vars
    PROVE  NetworkCollected'
<1>1. CASE Handled
  <2>1. SUFFICES ASSUME session' = "START", ~lost', network' = network
                 PROVE  NetworkCollected'
    BY <1>1 DEF Handled, NetworkCollected
  <2>2. session = "START" /\ ~lost /\ events' = events
    BY <1>1, <2>1 DEF Handled
  <2>3. CASE \E t \in Thread : Collecting(t, "network", network)
    <3>1. PICK t \in Thread : Collecting(t, "network", network)
      BY <2>3
    <3>2. Collecting(t, "network", network)'
      BY <1>1, <2>1, <3>1, UpdatesKept DEF Collecting, Updating
    <3>3. QED
      BY <3>2 DEF NetworkCollected
  <2>4. CASE \E i \in DOMAIN events :
                events[i].kind \in {"initial", "network"} /\ events[i].value = network
    BY <2>1, <2>2, <2>4 DEF NetworkCollected
  <2>5. QED
    BY <2>2, <2>3, <2>4 DEF NetworkCollected
<1>2. ASSUME NEW cell \in ReportedCells, Started(cell) PROVE NetworkCollected'
  <2>1. events' = <<Initial(cell)>> /\ network' = <<network[1], cell>>
    BY <1>2, StartType DEF Started
  <2>2. 1 \in DOMAIN events' /\ events'[1].kind = "initial" /\ events'[1].value = network'
    BY <2>1 DEF Initial
  <2>3. QED
    BY <2>2 DEF NetworkCollected
<1>3. CASE Restart
  BY <1>3 DEF Restart, NetworkCollected
<1>4. ASSUME NEW t \in Thread, Collect(t) PROVE NetworkCollected'
  <2>1. SUFFICES ASSUME session' = "START", ~lost'
                 PROVE  NetworkCollected'
    BY DEF NetworkCollected
  <2>2. /\ session = "START" /\ ~lost /\ UNCHANGED <<network, pending>>
        /\ \A u \in Thread : u # t => step'[u] = step[u]
    BY <1>4, <2>1, CollectStep
  <2>3. /\ \A i \in 1..Len(events) : events'[i] = events[i]
        /\ events'[Len(events) + 1] = pending[t] /\ Len(events) \in Nat
        /\ DOMAIN events = 1..Len(events) /\ DOMAIN events' = 1..(Len(events) + 1)
    BY <1>4, Collected
  <2>4. Len(events) + 1 \in DOMAIN events' /\ \A i \in DOMAIN events : i \in DOMAIN events'
    BY <2>3
  <2>5. CASE Collecting(t, "network", network)
    BY <2>2, <2>3, <2>4, <2>5 DEF Collecting, NetworkCollected
  <2>6. ASSUME NEW u \in Thread, u # t, Collecting(u, "network", network)
        PROVE  NetworkCollected'
    BY <2>2, <2>6 DEF Collecting, NetworkCollected
  <2>7. CASE \E i \in DOMAIN events :
                events[i].kind \in {"initial", "network"} /\ events[i].value = network
    BY <2>2, <2>3, <2>4, <2>7 DEF NetworkCollected
  <2>8. QED
    BY <2>2, <2>5, <2>6, <2>7 DEF NetworkCollected
<1>5. ASSUME NEW t \in Thread, Write(t) \/ Store(t) PROVE NetworkCollected'
  <2>1. /\ UNCHANGED <<session, lost, network, events, pending>>
        /\ \A u \in Thread : step[u] = "collect" => step'[u] = "collect"
    BY <1>5 DEF Write, Store, ghosts, TypeOK
  <2>2. QED
    BY <2>1 DEF NetworkCollected, Collecting
<1> QED
  BY <1>1, <1>2, <1>3, <1>4, <1>5, StepKinds

\* A record that is collected is the last one of its kind.
LEMMA ChangeCollectedStep ==
    ASSUME TypeOK, TypeOK', Within, NEW t \in Thread, Collect(t), ~lost',
           NEW kind \in {"call", "msd"}, NEW state, NEW before,
           ChangeCollected(kind, state, before)
    PROVE  ChangeCollected(kind, state, before)'
<1>0. "handler" \in Thread /\ "period" \in Thread /\ Thread = {"handler", "period"}
  BY DEF Thread
<1>2. /\ UNCHANGED pending /\ step[t] = "collect" /\ step'[t] = "write"
      /\ \A u \in Thread : u # t => step'[u] = step[u]
  BY CollectStep
<1>3. /\ \A i \in 1..Len(events) : events'[i] = events[i]
      /\ events'[Len(events) + 1] = pending[t] /\ Len(events) \in Nat
      /\ DOMAIN events = 1..Len(events) /\ DOMAIN events' = 1..(Len(events) + 1)
  BY Collected
<1>4. Len(events) + 1 \in DOMAIN events' /\ \A i \in DOMAIN events : i \in DOMAIN events'
  BY <1>3
<1>5. CASE pending[t].kind = kind
  <2>1. t = "handler" /\ pending[t].value = <<state, "">>
    BY <1>0, <1>2, <1>5 DEF Within, Updating, ChangeCollected
  <2>2. \A j \in DOMAIN events' : j <= Len(events) + 1
    BY <1>3
  <2>3. LastIs(events', kind, state, before)
    BY <1>3, <1>4, <1>5, <2>1, <2>2 DEF LastIs
  <2>4. QED
    BY <1>2, <2>1, <2>3 DEF ChangeCollected
<1>6. CASE pending[t].kind # kind
  <2>1. ASSUME LastIs(events, kind, state, before) PROVE LastIs(events', kind, state, before)
    <3>1. \A j \in DOMAIN events' : events'[j].kind = kind
              => j \in DOMAIN events /\ events[j].kind = kind
      <4>1. \A j \in DOMAIN events' : j \in DOMAIN events \/ j = Len(events) + 1
        BY <1>3
      <4>2. QED
        BY <1>3, <1>6, <4>1
    <3>2. CASE state = before /\ \A i \in DOMAIN events : events[i].kind # kind
      BY <3>1, <3>2 DEF LastIs
    <3>3. ASSUME NEW i \in DOMAIN events, events[i].kind = kind,
                 events[i].value = <<state, "">>,
                 \A j \in DOMAIN events : events[j].kind = kind => j <= i
          PROVE  LastIs(events', kind, state, before)
      <4>1. i \in DOMAIN events' /\ events'[i] = events[i]
        BY <1>3, <1>4
      <4>2. \A j \in DOMAIN events' : events'[j].kind = kind => j <= i
        BY <3>1, <3>3
      <4>3. QED
        BY <3>3, <4>1, <4>2 DEF LastIs
    <3>4. QED
      BY <2>1, <3>2, <3>3 DEF LastIs
  <2>2. CASE t = "handler"
    BY <1>2, <1>6, <2>1, <2>2 DEF ChangeCollected
  <2>3. CASE t = "period"
    <3>1. step'["handler"] = step["handler"]
      BY <1>0, <1>2, <2>3
    <3>2. QED
      BY <1>2, <2>1, <3>1 DEF ChangeCollected
  <2>4. QED
    BY <1>0, <2>2, <2>3
<1> QED
  BY <1>5, <1>6

\* The last record of the call is of its state, or its next one will be.
LEMMA CallCollectedStep ==
    ASSUME TypeOK, TypeOK', Within, CallCollected, [Next]_vars
    PROVE  CallCollected'
<1>0. "handler" \in Thread /\ "period" \in Thread /\ Thread = {"handler", "period"}
  BY DEF Thread
<1>1. CASE Handled
  <2>1. SUFFICES ASSUME session' = "START", ~lost', call' = call, ~Begins("call")
                 PROVE  CallCollected'
    BY <1>1 DEF Handled, CallCollected, ChangeCollected, Collecting
  <2>2. /\ session = "START" /\ ~lost /\ events' = events /\ msdBefore' = msdBefore
    BY <1>1, <2>1 DEF Handled
  <2>3. step["handler"] = "collect" =>
            step'["handler"] = "collect" /\ pending'["handler"] = pending["handler"]
    BY <1>0, <1>1, UpdatesKept DEF Updating
  <2>4. QED
    BY <2>1, <2>2, <2>3 DEF CallCollected, ChangeCollected, Begins
<1>2. ASSUME NEW cell \in ReportedCells, Started(cell) PROVE CallCollected'
  <2>1. events' = <<Initial(cell)>> /\ call' = "DIAL" /\ step'["handler"] = "idle"
    BY <1>2, StartType DEF Started
  <2>2. \A i \in DOMAIN events' : events'[i].kind # "call"
    BY <2>1 DEF Initial
  <2>3. QED
    BY <2>1, <2>2 DEF CallCollected, ChangeCollected, LastIs
<1>3. CASE Restart
  BY <1>3 DEF Restart, CallCollected
<1>4. ASSUME NEW t \in Thread, Collect(t) PROVE CallCollected'
  <2>1. SUFFICES ASSUME session' = "START", ~lost'
                 PROVE  CallCollected'
    BY DEF CallCollected
  <2>2. PICK state, before : state = call /\ before = "DIAL"
    OBVIOUS
  <2>3. session = "START" /\ ~lost /\ UNCHANGED <<call, msdVars>>
    BY <1>4, <2>1, CollectStep
  <2>4. ChangeCollected("call", state, before)
    BY <2>2, <2>3 DEF CallCollected
  <2>5. ChangeCollected("call", state, before)'
    BY <1>4, <2>1, <2>4, ChangeCollectedStep
  <2>6. state = call' /\ before = "DIAL"
    BY <2>2, <2>3 DEF msdVars
  <2>7. QED
    BY <2>5, <2>6 DEF CallCollected, ChangeCollected, LastIs
<1>5. ASSUME NEW t \in Thread, Write(t) \/ Store(t) PROVE CallCollected'
  <2>1. NextStep(t) # "collect"
    BY DEF NextStep
  <2>2. /\ UNCHANGED <<session, lost, call, events, pending>>
        /\ step'["handler"] = "collect" <=> step["handler"] = "collect"
    BY <1>0, <1>5, <2>1 DEF Write, Store, ghosts, TypeOK
  <2>3. QED
    BY <2>2 DEF CallCollected, ChangeCollected
<1> QED
  BY <1>1, <1>2, <1>3, <1>4, <1>5, StepKinds

\* So is the last record of the MSD, if it has changed since the session began.
LEMMA MsdCollectedStep ==
    ASSUME TypeOK, TypeOK', Within, MsdCollected, [Next]_vars
    PROVE  MsdCollected'
<1>0. "handler" \in Thread /\ "period" \in Thread /\ Thread = {"handler", "period"}
  BY DEF Thread
<1>1. CASE Handled
  <2>1. SUFFICES ASSUME session' = "START", ~lost', msd' = msd, ~Begins("msd")
                 PROVE  MsdCollected'
    BY <1>1 DEF Handled, MsdCollected, ChangeCollected, Collecting
  <2>2. /\ session = "START" /\ ~lost /\ events' = events /\ msdBefore' = msdBefore
    BY <1>1, <2>1 DEF Handled
  <2>3. step["handler"] = "collect" =>
            step'["handler"] = "collect" /\ pending'["handler"] = pending["handler"]
    BY <1>0, <1>1, UpdatesKept DEF Updating
  <2>4. QED
    BY <2>1, <2>2, <2>3 DEF MsdCollected, ChangeCollected, Begins
<1>2. ASSUME NEW cell \in ReportedCells, Started(cell) PROVE MsdCollected'
  <2>1. events' = <<Initial(cell)>> /\ msd' = msdBefore' /\ step'["handler"] = "idle"
    BY <1>2, StartType DEF Started
  <2>2. \A i \in DOMAIN events' : events'[i].kind # "msd"
    BY <2>1 DEF Initial
  <2>3. QED
    BY <2>1, <2>2 DEF MsdCollected, ChangeCollected, LastIs
<1>3. CASE Restart
  BY <1>3 DEF Restart, MsdCollected
<1>4. ASSUME NEW t \in Thread, Collect(t) PROVE MsdCollected'
  <2>1. SUFFICES ASSUME session' = "START", ~lost'
                 PROVE  MsdCollected'
    BY DEF MsdCollected
  <2>2. PICK state, before : state = msd /\ before = msdBefore
    OBVIOUS
  <2>3. session = "START" /\ ~lost /\ UNCHANGED <<call, msdVars>>
    BY <1>4, <2>1, CollectStep
  <2>4. ChangeCollected("msd", state, before)
    BY <2>2, <2>3 DEF MsdCollected
  <2>5. ChangeCollected("msd", state, before)'
    BY <1>4, <2>1, <2>4, ChangeCollectedStep
  <2>6. state = msd' /\ before = msdBefore'
    BY <2>2, <2>3 DEF msdVars
  <2>7. QED
    BY <2>5, <2>6 DEF MsdCollected, ChangeCollected, LastIs
<1>5. ASSUME NEW t \in Thread, Write(t) \/ Store(t) PROVE MsdCollected'
  <2>1. NextStep(t) # "collect"
    BY DEF NextStep
  <2>2. /\ UNCHANGED <<session, lost, msdVars, events, pending>>
        /\ step'["handler"] = "collect" <=> step["handler"] = "collect"
    BY <1>0, <1>5, <2>1 DEF Write, Store, ghosts, TypeOK
  <2>3. QED
    BY <2>2 DEF MsdCollected, ChangeCollected, msdVars
<1> QED
  BY <1>1, <1>2, <1>3, <1>4, <1>5, StepKinds

\* The end of a session is collected before the session ends.
LEMMA EndCollectedStep ==
    ASSUME TypeOK, TypeOK', Within, EndCollected, [Next]_vars
    PROVE  EndCollected'
<1>0. "handler" \in Thread /\ "period" \in Thread /\ Thread = {"handler", "period"}
  BY DEF Thread
<1>1. CASE Handled
  <2>1. SUFFICES ASSUME session' = "START", ~lost', then' # "return",
                        step'["handler"] \in {"write", "store", "stopping"}
                 PROVE  \E i \in DOMAIN events' : events'[i].kind = "end"
    BY DEF EndCollected
  <2>2. /\ session = "START" /\ ~lost /\ events' = events
        /\ then' = then /\ step'["handler"] = step["handler"]
    BY <1>1, <2>1 DEF Handled
  <2>3. QED
    BY <2>1, <2>2 DEF EndCollected
<1>2. ASSUME NEW cell \in ReportedCells, Started(cell) PROVE EndCollected'
  BY <1>2 DEF Started, EndCollected
<1>3. CASE Restart
  BY <1>3 DEF Restart, EndCollected
<1>4. ASSUME NEW t \in Thread, Collect(t) PROVE EndCollected'
  <2>1. SUFFICES ASSUME session' = "START", ~lost', then' # "return",
                        step'["handler"] \in {"write", "store", "stopping"}
                 PROVE  \E i \in DOMAIN events' : events'[i].kind = "end"
    BY DEF EndCollected
  <2>2. /\ session = "START" /\ ~lost /\ then = then' /\ step[t] = "collect"
        /\ \A u \in Thread : u # t => step'[u] = step[u]
    BY <1>4, <2>1, CollectStep
  <2>3. /\ \A i \in 1..Len(events) : events'[i] = events[i]
        /\ events'[Len(events) + 1] = pending[t] /\ Len(events) \in Nat
        /\ DOMAIN events = 1..Len(events) /\ DOMAIN events' = 1..(Len(events) + 1)
    BY <1>4, Collected
  <2>4. Len(events) + 1 \in DOMAIN events' /\ \A i \in DOMAIN events : i \in DOMAIN events'
    BY <2>3
  <2>5. CASE t = "handler"
    <3>1. pending[t].kind = "end"
      BY <2>1, <2>2, <2>5 DEF Within, Updating
    <3>2. QED
      BY <2>3, <2>4, <3>1
  <2>6. CASE t = "period"
    <3>1. step["handler"] = step'["handler"]
      BY <1>0, <2>2, <2>6
    <3>2. PICK i \in DOMAIN events : events[i].kind = "end"
      BY <2>1, <2>2, <3>1 DEF EndCollected
    <3>3. QED
      BY <2>3, <2>4, <3>2
  <2>7. QED
    BY <1>0, <2>5, <2>6
<1>5. ASSUME NEW t \in Thread, Write(t) PROVE EndCollected'
  <2>1. /\ UNCHANGED <<session, lost, then, events>>
        /\ step'["handler"] = step["handler"] \/ step["handler"] = "write"
    BY <1>0, <1>5 DEF Write, ghosts, TypeOK
  <2>2. QED
    BY <2>1 DEF EndCollected
<1>6. ASSUME NEW t \in Thread, Store(t) PROVE EndCollected'
  <2>1. /\ UNCHANGED <<session, lost, then, events>>
        /\ step'["handler"] = step["handler"] \/ step["handler"] = "store"
    BY <1>0, <1>6 DEF Store, TypeOK
  <2>2. QED
    BY <2>1 DEF EndCollected
<1> QED
  BY <1>1, <1>2, <1>3, <1>4, <1>5, <1>6, StepKinds

\* So it is in the file, which is complete then.
LEMMA EndToldStep ==
    ASSUME TypeOK, TypeOK', Within, FileComplete, EndCollected, EndTold, [Next]_vars
    PROVE  EndTold'
<1>1. CASE Handled /\ session' = session
  BY <1>1 DEF Handled, EndTold
<1>2. CASE Handled /\ session' # session
  <2>1. /\ session = "START" /\ then = "end" /\ step["handler"] = "stopping"
        /\ step["period"] = "idle" /\ UNCHANGED <<events, file, clean, lost>>
    BY <1>2 DEF Handled
  <2>2. Quiet
    BY <2>1 DEF Quiet, Updating, Thread
  <2>3. QED
    BY <2>1, <2>2 DEF FileComplete, EndCollected, EndTold
<1>3. ASSUME NEW cell \in ReportedCells, Started(cell) PROVE EndTold'
  BY <1>3, StartType DEF Started, EndTold
<1>4. CASE Restart
  BY <1>4 DEF Restart, NoFile, EndTold
<1>5. ASSUME NEW t \in Thread, Collect(t) \/ Write(t) \/ Store(t) PROVE EndTold'
  <2>1. Updating(t) /\ session' = session
    BY <1>5 DEF Collect, Write, Store, Updating
  <2>2. session # "STOP"
    BY <2>1 DEF Within, Updating, Thread
  <2>3. QED
    BY <2>1, <2>2 DEF EndTold
<1> QED
  BY <1>1, <1>2, <1>3, <1>4, <1>5, StepKinds

-----------------------------------------------------------------------------
(* The theorems.                                                           *)

\* When the program starts there are no sessions, and no records.
LEMMA RecordsInit ==
    Init => RecordsInv
<1> SUFFICES ASSUME Init
             PROVE  RecordsInv
  OBVIOUS
<1>1. TypeOK
  <2>1. MaxSessions \in Nat \ {0}
    BY RecordsAssumption
  <2>2. 1 \in 1..MaxSessions /\ 0 \in 0..MaxSessions
    BY <2>1
  <2>3. NoRecord \in Record /\ <<>> \in Seq(Record)
    BY <2>2, ValueTypes, EmptySeq DEF NoRecord, Record
  <2>4. None \in Network
    BY DEF None, Network
  <2>5. QED
    BY <2>2, <2>3, <2>4 DEF Init, TypeOK, NoFile
<1>2. Within /\ Lone
  BY DEF Init, Within, Lone, Updating, Thread
<1>3. Beginnings
  <2>1. IsPrefix(<<>>, <<>>)
    BY PrefixSelf, EmptySeq
  <2>2. QED
    BY <2>1 DEF Init, NoFile, Beginnings
<1>4. FileComplete /\ EventsPure /\ NetworkCollected /\ CallCollected /\ MsdCollected
      /\ EndCollected /\ EndTold
  BY DEF Init, NoFile, FileComplete, EventsPure, NetworkCollected, CallCollected, MsdCollected,
         EndCollected, EndTold
<1> QED
  BY <1>1, <1>2, <1>3, <1>4 DEF RecordsInv

\* The invariant holds in every state: each thread may act between any two steps
\* of the other's update.
THEOREM RecordsInductive ==
    Spec => []RecordsInv
<1>1. Init => RecordsInv
  BY RecordsInit
<1>2. RecordsInv /\ [Next]_vars => RecordsInv'
  <2> SUFFICES ASSUME RecordsInv, [Next]_vars
               PROVE  RecordsInv'
    OBVIOUS
  <2>1. /\ TypeOK /\ Within /\ Beginnings /\ Lone /\ FileComplete /\ EventsPure
        /\ NetworkCollected /\ CallCollected /\ MsdCollected /\ EndCollected /\ EndTold
    BY DEF RecordsInv
  <2>2. TypeOK'
    BY <2>1, TypeStep
  <2>3. Within'
    BY <2>1, <2>2, WithinStep
  <2>4. Beginnings'
    BY <2>1, <2>2, BeginningsStep
  <2>5. Lone' /\ FileComplete'
    BY <2>1, <2>2, LoneStep, FileCompleteStep
  <2>6. EventsPure' /\ NetworkCollected'
    BY <2>1, <2>2, EventsPureStep, NetworkCollectedStep
  <2>7. CallCollected' /\ MsdCollected'
    BY <2>1, <2>2, CallCollectedStep, MsdCollectedStep
  <2>8. EndCollected' /\ EndTold'
    BY <2>1, <2>2, EndCollectedStep, EndToldStep
  <2>9. QED
    BY <2>2, <2>3, <2>4, <2>5, <2>6, <2>7, <2>8 DEF RecordsInv
<1> QED
  BY <1>1, <1>2, PTL DEF Spec

\* Every variable has its type.
THEOREM TypesOK ==
    Spec => []TypeOK
<1>1. RecordsInv => TypeOK
  BY DEF RecordsInv
<1> QED
  BY <1>1, RecordsInductive, PTL

\* The file of a session holds records of that session only, whatever the
\* callback of the timer was doing when the session before it ended.
THEOREM RecordsPure ==
    Spec => []SessionPure
<1>1. RecordsInv => SessionPure
  <2> SUFFICES ASSUME RecordsInv, session = "START"
               PROVE  /\ \A i \in DOMAIN events : events[i].session = id
                      /\ \A i \in DOMAIN file.records : file.records[i].session = id
                      /\ \A i \in DOMAIN file.extent : file.extent[i].session = id
    BY DEF SessionPure
  <2>1. /\ events \in Seq(Record) /\ file.records \in Seq(Record) /\ file.extent \in Seq(Record)
        /\ \A i \in DOMAIN events : events[i].session = id
        /\ IsPrefix(file.records, events) /\ IsPrefix(file.extent, events)
    BY DEF RecordsInv, TypeOK, EventsPure, Beginnings
  <2>2. ASSUME NEW s \in Seq(Record), IsPrefix(s, events), NEW i \in DOMAIN s
        PROVE  s[i].session = id
    <3>1. /\ Len(s) <= Len(events) /\ \A j \in 1..Len(s) : s[j] = events[j]
          /\ Len(s) \in Nat /\ Len(events) \in Nat
          /\ DOMAIN s = 1..Len(s) /\ DOMAIN events = 1..Len(events)
      BY <2>1, <2>2, PrefixElements, LenProperties
    <3>2. i \in DOMAIN events /\ s[i] = events[i]
      BY <3>1
    <3>3. QED
      BY <2>1, <3>2
  <2>3. QED
    BY <2>1, <2>2
<1> QED
  BY <1>1, RecordsInductive, PTL

\* Whatever two updates at the same time do to the file, the next one that is
\* alone leaves in it all that has been collected and nothing else.
THEOREM FilesComplete ==
    Spec => []FileComplete
<1>1. RecordsInv => FileComplete
  BY DEF RecordsInv
<1> QED
  BY <1>1, RecordsInductive, PTL

\* The state of the network and the cell are in the file.
THEOREM NetworksTold ==
    Spec => []NetworkTold
<1>1. RecordsInv => NetworkTold
  <2> SUFFICES ASSUME RecordsInv, Quiet, clean, ~lost, session = "START"
               PROVE  \E i \in DOMAIN file.records :
                         /\ file.records[i].kind \in {"initial", "network"}
                         /\ file.records[i].value = network
    BY DEF NetworkTold
  <2>1. file.records = events
    BY DEF RecordsInv, FileComplete
  <2>2. ~ \E t \in Thread : Collecting(t, "network", network)
    BY DEF Quiet, Updating, Collecting
  <2>3. QED
    BY <2>1, <2>2 DEF RecordsInv, NetworkCollected
<1> QED
  BY <1>1, RecordsInductive, PTL

\* What is collected as the last record of a kind is told by a complete file.
LEMMA LastToldIs ==
    ASSUME NEW kind, NEW state, NEW before, LastIs(file.records, kind, state, before)
    PROVE  LastTells(kind, state, before)
<1> DEFINE told == {i \in DOMAIN file.records : file.records[i].kind = kind}
<1>1. CASE state = before /\ \A i \in DOMAIN file.records : file.records[i].kind # kind
  BY <1>1 DEF LastTells
<1>2. ASSUME NEW i \in DOMAIN file.records, file.records[i].kind = kind,
             file.records[i].value = <<state, "">>,
             \A j \in DOMAIN file.records : file.records[j].kind = kind => j <= i
      PROVE  LastTells(kind, state, before)
  <2>1. i \in told /\ \A j \in told : j <= i
    BY <1>2
  <2>2. QED
    BY <1>2, <2>1 DEF LastTells
<1> QED
  BY <1>1, <1>2 DEF LastIs

\* The last record of the call in the file tells its state, all but the dial's.
THEOREM CallsTold ==
    Spec => []CallTold
<1>1. RecordsInv => CallTold
  <2> SUFFICES ASSUME RecordsInv, Quiet, clean, ~lost, session = "START"
               PROVE  LastTells("call", call, "DIAL")
    BY DEF CallTold
  <2>1. file.records = events
    BY DEF RecordsInv, FileComplete
  <2>2. step["handler"] # "collect"
    BY DEF Quiet, Updating, Thread
  <2>3. LastIs(file.records, "call", call, "DIAL")
    BY <2>1, <2>2 DEF RecordsInv, CallCollected, ChangeCollected
  <2>4. QED
    BY <2>3, LastToldIs
<1> QED
  BY <1>1, RecordsInductive, PTL

\* The last record of the MSD in the file tells its state, which is the one the
\* session began with if there is none.
THEOREM MsdsTold ==
    Spec => []MsdTold
<1>1. RecordsInv => MsdTold
  <2> SUFFICES ASSUME RecordsInv, Quiet, clean, ~lost, session = "START"
               PROVE  LastTells("msd", msd, msdBefore)
    BY DEF MsdTold
  <2>1. file.records = events
    BY DEF RecordsInv, FileComplete
  <2>2. step["handler"] # "collect"
    BY DEF Quiet, Updating, Thread
  <2>3. LastIs(file.records, "msd", msd, msdBefore)
    BY <2>1, <2>2 DEF RecordsInv, MsdCollected, ChangeCollected
  <2>4. QED
    BY <2>3, LastToldIs
<1> QED
  BY <1>1, RecordsInductive, PTL

\* The file of a session that has ended tells its end.
THEOREM EndsTold ==
    Spec => []EndTold
<1>1. RecordsInv => EndTold
  BY DEF RecordsInv
<1> QED
  BY <1>1, RecordsInductive, PTL
=============================================================================
