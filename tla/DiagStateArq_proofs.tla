------------------------ MODULE DiagStateArq_proofs ------------------------
(***************************************************************************)
(* Proofs about the stop-and-wait ARQ for every set of values, serial      *)
(* number width and bound.                                                 *)
(***************************************************************************)
EXTENDS DiagStateArq, TLAPS

(* What the queues hold, and what taking from and appending to them keeps. *)

\* The commands are told apart by their kind, and a reply carries its frame.
LEMMA CommandFacts ==
    /\ \A f \in Frame : Reply(f) \in FromMcuMessage /\ Reply(f) \in Command
    /\ McuRequest \in FromMcuMessage
    /\ NeedSync \in Command /\ Timeout \in Command
    /\ \A v \in Value : Update(v) \in Command
    /\ \A m \in FromMcuMessage : m \in Command
    /\ \A f : Reply(f).cmd = "REPLY" /\ Reply(f).frame = f
    /\ NeedSync.cmd # "REPLY" /\ Timeout.cmd # "REPLY" /\ McuRequest.cmd # "REPLY"
    /\ \A v : Update(v).cmd # "REPLY"
    /\ \A f : McuRequest # Reply(f) /\ NeedSync # Reply(f) /\ Timeout # Reply(f)
    /\ \A v, f : Update(v) # Reply(f)
BY DEF FromMcuMessage, Command, Reply, McuRequest, NeedSync, Timeout, Update

\* A command that is a reply is the reply with its own frame.
LEMMA ReplyForm ==
    ASSUME NEW m \in Command, m.cmd = "REPLY"
    PROVE  m = Reply(m.frame) /\ m.frame \in Frame
BY DEF FromMcuMessage, Command, Reply, McuRequest, NeedSync, Timeout, Update

\* A command that can only be the reply to one frame is not the reply to another.
LEMMA OtherReply ==
    ASSUME NEW a, NEW b, a # b, NEW m, m.cmd = "REPLY" => m.frame = a
    PROVE  m # Reply(b)
BY CommandFacts

\* Taking the head of a queue leaves the other elements in their order.
LEMMA TailFacts ==
    ASSUME NEW S, NEW q \in Seq(S), q # <<>>
    PROVE  /\ Tail(q) \in Seq(S)
           /\ Head(q) \in S /\ Head(q) = q[1] /\ 1 \in DOMAIN q
           /\ \A i \in DOMAIN Tail(q) :
                i \in Nat /\ i + 1 \in DOMAIN q /\ Tail(q)[i] = q[i + 1]
OBVIOUS

\* Appending puts one element behind the others.
LEMMA AppendFacts ==
    ASSUME NEW S, NEW q \in Seq(S), NEW e \in S
    PROVE  /\ Append(q, e) \in Seq(S)
           /\ \A i \in DOMAIN Append(q, e) :
                \/ i \in DOMAIN q /\ i <= Len(q) /\ Append(q, e)[i] = q[i]
                \/ i = Len(q) + 1 /\ Append(q, e)[i] = e
           /\ \A i \in DOMAIN q : i \in Nat /\ i <= Len(q)
OBVIOUS

\* The handler of the head command queues another one behind the rest.
LEMMA TailAppendFacts ==
    ASSUME NEW S, NEW q \in Seq(S), NEW e \in S, q # <<>>
    PROVE  /\ Append(Tail(q), e) \in Seq(S)
           /\ \A i \in DOMAIN Append(Tail(q), e) :
                \/ /\ i \in Nat /\ i < Len(q) /\ i + 1 \in DOMAIN q
                   /\ Append(Tail(q), e)[i] = q[i + 1]
                \/ i = Len(q) /\ Append(Tail(q), e)[i] = e
           /\ Len(q) \in Nat
<1>1. Tail(q) \in Seq(S) /\ Len(Tail(q)) = Len(q) - 1 /\ Len(q) \in Nat
  OBVIOUS
<1>2. Append(Tail(q), e) \in Seq(S) /\ DOMAIN Append(Tail(q), e) = 1..Len(q)
  BY <1>1
<1>3. \A i \in 1..(Len(q) - 1) : Append(Tail(q), e)[i] = q[i + 1]
  BY <1>1, TailFacts
<1>4. Append(Tail(q), e)[Len(q)] = e
  BY <1>1
<1>5. \A i \in 1..(Len(q) - 1) : i \in Nat /\ i < Len(q) /\ i + 1 \in DOMAIN q
  BY <1>1
<1>6. \A i \in 1..Len(q) : i \in 1..(Len(q) - 1) \/ i = Len(q)
  <2>1. \A n \in Nat : \A i \in 1..n : i \in 1..(n - 1) \/ i = n
    OBVIOUS
  <2>2. QED
    BY <1>1, <2>1
<1>7. ASSUME NEW i \in DOMAIN Append(Tail(q), e)
      PROVE  \/ /\ i \in Nat /\ i < Len(q) /\ i + 1 \in DOMAIN q
                /\ Append(Tail(q), e)[i] = q[i + 1]
             \/ i = Len(q) /\ Append(Tail(q), e)[i] = e
  <2>1. i \in 1..Len(q)
    BY <1>2
  <2>2. QED
    BY <2>1, <1>3, <1>4, <1>5, <1>6
<1>8. QED
  BY <1>1, <1>2, <1>7

-----------------------------------------------------------------------------
(* Type correctness.                                                       *)

\* The next serial number is one, also after the wrap.
LEMMA NextSNType == TypeOK => NextSN \in SerialNumber
BY ArqAssumption DEF TypeOK, NextSN, SerialNumber, Frame

\* A synchronisation keeps the types of what it writes.
LEMMA SyncType ==
    ASSUME TypeOK, NEW cur \in Frame, Sync(cur)
    PROVE  /\ arqOut' \in Frame
           /\ waiting' \in {"none", "armed", "expired"}
           /\ toMcu' \in Seq(Frame)
<1>1. CASE waiting # "none"
  BY <1>1 DEF Sync, TypeOK
<1>2. CASE waiting = "none"
  <2>1. arqOut' \in Frame
    BY <1>2 DEF Sync, TypeOK
  <2>2. toMcu' = Append(toMcu, arqOut') /\ waiting' = "armed"
    BY <1>2 DEF Sync
  <2>3. QED
    BY <2>1, <2>2, AppendFacts DEF TypeOK
<1>3. QED
  BY <1>1, <1>2

\* The initial state is well-typed.
LEMMA InitType == Init => TypeOK
<1> SUFFICES ASSUME Init PROVE TypeOK
  OBVIOUS
<1>1. InitFrame \in Frame /\ [sn |-> SNModulus - 1, value |-> InitValue] \in Frame
  BY ArqAssumption DEF InitFrame, Frame, SerialNumber
<1>2. cmd_queue \in Seq(Command)
  BY CommandFacts DEF Init
<1>3. QED
  BY <1>1, <1>2 DEF Init, TypeOK

\* Every step keeps the types.
LEMMA StepType == TypeOK /\ [Next]_vars => TypeOK'
<1> SUFFICES ASSUME TypeOK, [Next]_vars PROVE TypeOK'
  OBVIOUS
<1>1. CASE ExecUpdate
  <2>1. PICK v \in Value :
          /\ cmd_queue # <<>> /\ cmd_queue' = Tail(cmd_queue)
          /\ IF v = arqCurrent.value
             THEN UNCHANGED <<arqOut, arqCurrent, waiting, toMcu>>
             ELSE /\ arqCurrent' = [sn |-> NextSN, value |-> v]
                  /\ Sync(arqCurrent')
          /\ UNCHANGED <<arqIn, fromMcu, mcu, updates, restarts>>
    BY <1>1 DEF ExecUpdate, Takes
  <2>2. cmd_queue' \in Seq(Command)
    BY <2>1, TailFacts DEF TypeOK
  <2>3. CASE v = arqCurrent.value
    BY <2>1, <2>2, <2>3 DEF TypeOK
  <2>4. CASE v # arqCurrent.value
    <3>1. arqCurrent' \in Frame
      BY <2>1, <2>4, NextSNType DEF Frame
    <3>2. /\ arqOut' \in Frame /\ toMcu' \in Seq(Frame)
          /\ waiting' \in {"none", "armed", "expired"}
      BY <2>1, <2>4, <3>1, SyncType
    <3>3. QED
      BY <2>1, <2>2, <3>1, <3>2 DEF TypeOK
  <2>5. QED
    BY <2>3, <2>4
<1>2. CASE ExecNeedSync
  <2>1. cmd_queue' \in Seq(Command)
    BY <1>2, TailFacts DEF TypeOK, ExecNeedSync, Takes
  <2>2. /\ arqOut' \in Frame /\ toMcu' \in Seq(Frame)
        /\ waiting' \in {"none", "armed", "expired"}
    BY <1>2, SyncType DEF ExecNeedSync, TypeOK
  <2>3. QED
    BY <1>2, <2>1, <2>2 DEF TypeOK, ExecNeedSync
<1>3. CASE ExecMcuRequest
  <2>1. cmd_queue' \in Seq(Command)
    BY <1>3, TailFacts DEF TypeOK, ExecMcuRequest, Takes
  <2>2. /\ arqOut' \in Frame /\ toMcu' \in Seq(Frame)
        /\ waiting' \in {"none", "armed", "expired"}
    BY <1>3, SyncType DEF ExecMcuRequest, TypeOK
  <2>3. QED
    BY <1>3, <2>1, <2>2 DEF TypeOK, ExecMcuRequest
<1>4. CASE ExecReply
  <2>1. Tail(cmd_queue) \in Seq(Command)
    BY <1>4, TailFacts DEF TypeOK, ExecReply, Takes
  <2>2. Append(Tail(cmd_queue), NeedSync) \in Seq(Command)
    BY <2>1, CommandFacts, AppendFacts
  <2>3. QED
    BY <1>4, <2>1, <2>2 DEF TypeOK, ExecReply, ReceiveAck
<1>5. CASE ExecTimeout
  <2>1. Tail(cmd_queue) \in Seq(Command)
    BY <1>5, TailFacts DEF TypeOK, ExecTimeout, Takes
  <2>2. Append(Tail(cmd_queue), NeedSync) \in Seq(Command)
    BY <2>1, CommandFacts, AppendFacts
  <2>3. QED
    BY <1>5, <2>1, <2>2 DEF TypeOK, ExecTimeout
<1>6. ASSUME NEW v \in Value, UpdateDiagState(v) PROVE TypeOK'
  <2>1. cmd_queue' \in Seq(Command)
    BY <1>6, CommandFacts, AppendFacts DEF TypeOK, UpdateDiagState
  <2>2. QED
    BY <1>6, <2>1 DEF TypeOK, UpdateDiagState
<1>7. CASE TimerFires
  <2>1. cmd_queue' \in Seq(Command)
    BY <1>7, CommandFacts, AppendFacts DEF TypeOK, TimerFires
  <2>2. QED
    BY <1>7, <2>1 DEF TypeOK, TimerFires
<1>8. CASE McuReceives
  <2>1. Head(toMcu) \in Frame /\ toMcu' \in Seq(Frame)
    BY <1>8, TailFacts DEF TypeOK, McuReceives
  <2>2. fromMcu' \in Seq(FromMcuMessage)
    BY <1>8, <2>1, CommandFacts, AppendFacts DEF TypeOK, McuReceives
  <2>3. QED
    BY <1>8, <2>1, <2>2 DEF TypeOK, McuReceives
<1>9. CASE ReplyArrives
  <2>1. Head(fromMcu) \in FromMcuMessage /\ fromMcu' \in Seq(FromMcuMessage)
    BY <1>9, TailFacts DEF TypeOK, ReplyArrives
  <2>2. Head(fromMcu) \in Command
    BY <2>1, CommandFacts
  <2>3. cmd_queue' \in Seq(Command)
    BY <1>9, <2>2, AppendFacts DEF TypeOK, ReplyArrives
  <2>4. QED
    BY <1>9, <2>1, <2>3 DEF TypeOK, ReplyArrives
<1>10. CASE LoseFrame
  BY <1>10, TailFacts DEF TypeOK, LoseFrame
<1>11. CASE LoseReply
  BY <1>11, TailFacts DEF TypeOK, LoseReply
<1>12. CASE McuRestarts
  <2>1. fromMcu' \in Seq(FromMcuMessage)
    BY <1>12, CommandFacts, AppendFacts DEF TypeOK, McuRestarts
  <2>2. QED
    BY <1>12, <2>1 DEF TypeOK, McuRestarts
<1>13. CASE UNCHANGED vars
  BY <1>13 DEF vars, TypeOK
<1>14. QED
  BY <1>1, <1>2, <1>3, <1>4, <1>5, <1>6, <1>7, <1>8, <1>9, <1>10, <1>11, <1>12, <1>13
     DEF Next, CommandThread, Environment

\* The variables of the ARQ keep their types: serial numbers stay in their
\* width and every queue holds the commands and frames meant for it.
THEOREM TypeCorrect == Spec => []TypeOK
<1>1. QED
  BY InitType, StepType, PTL DEF Spec

-----------------------------------------------------------------------------
(* The pipeline invariant.                                                 *)

\* Sending Out again: with Out unchanged a copy of Out joins the frames under
\* way; Out only moves on when everything under way is the old Out.
LEMMA SyncKeepsPipeline ==
    ASSUME TypeOK, PipelineInv, NEW cur \in Frame, Sync(cur),
           cmd_queue # <<>>, cmd_queue' = Tail(cmd_queue),
           UNCHANGED <<arqIn, fromMcu, mcu>>
    PROVE  PipelineInv'
<1> USE DEF RepliesAreOut, OutStaysOut, McuSideIsOut
<1>1. CASE waiting # "none"
  <2>1. UNCHANGED <<arqOut, toMcu>>
    BY <1>1 DEF Sync
  <2>2. QED
    BY <2>1, TailFacts DEF PipelineInv, TypeOK
<1>2. CASE waiting = "none"
  <2>1. toMcu' = Append(toMcu, arqOut')
    BY <1>2 DEF Sync
  <2>2. arqOut' \in Frame
    BY <1>2 DEF Sync, TypeOK
  <2>3. \A i \in DOMAIN toMcu' :
          \/ i \in DOMAIN toMcu /\ i <= Len(toMcu) /\ toMcu'[i] = toMcu[i]
          \/ i = Len(toMcu) + 1 /\ toMcu'[i] = arqOut'
    BY <2>1, <2>2, AppendFacts DEF TypeOK
  <2>4. CASE arqOut' = arqOut
    BY <2>1, <2>2, <2>3, <2>4, TailFacts DEF PipelineInv, TypeOK
  <2>5. CASE arqOut' # arqOut
    <3>1. arqIn = arqOut
      BY <1>2, <2>5 DEF Sync
    <3>2. RepliesAreOut(cmd_queue) /\ RepliesAreOut(fromMcu) /\ McuSideIsOut
      BY <3>1 DEF PipelineInv
    <3>3. arqIn' # arqOut'
      BY <2>5, <3>1
    <3>4. \A i \in DOMAIN cmd_queue' : cmd_queue'[i] # Reply(arqOut')
      <4>1. \A i \in DOMAIN cmd_queue' : cmd_queue'[i].cmd = "REPLY" => cmd_queue'[i].frame = arqOut
        BY <3>2, TailFacts DEF TypeOK
      <4>2. QED
        BY <2>5, <4>1, OtherReply
    <3>5. \A i \in DOMAIN fromMcu' : fromMcu'[i] # Reply(arqOut')
      BY <2>5, <3>2, OtherReply
    <3>6. mcu' # arqOut'
      BY <2>2, <2>5, <3>2, ArqAssumption
    <3>7. \A i \in DOMAIN toMcu' : toMcu'[i] \in {arqOut, arqOut'}
      BY <2>3, <3>2
    <3>8. \A i, j \in DOMAIN toMcu' : i < j /\ toMcu'[i] = arqOut' => toMcu'[j] = arqOut'
      BY <2>3, <2>5, <3>2 DEF TypeOK
    <3>9. mcu' \in {arqOut, NoState}
      BY <3>2
    <3>10. QED
      BY <3>3, <3>4, <3>5, <3>6, <3>7, <3>8, <3>9 DEF PipelineInv
  <2>6. QED
    BY <2>4, <2>5
<1>3. QED
  BY <1>1, <1>2

\* The pipeline invariant holds initially.
LEMMA InitPipeline == Init => PipelineInv
BY CommandFacts
   DEF Init, PipelineInv, RepliesAreOut, OutStaysOut, McuSideIsOut, InitFrame

\* A command that is no reply changes nothing about the replies in a queue.
LEMMA NoReplyAppended ==
    ASSUME TypeOK, PipelineInv, NEW c \in Command, c.cmd # "REPLY",
           \/ cmd_queue' = Append(cmd_queue, c)
           \/ cmd_queue # <<>> /\ cmd_queue' = Append(Tail(cmd_queue), c)
           \/ cmd_queue # <<>> /\ cmd_queue' = Tail(cmd_queue),
           UNCHANGED <<arqIn, arqOut, toMcu, fromMcu, mcu>>
    PROVE  PipelineInv'
<1> USE DEF RepliesAreOut, OutStaysOut, McuSideIsOut
<1>1. CASE cmd_queue' = Append(cmd_queue, c)
  BY <1>1, AppendFacts, CommandFacts DEF PipelineInv, TypeOK
<1>2. CASE cmd_queue # <<>> /\ cmd_queue' = Tail(cmd_queue)
  BY <1>2, TailFacts DEF PipelineInv, TypeOK
<1>3. CASE cmd_queue # <<>> /\ cmd_queue' = Append(Tail(cmd_queue), c)
  <2>1. \A i \in DOMAIN cmd_queue' :
          \/ /\ i \in Nat /\ i < Len(cmd_queue) /\ i + 1 \in DOMAIN cmd_queue
             /\ cmd_queue'[i] = cmd_queue[i + 1]
          \/ i = Len(cmd_queue) /\ cmd_queue'[i] = c
    BY <1>3, TailAppendFacts DEF TypeOK
  <2>2. \A f : c # Reply(f)
    BY CommandFacts
  <2>3. RepliesAreOut(cmd_queue) => RepliesAreOut(cmd_queue)'
    BY <2>1
  <2>4. OutStaysOut(cmd_queue)'
    BY <2>1, <2>2, <1>3 DEF PipelineInv, TypeOK
  <2>5. (\E i \in DOMAIN cmd_queue' : cmd_queue'[i] = Reply(arqOut))
          => \E i \in DOMAIN cmd_queue : cmd_queue[i] = Reply(arqOut)
    BY <2>1, <2>2
  <2>6. QED
    BY <2>3, <2>4, <2>5 DEF PipelineInv
<1>4. QED
  BY <1>1, <1>2, <1>3

\* Handling a reply keeps the pipeline invariant, whatever it acknowledges.
LEMMA ReplyKeepsPipeline == TypeOK /\ PipelineInv /\ ExecReply => PipelineInv'
<1> SUFFICES ASSUME TypeOK, PipelineInv, ExecReply PROVE PipelineInv'
  OBVIOUS
<1> USE DEF RepliesAreOut, OutStaysOut, McuSideIsOut
<1>1. PICK f \in Frame :
        /\ cmd_queue # <<>> /\ Head(cmd_queue) = Reply(f)
        /\ \/ waiting = "none" /\ cmd_queue' = Tail(cmd_queue) /\ arqIn' = arqIn
           \/ ReceiveAck(f)
        /\ UNCHANGED <<arqOut, toMcu, fromMcu, mcu>>
  BY DEF ExecReply, Takes
<1>2. cmd_queue[1] = Reply(f) /\ 1 \in DOMAIN cmd_queue
  BY <1>1, TailFacts DEF TypeOK
<1>3. CASE waiting = "none" /\ cmd_queue' = Tail(cmd_queue) /\ arqIn' = arqIn
  BY <1>1, <1>3, NoReplyAppended, CommandFacts
<1>4. CASE ReceiveAck(f)
  <2>1. /\ arqIn' = f
        /\ \/ cmd_queue' = Tail(cmd_queue)
           \/ cmd_queue' = Append(Tail(cmd_queue), NeedSync)
    BY <1>4 DEF ReceiveAck
  <2>2. \A i \in DOMAIN cmd_queue' :
          \/ i \in Nat /\ 0 < i /\ i + 1 \in DOMAIN cmd_queue /\ cmd_queue'[i] = cmd_queue[i + 1]
          \/ cmd_queue'[i] = NeedSync
    <3>1. CASE cmd_queue' = Tail(cmd_queue)
      BY <1>1, <3>1 DEF TypeOK
    <3>2. CASE cmd_queue' = Append(Tail(cmd_queue), NeedSync)
      <4>1. Append(Tail(cmd_queue), NeedSync) \in Seq(Command)
        BY <1>1, TailAppendFacts, CommandFacts DEF TypeOK
      <4>2. \A i \in DOMAIN cmd_queue' : i \in Nat /\ 0 < i
        BY <3>2, <4>1
      <4>3. QED
        BY <1>1, <3>2, <4>2, TailAppendFacts, CommandFacts DEF TypeOK
    <3>3. QED
      BY <2>1, <3>1, <3>2
  <2>3. f = arqOut => \A i \in DOMAIN cmd_queue' :
          cmd_queue'[i].cmd = "REPLY" => cmd_queue'[i].frame = arqOut
    <3>1. f = arqOut => \A j \in DOMAIN cmd_queue :
            1 < j /\ cmd_queue[j].cmd = "REPLY" => cmd_queue[j].frame = arqOut
      BY <1>2 DEF PipelineInv
    <3>2. QED
      BY <2>2, <3>1, CommandFacts
  <2>4. f = arqOut => (\A i \in DOMAIN fromMcu : fromMcu[i].cmd = "REPLY" => fromMcu[i].frame = arqOut)
                      /\ McuSideIsOut
    BY <1>2 DEF PipelineInv
  <2>5. UNCHANGED <<arqOut, toMcu, fromMcu, mcu>>
    BY <1>1
  <2>6. OutStaysOut(cmd_queue') /\ UNCHANGED arqOut
        /\ ((\E i \in DOMAIN cmd_queue' : cmd_queue'[i] = Reply(arqOut))
              => \E i \in DOMAIN cmd_queue : cmd_queue[i] = Reply(arqOut))
    <3>1. \A i, j \in DOMAIN cmd_queue' :
            i < j /\ cmd_queue'[i] = Reply(arqOut) /\ cmd_queue'[j].cmd = "REPLY"
            => cmd_queue'[j].frame = arqOut
      <4>1. TAKE i, j \in DOMAIN cmd_queue'
      <4>2. HAVE i < j /\ cmd_queue'[i] = Reply(arqOut) /\ cmd_queue'[j].cmd = "REPLY"
      <4>3. i \in Nat /\ i + 1 \in DOMAIN cmd_queue /\ cmd_queue[i + 1] = Reply(arqOut)
        BY <2>2, <4>2, CommandFacts
      <4>4. j \in Nat /\ j + 1 \in DOMAIN cmd_queue /\ cmd_queue'[j] = cmd_queue[j + 1]
        BY <2>2, <4>2, CommandFacts
      <4>5. i + 1 < j + 1
        BY <4>2, <4>3, <4>4
      <4>6. QED
        BY <4>2, <4>3, <4>4, <4>5 DEF PipelineInv
    <3>2. QED
      BY <2>2, <2>5, <3>1, CommandFacts
  <2>7. QED
    BY <2>1, <2>3, <2>4, <2>5, <2>6 DEF PipelineInv
<1>5. QED
  BY <1>1, <1>3, <1>4

\* The MCU takes over the oldest frame under way and answers with it.
LEMMA McuReceivesKeepsPipeline ==
    TypeOK /\ PipelineInv /\ McuReceives => PipelineInv'
<1> SUFFICES ASSUME TypeOK, PipelineInv, McuReceives PROVE PipelineInv'
  OBVIOUS
<1> USE DEF RepliesAreOut, OutStaysOut, McuSideIsOut
<1>1. /\ toMcu # <<>> /\ mcu' = Head(toMcu) /\ toMcu' = Tail(toMcu)
      /\ fromMcu' = Append(fromMcu, Reply(Head(toMcu)))
      /\ UNCHANGED <<arqIn, arqOut, cmd_queue>>
  BY DEF McuReceives
<1>2. /\ mcu' = toMcu[1] /\ 1 \in DOMAIN toMcu /\ mcu' \in Frame
      /\ Reply(mcu') \in FromMcuMessage /\ fromMcu' = Append(fromMcu, Reply(mcu'))
  BY <1>1, TailFacts, CommandFacts DEF TypeOK
<1>3. \A i \in DOMAIN toMcu' :
        i \in Nat /\ 1 < i + 1 /\ i + 1 \in DOMAIN toMcu /\ toMcu'[i] = toMcu[i + 1]
  BY <1>1 DEF TypeOK
<1>4. PICK f \in Frame : f = mcu' /\ fromMcu' = Append(fromMcu, Reply(f))
  BY <1>2
<1>5. \A i \in DOMAIN fromMcu' :
        \/ i \in DOMAIN fromMcu /\ i <= Len(fromMcu) /\ fromMcu'[i] = fromMcu[i]
        \/ i = Len(fromMcu) + 1 /\ fromMcu'[i] = Reply(f)
  BY <1>4, AppendFacts, CommandFacts DEF TypeOK
<1>6. mcu' = arqOut => McuSideIsOut'
  BY <1>1, <1>2, <1>3 DEF PipelineInv
<1>7. RepliesAreOut(fromMcu) /\ mcu' = arqOut => RepliesAreOut(fromMcu)'
  BY <1>1, <1>4, <1>5, CommandFacts
<1>8. McuSideIsOut => mcu' = arqOut
  BY <1>2
<1>9. OutStaysOut(fromMcu)'
  <2>1. CASE f = arqOut
    BY <1>1, <1>5, <2>1, CommandFacts DEF PipelineInv
  <2>2. CASE f # arqOut
    <3>1. \A i \in DOMAIN fromMcu : fromMcu[i] # Reply(arqOut)
      BY <1>4, <1>8, <2>2 DEF PipelineInv
    <3>2. QED
      BY <1>1, <1>5, <2>2, <3>1, OtherReply, CommandFacts
  <2>3. QED
    BY <2>1, <2>2
<1>10. (\E i \in DOMAIN fromMcu' : fromMcu'[i] = Reply(arqOut)) => McuSideIsOut'
  <2>1. (\E i \in DOMAIN fromMcu' : fromMcu'[i] = Reply(arqOut)) => mcu' = arqOut
    BY <1>4, <1>5, <1>8, OtherReply, CommandFacts DEF PipelineInv
  <2>2. QED
    BY <1>6, <2>1
<1>11. mcu' \notin {arqOut, NoState} => \A i \in DOMAIN toMcu' : toMcu'[i] \in {arqOut, mcu'}
  BY <1>2, <1>3 DEF PipelineInv
<1>12. /\ \A i, j \in DOMAIN toMcu' : i < j /\ toMcu'[i] = arqOut => toMcu'[j] = arqOut
       /\ \A i, j \in DOMAIN toMcu' :
            toMcu'[i] # arqOut /\ toMcu'[j] # arqOut => toMcu'[i] = toMcu'[j]
  <2>1. \A i, j \in Nat : i < j => i + 1 < j + 1
    OBVIOUS
  <2>2. QED
    BY <1>3, <2>1 DEF PipelineInv
<1>13. mcu' = arqOut => \A i \in DOMAIN toMcu' : toMcu'[i] = arqOut
  BY <1>1, <1>6
<1>14. UNCHANGED <<arqIn, arqOut, cmd_queue>>
  BY <1>1
<1>15. QED
  BY <1>6, <1>7, <1>8, <1>9, <1>10, <1>11, <1>12, <1>13, <1>14 DEF PipelineInv

\* A message of the MCU reaches the command queue.
LEMMA ReplyArrivesKeepsPipeline ==
    TypeOK /\ PipelineInv /\ ReplyArrives => PipelineInv'
<1> SUFFICES ASSUME TypeOK, PipelineInv, ReplyArrives PROVE PipelineInv'
  OBVIOUS
<1> USE DEF RepliesAreOut, OutStaysOut, McuSideIsOut
<1> DEFINE m == Head(fromMcu)
<1>1. /\ fromMcu # <<>> /\ cmd_queue' = Append(cmd_queue, m) /\ fromMcu' = Tail(fromMcu)
      /\ UNCHANGED <<arqIn, arqOut, toMcu, mcu>>
  BY DEF ReplyArrives
<1>2. m = fromMcu[1] /\ 1 \in DOMAIN fromMcu /\ m \in Command
  BY <1>1, TailFacts, CommandFacts DEF TypeOK
<1>3. \A i \in DOMAIN fromMcu' :
        i \in Nat /\ 1 < i + 1 /\ i + 1 \in DOMAIN fromMcu /\ fromMcu'[i] = fromMcu[i + 1]
  BY <1>1 DEF TypeOK
<1>4. \A i \in DOMAIN cmd_queue' :
        \/ i \in DOMAIN cmd_queue /\ i <= Len(cmd_queue) /\ cmd_queue'[i] = cmd_queue[i]
        \/ i = Len(cmd_queue) + 1 /\ cmd_queue'[i] = m
  BY <1>1, <1>2, AppendFacts DEF TypeOK
<1> HIDE DEF m
<1>5. m = Reply(arqOut) => RepliesAreOut(fromMcu') /\ McuSideIsOut
  <2>1. m = Reply(arqOut) => McuSideIsOut
    BY <1>2 DEF PipelineInv
  <2>2. m = Reply(arqOut) => \A j \in DOMAIN fromMcu :
          1 < j /\ fromMcu[j].cmd = "REPLY" => fromMcu[j].frame = arqOut
    BY <1>2 DEF PipelineInv
  <2>3. QED
    BY <1>3, <2>1, <2>2
<1>6. RepliesAreOut(fromMcu) => (m.cmd = "REPLY" => m = Reply(arqOut)) /\ RepliesAreOut(fromMcu')
  BY <1>2, <1>3, ReplyForm
<1>7. RepliesAreOut(fromMcu) /\ RepliesAreOut(cmd_queue) => RepliesAreOut(cmd_queue')
  BY <1>4, <1>6, CommandFacts
<1>8. OutStaysOut(cmd_queue')
  <2>1. CASE \E i \in DOMAIN cmd_queue : cmd_queue[i] = Reply(arqOut)
    <3>1. m.cmd = "REPLY" => m.frame = arqOut
      BY <1>6, <2>1, CommandFacts DEF PipelineInv
    <3>2. QED
      BY <1>4, <3>1 DEF PipelineInv, TypeOK
  <2>2. CASE ~\E i \in DOMAIN cmd_queue : cmd_queue[i] = Reply(arqOut)
    <3>1. \A i \in DOMAIN cmd_queue' : cmd_queue'[i] = Reply(arqOut) => i = Len(cmd_queue) + 1
      BY <1>4, <2>2
    <3>2. \A j \in DOMAIN cmd_queue' : j <= Len(cmd_queue) + 1
      BY <1>4 DEF TypeOK
    <3>3. \A i, j \in DOMAIN cmd_queue' : i \in Nat /\ j \in Nat
      BY <1>1, <1>2, AppendFacts DEF TypeOK
    <3>4. QED
      BY <3>1, <3>2, <3>3 DEF TypeOK
  <2>3. QED
    BY <2>1, <2>2
<1>9. (\E i \in DOMAIN cmd_queue' : cmd_queue'[i] = Reply(arqOut))
        => RepliesAreOut(fromMcu') /\ McuSideIsOut
  BY <1>4, <1>5, <1>6 DEF PipelineInv
<1>10. OutStaysOut(fromMcu')
  <2>1. \A i, j \in Nat : i < j => i + 1 < j + 1
    OBVIOUS
  <2>2. QED
    BY <1>3, <2>1 DEF PipelineInv
<1>11. (\E i \in DOMAIN fromMcu' : fromMcu'[i] = Reply(arqOut)) => McuSideIsOut
  BY <1>3 DEF PipelineInv
<1>12. UNCHANGED <<arqIn, arqOut, toMcu, mcu>>
  BY <1>1
<1>13. QED
  BY <1>6, <1>7, <1>8, <1>9, <1>10, <1>11, <1>12 DEF PipelineInv

\* Losing a message leaves a shorter chain.
LEMMA LossKeepsPipeline ==
    TypeOK /\ PipelineInv /\ (LoseFrame \/ LoseReply) => PipelineInv'
<1> SUFFICES ASSUME TypeOK, PipelineInv, LoseFrame \/ LoseReply PROVE PipelineInv'
  OBVIOUS
<1> USE DEF RepliesAreOut, OutStaysOut, McuSideIsOut
<1>1. CASE LoseFrame
  BY <1>1, TailFacts DEF PipelineInv, TypeOK, LoseFrame
<1>2. CASE LoseReply
  BY <1>2, TailFacts DEF PipelineInv, TypeOK, LoseReply
<1>3. QED
  BY <1>1, <1>2

\* After a restart the MCU holds nothing; its request carries no frame.
LEMMA RestartKeepsPipeline ==
    TypeOK /\ PipelineInv /\ McuRestarts => PipelineInv'
<1> SUFFICES ASSUME TypeOK, PipelineInv, McuRestarts PROVE PipelineInv'
  OBVIOUS
<1> USE DEF RepliesAreOut, OutStaysOut, McuSideIsOut
<1>1. /\ mcu' = NoState /\ fromMcu' = Append(fromMcu, McuRequest)
      /\ UNCHANGED <<arqIn, arqOut, cmd_queue, toMcu>>
  BY DEF McuRestarts
<1>2. \A i \in DOMAIN fromMcu' :
        \/ i \in DOMAIN fromMcu /\ i <= Len(fromMcu) /\ fromMcu'[i] = fromMcu[i]
        \/ i = Len(fromMcu) + 1 /\ fromMcu'[i] = McuRequest
  BY <1>1, AppendFacts, CommandFacts DEF TypeOK
<1>3. mcu' # arqOut
  BY <1>1, ArqAssumption DEF TypeOK
<1>4. QED
  BY <1>1, <1>2, <1>3, CommandFacts DEF PipelineInv, TypeOK

\* Every step keeps the pipeline invariant.
LEMMA StepPipeline == TypeOK /\ PipelineInv /\ [Next]_vars => PipelineInv'
<1> SUFFICES ASSUME TypeOK, PipelineInv, [Next]_vars PROVE PipelineInv'
  OBVIOUS
<1>1. CASE ExecUpdate
  <2>1. PICK v \in Value :
          /\ cmd_queue # <<>> /\ cmd_queue' = Tail(cmd_queue)
          /\ IF v = arqCurrent.value
             THEN UNCHANGED <<arqOut, arqCurrent, waiting, toMcu>>
             ELSE /\ arqCurrent' = [sn |-> NextSN, value |-> v]
                  /\ Sync(arqCurrent')
          /\ UNCHANGED <<arqIn, fromMcu, mcu, updates, restarts>>
    BY <1>1 DEF ExecUpdate, Takes
  <2>2. CASE v = arqCurrent.value
    BY <2>1, <2>2, NoReplyAppended, CommandFacts
  <2>3. CASE v # arqCurrent.value
    <3>1. [sn |-> NextSN, value |-> v] \in Frame
      BY NextSNType DEF Frame
    <3>2. PICK cur \in Frame : Sync(cur)
      BY <2>1, <2>3, <3>1
    <3>3. QED
      BY <2>1, <3>2, SyncKeepsPipeline
  <2>4. QED
    BY <2>2, <2>3
<1>2. CASE ExecNeedSync
  BY <1>2, SyncKeepsPipeline DEF ExecNeedSync, Takes, TypeOK
<1>3. CASE ExecMcuRequest
  <2>1. CASE SyncsOnRequest
    BY <1>3, <2>1, SyncKeepsPipeline DEF ExecMcuRequest, Takes, TypeOK
  <2>2. CASE ~SyncsOnRequest
    BY <1>3, <2>2, NoReplyAppended, CommandFacts DEF ExecMcuRequest, Takes
  <2>3. QED
    BY <2>1, <2>2
<1>4. CASE ExecReply
  BY <1>4, ReplyKeepsPipeline
<1>5. CASE ExecTimeout
  <2>1. /\ cmd_queue # <<>>
        /\ cmd_queue' = Tail(cmd_queue) \/ cmd_queue' = Append(Tail(cmd_queue), NeedSync)
        /\ UNCHANGED <<arqIn, arqOut, toMcu, fromMcu, mcu>>
    BY <1>5 DEF ExecTimeout, Takes
  <2>2. QED
    BY <2>1, NoReplyAppended, CommandFacts
<1>6. ASSUME NEW v \in Value, UpdateDiagState(v) PROVE PipelineInv'
  <2>1. cmd_queue' = Append(cmd_queue, Update(v)) /\ UNCHANGED <<arqIn, arqOut, toMcu, fromMcu, mcu>>
    BY <1>6 DEF UpdateDiagState
  <2>2. QED
    BY <2>1, NoReplyAppended, CommandFacts
<1>7. CASE TimerFires
  BY <1>7, NoReplyAppended, CommandFacts DEF TimerFires
<1>8. CASE McuReceives
  BY <1>8, McuReceivesKeepsPipeline
<1>9. CASE ReplyArrives
  BY <1>9, ReplyArrivesKeepsPipeline
<1>10. CASE LoseFrame \/ LoseReply
  BY <1>10, LossKeepsPipeline
<1>11. CASE McuRestarts
  BY <1>11, RestartKeepsPipeline
<1>12. CASE UNCHANGED vars
  BY <1>12 DEF vars, PipelineInv, RepliesAreOut, OutStaysOut, McuSideIsOut
<1>13. QED
  BY <1>1, <1>2, <1>3, <1>4, <1>5, <1>6, <1>7, <1>8, <1>9, <1>10, <1>11, <1>12
     DEF Next, CommandThread, Environment

\* What the command thread takes for acknowledged and what is under way form a
\* chain in which nothing older than the frame before Out is left.
THEOREM PipelineOrdered == Spec => []PipelineInv
<1>1. QED
  BY InitType, StepType, InitPipeline, StepPipeline, PTL DEF Spec

\* An acknowledgement is never wrong: whenever the last acknowledged frame is
\* Out, an MCU that runs holds Out.
THEOREM AckedIsDeliveredAlways == Spec => []AckedIsDelivered
<1>1. PipelineInv => AckedIsDelivered
  BY DEF PipelineInv, AckedIsDelivered, McuSideIsOut
<1>2. QED
  BY <1>1, PipelineOrdered, PTL

-----------------------------------------------------------------------------
(* Every step of the ARQ is a step of DiagStateSync or leaves its state.   *)

\* A synchronisation publishes the current frame or changes it, abstractly.
LEMMA SyncStep ==
    ASSUME TypeOK, PipelineInv, NEW cur \in Frame, Sync(cur), arqCurrent' = cur, mcu' = mcu
    PROVE  Abstract!Publish \/ Abstract!Change
<1>1. CASE waiting = "none" /\ arqOut = arqIn
  <2>1. arqOut' = cur
    BY <1>1 DEF Sync
  <2>2. mcu \in {arqOut, NoState}
    BY <1>1 DEF PipelineInv, McuSideIsOut
  <2>3. QED
    BY <2>1, <2>2 DEF Abstract!Publish
<1>2. CASE ~(waiting = "none" /\ arqOut = arqIn)
  <2>1. arqOut' = arqOut
    BY <1>2 DEF Sync
  <2>2. QED
    BY <2>1 DEF Abstract!Change
<1>3. QED
  BY <1>1, <1>2

\* Every step is a step of the abstract specification or a stutter.
LEMMA StepSimulation ==
    TypeOK /\ PipelineInv /\ [Next]_vars => [Abstract!Next]_(Abstract!vars)
<1> SUFFICES ASSUME TypeOK, PipelineInv, [Next]_vars
             PROVE  Abstract!Next \/ UNCHANGED <<arqCurrent, arqOut, mcu>>
  BY DEF Abstract!vars
<1>1. CASE ExecUpdate
  <2>1. PICK v \in Value :
          /\ IF v = arqCurrent.value
             THEN UNCHANGED <<arqOut, arqCurrent, waiting, toMcu>>
             ELSE /\ arqCurrent' = [sn |-> NextSN, value |-> v]
                  /\ Sync(arqCurrent')
          /\ UNCHANGED mcu
    BY <1>1 DEF ExecUpdate
  <2>2. CASE v = arqCurrent.value
    BY <2>1, <2>2
  <2>3. CASE v # arqCurrent.value
    <3>1. [sn |-> NextSN, value |-> v] \in Frame
      BY NextSNType DEF Frame
    <3>2. PICK cur \in Frame : Sync(cur) /\ arqCurrent' = cur
      BY <2>1, <2>3, <3>1
    <3>3. QED
      BY <2>1, <3>2, SyncStep DEF Abstract!Next
  <2>4. QED
    BY <2>2, <2>3
<1>2. CASE ExecNeedSync
  BY <1>2, SyncStep DEF ExecNeedSync, Abstract!Next, TypeOK
<1>3. CASE ExecMcuRequest
  BY <1>3, SyncStep DEF ExecMcuRequest, Abstract!Next, TypeOK
<1>4. CASE McuReceives
  <2>1. /\ mcu' = toMcu[1] /\ 1 \in DOMAIN toMcu /\ mcu' \in Frame
        /\ UNCHANGED <<arqCurrent, arqOut>>
    BY <1>4, TailFacts DEF McuReceives, TypeOK
  <2>2. CASE mcu' = arqOut
    BY <2>1, <2>2 DEF Abstract!Next, Abstract!Deliver
  <2>3. CASE mcu' # arqOut /\ mcu = NoState
    BY <2>1, <2>3 DEF Abstract!Next, Abstract!CatchUp
  <2>4. CASE mcu' # arqOut /\ mcu # NoState
    <3>1. mcu' = mcu
      BY <2>1, <2>4 DEF PipelineInv
    <3>2. QED
      BY <2>1, <3>1
  <2>5. QED
    BY <2>2, <2>3, <2>4
<1>5. CASE McuRestarts
  BY <1>5 DEF McuRestarts, Abstract!Next, Abstract!Restart
<1>6. CASE \/ ExecReply \/ ExecTimeout \/ (\E v \in Value : UpdateDiagState(v))
           \/ TimerFires \/ ReplyArrives \/ LoseFrame \/ LoseReply \/ UNCHANGED vars
  BY <1>6 DEF ExecReply, ExecTimeout, UpdateDiagState, TimerFires, ReplyArrives,
              LoseFrame, LoseReply, vars
<1>7. QED
  BY <1>1, <1>2, <1>3, <1>4, <1>5, <1>6 DEF Next, CommandThread, Environment

\* The ARQ implements the synchronised copy: the MCU sees every published state
\* once it runs, in order, and Out never moves on before it has arrived.
THEOREM ArqImplementsSync == Spec => ImplementsSync
<1>1. Init => Abstract!Init
  BY ArqAssumption DEF Init, Abstract!Init, InitFrame, Frame, SerialNumber
<1>2. QED
  BY <1>1, StepSimulation, TypeCorrect, PipelineOrdered, PTL
     DEF Spec, ImplementsSync, Abstract!Spec
=============================================================================
