------------------------- MODULE CommandGate_proofs ------------------------
(***************************************************************************)
(* Proofs about the command thread for every mix of commands and every     *)
(* number of them.                                                         *)
(***************************************************************************)
EXTENDS CommandGate, FiniteSetTheorems, SequenceTheorems, TLAPS

ACallCmd == [id : Nat \ {0}, kind : ACallGated]
Settled  == [id : Nat \ {0}, kind : Kind, outcome : Outcome]

-----------------------------------------------------------------------------
(* Counting a command in a sequence.                                       *)

At(q, n) == {i \in DOMAIN q : q[i].id = n}

\* A sequence holds a command a finite number of times.
LEMMA CountType ==
    ASSUME NEW S, NEW q \in Seq(S), NEW n
    PROVE  /\ IsFiniteSet(At(q, n)) /\ CountIn(q, n) = Cardinality(At(q, n))
           /\ CountIn(q, n) \in Nat
<1>1. DOMAIN q = 1..Len(q) /\ Len(q) \in Nat
  BY LenProperties
<1>2. IsFiniteSet(DOMAIN q)
  BY <1>1, FS_Interval
<1>3. At(q, n) \in SUBSET DOMAIN q
  BY DEF At
<1>4. IsFiniteSet(At(q, n))
  BY <1>2, <1>3, FS_Subset
<1>5. CountIn(q, n) = Cardinality(At(q, n))
  BY DEF CountIn, At
<1> QED
  BY <1>4, <1>5, FS_CardinalityType

\* The counts of two sequences add up.
LEMMA CountConcat ==
    ASSUME NEW S, NEW p \in Seq(S), NEW q \in Seq(S), NEW n
    PROVE  CountIn(p \o q, n) = CountIn(p, n) + CountIn(q, n)
<1> DEFINE l == Len(p)
           Q == At(q, n)
           Q2 == {i \in (l + 1)..(l + Len(q)) : q[i - l].id = n}
           f == [i \in Q |-> i + l]
<1>1. /\ l \in Nat /\ Len(q) \in Nat
      /\ DOMAIN p = 1..l /\ DOMAIN q = 1..Len(q)
      /\ p \o q \in Seq(S) /\ DOMAIN (p \o q) = 1..(l + Len(q))
      /\ \A i \in 1..(l + Len(q)) : (p \o q)[i] = IF i <= l THEN p[i] ELSE q[i - l]
  BY ConcatProperties, LenProperties
<1>2. Q = {i \in 1..Len(q) : q[i].id = n}
  BY <1>1 DEF At
<1>3. f \in Bijection(Q, Q2)
  <2> HIDE DEF Q
  <2>1. \A i \in Q : i \in 1..Len(q) /\ q[i].id = n
    BY <1>2
  <2>2. \A i \in Q : i + l \in Q2
    <3> SUFFICES ASSUME NEW i \in Q PROVE i + l \in Q2
      OBVIOUS
    <3>1. i + l \in (l + 1)..(l + Len(q)) /\ (i + l) - l = i
      BY <1>1, <2>1
    <3>2. QED
      BY <2>1, <3>1
  <2>3. f \in [Q -> Q2]
    BY <2>2
  <2>4. \A i, j \in Q : f[i] = f[j] => i = j
    BY <1>1, <2>1
  <2>5. \A j \in Q2 : \E i \in Q : f[i] = j
    <3> SUFFICES ASSUME NEW j \in Q2 PROVE \E i \in Q : f[i] = j
      OBVIOUS
    <3>1. j - l \in Q /\ (j - l) + l = j
      BY <1>1, <1>2
    <3>2. QED
      BY <3>1
  <2>6. QED
    BY <2>3, <2>4, <2>5 DEF Bijection, Injection, Surjection, IsInjective
<1>4. IsFiniteSet(Q2) /\ Cardinality(Q2) = Cardinality(Q)
  BY <1>3, CountType, FS_Bijection DEF ExistsBijection
<1>5. At(p \o q, n) = At(p, n) \cup Q2 /\ At(p, n) \cap Q2 = {}
  BY <1>1 DEF At
<1>6. Cardinality(At(p \o q, n)) = Cardinality(At(p, n)) + Cardinality(Q2)
  <2> HIDE DEF Q2
  <2>1. IsFiniteSet(At(p, n)) /\ IsFiniteSet(Q2) /\ Cardinality({}) = 0
    BY <1>4, CountType, FS_EmptySet
  <2>2. Cardinality(At(p, n)) \in Nat /\ Cardinality(Q2) \in Nat
    BY <2>1, FS_CardinalityType
  <2>3. Cardinality(At(p, n) \cup Q2)
          = Cardinality(At(p, n)) + Cardinality(Q2) - Cardinality(At(p, n) \cap Q2)
    BY <2>1, FS_Union
  <2>4. Cardinality(At(p, n) \cap Q2) = 0
    BY Zenon, <1>5, <2>1
  <2>5. Cardinality(At(p \o q, n)) = Cardinality(At(p, n) \cup Q2)
    BY Zenon, <1>5
  <2>6. QED
    BY <2>2, <2>3, <2>4, <2>5
<1> HIDE DEF Q, Q2
<1>7. CountIn(p \o q, n) = Cardinality(At(p \o q, n))
  BY <1>1, CountType
<1> QED
  BY <1>4, <1>6, <1>7, CountType DEF Q

Bit(c, n) == IF c.id = n THEN 1 ELSE 0

\* No command.
LEMMA CountEmpty ==
    ASSUME NEW n
    PROVE  CountIn(<<>>, n) = 0
<1>1. {i \in DOMAIN <<>> : <<>>[i].id = n} = {}
  OBVIOUS
<1> QED
  BY <1>1, FS_EmptySet DEF CountIn

\* One command.
LEMMA CountSingle ==
    ASSUME NEW c, NEW n
    PROVE  CountIn(<<c>>, n) = Bit(c, n)
<1>1. DOMAIN <<c>> = {1} /\ <<c>>[1] = c
  OBVIOUS
<1>2. {i \in DOMAIN <<c>> : <<c>>[i].id = n} = IF c.id = n THEN {1} ELSE {}
  BY <1>1
<1>3. Cardinality({1}) = 1 /\ Cardinality({}) = 0
  BY FS_Singleton, FS_EmptySet
<1> QED
  BY <1>2, <1>3 DEF CountIn, Bit

\* A command at the end.
LEMMA CountAppend ==
    ASSUME NEW S, NEW q \in Seq(S), NEW c \in S, NEW n
    PROVE  CountIn(Append(q, c), n) = CountIn(q, n) + Bit(c, n)
<1>1. Append(q, c) = q \o <<c>> /\ <<c>> \in Seq(S)
  BY AppendIsConcat
<1>2. CountIn(q \o <<c>>, n) = CountIn(q, n) + CountIn(<<c>>, n)
  BY <1>1, CountConcat
<1> QED
  BY <1>1, <1>2, CountSingle

\* A command at the front.
LEMMA CountTail ==
    ASSUME NEW S, NEW q \in Seq(S), q # <<>>, NEW n
    PROVE  CountIn(q, n) = CountIn(Tail(q), n) + Bit(Head(q), n)
<1>1. /\ Head(q) \in S /\ Tail(q) \in Seq(S) /\ <<Head(q)>> \in Seq(S)
      /\ q = <<Head(q)>> \o Tail(q)
  BY HeadTailProperties, ConcatProperties
<1>2. CountIn(q, n) = CountIn(<<Head(q)>>, n) + CountIn(Tail(q), n)
  BY <1>1, CountConcat
<1>3. CountIn(Tail(q), n) \in Nat /\ Bit(Head(q), n) \in Nat
  BY <1>1, CountType DEF Bit
<1> QED
  BY <1>2, <1>3, CountSingle

-----------------------------------------------------------------------------
(* The inductive invariant.                                                *)

\* A command with a number that has been given out is in one place; one with
\* another number is nowhere.
Placed ==
    \A n \in Nat \ {0} :
        CountIn(cmd_queue, n) + CountIn(parked, n) + CountIn(settled, n)
            = IF n <= accepted THEN 1 ELSE 0

\* The flags say how the latest start was answered, while they count.
FlagsAgree ==
    /\ needResponse /\ drivingResult => routine.start = "positive" /\ routine.cancelPut
    /\ needResponse /\ ~drivingResult => routine.start \in {"NRC22", "NRC24"}

GateInv == TypeOK /\ NothingStranded /\ Placed /\ FlagsAgree /\ RoutineAgrees

\* The command at the front of the queue, and the queue without it.
LEMMA FrontFacts ==
    ASSUME TypeOK, HasNext
    PROVE  /\ Front \in Cmd /\ Tail(cmd_queue) \in Seq(Cmd)
           /\ Front.kind \in ACallGated => Front \in ACallCmd
           /\ \A o \in Outcome : [id |-> Front.id, kind |-> Front.kind, outcome |-> o] \in Settled
           /\ \A n : CountIn(cmd_queue, n) = CountIn(Tail(cmd_queue), n) + Bit(Front, n)
<1>1. cmd_queue \in Seq(Cmd) /\ cmd_queue # <<>>
  BY DEF TypeOK, HasNext
<1>2. Front \in Cmd /\ Tail(cmd_queue) \in Seq(Cmd)
  BY <1>1, HeadTailProperties DEF Front
<1>3. \A n : CountIn(cmd_queue, n) = CountIn(Tail(cmd_queue), n) + Bit(Front, n)
  BY <1>1, CountTail DEF Front
<1> QED
  BY <1>2, <1>3 DEF Cmd, ACallCmd, Settled

\* What settling the front does to the sequence of what is settled.
LEMMA SettleFacts ==
    ASSUME TypeOK, HasNext, NEW o \in Outcome, Settle(o)
    PROVE  /\ settled' \in Seq(Settled)
           /\ \A n : CountIn(settled', n) = CountIn(settled, n) + Bit(Front, n)
<1> DEFINE c == [id |-> Front.id, kind |-> Front.kind, outcome |-> o]
<1>1. settled \in Seq(Settled) /\ c \in Settled /\ settled' = Append(settled, c)
  BY FrontFacts DEF TypeOK, Settled, Settle
<1>2. \A n : Bit(c, n) = Bit(Front, n)
  BY DEF Bit
<1> HIDE DEF c
<1> QED
  BY <1>1, <1>2, CountAppend, AppendProperties

\* The front is settled, nothing else moves.
LEMMA SettlingPlaced ==
    ASSUME GateInv, HasNext, NEW o \in Outcome, Settle(o),
           cmd_queue' = Tail(cmd_queue), parked' = parked, accepted' = accepted
    PROVE  cmd_queue' \in Seq(Cmd) /\ settled' \in Seq(Settled) /\ Placed'
<1>1. TypeOK /\ Placed
  BY DEF GateInv
<1>2. cmd_queue' \in Seq(Cmd) /\ settled' \in Seq(Settled)
  BY <1>1, FrontFacts, SettleFacts
<1>3. ASSUME NEW n \in Nat \ {0}
      PROVE  CountIn(cmd_queue', n) + CountIn(parked', n) + CountIn(settled', n)
               = IF n <= accepted' THEN 1 ELSE 0
  <2>1. CountIn(cmd_queue, n) + CountIn(parked, n) + CountIn(settled, n)
          = IF n <= accepted THEN 1 ELSE 0
    BY <1>1 DEF Placed
  <2>2. /\ CountIn(cmd_queue, n) = CountIn(cmd_queue', n) + Bit(Front, n)
        /\ CountIn(settled', n) = CountIn(settled, n) + Bit(Front, n)
    BY <1>1, FrontFacts, SettleFacts
  <2>3. /\ CountIn(cmd_queue', n) \in Nat /\ CountIn(parked, n) \in Nat
        /\ CountIn(settled, n) \in Nat /\ Bit(Front, n) \in Nat
    BY <1>1, <1>2, CountType DEF TypeOK, Bit
  <2>4. QED
    BY <2>1, <2>2, <2>3
<1> QED
  BY <1>2, <1>3 DEF Placed

\* A command is accepted.
LEMMA AcceptStep ==
    ASSUME GateInv, NEW kind \in Kind, Accept(kind)
    PROVE  GateInv'
<1> DEFINE c == [id |-> accepted + 1, kind |-> kind]
<1>1. /\ TypeOK /\ accepted \in Nat /\ accepted' = accepted + 1 /\ reports' \in Nat
      /\ c \in Cmd /\ cmd_queue \in Seq(Cmd) /\ cmd_queue' = Append(cmd_queue, c)
      /\ parked' = parked /\ settled' = settled
  BY DEF GateInv, TypeOK, Cmd, Accept, gateVars
<1>2. TypeOK'
  <2> HIDE DEF c
  <2>1. cmd_queue' \in Seq(Cmd)
    BY <1>1, AppendProperties
  <2>2. QED
    BY <1>1, <2>1 DEF Accept, gateVars, routineVars, TypeOK
<1>3. Placed'
  <2> SUFFICES ASSUME NEW n \in Nat \ {0}
               PROVE  CountIn(cmd_queue', n) + CountIn(parked', n) + CountIn(settled', n)
                        = IF n <= accepted' THEN 1 ELSE 0
    BY DEF Placed
  <2>1. CountIn(cmd_queue, n) + CountIn(parked, n) + CountIn(settled, n)
          = IF n <= accepted THEN 1 ELSE 0
    BY DEF GateInv, Placed
  <2>2. Bit(c, n) = IF n = accepted + 1 THEN 1 ELSE 0
    BY DEF Bit
  <2> HIDE DEF c
  <2>3. CountIn(cmd_queue', n) = CountIn(cmd_queue, n) + Bit(c, n)
    BY <1>1, CountAppend
  <2>4. /\ CountIn(cmd_queue, n) \in Nat /\ CountIn(parked, n) \in Nat
        /\ CountIn(settled, n) \in Nat
    BY <1>1, CountType DEF TypeOK
  <2>5. QED
    BY <1>1, <2>1, <2>2, <2>3, <2>4
<1>4. NothingStranded' /\ FlagsAgree' /\ RoutineAgrees'
  BY DEF GateInv, Accept, gateVars, routineVars, NothingStranded, FlagsAgree, RoutineAgrees
<1> QED
  BY <1>2, <1>3, <1>4 DEF GateInv

\* A command of the aCall is parked.
LEMMA ParkStep ==
    ASSUME GateInv, ParkACall
    PROVE  GateInv'
<1>1. /\ TypeOK /\ HasNext /\ ~connected /\ connected' = connected
      /\ cmd_queue' = Tail(cmd_queue) /\ settled' = settled /\ accepted' = accepted
      /\ parked \in Seq(ACallCmd) /\ Front \in ACallCmd /\ parked' = Append(parked, Front)
  BY FrontFacts DEF GateInv, ParkACall, NeedsCover, Parked, TypeOK, ACallCmd
<1>2. parked' \in Seq(ACallCmd) /\ cmd_queue' \in Seq(Cmd)
  BY <1>1, FrontFacts, AppendProperties
<1>3. announced' \subseteq Nat
  BY <1>1, FrontFacts DEF ParkACall, Announce, TypeOK, Cmd
<1>4. TypeOK'
  BY <1>1, <1>2, <1>3 DEF ParkACall, routineVars, TypeOK, ACallCmd
<1>5. Placed'
  <2> SUFFICES ASSUME NEW n \in Nat \ {0}
               PROVE  CountIn(cmd_queue', n) + CountIn(parked', n) + CountIn(settled', n)
                        = IF n <= accepted' THEN 1 ELSE 0
    BY DEF Placed
  <2>1. CountIn(cmd_queue, n) + CountIn(parked, n) + CountIn(settled, n)
          = IF n <= accepted THEN 1 ELSE 0
    BY DEF GateInv, Placed
  <2>2. CountIn(cmd_queue, n) = CountIn(cmd_queue', n) + Bit(Front, n)
    BY <1>1, FrontFacts
  <2>3. CountIn(parked', n) = CountIn(parked, n) + Bit(Front, n)
    BY <1>1, CountAppend
  <2>4. /\ CountIn(cmd_queue', n) \in Nat /\ CountIn(parked, n) \in Nat
        /\ CountIn(settled, n) \in Nat /\ Bit(Front, n) \in Nat
    BY <1>1, <1>2, CountType DEF TypeOK, Bit
  <2>5. QED
    BY <1>1, <2>1, <2>2, <2>3, <2>4
<1>6. NothingStranded' /\ FlagsAgree' /\ RoutineAgrees'
  BY <1>1 DEF GateInv, ParkACall, routineVars, NothingStranded, FlagsAgree, RoutineAgrees
<1> QED
  BY <1>4, <1>5, <1>6 DEF GateInv

\* The eCall process is connected: what was parked is queued again.
LEMMA ConnectedStep ==
    ASSUME GateInv, ECallConnected
    PROVE  GateInv'
<1>1. /\ TypeOK /\ HasNext /\ Settle("executed")
      /\ cmd_queue' = Tail(cmd_queue) \o parked /\ accepted' = accepted
      /\ parked \in Seq(ACallCmd) /\ parked \in Seq(Cmd)
  <2>1. TypeOK /\ HasNext /\ Settle("executed") /\ cmd_queue' = Tail(cmd_queue) \o parked
        /\ accepted' = accepted
    BY DEF GateInv, ECallConnected, Passes, MovedBack
  <2>2. parked \in Seq(ACallCmd)
    BY <2>1 DEF TypeOK, ACallCmd
  <2>3. ACallCmd \subseteq Cmd
    BY DEF ACallCmd, Cmd, Kind
  <2>4. QED
    BY <2>1, <2>2, <2>3, SeqMonotonic
<1>2. parked' = <<>>
  <2>1. Len(parked) \in Nat /\ parked' = SubSeq(parked, Len(parked) + 1, Len(parked))
    BY <1>1, LenProperties DEF ECallConnected, MovedBack
  <2>2. QED
    BY <2>1, SubSeqEmpty
<1>3. cmd_queue' \in Seq(Cmd) /\ settled' \in Seq(Settled)
  BY <1>1, FrontFacts, SettleFacts, ConcatProperties DEF Outcome
<1>4. linkUps' \subseteq [id : Nat, accepted : Nat]
  BY <1>1, FrontFacts DEF ECallConnected, TypeOK, Cmd
<1>5. TypeOK'
  <2>1. parked' \in Seq([id : Nat \ {0}, kind : ACallGated])
    BY <1>2, EmptySeq
  <2>2. QED
    BY <1>1, <1>3, <1>4, <2>1 DEF ECallConnected, routineVars, TypeOK, Settled
<1>6. Placed'
  <2> SUFFICES ASSUME NEW n \in Nat \ {0}
               PROVE  CountIn(cmd_queue', n) + CountIn(parked', n) + CountIn(settled', n)
                        = IF n <= accepted' THEN 1 ELSE 0
    BY DEF Placed
  <2>1. CountIn(cmd_queue, n) + CountIn(parked, n) + CountIn(settled, n)
          = IF n <= accepted THEN 1 ELSE 0
    BY DEF GateInv, Placed
  <2>2. /\ CountIn(cmd_queue, n) = CountIn(Tail(cmd_queue), n) + Bit(Front, n)
        /\ Tail(cmd_queue) \in Seq(Cmd)
    BY <1>1, FrontFacts
  <2>3. CountIn(cmd_queue', n) = CountIn(Tail(cmd_queue), n) + CountIn(parked, n)
    BY <1>1, <2>2, CountConcat
  <2>4. CountIn(settled', n) = CountIn(settled, n) + Bit(Front, n)
    BY <1>1, SettleFacts DEF Outcome
  <2>5. CountIn(parked', n) = 0
    BY <1>2, CountEmpty
  <2>6. /\ CountIn(Tail(cmd_queue), n) \in Nat /\ CountIn(parked, n) \in Nat
        /\ CountIn(settled, n) \in Nat /\ Bit(Front, n) \in Nat
    BY <1>1, <2>2, CountType DEF TypeOK, Bit
  <2>7. QED
    BY <1>1, <2>1, <2>2, <2>3, <2>4, <2>5, <2>6
<1>7. NothingStranded' /\ FlagsAgree' /\ RoutineAgrees'
  BY <1>2 DEF GateInv, ECallConnected, routineVars, NothingStranded, FlagsAgree, RoutineAgrees
<1> QED
  BY <1>5, <1>6, <1>7 DEF GateInv

\* The other handlers settle the front and leave the parked commands alone.
LEMMA OtherSteps ==
    ASSUME GateInv, ConsumeECall \/ Drop \/ Forward \/ ECallDisconnected \/ DIDChanged
    PROVE  GateInv'
<1>1. PICK o \in Outcome :
         /\ TypeOK /\ HasNext /\ Settle(o) /\ accepted' = accepted
         /\ cmd_queue' = Tail(cmd_queue) /\ parked' = parked
  BY DEF GateInv, ConsumeECall, Drop, Forward, ECallDisconnected, DIDChanged, gateVars,
     Passes, Outcome
<1>2. cmd_queue' \in Seq(Cmd) /\ settled' \in Seq(Settled) /\ Placed'
  BY <1>1, SettlingPlaced
<1>3. /\ connected' \in BOOLEAN /\ aCallSupported' \in BOOLEAN
      /\ connected' => connected
  <2>1. CASE ECallDisconnected
    BY <1>1, <2>1 DEF ECallDisconnected, TypeOK
  <2>2. CASE DIDChanged
    BY <1>1, <2>2 DEF DIDChanged, TypeOK
  <2>3. CASE ConsumeECall \/ Drop \/ Forward
    BY <1>1, <2>3 DEF ConsumeECall, Drop, Forward, gateVars, TypeOK
  <2>4. QED
    BY <2>1, <2>2, <2>3
<1>4. UNCHANGED <<eCallSupported, linkUps, announced, needResponse, drivingResult,
                  routine, traffic, reports>>
  BY DEF ConsumeECall, Drop, Forward, ECallDisconnected, DIDChanged, gateVars, routineVars
<1>5. TypeOK'
  BY <1>1, <1>2, <1>3, <1>4 DEF TypeOK, Settled
<1>6. NothingStranded' /\ FlagsAgree' /\ RoutineAgrees'
  BY <1>1, <1>3, <1>4 DEF GateInv, NothingStranded, FlagsAgree, RoutineAgrees
<1> QED
  BY <1>2, <1>5, <1>6 DEF GateInv

\* The routine control.
LEMMA RoutineStep ==
    ASSUME GateInv, StartRoutine \/ RequestResult
    PROVE  GateInv'
<1>1. /\ TypeOK /\ HasNext /\ Settle("executed") /\ accepted' = accepted
      /\ cmd_queue' = Tail(cmd_queue) /\ parked' = parked
      /\ UNCHANGED <<gateVars, traffic, reports>>
  BY DEF GateInv, StartRoutine, RequestResult, gateVars, Passes
<1>2. cmd_queue' \in Seq(Cmd) /\ settled' \in Seq(Settled) /\ Placed'
  BY <1>1, SettlingPlaced DEF Outcome
<1>3. /\ needResponse' \in BOOLEAN /\ drivingResult' \in BOOLEAN
      /\ routine' \in [start : {"none", "positive", "NRC22", "NRC24"},
                       cancelPut : BOOLEAN, result : {"none", "completed", "failed"}]
      /\ FlagsAgree' /\ RoutineAgrees'
  <2>1. /\ needResponse \in BOOLEAN /\ drivingResult \in BOOLEAN /\ FlagsAgree /\ RoutineAgrees
        /\ routine \in [start : {"none", "positive", "NRC22", "NRC24"},
                        cancelPut : BOOLEAN, result : {"none", "completed", "failed"}]
    BY DEF GateInv, TypeOK
  <2>2. CASE StartRoutine
    <3>1. \/ /\ needResponse' = TRUE /\ drivingResult' = TRUE
             /\ routine' = [start |-> "positive", cancelPut |-> TRUE, result |-> "none"]
          \/ /\ needResponse' = TRUE /\ drivingResult' = FALSE
             /\ \E s \in {"NRC22", "NRC24"} :
                   routine' = [start |-> s, cancelPut |-> FALSE, result |-> "none"]
          \/ /\ needResponse' = FALSE /\ drivingResult' = FALSE
             /\ routine' = [start |-> "none", cancelPut |-> FALSE, result |-> "none"]
      BY <2>2, Zenon DEF StartRoutine, ClearFlags, NoRoutine
    <3>2. needResponse' \in BOOLEAN /\ drivingResult' \in BOOLEAN
      BY <3>1
    <3>3. \E s \in {"none", "positive", "NRC22", "NRC24"}, b \in BOOLEAN :
             routine' = [start |-> s, cancelPut |-> b, result |-> "none"]
      BY <3>1, Zenon
    <3>4. routine' \in [start : {"none", "positive", "NRC22", "NRC24"},
                        cancelPut : BOOLEAN, result : {"none", "completed", "failed"}]
          /\ routine'.result = "none"
      BY <3>3
    <3>5. /\ needResponse' /\ drivingResult' =>
                routine'.start = "positive" /\ routine'.cancelPut
          /\ needResponse' /\ ~drivingResult' => routine'.start \in {"NRC22", "NRC24"}
      BY <3>1
    <3>6. QED
      BY <3>2, <3>4, <3>5 DEF FlagsAgree, RoutineAgrees
  <2>3. CASE RequestResult
    BY <2>1, <2>3 DEF RequestResult, FlagsAgree, RoutineAgrees
  <2>4. QED
    BY <2>2, <2>3
<1>4. TypeOK' /\ NothingStranded'
  BY <1>1, <1>2, <1>3 DEF GateInv, TypeOK, gateVars, Settled, NothingStranded
<1> QED
  BY <1>2, <1>3, <1>4 DEF GateInv

-----------------------------------------------------------------------------
(* The invariant and what follows from it.                                 *)

\* The invariant holds in every state of the command thread.
THEOREM GateInductive == Spec => []GateInv
<1>1. Init => GateInv
  <2> SUFFICES ASSUME Init PROVE GateInv
    OBVIOUS
  <2>1. \A S : <<>> \in Seq(S)
    BY EmptySeq
  <2>2. TypeOK
    BY <2>1 DEF Init, TypeOK, NoRoutine
  <2>3. Placed
    <3>1. cmd_queue = <<>> /\ parked = <<>> /\ settled = <<>> /\ accepted = 0
      BY DEF Init
    <3>2. \A n \in Nat \ {0} : CountIn(<<>>, n) = 0 /\ ~(n <= 0)
      BY CountEmpty
    <3>3. QED
      BY <3>1, <3>2 DEF Placed
  <2>4. NothingStranded /\ FlagsAgree /\ RoutineAgrees
    BY DEF Init, NothingStranded, FlagsAgree, RoutineAgrees, NoRoutine
  <2>5. QED
    BY <2>2, <2>3, <2>4 DEF GateInv
<1>2. GateInv /\ [Next]_vars => GateInv'
  <2> SUFFICES ASSUME GateInv, [Next]_vars PROVE GateInv'
    OBVIOUS
  <2>1. CASE CommandThread
    BY <2>1, ParkStep, ConnectedStep, OtherSteps, RoutineStep DEF CommandThread
  <2>2. ASSUME NEW kind \in traffic, Accept(kind) PROVE GateInv'
    BY <2>2, AcceptStep, GateAssumption DEF GateInv, TypeOK
  <2>3. CASE UNCHANGED vars
    BY <2>3 DEF vars, gateVars, routineVars, GateInv, TypeOK, NothingStranded, Placed,
       FlagsAgree, RoutineAgrees
  <2>4. QED
    BY <2>1, <2>2, <2>3 DEF Next
<1> QED
  BY <1>1, <1>2, PTL DEF Spec

\* Queues hold commands, and only those of the aCall are parked.
THEOREM GateTypeCorrect == Spec => []TypeOK
<1>1. GateInv => TypeOK
  BY DEF GateInv
<1> QED
  BY <1>1, GateInductive, PTL

\* No command stays parked once the eCall process is connected.
THEOREM NothingEverStranded == Spec => []NothingStranded
<1>1. GateInv => NothingStranded
  BY DEF GateInv
<1> QED
  BY <1>1, GateInductive, PTL

\* No command is lost or executed twice, however often the link comes and goes.
THEOREM EachExactlyOnce == Spec => []EachOnce
<1>1. GateInv => EachOnce
  BY DEF GateInv, TypeOK, Placed, EachOnce
<1> QED
  BY <1>1, GateInductive, PTL

\* The diagnosis is never told the result of another start than the latest.
THEOREM RoutineAlwaysAgrees == Spec => []RoutineAgrees
<1>1. GateInv => RoutineAgrees
  BY DEF GateInv
<1> QED
  BY <1>1, GateInductive, PTL
=============================================================================
