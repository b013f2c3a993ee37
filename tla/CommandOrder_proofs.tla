------------------------ MODULE CommandOrder_proofs ------------------------
(***************************************************************************)
(* Proofs about the order in which the commands of the aCall are executed. *)
(* What is parked and then the queue make one line: parking the front      *)
(* leaves the line as it is, settling it takes it out behind what is       *)
(* parked, and the report that the link is up moves what is parked to the  *)
(* end.  The invariant says how this line and the commands settled before  *)
(* may differ from the order in which the commands were sent.              *)
(***************************************************************************)
EXTENDS CommandGate_proofs

-----------------------------------------------------------------------------
(* The inductive invariant.                                                *)

Line == parked \o cmd_queue

Gated(c)     == c.kind \in ACallGated
Jumped(e, l) == \E up \in linkUps : e < up.id /\ up.id < l /\ l <= up.accepted

\* Commands of the aCall stand in line as they were sent, but for jumps.
SentOrder ==
    \A i, j \in DOMAIN Line :
        i < j /\ Gated(Line[i]) /\ Gated(Line[j]) /\ Line[j].id < Line[i].id
            => Jumped(Line[j].id, Line[i].id)

\* A report that the link is up, between two of them, was sent before the later.
LinkBetween ==
    \A i, k, j \in DOMAIN Line :
        ( /\ i < k /\ k < j /\ Gated(Line[i]) /\ Gated(Line[j])
          /\ Line[k].kind = "connected" /\ Line[i].id < Line[j].id )
            => Line[k].id < Line[j].id \/ Jumped(Line[i].id, Line[j].id)

\* Only commands up to number w have been parked, now or earlier; the later
\* ones stand in line as they were sent.
NewFrom(w) ==
    /\ \A i \in DOMAIN parked : parked[i].id <= w
    /\ \A i \in DOMAIN Line :
          /\ Line[i].id <= accepted
          /\ Line[i].id <= w => Gated(Line[i])
    /\ \A i, j \in DOMAIN Line :
          i < j /\ w < Line[i].id /\ w < Line[j].id => Line[i].id < Line[j].id
NewKept == \E w \in 0..accepted : NewFrom(w)

\* A command is parked for an aCall that is supported; if it no longer is, that
\* was found by a later command.
MissingNoticed ==
    ~aCallSupported =>
        \A i \in DOMAIN parked : \E k \in DOMAIN settled :
            settled[k].kind = "hwChanged" /\ parked[i].id < settled[k].id

\* What OrderKept says of the commands in line, once they are done with.
WaitingOvertaken ==
    \A i \in DOMAIN settled, j \in DOMAIN Line :
        ( /\ settled[i].outcome = "executed" /\ Gated(settled[i]) /\ Gated(Line[j])
          /\ Line[j].id < settled[i].id )
            => Overtaking(Line[j].id, settled[i], 1..(i - 1))

OrderInv ==
    /\ SentOrder /\ LinkBetween /\ NewKept
    /\ MissingNoticed /\ WaitingOvertaken /\ OrderKept

-----------------------------------------------------------------------------
(* How the line changes.                                                   *)

\* The commands of two sequences, one behind the other.
LEMMA LineOf ==
    ASSUME NEW P \in Seq(ACallCmd), NEW Q \in Seq(Cmd)
    PROVE  /\ Len(P) \in Nat /\ Len(Q) \in Nat
           /\ DOMAIN P = 1..Len(P) /\ DOMAIN (P \o Q) = 1..(Len(P) + Len(Q))
           /\ \A i \in DOMAIN P : /\ P[i].id \in Nat \ {0} /\ P[i].kind \in ACallGated
                                  /\ i \in DOMAIN (P \o Q) /\ (P \o Q)[i] = P[i]
           /\ \A i \in DOMAIN (P \o Q) : (P \o Q)[i].id \in Nat \ {0}
           /\ \A i \in DOMAIN (P \o Q) :
                 i > Len(P) => i - Len(P) \in 1..Len(Q) /\ (P \o Q)[i] = Q[i - Len(P)]
           /\ \A i \in 1..Len(Q) : /\ Len(P) + i \in DOMAIN (P \o Q)
                                   /\ (P \o Q)[Len(P) + i] = Q[i]
<1>1. ACallCmd \subseteq Cmd
  BY DEF ACallCmd, Cmd, Kind
<1>2. P \in Seq(Cmd)
  BY <1>1, SeqMonotonic
<1>3. /\ Len(P) \in Nat /\ Len(Q) \in Nat /\ DOMAIN P = 1..Len(P)
      /\ P \o Q \in Seq(Cmd) /\ DOMAIN (P \o Q) = 1..(Len(P) + Len(Q))
      /\ \A i \in 1..(Len(P) + Len(Q)) :
            (P \o Q)[i] = IF i <= Len(P) THEN P[i] ELSE Q[i - Len(P)]
  BY <1>2, ConcatProperties, LenProperties
<1>4. \A i \in DOMAIN P : P[i] \in ACallCmd
  BY <1>3, ElementOfSeq
<1>5. \A i \in DOMAIN (P \o Q) : (P \o Q)[i] \in Cmd
  BY <1>3, ElementOfSeq
<1>6. \A i \in DOMAIN P : P[i].id \in Nat \ {0} /\ P[i].kind \in ACallGated
  BY <1>4 DEF ACallCmd
<1>7. \A i \in DOMAIN (P \o Q) : (P \o Q)[i].id \in Nat \ {0}
  BY <1>5 DEF Cmd
<1>8. \A i \in DOMAIN P : i \in DOMAIN (P \o Q) /\ (P \o Q)[i] = P[i]
  BY <1>3
<1>9. \A i \in DOMAIN (P \o Q) :
         i > Len(P) => i - Len(P) \in 1..Len(Q) /\ (P \o Q)[i] = Q[i - Len(P)]
  BY <1>3
<1>10. \A i \in 1..Len(Q) : Len(P) + i \in DOMAIN (P \o Q) /\ (P \o Q)[Len(P) + i] = Q[i]
  <2> SUFFICES ASSUME NEW i \in 1..Len(Q)
               PROVE  Len(P) + i \in DOMAIN (P \o Q) /\ (P \o Q)[Len(P) + i] = Q[i]
    OBVIOUS
  <2>1. Len(P) + i \in 1..(Len(P) + Len(Q)) /\ ~(Len(P) + i <= Len(P)) /\ (Len(P) + i) - Len(P) = i
    BY <1>3
  <2>2. QED
    BY <1>3, <2>1
<1> QED
  BY <1>3, <1>6, <1>7, <1>8, <1>9, <1>10

\* Parking the front leaves the line as it is.
LEMMA LineParks ==
    ASSUME NEW P \in Seq(ACallCmd), NEW Q \in Seq(Cmd), Q # <<>>, Head(Q) \in ACallCmd
    PROVE  Append(P, Head(Q)) \o Tail(Q) = P \o Q
<1>1. PICK f, t : f = Head(Q) /\ t = Tail(Q)
  OBVIOUS
<1>2. P \in Seq(Cmd) /\ f \in Cmd /\ t \in Seq(Cmd) /\ f = Q[1]
  <2>1. ACallCmd \subseteq Cmd
    BY DEF ACallCmd, Cmd, Kind
  <2>2. P \in Seq(Cmd)
    BY <2>1, SeqMonotonic
  <2>3. QED
    BY <1>1, <2>2, HeadTailProperties
<1>3. PICK r : r = Append(P, f)
  OBVIOUS
<1>4. /\ r \in Seq(Cmd) /\ Len(r) = Len(P) + 1 /\ r[Len(P) + 1] = f
      /\ \A i \in 1..Len(P) : r[i] = P[i]
  BY <1>2, <1>3, AppendProperties
<1>5. /\ Len(Q) \in Nat /\ Len(P) \in Nat /\ Len(t) = Len(Q) - 1 /\ Len(t) \in Nat
      /\ \A i \in 1..Len(t) : t[i] = Q[i + 1]
  <2>1. Len(Q) \in Nat /\ Len(Q) > 0
    BY LenProperties
  <2>2. Len(P) \in Nat
    BY LenProperties
  <2>3. /\ Len(Tail(Q)) = Len(Q) - 1
        /\ \A i \in 1..Len(Tail(Q)) : Tail(Q)[i] = Q[i + 1]
    BY HeadTailProperties
  <2>4. QED
    BY <1>1, <2>1, <2>2, <2>3
<1>6. /\ r \o t \in Seq(Cmd) /\ Len(r \o t) = Len(P) + 1 + Len(t)
      /\ \A i \in 1..(Len(P) + 1 + Len(t)) :
            (r \o t)[i] = IF i <= Len(P) + 1 THEN r[i] ELSE t[i - (Len(P) + 1)]
  <2>1. /\ r \o t \in Seq(Cmd) /\ Len(r \o t) = Len(r) + Len(t)
        /\ \A i \in 1..(Len(r) + Len(t)) :
              (r \o t)[i] = IF i <= Len(r) THEN r[i] ELSE t[i - Len(r)]
    BY <1>2, <1>4, ConcatProperties
  <2>2. Len(r) = Len(P) + 1
    BY <1>4
  <2>3. QED
    BY <2>1, <2>2
<1>7. /\ P \o Q \in Seq(Cmd) /\ Len(P \o Q) = Len(P) + Len(Q)
      /\ \A i \in 1..(Len(P) + Len(Q)) :
            (P \o Q)[i] = IF i <= Len(P) THEN P[i] ELSE Q[i - Len(P)]
  BY <1>2, ConcatProperties
<1>8. ASSUME NEW i \in 1..(Len(P) + Len(Q)) PROVE (r \o t)[i] = (P \o Q)[i]
  <2>1. i \in 1..(Len(P) + 1 + Len(t)) /\ i \in Nat /\ Len(P) \in Nat
    BY <1>5
  <2>2. CASE i <= Len(P)
    BY <1>4, <1>5, <1>6, <1>7, <2>1, <2>2
  <2>3. CASE i = Len(P) + 1
    <3>1. i - Len(P) = 1 /\ ~(i <= Len(P))
      BY <1>5, <2>3
    <3>2. QED
      BY <1>2, <1>4, <1>6, <1>7, <2>1, <2>3, <3>1
  <2>4. CASE i > Len(P) + 1
    <3>1. PICK k : k = i - (Len(P) + 1)
      OBVIOUS
    <3>2. k \in 1..Len(t) /\ i - Len(P) = k + 1 /\ ~(i <= Len(P)) /\ ~(i <= Len(P) + 1)
      BY <1>5, <2>4, <3>1
    <3>3. (r \o t)[i] = t[k] /\ (P \o Q)[i] = Q[k + 1]
      BY <1>6, <1>7, <2>1, <3>1, <3>2
    <3>4. t[k] = Q[k + 1]
      BY <1>5, <3>2
    <3>5. QED
      BY <3>3, <3>4
  <2>5. i <= Len(P) \/ i = Len(P) + 1 \/ i > Len(P) + 1
    BY <2>1
  <2>6. QED
    BY Zenon, <2>2, <2>3, <2>4, <2>5
<1>9. r \o t = P \o Q
  <2>1. Len(r \o t) = Len(P \o Q)
    BY <1>5, <1>6, <1>7
  <2>2. QED
    BY <1>6, <1>7, <1>8, <2>1, SeqEqual
<1> QED
  BY <1>1, <1>3, <1>9

\* Taking the front out moves up what is behind it.
LEMMA LineMovesUp ==
    ASSUME NEW P \in Seq(ACallCmd), NEW Q \in Seq(Cmd), Q # <<>>
    PROVE  /\ Len(P) + 1 \in DOMAIN (P \o Q) /\ (P \o Q)[Len(P) + 1] = Head(Q)
           /\ \A i \in DOMAIN (P \o Tail(Q)) :
                 /\ i \in Nat
                 /\ i <= Len(P) => i \in DOMAIN (P \o Q) /\ (P \o Tail(Q))[i] = (P \o Q)[i]
                 /\ i > Len(P) => i + 1 \in DOMAIN (P \o Q) /\ (P \o Tail(Q))[i] = (P \o Q)[i + 1]
<1>1. /\ Tail(Q) \in Seq(Cmd) /\ Len(Tail(Q)) = Len(Q) - 1 /\ Len(Q) \in Nat /\ Len(Q) > 0
      /\ \A i \in 1..Len(Tail(Q)) : Tail(Q)[i] = Q[i + 1]
      /\ Head(Q) = Q[1]
  BY HeadTailProperties, LenProperties
<1>2. Len(P) + 1 \in DOMAIN (P \o Q) /\ (P \o Q)[Len(P) + 1] = Head(Q)
  <2>1. 1 \in 1..Len(Q)
    BY <1>1
  <2>2. QED
    BY <1>1, <2>1, LineOf
<1>3. ASSUME NEW i \in DOMAIN (P \o Tail(Q))
      PROVE  /\ i \in Nat
             /\ i <= Len(P) => i \in DOMAIN (P \o Q) /\ (P \o Tail(Q))[i] = (P \o Q)[i]
             /\ i > Len(P) => i + 1 \in DOMAIN (P \o Q) /\ (P \o Tail(Q))[i] = (P \o Q)[i + 1]
  <2>1. i \in 1..(Len(P) + Len(Tail(Q))) /\ Len(P) \in Nat /\ Len(Tail(Q)) \in Nat
    BY <1>1, LineOf
  <2>2. CASE i <= Len(P)
    <3>1. i \in DOMAIN P
      BY <2>1, <2>2, LineOf
    <3>2. QED
      BY <1>1, <2>1, <2>2, <3>1, LineOf
  <2>3. CASE i > Len(P)
    <3>1. PICK k : k = i - Len(P)
      OBVIOUS
    <3>2. k \in 1..Len(Tail(Q)) /\ (P \o Tail(Q))[i] = Tail(Q)[k]
      BY <1>1, <2>3, <3>1, LineOf
    <3>3. k + 1 \in 1..Len(Q) /\ Len(P) + (k + 1) = i + 1 /\ ~(i <= Len(P))
      BY <1>1, <2>1, <2>3, <3>1, <3>2
    <3>4. (P \o Q)[Len(P) + (k + 1)] = Q[k + 1] /\ Len(P) + (k + 1) \in DOMAIN (P \o Q)
      BY <3>3, LineOf
    <3>5. Tail(Q)[k] = Q[k + 1]
      BY <1>1, <3>2
    <3>6. QED
      BY <2>1, <3>2, <3>3, <3>4, <3>5
  <2>4. QED
    BY <2>1, <2>2, <2>3
<1> QED
  BY <1>2, <1>3

\* The report that the link is up puts what is parked behind the rest.
LEMMA LineTurns ==
    ASSUME NEW P \in Seq(ACallCmd), NEW Q \in Seq(Cmd), Q # <<>>
    PROVE  \A i \in DOMAIN (Tail(Q) \o P) :
              /\ i \in Nat \ {0}
              /\ i < Len(Q) => /\ Len(P) + 1 + i \in DOMAIN (P \o Q)
                               /\ (Tail(Q) \o P)[i] = (P \o Q)[Len(P) + 1 + i]
              /\ i >= Len(Q) => /\ i - (Len(Q) - 1) \in DOMAIN P
                                /\ (Tail(Q) \o P)[i] = P[i - (Len(Q) - 1)]
<1>1. /\ Tail(Q) \in Seq(Cmd) /\ Len(Tail(Q)) = Len(Q) - 1 /\ Len(Q) \in Nat /\ Len(Q) > 0
      /\ \A i \in 1..Len(Tail(Q)) : Tail(Q)[i] = Q[i + 1]
  BY HeadTailProperties, LenProperties
<1>2. P \in Seq(Cmd) /\ Len(P) \in Nat /\ DOMAIN P = 1..Len(P)
  <2>1. ACallCmd \subseteq Cmd
    BY DEF ACallCmd, Cmd, Kind
  <2>2. QED
    BY <2>1, SeqMonotonic, LenProperties
<1> SUFFICES ASSUME NEW i \in DOMAIN (Tail(Q) \o P)
             PROVE  /\ i \in Nat \ {0}
                    /\ i < Len(Q) => /\ Len(P) + 1 + i \in DOMAIN (P \o Q)
                                     /\ (Tail(Q) \o P)[i] = (P \o Q)[Len(P) + 1 + i]
                    /\ i >= Len(Q) => /\ i - (Len(Q) - 1) \in DOMAIN P
                                      /\ (Tail(Q) \o P)[i] = P[i - (Len(Q) - 1)]
  OBVIOUS
<1>3. /\ i \in 1..(Len(Tail(Q)) + Len(P))
      /\ (Tail(Q) \o P)[i] = IF i <= Len(Tail(Q)) THEN Tail(Q)[i] ELSE P[i - Len(Tail(Q))]
  BY <1>1, <1>2, ConcatProperties, LenProperties
<1>4. CASE i < Len(Q)
  <2>1. i \in 1..Len(Tail(Q)) /\ i + 1 \in 1..Len(Q) /\ ~(i >= Len(Q))
        /\ Len(P) + (i + 1) = Len(P) + 1 + i
    BY <1>1, <1>2, <1>3, <1>4
  <2>2. Len(P) + (i + 1) \in DOMAIN (P \o Q) /\ (P \o Q)[Len(P) + (i + 1)] = Q[i + 1]
    BY <2>1, LineOf
  <2>3. (Tail(Q) \o P)[i] = Q[i + 1]
    BY <1>1, <1>3, <2>1
  <2>4. QED
    BY <1>3, <2>1, <2>2, <2>3
<1>5. CASE i >= Len(Q)
  <2>1. i - (Len(Q) - 1) \in 1..Len(P) /\ ~(i <= Len(Tail(Q))) /\ ~(i < Len(Q))
    BY <1>1, <1>2, <1>3, <1>5
  <2>2. QED
    BY <1>1, <1>2, <1>3, <2>1
<1>6. i \in Nat \ {0}
  BY <1>1, <1>2, <1>3
<1> QED
  BY <1>1, <1>4, <1>5, <1>6

-----------------------------------------------------------------------------
(* The steps of the thread and of the senders.                             *)

\* The line is made of commands.
LEMMA LineType ==
    ASSUME TypeOK
    PROVE  /\ parked \in Seq(ACallCmd) /\ cmd_queue \in Seq(Cmd)
           /\ Len(parked) \in Nat /\ DOMAIN parked = 1..Len(parked)
           /\ \A i \in DOMAIN Line : i \in Nat \ {0} /\ Line[i].id \in Nat \ {0}
           /\ \A i \in DOMAIN parked : /\ i \in DOMAIN Line /\ Line[i] = parked[i]
                                       /\ Gated(parked[i]) /\ parked[i].id \in Nat
<1>1. parked \in Seq(ACallCmd) /\ cmd_queue \in Seq(Cmd)
  BY DEF TypeOK, ACallCmd
<1>2. DOMAIN Line = 1..(Len(parked) + Len(cmd_queue)) /\ Len(parked) \in Nat /\ Len(cmd_queue) \in Nat
  BY <1>1, LineOf DEF Line
<1>3. \A i \in DOMAIN Line : Line[i].id \in Nat \ {0}
  BY <1>1, LineOf DEF Line
<1>4. /\ DOMAIN parked = 1..Len(parked)
      /\ \A i \in DOMAIN parked : /\ i \in DOMAIN Line /\ Line[i] = parked[i]
                                  /\ Gated(parked[i]) /\ parked[i].id \in Nat
  BY <1>1, LineOf DEF Line, Gated
<1> QED
  BY <1>1, <1>2, <1>3, <1>4

\* Settled commands have numbers.
LEMMA SettledType ==
    ASSUME TypeOK
    PROVE  /\ DOMAIN settled = 1..Len(settled) /\ Len(settled) \in Nat
           /\ \A i \in DOMAIN settled : settled[i].id \in Nat
<1>1. settled \in Seq(Settled)
  BY DEF TypeOK, Settled
<1>2. \A i \in DOMAIN settled : settled[i] \in Settled
  BY <1>1, ElementOfSeq, LenProperties
<1> QED
  BY <1>1, <1>2, LenProperties DEF Settled

\* They are commands that have been accepted.
LEMMA SettledNumbers ==
    ASSUME GateInv, NEW i \in DOMAIN settled
    PROVE  settled[i].id <= accepted
<1>1. TypeOK /\ Placed /\ settled \in Seq(Settled) /\ accepted \in Nat
  BY DEF GateInv, TypeOK, Settled
<1>2. PICK n \in Nat \ {0} : n = settled[i].id
  <2>1. settled[i] \in Settled
    BY <1>1, ElementOfSeq, LenProperties
  <2>2. settled[i].id \in Nat \ {0}
    BY <2>1 DEF Settled
  <2>3. QED
    BY <2>2
<1>3. At(settled, n) # {} /\ IsFiniteSet(At(settled, n))
      /\ CountIn(settled, n) = Cardinality(At(settled, n))
  <2>1. i \in At(settled, n)
    BY <1>2 DEF At
  <2>2. QED
    BY Zenon, <1>1, <2>1, CountType
<1>4. CountIn(settled, n) # 0
  BY <1>3, FS_EmptySet
<1>5. CountIn(cmd_queue, n) \in Nat /\ CountIn(parked, n) \in Nat /\ CountIn(settled, n) \in Nat
  BY <1>1, CountType DEF TypeOK
<1>6. CountIn(cmd_queue, n) + CountIn(parked, n) + CountIn(settled, n)
        = IF n <= accepted THEN 1 ELSE 0
  BY <1>1 DEF Placed
<1> QED
  BY <1>2, <1>4, <1>5, <1>6

\* How one command overtook another stays on record.
LEMMA OvertakingKept ==
    ASSUME NEW e, NEW l, NEW B, linkUps \subseteq linkUps',
           \A k \in B : settled'[k] = settled[k],
           Overtaking(e, l, B)
    PROVE  Overtaking(e, l, B)'
<1>1. CASE \E up \in linkUps : e < up.id /\ up.id < l.id /\ l.id <= up.accepted
  BY <1>1 DEF Overtaking
<1>2. CASE /\ l.kind \notin NeedSupport
           /\ \E k \in B : settled[k].kind = "hwChanged" /\ settled[k].id > e
  BY <1>2 DEF Overtaking
<1> QED
  BY <1>1, <1>2 DEF Overtaking

\* A part of the line keeps its order.
LEMMA SubLine ==
    ASSUME NEW m, linkUps \subseteq linkUps',
           \A i \in DOMAIN Line' : m[i] \in DOMAIN Line /\ Line'[i] = Line[m[i]],
           \A i, j \in DOMAIN Line' : i < j => m[i] < m[j],
           SentOrder, LinkBetween
    PROVE  SentOrder' /\ LinkBetween'
<1>1. \A e, l : Jumped(e, l) => Jumped(e, l)'
  BY DEF Jumped
<1>2. SentOrder'
  <2> SUFFICES ASSUME NEW i \in DOMAIN Line', NEW j \in DOMAIN Line', i < j,
                      Gated(Line'[i]), Gated(Line'[j]), Line'[j].id < Line'[i].id
               PROVE  Jumped(Line[j].id, Line[i].id)'
    BY DEF SentOrder, Gated
  <2>1. PICK e, l : e = Line'[j].id /\ l = Line'[i].id
    OBVIOUS
  <2>2. Jumped(e, l)
    BY <2>1 DEF SentOrder, Gated
  <2>3. Jumped(e, l)'
    BY <1>1, <2>2
  <2>4. QED
    BY <2>1, <2>3 DEF Jumped
<1>3. LinkBetween'
  <2> SUFFICES ASSUME NEW i \in DOMAIN Line', NEW k \in DOMAIN Line', NEW j \in DOMAIN Line',
                      i < k, k < j, Gated(Line'[i]), Gated(Line'[j]),
                      Line'[k].kind = "connected", Line'[i].id < Line'[j].id,
                      ~(Line'[k].id < Line'[j].id)
               PROVE  Jumped(Line[i].id, Line[j].id)'
    BY DEF LinkBetween, Gated
  <2>1. PICK e, l : e = Line'[i].id /\ l = Line'[j].id
    OBVIOUS
  <2>2. Jumped(e, l)
    BY <2>1 DEF LinkBetween, Gated
  <2>3. Jumped(e, l)'
    BY <1>1, <2>2
  <2>4. QED
    BY <2>1, <2>3 DEF Jumped
<1> QED
  BY <1>2, <1>3

\* What is settled last, and that the rest stays.
LEMMA LastSettled ==
    ASSUME TypeOK, HasNext, NEW o \in Outcome, Settle(o)
    PROVE  /\ DOMAIN settled = 1..Len(settled) /\ Len(settled) \in Nat
           /\ DOMAIN settled' = 1..(Len(settled) + 1)
           /\ \A k \in DOMAIN settled : settled'[k] = settled[k]
           /\ settled'[Len(settled) + 1]
                = [id |-> Front.id, kind |-> Front.kind, outcome |-> o]
<1>1. PICK c \in Settled : settled' = Append(settled, c)
                           /\ c = [id |-> Front.id, kind |-> Front.kind, outcome |-> o]
  BY FrontFacts DEF Settle
<1>2. settled \in Seq(Settled)
  BY DEF TypeOK, Settled
<1> QED
  BY <1>1, <1>2, AppendProperties, LenProperties

\* What is settled next was overtaken only in the ways allowed.
LEMMA SettlingOvertaken ==
    ASSUME GateInv, OrderInv, HasNext, NEW o \in Outcome, Settle(o), linkUps \subseteq linkUps'
    PROVE  OrderKept'
<1>1. TypeOK /\ WaitingOvertaken /\ OrderKept
  BY DEF GateInv, OrderInv
<1>2. /\ DOMAIN settled = 1..Len(settled) /\ Len(settled) \in Nat
      /\ DOMAIN settled' = 1..(Len(settled) + 1)
      /\ \A k \in DOMAIN settled : settled'[k] = settled[k]
      /\ settled'[Len(settled) + 1].id = Front.id
      /\ settled'[Len(settled) + 1].kind = Front.kind
  <2>1. settled'[Len(settled) + 1] = [id |-> Front.id, kind |-> Front.kind, outcome |-> o]
    BY <1>1, LastSettled
  <2>2. /\ settled'[Len(settled) + 1].id = Front.id
        /\ settled'[Len(settled) + 1].kind = Front.kind
    BY <2>1
  <2>3. QED
    BY <1>1, <2>2, LastSettled
<1>3. \E p \in DOMAIN Line : Line[p] = Front
  BY <1>1, LineType, LineMovesUp DEF Line, Front, HasNext
<1> SUFFICES ASSUME NEW i \in DOMAIN settled', NEW j \in DOMAIN settled',
                    i < j, settled'[j].id < settled'[i].id,
                    Gated(settled'[i]), Gated(settled'[j]), settled'[i].outcome = "executed"
             PROVE  Overtaking(settled[j].id, settled[i], 1..(i - 1))'
  BY DEF OrderKept, Gated
<1>4. /\ i \in DOMAIN settled /\ settled'[i] = settled[i]
      /\ \A k \in 1..(i - 1) : settled'[k] = settled[k]
  BY <1>2
<1>5. PICK e, l : e = settled'[j].id /\ l = settled[i]
  OBVIOUS
<1>6. Overtaking(e, l, 1..(i - 1))
  <2>1. CASE j \in DOMAIN settled
    BY <1>1, <1>2, <1>4, <1>5, <2>1 DEF OrderKept, Gated
  <2>2. CASE j = Len(settled) + 1
    BY <1>1, <1>2, <1>3, <1>4, <1>5, <2>2 DEF WaitingOvertaken, Gated
  <2>3. QED
    BY <1>2, <2>1, <2>2
<1>7. Overtaking(e, l, 1..(i - 1))'
  BY <1>4, <1>6, OvertakingKept
<1> QED
  BY <1>4, <1>5, <1>7 DEF Overtaking

\* The front is settled and nothing else moves.
LEMMA OrderSettles ==
    ASSUME GateInv, OrderInv, HasNext, NEW o \in Outcome, Settle(o),
           cmd_queue' = Tail(cmd_queue), parked' = parked, accepted' = accepted,
           linkUps' = linkUps,
           aCallSupported' = aCallSupported \/ Front.kind = "hwChanged",
           o = "executed" /\ Gated(Front) => ~NeedsCover /\ CanBeExec
    PROVE  OrderInv'
<1> DEFINE p == Len(parked)
<1>1. /\ TypeOK /\ NothingStranded /\ SentOrder /\ LinkBetween /\ NewKept
      /\ MissingNoticed /\ WaitingOvertaken
  BY DEF GateInv, OrderInv
<1>2. /\ p \in Nat /\ DOMAIN parked = 1..p
      /\ p + 1 \in DOMAIN Line /\ Line[p + 1] = Front
      /\ \A i \in DOMAIN Line : i \in Nat \ {0} /\ Line[i].id \in Nat
      /\ \A i \in DOMAIN parked : i \in DOMAIN Line /\ Line[i] = parked[i] /\ parked[i].id \in Nat
  BY <1>1, LineType, LineMovesUp DEF Line, Front, HasNext
<1>3. \A i \in DOMAIN Line' :
         /\ i \in Nat
         /\ i <= p => i \in DOMAIN Line /\ Line'[i] = Line[i]
         /\ i > p => i + 1 \in DOMAIN Line /\ Line'[i] = Line[i + 1]
  BY <1>1, LineType, LineMovesUp DEF Line, HasNext
<1>4. PICK m : /\ \A i \in DOMAIN Line' : m[i] \in DOMAIN Line /\ Line'[i] = Line[m[i]] /\ m[i] # p + 1
               /\ \A i, j \in DOMAIN Line' : i < j => m[i] < m[j]
  <2> DEFINE f == [i \in Nat |-> IF i <= p THEN i ELSE i + 1]
  <2>1. ASSUME NEW i \in DOMAIN Line'
        PROVE  f[i] \in DOMAIN Line /\ Line'[i] = Line[f[i]] /\ f[i] # p + 1
    <3>1. i \in Nat /\ p \in Nat
      BY <1>2, <1>3
    <3>2. CASE i <= p
      BY <1>3, <3>1, <3>2
    <3>3. CASE i > p
      BY <1>3, <3>1, <3>3
    <3>4. QED
      BY <3>1, <3>2, <3>3
  <2>2. ASSUME NEW i \in DOMAIN Line', NEW j \in DOMAIN Line', i < j
        PROVE  f[i] < f[j]
    BY <1>2, <1>3, <2>2
  <2> HIDE DEF f
  <2>3. QED
    BY <2>1, <2>2
<1>5. /\ DOMAIN settled = 1..Len(settled) /\ Len(settled) \in Nat
      /\ DOMAIN settled' = 1..(Len(settled) + 1)
      /\ \A k \in DOMAIN settled : settled'[k] = settled[k]
      /\ settled'[Len(settled) + 1] = [id |-> Front.id, kind |-> Front.kind, outcome |-> o]
  BY <1>1, LastSettled
<1>6. SentOrder' /\ LinkBetween'
  BY <1>1, <1>4, SubLine
<1>7. OrderKept'
  BY SettlingOvertaken
<1>8. PICK w \in 0..accepted : NewFrom(w)
  BY <1>1 DEF NewKept
<1>9. NewKept'
  <2>1. NewFrom(w)'
    BY <1>4, <1>8 DEF NewFrom, Gated
  <2>2. QED
    BY <1>8, <2>1 DEF NewKept
<1>10. MissingNoticed'
  <2> SUFFICES ASSUME ~aCallSupported', NEW i \in DOMAIN parked
               PROVE  \E k \in DOMAIN settled' :
                         settled'[k].kind = "hwChanged" /\ parked[i].id < settled'[k].id
    BY DEF MissingNoticed
  <2>1. CASE aCallSupported' = aCallSupported
    <3>1. PICK k \in DOMAIN settled : settled[k].kind = "hwChanged" /\ parked[i].id < settled[k].id
      BY <1>1, <2>1 DEF MissingNoticed
    <3>2. k \in DOMAIN settled' /\ settled'[k] = settled[k]
      BY <1>5
    <3>3. QED
      BY <3>1, <3>2
  <2>2. CASE Front.kind = "hwChanged"
    <3>1. parked[i].id <= w /\ ~(Front.id <= w)
      BY <1>2, <1>8, <2>2 DEF NewFrom, Gated, ACallGated, ACallButtons, ACallTriggers
    <3>2. parked[i].id < Front.id
      BY <1>2, <3>1
    <3>3. QED
      BY <1>5, <2>2, <3>2
  <2>3. QED
    BY <2>1, <2>2
<1>11. WaitingOvertaken'
  <2> SUFFICES ASSUME NEW i \in DOMAIN settled', NEW j \in DOMAIN Line',
                      settled'[i].outcome = "executed", Gated(settled'[i]), Gated(Line'[j]),
                      Line'[j].id < settled'[i].id
               PROVE  Overtaking(Line[j].id, settled[i], 1..(i - 1))'
    BY DEF WaitingOvertaken, Gated
  <2>1. PICK e, l : e = Line'[j].id /\ l = settled'[i]
    OBVIOUS
  <2>2. \A k \in 1..(i - 1) : settled'[k] = settled[k]
    BY <1>5
  <2>3. Overtaking(e, l, 1..(i - 1))
    <3>1. PICK a \in DOMAIN Line : a = m[j] /\ Line'[j] = Line[a] /\ a # p + 1
      BY <1>4
    <3>2. CASE i \in DOMAIN settled
      BY <1>1, <1>5, <2>1, <3>1, <3>2 DEF WaitingOvertaken, Gated
    <3>3. CASE i = Len(settled) + 1
      <4>1. l.id = Front.id /\ l.kind = Front.kind /\ o = "executed" /\ Gated(Front) /\ Gated(Line[a])
            /\ e = Line[a].id /\ e < Front.id
        BY <1>5, <2>1, <3>1, <3>3 DEF Gated
      <4>2. CASE a < p + 1
        <5>1. a \in DOMAIN parked /\ parked[a].id = e
          BY <1>2, <3>1, <4>1, <4>2
        <5>2. ~connected /\ ~aCallSupported
          BY <1>1, <4>1, <5>1 DEF NothingStranded, NeedsCover, Gated
        <5>3. Front.kind \notin NeedSupport
          BY <4>1, <5>2 DEF CanBeExec
        <5>4. \E k \in DOMAIN settled : settled[k].kind = "hwChanged" /\ settled[k].id > e
          <6>1. PICK k \in DOMAIN settled :
                       settled[k].kind = "hwChanged" /\ parked[a].id < settled[k].id
            BY <1>1, <5>1, <5>2 DEF MissingNoticed
          <6>2. settled[k].id \in Nat /\ e \in Nat
            BY <1>1, <1>2, <5>1, SettledType
          <6>3. QED
            BY <5>1, <6>1, <6>2
        <5>5. 1..(i - 1) = DOMAIN settled
          BY <1>5, <3>3
        <5>6. QED
          BY <4>1, <5>3, <5>4, <5>5 DEF Overtaking
      <4>3. CASE p + 1 < a
        <5>1. Jumped(e, Front.id)
          BY <1>1, <1>2, <4>1, <4>3 DEF SentOrder
        <5>2. QED
          BY <4>1, <5>1 DEF Jumped, Overtaking
      <4>4. QED
        BY <1>2, <3>1, <4>2, <4>3
    <3>4. QED
      BY <1>5, <3>2, <3>3
  <2>4. Overtaking(e, l, 1..(i - 1))'
    BY <2>2, <2>3, OvertakingKept
  <2>5. QED
    BY <2>1, <2>4 DEF Overtaking
<1> QED
  BY <1>6, <1>7, <1>9, <1>10, <1>11 DEF OrderInv

\* A command accepted goes to the end of the line, with the highest number.
LEMMA OrderAccepts ==
    ASSUME GateInv, OrderInv, NEW kind \in Kind, Accept(kind)
    PROVE  OrderInv'
<1> DEFINE n == Len(Line)
<1>1. /\ TypeOK /\ SentOrder /\ LinkBetween /\ NewKept /\ MissingNoticed /\ WaitingOvertaken
      /\ OrderKept /\ accepted \in Nat /\ accepted' = accepted + 1
      /\ UNCHANGED <<parked, settled, aCallSupported, linkUps>>
  BY DEF GateInv, OrderInv, TypeOK, Accept, gateVars
<1>2. PICK c \in Cmd : c.id = accepted + 1 /\ cmd_queue' = Append(cmd_queue, c)
  BY <1>1 DEF Accept, Cmd
<1>3. /\ n \in Nat /\ DOMAIN Line = 1..n /\ DOMAIN Line' = 1..(n + 1)
      /\ \A i \in DOMAIN Line : Line'[i] = Line[i]
      /\ Line'[n + 1] = c
  <2>1. /\ parked \in Seq(Cmd) /\ cmd_queue \in Seq(Cmd) /\ <<c>> \in Seq(Cmd)
    <3>1. ACallCmd \subseteq Cmd
      BY DEF ACallCmd, Cmd, Kind
    <3>2. QED
      BY <1>1, <3>1, LineType, SeqMonotonic
  <2>2. Line \in Seq(Cmd)
    BY <2>1, ConcatProperties DEF Line
  <2>3. Line' = parked \o (cmd_queue \o <<c>>)
    BY <1>1, <1>2, <2>1, AppendIsConcat DEF Line
  <2>4. Line' = Append(Line, c)
    BY <2>1, <2>2, <2>3, ConcatAssociative, AppendIsConcat DEF Line
  <2>5. QED
    BY <2>2, <2>4, AppendProperties, LenProperties
<1> HIDE DEF n
<1>4. PICK w \in 0..accepted : NewFrom(w)
  BY <1>1 DEF NewKept
<1>5. \A i \in DOMAIN Line : Line[i].id \in Nat /\ Line[i].id <= accepted
  BY <1>1, <1>4, LineType DEF NewFrom
<1>6. \A i \in DOMAIN Line : Line[i].id < Line'[n + 1].id
  BY <1>1, <1>2, <1>3, <1>5
<1>7. \A e, l : Jumped(e, l) => Jumped(e, l)'
  BY <1>1 DEF Jumped
<1>8. SentOrder'
  <2> SUFFICES ASSUME NEW i \in DOMAIN Line', NEW j \in DOMAIN Line', i < j,
                      Gated(Line'[i]), Gated(Line'[j]), Line'[j].id < Line'[i].id
               PROVE  Jumped(Line[j].id, Line[i].id)'
    BY DEF SentOrder, Gated
  <2>1. i \in DOMAIN Line /\ Line'[i] = Line[i]
    BY <1>3
  <2>2. j \in DOMAIN Line /\ Line'[j] = Line[j]
    <3>1. Line[i].id < Line'[n + 1].id /\ Line[i].id \in Nat /\ Line'[n + 1].id \in Nat
      BY <1>1, <1>2, <1>3, <1>5, <1>6, <2>1
    <3>2. j # n + 1
      BY <2>1, <3>1
    <3>3. QED
      BY <1>3, <3>2
  <2>3. PICK e, l : e = Line[j].id /\ l = Line[i].id
    OBVIOUS
  <2>4. Jumped(e, l)
    BY <1>1, <2>1, <2>2, <2>3 DEF SentOrder, Gated
  <2>5. Jumped(e, l)'
    BY <1>7, <2>4
  <2>6. QED
    BY <2>1, <2>2, <2>3, <2>5 DEF Jumped
<1>9. LinkBetween'
  <2> SUFFICES ASSUME NEW i \in DOMAIN Line', NEW k \in DOMAIN Line', NEW j \in DOMAIN Line',
                      i < k, k < j, Gated(Line'[i]), Gated(Line'[j]),
                      Line'[k].kind = "connected", Line'[i].id < Line'[j].id,
                      ~(Line'[k].id < Line'[j].id)
               PROVE  Jumped(Line[i].id, Line[j].id)'
    BY DEF LinkBetween, Gated
  <2>1. /\ i \in DOMAIN Line /\ Line'[i] = Line[i]
        /\ k \in DOMAIN Line /\ Line'[k] = Line[k]
    BY <1>3
  <2>2. j \in DOMAIN Line /\ Line'[j] = Line[j]
    BY <1>3, <1>6, <2>1
  <2>3. PICK e, l : e = Line[i].id /\ l = Line[j].id
    OBVIOUS
  <2>4. Jumped(e, l)
    BY <1>1, <2>1, <2>2, <2>3 DEF LinkBetween, Gated
  <2>5. Jumped(e, l)'
    BY <1>7, <2>4
  <2>6. QED
    BY <2>1, <2>2, <2>3, <2>5 DEF Jumped
<1>10. NewKept'
  <2>1. \A i \in DOMAIN parked' : parked'[i].id <= w
    BY <1>1, <1>4 DEF NewFrom
  <2>2. ASSUME NEW i \in DOMAIN Line'
        PROVE  Line'[i].id <= accepted' /\ (Line'[i].id <= w => Gated(Line'[i]))
    <3>1. CASE i \in DOMAIN Line
      <4>1. Line[i].id <= accepted /\ (Line[i].id <= w => Gated(Line[i])) /\ Line[i].id \in Nat
        BY <1>4, <1>5, <3>1 DEF NewFrom
      <4>2. Line[i].id <= accepted'
        BY <1>1, <4>1
      <4>3. QED
        BY <1>3, <3>1, <4>1, <4>2
    <3>2. CASE i = n + 1
      <4>1. Line'[i].id = accepted + 1
        BY <1>2, <1>3, <3>2
      <4>2. QED
        BY <1>1, <1>4, <4>1
    <3>3. QED
      BY <1>3, <3>1, <3>2
  <2>3. ASSUME NEW i \in DOMAIN Line', NEW j \in DOMAIN Line',
               i < j, w < Line'[i].id, w < Line'[j].id
        PROVE  Line'[i].id < Line'[j].id
    <3>1. i \in DOMAIN Line /\ Line'[i] = Line[i]
      BY <1>3, <2>3
    <3>2. CASE j \in DOMAIN Line
      BY <1>3, <1>4, <2>3, <3>1, <3>2 DEF NewFrom
    <3>3. CASE j = n + 1
      BY <1>6, <3>1, <3>3
    <3>4. QED
      BY <1>3, <3>2, <3>3
  <2>4. NewFrom(w)'
    BY <2>1, <2>2, <2>3 DEF NewFrom, Gated
  <2>5. w \in 0..accepted'
    BY <1>1
  <2>6. QED
    BY <2>4, <2>5 DEF NewKept
<1>11. MissingNoticed' /\ OrderKept'
  BY <1>1 DEF MissingNoticed, OrderKept, Overtaking
<1>12. WaitingOvertaken'
  <2> SUFFICES ASSUME NEW i \in DOMAIN settled', NEW j \in DOMAIN Line',
                      settled'[i].outcome = "executed", Gated(settled'[i]), Gated(Line'[j]),
                      Line'[j].id < settled'[i].id
               PROVE  Overtaking(Line[j].id, settled[i], 1..(i - 1))'
    BY DEF WaitingOvertaken, Gated
  <2>1. PICK e, l : e = Line'[j].id /\ l = settled[i]
    OBVIOUS
  <2>2. settled[i].id <= accepted /\ settled[i].id \in Nat
    BY <1>1, SettledNumbers, SettledType DEF GateInv
  <2>3. j \in DOMAIN Line /\ Line'[j] = Line[j]
    <3>1. Line'[n + 1].id = accepted + 1
      BY <1>2, <1>3
    <3>2. j # n + 1
      BY <1>1, <2>2, <3>1
    <3>3. QED
      BY <1>3, <3>2
  <2>4. Overtaking(e, l, 1..(i - 1))
    BY <1>1, <2>1, <2>3 DEF WaitingOvertaken, Gated
  <2>5. Overtaking(e, l, 1..(i - 1))'
    BY <1>1, <2>4 DEF Overtaking
  <2>6. QED
    BY <1>1, <2>1, <2>5 DEF Overtaking
<1> QED
  BY <1>8, <1>9, <1>10, <1>11, <1>12 DEF OrderInv

\* A command of the aCall is parked where it stands in line.
LEMMA OrderParks ==
    ASSUME GateInv, OrderInv, ParkACall
    PROVE  OrderInv'
<1>1. /\ TypeOK /\ SentOrder /\ LinkBetween /\ NewKept /\ MissingNoticed /\ WaitingOvertaken
      /\ OrderKept /\ accepted \in Nat /\ cmd_queue # <<>> /\ aCallSupported
      /\ cmd_queue' = Tail(cmd_queue) /\ parked' = Append(parked, Front)
      /\ UNCHANGED <<settled, aCallSupported, linkUps, accepted>>
  BY DEF GateInv, OrderInv, TypeOK, ParkACall, NeedsCover, HasNext, Parked, ACallGated,
     ECallGated, ACallButtons, ACallTriggers, ECallButtons, ECallTriggers
<1>2. Front \in ACallCmd /\ Gated(Front) /\ Front.id \in Nat
  BY <1>1, FrontFacts DEF ParkACall, ACallCmd, Gated
<1>3. Line' = Line
  BY <1>1, <1>2, LineType, LineParks DEF Line, Front
<1>4. SentOrder' /\ LinkBetween' /\ MissingNoticed' /\ WaitingOvertaken' /\ OrderKept'
  BY <1>1, <1>3 DEF SentOrder, LinkBetween, MissingNoticed, WaitingOvertaken, OrderKept,
     Overtaking, Jumped
<1>5. PICK w \in 0..accepted : NewFrom(w)
  BY <1>1 DEF NewKept
<1>6. /\ Len(parked) + 1 \in DOMAIN Line /\ Line[Len(parked) + 1] = Front
      /\ Len(parked) \in Nat /\ DOMAIN parked = 1..Len(parked)
      /\ \A i \in DOMAIN Line : i \in Nat \ {0} /\ Line[i].id \in Nat
      /\ \A i \in DOMAIN parked : i \in DOMAIN Line /\ Line[i] = parked[i]
  BY <1>1, LineType, LineMovesUp DEF Line, Front
<1>7. /\ DOMAIN parked' = 1..(Len(parked) + 1) /\ parked'[Len(parked) + 1] = Front
      /\ \A i \in DOMAIN parked : parked'[i] = parked[i]
  BY <1>1, <1>2, LineType, AppendProperties, LenProperties
<1>8. PICK v : v = IF w < Front.id THEN Front.id ELSE w
  OBVIOUS
<1>9. v \in 0..accepted' /\ w <= v /\ Front.id <= v /\ (v = w \/ v = Front.id)
  BY <1>1, <1>2, <1>5, <1>6, <1>8 DEF NewFrom
<1>10. NewFrom(v)'
  <2>1. ASSUME NEW i \in DOMAIN parked' PROVE parked'[i].id <= v
    <3>1. CASE i \in DOMAIN parked
      <4>1. parked[i].id <= w /\ parked[i].id \in Nat
        BY <1>5, <1>6, <3>1 DEF NewFrom
      <4>2. QED
        BY <1>5, <1>7, <1>9, <3>1, <4>1
    <3>2. CASE i = Len(parked) + 1
      BY <1>7, <1>9, <3>2
    <3>3. QED
      BY <1>6, <1>7, <3>1, <3>2
  <2>2. ASSUME NEW i \in DOMAIN Line, Line[i].id <= v PROVE Gated(Line[i])
    <3>1. CASE Line[i].id <= w
      BY <1>5, <3>1 DEF NewFrom
    <3>2. CASE w < Line[i].id
      <4>1. v = Front.id /\ w < Front.id
        BY <1>2, <1>5, <1>6, <1>9, <2>2, <3>2
      <4>2. CASE i \in DOMAIN parked
        BY <1>6, <4>2, LineType, <1>1
      <4>3. CASE i = Len(parked) + 1
        BY <1>2, <1>6, <4>3
      <4>4. CASE Len(parked) + 1 < i
        <5>1. Front.id < Line[i].id
          BY <1>5, <1>6, <3>2, <4>1, <4>4 DEF NewFrom
        <5>2. QED
          BY <1>2, <1>6, <2>2, <4>1, <5>1
      <4>5. QED
        BY <1>6, <4>2, <4>3, <4>4
    <3>3. QED
      BY <1>5, <1>6, <3>1, <3>2
  <2>3. ASSUME NEW i \in DOMAIN Line, NEW j \in DOMAIN Line,
               i < j, v < Line[i].id, v < Line[j].id
        PROVE  Line[i].id < Line[j].id
    <3>1. w < Line[i].id /\ w < Line[j].id
      BY <1>5, <1>6, <1>9, <2>3
    <3>2. QED
      BY <1>5, <2>3, <3>1 DEF NewFrom
  <2>4. \A i \in DOMAIN Line : Line[i].id <= accepted
    BY <1>5 DEF NewFrom
  <2>5. QED
    BY <1>1, <1>3, <2>1, <2>2, <2>3, <2>4 DEF NewFrom, Gated
<1>11. NewKept'
  BY <1>9, <1>10 DEF NewKept
<1> QED
  BY <1>4, <1>11 DEF OrderInv

\* The link is up: what is parked moves behind what waits in the queue, which a
\* later command of the aCall jumps by that.
LEMMA OrderTurns ==
    ASSUME GateInv, OrderInv, ECallConnected
    PROVE  OrderInv'
<1> DEFINE p == Len(parked)
           q == Len(cmd_queue)
<1>1. /\ TypeOK /\ SentOrder /\ LinkBetween /\ NewKept /\ WaitingOvertaken /\ OrderKept
      /\ HasNext /\ cmd_queue # <<>> /\ Settle("executed") /\ "executed" \in Outcome
      /\ Front.kind = "connected" /\ accepted' = accepted
      /\ linkUps' = linkUps \cup {[id |-> Front.id, accepted |-> accepted]}
      /\ cmd_queue' = Tail(cmd_queue) \o parked
  BY DEF GateInv, OrderInv, ECallConnected, Passes, HasNext, MovedBack, Outcome
<1>2. parked' = <<>>
  <2>1. p \in Nat /\ parked' = SubSeq(parked, p + 1, p)
    BY <1>1, LineType DEF ECallConnected, MovedBack
  <2>2. QED
    BY <2>1, SubSeqEmpty
<1>3. Line' = Tail(cmd_queue) \o parked
  <2>1. ACallCmd \subseteq Cmd
    BY DEF ACallCmd, Cmd, Kind
  <2>2. Tail(cmd_queue) \o parked \in Seq(Cmd)
    BY <1>1, <2>1, LineType, SeqMonotonic, HeadTailProperties, ConcatProperties
  <2>3. QED
    BY <1>1, <1>2, <2>2, ConcatEmptySeq DEF Line
<1>4. /\ p \in Nat /\ q \in Nat /\ DOMAIN parked = 1..p
      /\ p + 1 \in DOMAIN Line /\ Line[p + 1] = Front
      /\ \A i \in DOMAIN Line : i \in Nat \ {0} /\ Line[i].id \in Nat
      /\ \A i \in DOMAIN parked : i \in DOMAIN Line /\ Line[i] = parked[i] /\ Gated(parked[i])
  BY <1>1, LineType, LineMovesUp, LenProperties DEF Line, Front
<1>5. ASSUME NEW i \in DOMAIN Line'
      PROVE  /\ i \in Nat \ {0}
             /\ i < q => /\ p + 1 + i \in DOMAIN Line /\ Line'[i] = Line[p + 1 + i]
             /\ i >= q => /\ i - (q - 1) \in DOMAIN parked
                          /\ Line'[i] = Line[i - (q - 1)]
  <2>1. /\ i < q => /\ p + 1 + i \in DOMAIN Line /\ Line'[i] = Line[p + 1 + i]
        /\ i >= q => /\ i - (q - 1) \in DOMAIN parked /\ Line'[i] = parked[i - (q - 1)]
        /\ i \in Nat \ {0}
    <3>1. parked \in Seq(ACallCmd) /\ cmd_queue \in Seq(Cmd)
      BY <1>1, LineType
    <3>2. QED
      BY <1>1, <1>3, <3>1, LineTurns DEF Line
  <2>2. QED
    BY <1>4, <2>1
<1>6. PICK m : \A i \in DOMAIN Line' :
                  /\ m[i] \in DOMAIN Line /\ Line'[i] = Line[m[i]]
                  /\ i < q => m[i] = p + 1 + i
                  /\ i >= q => m[i] = i - (q - 1) /\ m[i] \in DOMAIN parked /\ m[i] <= p
  <2> DEFINE f == [i \in Nat |-> IF i < q THEN p + 1 + i ELSE i - (q - 1)]
  <2>1. ASSUME NEW i \in DOMAIN Line'
        PROVE  /\ f[i] \in DOMAIN Line /\ Line'[i] = Line[f[i]]
               /\ i < q => f[i] = p + 1 + i
               /\ i >= q => f[i] = i - (q - 1) /\ f[i] \in DOMAIN parked /\ f[i] <= p
    <3>1. i \in Nat
      BY <1>5
    <3>2. CASE i < q
      BY <1>4, <1>5, <3>1, <3>2
    <3>3. CASE i >= q
      BY <1>4, <1>5, <3>1, <3>3
    <3>4. QED
      BY <1>4, <3>1, <3>2, <3>3
  <2> HIDE DEF f
  <2>2. QED
    BY <2>1
<1> HIDE DEF p, q
<1>7. PICK w \in 0..accepted : NewFrom(w)
  BY <1>1 DEF NewKept
<1>8. \A i \in DOMAIN parked : Line[i].id <= w /\ Line[i].id < Front.id
  <2> SUFFICES ASSUME NEW i \in DOMAIN parked
               PROVE  Line[i].id <= w /\ Line[i].id < Front.id
    OBVIOUS
  <2>1. Line[i].id <= w /\ ~(Front.id <= w)
    BY <1>1, <1>4, <1>7 DEF NewFrom, Gated, ACallGated, ACallButtons, ACallTriggers
  <2>2. Line[i].id \in Nat /\ Front.id \in Nat
    BY <1>4
  <2>3. QED
    BY <1>7, <2>1, <2>2
<1>9. \A e, l : Jumped(e, l) => Jumped(e, l)'
  BY <1>1 DEF Jumped
\* A command in the queue jumps the earlier ones that are parked.
<1>10. ASSUME NEW i \in DOMAIN parked, NEW j \in DOMAIN Line, p + 1 < j,
              Gated(Line[j]), Line[i].id < Line[j].id,
              NEW e, NEW l, e = Line[i].id, l = Line[j].id
       PROVE  Jumped(e, l)'
  <2>1. i < p + 1
    BY <1>4
  <2>2. Front.id < l \/ Jumped(e, l)
    BY <1>1, <1>4, <1>10, <2>1 DEF LinkBetween
  <2>3. CASE Front.id < l
    <3>1. e < Front.id /\ l <= accepted
      BY <1>7, <1>8, <1>10 DEF NewFrom
    <3>2. PICK up : up = [id |-> Front.id, accepted |-> accepted]
      OBVIOUS
    <3>3. up \in linkUps' /\ up.id = Front.id /\ up.accepted = accepted
      BY <1>1, <3>2
    <3>4. QED
      BY <2>3, <3>1, <3>3 DEF Jumped
  <2>4. QED
    BY <1>9, <2>2, <2>3
<1>11. SentOrder'
  <2> SUFFICES ASSUME NEW i \in DOMAIN Line', NEW j \in DOMAIN Line', i < j,
                      Gated(Line'[i]), Gated(Line'[j]), Line'[j].id < Line'[i].id
               PROVE  Jumped(Line[j].id, Line[i].id)'
    BY DEF SentOrder, Gated
  <2>1. PICK e, l : e = Line'[j].id /\ l = Line'[i].id
    OBVIOUS
  <2>2. PICK a \in DOMAIN Line, b \in DOMAIN Line :
            a = m[i] /\ b = m[j] /\ Line'[i] = Line[a] /\ Line'[j] = Line[b]
    BY <1>6
  <2>3. i \in Nat /\ j \in Nat
    BY <1>5
  <2>4. CASE a < b
    <3>1. Jumped(e, l)
      BY <1>1, <2>1, <2>2, <2>4 DEF SentOrder, Gated
    <3>2. QED
      BY <1>9, <2>1, <3>1 DEF Jumped
  <2>5. CASE ~(a < b)
    <3>1. i < q /\ j >= q
      BY <1>4, <1>6, <2>2, <2>3, <2>5
    <3>2. b \in DOMAIN parked /\ p + 1 < a
      <4>1. b \in DOMAIN parked /\ a = p + 1 + i
        BY <1>6, <2>2, <3>1
      <4>2. i # 0
        BY <1>5
      <4>3. QED
        BY <1>4, <2>3, <4>1, <4>2
    <3>3. Jumped(e, l)'
      BY <1>10, <2>1, <2>2, <3>2 DEF Gated
    <3>4. QED
      BY <2>1, <3>3 DEF Jumped
  <2>6. QED
    BY <2>4, <2>5
<1>12. LinkBetween'
  <2> SUFFICES ASSUME NEW i \in DOMAIN Line', NEW k \in DOMAIN Line', NEW j \in DOMAIN Line',
                      i < k, k < j, Gated(Line'[i]), Gated(Line'[j]),
                      Line'[k].kind = "connected", Line'[i].id < Line'[j].id,
                      ~(Line'[k].id < Line'[j].id)
               PROVE  Jumped(Line[i].id, Line[j].id)'
    BY DEF LinkBetween, Gated
  <2>1. PICK e, l : e = Line'[i].id /\ l = Line'[j].id
    OBVIOUS
  <2>2. PICK a \in DOMAIN Line, b \in DOMAIN Line, c \in DOMAIN Line :
            /\ a = m[i] /\ b = m[j] /\ c = m[k]
            /\ Line'[i] = Line[a] /\ Line'[j] = Line[b] /\ Line'[k] = Line[c]
    BY <1>6
  <2>3. i \in Nat /\ j \in Nat /\ k \in Nat
    BY <1>5
  <2>4. k < q
    <3>1. c \notin DOMAIN parked
      BY <1>4, <2>2 DEF Gated, ACallGated, ACallButtons, ACallTriggers
    <3>2. QED
      BY <1>4, <1>6, <2>2, <2>3, <3>1
  <2>5. i < q /\ a = p + 1 + i /\ c = p + 1 + k
    BY <1>4, <1>6, <2>2, <2>3, <2>4
  <2>6. Jumped(e, l)
    <3>1. CASE j < q
      <4>1. b = p + 1 + j
        BY <1>6, <2>2, <3>1
      <4>2. a < c /\ c < b
        BY <1>4, <2>3, <2>5, <4>1
      <4>3. QED
        BY <1>1, <2>1, <2>2, <4>2 DEF LinkBetween, Gated
    <3>2. CASE ~(j < q)
      <4>1. j >= q
        BY <1>4, <2>3, <3>2
      <4>2. b <= p /\ b \in Nat
        BY <1>4, <1>6, <2>2, <4>1
      <4>3. b < a
        BY <1>4, <2>3, <2>5, <4>2
      <4>4. QED
        BY <1>1, <2>1, <2>2, <4>3 DEF SentOrder, Gated
    <3>3. QED
      BY <3>1, <3>2
  <2>7. Jumped(e, l)'
    BY <1>9, <2>6
  <2>8. QED
    BY <2>1, <2>7 DEF Jumped
<1>13. NewKept'
  <2>1. \A i \in DOMAIN parked' : parked'[i].id <= w
    BY <1>2
  <2>2. \A i \in DOMAIN Line' :
           Line'[i].id <= accepted' /\ (Line'[i].id <= w => Gated(Line'[i]))
    BY <1>1, <1>6, <1>7 DEF NewFrom
  <2>3. ASSUME NEW i \in DOMAIN Line', NEW j \in DOMAIN Line',
               i < j, w < Line'[i].id, w < Line'[j].id
        PROVE  Line'[i].id < Line'[j].id
    <3>1. PICK a \in DOMAIN Line, b \in DOMAIN Line :
              a = m[i] /\ b = m[j] /\ Line'[i] = Line[a] /\ Line'[j] = Line[b]
      BY <1>6
    <3>2. i \in Nat /\ j \in Nat
      BY <1>5
    <3>3. a \notin DOMAIN parked /\ b \notin DOMAIN parked
      BY <1>4, <1>7, <1>8, <2>3, <3>1
    <3>4. a < b
      BY <1>4, <1>6, <2>3, <3>1, <3>2, <3>3
    <3>5. QED
      BY <1>7, <2>3, <3>1, <3>4 DEF NewFrom
  <2>4. NewFrom(w)'
    BY <2>1, <2>2, <2>3 DEF NewFrom, Gated
  <2>5. QED
    BY <1>1, <1>7, <2>4 DEF NewKept
<1>14. MissingNoticed'
  BY <1>2 DEF MissingNoticed
<1>15. OrderKept'
  BY <1>1, SettlingOvertaken
<1>16. WaitingOvertaken'
  <2> SUFFICES ASSUME NEW i \in DOMAIN settled', NEW j \in DOMAIN Line',
                      settled'[i].outcome = "executed", Gated(settled'[i]), Gated(Line'[j]),
                      Line'[j].id < settled'[i].id
               PROVE  Overtaking(Line[j].id, settled[i], 1..(i - 1))'
    BY DEF WaitingOvertaken, Gated
  <2>1. /\ DOMAIN settled = 1..Len(settled) /\ Len(settled) \in Nat
        /\ DOMAIN settled' = 1..(Len(settled) + 1)
        /\ \A k \in DOMAIN settled : settled'[k] = settled[k]
        /\ settled'[Len(settled) + 1]
             = [id |-> Front.id, kind |-> Front.kind, outcome |-> "executed"]
    BY <1>1, LastSettled
  <2>2. settled'[Len(settled) + 1].kind = "connected"
    BY <1>1, <2>1
  <2>3. i \in DOMAIN settled /\ settled'[i] = settled[i]
    <3>1. i # Len(settled) + 1
      BY <2>2 DEF Gated, ACallGated, ACallButtons, ACallTriggers
    <3>2. QED
      BY <2>1, <3>1
  <2>4. \A k \in 1..(i - 1) : settled'[k] = settled[k]
    BY <2>1, <2>3
  <2>5. PICK e, l : e = Line'[j].id /\ l = settled[i]
    OBVIOUS
  <2>6. PICK b \in DOMAIN Line : Line'[j] = Line[b]
    BY <1>6
  <2>7. Overtaking(e, l, 1..(i - 1))
    BY <1>1, <2>3, <2>5, <2>6 DEF WaitingOvertaken, Gated
  <2>8. Overtaking(e, l, 1..(i - 1))'
    BY <1>1, <2>4, <2>7, OvertakingKept
  <2>9. QED
    BY <2>3, <2>5, <2>8 DEF Overtaking
<1> QED
  BY <1>11, <1>12, <1>13, <1>14, <1>15, <1>16 DEF OrderInv

-----------------------------------------------------------------------------
(* The invariant and what follows from it.                                 *)

\* The invariant of the order holds in every state of the command thread.
THEOREM OrderInductive == Spec => []OrderInv
<1>1. Init => OrderInv
  <2> SUFFICES ASSUME Init PROVE OrderInv
    OBVIOUS
  <2>1. parked = <<>> /\ cmd_queue = <<>> /\ settled = <<>> /\ accepted = 0
    BY DEF Init
  <2>2. Line = <<>>
    BY <2>1, EmptySeq, ConcatEmptySeq DEF Line
  <2>3. DOMAIN <<>> = {}
    OBVIOUS
  <2>4. NewFrom(0)
    BY <2>1, <2>2, <2>3 DEF NewFrom
  <2>5. NewKept
    BY <2>1, <2>4 DEF NewKept
  <2>6. QED
    BY <2>1, <2>2, <2>3, <2>5 DEF OrderInv, SentOrder, LinkBetween, MissingNoticed,
       WaitingOvertaken, OrderKept
<1>2. GateInv /\ GateInv' /\ OrderInv /\ [Next]_vars => OrderInv'
  <2> SUFFICES ASSUME GateInv, GateInv', OrderInv, [Next]_vars PROVE OrderInv'
    OBVIOUS
  <2>1. CASE ParkACall
    BY <2>1, OrderParks
  <2>2. CASE ECallConnected
    BY <2>2, OrderTurns
  <2>3. CASE ConsumeECall
    <3>1. /\ HasNext /\ Settle("consumed") /\ "consumed" \in Outcome
          /\ cmd_queue' = Tail(cmd_queue) /\ accepted' = accepted
          /\ UNCHANGED <<parked, linkUps, aCallSupported>>
      BY <2>3 DEF ConsumeECall, gateVars, Outcome
    <3>2. QED
      BY <3>1, OrderSettles
  <2>4. CASE Drop
    <3>1. /\ HasNext /\ Settle("dropped") /\ "dropped" \in Outcome
          /\ cmd_queue' = Tail(cmd_queue) /\ accepted' = accepted
          /\ UNCHANGED <<parked, linkUps, aCallSupported>>
      BY <2>4 DEF Drop, gateVars, Outcome
    <3>2. QED
      BY <3>1, OrderSettles
  <2>5. CASE Forward \/ StartRoutine \/ RequestResult
    <3>1. /\ HasNext /\ ~NeedsCover /\ CanBeExec
          /\ Settle("executed") /\ "executed" \in Outcome
          /\ cmd_queue' = Tail(cmd_queue) /\ accepted' = accepted
          /\ UNCHANGED <<parked, linkUps, aCallSupported>>
      BY <2>5 DEF Forward, StartRoutine, RequestResult, Passes, gateVars, Outcome
    <3>2. QED
      BY <3>1, OrderSettles
  <2>6. CASE ECallDisconnected \/ DIDChanged
    <3>1. /\ HasNext /\ ~NeedsCover /\ CanBeExec
          /\ Settle("executed") /\ "executed" \in Outcome
          /\ cmd_queue' = Tail(cmd_queue) /\ accepted' = accepted
          /\ UNCHANGED <<parked, linkUps>>
          /\ aCallSupported' = aCallSupported \/ Front.kind = "hwChanged"
      BY <2>6 DEF ECallDisconnected, DIDChanged, Passes, Outcome
    <3>2. QED
      BY <3>1, OrderSettles
  <2>7. ASSUME NEW kind \in traffic, Accept(kind) PROVE OrderInv'
    BY <2>7, OrderAccepts, GateAssumption DEF GateInv, TypeOK
  <2>8. CASE UNCHANGED vars
    <3>1. UNCHANGED <<parked, settled, aCallSupported, linkUps, accepted, Line>>
      BY <2>8 DEF vars, gateVars, Line
    <3>2. SentOrder' /\ LinkBetween'
      BY <3>1 DEF OrderInv, SentOrder, LinkBetween, Jumped
    <3>3. NewKept'
      BY <3>1 DEF OrderInv, NewKept, NewFrom
    <3>4. MissingNoticed' /\ WaitingOvertaken' /\ OrderKept'
      BY <3>1 DEF OrderInv, MissingNoticed, WaitingOvertaken, OrderKept, Overtaking
    <3>5. QED
      BY <3>2, <3>3, <3>4 DEF OrderInv
  <2>9. QED
    BY <2>1, <2>2, <2>3, <2>4, <2>5, <2>6, <2>7, <2>8 DEF Next, CommandThread
<1> QED
  BY <1>1, <1>2, GateInductive, PTL DEF Spec

\* A command of the aCall is executed before an earlier one is done with only if
\* it was queued behind the report that the link is up, or needs no support for
\* an aCall that was found to be missing.
THEOREM OrderAlwaysKept == Spec => []OrderKept
<1>1. OrderInv => OrderKept
  BY DEF OrderInv
<1> QED
  BY <1>1, OrderInductive, PTL
=============================================================================
