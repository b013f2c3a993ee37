--------------------------- MODULE DiagStateSync ---------------------------
(***************************************************************************)
(* What the stop-and-wait synchronisation of a diagnostic state promises:  *)
(* the MCU's copy (replica) follows the manager's state (source) through   *)
(* one published frame at a time.  A running MCU is never more than one    *)
(* publication behind, so it sees every published state and in the order   *)
(* they were published.                                                    *)
(***************************************************************************)
CONSTANTS Frame,     \* the frames that can be published
          NoState    \* the copy of an MCU that has received nothing yet

VARIABLES source,    \* the newest state of the manager
          published, \* the frame the manager is bringing to the MCU
          replica    \* the frame the MCU holds

vars == <<source, published, replica>>

Init ==
    /\ source \in Frame
    /\ published = source
    /\ replica = NoState

\* The manager's state changes; nothing is published yet.
Change ==
    /\ source' \in Frame
    /\ UNCHANGED <<published, replica>>

\* The manager moves on to its newest state: a running MCU already holds the
\* frame that was being published.
Publish ==
    /\ replica \in {published, NoState}
    /\ source' \in Frame
    /\ published' = source'
    /\ UNCHANGED replica

Deliver ==
    /\ replica' = published
    /\ UNCHANGED <<source, published>>

\* An MCU that has just restarted may first see a frame sent earlier.
CatchUp ==
    /\ replica = NoState
    /\ replica' \in Frame
    /\ UNCHANGED <<source, published>>

Restart ==
    /\ replica' = NoState
    /\ UNCHANGED <<source, published>>

Next == Change \/ Publish \/ Deliver \/ CatchUp \/ Restart

Spec == Init /\ [][Next]_vars
=============================================================================
