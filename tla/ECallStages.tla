---------------------------- MODULE ECallStages ----------------------------
(***************************************************************************)
(* What an eCall promises, without its timers, its modem and its queue.    *)
(* The driver may cancel it only until it is confirmed.  Once it has been  *)
(* dialled, it does not end before the time in which the PSAP may call     *)
(* back, if there is such a time; a call back uses up that time and a new  *)
(* or a repeated call starts it afresh.  A restart ends no eCall: what was *)
(* interrupted is triggered again or waited for, and stays owed until then.*)
(***************************************************************************)
CONSTANT Waits      \* there is a time in which the PSAP may call back

VARIABLES stage,    \* what the car is doing
          owed      \* what it must take up again after a restart

vars == <<stage, owed>>

Stage == {"off", "triggered", "registering", "dialling", "transferring",
          "talking",         \* in a call from the car
          "waiting",         \* for a call of the PSAP
          "called back",     \* in a call from the PSAP
          "triggered again"} \* and still waiting for the PSAP

Init == stage = "off" /\ owed = "nothing"

Goes(From, to) == stage \in From /\ stage' = to /\ owed' = "nothing"

Trigger == \E s \in {"triggered", "registering"} : Goes({"off"}, s)
Cancel  == Goes({"triggered"}, "off") \/ Goes({"triggered again"}, "waiting")
Confirm == Goes({"triggered"}, "registering")
NoNetwork == Goes({"registering"}, "off")

\* The first call, a repeated one or a new one.
Dial == Goes({"registering", "transferring", "talking", "waiting", "called back",
              "triggered again"}, "dialling")
Connect == Goes({"dialling"}, "transferring")
Transfer == Goes({"transferring"}, "talking")

\* The call has ended and is not repeated.
Wait == Goes({"dialling", "transferring", "talking"}, IF Waits THEN "waiting" ELSE "off")

Answer == Goes({"waiting", "triggered again"}, "called back")
WaitOn == Goes({"called back"}, "waiting")
TriggerAgain == Goes({"waiting"}, "triggered again")
TimeOver == Goes({"waiting", "called back", "triggered again"}, "off")

\* The program restarts; what it was doing it owes from now on.
Restart ==
    /\ stage # "off"
    /\ stage' = "off"
    /\ owed' = IF stage = "waiting" THEN "wait" ELSE "trigger"

\* A wait is resumed, unless its time is over.
Resume ==
    /\ owed = "wait"
    /\ \E s \in {"waiting", "off"} : Goes({"off"}, s)

Next == Trigger \/ Cancel \/ Confirm \/ NoNetwork \/ Dial \/ Connect \/ Transfer
        \/ Wait \/ Answer \/ WaitOn \/ TriggerAgain \/ TimeOver \/ Restart \/ Resume

Spec == Init /\ [][Next]_vars
=============================================================================
