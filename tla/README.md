# A TLA+ model of the eCall manager

The repository holds part of an automotive call manager in C++ on Poco: the
state machine of the regulated emergency call (eCall), its event log, its
prompts, and the command thread of the component that joins eCall and assistance
call (xCall). The specifications here model the parts with their own control,
check them with TLC and prove their main safety properties with TLAPS.

## The system

| part | source | state | operations |
|---|---|---|---|
| eCall state machine | `CeCallMachine.cpp/.h` | state, sub state, state of the call and of the MSD, dial attempts, timers, the saved state | one handler per state for the events of the state queue; `enterECallState*`; timer callbacks; recovery at start |
| diagnostic-state ARQ | `CxCallCmd.cpp/.h` | three frames (In, Out, Current) for each of two diagnostic states | update, send, reply, timeout, request of the MCU |
| event log files | `CeCallEventLog.cpp/.h` | the list of log files, file number, session state, two timers | session start and end, rotation, expiry, scan of the folder, logged events |
| event log records | `CeCallEventLog.cpp/.h` | `dynamicEvents`, the last known cell and position | collect, serialise, store |
| command thread | `CxCallCmd.cpp` | command queue, wait queue, commands that wait for the eCall connection | dispatch to LCM, MCU and xCall handlers, replies, timeouts, the gate for commands while eCall is not connected |
| routine control | `CxCallCmd.cpp` | none | a diagnostic request is mapped to a call of another component |
| prompt player | `CeCallAudio.cpp/.h` | what plays and what is pending | play, end of playing |
| status reports | `CeCallMachine.cpp` | the 3A9 status and the fault bits sent last | derived from the state |

Not in the repository, and modelled only by how it is used: the thread of the
state queue (`CeCallHandler`), the modem interface (`CeCallFunction`), the
configuration file (`CeCallXmlConfig`), the command handler `CHD` with its wait
queue, the MCU, Poco timers and events, `CxCallMachine` and `CxCallHandler`.

How the parts interact:

* The modem, the buttons, timers and other components put events into the state
  queue; one thread takes them and runs the handler of the current state. Timers
  run their callbacks on threads of their own. A callback looks at the state and
  queues an event; one of them also writes a member of the machine.
* The machine tells the event log by a Poco event (`notifyUpdateEvent`), which
  runs the handler of the log on the caller's thread.
* The command thread of xCall polls its queue. A frame for the MCU goes through
  the wait queue of the command handler, whose timer queues a timeout command;
  the reply of the MCU is queued as a command as well.
* The state of the eCall is saved in the configuration at each transition and is
  read at start.

What is hard here: events that have become stale in a queue (timeouts, hang-up
reports, acknowledgements), timers whose callbacks race the handlers, lost and
late frames, a restart at any point, redial limits over several stages of a
call, and timers that are stopped by the thread their callback waits for.
`PROJECT.json` lists these hazards at their lines, with the properties for them.

## What makes each part correct

* ARQ: the MCU's copy follows the manager's state through every published frame
  in order; "acknowledged" means delivered; in the end the MCU has the newest.
* eCall: a timer belongs to the state it runs in; every stage of the call is
  supervised by a timer or by its queued timeout; the state of the call fits the
  state of the machine; the saved state is the one to recover; the number of
  dials is bounded; every eCall ends.
* eCall as a whole: it is not cancelled once confirmed, does not end without the
  wait for callbacks, and is taken up again after a restart. The time for
  callbacks is used up once, by waiting, and dials keep their intervals.
* Event log files: every file is tracked and removed when it is expired; the file
  of a running session is kept; there is at most one file per number; a periodic
  update stays within its session.
* Event log records: the file of a session holds what happened in it and nothing
  else, although two threads write it.
* Command thread: a command that waits for the eCall process is neither lost,
  repeated nor stranded, and keeps its place among the commands of the aCall; the
  routine control answers for the latest start.

## Modules

| module | models |
|---|---|
| `DiagStateSync` | the abstract synchronised copy: a source, the published frame, a replica |
| `DiagStateArq` | the stop-and-wait ARQ on the command thread, the UART and the MCU |
| `MCStateArq` | instances of it |
| `DiagStateArq_proofs` | proofs about it |
| `ECallMachine` | the eCall state machine, its timers, modem, driver and restarts |
| `ECallTimes` | the times of the machine: waiting for callbacks, dialling again |
| `MCECallTimes` | instance of it |
| `ECallTimes_proofs` | proofs about it |
| `ECallStages` | the abstract eCall: what the car is doing, and what it owes after a restart |
| `ECallRefinement` | the mapping of `ECallMachine` to it |
| `ECallRefinement_proofs` | the proof that the machine implements it |
| `MCECall` | instances of `ECallMachine` and `ECallRefinement` |
| `ECallMachine_proofs` | proofs about it |
| `EventLog` | the event log files and their timers |
| `MCEventLog` | instances of it |
| `EventLog_proofs` | proofs about it |
| `EventRecords` | the records of a session and the two threads that write them |
| `MCEventRecords` | instance of it |
| `EventRecords_proofs` | proofs about it |
| `CommandGate` | the command thread: the gate for commands while eCall is not connected, and the routine control |
| `MCCommandGate` | instance of it |
| `CommandGate_proofs` | proofs about it |
| `CommandOrder_proofs` | the proof of the order in which commands of the aCall are executed |

### DiagStateArq

`arqIn`, `arqOut` and `arqCurrent` are the three frames of a diagnostic state.
`cmd_queue` holds the commands of the thread; `waiting` tells whether a frame is
in the wait queue of the command handler and has been timed out. Each command
has an action (`ExecUpdate`, `ExecNeedSync`, `ExecMcuRequest`, `ExecReply`,
`ExecTimeout`), which ends with the synchronisation the code makes (`Sync`). The
UART is a FIFO in each direction that loses frames; the MCU takes a frame, and
replies, and may restart and then asks for a synchronisation. The two ARQs of
the code are two settings of `SyncsAtStart` and `SyncsOnRequest`: the driving
state is sent neither at start nor when the MCU asks. Serial numbers count
modulo `SNModulus`, 256 in the code and 3 for TLC. The MCU's own request for a
synchronisation may be lost too, unless `RequestsArrive` says otherwise. A reply
too short to hold a frame, which the code answers with an exception
(`CxCallCmd.cpp:1436`), is left out.

### ECallMachine

`m` is the record of the members of `CeCallMachine` that decide what it does, with
the timers that run (`stateTimer` names the callback `m_statetimer` has been
started for) and what the modem does. The functions `EnterOff`, `EnterCall`, ...
on this record are the functions `enterECallState*` of the code, so that a handler
is the composition of the calls it makes. Every `case` of the `ecall_process_*`
functions that changes what is modelled is an action that takes the head of
`queue`, but for `ECALL_FLOW_HANGUP_TIMEOUT` in CALL (`CeCallMachine.cpp:829`),
which hangs up: nothing in the repository queues that event. `Drop` is the default
branch. The callbacks of the timers are actions of their own.
`CallActiveOverwritten` and `MsdProgressOverwritten` are the handlers interrupted
by `ecall_msd_transfer_timeout`, which writes `m_msd_state` from the timer's
thread and queues its timeout by the state it sees after that. Durations are left
out: a timer that runs may fire at any time; of the time in which a call back is
awaited the model keeps whether some is left. `Restart` loses everything but the
saved state, and `initStartUp` queues the recovery. Prompts, LEDs, traces, server
notifications and the SMS are left out.

### ECallStages and ECallRefinement

`ECallStages` is an eCall without timers, modem and queue: nine stages and what
is owed after a restart. It says which stage may follow which: cancelling is
possible before the confirmation only, a call that has ended leads to the wait
for callbacks if there is a time for it, and a restart ends nothing.
`StageOf` and `OwedOf` map the machine's record to it: a voice communication is
a call from the car or one of the PSAP by `m_is_already_in_WCB`, and what is
saved is owed while the machine itself does nothing. `TimeOver` lets the wait
end from a call back and with a trigger pending, because the code does so
(`CeCallMachine.cpp:2101`).

### ECallTimes

The states of the machine reduced to what the times depend on, with the numbers
that `ECallMachine` leaves out: `m_remaining_time_in_WCB`, the clock at which a
wait was entered, the first dial, the call and redial timers. Differences that
the code computes in unsigned types are modulo `U32`. The writes to the
configuration file (`saves`) follow one by one, so that a crash may come between
two of them; each handler has written before the next runs. `callback` is the timer that
the receiver of the state notifications runs with the time it is told;
`CALL_BACK_TIMEOUT` may come behind one other event. `SetClock` sets the wall
clock by two units in either direction. The ghosts count the true time since the
first dial and the time spent waiting. `disturbed` names what the properties
except, each a case in which the code does lose track (see below). A redial after
a call back that ended abnormally starts the ghosts anew, as a new call does. The
cast of the elapsed seconds to 32 bits (`CeCallMachine.cpp:1724`) is left out.

### CommandGate

`cmd_queue` is the queue of the command thread, `parked` is
`waitECallConnectedCmdQueue`. A step of the thread takes the head of the queue
through `checkNeedCoverNEENotReadySituation`, `can_be_exec` and its handler:
`ParkACall`, `ConsumeECall`, `Drop`, or the handler's action. `Forward` stands for
every handler that only passes a command on; the guards and replies of those
handlers (`CxCallCmd.cpp:1087` to 1236) change nothing that is modelled.
`ECallConnected` moves what is parked to the end of the queue in one step; the
code moves one command at a time, and a command sent between two of them overtakes
the rest, which the first case of `OrderKept` allows. Kinds of commands are those
that the code tells apart, and a behaviour has one of the sets in `Traffics`.
Commands are numbered as they are accepted; `settled` records each in the order in
which the thread was done with it. Answers of other components
(`checkManualACallCanTrigger`, the hardware validator, the aCall's state) are any.
In the routine control the bits of a request are three kinds of starts.

### EventLog

A file is its number and its age. `ctxs` is `m_logFileCtxs`, a set, as the code
sorts it before each use. Handlers are serialised by the mutex of the Poco
delegate, so most are one action; a handler that stops a timer waits for a
running callback of the timer, and is split there: `handler` says where it waits.
`ExpiryTimerFires` begins the callback of the expiry timer, which then waits for
the mutex; `HandleFileExpired` is its handler. The periodic update runs without
the mutex (`PeriodTimerFires`, `PeriodicUpdate`). `Restart` may come at any
point and leaves the folder and the saved number. `Tick` lets time pass for files
and timers, `SetClock` changes the wall clock only. Contents of files are left
out, and so is a change of the clock within a handler. The clock is set back only
while no file is from the future, so that ages stay bounded. `OpenFile` saves the
number and removes the old file in one step, and a callback that has passed its
wait when `stop()` begins is one that has fired before: `stop()` waits for it.

### EventRecords

An update of the log takes three steps: `Collect` (`collect_event`), `Write` (the
text made of all that was collected) and `Store`. The handlers take them one at a
time; the callback of the period timer takes them on its own thread, without
the lock. Two threads that append at the same moment may lose a record; a store
overwrites the file from its start and does not shorten it, so the model keeps
the longest text written (`extent`). `Dial` and `SessionStarted` are the two
notifications of one dial of the machine, in the order of the code. A record is
its session, kind and value. The ghosts `alone`, `clean` and `lost` tell whether
the last update met another one. `call` and `msd` are the states last reported of
`PSAP_CALL_STATE` and `MSD_TRANSMISSION_STATE`. Both are compared, remembered and
recorded alike, but a dial notifies the first only, and neither the end of a session
nor the start of the next resets them. `msdBefore` is a ghost: `msd` when the session
started.

## Runs

| run | instance | shows |
|---|---|---|
| `state_arq` | two values, three serial numbers, three updates, one MCU restart, queues of three | type, `PipelineInv`, `AckedIsDelivered`, and that the ARQ implements `DiagStateSync` |
| `state_arq_live` | two updates, one restart, queues of two | `StateConverges` |
| `driving_arq_live` | driving ARQ, three updates, queues of two | `ChangeReachesMcu` |
| `ecall` | two attempts, two stimuli (triggers, presses, PSAP calls, crashes, restarts), two events queued from outside | type, `TimerFitsState`, `CallFitsState`, `Supervised`, `SavedFitsState`, and that the machine implements `ECallStages` |
| `ecall_prompt` | three attempts, `Prompt` | `AttemptsBounded` |
| `ecall_live` | two attempts, `EndReported`, queue of one | `ECallEnds`, `InterruptedResumes` |
| `ecall_times` | two configurations of three attempts, with and without room in the intervals; five units of time, two new calls, one crash, one setting of the clock | type, `NotRearmed`, `TimeExact`, `TimerAgrees`, `DialsSpaced` |
| `event_log` | four numbers, validity five, retry two, two restarts, clock set twice | type, `FilesTracked`, `SessionFileKept`, `OneFilePerNumber`, `UpdateWithinSession`, `ExpiryCovered` |
| `event_log_live` | three numbers, validity three, clock set twice, one restart | `ExpiredRemoved` |
| `event_log_deadlock` | two numbers | a violation of `NoTimerDeadlock` |
| `event_records` | two sessions of three records, two states of the call, of the MSD and of the network, one cell | type, `SessionPure`, `FileComplete`, `NetworkTold`, `CallTold`, `MsdTold` |
| `command_gate` | three mixes of kinds, three commands, three link reports | type, `NothingStranded`, `EachOnce`, `OrderKept`, `RoutineAgrees`, `CommandsSettle`, `AnnouncedTriggers` |

Bounds. Three serial numbers tell the frame sent, the one before and any older one
apart, and wrap; three updates reach a change and a change back while a frame is
not acknowledged. Queues of two or three hold a stale reply or timeout and what
overtakes it. Two stimuli of the eCall machine give, for instance, a trigger and a
call back, a trigger and a restart, or a trigger and a crash of the modem's
application; the internal events (timeouts, modem reports, redials) are not
bounded by them. Two or three attempts give a first dial, a redial and the last
one. Four file numbers wrap within the validity of five units. Five units of time
reach two waits for callbacks of two or three units, with a call back between
them, and the third dial of an interval of two; the end of a wait after the third
dial is reached with the shorter intervals only. Two sessions of three records
hold the initial record, one of each thread, and the end, and what is left over
from one session in the next. Three commands and three reports are the least in
which the link comes, goes and comes again with commands parked both times; one
mix has commands with and without need of support while the aCall comes and goes.
Deadlock is not checked: the machine rests when it is off, the environment is
bounded, and the event log does deadlock (see below).

### Fairness and assumptions

* `DiagStateArq`: the command thread and the timer of a send run (weak
  fairness); the UART delivers a frame that is sent again and again (strong
  fairness). `RequestsArrive`: the MCU's request after a restart is not lost. The
  code has no other way to learn of the restart, and whether the MCU repeats the
  request is not in the repository; the safety run does without the assumption.
  `driving_arq_live` has no restarts: that state is not sent again for one.
  `TimelyReplies`: in the long run a timeout means that a frame or its
  reply is lost. The comment at the timeout says two seconds against a usual half
  second; without it each reply could come just after its timeout for ever.
* `ECallMachine`: the handler thread and timers run, a call that is hung up is
  released, calls end, and once the vehicle state is known after a restart the
  interrupted call is triggered (`Retrigger`, a part that is not in the
  repository; `InterruptedResumes` rests on it). `EndReported`: if the modem's
  application crashes during a call of the PSAP, the end of that call is still
  reported. Without it `ECallEnds` fails: `CALL_BACK_TIMEOUT` is ignored while a
  call is incoming (`CeCallMachine.cpp:1186`) and nothing follows it.
* `Prompt`: the state queue is empty when the redial timer fires, that is, the
  queue is worked off within `redial_delay_time`. Without it a hang-up report
  that waits in the queue while the redial timeout is queued behind it starts
  another redial for the same call, and the machine dials once more than
  `ECALL_DIAL_ATTEMPTS_EU`.
* `CommandGate`: the command thread runs. `CommandsSettle` and
  `AnnouncedTriggers` assume in their statements that the link to the eCall
  process is up for good in the end, and the latter that the vehicle keeps its
  aCall: without a link the code waits without a limit.
* `ECallTimes`, `EventRecords`: safety only, no fairness.
* `EventLog`: callbacks and handlers that are not blocked come to an end, time
  passes, the configuration is loaded. `Overlap = FALSE`, used for liveness, keeps
  the expiry timer from firing within a handler and so excludes the deadlock.

### The finding

`event_log_deadlock`: `monitorLogFileExpired` calls `stop()` of the expiry timer
(`CeCallEventLog.cpp:897`) inside a handler, that is, with the delegate's mutex
held. `stop()` waits for a running callback. If the timer has just fired, its
callback is in `notifyUpdateEvent` and waits for that mutex, so that a session
that starts then, with the thread of the eCall machine in it, waits for ever. The
comment at line 850 describes the same deadlock for the stop in the callback and
avoids it there. The window is small, but grows while a new eCall waits for the
periodic update of the session before it.

### Observations that are not findings

These are not documented otherwise, or only by a comment on another path; the
properties are stated around them:

* A release report of a call that the machine hung up, handled after the next
  dial, moves the machine into the wait for call back with the new call up.
* The driving state is not sent again for a restarted MCU.
* `MSD_SENDING_START` stops the timer of the MSD transfer without starting one, so
  `Supervised` does not speak of that stage; the modem's report ends it.
* The end of a call back with no time left forgets a pending manual trigger
  (`CeCallMachine.cpp:2101`).
* Elapsed waiting time is subtracted twice when a call or a second press comes
  while a manual trigger is pending, or when the program stops between the two
  writes of a wait's end and begin. The time for callbacks is then too short.
* A call back that ends abnormally is dialled again, and that redial sets the time
  for callbacks anew (`CeCallMachine.cpp:1865`), as a new call does.
* If the clock is set back while dialling, the unsigned difference of the times
  makes every redial follow after `redial_delay_time` (`CeCallMachine.cpp:1676`).
* The first call timer wraps if the interval of the dials is shorter than the
  redial delay (`CeCallMachine.cpp:1862`).
* Each dial, also a redial, starts a session of the log after its `DIAL` was
  recorded: the record is in the file before, or nowhere, and each redial takes
  another file of the rotation.
* The state of the MSD is remembered over sessions. If a call is lost in the middle
  of the transfer, the redial starts a session, and its first report is not recorded
  if it is the one reported last (`CeCallEventLog.cpp:1581`). `MsdTold` therefore says of a
  file without records of the MSD only that the state is that from before.
* Two updates at the same time may lose a record, may leave remains of a longer
  text in the file until the next lone update, and may collect two reports of the
  network in the wrong order.
* A command of the aCall that is sent after the link is up may overtake one that
  waited for the link, and so may one that needs no support of the aCall if the aCall
  was found missing in between: `OrderKept` names both cases. It speaks of commands
  that are executed: one that needs support is then dropped before its turn.
* A prompt that is deferred may be lost: `playAudioWithLanguage003` sees that
  another prompt plays, that prompt ends, and only then is 003 noted as waiting
  (`CeCallAudio.cpp:167`). 004, which waits for 003, is then not played either.

## Proofs

All for every value of the constants, from the named assumptions on them
(`ArqAssumption`, `MachineAssumption`, `EventLogAssumption`, `GateAssumption`,
`TimesAssumption`, `RecordsAssumption`), which TLC evaluates in the runs. Two
conjuncts of `TimesAssumption` are there for `DialsSpaced`. A call timer is at least
one unit, 60 s in the code (`CeCallMachine.cpp:1862`). A duration is less than
`U32`: the code takes the duration for dialling, a configured number of minutes, as
unsigned seconds of 32 bits (`CeCallMachine.cpp:1837`).

* `DiagStateArq_proofs`: `TypeCorrect`, then `PipelineOrdered` relative to it.
  `AckedIsDelivered` is not inductive: it needs to know which frames and replies
  are still under way. `PipelineInv` says it for the whole pipeline from the
  command queue over the replies to the MCU and the frames before it: once Out
  has been seen only Out follows, and the rest is the one frame before it. One
  lemma per kind of step preserves it. `AckedIsDeliveredAlways` follows, and
  `ArqImplementsSync` shows each step to be one of `DiagStateSync` or a stutter
  under the mapping Current, Out, MCU's copy.
* `ECallMachine_proofs`: one inductive invariant, `IInv`. It joins the four
  properties of the record (`TimerFits`, `CallFits`, `SavedFits`, `AttemptsFit`)
  with three about the queue: a supervising timer runs or its event is queued
  (`Watched`), a recovery is on its way (`Pending`), and under `Prompt` a redial
  timeout is the head of the queue with an attempt left (`RedialNext`). The last
  one is needed for `AttemptsBounded`: dialling adds an attempt when the timeout
  is handled, not when the timer is started. Lemmas say that each function on the
  record leaves a `Fine` machine; the lemmas on the handlers of a state compose
  them, one step per action. `Inductive` and the six theorems follow.

* `ECallRefinement_proofs`: `MachineImplementsStages`, by simulation under `IInv`
  and `CalledBack`, which says that `m_is_already_in_WCB` is set in the wait for
  callbacks, and elsewhere only in a call of the PSAP. Lemmas say which
  stage each function on the record enters (`Enters`); one lemma per state shows
  that each of its handlers is a step of `ECallStages` or a stutter.
* `EventLog_proofs`: `FilesInv` joins type, `FilesTracked`, `SessionFileKept`,
  `OneFilePerNumber` and `UpdateWithinSession` with what holds while a handler is
  halfway: the number of the file being opened is not in the folder (`Opening`),
  and a scan that waits for the timer has the files of the folder (`Building`).
  None of the four is inductive alone: the session's file is kept only if it is
  tracked and its number is not used again. `ExpiryCovered` is inductive relative
  to `FilesInv`; it rests on a set of files having an oldest one, from the
  well-foundedness of the numbers. `DeadlockLasts` is an action property: the
  state that `event_log_deadlock` reaches is left by a restart only.
* `CommandGate_proofs`: `EachOnce` follows from `Placed`, which counts each number
  over the three sequences, also those not given out; the lemmas on counting in
  sequences (`CountConcat`, `CountTail`) carry it over each step.
  `RoutineAgrees` needs `FlagsAgree`: the flags tell the answer of the latest
  start while they count.
* `CommandOrder_proofs`: `OrderKept` speaks of what is settled, so `OrderInv` says how
  what waits may be ordered. What is parked and then the queue are one line
  (`Line`): parking leaves it as it is, settling takes one out of it, and the
  report of the link turns it. `SentOrder` says that two commands of the aCall in the
  wrong order have jumped when a report turned the line; that they really were on
  the two sides of the report needs `LinkBetween` (a report of the link between two
  of them was sent before the later one) and `NewKept` (up to some number all that
  is in line is of the aCall, and the rest is in the order of sending).
  `MissingNoticed` gives the other case: what is parked while there is no aCall was
  parked before that was found out. `WaitingOvertaken` is `OrderKept` for the
  commands still in line. The proof found that `OrderKept` as it was first stated
  is false, for a command that is dropped; it now speaks of executed ones.
* `EventRecords_proofs`: `RecordsInv`, over every interleaving of the two threads.
  The file and each text that is about to be stored are beginnings of what has been
  collected (`Beginnings`), and a text whose update is alone is all of it (`Lone`):
  `FileComplete` follows for each store. `Within` says that no update outlives its
  session, which `SessionPure` needs together with `EventsPure`; `NetworkCollected`,
  `CallCollected`, `MsdCollected` and `EndCollected` say that what the program knows
  has been collected or is about to be, so that a complete file tells it. `EndsTold`
  is proved of a property that no run checks (`EndTold`: the end is in the file,
  unless the last update met another one). `StepKinds` sorts
  the steps into a few kinds, and one lemma per kind preserves the conjuncts.
* `ECallTimes_proofs`: `TimesInv`. `Budget`, `Exact` and `TimerRuns` are
  `NotRearmed`, `TimeExact` and `TimerAgrees` for a program that runs. They survive
  a crash only if the file is good at every point between two writes: `Writes`
  follows the at most three writes still to be done, demands of the file after
  each that the program may start again from it (`Safe`), and after the last that
  it tells what the machine knows (`Agrees`). `Dials` ties the true time of a dial
  to the attempts and to what is left of the call and redial timers. `Phases` says
  which members count in which phase.

Only model-checked: the liveness properties, since fairness is out of the prover's
reach. Every safety invariant and both refinements that the passing runs check are
proved.

## Plan

1. Done: the ARQ with its abstract specification, the eCall machine with its
   times and its abstract specification, the event log's files and records, the
   command thread; the proofs above, of every safety invariant that is checked.
2. Proofs next: what `ECallStages` promises, as action properties of the machine;
   an abstract log that `EventRecords` implements.
3. Models next: the prompt player, as far as the order of the audio manager's
   reports can be taken from its use.

## Not modelled

* The prompt player and the reported states (3A9, `CallStatus`, fault bits):
  their interleavings are with threads and components that are not in the
  repository (the audio manager, the aCall's machine), and nothing that the other
  parts decide depends on them.
* `exec_lcm_Cmd`, `exec_lcm_reply` and the other handlers that forward: no control
  of their own beyond `passedOn`.
* A composition of `ECallMachine` with the event log: the machine never reads the
  log, and waits for it only in the deadlock that is modelled; what the log needs
  of the machine is the order of its two notifications, in `EventRecords`.
* JSON texts, file names, contents of prompts, LEDs, traces, buttons' beeps.
* MSD log expiry and start-up with the LCM: timers and I/O around the machine.
