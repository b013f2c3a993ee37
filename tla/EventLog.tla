------------------------------ MODULE EventLog ------------------------------
(***************************************************************************)
(* The log files of eCall sessions, CeCallEventLog: which files exist,     *)
(* which of them the program keeps track of, and the two Poco timers that  *)
(* remove expired files and add periodic data to the file of a session.    *)
(*                                                                         *)
(* Every event is handled by onUpdateEventLog on the thread of its caller, *)
(* one at a time: the delegate of a Poco event is called with its mutex    *)
(* held.  A handler ends in one step, or waits where it stops a timer,     *)
(* because Poco::Timer::stop waits for a running callback of the timer.    *)
(* "handler" tells where.  The callback of the expiry timer handles an     *)
(* event too and needs the mutex; the callback of the period timer does    *)
(* not.                                                                    *)
(*                                                                         *)
(* A file is its number and its age, the time since the one in its name.   *)
(* Contents, names and folders are left out.                               *)
(***************************************************************************)
EXTENDS Integers

CONSTANTS
    FileNumbers,        \* ECALL_EVENT_FILE_NUMBER
    Validity,           \* MAXIMUM_EVENT_LOG_FILE_VALIDTY_DURATION_S
    Retry,              \* EVENT_LOG_DEL_EXPIRED_NOT_ALLOW
    Overlap,            \* the expiry timer may fire while a handler runs
    MaxClockBack,       \* bounds of the model: how far back the time of a file
    MaxClockSets,       \* may be set, how often the clock is set, and how often
    MaxRestarts         \* the program is started again

\* The age from which a file is expired, even if the clock is set back.
MaxAge == Validity + MaxClockBack

ASSUME EventLogAssumption ==
    /\ FileNumbers \in Nat \ {0}
    /\ Validity \in Nat \ {0} /\ Retry \in Nat \ {0}
    /\ Overlap \in BOOLEAN
    /\ MaxClockBack \in Nat /\ MaxClockSets \in Nat /\ MaxRestarts \in Nat

VARIABLES
    disk,       \* the files of the log folder
    ctxs,       \* m_logFileCtxs
    current,    \* m_fileName
    session,    \* m_SessionState
    number,     \* m_fileNumber
    saved,      \* the file number in the configuration
    known,      \* the folder has been scanned since the program started
    expiry,     \* m_logFileExpiredTimer; "waiting": its callback for the mutex
    due,        \* the time left until it fires
    period,     \* m_informTimer; "busy": its callback runs
    handler,    \* where the running handler waits
    clockSets, restarts

vars == <<disk, ctxs, current, session, number, saved, known, expiry, due,
          period, handler, clockSets, restarts>>

File == [num : 1..FileNumbers, age : (0 - MaxClockBack)..MaxAge]
NoFile == [num |-> 0, age |-> 0]
\* "idle": no handler runs.  "ending", "restarting": endSession waits for the
\* period timer, and startSession follows or not.  "opening", "building":
\* initLogFile or buildLogFiles waits for the expiry timer.
Handler == {"idle", "ending", "restarting", "opening", "building"}

Init ==
    /\ disk = {} /\ ctxs = {} /\ current = NoFile
    /\ session = "STOP" /\ number = 0 /\ saved = 0 /\ known = FALSE
    /\ expiry = "off" /\ due = 0 /\ period = "off" /\ handler = "idle"
    /\ clockSets = 0 /\ restarts = 0

-----------------------------------------------------------------------------
(* Removing expired files *)

\* Mutant: the file of the running session is not protected.
AlwaysAllowed(f) == TRUE

AllowedToRemove(f) == session = "STOP" \/ f # current
Expired(f) == f.age >= Validity

\* The files are sorted by time: the expired ones come first.
Removed(files) == {f \in files : Expired(f) /\ AllowedToRemove(f)}

\* Mutant: the files are sorted the wrong way round.
TimeToLastExpired(files) ==
    LET youngest == CHOOSE f \in files : \A g \in files : g.age >= f.age
        left == Validity - youngest.age
    IN  IF left <= 0 THEN Retry ELSE left

\* store: the file is created if it is not there.
Store == disk' = disk \cup {current}

\* The time until the oldest of some files expires.
TimeToExpired(files) ==
    LET oldest == CHOOSE f \in files : \A g \in files : g.age <= f.age
        left == Validity - oldest.age
    IN  IF left <= 0 THEN Retry ELSE left

StartExpiryTimer(files) ==
    /\ expiry' = IF files = {} THEN "off" ELSE "armed"
    /\ due' = IF files = {} THEN 0 ELSE TimeToExpired(files)

\* delExpiredLogFile and startLogFileExpired; new: the files stored after it.
RemoveExpired(new) ==
    LET left == ctxs \ Removed(ctxs) IN
    /\ ctxs' = left
    /\ disk' = (disk \ Removed(ctxs)) \cup new
    /\ StartExpiryTimer(left)

ExpiryTimerFires ==
    /\ expiry = "armed" /\ due = 0
    /\ Overlap \/ handler = "idle"
    /\ expiry' = "waiting"
    /\ UNCHANGED <<disk, ctxs, current, session, number, saved, known, due,
                   period, handler, clockSets, restarts>>

\* Mutant: the timer is not started again from its callback.
HandleFileExpiredOnce ==
    /\ expiry = "waiting" /\ handler = "idle"
    /\ ctxs' = ctxs \ Removed(ctxs) /\ disk' = disk \ Removed(ctxs)
    /\ expiry' = "off" /\ due' = 0
    /\ UNCHANGED <<current, session, number, saved, known, period, handler,
                   clockSets, restarts>>

HandleFileExpired ==
    /\ expiry = "waiting" /\ handler = "idle"
    /\ RemoveExpired({})
    /\ UNCHANGED <<current, session, number, saved, known, period, handler,
                   clockSets, restarts>>

-----------------------------------------------------------------------------
(* Sessions *)

\* The mutex of the delegate is free for a caller.
Free == handler = "idle" /\ (Overlap \/ expiry # "waiting")

\* Mutant: the number is compared with its limit before it is incremented.
NextNumberLate(n) == IF n > FileNumbers THEN 1 ELSE n + 1

NextNumber(n) == IF n + 1 > FileNumbers THEN 1 ELSE n + 1

\* Mutant: the old file with the next number is kept.
NothingOutOfRotation(files, n) == {{}}

\* Of the files with the next number the first found is removed.
OutOfRotation(files, n) ==
    {{f} : f \in {g \in files : g.num = n}}
        \cup (IF \E f \in files : f.num = n THEN {} ELSE {{}})

\* startSession up to the place where initLogFile stops the expiry timer.
OpenFile ==
    LET n == NextNumber(number)
        new == [num |-> n, age |-> 0]
    IN  /\ number' = n /\ saved' = n
        /\ \E old \in OutOfRotation(disk, n) :
             /\ disk' = disk \ old
             /\ ctxs' = (ctxs \ old) \cup {new}
        /\ current' = new
        /\ handler' = "opening"

\* The rest of startSession: the initial log creates the file.
FileOpened ==
    /\ handler = "opening" /\ expiry # "waiting"
    /\ RemoveExpired({current})
    /\ period' = "armed" /\ session' = "START"
    /\ handler' = "idle"
    /\ UNCHANGED <<current, number, saved, known, clockSets, restarts>>

SessionStarted ==
    /\ Free
    /\ \/ /\ session = "STOP"
          /\ OpenFile
          /\ UNCHANGED <<session, known, expiry, due, period, clockSets, restarts>>
       \/ /\ session = "START"
          /\ Store
          /\ handler' = "restarting"
          /\ UNCHANGED <<ctxs, current, session, number, saved, known, expiry,
                         due, period, clockSets, restarts>>

\* endSession writes its last record, if there is a session, and stops the
\* period timer.
SessionStopped ==
    /\ Free
    /\ IF session = "START" THEN Store ELSE disk' = disk
    /\ handler' = "ending"
    /\ UNCHANGED <<ctxs, current, session, number, saved, known, expiry, due,
                   period, clockSets, restarts>>

\* Mutant: the end of a session does not wait for the periodic update.
PeriodTimerNotAwaited ==
    /\ handler \in {"ending", "restarting"}
    /\ session' = "STOP"
    /\ period' = IF period = "busy" THEN period ELSE "off"
    /\ \/ /\ handler = "ending"
          /\ handler' = "idle"
          /\ UNCHANGED <<disk, ctxs, current, number, saved>>
       \/ /\ handler = "restarting"
          /\ OpenFile
    /\ UNCHANGED <<known, expiry, due, clockSets, restarts>>

\* The rest of endSession, and startSession if the session is a new one.
PeriodTimerStopped ==
    /\ handler \in {"ending", "restarting"} /\ period # "busy"
    /\ period' = "off" /\ session' = "STOP"
    /\ \/ /\ handler = "ending"
          /\ handler' = "idle"
          /\ UNCHANGED <<disk, ctxs, current, number, saved>>
       \/ /\ handler = "restarting"
          /\ OpenFile
    /\ UNCHANGED <<known, expiry, due, clockSets, restarts>>

\* Mutant: events are stored in the last file even if no session runs.
LogAnyEvent ==
    /\ Free /\ current # NoFile
    /\ Store
    /\ UNCHANGED <<ctxs, current, session, number, saved, known, expiry, due,
                   period, handler, clockSets, restarts>>

\* Any other event: logged in the file of the session.
LogEvent ==
    /\ Free
    /\ session = "START"
    /\ Store
    /\ UNCHANGED <<ctxs, current, session, number, saved, known, expiry, due,
                   period, handler, clockSets, restarts>>

-----------------------------------------------------------------------------
(* Periodic data.  The callback does not hold the mutex.  While the timer  *)
(* is being stopped it does not fire any more.                             *)

PeriodTimerFires ==
    /\ period = "armed" /\ handler \notin {"ending", "restarting"}
    /\ session = "START"
    /\ period' = "busy"
    /\ UNCHANGED <<disk, ctxs, current, session, number, saved, known, expiry,
                   due, handler, clockSets, restarts>>

\* Cell and position are logged if they have changed.
PeriodicUpdate ==
    /\ period = "busy"
    /\ period' = "armed"
    /\ \/ session = "START" /\ Store
       \/ disk' = disk
    /\ UNCHANGED <<ctxs, current, session, number, saved, known, expiry, due,
                   handler, clockSets, restarts>>

-----------------------------------------------------------------------------
(* Start of the program, and time *)

\* The configuration is loaded and buildLogFiles scans the folder.
ConfigReady ==
    /\ Free
    /\ number' = saved
    /\ ctxs' = disk
    /\ handler' = "building"
    /\ UNCHANGED <<disk, current, session, saved, known, expiry, due, period,
                   clockSets, restarts>>

FolderScanned ==
    /\ handler = "building" /\ expiry # "waiting"
    /\ RemoveExpired({})
    /\ known' = TRUE
    /\ handler' = "idle"
    /\ UNCHANGED <<current, session, number, saved, period, clockSets, restarts>>

Restart ==
    /\ restarts < MaxRestarts
    /\ restarts' = restarts + 1
    /\ ctxs' = {} /\ current' = NoFile /\ session' = "STOP" /\ number' = 0
    /\ known' = FALSE /\ expiry' = "off" /\ due' = 0 /\ period' = "off"
    /\ handler' = "idle"
    /\ UNCHANGED <<disk, saved, clockSets>>

\* A file after some time, or after the clock has been set by some time.
Older(f, time) ==
    IF f = NoFile THEN f
    ELSE [f EXCEPT !.age = IF @ + time > MaxAge THEN MaxAge ELSE @ + time]

Age(time) ==
    /\ disk' = {Older(f, time) : f \in disk}
    /\ ctxs' = {Older(f, time) : f \in ctxs}
    /\ current' = Older(current, time)

\* The timers run on the monotonic clock.  A unit of time is long: a handler
\* that opens files gets on within it, unless it is blocked.
Tick ==
    /\ handler \in {"opening", "building"} => expiry = "waiting"
    /\ Age(1)
    /\ due' = IF due > 0 THEN due - 1 ELSE due
    /\ UNCHANGED <<session, number, saved, known, expiry, period, handler,
                   clockSets, restarts>>

\* The clock is set, but not within a handler: forward, or back as long as no
\* file of the future is made younger still.
SetClock ==
    /\ handler = "idle" /\ clockSets < MaxClockSets
    /\ clockSets' = clockSets + 1
    /\ \/ Age(Validity)
       \/ /\ \A f \in disk \cup ctxs \cup {current} : f.age >= 0
          /\ Age(0 - MaxClockBack)
    /\ UNCHANGED <<session, number, saved, known, expiry, due, period, handler,
                   restarts>>

-----------------------------------------------------------------------------

Next ==
    \/ ExpiryTimerFires \/ HandleFileExpired
    \/ SessionStarted \/ FileOpened \/ SessionStopped \/ PeriodTimerStopped
    \/ LogEvent \/ PeriodTimerFires \/ PeriodicUpdate
    \/ ConfigReady \/ FolderScanned \/ Restart
    \/ Tick \/ SetClock

Spec == Init /\ [][Next]_vars

\* Running handlers and callbacks come to an end, the configuration is loaded,
\* time passes, and the timer is not kept from firing for ever by calls of other
\* handlers, each of which ends (the actions with strong fairness are disabled
\* while one runs).
Fairness ==
    /\ SF_vars(Tick) /\ SF_vars(~known /\ ConfigReady)
    /\ WF_vars(FileOpened) /\ WF_vars(PeriodTimerStopped)
    /\ WF_vars(FolderScanned) /\ WF_vars(PeriodicUpdate)
    /\ WF_vars(HandleFileExpired) /\ SF_vars(ExpiryTimerFires)

FairSpec == Spec /\ Fairness

-----------------------------------------------------------------------------

\* Every variable has its type.
TypeOK ==
    /\ disk \subseteq File /\ ctxs \subseteq File /\ current \in File \cup {NoFile}
    /\ session \in {"STOP", "START"}
    /\ number \in 0..FileNumbers /\ saved \in 0..FileNumbers
    /\ known \in BOOLEAN
    /\ expiry \in {"off", "armed", "waiting"} /\ due \in Nat
    /\ period \in {"off", "armed", "busy"}
    /\ handler \in Handler
    /\ clockSets \in Nat /\ restarts \in Nat

\* Once the folder has been scanned the program keeps track of every file in
\* it, so that none of them escapes its removal: rotation, expiry, sessions,
\* late events and the periodic updates neither create nor leave behind a file
\* that m_logFileCtxs does not list, nor does the list name a file that is gone.
FilesTracked ==
    /\ known => disk \subseteq ctxs
    /\ handler # "opening" => ctxs \subseteq disk

\* While a session runs its file is there and tracked, however long the session
\* takes and whatever the other handlers remove.
SessionFileKept == session = "START" => current \in disk \cap ctxs

\* No two files have the same number, whenever the program stops between saving
\* a number and creating the file: there are at most ECALL_EVENT_FILE_NUMBER.
OneFilePerNumber == \A f, g \in disk : f.num = g.num => f = g

\* The periodic update that checked that there is a session still runs within
\* it: endSession waits for it, and startSession begins after it.
UpdateWithinSession == period = "busy" => session = "START"

\* As long as nobody sets the clock the expiry timer runs whenever there are
\* files, and fires before any of them is older than it may be; a file that is
\* kept for its session is tried again after EVENT_LOG_DEL_EXPIRED_NOT_ALLOW.
ExpiryCovered ==
    handler \notin {"opening", "building"} /\ ctxs # {} /\ clockSets = 0 =>
        /\ expiry # "off"
        /\ \A f \in ctxs : due <= Validity - f.age \/ due <= Retry

\* A file that is older than its validity and not the one of the running session
\* is removed some time, even if the clock is set or the program restarts.
ExpiredRemoved ==
    \A n \in 1..FileNumbers :
        []<>(\A f \in disk : f.num = n /\ Expired(f) => ~AllowedToRemove(f))

\* startLogFileExpired stops the timer with restart(0) "to avoid deadlock" with
\* its callback: no handler waits for a callback that waits for the handler.
NoTimerDeadlock == ~(handler \in {"opening", "building"} /\ expiry = "waiting")

=============================================================================
