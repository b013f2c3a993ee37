--------------------------- MODULE EventLog_proofs ---------------------------
(***************************************************************************)
(* Proofs about the log files of eCall sessions: all the invariants the    *)
(* runs check, for any number of files, validity, restarts and changes of  *)
(* the clock.                                                              *)
(***************************************************************************)
EXTENDS EventLog, WellFoundedInduction, TLAPS

\* initLogFile waits for the expiry timer: the new file is listed, but not
\* there yet, and it is new unless the wait lasts for ever.
Opening ==
    handler = "opening" =>
        /\ session = "STOP"
        /\ current \in ctxs
        /\ ctxs \ {current} \subseteq disk
        /\ expiry = "waiting" \/ current.age = 0
        /\ \A f \in disk : f.num # current.num

\* buildLogFiles waits for the expiry timer.
Building == handler = "building" => ctxs = disk

\* The inductive invariant.
FilesInv ==
    /\ TypeOK
    /\ FilesTracked
    /\ SessionFileKept
    /\ OneFilePerNumber
    /\ UpdateWithinSession
    /\ Opening
    /\ Building

-----------------------------------------------------------------------------
(* Files and their ages *)

\* Time passes for a file without changing its number.
LEMMA OlderFile ==
    ASSUME NEW f \in File, NEW t \in Int, f.age + t >= 0 - MaxClockBack
    PROVE  /\ Older(f, t) \in File
           /\ Older(f, t).num = f.num
           /\ Older(f, t).age <= f.age + t
           /\ t >= 0 => Older(f, t).age >= f.age
           /\ f.age + t >= 0 => Older(f, t).age >= 0
  <1>1. f # NoFile
    BY EventLogAssumption DEF File, NoFile
  <1>2. f = [num |-> f.num, age |-> f.age] /\ f.num \in 1..FileNumbers
        /\ f.age \in (0 - MaxClockBack)..MaxAge
    BY DEF File
  <1>3. MaxAge \in Nat
    BY EventLogAssumption DEF MaxAge
  <1>4. Older(f, t) = [num |-> f.num,
                       age |-> IF f.age + t > MaxAge THEN MaxAge ELSE f.age + t]
    BY <1>1, <1>2 DEF Older
  <1> QED
    BY <1>2, <1>3, <1>4, EventLogAssumption DEF File

\* There is a file that is not younger than any other.
LEMMA OldestExists ==
    ASSUME NEW S \in SUBSET File, S # {}
    PROVE  \E f \in S : \A g \in S : g.age <= f.age
  <1> DEFINE T == {MaxAge - f.age : f \in S}
             R == {ss \in Nat \X Nat : ss[1] < ss[2]}
  <1>1. T \subseteq Nat /\ T # {}
    BY EventLogAssumption DEF File, MaxAge
  <1>2. IsWellFoundedOn(R, Nat)
    BY NatLessThanWellFounded DEF OpToRel
  <1>3. PICK x \in T : \A y \in T : ~ (<<y, x>> \in R)
    <2> HIDE DEF T, R
    <2> QED BY <1>1, <1>2, WFMin
  <1>4. PICK f \in S : x = MaxAge - f.age
    BY <1>3
  <1>5. ASSUME NEW g \in S PROVE g.age <= f.age
    <2>1. ~ (MaxAge - g.age < MaxAge - f.age)
      BY <1>1, <1>3, <1>4
    <2> QED BY <2>1, EventLogAssumption DEF File, MaxAge
  <1> QED BY <1>4, <1>5

\* The timer is started for the oldest file.
LEMMA TimeToExpiredFits ==
    ASSUME NEW S \in SUBSET File, S # {}
    PROVE  /\ TimeToExpired(S) \in Nat
           /\ \A f \in S : \/ TimeToExpired(S) <= Validity - f.age
                           \/ TimeToExpired(S) <= Retry
  <1> DEFINE oldest == CHOOSE f \in S : \A g \in S : g.age <= f.age
             left == Validity - oldest.age
  <1>1. oldest \in S /\ \A g \in S : g.age <= oldest.age
    BY OldestExists
  <1>2. left \in Int
    BY <1>1, EventLogAssumption DEF File, MaxAge
  <1>3. TimeToExpired(S) = IF left <= 0 THEN Retry ELSE left
    BY DEF TimeToExpired
  <1>4. ASSUME NEW f \in S PROVE left <= Validity - f.age
    BY <1>1, EventLogAssumption DEF File, MaxAge
  <1> HIDE DEF left, oldest
  <1> QED BY <1>2, <1>3, <1>4, EventLogAssumption

\* What removing expired files leaves.
LEMMA RemovedFits ==
    ASSUME NEW new \in SUBSET File, RemoveExpired(new), TypeOK
    PROVE  /\ ctxs' \subseteq ctxs /\ ctxs' = ctxs \ Removed(ctxs)
           /\ disk' = (disk \ Removed(ctxs)) \cup new
           /\ disk' \subseteq File /\ ctxs' \subseteq File
           /\ expiry' \in {"off", "armed"} /\ due' \in Nat
           /\ ctxs' # {} => expiry' = "armed"
           /\ \A f \in ctxs' : due' <= Validity - f.age \/ due' <= Retry
           /\ session = "START" => current \notin Removed(ctxs)
  <1>1. ctxs' = ctxs \ Removed(ctxs) /\ StartExpiryTimer(ctxs')
        /\ disk' = (disk \ Removed(ctxs)) \cup new
    BY DEF RemoveExpired
  <1>2. ctxs' \in SUBSET File
    BY <1>1 DEF TypeOK
  <1>3. CASE ctxs' = {}
    BY <1>1, <1>2, <1>3 DEF StartExpiryTimer, TypeOK, Removed, AllowedToRemove
  <1>4. CASE ctxs' # {}
    <2>1. due' = TimeToExpired(ctxs') /\ expiry' = "armed"
      BY <1>1, <1>4 DEF StartExpiryTimer
    <2>2. due' \in Nat /\ \A f \in ctxs' : due' <= Validity - f.age \/ due' <= Retry
      BY <1>2, <1>4, <2>1, TimeToExpiredFits
    <2> QED BY <1>1, <1>2, <2>1, <2>2 DEF TypeOK, Removed, AllowedToRemove
  <1> QED BY <1>3, <1>4

-----------------------------------------------------------------------------
(* Steps *)

\* Ageing changes neither numbers nor which files are listed, there, or current.
LEMMA AgedKeeps ==
    ASSUME FilesInv, NEW t \in Int, Age(t),
           \A f \in (disk \cup ctxs \cup {current}) \cap File :
               f.age + t >= 0 - MaxClockBack,
           UNCHANGED <<session, known, expiry, period, handler>>,
           handler = "opening" => expiry = "waiting"
    PROVE  /\ disk' \subseteq File /\ ctxs' \subseteq File
           /\ current' \in File \cup {NoFile}
           /\ FilesTracked' /\ SessionFileKept' /\ OneFilePerNumber'
           /\ UpdateWithinSession' /\ Opening' /\ Building'
  <1> USE DEF FilesInv
  <1>1. /\ disk' = {Older(f, t) : f \in disk}
        /\ ctxs' = {Older(f, t) : f \in ctxs}
        /\ current' = Older(current, t)
    BY DEF Age
  <1>2. /\ disk \subseteq File /\ ctxs \subseteq File
        /\ current \in File \cup {NoFile}
    BY DEF TypeOK
  <1>3. \A f \in disk \cup ctxs : Older(f, t) \in File /\ Older(f, t).num = f.num
    BY <1>2, OlderFile
  <1>4. current' \in File \cup {NoFile} /\ current'.num = current.num
    <2>1. CASE current = NoFile
      BY <1>1, <2>1 DEF Older
    <2>2. CASE current \in File
      BY <1>1, <2>2, OlderFile
    <2> QED BY <1>2, <2>1, <2>2
  <1>5. disk' \subseteq File /\ ctxs' \subseteq File
    BY <1>1, <1>3
  <1>6. FilesTracked' /\ SessionFileKept' /\ Building'
    BY <1>1 DEF FilesTracked, SessionFileKept, Building
  <1>7. OneFilePerNumber'
    BY <1>1, <1>3 DEF OneFilePerNumber
  <1>8. UpdateWithinSession'
    BY DEF UpdateWithinSession
  <1>9. Opening'
    <2> SUFFICES ASSUME handler = "opening"
                 PROVE  /\ session = "STOP" /\ expiry = "waiting"
                        /\ current' \in ctxs'
                        /\ ctxs' \ {current'} \subseteq disk'
                        /\ \A f \in disk' : f.num # current'.num
      BY DEF Opening
    <2>1. /\ session = "STOP" /\ current \in ctxs
          /\ ctxs \ {current} \subseteq disk
          /\ \A f \in disk : f.num # current.num
      BY DEF Opening
    <2>2. ctxs' \ {current'} \subseteq disk'
      BY <1>1, <2>1
    <2> QED BY <1>1, <1>3, <1>4, <2>1, <2>2
  <1> QED BY <1>4, <1>5, <1>6, <1>7, <1>8, <1>9

\* Time passes for the files and the expiry timer.
LEMMA TickKeeps == ASSUME FilesInv, Tick PROVE FilesInv'
  <1> USE DEF FilesInv
  <1>1. TypeOK /\ Age(1) /\ (handler = "opening" => expiry = "waiting")
    BY DEF Tick
  <1>2. UNCHANGED <<session, number, saved, known, expiry, period, handler, clockSets, restarts>>
    BY DEF Tick
  <1>3. \A f \in (disk \cup ctxs \cup {current}) \cap File : f.age + 1 >= 0 - MaxClockBack
    BY EventLogAssumption DEF File, MaxAge
  <1>4. /\ disk' \subseteq File /\ ctxs' \subseteq File
        /\ current' \in File \cup {NoFile}
        /\ FilesTracked' /\ SessionFileKept' /\ OneFilePerNumber'
        /\ UpdateWithinSession' /\ Opening' /\ Building'
    BY <1>1, <1>2, <1>3, AgedKeeps
  <1>5. due' \in Nat
    BY DEF Tick, TypeOK
  <1>6. TypeOK'
    BY <1>1, <1>2, <1>4, <1>5 DEF TypeOK
  <1> QED BY <1>4, <1>6

\* The wall clock is set forward or back, and with it the ages of the files.
LEMMA SetClockKeeps == ASSUME FilesInv, SetClock PROVE FilesInv'
  <1> USE DEF FilesInv
  <1>1. handler = "idle" /\ clockSets' \in Nat
    BY EventLogAssumption DEF SetClock, TypeOK
  <1>2. PICK t \in {Validity, 0 - MaxClockBack} :
            /\ Age(t)
            /\ t = Validity \/ \A f \in disk \cup ctxs \cup {current} : f.age >= 0
    BY DEF SetClock
  <1>3. t \in Int
    BY <1>2, EventLogAssumption
  <1>4. UNCHANGED <<session, number, saved, known, expiry, due, period, handler, restarts>>
    BY DEF SetClock
  <1>5. \A f \in (disk \cup ctxs \cup {current}) \cap File : f.age + t >= 0 - MaxClockBack
    BY <1>2, EventLogAssumption DEF File, MaxAge
  <1>6. /\ disk' \subseteq File /\ ctxs' \subseteq File
        /\ current' \in File \cup {NoFile}
        /\ FilesTracked' /\ SessionFileKept' /\ OneFilePerNumber'
        /\ UpdateWithinSession' /\ Opening' /\ Building'
    BY <1>1, <1>2, <1>3, <1>4, <1>5, AgedKeeps
  <1>7. TypeOK'
    BY <1>1, <1>4, <1>6 DEF TypeOK
  <1> QED BY <1>6, <1>7

\* The number of the new file.
LEMMA NextNumberType ==
    ASSUME NEW n \in 0..FileNumbers
    PROVE  NextNumber(n) \in 1..FileNumbers
  BY EventLogAssumption DEF NextNumber

\* initLogFile up to the stop of the timer: rotation leaves no file with the
\* number of the new one.
LEMMA OpenFileKeeps ==
    ASSUME FilesInv, OpenFile, session' = "STOP", handler # "opening",
           UNCHANGED <<known, expiry, due, clockSets, restarts>>,
           period' # "busy", period' \in {"off", "armed", "busy"}
    PROVE  FilesInv'
  <1> USE DEF FilesInv
  <1> DEFINE n == NextNumber(number)
             new == [num |-> n, age |-> 0]
  <1>1. n \in 1..FileNumbers /\ number' = n /\ saved' = n /\ current' = new
        /\ handler' = "opening"
    BY NextNumberType DEF OpenFile, TypeOK
  <1>2. PICK old \in OutOfRotation(disk, n) :
            disk' = disk \ old /\ ctxs' = (ctxs \ old) \cup {new}
    BY DEF OpenFile
  <1>3. new \in File
    BY <1>1, EventLogAssumption DEF File, MaxAge
  <1>4. ctxs \subseteq disk /\ disk \subseteq File /\ ctxs \subseteq File
    BY DEF TypeOK, FilesTracked
  <1>5. \A f \in disk' : f.num # n
    <2> SUFFICES ASSUME NEW f \in disk, f \notin old, f.num = n PROVE FALSE
      BY <1>2
    <2>1. PICK g \in disk : g.num = n /\ old = {g}
      BY DEF OutOfRotation
    <2> QED BY <2>1 DEF OneFilePerNumber
  <1> HIDE DEF n
  <1>6. TypeOK'
    BY <1>1, <1>2, <1>3, <1>4 DEF TypeOK, Handler
  <1>7. FilesTracked'
    BY <1>1, <1>2 DEF FilesTracked
  <1>8. OneFilePerNumber'
    BY <1>2 DEF OneFilePerNumber
  <1>9. Opening'
    BY <1>1, <1>2, <1>4, <1>5 DEF Opening
  <1>10. SessionFileKept' /\ UpdateWithinSession' /\ Building'
    BY <1>1 DEF SessionFileKept, UpdateWithinSession, Building
  <1> QED BY <1>6, <1>7, <1>8, <1>9, <1>10

\* The new file is not old enough to be removed with the expired ones.
LEMMA FileOpenedKeeps == ASSUME FilesInv, FileOpened PROVE FilesInv'
  <1> USE DEF FilesInv
  <1>1. /\ handler = "opening" /\ expiry # "waiting" /\ RemoveExpired({current})
        /\ handler' = "idle" /\ session' = "START" /\ period' = "armed"
        /\ UNCHANGED <<current, number, saved, known, clockSets, restarts>>
    BY DEF FileOpened
  <1>2. /\ current \in ctxs /\ current \in File /\ current.age = 0
        /\ ctxs \ {current} \subseteq disk
        /\ \A f \in disk : f.num # current.num
    BY <1>1 DEF Opening, TypeOK
  <1>3. current \notin Removed(ctxs)
    BY <1>2, EventLogAssumption DEF Removed, Expired
  <1>4. /\ ctxs' = ctxs \ Removed(ctxs)
        /\ disk' = (disk \ Removed(ctxs)) \cup {current}
        /\ expiry' \in {"off", "armed"} /\ due' \in Nat
    BY <1>1, <1>2, RemovedFits
  <1>5. TypeOK'
    BY <1>1, <1>2, <1>4 DEF TypeOK, Handler
  <1>6. FilesTracked' /\ SessionFileKept'
    BY <1>1, <1>2, <1>3, <1>4 DEF FilesTracked, SessionFileKept
  <1>7. OneFilePerNumber'
    BY <1>2, <1>4 DEF OneFilePerNumber
  <1>8. UpdateWithinSession' /\ Opening' /\ Building'
    BY <1>1 DEF UpdateWithinSession, Opening, Building
  <1> QED BY <1>5, <1>6, <1>7, <1>8

\* The expiry timer's handler, and the end of the scan of the folder.
LEMMA ExpiredKeeps ==
    ASSUME FilesInv, RemoveExpired({}), handler \in {"idle", "building"},
           handler' = "idle", known' \in BOOLEAN,
           handler = "idle" => known' = known,
           UNCHANGED <<current, session, number, saved, period, clockSets, restarts>>
    PROVE  FilesInv'
  <1> USE DEF FilesInv
  <1>1. /\ ctxs' = ctxs \ Removed(ctxs)
        /\ disk' = disk \ Removed(ctxs)
        /\ expiry' \in {"off", "armed"} /\ due' \in Nat
        /\ session = "START" => current \notin Removed(ctxs)
    BY RemovedFits
  <1>2. ctxs \subseteq disk /\ (handler = "building" => disk = ctxs)
    BY DEF FilesTracked, Building
  <1>3. TypeOK'
    BY <1>1 DEF TypeOK, Handler
  <1>4. FilesTracked'
    BY <1>1, <1>2 DEF FilesTracked
  <1>5. SessionFileKept'
    BY <1>1 DEF SessionFileKept
  <1>6. OneFilePerNumber'
    BY <1>1 DEF OneFilePerNumber
  <1>7. UpdateWithinSession' /\ Opening' /\ Building'
    BY DEF UpdateWithinSession, Opening, Building
  <1> QED BY <1>3, <1>4, <1>5, <1>6, <1>7

\* Steps that do not change which files there are: while a session runs its
\* file is there, so that storing its log again adds none.
LEMMA SameFilesKeeps ==
    ASSUME FilesInv, UNCHANGED <<disk, ctxs, current, number, saved, known, clockSets, restarts>>,
           due' = due, expiry' \in {"off", "armed", "waiting"},
           expiry = "waiting" => expiry' = "waiting",
           period' \in {"off", "armed", "busy"},
           session' \in {"START", "STOP"}, session' = "START" => session = "START",
           period' = "busy" => session' = "START",
           \/ handler' = handler
           \/ handler' \in {"idle", "ending", "restarting"} /\ handler # "opening"
    PROVE  FilesInv'
  <1> USE DEF FilesInv
  <1>1. handler = "opening" => handler' = "opening" /\ session' = "STOP"
    BY DEF Opening
  <1>2. TypeOK'
    BY DEF TypeOK, Handler
  <1>3. SessionFileKept' /\ OneFilePerNumber' /\ UpdateWithinSession'
    BY DEF SessionFileKept, OneFilePerNumber, UpdateWithinSession
  <1>4. FilesTracked'
    BY <1>1 DEF FilesTracked
  <1>5. Opening'
    BY <1>1 DEF Opening
  <1>6. Building'
    BY DEF Building
  <1> QED BY <1>2, <1>3, <1>4, <1>5, <1>6

\* The configuration is loaded; the scan of the folder waits for the timer.
LEMMA ConfigReadyKeeps == ASSUME FilesInv, ConfigReady PROVE FilesInv'
  <1> USE DEF FilesInv
  <1>1. /\ handler = "idle" /\ handler' = "building" /\ number' = saved /\ ctxs' = disk
        /\ UNCHANGED <<disk, current, session, saved, known, expiry, due, period, clockSets, restarts>>
    BY DEF ConfigReady, Free
  <1>2. TypeOK'
    BY <1>1 DEF TypeOK, Handler
  <1>3. FilesTracked' /\ SessionFileKept' /\ OneFilePerNumber'
    BY <1>1 DEF FilesTracked, SessionFileKept, OneFilePerNumber
  <1>4. UpdateWithinSession' /\ Opening' /\ Building'
    BY <1>1 DEF UpdateWithinSession, Opening, Building
  <1> QED BY <1>2, <1>3, <1>4

\* The program starts again with the folder and the number it saved.
LEMMA RestartKeeps == ASSUME FilesInv, Restart PROVE FilesInv'
  <1> USE DEF FilesInv, Restart
  <1>0. known' \in BOOLEAN
    BY Zenon
  <1>1. TypeOK'
    BY <1>0, EventLogAssumption DEF TypeOK, Handler
  <1>2. FilesTracked' /\ SessionFileKept' /\ OneFilePerNumber'
    BY DEF FilesTracked, SessionFileKept, OneFilePerNumber, NoFile
  <1>3. UpdateWithinSession' /\ Opening' /\ Building'
    BY DEF UpdateWithinSession, Opening, Building
  <1> QED BY <1>1, <1>2, <1>3

\* A session starts, or ends first the one that runs.
LEMMA SessionStartedKeeps == ASSUME FilesInv, SessionStarted PROVE FilesInv'
  <1>1. handler = "idle"
    BY DEF SessionStarted, Free
  <1>2. CASE session = "STOP"
    <2>1. /\ OpenFile
          /\ UNCHANGED <<session, known, expiry, due, period, clockSets, restarts>>
      BY <1>2 DEF SessionStarted
    <2>2. period # "busy" /\ period \in {"off", "armed", "busy"}
      BY <1>2 DEF FilesInv, UpdateWithinSession, TypeOK
    <2> QED BY <1>1, <1>2, <2>1, <2>2, OpenFileKeeps
  <1>3. CASE session = "START"
    <2>1. /\ disk' = disk \cup {current} /\ handler' = "restarting"
          /\ UNCHANGED <<ctxs, current, session, number, saved, known, expiry,
                         due, period, clockSets, restarts>>
      BY <1>3 DEF SessionStarted, Store
    <2>2. disk' = disk
      BY <1>3, <2>1 DEF FilesInv, SessionFileKept
    <2>3. /\ period \in {"off", "armed", "busy"}
          /\ expiry \in {"off", "armed", "waiting"}
      BY DEF FilesInv, TypeOK
    <2> QED BY <1>1, <1>3, <2>1, <2>2, <2>3, SameFilesKeeps
  <1> QED BY <1>2, <1>3 DEF FilesInv, TypeOK

\* The periodic update is over for the end of a session that waits for it.
LEMMA PeriodTimerStoppedKeeps == ASSUME FilesInv, PeriodTimerStopped PROVE FilesInv'
  <1>1. /\ handler \in {"ending", "restarting"} /\ period' = "off" /\ session' = "STOP"
        /\ UNCHANGED <<known, expiry, due, clockSets, restarts>>
    BY DEF PeriodTimerStopped
  <1>2. CASE OpenFile
    BY <1>1, <1>2, OpenFileKeeps
  <1>3. CASE handler' = "idle" /\ UNCHANGED <<disk, ctxs, current, number, saved>>
    <2>1. expiry \in {"off", "armed", "waiting"}
      BY DEF FilesInv, TypeOK
    <2> QED BY <1>1, <1>3, <2>1, SameFilesKeeps
  <1> QED BY <1>2, <1>3 DEF PeriodTimerStopped

\* The other handlers, and the callbacks of the timers.
LEMMA StoringKeeps ==
    ASSUME FilesInv,
           \/ SessionStopped \/ LogEvent \/ PeriodTimerFires \/ PeriodicUpdate
           \/ ExpiryTimerFires
    PROVE  FilesInv'
  <1>1. session = "START" => disk \cup {current} = disk
    BY DEF FilesInv, SessionFileKept
  <1>2. /\ expiry \in {"off", "armed", "waiting"} /\ period \in {"off", "armed", "busy"}
        /\ session \in {"START", "STOP"}
        /\ period = "busy" => session = "START"
    BY DEF FilesInv, TypeOK, UpdateWithinSession
  <1>3. CASE SessionStopped
    BY <1>1, <1>2, <1>3, SameFilesKeeps DEF SessionStopped, Store, Free
  <1>4. CASE LogEvent
    BY <1>1, <1>2, <1>4, SameFilesKeeps DEF LogEvent, Store
  <1>5. CASE PeriodTimerFires
    BY <1>2, <1>5, SameFilesKeeps DEF PeriodTimerFires
  <1>6. CASE PeriodicUpdate
    BY <1>1, <1>2, <1>6, SameFilesKeeps DEF PeriodicUpdate, Store
  <1>7. CASE ExpiryTimerFires
    BY <1>2, <1>7, SameFilesKeeps DEF ExpiryTimerFires
  <1> QED BY <1>3, <1>4, <1>5, <1>6, <1>7

\* Every step keeps the invariant.
LEMMA NextKeeps == ASSUME FilesInv, [Next]_vars PROVE FilesInv'
  <1>1. CASE SessionStarted
    BY <1>1, SessionStartedKeeps
  <1>2. CASE FileOpened
    BY <1>2, FileOpenedKeeps
  <1>3. CASE PeriodTimerStopped
    BY <1>3, PeriodTimerStoppedKeeps
  <1>4. CASE HandleFileExpired
    <2>1. known \in BOOLEAN
      BY DEF FilesInv, TypeOK
    <2> QED BY <1>4, <2>1, ExpiredKeeps DEF HandleFileExpired
  <1>5. CASE FolderScanned
    BY <1>5, ExpiredKeeps DEF FolderScanned
  <1>6. CASE ConfigReady
    BY <1>6, ConfigReadyKeeps
  <1>7. CASE Restart
    BY <1>7, RestartKeeps
  <1>8. CASE Tick
    BY <1>8, TickKeeps
  <1>9. CASE SetClock
    BY <1>9, SetClockKeeps
  <1>10. CASE \/ SessionStopped \/ LogEvent \/ PeriodTimerFires \/ PeriodicUpdate
              \/ ExpiryTimerFires
    BY <1>10, StoringKeeps
  <1>11. CASE UNCHANGED vars
    BY <1>11 DEF vars, FilesInv, TypeOK, FilesTracked, SessionFileKept,
                 OneFilePerNumber, UpdateWithinSession, Opening, Building
  <1> QED
    BY <1>1, <1>2, <1>3, <1>4, <1>5, <1>6, <1>7, <1>8, <1>9, <1>10, <1>11 DEF Next

\* No step lets a file become older than it may be before the timer fires.
LEMMA ExpiryKeeps ==
    ASSUME FilesInv, ExpiryCovered, [Next]_vars
    PROVE  ExpiryCovered'
  <1> USE DEF ExpiryCovered
  <1>1. TypeOK
    BY DEF FilesInv
  <1>2. CASE FileOpened
    <2>1. current \in File
      BY <1>2 DEF FilesInv, Opening, TypeOK, FileOpened
    <2>2. RemoveExpired({current})
      BY <1>2 DEF FileOpened
    <2> QED BY <1>1, <2>1, <2>2, RemovedFits
  <1>3. CASE HandleFileExpired \/ FolderScanned
    <2>1. RemoveExpired({})
      BY <1>3 DEF HandleFileExpired, FolderScanned
    <2> QED BY <1>1, <2>1, RemovedFits
  <1>4. CASE Tick
    <2> SUFFICES ASSUME clockSets = 0, handler \notin {"opening", "building"},
                        NEW f \in ctxs'
                 PROVE  /\ expiry # "off"
                        /\ due' <= Validity - f.age \/ due' <= Retry
      BY <1>4 DEF Tick
    <2>1. PICK g \in ctxs : f = Older(g, 1)
      BY <1>4 DEF Tick, Age
    <2>2. g \in File /\ g.age + 1 >= 0 - MaxClockBack /\ g.age \in Int
      BY <1>1, EventLogAssumption DEF TypeOK, File, MaxAge
    <2>3. f.age <= g.age + 1 /\ f \in File
      BY <2>1, <2>2, OlderFile
    <2>4. expiry # "off" /\ (due <= Validity - g.age \/ due <= Retry)
      BY <2>1
    <2>5. f.age \in Int
      BY <2>3, EventLogAssumption DEF File, MaxAge
    <2>6. /\ due \in Nat /\ due' \in Nat
          /\ IF due = 0 THEN due' = 0 ELSE due' = due - 1
      BY <1>1, <1>4 DEF Tick, TypeOK
    <2> QED BY <2>2, <2>3, <2>4, <2>5, <2>6, EventLogAssumption
  <1>5. CASE SetClock
    BY <1>1, <1>5 DEF SetClock, TypeOK
  <1>6. CASE Restart
    BY <1>6 DEF Restart
  <1>7. CASE ConfigReady
    BY <1>7 DEF ConfigReady
  <1>8. CASE SessionStarted \/ PeriodTimerStopped
    BY <1>8 DEF SessionStarted, PeriodTimerStopped, OpenFile, Free
  <1>9. CASE \/ SessionStopped \/ LogEvent \/ PeriodTimerFires \/ PeriodicUpdate
             \/ ExpiryTimerFires
    BY <1>9 DEF SessionStopped, LogEvent, PeriodTimerFires, PeriodicUpdate,
                ExpiryTimerFires, Free
  <1>10. CASE UNCHANGED vars
    BY <1>10 DEF vars
  <1> QED
    BY <1>2, <1>3, <1>4, <1>5, <1>6, <1>7, <1>8, <1>9, <1>10 DEF Next

-----------------------------------------------------------------------------
(* The theorems *)

\* The inductive invariant holds in every reachable state: it joins what the
\* program knows of the files, what there is, and where its handlers wait.
THEOREM FilesInductive == Spec => []FilesInv
  <1>1. ASSUME Init PROVE FilesInv
    <2>1. known \in BOOLEAN
      BY <1>1, Zenon DEF Init
    <2>2. TypeOK
      BY <1>1, <2>1, EventLogAssumption DEF Init, TypeOK, Handler
    <2>3. FilesTracked /\ SessionFileKept /\ OneFilePerNumber
      BY <1>1 DEF Init, FilesTracked, SessionFileKept, OneFilePerNumber, NoFile
    <2>4. UpdateWithinSession /\ Opening /\ Building
      BY <1>1 DEF Init, UpdateWithinSession, Opening, Building
    <2> QED BY <2>2, <2>3, <2>4 DEF FilesInv
  <1>2. FilesInv /\ [Next]_vars => FilesInv'
    BY NextKeeps
  <1> QED BY <1>1, <1>2, PTL DEF Spec

\* Every variable has its type; numbers stay within the rotation.
THEOREM LogTypeCorrect == Spec => []TypeOK
  <1>1. FilesInv => TypeOK
    BY DEF FilesInv
  <1> QED BY <1>1, FilesInductive, PTL

\* The program's list of files and the folder agree, as long as initLogFile is
\* not between the two, and from the scan of the folder on.
THEOREM FilesAlwaysTracked == Spec => []FilesTracked
  <1>1. FilesInv => FilesTracked
    BY DEF FilesInv
  <1> QED BY <1>1, FilesInductive, PTL

\* The file of the running session is neither removed nor forgotten.
THEOREM SessionFileAlwaysKept == Spec => []SessionFileKept
  <1>1. FilesInv => SessionFileKept
    BY DEF FilesInv
  <1> QED BY <1>1, FilesInductive, PTL

\* There are at most ECALL_EVENT_FILE_NUMBER files, one for each number.
THEOREM NumbersAlwaysUnique == Spec => []OneFilePerNumber
  <1>1. FilesInv => OneFilePerNumber
    BY DEF FilesInv
  <1> QED BY <1>1, FilesInductive, PTL

\* The periodic update runs within a session.
THEOREM UpdateAlwaysWithinSession == Spec => []UpdateWithinSession
  <1>1. FilesInv => UpdateWithinSession
    BY DEF FilesInv
  <1> QED BY <1>1, FilesInductive, PTL

\* While the clock is not set, the expiry timer fires in time for every file,
\* through sessions, rotation and the retries for a file that must be kept.
THEOREM ExpiryAlwaysCovered == Spec => []ExpiryCovered
  <1>1. Init => ExpiryCovered
    BY DEF Init, ExpiryCovered
  <1>2. FilesInv /\ ExpiryCovered /\ [Next]_vars => ExpiryCovered'
    BY ExpiryKeeps
  <1> QED BY <1>1, <1>2, FilesInductive, PTL DEF Spec

\* A handler that waits for the expiry timer's callback while that waits for the
\* mutex waits for ever: nothing the program can still do ends it, only a restart.
THEOREM DeadlockLasts ==
  Spec => [][~NoTimerDeadlock /\ ~Restart => ~NoTimerDeadlock']_vars
  <1>1. ASSUME [Next]_vars, ~NoTimerDeadlock, ~Restart
        PROVE  ~NoTimerDeadlock'
    <2>1. handler \in {"opening", "building"} /\ expiry = "waiting"
      BY <1>1 DEF NoTimerDeadlock
    \* Handlers and the timer's callback are blocked.
    <2>2. /\ ~ExpiryTimerFires /\ ~HandleFileExpired
          /\ ~SessionStarted /\ ~FileOpened /\ ~SessionStopped /\ ~PeriodTimerStopped
          /\ ~LogEvent /\ ~ConfigReady /\ ~FolderScanned /\ ~SetClock
      BY <2>1 DEF ExpiryTimerFires, HandleFileExpired, SessionStarted, FileOpened,
         SessionStopped, PeriodTimerStopped, LogEvent, ConfigReady, FolderScanned,
         SetClock, Free
    \* The periodic update and time do not change what they wait for.
    <2>3. handler' = handler /\ expiry' = expiry
      BY <1>1, <2>2 DEF Next, PeriodTimerFires, PeriodicUpdate, Tick, vars
    <2> QED BY <2>1, <2>3 DEF NoTimerDeadlock
  <1> QED BY <1>1, PTL DEF Spec
=============================================================================
