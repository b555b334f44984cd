-------------------------------- MODULE LogFiles --------------------------------
(***************************************************************************)
(* The rolling log files of yma-logging.  A write asks a counter whether   *)
(* the file is full, rolls over if so, opens the current file, appends and *)
(* then counts: each is a step of its own, and only the choice of the file *)
(* is behind a lock.  Which file is current is decided at the start and    *)
(* when the counter says full, never because a day is over; whether a file *)
(* on the disk is full is judged by a limit of its own (10 MB), whatever   *)
(* the size asked for.  Sizes are in lines, one line a write.              *)
(***************************************************************************)
EXTENDS Naturals, FiniteSets

CONSTANTS
  LogThreads,
  LogSizes,               (* the sizes asked for, max_file_size_mb          *)
  FullSize,               (* the 10 MB of resolve_current_file              *)
  RetentionDays,
  MaxLogDay,              (* bound on the days                              *)
  MaxLogIndex,            (* bound on the files of a day                    *)
  MaxLines                (* bound on the writes begun                      *)

ASSUME LogBounds ==
  /\ IsFiniteSet(LogThreads)
  /\ LogSizes \subseteq Nat
  /\ FullSize \in Nat \ {0}
  /\ {RetentionDays, MaxLogDay, MaxLogIndex, MaxLines} \subseteq Nat
  /\ MaxLines < FullSize * (MaxLogIndex + 1)

VARIABLES
  logFiles,               (* logFiles[d][i]: the lines in file i of day d   *)
  logDay,
  maxSize,                (* max_size                                       *)
  currentFile,            (* current_file, a day and an index               *)
  currentSize,            (* current_size                                   *)
  logCall,                (* logCall[t]: where in its write thread t is     *)
  linesBegun

logVars == <<logFiles, logDay, maxSize, currentFile, currentSize, logCall, linesBegun>>

Days == 0..MaxLogDay
NotLogging == [at |-> "none"]

\* resolve_current_file: the first file of the day that is not there or not full.
Resolve(onDisk, day) ==
  [day |-> day, index |-> CHOOSE i \in 0..MaxLogIndex :
                            /\ onDisk[day][i] < FullSize
                            /\ \A j \in 0..(i - 1) : onDisk[day][j] >= FullSize]

\* cleanup_old_logs
TooOld(day) == RetentionDays > 0 /\ day + RetentionDays < logDay
Kept == [d \in Days |-> IF TooOld(d) THEN [i \in 0..MaxLogIndex |-> 0] ELSE logFiles[d]]

LogInit ==
  /\ logFiles = [d \in Days |-> [i \in 0..MaxLogIndex |-> 0]]
  /\ logDay = 0
  /\ maxSize \in LogSizes
  /\ currentFile = [day |-> 0, index |-> 0]
  /\ currentSize = 0
  /\ logCall = [t \in LogThreads |-> NotLogging]
  /\ linesBegun = 0

-----------------------------------------------------------------------------
\* write: should_rollover
WriteAsks(t) ==
  /\ logCall[t] = NotLogging
  /\ linesBegun < MaxLines
  /\ linesBegun' = linesBegun + 1
  /\ logCall' = [logCall EXCEPT ![t] =
       [at |-> IF currentSize >= maxSize THEN "rolling" ELSE "opening"]]
  /\ UNCHANGED <<logFiles, logDay, maxSize, currentFile, currentSize>>

\* rollover, under the lock of the current file
Rollover(t) ==
  /\ logCall[t].at = "rolling"
  /\ currentFile' = Resolve(logFiles, logDay)
  /\ currentSize' = 0
  /\ logCall' = [logCall EXCEPT ![t] = [at |-> "opening"]]
  /\ UNCHANGED <<logFiles, logDay, maxSize, linesBegun>>

WriteOpens(t) ==
  /\ logCall[t].at = "opening"
  /\ logCall' = [logCall EXCEPT ![t] = [at |-> "appending", path |-> currentFile]]
  /\ UNCHANGED <<logFiles, logDay, maxSize, currentFile, currentSize, linesBegun>>

\* The two appends of write are one here; a file that was removed is made again.
WriteAppends(t) ==
  /\ logCall[t].at = "appending"
  /\ logFiles' = [logFiles EXCEPT ![logCall[t].path.day][logCall[t].path.index] = @ + 1]
  /\ logCall' = [logCall EXCEPT ![t] = [at |-> "counting"]]
  /\ UNCHANGED <<logDay, maxSize, currentFile, currentSize, linesBegun>>

WriteCounts(t) ==
  /\ logCall[t].at = "counting"
  /\ currentSize' = currentSize + 1
  /\ logCall' = [logCall EXCEPT ![t] = NotLogging]
  /\ UNCHANGED <<logFiles, logDay, maxSize, currentFile, linesBegun>>

\* cleanup_logs, called by hand.
CleanupLogs ==
  /\ logFiles' = Kept
  /\ UNCHANGED <<logDay, maxSize, currentFile, currentSize, logCall, linesBegun>>

\* The process ends and starts anew: old files go, the counter is the size of
\* the file chosen.
LogRestart ==
  LET current == Resolve(Kept, logDay)
  IN  /\ logFiles' = Kept
      /\ currentFile' = current
      /\ currentSize' = Kept[current.day][current.index]
      /\ logCall' = [t \in LogThreads |-> NotLogging]
      /\ UNCHANGED <<logDay, maxSize, linesBegun>>

NextLogDay ==
  /\ logDay < MaxLogDay
  /\ logDay' = logDay + 1
  /\ UNCHANGED <<logFiles, maxSize, currentFile, currentSize, logCall, linesBegun>>

LogNext ==
  \/ \E t \in LogThreads : \/ WriteAsks(t)
                           \/ Rollover(t)
                           \/ WriteOpens(t)
                           \/ WriteAppends(t)
                           \/ WriteCounts(t)
  \/ CleanupLogs
  \/ LogRestart
  \/ NextLogDay

LogSpec == LogInit /\ [][LogNext]_logVars

-----------------------------------------------------------------------------
LogCall ==
  [at : {"none", "rolling", "opening", "counting"}]
    \cup [at : {"appending"}, path : [day : Days, index : 0..MaxLogIndex]]

LogTypeOK ==
  /\ logFiles \in [Days -> [0..MaxLogIndex -> 0..MaxLines]]
  /\ logDay \in Days
  /\ maxSize \in LogSizes
  /\ currentFile \in [day : Days, index : 0..MaxLogIndex]
  /\ currentSize \in 0..MaxLines
  /\ logCall \in [LogThreads -> LogCall]
  /\ linesBegun \in 0..MaxLines

\* A file takes a line also when it may hold none.
AtLeastOneLine == IF maxSize = 0 THEN 1 ELSE maxSize

\* Until a day is cleaned away its files are filled one after the other.
FilledInOrder ==
  \A day \in Days, i \in 1..MaxLogIndex :
    logFiles[day][i] > 0 /\ ~TooOld(day) => logFiles[day][i - 1] >= FullSize

\* However the writers' steps mix, no file outgrows the two limits together by
\* more than one line for every other writer, also when two of them roll over
\* at once and one sets the counter back after the other's lines; and no file
\* is begun before the one in front of it is full.
LogFilesBounded ==
  /\ \A day \in Days, i \in 0..MaxLogIndex :
       logFiles[day][i] + 1 < FullSize + AtLeastOneLine + Cardinality(LogThreads)
  /\ FilledInOrder

(***************************************************************************)
(* What the proof in ServiceProofs needs.  Writers that have asked fill    *)
(* the file they hold, or the current one when they have not opened it.    *)
(* The current file is never further ahead of the counter than it was when *)
(* it was chosen, but by the lines that are not counted yet.               *)
(***************************************************************************)
Writers(place) == {t \in LogThreads : logCall[t].at = place}

Path(day, i) == [day |-> day, index |-> i]

Heading(path) ==
  {t \in LogThreads : \/ logCall[t].at = "appending" /\ logCall[t].path = path
                      \/ logCall[t].at = "opening" /\ currentFile = path}

RoomForWriters ==
  \A day \in Days, i \in 0..MaxLogIndex :
    logFiles[day][i] + Cardinality(Heading(Path(day, i))) + 1
      < FullSize + AtLeastOneLine + Cardinality(LogThreads)

CounterKeepsUp ==
  logFiles[currentFile.day][currentFile.index]
    < FullSize + currentSize + Cardinality(Writers("counting"))

\* Files are chosen one after the other, and what a file holds was begun.
InUse(path) ==
  \/ path = currentFile
  \/ \E t \in LogThreads : logCall[t].at = "appending" /\ logCall[t].path = path

ChosenInOrder ==
  \A day \in Days, i \in 0..MaxLogIndex : InUse(Path(day, i)) /\ ~TooOld(day) =>
    \A j \in 0..(i - 1) : logFiles[day][j] >= FullSize

Begun == {t \in LogThreads : logCall[t].at # "none"}

Unwritten == Begun \ Writers("counting")

LinesWereBegun ==
  /\ currentSize + Cardinality(Begun) <= linesBegun
  /\ \A day \in Days, i \in 0..MaxLogIndex :
       /\ logFiles[day][i] + Cardinality(Unwritten) <= linesBegun
       /\ logFiles[day][i] > 0 /\ ~TooOld(day) =>
            FullSize * i + logFiles[day][i] + Cardinality(Unwritten) <= linesBegun

LogInv ==
  /\ LogTypeOK
  /\ FilledInOrder
  /\ RoomForWriters
  /\ CounterKeepsUp
  /\ ChosenInOrder
  /\ LinesWereBegun
=============================================================================
