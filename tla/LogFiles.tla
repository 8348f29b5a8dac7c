------------------------------- MODULE LogFiles -------------------------------
(***************************************************************************)
(* Logging to flash, system/logging/log_sys.c, and the command that reads  *)
(* the logs back, cmd_impl_GET_LOGS.                                       *)
(*                                                                         *)
(* Any task that logs reserves room in the current log file under          *)
(* logSysMutex; when the record does not fit, the next file of the ring    *)
(* becomes the current one and is opened and zeroed, which takes the       *)
(* filesystem's mutex as well.  The record itself is handed to the write   *)
(* cache of the filesystem after logSysMutex has been given.  A read       *)
(* session keeps a file open, and with it the filesystem's mutex, from one *)
(* call to the next, and walks backwards from the end of the current file. *)
(*                                                                         *)
(* A file is the sequence of the units that have been committed to it, a   *)
(* record of length n being n units with its number.  The write cache is   *)
(* the sequence of the records not yet flushed (see WriteCache).  Records  *)
(* are dropped in silence, with no change of state, when logSysMutex is    *)
(* not to be had and during a session: no action stands for that.  The     *)
(* other users of the filesystem are not modelled: for their sake a wait   *)
(* for its mutex may time out at any time.  Nor is what a record too long  *)
(* for its cache does to the requests behind it (see WriteCache).          *)
(***************************************************************************)
EXTENDS Naturals, Sequences, FiniteSets, SequencesExt, Selection

CONSTANTS
  Loggers,      \* tasks that log
  NumFiles,     \* FS_LOGGING_FILES_NUM: 4
  MaxSize,      \* FS_LOGGING_MAX_FILE_SIZE: 256 KiB
  Lengths,      \* lengths of records: 11 to 266 bytes
  ChunkSize,    \* CHUNK_SIZE of GET_LOGS: 800 bytes
  Wanted,       \* sizes that are asked for
  MaxCached,    \* bound: records in the write cache
  MaxLogs,      \* bound: records
  MaxSessions,  \* bound: GET_LOGS and GET_LOGFILE_INFO commands
  MaxRestarts,  \* bound: resets of the computer
  MaxFailures,  \* bound: errors that littlefs reports
  Nobody        \* no task

ASSUME LogFilesAssumption ==
  /\ {NumFiles, MaxSize, ChunkSize} \subseteq Nat \ {0}
  /\ Lengths \subseteq 1..MaxSize /\ Wanted \subseteq Nat
  /\ {MaxCached, MaxLogs, MaxSessions, MaxRestarts, MaxFailures} \subseteq Nat
  /\ {"reader", "flush", Nobody} \cap Loggers = {}
  /\ Nobody \notin {"reader", "flush"}

Files == 0..(NumFiles - 1)

Following(f) == IF f = NumFiles - 1 THEN 0 ELSE f + 1

Previous(f) == IF f = 0 THEN NumFiles - 1 ELSE f - 1

Least(a, b) == IF a < b THEN a ELSE b

Records == [id : 1..MaxLogs, file : Files, len : Lengths]
NoRecord == [id |-> 0]

VARIABLES
  content,   \* the files
  pending,   \* the records in the write cache
  batch,     \* those that the FILESYSTEM task is flushing
  fsm,       \* the holder of xFileSystemMutex
  logm,      \* the holder of logSysMutex
  current,   \* log_file_current
  size,      \* log_file_current_size
  reading,   \* log_read.reading
  pc, rec,   \* where each logger is, and the record it logs
  at,        \* where the CMD_SYS_EXEC task is
  ses,       \* what its command keeps, see NoSession
  \* history
  unzeroed,  \* the files that were not zeroed when their turn came, or had records of an earlier one underway
  hollow,    \* the files that were left when nothing of them was in flash
  repeated,  \* the files to which a failed flush has left a record both written and to be written
  astray,    \* did a restart resume at another file than the current one?
  leaked,    \* was a mutex left behind by an error?
  saved, sessions, restarts, failures

files == <<content, pending, batch>>
marks == <<unzeroed, hollow, repeated>>
ring == <<current, size, unzeroed, hollow, repeated>>
loggers == <<pc, rec, saved>>
command == <<at, ses, reading, sessions>>
faults == <<astray, leaked, restarts, failures>>
vars == <<files, fsm, logm, ring, loggers, command, faults>>

NoSession == [
  asked |-> 0,                      \* the size asked for that is not yet read; none, of GET_LOGFILE_INFO
  sizes |-> [f \in Files |-> 0],    \* log_read.file_sizes
  index |-> 0,                      \* log_read.readfile_index, or the file whose size is next
  left |-> 0,                       \* log_read.readfile_bytes_remaining
  pos |-> 0,                        \* the position in log_read.readfile
  promised |-> 0,                   \* bytes_left
  got |-> <<>>,                     \* history: what has been sent, put back in order
  grew |-> FALSE]                   \* history: has a file grown since the command began?

Init ==
  /\ content = [f \in Files |-> <<>>] /\ pending = <<>> /\ batch = <<>>
  /\ fsm = Nobody /\ logm = Nobody /\ current = 0 /\ size = 0 /\ reading = FALSE
  /\ pc = [l \in Loggers |-> "idle"] /\ rec = [l \in Loggers |-> NoRecord]
  /\ at = "idle" /\ ses = NoSession /\ astray = FALSE /\ leaked = FALSE
  /\ unzeroed = {} /\ hollow = {} /\ repeated = {}
  /\ saved = 0 /\ sessions = 0 /\ restarts = 0 /\ failures = 0

Goto(l, label) == pc' = [pc EXCEPT ![l] = label]

\* The command returns: what it has left in log_read is not looked at again.
Return == at' = "idle" /\ ses' = NoSession

----------------------------------------------------------------------------
\* fs_log_save.

\* Its record, of length n, is to go to the file f.
Recorded(l, n, f) ==
  /\ pc[l] = "idle" /\ saved < MaxLogs
  /\ saved' = saved + 1
  /\ rec' = [rec EXCEPT ![l] = [id |-> saved + 1, file |-> f, len |-> n]]

\* Mutant: the room is what the file in flash has left.
ReserveByFlash(l, n) ==
  /\ logm = Nobody /\ ~reading
  /\ n <= MaxSize - Len(content[current])
  /\ size' = Len(content[current]) + n
  /\ Recorded(l, n, current)
  /\ Goto(l, "enqueue")
  /\ UNCHANGED <<files, fsm, logm, current, marks, command, faults>>

\* The record fits.
Reserve(l, n) ==
  /\ logm = Nobody /\ ~reading
  /\ n <= MaxSize - size
  /\ size' = size + n
  /\ Recorded(l, n, current)
  /\ Goto(l, "enqueue")
  /\ UNCHANGED <<files, fsm, logm, current, marks, command, faults>>

\* The records that are on their way to the file f.
Underway(f) ==
  \/ \E l \in Loggers : pc[l] = "enqueue" /\ rec[l].file = f
  \/ \E r \in ToSet(pending \o batch) : r.file = f

\* The next file becomes the current one, whatever has been flushed of this one and whatever is
\* still on its way to the next.
Advance(l, n) ==
  /\ n > MaxSize - size
  /\ logm' = l
  /\ current' = Following(current)
  /\ size' = n
  /\ unzeroed' = unzeroed \cup {Following(current)}
  /\ hollow' = (IF content[current] = <<>> THEN hollow \cup {current} ELSE hollow) \ {Following(current)}
  /\ Recorded(l, n, Following(current))
  /\ Goto(l, "open")
  /\ UNCHANGED <<files, fsm, repeated, command, faults>>

\* Mutant: the next file is taken, and zeroed, during a session as well.
RotateAnyway(l, n) == logm = Nobody /\ Advance(l, n)

\* The record does not fit.
Rotate(l, n) == logm = Nobody /\ ~reading /\ Advance(l, n)

Open(l) ==
  /\ pc[l] = "open" /\ fsm = Nobody
  /\ fsm' = l
  /\ Goto(l, "zero")
  /\ UNCHANGED <<files, logm, ring, rec, saved, command, faults>>

\* Mutant: logSysMutex is not given on the way out.
OpenTimeoutKeeps(l) ==
  /\ pc[l] = "open"
  /\ Goto(l, "idle")
  /\ UNCHANGED <<files, fsm, logm, ring, rec, saved, command, faults>>

\* The record is lost; the next one goes to the file as it is.
OpenTimeout(l) ==
  /\ pc[l] = "open"
  /\ logm' = Nobody
  /\ Goto(l, "idle")
  /\ UNCHANGED <<files, fsm, ring, rec, saved, command, faults>>

Zeroed(l, new) ==
  /\ pc[l] = "zero"
  /\ content' = [content EXCEPT ![current] = new]
  /\ IF Underway(current) THEN UNCHANGED <<unzeroed, repeated>>
     ELSE unzeroed' = unzeroed \ {current} /\ repeated' = repeated \ {current}
  /\ fsm' = Nobody
  /\ logm' = Nobody
  /\ Goto(l, "enqueue")
  /\ UNCHANGED <<pending, batch, current, size, hollow, rec, saved, command, faults>>

\* Mutant: the file is closed as it is.
ZeroNot(l) == Zeroed(l, content[current])

\* fs_zero and fs_close
Zero(l) == Zeroed(l, <<>>)

\* When fs_zero fails the file is not closed; when fs_close does it has given the mutex.
ZeroFails(l) ==
  /\ pc[l] = "zero" /\ failures < MaxFailures
  /\ failures' = failures + 1
  /\ \/ leaked' = TRUE /\ UNCHANGED fsm
     \/ fsm' = Nobody /\ UNCHANGED leaked
  /\ logm' = Nobody
  /\ Goto(l, "idle")
  /\ UNCHANGED <<files, ring, rec, saved, command, astray, restarts>>

\* fs_write_enqueue takes the record, or fails and the record is lost.
Enqueue(l) ==
  /\ pc[l] = "enqueue"
  /\ \/ Len(pending) < MaxCached /\ pending' = Append(pending, rec[l])
     \/ UNCHANGED pending
  /\ Goto(l, "idle")
  /\ rec' = [rec EXCEPT ![l] = NoRecord]
  /\ UNCHANGED <<content, batch, fsm, logm, ring, saved, command, faults>>

----------------------------------------------------------------------------
\* The FILESYSTEM task flushes a cache, the older part of what is pending, file by file.

Flush ==
  /\ fsm = Nobody
  /\ fsm' = "flush"
  /\ \E n \in 1..Len(pending) :
       /\ batch' = SubSeq(pending, 1, n)
       /\ pending' = SubSeq(pending, n + 1, Len(pending))
  /\ UNCHANGED <<content, logm, ring, loggers, command, faults>>

Units(r) == [i \in 1..r.len |-> r.id]

\* The units of the records rs.
UnitsOf(rs) == FlattenSeq([i \in DOMAIN rs |-> Units(rs[i])])

\* The records that go to the file f.
To(f) == {r \in Records : r.file = f}

FlushFile ==
  /\ batch # <<>>
  /\ LET f == Head(batch).file
     IN /\ content' = [content EXCEPT ![f] = @ \o UnitsOf(Only(batch, To(f)))]
        /\ batch' = Only(batch, Records \ To(f))
  /\ ses' = [ses EXCEPT !.grew = at # "idle"]
  /\ UNCHANGED <<pending, fsm, logm, ring, loggers, at, reading, sessions, faults>>

\* What is not flagged when n of the records own of a file have been written: they are flagged, but
\* for the first, which is flagged when all have been.
Unflagged(own, n) ==
  IF n = Len(own) THEN <<>> ELSE SubSeq(own, 1, Least(n, 1)) \o SubSeq(own, n + 1, Len(own))

\* The flush fails at the first file of the batch: the file keeps what has been written or, closed
\* in error, what it had, and what is not flagged stays in the cache.
FlushFails ==
  /\ batch # <<>> /\ failures < MaxFailures
  /\ failures' = failures + 1
  /\ LET f == Head(batch).file
         own == Only(batch, To(f))
     IN \E n \in 0..Len(own) : \E written \in {<<>>, SubSeq(own, 1, n)} :
          /\ content' = [content EXCEPT ![f] = @ \o UnitsOf(written)]
          /\ pending' = (Unflagged(own, n) \o Only(batch, Records \ To(f))) \o pending
          /\ repeated' = IF written = <<>> \/ n = Len(own) THEN repeated ELSE repeated \cup {f}
  /\ batch' = <<>>
  /\ fsm' = Nobody
  /\ ses' = [ses EXCEPT !.grew = at # "idle"]
  /\ UNCHANGED <<logm, current, size, unzeroed, hollow, loggers, at, reading, sessions, astray, leaked,
                 restarts>>

FlushEnds ==
  /\ fsm = "flush" /\ batch = <<>>
  /\ fsm' = Nobody
  /\ UNCHANGED <<files, logm, ring, loggers, command, faults>>

----------------------------------------------------------------------------
\* logs_read_begin and log_sys_get_info.

Begin ==
  /\ at = "idle" /\ logm = Nobody /\ sessions < MaxSessions
  /\ \E n \in Wanted \cup {0} :
       /\ n # 0 => ~reading
       /\ ses' = [ses EXCEPT !.asked = n]
  /\ sessions' = sessions + 1
  /\ logm' = "reader"
  /\ at' = "sizes"
  /\ UNCHANGED <<files, fsm, ring, loggers, reading, faults>>

\* One file of get_actual_file_sizes: it is opened and closed.
FileSize ==
  /\ at = "sizes" /\ fsm = Nobody
  /\ IF ses.index = NumFiles - 1 /\ ses.asked = 0
     THEN logm' = Nobody /\ Return
     ELSE /\ UNCHANGED logm
          /\ at' = IF ses.index < NumFiles - 1 THEN "sizes" ELSE "open"
          /\ ses' = [ses EXCEPT !.sizes[ses.index] = Len(content[ses.index]),
                                !.index = IF @ < NumFiles - 1 THEN @ + 1 ELSE current]
  /\ UNCHANGED <<files, fsm, ring, loggers, reading, sessions, faults>>

\* The sum of the numbers c.
Total(c) == Cardinality(UNION {{x} \X (1..c[x]) : x \in DOMAIN c})

OpenedAt(here) ==
  /\ at = "open" /\ fsm = Nobody
  /\ fsm' = "reader"
  /\ logm' = Nobody
  /\ reading' = TRUE
  /\ ses' = [ses EXCEPT !.left = here, !.pos = Len(content[current]),
                        !.promised = Least(Total(ses.sizes), ses.asked)]
  /\ at' = "respond"
  /\ UNCHANGED <<files, ring, loggers, sessions, faults>>

\* Mutant: log_file_current_size is taken for the size of the file in flash.
OpenCurrentCounted == OpenedAt(size)

OpenCurrent == OpenedAt(ses.sizes[current])

\* Either gives up when the filesystem's mutex is not to be had.
BeginTimeout ==
  /\ at \in {"sizes", "open"}
  /\ logm' = Nobody
  /\ Return
  /\ UNCHANGED <<files, fsm, ring, loggers, reading, sessions, faults>>

\* littlefs fails on one of the files: the mutex is given only if it was fs_close or fs_seek.
BeginFails ==
  /\ at \in {"sizes", "open"} /\ fsm = Nobody /\ failures < MaxFailures
  /\ failures' = failures + 1
  /\ \/ leaked' = TRUE /\ fsm' = "reader"
     \/ UNCHANGED <<leaked, fsm>>
  /\ logm' = Nobody
  /\ Return
  /\ UNCHANGED <<files, ring, loggers, reading, sessions, astray, restarts>>

----------------------------------------------------------------------------
\* The rest of cmd_impl_GET_LOGS: logs_read and logs_read_end.

\* cmd_sys_begin_response; the command returns when it fails.
Respond ==
  /\ at = "respond"
  /\ \/ at' = (IF ses.promised = 0 THEN "end" ELSE "read") /\ UNCHANGED <<ses, leaked>>
     \/ Return /\ leaked' = TRUE
  /\ UNCHANGED <<files, fsm, logm, ring, loggers, reading, sessions, astray, restarts, failures>>

\* The chunk of n bytes before the position is read and written to the output, or the output does
\* not take it.
Chunk(n, position) ==
  /\ at = "read" /\ ses.left > 0 /\ logm = Nobody
  /\ LET read == [ses EXCEPT !.pos = position, !.left = @ - n, !.asked = @ - n]
         chunk == SubSeq(content[ses.index], ses.pos - n + 1, ses.pos)
     IN \/ /\ ses' = [read EXCEPT !.got = chunk \o @, !.promised = @ - n]
           /\ at' = IF ses.promised = n THEN "end" ELSE "read"
        \/ at' = "end" /\ ses' = read
  /\ UNCHANGED <<files, fsm, logm, ring, loggers, reading, sessions, faults>>

ChunkLength == Least(Least(ChunkSize, ses.left), ses.asked)

\* Mutant: the position is not moved back after a chunk has been read.
ReadOnce == Chunk(ChunkLength, ses.pos)

Read == Chunk(ChunkLength, ses.pos - ChunkLength)

\* The start of a file has been reached: it is closed, and the one before it opened.
NextFile ==
  /\ at = "read" /\ ses.left = 0 /\ logm = Nobody
  /\ logm' = "reader"
  /\ fsm' = Nobody
  /\ ses' = [ses EXCEPT !.index = Previous(@)]
  /\ at' = "reopen"
  /\ UNCHANGED <<files, ring, loggers, reading, sessions, faults>>

\* A file that was empty when the session began ends it.
Reopen ==
  /\ at = "reopen" /\ fsm = Nobody
  /\ fsm' = "reader"
  /\ logm' = Nobody
  /\ ses' = [ses EXCEPT !.pos = Len(content[ses.index]), !.left = ses.sizes[ses.index]]
  /\ at' = IF ses.sizes[ses.index] = 0 THEN "short" ELSE "read"
  /\ UNCHANGED <<files, ring, loggers, reading, sessions, faults>>

ReopenTimeout ==
  /\ at = "reopen"
  /\ logm' = Nobody
  /\ reading' = FALSE
  /\ Return
  /\ UNCHANGED <<files, fsm, ring, loggers, sessions, faults>>

\* fs_open leaves the mutex taken when littlefs fails; fs_seek and fs_read close the file.
ReadFails ==
  /\ failures < MaxFailures
  /\ failures' = failures + 1
  /\ \/ at = "reopen" /\ fsm = Nobody /\ fsm' = "reader" /\ leaked' = TRUE
     \/ at = "read" /\ logm = Nobody /\ fsm' = Nobody /\ UNCHANGED leaked
  /\ logm' = Nobody
  /\ reading' = FALSE
  /\ Return
  /\ UNCHANGED <<files, ring, loggers, sessions, astray, restarts>>

\* logs_read_end
End ==
  /\ at \in {"end", "short"} /\ logm = Nobody
  /\ reading' = FALSE
  /\ fsm' = Nobody
  /\ Return
  /\ UNCHANGED <<files, logm, ring, loggers, sessions, faults>>

----------------------------------------------------------------------------
\* A reset: what was not flushed is lost, and log_2_fs_init looks for the file to go on with, the
\* first of the shortest ones that are neither empty nor exactly full, or else log_0 as if it
\* were empty.
Restart ==
  /\ restarts < MaxRestarts
  /\ restarts' = restarts + 1
  /\ pending' = <<>> /\ batch' = <<>> /\ fsm' = Nobody /\ logm' = Nobody /\ reading' = FALSE
  /\ pc' = [l \in Loggers |-> "idle"] /\ rec' = [l \in Loggers |-> NoRecord]
  /\ Return /\ leaked' = FALSE
  /\ LET partly == {f \in Files : Len(content[f]) \in 1..(MaxSize - 1)}
         shortest == {f \in partly : \A g \in partly : Len(content[f]) <= Len(content[g])}
     IN \/ /\ partly = {}
           /\ current' = 0 /\ size' = 0
           /\ unzeroed' = IF content[0] = <<>> THEN unzeroed ELSE unzeroed \cup {0}
        \/ /\ partly # {}
           /\ current' = CHOOSE f \in shortest : \A g \in shortest : f <= g
           /\ size' = Len(content[current'])
           /\ UNCHANGED unzeroed
  /\ astray' = (astray \/ current' # current)
  /\ UNCHANGED <<content, hollow, repeated, saved, sessions, failures>>

LoggerStep(l) ==
  \/ \E n \in Lengths : Reserve(l, n) \/ Rotate(l, n)
  \/ Open(l) \/ OpenTimeout(l) \/ Zero(l) \/ ZeroFails(l) \/ Enqueue(l)
FlushStep == Flush \/ FlushFile \/ FlushFails \/ FlushEnds
SessionStep ==
  \/ FileSize \/ OpenCurrent \/ BeginTimeout \/ BeginFails \/ Respond
  \/ Read \/ NextFile \/ Reopen \/ ReopenTimeout \/ ReadFails \/ End

Next == (\E l \in Loggers : LoggerStep(l)) \/ FlushStep \/ Begin \/ SessionStep \/ Restart

\* Tasks go on, and the waits for mutexes end; nobody has to log, flush or send a command.
Fairness ==
  /\ \A l \in Loggers : WF_vars(Open(l) \/ OpenTimeout(l) \/ Zero(l) \/ ZeroFails(l) \/ Enqueue(l))
  /\ WF_vars(FlushFile \/ FlushFails \/ FlushEnds) /\ WF_vars(SessionStep)

Spec == Init /\ [][Next]_vars /\ Fairness

----------------------------------------------------------------------------
TypeOK ==
  /\ content \in [Files -> Seq(1..MaxLogs)]
  /\ pending \in Seq(Records) /\ batch \in Seq(Records)
  /\ {fsm, logm} \subseteq Loggers \cup {"reader", "flush", Nobody}
  /\ current \in Files /\ size \in 0..MaxSize
  /\ pc \in [Loggers -> {"idle", "open", "zero", "enqueue"}]
  /\ rec \in [Loggers -> Records \cup {NoRecord}]
  /\ at \in {"idle", "sizes", "open", "respond", "read", "reopen", "short", "end"}
  /\ ses \in [asked : Nat, sizes : [Files -> Nat], index : Files, left : Nat, pos : Nat,
              promised : Nat, got : Seq(1..MaxLogs), grew : BOOLEAN]
  /\ {reading, astray, leaked} \subseteq BOOLEAN /\ {unzeroed, hollow, repeated} \subseteq SUBSET Files
  /\ saved \in 0..MaxLogs /\ sessions \in 0..MaxSessions
  /\ restarts \in 0..MaxRestarts /\ failures \in 0..MaxFailures

\* A log file never grows beyond FS_LOGGING_MAX_FILE_SIZE, although what is reserved under
\* logSysMutex reaches the file long after, through the caches: unless it was not zeroed when its
\* turn came, records of an earlier turn were still on their way, or a flush that failed wrote one
\* of its records twice.
SizeBounded == \A f \in Files \ (unzeroed \cup repeated) : Len(content[f]) <= MaxSize

\* The files, from the oldest to the current one, hold the records in order: none of a file is
\* older than one of the file before it, whichever task logs first, whichever is flushed first and
\* whatever a failed flush loses or repeats.  A file that is not zeroed or still waits for records
\* of an earlier turn is left out; a restart that resumes at the wrong file breaks the order.
Ring == [i \in 1..NumFiles |-> (current + i) % NumFiles]

FilesInOrder ==
  ~astray => \A i, j \in 1..NumFiles :
    i < j /\ {Ring[i], Ring[j]} \cap unzeroed = {} =>
      \A a \in ToSet(content[Ring[i]]), b \in ToSet(content[Ring[j]]) : a < b

\* What a session has sent, put back in order, is the end of the log, with no gap and no record
\* twice, as long as no file grew after the session began.
ReadsBackwards ==
  at \in {"read", "reopen", "end", "short"} /\ ~ses.grew =>
    IsSuffix(ses.got, FlattenSeq([i \in 1..NumFiles |-> content[Ring[i]]]))

\* The length announced in the response is the length sent, unless the output refuses a chunk:
\* walking back meets no empty file before that many bytes, but for one that was left when nothing
\* of it was in flash, and never reads beyond the start of one.
PromiseKept ==
  /\ at = "short" => astray \/ ses.index \in hollow
  /\ at = "read" => ses.left <= ses.pos

\* While a session is on only the session takes logSysMutex, so that its end does not time out and
\* nobody waits with it for the file that the session keeps open.
SessionAlone ==
  reading =>
    /\ logm \in {"reader", Nobody}
    /\ \A l \in Loggers : pc[l] \in {"idle", "enqueue"}
    /\ at # "reopen" /\ ~leaked => fsm = "reader"

\* A mutex is held by a task that is going to give it, unless an error has left it behind.
MutexesReturned ==
  /\ \A l \in Loggers : logm = l <=> pc[l] \in {"open", "zero"}
  /\ logm = "reader" <=> at \in {"sizes", "open", "reopen"}
  /\ ~leaked => /\ fsm = "reader" => at \in {"respond", "read", "short", "end"}
                /\ \A l \in Loggers : fsm = l <=> pc[l] = "zero"

=============================================================================
