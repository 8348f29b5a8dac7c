----------------------------- MODULE WriteCache -----------------------------
(***************************************************************************)
(* The write cache of the filesystem, system/filesystem/obc_filesystem.c.  *)
(*                                                                         *)
(* Tasks append records to files through fs_write_enqueue, which copies    *)
(* them into the active one of two caches under xWriteQueueMutex.  When it *)
(* is full the caches are swapped and the FILESYSTEM task is notified; it  *)
(* polls, and flushes the cache that is not active under xFileSystemMutex. *)
(* fs_force_flush flushes both in the task that calls it, under both       *)
(* mutexes.  fs_open and fs_close take and give xFileSystemMutex for the   *)
(* tasks that use a file directly.                                         *)
(*                                                                         *)
(* A record that does not fit is copied all the same, over the requests    *)
(* behind the buffer: they then stand for garbage.  What that may do to    *)
(* memory outside the cache is not modelled: a request whose size is       *)
(* garbage may have littlefs read anywhere, and the program end.           *)
(*                                                                         *)
(* A record is copied in one step, a file is written in one step: opened,  *)
(* appended to and closed.  littlefs is modelled by what fs_flush_all sees *)
(* of it: a file that is closed after an error keeps what was appended to  *)
(* it or, if it is marked as being in error, loses it.                     *)
(***************************************************************************)
EXTENDS Naturals, Sequences, FiniteSets, SequencesExt, Selection

CONSTANTS
  Writers,        \* tasks that call fs_write_enqueue
  Files,          \* file names
  Sizes,          \* Sizes[n]: the size of the record of the n-th call
  MaxRecords,     \* bound: calls of fs_write_enqueue
  MaxForced,      \* bound: calls of fs_force_flush
  MaxOpened,      \* bound: calls of fs_open
  CacheSize,      \* WRITE_CACHE_SIZE: 1024 bytes
  QueueSize,      \* WRITE_QUEUE_SIZE: 15
  RequestSize,    \* the bytes of a request in the cache: 28
  PollPeriod,     \* FS_POLL_PERIOD_MS: 2000
  MaxFlushWait,   \* FS_MAX_FLUSH_WAIT: 600000
  CounterSize,    \* values of elapsed_period, a uint16_t: 65536
  MaxFailures,    \* bound: errors that littlefs reports
  Nobody          \* no task

ASSUME WriteCacheAssumption ==
  /\ {CacheSize, QueueSize, RequestSize, PollPeriod, CounterSize} \subseteq Nat \ {0}
  /\ Sizes \in [1..MaxRecords -> Nat \ {0}]
  /\ {MaxRecords, MaxForced, MaxOpened, MaxFailures, MaxFlushWait} \subseteq Nat
  /\ {"task", "force", "user", Nobody} \cap Writers = {}
  /\ Nobody \notin {"task", "force", "user"}

\* The records of this program (266 bytes at most) run over the requests at most, not further.
ASSUME SizesAssumption ==
  \A n \in 1..MaxRecords : Sizes[n] > CacheSize \/ Sizes[n] <= QueueSize * RequestSize + 1

Caches == {0, 1}
Other(c) == 1 - c

\* The two that flush: the FILESYSTEM task and a caller of fs_force_flush.
Flushers == {"task", "force"}

\* A record has the number of its call; what is left of one that was overwritten has 0.
Records == [id : 0..MaxRecords, file : Files]
Size(r) == Sizes[r.id]

VARIABLES
  queue,       \* queue[c]: the requests of cache c up to q_next_index
  head,        \* head[c]: head - buf
  active,      \* active_write_cache
  flushing,
  wq, fsm,     \* the holders of xWriteQueueMutex and xFileSystemMutex
  notes,       \* notifications of the FILESYSTEM task
  elapsed,     \* elapsed_period
  pc,          \* where each writer is
  arg,         \* the record it was called with
  at,          \* where each flusher is
  target,      \* the cache fs_flush_all has chosen; only the holder of fsm flushes
  second,      \* is fs_force_flush at its second flush?
  user,        \* has a task opened a file?
  files,       \* the contents of the files
  \* history
  calls, forced, opened, failures, accepted, force_failed,
  lost,        \* the records that errors of littlefs have lost
  crossed,     \* has a record been copied into a cache in the middle of its reset?
  garbled      \* the records that a copy too long for its cache has destroyed, or was itself of

enqueuing == <<pc, arg, calls, accepted, crossed, garbled>>
mutexes == <<wq, fsm>>
caches == <<queue, head, active>>
flush == <<at, target, second, forced, force_failed>>
using == <<user, opened, failures, lost>>
vars == <<queue, head, active, flushing, wq, fsm, notes, elapsed, pc, arg, at, target, second,
          user, files, calls, forced, opened, failures, accepted, force_failed, crossed, garbled, lost>>

NoRecord == [id |-> 0]

Init ==
  /\ queue = [c \in Caches |-> <<>>] /\ head = [c \in Caches |-> 0] /\ active = 0
  /\ flushing = FALSE /\ wq = Nobody /\ fsm = Nobody /\ notes = 0
  /\ elapsed = 0
  /\ pc = [w \in Writers |-> "idle"] /\ arg = [w \in Writers |-> NoRecord]
  /\ at = [p \in Flushers |-> "idle"] /\ target = 1 /\ second = FALSE
  /\ user = FALSE /\ files = [f \in Files |-> <<>>]
  /\ calls = 0 /\ forced = 0 /\ opened = 0 /\ failures = 0 /\ accepted = <<>> /\ force_failed = FALSE
  /\ crossed = FALSE /\ garbled = {} /\ lost = {}

Goto(w, label) == pc' = [pc EXCEPT ![w] = label]
FlushGoto(p, label) == at' = [at EXCEPT ![p] = label]

Unflushed(q) == {i \in DOMAIN q : ~q[i].flushed}

Full(c) == head[c] >= CacheSize \/ Len(queue[c]) >= QueueSize

----------------------------------------------------------------------------
\* fs_write_enqueue.

\* A record that is too big is refused, before anything is taken.
Call(w) ==
  /\ pc[w] = "idle"
  /\ calls < MaxRecords
  /\ calls' = calls + 1
  /\ \E r \in Records :
       /\ r.id = calls + 1
       /\ arg' = [arg EXCEPT ![w] = r]
       /\ Goto(w, IF Size(r) > CacheSize THEN "idle" ELSE "take")
  /\ UNCHANGED <<caches, flushing, mutexes, notes, elapsed, accepted, crossed, garbled, flush,
                 using, files>>

Take(w) ==
  /\ pc[w] = "take"
  /\ wq = Nobody
  /\ wq' = w
  /\ Goto(w, IF Full(active) THEN "wait" ELSE "copy")
  /\ UNCHANGED <<caches, flushing, fsm, notes, elapsed, arg, calls, accepted, crossed, garbled,
                 flush, using, files>>

\* FS_MUTEX_TIMEOUT
TakeTimeout(w) ==
  /\ pc[w] = "take"
  /\ wq # Nobody
  /\ Goto(w, "idle")
  /\ UNCHANGED <<caches, flushing, mutexes, notes, elapsed, arg, calls, accepted, crossed, garbled,
                 flush, using, files>>

Waited(w) ==
  /\ pc[w] = "wait"
  /\ ~flushing
  /\ Goto(w, "swap")
  /\ UNCHANGED <<caches, flushing, mutexes, notes, elapsed, arg, calls, accepted, crossed, garbled,
                 flush, using, files>>

\* vTaskDelay
Delay(w) ==
  /\ pc[w] = "wait"
  /\ flushing
  /\ Goto(w, "delay")
  /\ UNCHANGED <<caches, flushing, mutexes, notes, elapsed, arg, calls, accepted, crossed, garbled,
                 flush, using, files>>

\* FS_WRITE_FAILURE_ERR once the time is over, without a look at flushing: returned with the
\* mutex.
DelayEnds(w) ==
  /\ pc[w] = "delay"
  /\ \E label \in {"wait", "idle"} : Goto(w, label)
  /\ UNCHANGED <<caches, flushing, mutexes, notes, elapsed, arg, calls, accepted, crossed, garbled,
                 flush, using, files>>

Swap(w) ==
  /\ pc[w] = "swap"
  /\ active' = Other(active)
  /\ Goto(w, "swapped")
  /\ UNCHANGED <<queue, head, flushing, mutexes, notes, elapsed, arg, calls, accepted, crossed, garbled,
                 flush, using, files>>

\* FS_ENQUEUE_ERR if both are full: returned with the mutex, the caches swapped.
CheckOther(w) ==
  /\ pc[w] = "swapped"
  /\ Goto(w, IF Full(active) THEN "idle" ELSE "copy and notify")
  /\ UNCHANGED <<caches, flushing, mutexes, notes, elapsed, arg, calls, accepted, crossed, garbled,
                 flush, using, files>>

\* Full does not count the record that is still to be copied.
Overruns(r) == head[active] + Size(r) > CacheSize

\* The requests it is copied over: queue is behind buf in fs_write_cache_t.
Hit(r) ==
  {i \in DOMAIN queue[active] : head[active] + Size(r) > CacheSize + (i - 1) * RequestSize}

\* What is left of a record, in whatever file.
Damaged(r, f) == [r EXCEPT !.id = 0, !.file = f]

\* The queue q once the requests S hold what happens to be a name of a file, and a flag.
Overwritten(q, S, name, flag) ==
  [i \in DOMAIN q |->
     IF i \in S THEN [record |-> Damaged(q[i].record, name[i]), offset |-> q[i].offset,
                      flushed |-> flag[i]]
     ELSE q[i]]

\* The record is copied, its request queued, and the mutex given.  The end of a record that
\* runs over the requests may be damaged by them in turn.
Copy(w) ==
  /\ pc[w] \in {"copy", "copy and notify"}
  /\ LET hit == Hit(arg[w])
         q == queue[active]
     IN  /\ \E name \in [hit -> Files], flag \in [hit -> BOOLEAN],
               r \in {arg[w]} \cup (IF Overruns(arg[w]) THEN {Damaged(arg[w], arg[w].file)} ELSE {}) :
              queue' = [queue EXCEPT ![active] =
                          Append(Overwritten(q, hit, name, flag),
                                 [record |-> r, offset |-> head[active], flushed |-> FALSE])]
         /\ garbled' = garbled \cup {q[i].record : i \in hit \cap Unflushed(q)}
                               \cup (IF Overruns(arg[w]) THEN {arg[w]} ELSE {})
  /\ head' = [head EXCEPT ![active] = @ + Size(arg[w])]
  /\ accepted' = Append(accepted, arg[w])
  /\ crossed' = (crossed \/ (target = active /\ \E p \in Flushers : at[p] = "rewind"))
  /\ wq' = Nobody
  /\ Goto(w, IF pc[w] = "copy" THEN "idle" ELSE "notify")
  /\ UNCHANGED <<active, flushing, fsm, notes, elapsed, arg, calls, flush, using, files>>

\* Mutant: no flush is asked for.
NotifyNot(w) ==
  /\ pc[w] = "notify"
  /\ Goto(w, "idle")
  /\ UNCHANGED <<caches, flushing, mutexes, notes, elapsed, arg, calls, accepted, crossed, garbled,
                 flush, using, files>>

Notify(w) ==
  /\ pc[w] = "notify"
  /\ notes' = notes + 1
  /\ Goto(w, "idle")
  /\ UNCHANGED <<caches, flushing, mutexes, elapsed, arg, calls, accepted, crossed, garbled, flush,
                 using, files>>

Writer(w) ==
  \/ Call(w) \/ Take(w) \/ TakeTimeout(w) \/ Waited(w) \/ Delay(w) \/ DelayEnds(w)
  \/ Swap(w) \/ CheckOther(w) \/ Copy(w) \/ Notify(w)

----------------------------------------------------------------------------
\* fs_flush_all: it chooses the cache, goes through its requests, and resets it.

\* Mutant: the active cache is flushed.
ChooseActive(p) ==
  /\ at[p] = "choose"
  /\ target' = active
  /\ FlushGoto(p, IF queue[active] = <<>> THEN "flushed" ELSE "write")
  /\ UNCHANGED <<caches, flushing, mutexes, notes, elapsed, enqueuing, second, forced,
                 force_failed, using, files>>

Choose(p) ==
  /\ at[p] = "choose"
  /\ target' = Other(active)
  /\ FlushGoto(p, IF queue[Other(active)] = <<>> THEN "flushed" ELSE "write")
  /\ UNCHANGED <<caches, flushing, mutexes, notes, elapsed, enqueuing, second, forced,
                 force_failed, using, files>>

First(S) == CHOOSE i \in S : \A j \in S : i <= j

\* The requests that the outer loop writes next, with one file open: in the order of the queue.
Batch(q) ==
  LET file == q[First(Unflushed(q))].record.file
  IN  {i \in Unflushed(q) : q[i].record.file = file}

\* The first n indices of S, in order; the records of those requests.
Prefix(S, n) == {i \in S : Cardinality({j \in S : j <= i}) <= n}
RecordsOf(q, S) == Picked([i \in DOMAIN q |-> q[i].record], S)

Flag(q, S) == [i \in DOMAIN q |-> IF i \in S THEN [q[i] EXCEPT !.flushed = TRUE] ELSE q[i]]

\* Store the records of some requests of the target in the file of its first unflushed one.
Store(S) ==
  LET q == queue[target]
  IN  files' = [files EXCEPT ![q[First(Unflushed(q))].record.file] = @ \o RecordsOf(q, S)]

WriteFile(p) ==
  /\ at[p] = "write"
  /\ Unflushed(queue[target]) # {}
  /\ LET S == Batch(queue[target])
     IN  Store(S) /\ queue' = [queue EXCEPT ![target] = Flag(@, S)]
  /\ UNCHANGED <<head, active, flushing, mutexes, notes, elapsed, enqueuing, flush, using>>

\* Mutant: after an error no request is flagged.
LeaveUnflagged(flagged, kept) ==
  /\ Store(kept)
  /\ UNCHANGED <<queue, lost>>

\* After an error: which requests are flagged, and the records of which are stored.
Leave(flagged, kept) ==
  /\ Store(kept)
  /\ queue' = [queue EXCEPT ![target] = Flag(@, flagged)]
  /\ lost' = lost \cup {queue[target][i].record : i \in flagged \ kept}

\* An error after n writes, or in the close when they are all done.  The request of the
\* outer loop is flagged when all are written, the others when they are written themselves.
\* Closed in error, the file keeps what it had; otherwise what was written is stored.
FailFile(p) ==
  /\ failures < MaxFailures
  /\ failures' = failures + 1
  /\ at[p] = "write"
  /\ Unflushed(queue[target]) # {}
  /\ LET S == Batch(queue[target])
     IN  \E n \in 0..Cardinality(S) : \E kept \in {{}, Prefix(S, n)} :
           Leave(IF n = Cardinality(S) THEN S ELSE Prefix(S, n) \ {First(S)}, kept)
  /\ FlushGoto(p, "failed")
  /\ UNCHANGED <<head, active, flushing, mutexes, notes, elapsed, enqueuing, target, second,
                 forced, force_failed, user, opened>>

\* The loop over the requests ends,
LoopEnds(p) ==
  /\ at[p] = "write"
  /\ Unflushed(queue[target]) = {}
  /\ FlushGoto(p, "empty")
  /\ UNCHANGED <<caches, flushing, mutexes, notes, elapsed, enqueuing, target, second, forced,
                 force_failed, using, files>>

\* q_next_index = 0,
Empty(p) ==
  /\ at[p] = "empty"
  /\ queue' = [queue EXCEPT ![target] = <<>>]
  /\ FlushGoto(p, "rewind")
  /\ UNCHANGED <<head, active, flushing, mutexes, notes, elapsed, enqueuing, target, second,
                 forced, force_failed, using, files>>

\* and then head = buf.
Rewind(p) ==
  /\ at[p] = "rewind"
  /\ head' = [head EXCEPT ![target] = 0]
  /\ FlushGoto(p, "flushed")
  /\ UNCHANGED <<queue, active, flushing, mutexes, notes, elapsed, enqueuing, target, second,
                 forced, force_failed, using, files>>

Flush(p) == Choose(p) \/ WriteFile(p) \/ FailFile(p) \/ LoopEnds(p) \/ Empty(p) \/ Rewind(p)

----------------------------------------------------------------------------
\* filesystem_task, which never blocks: it asks for xFileSystemMutex with timeout 0.

MaxWaitOver == elapsed >= MaxFlushWait

\* The condition takes a notification only if the period is not over, and counts
\* only a single one: of several, one is taken and nothing is done.
Triggered == MaxWaitOver \/ notes = 1
NotesTaken == IF MaxWaitOver \/ notes = 0 THEN notes ELSE notes - 1

Tick(counted) == elapsed' = (counted + PollPeriod) % CounterSize

PollQuiet ==
  /\ at["task"] = "idle"
  /\ ~Triggered
  /\ notes' = NotesTaken
  /\ Tick(elapsed)
  /\ UNCHANGED <<caches, flushing, mutexes, enqueuing, flush, using, files>>

PollFlush ==
  /\ at["task"] = "idle"
  /\ Triggered
  /\ fsm = Nobody
  /\ fsm' = "task"
  /\ notes' = NotesTaken
  /\ flushing' = TRUE
  /\ FlushGoto("task", "choose")
  /\ UNCHANGED <<caches, wq, elapsed, enqueuing, target, second, forced,
                 force_failed, using, files>>

\* Mutant: the task does not notify itself when the mutex is busy.
PollBusyForgets ==
  /\ at["task"] = "idle"
  /\ Triggered
  /\ fsm # Nobody
  /\ notes' = NotesTaken
  /\ Tick(0)
  /\ UNCHANGED <<caches, flushing, mutexes, enqueuing, flush, using, files>>

\* It notifies itself.
PollBusy ==
  /\ at["task"] = "idle"
  /\ Triggered
  /\ fsm # Nobody
  /\ notes' = NotesTaken + 1
  /\ Tick(0)
  /\ UNCHANGED <<caches, flushing, mutexes, enqueuing, flush, using, files>>

\* After an error it notifies itself.
FlushEnds ==
  /\ at["task"] \in {"flushed", "failed"}
  /\ notes' = IF at["task"] = "failed" THEN notes + 1 ELSE notes
  /\ flushing' = FALSE
  /\ fsm' = Nobody
  /\ Tick(0)
  /\ FlushGoto("task", "idle")
  /\ UNCHANGED <<caches, wq, enqueuing, target, second, forced, force_failed, using, files>>

Task == PollQuiet \/ PollFlush \/ PollBusy \/ Flush("task") \/ FlushEnds

----------------------------------------------------------------------------
\* fs_force_flush

\* Mutant: the flush runs beside the one of the task.
ForceTakeAnyway ==
  /\ at["force"] = "idle"
  /\ forced < MaxForced
  /\ forced' = forced + 1
  /\ FlushGoto("force", "take")
  /\ UNCHANGED <<caches, flushing, mutexes, notes, elapsed, enqueuing, target, second,
                 force_failed, using, files>>

ForceTake ==
  /\ at["force"] = "idle"
  /\ forced < MaxForced
  /\ fsm = Nobody
  /\ fsm' = "force"
  /\ forced' = forced + 1
  /\ FlushGoto("force", "take")
  /\ UNCHANGED <<caches, flushing, wq, notes, elapsed, enqueuing, target, second, force_failed,
                 using, files>>

ForceTakeQueue ==
  /\ at["force"] = "take"
  /\ wq = Nobody
  /\ wq' = "force"
  /\ second' = FALSE
  /\ FlushGoto("force", "choose")
  /\ UNCHANGED <<caches, flushing, fsm, notes, elapsed, enqueuing, target, forced, force_failed,
                 using, files>>

\* FS_MUTEX_TIMEOUT: returned with xFileSystemMutex.
ForceTimeout ==
  /\ at["force"] = "take"
  /\ wq # Nobody
  /\ FlushGoto("force", "idle")
  /\ UNCHANGED <<caches, flushing, mutexes, notes, elapsed, enqueuing, target, second, forced,
                 force_failed, using, files>>

ForceSwap ==
  /\ at["force"] = "flushed"
  /\ ~second
  /\ active' = Other(active)
  /\ second' = TRUE
  /\ FlushGoto("force", "choose")
  /\ UNCHANGED <<queue, head, flushing, mutexes, notes, elapsed, enqueuing, target, forced,
                 force_failed, using, files>>

ForceEnds ==
  /\ \/ at["force"] = "flushed" /\ second
     \/ at["force"] = "failed"
  /\ force_failed' = (force_failed \/ at["force"] = "failed")
  /\ wq' = Nobody
  /\ fsm' = Nobody
  /\ FlushGoto("force", "idle")
  /\ UNCHANGED <<caches, flushing, notes, elapsed, enqueuing, target, second, forced, using,
                 files>>

ForceFlush ==
  ForceTake \/ ForceTakeQueue \/ ForceTimeout \/ Flush("force") \/ ForceSwap \/ ForceEnds

----------------------------------------------------------------------------
\* fs_open and fs_close

\* On an error of littlefs the mutex is taken all the same; the callers do not close.
Open ==
  /\ ~user
  /\ opened < MaxOpened
  /\ fsm = Nobody
  /\ fsm' = "user"
  /\ opened' = opened + 1
  /\ \/ user' = TRUE /\ UNCHANGED failures
     \/ failures < MaxFailures /\ failures' = failures + 1 /\ user' = FALSE
  /\ UNCHANGED <<caches, flushing, wq, notes, elapsed, enqueuing, flush, files, lost>>

Close ==
  /\ user
  /\ user' = FALSE
  /\ fsm' = Nobody
  /\ UNCHANGED <<caches, flushing, wq, notes, elapsed, enqueuing, flush, opened, failures,
                 files, lost>>

User == Open \/ Close

Next == Task \/ ForceFlush \/ User \/ \E w \in Writers : Writer(w)

\* The tasks have equal priorities or higher ones that wait, and share the processor;
\* nobody has to call anything.
Fairness ==
  /\ WF_vars(Task)
  /\ WF_vars(ForceFlush /\ ~ForceTake)
  /\ WF_vars(Close)
  /\ \A w \in Writers : WF_vars(Writer(w) /\ ~Call(w))

Spec == Init /\ [][Next]_vars /\ Fairness

----------------------------------------------------------------------------
\* The values of every variable.
TypeOK ==
  /\ queue \in [Caches -> Seq([record : Records, offset : Nat, flushed : BOOLEAN])]
  /\ head \in [Caches -> Nat]
  /\ active \in Caches /\ target \in Caches
  /\ flushing \in BOOLEAN /\ second \in BOOLEAN /\ user \in BOOLEAN
  /\ force_failed \in BOOLEAN /\ crossed \in BOOLEAN
  /\ wq \in Writers \cup Flushers \cup {Nobody}
  /\ fsm \in Flushers \cup {"user", Nobody}
  /\ notes \in Nat /\ calls \in Nat /\ forced \in Nat /\ opened \in Nat /\ failures \in Nat
  /\ elapsed \in 0..(CounterSize - 1)
  /\ pc \in [Writers -> {"idle", "take", "wait", "delay", "swap", "swapped", "copy",
                         "copy and notify", "notify"}]
  /\ arg \in [Writers -> Records \cup {NoRecord}]
  /\ at \in [Flushers -> {"idle", "take", "choose", "write", "empty", "rewind", "flushed", "failed"}]
  /\ files \in [Files -> Seq(Records)]
  /\ accepted \in Seq(Records) /\ lost \subseteq Records /\ garbled \subseteq Records

Pending(c) == RecordsOf(queue[c], Unflushed(queue[c]))
OfFile(s, f) == Only(s, {r \in Records : r.file = f})
Times(s, r) == Len(Only(s, {r}))

\* A mutex is lost when the task that holds it has returned.
QueueMutexLost == wq \in Writers /\ pc[wq] \in {"idle", "take"}
FilesMutexLost == \/ fsm = "force" /\ at["force"] = "idle"
                  \/ fsm = "user" /\ ~user

\* The copies of a record in its file and among the requests still to be flushed.
Copied(r) == Times(files[r.file], r) + Times(Pending(0), r) + Times(Pending(1), r)

\* A record for which fs_write_enqueue has returned FS_OK is at every moment in its file or
\* among the requests still to be flushed, however enqueueing, swapping and flushing interleave
\* (fs_write_enqueue, fs_flush_all, fs_force_flush), unless an error of littlefs lost it, or
\* fs_force_flush once failed half way, or a record was copied in the middle of the reset of its
\* cache, or it was overwritten by a record too long for its cache, or was that record; and it
\* is there once only: each error repeats at most one record, once.
Conserved ==
  /\ \A r \in Range(accepted) :
       /\ Copied(r) <= 1 + failures
       /\ r \in lost \cup garbled \/ force_failed \/ crossed \/ Copied(r) > 0
  /\ Cardinality({r \in Range(accepted) : Copied(r) > 1}) <= failures

\* The records that no overrun has touched.
Intact == {r \in Records : r.id # 0 /\ r \notin garbled}

\* While littlefs reports no error and no call returned with xWriteQueueMutex, every file
\* has its records in the order they were enqueued: what is in it, then what the cache that
\* is not active holds for it, then what the active one holds.  Each record that an overrun
\* has not touched has its place in that order, whatever became of those it has; the copy in
\* the middle of a reset is the exception once more.
InOrder ==
  \/ failures > 0 \/ crossed
  \/ QueueMutexLost
  \/ \E w \in Writers : pc[w] = "swapped"
  \/ \A f \in Files :
       Only(OfFile(accepted, f), Intact) =
         Only(files[f] \o OfFile(Pending(Other(active)), f) \o OfFile(Pending(active), f), Intact)

AtTheFiles ==
  {p \in Flushers : at[p] \notin {"idle", "take"}} \cup (IF user THEN {"user"} ELSE {})

\* The FILESYSTEM task, a caller of fs_force_flush and a task with an open file never work
\* on the files at the same time.
OneAtTheFiles == \A p, q \in AtTheFiles : p = q

\* The task is to flush, or will be told to, or nobody can be expected to tell it: a failed
\* fs_force_flush notifies nobody, and a call that returned with xWriteQueueMutex left the
\* caches swapped.
Asked ==
  \/ notes > 0
  \/ \E w \in Writers : pc[w] \in {"swapped", "copy and notify", "notify"}
  \/ QueueMutexLost
  \/ force_failed

\* The request for a flush is not forgotten: while the cache that is not active holds
\* requests, the task has a notification pending, or a flush is running, or a writer is
\* about to notify the task, whatever errors its flushes met and however often
\* xFileSystemMutex was busy.
FlushRequested ==
  \/ Unflushed(queue[Other(active)]) = {}
  \/ AtTheFiles \cap Flushers # {}
  \/ Asked

\* The cache that is not active is flushed in the end, although the task asks for the mutex
\* without waiting and a flush may fail half way, unless a call returned with one of the
\* mutexes, a failed fs_force_flush notified nobody, or a request was overwritten, which may
\* make every flush fail.
Behind == Unflushed(queue[Other(active)]) # {}
SwappedOutIsFlushed ==
  Behind ~> (~Behind \/ QueueMutexLost \/ FilesMutexLost \/ force_failed \/ garbled # {})

\* "The data will be flushed to flash whenever the filesystem task chooses (up till
\* FS_MAX_FLUSH_WAIT seconds)" (obc_filesystem.c:268-269).
EnqueuedIsStored ==
  \A r \in Records :
    r \in Range(accepted) ~> (r \in Range(files[r.file]) \/ QueueMutexLost \/ FilesMutexLost)

\* "Data is copied into active_write_cache, after which function returns [...].  The data will
\* be flushed to flash" (obc_filesystem.c:268): until then it is in the cache.
NothingDropped ==
  \A r \in Range(accepted) :
    r \in Range(files[r.file]) \/ \E c \in Caches : r \in Range(Pending(c))

============================================================================
