------------------------- MODULE WriteCache_proofs -------------------------
(***************************************************************************)
(* Theorems of WriteCache, for any number of writers, records of any sizes, *)
(* files, calls and errors: those who work on the files exclude each other, *)
(* the request for a flush is not forgotten, no record is lost but by an    *)
(* error of littlefs or by a record too long for its cache, which runs over *)
(* the requests, none is doubled but by an error, which repeats one at      *)
(* most, and none is put before an earlier one.                             *)
(***************************************************************************)
EXTENDS WriteCache, SequenceLemmas, FiniteSetTheorems, TLAPS

\* The places of fs_flush_all and of its callers around it.
Busy == {"choose", "write", "empty", "rewind", "flushed", "failed"}

\* What each place of the code knows of xFileSystemMutex.  The converse does not hold:
\* fs_force_flush and fs_open may return with it.
Holding ==
  /\ at \in [Flushers -> {"idle", "take"} \cup Busy]
  /\ user \in BOOLEAN
  /\ at["task"] # "take"
  /\ at["task"] # "idle" => fsm = "task"
  /\ at["force"] # "idle" => fsm = "force"
  /\ user => fsm = "user"

USE DEF Flushers, Busy, FlushGoto

LEMMA InitHolding == Init => Holding
BY WriteCacheAssumption DEF Init, Holding

\* A step of a writer touches none of it.
LEMMA WriterHolds ==
  ASSUME Holding, NEW w \in Writers, Writer(w)
  PROVE  Holding'
<1>1. at' = at /\ user' = user /\ fsm' = fsm
  BY DEF Writer, Call, Take, TakeTimeout, Waited, Delay, DelayEnds, Swap, CheckOther, Copy,
     Notify,
     flush, using, mutexes
<1>. QED BY <1>1 DEF Holding

\* A step of fs_flush_all is one of a caller that has the mutex and stays in it.
LEMMA FlushHolds ==
  ASSUME Holding, NEW p \in Flushers, Flush(p)
  PROVE  Holding'
<1>1. /\ at[p] \in Busy
      /\ fsm' = fsm /\ user' = user
      /\ \E label \in Busy : at' = [at EXCEPT ![p] = label]
  <2>1. CASE Choose(p)  BY <2>1 DEF Choose, Holding, using, mutexes
  <2>2. CASE WriteFile(p)
    <3>1. at' = at /\ at[p] = "write" /\ fsm' = fsm /\ user' = user
      BY <2>2 DEF WriteFile, flush, using, mutexes
    <3>2. at = [at EXCEPT ![p] = "write"]  BY <3>1 DEF Holding
    <3>. QED BY <3>1, <3>2
  <2>3. CASE FailFile(p)  BY <2>3 DEF FailFile, Holding, using, mutexes
  <2>4. CASE Empty(p)  BY <2>4 DEF Empty, Holding, using, mutexes
  <2>5. CASE Rewind(p)  BY <2>5 DEF Rewind, Holding, using, mutexes
  <2>6. CASE LoopEnds(p)  BY <2>6 DEF LoopEnds, Holding, using, mutexes
  <2>. QED BY <2>1, <2>2, <2>3, <2>4, <2>5, <2>6 DEF Flush
<1>. QED BY <1>1 DEF Holding

LEMMA TaskHolds ==
  ASSUME Holding, Task
  PROVE  Holding'
<1>1. CASE PollQuiet \/ PollBusy
  BY <1>1 DEF PollQuiet, PollBusy, Holding, flush, using, mutexes
<1>2. CASE PollFlush
  BY <1>2, WriteCacheAssumption DEF PollFlush, Holding, using
<1>3. CASE Flush("task")
  BY <1>3, FlushHolds
<1>4. CASE FlushEnds
  BY <1>4, WriteCacheAssumption DEF FlushEnds, Holding, using
<1>. QED BY <1>1, <1>2, <1>3, <1>4 DEF Task

LEMMA ForceHolds ==
  ASSUME Holding, ForceFlush
  PROVE  Holding'
<1>1. CASE ForceTake
  BY <1>1, WriteCacheAssumption DEF ForceTake, Holding, using
<1>2. CASE ForceTakeQueue \/ ForceTimeout
  BY <1>2 DEF ForceTakeQueue, ForceTimeout, Holding, using, mutexes
<1>3. CASE Flush("force")
  BY <1>3, FlushHolds
<1>4. CASE ForceSwap
  BY <1>4 DEF ForceSwap, Holding, using, mutexes
<1>5. CASE ForceEnds
  BY <1>5, WriteCacheAssumption DEF ForceEnds, Holding, using
<1>. QED BY <1>1, <1>2, <1>3, <1>4, <1>5 DEF ForceFlush

LEMMA UserHolds ==
  ASSUME Holding, User
  PROVE  Holding'
<1>1. CASE Open
  BY <1>1, WriteCacheAssumption DEF Open, Holding, flush
<1>2. CASE Close
  BY <1>2, WriteCacheAssumption DEF Close, Holding, flush
<1>. QED BY <1>1, <1>2 DEF User

\* Whoever is in a critical place of the filesystem has its mutex.
THEOREM HoldingCorrect == Spec => []Holding
<1>1. Holding /\ [Next]_vars => Holding'
  <2>. SUFFICES ASSUME Holding, [Next]_vars PROVE Holding'
    OBVIOUS
  <2>1. CASE UNCHANGED vars
    BY <2>1 DEF vars, Holding
  <2>2. CASE Next
    BY <2>2, WriterHolds, TaskHolds, ForceHolds, UserHolds DEF Next
  <2>. QED BY <2>1, <2>2
<1>. QED BY InitHolding, <1>1, PTL DEF Spec

\* The FILESYSTEM task, a caller of fs_force_flush and a task with an open file never work
\* on the files at the same time, whatever the writers do and whatever errors occur.
THEOREM ExclusionCorrect == Spec => []OneAtTheFiles
<1>1. Holding => OneAtTheFiles
  BY DEF Holding, OneAtTheFiles, AtTheFiles
<1>. QED BY HoldingCorrect, <1>1, PTL

----------------------------------------------------------------------------
\* Why the request for a flush is not forgotten.  A writer may swap the caches while the
\* task flushes, having looked at flushing before the flush began: the task then resets the
\* cache that has become the active one, and the other one, full, is left.  It is the
\* notification of that writer, still to come, that has it flushed.

Locked == {"wait", "delay", "swap", "swapped", "copy", "copy and notify"}
Settled == {"write", "empty", "rewind", "flushed", "failed"}

Typed ==
  /\ {active, target} \subseteq Caches
  /\ queue = [c \in Caches |-> queue[c]]
  /\ pc = [w \in Writers |-> pc[w]]
  /\ notes \in Nat
  /\ force_failed \in BOOLEAN

\* Whoever is in a section under xWriteQueueMutex has it.
QueueHeld ==
  /\ \A w \in Writers : pc[w] \in Locked => wq = w
  /\ at["force"] \in Busy => wq = "force"

FlushInv ==
  /\ Holding
  /\ Typed
  /\ QueueHeld
  /\ \A p \in Flushers : at[p] \in Settled => target = Other(active) \/ Asked
  /\ \A p \in Flushers :
       at[p] \in {"rewind", "flushed"} => Unflushed(queue[target]) = {} \/ Asked
  /\ FlushRequested

LEMMA Sides ==
  ASSUME NEW c \in Caches
  PROVE  Other(c) \in Caches /\ Other(c) # c /\ Other(Other(c)) = c
BY DEF Caches, Other

LEMMA InitFlushInv == Init => FlushInv
<1>1. Unflushed(<<>>) = {}
  BY DEF Unflushed
<1>. SUFFICES ASSUME Init PROVE FlushInv
  OBVIOUS
<1>2. Typed /\ QueueHeld
  BY DEF Init, Typed, QueueHeld, Caches, Locked
<1>3. Unflushed(queue[Other(active)]) = {}
  BY <1>1 DEF Init, Caches, Other
<1>4. \A p \in Flushers : at[p] \notin Settled
  BY DEF Init, Settled
<1>. QED
  BY <1>2, <1>3, <1>4, InitHolding DEF FlushInv, FlushRequested, Settled

\* What a step of a writer leaves of the request for a flush.
LEMMA WriterAsks ==
  ASSUME FlushInv, NEW w \in Writers, Writer(w), Asked
  PROVE  Asked'
<1>1. \A v \in Writers : v # w => pc'[v] = pc[v]
  BY DEF Writer, Call, Take, TakeTimeout, Waited, Delay, DelayEnds, Swap, CheckOther, Copy,
     Notify, Goto,
     FlushInv, Typed
<1>2. notes' \in {notes, notes + 1} /\ force_failed' = force_failed /\ notes \in Nat
  BY DEF Writer, Call, Take, TakeTimeout, Waited, Delay, DelayEnds, Swap, CheckOther, Copy,
     Notify,
     FlushInv, Typed, flush
<1>3. CASE notes > 0
  <2>1. notes' > 0
    BY <1>2, <1>3
  <2>. QED BY <2>1 DEF Asked
<1>7. CASE force_failed
  BY <1>2, <1>7 DEF Asked
<1>4. CASE \E v \in Writers : v # w /\ pc[v] \in {"swapped", "copy and notify", "notify"}
  BY <1>1, <1>4 DEF Asked
<1>5. CASE pc[w] \in {"swapped", "copy and notify", "notify"}
  <2>1. pc[w] # "notify" => wq = w
    BY <1>5 DEF FlushInv, QueueHeld, Locked
  <2>2. CheckOther(w) \/ Copy(w) \/ Notify(w)
    BY <1>5 DEF Writer, Call, Take, TakeTimeout, Waited, Delay, DelayEnds, Swap
  <2>3. CASE CheckOther(w)
    <3>1. pc'[w] \in {"idle", "copy and notify"} /\ wq' = wq /\ wq = w
      BY <2>1, <2>3 DEF CheckOther, Goto, FlushInv, Typed, mutexes
    <3>. QED BY <3>1 DEF Asked, QueueMutexLost
  <2>4. CASE Copy(w)
    <3>1. pc'[w] = "notify"
      BY <1>5, <2>4 DEF Copy, Goto, FlushInv, Typed
    <3>. QED BY <3>1 DEF Asked
  <2>5. CASE Notify(w)
    <3>1. notes' > 0
      BY <1>2, <2>5 DEF Notify
    <3>. QED BY <3>1 DEF Asked
  <2>. QED BY <2>2, <2>3, <2>4, <2>5
<1>6. CASE QueueMutexLost
  <2>1. \A v \in Writers : pc[v] \notin Locked \/ wq = v
    BY DEF FlushInv, QueueHeld
  <2>2. wq' = wq /\ (wq = w => pc'[w] \in {"idle", "take"})
    BY <1>6, <2>1, WriteCacheAssumption
    DEF Writer, Call, Take, TakeTimeout, Waited, Delay, DelayEnds, Swap, CheckOther,
       Copy, Notify, Goto, FlushInv, Typed, QueueMutexLost, mutexes, Locked
  <2>. QED BY <1>1, <1>6, <2>2 DEF Asked, QueueMutexLost
<1>. QED BY <1>3, <1>4, <1>5, <1>6, <1>7 DEF Asked

LEMMA WriterKeepsFlushInv ==
  ASSUME FlushInv, NEW w \in Writers, Writer(w)
  PROVE  FlushInv'
<1>1. Holding'
  BY WriterHolds DEF FlushInv
<1>2. at' = at /\ target' = target /\ user' = user
  BY DEF Writer, Call, Take, TakeTimeout, Waited, Delay, DelayEnds, Swap, CheckOther, Copy,
     Notify,
     flush, using
<1>3. Typed'
  <2>1. force_failed' = force_failed /\ pc' = [v \in Writers |-> pc'[v]]
    BY DEF Writer, Call, Take, TakeTimeout, Waited, Delay, DelayEnds, Swap, CheckOther, Copy,
       Notify,
       flush, FlushInv, Typed, Goto
  <2>2. notes' \in Nat
    <3>1. notes' \in {notes, notes + 1}
      BY DEF Writer, Call, Take, TakeTimeout, Waited, Delay, DelayEnds, Swap, CheckOther, Copy,
         Notify
    <3>. QED BY <3>1 DEF FlushInv, Typed
  <2>3. active' \in Caches
    <3>1. active' \in {active, Other(active)}
      BY DEF Writer, Call, Take, TakeTimeout, Waited, Delay, DelayEnds, Swap, CheckOther, Copy,
         Notify,
         caches
    <3>. QED BY <3>1, Sides DEF FlushInv, Typed
  <2>4. queue' = [c \in Caches |-> queue'[c]]
    <3>1. CASE Copy(w)
      <4>1. \A c, new : queue' = [queue EXCEPT ![c] = new] =>
                          queue' = [d \in Caches |-> queue'[d]]
        BY DEF FlushInv, Typed
      <4>2. \E new : queue' = [queue EXCEPT ![active] = new]
        BY <3>1 DEF Copy
      <4>. QED BY <4>1, <4>2
    <3>2. CASE queue' = queue
      BY <3>2 DEF FlushInv, Typed
    <3>. QED
      BY <3>1, <3>2 DEF Writer, Call, Take, TakeTimeout, Waited, Delay, DelayEnds, Swap,
         CheckOther,
         Notify, caches
  <2>. QED BY <1>2, <2>1, <2>2, <2>3, <2>4 DEF FlushInv, Typed
<1>4. QueueHeld'
  BY <1>2, WriteCacheAssumption
  DEF Writer, Call, Take, TakeTimeout, Waited, Delay, DelayEnds, Swap, CheckOther, Copy, Notify,
     mutexes, FlushInv, Typed, QueueHeld, Locked, Goto
<1>5. CASE active' # active
  <2>1. Asked'
    BY <1>5 DEF Writer, Call, Take, TakeTimeout, Waited, Delay, DelayEnds, Swap, CheckOther,
       Copy, Notify,
       caches, FlushInv, Typed, Goto, Asked
  <2>. QED BY <1>1, <1>3, <1>4, <2>1 DEF FlushInv, FlushRequested
<1>6. CASE active' = active
  <2>1. queue'[Other(active)] = queue[Other(active)]
    BY Sides DEF Writer, Call, Take, TakeTimeout, Waited, Delay, DelayEnds, Swap, CheckOther,
       Copy,
       Notify, caches, FlushInv, Typed
  <2>2. FlushRequested'
    BY <1>2, <1>6, <2>1, WriterAsks DEF FlushInv, FlushRequested, AtTheFiles, Unflushed
  <2>3. ASSUME NEW p \in Flushers, at'[p] \in Settled
        PROVE  target' = Other(active') \/ Asked'
    BY <1>2, <1>6, <2>3, WriterAsks DEF FlushInv
  <2>4. ASSUME NEW p \in Flushers, at'[p] \in {"rewind", "flushed"}
        PROVE  Unflushed(queue'[target']) = {} \/ Asked'
    BY <1>2, <2>1, <2>4, WriterAsks DEF FlushInv, Settled
  <2>. QED BY <1>1, <1>3, <1>4, <2>2, <2>3, <2>4 DEF FlushInv
<1>. QED BY <1>5, <1>6

\* Only one flusher works at a time, and nothing it does takes back a request for a flush.
LEMMA FlushKeepsFlushInv ==
  ASSUME FlushInv, NEW p \in Flushers, Flush(p)
  PROVE  FlushInv'
<1>1. at[p] \in Busy /\ at'[p] \in Busy /\ Holding'
  BY FlushHolds DEF Flush, Choose, WriteFile, FailFile, LoopEnds, Empty, Rewind, FlushInv,
     Holding, flush
<1>2. \A r \in Flushers : r # p => at'[r] = at[r] /\ at[r] = "idle"
  BY <1>1 DEF Flush, Choose, WriteFile, FailFile, LoopEnds, Empty, Rewind, FlushInv, Holding,
     flush
<1>3. /\ active' = active /\ wq' = wq /\ notes' = notes /\ pc' = pc
      /\ force_failed' = force_failed
  BY DEF Flush, Choose, WriteFile, FailFile, LoopEnds, Empty, Rewind, caches, mutexes,
     enqueuing, flush
<1>4. Asked' = Asked
  BY <1>3 DEF Asked, QueueMutexLost
<1>5. Typed'
  BY <1>3, Sides DEF Flush, Choose, WriteFile, FailFile, Leave, LoopEnds, Empty, Rewind, caches, flush,
     FlushInv, Typed
<1>6. QueueHeld'
  BY <1>1, <1>2, <1>3 DEF FlushInv, QueueHeld
<1>7. FlushRequested'
  BY <1>1 DEF FlushRequested, AtTheFiles
<1>8. at'[p] \in Settled => target' = Other(active') \/ Asked'
  BY <1>3, <1>4 DEF Flush, Choose, WriteFile, FailFile, LoopEnds, Empty, Rewind, flush, FlushInv,
     Holding, Settled
<1>9. at'[p] \in {"rewind", "flushed"} => Unflushed(queue'[target']) = {} \/ Asked'
  <2>1. Unflushed(<<>>) = {}
    BY DEF Unflushed
  <2>2. CASE Choose(p)
    BY <2>1, <2>2, Sides DEF Choose, caches, FlushInv, Holding, Typed
  <2>3. CASE WriteFile(p) \/ FailFile(p)
    BY <2>3 DEF WriteFile, FailFile, flush, FlushInv, Holding
  <2>4. CASE Empty(p)
    BY <2>1, <2>4 DEF Empty, flush, FlushInv, Typed
  <2>5. CASE Rewind(p)
    BY <1>4, <2>5 DEF Rewind, FlushInv
  <2>6. CASE LoopEnds(p)
    BY <2>6 DEF LoopEnds, FlushInv, Holding
  <2>. QED BY <2>2, <2>3, <2>4, <2>5, <2>6 DEF Flush
<1>. QED BY <1>1, <1>2, <1>5, <1>6, <1>7, <1>8, <1>9 DEF FlushInv, Settled

LEMMA TaskKeepsFlushInv ==
  ASSUME FlushInv, Task
  PROVE  FlushInv'
<1>1. Holding'
  BY TaskHolds DEF FlushInv
<1>2. CASE Flush("task")
  BY <1>2, FlushKeepsFlushInv
<1>3. CASE PollQuiet \/ PollFlush \/ PollBusy \/ FlushEnds
  <2>1. /\ caches' = caches /\ wq' = wq /\ pc' = pc /\ target' = target
        /\ force_failed' = force_failed /\ at'["force"] = at["force"] /\ notes' \in Nat
    BY <1>3 DEF PollQuiet, PollFlush, PollBusy, FlushEnds, NotesTaken, enqueuing, flush, mutexes,
       FlushInv, Typed, Holding
  <2>2. Typed' /\ QueueHeld'
    BY <2>1 DEF FlushInv, Typed, QueueHeld, caches
  <2>3. at'["task"] \in {"idle", "choose"}
    BY <1>3 DEF PollQuiet, PollFlush, PollBusy, FlushEnds, flush, FlushInv, Holding
  <2>4. CASE PollQuiet
    <3>1. notes > 0 => notes' > 0
      BY <2>4 DEF PollQuiet, NotesTaken, Triggered, FlushInv, Typed
    <3>2. Asked => Asked'
      BY <2>1, <3>1 DEF Asked, QueueMutexLost
    <3>3. at' = at
      BY <2>4 DEF PollQuiet, flush
    <3>. QED
      BY <1>1, <2>1, <2>2, <3>2, <3>3 DEF FlushInv, FlushRequested, AtTheFiles, caches
  <2>5. CASE PollFlush
    <3>1. at'["task"] = "choose" /\ at["force"] \in {"idle", "take"}
      BY <2>5, WriteCacheAssumption DEF PollFlush, FlushInv, Holding
    <3>. QED
      BY <1>1, <2>1, <2>2, <3>1 DEF FlushInv, FlushRequested, AtTheFiles, Settled
  <2>6. CASE PollBusy
    <3>1. notes' > 0
      BY <2>6 DEF PollBusy, NotesTaken, FlushInv, Typed
    <3>. QED
      BY <1>1, <2>2, <3>1 DEF FlushInv, FlushRequested, Asked
  <2>7. CASE FlushEnds
    <3>1. at["force"] \in {"idle", "take"}
      BY <2>7 DEF FlushEnds, FlushInv, Holding
    <3>4. notes > 0 \/ at["task"] = "failed" => notes' > 0
      BY <2>7 DEF FlushEnds, FlushInv, Typed
    <3>2. Asked => Asked'
      BY <2>1, <3>4 DEF Asked, QueueMutexLost
    <3>5. at["task"] = "failed" => Asked'
      BY <3>4 DEF Asked
    <3>3. Unflushed(queue[Other(active)]) = {} \/ Asked'
      BY <2>7, <3>2, <3>5 DEF FlushEnds, FlushInv, Settled
    <3>. QED
      BY <1>1, <2>1, <2>2, <2>3, <3>1, <3>3 DEF FlushInv, FlushRequested, Settled, caches
  <2>. QED BY <1>3, <2>4, <2>5, <2>6, <2>7
<1>. QED BY <1>2, <1>3 DEF Task

LEMMA ForceKeepsFlushInv ==
  ASSUME FlushInv, ForceFlush
  PROVE  FlushInv'
<1>1. Holding'
  BY ForceHolds DEF FlushInv
<1>2. CASE Flush("force")
  BY <1>2, FlushKeepsFlushInv
<1>3. CASE ForceTake \/ ForceTakeQueue \/ ForceTimeout \/ ForceSwap \/ ForceEnds
  <2>1. /\ queue' = queue /\ notes' = notes /\ pc' = pc /\ target' = target
        /\ at'["task"] = at["task"]
    BY <1>3 DEF ForceTake, ForceTakeQueue, ForceTimeout, ForceSwap, ForceEnds, enqueuing,
       caches, FlushInv, Holding
  <2>2. Typed' /\ QueueHeld'
    <3>1. Typed'
      BY <1>3, <2>1, Sides
      DEF ForceTake, ForceTakeQueue, ForceTimeout, ForceSwap, ForceEnds, caches, FlushInv, Typed
    <3>. SUFFICES QueueHeld'
      BY <3>1
    <3>2. CASE wq' = wq /\ at'["force"] \in {"idle", "take"}
      BY <2>1, <3>2 DEF FlushInv, QueueHeld, Busy
    <3>3. CASE ForceTakeQueue
      BY <2>1, <3>3, WriteCacheAssumption DEF ForceTakeQueue, FlushInv, QueueHeld, Locked
    <3>4. CASE ForceSwap
      BY <2>1, <3>4 DEF ForceSwap, mutexes, FlushInv, QueueHeld, Busy
    <3>5. CASE ForceEnds
      BY <2>1, <3>5, WriteCacheAssumption DEF ForceEnds, FlushInv, QueueHeld, Holding, Locked
    <3>6. CASE ForceTake \/ ForceTimeout
      BY <3>2, <3>6 DEF ForceTake, ForceTimeout, mutexes, FlushInv, Holding
    <3>. QED BY <1>3, <3>3, <3>4, <3>5, <3>6
  <2>3. at'["force"] \notin Settled
    BY <1>3 DEF ForceTake, ForceTakeQueue, ForceTimeout, ForceSwap, ForceEnds, FlushInv,
       Holding, Settled
  <2>4. CASE ForceTake \/ ForceTimeout
    <3>1. active' = active /\ force_failed' = force_failed /\ wq' = wq
      BY <2>4 DEF ForceTake, ForceTimeout, caches, mutexes
    <3>2. Asked' = Asked
      BY <2>1, <3>1 DEF Asked, QueueMutexLost
    <3>3. AtTheFiles' \cap Flushers = AtTheFiles \cap Flushers
      BY <2>1, <2>4 DEF ForceTake, ForceTimeout, AtTheFiles, FlushInv, Holding
    <3>. QED
      BY <1>1, <2>1, <2>2, <2>3, <3>1, <3>2, <3>3 DEF FlushInv, FlushRequested, Settled
  <2>5. CASE ForceTakeQueue \/ ForceSwap
    <3>1. at'["force"] = "choose" /\ at["task"] = "idle"
      BY <2>5 DEF ForceTakeQueue, ForceSwap, FlushInv, Holding
    <3>. QED
      BY <1>1, <2>1, <2>2, <3>1 DEF FlushInv, FlushRequested, AtTheFiles, Settled
  <2>6. CASE ForceEnds
    <3>1. at["task"] = "idle" /\ active' = active
      BY <2>6 DEF ForceEnds, FlushInv, Holding, caches
    <3>2. wq = "force"
      BY <2>6 DEF ForceEnds, FlushInv, QueueHeld
    <3>3. Asked => Asked'
      BY <2>1, <2>6, <3>2, WriteCacheAssumption
      DEF ForceEnds, Asked, QueueMutexLost, FlushInv, Typed
    <3>4. Unflushed(queue[Other(active)]) = {} \/ Asked'
      BY <2>6, <3>3 DEF ForceEnds, Asked, FlushInv, Settled
    <3>. QED
      BY <1>1, <2>1, <2>2, <2>3, <3>1, <3>4 DEF FlushInv, FlushRequested, Settled
  <2>. QED BY <1>3, <2>4, <2>5, <2>6
<1>. QED BY <1>2, <1>3 DEF ForceFlush

LEMMA UserKeepsFlushInv ==
  ASSUME FlushInv, User
  PROVE  FlushInv'
<1>1. Holding'
  BY UserHolds DEF FlushInv
<1>2. /\ caches' = caches /\ wq' = wq /\ notes' = notes /\ pc' = pc /\ target' = target
      /\ at' = at /\ force_failed' = force_failed
  BY DEF User, Open, Close, enqueuing, flush
<1>3. AtTheFiles' \cap Flushers = AtTheFiles \cap Flushers
  BY <1>2 DEF AtTheFiles
<1>4. Asked' = Asked
  BY <1>2 DEF Asked, QueueMutexLost
<1>. QED
  BY <1>1, <1>2, <1>3, <1>4 DEF FlushInv, Typed, QueueHeld, FlushRequested, caches

\* The invariant that the request for a flush needs.
THEOREM FlushInvCorrect == Spec => []FlushInv
<1>1. FlushInv /\ [Next]_vars => FlushInv'
  <2>. SUFFICES ASSUME FlushInv, [Next]_vars PROVE FlushInv'
    OBVIOUS
  <2>1. CASE UNCHANGED vars
    BY <2>1 DEF vars, FlushInv, Holding, Typed, QueueHeld, FlushRequested, Asked, AtTheFiles,
       QueueMutexLost
  <2>2. CASE Next
    BY <2>2, WriterKeepsFlushInv, TaskKeepsFlushInv, ForceKeepsFlushInv, UserKeepsFlushInv
    DEF Next
  <2>. QED BY <2>1, <2>2
<1>. QED BY InitFlushInv, <1>1, PTL DEF Spec

\* The request for a flush is never forgotten, whatever the writers do and whatever errors
\* the flushes of the task meet.
THEOREM FlushRequestedCorrect == Spec => []FlushRequested
<1>1. FlushInv => FlushRequested
  BY DEF FlushInv
<1>. QED BY FlushInvCorrect, <1>1, PTL

----------------------------------------------------------------------------
HIDE DEF Flushers, Busy

\* fs_write_request_t
Requests == [record : Records, offset : Nat, flushed : BOOLEAN]

\* The records of a queue, flushed or not, and those that are not.
Names(q) == [i \in DOMAIN q |-> q[i].record]
Rest(q) == RecordsOf(q, Unflushed(q))

\* What the queues of the caches hold.  Nothing is in an empty range.
LEMMA EmptyRange ==
  ASSUME NEW S, NEW s \in Seq(S), Range(s) = {}
  PROVE  s = <<>>
<1>1. Len(s) \in Nat /\ Range(s) = {s[i] : i \in 1..Len(s)} /\ (s = <<>> <=> Len(s) = 0)
  BY SeqFacts
<1>2. ASSUME Len(s) # 0 PROVE FALSE
  <2>1. 1 \in 1..Len(s)
    BY <1>1, <1>2
  <2>2. s[1] \in Range(s)
    BY <1>1, <2>1
  <2>. QED BY <2>2
<1>. QED BY <1>1, <1>2

\* A queue has one record per request; the records of some of its requests.
LEMMA NamesFacts ==
  ASSUME NEW q \in Seq(Requests)
  PROVE  /\ Names(q) \in Seq(Records) /\ Len(Names(q)) = Len(q) /\ DOMAIN Names(q) = 1..Len(q)
         /\ DOMAIN q = 1..Len(q) /\ Len(q) \in Nat
         /\ \A i \in 1..Len(q) : q[i] \in Requests /\ q[i].record \in Records /\ Names(q)[i] = q[i].record
         /\ \A S : RecordsOf(q, S) = Picked(Names(q), S) /\ RecordsOf(q, S) \in Seq(Records)
<1>1. DOMAIN q = 1..Len(q) /\ Len(q) \in Nat /\ \A i \in 1..Len(q) : q[i] \in Requests
  BY LenProperties, ElementOfSeq
<1>2. \A i \in 1..Len(q) : q[i].record \in Records
  BY <1>1 DEF Requests
<1>3. Names(q) \in [1..Len(q) -> Records]
  BY <1>1, <1>2 DEF Names
<1>4. Names(q) \in Seq(Records) /\ Len(Names(q)) = Len(q)
  BY <1>1, <1>3
<1>5. \A S : RecordsOf(q, S) = Picked(Names(q), S)
  BY DEF RecordsOf, Names
<1>6. \A S : Picked(Names(q), S) \in Seq(Records)
  BY <1>4, ChosenFacts
<1>. QED BY <1>1, <1>2, <1>3, <1>4, <1>5, <1>6 DEF Names

\* The requests that are not flushed; the first of them exists if there is one.
LEMMA UnflushedFacts ==
  ASSUME NEW q \in Seq(Requests)
  PROVE  /\ Unflushed(q) \subseteq 1..Len(q)
         /\ Rest(q) \in Seq(Records)
         /\ Unflushed(q) = {} => Rest(q) = <<>>
         /\ Unflushed(q) # {} => /\ First(Unflushed(q)) \in Unflushed(q)
                                 /\ q[First(Unflushed(q))].record.file \in Files
<1>1. Unflushed(q) \subseteq 1..Len(q) /\ Rest(q) \in Seq(Records)
  BY NamesFacts DEF Unflushed, Rest
<1>2. ASSUME Unflushed(q) = {} PROVE Rest(q) = <<>>
  <2>1. Range(Picked(Names(q), {})) = {Names(q)[i] : i \in {j \in 1..Len(Names(q)) : j \in {}}}
    BY NamesFacts, PickedEntries
  <2>2. Range(Rest(q)) = {}
    BY <1>2, <2>1, NamesFacts DEF Rest
  <2>. QED BY <1>1, <2>2, EmptyRange
<1>3. ASSUME Unflushed(q) # {}
      PROVE  First(Unflushed(q)) \in Unflushed(q) /\ q[First(Unflushed(q))].record.file \in Files
  <2>1. Unflushed(q) \in SUBSET Nat
    BY <1>1, NamesFacts
  <2>2. PICK n \in Unflushed(q) : \A m \in Unflushed(q) : n <= m
    BY <1>3, <2>1, LeastNumber
  <2>3. First(Unflushed(q)) \in Unflushed(q)
    BY <2>2 DEF First
  <2>4. q[First(Unflushed(q))].record \in Records
    BY <1>1, <2>3, NamesFacts
  <2>. QED BY <2>3, <2>4 DEF Records
<1>. QED BY <1>1, <1>2, <1>3

\* A request that is added is one more that is not flushed, the last one.
LEMMA RestAppend ==
  ASSUME NEW q \in Seq(Requests), NEW e \in Requests, ~e.flushed
  PROVE  /\ Append(q, e) \in Seq(Requests)
         /\ Rest(Append(q, e)) = Append(Rest(q), e.record)
<1>. DEFINE t == Append(q, e)
<1>1. /\ t \in Seq(Requests) /\ Len(t) = Len(q) + 1 /\ t[Len(q) + 1] = e /\ Len(q) \in Nat
      /\ \A i \in 1..Len(q) : t[i] = q[i]
  BY AppendProperties, LenProperties
<1>2. e.record \in Records
  BY DEF Requests
<1>. HIDE DEF t
<1>3. Names(t) = Append(Names(q), e.record)
  <2>1. /\ Names(t) \in Seq(Records) /\ Len(Names(t)) = Len(q) + 1
        /\ \A i \in 1..(Len(q) + 1) : Names(t)[i] = t[i].record
    BY <1>1, NamesFacts
  <2>2. /\ Append(Names(q), e.record) \in Seq(Records) /\ Len(Append(Names(q), e.record)) = Len(q) + 1
        /\ Append(Names(q), e.record)[Len(q) + 1] = e.record
        /\ \A i \in 1..Len(q) : Append(Names(q), e.record)[i] = q[i].record
    BY <1>2, NamesFacts, AppendProperties
  <2>3. \A i \in 1..(Len(q) + 1) : Names(t)[i] = Append(Names(q), e.record)[i]
    BY <1>1, <2>1, <2>2
  <2>. QED BY <2>1, <2>2, <2>3, SeqEqual
<1>4. Len(q) + 1 \in Unflushed(t) /\ \A i \in 1..Len(q) : i \in Unflushed(t) <=> i \in Unflushed(q)
  BY <1>1, NamesFacts DEF Unflushed
<1>5. Picked(Append(Names(q), e.record), Unflushed(t)) = Append(Picked(Names(q), Unflushed(t)), e.record)
  BY <1>2, <1>4, NamesFacts, PickedAppend
<1>6. Picked(Names(q), Unflushed(t)) = Picked(Names(q), Unflushed(q))
  BY <1>4, NamesFacts, PickedSame
<1>7. Rest(t) = Append(Rest(q), e.record)
  BY <1>1, <1>3, <1>5, <1>6, NamesFacts DEF Rest
<1>. QED BY <1>1, <1>7 DEF t

\* What is flagged is flushed, and nothing else changes.
LEMMA FlagFacts ==
  ASSUME NEW q \in Seq(Requests), NEW S
  PROVE  /\ Flag(q, S) \in Seq(Requests)
         /\ Len(Flag(q, S)) = Len(q)
         /\ Names(Flag(q, S)) = Names(q)
         /\ Unflushed(Flag(q, S)) = Unflushed(q) \ S
<1>. DEFINE t == Flag(q, S)
<1>1. \A i \in 1..Len(q) : /\ q[i] \in Requests
                           /\ q[i] = [record |-> q[i].record, offset |-> q[i].offset, flushed |-> q[i].flushed]
                           /\ q[i].record \in Records /\ q[i].offset \in Nat /\ q[i].flushed \in BOOLEAN
  BY NamesFacts DEF Requests
<1>2. /\ DOMAIN t = 1..Len(q)
      /\ \A i \in 1..Len(q) : t[i] = IF i \in S THEN [q[i] EXCEPT !.flushed = TRUE] ELSE q[i]
  BY NamesFacts DEF Flag
<1>3. \A i \in 1..Len(q) : /\ t[i] \in Requests /\ t[i].record = q[i].record
                           /\ t[i].flushed = (q[i].flushed \/ i \in S)
  BY <1>1, <1>2 DEF Requests
<1>. HIDE DEF t
<1>4. t = [i \in 1..Len(q) |-> t[i]]
  BY <1>2 DEF t, Flag
<1>5. t \in Seq(Requests) /\ Len(t) = Len(q)
  BY <1>2, <1>3, <1>4, NamesFacts
<1>6. Names(t) = Names(q)
  BY <1>2, <1>3, NamesFacts DEF Names
<1>7. Unflushed(t) = Unflushed(q) \ S
  BY <1>2, <1>3, NamesFacts DEF Unflushed
<1>. QED BY <1>5, <1>6, <1>7 DEF t

\* The queue t is q with some requests overwritten; the records of those that were not flushed
\* are among those that are gone.
Spoilt(q, t, gone) ==
  /\ Len(t) = Len(q)
  /\ \A i \in 1..Len(q) :
       \/ t[i] = q[i]
       \/ t[i].record.id = 0 /\ (i \in Unflushed(q) => q[i].record \in gone)

\* Of the others nothing is lost, and they are in the same order.
LEMMA SpoiltRest ==
  ASSUME NEW q \in Seq(Requests), NEW t \in Seq(Requests), NEW gone, Spoilt(q, t, gone),
         NEW S, \A r \in S : r.id # 0 /\ r \notin gone
  PROVE  Only(Rest(t), S) = Only(Rest(q), S)
<1>1. PICK n \in Seq(Records), m \in Seq(Records) : n = Names(q) /\ m = Names(t)
  BY NamesFacts
<1>2. PICK U, V : U = Unflushed(q) /\ V = Unflushed(t)
  OBVIOUS
<1>3. /\ DOMAIN n = 1..Len(q) /\ DOMAIN m = 1..Len(q) /\ U \subseteq 1..Len(q) /\ V \subseteq 1..Len(q)
      /\ \A i \in 1..Len(q) : n[i] = q[i].record /\ m[i] = t[i].record
      /\ \A i \in 1..Len(q) : (i \in U <=> ~q[i].flushed) /\ (i \in V <=> ~t[i].flushed)
  BY <1>1, <1>2, NamesFacts DEF Spoilt, Unflushed
<1>4. PICK I, J : /\ I = {i \in DOMAIN n : i \in U /\ n[i] \in S}
                  /\ J = {i \in DOMAIN m : i \in V /\ m[i] \in S}
  OBVIOUS
<1>5. Only(Rest(q), S) = Picked(n, I) /\ Only(Rest(t), S) = Picked(m, J)
  <2>1. Rest(q) = Picked(n, U) /\ Rest(t) = Picked(m, V)
    BY <1>1, <1>2, NamesFacts DEF Rest
  <2>. QED BY <1>4, <2>1, OnlyPicked
<1>6. ASSUME NEW i \in 1..Len(q)
      PROVE  (i \in I <=> i \in J) /\ (i \in I => n[i] = m[i])
  <2>1. CASE t[i] = q[i]
    BY <1>3, <1>4, <2>1
  <2>2. CASE t[i].record.id = 0 /\ (i \in Unflushed(q) => q[i].record \in gone)
    <3>1. i \notin I
      BY <1>2, <1>3, <1>4, <2>2
    <3>2. i \notin J
      BY <1>3, <1>4, <2>2
    <3>. QED BY <3>1, <3>2
  <2>. QED BY <2>1, <2>2 DEF Spoilt
<1>7. Picked(m, J) = Picked(n, I)
  <2>1. Chosen(m, J) = Chosen(n, I)
    BY <1>3, <1>6 DEF Chosen
  <2>. QED BY <2>1 DEF Picked, Chosen
<1>. QED BY <1>5, <1>7

\* Writing a batch: the records of its file are moved from the rest of the queue into the
\* file, in order, and those of other files stay.
LEMMA BatchMoves ==
  ASSUME NEW q \in Seq(Requests), Unflushed(q) # {}, NEW S,
         NEW file \in Files, file = q[First(Unflushed(q))].record.file
  PROVE  /\ RecordsOf(q, Batch(q)) \in Seq(Records)
         /\ (\A r \in S \cap Records : r.file = file) =>
              /\ Only(RecordsOf(q, Batch(q)), S) = Only(Rest(q), S)
              /\ Only(Rest(Flag(q, Batch(q))), S) = <<>>
         /\ (\A r \in S \cap Records : r.file # file) =>
              Only(Rest(Flag(q, Batch(q))), S) = Only(Rest(q), S)
<1>1. PICK n \in Seq(Records) : n = Names(q)
  BY NamesFacts
<1>2. PICK U : U = Unflushed(q)
  OBVIOUS
<1>3. PICK B : B = Batch(q)
  OBVIOUS
<1>4. /\ DOMAIN n = 1..Len(n) /\ U \subseteq 1..Len(n)
      /\ \A i \in 1..Len(n) : n[i] \in Records /\ n[i] = q[i].record
  BY <1>1, <1>2, NamesFacts, UnflushedFacts
<1>5. B = {i \in U : n[i].file = file}
  BY <1>2, <1>3, <1>4 DEF Batch
<1>6. /\ RecordsOf(q, Batch(q)) = Picked(n, B) /\ Rest(q) = Picked(n, U)
      /\ Rest(Flag(q, Batch(q))) = Picked(n, U \ B)
  <2>1. /\ RecordsOf(q, Batch(q)) = Picked(n, B) /\ Rest(q) = Picked(n, U)
    BY <1>1, <1>2, <1>3, NamesFacts DEF Rest
  <2>2. PICK t \in Seq(Requests) : t = Flag(q, Batch(q))
    BY FlagFacts
  <2>3. Names(t) = n /\ Unflushed(t) = U \ B
    BY <1>1, <1>2, <1>3, <2>2, FlagFacts
  <2>4. Rest(t) = Picked(n, U \ B)
    BY <2>3, NamesFacts DEF Rest
  <2>. QED BY <2>1, <2>2, <2>4
<1>7. /\ Only(Picked(n, B), S) = Picked(n, {i \in DOMAIN n : i \in B /\ n[i] \in S})
      /\ Only(Picked(n, U), S) = Picked(n, {i \in DOMAIN n : i \in U /\ n[i] \in S})
      /\ Only(Picked(n, U \ B), S) = Picked(n, {i \in DOMAIN n : i \in U \ B /\ n[i] \in S})
  BY OnlyPicked
<1>8. ASSUME \A r \in S \cap Records : r.file = file
      PROVE  /\ Only(Picked(n, B), S) = Only(Picked(n, U), S)
             /\ Only(Picked(n, U \ B), S) = <<>>
  <2>1. {i \in DOMAIN n : i \in B /\ n[i] \in S} = {i \in DOMAIN n : i \in U /\ n[i] \in S}
    BY <1>4, <1>5, <1>8
  <2>2. {i \in DOMAIN n : i \in U \ B /\ n[i] \in S} = {}
    BY <1>4, <1>5, <1>8
  <2>3. Picked(n, {}) = <<>>
    <3>1. Range(Picked(n, {})) = {n[i] : i \in {j \in 1..Len(n) : j \in {}}} /\ Picked(n, {}) \in Seq(Records)
      BY PickedEntries, ChosenFacts
    <3>2. Range(Picked(n, {})) = {}
      BY <3>1
    <3>. QED BY <3>1, <3>2, EmptyRange
  <2>. QED BY <1>7, <2>1, <2>2, <2>3
<1>9. ASSUME \A r \in S \cap Records : r.file # file
      PROVE  Only(Picked(n, U \ B), S) = Only(Picked(n, U), S)
  <2>1. {i \in DOMAIN n : i \in U \ B /\ n[i] \in S} = {i \in DOMAIN n : i \in U /\ n[i] \in S}
    BY <1>4, <1>5, <1>9
  <2>. QED BY <1>7, <2>1
<1>. QED BY <1>6, <1>8, <1>9, NamesFacts

----------------------------------------------------------------------------
\* The records of calls, which no overrun has made.
Genuine == {r \in Records : r.id # 0}

\* A call is under way from its start until its record is in the cache.
Underway == {w \in Writers : pc[w] \notin {"idle", "notify"}}

Labels == {"idle", "take", "wait", "delay", "swap", "swapped", "copy", "copy and notify", "notify"}
FlushLabels == {"idle", "take", "choose", "write", "empty", "rewind", "flushed", "failed"}

Storage ==
  /\ queue \in [Caches -> Seq(Requests)]
  /\ head \in [Caches -> Nat]
  /\ files \in [Files -> Seq(Records)]
  /\ accepted \in Seq(Records)

Places ==
  /\ pc \in [Writers -> Labels]
  /\ at \in [Flushers -> FlushLabels]
  /\ active \in Caches /\ target \in Caches
  /\ wq \in Writers \cup Flushers \cup {Nobody}
  /\ fsm \in Flushers \cup {"user", Nobody}

Flags ==
  /\ flushing \in BOOLEAN /\ second \in BOOLEAN /\ user \in BOOLEAN
  /\ force_failed \in BOOLEAN /\ crossed \in BOOLEAN
  /\ lost \subseteq Records /\ garbled \subseteq Records

Counters ==
  /\ notes \in Nat /\ calls \in Nat /\ forced \in Nat /\ opened \in Nat /\ failures \in Nat
  /\ elapsed \in 0..(CounterSize - 1)

Called ==
  /\ arg \in [Writers -> Records \cup {NoRecord}]
  /\ \A w \in Underway : arg[w] \in Genuine

Typing == Storage /\ Places /\ Flags /\ Counters /\ Called

\* The parts are the type invariant.
LEMMA TypesMeet == Typing => TypeOK
<1>. SUFFICES ASSUME Typing PROVE TypeOK
  OBVIOUS
<1>1. /\ queue \in [Caches -> Seq([record : Records, offset : Nat, flushed : BOOLEAN])]
      /\ head \in [Caches -> Nat] /\ files \in [Files -> Seq(Records)] /\ accepted \in Seq(Records)
  BY DEF Typing, Storage, Requests
<1>2. /\ pc \in [Writers -> {"idle", "take", "wait", "delay", "swap", "swapped", "copy",
                         "copy and notify", "notify"}]
      /\ at \in [Flushers -> {"idle", "take", "choose", "write", "empty", "rewind", "flushed", "failed"}]
      /\ active \in Caches /\ target \in Caches
      /\ wq \in Writers \cup Flushers \cup {Nobody}
      /\ fsm \in Flushers \cup {"user", Nobody}
      /\ arg \in [Writers -> Records \cup {NoRecord}]
  BY DEF Typing, Places, Labels, FlushLabels, Called
<1>3. Flags /\ Counters
  BY DEF Typing
<1>. QED BY <1>1, <1>2, <1>3, Zenon DEF TypeOK, Flags, Counters

LEMMA InitTyping == Init => Typing
<1>. SUFFICES ASSUME Init PROVE Typing
  OBVIOUS
<1>1. Storage
  BY EmptySeq DEF Init, Storage
<1>2. Places /\ Called
  BY DEF Init, Places, Labels, FlushLabels, Caches, Flushers, Called, Underway
<1>3. Flags /\ Counters
  <2>1. 0 \in 0..(CounterSize - 1)
    BY WriteCacheAssumption
  <2>. QED BY <2>1 DEF Init, Flags, Counters
<1>. QED BY <1>1, <1>2, <1>3 DEF Typing

\* A copy: it may overwrite requests, and the record may be damaged.
LEMMA CopyIs ==
  ASSUME Storage, Places, Called, NEW w \in Writers, Copy(w), NEW q \in Seq(Requests), q = queue[active]
  PROVE  /\ w \in Underway /\ arg[w] \in Genuine
         /\ \E t \in Seq(Requests), e \in Requests :
              /\ queue' = [queue EXCEPT ![active] = Append(t, e)]
              /\ Spoilt(q, t, garbled')
              /\ ~e.flushed
              /\ e.record = arg[w] \/ (e.record.id = 0 /\ arg[w] \in garbled')
         /\ garbled \subseteq garbled'
         /\ garbled \subseteq Records => garbled' \subseteq Records
<1>1. w \in Underway /\ arg[w] \in Genuine
  BY DEF Copy, Called, Underway
<1>2. PICK x \in Genuine : x = arg[w]
  BY <1>1
<1>3. x \in Records /\ x.file \in Files /\ 0 \in 0..MaxRecords
  BY WriteCacheAssumption DEF Genuine, Records
<1>4. PICK hit : hit = Hit(x)
  OBVIOUS
<1>5. hit \subseteq 1..Len(q)
  BY <1>4, NamesFacts DEF Hit
<1>6. PICK over : over = IF Overruns(x) THEN {x} ELSE {}
  OBVIOUS
<1>7. garbled' = garbled \cup {q[i].record : i \in hit \cap Unflushed(q)} \cup over
  <2>1. garbled' = garbled \cup {queue[active][i].record : i \in Hit(arg[w]) \cap Unflushed(queue[active])}
                           \cup (IF Overruns(arg[w]) THEN {arg[w]} ELSE {})
    BY Zenon DEF Copy
  <2>. QED BY <1>2, <1>4, <1>6, <2>1
<1>8. PICK name \in [hit -> Files], flag \in [hit -> BOOLEAN],
           y \in {x} \cup (IF Overruns(x) THEN {Damaged(x, x.file)} ELSE {}) :
        queue' = [queue EXCEPT ![active] =
                    Append(Overwritten(q, hit, name, flag),
                           [record |-> y, offset |-> head[active], flushed |-> FALSE])]
  <2>1. PICK name \in [Hit(arg[w]) -> Files], flag \in [Hit(arg[w]) -> BOOLEAN],
           y \in {arg[w]} \cup (IF Overruns(arg[w]) THEN {Damaged(arg[w], arg[w].file)} ELSE {}) :
          queue' = [queue EXCEPT ![active] =
                      Append(Overwritten(queue[active], Hit(arg[w]), name, flag),
                             [record |-> y, offset |-> head[active], flushed |-> FALSE])]
    BY Zenon DEF Copy
  <2>2. name \in [hit -> Files] /\ flag \in [hit -> BOOLEAN]
        /\ y \in {x} \cup (IF Overruns(x) THEN {Damaged(x, x.file)} ELSE {})
    BY <1>2, <1>4
  <2>3. queue' = [queue EXCEPT ![active] =
                    Append(Overwritten(q, hit, name, flag),
                           [record |-> y, offset |-> head[active], flushed |-> FALSE])]
    BY <1>2, <1>4, <2>1
  <2>. QED BY <2>2, <2>3
<1>9. \A r \in Records : \A f \in Files : Damaged(r, f) \in Records /\ Damaged(r, f).id = 0
  BY <1>3 DEF Damaged, Records
<1>10. PICK t : t = Overwritten(q, hit, name, flag)
  OBVIOUS
<1>11. /\ DOMAIN t = 1..Len(q)
       /\ \A i \in 1..Len(q) : t[i] = IF i \in hit
                                      THEN [record |-> Damaged(q[i].record, name[i]),
                                            offset |-> q[i].offset, flushed |-> flag[i]]
                                      ELSE q[i]
       /\ t = [i \in 1..Len(q) |-> t[i]]
  BY <1>10, NamesFacts DEF Overwritten
<1>12. \A i \in 1..Len(q) : t[i] \in Requests /\ (i \notin hit => t[i] = q[i])
                            /\ (i \in hit => t[i].record.id = 0)
  <2>. SUFFICES ASSUME NEW i \in 1..Len(q)
                PROVE  /\ t[i] \in Requests /\ (i \notin hit => t[i] = q[i])
                       /\ (i \in hit => t[i].record.id = 0)
    OBVIOUS
  <2>1. CASE i \in hit
    <3>1. q[i].record \in Records /\ q[i].offset \in Nat
      BY NamesFacts DEF Requests
    <3>2. name[i] \in Files /\ flag[i] \in BOOLEAN
      BY <2>1
    <3>3. PICK d \in Records : d = Damaged(q[i].record, name[i]) /\ d.id = 0
      BY <1>9, <3>1, <3>2
    <3>4. t[i] = [record |-> d, offset |-> q[i].offset, flushed |-> flag[i]]
      BY <1>11, <2>1, <3>3
    <3>5. t[i] \in Requests /\ t[i].record = d
      BY <3>1, <3>2, <3>3, <3>4 DEF Requests
    <3>. QED BY <2>1, <3>3, <3>5
  <2>2. CASE i \notin hit
    BY <1>11, <2>2, NamesFacts
  <2>. QED BY <2>1, <2>2
<1>13. t \in Seq(Requests) /\ Len(t) = Len(q)
  <2>1. Len(q) \in Nat /\ \A i \in 1..Len(q) : t[i] \in Requests
    BY <1>12, NamesFacts
  <2>2. t \in [1..Len(q) -> Requests]
    BY <1>11, <2>1
  <2>. QED BY <1>11, <2>1, <2>2
<1>14. Spoilt(q, t, garbled')
  <2>1. \A i \in hit : i \in Unflushed(q) => q[i].record \in garbled'
    BY <1>7
  <2>. QED BY <1>12, <1>13, <2>1 DEF Spoilt
<1>15. PICK e : e = [record |-> y, offset |-> head[active], flushed |-> FALSE]
  OBVIOUS
<1>16. y \in Records /\ (y = x \/ (y.id = 0 /\ x \in garbled'))
  <2>1. CASE Overruns(x)
    <3>1. y \in {x, Damaged(x, x.file)} /\ x \in garbled'
      BY <1>6, <1>7, <2>1
    <3>. QED BY <1>3, <1>9, <3>1
  <2>2. CASE ~Overruns(x)
    BY <1>3, <2>2
  <2>. QED BY <2>1, <2>2
<1>17. e \in Requests /\ e.record = y /\ ~e.flushed
  BY <1>15, <1>16 DEF Requests, Storage, Places
<1>18. garbled \subseteq Records => garbled' \subseteq Records
  BY <1>3, <1>5, <1>6, <1>7, NamesFacts
<1>. QED BY <1>1, <1>2, <1>7, <1>8, <1>10, <1>13, <1>14, <1>15, <1>16, <1>17, <1>18

\* One lemma for the steps of each of those who take part.
LEMMA WriterTyping ==
  ASSUME Typing, NEW w \in Writers, Writer(w)
  PROVE  Typing'
<1>. Storage /\ Places /\ Flags /\ Counters /\ Called
  BY DEF Typing
<1>1. Flags'
  <2>1. flush' = flush /\ using' = using /\ flushing' = flushing /\ crossed' \in BOOLEAN
    BY DEF Writer, Call, Take, TakeTimeout, Waited, Delay, DelayEnds, Swap, CheckOther, Copy,
       Notify, enqueuing, Flags
  <2>2. garbled' \subseteq Records
    <3>1. CASE Copy(w)
      <4>1. PICK q \in Seq(Requests) : q = queue[active]
        BY DEF Storage, Places
      <4>. QED BY <3>1, <4>1, CopyIs DEF Flags
    <3>2. CASE ~Copy(w)
      BY <3>2 DEF Writer, Call, Take, TakeTimeout, Waited, Delay, DelayEnds, Swap, CheckOther, Notify,
         enqueuing, Flags
    <3>. QED BY <3>1, <3>2
  <2>. QED BY <2>1, <2>2 DEF Flags, flush, using
<1>2. Counters'
  <2>1. /\ flush' = flush /\ using' = using /\ elapsed' = elapsed
        /\ calls' \in {calls, calls + 1} /\ notes' \in {notes, notes + 1}
    BY DEF Writer, Call, Take, TakeTimeout, Waited, Delay, DelayEnds, Swap, CheckOther, Copy,
       Notify
  <2>. QED BY <2>1 DEF Counters, flush, using
<1>3. Places'
  <2>1. flush' = flush /\ fsm' = fsm
    BY DEF Writer, Call, Take, TakeTimeout, Waited, Delay, DelayEnds, Swap, CheckOther, Copy,
       Notify, mutexes
  <2>2. \E label \in Labels : pc' = [pc EXCEPT ![w] = label]
    BY DEF Writer, Call, Take, TakeTimeout, Waited, Delay, DelayEnds, Swap, CheckOther, Copy,
       Notify, Goto, Labels
  <2>3. active' \in {active, Other(active)} /\ wq' \in {wq, w, Nobody}
    BY DEF Writer, Call, Take, TakeTimeout, Waited, Delay, DelayEnds, Swap, CheckOther, Copy,
       Notify, caches, mutexes
  <2>. QED BY <2>1, <2>2, <2>3 DEF Places, flush, Caches, Other
<1>4. CASE Call(w)
  <2>1. PICK r \in Genuine : /\ arg' = [arg EXCEPT ![w] = r]
                             /\ pc' = [pc EXCEPT ![w] = IF Size(r) > CacheSize THEN "idle" ELSE "take"]
    <3>1. PICK r \in Records : /\ r.id = calls + 1 /\ arg' = [arg EXCEPT ![w] = r]
                               /\ pc' = [pc EXCEPT ![w] = IF Size(r) > CacheSize THEN "idle" ELSE "take"]
      BY <1>4 DEF Call, Goto
    <3>2. r \in Genuine
      BY <3>1 DEF Genuine, Counters
    <3>. QED BY <3>1, <3>2
  <2>2. Called'
    BY <2>1 DEF Called, Places, Underway, Genuine
  <2>3. Storage'
    BY <1>4 DEF Call, Storage, caches
  <2>. QED BY <1>1, <1>2, <1>3, <2>2, <2>3 DEF Typing
<1>5. CASE Copy(w)
  <2>1. PICK q \in Seq(Requests) : q = queue[active]
    BY DEF Storage, Places
  <2>2. PICK r \in Genuine : r = arg[w]
    BY <1>5, <2>1, CopyIs
  <2>3. PICK t \in Seq(Requests), e \in Requests : queue' = [queue EXCEPT ![active] = Append(t, e)]
    BY <1>5, <2>1, CopyIs
  <2>4. Append(t, e) \in Seq(Requests)
    BY <2>3, AppendProperties
  <2>6. Size(r) \in Nat
    BY WriteCacheAssumption DEF Genuine, Records, Size
  <2>7. head' \in [Caches -> Nat]
    <3>1. PICK n \in Nat : n = Size(r)
      BY <2>6
    <3>2. head' = [head EXCEPT ![active] = head[active] + n]
      BY <1>5, <2>2, <3>1 DEF Copy
    <3>3. head[active] + n \in Nat /\ head \in [Caches -> Nat]
      BY DEF Storage, Places
    <3>. QED BY <3>2, <3>3
  <2>8. accepted' \in Seq(Records)
    BY <1>5, <2>2, AppendProperties DEF Copy, Storage, Genuine
  <2>9. Called'
    BY <1>5 DEF Copy, Called, Places, Underway, Goto
  <2>10. Storage'
    BY <1>5, <2>3, <2>4, <2>7, <2>8 DEF Copy, Storage
  <2>. QED BY <1>1, <1>2, <1>3, <2>9, <2>10 DEF Typing
<1>6. CASE \/ Take(w) \/ TakeTimeout(w) \/ Waited(w) \/ Delay(w) \/ DelayEnds(w)
           \/ Swap(w) \/ CheckOther(w) \/ Notify(w)
  <2>1. queue' = queue /\ head' = head /\ arg' = arg /\ accepted' = accepted /\ files' = files
    BY <1>6 DEF Take, TakeTimeout, Waited, Delay, DelayEnds, Swap, CheckOther, Notify, caches
  <2>2. Underway' \subseteq Underway
    BY <1>6 DEF Take, TakeTimeout, Waited, Delay, DelayEnds, Swap, CheckOther, Notify, Goto,
       Places, Underway
  <2>3. Called' /\ Storage'
    BY <2>1, <2>2 DEF Storage, Called
  <2>. QED BY <1>1, <1>2, <1>3, <2>3 DEF Typing
<1>. QED BY <1>4, <1>5, <1>6 DEF Writer

\* A failed flush, by which requests are flagged and which are stored: only the first of the
\* batch may be stored without being flagged.
LEMMA FailFileIs ==
  ASSUME NEW p \in Flushers, FailFile(p), NEW q \in Seq(Requests), q = queue[target]
  PROVE  \E flagged, kept \in SUBSET Batch(q) :
           /\ kept = {} \/ (flagged \subseteq kept /\ kept \ flagged \subseteq {First(Batch(q))})
           /\ Store(kept)
           /\ queue' = [queue EXCEPT ![target] = Flag(q, flagged)]
           /\ lost' = lost \cup {q[i].record : i \in flagged \ kept}
<1>. DEFINE S == Batch(q)
            F(n) == IF n = Cardinality(S) THEN S ELSE Prefix(S, n) \ {First(S)}
<1>1. PICK n \in 0..Cardinality(S) : \E kept \in {{}, Prefix(S, n)} : Leave(F(n), kept)
  BY Zenon DEF FailFile
<1>2. PICK flagged : flagged = F(n)
  OBVIOUS
<1>3. PICK kept \in {{}, Prefix(S, n)} : Leave(flagged, kept)
  BY <1>1, <1>2
<1>4. IsFiniteSet(S)
  <2>1. S \subseteq 1..Len(q) /\ Len(q) \in Nat
    BY UnflushedFacts, NamesFacts DEF Batch
  <2>2. IsFiniteSet(1..Len(q))
    BY <2>1, FS_Interval
  <2>. QED BY <2>1, <2>2, FS_Subset
<1>5. Prefix(S, n) \subseteq S
  BY DEF Prefix
<1>6. n = Cardinality(S) => Prefix(S, n) = S
  <2>1. ASSUME NEW i \in S PROVE Cardinality({j \in S : j <= i}) <= Cardinality(S)
    BY <1>4, FS_Subset
  <2>. QED BY <2>1 DEF Prefix
<1>7. flagged \in SUBSET S /\ kept \in SUBSET S
  BY <1>2, <1>3, <1>5
<1>8. kept = {} \/ (flagged \subseteq kept /\ kept \ flagged \subseteq {First(S)})
  BY <1>2, <1>3, <1>6
<1>9. /\ Store(kept)
      /\ queue' = [queue EXCEPT ![target] = Flag(q, flagged)]
      /\ lost' = lost \cup {q[i].record : i \in flagged \ kept}
  BY <1>3, Zenon DEF Leave
<1>. HIDE DEF S
<1>. QED BY <1>7, <1>8, <1>9, Zenon DEF S

LEMMA FlushTyping ==
  ASSUME Typing, NEW p \in Flushers, Flush(p)
  PROVE  Typing'
<1>. Storage /\ Places /\ Flags /\ Counters /\ Called
  BY DEF Typing
<1>1. Flags' /\ Called'
  <2>1. /\ flushing' = flushing /\ enqueuing' = enqueuing /\ second' = second /\ force_failed' = force_failed
        /\ user' = user
    BY DEF Flush, Choose, WriteFile, FailFile, LoopEnds, Empty, Rewind, flush, using
  <2>2. lost' \subseteq Records
    <3>1. CASE FailFile(p)
      <4>1. PICK q \in Seq(Requests) : q = queue[target]
        BY DEF Storage, Places
      <4>2. Batch(q) \subseteq 1..Len(q)
        BY UnflushedFacts DEF Batch
      <4>3. \E S : S \subseteq Batch(q) /\ lost' = lost \cup {q[i].record : i \in S}
        BY <3>1, <4>1, FailFileIs
      <4>. QED BY <4>2, <4>3, NamesFacts DEF Flags
    <3>2. CASE ~FailFile(p)
      BY <3>2 DEF Flush, Choose, WriteFile, LoopEnds, Empty, Rewind, using, Flags
    <3>. QED BY <3>1, <3>2
  <2>. QED BY <2>1, <2>2 DEF Flags, enqueuing, Called, Underway
<1>2. Counters'
  <2>1. /\ notes' = notes /\ elapsed' = elapsed /\ enqueuing' = enqueuing /\ forced' = forced
        /\ opened' = opened /\ failures' \in {failures, failures + 1}
    BY DEF Flush, Choose, WriteFile, FailFile, LoopEnds, Empty, Rewind, flush, using
  <2>. QED BY <2>1 DEF Counters, enqueuing
<1>3. Places'
  <2>1. /\ pc' = pc /\ active' = active /\ wq' = wq /\ fsm' = fsm
    BY DEF Flush, Choose, WriteFile, FailFile, LoopEnds, Empty, Rewind, caches, enqueuing, mutexes
  <2>2. target' \in {target, Other(active)}
    BY DEF Flush, Choose, WriteFile, FailFile, LoopEnds, Empty, Rewind, flush
  <2>3. at' = at \/ \E label \in FlushLabels : at' = [at EXCEPT ![p] = label]
    BY DEF Flush, Choose, WriteFile, FailFile, LoopEnds, Empty, Rewind, flush, FlushLabels
  <2>. QED BY <2>1, <2>2, <2>3 DEF Places, Caches, Other
<1>4. head' \in [Caches -> Nat] /\ accepted' \in Seq(Records)
  <2>1. (head' = head \/ head' = [head EXCEPT ![target] = 0]) /\ accepted' = accepted
    BY DEF Flush, Choose, WriteFile, FailFile, LoopEnds, Empty, Rewind, caches, enqueuing
  <2>. QED BY <2>1 DEF Storage
<1>5. queue \in [Caches -> Seq(Requests)] /\ target \in Caches /\ files \in [Files -> Seq(Records)]
  BY DEF Storage, Places
<1>6. queue' \in [Caches -> Seq(Requests)] /\ files' \in [Files -> Seq(Records)]
  <2>1. CASE UNCHANGED <<queue, files>>
    BY <1>5, <2>1
  <2>2. CASE Empty(p)
    BY <1>5, <2>2, EmptySeq DEF Empty
  <2>3. CASE WriteFile(p) \/ FailFile(p)
    <3>1. \E S, T : Store(S) /\ queue' = [queue EXCEPT ![target] = Flag(queue[target], T)]
      <4>1. CASE WriteFile(p)
        BY <1>5, <4>1 DEF WriteFile
      <4>2. CASE FailFile(p)
        BY <1>5, <4>2, FailFileIs
      <4>. QED BY <2>3, <4>1, <4>2
    <3>2. PICK S, T : Store(S) /\ queue' = [queue EXCEPT ![target] = Flag(queue[target], T)]
      BY <3>1
    <3>3. PICK q \in Seq(Requests) : q = queue[target]
      BY <1>5
    <3>4. PICK n \in Seq(Records) : n = RecordsOf(q, S)
      BY NamesFacts
    <3>5. PICK f \in Files : f = q[First(Unflushed(q))].record.file
      BY <2>3, <3>3, UnflushedFacts DEF WriteFile, FailFile
    <3>6. files' = [files EXCEPT ![f] = files[f] \o n]
      BY <1>5, <3>2, <3>3, <3>4, <3>5 DEF Store
    <3>7. files[f] \o n \in Seq(Records)
      BY <1>5, ConcatProperties
    <3>8. Flag(q, T) \in Seq(Requests)
      BY FlagFacts
    <3>9. queue' = [queue EXCEPT ![target] = Flag(q, T)]
      BY <3>2, <3>3
    <3>. QED BY <1>5, <3>6, <3>7, <3>8, <3>9
  <2>. QED BY <2>1, <2>2, <2>3 DEF Flush, Choose, LoopEnds, Rewind, caches
<1>. QED BY <1>1, <1>2, <1>3, <1>4, <1>6 DEF Typing, Storage

\* elapsed_period stays a uint16_t.
LEMMA TickTyping ==
  ASSUME NEW n \in Nat, Tick(n)
  PROVE  elapsed' \in 0..(CounterSize - 1)
<1>1. n + PollPeriod \in Int /\ CounterSize \in Nat \ {0}
  BY WriteCacheAssumption
<1>. QED BY <1>1 DEF Tick

LEMMA TaskTyping ==
  ASSUME Typing, Task
  PROVE  Typing'
<1>. Storage /\ Places /\ Flags /\ Counters /\ Called
  BY DEF Typing
<1>3. CASE Flush("task")
  BY <1>3, FlushTyping DEF Flushers
<1>4. CASE PollQuiet \/ PollFlush \/ PollBusy \/ FlushEnds
  <2>1. Storage' /\ Called'
    BY <1>4 DEF PollQuiet, PollFlush, PollBusy, FlushEnds, caches, enqueuing, Storage, Called,
       Underway
  <2>2. Flags'
    BY <1>4 DEF PollQuiet, PollFlush, PollBusy, FlushEnds, enqueuing, flush, using, Flags
  <2>3. Places'
    <3>1. \/ at' = at
          \/ \E label \in {"idle", "choose"} : at' = [at EXCEPT !["task"] = label]
      BY <1>4 DEF PollQuiet, PollFlush, PollBusy, FlushEnds, flush
    <3>2. at' \in [Flushers -> FlushLabels]
      BY <3>1 DEF Places, FlushLabels
    <3>3. active' = active /\ target' = target /\ wq' = wq /\ fsm' \in {fsm, "task", Nobody} /\ pc' = pc
      BY <1>4 DEF PollQuiet, PollFlush, PollBusy, FlushEnds, caches, enqueuing, flush, mutexes
    <3>. QED BY <3>2, <3>3 DEF Places, Flushers
  <2>4. Counters'
    <3>1. elapsed \in Nat /\ notes \in Nat
      <4>1. elapsed \in 0..(CounterSize - 1)
        BY DEF Counters
      <4>. QED BY <4>1 DEF Counters
    <3>2. calls' = calls /\ forced' = forced /\ opened' = opened /\ failures' = failures
      BY <1>4 DEF PollQuiet, PollFlush, PollBusy, FlushEnds, enqueuing, flush, using
    <3>3. elapsed' = elapsed \/ \E n \in Nat : Tick(n)
      BY <1>4, <3>1 DEF PollQuiet, PollFlush, PollBusy, FlushEnds
    <3>4. elapsed' \in 0..(CounterSize - 1)
      BY <3>3, TickTyping DEF Counters
    <3>5. notes' \in Nat
      BY <1>4, <3>1 DEF PollQuiet, PollFlush, PollBusy, FlushEnds, NotesTaken
    <3>. QED BY <3>2, <3>4, <3>5 DEF Counters
  <2>. QED BY <2>1, <2>2, <2>3, <2>4 DEF Typing
<1>. QED BY <1>3, <1>4 DEF Task

LEMMA ForceTyping ==
  ASSUME Typing, ForceFlush
  PROVE  Typing'
<1>. Storage /\ Places /\ Flags /\ Counters /\ Called
  BY DEF Typing
<1>1. CASE Flush("force")
  BY <1>1, FlushTyping DEF Flushers
<1>2. CASE ForceTake \/ ForceTakeQueue \/ ForceTimeout \/ ForceSwap \/ ForceEnds
  <2>1. /\ queue' = queue /\ head' = head /\ flushing' = flushing /\ notes' = notes /\ elapsed' = elapsed
        /\ enqueuing' = enqueuing /\ target' = target /\ using' = using /\ files' = files
    BY <1>2 DEF ForceTake, ForceTakeQueue, ForceTimeout, ForceSwap, ForceEnds, caches
  <2>2. Storage' /\ Called'
    BY <2>1 DEF Storage, Called, Underway, enqueuing
  <2>3. at' \in [Flushers -> FlushLabels]
    <3>1. \E label \in {"idle", "take", "choose"} : at' = [at EXCEPT !["force"] = label]
      BY <1>2 DEF ForceTake, ForceTakeQueue, ForceTimeout, ForceSwap, ForceEnds
    <3>. QED BY <3>1 DEF Places, FlushLabels
  <2>4. /\ active' \in {active, Other(active)}
        /\ wq' \in {wq, "force", Nobody} /\ fsm' \in {fsm, "force", Nobody}
    BY <1>2 DEF ForceTake, ForceTakeQueue, ForceTimeout, ForceSwap, ForceEnds, caches, mutexes
  <2>5. Places'
    BY <2>1, <2>3, <2>4 DEF Places, enqueuing, Caches, Other, Flushers
  <2>6. second' \in BOOLEAN /\ force_failed' \in BOOLEAN /\ forced' \in {forced, forced + 1}
    BY <1>2 DEF ForceTake, ForceTakeQueue, ForceTimeout, ForceSwap, ForceEnds, Flags
  <2>7. Flags' /\ Counters'
    BY <2>1, <2>6 DEF Flags, Counters, enqueuing, using
  <2>. QED BY <2>2, <2>5, <2>7 DEF Typing
<1>. QED BY <1>1, <1>2 DEF ForceFlush

LEMMA UserTyping ==
  ASSUME Typing, User
  PROVE  Typing'
<1>. Storage /\ Places /\ Flags /\ Counters /\ Called
  BY DEF Typing
<1>1. Storage' /\ Called' /\ Flags'
  BY DEF User, Open, Close, caches, enqueuing, flush, Storage, Called, Underway, Flags
<1>2. Places' /\ Counters'
  BY DEF User, Open, Close, caches, enqueuing, flush, using, Places, Counters
<1>. QED BY <1>1, <1>2 DEF Typing

\* Every variable has a value of its type, in parts,
THEOREM TypingCorrect == Spec => []Typing
<1>1. Typing /\ [Next]_vars => Typing'
  <2>. SUFFICES ASSUME Typing, [Next]_vars PROVE Typing'
    OBVIOUS
  <2>1. CASE UNCHANGED vars
    BY <2>1 DEF vars, Typing, Storage, Places, Flags, Counters, Called, Underway
  <2>2. CASE Next
    BY <2>2, WriterTyping, TaskTyping, ForceTyping, UserTyping DEF Next
  <2>. QED BY <2>1, <2>2
<1>. QED BY InitTyping, <1>1, PTL DEF Spec

\* and as the type invariant says it: elapsed_period wraps at its width, arguments are records.
THEOREM TypeCorrect == Spec => []TypeOK
BY TypingCorrect, TypesMeet, PTL

----------------------------------------------------------------------------
\* Two facts about sequences, of records.
LEMMA RecordsAppend ==
  \A s, t \in Seq(Records) : \A e \in Records : Append(s \o t, e) = s \o Append(t, e)
<1>. TAKE s, t \in Seq(Records)
<1>. TAKE e \in Records
<1>0. <<e>> \in Seq(Records)
  OBVIOUS
<1>1. PICK u \in Seq(Records) : u = <<e>>
  BY <1>0
<1>2. s \o t \in Seq(Records)
  BY ConcatProperties
<1>3. Append(t, e) = t \o u /\ Append(s \o t, e) = (s \o t) \o u
  BY <1>1, <1>2, AppendIsConcat
<1>4. (s \o t) \o u = s \o (t \o u)
  BY ConcatAssociative
<1>. QED BY <1>3, <1>4

LEMMA RecordsOnly ==
  ASSUME NEW s \in Seq(Records), NEW t \in Seq(Records), NEW S
  PROVE  Only(s \o t, S) = Only(s, S) \o Only(t, S)
BY OnlyConcat

\* The copies of a record in its file and among the requests of two caches that are not flushed.
Copies(fs, a, b, r) == Times(fs[r.file], r) + Times(Rest(a), r) + Times(Rest(b), r)

\* The order of the accepted records, but those that are gone: those in a file, then those of a,
\* then those of b.
Line(fs, a, b, f) == fs[f] \o OfFile(Rest(a), f) \o OfFile(Rest(b), f)
Sure(gone) == {r \in Records : r.id # 0 /\ r \notin gone}
OrderedIn(fs, a, b, acc, gone) ==
  \A f \in Files : Only(OfFile(acc, f), Sure(gone)) = Only(Line(fs, a, b, f), Sure(gone))

\* The types of what the properties take out of a sequence.
LEMMA SelectionTypes ==
  ASSUME NEW s \in Seq(Records)
  PROVE  /\ \A r : Only(s, {r}) \in Seq(Records) /\ Times(s, r) \in Nat
         /\ \A f : OfFile(s, f) \in Seq(Records)
<1>1. \A S : Only(s, S) \in Seq(Records)
  BY OnlyFacts
<1>2. \A t \in Seq(Records) : Len(t) \in Nat
  BY LenProperties
<1>. QED BY <1>1, <1>2 DEF Times, OfFile

LEMMA CopiesFacts ==
  ASSUME NEW fs \in [Files -> Seq(Records)], NEW a \in Seq(Requests), NEW b \in Seq(Requests),
         NEW r \in Records
  PROVE  /\ fs[r.file] \in Seq(Records) /\ Rest(a) \in Seq(Records) /\ Rest(b) \in Seq(Records)
         /\ Times(fs[r.file], r) \in Nat /\ Times(Rest(a), r) \in Nat /\ Times(Rest(b), r) \in Nat
         /\ Copies(fs, a, b, r) \in Nat
         /\ Copies(fs, b, a, r) = Copies(fs, a, b, r)
<1>1. fs[r.file] \in Seq(Records) /\ Rest(a) \in Seq(Records) /\ Rest(b) \in Seq(Records)
  BY UnflushedFacts DEF Records
<1>2. Times(fs[r.file], r) \in Nat /\ Times(Rest(a), r) \in Nat /\ Times(Rest(b), r) \in Nat
  BY <1>1, SelectionTypes
<1>. QED BY <1>1, <1>2 DEF Copies

\* A cache that is empty may come before or after the other one.
LEMMA OrderedSides ==
  ASSUME NEW fs \in [Files -> Seq(Records)], NEW a \in Seq(Requests), NEW b \in Seq(Requests),
         NEW acc, NEW gone, Unflushed(a) = {}
  PROVE  OrderedIn(fs, a, b, acc, gone) <=> OrderedIn(fs, b, a, acc, gone)
<1>1. Rest(a) = <<>> /\ Rest(b) \in Seq(Records)
  BY UnflushedFacts
<1>2. ASSUME NEW f \in Files
      PROVE  Line(fs, a, b, f) = Line(fs, b, a, f)
  <2>1. OfFile(Rest(a), f) = <<>>
    BY <1>1, OnlyEmpty DEF OfFile
  <2>2. PICK x \in Seq(Records) : x = fs[f]
    OBVIOUS
  <2>3. PICK y \in Seq(Records) : y = OfFile(Rest(b), f)
    BY <1>1, SelectionTypes
  <2>4. (x \o <<>>) \o y = x \o y /\ (x \o y) \o <<>> = x \o y
    <3>1. x \o y \in Seq(Records)
      BY ConcatProperties
    <3>. QED BY <3>1, ConcatEmptySeq
  <2>. QED BY <2>1, <2>2, <2>3, <2>4 DEF Line
<1>. QED BY <1>2 DEF OrderedIn

\* A new record is copied.
LEMMA CopiesCopied ==
  ASSUME NEW fs \in [Files -> Seq(Records)], NEW a \in Seq(Requests), NEW b \in Seq(Requests),
         NEW e \in Requests, ~e.flushed, NEW r \in Records
  PROVE  Copies(fs, Append(a, e), b, r) = Copies(fs, a, b, r) + (IF r = e.record THEN 1 ELSE 0)
<1>1. PICK x \in Records : x = e.record
  BY DEF Requests
<1>2. PICK s \in Seq(Records) : s = Rest(a)
  BY UnflushedFacts
<1>3. Rest(Append(a, e)) = Append(s, x)
  BY <1>1, <1>2, RestAppend
<1>4. Times(Append(s, x), r) = IF r = x THEN Times(s, r) + 1 ELSE Times(s, r)
  <2>1. Only(Append(s, x), {r}) = IF x \in {r} THEN Append(Only(s, {r}), x) ELSE Only(s, {r})
    BY OnlyAppend
  <2>2. Only(s, {r}) \in Seq(Records)
    BY SelectionTypes
  <2>3. Len(Append(Only(s, {r}), x)) = Len(Only(s, {r})) + 1
    BY <2>2, AppendProperties
  <2>. QED BY <2>1, <2>3 DEF Times
<1>5. Times(fs[r.file], r) \in Nat /\ Times(s, r) \in Nat /\ Times(Rest(b), r) \in Nat
  BY <1>2, CopiesFacts
<1>. QED BY <1>1, <1>2, <1>3, <1>4, <1>5 DEF Copies

LEMMA LineTypes ==
  ASSUME NEW fs \in [Files -> Seq(Records)], NEW a \in Seq(Requests), NEW b \in Seq(Requests),
         NEW f \in Files
  PROVE  /\ Line(fs, a, b, f) \in Seq(Records)
         /\ fs[f] \o OfFile(Rest(a), f) \in Seq(Records) /\ OfFile(Rest(b), f) \in Seq(Records)
<1>1. fs[f] \in Seq(Records) /\ OfFile(Rest(a), f) \in Seq(Records) /\ OfFile(Rest(b), f) \in Seq(Records)
  BY UnflushedFacts, SelectionTypes
<1>2. PICK p \in Seq(Records) : p = fs[f] \o OfFile(Rest(a), f)
  BY <1>1, ConcatProperties
<1>3. PICK t \in Seq(Records) : t = OfFile(Rest(b), f)
  BY <1>1
<1>4. p \o t \in Seq(Records)
  BY ConcatProperties
<1>. QED BY <1>2, <1>3, <1>4 DEF Line

LEMMA LineOnly ==
  ASSUME NEW fs \in [Files -> Seq(Records)], NEW a \in Seq(Requests), NEW S, NEW f \in Files
  PROVE  \A b \in Seq(Requests) :
           Only(Line(fs, a, b, f), S) =
             Only(fs[f] \o OfFile(Rest(a), f), S) \o Only(OfFile(Rest(b), f), S)
<1>. TAKE b \in Seq(Requests)
<1>1. PICK p \in Seq(Records) : p = fs[f] \o OfFile(Rest(a), f)
  BY LineTypes
<1>2. PICK t \in Seq(Records) : t = OfFile(Rest(b), f)
  BY LineTypes
<1>3. Only(p \o t, S) = Only(p, S) \o Only(t, S)
  BY RecordsOnly
<1>4. Line(fs, a, b, f) = p \o t
  BY <1>1, <1>2 DEF Line
<1>. QED BY <1>1, <1>2, <1>3, <1>4

LEMMA LineSame ==
  ASSUME NEW fs \in [Files -> Seq(Records)], NEW a \in Seq(Requests), NEW S, NEW f \in Files,
         NEW b \in Seq(Requests), NEW t \in Seq(Requests),
         Only(OfFile(Rest(t), f), S) = Only(OfFile(Rest(b), f), S)
  PROVE  Only(Line(fs, a, t, f), S) = Only(Line(fs, a, b, f), S)
<1>1. PICK p \in Seq(Records) : p = fs[f] \o OfFile(Rest(a), f)
  BY LineTypes
<1>2. PICK x \in Seq(Records), y \in Seq(Records) : x = OfFile(Rest(b), f) /\ y = OfFile(Rest(t), f)
  BY LineTypes
<1>3. Only(p \o x, S) = Only(p, S) \o Only(x, S) /\ Only(p \o y, S) = Only(p, S) \o Only(y, S)
  BY RecordsOnly
<1>4. Line(fs, a, b, f) = p \o x /\ Line(fs, a, t, f) = p \o y
  BY <1>1, <1>2 DEF Line
<1>. QED BY <1>2, <1>3, <1>4

\* Some records of b are overwritten, and are gone: the order of the others is what it was.
LEMMA OrderedSpoilt ==
  ASSUME NEW fs \in [Files -> Seq(Records)], NEW a \in Seq(Requests), NEW b \in Seq(Requests),
         NEW t \in Seq(Requests), NEW acc \in Seq(Records), NEW old, NEW gone, old \subseteq gone,
         Spoilt(b, t, gone), OrderedIn(fs, a, b, acc, old)
  PROVE  OrderedIn(fs, a, t, acc, gone)
<1>. SUFFICES ASSUME NEW f \in Files
              PROVE  Only(OfFile(acc, f), Sure(gone)) = Only(Line(fs, a, t, f), Sure(gone))
  BY DEF OrderedIn
<1>1. PICK S, T : S = Sure(gone) /\ T = Sure(old)
  OBVIOUS
<1>2. S \subseteq T /\ \A r \in S : r.id # 0 /\ r \notin gone
  BY <1>1 DEF Sure
<1>3. ASSUME NEW s \in Seq(Records) PROVE Only(Only(s, T), S) = Only(s, S)
  <2>1. PICK I : I = {i \in DOMAIN s : s[i] \in T}
    OBVIOUS
  <2>2. Only(s, T) = Picked(s, I)
    BY <2>1 DEF Only
  <2>3. Only(Picked(s, I), S) = Picked(s, {i \in DOMAIN s : i \in I /\ s[i] \in S})
    BY OnlyPicked
  <2>4. {i \in DOMAIN s : i \in I /\ s[i] \in S} = {i \in DOMAIN s : s[i] \in S}
    BY <1>2, <2>1
  <2>. QED BY <2>2, <2>3, <2>4 DEF Only
<1>4. Only(OfFile(acc, f), T) = Only(Line(fs, a, b, f), T)
  BY <1>1 DEF OrderedIn
<1>5. OfFile(acc, f) \in Seq(Records) /\ Line(fs, a, b, f) \in Seq(Records)
  BY SelectionTypes, LineTypes
<1>6. Only(OfFile(acc, f), S) = Only(Line(fs, a, b, f), S)
  BY <1>3, <1>4, <1>5
<1>7. ASSUME NEW q \in Seq(Requests)
      PROVE  Only(OfFile(Rest(q), f), S) = Only(Rest(q), S \cap {r \in Records : r.file = f})
  <2>1. PICK F : F = {r \in Records : r.file = f}
    OBVIOUS
  <2>2. PICK s \in Seq(Records) : s = Rest(q)
    BY UnflushedFacts
  <2>3. PICK I : I = {i \in DOMAIN s : s[i] \in F}
    OBVIOUS
  <2>4. Only(s, F) = Picked(s, I)
    BY <2>3 DEF Only
  <2>5. Only(Picked(s, I), S) = Picked(s, {i \in DOMAIN s : i \in I /\ s[i] \in S})
    BY OnlyPicked
  <2>6. {i \in DOMAIN s : i \in I /\ s[i] \in S} = {i \in DOMAIN s : s[i] \in S \cap F}
    BY <2>3
  <2>7. Only(Only(s, F), S) = Only(s, S \cap F)
    BY <2>4, <2>5, <2>6 DEF Only
  <2>. QED BY <2>1, <2>2, <2>7 DEF OfFile
<1>8. Only(Rest(t), S \cap {r \in Records : r.file = f}) = Only(Rest(b), S \cap {r \in Records : r.file = f})
  <2>1. PICK G : G = S \cap {r \in Records : r.file = f}
    OBVIOUS
  <2>2. \A r \in G : r.id # 0 /\ r \notin gone
    BY <1>2, <2>1
  <2>. QED BY <2>1, <2>2, SpoiltRest
<1>9. Only(OfFile(Rest(t), f), S) = Only(OfFile(Rest(b), f), S)
  BY <1>7, <1>8
<1>10. Only(Line(fs, a, t, f), S) = Only(Line(fs, a, b, f), S)
  BY <1>9, LineSame
<1>. QED BY <1>1, <1>6, <1>10

\* The record that is accepted comes last; or what is queued instead is not one of a call.
LEMMA OrderedCopied ==
  ASSUME NEW fs \in [Files -> Seq(Records)], NEW a \in Seq(Requests), NEW b \in Seq(Requests),
         NEW acc \in Seq(Records), NEW e \in Requests, ~e.flushed, NEW gone, NEW x \in Records,
         e.record = x \/ (e.record.id = 0 /\ x \in gone),
         OrderedIn(fs, a, b, acc, gone)
  PROVE  OrderedIn(fs, a, Append(b, e), Append(acc, x), gone)
<1>1. PICK y \in Records : y = e.record
  BY DEF Requests
<1>2. PICK s \in Seq(Records) : s = Rest(b)
  BY UnflushedFacts
<1>3. Rest(Append(b, e)) = Append(s, y) /\ Append(b, e) \in Seq(Requests)
  BY <1>1, <1>2, RestAppend
<1>. SUFFICES ASSUME NEW f \in Files
              PROVE  Only(OfFile(Append(acc, x), f), Sure(gone)) = Only(Line(fs, a, Append(b, e), f), Sure(gone))
  BY DEF OrderedIn
<1>4. PICK S, F : S = Sure(gone) /\ F = {r \in Records : r.file = f}
  OBVIOUS
<1>5. PICK u \in Seq(Records), v \in Seq(Records), p \in Seq(Records) :
        u = OfFile(acc, f) /\ v = OfFile(s, f) /\ p = fs[f] \o OfFile(Rest(a), f)
  BY SelectionTypes, LineTypes
<1>6. ASSUME NEW q \in Seq(Records), NEW r \in Records
      PROVE  Only(OfFile(Append(q, r), f), S) =
               IF r \in F \cap S THEN Append(Only(OfFile(q, f), S), r) ELSE Only(OfFile(q, f), S)
  <2>1. OfFile(Append(q, r), f) = IF r \in F THEN Append(OfFile(q, f), r) ELSE OfFile(q, f)
    <3>1. Only(Append(q, r), F) = IF r \in F THEN Append(Only(q, F), r) ELSE Only(q, F)
      BY OnlyAppend
    <3>. QED BY <1>4, <3>1 DEF OfFile
  <2>2. Only(Append(OfFile(q, f), r), S) =
          IF r \in S THEN Append(Only(OfFile(q, f), S), r) ELSE Only(OfFile(q, f), S)
    BY SelectionTypes, OnlyAppend
  <2>. QED BY <2>1, <2>2
<1>0. \A q \in Seq(Requests) :
        Only(Line(fs, a, q, f), S) =
          Only(fs[f] \o OfFile(Rest(a), f), S) \o Only(OfFile(Rest(q), f), S)
  BY LineOnly
<1>7. Only(Line(fs, a, Append(b, e), f), S) = Only(p, S) \o Only(OfFile(Append(s, y), f), S)
  BY <1>0, <1>3, <1>5
<1>8. Only(u, S) = Only(p, S) \o Only(v, S)
  <2>1. Only(Line(fs, a, b, f), S) = Only(p, S) \o Only(v, S)
    BY <1>0, <1>2, <1>5
  <2>. QED BY <1>4, <1>5, <2>1 DEF OrderedIn
<1>9. Only(OfFile(Append(acc, x), f), S) = IF x \in F \cap S THEN Append(Only(u, S), x) ELSE Only(u, S)
  BY <1>5, <1>6
<1>10. Only(OfFile(Append(s, y), f), S) = IF y \in F \cap S THEN Append(Only(v, S), y) ELSE Only(v, S)
  BY <1>5, <1>6
<1>11. (x \in F \cap S \/ y \in F \cap S) => x = y
  BY <1>1, <1>4 DEF Sure
<1>12. Append(Only(p, S) \o Only(v, S), x) = Only(p, S) \o Append(Only(v, S), x)
  <2>1. PICK c \in Seq(Records), d \in Seq(Records) : c = Only(p, S) /\ d = Only(v, S)
    BY OnlyFacts
  <2>2. Append(c \o d, x) = c \o Append(d, x)
    BY RecordsAppend
  <2>. QED BY <2>1, <2>2
<1>13. CASE x \in F \cap S
  <2>1. y \in F \cap S /\ x = y
    BY <1>1, <1>4, <1>13 DEF Sure
  <2>. QED BY <1>4, <1>7, <1>8, <1>9, <1>10, <1>12, <1>13, <2>1
<1>14. CASE x \notin F \cap S
  <2>1. y \notin F \cap S
    BY <1>11, <1>14
  <2>. QED BY <1>4, <1>7, <1>8, <1>9, <1>10, <1>14, <2>1
<1>. QED BY <1>13, <1>14

\* A batch of the older cache is written.
Written(fs, a) ==
  [fs EXCEPT ![a[First(Unflushed(a))].record.file] = @ \o RecordsOf(a, Batch(a))]

\* Counting the entries of a sequence at some of its places: none, two parts, at most one place.
LEMMA TimesNone ==
  ASSUME NEW n \in Seq(Records), NEW A, NEW r, \A i \in 1..Len(n) : i \in A => n[i] # r
  PROVE  Times(Picked(n, A), r) = 0
<1>1. Range(Picked(n, A)) = {n[i] : i \in {j \in 1..Len(n) : j \in A}}
  BY PickedEntries
<1>2. Range(Picked(n, A)) \cap {r} = {}
  BY <1>1
<1>3. Only(Picked(n, A), {r}) = <<>>
  BY <1>2, ChosenFacts, OnlyNone
<1>. QED BY <1>3 DEF Times

LEMMA TimesAppend ==
  ASSUME NEW s \in Seq(Records), NEW e \in Records, NEW A, NEW r
  PROVE  /\ Times(Picked(s, A), r) \in Nat
         /\ Times(Picked(Append(s, e), A), r) =
              Times(Picked(s, A), r) + (IF Len(s) + 1 \in A /\ e = r THEN 1 ELSE 0)
<1>1. PICK t \in Seq(Records) : t = Picked(s, A)
  BY ChosenFacts
<1>2. Picked(Append(s, e), A) = IF Len(s) + 1 \in A THEN Append(t, e) ELSE t
  BY <1>1, PickedAppend
<1>3. Only(Append(t, e), {r}) = IF e \in {r} THEN Append(Only(t, {r}), e) ELSE Only(t, {r})
  BY OnlyAppend
<1>4. Only(t, {r}) \in Seq(Records) /\ Times(t, r) \in Nat
  BY SelectionTypes
<1>5. Len(Append(Only(t, {r}), e)) = Len(Only(t, {r})) + 1
  BY <1>4, AppendProperties
<1>6. Times(Append(t, e), r) = Times(t, r) + (IF e = r THEN 1 ELSE 0)
  BY <1>3, <1>4, <1>5 DEF Times
<1>. QED BY <1>1, <1>2, <1>4, <1>6

LEMMA TimesSplit ==
  ASSUME NEW A, NEW B, A \cap B = {}, NEW r
  PROVE  \A s \in Seq(Records) :
           Times(Picked(s, A \cup B), r) = Times(Picked(s, A), r) + Times(Picked(s, B), r)
<1>. DEFINE T == {s \in Seq(Records) :
                    Times(Picked(s, A \cup B), r) = Times(Picked(s, A), r) + Times(Picked(s, B), r)}
<1>1. <<>> \in T
  <2>1. Only(<<>>, {r}) = <<>> /\ \A I : Picked(<<>>, I) = <<>>
    BY OnlyEmpty, PickedEmpty
  <2>2. \A I : Times(Picked(<<>>, I), r) = 0
    BY <2>1 DEF Times
  <2>. QED BY <2>2, EmptySeq
<1>2. ASSUME NEW s \in Seq(Records), NEW e \in Records, s \in T PROVE Append(s, e) \in T
  <2>1. Append(s, e) \in Seq(Records)
    BY AppendProperties
  <2>2. \A I : /\ Times(Picked(s, I), r) \in Nat
               /\ Times(Picked(Append(s, e), I), r) =
                    Times(Picked(s, I), r) + (IF Len(s) + 1 \in I /\ e = r THEN 1 ELSE 0)
    BY TimesAppend
  <2>3. Times(Picked(s, A \cup B), r) = Times(Picked(s, A), r) + Times(Picked(s, B), r)
    BY <1>2
  <2>4. ~(Len(s) + 1 \in A /\ Len(s) + 1 \in B)
    OBVIOUS
  <2>5. /\ Times(Picked(s, A), r) \in Nat /\ Times(Picked(s, B), r) \in Nat
        /\ Times(Picked(Append(s, e), A), r) =
             Times(Picked(s, A), r) + (IF Len(s) + 1 \in A /\ e = r THEN 1 ELSE 0)
        /\ Times(Picked(Append(s, e), B), r) =
             Times(Picked(s, B), r) + (IF Len(s) + 1 \in B /\ e = r THEN 1 ELSE 0)
        /\ Times(Picked(Append(s, e), A \cup B), r) =
             Times(Picked(s, A \cup B), r) + (IF (Len(s) + 1 \in A \/ Len(s) + 1 \in B) /\ e = r THEN 1 ELSE 0)
    BY <2>2
  <2>6. Times(Picked(Append(s, e), A \cup B), r) =
          Times(Picked(Append(s, e), A), r) + Times(Picked(Append(s, e), B), r)
    BY <2>3, <2>4, <2>5
  <2>. QED BY <2>1, <2>6
<1>3. Seq(Records) \subseteq T
  <2>. HIDE DEF T
  <2>. QED BY <1>1, <1>2, SequenceInduction
<1>. QED BY <1>3

LEMMA TimesOne ==
  ASSUME NEW A, NEW c, A \subseteq {c}, NEW r
  PROVE  \A s \in Seq(Records) : Times(Picked(s, A), r) <= 1
<1>. DEFINE T == {s \in Seq(Records) : Times(Picked(s, A), r) <= 1}
<1>1. <<>> \in T
  <2>1. Only(<<>>, {r}) = <<>> /\ Picked(<<>>, A) = <<>>
    BY OnlyEmpty, PickedEmpty
  <2>2. Times(Picked(<<>>, A), r) = 0
    BY <2>1 DEF Times
  <2>. QED BY <2>2, EmptySeq
<1>2. ASSUME NEW s \in Seq(Records), NEW e \in Records, s \in T PROVE Append(s, e) \in T
  <2>1. Append(s, e) \in Seq(Records) /\ Len(s) \in Nat
    BY AppendProperties, LenProperties
  <2>2. /\ Times(Picked(s, A), r) \in Nat
        /\ Times(Picked(Append(s, e), A), r) =
             Times(Picked(s, A), r) + (IF Len(s) + 1 \in A /\ e = r THEN 1 ELSE 0)
    BY TimesAppend
  <2>3. CASE Len(s) + 1 \in A
    <3>1. \A i \in 1..Len(s) : i \notin A
      BY <2>1, <2>3
    <3>2. Times(Picked(s, A), r) = 0
      BY <3>1, TimesNone
    <3>. QED BY <2>1, <2>2, <3>2
  <2>4. CASE Len(s) + 1 \notin A
    BY <1>2, <2>1, <2>2, <2>4
  <2>. QED BY <2>3, <2>4
<1>3. Seq(Records) \subseteq T
  <2>. HIDE DEF T
  <2>. QED BY <1>1, <1>2, SequenceInduction
<1>. QED BY <1>3

\* No record of a call is there more often than before.
LEMMA SpoiltTimes ==
  ASSUME NEW q \in Seq(Requests), NEW t \in Seq(Requests), NEW gone, Spoilt(q, t, gone),
         NEW r \in Genuine
  PROVE  /\ Times(Rest(t), r) \in Nat /\ Times(Rest(q), r) \in Nat
         /\ Times(Rest(t), r) <= Times(Rest(q), r)
         /\ r \notin gone => Times(Rest(t), r) = Times(Rest(q), r)
<1>0. Times(Rest(t), r) \in Nat /\ Times(Rest(q), r) \in Nat
  BY UnflushedFacts, SelectionTypes
<1>13. ASSUME NEW A, NEW B, A \cap B = {}
       PROVE  \A s \in Seq(Records) :
                Times(Picked(s, A \cup B), r) = Times(Picked(s, A), r) + Times(Picked(s, B), r)
  BY <1>13, TimesSplit
<1>1. PICK n \in Seq(Records), m \in Seq(Records) : n = Names(q) /\ m = Names(t)
  BY NamesFacts
<1>2. PICK U, V : U = Unflushed(q) /\ V = Unflushed(t)
  OBVIOUS
<1>3. /\ DOMAIN n = 1..Len(q) /\ DOMAIN m = 1..Len(q) /\ U \subseteq 1..Len(q) /\ V \subseteq 1..Len(q)
      /\ \A i \in 1..Len(q) : n[i] = q[i].record /\ m[i] = t[i].record
      /\ \A i \in 1..Len(q) : (i \in U <=> ~q[i].flushed) /\ (i \in V <=> ~t[i].flushed)
  BY <1>1, <1>2, NamesFacts DEF Spoilt, Unflushed
<1>4. PICK I, J : /\ I = {i \in DOMAIN n : i \in U /\ n[i] \in {r}}
                  /\ J = {i \in DOMAIN m : i \in V /\ m[i] \in {r}}
  OBVIOUS
<1>5. Only(Rest(q), {r}) = Picked(n, I) /\ Only(Rest(t), {r}) = Picked(m, J)
  <2>1. Rest(q) = Picked(n, U) /\ Rest(t) = Picked(m, V)
    BY <1>1, <1>2, NamesFacts DEF Rest
  <2>. QED BY <1>4, <2>1, OnlyPicked
<1>6. J \subseteq I /\ \A i \in J : n[i] = m[i]
  <2>1. ASSUME NEW i \in J PROVE i \in I /\ n[i] = m[i]
    <3>1. i \in 1..Len(q) /\ i \in V /\ m[i] = r /\ t[i].record = r
      BY <1>3, <1>4
    <3>2. t[i] = q[i]
      BY <3>1 DEF Spoilt, Genuine
    <3>. QED BY <1>3, <1>4, <3>1, <3>2
  <2>. QED BY <2>1
<1>7. Picked(m, J) = Picked(n, J)
  <2>1. Chosen(m, J) = Chosen(n, J)
    BY <1>3, <1>6 DEF Chosen
  <2>. QED BY <2>1 DEF Picked, Chosen
<1>8. \A K \in SUBSET I : Only(Picked(n, K), {r}) = Picked(n, K)
  <2>. SUFFICES ASSUME NEW K \in SUBSET I PROVE Only(Picked(n, K), {r}) = Picked(n, K)
    OBVIOUS
  <2>1. Only(Picked(n, K), {r}) = Picked(n, {i \in DOMAIN n : i \in K /\ n[i] \in {r}})
    BY OnlyPicked
  <2>2. {i \in DOMAIN n : i \in K /\ n[i] \in {r}} = K
    BY <1>4
  <2>. QED BY <2>1, <2>2
<1>9. Times(Rest(q), r) = Times(Picked(n, I), r) /\ Times(Rest(t), r) = Times(Picked(n, J), r)
  BY <1>5, <1>6, <1>7, <1>8 DEF Times
<1>10. Times(Picked(n, I), r) = Times(Picked(n, J), r) + Times(Picked(n, I \ J), r)
  <2>1. PICK K : K = I \ J
    OBVIOUS
  <2>2. J \cap K = {} /\ J \cup K = I
    BY <1>6, <2>1
  <2>3. \A s \in Seq(Records) :
          Times(Picked(s, J \cup K), r) = Times(Picked(s, J), r) + Times(Picked(s, K), r)
    BY <1>13, <2>2
  <2>. QED BY <2>1, <2>2, <2>3
<1>11. Times(Picked(n, I \ J), r) \in Nat
  BY ChosenFacts, SelectionTypes
<1>12. r \notin gone => Times(Rest(t), r) = Times(Rest(q), r)
  <2>1. ASSUME r \notin gone PROVE Only(Rest(t), {r}) = Only(Rest(q), {r})
    BY <2>1, SpoiltRest DEF Genuine
  <2>. QED BY <2>1 DEF Times
<1>. QED BY <1>0, <1>9, <1>10, <1>11, <1>12

\* Some requests of a batch are flagged, and the records of some are stored in its file.
StoredIn(fs, a, K) == [fs EXCEPT ![a[First(Unflushed(a))].record.file] = @ \o RecordsOf(a, K)]

LEMMA CopiesStored ==
  ASSUME NEW fs \in [Files -> Seq(Records)], NEW a \in Seq(Requests), NEW b \in Seq(Requests),
         Unflushed(a) # {}, NEW K \in SUBSET Batch(a), NEW F \in SUBSET Batch(a), NEW r \in Records
  PROVE  LET stored == Times(RecordsOf(a, K), r)
             flagged == Times(RecordsOf(a, F), r)
         IN  /\ stored \in Nat /\ flagged \in Nat /\ stored <= Copies(fs, a, b, r)
             /\ Copies(StoredIn(fs, a, K), Flag(a, F), b, r) + flagged = Copies(fs, a, b, r) + stored
<1>0. ASSUME NEW I, NEW J, I \cap J = {}
      PROVE  \A s \in Seq(Records) : Times(Picked(s, I \cup J), r) = Times(Picked(s, I), r) + Times(Picked(s, J), r)
  BY <1>0, TimesSplit
<1>1. PICK n \in Seq(Records) : n = Names(a)
  BY NamesFacts
<1>2. PICK U : U = Unflushed(a)
  OBVIOUS
<1>3. PICK file \in Files : file = a[First(Unflushed(a))].record.file
  BY UnflushedFacts
<1>4. PICK gs : gs = StoredIn(fs, a, K)
  OBVIOUS
<1>5. PICK new \in Seq(Records) : new = RecordsOf(a, K)
  BY NamesFacts
<1>6. \A f \in Files : gs[f] = IF f = file THEN fs[f] \o new ELSE fs[f]
  BY <1>3, <1>4, <1>5 DEF StoredIn
<1>7. Batch(a) \subseteq U /\ \A i \in Batch(a) : a[i].record.file = file
  BY <1>2, <1>3 DEF Batch
<1>8. /\ \A S : RecordsOf(a, S) = Picked(n, S)
      /\ Rest(a) = Picked(n, U)
      /\ Rest(Flag(a, F)) = Picked(n, U \ F)
  <2>1. \A S : RecordsOf(a, S) = Picked(n, S)
    BY <1>1, NamesFacts
  <2>2. PICK t \in Seq(Requests) : t = Flag(a, F)
    BY FlagFacts
  <2>3. Names(t) = n /\ Unflushed(t) = U \ F
    BY <1>1, <1>2, <2>2, FlagFacts
  <2>4. Rest(t) = Picked(n, U \ F)
    BY <2>3, NamesFacts DEF Rest
  <2>. QED BY <1>2, <2>1, <2>2, <2>4 DEF Rest
<1>. DEFINE C(A) == Times(Picked(n, A), r)
<1>9. \A A : C(A) \in Nat
  BY ChosenFacts, SelectionTypes
<1>10. C(U) = C(F) + C(U \ F) /\ C(U) = C(K) + C(U \ K)
  <2>1. ASSUME NEW I \in SUBSET U PROVE C(U) = C(I) + C(U \ I)
    <3>1. PICK J : J = U \ I
      OBVIOUS
    <3>2. I \cap J = {}
      BY <3>1
    <3>3. \A s \in Seq(Records) : Times(Picked(s, I \cup J), r) = Times(Picked(s, I), r) + Times(Picked(s, J), r)
      BY <3>2, <1>0
    <3>4. I \cup J = U
      BY <2>1, <3>1
    <3>. QED BY <3>1, <3>3, <3>4
  <2>. QED BY <1>7, <2>1
<1>11. Times(gs[r.file], r) = Times(fs[r.file], r) + C(K)
  <2>1. r.file \in Files /\ fs[r.file] \in Seq(Records)
    BY DEF Records
  <2>2. CASE r.file = file
    <3>1. PICK x \in Seq(Records) : x = fs[r.file]
      BY <2>1
    <3>2. gs[r.file] = x \o new
      BY <1>6, <2>1, <2>2, <3>1
    <3>3. Only(x \o new, {r}) = Only(x, {r}) \o Only(new, {r})
      BY RecordsOnly
    <3>4. Only(x, {r}) \in Seq(Records) /\ Only(new, {r}) \in Seq(Records)
      BY SelectionTypes
    <3>5. Len(Only(x, {r}) \o Only(new, {r})) = Len(Only(x, {r})) + Len(Only(new, {r}))
      BY <3>4, ConcatProperties
    <3>. QED BY <1>5, <1>8, <3>1, <3>2, <3>3, <3>5 DEF Times
  <2>3. CASE r.file # file
    <3>1. \A i \in 1..Len(n) : i \in K => n[i] # r
      BY <1>1, <1>7, <2>3, NamesFacts
    <3>2. C(K) = 0
      BY <3>1, TimesNone
    <3>3. gs[r.file] = fs[r.file]
      BY <1>6, <2>1, <2>3
    <3>4. Times(fs[r.file], r) \in Nat
      BY <2>1, SelectionTypes
    <3>. QED BY <3>2, <3>3, <3>4
  <2>. QED BY <2>2, <2>3
<1>12. Times(fs[r.file], r) \in Nat /\ Times(Rest(b), r) \in Nat
  BY CopiesFacts
<1>13. /\ Copies(fs, a, b, r) = Times(fs[r.file], r) + C(U) + Times(Rest(b), r)
       /\ Copies(gs, Flag(a, F), b, r) = Times(fs[r.file], r) + C(K) + C(U \ F) + Times(Rest(b), r)
       /\ Times(RecordsOf(a, K), r) = C(K) /\ Times(RecordsOf(a, F), r) = C(F)
  BY <1>8, <1>11 DEF Copies
<1>. HIDE DEF C
<1>14. C(F) \in Nat /\ C(K) \in Nat /\ C(U \ F) \in Nat /\ C(U \ K) \in Nat
  BY <1>9
<1>15. PICK k, l, u, v, m, g \in Nat : /\ k = C(K) /\ l = C(F) /\ u = C(U \ F) /\ v = C(U \ K)
                                     /\ m = Times(fs[r.file], r) /\ g = Times(Rest(b), r)
  BY <1>12, <1>14
<1>16. C(U) = k + v /\ C(U) = l + u
  BY <1>10, <1>15
<1>17. PICK c, d, y, z \in Nat : /\ c = Copies(fs, a, b, r) /\ d = Copies(gs, Flag(a, F), b, r)
                                /\ c = m + k + v + g /\ d = m + k + u + g
                                /\ y = Times(RecordsOf(a, K), r) /\ z = Times(RecordsOf(a, F), r)
                                /\ y = k /\ z = l /\ k + v = l + u
  <2>1. /\ Copies(fs, a, b, r) = m + (k + v) + g /\ Copies(gs, Flag(a, F), b, r) = m + k + u + g
        /\ k + v = l + u /\ Times(RecordsOf(a, K), r) = k /\ Times(RecordsOf(a, F), r) = l
    BY <1>13, <1>15, <1>16
  <2>. QED BY <2>1
<1>18. c = m + k + v + g /\ d = m + k + u + g /\ y = k /\ z = l /\ k + v = l + u
  BY <1>17
<1>19. y \in Nat /\ z \in Nat /\ y <= c /\ d + z = c + y
  BY <1>18
<1>. QED
  <2>1. Copies(StoredIn(fs, a, K), Flag(a, F), b, r) = d
    BY <1>4, <1>17
  <2>. QED BY <1>17, <1>19, <2>1

\* After an error one more copy may be in the file, of the request that is stored without being
\* flagged; only a record that is flagged without being stored may be gone.
LEMMA CopiesLeft ==
  ASSUME NEW fs \in [Files -> Seq(Records)], NEW a \in Seq(Requests), NEW b \in Seq(Requests),
         Unflushed(a) # {}, NEW K \in SUBSET Batch(a), NEW F \in SUBSET Batch(a), NEW c,
         K = {} \/ (F \subseteq K /\ K \ F \subseteq {c}), NEW r \in Records
  PROVE  LET before == Copies(fs, a, b, r)
             after == Copies(StoredIn(fs, a, K), Flag(a, F), b, r)
         IN  /\ after <= before + 1
             /\ before = 0 => after <= 0
             /\ r \notin {a[i].record : i \in F \ K} => before <= after
             /\ r # a[c].record => after <= before
<1>1. PICK n \in Seq(Records) : n = Names(a)
  BY NamesFacts
<1>2. \A S : RecordsOf(a, S) = Picked(n, S)
  BY <1>1, NamesFacts
<1>. DEFINE C(A) == Times(Picked(n, A), r)
            before == Copies(fs, a, b, r)
            after == Copies(StoredIn(fs, a, K), Flag(a, F), b, r)
<1>3. \A A : C(A) \in Nat
  BY ChosenFacts, SelectionTypes
<1>4. C(K) <= before /\ after + C(F) = before + C(K)
  <2>1. RecordsOf(a, K) = Picked(n, K) /\ RecordsOf(a, F) = Picked(n, F)
    BY <1>2
  <2>2. /\ Times(RecordsOf(a, K), r) <= before
        /\ after + Times(RecordsOf(a, F), r) = before + Times(RecordsOf(a, K), r)
    BY CopiesStored
  <2>. QED BY <2>1, <2>2
<1>5. before \in Nat /\ after \in Nat
  <2>1. StoredIn(fs, a, K) \in [Files -> Seq(Records)]
    <3>1. PICK x \in Seq(Records) : x = RecordsOf(a, K)
      BY NamesFacts
    <3>2. PICK f \in Files : f = a[First(Unflushed(a))].record.file
      BY UnflushedFacts
    <3>3. StoredIn(fs, a, K) = [fs EXCEPT ![f] = fs[f] \o x]
      BY <3>1, <3>2 DEF StoredIn
    <3>4. fs[f] \o x \in Seq(Records)
      BY ConcatProperties
    <3>. QED BY <3>3, <3>4
  <2>2. Flag(a, F) \in Seq(Requests)
    BY FlagFacts
  <2>. QED BY <2>1, <2>2, CopiesFacts
<1>6. CASE K = {}
  <2>1. C(K) = 0
    BY <1>6, TimesNone
  <2>2. ASSUME r \notin {a[i].record : i \in F \ K} PROVE C(F) = 0
    <3>1. \A i \in 1..Len(n) : i \in F => n[i] # r
      BY <1>1, <1>6, <2>2, NamesFacts
    <3>. QED BY <3>1, TimesNone
  <2>. HIDE DEF C, before, after
  <2>3. after + C(F) = before /\ C(F) \in Nat
    BY <1>3, <1>4, <1>5, <2>1
  <2>4. after <= before /\ (C(F) = 0 => after = before)
    BY <1>5, <2>3
  <2>5. after <= before + 1 /\ (before = 0 => after <= 0) /\ (r \notin {a[i].record : i \in F \ K} => before <= after)
        /\ after <= before
    BY <1>5, <2>2, <2>4
  <2>. QED BY <2>5 DEF before, after
<1>7. CASE F \subseteq K /\ K \ F \subseteq {c}
  <2>1. C(K \ F) <= 1
    BY <1>7, TimesOne
  <2>2. C(K) = C(F) + C(K \ F)
    <3>1. F \cup (K \ F) = K /\ F \cap (K \ F) = {}
      BY <1>7
    <3>2. \A s \in Seq(Records) : Times(Picked(s, F \cup (K \ F)), r)
                                     = Times(Picked(s, F), r) + Times(Picked(s, K \ F), r)
      BY <3>1, TimesSplit
    <3>. QED BY <3>1, <3>2
  <2>3. PICK stored \in Nat, flagged \in Nat, twice \in Nat :
           stored = C(K) /\ flagged = C(F) /\ twice = C(K \ F)
    BY <1>3
  <2>0. ASSUME r # a[c].record PROVE C(K \ F) = 0
    <3>1. \A i \in 1..Len(n) : i \in K \ F => n[i] # r
      BY <1>1, <1>7, <2>0, NamesFacts
    <3>. QED BY <3>1, TimesNone
  <2>. HIDE DEF C, before, after
  <2>4. stored = flagged + twice /\ after + flagged = before + stored /\ stored <= before /\ twice <= 1
    BY <1>4, <2>1, <2>2, <2>3
  <2>5. after <= before + 1 /\ (before = 0 => after <= 0) /\ before <= after
        /\ (twice = 0 => after <= before)
    BY <1>5, <2>4
  <2>. QED BY <2>0, <2>3, <2>5 DEF before, after
<1>. QED BY <1>6, <1>7

LEMMA OrderedWritten ==
  ASSUME NEW fs \in [Files -> Seq(Records)], NEW a \in Seq(Requests), NEW b \in Seq(Requests),
         NEW acc, NEW gone, Unflushed(a) # {}, OrderedIn(fs, a, b, acc, gone)
  PROVE  OrderedIn(Written(fs, a), Flag(a, Batch(a)), b, acc, gone)
<1>1. PICK file \in Files : file = a[First(Unflushed(a))].record.file
  BY UnflushedFacts
<1>2. PICK n \in Seq(Records) : n = RecordsOf(a, Batch(a))
  BY NamesFacts
<1>3. PICK t \in Seq(Records) : t = Rest(Flag(a, Batch(a)))
  BY FlagFacts, UnflushedFacts
<1>4. PICK gs : gs = Written(fs, a)
  OBVIOUS
<1>5. \A f \in Files : gs[f] = IF f = file THEN fs[f] \o n ELSE fs[f]
  BY <1>1, <1>2, <1>4 DEF Written
<1>6. SUFFICES ASSUME NEW f \in Files
               PROVE  fs[f] \o OfFile(Rest(a), f) \o OfFile(Rest(b), f) = gs[f] \o OfFile(t, f) \o OfFile(Rest(b), f)
  BY <1>3, <1>4 DEF OrderedIn, Line
<1>8. PICK S : S = {r \in Records : r.file = f}
  OBVIOUS
<1>9. CASE f = file
  <2>1. OfFile(n, f) = OfFile(Rest(a), f) /\ OfFile(t, f) = <<>>
    <3>1. \A r \in S \cap Records : r.file = file
      BY <1>8, <1>9
    <3>2. Only(n, S) = Only(Rest(a), S) /\ Only(t, S) = <<>>
      BY <1>1, <1>2, <1>3, <3>1, BatchMoves
    <3>. QED BY <1>8, <3>2 DEF OfFile
  <2>2. OfFile(n, f) = n
    <3>1. Range(n) \subseteq S
      <4>1. PICK q \in Seq(Records) : q = Names(a)
        BY NamesFacts
      <4>2. PICK B : B = Batch(a)
        OBVIOUS
      <4>3. Range(Picked(q, B)) = {q[i] : i \in {j \in 1..Len(q) : j \in B}}
        BY PickedEntries
      <4>4. n = Picked(q, B)
        BY <1>2, <4>1, <4>2, NamesFacts
      <4>5. \A i \in 1..Len(q) : i \in B => q[i] \in Records /\ q[i].file = file
        BY <1>1, <4>1, <4>2, NamesFacts DEF Batch
      <4>. QED BY <1>8, <1>9, <4>3, <4>4, <4>5
    <3>2. Only(n, S) = n
      BY <3>1, OnlyAll
    <3>. QED BY <1>8, <3>2 DEF OfFile
  <2>3. PICK x \in Seq(Records) : x = fs[f]
    OBVIOUS
  <2>4. (x \o n) \o <<>> = x \o n
    BY ConcatProperties, ConcatEmptySeq
  <2>. QED BY <1>5, <1>9, <2>1, <2>2, <2>3, <2>4
<1>10. CASE f # file
  <2>1. OfFile(t, f) = OfFile(Rest(a), f)
    <3>1. \A r \in S \cap Records : r.file # file
      BY <1>8, <1>10
    <3>2. Only(t, S) = Only(Rest(a), S)
      BY <1>1, <1>3, <3>1, BatchMoves
    <3>. QED BY <1>8, <3>2 DEF OfFile
  <2>2. gs[f] = fs[f]
    BY <1>5, <1>10
  <2>. QED BY <2>1, <2>2
<1>. QED BY <1>9, <1>10

----------------------------------------------------------------------------
\* Why no record is lost and none overtakes another.  A writer may swap the caches in the
\* middle of a flush, whose target is then the active one.  That target is full until its
\* queue is emptied, so the writer finds it full and gives up, or finds it emptied.

Swapped == \E w \in Writers : pc[w] = "swapped"
Turned == target = active

\* A flush: what is in its target at each of its places, and when the target has become
\* the active cache.
Turns ==
  \A p \in Flushers :
    /\ at[p] \in {"write", "empty"} =>
         /\ queue[target] # <<>>
         /\ Turned => Full(active) /\ (QueueMutexLost \/ Swapped)
    /\ at[p] = "empty" => Unflushed(queue[target]) = {}
    /\ at[p] = "rewind" =>
         /\ queue[target] = <<>>
         /\ Turned => QueueMutexLost \/ Swapped \/ \E w \in Writers : pc[w] = "copy and notify"

\* The caches as those who swap them leave them.
Swaps ==
  /\ queue[Other(active)] = <<>> \/ Full(Other(active)) \/ wq = "force"
  /\ at["force"] = "flushed" => queue[Other(active)] = <<>>
  /\ Swapped => queue[active] = <<>> \/ Full(active)
  /\ \A w \in Writers : pc[w] \in {"wait", "delay", "swap"} => Full(active)

\* No record is enqueued twice.
Distinct ==
  /\ \A w \in Underway : arg[w].id <= calls /\ arg[w] \notin Range(accepted)
  /\ \A v, w \in Underway : v # w => arg[v] # arg[w]
  /\ \A r \in Range(accepted) : r.id # 0 /\ r.id <= calls

\* How many copies of a record there are: one more for each error at most, and of a record
\* that is still to be enqueued none.
CopiesOf(r) == Copies(files, queue[0], queue[1], r)
Limited == \A r \in Genuine : CopiesOf(r) <= IF r \in Range(accepted) THEN 1 + failures ELSE 0

\* Each error repeats one record at most.
Repeated == {r \in Genuine : CopiesOf(r) > 1}
FewRepeated == IsFiniteSet(Repeated) /\ Cardinality(Repeated) <= failures

\* Every accepted record is somewhere, if neither an error nor an overrun has lost it.
Present == \A r \in Range(accepted) \ (lost \cup garbled) : CopiesOf(r) > 0

\* The cache that is not active is the older one, but while a writer has just swapped them
\* for the copy of its record; if it then finds both full it will not copy.
Ordered ==
  \/ QueueMutexLost
  \/ ~Swapped /\ OrderedIn(files, queue[Other(active)], queue[active], accepted, garbled)
  \/ Swapped /\ OrderedIn(files, queue[active], queue[Other(active)], accepted, garbled)
  \/ /\ Swapped /\ queue[active] # <<>> /\ Full(active)
     /\ \A p \in Flushers : at[p] \in {"write", "empty"} => ~Turned

\* What an error leaves behind it.
Errors ==
  failures = 0 => /\ lost = {} /\ ~force_failed
                  /\ \A p \in Flushers : at[p] # "failed"

\* The exceptions of the two properties.
Guarded == ~crossed /\ ~force_failed
Sound == failures = 0 /\ ~crossed

Stored ==
  /\ Distinct /\ Limited /\ FewRepeated /\ Errors
  /\ Guarded => Turns /\ Swaps /\ Present
  /\ Sound => Ordered
Held == Holding /\ QueueHeld /\ Typing

LEMMA InitStored == Init => Stored
<1>. SUFFICES ASSUME Init PROVE Turns /\ Swaps /\ Distinct /\ Errors /\ Limited /\ FewRepeated /\ Present /\ Ordered
  BY DEF Stored
<1>1. PICK e \in Seq(Requests) : e = <<>>
  BY EmptySeq
<1>2. Unflushed(e) = {} /\ Rest(e) = <<>>
  <2>1. Unflushed(e) = {}
    BY <1>1 DEF Unflushed
  <2>. QED BY <2>1, UnflushedFacts
<1>3. queue[0] = e /\ queue[1] = e /\ active = 0 /\ Other(active) = 1 /\ accepted = <<>>
  BY <1>1 DEF Init, Caches, Other
<1>4. \A f \in Files : files[f] = <<>>
  BY DEF Init
<1>5. /\ \A w \in Writers : pc[w] = "idle"
      /\ \A p \in Flushers : at[p] = "idle"
      /\ "force" \in Flushers
  BY DEF Init, Flushers
<1>6. Range(accepted) = {}
  BY <1>3 DEF Range
<1>7. Turns /\ Swaps /\ Distinct
  <2>1. Turns
    <3>1. \A p \in Flushers : at[p] \notin {"write", "empty", "rewind"}
      BY <1>5
    <3>. QED BY <3>1 DEF Turns
  <2>2. Swaps
    BY <1>1, <1>3, <1>5 DEF Swaps, Swapped
  <2>3. Underway = {}
    BY <1>5 DEF Underway
  <2>. QED BY <1>6, <2>1, <2>2, <2>3 DEF Distinct
<1>8. Limited /\ FewRepeated /\ Present /\ Errors
  <2>1. \A r : Times(<<>>, r) = 0
    BY OnlyEmpty DEF Times
  <2>2. \A r \in Genuine : files[r.file] = <<>>
    BY <1>4 DEF Genuine, Records
  <2>3. \A r \in Genuine : CopiesOf(r) = 0
    BY <1>2, <1>3, <2>1, <2>2 DEF CopiesOf, Copies
  <2>4. lost = {} /\ ~force_failed /\ \A p \in Flushers : at[p] # "failed"
    BY <1>5 DEF Init
  <2>5. FewRepeated
    <3>1. Repeated = {}
      BY <2>3 DEF Repeated
    <3>2. failures = 0
      BY DEF Init
    <3>. QED BY <3>1, <3>2, FS_EmptySet DEF FewRepeated
  <2>. QED BY <1>6, <2>3, <2>4, <2>5 DEF Limited, Present, Errors
<1>9. Ordered
  <2>1. \A f : OfFile(<<>>, f) = <<>>
    BY OnlyEmpty DEF OfFile
  <2>2. <<>> \o <<>> = <<>>
    OBVIOUS
  <2>3. OrderedIn(files, e, e, accepted, garbled)
    BY <1>2, <1>3, <1>4, <2>1, <2>2 DEF OrderedIn, Line
  <2>. QED BY <1>3, <1>5, <2>3 DEF Ordered, Swapped
<1>. QED BY <1>7, <1>8, <1>9

\* What is lost stays lost.
LEMMA LostStays ==
  ASSUME Held, Next, QueueMutexLost
  PROVE  QueueMutexLost'
<1>1. /\ wq \in Writers /\ pc[wq] \in {"idle", "take"} /\ wq # "force" /\ wq # Nobody
      /\ pc \in [Writers -> Labels]
      /\ \A v \in Writers : pc[v] \in Locked => wq = v
      /\ at["force"] \notin Busy
  BY WriteCacheAssumption DEF QueueMutexLost, Held, QueueHeld, Typing, Places
<1>2. CASE Task \/ ForceFlush \/ User
  <2>1. wq' = wq /\ pc' = pc
    BY <1>1, <1>2 DEF Task, PollQuiet, PollFlush, PollBusy, FlushEnds, ForceFlush, ForceTake,
       ForceTakeQueue,
       ForceTimeout, ForceSwap, ForceEnds, User, Open, Close, Flush, Choose, WriteFile,
       FailFile, LoopEnds,
       Empty, Rewind, mutexes, enqueuing, Busy
  <2>. QED BY <1>1, <2>1 DEF QueueMutexLost
<1>3. ASSUME NEW w \in Writers, Writer(w) PROVE QueueMutexLost'
  <2>1. wq' = wq /\ (wq = w => pc'[w] \in {"idle", "take"}) /\ \A v \in Writers : v # w => pc'[v] = pc[v]
    BY <1>1, <1>3
    DEF Writer, Call, Take, TakeTimeout, Waited, Delay, DelayEnds, Swap, CheckOther, Copy, Notify,
       Goto, mutexes, Locked
  <2>. QED BY <1>1, <2>1 DEF QueueMutexLost
<1>. QED BY <1>2, <1>3 DEF Next

\* A step that goes from place to place only.
LEMMA StepStored ==
  ASSUME Held, Turns, Swaps, NEW w \in Writers,
         \/ Call(w) \/ Take(w) \/ TakeTimeout(w) \/ Waited(w) \/ Delay(w) \/ DelayEnds(w)
         \/ CheckOther(w) \/ Notify(w)
  PROVE  Turns' /\ Swaps' /\ (Ordered => Ordered')
<1>1. /\ queue' = queue /\ head' = head /\ active' = active /\ target' = target /\ at' = at
      /\ files' = files /\ accepted' = accepted /\ garbled' = garbled
      /\ wq' = wq \/ (wq = Nobody /\ wq' = w)
      /\ \A v \in Writers : v # w => pc'[v] = pc[v]
      /\ pc' \in [Writers -> Labels]
  <2>1. pc \in [Writers -> Labels]
    BY DEF Held, Typing, Places
  <2>2. \E label \in Labels : pc' = [pc EXCEPT ![w] = label]
    BY DEF Call, Take, TakeTimeout, Waited, Delay, DelayEnds, CheckOther, Notify, Goto, Labels
  <2>3. /\ queue' = queue /\ head' = head /\ active' = active /\ target' = target /\ at' = at
        /\ files' = files /\ accepted' = accepted /\ garbled' = garbled
    BY DEF Call, Take, TakeTimeout, Waited, Delay, DelayEnds, CheckOther, Notify, caches, flush
  <2>4. wq' = wq \/ (wq = Nobody /\ wq' = w)
    BY DEF Call, Take, TakeTimeout, Waited, Delay, DelayEnds, CheckOther, Notify, mutexes
  <2>. QED BY <2>1, <2>2, <2>3, <2>4
<1>2. /\ \A v \in Writers : pc[v] \in Locked => wq = v
      /\ queue \in [Caches -> Seq(Requests)] /\ active \in Caches /\ files \in [Files -> Seq(Records)]
      /\ pc \in [Writers -> Labels]
  BY DEF Held, QueueHeld, Typing, Storage, Places
<1>3. QueueMutexLost => QueueMutexLost'
  <2>1. Next
    BY DEF Next, Writer
  <2>. QED BY <2>1, LostStays
<1>4. \A c : Full(c)' <=> Full(c)
  BY <1>1 DEF Full
<1>5. /\ pc'[w] # "swapped"
      /\ pc[w] # "copy and notify"
      /\ pc[w] = "swapped" => pc'[w] = IF Full(active) THEN "idle" ELSE "copy and notify"
      /\ pc[w] = "swapped" => wq' = w
      /\ pc'[w] \in {"wait", "delay", "swap"} => pc[w] \in {"wait", "delay", "swap"} \/ Full(active)
  BY <1>1, <1>2 DEF Call, Take, TakeTimeout, Waited, Delay, DelayEnds, CheckOther, Notify, Goto,
     Locked, mutexes
<1>6. Swapped' => Swapped
  BY <1>1, <1>5 DEF Swapped
<1>7. Swapped => \/ Swapped'
                 \/ pc[w] = "swapped" /\ Full(active) /\ QueueMutexLost'
                 \/ pc[w] = "swapped" /\ ~Full(active) /\ pc'[w] = "copy and notify"
  <2>1. CASE pc[w] = "swapped"
    BY <1>5, <2>1 DEF QueueMutexLost
  <2>2. CASE pc[w] # "swapped"
    BY <1>1, <2>2 DEF Swapped
  <2>. QED BY <2>1, <2>2
<1>8. Turns'
  <2>1. (\E v \in Writers : pc[v] = "copy and notify") => \E v \in Writers : pc'[v] = "copy and notify"
    BY <1>1, <1>5
  <2>2. Turned' <=> Turned
    BY <1>1 DEF Turned
  <2>. SUFFICES ASSUME NEW p \in Flushers
                PROVE  /\ at'[p] \in {"write", "empty"} =>
                           /\ queue'[target'] # <<>>
                           /\ Turned' => Full(active)' /\ (QueueMutexLost' \/ Swapped')
                       /\ at'[p] = "empty" => Unflushed(queue'[target']) = {}
                       /\ at'[p] = "rewind" =>
                           /\ queue'[target'] = <<>>
                           /\ Turned' => \/ QueueMutexLost' \/ Swapped'
                                         \/ \E v \in Writers : pc'[v] = "copy and notify"
    BY DEF Turns
  <2>. QED BY <1>1, <1>3, <1>4, <1>7, <2>1, <2>2 DEF Turns
<1>9. Swaps'
  <2>1. wq = "force" => wq' = "force"
    BY <1>1, WriteCacheAssumption
  <2>2. \A v \in Writers : pc'[v] \in {"wait", "delay", "swap"} => Full(active)'
    BY <1>1, <1>4, <1>5 DEF Swaps
  <2>3. Full(Other(active))' <=> Full(Other(active))
    BY <1>1 DEF Full
  <2>. QED BY <1>1, <1>4, <1>6, <2>1, <2>2, <2>3 DEF Swaps
<1>12. ASSUME Ordered PROVE Ordered'
  <2>1. PICK a \in Seq(Requests) : a = queue[active]
    BY <1>2
  <2>2. PICK b \in Seq(Requests) : b = queue[Other(active)]
    BY <1>2, Sides
  <2>3. Turned' <=> Turned
    BY <1>1 DEF Turned
  <2>4. CASE Swapped <=> Swapped'
    BY <1>1, <1>3, <1>4, <1>12, <2>3, <2>4 DEF Ordered
  <2>5. CASE Swapped /\ ~Swapped'
    <3>1. QueueMutexLost' \/ a = <<>>
      BY <1>7, <2>1, <2>5 DEF Swaps
    <3>2. ASSUME a = <<>>, OrderedIn(files, a, b, accepted, garbled) PROVE OrderedIn(files, b, a, accepted, garbled)
      <4>1. Unflushed(a) = {}
        BY <3>2 DEF Unflushed
      <4>. QED BY <1>2, <3>2, <4>1, OrderedSides
    <3>3. QueueMutexLost \/ a # <<>> \/ OrderedIn(files, a, b, accepted, garbled)
      BY <1>12, <2>1, <2>2, <2>5 DEF Ordered
    <3>4. QueueMutexLost' \/ OrderedIn(files, b, a, accepted, garbled)
      BY <1>3, <3>1, <3>2, <3>3
    <3>. QED BY <1>1, <2>1, <2>2, <2>5, <3>4 DEF Ordered
  <2>. QED BY <1>6, <2>4, <2>5
<1>. QED BY <1>8, <1>9, <1>12

\* The full cache becomes the older one.
LEMMA SwapStored ==
  ASSUME Held, Turns, Swaps, NEW w \in Writers, Swap(w)
  PROVE  Turns' /\ Swaps' /\ (Ordered => Ordered')
<1>1. /\ queue' = queue /\ head' = head /\ active' = Other(active) /\ target' = target /\ at' = at
      /\ files' = files /\ accepted' = accepted /\ garbled' = garbled /\ wq' = wq /\ arg' = arg /\ calls' = calls
      /\ pc' = [pc EXCEPT ![w] = "swapped"] /\ pc[w] = "swap"
  BY DEF Swap, mutexes, flush, Goto
<1>2. /\ \A v \in Writers : pc[v] \in Locked => wq = v
      /\ at["force"] \in Busy => wq = "force"
      /\ active \in Caches /\ target \in Caches
      /\ pc \in [Writers -> Labels]
  BY DEF Held, QueueHeld, Typing, Storage, Places
<1>3. wq = w /\ w # "force" /\ \A v \in Writers : v # w => pc[v] \notin Locked
  BY <1>1, <1>2, WriteCacheAssumption DEF Locked
<1>4. Swapped' /\ ~Swapped /\ ~QueueMutexLost
  BY <1>1, <1>2, <1>3 DEF Swapped, QueueMutexLost, Locked
<1>5. Other(active) \in Caches /\ Other(Other(active)) = active
  BY <1>2, Sides
<1>6. Full(active) /\ (queue[Other(active)] = <<>> \/ Full(Other(active)))
  BY <1>1, <1>3 DEF Swaps
<1>7. (Full(active)' <=> Full(Other(active))) /\ (Full(Other(active))' <=> Full(active))
  BY <1>1, <1>5 DEF Full
<1>8. Turns'
  <2>. SUFFICES ASSUME NEW p \in Flushers
                PROVE  /\ at'[p] \in {"write", "empty"} =>
                           /\ queue'[target'] # <<>>
                           /\ Turned' => Full(active)'
                       /\ at'[p] = "empty" => Unflushed(queue'[target']) = {}
                       /\ at'[p] = "rewind" => queue'[target'] = <<>>
    BY <1>4 DEF Turns
  <2>. QED BY <1>1, <1>6, <1>7 DEF Turns, Turned
<1>9. Swaps'
  <2>1. \A v \in Writers : pc'[v] \notin {"wait", "delay", "swap"}
    BY <1>1, <1>2, <1>3 DEF Locked
  <2>2. at["force"] # "flushed"
    BY <1>2, <1>3 DEF Busy
  <2>. QED BY <1>1, <1>5, <1>6, <1>7, <2>1, <2>2 DEF Swaps
<1>12. ASSUME Ordered PROVE Ordered'
  <2>1. OrderedIn(files, queue[Other(active)], queue[active], accepted, garbled)
    BY <1>4, <1>12 DEF Ordered
  <2>2. OrderedIn(files', queue'[active'], queue'[Other(active')], accepted', garbled')
    BY <1>1, <1>5, <2>1
  <2>. QED BY <1>4, <2>2 DEF Ordered
<1>. QED BY <1>8, <1>9, <1>12

\* A new record comes last, into a cache that nobody is emptying.
LEMMA CopyStored ==
  ASSUME Held, Turns, Swaps, NEW w \in Writers, Copy(w), ~crossed'
  PROVE  Turns' /\ Swaps' /\ (Ordered => Ordered')
<1>1. /\ active' = active /\ target' = target /\ at' = at /\ files' = files
      /\ wq' = Nobody /\ arg' = arg /\ calls' = calls
      /\ pc[w] \in {"copy", "copy and notify"}
      /\ \A v \in Writers : v # w => pc'[v] = pc[v]
      /\ pc'[w] \in {"idle", "notify"}
      /\ accepted' = Append(accepted, arg[w])
      /\ head' = [head EXCEPT ![active] = head[active] + Size(arg[w])]
  BY DEF Copy, flush, Goto, Held, Typing, Places
<1>2. /\ \A v \in Writers : pc[v] \in Locked => wq = v
      /\ at["force"] \in Busy => wq = "force"
      /\ active \in Caches /\ target \in Caches
      /\ pc \in [Writers -> Labels]
      /\ queue \in [Caches -> Seq(Requests)] /\ head \in [Caches -> Nat]
      /\ files \in [Files -> Seq(Records)] /\ accepted \in Seq(Records)
  BY DEF Held, QueueHeld, Typing, Storage, Places
<1>3. wq = w /\ w # "force" /\ w # Nobody /\ \A v \in Writers : v # w => pc[v] \notin Locked
  BY <1>1, <1>2, WriteCacheAssumption DEF Locked
<1>4. /\ ~Swapped /\ ~QueueMutexLost /\ ~Swapped'
      /\ \A v \in Writers : pc'[v] \notin {"wait", "delay", "swap", "swapped"}
  BY <1>1, <1>2, <1>3 DEF Swapped, QueueMutexLost, Locked
<1>5. \A p \in Flushers : at[p] \in {"write", "empty", "rewind"} => ~Turned
  <2>1. ASSUME NEW p \in Flushers, at[p] = "rewind" PROVE ~Turned
    BY <2>1 DEF Copy, Turned
  <2>2. ASSUME NEW p \in Flushers, at[p] \in {"write", "empty"} PROVE ~Turned
    BY <1>4, <2>2 DEF Turns
  <2>. QED BY <2>1, <2>2
<1>8. PICK a \in Seq(Requests) : a = queue[active]
  BY <1>2
<1>9. PICK b \in Seq(Requests) : b = queue[Other(active)]
  BY <1>2, Sides
<1>6. /\ arg[w] \in Genuine
      /\ \E t \in Seq(Requests), e \in Requests :
           /\ queue' = [queue EXCEPT ![active] = Append(t, e)]
           /\ Spoilt(a, t, garbled')
           /\ ~e.flushed
           /\ e.record = arg[w] \/ (e.record.id = 0 /\ arg[w] \in garbled')
      /\ garbled \subseteq garbled'
  BY <1>8, CopyIs DEF Held, Typing
<1>7. PICK x \in Records : x = arg[w]
  BY <1>6 DEF Genuine
<1>10. Other(active) \in Caches /\ Other(active) # active
  BY <1>2, Sides
<1>11. PICK t \in Seq(Requests), e \in Requests :
         /\ queue' = [queue EXCEPT ![active] = Append(t, e)]
         /\ Spoilt(a, t, garbled')
         /\ ~e.flushed
         /\ e.record = x \/ (e.record.id = 0 /\ x \in garbled')
  BY <1>6, <1>7
<1>14. queue'[active] = Append(t, e) /\ queue'[Other(active)] = b
  BY <1>2, <1>9, <1>10, <1>11
<1>12. Turns'
  <2>. SUFFICES ASSUME NEW p \in Flushers
                PROVE  /\ at'[p] \in {"write", "empty"} => queue'[target'] # <<>> /\ ~Turned'
                       /\ at'[p] = "empty" => Unflushed(queue'[target']) = {}
                       /\ at'[p] = "rewind" => queue'[target'] = <<>> /\ ~Turned'
    BY DEF Turns
  <2>1. Turned' <=> Turned
    BY <1>1 DEF Turned
  <2>2. ~Turned => queue'[target] = queue[target]
    BY <1>2, <1>11 DEF Turned
  <2>. QED BY <1>1, <1>5, <2>1, <2>2 DEF Turns
<1>13. Swaps'
  <2>1. b = <<>> \/ Full(Other(active))
    BY <1>3, <1>9 DEF Swaps
  <2>2. Full(Other(active))' <=> Full(Other(active))
    BY <1>1, <1>2, <1>10, <1>11 DEF Full
  <2>3. at["force"] # "flushed"
    BY <1>2, <1>3 DEF Busy
  <2>. QED BY <1>1, <1>4, <1>9, <1>14, <2>1, <2>2, <2>3 DEF Swaps
<1>17. ASSUME Ordered PROVE Ordered'
  <2>1. OrderedIn(files, b, a, accepted, garbled)
    BY <1>4, <1>8, <1>9, <1>17 DEF Ordered
  <2>2. PICK gone : gone = garbled'
    OBVIOUS
  <2>4. OrderedIn(files, b, t, accepted, gone)
    BY <1>2, <1>6, <1>11, <2>1, <2>2, OrderedSpoilt
  <2>5. e.record = x \/ (e.record.id = 0 /\ x \in gone)
    BY <1>11, <2>2
  <2>6. OrderedIn(files, b, Append(t, e), Append(accepted, x), gone)
    BY <1>2, <1>11, <2>4, <2>5, OrderedCopied
  <2>3. OrderedIn(files', queue'[Other(active')], queue'[active'], accepted', garbled')
    BY <1>1, <1>7, <1>14, <2>2, <2>6
  <2>. QED BY <1>4, <2>3 DEF Ordered
<1>. QED BY <1>12, <1>13, <1>17

\* A step that leaves the caches, the files and the writers alone and brings no flusher
\* further than to the start of a flush.
LEMMA StillStored ==
  ASSUME Held, Turns, Swaps,
         UNCHANGED <<queue, head, active, target, files, accepted, garbled, arg, calls, pc>>,
         \A p \in Flushers : at'[p] = at[p] \/ at'[p] \in {"idle", "take", "choose"},
         QueueMutexLost => QueueMutexLost',
         wq = "force" => wq' = "force"
  PROVE  Turns' /\ Swaps' /\ (Ordered => Ordered')
<1>1. /\ Full(active)' <=> Full(active)
      /\ Full(Other(active))' <=> Full(Other(active))
      /\ Swapped' <=> Swapped
      /\ Turned' <=> Turned
  BY DEF Full, Swapped, Turned
<1>2. Turns'
  <2>. SUFFICES ASSUME NEW p \in Flushers
                PROVE  /\ at'[p] \in {"write", "empty"} =>
                           /\ queue'[target'] # <<>>
                           /\ Turned' => Full(active)' /\ (QueueMutexLost' \/ Swapped')
                       /\ at'[p] = "empty" => Unflushed(queue'[target']) = {}
                       /\ at'[p] = "rewind" =>
                           /\ queue'[target'] = <<>>
                           /\ Turned' => \/ QueueMutexLost' \/ Swapped'
                                         \/ \E v \in Writers : pc'[v] = "copy and notify"
    BY DEF Turns
  <2>1. CASE at'[p] \in {"idle", "take", "choose"}
    BY <2>1
  <2>2. CASE at'[p] = at[p]
    BY <1>1, <2>2 DEF Turns
  <2>. QED BY <2>1, <2>2
<1>3. Swaps'
  <2>1. at'["force"] = "flushed" => at["force"] = "flushed"
    BY DEF Flushers
  <2>. QED BY <1>1, <2>1 DEF Swaps
<1>5. ASSUME Ordered PROVE Ordered'
  BY <1>1, <1>5 DEF Ordered
<1>. QED BY <1>2, <1>3, <1>5

\* The other flusher is not at work.
LEMMA OneFlusher ==
  ASSUME Held, NEW p \in Flushers, at[p] \in Busy, NEW r \in Flushers, r # p
  PROVE  at[r] = "idle"
BY DEF Held, Holding, Busy, Flushers

\* What no step of fs_flush_all touches.
LEMMA FlushFrame ==
  ASSUME Held, NEW p \in Flushers, Flush(p)
  PROVE  /\ active' = active /\ wq' = wq /\ pc' = pc /\ arg' = arg /\ calls' = calls /\ accepted' = accepted /\ garbled' = garbled
         /\ at[p] \in {"choose", "write", "empty", "rewind"} /\ at \in [Flushers -> FlushLabels]
         /\ \A r \in Flushers : r # p => at[r] = "idle" /\ at'[r] = "idle"
         /\ p = "force" => wq = "force"
         /\ \A v \in Writers : pc[v] \in Locked => wq = v
         /\ active \in Caches /\ target \in Caches /\ accepted \in Seq(Records)
         /\ queue \in [Caches -> Seq(Requests)] /\ files \in [Files -> Seq(Records)] /\ head \in [Caches -> Nat]
         /\ Swapped' = Swapped /\ QueueMutexLost' = QueueMutexLost
<1>1. active' = active /\ wq' = wq /\ pc' = pc /\ arg' = arg /\ calls' = calls /\ accepted' = accepted /\ garbled' = garbled
  BY DEF Flush, Choose, WriteFile, FailFile, LoopEnds, Empty, Rewind, caches, mutexes, enqueuing
<1>2. at[p] \in {"choose", "write", "empty", "rewind"}
  BY DEF Flush, Choose, WriteFile, FailFile, LoopEnds, Empty, Rewind
<1>3. at \in [Flushers -> FlushLabels]
  BY DEF Held, Typing, Places
<1>4. at' = at \/ \E label : at' = [at EXCEPT ![p] = label]
  BY DEF Flush, Choose, WriteFile, FailFile, LoopEnds, Empty, Rewind, flush
<1>5. \A r \in Flushers : r # p => at[r] = "idle"
  BY <1>2, OneFlusher DEF Busy
<1>6. p = "force" => wq = "force"
  BY <1>2 DEF Held, QueueHeld, Busy
<1>7. /\ \A v \in Writers : pc[v] \in Locked => wq = v
      /\ active \in Caches /\ target \in Caches /\ accepted \in Seq(Records)
      /\ queue \in [Caches -> Seq(Requests)] /\ files \in [Files -> Seq(Records)] /\ head \in [Caches -> Nat]
  BY DEF Held, QueueHeld, Typing, Places, Storage
<1>8. Swapped' = Swapped /\ QueueMutexLost' = QueueMutexLost
  BY <1>1 DEF Swapped, QueueMutexLost
<1>. QED BY <1>1, <1>2, <1>3, <1>4, <1>5, <1>6, <1>7, <1>8

\* The cache that is not active is chosen.
LEMMA ChooseStored ==
  ASSUME Held, Turns, Swaps, NEW p \in Flushers, Choose(p)
  PROVE  Turns' /\ Swaps' /\ (Ordered => Ordered')
<1>. Flush(p)
  BY DEF Flush
<1>1. /\ queue' = queue /\ head' = head /\ files' = files
      /\ target' = Other(active)
      /\ at' = [at EXCEPT ![p] = IF queue[Other(active)] = <<>> THEN "flushed" ELSE "write"]
  BY DEF Choose, caches
<1>2. /\ active' = active /\ wq' = wq /\ pc' = pc /\ accepted' = accepted /\ garbled' = garbled
      /\ at \in [Flushers -> FlushLabels] /\ active \in Caches
      /\ \A r \in Flushers : r # p => at[r] = "idle" /\ at'[r] = "idle"
      /\ Swapped' = Swapped /\ QueueMutexLost' = QueueMutexLost
  BY FlushFrame
<1>3. ~Turned' /\ (Full(active)' <=> Full(active)) /\ (Full(Other(active))' <=> Full(Other(active)))
  BY <1>1, <1>2, Sides DEF Turned, Full
<1>4. \A r \in Flushers : /\ at'[r] \in {"idle", "flushed", "write"}
                          /\ at'[r] = "write" => queue[Other(active)] # <<>>
                          /\ at'[r] = "flushed" => queue[Other(active)] = <<>>
  BY <1>1, <1>2
<1>5. Turns'
  BY <1>1, <1>3, <1>4 DEF Turns
<1>6. Swaps'
  <2>1. at'["force"] = "flushed" => queue[Other(active)] = <<>>
    BY <1>4 DEF Flushers
  <2>. QED BY <1>1, <1>2, <1>3, <2>1 DEF Swaps
<1>8. ASSUME Ordered PROVE Ordered'
  BY <1>1, <1>2, <1>3, <1>8 DEF Ordered
<1>. QED BY <1>5, <1>6, <1>8

\* All requests of the target are flushed: no record can be copied into it before it is empty.
LEMMA LoopEndsStored ==
  ASSUME Held, Turns, Swaps, NEW p \in Flushers, LoopEnds(p)
  PROVE  Turns' /\ Swaps' /\ (Ordered => Ordered')
<1>. Flush(p)
  BY DEF Flush
<1>1. /\ queue' = queue /\ head' = head /\ files' = files /\ target' = target
      /\ at' = [at EXCEPT ![p] = "empty"] /\ at[p] = "write" /\ Unflushed(queue[target]) = {}
  BY DEF LoopEnds, caches
<1>2. /\ active' = active /\ wq' = wq /\ pc' = pc /\ accepted' = accepted /\ garbled' = garbled
      /\ at \in [Flushers -> FlushLabels]
      /\ \A r \in Flushers : r # p => at[r] = "idle" /\ at'[r] = "idle"
      /\ Swapped' = Swapped /\ QueueMutexLost' = QueueMutexLost
  BY FlushFrame
<1>3. (Turned' <=> Turned) /\ (Full(active)' <=> Full(active)) /\ (Full(Other(active))' <=> Full(Other(active)))
  BY <1>1, <1>2 DEF Turned, Full
<1>4. at'[p] = "empty" /\ \A r \in Flushers : at'[r] \in {"idle", "empty"}
  BY <1>1, <1>2
<1>5. Turns'
  <2>1. queue[target] # <<>> /\ (Turned => Full(active) /\ (QueueMutexLost \/ Swapped))
    BY <1>1 DEF Turns
  <2>. QED BY <1>1, <1>2, <1>3, <1>4, <2>1 DEF Turns
<1>6. Swaps'
  <2>1. at'["force"] # "flushed"
    BY <1>4 DEF Flushers
  <2>. QED BY <1>1, <1>2, <1>3, <2>1 DEF Swaps
<1>8. ASSUME Ordered PROVE Ordered'
  <2>1. (\A r \in Flushers : at[r] \in {"write", "empty"} => ~Turned) =>
          \A r \in Flushers : at'[r] \in {"write", "empty"} => ~Turned'
    BY <1>1, <1>2, <1>3
  <2>. QED BY <1>1, <1>2, <1>3, <1>8, <2>1 DEF Ordered
<1>. QED BY <1>5, <1>6, <1>8

\* A batch is written from the older cache, or from one that the other one, still empty,
\* has just been swapped with.
LEMMA WriteFileStored ==
  ASSUME Held, Turns, Swaps, NEW p \in Flushers, WriteFile(p)
  PROVE  Turns' /\ Swaps' /\ (Ordered => Ordered')
<1>. Flush(p)
  BY DEF Flush
<1>2. /\ active' = active /\ wq' = wq /\ pc' = pc /\ accepted' = accepted /\ garbled' = garbled
      /\ active \in Caches /\ target \in Caches /\ queue \in [Caches -> Seq(Requests)]
      /\ files \in [Files -> Seq(Records)]
      /\ Swapped' = Swapped /\ QueueMutexLost' = QueueMutexLost
  BY FlushFrame
<1>3. PICK a \in Seq(Requests) : a = queue[target]
  BY <1>2
<1>4. PICK c \in Seq(Requests) : c = Flag(a, Batch(a))
  BY FlagFacts
<1>5. PICK gs : gs = Written(files, a)
  OBVIOUS
<1>6. /\ at' = at /\ head' = head /\ target' = target /\ at[p] = "write" /\ Unflushed(a) # {}
      /\ queue' = [queue EXCEPT ![target] = c] /\ files' = gs
  BY <1>3, <1>4, <1>5 DEF WriteFile, Store, Written, flush
<1>7. Len(c) = Len(a) /\ (c = <<>> <=> a = <<>>)
  <2>1. Len(c) = Len(a)
    BY <1>4, FlagFacts
  <2>. QED BY <2>1, EmptySeq
<1>8. /\ queue'[target] = c /\ queue' \in [Caches -> Seq(Requests)]
      /\ \A d \in Caches : d # target => queue'[d] = queue[d]
  BY <1>2, <1>6
<1>9. Turned' <=> Turned
  BY <1>2, <1>6 DEF Turned
<1>10. /\ Full(active)' <=> Full(active)
       /\ Full(Other(active))' <=> Full(Other(active))
  <2>1. \A d \in Caches : Len(queue'[d]) = Len(queue[d])
    BY <1>3, <1>7, <1>8
  <2>2. Other(active) \in Caches
    BY <1>2, Sides
  <2>. QED BY <1>2, <1>6, <2>1, <2>2 DEF Full
<1>11. \A d \in Caches : queue'[d] = <<>> <=> queue[d] = <<>>
  BY <1>3, <1>7, <1>8
<1>12. \A r \in Flushers : at[r] \in {"write", "idle"}
  BY <1>6, OneFlusher DEF Busy
<1>13. Turns'
  <2>1. queue[target] # <<>> /\ (Turned => Full(active) /\ (QueueMutexLost \/ Swapped))
    BY <1>6 DEF Turns
  <2>. QED BY <1>2, <1>6, <1>9, <1>10, <1>11, <1>12, <2>1 DEF Turns
<1>14. Swaps'
  <2>1. Other(active) \in Caches
    BY <1>2, Sides
  <2>. QED BY <1>2, <1>6, <1>10, <1>11, <2>1 DEF Swaps
<1>15. PICK b \in Seq(Requests) : b = queue[Other(target)] /\ queue'[Other(target)] = b
  BY <1>2, <1>8, Sides
<1>17. OrderedIn(files, a, b, accepted, garbled) => OrderedIn(files', c, b, accepted', garbled')
  BY <1>2, <1>4, <1>5, <1>6, OrderedWritten
<1>16. SUFFICES ASSUME Ordered PROVE Ordered'
  BY <1>13, <1>14
<1>18. CASE Turned
  <2>1. /\ active = target /\ queue[active] = a /\ queue[Other(active)] = b
        /\ queue'[active] = c /\ queue'[Other(active)] = b
    BY <1>3, <1>8, <1>15, <1>18 DEF Turned
  <2>2. QueueMutexLost \/ Swapped
    BY <1>6, <1>18 DEF Turns
  <2>3. QueueMutexLost \/ OrderedIn(files, a, b, accepted, garbled)
    BY <1>16, <1>6, <1>18, <2>1, <2>2 DEF Ordered
  <2>. QED BY <1>2, <1>17, <2>1, <2>2, <2>3 DEF Ordered
<1>19. CASE ~Turned
  <2>1. active = Other(target) /\ Other(active) = target
    BY <1>2, <1>19 DEF Turned, Caches, Other
  <2>2. queue[active] = b /\ queue[Other(active)] = a /\ queue'[active] = b /\ queue'[Other(active)] = c
    BY <1>3, <1>8, <1>15, <2>1
  <2>3. CASE QueueMutexLost
    BY <1>2, <2>3 DEF Ordered
  <2>4. CASE ~QueueMutexLost /\ ~Swapped
    BY <1>2, <1>16, <1>17, <2>2, <2>4 DEF Ordered
  <2>5. CASE Swapped /\ b = <<>> /\ ~QueueMutexLost
    <3>1. Unflushed(b) = {}
      BY <2>5 DEF Unflushed
    <3>2. OrderedIn(files, b, a, accepted, garbled)
      BY <1>16, <2>2, <2>5 DEF Ordered
    <3>3. OrderedIn(files, a, b, accepted, garbled)
      BY <1>2, <3>1, <3>2, OrderedSides
    <3>4. OrderedIn(files', c, b, accepted', garbled')
      BY <1>17, <3>3
    <3>5. files' \in [Files -> Seq(Records)]
      <4>1. PICK f \in Files : f = a[First(Unflushed(a))].record.file
        BY <1>6, UnflushedFacts
      <4>2. PICK n \in Seq(Records) : n = RecordsOf(a, Batch(a))
        BY NamesFacts
      <4>3. files[f] \o n \in Seq(Records)
        BY <1>2, ConcatProperties
      <4>4. gs = [files EXCEPT ![f] = files[f] \o n]
        BY <1>5, <4>1, <4>2 DEF Written
      <4>. QED BY <1>2, <1>6, <4>3, <4>4
    <3>6. OrderedIn(files', b, c, accepted', garbled')
      BY <3>1, <3>4, <3>5, OrderedSides
    <3>. QED BY <1>2, <2>2, <2>5, <3>6 DEF Ordered
  <2>6. CASE Swapped /\ b # <<>> /\ ~QueueMutexLost
    <3>1. Full(active)
      BY <2>2, <2>6 DEF Swaps
    <3>. QED BY <1>2, <1>6, <1>9, <1>10, <1>19, <2>2, <2>6, <3>1 DEF Ordered
  <2>. QED BY <2>3, <2>4, <2>5, <2>6
<1>. QED BY <1>18, <1>19

\* Only what is flushed is dropped.
LEMMA EmptyStored ==
  ASSUME Held, Turns, Swaps, NEW p \in Flushers, Empty(p)
  PROVE  Turns' /\ Swaps' /\ (Ordered => Ordered')
<1>. Flush(p)
  BY DEF Flush
<1>1. /\ head' = head /\ files' = files /\ target' = target
      /\ at' = [at EXCEPT ![p] = "rewind"] /\ at[p] = "empty"
      /\ queue' = [queue EXCEPT ![target] = <<>>]
  BY DEF Empty
<1>2. /\ active' = active /\ wq' = wq /\ pc' = pc /\ accepted' = accepted /\ garbled' = garbled
      /\ at \in [Flushers -> FlushLabels]
      /\ \A r \in Flushers : r # p => at[r] = "idle" /\ at'[r] = "idle"
      /\ \A v \in Writers : pc[v] \in Locked => wq = v
      /\ active \in Caches /\ target \in Caches /\ queue \in [Caches -> Seq(Requests)]
      /\ Swapped' = Swapped /\ QueueMutexLost' = QueueMutexLost
  BY FlushFrame
<1>3. Turned' <=> Turned
  BY <1>1, <1>2 DEF Turned
<1>4. at'[p] = "rewind" /\ \A r \in Flushers : at'[r] \in {"idle", "rewind"}
  BY <1>1, <1>2
<1>5. queue'[target] = <<>> /\ \A d \in Caches : d # target => queue'[d] = queue[d]
  BY <1>1, <1>2
<1>6. Unflushed(queue[target]) = {} /\ (Turned => QueueMutexLost \/ Swapped)
  BY <1>1 DEF Turns
<1>7. Turns'
  BY <1>1, <1>2, <1>3, <1>4, <1>5, <1>6 DEF Turns
<1>8. Other(active) \in Caches /\ Other(active) # active
  BY <1>2, Sides
<1>9. /\ ~Turned => Full(active)' = Full(active)
      /\ Other(active) # target => Full(Other(active))' = Full(Other(active))
  BY <1>1, <1>2, <1>5, <1>8 DEF Turned, Full
<1>10. Swaps'
  <2>1. at'["force"] # "flushed"
    BY <1>4 DEF Flushers
  <2>2. queue'[Other(active')] = <<>> \/ Full(Other(active))' \/ wq' = "force"
    <3>1. CASE Other(active) = target
      BY <1>2, <1>5, <3>1
    <3>2. CASE Other(active) # target
      BY <1>2, <1>5, <1>8, <1>9, <3>2 DEF Swaps
    <3>. QED BY <3>1, <3>2
  <2>3. Swapped' => queue'[active'] = <<>> \/ Full(active)'
    <3>1. CASE Turned
      BY <1>2, <1>5, <3>1 DEF Turned
    <3>2. CASE ~Turned
      BY <1>2, <1>5, <1>9, <3>2 DEF Turned, Swaps
    <3>. QED BY <3>1, <3>2
  <2>4. \A v \in Writers : pc'[v] \in {"wait", "delay", "swap"} => Full(active)'
    <3>. SUFFICES ASSUME NEW v \in Writers, pc[v] \in {"wait", "delay", "swap"} PROVE Full(active)'
      BY <1>2
    <3>1. ~QueueMutexLost /\ ~Swapped
      BY <1>2 DEF QueueMutexLost, Swapped, Locked
    <3>. QED BY <1>6, <1>9, <3>1 DEF Swaps
  <2>. QED BY <2>1, <2>2, <2>3, <2>4 DEF Swaps
<1>11. PICK a \in Seq(Requests) : a = queue[target]
  BY <1>2
<1>12. PICK e \in Seq(Requests) : e = <<>> /\ Unflushed(e) = {} /\ Rest(e) = Rest(a)
  <2>1. PICK e \in Seq(Requests) : e = <<>>
    BY EmptySeq
  <2>2. Unflushed(e) = {}
    BY <2>1 DEF Unflushed
  <2>3. Rest(e) = <<>> /\ Rest(a) = <<>>
    BY <1>6, <1>11, <2>2, UnflushedFacts
  <2>. QED BY <2>1, <2>2, <2>3
<1>13. \A d \in Caches : Rest(queue'[d]) = Rest(queue[d])
  BY <1>5, <1>11, <1>12
<1>15. ASSUME Ordered PROVE Ordered'
  <2>1. Rest(queue'[active]) = Rest(queue[active]) /\ Rest(queue'[Other(active)]) = Rest(queue[Other(active)])
    BY <1>2, <1>8, <1>13
  <2>2. /\ OrderedIn(files, queue[active], queue[Other(active)], accepted, garbled)
             => OrderedIn(files', queue'[active'], queue'[Other(active')], accepted', garbled')
        /\ OrderedIn(files, queue[Other(active)], queue[active], accepted, garbled)
             => OrderedIn(files', queue'[Other(active')], queue'[active'], accepted', garbled')
    BY <1>1, <1>2, <2>1 DEF OrderedIn, Line
  <2>3. CASE Turned
    BY <1>1, <1>2, <1>15, <2>2, <2>3 DEF Ordered
  <2>4. CASE ~Turned
    <3>1. queue'[active] = queue[active]
      BY <1>2, <1>5, <2>4 DEF Turned
    <3>. QED BY <1>2, <1>3, <1>9, <1>15, <2>2, <2>4, <3>1 DEF Ordered
  <2>. QED BY <2>3, <2>4
<1>. QED BY <1>7, <1>10, <1>15

\* Nobody has seen the cache between its two resets as one that is full.
LEMMA RewindStored ==
  ASSUME Held, Turns, Swaps, NEW p \in Flushers, Rewind(p)
  PROVE  Turns' /\ Swaps' /\ (Ordered => Ordered')
<1>. Flush(p)
  BY DEF Flush
<1>1. /\ queue' = queue /\ files' = files /\ target' = target
      /\ at' = [at EXCEPT ![p] = "flushed"] /\ at[p] = "rewind"
      /\ head' = [head EXCEPT ![target] = 0]
  BY DEF Rewind
<1>2. /\ active' = active /\ wq' = wq /\ pc' = pc /\ accepted' = accepted /\ garbled' = garbled
      /\ at \in [Flushers -> FlushLabels]
      /\ \A r \in Flushers : r # p => at[r] = "idle" /\ at'[r] = "idle"
      /\ \A v \in Writers : pc[v] \in Locked => wq = v
      /\ p = "force" => wq = "force"
      /\ active \in Caches /\ target \in Caches /\ head \in [Caches -> Nat]
      /\ Swapped' = Swapped /\ QueueMutexLost' = QueueMutexLost
  BY FlushFrame
<1>3. Turned' <=> Turned
  BY <1>1, <1>2 DEF Turned
<1>4. at'[p] = "flushed" /\ \A r \in Flushers : at'[r] \in {"idle", "flushed"}
  BY <1>1, <1>2
<1>5. /\ queue[target] = <<>>
      /\ Turned => QueueMutexLost \/ Swapped \/ \E v \in Writers : pc[v] = "copy and notify"
  BY <1>1 DEF Turns
<1>6. Turns'
  BY <1>4 DEF Turns
<1>7. Other(active) \in Caches /\ Other(active) # active /\ (~Turned => target = Other(active))
  BY <1>2, Sides DEF Turned, Caches, Other
<1>8. (~Turned => Full(active)' = Full(active)) /\ (Turned => Full(Other(active))' = Full(Other(active)))
  BY <1>1, <1>2, <1>7 DEF Turned, Full
<1>9. Swaps'
  <2>1. at'["force"] = "flushed" => queue[Other(active)] = <<>>
    <3>1. SUFFICES ASSUME at'["force"] = "flushed" PROVE queue[Other(active)] = <<>>
      OBVIOUS
    <3>2. p = "force" /\ wq = "force"
      BY <1>2, <3>1 DEF Flushers
    <3>3. "force" \notin Writers
      BY WriteCacheAssumption
    <3>4. ~QueueMutexLost /\ ~Swapped /\ \A v \in Writers : pc[v] # "copy and notify"
      BY <1>2, <3>2, <3>3 DEF QueueMutexLost, Swapped, Locked
    <3>. QED BY <1>5, <1>7, <3>4
  <2>2. queue[Other(active)] = <<>> \/ Full(Other(active))' \/ wq = "force"
    <3>1. CASE Turned
      BY <1>8, <3>1 DEF Swaps
    <3>2. CASE ~Turned
      BY <1>5, <1>7, <3>2
    <3>. QED BY <3>1, <3>2
  <2>3. Swapped => queue[active] = <<>> \/ Full(active)'
    <3>1. CASE Turned
      BY <1>5, <3>1 DEF Turned
    <3>2. CASE ~Turned
      BY <1>8, <3>2 DEF Swaps
    <3>. QED BY <3>1, <3>2
  <2>4. \A v \in Writers : pc[v] \in {"wait", "delay", "swap"} => Full(active)'
    <3>. SUFFICES ASSUME NEW v \in Writers, pc[v] \in {"wait", "delay", "swap"} PROVE Full(active)'
      OBVIOUS
    <3>1. ~QueueMutexLost /\ ~Swapped /\ \A u \in Writers : pc[u] # "copy and notify"
      BY <1>2 DEF QueueMutexLost, Swapped, Locked
    <3>. QED BY <1>5, <1>8, <3>1 DEF Swaps
  <2>. QED BY <1>1, <1>2, <2>1, <2>2, <2>3, <2>4 DEF Swaps
<1>11. ASSUME Ordered PROVE Ordered'
  <2>1. CASE Turned
    BY <1>1, <1>2, <1>5, <1>11, <2>1 DEF Ordered, Turned
  <2>2. CASE ~Turned
    BY <1>1, <1>2, <1>3, <1>8, <1>11, <2>2 DEF Ordered
  <2>. QED BY <2>1, <2>2
<1>. QED BY <1>6, <1>9, <1>11

\* A flush that fails leaves the sizes of the caches alone.
LEMMA FailFileStored ==
  ASSUME Held, Turns, Swaps, NEW p \in Flushers, FailFile(p)
  PROVE  Turns' /\ Swaps'
<1>. Flush(p)
  BY DEF Flush
<1>1. /\ active' = active /\ wq' = wq /\ pc' = pc
      /\ at \in [Flushers -> FlushLabels]
      /\ \A r \in Flushers : r # p => at[r] = "idle" /\ at'[r] = "idle"
      /\ active \in Caches /\ target \in Caches /\ queue \in [Caches -> Seq(Requests)]
      /\ Swapped' = Swapped
  BY FlushFrame
<1>2. head' = head /\ at' = [at EXCEPT ![p] = "failed"]
  BY DEF FailFile
<1>3. PICK a \in Seq(Requests) : a = queue[target]
  BY <1>1
<1>4. PICK F : queue' = [queue EXCEPT ![target] = Flag(a, F)]
  BY <1>3, FailFileIs
<1>5. PICK c \in Seq(Requests) : c = Flag(a, F) /\ Len(c) = Len(a) /\ (c = <<>> <=> a = <<>>)
  <2>1. Flag(a, F) \in Seq(Requests) /\ Len(Flag(a, F)) = Len(a)
    BY FlagFacts
  <2>. QED BY <2>1, EmptySeq
<1>6. \A d \in Caches : Len(queue'[d]) = Len(queue[d]) /\ (queue'[d] = <<>> <=> queue[d] = <<>>)
  BY <1>1, <1>3, <1>4, <1>5
<1>7. Other(active) \in Caches
  BY <1>1, Sides
<1>8. (Full(active)' <=> Full(active)) /\ (Full(Other(active))' <=> Full(Other(active)))
  BY <1>1, <1>2, <1>6, <1>7 DEF Full
<1>9. \A r \in Flushers : at'[r] \in {"idle", "failed"}
  BY <1>1, <1>2
<1>10. Turns'
  BY <1>9 DEF Turns
<1>11. Swaps'
  <2>1. at'["force"] # "flushed"
    BY <1>9 DEF Flushers
  <2>. QED BY <1>1, <1>6, <1>7, <1>8, <2>1 DEF Swaps
<1>. QED BY <1>10, <1>11

\* The steps of fs_flush_all: an error may put records out of order.
LEMMA FlushStored ==
  ASSUME Held, Turns, Swaps, NEW p \in Flushers, Flush(p)
  PROVE  Turns' /\ Swaps' /\ (failures' = failures /\ Ordered => Ordered')
<1>1. CASE FailFile(p)
  <2>1. failures' # failures
    <3>1. failures \in Nat
      BY DEF Held, Typing, Counters
    <3>. QED BY <1>1, <3>1 DEF FailFile
  <2>. QED BY <1>1, <2>1, FailFileStored
<1>2. CASE ~FailFile(p)
  BY <1>2, ChooseStored, WriteFileStored, LoopEndsStored, EmptyStored, RewindStored DEF Flush
<1>. QED BY <1>1, <1>2

\* The FILESYSTEM task around a flush, and the tasks that use files.

LEMMA TaskStored ==
  ASSUME Held, Turns, Swaps, Task
  PROVE  Turns' /\ Swaps' /\ (failures' = failures /\ Ordered => Ordered')
<1>1. CASE Flush("task")
  BY <1>1, FlushStored DEF Flushers
<1>2. CASE PollQuiet \/ PollFlush \/ PollBusy \/ FlushEnds
  <2>1. /\ UNCHANGED <<queue, head, active, target, files, accepted, garbled, arg, calls, pc>>
        /\ wq' = wq
    BY <1>2 DEF PollQuiet, PollFlush, PollBusy, FlushEnds, caches, mutexes, enqueuing, flush
  <2>2. at' = at \/ \E label \in {"idle", "choose"} : at' = [at EXCEPT !["task"] = label]
    BY <1>2 DEF PollQuiet, PollFlush, PollBusy, FlushEnds, flush
  <2>3. \A p \in Flushers : at'[p] = at[p] \/ at'[p] \in {"idle", "take", "choose"}
    <3>1. at \in [Flushers -> FlushLabels]
      BY DEF Held, Typing, Places
    <3>. QED BY <2>2, <3>1
  <2>4. QueueMutexLost => QueueMutexLost'
    BY LostStays DEF Next
  <2>. QED BY <2>1, <2>3, <2>4, StillStored
<1>. QED BY <1>1, <1>2 DEF Task

LEMMA UserStored ==
  ASSUME Held, Turns, Swaps, User
  PROVE  Turns' /\ Swaps' /\ (Ordered => Ordered')
<1>1. /\ UNCHANGED <<queue, head, active, target, files, accepted, garbled, arg, calls, pc>>
      /\ wq' = wq /\ at' = at
  BY DEF User, Open, Close, caches, enqueuing, flush
<1>2. QueueMutexLost => QueueMutexLost'
  BY LostStays DEF Next
<1>. QED BY <1>1, <1>2, StillStored

\* fs_force_flush swaps the caches when the one that is not active is empty,
LEMMA ForceSwapStored ==
  ASSUME Held, Turns, Swaps, ForceSwap
  PROVE  Turns' /\ Swaps' /\ (Ordered => Ordered')
<1>1. /\ UNCHANGED <<queue, head, target, files, accepted, garbled, arg, calls, pc>>
      /\ active' = Other(active) /\ wq' = wq
      /\ at["force"] = "flushed" /\ at' = [at EXCEPT !["force"] = "choose"]
  BY DEF ForceSwap, mutexes, enqueuing
<1>2. /\ \A v \in Writers : pc[v] \in Locked => wq = v
      /\ wq = "force" /\ "force" \in Flushers
      /\ active \in Caches /\ queue \in [Caches -> Seq(Requests)] /\ files \in [Files -> Seq(Records)]
      /\ at \in [Flushers -> FlushLabels]
  BY <1>1 DEF Held, QueueHeld, Typing, Places, Storage, Busy, Flushers
<1>3. \A r \in Flushers : at'[r] \in {"idle", "choose"}
  <2>1. \A r \in Flushers : r # "force" => at[r] = "idle"
    BY <1>1, <1>2, OneFlusher DEF Busy
  <2>. QED BY <1>1, <1>2, <2>1
<1>4. ~Swapped /\ ~Swapped' /\ ~QueueMutexLost /\ \A v \in Writers : pc[v] \notin Locked
  <2>1. "force" \notin Writers
    BY WriteCacheAssumption
  <2>. QED BY <1>1, <1>2, <2>1 DEF Swapped, QueueMutexLost, Locked
<1>5. Other(active) \in Caches /\ Other(Other(active)) = active
  BY <1>2, Sides
<1>6. Turns'
  BY <1>3 DEF Turns
<1>7. Swaps'
  <2>1. at'["force"] # "flushed"
    BY <1>2, <1>3
  <2>. QED BY <1>1, <1>2, <1>4, <2>1 DEF Swaps, Locked
<1>9. ASSUME Ordered PROVE Ordered'
  <2>1. PICK a \in Seq(Requests) : a = queue[active]
    BY <1>2
  <2>2. PICK b \in Seq(Requests) : b = queue[Other(active)] /\ b = <<>>
    BY <1>1, <1>2, <1>5 DEF Swaps
  <2>3. Unflushed(b) = {}
    BY <2>2 DEF Unflushed
  <2>4. OrderedIn(files, b, a, accepted, garbled)
    BY <1>4, <1>9, <2>1, <2>2 DEF Ordered
  <2>5. OrderedIn(files, a, b, accepted, garbled)
    BY <1>2, <2>3, <2>4, OrderedSides
  <2>6. OrderedIn(files', queue'[Other(active')], queue'[active'], accepted', garbled')
    BY <1>1, <1>5, <2>1, <2>2, <2>5
  <2>. QED BY <1>4, <2>6 DEF Ordered
<1>. QED BY <1>6, <1>7, <1>9

\* and returns when both are.
LEMMA ForceEndsStored ==
  ASSUME Held, Turns, Swaps, ForceEnds, ~force_failed'
  PROVE  Turns' /\ Swaps' /\ (Ordered => Ordered')
<1>1. /\ UNCHANGED <<queue, head, active, target, files, accepted, garbled, arg, calls, pc>>
      /\ at["force"] \in {"flushed", "failed"} /\ at' = [at EXCEPT !["force"] = "idle"]
  BY DEF ForceEnds, caches, enqueuing
<1>2. /\ \A v \in Writers : pc[v] \in Locked => wq = v
      /\ wq = "force" /\ "force" \in Flushers
      /\ at \in [Flushers -> FlushLabels]
  BY <1>1 DEF Held, QueueHeld, Typing, Places, Storage, Busy, Flushers
<1>3. \A r \in Flushers : at'[r] = "idle"
  <2>1. \A r \in Flushers : r # "force" => at[r] = "idle"
    BY <1>1, <1>2, OneFlusher DEF Busy
  <2>. QED BY <1>1, <1>2, <2>1
<1>4. queue[Other(active)] = <<>>
  <2>1. at["force"] = "flushed"
    BY <1>1, Zenon DEF ForceEnds
  <2>. QED BY <2>1 DEF Swaps
<1>5. ~Swapped /\ ~Swapped' /\ ~QueueMutexLost /\ \A v \in Writers : pc[v] \notin Locked
  <2>1. "force" \notin Writers
    BY WriteCacheAssumption
  <2>. QED BY <1>1, <1>2, <2>1 DEF Swapped, QueueMutexLost, Locked
<1>6. Turns'
  BY <1>3 DEF Turns
<1>7. Swaps'
  BY <1>1, <1>2, <1>3, <1>4, <1>5 DEF Swaps, Locked
<1>9. ASSUME Ordered PROVE Ordered'
  BY <1>1, <1>5, <1>9 DEF Ordered
<1>. QED BY <1>6, <1>7, <1>9

LEMMA ForceStored ==
  ASSUME Held, Turns, Swaps, ForceFlush, ~force_failed'
  PROVE  Turns' /\ Swaps' /\ (failures' = failures /\ Ordered => Ordered')
<1>1. CASE Flush("force")
  BY <1>1, FlushStored DEF Flushers
<1>2. CASE ForceTake \/ ForceTakeQueue \/ ForceTimeout
  <2>1. UNCHANGED <<queue, head, active, target, files, accepted, garbled, arg, calls, pc>>
    BY <1>2 DEF ForceTake, ForceTakeQueue, ForceTimeout, caches, enqueuing
  <2>2. \E label \in {"idle", "take", "choose"} : at' = [at EXCEPT !["force"] = label]
    BY <1>2 DEF ForceTake, ForceTakeQueue, ForceTimeout
  <2>3. \A p \in Flushers : at'[p] = at[p] \/ at'[p] \in {"idle", "take", "choose"}
    <3>1. at \in [Flushers -> FlushLabels]
      BY DEF Held, Typing, Places
    <3>. QED BY <2>2, <3>1
  <2>4. QueueMutexLost => QueueMutexLost'
    BY LostStays DEF Next
  <2>5. wq = "force" => wq' = "force"
    BY <1>2 DEF ForceTake, ForceTakeQueue, ForceTimeout, mutexes
  <2>. QED BY <2>1, <2>3, <2>4, <2>5, StillStored
<1>. QED BY <1>1, <1>2, ForceSwapStored, ForceEndsStored DEF ForceFlush

\* What the properties make exceptions for does not go away.
LEMMA FailuresOnlyGrow ==
  ASSUME Next
  PROVE  failures' = failures \/ failures' = failures + 1
<1>1. ASSUME NEW w \in Writers, Writer(w) PROVE failures' = failures
  BY <1>1 DEF Writer, Call, Take, TakeTimeout, Waited, Delay, DelayEnds, Swap, CheckOther, Copy,
     Notify, using
<1>2. ASSUME NEW p \in Flushers, Flush(p) PROVE failures' = failures \/ failures' = failures + 1
  BY <1>2 DEF Flush, Choose, WriteFile, FailFile, LoopEnds, Empty, Rewind, using
<1>3. CASE PollQuiet \/ PollFlush \/ PollBusy \/ FlushEnds
  BY <1>3 DEF PollQuiet, PollFlush, PollBusy, FlushEnds, using
<1>4. CASE ForceTake \/ ForceTakeQueue \/ ForceTimeout \/ ForceSwap \/ ForceEnds
  BY <1>4 DEF ForceTake, ForceTakeQueue, ForceTimeout, ForceSwap, ForceEnds, using
<1>5. CASE User
  BY <1>5 DEF User, Open, Close
<1>. QED BY <1>1, <1>2, <1>3, <1>4, <1>5 DEF Next, Task, ForceFlush, Flushers

LEMMA CrossedStays ==
  ASSUME Next, crossed
  PROVE  crossed'
<1>1. ASSUME NEW w \in Writers, Writer(w), ~Copy(w) PROVE crossed' = crossed
  BY <1>1 DEF Writer, Call, Take, TakeTimeout, Waited, Delay, DelayEnds, Swap, CheckOther, Notify
<1>2. ASSUME NEW w \in Writers, Copy(w) PROVE crossed'
  <2>1. crossed' = (crossed \/ (target = active /\ \E p \in Flushers : at[p] = "rewind"))
    BY <1>2, Zenon DEF Copy
  <2>. QED BY <2>1, Zenon
<1>3. Task \/ ForceFlush \/ User => crossed' = crossed
  BY DEF Task, PollQuiet, PollFlush, PollBusy, FlushEnds, ForceFlush, ForceTake, ForceTakeQueue,
     ForceTimeout, ForceSwap, ForceEnds,
     Flush, Choose, WriteFile, FailFile, LoopEnds, Empty, Rewind, User, Open, Close, enqueuing
<1>. QED BY <1>1, <1>2, <1>3, Zenon DEF Next

LEMMA GuardedStays ==
  ASSUME Next, Guarded'
  PROVE  Guarded
<1>1. ~crossed
  BY CrossedStays, Zenon DEF Guarded
<1>2. ~force_failed
  <2>1. ASSUME NEW w \in Writers, Writer(w) PROVE force_failed' = force_failed
    BY <2>1 DEF Writer, Call, Take, TakeTimeout, Waited, Delay, DelayEnds, Swap, CheckOther, Copy,
       Notify, flush
  <2>2. ASSUME NEW p \in Flushers, Flush(p) PROVE force_failed' = force_failed
    BY <2>2 DEF Flush, Choose, WriteFile, FailFile, LoopEnds, Empty, Rewind, flush
  <2>3. CASE PollQuiet \/ PollFlush \/ PollBusy \/ FlushEnds \/ User
    BY <2>3 DEF PollQuiet, PollFlush, PollBusy, FlushEnds, User, Open, Close, flush, Guarded
  <2>4. CASE ForceTake \/ ForceTakeQueue \/ ForceTimeout \/ ForceSwap
    BY <2>4 DEF ForceTake, ForceTakeQueue, ForceTimeout, ForceSwap, Guarded
  <2>5. CASE ForceEnds
    <3>1. force_failed' = (force_failed \/ at["force"] = "failed")
      BY <2>5, Zenon DEF ForceEnds
    <3>. QED BY <3>1, Zenon DEF Guarded
  <2>. QED BY <2>1, <2>2, <2>3, <2>4, <2>5 DEF Next, Task, ForceFlush, Flushers, Guarded
<1>. QED BY <1>1, <1>2 DEF Guarded

\* No record is enqueued twice, whatever happens.
LEMMA DistinctKept ==
  ASSUME Held, Distinct, Next
  PROVE  Distinct'
<1>1. /\ pc \in [Writers -> Labels] /\ accepted \in Seq(Records) /\ calls \in Nat
      /\ arg \in [Writers -> Records \cup {NoRecord}]
      /\ \A v \in Underway : arg[v] \in Records /\ arg[v].id # 0
  BY DEF Held, Typing, Storage, Places, Counters, Called, Genuine
<1>2. CASE Task \/ ForceFlush \/ User
  <2>1. enqueuing' = enqueuing
    BY <1>2 DEF Task, PollQuiet, PollFlush, PollBusy, FlushEnds, ForceFlush, ForceTake,
       ForceTakeQueue, ForceTimeout, ForceSwap, ForceEnds, User, Open, Close, Flush, Choose, WriteFile,
       FailFile, LoopEnds, Empty, Rewind
  <2>. QED BY <2>1 DEF enqueuing, Distinct, Underway
<1>3. ASSUME NEW w \in Writers, Call(w) PROVE Distinct'
  <2>1. PICK r \in Records : r.id = calls + 1 /\ arg' = [arg EXCEPT ![w] = r] /\ calls' = calls + 1
    BY <1>3 DEF Call
  <2>2. \A x \in Records : x.id \in Nat
    BY DEF Records
  <2>3. Underway' \subseteq Underway \cup {w} /\ w \notin Underway /\ accepted' = accepted
    BY <1>1, <1>3 DEF Call, Underway, Goto
  <2>4. arg'[w] = r /\ \A v \in Underway : v \in Writers /\ v # w /\ arg'[v] = arg[v]
    BY <1>1, <2>1, <2>3 DEF Underway
  <2>5. \A x \in Range(accepted) : x.id <= calls' /\ x # r
    <3>1. Range(accepted) \subseteq Records
      BY <1>1, SeqFacts
    <3>. QED BY <1>1, <2>1, <2>2, <3>1 DEF Distinct
  <2>6. \A v \in Underway : arg[v].id <= calls' /\ arg[v] # r
    BY <1>1, <2>1, <2>2 DEF Distinct
  <2>. QED BY <1>1, <2>1, <2>2, <2>3, <2>4, <2>5, <2>6 DEF Distinct
<1>4. ASSUME NEW w \in Writers, Copy(w) PROVE Distinct'
  <2>1. PICK x \in Records : x = arg[w] /\ w \in Underway /\ x.id # 0
    BY <1>1, <1>4 DEF Copy, Underway
  <2>2. arg' = arg /\ calls' = calls /\ accepted' = Append(accepted, x)
    BY <1>4, <2>1 DEF Copy
  <2>3. Range(accepted') = Range(accepted) \cup {x}
    BY <1>1, <2>2, AppendRange
  <2>4. Underway' \subseteq Underway \ {w}
    BY <1>1, <1>4 DEF Copy, Underway, Goto
  <2>5. (\A v \in Underway : v # w => arg[v] # x) /\ x.id <= calls
    BY <2>1 DEF Distinct
  <2>. QED BY <2>1, <2>2, <2>3, <2>4, <2>5 DEF Distinct
<1>5. ASSUME NEW w \in Writers, \/ Take(w) \/ TakeTimeout(w) \/ Waited(w) \/ Delay(w) \/ DelayEnds(w)
                                \/ Swap(w) \/ CheckOther(w) \/ Notify(w)
      PROVE  Distinct'
  <2>1. arg' = arg /\ calls' = calls /\ accepted' = accepted
    BY <1>5 DEF Take, TakeTimeout, Waited, Delay, DelayEnds, Swap, CheckOther, Notify
  <2>2. Underway' \subseteq Underway
    BY <1>1, <1>5 DEF Take, TakeTimeout, Waited, Delay, DelayEnds, Swap, CheckOther, Notify, Underway, Goto
  <2>. QED BY <2>1, <2>2 DEF Distinct
<1>. QED BY <1>2, <1>3, <1>4, <1>5 DEF Next, Writer

LEMMA ErrorsKept ==
  ASSUME Held, Errors, Next
  PROVE  Errors'
<1>. SUFFICES ASSUME failures' = 0
              PROVE  lost' = {} /\ ~force_failed' /\ \A p \in Flushers : at'[p] # "failed"
  BY DEF Errors
<1>1. failures = 0 /\ failures' = failures
  <2>1. failures \in Nat
    BY DEF Held, Typing, Counters
  <2>. QED BY <2>1, FailuresOnlyGrow
<1>2. lost = {} /\ ~force_failed /\ (\A p \in Flushers : at[p] # "failed") /\ at \in [Flushers -> FlushLabels]
      /\ "force" \in Flushers
  BY <1>1 DEF Errors, Held, Typing, Places, Flushers
<1>3. ASSUME NEW w \in Writers, Writer(w)
      PROVE  lost' = lost /\ force_failed' = force_failed /\ at' = at
  BY <1>3 DEF Writer, Call, Take, TakeTimeout, Waited, Delay, DelayEnds, Swap, CheckOther, Copy,
     Notify, flush, using
<1>4. ASSUME NEW p \in Flushers, Flush(p)
      PROVE  /\ lost' = lost /\ force_failed' = force_failed
             /\ at' = at \/ \E label \in {"flushed", "write", "empty", "rewind"} : at' = [at EXCEPT ![p] = label]
  <2>1. ~FailFile(p)
    BY <1>1 DEF FailFile
  <2>. QED BY <1>4, <2>1 DEF Flush, Choose, WriteFile, LoopEnds, Empty, Rewind, flush, using
<1>5. CASE PollQuiet \/ PollFlush \/ PollBusy \/ FlushEnds
  <2>1. /\ lost' = lost /\ force_failed' = force_failed
        /\ at' = at \/ \E label \in {"idle", "choose"} : at' = [at EXCEPT !["task"] = label]
    BY <1>5 DEF PollQuiet, PollFlush, PollBusy, FlushEnds, flush, using
  <2>. QED BY <1>2, <2>1
<1>6. CASE ForceTake \/ ForceTakeQueue \/ ForceTimeout \/ ForceSwap
  <2>1. /\ lost' = lost /\ force_failed' = force_failed
        /\ \E label \in {"idle", "take", "choose"} : at' = [at EXCEPT !["force"] = label]
    BY <1>6 DEF ForceTake, ForceTakeQueue, ForceTimeout, ForceSwap, using
  <2>. QED BY <1>2, <2>1
<1>7. CASE ForceEnds
  <2>1. lost' = lost /\ at' = [at EXCEPT !["force"] = "idle"]
    BY <1>7 DEF ForceEnds, using
  <2>2. force_failed' = (force_failed \/ at["force"] = "failed")
    BY <1>7, Zenon DEF ForceEnds
  <2>3. ~force_failed'
    BY <1>2, <2>2, Zenon
  <2>. QED BY <1>2, <2>1, <2>3
<1>8. CASE User
  BY <1>2, <1>8 DEF User, Open, Close, flush
<1>9. ASSUME NEW p \in Flushers, Flush(p)
      PROVE  lost' = {} /\ ~force_failed' /\ \A q \in Flushers : at'[q] # "failed"
  <2>1. CASE at' = at
    BY <1>2, <1>4, <1>9, <2>1
  <2>2. CASE \E label \in {"flushed", "write", "empty", "rewind"} : at' = [at EXCEPT ![p] = label]
    BY <1>2, <1>4, <1>9, <2>2
  <2>. QED BY <1>4, <1>9, <2>1, <2>2
<1>10. ASSUME NEW w \in Writers, Writer(w)
       PROVE  lost' = {} /\ ~force_failed' /\ \A p \in Flushers : at'[p] # "failed"
  BY <1>2, <1>3, <1>10
<1>. QED BY <1>5, <1>6, <1>7, <1>8, <1>9, <1>10 DEF Next, Task, ForceFlush, Flushers

\* How a step changes the number of copies of a record: not at all; by enqueuing it; by a flush
\* that fails, one more, or less if the record is then lost; or by emptying a cache.
LEMMA CopiesSides ==
  ASSUME NEW fs \in [Files -> Seq(Records)], NEW q \in [Caches -> Seq(Requests)], NEW c \in Caches,
         NEW r \in Records
  PROVE  Copies(fs, q[0], q[1], r) = Copies(fs, q[c], q[Other(c)], r) /\ Copies(fs, q[0], q[1], r) \in Nat
<1>1. q[0] \in Seq(Requests) /\ q[1] \in Seq(Requests)
  BY DEF Caches
<1>2. Copies(fs, q[0], q[1], r) \in Nat /\ Copies(fs, q[1], q[0], r) = Copies(fs, q[0], q[1], r)
  BY <1>1, CopiesFacts
<1>3. CASE c = 0
  BY <1>2, <1>3 DEF Other
<1>4. CASE c = 1
  BY <1>2, <1>4 DEF Other
<1>. QED BY <1>3, <1>4 DEF Caches

LEMMA CopyCopies ==
  ASSUME Held, Held', NEW w \in Writers, Copy(w), NEW r \in Genuine
  PROVE  /\ w \in Underway /\ arg[w] \in Genuine
         /\ Range(accepted') = Range(accepted) \cup {arg[w]}
         /\ CopiesOf(r)' <= CopiesOf(r) + (IF r = arg[w] THEN 1 ELSE 0)
         /\ r \notin garbled' => CopiesOf(r)' = CopiesOf(r) + (IF r = arg[w] THEN 1 ELSE 0)
         /\ lost' = lost /\ failures' = failures
<1>. r \in Records
  BY DEF Genuine
<1>1. /\ active \in Caches /\ queue \in [Caches -> Seq(Requests)] /\ queue' \in [Caches -> Seq(Requests)]
      /\ files \in [Files -> Seq(Records)] /\ accepted \in Seq(Records) /\ head \in [Caches -> Nat]
      /\ files' = files /\ lost' = lost /\ failures' = failures
  <2>1. files' = files /\ using' = using
    BY Zenon DEF Copy
  <2>. QED BY <2>1 DEF Held, Typing, Storage, Places, using
<1>2. Other(active) \in Caches /\ Other(active) # active
  BY <1>1, Sides
<1>3. PICK a \in Seq(Requests), b \in Seq(Requests) : a = queue[active] /\ b = queue[Other(active)]
  BY <1>1, <1>2
<1>4. /\ w \in Underway /\ arg[w] \in Genuine
      /\ \E t \in Seq(Requests), e \in Requests :
           /\ queue' = [queue EXCEPT ![active] = Append(t, e)]
           /\ Spoilt(a, t, garbled')
           /\ ~e.flushed
           /\ e.record = arg[w] \/ (e.record.id = 0 /\ arg[w] \in garbled')
  BY <1>3, CopyIs DEF Held, Typing
<1>5. PICK x \in Genuine, gone \in {garbled'} : x = arg[w]
  BY <1>4
<1>6. PICK t \in Seq(Requests), e \in Requests :
         /\ queue' = [queue EXCEPT ![active] = Append(t, e)]
         /\ Spoilt(a, t, gone)
         /\ ~e.flushed
         /\ e.record = x \/ (e.record.id = 0 /\ x \in gone)
  BY <1>4, <1>5
<1>7. PICK d \in Seq(Requests) : d = Append(t, e)
  BY <1>6, RestAppend
<1>8. queue'[active] = d /\ queue'[Other(active)] = b
  BY <1>1, <1>2, <1>3, <1>6, <1>7
<1>9. PICK before \in Nat, spoilt \in Nat :
        /\ before = Copies(files, a, b, r) /\ spoilt = Copies(files, t, b, r)
        /\ spoilt <= before /\ (r \notin gone => spoilt = before)
  <2>1. /\ Times(Rest(t), r) \in Nat /\ Times(Rest(a), r) \in Nat
        /\ Times(Rest(t), r) <= Times(Rest(a), r)
        /\ r \notin gone => Times(Rest(t), r) = Times(Rest(a), r)
    BY <1>6, SpoiltTimes
  <2>2. Times(files[r.file], r) \in Nat /\ Times(Rest(b), r) \in Nat
    BY <1>1, CopiesFacts
  <2>3. Copies(files, a, b, r) = Times(files[r.file], r) + Times(Rest(a), r) + Times(Rest(b), r)
        /\ Copies(files, t, b, r) = Times(files[r.file], r) + Times(Rest(t), r) + Times(Rest(b), r)
    BY DEF Copies
  <2>. QED BY <2>1, <2>2, <2>3
<1>10. Copies(files, d, b, r) = spoilt + (IF r = e.record THEN 1 ELSE 0)
  <2>1. files \in [Files -> Seq(Records)]
    BY <1>1
  <2>2. Copies(files, Append(t, e), b, r) = Copies(files, t, b, r) + (IF r = e.record THEN 1 ELSE 0)
    BY <1>6, <2>1, CopiesCopied
  <2>. QED BY <1>7, <1>9, <2>2
<1>11. CopiesOf(r) = before
  BY <1>1, <1>3, <1>9, CopiesSides DEF CopiesOf
<1>12. CopiesOf(r)' = Copies(files, d, b, r)
  <2>1. PICK q \in [Caches -> Seq(Requests)] : q = queue'
    BY <1>1
  <2>2. Copies(files, q[0], q[1], r) = Copies(files, q[active], q[Other(active)], r)
    BY <1>1, CopiesSides
  <2>. QED BY <1>1, <1>8, <2>1, <2>2 DEF CopiesOf
<1>13. r = e.record => r = x
  BY <1>6 DEF Genuine
<1>14. r = x /\ r \notin gone => r = e.record
  BY <1>6
<1>15. /\ CopiesOf(r)' <= CopiesOf(r) + (IF r = x THEN 1 ELSE 0)
       /\ r \notin gone => CopiesOf(r)' = CopiesOf(r) + (IF r = x THEN 1 ELSE 0)
  BY <1>9, <1>10, <1>11, <1>12, <1>13, <1>14
<1>16. Range(accepted') = Range(accepted) \cup {arg[w]}
  <2>1. accepted' = Append(accepted, x)
    <3>1. accepted' = Append(accepted, arg[w])
      BY Zenon DEF Copy
    <3>. QED BY <1>5, <3>1
  <2>2. x \in Records
    BY DEF Genuine
  <2>. QED BY <1>1, <1>5, <2>1, <2>2, AppendRange
<1>. QED BY <1>1, <1>4, <1>5, <1>15, <1>16

\* The record of which an error may leave one more copy: it is stored, and not flagged.
Twice == queue[target][First(Batch(queue[target]))].record

LEMMA WriteCopies ==
  ASSUME Held, Held', NEW p \in Flushers, WriteFile(p) \/ FailFile(p), NEW r \in Records
  PROVE  /\ FailFile(p) => /\ CopiesOf(r)' <= CopiesOf(r) + 1
                           /\ CopiesOf(r) = 0 => CopiesOf(r)' <= 0
                           /\ lost \subseteq lost'
                           /\ r \notin lost' => CopiesOf(r) <= CopiesOf(r)'
                           /\ r # Twice => CopiesOf(r)' <= CopiesOf(r)
         /\ ~FailFile(p) => CopiesOf(r)' = CopiesOf(r)
<1>1. /\ target \in Caches /\ queue \in [Caches -> Seq(Requests)] /\ queue' \in [Caches -> Seq(Requests)]
      /\ files \in [Files -> Seq(Records)] /\ files' \in [Files -> Seq(Records)]
  BY DEF Held, Typing, Storage, Places
<1>2. Other(target) \in Caches /\ Other(target) # target
  BY <1>1, Sides
<1>3. PICK a \in Seq(Requests), b \in Seq(Requests) : a = queue[target] /\ b = queue[Other(target)]
  BY <1>1, <1>2
<1>4. Unflushed(a) # {}
  BY <1>3 DEF WriteFile, FailFile
<1>5. PICK fs \in [Files -> Seq(Records)], q \in [Caches -> Seq(Requests)] : fs = files' /\ q = queue'
  BY <1>1
<1>6. CopiesOf(r) = Copies(files, a, b, r)
  BY <1>1, <1>3, CopiesSides DEF CopiesOf
<1>7. CopiesOf(r)' = Copies(fs, q[target], q[Other(target)], r)
  <2>1. Copies(fs, q[0], q[1], r) = Copies(fs, q[target], q[Other(target)], r)
    BY <1>1, CopiesSides
  <2>. QED BY <1>5, <2>1 DEF CopiesOf
<1>8. ASSUME NEW K \in SUBSET Batch(a), NEW F \in SUBSET Batch(a), Store(K),
             queue' = [queue EXCEPT ![target] = Flag(a, F)]
      PROVE  CopiesOf(r)' = Copies(StoredIn(files, a, K), Flag(a, F), b, r)
  <2>1. fs = StoredIn(files, a, K)
    BY <1>3, <1>5, <1>8 DEF Store, StoredIn
  <2>2. q[target] = Flag(a, F) /\ q[Other(target)] = b
    BY <1>1, <1>2, <1>3, <1>5, <1>8
  <2>. QED BY <1>7, <2>1, <2>2
<1>9. CASE FailFile(p)
  <2>1. PICK F \in SUBSET Batch(a), K \in SUBSET Batch(a) :
          /\ K = {} \/ (F \subseteq K /\ K \ F \subseteq {First(Batch(a))})
          /\ Store(K)
          /\ queue' = [queue EXCEPT ![target] = Flag(a, F)]
          /\ lost' = lost \cup {a[i].record : i \in F \ K}
    BY <1>3, <1>9, FailFileIs
  <2>2. CopiesOf(r)' = Copies(StoredIn(files, a, K), Flag(a, F), b, r)
    BY <1>8, <2>1
  <2>3. PICK c : c = First(Batch(a))
    OBVIOUS
  <2>4. /\ Copies(StoredIn(files, a, K), Flag(a, F), b, r) <= Copies(files, a, b, r) + 1
        /\ Copies(files, a, b, r) = 0 => Copies(StoredIn(files, a, K), Flag(a, F), b, r) <= 0
        /\ r \notin {a[i].record : i \in F \ K} =>
             Copies(files, a, b, r) <= Copies(StoredIn(files, a, K), Flag(a, F), b, r)
        /\ r # a[c].record => Copies(StoredIn(files, a, K), Flag(a, F), b, r) <= Copies(files, a, b, r)
    BY <1>1, <1>4, <2>1, <2>3, CopiesLeft
  <2>5. lost \subseteq lost' /\ (r \notin lost' => r \notin {a[i].record : i \in F \ K})
    BY <2>1
  <2>6. Twice = a[c].record
    BY <1>3, <2>3 DEF Twice
  <2>. QED BY <1>6, <1>9, <2>2, <2>4, <2>5, <2>6
<1>10. CASE ~FailFile(p)
  <2>1. PICK S : S = Batch(a)
    OBVIOUS
  <2>2. Store(S) /\ queue' = [queue EXCEPT ![target] = Flag(a, S)]
    BY <1>3, <1>10, <2>1 DEF WriteFile
  <2>3. CopiesOf(r)' = Copies(StoredIn(files, a, S), Flag(a, S), b, r)
    BY <1>8, <2>1, <2>2
  <2>4. PICK n \in Nat : Copies(StoredIn(files, a, S), Flag(a, S), b, r) + n = Copies(files, a, b, r) + n
    <3>1. S \in SUBSET Batch(a)
      BY <2>1
    <3>2. /\ Times(RecordsOf(a, S), r) \in Nat
          /\ Copies(StoredIn(files, a, S), Flag(a, S), b, r) + Times(RecordsOf(a, S), r) =
               Copies(files, a, b, r) + Times(RecordsOf(a, S), r)
      BY <1>1, <1>4, <3>1, CopiesStored
    <3>. QED BY <3>2
  <2>5. CopiesOf(r) \in Nat /\ CopiesOf(r)' \in Nat
    <3>1. Copies(fs, q[0], q[1], r) \in Nat
      BY <1>1, CopiesSides
    <3>. QED BY <1>1, <1>5, <3>1, CopiesSides DEF CopiesOf
  <2>. QED BY <1>6, <1>10, <2>3, <2>4, <2>5
<1>. QED BY <1>9, <1>10

LEMMA EmptyCopies ==
  ASSUME Held, Held', NEW p \in Flushers, Empty(p), NEW r \in Records
  PROVE  CopiesOf(r)' <= CopiesOf(r) /\ (Turns => CopiesOf(r)' = CopiesOf(r))
<1>1. /\ target \in Caches /\ queue \in [Caches -> Seq(Requests)] /\ queue' \in [Caches -> Seq(Requests)]
      /\ files \in [Files -> Seq(Records)] /\ files' = files
      /\ queue' = [queue EXCEPT ![target] = <<>>] /\ at[p] = "empty"
  BY DEF Held, Typing, Storage, Places, Empty
<1>2. Other(target) \in Caches /\ Other(target) # target
  BY <1>1, Sides
<1>3. PICK a \in Seq(Requests), b \in Seq(Requests) : a = queue[target] /\ b = queue[Other(target)]
  BY <1>1, <1>2
<1>4. PICK e \in Seq(Requests) : e = <<>>
  BY EmptySeq
<1>5. PICK q \in [Caches -> Seq(Requests)] : q = queue'
  BY <1>1
<1>6. q[target] = e /\ q[Other(target)] = b
  BY <1>1, <1>2, <1>3, <1>4, <1>5
<1>7. CopiesOf(r) = Copies(files, a, b, r)
  <2>1. files \in [Files -> Seq(Records)] /\ queue \in [Caches -> Seq(Requests)] /\ target \in Caches
    BY <1>1
  <2>2. Copies(files, queue[0], queue[1], r) = Copies(files, queue[target], queue[Other(target)], r)
    BY <2>1, CopiesSides
  <2>. QED BY <1>3, <2>2 DEF CopiesOf
<1>8. CopiesOf(r)' = Copies(files, e, b, r)
  <2>1. Copies(files, q[0], q[1], r) = Copies(files, q[target], q[Other(target)], r)
    <3>1. files \in [Files -> Seq(Records)] /\ target \in Caches
      BY <1>1
    <3>. QED BY <3>1, CopiesSides
  <2>. QED BY <1>1, <1>5, <1>6, <2>1 DEF CopiesOf
<1>9. Rest(e) = <<>> /\ (Unflushed(a) = {} => Rest(a) = <<>>)
  <2>1. Unflushed(e) = {}
    BY <1>4 DEF Unflushed
  <2>. QED BY <2>1, UnflushedFacts
<1>10. Times(<<>>, r) = 0
  BY OnlyEmpty DEF Times
<1>11. Times(files[r.file], r) \in Nat /\ Times(Rest(a), r) \in Nat /\ Times(Rest(b), r) \in Nat
  BY <1>1, CopiesFacts
<1>12. CopiesOf(r)' <= CopiesOf(r)
  BY <1>7, <1>8, <1>9, <1>10, <1>11 DEF Copies
<1>13. ASSUME Turns PROVE CopiesOf(r)' = CopiesOf(r)
  <2>1. Unflushed(a) = {}
    BY <1>1, <1>3, <1>13 DEF Turns
  <2>. QED BY <1>7, <1>8, <1>9, <2>1 DEF Copies
<1>. QED BY <1>12, <1>13

LEMMA CopiesStep ==
  ASSUME Held, Held', Next, NEW r \in Genuine
  PROVE  \/ /\ CopiesOf(r)' = CopiesOf(r) /\ failures' >= failures
            /\ accepted' = accepted /\ lost' = lost
         \/ \E w \in Underway : /\ CopiesOf(r)' <= CopiesOf(r) + (IF r = arg[w] THEN 1 ELSE 0)
                                /\ r \notin garbled' =>
                                     CopiesOf(r)' = CopiesOf(r) + (IF r = arg[w] THEN 1 ELSE 0)
                                /\ Range(accepted') = Range(accepted) \cup {arg[w]}
                                /\ lost' = lost /\ failures' = failures
         \/ /\ CopiesOf(r)' <= CopiesOf(r) + 1
            /\ CopiesOf(r) = 0 => CopiesOf(r)' <= 0
            /\ r \notin lost' => CopiesOf(r) <= CopiesOf(r)'
            /\ failures' = failures + 1 /\ lost \subseteq lost' /\ accepted' = accepted
            /\ \E p \in Flushers : FailFile(p)
         \/ /\ CopiesOf(r)' <= CopiesOf(r) /\ (Turns => CopiesOf(r)' = CopiesOf(r))
            /\ accepted' = accepted /\ lost' = lost /\ failures' = failures
<1>. r \in Records
  BY DEF Genuine
<1>0. failures \in Nat
  BY DEF Held, Typing, Counters
<1>1. ASSUME queue' = queue, files' = files, accepted' = accepted, lost' = lost,
             failures' = failures \/ failures' = failures + 1
      PROVE  /\ CopiesOf(r)' = CopiesOf(r) /\ failures' >= failures
             /\ accepted' = accepted /\ lost' = lost
  <2>1. CopiesOf(r)' = CopiesOf(r)
    BY <1>1 DEF CopiesOf
  <2>. QED BY <1>0, <1>1, <2>1
<1>2. ASSUME NEW w \in Writers, Writer(w), ~Copy(w)
      PROVE  queue' = queue /\ files' = files /\ accepted' = accepted /\ lost' = lost /\ failures' = failures
  BY <1>2 DEF Writer, Call, Take, TakeTimeout, Waited, Delay, DelayEnds, Swap, CheckOther, Notify,
     caches, using
<1>3. ASSUME NEW p \in Flushers, Flush(p)
      PROVE  accepted' = accepted /\ (~FailFile(p) => lost' = lost /\ failures' = failures)
             /\ (FailFile(p) => failures' = failures + 1)
             /\ (FailFile(p) \/ WriteFile(p) \/ Empty(p) \/ (queue' = queue /\ files' = files))
  BY <1>3 DEF Flush, Choose, WriteFile, FailFile, LoopEnds, Empty, Rewind, caches, enqueuing, using
<1>4. CASE PollQuiet \/ PollFlush \/ PollBusy \/ FlushEnds
  <2>1. queue' = queue /\ files' = files /\ accepted' = accepted /\ lost' = lost /\ failures' = failures
    BY <1>4 DEF PollQuiet, PollFlush, PollBusy, FlushEnds, caches, enqueuing, using
  <2>. QED BY <1>1, <2>1
<1>5. CASE ForceTake \/ ForceTakeQueue \/ ForceTimeout \/ ForceSwap \/ ForceEnds
  <2>1. queue' = queue /\ files' = files /\ accepted' = accepted /\ lost' = lost /\ failures' = failures
    BY <1>5 DEF ForceTake, ForceTakeQueue, ForceTimeout, ForceSwap, ForceEnds, caches, enqueuing, using
  <2>. QED BY <1>1, <2>1
<1>6. CASE User
  <2>1. queue' = queue /\ files' = files /\ accepted' = accepted /\ lost' = lost
        /\ (failures' = failures \/ failures' = failures + 1)
    BY <1>6 DEF User, Open, Close, caches, enqueuing
  <2>. QED BY <1>1, <2>1
<1>7. CASE \E w \in Writers : Writer(w)
  <2>1. PICK w \in Writers : Writer(w)
    BY <1>7
  <2>2. CASE Copy(w)
    BY <2>2, CopyCopies
  <2>3. CASE ~Copy(w)
    BY <1>1, <1>2, <2>1, <2>3
  <2>. QED BY <2>2, <2>3
<1>8. CASE \E p \in Flushers : Flush(p)
  <2>1. PICK p \in Flushers : Flush(p)
    BY <1>8
  <2>2. CASE FailFile(p)
    BY <1>3, <2>1, <2>2, WriteCopies
  <2>3. CASE WriteFile(p) /\ ~FailFile(p)
    <3>1. CopiesOf(r)' = CopiesOf(r)
      BY <2>3, WriteCopies
    <3>. QED BY <1>0, <1>3, <2>1, <2>3, <3>1
  <2>4. CASE Empty(p) /\ ~FailFile(p)
    BY <1>3, <2>1, <2>4, EmptyCopies
  <2>5. CASE ~FailFile(p) /\ ~WriteFile(p) /\ ~Empty(p)
    BY <1>1, <1>3, <2>1, <2>5
  <2>. QED BY <2>2, <2>3, <2>4, <2>5
<1>. QED BY <1>4, <1>5, <1>6, <1>7, <1>8 DEF Next, Task, ForceFlush, Flushers

LEMMA LimitedKept ==
  ASSUME Held, Held', Distinct, Limited, Next
  PROVE  Limited'
<1>. SUFFICES ASSUME NEW r \in Genuine
              PROVE  CopiesOf(r)' <= IF r \in Range(accepted') THEN 1 + failures' ELSE 0
  BY DEF Limited
<1>. r \in Records
  BY DEF Genuine
<1>1. failures \in Nat /\ failures' \in Nat /\ CopiesOf(r) \in Nat /\ CopiesOf(r)' \in Nat
  <2>1. failures \in Nat /\ failures' \in Nat
    BY DEF Held, Typing, Counters
  <2>2. /\ files \in [Files -> Seq(Records)] /\ queue \in [Caches -> Seq(Requests)]
        /\ files' \in [Files -> Seq(Records)] /\ queue' \in [Caches -> Seq(Requests)]
        /\ 0 \in Caches
    BY DEF Held, Typing, Storage, Caches
  <2>3. PICK fs \in [Files -> Seq(Records)], q \in [Caches -> Seq(Requests)] : fs = files' /\ q = queue'
    BY <2>2
  <2>4. Copies(fs, q[0], q[1], r) \in Nat /\ Copies(files, queue[0], queue[1], r) \in Nat
    BY <2>2, CopiesSides
  <2>. QED BY <2>1, <2>3, <2>4 DEF CopiesOf
<1>2. CopiesOf(r) <= IF r \in Range(accepted) THEN 1 + failures ELSE 0
  BY DEF Limited
<1>3. CASE \E w \in Underway : /\ CopiesOf(r)' <= CopiesOf(r) + (IF r = arg[w] THEN 1 ELSE 0)
                               /\ Range(accepted') = Range(accepted) \cup {arg[w]}
                               /\ lost' = lost /\ failures' = failures
  <2>1. PICK w \in Underway : /\ CopiesOf(r)' <= CopiesOf(r) + (IF r = arg[w] THEN 1 ELSE 0)
                              /\ Range(accepted') = Range(accepted) \cup {arg[w]}
                              /\ failures' = failures
    BY <1>3
  <2>2. arg[w] \notin Range(accepted)
    BY DEF Distinct
  <2>3. CASE r = arg[w]
    BY <1>1, <1>2, <2>1, <2>2, <2>3
  <2>4. CASE r # arg[w]
    BY <1>1, <1>2, <2>1, <2>4
  <2>. QED BY <2>3, <2>4
<1>. QED BY <1>1, <1>2, <1>3, CopiesStep

\* Only an error makes a record stand twice, and only one.
LEMMA RepeatedGrows ==
  ASSUME Held, Held', Distinct, Limited, Next
  PROVE  \/ Repeated' \subseteq Repeated
         \/ failures' = failures + 1 /\ \E x : Repeated' \subseteq Repeated \cup {x}
<1>1. ASSUME NEW r \in Genuine PROVE CopiesOf(r) \in Nat /\ CopiesOf(r)' \in Nat
  <2>. r \in Records
    BY DEF Genuine
  <2>1. /\ files \in [Files -> Seq(Records)] /\ queue \in [Caches -> Seq(Requests)]
        /\ files' \in [Files -> Seq(Records)] /\ queue' \in [Caches -> Seq(Requests)]
        /\ 0 \in Caches
    BY DEF Held, Typing, Storage, Caches
  <2>2. PICK fs \in [Files -> Seq(Records)], q \in [Caches -> Seq(Requests)] : fs = files' /\ q = queue'
    BY <2>1
  <2>3. Copies(fs, q[0], q[1], r) \in Nat /\ Copies(files, queue[0], queue[1], r) \in Nat
    BY <2>1, CopiesSides
  <2>. QED BY <2>2, <2>3 DEF CopiesOf
<1>2. ASSUME NEW p \in Flushers, FailFile(p)
      PROVE  failures' = failures + 1 /\ \E x : Repeated' \subseteq Repeated \cup {x}
  <2>1. failures' = failures + 1
    BY <1>2 DEF FailFile
  <2>2. ASSUME NEW r \in Genuine, CopiesOf(r)' > 1, r # Twice PROVE CopiesOf(r) > 1
    <3>. r \in Records
      BY DEF Genuine
    <3>1. CopiesOf(r)' <= CopiesOf(r)
      BY <1>2, <2>2, WriteCopies
    <3>. QED BY <1>1, <2>2, <3>1
  <2>3. PICK x : x = Twice
    OBVIOUS
  <2>4. Repeated' \subseteq Repeated \cup {x}
    BY <2>2, <2>3 DEF Repeated
  <2>. QED BY <2>1, <2>4
<1>3. CASE \A p \in Flushers : ~FailFile(p)
  <2>1. ASSUME NEW r \in Genuine, CopiesOf(r)' > 1 PROVE CopiesOf(r) > 1
    <3>1. CASE CopiesOf(r)' <= CopiesOf(r)
      BY <1>1, <2>1, <3>1
    <3>2. CASE \E w \in Underway : CopiesOf(r)' <= CopiesOf(r) + (IF r = arg[w] THEN 1 ELSE 0)
      <4>1. PICK w \in Underway : CopiesOf(r)' <= CopiesOf(r) + (IF r = arg[w] THEN 1 ELSE 0)
        BY <3>2
      <4>2. r = arg[w] => CopiesOf(r) <= 0
        BY DEF Distinct, Limited
      <4>. QED BY <1>1, <2>1, <4>1, <4>2
    <3>. QED BY <1>1, <1>3, <3>1, <3>2, CopiesStep
  <2>. QED BY <2>1 DEF Repeated
<1>. QED BY <1>2, <1>3

LEMMA RepeatedKept ==
  ASSUME Held, Held', Distinct, Limited, FewRepeated, Next
  PROVE  FewRepeated'
<1>1. failures \in Nat /\ failures' \in Nat /\ failures <= failures'
  <2>1. failures \in Nat
    BY DEF Held, Typing, Counters
  <2>. QED BY <2>1, FailuresOnlyGrow
<1>2. IsFiniteSet(Repeated) /\ Cardinality(Repeated) <= failures /\ Cardinality(Repeated) \in Nat
  BY FS_CardinalityType DEF FewRepeated
<1>3. PICK S : S = Repeated'
  OBVIOUS
<1>4. CASE S \subseteq Repeated
  <2>1. IsFiniteSet(S) /\ Cardinality(S) <= Cardinality(Repeated) /\ Cardinality(S) \in Nat
    BY <1>2, <1>4, FS_Subset, FS_CardinalityType
  <2>2. Cardinality(S) <= failures'
    BY <1>1, <1>2, <2>1
  <2>. QED BY <1>3, <2>1, <2>2 DEF FewRepeated
<1>5. ASSUME failures' = failures + 1, NEW x, S \subseteq Repeated \cup {x}
      PROVE  FewRepeated'
  <2>1. PICK B : B = Repeated \cup {x}
    OBVIOUS
  <2>2. IsFiniteSet(B) /\ Cardinality(B) <= Cardinality(Repeated) + 1 /\ Cardinality(B) \in Nat
    BY <1>2, <2>1, FS_AddElement, FS_CardinalityType
  <2>3. IsFiniteSet(S) /\ Cardinality(S) <= Cardinality(B) /\ Cardinality(S) \in Nat
    BY <1>5, <2>1, <2>2, FS_Subset, FS_CardinalityType
  <2>4. Cardinality(S) <= failures'
    BY <1>1, <1>2, <1>5, <2>2, <2>3
  <2>. QED BY <1>3, <2>3, <2>4 DEF FewRepeated
<1>. QED BY <1>3, <1>4, <1>5, RepeatedGrows

\* What is garbled stays garbled.
LEMMA GarbledStays ==
  ASSUME Held, Next
  PROVE  garbled \subseteq garbled'
<1>1. ASSUME NEW w \in Writers, Writer(w), ~Copy(w) PROVE garbled' = garbled
  BY <1>1 DEF Writer, Call, Take, TakeTimeout, Waited, Delay, DelayEnds, Swap, CheckOther, Notify
<1>2. ASSUME NEW w \in Writers, Copy(w) PROVE garbled \subseteq garbled'
  <2>1. PICK q \in Seq(Requests) : q = queue[active]
    BY DEF Held, Typing, Storage, Places
  <2>. QED BY <1>2, <2>1, CopyIs DEF Held, Typing
<1>3. Task \/ ForceFlush \/ User => garbled' = garbled
  BY DEF Task, PollQuiet, PollFlush, PollBusy, FlushEnds, ForceFlush, ForceTake, ForceTakeQueue,
     ForceTimeout, ForceSwap, ForceEnds,
     Flush, Choose, WriteFile, FailFile, LoopEnds, Empty, Rewind, User, Open, Close, enqueuing
<1>. QED BY <1>1, <1>2, <1>3 DEF Next

LEMMA PresentKept ==
  ASSUME Held, Held', Distinct', Turns, Present, Next
  PROVE  Present'
<1>. SUFFICES ASSUME NEW r \in Range(accepted'), r \notin lost', r \notin garbled'
              PROVE  CopiesOf(r)' > 0
  BY DEF Present
<1>1. accepted' \in Seq(Records) /\ files \in [Files -> Seq(Records)]
      /\ queue \in [Caches -> Seq(Requests)] /\ 0 \in Caches
  BY DEF Held, Typing, Storage, Caches
<1>2. r \in Records /\ r \in Genuine
  BY <1>1, SeqFacts DEF Distinct, Genuine
<1>3. CopiesOf(r) \in Nat
  BY <1>1, <1>2, CopiesSides DEF CopiesOf
<1>4. ASSUME r \in Range(accepted), r \notin lost PROVE CopiesOf(r) > 0
  BY <1>4, GarbledStays DEF Present
<1>5. CASE /\ CopiesOf(r)' <= CopiesOf(r) + 1
           /\ r \notin lost' => CopiesOf(r) <= CopiesOf(r)'
           /\ lost \subseteq lost' /\ accepted' = accepted
  <2>1. CopiesOf(r) > 0 /\ CopiesOf(r) <= CopiesOf(r)' /\ CopiesOf(r)' \in Nat
    <3>1. files' \in [Files -> Seq(Records)] /\ queue' \in [Caches -> Seq(Requests)]
      BY DEF Held, Typing, Storage
    <3>2. PICK fs \in [Files -> Seq(Records)], q \in [Caches -> Seq(Requests)] : fs = files' /\ q = queue'
      BY <3>1
    <3>3. Copies(fs, q[0], q[1], r) \in Nat
      BY <1>1, <1>2, CopiesSides
    <3>. QED BY <1>4, <1>5, <3>2, <3>3 DEF CopiesOf
  <2>. QED BY <1>3, <2>1
<1>6. CASE \E w \in Underway : /\ r \notin garbled' =>
                                    CopiesOf(r)' = CopiesOf(r) + (IF r = arg[w] THEN 1 ELSE 0)
                               /\ Range(accepted') = Range(accepted) \cup {arg[w]}
                               /\ lost' = lost
  <2>1. PICK w \in Underway : /\ CopiesOf(r)' = CopiesOf(r) + (IF r = arg[w] THEN 1 ELSE 0)
                              /\ Range(accepted') = Range(accepted) \cup {arg[w]}
                              /\ lost' = lost
    BY <1>6
  <2>. QED BY <1>3, <1>4, <2>1
<1>7. CASE CopiesOf(r)' = CopiesOf(r) /\ accepted' = accepted /\ lost' = lost
  BY <1>4, <1>7
<1>. QED BY <1>2, <1>5, <1>6, <1>7, CopiesStep

\* Every step keeps the swaps and the order.
LEMMA OrderKept ==
  ASSUME Held, Turns, Swaps, Next, Guarded'
  PROVE  Turns' /\ Swaps' /\ (failures' = failures /\ Ordered => Ordered')
<1>1. ~crossed' /\ ~force_failed'
  BY DEF Guarded
<1>2. CASE Task
  BY <1>2, TaskStored
<1>3. CASE ForceFlush
  BY <1>1, <1>3, ForceStored
<1>4. CASE User
  BY <1>4, UserStored
<1>5. ASSUME NEW w \in Writers, Writer(w)
      PROVE  Turns' /\ Swaps' /\ (Ordered => Ordered')
  BY <1>1, <1>5, StepStored, SwapStored, CopyStored DEF Writer
<1>. QED BY <1>2, <1>3, <1>4, <1>5 DEF Next

LEMMA NextStored ==
  ASSUME Held, Held', Stored, [Next]_vars
  PROVE  Stored'
<1>1. CASE UNCHANGED vars
  BY <1>1 DEF vars, Stored, Distinct, Limited, FewRepeated, Repeated, CopiesOf, Errors, Guarded, Turns, Turned, Full, Swapped,
     QueueMutexLost, Swaps, Present, Sound, Ordered, Underway
<1>2. CASE Next
  <2>1. Distinct' /\ Limited' /\ FewRepeated' /\ Errors'
    BY <1>2, DistinctKept, LimitedKept, RepeatedKept, ErrorsKept DEF Stored
  <2>2. ASSUME Guarded' PROVE Turns' /\ Swaps' /\ Present' /\ (failures' = failures /\ Ordered => Ordered')
    <3>1. Turns /\ Swaps /\ Present
      BY <1>2, <2>2, GuardedStays DEF Stored
    <3>. QED BY <1>2, <2>1, <2>2, <3>1, OrderKept, PresentKept
  <2>3. ASSUME Sound' PROVE Ordered'
    <3>1. failures = 0 /\ failures' = failures
      <4>1. failures \in Nat /\ failures' = 0
        BY <2>3 DEF Sound, Held, Typing, Counters
      <4>. QED BY <1>2, <4>1, FailuresOnlyGrow
    <3>2. Guarded'
      BY <2>1, <2>3 DEF Errors, Sound, Guarded
    <3>3. Sound
      BY <1>2, <3>1, <3>2, GuardedStays DEF Sound, Guarded
    <3>. QED BY <2>2, <3>1, <3>2, <3>3 DEF Stored
  <2>. QED BY <2>1, <2>2, <2>3 DEF Stored
<1>. QED BY <1>1, <1>2

\* What the invariant says of the two properties, and of a run without errors.
Once ==
  failures = 0 /\ ~crossed =>
    \A r \in Range(accepted) \ garbled : Copied(r) = 1

LEMMA StoredMeans == ASSUME Held, Stored PROVE Conserved /\ InOrder /\ Once
<1>1. /\ active \in Caches /\ queue \in [Caches -> Seq(Requests)] /\ files \in [Files -> Seq(Records)]
      /\ accepted \in Seq(Records) /\ 0 \in Caches
      /\ failures \in Nat /\ crossed \in BOOLEAN /\ force_failed \in BOOLEAN
  BY DEF Held, Typing, Places, Storage, Counters, Flags, Caches
<1>2. Pending(0) = Rest(queue[0]) /\ Pending(1) = Rest(queue[1])
      /\ Pending(active) = Rest(queue[active]) /\ Pending(Other(active)) = Rest(queue[Other(active)])
  BY DEF Pending, Rest
<1>3. ASSUME NEW r \in Range(accepted)
      PROVE  /\ CopiesOf(r) = Copied(r)
             /\ r \in Genuine
             /\ CopiesOf(r) \in Nat
             /\ CopiesOf(r) <= 1 + failures
             /\ r \in lost \cup garbled \/ force_failed \/ crossed \/ CopiesOf(r) > 0
  <2>1. r \in Records /\ r \in Genuine
    BY <1>1, SeqFacts DEF Stored, Distinct, Genuine
  <2>2. CopiesOf(r) \in Nat
    BY <1>1, <2>1, CopiesSides DEF CopiesOf
  <2>3. CopiesOf(r) = Copied(r)
    BY <1>2 DEF CopiesOf, Copies, Copied
  <2>4. CopiesOf(r) <= 1 + failures
    BY <2>1 DEF Stored, Limited
  <2>5. r \in lost \cup garbled \/ force_failed \/ crossed \/ CopiesOf(r) > 0
    BY DEF Stored, Guarded, Present
  <2>. QED BY <2>1, <2>2, <2>3, <2>4, <2>5
<1>4. Conserved
  <2>1. PICK S : S = {r \in Range(accepted) : Copied(r) > 1}
    OBVIOUS
  <2>2. S \subseteq Repeated
    BY <1>3, <2>1 DEF Repeated
  <2>3. Cardinality(S) <= failures
    <3>1. IsFiniteSet(Repeated) /\ Cardinality(Repeated) <= failures
      BY DEF Stored, FewRepeated
    <3>2. IsFiniteSet(S) /\ Cardinality(S) <= Cardinality(Repeated)
      BY <2>2, <3>1, FS_Subset
    <3>3. Cardinality(S) \in Nat /\ Cardinality(Repeated) \in Nat
      BY <3>1, <3>2, FS_CardinalityType
    <3>. QED BY <1>1, <3>1, <3>2, <3>3
  <2>. QED BY <1>3, <2>1, <2>3 DEF Conserved
<1>5. Once
  <2>1. SUFFICES ASSUME failures = 0, ~crossed, NEW r \in Range(accepted), r \notin garbled
                 PROVE  CopiesOf(r) = 1
    BY <1>3 DEF Once
  <2>2. lost = {} /\ ~force_failed
    BY <2>1 DEF Stored, Errors
  <2>. QED BY <1>3, <2>1, <2>2
<1>6. InOrder
  <2>1. CASE Sound
    <3>1. \/ QueueMutexLost
          \/ Swapped
          \/ OrderedIn(files, queue[Other(active)], queue[active], accepted, garbled)
      BY <2>1 DEF Stored, Ordered
    <3>2. OrderedIn(files, queue[Other(active)], queue[active], accepted, garbled) =>
            \A f \in Files :
              Only(OfFile(accepted, f), Intact) =
                Only(files[f] \o OfFile(Pending(Other(active)), f) \o OfFile(Pending(active), f), Intact)
      <4>1. Sure(garbled) = Intact
        BY DEF Sure, Intact
      <4>. QED BY <1>2, <4>1 DEF OrderedIn, Line
    <3>. QED BY <3>1, <3>2 DEF InOrder, Swapped
  <2>2. CASE ~Sound
    BY <1>1, <2>2 DEF Sound, InOrder
  <2>. QED BY <2>1, <2>2
<1>. QED BY <1>4, <1>5, <1>6

\* The writers, the flushers and their mutexes keep every accepted record that no error has lost,
\* and those of a file in order.
THEOREM StoredCorrect == Spec => []Stored
<1>1. Holding /\ QueueHeld /\ Typing => Held
  BY DEF Held
<1>2. FlushInv => Holding /\ QueueHeld
  BY DEF FlushInv
<1>3. Held /\ Held' /\ Stored /\ [Next]_vars => Stored'
  BY NextStored
<1>. QED BY InitStored, <1>1, <1>2, <1>3, FlushInvCorrect, TypingCorrect, PTL DEF Spec

\* The invariant has the properties that follow.
THEOREM MeaningCorrect == Spec => [](Conserved /\ InOrder /\ Once)
<1>1. Holding /\ QueueHeld /\ Typing => Held
  BY DEF Held
<1>2. FlushInv => Holding /\ QueueHeld
  BY DEF FlushInv
<1>3. Held /\ Stored => Conserved /\ InOrder /\ Once
  BY StoredMeans
<1>. QED BY <1>1, <1>2, <1>3, StoredCorrect, FlushInvCorrect, TypingCorrect, PTL

\* A record for which fs_write_enqueue has returned FS_OK is at every moment in its file or among
\* the requests still to be flushed, unless an error of littlefs lost it, fs_force_flush once
\* failed half way, or a record was copied in the middle of the reset of its cache, or it was
\* overwritten by a record too long for its cache, or was that record; and each error puts at
\* most one record once more into its file.  The records may have any sizes.
THEOREM ConservedCorrect == Spec => []Conserved
BY MeaningCorrect, PTL

\* In particular, while littlefs reports no error it is in one place, once, with the last two
\* exceptions.
THEOREM OnceCorrect == Spec => []Once
BY MeaningCorrect, PTL

\* While littlefs reports no error and no call returned with xWriteQueueMutex, every file
\* has its records in the order they were enqueued, except those that were overwritten or too
\* long for their cache, and but for the copy in the middle of a reset.
THEOREM InOrderCorrect == Spec => []InOrder
BY MeaningCorrect, PTL

============================================================================
