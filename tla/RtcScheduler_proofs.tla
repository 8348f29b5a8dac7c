------------------------- MODULE RtcScheduler_proofs -------------------------
(***************************************************************************)
(* The schedule of commands is exact for every number of slots, every set  *)
(* of items and every order of them, and for all timeouts that are as      *)
(* TimeAssumption says: what the alarm dispatches is what is removed.      *)
(***************************************************************************)
EXTENDS RtcScheduler, SequenceLemmas

----------------------------------------------------------------------------
\* The inductive invariant.

\* Where each task holds which mutex.
Mutexes ==
  /\ alarm_mutex = IF pc["rtc"] \in {"callback", "cb", "rearm", "clear"} THEN "rtc" ELSE Free
  /\ schedule_mutex = "rtc" <=> pc["rtc"] \in {"cb", "rearm"}
  /\ schedule_mutex = "imm" <=> pc["imm"] \in {"arm", "arm_wait"}

\* The two lists share no slot, and no two slots of the active one hold the same item.
Partition ==
  /\ IsInjective(active) /\ IsInjective(empty)
  /\ Range(active) \cap Range(empty) = {}
  /\ Len(active) + Len(empty) = Size
  /\ \A s \in Range(active) : storage[s] \in Items
  /\ \A s, t \in Range(active) : storage[s] = storage[t] => s = t
  /\ schedule_mutex # Free => active # <<>>

\* The soonest item, as an alarm.
First == [timestamp |-> storage[Head(active)].timestamp, slot |-> Head(active)]

\* An alarm is always that of a scheduled item; the callback never outlasts the wait of
\* add_item for alarm_mutex, and when that wait began an alarm was going off already.
Alarm ==
  /\ pc["rtc"] \in {"sleep", "handle_alarm", "callback", "cb"} /\ next_alarm # NoAlarm =>
       /\ next_alarm.slot \in Range(active)
       /\ next_alarm.timestamp = storage[next_alarm.slot].timestamp
  /\ pc["rtc"] \in {"callback", "cb"} => next_alarm # NoAlarm
  /\ pc["rtc"] = "cb" => next_alarm.slot = Head(active)
  /\ pc["rtc"] = "callback" => timer["rtc"] <= CallbackTimeout
  /\ pc["imm"] = "arm_wait" =>
       /\ alarm_mutex = Free => next_alarm = NoAlarm
       /\ pc["rtc"] = "callback" => timer["rtc"] < timer["imm"]

\* What add_item is about to add has not been accepted before.
NewItem == pc["imm"] \in {"add", "add_wait"} => item \in Items \ accepted

IInv == TypeOK /\ Mutexes /\ Partition /\ Alarm /\ AlarmIsSoonest /\ NewItem /\ ExactlyOnce

LEMMA SizeFacts == Size \in Nat \ {0} /\ Slots = 0..(Size - 1) /\ Null = Size /\ Null \notin Slots
BY SizeAssumption DEF Slots, Null

\* The lists of slots, entry by entry.
LEMMA ListFacts ==
  ASSUME TypeOK, Partition, active # <<>>
  PROVE  /\ Head(active) = active[1] /\ Head(active) \in Range(active) /\ Head(active) \in Slots
         /\ storage[Head(active)] \in Items
         /\ storage[Head(active)].timestamp \in Nat \ {0}
         /\ storage[Head(active)] # NoItem
         /\ First # NoAlarm /\ First \in [timestamp : Nat, slot : Slots \cup {Null}]
<1>1. active \in Seq(Slots) /\ IsInjective(active)
  BY DEF TypeOK, Partition
<1>2. Head(active) = active[1] /\ active[1] \in Range(active)
  BY <1>1, TailFacts
<1>3. active[1] \in Slots
  <2>1. Len(active) # 0 /\ Len(active) \in Nat /\ \A i \in 1..Len(active) : active[i] \in Slots
    BY <1>1, SeqFacts
  <2> QED
    BY <2>1
<1>4. storage[Head(active)] \in Items
  BY <1>2 DEF Partition
<1>5. storage[Head(active)].timestamp \in Nat \ {0} /\ storage[Head(active)] # NoItem
  BY <1>4, ItemAssumption
<1>6. First.slot \in Slots /\ NoAlarm.slot = Null
  BY <1>2, <1>3 DEF First, NoAlarm
<1> QED
  BY <1>2, <1>3, <1>4, <1>5, <1>6, SizeFacts DEF First

LEMMA InitInv == Init => IInv
<1> SUFFICES ASSUME Init PROVE IInv
  OBVIOUS
<1>1. /\ storage = [s \in Slots |-> NoItem] /\ active = <<>> /\ schedule_mutex = Free
      /\ alarm_mutex = Free /\ next_alarm = NoAlarm /\ epoch = 1 /\ period = Period
      /\ pc = [rtc |-> "sleep", imm |-> "idle"] /\ timer = [t \in Tasks |-> 0]
      /\ item = NoItem /\ accepted = {} /\ dispatched = <<>> /\ sets = 0
  BY DEF Init
<1>2. empty \in Seq(Slots) /\ Len(empty) = Size /\ \A i \in 1..Size : empty[i] = i - 1
  <2>1. empty = [i \in 1..Size |-> i - 1]
    BY DEF Init
  <2>2. \A i \in 1..Size : i - 1 \in Slots
    BY SizeFacts
  <2> QED
    BY SizeFacts, <2>1, <2>2
<1>3. active \in Seq(Slots) /\ Len(active) = 0 /\ Range(active) = {} /\ IsInjective(active)
  <2>1. active \in Seq(Slots) /\ Len(active) = 0
    BY <1>1, EmptySeq
  <2> QED
    BY <2>1, EmptyFacts, Zenon
<1>4. dispatched \in Seq(Items) /\ Range(dispatched) = {} /\ IsInjective(dispatched)
  <2>1. dispatched \in Seq(Items) /\ Len(dispatched) = 0
    BY <1>1, EmptySeq
  <2> QED
    BY <2>1, EmptyFacts, Zenon
<1>5. pc \in [Tasks -> ImmLabels \cup RtcLabels] /\ pc["imm"] = "idle" /\ pc["rtc"] = "sleep"
  BY <1>1 DEF Tasks, ImmLabels, RtcLabels
<1>6. TypeOK
  <2>1. next_alarm \in [timestamp : Nat, slot : Slots \cup {Null}]
    BY <1>1 DEF NoAlarm
  <2>2. epoch \in 1..MaxEpoch /\ period \in 0..Period /\ sets \in 0..MaxSets /\ timer \in [Tasks -> Nat]
    BY <1>1, TimeAssumption
  <2> QED
    BY <1>1, <1>2, <1>3, <1>4, <1>5, <2>1, <2>2 DEF TypeOK, ImmLabels, RtcLabels
<1>7. Mutexes /\ Alarm /\ AlarmIsSoonest /\ NewItem
  BY <1>1, <1>5 DEF Mutexes, Alarm, AlarmIsSoonest, NewItem, Free
<1>8. Partition
  <2>1. IsInjective(empty)
    <3>1. IsInjective(empty) <=> \A i, j \in 1..Len(empty) : empty[i] = empty[j] => i = j
      BY <1>2, SeqFacts
    <3> QED
      BY <1>2, <3>1, SizeFacts
  <2> QED
    BY <1>1, <1>2, <1>3, <2>1, SizeFacts DEF Partition
<1>9. ExactlyOnce
  BY <1>1, <1>3, <1>4, <1>5 DEF ExactlyOnce, Scheduled
<1> QED
  BY <1>6, <1>7, <1>8, <1>9 DEF IInv

----------------------------------------------------------------------------
\* Steps that leave the schedule alone.

LEMMA QuietSchedule ==
  ASSUME IInv, UNCHANGED <<schedule, accepted, dispatched>>,
         schedule_mutex' \in {schedule_mutex, Free},
         pc'["rtc"] = "cb" <=> pc["rtc"] = "cb",
         pc["rtc"] = "cb" => next_alarm' = next_alarm
  PROVE  Partition' /\ ExactlyOnce'
<1>1. Partition'
  BY DEF IInv, Partition, schedule
<1>2. Scheduled' = Scheduled /\ accepted' = accepted /\ dispatched' = dispatched /\ storage' = storage
  BY DEF Scheduled, schedule
<1>3. CASE pc["rtc"] = "cb"
  BY <1>1, <1>2, <1>3 DEF IInv, ExactlyOnce
<1>4. CASE pc["rtc"] # "cb"
  BY <1>1, <1>2, <1>4 DEF IInv, ExactlyOnce
<1> QED
  BY <1>3, <1>4

\* add_item, but for the insertion itself.
LEMMA AddInv ==
  ASSUME IInv, (\E i \in Items : AddItem(i)) \/ AddBlocks \/ AddTimesOut
  PROVE  IInv'
<1>1. /\ pc["imm"] \in {"idle", "add", "add_wait"} /\ pc'["imm"] \in {"idle", "add", "add_wait"}
      /\ pc'["rtc"] = pc["rtc"] /\ pc' \in [Tasks -> ImmLabels \cup RtcLabels]
      /\ timer' \in [Tasks -> Nat] /\ timer'["rtc"] = timer["rtc"]
      /\ UNCHANGED <<schedule, schedule_mutex, next_alarm, alarm_mutex, epoch, period, history, sets>>
  <2>1. pc \in [Tasks -> ImmLabels \cup RtcLabels] /\ timer \in [Tasks -> Nat] /\ AddTimeout \in Nat
    BY TimeAssumption DEF IInv, TypeOK
  <2>2. ASSUME NEW i \in Items, AddItem(i) PROVE <1>1!:
    BY <2>1, <2>2 DEF AddItem, Goto, Tasks, ImmLabels
  <2>3. CASE AddBlocks
    BY <2>1, <2>3 DEF AddBlocks, Await, Goto, Tasks, ImmLabels
  <2>4. CASE AddTimesOut
    BY <2>1, <2>4 DEF AddTimesOut, Goto, Tasks, ImmLabels
  <2> QED
    BY <2>2, <2>3, <2>4
<1>2. item' \in Items \cup {NoItem} /\ NewItem'
  BY DEF IInv, TypeOK, NewItem, AddItem, AddBlocks, AddTimesOut, Await, Goto, history, Tasks, ImmLabels
<1>3. Partition' /\ ExactlyOnce'
  BY <1>1, QuietSchedule DEF history
<1>4. TypeOK'
  BY <1>1, <1>2 DEF IInv, TypeOK, schedule, history, ImmLabels
<1>5. Mutexes' /\ Alarm' /\ AlarmIsSoonest'
  BY <1>1 DEF IInv, Mutexes, Alarm, AlarmIsSoonest, First, schedule
<1> QED
  BY <1>2, <1>3, <1>4, <1>5 DEF IInv

\* update_alarm blocks: an alarm is going off, or has just done so.
LEMMA ArmBlocksInv ==
  ASSUME IInv, ArmBlocks
  PROVE  IInv'
<1>1. /\ pc["imm"] = "arm" /\ pc'["imm"] = "arm_wait" /\ alarm_mutex # Free
      /\ pc'["rtc"] = pc["rtc"] /\ pc' \in [Tasks -> ImmLabels \cup RtcLabels]
      /\ timer' \in [Tasks -> Nat] /\ timer'["rtc"] = timer["rtc"] /\ timer'["imm"] = AlarmTimeout
      /\ UNCHANGED <<schedule, schedule_mutex, next_alarm, alarm_mutex, epoch, period, item, history, sets>>
  BY TimeAssumption DEF IInv, TypeOK, ArmBlocks, Await, Goto, Tasks, ImmLabels
<1>2. Partition' /\ ExactlyOnce'
  BY <1>1, QuietSchedule DEF history
<1>3. TypeOK' /\ NewItem'
  BY <1>1 DEF IInv, TypeOK, NewItem, schedule, history, ImmLabels
<1>4. Mutexes' /\ AlarmIsSoonest'
  BY <1>1 DEF IInv, Mutexes, AlarmIsSoonest, schedule
<1>5. pc'["rtc"] = "callback" => timer'["rtc"] < timer'["imm"]
  <2>1. CallbackTimeout < AlarmTimeout /\ CallbackTimeout \in Nat /\ AlarmTimeout \in Nat
    BY TimeAssumption
  <2>2. timer["rtc"] \in Nat
    BY DEF IInv, TypeOK, Tasks
  <2> QED
    BY <1>1, <2>1, <2>2 DEF IInv, Alarm
<1>6. Alarm'
  BY <1>1, <1>5 DEF IInv, Alarm, schedule
<1> QED
  BY <1>2, <1>3, <1>4, <1>6 DEF IInv

\* update_alarm returns: it has set the alarm for the first item, unless the timeout ended
\* its wait; the callback was over by then.
LEMMA ArmReturnsInv ==
  ASSUME IInv, ArmReturns
  PROVE  IInv'
<1>1. /\ pc["imm"] \in {"arm", "arm_wait"} /\ pc'["imm"] = "idle"
      /\ pc'["rtc"] = pc["rtc"] /\ pc' \in [Tasks -> ImmLabels \cup RtcLabels]
      /\ schedule_mutex' = Free
      /\ UNCHANGED <<schedule, alarm_mutex, epoch, timer, period, item, history, sets>>
  BY DEF IInv, TypeOK, ArmReturns, Goto, Tasks, ImmLabels
<1>2. /\ schedule_mutex = "imm" /\ active # <<>>
      /\ pc["rtc"] \notin {"cb", "rearm"}
      /\ alarm_mutex = Free <=> pc["rtc"] \in {"sleep", "handle_alarm"}
  BY <1>1 DEF IInv, Mutexes, Partition, Free, TypeOK, RtcLabels
<1>3. /\ alarm_mutex = Free => next_alarm' = First
      /\ alarm_mutex # Free => next_alarm' = next_alarm /\ pc["imm"] = "arm_wait" /\ timer["imm"] = 0
  BY <1>1 DEF ArmReturns, Soonest, First, schedule
<1>4. alarm_mutex # Free => pc["rtc"] = "clear"
  <2>1. pc["rtc"] = "callback" /\ alarm_mutex # Free => timer["rtc"] < 0 /\ timer["rtc"] \in Nat
    BY <1>3 DEF IInv, Alarm, TypeOK, Tasks
  <2> QED
    BY <1>2, <2>1 DEF IInv, TypeOK, RtcLabels
<1>5. First # NoAlarm /\ First \in [timestamp : Nat, slot : Slots \cup {Null}]
      /\ First.slot = Head(active) /\ First.timestamp = storage[Head(active)].timestamp
      /\ Head(active) \in Range(active)
  BY <1>2, ListFacts DEF IInv, First
<1>6. Partition' /\ ExactlyOnce'
  BY <1>1, <1>2, QuietSchedule DEF history
<1>7. TypeOK' /\ NewItem'
  <2>1. next_alarm' \in [timestamp : Nat, slot : Slots \cup {Null}]
    BY <1>3, <1>5 DEF IInv, TypeOK
  <2> QED
    BY <1>1, <2>1 DEF IInv, TypeOK, NewItem, schedule, history, ImmLabels, Free
<1>8. Mutexes'
  BY <1>1, <1>2 DEF IInv, Mutexes, Free
<1>9. Alarm'
  BY <1>1, <1>2, <1>3, <1>4, <1>5 DEF IInv, Alarm, schedule
<1>10. AlarmIsSoonest'
  BY <1>1, <1>2, <1>3, <1>4 DEF AlarmIsSoonest, First, schedule
<1> QED
  BY <1>6, <1>7, <1>8, <1>9, <1>10 DEF IInv

\* The clock advances or is set, and nothing but it.
LEMMA ClockInv ==
  ASSUME IInv, Wake \/ \E e \in 1..MaxEpoch : SetTime(e)
  PROVE  IInv'
<1>1. MaxEpoch \in Nat \ {0} /\ MaxSets \in Nat /\ Period \in Nat \ {0} /\ AlarmTimeout \in Nat
  BY TimeAssumption
<1>2. /\ pc'["imm"] = pc["imm"] /\ timer'["imm"] = timer["imm"]
      /\ pc'["rtc"] = pc["rtc"] \/ (pc["rtc"] = "sleep" /\ pc'["rtc"] = "handle_alarm")
      /\ pc'["rtc"] = "callback" => timer'["rtc"] = timer["rtc"]
      /\ pc' \in [Tasks -> ImmLabels \cup RtcLabels] /\ timer' \in [Tasks -> Nat]
      /\ UNCHANGED <<schedule, schedule_mutex, next_alarm, alarm_mutex, item, history>>
  <2>1. pc \in [Tasks -> ImmLabels \cup RtcLabels] /\ timer \in [Tasks -> Nat]
    BY DEF IInv, TypeOK
  <2>2. CASE Wake
    BY <1>1, <2>1, <2>2 DEF Wake, Await, Goto, Tasks, RtcLabels
  <2>3. ASSUME NEW e \in 1..MaxEpoch, SetTime(e) PROVE <1>2!:
    BY <2>1, <2>3 DEF SetTime
  <2> QED
    BY <2>2, <2>3
<1>3. epoch' \in 1..MaxEpoch /\ period' \in 0..Period /\ sets' \in 0..MaxSets
  BY <1>1 DEF IInv, TypeOK, Wake, SetTime
<1>4. Partition' /\ ExactlyOnce'
  BY <1>2, QuietSchedule DEF history
<1>5. TypeOK' /\ NewItem'
  BY <1>2, <1>3 DEF IInv, TypeOK, NewItem, schedule, history, RtcLabels
<1>6. Mutexes' /\ Alarm' /\ AlarmIsSoonest'
  BY <1>2 DEF IInv, Mutexes, Alarm, AlarmIsSoonest, schedule
<1> QED
  BY <1>4, <1>5, <1>6 DEF IInv

\* Time passes: what is left of the callback's wait stays less than what is left of
\* add_item's, since no time passes when the callback's is over.
LEMMA TickInv ==
  ASSUME IInv, Tick
  PROVE  IInv'
<1>1. /\ timer' = [t \in Tasks |-> Less(timer[t])] /\ period' = Less(period)
      /\ UNCHANGED <<schedule, schedule_mutex, next_alarm, alarm_mutex, epoch, pc, item, history, sets>>
      /\ pc["rtc"] = "callback" => timer["rtc"] # 0
  BY DEF Tick, RtcReady
<1>2. timer["rtc"] \in Nat /\ timer["imm"] \in Nat /\ period \in 0..Period /\ Period \in Nat
  BY TimeAssumption DEF IInv, TypeOK, Tasks
<1>3. /\ timer'["rtc"] = Less(timer["rtc"]) /\ timer'["imm"] = Less(timer["imm"])
      /\ timer' \in [Tasks -> Nat] /\ period' \in 0..Period
  BY <1>1, <1>2 DEF Tasks, Less
<1>4. /\ timer'["rtc"] <= timer["rtc"]
      /\ timer["rtc"] # 0 /\ timer["rtc"] < timer["imm"] => timer'["rtc"] < timer'["imm"]
  BY <1>2, <1>3 DEF Less
<1>5. Partition' /\ ExactlyOnce'
  BY <1>1, QuietSchedule DEF history
<1>6. TypeOK' /\ NewItem'
  BY <1>1, <1>3 DEF IInv, TypeOK, NewItem, schedule, history
<1>7. Mutexes' /\ AlarmIsSoonest'
  BY <1>1 DEF IInv, Mutexes, AlarmIsSoonest, schedule
<1>8. Alarm'
  <2>1. CallbackTimeout \in Nat /\ timer'["rtc"] \in Nat
    BY <1>2, <1>3, TimeAssumption DEF Less
  <2>2. pc'["rtc"] = "callback" => timer'["rtc"] <= CallbackTimeout
    BY <1>1, <1>2, <1>4, <2>1 DEF IInv, Alarm
  <2> QED
    BY <1>1, <1>4, <2>2 DEF IInv, Alarm, schedule
<1> QED
  BY <1>5, <1>6, <1>7, <1>8 DEF IInv

\* handle_alarm enters the callback for an alarm that is that of a scheduled item: none
\* is set while add_item waits for alarm_mutex.
LEMMA HandleAlarmInv ==
  ASSUME IInv, HandleAlarm
  PROVE  IInv'
<1>1. /\ pc["rtc"] = "handle_alarm" /\ pc'["rtc"] \in {"callback", "sleep"} /\ pc'["imm"] = pc["imm"]
      /\ pc' \in [Tasks -> ImmLabels \cup RtcLabels] /\ timer' \in [Tasks -> Nat]
      /\ timer'["imm"] = timer["imm"]
      /\ UNCHANGED <<schedule, schedule_mutex, next_alarm, epoch, period, item, history, sets>>
  BY TimeAssumption DEF IInv, TypeOK, HandleAlarm, Await, Goto, Tasks, RtcLabels
<1>2. /\ pc'["rtc"] = "callback" =>
           /\ alarm_mutex = Free /\ alarm_mutex' = "rtc" /\ next_alarm # NoAlarm
           /\ timer'["rtc"] = CallbackTimeout
      /\ pc'["rtc"] = "sleep" => alarm_mutex' = alarm_mutex
  BY DEF IInv, TypeOK, HandleAlarm, Due, Await, Goto, Tasks
<1>3. Partition' /\ ExactlyOnce'
  BY <1>1, QuietSchedule DEF history
<1>4. TypeOK' /\ NewItem'
  BY <1>1, <1>2 DEF IInv, TypeOK, NewItem, schedule, history, RtcLabels, Tasks
<1>5. Mutexes'
  BY <1>1, <1>2 DEF IInv, Mutexes
<1>6. AlarmIsSoonest'
  BY <1>1 DEF IInv, AlarmIsSoonest, schedule
<1>7. Alarm'
  <2>1. CallbackTimeout \in Nat
    BY TimeAssumption
  <2> QED
    BY <1>1, <1>2, <2>1 DEF IInv, Alarm, schedule
<1> QED
  BY <1>3, <1>4, <1>5, <1>6, <1>7 DEF IInv

\* The callback gives up, or the second half of it returns: the alarm is to be cleared.
LEMMA CallbackEndsInv ==
  ASSUME IInv, CallbackTimesOut \/ RearmReturns
  PROVE  IInv'
<1>1. /\ pc["rtc"] \in {"callback", "rearm"} /\ pc'["rtc"] = "clear" /\ pc'["imm"] = pc["imm"]
      /\ pc' \in [Tasks -> ImmLabels \cup RtcLabels]
      /\ UNCHANGED <<schedule, alarm_mutex, epoch, timer, period, item, history, sets>>
  BY DEF IInv, TypeOK, CallbackTimesOut, RearmReturns, Goto, Tasks, RtcLabels
<1>2. alarm_mutex = "rtc" /\ next_alarm' = next_alarm
  BY <1>1 DEF IInv, Mutexes, CallbackTimesOut, RearmReturns, Free
<1>3. schedule_mutex' = IF pc["rtc"] = "rearm" THEN Free ELSE schedule_mutex
  BY DEF CallbackTimesOut, RearmReturns
<1>4. Partition' /\ ExactlyOnce'
  BY <1>1, <1>3, QuietSchedule DEF history
<1>5. TypeOK' /\ NewItem'
  BY <1>1, <1>2, <1>3 DEF IInv, TypeOK, NewItem, schedule, history, RtcLabels
<1>6. Mutexes'
  BY <1>1, <1>2, <1>3 DEF IInv, Mutexes, Free
<1>7. Alarm' /\ AlarmIsSoonest'
  BY <1>1, <1>2, <1>3 DEF IInv, Alarm, AlarmIsSoonest, Free
<1> QED
  BY <1>4, <1>5, <1>6, <1>7 DEF IInv

LEMMA ClearInv ==
  ASSUME IInv, Clear
  PROVE  IInv'
<1>1. /\ pc["rtc"] = "clear" /\ pc'["rtc"] = "sleep" /\ pc'["imm"] = pc["imm"]
      /\ pc' \in [Tasks -> ImmLabels \cup RtcLabels]
      /\ next_alarm' = NoAlarm /\ alarm_mutex' = Free
      /\ UNCHANGED <<schedule, schedule_mutex, epoch, timer, period, item, history, sets>>
  BY DEF IInv, TypeOK, Clear, Goto, Tasks, RtcLabels
<1>2. Partition' /\ ExactlyOnce'
  BY <1>1, QuietSchedule DEF history
<1>3. TypeOK' /\ NewItem'
  <2>1. next_alarm' \in [timestamp : Nat, slot : Slots \cup {Null}]
    BY <1>1 DEF NoAlarm
  <2> QED
    BY <1>1, <2>1 DEF IInv, TypeOK, NewItem, schedule, history, RtcLabels
<1>4. Mutexes' /\ Alarm' /\ AlarmIsSoonest'
  BY <1>1 DEF IInv, Mutexes, Alarm, AlarmIsSoonest
<1> QED
  BY <1>2, <1>3, <1>4 DEF IInv

----------------------------------------------------------------------------
\* Steps that change the schedule or what was dispatched.

\* An insertion: item comes to the slots of the active list, at a slot that was free.
LEMMA Inserted ==
  ASSUME IInv, AddLocked, empty # <<>>
  PROVE  /\ active' \in Seq(Slots) /\ empty' \in Seq(Slots)
         /\ storage' \in [Slots -> Items \cup {NoItem}]
         /\ schedule_mutex = Free /\ schedule_mutex' = "imm" /\ accepted' = accepted \cup {item}
         /\ item \in Items /\ item \notin accepted
         /\ pc'["imm"] = "arm" /\ pc["imm"] \in {"add", "add_wait"} /\ pc["rtc"] \notin {"cb", "rearm"}
         /\ Head(empty) \in Slots \ Range(active)
         /\ Range(active') = Range(active) \cup {Head(empty)} /\ active' # <<>>
         /\ storage'[Head(empty)] = item
         /\ \A s \in Range(active) : s \in Slots /\ storage'[s] = storage[s]
         /\ Scheduled' = Scheduled \cup {item}
         /\ Partition'
<1> DEFINE slot == Head(empty)
<1>1. /\ pc["imm"] \in {"add", "add_wait"} /\ schedule_mutex = Free /\ schedule_mutex' = "imm"
      /\ storage' = [storage EXCEPT ![slot] = item] /\ empty' = Tail(empty)
      /\ accepted' = accepted \cup {item} /\ pc'["imm"] = "arm"
  BY DEF AddLocked, IInv, TypeOK, Goto, Tasks
<1>2. PICK p \in 1..(Len(active) + 1) : active' = InsertAt(active, p, slot)
  BY DEF AddLocked
<1>3. item \in Items /\ item \notin accepted /\ pc["rtc"] \notin {"cb", "rearm"}
  BY <1>1 DEF IInv, NewItem, Mutexes, Free
<1>4. /\ active \in Seq(Slots) /\ empty \in Seq(Slots) /\ IsInjective(active) /\ IsInjective(empty)
      /\ Range(active) \cap Range(empty) = {} /\ Len(active) + Len(empty) = Size
      /\ storage \in [Slots -> Items \cup {NoItem}]
  BY DEF IInv, TypeOK, Partition
<1>5. /\ Tail(empty) \in Seq(Slots) /\ Len(Tail(empty)) = Len(empty) - 1
      /\ IsInjective(Tail(empty)) /\ empty[1] \in Range(empty)
      /\ Range(Tail(empty)) = Range(empty) \ {empty[1]}
  BY <1>4, TailFacts
<1>6. slot = empty[1] /\ empty[1] \in Slots
  <2>1. Len(empty) \in Nat \ {0} /\ \A i \in 1..Len(empty) : empty[i] \in Slots
    BY <1>4, SeqFacts
  <2> QED
    BY <1>4, <2>1
<1> HIDE DEF slot
<1>7. slot \in Slots /\ slot \in Range(empty) /\ slot \notin Range(active)
  BY <1>4, <1>5, <1>6
<1>8. /\ IsInsertion(active', Slots, active, p, slot)
      /\ IsInjective(active') /\ Range(active') = Range(active) \cup {slot}
  BY <1>2, <1>4, <1>7, InsertFacts
<1>9. active' \in Seq(Slots) /\ Len(active') = Len(active) + 1
  BY <1>8 DEF IsInsertion
<1>10. Len(active) \in Nat /\ Len(empty) \in Nat
  BY <1>4, SeqFacts
<1>11. active' # <<>> /\ Len(active') + Len(empty') = Size
  <2>1. Len(active') # 0
    BY <1>9, <1>10
  <2>2. active' = <<>> => Len(active') = 0
    BY EmptySeq
  <2> QED
    BY <1>1, <1>4, <1>5, <1>9, <1>10, <2>1, <2>2
<1>12. \A s \in Range(active) : s \in Slots /\ s # slot
  <2>1. Range(active) = {active[i] : i \in 1..Len(active)} /\ \A i \in 1..Len(active) : active[i] \in Slots
    BY <1>4, SeqFacts
  <2> QED
    BY <1>7, <2>1
<1>13. /\ storage' \in [Slots -> Items \cup {NoItem}] /\ storage'[slot] = item
       /\ \A s \in Range(active) : storage'[s] = storage[s]
  BY <1>1, <1>3, <1>4, <1>7, <1>12
<1>14. Scheduled' = Scheduled \cup {item}
  BY <1>8, <1>13 DEF Scheduled
<1>15. /\ \A s \in Range(active) : storage[s] \in Items /\ storage[s] \in accepted
       /\ \A s, t \in Range(active) : storage[s] = storage[t] => s = t
  BY DEF IInv, Partition, ExactlyOnce, Scheduled
<1>16. /\ \A s \in Range(active') : storage'[s] \in Items
       /\ \A s, t \in Range(active') : storage'[s] = storage'[t] => s = t
  BY <1>3, <1>8, <1>13, <1>15
<1>17. IsInjective(empty') /\ Range(active') \cap Range(empty') = {} /\ empty' \in Seq(Slots)
  BY <1>1, <1>4, <1>5, <1>6, <1>8
<1>18. Partition'
  BY <1>8, <1>11, <1>16, <1>17 DEF Partition
<1> QED
  BY <1>1, <1>3, <1>7, <1>8, <1>9, <1>11, <1>12, <1>13, <1>14, <1>17, <1>18 DEF slot

LEMMA AddLockedInv ==
  ASSUME IInv, AddLocked
  PROVE  IInv'
<1>1. /\ pc["imm"] \in {"add", "add_wait"} /\ schedule_mutex = Free /\ pc'["rtc"] = pc["rtc"]
      /\ pc' \in [Tasks -> ImmLabels \cup RtcLabels] /\ pc'["imm"] \in {"idle", "arm"}
      /\ UNCHANGED <<next_alarm, alarm_mutex, epoch, timer, period, item, dispatched, sets>>
  BY DEF IInv, TypeOK, AddLocked, Goto, Tasks, ImmLabels
<1>2. CASE empty = <<>>
  <2>1. pc'["imm"] = "idle" /\ UNCHANGED <<schedule, schedule_mutex, accepted>>
    BY <1>2 DEF AddLocked, Goto, IInv, TypeOK, Tasks
  <2>2. Partition' /\ ExactlyOnce'
    BY <1>1, <2>1, QuietSchedule
  <2>3. TypeOK' /\ NewItem' /\ Mutexes' /\ Alarm' /\ AlarmIsSoonest'
    BY <1>1, <2>1 DEF IInv, TypeOK, NewItem, Mutexes, Alarm, AlarmIsSoonest, schedule, ImmLabels
  <2> QED
    BY <2>2, <2>3 DEF IInv
<1>3. CASE empty # <<>>
  <2>1. /\ active' \in Seq(Slots) /\ empty' \in Seq(Slots)
        /\ storage' \in [Slots -> Items \cup {NoItem}]
        /\ schedule_mutex' = "imm" /\ accepted' = accepted \cup {item}
        /\ item \in Items /\ item \notin accepted /\ pc'["imm"] = "arm"
        /\ pc["rtc"] \notin {"cb", "rearm"}
        /\ Range(active') = Range(active) \cup {Head(empty)}
        /\ \A s \in Range(active) : storage'[s] = storage[s]
        /\ Scheduled' = Scheduled \cup {item}
        /\ Partition'
    BY <1>3, Inserted
  <2>2. TypeOK' /\ NewItem'
    BY <1>1, <2>1 DEF IInv, TypeOK, NewItem, ImmLabels, Tasks
  <2>3. Mutexes' /\ AlarmIsSoonest'
    BY <1>1, <2>1 DEF IInv, Mutexes, AlarmIsSoonest, Free
  <2>4. Alarm'
    BY <1>1, <2>1 DEF IInv, Alarm
  <2>5. ExactlyOnce'
    BY <1>1, <2>1 DEF IInv, ExactlyOnce
  <2> QED
    BY <2>1, <2>2, <2>3, <2>4, <2>5 DEF IInv
<1> QED
  BY <1>2, <1>3

\* The callback dispatches the item of its alarm, which is the head of the list.
LEMMA CallbackLockedInv ==
  ASSUME IInv, CallbackLocked
  PROVE  IInv' /\ active # <<>> /\ next_alarm.slot = Head(active)
<1>1. /\ pc["rtc"] = "callback" /\ pc'["rtc"] = "cb" /\ pc'["imm"] = pc["imm"]
      /\ schedule_mutex = Free /\ schedule_mutex' = "rtc"
      /\ pc' \in [Tasks -> ImmLabels \cup RtcLabels] /\ timer' \in [Tasks -> Nat]
      /\ timer'["imm"] = timer["imm"]
      /\ dispatched' = Append(dispatched, storage[next_alarm.slot])
      /\ UNCHANGED <<schedule, next_alarm, alarm_mutex, epoch, period, item, accepted, sets>>
  BY TimeAssumption DEF IInv, TypeOK, CallbackLocked, Await, Goto, Tasks, RtcLabels
<1>2. next_alarm # NoAlarm /\ active # <<>> /\ next_alarm.slot = Head(active)
  BY <1>1 DEF IInv, Alarm, AlarmIsSoonest
<1>3. /\ Head(active) \in Range(active) /\ storage[Head(active)] \in Items
      /\ storage[Head(active)] \in Scheduled
  BY <1>2, ListFacts DEF IInv, Scheduled
<1>4. /\ dispatched \in Seq(Items) /\ IsInjective(dispatched)
      /\ Range(dispatched) \cup Scheduled = accepted /\ Range(dispatched) \cap Scheduled = {}
  BY <1>1 DEF IInv, TypeOK, ExactlyOnce
<1>5. /\ dispatched' \in Seq(Items) /\ IsInjective(dispatched')
      /\ Range(dispatched') = Range(dispatched) \cup {storage[Head(active)]}
  BY <1>1, <1>2, <1>3, <1>4, AppendFacts
<1>6. TypeOK' /\ NewItem'
  BY <1>1, <1>5 DEF IInv, TypeOK, NewItem, schedule, RtcLabels, Tasks
<1>7. Mutexes' /\ Alarm' /\ AlarmIsSoonest' /\ Partition'
  BY <1>1, <1>2 DEF IInv, Mutexes, Alarm, AlarmIsSoonest, Partition, Free, schedule
<1>8. ExactlyOnce'
  <2>1. Scheduled' = Scheduled
    BY <1>1 DEF Scheduled, schedule
  <2>2. storage'[next_alarm'.slot] = storage[Head(active)]
    BY <1>1, <1>2 DEF schedule
  <2> QED
    BY <1>1, <1>3, <1>4, <1>5, <2>1, <2>2 DEF ExactlyOnce
<1> QED
  BY <1>2, <1>6, <1>7, <1>8 DEF IInv

\* The item that was dispatched is the one that is removed.
LEMMA CallbackPopsInv ==
  ASSUME IInv, CallbackPops
  PROVE  IInv'
<1>1. /\ pc["rtc"] = "cb" /\ pc'["imm"] = pc["imm"]
      /\ pc' \in [Tasks -> ImmLabels \cup RtcLabels] /\ timer' \in [Tasks -> Nat]
      /\ active' = Tail(active) /\ empty' = <<Head(active)>> \o empty /\ storage' = storage
      /\ \/ active' = <<>> /\ schedule_mutex' = Free /\ pc'["rtc"] = "clear"
         \/ active' # <<>> /\ schedule_mutex' = schedule_mutex /\ pc'["rtc"] = "rearm"
      /\ UNCHANGED <<next_alarm, alarm_mutex, epoch, period, item, history, sets>>
  BY TimeAssumption DEF IInv, TypeOK, CallbackPops, Await, Goto, Tasks, RtcLabels
<1>2. schedule_mutex = "rtc" /\ active # <<>> /\ next_alarm.slot = Head(active) /\ alarm_mutex = "rtc"
      /\ pc["imm"] \notin {"arm", "arm_wait"}
  BY <1>1 DEF IInv, Mutexes, Partition, Alarm, Free
<1>3. /\ Head(active) = active[1] /\ Head(active) \in Range(active) /\ Head(active) \in Slots
  BY <1>2, ListFacts DEF IInv
<1>4. /\ active \in Seq(Slots) /\ empty \in Seq(Slots) /\ IsInjective(active) /\ IsInjective(empty)
      /\ Range(active) \cap Range(empty) = {} /\ Len(active) + Len(empty) = Size
  BY DEF IInv, TypeOK, Partition
<1>5. /\ active' \in Seq(Slots) /\ Len(active') = Len(active) - 1 /\ IsInjective(active')
      /\ Range(active') = Range(active) \ {Head(active)}
  BY <1>1, <1>2, <1>3, <1>4, TailFacts
<1>6. /\ IsInsertion(empty', Slots, empty, 1, Head(active))
      /\ IsInjective(empty') /\ Range(empty') = Range(empty) \cup {Head(active)}
  <2>1. 1 \in 1..(Len(empty) + 1)
    BY <1>4, SeqFacts
  <2>2. empty' = InsertAt(empty, 1, Head(active))
    BY <1>1, <1>3, <1>4, ConsFacts
  <2> QED
    BY <1>3, <1>4, <2>1, <2>2, InsertFacts
<1>7. empty' \in Seq(Slots) /\ Len(empty') = Len(empty) + 1
  BY <1>6 DEF IsInsertion
<1>8. Partition'
  <2>1. Len(active') + Len(empty') = Size
    BY <1>4, <1>5, <1>7, SeqFacts
  <2> QED
    BY <1>1, <1>2, <1>4, <1>5, <1>6, <2>1 DEF IInv, Partition
<1>9. TypeOK' /\ NewItem'
  BY <1>1, <1>2, <1>5, <1>7 DEF IInv, TypeOK, NewItem, history, RtcLabels, Free
<1>10. Mutexes' /\ Alarm' /\ AlarmIsSoonest'
  BY <1>1, <1>2 DEF IInv, Mutexes, Alarm, AlarmIsSoonest, Free
<1>11. ExactlyOnce'
  <2>1. Scheduled' = Scheduled \ {storage[Head(active)]} /\ storage[Head(active)] \in Scheduled
    BY <1>1, <1>3, <1>5 DEF IInv, Partition, Scheduled
  <2>2. /\ Range(dispatched) \cup Scheduled = accepted
        /\ Range(dispatched) \cap Scheduled = {storage[Head(active)]}
    BY <1>1, <1>2 DEF IInv, ExactlyOnce
  <2> QED
    BY <1>1, <2>1, <2>2 DEF IInv, ExactlyOnce, history
<1> QED
  BY <1>8, <1>9, <1>10, <1>11 DEF IInv

LEMMA InvCorrect == Spec => []IInv
<1>1. IInv /\ [Next]_vars => IInv'
  <2> SUFFICES ASSUME IInv, [Next]_vars PROVE IInv'
    OBVIOUS
  <2>1. CASE Imm \/ \E i \in Items : AddItem(i)
    BY <2>1, AddInv, AddLockedInv, ArmBlocksInv, ArmReturnsInv DEF Imm
  <2>2. CASE Rtc \/ \E e \in 1..MaxEpoch : SetTime(e)
    BY <2>2, ClockInv, HandleAlarmInv, CallbackLockedInv, CallbackPopsInv, CallbackEndsInv, ClearInv DEF Rtc
  <2>3. CASE Tick
    BY <2>3, TickInv
  <2>4. CASE UNCHANGED vars
    <3>1. UNCHANGED <<schedule, schedule_mutex, next_alarm, alarm_mutex, epoch, pc, timer, period,
                      item, history, sets>>
      BY <2>4 DEF vars, schedule, history
    <3>2. Partition' /\ ExactlyOnce'
      BY <3>1, QuietSchedule DEF history
    <3>3. TypeOK' /\ Mutexes' /\ Alarm' /\ AlarmIsSoonest' /\ NewItem'
      BY <3>1 DEF IInv, TypeOK, Mutexes, Alarm, AlarmIsSoonest, NewItem, schedule, history
    <3> QED
      BY <3>2, <3>3 DEF IInv
  <2> QED
    BY <2>1, <2>2, <2>3, <2>4 DEF Next
<1> QED
  BY InitInv, <1>1, PTL DEF Spec

----------------------------------------------------------------------------

\* Type correctness: slots stay slots and the storage holds items, however the tasks meet.
THEOREM TypeCorrect == Spec => []TypeOK
<1>1. IInv => TypeOK
  BY DEF IInv
<1> QED
  BY <1>1, InvCorrect, PTL

\* Every item that was accepted is scheduled or was dispatched once, though alarm_callback
\* names it by the slot in its argument and removes whatever is at the head of the list.
THEOREM ExactlyOnceCorrect == Spec => []ExactlyOnce
<1>1. IInv => ExactlyOnce
  BY DEF IInv
<1> QED
  BY <1>1, InvCorrect, PTL

\* Whenever nobody is busy with the schedule, an alarm that is set is that of its head.
THEOREM AlarmIsSoonestCorrect == Spec => []AlarmIsSoonest
<1>1. IInv => AlarmIsSoonest
  BY DEF IInv
<1> QED
  BY <1>1, InvCorrect, PTL

----------------------------------------------------------------------------
\* The refinement: AddLocked accepts, HandleAlarm strikes, CallbackLocked dispatches,
\* CallbackTimesOut misses, and the rest is the clock or not visible.

visible == <<ItemsAt(storage, Pending), Struck, dispatched, epoch>>

\* What is seen of the schedule, entry by entry.
LEMMA ItemsFacts ==
  ASSUME NEW list \in Seq(Slots), NEW stored, \A s \in Range(list) : stored[s] \in Items
  PROVE  /\ ItemsAt(stored, list) \in Seq(Items)
         /\ Len(ItemsAt(stored, list)) = Len(list)
         /\ \A i \in 1..Len(list) : ItemsAt(stored, list)[i] = stored[list[i]]
         /\ Range(ItemsAt(stored, list)) = {stored[s] : s \in Range(list)}
<1> DEFINE q == ItemsAt(stored, list)
<1>1. /\ Len(list) \in Nat /\ \A i \in 1..Len(list) : list[i] \in Slots
      /\ Range(list) = {list[i] : i \in 1..Len(list)}
  BY SeqFacts
<1>2. q = [i \in 1..Len(list) |-> stored[list[i]]]
  BY DEF ItemsAt
<1> HIDE DEF q
<1>3. \A i \in 1..Len(list) : list[i] \in Range(list) /\ stored[list[i]] \in Items
  BY <1>1
<1>4. q \in Seq(Items) /\ Len(q) = Len(list) /\ \A i \in 1..Len(list) : q[i] = stored[list[i]]
  BY <1>1, <1>2, <1>3
<1>5. Range(q) = {q[i] : i \in 1..Len(q)}
  BY <1>4, SeqFacts
<1>6. Range(q) = {stored[s] : s \in Range(list)}
  BY <1>1, <1>4, <1>5
<1> QED
  BY <1>4, <1>6 DEF q

\* Inserting a slot is inserting its item, and taking the first slot away is taking its item away.
LEMMA ItemsInsert ==
  ASSUME NEW list \in Seq(Slots), NEW stored, \A s \in Range(list) : stored[s] \in Items,
         NEW p \in 1..(Len(list) + 1), NEW slot \in Slots, slot \notin Range(list), IsInjective(list),
         NEW new, new[slot] \in Items, \A s \in Range(list) : new[s] = stored[s]
  PROVE  ItemsAt(new, InsertAt(list, p, slot)) = InsertAt(ItemsAt(stored, list), p, new[slot])
<1> DEFINE r == InsertAt(list, p, slot)
           q == ItemsAt(stored, list)
           left == ItemsAt(new, r)
           right == InsertAt(q, p, new[slot])
<1>1. IsInsertion(r, Slots, list, p, slot) /\ Range(r) = Range(list) \cup {slot}
  BY InsertFacts
<1>2. /\ q \in Seq(Items) /\ Len(q) = Len(list)
      /\ \A i \in 1..Len(list) : q[i] = stored[list[i]]
  BY ItemsFacts
<1> HIDE DEF r, q
<1>3. /\ r \in Seq(Slots) /\ Len(r) = Len(list) + 1
      /\ \A i \in 1..(Len(list) + 1) :
           r[i] = IF i < p THEN list[i] ELSE IF i = p THEN slot ELSE list[i - 1]
  BY <1>1 DEF IsInsertion
<1>4. \A s \in Range(r) : new[s] \in Items
  BY <1>1
<1>5. /\ left \in Seq(Items) /\ Len(left) = Len(r)
      /\ \A i \in 1..Len(r) : left[i] = new[r[i]]
  BY <1>3, <1>4, ItemsFacts
<1>6. IsInsertion(right, Items, q, p, new[slot])
  <2>1. p \in 1..(Len(q) + 1)
    BY <1>2
  <2> QED
    BY <1>2, <2>1, InsertAtProperties
<1> HIDE DEF left, right
<1>7. /\ right \in Seq(Items) /\ Len(right) = Len(q) + 1
      /\ \A i \in 1..(Len(q) + 1) :
           right[i] = IF i < p THEN q[i] ELSE IF i = p THEN new[slot] ELSE q[i - 1]
  BY <1>6 DEF IsInsertion
<1>8. Len(list) \in Nat /\ \A i \in 1..Len(list) : list[i] \in Range(list)
  BY SeqFacts
<1>9. ASSUME NEW i \in 1..(Len(list) + 1) PROVE left[i] = right[i]
  <2>1. CASE i < p
    <3>1. i \in 1..Len(list)
      BY <1>8, <2>1
    <3>2. r[i] = list[i] /\ right[i] = q[i] /\ left[i] = new[r[i]]
      BY <1>2, <1>3, <1>5, <1>7, <2>1
    <3> QED
      BY <1>2, <1>8, <3>1, <3>2
  <2>2. CASE i = p
    BY <1>2, <1>3, <1>5, <1>7, <2>2
  <2>3. CASE p < i
    <3>1. i - 1 \in 1..Len(list) /\ ~(i < p) /\ i # p
      BY <1>8, <2>3
    <3>2. r[i] = list[i - 1] /\ right[i] = q[i - 1] /\ left[i] = new[r[i]]
      BY <1>2, <1>3, <1>5, <1>7, <3>1
    <3> QED
      BY <1>2, <1>8, <3>1, <3>2
  <2> QED
    BY <2>1, <2>2, <2>3
<1>10. left = right
  <2>1. Len(left) = Len(right) /\ Len(left) = Len(list) + 1
    BY <1>2, <1>3, <1>5, <1>7
  <2> QED
    BY <1>5, <1>7, <1>9, <2>1, SeqEqual
<1> QED
  BY <1>10 DEF left, right, r, q

LEMMA ItemsTail ==
  ASSUME NEW list \in Seq(Slots), list # <<>>, NEW stored, \A s \in Range(list) : stored[s] \in Items,
         IsInjective(list)
  PROVE  /\ ItemsAt(stored, list) # <<>>
         /\ Head(ItemsAt(stored, list)) = stored[Head(list)]
         /\ Tail(ItemsAt(stored, list)) = ItemsAt(stored, Tail(list))
<1> DEFINE q == ItemsAt(stored, list)
           t == ItemsAt(stored, Tail(list))
<1>1. /\ q \in Seq(Items) /\ Len(q) = Len(list)
      /\ \A i \in 1..Len(list) : q[i] = stored[list[i]]
  BY ItemsFacts
<1>2. /\ Tail(list) \in Seq(Slots) /\ Len(Tail(list)) = Len(list) - 1
      /\ \A i \in 1..(Len(list) - 1) : Tail(list)[i] = list[i + 1]
      /\ \A s \in Range(Tail(list)) : s \in Range(list)
  BY TailFacts
<1>3. /\ t \in Seq(Items) /\ Len(t) = Len(Tail(list))
      /\ \A i \in 1..Len(Tail(list)) : t[i] = stored[Tail(list)[i]]
  BY <1>2, ItemsFacts
<1>4. Len(list) \in Nat \ {0}
  BY SeqFacts
<1> HIDE DEF q, t
<1>5. q # <<>> /\ Head(q) = stored[Head(list)]
  <2>1. q # <<>>
    BY <1>1, <1>4, EmptySeq
  <2> QED
    BY <1>1, <1>4, <2>1
<1>6. /\ Tail(q) \in Seq(Items) /\ Len(Tail(q)) = Len(q) - 1
      /\ \A i \in 1..Len(Tail(q)) : Tail(q)[i] = q[i + 1]
  BY <1>1, <1>5, HeadTailProperties
<1>7. \A i \in 1..(Len(list) - 1) : i + 1 \in 1..Len(list)
  BY <1>4
<1>8. \A i \in 1..Len(Tail(q)) : Tail(q)[i] = t[i]
  BY <1>1, <1>2, <1>3, <1>6, <1>7
<1>9. Tail(q) = t
  BY <1>1, <1>2, <1>3, <1>6, <1>8, SeqEqual
<1> QED
  BY <1>5, <1>9 DEF q, t

LEMMA AddAccepts ==
  ASSUME IInv, AddLocked, empty # <<>>
  PROVE  item \in Items /\ IsTimetable!Accept(item)
<1>1. /\ active \in Seq(Slots) /\ empty \in Seq(Slots) /\ Len(active) + Len(empty) = Size
      /\ IsInjective(active) /\ \A s \in Range(active) : storage[s] \in Items
  BY DEF IInv, TypeOK, Partition
<1>2. /\ item \in Items /\ pc["rtc"] \notin {"cb", "rearm"}
      /\ Head(empty) \in Slots /\ Head(empty) \notin Range(active)
      /\ storage'[Head(empty)] = item
      /\ \A s \in Range(active) : storage'[s] = storage[s]
  BY Inserted
<1>3. pc'["rtc"] = pc["rtc"] /\ UNCHANGED <<next_alarm, epoch, dispatched>>
  BY DEF IInv, TypeOK, AddLocked, Goto, Tasks
<1>4. PICK p \in 1..(Len(active) + 1) :
        Fits(ItemsAt(storage, active), p, item) /\ active' = InsertAt(active, p, Head(empty))
  BY DEF AddLocked
<1>5. Pending = active /\ Pending' = active'
  BY <1>2, <1>3 DEF Pending
<1>6. ItemsAt(storage', active') = InsertAt(ItemsAt(storage, active), p, item)
  BY <1>1, <1>2, <1>4, ItemsInsert
<1>7. Struck' = Struck
  <2>1. CASE pc["rtc"] = "callback"
    <3>1. next_alarm.slot \in Range(active)
      BY <2>1 DEF IInv, Alarm
    <3> QED
      BY <1>2, <1>3, <3>1 DEF Struck
  <2>2. CASE pc["rtc"] # "callback"
    BY <1>3, <2>2 DEF Struck
  <2> QED
    BY <2>1, <2>2
<1>8. Len(ItemsAt(storage, active)) = Len(active) /\ Len(active) < Size
  <2>1. Len(active) \in Nat /\ Len(empty) \in Nat \ {0}
    BY <1>1, SeqFacts
  <2> QED
    BY <1>1, <2>1, ItemsFacts, SizeFacts
<1>9. ItemsAt(storage, Pending)' = IsTimetable!InsertAt(ItemsAt(storage, Pending), p, item)
  BY <1>5, <1>6 DEF IsTimetable!InsertAt, InsertAt, ItemsAt
<1>10. IsTimetable!Fits(ItemsAt(storage, Pending), p, item)
  BY <1>4, <1>5 DEF IsTimetable!Fits, Fits
<1> QED
  BY <1>2, <1>3, <1>5, <1>7, <1>8, <1>9, <1>10 DEF IsTimetable!Accept

LEMMA HandleAlarmStrikes ==
  ASSUME IInv, HandleAlarm
  PROVE  IsTimetable!Strike \/ UNCHANGED visible
<1>1. /\ pc["rtc"] = "handle_alarm" /\ UNCHANGED <<storage, active, next_alarm, epoch, dispatched>>
      /\ pc'["rtc"] = "sleep" \/ (pc'["rtc"] = "callback" /\ Due)
  BY DEF IInv, TypeOK, HandleAlarm, Await, Goto, Tasks, schedule, history
<1>2. Pending = active /\ ItemsAt(storage, Pending)' = ItemsAt(storage, Pending) /\ Struck = NoItem
  BY <1>1 DEF Pending, Struck, ItemsAt
<1>3. CASE pc'["rtc"] = "sleep"
  BY <1>1, <1>2, <1>3 DEF Struck, visible
<1>4. CASE pc'["rtc"] = "callback" /\ Due
  <2>1. /\ next_alarm.slot \in Range(active)
        /\ storage[next_alarm.slot].timestamp = epoch
    BY <1>1, <1>4 DEF IInv, Alarm, Due
  <2>2. Struck' = storage[next_alarm.slot]
    BY <1>1, <1>4 DEF Struck
  <2>3. Range(ItemsAt(storage, active)) = {storage[s] : s \in Range(active)}
    BY ItemsFacts DEF IInv, TypeOK, Partition
  <2>4. Struck' \in {i \in Range(ItemsAt(storage, Pending)) : i.timestamp = epoch}
    BY <1>2, <2>1, <2>2, <2>3
  <2>5. IsTimetable!Range(ItemsAt(storage, Pending)) = Range(ItemsAt(storage, Pending))
    BY DEF IsTimetable!Range, Range
  <2> QED
    BY <1>1, <1>2, <2>4, <2>5 DEF IsTimetable!Strike
<1> QED
  BY <1>1, <1>3, <1>4

LEMMA CallbackDispatches ==
  ASSUME IInv, CallbackLocked
  PROVE  IsTimetable!Dispatch
<1>1. /\ pc["rtc"] = "callback" /\ pc'["rtc"] = "cb"
      /\ dispatched' = Append(dispatched, storage[next_alarm.slot])
      /\ UNCHANGED <<storage, active, next_alarm, epoch>>
  BY DEF IInv, TypeOK, CallbackLocked, Await, Goto, Tasks, schedule
<1>2. active # <<>> /\ next_alarm.slot = Head(active)
  BY CallbackLockedInv
<1>3. active \in Seq(Slots) /\ IsInjective(active) /\ \A s \in Range(active) : storage[s] \in Items
  BY DEF IInv, TypeOK, Partition
<1>4. /\ ItemsAt(storage, active) # <<>>
      /\ Head(ItemsAt(storage, active)) = storage[Head(active)]
      /\ Tail(ItemsAt(storage, active)) = ItemsAt(storage, Tail(active))
  BY <1>2, <1>3, ItemsTail
<1>5. Pending = active /\ Struck = storage[Head(active)] /\ Struck' = NoItem
  BY <1>1, <1>2 DEF Pending, Struck
<1>6. ItemsAt(storage, Pending)' = ItemsAt(storage, Tail(active))
  BY <1>1 DEF Pending, ItemsAt
<1> QED
  BY <1>1, <1>2, <1>4, <1>5, <1>6 DEF IsTimetable!Dispatch

LEMMA CallbackMisses ==
  ASSUME IInv, CallbackTimesOut
  PROVE  IsTimetable!Miss
<1>1. /\ pc["rtc"] = "callback" /\ pc'["rtc"] = "clear"
      /\ UNCHANGED <<storage, active, epoch, dispatched>>
  BY DEF IInv, TypeOK, CallbackTimesOut, Goto, Tasks, schedule, history
<1>2. Struck # NoItem
  BY <1>1, ItemAssumption DEF IInv, Alarm, Partition, Struck
<1>3. ItemsAt(storage, Pending)' = ItemsAt(storage, Pending) /\ Struck' = NoItem
  BY <1>1 DEF Pending, Struck, ItemsAt
<1> QED
  BY <1>1, <1>2, <1>3 DEF IsTimetable!Miss

\* The steps that the timetable does not see, and those of the clock.
LEMMA OthersUnseen ==
  ASSUME IInv, \/ \E i \in Items : AddItem(i)
               \/ AddBlocks \/ AddTimesOut \/ ArmBlocks \/ ArmReturns
               \/ CallbackPops \/ RearmReturns \/ Clear \/ Tick
  PROVE  UNCHANGED visible
<1>0. pc \in [Tasks -> ImmLabels \cup RtcLabels]
  BY DEF IInv, TypeOK
<1>1. CASE CallbackPops
  <2>1. /\ pc["rtc"] = "cb" /\ pc'["rtc"] \in {"clear", "rearm"} /\ active' = Tail(active)
        /\ UNCHANGED <<storage, dispatched, epoch>>
    BY <1>0, <1>1 DEF CallbackPops, Await, Goto, Tasks, history
  <2>2. ItemsAt(storage, Pending)' = ItemsAt(storage, Pending) /\ Struck' = Struck
    BY <2>1 DEF Pending, Struck, ItemsAt
  <2> QED
    BY <2>1, <2>2 DEF visible
<1>2. CASE RearmReturns \/ Clear
  <2>1. /\ pc["rtc"] \in {"rearm", "clear"} /\ pc'["rtc"] \in {"clear", "sleep"}
        /\ UNCHANGED <<storage, active, dispatched, epoch>>
    BY <1>0, <1>2 DEF RearmReturns, Clear, Goto, Tasks, schedule, history
  <2>2. ItemsAt(storage, Pending)' = ItemsAt(storage, Pending) /\ Struck' = Struck
    BY <2>1 DEF Pending, Struck, ItemsAt
  <2> QED
    BY <2>1, <2>2 DEF visible
<1>3. CASE ArmReturns
  <2>1. /\ pc'["rtc"] = pc["rtc"] /\ UNCHANGED <<storage, active, dispatched, epoch>>
        /\ pc["rtc"] = "callback" => next_alarm' = next_alarm
    BY <1>0, <1>3 DEF IInv, Mutexes, ArmReturns, Goto, Tasks, schedule, history, Free
  <2>2. ItemsAt(storage, Pending)' = ItemsAt(storage, Pending) /\ Struck' = Struck
    BY <2>1 DEF Pending, Struck, ItemsAt
  <2> QED
    BY <2>1, <2>2 DEF visible
<1>4. CASE \/ \E i \in Items : AddItem(i)
           \/ AddBlocks \/ AddTimesOut \/ ArmBlocks \/ Tick
  <2>1. pc'["rtc"] = pc["rtc"] /\ UNCHANGED <<storage, active, dispatched, epoch, next_alarm>>
    BY <1>0, <1>4 DEF AddItem, AddBlocks, AddTimesOut, ArmBlocks, Tick, Await, Goto, Tasks, schedule, history
  <2>2. ItemsAt(storage, Pending)' = ItemsAt(storage, Pending) /\ Struck' = Struck
    BY <2>1 DEF Pending, Struck, ItemsAt
  <2> QED
    BY <2>1, <2>2 DEF visible
<1> QED
  BY <1>1, <1>2, <1>3, <1>4

LEMMA ClockSteps ==
  ASSUME IInv, Wake \/ \E e \in 1..MaxEpoch : SetTime(e)
  PROVE  IsTimetable!Clock
<1>1. pc \in [Tasks -> ImmLabels \cup RtcLabels] /\ epoch \in 1..MaxEpoch /\ MaxEpoch \in Nat
  BY TimeAssumption DEF IInv, TypeOK
<1>2. /\ epoch' \in 1..MaxEpoch /\ UNCHANGED <<storage, active, dispatched, next_alarm>>
      /\ \/ pc'["rtc"] = pc["rtc"]
         \/ pc["rtc"] = "sleep" /\ pc'["rtc"] = "handle_alarm"
  BY <1>1 DEF Wake, SetTime, Await, Goto, Tasks, schedule, history
<1>3. ItemsAt(storage, Pending)' = ItemsAt(storage, Pending) /\ Struck' = Struck
  BY <1>2 DEF Pending, Struck, ItemsAt
<1> QED
  BY <1>2, <1>3 DEF IsTimetable!Clock

\* Seen from outside the scheduler is a timetable: whatever the two tasks, the timeouts and
\* the clock do, an item is dispatched only by its own alarm, at its own second, and only as
\* the first of those pending.
THEOREM Implements == Spec => ImplementsTimetable
<1>1. Init => IsTimetable!Init
  <2> SUFFICES ASSUME Init PROVE IsTimetable!Init
    OBVIOUS
  <2>1. active = <<>> /\ pc["rtc"] = "sleep" /\ dispatched = <<>> /\ epoch = 1
    BY DEF Init
  <2>2. Len(active) = 0
    BY <2>1, EmptySeq
  <2>3. ItemsAt(storage, Pending) = <<>> /\ Struck = NoItem
    BY <2>1, <2>2 DEF Pending, Struck, ItemsAt
  <2> QED
    BY <2>1, <2>3 DEF IsTimetable!Init
<1>2. IInv /\ [Next]_vars => [IsTimetable!Next]_(IsTimetable!vars)
  <2> SUFFICES ASSUME IInv, [Next]_vars PROVE IsTimetable!Next \/ UNCHANGED visible
    BY DEF IsTimetable!vars, visible
  <2>1. CASE AddLocked
    <3>1. CASE empty = <<>>
      <4>1. UNCHANGED <<storage, active, next_alarm, epoch, dispatched>> /\ pc'["rtc"] = pc["rtc"]
        BY <2>1, <3>1 DEF IInv, TypeOK, AddLocked, Goto, Tasks, schedule
      <4> QED
        BY <4>1 DEF visible, Pending, Struck, ItemsAt
    <3>2. CASE empty # <<>>
      BY <2>1, <3>2, AddAccepts DEF IsTimetable!Next
    <3> QED
      BY <3>1, <3>2
  <2>2. CASE HandleAlarm
    BY <2>2, HandleAlarmStrikes DEF IsTimetable!Next
  <2>3. CASE CallbackLocked
    BY <2>3, CallbackDispatches DEF IsTimetable!Next
  <2>4. CASE CallbackTimesOut
    BY <2>4, CallbackMisses DEF IsTimetable!Next
  <2>5. CASE Wake \/ \E e \in 1..MaxEpoch : SetTime(e)
    BY <2>5, ClockSteps DEF IsTimetable!Next
  <2>6. CASE \/ \E i \in Items : AddItem(i)
             \/ AddBlocks \/ AddTimesOut \/ ArmBlocks \/ ArmReturns
             \/ CallbackPops \/ RearmReturns \/ Clear \/ Tick
    BY <2>6, OthersUnseen
  <2>7. CASE UNCHANGED vars
    BY <2>7 DEF vars, visible, Pending, Struck, ItemsAt
  <2> QED
    BY <2>1, <2>2, <2>3, <2>4, <2>5, <2>6, <2>7 DEF Next, Imm, Rtc
<1> QED
  BY <1>1, <1>2, InvCorrect, PTL DEF Spec, ImplementsTimetable, IsTimetable!Spec

=============================================================================
