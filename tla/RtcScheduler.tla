---------------------------- MODULE RtcScheduler ----------------------------
(***************************************************************************)
(* The schedule of commands: system/rtc_scheduler/rtc_scheduler.c on top   *)
(* of the alarm of device-mock/rtc_mock.c, the RTC both platforms are      *)
(* built with.                                                             *)
(*                                                                         *)
(* Two tasks use it.  The CMD_SYS_IMM task (priority 3) adds items; it     *)
(* takes schedule_mutex and then, to set the alarm, alarm_mutex.  The      *)
(* RTC_MOCK task (priority 6) wakes every second, advances the clock,      *)
(* takes alarm_mutex and, when the alarm is due, runs alarm_callback,      *)
(* which takes schedule_mutex and, to set the next alarm, alarm_mutex once *)
(* more, the mutex this task itself still holds.                           *)
(*                                                                         *)
(* Time passes in units of Tick.  The step of the RTC_MOCK task, and of a  *)
(* task that holds what it waits for (priority inheritance), take no time; *)
(* the CMD_SYS_IMM task may be preempted between any two of its steps.     *)
(***************************************************************************)
EXTENDS SequenceOrder

CONSTANTS
  NoItem,            \* an empty slot of the storage
  Period,            \* of the RTC_MOCK task: 1000 ms
  CallbackTimeout,   \* ALARM_CALLBACK_MUTEX_TIMEOUT_MS: 100 ms
  AlarmTimeout,      \* ALARM_MUTEX_TIMEOUT_MS: 500 ms
  AddTimeout,        \* CMD_SYS_SCHED_TIMEOUT_MS: 100 ms
  SendTimeout,       \* the longest an item's cb blocks: CMD_SYS_SCHED_TIMEOUT_MS
  MaxEpoch,          \* bound on the clock: it stops here
  MaxSets            \* bound on the number of SET_TIME commands

ASSUME TimeAssumption ==
  /\ {Period, CallbackTimeout, AlarmTimeout, AddTimeout, SendTimeout, MaxEpoch} \subseteq Nat \ {0}
  /\ MaxSets \in Nat
  /\ CallbackTimeout < AlarmTimeout
  /\ CallbackTimeout + SendTimeout + AlarmTimeout < Period

\* Timestamp 0 stands for "immediate" (cmd_sys.h:28): such a command is not scheduled.
ASSUME ItemAssumption == NoItem \notin Items /\ \A i \in Items : i.timestamp \in Nat \ {0}

Slots == 0..(Size - 1)
Null  == Size
Tasks == {"rtc", "imm"}
Free  == "free"
NoAlarm == [timestamp |-> 0, slot |-> Null]

VARIABLES
  \* rtc_scheduler.c
  storage,           \* scheduler_storage
  active, empty,     \* scheduler_sequence: the slots of its two lists
  schedule_mutex,    \* Free or the task that holds it
  \* rtc_mock.c
  next_alarm, alarm_mutex, epoch,
  \* the tasks
  pc,                \* where each task is
  timer,             \* what is left of the timeout it waits with
  period,            \* what is left of the second of the RTC_MOCK task
  item,              \* the argument of rtc_scheduler_add_item
  \* history and bounds
  accepted,          \* items that were inserted
  dispatched,        \* items whose cb was called, in order
  sets

vars == <<storage, active, empty, schedule_mutex, next_alarm, alarm_mutex, epoch,
          pc, timer, period, item, accepted, dispatched, sets>>

schedule == <<storage, active, empty>>
history  == <<accepted, dispatched>>

\* rtc_scheduler_pre_init and rtc_init_mock.
Init ==
  /\ storage = [s \in Slots |-> NoItem]
  /\ active = <<>> /\ empty = [i \in 1..Size |-> i - 1]
  /\ schedule_mutex = Free /\ alarm_mutex = Free
  /\ next_alarm = NoAlarm
  /\ epoch = 1
  /\ pc = [rtc |-> "sleep", imm |-> "idle"]
  /\ timer = [t \in Tasks |-> 0]
  /\ period = Period
  /\ item = NoItem
  /\ accepted = {} /\ dispatched = <<>> /\ sets = 0

Goto(t, label)           == pc' = [pc EXCEPT ![t] = label]
Await(t, label, timeout) == Goto(t, label) /\ timer' = [timer EXCEPT ![t] = timeout]

\* update_alarm without its call of the alarm: the soonest item of the schedule.
Soonest(list) == [timestamp |-> storage'[Head(list)].timestamp, slot |-> Head(list)]

----------------------------------------------------------------------------
\* The CMD_SYS_IMM task in rtc_scheduler_add_item.

\* The call: a new item, for a time that may be past (nothing checks it).
AddItem(i) ==
  /\ pc["imm"] = "idle"
  /\ i \notin accepted
  /\ item' = i
  /\ Goto("imm", "add")
  /\ UNCHANGED <<schedule, schedule_mutex, next_alarm, alarm_mutex, epoch, timer, period, history, sets>>

\* It gets schedule_mutex: store the item if a slot is free, else return FULL.
AddLocked ==
  /\ pc["imm"] \in {"add", "add_wait"}
  /\ schedule_mutex = Free
  /\ IF empty = <<>>
     THEN Goto("imm", "idle") /\ UNCHANGED <<schedule, schedule_mutex, accepted>>
     ELSE /\ storage' = [storage EXCEPT ![Head(empty)] = item]
          /\ \E p \in 1..(Len(active) + 1) :
               /\ Fits(ItemsAt(storage, active), p, item)
               /\ active' = InsertAt(active, p, Head(empty))
          /\ empty' = Tail(empty)
          /\ schedule_mutex' = "imm"
          /\ accepted' = accepted \cup {item}
          /\ Goto("imm", "arm")
  /\ UNCHANGED <<next_alarm, alarm_mutex, epoch, timer, period, item, dispatched, sets>>

\* It finds schedule_mutex taken and blocks.
AddBlocks ==
  /\ pc["imm"] = "add"
  /\ schedule_mutex # Free
  /\ Await("imm", "add_wait", AddTimeout)
  /\ UNCHANGED <<schedule, schedule_mutex, next_alarm, alarm_mutex, epoch, period, item, history, sets>>

\* RTC_SCHEDULER_MUTEX_TIMEOUT.
AddTimesOut ==
  /\ pc["imm"] = "add_wait"
  /\ schedule_mutex # Free /\ timer["imm"] = 0
  /\ Goto("imm", "idle")
  /\ UNCHANGED <<schedule, schedule_mutex, next_alarm, alarm_mutex, epoch, timer, period, item, history, sets>>

\* update_alarm finds alarm_mutex taken and blocks.
ArmBlocks ==
  /\ pc["imm"] = "arm"
  /\ alarm_mutex # Free
  /\ Await("imm", "arm_wait", AlarmTimeout)
  /\ UNCHANGED <<schedule, schedule_mutex, next_alarm, alarm_mutex, epoch, period, item, history, sets>>

\* Mutant: update_alarm does not wait for alarm_mutex.
ArmReturnsAtOnce ==
  /\ pc["imm"] \in {"arm", "arm_wait"}
  /\ UNCHANGED schedule
  /\ next_alarm' = IF alarm_mutex = Free THEN Soonest(active) ELSE next_alarm
  /\ schedule_mutex' = Free
  /\ Goto("imm", "idle")
  /\ UNCHANGED <<alarm_mutex, epoch, timer, period, item, history, sets>>

\* update_alarm sets the alarm for the soonest item, or times out, which nobody
\* notices; either way the mutexes are given back and the item is scheduled.
ArmReturns ==
  /\ \/ pc["imm"] = "arm" /\ alarm_mutex = Free
     \/ pc["imm"] = "arm_wait" /\ (alarm_mutex = Free \/ timer["imm"] = 0)
  /\ UNCHANGED schedule
  /\ next_alarm' = IF alarm_mutex = Free THEN Soonest(active) ELSE next_alarm
  /\ schedule_mutex' = Free
  /\ Goto("imm", "idle")
  /\ UNCHANGED <<alarm_mutex, epoch, timer, period, item, history, sets>>

----------------------------------------------------------------------------
\* The RTC_MOCK task.

\* The second is over: advance the clock and try to take alarm_mutex.
Wake ==
  /\ pc["rtc"] = "sleep"
  /\ period = 0
  /\ period' = Period
  /\ epoch' = IF epoch < MaxEpoch THEN epoch + 1 ELSE epoch
  /\ Await("rtc", "handle_alarm", AlarmTimeout)
  /\ UNCHANGED <<schedule, schedule_mutex, next_alarm, alarm_mutex, item, history, sets>>

\* Mutant: an alarm whose time is past is due as well.
DueLate == next_alarm # NoAlarm /\ next_alarm.timestamp <= epoch

Due == next_alarm # NoAlarm /\ next_alarm.timestamp = epoch

\* handle_alarm: when the alarm is due, keep alarm_mutex and enter alarm_callback;
\* otherwise, or on a timeout, go back to sleep.
HandleAlarm ==
  /\ pc["rtc"] = "handle_alarm"
  /\ alarm_mutex = Free \/ timer["rtc"] = 0
  /\ IF alarm_mutex = Free /\ Due
     THEN alarm_mutex' = "rtc" /\ Await("rtc", "callback", CallbackTimeout)
     ELSE Goto("rtc", "sleep") /\ UNCHANGED <<alarm_mutex, timer>>
  /\ UNCHANGED <<schedule, schedule_mutex, next_alarm, epoch, period, item, history, sets>>

\* alarm_callback gets schedule_mutex and calls the cb of the item at its slot.
CallbackLocked ==
  /\ pc["rtc"] = "callback"
  /\ schedule_mutex = Free
  /\ schedule_mutex' = "rtc"
  /\ dispatched' = Append(dispatched, storage[next_alarm.slot])
  /\ Await("rtc", "cb", SendTimeout)
  /\ UNCHANGED <<schedule, next_alarm, alarm_mutex, epoch, period, item, accepted, sets>>

\* alarm_callback does not get it and gives up.
CallbackTimesOut ==
  /\ pc["rtc"] = "callback"
  /\ schedule_mutex # Free /\ timer["rtc"] = 0
  /\ Goto("rtc", "clear")
  /\ UNCHANGED <<schedule, schedule_mutex, next_alarm, alarm_mutex, epoch, timer, period, item, history, sets>>

\* The cb returns: sequence_pop_first, then update_alarm, unless the schedule is empty.
CallbackPops ==
  /\ pc["rtc"] = "cb"
  /\ active' = Tail(active)
  /\ empty' = <<Head(active)>> \o empty
  /\ UNCHANGED storage
  /\ IF active' = <<>>
     THEN schedule_mutex' = Free /\ Goto("rtc", "clear") /\ UNCHANGED timer
     ELSE Await("rtc", "rearm", AlarmTimeout) /\ UNCHANGED schedule_mutex
  /\ UNCHANGED <<next_alarm, alarm_mutex, epoch, period, item, history, sets>>

\* Mutant: the wait for alarm_mutex has no timeout.
RearmWaits ==
  /\ pc["rtc"] = "rearm"
  /\ alarm_mutex = Free
  /\ UNCHANGED schedule
  /\ next_alarm' = Soonest(active)
  /\ schedule_mutex' = Free
  /\ Goto("rtc", "clear")
  /\ UNCHANGED <<alarm_mutex, epoch, timer, period, item, history, sets>>

\* update_alarm in the callback: like ArmReturns, for the task that holds alarm_mutex.
RearmReturns ==
  /\ pc["rtc"] = "rearm"
  /\ alarm_mutex = Free \/ timer["rtc"] = 0
  /\ UNCHANGED schedule
  /\ next_alarm' = IF alarm_mutex = Free THEN Soonest(active) ELSE next_alarm
  /\ schedule_mutex' = Free
  /\ Goto("rtc", "clear")
  /\ UNCHANGED <<alarm_mutex, epoch, timer, period, item, history, sets>>

\* Mutant: the alarm is not cleared.
ClearNot ==
  /\ pc["rtc"] = "clear"
  /\ alarm_mutex' = Free
  /\ Goto("rtc", "sleep")
  /\ UNCHANGED <<schedule, schedule_mutex, next_alarm, epoch, timer, period, item, history, sets>>

\* handle_alarm after the callback: clear the alarm, give alarm_mutex back.
Clear ==
  /\ pc["rtc"] = "clear"
  /\ next_alarm' = NoAlarm
  /\ alarm_mutex' = Free
  /\ Goto("rtc", "sleep")
  /\ UNCHANGED <<schedule, schedule_mutex, epoch, timer, period, item, history, sets>>

----------------------------------------------------------------------------
\* The clock, and time.

\* A SET_TIME command (rtc_set_current_time_mock takes no mutex of the alarm).
SetTime(e) ==
  /\ sets < MaxSets
  /\ sets' = sets + 1
  /\ epoch' = e
  /\ UNCHANGED <<schedule, schedule_mutex, next_alarm, alarm_mutex, pc, timer, period, item, history>>

\* The steps that take no time are taken before time passes.
RtcReady ==
  \/ pc["rtc"] = "sleep" /\ period = 0
  \/ pc["rtc"] \in {"handle_alarm", "rearm"} /\ (alarm_mutex = Free \/ timer["rtc"] = 0)
  \/ pc["rtc"] = "callback" /\ (schedule_mutex = Free \/ timer["rtc"] = 0)
  \/ pc["rtc"] = "cb" /\ timer["rtc"] = 0
  \/ pc["rtc"] = "clear"

Inherits ==
  /\ pc["rtc"] = "callback" /\ schedule_mutex = "imm"
  /\ pc["imm"] = "arm"

Less(n) == IF n = 0 THEN 0 ELSE n - 1

Tick ==
  /\ ~RtcReady /\ ~Inherits
  /\ timer' = [t \in Tasks |-> Less(timer[t])]
  /\ period' = Less(period)
  /\ UNCHANGED <<schedule, schedule_mutex, next_alarm, alarm_mutex, epoch, pc, item, history, sets>>

Imm == AddLocked \/ AddBlocks \/ AddTimesOut \/ ArmBlocks \/ ArmReturns
Rtc == Wake \/ HandleAlarm \/ CallbackLocked \/ CallbackTimesOut \/ CallbackPops \/ RearmReturns \/ Clear

Next ==
  \/ Imm \/ Rtc \/ Tick
  \/ \E i \in Items : AddItem(i)
  \/ \E e \in 1..MaxEpoch : SetTime(e)

\* Every task is scheduled again and again, and time passes.
Spec == Init /\ [][Next]_vars /\ WF_vars(Imm) /\ WF_vars(Rtc) /\ WF_vars(Tick)

----------------------------------------------------------------------------

ImmLabels == {"idle", "add", "add_wait", "arm", "arm_wait"}
RtcLabels == {"sleep", "handle_alarm", "callback", "cb", "rearm", "clear"}

\* Type invariant.
TypeOK ==
  /\ storage \in [Slots -> Items \cup {NoItem}]
  /\ active \in Seq(Slots) /\ empty \in Seq(Slots)
  /\ schedule_mutex \in Tasks \cup {Free} /\ alarm_mutex \in Tasks \cup {Free}
  /\ next_alarm \in [timestamp : Nat, slot : Slots \cup {Null}]
  /\ epoch \in 1..MaxEpoch
  /\ pc \in [Tasks -> ImmLabels \cup RtcLabels]
  /\ pc["imm"] \in ImmLabels /\ pc["rtc"] \in RtcLabels
  /\ timer \in [Tasks -> Nat] /\ period \in 0..Period
  /\ item \in Items \cup {NoItem}
  /\ accepted \subseteq Items /\ dispatched \in Seq(Items)
  /\ sets \in 0..MaxSets

Scheduled == {storage[s] : s \in Range(active)}

\* The item that alarm_callback dispatches (by the slot in its argument) is the item
\* it then removes (the head of the list): whatever is added while the alarm goes
\* off, every accepted item is either still scheduled or was dispatched once.
ExactlyOnce ==
  /\ IsInjective(dispatched)
  /\ Range(dispatched) \cup Scheduled = accepted
  /\ Range(dispatched) \cap Scheduled =
       IF pc["rtc"] = "cb" THEN {storage[next_alarm.slot]} ELSE {}

\* An alarm that is set is set for the soonest item, whenever no task is busy with
\* the schedule: a slot that was reused never leaves a stale alarm behind.
AlarmIsSoonest ==
  schedule_mutex = Free /\ next_alarm # NoAlarm /\ pc["rtc"] # "clear" =>
    active # <<>> /\ next_alarm = [timestamp |-> storage[Head(active)].timestamp, slot |-> Head(active)]

\* Both tasks hold one mutex and want the other at times; the timeouts resolve it.
\* add_item always returns, and the RTC_MOCK task always gets back to its sleep.
TasksReturn ==
  /\ pc["imm"] # "idle" ~> pc["imm"] = "idle"
  /\ pc["rtc"] # "sleep" ~> pc["rtc"] = "sleep"

\* Also while commands set the clock, the scheduler is a timetable: it dispatches an
\* item only when it is the first one pending, and only if its alarm went off when the
\* clock showed its timestamp.  An item that was added ahead of it in the meantime makes
\* the alarm go by, and no item is dispatched by the alarm of another.
Pending == IF pc["rtc"] = "cb" THEN Tail(active) ELSE active
Struck == IF pc["rtc"] = "callback" THEN storage[next_alarm.slot] ELSE NoItem
IsTimetable ==
  INSTANCE Timetable WITH pending <- ItemsAt(storage, Pending), due <- Struck, clock <- epoch
ImplementsTimetable == IsTimetable!Spec

=============================================================================
