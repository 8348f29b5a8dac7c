# Verification of the ALEASAT flight software

TLA+ models of the on-board computer firmware of ALEASAT
(`src/alea-fsw/obc-fw/main/app`) and, as its counterpart in an update, of the
radio's bootloader (`src/alea-fsw/comms-fw`); the TLC runs that check them on
small instances, and theorems about them that TLAPS checks for every instance.
Paths below are relative to the first directory unless they start with `src/`
or `comms-fw/`.

| Reading order | Modules |
|---|---|
| What is left of a sequence when entries are taken out of it | `Selection` |
| The queue behind the schedule | `SequenceOrder`, `SortedQueue`, `LinkedSequence`; `SequenceLemmas`, `LinkedSequence_proofs` |
| The schedule of commands and its alarm | `ScheduleOrder`, `Timetable`, `RtcScheduler`; `RtcScheduler_proofs` |
| The command system | `CommandService`, `CmdSys`; `CmdSys_proofs` |
| The write cache of the filesystem | `WriteCache`; `WriteCache_proofs` |
| The comms service and manager | `CommsService`; `CommsService_proofs` |
| Logging to files and reading them back | `LogFiles`; `LogFiles_proofs` |
| An update of the radio's firmware, from both ends | `RadioUpdate`; `RadioUpdate_proofs` |
| The way of a response to the ground | `Downlink`; its theorems are in `CommsService_proofs` |

`MC*.tla` give the constants of a module the values that the `.cfg` files name.
Definitions whose comment begins with "Mutant:" are bugs put in on purpose,
one for each property; each of them makes TLC find its property violated, and
no specification uses them.


## 1. The system

The OBC runs FreeRTOS with preemption and time slicing at 100 Hz. Its tasks,
by priority: MAIN and WATCHDOG 7; RTC_MOCK, OBC_SERIAL_RX, GPS_SERIAL_RX and
GPIO_IRQ 6; SERIAL_TX_LOGS 5; COMMS_MNGR 4; CMD_SYS_IMM, CMD_SYS_SCHED,
CMD_SYS_EXEC, FILESYSTEM, TELEM_COLLECT and TELEM_EXEC 3; SERIAL_TX_COMMS and
GNDSTN_LINK 2; BLINKY 1.

A command from the ground takes this way: the radio (CC1110) hands packets to
COMMS_MNGR, `gndstn_link` puts their data into a message buffer, CMD_SYS_IMM
reads a header from it and either stores the command in the schedule or hands
it to CMD_SYS_EXEC; CMD_SYS_EXEC reads the arguments from the same stream, runs
the command and writes its response into a buffered stream, which goes back
through `gndstn_link` and the radio. When its second comes, the RTC task moves
a scheduled command into the stream of CMD_SYS_SCHED, the second client of
CMD_SYS_EXEC. Commands and tasks write logs and telemetry through the write
cache of the filesystem.

### Inventory

| Component | State it keeps | Operations | Interacts with | What is hard | What makes it correct |
|---|---|---|---|---|---|
| **Sequence** `utils/sequence.c` | an array of links, the heads of the active and the empty list | init, insert in order, peek, pop | called by the scheduler under its mutex, compares by callback | two lists in one array of links; ends of the lists; equal items | the lists partition the slots; the active one is the stable sorted queue |
| **RTC scheduler** `system/rtc_scheduler`, `device-mock/rtc_mock.c` | storage of items, sequence, `schedule_mutex`; the one alarm, `alarm_mutex`, the epoch | add item, alarm callback, set alarm, set time | added to by CMD_SYS_IMM, alarm callback in the RTC task, item's callback into the command system | two mutexes in opposite orders, timeouts, a clock that moves on between two steps, a slot in the alarm's argument | each item is dispatched once, at its second, in order; nobody waits for ever |
| **Command system** `system/cmd_sys` | a queue of pointers, one struct per client, the streams of the two clients, notifications, the stream buffer of CMD_SYS_SCHED | receive header, execute, schedule, dispatch, invoke, respond | three tasks; the scheduler; streams of the ground link | structs shared by pointer between tasks of one priority; a 60 s timeout; two tasks on one stream; framing that depends on nobody losing a byte | a command runs once, with its arguments; its client gets its status; the ground gets at most one answer each, in order, and none is missing but for a full output |
| **Filesystem** `system/filesystem/obc_filesystem.c` | two write caches with queues of requests, `flushing`, two mutexes, notifications of its task; the open file | enqueue, flush by the task, forced flush, open, close, operations on the open file | every task that logs; littlefs | swap of the caches against a running flush, error returns that keep a mutex, polls that never block, partial failures | every record enqueued gets to its file once and in order, unless it is overwritten by one too long for its cache; a requested flush is not forgotten |
| **Comms service, manager** `system/comms` | one command buffer, sessions, `cmd_sema`, a timer, a queue of pointers, the state of the radio | send and wait, flash an image, packet input, timer expiry, transmit, receive | COMMS_MNGR, the timer daemon, tasks with a session; radio | one semaphore as lock and as signal; late, lost and failed packets; a response before the send has returned | a command gets one result, its own; the semaphore is never given twice; the radio is not left busy |
| **Ground station link** `system/gndstn` | uplink message buffer, downlink stream, the datagram in hand | receive datagram, GNDSTN_LINK task | COMMS_MNGR, command system | blocks COMMS_MNGR; drops datagrams | the streams keep order and lose nothing unreported |
| **Streams, buffered I/O** `utils` | buffer, offset | read, write, flush | all streams | partial writes and timeouts; a flush whose result nobody looks at | what is reported written is sent once, in order, without gaps |
| **Logging** `system/logging` | the ring of files, the current one and its size, `logSysMutex`, the read session | save with rotation, begin, read and end a session, choose the file after a reset | filesystem and its write cache, command system | a record is on its way through caches while files rotate; a session keeps the filesystem's mutex between calls | files stay bounded and in order; what is read back is the end of the log, as long as was announced; both mutexes come back |
| **Radio firmware** `comms-fw/main` | the program it runs, pages of flash, messages in and out | answer commands, erase and write pages, check the signature, boot, reset | `comms_flash_image` over the comms service | resets while a page is written, lost and late answers, one command buffer | only a whole signed image runs; what is reported as written is there |
| **Telemetry** `system/telem` | schedule of units, queue, file | collect, execute, read back | filesystem, command system | a file read backwards while it grows | units appear in the order collected |
| **Watchdog, RTOS services** `rtos` | bits of the tasks, task table | pet, service | all tasks | jitter | a live task is not bitten |
| **Serial** `system/serial` | parser state, stream buffer, mutex of the port | byte interrupt, parse, transmit | comms, logging | timeouts in every state, lost bytes | the parser gets back into step |
| **RTC drivers, calendar** `device-drivers/rtc` | time fields, saved epoch | conversions | scheduler | calendar edges | conversions are inverse to each other |
| **Settings, NVCT, state** `src/alea-fsw/obc-fw/main/orcasat` | tables with a CRC | read, write | MRAM, disabled in the builds | crash between writes | a table is whole or rejected |
| **Bootloader** of the OBC, `src/alea-fsw/obc-fw/main/boot` | a slot of flash | erase, write, verify | filesystem | reset in the middle | the slot holds a whole image or is known not to |
| ADCS, device drivers, ground segment, vendored libraries | | | | | not modelled, see section 6 |

The hazards of each, at their lines, are listed in `PROJECT.json`.


## 2. Modules and code

### Sequence

`SequenceOrder` declares the capacity, the items and the user's order.
`SortedQueue` says what a sequence promises: one variable, a queue into which an
item goes behind those that go before it and those it does not go before.
`LinkedSequence` has the variables of `sequence.c`: `links`, `active_head`,
`empty_head` and the locals of the insertion walk, which takes one iteration of
the loop per step (`InsertStart`, `Advance`, `Link`), because the state in its
middle is what goes wrong when a link is written too early. `Pop` is
`sequence_pop_first`. `size` is a `uint8_t` whose value `size` itself is the null
index, hence `Size \in 1..255`.

### Schedule

`RtcScheduler` has `rtc_scheduler.c`, the alarm of `rtc_mock.c` (the RTC that
every build uses, `FEATURE_HW_RTC=0`), and the two tasks: `pc["imm"]` is
CMD_SYS_IMM in `rtc_scheduler_add_item`, `pc["rtc"]` is RTC_MOCK. `schedule_mutex`
and `alarm_mutex` are not recursive, and each wait for them ends with its
timeout. The sequence is here its queue of slots, justified by the proof that
`LinkedSequence` implements `SortedQueue`, and because `schedule_mutex` is held
around each call. `ScheduleOrder` is `goes_before`. `Timetable` says what the
scheduler promises.

Time is a count of ticks in the timeouts and the period. RTC_MOCK has a higher
priority than all others involved: its steps, and those of a task that has
inherited its priority, are taken before time passes (`RtcReady`, `Inherits`),
while CMD_SYS_IMM can be preempted between any two steps for as long as it
takes. The relations between the timeouts that this relies on are the
assumption `TimeAssumption`, with the values of the code in the comments.

### Command system

`CmdSys` has the three tasks. A stream is a sequence of parts, the header and
the arguments of a command; a buffer's capacity counts them in units. `header`
and `args` are what the static structs of the clients hold, which the entries
of `cmd_queue` point to, so an entry is the client's name and, as history,
the command it was made for. `note` is the task notification with the status,
`exec`/`job`/`spec` the locals of CMD_SYS_EXEC. The schedule is a sequence of
items, any of which may become due at any time; `Dispatch` and `DispatchPart` are
the item's callback with enough and with too little room in the stream buffer.
`CommandService` says what the ground sees: answers, one per command, in order.

Three constants choose what the environment does: `MayOutlast` lets a command run
longer than its client waits (`ExecTimeout`), `MayLose` lets the arguments of an
uplinked command get lost, and `MayGoUnanswered` is the set of the commands for whose
answer the output may have no room in time. `cmd_sys_begin_response` then fails with
`CMD_SYS_ERR_WRITE_TIMEOUT` (`cmd_sys.c:281`; `424` for the rest of a response), and
CMD_SYS_EXEC reports the error to its client, while `cmd_sys_schedule_cmd` drops it (`153`).
`Respond` therefore records the command's turn and whether its answer was written
(`Outcomes`), and `CommandService` has answers that do not get through, for those commands
only. What CMD_SYS_SCHED writes goes to the log (`write_log`), which always has room.

### Write cache

`WriteCache` takes `fs_write_enqueue` apart at every point where another task can
see a difference: taking the mutex, looking at `flushing`, delaying, swapping,
looking at the other cache, copying, notifying. `fs_flush_all` is `Choose`, one
step per file (`WriteFile`, `FailFile`), the end of its loop, and the two
assignments of its reset, run by the FILESYSTEM task or by a caller of
`fs_force_flush` (`at`, `target`). `user` is a task with an open file. Error returns
that keep a mutex do so in the model.

Whether a cache is full is decided without the record that is to be copied (`Full`,
`obc_filesystem.c:294`), so `Copy` (`316`) may run over the end of `buf`, which in ordinary
operation happens as soon as records of some length fill 1024 bytes before 15 requests
do. Behind `buf` is `queue` of the same struct. The requests that are `Hit` then name
any file and are flagged or not, and stand for a record with the number 0, what is left of
the one they were made for (`Damaged`); the new record itself is queued whole or damaged, since its
own end is under the requests. `garbled` is history: the records that an overrun has
destroyed, or was itself of. The sizes of the records are those of the calls (`Sizes`), and
no record reaches beyond the queue (`SizesAssumption`: 266 bytes at most, against 420).

`crossed` is history: a record was copied between the two
assignments of the reset of its cache (section 5). littlefs is modelled by what the code sees of it:
an operation fails or not, and a file closed after an error keeps what was
appended or loses it. `lost` is history, too: the records of requests that were flagged as flushed
although an error kept them out of the file. Of the operations on an open file, those that logging uses are
in `LogFiles`; the others pass through to littlefs and are not modelled.

### Comms

`CommsService` has the sessions, `cmd_buf`, `cmd_sema` and the timer of
`comms_service.c`, the queue of pointers, the events and `rfc_state` of
`comms_mngr.c`, and the uplink handler of `gndstn_link.c`. `pc[u]` is a task with a
session: GNDSTN_LINK, and CMD_SYS_EXEC in a test command (`Tester`), which may wait
for a response it did not ask for and may update the radio's firmware (`Flash*`).
`mngr` is COMMS_MNGR; it is preempted only by the timer's task and by interrupts, so
users take steps when it waits: for events, for the bus (`transmit`), for room in the
uplink buffer (`deliver`). An entry of `cmd_q` is a pointer and is followed when it
is sent (`SendNext`). What a packet says is its kind, its sequence number, and as
history the command it is about.

`READY` and `INIT` of the radio await the same events and are one state. The
semaphore is held only for a `memcpy` at the end of a wait, which is one step;
so is sending up to the call of the manager, which touches only what the semaphore
protects. The timer does not expire between `xTimerReset` and the assignment
that follows it (`TimerExpires`): 2000 ms against one statement. Retransmission is
left out, since nothing sets `retry_en`.

`disturbed` is history: one of four things has happened that make a command get in
another's way, listed at `OneUnderway`. They are behaviour of the code, not
assumptions about it; see section 5.

### Log files

`LogFiles` has `log_sys.c` and the command that reads the logs back
(`cmd_impl_logs.c`). `fs_log_save` is `Reserve` when the record fits, and
otherwise `Rotate`, `Open` and `Zero`, with `logSysMutex` taken throughout; the
record is handed over afterwards (`Enqueue`). A file is a sequence of units, a
record of length n being n of them; the write cache is what `WriteCache` shows
it to be, a sequence of records on their way (`pending`, `batch`), which the
FILESYSTEM task writes one after another under `xFileSystemMutex` (`fsm`). A read
session is the CMD_SYS_EXEC task at one of the places of `at`: it measures the
files one by one, opens the current one, answers how much there is, and reads
chunks backwards, from file to file, keeping `xFileSystemMutex` between its calls.
A flush may fail at any file (`FlushFails`): the file keeps what was written or, closed in error,
what it had, and what is not flagged stays in the cache. `Advance` looks at the counted size
only, as the code does: what the file that is left really holds, and what is still on its way to
the next, does not matter to it.
`Restart` loses what is not flushed and chooses the file as `log_2_fs_init` does.
The other users of the filesystem are there as waits that may time out at any
time. That `logSysMutex` is not to be had within its wait, and a record logged
during a session, both drop the record in silence and change nothing.

Five variables are history, and the invariants name which of them they except: `unzeroed`, the
files that were not zeroed when their turn came, or to which records of an earlier turn were still on their
way then; `hollow`, those that were left when nothing of them was in flash; `repeated`, those to
which a failed flush has left a record both written and to be written again; `astray`, a restart went
on with a file that was not the current one; `leaked`, an error left the filesystem's mutex
taken. All happen in the code (section 5). What an overrun of the cache does to the requests
behind it is part of `WriteCache` and not of `LogFiles`.

### Radio update

`RadioUpdate` composes both ends of `comms_flash_image`. On the computer it has
the loop of the update (`fwup_state`, `page_count`, `at`), the one command buffer with
its counter and stale length, the semaphore, the timer and the results of
`comms_service.c`, and the queue of pointers of `comms_mngr.c`; it is coarser
than `CommsService` about everything else (one update, one other session, no data).
On the radio it has the bootloader's commands, the application's answer to them, the
choice at the end of the boot window, and resets in the middle of erasing and of
writing. A page of flash is the set of the images written to it since it was
erased, since flash can only be cleared bit by bit; `Torn` is in a page
whose write or erase was cut off. `Signed` stands for the signature, at the end of the
application's pages, of the pages before it.

Time is left out: timeouts and the boot window end at any moment, but for the timer, which
does not end in the second in which the update waits for its command, because it runs for
two. The link may lose or delay, and be full. `crossed` is
history: another command's answer or number has come in between (section 5).

### Downlink

`Downlink` has a response as `cmd_sys.c` writes it (`Begin`, writes, `Flush`),
`buffered_io.c`, which gathers writes into datagrams and sends what fills one directly
(`Copy`, `SendFull`), the message buffer of `rtos_stream.c`, which takes a datagram
with its length or not at all, and GNDSTN_LINK (`ReceiveDatagram`, `Hand`,
`HandFails`, `ServiceAnswers`). That one task at a time writes to the socket is shown by `CmdSys`
(`OneUserPerStream`); what becomes of a command handed to the service, by
`CommsService`.


## 3. Runs

All bounds are constants; the numbers of distinct states are those TLC reports.

| Run | Shows | Bounds, and why they are enough |
|---|---|---|
| `linked_sequence` | `Chained`, `NoSlotLost`: the two lists at every step of the walk; `Refinement`: it is `SortedQueue`; `WalkEnds` | a small sequence of items with ties: insertion at head, middle and tail, into an empty and up to a full list. The theorems hold for every size |
| `rtc_scheduler` | `ExactlyOnce`, `AlarmIsSoonest`, `TasksReturn`, and `ImplementsTimetable` | 2 slots, 3 items (one more than fit; two of one second, one of the next), timeouts in the order of the code's, 2 settings of the clock: every wait can succeed or time out, and slots are reused |
| `cmd_sys` | `Unmodified`, `OneUserPerStream`, `Aligned`, `RunsOnce`, `OwnStatus`, `ImplementsService` while commands end in time and nothing is lost | immediate and scheduled commands, with and without arguments, both clients at work at once; for one of each kind the output may stay full (89 thousand states) |
| `cmd_sys_outlasted` | `NoLostWakeup`, `ClientsReturn`, whatever happens | queue and stream buffer small enough to be full, a schedule of one; refused and unknown commands; losses; an output that stays full; commands that never end (378 thousand states) |
| `write_cache` | `Conserved`, `OneAtTheFiles`, `FlushRequested`, `SwappedOutIsFlushed` whatever errors littlefs reports; `InOrder` while it reports none; the first two for the records that no overrun has touched | 1 writer, 2 files, 5 records of one and two units into caches with 2 requests and 3 units each: both caches full and one record too many, and two records of which the second runs over the first one's request; one forced flush beside the task, a file opened directly, an error at any place of a flush or in opening a file (458 thousand states). `elapsed_period` has one value here, since it never reaches the wait anyway (`write_cache_enqueued`). Two writers differ from one only in who holds the mutex; the theorems hold for any number |
| `comms_service` | `NoLostSemaphore`, `SemaphoreComesBack`, `UplinkInOrder` whatever happens; `OneUnderway`, `OkIsAcknowledged` up to the first disturbance | 2 users, one of which updates firmware; 2 commands, a queue of one pointer (full with one acknowledgement), 2 datagrams for a buffer of one, 1 fault of the radio besides lost and late answers, sequence numbers of which the second of one endpoint is out of range. No command is made after a disturbance of the first (`MaxDisturbed`): what one has broken is then only finished; the theorems have no such bound |
| `log_files` | `SizeBounded`, `FilesInOrder`, `ReadsBackwards`, `PromiseKept`, `SessionAlone`, `MutexesReturned` | 2 tasks, 3 files of 2 units, 4 records of one or two units: with long ones the ring goes round once and starts again, with short ones a file takes several (3.9 million states); records dropped at any time, so that files are left empty; one session over 2 files, one restart, one error of littlefs, in a flush, too |
| `radio_update` | `RunsSigned`, `ReportedIsWhole`, `NeverMixed`, `TakesEffect` | images of 2 pages (one that is last and one that is not), a queue and a link of 2 messages, 2 updates of which the first may fail anywhere, a command of another session, and one message lost, transfer failed or reset not asked for (1.1 million states) |
| `downlink` | `InOrder`, `NothingVanishes`, `NoGap`, `Delivered` | datagrams of 3 bytes, a message buffer with room for one full one or a few small ones, 3 responses of four shapes: a header alone, writes that fill the buffer exactly, and one several times as long (304 thousand states). The theorems hold for every size and every response |
| `write_cache_enqueued`, `write_cache_crossed`, `radio_in_bootloader` | findings, section 5 | one record; 8 records, a cache that the number of its requests fills and not their size; one update, nothing lost |

`CHECK_DEADLOCK FALSE` stands in the runs of `CmdSys`, `CommsService`, `LogFiles`,
`RadioUpdate` and `Downlink`: the ground may stop sending, nobody has to log or
to update, and then every task waits, as it should. Symmetry is used in the run of
`LogFiles` only, which has no liveness property and whose loggers are interchangeable.

Most modules state their types as `TypeOK`, which documents the variables. The runs check
other things; it is proved for each of these modules (`TypeCorrect`).

`Conserved`, `InOrder`, `FlushRequested` and `SwappedOutIsFlushed` except states that their
definitions name: a mutex kept by a call that has returned (`QueueMutexLost`,
`FilesMutexLost`), a forced flush that failed half way (`force_failed`), a record copied
in the middle of a reset (`crossed`), a record that an overrun of its cache has touched (`garbled`;
in `SwappedOutIsFlushed` any such record, since what its request then names may make every
flush fail), and, in `Conserved`, a record that an error took (`lost`). These are
real states of the code (section 5), not assumptions about it. Likewise `CommandService` has
no answer for commands whose output stays full, and the invariants of `LogFiles` except
files that are `unzeroed`, `repeated` or `hollow`.

### Fairness

* `RtcScheduler`: weak fairness of each task and of time. FreeRTOS runs a ready
  task again and again: RTC_MOCK has the highest priority of those modelled, and
  CMD_SYS_IMM shares its priority by time slices. Nobody has to add items or set
  the clock.
* `CmdSys`: weak fairness of each client, of its timeout, and of CMD_SYS_EXEC.
  That a command's own function ends is assumed only where `MayOutlast` is FALSE.
  Nothing is assumed of the ground and of the clock.
* `WriteCache`: weak fairness of the FILESYSTEM task, of a writer in a call, of a
  forced flush that has begun and of closing an open file; no call has to be made.
* `LogFiles`: tasks in the middle of a call go on and their waits end; a flush that has begun
  goes on. Its properties are about safety; nobody has to log, flush or begin a session.
* `RadioUpdate`: weak fairness of the updating task, of the manager sending and receiving,
  and of the radio's processor. No link is fair: a message may be lost (up to the bound), and
  nobody has to start an update. It is enough for `TakesEffect`, since a signed image
  is booted at the end of every boot window.
* `Downlink`: weak fairness of the writer, whose waits for room end, and of GNDSTN_LINK.
  Nobody has to send a response.
* `CommsService`: weak fairness of COMMS_MNGR, of a user that has a call to finish
  and is not preempted, of the timer, and of the uplink's reader. Nothing is assumed
  of the radio: it may never answer.


## 4. Theorems

For every value of the constants that satisfies the named assumptions.

* **`LinkedSequence` implements `SortedQueue`**, for every capacity, set of items
  and strict partial order (`Implements`). The
  inductive invariant says which sequence of slots each list is: `Chained` (its links are
  those of a sequence of distinct slots that ends in null), `NoSlotLost` (the two
  sequences and the slot in the hands of a running insertion partition the slots),
  `Stored`, and `WalkPosition` (what the walk has passed goes before the new item
  or is equal). Insertion and removal in a sequence are dealt with once, in
  `SequenceLemmas`; `TypeCorrect`, `ChainedCorrect`, `NoSlotLostCorrect`,
  `StoredCorrect` are the parts of the invariant. `SortedCorrect` says that the
  active list is always sorted: an item goes to a place where it fits, and a sorted
  sequence stays sorted by that, and by losing its head, if the order is transitive.
* **`RtcScheduler`: `TypeCorrect`, `ExactlyOnceCorrect`, `AlarmIsSoonestCorrect` and
  `Implements`**: it is a `Timetable`, for any number of slots, items, settings of the clock
  and timeouts that satisfy `TimeAssumption`. `IInv` adds where each task holds
  which mutex (`Mutexes`), that the two lists share no slot and no two slots
  hold the same item (`Partition`), that add_item carries a new item (`NewItem`), and
  `Alarm`. That is the part the timeouts are in: add_item, holding
  `schedule_mutex`, can give up its wait for `alarm_mutex` and leave an alarm
  that is not the soonest only while an alarm goes off, but the callback, whose wait
  is shorter (`CallbackTimeout < AlarmTimeout`), has given up before, and the stale alarm
  is cleared. So the callback that does get `schedule_mutex` finds the slot in its
  argument at the head of the list: the item it dispatches is the item it removes.
* **`CmdSys`: `TypeCorrect` and `NoLostWakeupCorrect`**, also when commands outlast
  their clients and parts are lost. `CmdInv` adds to the types what each place in
  the code knows: which headers have been parsed when a task is past its receipt,
  that a queued entry was made by a client that has a header, what CMD_SYS_EXEC
  executes, and for a client that waits, that its last command is queued, executed
  or answered. The theorem is what the last part says; the others keep it inductive.
* **`CmdSys`: `UnmodifiedCorrect`, `OneUserPerStreamCorrect` and `OwnStatusCorrect`**, each
  under `~MayOutlast`: as long as no command runs longer than its client waits
  (the run `cmd_sys_outlasted` shows what happens otherwise), but whatever
  parts of commands are lost. They rest on `Synchronous`: a client has at most one of
  a queued entry, a job of CMD_SYS_EXEC and a notification; it is for the command
  in the client's struct, and the client waits for it. So nobody reads a new header into
  the struct, or turns to the client's streams, before CMD_SYS_EXEC is done with both.
* **`CmdSys`: `ImplementsServiceSafely`, `AlignedCorrect` and `RunsOnceCorrect`**, under
  `Orderly`: no command outlasts its client, nothing is lost, the queue has a place for each
  client, no command's arguments are larger than a client's buffer, only commands that the
  table has a function for have arguments, and none with an id out of the table is scheduled.
  Each of these commands puts the streams out of step in the code, which has no frames to find
  the next header by, and each case is in the run `cmd_sys_outlasted`. `Aligned` and `RunsOnce`
  assume `[][~DispatchPart]_vars` besides: the stream buffer of CMD_SYS_SCHED gets room for an
  item within 100 ms, or half a command stays in it. The answers to the ground do not
  need that. `Ledger` divides the commands sent into those that are finished, the one in
  CMD_SYS_IMM's struct, and those whose bytes are in its stream, whole and in order; the answers
  are those of the finished ones with a valid id, so every step answers the next
  command that `CommandService` expects or does not show. Some of them, any set
  `MayGoUnanswered`, may not be written; the others are, and all keep their order. `Located` says the same of both
  clients' streams, and that a command is in exactly one of seven places between the ground and its
  function, once (`OnceEach`); every step moves one command from one place to another (`Moves`).
* **`WriteCache`: `ExclusionCorrect` and `FlushRequestedCorrect`**, for any number of
  writers, records and errors, and whichever mutex has been lost. `Holding` says
  what each place knows of `xFileSystemMutex`: whoever flushes has it; the converse
  is false. `FlushInv` adds who holds `xWriteQueueMutex`, and that the cache being
  flushed is the one that is not active, or somebody has asked for another flush:
  a writer may swap the caches under a running flush, because it looked at
  `flushing` before.
* **`WriteCache`: `ConservedCorrect`, `OnceCorrect` and `InOrderCorrect`**, for any number of
  writers, files, records of any sizes, errors and forced flushes, any size and depth of the caches, and whichever
  mutex has been lost, for the records that no overrun has touched (`garbled`); with `TypeCorrect`, which says that the caches hold only records. The
  invariant `Stored` has three layers. Copies are counted of
  records that have a number; what an overrun leaves of a record has the number 0, and an overrun
  changes neither the length of a queue nor the fill of a cache. `Present` and `Ordered` leave out the
  `garbled` records.
  Without exception: `Distinct` (no record is enqueued twice),
  `Limited` and `FewRepeated` (a record stands once more for each error at most, and each error adds
  one record to those that stand twice). Until a record is `crossed` or a forced flush fails: `Present`
  (what no error has `lost` is somewhere), with what it rests on. `Turns` says what a flush knows of
  its target at each place: if a writer swaps to the target in its middle, the target is full until
  its queue is emptied, so that the writer, which looks at it after the swap, gives up (and
  keeps the mutex) or finds it emptied. `Swaps` is what those who swap leave behind: the cache
  that is not active is empty, or full, or a forced flush is under way. Until littlefs reports an
  error: `Ordered`, which is `InOrder` through the step between a swap and the copy, where
  the two caches have changed their roles, and nothing is `lost`, from which `OnceCorrect` follows.
  It takes `Turns` to know that a reset empties only what has been written.
  What a flush does to the copies of one record is counted in `CopiesStored`: stored and
  flagged cancel out. After an error (`CopiesLeft`) the flagged ones are among the stored, all but
  the first of the batch, which is flagged last and may be written again, or nothing is
  stored. The attempts to prove more failed for two reasons, and TLC found the way from there to a
  lost record each time: a record copied into a cache that is being reset
  (`write_cache_crossed`, section 5), and a cache that a failed forced flush leaves behind
  (section 5, too).
* **`CommsService`: `SemaphoreIsNotLost`**. The invariant adds what makes
  a started timer visible: the buffer holds the command made last, and one has been
  made before a timer is started. Every step finishes a command and gives the
  semaphore, moves a user on (`GotoIInv`), or touches neither.
* **`CommsService`: `TypeCorrect` and `UplinkInOrderCorrect`**, whatever is disturbed.
  They are one invariant (`TypeInv`): that no more is read than there is follows from the order of
  the uplink, and that the manager has something to take when it is woken from the
  packet it works on at each of its places (`PacketOK`). The order is stated entry by
  entry (`UplinkEntries`), where the numbers waiting in the driver's buffer are exactly
  those after the last one taken.
* **`CommsService`: `OneUnderwayCorrect` and `OkIsAcknowledgedCorrect`**, for every number of
  users, commands and faults and every depth of the queue, until `disturbed`. `Serial` is
  what they need: the command, or its answer, is in one place of the way from the
  queue over the radio to the driver's buffer and back to the manager, and there once
  (`Travels`); while it is, the semaphore is taken, the command is the one in the buffer and the
  last of the active session's user, the only one that waits or has a timer running (`Owned`).
  Each conjunct of `disturbed` is used by one lemma: the timer's by `TimerSerial`, the
  failed packet's by `FailSerial`, the update's by `MoveSerial`.
* **`Downlink`: `InOrderCorrect`, `NothingVanishesCorrect` and `NoGapCorrect`**, for every size of a
  datagram, every room and overhead of the message buffer, and responses of any shape. `DownInv` has the
  bytes that have gone down, the datagram at GNDSTN_LINK, the message buffer and the writer's buffer as
  one line, and says that it is sorted (`Sorted`), that what is still to be written are the next
  bytes (`RestNumbered`), that all that a response has had taken from it is in the line or dropped,
  unless it was cut short (`Complete`), nothing else is (`NothingElse`), and what comes before any of
  these bytes is among them (`Closed`). A round of the writer makes the line longer by the next bytes;
  GNDSTN_LINK moves a border within it, or takes a whole datagram out. The theorems stand in
  `CommsService_proofs`, beside those of the service that the datagrams are handed to.

* **`LogFiles`: `MutexesReturnedCorrect` and `SessionAloneCorrect`**, for any number of
  tasks, files, lengths, sessions, restarts and errors. `IInv` adds to `MutexesReturned`
  what each place of the code implies about the flag `reading` (`Flagged`), and `Places`, the
  places there are. A logger enters only while `reading` is false and `logSysMutex`
  free, and a session sets it under that mutex: neither fact is inductive without
  the other. `SessionAlone` follows from the three.
* **`LogFiles`: `SizeBoundedCorrect`, `FilesInOrderCorrect`, `ReadsBackwardsCorrect` and
  `PromiseKeptCorrect`**, with the same generality; with `TypeCorrect`. The
  first two say something of what is in a file, and hold because of what is on its way to it:
  `Planned(f)` is the file's content and all that the caches hold for it, `Reserved(f)` the lengths
  reserved by loggers that have yet to enqueue. `Bounded` limits their sum, for the
  current file by `log_file_current_size`, which is what that number means; `Ordered` orders
  all of it along the ring, and `Latest` puts it before the next record; `Claimed` is what a
  logger in the middle of a rotation knows, and `Filled` that an empty file that was not left so
  (`hollow`) has never been current, nor has any before it. `Bounded` leaves out files that are
  `unzeroed` or `repeated`, `Ordered` the `unzeroed` ones. The session is `Walk`: at each of its places, and with the file it
  is at, what has been sent and what lies before the position in the ring make up the log
  (`Upto`), and what is left of the promise is what the files before it held when they
  were measured (`Rest`, `Before`). Here `Filled` is used: the way back meets an empty
  file only at the end of the log, or where one was left with nothing of it in flash, or after a
  restart at another file (`at = "short" => astray \/ ses.index \in hollow`). A file that was
  not zeroed does not end a session early.
* **`RadioUpdate`: `TypeCorrect`, `RunsSignedCorrect`, `ReportedIsWholeCorrect` and
  `NeverMixedCorrect`**, for every number of pages, depth of queue and link, and any losses, refusals and resets.
  `RunsSigned` is inductive with the types. `ReportedIsWhole` needs
  `Clean`, which holds as long as nothing has `crossed`: numbers in the queue, on the link and
  in the answers do not run ahead of the counter (`Numbered`), a positive answer with
  the number of the command in the buffer means that this command has been done
  (`Confirmed`), an update that is between two commands has the semaphore (`Alone`), one
  that waits finds its own command in the buffer, or a result that tells what is in the flash
  (`Waiting`), when the final command is due the last page is in the flash and no erase is on
  its way (`LastWritten`), and the property itself (`Reported`).
  `NeverMixed` adds `Swept` to it: what the flash, the commands on their way and the
  buffer hold is of one image (`Only`), an answered erase means that the flash is
  empty and nothing is on its way to it (`Emptied`, `Erasing`), and an update that writes
  finds no image but its own.

Some definitions are written for the proofs. `Selection` has `Picked` and `Only`, what is left of a
sequence when some of its entries are taken out, as a concatenation of pieces of length one or
none: `SelectSeq` is recursive in an operator, and `SetToSortSeq` a choice of a
permutation, about which the provers know little. For the same reason `Total`, a sum, is the cardinality of
a set with one element for each unit. What these do to an appended, a
concatenated or an updated sequence is in `SequenceLemmas`, `LogFiles_proofs` and
`WriteCache_proofs`. Where a lemma needs an induction, on a number or on the length of a sequence, it
goes through the set of those for which the statement holds (`NumberInduction`,
`SequenceInduction`, from the theorem that every set of natural numbers that is not empty has a least
element), since the library's own induction theorems are about operators, which no installed
prover can put in.

Model-checked only are

* liveness, which is out of the provers' reach: `WalkEnds`, `TasksReturn`, `ClientsReturn`,
  `SwappedOutIsFlushed`, `SemaphoreComesBack`, `TakesEffect`, `Delivered`, and that of
  `CommandService` (`ImplementsService` includes it);
* the findings, which are counterexamples.


## 5. Where code and comments disagree

Three are runs that TLC ends with a counterexample.

* `write_cache_enqueued`: a record in the active cache is not flushed "up till
  FS_MAX_FLUSH_WAIT": the counter has 16 bits, the wait is 600000 ms, and the
  active cache is not the one flushed.
* `write_cache_crossed`: a record for which `fs_write_enqueue` returned `FS_OK` is dropped.
  `fs_flush_all` resets a cache with two assignments (`obc_filesystem.c:861`) without the mutex
  that a comment says it takes (`166`). A writer reads `flushing` (`296`) before it swaps the caches
  (`304`); if the task begins a flush in between, the writer may copy its record into the cache
  that is being reset, between the two assignments: the request stays in the queue
  while `head` goes back to the start. A writer that found this cache full by its `head`
  then swaps out one that is not full. If the next swap again meets a running flush, the writer
  finds the target not full, as it should be until it is emptied, copies a record
  into it, and `q_next_index = 0` drops the record, against "the data will be flushed to
  flash" (`268`). Until the first such meeting
  nothing is lost but by an error or a failed forced flush: that is `Conserved`, proved.
* `radio_in_bootloader`: an update of a radio that is in its bootloader, because it has no
  application or because it has just started, fails at its first
  command. The bootloader refuses the reboot (`comms-fw/main/boot/commands.c:106`), and the
  refusal ends the update (`comms_service.c:443`), against "proceed on failure of reboot
  command in case comms is already in bootloader state" (`430`). Nor does the other failure
  proceed, a command that could not be queued: nobody gives the semaphore that is waited for
  next.

Other disagreements have no run of their own, and the models behave as the code
does:

* Schedule. Once an item has been dispatched, the next one has no alarm: the callback
  sets it while its own task holds `alarm_mutex` (`rtc_scheduler.c:157`), times out, ignores
  that, and `handle_alarm` clears the alarm; the next command that is scheduled
  sets one again. And an item is stored before its alarm is set, which goes off on
  one second only: an item for the next second may get its alarm too late and stays
  at the head of the schedule.
* Command system. After 60 s a client stops waiting and parses the next header into
  the struct that CMD_SYS_EXEC still uses (`cmd_sys.c:199`, `cmd_sys_exec.c:71`).
* Write cache. A record that is copied in the middle of a reset keeps its offset, and the next
  ones overwrite the bytes before it or its own; the model has no bytes.

Further, `fs_write_enqueue` and `fs_force_flush` return errors with a mutex taken
(`obc_filesystem.c:300`, `308`, `505`); requests are marked as flushed before the
file is closed (`847`, against `79`); a record that does not fit what is left of a
cache is copied all the same, over the first requests of its queue (`294`, `316`), against "data is
copied into active_write_cache, after which function returns" (`268`): the records of those
requests are lost or end up in another file, with no error anywhere; `cmd_sys_schedule_cmd` waits without a timeout
(`cmd_sys.c:132`, against `114`); a late notification of a command that
outlasted its client is taken for the next one's status (`cmd_sys.c:200`).

In the comms service, one command gets in the way of another when

* the timer gives a command up that can still be sent or answered: the answer is
  taken for that of the next command (`comms_service.c:530`), or the pointer in the
  queue sends the next one twice;
* the manager, which preempts the sender, fails to send a command before the sender
  has started the timer (`258`): it then runs for a command that is finished;
* the manager fails to send a response (`494`, documented as "pointer to failed
  command") while the semaphore is taken, which needs a failed transmission or reset.
  Without any fault the same line only turns a result back: a datagram that arrives
  while the radio is BUSY has its acknowledgement queued by pointer, the response that
  ends BUSY wipes the buffer (`473`) before the pointer is followed, the pointer
  then fails to convert, and an acknowledged command's OK becomes ERR if the
  waiting task, which COMMS_MNGR preempts, has not yet copied it;
* a firmware update gives up after 1000 ms and gives the semaphore while its timer,
  of 2000 ms, runs (`437`).

And "if the command is ACK and not a reply" (`656`) is said of code that acknowledges
replies, too.

In an update of the radio's firmware,

* a semaphore given by a late answer between two commands of the update shifts
  every later answer by one, and a command that the full queue refuses leaves itself in
  the buffer and its number to the next (`256`, `437`): an update may then be
  reported as done although its last command was not answered. Both set `crossed`;
* a command without payload keeps the length of the one before (`247`): the reboot of an
  update that follows a command with four bytes or more is taken by the application for a
  request to postpone its reboot (`comms-fw/main/app/system/cmd_sys/commands.c:107`), and
  the update fails at its next step;
* an image of no pages erases the flash and then writes the page of entry 0 all the same
  (`449`). The model has at least one page.

In logging,

* a file that cannot be zeroed, because it cannot be opened in time or littlefs reports an
  error, is the current one all the same, with the size of the record that was lost: it grows
  beyond its limit, and old and new records mix (`unzeroed`); so does the first file if the computer restarts while every file is
  empty or exactly full;
* a file counts as full by what was reserved in it, though `fs_write_enqueue` may have dropped all of
  it (`log_sys.c:459`, `495`), which it does from its first return with its mutex on: the ring then
  has files that are empty, and a session ends at the first of them, short of the length it has
  announced (`hollow`);
* a flush that fails writes the first record of a file again the next time (`repeated`), which
  nothing counts;
* a restart goes on with the shortest file, not the newest (`log_sys.c:382`, `astray`);
* four error paths leave the filesystem's mutex taken (`log_sys.c:186`, `192`, `475`,
  `cmd_impl_logs.c:47`, `leaked`). The last is real in operation: the
  response cannot begin when an earlier flush failed and its output is still full.

A forced flush that fails half way (`obc_filesystem.c:508`, `517`) notifies nobody, and may leave a
cache that is neither active nor full, which nothing else does. When the task later flushes that cache
and a writer that has already looked at `flushing` swaps to it meanwhile, the writer finds room in it,
copies its record, and the reset at the end of the flush drops it. That is why `Conserved` excepts
`force_failed`; without the exception TLC finds this way to lose a record, with no error but the one.

On the way down, the result of the flush that ends a response is not looked at
(`cmd_sys.c:302`): its end stays in the buffer behind a status of success, and leaves in front
of the next response. `buffered_io.c:58` documents the "number of bytes actually written
(internally, not necessarily to the output stream)", and does not count the last bytes it has put
into its buffer when the flush after them fails (`98`). `gndstn_link.c:35`
says that the buffer can "store up to 2 datagrams"; each needs four bytes more than its
length, so two full ones do not fit.


## 6. What is not modelled

* The data of commands, responses, files and items beyond what orders or
  identifies them. Copies of a few words are one step; the epoch is one word,
  although `rtc_mock.c` copies its fields without a mutex.
* What commands do to devices. One of them (`cmd_impl_test_rtc.c:104`) takes the
  alarm of the RTC for itself; the schedule is then as after `rtc_soonest_is_armed`.
* littlefs itself, and operations on open files other than those of logging. What littlefs reads for a
  request whose size an overrun has overwritten may be outside the cache, and what the program does
  then is not modelled.
* Time, where it only says how long something takes: the boot window and the timeouts of
  `RadioUpdate` end at any moment, and so do the waits of `LogFiles`. Sequence numbers do not
  wrap around in `RadioUpdate` (they do in `CommsService`). The radio's forwarding
  between ground and computer, its telemetry and its authentication are left out.
* Whether tasks pet their watchdogs in time.
* Components listed as `not_modelled` in `PROJECT.json`, with their reasons: numerical code
  (ADCS), register access (drivers), code that no build enables (hardware RTC, MRAM),
  code that is unfinished (the OBC's bootloader), sequential automata and conversions of
  one task (the parser of the serial port, the calendar, telemetry's file format), the
  ground segment and test tools, vendored and generated code. FreeRTOS is modelled by
  what the code expects of it: mutexes, queues, notifications, buffers, priorities.

Of the C code in the repository, nearly all is FreeRTOS, littlefs, the DSP library and HALCoGen
output, each several times the size of the flight software: the share of all lines that the modules
translate is small and would stay so. Of the flight software they have the parts in which
several tasks, or computer and radio, work on the same state.


## 7. What could come next

1. `CommsService` as what `RadioUpdate` assumes of it, by refinement: today both are
   translated from the code, and only their comments say where they agree.
2. Telemetry's file, read backwards like the logs, and the parser of the serial port.
