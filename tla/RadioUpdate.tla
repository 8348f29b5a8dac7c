---------------------------- MODULE RadioUpdate ----------------------------
(***************************************************************************)
(* A firmware update of the radio: comms_flash_image and the command       *)
(* exchange under it on the on-board computer (obc-fw: comms_service.c,    *)
(* comms_mngr.c), the link, and the bootloader and the application of the  *)
(* radio (comms-fw: main/boot, main/app), which both answer the commands.  *)
(*                                                                         *)
(* An image is a number: 0 is what the radio's flash holds at first, k     *)
(* what update k writes.  A page of flash is the set of the images written *)
(* to it since it was erased, {} when it is blank: bits of flash can only  *)
(* be cleared, so a page with two members holds neither.  Torn is in a     *)
(* page that was being written when the radio was reset.  Time is left     *)
(* out: the radio's boot window (COMMAND_WATCHDOG_DELAY,                   *)
(* APP_FLASH_TIMEOUT) and the computer's timeouts end at any moment.       *)
(***************************************************************************)
EXTENDS Naturals, Sequences

CONSTANTS
  Pages,        \* the pages of an image
  QueueLength,  \* COMMS_MNGR_CMD_Q_LEN
  LinkLength,   \* messages the radio keeps for the computer, further ones are lost
  MaxUpdates,   \* bound: updates started
  MaxCommands,  \* bound: commands of the other session
  MaxFaults     \* bound: messages lost, transfers failed, resets nobody asked for

ASSUME UpdateAssumption ==
  /\ {Pages, QueueLength, LinkLength} \subseteq Nat \ {0}
  /\ {MaxUpdates, MaxCommands, MaxFaults} \subseteq Nat

VARIABLES
  fwup_state, page_count, at,  \* comms_flash_image: the step, and "send" or "wait" in it
  told,                        \* what the last update returned
  cmd_buf, seqnum,             \* the one command buffer; the endpoint's counter
  queued, draining,            \* pointers to cmd_buf in cmd_q; in the loop that sends them
  rfc_state,                   \* what the manager thinks the radio is doing
  cmd_sema, cmd_timer,         \* the semaphore is free; the timer runs
  active_session, pending, result,  \* whose command it is; sessions that wait; the update's
  down, up,                    \* messages on the way to the radio and back
  mode, flash,                 \* the program the radio runs; its application pages
  updates, commands, faults,   \* counters of the bounds
  crossed                      \* history: see SendCmd, Finish and NeverMixed

update  == <<fwup_state, page_count, at, told>>
service == <<cmd_buf, seqnum, cmd_sema, cmd_timer, active_session, pending, result>>
manager == <<queued, draining, rfc_state>>
link    == <<down, up>>
radio   == <<mode, flash>>
bounds  == <<updates, commands, faults>>
vars    == <<update, service, manager, link, radio, bounds, crossed>>

PageNumbers == 1..Pages
Images == 0..MaxUpdates
Torn == MaxUpdates + 1

\* signature_app_valid: the signature is at the end of the application's
\* pages, and is that of the pages before it.
Signed(f) == \E k \in Images : f = [p \in PageNumbers |-> {k}]

Command(name, page, len) ==
  [name |-> name, page |-> page, image |-> IF page = 0 THEN 0 ELSE updates,
   len |-> len, seq |-> seqnum]

Reply(ok, seq) == [name |-> "reply", ok |-> ok, seq |-> seq]
Start(name) == [name |-> name, ok |-> FALSE, seq |-> 0]

Init ==
  /\ fwup_state = "none" /\ page_count = 0 /\ at = "send" /\ told = "nothing"
  /\ cmd_buf = [name |-> "other", page |-> 0, image |-> 0, len |-> 0, seq |-> 0]
  /\ seqnum = 0 /\ queued = 0 /\ draining = FALSE /\ rfc_state = "ready"
  /\ cmd_sema = TRUE /\ cmd_timer = FALSE
  /\ active_session = "update" /\ pending = {} /\ result = FALSE
  /\ down = <<>> /\ up = <<>>
  /\ mode \in {"boot", "app"} /\ flash = [p \in PageNumbers |-> {0}]
  /\ updates = 0 /\ commands = 0 /\ faults = 0 /\ crossed = FALSE

-----------------------------------------------------------------------------
\* The users of the service.

\* session_send_cmd: without a payload the length of the last one stays.
\* When the queue is full the command is in the buffer all the same, where
\* the pointers in the queue find it, and its number is used again.
SendCmd(session, name, page, payload) ==
  /\ cmd_buf' = Command(name, page, IF payload = 0 THEN cmd_buf.len ELSE payload)
  /\ active_session' = session
  /\ IF queued < QueueLength
     THEN /\ queued' = queued + 1 /\ seqnum' = seqnum + 1
          /\ cmd_timer' = TRUE /\ pending' = pending \cup {session}
     ELSE UNCHANGED <<queued, seqnum, cmd_timer, pending>>
  /\ crossed' = (crossed \/ queued >= QueueLength)

\* Payloads as the radio tells them apart: one byte, and those with room for
\* the four bytes of a postponement.
Byte == 1
Long == 4

\* Another session's command: a request without payload, or data.
OtherCommand ==
  /\ cmd_sema /\ commands < MaxCommands
  /\ \E payload \in {0, Long} : SendCmd("other", "other", 0, payload)
  /\ cmd_sema' = ~(queued < QueueLength)
  /\ commands' = commands + 1
  /\ UNCHANGED <<update, result, draining, rfc_state, link, radio, updates, faults>>

StartUpdate ==
  /\ fwup_state = "none" /\ cmd_sema /\ updates < MaxUpdates
  /\ cmd_sema' = FALSE /\ updates' = updates + 1
  /\ fwup_state' = "begin" /\ page_count' = 0 /\ at' = "send" /\ told' = "nothing"
  /\ UNCHANGED <<cmd_buf, seqnum, cmd_timer, active_session, pending, result,
                 manager, link, radio, commands, faults, crossed>>

EndUpdate(outcome) ==
  /\ fwup_state' = "none" /\ page_count' = 0 /\ at' = "send" /\ told' = outcome
  /\ cmd_sema' = TRUE

\* One command of the update.  One that cannot be queued ends it, but for
\* the first: the radio may be in its bootloader already.
SendStep ==
  /\ fwup_state # "none" /\ at = "send"
  /\ \/ fwup_state = "begin" /\ SendCmd("update", "reboot", 0, 0)
     \/ fwup_state = "erase" /\ SendCmd("update", "erase", 0, 0)
     \/ fwup_state = "write" /\ SendCmd("update", "write", page_count + 1, Long)
     \/ fwup_state = "final" /\ SendCmd("update", "final", 0, Byte)
  /\ IF queued < QueueLength \/ fwup_state = "begin"
     THEN at' = "wait" /\ UNCHANGED <<fwup_state, page_count, told, cmd_sema>>
     ELSE EndUpdate("failed")
  /\ UNCHANGED <<result, draining, rfc_state, link, radio, bounds>>

\* Mutant: the pages are sent right after the reboot.
AdvanceUnerased ==
  /\ at' = "send" /\ cmd_sema' = FALSE /\ told' = told
  /\ page_count' = IF fwup_state = "write" THEN page_count + 1 ELSE page_count
  /\ fwup_state' = IF fwup_state = "begin" \/ (fwup_state = "write" /\ page_count + 1 < Pages)
                   THEN "write" ELSE "final"

Advance ==
  /\ at' = "send" /\ cmd_sema' = FALSE /\ told' = told
  /\ page_count' = IF fwup_state = "write" THEN page_count + 1 ELSE page_count
  /\ fwup_state' = CASE fwup_state = "begin" -> "erase"
                     [] fwup_state = "erase" -> "write"
                     [] fwup_state = "write" /\ page_count + 1 < Pages -> "write"
                     [] OTHER -> "final"

\* Mutant: the result is not looked at.
AnsweredAnyhow ==
  /\ at = "wait" /\ cmd_sema
  /\ IF fwup_state = "final" THEN EndUpdate("ok") ELSE Advance
  /\ UNCHANGED <<cmd_buf, seqnum, cmd_timer, active_session, pending, result,
                 manager, link, radio, bounds, crossed>>

\* The semaphore was given: by the answer, a failed transfer or the timer.
Answered ==
  /\ at = "wait" /\ cmd_sema
  /\ IF ~result THEN EndUpdate("failed")
     ELSE IF fwup_state = "final" THEN EndUpdate("ok") ELSE Advance
  /\ UNCHANGED <<cmd_buf, seqnum, cmd_timer, active_session, pending, result,
                 manager, link, radio, bounds, crossed>>

\* A second without an answer.
AnswerTimeout ==
  /\ at = "wait" /\ ~cmd_sema
  /\ EndUpdate("failed")
  /\ UNCHANGED <<cmd_buf, seqnum, cmd_timer, active_session, pending, result,
                 manager, link, radio, bounds, crossed>>

\* The command is over: the semaphore is given, whoever holds it, also to an
\* update that is between two commands and has just taken it.
Finish ==
  /\ cmd_timer' = FALSE /\ pending' = pending \ {active_session} /\ cmd_sema' = TRUE
  /\ crossed' = (crossed \/ (fwup_state # "none" /\ at = "send"))

\* session_handle_command_failure
CommandFails ==
  /\ Finish
  /\ result' = (result /\ active_session # "update")

\* The timer runs for two seconds and every command queued restarts it: it
\* does not end in the second in which the update waits for its command.
TimerExpires ==
  /\ cmd_timer /\ (at = "wait" => cmd_buf.seq = seqnum)
  /\ CommandFails
  /\ UNCHANGED <<update, cmd_buf, seqnum, active_session, manager, link, radio, bounds>>

-----------------------------------------------------------------------------
\* The communications manager.

\* A command is sent when the radio is not busy; the rest of the queue
\* follows whatever the radio has become by then.
MaySend == queued > 0 /\ (draining \/ rfc_state # "busy")

Transmit ==
  /\ MaySend
  /\ queued' = queued - 1 /\ draining' = (queued > 1)
  /\ rfc_state' = "busy"
  /\ down' = Append(down, cmd_buf)
  /\ UNCHANGED <<update, service, up, radio, bounds, crossed>>

TransmitFails ==
  /\ MaySend /\ faults < MaxFaults
  /\ faults' = faults + 1
  /\ queued' = queued - 1 /\ draining' = (queued > 1)
  /\ CommandFails
  /\ UNCHANGED <<update, cmd_buf, seqnum, active_session, rfc_state, link, radio,
                 updates, commands>>

\* A message of the radio: the answer to the command that is pending counts
\* as a success only with the number of the command in the buffer.
Receive ==
  /\ ~draining /\ up # <<>>
  /\ up' = Tail(up)
  /\ LET msg == Head(up) IN
     /\ rfc_state' = IF msg.name = "boot" THEN "init" ELSE "ready"
     /\ IF msg.name = "reply" /\ active_session \in pending
        THEN /\ Finish
             /\ result' = IF active_session = "update"
                          THEN msg.ok /\ msg.seq = cmd_buf.seq ELSE result
        ELSE UNCHANGED <<cmd_timer, pending, cmd_sema, result, crossed>>
  /\ UNCHANGED <<update, cmd_buf, seqnum, active_session, queued, draining,
                 down, radio, bounds>>

-----------------------------------------------------------------------------
\* The radio.

Post(msg) == up' = IF Len(up) < LinkLength THEN Append(up, msg) ELSE up
Answer(ok) == Post(Reply(ok, Head(down).seq))

\* commands_handle_command of the bootloader; what is for somebody else is
\* dropped, since only the application forwards.
BootCommand ==
  /\ mode = "boot" /\ down # <<>>
  /\ down' = Tail(down)
  /\ LET cmd == Head(down) IN
     \/ /\ cmd.name = "other"
        /\ \/ up' = up
           \/ Answer(FALSE)
        /\ UNCHANGED flash
     \/ /\ cmd.name = "reboot"
        /\ Answer(FALSE) /\ UNCHANGED flash
     \/ /\ cmd.name = "erase"
        /\ flash' = [p \in PageNumbers |-> {}] /\ Answer(TRUE)
     \/ /\ cmd.name = "write"
        /\ flash' = [flash EXCEPT ![cmd.page] = @ \cup {cmd.image}] /\ Answer(TRUE)
     \/ /\ cmd.name = "final"
        /\ Answer(cmd.len = Byte /\ Signed(flash)) /\ UNCHANGED flash
  /\ UNCHANGED <<update, service, manager, mode, bounds, crossed>>

\* commands_handle_command of the application: a reboot without parameter is
\* done before the next command is looked at, one with a parameter sets the
\* time of the next reboot if it is not too far away.
AppCommand ==
  /\ mode = "app" /\ down # <<>>
  /\ down' = Tail(down)
  /\ LET cmd == Head(down) IN
     \/ /\ cmd.name = "other"
        /\ \/ up' = up
           \/ \E ok \in BOOLEAN : Answer(ok)
        /\ UNCHANGED mode
     \/ /\ cmd.name = "reboot" /\ cmd.len < Long
        /\ Answer(TRUE) /\ mode' = "reset"
     \/ /\ cmd.name = "reboot" /\ cmd.len = Long
        /\ \E ok \in BOOLEAN : Answer(ok)
        /\ UNCHANGED mode
     \/ /\ cmd.name \in {"erase", "write", "final"}
        /\ Answer(FALSE) /\ UNCHANGED mode
  /\ UNCHANGED <<update, service, manager, flash, bounds, crossed>>

\* Mutant: the application is run without a look at the signature.
BootUnsigned ==
  /\ mode = "boot"
  /\ mode' = "app" /\ Post(Start("app")) /\ down' = <<>>
  /\ UNCHANGED <<update, service, manager, flash, bounds, crossed>>

\* Mutant: the watchdog resets the radio while it checks the signature.
BootTooSlow ==
  /\ mode = "boot"
  /\ mode' = "reset"
  /\ UNCHANGED <<update, service, manager, link, flash, bounds, crossed>>

\* The boot window ends: the application is run if it is signed, otherwise
\* the bootloader is left and the watchdog resets the radio.
BootApplication ==
  /\ mode = "boot"
  /\ IF Signed(flash)
     THEN mode' = "app" /\ Post(Start("app")) /\ down' = <<>>
     ELSE mode' = "reset" /\ UNCHANGED link
  /\ UNCHANGED <<update, service, manager, flash, bounds, crossed>>

\* What the radio had received is lost in a reset.
Reboot ==
  /\ mode = "reset"
  /\ mode' = "boot" /\ Post(Start("boot")) /\ down' = <<>>
  /\ UNCHANGED <<update, service, manager, flash, bounds, crossed>>

\* The watchdog, the automatic reboot of the application or the power: also
\* in the middle of an erase, which goes from the first page to the last, or
\* of a write.
RadioReset ==
  /\ mode # "reset" /\ faults < MaxFaults
  /\ faults' = faults + 1 /\ mode' = "reset"
  /\ \/ UNCHANGED flash
     \/ /\ mode = "boot" /\ down # <<>> /\ Head(down).name = "erase"
        /\ \E n \in PageNumbers :
             flash' = [p \in PageNumbers |->
                         IF p < n THEN {} ELSE IF p = n THEN flash[p] \cup {Torn} ELSE flash[p]]
     \/ /\ mode = "boot" /\ down # <<>> /\ Head(down).name = "write"
        /\ flash' = [flash EXCEPT ![Head(down).page] = @ \cup {Head(down).image, Torn}]
  /\ down' = <<>>
  /\ UNCHANGED <<update, service, manager, up, updates, commands, crossed>>

Lose ==
  /\ faults < MaxFaults /\ faults' = faults + 1
  /\ \/ down # <<>> /\ down' = Tail(down) /\ up' = up
     \/ up # <<>> /\ up' = Tail(up) /\ down' = down
  /\ UNCHANGED <<update, service, manager, radio, updates, commands, crossed>>

-----------------------------------------------------------------------------
\* COMMS_MNGR has the higher priority: the other tasks run when it waits.
User == ~MaySend /\ (OtherCommand \/ StartUpdate)
Updater == ~MaySend /\ (SendStep \/ Answered \/ AnswerTimeout)
Manager == Transmit \/ TransmitFails \/ Receive
Radio == BootCommand \/ AppCommand \/ BootApplication \/ Reboot

Next == User \/ Updater \/ TimerExpires \/ Manager \/ Radio \/ RadioReset \/ Lose

\* The tasks of the computer run, and so does the radio's processor; no link
\* is fair, and nobody has to start an update.
Fairness == WF_vars(Updater) /\ WF_vars(Transmit) /\ WF_vars(Receive) /\ WF_vars(Radio)

Spec == Init /\ [][Next]_vars /\ Fairness

-----------------------------------------------------------------------------
\* Every variable has its type: no page outside the image is written, and the
\* queue never holds more than it has room for.
TypeOK ==
  /\ fwup_state \in {"none", "begin", "erase", "write", "final"}
  /\ page_count \in 0..Pages /\ at \in {"send", "wait"}
  /\ told \in {"nothing", "ok", "failed"}
  /\ queued \in 0..QueueLength /\ draining \in BOOLEAN
  /\ rfc_state \in {"init", "ready", "busy"}
  /\ cmd_sema \in BOOLEAN /\ cmd_timer \in BOOLEAN /\ result \in BOOLEAN
  /\ active_session \in {"update", "other"} /\ pending \subseteq {"update", "other"}
  /\ mode \in {"boot", "app", "reset"}
  /\ flash \in [PageNumbers -> SUBSET (0..Torn)]

\* The radio never runs anything but one complete image: neither half an
\* update, nor pages of two updates, nor a page that was being written when
\* the power went.
RunsSigned == mode = "app" => Signed(flash)

\* When comms_flash_image has returned COMMS_SUCCESS, every page of that
\* image is in the radio's flash, whatever was lost, late, sent twice or reset
\* on the way, and stays there until the next update.  See NeverMixed for
\* crossed.
ReportedIsWhole ==
  told = "ok" /\ ~crossed => flash = [p \in PageNumbers |-> {updates}]

\* No page is written twice with different images without an erase between:
\* the pages of an update that failed are never mixed with those of another.
\* Two things make an update take one answer for another: a semaphore given
\* between two of its commands, each wait then ending with the answer to the
\* command before; and a command that the full queue refused, since it is sent
\* through the pointers in the queue and its number is given to the next one.
NeverMixed ==
  ~crossed => \A p \in PageNumbers : \A j, k \in Images : {j, k} \subseteq flash[p] => j = k

\* An update that was reported as done takes effect: the radio comes to run
\* the new image, unless another update is started first.
TakesEffect ==
  told = "ok" ~> (told # "ok" \/ (mode = "app" /\ flash = [p \in PageNumbers |-> {updates}]))

\* "proceed on failure of reboot command in case comms is already in
\* bootloader state" (comms_service.c:430): an update is not given up because
\* the bootloader, which does not know the command, refuses the reboot.
BootloaderAccepted ==
  fwup_state = "begin" /\ at = "wait" /\ cmd_sema /\ mode = "boot" => result
=============================================================================
