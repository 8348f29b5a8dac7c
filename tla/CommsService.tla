---------------------------- MODULE CommsService ----------------------------
(***************************************************************************)
(* The comms service and the comms manager: system/comms/comms_service.c,  *)
(* comms_mngr.c, and the uplink end of system/gndstn/gndstn_link.c.        *)
(*                                                                         *)
(* A task with a session fills the one command buffer, queues a pointer to *)
(* it for the COMMS_MNGR task, starts the timer, and waits.  cmd_sema is   *)
(* the lock of the buffer, taken to send, and the signal that the command  *)
(* is finished, given by whoever finishes it: COMMS_MNGR with the response *)
(* or with a packet it could not send, or the timer.  The manager hands    *)
(* uplinked data to the task that reads it, and acknowledges it from a     *)
(* buffer of its own, to which the queue points too.                       *)
(*                                                                         *)
(* The timer's task has the highest priority, then COMMS_MNGR, then those  *)
(* of the users and of the reader of the uplink, which run when COMMS_MNGR *)
(* waits.  Packets arrive at any time.                                     *)
(***************************************************************************)
EXTENDS Naturals, Sequences, SequencesExt

CONSTANTS
  Users,        \* the tasks with a session, each with an endpoint of its own
  Tester,       \* the one in CMD_SYS_EXEC, which runs the test commands
  QueueLength,  \* COMMS_MNGR_CMD_Q_LEN: 5
  UplinkSize,   \* datagrams the uplink message buffer holds
  RxSize,       \* packets the driver's receive buffer holds
  SeqModulus,   \* values of seqnum: 2^16; a packet has room for half of them
  FirstSeqnum,  \* of each endpoint when the model begins: 0 at boot
  FlashSteps,   \* commands of a firmware update
  MaxCmds,      \* bound: commands made
  MaxDisturbed, \* bound: commands made, once one has been disturbed
  MaxData,      \* bound: datagrams uplinked
  MaxFaults     \* bound: refused commands, failed transmissions, resets of the radio

ASSUME UsersAssumption == Tester \in Users

ASSUME SizesAssumption ==
  /\ {QueueLength, UplinkSize, RxSize, FlashSteps} \subseteq Nat \ {0}
  /\ {MaxDisturbed, MaxData, MaxFaults} \subseteq Nat /\ MaxCmds \in Nat \ 0..MaxDisturbed - 1
  /\ SeqModulus \in Nat \ {0}

\* The largest seqnum that comms_check_cmd_struct accepts: 0x7FFF.
MaxSeqnum == SeqModulus \div 2 - 1

Ids == 0..MaxCmds     \* commands in the order they are made; 0 is none
Seqnums == 0..SeqModulus - 1

ASSUME FirstAssumption == FirstSeqnum \in [Users -> Seqnums]

Packet(kind, id, seq) == [kind |-> kind, id |-> id, seq |-> seq]

\* What the radio may hand over.  "ack" and "nack" are responses, which carry the
\* seqnum of the command they answer; "start" says that the radio has booted.
Answers == [kind : {"ack", "nack"}, id : Ids, seq : Seqnums]
Data    == [kind : {"data"}, id : 1..MaxData, seq : {0}]
Start   == Packet("start", 0, 0)

\* What cmd_resp holds: 0xff in every byte, an acknowledgement, or 0 in every byte.
Void     == Packet("void", 0, 0)
Ack      == Packet("reply", 0, 0)
Zero     == Packet("zero", 0, 0)
Commands == [kind : {"cmd"}, id : Ids, seq : Seqnums]

VARIABLES
  cmd_sema,        \* 1: given
  cmd_buf,         \* the command buffer
  active_session,  \* the user whose command is in it
  seqnum,          \* of each user's endpoint
  pending, resp,   \* of each session: a command waits; was the last result OK?
  cmd_timer,       \* the command the timer was started for, 0 when it is stopped
  pc,              \* where each user is
  fwup_state,      \* the step of the firmware update the tester is at, 0 when in none
  cmd_q,           \* pointers: "cmd" to cmd_buf, "resp" to cmd_resp
  cmd_resp,        \* the response buffer of comms_service_packet_input
  tx_bit, rx_bit,  \* the event group
  rfc_state,       \* "ready", which stands for INIT too, or "busy"
  mngr,            \* where COMMS_MNGR is
  set_tx,          \* was the TX bit set when it woke up?
  packet,          \* the packet it works on
  rx,              \* packets received by the driver
  air,             \* commands transmitted and not answered
  uplink,          \* the uplink message buffer
  \* history
  made,            \* number of commands made
  underway,        \* commands queued and not finished
  last,            \* the last command of each user that was queued
  acked,           \* commands the radio has acknowledged
  arrived, read,   \* how many datagrams arrived, were read
  faults,          \* faults of the radio that have happened
  disturbed        \* see OneUnderway

users   == <<pc, fwup_state, seqnum, active_session, cmd_buf, made, last>>
service == <<cmd_sema, pending, resp, cmd_timer, underway>>
queue   == <<cmd_q, tx_bit>>
radio   == <<rx, rx_bit, air, acked, arrived, faults>>
manager == <<mngr, set_tx, packet, cmd_resp, rfc_state>>
vars == <<users, service, queue, radio, manager, uplink, read, disturbed>>

Init ==
  /\ cmd_sema = 1
  /\ cmd_buf = Packet("cmd", 0, 0)
  /\ active_session \in Users
  /\ seqnum = FirstSeqnum
  /\ pending = [u \in Users |-> FALSE] /\ resp = [u \in Users |-> FALSE]
  /\ cmd_timer = 0
  /\ pc = [u \in Users |-> "idle"] /\ fwup_state = 0
  /\ cmd_q = <<>> /\ tx_bit = FALSE /\ rx_bit = FALSE
  /\ cmd_resp = Zero
  /\ rfc_state = "ready"
  /\ mngr = "wait" /\ set_tx = FALSE /\ packet = Void
  /\ rx = <<>> /\ air = {} /\ uplink = <<>>
  /\ made = 0 /\ underway = {} /\ last = [u \in Users |-> 0]
  /\ acked = {} /\ arrived = 0 /\ read = 0
  /\ faults = 0 /\ disturbed = FALSE

Goto(u, label) == pc' = [pc EXCEPT ![u] = label]

\* The bounds on the commands made.
MayMake == made < IF disturbed THEN MaxDisturbed ELSE MaxCmds

Flashing(u) == u = Tester /\ fwup_state # 0

----------------------------------------------------------------------------
(* The users.  One that waits in comms_send_command for cmd_sema is "idle". *)

\* session_send_cmd up to its call of the manager.
Fill(u) ==
  /\ made' = made + 1
  /\ cmd_buf' = Packet("cmd", made', seqnum[u])
  /\ seqnum' = [seqnum EXCEPT ![u] = (@ + 1) % SeqModulus]
  /\ active_session' = u
  /\ Goto(u, "enqueue")

\* comms_send_command takes the semaphore and fills the buffer.
Send(u) ==
  /\ pc[u] = "idle"
  /\ MayMake
  /\ cmd_sema = 1
  /\ cmd_sema' = 0
  /\ Fill(u)
  /\ UNCHANGED <<fwup_state, last, pending, resp, cmd_timer, underway,
                 queue, radio, manager, uplink, read, disturbed>>

\* COMMS_ERR_BUSY; the stress test waits for a response nevertheless.
SendBusy(u) ==
  /\ pc[u] = "idle"
  /\ u = Tester
  /\ cmd_sema = 0
  /\ Goto(u, "ask")
  /\ UNCHANGED <<fwup_state, seqnum, active_session, cmd_buf, made, last,
                 service, queue, radio, manager, uplink, read, disturbed>>

\* comms_flash_image takes the semaphore, for all its commands.
Flash(u) ==
  /\ pc[u] = "idle"
  /\ u = Tester
  /\ MayMake
  /\ cmd_sema = 1
  /\ cmd_sema' = 0
  /\ fwup_state' = 1
  /\ Fill(u)
  /\ UNCHANGED <<last, pending, resp, cmd_timer, underway,
                 queue, radio, manager, uplink, read, disturbed>>

\* comms_mngr_send_cmd.
Enqueue(u) ==
  /\ pc[u] = "enqueue"
  /\ Len(cmd_q) < QueueLength
  /\ cmd_q' = Append(cmd_q, "cmd")
  /\ tx_bit' = TRUE
  /\ underway' = underway \cup {cmd_buf.id}
  /\ last' = [last EXCEPT ![u] = cmd_buf.id]
  /\ Goto(u, "start")
  /\ UNCHANGED <<fwup_state, seqnum, active_session, cmd_buf, made, cmd_sema, pending, resp,
                 cmd_timer, radio, manager, uplink, read, disturbed>>

QueueFull(u) ==
  /\ pc[u] = "enqueue"
  /\ Len(cmd_q) = QueueLength
  /\ seqnum' = [seqnum EXCEPT ![u] = (@ + SeqModulus - 1) % SeqModulus]

\* Mutant: the semaphore is not given back when the queue is full.
EnqueueFailsKeeping(u) ==
  /\ QueueFull(u)
  /\ ~Flashing(u)
  /\ Goto(u, "idle")
  /\ UNCHANGED <<fwup_state, active_session, cmd_buf, made, last, service,
                 queue, radio, manager, uplink, read, disturbed>>

\* The queue is full: COMMS_ERR_BUSY, the semaphore given back.
EnqueueFails(u) ==
  /\ QueueFull(u)
  /\ ~Flashing(u)
  /\ cmd_sema' = 1
  /\ \E label \in {"idle"} \cup (IF u = Tester THEN {"ask"} ELSE {}) : Goto(u, label)
  /\ UNCHANGED <<fwup_state, active_session, cmd_buf, made, last, pending, resp, cmd_timer,
                 underway, queue, radio, manager, uplink, read, disturbed>>

\* Mutant: the timer is not started.
StartNoTimer(u) ==
  /\ pc[u] = "start"
  /\ Goto(u, "pend")
  /\ UNCHANGED <<fwup_state, seqnum, active_session, cmd_buf, made, last,
                 service, queue, radio, manager, uplink, read, disturbed>>

\* xTimerReset.
StartTimer(u) ==
  /\ pc[u] = "start"
  /\ cmd_timer' = cmd_buf.id
  /\ Goto(u, "pend")
  /\ UNCHANGED <<fwup_state, seqnum, active_session, cmd_buf, made, last, cmd_sema, pending, resp,
                 underway, queue, radio, manager, uplink, read, disturbed>>

SetPending(u) ==
  /\ pc[u] = "pend"
  /\ pending' = [pending EXCEPT ![u] = TRUE]
  /\ Goto(u, IF Flashing(u) THEN "flash_wait" ELSE "ask")
  /\ UNCHANGED <<fwup_state, seqnum, active_session, cmd_buf, made, last, cmd_sema, resp, cmd_timer,
                 underway, queue, radio, manager, uplink, read, disturbed>>

\* comms_wait_cmd_resp looks whose the last command was.
Ask(u) ==
  /\ pc[u] = "ask"
  /\ Goto(u, IF active_session = u THEN "wait" ELSE "idle")
  /\ UNCHANGED <<fwup_state, seqnum, active_session, cmd_buf, made, last,
                 service, queue, radio, manager, uplink, read, disturbed>>

\* The command is finished: it holds the semaphore while it copies the result.
WaitEnds(u) ==
  /\ pc[u] = "wait"
  /\ cmd_sema = 1
  /\ Goto(u, "idle")
  /\ UNCHANGED <<fwup_state, seqnum, active_session, cmd_buf, made, last,
                 service, queue, radio, manager, uplink, read, disturbed>>

\* COMMS_ERR_TIMEOUT.
WaitTimeout(u) ==
  /\ pc[u] = "wait"
  /\ cmd_sema = 0
  /\ Goto(u, "idle")
  /\ UNCHANGED <<fwup_state, seqnum, active_session, cmd_buf, made, last,
                 service, queue, radio, manager, uplink, read, disturbed>>

\* A firmware update ends and gives the semaphore.
FlashEnds(u) ==
  /\ cmd_sema' = 1
  /\ fwup_state' = 0
  /\ Goto(u, "idle")

\* The queue is full: only the first command of an update may fail, and the update then
\* waits for a response to it.
FlashEnqueueFails(u) ==
  /\ QueueFull(u)
  /\ Flashing(u)
  /\ IF fwup_state = 1
     THEN Goto(u, "flash_wait") /\ UNCHANGED <<cmd_sema, fwup_state>>
     ELSE FlashEnds(u)
  /\ UNCHANGED <<active_session, cmd_buf, made, last, pending, resp, cmd_timer, underway,
                 queue, radio, manager, uplink, read, disturbed>>

\* A command of the update succeeded; it keeps the semaphore and sends the next.
FlashNext(u) ==
  /\ pc[u] = "flash_wait"
  /\ cmd_sema = 1
  /\ resp[u] /\ fwup_state < FlashSteps /\ MayMake
  /\ cmd_sema' = 0
  /\ fwup_state' = fwup_state + 1
  /\ Fill(u)
  /\ UNCHANGED <<last, pending, resp, cmd_timer, underway,
                 queue, radio, manager, uplink, read, disturbed>>

\* It was the last one, or it failed.
FlashDone(u) ==
  /\ pc[u] = "flash_wait"
  /\ cmd_sema = 1
  /\ ~(resp[u] /\ fwup_state < FlashSteps /\ MayMake)
  /\ FlashEnds(u)
  /\ UNCHANGED <<seqnum, active_session, cmd_buf, made, last, pending, resp, cmd_timer, underway,
                 queue, radio, manager, uplink, read, disturbed>>

\* No response in 1000 ms: the update fails, with the timer still running unless the
\* command had not been queued.
FlashTimeout(u) ==
  /\ pc[u] = "flash_wait"
  /\ cmd_sema = 0
  /\ FlashEnds(u)
  /\ disturbed' = (disturbed \/ active_session # u \/ last[u] = cmd_buf.id)
  /\ UNCHANGED <<seqnum, active_session, cmd_buf, made, last, pending, resp, cmd_timer, underway,
                 queue, radio, manager, uplink, read>>

----------------------------------------------------------------------------
(* A command is finished: timer stopped, result set, semaphore given.  `id'*)
(* is the command that what finishes it is about, 0 for none.              *)

Finish(u, ok, id) ==
  /\ cmd_timer' = 0
  /\ resp' = [resp EXCEPT ![u] = ok]
  /\ pending' = [pending EXCEPT ![u] = FALSE]
  /\ cmd_sema' = 1
  /\ underway' = underway \ {id}

IsAnswer(p) == p.kind \in {"ack", "nack"}

\* A command is still on its way, or its answer is.
InFlight(id) ==
  \/ "cmd" \in Range(cmd_q) /\ cmd_buf.id = id
  \/ \E p \in air \cup Range(rx) \cup {packet} : p.kind # "data" /\ p.id = id

\* session_handle_command_failure for the timer.  The sender needs less than the timer's
\* 2000 ms for the statement that follows xTimerReset.
TimerExpires ==
  /\ cmd_timer # 0
  /\ \A u \in Users : pc[u] # "pend"
  /\ Finish(active_session, FALSE, cmd_timer)
  /\ disturbed' = (disturbed \/ InFlight(cmd_timer))
  /\ UNCHANGED <<users, queue, radio, manager, uplink, read>>

----------------------------------------------------------------------------
(* COMMS_MNGR.                                                             *)

\* comms_service_packet_failure fails the command of the active session, even for another
\* packet, or for its own while the sender has yet to start the timer.
Fail(p) ==
  /\ Finish(active_session, FALSE, IF p.kind = "cmd" THEN p.id ELSE 0)
  /\ disturbed' = \/ disturbed
                  \/ p.kind # "cmd" /\ cmd_sema = 0
                  \/ p.kind = "cmd" /\ \E u \in Users : pc[u] \in {"start", "pend"}

\* With the TX event, it sends until the queue is empty.
SendAll == IF cmd_q' = <<>> THEN "wait" ELSE "send"

\* It awaits the TX bit only while the radio is ready.
TxEvent == tx_bit /\ rfc_state = "ready"

\* The end of handle_rx_event.
GoOn ==
  /\ mngr' = IF set_tx THEN SendAll ELSE "wait"
  /\ set_tx' = FALSE

\* The handler of the command.  Every ACK is acknowledged, even one that is a response;
\* a NACK leaves a response of zeros, which passes for a packet.
Handled(p) == CASE p.kind \in {"ack", "data"} -> Ack
                [] p.kind = "nack"            -> Zero
                [] OTHER                      -> Void

\* handle_rx_event takes one packet.  A response that a command of the active session
\* waits for finishes it; anything else goes to a handler.
Receive ==
  /\ mngr = "wait"
  /\ rx_bit
  /\ rx_bit' = FALSE
  /\ rx' = Tail(rx)
  /\ LET p == Head(rx)
         responds == IsAnswer(p) /\ pending[active_session]
         queued   == cmd_resp' # Void /\ Len(cmd_q) < QueueLength
     IN  /\ rfc_state' = IF IsAnswer(p) \/ p = Start THEN "ready" ELSE rfc_state
         /\ cmd_resp' = IF responds THEN Void ELSE Handled(p)
         /\ cmd_q' = IF queued THEN Append(cmd_q, "resp") ELSE cmd_q
         /\ tx_bit' = (queued \/ (tx_bit /\ ~TxEvent))
         /\ IF responds \/ p.kind = "data"
            THEN /\ packet' = p
                 /\ set_tx' = TxEvent
                 /\ mngr' = IF responds THEN "respond" ELSE "deliver"
            ELSE /\ mngr' = IF TxEvent THEN SendAll ELSE "wait"
                 /\ UNCHANGED <<packet, set_tx>>
  /\ UNCHANGED <<users, service, air, acked, arrived, faults, uplink, read, disturbed>>

\* Mutant: a response does not stop the timer.
RespondTimed ==
  /\ mngr = "respond"
  /\ resp' = [resp EXCEPT ![active_session] = packet.kind = "ack" /\ packet.seq = cmd_buf.seq]
  /\ pending' = [pending EXCEPT ![active_session] = FALSE]
  /\ cmd_sema' = 1
  /\ underway' = underway \ {packet.id}
  /\ packet' = Void
  /\ UNCHANGED <<users, cmd_timer, queue, radio, cmd_resp, rfc_state, uplink, read, disturbed>>
  /\ GoOn

\* Mutant: a refusal counts as an answer.
RespondToAny ==
  /\ mngr = "respond"
  /\ Finish(active_session, packet.seq = cmd_buf.seq, packet.id)
  /\ packet' = Void
  /\ UNCHANGED <<users, queue, radio, cmd_resp, rfc_state, uplink, read, disturbed>>
  /\ GoOn

\* session_handle_command_response.
Respond ==
  /\ mngr = "respond"
  /\ Finish(active_session, packet.kind = "ack" /\ packet.seq = cmd_buf.seq, packet.id)
  /\ packet' = Void
  /\ UNCHANGED <<users, queue, radio, cmd_resp, rfc_state, uplink, read, disturbed>>
  /\ GoOn

\* Mutant: the uplink handler does not wait for room.
DeliverOrDrop ==
  /\ mngr = "deliver"
  /\ uplink' = IF Len(uplink) < UplinkSize THEN Append(uplink, packet.id) ELSE uplink
  /\ packet' = Void
  /\ UNCHANGED <<users, service, queue, radio, cmd_resp, rfc_state, read, disturbed>>
  /\ GoOn

\* gndstn_uplink_handle_data waits for room in the message buffer.
Deliver ==
  /\ mngr = "deliver"
  /\ Len(uplink) < UplinkSize
  /\ uplink' = Append(uplink, packet.id)
  /\ packet' = Void
  /\ UNCHANGED <<users, service, queue, radio, cmd_resp, rfc_state, read, disturbed>>
  /\ GoOn

\* The TX event alone.
WakeToSend ==
  /\ mngr = "wait"
  /\ ~rx_bit
  /\ TxEvent
  /\ tx_bit' = FALSE
  /\ UNCHANGED <<users, service, cmd_q, radio, set_tx, packet, cmd_resp, rfc_state,
                 uplink, read, disturbed>>
  /\ mngr' = SendAll

\* handle_tx_event follows the pointer and converts what it points to.
SendNext ==
  /\ mngr = "send"
  /\ cmd_q' = Tail(cmd_q)
  /\ LET p == IF Head(cmd_q) = "cmd" THEN cmd_buf ELSE cmd_resp
     IN  IF p = Void \/ p.seq > MaxSeqnum
         THEN Fail(p) /\ mngr' = SendAll /\ UNCHANGED packet
         ELSE packet' = p /\ mngr' = "transmit" /\ UNCHANGED <<service, disturbed>>
  /\ UNCHANGED <<users, tx_bit, radio, set_tx, cmd_resp, rfc_state, uplink, read>>

\* The radio is busy with whatever is not a response.
Transmit ==
  /\ mngr = "transmit"
  /\ air' = IF packet.kind = "cmd" THEN air \cup {packet} ELSE air
  /\ rfc_state' = IF packet = Ack THEN rfc_state ELSE "busy"
  /\ packet' = Void
  /\ UNCHANGED <<users, service, queue, rx, rx_bit, acked, arrived, faults, set_tx, cmd_resp,
                 uplink, read, disturbed>>
  /\ mngr' = SendAll

Fault == faults < MaxFaults /\ faults' = faults + 1

\* comms_dev_send fails.
TransmitFails ==
  /\ mngr = "transmit"
  /\ Fault
  /\ Fail(packet)
  /\ packet' = Void
  /\ UNCHANGED <<users, queue, rx, rx_bit, air, acked, arrived, set_tx, cmd_resp, rfc_state,
                 uplink, read>>
  /\ mngr' = SendAll

----------------------------------------------------------------------------
(* The radio and the ground, and the reader of the uplink.                 *)

Received(p) == rx' = Append(rx, p) /\ rx_bit' = TRUE

Acknowledge(p) ==
  /\ p \in air
  /\ Len(rx) < RxSize
  /\ air' = air \ {p}
  /\ Received(Packet("ack", p.id, p.seq))
  /\ acked' = acked \cup {p.id}
  /\ UNCHANGED <<users, service, queue, manager, arrived, faults, uplink, read, disturbed>>

Refuse(p) ==
  /\ p \in air
  /\ Len(rx) < RxSize
  /\ Fault
  /\ air' = air \ {p}
  /\ Received(Packet("nack", p.id, p.seq))
  /\ UNCHANGED <<users, service, queue, manager, acked, arrived, uplink, read, disturbed>>

Lose(p) ==
  /\ p \in air
  /\ air' = air \ {p}
  /\ UNCHANGED <<users, service, queue, rx, rx_bit, acked, arrived, faults, manager, uplink, read, disturbed>>

Uplink ==
  /\ arrived < MaxData
  /\ Len(rx) < RxSize
  /\ arrived' = arrived + 1
  /\ Received(Packet("data", arrived', 0))
  /\ UNCHANGED <<users, service, queue, air, acked, faults, manager, uplink, read, disturbed>>

\* The radio has been reset; it forgets what it had been given.
RadioStarts ==
  /\ Len(rx) < RxSize
  /\ Fault
  /\ air' = {}
  /\ Received(Start)
  /\ UNCHANGED <<users, service, queue, acked, arrived, manager, uplink, read, disturbed>>

Consume ==
  /\ uplink # <<>>
  /\ uplink' = Tail(uplink)
  /\ read' = read + 1
  /\ UNCHANGED <<users, service, queue, radio, manager, disturbed>>

----------------------------------------------------------------------------

Returns(u) ==
  \/ Enqueue(u) \/ EnqueueFails(u) \/ StartTimer(u) \/ SetPending(u)
  \/ Ask(u) \/ WaitEnds(u) \/ WaitTimeout(u)
  \/ FlashEnqueueFails(u) \/ FlashNext(u) \/ FlashDone(u) \/ FlashTimeout(u)

\* COMMS_MNGR can go on without waiting; comms_dev_send waits for the bus.
ManagerRuns ==
  \/ mngr = "wait" /\ (rx_bit \/ TxEvent)
  \/ mngr \in {"respond", "send"}
  \/ mngr = "deliver" /\ Len(uplink) < UplinkSize

User(u) == ~ManagerRuns /\ (Send(u) \/ SendBusy(u) \/ Flash(u) \/ Returns(u))

Manager ==
  \/ Receive \/ Respond \/ Deliver
  \/ WakeToSend \/ SendNext \/ Transmit \/ TransmitFails

Environment ==
  \/ \E p \in air : Acknowledge(p) \/ Refuse(p) \/ Lose(p)
  \/ Uplink \/ RadioStarts
  \/ ~ManagerRuns /\ Consume

Next == (\E u \in Users : User(u)) \/ TimerExpires \/ Manager \/ Environment

\* The scheduler runs every task that can go on; the timer expires; the uplink is read.
Fairness ==
  /\ \A u \in Users : WF_vars(~ManagerRuns /\ Returns(u))
  /\ WF_vars(TimerExpires)
  /\ WF_vars(Manager)
  /\ WF_vars(~ManagerRuns /\ Consume)

Spec == Init /\ [][Next]_vars /\ Fairness

----------------------------------------------------------------------------

Places == {"idle", "enqueue", "start", "pend", "ask", "wait", "flash_wait"}

\* The state is of the kind its declaration says.
TypeOK ==
  /\ cmd_sema \in {0, 1}
  /\ cmd_buf \in Commands
  /\ active_session \in Users
  /\ seqnum \in [Users -> Seqnums]
  /\ pending \in [Users -> BOOLEAN] /\ resp \in [Users -> BOOLEAN]
  /\ cmd_timer \in Ids
  /\ pc \in [Users -> Places] /\ fwup_state \in 0..FlashSteps
  /\ cmd_q \in Seq({"cmd", "resp"}) /\ Len(cmd_q) <= QueueLength
  /\ cmd_resp \in {Void, Ack, Zero}
  /\ {tx_bit, rx_bit, set_tx, disturbed} \subseteq BOOLEAN
  /\ rfc_state \in {"ready", "busy"}
  /\ mngr \in {"wait", "respond", "deliver", "send", "transmit"}
  /\ packet \in Commands \cup Answers \cup Data \cup {Void, Ack, Zero, Start}
  /\ rx \in Seq(Answers \cup Data \cup {Start}) /\ Len(rx) <= RxSize
  /\ air \subseteq Commands
  /\ uplink \in Seq(1..MaxData) /\ Len(uplink) <= UplinkSize
  /\ made \in Ids /\ underway \subseteq Ids /\ last \in [Users -> Ids] /\ acked \subseteq Ids
  /\ {arrived, read} \subseteq 0..MaxData /\ faults \in 0..MaxFaults

\* Places in which a user holds the semaphore or is about to give it without waiting for
\* anybody.
Holding == {"enqueue", "start", "flash_wait"}

\* The semaphore is not forgotten: while it is taken a user is at a place from which it
\* gives it or starts the timer, or the timer runs.
NoLostSemaphore ==
  cmd_sema = 1 \/ cmd_timer # 0 \/ \E u \in Users : pc[u] \in Holding

\* The command buffer belongs to one command at a time: at most one is underway, and none
\* while the semaphore can be taken.  It holds until one of these has happened: a command
\* is given up by its timer while it can still be sent or answered; the manager fails to
\* send it before its sender has started the timer; it fails to send a response while
\* the semaphore is taken; a firmware update gives up while its timer runs.
OneUnderway ==
  ~disturbed => \A c \in underway : cmd_sema = 0 /\ underway = {c} /\ cmd_buf.id = c

\* A task that can take the semaphore and copy an OK has sent a command, the last one it sent, that the radio
\* acknowledged, with the exceptions that OneUnderway names.
OkIsAcknowledged ==
  ~disturbed => \A u \in Users : pc[u] = "wait" /\ cmd_sema = 1 /\ resp[u] => last[u] \in acked

\* What the uplink's reader gets is what arrived, in order and without gaps, whatever
\* happens to the commands: what is in the message buffer follows what has been read, what
\* the manager holds follows that, and the driver's buffer has the rest.
UplinkInOrder ==
  LET waiting   == {i \in DOMAIN rx : rx[i].kind = "data"}
      delivered == read + Len(uplink)
      taken     == delivered + (IF packet.kind = "data" THEN 1 ELSE 0)
  IN  /\ \A i \in DOMAIN uplink : uplink[i] = read + i
      /\ packet.kind = "data" => packet.id = taken
      /\ taken <= arrived /\ {rx[i].id : i \in waiting} = taken + 1..arrived
      /\ \A i, j \in waiting : i < j => rx[i].id < rx[j].id

\* Whatever is lost, late or cannot be sent, the semaphore comes back.
SemaphoreComesBack == (cmd_sema = 0) ~> (cmd_sema = 1)
=============================================================================
