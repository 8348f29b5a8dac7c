------------------------- MODULE CommsService_proofs -------------------------
(***************************************************************************)
(* The comms service for every number of users, commands, datagrams and    *)
(* faults, and every size of the queue and the buffers:                    *)
(*   - the semaphore is never lost (IInv);                                 *)
(*   - types, and with them the order of the uplink (TypeInv);             *)
(*   - one command at a time, and results that are the sender's own, as    *)
(*     long as nothing has been disturbed (Serial).                        *)
(* And the way on which responses come to the service, for every size of   *)
(* its buffers, and all lengths of responses: what is sent is in order,    *)
(* and all that is missing has been dropped or cut off (DownInv).          *)
(***************************************************************************)
EXTENDS CommsService, Downlink, SequenceLemmas

----------------------------------------------------------------------------
(* While cmd_sema is taken, a user is at a place from which it gives it or *)
(* starts the timer, or the timer runs.  That a started timer runs takes   *)
(* two facts besides: the buffer holds the command made last, and nobody   *)
(* starts the timer before a command has been made.                        *)

Numbered ==
  /\ made \in Nat
  /\ cmd_buf.id = made
  /\ pc \in [Users -> Places]
  /\ \A u \in Users : pc[u] \in {"enqueue", "start"} => made > 0

IInv == Numbered /\ NoLostSemaphore

LEMMA InitIInv == Init => IInv
  BY DEF Init, IInv, Numbered, NoLostSemaphore, Packet, Places

\* A user makes a command.
LEMMA FillIInv ==
  ASSUME IInv, NEW u \in Users, Fill(u)
  PROVE  IInv'
<1>1. /\ made' = made + 1
      /\ cmd_buf'.id = made'
      /\ pc' = [pc EXCEPT ![u] = "enqueue"]
  BY DEF Fill, Packet, Goto
<1>2. Numbered'
  BY <1>1 DEF IInv, Numbered, Places
<1>3. pc'[u] = "enqueue"
  BY <1>1 DEF IInv, Numbered
<1>4. NoLostSemaphore'
  BY <1>3 DEF NoLostSemaphore, Holding
<1>5. QED
  BY <1>2, <1>4 DEF IInv

\* A command is finished.
LEMMA FinishIInv ==
  ASSUME IInv, NEW u, NEW ok, NEW id, Finish(u, ok, id), UNCHANGED users
  PROVE  IInv'
  BY DEF IInv, Numbered, NoLostSemaphore, Finish, users

\* A step that touches neither the users nor the service.
LEMMA OthersIInv ==
  ASSUME IInv, UNCHANGED <<users, service>>
  PROVE  IInv'
  BY DEF IInv, Numbered, NoLostSemaphore, Holding, users, service

\* A user goes on to another place and makes no command.
LEMMA GotoIInv ==
  ASSUME IInv, NEW u \in Users, NEW label \in Places,
         Goto(u, label), UNCHANGED <<made, cmd_buf>>,
         label = "enqueue" => FALSE,
         label = "start" => made > 0,
         \/ cmd_sema' = 1
         \/ cmd_timer' # 0
         \/ label \in Holding
         \/ pc[u] \notin Holding /\ UNCHANGED <<cmd_sema, cmd_timer>>
  PROVE  IInv'
<1>1. pc' = [pc EXCEPT ![u] = label] /\ pc \in [Users -> Places]
  BY DEF Goto, IInv, Numbered
<1>2. Numbered'
  BY <1>1 DEF IInv, Numbered
<1>3. pc'[u] = label /\ \A v \in Users : v # u => pc'[v] = pc[v]
  BY <1>1
<1>4. NoLostSemaphore'
  BY <1>3 DEF IInv, NoLostSemaphore
<1>5. QED
  BY <1>2, <1>4 DEF IInv

\* The steps of a user.
LEMMA UserIInv ==
  ASSUME IInv, NEW u \in Users, User(u)
  PROVE  IInv'
<1>1. CASE Send(u) \/ Flash(u) \/ FlashNext(u)
  BY <1>1, FillIInv DEF Send, Flash, FlashNext
<1>2. CASE SendBusy(u)
  <2>1. Goto(u, "ask") /\ pc[u] \notin Holding /\ UNCHANGED <<made, cmd_buf, cmd_sema, cmd_timer>>
    BY <1>2 DEF SendBusy, Holding, service
  <2>2. QED
    BY <2>1, GotoIInv DEF Places
<1>3. CASE Enqueue(u)
  <2>1. Goto(u, "start") /\ UNCHANGED <<made, cmd_buf>> /\ pc[u] = "enqueue"
    BY <1>3 DEF Enqueue
  <2>2. made > 0
    BY <2>1 DEF IInv, Numbered
  <2>3. QED
    BY <2>1, <2>2, GotoIInv DEF Places, Holding
<1>4. CASE EnqueueFails(u)
  <2>1. PICK label \in {"idle", "ask"} : Goto(u, label)
    BY <1>4 DEF EnqueueFails
  <2>2. UNCHANGED <<made, cmd_buf>> /\ cmd_sema' = 1
    BY <1>4 DEF EnqueueFails
  <2>3. QED
    BY <2>1, <2>2, GotoIInv DEF Places
<1>5. CASE StartTimer(u)
  <2>1. Goto(u, "pend") /\ UNCHANGED <<made, cmd_buf>> /\ cmd_timer' = cmd_buf.id /\ pc[u] = "start"
    BY <1>5 DEF StartTimer
  <2>2. cmd_timer' # 0
    BY <2>1 DEF IInv, Numbered
  <2>3. QED
    BY <2>1, <2>2, GotoIInv DEF Places
<1>6. CASE SetPending(u)
  <2>1. PICK label \in {"flash_wait", "ask"} : Goto(u, label)
    BY <1>6 DEF SetPending
  <2>2. UNCHANGED <<made, cmd_buf, cmd_sema, cmd_timer>> /\ pc[u] = "pend"
    BY <1>6 DEF SetPending
  <2>3. QED
    BY <2>1, <2>2, GotoIInv DEF Places, Holding
<1>7. CASE Ask(u)
  <2>1. PICK label \in {"wait", "idle"} : Goto(u, label)
    BY <1>7 DEF Ask
  <2>2. UNCHANGED <<made, cmd_buf, cmd_sema, cmd_timer>> /\ pc[u] = "ask"
    BY <1>7 DEF Ask, service
  <2>3. QED
    BY <2>1, <2>2, GotoIInv DEF Places, Holding
<1>8. CASE WaitEnds(u) \/ WaitTimeout(u)
  <2>1. Goto(u, "idle") /\ UNCHANGED <<made, cmd_buf, cmd_sema, cmd_timer>> /\ pc[u] = "wait"
    BY <1>8 DEF WaitEnds, WaitTimeout, service
  <2>2. QED
    BY <2>1, GotoIInv DEF Places, Holding
<1>9. CASE FlashEnqueueFails(u)
  <2>1. UNCHANGED <<made, cmd_buf>>
    BY <1>9 DEF FlashEnqueueFails
  <2>2. CASE Goto(u, "flash_wait")
    BY <2>1, <2>2, GotoIInv DEF Places, Holding
  <2>3. CASE FlashEnds(u)
    BY <2>1, <2>3, GotoIInv DEF FlashEnds, Places
  <2>4. QED
    BY <1>9, <2>2, <2>3 DEF FlashEnqueueFails
<1>10. CASE FlashDone(u) \/ FlashTimeout(u)
  <2>1. Goto(u, "idle") /\ cmd_sema' = 1 /\ UNCHANGED <<made, cmd_buf>>
    BY <1>10 DEF FlashDone, FlashTimeout, FlashEnds
  <2>2. QED
    BY <2>1, GotoIInv DEF Places
<1>11. QED
  BY <1>1, <1>2, <1>3, <1>4, <1>5, <1>6, <1>7, <1>8, <1>9, <1>10 DEF User, Returns

\* The steps of COMMS_MNGR.
LEMMA ManagerIInv ==
  ASSUME IInv, Manager
  PROVE  IInv'
<1>1. CASE Receive \/ Deliver \/ WakeToSend \/ Transmit
  BY <1>1, OthersIInv DEF Receive, Deliver, WakeToSend, Transmit
<1>2. CASE Respond
  BY <1>2, FinishIInv DEF Respond
<1>3. ASSUME NEW p, Fail(p), UNCHANGED users
      PROVE  IInv'
  BY <1>3, FinishIInv DEF Fail
<1>4. CASE SendNext
  <2>1. PICK p : Fail(p) \/ UNCHANGED service
    BY <1>4 DEF SendNext
  <2>2. UNCHANGED users
    BY <1>4 DEF SendNext
  <2>3. QED
    BY <2>1, <2>2, <1>3, OthersIInv
<1>5. CASE TransmitFails
  BY <1>5, <1>3 DEF TransmitFails
<1>6. QED
  BY <1>1, <1>2, <1>4, <1>5 DEF Manager

LEMMA NextIInv == IInv /\ [Next]_vars => IInv'
<1> SUFFICES ASSUME IInv, [Next]_vars PROVE IInv'
  OBVIOUS
<1>1. ASSUME NEW u \in Users, User(u)
      PROVE  IInv'
  BY <1>1, UserIInv
<1>2. CASE TimerExpires
  BY <1>2, FinishIInv DEF TimerExpires
<1>3. CASE Manager
  BY <1>3, ManagerIInv
<1>4. CASE Environment
  BY <1>4, OthersIInv DEF Environment, Acknowledge, Refuse, Lose, Uplink, RadioStarts, Consume
<1>5. CASE UNCHANGED vars
  BY <1>5, OthersIInv DEF vars
<1>6. QED
  BY <1>1, <1>2, <1>3, <1>4, <1>5 DEF Next

\* While cmd_sema is taken, a user is at a place from which it gives it or starts the timer,
\* or the timer runs: no error path of the service or the manager forgets it.
THEOREM SemaphoreIsNotLost == Spec => []NoLostSemaphore
<1>1. IInv => NoLostSemaphore
  BY DEF IInv
<1>2. QED
  BY InitIInv, NextIInv, <1>1, PTL DEF Spec

----------------------------------------------------------------------------
(* Types, and the order of the uplink: what is in the driver's buffer is   *)
(* bounded by what has arrived, what is read by both.                      *)

RxPackets == Answers \cup Data \cup {Start}

\* What the manager works on at each of its places.
PacketOK ==
  /\ mngr \in {"wait", "send"} => packet = Void
  /\ mngr = "respond" => packet \in Answers
  /\ mngr = "deliver" => packet \in Data
  /\ mngr = "transmit" => packet \in Commands \cup {Ack, Zero}

TypeOfUsers ==
  /\ cmd_sema \in {0, 1}
  /\ cmd_buf \in Commands
  /\ active_session \in Users
  /\ seqnum \in [Users -> Seqnums]
  /\ pending \in [Users -> BOOLEAN] /\ resp \in [Users -> BOOLEAN]
  /\ cmd_timer \in Ids
  /\ pc \in [Users -> Places] /\ fwup_state \in 0..FlashSteps
  /\ made \in Ids /\ underway \subseteq Ids /\ last \in [Users -> Ids]

TypeOfQueue ==
  /\ cmd_q \in Seq({"cmd", "resp"}) /\ Len(cmd_q) <= QueueLength
  /\ tx_bit \in BOOLEAN /\ (mngr = "send" => cmd_q # <<>>)

TypeOfManager ==
  /\ cmd_resp \in {Void, Ack, Zero}
  /\ {rx_bit, set_tx, disturbed} \subseteq BOOLEAN
  /\ rfc_state \in {"ready", "busy"}
  /\ mngr \in {"wait", "respond", "deliver", "send", "transmit"}
  /\ PacketOK

TypeOfRadio ==
  /\ rx \in Seq(RxPackets) /\ Len(rx) <= RxSize /\ (rx_bit => rx # <<>>)
  /\ air \subseteq Commands /\ acked \subseteq Ids
  /\ faults \in 0..MaxFaults

TypeOfUplink ==
  /\ uplink \in Seq(1..MaxData) /\ Len(uplink) <= UplinkSize
  /\ {arrived, read} \subseteq 0..MaxData
  /\ UplinkInOrder

TypeInv == TypeOfUsers /\ TypeOfQueue /\ TypeOfManager /\ TypeOfRadio /\ TypeOfUplink


LEMMA SeqnumFacts ==
  ASSUME NEW s \in Seqnums
  PROVE  (s + 1) % SeqModulus \in Seqnums /\ (s + SeqModulus - 1) % SeqModulus \in Seqnums
<1>1. SeqModulus \in Nat \ {0}
  BY SizesAssumption
<1>2. \A a \in Nat : a % SeqModulus \in 0..SeqModulus - 1
  BY <1>1
<1>3. s + 1 \in Nat /\ s + SeqModulus - 1 \in Nat
  BY <1>1 DEF Seqnums
<1>. QED BY <1>2, <1>3 DEF Seqnums

LEMMA InitTypes == Init => TypeInv
<1>. SUFFICES ASSUME Init PROVE TypeInv
  OBVIOUS
<1>1. /\ {QueueLength, UplinkSize, RxSize, FlashSteps} \subseteq Nat \ {0}
      /\ {MaxDisturbed, MaxData, MaxFaults, MaxCmds} \subseteq Nat /\ SeqModulus \in Nat \ {0}
  BY SizesAssumption
<1>2. TypeOfUsers
  <2>1. 0 \in Ids /\ 0 \in Seqnums /\ 0 \in 0..FlashSteps
    BY <1>1 DEF Ids, Seqnums
  <2>. QED BY <2>1, FirstAssumption DEF Init, TypeOfUsers, Commands, Packet, Places
<1>3. TypeOfQueue /\ TypeOfRadio
  <2>1. QueueLength >= 0 /\ RxSize >= 0 /\ 0 \in 0..MaxFaults
    BY <1>1
  <2>2. <<>> \in Seq({"cmd", "resp"}) /\ <<>> \in Seq(RxPackets) /\ Len(<<>>) = 0
    BY EmptySeq
  <2>. QED BY <2>1, <2>2 DEF Init, TypeOfQueue, TypeOfRadio
<1>5. TypeOfManager
  BY DEF Init, TypeOfManager, PacketOK
<1>4. TypeOfUplink
  <2>1. UplinkInOrder
    BY DEF Init, UplinkInOrder, Void, Packet
  <2>. QED BY <1>1, <2>1 DEF Init, TypeOfUplink
<1>. QED BY <1>2, <1>3, <1>4, <1>5 DEF TypeInv

LEMMA FillTypes ==
  ASSUME TypeInv, NEW u \in Users, Fill(u), MayMake
  PROVE  /\ made' \in Ids /\ cmd_buf' \in Commands /\ seqnum' \in [Users -> Seqnums]
         /\ active_session' \in Users /\ pc' \in [Users -> Places]
<1>1. MaxCmds \in Nat /\ MaxDisturbed \in Nat /\ MaxDisturbed <= MaxCmds
  BY SizesAssumption
<1>2. made' \in Ids
  BY <1>1 DEF Fill, MayMake, Ids, TypeInv, TypeOfUsers
<1>3. seqnum[u] \in Seqnums /\ (seqnum[u] + 1) % SeqModulus \in Seqnums
  BY SeqnumFacts DEF TypeInv, TypeOfUsers
<1>. QED BY <1>2, <1>3 DEF Fill, Goto, Packet, Commands, Places, TypeInv, TypeOfUsers

LEMMA UserTypes ==
  ASSUME TypeInv, NEW u \in Users, User(u)
  PROVE  TypeInv'
<1>. USE DEF TypeInv
<1>1. CASE Send(u) \/ Flash(u) \/ FlashNext(u)
  <2>1. MayMake /\ Fill(u)
    BY <1>1 DEF Send, Flash, FlashNext
  <2>2. FlashSteps \in Nat \ {0}
    BY SizesAssumption
  <2>3. fwup_state' \in 0..FlashSteps
    BY <1>1, <2>2 DEF Send, Flash, FlashNext, TypeOfUsers
  <2>4. TypeOfUsers'
    BY <1>1, <2>1, <2>3, FillTypes DEF Send, Flash, FlashNext, TypeOfUsers
  <2>5. UNCHANGED <<queue, radio, manager, uplink, read, disturbed>>
    BY <1>1 DEF Send, Flash, FlashNext
  <2>. QED
    BY <2>4, <2>5 DEF TypeOfQueue, TypeOfManager, TypeOfRadio, TypeOfUplink, PacketOK, UplinkInOrder,
                      queue, radio, manager
<1>2. CASE Enqueue(u)
  <2>1. TypeOfUsers'
    BY <1>2 DEF Enqueue, TypeOfUsers, Goto, Places, Commands
  <2>2. TypeOfQueue'
    <3>1. /\ cmd_q' \in Seq({"cmd", "resp"}) /\ Len(cmd_q') = Len(cmd_q) + 1 /\ Len(cmd_q) \in Nat
      BY <1>2, AppendProperties DEF Enqueue, TypeOfQueue
    <3>2. cmd_q' # <<>>
      BY <3>1
    <3>. QED BY <1>2, <3>1, <3>2, SizesAssumption DEF Enqueue, TypeOfQueue
  <2>. QED
    BY <1>2, <2>1, <2>2 DEF Enqueue, TypeOfManager, TypeOfRadio, TypeOfUplink, PacketOK, UplinkInOrder,
                            radio, manager
<1>3. CASE \/ EnqueueFails(u) \/ StartTimer(u) \/ SetPending(u) \/ SendBusy(u)
           \/ Ask(u) \/ WaitEnds(u) \/ WaitTimeout(u)
           \/ FlashEnqueueFails(u) \/ FlashDone(u) \/ FlashTimeout(u)
  <2>1. UNCHANGED <<queue, radio, manager, uplink, read>> /\ disturbed' \in BOOLEAN
    BY <1>3 DEF EnqueueFails, StartTimer, SetPending, SendBusy, Ask, WaitEnds, WaitTimeout,
                FlashEnqueueFails, FlashDone, FlashTimeout, TypeOfManager
  <2>2. TypeOfUsers'
    <3>1. CASE EnqueueFails(u) \/ FlashEnqueueFails(u)
      <4>1. (seqnum[u] + SeqModulus - 1) % SeqModulus \in Seqnums
        BY SeqnumFacts DEF TypeOfUsers
      <4>2. 0 \in 0..FlashSteps
        BY SizesAssumption
      <4>. QED BY <3>1, <4>1, <4>2 DEF EnqueueFails, FlashEnqueueFails, FlashEnds, QueueFull,
                                      TypeOfUsers, Goto, Places
    <3>2. CASE FlashDone(u) \/ FlashTimeout(u)
      <4>1. 0 \in 0..FlashSteps
        BY SizesAssumption
      <4>. QED BY <3>2, <4>1 DEF FlashDone, FlashTimeout, FlashEnds, TypeOfUsers, Goto, Places
    <3>3. CASE StartTimer(u) \/ SetPending(u)
      BY <3>3 DEF StartTimer, SetPending, TypeOfUsers, Goto, Places, Commands
    <3>4. CASE SendBusy(u) \/ Ask(u) \/ WaitEnds(u) \/ WaitTimeout(u)
      BY <3>4 DEF SendBusy, Ask, WaitEnds, WaitTimeout, service, TypeOfUsers, Goto, Places
    <3>. QED BY <1>3, <3>1, <3>2, <3>3, <3>4
  <2>. QED
    BY <2>1, <2>2 DEF TypeOfQueue, TypeOfManager, TypeOfRadio, TypeOfUplink, PacketOK, UplinkInOrder,
                      queue, radio, manager
<1>. QED BY <1>1, <1>2, <1>3 DEF User, Returns

\* A command is finished, and no user moves.
LEMMA FinishTypes ==
  ASSUME TypeInv, NEW ok \in BOOLEAN, NEW id, Finish(active_session, ok, id), UNCHANGED users
  PROVE  TypeOfUsers'
<1>1. 0 \in Ids
  BY SizesAssumption DEF Ids
<1>. QED BY <1>1 DEF Finish, users, TypeInv, TypeOfUsers

\* The end of the driver's buffer, which a packet that arrives is put to.
LEMMA ReceivedTypes ==
  ASSUME TypeInv, NEW p \in RxPackets, Received(p)
  PROVE  /\ rx' \in Seq(RxPackets) /\ Len(rx') = Len(rx) + 1 /\ Len(rx) \in Nat
         /\ rx'[Len(rx) + 1] = p /\ \A i \in 1..Len(rx) : rx'[i] = rx[i]
         /\ DOMAIN rx = 1..Len(rx) /\ DOMAIN rx' = 1..Len(rx) + 1
<1>1. rx \in Seq(RxPackets) /\ rx' = Append(rx, p)
  BY DEF Received, TypeInv, TypeOfRadio
<1>2. rx' \in Seq(RxPackets) /\ Len(rx') = Len(rx) + 1 /\ Len(rx) \in Nat
  BY <1>1, AppendProperties
<1>. QED BY <1>1, <1>2, AppendProperties, LenProperties

LEMMA HeadOfRx ==
  ASSUME TypeInv, rx # <<>>
  PROVE  /\ Head(rx) = rx[1] /\ Head(rx) \in RxPackets
         /\ Tail(rx) \in Seq(RxPackets) /\ Len(Tail(rx)) = Len(rx) - 1 /\ Len(rx) \in Nat \ {0}
         /\ \A i \in 1..Len(rx) - 1 : Tail(rx)[i] = rx[i + 1]
         /\ DOMAIN rx = 1..Len(rx) /\ DOMAIN Tail(rx) = 1..Len(rx) - 1
<1>1. rx \in Seq(RxPackets)
  BY DEF TypeInv, TypeOfRadio
<1>. QED BY <1>1, HeadTailProperties, LenProperties, ElementOfSeq

\* UplinkInOrder entry by entry: the datagrams of which the manager or the message buffer
\* has taken the last one, and those that wait in the driver's buffer.
Taken == read + Len(uplink) + (IF packet.kind = "data" THEN 1 ELSE 0)

Rest ==
  /\ \A i \in 1..Len(rx) : rx[i].kind = "data" => rx[i].id \in Taken + 1..arrived
  /\ \A n \in Taken + 1..arrived : \E i \in 1..Len(rx) : rx[i].kind = "data" /\ rx[i].id = n
  /\ \A i, j \in 1..Len(rx) :
       rx[i].kind = "data" /\ rx[j].kind = "data" /\ i < j => rx[i].id < rx[j].id

UplinkEntries ==
  /\ \A i \in 1..Len(uplink) : uplink[i] = read + i
  /\ packet.kind = "data" => packet.id = Taken
  /\ Taken <= arrived
  /\ Rest

LEMMA UplinkGives ==
  ASSUME TypeInv
  PROVE  UplinkEntries /\ Len(uplink) \in Nat /\ {read, arrived, Taken} \subseteq Nat
<1>1. DOMAIN rx = 1..Len(rx) /\ DOMAIN uplink = 1..Len(uplink) /\ Len(uplink) \in Nat
  BY LenProperties DEF TypeInv, TypeOfRadio, TypeOfUplink
<1>2. read \in Nat /\ arrived \in Nat
  BY DEF TypeInv, TypeOfUplink
<1>3. UplinkInOrder
  BY DEF TypeInv, TypeOfUplink
<1>4. Rest
  BY <1>1, <1>3 DEF UplinkInOrder, Rest, Taken
<1>. QED BY <1>1, <1>2, <1>3, <1>4 DEF UplinkInOrder, UplinkEntries, Taken

LEMMA UplinkFrom ==
  ASSUME UplinkEntries', rx' \in Seq(RxPackets), uplink' \in Seq(1..MaxData)
  PROVE  UplinkInOrder'
<1>1. DOMAIN rx' = 1..Len(rx') /\ DOMAIN uplink' = 1..Len(uplink')
  BY LenProperties
<1>2. Rest'
  BY DEF UplinkEntries
<1>3. {rx'[i].id : i \in {j \in DOMAIN rx' : rx'[j].kind = "data"}} = Taken' + 1..arrived'
  BY <1>1, <1>2 DEF Rest
<1>. QED BY <1>1, <1>2, <1>3 DEF UplinkEntries, UplinkInOrder, Taken, Rest

LEMMA ReceiveTypes ==
  ASSUME TypeInv, Receive
  PROVE  TypeInv'
<1>. DEFINE p == Head(rx)
            responds == IsAnswer(p) /\ pending[active_session]
            queued == cmd_resp' # Void /\ Len(cmd_q) < QueueLength
<1>1. rx # <<>>
  BY DEF Receive, TypeInv, TypeOfRadio
<1>2. /\ p = rx[1] /\ p \in RxPackets /\ rx' = Tail(rx)
      /\ rx' \in Seq(RxPackets) /\ Len(rx') = Len(rx) - 1 /\ Len(rx) \in Nat \ {0}
      /\ \A i \in 1..Len(rx') : rx'[i] = rx[i + 1]
  BY <1>1, HeadOfRx DEF Receive
<1>3. TypeOfUsers'
  BY DEF Receive, TypeInv, TypeOfUsers, users, service
<1>4. TypeOfQueue'
  <2>1. cmd_q' = cmd_q \/ (Len(cmd_q) < QueueLength /\ cmd_q' = Append(cmd_q, "resp"))
    BY DEF Receive
  <2>2. cmd_q \in Seq({"cmd", "resp"}) /\ Len(cmd_q) <= QueueLength /\ Len(cmd_q) \in Nat
    BY DEF TypeInv, TypeOfQueue
  <2>3. cmd_q' \in Seq({"cmd", "resp"}) /\ Len(cmd_q') <= QueueLength
    <3>1. CASE cmd_q' = cmd_q
      BY <2>2, <3>1
    <3>2. CASE Len(cmd_q) < QueueLength /\ cmd_q' = Append(cmd_q, "resp")
      <4>1. Append(cmd_q, "resp") \in Seq({"cmd", "resp"}) /\ Len(Append(cmd_q, "resp")) = Len(cmd_q) + 1
        BY <2>2, AppendProperties
      <4>2. QueueLength \in Nat
        BY SizesAssumption
      <4>. QED BY <2>2, <3>2, <4>1, <4>2
    <3>. QED BY <2>1, <3>1, <3>2
  <2>4. tx_bit' \in BOOLEAN
    BY Zenon DEF Receive
  <2>5. mngr' = "send" => cmd_q' # <<>>
    BY DEF Receive, SendAll
  <2>. QED BY <2>3, <2>4, <2>5 DEF TypeOfQueue
<1>5. /\ IF responds \/ p.kind = "data"
         THEN packet' = p /\ mngr' = IF responds THEN "respond" ELSE "deliver"
         ELSE mngr' \in {"wait", "send"} /\ packet' = packet
      /\ mngr = "wait"
  BY DEF Receive, SendAll
<1>6. packet = Void
  BY <1>5 DEF TypeInv, TypeOfManager, PacketOK
<1>7. TypeOfManager'
  <2>1. cmd_resp' \in {Void, Ack, Zero}
    BY DEF Receive, Handled
  <2>2. rx_bit' \in BOOLEAN /\ disturbed' \in BOOLEAN /\ rfc_state' \in {"ready", "busy"}
    BY DEF Receive, TypeInv, TypeOfManager
  <2>3. set_tx' \in BOOLEAN
    <3>1. set_tx' = TxEvent \/ set_tx' = set_tx
      BY DEF Receive
    <3>2. TxEvent \in BOOLEAN
      BY Zenon DEF TxEvent
    <3>. QED BY <3>1, <3>2 DEF TypeInv, TypeOfManager
  <2>4. PacketOK' /\ mngr' \in {"wait", "respond", "deliver", "send"}
    BY <1>2, <1>5, <1>6 DEF PacketOK, RxPackets, Answers, Data, Start, Packet, IsAnswer
  <2>. QED BY <2>1, <2>2, <2>3, <2>4 DEF TypeOfManager
<1>8. TypeOfRadio'
  <2>1. RxSize \in Nat /\ Len(rx) <= RxSize
    BY SizesAssumption DEF TypeInv, TypeOfRadio
  <2>2. Len(rx') <= RxSize
    BY <1>2, <2>1
  <2>3. UNCHANGED <<air, acked, faults>> /\ ~rx_bit'
    BY DEF Receive
  <2>. QED BY <1>2, <2>2, <2>3 DEF TypeInv, TypeOfRadio
<1>9. TypeOfUplink'
  <2>1. UplinkEntries /\ Len(uplink) \in Nat /\ {read, arrived, Taken} \subseteq Nat
    BY UplinkGives
  <2>2. UNCHANGED <<uplink, read, arrived>>
    BY DEF Receive
  <2>3. Void.kind # "data"
    BY DEF Void, Packet
  <2>4. \A i \in 1..Len(rx') : i + 1 \in 1..Len(rx) /\ i + 1 > 1
    BY <1>2
  <2>5. \A i \in 1..Len(rx) : i = 1 \/ (i - 1 \in 1..Len(rx') /\ rx'[i - 1] = rx[i])
    <3>. SUFFICES ASSUME NEW i \in 1..Len(rx), i # 1
                  PROVE  i - 1 \in 1..Len(rx') /\ rx'[i - 1] = rx[i]
      OBVIOUS
    <3>1. i - 1 \in 1..Len(rx') /\ (i - 1) + 1 = i
      BY <1>2
    <3>. QED BY <1>2, <3>1
  <2>6. 1 \in 1..Len(rx)
    BY <1>2
  <2>7. CASE rx[1].kind = "data"
    <3>1. packet' = rx[1] /\ Taken' = Taken + 1
      BY <1>2, <1>5, <1>6, <2>1, <2>2, <2>3, <2>7 DEF Taken
    <3>2. rx[1].id \in Taken + 1..arrived
      BY <2>1, <2>6, <2>7 DEF UplinkEntries, Rest
    <3>3. PICK j \in 1..Len(rx) : rx[j].kind = "data" /\ rx[j].id = Taken + 1
      BY <2>1, <3>2 DEF UplinkEntries, Rest
    <3>4. rx[1].id = Taken + 1
      BY <1>2, <2>1, <2>6, <2>7, <3>2, <3>3 DEF UplinkEntries, Rest
    <3>5. \A i, k \in 1..Len(rx') :
            rx'[i].kind = "data" /\ rx'[k].kind = "data" /\ i < k => rx'[i].id < rx'[k].id
      BY <1>2, <2>1, <2>4 DEF UplinkEntries, Rest
    <3>6. \A i \in 1..Len(rx') : rx'[i].kind = "data" => rx'[i].id \in Taken + 2..arrived
      <4>. SUFFICES ASSUME NEW i \in 1..Len(rx'), rx'[i].kind = "data"
                    PROVE  rx'[i].id \in Taken + 2..arrived
        OBVIOUS
      <4>1. rx[i + 1].id \in Taken + 1..arrived /\ rx[1].id < rx[i + 1].id
        BY <1>2, <2>1, <2>4, <2>6, <2>7 DEF UplinkEntries, Rest
      <4>. QED BY <1>2, <2>1, <3>4, <4>1
    <3>7. \A n \in Taken + 2..arrived : \E i \in 1..Len(rx') : rx'[i].kind = "data" /\ rx'[i].id = n
      <4>. SUFFICES ASSUME NEW n \in Taken + 2..arrived
                    PROVE  \E i \in 1..Len(rx') : rx'[i].kind = "data" /\ rx'[i].id = n
        OBVIOUS
      <4>1. n \in Taken + 1..arrived /\ n # Taken + 1
        BY <2>1
      <4>2. PICK i \in 1..Len(rx) : rx[i].kind = "data" /\ rx[i].id = n
        BY <2>1, <4>1 DEF UplinkEntries, Rest
      <4>. QED BY <2>5, <3>4, <4>1, <4>2
    <3>8. Taken' + 1 = Taken + 2 /\ Taken' <= arrived
      BY <2>1, <3>1, <3>2
    <3>9. Rest'
      BY <2>2, <3>5, <3>6, <3>7, <3>8 DEF Rest
    <3>. QED BY <1>2, <2>1, <2>2, <3>1, <3>4, <3>8, <3>9, UplinkFrom DEF UplinkEntries, TypeInv, TypeOfUplink
  <2>8. CASE rx[1].kind # "data"
    <3>1. packet'.kind # "data" /\ Taken' = Taken
      BY <1>2, <1>5, <1>6, <2>1, <2>2, <2>3, <2>8 DEF Taken
    <3>2. Rest'
      <4>1. \A i \in 1..Len(rx') : rx'[i].kind = "data" => rx'[i].id \in Taken + 1..arrived
        BY <1>2, <2>1, <2>4 DEF UplinkEntries, Rest
      <4>2. ASSUME NEW n \in Taken + 1..arrived
            PROVE  \E i \in 1..Len(rx') : rx'[i].kind = "data" /\ rx'[i].id = n
        <5>1. PICK i \in 1..Len(rx) : rx[i].kind = "data" /\ rx[i].id = n
          BY <2>1 DEF UplinkEntries, Rest
        <5>. QED BY <2>5, <2>8, <5>1
      <4>3. \A i, j \in 1..Len(rx') : rx'[i].kind = "data" /\ rx'[j].kind = "data" /\ i < j => rx'[i].id < rx'[j].id
        BY <1>2, <2>1, <2>4 DEF UplinkEntries, Rest
      <4>. QED BY <2>2, <3>1, <4>1, <4>2, <4>3 DEF Rest
    <3>. QED BY <1>2, <2>1, <2>2, <3>1, <3>2, UplinkFrom DEF UplinkEntries, TypeInv, TypeOfUplink
  <2>. QED BY <2>7, <2>8
<1>. QED BY <1>3, <1>4, <1>7, <1>8, <1>9 DEF TypeInv

\* The other steps of COMMS_MNGR.
LEMMA OnwardTypes ==
  ASSUME TypeInv, Respond \/ WakeToSend \/ Transmit
  PROVE  TypeInv'
<1>1. mngr' \in {"wait", "send"} /\ (mngr' = "send" => cmd_q' # <<>>) /\ packet' = Void
      /\ UNCHANGED <<cmd_q, uplink, read, arrived, rx, rx_bit, acked, faults, users, cmd_resp, disturbed>>
  BY DEF Respond, GoOn, SendAll, WakeToSend, Transmit, TypeInv, TypeOfManager, PacketOK, radio, queue
<1>2. TypeOfUsers'
  <2>1. (packet.kind = "ack" /\ packet.seq = cmd_buf.seq) \in BOOLEAN
    BY Zenon
  <2>2. CASE Respond
    BY <2>1, <2>2, FinishTypes DEF Respond
  <2>3. CASE WakeToSend \/ Transmit
    BY <2>3 DEF WakeToSend, Transmit, users, service, TypeInv, TypeOfUsers
  <2>. QED BY <2>2, <2>3
<1>3. TypeOfQueue'
  BY <1>1 DEF Respond, WakeToSend, Transmit, queue, TypeInv, TypeOfQueue
<1>4. TypeOfManager'
  <2>1. set_tx' \in BOOLEAN /\ rfc_state' \in {"ready", "busy"}
    BY DEF Respond, GoOn, WakeToSend, Transmit, TypeInv, TypeOfManager
  <2>. QED BY <1>1, <2>1 DEF TypeInv, TypeOfManager, PacketOK
<1>5. TypeOfRadio'
  <2>1. air' \subseteq Commands
    BY DEF Respond, WakeToSend, Transmit, radio, TypeInv, TypeOfRadio, TypeOfManager, PacketOK, Ack, Zero, Packet
  <2>. QED BY <1>1, <2>1 DEF TypeInv, TypeOfRadio
<1>6. TypeOfUplink'
  <2>1. packet.kind # "data"
    BY DEF Respond, WakeToSend, Transmit, TypeInv, TypeOfManager, PacketOK, Answers, Commands, Void, Ack, Zero, Packet
  <2>2. packet'.kind # "data"
    BY <1>1 DEF Void, Packet
  <2>3. UplinkEntries'
    BY <1>1, <2>1, <2>2, UplinkGives DEF UplinkEntries, Rest, Taken
  <2>. QED BY <1>1, <2>3, UplinkFrom DEF TypeInv, TypeOfUplink, TypeOfRadio
<1>. QED BY <1>2, <1>3, <1>4, <1>5, <1>6 DEF TypeInv

LEMMA DeliverTypes ==
  ASSUME TypeInv, Deliver
  PROVE  TypeInv'
<1>1. /\ packet \in Data /\ packet' = Void /\ uplink' = Append(uplink, packet.id) /\ Len(uplink) < UplinkSize
      /\ mngr' \in {"wait", "send"} /\ (mngr' = "send" => cmd_q' # <<>>)
      /\ UNCHANGED <<users, service, queue, radio, cmd_resp, rfc_state, read, disturbed>> /\ set_tx' = FALSE
  BY DEF Deliver, GoOn, SendAll, TypeInv, TypeOfManager, PacketOK
<1>2. TypeOfUsers' /\ TypeOfRadio'
  BY <1>1 DEF users, service, radio, TypeInv, TypeOfUsers, TypeOfRadio
<1>3. TypeOfQueue' /\ TypeOfManager'
  BY <1>1 DEF queue, radio, TypeInv, TypeOfQueue, TypeOfManager, PacketOK
<1>4. TypeOfUplink'
  <2>1. packet.id \in 1..MaxData /\ packet.kind = "data" /\ packet'.kind # "data"
    BY <1>1 DEF Data, Void, Packet
  <2>2. /\ uplink' \in Seq(1..MaxData) /\ Len(uplink') = Len(uplink) + 1
        /\ uplink'[Len(uplink) + 1] = packet.id /\ \A i \in 1..Len(uplink) : uplink'[i] = uplink[i]
    BY <1>1, <2>1, AppendProperties DEF TypeInv, TypeOfUplink
  <2>3. UplinkEntries /\ Len(uplink) \in Nat /\ {read, arrived, Taken} \subseteq Nat
    BY UplinkGives
  <2>4. UNCHANGED <<rx, arrived, read>>
    BY <1>1 DEF radio
  <2>5. Taken' = Taken /\ Taken = read + Len(uplink) + 1
    BY <2>1, <2>2, <2>3, <2>4 DEF Taken
  <2>6. \A i \in 1..Len(uplink') : uplink'[i] = read + i
    <3>1. \A i \in 1..Len(uplink') : i \in 1..Len(uplink) \/ i = Len(uplink) + 1
      BY <2>2, <2>3
    <3>. QED BY <2>1, <2>2, <2>3, <2>5, <3>1 DEF UplinkEntries
  <2>7. UplinkEntries'
    BY <2>1, <2>3, <2>4, <2>5, <2>6 DEF UplinkEntries, Rest
  <2>8. UplinkSize \in Nat
    BY SizesAssumption
  <2>9. Len(uplink') <= UplinkSize
    BY <1>1, <2>2, <2>3, <2>8
  <2>. QED BY <2>2, <2>4, <2>7, <2>9, UplinkFrom DEF TypeInv, TypeOfUplink, TypeOfRadio
<1>. QED BY <1>2, <1>3, <1>4 DEF TypeInv

\* The queue without its head.
LEMMA HeadOfQueue ==
  ASSUME TypeInv, mngr = "send"
  PROVE  /\ Tail(cmd_q) \in Seq({"cmd", "resp"}) /\ Len(Tail(cmd_q)) = Len(cmd_q) - 1
         /\ Head(cmd_q) = cmd_q[1] /\ Head(cmd_q) \in {"cmd", "resp"} /\ Len(cmd_q) \in Nat \ {0}
         /\ \A i \in 1..Len(cmd_q) - 1 : Tail(cmd_q)[i] = cmd_q[i + 1]
<1>1. cmd_q \in Seq({"cmd", "resp"}) /\ cmd_q # <<>>
  BY DEF TypeInv, TypeOfQueue
<1>. QED BY <1>1, HeadTailProperties

LEMMA FailTypes ==
  ASSUME TypeInv, NEW p, Fail(p), UNCHANGED users
  PROVE  TypeOfUsers' /\ disturbed' \in BOOLEAN
<1>1. disturbed' \in BOOLEAN
  BY Zenon DEF Fail
<1>2. PICK id : Finish(active_session, FALSE, id)
  BY DEF Fail
<1>. QED BY <1>1, <1>2, FinishTypes

LEMMA SendTypes ==
  ASSUME TypeInv, SendNext \/ TransmitFails
  PROVE  TypeInv'
<1>1. /\ mngr \in {"send", "transmit"} /\ UNCHANGED <<users, tx_bit, rx, rx_bit, air, acked, arrived,
                                                      set_tx, cmd_resp, rfc_state, uplink, read>>
      /\ faults' = faults \/ Fault
  BY DEF SendNext, TransmitFails, radio, queue
<1>2. TypeOfUsers' /\ disturbed' \in BOOLEAN
  <2>1. (\E p : Fail(p)) \/ UNCHANGED <<service, disturbed>>
    BY DEF SendNext, TransmitFails
  <2>. QED BY <1>1, <2>1, FailTypes DEF users, service, TypeInv, TypeOfUsers, TypeOfManager
<1>3. \/ mngr' \in {"wait", "send"} /\ packet' = Void /\ (mngr' = "send" => cmd_q' # <<>>)
      \/ mngr' = "transmit" /\ packet' \in Commands \cup {Ack, Zero}
  <2>1. CASE TransmitFails
    BY <2>1 DEF TransmitFails, SendAll
  <2>2. CASE SendNext
    <3>1. mngr = "send" /\ packet = Void
      BY <2>2 DEF SendNext, TypeInv, TypeOfManager, PacketOK
    <3>2. cmd_buf \in Commands /\ cmd_resp \in {Void, Ack, Zero}
      BY DEF TypeInv, TypeOfUsers, TypeOfManager
    <3>. QED BY <2>2, <3>1, <3>2 DEF SendNext, SendAll
  <2>. QED BY <2>1, <2>2
<1>4. TypeOfManager'
  BY <1>1, <1>2, <1>3 DEF TypeInv, TypeOfManager, PacketOK
<1>5. TypeOfQueue'
  <2>1. cmd_q' \in Seq({"cmd", "resp"}) /\ Len(cmd_q') <= QueueLength
    <3>1. QueueLength \in Nat /\ Len(cmd_q) <= QueueLength /\ cmd_q \in Seq({"cmd", "resp"})
      BY SizesAssumption DEF TypeInv, TypeOfQueue
    <3>2. CASE TransmitFails
      BY <3>1, <3>2 DEF TransmitFails, queue
    <3>3. CASE SendNext
      BY <3>1, <3>3, HeadOfQueue DEF SendNext
    <3>. QED BY <3>2, <3>3
  <2>. QED BY <1>1, <1>3, <2>1 DEF TypeInv, TypeOfQueue
<1>6. TypeOfRadio'
  BY <1>1, SizesAssumption DEF Fault, TypeInv, TypeOfRadio
<1>7. TypeOfUplink'
  <2>1. packet.kind # "data" /\ packet'.kind # "data"
    BY <1>1, <1>3 DEF TypeInv, TypeOfManager, PacketOK, Commands, Void, Ack, Zero, Packet
  <2>2. UplinkEntries'
    BY <1>1, <2>1, UplinkGives DEF UplinkEntries, Rest, Taken
  <2>. QED BY <1>1, <2>2, UplinkFrom DEF TypeInv, TypeOfUplink, TypeOfRadio
<1>. QED BY <1>2, <1>4, <1>5, <1>6, <1>7 DEF TypeInv

\* What is put at the end of the driver's buffer, and is no data, does not touch the uplink.
LEMMA AnswerInOrder ==
  ASSUME TypeInv, NEW p \in RxPackets, p.kind # "data", Received(p), UNCHANGED <<packet, uplink, read, arrived>>
  PROVE  UplinkEntries'
<1>1. UplinkEntries
  BY UplinkGives
<1>2. /\ Len(rx') = Len(rx) + 1 /\ Len(rx) \in Nat
      /\ rx'[Len(rx) + 1] = p /\ \A i \in 1..Len(rx) : rx'[i] = rx[i]
  BY ReceivedTypes
<1>3. \A i \in 1..Len(rx') : rx'[i].kind = "data" => i \in 1..Len(rx) /\ rx'[i] = rx[i]
  BY <1>2
<1>4. \A i \in 1..Len(rx) : i \in 1..Len(rx')
  BY <1>2
<1>5. Taken' = Taken
  BY DEF Taken
<1>6. \A n \in Taken + 1..arrived : \E i \in 1..Len(rx') : rx'[i].kind = "data" /\ rx'[i].id = n
  <2>. SUFFICES ASSUME NEW n \in Taken + 1..arrived
                PROVE  \E i \in 1..Len(rx') : rx'[i].kind = "data" /\ rx'[i].id = n
    OBVIOUS
  <2>1. PICK i \in 1..Len(rx) : rx[i].kind = "data" /\ rx[i].id = n
    BY <1>1 DEF UplinkEntries, Rest
  <2>. QED BY <1>2, <1>4, <2>1
<1>7. Rest'
  BY <1>1, <1>3, <1>5, <1>6 DEF UplinkEntries, Rest
<1>. QED BY <1>1, <1>5, <1>7 DEF UplinkEntries

LEMMA AnswerTypes ==
  ASSUME TypeInv, \/ \E p \in air : Acknowledge(p) \/ Refuse(p) \/ Lose(p)
                  \/ RadioStarts
  PROVE  TypeInv'
<1>1. UNCHANGED <<users, service, queue, manager, arrived, uplink, read, disturbed>>
  BY DEF Acknowledge, Refuse, Lose, RadioStarts
<1>2. TypeOfUsers' /\ TypeOfQueue'
  BY <1>1 DEF users, service, queue, manager, TypeInv, TypeOfUsers, TypeOfQueue
<1>3. RxSize \in Nat /\ MaxFaults \in Nat /\ Len(rx) <= RxSize
  BY SizesAssumption DEF TypeInv, TypeOfRadio
<1>4. /\ air' \subseteq Commands /\ faults' \in 0..MaxFaults
      /\ acked' \subseteq Ids
  BY <1>3 DEF Acknowledge, Refuse, Lose, RadioStarts, Fault, TypeInv, TypeOfRadio, Commands
<1>5. \/ UNCHANGED <<rx, rx_bit>>
      \/ Len(rx) < RxSize /\ \E p \in RxPackets : p.kind # "data" /\ Received(p)
  <2>1. \A p \in air : Packet("ack", p.id, p.seq) \in RxPackets /\ Packet("nack", p.id, p.seq) \in RxPackets
    BY DEF TypeInv, TypeOfRadio, Commands, Packet, RxPackets, Answers
  <2>2. \A i, q : Packet("ack", i, q).kind # "data" /\ Packet("nack", i, q).kind # "data" /\ Start.kind # "data"
    BY DEF Packet, Start
  <2>3. Start \in RxPackets
    BY DEF RxPackets
  <2>. QED BY <2>1, <2>2, <2>3 DEF Acknowledge, Refuse, Lose, RadioStarts
<1>6. TypeOfRadio' /\ rx_bit' \in BOOLEAN
  <2>1. CASE UNCHANGED <<rx, rx_bit>>
    BY <1>4, <2>1 DEF TypeInv, TypeOfRadio, TypeOfManager
  <2>2. CASE Len(rx) < RxSize /\ \E p \in RxPackets : Received(p)
    <3>1. rx' \in Seq(RxPackets) /\ Len(rx') = Len(rx) + 1 /\ Len(rx) \in Nat /\ rx_bit' = TRUE
      BY <2>2, ReceivedTypes DEF Received
    <3>2. rx' # <<>>
      BY <3>1
    <3>. QED BY <1>3, <1>4, <2>2, <3>1, <3>2 DEF TypeOfRadio
  <2>. QED BY <1>5, <2>1, <2>2
<1>7. TypeOfManager'
  BY <1>1, <1>6 DEF manager, TypeInv, TypeOfManager, PacketOK
<1>8. TypeOfUplink'
  <2>1. UplinkEntries'
    BY <1>1, <1>5, AnswerInOrder, UplinkGives DEF UplinkEntries, Rest, Taken, manager
  <2>. QED BY <1>1, <1>6, <2>1, UplinkFrom DEF TypeInv, TypeOfUplink, TypeOfRadio
<1>. QED BY <1>2, <1>6, <1>7, <1>8 DEF TypeInv

LEMMA UplinkTypes ==
  ASSUME TypeInv, Uplink
  PROVE  TypeInv'
<1>. DEFINE p == Packet("data", arrived + 1, 0)
<1>1. /\ UNCHANGED <<users, service, queue, air, acked, faults, manager, uplink, read, disturbed>>
      /\ arrived' = arrived + 1 /\ arrived < MaxData /\ Received(p) /\ Len(rx) < RxSize
  BY DEF Uplink
<1>2. TypeOfUsers' /\ TypeOfQueue'
  BY <1>1 DEF users, service, queue, manager, TypeInv, TypeOfUsers, TypeOfQueue
<1>3. UplinkEntries /\ Len(uplink) \in Nat /\ {read, arrived, Taken} \subseteq Nat
  BY UplinkGives
<1>4. RxSize \in Nat /\ MaxData \in Nat
  BY SizesAssumption
<1>5. arrived' \in 1..MaxData
  BY <1>1, <1>3, <1>4
<1>6. p \in RxPackets /\ p.kind = "data" /\ p.id = arrived'
  BY <1>1, <1>5 DEF RxPackets, Data, Packet
<1>. HIDE DEF p
<1>7. /\ rx' \in Seq(RxPackets) /\ Len(rx') = Len(rx) + 1 /\ Len(rx) \in Nat
      /\ rx'[Len(rx) + 1] = p /\ \A i \in 1..Len(rx) : rx'[i] = rx[i]
  BY <1>1, <1>6, ReceivedTypes
<1>8. TypeOfRadio'
  <2>1. rx' # <<>> /\ Len(rx') <= RxSize
    BY <1>1, <1>4, <1>7
  <2>. QED BY <1>1, <1>7, <2>1 DEF TypeInv, TypeOfRadio
<1>9. TypeOfManager'
  BY <1>1 DEF Received, manager, TypeInv, TypeOfManager, PacketOK
<1>10. TypeOfUplink'
  <2>1. \A i \in 1..Len(rx') : (i \in 1..Len(rx) /\ rx'[i] = rx[i]) \/ i = Len(rx) + 1
    BY <1>7
  <2>2. \A i \in 1..Len(rx) : i \in 1..Len(rx')
    BY <1>7
  <2>3. Taken' = Taken /\ Taken <= arrived
    BY <1>1, <1>3 DEF UplinkEntries, Taken, manager
  <2>4. \A i \in 1..Len(rx') : rx'[i].kind = "data" => rx'[i].id \in Taken + 1..arrived'
    BY <1>1, <1>3, <1>6, <1>7, <2>1, <2>3 DEF UplinkEntries, Rest
  <2>5. ASSUME NEW n \in Taken + 1..arrived'
        PROVE  \E i \in 1..Len(rx') : rx'[i].kind = "data" /\ rx'[i].id = n
    <3>1. CASE n = arrived'
      <4>1. Len(rx) + 1 \in 1..Len(rx')
        BY <1>7
      <4>. QED BY <1>6, <1>7, <3>1, <4>1
    <3>2. CASE n # arrived'
      <4>1. n \in Taken + 1..arrived
        BY <1>1, <1>3, <3>2
      <4>2. PICK i \in 1..Len(rx) : rx[i].kind = "data" /\ rx[i].id = n
        BY <1>3, <4>1 DEF UplinkEntries, Rest
      <4>. QED BY <1>7, <2>2, <4>2
    <3>. QED BY <3>1, <3>2
  <2>6. ASSUME NEW i \in 1..Len(rx'), NEW j \in 1..Len(rx'),
               rx'[i].kind = "data", rx'[j].kind = "data", i < j
        PROVE  rx'[i].id < rx'[j].id
    <3>1. i \in 1..Len(rx) /\ rx'[i] = rx[i]
      BY <1>7, <2>1, <2>6
    <3>2. CASE j = Len(rx) + 1
      BY <1>1, <1>3, <1>6, <1>7, <2>6, <3>1, <3>2 DEF UplinkEntries, Rest
    <3>3. CASE j \in 1..Len(rx) /\ rx'[j] = rx[j]
      BY <1>3, <2>6, <3>1, <3>3 DEF UplinkEntries, Rest
    <3>. QED BY <2>1, <3>2, <3>3
  <2>7. UplinkEntries'
    <3>1. Rest'
      BY <2>3, <2>4, <2>5, <2>6 DEF Rest
    <3>2. Taken' <= arrived'
      BY <1>1, <1>3, <2>3
    <3>. QED BY <1>1, <1>3, <2>3, <3>1, <3>2 DEF UplinkEntries, manager
  <2>. QED BY <1>1, <1>5, <1>7, <2>7, UplinkFrom DEF TypeInv, TypeOfUplink
<1>. QED BY <1>2, <1>8, <1>9, <1>10 DEF TypeInv

LEMMA ConsumeTypes ==
  ASSUME TypeInv, Consume
  PROVE  TypeInv'
<1>1. /\ uplink # <<>> /\ uplink' = Tail(uplink) /\ read' = read + 1
      /\ UNCHANGED <<users, service, queue, radio, manager, disturbed>>
  BY DEF Consume
<1>2. TypeOfUsers' /\ TypeOfQueue' /\ TypeOfManager' /\ TypeOfRadio'
  BY <1>1 DEF users, service, queue, manager, radio, TypeInv, TypeOfUsers, TypeOfQueue, TypeOfManager,
              TypeOfRadio, PacketOK
<1>3. UplinkEntries /\ Len(uplink) \in Nat /\ {read, arrived, Taken} \subseteq Nat
  BY UplinkGives
<1>4. /\ uplink' \in Seq(1..MaxData) /\ Len(uplink') = Len(uplink) - 1 /\ Len(uplink) > 0
      /\ \A i \in 1..Len(uplink') : uplink'[i] = uplink[i + 1]
  <2>1. uplink \in Seq(1..MaxData)
    BY DEF TypeInv, TypeOfUplink
  <2>. QED BY <1>1, <1>3, <2>1, HeadTailProperties
<1>5. UNCHANGED <<rx, arrived, packet>>
  BY <1>1 DEF radio, manager
<1>6. Taken' = Taken /\ read' <= Taken
  BY <1>1, <1>3, <1>4, <1>5 DEF Taken
<1>7. \A i \in 1..Len(uplink') : uplink'[i] = read' + i
  <2>1. \A i \in 1..Len(uplink') : i + 1 \in 1..Len(uplink)
    BY <1>3, <1>4
  <2>. QED BY <1>1, <1>3, <1>4, <2>1 DEF UplinkEntries
<1>8. UplinkEntries'
  BY <1>3, <1>5, <1>6, <1>7 DEF UplinkEntries, Rest
<1>9. read' \in 0..MaxData /\ Len(uplink') <= UplinkSize
  <2>1. UplinkSize \in Nat /\ MaxData \in Nat
    BY SizesAssumption
  <2>. QED BY <1>1, <1>3, <1>4, <1>6, <2>1 DEF UplinkEntries, TypeInv, TypeOfUplink
<1>10. TypeOfUplink'
  BY <1>2, <1>4, <1>5, <1>8, <1>9, UplinkFrom DEF TypeInv, TypeOfUplink, TypeOfRadio
<1>. QED BY <1>2, <1>10 DEF TypeInv

LEMMA NextTypes == TypeInv /\ [Next]_vars => TypeInv'
<1>. SUFFICES ASSUME TypeInv, [Next]_vars PROVE TypeInv'
  OBVIOUS
<1>1. ASSUME NEW u \in Users, User(u) PROVE TypeInv'
  BY <1>1, UserTypes
<1>2. CASE TimerExpires
  <2>1. TypeOfUsers'
    BY <1>2, FinishTypes DEF TimerExpires
  <2>2. UNCHANGED <<users, queue, radio, manager, uplink, read>> /\ disturbed' \in BOOLEAN
    BY <1>2, Zenon DEF TimerExpires
  <2>. QED
    BY <2>1, <2>2 DEF TypeInv, TypeOfQueue, TypeOfManager, TypeOfRadio, TypeOfUplink, PacketOK, UplinkInOrder,
                      queue, radio, manager
<1>3. CASE Manager
  BY <1>3, ReceiveTypes, OnwardTypes, DeliverTypes, SendTypes DEF Manager
<1>4. CASE Environment
  BY <1>4, AnswerTypes, UplinkTypes, ConsumeTypes DEF Environment
<1>5. CASE UNCHANGED vars
  BY <1>5 DEF vars, users, service, queue, manager, radio, TypeInv, TypeOfUsers, TypeOfQueue, TypeOfManager,
              TypeOfRadio, TypeOfUplink, PacketOK, UplinkInOrder
<1>. QED BY <1>1, <1>2, <1>3, <1>4, <1>5 DEF Next

LEMMA AlwaysTypes == Spec => []TypeInv
BY InitTypes, NextTypes, PTL DEF Spec

\* The type invariant: no buffer or queue grows past its size, and COMMS_MNGR holds at each of
\* its places a packet of the kind it works on there.
THEOREM TypeCorrect == Spec => []TypeOK
<1>1. TypeInv => TypeOK
  <2>. SUFFICES ASSUME TypeInv PROVE TypeOK
    OBVIOUS
  <2>1. packet \in Commands \cup Answers \cup Data \cup {Void, Ack, Zero, Start}
    BY DEF TypeInv, TypeOfManager, PacketOK
  <2>. QED
    BY <2>1 DEF TypeInv, TypeOfUsers, TypeOfQueue, TypeOfManager, TypeOfRadio, TypeOfUplink, RxPackets, TypeOK
<1>. QED BY <1>1, AlwaysTypes, PTL

\* Datagrams reach the uplink's reader in the order they arrived, none is lost between the driver and
\* the reader and none comes twice, whatever commands, timeouts and faults do meanwhile.
THEOREM UplinkInOrderCorrect == Spec => []UplinkInOrder
<1>1. TypeInv => UplinkInOrder
  BY DEF TypeInv, TypeOfUplink
<1>. QED BY <1>1, AlwaysTypes, PTL

----------------------------------------------------------------------------
(* Commands one at a time.  As long as nothing has been disturbed, the     *)
(* command that is underway is the one in the buffer, it is at one place   *)
(* of the way from the queue to its answer, and one user, that of the      *)
(* active session, deals with it.                                          *)

Underway == underway = {cmd_buf.id}

AtHand == packet.kind \in {"cmd", "ack", "nack"}

Queued == \E i \in 1..Len(cmd_q) : cmd_q[i] = "cmd"
Answered == \E i \in 1..Len(rx) : IsAnswer(rx[i])

\* The command or its answer is in the queue, with the manager, with the radio, or in the
\* driver's buffer, and there once.
OnePlace ==
  /\ Queued => air = {} /\ ~AtHand /\ ~Answered
  /\ air # {} => ~AtHand /\ ~Answered
  /\ AtHand => ~Answered
  /\ \A i, j \in 1..Len(cmd_q) : cmd_q[i] = "cmd" /\ cmd_q[j] = "cmd" => i = j
  /\ \A i, j \in 1..Len(rx) : IsAnswer(rx[i]) /\ IsAnswer(rx[j]) => i = j
  /\ \A p, q \in air : p = q

\* It is the one in the buffer, and what was acknowledged is.
Own(p) == p.id = cmd_buf.id /\ (p.kind = "ack" => p.id \in acked)

Travels ==
  /\ Queued \/ air # {} \/ AtHand \/ Answered => Underway
  /\ OnePlace
  /\ \A p \in air : Own(p)
  /\ AtHand => Own(packet)
  /\ \A i \in 1..Len(rx) : IsAnswer(rx[i]) => Own(rx[i])

\* What the users and the timer know.
Owned ==
  /\ underway # {} => /\ Underway /\ cmd_sema = 0
                      /\ last[active_session] = cmd_buf.id /\ pc[active_session] # "enqueue"
  /\ cmd_timer # 0 => Underway /\ cmd_timer = cmd_buf.id
  /\ \A u \in Users : pc[u] \in {"enqueue", "start", "pend"} => u = active_session /\ cmd_sema = 0
  /\ pc[active_session] \in {"start", "pend"} => Underway /\ mngr # "respond"
  /\ \A u \in Users : pc[u] = "start" => cmd_timer = 0
  /\ \A u \in Users : pending[u] => u = active_session /\ Underway /\ pc[u] \notin {"start", "pend"}
  /\ \A u \in Users : resp[u] => last[u] \in acked \/ (u = active_session /\ Underway)

Serial == ~disturbed => Travels /\ Owned

LEMMA InitSerial == Init => Serial
<1>. SUFFICES ASSUME Init PROVE Travels /\ Owned
  BY DEF Serial
<1>1. Len(cmd_q) = 0 /\ Len(rx) = 0 /\ air = {} /\ ~AtHand
  BY DEF Init, AtHand, Void, Packet
<1>2. Travels
  BY <1>1 DEF Travels, OnePlace, Queued, Answered
<1>3. Owned
  BY DEF Init, Owned
<1>. QED BY <1>2, <1>3

\* Nothing is on its way.
Nowhere == ~Queued /\ air = {} /\ ~AtHand /\ ~Answered

LEMMA NowhereTravels == ASSUME Nowhere PROVE Travels
BY DEF Nowhere, Travels, OnePlace, Queued, Answered

LEMMA NowhereTravelsNext == ASSUME Nowhere' PROVE Travels'
BY DEF Nowhere, Travels, OnePlace, Queued, Answered

\* The semaphore can be taken: nothing is underway.
LEMMA FreeSerial ==
  ASSUME Travels, Owned, cmd_sema = 1
  PROVE  /\ underway = {} /\ Nowhere /\ cmd_timer = 0 /\ \A u \in Users : ~pending[u]
         /\ \A u \in Users : pc[u] \notin {"enqueue", "start", "pend"} /\ (resp[u] => last[u] \in acked)
<1>1. ~Underway /\ underway = {}
  BY DEF Owned, Underway
<1>. QED BY <1>1 DEF Travels, Owned, Nowhere

LEMMA FillSerial ==
  ASSUME TypeInv, Travels, Owned, mngr # "respond", NEW u \in Users, Send(u) \/ Flash(u) \/ FlashNext(u)
  PROVE  Travels' /\ Owned'
<1>1. /\ cmd_sema = 1 /\ cmd_sema' = 0 /\ Goto(u, "enqueue") /\ active_session' = u
      /\ UNCHANGED <<last, pending, resp, cmd_timer, underway, cmd_q, air, rx, packet, acked, mngr>>
  BY DEF Send, Flash, FlashNext, Fill, queue, radio, manager
<1>2. /\ underway = {} /\ Nowhere /\ cmd_timer = 0 /\ \A v \in Users : ~pending[v]
      /\ \A v \in Users : pc[v] \notin {"enqueue", "start", "pend"} /\ (resp[v] => last[v] \in acked)
  BY <1>1, FreeSerial
<1>3. Nowhere'
  BY <1>1, <1>2 DEF Nowhere, Queued, AtHand, Answered
<1>4. pc'[u] = "enqueue" /\ \A v \in Users \ {u} : pc'[v] = pc[v]
  BY <1>1 DEF Goto, TypeInv, TypeOfUsers
<1>5. Owned'
  BY <1>1, <1>2, <1>4 DEF Owned
<1>. QED BY <1>3, <1>5, NowhereTravelsNext

LEMMA EnqueueSerial ==
  ASSUME TypeInv, Travels, Owned, mngr # "respond", NEW u \in Users, Enqueue(u)
  PROVE  Travels' /\ Owned'
<1>1. /\ pc[u] = "enqueue" /\ cmd_q' = Append(cmd_q, "cmd")
      /\ underway' = underway \cup {cmd_buf.id} /\ last' = [last EXCEPT ![u] = cmd_buf.id]
      /\ Goto(u, "start")
      /\ UNCHANGED <<active_session, cmd_buf, cmd_sema, pending, resp, cmd_timer, air, rx, packet, acked, mngr>>
  BY DEF Enqueue, radio, manager
<1>2. u = active_session /\ cmd_sema = 0 /\ underway = {}
  BY <1>1 DEF Owned
<1>3. Nowhere /\ Underway'
  BY <1>1, <1>2 DEF Travels, Underway, Nowhere
<1>4. /\ Len(cmd_q') = Len(cmd_q) + 1 /\ Len(cmd_q) \in Nat
      /\ \A i \in 1..Len(cmd_q) : cmd_q'[i] = cmd_q[i]
  <2>1. cmd_q \in Seq({"cmd", "resp"})
    BY DEF TypeInv, TypeOfQueue
  <2>. QED BY <1>1, <2>1, AppendProperties
<1>5. Travels'
  <2>1. \A i \in 1..Len(cmd_q') : cmd_q'[i] = "cmd" => i = Len(cmd_q) + 1
    BY <1>3, <1>4 DEF Nowhere, Queued
  <2>2. air' = {} /\ ~AtHand' /\ ~Answered'
    BY <1>1, <1>3 DEF Nowhere, AtHand, Answered
  <2>. QED BY <1>3, <2>1, <2>2 DEF Travels, OnePlace, Answered
<1>6. pc'[u] = "start" /\ last'[u] = cmd_buf.id
      /\ \A v \in Users \ {u} : pc'[v] = pc[v] /\ last'[v] = last[v]
  BY <1>1 DEF Goto, TypeInv, TypeOfUsers
<1>7. cmd_timer = 0 /\ \A v \in Users : ~pending[v] /\ (resp[v] => last[v] \in acked)
  BY <1>2 DEF Owned, Underway
<1>8. Owned'
  BY <1>1, <1>2, <1>3, <1>6, <1>7 DEF Owned, Underway
<1>. QED BY <1>5, <1>8

\* A user moves on; what is on its way does not.
LEMMA MoveSerial ==
  ASSUME TypeInv, Travels, Owned, mngr # "respond", NEW u \in Users, ~disturbed',
         \/ EnqueueFails(u) \/ StartTimer(u) \/ SetPending(u) \/ SendBusy(u)
         \/ Ask(u) \/ WaitEnds(u) \/ WaitTimeout(u)
         \/ FlashEnqueueFails(u) \/ FlashDone(u) \/ FlashTimeout(u)
  PROVE  Travels' /\ Owned'
<1>1. /\ UNCHANGED <<queue, radio, manager, active_session, cmd_buf, last, resp, underway>>
      /\ pc \in [Users -> Places] /\ active_session \in Users
  BY DEF EnqueueFails, StartTimer, SetPending, SendBusy, Ask, WaitEnds, WaitTimeout,
         FlashEnqueueFails, FlashDone, FlashTimeout, service, TypeInv, TypeOfUsers
<1>2. Travels'
  BY <1>1 DEF Travels, OnePlace, Queued, Answered, AtHand, Own, Underway, queue, radio, manager
<1>3. (Underway' <=> Underway) /\ UNCHANGED <<mngr, acked>>
  BY <1>1 DEF Underway, manager, radio
<1>4. Owned'
  <2>1. CASE StartTimer(u)
    <3>1. pc[u] = "start" /\ Goto(u, "pend") /\ cmd_timer' = cmd_buf.id /\ UNCHANGED <<cmd_sema, pending>>
      BY <2>1 DEF StartTimer
    <3>. QED BY <1>1, <1>3, <3>1 DEF Owned, Goto
  <2>2. CASE SetPending(u)
    <3>1. /\ pc[u] = "pend" /\ pending' = [pending EXCEPT ![u] = TRUE] /\ pending \in [Users -> BOOLEAN]
          /\ (Goto(u, "flash_wait") \/ Goto(u, "ask")) /\ UNCHANGED <<cmd_sema, cmd_timer>>
      BY <2>2 DEF SetPending, TypeInv, TypeOfUsers
    <3>. QED BY <1>1, <1>3, <3>1 DEF Owned, Goto
  <2>3. CASE SendBusy(u) \/ Ask(u) \/ WaitEnds(u) \/ WaitTimeout(u)
    <3>1. /\ (Goto(u, "ask") \/ Goto(u, "wait") \/ Goto(u, "idle")) /\ UNCHANGED <<cmd_sema, cmd_timer, pending>>
      BY <2>3 DEF SendBusy, Ask, WaitEnds, WaitTimeout, service
    <3>. QED BY <1>1, <1>3, <3>1 DEF Owned, Goto
  <2>4. CASE EnqueueFails(u) \/ FlashEnqueueFails(u)
    <3>1. /\ pc[u] = "enqueue" /\ UNCHANGED <<cmd_timer, pending>>
          /\ \/ Goto(u, "flash_wait") /\ cmd_sema' = cmd_sema
             \/ (Goto(u, "ask") \/ Goto(u, "idle")) /\ cmd_sema' = 1
      BY <2>4 DEF EnqueueFails, FlashEnqueueFails, FlashEnds, QueueFull
    <3>2. u = active_session /\ underway = {} /\ ~Underway
      BY <3>1 DEF Owned, Underway
    <3>. QED BY <1>1, <1>3, <3>1, <3>2 DEF Owned, Goto
  <2>5. CASE FlashDone(u) \/ FlashTimeout(u)
    <3>1. /\ pc[u] = "flash_wait" /\ Goto(u, "idle") /\ cmd_sema' = 1 /\ UNCHANGED <<cmd_timer, pending>>
          /\ cmd_sema = 1 \/ (u = active_session /\ last[u] # cmd_buf.id)
      BY <2>5 DEF FlashDone, FlashTimeout, FlashEnds
    <3>2. underway = {} /\ ~Underway
      BY <3>1 DEF Owned, Underway
    <3>. QED BY <1>1, <1>3, <3>1, <3>2 DEF Owned, Goto
  <2>. QED BY <2>1, <2>2, <2>3, <2>4, <2>5
<1>. QED BY <1>2, <1>4

\* A command is finished: nothing of it is left on its way.
LEMMA FinishSerial ==
  ASSUME TypeInv, Owned, NEW ok \in BOOLEAN, NEW id, Finish(active_session, ok, id),
         UNCHANGED <<users, acked>>, underway \subseteq {id}, Nowhere',
         pc[active_session] \notin {"enqueue", "start", "pend"},
         ok => last[active_session] \in acked
  PROVE  Travels' /\ Owned'
<1>1. /\ cmd_timer' = 0 /\ cmd_sema' = 1 /\ underway' = {}
      /\ resp' = [resp EXCEPT ![active_session] = ok]
      /\ pending' = [pending EXCEPT ![active_session] = FALSE]
      /\ UNCHANGED <<pc, active_session, cmd_buf, last, acked>>
  BY DEF Finish, users
<1>2. active_session \in Users /\ resp \in [Users -> BOOLEAN] /\ pending \in [Users -> BOOLEAN]
  BY DEF TypeInv, TypeOfUsers
<1>3. \A u \in Users : ~pending'[u] /\ pc[u] \notin {"enqueue", "start", "pend"}
  BY <1>1, <1>2 DEF Owned
<1>4. \A u \in Users : resp'[u] => last[u] \in acked
  BY <1>1, <1>2 DEF Owned
<1>5. Owned'
  BY <1>1, <1>2, <1>3, <1>4 DEF Owned
<1>. QED BY <1>5, NowhereTravelsNext

LEMMA TimerSerial ==
  ASSUME TypeInv, Travels, Owned, ~disturbed', TimerExpires
  PROVE  Travels' /\ Owned'
<1>1. /\ cmd_timer # 0 /\ \A u \in Users : pc[u] # "pend"
      /\ Finish(active_session, FALSE, cmd_timer) /\ ~InFlight(cmd_timer)
      /\ UNCHANGED <<users, queue, radio, manager>>
  BY DEF TimerExpires
<1>2. Underway /\ cmd_timer = cmd_buf.id /\ underway # {} /\ active_session \in Users
  BY <1>1 DEF Owned, Underway, TypeInv, TypeOfUsers
<1>3. Nowhere
  <2>1. cmd_q \in Seq({"cmd", "resp"}) /\ rx \in Seq(RxPackets) /\ air \subseteq Commands
    BY DEF TypeInv, TypeOfQueue, TypeOfRadio
  <2>2. Range(cmd_q) = {cmd_q[i] : i \in 1..Len(cmd_q)} /\ Range(rx) = {rx[i] : i \in 1..Len(rx)}
    BY <2>1, SeqFacts
  <2>3. ~Queued
    BY <1>1, <1>2, <2>2 DEF InFlight, Queued
  <2>4. \A p \in air \cup Range(rx) \cup {packet} : p.kind = "data" \/ p.id # cmd_buf.id
    BY <1>1, <1>2 DEF InFlight
  <2>5. air = {}
    BY <2>1, <2>4 DEF Travels, Own, Commands
  <2>6. ~AtHand
    BY <2>4 DEF Travels, Own, AtHand
  <2>7. ~Answered
    BY <2>2, <2>4 DEF Travels, Own, Answered, IsAnswer
  <2>. QED BY <2>3, <2>5, <2>6, <2>7 DEF Nowhere
<1>4. Nowhere'
  BY <1>1, <1>3 DEF Nowhere, Queued, AtHand, Answered, queue, radio, manager
<1>5. pc[active_session] \notin {"enqueue", "start", "pend"}
  BY <1>1, <1>2 DEF Owned
<1>. QED BY <1>1, <1>2, <1>4, <1>5, FinishSerial DEF Underway, radio

LEMMA RespondSerial ==
  ASSUME TypeInv, Travels, Owned, Respond
  PROVE  Travels' /\ Owned'
<1>. DEFINE ok == packet.kind = "ack" /\ packet.seq = cmd_buf.seq
<1>1. /\ mngr = "respond" /\ packet' = Void /\ Finish(active_session, ok, packet.id)
      /\ UNCHANGED <<users, queue, radio>>
  BY DEF Respond
<1>2. AtHand
  BY <1>1 DEF AtHand, TypeInv, TypeOfManager, PacketOK, Answers
<1>3. Underway /\ Own(packet) /\ ~Queued /\ air = {} /\ ~Answered
  BY <1>2 DEF Travels, OnePlace
<1>4. underway # {} /\ underway \subseteq {packet.id}
  BY <1>3 DEF Underway, Own
<1>5. Nowhere'
  BY <1>1, <1>3 DEF Nowhere, Queued, AtHand, Answered, queue, radio, Void, Packet
<1>6. pc[active_session] \notin {"enqueue", "start", "pend"} /\ last[active_session] = cmd_buf.id
  BY <1>1, <1>4 DEF Owned
<1>7. ok => last[active_session] \in acked
  BY <1>3, <1>6 DEF Own
<1>8. ok \in BOOLEAN /\ UNCHANGED acked
  BY <1>1 DEF radio
<1>. HIDE DEF ok
<1>. QED BY <1>1, <1>4, <1>5, <1>6, <1>7, <1>8, FinishSerial

\* Unless it is disturbed, what fails is the command that is underway, or nothing is.
LEMMA FailSerial ==
  ASSUME TypeInv, Travels, Owned, ~disturbed', NEW p, Fail(p), UNCHANGED <<users, acked>>,
         p.kind = "cmd" => Underway /\ p.id = cmd_buf.id,
         p.kind = "cmd" \/ Nowhere => Nowhere'
  PROVE  Travels' /\ Owned'
<1>. active_session \in Users /\ cmd_sema \in {0, 1}
  BY DEF TypeInv, TypeOfUsers
<1>1. CASE p.kind = "cmd"
  <2>1. /\ Finish(active_session, FALSE, p.id) /\ \A u \in Users : pc[u] \notin {"start", "pend"}
    BY <1>1 DEF Fail
  <2>2. underway \subseteq {p.id} /\ underway # {}
    BY <1>1 DEF Underway
  <2>3. pc[active_session] \notin {"enqueue", "start", "pend"}
    BY <2>1, <2>2 DEF Owned
  <2>. QED BY <1>1, <2>1, <2>2, <2>3, FinishSerial
<1>2. CASE p.kind # "cmd"
  <2>1. Finish(active_session, FALSE, 0) /\ cmd_sema = 1
    BY <1>2 DEF Fail
  <2>2. /\ underway = {} /\ Nowhere
        /\ pc[active_session] \notin {"enqueue", "start", "pend"}
    BY <2>1, FreeSerial
  <2>. QED BY <2>1, <2>2, FinishSerial
<1>. QED BY <1>1, <1>2

\* No user moves and no command is finished.
LEMMA OwnedStays ==
  ASSUME Owned, UNCHANGED <<users, service>>, acked \subseteq acked',
         mngr' = "respond" => mngr = "respond" \/ pending[active_session], active_session \in Users
  PROVE  Owned'
BY DEF Owned, Underway, users, service

\* COMMS_MNGR takes the next pointer from the queue.
LEMMA SendNextSerial ==
  ASSUME TypeInv, Travels, Owned, ~disturbed', SendNext
  PROVE  Travels' /\ Owned'
<1>. DEFINE p == IF Head(cmd_q) = "cmd" THEN cmd_buf ELSE cmd_resp
<1>1. /\ mngr = "send" /\ cmd_q' = Tail(cmd_q) /\ UNCHANGED <<users, radio, cmd_resp>>
      /\ \/ Fail(p) /\ UNCHANGED packet
         \/ packet' = p /\ mngr' = "transmit" /\ UNCHANGED service
  BY DEF SendNext
<1>2. /\ cmd_q[1] = Head(cmd_q) /\ Len(cmd_q) \in Nat \ {0} /\ Len(cmd_q') = Len(cmd_q) - 1
      /\ \A i \in 1..Len(cmd_q') : cmd_q'[i] = cmd_q[i + 1]
  BY <1>1, HeadOfQueue
<1>3. \A i \in 1..Len(cmd_q') : i + 1 \in 1..Len(cmd_q) /\ i + 1 # 1
  BY <1>2
<1>4. packet = Void /\ ~AtHand
  BY <1>1 DEF TypeInv, TypeOfManager, PacketOK, AtHand, Void, Packet
<1>5. UNCHANGED <<air, rx, acked, cmd_buf>> /\ (Answered' <=> Answered)
  BY <1>1 DEF radio, users, Answered
<1>6. 1 \in 1..Len(cmd_q)
  BY <1>2
<1>7. /\ cmd_q[1] = "cmd" => p = cmd_buf /\ Queued /\ ~Queued' /\ Underway /\ air = {} /\ ~Answered
      /\ cmd_q[1] # "cmd" => p = cmd_resp
  <2>1. CASE cmd_q[1] = "cmd"
    <3>1. Queued
      BY <1>6, <2>1 DEF Queued
    <3>2. ~Queued'
      BY <1>2, <1>3, <1>6, <2>1 DEF Travels, OnePlace, Queued
    <3>. QED BY <1>2, <2>1, <3>1, <3>2 DEF Travels, OnePlace
  <2>. QED BY <1>2, <2>1
<1>8. cmd_buf.kind = "cmd" /\ cmd_resp.kind \notin {"cmd", "ack", "nack"}
  BY DEF TypeInv, TypeOfUsers, TypeOfManager, Commands, Void, Ack, Zero, Packet
<1>9. ~Queued => ~Queued'
  BY <1>2, <1>3 DEF Queued
<1>. HIDE DEF p
<1>10. CASE Fail(p) /\ UNCHANGED packet
  <2>1. p.kind = "cmd" => cmd_q[1] = "cmd" /\ p = cmd_buf
    BY <1>7, <1>8
  <2>2. ~AtHand'
    BY <1>4, <1>10 DEF AtHand
  <2>3. p.kind = "cmd" \/ Nowhere => Nowhere'
    BY <1>5, <1>7, <1>9, <2>1, <2>2 DEF Nowhere
  <2>. QED BY <1>1, <1>5, <1>7, <1>10, <2>1, <2>3, FailSerial
<1>11. CASE packet' = p /\ mngr' = "transmit" /\ UNCHANGED service
  <2>1. Owned'
    BY <1>1, <1>5, <1>11, OwnedStays DEF TypeInv, TypeOfUsers
  <2>2. Underway' <=> Underway
    BY <1>5, <1>11 DEF Underway, service
  <2>3. \A i, j \in 1..Len(cmd_q') : cmd_q'[i] = "cmd" /\ cmd_q'[j] = "cmd" => i = j
    <3>. SUFFICES ASSUME NEW i \in 1..Len(cmd_q'), NEW j \in 1..Len(cmd_q'), cmd_q'[i] = "cmd", cmd_q'[j] = "cmd"
                  PROVE  i = j
      OBVIOUS
    <3>1. i + 1 = j + 1
      BY <1>2, <1>3 DEF Travels, OnePlace
    <3>. QED BY <1>2, <3>1
  <2>4. CASE cmd_q[1] = "cmd"
    <3>1. AtHand' /\ Own(packet)' /\ ~Queued' /\ air' = {} /\ ~Answered'
      BY <1>5, <1>7, <1>8, <1>11, <2>4 DEF AtHand, Own
    <3>. QED BY <1>5, <1>7, <2>1, <2>2, <2>3, <2>4, <3>1 DEF Travels, OnePlace, Answered
  <2>5. CASE cmd_q[1] # "cmd"
    <3>1. ~AtHand' /\ (Queued' => Queued)
      BY <1>7, <1>8, <1>9, <1>11, <2>5 DEF AtHand
    <3>. QED BY <1>5, <2>1, <2>2, <2>3, <3>1 DEF Travels, OnePlace, Own
  <2>. QED BY <2>4, <2>5
<1>. QED BY <1>1, <1>10, <1>11

LEMMA TransmitSerial ==
  ASSUME TypeInv, Travels, Owned, ~disturbed', Transmit \/ TransmitFails
  PROVE  Travels' /\ Owned'
<1>1. /\ mngr = "transmit" /\ packet' = Void /\ mngr' \in {"wait", "send"}
      /\ UNCHANGED <<users, queue, rx, acked>>
  BY DEF Transmit, TransmitFails, SendAll
<1>2. packet \in Commands \cup {Ack, Zero} /\ active_session \in Users
  BY <1>1 DEF TypeInv, TypeOfManager, PacketOK, TypeOfUsers
<1>3. ~AtHand' /\ (AtHand <=> packet.kind = "cmd")
  BY <1>1, <1>2 DEF AtHand, Void, Ack, Zero, Packet, Commands
<1>4. (Queued' <=> Queued) /\ (Answered' <=> Answered) /\ UNCHANGED <<cmd_q, rx, cmd_buf>>
  BY <1>1 DEF Queued, Answered, queue, users
<1>5. CASE Transmit
  <2>1. air' = (IF packet.kind = "cmd" THEN air \cup {packet} ELSE air) /\ UNCHANGED service
    BY <1>5 DEF Transmit
  <2>2. Owned'
    BY <1>1, <1>2, <2>1, OwnedStays
  <2>3. Underway' <=> Underway
    BY <1>4, <2>1 DEF Underway, service
  <2>4. CASE AtHand
    <3>1. air' = {packet} /\ ~Queued /\ ~Answered /\ Underway /\ Own(packet)
      BY <1>3, <2>1, <2>4 DEF Travels, OnePlace
    <3>2. \A q \in air' : Own(q)'
      BY <1>1, <1>4, <3>1 DEF Own
    <3>3. OnePlace'
      BY <1>3, <1>4, <3>1 DEF Travels, OnePlace
    <3>. QED BY <1>3, <1>4, <2>2, <2>3, <3>1, <3>2, <3>3 DEF Travels, Answered
  <2>5. CASE ~AtHand
    BY <1>1, <1>3, <1>4, <2>1, <2>2, <2>3, <2>5 DEF Travels, OnePlace, Own
  <2>. QED BY <2>4, <2>5
<1>6. CASE TransmitFails
  <2>1. Fail(packet) /\ UNCHANGED air
    BY <1>6 DEF TransmitFails
  <2>2. packet.kind = "cmd" => Underway /\ packet.id = cmd_buf.id /\ ~Queued /\ air = {} /\ ~Answered
    BY <1>3 DEF Travels, OnePlace, Own
  <2>3. packet.kind = "cmd" \/ Nowhere => Nowhere'
    BY <1>3, <1>4, <2>1, <2>2 DEF Nowhere
  <2>. QED BY <1>1, <2>1, <2>2, <2>3, FailSerial
<1>. QED BY <1>5, <1>6

LEMMA ReceiveSerial ==
  ASSUME TypeInv, Travels, Owned, Receive
  PROVE  Travels' /\ Owned'
<1>. DEFINE p == Head(rx)
            responds == IsAnswer(p) /\ pending[active_session]
<1>1. rx # <<>>
  BY DEF Receive, TypeInv, TypeOfRadio
<1>2. /\ p = rx[1] /\ rx' = Tail(rx)
      /\ Len(rx') = Len(rx) - 1 /\ Len(rx) \in Nat \ {0}
      /\ \A i \in 1..Len(rx') : rx'[i] = rx[i + 1]
  BY <1>1, HeadOfRx DEF Receive
<1>3. \A i \in 1..Len(rx') : i + 1 \in 1..Len(rx) /\ i + 1 # 1
  BY <1>2
<1>4. /\ UNCHANGED <<users, service, air, acked>> /\ mngr = "wait"
      /\ cmd_q' = cmd_q \/ cmd_q' = Append(cmd_q, "resp")
      /\ \/ responds /\ packet' = p
         \/ ~responds /\ p.kind = "data" /\ packet' = p /\ mngr' = "deliver"
         \/ packet' = packet /\ mngr' \in {"wait", "send"}
  BY DEF Receive, SendAll
<1>5. ~AtHand
  BY <1>4 DEF TypeInv, TypeOfManager, PacketOK, AtHand, Void, Packet
<1>6. 1 \in 1..Len(rx) /\ active_session \in Users
  BY <1>2 DEF TypeInv, TypeOfUsers
<1>7. Owned'
  <2>1. mngr' = "respond" => pending[active_session]
    BY <1>4
  <2>. QED BY <1>4, <1>6, <2>1, OwnedStays
<1>8. /\ Queued' <=> Queued
      /\ \A i, j \in 1..Len(cmd_q') : cmd_q'[i] = "cmd" /\ cmd_q'[j] = "cmd" => i = j
  <2>1. CASE cmd_q' = cmd_q
    BY <2>1 DEF Travels, OnePlace, Queued
  <2>2. CASE cmd_q' = Append(cmd_q, "resp")
    <3>1. /\ Len(cmd_q') = Len(cmd_q) + 1 /\ Len(cmd_q) \in Nat
          /\ cmd_q'[Len(cmd_q) + 1] = "resp" /\ \A i \in 1..Len(cmd_q) : cmd_q'[i] = cmd_q[i]
      BY <2>2, AppendProperties DEF TypeInv, TypeOfQueue
    <3>2. \A i \in 1..Len(cmd_q') : cmd_q'[i] = "cmd" => i \in 1..Len(cmd_q) /\ cmd_q[i] = "cmd"
      BY <3>1
    <3>3. \A i \in 1..Len(cmd_q) : i \in 1..Len(cmd_q')
      BY <3>1
    <3>. QED BY <3>1, <3>2, <3>3 DEF Travels, OnePlace, Queued
  <2>. QED BY <1>4, <2>1, <2>2
<1>9. (Underway' <=> Underway) /\ UNCHANGED <<cmd_buf, acked, air>>
  BY <1>4 DEF Underway, users, service
<1>10. \A i \in 1..Len(rx') : IsAnswer(rx'[i]) => IsAnswer(rx[i + 1]) /\ Own(rx[i])'
  BY <1>2, <1>3, <1>9 DEF Travels, Own
<1>11. \A i, j \in 1..Len(rx') : IsAnswer(rx'[i]) /\ IsAnswer(rx'[j]) => i = j
  <2>. SUFFICES ASSUME NEW i \in 1..Len(rx'), NEW j \in 1..Len(rx'), IsAnswer(rx'[i]), IsAnswer(rx'[j])
                PROVE  i = j
    OBVIOUS
  <2>1. i + 1 = j + 1
    BY <1>3, <1>10 DEF Travels, OnePlace
  <2>. QED BY <1>2, <2>1
<1>12. Answered' => Answered /\ ~IsAnswer(rx[1])
  BY <1>3, <1>6, <1>10 DEF Travels, OnePlace, Answered
<1>13. CASE responds /\ packet' = p
  <2>1. Answered /\ Own(p)
    BY <1>2, <1>6, <1>13 DEF Answered, Travels
  <2>2. ~Queued /\ air = {} /\ Underway
    BY <2>1 DEF Travels, OnePlace
  <2>3. ~Answered'
    BY <1>2, <1>12, <1>13
  <2>4. Own(packet)'
    BY <1>9, <1>13, <2>1 DEF Own
  <2>. QED BY <1>7, <1>8, <1>9, <1>10, <1>11, <2>2, <2>3, <2>4 DEF Travels, OnePlace
<1>14. CASE packet' = packet \/ (p.kind = "data" /\ packet' = p)
  <2>1. ~AtHand'
    BY <1>5, <1>14 DEF AtHand
  <2>. QED BY <1>7, <1>8, <1>9, <1>10, <1>11, <1>12, <2>1 DEF Travels, OnePlace, Own
<1>. QED BY <1>4, <1>13, <1>14

\* A command with the radio is answered, or lost.
LEMMA AnswerSerial ==
  ASSUME TypeInv, Travels, Owned,
         \/ \E p \in air : Acknowledge(p) \/ Refuse(p) \/ Lose(p)
         \/ RadioStarts \/ Uplink
  PROVE  Travels' /\ Owned'
<1>1. UNCHANGED <<users, service, queue, manager>> /\ acked \subseteq acked'
  BY DEF Acknowledge, Refuse, Lose, RadioStarts, Uplink
<1>2. UNCHANGED <<cmd_q, cmd_buf, packet, mngr>> /\ (Queued' <=> Queued) /\ (AtHand' <=> AtHand) /\ (Underway' <=> Underway)
  BY <1>1 DEF queue, users, manager, service, Queued, AtHand, Underway
<1>3. Owned'
  BY <1>1, <1>2, OwnedStays DEF TypeInv, TypeOfUsers
<1>4. ASSUME UNCHANGED rx, air' \subseteq air PROVE Travels'
  <2>1. Answered' <=> Answered
    BY <1>4 DEF Answered
  <2>. QED BY <1>1, <1>2, <1>4, <2>1 DEF Travels, OnePlace, Own
<1>5. ASSUME NEW q \in RxPackets, Received(q), ~IsAnswer(q), air' \subseteq air PROVE Travels'
  <2>1. /\ Len(rx') = Len(rx) + 1 /\ Len(rx) \in Nat
        /\ rx'[Len(rx) + 1] = q /\ \A i \in 1..Len(rx) : rx'[i] = rx[i]
    BY <1>5, ReceivedTypes
  <2>2. \A i \in 1..Len(rx') : IsAnswer(rx'[i]) => i \in 1..Len(rx) /\ rx'[i] = rx[i]
    BY <1>5, <2>1
  <2>3. \A i \in 1..Len(rx') : IsAnswer(rx'[i]) => Own(rx[i])'
    BY <1>1, <1>2, <2>2 DEF Travels, Own
  <2>4. Answered' => Answered
    BY <2>2 DEF Answered
  <2>5. \A i, j \in 1..Len(rx') : IsAnswer(rx'[i]) /\ IsAnswer(rx'[j]) => i = j
    BY <2>2 DEF Travels, OnePlace
  <2>. QED BY <1>1, <1>2, <1>5, <2>3, <2>4, <2>5 DEF Travels, OnePlace, Own
<1>6. ASSUME NEW p \in air, NEW q \in RxPackets, Received(q), air' = air \ {p}, Own(q)'
      PROVE  Travels'
  <2>1. /\ Len(rx') = Len(rx) + 1 /\ Len(rx) \in Nat
        /\ rx'[Len(rx) + 1] = q /\ \A i \in 1..Len(rx) : rx'[i] = rx[i]
    BY <1>6, ReceivedTypes
  <2>2. Underway /\ ~Queued /\ ~AtHand /\ ~Answered /\ air' = {}
    BY <1>6 DEF Travels, OnePlace
  <2>3. \A i \in 1..Len(rx') : IsAnswer(rx'[i]) => i = Len(rx) + 1
    BY <2>1, <2>2 DEF Answered
  <2>. QED BY <1>2, <1>6, <2>1, <2>2, <2>3 DEF Travels, OnePlace
<1>7. ASSUME NEW p \in air, Acknowledge(p) \/ Refuse(p) PROVE Travels'
  <2>. DEFINE a == Packet("ack", p.id, p.seq)
              n == Packet("nack", p.id, p.seq)
  <2>1. p \in Commands /\ p.id = cmd_buf.id
    BY DEF Travels, Own, TypeInv, TypeOfRadio
  <2>2. a \in RxPackets /\ n \in RxPackets /\ a.id = p.id /\ n.id = p.id /\ n.kind # "ack"
    BY <2>1 DEF Commands, Packet, RxPackets, Answers
  <2>. HIDE DEF a, n
  <2>3. CASE Acknowledge(p)
    <3>1. Received(a) /\ air' = air \ {p} /\ p.id \in acked'
      BY <2>3 DEF Acknowledge, a
    <3>. QED BY <1>2, <1>6, <2>1, <2>2, <3>1 DEF Own
  <2>4. CASE Refuse(p)
    <3>1. Received(n) /\ air' = air \ {p}
      BY <2>4 DEF Refuse, n
    <3>. QED BY <1>2, <1>6, <2>1, <2>2, <3>1 DEF Own
  <2>. QED BY <1>7, <2>3, <2>4
<1>8. CASE \E p \in air : Lose(p)
  BY <1>3, <1>4, <1>8 DEF Lose
<1>9. CASE RadioStarts
  <2>1. Start \in RxPackets /\ ~IsAnswer(Start)
    BY DEF Start, Packet, RxPackets, IsAnswer
  <2>. QED BY <1>3, <1>5, <1>9, <2>1 DEF RadioStarts
<1>10. CASE Uplink
  <2>. DEFINE d == Packet("data", arrived + 1, 0)
  <2>1. arrived + 1 \in 1..MaxData
    BY <1>10, SizesAssumption, UplinkGives DEF Uplink
  <2>2. d \in RxPackets /\ ~IsAnswer(d)
    BY <2>1 DEF RxPackets, Data, Packet, IsAnswer
  <2>3. Received(d) /\ air' = air
    BY <1>10 DEF Uplink
  <2>. HIDE DEF d
  <2>. QED BY <1>3, <1>5, <2>2, <2>3
<1>. QED BY <1>3, <1>7, <1>8, <1>9, <1>10

LEMMA NextSerial == TypeInv /\ Serial /\ [Next]_vars => Serial'
<1>. SUFFICES ASSUME TypeInv, Serial, [Next]_vars, ~disturbed' PROVE Travels' /\ Owned'
  BY DEF Serial
<1>1. ~disturbed
  BY DEF Next, User, Send, SendBusy, Flash, Returns, Enqueue, EnqueueFails, StartTimer, SetPending, Ask, WaitEnds,
         WaitTimeout, FlashEnqueueFails, FlashNext, FlashDone, FlashTimeout, TimerExpires, Manager,
         Receive, Respond, Deliver, WakeToSend, SendNext, Fail, Transmit, TransmitFails, Environment,
         Acknowledge, Refuse, Lose, Uplink, RadioStarts, Consume, vars
<1>2. Travels /\ Owned
  BY <1>1 DEF Serial
<1>3. ASSUME NEW u \in Users, User(u) PROVE Travels' /\ Owned'
  <2>1. mngr # "respond"
    BY <1>3 DEF User, ManagerRuns
  <2>. QED BY <1>2, <1>3, <2>1, FillSerial, EnqueueSerial, MoveSerial DEF User, Returns
<1>4. CASE Deliver \/ WakeToSend \/ Consume \/ UNCHANGED vars
  <2>1. /\ UNCHANGED <<users, service, cmd_q, air, rx, acked>> /\ (mngr' = "respond" => mngr = "respond")
        /\ packet' = packet \/ (packet.kind = "data" /\ packet' = Void)
    BY <1>4 DEF Deliver, WakeToSend, Consume, vars, GoOn, SendAll, queue, radio, manager,
                TypeInv, TypeOfManager, PacketOK, Data
  <2>2. AtHand' <=> AtHand
    BY <2>1 DEF AtHand, Void, Packet
  <2>3. Owned'
    BY <1>2, <2>1, OwnedStays DEF TypeInv, TypeOfUsers
  <2>4. AtHand => packet' = packet
    BY <2>1 DEF AtHand
  <2>. QED BY <1>2, <2>1, <2>2, <2>3, <2>4 DEF Travels, OnePlace, Queued, Answered, Own, Underway, users, service
<1>5. CASE TimerExpires
  BY <1>2, <1>5, TimerSerial
<1>6. CASE Manager
  BY <1>2, <1>4, <1>6, ReceiveSerial, RespondSerial, SendNextSerial, TransmitSerial DEF Manager
<1>7. CASE Environment
  BY <1>2, <1>4, <1>7, AnswerSerial DEF Environment
<1>. QED BY <1>3, <1>4, <1>5, <1>6, <1>7 DEF Next

LEMMA AlwaysSerial == Spec => [](TypeInv /\ Serial)
<1>1. TypeInv /\ Serial /\ [Next]_vars => (TypeInv /\ Serial)'
  BY NextTypes, NextSerial
<1>. QED BY <1>1, InitTypes, InitSerial, PTL DEF Spec

\* The one command buffer is filled again only when its command is finished: at most one command is
\* underway, and none while the semaphore can be taken, until one of the four things has
\* happened that the property names.
THEOREM OneUnderwayCorrect == Spec => []OneUnderway
<1>1. Serial => OneUnderway
  BY DEF Serial, Owned, Underway, OneUnderway
<1>. QED BY <1>1, AlwaysSerial, PTL

\* The result that a task copies from its session is that of its own last command, and an OK means that the
\* radio has acknowledged it, with the same exceptions.
THEOREM OkIsAcknowledgedCorrect == Spec => []OkIsAcknowledged
<1>1. TypeInv /\ Serial => OkIsAcknowledged
  BY FreeSerial DEF Serial, OkIsAcknowledged
<1>. QED BY <1>1, AlwaysSerial, PTL

----------------------------------------------------------------------------
(* The way down to the service (Downlink).  The bytes that have been sent  *)
(* or are in the socket's buffer, the message buffer or the datagram at    *)
(* hand are one line.                                                      *)

ResponseStates == {"open", "short", "flushed", "kept"}
ResponseRecords == [state : ResponseStates, length : Nat]
Octets == Nat \X Nat

\* The bytes there are, and how many of the latest response the socket has taken.
Sent == ToSet(Line) \cup dropped
Written == outcome[latest].length - Len(todo)

\* Every two of them are in order, not neighbours only.
Sorted(s) == \A i, j \in 1..Len(s) : i < j => Before(s[i], s[j])

LineTypes ==
  /\ {down, held, buf, todo} \subseteq Seq(Octets) /\ datagrams \in Seq(Seq(Octets))
  /\ dropped \subseteq Octets /\ handed \in BOOLEAN
  /\ handed => held # <<>>
  /\ Len(buf) <= Size

WriterTypes ==
  /\ stage \in {"idle", "write", "flush"} /\ shape \in Seq(Nat \ {0})
  /\ outcome \in Seq(ResponseRecords)
  /\ Len(todo) <= (IF latest = 0 THEN 0 ELSE outcome[latest].length)

\* The response in progress is the latest, and outside of a write nothing is left of one.
Stages ==
  /\ stage # "write" => todo = <<>>
  /\ stage # "idle" => latest > 0
  /\ \A k \in 1..latest : outcome[k].state = "open" <=> (k = latest /\ stage # "idle")

\* What is left of the write are the last bytes of the response so far.
RestNumbered == \A i \in 1..Len(todo) : todo[i] = <<latest, Written + i>>

\* What has been taken of a response that was not cut short is there ...
Complete ==
  \A k \in 1..latest : outcome[k].state # "short" =>
     \A n \in 1..(IF k = latest THEN Written ELSE outcome[k].length) : <<k, n>> \in Sent

\* ... and nothing else is: what comes next is behind all there is.
NothingElse ==
  \A b \in Sent :
     /\ b[1] \in 1..latest
     /\ b[2] \in 1..(IF b[1] = latest THEN Written ELSE outcome[b[1]].length)

\* NoGap, of the dropped bytes, too: those before a byte may be dropped after it is in the line.
Closed == \A b \in Sent : \A n \in 1..b[2] : <<b[1], n>> \in Sent

DownInv ==
  LineTypes /\ WriterTypes /\ Stages /\ RestNumbered /\ Complete /\ NothingElse /\ Sorted(Line) /\ Closed

----------------------------------------------------------------------------
(* Sequences of bytes.                                                     *)

\* ToSet is Range, about which the library has theorems.
LEMMA ToSetFacts ==
  ASSUME NEW s \in Seq(Octets)
  PROVE  /\ ToSet(s) = Range(s) /\ Len(s) \in Nat /\ ToSet(s) \subseteq Octets
         /\ ToSet(s) = {s[i] : i \in 1..Len(s)}
         /\ \A i \in 1..Len(s) : s[i] \in Octets /\ s[i] \in ToSet(s)
  BY SeqFacts DEF ToSet, Range

\* What is joined has the bytes of both.
LEMMA ConcatSet ==
  ASSUME NEW s \in Seq(Octets), NEW t \in Seq(Octets)
  PROVE  s \o t \in Seq(Octets) /\ ToSet(s \o t) = ToSet(s) \cup ToSet(t)
<1>1. s \o t \in Seq(Octets)
  BY ConcatProperties
<1>2. Range(s \o t) = Range(s) \cup Range(t)
  BY RangeConcatenation
<1>. QED BY <1>1, <1>2, ToSetFacts

\* It is in order if both are, and all of the first are before all of the second.
LEMMA SortedConcat ==
  ASSUME NEW s \in Seq(Octets), NEW t \in Seq(Octets)
  PROVE  Sorted(s \o t) <=>
           Sorted(s) /\ Sorted(t) /\ \A x \in ToSet(s), y \in ToSet(t) : Before(x, y)
<1>. DEFINE u == s \o t
<1>1. Len(s) \in Nat /\ Len(t) \in Nat
  BY LenProperties
<1>2. u \in Seq(Octets) /\ Len(u) = Len(s) + Len(t)
      /\ \A i \in 1..Len(u) : u[i] = IF i <= Len(s) THEN s[i] ELSE t[i - Len(s)]
  BY ConcatProperties
<1>. HIDE DEF u
<1>3. /\ \A i \in 1..Len(s) : i \in 1..Len(u) /\ u[i] = s[i]
      /\ \A i \in 1..Len(t) : i + Len(s) \in 1..Len(u) /\ u[i + Len(s)] = t[i]
  <2>1. ASSUME NEW i \in 1..Len(s) PROVE i \in 1..Len(u) /\ u[i] = s[i]
    BY <1>1, <1>2
  <2>2. ASSUME NEW i \in 1..Len(t) PROVE i + Len(s) \in 1..Len(u) /\ u[i + Len(s)] = t[i]
    <3>1. i + Len(s) \in 1..Len(u) /\ ~(i + Len(s) <= Len(s)) /\ (i + Len(s)) - Len(s) = i
      BY <1>1, <1>2
    <3>. QED BY <1>2, <3>1
  <2>. QED BY <2>1, <2>2
<1>4. ASSUME Sorted(u)
      PROVE  Sorted(s) /\ Sorted(t) /\ \A x \in ToSet(s), y \in ToSet(t) : Before(x, y)
  <2>1. Sorted(s)
    BY <1>1, <1>3, <1>4 DEF Sorted
  <2>2. ASSUME NEW i \in 1..Len(t), NEW j \in 1..Len(t), i < j PROVE Before(t[i], t[j])
    <3>1. i + Len(s) < j + Len(s)
      BY <1>1, <2>2
    <3>. QED BY <1>3, <1>4, <3>1 DEF Sorted
  <2>3. ASSUME NEW i \in 1..Len(s), NEW j \in 1..Len(t) PROVE Before(s[i], t[j])
    <3>1. i < j + Len(s)
      BY <1>1
    <3>. QED BY <1>3, <1>4, <3>1 DEF Sorted
  <2>4. Sorted(t)
    BY <2>2 DEF Sorted
  <2>5. \A x \in ToSet(s), y \in ToSet(t) : Before(x, y)
    <3>1. ToSet(s) = {s[i] : i \in 1..Len(s)} /\ ToSet(t) = {t[i] : i \in 1..Len(t)}
      BY ToSetFacts
    <3>. QED BY <2>3, <3>1
  <2>. QED BY <2>1, <2>4, <2>5
<1>5. ASSUME Sorted(s), Sorted(t), \A x \in ToSet(s), y \in ToSet(t) : Before(x, y)
      PROVE  Sorted(u)
  <2>1. SUFFICES ASSUME NEW i \in 1..Len(u), NEW j \in 1..Len(u), i < j PROVE Before(u[i], u[j])
    BY DEF Sorted
  <2>2. CASE j <= Len(s)
    <3>1. i \in 1..Len(s) /\ j \in 1..Len(s)
      BY <1>1, <1>2, <2>1, <2>2
    <3>. QED BY <1>3, <1>5, <2>1, <3>1 DEF Sorted
  <2>3. CASE i > Len(s)
    <3>1. i - Len(s) \in 1..Len(t) /\ j - Len(s) \in 1..Len(t) /\ i - Len(s) < j - Len(s)
      BY <1>1, <1>2, <2>1, <2>3
    <3>2. u[i] = t[i - Len(s)] /\ u[j] = t[j - Len(s)]
      BY <1>1, <1>2, <2>1, <2>3
    <3>. QED BY <1>5, <3>1, <3>2 DEF Sorted
  <2>4. CASE i <= Len(s) /\ j > Len(s)
    <3>1. i \in 1..Len(s) /\ j - Len(s) \in 1..Len(t)
      BY <1>1, <1>2, <2>4
    <3>2. u[i] = s[i] /\ u[j] = t[j - Len(s)]
      BY <1>1, <1>2, <2>4
    <3>. QED BY <1>5, <3>1, <3>2, ToSetFacts
  <2>. QED BY <1>1, <1>2, <2>1, <2>2, <2>3, <2>4
<1>. QED BY <1>4, <1>5 DEF u

\* The brackets do not matter.
LEMMA JoinedIn == \A a, b \in Seq(Octets) : a \o b \in Seq(Octets)
  BY ConcatProperties

LEMMA JoinedTwice == \A a, b, c \in Seq(Octets) : a \o (b \o c) = (a \o b) \o c
  BY ConcatAssociative

LEMMA Joined ==
  \A a, b, c, d \in Seq(Octets) : a \o (b \o (c \o d)) = ((a \o b) \o c) \o d
<1>1. ASSUME NEW a \in Seq(Octets), NEW b \in Seq(Octets), NEW c \in Seq(Octets), NEW d \in Seq(Octets)
      PROVE  a \o (b \o (c \o d)) = ((a \o b) \o c) \o d
  <2>1. a \o b \in Seq(Octets) /\ c \o d \in Seq(Octets)
    BY JoinedIn
  <2>2. a \o (b \o (c \o d)) = (a \o b) \o (c \o d)
    BY <2>1, JoinedTwice
  <2>3. (a \o b) \o (c \o d) = ((a \o b) \o c) \o d
    BY <2>1, JoinedTwice
  <2>. QED BY <2>2, <2>3
<1>. QED BY <1>1

\* Leaving out a part from the middle.
LEMMA SortedWithout ==
  ASSUME NEW a \in Seq(Octets), NEW b \in Seq(Octets), NEW c \in Seq(Octets),
         Sorted((a \o b) \o c)
  PROVE  Sorted(a \o c)
<1>1. a \o b \in Seq(Octets) /\ ToSet(a \o b) = ToSet(a) \cup ToSet(b)
  BY ConcatSet
<1>2. Sorted(a \o b) /\ Sorted(c) /\ \A x \in ToSet(a) \cup ToSet(b), y \in ToSet(c) : Before(x, y)
  BY <1>1, SortedConcat
<1>3. Sorted(a)
  BY <1>2, SortedConcat
<1>. QED BY <1>2, <1>3, SortedConcat

\* In particular, neighbours are in order.
LEMMA SortedNeighbours ==
  ASSUME NEW s \in Seq(Octets), Sorted(s), NEW i \in 1..Len(s) - 1
  PROVE  Before(s[i], s[i + 1])
<1>1. Len(s) \in Nat /\ i \in 1..Len(s) /\ i + 1 \in 1..Len(s) /\ i < i + 1
  BY LenProperties
<1>. QED BY <1>1 DEF Sorted

----------------------------------------------------------------------------
\* The parts of the line.
LEMMA LineFacts ==
  ASSUME LineTypes
  PROVE  /\ down \in Seq(Octets) /\ held \in Seq(Octets) /\ buf \in Seq(Octets) /\ todo \in Seq(Octets)
         /\ FlattenSeq(datagrams) \in Seq(Octets) /\ (IF handed THEN <<>> ELSE held) \in Seq(Octets)
         /\ <<>> \in Seq(Octets)
         /\ Line \in Seq(Octets) /\ ToSet(Line) \subseteq Octets /\ Sent \subseteq Octets
<1>1. down \in Seq(Octets) /\ held \in Seq(Octets) /\ buf \in Seq(Octets) /\ todo \in Seq(Octets)
  BY DEF LineTypes
<1>2. FlattenSeq(datagrams) \in Seq(Octets) /\ <<>> \in Seq(Octets)
  BY FlattenAppend, EmptySeq DEF LineTypes
<1>3. (IF handed THEN <<>> ELSE held) \in Seq(Octets)
  BY <1>1, <1>2
<1>4. Line \in Seq(Octets)
  BY <1>1, <1>2, <1>3, ConcatSet DEF Line
<1>. QED BY <1>1, <1>2, <1>3, <1>4, ToSetFacts DEF Sent, LineTypes

\* In a write, the latest response is open, and todo ends with its last byte.
LEMMA NumberedFacts ==
  ASSUME DownInv, stage = "write"
  PROVE  /\ latest \in Nat \ {0} /\ latest = Len(outcome) /\ Len(todo) \in Nat
         /\ outcome[latest] \in ResponseRecords /\ outcome[latest].state = "open"
         /\ Written \in Nat /\ Written + Len(todo) = outcome[latest].length
         /\ \A k \in 1..latest : outcome[k] \in ResponseRecords
<1>1. outcome \in Seq(ResponseRecords) /\ todo \in Seq(Octets)
  BY DEF DownInv, WriterTypes, LineTypes
<1>2. latest \in Nat /\ Len(todo) \in Nat /\ latest = Len(outcome)
  BY <1>1, LenProperties DEF latest
<1>3. \A k \in 1..latest : outcome[k] \in ResponseRecords
  BY <1>1, <1>2, ElementOfSeq
<1>4. latest > 0 /\ outcome[latest].state = "open"
  <2>1. latest > 0
    BY DEF DownInv, Stages
  <2>. QED BY <1>2, <2>1 DEF DownInv, Stages
<1>5. outcome[latest] \in ResponseRecords /\ Len(todo) <= outcome[latest].length
  BY <1>2, <1>3, <1>4 DEF DownInv, WriterTypes
<1>6. outcome[latest].length \in Nat
  BY <1>5 DEF ResponseRecords
<1>7. Written \in Nat /\ Written + Len(todo) = outcome[latest].length
  BY <1>2, <1>5, <1>6 DEF Written
<1>. QED BY <1>2, <1>3, <1>4, <1>5, <1>7

\* The line is lengthened by the first bytes of what is left of the write.
LEMMA LineGrows ==
  ASSUME DownInv, stage = "write", NEW p \in 0..Len(todo),
         Line' = Line \o SubSeq(todo, 1, p), dropped' = dropped
  PROVE  /\ Sorted(Line)' /\ Closed'
         /\ Sent' = Sent \cup {<<latest, Written + i>> : i \in 1..p}
<1>. DEFINE t == SubSeq(todo, 1, p)
            New == {<<latest, Written + i>> : i \in 1..p}
<1>1. LineTypes /\ todo \in Seq(Octets) /\ Line \in Seq(Octets) /\ Sent \subseteq Octets
  BY LineFacts DEF DownInv
<1>2. latest \in Nat \ {0} /\ Len(todo) \in Nat /\ Written \in Nat
  BY NumberedFacts
<1>3. t \in Seq(Octets) /\ Len(t) = p /\ \A i \in 1..p : t[i] = <<latest, Written + i>>
  <2>1. t \in Seq(Octets) /\ Len(t) = p /\ \A i \in 1..p : t[i] = todo[i]
    <3>1. \A i \in 1..p : todo[i] \in Octets
      BY <1>1, <1>2, ElementOfSeq
    <3>. QED BY <1>1, <1>2, <3>1, SubSeqProperties
  <2>2. \A i \in 1..p : todo[i] = <<latest, Written + i>>
    BY <1>2 DEF DownInv, RestNumbered
  <2>. QED BY <2>1, <2>2
<1>. HIDE DEF t
<1>4. ToSet(t) = New
  BY <1>3, ToSetFacts
<1>5. ToSet(Line \o t) = ToSet(Line) \cup New
  BY <1>1, <1>3, <1>4, ConcatSet
<1>6. Sent' = Sent \cup New
  BY <1>5 DEF Sent, t
<1>. HIDE DEF New
<1>7. Sorted(t)
  BY <1>2, <1>3 DEF Sorted, Before
<1>8. ASSUME NEW x \in ToSet(Line), NEW y \in New PROVE Before(x, y)
  <2>1. x \in Sent /\ x \in Nat \X Nat
    BY <1>1 DEF Sent, Octets
  <2>2. x[1] \in 1..latest /\ (x[1] = latest => x[2] <= Written) /\ x[2] \in Nat
    BY <1>2, <2>1 DEF DownInv, NothingElse
  <2>3. PICK i \in 1..p : y = <<latest, Written + i>>
    BY DEF New
  <2>4. y[1] = latest /\ y[2] = Written + i /\ i \in Nat /\ i > 0
    BY <1>2, <2>3
  <2>5. CASE x[1] = latest
    BY <1>2, <2>2, <2>4, <2>5 DEF Before
  <2>6. CASE x[1] # latest
    BY <1>2, <2>2, <2>4, <2>6 DEF Before
  <2>. QED BY <2>5, <2>6
<1>9. Sorted(Line \o t)
  BY <1>1, <1>3, <1>4, <1>7, <1>8, SortedConcat DEF DownInv
<1>10. Sorted(Line)'
  BY <1>9 DEF t, Sorted
<1>11. Closed'
  <2>1. ASSUME NEW b \in Sent, NEW n \in 1..b[2] PROVE <<b[1], n>> \in Sent
    BY <2>1 DEF DownInv, Closed
  <2>2. ASSUME NEW i \in 1..p, NEW n \in 1..(Written + i) PROVE <<latest, n>> \in Sent \cup New
    <3>1. CASE n <= Written
      <4>1. latest \in 1..latest /\ outcome[latest].state # "short"
        BY <1>2, NumberedFacts
      <4>2. n \in 1..Written
        BY <1>2, <3>1
      <4>. QED BY <4>1, <4>2 DEF DownInv, Complete
    <3>2. CASE n > Written
      <4>1. n - Written \in 1..p /\ n = Written + (n - Written)
        BY <1>2, <3>2
      <4>. QED BY <4>1 DEF New
    <3>. QED BY <1>2, <3>1, <3>2
  <2>3. ASSUME NEW b \in Sent \cup New, NEW n \in 1..b[2] PROVE <<b[1], n>> \in Sent \cup New
    <3>1. CASE b \in New
      <4>1. PICK i \in 1..p : b = <<latest, Written + i>>
        BY <3>1 DEF New
      <4>2. b[1] = latest /\ n \in 1..(Written + i)
        BY <2>3, <4>1
      <4>. QED BY <2>2, <4>2
    <3>. QED BY <2>1, <2>3, <3>1
  <2>. QED BY <1>6, <2>3 DEF Closed
<1>. QED BY <1>6, <1>10, <1>11 DEF New

\* A round of buffered_io_write takes no more than what is left of the write.
LEMMA PortionFacts ==
  ASSUME DownInv
  PROVE  /\ Portion \in 0..Len(todo)
         /\ SubSeq(todo, 1, Portion) \in Seq(Octets)
         /\ Filled \in Seq(Octets) /\ Len(Filled) = Len(buf) + Portion
<1>1. /\ todo \in Seq(Octets) /\ buf \in Seq(Octets) /\ Len(todo) \in Nat /\ Len(buf) \in Nat
      /\ Len(buf) <= Size /\ Size \in Nat
  BY DownlinkAssumption, LenProperties DEF DownInv, LineTypes
<1>2. Portion \in 0..Len(todo)
  <2>1. CASE Direct
    BY <1>1, <2>1 DEF Portion, Direct
  <2>2. CASE ~Direct
    <3>. DEFINE a == Size - Len(buf)
                m == Min({a, Len(todo)})
    <3>1. a \in Nat /\ Portion = m
      BY <1>1, <2>2 DEF Portion
    <3>2. m = CHOOSE x \in {a, Len(todo)} : \A y \in {a, Len(todo)} : x <= y
      BY DEF Min
    <3>3. \E x \in {a, Len(todo)} : \A y \in {a, Len(todo)} : x <= y
      BY <1>1, <3>1
    <3>. HIDE DEF m, a
    <3>4. m \in {a, Len(todo)} /\ m <= Len(todo)
      BY <3>2, <3>3
    <3>. QED BY <1>1, <3>1, <3>4
  <2>. QED BY <2>1, <2>2
<1>3. \A i \in 1..Portion : todo[i] \in Octets
  BY <1>1, <1>2, ElementOfSeq
<1>4. SubSeq(todo, 1, Portion) \in Seq(Octets) /\ Len(SubSeq(todo, 1, Portion)) = Portion
  BY <1>1, <1>2, <1>3, SubSeqProperties
<1>5. Filled \in Seq(Octets) /\ Len(Filled) = Len(buf) + Portion
  BY <1>1, <1>4, ConcatProperties DEF Filled
<1>. QED BY <1>2, <1>4, <1>5

\* What remains of the write after its first bytes.
LEMMA RestAfter ==
  ASSUME DownInv, stage = "write", NEW p \in 0..Len(todo),
         NEW t, t = SubSeq(todo, p + 1, Len(todo))
  PROVE  /\ t \in Seq(Octets) /\ Len(t) = Len(todo) - p
         /\ \A i \in 1..Len(t) : t[i] = <<latest, (Written + p) + i>>
<1>1. todo \in Seq(Octets) /\ Len(todo) \in Nat /\ Written \in Nat
  BY NumberedFacts DEF DownInv, LineTypes
<1>2. CASE p = Len(todo)
  <2>1. t = <<>>
    BY <1>1, <1>2, SubSeqEmpty
  <2>. QED BY <1>1, <1>2, <2>1, EmptySeq
<1>3. CASE p < Len(todo)
  <2>1. \A i \in (p + 1)..Len(todo) : todo[i] \in Octets
    BY <1>1, ElementOfSeq
  <2>2. t \in Seq(Octets) /\ Len(t) = Len(todo) - p
        /\ \A i \in 1..(Len(todo) - p) : t[i] = todo[p + i]
    BY <1>1, <1>3, <2>1, SubSeqProperties
  <2>3. ASSUME NEW i \in 1..(Len(todo) - p) PROVE todo[p + i] = <<latest, (Written + p) + i>>
    <3>1. p + i \in 1..Len(todo) /\ Written + (p + i) = (Written + p) + i
      BY <1>1
    <3>. QED BY <3>1 DEF DownInv, RestNumbered
  <2>. QED BY <1>1, <2>2, <2>3
<1>4. p = Len(todo) \/ p < Len(todo)
  BY <1>1
<1>. QED BY <1>2, <1>3, <1>4

\* A round of the loop that goes on: the bytes it takes follow those in the line.
LEMMA RoundInv ==
  ASSUME DownInv, stage = "write", NEW p \in 0..Len(todo),
         Line' = Line \o SubSeq(todo, 1, p), todo' = SubSeq(todo, p + 1, Len(todo)),
         UNCHANGED <<stage, shape, outcome, dropped>>, LineTypes'
  PROVE  DownInv'
<1>1. /\ latest' = latest /\ latest \in Nat \ {0} /\ Len(todo) \in Nat
      /\ outcome[latest] \in ResponseRecords /\ outcome[latest].length \in Nat
      /\ Written \in Nat /\ Written + Len(todo) = outcome[latest].length
      /\ outcome[latest].state = "open"
  BY NumberedFacts DEF latest
<1>2. /\ Len(todo') = Len(todo) - p
      /\ \A i \in 1..Len(todo') : todo'[i] = <<latest, (Written + p) + i>>
  BY RestAfter
<1>3. Written' = Written + p
  <2>1. Written' = outcome[latest].length - (Len(todo) - p)
    BY <1>1, <1>2 DEF Written
  <2>. QED BY <1>1, <2>1
<1>4. /\ Sorted(Line)' /\ Closed'
      /\ Sent' = Sent \cup {<<latest, Written + i>> : i \in 1..p}
  BY LineGrows
<1>5. WriterTypes' /\ Stages'
  BY <1>1, <1>2 DEF DownInv, WriterTypes, Stages
<1>6. RestNumbered'
  BY <1>1, <1>2, <1>3 DEF RestNumbered
<1>7. Complete'
  <2>1. SUFFICES ASSUME NEW k \in 1..latest, outcome[k].state # "short",
                        NEW n \in 1..(IF k = latest THEN Written + p ELSE outcome[k].length)
                 PROVE  <<k, n>> \in Sent'
    BY <1>1, <1>3 DEF Complete
  <2>2. CASE k = latest /\ n > Written
    <3>1. n - Written \in 1..p /\ n = Written + (n - Written)
      BY <1>1, <2>1, <2>2
    <3>. QED BY <1>4, <2>2, <3>1
  <2>3. CASE ~(k = latest /\ n > Written)
    <3>1. n \in 1..(IF k = latest THEN Written ELSE outcome[k].length)
      BY <1>1, <2>1, <2>3
    <3>. QED BY <1>4, <2>1, <3>1 DEF DownInv, Complete
  <2>. QED BY <2>2, <2>3
<1>8. NothingElse'
  <2>1. ASSUME NEW b \in Sent
        PROVE  b[1] \in 1..latest /\ b[2] \in 1..(IF b[1] = latest THEN Written + p ELSE outcome[b[1]].length)
    <3>1. b[1] \in 1..latest /\ b[2] \in 1..(IF b[1] = latest THEN Written ELSE outcome[b[1]].length)
      BY DEF DownInv, NothingElse
    <3>2. 1..Written \subseteq 1..(Written + p)
      BY <1>1
    <3>. QED BY <3>1, <3>2
  <2>2. ASSUME NEW i \in 1..p, NEW b, b = <<latest, Written + i>>
        PROVE  b[1] \in 1..latest /\ b[2] \in 1..(IF b[1] = latest THEN Written + p ELSE outcome[b[1]].length)
    <3>1. b[1] = latest /\ b[2] = Written + i
      BY <2>2
    <3>. QED BY <1>1, <3>1
  <2>3. ASSUME NEW b \in Sent'
        PROVE  b[1] \in 1..latest /\ b[2] \in 1..(IF b[1] = latest THEN Written + p ELSE outcome[b[1]].length)
    <3>1. b \in Sent \/ \E i \in 1..p : b = <<latest, Written + i>>
      BY <1>4
    <3>. QED BY <2>1, <2>2, <3>1
  <2>. QED BY <1>1, <1>3, <2>3 DEF NothingElse
<1>. QED BY <1>4, <1>5, <1>6, <1>7, <1>8 DEF DownInv

\* To the buffer ...
LEMMA CopyInv ==
  ASSUME DownInv, Copy
  PROVE  DownInv'
<1>. DEFINE t == SubSeq(todo, 1, Portion)
<1>1. /\ stage = "write" /\ Portion \in 0..Len(todo) /\ t \in Seq(Octets) /\ Filled \in Seq(Octets)
      /\ Len(Filled) \in Nat /\ Len(Filled) < Size
  BY PortionFacts, LenProperties DEF Copy, Writing
<1>2. todo' = SubSeq(todo, Portion + 1, Len(todo)) /\ todo' \in Seq(Octets)
  BY <1>1, RestAfter DEF Copy
<1>3. LineTypes'
  BY <1>1, <1>2, DownlinkAssumption DEF DownInv, LineTypes, Copy, linkage
<1>4. Line' = Line \o t
  <2>. DEFINE a == down \o (IF handed THEN <<>> ELSE held) \o FlattenSeq(datagrams)
  <2>1. a \in Seq(Octets) /\ buf \in Seq(Octets) /\ t \in Seq(Octets)
    BY <1>1, LineFacts, ConcatSet DEF DownInv
  <2>2. Line' = a \o (buf \o t) /\ Line = a \o buf
    BY DEF Line, Copy, linkage, Filled
  <2>. HIDE DEF a, t
  <2>3. a \o (buf \o t) = (a \o buf) \o t
    BY <2>1, JoinedTwice, Zenon
  <2>. QED BY <2>2, <2>3
<1>. QED BY <1>1, <1>2, <1>3, <1>4, RoundInv DEF Copy, linkage

\* ... or, with the buffer, to the message buffer.
LEMMA SendFullInv ==
  ASSUME DownInv, SendFull
  PROVE  DownInv'
<1>. DEFINE t == SubSeq(todo, 1, Portion)
<1>1. /\ stage = "write" /\ Portion \in 0..Len(todo) /\ t \in Seq(Octets) /\ Filled \in Seq(Octets)
      /\ Filled = buf \o t
  BY PortionFacts DEF SendFull, Writing, Filled
<1>2. todo' = SubSeq(todo, Portion + 1, Len(todo)) /\ todo' \in Seq(Octets)
  BY <1>1, RestAfter DEF SendFull
<1>3. LineTypes'
  <2>1. datagrams \in Seq(Seq(Octets))
    BY DEF DownInv, LineTypes
  <2>2. datagrams' \in Seq(Seq(Octets))
    BY <1>1, <2>1, AppendProperties DEF SendFull
  <2>3. <<>> \in Seq(Octets) /\ Len(<<>>) = 0
    BY EmptySeq
  <2>. QED BY <1>2, <2>2, <2>3, DownlinkAssumption DEF DownInv, LineTypes, SendFull, linkage
<1>4. Line' = Line \o t
  <2>1. PICK a \in Seq(Octets) : a = down \o (IF handed THEN <<>> ELSE held)
    BY LineFacts, ConcatSet DEF DownInv
  <2>2. PICK f \in Seq(Octets), b \in Seq(Octets), u \in Seq(Octets) :
          f = FlattenSeq(datagrams) /\ b = buf /\ u = t
    BY <1>1, LineFacts DEF DownInv
  <2>3. FlattenSeq(datagrams') = f \o (b \o u)
    BY <1>1, <2>2, FlattenAppend DEF DownInv, LineTypes, SendFull
  <2>4. a \in Seq(Octets) /\ f \in Seq(Octets) /\ b \in Seq(Octets) /\ u \in Seq(Octets)
    BY <2>1, <2>2
  <2>5. a \o (f \o (b \o u)) = ((a \o f) \o b) \o u
    <3>1. a \o f \in Seq(Octets) /\ b \o u \in Seq(Octets)
      BY <2>4, JoinedIn
    <3>2. a \o (f \o (b \o u)) = (a \o f) \o (b \o u)
      BY <2>4, <3>1, JoinedTwice
    <3>3. (a \o f) \o (b \o u) = ((a \o f) \o b) \o u
      BY <2>4, <3>1, JoinedTwice
    <3>. QED BY <3>2, <3>3
  <2>6. (((a \o f) \o b) \o u) \o <<>> = ((a \o f) \o b) \o u
    BY <2>4, JoinedIn, ConcatEmptySeq
  <2>7. Line' = (((a \o f) \o b) \o u) \o <<>> /\ Line = (a \o f) \o b
    BY <2>1, <2>2, <2>3, <2>5 DEF Line, SendFull, linkage
  <2>. QED BY <2>2, <2>6, <2>7
<1>. QED BY <1>1, <1>2, <1>3, <1>4, RoundInv DEF SendFull, linkage

\* The record of the latest response is replaced.
LEMMA RecordReplaced ==
  ASSUME outcome \in Seq(ResponseRecords), latest > 0, NEW s \in ResponseStates, NEW n \in Nat,
         outcome' = [outcome EXCEPT ![latest] = [state |-> s, length |-> n]]
  PROVE  /\ outcome' \in Seq(ResponseRecords) /\ latest' = latest
         /\ outcome'[latest].state = s /\ outcome'[latest].length = n
         /\ \A k \in 1..latest : k # latest => outcome'[k] = outcome[k]
<1>1. latest = Len(outcome) /\ latest \in 1..Len(outcome) /\ latest' = Len(outcome')
  BY LenProperties DEF latest
<1>2. [state |-> s, length |-> n] \in ResponseRecords
  BY DEF ResponseRecords
<1>3. /\ outcome' \in Seq(ResponseRecords) /\ Len(outcome') = Len(outcome)
      /\ \A k \in 1..Len(outcome) : outcome'[k] = IF k = latest THEN [state |-> s, length |-> n] ELSE outcome[k]
  BY <1>1, <1>2, ExceptSeq
<1>4. outcome'[latest] = [state |-> s, length |-> n]
  BY <1>1, <1>3
<1>5. outcome'[latest].state = s /\ outcome'[latest].length = n
  BY <1>4
<1>. QED BY <1>1, <1>3, <1>5

\* Only its state changes.
LEMMA BecomesFacts ==
  ASSUME outcome \in Seq(ResponseRecords), latest > 0, NEW s \in ResponseStates, Becomes(s)
  PROVE  /\ outcome' \in Seq(ResponseRecords) /\ latest' = latest
         /\ outcome'[latest].state = s /\ outcome'[latest].length = outcome[latest].length
         /\ \A k \in 1..latest : k # latest => outcome'[k] = outcome[k]
<1>1. latest \in 1..Len(outcome) /\ outcome[latest] \in ResponseRecords
  BY LenProperties, ElementOfSeq DEF latest
<1>2. outcome[latest].length \in Nat /\ outcome[latest] = [state |-> outcome[latest].state, length |-> outcome[latest].length]
  BY <1>1 DEF ResponseRecords
<1>3. outcome' = [outcome EXCEPT ![latest] = [outcome[latest] EXCEPT !.state = s]]
  BY DEF Becomes
<1>4. [outcome[latest] EXCEPT !.state = s] = [state |-> s, length |-> outcome[latest].length]
  BY <1>2
<1>. QED BY <1>2, <1>3, <1>4, RecordReplaced

\* A response is cut short with what it was writing, whose first bytes are in the line.
LEMMA WriteTimeoutInv ==
  ASSUME DownInv, WriteTimeout
  PROVE  DownInv'
<1>1. /\ stage = "write" /\ latest \in Nat \ {0} /\ Len(todo) \in Nat /\ latest = Len(outcome)
      /\ outcome[latest] \in ResponseRecords /\ outcome[latest].length \in Nat
      /\ Written \in Nat /\ Written + Len(todo) = outcome[latest].length
      /\ \A k \in 1..latest : outcome[k] \in ResponseRecords
  BY NumberedFacts DEF WriteTimeout, Writing
<1>2. todo' = <<>> /\ Len(todo') = 0
      /\ stage' = "idle" /\ shape' = <<>>
  BY EmptySeq DEF WriteTimeout
<1>3. /\ Portion \in 0..Len(todo) /\ Filled \in Seq(Octets) /\ Len(Filled) \in Nat
      /\ SubSeq(todo, 1, Portion) \in Seq(Octets)
  BY PortionFacts, LenProperties
<1>4. LineTypes'
  BY <1>2, <1>3, LineFacts, DownlinkAssumption DEF DownInv, LineTypes, WriteTimeout, linkage
<1>5. PICK p \in 0..Len(todo) : Line' = Line \o SubSeq(todo, 1, p)
  <2>1. CASE Direct
    <3>1. SubSeq(todo, 1, 0) = <<>> /\ Line \in Seq(Octets)
      BY LineFacts, SubSeqEmpty DEF DownInv
    <3>2. Line' = Line
      BY <2>1 DEF Line, WriteTimeout, linkage
    <3>3. Line \o SubSeq(todo, 1, 0) = Line /\ 0 \in 0..Len(todo)
      BY <1>1, <3>1, ConcatEmptySeq
    <3>. QED BY <3>2, <3>3
  <2>2. CASE ~Direct
    <3>. DEFINE a == down \o (IF handed THEN <<>> ELSE held) \o FlattenSeq(datagrams)
                t == SubSeq(todo, 1, Portion)
    <3>1. a \in Seq(Octets) /\ buf \in Seq(Octets) /\ t \in Seq(Octets)
      BY <1>3, LineFacts, JoinedIn DEF DownInv
    <3>2. Line' = a \o (buf \o t) /\ Line = a \o buf
      BY <2>2 DEF Line, WriteTimeout, linkage, Filled
    <3>3. a \o (buf \o t) = (a \o buf) \o t
      <4>. HIDE DEF a, t
      <4>. QED BY <3>1, JoinedTwice, Zenon
    <3>. QED BY <1>3, <3>2, <3>3
  <2>. QED BY <2>1, <2>2
<1>6. /\ Sorted(Line)' /\ Closed'
      /\ Sent' = Sent \cup {<<latest, Written + i>> : i \in 1..p}
  BY <1>1, <1>5, LineGrows DEF WriteTimeout, linkage
<1>7. /\ outcome' \in Seq(ResponseRecords) /\ latest' = latest
      /\ outcome'[latest].state = "short" /\ outcome'[latest].length = outcome[latest].length
      /\ \A k \in 1..latest : k # latest => outcome'[k] = outcome[k]
  <2>1. outcome \in Seq(ResponseRecords) /\ "short" \in ResponseStates
    BY DEF DownInv, WriterTypes, ResponseStates
  <2>. QED BY <1>1, <2>1, BecomesFacts DEF WriteTimeout
<1>8. Written' = outcome[latest].length
  <2>1. Written' = outcome[latest].length - 0
    BY <1>2, <1>7 DEF Written
  <2>. QED BY <1>1, <2>1
<1>9. WriterTypes'
  <2>1. <<>> \in Seq(Nat \ {0})
    BY EmptySeq
  <2>. QED BY <1>1, <1>2, <1>7, <1>8, <2>1 DEF WriterTypes
<1>10. Stages'
  BY <1>1, <1>2, <1>7, <1>8 DEF DownInv, Stages
<1>11. RestNumbered'
  BY <1>2 DEF RestNumbered
<1>12. Complete'
  BY <1>1, <1>6, <1>7, <1>8 DEF DownInv, Complete
<1>13. NothingElse'
  <2>1. ASSUME NEW b \in Sent
        PROVE  b[1] \in 1..latest /\ b[2] \in 1..outcome'[b[1]].length
    <3>1. b[1] \in 1..latest /\ b[2] \in 1..(IF b[1] = latest THEN Written ELSE outcome[b[1]].length)
      BY DEF DownInv, NothingElse
    <3>2. outcome[b[1]].length \in Nat /\ outcome'[b[1]].length = outcome[b[1]].length
      BY <1>1, <1>7, <3>1 DEF ResponseRecords
    <3>3. 1..Written \subseteq 1..outcome[latest].length
      BY <1>1
    <3>. QED BY <3>1, <3>2, <3>3
  <2>2. ASSUME NEW i \in 1..p, NEW b, b = <<latest, Written + i>>
        PROVE  b[1] \in 1..latest /\ b[2] \in 1..outcome'[b[1]].length
    <3>1. b[1] = latest /\ b[2] = Written + i /\ Written + i \in 1..outcome[latest].length
      BY <1>1, <1>5, <2>2
    <3>. QED BY <1>1, <1>7, <3>1
  <2>3. ASSUME NEW b \in Sent'
        PROVE  b[1] \in 1..latest /\ b[2] \in 1..outcome'[b[1]].length
    <3>1. b \in Sent \/ \E i \in 1..p : b = <<latest, Written + i>>
      BY <1>6
    <3>. QED BY <2>1, <2>2, <3>1
  <2>. QED BY <1>7, <1>8, <2>3 DEF NothingElse
<1>. QED BY <1>4, <1>6, <1>9, <1>10, <1>11, <1>12, <1>13 DEF DownInv

\* A step that touches neither the response nor which bytes there are.
LEMMA SentKept ==
  ASSUME DownInv, UNCHANGED client, LineTypes', Sent' = Sent, Sorted(Line)'
  PROVE  DownInv'
<1>1. UNCHANGED <<stage, shape, todo, outcome, latest, Written>>
  BY DEF client, latest, Written
<1>2. WriterTypes' /\ Stages' /\ RestNumbered'
  BY <1>1 DEF DownInv, WriterTypes, Stages, RestNumbered
<1>3. Complete' /\ NothingElse' /\ Closed'
  BY <1>1 DEF DownInv, Complete, NothingElse, Closed
<1>. QED BY <1>2, <1>3 DEF DownInv

\* A step that leaves the line as it is.
LEMMA LineKept ==
  ASSUME DownInv, UNCHANGED client, LineTypes', Line' = Line, dropped' = dropped
  PROVE  DownInv'
<1>1. Sent' = Sent /\ Sorted(Line)'
  BY DEF Sent, Sorted, DownInv
<1>. QED BY <1>1, SentKept

\* The bytes of a write, numbered.
LEMMA NumberedWrite ==
  ASSUME NEW k \in Nat, NEW n \in Nat, NEW m \in Nat,
         todo' = [i \in 1..m |-> <<k, n + i>>]
  PROVE  /\ todo' \in Seq(Octets) /\ Len(todo') = m
         /\ \A i \in 1..m : todo'[i] = <<k, n + i>>
<1>1. \A i \in 1..m : <<k, n + i>> \in Octets
  BY DEF Octets
<1>2. todo' \in [1..m -> Octets]
  BY <1>1
<1>3. todo' \in Seq(Octets)
  BY <1>2, SeqDef
<1>4. Len(todo') = m
  BY <1>2, <1>3, LenProperties
<1>. QED BY <1>3, <1>4

\* A new response, of which nothing is in the line.
LEMMA BeginInv ==
  ASSUME DownInv, Begin
  PROVE  DownInv'
<1>1. PICK s \in Shapes :
        /\ shape' = Tail(s)
        /\ todo' = [i \in 1..Head(s) |-> <<latest + 1, i>>]
        /\ outcome' = Append(outcome, [state |-> "open", length |-> Head(s)])
  BY DEF Begin
<1>2. Head(s) \in Nat \ {0} /\ Tail(s) \in Seq(Nat \ {0})
  <2>1. s \in Seq(Nat \ {0}) /\ s # <<>>
    BY DownlinkAssumption
  <2>. QED BY <2>1, HeadTailProperties
<1>3. /\ outcome \in Seq(ResponseRecords) /\ latest \in Nat /\ latest = Len(outcome)
      /\ \A k \in 1..latest : outcome[k] \in ResponseRecords
      /\ stage = "idle" /\ todo = <<>> /\ Len(todo) = 0
  BY LenProperties, ElementOfSeq, EmptySeq DEF DownInv, WriterTypes, Stages, Begin, latest
<1>4. /\ outcome' \in Seq(ResponseRecords) /\ latest' = latest + 1
      /\ outcome'[latest + 1] = [state |-> "open", length |-> Head(s)]
      /\ \A k \in 1..latest : outcome'[k] = outcome[k]
  <2>1. [state |-> "open", length |-> Head(s)] \in ResponseRecords
    BY <1>2 DEF ResponseRecords, ResponseStates
  <2>. QED BY <1>1, <1>3, <2>1, AppendProperties DEF latest
<1>5. /\ todo' \in Seq(Octets) /\ Len(todo') = Head(s)
      /\ \A i \in 1..Len(todo') : todo'[i] = <<latest + 1, i>>
  <2>1. todo' = [i \in 1..Head(s) |-> <<latest + 1, 0 + i>>]
    BY <1>1
  <2>2. latest + 1 \in Nat /\ 0 \in Nat /\ Head(s) \in Nat
    BY <1>2, <1>3
  <2>3. todo' \in Seq(Octets) /\ Len(todo') = Head(s) /\ \A i \in 1..Head(s) : todo'[i] = <<latest + 1, 0 + i>>
    BY <2>1, <2>2, NumberedWrite
  <2>. QED BY <2>3
<1>6. Written' = 0 /\ outcome'[latest + 1].state = "open" /\ outcome'[latest + 1].length = Head(s)
  <2>1. outcome'[latest + 1].state = "open" /\ outcome'[latest + 1].length = Head(s)
    BY <1>4
  <2>2. Written' = Head(s) - Head(s)
    BY <1>4, <1>5, <2>1 DEF Written
  <2>. QED BY <1>2, <2>1, <2>2
<1>7. LineTypes' /\ Line' = Line /\ Sent' = Sent
  BY <1>5 DEF DownInv, LineTypes, Begin, linkage, Line, Sent
<1>8. WriterTypes'
  <2>1. stage' = "write" /\ shape' \in Seq(Nat \ {0})
    BY <1>1, <1>2 DEF Begin
  <2>2. Len(todo') <= outcome'[latest'].length
    BY <1>2, <1>4, <1>5, <1>6
  <2>3. latest' # 0
    BY <1>3, <1>4
  <2>. QED BY <1>4, <2>1, <2>2, <2>3 DEF WriterTypes
<1>9. Stages'
  <2>1. \A k \in 1..latest : outcome[k].state # "open"
    BY <1>3 DEF DownInv, Stages
  <2>. QED BY <1>3, <1>4, <1>6, <2>1 DEF Stages, Begin
<1>10. RestNumbered'
  BY <1>2, <1>4, <1>5, <1>6 DEF RestNumbered
<1>11. \A k \in 1..latest : outcome[k].length \in Nat /\ (k = latest => Written = outcome[k].length)
  BY <1>3 DEF Written, ResponseRecords
<1>12. Complete'
  <2>1. SUFFICES ASSUME NEW k \in 1..(latest + 1), outcome'[k].state # "short",
                        NEW n \in 1..(IF k = latest + 1 THEN 0 ELSE outcome'[k].length)
                 PROVE  <<k, n>> \in Sent
    BY <1>4, <1>6, <1>7 DEF Complete
  <2>2. k \in 1..latest /\ n \in 1..outcome[k].length /\ outcome[k].state # "short"
    BY <1>3, <1>4, <2>1
  <2>. QED BY <1>11, <2>2 DEF DownInv, Complete
<1>13. NothingElse'
  <2>1. ASSUME NEW b \in Sent
        PROVE  b[1] \in 1..latest /\ b[2] \in 1..outcome[b[1]].length
    BY <1>11 DEF DownInv, NothingElse
  <2>. QED BY <1>3, <1>4, <1>6, <1>7, <2>1 DEF NothingElse
<1>14. Sorted(Line)' /\ Closed'
  BY <1>7 DEF DownInv, Sorted, Closed
<1>. QED BY <1>7, <1>8, <1>9, <1>10, <1>12, <1>13, <1>14 DEF DownInv

\* The next write of the response: nothing new is in the line yet.
LEMMA NextWriteInv ==
  ASSUME DownInv, WriteDone, shape # <<>>
  PROVE  DownInv'
<1>. DEFINE n == outcome[latest].length
            m == Head(shape)
<1>1. /\ stage = "write" /\ latest \in Nat \ {0} /\ todo = <<>> /\ Len(todo) = 0
      /\ n \in Nat /\ outcome[latest].state = "open" /\ Written = n
      /\ outcome \in Seq(ResponseRecords) /\ outcome[latest] \in ResponseRecords /\ latest \in 1..Len(outcome)
  <2>1. stage = "write" /\ todo = <<>> /\ Len(todo) = 0
    BY EmptySeq DEF WriteDone
  <2>2. outcome \in Seq(ResponseRecords)
    BY DEF DownInv, WriterTypes
  <2>3. /\ latest \in Nat \ {0} /\ latest = Len(outcome) /\ Written \in Nat /\ Written + Len(todo) = n
        /\ outcome[latest].state = "open" /\ outcome[latest] \in ResponseRecords
    BY <2>1, NumberedFacts
  <2>. QED BY <2>1, <2>2, <2>3
<1>2. m \in Nat \ {0} /\ Tail(shape) \in Seq(Nat \ {0})
  BY HeadTailProperties DEF DownInv, WriterTypes
<1>3. /\ shape' = Tail(shape) /\ stage' = stage
      /\ todo' = [i \in 1..m |-> <<latest, n + i>>]
      /\ outcome' = [outcome EXCEPT ![latest].length = n + m]
  BY <1>1 DEF WriteDone
<1>. HIDE DEF n, m
<1>4. /\ outcome' \in Seq(ResponseRecords) /\ latest' = latest
      /\ outcome'[latest].state = "open" /\ outcome'[latest].length = n + m
      /\ \A k \in 1..latest : k # latest => outcome'[k] = outcome[k]
  <2>1. outcome[latest] = [state |-> "open", length |-> n]
    BY <1>1 DEF ResponseRecords, n
  <2>2. outcome' = [outcome EXCEPT ![latest] = [state |-> "open", length |-> n + m]]
    <3>1. outcome' = [outcome EXCEPT ![latest] = [outcome[latest] EXCEPT !.length = n + m]]
      BY <1>3
    <3>2. [outcome[latest] EXCEPT !.length = n + m] = [state |-> "open", length |-> n + m]
      BY <2>1
    <3>. QED BY <3>1, <3>2
  <2>3. "open" \in ResponseStates /\ n + m \in Nat /\ latest > 0
    BY <1>1, <1>2 DEF ResponseStates
  <2>. QED BY <1>1, <2>2, <2>3, RecordReplaced
<1>5. /\ todo' \in Seq(Octets) /\ Len(todo') = m
      /\ \A i \in 1..m : todo'[i] = <<latest, n + i>>
  BY <1>1, <1>2, <1>3, NumberedWrite
<1>6. Written' = Written
  <2>1. Written' = (n + m) - m
    BY <1>4, <1>5 DEF Written
  <2>. QED BY <1>1, <1>2, <2>1
<1>7. LineTypes' /\ Line' = Line /\ Sent' = Sent
  BY <1>5 DEF DownInv, LineTypes, WriteDone, linkage, Line, Sent
<1>8. WriterTypes'
  BY <1>1, <1>2, <1>3, <1>4, <1>5 DEF WriterTypes
<1>9. Stages'
  <2>1. \A k \in 1..latest : outcome'[k].state = "open" <=> outcome[k].state = "open"
    BY <1>1, <1>4
  <2>. QED BY <1>1, <1>3, <1>4, <2>1 DEF DownInv, Stages
<1>10. RestNumbered'
  BY <1>1, <1>4, <1>5, <1>6 DEF RestNumbered
<1>11. Complete' /\ NothingElse' /\ Closed' /\ Sorted(Line)'
  <2>1. Complete'
    BY <1>1, <1>4, <1>6, <1>7 DEF DownInv, Complete
  <2>2. NothingElse'
    BY <1>1, <1>4, <1>6, <1>7 DEF DownInv, NothingElse
  <2>. QED BY <1>7, <2>1, <2>2 DEF DownInv, Closed, Sorted
<1>. QED BY <1>7, <1>8, <1>9, <1>10, <1>11 DEF DownInv

\* The last one is made.
LEMMA LastWriteInv ==
  ASSUME DownInv, WriteDone, shape = <<>>
  PROVE  DownInv'
<1>1. stage = "write" /\ todo = <<>> /\ stage' = "flush" /\ UNCHANGED <<shape, todo, outcome, buf, datagrams, linkage>>
  BY DEF WriteDone
<1>2. UNCHANGED <<latest, Written, Line, Sent>>
  BY <1>1 DEF latest, Written, Line, Sent, linkage
<1>3. LineTypes' /\ WriterTypes' /\ Stages' /\ RestNumbered'
  BY <1>1, <1>2 DEF DownInv, LineTypes, WriterTypes, Stages, RestNumbered, linkage
<1>4. Complete' /\ NothingElse' /\ Closed' /\ Sorted(Line)'
  BY <1>1, <1>2 DEF DownInv, Complete, NothingElse, Closed, Sorted
<1>. QED BY <1>3, <1>4 DEF DownInv

\* The response ends: what has been written stays in the line.
LEMMA EndInv ==
  ASSUME DownInv, stage = "flush", NEW s \in {"flushed", "kept"}, Becomes(s), stage' = "idle",
         UNCHANGED <<shape, todo, dropped>>, LineTypes', Line' = Line
  PROVE  DownInv'
<1>1. /\ outcome \in Seq(ResponseRecords) /\ latest > 0 /\ latest \in Nat /\ latest \in 1..latest /\ s \in ResponseStates
      /\ todo = <<>> /\ shape \in Seq(Nat \ {0})
  <2>1. outcome \in Seq(ResponseRecords) /\ shape \in Seq(Nat \ {0}) /\ latest > 0 /\ todo = <<>> /\ s \in ResponseStates
    BY DEF DownInv, WriterTypes, Stages, ResponseStates
  <2>2. latest \in Nat
    BY <2>1, LenProperties DEF latest
  <2>. QED BY <2>1, <2>2
<1>2. /\ outcome' \in Seq(ResponseRecords) /\ latest' = latest
      /\ outcome'[latest].state = s /\ outcome'[latest].length = outcome[latest].length
      /\ \A k \in 1..latest : k # latest => outcome'[k] = outcome[k]
  BY <1>1, BecomesFacts
<1>3. Written' = Written /\ Sent' = Sent
  BY <1>2 DEF Written, Sent
<1>4. WriterTypes' /\ RestNumbered'
  BY <1>1, <1>2, <1>3 DEF DownInv, WriterTypes, RestNumbered
<1>5. Stages'
  BY <1>1, <1>2 DEF DownInv, Stages
<1>6. Complete'
  <2>1. outcome[latest].state # "short"
    BY <1>1 DEF DownInv, Stages
  <2>. QED BY <1>1, <1>2, <1>3, <2>1 DEF DownInv, Complete
<1>7. NothingElse'
  BY <1>1, <1>2, <1>3 DEF DownInv, NothingElse
<1>8. Closed' /\ Sorted(Line)'
  BY <1>3 DEF DownInv, Closed, Sorted
<1>. QED BY <1>4, <1>5, <1>6, <1>7, <1>8 DEF DownInv

\* The buffer becomes the last datagram.
LEMMA FlushInv ==
  ASSUME DownInv, Flush
  PROVE  DownInv'
<1>1. /\ down \in Seq(Octets) /\ held \in Seq(Octets) /\ buf \in Seq(Octets) /\ todo \in Seq(Octets)
      /\ datagrams \in Seq(Seq(Octets)) /\ <<>> \in Seq(Octets) /\ Len(<<>>) = 0
  BY EmptySeq DEF DownInv, LineTypes
<1>2. datagrams' \in Seq(Seq(Octets))
  BY <1>1, AppendProperties DEF Flush
<1>3. LineTypes'
  BY <1>1, <1>2, DownlinkAssumption DEF DownInv, LineTypes, Flush, linkage
<1>4. FlattenSeq(datagrams') = FlattenSeq(datagrams) \o buf
  <2>1. CASE buf = <<>>
    <3>1. FlattenSeq(datagrams) \in Seq(Octets)
      BY <1>1, FlattenAppend
    <3>. QED BY <2>1, <3>1, ConcatEmptySeq DEF Flush
  <2>2. CASE buf # <<>>
    BY <1>1, <2>2, FlattenAppend DEF Flush
  <2>. QED BY <2>1, <2>2
<1>5. Line' = Line
  <2>. DEFINE a == down \o (IF handed THEN <<>> ELSE held)
              f == FlattenSeq(datagrams)
  <2>1. a \in Seq(Octets) /\ f \in Seq(Octets) /\ buf \in Seq(Octets) /\ (a \o f) \o buf \in Seq(Octets)
    BY LineFacts, JoinedIn DEF DownInv
  <2>2. Line' = (a \o (f \o buf)) \o <<>> /\ Line = (a \o f) \o buf
    BY <1>4 DEF Line, Flush, linkage
  <2>. HIDE DEF a, f
  <2>3. a \o (f \o buf) = (a \o f) \o buf
    BY <2>1, JoinedTwice
  <2>4. ((a \o f) \o buf) \o <<>> = (a \o f) \o buf
    BY <2>1, ConcatEmptySeq
  <2>. QED BY <2>2, <2>3, <2>4
<1>. QED BY <1>3, <1>5, EndInv DEF Flush, linkage

\* It stays in the buffer.
LEMMA FlushTimeoutInv ==
  ASSUME DownInv, FlushTimeout
  PROVE  DownInv'
<1>1. LineTypes' /\ Line' = Line
  BY DEF DownInv, LineTypes, Line, FlushTimeout, linkage
<1>. QED BY <1>1, EndInv DEF FlushTimeout, linkage

----------------------------------------------------------------------------
(* The steps of GNDSTN_LINK move the border between the parts of the line. *)

LEMMA ReceiveDatagramInv ==
  ASSUME DownInv, ReceiveDatagram
  PROVE  DownInv'
<1>1. /\ down \in Seq(Octets) /\ buf \in Seq(Octets) /\ datagrams \in Seq(Seq(Octets)) /\ datagrams # <<>>
      /\ held = <<>> /\ ~handed
  BY DEF DownInv, LineTypes, ReceiveDatagram
<1>2. /\ Head(datagrams) \in Seq(Octets) /\ Tail(datagrams) \in Seq(Seq(Octets))
      /\ FlattenSeq(datagrams) = Head(datagrams) \o FlattenSeq(Tail(datagrams))
      /\ FlattenSeq(Tail(datagrams)) \in Seq(Octets)
  BY <1>1, FlattenHead, FlattenAppend
<1>3. LineTypes'
  BY <1>1, <1>2 DEF DownInv, LineTypes, ReceiveDatagram, client
<1>4. Line' = Line
  <2>. DEFINE h == Head(datagrams)
              f == FlattenSeq(Tail(datagrams))
  <2>1. h \in Seq(Octets) /\ f \in Seq(Octets)
    BY <1>2
  <2>2. Line' = ((down \o h) \o f) \o buf
    BY <1>1 DEF Line, ReceiveDatagram, client
  <2>3. Line = ((down \o <<>>) \o (h \o f)) \o buf
    BY <1>1, <1>2 DEF Line
  <2>. HIDE DEF h, f
  <2>4. down \o <<>> = down
    BY <1>1, ConcatEmptySeq
  <2>5. down \o (h \o f) = (down \o h) \o f
    BY <1>1, <2>1, JoinedTwice
  <2>. QED BY <2>2, <2>3, <2>4, <2>5
<1>. QED BY <1>3, <1>4, LineKept DEF ReceiveDatagram

LEMMA HandInv ==
  ASSUME DownInv, Hand
  PROVE  DownInv'
<1>1. down \in Seq(Octets) /\ held \in Seq(Octets) /\ down \o held \in Seq(Octets)
  BY LineFacts, JoinedIn DEF DownInv
<1>2. LineTypes'
  BY <1>1 DEF DownInv, LineTypes, Hand, client
<1>3. Line' = (((down \o held) \o <<>>) \o FlattenSeq(datagrams)) \o buf
  BY DEF Line, Hand, client
<1>4. Line = ((down \o held) \o FlattenSeq(datagrams)) \o buf
  BY DEF Line, Hand
<1>5. (down \o held) \o <<>> = down \o held
  BY <1>1, ConcatEmptySeq
<1>. QED BY <1>2, <1>3, <1>4, <1>5, LineKept DEF Hand

\* The datagram's bytes leave the line for what is dropped.
LEMMA HandFailsInv ==
  ASSUME DownInv, HandFails
  PROVE  DownInv'
<1>1. PICK f \in Seq(Octets) : f = FlattenSeq(datagrams)
  BY LineFacts DEF DownInv
<1>2. down \in Seq(Octets) /\ held \in Seq(Octets) /\ buf \in Seq(Octets) /\ <<>> \in Seq(Octets)
      /\ f \in Seq(Octets) /\ ToSet(held) \subseteq Octets
  BY <1>1, LineFacts, ToSetFacts DEF DownInv
<1>3. LineTypes'
  BY <1>2 DEF DownInv, LineTypes, HandFails, client
<1>4. f \o buf \in Seq(Octets) /\ down \o held \in Seq(Octets) /\ down \o f \in Seq(Octets)
  BY <1>2, JoinedIn
<1>5. Line = (down \o held) \o (f \o buf)
  <2>1. Line = ((down \o held) \o f) \o buf
    BY <1>1 DEF Line, HandFails
  <2>2. ((down \o held) \o f) \o buf = (down \o held) \o (f \o buf)
    BY <1>2, <1>4, JoinedTwice
  <2>. QED BY <2>1, <2>2
<1>6. Line' = down \o (f \o buf)
  <2>1. Line' = ((down \o <<>>) \o f) \o buf
    BY <1>1 DEF Line, HandFails, client
  <2>2. down \o <<>> = down
    BY <1>2, ConcatEmptySeq
  <2>3. (down \o f) \o buf = down \o (f \o buf)
    BY <1>2, JoinedTwice
  <2>. QED BY <2>1, <2>2, <2>3
<1>7. Sorted(Line)'
  <2>1. Sorted((down \o held) \o (f \o buf))
    BY <1>5 DEF DownInv
  <2>2. Sorted(down \o (f \o buf))
    BY <1>2, <1>4, <2>1, SortedWithout
  <2>. QED BY <1>6, <2>2 DEF Sorted
<1>8. Sent' = Sent
  <2>1. ToSet(down \o held) = ToSet(down) \cup ToSet(held)
    BY <1>2, ConcatSet
  <2>2. ToSet((down \o held) \o (f \o buf)) = ToSet(down \o held) \cup ToSet(f \o buf)
    BY <1>4, ConcatSet
  <2>3. ToSet(down \o (f \o buf)) = ToSet(down) \cup ToSet(f \o buf)
    BY <1>2, <1>4, ConcatSet
  <2>4. dropped' = dropped \cup ToSet(held)
    BY DEF HandFails
  <2>. QED BY <1>5, <1>6, <2>1, <2>2, <2>3, <2>4 DEF Sent
<1>. QED BY <1>3, <1>7, <1>8, SentKept DEF HandFails

LEMMA ServiceAnswersInv ==
  ASSUME DownInv, ServiceAnswers
  PROVE  DownInv'
<1>1. LineTypes' /\ Line' = Line
  BY EmptySeq DEF DownInv, LineTypes, Line, ServiceAnswers, client
<1>. QED BY <1>1, LineKept DEF ServiceAnswers

----------------------------------------------------------------------------
(* The theorems.                                                          *)

LEMMA DownInvInit == DownInit => DownInv
<1>. SUFFICES ASSUME DownInit PROVE DownInv
  OBVIOUS
<1>1. /\ stage = "idle" /\ shape = <<>> /\ todo = <<>> /\ buf = <<>> /\ datagrams = <<>>
      /\ held = <<>> /\ handed = FALSE /\ outcome = <<>> /\ down = <<>> /\ dropped = {}
  BY DEF DownInit
<1>2. \A S : <<>> \in Seq(S) /\ Len(<<>>) = 0
  BY EmptySeq
<1>3. Line = <<>>
  <2>1. Line = ((<<>> \o <<>>) \o <<>>) \o <<>>
    BY <1>1, FlattenEmpty DEF Line
  <2>2. <<>> \o <<>> = <<>>
    BY <1>2, ConcatEmptySeq
  <2>. QED BY <2>1, <2>2
<1>4. Sent = {}
  <2>1. <<>> \in Seq(Octets) /\ Range(<<>>) = {}
    BY <1>2, EmptyFacts
  <2>2. ToSet(<<>>) = {}
    BY <2>1, ToSetFacts
  <2>. QED BY <1>1, <1>3, <2>2 DEF Sent
<1>5. latest = 0
  BY <1>1, <1>2 DEF latest
<1>6. LineTypes /\ WriterTypes
  <2>1. LineTypes
    <3>1. down \in Seq(Octets) /\ held \in Seq(Octets) /\ buf \in Seq(Octets) /\ todo \in Seq(Octets)
          /\ datagrams \in Seq(Seq(Octets)) /\ Len(buf) = 0
      BY <1>1, <1>2
    <3>2. dropped \subseteq Octets /\ handed = FALSE /\ 0 <= Size
      BY <1>1, DownlinkAssumption
    <3>. QED BY <3>1, <3>2 DEF LineTypes
  <2>2. WriterTypes
    BY <1>1, <1>2, <1>5 DEF WriterTypes
  <2>. QED BY <2>1, <2>2
<1>7. Stages /\ RestNumbered /\ Complete /\ NothingElse /\ Closed
  BY <1>1, <1>2, <1>4, <1>5 DEF Stages, RestNumbered, Complete, NothingElse, Closed
<1>8. Sorted(Line)
  BY <1>2, <1>3 DEF Sorted
<1>. QED BY <1>6, <1>7, <1>8 DEF DownInv

LEMMA DownInvStep == DownInv /\ [DownNext]_down_vars => DownInv'
<1>. SUFFICES ASSUME DownInv, [DownNext]_down_vars PROVE DownInv'
  OBVIOUS
<1>1. CASE Begin BY <1>1, BeginInv
<1>2. CASE Copy BY <1>2, CopyInv
<1>3. CASE SendFull BY <1>3, SendFullInv
<1>4. CASE WriteTimeout BY <1>4, WriteTimeoutInv
<1>5. CASE WriteDone BY <1>5, NextWriteInv, LastWriteInv
<1>6. CASE Flush BY <1>6, FlushInv
<1>7. CASE FlushTimeout BY <1>7, FlushTimeoutInv
<1>8. CASE ReceiveDatagram BY <1>8, ReceiveDatagramInv
<1>9. CASE Hand BY <1>9, HandInv
<1>10. CASE HandFails BY <1>10, HandFailsInv
<1>11. CASE ServiceAnswers BY <1>11, ServiceAnswersInv
<1>12. CASE UNCHANGED down_vars
  <2>1. LineTypes' /\ Line' = Line /\ dropped' = dropped /\ UNCHANGED client
    BY <1>12 DEF down_vars, client, linkage, DownInv, LineTypes, Line
  <2>. QED BY <2>1, LineKept
<1>. QED BY <1>1, <1>2, <1>3, <1>4, <1>5, <1>6, <1>7, <1>8, <1>9, <1>10, <1>11, <1>12
         DEF DownNext, Writer, Link

\* Where each byte of each response is, whatever times out and whatever the service refuses.
THEOREM AlwaysDownInv == DownSpec => []DownInv
  BY DownInvInit, DownInvStep, PTL DEF DownSpec

\* Bytes go down in the order in which cmd_sys.c wrote them, none twice, whatever a write or a flush
\* that timed out has left in the buffer.
THEOREM InOrderCorrect == DownSpec => []InOrder
<1>1. DownInv => InOrder
  <2>1. SUFFICES ASSUME DownInv, NEW i \in 1..Len(Line) - 1 PROVE Before(Line[i], Line[i + 1])
    BY DEF InOrder
  <2>. QED BY <2>1, LineFacts, SortedNeighbours DEF DownInv
<1>. QED BY <1>1, AlwaysDownInv, PTL

\* Of a response whose writes succeeded every byte is down or on its way, or the service refused its
\* datagram, also when nobody looked at the flush that failed.
THEOREM NothingVanishesCorrect == DownSpec => []NothingVanishes
<1>1. DownInv => NothingVanishes
  <2>1. SUFFICES ASSUME DownInv, NEW k \in 1..latest, outcome[k].state \in {"flushed", "kept"},
                        NEW n \in 1..outcome[k].length
                 PROVE  <<k, n>> \in Sent
    BY DEF NothingVanishes, Sent
  <2>2. outcome[k].state # "short"
    BY <2>1
  <2>3. CASE k # latest
    BY <2>1, <2>2, <2>3 DEF DownInv, Complete
  <2>4. CASE k = latest
    <3>1. stage = "idle" /\ todo = <<>>
      BY <2>1, <2>4 DEF DownInv, Stages
    <3>2. outcome[latest].length \in Nat /\ Len(todo) = 0
      <4>1. outcome \in Seq(ResponseRecords) /\ latest \in 1..Len(outcome)
        BY <2>1, <2>4 DEF DownInv, WriterTypes, latest
      <4>2. outcome[latest] \in ResponseRecords
        BY <4>1, ElementOfSeq
      <4>. QED BY <3>1, <4>2, EmptySeq DEF ResponseRecords
    <3>3. n \in 1..Written
      BY <2>1, <2>4, <3>2 DEF Written
    <3>. QED BY <2>1, <2>2, <2>4, <3>3 DEF DownInv, Complete
  <2>. QED BY <2>3, <2>4
<1>. QED BY <1>1, AlwaysDownInv, PTL

\* What is sent of a response that was cut short is its beginning.
THEOREM NoGapCorrect == DownSpec => []NoGap
<1>1. DownInv => NoGap
  BY DEF DownInv, Closed, Sent, NoGap
<1>. QED BY <1>1, AlwaysDownInv, PTL
=============================================================================
