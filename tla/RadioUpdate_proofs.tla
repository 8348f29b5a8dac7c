------------------------- MODULE RadioUpdate_proofs -------------------------
(***************************************************************************)
(* What a firmware update of the radio can rely on, for any number of      *)
(* pages, updates, other commands and faults and any lengths of the queue  *)
(* and the link: the radio runs nothing that is not signed, and an update  *)
(* reported as done is in its flash as a whole.                            *)
(*                                                                         *)
(* The second holds until crossed (see NeverMixed), by this argument.      *)
(* While no command is refused by the queue each command has a number of   *)
(* its own, the link keeps their order, and the buffer holds the last one: *)
(* an answer with its number can only be its own, and nothing older is on  *)
(* the way to the radio behind it.  While no semaphore is given between    *)
(* two commands, each wait of the update ends with the answer to its own   *)
(* command, or with a failure.  So the last page has been written when     *)
(* FINAL is sent, and nothing is erased after it; and what FINAL finds     *)
(* signed is then that image, with nothing left that could change it.      *)
(***************************************************************************)
EXTENDS RadioUpdate, TLAPS

Elems(s) == {s[i] : i \in 1..Len(s)}

LEMMA ElemsEmpty == Elems(<<>>) = {}
  BY DEF Elems

LEMMA ElemsIn ==
  ASSUME NEW S, NEW s \in Seq(S)
  PROVE  Elems(s) \subseteq S
  BY DEF Elems

LEMMA ElemsAppend ==
  ASSUME NEW S, NEW s \in Seq(S), NEW e \in S
  PROVE  Elems(Append(s, e)) = Elems(s) \cup {e}
  BY DEF Elems

LEMMA ElemsTail ==
  ASSUME NEW S, NEW s \in Seq(S), s # <<>>
  PROVE  /\ Elems(Tail(s)) \subseteq Elems(s)
         /\ Head(s) \in Elems(s)
  BY DEF Elems

-----------------------------------------------------------------------------
\* Types.

Cmds ==
  {c \in [name : {"other", "reboot", "erase", "write", "final"}, page : 0..Pages,
          image : Images, len : Nat, seq : Nat] : c.name = "write" => c.page \in PageNumbers}

Msgs == [name : {"reply", "boot", "app"}, ok : BOOLEAN, seq : Nat]

Typed ==
  /\ TypeOK
  /\ cmd_buf \in Cmds /\ seqnum \in Nat
  /\ down \in Seq(Cmds) /\ up \in Seq(Msgs)
  /\ updates \in Images /\ crossed \in BOOLEAN
  /\ fwup_state \in {"begin", "erase"} => page_count = 0
  /\ fwup_state = "write" => page_count < Pages

LEMMA InitTyped == Init => Typed
<1> SUFFICES ASSUME Init PROVE Typed
  OBVIOUS
<1>1. cmd_buf \in Cmds /\ updates \in Images
  BY UpdateAssumption DEF Init, Cmds, Images
<1>2. flash \in [PageNumbers -> SUBSET (0..Torn)]
  BY UpdateAssumption DEF Init, Torn
<1>3. queued \in 0..QueueLength /\ page_count \in 0..Pages
  BY UpdateAssumption DEF Init
<1>4. TypeOK
  BY <1>2, <1>3 DEF Init, TypeOK
<1>5. /\ seqnum \in Nat /\ crossed \in BOOLEAN
      /\ fwup_state \notin {"begin", "erase", "write"}
  BY DEF Init
<1>6. down \in Seq(Cmds) /\ up \in Seq(Msgs)
  BY DEF Init
<1>7. QED
  BY <1>1, <1>4, <1>5, <1>6 DEF Typed

LEMMA ImageInPage ==
  ASSUME NEW c \in Cmds
  PROVE  c.image \in 0..Torn /\ Torn \in 0..Torn
<1>1. c.image \in 0..MaxUpdates
  BY DEF Cmds, Images
<1>2. Torn \in Nat /\ 0..MaxUpdates \subseteq 0..Torn
  BY UpdateAssumption DEF Torn
<1>3. QED
  BY <1>1, <1>2

LEMMA CommandTyped ==
  ASSUME Typed, NEW name \in {"other", "reboot", "erase", "write", "final"},
         NEW page \in 0..Pages, NEW len \in Nat,
         name = "write" => page \in PageNumbers
  PROVE  Command(name, page, len) \in Cmds
  BY UpdateAssumption DEF Command, Typed, Cmds, Images

LEMMA SendCmdTyped ==
  ASSUME Typed, NEW session \in {"update", "other"},
         NEW name \in {"other", "reboot", "erase", "write", "final"},
         NEW page \in 0..Pages, NEW payload \in Nat,
         name = "write" => page \in PageNumbers,
         SendCmd(session, name, page, payload)
  PROVE  /\ cmd_buf' \in Cmds /\ seqnum' \in Nat /\ queued' \in 0..QueueLength
         /\ cmd_timer' \in BOOLEAN /\ crossed' \in BOOLEAN
         /\ active_session' \in {"update", "other"} /\ pending' \subseteq {"update", "other"}
<1>1. cmd_buf.len \in Nat
  BY DEF Typed, Cmds
<1>2. cmd_buf' \in Cmds
  BY <1>1, CommandTyped DEF SendCmd
<1>3. queued' \in 0..QueueLength /\ seqnum' \in Nat
  BY UpdateAssumption DEF SendCmd, Typed, TypeOK
<1>4. cmd_timer' \in BOOLEAN /\ crossed' \in BOOLEAN
  BY DEF SendCmd, Typed, TypeOK
<1>5. active_session' \in {"update", "other"} /\ pending' \subseteq {"update", "other"}
  BY DEF SendCmd, Typed, TypeOK
<1>6. QED
  BY <1>2, <1>3, <1>4, <1>5

LEMMA PostTyped ==
  ASSUME Typed, NEW msg \in Msgs, Post(msg)
  PROVE  up' \in Seq(Msgs)
  BY DEF Post, Typed

LEMMA AnswerTyped ==
  ASSUME Typed, down # <<>>, NEW ok \in BOOLEAN, Answer(ok)
  PROVE  up' \in Seq(Msgs)
<1>1. Head(down) \in Cmds
  BY DEF Typed
<1>2. Reply(ok, Head(down).seq) \in Msgs
  BY <1>1 DEF Reply, Cmds, Msgs
<1>3. QED
  BY <1>2, PostTyped DEF Answer

LEMMA UserTyped ==
  ASSUME Typed, User \/ Updater
  PROVE  Typed'
<1>1. CASE OtherCommand
  <2>1. PICK payload \in {0, Long} : SendCmd("other", "other", 0, payload)
    BY <1>1 DEF OtherCommand
  <2>2. payload \in Nat /\ 0 \in 0..Pages
    BY UpdateAssumption DEF Long
  <2>3. QED
    BY <1>1, <2>1, <2>2, SendCmdTyped DEF OtherCommand, Typed, TypeOK, update, link, radio
<1>2. CASE StartUpdate
  <2>1. updates' \in Images /\ page_count' \in 0..Pages
    BY <1>2, UpdateAssumption DEF StartUpdate, Typed, Images
  <2>2. QED
    BY <1>2, <2>1 DEF StartUpdate, Typed, TypeOK, manager, link, radio
<1>3. CASE SendStep
  <2>1. PICK name \in {"reboot", "erase", "write", "final"}, page \in 0..Pages, payload \in Nat :
          /\ SendCmd("update", name, page, payload)
          /\ name = "write" => page \in PageNumbers
    BY <1>3, UpdateAssumption DEF SendStep, Typed, TypeOK, PageNumbers, Byte, Long
  <2>2. /\ cmd_buf' \in Cmds /\ seqnum' \in Nat /\ queued' \in 0..QueueLength
        /\ cmd_timer' \in BOOLEAN /\ crossed' \in BOOLEAN
        /\ active_session' \in {"update", "other"} /\ pending' \subseteq {"update", "other"}
    BY <2>1, SendCmdTyped
  <2>3. /\ UNCHANGED <<result, draining, rfc_state, down, up, mode, flash, updates>>
        /\ \/ at' = "wait" /\ UNCHANGED <<fwup_state, page_count, told, cmd_sema>>
           \/ EndUpdate("failed")
    BY <1>3 DEF SendStep, link, radio, bounds
  <2>4. page_count' \in 0..Pages
    BY <2>3, UpdateAssumption DEF EndUpdate, Typed, TypeOK
  <2>5. QED
    BY <2>2, <2>3, <2>4 DEF EndUpdate, Typed, TypeOK
<1>4. CASE Answered \/ AnswerTimeout
  <2>1. /\ UNCHANGED <<cmd_buf, seqnum, cmd_timer, active_session, pending, result,
                       queued, draining, rfc_state, down, up, mode, flash, updates, crossed>>
        /\ Advance \/ \E outcome \in {"ok", "failed"} : EndUpdate(outcome)
    BY <1>4 DEF Answered, AnswerTimeout, manager, link, radio, bounds
  <2>2. CASE Advance
    <3>1. /\ page_count' \in 0..Pages
          /\ fwup_state' \in {"erase", "write", "final"}
          /\ fwup_state' = "erase" => page_count' = 0
          /\ fwup_state' = "write" => page_count' < Pages
      <4>1. page_count \in 0..Pages /\ Pages \in Nat \ {0}
        BY UpdateAssumption DEF Typed, TypeOK
      <4>2. CASE fwup_state = "begin"
        BY <2>2, <4>1, <4>2 DEF Advance, Typed
      <4>3. CASE fwup_state = "erase"
        BY <2>2, <4>1, <4>3 DEF Advance, Typed
      <4>4. CASE fwup_state = "write"
        <5>1. page_count < Pages /\ page_count' = page_count + 1
          BY <2>2, <4>4 DEF Advance, Typed
        <5>2. fwup_state' = IF page_count + 1 < Pages THEN "write" ELSE "final"
          BY <2>2, <4>4 DEF Advance
        <5>3. QED
          BY <4>1, <5>1, <5>2
      <4>5. CASE fwup_state \in {"none", "final"}
        BY <2>2, <4>1, <4>5 DEF Advance
      <4>6. QED
        BY <4>2, <4>3, <4>4, <4>5 DEF Typed, TypeOK
    <3>2. QED
      <4>1. at' = "send" /\ cmd_sema' = FALSE /\ told' = told
        BY <2>2 DEF Advance
      <4>2. TypeOK'
        BY <2>1, <3>1, <4>1 DEF Typed, TypeOK
      <4>3. QED
        BY <2>1, <3>1, <4>2 DEF Typed
  <2>3. CASE \E outcome \in {"ok", "failed"} : EndUpdate(outcome)
    <3>1. page_count' \in 0..Pages
      BY <2>3, UpdateAssumption DEF EndUpdate
    <3>2. QED
      BY <2>1, <2>3, <3>1 DEF EndUpdate, Typed, TypeOK
  <2>4. QED
    BY <2>1, <2>2, <2>3
<1>5. QED
  BY <1>1, <1>2, <1>3, <1>4 DEF User, Updater

LEMMA FinishTyped ==
  ASSUME Typed, Finish
  PROVE  /\ cmd_timer' \in BOOLEAN /\ cmd_sema' \in BOOLEAN /\ crossed' \in BOOLEAN
         /\ pending' \subseteq {"update", "other"}
  BY DEF Finish, Typed, TypeOK

LEMMA ManagerTyped ==
  ASSUME Typed, Manager \/ TimerExpires
  PROVE  Typed'
<1>1. CASE Transmit
  <2>1. queued' \in 0..QueueLength
    BY <1>1, UpdateAssumption DEF Transmit, MaySend, Typed, TypeOK
  <2>2. draining' \in BOOLEAN
    BY <1>1 DEF Transmit
  <2>3. down' \in Seq(Cmds)
    BY <1>1 DEF Transmit, Typed
  <2>4. QED
    BY <1>1, <2>1, <2>2, <2>3 DEF Transmit, Typed, TypeOK, update, service, radio, bounds
<1>2. CASE TransmitFails
  <2>1. queued' \in 0..QueueLength
    BY <1>2, UpdateAssumption DEF TransmitFails, MaySend, Typed, TypeOK
  <2>2. draining' \in BOOLEAN
    BY <1>2 DEF TransmitFails
  <2>3. QED
    BY <1>2, <2>1, <2>2 DEF TransmitFails, CommandFails, Finish, Typed, TypeOK, update, link, radio
<1>3. CASE TimerExpires
  <2>1. UNCHANGED <<update, cmd_buf, seqnum, active_session, manager, link, radio, bounds>>
    BY <1>3 DEF TimerExpires
  <2>2. Finish /\ result' \in BOOLEAN
    BY <1>3 DEF TimerExpires, CommandFails
  <2>3. QED
    BY <2>1, <2>2, FinishTyped DEF Typed, TypeOK, update, manager, link, radio, bounds
<1>4. CASE Receive
  <2>1. Head(up) \in Msgs /\ up' \in Seq(Msgs)
    BY <1>4 DEF Receive, Typed
  <2>2. result' \in BOOLEAN
    BY <1>4, <2>1 DEF Receive, Typed, TypeOK, Msgs
  <2>3. QED
    <3>1. /\ cmd_timer' \in BOOLEAN /\ cmd_sema' \in BOOLEAN /\ crossed' \in BOOLEAN
          /\ pending' \subseteq {"update", "other"}
      BY <1>4, FinishTyped DEF Receive, Typed, TypeOK
    <3>2. /\ UNCHANGED <<update, cmd_buf, seqnum, active_session, queued, draining, down,
                         radio, bounds>>
          /\ rfc_state' \in {"init", "ready"}
      BY <1>4 DEF Receive
    <3>3. QED
      BY <2>1, <2>2, <3>1, <3>2 DEF Typed, TypeOK, update, radio, bounds
<1>5. QED
  BY <1>1, <1>2, <1>3, <1>4 DEF Manager

LEMMA RadioTyped ==
  ASSUME Typed, Radio \/ RadioReset \/ Lose
  PROVE  Typed'
<1>1. /\ UNCHANGED <<update, service, manager, updates, crossed>>
      /\ down' \in Seq(Cmds) /\ up' \in Seq(Msgs)
      /\ mode' \in {"boot", "app", "reset"}
      /\ flash' \in [PageNumbers -> SUBSET (0..Torn)]
  <2>1. CASE BootCommand
    <3>1. Head(down) \in Cmds /\ Tail(down) \in Seq(Cmds)
      BY <2>1 DEF BootCommand, Typed
    <3>2. up' \in Seq(Msgs)
      BY <2>1, AnswerTyped DEF BootCommand, Typed
    <3>3. flash' \in [PageNumbers -> SUBSET (0..Torn)]
      <4>1. flash \in [PageNumbers -> SUBSET (0..Torn)]
        BY DEF Typed, TypeOK
      <4>2. Head(down).image \in 0..Torn
        BY <3>1, ImageInPage
      <4>3. \/ UNCHANGED flash
            \/ flash' = [p \in PageNumbers |-> {}]
            \/ flash' = [flash EXCEPT ![Head(down).page] = @ \cup {Head(down).image}]
        BY <2>1 DEF BootCommand
      <4>4. QED
        BY <4>1, <4>2, <4>3
    <3>4. QED
      BY <2>1, <3>1, <3>2, <3>3 DEF BootCommand, Typed, TypeOK, bounds
  <2>2. CASE AppCommand
    <3>1. up' \in Seq(Msgs)
      BY <2>2, AnswerTyped DEF AppCommand, Typed
    <3>2. down' \in Seq(Cmds) /\ mode' \in {"boot", "app", "reset"}
      <4>1. down' \in Seq(Cmds)
        BY <2>2 DEF AppCommand, Typed
      <4>2. mode' \in {"boot", "app", "reset"}
        BY <2>2 DEF AppCommand, Typed, TypeOK
      <4>3. QED
        BY <4>1, <4>2
    <3>3. QED
      BY <2>2, <3>1, <3>2 DEF AppCommand, Typed, TypeOK, bounds
  <2>3. CASE BootApplication \/ Reboot
    <3>1. Start("app") \in Msgs /\ Start("boot") \in Msgs /\ <<>> \in Seq(Cmds)
      BY DEF Start, Msgs
    <3>2. QED
      BY <2>3, <3>1, PostTyped DEF BootApplication, Reboot, Typed, TypeOK, link, bounds
  <2>4. CASE RadioReset
    <3>1. flash' \in [PageNumbers -> SUBSET (0..Torn)]
      <4>1. CASE UNCHANGED flash
        BY <4>1 DEF Typed, TypeOK
      <4>2. CASE \E n \in PageNumbers :
             flash' = [p \in PageNumbers |->
                         IF p < n THEN {} ELSE IF p = n THEN flash[p] \cup {Torn} ELSE flash[p]]
        BY <4>2, UpdateAssumption DEF Typed, TypeOK, Torn
      <4>3. CASE /\ down # <<>> /\ Head(down).name = "write"
                 /\ flash' = [flash EXCEPT ![Head(down).page] = @ \cup {Head(down).image, Torn}]
        <5>1. Head(down) \in Cmds
          BY <4>3 DEF Typed
        <5>2. QED
          <6>1. Head(down).image \in 0..Torn /\ Torn \in 0..Torn
            BY <5>1, ImageInPage
          <6>2. flash \in [PageNumbers -> SUBSET (0..Torn)]
            BY DEF Typed, TypeOK
          <6>3. QED
            BY <4>3, <6>1, <6>2
      <4>4. QED
        BY <2>4, <4>1, <4>2, <4>3 DEF RadioReset
    <3>2. QED
      BY <2>4, <3>1 DEF RadioReset, Typed, TypeOK
  <2>5. CASE Lose
    <3>1. down' \in Seq(Cmds) /\ up' \in Seq(Msgs)
      <4>1. down # <<>> => Tail(down) \in Seq(Cmds)
        BY DEF Typed
      <4>2. up # <<>> => Tail(up) \in Seq(Msgs)
        BY DEF Typed
      <4>3. QED
        BY <2>5, <4>1, <4>2 DEF Lose, Typed
    <3>2. QED
      BY <2>5, <3>1 DEF Lose, Typed, TypeOK, radio
  <2>6. QED
    BY <2>1, <2>2, <2>3, <2>4, <2>5 DEF Radio
<1>2. QED
  BY <1>1 DEF Typed, TypeOK, update, service, manager

LEMMA NextTyped == Typed /\ [Next]_vars => Typed'
<1> SUFFICES ASSUME Typed, [Next]_vars PROVE Typed'
  OBVIOUS
<1>1. CASE UNCHANGED vars
  BY <1>1 DEF Typed, TypeOK, vars, update, service, manager, link, radio, bounds
<1>2. QED
  BY <1>1, UserTyped, ManagerTyped, RadioTyped DEF Next

\* Every variable has its type, whatever happens: no page outside the image is written.
THEOREM TypeCorrect == Spec => []TypeOK
<1>1. Typed => TypeOK
  BY DEF Typed
<1>2. QED
  BY InitTyped, NextTyped, <1>1, PTL DEF Spec

-----------------------------------------------------------------------------
\* The radio runs nothing but a complete image, whatever is lost or reset: its flash changes in
\* the bootloader only, and the bootloader looks at the signature when it leaves.
THEOREM RunsSignedCorrect == Spec => []RunsSigned
<1>1. Init => RunsSigned
  BY UpdateAssumption DEF Init, RunsSigned, Signed, Images
<1>2. RunsSigned /\ [Next]_vars => RunsSigned'
  <2> SUFFICES ASSUME RunsSigned, [Next]_vars, mode' = "app" PROVE Signed(flash)'
    BY DEF RunsSigned
  <2>1. CASE UNCHANGED <<mode, flash>>
    BY <2>1 DEF RunsSigned, Signed
  <2>2. CASE User \/ Updater
    BY <2>1, <2>2 DEF User, Updater, OtherCommand, StartUpdate, SendStep, Answered, AnswerTimeout, radio
  <2>3. CASE Manager \/ TimerExpires
    BY <2>1, <2>3 DEF Manager, Transmit, TransmitFails, Receive, TimerExpires, radio
  <2>4. CASE BootCommand
    BY <2>4, <2>1 DEF BootCommand
  <2>5. CASE AppCommand
    BY <2>5, <2>1 DEF AppCommand, RunsSigned, Signed
  <2>6. CASE BootApplication
    BY <2>6 DEF BootApplication, Signed
  <2>7. CASE Reboot \/ RadioReset
    BY <2>7 DEF Reboot, RadioReset
  <2>8. CASE Lose
    BY <2>1, <2>8 DEF Lose, radio
  <2>9. CASE UNCHANGED vars
    BY <2>1, <2>9 DEF vars, radio
  <2>10. QED
    BY <2>2, <2>3, <2>4, <2>5, <2>6, <2>7, <2>8, <2>9 DEF Next, Radio
<1>3. QED
  BY <1>1, <1>2, PTL DEF Spec

-----------------------------------------------------------------------------
\* An update that was reported as done.

\* Nothing on the way to the radio, or in the queue, erases its flash; or changes it at all.
NoErase ==
  /\ \A c \in Elems(down) : c.name # "erase"
  /\ queued > 0 => cmd_buf.name # "erase"

Quiet ==
  /\ \A c \in Elems(down) : c.name \notin {"erase", "write"}
  /\ queued > 0 => cmd_buf.name \notin {"erase", "write"}

\* Each command has a number of its own, they arrive in order, and the last one is in the buffer.
Numbered ==
  /\ seqnum <= cmd_buf.seq + 1
  /\ queued > 0 => cmd_buf.seq < seqnum
  /\ \A c \in Elems(down) : c.seq < seqnum /\ (c.seq = cmd_buf.seq => c = cmd_buf)
  /\ \A i, j \in 1..Len(down) : i < j => down[i].seq <= down[j].seq
  /\ \A m \in Elems(up) : m.name = "reply" => m.seq < seqnum

\* What the radio has done when it accepts the command c.
Done(c) ==
  /\ c.name = "write" => c.image \in flash[c.page] /\ NoErase
  /\ c.name = "final" => Signed(flash) /\ Quiet

Confirmed ==
  \A m \in Elems(up) : m.name = "reply" /\ m.ok /\ m.seq = cmd_buf.seq => Done(cmd_buf)

\* The semaphore is the update's between its commands.
Alone ==
  /\ fwup_state # "none" /\ at = "send" => ~cmd_sema
  /\ fwup_state = "none" => at = "send"

\* The command the update waits for is in the buffer.
Mine ==
  /\ active_session = "update" /\ ~cmd_sema
  /\ fwup_state = "write" =>
       cmd_buf.name = "write" /\ cmd_buf.page = page_count + 1 /\ cmd_buf.image = updates
  /\ fwup_state = "final" => cmd_buf.name = "final"

\* What a success of the step of the update says.
Success ==
  /\ fwup_state = "write" => updates \in flash[page_count + 1] /\ NoErase
  /\ fwup_state = "final" => Signed(flash) /\ Quiet

Waiting ==
  fwup_state # "none" /\ at = "wait" =>
    IF "update" \in pending THEN Mine ELSE result => Success

LastWritten == fwup_state = "final" => updates \in flash[Pages] /\ NoErase

Reported ==
  told = "ok" =>
    fwup_state = "none" /\ flash = [p \in PageNumbers |-> {updates}] /\ Quiet

Clean == Numbered /\ Confirmed /\ Alone /\ Waiting /\ LastWritten /\ Reported

LEMMA InitClean == Init => Clean
  BY ElemsEmpty DEF Init, Clean, Numbered, Confirmed, Alone, Waiting, LastWritten, Reported

\* What touches neither the commands, the messages, the radio nor the update's progress; it may
\* take a pointer from the queue.
Untouched ==
  /\ UNCHANGED <<fwup_state, page_count, at, told, cmd_buf, seqnum, down, up, flash, updates>>
  /\ queued' \in {queued, queued - 1}

LEMMA UntouchedStays ==
  ASSUME Typed, Clean, Untouched
  PROVE  /\ Numbered' /\ Confirmed' /\ LastWritten' /\ Reported'
         /\ Success => Success'
<1> USE DEF Untouched
<1>1. queued' > 0 => queued > 0
  BY DEF Typed, TypeOK
<1>2. (NoErase => NoErase') /\ (Quiet => Quiet')
  BY <1>1 DEF NoErase, Quiet
<1>3. Signed(flash)' = Signed(flash)
  BY DEF Signed
<1>4. Success => Success'
  BY <1>2, <1>3 DEF Success
<1>5. Numbered'
  BY <1>1 DEF Clean, Numbered
<1>6. Confirmed'
  BY <1>2, <1>3 DEF Clean, Confirmed, Done
<1>7. LastWritten' /\ Reported'
  BY <1>2 DEF Clean, LastWritten, Reported
<1>8. QED
  BY <1>4, <1>5, <1>6, <1>7

\* A command is made.
LEMMA SendCmdClean ==
  ASSUME Typed, Clean, ~crossed',
         NEW session, NEW name, NEW page, NEW payload,
         SendCmd(session, name, page, payload),
         UNCHANGED <<down, up, flash, updates>>
  PROVE  /\ Numbered' /\ Confirmed'
         /\ queued < QueueLength /\ pending' = pending \cup {session} /\ active_session' = session
         /\ cmd_buf'.name = name /\ cmd_buf'.page = page
         /\ page # 0 => cmd_buf'.image = updates
         /\ name # "erase" /\ NoErase => NoErase'
         /\ name \notin {"erase", "write"} /\ Quiet => Quiet'
<1>1. queued \in Nat /\ seqnum \in Nat /\ QueueLength \in Nat
  BY UpdateAssumption DEF Typed, TypeOK
<1>2. ~(queued >= QueueLength)
  BY DEF SendCmd
<1>3. queued < QueueLength
  BY <1>1, <1>2
<1>4. /\ seqnum' = seqnum + 1 /\ queued' = queued + 1
      /\ pending' = pending \cup {session} /\ active_session' = session
  BY <1>3 DEF SendCmd
<1>5. /\ cmd_buf'.name = name /\ cmd_buf'.page = page /\ cmd_buf'.seq = seqnum
      /\ page # 0 => cmd_buf'.image = updates
  BY DEF SendCmd, Command
<1>6. (name # "erase" /\ NoErase => NoErase') /\ (name \notin {"erase", "write"} /\ Quiet => Quiet')
  BY <1>5 DEF NoErase, Quiet
<1>7. \A c \in Elems(down) : c.seq < seqnum /\ c.seq \in Nat
  BY DEF Clean, Numbered, Typed, Elems, Cmds
<1>8. \A m \in Elems(up) : m.name = "reply" => m.seq < seqnum /\ m.seq \in Nat
  <2>1. Elems(up) \subseteq Msgs
    BY ElemsIn DEF Typed
  <2>2. QED
    BY <2>1 DEF Clean, Numbered, Msgs
<1>9. Numbered'
  BY <1>1, <1>4, <1>5, <1>7, <1>8 DEF Clean, Numbered
<1>10. Confirmed'
  BY <1>1, <1>5, <1>8 DEF Confirmed
<1>11. QED
  BY <1>3, <1>4, <1>5, <1>6, <1>9, <1>10

LEMMA OtherCommandClean ==
  ASSUME Typed, Clean, ~crossed', OtherCommand
  PROVE  Clean'
<1>1. PICK payload \in {0, Long} : SendCmd("other", "other", 0, payload)
  BY DEF OtherCommand
<1>2. /\ cmd_sema /\ UNCHANGED <<fwup_state, page_count, at, told, result, down, up, flash, updates>>
  BY DEF OtherCommand, update, link, radio
<1>3. /\ Numbered' /\ Confirmed' /\ pending' = pending \cup {"other"}
      /\ NoErase => NoErase'
      /\ Quiet => Quiet'
  BY <1>1, <1>2, SendCmdClean
<1>4. Alone'
  BY <1>2 DEF Clean, Alone
<1>5. Signed(flash)' = Signed(flash)
  BY <1>2 DEF Signed
<1>6. Waiting'
  BY <1>2, <1>3, <1>5 DEF Clean, Waiting, Mine, Success
<1>7. LastWritten' /\ Reported'
  BY <1>2, <1>3 DEF Clean, LastWritten, Reported
<1>8. QED
  BY <1>3, <1>4, <1>6, <1>7 DEF Clean

LEMMA StartUpdateClean ==
  ASSUME Typed, Clean, StartUpdate
  PROVE  Clean'
<1>1. /\ UNCHANGED <<cmd_buf, seqnum, queued, down, up, flash>>
      /\ fwup_state' = "begin" /\ at' = "send" /\ told' = "nothing" /\ cmd_sema' = FALSE
  BY DEF StartUpdate, manager, link, radio
<1>2. Numbered'
  BY <1>1 DEF Clean, Numbered
<1>3. Confirmed'
  BY <1>1 DEF Clean, Confirmed, Done, Signed, NoErase, Quiet
<1>4. QED
  BY <1>1, <1>2, <1>3 DEF Clean, Alone, Waiting, LastWritten, Reported

LEMMA SendStepClean ==
  ASSUME Typed, Clean, ~crossed', SendStep
  PROVE  Clean'
<1>1. /\ fwup_state # "none" /\ at = "send"
      /\ UNCHANGED <<result, down, up, flash, updates>>
  BY DEF SendStep, link, radio, bounds
<1>2. PICK name, page, payload :
        /\ SendCmd("update", name, page, payload)
        /\ fwup_state = "write" => name = "write" /\ page = page_count + 1
        /\ fwup_state = "final" => name = "final"
  BY DEF SendStep
<1>3. /\ Numbered' /\ Confirmed'
      /\ queued < QueueLength /\ "update" \in pending' /\ active_session' = "update"
      /\ cmd_buf'.name = name /\ cmd_buf'.page = page
      /\ page # 0 => cmd_buf'.image = updates
      /\ name # "erase" /\ NoErase => NoErase'
  BY <1>1, <1>2, SendCmdClean
<1>4. at' = "wait" /\ UNCHANGED <<fwup_state, page_count, told, cmd_sema>>
  BY <1>3 DEF SendStep
<1>5. page_count + 1 # 0
  BY DEF Typed, TypeOK
<1>6. Mine'
  BY <1>1, <1>2, <1>3, <1>4, <1>5 DEF Mine, Clean, Alone
<1>7. Alone' /\ Waiting'
  BY <1>1, <1>3, <1>4, <1>6 DEF Alone, Waiting
<1>8. LastWritten' /\ Reported'
  BY <1>1, <1>2, <1>3, <1>4 DEF Clean, LastWritten, Reported
<1>9. QED
  BY <1>3, <1>7, <1>8 DEF Clean

\* A wait of the update is over.
LEMMA AnsweredClean ==
  ASSUME Typed, Clean, Answered \/ AnswerTimeout
  PROVE  Clean'
<1>1. /\ at = "wait" /\ fwup_state # "none" /\ told # "ok"
      /\ UNCHANGED <<cmd_buf, seqnum, queued, down, up, flash, updates>>
  BY DEF Answered, AnswerTimeout, manager, link, radio, bounds, Clean, Alone, Reported
<1>2. Numbered' /\ Confirmed'
  BY <1>1 DEF Clean, Numbered, Confirmed, Done, Signed, NoErase, Quiet
<1>3. (NoErase => NoErase') /\ (Quiet => Quiet')
  BY <1>1 DEF NoErase, Quiet
<1>4. CASE EndUpdate("failed")
  BY <1>2, <1>4 DEF Clean, EndUpdate, Alone, Waiting, LastWritten, Reported
<1>5. CASE Answered /\ result
  <2>1. Success
    BY <1>1, <1>5 DEF Answered, Clean, Waiting, Mine
  <2>2. CASE fwup_state = "final"
    <3>1. EndUpdate("ok")
      BY <1>5, <2>2 DEF Answered
    <3>2. flash = [p \in PageNumbers |-> {updates}]
      <4>1. PICK k \in Images : flash = [p \in PageNumbers |-> {k}]
        BY <2>1, <2>2 DEF Success, Signed
      <4>2. Pages \in PageNumbers
        BY UpdateAssumption DEF PageNumbers
      <4>3. updates \in flash[Pages]
        BY <2>2 DEF Clean, LastWritten
      <4>4. k = updates
        BY <4>1, <4>2, <4>3
      <4>5. QED
        BY <4>1, <4>4
    <3>3. Quiet'
      BY <1>3, <2>1, <2>2 DEF Success
    <3>4. Reported'
      BY <1>1, <3>1, <3>2, <3>3 DEF EndUpdate, Reported
    <3>5. QED
      BY <1>2, <3>1, <3>4 DEF Clean, EndUpdate, Alone, Waiting, LastWritten
  <2>3. CASE fwup_state # "final"
    <3>1. Advance
      BY <1>5, <2>3 DEF Answered
    <3>2. at' = "send" /\ cmd_sema' = FALSE /\ told' # "ok"
      BY <1>1, <3>1 DEF Advance
    <3>3. fwup_state' # "none"
      BY <3>1 DEF Advance
    <3>4. fwup_state' = "final" => fwup_state = "write" /\ page_count + 1 = Pages
      <4>1. fwup_state' = "final" => fwup_state \notin {"begin", "erase"} /\ ~(fwup_state = "write" /\ page_count + 1 < Pages)
        BY <3>1 DEF Advance
      <4>2. fwup_state' = "final" => fwup_state = "write"
        BY <1>1, <2>3, <4>1 DEF Typed, TypeOK
      <4>3. fwup_state = "write" => page_count < Pages /\ page_count \in Nat /\ Pages \in Nat
        BY UpdateAssumption DEF Typed, TypeOK
      <4>4. QED
        BY <4>1, <4>2, <4>3
    <3>5. LastWritten'
      BY <1>1, <1>3, <2>1, <3>4 DEF LastWritten, Success
    <3>6. QED
      BY <1>2, <3>2, <3>3, <3>5 DEF Clean, Alone, Waiting, Reported
  <2>4. QED
    BY <2>2, <2>3
<1>6. QED
  BY <1>4, <1>5 DEF Answered, AnswerTimeout

\* A command fails, in the transfer or by the timer.
LEMMA FailsClean ==
  ASSUME Typed, Clean, ~crossed', TimerExpires \/ TransmitFails
  PROVE  Clean'
<1>1. /\ Untouched /\ CommandFails /\ active_session' = active_session
  BY DEF TimerExpires, TransmitFails, Untouched, update, manager, link, radio, bounds
<1>2. /\ Numbered' /\ Confirmed' /\ LastWritten' /\ Reported'
      /\ Success => Success'
  BY <1>1, UntouchedStays
<1>3. /\ ~(fwup_state # "none" /\ at = "send")
      /\ pending' = pending \ {active_session}
      /\ result' = (result /\ active_session # "update")
  BY <1>1 DEF CommandFails, Finish
<1>4. Alone'
  BY <1>1, <1>3 DEF Untouched, Clean, Alone
<1>5. Waiting'
  <2> SUFFICES ASSUME fwup_state # "none", at = "wait"
               PROVE  "update" \notin pending' /\ (result' => Success')
    BY <1>1 DEF Untouched, Waiting
  <2>1. CASE "update" \in pending
    BY <1>3, <2>1 DEF Clean, Waiting, Mine
  <2>2. CASE "update" \notin pending
    BY <1>2, <1>3, <2>2 DEF Clean, Waiting
  <2>3. QED
    BY <2>1, <2>2
<1>6. QED
  BY <1>2, <1>4, <1>5 DEF Clean

LEMMA TransmitClean ==
  ASSUME Typed, Clean, Transmit
  PROVE  Clean'
<1>1. /\ queued > 0 /\ queued' = queued - 1 /\ down' = Append(down, cmd_buf)
      /\ UNCHANGED <<fwup_state, page_count, at, told, cmd_buf, seqnum, cmd_sema, active_session,
                     pending, result, up, flash, updates>>
  BY DEF Transmit, MaySend, update, service, radio, bounds
<1>2. Elems(down') = Elems(down) \cup {cmd_buf}
  BY <1>1, ElemsAppend DEF Typed
<1>3. (NoErase => NoErase') /\ (Quiet => Quiet')
  BY <1>1, <1>2 DEF NoErase, Quiet
<1>4. Signed(flash)' = Signed(flash)
  BY <1>1 DEF Signed
<1>5. Numbered'
  <2>1. /\ cmd_buf.seq < seqnum /\ seqnum <= cmd_buf.seq + 1
        /\ \A c \in Elems(down) : c.seq < seqnum
    BY <1>1 DEF Clean, Numbered
  <2>2. cmd_buf.seq \in Nat /\ seqnum \in Nat /\ queued \in Nat
    BY DEF Typed, TypeOK, Cmds
  <2>3. \A i \in 1..Len(down) : down[i] \in Elems(down) /\ down[i].seq \in Nat
    BY DEF Elems, Typed, Cmds
  <2>4. \A i \in 1..Len(down) : down[i].seq <= cmd_buf.seq
    BY <2>1, <2>2, <2>3
  <2>5. \A i, j \in 1..Len(down') : i < j => down'[i].seq <= down'[j].seq
    <3>1. /\ Len(down') = Len(down) + 1 /\ down'[Len(down) + 1] = cmd_buf
          /\ \A i \in 1..Len(down) : down'[i] = down[i]
          /\ Len(down) \in Nat
      BY <1>1 DEF Typed
    <3>2. \A i, j \in 1..Len(down) : i < j => down[i].seq <= down[j].seq
      BY DEF Clean, Numbered
    <3>3. QED
      BY <2>4, <3>1, <3>2
  <2>6. QED
    BY <1>1, <1>2, <2>1, <2>5 DEF Clean, Numbered
<1>6. Confirmed'
  BY <1>1, <1>3, <1>4 DEF Clean, Confirmed, Done
<1>7. Alone' /\ LastWritten' /\ Reported'
  BY <1>1, <1>3 DEF Clean, Alone, LastWritten, Reported
<1>8. Waiting'
  BY <1>1, <1>3, <1>4 DEF Clean, Waiting, Mine, Success
<1>9. QED
  BY <1>5, <1>6, <1>7, <1>8 DEF Clean

\* A message of the radio is received.
LEMMA ReceiveClean ==
  ASSUME Typed, Clean, ~crossed', Receive
  PROVE  Clean'
<1>1. /\ up # <<>> /\ up' = Tail(up)
      /\ UNCHANGED <<fwup_state, page_count, at, told, cmd_buf, seqnum, active_session, queued,
                     down, flash, updates>>
  BY DEF Receive, update, radio, bounds
<1>2. Elems(up') \subseteq Elems(up) /\ Head(up) \in Elems(up)
  BY <1>1, ElemsTail DEF Typed
<1>3. NoErase' = NoErase /\ Quiet' = Quiet /\ Signed(flash)' = Signed(flash)
  BY <1>1 DEF NoErase, Quiet, Signed
<1>4. Numbered'
  BY <1>1, <1>2 DEF Clean, Numbered
<1>5. Confirmed'
  BY <1>1, <1>2, <1>3 DEF Clean, Confirmed, Done
<1>6. LastWritten' /\ Reported' /\ Success' = Success
  BY <1>1, <1>3 DEF Clean, LastWritten, Reported, Success
<1>7. CASE Head(up).name = "reply" /\ active_session \in pending
  <2>1. /\ ~(fwup_state # "none" /\ at = "send")
        /\ pending' = pending \ {active_session}
        /\ result' = IF active_session = "update"
                     THEN Head(up).ok /\ Head(up).seq = cmd_buf.seq ELSE result
    BY <1>7 DEF Receive, Finish
  <2>2. Alone'
    BY <1>1, <2>1 DEF Clean, Alone
  <2>3. Waiting'
    <3> SUFFICES ASSUME fwup_state # "none", at = "wait"
                 PROVE  "update" \notin pending' /\ (result' => Success)
      BY <1>1, <1>6 DEF Waiting
    <3>1. CASE "update" \in pending
      <4>1. Mine
        BY <3>1 DEF Clean, Waiting
      <4>2. result' => Done(cmd_buf)
        BY <1>2, <1>7, <2>1, <4>1 DEF Clean, Confirmed, Mine
      <4>3. Done(cmd_buf) => Success
        BY <4>1 DEF Done, Success, Mine
      <4>4. QED
        BY <2>1, <4>1, <4>2, <4>3 DEF Mine
    <3>2. CASE "update" \notin pending
      BY <1>7, <2>1, <3>2 DEF Clean, Waiting
    <3>3. QED
      BY <3>1, <3>2
  <2>4. QED
    BY <1>4, <1>5, <1>6, <2>2, <2>3 DEF Clean
<1>8. CASE ~(Head(up).name = "reply" /\ active_session \in pending)
  <2>1. UNCHANGED <<pending, cmd_sema, result>>
    BY <1>8 DEF Receive
  <2>2. Alone' /\ Waiting'
    BY <1>1, <1>6, <2>1 DEF Clean, Alone, Waiting, Mine
  <2>3. QED
    BY <1>4, <1>5, <1>6, <2>2 DEF Clean
<1>9. QED
  BY <1>7, <1>8

\* What the radio, a reset and the link may do: take the first command, or lose it or all, change
\* the flash as the first command says, and accept the command only when it is done.
Accepts(m) ==
  /\ down # <<>> /\ down' = Tail(down) /\ m.seq = Head(down).seq
  /\ Head(down).name = "write" => Head(down).image \in flash'[Head(down).page]
  /\ Head(down).name = "final" => Signed(flash')
  /\ Head(down).name = "erase" => \A p \in PageNumbers : flash'[p] = {}

RadioEffect ==
  /\ UNCHANGED <<update, service, manager, updates>>
  /\ down' = down \/ down' = <<>> \/ (down # <<>> /\ down' = Tail(down))
  /\ (\A c \in Elems(down) : c.name # "erase") =>
        \A p \in PageNumbers : flash[p] \subseteq flash'[p]
  /\ (\A c \in Elems(down) : c.name \notin {"erase", "write"}) => flash' = flash
  /\ \A m \in Elems(up') : m \in Elems(up) \/ m.name # "reply" \/ (m.seq < seqnum /\ (m.ok => Accepts(m)))

LEMMA PostElems ==
  ASSUME Typed, NEW msg \in Msgs, Post(msg)
  PROVE  Elems(up') \subseteq Elems(up) \cup {msg}
  BY ElemsAppend DEF Post, Typed

LEMMA RadioHasEffect ==
  ASSUME Typed, Numbered, Radio \/ RadioReset \/ Lose
  PROVE  RadioEffect
<1>0. down # <<>> => /\ Head(down) \in Elems(down) /\ Head(down) \in Cmds
                     /\ Head(down).seq \in Nat /\ Head(down).seq < seqnum
  <2>1. down # <<>> => Head(down) \in Elems(down) /\ Elems(down) \subseteq Cmds
    BY ElemsTail, ElemsIn DEF Typed
  <2>2. QED
    BY <2>1 DEF Numbered, Cmds
<1>1. CASE BootCommand \/ AppCommand
  <2>1. /\ down # <<>> /\ down' = Tail(down)
        /\ UNCHANGED <<update, service, manager, updates>>
    BY <1>1 DEF BootCommand, AppCommand, bounds
  <2>2. /\ Answer(TRUE) => \A m \in Elems(up') : m \in Elems(up) \/ m.seq = Head(down).seq
        /\ Answer(FALSE) => \A m \in Elems(up') :
             m \in Elems(up) \/ (m.seq = Head(down).seq /\ ~m.ok)
    <3>1. /\ Reply(TRUE, Head(down).seq) \in Msgs
          /\ Reply(FALSE, Head(down).seq) \in Msgs
      BY <1>0, <2>1 DEF Reply, Msgs
    <3>2. /\ Answer(TRUE) => Elems(up') \subseteq Elems(up) \cup {Reply(TRUE, Head(down).seq)}
          /\ Answer(FALSE) => Elems(up') \subseteq Elems(up) \cup {Reply(FALSE, Head(down).seq)}
      BY <3>1, PostElems DEF Answer
    <3>3. /\ Reply(TRUE, Head(down).seq).seq = Head(down).seq
          /\ Reply(FALSE, Head(down).seq).seq = Head(down).seq
          /\ ~Reply(FALSE, Head(down).seq).ok
      BY DEF Reply
    <3>4. QED
      BY <3>2, <3>3
  <2>3. flash \in [PageNumbers -> SUBSET (0..Torn)]
    BY DEF Typed, TypeOK
  <2>4. CASE BootCommand
    <3>1. CASE Head(down).name = "other"
      BY <1>0, <2>1, <2>2, <2>4, <3>1 DEF BootCommand, RadioEffect
    <3>2. CASE Head(down).name = "reboot"
      BY <1>0, <2>1, <2>2, <2>4, <3>2 DEF BootCommand, RadioEffect
    <3>3. CASE Head(down).name = "erase"
      BY <1>0, <2>1, <2>2, <2>4, <3>3 DEF BootCommand, RadioEffect, Accepts
    <3>4. CASE Head(down).name = "write"
      <4>1. /\ flash' = [flash EXCEPT ![Head(down).page] = @ \cup {Head(down).image}]
            /\ Head(down).page \in PageNumbers
            /\ Answer(TRUE)
        BY <1>0, <2>1, <2>4, <3>4 DEF BootCommand, Cmds
      <4>2. /\ Head(down).image \in flash'[Head(down).page]
            /\ \A p \in PageNumbers : flash[p] \subseteq flash'[p]
        BY <2>3, <4>1
      <4>3. QED
        BY <1>0, <2>1, <2>2, <3>4, <4>1, <4>2 DEF RadioEffect, Accepts
    <3>5. CASE Head(down).name = "final"
      <4>1. /\ Answer(Head(down).len = Byte /\ Signed(flash)) /\ flash' = flash
        BY <2>4, <3>5 DEF BootCommand
      <4>2. CASE Head(down).len = Byte /\ Signed(flash)
        <5>1. Answer(TRUE) /\ Signed(flash')
          BY <4>1, <4>2 DEF Signed
        <5>2. QED
          BY <1>0, <2>1, <2>2, <3>5, <4>1, <5>1 DEF RadioEffect, Accepts
      <4>3. CASE ~(Head(down).len = Byte /\ Signed(flash))
        <5>1. Answer(FALSE)
          BY <4>1, <4>3
        <5>2. QED
          BY <1>0, <2>1, <2>2, <4>1, <5>1 DEF RadioEffect
      <4>4. QED
        BY <4>2, <4>3
    <3>6. QED
      BY <1>0, <2>1, <3>1, <3>2, <3>3, <3>4, <3>5 DEF Cmds
  <2>5. CASE AppCommand
    <3>1. flash' = flash
      BY <2>5 DEF AppCommand
    <3>2. CASE Head(down).name \in {"other", "reboot"}
      <4>1. up' = up \/ Answer(TRUE) \/ Answer(FALSE)
        BY <2>5, <3>2 DEF AppCommand
      <4>2. QED
        BY <1>0, <2>1, <2>2, <3>1, <3>2, <4>1 DEF RadioEffect, Accepts
    <3>3. CASE Head(down).name \in {"erase", "write", "final"}
      <4>1. Answer(FALSE)
        BY <2>5, <3>3 DEF AppCommand
      <4>2. QED
        BY <1>0, <2>1, <2>2, <3>1, <4>1 DEF RadioEffect
    <3>4. QED
      BY <1>0, <2>1, <3>2, <3>3 DEF Cmds
  <2>6. QED
    BY <1>1, <2>4, <2>5
<1>2. CASE BootApplication \/ Reboot
  <2>1. Start("app") \in Msgs /\ Start("boot") \in Msgs
    BY DEF Start, Msgs
  <2>2. Elems(up') \subseteq Elems(up) \cup {Start("app"), Start("boot")}
    BY <1>2, <2>1, PostElems DEF BootApplication, Reboot, link
  <2>3. QED
    BY <1>2, <2>2 DEF BootApplication, Reboot, RadioEffect, link, bounds, Start
<1>3. CASE RadioReset
  <2>1. /\ UNCHANGED <<update, service, manager, updates, up>> /\ down' = <<>>
    BY <1>3 DEF RadioReset
  <2>2. CASE UNCHANGED flash
    BY <2>1, <2>2 DEF RadioEffect
  <2>3. CASE down # <<>> /\ Head(down).name = "erase"
    BY <1>0, <2>1, <2>3 DEF RadioEffect
  <2>4. CASE /\ down # <<>> /\ Head(down).name = "write"
             /\ flash' = [flash EXCEPT ![Head(down).page] = @ \cup {Head(down).image, Torn}]
    <3>1. \A p \in PageNumbers : flash[p] \subseteq flash'[p]
      BY <2>4 DEF Typed, TypeOK
    <3>2. QED
      BY <1>0, <2>1, <2>4, <3>1 DEF RadioEffect
  <2>5. QED
    BY <1>3, <2>2, <2>3, <2>4 DEF RadioReset
<1>4. CASE Lose
  <2>1. /\ UNCHANGED <<update, service, manager, updates, flash>>
        /\ down' = down \/ (down # <<>> /\ down' = Tail(down))
        /\ up' = up \/ (up # <<>> /\ up' = Tail(up))
    BY <1>4 DEF Lose, radio
  <2>2. Elems(up') \subseteq Elems(up)
    BY <2>1, ElemsTail DEF Typed
  <2>3. QED
    BY <2>1, <2>2 DEF RadioEffect
<1>5. QED
  BY <1>1, <1>2, <1>3, <1>4 DEF Radio

\* When the command in the buffer is accepted, only further copies of it are behind it.
LEMMA AcceptedIsLast ==
  ASSUME Typed, Clean, NEW m, Accepts(m), m.seq = cmd_buf.seq
  PROVE  Head(down) = cmd_buf /\ \A c \in Elems(down') : c = cmd_buf
<1>1. /\ down # <<>> /\ down' = Tail(down)
      /\ Head(down).seq = cmd_buf.seq /\ Head(down) = down[1]
      /\ Len(down) \in Nat
  BY DEF Accepts, Typed
<1>2. /\ \A c \in Elems(down) : c.seq < seqnum /\ (c.seq = cmd_buf.seq => c = cmd_buf)
      /\ \A i, j \in 1..Len(down) : i < j => down[i].seq <= down[j].seq
      /\ seqnum <= cmd_buf.seq + 1
  BY DEF Clean, Numbered
<1>3. Head(down) = cmd_buf
  BY <1>1, <1>2, ElemsTail DEF Typed
<1>4. \A c \in Elems(down') : c = cmd_buf
  <2> SUFFICES ASSUME NEW i \in 1..Len(down') PROVE down'[i] = cmd_buf
    BY DEF Elems
  <2>1. i + 1 \in 1..Len(down) /\ 1 \in 1..Len(down) /\ 1 < i + 1 /\ down'[i] = down[i + 1]
    BY <1>1 DEF Typed
  <2>2. down[i + 1] \in Elems(down) /\ down[i + 1] \in Cmds
    BY <2>1 DEF Elems, Typed
  <2>3. down[1].seq <= down[i + 1].seq /\ down[i + 1].seq < seqnum
    BY <1>2, <2>1, <2>2
  <2>4. down[i + 1].seq \in Nat /\ cmd_buf.seq \in Nat /\ seqnum \in Nat
    BY <2>2 DEF Cmds, Typed
  <2>5. down[i + 1].seq = cmd_buf.seq
    BY <1>1, <1>2, <2>3, <2>4
  <2>6. QED
    BY <1>2, <2>1, <2>2, <2>5
<1>5. QED
  BY <1>3, <1>4

LEMMA RadioClean ==
  ASSUME Typed, Clean, RadioEffect
  PROVE  Clean'
<1>1. UNCHANGED <<fwup_state, page_count, at, told, cmd_buf, seqnum, cmd_sema, active_session,
                  pending, result, queued, updates>>
  BY DEF RadioEffect, update, service, manager
<1>2. /\ Elems(down') \subseteq Elems(down)
      /\ down' # <<>> /\ down' # down => down # <<>> /\ down' = Tail(down)
  BY ElemsEmpty, ElemsTail DEF RadioEffect, Typed
<1>3. NoErase => NoErase' /\ \A p \in PageNumbers : flash[p] \subseteq flash'[p]
  BY <1>1, <1>2 DEF NoErase, RadioEffect
<1>4. Quiet => Quiet' /\ flash' = flash
  BY <1>1, <1>2 DEF Quiet, RadioEffect
<1>5. flash' = flash => Signed(flash)' = Signed(flash)
  BY DEF Signed
<1>6. cmd_buf \in Cmds /\ Pages \in PageNumbers
  BY UpdateAssumption DEF Typed, PageNumbers
<1>7. Numbered'
  <2>1. \A m \in Elems(up') : m.name = "reply" => m.seq < seqnum
    BY DEF RadioEffect, Clean, Numbered, Accepts
  <2>2. \A i, j \in 1..Len(down') : i < j => down'[i].seq <= down'[j].seq
    <3>1. CASE down' = down
      BY <3>1 DEF Clean, Numbered
    <3>2. CASE down' = <<>>
      BY <3>2
    <3>3. CASE down # <<>> /\ down' = Tail(down)
      <4>1. /\ Len(down) \in Nat /\ Len(down') = Len(down) - 1
            /\ \A i \in 1..Len(down') : down'[i] = down[i + 1]
        BY <3>3 DEF Typed
      <4>2. \A i, j \in 1..Len(down) : i < j => down[i].seq <= down[j].seq
        BY DEF Clean, Numbered
      <4>3. \A i \in 1..Len(down') : i \in Nat /\ i + 1 \in 1..Len(down)
        BY <4>1
      <4>4. QED
        BY <4>1, <4>2, <4>3
    <3>4. QED
      BY <1>2, <3>1, <3>2, <3>3
  <2>3. QED
    BY <1>1, <1>2, <2>1, <2>2 DEF Clean, Numbered
<1>8. Done(cmd_buf) => Done(cmd_buf)'
  BY <1>1, <1>3, <1>4, <1>5, <1>6 DEF Done, Cmds
<1>9. \A m \in Elems(up') : Accepts(m) /\ m.seq = cmd_buf.seq => Done(cmd_buf)'
  <2> SUFFICES ASSUME NEW m \in Elems(up'), Accepts(m), m.seq = cmd_buf.seq
               PROVE  Done(cmd_buf)'
    OBVIOUS
  <2>1. Head(down) = cmd_buf /\ \A c \in Elems(down') : c = cmd_buf
    BY AcceptedIsLast
  <2>5. /\ cmd_buf.name = "write" => NoErase'
        /\ cmd_buf.name = "final" => Quiet'
    BY <1>1, <2>1 DEF NoErase, Quiet
  <2>6. /\ cmd_buf.name = "write" => cmd_buf.image \in flash'[cmd_buf.page]
        /\ cmd_buf.name = "final" => Signed(flash)'
    BY <2>1 DEF Accepts, Signed
  <2>7. QED
    BY <1>1, <2>5, <2>6 DEF Done
<1>10. Confirmed'
  BY <1>1, <1>8, <1>9 DEF Clean, Confirmed, RadioEffect
<1>11. Success => Success'
  <2>1. fwup_state = "write" => page_count + 1 \in PageNumbers
    BY UpdateAssumption DEF Typed, TypeOK, PageNumbers
  <2>2. QED
    BY <1>1, <1>3, <1>4, <1>5, <2>1 DEF Success
<1>12. Alone' /\ Waiting'
  BY <1>1, <1>11 DEF Clean, Alone, Waiting, Mine
<1>13. LastWritten' /\ Reported'
  BY <1>1, <1>3, <1>4, <1>6 DEF Clean, LastWritten, Reported
<1>14. QED
  BY <1>7, <1>10, <1>12, <1>13 DEF Clean

LEMMA NextClean ==
  ASSUME Typed, Clean, ~crossed', [Next]_vars
  PROVE  Clean'
<1>1. CASE OtherCommand \/ StartUpdate \/ SendStep \/ Answered \/ AnswerTimeout
  BY <1>1, OtherCommandClean, StartUpdateClean, SendStepClean, AnsweredClean
<1>2. CASE TimerExpires \/ Manager
  BY <1>2, FailsClean, TransmitClean, ReceiveClean DEF Manager
<1>3. CASE Radio \/ RadioReset \/ Lose
  BY <1>3, RadioHasEffect, RadioClean DEF Clean
<1>4. CASE UNCHANGED vars
  <2>1. RadioEffect
    BY <1>4 DEF vars, link, radio, bounds, RadioEffect
  <2>2. QED
    BY <2>1, RadioClean
<1>5. QED
  BY <1>1, <1>2, <1>3, <1>4 DEF Next, User, Updater

\* What has been crossed stays so.
LEMMA CrossedStays ==
  ASSUME [Next]_vars, crossed
  PROVE  crossed'
<1>1. CASE OtherCommand \/ SendStep
  BY <1>1 DEF OtherCommand, SendStep, SendCmd
<1>2. CASE StartUpdate \/ Answered \/ AnswerTimeout \/ Transmit
  BY <1>2 DEF StartUpdate, Answered, AnswerTimeout, Transmit
<1>3. CASE TimerExpires \/ TransmitFails \/ Receive
  BY <1>3 DEF TimerExpires, TransmitFails, CommandFails, Finish, Receive
<1>4. CASE Radio \/ RadioReset \/ Lose
  BY <1>4 DEF Radio, BootCommand, AppCommand, BootApplication, Reboot, RadioReset, Lose
<1>5. CASE UNCHANGED vars
  BY <1>5 DEF vars
<1>6. QED
  BY <1>1, <1>2, <1>3, <1>4, <1>5 DEF Next, User, Updater, Manager

IInv == Typed /\ (~crossed => Clean)

\* When comms_flash_image has returned success the image it was given is in the radio's flash as a
\* whole, whatever is lost, late, sent twice or reset, unless the two things that NeverMixed names
\* have happened.
THEOREM ReportedIsWholeCorrect == Spec => []ReportedIsWhole
<1>1. Init => IInv
  BY InitTyped, InitClean DEF IInv
<1>2. IInv /\ [Next]_vars => IInv'
  BY NextTyped, NextClean, CrossedStays DEF IInv
<1>3. IInv => ReportedIsWhole
  BY DEF IInv, Clean, Reported, ReportedIsWhole
<1>4. QED
  BY <1>1, <1>2, <1>3, PTL DEF Spec

-----------------------------------------------------------------------------
\* No two images in one page.  A page is written only by an update whose erase has been accepted;
\* when that is so, all that was on its way before has arrived, since the link keeps the order,
\* and what the buffer and the flash hold is of that update alone until the next erase.

\* No image but k is in the flash, on its way there or in the buffer; or none at all.
Only(k) ==
  /\ \A p \in PageNumbers : flash[p] \cap Images \subseteq {k}
  /\ \A c \in Elems(down) \cup {cmd_buf} : c.name = "write" => c.image = k

Blank ==
  /\ \A p \in PageNumbers : flash[p] \cap Images = {}
  /\ \A c \in Elems(down) \cup {cmd_buf} : c.name # "write"

Emptied ==
  \A m \in Elems(up) :
    m.name = "reply" /\ m.ok /\ m.seq = cmd_buf.seq /\ cmd_buf.name = "erase" => Blank

Erasing ==
  fwup_state = "erase" /\ at = "wait" =>
    IF "update" \in pending THEN cmd_buf.name = "erase" ELSE result => Blank

Swept ==
  /\ \E k \in Images : Only(k)
  /\ Emptied
  /\ Erasing
  /\ fwup_state = "write" => Only(updates)

LEMMA InitSwept == Init => Swept
<1> SUFFICES ASSUME Init PROVE Swept
  OBVIOUS
<1>1. 0 \in Images /\ Only(0)
  BY UpdateAssumption, ElemsEmpty DEF Init, Only, Images
<1>2. QED
  BY <1>1, ElemsEmpty DEF Init, Swept, Emptied, Erasing

\* A step that leaves the flash as it is, and makes no command that writes.
LEMMA StaysSwept ==
  ASSUME flash' = flash, Elems(down') \subseteq Elems(down) \cup {cmd_buf},
         cmd_buf' = cmd_buf \/ cmd_buf'.name # "write"
  PROVE  (\A k \in Images : Only(k) => Only(k)') /\ (Blank => Blank')
  BY DEF Only, Blank

LEMMA OtherCommandSwept ==
  ASSUME Typed, Clean, Swept, ~crossed', OtherCommand
  PROVE  Swept'
<1>1. PICK payload \in {0, Long} : SendCmd("other", "other", 0, payload)
  BY DEF OtherCommand
<1>2. /\ cmd_sema /\ UNCHANGED <<fwup_state, at, result, down, up, flash, updates>>
      /\ updates \in Images
  BY DEF OtherCommand, update, link, radio, Typed
<1>3. cmd_buf'.name = "other" /\ pending' = pending \cup {"other"}
  BY <1>1, <1>2, SendCmdClean
<1>4. (\A k \in Images : Only(k) => Only(k)') /\ (Blank => Blank')
  BY <1>2, <1>3, StaysSwept
<1>5. Emptied'
  BY <1>3 DEF Emptied
<1>6. Erasing'
  BY <1>2, <1>3, <1>4 DEF Swept, Erasing, Clean, Waiting, Mine
<1>7. QED
  BY <1>2, <1>4, <1>5, <1>6 DEF Swept

LEMMA StartUpdateSwept ==
  ASSUME Typed, Swept, StartUpdate
  PROVE  Swept'
<1>1. /\ UNCHANGED <<cmd_buf, down, up, flash>> /\ fwup_state' = "begin"
  BY DEF StartUpdate, manager, link, radio
<1>2. (\A k \in Images : Only(k) => Only(k)') /\ (Blank => Blank')
  BY <1>1, StaysSwept
<1>3. QED
  BY <1>1, <1>2 DEF Swept, Emptied, Erasing

LEMMA SendStepSwept ==
  ASSUME Typed, Clean, Swept, ~crossed', SendStep
  PROVE  Swept'
<1>1. /\ fwup_state # "none" /\ UNCHANGED <<result, down, up, flash, updates>>
      /\ updates \in Images
  BY DEF SendStep, link, radio, bounds, Typed
<1>2. PICK name, page, payload :
        /\ SendCmd("update", name, page, payload)
        /\ fwup_state = "erase" => name = "erase"
        /\ name = "write" => fwup_state = "write" /\ page = page_count + 1
  BY DEF SendStep
<1>3. /\ queued < QueueLength /\ "update" \in pending'
      /\ cmd_buf'.name = name /\ cmd_buf'.seq = seqnum
      /\ page # 0 => cmd_buf'.image = updates
  BY <1>1, <1>2, SendCmdClean DEF SendCmd, Command
<1>4. at' = "wait" /\ fwup_state' = fwup_state
  BY <1>3 DEF SendStep
<1>5. Emptied'
  BY <1>1, <1>3 DEF Emptied, Clean, Numbered, Typed
<1>6. Erasing'
  BY <1>2, <1>3, <1>4 DEF Erasing
<1>7. CASE name = "write"
  <2>1. page # 0
    BY <1>2, <1>7 DEF Typed, TypeOK
  <2>2. Only(updates)'
    BY <1>1, <1>2, <1>3, <1>7, <2>1 DEF Swept, Only
  <2>3. QED
    BY <1>1, <1>5, <1>6, <2>2 DEF Swept
<1>8. CASE name # "write"
  <2>1. \A k \in Images : Only(k) => Only(k)'
    BY <1>1, <1>3, <1>8, StaysSwept
  <2>2. QED
    BY <1>1, <1>4, <1>5, <1>6, <2>1 DEF Swept
<1>9. QED
  BY <1>7, <1>8

LEMMA AnsweredSwept ==
  ASSUME Typed, Clean, Swept, Answered \/ AnswerTimeout
  PROVE  Swept'
<1>1. /\ at = "wait" /\ fwup_state # "none" /\ at' = "send"
      /\ UNCHANGED <<cmd_buf, down, up, flash, updates>>
      /\ updates \in Images
  BY DEF Answered, AnswerTimeout, Advance, EndUpdate, manager, link, radio, bounds, Clean, Alone, Typed
<1>2. (\A k \in Images : Only(k) => Only(k)') /\ (Blank => Blank')
  BY <1>1, StaysSwept
<1>3. Emptied' /\ Erasing'
  BY <1>1, <1>2 DEF Swept, Emptied, Erasing
<1>4. fwup_state' = "write" => Only(updates)
  <2> SUFFICES ASSUME fwup_state' = "write" PROVE Only(updates)
    OBVIOUS
  <2>1. Answered /\ result /\ Advance
    BY DEF Answered, AnswerTimeout, EndUpdate
  <2>2. fwup_state \in {"erase", "write"}
    BY <1>1, <2>1 DEF Advance, Typed, TypeOK
  <2>3. CASE fwup_state = "erase"
    <3>1. Blank
      BY <1>1, <2>1, <2>3 DEF Answered, Swept, Erasing, Clean, Waiting, Mine
    <3>2. QED
      BY <3>1 DEF Blank, Only
  <2>4. QED
    BY <2>2, <2>3 DEF Swept
<1>5. QED
  BY <1>1, <1>2, <1>3, <1>4 DEF Swept

LEMMA FailsSwept ==
  ASSUME Typed, Clean, Swept, TimerExpires \/ TransmitFails
  PROVE  Swept'
<1>1. /\ Untouched /\ updates \in Images
      /\ pending' = pending \ {active_session}
      /\ result' = (result /\ active_session # "update")
  BY DEF TimerExpires, TransmitFails, CommandFails, Finish, Untouched, update, manager, link, radio,
         bounds, Typed
<1>2. (\A k \in Images : Only(k) => Only(k)') /\ (Blank => Blank')
  BY <1>1, StaysSwept DEF Untouched
<1>3. Emptied'
  BY <1>1, <1>2 DEF Untouched, Swept, Emptied
<1>4. Erasing'
  BY <1>1, <1>2 DEF Untouched, Swept, Erasing, Clean, Waiting, Mine
<1>5. QED
  BY <1>1, <1>2, <1>3, <1>4 DEF Untouched, Swept

LEMMA TransmitSwept ==
  ASSUME Typed, Swept, Transmit
  PROVE  Swept'
<1>1. /\ down' = Append(down, cmd_buf) /\ updates \in Images
      /\ UNCHANGED <<fwup_state, at, cmd_buf, pending, result, up, flash, updates>>
  BY DEF Transmit, update, service, radio, bounds, Typed
<1>2. Elems(down') = Elems(down) \cup {cmd_buf}
  BY <1>1, ElemsAppend DEF Typed
<1>3. (\A k \in Images : Only(k) => Only(k)') /\ (Blank => Blank')
  BY <1>1, <1>2, StaysSwept
<1>4. QED
  BY <1>1, <1>3 DEF Swept, Emptied, Erasing

LEMMA ReceiveSwept ==
  ASSUME Typed, Clean, Swept, Receive
  PROVE  Swept'
<1>1. /\ up # <<>> /\ up' = Tail(up) /\ updates \in Images
      /\ UNCHANGED <<fwup_state, at, cmd_buf, active_session, down, flash, updates>>
  BY DEF Receive, update, radio, bounds, Typed
<1>2. Elems(up') \subseteq Elems(up) /\ Head(up) \in Elems(up)
  BY <1>1, ElemsTail DEF Typed
<1>3. (\A k \in Images : Only(k) => Only(k)') /\ (Blank => Blank')
  BY <1>1, StaysSwept
<1>4. Emptied'
  BY <1>1, <1>2, <1>3 DEF Swept, Emptied
<1>5. Erasing'
  <2> SUFFICES ASSUME fwup_state = "erase", at = "wait"
               PROVE  IF "update" \in pending' THEN cmd_buf.name = "erase" ELSE result' => Blank
    BY <1>1, <1>3 DEF Erasing
  <2>1. CASE Head(up).name = "reply" /\ active_session \in pending
    <3>1. /\ pending' = pending \ {active_session}
          /\ result' = IF active_session = "update"
                       THEN Head(up).ok /\ Head(up).seq = cmd_buf.seq ELSE result
      BY <2>1 DEF Receive, Finish
    <3>2. CASE "update" \in pending
      <4>1. active_session = "update" /\ cmd_buf.name = "erase"
        BY <3>2 DEF Clean, Waiting, Mine, Swept, Erasing
      <4>2. QED
        BY <1>2, <2>1, <3>1, <4>1 DEF Swept, Emptied
    <3>3. CASE "update" \notin pending
      BY <2>1, <3>1, <3>3 DEF Swept, Erasing
    <3>4. QED
      BY <3>2, <3>3
  <2>2. CASE ~(Head(up).name = "reply" /\ active_session \in pending)
    BY <2>2 DEF Receive, Swept, Erasing
  <2>3. QED
    BY <2>1, <2>2
<1>6. QED
  BY <1>1, <1>3, <1>4, <1>5 DEF Swept

\* What comes into the flash is Torn, or the image of a command on its way.
LEMMA RadioWrites ==
  ASSUME Typed, Radio \/ RadioReset \/ Lose
  PROVE  \A p \in PageNumbers : \A k \in flash'[p] \cap Images :
           k \in flash[p] \/ \E c \in Elems(down) : c.name = "write" /\ c.image = k
<1>1. flash \in [PageNumbers -> SUBSET (0..Torn)] /\ Torn \notin Images
  BY UpdateAssumption DEF Typed, TypeOK, Torn, Images
<1>2. down # <<>> => Head(down) \in Elems(down)
  BY ElemsTail DEF Typed
<1>3. CASE flash' = flash
  BY <1>3
<1>4. CASE flash' = [p \in PageNumbers |-> {}]
  BY <1>4
<1>5. CASE /\ down # <<>> /\ Head(down).name = "write"
           /\ \/ flash' = [flash EXCEPT ![Head(down).page] = @ \cup {Head(down).image}]
              \/ flash' = [flash EXCEPT ![Head(down).page] = @ \cup {Head(down).image, Torn}]
  <2>1. \A p \in PageNumbers : flash'[p] \subseteq flash[p] \cup {Head(down).image, Torn}
    BY <1>1, <1>5
  <2>2. QED
    BY <1>1, <1>2, <1>5, <2>1
<1>6. CASE \E n \in PageNumbers :
             flash' = [p \in PageNumbers |->
                         IF p < n THEN {} ELSE IF p = n THEN flash[p] \cup {Torn} ELSE flash[p]]
  <2>1. \A p \in PageNumbers : flash'[p] \subseteq flash[p] \cup {Torn}
    BY <1>6
  <2>2. QED
    BY <1>1, <2>1
<1>7. CASE BootCommand
  BY <1>3, <1>4, <1>5, <1>7 DEF BootCommand
<1>8. CASE RadioReset
  BY <1>3, <1>5, <1>6, <1>8 DEF RadioReset
<1>9. CASE AppCommand \/ BootApplication \/ Reboot \/ Lose
  BY <1>3, <1>9 DEF AppCommand, BootApplication, Reboot, Lose, radio
<1>10. QED
  BY <1>7, <1>8, <1>9 DEF Radio

LEMMA RadioSwept ==
  ASSUME Typed, Clean, Swept, RadioEffect,
         \A p \in PageNumbers : \A k \in flash'[p] \cap Images :
           k \in flash[p] \/ \E c \in Elems(down) : c.name = "write" /\ c.image = k
  PROVE  Swept'
<1>1. /\ UNCHANGED <<fwup_state, at, cmd_buf, pending, result, updates>>
      /\ updates \in Images
  BY DEF RadioEffect, update, service, Typed
<1>2. Elems(down') \subseteq Elems(down)
  BY ElemsEmpty, ElemsTail DEF RadioEffect, Typed
<1>3. \A k \in Images : Only(k) => Only(k)'
  <2> SUFFICES ASSUME NEW k \in Images, Only(k) PROVE Only(k)'
    OBVIOUS
  <2>1. \A p \in PageNumbers : flash'[p] \cap Images \subseteq {k}
    BY DEF Only
  <2>2. QED
    BY <1>1, <1>2, <2>1 DEF Only
<1>4. Blank => Blank'
  <2> SUFFICES ASSUME Blank PROVE Blank'
    OBVIOUS
  <2>1. \A p \in PageNumbers : flash'[p] \cap Images = {}
    BY DEF Blank
  <2>2. QED
    BY <1>1, <1>2, <2>1 DEF Blank
<1>5. Emptied'
  <2> SUFFICES ASSUME NEW m \in Elems(up'), m.name = "reply", m.ok, m.seq = cmd_buf.seq,
                      cmd_buf.name = "erase"
               PROVE  Blank'
    BY <1>1 DEF Emptied
  <2>1. CASE m \in Elems(up)
    BY <1>4, <2>1 DEF Swept, Emptied
  <2>2. CASE Accepts(m)
    <3>1. Head(down) = cmd_buf /\ \A c \in Elems(down') : c = cmd_buf
      BY <2>2, AcceptedIsLast
    <3>2. \A p \in PageNumbers : flash'[p] = {}
      BY <2>2, <3>1 DEF Accepts
    <3>3. QED
      BY <1>1, <3>1, <3>2 DEF Blank
  <2>3. QED
    BY <2>1, <2>2 DEF RadioEffect
<1>6. Erasing'
  BY <1>1, <1>4 DEF Swept, Erasing
<1>7. QED
  BY <1>1, <1>3, <1>5, <1>6 DEF Swept

LEMMA NextSwept ==
  ASSUME Typed, Clean, Swept, ~crossed', [Next]_vars
  PROVE  Swept'
<1>1. CASE OtherCommand \/ StartUpdate \/ SendStep \/ Answered \/ AnswerTimeout
  BY <1>1, OtherCommandSwept, StartUpdateSwept, SendStepSwept, AnsweredSwept
<1>2. CASE TimerExpires \/ Manager
  BY <1>2, FailsSwept, TransmitSwept, ReceiveSwept DEF Manager
<1>3. CASE Radio \/ RadioReset \/ Lose
  BY <1>3, RadioHasEffect, RadioWrites, RadioSwept DEF Clean
<1>4. CASE UNCHANGED vars
  BY <1>4 DEF vars, update, service, link, radio, bounds, Swept, Only, Blank, Emptied, Erasing
<1>5. QED
  BY <1>1, <1>2, <1>3, <1>4 DEF Next, User, Updater

\* No page of the radio's flash holds two images, however an update ended and however soon the
\* next one was started, unless the two things that NeverMixed names have happened.
THEOREM NeverMixedCorrect == Spec => []NeverMixed
<1> DEFINE SInv == IInv /\ (~crossed => Swept)
<1>1. Init => SInv
  BY InitTyped, InitClean, InitSwept DEF IInv
<1>2. SInv /\ [Next]_vars => SInv'
  BY NextTyped, NextClean, NextSwept, CrossedStays DEF IInv
<1>3. SInv => NeverMixed
  BY DEF Swept, Only, NeverMixed
<1> HIDE DEF SInv
<1>4. QED
  BY <1>1, <1>2, <1>3, PTL DEF Spec
=============================================================================
