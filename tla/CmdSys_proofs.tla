---------------------------- MODULE CmdSys_proofs ----------------------------
(***************************************************************************)
(* Theorems of CmdSys: its type invariant, and that a client that waits    *)
(* will be notified, for any commands, any sizes of the queue and of the   *)
(* buffers, and also when commands outlast their clients and the radio     *)
(* loses arguments.  When none of that happens, and no command leaves      *)
(* arguments behind: that commands run as they were sent, once and in      *)
(* order, and that the commands of the immediate stream implement          *)
(* CommandService.                                                         *)
(***************************************************************************)
EXTENDS CmdSys, SequenceLemmas

\* What a stream is made of.
Bits == Parts \cup {NoArgs}

LEMMA ParsedIsCmd ==
  ASSUME NEW part \in Bits
  PROVE  Parse(part) \subseteq Cmds
BY DEF Bits, Parts, Header, Args, NoArgs, Parse

LEMMA PartFacts ==
  ASSUME NEW c \in Cmds
  PROVE  /\ Header(c) \in Bits /\ Args(c) \in Bits
         /\ Bytes(c) \in Seq(Bits) /\ <<Header(c)>> \in Seq(Bits)
         /\ buf_args \in Bits => Item(c) \in Seq(Bits)
<1>1. Header(c) \in Bits /\ Args(c) \in Bits
  BY DEF Bits, Parts
<1>2. ASSUME NEW x \in Bits, NEW y \in Bits PROVE <<x>> \in Seq(Bits) /\ <<x, y>> \in Seq(Bits)
  OBVIOUS
<1>. QED BY <1>1, <1>2 DEF Bytes, Item

\* The parts of TypeOK.
TypeOfStreams ==
  /\ input \in [Clients -> Seq(Bits)] /\ Len(input["sched"]) <= BufferSize
  /\ header \in [Clients -> Cmds \cup {None}]
  /\ buf_args \in Bits /\ args \in Bits
  /\ schedule \in Seq(Seq(Bits)) /\ Len(schedule) <= ScheduleSize

TypeOfControl ==
  /\ note \in [Clients -> Cmds \cup {None}]
  /\ pc["imm"] \in {"recv", "schedule", "push", "enqueue", "wait"}
  /\ pc["sched"] \in {"recv", "enqueue", "wait"} /\ DOMAIN pc = Clients
  /\ cmd_queue \in Seq(Entries) /\ Len(cmd_queue) <= QueueLength
  /\ exec \in {"idle", "invoke", "args", "run", "respond", "callback"}
  /\ job \in Entries /\ spec \in Cmds \cup {None}

\* What becomes of the response to a command.
Replies == [cmd : Cmds, written : BOOLEAN]

TypeOfHistory ==
  /\ sent \in Seq(Cmds)
  /\ ran \in Seq([cmd : Cmds, args : Bits])
  /\ responses \in [Clients -> Seq(Replies)]
  /\ returned \in Seq([cmd : Cmds, status_of : Cmds])

LEMMA TypeParts == TypeOK <=> TypeOfStreams /\ TypeOfControl /\ TypeOfHistory
BY DEF TypeOK, TypeOfStreams, TypeOfControl, TypeOfHistory, Bits, Replies

\* One response more, to the command in the client's struct.
LEMMA RespondOne ==
  ASSUME TypeOfHistory, NEW t \in Clients, header[t] \in Cmds, Respond(t)
  PROVE  /\ responses' \in [Clients -> Seq(Replies)]
         /\ \E w \in Outcomes(t) :
              responses'[t] = Append(responses[t], [cmd |-> header[t], written |-> w])
         /\ \A u \in Clients \ {t} : responses'[u] = responses[u]
<1>1. PICK w \in Outcomes(t) :
        responses' = [responses EXCEPT ![t] = Append(@, [cmd |-> header[t], written |-> w])]
  BY DEF Respond
<1>2. [cmd |-> header[t], written |-> w] \in Replies
  BY DEF Outcomes, Replies
<1>3. Append(responses[t], [cmd |-> header[t], written |-> w]) \in Seq(Replies)
  BY <1>2, AppendProperties DEF TypeOfHistory
<1>. QED BY <1>1, <1>3 DEF TypeOfHistory

\* The commands that responses are about.
Named(rs) == [i \in DOMAIN rs |-> rs[i].cmd]

LEMMA NamedFacts ==
  ASSUME NEW rs \in Seq(Replies)
  PROVE  /\ Named(rs) \in Seq(Cmds) /\ Len(Named(rs)) = Len(rs)
         /\ \A r \in Replies : Named(Append(rs, r)) = Append(Named(rs), r.cmd)
<1>1. /\ DOMAIN rs = 1..Len(rs) /\ Len(rs) \in Nat
      /\ \A i \in 1..Len(rs) : rs[i] \in Replies /\ rs[i].cmd \in Cmds
  <2>1. DOMAIN rs = 1..Len(rs) /\ Len(rs) \in Nat /\ \A i \in 1..Len(rs) : rs[i] \in Replies
    OBVIOUS
  <2>2. \A r \in Replies : r.cmd \in Cmds
    BY DEF Replies
  <2>. QED BY <2>1, <2>2
<1>2. Named(rs) \in Seq(Cmds) /\ Len(Named(rs)) = Len(rs)
  <2>1. Named(rs) \in [1..Len(rs) -> Cmds]
    BY <1>1 DEF Named
  <2>. QED BY <1>1, <2>1
<1>3. ASSUME NEW r \in Replies PROVE Named(Append(rs, r)) = Append(Named(rs), r.cmd)
  <2>1. r.cmd \in Cmds
    BY DEF Replies
  <2>2. /\ Append(rs, r) \in Seq(Replies) /\ Len(Append(rs, r)) = Len(rs) + 1
        /\ DOMAIN Append(rs, r) = 1..(Len(rs) + 1)
        /\ \A i \in 1..Len(rs) : Append(rs, r)[i] = rs[i]
        /\ Append(rs, r)[Len(rs) + 1] = r
    BY <1>1
  <2>3. PICK c, ns : c = r.cmd /\ ns = Named(rs)
    OBVIOUS
  <2>4. ns \in Seq(Cmds) /\ Len(ns) = Len(rs) /\ c \in Cmds
    BY <1>2, <2>1, <2>3
  <2>5. /\ Append(ns, c) \in [1..(Len(rs) + 1) -> Cmds]
        /\ \A i \in 1..Len(rs) : Append(ns, c)[i] = ns[i]
        /\ Append(ns, c)[Len(rs) + 1] = c
    <3>1. /\ Append(ns, c) \in Seq(Cmds) /\ Len(Append(ns, c)) = Len(rs) + 1
          /\ \A i \in 1..Len(ns) : Append(ns, c)[i] = ns[i]
          /\ Append(ns, c)[Len(ns) + 1] = c
      BY <2>4, AppendProperties
    <3>2. PICK a : a = Append(ns, c)
      OBVIOUS
    <3>3. a \in Seq(Cmds) /\ Len(a) = Len(rs) + 1
      BY <3>1, <3>2
    <3>4. a \in [1..(Len(rs) + 1) -> Cmds]
      BY <3>3
    <3>. QED BY <2>4, <3>1, <3>2, <3>4
  <2>6. \A i \in 1..(Len(rs) + 1) : Append(rs, r)[i].cmd = Append(ns, c)[i]
    <3>1. \A i \in 1..Len(rs) : ns[i] = rs[i].cmd
      BY <1>1, <2>3 DEF Named
    <3>. QED BY <1>1, <2>2, <2>3, <2>5, <3>1
  <2>. QED BY <2>2, <2>3, <2>5, <2>6 DEF Named
<1>. QED BY <1>2, <1>3

----------------------------------------------------------------------------

\* A struct that is used holds a command: it was written before the client left "recv", and
\* an entry of the queue points to one that was.
Headers == \A t \in Clients : pc[t] # "recv" => header[t] \in Cmds

Pointed(e) == e.cmd \in Cmds /\ header[e.client] \in Cmds

Queued == \A i \in 1..Len(cmd_queue) : Pointed(cmd_queue[i])

Executing ==
  /\ exec # "idle" => Pointed(job)
  /\ exec \in {"args", "run", "respond", "callback"} => spec \in Cmds

\* Why a client that waits will be notified: an entry of it is queued, or worked on.
Awaited(t) ==
  \/ note[t] # None
  \/ exec # "idle" /\ job.client = t
  \/ \E i \in 1..Len(cmd_queue) : cmd_queue[i].client = t

Waiting == \A t \in Clients : pc[t] = "wait" => Awaited(t)

CmdInv ==
  /\ TypeOfStreams /\ TypeOfControl /\ TypeOfHistory
  /\ Headers /\ Queued /\ Executing /\ Waiting

USE CmdsAssumption, SizesAssumption DEF Clients

LEMMA InitCmdInv == Init => CmdInv
<1>. SUFFICES ASSUME Init PROVE CmdInv
  OBVIOUS
<1>1. TypeOfStreams
  <2>1. NoArgs \in Bits /\ <<>> \in Seq(Bits) /\ Len(<<>>) = 0 /\ <<>> \in Seq(Seq(Bits))
    BY DEF Bits
  <2>. QED BY <2>1 DEF Init, TypeOfStreams
<1>2. TypeOfControl
  BY DEF Init, TypeOfControl, NoJob, Entries
<1>3. TypeOfHistory
  BY DEF Init, TypeOfHistory
<1>4. Headers /\ Queued /\ Executing /\ Waiting
  BY DEF Init, Headers, Queued, Executing, Waiting
<1>. QED BY <1>1, <1>2, <1>3, <1>4 DEF CmdInv

\* A step that changes neither the queue, nor the work, nor the structs keeps what is said of
\* them, and those who wait.
LEMMA WorkKept ==
  ASSUME CmdInv, cmd_queue' = cmd_queue, exec' = exec, job' = job, spec' = spec,
         note' = note, header' = header,
         \A t \in Clients : pc'[t] \in {pc[t], "recv"} \/ (pc[t] # "recv" /\ pc'[t] # "wait")
  PROVE  Headers' /\ Queued' /\ Executing' /\ Waiting'
BY DEF CmdInv, Headers, Queued, Executing, Waiting, Pointed, Awaited

LEMMA SendInv ==
  ASSUME CmdInv, NEW c \in Cmds, Send(c)
  PROVE  CmdInv'
<1>1. TypeOfStreams'
  <2>1. PICK bytes \in Seq(Bits) : input' = [input EXCEPT !["imm"] = @ \o bytes]
    BY PartFacts DEF Send
  <2>2. input["imm"] \o bytes \in Seq(Bits)
    BY ConcatProperties DEF CmdInv, TypeOfStreams
  <2>. QED BY <2>1, <2>2 DEF Send, CmdInv, TypeOfStreams
<1>2. TypeOfControl'
  BY DEF Send, CmdInv, TypeOfControl
<1>3. TypeOfHistory'
  BY AppendProperties DEF Send, CmdInv, TypeOfHistory, history
<1>4. Headers' /\ Queued' /\ Executing' /\ Waiting'
  BY WorkKept DEF Send
<1>. QED BY <1>1, <1>2, <1>3, <1>4 DEF CmdInv


----------------------------------------------------------------------------
(* The clients. *)

LEMMA RecvHeaderInv ==
  ASSUME CmdInv, NEW t \in Clients, RecvHeader(t)
  PROVE  CmdInv'
<1>1. input[t] \in Seq(Bits) /\ input[t] # <<>>
  BY DEF RecvHeader, CmdInv, TypeOfStreams
<1>2. Head(input[t]) \in Bits /\ Tail(input[t]) \in Seq(Bits) /\ Len(Tail(input[t])) <= Len(input[t])
  BY <1>1
<1>3. PICK c \in Cmds : /\ header' = [header EXCEPT ![t] = c]
                        /\ Goto(t, IF t = "imm" /\ c.scheduled THEN "schedule" ELSE "enqueue")
  BY <1>2, ParsedIsCmd DEF RecvHeader
<1>4. TypeOfStreams'
  BY <1>1, <1>2, <1>3 DEF RecvHeader, CmdInv, TypeOfStreams
<1>5. TypeOfControl'
  BY <1>3 DEF RecvHeader, Goto, CmdInv, TypeOfControl
<1>6. TypeOfHistory'
  BY DEF RecvHeader, CmdInv, TypeOfHistory, history
<1>7. pc'[t] \notin {"recv", "wait"} /\ \A u \in Clients \ {t} : pc'[u] = pc[u] /\ header'[u] = header[u]
  BY <1>3 DEF Goto, CmdInv, TypeOfControl, TypeOfStreams
<1>8. header'[t] = c
  BY <1>3 DEF CmdInv, TypeOfStreams
<1>9. Headers' /\ Waiting'
  BY <1>7, <1>8 DEF RecvHeader, CmdInv, Headers, Waiting, Awaited
<1>10. \A e \in Entries : Pointed(e) => Pointed(e)'
  BY <1>7, <1>8 DEF Pointed, Entries
<1>11. Queued' /\ Executing'
  <2>1. job \in Entries /\ \A i \in 1..Len(cmd_queue) : cmd_queue[i] \in Entries
    BY DEF CmdInv, TypeOfControl
  <2>2. Queued'
    BY <1>10, <2>1 DEF RecvHeader, CmdInv, Queued, Pointed
  <2>3. Executing'
    BY <1>10, <2>1 DEF RecvHeader, CmdInv, Executing, Pointed
  <2>. QED BY <2>2, <2>3
<1>. QED BY <1>4, <1>5, <1>6, <1>9, <1>11 DEF CmdInv

LEMMA EnqueueInv ==
  ASSUME CmdInv, NEW t \in Clients, Enqueue(t)
  PROVE  CmdInv'
<1>. DEFINE new == [client |-> t, cmd |-> header[t]]
<1>1. header[t] \in Cmds
  BY DEF Enqueue, CmdInv, Headers
<1>2. new \in Entries /\ Pointed(new)
  BY <1>1 DEF Entries, Pointed
<1>3. cmd_queue \in Seq(Entries) /\ cmd_queue' = Append(cmd_queue, new)
  BY DEF Enqueue, CmdInv, TypeOfControl
<1>. HIDE DEF new
<1>4. /\ cmd_queue' \in Seq(Entries) /\ Len(cmd_queue') = Len(cmd_queue) + 1
      /\ cmd_queue'[Len(cmd_queue) + 1] = new
      /\ \A i \in 1..Len(cmd_queue) : cmd_queue'[i] = cmd_queue[i]
  BY <1>2, <1>3, AppendProperties
<1>5. TypeOfStreams' /\ TypeOfHistory'
  BY DEF Enqueue, CmdInv, TypeOfStreams, TypeOfHistory, history
<1>6. TypeOfControl'
  BY <1>4 DEF Enqueue, Goto, CmdInv, TypeOfControl
<1>7. Queued'
  BY <1>2, <1>3, <1>4 DEF Enqueue, CmdInv, Queued, Pointed
<1>8. Executing'
  BY DEF Enqueue, CmdInv, Executing, Pointed
<1>9. Headers'
  BY <1>1 DEF Enqueue, Goto, CmdInv, TypeOfControl, Headers
<1>10. new.client = t
  BY DEF new
<1>11. Waiting'
  <2>1. Len(cmd_queue') \in Nat /\ Len(cmd_queue) + 1 \in 1..Len(cmd_queue')
    BY <1>3, <1>4
  <2>2. Awaited(t)'
    BY <1>4, <1>10, <2>1 DEF Awaited
  <2>3. ASSUME NEW u \in Clients, u # t, pc'[u] = "wait" PROVE Awaited(u)'
    <3>1. pc[u] = "wait"
      BY <2>3 DEF Enqueue, Goto, CmdInv, TypeOfControl
    <3>2. Awaited(u)
      BY <3>1 DEF CmdInv, Waiting
    <3>3. 1..Len(cmd_queue) \subseteq 1..Len(cmd_queue')
      BY <1>3, <1>4
    <3>. QED BY <1>4, <3>2, <3>3 DEF Enqueue, Awaited
  <2>. QED BY <2>2, <2>3 DEF Waiting
<1>. QED BY <1>5, <1>6, <1>7, <1>8, <1>9, <1>11 DEF CmdInv

LEMMA EnqueueFullInv ==
  ASSUME CmdInv, NEW t \in Clients, EnqueueFull(t)
  PROVE  CmdInv'
<1>1. TypeOfStreams' /\ TypeOfHistory'
  BY DEF EnqueueFull, CmdInv, TypeOfStreams, TypeOfHistory, history
<1>2. TypeOfControl'
  BY DEF EnqueueFull, Goto, CmdInv, TypeOfControl
<1>3. \A u \in Clients : pc'[u] \in {pc[u], "recv"}
  BY DEF EnqueueFull, Goto, CmdInv, TypeOfControl
<1>4. Headers' /\ Queued' /\ Executing' /\ Waiting'
  BY <1>3, WorkKept DEF EnqueueFull
<1>. QED BY <1>1, <1>2, <1>4 DEF CmdInv

LEMMA DoneInv ==
  ASSUME CmdInv, NEW t \in Clients, Done(t)
  PROVE  CmdInv'
<1>1. TypeOfStreams'
  BY DEF Done, CmdInv, TypeOfStreams
<1>2. TypeOfControl'
  BY DEF Done, Goto, CmdInv, TypeOfControl
<1>3. TypeOfHistory'
  <2>1. header[t] \in Cmds /\ note[t] \in Cmds
    BY DEF Done, CmdInv, TypeOfControl, Headers
  <2>2. [cmd |-> header[t], status_of |-> note[t]] \in [cmd : Cmds, status_of : Cmds]
    BY <2>1
  <2>. QED BY <2>2, AppendProperties DEF Done, CmdInv, TypeOfHistory
<1>4. /\ pc'[t] = "recv" /\ \A u \in Clients \ {t} : pc'[u] = pc[u] /\ note'[u] = note[u]
  BY DEF Done, Goto, CmdInv, TypeOfControl
<1>5. Headers' /\ Waiting'
  BY <1>4 DEF Done, CmdInv, Headers, Waiting, Awaited
<1>6. Queued' /\ Executing'
  BY DEF Done, CmdInv, Queued, Executing, Pointed
<1>. QED BY <1>1, <1>2, <1>3, <1>5, <1>6 DEF CmdInv

LEMMA ExecTimeoutInv ==
  ASSUME CmdInv, NEW t \in Clients, ExecTimeout(t)
  PROVE  CmdInv'
<1>1. TypeOfStreams' /\ TypeOfHistory'
  BY DEF ExecTimeout, CmdInv, TypeOfStreams, TypeOfHistory, history
<1>2. TypeOfControl'
  BY DEF ExecTimeout, Goto, CmdInv, TypeOfControl
<1>3. \A u \in Clients : pc'[u] \in {pc[u], "recv"}
  BY DEF ExecTimeout, Goto, CmdInv, TypeOfControl
<1>4. Headers' /\ Queued' /\ Executing' /\ Waiting'
  BY <1>3, WorkKept DEF ExecTimeout
<1>. QED BY <1>1, <1>2, <1>4 DEF CmdInv

----------------------------------------------------------------------------
(* The schedule and the RTC task. *)

LEMMA ScheduleTooLargeInv ==
  ASSUME CmdInv, ScheduleTooLarge
  PROVE  CmdInv'
<1>1. TypeOfStreams' /\ TypeOfHistory'
  BY DEF ScheduleTooLarge, CmdInv, TypeOfStreams, TypeOfHistory, history
<1>2. TypeOfControl'
  BY DEF ScheduleTooLarge, Goto, CmdInv, TypeOfControl
<1>3. \A u \in Clients : pc'[u] \in {pc[u], "recv"}
  BY DEF ScheduleTooLarge, Goto, CmdInv, TypeOfControl
<1>4. Headers' /\ Queued' /\ Executing' /\ Waiting'
  BY <1>3, WorkKept DEF ScheduleTooLarge
<1>. QED BY <1>1, <1>2, <1>4 DEF CmdInv

LEMMA ScheduleArgsInv ==
  ASSUME CmdInv, ScheduleArgs
  PROVE  CmdInv'
<1>1. TypeOfStreams'
  <2>1. buf_args' \in Bits /\ input' \in [Clients -> Seq(Bits)] /\ input'["sched"] = input["sched"]
    <3>1. CASE header["imm"].args
      <4>1. input["imm"] \in Seq(Bits) /\ input["imm"] # <<>>
        BY <3>1 DEF ScheduleArgs, CmdInv, TypeOfStreams
      <4>2. Head(input["imm"]) \in Bits /\ Tail(input["imm"]) \in Seq(Bits)
        BY <4>1
      <4>3. buf_args' = Head(input["imm"]) /\ input' = [input EXCEPT !["imm"] = Tail(@)]
        BY <3>1 DEF ScheduleArgs
      <4>. QED BY <4>2, <4>3 DEF CmdInv, TypeOfStreams
    <3>2. CASE ~header["imm"].args
      <4>1. NoArgs \in Bits
        BY DEF Bits
      <4>. QED BY <3>2, <4>1 DEF ScheduleArgs, CmdInv, TypeOfStreams
    <3>. QED BY <3>1, <3>2
  <2>. QED BY <2>1 DEF ScheduleArgs, CmdInv, TypeOfStreams
<1>2. TypeOfControl'
  BY DEF ScheduleArgs, Goto, CmdInv, TypeOfControl
<1>3. TypeOfHistory'
  BY DEF ScheduleArgs, CmdInv, TypeOfHistory, history
<1>4. /\ pc["imm"] = "schedule" /\ pc'["imm"] = "push"
      /\ \A u \in Clients \ {"imm"} : pc'[u] = pc[u]
  BY DEF ScheduleArgs, Goto, CmdInv, TypeOfControl
<1>5. Headers' /\ Queued' /\ Executing' /\ Waiting'
  BY <1>4, WorkKept DEF ScheduleArgs
<1>. QED BY <1>1, <1>2, <1>3, <1>5 DEF CmdInv

LEMMA SchedulePushInv ==
  ASSUME CmdInv, SchedulePush
  PROVE  CmdInv'
<1>1. header["imm"] \in Cmds
  BY DEF SchedulePush, CmdInv, Headers
<1>2. TypeOfStreams'
  <2>1. Item(header["imm"]) \in Seq(Bits)
    BY <1>1, PartFacts DEF CmdInv, TypeOfStreams
  <2>. DEFINE item == Item(header["imm"])
  <2>2. schedule' = schedule \/ (Len(schedule) < ScheduleSize /\ schedule' = Append(schedule, item))
    BY DEF SchedulePush, Pushed
  <2>. HIDE DEF item
  <2>3. item \in Seq(Bits)
    BY <2>1 DEF item
  <2>4. schedule' \in Seq(Seq(Bits)) /\ Len(schedule') <= ScheduleSize
    <3>1. schedule \in Seq(Seq(Bits)) /\ Len(schedule) \in Nat /\ Len(schedule) <= ScheduleSize
      BY DEF CmdInv, TypeOfStreams
    <3>2. Append(schedule, item) \in Seq(Seq(Bits)) /\ Len(Append(schedule, item)) = Len(schedule) + 1
      BY <2>3, <3>1, AppendProperties
    <3>3. ScheduleSize \in Nat
      BY SizesAssumption
    <3>4. CASE schedule' = schedule
      BY <3>1, <3>4
    <3>5. CASE Len(schedule) < ScheduleSize /\ schedule' = Append(schedule, item)
      <4>1. Len(schedule) + 1 <= ScheduleSize
        BY <3>1, <3>3, <3>5
      <4>. QED BY <3>2, <3>5, <4>1
    <3>. QED BY <2>2, <3>4, <3>5
  <2>. QED BY <2>4 DEF SchedulePush, CmdInv, TypeOfStreams
<1>3. TypeOfControl'
  BY DEF SchedulePush, Goto, CmdInv, TypeOfControl
<1>4. TypeOfHistory'
  <2>1. "imm" \in Clients
    BY DEF Clients
  <2>2. responses' \in [Clients -> Seq(Replies)]
    BY <1>1, <2>1, RespondOne DEF SchedulePush, CmdInv
  <2>. QED BY <2>2 DEF SchedulePush, CmdInv, TypeOfHistory
<1>5. \A u \in Clients : pc'[u] \in {pc[u], "recv"}
  BY DEF SchedulePush, Goto, CmdInv, TypeOfControl
<1>6. Headers' /\ Queued' /\ Executing' /\ Waiting'
  BY <1>5, WorkKept DEF SchedulePush
<1>. QED BY <1>2, <1>3, <1>4, <1>6 DEF CmdInv

\* What either way of dispatching does to the streams and the schedule.
LEMMA Dispatched ==
  ASSUME CmdInv, NEW i \in 1..Len(schedule), NEW bytes \in Seq(Bits),
         Len(bytes) <= Room,
         input' = [input EXCEPT !["sched"] = @ \o bytes],
         schedule' = RemoveAt(schedule, i),
         UNCHANGED <<header, buf_args, pc, note, cmd_queue, exec, job, spec, args, sent, history>>
  PROVE  CmdInv'
<1>1. TypeOfStreams'
  <2>1. input["sched"] \in Seq(Bits) /\ Len(input["sched"]) \in Nat
    BY DEF CmdInv, TypeOfStreams
  <2>2. /\ input["sched"] \o bytes \in Seq(Bits)
        /\ Len(input["sched"] \o bytes) = Len(input["sched"]) + Len(bytes)
    BY <2>1, ConcatProperties
  <2>3. Len(bytes) \in Nat
    OBVIOUS
  <2>4. input' \in [Clients -> Seq(Bits)] /\ Len(input'["sched"]) <= BufferSize
    BY <2>1, <2>2, <2>3 DEF Room, CmdInv, TypeOfStreams
  <2>5. schedule \in Seq(Seq(Bits)) /\ i \in 1..Len(schedule)
    BY DEF CmdInv, TypeOfStreams
  <2>6. RemoveAt(schedule, i) \in Seq(Seq(Bits)) /\ Len(RemoveAt(schedule, i)) <= Len(schedule)
    <3>1. SubSeq(schedule, 1, i - 1) \in Seq(Seq(Bits)) /\ Len(SubSeq(schedule, 1, i - 1)) = i - 1
      BY <2>5, SubSeqProperties
    <3>2. /\ SubSeq(schedule, i + 1, Len(schedule)) \in Seq(Seq(Bits))
          /\ Len(SubSeq(schedule, i + 1, Len(schedule))) = Len(schedule) - i
      BY <2>5, SubSeqProperties
    <3>. DEFINE front == SubSeq(schedule, 1, i - 1)
                rest == SubSeq(schedule, i + 1, Len(schedule))
    <3>3. RemoveAt(schedule, i) = front \o rest
      BY DEF RemoveAt
    <3>. HIDE DEF front, rest
    <3>4. front \in Seq(Seq(Bits)) /\ rest \in Seq(Seq(Bits))
      BY <3>1, <3>2 DEF front, rest
    <3>5. Len(front) = i - 1 /\ Len(rest) = Len(schedule) - i
      BY <3>1, <3>2 DEF front, rest
    <3>6. front \o rest \in Seq(Seq(Bits)) /\ Len(front \o rest) = Len(front) + Len(rest)
      BY <3>4, ConcatProperties
    <3>. QED BY <2>5, <3>3, <3>5, <3>6
  <2>. QED BY <2>4, <2>6 DEF CmdInv, TypeOfStreams
<1>2. TypeOfControl' /\ TypeOfHistory'
  BY DEF CmdInv, TypeOfControl, TypeOfHistory, history
<1>3. Headers' /\ Queued' /\ Executing' /\ Waiting'
  BY WorkKept
<1>. QED BY <1>1, <1>2, <1>3 DEF CmdInv

LEMMA DispatchInv ==
  ASSUME CmdInv, Dispatch
  PROVE  CmdInv'
<1>1. PICK i \in 1..Len(schedule) :
        /\ Len(schedule[i]) <= Room
        /\ input' = [input EXCEPT !["sched"] = @ \o schedule[i]]
        /\ schedule' = RemoveAt(schedule, i)
        /\ UNCHANGED <<header, buf_args, pc, note, cmd_queue, exec, job, spec, args, sent, history>>
  BY DEF Dispatch
<1>2. schedule[i] \in Seq(Bits)
  BY DEF CmdInv, TypeOfStreams
<1>. QED BY <1>1, <1>2, Dispatched

LEMMA DispatchPartInv ==
  ASSUME CmdInv, DispatchPart
  PROVE  CmdInv'
<1>1. PICK i \in 1..Len(schedule) :
        /\ Len(schedule[i]) > Room
        /\ input' = [input EXCEPT !["sched"] = @ \o SubSeq(schedule[i], 1, Room)]
        /\ schedule' = RemoveAt(schedule, i)
        /\ UNCHANGED <<header, buf_args, pc, note, cmd_queue, exec, job, spec, args, sent, history>>
  BY DEF DispatchPart
<1>2. schedule[i] \in Seq(Bits) /\ Room \in Nat
  BY DEF CmdInv, TypeOfStreams, Room
<1>3. SubSeq(schedule[i], 1, Room) \in Seq(Bits) /\ Len(SubSeq(schedule[i], 1, Room)) = Room
  BY <1>1, <1>2, SubSeqProperties
<1>4. Len(SubSeq(schedule[i], 1, Room)) <= Room
  BY <1>2, <1>3
<1>. QED BY <1>1, <1>3, <1>4, Dispatched

----------------------------------------------------------------------------
(* The CMD_SYS_EXEC task. *)

LEMMA ExecReceiveInv ==
  ASSUME CmdInv, ExecReceive
  PROVE  CmdInv'
<1>1. cmd_queue \in Seq(Entries) /\ cmd_queue # <<>>
  BY DEF ExecReceive, CmdInv, TypeOfControl
<1>2. /\ job' = cmd_queue[1] /\ job' \in Entries
      /\ cmd_queue' \in Seq(Entries) /\ Len(cmd_queue') = Len(cmd_queue) - 1
      /\ \A i \in 1..Len(cmd_queue') : cmd_queue'[i] = cmd_queue[i + 1]
  BY <1>1, HeadTailProperties DEF ExecReceive
<1>3. Len(cmd_queue) \in Nat \ {0}
  BY <1>1
<1>4. TypeOfStreams' /\ TypeOfHistory'
  BY DEF ExecReceive, CmdInv, TypeOfStreams, TypeOfHistory, history
<1>5. TypeOfControl'
  BY <1>2, <1>3 DEF ExecReceive, CmdInv, TypeOfControl
<1>6. Headers'
  BY DEF ExecReceive, CmdInv, Headers
<1>7. \A i \in 1..Len(cmd_queue) : Pointed(cmd_queue[i])
  BY DEF CmdInv, Queued
<1>8. Queued' /\ Executing'
  BY <1>2, <1>3, <1>7 DEF ExecReceive, CmdInv, Queued, Executing, Pointed
<1>9. Waiting'
  <2>. SUFFICES ASSUME NEW t \in Clients, pc[t] = "wait" PROVE Awaited(t)'
    BY DEF ExecReceive, Waiting
  <2>1. note[t] # None \/ \E i \in 1..Len(cmd_queue) : cmd_queue[i].client = t
    BY DEF ExecReceive, CmdInv, Waiting, Awaited
  <2>2. CASE note[t] # None
    BY <2>2 DEF ExecReceive, Awaited
  <2>3. ASSUME NEW i \in 1..Len(cmd_queue), cmd_queue[i].client = t PROVE Awaited(t)'
    <3>1. CASE i = 1
      BY <1>2, <2>3, <3>1 DEF ExecReceive, Awaited
    <3>2. CASE i # 1
      <4>1. i - 1 \in 1..Len(cmd_queue') /\ (i - 1) + 1 = i
        BY <1>2, <1>3, <3>2
      <4>2. cmd_queue'[i - 1].client = t
        BY <1>2, <2>3, <4>1
      <4>. QED BY <4>1, <4>2 DEF Awaited
    <3>. QED BY <3>1, <3>2
  <2>. QED BY <2>1, <2>2, <2>3
<1>. QED BY <1>4, <1>5, <1>6, <1>8, <1>9 DEF CmdInv

\* A step of CMD_SYS_EXEC inside a command.
LEMMA Inside ==
  ASSUME CmdInv, exec # "idle", exec' # "idle", UNCHANGED <<header, pc, note, cmd_queue, job>>,
         exec' \in {"args", "run", "respond", "callback"} => spec' \in Cmds
  PROVE  Headers' /\ Queued' /\ Executing' /\ Waiting'
BY DEF CmdInv, Headers, Queued, Executing, Waiting, Awaited, Pointed

LEMMA ExecInvokeInv ==
  ASSUME CmdInv, ExecInvoke
  PROVE  CmdInv'
<1>1. job \in Entries /\ header[job.client] \in Cmds
  BY DEF ExecInvoke, CmdInv, TypeOfControl, Executing, Pointed
<1>2. spec' \in Cmds /\ exec' = NextStep(spec')
  BY <1>1 DEF ExecInvoke
<1>3. exec' \in {"args", "run", "respond", "callback"}
  <2>1. spec'.kind \in {"ok", "dne", "invalid"} /\ spec'.args \in BOOLEAN
    BY <1>2
  <2>2. CASE spec'.kind = "invalid"
    BY <1>2, <2>2 DEF NextStep
  <2>3. CASE spec'.kind = "dne"
    BY <1>2, <2>3 DEF NextStep
  <2>4. CASE spec'.kind = "ok" /\ spec'.args
    BY <1>2, <2>4 DEF NextStep
  <2>5. CASE spec'.kind = "ok" /\ ~spec'.args
    BY <1>2, <2>5 DEF NextStep
  <2>. QED BY <2>1, <2>2, <2>3, <2>4, <2>5
<1>4. NoArgs \in Bits
  BY DEF Bits
<1>5. TypeOfStreams' /\ TypeOfHistory'
  BY <1>4 DEF ExecInvoke, CmdInv, TypeOfStreams, TypeOfHistory, history
<1>6. TypeOfControl'
  BY <1>2, <1>3 DEF ExecInvoke, CmdInv, TypeOfControl
<1>7. Headers' /\ Queued' /\ Executing' /\ Waiting'
  BY <1>2, <1>3, Inside DEF ExecInvoke
<1>. QED BY <1>5, <1>6, <1>7 DEF CmdInv

LEMMA ExecArgsInv ==
  ASSUME CmdInv, ExecArgs
  PROVE  CmdInv'
<1>1. job.client \in Clients /\ spec \in Cmds
  BY DEF ExecArgs, CmdInv, TypeOfControl, Entries, Executing
<1>2. input[job.client] \in Seq(Bits) /\ input[job.client] # <<>>
  BY <1>1 DEF ExecArgs, CmdInv, TypeOfStreams
<1>3. /\ Head(input[job.client]) \in Bits /\ Tail(input[job.client]) \in Seq(Bits)
      /\ Len(Tail(input[job.client])) <= Len(input[job.client])
  BY <1>2
<1>4. TypeOfStreams'
  BY <1>1, <1>3 DEF ExecArgs, CmdInv, TypeOfStreams
<1>5. TypeOfControl' /\ TypeOfHistory'
  BY DEF ExecArgs, CmdInv, TypeOfControl, TypeOfHistory, history
<1>6. Headers' /\ Queued' /\ Executing' /\ Waiting'
  BY <1>1, Inside DEF ExecArgs
<1>. QED BY <1>4, <1>5, <1>6 DEF CmdInv

LEMMA ExecArgsTimeoutInv ==
  ASSUME CmdInv, ExecArgsTimeout
  PROVE  CmdInv'
<1>1. TypeOfStreams' /\ TypeOfControl' /\ TypeOfHistory'
  BY DEF ExecArgsTimeout, CmdInv, TypeOfStreams, TypeOfControl, TypeOfHistory, history
<1>2. Headers' /\ Queued' /\ Executing' /\ Waiting'
  BY Inside DEF ExecArgsTimeout, CmdInv, Executing
<1>. QED BY <1>1, <1>2 DEF CmdInv

LEMMA ExecRunInv ==
  ASSUME CmdInv, ExecRun
  PROVE  CmdInv'
<1>1. spec \in Cmds /\ args \in Bits
  BY DEF ExecRun, CmdInv, Executing, TypeOfStreams
<1>2. [cmd |-> spec, args |-> args] \in [cmd : Cmds, args : Bits]
  BY <1>1
<1>3. TypeOfStreams' /\ TypeOfControl'
  BY DEF ExecRun, CmdInv, TypeOfStreams, TypeOfControl
<1>4. TypeOfHistory'
  BY <1>2, AppendProperties DEF ExecRun, CmdInv, TypeOfHistory
<1>5. Headers' /\ Queued' /\ Executing' /\ Waiting'
  BY <1>1, Inside DEF ExecRun
<1>. QED BY <1>3, <1>4, <1>5 DEF CmdInv

LEMMA ExecRespondInv ==
  ASSUME CmdInv, ExecRespond
  PROVE  CmdInv'
<1>1. job.client \in Clients /\ header[job.client] \in Cmds
  BY DEF ExecRespond, CmdInv, TypeOfControl, Entries, Executing, Pointed
<1>2. TypeOfStreams' /\ TypeOfControl'
  BY DEF ExecRespond, CmdInv, TypeOfStreams, TypeOfControl
<1>3. TypeOfHistory'
  <2>1. responses' \in [Clients -> Seq(Replies)]
    BY <1>1, RespondOne DEF ExecRespond, CmdInv
  <2>. QED BY <2>1 DEF ExecRespond, CmdInv, TypeOfHistory
<1>4. Headers' /\ Queued' /\ Executing' /\ Waiting'
  BY Inside DEF ExecRespond, CmdInv, Executing
<1>. QED BY <1>2, <1>3, <1>4 DEF CmdInv

LEMMA ExecCallbackInv ==
  ASSUME CmdInv, ExecCallback
  PROVE  CmdInv'
<1>1. job.client \in Clients /\ job.cmd \in Cmds /\ note' = [note EXCEPT ![job.client] = job.cmd]
  BY DEF ExecCallback, CmdInv, TypeOfControl, Entries, Executing, Pointed
<1>2. TypeOfStreams' /\ TypeOfHistory'
  BY DEF ExecCallback, CmdInv, TypeOfStreams, TypeOfHistory, history
<1>3. TypeOfControl'
  BY <1>1 DEF ExecCallback, NoJob, Entries, CmdInv, TypeOfControl
<1>4. Headers' /\ Queued' /\ Executing'
  BY DEF ExecCallback, CmdInv, Headers, Queued, Executing, Pointed
<1>5. note'[job.client] # None /\ \A t \in Clients \ {job.client} : note'[t] = note[t]
  BY <1>1 DEF CmdInv, TypeOfControl
<1>6. Waiting'
  BY <1>5 DEF ExecCallback, CmdInv, Waiting, Awaited
<1>. QED BY <1>2, <1>3, <1>4, <1>6 DEF CmdInv

----------------------------------------------------------------------------

LEMMA NextCmdInv == CmdInv /\ [Next]_vars => CmdInv'
<1>. SUFFICES ASSUME CmdInv, [Next]_vars PROVE CmdInv'
  OBVIOUS
<1>1. ASSUME NEW c \in Cmds, Send(c) PROVE CmdInv'
  BY <1>1, SendInv
<1>2. ASSUME NEW t \in Clients, Client(t) \/ ExecTimeout(t) PROVE CmdInv'
  BY <1>2, RecvHeaderInv, EnqueueInv, EnqueueFullInv, DoneInv, ExecTimeoutInv DEF Client
<1>3. CASE Schedule
  BY <1>3, ScheduleTooLargeInv, ScheduleArgsInv, SchedulePushInv DEF Schedule
<1>4. CASE Rtc
  BY <1>4, DispatchInv, DispatchPartInv DEF Rtc
<1>5. CASE Exec
  BY <1>5, ExecReceiveInv, ExecInvokeInv, ExecArgsInv, ExecArgsTimeoutInv, ExecRespondInv,
     ExecCallbackInv DEF Exec
<1>6. CASE ExecRun
  BY <1>6, ExecRunInv
<1>7. CASE UNCHANGED vars
  BY <1>7 DEF vars, CmdInv, TypeOfStreams, TypeOfControl, TypeOfHistory, Headers, Queued,
     Executing, Waiting, Awaited, Pointed
<1>. QED BY <1>1, <1>2, <1>3, <1>4, <1>5, <1>6, <1>7 DEF Next

LEMMA AlwaysCmdInv == Spec => []CmdInv
BY InitCmdInv, NextCmdInv, PTL DEF Spec

\* The type invariant: what the tasks keep in their structs, streams and queue is what they
\* take it for, and neither the queue nor the stream buffer grows past its size.
THEOREM TypeCorrect == Spec => []TypeOK
<1>1. CmdInv => TypeOK
  BY TypeParts DEF CmdInv
<1>. QED BY <1>1, AlwaysCmdInv, PTL

\* A client of CMD_SYS_EXEC that waits in cmd_sys_execute will be notified: its command is
\* queued or executed, or the notification is there, also if the command found no function,
\* no arguments or no room, and whatever the other client does.
THEOREM NoLostWakeupCorrect == Spec => []NoLostWakeup
<1>1. CmdInv => NoLostWakeup
  <2>. SUFFICES ASSUME CmdInv, NEW t \in Clients, pc[t] = "wait", note[t] = None
                PROVE  \E e \in Work : e.client = t
    BY DEF NoLostWakeup
  <2>1. Awaited(t)
    BY DEF CmdInv, Waiting
  <2>2. CASE exec # "idle" /\ job.client = t
    BY <2>2 DEF Work
  <2>3. ASSUME NEW i \in 1..Len(cmd_queue), cmd_queue[i].client = t
        PROVE  \E e \in Work : e.client = t
    <3>1. cmd_queue[i] \in Range(cmd_queue)
      BY DEF CmdInv, TypeOfControl, Range
    <3>. QED BY <2>3, <3>1 DEF Work
  <2>. QED BY <2>1, <2>2, <2>3 DEF Awaited
<1>. QED BY <1>1, AlwaysCmdInv, PTL

----------------------------------------------------------------------------
\* As long as no command outlasts its client, a client has at most one entry, job or
\* notification, for the command in its struct, and waits for it.

Asks(e) == pc[e.client] = "wait" /\ e.cmd = header[e.client] /\ note[e.client] = None

OneEach ==
  /\ \A i \in 1..Len(cmd_queue) :
       /\ Asks(cmd_queue[i])
       /\ exec # "idle" => job.client # cmd_queue[i].client
  /\ \A i, j \in 1..Len(cmd_queue) : cmd_queue[i].client = cmd_queue[j].client => i = j
  /\ exec # "idle" => Asks(job)

Told == \A t \in Clients : note[t] # None => pc[t] = "wait" /\ note[t] = header[t]

Own == \A i \in 1..Len(returned) : returned[i].status_of = returned[i].cmd

Synchronous == OneEach /\ Told /\ Own

LEMMA InitSynchronous == Init => Synchronous
BY DEF Init, Synchronous, OneEach, Told, Own

\* The entries of the queue and the job are made by clients.
LEMMA EntriesOfClients ==
  ASSUME CmdInv
  PROVE  job.client \in Clients /\ \A i \in 1..Len(cmd_queue) : cmd_queue[i].client \in Clients
<1>1. job \in Entries /\ \A i \in 1..Len(cmd_queue) : cmd_queue[i] \in Entries
  BY DEF CmdInv, TypeOfControl
<1>. QED BY <1>1 DEF Entries

\* A client that does not wait moves on, and may read its next header.
LEMMA OtherPlace ==
  ASSUME CmdInv, Synchronous, NEW t \in Clients, pc[t] # "wait",
         \A u \in Clients \ {t} : pc'[u] = pc[u] /\ header'[u] = header[u],
         UNCHANGED <<note, cmd_queue, exec, job, returned>>
  PROVE  Synchronous'
<1>1. note[t] = None
  BY DEF Synchronous, Told
<1>2. \A i \in 1..Len(cmd_queue) : cmd_queue[i].client \in Clients \ {t}
  BY EntriesOfClients DEF Synchronous, OneEach, Asks
<1>3. exec # "idle" => job.client \in Clients \ {t}
  BY EntriesOfClients DEF Synchronous, OneEach, Asks
<1>4. OneEach'
  BY <1>2, <1>3 DEF Synchronous, OneEach, Asks
<1>5. Told'
  BY <1>1 DEF Synchronous, Told
<1>. QED BY <1>4, <1>5 DEF Synchronous, Own

\* A step inside a command, or away from the queue.
LEMMA NoPlace ==
  ASSUME Synchronous, UNCHANGED <<pc, header, note, cmd_queue, job, returned>>,
         exec' # "idle" => exec # "idle"
  PROVE  Synchronous'
BY DEF Synchronous, OneEach, Told, Own, Asks

LEMMA EnqueueSynchronous ==
  ASSUME CmdInv, Synchronous, NEW t \in Clients, Enqueue(t)
  PROVE  Synchronous'
<1>. DEFINE new == [client |-> t, cmd |-> header[t]]
<1>1. /\ pc[t] = "enqueue" /\ pc'[t] = "wait" /\ \A u \in Clients \ {t} : pc'[u] = pc[u]
      /\ UNCHANGED <<header, note, exec, job, returned>>
  BY DEF Enqueue, Goto, CmdInv, TypeOfControl, history
<1>2. new \in Entries /\ new.client = t /\ new.cmd = header[t]
  BY DEF Entries, CmdInv, TypeOfStreams
<1>3. cmd_queue \in Seq(Entries) /\ cmd_queue' = Append(cmd_queue, new)
  BY DEF Enqueue, CmdInv, TypeOfControl
<1>. HIDE DEF new
<1>4. /\ Len(cmd_queue) \in Nat /\ Len(cmd_queue') = Len(cmd_queue) + 1
      /\ cmd_queue'[Len(cmd_queue) + 1] = new
      /\ \A i \in 1..Len(cmd_queue) : cmd_queue'[i] = cmd_queue[i]
  BY <1>2, <1>3, AppendProperties
<1>5. /\ note[t] = None
      /\ \A i \in 1..Len(cmd_queue) : cmd_queue[i].client \in Clients \ {t}
      /\ exec # "idle" => job.client \in Clients \ {t}
  BY <1>1, EntriesOfClients DEF Synchronous, OneEach, Told, Asks
<1>6. \A i \in 1..Len(cmd_queue') : i \in 1..Len(cmd_queue) \/ i = Len(cmd_queue) + 1
  BY <1>4
<1>7. \A i \in 1..Len(cmd_queue) : Asks(cmd_queue[i])'
  BY <1>1, <1>4, <1>5 DEF Synchronous, OneEach, Asks
<1>8. pc'[new.client] = "wait" /\ new.cmd = header'[new.client] /\ note'[new.client] = None
  BY <1>1, <1>2, <1>5
<1>9. OneEach'
  <2>1. \A i \in 1..Len(cmd_queue') : Asks(cmd_queue[i])'
    BY <1>4, <1>6, <1>7, <1>8 DEF Asks
  <2>2. exec' # "idle" => Asks(job)' /\ \A i \in 1..Len(cmd_queue') : job'.client # cmd_queue'[i].client
    BY <1>1, <1>2, <1>4, <1>5, <1>6 DEF Synchronous, OneEach, Asks
  <2>3. \A i, j \in 1..Len(cmd_queue') : cmd_queue'[i].client = cmd_queue'[j].client => i = j
    BY <1>2, <1>4, <1>5, <1>6 DEF Synchronous, OneEach
  <2>. QED BY <2>1, <2>2, <2>3 DEF OneEach, Asks
<1>10. Told' /\ Own'
  BY <1>1, <1>5 DEF Synchronous, Told, Own
<1>. QED BY <1>9, <1>10 DEF Synchronous

LEMMA DoneSynchronous ==
  ASSUME CmdInv, Synchronous, NEW t \in Clients, Done(t)
  PROVE  Synchronous'
<1>1. /\ note[t] # None /\ note'[t] = None /\ pc'[t] = "recv"
      /\ \A u \in Clients \ {t} : pc'[u] = pc[u] /\ note'[u] = note[u]
      /\ UNCHANGED <<header, cmd_queue, exec, job>>
  BY DEF Done, Goto, CmdInv, TypeOfControl
<1>2. /\ \A i \in 1..Len(cmd_queue) : cmd_queue[i].client \in Clients \ {t}
      /\ exec # "idle" => job.client \in Clients \ {t}
  BY <1>1, EntriesOfClients DEF Synchronous, OneEach, Asks
<1>3. OneEach' /\ Told'
  BY <1>1, <1>2 DEF Synchronous, OneEach, Told, Asks
<1>4. Own'
  <2>. DEFINE r == [cmd |-> header[t], status_of |-> note[t]]
  <2>1. r.status_of = r.cmd
    BY <1>1 DEF Synchronous, Told
  <2>2. returned \in Seq([cmd : Cmds, status_of : Cmds]) /\ r \in [cmd : Cmds, status_of : Cmds]
    BY DEF Done, CmdInv, TypeOfControl, TypeOfHistory, Headers
  <2>3. returned' = Append(returned, r)
    BY DEF Done
  <2>. HIDE DEF r
  <2>4. /\ Len(returned) \in Nat /\ Len(returned') = Len(returned) + 1
        /\ returned'[Len(returned) + 1] = r
        /\ \A i \in 1..Len(returned) : returned'[i] = returned[i]
    BY <2>2, <2>3, AppendProperties
  <2>5. \A i \in 1..Len(returned') : i \in 1..Len(returned) \/ i = Len(returned) + 1
    BY <2>4
  <2>. QED BY <2>1, <2>4, <2>5 DEF Synchronous, Own
<1>. QED BY <1>3, <1>4 DEF Synchronous

LEMMA ReceiveSynchronous ==
  ASSUME CmdInv, Synchronous, ExecReceive
  PROVE  Synchronous'
<1>1. cmd_queue \in Seq(Entries) /\ cmd_queue # <<>>
  BY DEF ExecReceive, CmdInv, TypeOfControl
<1>2. /\ job' = cmd_queue[1]
      /\ Len(cmd_queue) \in Nat \ {0} /\ Len(cmd_queue') = Len(cmd_queue) - 1
      /\ \A i \in 1..Len(cmd_queue') : cmd_queue'[i] = cmd_queue[i + 1]
  BY <1>1, HeadTailProperties DEF ExecReceive
<1>3. \A i \in 1..Len(cmd_queue') : i + 1 \in 1..Len(cmd_queue) /\ i + 1 # 1
  BY <1>2
<1>4. 1 \in 1..Len(cmd_queue)
  BY <1>2
<1>5. UNCHANGED <<pc, header, note, returned>>
  BY DEF ExecReceive, history
<1>6. Asks(job)'
  BY <1>2, <1>4, <1>5 DEF Synchronous, OneEach, Asks
<1>7. \A i \in 1..Len(cmd_queue') : job'.client # cmd_queue'[i].client
  BY <1>2, <1>3, <1>4 DEF Synchronous, OneEach
<1>8. \A i, j \in 1..Len(cmd_queue') : cmd_queue'[i].client = cmd_queue'[j].client => i = j
  <2>. SUFFICES ASSUME NEW i \in 1..Len(cmd_queue'), NEW j \in 1..Len(cmd_queue'),
                       cmd_queue'[i].client = cmd_queue'[j].client
                PROVE  i = j
    OBVIOUS
  <2>1. i + 1 = j + 1
    BY <1>2, <1>3 DEF Synchronous, OneEach
  <2>. QED BY <1>2, <2>1
<1>9. \A i \in 1..Len(cmd_queue') : Asks(cmd_queue[i])'
  <2>. SUFFICES ASSUME NEW i \in 1..Len(cmd_queue') PROVE Asks(cmd_queue[i])'
    OBVIOUS
  <2>1. cmd_queue'[i] = cmd_queue[i + 1] /\ i + 1 \in 1..Len(cmd_queue)
    BY <1>2, <1>3
  <2>2. Asks(cmd_queue[i + 1])
    BY <2>1 DEF Synchronous, OneEach
  <2>. QED BY <1>5, <2>1, <2>2 DEF Asks
<1>10. OneEach'
  BY <1>6, <1>7, <1>8, <1>9 DEF OneEach, Asks
<1>11. Told' /\ Own'
  BY <1>5 DEF Synchronous, Told, Own
<1>. QED BY <1>10, <1>11 DEF Synchronous

LEMMA CallbackSynchronous ==
  ASSUME CmdInv, Synchronous, ExecCallback
  PROVE  Synchronous'
<1>1. /\ exec # "idle" /\ exec' = "idle" /\ note' = [note EXCEPT ![job.client] = job.cmd]
      /\ UNCHANGED <<pc, header, cmd_queue, returned>>
  BY DEF ExecCallback, history
<1>2. /\ job.client \in Clients /\ note'[job.client] = job.cmd
      /\ \A t \in Clients \ {job.client} : note'[t] = note[t]
  BY <1>1, EntriesOfClients DEF CmdInv, TypeOfControl
<1>3. \A i \in 1..Len(cmd_queue) : cmd_queue[i].client \in Clients \ {job.client}
  BY <1>1, EntriesOfClients DEF Synchronous, OneEach
<1>4. OneEach'
  BY <1>1, <1>2, <1>3 DEF Synchronous, OneEach, Asks
<1>5. Told'
  BY <1>1, <1>2 DEF Synchronous, OneEach, Told, Asks
<1>. QED BY <1>1, <1>4, <1>5 DEF Synchronous, Own

LEMMA NextSynchronous ==
  ASSUME ~MayOutlast, CmdInv, Synchronous, [Next]_vars
  PROVE  Synchronous'
<1>1. CASE \E c \in Cmds : Send(c)
  BY <1>1, NoPlace DEF Send, history
<1>2. ASSUME NEW t \in Clients, RecvHeader(t) \/ EnqueueFull(t) PROVE Synchronous'
  <2>1. /\ pc[t] # "wait" /\ UNCHANGED <<note, cmd_queue, exec, job, returned>>
        /\ \A u \in Clients \ {t} : pc'[u] = pc[u] /\ header'[u] = header[u]
    BY <1>2 DEF RecvHeader, EnqueueFull, Goto, CmdInv, TypeOfControl, TypeOfStreams, history
  <2>. QED BY <2>1, OtherPlace
<1>3. ASSUME NEW t \in Clients, Client(t) \/ ExecTimeout(t) PROVE Synchronous'
  BY <1>2, <1>3, EnqueueSynchronous, DoneSynchronous DEF Client, ExecTimeout
<1>4. CASE Schedule
  <2>1. /\ pc["imm"] # "wait" /\ UNCHANGED <<note, cmd_queue, exec, job, returned>>
        /\ \A u \in Clients \ {"imm"} : pc'[u] = pc[u] /\ header'[u] = header[u]
    BY <1>4 DEF Schedule, ScheduleTooLarge, ScheduleArgs, SchedulePush, Goto, CmdInv, TypeOfControl, history
  <2>. QED BY <2>1, OtherPlace
<1>5. CASE Rtc
  BY <1>5, NoPlace DEF Rtc, Dispatch, DispatchPart, history
<1>6. CASE ExecReceive \/ ExecCallback
  BY <1>6, ReceiveSynchronous, CallbackSynchronous
<1>7. CASE ExecInvoke \/ ExecArgs \/ ExecArgsTimeout \/ ExecRespond \/ ExecRun
  BY <1>7, NoPlace DEF ExecInvoke, ExecArgs, ExecArgsTimeout, ExecRespond, ExecRun, history
<1>8. CASE UNCHANGED vars
  BY <1>8, NoPlace DEF vars
<1>. QED BY <1>1, <1>3, <1>4, <1>5, <1>6, <1>7, <1>8 DEF Next, Exec

LEMMA AlwaysSynchronous == Spec => [](CmdInv /\ (~MayOutlast => Synchronous))
<1>. DEFINE SInv == CmdInv /\ (~MayOutlast => Synchronous)
<1>1. Init => SInv
  BY InitCmdInv, InitSynchronous
<1>2. SInv /\ [Next]_vars => SInv'
  BY NextCmdInv, NextSynchronous
<1>. QED BY <1>1, <1>2, PTL DEF Spec

\* cmd_sys_exec.c:71-72: while CMD_SYS_EXEC works on an entry, or will, the struct it points
\* to still holds the command it was made for, unless commands outlast their clients.
THEOREM UnmodifiedCorrect == Spec => [](~MayOutlast => Unmodified)
<1>1. CmdInv /\ (~MayOutlast => Synchronous) => (~MayOutlast => Unmodified)
  <2>. SUFFICES ASSUME CmdInv, Synchronous, NEW e \in Work PROVE header[e.client] = e.cmd
    BY DEF Unmodified
  <2>1. Range(cmd_queue) = {cmd_queue[i] : i \in 1..Len(cmd_queue)}
    BY DEF CmdInv, TypeOfControl, Range
  <2>. QED BY <2>1 DEF Work, Synchronous, OneEach, Asks
<1>. QED BY <1>1, AlwaysSynchronous, PTL

\* No two tasks read the input, or write the output, of a client at a time, unless commands
\* outlast their clients.
THEOREM OneUserPerStreamCorrect == Spec => [](~MayOutlast => OneUserPerStream)
<1>1. CmdInv /\ (~MayOutlast => Synchronous) => (~MayOutlast => OneUserPerStream)
  BY DEF OneUserPerStream, Synchronous, OneEach, Asks
<1>. QED BY <1>1, AlwaysSynchronous, PTL

\* What cmd_sys_execute returns is the status of the command it was called for, unless commands
\* outlast their clients; a command without arguments or function is no exception.
THEOREM OwnStatusCorrect == Spec => [](~MayOutlast => OwnStatus)
<1>1. CmdInv /\ (~MayOutlast => Synchronous) => (~MayOutlast => OwnStatus)
  <2>. SUFFICES ASSUME CmdInv, Synchronous, NEW r \in Range(returned) PROVE r.status_of = r.cmd
    BY DEF OwnStatus
  <2>1. Range(returned) = {returned[i] : i \in 1..Len(returned)}
    BY DEF CmdInv, TypeOfHistory, Range
  <2>. QED BY <2>1 DEF Synchronous, Own
<1>. QED BY <1>1, AlwaysSynchronous, PTL


----------------------------------------------------------------------------
(* What is in the streams.  A ground that behaves sends only commands whose *)
(* arguments are read by the one who reads the header.                     *)

\* The queue has a place for each client, no command outlasts its client, no argument is
\* lost or too large, only implemented commands have arguments, and no command out of the
\* table is scheduled.
Orderly ==
  /\ QueueLength >= 2 /\ ~MayOutlast /\ ~MayLose
  /\ \A c \in Cmds : /\ ~c.large
                     /\ c.kind # "ok" => ~c.args
                     /\ c.kind = "invalid" => ~c.scheduled

OwnArgs(c) == IF c.args THEN <<Args(c)>> ELSE <<>>

\* The bytes of some commands, one after the other.
Wire(cs) == FlattenSeq([i \in DOMAIN cs |-> Bytes(cs[i])])

LEMMA BytesFacts ==
  ASSUME NEW c \in Cmds
  PROVE  OwnArgs(c) \in Seq(Bits) /\ Bytes(c) = <<Header(c)>> \o OwnArgs(c) /\ Bytes(c) \in Seq(Bits)
<1>1. Header(c) \in Bits /\ Args(c) \in Bits
  BY PartFacts
<1>2. <<Header(c), Args(c)>> = <<Header(c)>> \o <<Args(c)>> /\ <<Header(c)>> = <<Header(c)>> \o <<>>
  OBVIOUS
<1>3. OwnArgs(c) \in Seq(Bits)
  BY <1>1 DEF OwnArgs
<1>4. Bytes(c) = <<Header(c)>> \o OwnArgs(c)
  BY <1>2 DEF OwnArgs, Bytes
<1>. QED BY <1>3, <1>4, PartFacts

LEMMA WireType ==
  ASSUME NEW cs \in Seq(Cmds)
  PROVE  Wire(cs) \in Seq(Bits)
<1>. DEFINE ss == [i \in DOMAIN cs |-> Bytes(cs[i])]
<1>1. DOMAIN cs = 1..Len(cs) /\ Len(cs) \in Nat /\ \A i \in 1..Len(cs) : cs[i] \in Cmds
  BY SeqFacts
<1>2. ss \in Seq(Seq(Bits))
  <2>1. \A i \in 1..Len(cs) : Bytes(cs[i]) \in Seq(Bits)
    BY <1>1, BytesFacts
  <2>. QED BY <1>1, <2>1
<1>3. Wire(cs) = FlattenSeq(ss)
  BY DEF Wire
<1>4. <<>> \in Seq(Bits)
  OBVIOUS
<1>. HIDE DEF ss
<1>5. FlattenSeq(ss) \in Seq(Bits)
  BY <1>2, <1>4, FlattenAppend
<1>. QED BY <1>3, <1>5

LEMMA WireAppend ==
  ASSUME NEW cs \in Seq(Cmds), NEW c \in Cmds
  PROVE  Wire(cs) \in Seq(Bits) /\ Wire(Append(cs, c)) = Wire(cs) \o Bytes(c)
<1>. DEFINE ss == [i \in DOMAIN cs |-> Bytes(cs[i])]
            tt == [i \in DOMAIN Append(cs, c) |-> Bytes(Append(cs, c)[i])]
<1>1. DOMAIN cs = 1..Len(cs) /\ Len(cs) \in Nat /\ \A i \in 1..Len(cs) : cs[i] \in Cmds
  BY SeqFacts
<1>2. ss \in Seq(Seq(Bits)) /\ Len(ss) = Len(cs)
  <2>1. \A i \in 1..Len(cs) : Bytes(cs[i]) \in Seq(Bits)
    BY <1>1, BytesFacts
  <2>2. ss \in [1..Len(cs) -> Seq(Bits)]
    BY <1>1, <2>1
  <2>. QED BY <1>1, <2>2
<1>3. Bytes(c) \in Seq(Bits)
  BY BytesFacts
<1>4. tt = Append(ss, Bytes(c))
  <2>1. /\ DOMAIN Append(cs, c) = 1..(Len(cs) + 1)
        /\ \A i \in 1..(Len(cs) + 1) : Append(cs, c)[i] = IF i = Len(cs) + 1 THEN c ELSE cs[i]
    BY <1>1
  <2>2. /\ DOMAIN Append(ss, Bytes(c)) = 1..(Len(cs) + 1)
        /\ \A i \in 1..(Len(cs) + 1) :
             Append(ss, Bytes(c))[i] = IF i = Len(cs) + 1 THEN Bytes(c) ELSE ss[i]
    BY <1>1, <1>2, <1>3
  <2>3. Append(ss, Bytes(c)) = [i \in 1..(Len(cs) + 1) |-> Append(ss, Bytes(c))[i]]
    BY <1>2, <1>3, <2>2
  <2>4. \A i \in 1..(Len(cs) + 1) : tt[i] = Append(ss, Bytes(c))[i]
    <3>. SUFFICES ASSUME NEW i \in 1..(Len(cs) + 1) PROVE tt[i] = Append(ss, Bytes(c))[i]
      OBVIOUS
    <3>1. CASE i = Len(cs) + 1
      BY <2>1, <2>2, <3>1
    <3>2. CASE i # Len(cs) + 1
      <4>1. i \in 1..Len(cs)
        BY <1>1, <3>2
      <4>. QED BY <1>1, <2>1, <2>2, <3>2, <4>1
    <3>. QED BY <3>1, <3>2
  <2>. QED BY <2>1, <2>3, <2>4
<1>5. Wire(cs) = FlattenSeq(ss) /\ Wire(Append(cs, c)) = FlattenSeq(tt)
  BY DEF Wire
<1>. HIDE DEF ss, tt
<1>6. FlattenSeq(ss) \in Seq(Bits) /\ FlattenSeq(Append(ss, Bytes(c))) = FlattenSeq(ss) \o Bytes(c)
  BY <1>2, <1>3, FlattenAppend
<1>. QED BY <1>4, <1>5, <1>6

LEMMA WireEmpty == Wire(<<>>) = <<>>
<1>1. [i \in DOMAIN <<>> |-> Bytes(<<>>[i])] = <<>>
  OBVIOUS
<1>. QED BY <1>1, FlattenEmpty DEF Wire

LEMMA WireStart ==
  ASSUME NEW cs \in Seq(Cmds), Wire(cs) # <<>>
  PROVE  /\ cs # <<>> /\ Head(cs) \in Cmds /\ Tail(cs) \in Seq(Cmds)
         /\ Head(Wire(cs)) = Header(Head(cs))
         /\ Tail(Wire(cs)) = OwnArgs(Head(cs)) \o Wire(Tail(cs))
<1>1. cs # <<>>
  BY WireEmpty
<1>2. Head(cs) \in Cmds /\ Tail(cs) \in Seq(Cmds)
  BY <1>1
<1>. DEFINE ss == [i \in DOMAIN cs |-> Bytes(cs[i])]
            tt == [i \in DOMAIN Tail(cs) |-> Bytes(Tail(cs)[i])]
<1>3. DOMAIN cs = 1..Len(cs) /\ Len(cs) \in Nat /\ Len(cs) > 0 /\ \A i \in 1..Len(cs) : cs[i] \in Cmds
  BY <1>1, SeqFacts
<1>4. ss \in Seq(Seq(Bits)) /\ Len(ss) = Len(cs) /\ ss # <<>>
  <2>1. \A i \in 1..Len(cs) : Bytes(cs[i]) \in Seq(Bits)
    BY <1>3, BytesFacts
  <2>2. ss \in [1..Len(cs) -> Seq(Bits)]
    BY <1>3, <2>1
  <2>3. ss \in Seq(Seq(Bits)) /\ Len(ss) = Len(cs)
    BY <1>3, <2>2
  <2>. QED BY <1>3, <2>3
<1>5. Head(ss) = Bytes(Head(cs))
  BY <1>3, <1>4
<1>6. Tail(ss) = tt
  BY <1>3, <1>4
<1>7. Wire(cs) = FlattenSeq(ss) /\ Wire(Tail(cs)) = FlattenSeq(tt)
  BY DEF Wire
<1>. HIDE DEF ss, tt
<1>8. FlattenSeq(ss) = Head(ss) \o FlattenSeq(Tail(ss))
  BY <1>4, FlattenHead
<1>9. Wire(cs) = Bytes(Head(cs)) \o Wire(Tail(cs))
  BY <1>5, <1>6, <1>7, <1>8
<1>10. Wire(Tail(cs)) \in Seq(Bits)
  BY <1>2, WireType
<1>11. /\ Header(Head(cs)) \in Bits /\ <<Header(Head(cs))>> \in Seq(Bits)
       /\ OwnArgs(Head(cs)) \in Seq(Bits) /\ Bytes(Head(cs)) = <<Header(Head(cs))>> \o OwnArgs(Head(cs))
  BY <1>2, BytesFacts, PartFacts
<1>12. Wire(cs) = <<Header(Head(cs))>> \o (OwnArgs(Head(cs)) \o Wire(Tail(cs)))
  <2>1. PICK a, b, w : a = <<Header(Head(cs))>> /\ b = OwnArgs(Head(cs)) /\ w = Wire(Tail(cs))
    OBVIOUS
  <2>2. a \in Seq(Bits) /\ b \in Seq(Bits) /\ w \in Seq(Bits) /\ Wire(cs) = (a \o b) \o w
    BY <1>9, <1>10, <1>11, <2>1
  <2>3. (a \o b) \o w = a \o (b \o w)
    <3>1. PICK S : S = Bits
      OBVIOUS
    <3>2. a \in Seq(S) /\ b \in Seq(S) /\ w \in Seq(S)
      BY <2>2, <3>1
    <3>. QED BY ONLY <3>2, ConcatAssociative
  <2>. QED BY <2>1, <2>2, <2>3
<1>13. OwnArgs(Head(cs)) \o Wire(Tail(cs)) \in Seq(Bits)
  BY <1>10, <1>11, ConcatFacts
<1>. QED BY <1>1, <1>2, <1>11, <1>12, <1>13, ConsHead

\* Has CMD_SYS_EXEC read what it reads for t?
Begun(t) == exec \in {"run", "respond", "callback"} /\ job.client = t

\* The header of t has been read, and its arguments have not.
Unread(t) == \/ pc[t] \in {"schedule", "enqueue"}
             \/ pc[t] = "wait" /\ note[t] = None /\ ~Begun(t)

\* The stream of t holds the rest of its command, and the commands cs.
Carries(t, cs) ==
  cs \in Seq(Cmds) /\ input[t] = (IF Unread(t) THEN OwnArgs(header[t]) ELSE <<>>) \o Wire(cs)

\* CMD_SYS_IMM has not answered the command in its struct.
Unanswered ==
  \/ pc["imm"] \in {"schedule", "push", "enqueue"}
  \/ pc["imm"] = "wait" /\ note["imm"] = None /\ ~(exec = "callback" /\ job.client = "imm")

Valid == {c \in Cmds : c.kind # "invalid"}

\* The commands sent: those that are finished, the one CMD_SYS_IMM works on, and those whose
\* header nobody has read.
Answered(fin, new) ==
  /\ fin \in Seq(Cmds)
  /\ sent = (fin \o (IF Unanswered THEN <<header["imm"]>> ELSE <<>>)) \o new
  /\ Named(responses["imm"]) = Only(fin, Valid)

\* What a task knows of the command it works on.
Phase ==
  /\ pc["imm"] \in {"schedule", "push"} => header["imm"].scheduled
  /\ exec \in {"args", "run", "respond", "callback"} => spec = header[job.client]
  /\ exec = "args" => spec.kind = "ok" /\ spec.args
  /\ exec = "run" => spec.kind = "ok"
  /\ exec = "respond" => spec.kind # "invalid"

LEMMA InitPhase == Init => Phase
BY DEF Init, Phase

LEMMA NextPhase ==
  ASSUME CmdInv, Synchronous, Phase, [Next]_vars
  PROVE  Phase'
<1>1. CASE UNCHANGED <<pc, header, exec, job, spec>>
  BY <1>1 DEF Phase
<1>2. CASE \E c \in Cmds : Send(c)
  BY <1>1, <1>2 DEF Send
<1>3. ASSUME NEW t \in Clients, RecvHeader(t) PROVE Phase'
  <2>1. PICK c \in Cmds : /\ header' = [header EXCEPT ![t] = c]
                          /\ Goto(t, IF t = "imm" /\ c.scheduled THEN "schedule" ELSE "enqueue")
    <3>1. input[t] \in Seq(Bits) /\ input[t] # <<>>
      BY <1>3 DEF RecvHeader, CmdInv, TypeOfStreams
    <3>2. Head(input[t]) \in Bits
      BY <3>1
    <3>. QED BY <1>3, <3>2, ParsedIsCmd DEF RecvHeader
  <2>2. header'[t] = c /\ \A u \in Clients \ {t} : header'[u] = header[u]
    BY <2>1 DEF CmdInv, TypeOfStreams
  <2>3. /\ pc[t] = "recv" /\ pc'[t] = (IF t = "imm" /\ c.scheduled THEN "schedule" ELSE "enqueue")
        /\ \A u \in Clients \ {t} : pc'[u] = pc[u]
    BY <1>3, <2>1 DEF RecvHeader, Goto, CmdInv, TypeOfControl
  <2>4. UNCHANGED <<exec, job, spec>>
    BY <1>3 DEF RecvHeader
  <2>5. exec # "idle" => job.client \in Clients \ {t}
    BY <2>3, EntriesOfClients DEF Synchronous, OneEach, Asks
  <2>. QED BY <2>2, <2>3, <2>4, <2>5 DEF Phase
<1>4. ASSUME NEW t \in Clients, Client(t) \/ ExecTimeout(t) PROVE Phase'
  <2>1. CASE RecvHeader(t)
    BY <1>3, <2>1
  <2>2. CASE Enqueue(t) \/ EnqueueFull(t) \/ Done(t) \/ ExecTimeout(t)
    BY <2>2 DEF Enqueue, EnqueueFull, Done, ExecTimeout, Goto, CmdInv, TypeOfControl, Phase
  <2>. QED BY <1>4, <2>1, <2>2 DEF Client
<1>5. CASE Schedule
  BY <1>5 DEF Schedule, ScheduleTooLarge, ScheduleArgs, SchedulePush, Goto, CmdInv, TypeOfControl, Phase
<1>6. CASE Rtc
  BY <1>1, <1>6 DEF Rtc, Dispatch, DispatchPart
<1>7. CASE ExecInvoke
  <2>1. header[job.client] \in Cmds
    BY <1>7 DEF ExecInvoke, CmdInv, Executing, Pointed
  <2>2. spec' = header[job.client] /\ UNCHANGED <<pc, header, job>> /\ exec' = NextStep(spec')
    BY <1>7 DEF ExecInvoke
  <2>3. /\ exec' = "args" => spec'.kind = "ok" /\ spec'.args
        /\ exec' = "run" => spec'.kind = "ok"
        /\ exec' = "respond" => spec'.kind # "invalid"
    <3>1. spec'.kind \in {"ok", "dne", "invalid"} /\ spec'.args \in BOOLEAN
      BY <2>1, <2>2
    <3>2. CASE spec'.kind = "invalid"
      BY <2>2, <3>2 DEF NextStep
    <3>3. CASE spec'.kind = "dne"
      BY <2>2, <3>3 DEF NextStep
    <3>4. CASE spec'.kind = "ok" /\ spec'.args
      BY <2>2, <3>4 DEF NextStep
    <3>5. CASE spec'.kind = "ok" /\ ~spec'.args
      BY <2>2, <3>5 DEF NextStep
    <3>. QED BY <3>1, <3>2, <3>3, <3>4, <3>5
  <2>. QED BY <2>2, <2>3 DEF Phase
<1>8. CASE ExecReceive \/ ExecArgs \/ ExecArgsTimeout \/ ExecRespond \/ ExecCallback \/ ExecRun
  BY <1>8 DEF ExecReceive, ExecArgs, ExecArgsTimeout, ExecRespond, ExecCallback, ExecRun, Phase
<1>9. CASE UNCHANGED vars
  BY <1>1, <1>9 DEF vars
<1>. QED BY <1>2, <1>4, <1>5, <1>6, <1>7, <1>8, <1>9 DEF Next, Exec

\* Two clients, one entry each: the queue is never full when a client comes to it.
LEMMA QueueHasRoom ==
  ASSUME Orderly, CmdInv, Synchronous, NEW t \in Clients
  PROVE  ~EnqueueFull(t)
<1>. SUFFICES ASSUME EnqueueFull(t) PROVE FALSE
  OBVIOUS
<1>1. Len(cmd_queue) >= 2 /\ pc[t] # "wait"
  BY DEF EnqueueFull, Orderly
<1>2. Len(cmd_queue) \in Nat
  BY DEF CmdInv, TypeOfControl
<1>3. 1 \in 1..Len(cmd_queue) /\ 2 \in 1..Len(cmd_queue)
  BY <1>1, <1>2
<1>4. \A i \in 1..Len(cmd_queue) : cmd_queue[i].client \in Clients \ {t}
  BY <1>1, EntriesOfClients DEF Synchronous, OneEach, Asks
<1>5. cmd_queue[1].client = cmd_queue[2].client
  BY <1>3, <1>4
<1>. QED BY <1>3, <1>5 DEF Synchronous, OneEach

\* A stream nobody touches, of a client whose place does not change.
LEMMA CarriesSame ==
  ASSUME NEW t \in Clients, NEW cs, Carries(t, cs), input'[t] = input[t],
         Unread(t)' <=> Unread(t), Unread(t) => header'[t] = header[t]
  PROVE  Carries(t, cs)'
<1>1. CASE Unread(t)
  BY <1>1 DEF Carries, Wire, OwnArgs, Bytes, Header, Args
<1>2. CASE ~Unread(t)
  BY <1>2 DEF Carries, Wire, OwnArgs, Bytes, Header, Args
<1>. QED BY <1>1, <1>2

\* Three pieces of a stream in a row.
LEMMA BitsAssociate ==
  ASSUME NEW a \in Seq(Bits), NEW b \in Seq(Bits), NEW c \in Seq(Bits)
  PROVE  (a \o b) \o c = a \o (b \o c)
  BY ConcatFacts

LEMMA CarriesMore ==
  ASSUME NEW t \in Clients, NEW cs, Carries(t, cs), NEW c \in Cmds, CmdInv,
         input'[t] = input[t] \o Bytes(c),
         Unread(t)' <=> Unread(t), header'[t] = header[t]
  PROVE  Carries(t, Append(cs, c))'
<1>. DEFINE rest == IF Unread(t) THEN OwnArgs(header[t]) ELSE <<>>
<1>1. cs \in Seq(Cmds) /\ input[t] = rest \o Wire(cs)
  BY DEF Carries
<1>2. rest \in Seq(Bits)
  <2>1. Unread(t) => header[t] \in Cmds
    BY DEF Unread, CmdInv, Headers
  <2>2. CASE Unread(t)
    BY <2>1, <2>2, BytesFacts
  <2>3. CASE ~Unread(t)
    BY <2>3
  <2>. QED BY <2>2, <2>3
<1>3. /\ Wire(cs) \in Seq(Bits) /\ Bytes(c) \in Seq(Bits)
      /\ Wire(Append(cs, c)) = Wire(cs) \o Bytes(c)
  BY <1>1, WireAppend, BytesFacts
<1>. HIDE DEF rest
<1>4. (rest \o Wire(cs)) \o Bytes(c) = rest \o (Wire(cs) \o Bytes(c))
  <2>1. PICK w \in Seq(Bits), b \in Seq(Bits) : w = Wire(cs) /\ b = Bytes(c)
    BY <1>3
  <2>2. PICK o \in Seq(Bits) : o = rest
    BY <1>2
  <2>3. (o \o w) \o b = o \o (w \o b)
    BY BitsAssociate
  <2>. QED BY <2>1, <2>2, <2>3
<1>5. input'[t] = rest \o Wire(Append(cs, c))
  BY <1>1, <1>3, <1>4
<1>6. Append(cs, c) \in Seq(Cmds)
  BY <1>1
<1>7. rest = (IF Unread(t)' THEN OwnArgs(header'[t]) ELSE <<>>)
  BY DEF rest
<1>. QED BY <1>5, <1>6, <1>7 DEF Carries, Wire, OwnArgs, Bytes, Header, Args

\* The client reads a header.
LEMMA CarriesHeader ==
  ASSUME CmdInv, CmdInv', Synchronous, NEW t \in Clients, NEW cs, Carries(t, cs), RecvHeader(t)
  PROVE  /\ cs # <<>> /\ Head(cs) \in Cmds /\ header'[t] = Head(cs)
         /\ Head(input[t]) = Header(Head(cs))
         /\ Carries(t, Tail(cs))'
<1>1. pc[t] = "recv" /\ ~Unread(t)
  BY DEF RecvHeader, Unread
<1>2. Wire(cs) \in Seq(Bits) /\ cs \in Seq(Cmds)
  BY WireType DEF Carries
<1>3. input[t] = Wire(cs) /\ Wire(cs) # <<>>
  BY <1>1, <1>2, ConcatFacts DEF Carries, RecvHeader
<1>4. /\ cs # <<>> /\ Head(cs) \in Cmds /\ Tail(cs) \in Seq(Cmds)
      /\ Head(input[t]) = Header(Head(cs))
      /\ Tail(input[t]) = OwnArgs(Head(cs)) \o Wire(Tail(cs))
  BY <1>2, <1>3, WireStart
<1>5. Parse(Head(input[t])) = {Head(cs)}
  BY <1>4 DEF Parse, Header
<1>6. header' = [header EXCEPT ![t] = Head(cs)]
  BY <1>5 DEF RecvHeader
<1>7. header'[t] = Head(cs)
  BY <1>6 DEF CmdInv, TypeOfStreams
<1>8. pc'[t] \in {"schedule", "enqueue"}
  BY DEF RecvHeader, Goto, CmdInv, TypeOfControl
<1>9. Unread(t)'
  BY <1>8 DEF Unread
<1>10. input'[t] = Tail(input[t])
  BY DEF RecvHeader, CmdInv, TypeOfStreams
<1>11. input'[t] = OwnArgs(header'[t]) \o Wire(Tail(cs))
  BY <1>4, <1>7, <1>10
<1>12. Carries(t, Tail(cs))'
  BY <1>4, <1>9, <1>11 DEF Carries, Wire, OwnArgs, Bytes, Header, Args
<1>. QED BY <1>4, <1>7, <1>12

\* What is read for the command whose arguments are due.
LEMMA CarriesArgs ==
  ASSUME CmdInv, NEW t \in Clients, NEW cs, Carries(t, cs), Unread(t), header[t].args
  PROVE  input[t] # <<>> /\ Head(input[t]) = Args(header[t]) /\ Tail(input[t]) = Wire(cs)
<1>1. header[t] \in Cmds
  BY DEF Unread, CmdInv, Headers
<1>2. Args(header[t]) \in Bits /\ Wire(cs) \in Seq(Bits)
  BY <1>1, PartFacts, WireType DEF Carries
<1>3. input[t] = <<Args(header[t])>> \o Wire(cs)
  BY DEF Carries, OwnArgs
<1>. QED BY <1>2, <1>3, ConsHead

\* They have been read, or there were none.
LEMMA CarriesRest ==
  ASSUME NEW t \in Clients, NEW cs, Carries(t, cs), ~Unread(t)',
         \/ input'[t] = Wire(cs)
         \/ input'[t] = input[t] /\ (Unread(t) => ~header[t].args)
  PROVE  Carries(t, cs)'
<1>1. cs \in Seq(Cmds) /\ Wire(cs) \in Seq(Bits)
  BY WireType DEF Carries
<1>2. input'[t] = Wire(cs)
  <2>1. CASE input'[t] = input[t] /\ (Unread(t) => ~header[t].args)
    <3>1. input[t] = <<>> \o Wire(cs)
      BY <2>1 DEF Carries, OwnArgs
    <3>. QED BY <1>1, <2>1, <3>1, ConcatFacts
  <2>. QED BY <2>1
<1>3. <<>> \o Wire(cs) = Wire(cs)
  BY <1>1, ConcatFacts
<1>. QED BY <1>1, <1>2, <1>3 DEF Carries, Wire, OwnArgs, Bytes, Header, Args

\* A job is for a client that waits for it and was not told.
LEMMA JobOf ==
  ASSUME CmdInv, Synchronous, exec # "idle"
  PROVE  /\ job.client \in Clients /\ pc[job.client] = "wait" /\ note[job.client] = None
         /\ header[job.client] \in Cmds /\ job.cmd = header[job.client]
  BY EntriesOfClients DEF Synchronous, OneEach, Asks, CmdInv, Executing, Pointed

\* The client's own steps leave the rest of its stream as it is.
LEMMA CarriesClient ==
  ASSUME Orderly, CmdInv, CmdInv', Synchronous, NEW t \in Clients, NEW cs, Carries(t, cs),
         NEW u \in Clients, Client(u) \/ ExecTimeout(u), ~RecvHeader(t)
  PROVE  Carries(t, cs)'
<1>1. ~EnqueueFull(u) /\ ~ExecTimeout(u)
  BY QueueHasRoom DEF Orderly, ExecTimeout
<1>2. CASE u # t
  <2>1. /\ pc'[t] = pc[t] /\ header'[t] = header[t] /\ input'[t] = input[t] /\ note'[t] = note[t]
        /\ UNCHANGED <<exec, job>>
    BY <1>1, <1>2 DEF Client, RecvHeader, Enqueue, Done, Goto, CmdInv, TypeOfControl, TypeOfStreams
  <2>. QED BY <2>1, CarriesSame DEF Unread, Begun
<1>3. CASE u = t /\ Enqueue(t)
  <2>1. /\ pc[t] = "enqueue" /\ pc'[t] = "wait" /\ UNCHANGED <<header, input, note, exec, job>>
    BY <1>3 DEF Enqueue, Goto, CmdInv, TypeOfControl
  <2>2. note[t] = None /\ ~(exec # "idle" /\ job.client = t)
    BY <2>1, JobOf DEF Synchronous, Told
  <2>3. Unread(t) /\ Unread(t)'
    BY <2>1, <2>2 DEF Unread, Begun
  <2>. QED BY <2>1, <2>3, CarriesSame
<1>4. CASE u = t /\ Done(t)
  <2>1. /\ pc[t] = "wait" /\ note[t] # None /\ pc'[t] = "recv" /\ UNCHANGED <<header, input>>
    BY <1>4 DEF Done, Goto, CmdInv, TypeOfControl
  <2>2. ~Unread(t) /\ ~Unread(t)'
    BY <2>1 DEF Unread
  <2>. QED BY <2>1, <2>2, CarriesSame
<1>. QED BY <1>1, <1>2, <1>3, <1>4 DEF Client

LEMMA CarriesSchedule ==
  ASSUME Orderly, CmdInv, CmdInv', NEW t \in Clients, NEW cs, Carries(t, cs), Schedule
  PROVE  Carries(t, cs)'
<1>1. ~ScheduleTooLarge
  BY DEF Orderly, ScheduleTooLarge, CmdInv, Headers
<1>2. CASE t = "sched"
  <2>1. /\ pc'[t] = pc[t] /\ input'[t] = input[t] /\ UNCHANGED <<header, note, exec, job>>
    BY <1>1, <1>2 DEF Schedule, ScheduleArgs, SchedulePush, Goto, CmdInv, TypeOfControl, TypeOfStreams
  <2>. QED BY <2>1, CarriesSame DEF Unread, Begun
<1>3. CASE t = "imm" /\ ScheduleArgs
  <2>1. pc[t] = "schedule" /\ pc'[t] = "push"
    BY <1>3 DEF ScheduleArgs, Goto, CmdInv, TypeOfControl
  <2>2. Unread(t) /\ ~Unread(t)'
    BY <2>1 DEF Unread
  <2>3. CASE header[t].args
    <3>1. input'[t] = Tail(input[t])
      BY <1>3, <2>3 DEF ScheduleArgs, CmdInv, TypeOfStreams
    <3>2. input'[t] = Wire(cs)
      BY <2>2, <2>3, <3>1, CarriesArgs
    <3>. QED BY <2>2, <3>2, CarriesRest
  <2>4. CASE ~header[t].args
    <3>1. input'[t] = input[t]
      BY <1>3, <2>4 DEF ScheduleArgs
    <3>. QED BY <2>2, <2>4, <3>1, CarriesRest
  <2>. QED BY <2>3, <2>4
<1>4. CASE t = "imm" /\ SchedulePush
  <2>1. pc[t] = "push" /\ pc'[t] = "recv" /\ UNCHANGED <<input, header>>
    BY <1>4 DEF SchedulePush, Goto, CmdInv, TypeOfControl
  <2>2. ~Unread(t) /\ ~Unread(t)'
    BY <2>1 DEF Unread
  <2>. QED BY <2>1, <2>2, CarriesSame
<1>. QED BY <1>1, <1>2, <1>3, <1>4 DEF Schedule

LEMMA CarriesExec ==
  ASSUME Orderly, CmdInv, CmdInv', Synchronous, Phase, Phase',
         NEW t \in Clients, NEW cs, Carries(t, cs), Exec \/ ExecRun
  PROVE  Carries(t, cs)'
<1>. USE DEF history
<1>1. CASE ExecReceive
  <2>1. UNCHANGED <<pc, note, input, header>> /\ exec = "idle" /\ exec' = "invoke"
    BY <1>1 DEF ExecReceive
  <2>. QED BY <2>1, CarriesSame DEF Unread, Begun
<1>2. CASE ExecInvoke
  <2>1. /\ exec = "invoke" /\ UNCHANGED <<pc, note, input, header, job>>
        /\ spec' = header[job.client] /\ exec' = NextStep(spec')
    BY <1>2 DEF ExecInvoke
  <2>2. CASE job.client # t
    BY <2>1, <2>2, CarriesSame DEF Unread, Begun
  <2>3. CASE job.client = t /\ exec' = "args"
    BY <2>1, <2>3, CarriesSame DEF Unread, Begun
  <2>4. CASE job.client = t /\ exec' # "args"
    <3>1. header[t] \in Cmds /\ spec' = header[t]
      BY <2>1, <2>4, JobOf
    <3>2. /\ header[t].kind \in {"ok", "dne", "invalid"} /\ header[t].args \in BOOLEAN
          /\ header[t].kind # "ok" => ~header[t].args
      BY <3>1 DEF Orderly
    <3>3. ~header[t].args
      BY <2>1, <2>4, <3>1, <3>2 DEF NextStep
    <3>4. exec' \in {"run", "respond", "callback"}
      <4>1. CASE header[t].kind = "invalid"
        BY <2>1, <3>1, <4>1 DEF NextStep
      <4>2. CASE header[t].kind = "dne"
        BY <2>1, <3>1, <4>2 DEF NextStep
      <4>3. CASE header[t].kind = "ok"
        BY <2>1, <3>1, <3>3, <4>3 DEF NextStep
      <4>. QED BY <3>2, <4>1, <4>2, <4>3
    <3>5. ~Unread(t)'
      <4>1. pc[t] = "wait"
        BY <2>1, <2>4, JobOf
      <4>. QED BY <2>1, <2>4, <3>4, <4>1 DEF Unread, Begun
    <3>. QED BY <2>1, <3>3, <3>5, CarriesRest
  <2>. QED BY <2>2, <2>3, <2>4
<1>3. CASE ExecArgs
  <2>1. /\ exec = "args" /\ exec' = "run" /\ UNCHANGED <<pc, note, header, job>>
        /\ job.client \in Clients
        /\ input' = [input EXCEPT ![job.client] = Tail(@)]
    BY <1>3, JobOf DEF ExecArgs
  <2>2. CASE job.client # t
    <3>1. input'[t] = input[t]
      BY <2>1, <2>2
    <3>. QED BY <2>1, <2>2, <3>1, CarriesSame DEF Unread, Begun
  <2>3. CASE job.client = t
    <3>1. pc[t] = "wait" /\ note[t] = None /\ header[t].args
      BY <2>1, <2>3, JobOf DEF Phase
    <3>2. Unread(t) /\ ~Unread(t)'
      BY <2>1, <2>3, <3>1 DEF Unread, Begun
    <3>3. input'[t] = Tail(input[t])
      BY <2>1, <2>3 DEF CmdInv, TypeOfStreams
    <3>4. input'[t] = Wire(cs)
      BY <3>1, <3>2, <3>3, CarriesArgs
    <3>. QED BY <3>2, <3>4, CarriesRest
  <2>. QED BY <2>2, <2>3
<1>4. CASE ExecArgsTimeout
  <2>1. /\ exec = "args" /\ exec' = "callback" /\ UNCHANGED <<pc, note, header, job, input>>
        /\ input[job.client] = <<>>
    BY <1>4 DEF ExecArgsTimeout
  <2>2. CASE job.client # t
    BY <2>1, <2>2, CarriesSame DEF Unread, Begun
  <2>3. CASE job.client = t
    <3>1. pc[t] = "wait" /\ note[t] = None /\ header[t].args
      BY <2>1, <2>3, JobOf DEF Phase
    <3>2. Unread(t)
      BY <2>1, <2>3, <3>1 DEF Unread, Begun
    <3>. QED BY <2>1, <2>3, <3>1, <3>2, CarriesArgs
  <2>. QED BY <2>2, <2>3
<1>5. CASE ExecRun \/ ExecRespond
  <2>1. /\ exec \in {"run", "respond"} /\ exec' \in {"respond", "callback"}
        /\ UNCHANGED <<pc, note, header, job, input>>
    BY <1>5 DEF ExecRun, ExecRespond
  <2>. QED BY <2>1, CarriesSame DEF Unread, Begun
<1>6. CASE ExecCallback
  <2>1. /\ exec = "callback" /\ exec' = "idle" /\ UNCHANGED <<pc, header, input>>
        /\ note' = [note EXCEPT ![job.client] = job.cmd]
        /\ job.client \in Clients /\ pc[job.client] = "wait" /\ job.cmd \in Cmds
    BY <1>6, JobOf DEF ExecCallback
  <2>2. CASE job.client # t
    <3>1. note'[t] = note[t]
      BY <2>1, <2>2
    <3>. QED BY <2>1, <2>2, <3>1, CarriesSame DEF Unread, Begun
  <2>3. CASE job.client = t
    <3>1. note'[t] # None
      BY <2>1, <2>3 DEF CmdInv, TypeOfControl
    <3>2. ~Unread(t) /\ ~Unread(t)'
      BY <2>1, <2>3, <3>1 DEF Unread, Begun
    <3>. QED BY <2>1, <3>2, CarriesSame
  <2>. QED BY <2>2, <2>3
<1>. QED BY <1>1, <1>2, <1>3, <1>4, <1>5, <1>6 DEF Exec

\* A step that puts nothing into the stream of t and takes no header from it.
LEMMA CarriesNext ==
  ASSUME Orderly, CmdInv, CmdInv', Synchronous, Phase, Phase',
         NEW t \in Clients, NEW cs, Carries(t, cs), [Next]_vars, ~RecvHeader(t),
         IF t = "imm" THEN ~\E c \in Cmds : Send(c) ELSE ~Rtc
  PROVE  Carries(t, cs)'
<1>1. ASSUME NEW c \in Cmds, Send(c) PROVE Carries(t, cs)'
  <2>1. input'[t] = input[t] /\ UNCHANGED <<pc, note, header, exec, job>>
    BY <1>1 DEF Send, CmdInv, TypeOfStreams
  <2>. QED BY <2>1, CarriesSame DEF Unread, Begun
<1>2. CASE Rtc
  <2>1. input'[t] = input[t] /\ UNCHANGED <<pc, note, header, exec, job>>
    BY <1>2 DEF Rtc, Dispatch, DispatchPart, CmdInv, TypeOfStreams
  <2>. QED BY <2>1, CarriesSame DEF Unread, Begun
<1>3. CASE UNCHANGED vars
  BY <1>3, CarriesSame DEF vars, Unread, Begun
<1>. QED BY <1>1, <1>2, <1>3, CarriesClient, CarriesSchedule, CarriesExec DEF Next

LEMMA AnsweredSame ==
  ASSUME NEW fin, NEW new, Answered(fin, new), Unanswered' <=> Unanswered,
         Unanswered => header'["imm"] = header["imm"],
         sent' = sent, responses'["imm"] = responses["imm"]
  PROVE  Answered(fin, new)'
<1>1. CASE Unanswered
  BY <1>1 DEF Answered, Named, Valid, Only, Picked
<1>2. CASE ~Unanswered
  BY <1>2 DEF Answered, Named, Valid, Only, Picked
<1>. QED BY <1>1, <1>2

\* CMD_SYS_IMM's command has its answer, written or not.
AnswerGiven ==
  \E w \in Outcomes("imm") :
    responses'["imm"] = Append(responses["imm"], [cmd |-> header["imm"], written |-> w])

LEMMA OneMoreNamed ==
  ASSUME CmdInv, header["imm"] \in Cmds, AnswerGiven
  PROVE  Named(responses'["imm"]) = Append(Named(responses["imm"]), header["imm"])
<1>1. PICK w \in BOOLEAN :
        responses'["imm"] = Append(responses["imm"], [cmd |-> header["imm"], written |-> w])
  BY DEF AnswerGiven, Outcomes
<1>2. [cmd |-> header["imm"], written |-> w] \in Replies
  BY DEF Replies
<1>3. responses["imm"] \in Seq(Replies)
  BY DEF CmdInv, TypeOfHistory, Clients
<1>. QED BY <1>1, <1>2, <1>3, NamedFacts

\* CMD_SYS_IMM's command is finished.
LEMMA AnsweredOne ==
  ASSUME NEW fin, NEW new \in Seq(Cmds), Answered(fin, new), Unanswered, ~Unanswered',
         header["imm"] \in Cmds, sent' = sent,
         Named(responses'["imm"]) = IF header["imm"] \in Valid
                                    THEN Append(Named(responses["imm"]), header["imm"])
                                    ELSE Named(responses["imm"])
  PROVE  \E f : Answered(f, new)'
<1>1. PICK h \in Cmds : h = header["imm"]
  OBVIOUS
<1>2. PICK done : done = Append(fin, h)
  OBVIOUS
<1>3. fin \in Seq(Cmds) /\ sent = (fin \o <<h>>) \o new /\ Named(responses["imm"]) = Only(fin, Valid)
  BY <1>1 DEF Answered
<1>4. done \in Seq(Cmds) /\ done = fin \o <<h>> /\ done \o <<>> = done
  BY <1>2, <1>3, ConcatFacts
<1>5. Only(done, Valid) = IF h \in Valid THEN Append(Only(fin, Valid), h) ELSE Only(fin, Valid)
  <2>1. Only(Append(fin, h), Valid) = IF h \in Valid THEN Append(Only(fin, Valid), h) ELSE Only(fin, Valid)
    BY <1>3, OnlyAppend
  <2>. QED BY <1>2, <2>1
<1>6. Named(responses'["imm"]) = Only(done, Valid)
  BY <1>1, <1>3, <1>5
<1>7. sent' = (done \o <<>>) \o new
  BY <1>3, <1>4
<1>8. Answered(done, new)'
  BY <1>4, <1>6, <1>7 DEF Answered, Named, Valid, Only, Picked
<1>. QED BY <1>8

LEMMA AnsweredHeader ==
  ASSUME CmdInv, CmdInv', NEW fin, NEW new \in Seq(Cmds), Answered(fin, new),
         RecvHeader("imm"), new # <<>>, header'["imm"] = Head(new)
  PROVE  Answered(fin, Tail(new))'
<1>1. ~Unanswered
  BY DEF RecvHeader, Unanswered
<1>2. Unanswered' /\ sent' = sent /\ responses' = responses
  BY DEF RecvHeader, Unanswered, Goto, CmdInv, TypeOfControl, history
<1>3. fin \in Seq(Cmds) /\ sent = fin \o new /\ Named(responses["imm"]) = Only(fin, Valid)
  BY <1>1, ConcatFacts DEF Answered
<1>4. <<Head(new)>> \in Seq(Cmds) /\ Tail(new) \in Seq(Cmds)
  OBVIOUS
<1>5. new = <<Head(new)>> \o Tail(new)
  OBVIOUS
<1>6. (fin \o <<Head(new)>>) \o Tail(new) = fin \o (<<Head(new)>> \o Tail(new))
  BY <1>3, <1>4, ConcatFacts
<1>7. sent' = (fin \o <<header'["imm"]>>) \o Tail(new)
  BY <1>2, <1>3, <1>5, <1>6
<1>. QED BY <1>2, <1>3, <1>4, <1>7 DEF Answered, Named, Valid, Only, Picked

LEMMA AnsweredSend ==
  ASSUME CmdInv, NEW fin, NEW new \in Seq(Cmds), Answered(fin, new), NEW c \in Cmds, Send(c)
  PROVE  Answered(fin, Append(new, c))'
<1>. DEFINE front == fin \o (IF Unanswered THEN <<header["imm"]>> ELSE <<>>)
<1>1. /\ sent' = Append(sent, c) /\ responses' = responses /\ header' = header
      /\ Unanswered' <=> Unanswered
  BY DEF Send, Unanswered, history
<1>2. fin \in Seq(Cmds) /\ sent = front \o new /\ Named(responses["imm"]) = Only(fin, Valid)
  BY DEF Answered
<1>3. front \in Seq(Cmds)
  <2>1. CASE Unanswered
    <3>1. <<header["imm"]>> \in Seq(Cmds)
      BY <2>1 DEF Unanswered, CmdInv, Headers
    <3>. QED BY <1>2, <2>1, <3>1, ConcatFacts
  <2>2. CASE ~Unanswered
    BY <1>2, <2>2, ConcatFacts
  <2>. QED BY <2>1, <2>2
<1>4. front = fin \o (IF Unanswered' THEN <<header'["imm"]>> ELSE <<>>)
  BY <1>1
<1>. HIDE DEF front
<1>5. Append(front \o new, c) = front \o Append(new, c)
  <2>1. <<c>> \in Seq(Cmds) /\ Append(new, c) = new \o <<c>>
    OBVIOUS
  <2>2. front \o new \in Seq(Cmds) /\ Append(front \o new, c) = (front \o new) \o <<c>>
    BY <1>3, ConcatFacts
  <2>. QED BY <1>3, <2>1, <2>2, ConcatFacts
<1>. QED BY <1>1, <1>2, <1>4, <1>5 DEF Answered, Named, Valid, Only, Picked

\* When CMD_SYS_EXEC is done with a command.
LEMMA AnsweredExec ==
  ASSUME Orderly, CmdInv, CmdInv', Synchronous, Phase, NEW fin, NEW new \in Seq(Cmds),
         Carries("imm", new), Answered(fin, new), Exec \/ ExecRun
  PROVE  \E f : Answered(f, new)'
<1>1. UNCHANGED <<pc, header, sent>>
  BY DEF Exec, ExecReceive, ExecInvoke, ExecArgs, ExecArgsTimeout, ExecRun, ExecRespond,
         ExecCallback
<1>2. CASE exec # "idle" /\ job.client = "imm"
  <2>1. pc["imm"] = "wait" /\ note["imm"] = None /\ header["imm"] \in Cmds /\ job.cmd = header["imm"]
    BY <1>2, JobOf
  <2>2. CASE ExecInvoke
    <3>1. /\ exec = "invoke" /\ exec' = NextStep(header["imm"])
          /\ UNCHANGED <<note, responses, job>>
      BY <1>2, <2>2 DEF ExecInvoke, history
    <3>2. Unanswered
      BY <2>1, <3>1 DEF Unanswered
    <3>3. CASE header["imm"].kind = "invalid"
      <4>1. ~Unanswered' /\ header["imm"] \notin Valid
        BY <1>1, <1>2, <2>1, <3>1, <3>3 DEF NextStep, Unanswered, Valid
      <4>. QED BY <1>1, <2>1, <3>1, <3>2, <4>1, AnsweredOne
    <3>4. CASE header["imm"].kind # "invalid"
      <4>1. exec' # "callback"
        BY <2>1, <3>1, <3>4 DEF NextStep
      <4>2. Unanswered'
        BY <1>1, <1>2, <2>1, <3>1, <4>1 DEF Unanswered
      <4>. QED BY <1>1, <3>1, <3>2, <4>2, AnsweredSame
    <3>. QED BY <3>3, <3>4
  <2>3. CASE ExecRespond
    <3>1. /\ exec = "respond" /\ exec' = "callback" /\ UNCHANGED <<note, job>>
          /\ Respond("imm")
      BY <1>2, <2>3 DEF ExecRespond
    <3>2. Unanswered /\ ~Unanswered' /\ header["imm"] \in Valid
      BY <1>1, <1>2, <2>1, <3>1 DEF Unanswered, Phase, Valid
    <3>3. AnswerGiven
      BY <2>1, <3>1, RespondOne DEF CmdInv, Clients, AnswerGiven
    <3>. QED BY <1>1, <2>1, <3>2, <3>3, OneMoreNamed, AnsweredOne
  <2>4. CASE ExecArgsTimeout
    <3>1. exec = "args" /\ input["imm"] = <<>>
      BY <1>2, <2>4 DEF ExecArgsTimeout
    <3>2. Unread("imm") /\ header["imm"].args
      BY <1>2, <2>1, <3>1 DEF Unread, Begun, Phase
    <3>. QED BY <3>1, <3>2, CarriesArgs
  <2>5. CASE ExecArgs \/ ExecRun
    <3>1. /\ exec # "callback" /\ exec' # "callback" /\ UNCHANGED <<note, responses>>
      BY <2>5 DEF ExecArgs, ExecRun, history
    <3>. QED BY <1>1, <3>1, AnsweredSame DEF Unanswered
  <2>6. CASE ExecCallback
    <3>1. exec = "callback" /\ note' = [note EXCEPT !["imm"] = job.cmd] /\ UNCHANGED responses
      BY <1>2, <2>6 DEF ExecCallback, history
    <3>2. note'["imm"] # None
      BY <2>1, <3>1 DEF CmdInv, TypeOfControl
    <3>3. ~Unanswered /\ ~Unanswered'
      BY <1>1, <1>2, <2>1, <3>1, <3>2 DEF Unanswered
    <3>. QED BY <1>1, <3>1, <3>3, AnsweredSame
  <2>. QED BY <1>2, <2>2, <2>3, <2>4, <2>5, <2>6 DEF Exec, ExecReceive
<1>3. CASE exec # "idle" /\ job.client # "imm"
  <2>1. responses'["imm"] = responses["imm"] /\ note'["imm"] = note["imm"]
    <3>1. job.client \in Clients
      BY EntriesOfClients
    <3>2. CASE ExecRespond
      <4>1. exec = "respond" /\ note' = note /\ Respond(job.client)
        BY <3>2 DEF ExecRespond
      <4>2. header[job.client] \in Cmds
        BY <3>1, <4>1, JobOf
      <4>. QED BY <1>3, <3>1, <4>1, <4>2, RespondOne DEF CmdInv, Clients
    <3>3. CASE ~ExecRespond
      BY <1>3, <3>1, <3>3 DEF Exec, ExecReceive, ExecInvoke, ExecArgs, ExecArgsTimeout, ExecRun,
         ExecCallback, CmdInv, TypeOfControl, history
    <3>. QED BY <3>2, <3>3
  <2>2. exec' = "callback" => job'.client # "imm"
    BY <1>3 DEF Exec, ExecReceive, ExecInvoke, ExecArgs, ExecArgsTimeout, ExecRun, ExecRespond,
         ExecCallback
  <2>3. Unanswered' <=> Unanswered
    BY <1>1, <1>3, <2>1, <2>2 DEF Unanswered
  <2>. QED BY <1>1, <2>1, <2>3, AnsweredSame
<1>4. CASE exec = "idle"
  <2>1. ExecReceive
    BY <1>4 DEF Exec, ExecReceive, ExecInvoke, ExecArgs, ExecArgsTimeout, ExecRun, ExecRespond,
         ExecCallback
  <2>2. exec' # "callback" /\ UNCHANGED <<note, responses>>
    BY <2>1 DEF ExecReceive, history
  <2>3. Unanswered' <=> Unanswered
    BY <1>1, <1>4, <2>2 DEF Unanswered
  <2>. QED BY <1>1, <2>2, <2>3, AnsweredSame
<1>. QED BY <1>2, <1>3, <1>4

\* CMD_SYS_IMM and CMD_SYS_SCHED on their own.
LEMMA AnsweredClient ==
  ASSUME Orderly, CmdInv, CmdInv', Synchronous, Phase, NEW fin, NEW new \in Seq(Cmds),
         Answered(fin, new), ~RecvHeader("imm"),
         Schedule \/ \E t \in Clients : Client(t) \/ ExecTimeout(t)
  PROVE  \E f : Answered(f, new)'
<1>1. ASSUME NEW t \in Clients, Client(t) PROVE Answered(fin, new)'
  <2>1. ~EnqueueFull(t)
    BY QueueHasRoom
  <2>2. /\ sent' = sent /\ responses' = responses /\ header'["imm"] = header["imm"]
        /\ UNCHANGED <<exec, job>>
    BY <1>1, <2>1 DEF Client, RecvHeader, Enqueue, Done, history, CmdInv, TypeOfStreams
  <2>3. CASE t # "imm"
    <3>1. pc'["imm"] = pc["imm"] /\ note'["imm"] = note["imm"]
      BY <1>1, <2>1, <2>3 DEF Client, RecvHeader, Enqueue, Done, Goto, CmdInv, TypeOfControl
    <3>. QED BY <2>2, <3>1, AnsweredSame DEF Unanswered
  <2>4. CASE t = "imm" /\ Enqueue("imm")
    <3>1. pc["imm"] = "enqueue" /\ pc'["imm"] = "wait" /\ note' = note
      BY <2>4 DEF Enqueue, Goto, CmdInv, TypeOfControl
    <3>2. note["imm"] = None /\ ~(exec # "idle" /\ job.client = "imm")
      BY <3>1, JobOf DEF Synchronous, Told
    <3>3. Unanswered /\ Unanswered'
      BY <2>2, <3>1, <3>2 DEF Unanswered
    <3>. QED BY <2>2, <3>3, AnsweredSame
  <2>5. CASE t = "imm" /\ Done("imm")
    <3>1. pc["imm"] = "wait" /\ pc'["imm"] = "recv" /\ note["imm"] # None
      BY <2>5 DEF Done, Goto, CmdInv, TypeOfControl
    <3>2. ~Unanswered /\ ~Unanswered'
      BY <3>1 DEF Unanswered
    <3>. QED BY <2>2, <3>2, AnsweredSame
  <2>. QED BY <1>1, <2>1, <2>3, <2>4, <2>5 DEF Client
<1>2. CASE ScheduleArgs
  <2>1. pc["imm"] = "schedule" /\ pc'["imm"] = "push" /\ UNCHANGED <<header, sent, responses>>
    BY <1>2 DEF ScheduleArgs, Goto, history, CmdInv, TypeOfControl
  <2>2. Unanswered /\ Unanswered'
    BY <2>1 DEF Unanswered
  <2>. QED BY <2>1, <2>2, AnsweredSame
<1>3. CASE SchedulePush
  <2>1. /\ pc["imm"] = "push" /\ pc'["imm"] = "recv" /\ UNCHANGED <<header, sent>>
        /\ Respond("imm")
    BY <1>3 DEF SchedulePush, Goto, CmdInv, TypeOfControl
  <2>2. header["imm"] \in Cmds /\ header["imm"] \in Valid
    BY <2>1 DEF CmdInv, Headers, Phase, Orderly, Valid
  <2>3. Unanswered /\ ~Unanswered'
    BY <2>1 DEF Unanswered
  <2>4. AnswerGiven
    BY <2>1, <2>2, RespondOne DEF CmdInv, Clients, AnswerGiven
  <2>. QED BY <2>1, <2>2, <2>3, <2>4, OneMoreNamed, AnsweredOne
<1>4. ~ScheduleTooLarge /\ \A t \in Clients : ~ExecTimeout(t)
  BY DEF Orderly, ScheduleTooLarge, ExecTimeout, CmdInv, Headers
<1>. QED BY <1>1, <1>2, <1>3, <1>4 DEF Schedule

Ledger == \E fin, new : new \in Seq(Cmds) /\ Answered(fin, new) /\ Carries("imm", new)

LEMMA InitLedger == Init => Ledger
<1>. SUFFICES ASSUME Init PROVE Answered(<<>>, <<>>) /\ Carries("imm", <<>>)
  BY EmptySeq DEF Ledger
<1>1. ~Unanswered /\ ~Unread("imm") /\ sent = <<>> /\ responses["imm"] = <<>> /\ input["imm"] = <<>>
  BY DEF Init, Unanswered, Unread
<1>2. Only(<<>>, Valid) = <<>> /\ Wire(<<>>) = <<>> /\ <<>> \o <<>> = <<>>
  BY OnlyEmpty, WireEmpty
<1>3. Named(<<>>) = <<>>
  BY DEF Named
<1>. QED BY <1>1, <1>2, <1>3 DEF Answered, Carries

LEMMA NextLedger ==
  ASSUME Orderly, CmdInv, CmdInv', Synchronous, Phase, Phase', Ledger, [Next]_vars
  PROVE  Ledger'
<1>1. PICK fin, new : new \in Seq(Cmds) /\ Answered(fin, new) /\ Carries("imm", new)
  BY DEF Ledger
<1>2. ASSUME NEW c \in Cmds, Send(c) PROVE Ledger'
  <2>1. Answered(fin, Append(new, c))'
    BY <1>1, <1>2, AnsweredSend
  <2>2. /\ input'["imm"] = input["imm"] \o Bytes(c) /\ header' = header
        /\ Unread("imm")' <=> Unread("imm")
    BY <1>2 DEF Send, Orderly, Unread, Begun, CmdInv, TypeOfStreams
  <2>3. Carries("imm", Append(new, c))'
    BY <1>1, <2>2, CarriesMore
  <2>4. Append(new, c) \in Seq(Cmds)
    BY <1>1
  <2>. QED BY <2>1, <2>3, <2>4 DEF Ledger
<1>3. CASE RecvHeader("imm")
  <2>1. new # <<>> /\ header'["imm"] = Head(new) /\ Carries("imm", Tail(new))'
    BY <1>1, <1>3, CarriesHeader
  <2>2. Answered(fin, Tail(new))'
    BY <1>1, <1>3, <2>1, AnsweredHeader
  <2>3. Tail(new) \in Seq(Cmds)
    BY <1>1, <2>1
  <2>. QED BY <2>1, <2>2, <2>3 DEF Ledger
<1>4. CASE ~RecvHeader("imm") /\ ~\E c \in Cmds : Send(c)
  <2>1. Carries("imm", new)'
    BY <1>1, <1>4, CarriesNext
  <2>2. \E f : Answered(f, new)'
    <3>1. CASE Exec \/ ExecRun
      BY <1>1, <3>1, AnsweredExec
    <3>2. CASE Schedule \/ \E t \in Clients : Client(t) \/ ExecTimeout(t)
      BY <1>1, <1>4, <3>2, AnsweredClient
    <3>3. CASE Rtc
      BY <1>1, <3>3, AnsweredSame DEF Rtc, Dispatch, DispatchPart, history, Unanswered
    <3>4. CASE UNCHANGED vars
      BY <1>1, <3>4, AnsweredSame DEF vars, Unanswered
    <3>. QED BY <1>4, <3>1, <3>2, <3>3, <3>4 DEF Next
  <2>. QED BY <1>1, <2>1, <2>2 DEF Ledger
<1>. QED BY <1>2, <1>3, <1>4

OrderlyInv == CmdInv /\ Synchronous /\ Phase /\ Ledger

LEMMA AlwaysOrderly == Spec => [](Orderly => OrderlyInv)
<1>. DEFINE I == CmdInv /\ (Orderly => OrderlyInv)
<1>1. Init => I
  BY InitCmdInv, InitSynchronous, InitPhase, InitLedger DEF OrderlyInv
<1>2. I /\ [Next]_vars => I'
  <2>. SUFFICES ASSUME I, [Next]_vars PROVE I'
    OBVIOUS
  <2>1. CmdInv'
    BY NextCmdInv
  <2>2. ASSUME Orderly PROVE OrderlyInv'
    <3>1. ~MayOutlast /\ OrderlyInv
      BY <2>2 DEF Orderly
    <3>2. CmdInv /\ Synchronous /\ Phase /\ Ledger
      BY <3>1 DEF OrderlyInv
    <3>3. Synchronous' /\ Phase'
      BY <3>1, <3>2, NextSynchronous, NextPhase
    <3>4. Ledger'
      BY <2>1, <2>2, <3>2, <3>3, NextLedger
    <3>. QED BY <2>1, <3>3, <3>4 DEF OrderlyInv
  <2>3. Orderly' <=> Orderly
    BY DEF Orderly
  <2>. QED BY <2>1, <2>2, <2>3
<1>. QED BY <1>1, <1>2, PTL DEF Spec

LEMMA SameOnly ==
  ASSUME NEW s, NEW S
  PROVE  Service!Only(s, S) = Only(s, S)
BY DEF Service!Only, Service!Picked, Service!FlattenSeq, Only, Picked, FlattenSeq

\* The next answer the ground expects is the one to the command CMD_SYS_IMM works on.
LEMMA NextAnswer ==
  ASSUME CmdInv, Ledger, Unanswered, header["imm"] \in Valid, sent' = sent, AnswerGiven
  PROVE  Service!Answer
<1>1. PICK fin, new : new \in Seq(Cmds) /\ Answered(fin, new)
  BY DEF Ledger
<1>. DEFINE h == header["imm"]
<1>2. h \in Cmds
  BY DEF Valid
<1>3. fin \in Seq(Cmds) /\ sent = (fin \o <<h>>) \o new /\ Named(responses["imm"]) = Only(fin, Valid)
  BY <1>1 DEF Answered
<1>4. fin \o <<h>> \in Seq(Cmds) /\ fin \o <<h>> = Append(fin, h)
  BY <1>2, <1>3
<1>5. Only(sent, Valid) = Only(Append(fin, h), Valid) \o Only(new, Valid)
  <2>1. Append(fin, h) \in Seq(Cmds) /\ sent = Append(fin, h) \o new
    BY <1>3, <1>4
  <2>2. PICK a \in Seq(Cmds) : a = Append(fin, h)
    BY <2>1
  <2>3. Only(a \o new, Valid) = Only(a, Valid) \o Only(new, Valid)
    BY <1>1, OnlyConcat
  <2>. QED BY <2>1, <2>2, <2>3
<1>6. Only(Append(fin, h), Valid) = Append(Only(fin, Valid), h)
  <2>1. Only(Append(fin, h), Valid) = IF h \in Valid THEN Append(Only(fin, Valid), h) ELSE Only(fin, Valid)
    BY <1>2, <1>3, OnlyAppend
  <2>. QED BY <2>1
<1>7. Only(fin, Valid) \in Seq(Cmds) /\ Only(new, Valid) \in Seq(Cmds)
  BY <1>1, <1>3, OnlyFacts
<1>8. PICK r, x, e : r = Only(fin, Valid) /\ x = Only(new, Valid) /\ e = Append(r, h) \o x
  OBVIOUS
<1>9. Service!Expected = e
  BY <1>5, <1>6, <1>8, SameOnly DEF Service!Expected, Valid
<1>10. Append(r, h) \in Seq(Cmds) /\ Len(Append(r, h)) = Len(r) + 1 /\ Append(r, h)[Len(r) + 1] = h
  BY <1>2, <1>7, <1>8
<1>11. Len(e) = Len(r) + 1 + Len(x) /\ e[Len(r) + 1] = h
  <2>1. /\ Len(e) = Len(Append(r, h)) + Len(x)
        /\ \A i \in 1..(Len(Append(r, h)) + Len(x)) :
             e[i] = IF i <= Len(Append(r, h)) THEN Append(r, h)[i] ELSE x[i - Len(Append(r, h))]
    BY <1>7, <1>8, <1>10, ConcatProperties
  <2>2. Len(r) \in Nat /\ Len(x) \in Nat
    BY <1>7, <1>8
  <2>3. Len(r) + 1 \in 1..(Len(Append(r, h)) + Len(x)) /\ Len(r) + 1 <= Len(Append(r, h))
    BY <1>10, <2>2
  <2>. QED BY <1>10, <2>1, <2>3
<1>12. Len(r) < Len(e) /\ Len(r) \in Nat
  BY <1>7, <1>8, <1>11
<1>13. Len(responses["imm"]) = Len(r)
  BY <1>3, <1>8, NamedFacts DEF CmdInv, TypeOfHistory, Clients
<1>14. PICK w \in IF h \in MayGoUnanswered THEN BOOLEAN ELSE {TRUE} :
         responses'["imm"] = Append(responses["imm"], [cmd |-> h, written |-> w])
  BY DEF AnswerGiven, Outcomes
<1>. QED BY <1>9, <1>11, <1>12, <1>13, <1>14 DEF Service!Answer

\* What the ground sees of a step.
LEMMA ServiceStep ==
  ASSUME Orderly, OrderlyInv, CmdInv', [Next]_vars
  PROVE  [Service!Next]_<<sent, responses["imm"]>>
<1>1. ASSUME NEW c \in Cmds, Send(c) PROVE Service!Next
  <2>1. Service!Send(c)
    BY <1>1 DEF Send, history, Service!Send, Service!Range, Range
  <2>. QED BY <2>1 DEF Service!Next
<1>2. CASE SchedulePush
  <2>1. pc["imm"] = "push" /\ sent' = sent /\ Respond("imm")
    BY <1>2 DEF SchedulePush
  <2>2. header["imm"] \in Valid /\ Unanswered
    BY <2>1 DEF OrderlyInv, CmdInv, Headers, Phase, Orderly, Valid, Unanswered
  <2>3. AnswerGiven
    BY <2>1, <2>2, RespondOne DEF OrderlyInv, CmdInv, Clients, Valid, AnswerGiven
  <2>. QED BY <2>1, <2>2, <2>3, NextAnswer DEF Service!Next, OrderlyInv
<1>3. CASE ExecRespond
  <2>1. exec = "respond" /\ sent' = sent /\ Respond(job.client)
    BY <1>3 DEF ExecRespond
  <2>2. /\ job.client \in Clients /\ pc[job.client] = "wait" /\ note[job.client] = None
        /\ header[job.client] \in Cmds
    BY <2>1, JobOf DEF OrderlyInv
  <2>3. CASE job.client = "imm"
    <3>1. header["imm"] \in Valid /\ Unanswered
      BY <2>1, <2>2, <2>3 DEF OrderlyInv, Phase, Valid, Unanswered
    <3>2. AnswerGiven
      BY <2>1, <2>2, <2>3, RespondOne DEF OrderlyInv, CmdInv, Clients, AnswerGiven
    <3>. QED BY <2>1, <3>1, <3>2, NextAnswer DEF Service!Next, OrderlyInv
  <2>4. CASE job.client = "sched"
    BY <2>1, <2>2, <2>4, RespondOne DEF OrderlyInv, CmdInv, Clients
  <2>. QED BY <2>2, <2>3, <2>4 DEF Clients
<1>4. ASSUME NEW t \in Clients, Client(t) \/ ExecTimeout(t)
      PROVE  UNCHANGED <<sent, responses>>
  BY <1>4 DEF Client, RecvHeader, Enqueue, EnqueueFull, Done, ExecTimeout, history
<1>5. CASE ScheduleTooLarge \/ ScheduleArgs \/ Rtc \/ UNCHANGED vars
  BY <1>5 DEF ScheduleTooLarge, ScheduleArgs, Rtc, Dispatch, DispatchPart, vars, history
<1>6. CASE ExecReceive \/ ExecInvoke \/ ExecArgs \/ ExecArgsTimeout \/ ExecCallback \/ ExecRun
  BY <1>6 DEF ExecReceive, ExecInvoke, ExecArgs, ExecArgsTimeout, ExecCallback, ExecRun, history
<1>. QED BY <1>1, <1>2, <1>3, <1>4, <1>5, <1>6 DEF Next, Schedule, Exec

\* The ground gets one answer to each command it sends, in the order it sent them, although two
\* tasks write the answers and one of them also schedules: every step of the tasks is a step of
\* CommandService or does not show.  A command of MayGoUnanswered, for which the output may stay
\* full, has its turn but perhaps no answer, and the answers after it keep their order.  (That
\* the turn of each comes at all is the liveness TLC checks.)
THEOREM ImplementsServiceSafely ==
  ASSUME Orderly
  PROVE  Spec => Service!Init /\ [][Service!Next]_<<sent, responses["imm"]>>
<1>1. Init => Service!Init
  BY DEF Init, Service!Init
<1>2. CmdInv /\ CmdInv' /\ (Orderly => OrderlyInv) /\ [Next]_vars => [Service!Next]_<<sent, responses["imm"]>>
  BY ServiceStep
<1>. QED BY <1>1, <1>2, AlwaysCmdInv, AlwaysOrderly, PTL DEF Spec

\* The arguments a task has read are those of its command.
ArgsOf(c) == IF c.args THEN Args(c) ELSE NoArgs

Loaded ==
  /\ pc["imm"] = "push" => buf_args = ArgsOf(header["imm"])
  /\ exec = "run" => args = ArgsOf(spec)

\* An item of the schedule is a command.
Items == \A i \in 1..Len(schedule) : \E c \in Cmds : schedule[i] = Bytes(c)

LEMMA InitLoaded == Init => Loaded /\ Items
BY DEF Init, Loaded, Items

LEMMA NextLoaded ==
  ASSUME Orderly, CmdInv, Synchronous, Phase, Phase', Loaded,
         NEW new, Carries("imm", new), NEW due, Carries("sched", due), [Next]_vars
  PROVE  Loaded'
<1>1. CASE UNCHANGED <<pc, header, buf_args, exec, spec, args>>
  BY <1>1 DEF Loaded, ArgsOf, Args, NoArgs
<1>2. ASSUME NEW t \in Clients, Client(t) \/ ExecTimeout(t) PROVE Loaded'
  <2>1. UNCHANGED <<buf_args, exec, spec, args>>
    BY <1>2 DEF Client, RecvHeader, Enqueue, EnqueueFull, Done, ExecTimeout
  <2>2. pc'["imm"] = "push" => pc["imm"] = "push" /\ header'["imm"] = header["imm"]
    BY <1>2 DEF Client, RecvHeader, Enqueue, EnqueueFull, Done, ExecTimeout, Goto, CmdInv,
       TypeOfControl, TypeOfStreams
  <2>. QED BY <2>1, <2>2 DEF Loaded, ArgsOf, Args, NoArgs
<1>3. CASE ScheduleTooLarge \/ SchedulePush
  <2>1. pc'["imm"] = "recv" /\ UNCHANGED <<exec, spec, args>>
    BY <1>3 DEF ScheduleTooLarge, SchedulePush, Goto, CmdInv, TypeOfControl
  <2>. QED BY <2>1 DEF Loaded, ArgsOf, Args, NoArgs
<1>4. CASE ScheduleArgs
  <2>1. /\ pc["imm"] = "schedule" /\ UNCHANGED <<header, exec, spec, args>>
        /\ buf_args' = IF header["imm"].args THEN Head(input["imm"]) ELSE NoArgs
    BY <1>4 DEF ScheduleArgs
  <2>2. Unread("imm")
    BY <2>1 DEF Unread
  <2>3. buf_args' = ArgsOf(header["imm"])
    <3>1. CASE header["imm"].args
      BY <2>1, <2>2, <3>1, CarriesArgs DEF ArgsOf
    <3>2. CASE ~header["imm"].args
      BY <2>1, <3>2 DEF ArgsOf
    <3>. QED BY <3>1, <3>2
  <2>. QED BY <2>1, <2>3 DEF Loaded, ArgsOf, Args, NoArgs
<1>5. CASE ExecInvoke
  <2>1. /\ spec' = header[job.client] /\ header[job.client] \in Cmds
        /\ args' = NoArgs /\ exec' = NextStep(spec') /\ UNCHANGED <<pc, header, buf_args>>
    BY <1>5, JobOf DEF ExecInvoke
  <2>2. exec' = "run" => ~spec'.args
    <3>1. CASE spec'.kind = "ok" /\ spec'.args
      BY <2>1, <3>1 DEF NextStep
    <3>2. CASE spec'.kind # "ok"
      BY <2>1, <3>2 DEF Orderly
    <3>. QED BY <2>1, <3>1, <3>2
  <2>. QED BY <2>1, <2>2 DEF Loaded, ArgsOf, Args, NoArgs
<1>6. CASE ExecArgs
  <2>1. /\ exec = "args" /\ args' = Head(input[job.client]) /\ UNCHANGED <<pc, header, buf_args, spec>>
        /\ spec = header[job.client] /\ spec.args
        /\ job.client \in Clients /\ pc[job.client] = "wait" /\ note[job.client] = None
    BY <1>6, JobOf DEF ExecArgs, Phase
  <2>2. Unread(job.client)
    BY <2>1 DEF Unread, Begun
  <2>3. \E cs : Carries(job.client, cs)
    BY <2>1
  <2>4. args' = Args(spec)
    BY <2>1, <2>2, <2>3, CarriesArgs
  <2>. QED BY <2>1, <2>4 DEF Loaded, ArgsOf, Args, NoArgs
<1>7. CASE ExecReceive \/ ExecArgsTimeout \/ ExecRun \/ ExecRespond \/ ExecCallback
  <2>1. exec' # "run" /\ UNCHANGED <<pc, header, buf_args>>
    BY <1>7 DEF ExecReceive, ExecArgsTimeout, ExecRun, ExecRespond, ExecCallback
  <2>. QED BY <2>1 DEF Loaded, ArgsOf, Args, NoArgs
<1>8. CASE Rtc \/ UNCHANGED vars \/ \E c \in Cmds : Send(c)
  BY <1>1, <1>8 DEF Rtc, Dispatch, DispatchPart, vars, Send
<1>. QED BY <1>2, <1>3, <1>4, <1>5, <1>6, <1>7, <1>8 DEF Next, Schedule, Exec

\* The command of t waits to be run, or to be put into the schedule.
Pending(t) ==
  \/ pc[t] \in {"schedule", "push", "enqueue"}
  \/ pc[t] = "wait" /\ note[t] = None /\ ~(exec \in {"respond", "callback"} /\ job.client = t)

Held(t) == IF Pending(t) THEN {header[t]} ELSE {}

\* Where a command can be, from the ground to its function.
Stages(new, due) ==
  <<Cmds \ Range(sent), Range(new), Held("imm"), {c \in Cmds : Bytes(c) \in Range(schedule)},
    Range(due), Held("sched"), {ran[i].cmd : i \in 1..Len(ran)}>>

Apart(w) == \A k, l \in 1..7 : k # l => w[k] \cap w[l] = {}

\* It is in one of them at a time, and there once.
OnceEach(new, due) ==
  /\ Apart(Stages(new, due))
  /\ IsInjective(new) /\ IsInjective(due) /\ IsInjective(schedule)
  /\ \A i, j \in 1..Len(ran) : ran[i].cmd = ran[j].cmd => i = j
  /\ \A i \in 1..Len(ran) : ran[i].args = ArgsOf(ran[i].cmd)

\* A command moves from one place to another.
Moves(c, a, b, w, v) ==
  /\ c \in w[a] /\ v[a] \subseteq w[a] \ {c} /\ v[b] \subseteq w[b] \cup {c}
  /\ \A k \in 1..7 : k \notin {a, b} => v[k] \subseteq w[k]

LEMMA Moved ==
  ASSUME NEW w, NEW v, Apart(w), NEW a \in 1..7, NEW b \in 1..7, a # b, NEW c, Moves(c, a, b, w, v)
  PROVE  Apart(v)
<1>. USE DEF Moves
<1>. SUFFICES ASSUME NEW k \in 1..7, NEW l \in 1..7, k # l, NEW x, x \in v[k], x \in v[l]
              PROVE  FALSE
  BY DEF Apart
<1>1. x = c \/ (x \in w[k] /\ x \in w[l])
  OBVIOUS
<1>2. x = c
  BY <1>1 DEF Apart
<1>3. k # a /\ l # a
  BY <1>2
<1>4. CASE k # b
  BY <1>2, <1>3, <1>4 DEF Apart
<1>5. CASE l # b
  BY <1>2, <1>3, <1>5 DEF Apart
<1>. QED BY <1>4, <1>5

LEMMA Stayed ==
  ASSUME NEW w, NEW v, Apart(w), \A k \in 1..7 : v[k] \subseteq w[k]
  PROVE  Apart(v)
BY DEF Apart

LEMMA BytesInjective ==
  ASSUME NEW c \in Cmds, NEW d \in Cmds, Bytes(c) = Bytes(d)
  PROVE  c = d
<1>1. Head(Bytes(c)) = Header(c) /\ Head(Bytes(d)) = Header(d)
  BY DEF Bytes
<1>. QED BY <1>1 DEF Header

LEMMA HeldNext ==
  ASSUME CmdInv, CmdInv', Synchronous, NEW t \in Clients, [Next]_vars, ~RecvHeader(t)
  PROVE  Held(t)' \subseteq Held(t)
<1>. SUFFICES ASSUME Pending(t)' PROVE Pending(t) /\ header'[t] = header[t]
  BY DEF Held
<1>1. ASSUME NEW u \in Clients, Client(u) \/ ExecTimeout(u) PROVE Pending(t) /\ header'[t] = header[t]
  <2>1. UNCHANGED <<exec, job>> /\ header'[t] = header[t]
    BY <1>1 DEF Client, RecvHeader, Enqueue, EnqueueFull, Done, ExecTimeout, CmdInv, TypeOfStreams
  <2>2. CASE u # t
    <3>1. pc'[t] = pc[t] /\ note'[t] = note[t]
      BY <1>1, <2>2 DEF Client, RecvHeader, Enqueue, EnqueueFull, Done, ExecTimeout, Goto, CmdInv, TypeOfControl
    <3>. QED BY <2>1, <3>1 DEF Pending
  <2>3. CASE u = t
    <3>1. pc'[t] = "recv" \/ Enqueue(t)
      BY <1>1, <2>3 DEF Client, EnqueueFull, Done, ExecTimeout, Goto, CmdInv, TypeOfControl
    <3>. QED BY <2>1, <3>1 DEF Pending, Enqueue
  <2>. QED BY <2>2, <2>3
<1>2. CASE Schedule
  <2>1. /\ UNCHANGED <<header, exec, job, note>>
        /\ pc'[t] = pc[t] \/ pc'[t] = "recv" \/ (pc[t] = "schedule" /\ pc'[t] = "push")
    BY <1>2 DEF Schedule, ScheduleTooLarge, ScheduleArgs, SchedulePush, Goto, CmdInv, TypeOfControl
  <2>. QED BY <2>1 DEF Pending
<1>3. CASE ExecReceive \/ ExecInvoke \/ ExecArgs \/ ExecArgsTimeout \/ ExecRun \/ ExecRespond
  <2>1. /\ UNCHANGED <<pc, header, note>>
        /\ exec \in {"respond", "callback"} => exec' \in {"respond", "callback"} /\ job' = job
    BY <1>3 DEF ExecReceive, ExecInvoke, ExecArgs, ExecArgsTimeout, ExecRun, ExecRespond, history
  <2>. QED BY <2>1 DEF Pending
<1>4. CASE ExecCallback
  <2>1. /\ exec = "callback" /\ UNCHANGED <<pc, header>>
        /\ note' = [note EXCEPT ![job.client] = job.cmd]
        /\ job.client \in Clients /\ pc[job.client] = "wait" /\ job.cmd \in Cmds
    BY <1>4, JobOf DEF ExecCallback
  <2>2. note'[job.client] # None /\ \A u \in Clients \ {job.client} : note'[u] = note[u]
    BY <2>1 DEF CmdInv, TypeOfControl
  <2>. QED BY <2>1, <2>2 DEF Pending
<1>5. CASE Rtc \/ UNCHANGED vars \/ \E c \in Cmds : Send(c)
  BY <1>5 DEF Rtc, Dispatch, DispatchPart, vars, Send, history, Pending
<1>. QED BY <1>1, <1>2, <1>3, <1>4, <1>5 DEF Next, Exec

LEMMA StageFacts ==
  ASSUME NEW new, NEW due, NEW w, w = Stages(new, due)
  PROVE  /\ w[1] = Cmds \ Range(sent) /\ w[2] = Range(new) /\ w[3] = Held("imm")
         /\ w[4] = {c \in Cmds : Bytes(c) \in Range(schedule)}
         /\ w[5] = Range(due) /\ w[6] = Held("sched")
         /\ w[7] = {ran[i].cmd : i \in 1..Len(ran)}
BY DEF Stages

LEMMA StageFactsNext ==
  ASSUME NEW new, NEW due, NEW w, w = Stages(new, due)'
  PROVE  /\ w[1] = Cmds \ Range(sent') /\ w[2] = Range(new) /\ w[3] = Held("imm")'
         /\ w[4] = {c \in Cmds : Bytes(c) \in Range(schedule')}
         /\ w[5] = Range(due) /\ w[6] = Held("sched")'
         /\ w[7] = {ran'[i].cmd : i \in 1..Len(ran')}
BY DEF Stages, Bytes, Header, Args

LEMMA Seven == 1..7 = {1, 2, 3, 4, 5, 6, 7}
OBVIOUS

Located ==
  \E new, due : Carries("imm", new) /\ Carries("sched", due) /\ OnceEach(new, due)

LEMMA InitLocated == Init => Located
<1>. SUFFICES ASSUME Init
              PROVE  Carries("imm", <<>>) /\ Carries("sched", <<>>) /\ OnceEach(<<>>, <<>>)
  BY DEF Located
<1>1. \A t \in Clients : ~Unread(t) /\ input[t] = <<>> /\ ~Pending(t)
  BY DEF Init, Unread, Pending
<1>2. Wire(<<>>) = <<>> /\ <<>> \o <<>> = <<>> /\ <<>> \in Seq(Cmds)
  BY WireEmpty
<1>3. \A t \in Clients : Carries(t, <<>>)
  BY <1>1, <1>2 DEF Carries
<1>4. Range(<<>>) = {} /\ IsInjective(<<>>)
  BY DEF Range, IsInjective
<1>5. schedule = <<>> /\ ran = <<>> /\ sent = <<>>
  BY DEF Init
<1>. DEFINE w == Stages(<<>>, <<>>)
<1>6. w[2] = {} /\ w[3] = {} /\ w[4] = {} /\ w[5] = {} /\ w[6] = {} /\ w[7] = {}
  BY <1>1, <1>4, <1>5 DEF Stages, Held
<1>7. Apart(w)
  BY <1>6, Seven DEF Apart
<1>. QED BY <1>3, <1>4, <1>5, <1>7 DEF OnceEach

\* A step that moves no command.
LEMMA OnceStayed ==
  ASSUME NEW new, NEW due, OnceEach(new, due), Held("imm")' \subseteq Held("imm"),
         Held("sched")' \subseteq Held("sched"), UNCHANGED <<sent, schedule, ran>>
  PROVE  OnceEach(new, due)'
<1>1. PICK w : w = Stages(new, due)
  OBVIOUS
<1>2. PICK v : v = Stages(new, due)'
  OBVIOUS
<1>3. \A k \in {1, 2, 3, 4, 5, 6, 7} : v[k] \subseteq w[k]
  BY <1>1, <1>2, StageFacts, StageFactsNext
<1>4. Apart(v)
  BY <1>1, <1>3, Stayed, Seven DEF OnceEach
<1>. QED BY <1>2, <1>4 DEF OnceEach, Apart, ArgsOf, Args, NoArgs

LEMMA OnceSend ==
  ASSUME CmdInv, NEW new \in Seq(Cmds), NEW due, OnceEach(new, due), NEW c \in Cmds, Send(c)
  PROVE  OnceEach(Append(new, c), due)'
<1>1. c \notin Range(sent) /\ sent' = Append(sent, c) /\ UNCHANGED <<schedule, ran>>
  BY DEF Send, history
<1>2. Held("imm")' = Held("imm") /\ Held("sched")' = Held("sched")
  BY DEF Send, Held, Pending
<1>3. Range(sent') = Range(sent) \cup {c}
  BY <1>1, AppendRange DEF CmdInv, TypeOfHistory
<1>4. PICK w : w = Stages(new, due)
  OBVIOUS
<1>5. PICK v : v = Stages(Append(new, c), due)'
  OBVIOUS
<1>6. Apart(w) /\ IsInjective(new)
  BY <1>4 DEF OnceEach
<1>7. c \in w[1] /\ c \notin w[2]
  <2>1. c \in w[1]
    BY <1>1, <1>4, StageFacts
  <2>. QED BY <1>6, <2>1 DEF Apart
<1>8. /\ IsInjective(Append(new, c)) /\ Range(Append(new, c)) = Range(new) \cup {c}
  BY <1>4, <1>6, <1>7, StageFacts, AppendFacts
<1>9. v[1] \subseteq w[1] \ {c} /\ v[2] \subseteq w[2] \cup {c} /\ \A k \in {3, 4, 5, 6, 7} : v[k] \subseteq w[k]
  BY <1>1, <1>2, <1>3, <1>4, <1>5, <1>8, StageFacts, StageFactsNext
<1>10. \A k \in 1..7 : k \notin {1, 2} => v[k] \subseteq w[k]
  BY <1>9, Seven
<1>11. Apart(v)
  <2>1. Moves(c, 1, 2, w, v)
    BY <1>7, <1>9, <1>10 DEF Moves
  <2>. QED BY <1>6, <2>1, Moved
<1>. QED BY <1>1, <1>5, <1>8, <1>11 DEF OnceEach, Apart, ArgsOf, Args, NoArgs

\* A client takes the header of the command that is next in its stream.
LEMMA OnceHeader ==
  ASSUME CmdInv, CmdInv', Synchronous, NEW new \in Seq(Cmds), NEW due \in Seq(Cmds), OnceEach(new, due),
         NEW t \in Clients, RecvHeader(t), NEW cs, cs = (IF t = "imm" THEN new ELSE due),
         cs # <<>>, header'[t] = Head(cs), [Next]_vars
  PROVE  OnceEach(IF t = "imm" THEN Tail(new) ELSE new, IF t = "imm" THEN due ELSE Tail(due))'
<1>1. UNCHANGED <<sent, schedule, ran>>
  BY DEF RecvHeader, history
<1>2. \A u \in Clients : u # t => Held(u)' \subseteq Held(u)
  BY DEF RecvHeader, Goto, Held, Pending, CmdInv, TypeOfControl, TypeOfStreams
<1>3. Held(t)' \subseteq {Head(cs)}
  BY DEF Held
<1>4. PICK w : w = Stages(new, due)
  OBVIOUS
<1>5. Apart(w) /\ IsInjective(new) /\ IsInjective(due) /\ IsInjective(cs) /\ cs \in Seq(Cmds)
  BY <1>4 DEF OnceEach
<1>6. /\ IsInjective(Tail(cs)) /\ Range(Tail(cs)) = Range(cs) \ {Head(cs)} /\ Head(cs) \in Range(cs)
  BY <1>5, TailFacts
<1>7. CASE t = "imm"
  <2>1. PICK v : v = Stages(Tail(new), due)'
    OBVIOUS
  <2>2. Head(new) \in w[2] /\ v[2] \subseteq w[2] \ {Head(new)} /\ v[3] \subseteq w[3] \cup {Head(new)}
    BY <1>3, <1>4, <1>6, <1>7, <2>1, StageFacts, StageFactsNext
  <2>3. \A k \in {1, 4, 5, 6, 7} : v[k] \subseteq w[k]
    BY <1>1, <1>2, <1>4, <1>7, <2>1, StageFacts, StageFactsNext
  <2>4. \A k \in 1..7 : k \notin {2, 3} => v[k] \subseteq w[k]
    BY <2>3, Seven
  <2>5. Apart(v)
    <3>1. Moves(Head(new), 2, 3, w, v)
      BY <2>2, <2>4 DEF Moves
    <3>. QED BY <1>5, <3>1, Moved
  <2>6. OnceEach(Tail(new), due)'
    BY <1>1, <1>5, <1>6, <1>7, <2>1, <2>5 DEF OnceEach, Apart, ArgsOf, Args, NoArgs
  <2>. QED BY <1>7, <2>6
<1>8. CASE t = "sched"
  <2>1. PICK v : v = Stages(new, Tail(due))'
    OBVIOUS
  <2>2. Head(due) \in w[5] /\ v[5] \subseteq w[5] \ {Head(due)} /\ v[6] \subseteq w[6] \cup {Head(due)}
    BY <1>3, <1>4, <1>6, <1>8, <2>1, StageFacts, StageFactsNext
  <2>3. \A k \in {1, 2, 3, 4, 7} : v[k] \subseteq w[k]
    BY <1>1, <1>2, <1>4, <1>8, <2>1, StageFacts, StageFactsNext
  <2>4. \A k \in 1..7 : k \notin {5, 6} => v[k] \subseteq w[k]
    BY <2>3, Seven
  <2>5. Apart(v)
    <3>1. Moves(Head(due), 5, 6, w, v)
      BY <2>2, <2>4 DEF Moves
    <3>. QED BY <1>5, <3>1, Moved
  <2>6. OnceEach(new, Tail(due))'
    BY <1>1, <1>5, <1>6, <1>8, <2>1, <2>5 DEF OnceEach, Apart, ArgsOf, Args, NoArgs
  <2>. QED BY <1>8, <2>6
<1>. QED BY <1>7, <1>8

\* CMD_SYS_IMM puts its command into the schedule, or fails to.
LEMMA OncePush ==
  ASSUME Orderly, CmdInv, CmdInv', Synchronous, Loaded, Items, NEW new \in Seq(Cmds), NEW due,
         OnceEach(new, due), SchedulePush, Held("sched")' \subseteq Held("sched")
  PROVE  OnceEach(new, due)' /\ Items'
<1>. DEFINE c == header["imm"]
<1>1. pc["imm"] = "push" /\ UNCHANGED <<sent, ran>> /\ pc'["imm"] = "recv" /\ c \in Cmds
  BY DEF SchedulePush, Goto, CmdInv, TypeOfControl, Headers
<1>2. Held("imm") = {c} /\ Held("imm")' = {}
  BY <1>1 DEF Held, Pending
<1>3. Item(c) = Bytes(c)
  BY <1>1 DEF Loaded, ArgsOf, Item, Bytes
<1>4. schedule' = schedule \/ schedule' = Append(schedule, Bytes(c))
  BY <1>3 DEF SchedulePush, Pushed
<1>5. CASE schedule' = schedule
  BY <1>1, <1>2, <1>5, OnceStayed DEF Items, Bytes, Header, Args
<1>6. CASE schedule' = Append(schedule, Bytes(c))
  <2>1. PICK w : w = Stages(new, due)
    OBVIOUS
  <2>2. PICK v : v = Stages(new, due)'
    OBVIOUS
  <2>3. Apart(w) /\ IsInjective(schedule)
    BY <2>1 DEF OnceEach
  <2>4. c \in w[3] /\ c \notin w[4]
    <3>1. c \in w[3]
      BY <1>2, <2>1, StageFacts
    <3>. QED BY <2>3, <3>1 DEF Apart
  <2>5. Bytes(c) \notin Range(schedule)
    BY <1>1, <2>1, <2>4, StageFacts
  <2>6. schedule \in Seq(Seq(Bits)) /\ Bytes(c) \in Seq(Bits)
    BY <1>1, BytesFacts DEF CmdInv, TypeOfStreams
  <2>7. PICK x : x = Bytes(c)
    OBVIOUS
  <2>8. IsInjective(schedule') /\ Range(schedule') = Range(schedule) \cup {Bytes(c)}
    BY <1>6, <2>3, <2>5, <2>6, <2>7, AppendFacts
  <2>9. v[4] \subseteq w[4] \cup {c}
    <3>. SUFFICES ASSUME NEW d \in Cmds, Bytes(d) \in Range(schedule') PROVE d \in w[4] \/ d = c
      BY <2>2, StageFactsNext
    <3>1. Bytes(d) \in Range(schedule) \/ Bytes(d) = Bytes(c)
      BY <2>8
    <3>. QED BY <1>1, <2>1, <3>1, BytesInjective, StageFacts
  <2>10. v[3] \subseteq w[3] \ {c} /\ \A k \in {1, 2, 5, 6, 7} : v[k] \subseteq w[k]
    BY <1>1, <1>2, <2>1, <2>2, StageFacts, StageFactsNext
  <2>11. \A k \in 1..7 : k \notin {3, 4} => v[k] \subseteq w[k]
    BY <2>10, Seven
  <2>12. Apart(v)
    <3>1. Moves(c, 3, 4, w, v)
      BY <2>4, <2>9, <2>10, <2>11 DEF Moves
    <3>. QED BY <2>3, <3>1, Moved
  <2>13. OnceEach(new, due)'
    BY <1>1, <2>2, <2>8, <2>12 DEF OnceEach, Apart, ArgsOf, Args, NoArgs
  <2>14. \A i \in 1..Len(schedule') : \E d \in Cmds : schedule'[i] = Bytes(d)
    <3>1. Len(schedule') = Len(schedule) + 1 /\ Len(schedule) \in Nat
          /\ \A i \in 1..Len(schedule') : schedule'[i] = IF i = Len(schedule) + 1 THEN Bytes(c) ELSE schedule[i]
      BY <1>6, <2>6, <2>7
    <3>2. \A i \in 1..Len(schedule') : i = Len(schedule) + 1 \/ i \in 1..Len(schedule)
      BY <3>1
    <3>. QED BY <1>1, <3>1, <3>2 DEF Items
  <2>. QED BY <2>13, <2>14 DEF Items, Bytes, Header, Args
<1>. QED BY <1>4, <1>5, <1>6

\* The RTC task hands a due command to CMD_SYS_SCHED.
LEMMA OnceDispatch ==
  ASSUME CmdInv, CmdInv', Items, NEW new, NEW due \in Seq(Cmds), Carries("sched", due),
         OnceEach(new, due), Dispatch
  PROVE  \E more : more \in Seq(Cmds) /\ Carries("sched", more)' /\ OnceEach(new, more)' /\ Items'
<1>1. PICK i \in 1..Len(schedule) : /\ input' = [input EXCEPT !["sched"] = @ \o schedule[i]]
                                    /\ schedule' = RemoveAt(schedule, i)
  BY DEF Dispatch
<1>2. UNCHANGED <<pc, header, note, exec, job, sent, ran>>
  BY DEF Dispatch, history
<1>3. PICK c \in Cmds : schedule[i] = Bytes(c)
  BY DEF Items
<1>4. PICK more \in Seq(Cmds) : more = Append(due, c)
  BY AppendProperties
<1>5. Carries("sched", more)'
  <2>1. input'["sched"] = input["sched"] \o Bytes(c)
    BY <1>1, <1>3 DEF CmdInv, TypeOfStreams
  <2>2. Unread("sched")' <=> Unread("sched")
    BY <1>2 DEF Unread, Begun
  <2>3. Carries("sched", Append(due, c))'
    BY <1>2, <2>1, <2>2, CarriesMore
  <2>. QED BY <1>4, <2>3
<1>6. schedule \in Seq(Seq(Bits)) /\ IsInjective(schedule) /\ IsInjective(due)
  BY DEF CmdInv, TypeOfStreams, OnceEach
<1>7. /\ schedule' \in Seq(Seq(Bits)) /\ IsInjective(schedule')
      /\ Range(schedule') = Range(schedule) \ {Bytes(c)}
  BY <1>1, <1>3, <1>6, RemoveFacts
<1>8. Bytes(c) \in Range(schedule)
  <2>1. Range(schedule) = {schedule[k] : k \in 1..Len(schedule)}
    BY <1>6, SeqFacts
  <2>. QED BY <1>3, <2>1
<1>9. PICK w : w = Stages(new, due)
  OBVIOUS
<1>10. PICK v : v = Stages(new, more)'
  OBVIOUS
<1>11. Apart(w)
  BY <1>9 DEF OnceEach
<1>12. c \in w[4] /\ c \notin w[5]
  <2>1. c \in w[4]
    BY <1>8, <1>9, StageFacts
  <2>. QED BY <1>11, <2>1 DEF Apart
<1>13. IsInjective(more) /\ Range(more) = Range(due) \cup {c}
  BY <1>4, <1>6, <1>9, <1>12, StageFacts, AppendFacts
<1>14. v[4] \subseteq w[4] \ {c} /\ v[5] \subseteq w[5] \cup {c}
  BY <1>7, <1>9, <1>10, <1>13, StageFacts, StageFactsNext
<1>15. \A k \in {1, 2, 3, 6, 7} : v[k] \subseteq w[k]
  BY <1>2, <1>9, <1>10, StageFacts, StageFactsNext DEF Held, Pending
<1>16. \A k \in 1..7 : k \notin {4, 5} => v[k] \subseteq w[k]
  BY <1>15, Seven
<1>17. Apart(v)
  <2>1. Moves(c, 4, 5, w, v)
    BY <1>12, <1>14, <1>16 DEF Moves
  <2>. QED BY <1>11, <2>1, Moved
<1>18. OnceEach(new, more)'
  BY <1>2, <1>7, <1>10, <1>13, <1>17 DEF OnceEach, Apart, ArgsOf, Args, NoArgs
<1>19. \A k \in 1..Len(schedule') : \E d \in Cmds : schedule'[k] = Bytes(d)
  <2>. SUFFICES ASSUME NEW k \in 1..Len(schedule') PROVE \E d \in Cmds : schedule'[k] = Bytes(d)
    OBVIOUS
  <2>1. schedule'[k] \in Range(schedule')
    BY <1>7, SeqFacts
  <2>2. schedule'[k] \in Range(schedule)
    BY <1>7, <2>1
  <2>3. Range(schedule) = {schedule[j] : j \in 1..Len(schedule)}
    BY <1>6, SeqFacts
  <2>. QED BY <2>2, <2>3 DEF Items
<1>20. Items'
  BY <1>19 DEF Items, Bytes, Header, Args
<1>. QED BY <1>5, <1>18, <1>20

\* The command's function runs.
LEMMA OnceRun ==
  ASSUME CmdInv, CmdInv', Synchronous, Phase, Loaded, NEW new, NEW due, OnceEach(new, due), ExecRun,
         \A t \in Clients : Held(t)' \subseteq Held(t)
  PROVE  OnceEach(new, due)'
<1>. DEFINE r == [cmd |-> spec, args |-> args]
<1>0. PICK t : t = job.client
  OBVIOUS
<1>1. /\ exec = "run" /\ exec' = "respond" /\ ran' = Append(ran, r)
      /\ UNCHANGED <<pc, header, note, job, sent, schedule>>
  BY DEF ExecRun
<1>2. /\ t \in Clients /\ pc[t] = "wait" /\ note[t] = None /\ header[t] \in Cmds
      /\ spec = header[t] /\ args = ArgsOf(spec)
  BY <1>0, <1>1, JobOf DEF Phase, Loaded
<1>3. Held(t) = {spec} /\ Held(t)' = {}
  BY <1>0, <1>1, <1>2 DEF Held, Pending
<1>4. PICK k \in {3, 6} : k = IF t = "imm" THEN 3 ELSE 6
  OBVIOUS
<1>5. PICK w : w = Stages(new, due)
  OBVIOUS
<1>6. PICK v : v = Stages(new, due)'
  OBVIOUS
<1>7. Apart(w)
  BY <1>5 DEF OnceEach
<1>8. spec \in w[k] /\ v[k] = {}
  <2>1. w[3] = Held("imm") /\ w[6] = Held("sched") /\ v[3] = Held("imm")' /\ v[6] = Held("sched")'
    BY <1>5, <1>6, StageFacts, StageFactsNext
  <2>2. CASE t = "imm"
    BY <1>3, <1>4, <2>1, <2>2
  <2>3. CASE t = "sched"
    BY <1>3, <1>4, <2>1, <2>3
  <2>. QED BY <1>2, <2>2, <2>3
<1>9. /\ ran \in Seq([cmd : Cmds, args : Bits]) /\ r \in [cmd : Cmds, args : Bits]
      /\ r.cmd = spec /\ r.args = ArgsOf(spec)
  BY <1>2 DEF CmdInv, TypeOfStreams, TypeOfHistory
<1>. HIDE DEF r
<1>10. /\ Len(ran) \in Nat /\ Len(ran') = Len(ran) + 1
       /\ \A i \in 1..Len(ran') : ran'[i] = IF i = Len(ran) + 1 THEN r ELSE ran[i]
       /\ \A i \in 1..Len(ran') : i = Len(ran) + 1 \/ i \in 1..Len(ran)
  BY <1>1, <1>9
<1>11. v[7] \subseteq w[7] \cup {spec}
  <2>1. v[7] = {ran'[i].cmd : i \in 1..Len(ran')} /\ w[7] = {ran[i].cmd : i \in 1..Len(ran)}
    BY <1>5, <1>6, StageFacts, StageFactsNext
  <2>. QED BY <1>9, <1>10, <2>1
<1>12. \A l \in {1, 2, 3, 4, 5, 6} : v[l] \subseteq w[l]
  BY <1>1, <1>5, <1>6, StageFacts, StageFactsNext
<1>13. \A l \in 1..7 : l \notin {k, 7} => v[l] \subseteq w[l]
  BY <1>12, Seven
<1>14. Apart(v)
  <2>1. Moves(spec, k, 7, w, v)
    BY <1>8, <1>11, <1>13 DEF Moves
  <2>. QED BY <1>7, <2>1, Moved
<1>15. \A i \in 1..Len(ran) : ran[i].cmd # spec
  <2>1. spec \notin w[7]
    BY <1>7, <1>8, Seven DEF Apart
  <2>. QED BY <1>5, <2>1, StageFacts
<1>16. /\ \A i, j \in 1..Len(ran') : ran'[i].cmd = ran'[j].cmd => i = j
       /\ \A i \in 1..Len(ran') : ran'[i].args = ArgsOf(ran'[i].cmd)
  BY <1>9, <1>10, <1>15 DEF OnceEach
<1>. QED BY <1>1, <1>6, <1>14, <1>16 DEF OnceEach, Apart, ArgsOf, Args, NoArgs

LEMMA LocatedBy ==
  ASSUME NEW new, NEW due, Carries("imm", new)', Carries("sched", due)', OnceEach(new, due)'
  PROVE  Located'
BY DEF Located

LEMMA NextLocated ==
  ASSUME Orderly, CmdInv, CmdInv', Synchronous, Phase, Phase', Loaded, Items, Located,
         [Next]_vars, ~DispatchPart
  PROVE  Loaded' /\ Items' /\ Located'
<1>1. PICK new, due : Carries("imm", new) /\ Carries("sched", due) /\ OnceEach(new, due)
  BY DEF Located
<1>2. new \in Seq(Cmds) /\ due \in Seq(Cmds)
  BY <1>1 DEF Carries
<1>3. Loaded'
  BY <1>1, NextLoaded
<1>4. schedule' = schedule => Items'
  BY DEF Items, Bytes, Header, Args
<1>5. ASSUME NEW c \in Cmds, Send(c) PROVE Items' /\ Located'
  <2>1. /\ input'["imm"] = input["imm"] \o Bytes(c) /\ input'["sched"] = input["sched"]
        /\ UNCHANGED <<pc, header, note, exec, job, schedule>>
    BY <1>5 DEF Send, Orderly, CmdInv, TypeOfStreams
  <2>2. \A t \in Clients : Unread(t)' <=> Unread(t)
    BY <2>1 DEF Unread, Begun
  <2>3. Carries("imm", Append(new, c))'
    BY <1>1, <2>1, <2>2, CarriesMore
  <2>4. Carries("sched", due)'
    BY <1>1, <2>1, <2>2, CarriesSame
  <2>5. OnceEach(Append(new, c), due)'
    BY <1>1, <1>2, <1>5, OnceSend
  <2>. QED BY <1>4, <2>1, <2>3, <2>4, <2>5 DEF Located
<1>6. ASSUME NEW t \in Clients, RecvHeader(t) PROVE Items' /\ Located'
  <2>1. PICK cs : cs = IF t = "imm" THEN new ELSE due
    OBVIOUS
  <2>2. Carries(t, cs)
    BY <1>1, <2>1
  <2>3. cs # <<>> /\ header'[t] = Head(cs) /\ Carries(t, Tail(cs))'
    BY <1>6, <2>2, CarriesHeader
  <2>4. \A u \in Clients : u # t => /\ pc'[u] = pc[u] /\ header'[u] = header[u] /\ input'[u] = input[u]
                                    /\ UNCHANGED <<note, exec, job>>
    BY <1>6 DEF RecvHeader, Goto, CmdInv, TypeOfControl, TypeOfStreams
  <2>5. OnceEach(IF t = "imm" THEN Tail(new) ELSE new, IF t = "imm" THEN due ELSE Tail(due))'
    BY <1>1, <1>2, <1>6, <2>1, <2>3, OnceHeader
  <2>6. schedule' = schedule
    BY <1>6 DEF RecvHeader
  <2>7. CASE t = "imm"
    <3>1. Carries("sched", due)'
      BY <1>1, <2>4, <2>7, CarriesSame DEF Unread, Begun
    <3>2. Carries("imm", Tail(new))' /\ OnceEach(Tail(new), due)'
      BY <2>1, <2>3, <2>5, <2>7
    <3>. QED BY <1>4, <2>6, <3>1, <3>2 DEF Located
  <2>8. CASE t = "sched"
    <3>1. Carries("imm", new)'
      BY <1>1, <2>4, <2>8, CarriesSame DEF Unread, Begun
    <3>2. Carries("sched", Tail(due))' /\ OnceEach(new, Tail(due))'
      BY <2>1, <2>3, <2>5, <2>8
    <3>. QED BY <1>4, <2>6, <3>1, <3>2 DEF Located
  <2>. QED BY <2>7, <2>8
<1>7. CASE SchedulePush
  <2>1. Carries("imm", new)' /\ Carries("sched", due)'
    BY <1>1, <1>7, CarriesSchedule DEF Schedule
  <2>2. Held("sched")' \subseteq Held("sched")
    BY <1>7 DEF SchedulePush, Goto, Held, Pending, CmdInv, TypeOfControl
  <2>3. OnceEach(new, due)' /\ Items'
    BY <1>1, <1>2, <1>7, <2>2, OncePush
  <2>. QED BY <1>3, <2>1, <2>3, LocatedBy
<1>8. CASE Dispatch
  <2>1. Carries("imm", new)'
    <3>1. input'["imm"] = input["imm"] /\ UNCHANGED <<pc, header, note, exec, job>>
      BY <1>8 DEF Dispatch, CmdInv, TypeOfStreams
    <3>. QED BY <1>1, <3>1, CarriesSame DEF Unread, Begun
  <2>2. PICK more : Carries("sched", more)' /\ OnceEach(new, more)' /\ Items'
    BY <1>1, <1>2, <1>8, OnceDispatch
  <2>. QED BY <1>3, <2>1, <2>2, LocatedBy
<1>9. CASE ExecRun
  <2>1. Carries("imm", new)' /\ Carries("sched", due)'
    BY <1>1, <1>9, CarriesExec
  <2>2. \A t \in Clients : ~RecvHeader(t)
    <3>. SUFFICES ASSUME NEW t \in Clients, RecvHeader(t) PROVE FALSE
      OBVIOUS
    <3>1. pc[t] = "recv" /\ pc'[t] # "recv" /\ pc' = pc
      BY <1>9 DEF ExecRun, RecvHeader, Goto, CmdInv, TypeOfControl
    <3>. QED BY <3>1
  <2>3. \A t \in Clients : Held(t)' \subseteq Held(t)
    BY <2>2, HeldNext
  <2>4. OnceEach(new, due)' /\ schedule' = schedule
    BY <1>1, <1>9, <2>3, OnceRun DEF ExecRun
  <2>. QED BY <1>3, <1>4, <2>1, <2>4, LocatedBy
<1>10. CASE /\ ~(\E c \in Cmds : Send(c)) /\ ~(\E t \in Clients : RecvHeader(t))
            /\ ~SchedulePush /\ ~Dispatch /\ ~ExecRun
  <2>1. \A t \in Clients : Held(t)' \subseteq Held(t)
    BY <1>10, HeldNext
  <2>2. Carries("imm", new)' /\ Carries("sched", due)'
    <3>1. ~Rtc
      BY <1>10 DEF Rtc
    <3>. QED BY <1>1, <1>10, <3>1, CarriesNext
  <2>3. UNCHANGED <<sent, schedule, ran>>
    <3>1. ASSUME NEW t \in Clients, Client(t) \/ ExecTimeout(t) PROVE UNCHANGED <<sent, schedule, ran>>
      BY <1>10, <3>1 DEF Client, Enqueue, EnqueueFull, Done, ExecTimeout, history
    <3>2. CASE Schedule
      BY <1>10, <3>2 DEF Schedule, ScheduleTooLarge, ScheduleArgs, history
    <3>3. CASE Exec
      BY <3>3 DEF Exec, ExecReceive, ExecInvoke, ExecArgs, ExecArgsTimeout, ExecRespond, ExecCallback, history
    <3>4. CASE UNCHANGED vars
      BY <3>4 DEF vars
    <3>. QED BY <1>10, <3>1, <3>2, <3>3, <3>4 DEF Next, Rtc
  <2>4. OnceEach(new, due)'
    BY <1>1, <2>1, <2>3, OnceStayed
  <2>. QED BY <1>3, <1>4, <2>2, <2>3, <2>4, LocatedBy
<1>. QED BY <1>3, <1>5, <1>6, <1>7, <1>8, <1>9, <1>10

\* The invariant of the schedule and of the stream buffer behind it.
LocatedInv == OrderlyInv /\ Loaded /\ Items /\ Located

LEMMA AlwaysLocated ==
  ASSUME Orderly
  PROVE  Spec /\ [][~DispatchPart]_vars => []LocatedInv
<1>1. Init => Loaded /\ Items /\ Located
  BY InitLoaded, InitLocated
<1>2. OrderlyInv /\ OrderlyInv' /\ (Loaded /\ Items /\ Located) /\ [Next]_vars /\ [~DispatchPart]_vars
        => (Loaded /\ Items /\ Located)'
  <2>. SUFFICES ASSUME OrderlyInv, OrderlyInv', Loaded, Items, Located, [Next]_vars, [~DispatchPart]_vars
                PROVE  Loaded' /\ Items' /\ Located'
    OBVIOUS
  <2>1. CmdInv /\ CmdInv' /\ Synchronous /\ Phase /\ Phase'
    BY DEF OrderlyInv
  <2>2. CASE ~DispatchPart
    BY <2>1, <2>2, NextLocated
  <2>3. CASE DispatchPart
    <3>1. UNCHANGED vars
      BY <2>3
    <3>2. UNCHANGED <<input, header, buf_args, pc, note, schedule, exec, job, spec, args, sent, ran>>
      BY <3>1 DEF vars
    <3>3. Loaded' /\ Items'
      BY <3>2 DEF Loaded, Items, ArgsOf, Bytes, Header, Args, NoArgs
    <3>4. PICK new, due : Carries("imm", new) /\ Carries("sched", due) /\ OnceEach(new, due)
      BY DEF Located
    <3>5. Carries("imm", new)' /\ Carries("sched", due)'
      BY <3>2, <3>4, CarriesSame DEF Unread, Begun
    <3>6. OnceEach(new, due)'
      BY <3>2, <3>4, OnceStayed DEF Held, Pending
    <3>. QED BY <3>3, <3>5, <3>6 DEF Located
  <2>. QED BY <2>2, <2>3
<1>3. Spec => []OrderlyInv
  BY AlwaysOrderly, PTL
<1>. QED BY <1>1, <1>2, <1>3, PTL DEF Spec, LocatedInv

\* Whoever reads a stream reads the part it means to read, as long as the stream buffer of
\* CMD_SYS_SCHED always gets room in time: the arguments of a command are read by the one who
\* reads its header, whichever of the three tasks that is, and before the next header.
THEOREM AlignedCorrect ==
  ASSUME Orderly
  PROVE  Spec /\ [][~DispatchPart]_vars => []Aligned
<1>1. LocatedInv => Aligned
  <2>. SUFFICES ASSUME LocatedInv PROVE Aligned
    OBVIOUS
  <2>1. CmdInv /\ Synchronous /\ Phase /\ \A t \in Clients : \E cs : Carries(t, cs)
    BY DEF LocatedInv, OrderlyInv, Located
  <2>2. ASSUME NEW t \in Clients, pc[t] = "recv", input[t] # <<>> PROVE Head(input[t]).part = "header"
    <3>1. PICK cs : Carries(t, cs)
      BY <2>1
    <3>2. cs \in Seq(Cmds) /\ Wire(cs) \in Seq(Bits) /\ ~Unread(t)
      BY <2>2, <3>1, WireType DEF Carries, Unread
    <3>3. input[t] = Wire(cs)
      BY <3>1, <3>2, ConcatFacts DEF Carries
    <3>4. Head(input[t]) = Header(Head(cs))
      BY <2>2, <3>2, <3>3, WireStart
    <3>. QED BY <3>4 DEF Header
  <2>3. ASSUME exec = "args", input[job.client] # <<>> PROVE Head(input[job.client]) = Args(spec)
    <3>1. /\ job.client \in Clients /\ pc[job.client] = "wait" /\ note[job.client] = None
          /\ spec = header[job.client] /\ spec.args
      BY <2>1, <2>3, JobOf DEF Phase
    <3>2. Unread(job.client)
      BY <2>3, <3>1 DEF Unread, Begun
    <3>. QED BY <2>1, <3>1, <3>2, CarriesArgs
  <2>4. ASSUME pc["imm"] = "schedule", header["imm"].args PROVE Head(input["imm"]) = Args(header["imm"])
    <3>1. Unread("imm")
      BY <2>4 DEF Unread
    <3>. QED BY <2>1, <2>4, <3>1, CarriesArgs
  <2>. QED BY <2>2, <2>3, <2>4 DEF Aligned
<1>. QED BY <1>1, AlwaysLocated, PTL

\* A command runs at most once and with its own arguments, whether it was delayed in the schedule,
\* in the stream buffer or in the queue, and one that has run is not in the schedule any more.
THEOREM RunsOnceCorrect ==
  ASSUME Orderly
  PROVE  Spec /\ [][~DispatchPart]_vars => []RunsOnce
<1>1. LocatedInv => RunsOnce
  <2>. SUFFICES ASSUME LocatedInv PROVE RunsOnce
    OBVIOUS
  <2>1. PICK new, due : OnceEach(new, due)
    BY DEF LocatedInv, Located
  <2>2. CmdInv /\ Items
    BY DEF LocatedInv, OrderlyInv
  <2>3. ran \in Seq([cmd : Cmds, args : Bits]) /\ schedule \in Seq(Seq(Bits))
    BY <2>2 DEF CmdInv, TypeOfHistory, TypeOfStreams
  <2>4. /\ Range(ran) = {ran[i] : i \in 1..Len(ran)} /\ Range(schedule) = {schedule[i] : i \in 1..Len(schedule)}
        /\ IsInjective(ran) <=> \A i, j \in 1..Len(ran) : ran[i] = ran[j] => i = j
        /\ \A i \in 1..Len(ran) : ran[i].cmd \in Cmds
    <3>1. /\ Range(ran) = {ran[i] : i \in 1..Len(ran)}
          /\ IsInjective(ran) <=> \A i, j \in 1..Len(ran) : ran[i] = ran[j] => i = j
          /\ \A i \in 1..Len(ran) : ran[i] \in [cmd : Cmds, args : Bits]
      <4>1. PICK S : S = [cmd : Cmds, args : Bits]
        OBVIOUS
      <4>2. ran \in Seq(S)
        BY <2>3, <4>1
      <4>3. /\ Range(ran) = {ran[i] : i \in 1..Len(ran)}
            /\ IsInjective(ran) <=> \A i, j \in 1..Len(ran) : ran[i] = ran[j] => i = j
            /\ \A i \in 1..Len(ran) : ran[i] \in S
        BY <4>2, SeqFacts
      <4>. QED BY <4>1, <4>3
    <3>2. Range(schedule) = {schedule[i] : i \in 1..Len(schedule)}
      BY <2>3, SeqFacts
    <3>. QED BY <3>1, <3>2
  <2>5. IsInjective(ran)
    BY <2>1, <2>4 DEF OnceEach
  <2>6. \A r \in Range(ran) : r.args = IF r.cmd.args THEN Args(r.cmd) ELSE NoArgs
    BY <2>1, <2>4 DEF OnceEach, ArgsOf
  <2>7. ASSUME NEW r \in Range(ran), NEW i \in Range(schedule), Head(i).cmd = r.cmd PROVE FALSE
    <3>1. PICK c \in Cmds : i = Bytes(c)
      BY <2>2, <2>4 DEF Items
    <3>2. Head(i) = Header(c)
      BY <3>1 DEF Bytes
    <3>3. c = r.cmd
      BY <2>7, <3>2 DEF Header
    <3>4. PICK w : w = Stages(new, due)
      OBVIOUS
    <3>5. c \in w[4] /\ c \in w[7]
      BY <2>4, <3>1, <3>3, <3>4, StageFacts
    <3>. QED BY <2>1, <3>4, <3>5, Seven DEF OnceEach, Apart
  <2>. QED BY <2>5, <2>6, <2>7 DEF RunsOnce
<1>. QED BY <1>1, AlwaysLocated, PTL

=============================================================================
