------------------------------- MODULE CmdSys -------------------------------
(***************************************************************************)
(* The command system, system/cmd_sys: the tasks CMD_SYS_IMM, CMD_SYS_SCHED*)
(* and CMD_SYS_EXEC.                                                       *)
(*                                                                         *)
(* The first two are clients of the third.  Each reads headers from its    *)
(* own input stream into its own static cmd struct, sends a pointer to the *)
(* struct through cmd_queue, and waits for a task notification.  The EXEC  *)
(* task reads the header through the pointer, the arguments from the input *)
(* stream of the client, runs the command, writes the response to the      *)
(* output stream of the client and notifies it.  CMD_SYS_IMM handles a     *)
(* command with a timestamp itself: it puts its bytes into the schedule;   *)
(* when the command is due the RTC task writes them to the stream buffer   *)
(* that is the input of CMD_SYS_SCHED.                                     *)
(*                                                                         *)
(* A stream is a sequence of parts: the 12 bytes of a header, the bytes of *)
(* the arguments.  Reading one where the other was meant parses bytes that *)
(* may form any header.                                                    *)
(***************************************************************************)
EXTENDS Naturals, Sequences, SequencesExt

CONSTANTS
  Cmds,           \* the commands the ground sends
  None,           \* no command
  QueueLength,    \* CMD_QUEUE_LENGTH: 2
  BufferSize,     \* parts the stream buffer of CMD_SYS_SCHED holds
  ScheduleSize,   \* items the schedule holds
  MayOutlast,     \* may a command run longer than its client waits (60 s)?
  MayLose,        \* may the radio lose the arguments of a command?
  MayGoUnanswered \* the commands whose answer may not get written

ASSUME CmdsAssumption ==
  /\ None \notin Cmds
  /\ \A c \in Cmds :
       /\ c.kind \in {"ok", "dne", "invalid"}  \* implemented; id in the table; out of bounds
       /\ {c.scheduled, c.args, c.large} \subseteq BOOLEAN

ASSUME SizesAssumption ==
  /\ {QueueLength, BufferSize, ScheduleSize} \subseteq Nat \ {0}
  /\ {MayOutlast, MayLose} \subseteq BOOLEAN
  /\ MayGoUnanswered \subseteq Cmds

Clients == {"imm", "sched"}

Header(c) == [cmd |-> c, part |-> "header"]
Args(c)   == [cmd |-> c, part |-> "args"]
NoArgs    == [cmd |-> None, part |-> "args"]
Parts     == {Header(c) : c \in Cmds} \cup {Args(c) : c \in Cmds}
Bytes(c)  == IF c.args THEN <<Header(c), Args(c)>> ELSE <<Header(c)>>

\* cmd_sys_parse_header: it parses whatever it is given.
Parse(part) == IF part.part = "header" THEN {part.cmd} ELSE Cmds

VARIABLES
  input,       \* the input stream of each client
  header,      \* the header in the cmd struct of each client
  buf_args,    \* the arguments in the buf of CMD_SYS_IMM
  pc,          \* where each client is
  note,        \* its pending notification: the command whose execution it reports
  cmd_queue,   \* entries: the client whose struct it points to; what it held then
  schedule,    \* the items of the RTC scheduler
  exec,        \* where CMD_SYS_EXEC is
  job,         \* the entry it works on
  spec,        \* the command it was dispatched to
  args,        \* the arguments it read
  \* history
  sent, ran, returned,
  responses    \* what each client's stream was given for each command

vars == <<input, header, buf_args, pc, note, cmd_queue, schedule, exec, job, spec, args,
          sent, ran, responses, returned>>
history == <<ran, responses, returned>>

NoJob == [client |-> "imm", cmd |-> None]

Init ==
  /\ input = [t \in Clients |-> <<>>]
  /\ header = [t \in Clients |-> None]
  /\ buf_args = NoArgs
  /\ pc = [t \in Clients |-> "recv"]
  /\ note = [t \in Clients |-> None]
  /\ cmd_queue = <<>> /\ schedule = <<>>
  /\ exec = "idle" /\ job = NoJob /\ spec = None /\ args = NoArgs
  /\ sent = <<>> /\ ran = <<>> /\ returned = <<>>
  /\ responses = [t \in Clients |-> <<>>]

Goto(t, label) == pc' = [pc EXCEPT ![t] = label]

\* A response carries the header that is in the client's struct when it is written.  It is
\* not written, or not to its end, when the output stays full for as long as
\* cmd_sys_begin_response and cmd_sys_handle_resp_fields wait (CMD_SYS_ERR_WRITE_TIMEOUT),
\* or when the command's function returns an error of its own before it answers.  What
\* CMD_SYS_SCHED writes goes to the log, which always has room (write_log).
Outcomes(t) ==
  IF header[t] \in MayGoUnanswered /\ (t = "imm" \/ header[t].kind = "ok")
  THEN BOOLEAN ELSE {TRUE}

Respond(t) ==
  \E w \in Outcomes(t) :
    responses' = [responses EXCEPT ![t] = Append(@, [cmd |-> header[t], written |-> w])]

----------------------------------------------------------------------------

\* The ground sends a command; its arguments travel in datagrams of their own.
Send(c) ==
  /\ c \notin Range(sent)
  /\ sent' = Append(sent, c)
  /\ \E bytes \in {Bytes(c)} \cup (IF MayLose THEN {<<Header(c)>>} ELSE {}) :
       input' = [input EXCEPT !["imm"] = @ \o bytes]
  /\ UNCHANGED <<header, buf_args, pc, note, cmd_queue, schedule, exec, job, spec, args, history>>

\* cmd_sys_recv_header, and the choice the task makes.
RecvHeader(t) ==
  /\ pc[t] = "recv"
  /\ input[t] # <<>>
  /\ \E c \in Parse(Head(input[t])) :
       /\ header' = [header EXCEPT ![t] = c]
       /\ Goto(t, IF t = "imm" /\ c.scheduled THEN "schedule" ELSE "enqueue")
  /\ input' = [input EXCEPT ![t] = Tail(@)]
  /\ UNCHANGED <<buf_args, note, cmd_queue, schedule, exec, job, spec, args, sent, history>>

\* Mutant: the client does not wait for the command to finish.
EnqueueNoWait(t) ==
  /\ pc[t] = "enqueue"
  /\ Len(cmd_queue) < QueueLength
  /\ cmd_queue' = Append(cmd_queue, [client |-> t, cmd |-> header[t]])
  /\ Goto(t, "recv")
  /\ UNCHANGED <<input, header, buf_args, note, schedule, exec, job, spec, args, sent, history>>

\* cmd_sys_execute: a pointer to the struct goes into the queue.
Enqueue(t) ==
  /\ pc[t] = "enqueue"
  /\ Len(cmd_queue) < QueueLength
  /\ cmd_queue' = Append(cmd_queue, [client |-> t, cmd |-> header[t]])
  /\ Goto(t, "wait")
  /\ UNCHANGED <<input, header, buf_args, note, schedule, exec, job, spec, args, sent, history>>

\* CMD_SYS_ERR_EXEC_Q_TIMEOUT: the client goes on with what follows the header.
EnqueueFull(t) ==
  /\ pc[t] = "enqueue"
  /\ Len(cmd_queue) = QueueLength
  /\ Goto(t, "recv")
  /\ UNCHANGED <<input, header, buf_args, note, cmd_queue, schedule, exec, job, spec, args,
                 sent, history>>

\* The notification arrives, or was pending already: cmd_sys_execute returns its value.
Done(t) ==
  /\ pc[t] = "wait"
  /\ note[t] # None
  /\ note' = [note EXCEPT ![t] = None]
  /\ returned' = Append(returned, [cmd |-> header[t], status_of |-> note[t]])
  /\ Goto(t, "recv")
  /\ UNCHANGED <<input, header, buf_args, cmd_queue, schedule, exec, job, spec, args, sent,
                 ran, responses>>

\* Mutant: the wait has no timeout.
ExecTimeoutNever(t) == FALSE

\* Mutant: the client gives up before the command can have finished.
ExecTimeoutEarly(t) ==
  /\ pc[t] = "wait"
  /\ note[t] = None
  /\ Goto(t, "recv")
  /\ UNCHANGED <<input, header, buf_args, note, cmd_queue, schedule, exec, job, spec, args,
                 sent, history>>

\* CMD_SYS_ERR_EXEC_TIMEOUT, while the function of a command takes its time; the entry
\* stays where it is.
ExecTimeout(t) ==
  /\ MayOutlast /\ exec = "run"
  /\ pc[t] = "wait"
  /\ note[t] = None
  /\ Goto(t, "recv")
  /\ UNCHANGED <<input, header, buf_args, note, cmd_queue, schedule, exec, job, spec, args,
                 sent, history>>

----------------------------------------------------------------------------
\* cmd_sys_schedule_cmd, in CMD_SYS_IMM.

\* CMD_SYS_ERR_ARGS_TOO_LARGE: no response, and the arguments stay in the stream.
ScheduleTooLarge ==
  /\ pc["imm"] = "schedule"
  /\ header["imm"].large
  /\ Goto("imm", "recv")
  /\ UNCHANGED <<input, header, buf_args, note, cmd_queue, schedule, exec, job, spec, args,
                 sent, history>>

\* Read the arguments into buf; this waits without a timeout.
ScheduleArgs ==
  /\ pc["imm"] = "schedule"
  /\ ~header["imm"].large
  /\ IF header["imm"].args
     THEN /\ input["imm"] # <<>>
          /\ buf_args' = Head(input["imm"])
          /\ input' = [input EXCEPT !["imm"] = Tail(@)]
     ELSE buf_args' = NoArgs /\ UNCHANGED input
  /\ Goto("imm", "push")
  /\ UNCHANGED <<header, note, cmd_queue, schedule, exec, job, spec, args, sent, history>>

Item(c) == IF c.args THEN <<Header(c), buf_args>> ELSE <<Header(c)>>

\* The outcomes of cmd_sys_sched_push_cmd: scheduled, or full, or a mutex timeout.
Pushed(c) ==
  {schedule} \cup (IF Len(schedule) < ScheduleSize THEN {Append(schedule, Item(c))} ELSE {})

\* Mutant: only a command that was scheduled is answered.
SchedulePushSilent ==
  /\ pc["imm"] = "push"
  /\ schedule' \in Pushed(header["imm"])
  /\ IF schedule' # schedule THEN Respond("imm") ELSE UNCHANGED responses
  /\ Goto("imm", "recv")
  /\ UNCHANGED <<input, header, buf_args, note, cmd_queue, exec, job, spec, args, sent, ran, returned>>

\* Push the bytes to the scheduler; whether that succeeds or not, the command is answered,
\* if the answer can be written.
SchedulePush ==
  /\ pc["imm"] = "push"
  /\ schedule' \in Pushed(header["imm"])
  /\ Respond("imm")
  /\ Goto("imm", "recv")
  /\ UNCHANGED <<input, header, buf_args, note, cmd_queue, exec, job, spec, args, sent, ran, returned>>

----------------------------------------------------------------------------
\* scheduler_callback, in the RTC task: an item of the schedule is due.

Room == BufferSize - Len(input["sched"])

\* Mutant: the item stays in the schedule.
DispatchKeeps ==
  \E i \in 1..Len(schedule) :
    /\ Len(schedule[i]) <= Room
    /\ input' = [input EXCEPT !["sched"] = @ \o schedule[i]]
    /\ UNCHANGED <<header, buf_args, pc, note, cmd_queue, schedule, exec, job, spec, args, sent, history>>

\* The stream buffer has room for it, or gets it within 100 ms.
Dispatch ==
  \E i \in 1..Len(schedule) :
    /\ Len(schedule[i]) <= Room
    /\ input' = [input EXCEPT !["sched"] = @ \o schedule[i]]
    /\ schedule' = RemoveAt(schedule, i)
    /\ UNCHANGED <<header, buf_args, pc, note, cmd_queue, exec, job, spec, args, sent, history>>

\* It has not: xStreamBufferSend writes what fits, and nobody looks at its result.
DispatchPart ==
  \E i \in 1..Len(schedule) :
    /\ Len(schedule[i]) > Room
    /\ input' = [input EXCEPT !["sched"] = @ \o SubSeq(schedule[i], 1, Room)]
    /\ schedule' = RemoveAt(schedule, i)
    /\ UNCHANGED <<header, buf_args, pc, note, cmd_queue, exec, job, spec, args, sent, history>>

----------------------------------------------------------------------------
\* The CMD_SYS_EXEC task.

ExecReceive ==
  /\ exec = "idle"
  /\ cmd_queue # <<>>
  /\ job' = Head(cmd_queue)
  /\ cmd_queue' = Tail(cmd_queue)
  /\ exec' = "invoke"
  /\ UNCHANGED <<input, header, buf_args, pc, note, schedule, spec, args, sent, history>>

\* Mutant: the arguments are not read.
NextStepNoArgs(c) ==
  CASE c.kind = "invalid" -> "callback" [] c.kind = "dne" -> "respond" [] OTHER -> "run"

\* Where a command goes on: out of bounds, not in the table, or its own function.
NextStep(c) ==
  CASE c.kind = "invalid"         -> "callback"
    [] c.kind = "dne"             -> "respond"
    [] c.kind = "ok" /\ c.args    -> "args"
    [] c.kind = "ok" /\ ~c.args   -> "run"

\* cmd_sys_invoke_cmd: look the command up by the id in the client's struct.
ExecInvoke ==
  /\ exec = "invoke"
  /\ spec' = header[job.client]
  /\ args' = NoArgs
  /\ exec' = NextStep(spec')
  /\ UNCHANGED <<input, header, buf_args, pc, note, cmd_queue, schedule, job, sent, history>>

\* cmd_sys_handle_args: read the arguments, or time out with no response.
ExecArgs ==
  /\ exec = "args"
  /\ input[job.client] # <<>>
  /\ args' = Head(input[job.client])
  /\ input' = [input EXCEPT ![job.client] = Tail(@)]
  /\ exec' = "run"
  /\ UNCHANGED <<header, buf_args, pc, note, cmd_queue, schedule, job, spec, sent, history>>

ExecArgsTimeout ==
  /\ exec = "args"
  /\ input[job.client] = <<>>
  /\ exec' = "callback"
  /\ UNCHANGED <<input, header, buf_args, pc, note, cmd_queue, schedule, job, spec, args, sent, history>>

\* The command's function, which may take its time.
ExecRun ==
  /\ exec = "run"
  /\ ran' = Append(ran, [cmd |-> spec, args |-> args])
  /\ exec' = "respond"
  /\ UNCHANGED <<input, header, buf_args, pc, note, cmd_queue, schedule, job, spec, args, sent,
                 responses, returned>>

\* cmd_sys_begin_response to cmd_sys_finish_response, whatever comes of them: the error of
\* a response that was not written is the status the callback reports.
ExecRespond ==
  /\ exec = "respond"
  /\ Respond(job.client)
  /\ exec' = "callback"
  /\ UNCHANGED <<input, header, buf_args, pc, note, cmd_queue, schedule, job, spec, args, sent,
                 ran, returned>>

\* Mutant: only a command that was found reports its status.
ExecCallbackIfFound ==
  /\ exec = "callback"
  /\ note' = IF spec.kind = "invalid" THEN note ELSE [note EXCEPT ![job.client] = job.cmd]
  /\ exec' = "idle" /\ job' = NoJob
  /\ UNCHANGED <<input, header, buf_args, pc, cmd_queue, schedule, spec, args, sent, history>>

\* cmd_sys_exec_callback: notify the client, whatever it is doing by now.
ExecCallback ==
  /\ exec = "callback"
  /\ note' = [note EXCEPT ![job.client] = job.cmd]
  /\ exec' = "idle" /\ job' = NoJob
  /\ UNCHANGED <<input, header, buf_args, pc, cmd_queue, schedule, spec, args, sent, history>>

----------------------------------------------------------------------------

Client(t) == RecvHeader(t) \/ Enqueue(t) \/ EnqueueFull(t) \/ Done(t)
Schedule  == ScheduleTooLarge \/ ScheduleArgs \/ SchedulePush
Rtc       == Dispatch \/ DispatchPart
Exec      == ExecReceive \/ ExecInvoke \/ ExecArgs \/ ExecArgsTimeout \/ ExecRespond \/ ExecCallback

Next ==
  \/ \E c \in Cmds : Send(c)
  \/ \E t \in Clients : Client(t) \/ ExecTimeout(t)
  \/ Schedule \/ Rtc \/ Exec \/ ExecRun

\* The three tasks run again and again and time passes; a command ends unless it
\* may outlast the client.  Nothing is assumed of the ground and of the clock.
Spec ==
  /\ Init /\ [][Next]_vars
  /\ \A t \in Clients : WF_vars(Client(t)) /\ WF_vars(ExecTimeout(t))
  /\ WF_vars(Schedule) /\ WF_vars(Exec) /\ WF_vars(~MayOutlast /\ ExecRun)

----------------------------------------------------------------------------

Entries == [client : Clients, cmd : Cmds \cup {None}]

\* Type invariant.
TypeOK ==
  /\ input \in [Clients -> Seq(Parts \cup {NoArgs})] /\ Len(input["sched"]) <= BufferSize
  /\ header \in [Clients -> Cmds \cup {None}] /\ note \in [Clients -> Cmds \cup {None}]
  /\ buf_args \in Parts \cup {NoArgs} /\ args \in Parts \cup {NoArgs}
  /\ pc["imm"] \in {"recv", "schedule", "push", "enqueue", "wait"}
  /\ pc["sched"] \in {"recv", "enqueue", "wait"} /\ DOMAIN pc = Clients
  /\ cmd_queue \in Seq(Entries) /\ Len(cmd_queue) <= QueueLength
  /\ schedule \in Seq(Seq(Parts \cup {NoArgs})) /\ Len(schedule) <= ScheduleSize
  /\ exec \in {"idle", "invoke", "args", "run", "respond", "callback"}
  /\ job \in Entries /\ spec \in Cmds \cup {None}
  /\ sent \in Seq(Cmds)
  /\ ran \in Seq([cmd : Cmds, args : Parts \cup {NoArgs}])
  /\ responses \in [Clients -> Seq([cmd : Cmds, written : BOOLEAN])]
  /\ returned \in Seq([cmd : Cmds, status_of : Cmds])

\* What CMD_SYS_EXEC works on or will: by pointer.
Work == (IF exec = "idle" THEN {} ELSE {job}) \cup Range(cmd_queue)

\* cmd_sys_exec.c:71-72: "the object pointed to must remain valid and unmodified
\* until the callback is invoked".
Unmodified == \A e \in Work : header[e.client] = e.cmd

\* One task at a time reads a client's input stream and writes its output stream:
\* the buffers of FreeRTOS behind them allow only one reader and one writer.
OneUserPerStream ==
  \A t \in Clients :
    exec \in {"args", "respond"} /\ job.client = t => pc[t] \notin {"recv", "schedule", "push"}

\* Whoever reads a stream reads the part it means to read: nobody takes arguments for
\* a header, or the header of the next command for the arguments of this one.
Aligned ==
  /\ \A t \in Clients : pc[t] = "recv" /\ input[t] # <<>> => Head(input[t]).part = "header"
  /\ exec = "args" /\ input[job.client] # <<>> => Head(input[job.client]) = Args(spec)
  /\ pc["imm"] = "schedule" /\ header["imm"].args /\ input["imm"] # <<>> =>
       Head(input["imm"]) = Args(header["imm"])

\* A command runs at most once, whichever way it was delayed, with its own arguments,
\* and the schedule holds no command that has run.
RunsOnce ==
  /\ IsInjective(ran)
  /\ \A r \in Range(ran) :
       /\ r.args = IF r.cmd.args THEN Args(r.cmd) ELSE NoArgs
       /\ \A i \in Range(schedule) : Head(i).cmd # r.cmd

\* cmd_sys.c:171, cmd_sys_execute returns "the status returned from the execution of
\* the command": of this one, not of another that this client sent before.
OwnStatus == \A r \in Range(returned) : r.status_of = r.cmd

\* A client that waits will be notified: its last command is still queued or being
\* executed, or the notification is there.
NoLostWakeup ==
  \A t \in Clients : pc[t] = "wait" => note[t] # None \/ \E e \in Work : e.client = t

\* A client does not wait for ever, even if the command it sent never ends.
ClientsReturn == \A t \in Clients : pc[t] = "wait" ~> pc[t] = "recv"

\* The ground gets one answer to every command, in order, although two tasks answer; of
\* the commands in MayGoUnanswered, which run all the same, one or none.
Service == INSTANCE CommandService WITH answers <- responses["imm"]
ImplementsService == Service!Spec

=============================================================================
