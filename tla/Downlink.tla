------------------------------ MODULE Downlink ------------------------------
(***************************************************************************)
(* The way of a response to the ground station: the command system writes  *)
(* a response with several writes and a flush (cmd_sys.c), the socket      *)
(* gathers them to datagrams (buffered_io.c), a message buffer holds the   *)
(* datagrams (rtos_stream.c), and GNDSTN_LINK hands them to the            *)
(* communications service (gndstn_link.c).                                 *)
(*                                                                         *)
(* One task at a time writes to the socket, as CmdSys shows.  A byte is    *)
(* <<r, n>>, the n-th of response r; a write, a datagram and the buffer    *)
(* are sequences of bytes.  The header of a response is one write.         *)
(***************************************************************************)
EXTENDS Naturals, Sequences, SequencesExt, FiniteSetsExt

CONSTANTS
  Size,          \* sizeof(downlink_output_buf), the largest datagram
  Overhead,      \* what the message buffer adds to a datagram: its length
  Room,          \* MSG_BUFFER_SIZE
  Shapes,        \* the responses: sequences of the lengths of their writes
  MaxResponses   \* bound: responses

ASSUME DownlinkAssumption ==
  /\ {Size, Overhead, Room, MaxResponses} \subseteq Nat
  /\ Size > 0 /\ Size + Overhead <= Room
  /\ Shapes \subseteq Seq(Nat \ {0}) \ {<<>>}

VARIABLES
  stage,      \* of the writer: "idle", "write" or "flush"
  shape,      \* the lengths of the writes the response has still to make
  todo,       \* what is left of the write it is in
  buf,        \* the buffered output; its length is the offset
  datagrams,  \* downlink_msg_buffer
  held,       \* the datagram GNDSTN_LINK works on, <<>> when there is none
  handed,     \* is it with the communications service?
  \* history
  outcome,    \* of each response begun: what became of it, and its length so far
  down,       \* bytes sent to the ground
  dropped     \* bytes of datagrams that the service did not take

client    == <<stage, shape, todo, outcome>>
linkage   == <<held, handed, down, dropped>>
down_vars == <<client, buf, datagrams, linkage>>

DownInit ==
  /\ stage = "idle" /\ shape = <<>> /\ todo = <<>>
  /\ buf = <<>> /\ datagrams = <<>> /\ held = <<>> /\ handed = FALSE
  /\ outcome = <<>> /\ down = <<>> /\ dropped = {}

\* xMessageBufferSend: a datagram is taken as a whole or not at all.
Fits(data) == FoldSeq(LAMBDA d, n : n + Len(d) + Overhead, 0, datagrams) + Len(data) + Overhead <= Room

-----------------------------------------------------------------------------
\* The writer, and the response it is at.
latest == Len(outcome)
Becomes(state) == outcome' = [outcome EXCEPT ![latest].state = state]

\* cmd_sys_begin_response: the first write is the header.
Begin ==
  /\ stage = "idle" /\ latest < MaxResponses
  /\ stage' = "write"
  /\ \E s \in Shapes :
       /\ shape' = Tail(s)
       /\ todo' = [i \in 1..Head(s) |-> <<latest + 1, i>>]
       /\ outcome' = Append(outcome, [state |-> "open", length |-> Head(s)])
  /\ UNCHANGED <<buf, datagrams, linkage>>

\* What one round of the loop of buffered_io_write takes: a full buffer
\* directly, or what the buffer has room for, nothing if it is still full.
Direct == buf = <<>> /\ Len(todo) > Size
Portion == IF Direct THEN Size ELSE Min({Size - Len(buf), Len(todo)})
Filled == buf \o SubSeq(todo, 1, Portion)

Writing == stage = "write" /\ todo # <<>>

\* The buffer is not full yet.
Copy ==
  /\ Writing /\ ~Direct /\ Len(Filled) < Size
  /\ buf' = Filled /\ todo' = SubSeq(todo, Portion + 1, Len(todo))
  /\ UNCHANGED <<stage, shape, outcome, datagrams, linkage>>

\* Mutant: the offset is not reset.
SendKeepsBuffer ==
  /\ Writing /\ Len(Filled) = Size /\ Fits(Filled)
  /\ datagrams' = Append(datagrams, Filled) /\ buf' = Filled
  /\ todo' = SubSeq(todo, Portion + 1, Len(todo))
  /\ UNCHANGED <<stage, shape, outcome, linkage>>

\* A full buffer goes to the message buffer.
SendFull ==
  /\ Writing /\ Len(Filled) = Size /\ Fits(Filled)
  /\ datagrams' = Append(datagrams, Filled) /\ buf' = <<>>
  /\ todo' = SubSeq(todo, Portion + 1, Len(todo))
  /\ UNCHANGED <<stage, shape, outcome, linkage>>

\* Mutant: the result of the write is not looked at.
WriteTimeoutUnnoticed ==
  /\ Writing /\ Len(Filled) = Size /\ ~Fits(Filled)
  /\ buf' = IF Direct THEN buf ELSE Filled
  /\ todo' = <<>>
  /\ UNCHANGED <<stage, shape, outcome, datagrams, linkage>>

\* There is no room for it in time: the write fails, and with it the
\* response.  What was copied stays in the buffer.
WriteTimeout ==
  /\ Writing /\ Len(Filled) = Size /\ ~Fits(Filled)
  /\ buf' = IF Direct THEN buf ELSE Filled
  /\ Becomes("short")
  /\ stage' = "idle" /\ shape' = <<>> /\ todo' = <<>>
  /\ UNCHANGED <<datagrams, linkage>>

\* The write has succeeded: the next one, of response fields, or the flush.
WriteDone ==
  /\ stage = "write" /\ todo = <<>>
  /\ IF shape = <<>>
     THEN stage' = "flush" /\ UNCHANGED <<shape, todo, outcome>>
     ELSE LET so_far == outcome[latest].length IN
          /\ shape' = Tail(shape)
          /\ todo' = [i \in 1..Head(shape) |-> <<latest, so_far + i>>]
          /\ outcome' = [outcome EXCEPT ![latest].length = @ + Head(shape)]
          /\ UNCHANGED stage
  /\ UNCHANGED <<buf, datagrams, linkage>>

\* cmd_sys_finish_response.
Flush ==
  /\ stage = "flush" /\ (buf = <<>> \/ Fits(buf))
  /\ datagrams' = IF buf = <<>> THEN datagrams ELSE Append(datagrams, buf)
  /\ buf' = <<>>
  /\ stage' = "idle" /\ Becomes("flushed")
  /\ UNCHANGED <<shape, todo, linkage>>

\* Mutant: the offset is reset before the result is looked at.
FlushTimeoutEmpties ==
  /\ stage = "flush" /\ buf # <<>> /\ ~Fits(buf)
  /\ stage' = "idle" /\ Becomes("kept")
  /\ buf' = <<>>
  /\ UNCHANGED <<shape, todo, datagrams, linkage>>

\* The response counts as sent all the same; its end stays in the buffer.
FlushTimeout ==
  /\ stage = "flush" /\ buf # <<>> /\ ~Fits(buf)
  /\ stage' = "idle" /\ Becomes("kept")
  /\ UNCHANGED <<shape, todo, buf, datagrams, linkage>>

-----------------------------------------------------------------------------
\* GNDSTN_LINK.

\* Mutant: it waits until there is as much as it has room for.
ReceiveFull ==
  /\ held = <<>> /\ datagrams # <<>> /\ Len(Head(datagrams)) = Size
  /\ held' = Head(datagrams) /\ datagrams' = Tail(datagrams)
  /\ UNCHANGED <<client, buf, handed, down, dropped>>

\* A datagram is received as soon as there is one.
ReceiveDatagram ==
  /\ held = <<>> /\ datagrams # <<>>
  /\ held' = Head(datagrams) /\ datagrams' = Tail(datagrams)
  /\ UNCHANGED <<client, buf, handed, down, dropped>>

\* comms_send_command takes the datagram.
Hand ==
  /\ held # <<>> /\ ~handed
  /\ handed' = TRUE /\ down' = down \o held
  /\ UNCHANGED <<client, buf, datagrams, held, dropped>>

\* It does not: the datagram is forgotten.
HandFails ==
  /\ held # <<>> /\ ~handed
  /\ held' = <<>> /\ dropped' = dropped \cup ToSet(held)
  /\ UNCHANGED <<client, buf, datagrams, handed, down>>

\* comms_wait_cmd_resp returns, whatever has become of the command.
ServiceAnswers ==
  /\ handed
  /\ handed' = FALSE /\ held' = <<>>
  /\ UNCHANGED <<client, buf, datagrams, down, dropped>>

-----------------------------------------------------------------------------
Writer == Copy \/ SendFull \/ WriteTimeout \/ WriteDone \/ Flush \/ FlushTimeout
Link == ReceiveDatagram \/ Hand \/ HandFails \/ ServiceAnswers

DownNext == Begin \/ Writer \/ Link

\* Both tasks run, and no wait of theirs is without end.
DownSpec == DownInit /\ [][DownNext]_down_vars /\ WF_down_vars(Writer) /\ WF_down_vars(Link)

-----------------------------------------------------------------------------
\* Every byte that has not been dropped, in the order in which it is, or
\* will be, sent.
Line == down \o (IF handed THEN <<>> ELSE held) \o FlattenSeq(datagrams) \o buf

Before(a, b) == a[1] < b[1] \/ (a[1] = b[1] /\ a[2] < b[2])

\* The bytes go down in the order in which they were written and none goes
\* twice, whichever writes and flushes time out and whatever stays in the
\* buffer until the next response.
InOrder == \A i \in 1..Len(Line) - 1 : Before(Line[i], Line[i + 1])

\* A response whose writes succeeded is on its way or down with all its
\* bytes, but for those in datagrams the communications service refused,
\* also when its flush failed, which nobody looks at.
NothingVanishes ==
  \A k \in 1..latest : outcome[k].state \in {"flushed", "kept"} =>
     {<<k, n>> : n \in 1..outcome[k].length} \subseteq ToSet(Line) \cup dropped

\* Of a response cut short by a write that failed, what is sent is the
\* beginning: no byte without those before it.
NoGap ==
  \A b \in ToSet(Line) : {<<b[1], n>> : n \in 1..b[2]} \subseteq ToSet(Line) \cup dropped

\* A response that was flushed has left for the ground at last, with
\* everything that was written before it.
Flushed(k) == k \in DOMAIN outcome /\ outcome[k].state = "flushed"
Bytes(k) == {<<k, n>> : n \in 1..(IF k \in DOMAIN outcome THEN outcome[k].length ELSE 0)}
Delivered ==
  \A k \in 1..MaxResponses : Flushed(k) ~> (Bytes(k) \subseteq ToSet(down) \cup dropped)
=============================================================================
