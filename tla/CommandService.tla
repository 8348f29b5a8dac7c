--------------------------- MODULE CommandService ---------------------------
(***************************************************************************)
(* What the ground sees of the command system: every command it sends is   *)
(* answered once, in the order the commands were sent.  A command whose id *)
(* is out of bounds gets no answer (cmd_sys_invoke_cmd).  A command of     *)
(* MayGoUnanswered has its turn like every other, but its answer may not   *)
(* get through: the output stayed full, or its function gave none.         *)
(***************************************************************************)
EXTENDS Selection

CONSTANTS Cmds, MayGoUnanswered

VARIABLES
  sent,      \* the commands sent, in order
  answers    \* the answers, in order: to which command, and was it written

Expected == Only(sent, {c \in Cmds : c.kind # "invalid"})

Init == sent = <<>> /\ answers = <<>>

Send(c) ==
  /\ c \notin Range(sent)
  /\ sent' = Append(sent, c)
  /\ UNCHANGED answers

Answer ==
  /\ Len(answers) < Len(Expected)
  /\ LET c == Expected[Len(answers) + 1]
     IN \E w \in IF c \in MayGoUnanswered THEN BOOLEAN ELSE {TRUE} :
          answers' = Append(answers, [cmd |-> c, written |-> w])
  /\ UNCHANGED sent

Next == Answer \/ \E c \in Cmds : Send(c)

Spec == Init /\ [][Next]_<<sent, answers>> /\ WF_<<sent, answers>>(Answer)

=============================================================================
