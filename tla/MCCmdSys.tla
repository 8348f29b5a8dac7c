------------------------------ MODULE MCCmdSys ------------------------------
(* CmdSys with a few commands of each kind.                                *)
EXTENDS CmdSys

Cmd(id, kind, scheduled, hasArgs, large) ==
  [id |-> id, kind |-> kind, scheduled |-> scheduled, args |-> hasArgs, large |-> large]

\* Immediate and scheduled, with and without arguments, and out of the table's bounds.
Mixed == {Cmd(1, "ok", FALSE, TRUE, FALSE), Cmd(2, "ok", TRUE, TRUE, FALSE),
          Cmd(3, "ok", TRUE, FALSE, FALSE), Cmd(4, "invalid", FALSE, FALSE, FALSE)}

\* Of these, the immediate one and one for the schedule.
SomeMixed == {c \in Mixed : c.id \in {1, 2}}

\* An immediate one, and one for the schedule, both with arguments that may be lost
\* or read by the wrong task, one that is too large and unknown, and one that is in
\* the table without a function.
Awkward == {Cmd(1, "ok", FALSE, TRUE, FALSE), Cmd(2, "ok", TRUE, TRUE, FALSE),
            Cmd(3, "invalid", TRUE, FALSE, TRUE), Cmd(4, "dne", FALSE, FALSE, FALSE)}

\* Of these, the one without a function.
SomeAwkward == {c \in Awkward : c.kind = "dne"}

=============================================================================
