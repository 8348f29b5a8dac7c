--------------------------- MODULE MCRtcScheduler ---------------------------
(* RtcScheduler with three commands, two of them for the same second.      *)
EXTENDS RtcScheduler, ScheduleOrder

Cmd(id, t) == [id |-> id, timestamp |-> t, priority |-> 0]

ThreeItems == {Cmd(1, 2), Cmd(2, 2), Cmd(3, 3)}

=============================================================================
