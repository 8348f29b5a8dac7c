-------------------------- MODULE MCLinkedSequence --------------------------
(* LinkedSequence with the items and the order of rtc_scheduler.c, small:  *)
(* two items at the same place of the order that differ in their data,     *)
(* one of the same time and another priority, and one later.               *)
EXTENDS LinkedSequence, ScheduleOrder

Item(timestamp, priority, data) ==
  [timestamp |-> timestamp, priority |-> priority, data |-> data]

MCItems == {Item(1, 0, 1), Item(1, 0, 2), Item(1, 1, 1), Item(2, 0, 1)}

=============================================================================
