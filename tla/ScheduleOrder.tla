---------------------------- MODULE ScheduleOrder ----------------------------
(* The order of the schedule of system/rtc_scheduler/rtc_scheduler.c.       *)
EXTENDS Naturals

\* a goes in front of b: an earlier timestamp, or the same and a higher priority.
goes_before(a, b) ==
  \/ a.timestamp < b.timestamp
  \/ a.timestamp = b.timestamp /\ a.priority > b.priority

=============================================================================
