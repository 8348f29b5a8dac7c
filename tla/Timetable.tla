------------------------------ MODULE Timetable ------------------------------
(***************************************************************************)
(* What rtc_scheduler.h promises, seen from outside: items are accepted at *)
(* any time, the clock strikes for one whose timestamp it shows, and only  *)
(* then, if it is the first of those pending, it is dispatched, each at    *)
(* most once.  The clock may be set to any time at any time.               *)
(***************************************************************************)
EXTENDS SequenceOrder

CONSTANTS MaxEpoch,    \* bound on the clock
          NoItem       \* nothing is due

VARIABLES pending,     \* accepted and not yet dispatched, in order
          due,         \* the item the clock has struck for
          dispatched,  \* what was dispatched, in the order it was
          clock

vars == <<pending, due, dispatched, clock>>

Init == pending = <<>> /\ due = NoItem /\ dispatched = <<>> /\ clock = 1

Accept(item) ==
  /\ Len(pending) < Size
  /\ \E p \in 1..(Len(pending) + 1) :
       Fits(pending, p, item) /\ pending' = InsertAt(pending, p, item)
  /\ UNCHANGED <<due, dispatched, clock>>

Strike ==
  /\ due = NoItem
  /\ due' \in {i \in Range(pending) : i.timestamp = clock}
  /\ UNCHANGED <<pending, dispatched, clock>>

Dispatch ==
  /\ pending # <<>>
  /\ due = Head(pending)
  /\ due' = NoItem
  /\ dispatched' = Append(dispatched, due)
  /\ pending' = Tail(pending)
  /\ UNCHANGED clock

\* The schedule was in use for too long.
Miss ==
  /\ due # NoItem
  /\ due' = NoItem
  /\ UNCHANGED <<pending, dispatched, clock>>

Clock ==
  /\ clock' \in 1..MaxEpoch
  /\ UNCHANGED <<pending, due, dispatched>>

Next == Strike \/ Dispatch \/ Miss \/ Clock \/ \E item \in Items : Accept(item)

Spec == Init /\ [][Next]_vars

=============================================================================
