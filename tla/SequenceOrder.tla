--------------------------- MODULE SequenceOrder ---------------------------
(***************************************************************************)
(* The parameters of a sequence of utils/sequence.h and the order it keeps:*)
(* shared by the queue it promises (SortedQueue), by the linked lists that *)
(* implement it (LinkedSequence) and by its user (RtcScheduler).           *)
(***************************************************************************)
EXTENDS Naturals, Sequences, SequencesExt

CONSTANTS
  Size,              \* capacity of the sequence (sequence_t.size)
  Items,             \* what the user stores
  GoesBefore(_, _)   \* the user's order (sequence_t.goes_before)

\* size is a uint8_t, "Must be > 0", and NULL_IDX(seq) = size has to fit as well.
ASSUME SizeAssumption == Size \in 1..255

\* What sequence_insert needs of goes_before: a strict partial order.
ASSUME OrderAssumption ==
  /\ \A a, b \in Items : GoesBefore(a, b) \in BOOLEAN
  /\ \A a \in Items : ~GoesBefore(a, a)
  /\ \A a, b, c \in Items : GoesBefore(a, b) /\ GoesBefore(b, c) => GoesBefore(a, c)

\* The place the loop of sequence_insert finds for item in q: behind the entries
\* it does not go before, in front of the first one it goes before.
Fits(q, p, item) ==
  /\ \A j \in 1..(p - 1) : ~GoesBefore(item, q[j])
  /\ p <= Len(q) => GoesBefore(item, q[p])

\* The items stored at the slots of a list, in order.
ItemsAt(storage, slots) == [i \in 1..Len(slots) |-> storage[slots[i]]]

SortedSeq(q) == \A i, j \in 1..Len(q) : i < j => ~GoesBefore(q[j], q[i])

=============================================================================
