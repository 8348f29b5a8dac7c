---------------------------- MODULE SortedQueue ----------------------------
(***************************************************************************)
(* What a sequence of utils/sequence.c promises its user: a bounded queue  *)
(* that is always sorted by the user's goes_before callback, in which      *)
(* items that do not go before each other keep their order of arrival.     *)
(*                                                                         *)
(* LinkedSequence implements it with two linked lists in one array of      *)
(* links; RtcScheduler keeps its schedule in one, taking each call for one *)
(* step because schedule_mutex is held around it.                          *)
(***************************************************************************)
EXTENDS SequenceOrder

VARIABLE queue

----------------------------------------------------------------------------

Init == queue = <<>>

Insert(item) ==
  /\ Len(queue) < Size
  /\ \E p \in 1..(Len(queue) + 1) :
       /\ Fits(queue, p, item)
       /\ queue' = InsertAt(queue, p, item)

Pop ==
  /\ queue # <<>>
  /\ queue' = Tail(queue)

Next == Pop \/ \E item \in Items : Insert(item)

Spec == Init /\ [][Next]_queue

----------------------------------------------------------------------------

\* Type invariant: at most Size items are queued.
TypeOK == queue \in Seq(Items) /\ Len(queue) <= Size

\* No entry goes before one that is ahead of it: the head, which peek and pop
\* act on, is always an entry that must come first.
Sorted == SortedSeq(queue)

=============================================================================
