--------------------------- MODULE LinkedSequence ---------------------------
(***************************************************************************)
(* utils/sequence.c: a fixed pool of Size slots threaded by two linked     *)
(* lists that share one array, the active list (the items, in order) and   *)
(* the empty list (the free slots, last in first out).                     *)
(*                                                                         *)
(* sequence_insert is modelled one loop iteration per step, so that the    *)
(* states in the middle of a walk are states of the model.  Its user runs  *)
(* every operation under a mutex, so no two operations overlap.            *)
(*                                                                         *)
(* active, empty and passed are history variables: the slots of the two    *)
(* lists in order, and the number of entries the walk has passed.  The     *)
(* invariant Chained ties them to the links, which makes them the          *)
(* refinement mapping to SortedQueue.                                      *)
(***************************************************************************)
EXTENDS SequenceOrder

CONSTANT NoItem           \* what a slot holds before its first use

Null  == Size             \* NULL_IDX(seq)
Slots == 0..(Size - 1)

ASSUME NoItemAssumption == NoItem \notin Items

VARIABLES
  links, active_list_head, empty_list_head,   \* sequence_t
  storage,                                    \* the user's array, written by store_item
  walking,                                    \* inside the while loop of sequence_insert
  idx, prev_search_idx, search_idx,           \* its locals
  active, empty, passed                       \* history

vars == <<links, active_list_head, empty_list_head, storage,
          walking, idx, prev_search_idx, search_idx, active, empty, passed>>

\* The queue this implements: the items of the active list, in order.
Ordered == INSTANCE SortedQueue WITH queue <- ItemsAt(storage, active)

----------------------------------------------------------------------------

\* sequence_init: every slot is on the empty list, 0 -> 1 -> 2 ...
Init ==
  /\ links = [i \in Slots |-> i + 1]
  /\ active_list_head = Null
  /\ empty_list_head = 0
  /\ storage = [i \in Slots |-> NoItem]
  /\ walking = FALSE
  /\ idx = Null /\ prev_search_idx = Null /\ search_idx = Null
  /\ active = <<>>
  /\ passed = 0
  /\ empty = [i \in 1..Size |-> i - 1]

has_space == empty_list_head # Null
is_empty  == active_list_head = Null

\* sequence_insert up to its loop: take the first empty slot and store the item.
InsertStart(item) ==
  /\ ~walking
  /\ has_space
  /\ idx' = empty_list_head
  /\ storage' = [storage EXCEPT ![empty_list_head] = item]
  /\ empty_list_head' = links[empty_list_head]
  /\ prev_search_idx' = Null
  /\ search_idx' = active_list_head
  /\ walking' = TRUE
  /\ empty' = Tail(empty)
  /\ passed' = 0
  /\ UNCHANGED <<links, active_list_head, active>>

\* Mutant: stop in front of the items that are equal to the new one.
WalkDoneEarly ==
  search_idx # Null => ~GoesBefore(storage[search_idx], storage[idx])

\* The loop has reached the entry in front of which the new item belongs, or the end.
WalkDone ==
  search_idx # Null => GoesBefore(storage[idx], storage[search_idx])

\* Mutant: search_idx is not moved along.
AdvanceStuck ==
  /\ walking /\ ~WalkDone
  /\ prev_search_idx' = search_idx
  /\ UNCHANGED <<links, active_list_head, empty_list_head, storage, walking, idx,
                 search_idx, active, empty, passed>>

\* One iteration of the loop that does not break.
Advance ==
  /\ walking
  /\ ~WalkDone
  /\ prev_search_idx' = search_idx
  /\ search_idx' = links[search_idx]
  /\ passed' = passed + 1
  /\ UNCHANGED <<links, active_list_head, empty_list_head, storage, walking, idx, active, empty>>

\* The end of sequence_insert: link the slot in.
Link ==
  /\ walking
  /\ WalkDone
  /\ IF prev_search_idx = Null
     THEN /\ active_list_head' = idx
          /\ links' = [links EXCEPT ![idx] = search_idx]
     ELSE /\ links' = [links EXCEPT ![prev_search_idx] = idx, ![idx] = search_idx]
          /\ UNCHANGED active_list_head
  /\ walking' = FALSE
  /\ active' = InsertAt(active, passed + 1, idx)
  /\ UNCHANGED <<empty_list_head, storage, idx, prev_search_idx, search_idx, empty, passed>>

\* Mutant: the popped slot keeps its link into the active list.
PopKeepsLink ==
  /\ ~walking /\ ~is_empty
  /\ active_list_head' = links[active_list_head]
  /\ empty_list_head' = active_list_head
  /\ active' = Tail(active)
  /\ empty' = <<active_list_head>> \o empty
  /\ UNCHANGED <<links, storage, walking, idx, prev_search_idx, search_idx, passed>>

\* Mutant: the popped slot is not put on the empty list.
PopLeaks ==
  /\ ~walking /\ ~is_empty
  /\ active_list_head' = links[active_list_head]
  /\ active' = Tail(active)
  /\ UNCHANGED <<links, empty_list_head, storage, walking, idx, prev_search_idx,
                 search_idx, empty, passed>>

\* sequence_pop_first: the freed slot becomes the head of the empty list.
Pop ==
  /\ ~walking
  /\ ~is_empty
  /\ active_list_head' = links[active_list_head]
  /\ links' = [links EXCEPT ![active_list_head] = empty_list_head]
  /\ empty_list_head' = active_list_head
  /\ active' = Tail(active)
  /\ empty' = <<active_list_head>> \o empty
  /\ UNCHANGED <<storage, walking, idx, prev_search_idx, search_idx, passed>>

Next == Advance \/ Link \/ Pop \/ \E item \in Items : InsertStart(item)

\* An insertion that has started runs to its end: it is straight-line code.
Spec == Init /\ [][Next]_vars /\ WF_vars(Advance \/ Link)

----------------------------------------------------------------------------

\* Type invariant.
TypeOK ==
  /\ links \in [Slots -> Slots \cup {Null}]
  /\ active_list_head \in Slots \cup {Null}
  /\ empty_list_head \in Slots \cup {Null}
  /\ storage \in [Slots -> Items \cup {NoItem}]
  /\ walking \in BOOLEAN
  /\ idx \in Slots \cup {Null}
  /\ prev_search_idx \in Slots \cup {Null}
  /\ search_idx \in Slots \cup {Null}
  /\ active \in Seq(Slots)
  /\ empty \in Seq(Slots)
  /\ passed \in Nat

\* list is the linked list that starts at head.
IsChain(head, list) ==
  /\ head = IF list = <<>> THEN Null ELSE list[1]
  /\ \A i \in 1..Len(list) :
       links[list[i]] = IF i = Len(list) THEN Null ELSE list[i + 1]

\* Both lists end in NULL_IDX after exactly their own slots, in every state, also
\* between the steps of an insertion: the two can share one array of links
\* (sequence.h:43-45) because no operation lets one run into the other.
Chained == IsChain(active_list_head, active) /\ IsChain(empty_list_head, empty)

Held == IF walking THEN {idx} ELSE {}

\* Every slot is in exactly one place at a time: on the active list, on the empty
\* list, or held by the insertion in progress.  No slot is lost by any order of
\* insertions and pops, and has_space is false only when Size items are queued.
NoSlotLost ==
  /\ IsInjective(active) /\ IsInjective(empty)
  /\ Range(active) \cap Range(empty) = {}
  /\ Held \cap (Range(active) \cup Range(empty)) = {}
  /\ Range(active) \cup Range(empty) \cup Held = Slots
  /\ Len(active) + Len(empty) + (IF walking THEN 1 ELSE 0) = Size

\* Where the loop is: prev_search_idx and search_idx are neighbours on the active
\* list, and the new item goes before nothing that has been passed.
WalkPosition ==
  walking =>
    /\ idx \in Slots /\ storage[idx] \in Items
    /\ passed <= Len(active)
    /\ prev_search_idx = IF passed = 0 THEN Null ELSE active[passed]
    /\ search_idx = IF passed = Len(active) THEN Null ELSE active[passed + 1]
    /\ \A j \in 1..passed : ~GoesBefore(storage[idx], storage[active[j]])

\* Every slot of the active list holds an item: goes_before never reads a slot
\* that was not written since the sequence was initialised.
Stored == \A i \in 1..Len(active) : storage[active[i]] \in Items

\* The inductive invariant.
IInv == TypeOK /\ Chained /\ NoSlotLost /\ WalkPosition /\ Stored

\* The list implements the sorted queue: each insertion puts its item where the
\* queue would, each pop removes the head, and no other step is visible.
Refinement == Ordered!Spec

\* The loop of sequence_insert terminates: the active list has no cycle.
WalkEnds == walking ~> ~walking

=============================================================================
