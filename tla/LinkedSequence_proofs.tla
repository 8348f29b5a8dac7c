------------------------ MODULE LinkedSequence_proofs ------------------------
(***************************************************************************)
(* The linked lists of utils/sequence.c are intact after every sequence of *)
(* insertions and pops, and implement the sorted queue, for every Size,    *)
(* every set of Items and every strict partial order.                      *)
(***************************************************************************)
EXTENDS LinkedSequence, SequenceLemmas

\* The facts about the two lists that the steps below use.
LEMMA ListFacts ==
  ASSUME NEW s \in Seq(Slots)
  PROVE  /\ Len(s) \in Nat
         /\ \A i \in 1..Len(s) : s[i] \in Slots
         /\ Range(s) = {s[i] : i \in 1..Len(s)}
         /\ IsInjective(s) <=> \A i, j \in 1..Len(s) : s[i] = s[j] => i = j
         /\ s = <<>> <=> Len(s) = 0
BY SeqFacts

LEMMA NullFacts == Null \notin Slots /\ 0 \in Slots
BY SizeAssumption DEF Null, Slots

LEMMA InitInv == Init => IInv
<1> SUFFICES ASSUME Init PROVE IInv
  OBVIOUS
<1>1. Size \in Nat \ {0} /\ Slots = 0..(Size - 1) /\ Null = Size
  BY SizeAssumption DEF Slots, Null
<1>2. /\ links = [i \in Slots |-> i + 1] /\ active_list_head = Null /\ empty_list_head = 0
      /\ storage = [i \in Slots |-> NoItem] /\ walking = FALSE /\ active = <<>>
      /\ idx = Null /\ prev_search_idx = Null /\ search_idx = Null /\ passed = 0
  BY DEF Init
<1>3. empty \in Seq(Slots) /\ Len(empty) = Size /\ \A i \in 1..Size : empty[i] = i - 1
  <2>1. empty = [i \in 1..Size |-> i - 1]
    BY DEF Init
  <2>2. \A i \in 1..Size : i - 1 \in Slots
    BY <1>1
  <2> QED
    BY <1>1, <2>1, <2>2
<1>4. active \in Seq(Slots) /\ Len(active) = 0 /\ Range(active) = {} /\ IsInjective(active)
  <2>1. active \in Seq(Slots) /\ Len(active) = 0
    BY <1>2, EmptySeq
  <2>2. /\ Range(active) = {active[i] : i \in 1..Len(active)}
        /\ IsInjective(active) <=> \A i, j \in 1..Len(active) : active[i] = active[j] => i = j
    BY <2>1, ListFacts
  <2> QED
    BY <2>1, <2>2
<1>5. \A i \in Slots : i + 1 \in Slots \cup {Null}
  BY <1>1
<1>6. TypeOK
  BY <1>1, <1>2, <1>3, <1>4, <1>5, NullFacts DEF TypeOK
<1>7. Chained
  <2>1. IsChain(active_list_head, active)
    BY <1>2, <1>4 DEF IsChain
  <2>2. empty # <<>>
    BY <1>1, <1>3, ListFacts
  <2>3. \A i \in 1..Size : i - 1 \in Slots /\ links[i - 1] = i
    BY <1>1, <1>2
  <2>4. IsChain(empty_list_head, empty)
    BY <1>1, <1>2, <1>3, <2>2, <2>3 DEF IsChain
  <2> QED
    BY <2>1, <2>4 DEF Chained
<1>8. NoSlotLost
  <2>1. Range(empty) = {empty[i] : i \in 1..Size}
    BY <1>3, ListFacts
  <2>2. \A x \in Slots : x + 1 \in 1..Size /\ empty[x + 1] = x
    BY <1>1, <1>3
  <2>3. \A i \in 1..Size : empty[i] \in Slots
    BY <1>1, <1>3
  <2>4. Range(empty) = Slots
    BY <2>1, <2>2, <2>3
  <2>5. IsInjective(empty)
    <3>1. IsInjective(empty) <=> \A i, j \in 1..Len(empty) : empty[i] = empty[j] => i = j
      BY <1>3, ListFacts
    <3> QED
      BY <1>1, <1>3, <3>1
  <2> QED
    BY <1>1, <1>2, <1>3, <1>4, <2>4, <2>5 DEF NoSlotLost, Held
<1>9. WalkPosition /\ Stored
  BY <1>2, <1>4 DEF WalkPosition, Stored
<1> QED
  BY <1>6, <1>7, <1>8, <1>9 DEF IInv

----------------------------------------------------------------------------
\* One lemma per action.

\* The slot taken is the first of the empty list; the active list is untouched.
LEMMA InsertStartInv ==
  ASSUME IInv, NEW item \in Items, InsertStart(item)
  PROVE  IInv' /\ ItemsAt(storage, active)' = ItemsAt(storage, active)
<1> USE NullFacts
<1>1. TypeOK /\ Chained /\ NoSlotLost /\ Stored /\ ~walking /\ empty_list_head # Null
  BY DEF IInv, InsertStart, has_space
<1>2. active \in Seq(Slots) /\ empty \in Seq(Slots)
  BY <1>1 DEF TypeOK
<1>3. /\ empty # <<>> /\ empty_list_head = empty[1]
      /\ empty[1] \in Slots
      /\ idx' = empty[1] /\ empty' = Tail(empty)
  BY <1>1, <1>2, ListFacts DEF Chained, IsChain, InsertStart
<1>4. /\ empty' \in Seq(Slots) /\ Len(empty') = Len(empty) - 1
      /\ \A i \in 1..(Len(empty) - 1) : empty'[i] = empty[i + 1]
      /\ IsInjective(empty')
      /\ empty[1] \in Range(empty)
      /\ Range(empty') = Range(empty) \ {empty[1]}
  BY <1>1, <1>2, <1>3, TailFacts DEF NoSlotLost
<1>5. /\ active' = active /\ links' = links /\ active_list_head' = active_list_head
      /\ storage' = [storage EXCEPT ![empty[1]] = item]
      /\ empty_list_head' = links[empty[1]] /\ walking' = TRUE
      /\ prev_search_idx' = Null /\ search_idx' = active_list_head /\ passed' = 0
  BY <1>3 DEF InsertStart
<1>6. TypeOK'
  BY <1>1, <1>3, <1>4, <1>5 DEF TypeOK
<1>7. Chained'
  <2>1. IsChain(active_list_head, active)'
    BY <1>1, <1>5 DEF Chained, IsChain
  <2>2. Len(empty) \in Nat \ {0} /\ (empty' = <<>> <=> Len(empty) = 1)
    <3>1. Len(empty) \in Nat /\ Len(empty) # 0
      BY <1>2, <1>3, ListFacts
    <3>2. empty' = <<>> <=> Len(empty') = 0
      BY <1>4, ListFacts
    <3> QED
      BY <1>4, <3>1, <3>2
  <2>3. empty_list_head' = IF empty' = <<>> THEN Null ELSE empty'[1]
    BY <1>1, <1>4, <1>5, <2>2 DEF Chained, IsChain
  <2>4. \A i \in 1..Len(empty') :
          links'[empty'[i]] = IF i = Len(empty') THEN Null ELSE empty'[i + 1]
    BY <1>1, <1>4, <1>5, <2>2 DEF Chained, IsChain
  <2> QED
    BY <2>1, <2>3, <2>4 DEF Chained, IsChain
<1>8. Held = {} /\ Held' = {empty[1]}
  BY <1>1, <1>3, <1>5 DEF Held
<1>9. NoSlotLost'
  <2>1. Len(active) \in Nat /\ Len(empty) \in Nat
    BY <1>2, ListFacts
  <2> QED
    BY <1>1, <1>4, <1>5, <1>8, <2>1 DEF NoSlotLost
<1>10. \A i \in 1..Len(active) : active[i] \in Slots /\ storage'[active[i]] = storage[active[i]]
  <2>1. \A i \in 1..Len(active) : active[i] \in Slots /\ active[i] # empty[1]
    BY <1>1, <1>2, <1>4, ListFacts DEF NoSlotLost
  <2> QED
    BY <1>1, <1>5, <2>1 DEF TypeOK
<1>11. Stored'
  BY <1>1, <1>5, <1>10 DEF Stored
<1>12. WalkPosition'
  <2>1. storage'[idx'] = item
    BY <1>1, <1>3, <1>5 DEF TypeOK
  <2>2. Len(active) \in Nat /\ (active = <<>> <=> Len(active) = 0)
    BY <1>2, ListFacts
  <2> QED
    BY <1>1, <1>3, <1>5, <2>1, <2>2 DEF WalkPosition, Chained, IsChain
<1>13. ItemsAt(storage, active)' = ItemsAt(storage, active)
  BY <1>5, <1>10 DEF ItemsAt
<1> QED
  BY <1>6, <1>7, <1>9, <1>11, <1>12, <1>13 DEF IInv

\* The walk moves one entry along the active list.
LEMMA AdvanceInv ==
  ASSUME IInv, Advance
  PROVE  IInv' /\ ItemsAt(storage, active)' = ItemsAt(storage, active)
<1> USE NullFacts
<1>1. TypeOK /\ Chained /\ NoSlotLost /\ Stored /\ WalkPosition /\ walking
      /\ search_idx # Null /\ ~GoesBefore(storage[idx], storage[search_idx])
  BY DEF IInv, Advance, WalkDone
<1>2. /\ UNCHANGED <<links, active_list_head, empty_list_head, storage, walking, idx, active, empty>>
      /\ prev_search_idx' = search_idx /\ search_idx' = links[search_idx]
      /\ passed' = passed + 1
  BY DEF Advance
<1>3. active \in Seq(Slots) /\ passed \in Nat /\ Len(active) \in Nat
  BY <1>1, ListFacts DEF TypeOK
<1>4. passed < Len(active) /\ search_idx = active[passed + 1] /\ passed + 1 \in 1..Len(active)
  BY <1>1, <1>3 DEF WalkPosition
<1>5. links[search_idx] = IF passed + 1 = Len(active) THEN Null ELSE active[passed + 2]
  BY <1>1, <1>3, <1>4 DEF Chained, IsChain
<1>6. WalkPosition'
  <2>1. \A j \in 1..(passed + 1) : ~GoesBefore(storage[idx], storage[active[j]])
    BY <1>1, <1>3, <1>4 DEF WalkPosition
  <2> QED
    BY <1>1, <1>2, <1>3, <1>4, <1>5, <2>1 DEF WalkPosition
<1>7. TypeOK'
  BY <1>1, <1>2, <1>3, <1>4 DEF TypeOK
<1>8. Chained' /\ NoSlotLost' /\ Stored'
  BY <1>1, <1>2 DEF Chained, IsChain, NoSlotLost, Held, Stored
<1> QED
  BY <1>2, <1>6, <1>7, <1>8 DEF IInv, ItemsAt

\* The new slot is linked in behind the entries passed, which is where it fits.
LEMMA LinkInv ==
  ASSUME IInv, Link
  PROVE  /\ IInv'
         /\ active' = InsertAt(active, passed + 1, idx)
         /\ active' \in Seq(Slots) /\ Len(active') = Len(active) + 1
         /\ \A i \in 1..Len(active') :
              active'[i] = IF i < passed + 1 THEN active[i]
                           ELSE IF i = passed + 1 THEN idx ELSE active[i - 1]
<1> USE NullFacts
<1>1. /\ TypeOK /\ Chained /\ NoSlotLost /\ Stored /\ WalkPosition /\ walking
      /\ idx \in Slots /\ storage[idx] \in Items
  BY DEF IInv, Link, WalkPosition
<1>2. /\ UNCHANGED <<empty_list_head, storage, idx, prev_search_idx, search_idx, empty, passed>>
      /\ walking' = FALSE
      /\ active' = InsertAt(active, passed + 1, idx)
  BY DEF Link
<1>3. /\ active \in Seq(Slots) /\ empty \in Seq(Slots)
      /\ Len(active) \in Nat /\ passed \in 0..Len(active)
      /\ \A i \in 1..Len(active) : active[i] \in Slots
      /\ Range(active) = {active[i] : i \in 1..Len(active)}
      /\ active = <<>> <=> Len(active) = 0
  BY <1>1, ListFacts DEF TypeOK, WalkPosition
<1>4. /\ idx \notin Range(active) /\ idx \notin Range(empty) /\ Held = {idx} /\ Held' = {}
      /\ Range(active) \cap Range(empty) = {} /\ IsInjective(active) /\ IsInjective(empty)
  BY <1>1, <1>2 DEF NoSlotLost, Held
<1>5. /\ active' \in Seq(Slots) /\ Len(active') = Len(active) + 1
      /\ \A i \in 1..(Len(active) + 1) :
           active'[i] = IF i < passed + 1 THEN active[i]
                        ELSE IF i = passed + 1 THEN idx ELSE active[i - 1]
      /\ IsInjective(active')
      /\ Range(active') = Range(active) \cup {idx}
  <2>1. passed + 1 \in 1..(Len(active) + 1)
    BY <1>3
  <2>2. InsertAt(active, passed + 1, idx) = active'
    BY <1>2
  <2>3. idx \in Slots /\ idx \notin Range(active) /\ IsInjective(active) /\ active \in Seq(Slots)
    BY <1>1, <1>3, <1>4
  <2>4. /\ IsInsertion(InsertAt(active, passed + 1, idx), Slots, active, passed + 1, idx)
        /\ IsInjective(InsertAt(active, passed + 1, idx))
        /\ Range(InsertAt(active, passed + 1, idx)) = Range(active) \cup {idx}
    BY <2>1, <2>3, InsertFacts
  <2> QED
    BY <2>2, <2>4 DEF IsInsertion
<1>6. \A i \in 1..Len(active) : active[i] # idx
  BY <1>3, <1>4
<1>7. /\ prev_search_idx = IF passed = 0 THEN Null ELSE active[passed]
      /\ search_idx = IF passed = Len(active) THEN Null ELSE active[passed + 1]
  BY <1>1 DEF WalkPosition
<1>8. prev_search_idx = Null <=> passed = 0
  BY <1>3, <1>7
<1>9. /\ links \in [Slots -> Slots \cup {Null}] /\ search_idx \in Slots \cup {Null}
      /\ prev_search_idx \in Slots \cup {Null} /\ active_list_head \in Slots \cup {Null}
  BY <1>1 DEF TypeOK
<1>10. /\ links' \in [Slots -> Slots \cup {Null}]
       /\ active_list_head' \in Slots \cup {Null}
       /\ active_list_head' = IF passed = 0 THEN idx ELSE active_list_head
       /\ links'[idx] = search_idx
       /\ \A x \in Slots : x # idx => links'[x] = IF passed # 0 /\ x = prev_search_idx
                                                  THEN idx ELSE links[x]
  <2>1. CASE passed = 0
    BY <1>1, <1>8, <1>9, <2>1 DEF Link
  <2>2. CASE passed # 0
    <3>1. prev_search_idx \in Slots /\ prev_search_idx # idx
      BY <1>3, <1>6, <1>7, <2>2
    <3> QED
      BY <1>1, <1>8, <1>9, <2>2, <3>1 DEF Link
  <2> QED
    BY <2>1, <2>2
<1>11. TypeOK'
  BY <1>1, <1>2, <1>5, <1>10 DEF TypeOK
<1>12. IsChain(active_list_head, active)'
  <2>1. active' # <<>> /\ active'[1] = IF passed = 0 THEN idx ELSE active[1]
    <3>1. Len(active') # 0 /\ (active' = <<>> <=> Len(active') = 0)
      BY <1>3, <1>5, ListFacts
    <3> QED
      BY <1>3, <1>5, <3>1
  <2>2. active_list_head' = active'[1]
    BY <1>1, <1>3, <1>10, <2>1 DEF Chained, IsChain
  <2>3. \A i \in 1..Len(active) : links[active[i]] = IF i = Len(active) THEN Null ELSE active[i + 1]
    BY <1>1 DEF Chained, IsChain
  <2>4. \A i, j \in 1..Len(active) : active[i] = active[j] => i = j
    BY <1>3, <1>4, ListFacts
  <2>5. ASSUME NEW i \in 1..Len(active')
        PROVE  links'[active'[i]] = IF i = Len(active') THEN Null ELSE active'[i + 1]
    <3>1. CASE i < passed
      <4>1. i \in 1..Len(active) /\ i + 1 \in 1..Len(active) /\ passed \in 1..Len(active)
        BY <1>3, <3>1
      <4>2. active'[i] = active[i] /\ active'[i + 1] = active[i + 1] /\ i # Len(active')
        BY <1>3, <1>5, <3>1, <4>1
      <4>3. active[i] # prev_search_idx
        BY <1>3, <1>7, <2>4, <3>1, <4>1
      <4> QED
        BY <1>3, <1>6, <1>10, <2>3, <3>1, <4>1, <4>2, <4>3
    <3>2. CASE i = passed
      <4>1. i \in 1..Len(active) /\ active'[i] = active[i] /\ active'[i + 1] = idx /\ i # Len(active')
        BY <1>3, <1>5, <3>2
      <4> QED
        BY <1>3, <1>6, <1>7, <1>10, <3>2, <4>1
    <3>3. CASE i = passed + 1
      <4>1. active'[i] = idx
        BY <1>3, <1>5, <3>3
      <4>2. CASE passed = Len(active)
        BY <1>5, <1>7, <1>10, <3>3, <4>1, <4>2
      <4>3. CASE passed # Len(active)
        <5>1. i + 1 \in 1..(Len(active) + 1) /\ active'[i + 1] = active[passed + 1] /\ i # Len(active')
          BY <1>3, <1>5, <3>3, <4>3
        <5> QED
          BY <1>7, <1>10, <4>1, <4>3, <5>1
      <4> QED
        BY <4>2, <4>3
    <3>4. CASE passed + 1 < i
      <4>1. i - 1 \in 1..Len(active) /\ active'[i] = active[i - 1] /\ passed # i - 1
        BY <1>3, <1>5, <3>4
      <4>2. passed # 0 => active[i - 1] # prev_search_idx
        BY <1>3, <1>7, <2>4, <4>1
      <4>3. links'[active'[i]] = links[active[i - 1]]
        BY <1>3, <1>6, <1>10, <4>1, <4>2
      <4>4. CASE i = Len(active')
        BY <1>3, <1>5, <2>3, <4>1, <4>3, <4>4
      <4>5. CASE i # Len(active')
        <5>1. i + 1 \in 1..(Len(active) + 1) /\ active'[i + 1] = active[i]
          <6>1. i + 1 \in 1..(Len(active) + 1) /\ ~(i + 1 < passed + 1) /\ i + 1 # passed + 1
                /\ (i + 1) - 1 = i
            BY <1>3, <1>5, <3>4, <4>5
          <6> QED
            BY <1>5, <6>1
        <5> QED
          BY <1>3, <1>5, <2>3, <4>1, <4>3, <4>5, <5>1
      <4> QED
        BY <4>4, <4>5
    <3> QED
      BY <1>3, <1>5, <3>1, <3>2, <3>3, <3>4
  <2> QED
    BY <2>1, <2>2, <2>5 DEF IsChain
<1>13. IsChain(empty_list_head, empty)'
  <2>1. \A i \in 1..Len(empty) : empty[i] \in Slots /\ empty[i] \in Range(empty)
    BY <1>3, ListFacts
  <2>2. passed # 0 => prev_search_idx \in Range(active)
    BY <1>3, <1>7
  <2>3. \A i \in 1..Len(empty) : links'[empty[i]] = links[empty[i]]
    BY <1>4, <1>10, <2>1, <2>2
  <2> QED
    BY <1>1, <1>2, <2>3 DEF Chained, IsChain
<1>14. NoSlotLost'
  <2>1. Len(empty) \in Nat
    BY <1>3, ListFacts
  <2>2. Range(active) \cup Range(empty) \cup {idx} = Slots /\ Len(active) + Len(empty) + 1 = Size
    BY <1>1, <1>4 DEF NoSlotLost
  <2>3. Len(active') + Len(empty') + 0 = Size
    <3>1. empty' = empty /\ Len(active') = Len(active) + 1
      BY <1>2, <1>5
    <3> QED
      BY <1>3, <2>1, <2>2, <3>1
  <2>4. Range(active') \cup Range(empty') \cup Held' = Slots
    BY <1>2, <1>4, <1>5, <2>2
  <2>5. Range(active') \cap Range(empty') = {}
    BY <1>2, <1>4, <1>5
  <2> QED
    BY <1>2, <1>4, <1>5, <2>3, <2>4, <2>5 DEF NoSlotLost
<1>15. Stored'
  <2> SUFFICES ASSUME NEW i \in 1..(Len(active) + 1) PROVE storage[active'[i]] \in Items
    BY <1>2, <1>5 DEF Stored
  <2>1. \A j \in 1..Len(active) : storage[active[j]] \in Items
    BY <1>1 DEF Stored
  <2>2. CASE i < passed + 1
    BY <1>3, <1>5, <2>1, <2>2
  <2>3. CASE i = passed + 1
    BY <1>1, <1>5, <2>3
  <2>4. CASE passed + 1 < i
    <3>1. i - 1 \in 1..Len(active)
      BY <1>3, <2>4
    <3> QED
      BY <1>3, <1>5, <2>1, <2>4, <3>1
  <2> QED
    BY <1>3, <2>2, <2>3, <2>4
<1>16. WalkPosition'
  BY <1>2 DEF WalkPosition
<1> QED
  BY <1>2, <1>5, <1>11, <1>12, <1>13, <1>14, <1>15, <1>16 DEF IInv, Chained

\* The head of the active list becomes the head of the empty list.
LEMMA PopInv ==
  ASSUME IInv, Pop
  PROVE  /\ IInv'
         /\ active # <<>> /\ active' = Tail(active)
         /\ active' \in Seq(Slots) /\ Len(active') = Len(active) - 1
         /\ \A i \in 1..Len(active') : active'[i] = active[i + 1]
<1> USE NullFacts
<1> DEFINE h == active_list_head
<1>1. TypeOK /\ Chained /\ NoSlotLost /\ Stored /\ ~walking /\ h # Null
  BY DEF IInv, Pop, is_empty
<1>2. /\ UNCHANGED <<storage, walking, idx, prev_search_idx, search_idx, passed>>
      /\ active_list_head' = links[h] /\ links' = [links EXCEPT ![h] = empty_list_head]
      /\ empty_list_head' = h
      /\ active' = Tail(active) /\ empty' = <<h>> \o empty
  BY DEF Pop
<1> HIDE DEF h
<1>3. active \in Seq(Slots) /\ empty \in Seq(Slots)
  BY <1>1 DEF TypeOK
<1>4. active # <<>> /\ h = active[1] /\ Len(active) \in Nat \ {0} /\ h \in Slots
  BY <1>1, <1>3, ListFacts DEF Chained, IsChain, h
<1>5. /\ active' \in Seq(Slots) /\ Len(active') = Len(active) - 1
      /\ \A i \in 1..(Len(active) - 1) : active'[i] = active[i + 1]
      /\ IsInjective(active')
      /\ h \in Range(active)
      /\ Range(active') = Range(active) \ {h}
  BY <1>1, <1>2, <1>3, <1>4, TailFacts DEF NoSlotLost
<1>6. h \notin Range(empty) /\ IsInjective(empty)
  BY <1>1, <1>5 DEF NoSlotLost
<1>7. Len(empty) \in Nat
  BY <1>3, ListFacts
<1>8. /\ empty' \in Seq(Slots) /\ Len(empty') = Len(empty) + 1
      /\ \A i \in 1..(Len(empty) + 1) :
           empty'[i] = IF i < 1 THEN empty[i] ELSE IF i = 1 THEN h ELSE empty[i - 1]
      /\ IsInjective(empty')
      /\ Range(empty') = Range(empty) \cup {h}
  <2>1. empty' = InsertAt(empty, 1, h)
    BY <1>2, <1>3, <1>4, ConsFacts
  <2>2. 1 \in 1..(Len(empty) + 1)
    BY <1>7
  <2> QED
    <3>1. /\ IsInsertion(InsertAt(empty, 1, h), Slots, empty, 1, h)
          /\ IsInjective(InsertAt(empty, 1, h))
          /\ Range(InsertAt(empty, 1, h)) = Range(empty) \cup {h}
      BY <1>3, <1>4, <1>6, <2>2, InsertFacts
    <3> QED
      BY <2>1, <3>1 DEF IsInsertion
<1>9. links' \in [Slots -> Slots \cup {Null}] /\ links'[h] = empty_list_head
      /\ \A x \in Slots : x # h => links'[x] = links[x]
  BY <1>1, <1>2, <1>4 DEF TypeOK
<1>10. TypeOK'
  BY <1>1, <1>2, <1>4, <1>5, <1>8, <1>9 DEF TypeOK, h
<1>11. \A i \in 1..(Len(active) - 1) :
         /\ active[i + 1] \in Slots /\ active[i + 1] # h
         /\ links[active[i + 1]] = IF i = Len(active) - 1 THEN Null ELSE active[i + 2]
  <2>1. \A i \in 1..(Len(active) - 1) : i + 1 \in 1..Len(active) /\ i + 1 # 1
    BY <1>4
  <2>2. /\ \A i \in 1..Len(active) : active[i] \in Slots
        /\ IsInjective(active) <=> \A i, j \in 1..Len(active) : active[i] = active[j] => i = j
    BY <1>3, ListFacts
  <2>3. \A i \in 1..Len(active) : links[active[i]] = IF i = Len(active) THEN Null ELSE active[i + 1]
    BY <1>1 DEF Chained, IsChain
  <2>4. 1 \in 1..Len(active)
    BY <1>4
  <2>5. IsInjective(active)
    BY <1>1 DEF NoSlotLost
  <2> QED
    BY <1>4, <2>1, <2>2, <2>3, <2>4, <2>5
<1>12. IsChain(active_list_head, active)'
  <2>1. active' = <<>> <=> Len(active) = 1
    BY <1>4, <1>5, ListFacts
  <2>2. links[h] = IF Len(active) = 1 THEN Null ELSE active[2]
    <3>1. 1 \in 1..Len(active) /\ links[active[1]] = IF 1 = Len(active) THEN Null ELSE active[1 + 1]
      <4>1. \A i \in 1..Len(active) :
              links[active[i]] = IF i = Len(active) THEN Null ELSE active[i + 1]
        BY <1>1 DEF Chained, IsChain
      <4>2. 1 \in 1..Len(active)
        BY <1>4
      <4> QED
        BY <4>1, <4>2
    <3> QED
      BY <1>4, <3>1
  <2>3. active_list_head' = IF active' = <<>> THEN Null ELSE active'[1]
    BY <1>2, <1>4, <1>5, <2>1, <2>2
  <2>4. \A i \in 1..Len(active') :
          links'[active'[i]] = IF i = Len(active') THEN Null ELSE active'[i + 1]
    BY <1>4, <1>5, <1>9, <1>11
  <2> QED
    BY <2>3, <2>4 DEF IsChain
<1>13. IsChain(empty_list_head, empty)'
  <2>1. /\ \A i \in 1..Len(empty) : empty[i] \in Slots /\ empty[i] # h
        /\ empty = <<>> <=> Len(empty) = 0
        /\ empty' = <<>> <=> Len(empty') = 0
    BY <1>3, <1>6, <1>8, ListFacts
  <2>2. /\ empty_list_head = IF empty = <<>> THEN Null ELSE empty[1]
        /\ \A i \in 1..Len(empty) : links[empty[i]] = IF i = Len(empty) THEN Null ELSE empty[i + 1]
    BY <1>1 DEF Chained, IsChain
  <2>3. empty' # <<>> /\ empty'[1] = h /\ 1 \in 1..Len(empty')
    BY <1>7, <1>8, <2>1
  <2>4. ASSUME NEW i \in 1..Len(empty')
        PROVE  links'[empty'[i]] = IF i = Len(empty') THEN Null ELSE empty'[i + 1]
    <3>1. CASE i = 1
      <4>1. CASE Len(empty) = 0
        BY <1>8, <1>9, <2>1, <2>2, <2>3, <3>1, <4>1
      <4>2. CASE Len(empty) # 0
        <5>1. empty'[2] = empty[1] /\ i # Len(empty')
          BY <1>7, <1>8, <3>1, <4>2
        <5> QED
          BY <1>9, <2>1, <2>2, <2>3, <3>1, <4>2, <5>1
      <4> QED
        BY <4>1, <4>2
    <3>2. CASE i # 1
      <4>1. i - 1 \in 1..Len(empty) /\ empty'[i] = empty[i - 1]
        BY <1>7, <1>8, <3>2
      <4>2. links'[empty'[i]] = links[empty[i - 1]]
        BY <1>9, <2>1, <4>1
      <4>3. CASE i = Len(empty')
        BY <1>7, <1>8, <2>2, <4>1, <4>2, <4>3
      <4>4. CASE i # Len(empty')
        <5>1. empty'[i + 1] = empty[i] /\ i - 1 # Len(empty) /\ (i - 1) + 1 = i
          BY <1>7, <1>8, <3>2, <4>4
        <5> QED
          BY <2>2, <4>1, <4>2, <4>4, <5>1
      <4> QED
        BY <4>3, <4>4
    <3> QED
      BY <3>1, <3>2
  <2> QED
    BY <1>2, <2>3, <2>4 DEF IsChain
<1>14. NoSlotLost'
  <2>1. Held = {} /\ Held' = {}
    BY <1>1, <1>2 DEF Held
  <2>2. Range(active) \cup Range(empty) = Slots /\ Len(active) + Len(empty) = Size
        /\ Range(active) \cap Range(empty) = {}
    BY <1>1, <2>1 DEF NoSlotLost
  <2>3. Len(active') + Len(empty') = Size
    BY <1>4, <1>5, <1>7, <1>8, <2>2
  <2> QED
    BY <1>1, <1>2, <1>5, <1>8, <2>1, <2>2, <2>3 DEF NoSlotLost
<1>15. Stored'
  <2>1. \A i \in 1..(Len(active) - 1) : i + 1 \in 1..Len(active)
    BY <1>4
  <2> QED
    BY <1>1, <1>2, <1>5, <2>1 DEF Stored
<1>16. WalkPosition'
  BY <1>1, <1>2 DEF WalkPosition
<1> QED
  BY <1>2, <1>4, <1>5, <1>10, <1>12, <1>13, <1>14, <1>15, <1>16 DEF IInv, Chained

----------------------------------------------------------------------------

\* The inductive invariant: the lists, the pool and the walk are consistent.
LEMMA InvCorrect == Spec => []IInv
<1>1. IInv /\ [Next]_vars => IInv'
  <2> SUFFICES ASSUME IInv, [Next]_vars PROVE IInv'
    OBVIOUS
  <2>1. ASSUME NEW item \in Items, InsertStart(item) PROVE IInv'
    BY <2>1, InsertStartInv
  <2>2. CASE Advance
    BY <2>2, AdvanceInv
  <2>3. CASE Link
    BY <2>3, LinkInv
  <2>4. CASE Pop
    BY <2>4, PopInv
  <2>5. CASE UNCHANGED vars
    BY <2>5 DEF vars, IInv, TypeOK, Chained, IsChain, NoSlotLost, Held, WalkPosition, Stored
  <2> QED
    BY <2>1, <2>2, <2>3, <2>4, <2>5 DEF Next
<1> QED
  BY <1>1, InitInv, PTL DEF Spec

\* Type correctness.
THEOREM TypeCorrect == Spec => []TypeOK
<1>1. IInv => TypeOK
  BY DEF IInv
<1> QED
  BY <1>1, InvCorrect, PTL

\* Both linked lists always run through exactly their own slots and end.
THEOREM ChainedCorrect == Spec => []Chained
<1>1. IInv => Chained
  BY DEF IInv
<1> QED
  BY <1>1, InvCorrect, PTL

\* No slot is ever lost or on both lists.
THEOREM NoSlotLostCorrect == Spec => []NoSlotLost
<1>1. IInv => NoSlotLost
  BY DEF IInv
<1> QED
  BY <1>1, InvCorrect, PTL

\* goes_before is only ever asked about slots that hold an item.
THEOREM StoredCorrect == Spec => []Stored
<1>1. IInv => Stored
  BY DEF IInv
<1> QED
  BY <1>1, InvCorrect, PTL

----------------------------------------------------------------------------
\* The refinement: a Link is an insertion, a Pop a pop, all else a stutter.

LEMMA LinkInserts ==
  ASSUME IInv, Link
  PROVE  Ordered!Insert(storage[idx])
<1> DEFINE q  == ItemsAt(storage, active)
           p  == passed + 1
           qq == InsertAt(q, p, storage[idx])
<1>1. /\ TypeOK /\ NoSlotLost /\ WalkPosition /\ Stored /\ walking /\ WalkDone
      /\ storage' = storage
  BY DEF IInv, Link
<1>2. /\ active \in Seq(Slots) /\ Len(active) \in Nat /\ Len(empty) \in Nat /\ passed \in Nat
      /\ passed <= Len(active) /\ storage[idx] \in Items
      /\ \A i \in 1..Len(active) : active[i] \in Slots
  BY <1>1, ListFacts DEF TypeOK, WalkPosition
<1>3. p \in 1..(Len(active) + 1)
  BY <1>2
<1>4. q \in Seq(Items) /\ Len(q) = Len(active) /\ \A i \in 1..Len(active) : q[i] = storage[active[i]]
  BY <1>1, <1>2 DEF ItemsAt, Stored
<1>5. Len(q) < Size
  <2>1. Len(active) + Len(empty) + 1 = Size
    BY <1>1 DEF NoSlotLost
  <2> QED
    BY <1>2, <1>4, <2>1
<1>6. Fits(q, p, storage[idx])
  <2>1. \A j \in 1..passed : ~GoesBefore(storage[idx], storage[active[j]])
    BY <1>1 DEF WalkPosition
  <2>2. \A j \in 1..(p - 1) : ~GoesBefore(storage[idx], q[j])
    BY <1>2, <1>4, <2>1
  <2>3. ASSUME p <= Len(q) PROVE GoesBefore(storage[idx], q[p])
    <3>1. passed # Len(active) /\ p \in 1..Len(active)
      BY <1>2, <1>4, <2>3
    <3>2. search_idx = active[p] /\ search_idx # Null
      BY <1>1, <1>2, <3>1, NullFacts DEF WalkPosition
    <3> QED
      BY <1>1, <1>4, <3>1, <3>2 DEF WalkDone
  <2> QED
    BY <2>2, <2>3 DEF Fits
<1> HIDE DEF q, p
<1> HIDE DEF qq
<1>7. /\ qq \in Seq(Items) /\ Len(qq) = Len(q) + 1
      /\ \A i \in 1..(Len(q) + 1) :
           qq[i] = IF i < p THEN q[i] ELSE IF i = p THEN storage[idx] ELSE q[i - 1]
  <2>1. qq = InsertAt(q, p, storage[idx])
    BY DEF qq
  <2>2. q \in Seq(Items) /\ p \in 1..(Len(q) + 1) /\ storage[idx] \in Items
    BY <1>2, <1>3, <1>4
  <2>3. IsInsertion(qq, Items, q, p, storage[idx])
    BY <2>1, <2>2, InsertAtProperties, Zenon
  <2> QED
    BY <2>3 DEF IsInsertion
<1>8. ItemsAt(storage, active)' = qq
  <2> DEFINE r == ItemsAt(storage, active)'
  <2>1. /\ Len(active') = Len(active) + 1
        /\ \A i \in 1..Len(active') :
             active'[i] = IF i < p THEN active[i] ELSE IF i = p THEN idx ELSE active[i - 1]
    BY LinkInv DEF p
  <2>2. r = [i \in 1..(Len(active) + 1) |-> storage[active'[i]]]
    BY <1>1, <2>1 DEF ItemsAt
  <2>3. \A i \in 1..(Len(active) + 1) : storage[active'[i]] = qq[i]
    <3> SUFFICES ASSUME NEW i \in 1..(Len(active) + 1) PROVE storage[active'[i]] = qq[i]
      OBVIOUS
    <3>1. CASE i < p
      BY <1>2, <1>3, <1>4, <1>7, <2>1, <3>1
    <3>2. CASE i = p
      BY <1>2, <1>3, <1>4, <1>7, <2>1, <3>2
    <3>3. CASE p < i
      <4>1. i - 1 \in 1..Len(active)
        BY <1>2, <1>3, <3>3
      <4>2. active'[i] = active[i - 1]
        BY <1>2, <1>3, <2>1, <3>3
      <4>3. qq[i] = q[i - 1]
        BY <1>2, <1>3, <1>4, <1>7, <3>3
      <4> QED
        BY <1>4, <4>1, <4>2, <4>3
    <3> QED
      BY <1>2, <1>3, <3>1, <3>2, <3>3
  <2>4. qq = [i \in 1..(Len(active) + 1) |-> qq[i]]
    BY <1>4, <1>7, LenProperties
  <2> QED
    BY <2>2, <2>3, <2>4
<1> QED
  <2>1. Ordered!Fits(q, p, storage[idx])
    BY <1>6 DEF Ordered!Fits, Fits
  <2>2. ItemsAt(storage, active)' = Ordered!InsertAt(q, p, storage[idx])
    BY <1>8 DEF Ordered!InsertAt, InsertAt, qq
  <2>3. p \in 1..(Len(q) + 1)
    BY <1>3, <1>4
  <2> QED
    BY <1>5, <2>1, <2>2, <2>3 DEF Ordered!Insert, q

LEMMA PopPops ==
  ASSUME IInv, Pop
  PROVE  Ordered!Pop
<1> DEFINE q == ItemsAt(storage, active)
<1>1. /\ TypeOK /\ Stored /\ storage' = storage
  BY DEF IInv, Pop
<1>2. active \in Seq(Slots) /\ active # <<>> /\ Len(active) \in Nat \ {0}
  BY <1>1, PopInv, ListFacts DEF TypeOK
<1>3. q \in Seq(Items) /\ Len(q) = Len(active) /\ \A i \in 1..Len(active) : q[i] = storage[active[i]]
  BY <1>1, <1>2 DEF ItemsAt, Stored
<1> HIDE DEF q
<1>4. q # <<>>
  BY <1>2, <1>3, EmptySeq
<1>5. /\ Tail(q) \in Seq(Items) /\ Len(Tail(q)) = Len(q) - 1
      /\ \A i \in 1..Len(Tail(q)) : Tail(q)[i] = q[i + 1]
  BY <1>3, <1>4, HeadTailProperties
<1>6. Tail(q) = [i \in 1..(Len(active) - 1) |-> q[i + 1]]
  BY <1>3, <1>5, LenProperties
<1>7. \A i \in 1..(Len(active) - 1) : q[i + 1] = storage[active[i + 1]]
  BY <1>2, <1>3
<1>8. ItemsAt(storage, active)' = [i \in 1..(Len(active) - 1) |-> storage[active[i + 1]]]
  <2>1. Len(active') = Len(active) - 1 /\ \A i \in 1..Len(active') : active'[i] = active[i + 1]
    BY PopInv
  <2> QED
    BY <1>1, <2>1 DEF ItemsAt
<1> QED
  BY <1>4, <1>6, <1>7, <1>8 DEF Ordered!Pop, q

\* Every step is one of the queue, or leaves it as it is.
LEMMA NextImplements ==
  ASSUME IInv, [Next]_vars
  PROVE  Ordered!Next \/ UNCHANGED ItemsAt(storage, active)
<1>1. ASSUME NEW item \in Items, InsertStart(item) PROVE UNCHANGED ItemsAt(storage, active)
  BY <1>1, InsertStartInv
<1>2. CASE Advance
  BY <1>2, AdvanceInv
<1>3. CASE Link
  <2>1. storage[idx] \in Items
    BY <1>3 DEF IInv, WalkPosition, Link
  <2> QED
    BY <1>3, <2>1, LinkInserts DEF Ordered!Next
<1>4. CASE Pop
  BY <1>4, PopPops DEF Ordered!Next
<1>5. CASE UNCHANGED vars
  BY <1>5 DEF vars, ItemsAt
<1> QED
  BY <1>1, <1>2, <1>3, <1>4, <1>5 DEF Next

\* sequence.c implements the sorted queue: what its user sees of an insertion or a
\* pop is one step of SortedQueue, and of everything in between nothing.
THEOREM Implements == Spec => Refinement
<1>1. Init => Ordered!Init
  <2> SUFFICES ASSUME Init PROVE Ordered!Init
    OBVIOUS
  <2>1. Len(active) = 0
    BY EmptySeq DEF Init
  <2>2. ItemsAt(storage, active) = [i \in 1..0 |-> storage[active[i]]]
    BY <2>1 DEF ItemsAt
  <2> QED
    BY <2>2 DEF Ordered!Init
<1>2. IInv /\ [Next]_vars => [Ordered!Next]_(ItemsAt(storage, active))
  BY NextImplements
<1> QED
  BY <1>1, <1>2, InvCorrect, PTL DEF Spec, Refinement, Ordered!Spec

----------------------------------------------------------------------------
\* The order of the queue, for every strict partial order.

\* Placing an item where it fits keeps a sorted sequence sorted.
LEMMA InsertKeepsSorted ==
  ASSUME NEW q \in Seq(Items), SortedSeq(q), NEW item \in Items,
         NEW p \in 1..(Len(q) + 1), Fits(q, p, item)
  PROVE  SortedSeq(InsertAt(q, p, item))
<1> DEFINE r == InsertAt(q, p, item)
<1>1. /\ r \in Seq(Items) /\ Len(r) = Len(q) + 1
      /\ \A i \in 1..(Len(q) + 1) :
           r[i] = IF i < p THEN q[i] ELSE IF i = p THEN item ELSE q[i - 1]
  <2>1. IsInsertion(r, Items, q, p, item)
    BY InsertAtProperties, Zenon
  <2> HIDE DEF r
  <2> QED
    BY <2>1 DEF IsInsertion
<1>2. Len(q) \in Nat /\ \A i \in 1..Len(q) : q[i] \in Items
  BY LenProperties, ElementOfSeq
<1>3. ASSUME NEW j \in p..Len(q), GoesBefore(q[j], item)
      PROVE  FALSE
  <2>1. GoesBefore(item, q[p]) /\ q[p] \in Items /\ q[j] \in Items
    BY <1>2 DEF Fits
  <2>2. GoesBefore(q[j], q[p])
    BY <1>3, <2>1, OrderAssumption
  <2>3. CASE j = p
    BY <2>1, <2>2, <2>3, OrderAssumption
  <2>4. CASE p < j
    BY <1>2, <2>2, <2>4 DEF SortedSeq
  <2> QED
    BY <1>2, <2>3, <2>4
<1> HIDE DEF r
<1>4. ASSUME NEW i \in 1..Len(r), NEW j \in 1..Len(r), i < j, GoesBefore(r[j], r[i])
      PROVE  FALSE
  <2>1. CASE i < p /\ j < p
    <3>1. r[i] = q[i] /\ r[j] = q[j] /\ i \in 1..Len(q) /\ j \in 1..Len(q)
      BY <1>1, <1>2, <2>1
    <3> QED
      BY <1>4, <3>1 DEF SortedSeq
  <2>2. CASE i < p /\ j = p
    <3>1. r[i] = q[i] /\ r[j] = item /\ i \in 1..(p - 1)
      BY <1>1, <1>2, <2>2
    <3> QED
      BY <1>4, <3>1 DEF Fits
  <2>3. CASE i < p /\ p < j
    <3>1. r[i] = q[i] /\ r[j] = q[j - 1] /\ i < j - 1 /\ i \in 1..Len(q) /\ j - 1 \in 1..Len(q)
      BY <1>1, <1>2, <2>3
    <3> QED
      BY <1>4, <3>1 DEF SortedSeq
  <2>4. CASE i = p /\ p < j
    <3>1. r[i] = item /\ r[j] = q[j - 1] /\ j - 1 \in p..Len(q)
      BY <1>1, <1>2, <2>4
    <3> QED
      BY <1>3, <1>4, <3>1
  <2>5. CASE p < i
    <3>1. /\ r[i] = q[i - 1] /\ r[j] = q[j - 1] /\ i - 1 < j - 1
          /\ i - 1 \in 1..Len(q) /\ j - 1 \in 1..Len(q)
      BY <1>1, <1>2, <1>4, <2>5
    <3> QED
      BY <1>4, <3>1 DEF SortedSeq
  <2> QED
    BY <1>1, <1>2, <1>4, <2>1, <2>2, <2>3, <2>4, <2>5
<1> QED
  BY <1>4 DEF SortedSeq, r

\* Removing the head of a sorted sequence leaves it sorted.
LEMMA TailKeepsSorted ==
  ASSUME NEW q \in Seq(Items), SortedSeq(q), q # <<>>
  PROVE  SortedSeq(Tail(q))
<1>1. /\ Len(Tail(q)) = Len(q) - 1 /\ Len(q) \in Nat \ {0}
      /\ \A i \in 1..Len(Tail(q)) : Tail(q)[i] = q[i + 1]
  BY HeadTailProperties, EmptySeq
<1> SUFFICES ASSUME NEW i \in 1..Len(Tail(q)), NEW j \in 1..Len(Tail(q)), i < j
             PROVE  ~GoesBefore(Tail(q)[j], Tail(q)[i])
  BY DEF SortedSeq
<1>2. /\ Tail(q)[i] = q[i + 1] /\ Tail(q)[j] = q[j + 1]
      /\ i + 1 \in 1..Len(q) /\ j + 1 \in 1..Len(q) /\ i + 1 < j + 1
  BY <1>1
<1> QED
  BY <1>2 DEF SortedSeq

\* The active list is sorted in every reachable state, so that its head, which is all the
\* scheduler looks at and removes, is always an item that must come first.
THEOREM SortedCorrect == Spec => []Ordered!Sorted
<1> DEFINE q == ItemsAt(storage, active)
<1>1. Init => Ordered!Sorted
  <2> SUFFICES ASSUME Init PROVE Ordered!Sorted
    OBVIOUS
  <2>1. Len(active) = 0
    BY EmptySeq DEF Init
  <2>2. Len(q) = 0
    BY <2>1 DEF ItemsAt
  <2> QED
    BY <2>2 DEF Ordered!Sorted, Ordered!SortedSeq
<1>2. IInv /\ Ordered!Sorted /\ [Next]_vars => Ordered!Sorted'
  <2> SUFFICES ASSUME IInv, Ordered!Sorted, [Next]_vars PROVE Ordered!Sorted'
    OBVIOUS
  <2>1. q \in Seq(Items)
    <3>1. active \in Seq(Slots) /\ Len(active) \in Nat
      BY ListFacts DEF IInv, TypeOK
    <3> QED
      BY <3>1 DEF IInv, Stored, ItemsAt
  <2>2. SortedSeq(q)
    BY DEF Ordered!Sorted, Ordered!SortedSeq, SortedSeq
  <2> HIDE DEF q
  <2>3. SortedSeq(q')
    <3>1. ASSUME NEW item \in Items, Ordered!Insert(item) PROVE SortedSeq(q')
      <4>1. PICK p \in 1..(Len(q) + 1) :
              /\ Ordered!Fits(q, p, item)
              /\ q' = Ordered!InsertAt(q, p, item)
        BY <3>1 DEF Ordered!Insert, q
      <4>2. Fits(q, p, item) /\ q' = InsertAt(q, p, item)
        BY <4>1 DEF Ordered!Fits, Fits, Ordered!InsertAt, InsertAt
      <4> QED
        BY <2>1, <2>2, <4>2, InsertKeepsSorted
    <3>2. CASE Ordered!Pop
      <4>1. q # <<>> /\ q' = Tail(q)
        BY <3>2 DEF Ordered!Pop, q
      <4> QED
        BY <2>1, <2>2, <4>1, TailKeepsSorted
    <3>3. CASE UNCHANGED q
      BY <2>2, <3>3
    <3> QED
      BY <3>1, <3>2, <3>3, NextImplements DEF Ordered!Next, q
  <2> QED
    BY <2>3 DEF Ordered!Sorted, Ordered!SortedSeq, SortedSeq, q
<1> QED
  BY <1>1, <1>2, InvCorrect, PTL DEF Spec

=============================================================================
