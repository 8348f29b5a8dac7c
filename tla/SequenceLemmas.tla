--------------------------- MODULE SequenceLemmas ---------------------------
(***************************************************************************)
(* What the operators on sequences that the modules use do to the entries  *)
(* of a sequence and to the set of its entries.                            *)
(***************************************************************************)
EXTENDS Selection, SequenceTheorems, WellFoundedInduction, TLAPS

\* An insertion, entry by entry: what is before place p stays, e is at p, and what
\* was at p or behind it moves back by one.
IsInsertion(r, S, s, p, e) ==
  /\ r \in Seq(S) /\ Len(r) = Len(s) + 1
  /\ \A i \in 1..(Len(s) + 1) :
       r[i] = IF i < p THEN s[i] ELSE IF i = p THEN e ELSE s[i - 1]

\* That is what InsertAt does.
LEMMA InsertAtProperties ==
  ASSUME NEW S, NEW s \in Seq(S), NEW p \in 1..(Len(s) + 1), NEW e \in S
  PROVE  IsInsertion(InsertAt(s, p, e), S, s, p, e)
<1> DEFINE front == SubSeq(s, 1, p - 1)
           back  == SubSeq(s, p, Len(s))
           left  == front \o <<e>>
<1>1. /\ front \in Seq(S) /\ Len(front) = p - 1
      /\ \A i \in 1..(p - 1) : front[i] = s[i]
  <2>1. \A i \in 1..(p - 1) : s[i] \in S
    BY ElementOfSeq, LenProperties
  <2> QED
    BY <2>1, LenProperties, SubSeqProperties
<1>2. /\ back \in Seq(S) /\ Len(back) = Len(s) - p + 1
      /\ \A i \in 1..(Len(s) - p + 1) : back[i] = s[p + i - 1]
  <2>1. \A i \in p..Len(s) : s[i] \in S
    BY ElementOfSeq, LenProperties
  <2> QED
    BY <2>1, LenProperties, SubSeqProperties
<1>3. <<e>> \in Seq(S) /\ Len(<<e>>) = 1 /\ <<e>>[1] = e
  OBVIOUS
<1> HIDE DEF front, back
<1>4. /\ left \in Seq(S) /\ Len(left) = p
      /\ \A i \in 1..p : left[i] = IF i <= p - 1 THEN s[i] ELSE e
  BY <1>1, <1>3, ConcatProperties, LenProperties
<1> HIDE DEF left
<1>5. /\ left \o back \in Seq(S) /\ Len(left \o back) = Len(s) + 1
      /\ \A i \in 1..(Len(s) + 1) :
           (left \o back)[i] = IF i <= p THEN left[i] ELSE back[i - p]
  <2>1. /\ left \o back \in Seq(S) /\ Len(left \o back) = Len(left) + Len(back)
        /\ \A i \in 1..(Len(left) + Len(back)) :
             (left \o back)[i] = IF i <= Len(left) THEN left[i] ELSE back[i - Len(left)]
    BY <1>2, <1>4, ConcatProperties
  <2>2. Len(left) + Len(back) = Len(s) + 1 /\ Len(left) = p
    BY <1>2, <1>4, LenProperties
  <2> QED
    BY <2>1, <2>2
<1>6. InsertAt(s, p, e) = left \o back
  BY DEF InsertAt, left, front, back
<1>7. ASSUME NEW i \in 1..(Len(s) + 1)
      PROVE  (left \o back)[i] = IF i < p THEN s[i] ELSE IF i = p THEN e ELSE s[i - 1]
  <2>1. Len(s) \in Nat
    BY LenProperties
  <2>2. CASE i <= p
    BY <1>4, <1>5, <2>1, <2>2
  <2>3. CASE p < i
    <3>1. i - p \in 1..(Len(s) - p + 1) /\ p + (i - p) - 1 = i - 1
      BY <2>1, <2>3
    <3> QED
      BY <1>2, <1>5, <2>1, <2>3, <3>1
  <2>4. i <= p \/ p < i
    BY <2>1
  <2> QED
    BY <2>2, <2>3, <2>4
<1> QED
  BY <1>5, <1>6, <1>7 DEF IsInsertion

\* The facts about a sequence that the lemmas below use.
LEMMA SeqFacts ==
  ASSUME NEW S, NEW s \in Seq(S)
  PROVE  /\ Len(s) \in Nat
         /\ DOMAIN s = 1..Len(s)
         /\ \A i \in 1..Len(s) : s[i] \in S
         /\ Range(s) = {s[i] : i \in 1..Len(s)}
         /\ IsInjective(s) <=> \A i, j \in 1..Len(s) : s[i] = s[j] => i = j
         /\ s = <<>> <=> Len(s) = 0
BY LenProperties, ElementOfSeq, EmptySeq DEF Range, IsInjective

\* Tail drops the first entry, and only that one.
LEMMA TailFacts ==
  ASSUME NEW S, NEW s \in Seq(S), s # <<>>, IsInjective(s)
  PROVE  /\ Tail(s) \in Seq(S) /\ Len(Tail(s)) = Len(s) - 1
         /\ \A i \in 1..(Len(s) - 1) : Tail(s)[i] = s[i + 1]
         /\ IsInjective(Tail(s))
         /\ s[1] \in Range(s)
         /\ Range(Tail(s)) = Range(s) \ {s[1]}
<1> DEFINE r == Tail(s)
<1>1. /\ Len(s) \in Nat \ {0}
      /\ \A i \in 1..Len(s) : s[i] \in S
      /\ Range(s) = {s[i] : i \in 1..Len(s)}
      /\ \A i, j \in 1..Len(s) : s[i] = s[j] => i = j
  BY SeqFacts
<1>2. /\ r \in Seq(S) /\ Len(r) = Len(s) - 1
      /\ \A i \in 1..(Len(s) - 1) : r[i] = s[i + 1]
  BY HeadTailProperties
<1> HIDE DEF r
<1>3. /\ Range(r) = {r[i] : i \in 1..Len(r)}
      /\ IsInjective(r) <=> \A i, j \in 1..Len(r) : r[i] = r[j] => i = j
  BY <1>2, SeqFacts
<1>4. \A i \in 1..(Len(s) - 1) : i + 1 \in 1..Len(s) /\ i + 1 # 1
  BY <1>1
<1>5. IsInjective(r)
  BY <1>1, <1>2, <1>3, <1>4
<1>6. 1 \in 1..Len(s) /\ s[1] \in Range(s)
  BY <1>1
<1>7. ASSUME NEW x \in Range(r) PROVE x \in Range(s) /\ x # s[1]
  <2>1. PICK i \in 1..(Len(s) - 1) : x = s[i + 1]
    BY <1>2, <1>3
  <2> QED
    BY <1>1, <1>4, <1>6, <2>1
<1>8. ASSUME NEW x \in Range(s), x # s[1] PROVE x \in Range(r)
  <2>1. PICK i \in 1..Len(s) : x = s[i]
    BY <1>1
  <2>2. i - 1 \in 1..(Len(s) - 1) /\ (i - 1) + 1 = i
    BY <1>1, <1>8, <2>1
  <2>3. r[i - 1] = x
    BY <1>2, <2>1, <2>2
  <2> QED
    BY <1>2, <1>3, <2>2, <2>3
<1> QED
  BY <1>2, <1>5, <1>6, <1>7, <1>8 DEF r

\* Inserting a new entry anywhere adds that entry, and nothing else.
LEMMA InsertFacts ==
  ASSUME NEW S, NEW s \in Seq(S), NEW p \in 1..(Len(s) + 1), NEW x \in S,
         x \notin Range(s), IsInjective(s)
  PROVE  /\ IsInsertion(InsertAt(s, p, x), S, s, p, x)
         /\ IsInjective(InsertAt(s, p, x))
         /\ Range(InsertAt(s, p, x)) = Range(s) \cup {x}
<1> DEFINE r == InsertAt(s, p, x)
<1>1. /\ Len(s) \in Nat /\ p \in Nat \ {0}
      /\ \A i \in 1..Len(s) : s[i] \in S
      /\ Range(s) = {s[i] : i \in 1..Len(s)}
      /\ \A i, j \in 1..Len(s) : s[i] = s[j] => i = j
  BY SeqFacts
<1>0. IsInsertion(r, S, s, p, x)
  BY InsertAtProperties, Zenon
<1> HIDE DEF r
<1>2. /\ r \in Seq(S) /\ Len(r) = Len(s) + 1
      /\ \A i \in 1..(Len(s) + 1) :
           r[i] = IF i < p THEN s[i] ELSE IF i = p THEN x ELSE s[i - 1]
  BY <1>0 DEF IsInsertion
<1>3. /\ Range(r) = {r[i] : i \in 1..Len(r)}
      /\ IsInjective(r) <=> \A i, j \in 1..Len(r) : r[i] = r[j] => i = j
  BY <1>2, SeqFacts
<1>4. \A i \in 1..Len(r) :
        \/ i < p /\ i \in 1..Len(s) /\ r[i] = s[i] /\ r[i] # x
        \/ i = p /\ r[i] = x
        \/ p < i /\ i - 1 \in 1..Len(s) /\ r[i] = s[i - 1] /\ r[i] # x
  <2> SUFFICES ASSUME NEW i \in 1..Len(r)
               PROVE  \/ i < p /\ i \in 1..Len(s) /\ r[i] = s[i] /\ r[i] # x
                      \/ i = p /\ r[i] = x
                      \/ p < i /\ i - 1 \in 1..Len(s) /\ r[i] = s[i - 1] /\ r[i] # x
    OBVIOUS
  <2>1. \A k \in 1..Len(s) : s[k] # x
    BY <1>1
  <2>2. CASE i < p
    BY <1>1, <1>2, <2>1, <2>2
  <2>3. CASE i = p
    BY <1>1, <1>2, <2>3
  <2>4. CASE p < i
    <3>1. i - 1 \in 1..Len(s) /\ r[i] = s[i - 1]
      BY <1>1, <1>2, <2>4
    <3> QED
      BY <2>1, <2>4, <3>1
  <2> QED
    BY <1>1, <1>2, <2>2, <2>3, <2>4
<1>5. IsInjective(r)
  <2> SUFFICES ASSUME NEW i \in 1..Len(r), NEW j \in 1..Len(r), r[i] = r[j]
               PROVE  i = j
    BY <1>3
  <2>1. CASE r[i] = x
    BY <1>4, <2>1
  <2>2. CASE r[i] # x
    <3>1. /\ \/ i < p /\ i \in 1..Len(s) /\ r[i] = s[i]
             \/ p < i /\ i - 1 \in 1..Len(s) /\ r[i] = s[i - 1]
          /\ \/ j < p /\ j \in 1..Len(s) /\ r[j] = s[j]
             \/ p < j /\ j - 1 \in 1..Len(s) /\ r[j] = s[j - 1]
      BY <1>4, <2>2
    <3>2. CASE i < p /\ j < p
      BY <1>1, <3>1, <3>2
    <3>3. CASE i < p /\ p < j
      <4>1. i \in 1..Len(s) /\ j - 1 \in 1..Len(s) /\ s[i] = s[j - 1] /\ i # j - 1
        BY <1>1, <3>1, <3>3
      <4> QED
        BY <1>1, <4>1
    <3>4. CASE p < i /\ j < p
      <4>1. i - 1 \in 1..Len(s) /\ j \in 1..Len(s) /\ s[i - 1] = s[j] /\ i - 1 # j
        BY <1>1, <3>1, <3>4
      <4> QED
        BY <1>1, <4>1
    <3>5. CASE p < i /\ p < j
      <4>1. /\ i - 1 \in 1..Len(s) /\ j - 1 \in 1..Len(s) /\ s[i - 1] = s[j - 1]
            /\ i - 1 = j - 1 => i = j
        BY <1>1, <3>1, <3>5
      <4> QED
        BY <1>1, <4>1
    <3> QED
      BY <3>1, <3>2, <3>3, <3>4, <3>5
  <2> QED
    BY <2>1, <2>2
<1>6. x \in Range(r)
  <2>1. p \in 1..Len(r) /\ r[p] = x
    BY <1>1, <1>2
  <2> QED
    BY <1>3, <2>1
<1>7. ASSUME NEW i \in 1..Len(s) PROVE s[i] \in Range(r)
  <2>1. CASE i < p
    <3>1. i \in 1..Len(r) /\ r[i] = s[i]
      BY <1>1, <1>2, <2>1
    <3> QED
      BY <1>3, <3>1
  <2>2. CASE ~(i < p)
    <3>1. i + 1 \in 1..Len(r) /\ (i + 1) - 1 = i /\ r[i + 1] = s[i]
      BY <1>1, <1>2, <2>2
    <3> QED
      BY <1>3, <3>1
  <2> QED
    BY <2>1, <2>2
<1>8. \A y \in Range(r) : y \in Range(s) \cup {x}
  <2>1. \A i \in 1..Len(r) : r[i] \in Range(s) \cup {x}
    BY <1>1, <1>4
  <2> QED
    BY <1>3, <2>1
<1>9. Range(r) = Range(s) \cup {x}
  BY <1>1, <1>6, <1>7, <1>8
<1> QED
  BY <1>0, <1>5, <1>9 DEF r

\* Putting a new entry in front is inserting it at the first place.
LEMMA ConsFacts ==
  ASSUME NEW S, NEW s \in Seq(S), NEW x \in S
  PROVE  <<x>> \o s = InsertAt(s, 1, x)
<1>1. SubSeq(s, 1, 0) = <<>> /\ SubSeq(s, 1, Len(s)) = s
  BY SubSeqEmpty, SubSeqFull
<1>2. <<x>> \in Seq(S)
  OBVIOUS
<1>3. <<>> \o <<x>> = <<x>>
  BY <1>2, ConcatEmptySeq
<1> QED
  BY <1>1, <1>3 DEF InsertAt

\* Appending a new entry.
LEMMA AppendFacts ==
  ASSUME NEW S, NEW s \in Seq(S), NEW x \in S, x \notin Range(s), IsInjective(s)
  PROVE  /\ Append(s, x) \in Seq(S)
         /\ IsInjective(Append(s, x))
         /\ Range(Append(s, x)) = Range(s) \cup {x}
<1> DEFINE r == Append(s, x)
<1>1. /\ Len(s) \in Nat /\ Range(s) = {s[i] : i \in 1..Len(s)}
      /\ \A i, j \in 1..Len(s) : s[i] = s[j] => i = j
  BY SeqFacts
<1>2. /\ r \in Seq(S) /\ Len(r) = Len(s) + 1
      /\ \A i \in 1..Len(s) : r[i] = s[i]
      /\ r[Len(s) + 1] = x
  BY AppendProperties
<1> HIDE DEF r
<1>3. /\ Range(r) = {r[i] : i \in 1..Len(r)}
      /\ IsInjective(r) <=> \A i, j \in 1..Len(r) : r[i] = r[j] => i = j
  BY <1>2, SeqFacts
<1>4. \A i \in 1..Len(r) : i \in 1..Len(s) \/ i = Len(s) + 1
  BY <1>1, <1>2
<1>5. \A i \in 1..Len(s) : i \in 1..Len(r) /\ s[i] # x
  BY <1>1, <1>2
<1>6. Len(s) + 1 \in 1..Len(r)
  BY <1>1, <1>2
<1>7. IsInjective(r)
  BY <1>1, <1>2, <1>3, <1>4, <1>5
<1>8. Range(r) = Range(s) \cup {x}
  <2>1. \A y \in Range(r) : y \in Range(s) \cup {x}
    BY <1>1, <1>2, <1>3, <1>4
  <2>2. \A y \in Range(s) \cup {x} : y \in Range(r)
    BY <1>1, <1>2, <1>3, <1>5, <1>6
  <2> QED
    BY <2>1, <2>2
<1> QED
  BY <1>2, <1>7, <1>8 DEF r

\* An empty sequence.
LEMMA EmptyFacts ==
  ASSUME NEW S, NEW s \in Seq(S), Len(s) = 0
  PROVE  Range(s) = {} /\ IsInjective(s)
<1>1. DOMAIN s = {}
  BY LenProperties
<1> QED
  BY <1>1 DEF Range, IsInjective

----------------------------------------------------------------------------
(* Induction, over a set: the numbers, or the sequences, that have a property. *)

Smaller == {p \in Nat \X Nat : p[1] < p[2]}

LEMMA LeastNumber ==
  ASSUME NEW T \in SUBSET Nat, T # {}
  PROVE  \E n \in T : \A m \in T : n <= m
<1>1. IsWellFoundedOn(Smaller, Nat)
  BY NatLessThanWellFounded DEF Smaller, OpToRel
<1>2. PICK n \in T : \A m \in T : <<m, n>> \notin Smaller
  BY <1>1, WFMin
<1>3. ASSUME NEW m \in Nat, NEW k \in Nat, <<m, k>> \notin Smaller PROVE k <= m
  <2>1. <<m, k>> \in Nat \X Nat /\ <<m, k>>[1] = m /\ <<m, k>>[2] = k
    OBVIOUS
  <2>2. ~(m < k)
    BY <1>3, <2>1 DEF Smaller
  <2>. QED BY <2>2
<1>. QED BY <1>2, <1>3

LEMMA NumberInduction ==
  ASSUME NEW S, 0 \in S, \A n \in Nat : n \in S => n + 1 \in S
  PROVE  Nat \subseteq S
<1>1. SUFFICES ASSUME Nat \ S # {} PROVE FALSE
  OBVIOUS
<1>2. PICK n \in Nat \ S : \A m \in Nat \ S : n <= m
  BY <1>1, LeastNumber
<1>3. n # 0 /\ n - 1 \in Nat /\ n - 1 \in S
  BY <1>2
<1>. QED BY <1>2, <1>3

LEMMA SequenceInduction ==
  ASSUME NEW A, NEW S, <<>> \in S,
         \A s \in Seq(A), e \in A : s \in S => Append(s, e) \in S
  PROVE  Seq(A) \subseteq S
<1>. DEFINE N == {n \in Nat : \A s \in Seq(A) : Len(s) = n => s \in S}
<1>1. 0 \in N
  BY EmptySeq
<1>2. ASSUME NEW n \in Nat, n \in N PROVE n + 1 \in N
  <2>1. SUFFICES ASSUME NEW s \in Seq(A), Len(s) = n + 1 PROVE s \in S
    OBVIOUS
  <2>2. PICK t \in Seq(A), e \in A : s = Append(t, e)
    BY <2>1, SequenceEmptyOrAppend, EmptySeq
  <2>3. Len(t) = n
    BY <2>1, <2>2, AppendProperties, LenProperties
  <2>. QED BY <1>2, <2>2, <2>3
<1>3. Nat \subseteq N
  <2>. HIDE DEF N
  <2>. QED BY <1>1, <1>2, NumberInduction
<1>. QED BY <1>3, LenProperties

----------------------------------------------------------------------------
(* What FlattenSeq computes. *)

\* g[i] is what the first i of the sequences ss come to.
IsFlattening(g, ss) == g = [i \in 1..Len(ss) |-> IF i = 1 THEN ss[i] ELSE g[i - 1] \o ss[i]]

LEMMA FlatteningExists ==
  ASSUME NEW D
  PROVE  \A ss \in Seq(Seq(D)) : \E g \in [1..Len(ss) -> Seq(D)] : IsFlattening(g, ss)
<1>. DEFINE S == {ss \in Seq(Seq(D)) : \E g \in [1..Len(ss) -> Seq(D)] : IsFlattening(g, ss)}
<1>1. <<>> \in S
  <2>1. <<>> \in Seq(Seq(D)) /\ Len(<<>>) = 0 /\ 1..0 = {}
    BY EmptySeq
  <2>2. <<>> \in [1..0 -> Seq(D)] /\ IsFlattening(<<>>, <<>>)
    BY <2>1 DEF IsFlattening
  <2>. QED BY <2>1, <2>2
<1>2. ASSUME NEW ss \in Seq(Seq(D)), NEW s \in Seq(D), ss \in S PROVE Append(ss, s) \in S
  <2>. DEFINE tt == Append(ss, s)
              n == Len(ss)
  <2>1. PICK g \in [1..n -> Seq(D)] : IsFlattening(g, ss)
    BY <1>2
  <2>. DEFINE last == IF n = 0 THEN s ELSE g[n] \o s
              h == [i \in 1..(n + 1) |-> IF i = n + 1 THEN last ELSE g[i]]
  <2>2. n \in Nat /\ tt \in Seq(Seq(D)) /\ Len(tt) = n + 1 /\ tt[n + 1] = s /\ \A i \in 1..n : tt[i] = ss[i]
    BY AppendProperties, LenProperties
  <2>3. last \in Seq(D)
    BY <2>2, ConcatProperties
  <2>4. h \in [1..(n + 1) -> Seq(D)]
    BY <2>2, <2>3
  <2>5. ASSUME NEW i \in 1..(n + 1)
        PROVE  h[i] = IF i = 1 THEN tt[i] ELSE h[i - 1] \o tt[i]
    <3>. HIDE DEF tt
    <3>1. CASE i = n + 1
      <4>1. CASE n = 0  BY <2>2, <3>1, <4>1
      <4>2. CASE n # 0  
        <5>1. i # 1 /\ i - 1 = n /\ h[i] = last /\ h[n] = g[n]
          BY <2>2, <3>1, <4>2
        <5>. QED BY <2>2, <3>1, <4>2, <5>1
      <4>. QED BY <4>1, <4>2
    <3>2. CASE i # n + 1
      <4>1. i \in 1..n /\ h[i] = g[i] /\ (i # 1 => i - 1 \in 1..n /\ h[i - 1] = g[i - 1])
        BY <2>2, <3>2
      <4>2. g[i] = IF i = 1 THEN ss[i] ELSE g[i - 1] \o ss[i]
        BY <2>1, <4>1 DEF IsFlattening
      <4>. QED BY <2>2, <4>1, <4>2
    <3>. QED BY <3>1, <3>2
  <2>. HIDE DEF h, tt
  <2>6. IsFlattening(h, tt)
    BY <2>2, <2>4, <2>5 DEF IsFlattening
  <2>7. tt \in S
    BY <2>2, <2>4, <2>6
  <2>. QED BY <2>7 DEF tt
<1>3. Seq(Seq(D)) \subseteq S
  <2>. HIDE DEF S
  <2>. QED BY <1>1, <1>2, SequenceInduction
<1>. QED BY <1>3

LEMMA FlatteningEntry ==
  ASSUME NEW ss, NEW g, IsFlattening(g, ss), NEW i \in 1..Len(ss)
  PROVE  g[i] = IF i = 1 THEN ss[i] ELSE g[i - 1] \o ss[i]
BY DEF IsFlattening

\* There is one way only.
LEMMA FlatteningUnique ==
  ASSUME NEW ss, Len(ss) \in Nat, NEW g, NEW h, IsFlattening(g, ss), IsFlattening(h, ss)
  PROVE  g = h
<1>. DEFINE N == {n \in Nat : n \in 1..Len(ss) => g[n] = h[n]}
<1>1. ASSUME NEW i \in 1..Len(ss)
      PROVE  /\ g[i] = IF i = 1 THEN ss[i] ELSE g[i - 1] \o ss[i]
             /\ h[i] = IF i = 1 THEN ss[i] ELSE h[i - 1] \o ss[i]
  BY DEF IsFlattening
<1>2. 0 \in N
  OBVIOUS
<1>3. ASSUME NEW n \in Nat, n \in N PROVE n + 1 \in N
  <2>1. SUFFICES ASSUME n + 1 \in 1..Len(ss) PROVE g[n + 1] = h[n + 1]
    OBVIOUS
  <2>2. CASE n = 0  BY <1>1, <2>1, <2>2
  <2>3. CASE n # 0
    <3>1. n \in 1..Len(ss) /\ (n + 1) - 1 = n /\ n + 1 # 1
      BY <2>1, <2>3
    <3>2. g[n] = h[n]
      BY <1>3, <3>1
    <3>. QED BY <1>1, <2>1, <3>1, <3>2
  <2>. QED BY <2>2, <2>3
<1>4. \A n \in 1..Len(ss) : g[n] = h[n]
  <2>1. Nat \subseteq N
    <3>. HIDE DEF N
    <3>. QED BY <1>2, <1>3, NumberInduction
  <2>. QED BY <2>1
<1>5. g = [i \in 1..Len(ss) |-> g[i]] /\ h = [i \in 1..Len(ss) |-> h[i]]
  BY DEF IsFlattening
<1>. QED BY <1>4, <1>5

LEMMA FlattenIs ==
  ASSUME NEW ss, Len(ss) \in Nat \ {0}, NEW g, IsFlattening(g, ss)
  PROVE  FlattenSeq(ss) = g[Len(ss)]
<1>. DEFINE f == CHOOSE f : IsFlattening(f, ss)
<1>1. IsFlattening(f, ss)
  OBVIOUS
<1>2. FlattenSeq(ss) = f[Len(ss)]
  BY DEF FlattenSeq, IsFlattening
<1>. HIDE DEF f
<1>. QED BY <1>1, <1>2, FlatteningUnique

LEMMA FlattenEmpty == FlattenSeq(<<>>) = <<>>
BY DEF FlattenSeq

LEMMA FlattenAppend ==
  ASSUME NEW D, NEW ss \in Seq(Seq(D)), NEW s \in Seq(D)
  PROVE  /\ FlattenSeq(ss) \in Seq(D)
         /\ FlattenSeq(Append(ss, s)) = FlattenSeq(ss) \o s
<1>. DEFINE n == Len(ss)
            tt == Append(ss, s)
<1>1. n \in Nat /\ tt \in Seq(Seq(D)) /\ Len(tt) = n + 1 /\ tt[n + 1] = s /\ \A i \in 1..n : tt[i] = ss[i]
  BY AppendProperties, LenProperties
<1>. HIDE DEF tt
<1>2. PICK g \in [1..n -> Seq(D)] : IsFlattening(g, ss)
  BY FlatteningExists
<1>3. PICK h \in [1..(n + 1) -> Seq(D)] : IsFlattening(h, tt)
  BY <1>1, FlatteningExists
<1>4. FlattenSeq(tt) = h[n + 1] 
  BY <1>1, <1>3, FlattenIs
<1>5. h[n + 1] = IF n + 1 = 1 THEN s ELSE h[n] \o s
  <2>1. h[n + 1] = IF n + 1 = 1 THEN tt[n + 1] ELSE h[(n + 1) - 1] \o tt[n + 1]
    <3>1. n + 1 \in 1..Len(tt)
      BY <1>1
    <3>. QED BY <1>3, <3>1, FlatteningEntry
  <2>. QED BY <1>1, <2>1
<1>6. CASE n = 0
  <2>1. ss = <<>> /\ FlattenSeq(ss) = <<>> /\ <<>> \in Seq(D)
    BY <1>6, EmptySeq, FlattenEmpty
  <2>2. FlattenSeq(tt) = s
    BY <1>4, <1>5, <1>6
  <2>3. <<>> \o s = s
    BY ConcatEmptySeq
  <2>. QED BY <2>1, <2>2, <2>3 DEF tt
<1>7. CASE n # 0
  <2>1. FlattenSeq(ss) = g[n] /\ g[n] \in Seq(D)
    <3>1. n \in Nat \ {0} /\ n \in 1..n
      BY <1>1, <1>7
    <3>. QED BY <1>2, <3>1, FlattenIs
  <2>. DEFINE k == [i \in 1..n |-> h[i]]
  <2>2. IsFlattening(k, ss)
    <3>1. ASSUME NEW i \in 1..n PROVE k[i] = IF i = 1 THEN ss[i] ELSE k[i - 1] \o ss[i]
      <4>1. h[i] = IF i = 1 THEN tt[i] ELSE h[i - 1] \o tt[i]
        <5>1. i \in 1..Len(tt)
          BY <1>1
        <5>. QED BY <1>3, <5>1, FlatteningEntry
      <4>2. i # 1 => i - 1 \in 1..n
        BY <1>1
      <4>. QED BY <1>1, <4>1, <4>2
    <3>. QED BY <3>1 DEF IsFlattening
  <2>3. k = g
    <3>. HIDE DEF k
    <3>. QED BY <1>1, <1>2, <2>2, FlatteningUnique
  <2>4. h[n] = g[n]
    BY <1>1, <1>7, <2>3
  <2>. QED BY <1>1, <1>4, <1>5, <1>7, <2>1, <2>4 DEF tt
<1>. QED BY <1>1, <1>6, <1>7

LEMMA FlattenConcat ==
  ASSUME NEW D, NEW ss \in Seq(Seq(D)), NEW tt \in Seq(Seq(D))
  PROVE  FlattenSeq(ss \o tt) = FlattenSeq(ss) \o FlattenSeq(tt)
<1>. DEFINE S == {uu \in Seq(Seq(D)) : FlattenSeq(ss \o uu) = FlattenSeq(ss) \o FlattenSeq(uu)}
<1>0. FlattenSeq(ss) \in Seq(D)
  BY FlattenAppend, EmptySeq
<1>1. <<>> \in S
  BY <1>0, FlattenEmpty, ConcatEmptySeq, EmptySeq
<1>2. ASSUME NEW uu \in Seq(Seq(D)), NEW u \in Seq(D), uu \in S PROVE Append(uu, u) \in S
  <2>1. ss \o Append(uu, u) = Append(ss \o uu, u)
    <3>1. Append(uu, u) = uu \o <<u>> /\ <<u>> \in Seq(Seq(D))
      BY AppendIsConcat
    <3>2. ss \o uu \in Seq(Seq(D)) /\ Append(ss \o uu, u) = (ss \o uu) \o <<u>>
      BY ConcatProperties, AppendIsConcat
    <3>. QED BY <3>1, <3>2, ConcatAssociative
  <2>2. ss \o uu \in Seq(Seq(D)) /\ Append(uu, u) \in Seq(Seq(D))
    BY ConcatProperties, AppendProperties
  <2>3. FlattenSeq(Append(ss \o uu, u)) = FlattenSeq(ss \o uu) \o u
    BY <2>2, FlattenAppend
  <2>4. FlattenSeq(Append(uu, u)) = FlattenSeq(uu) \o u /\ FlattenSeq(uu) \in Seq(D)
    BY FlattenAppend
  <2>5. FlattenSeq(ss \o uu) = FlattenSeq(ss) \o FlattenSeq(uu)
    BY <1>2
  <2>6. (FlattenSeq(ss) \o FlattenSeq(uu)) \o u = FlattenSeq(ss) \o (FlattenSeq(uu) \o u)
    <3>1. \A a, b, c \in Seq(D) : (a \o b) \o c = a \o (b \o c)
      BY ConcatAssociative
    <3>. QED BY <1>0, <2>4, <3>1
  <2>. QED BY <2>1, <2>2, <2>3, <2>4, <2>5, <2>6
<1>3. Seq(Seq(D)) \subseteq S
  <2>. HIDE DEF S
  <2>. QED BY <1>1, <1>2, SequenceInduction
<1>. QED BY <1>3

\* The entries of the flattened sequence are those of its parts.
LEMMA FlattenEntries ==
  ASSUME NEW D
  PROVE  \A ss \in Seq(Seq(D)) :
           \A x : x \in Range(FlattenSeq(ss)) <=> \E i \in 1..Len(ss) : x \in Range(ss[i])
<1>. DEFINE S == {ss \in Seq(Seq(D)) :
                    \A x : x \in Range(FlattenSeq(ss)) <=> \E i \in 1..Len(ss) : x \in Range(ss[i])}
<1>1. <<>> \in S
  BY FlattenEmpty, EmptySeq DEF Range
<1>2. ASSUME NEW ss \in Seq(Seq(D)), NEW s \in Seq(D), ss \in S PROVE Append(ss, s) \in S
  <2>. DEFINE n == Len(ss)
              tt == Append(ss, s)
  <2>1. n \in Nat /\ tt \in Seq(Seq(D)) /\ Len(tt) = n + 1 /\ tt[n + 1] = s /\ \A i \in 1..n : tt[i] = ss[i]
    BY AppendProperties, LenProperties
  <2>2. FlattenSeq(tt) = FlattenSeq(ss) \o s /\ FlattenSeq(ss) \in Seq(D)
    BY FlattenAppend
  <2>3. Range(FlattenSeq(tt)) = Range(FlattenSeq(ss)) \cup Range(s)
    BY <2>2, RangeConcatenation
  <2>4. \A x : x \in Range(FlattenSeq(ss)) <=> \E i \in 1..n : x \in Range(ss[i])
    BY <1>2
  <2>. HIDE DEF tt
  <2>5. \A x : x \in Range(FlattenSeq(tt)) <=> \E i \in 1..(n + 1) : x \in Range(tt[i])
    <3>. SUFFICES ASSUME NEW x PROVE x \in Range(FlattenSeq(tt)) <=> \E i \in 1..(n + 1) : x \in Range(tt[i])
      OBVIOUS
    <3>1. x \in Range(FlattenSeq(tt)) <=> x \in Range(s) \/ \E i \in 1..n : x \in Range(ss[i])
      BY <2>3, <2>4
    <3>2. (\E i \in 1..n : x \in Range(ss[i])) <=> \E i \in 1..n : x \in Range(tt[i])
      BY <2>1
    <3>3. 1..(n + 1) = 1..n \cup {n + 1}
      BY <2>1
    <3>. QED BY <2>1, <3>1, <3>2, <3>3
  <2>. QED BY <2>1, <2>5 DEF tt
<1>3. Seq(Seq(D)) \subseteq S
  <2>. HIDE DEF S
  <2>. QED BY <1>1, <1>2, SequenceInduction
<1>. QED BY <1>3

\* Its head comes first.
LEMMA FlattenHead ==
  ASSUME NEW D, NEW ss \in Seq(Seq(D)), ss # <<>>
  PROVE  /\ Head(ss) \in Seq(D) /\ Tail(ss) \in Seq(Seq(D))
         /\ FlattenSeq(ss) = Head(ss) \o FlattenSeq(Tail(ss))
<1>1. Head(ss) \in Seq(D) /\ Tail(ss) \in Seq(Seq(D))
  BY HeadTailProperties
<1>2. <<Head(ss)>> \in Seq(Seq(D)) /\ <<Head(ss)>> = Append(<<>>, Head(ss))
  BY <1>1
<1>3. ss = <<Head(ss)>> \o Tail(ss)
  OBVIOUS
<1>4. FlattenSeq(<<Head(ss)>>) = Head(ss)
  <2>1. FlattenSeq(Append(<<>>, Head(ss))) = FlattenSeq(<<>>) \o Head(ss)
    BY <1>1, EmptySeq, FlattenAppend
  <2>. QED BY <1>1, <1>2, <2>1, FlattenEmpty, ConcatEmptySeq
<1>5. FlattenSeq(<<Head(ss)>> \o Tail(ss)) = FlattenSeq(<<Head(ss)>>) \o FlattenSeq(Tail(ss))
  BY <1>1, <1>2, FlattenConcat
<1>. QED BY <1>1, <1>3, <1>4, <1>5

----------------------------------------------------------------------------
(* Selections. *)

\* The sequences that a selection flattens.
Chosen(s, I) == [i \in DOMAIN s |-> IF i \in I THEN <<s[i]>> ELSE <<>>]

LEMMA ChosenFacts ==
  ASSUME NEW D, NEW s \in Seq(D), NEW I
  PROVE  /\ Chosen(s, I) \in Seq(Seq(D)) /\ Len(Chosen(s, I)) = Len(s)
         /\ \A i \in 1..Len(s) : Chosen(s, I)[i] = IF i \in I THEN <<s[i]>> ELSE <<>>
         /\ Picked(s, I) = FlattenSeq(Chosen(s, I)) /\ Picked(s, I) \in Seq(D)
<1>1. Len(s) \in Nat /\ DOMAIN s = 1..Len(s) /\ \A i \in 1..Len(s) : s[i] \in D
  BY LenProperties, ElementOfSeq
<1>2. \A i \in 1..Len(s) : (IF i \in I THEN <<s[i]>> ELSE <<>>) \in Seq(D)
  BY <1>1
<1>3. Chosen(s, I) = [i \in 1..Len(s) |-> IF i \in I THEN <<s[i]>> ELSE <<>>]
  BY <1>1 DEF Chosen
<1>4. Chosen(s, I) \in [1..Len(s) -> Seq(D)]
  BY <1>2, <1>3
<1>5. Chosen(s, I) \in Seq(Seq(D)) /\ Len(Chosen(s, I)) = Len(s)
  BY <1>1, <1>4
<1>6. Picked(s, I) = FlattenSeq(Chosen(s, I))
  BY DEF Picked, Chosen
<1>. QED BY <1>3, <1>5, <1>6, FlattenAppend, EmptySeq

LEMMA PickedEmpty ==
  ASSUME NEW I
  PROVE  Picked(<<>>, I) = <<>>
<1>1. Len(Chosen(<<>>, I)) = 0 /\ Chosen(<<>>, I) \in Seq(Seq({})) /\ Picked(<<>>, I) = FlattenSeq(Chosen(<<>>, I))
  BY EmptySeq, ChosenFacts
<1>. QED BY <1>1, EmptySeq, FlattenEmpty

LEMMA PickedSame ==
  ASSUME NEW D, NEW s \in Seq(D), NEW I, NEW J, \A i \in 1..Len(s) : i \in I <=> i \in J
  PROVE  Picked(s, I) = Picked(s, J)
<1>1. Chosen(s, I) = Chosen(s, J)
  BY LenProperties DEF Chosen
<1>. QED BY <1>1 DEF Picked, Chosen

LEMMA PickedAppend ==
  ASSUME NEW D, NEW s \in Seq(D), NEW e \in D, NEW I
  PROVE  Picked(Append(s, e), I) =
           IF Len(s) + 1 \in I THEN Append(Picked(s, I), e) ELSE Picked(s, I)
<1>. DEFINE n == Len(s)
            t == Append(s, e)
            x == IF n + 1 \in I THEN <<e>> ELSE <<>>
<1>1. n \in Nat /\ t \in Seq(D) /\ Len(t) = n + 1 /\ t[n + 1] = e /\ \A i \in 1..n : t[i] = s[i]
  BY AppendProperties, LenProperties
<1>2. x \in Seq(D)
  OBVIOUS
<1>. HIDE DEF t, x
<1>3. /\ Append(Chosen(s, I), x) \in Seq(Seq(D)) /\ Len(Append(Chosen(s, I), x)) = n + 1
      /\ \A i \in 1..n : Append(Chosen(s, I), x)[i] = Chosen(s, I)[i]
      /\ Append(Chosen(s, I), x)[n + 1] = x
  BY <1>1, <1>2, ChosenFacts, AppendProperties
<1>4. Chosen(t, I) = Append(Chosen(s, I), x)
  <2>1. Chosen(t, I) \in Seq(Seq(D)) /\ Len(Chosen(t, I)) = n + 1
    BY <1>1, ChosenFacts
  <2>2. ASSUME NEW i \in 1..(n + 1) PROVE Chosen(t, I)[i] = Append(Chosen(s, I), x)[i]
    <3>1. CASE i = n + 1
      BY <1>1, <1>3, <3>1, ChosenFacts DEF x
    <3>2. CASE i # n + 1
      <4>1. i \in 1..n
        BY <1>1, <3>2
      <4>2. Chosen(t, I)[i] = IF i \in I THEN <<t[i]>> ELSE <<>>
        BY <1>1, ChosenFacts
      <4>3. Chosen(s, I)[i] = IF i \in I THEN <<s[i]>> ELSE <<>>
        BY <4>1, ChosenFacts
      <4>. QED BY <1>1, <1>3, <4>1, <4>2, <4>3
    <3>. QED BY <3>1, <3>2
  <2>. QED BY <1>3, <2>1, <2>2, SeqEqual
<1>5. Picked(t, I) = Picked(s, I) \o x
  <2>1. Picked(t, I) = FlattenSeq(Chosen(t, I)) /\ Picked(s, I) = FlattenSeq(Chosen(s, I))
    BY DEF Picked, Chosen
  <2>2. Chosen(s, I) \in Seq(Seq(D))
    BY ChosenFacts
  <2>3. FlattenSeq(Append(Chosen(s, I), x)) = FlattenSeq(Chosen(s, I)) \o x
    BY <1>2, <2>2, FlattenAppend
  <2>. QED BY <1>4, <2>1, <2>3
<1>6. Picked(s, I) \in Seq(D)
  BY ChosenFacts
<1>7. Picked(s, I) \o <<>> = Picked(s, I) /\ Append(Picked(s, I), e) = Picked(s, I) \o <<e>>
  BY <1>6, ConcatEmptySeq, AppendIsConcat
<1>. QED BY <1>5, <1>7 DEF t, x

LEMMA PickedEntries ==
  ASSUME NEW D, NEW s \in Seq(D), NEW I
  PROVE  Range(Picked(s, I)) = {s[i] : i \in {j \in 1..Len(s) : j \in I}}
<1>1. \A x : x \in Range(Picked(s, I)) <=> \E i \in 1..Len(s) : x \in Range(Chosen(s, I)[i])
  BY ChosenFacts, FlattenEntries
<1>2. \A i \in 1..Len(s) : Range(Chosen(s, I)[i]) = IF i \in I THEN {s[i]} ELSE {}
  <2>1. \A y : Range(<<y>>) = {y} /\ Range(<<>>) = {}
    BY DEF Range
  <2>2. \A i \in 1..Len(s) : Chosen(s, I)[i] = IF i \in I THEN <<s[i]>> ELSE <<>>
    BY ChosenFacts
  <2>. QED BY <2>1, <2>2
<1>3. \A x : x \in Range(Picked(s, I)) <=> \E i \in 1..Len(s) : i \in I /\ x = s[i]
  BY <1>1, <1>2
<1>. QED BY <1>3

LEMMA OnlyFacts ==
  ASSUME NEW D, NEW s \in Seq(D), NEW S
  PROVE  /\ Only(s, S) \in Seq(D)
         /\ Range(Only(s, S)) = Range(s) \cap S
<1>1. DOMAIN s = 1..Len(s) /\ Range(s) = {s[i] : i \in 1..Len(s)}
  BY LenProperties DEF Range
<1>2. Range(Picked(s, {i \in DOMAIN s : s[i] \in S})) =
        {s[i] : i \in {j \in 1..Len(s) : j \in {i \in DOMAIN s : s[i] \in S}}}
  BY PickedEntries
<1>3. Picked(s, {i \in DOMAIN s : s[i] \in S}) \in Seq(D)
  BY ChosenFacts
<1>. QED BY <1>1, <1>2, <1>3 DEF Only

LEMMA OnlyEmpty ==
  ASSUME NEW S
  PROVE  Only(<<>>, S) = <<>>
BY PickedEmpty DEF Only

LEMMA OnlyAppend ==
  ASSUME NEW D, NEW s \in Seq(D), NEW e \in D, NEW S
  PROVE  Only(Append(s, e), S) = IF e \in S THEN Append(Only(s, S), e) ELSE Only(s, S)
<1>. DEFINE n == Len(s)
            t == Append(s, e)
            I == {i \in DOMAIN t : t[i] \in S}
            J == {i \in DOMAIN s : s[i] \in S}
<1>1. n \in Nat /\ t \in Seq(D) /\ DOMAIN t = 1..(n + 1) /\ t[n + 1] = e /\ DOMAIN s = 1..n
      /\ \A i \in 1..n : t[i] = s[i] /\ i \in 1..(n + 1)
  BY AppendProperties, LenProperties
<1>2. Picked(t, I) = IF n + 1 \in I THEN Append(Picked(s, I), e) ELSE Picked(s, I)
  BY PickedAppend
<1>3. Picked(s, I) = Picked(s, J)
  <2>1. \A i \in 1..n : i \in I <=> i \in J
    BY <1>1
  <2>. HIDE DEF I, J
  <2>. QED BY <2>1, PickedSame
<1>4. n + 1 \in I <=> e \in S
  BY <1>1
<1>. HIDE DEF I, J
<1>5. Only(t, S) = Picked(t, I) /\ Only(s, S) = Picked(s, J)
  BY DEF Only, I, J
<1>. QED BY <1>2, <1>3, <1>4, <1>5

LEMMA OnlyConcat ==
  ASSUME NEW D, NEW s \in Seq(D), NEW t \in Seq(D), NEW S
  PROVE  Only(s \o t, S) = Only(s, S) \o Only(t, S)
<1>. DEFINE T == {u \in Seq(D) : Only(s \o u, S) = Only(s, S) \o Only(u, S)}
<1>1. Only(s, S) \in Seq(D)
  BY OnlyFacts
<1>2. <<>> \in T
  BY <1>1, OnlyEmpty, ConcatEmptySeq, EmptySeq
<1>3. ASSUME NEW u \in Seq(D), NEW e \in D, u \in T PROVE Append(u, e) \in T
  <2>1. \A a, b \in Seq(D), x \in D : a \o Append(b, x) = Append(a \o b, x)
    <3>. SUFFICES ASSUME NEW a \in Seq(D), NEW b \in Seq(D), NEW x \in D
                  PROVE  a \o Append(b, x) = Append(a \o b, x)
      OBVIOUS
    <3>1. Append(b, x) = b \o <<x>> /\ <<x>> \in Seq(D)
      BY AppendIsConcat
    <3>2. a \o b \in Seq(D) /\ Append(a \o b, x) = (a \o b) \o <<x>>
      BY ConcatProperties, AppendIsConcat
    <3>. QED BY <3>1, <3>2, ConcatAssociative
  <2>2. s \o u \in Seq(D) /\ Append(u, e) \in Seq(D) /\ Only(u, S) \in Seq(D)
    BY ConcatProperties, AppendProperties, OnlyFacts
  <2>3. Only(s \o Append(u, e), S) = IF e \in S THEN Append(Only(s \o u, S), e) ELSE Only(s \o u, S)
    <3>1. s \o Append(u, e) = Append(s \o u, e)
      BY <2>1
    <3>2. Only(Append(s \o u, e), S) = IF e \in S THEN Append(Only(s \o u, S), e) ELSE Only(s \o u, S)
      BY <2>2, OnlyAppend
    <3>. QED BY <3>1, <3>2
  <2>4. Only(Append(u, e), S) = IF e \in S THEN Append(Only(u, S), e) ELSE Only(u, S)
    BY OnlyAppend
  <2>5. Only(s \o u, S) = Only(s, S) \o Only(u, S)
    BY <1>3
  <2>6. Only(s, S) \o Append(Only(u, S), e) = Append(Only(s, S) \o Only(u, S), e)
    BY <1>1, <2>1, <2>2
  <2>7. Only(s \o Append(u, e), S) = Only(s, S) \o Only(Append(u, e), S)
    BY <2>3, <2>4, <2>5, <2>6
  <2>. QED BY <2>2, <2>7
<1>4. Seq(D) \subseteq T
  <2>. HIDE DEF T
  <2>. QED BY <1>2, <1>3, SequenceInduction
<1>. QED BY <1>4

\* The entries of a sequence with one more.
LEMMA AppendRange ==
  ASSUME NEW D, NEW s \in Seq(D), NEW e \in D
  PROVE  Range(Append(s, e)) = Range(s) \cup {e}
<1>1. Append(s, e) = s \o <<e>> /\ <<e>> \in Seq(D)
  BY AppendIsConcat
<1>2. Range(<<e>>) = {e}
  BY DEF Range
<1>3. Range(s \o <<e>>) = Range(s) \cup Range(<<e>>)
  BY <1>1, RangeConcatenation
<1>. QED BY <1>1, <1>2, <1>3

\* All of it, or nothing.
LEMMA OnlyAll ==
  ASSUME NEW D, NEW S
  PROVE  \A s \in Seq(D) : Range(s) \subseteq S => Only(s, S) = s
<1>. DEFINE T == {s \in Seq(D) : Range(s) \subseteq S => Only(s, S) = s}
<1>1. <<>> \in T
  BY OnlyEmpty, EmptySeq
<1>2. ASSUME NEW s \in Seq(D), NEW e \in D, s \in T PROVE Append(s, e) \in T
  <2>1. Append(s, e) \in Seq(D)
    BY AppendProperties
  <2>2. Only(Append(s, e), S) = IF e \in S THEN Append(Only(s, S), e) ELSE Only(s, S)
    BY OnlyAppend
  <2>. QED BY <1>2, <2>1, <2>2, AppendRange
<1>3. Seq(D) \subseteq T
  <2>. HIDE DEF T
  <2>. QED BY <1>1, <1>2, SequenceInduction
<1>. QED BY <1>3

LEMMA OnlyNone ==
  ASSUME NEW D, NEW S
  PROVE  \A s \in Seq(D) : Range(s) \cap S = {} => Only(s, S) = <<>>
<1>. DEFINE T == {s \in Seq(D) : Range(s) \cap S = {} => Only(s, S) = <<>>}
<1>1. <<>> \in T
  BY OnlyEmpty, EmptySeq
<1>2. ASSUME NEW s \in Seq(D), NEW e \in D, s \in T PROVE Append(s, e) \in T
  <2>1. Append(s, e) \in Seq(D)
    BY AppendProperties
  <2>2. Only(Append(s, e), S) = IF e \in S THEN Append(Only(s, S), e) ELSE Only(s, S)
    BY OnlyAppend
  <2>. QED BY <1>2, <2>1, <2>2, AppendRange
<1>3. Seq(D) \subseteq T
  <2>. HIDE DEF T
  <2>. QED BY <1>1, <1>2, SequenceInduction
<1>. QED BY <1>3

\* A selection of a selection.
LEMMA OnlyPicked ==
  ASSUME NEW D, NEW I, NEW S
  PROVE  \A s \in Seq(D) : Only(Picked(s, I), S) = Picked(s, {i \in DOMAIN s : i \in I /\ s[i] \in S})
<1>. DEFINE J(s) == {i \in DOMAIN s : i \in I /\ s[i] \in S}
            T == {s \in Seq(D) : Only(Picked(s, I), S) = Picked(s, J(s))}
<1>1. <<>> \in T
  BY PickedEmpty, OnlyEmpty, EmptySeq
<1>2. ASSUME NEW s \in Seq(D), NEW e \in D, s \in T PROVE Append(s, e) \in T
  <2>. DEFINE n == Len(s)
              t == Append(s, e)
  <2>1. n \in Nat /\ t \in Seq(D) /\ DOMAIN t = 1..(n + 1) /\ t[n + 1] = e /\ DOMAIN s = 1..n
        /\ \A i \in 1..n : t[i] = s[i] /\ i \in 1..(n + 1)
    BY AppendProperties, LenProperties
  <2>2. Picked(t, I) = IF n + 1 \in I THEN Append(Picked(s, I), e) ELSE Picked(s, I)
    BY PickedAppend
  <2>3. \A K : Picked(t, K) = IF n + 1 \in K THEN Append(Picked(s, K), e) ELSE Picked(s, K)
    BY PickedAppend
  <2>4. Picked(s, J(t)) = Picked(s, J(s))
    <3>1. \A i \in 1..n : i \in J(t) <=> i \in J(s)
      BY <2>1
    <3>. HIDE DEF J
    <3>. QED BY <3>1, PickedSame
  <2>5. n + 1 \in J(t) <=> n + 1 \in I /\ e \in S
    BY <2>1
  <2>6. Only(Picked(s, I), S) = Picked(s, J(s))
    BY <1>2
  <2>7. Only(Append(Picked(s, I), e), S) =
          IF e \in S THEN Append(Only(Picked(s, I), S), e) ELSE Only(Picked(s, I), S)
    BY ChosenFacts, OnlyAppend
  <2>. HIDE DEF J, t
  <2>8. Only(Picked(t, I), S) = Picked(t, J(t))
    BY <2>2, <2>3, <2>4, <2>5, <2>6, <2>7
  <2>. QED BY <2>1, <2>8 DEF t
<1>3. Seq(D) \subseteq T
  <2>. HIDE DEF T
  <2>. QED BY <1>1, <1>2, SequenceInduction
<1>. QED BY <1>3

\* A sequence that begins with an entry.
LEMMA ConsHead ==
  ASSUME NEW S, NEW e \in S, NEW s \in Seq(S)
  PROVE  <<e>> \o s # <<>> /\ Head(<<e>> \o s) = e /\ Tail(<<e>> \o s) = s
<1>. DEFINE r == <<e>> \o s
<1>1. <<e>> \in Seq(S) /\ Len(<<e>>) = 1 /\ <<e>>[1] = e
  OBVIOUS
<1>2. /\ r \in Seq(S) /\ Len(r) = 1 + Len(s)
      /\ \A i \in 1..Len(r) : r[i] = IF i <= 1 THEN <<e>>[i] ELSE s[i - 1]
  BY <1>1, ConcatProperties
<1>. HIDE DEF r
<1>3. r # <<>> /\ Head(r) = e
  BY <1>1, <1>2
<1>4. Tail(r) \in Seq(S) /\ Len(Tail(r)) = Len(s) /\ \A i \in 1..Len(s) : Tail(r)[i] = r[i + 1]
  BY <1>2, <1>3, HeadTailProperties
<1>5. \A i \in 1..Len(s) : Tail(r)[i] = s[i]
  <2>. SUFFICES ASSUME NEW i \in 1..Len(s) PROVE r[i + 1] = s[i]
    BY <1>4
  <2>1. i + 1 \in 1..Len(r) /\ ~(i + 1 <= 1) /\ (i + 1) - 1 = i
    BY <1>2
  <2>. QED BY <1>2, <2>1
<1>6. Tail(r) = s
  BY <1>4, <1>5, SeqEqual
<1>. QED BY <1>3, <1>6 DEF r

\* Concatenation is a monoid.
LEMMA ConcatFacts ==
  ASSUME NEW S, NEW a \in Seq(S), NEW b \in Seq(S), NEW c \in Seq(S)
  PROVE  /\ a \o b \in Seq(S) /\ (a \o b) \o c = a \o (b \o c)
         /\ <<>> \o a = a /\ a \o <<>> = a
  BY ConcatProperties, ConcatAssociative, ConcatEmptySeq

\* Removing an entry of a sequence without repetitions.
LEMMA RemoveFacts ==
  ASSUME NEW S, NEW s \in Seq(S), NEW p \in 1..Len(s), IsInjective(s)
  PROVE  /\ RemoveAt(s, p) \in Seq(S)
         /\ IsInjective(RemoveAt(s, p))
         /\ Range(RemoveAt(s, p)) = Range(s) \ {s[p]}
<1>. DEFINE front == SubSeq(s, 1, p - 1)
            back  == SubSeq(s, p + 1, Len(s))
            r     == RemoveAt(s, p)
<1>1. Len(s) \in Nat /\ \A i, j \in 1..Len(s) : s[i] = s[j] => i = j
  BY SeqFacts
<1>2. /\ front \in Seq(S) /\ Len(front) = p - 1
      /\ \A i \in 1..(p - 1) : front[i] = s[i]
  BY <1>1, SubSeqProperties
<1>3. /\ back \in Seq(S) /\ Len(back) = Len(s) - p
      /\ \A i \in 1..(Len(s) - p) : back[i] = s[p + i]
  <2>1. back \in Seq(S) /\ Len(back) = Len(s) - p /\ \A i \in 1..(Len(s) - p) : back[i] = s[(p + 1) + i - 1]
    BY <1>1, SubSeqProperties
  <2>2. \A i \in 1..(Len(s) - p) : (p + 1) + i - 1 = p + i
    BY <1>1
  <2>. QED BY <2>1, <2>2
<1>4. r = front \o back
  BY DEF RemoveAt
<1>. HIDE DEF front, back, r
<1>5. /\ r \in Seq(S) /\ Len(r) = Len(s) - 1
      /\ \A i \in 1..(Len(s) - 1) : r[i] = IF i < p THEN s[i] ELSE s[i + 1]
  <2>1. r \in Seq(S) /\ Len(r) = (p - 1) + (Len(s) - p)
    <3>1. r \in Seq(S) /\ Len(r) = Len(front) + Len(back)
      BY <1>2, <1>3, <1>4, ConcatProperties
    <3>. QED BY <1>2, <1>3, <3>1
  <2>2. \A i \in 1..((p - 1) + (Len(s) - p)) : r[i] = IF i <= p - 1 THEN front[i] ELSE back[i - (p - 1)]
    <3>1. \A i \in 1..(Len(front) + Len(back)) :
            r[i] = IF i <= Len(front) THEN front[i] ELSE back[i - Len(front)]
      BY <1>2, <1>3, <1>4, ConcatProperties
    <3>. QED BY <1>2, <1>3, <3>1
  <2>3. (p - 1) + (Len(s) - p) = Len(s) - 1
    BY <1>1
  <2>4. ASSUME NEW i \in 1..(Len(s) - 1) PROVE r[i] = IF i < p THEN s[i] ELSE s[i + 1]
    <3>1. CASE i < p
      BY <1>1, <1>2, <2>2, <2>3, <3>1
    <3>2. CASE ~(i < p)
      <4>1. i - (p - 1) \in 1..(Len(s) - p) /\ p + (i - (p - 1)) = i + 1 /\ ~(i <= p - 1)
        BY <1>1, <3>2
      <4>. QED BY <1>3, <2>2, <2>3, <3>2, <4>1
    <3>. QED BY <3>1, <3>2
  <2>. QED BY <2>1, <2>3, <2>4
<1>6. IsInjective(r)
  <2>. SUFFICES ASSUME NEW i \in 1..Len(r), NEW j \in 1..Len(r), r[i] = r[j] PROVE i = j
    BY <1>5, SeqFacts
  <2>1. i \in 1..Len(s) /\ j \in 1..Len(s) /\ i + 1 \in 1..Len(s) /\ j + 1 \in 1..Len(s)
    BY <1>1, <1>5
  <2>. QED BY <1>1, <1>5, <2>1
<1>7. Range(r) = {r[i] : i \in 1..(Len(s) - 1)} /\ Range(s) = {s[i] : i \in 1..Len(s)}
  BY <1>5, SeqFacts
<1>8. ASSUME NEW i \in 1..(Len(s) - 1) PROVE r[i] \in Range(s) \ {s[p]}
  <2>1. CASE i < p
    <3>1. i \in 1..Len(s) /\ i # p /\ r[i] = s[i]
      BY <1>1, <1>5, <2>1
    <3>. QED BY <1>1, <1>7, <3>1
  <2>2. CASE ~(i < p)
    <3>1. i + 1 \in 1..Len(s) /\ i + 1 # p /\ r[i] = s[i + 1]
      BY <1>1, <1>5, <2>2
    <3>. QED BY <1>1, <1>7, <3>1
  <2>. QED BY <2>1, <2>2
<1>9. ASSUME NEW i \in 1..Len(s), s[i] # s[p] PROVE s[i] \in Range(r)
  <2>1. CASE i < p
    <3>1. i \in 1..(Len(s) - 1) /\ r[i] = s[i]
      BY <1>1, <1>5, <2>1
    <3>. QED BY <1>7, <3>1
  <2>2. CASE i > p
    <3>1. i - 1 \in 1..(Len(s) - 1) /\ r[i - 1] = s[(i - 1) + 1] /\ (i - 1) + 1 = i
      BY <1>1, <1>5, <2>2
    <3>. QED BY <1>7, <3>1
  <2>. QED BY <1>9, <2>1, <2>2
<1>10. Range(r) \subseteq Range(s) \ {s[p]} /\ Range(s) \ {s[p]} \subseteq Range(r)
  BY <1>7, <1>8, <1>9
<1>11. Range(r) = Range(s) \ {s[p]}
  BY <1>10
<1>. QED BY <1>5, <1>6, <1>11 DEF r

=============================================================================
