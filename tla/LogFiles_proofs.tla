--------------------------- MODULE LogFiles_proofs ---------------------------
(***************************************************************************)
(* Logging to flash, for any number of logging tasks and files, any sizes, *)
(* and whatever times out, fails or is reset.                              *)
(*                                                                         *)
(* The mutexes.  A session keeps the filesystem's mutex between its calls  *)
(* and takes logSysMutex in each of them; a logger that rotates takes the  *)
(* two in the opposite order.  What keeps them apart is the flag reading:  *)
(* it is set under logSysMutex, when no logger can be in the middle of a   *)
(* rotation, and no rotation begins while it is set.  The invariant says   *)
(* which place of which task holds which mutex, and that a session's       *)
(* places imply the flag; the converse holds until an error leaves a       *)
(* session without end.                                                    *)
(*                                                                         *)
(* The files.  What a file will hold is what it holds, what is on its way  *)
(* to it through the write cache, and what loggers have reserved without   *)
(* having enqueued it.  That is what log_file_current_size bounds, and     *)
(* what is in order from file to file; a file by itself obeys neither for  *)
(* a reason of its own.  A flush that fails may write what it does not     *)
(* flag, and zeroing does not stop what is underway from an earlier turn:  *)
(* such a file is kept apart until it is zeroed with nothing underway.  An *)
(* empty file was either left when nothing of it was in flash, or it has   *)
(* never been the current one, and neither has any before it.              *)
(*                                                                         *)
(* The session.  At each of its places the log is a part that is still to  *)
(* be read, ending at the position, followed by what has been sent; what   *)
(* is promised is the lesser of what is asked for and of what the files    *)
(* that are still to be read held when the session began.                  *)
(***************************************************************************)
EXTENDS LogFiles, SequenceLemmas, FiniteSetTheorems

----------------------------------------------------------------------------
\* Sums over the loggers and over the files, and the ring of the files.

\* What Total counts.
Cells(c) == UNION {{x} \X (1..c[x]) : x \in DOMAIN c}

\* A sum after one of its terms has changed.
LEMMA TotalExcept ==
  ASSUME NEW D, NEW c \in [D -> Nat], NEW x \in D, NEW m \in Nat, IsFiniteSet(Cells(c))
  PROVE  /\ IsFiniteSet(Cells([c EXCEPT ![x] = m]))
         /\ Total([c EXCEPT ![x] = m]) = Total(c) - c[x] + m
         /\ Total(c) \in Nat /\ c[x] <= Total(c)
<1>. DEFINE A == {x} \X (1..c[x])
            B == {x} \X (1..m)
            R == Cells(c) \ A
            d == [c EXCEPT ![x] = m]
<1>1. \A n \in Nat : IsFiniteSet({x} \X (1..n)) /\ Cardinality({x} \X (1..n)) = n
  <2>. SUFFICES ASSUME NEW n \in Nat PROVE IsFiniteSet({x} \X (1..n)) /\ Cardinality({x} \X (1..n)) = n
    OBVIOUS
  <2>1. IsFiniteSet({x}) /\ Cardinality({x}) = 1
    BY FS_Singleton
  <2>2. IsFiniteSet(1..n) /\ Cardinality(1..n) = n
    BY FS_Interval
  <2>3. IsFiniteSet({x} \X (1..n)) /\ Cardinality({x} \X (1..n)) = 1 * Cardinality(1..n)
    BY <2>1, <2>2, FS_Product
  <2>. QED BY <2>2, <2>3
<1>2. IsFiniteSet(A) /\ Cardinality(A) = c[x] /\ IsFiniteSet(B) /\ Cardinality(B) = m /\ c[x] \in Nat
  BY <1>1
<1>3. Cells(c) = R \cup A /\ R \cap A = {}
  BY DEF Cells
<1>4. Cells(d) = R \cup B /\ R \cap B = {}
  <2>1. DOMAIN d = D /\ d[x] = m /\ \A y \in D : y # x => d[y] = c[y]
    OBVIOUS
  <2>2. \A p : p \in Cells(d) <=> \E y \in D : p \in {y} \X (1..d[y])
    BY <2>1 DEF Cells
  <2>3. \A p : p \in R <=> \E y \in D : y # x /\ p \in {y} \X (1..c[y])
    BY DEF Cells
  <2>. HIDE DEF R, d
  <2>4. Cells(d) = R \cup B
    BY <2>1, <2>2, <2>3
  <2>5. R \cap B = {}
    BY <2>3
  <2>. QED BY <2>4, <2>5
<1>5. IsFiniteSet(R) /\ Cardinality(R) \in Nat
  BY FS_Subset, FS_CardinalityType
<1>. HIDE DEF A, B, R, d
<1>6. Cardinality(Cells(c)) = Cardinality(R) + c[x]
  <2>1. Cardinality(R \cup A) = Cardinality(R) + Cardinality(A) - Cardinality(R \cap A)
    <3>1. IsFiniteSet(R) /\ IsFiniteSet(A)
      BY <1>2, <1>5
    <3>. QED BY <3>1, FS_Union
  <2>2. Cardinality(R \cap A) = 0
    BY <1>3, FS_EmptySet
  <2>. QED BY <1>2, <1>3, <1>5, <2>1, <2>2
<1>7. IsFiniteSet(Cells(d)) /\ Cardinality(Cells(d)) = Cardinality(R) + m
  <2>1. IsFiniteSet(R) /\ IsFiniteSet(B)
    BY <1>2, <1>5
  <2>2. IsFiniteSet(R \cup B) /\ Cardinality(R \cup B) = Cardinality(R) + Cardinality(B) - Cardinality(R \cap B)
    BY <2>1, FS_Union
  <2>3. Cardinality(R \cap B) = 0
    BY <1>4, FS_EmptySet
  <2>. QED BY <1>2, <1>4, <1>5, <2>2, <2>3
<1>8. Total(c) = Cardinality(Cells(c)) /\ Total(d) = Cardinality(Cells(d))
  BY DEF Total, Cells
<1>. QED BY <1>2, <1>5, <1>6, <1>7, <1>8 DEF d

\* A sum of nothing.
LEMMA TotalNone ==
  ASSUME NEW c, \A x \in DOMAIN c : c[x] = 0
  PROVE  Cells(c) = {} /\ IsFiniteSet(Cells(c)) /\ Total(c) = 0
<1>1. Cells(c) = {}
  BY DEF Cells
<1>. QED BY <1>1, FS_EmptySet DEF Total, Cells

\* A sum over the files.
LEMMA TotalFiles ==
  ASSUME NEW c \in [Files -> Nat]
  PROVE  IsFiniteSet(Cells(c)) /\ Total(c) \in Nat
<1>1. IsFiniteSet(Files)
  BY FS_Interval, LogFilesAssumption DEF Files
<1>2. \A f \in Files : IsFiniteSet({f} \X (1..c[f]))
  <2>. SUFFICES ASSUME NEW f \in Files PROVE IsFiniteSet({f} \X (1..c[f]))
    OBVIOUS
  <2>1. IsFiniteSet({f}) /\ c[f] \in Int /\ 1 \in Int
    <3>1. IsFiniteSet({f})
      BY FS_Singleton
    <3>2. c[f] \in Nat
      OBVIOUS
    <3>. QED BY <3>1, <3>2
  <2>2. IsFiniteSet(1..c[f])
    BY <2>1, FS_Interval
  <2>. QED BY <2>1, <2>2, FS_Product
<1>3. IsFiniteSet({{f} \X (1..c[f]) : f \in Files})
  <2>. DEFINE T == {{f} \X (1..c[f]) : f \in Files}
              g == [f \in Files |-> {f} \X (1..c[f])]
  <2>1. g \in Surjection(Files, T)
    BY DEF Surjection
  <2>. QED BY <1>1, <2>1, FS_Surjection
<1>4. IsFiniteSet(Cells(c))
  BY <1>2, <1>3, FS_UNION DEF Cells
<1>. QED BY <1>4, FS_CardinalityType DEF Total, Cells

\* A remainder within two periods.
LEMMA QuotientBelowTwo ==
  ASSUME NEW n \in Nat, n > 0, NEW q \in Int, NEW r \in 0..(n - 1), n * q + r \in 0..(2 * n - 1)
  PROVE  q \in {0, 1}
<1>1. CASE q < 0
  <2>1. n * q <= n * (-1)
    BY <1>1
  <2>. QED BY <2>1
<1>2. CASE q > 1
  <2>1. n * q >= n * 2
    BY <1>2
  <2>. QED BY <2>1
<1>. QED BY <1>1, <1>2

\* One subtraction is enough below twice the divisor.
LEMMA Remainder ==
  ASSUME NEW n \in Nat, n > 0, NEW x \in 0..(2 * n - 1)
  PROVE  x % n = IF x < n THEN x ELSE x - n
<1>1. x % n \in 0..(n - 1) /\ x \div n \in Int /\ x = n * (x \div n) + (x % n)
  OBVIOUS
<1>2. x \div n \in {0, 1}
  BY <1>1, QuotientBelowTwo
<1>3. CASE x \div n = 0
  BY <1>1, <1>3
<1>4. CASE x \div n = 1
  BY <1>1, <1>4
<1>. QED BY <1>2, <1>3, <1>4

\* The files in the order of the ring.
LEMMA RingFacts ==
  ASSUME current \in Files
  PROVE  /\ \A i \in 1..NumFiles : Ring[i] \in Files
         /\ Ring[NumFiles] = current
         /\ \A i, j \in 1..NumFiles : Ring[i] = Ring[j] => i = j
         /\ \A f \in Files : \E i \in 1..NumFiles : f = Ring[i]
         /\ \A i \in 2..NumFiles : Previous(Ring[i]) = Ring[i - 1]
         /\ Ring[1] = Following(current)
<1>1. NumFiles \in Nat /\ NumFiles > 0 /\ current \in 0..(NumFiles - 1)
  BY LogFilesAssumption DEF Files
<1>2. \A i \in 1..NumFiles : Ring[i] = IF current + i < NumFiles THEN current + i ELSE current + i - NumFiles
  <2>. SUFFICES ASSUME NEW i \in 1..NumFiles
                PROVE  (current + i) % NumFiles = IF current + i < NumFiles THEN current + i ELSE current + i - NumFiles
    BY DEF Ring
  <2>1. current + i \in 0..(2 * NumFiles - 1)
    BY <1>1
  <2>. QED BY <1>1, <2>1, Remainder
<1>3. \A f \in Files : \E i \in 1..NumFiles : f = Ring[i]
  <2>. SUFFICES ASSUME NEW f \in 0..(NumFiles - 1) PROVE \E i \in 1..NumFiles : f = Ring[i]
    BY DEF Files
  <2>1. CASE f > current
    BY <1>1, <1>2, <2>1
  <2>2. CASE ~(f > current)
    <3>1. f - current + NumFiles \in 1..NumFiles
      BY <1>1, <2>2
    <3>. QED BY <1>1, <1>2, <2>2, <3>1
  <2>. QED BY <2>1, <2>2
<1>4. \A i \in 1..NumFiles : Ring[i] \in Files
  BY <1>1, <1>2 DEF Files
<1>5. Ring[NumFiles] = current
  BY <1>1, <1>2
<1>6. \A i, j \in 1..NumFiles : Ring[i] = Ring[j] => i = j
  BY <1>1, <1>2
<1>7. \A i \in 2..NumFiles : Previous(Ring[i]) = Ring[i - 1]
  <2>. SUFFICES ASSUME NEW i \in 2..NumFiles PROVE Previous(Ring[i]) = Ring[i - 1]
    OBVIOUS
  <2>1. i \in 1..NumFiles /\ i - 1 \in 1..NumFiles
    BY <1>1
  <2>. QED BY <1>1, <1>2, <2>1 DEF Previous
<1>8. Ring[1] = Following(current)
  BY <1>1, <1>2 DEF Following
<1>. QED BY <1>3, <1>4, <1>5, <1>6, <1>7, <1>8

\* The ring after the next file has become the current one.
LEMMA RingAdvances ==
  ASSUME current \in Files, current' = Following(current)
  PROVE  /\ current' \in Files
         /\ \A i \in 1..(NumFiles - 1) : Ring'[i] = Ring[i + 1]
         /\ Ring'[NumFiles] = Ring[1]
<1>1. NumFiles \in Nat /\ NumFiles > 0 /\ current \in 0..(NumFiles - 1)
  BY LogFilesAssumption DEF Files
<1>2. current' \in 0..(NumFiles - 1) /\ current' = IF current = NumFiles - 1 THEN 0 ELSE current + 1
  BY <1>1 DEF Following
<1>3. \A c \in 0..(NumFiles - 1), i \in 1..NumFiles :
        (c + i) % NumFiles = IF c + i < NumFiles THEN c + i ELSE c + i - NumFiles
  <2>. SUFFICES ASSUME NEW c \in 0..(NumFiles - 1), NEW i \in 1..NumFiles
                PROVE  (c + i) % NumFiles = IF c + i < NumFiles THEN c + i ELSE c + i - NumFiles
    OBVIOUS
  <2>1. c + i \in 0..(2 * NumFiles - 1)
    BY <1>1
  <2>. QED BY <1>1, <2>1, Remainder
<1>4. \A i \in 1..NumFiles : Ring[i] = (current + i) % NumFiles /\ Ring'[i] = (current' + i) % NumFiles
  BY DEF Ring
<1>5. ASSUME NEW i \in 1..(NumFiles - 1) PROVE Ring'[i] = Ring[i + 1]
  <2>1. i \in 1..NumFiles /\ i + 1 \in 1..NumFiles
    BY <1>1
  <2>2. Ring'[i] = IF current' + i < NumFiles THEN current' + i ELSE current' + i - NumFiles
    BY <1>2, <1>3, <1>4, <2>1
  <2>3. Ring[i + 1] = IF current + (i + 1) < NumFiles THEN current + (i + 1) ELSE current + (i + 1) - NumFiles
    BY <1>1, <1>3, <1>4, <2>1
  <2>. QED BY <1>1, <1>2, <2>2, <2>3
<1>6. Ring'[NumFiles] = current' /\ Ring[1] = current'
  <2>1. NumFiles \in 1..NumFiles /\ 1 \in 1..NumFiles
    BY <1>1
  <2>2. Ring'[NumFiles] = IF current' + NumFiles < NumFiles THEN current' + NumFiles ELSE current' + NumFiles - NumFiles
    BY <1>2, <1>3, <1>4, <2>1
  <2>3. Ring[1] = IF current + 1 < NumFiles THEN current + 1 ELSE current + 1 - NumFiles
    BY <1>1, <1>3, <1>4, <2>1
  <2>. QED BY <1>1, <1>2, <2>2, <2>3
<1>. QED BY <1>2, <1>5, <1>6 DEF Files

----------------------------------------------------------------------------
\* Units of records.

Ids == 1..MaxLogs

\* A sequence ends with what has been put at its end.
LEMMA SuffixOfConcat ==
  ASSUME NEW S, NEW u \in Seq(S), NEW g \in Seq(S)
  PROVE  IsSuffix(g, u \o g)
<1>. DEFINE w == u \o g
            x == Reverse(g)
            y == Reverse(w)
<1>1. Len(u) \in Nat /\ Len(g) \in Nat
  OBVIOUS
<1>2. w \in Seq(S) /\ Len(w) = Len(u) + Len(g) /\ \A i \in 1..Len(g) : w[Len(u) + i] = g[i]
  OBVIOUS
<1>3. Len(x) = Len(g) /\ DOMAIN x = 1..Len(g) /\ \A i \in 1..Len(g) : x[i] = g[Len(g) - i + 1]
  BY <1>1 DEF Reverse
<1>. HIDE DEF w
<1>4. Len(y) = Len(w) /\ DOMAIN y = 1..Len(w) /\ \A i \in 1..Len(w) : y[i] = w[Len(w) - i + 1]
  BY <1>1, <1>2 DEF Reverse
<1>5. ASSUME NEW i \in 1..Len(g) PROVE x[i] = y[i]
  <2>1. i \in 1..Len(w) /\ Len(w) - i + 1 = Len(u) + (Len(g) - i + 1) /\ Len(g) - i + 1 \in 1..Len(g)
    BY <1>1, <1>2
  <2>. QED BY <1>2, <1>3, <1>4, <2>1
<1>6. x \in Seq(S) /\ y \in Seq(S)
  <2>1. \A i \in 1..Len(g) : g[Len(g) - i + 1] \in S
    BY <1>1
  <2>2. \A i \in 1..Len(w) : w[Len(w) - i + 1] \in S
    BY <1>1, <1>2
  <2>. QED BY <1>1, <1>2, <2>1, <2>2 DEF Reverse
<1>. HIDE DEF x, y
<1>7. SubSeq(x, 1, Len(x)) = SubSeq(y, 1, Len(x))
  <2>1. SubSeq(x, 1, Len(x)) = [i \in 1..Len(g) |-> x[i]]
    BY <1>1, <1>3, <1>6
  <2>2. SubSeq(y, 1, Len(x)) = [i \in 1..Len(g) |-> y[i]]
    BY <1>1, <1>2, <1>3, <1>4, <1>6
  <2>. QED BY <1>5, <2>1, <2>2
<1>8. Len(x) <= Len(y)
  BY <1>1, <1>2, <1>3, <1>4
<1>. QED BY <1>7, <1>8 DEF IsSuffix, IsPrefix, x, y, w

\* A sequence in two parts.
LEMMA SplitAt ==
  ASSUME NEW S, NEW s \in Seq(S), NEW p \in 0..Len(s), NEW n \in 0..p
  PROVE  /\ SubSeq(s, 1, p) \in Seq(S) /\ SubSeq(s, p - n + 1, p) \in Seq(S)
         /\ SubSeq(s, 1, p) = SubSeq(s, 1, p - n) \o SubSeq(s, p - n + 1, p)
         /\ SubSeq(s, 1, Len(s)) = s /\ SubSeq(s, 1, 0) = <<>>
<1>. DEFINE a == SubSeq(s, 1, p - n)
            b == SubSeq(s, p - n + 1, p)
            c == SubSeq(s, 1, p)
<1>1. Len(s) \in Nat /\ p \in Nat /\ n \in Nat /\ p - n \in 0..Len(s)
  OBVIOUS
<1>2. a \in Seq(S) /\ Len(a) = p - n /\ \A i \in 1..(p - n) : a[i] = s[i]
  BY <1>1, SubSeqProperties
<1>3. b \in Seq(S) /\ Len(b) = n /\ \A i \in 1..n : b[i] = s[p - n + i]
  <2>1. b \in Seq(S) /\ Len(b) = n /\ \A i \in 1..n : b[i] = s[(p - n + 1) + i - 1]
    BY <1>1, SubSeqProperties
  <2>2. \A i \in 1..n : (p - n + 1) + i - 1 = p - n + i
    BY <1>1
  <2>. QED BY <2>1, <2>2
<1>4. c \in Seq(S) /\ Len(c) = p /\ \A i \in 1..p : c[i] = s[i]
  BY <1>1, SubSeqProperties
<1>. HIDE DEF a, b, c
<1>5. /\ a \o b \in Seq(S) /\ Len(a \o b) = p
      /\ \A i \in 1..p : (a \o b)[i] = IF i <= p - n THEN a[i] ELSE b[i - (p - n)]
  <2>1. a \o b \in Seq(S) /\ Len(a \o b) = Len(a) + Len(b)
    BY <1>2, <1>3, ConcatProperties
  <2>2. \A i \in 1..(Len(a) + Len(b)) : (a \o b)[i] = IF i <= Len(a) THEN a[i] ELSE b[i - Len(a)]
    BY <1>2, <1>3, ConcatProperties
  <2>. QED BY <1>1, <1>2, <1>3, <2>1, <2>2
<1>6. ASSUME NEW i \in 1..p PROVE c[i] = (a \o b)[i]
  <2>1. CASE i <= p - n
    <3>1. i \in 1..(p - n)
      BY <1>1, <2>1
    <3>. QED BY <1>2, <1>4, <1>5, <2>1, <3>1
  <2>2. CASE ~(i <= p - n)
    <3>1. i - (p - n) \in 1..n /\ p - n + (i - (p - n)) = i
      BY <1>1, <2>2
    <3>. QED BY <1>3, <1>4, <1>5, <2>2, <3>1
  <2>. QED BY <2>1, <2>2
<1>7. c = a \o b
  BY <1>4, <1>5, <1>6, SeqEqual
<1>8. SubSeq(s, 1, Len(s)) = s /\ SubSeq(s, 1, 0) = <<>>
  OBVIOUS
<1>. QED BY <1>3, <1>4, <1>7, <1>8 DEF a, b, c

\* The units of a record.
LEMMA UnitsFacts ==
  ASSUME NEW r \in Records
  PROVE  /\ r.id \in Ids /\ r.file \in Files /\ r.len \in Nat \ {0}
         /\ Units(r) \in Seq(Ids) /\ Len(Units(r)) = r.len /\ Range(Units(r)) = {r.id}
<1>1. r.id \in Ids /\ r.file \in Files /\ r.len \in Nat \ {0}
  <2>1. r.id \in 1..MaxLogs /\ r.file \in Files /\ r.len \in Lengths
    BY DEF Records
  <2>2. Lengths \subseteq 1..MaxSize /\ MaxSize \in Nat
    BY LogFilesAssumption
  <2>3. \A n \in 1..MaxSize : n \in Nat \ {0}
    BY <2>2
  <2>4. r.len \in Nat \ {0}
    BY <2>1, <2>2, <2>3
  <2>. QED BY <2>1, <2>4 DEF Ids
<1>2. Units(r) = [i \in 1..r.len |-> r.id]
  BY DEF Units
<1>3. Range(Units(r)) = {r.id}
  <2>1. 1 \in 1..r.len
    BY <1>1
  <2>. QED BY <1>2, <2>1 DEF Range
<1>. QED BY <1>1, <1>2, <1>3

\* The units of several records.
LEMMA UnitsOfEmpty == UnitsOf(<<>>) = <<>>
  BY FlattenEmpty, EmptySeq DEF UnitsOf

LEMMA UnitsOfType ==
  ASSUME NEW a \in Seq(Records)
  PROVE  [i \in DOMAIN a |-> Units(a[i])] \in Seq(Seq(Ids)) /\ UnitsOf(a) \in Seq(Ids)
<1>1. \A i \in 1..Len(a) : a[i] \in Records
  OBVIOUS
<1>2. \A i \in 1..Len(a) : Units(a[i]) \in Seq(Ids)
  BY <1>1, UnitsFacts
<1>3. DOMAIN a = 1..Len(a) /\ Len(a) \in Nat
  OBVIOUS
<1>4. [i \in DOMAIN a |-> Units(a[i])] \in Seq(Seq(Ids))
  BY <1>2, <1>3
<1>5. PICK ss : ss = [i \in DOMAIN a |-> Units(a[i])]
  OBVIOUS
<1>6. FlattenSeq(ss) \in Seq(Ids)
  BY <1>4, <1>5, FlattenAppend, EmptySeq
<1>. QED BY <1>4, <1>5, <1>6 DEF UnitsOf

\* The units of two runs of records are those of the one after those of the other.
LEMMA UnitsOfConcat ==
  ASSUME NEW a \in Seq(Records), NEW b \in Seq(Records)
  PROVE  UnitsOf(a \o b) = UnitsOf(a) \o UnitsOf(b)
<1>1. PICK s, t, u : /\ s = [i \in DOMAIN a |-> Units(a[i])]
                     /\ t = [i \in DOMAIN b |-> Units(b[i])]
                     /\ u = [i \in DOMAIN (a \o b) |-> Units((a \o b)[i])]
  OBVIOUS
<1>2. a \o b \in Seq(Records) /\ Len(a \o b) = Len(a) + Len(b)
      /\ \A i \in 1..(Len(a) + Len(b)) : (a \o b)[i] = IF i <= Len(a) THEN a[i] ELSE b[i - Len(a)]
  BY ConcatProperties
<1>3. s \in Seq(Seq(Ids)) /\ t \in Seq(Seq(Ids)) /\ u \in Seq(Seq(Ids))
  BY <1>1, <1>2, UnitsOfType
<1>4. Len(a) \in Nat /\ DOMAIN a = 1..Len(a) /\ Len(b) \in Nat /\ DOMAIN b = 1..Len(b)
      /\ DOMAIN (a \o b) = 1..(Len(a) + Len(b))
  BY <1>2, LenProperties
<1>5. Len(s) = Len(a) /\ Len(t) = Len(b) /\ Len(u) = Len(a) + Len(b)
  BY <1>1, <1>4
<1>6. /\ s \o t \in Seq(Seq(Ids)) /\ Len(s \o t) = Len(a) + Len(b)
      /\ \A i \in 1..(Len(a) + Len(b)) : (s \o t)[i] = IF i <= Len(a) THEN s[i] ELSE t[i - Len(a)]
  <2>1. PICK D : D = Seq(Ids)
    OBVIOUS
  <2>2. s \in Seq(D) /\ t \in Seq(D)
    BY <1>3, <2>1
  <2>3. /\ s \o t \in Seq(D) /\ Len(s \o t) = Len(s) + Len(t)
        /\ \A i \in 1..(Len(s) + Len(t)) : (s \o t)[i] = IF i <= Len(s) THEN s[i] ELSE t[i - Len(s)]
    BY <2>2, ConcatProperties
  <2>. QED BY <1>5, <2>1, <2>3
<1>7. ASSUME NEW i \in 1..(Len(a) + Len(b)) PROVE (s \o t)[i] = u[i]
  <2>1. CASE i <= Len(a)
    <3>1. i \in 1..Len(a)
      BY <1>4, <2>1
    <3>. QED BY <1>1, <1>2, <1>4, <1>6, <2>1, <3>1
  <2>2. CASE ~(i <= Len(a))
    <3>1. i - Len(a) \in 1..Len(b)
      BY <1>4, <2>2
    <3>. QED BY <1>1, <1>2, <1>4, <1>6, <2>2, <3>1
  <2>. QED BY <2>1, <2>2
<1>8. s \o t = u
  BY <1>3, <1>5, <1>6, <1>7, SeqEqual
<1>9. FlattenSeq(u) = FlattenSeq(s) \o FlattenSeq(t)
  BY <1>3, <1>8, FlattenConcat
<1>. QED BY <1>1, <1>9 DEF UnitsOf

LEMMA UnitsOfOne ==
  ASSUME NEW r \in Records
  PROVE  UnitsOf(<<r>>) = Units(r)
<1>1. Units(r) \in Seq(Ids)
  BY UnitsFacts
<1>2. [i \in DOMAIN <<r>> |-> Units(<<r>>[i])] = <<Units(r)>>
  OBVIOUS
<1>3. PICK u : u = Units(r)
  OBVIOUS
<1>4. <<>> \in Seq(Seq(Ids)) /\ Append(<<>>, u) = <<u>>
  BY <1>1, <1>3
<1>5. FlattenSeq(Append(<<>>, u)) = FlattenSeq(<<>>) \o u
  BY <1>1, <1>3, <1>4, FlattenAppend
<1>6. FlattenSeq(<<u>>) = u
  BY <1>1, <1>3, <1>4, <1>5, FlattenEmpty, ConcatEmptySeq
<1>. QED BY <1>2, <1>3, <1>6 DEF UnitsOf

\* A number is among the units exactly when a record has it.
LEMMA UnitsOfEntries ==
  ASSUME NEW a \in Seq(Records)
  PROVE  \A x : x \in Range(UnitsOf(a)) <=> \E r \in Range(a) : x = r.id
<1>1. PICK ss : ss = [i \in DOMAIN a |-> Units(a[i])]
  OBVIOUS
<1>2. ss \in Seq(Seq(Ids)) /\ Len(a) \in Nat /\ DOMAIN a = 1..Len(a) /\ Range(a) = {a[i] : i \in 1..Len(a)}
      /\ \A i \in 1..Len(a) : a[i] \in Records
  BY <1>1, UnitsOfType, SeqFacts
<1>3. Len(ss) = Len(a) /\ \A i \in 1..Len(a) : ss[i] = Units(a[i])
  BY <1>1, <1>2
<1>4. \A i \in 1..Len(a) : Range(ss[i]) = {a[i].id}
  BY <1>2, <1>3, UnitsFacts
<1>5. \A x : x \in Range(FlattenSeq(ss)) <=> \E i \in 1..Len(ss) : x \in Range(ss[i])
  BY <1>2, FlattenEntries
<1>6. UnitsOf(a) = FlattenSeq(ss)
  BY <1>1 DEF UnitsOf
<1>7. \A i \in 1..Len(a) : \A x : x \in Range(ss[i]) <=> x = a[i].id
  BY <1>4
<1>8. \A x : x \in Range(UnitsOf(a)) <=> \E i \in 1..Len(a) : x = a[i].id
  BY <1>3, <1>5, <1>6, <1>7
<1>. QED BY <1>2, <1>8

----------------------------------------------------------------------------
\* The mutexes.

Holders == Loggers \cup {"reader", "flush", Nobody}
Rotating == {"open", "zero"}
InSession == {"respond", "read", "reopen", "short", "end"}

Places ==
  /\ pc \in [Loggers -> {"idle", "open", "zero", "enqueue"}]
  /\ at \in {"idle", "sizes", "open"} \cup InSession
  /\ reading \in BOOLEAN /\ leaked \in BOOLEAN
  /\ fsm \in Holders /\ logm \in Holders \ {"flush"}

Flagged ==
  /\ at \in InSession => reading
  /\ reading => \A l \in Loggers : pc[l] \notin Rotating
  /\ reading /\ ~leaked => at \in InSession
  /\ ~leaked /\ at \in InSession \ {"reopen"} => fsm = "reader"

IInv == Places /\ MutexesReturned /\ Flagged

\* The filesystem's mutex is held by the task that is at a place where it needs it, leaked or not.
Held ==
  /\ \A l \in Loggers : pc[l] = "zero" => fsm = l
  /\ at \in InSession \ {"reopen"} => fsm = "reader"
  /\ batch # <<>> => fsm = "flush"

Locks == <<pc, at, reading, leaked, fsm, logm>>

LEMMA Distinct == \A l \in Loggers : l \notin {"reader", "flush", Nobody}
  BY LogFilesAssumption

LEMMA InitIInv == Init => IInv
  BY Distinct, LogFilesAssumption
  DEF Init, IInv, Places, Flagged, MutexesReturned, Holders, Rotating, InSession, NoSession

\* A step that touches neither a mutex nor a place of a task.
LEMMA UnchangedIInv ==
  ASSUME IInv, UNCHANGED Locks
  PROVE  IInv'
  BY DEF IInv, Places, Flagged, MutexesReturned, Locks

\* What a step of the logger l may do to the mutexes.
LoggerLocks(l) ==
  /\ UNCHANGED <<at, reading>>
  /\ \/ pc[l] = "idle" /\ pc' = [pc EXCEPT ![l] = "enqueue"] /\ UNCHANGED <<fsm, logm, leaked>>
     \/ /\ pc[l] = "idle" /\ pc' = [pc EXCEPT ![l] = "open"]
        /\ logm = Nobody /\ logm' = l /\ ~reading /\ UNCHANGED <<fsm, leaked>>
     \/ /\ pc[l] = "open" /\ pc' = [pc EXCEPT ![l] = "zero"]
        /\ fsm = Nobody /\ fsm' = l /\ UNCHANGED <<logm, leaked>>
     \/ /\ pc[l] = "open" /\ pc' = [pc EXCEPT ![l] = "idle"]
        /\ logm' = Nobody /\ UNCHANGED <<fsm, leaked>>
     \/ /\ pc[l] = "zero" /\ pc' = [pc EXCEPT ![l] = "enqueue"]
        /\ fsm' = Nobody /\ logm' = Nobody /\ UNCHANGED leaked
     \/ /\ pc[l] = "zero" /\ pc' = [pc EXCEPT ![l] = "idle"] /\ logm' = Nobody
        /\ \/ leaked' = TRUE /\ UNCHANGED fsm
           \/ fsm' = Nobody /\ UNCHANGED leaked
     \/ pc[l] = "enqueue" /\ pc' = [pc EXCEPT ![l] = "idle"] /\ UNCHANGED <<fsm, logm, leaked>>

LEMMA LoggerStepLocks ==
  ASSUME NEW l \in Loggers, LoggerStep(l)
  PROVE  LoggerLocks(l)
<1> USE DEF LoggerLocks, Goto, command, faults, files, ring
<1>1. CASE \E n \in Lengths : Reserve(l, n)
  BY <1>1 DEF Reserve, Recorded
<1>2. CASE \E n \in Lengths : Rotate(l, n)
  BY <1>2 DEF Rotate, Advance, Recorded
<1>3. CASE Open(l)
  BY <1>3 DEF Open
<1>4. CASE OpenTimeout(l)
  BY <1>4 DEF OpenTimeout
<1>5. CASE Zero(l)
  BY <1>5 DEF Zero, Zeroed
<1>6. CASE ZeroFails(l)
  BY <1>6 DEF ZeroFails
<1>7. CASE Enqueue(l)
  BY <1>7 DEF Enqueue
<1>8. QED
  BY <1>1, <1>2, <1>3, <1>4, <1>5, <1>6, <1>7 DEF LoggerStep

LEMMA LoggerIInv ==
  ASSUME IInv, NEW l \in Loggers, LoggerStep(l)
  PROVE  IInv'
<1>1. LoggerLocks(l)
  BY LoggerStepLocks
<1>2. Places'
  BY <1>1, Distinct, LogFilesAssumption DEF IInv, Places, LoggerLocks, Holders
<1>3. \A m \in Loggers : m # l => pc'[m] = pc[m]
  BY <1>1 DEF IInv, Places, LoggerLocks
<1>4. MutexesReturned'
  BY <1>1, <1>3, Distinct, LogFilesAssumption DEF IInv, Places, LoggerLocks, MutexesReturned, Holders
<1>5. Flagged'
  BY <1>1, <1>3, Distinct DEF IInv, Places, LoggerLocks, MutexesReturned, Flagged, Holders, Rotating, InSession
<1>6. QED
  BY <1>2, <1>4, <1>5 DEF IInv

\* What a step of the FILESYSTEM task may do to the mutexes.
FlushLocks ==
  /\ UNCHANGED <<pc, at, reading, leaked, logm>>
  /\ \/ fsm = Nobody /\ fsm' = "flush"
     \/ fsm = "flush" /\ fsm' = Nobody

LEMMA FlushIInv ==
  ASSUME IInv, Held, FlushStep
  PROVE  IInv'
<1>1. CASE FlushFile
  BY <1>1, UnchangedIInv DEF FlushFile, ring, loggers, faults, Locks
<1>2. CASE Flush \/ FlushFails \/ FlushEnds
  <2>1. ASSUME Flush \/ FlushEnds PROVE FlushLocks
    BY <2>1 DEF Flush, FlushEnds, ring, loggers, command, faults, files, FlushLocks
  <2>2. ASSUME FlushFails PROVE FlushLocks
    <3>1. batch # <<>> /\ fsm' = Nobody /\ UNCHANGED <<logm, loggers, at, reading, leaked>>
      BY <2>2 DEF FlushFails
    <3>. QED BY <3>1 DEF Held, loggers, FlushLocks
  <2>3. FlushLocks
    BY <1>2, <2>1, <2>2
  <2>4. QED
    BY <2>3, Distinct, LogFilesAssumption
    DEF IInv, Places, Flagged, MutexesReturned, Holders, Rotating, InSession, FlushLocks
<1>3. QED
  BY <1>1, <1>2 DEF FlushStep

\* What a step of the command may do to the mutexes.
CommandLocks ==
  /\ UNCHANGED pc
  /\ \/ at = "idle" /\ at' = "sizes" /\ logm = Nobody /\ logm' = "reader" /\ UNCHANGED <<fsm, reading, leaked>>
     \/ at = "sizes" /\ at' \in {"sizes", "open"} /\ UNCHANGED <<fsm, logm, reading, leaked>>
     \/ at \in {"sizes", "open"} /\ at' = "idle" /\ logm' = Nobody /\ UNCHANGED <<fsm, reading, leaked>>
     \/ /\ at \in {"sizes", "open"} /\ at' = "idle" /\ logm' = Nobody
        /\ leaked' = TRUE /\ UNCHANGED reading
        /\ fsm = Nobody /\ fsm' = "reader"
     \/ /\ at = "open" /\ at' = "respond" /\ fsm = Nobody /\ fsm' = "reader" /\ logm' = Nobody
        /\ reading' = TRUE /\ UNCHANGED leaked
     \/ at = "respond" /\ at' \in {"read", "end"} /\ UNCHANGED <<fsm, logm, reading, leaked>>
     \/ at = "respond" /\ at' = "idle" /\ leaked' = TRUE /\ UNCHANGED <<fsm, logm, reading>>
     \/ at = "read" /\ at' \in {"read", "end"} /\ UNCHANGED <<fsm, logm, reading, leaked>>
     \/ /\ at = "read" /\ at' = "reopen" /\ logm = Nobody /\ logm' = "reader"
        /\ fsm' = Nobody /\ UNCHANGED <<reading, leaked>>
     \/ /\ at = "reopen" /\ at' \in {"read", "short"} /\ logm' = Nobody
        /\ fsm = Nobody /\ fsm' = "reader" /\ UNCHANGED <<reading, leaked>>
     \/ at = "reopen" /\ at' = "idle" /\ logm' = Nobody /\ reading' = FALSE /\ UNCHANGED <<fsm, leaked>>
     \/ /\ at = "reopen" /\ at' = "idle" /\ logm' = Nobody /\ reading' = FALSE
        /\ fsm = Nobody /\ fsm' = "reader" /\ leaked' = TRUE
     \/ /\ at \in {"read", "end", "short"} /\ at' = "idle" /\ logm = Nobody /\ logm' = Nobody
        /\ reading' = FALSE /\ fsm' = Nobody /\ UNCHANGED leaked

LEMMA CommandStepLocks ==
  ASSUME Begin \/ SessionStep
  PROVE  CommandLocks
<1> USE DEF CommandLocks, Return, files, ring, loggers, faults
<1>1. CASE Begin
  BY <1>1 DEF Begin
<1>2. CASE FileSize
  BY <1>2 DEF FileSize
<1>3. CASE OpenCurrent
  BY <1>3 DEF OpenCurrent, OpenedAt
<1>4. CASE BeginTimeout
  BY <1>4 DEF BeginTimeout
<1>5. CASE BeginFails
  BY <1>5 DEF BeginFails
<1>6. CASE Respond
  BY <1>6 DEF Respond
<1>7. CASE Read
  BY <1>7 DEF Read, Chunk
<1>8. CASE NextFile
  BY <1>8 DEF NextFile
<1>9. CASE Reopen
  BY <1>9 DEF Reopen
<1>10. CASE ReopenTimeout
  BY <1>10 DEF ReopenTimeout
<1>11. CASE ReadFails
  BY <1>11 DEF ReadFails
<1>12. CASE End
  BY <1>12 DEF End
<1>13. QED
  BY <1>1, <1>2, <1>3, <1>4, <1>5, <1>6, <1>7, <1>8, <1>9, <1>10, <1>11, <1>12 DEF SessionStep

LEMMA CommandIInv ==
  ASSUME IInv, Begin \/ SessionStep
  PROVE  IInv'
<1>1. CommandLocks
  BY CommandStepLocks
<1>2. Places'
  BY <1>1, LogFilesAssumption DEF IInv, Places, CommandLocks, Holders, InSession
<1>3. logm = "reader" => \A l \in Loggers : pc[l] \notin Rotating
  BY Distinct DEF IInv, MutexesReturned, Rotating
<1>4. MutexesReturned'
  BY <1>1, Distinct, LogFilesAssumption
  DEF IInv, Places, CommandLocks, MutexesReturned, Flagged, Holders, Rotating, InSession
<1>5. Flagged'
  BY <1>1, <1>3 DEF IInv, Places, CommandLocks, MutexesReturned, Flagged, InSession
<1>6. QED
  BY <1>2, <1>4, <1>5 DEF IInv

LEMMA RestartIInv ==
  ASSUME IInv, Restart
  PROVE  IInv'
<1>1. /\ pc' = [l \in Loggers |-> "idle"] /\ at' = "idle" /\ reading' = FALSE
      /\ leaked' = FALSE /\ fsm' = Nobody /\ logm' = Nobody
  BY DEF Restart, Return
<1>2. QED
  BY <1>1, Distinct, LogFilesAssumption
  DEF IInv, Places, Flagged, MutexesReturned, Holders, Rotating, InSession

\* A flush, a session and a rotation exclude each other through the mutex of the filesystem.
LEMMA HeldNext ==
  ASSUME IInv, Held, [Next]_vars
  PROVE  Held'
<1>. USE Distinct, LogFilesAssumption
<1>1. CASE \E l \in Loggers : LoggerStep(l)
  <2>1. PICK l \in Loggers : LoggerStep(l)
    BY <1>1
  <2>2. LoggerLocks(l)
    BY <2>1, LoggerStepLocks
  <2>3. batch' = batch
    BY <2>1 DEF LoggerStep, Reserve, Rotate, Advance, Open, OpenTimeout, Zero, Zeroed, ZeroFails, Enqueue, files
  <2>4. \A m \in Loggers : m # l => pc'[m] = pc[m]
    BY <2>2 DEF IInv, Places, LoggerLocks
  <2>. QED BY <2>2, <2>3, <2>4 DEF IInv, Places, LoggerLocks, Held, InSession
<1>2. CASE FlushStep
  <2>1. CASE FlushFile
    BY <1>2, <2>1 DEF FlushFile, loggers, Held, IInv, Places
  <2>2. CASE Flush
    BY <2>2 DEF Flush, loggers, command, Held, IInv, Places, InSession
  <2>3. CASE FlushEnds
    BY <2>3 DEF FlushEnds, files, loggers, command, Held, IInv, Places, InSession
  <2>4. CASE FlushFails
    <3>1. batch # <<>> /\ batch' = <<>> /\ fsm' = Nobody /\ UNCHANGED <<pc, at>>
      BY <2>4 DEF FlushFails, loggers
    <3>2. \A l \in Loggers : pc[l] # "zero"
      BY <3>1 DEF Held
    <3>3. at \notin InSession \ {"reopen"}
      BY <3>1 DEF Held
    <3>. QED BY <3>1, <3>2, <3>3 DEF Held
  <2>. QED BY <1>2, <2>1, <2>2, <2>3, <2>4 DEF FlushStep
<1>3. CASE Begin \/ SessionStep
  <2>1. CommandLocks
    BY <1>3, CommandStepLocks
  <2>2. batch' = batch
    BY <1>3 DEF Begin, SessionStep, FileSize, OpenCurrent, OpenedAt, BeginTimeout, BeginFails, Respond,
                Read, Chunk, NextFile, Reopen, ReopenTimeout, ReadFails, End, files
  <2>. QED BY <2>1, <2>2 DEF CommandLocks, Held, IInv, Places, InSession
<1>4. CASE Restart
  BY <1>4 DEF Restart, Return, Held, InSession
<1>5. CASE UNCHANGED vars
  BY <1>5 DEF vars, files, loggers, command, Held
<1>. QED BY <1>1, <1>2, <1>3, <1>4, <1>5 DEF Next

LEMMA HeldInit == Init => Held
  BY DEF Init, Held, InSession

LEMMA NextIInv == IInv /\ Held /\ [Next]_vars => IInv'
<1> SUFFICES ASSUME IInv, Held, [Next]_vars PROVE IInv'
  OBVIOUS
<1>1. CASE \E l \in Loggers : LoggerStep(l)
  BY <1>1, LoggerIInv
<1>2. CASE FlushStep
  BY <1>2, FlushIInv
<1>3. CASE Begin \/ SessionStep
  BY <1>3, CommandIInv
<1>4. CASE Restart
  BY <1>4, RestartIInv
<1>5. CASE UNCHANGED vars
  BY <1>5, UnchangedIInv DEF vars, loggers, command, faults, Locks
<1>6. QED
  BY <1>1, <1>2, <1>3, <1>4, <1>5 DEF Next

LEMMA Invariant == Spec => [](IInv /\ Held)
<1>1. Init => IInv /\ Held
  BY InitIInv, HeldInit
<1>2. IInv /\ Held /\ [Next]_vars => (IInv /\ Held)'
  BY NextIInv, HeldNext
<1>. QED BY <1>1, <1>2, PTL DEF Spec

\* logSysMutex and the filesystem's mutex are held by a task that is at a place from which it gives
\* them, unless an error has left the filesystem's behind: no way out of fs_log_save or of the
\* read session forgets logSysMutex.
THEOREM MutexesReturnedCorrect == Spec => []MutexesReturned
<1>1. IInv => MutexesReturned
  BY DEF IInv
<1>2. QED
  BY Invariant, <1>1, PTL

\* While the logs are read no logger holds logSysMutex or waits for the file the session keeps
\* open: the two orders in which the mutexes are taken never meet.
THEOREM SessionAloneCorrect == Spec => []SessionAlone
<1>1. IInv => SessionAlone
  <2> SUFFICES ASSUME IInv, reading PROVE SessionAlone
    BY DEF SessionAlone
  <2>1. \A l \in Loggers : pc[l] \in {"idle", "enqueue"}
    BY DEF IInv, Places, Flagged, Rotating
  <2>2. logm \in {"reader", Nobody}
    BY <2>1 DEF IInv, Places, MutexesReturned, Holders
  <2>3. at # "reopen" /\ ~leaked => fsm = "reader"
    BY DEF IInv, Flagged
  <2>4. QED
    BY <2>1, <2>2, <2>3 DEF SessionAlone
<1>2. QED
  BY Invariant, <1>1, PTL

----------------------------------------------------------------------------
\* Types, and what is on its way to a file.

\* What the variables of the files and of the loggers are.
Types ==
  /\ content \in [Files -> Seq(Ids)]
  /\ pending \in Seq(Records) /\ batch \in Seq(Records)
  /\ current \in Files /\ size \in 0..MaxSize
  /\ rec \in [Loggers -> Records \cup {NoRecord}]
  /\ \A l \in Loggers : pc[l] # "idle" => rec[l] \in Records
  /\ unzeroed \subseteq Files /\ hollow \subseteq Files /\ repeated \subseteq Files
  /\ astray \in BOOLEAN /\ saved \in 0..MaxLogs

Numbers == NumFiles \in Nat \ {0} /\ MaxSize \in Nat \ {0} /\ MaxLogs \in Nat /\ Lengths \subseteq 1..MaxSize

LEMMA NumbersFacts == Numbers
  BY LogFilesAssumption DEF Numbers

LEMMA FollowingType ==
  ASSUME NEW f \in Files
  PROVE  Following(f) \in Files /\ Previous(f) \in Files
  BY NumbersFacts DEF Numbers, Files, Following, Previous

LEMMA TypesInit == Init => Types
<1>. SUFFICES ASSUME Init PROVE Types
  OBVIOUS
<1>1. 0 \in Files /\ 0 \in 0..MaxSize /\ 0 \in 0..MaxLogs
  BY NumbersFacts DEF Numbers, Files
<1>2. <<>> \in Seq(Ids) /\ <<>> \in Seq(Records)
  BY EmptySeq
<1>3. content \in [Files -> Seq(Ids)] /\ pending \in Seq(Records) /\ batch \in Seq(Records)
  BY <1>2 DEF Init
<1>4. rec \in [Loggers -> Records \cup {NoRecord}] /\ \A l \in Loggers : pc[l] = "idle"
  BY DEF Init
<1>. QED BY <1>1, <1>3, <1>4 DEF Init, Types

\* The record that a logger has taken down is a record, and its number is within the bound.
LEMMA RecordedTypes ==
  ASSUME Types, IInv, NEW l \in Loggers, NEW n \in Lengths, NEW f \in Files, Recorded(l, n, f),
         pc' = [pc EXCEPT ![l] = "enqueue"] \/ pc' = [pc EXCEPT ![l] = "open"]
  PROVE  /\ rec' \in [Loggers -> Records \cup {NoRecord}]
         /\ \A m \in Loggers : pc'[m] # "idle" => rec'[m] \in Records
         /\ saved' \in 0..MaxLogs
<1>1. saved + 1 \in 1..MaxLogs
  BY NumbersFacts DEF Numbers, Recorded, Types
<1>2. [id |-> saved + 1, file |-> f, len |-> n] \in Records
  BY <1>1 DEF Records
<1>3. pc \in [Loggers -> {"idle", "open", "zero", "enqueue"}]
  BY DEF IInv, Places
<1>4. saved' = saved + 1 /\ rec' = [rec EXCEPT ![l] = [id |-> saved + 1, file |-> f, len |-> n]]
  BY DEF Recorded
<1>5. PICK r : r = [id |-> saved + 1, file |-> f, len |-> n]
  OBVIOUS
<1>6. r \in Records /\ rec' = [rec EXCEPT ![l] = r]
  BY <1>2, <1>4, <1>5
<1>7. rec' \in [Loggers -> Records \cup {NoRecord}]
  BY <1>6 DEF Types
<1>8. \A m \in Loggers : pc'[m] # "idle" => rec'[m] \in Records
  BY <1>3, <1>6 DEF Types
<1>9. saved' \in 0..MaxLogs
  BY <1>1, <1>4
<1>. QED BY <1>7, <1>8, <1>9

\* There is a first one of the shortest files.
LEMMA LeastPartly ==
  ASSUME NEW c \in [Files -> Seq(Ids)], NEW P \in SUBSET Files, P # {}
  PROVE  \E f \in P : /\ \A g \in P : Len(c[f]) <= Len(c[g])
                      /\ \A g \in P : (\A h \in P : Len(c[g]) <= Len(c[h])) => f <= g
<1>1. Files \subseteq Nat
  BY NumbersFacts DEF Numbers, Files
<1>2. \A f \in P : Len(c[f]) \in Nat
  OBVIOUS
<1>. DEFINE L == {Len(c[f]) : f \in P}
            S == {f \in P : \A g \in P : Len(c[f]) <= Len(c[g])}
<1>3. L \in SUBSET Nat /\ L # {}
  BY <1>2
<1>4. PICK n \in L : \A m \in L : n <= m
  <2>. HIDE DEF L
  <2>. QED BY <1>3, LeastNumber
<1>5. PICK f \in P : Len(c[f]) = n
  OBVIOUS
<1>6. \A g \in P : Len(c[f]) <= Len(c[g])
  BY <1>4, <1>5
<1>7. S \in SUBSET Nat /\ S # {}
  BY <1>1, <1>6
<1>8. \E k \in S : \A m \in S : k <= m
  <2>. HIDE DEF S
  <2>. QED BY <1>7, LeastNumber
<1>. QED BY <1>8

\* What is not flagged of the records a is some of them; it is none when all have been written.
LEMMA UnflaggedFacts ==
  ASSUME NEW a \in Seq(Records), NEW n \in 0..Len(a)
  PROVE  /\ Unflagged(a, n) \in Seq(Records) /\ SubSeq(a, 1, n) \in Seq(Records)
         /\ Range(Unflagged(a, n)) \subseteq Range(a) /\ Range(SubSeq(a, 1, n)) \subseteq Range(a)
         /\ Len(UnitsOf(Unflagged(a, n))) <= Len(UnitsOf(a))
         /\ n = Len(a) => Unflagged(a, n) = <<>> /\ SubSeq(a, 1, n) = a
<1>1. Len(a) \in Nat /\ n \in Nat /\ n <= Len(a)
  BY LenProperties
<1>2. PICK m \in 0..n : m = Least(n, 1)
  BY <1>1 DEF Least
<1>3. PICK p, x, y, z : /\ p = SubSeq(a, 1, n) /\ x = SubSeq(a, 1, m) /\ y = SubSeq(a, m + 1, n)
                        /\ z = SubSeq(a, n + 1, Len(a))
  OBVIOUS
<1>4. /\ p \in Seq(Records) /\ y \in Seq(Records) /\ p = x \o y
  <2>1. n - m \in 0..n /\ n - (n - m) = m
    BY <1>1, <1>2
  <2>2. /\ SubSeq(a, 1, n) \in Seq(Records) /\ SubSeq(a, n - (n - m) + 1, n) \in Seq(Records)
        /\ SubSeq(a, 1, n) = SubSeq(a, 1, n - (n - m)) \o SubSeq(a, n - (n - m) + 1, n)
    BY <2>1, SplitAt
  <2>. QED BY <1>3, <2>1, <2>2
<1>5. x \in Seq(Records)
  <2>1. m \in 0..Len(a) /\ 0 \in 0..m
    BY <1>1, <1>2
  <2>2. PICK k \in 0..m : k = 0
    BY <2>1
  <2>3. SubSeq(a, 1, m) \in Seq(Records)
    BY <2>1, <2>2, SplitAt
  <2>. QED BY <1>3, <2>3
<1>6. z \in Seq(Records) /\ a = p \o z /\ SubSeq(a, 1, Len(a)) = a
  <2>1. PICK k : k = Len(a)
    OBVIOUS
  <2>2. k \in 0..Len(a) /\ k - n \in 0..k /\ k - (k - n) = n
    BY <1>1, <2>1
  <2>3. /\ SubSeq(a, k - (k - n) + 1, k) \in Seq(Records)
        /\ SubSeq(a, 1, k) = SubSeq(a, 1, k - (k - n)) \o SubSeq(a, k - (k - n) + 1, k)
        /\ SubSeq(a, 1, Len(a)) = a
    BY <2>2, SplitAt
  <2>. QED BY <1>3, <2>1, <2>2, <2>3
<1>7. x \o z \in Seq(Records) /\ Range(x \o z) \subseteq Range(a) /\ Range(p) \subseteq Range(a)
  <2>1. x \o z \in Seq(Records)
    BY <1>5, <1>6, ConcatProperties
  <2>2. Range(x \o z) = Range(x) \cup Range(z)
    BY <1>5, <1>6, RangeConcatenation
  <2>3. Range(p) = Range(x) \cup Range(y)
    BY <1>4, <1>5, RangeConcatenation
  <2>4. Range(a) = Range(p) \cup Range(z)
    BY <1>4, <1>6, RangeConcatenation
  <2>. QED BY <2>1, <2>2, <2>3, <2>4
<1>8. Len(UnitsOf(x \o z)) <= Len(UnitsOf(a))
  <2>1. UnitsOf(a) = UnitsOf(p) \o UnitsOf(z) /\ UnitsOf(p) = UnitsOf(x) \o UnitsOf(y)
        /\ UnitsOf(x \o z) = UnitsOf(x) \o UnitsOf(z)
    BY <1>4, <1>5, <1>6, UnitsOfConcat
  <2>2. PICK t, u, v, w : t = UnitsOf(p) /\ u = UnitsOf(x) /\ v = UnitsOf(y) /\ w = UnitsOf(z)
    OBVIOUS
  <2>3. t \in Seq(Ids) /\ u \in Seq(Ids) /\ v \in Seq(Ids) /\ w \in Seq(Ids)
    BY <1>4, <1>5, <1>6, <2>2, UnitsOfType
  <2>4. /\ Len(t \o w) = Len(t) + Len(w) /\ Len(u \o v) = Len(u) + Len(v) /\ Len(u \o w) = Len(u) + Len(w)
        /\ Len(t) \in Nat /\ Len(u) \in Nat /\ Len(v) \in Nat /\ Len(w) \in Nat
    BY <2>3, ConcatProperties, LenProperties
  <2>. QED BY <2>1, <2>2, <2>4
<1>9. CASE n = Len(a)
  <2>1. Unflagged(a, n) = <<>>
    BY <1>9 DEF Unflagged
  <2>2. Range(<<>>) = {} /\ <<>> \in Seq(Records)
    BY EmptySeq DEF Range
  <2>3. Len(UnitsOf(<<>>)) <= Len(UnitsOf(a))
    <3>1. Len(UnitsOf(<<>>)) = 0
      BY UnitsOfEmpty
    <3>2. UnitsOf(a) \in Seq(Ids)
      BY UnitsOfType
    <3>3. Len(UnitsOf(a)) \in Nat
      BY <3>2, LenProperties
    <3>. QED BY <3>1, <3>3
  <2>4. SubSeq(a, 1, n) = a
    BY <1>6, <1>9
  <2>. QED BY <2>1, <2>2, <2>3, <2>4
<1>10. CASE n # Len(a)
  <2>1. Unflagged(a, n) = x \o z
    BY <1>2, <1>3, <1>10 DEF Unflagged
  <2>. QED BY <1>3, <1>4, <1>7, <1>8, <1>10, <2>1
<1>. QED BY <1>9, <1>10

\* Of the records own of a file f some are written and some are left, with the rest of the batch.
Failed(f, own, rest, n, written, left) ==
  /\ f \in Files /\ own \in Seq(Records) /\ written \in Seq(Records) /\ left \in Seq(Records)
  /\ rest \in Seq(Records) /\ content' = [content EXCEPT ![f] = @ \o UnitsOf(written)]
  /\ pending' = (left \o rest) \o pending /\ repeated' \subseteq repeated \cup {f}
  /\ batch' = <<>> /\ UNCHANGED <<current, size, unzeroed, hollow, loggers, astray>>
  /\ own = Only(batch, To(f)) /\ rest = Only(batch, Records \ To(f)) /\ own # <<>>
  /\ n \in 0..Len(own) /\ left = Unflagged(own, n) /\ written \in {<<>>, SubSeq(own, 1, n)}
  /\ repeated \subseteq repeated'
  /\ f \notin repeated' => written = <<>> \/ n = Len(own)

LEMMA FlushFailsFacts ==
  ASSUME Types, FlushFails
  PROVE  \E f, own, rest, n, written, left : Failed(f, own, rest, n, written, left)
<1>1. PICK f, own, rest : /\ f = Head(batch).file /\ own = Only(batch, To(f))
                          /\ rest = Only(batch, Records \ To(f))
  OBVIOUS
<1>2. PICK n \in 0..Len(own) : \E written \in {<<>>, SubSeq(own, 1, n)} :
        /\ content' = [content EXCEPT ![f] = @ \o UnitsOf(written)]
        /\ pending' = (Unflagged(own, n) \o rest) \o pending
        /\ repeated' = IF written = <<>> \/ n = Len(own) THEN repeated ELSE repeated \cup {f}
  BY <1>1 DEF FlushFails
<1>3. PICK written \in {<<>>, SubSeq(own, 1, n)} :
        /\ content' = [content EXCEPT ![f] = @ \o UnitsOf(written)]
        /\ pending' = (Unflagged(own, n) \o rest) \o pending
        /\ repeated' = IF written = <<>> \/ n = Len(own) THEN repeated ELSE repeated \cup {f}
  BY <1>2
<1>4. batch # <<>> /\ batch' = <<>> /\ UNCHANGED <<current, size, unzeroed, hollow, loggers, astray>>
  BY DEF FlushFails
<1>5. Head(batch) \in Records /\ Head(batch) \in Range(batch)
  BY <1>4 DEF Types, Range
<1>6. f \in Files
  BY <1>1, <1>5, UnitsFacts
<1>7. own \in Seq(Records) /\ rest \in Seq(Records) /\ Range(own) = Range(batch) \cap To(f)
  BY <1>1, OnlyFacts DEF Types
<1>8. own # <<>>
  <2>1. Head(batch) \in To(f)
    BY <1>1, <1>5 DEF To
  <2>. QED BY <1>5, <1>7, <2>1, SeqFacts
<1>9. Unflagged(own, n) \in Seq(Records) /\ SubSeq(own, 1, n) \in Seq(Records) /\ <<>> \in Seq(Records)
  BY <1>7, UnflaggedFacts, EmptySeq
<1>10. PICK left : left = Unflagged(own, n)
  OBVIOUS
<1>11. repeated \subseteq repeated' /\ repeated' \subseteq repeated \cup {f}
       /\ (f \notin repeated' => written = <<>> \/ n = Len(own))
  BY <1>3
<1>12. written \in Seq(Records) /\ left \in Seq(Records) /\ pending' = (left \o rest) \o pending
  BY <1>3, <1>9, <1>10
<1>13. Failed(f, own, rest, n, written, left)
  BY <1>1, <1>3, <1>4, <1>6, <1>7, <1>8, <1>10, <1>11, <1>12 DEF Failed
<1>. QED BY <1>13

LEMMA TypesNext ==
  ASSUME Types, IInv, Held, [Next]_vars
  PROVE  Types'
<1>. USE NumbersFacts DEF Numbers
<1>a. pc \in [Loggers -> {"idle", "open", "zero", "enqueue"}]
  BY DEF IInv, Places
<1>1. ASSUME NEW l \in Loggers, NEW n \in Lengths, Reserve(l, n) PROVE Types'
  <2>1. /\ content' = content /\ pending' = pending /\ batch' = batch /\ current' = current
        /\ size' = size + n /\ n <= MaxSize - size /\ astray' = astray
        /\ UNCHANGED <<unzeroed, hollow, repeated>>
        /\ Recorded(l, n, current) /\ pc' = [pc EXCEPT ![l] = "enqueue"]
    BY <1>1 DEF Reserve, Goto, files, marks, faults
  <2>2. size' \in 0..MaxSize
    BY <2>1 DEF Types
  <2>3. current \in Files
    BY DEF Types
  <2>4. /\ rec' \in [Loggers -> Records \cup {NoRecord}]
        /\ \A m \in Loggers : pc'[m] # "idle" => rec'[m] \in Records
        /\ saved' \in 0..MaxLogs
    BY <2>1, <2>3, RecordedTypes
  <2>. QED BY <2>1, <2>2, <2>4 DEF Types
<1>2. ASSUME NEW l \in Loggers, NEW n \in Lengths, Rotate(l, n) PROVE Types'
  <2>1. /\ content' = content /\ pending' = pending /\ batch' = batch /\ current' = Following(current)
        /\ size' = n /\ unzeroed' = unzeroed \cup {Following(current)} /\ astray' = astray
        /\ hollow' \subseteq hollow \cup {current} /\ repeated' = repeated
        /\ Recorded(l, n, Following(current)) /\ pc' = [pc EXCEPT ![l] = "open"]
    BY <1>2 DEF Rotate, Advance, Goto, files, faults
  <2>2. n \in 0..MaxSize
    OBVIOUS
  <2>3. Following(current) \in Files
    BY FollowingType DEF Types
  <2>4. /\ rec' \in [Loggers -> Records \cup {NoRecord}]
        /\ \A m \in Loggers : pc'[m] # "idle" => rec'[m] \in Records
        /\ saved' \in 0..MaxLogs
    BY <2>1, <2>3, RecordedTypes
  <2>. QED BY <2>1, <2>2, <2>3, <2>4 DEF Types
<1>3. ASSUME NEW l \in Loggers, Open(l) \/ OpenTimeout(l) \/ ZeroFails(l) PROVE Types'
  <2>1. UNCHANGED <<files, ring, rec, saved, astray>> /\ pc[l] # "idle"
        /\ (pc' = [pc EXCEPT ![l] = "zero"] \/ pc' = [pc EXCEPT ![l] = "idle"])
    BY <1>3 DEF Open, OpenTimeout, ZeroFails, Goto, faults
  <2>. QED BY <1>a, <2>1 DEF Types, files, ring
<1>4. ASSUME NEW l \in Loggers, Zero(l) PROVE Types'
  <2>1. UNCHANGED <<pending, batch, current, size, rec, saved, astray>> /\ pc[l] = "zero"
        /\ unzeroed' \subseteq unzeroed /\ hollow' = hollow /\ repeated' \subseteq repeated
        /\ content' = [content EXCEPT ![current] = <<>>] /\ pc' = [pc EXCEPT ![l] = "enqueue"]
    BY <1>4 DEF Zero, Zeroed, Goto, faults
  <2>. QED BY <1>a, <2>1 DEF Types
<1>5. ASSUME NEW l \in Loggers, Enqueue(l) PROVE Types'
  <2>1. /\ UNCHANGED <<content, batch, ring, saved, astray>>
        /\ pc[l] = "enqueue" /\ pc' = [pc EXCEPT ![l] = "idle"] /\ rec' = [rec EXCEPT ![l] = NoRecord]
        /\ pending' = pending \/ pending' = Append(pending, rec[l])
    BY <1>5 DEF Enqueue, Goto, faults
  <2>2. pending' \in Seq(Records)
    <3>1. rec[l] \in Records /\ pending \in Seq(Records)
      BY <2>1 DEF Types
    <3>. QED BY <2>1, <3>1, AppendProperties
  <2>. QED BY <1>a, <2>1, <2>2 DEF Types, ring
<1>6. CASE Flush
  <2>1. PICK n \in 1..Len(pending) :
          batch' = SubSeq(pending, 1, n) /\ pending' = SubSeq(pending, n + 1, Len(pending))
    BY <1>6 DEF Flush
  <2>2. UNCHANGED <<content, ring, loggers, faults>>
    BY <1>6 DEF Flush
  <2>3. batch' \in Seq(Records) /\ pending' \in Seq(Records)
    <3>1. pending \in Seq(Records) /\ Len(pending) \in Nat
      BY DEF Types
    <3>2. \A i \in 1..Len(pending) : pending[i] \in Records
      BY <3>1
    <3>. QED BY <2>1, <3>1, <3>2, SubSeqProperties
  <2>. QED BY <2>2, <2>3 DEF Types, ring, loggers, faults
<1>7. CASE FlushFile
  <2>1. batch # <<>> /\ UNCHANGED <<pending, ring, loggers, faults>>
    BY <1>7 DEF FlushFile
  <2>2. PICK f : f = Head(batch).file
    OBVIOUS
  <2>3. content' = [content EXCEPT ![f] = @ \o UnitsOf(Only(batch, To(f)))] /\ batch' = Only(batch, Records \ To(f))
    BY <1>7, <2>2 DEF FlushFile
  <2>4. Head(batch) \in Records
    BY <2>1 DEF Types
  <2>5. f \in Files
    BY <2>2, <2>4, UnitsFacts
  <2>6. Only(batch, To(f)) \in Seq(Records) /\ Only(batch, Records \ To(f)) \in Seq(Records)
    BY OnlyFacts DEF Types
  <2>7. content' \in [Files -> Seq(Ids)]
    <3>1. UnitsOf(Only(batch, To(f))) \in Seq(Ids)
      BY <2>6, UnitsOfType
    <3>2. content[f] \in Seq(Ids)
      BY <2>5 DEF Types
    <3>3. content[f] \o UnitsOf(Only(batch, To(f))) \in Seq(Ids)
      BY <3>1, <3>2, ConcatProperties
    <3>. QED BY <2>3, <3>3 DEF Types
  <2>. QED BY <2>1, <2>3, <2>6, <2>7 DEF Types, ring, loggers, faults
<1>8. CASE FlushEnds \/ Begin \/ SessionStep \/ UNCHANGED vars
  <2>1. UNCHANGED <<files, ring, loggers, astray>>
    BY <1>8 DEF FlushEnds, Begin, SessionStep, FileSize, OpenCurrent, OpenedAt, BeginTimeout, BeginFails, Respond,
                Read, Chunk, NextFile, Reopen, ReopenTimeout, ReadFails, End, faults, vars
  <2>. QED BY <2>1 DEF Types, files, ring, loggers
<1>9. CASE FlushFails
  <2>0. PICK f, own, rest, n, written, left : Failed(f, own, rest, n, written, left)
    BY <1>9, FlushFailsFacts
  <2>1. /\ f \in Files /\ own \in Seq(Records) /\ written \in Seq(Records) /\ left \in Seq(Records)
        /\ rest \in Seq(Records) /\ content' = [content EXCEPT ![f] = @ \o UnitsOf(written)]
        /\ pending' = (left \o rest) \o pending /\ repeated' \subseteq repeated \cup {f}
        /\ batch' = <<>> /\ UNCHANGED <<current, size, unzeroed, hollow, loggers, astray>>
    BY <2>0 DEF Failed
  <2>2. content[f] \in Seq(Ids) /\ UnitsOf(written) \in Seq(Ids)
    BY <2>1, UnitsOfType DEF Types
  <2>3. content[f] \o UnitsOf(written) \in Seq(Ids)
    BY <2>2, ConcatProperties
  <2>4. content' \in [Files -> Seq(Ids)]
    BY <2>1, <2>3 DEF Types
  <2>5. left \o rest \in Seq(Records)
    BY <2>1, ConcatProperties
  <2>6. pending' \in Seq(Records)
    BY <2>1, <2>5, ConcatProperties DEF Types
  <2>. QED BY <2>1, <2>4, <2>6, EmptySeq DEF Types, loggers
<1>10. CASE Restart
  <2>1. /\ content' = content /\ pending' = <<>> /\ batch' = <<>> /\ saved' = saved
        /\ UNCHANGED <<hollow, repeated>>
        /\ pc' = [l \in Loggers |-> "idle"] /\ rec' = [l \in Loggers |-> NoRecord]
        /\ astray' = (astray \/ current' # current)
    BY <1>10 DEF Restart
  <2>2. current' \in Files /\ size' \in 0..MaxSize /\ unzeroed' \subseteq Files
    <3>. DEFINE partly == {f \in Files : Len(content[f]) \in 1..(MaxSize - 1)}
                shortest == {f \in partly : \A g \in partly : Len(content[f]) <= Len(content[g])}
    <3>1. CASE partly = {}
      <4>1. 0 \in Files /\ 0 \in 0..MaxSize
        BY DEF Files
      <4>2. current' = 0 /\ size' = 0 /\ (unzeroed' = unzeroed \/ unzeroed' = unzeroed \cup {0})
        BY <1>10, <3>1 DEF Restart
      <4>. QED BY <4>1, <4>2 DEF Types
    <3>2. CASE partly # {}
      <4>1. /\ current' = CHOOSE f \in shortest : \A g \in shortest : f <= g
            /\ size' = Len(content[current']) /\ unzeroed' = unzeroed
        BY <1>10, <3>2 DEF Restart
      <4>2. partly \subseteq Files /\ \A f \in partly : Len(content[f]) \in Nat
        BY DEF Types
      <4>3. \E f \in shortest : \A g \in shortest : f <= g
        <5>1. PICK c, P : c = content /\ P = partly
          OBVIOUS
        <5>2. c \in [Files -> Seq(Ids)] /\ P \in SUBSET Files /\ P # {}
          BY <3>2, <5>1 DEF Types
        <5>3. \E f \in P : /\ \A g \in P : Len(c[f]) <= Len(c[g])
                           /\ \A g \in P : (\A h \in P : Len(c[g]) <= Len(c[h])) => f <= g
          BY <5>2, LeastPartly
        <5>4. \E f \in partly : /\ \A g \in partly : Len(content[f]) <= Len(content[g])
                                /\ \A g \in partly : (\A h \in partly : Len(content[g]) <= Len(content[h])) => f <= g
          BY <5>1, <5>3
        <5>. HIDE DEF partly
        <5>. QED BY <5>4
      <4>4. current' \in shortest
        BY <4>1, <4>3
      <4>. QED BY <4>1, <4>4 DEF Types
    <3>. QED BY <3>1, <3>2
  <2>. QED BY <2>1, <2>2 DEF Types
<1>. QED BY <1>1, <1>2, <1>3, <1>4, <1>5, <1>6, <1>7, <1>8, <1>9, <1>10 DEF Next, LoggerStep, FlushStep

\* The records that are on their way to the file f, what it holds when they have arrived, the
\* loggers that are about to enqueue one, and the room that those have reserved.
Coming(f) == Only(batch \o pending, To(f))
Planned(f) == content[f] \o UnitsOf(Coming(f))
Waiting(f) == {l \in Loggers : pc[l] = "enqueue" /\ rec[l].file = f}
Reserved(f) == [l \in Loggers |-> IF l \in Waiting(f) THEN rec[l].len ELSE 0]

\* The numbers of the records in and underway to the file f.
Has(f) == Range(Planned(f)) \cup {rec[l].id : l \in Waiting(f)}

LEMMA DerivedTypes ==
  ASSUME Types, IInv, NEW f \in Files
  PROVE  /\ batch \o pending \in Seq(Records) /\ Coming(f) \in Seq(Records)
         /\ UnitsOf(Coming(f)) \in Seq(Ids) /\ Planned(f) \in Seq(Ids) /\ content[f] \in Seq(Ids)
         /\ Reserved(f) \in [Loggers -> Nat]
         /\ Has(f) \subseteq Ids
<1>1. batch \o pending \in Seq(Records)
  BY ConcatProperties DEF Types
<1>2. Coming(f) \in Seq(Records)
  BY <1>1, OnlyFacts DEF Coming
<1>3. UnitsOf(Coming(f)) \in Seq(Ids)
  BY <1>2, UnitsOfType
<1>4. content[f] \in Seq(Ids)
  BY DEF Types
<1>5. Planned(f) \in Seq(Ids)
  BY <1>3, <1>4, ConcatProperties DEF Planned
<1>6. \A l \in Waiting(f) : rec[l] \in Records
  BY DEF Types, Waiting
<1>7. \A l \in Waiting(f) : rec[l].len \in Nat /\ rec[l].id \in Ids
  BY <1>6, UnitsFacts
<1>8. Reserved(f) \in [Loggers -> Nat]
  BY <1>7 DEF Reserved
<1>9. Range(Planned(f)) \subseteq Ids
  BY <1>5, SeqFacts
<1>. QED BY <1>1, <1>2, <1>3, <1>4, <1>5, <1>7, <1>8, <1>9 DEF Has

\* Nothing has changed for the file f.
Kept(f) == /\ Coming(f)' = Coming(f) /\ Planned(f)' = Planned(f) /\ Waiting(f)' = Waiting(f)
           /\ Reserved(f)' = Reserved(f) /\ Has(f)' = Has(f) /\ content'[f] = content[f]

LEMMA FilesKept ==
  ASSUME UNCHANGED files, NEW f
  PROVE  Coming(f)' = Coming(f) /\ Planned(f)' = Planned(f) /\ content'[f] = content[f]
BY DEF Coming, Planned, files

\* A logger that goes from one place to another without entering or leaving "enqueue" changes
\* nothing that a file has or expects.
LEMMA MoveKeeps ==
  ASSUME UNCHANGED files, NEW l \in Loggers, pc[l] # "enqueue", pc'[l] # "enqueue",
         \A m \in Loggers : m # l => pc'[m] = pc[m] /\ rec'[m] = rec[m],
         NEW f
  PROVE  Kept(f)
<1>1. Coming(f)' = Coming(f) /\ Planned(f)' = Planned(f) /\ content'[f] = content[f]
  BY FilesKept
<1>2. Waiting(f)' = Waiting(f) /\ l \notin Waiting(f)
  BY DEF Waiting
<1>3. \A m \in Waiting(f) : rec'[m] = rec[m]
  BY <1>2 DEF Waiting
<1>4. Reserved(f)' = Reserved(f)
  BY <1>2, <1>3 DEF Reserved
<1>5. Has(f)' = Has(f)
  BY <1>1, <1>2, <1>3 DEF Has
<1>. QED BY <1>1, <1>2, <1>4, <1>5 DEF Kept

\* A logger comes to enqueue the record r.
LEMMA WaitEffect ==
  ASSUME Types, NEW l \in Loggers, NEW r \in Records, pc[l] # "enqueue", pc'[l] = "enqueue", rec'[l] = r,
         \A m \in Loggers : m # l => pc'[m] = pc[m] /\ rec'[m] = rec[m],
         NEW f \in Files
  PROVE  /\ Reserved(f)[l] = 0
         /\ f # r.file => /\ Waiting(f)' = Waiting(f) /\ Reserved(f)' = Reserved(f)
                          /\ {rec[m].id : m \in Waiting(f)}' = {rec[m].id : m \in Waiting(f)}
         /\ f = r.file => /\ Waiting(f)' = Waiting(f) \cup {l} /\ Reserved(f)' = [Reserved(f) EXCEPT ![l] = r.len]
                          /\ {rec[m].id : m \in Waiting(f)}' = {rec[m].id : m \in Waiting(f)} \cup {r.id}
<1>1. l \notin Waiting(f)
  BY DEF Waiting
<1>2. \A m \in Loggers : m # l => (m \in Waiting(f)' <=> m \in Waiting(f)) /\ rec'[m] = rec[m]
  BY DEF Waiting
<1>3. l \in Waiting(f)' <=> f = r.file
  BY DEF Waiting
<1>4. Waiting(f) \subseteq Loggers /\ Waiting(f)' \subseteq Loggers
  BY DEF Waiting
<1>5. Reserved(f) = [m \in Loggers |-> IF m \in Waiting(f) THEN rec[m].len ELSE 0]
      /\ Reserved(f)' = [m \in Loggers |-> IF m \in Waiting(f)' THEN rec'[m].len ELSE 0]
  BY DEF Reserved
<1>6. CASE f # r.file
  <2>1. Waiting(f)' = Waiting(f)
    BY <1>1, <1>2, <1>3, <1>4, <1>6
  <2>2. \A m \in Waiting(f) : rec'[m] = rec[m]
    BY <1>1, <1>2, <1>4
  <2>. QED BY <1>1, <1>5, <1>6, <2>1, <2>2
<1>7. CASE f = r.file
  <2>1. Waiting(f)' = Waiting(f) \cup {l}
    BY <1>1, <1>2, <1>3, <1>4, <1>7
  <2>2. Reserved(f)' = [Reserved(f) EXCEPT ![l] = r.len]
    BY <1>1, <1>2, <1>3, <1>5, <1>7
  <2>3. {rec[m].id : m \in Waiting(f)}' = {rec[m].id : m \in Waiting(f)} \cup {r.id}
    BY <1>1, <1>2, <1>4, <2>1
  <2>. QED BY <1>1, <1>5, <1>7, <2>1, <2>2, <2>3
<1>. QED BY <1>6, <1>7

\* Reserving adds a record to what the current file expects.
LEMMA ReserveEffect ==
  ASSUME Types, IInv, NEW l \in Loggers, NEW n \in Lengths, Reserve(l, n), NEW f \in Files
  PROVE  /\ Coming(f)' = Coming(f) /\ Planned(f)' = Planned(f) /\ content'[f] = content[f]
         /\ Reserved(f)[l] = 0
         /\ f # current => Kept(f)
         /\ f = current => /\ Waiting(f)' = Waiting(f) \cup {l} /\ Reserved(f)' = [Reserved(f) EXCEPT ![l] = n]
                           /\ Has(f)' = Has(f) \cup {saved + 1}
<1>1. PICK r : r = [id |-> saved + 1, file |-> current, len |-> n]
  OBVIOUS
<1>2. /\ UNCHANGED files /\ pc[l] = "idle" /\ pc' = [pc EXCEPT ![l] = "enqueue"]
      /\ rec' = [rec EXCEPT ![l] = r] /\ saved < MaxLogs
  BY <1>1 DEF Reserve, Recorded, Goto
<1>3. r \in Records /\ r.file = current /\ r.id = saved + 1 /\ r.len = n
  <2>1. saved + 1 \in 1..MaxLogs
    BY <1>2, NumbersFacts DEF Numbers, Types
  <2>. QED BY <1>1, <2>1 DEF Records, Types
<1>4. /\ pc'[l] = "enqueue" /\ rec'[l] = r
      /\ \A m \in Loggers : m # l => pc'[m] = pc[m] /\ rec'[m] = rec[m]
  BY <1>2 DEF IInv, Places, Types
<1>5. /\ Reserved(f)[l] = 0
      /\ f # r.file => /\ Waiting(f)' = Waiting(f) /\ Reserved(f)' = Reserved(f)
                       /\ {rec[m].id : m \in Waiting(f)}' = {rec[m].id : m \in Waiting(f)}
      /\ f = r.file => /\ Waiting(f)' = Waiting(f) \cup {l} /\ Reserved(f)' = [Reserved(f) EXCEPT ![l] = r.len]
                       /\ {rec[m].id : m \in Waiting(f)}' = {rec[m].id : m \in Waiting(f)} \cup {r.id}
  BY <1>2, <1>3, <1>4, WaitEffect
<1>6. Coming(f)' = Coming(f) /\ Planned(f)' = Planned(f) /\ content'[f] = content[f]
  BY <1>2, FilesKept
<1>7. Has(f) = Range(Planned(f)) \cup {rec[m].id : m \in Waiting(f)}
      /\ Has(f)' = Range(Planned(f)') \cup {rec[m].id : m \in Waiting(f)}'
  BY DEF Has
<1>. QED BY <1>3, <1>5, <1>6, <1>7 DEF Kept

\* Nothing is on its way to a file.
LEMMA NotUnderway ==
  ASSUME Types, NEW f, ~Underway(f)
  PROVE  Coming(f) = <<>> /\ Waiting(f) = {}
<1>1. Waiting(f) = {}
  BY DEF Underway, Waiting
<1>2. batch \o pending \in Seq(Records) /\ pending \o batch \in Seq(Records)
      /\ batch \in Seq(Records) /\ pending \in Seq(Records)
  BY ConcatProperties DEF Types
<1>3. Range(batch \o pending) = Range(batch) \cup Range(pending)
      /\ Range(pending \o batch) = Range(batch) \cup Range(pending)
  BY <1>2, RangeConcatenation
<1>4. ToSet(pending \o batch) = Range(pending \o batch)
  BY DEF ToSet, Range
<1>5. \A r \in Range(batch \o pending) : r.file # f
  BY <1>3, <1>4 DEF Underway
<1>6. Range(batch \o pending) \cap To(f) = {}
  BY <1>5 DEF To
<1>7. Coming(f) = <<>>
  BY <1>2, <1>6, OnlyNone DEF Coming
<1>. QED BY <1>1, <1>7

\* Zeroing leaves the current file empty, with the record of the logger to come, and with what was
\* underway to it.
LEMMA ZeroEffect ==
  ASSUME Types, IInv, NEW l \in Loggers, Zero(l), rec[l].file = current, NEW f \in Files
  PROVE  /\ Coming(f)' = Coming(f)
         /\ f # current => Kept(f)
         /\ f = current => /\ Reserved(f)[l] = 0 /\ content'[f] = <<>>
                           /\ Reserved(f)' = [Reserved(f) EXCEPT ![l] = rec[l].len]
                           /\ Has(f)' \subseteq Has(f) \cup {rec[l].id}
         /\ f = current /\ ~Underway(f) => /\ Planned(f)' = <<>> /\ \A m \in Loggers : Reserved(f)[m] = 0
                                           /\ Has(f)' = {rec[l].id}
<1>1. /\ UNCHANGED <<batch, pending, rec>> /\ pc[l] = "zero" /\ pc' = [pc EXCEPT ![l] = "enqueue"]
      /\ content' = [content EXCEPT ![current] = <<>>]
  BY DEF Zero, Zeroed, Goto
<1>2. PICK r : r = rec[l]
  OBVIOUS
<1>3. r \in Records /\ r.file = current
  BY <1>1, <1>2 DEF Types
<1>4. /\ pc'[l] = "enqueue" /\ rec'[l] = r
      /\ \A m \in Loggers : m # l => pc'[m] = pc[m] /\ rec'[m] = rec[m]
  BY <1>1, <1>2 DEF IInv, Places, Types
<1>5. /\ Reserved(f)[l] = 0
      /\ f # r.file => /\ Waiting(f)' = Waiting(f) /\ Reserved(f)' = Reserved(f)
                       /\ {rec[m].id : m \in Waiting(f)}' = {rec[m].id : m \in Waiting(f)}
      /\ f = r.file => /\ Waiting(f)' = Waiting(f) \cup {l} /\ Reserved(f)' = [Reserved(f) EXCEPT ![l] = r.len]
                       /\ {rec[m].id : m \in Waiting(f)}' = {rec[m].id : m \in Waiting(f)} \cup {r.id}
  BY <1>1, <1>3, <1>4, WaitEffect
<1>6. Coming(f)' = Coming(f)
  BY <1>1 DEF Coming
<1>7. Planned(f)' = content'[f] \o UnitsOf(Coming(f)') /\ Planned(f) = content[f] \o UnitsOf(Coming(f))
  BY DEF Planned
<1>8. Has(f) = Range(Planned(f)) \cup {rec[m].id : m \in Waiting(f)}
      /\ Has(f)' = Range(Planned(f)') \cup {rec[m].id : m \in Waiting(f)}'
  BY DEF Has
<1>9. CASE f # current
  <2>1. content'[f] = content[f]
    BY <1>1, <1>9 DEF Types
  <2>. QED BY <1>3, <1>5, <1>6, <1>7, <1>8, <1>9, <2>1 DEF Kept
<1>10. CASE f = current
  <2>1. content'[f] = <<>>
    BY <1>1, <1>10 DEF Types
  <2>2. PICK u, c : u = UnitsOf(Coming(f)) /\ c = content[f]
    OBVIOUS
  <2>3. u \in Seq(Ids) /\ c \in Seq(Ids)
    BY <2>2, DerivedTypes
  <2>4. Planned(f)' = u /\ Planned(f) = c \o u
    BY <1>6, <1>7, <2>1, <2>2, <2>3, ConcatEmptySeq
  <2>5. Range(u) \subseteq Range(c \o u)
    BY <2>3, RangeConcatenation
  <2>6. Has(f)' \subseteq Has(f) \cup {rec[l].id}
    BY <1>2, <1>3, <1>5, <1>8, <1>10, <2>4, <2>5
  <2>7. ASSUME ~Underway(f)
        PROVE  /\ Planned(f)' = <<>> /\ \A m \in Loggers : Reserved(f)[m] = 0
               /\ Has(f)' = {rec[l].id}
    <3>1. Coming(f) = <<>> /\ Waiting(f) = {}
      BY <2>7, NotUnderway
    <3>2. Planned(f)' = <<>>
      BY <2>2, <2>4, <3>1, UnitsOfEmpty
    <3>3. Range(Planned(f)') = {}
      BY <3>2 DEF Range
    <3>4. \A m \in Loggers : Reserved(f)[m] = 0
      BY <3>1 DEF Reserved
    <3>5. {rec[m].id : m \in Waiting(f)} = {}
      BY <3>1
    <3>. QED BY <1>2, <1>3, <1>5, <1>8, <1>10, <3>2, <3>3, <3>4, <3>5
  <2>. QED BY <1>2, <1>3, <1>5, <1>6, <1>10, <2>1, <2>6, <2>7
<1>. QED BY <1>9, <1>10

----------------------------------------------------------------------------
\* The effect of a step on a file.

\* Lemmas about sequences, for the units and for the records.
LEMMA IdsAssociative ==
  ASSUME NEW a \in Seq(Ids), NEW b \in Seq(Ids), NEW c \in Seq(Ids)
  PROVE  (a \o b) \o c = a \o (b \o c)
  BY ConcatAssociative

LEMMA OnlyOfOneMore ==
  ASSUME NEW q \in Seq(Records), NEW r \in Records, NEW S
  PROVE  Only(Append(q, r), S) = IF r \in S THEN Append(Only(q, S), r) ELSE Only(q, S)
  BY OnlyAppend

LEMMA OnlyOfBoth ==
  ASSUME NEW p \in Seq(Records), NEW q \in Seq(Records), NEW S
  PROVE  Only(p \o q, S) = Only(p, S) \o Only(q, S)
  BY OnlyConcat

\* Of the records that do not go to the file g those that go to the file f.
LEMMA OnlyOfOthers ==
  ASSUME NEW q \in Seq(Records), NEW g, NEW f
  PROVE  Only(Only(q, Records \ To(g)), To(f)) = IF f = g THEN <<>> ELSE Only(q, To(f))
<1>. DEFINE d == Only(q, Records \ To(g))
<1>1. d \in Seq(Records) /\ Range(d) = Range(q) \cap (Records \ To(g))
  BY OnlyFacts
<1>2. CASE f = g
  <2>1. Range(d) \cap To(f) = {}
    BY <1>1, <1>2
  <2>. QED BY <1>1, <1>2, <2>1, OnlyNone
<1>3. CASE f # g
  <2>1. PICK I, J, K : /\ I = {i \in DOMAIN q : q[i] \in Records \ To(g)}
                       /\ J = {i \in DOMAIN q : i \in I /\ q[i] \in To(f)}
                       /\ K = {i \in DOMAIN q : q[i] \in To(f)}
    OBVIOUS
  <2>2. DOMAIN q = 1..Len(q)
    BY SeqFacts
  <2>3. d = Picked(q, I) /\ Only(q, To(f)) = Picked(q, K)
    BY <2>1 DEF Only
  <2>4. Only(Picked(q, I), To(f)) = Picked(q, J)
    BY <2>1, OnlyPicked
  <2>5. To(f) \subseteq Records \ To(g)
    BY <1>3 DEF To
  <2>6. \A i \in 1..Len(q) : i \in J <=> i \in K
    BY <2>1, <2>2, <2>5
  <2>7. Picked(q, J) = Picked(q, K)
    BY <2>2, <2>6, PickedSame
  <2>. QED BY <1>3, <2>3, <2>4, <2>7
<1>. QED BY <1>2, <1>3

\* A record that is enqueued passes from the loggers to the cache, or is lost.
LEMMA EnqueueEffect ==
  ASSUME Types, IInv, NEW l \in Loggers, Enqueue(l), NEW f \in Files
  PROVE  /\ content'[f] = content[f]
         /\ Waiting(f)' = Waiting(f) \ {l}
         /\ Reserved(f)' = [Reserved(f) EXCEPT ![l] = 0]
         /\ Has(f)' \subseteq Has(f)
         /\ Len(Planned(f)') <= Len(Planned(f)) + Reserved(f)[l]
         /\ l \notin Waiting(f) => Coming(f)' = Coming(f)
<1>1. PICK r : r = rec[l]
  OBVIOUS
<1>2. /\ pc[l] = "enqueue" /\ pc' = [pc EXCEPT ![l] = "idle"]
      /\ rec' = [rec EXCEPT ![l] = NoRecord] /\ UNCHANGED <<content, batch>>
      /\ pending' = pending \/ pending' = Append(pending, r)
  BY <1>1 DEF Enqueue, Goto
<1>3. r \in Records
  BY <1>1, <1>2 DEF Types
<1>4. /\ pc'[l] = "idle"
      /\ \A m \in Loggers : m # l => pc'[m] = pc[m] /\ rec'[m] = rec[m]
  BY <1>2 DEF IInv, Places, Types
<1>5. l \in Waiting(f) <=> f = r.file
  BY <1>1, <1>2 DEF Waiting
<1>6. Waiting(f)' = Waiting(f) \ {l}
  BY <1>4 DEF Waiting
<1>7. \A m \in Waiting(f)' : rec'[m] = rec[m]
  BY <1>4, <1>6 DEF Waiting
<1>8. Reserved(f)' = [Reserved(f) EXCEPT ![l] = 0] /\ Reserved(f)[l] = IF f = r.file THEN r.len ELSE 0
  BY <1>1, <1>5, <1>6, <1>7 DEF Reserved
<1>9. /\ batch \in Seq(Records) /\ pending \in Seq(Records) /\ batch \o pending \in Seq(Records)
      /\ Coming(f) \in Seq(Records) /\ UnitsOf(Coming(f)) \in Seq(Ids)
      /\ Planned(f) \in Seq(Ids) /\ content[f] \in Seq(Ids)
  BY DerivedTypes DEF Types
<1>10. Has(f) = Range(Planned(f)) \cup {rec[m].id : m \in Waiting(f)}
      /\ Has(f)' = Range(Planned(f)') \cup {rec[m].id : m \in Waiting(f)}'
  BY DEF Has
<1>11. {rec[m].id : m \in Waiting(f)}' \subseteq {rec[m].id : m \in Waiting(f)}
  BY <1>6, <1>7
<1>12. CASE pending' = pending
  <2>1. Coming(f)' = Coming(f) /\ Planned(f)' = Planned(f)
    BY <1>2, <1>12 DEF Coming, Planned
  <2>. QED BY <1>2, <1>3, <1>6, <1>8, <1>9, <1>10, <1>11, <2>1, UnitsFacts
<1>13. CASE pending' = Append(pending, r)
  <2>1. batch' \o pending' = Append(batch \o pending, r)
    <3>1. Append(pending, r) = pending \o <<r>> /\ <<r>> \in Seq(Records)
      BY <1>3, <1>9, AppendIsConcat
    <3>2. Append(batch \o pending, r) = (batch \o pending) \o <<r>>
      BY <1>3, <1>9, AppendIsConcat
    <3>. QED BY <1>2, <1>9, <1>13, <3>1, <3>2, ConcatAssociative
  <2>2. Coming(f)' = IF r \in To(f) THEN Append(Coming(f), r) ELSE Coming(f)
    <3>1. PICK q : q = batch \o pending
      OBVIOUS
    <3>2. Only(Append(q, r), To(f)) = IF r \in To(f) THEN Append(Only(q, To(f)), r) ELSE Only(q, To(f))
      <4>1. q \in Seq(Records)
        BY <1>9, <3>1
      <4>. QED BY <1>3, <4>1, OnlyOfOneMore
    <3>3. Coming(f)' = Only(batch' \o pending', To(f)) /\ Coming(f) = Only(batch \o pending, To(f))
      BY DEF Coming
    <3>. QED BY <2>1, <3>1, <3>2, <3>3
  <2>3. r \in To(f) <=> f = r.file
    BY <1>3 DEF To
  <2>4. Planned(f)' = content[f] \o UnitsOf(Coming(f)') /\ Planned(f) = content[f] \o UnitsOf(Coming(f))
    BY <1>2 DEF Planned
  <2>5. CASE f # r.file
    <3>1. Coming(f)' = Coming(f) /\ Planned(f)' = Planned(f)
      BY <2>2, <2>3, <2>4, <2>5
    <3>. QED BY <1>2, <1>3, <1>6, <1>8, <1>9, <1>10, <1>11, <2>5, <3>1
  <2>6. CASE f = r.file
    <3>1. Coming(f)' = Coming(f) \o <<r>> /\ <<r>> \in Seq(Records)
      BY <1>3, <1>9, <2>2, <2>3, <2>6, AppendIsConcat
    <3>2. UnitsOf(Coming(f)') = UnitsOf(Coming(f)) \o Units(r)
      BY <1>3, <1>9, <3>1, UnitsOfConcat, UnitsOfOne
    <3>3. Units(r) \in Seq(Ids) /\ Len(Units(r)) = r.len /\ Range(Units(r)) = {r.id} /\ r.len \in Nat
      BY <1>3, UnitsFacts
    <3>4. Planned(f)' = Planned(f) \o Units(r)
      <4>1. PICK a, b, u : a = content[f] /\ b = UnitsOf(Coming(f)) /\ u = Units(r)
        OBVIOUS
      <4>2. a \in Seq(Ids) /\ b \in Seq(Ids) /\ u \in Seq(Ids)
        BY <1>9, <3>3, <4>1
      <4>3. (a \o b) \o u = a \o (b \o u)
        BY <4>2, ConcatAssociative
      <4>. QED BY <2>4, <3>2, <4>1, <4>3
    <3>5. Len(Planned(f)') = Len(Planned(f)) + r.len
      BY <1>9, <3>3, <3>4, ConcatProperties
    <3>6. Range(Planned(f)') = Range(Planned(f)) \cup {r.id}
      BY <1>9, <3>3, <3>4, RangeConcatenation
    <3>7. r.id \in {rec[m].id : m \in Waiting(f)}
      BY <1>1, <1>5, <2>6
    <3>8. Len(Planned(f)) \in Nat
      BY <1>9, LenProperties
    <3>. QED BY <1>2, <1>5, <1>6, <1>8, <1>10, <1>11, <2>6, <3>3, <3>5, <3>6, <3>7, <3>8
  <2>. QED BY <2>5, <2>6
<1>. QED BY <1>2, <1>12, <1>13

\* Taking a cache over to be flushed changes the order of nothing.
LEMMA FlushKeeps ==
  ASSUME Types, IInv, Held, Flush, NEW f \in Files
  PROVE  Kept(f)
<1>1. batch = <<>>
  BY LogFilesAssumption DEF Flush, Held
<1>2. PICK n \in 1..Len(pending) :
        batch' = SubSeq(pending, 1, n) /\ pending' = SubSeq(pending, n + 1, Len(pending))
  BY DEF Flush
<1>3. UNCHANGED <<content, pc, rec>>
  BY DEF Flush, loggers
<1>4. batch' \o pending' = batch \o pending
  <2>1. PICK s : s = pending
    OBVIOUS
  <2>2. s \in Seq(Records) /\ Len(s) \in 0..Len(s) /\ Len(s) - n \in 0..Len(s) /\ Len(s) - (Len(s) - n) = n
        /\ Len(s) \in Nat
    BY <1>2, <2>1 DEF Types
  <2>3. SubSeq(s, 1, Len(s)) = SubSeq(s, 1, Len(s) - (Len(s) - n)) \o SubSeq(s, Len(s) - (Len(s) - n) + 1, Len(s))
        /\ SubSeq(s, 1, Len(s)) = s
    BY <2>2, SplitAt
  <2>4. s = SubSeq(s, 1, n) \o SubSeq(s, n + 1, Len(s))
    BY <2>2, <2>3
  <2>5. <<>> \o s = s
    BY <2>2, ConcatEmptySeq
  <2>. QED BY <1>1, <1>2, <2>1, <2>4, <2>5
<1>5. Coming(f)' = Coming(f)
  BY <1>4 DEF Coming
<1>. QED BY <1>3, <1>5 DEF Kept, Planned, Waiting, Reserved, Has

\* Flushing a file brings it what was on its way to it, and nothing to another.
LEMMA FlushFileEffect ==
  ASSUME Types, IInv, FlushFile, NEW f \in Files
  PROVE  /\ Planned(f)' = Planned(f) /\ Waiting(f)' = Waiting(f)
         /\ Reserved(f)' = Reserved(f) /\ Has(f)' = Has(f)
         /\ Coming(f) = <<>> => Coming(f)' = <<>> /\ content'[f] = content[f]
         /\ content[f] # <<>> => content'[f] # <<>>
         /\ Len(content[f]) <= Len(content'[f])
<1>1. PICK g : g = Head(batch).file
  OBVIOUS
<1>2. /\ batch # <<>> /\ content' = [content EXCEPT ![g] = @ \o UnitsOf(Only(batch, To(g)))]
      /\ batch' = Only(batch, Records \ To(g)) /\ UNCHANGED <<pending, pc, rec>>
  BY <1>1 DEF FlushFile, loggers
<1>3. Waiting(f)' = Waiting(f) /\ Reserved(f)' = Reserved(f)
  BY <1>2 DEF Waiting, Reserved
<1>4. Has(f) = Range(Planned(f)) \cup {rec[m].id : m \in Waiting(f)}
      /\ Has(f)' = Range(Planned(f)') \cup {rec[m].id : m \in Waiting(f)}'
      /\ {rec[m].id : m \in Waiting(f)}' = {rec[m].id : m \in Waiting(f)}
  BY <1>2, <1>3 DEF Has
<1>5. /\ batch \in Seq(Records) /\ pending \in Seq(Records) /\ content[f] \in Seq(Ids)
      /\ \A i \in 1..Len(batch) : batch[i] \in Records
  BY DerivedTypes DEF Types
<1>6. PICK b, p, c, d : b = Only(batch, To(f)) /\ p = Only(pending, To(f)) /\ c = content[f] /\ d = batch'
  OBVIOUS
<1>7. /\ b \in Seq(Records) /\ p \in Seq(Records) /\ c \in Seq(Ids) /\ d \in Seq(Records)
      /\ UnitsOf(b) \in Seq(Ids) /\ UnitsOf(p) \in Seq(Ids)
  BY <1>2, <1>5, <1>6, OnlyFacts, UnitsOfType
<1>8. Coming(f) = b \o p /\ Coming(f)' = Only(d, To(f)) \o p
  <2>1. Coming(f) = Only(batch \o pending, To(f)) /\ Coming(f)' = Only(batch' \o pending', To(f))
    BY DEF Coming
  <2>2. Only(batch \o pending, To(f)) = b \o p
    BY <1>5, <1>6, OnlyOfBoth
  <2>3. Only(d \o pending, To(f)) = Only(d, To(f)) \o p
    <3>1. d \in Seq(Records) /\ pending \in Seq(Records)
      BY <1>5, <1>7
    <3>2. Only(d \o pending, To(f)) = Only(d, To(f)) \o Only(pending, To(f))
      BY <3>1, OnlyOfBoth
    <3>. QED BY <1>6, <3>2
  <2>. QED BY <1>2, <1>6, <2>1, <2>2, <2>3
<1>9. Planned(f) = c \o UnitsOf(b \o p) /\ Planned(f)' = content'[f] \o UnitsOf(Only(d, To(f)) \o p)
  BY <1>6, <1>8 DEF Planned
<1>10. UnitsOf(b \o p) = UnitsOf(b) \o UnitsOf(p)
  BY <1>7, UnitsOfConcat
<1>11. CASE f = g
  <2>1. content'[f] = c \o UnitsOf(b)
    BY <1>2, <1>6, <1>11 DEF Types
  <2>2. Only(d, To(f)) = <<>>
    BY <1>2, <1>5, <1>6, <1>11, OnlyOfOthers
  <2>3. Only(d, To(f)) \o p = p
    BY <1>7, <2>2, ConcatEmptySeq
  <2>4. Planned(f)' = Planned(f)
    <3>1. PICK u, v : u = UnitsOf(b) /\ v = UnitsOf(p)
      OBVIOUS
    <3>2. u \in Seq(Ids) /\ v \in Seq(Ids)
      BY <1>7, <3>1
    <3>3. (c \o u) \o v = c \o (u \o v)
      BY <1>7, <3>2, IdsAssociative
    <3>. QED BY <1>9, <1>10, <2>1, <2>3, <3>1, <3>3
  <2>5. c # <<>> => c \o UnitsOf(b) # <<>>
    BY <1>7, ConcatEmptySeq, ConcatProperties, SeqFacts
  <2>6. b # <<>>
    <3>1. Head(batch) \in Range(batch) /\ Head(batch) \in To(f)
      BY <1>1, <1>2, <1>5, <1>11 DEF Range, To
    <3>2. Range(b) = Range(batch) \cap To(f)
      BY <1>5, <1>6, OnlyFacts
    <3>. QED BY <3>1, <3>2, <1>7, SeqFacts
  <2>7. b \o p # <<>>
    BY <1>7, <2>6, ConcatProperties, SeqFacts
  <2>8. Len(c) <= Len(c \o UnitsOf(b))
    BY <1>7, ConcatProperties, LenProperties
  <2>. QED BY <1>3, <1>4, <1>6, <1>8, <2>1, <2>4, <2>5, <2>7, <2>8
<1>12. CASE f # g
  <2>1. content'[f] = c
    BY <1>2, <1>6, <1>12 DEF Types
  <2>2. Only(d, To(f)) = b
    <3>1. Only(Only(batch, Records \ To(g)), To(f)) = IF f = g THEN <<>> ELSE Only(batch, To(f))
      BY <1>5, OnlyOfOthers
    <3>. QED BY <1>2, <1>6, <1>12, <3>1
  <2>3. Coming(f)' = Coming(f) /\ Planned(f)' = Planned(f)
    BY <1>8, <1>9, <2>1, <2>2
  <2>4. Len(c) <= Len(c)
    BY <1>7, LenProperties
  <2>. QED BY <1>3, <1>4, <1>6, <2>1, <2>3, <2>4
<1>. QED BY <1>11, <1>12

\* A flush that fails brings a file no record that was not on its way to it; it repeats none unless
\* the file counts as one that holds a record twice.
LEMMA FlushFailsEffect ==
  ASSUME Types, IInv, FlushFails, NEW f \in Files
  PROVE  /\ Waiting(f)' = Waiting(f) /\ Reserved(f)' = Reserved(f) /\ Has(f)' \subseteq Has(f)
         /\ f \notin repeated' => Len(Planned(f)') <= Len(Planned(f))
         /\ Coming(f) = <<>> => Coming(f)' = <<>> /\ content'[f] = content[f]
         /\ content[f] # <<>> => content'[f] # <<>>
         /\ Len(content[f]) <= Len(content'[f])
<1>0. PICK g, own, rest, n, written, left : Failed(g, own, rest, n, written, left)
  BY FlushFailsFacts
<1>1. /\ g \in Files /\ own \in Seq(Records) /\ written \in Seq(Records) /\ left \in Seq(Records)
      /\ rest \in Seq(Records) /\ content' = [content EXCEPT ![g] = @ \o UnitsOf(written)]
      /\ pending' = (left \o rest) \o pending /\ repeated' \subseteq repeated \cup {g}
      /\ batch' = <<>> /\ UNCHANGED <<current, size, unzeroed, hollow, loggers, astray>>
      /\ own = Only(batch, To(g)) /\ rest = Only(batch, Records \ To(g)) /\ own # <<>>
      /\ n \in 0..Len(own) /\ left = Unflagged(own, n) /\ written \in {<<>>, SubSeq(own, 1, n)}
      /\ repeated \subseteq repeated'
      /\ g \notin repeated' => written = <<>> \/ n = Len(own)
  BY <1>0 DEF Failed
<1>2. Waiting(f)' = Waiting(f) /\ Reserved(f)' = Reserved(f)
  BY <1>1 DEF Waiting, Reserved, loggers
<1>3. Has(f) = Range(Planned(f)) \cup {rec[m].id : m \in Waiting(f)}
      /\ Has(f)' = Range(Planned(f)') \cup {rec[m].id : m \in Waiting(f)}'
      /\ {rec[m].id : m \in Waiting(f)}' = {rec[m].id : m \in Waiting(f)}
  BY <1>1, <1>2 DEF Has, loggers
<1>4. PICK b, p, c : b = Only(batch, To(f)) /\ p = Only(pending, To(f)) /\ c = content[f]
  OBVIOUS
<1>5. /\ batch \in Seq(Records) /\ pending \in Seq(Records)
      /\ b \in Seq(Records) /\ p \in Seq(Records) /\ c \in Seq(Ids)
  BY <1>4, OnlyFacts DEF Types
<1>6. Coming(f) = b \o p
  <2>1. Only(batch \o pending, To(f)) = Only(batch, To(f)) \o Only(pending, To(f))
    BY <1>5, OnlyOfBoth
  <2>. QED BY <1>4, <2>1 DEF Coming
<1>7. Coming(f)' = (Only(left, To(f)) \o Only(rest, To(f))) \o p
  <2>1. left \o rest \in Seq(Records)
    BY <1>1, ConcatProperties
  <2>2. Only((left \o rest) \o pending, To(f)) = Only(left \o rest, To(f)) \o p
    <3>1. PICK t \in Seq(Records) : t = left \o rest
      BY <2>1
    <3>2. Only(t \o pending, To(f)) = Only(t, To(f)) \o Only(pending, To(f))
      BY <1>5, OnlyOfBoth
    <3>. QED BY <1>4, <3>1, <3>2
  <2>3. Only(left \o rest, To(f)) = Only(left, To(f)) \o Only(rest, To(f))
    <3>1. left \in Seq(Records) /\ rest \in Seq(Records)
      BY <1>1
    <3>. QED BY <3>1, OnlyOfBoth
  <2>4. (left \o rest) \o pending \in Seq(Records)
    <3>1. PICK t : t = left \o rest
      OBVIOUS
    <3>. QED BY <1>5, <2>1, <3>1, ConcatProperties
  <2>5. batch' \o pending' = pending'
    BY <1>1, <2>4, ConcatEmptySeq
  <2>. QED BY <1>1, <2>2, <2>3, <2>5 DEF Coming
<1>8. /\ Range(own) = Range(batch) \cap To(g)
      /\ Range(left) \subseteq Range(own) /\ Range(written) \subseteq Range(own)
      /\ Len(UnitsOf(left)) <= Len(UnitsOf(own))
      /\ n = Len(own) => left = <<>> /\ written \in {<<>>, own}
  <2>1. Range(own) = Range(batch) \cap To(g)
    BY <1>1, <1>5, OnlyFacts
  <2>2. /\ Range(left) \subseteq Range(own) /\ Range(SubSeq(own, 1, n)) \subseteq Range(own)
        /\ Len(UnitsOf(left)) <= Len(UnitsOf(own))
        /\ n = Len(own) => left = <<>> /\ SubSeq(own, 1, n) = own
    BY <1>1, UnflaggedFacts
  <2>3. Range(<<>>) = {}
    BY DEF Range
  <2>. QED BY <1>1, <2>1, <2>2, <2>3
<1>9. Only(rest, To(f)) = IF f = g THEN <<>> ELSE b
  <2>1. Only(Only(batch, Records \ To(g)), To(f)) = IF f = g THEN <<>> ELSE Only(batch, To(f))
    BY <1>5, OnlyOfOthers
  <2>. QED BY <1>1, <1>4, <2>1
<1>10. PICK u, v, w, x : u = UnitsOf(own) /\ v = UnitsOf(left) /\ w = UnitsOf(p) /\ x = UnitsOf(written)
  OBVIOUS
<1>11. u \in Seq(Ids) /\ v \in Seq(Ids) /\ w \in Seq(Ids) /\ x \in Seq(Ids)
  BY <1>1, <1>5, <1>10, UnitsOfType
<1>12. CASE f # g
  <2>1. content'[f] = content[f]
    BY <1>1, <1>12 DEF Types
  <2>2. Only(left, To(f)) = <<>>
    <3>1. Range(left) \cap To(f) = {}
      BY <1>8, <1>12 DEF To
    <3>. QED BY <1>1, <3>1, OnlyNone
  <2>3. Coming(f)' = Coming(f)
    BY <1>5, <1>6, <1>7, <1>9, <1>12, <2>2, ConcatEmptySeq
  <2>4. Planned(f)' = Planned(f)
    BY <2>1, <2>3 DEF Planned
  <2>5. Len(Planned(f)) \in Nat /\ Len(content[f]) \in Nat
    BY DerivedTypes, LenProperties
  <2>. QED BY <1>2, <1>3, <2>1, <2>3, <2>4, <2>5
<1>13. CASE f = g
  <2>1. content'[f] = c \o x /\ b = own
    BY <1>1, <1>4, <1>10, <1>13 DEF Types
  <2>2. Only(left, To(f)) = left
    <3>1. Range(left) \subseteq To(f)
      BY <1>8, <1>13
    <3>. QED BY <1>1, <3>1, OnlyAll
  <2>3. Coming(f)' = left \o p
    <3>1. left \o <<>> = left
      BY <1>1, ConcatEmptySeq
    <3>. QED BY <1>7, <1>9, <1>13, <2>2, <3>1
  <2>4. Planned(f) = c \o (u \o w) /\ Planned(f)' = (c \o x) \o (v \o w)
    <3>1. UnitsOf(own \o p) = u \o w /\ UnitsOf(left \o p) = v \o w
      BY <1>1, <1>5, <1>10, UnitsOfConcat
    <3>. QED BY <1>4, <1>6, <2>1, <2>3, <3>1 DEF Planned
  <2>5. /\ u \o w \in Seq(Ids) /\ v \o w \in Seq(Ids) /\ c \o x \in Seq(Ids)
        /\ Range(u \o w) = Range(u) \cup Range(w) /\ Range(v \o w) = Range(v) \cup Range(w)
        /\ Range(c \o x) = Range(c) \cup Range(x)
        /\ Len(u \o w) = Len(u) + Len(w) /\ Len(v \o w) = Len(v) + Len(w) /\ Len(c \o x) = Len(c) + Len(x)
    BY <1>5, <1>11, ConcatProperties, RangeConcatenation
  <2>6. PICK a, y, z : a = u \o w /\ y = v \o w /\ z = c \o x
    OBVIOUS
  <2>7. /\ Range(c \o a) = Range(c) \cup Range(a) /\ Range(z \o y) = Range(z) \cup Range(y)
        /\ Len(c \o a) = Len(c) + Len(a) /\ Len(z \o y) = Len(z) + Len(y)
    <3>1. a \in Seq(Ids) /\ y \in Seq(Ids) /\ z \in Seq(Ids)
      BY <2>5, <2>6
    <3>2. Range(c \o a) = Range(c) \cup Range(a) /\ Range(z \o y) = Range(z) \cup Range(y)
      BY <1>5, <3>1, RangeConcatenation
    <3>3. Len(c \o a) = Len(c) + Len(a) /\ Len(z \o y) = Len(z) + Len(y)
      BY <1>5, <3>1, ConcatProperties
    <3>. QED BY <3>2, <3>3
  <2>8. Range(v) \subseteq Range(u) /\ Range(x) \subseteq Range(u)
    <3>1. /\ \A k : k \in Range(u) <=> \E r \in Range(own) : k = r.id
          /\ \A k : k \in Range(v) <=> \E r \in Range(left) : k = r.id
          /\ \A k : k \in Range(x) <=> \E r \in Range(written) : k = r.id
      BY <1>1, <1>10, UnitsOfEntries
    <3>. QED BY <1>8, <3>1
  <2>9. Range(Planned(f)') \subseteq Range(Planned(f))
    BY <2>4, <2>5, <2>6, <2>7, <2>8
  <2>10. Has(f)' \subseteq Has(f)
    BY <1>3, <2>9
  <2>11. Len(c) \in Nat /\ Len(u) \in Nat /\ Len(v) \in Nat /\ Len(w) \in Nat /\ Len(x) \in Nat
    BY <1>5, <1>11, LenProperties
  <2>12. ASSUME f \notin repeated'
         PROVE  Len(Planned(f)') <= Len(Planned(f))
    <3>1. Len(x) + Len(v) <= Len(u)
      <4>1. Len(UnitsOf(<<>>)) = 0
        BY UnitsOfEmpty
      <4>2. CASE written = <<>>
        BY <1>8, <1>10, <2>11, <4>1, <4>2
      <4>3. CASE n = Len(own)
        BY <1>8, <1>10, <2>11, <4>1, <4>3
      <4>. QED BY <1>1, <1>13, <2>12, <4>2, <4>3
    <3>. QED BY <2>4, <2>5, <2>6, <2>7, <2>11, <3>1
  <2>13. Coming(f) # <<>>
    BY <1>1, <1>5, <1>6, <2>1, ConcatProperties, SeqFacts
  <2>14. content[f] # <<>> => content'[f] # <<>>
    BY <1>4, <1>5, <1>11, <2>1, ConcatEmptySeq, ConcatProperties, SeqFacts
  <2>15. Len(content[f]) <= Len(content'[f])
    BY <1>4, <2>1, <2>5, <2>11
  <2>. QED BY <1>2, <2>10, <2>12, <2>13, <2>14, <2>15
<1>. QED BY <1>12, <1>13

\* A restart leaves the files as they are and loses the rest.
LEMMA RestartEffect ==
  ASSUME Types, IInv, Restart, NEW f \in Files
  PROVE  /\ content'[f] = content[f] /\ Planned(f)' = content[f]
         /\ Coming(f)' = <<>> /\ Waiting(f)' = {} /\ \A l \in Loggers : Reserved(f)'[l] = 0
         /\ Has(f)' \subseteq Has(f) /\ Len(content[f]) <= Len(Planned(f))
<1>1. /\ content' = content /\ pending' = <<>> /\ batch' = <<>> /\ pc' = [l \in Loggers |-> "idle"]
  BY DEF Restart
<1>2. Waiting(f)' = {}
  BY <1>1 DEF Waiting
<1>3. \A l \in Loggers : Reserved(f)'[l] = 0
  BY <1>2 DEF Reserved
<1>4. Coming(f)' = <<>>
  <2>1. batch' \o pending' = <<>>
    BY <1>1, ConcatEmptySeq, EmptySeq
  <2>. QED BY <2>1, OnlyEmpty DEF Coming
<1>5. /\ content[f] \in Seq(Ids) /\ UnitsOf(Coming(f)) \in Seq(Ids)
      /\ Planned(f) = content[f] \o UnitsOf(Coming(f))
  BY DerivedTypes DEF Planned
<1>6. Planned(f)' = content[f]
  BY <1>1, <1>4, <1>5, UnitsOfEmpty, ConcatEmptySeq DEF Planned
<1>7. Range(content[f]) \subseteq Range(Planned(f))
  BY <1>5, RangeConcatenation
<1>8. Has(f)' \subseteq Has(f)
  BY <1>2, <1>6, <1>7 DEF Has
<1>9. Len(content[f]) <= Len(Planned(f))
  BY <1>5, ConcatProperties, LenProperties
<1>. QED BY <1>1, <1>2, <1>3, <1>4, <1>6, <1>8, <1>9

----------------------------------------------------------------------------
\* Sizes and order.

\* What is in a file, underway to it or reserved in it fits: in the current one, into what
\* log_file_current_size says.
Limit(f) == IF f = current THEN size ELSE MaxSize
Counted == \A f \in Files : IsFiniteSet(Cells(Reserved(f)))
Bounded == \A f \in Files \ (unzeroed \cup repeated) : Len(Planned(f)) + Total(Reserved(f)) <= Limit(f)

\* The record of a logger that rotates is the latest one, and the file that it is going to zero is
\* the current one.
Claimed ==
  \A l \in Loggers : pc[l] \in Rotating =>
    /\ rec[l].file = current /\ rec[l].len = size /\ rec[l].id = saved /\ current \in unzeroed
    /\ \A f \in Files \ {current} : \A a \in Has(f) : a < saved

\* The order of the files, with what is underway to them.
Precedes(f, g) == \E i, j \in 1..NumFiles : i < j /\ f = Ring[i] /\ g = Ring[j]

Latest == \A f \in Files : \A a \in Has(f) : a <= saved
Ordered ==
  ~astray => \A f, g \in Files \ unzeroed :
    Precedes(f, g) => \A a \in Has(f), b \in Has(g) : a < b

\* A file that is empty, but was not left so, has never been the current one, nor has any before it,
\* and nothing is underway to it.
Filled ==
  ~astray => \A f \in Files \ {current} : f \notin hollow =>
    /\ content[f] = <<>> => \A g : Precedes(g, f) => g \notin hollow /\ content[g] = <<>>
    /\ Coming(f) # <<>> \/ Waiting(f) # {} => content[f] # <<>>

Stored == Types /\ Counted /\ Bounded /\ Claimed /\ Latest /\ Ordered /\ Filled

LEMMA Sizes ==
  ASSUME Types
  PROVE  MaxSize \in Nat /\ size \in Nat /\ saved \in Nat /\ current \in Files
  BY NumbersFacts DEF Numbers, Types

\* Nothing comes after the current file.
LEMMA PrecedesFacts ==
  ASSUME Types, NEW f, NEW g, Precedes(f, g)
  PROVE  f \in Files /\ g \in Files /\ f # g /\ f # current
<1>1. NumFiles \in Nat /\ NumFiles > 0
  BY NumbersFacts DEF Numbers
<1>2. /\ \A i \in 1..NumFiles : Ring[i] \in Files
      /\ Ring[NumFiles] = current
      /\ \A i, j \in 1..NumFiles : Ring[i] = Ring[j] => i = j
  BY RingFacts DEF Types
<1>3. PICK i, j \in 1..NumFiles : i < j /\ f = Ring[i] /\ g = Ring[j]
  BY DEF Precedes
<1>4. i # NumFiles /\ i # j /\ NumFiles \in 1..NumFiles
  BY <1>1, <1>3
<1>. QED BY <1>2, <1>3, <1>4

\* When the next file has become the current one, the others stay in order.
LEMMA PrecedesAdvances ==
  ASSUME Types, current' = Following(current), NEW f, NEW g, Precedes(f, g)', g # current'
  PROVE  Precedes(f, g)
<1>1. NumFiles \in Nat /\ NumFiles > 0
  BY NumbersFacts DEF Numbers
<1>2. /\ \A i \in 1..(NumFiles - 1) : Ring'[i] = Ring[i + 1]
      /\ Ring'[NumFiles] = Ring[1] /\ Ring[1] = current'
  BY RingAdvances, RingFacts DEF Types
<1>3. PICK i, j \in 1..NumFiles : i < j /\ f = Ring'[i] /\ g = Ring'[j]
  BY DEF Precedes
<1>4. j # NumFiles
  BY <1>2, <1>3
<1>5. i \in 1..(NumFiles - 1) /\ j \in 1..(NumFiles - 1)
      /\ i + 1 \in 1..NumFiles /\ j + 1 \in 1..NumFiles /\ i + 1 < j + 1
  BY <1>1, <1>3, <1>4
<1>. QED BY <1>2, <1>3, <1>5 DEF Precedes

\* The logger that holds logSysMutex is the only one that rotates.
LEMMA OneRotates ==
  ASSUME IInv, NEW l \in Loggers, pc[l] \in Rotating
  PROVE  logm = l /\ \A m \in Loggers : pc[m] \in Rotating => m = l
BY DEF IInv, MutexesReturned, Rotating

LEMMA NoneRotates ==
  ASSUME IInv, logm = Nobody
  PROVE  \A m \in Loggers : pc[m] \notin Rotating
BY Distinct DEF IInv, MutexesReturned, Rotating

\* What follows shows, action by action, that the files stay as Stored says.
LEMMA ReserveStored ==
  ASSUME IInv, Stored, Types', NEW l \in Loggers, NEW n \in Lengths, Reserve(l, n)
  PROVE  Stored'
<1>. USE DEF Stored
<1>1. \A f \in Files :
         /\ Coming(f)' = Coming(f) /\ Planned(f)' = Planned(f) /\ content'[f] = content[f]
         /\ Reserved(f)[l] = 0
         /\ f # current => Kept(f)
         /\ f = current => /\ Waiting(f)' = Waiting(f) \cup {l} /\ Reserved(f)' = [Reserved(f) EXCEPT ![l] = n]
                           /\ Has(f)' = Has(f) \cup {saved + 1}
  BY ReserveEffect
<1>2. /\ logm = Nobody /\ size' = size + n /\ saved' = saved + 1 /\ pc[l] = "idle"
      /\ pc' = [pc EXCEPT ![l] = "enqueue"] /\ UNCHANGED <<current, unzeroed, hollow, repeated, astray>>
  BY DEF Reserve, Recorded, Goto, marks, faults
<1>3. \A m \in Loggers : pc'[m] \notin Rotating
  BY <1>2, NoneRotates DEF IInv, Places, Rotating
<1>4. Claimed'
  BY <1>3 DEF Claimed
<1>5. Ring' = Ring
  BY <1>2 DEF Ring
<1>6. n \in Nat /\ saved \in Nat /\ size \in Nat
  BY NumbersFacts DEF Numbers, Types
<1>7. ASSUME NEW f \in Files
      PROVE  /\ IsFiniteSet(Cells(Reserved(f)')) /\ Total(Reserved(f)) \in Nat
             /\ Total(Reserved(f)') = IF f = current THEN Total(Reserved(f)) + n ELSE Total(Reserved(f))
  <2>1. PICK c : c = Reserved(f)
    OBVIOUS
  <2>2. c \in [Loggers -> Nat] /\ IsFiniteSet(Cells(c)) /\ c[l] = 0
    BY <1>1, <2>1, DerivedTypes DEF Counted
  <2>3. /\ IsFiniteSet(Cells([c EXCEPT ![l] = n]))
        /\ Total([c EXCEPT ![l] = n]) = Total(c) - 0 + n /\ Total(c) \in Nat
    BY <1>6, <2>2, TotalExcept
  <2>4. CASE f = current
    <3>1. Reserved(f)' = [c EXCEPT ![l] = n]
      BY <1>1, <2>1, <2>4
    <3>. QED BY <1>6, <2>1, <2>3, <2>4, <3>1
  <2>5. CASE f # current
    <3>1. Reserved(f)' = c
      BY <1>1, <2>1, <2>5 DEF Kept
    <3>. QED BY <2>1, <2>2, <2>3, <2>5, <3>1
  <2>. QED BY <2>4, <2>5
<1>8. Counted'
  BY <1>7 DEF Counted, Cells
<1>9. Bounded'
  <2>. SUFFICES ASSUME NEW f \in Files \ (unzeroed \cup repeated)
                PROVE  Len(Planned(f)') + Total(Reserved(f)') <= (IF f = current THEN size' ELSE MaxSize)
    BY <1>2 DEF Bounded, Limit, Total
  <2>1. Len(Planned(f)) + Total(Reserved(f)) <= (IF f = current THEN size ELSE MaxSize)
    BY DEF Bounded, Limit
  <2>2. Len(Planned(f)) \in Nat /\ Planned(f)' = Planned(f)
    BY <1>1, DerivedTypes, LenProperties
  <2>. QED BY <1>2, <1>6, <1>7, <2>1, <2>2, NumbersFacts DEF Numbers
<1>10. ASSUME NEW f \in Files, NEW a \in Has(f)' PROVE a \in Has(f) \/ (a = saved + 1 /\ f = current)
  <2>1. CASE f = current
    BY <1>1, <2>1
  <2>2. CASE f # current
    BY <1>1, <2>2 DEF Kept
  <2>. QED BY <2>1, <2>2
<1>11. \A f \in Files : Has(f) \subseteq Ids /\ \A a \in Has(f) : a \in Nat
  BY DerivedTypes DEF Ids
<1>12. Latest'
  BY <1>2, <1>6, <1>10, <1>11 DEF Latest
<1>13. Ordered'
  <2>. SUFFICES ASSUME ~astray, NEW f \in Files \ unzeroed, NEW g \in Files \ unzeroed, Precedes(f, g),
                       NEW a \in Has(f)', NEW b \in Has(g)'
                PROVE  a < b
    BY <1>2, <1>5 DEF Ordered, Precedes
  <2>1. a \in Has(f)
    BY <1>10, PrecedesFacts
  <2>2. b \in Has(g) \/ b = saved + 1
    BY <1>10
  <2>3. b \in Has(g) => a < b
    BY <2>1 DEF Ordered
  <2>4. a <= saved /\ a \in Nat
    BY <1>11, <2>1 DEF Latest
  <2>. QED BY <1>6, <2>2, <2>3, <2>4
<1>14. Filled'
  <2>. SUFFICES ASSUME ~astray, NEW f \in Files \ {current}, f \notin hollow
                PROVE  /\ content'[f] = <<>> => \A g : Precedes(g, f) => g \notin hollow /\ content'[g] = <<>>
                       /\ Coming(f)' # <<>> \/ Waiting(f)' # {} => content'[f] # <<>>
    BY <1>2, <1>5 DEF Filled, Precedes
  <2>1. \A g \in Files : content'[g] = content[g]
    BY <1>1
  <2>2. Coming(f)' = Coming(f) /\ Waiting(f)' = Waiting(f)
    BY <1>1 DEF Kept
  <2>. QED BY <2>1, <2>2, PrecedesFacts DEF Filled
<1>. QED BY <1>4, <1>8, <1>9, <1>12, <1>13, <1>14

\* Nothing is added to the file f and what is underway to it, unless it counts as one that holds a
\* record twice, and it is not emptied.
Settles(f) ==
  /\ IsFiniteSet(Cells(Reserved(f)'))
  /\ f \notin repeated' => Len(Planned(f)') + Total(Reserved(f)') <= Len(Planned(f)) + Total(Reserved(f))
  /\ Has(f)' \subseteq Has(f)
  /\ content[f] # <<>> => content'[f] # <<>>
  /\ content'[f] # <<>> => content[f] # <<>> \/ Coming(f) # <<>>
  /\ Coming(f)' # <<>> \/ Waiting(f)' # {} => Coming(f) # <<>> \/ Waiting(f) # {}

LEMMA Sums ==
  ASSUME Types, IInv, Counted, NEW f \in Files
  PROVE  Len(Planned(f)) \in Nat /\ Total(Reserved(f)) \in Nat
<1>1. Len(Planned(f)) \in Nat
  BY DerivedTypes, LenProperties
<1>2. IsFiniteSet(Cells(Reserved(f)))
  BY DEF Counted
<1>. QED BY <1>1, <1>2, FS_CardinalityType DEF Total, Cells

LEMMA KeptSettles ==
  ASSUME Types, IInv, Counted, NEW f \in Files, Kept(f)
  PROVE  Settles(f)
<1>1. IsFiniteSet(Cells(Reserved(f)')) /\ Total(Reserved(f)') = Total(Reserved(f)) /\ Planned(f)' = Planned(f)
  BY DEF Counted, Kept
<1>2. Len(Planned(f)) \in Nat /\ Total(Reserved(f)) \in Nat
  BY Sums
<1>3. Has(f)' = Has(f) /\ content'[f] = content[f] /\ Coming(f)' = Coming(f) /\ Waiting(f)' = Waiting(f)
  BY DEF Kept
<1>. QED BY <1>1, <1>2, <1>3 DEF Settles

LEMMA PlannedType ==
  ASSUME Types', NEW f \in Files
  PROVE  Planned(f)' \in Seq(Ids)
<1>1. content'[f] \in Seq(Ids) /\ batch' \o pending' \in Seq(Records)
  BY ConcatProperties DEF Types
<1>2. content'[f] \o UnitsOf(Only(batch' \o pending', To(f))) \in Seq(Ids)
  BY <1>1, OnlyFacts, UnitsOfType, ConcatProperties
<1>. QED BY <1>2 DEF Planned, Coming

\* A step that adds nothing to a file but may lose records keeps sizes and order.
LEMMA SettlesStored ==
  ASSUME IInv, Stored, Types', UNCHANGED <<current, size, unzeroed, hollow, astray, saved>>,
         repeated \subseteq repeated', \A f \in Files : Settles(f),
         \A m \in Loggers : pc'[m] \in Rotating => pc[m] \in Rotating /\ rec'[m] = rec[m]
  PROVE  Stored'
<1>. USE DEF Stored
<1>1. Ring' = Ring
  BY DEF Ring
<1>2. Counted'
  BY DEF Settles, Counted, Cells
<1>3. Bounded'
  <2>. SUFFICES ASSUME NEW f \in Files \ (unzeroed \cup repeated')
                PROVE  Len(Planned(f)') + Total(Reserved(f)') <= Limit(f)
    BY DEF Bounded, Limit, Total
  <2>1. Len(Planned(f)) + Total(Reserved(f)) <= Limit(f)
    BY DEF Bounded
  <2>2. Len(Planned(f)) \in Nat /\ Total(Reserved(f)) \in Nat
    BY Sums
  <2>3. Len(Planned(f)') \in Nat
    BY PlannedType, LenProperties
  <2>4. Total(Reserved(f)') \in Nat
    BY FS_CardinalityType DEF Settles, Total, Cells
  <2>5. Limit(f) \in Nat
    BY Sizes DEF Limit
  <2>6. Len(Planned(f)') + Total(Reserved(f)') <= Len(Planned(f)) + Total(Reserved(f))
    BY DEF Settles
  <2>. QED BY <2>1, <2>2, <2>3, <2>4, <2>5, <2>6
<1>4. \A f \in Files : Has(f)' \subseteq Has(f)
  BY DEF Settles
<1>5. Claimed'
  BY <1>4 DEF Claimed
<1>6. Latest'
  BY <1>4 DEF Latest
<1>7. Ordered'
  <2>. SUFFICES ASSUME ~astray, NEW f \in Files \ unzeroed, NEW g \in Files \ unzeroed, Precedes(f, g),
                       NEW a \in Has(f)', NEW b \in Has(g)'
                PROVE  a < b
    BY <1>1 DEF Ordered, Precedes
  <2>. QED BY <1>4 DEF Ordered
<1>8. Filled'
  <2>. SUFFICES ASSUME ~astray, NEW f \in Files \ {current}, f \notin hollow
                PROVE  /\ content'[f] = <<>> => \A g : Precedes(g, f) => g \notin hollow /\ content'[g] = <<>>
                       /\ Coming(f)' # <<>> \/ Waiting(f)' # {} => content'[f] # <<>>
    BY <1>1 DEF Filled, Precedes
  <2>1. Coming(f) # <<>> \/ Waiting(f) # {} => content[f] # <<>>
    BY DEF Filled
  <2>2. content'[f] = <<>> => content[f] = <<>>
    BY DEF Settles
  <2>3. content[f] # <<>> => content'[f] # <<>>
    BY DEF Settles
  <2>4. ASSUME content[f] = <<>>, NEW g, Precedes(g, f) PROVE g \notin hollow /\ content'[g] = <<>>
    <3>1. g \in Files \ {current} /\ g \notin hollow /\ content[g] = <<>>
      BY <2>4, PrecedesFacts DEF Filled
    <3>2. Coming(g) = <<>>
      BY <3>1 DEF Filled
    <3>. QED BY <3>1, <3>2 DEF Settles
  <2>5. Coming(f)' # <<>> \/ Waiting(f)' # {} => Coming(f) # <<>> \/ Waiting(f) # {}
    BY DEF Settles
  <2>. QED BY <2>1, <2>2, <2>3, <2>4, <2>5
<1>. QED BY <1>2, <1>3, <1>5, <1>6, <1>7, <1>8

\* The file that becomes the current one was the oldest; it counts as not zeroed.
LEMMA RotateStored ==
  ASSUME IInv, Stored, Types', NEW l \in Loggers, NEW n \in Lengths, Rotate(l, n)
  PROVE  Stored'
<1>. USE DEF Stored
<1>a. PICK F : F = Following(current)
  OBVIOUS
<1>1. /\ UNCHANGED <<files, repeated, astray>> /\ logm = Nobody
      /\ current' = F /\ size' = n /\ unzeroed' = unzeroed \cup {F}
      /\ hollow' = (IF content[current] = <<>> THEN hollow \cup {current} ELSE hollow) \ {F}
      /\ pc[l] = "idle" /\ pc' = [pc EXCEPT ![l] = "open"]
      /\ saved' = saved + 1 /\ rec' = [rec EXCEPT ![l] = [id |-> saved + 1, file |-> F, len |-> n]]
  BY <1>a DEF Rotate, Advance, Recorded, Goto, faults
<1>2. pc'[l] = "open" /\ \A m \in Loggers : m # l => pc'[m] = pc[m] /\ rec'[m] = rec[m]
  BY <1>1 DEF IInv, Places, Types
<1>3. \A f \in Files : Kept(f)
  BY <1>1, <1>2, MoveKeeps
<1>4. F \in Files /\ current \in Files
  BY <1>a, FollowingType DEF Types
<1>5. Counted'
  BY <1>3 DEF Counted, Kept, Cells
<1>6. n \in 1..MaxSize /\ MaxSize \in Nat /\ size \in 0..MaxSize /\ saved \in Nat
  BY NumbersFacts DEF Numbers, Types
<1>7. Bounded'
  <2>. SUFFICES ASSUME NEW f \in Files \ (unzeroed \cup {F} \cup repeated)
                PROVE  Len(Planned(f)') + Total(Reserved(f)') <= MaxSize
    BY <1>1 DEF Bounded, Limit, Total
  <2>1. Len(Planned(f)) + Total(Reserved(f)) <= Limit(f)
    BY DEF Bounded
  <2>2. Planned(f)' = Planned(f) /\ Reserved(f)' = Reserved(f)
    BY <1>3 DEF Kept
  <2>3. Len(Planned(f)) \in Nat /\ Total(Reserved(f)) \in Nat
    BY Sums
  <2>. QED BY <1>6, <2>1, <2>2, <2>3 DEF Limit
<1>8. \A f \in Files : Has(f)' = Has(f)
  BY <1>3 DEF Kept
<1>9. \A f \in Files : \A a \in Has(f) : a \in Nat /\ a <= saved
  BY DerivedTypes DEF Latest, Ids
<1>11. Claimed'
  <2>. SUFFICES ASSUME NEW m \in Loggers, pc'[m] \in Rotating
                PROVE  /\ rec'[m].file = F /\ rec'[m].len = n /\ rec'[m].id = saved + 1 /\ F \in unzeroed'
                       /\ \A f \in Files : \A a \in Has(f)' : a < saved + 1
    BY <1>1 DEF Claimed
  <2>1. m = l
    BY <1>1, <1>2, NoneRotates
  <2>2. rec'[m] = [id |-> saved + 1, file |-> F, len |-> n]
    BY <1>1, <2>1 DEF Types
  <2>3. \A f \in Files : \A a \in Has(f)' : a < saved + 1
    BY <1>6, <1>8, <1>9
  <2>. QED BY <1>1, <2>2, <2>3
<1>12. Latest'
  <2>1. \A f \in Files : \A a \in Has(f)' : a <= saved + 1
    BY <1>6, <1>8, <1>9
  <2>. QED BY <1>1, <2>1 DEF Latest
<1>13. \A f, g : Precedes(f, g)' /\ g # F => Precedes(f, g)
  BY <1>a, <1>1, PrecedesAdvances
<1>14. Ordered'
  <2>. SUFFICES ASSUME ~astray, NEW f \in Files \ unzeroed', NEW g \in Files \ unzeroed', Precedes(f, g)',
                       NEW a \in Has(f)', NEW b \in Has(g)'
                PROVE  a < b
    BY <1>1 DEF Ordered
  <2>1. f \in Files \ unzeroed /\ g \in Files \ unzeroed /\ g # F
    BY <1>1
  <2>2. a \in Has(f) /\ b \in Has(g)
    BY <1>8
  <2>. QED BY <1>13, <2>1, <2>2 DEF Ordered
<1>15. Filled'
  <2>. SUFFICES ASSUME ~astray, NEW f \in Files \ {F}, f \notin hollow'
                PROVE  /\ content[f] = <<>> => \A g : Precedes(g, f)' => g \notin hollow' /\ content[g] = <<>>
                       /\ Coming(f)' # <<>> \/ Waiting(f)' # {} => content[f] # <<>>
    BY <1>1 DEF Filled, files
  <2>1. Coming(f)' = Coming(f) /\ Waiting(f)' = Waiting(f)
    BY <1>3 DEF Kept
  <2>2. CASE f = current
    BY <1>1, <2>2
  <2>3. CASE f # current
    <3>1. f \notin hollow
      BY <1>1, <2>3
    <3>2. ASSUME content[f] = <<>>, NEW g, Precedes(g, f)' PROVE g \notin hollow' /\ content[g] = <<>>
      <4>1. Precedes(g, f)
        BY <1>13, <3>2
      <4>2. g # current
        BY <4>1, PrecedesFacts
      <4>3. g \notin hollow /\ content[g] = <<>>
        BY <2>3, <3>1, <3>2, <4>1 DEF Filled
      <4>. QED BY <1>1, <4>2, <4>3
    <3>. QED BY <2>1, <2>3, <3>1, <3>2 DEF Filled
  <2>. QED BY <2>2, <2>3
<1>. QED BY <1>5, <1>7, <1>11, <1>12, <1>14, <1>15

\* Zeroed with nothing underway to it, it is in order with all the others: its record is the latest.
LEMMA ZeroStored ==
  ASSUME IInv, Stored, Types', NEW l \in Loggers, Zero(l)
  PROVE  Stored'
<1>. USE DEF Stored
<1>1. /\ pc[l] = "zero" /\ pc' = [pc EXCEPT ![l] = "enqueue"]
      /\ IF Underway(current) THEN UNCHANGED <<unzeroed, repeated>>
         ELSE unzeroed' = unzeroed \ {current} /\ repeated' = repeated \ {current}
      /\ UNCHANGED <<current, size, hollow, saved, astray>>
  BY DEF Zero, Zeroed, Goto, faults
<1>2. current \in Files /\ size \in Nat /\ MaxSize \in Nat /\ saved \in Nat
  BY Sizes
<1>3. /\ rec[l].file = current /\ rec[l].len = size /\ rec[l].id = saved /\ current \in unzeroed
      /\ \A f \in Files \ {current} : \A a \in Has(f) : a < saved
  BY <1>1 DEF Claimed, Rotating
<1>4. \A f \in Files \ unzeroed' : f = current => ~Underway(f)
  BY <1>1, <1>3
<1>5. ASSUME NEW f \in Files
      PROVE  /\ Coming(f)' = Coming(f)
             /\ f # current => Kept(f)
             /\ f = current => /\ Reserved(f)[l] = 0 /\ content'[f] = <<>>
                               /\ Reserved(f)' = [Reserved(f) EXCEPT ![l] = size]
                               /\ Has(f)' \subseteq Has(f) \cup {saved}
             /\ f = current /\ ~Underway(f) => /\ Planned(f)' = <<>> /\ \A m \in Loggers : Reserved(f)[m] = 0
                                               /\ Has(f)' = {saved}
  BY <1>3, ZeroEffect
<1>6. Ring' = Ring
  BY <1>1 DEF Ring
<1>7. \A m \in Loggers : pc'[m] \notin Rotating
  BY <1>1, OneRotates DEF IInv, Places, Rotating
<1>8. Claimed'
  BY <1>7 DEF Claimed
<1>9. ASSUME NEW f \in Files, f = current
      PROVE  IsFiniteSet(Cells(Reserved(f)')) /\ (~Underway(f) => Total(Reserved(f)') = size)
  <2>1. PICK c : c = Reserved(f)
    OBVIOUS
  <2>2. c \in [Loggers -> Nat] /\ IsFiniteSet(Cells(c)) /\ c[l] = 0
    BY <1>5, <1>9, <2>1, DerivedTypes DEF Counted
  <2>3. /\ IsFiniteSet(Cells([c EXCEPT ![l] = size]))
        /\ Total([c EXCEPT ![l] = size]) = Total(c) - c[l] + size
    BY <1>2, <2>2, TotalExcept
  <2>4. Reserved(f)' = [c EXCEPT ![l] = size]
    BY <1>5, <1>9, <2>1
  <2>5. ~Underway(f) => Total(c) = 0
    <3>1. ~Underway(f) => \A m \in DOMAIN c : c[m] = 0
      BY <1>5, <1>9, <2>1, <2>2
    <3>. QED BY <3>1, TotalNone
  <2>. QED BY <1>2, <2>2, <2>3, <2>4, <2>5
<1>10. Counted'
  <2>. SUFFICES ASSUME NEW f \in Files PROVE IsFiniteSet(Cells(Reserved(f)'))
    BY DEF Counted, Cells
  <2>1. f # current => Reserved(f)' = Reserved(f) /\ IsFiniteSet(Cells(Reserved(f)))
    BY <1>5 DEF Kept, Counted
  <2>. QED BY <1>9, <2>1
<1>11. Bounded'
  <2>. SUFFICES ASSUME NEW f \in Files \ (unzeroed' \cup repeated')
                PROVE  Len(Planned(f)') + Total(Reserved(f)') <= Limit(f)
    BY <1>1 DEF Bounded, Limit, Total
  <2>1. CASE f = current
    <3>1. Len(Planned(f)') = 0 /\ Total(Reserved(f)') = size
      BY <1>4, <1>5, <1>9, <2>1
    <3>. QED BY <1>2, <2>1, <3>1 DEF Limit
  <2>2. CASE f # current
    <3>1. f \notin unzeroed \cup repeated
      BY <1>1, <2>2
    <3>. QED BY <1>5, <2>2, <3>1 DEF Kept, Bounded
  <2>. QED BY <2>1, <2>2
<1>12. \A f \in Files : IF f = current THEN /\ Has(f)' \subseteq Has(f) \cup {saved}
                                            /\ ~Underway(f) => Has(f)' = {saved}
                                       ELSE Has(f)' = Has(f)
  BY <1>5 DEF Kept
<1>13. Latest'
  BY <1>1, <1>2, <1>12 DEF Latest
<1>14. Ordered'
  <2>. SUFFICES ASSUME ~astray, NEW f \in Files \ unzeroed', NEW g \in Files \ unzeroed', Precedes(f, g),
                       NEW a \in Has(f)', NEW b \in Has(g)'
                PROVE  a < b
    BY <1>1, <1>6 DEF Ordered, Precedes
  <2>1. f # current /\ a \in Has(f)
    BY <1>12, PrecedesFacts
  <2>2. CASE g = current
    <3>1. b = saved
      BY <1>4, <1>12, <2>2
    <3>. QED BY <1>3, <2>1, <3>1
  <2>3. CASE g # current
    <3>1. b \in Has(g)
      BY <1>12, <2>3
    <3>2. f \notin unzeroed /\ g \notin unzeroed
      BY <1>1, <2>1, <2>3
    <3>. QED BY <2>1, <3>1, <3>2 DEF Ordered
  <2>. QED BY <2>2, <2>3
<1>15. Filled'
  <2>. SUFFICES ASSUME ~astray, NEW f \in Files \ {current}, f \notin hollow
                PROVE  /\ content'[f] = <<>> => \A g : Precedes(g, f) => g \notin hollow /\ content'[g] = <<>>
                       /\ Coming(f)' # <<>> \/ Waiting(f)' # {} => content'[f] # <<>>
    BY <1>1, <1>6 DEF Filled, Precedes
  <2>1. \A g \in Files \ {current} : content'[g] = content[g]
    BY <1>5 DEF Kept
  <2>2. Coming(f)' = Coming(f) /\ Waiting(f)' = Waiting(f)
    BY <1>5 DEF Kept
  <2>. QED BY <2>1, <2>2, PrecedesFacts DEF Filled
<1>. QED BY <1>8, <1>10, <1>11, <1>13, <1>14, <1>15

LEMMA EnqueueStored ==
  ASSUME IInv, Stored, Types', NEW l \in Loggers, Enqueue(l)
  PROVE  Stored'
<1>. USE DEF Stored
<1>1. /\ pc[l] = "enqueue" /\ pc' = [pc EXCEPT ![l] = "idle"] /\ rec' = [rec EXCEPT ![l] = NoRecord]
      /\ UNCHANGED <<current, size, unzeroed, hollow, repeated, astray, saved>>
  BY DEF Enqueue, Goto, ring, faults
<1>2. \A m \in Loggers : pc'[m] \in Rotating => pc[m] \in Rotating /\ rec'[m] = rec[m]
  BY <1>1 DEF IInv, Places, Types, Rotating
<1>3. ASSUME NEW f \in Files PROVE Settles(f)
  <2>1. /\ content'[f] = content[f] /\ Waiting(f)' = Waiting(f) \ {l}
        /\ Reserved(f)' = [Reserved(f) EXCEPT ![l] = 0] /\ Has(f)' \subseteq Has(f)
        /\ Len(Planned(f)') <= Len(Planned(f)) + Reserved(f)[l]
        /\ l \notin Waiting(f) => Coming(f)' = Coming(f)
    BY EnqueueEffect
  <2>2. PICK c : c = Reserved(f)
    OBVIOUS
  <2>3. c \in [Loggers -> Nat] /\ IsFiniteSet(Cells(c)) /\ c[l] \in Nat
    BY <2>2, DerivedTypes DEF Counted
  <2>4. /\ IsFiniteSet(Cells([c EXCEPT ![l] = 0])) /\ Total(c) \in Nat /\ c[l] <= Total(c)
        /\ Total([c EXCEPT ![l] = 0]) = Total(c) - c[l] + 0
    <3>1. PICK n \in Nat : n = 0
      OBVIOUS
    <3>2. /\ IsFiniteSet(Cells([c EXCEPT ![l] = n])) /\ Total(c) \in Nat /\ c[l] <= Total(c)
          /\ Total([c EXCEPT ![l] = n]) = Total(c) - c[l] + n
      BY <2>3, TotalExcept
    <3>. QED BY <3>1, <3>2
  <2>5. IsFiniteSet(Cells(Reserved(f)')) /\ Total(Reserved(f)') = Total(Reserved(f)) - c[l]
    BY <2>1, <2>2, <2>3, <2>4
  <2>6. Len(Planned(f)) \in Nat
    BY Sums
  <2>7. Planned(f)' \in Seq(Ids)
    BY PlannedType
  <2>8. Len(Planned(f)') \in Nat
    BY <2>7, LenProperties
  <2>9. Len(Planned(f)') + Total(Reserved(f)') <= Len(Planned(f)) + Total(Reserved(f))
    BY <2>1, <2>2, <2>3, <2>4, <2>5, <2>6, <2>8
  <2>. QED BY <2>1, <2>5, <2>9 DEF Settles
<1>. QED BY <1>1, <1>2, <1>3, SettlesStored

LEMMA FlushFileStored ==
  ASSUME IInv, Stored, Types', FlushFile
  PROVE  Stored'
<1>. USE DEF Stored
<1>1. UNCHANGED <<pc, rec, current, size, unzeroed, hollow, repeated, astray, saved>>
  BY DEF FlushFile, ring, loggers, faults
<1>2. ASSUME NEW f \in Files PROVE Settles(f)
  <2>1. /\ Planned(f)' = Planned(f) /\ Waiting(f)' = Waiting(f)
        /\ Reserved(f)' = Reserved(f) /\ Has(f)' = Has(f)
        /\ Coming(f) = <<>> => Coming(f)' = <<>> /\ content'[f] = content[f]
        /\ content[f] # <<>> => content'[f] # <<>>
    BY FlushFileEffect
  <2>2. Len(Planned(f)) \in Nat /\ Total(Reserved(f)) \in Nat /\ IsFiniteSet(Cells(Reserved(f)))
    BY Sums DEF Counted
  <2>. QED BY <2>1, <2>2 DEF Settles
<1>. QED BY <1>1, <1>2, SettlesStored

LEMMA FlushFailsStored ==
  ASSUME IInv, Stored, Types', FlushFails
  PROVE  Stored'
<1>. USE DEF Stored
<1>1. UNCHANGED <<pc, rec, current, size, unzeroed, hollow, astray, saved>> /\ repeated \subseteq repeated'
  <2>1. PICK f, own, rest, n, written, left : Failed(f, own, rest, n, written, left)
    BY FlushFailsFacts
  <2>. QED BY <2>1 DEF Failed, loggers
<1>2. ASSUME NEW f \in Files PROVE Settles(f)
  <2>1. /\ Waiting(f)' = Waiting(f) /\ Reserved(f)' = Reserved(f) /\ Has(f)' \subseteq Has(f)
        /\ f \notin repeated' => Len(Planned(f)') <= Len(Planned(f))
        /\ Coming(f) = <<>> => Coming(f)' = <<>> /\ content'[f] = content[f]
        /\ content[f] # <<>> => content'[f] # <<>>
    BY FlushFailsEffect
  <2>2. Len(Planned(f)) \in Nat /\ Total(Reserved(f)) \in Nat /\ IsFiniteSet(Cells(Reserved(f)))
    BY Sums DEF Counted
  <2>3. Len(Planned(f)') \in Nat
    BY PlannedType, LenProperties
  <2>. QED BY <2>1, <2>2, <2>3 DEF Settles
<1>. QED BY <1>1, <1>2, SettlesStored

\* A restart that goes on with the current file takes its true size for the size.
LEMMA RestartStored ==
  ASSUME IInv, Stored, Types', Restart
  PROVE  Stored'
<1>. USE DEF Stored
<1>1. \A f \in Files :
        /\ content'[f] = content[f] /\ Planned(f)' = content[f]
        /\ Coming(f)' = <<>> /\ Waiting(f)' = {} /\ \A l \in Loggers : Reserved(f)'[l] = 0
        /\ Has(f)' \subseteq Has(f) /\ Len(content[f]) <= Len(Planned(f))
  BY RestartEffect
<1>2. /\ pc' = [l \in Loggers |-> "idle"] /\ saved' = saved /\ astray' = (astray \/ current' # current)
      /\ unzeroed \subseteq unzeroed' /\ UNCHANGED <<hollow, repeated>>
  BY DEF Restart
<1>3. size' = Len(content[current']) \/ (size' = 0 /\ content[current'] = <<>>) \/ current' \in unzeroed'
  BY DEF Restart
<1>4. MaxSize \in Nat /\ size \in Nat /\ size' \in Nat /\ size <= MaxSize
  BY NumbersFacts DEF Numbers, Types
<1>5. \A f \in Files : IsFiniteSet(Cells(Reserved(f)')) /\ Total(Reserved(f)') = 0
  <2>. SUFFICES ASSUME NEW f \in Files PROVE IsFiniteSet(Cells(Reserved(f)')) /\ Total(Reserved(f)') = 0
    OBVIOUS
  <2>1. PICK c : c = Reserved(f)'
    OBVIOUS
  <2>2. DOMAIN c = Loggers
    BY <2>1 DEF Reserved
  <2>. QED BY <1>1, <2>1, <2>2, TotalNone
<1>6. Counted'
  BY <1>5 DEF Counted, Cells
<1>7. Bounded'
  <2>. SUFFICES ASSUME NEW f \in Files \ (unzeroed' \cup repeated)
                PROVE  Len(Planned(f)') + Total(Reserved(f)') <= IF f = current' THEN size' ELSE MaxSize
    BY <1>2 DEF Bounded, Limit, Total
  <2>1. Len(Planned(f)) + Total(Reserved(f)) <= Limit(f) /\ Len(Planned(f)) \in Nat /\ Total(Reserved(f)) \in Nat
    BY <1>2, Sums DEF Bounded
  <2>2. Len(content[f]) \in Nat /\ Len(content[f]) <= MaxSize
    <3>1. Len(content[f]) \in Nat
      BY DerivedTypes, LenProperties
    <3>. QED BY <1>1, <1>4, <2>1, <3>1 DEF Limit
  <2>3. f = current' => Len(content[f]) <= size'
    BY <1>3, <1>4, <2>2
  <2>. QED BY <1>1, <1>5, <2>2, <2>3
<1>8. Claimed'
  BY <1>2 DEF Claimed, Rotating
<1>9. Latest'
  BY <1>1, <1>2 DEF Latest
<1>10. ASSUME ~astray' PROVE ~astray /\ current' = current /\ Ring' = Ring
  BY <1>2, <1>10 DEF Ring
<1>11. Ordered'
  <2>. SUFFICES ASSUME ~astray', NEW f \in Files \ unzeroed', NEW g \in Files \ unzeroed', Precedes(f, g)',
                       NEW a \in Has(f)', NEW b \in Has(g)'
                PROVE  a < b
    BY DEF Ordered
  <2>1. Precedes(f, g)
    BY <1>10 DEF Precedes
  <2>. QED BY <1>1, <1>2, <1>10, <2>1 DEF Ordered
<1>12. Filled'
  <2>. SUFFICES ASSUME ~astray', NEW f \in Files \ {current'}, f \notin hollow
                PROVE  /\ content'[f] = <<>> => \A g : Precedes(g, f)' => g \notin hollow /\ content'[g] = <<>>
                       /\ Coming(f)' # <<>> \/ Waiting(f)' # {} => content'[f] # <<>>
    BY <1>2 DEF Filled
  <2>1. \A g : Precedes(g, f)' => Precedes(g, f)
    BY <1>10 DEF Precedes
  <2>. QED BY <1>1, <1>10, <2>1, PrecedesFacts DEF Filled
<1>. QED BY <1>6, <1>7, <1>8, <1>9, <1>11, <1>12

LEMMA StoredInit == Init => Stored
<1>. SUFFICES ASSUME Init PROVE Stored
  OBVIOUS
<1>1. Types /\ IInv
  BY TypesInit, InitIInv
<1>2. ASSUME NEW f \in Files
      PROVE  Coming(f) = <<>> /\ Planned(f) = <<>> /\ Waiting(f) = {} /\ Has(f) = {} /\ content[f] = <<>>
  <2>1. batch = <<>> /\ pending = <<>> /\ content[f] = <<>> /\ <<>> \o <<>> = <<>>
    BY ConcatEmptySeq, EmptySeq DEF Init
  <2>2. Coming(f) = <<>>
    BY <2>1, OnlyEmpty DEF Coming
  <2>3. Planned(f) = <<>>
    BY <2>1, <2>2, UnitsOfEmpty DEF Planned
  <2>4. Waiting(f) = {}
    BY DEF Init, Waiting
  <2>5. Has(f) = {}
    BY <2>3, <2>4 DEF Has, Range
  <2>. QED BY <2>1, <2>2, <2>3, <2>4, <2>5
<1>3. ASSUME NEW f \in Files PROVE IsFiniteSet(Cells(Reserved(f))) /\ Total(Reserved(f)) = 0
  <2>1. PICK c : c = Reserved(f)
    OBVIOUS
  <2>2. \A x \in DOMAIN c : c[x] = 0
    BY <1>2, <2>1 DEF Reserved
  <2>. QED BY <2>1, <2>2, TotalNone
<1>4. Counted
  BY <1>3 DEF Counted
<1>5. Bounded
  <2>. SUFFICES ASSUME NEW f \in Files PROVE Len(Planned(f)) + Total(Reserved(f)) <= Limit(f)
    BY DEF Bounded
  <2>. QED BY <1>1, <1>2, <1>3, Sizes DEF Limit
<1>6. Claimed
  BY DEF Init, Claimed, Rotating
<1>7. Latest /\ Ordered /\ Filled
  <2>1. \A f, g : Precedes(f, g) => f \in Files /\ g \in Files
    BY <1>1, PrecedesFacts
  <2>2. hollow = {}
    BY DEF Init
  <2>. QED BY <1>2, <2>1, <2>2 DEF Latest, Ordered, Filled
<1>. QED BY <1>1, <1>4, <1>5, <1>6, <1>7 DEF Stored

LEMMA StoredNext ==
  ASSUME IInv, Held, Stored, [Next]_vars
  PROVE  Stored'
<1>1. Types'
  BY TypesNext DEF Stored
<1>2. Types /\ Counted
  BY DEF Stored
<1>3. ASSUME NEW l \in Loggers, Open(l) \/ OpenTimeout(l) \/ ZeroFails(l) PROVE Stored'
  <2>1. /\ UNCHANGED <<files, ring, rec, saved, astray>>
        /\ \/ pc[l] = "open" /\ pc' = [pc EXCEPT ![l] = "zero"]
           \/ pc[l] \in {"open", "zero"} /\ pc' = [pc EXCEPT ![l] = "idle"]
    BY <1>3 DEF Open, OpenTimeout, ZeroFails, Goto, faults, ring
  <2>2. pc[l] # "enqueue" /\ pc'[l] # "enqueue" /\ \A m \in Loggers : m # l => pc'[m] = pc[m] /\ rec'[m] = rec[m]
    BY <2>1 DEF IInv, Places
  <2>3. \A f \in Files : Settles(f)
    BY <1>2, <2>1, <2>2, MoveKeeps, KeptSettles
  <2>4. \A m \in Loggers : pc'[m] \in Rotating => pc[m] \in Rotating /\ rec'[m] = rec[m]
    BY <2>1, <2>2 DEF Rotating
  <2>. QED BY <1>1, <2>1, <2>3, <2>4, SettlesStored DEF ring
<1>4. CASE Flush
  <2>1. UNCHANGED <<pc, rec, current, size, unzeroed, hollow, repeated, astray, saved>>
    BY <1>4 DEF Flush, ring, loggers, faults
  <2>2. \A f \in Files : Settles(f)
    BY <1>2, <1>4, FlushKeeps, KeptSettles
  <2>. QED BY <1>1, <2>1, <2>2, SettlesStored
<1>5. CASE FlushEnds \/ Begin \/ SessionStep \/ UNCHANGED vars
  <2>1. UNCHANGED <<files, ring, loggers, astray>>
    BY <1>5 DEF FlushEnds, Begin, SessionStep, FileSize, OpenCurrent, OpenedAt, BeginTimeout, BeginFails, Respond,
                Read, Chunk, NextFile, Reopen, ReopenTimeout, ReadFails, End, faults, vars
  <2>2. UNCHANGED <<pc, rec, current, size, unzeroed, hollow, repeated, astray, saved>>
    BY <2>1 DEF ring, loggers
  <2>3. ASSUME NEW f \in Files PROVE Kept(f)
    BY <2>1, <2>2, FilesKept DEF Kept, Waiting, Reserved, Has
  <2>4. \A f \in Files : Settles(f)
    BY <1>2, <2>3, KeptSettles
  <2>. QED BY <1>1, <2>2, <2>4, SettlesStored
<1>. QED
  BY <1>1, <1>3, <1>4, <1>5, ReserveStored, RotateStored, ZeroStored, EnqueueStored, FlushFileStored, FlushFailsStored,
     RestartStored
  DEF Next, LoggerStep, FlushStep

----------------------------------------------------------------------------
\* The session.

\* The k oldest files.
Upto(k) == FlattenSeq([i \in 1..k |-> content[Ring[i]]])

\* Of which files has the command measured the size?
Measured(f) == at \notin {"idle", "sizes"} \/ (at = "sizes" /\ f < ses.index)

\* What is left to be read, with the file Ring[k] open, and with the file Ring[k] to be opened.
Rest(k) ==
  [f \in Files |-> IF f = Ring[k] THEN ses.left
                   ELSE IF \E i \in 1..(k - 1) : f = Ring[i] THEN ses.sizes[f] ELSE 0]
Before(k) == [f \in Files |-> IF \E i \in 1..k : f = Ring[i] THEN ses.sizes[f] ELSE 0]

SessionType ==
  ses \in [asked : Nat, sizes : [Files -> Nat], index : Files, left : Nat, pos : Nat,
           promised : Nat, got : Seq(Ids), grew : BOOLEAN]

Sized ==
  /\ at = "idle" => ses = NoSession
  /\ at \in {"idle", "sizes", "open"} => ses.got = <<>>
  /\ at = "open" => ses.index = current
  /\ \A f \in Files :
       /\ ses.sizes[f] <= Len(content[f])
       /\ Measured(f) /\ ~ses.grew => ses.sizes[f] = Len(content[f])
       /\ Measured(f) /\ ~astray /\ f # current /\ f \notin hollow /\ ses.sizes[f] = 0 => content[f] = <<>>

\* The file Ring[k] is open, and what has been sent are the units behind the position.
Reading(k) ==
  /\ ses.index = Ring[k]
  /\ ses.left <= ses.pos /\ ses.left <= ses.sizes[ses.index] /\ ses.pos <= Len(content[ses.index])
  /\ ses.promised = Least(Total(Rest(k)), ses.asked)
  /\ at = "read" => ses.promised > 0
  /\ ~ses.grew => /\ ses.left = ses.pos
                  /\ Upto(NumFiles) = (Upto(k - 1) \o SubSeq(content[Ring[k]], 1, ses.pos)) \o ses.got

\* The file Ring[k] is to be opened, and what has been sent are the files behind it.
Reopening(k) ==
  /\ ses.index = Ring[k] /\ k < NumFiles
  /\ ses.promised = Least(Total(Before(k)), ses.asked) /\ ses.promised > 0
  /\ ~ses.grew => Upto(NumFiles) = Upto(k) \o ses.got

Walk ==
  /\ at \in {"respond", "read"} => \E k \in 1..NumFiles : Reading(k)
  /\ at = "reopen" => \E k \in 1..NumFiles : Reopening(k)
  /\ at \in {"short", "end"} /\ ~ses.grew => \E u \in Seq(Ids) : Upto(NumFiles) = u \o ses.got
  /\ at = "short" => astray \/ ses.index \in hollow

Session == SessionType /\ Sized /\ Walk

\* The k oldest files are the k - 1 oldest and one more.
LEMMA UptoFacts ==
  ASSUME Types
  PROVE  /\ \A k \in 0..NumFiles : Upto(k) \in Seq(Ids)
         /\ \A k \in 1..NumFiles : Upto(k) = Upto(k - 1) \o content[Ring[k]]
<1>1. NumFiles \in Nat /\ \A i \in 1..NumFiles : content[Ring[i]] \in Seq(Ids)
  BY RingFacts, NumbersFacts DEF Numbers, Types
<1>2. ASSUME NEW k \in 0..NumFiles
      PROVE  [i \in 1..k |-> content[Ring[i]]] \in Seq(Seq(Ids))
  <2>1. \A i \in 1..k : i \in 1..NumFiles
    BY <1>1
  <2>2. \A i \in 1..k : content[Ring[i]] \in Seq(Ids)
    BY <1>1, <2>1
  <2>3. k \in Nat
    BY <1>1
  <2>. QED BY <2>2, <2>3
<1>3. ASSUME NEW k \in 0..NumFiles PROVE Upto(k) \in Seq(Ids)
  <2>1. PICK ss : ss = [i \in 1..k |-> content[Ring[i]]]
    OBVIOUS
  <2>2. FlattenSeq(ss) \in Seq(Ids)
    BY <1>2, <2>1, FlattenAppend, EmptySeq
  <2>. QED BY <2>1, <2>2 DEF Upto
<1>4. ASSUME NEW k \in 1..NumFiles PROVE Upto(k) = Upto(k - 1) \o content[Ring[k]]
  <2>1. PICK ss, tt, c : /\ ss = [i \in 1..(k - 1) |-> content[Ring[i]]]
                         /\ tt = [i \in 1..k |-> content[Ring[i]]]
                         /\ c = content[Ring[k]]
    OBVIOUS
  <2>2. k - 1 \in 0..NumFiles /\ k \in 0..NumFiles /\ k \in Nat /\ k - 1 \in Nat
    BY <1>1
  <2>3. ss \in Seq(Seq(Ids)) /\ tt \in Seq(Seq(Ids)) /\ c \in Seq(Ids)
    BY <1>1, <1>2, <2>1, <2>2
  <2>4. Len(ss) = k - 1 /\ DOMAIN ss = 1..(k - 1) /\ Len(tt) = k
    BY <2>1, <2>2
  <2>5. /\ Append(ss, c) \in Seq(Seq(Ids)) /\ Len(Append(ss, c)) = k
        /\ \A i \in 1..k : Append(ss, c)[i] = IF i = k THEN c ELSE ss[i]
    <3>1. PICK D : D = Seq(Ids)
      OBVIOUS
    <3>2. ss \in Seq(D) /\ c \in D
      BY <2>3, <3>1
    <3>3. /\ Append(ss, c) \in Seq(D) /\ Len(Append(ss, c)) = Len(ss) + 1
          /\ \A i \in 1..Len(ss) : Append(ss, c)[i] = ss[i]
          /\ Append(ss, c)[Len(ss) + 1] = c
      BY <3>2, AppendProperties
    <3>4. \A i \in 1..k : i = k \/ i \in 1..(k - 1)
      BY <2>2
    <3>. QED BY <2>2, <2>4, <3>1, <3>3, <3>4
  <2>6. \A i \in 1..k : Append(ss, c)[i] = tt[i]
    BY <2>1, <2>2, <2>5
  <2>7. Append(ss, c) = tt
    BY <2>3, <2>4, <2>5, <2>6, SeqEqual
  <2>8. FlattenSeq(tt) = FlattenSeq(ss) \o c
    BY <2>3, <2>7, FlattenAppend
  <2>. QED BY <2>1, <2>8 DEF Upto
<1>. QED BY <1>3, <1>4

\* A command that has returned has left nothing.
LEMMA IdleSession ==
  ASSUME Types', at' = "idle", ses' = NoSession
  PROVE  Session'
<1>1. 0 \in Files
  BY NumbersFacts DEF Numbers, Files
<1>2. <<>> \in Seq(Ids)
  BY EmptySeq
<1>3. SessionType'
  BY <1>1, <1>2 DEF SessionType, NoSession
<1>4. \A f \in Files : ses'.sizes[f] = 0 /\ Len(content'[f]) \in Nat /\ ses'.got = <<>>
  BY DEF NoSession, Types
<1>5. Sized'
  BY <1>4 DEF Sized, Measured, NoSession
<1>6. Walk'
  BY DEF Walk
<1>. QED BY <1>3, <1>5, <1>6 DEF Session

\* Steps that the session does not see.
LEMMA QuietSession ==
  ASSUME Session, UNCHANGED <<content, current, hollow, astray, at, ses>>
  PROVE  Session'
<1>1. Ring' = Ring
  BY DEF Ring
<1>2. \A k : Upto(k)' = Upto(k) /\ Rest(k)' = Rest(k) /\ Before(k)' = Before(k)
  BY <1>1 DEF Upto, Rest, Before
<1>3. \A k : Reading(k)' = Reading(k)
  <2>. SUFFICES ASSUME NEW k PROVE Reading(k)' = Reading(k)
    OBVIOUS
  <2>1. Total(Rest(k)') = Total(Rest(k)) /\ Upto(NumFiles)' = Upto(NumFiles) /\ Upto(k - 1)' = Upto(k - 1)
    BY <1>2
  <2>2. Total(Rest(k))' = Total(Rest(k)')
    BY DEF Total
  <2>. QED BY <1>1, <2>1, <2>2 DEF Reading, Least
<1>4. \A k : Reopening(k)' = Reopening(k)
  <2>. SUFFICES ASSUME NEW k PROVE Reopening(k)' = Reopening(k)
    OBVIOUS
  <2>1. Total(Before(k)') = Total(Before(k)) /\ Upto(NumFiles)' = Upto(NumFiles) /\ Upto(k)' = Upto(k)
    BY <1>2
  <2>2. Total(Before(k))' = Total(Before(k)')
    BY DEF Total
  <2>. QED BY <1>1, <2>1, <2>2 DEF Reopening, Least
<1>5. SessionType' /\ Sized'
  BY DEF Session, SessionType, Sized, Measured
<1>6. Walk'
  BY <1>2, <1>3, <1>4 DEF Session, Walk
<1>. QED BY <1>5, <1>6 DEF Session

\* While a command is under way nobody rotates.
LEMMA LoggerSession ==
  ASSUME IInv, Session, Types', NEW l \in Loggers, LoggerStep(l)
  PROVE  Session'
<1>1. UNCHANGED <<at, ses, astray>>
  BY DEF LoggerStep, Reserve, Rotate, Advance, Open, OpenTimeout, Zero, Zeroed, ZeroFails, Enqueue, command, faults
<1>2. CASE at = "idle"
  <2>1. at' = "idle" /\ ses' = NoSession
    BY <1>1, <1>2 DEF Session, Sized
  <2>. QED BY <2>1, IdleSession
<1>3. CASE at # "idle"
  <2>1. reading \/ logm = "reader"
    BY <1>3 DEF IInv, Places, Flagged, MutexesReturned, InSession
  <2>2. pc[l] \notin Rotating
    BY <2>1, Distinct DEF IInv, Flagged, MutexesReturned, Rotating
  <2>3. \A n \in Lengths : ~Rotate(l, n)
    BY <2>1, LogFilesAssumption DEF Rotate
  <2>4. (\E n \in Lengths : Reserve(l, n)) \/ Enqueue(l)
    BY <2>2, <2>3 DEF LoggerStep, Open, OpenTimeout, Zero, Zeroed, ZeroFails, Rotating
  <2>5. UNCHANGED <<content, current, hollow>>
    BY <2>4 DEF Reserve, Enqueue, files, ring, marks
  <2>. QED BY <1>1, <2>5, QuietSession
<1>. QED BY <1>2, <1>3

\* A flush in the middle of a command, whether it fails or not, is taken down as growth; it does not
\* fill a file that the command has found empty and that was not left so.
LEMMA GrowthSession ==
  ASSUME IInv, Stored, Session, Types', FlushFile \/ FlushFails
  PROVE  Session'
<1>. USE DEF Stored, Session
<1>1. /\ ses' = [ses EXCEPT !.grew = (at # "idle")]
      /\ UNCHANGED <<at, astray, current, hollow>>
  BY DEF FlushFile, FlushFails, ring, faults
<1>2. CASE at = "idle"
  <2>1. ses = NoSession
    BY <1>2 DEF Sized
  <2>2. ses' = NoSession
    BY <1>1, <1>2, <2>1 DEF NoSession
  <2>. QED BY <1>1, <1>2, <2>2, IdleSession
<1>3. CASE at # "idle"
  <2>1. /\ ses'.asked = ses.asked /\ ses'.sizes = ses.sizes /\ ses'.index = ses.index
        /\ ses'.left = ses.left /\ ses'.pos = ses.pos /\ ses'.promised = ses.promised
        /\ ses'.got = ses.got /\ ses'.grew = TRUE
    BY <1>1, <1>3 DEF SessionType
  <2>2. SessionType'
    BY <1>1, <1>3 DEF SessionType
  <2>3. \A f \in Files : /\ Len(content[f]) \in Nat /\ Len(content'[f]) \in Nat
                         /\ Len(content[f]) <= Len(content'[f])
                         /\ Coming(f) = <<>> => content'[f] = content[f]
    BY FlushFileEffect, FlushFailsEffect DEF Types
  <2>4. \A f \in Files : Measured(f)' = Measured(f)
    BY <1>1, <2>1 DEF Measured
  <2>5. ASSUME NEW f \in Files
        PROVE  /\ ses'.sizes[f] <= Len(content'[f])
               /\ (Measured(f) /\ ~astray /\ f # current /\ f \notin hollow /\ ses'.sizes[f] = 0
                     => content'[f] = <<>>)
    <3>1. ses.sizes[f] \in Nat
      BY DEF SessionType
    <3>2. ses'.sizes[f] <= Len(content'[f])
      BY <2>1, <2>3, <3>1 DEF Sized
    <3>3. ASSUME Measured(f), ~astray, f # current, f \notin hollow, ses'.sizes[f] = 0
          PROVE  content'[f] = <<>>
      <4>1. content[f] = <<>>
        BY <2>1, <3>3 DEF Sized
      <4>2. Coming(f) = <<>>
        BY <3>3, <4>1 DEF Filled
      <4>. QED BY <2>3, <4>1, <4>2
    <3>. QED BY <3>2, <3>3
  <2>6. Sized'
    BY <1>1, <1>3, <2>1, <2>4, <2>5 DEF Sized
  <2>7. Ring' = Ring /\ \A k : Rest(k)' = Rest(k) /\ Before(k)' = Before(k)
    BY <1>1, <2>1 DEF Ring, Rest, Before
  <2>8. ASSUME NEW k \in 1..NumFiles, Reading(k)
        PROVE  Reading(k)'
    <3>1. Total(Rest(k))' = Total(Rest(k))
      BY <2>7 DEF Total
    <3>2. ses.index \in Files /\ ses.pos \in Nat
      BY DEF SessionType
    <3>3. ses.pos <= Len(content'[ses.index])
      BY <2>3, <2>8, <3>2 DEF Reading
    <3>. QED BY <1>1, <2>1, <2>7, <2>8, <3>1, <3>3 DEF Reading, Least
  <2>9. ASSUME NEW k \in 1..NumFiles, Reopening(k)
        PROVE  Reopening(k)'
    <3>1. Total(Before(k))' = Total(Before(k))
      BY <2>7 DEF Total
    <3>. QED BY <1>1, <2>1, <2>7, <2>9, <3>1 DEF Reopening, Least
  <2>10. Walk'
    BY <1>1, <2>1, <2>8, <2>9 DEF Walk
  <2>. QED BY <2>2, <2>6, <2>10
<1>. QED BY <1>2, <1>3

LEMMA FlushSession ==
  ASSUME IInv, Stored, Session, Types', FlushStep \/ UNCHANGED vars
  PROVE  Session'
<1>1. CASE FlushFile \/ FlushFails
  BY <1>1, GrowthSession
<1>2. CASE Flush \/ FlushEnds \/ UNCHANGED vars
  <2>1. UNCHANGED <<content, current, hollow, astray, at, ses>>
    BY <1>2 DEF Flush, FlushEnds, vars, files, ring, command, faults
  <2>. QED BY <2>1, QuietSession
<1>. QED BY <1>1, <1>2 DEF FlushStep

LEMMA BeginSession ==
  ASSUME Types, Session, Begin
  PROVE  Session'
<1>1. ses = NoSession
  BY DEF Begin, Session, Sized
<1>2. PICK n \in Wanted \cup {0} : ses' = [ses EXCEPT !.asked = n]
  BY DEF Begin
<1>3. n \in Nat
  BY LogFilesAssumption
<1>4. UNCHANGED <<content, astray>> /\ at' = "sizes"
  BY DEF Begin, files, faults
<1>5. /\ ses'.got = <<>> /\ ses'.index = 0
      /\ \A f \in Files : ses'.sizes[f] = 0
  BY <1>1, <1>2 DEF NoSession
<1>6. SessionType'
  BY <1>2, <1>3 DEF Session, SessionType
<1>7. \A f \in Files : ~(f < 0) /\ Len(content[f]) \in Nat
  BY NumbersFacts DEF Numbers, Files, Types
<1>8. Sized'
  BY <1>4, <1>5, <1>7 DEF Sized, Measured
<1>9. Walk'
  BY <1>4 DEF Walk
<1>. QED BY <1>6, <1>8, <1>9 DEF Session

\* One more file has been measured.
LEMMA FileSizeSession ==
  ASSUME Types, Types', Session, FileSize
  PROVE  Session'
<1>1. at = "sizes" /\ UNCHANGED <<content, current, hollow, astray>>
  BY DEF FileSize, files, ring, faults
<1>2. CASE Return
  BY <1>2, IdleSession DEF Return
<1>3. CASE ~Return
  <2>1. /\ at' = (IF ses.index < NumFiles - 1 THEN "sizes" ELSE "open")
        /\ ses' = [ses EXCEPT !.sizes[ses.index] = Len(content[ses.index]),
                              !.index = IF @ < NumFiles - 1 THEN @ + 1 ELSE current]
    BY <1>3 DEF FileSize
  <2>2. PICK g, n, m : g = ses.index /\ n = Len(content[g]) /\ m = IF g < NumFiles - 1 THEN g + 1 ELSE current
    OBVIOUS
  <2>3. /\ g \in Files /\ g \in Nat /\ NumFiles \in Nat /\ n \in Nat /\ m \in Files
        /\ \A f \in Files : f \in Nat /\ f <= NumFiles - 1
    <3>1. NumFiles \in Nat /\ NumFiles > 0 /\ \A f \in Files : f \in Nat /\ f <= NumFiles - 1
      BY NumbersFacts DEF Numbers, Files
    <3>2. g \in Files /\ current \in Files
      BY <2>2 DEF Session, SessionType, Types
    <3>3. content[g] \in Seq(Ids)
      BY <3>2 DEF Types
    <3>4. n \in Nat
      BY <2>2, <3>3
    <3>5. g < NumFiles - 1 => g + 1 \in Files
      BY <3>1, <3>2 DEF Files
    <3>. QED BY <2>2, <3>1, <3>2, <3>4, <3>5
  <2>4. ses' = [ses EXCEPT !.sizes[g] = n, !.index = m]
    BY <2>1, <2>2
  <2>5. /\ ses'.sizes = [ses.sizes EXCEPT ![g] = n] /\ ses'.index = m
        /\ ses'.got = ses.got /\ ses'.grew = ses.grew
    BY <2>4 DEF Session, SessionType
  <2>6. SessionType'
    BY <2>3, <2>4 DEF Session, SessionType
  <2>7. ses'.sizes[g] = n /\ \A f \in Files : f # g => ses'.sizes[f] = ses.sizes[f]
    BY <2>3, <2>5 DEF Session, SessionType
  <2>8. ASSUME NEW f \in Files, Measured(f)', f # g
        PROVE  Measured(f)
    <3>1. CASE g < NumFiles - 1
      BY <1>1, <2>1, <2>2, <2>3, <2>5, <2>8, <3>1 DEF Measured
    <3>2. CASE ~(g < NumFiles - 1)
      BY <1>1, <2>2, <2>3, <2>8, <3>2 DEF Measured
    <3>. QED BY <3>1, <3>2
  <2>9. ASSUME NEW f \in Files
        PROVE  /\ ses'.sizes[f] <= Len(content'[f])
               /\ (Measured(f) /\ ~ses.grew => ses.sizes[f] = Len(content[f]))'
               /\ (Measured(f) /\ ~astray /\ f # current /\ f \notin hollow /\ ses.sizes[f] = 0
                     => content[f] = <<>>)'
    <3>1. CASE f = g
      <4>1. content[f] \in Seq(Ids) /\ ses'.sizes[f] = Len(content'[f]) /\ Len(content'[f]) \in Nat
        BY <1>1, <2>2, <2>3, <2>7, <3>1 DEF Types
      <4>2. ses'.sizes[f] = 0 => content'[f] = <<>>
        BY <1>1, <4>1, EmptySeq
      <4>. QED BY <4>1, <4>2
    <3>2. CASE f # g
      BY <1>1, <2>5, <2>7, <2>8, <3>2 DEF Session, Sized
    <3>. QED BY <3>1, <3>2
  <2>10. /\ at' \in {"sizes", "open"} /\ ses'.got = <<>>
         /\ at' = "open" => ses'.index = current'
    BY <1>1, <2>1, <2>2, <2>5 DEF Session, Sized
  <2>11. Sized'
    BY <2>9, <2>10 DEF Sized
  <2>12. Walk'
    BY <2>10 DEF Walk
  <2>. QED BY <2>6, <2>11, <2>12 DEF Session
<1>. QED BY <1>2, <1>3

\* The whole log is still to be read.
LEMMA OpenCurrentSession ==
  ASSUME Types, Types', Session, OpenCurrent
  PROVE  Session'
<1>. USE DEF Session
<1>1. /\ at = "open" /\ at' = "respond" /\ UNCHANGED <<content, current, hollow, astray>>
      /\ ses' = [ses EXCEPT !.left = ses.sizes[current], !.pos = Len(content[current]),
                            !.promised = Least(Total(ses.sizes), ses.asked)]
  BY DEF OpenCurrent, OpenedAt, files, ring, faults
<1>2. /\ NumFiles \in Nat /\ NumFiles > 0 /\ NumFiles \in 1..NumFiles
      /\ Ring[NumFiles] = current /\ current \in Files
      /\ \A f \in Files : \E i \in 1..NumFiles : f = Ring[i]
  BY NumbersFacts, RingFacts DEF Numbers, Types
<1>3. ses.sizes \in [Files -> Nat] /\ Total(ses.sizes) \in Nat /\ content[current] \in Seq(Ids)
  BY <1>2, TotalFiles DEF SessionType, Types
<1>4. /\ ses'.asked = ses.asked /\ ses'.sizes = ses.sizes /\ ses'.index = ses.index
      /\ ses'.left = ses.sizes[current] /\ ses'.pos = Len(content[current])
      /\ ses'.promised = Least(Total(ses.sizes), ses.asked)
      /\ ses'.got = <<>> /\ ses'.grew = ses.grew /\ ses.index = current
  BY <1>1 DEF SessionType, Sized
<1>5. SessionType'
  <2>1. Least(Total(ses.sizes), ses.asked) \in Nat /\ Len(content[current]) \in Nat /\ ses.sizes[current] \in Nat
    BY <1>2, <1>3 DEF SessionType, Least
  <2>. QED BY <1>1, <2>1 DEF SessionType
<1>6. Sized'
  BY <1>1, <1>4 DEF Sized, Measured
<1>7. Ring' = Ring
  BY <1>1 DEF Ring
<1>8. Rest(NumFiles)' = ses.sizes
  <2>1. ASSUME NEW f \in Files
        PROVE  (IF f = current THEN ses.sizes[current]
                ELSE IF \E i \in 1..(NumFiles - 1) : f = Ring[i] THEN ses.sizes[f] ELSE 0) = ses.sizes[f]
    <3>1. PICK i \in 1..NumFiles : f = Ring[i]
      BY <1>2
    <3>2. f # current => i \in 1..(NumFiles - 1)
      BY <1>2, <3>1
    <3>. QED BY <3>1, <3>2
  <2>2. Rest(NumFiles)' =
          [f \in Files |-> IF f = current THEN ses.sizes[current]
                           ELSE IF \E i \in 1..(NumFiles - 1) : f = Ring[i] THEN ses.sizes[f] ELSE 0]
    BY <1>2, <1>4, <1>7 DEF Rest
  <2>. QED BY <1>3, <2>1, <2>2
<1>9. Total(Rest(NumFiles))' = Total(ses.sizes)
  <2>1. Total(Rest(NumFiles))' = Total(Rest(NumFiles)')
    BY DEF Total
  <2>. QED BY <1>8, <2>1
<1>10. ses.sizes[current] <= Len(content[current]) /\ (~ses.grew => ses.sizes[current] = Len(content[current]))
  BY <1>1, <1>2 DEF Sized, Measured
<1>11. ses.grew \/ Upto(NumFiles) = (Upto(NumFiles - 1) \o SubSeq(content[current], 1, Len(content[current]))) \o <<>>
  <2>1. PICK u, v, c : u = Upto(NumFiles) /\ v = Upto(NumFiles - 1) /\ c = content[current]
    OBVIOUS
  <2>2. NumFiles \in 0..NumFiles /\ NumFiles - 1 \in 0..NumFiles
    BY <1>2
  <2>3. u \in Seq(Ids) /\ v \in Seq(Ids) /\ c \in Seq(Ids) /\ u = v \o c
    BY <1>2, <1>3, <2>1, <2>2, UptoFacts
  <2>4. SubSeq(c, 1, Len(c)) = c
    BY <2>3, SubSeqFull
  <2>5. u \o <<>> = u
    BY <2>3, ConcatEmptySeq
  <2>. QED BY <2>1, <2>3, <2>4, <2>5
<1>12. \A k : Upto(k)' = Upto(k)
  BY <1>1, <1>7 DEF Upto
<1>13. Reading(NumFiles)'
  <2>1. ses'.pos = Len(content[current]) /\ Len(content[current]) \in Nat
    BY <1>3, <1>4
  <2>2. ~ses'.grew => Upto(NumFiles)' = (Upto(NumFiles - 1)' \o SubSeq(content'[Ring'[NumFiles]], 1, ses'.pos)) \o ses'.got
    BY <1>1, <1>2, <1>4, <1>7, <1>11, <1>12
  <2>3. ses'.promised = Least(Total(Rest(NumFiles))', ses'.asked)
    BY <1>4, <1>9
  <2>4. ses'.left <= ses'.pos /\ ses'.left <= ses'.sizes[ses'.index] /\ ses'.pos <= Len(content'[ses'.index])
        /\ (~ses'.grew => ses'.left = ses'.pos) /\ ses'.index = Ring'[NumFiles]
    <3>1. ses.sizes[current] \in Nat
      BY <1>2, <1>3
    <3>. QED BY <1>1, <1>2, <1>4, <1>7, <1>10, <2>1, <3>1
  <2>. QED BY <1>1, <2>2, <2>3, <2>4 DEF Reading, Least
<1>14. Walk'
  BY <1>1, <1>2, <1>13 DEF Walk
<1>. QED BY <1>5, <1>6, <1>14

\* The sizes that have been measured are kept to the end of the command.
LEMMA SizedKept ==
  ASSUME Session, at \in InSession, at' \in InSession, UNCHANGED <<content, current, hollow, astray>>,
         ses'.sizes = ses.sizes, ses'.grew = ses.grew
  PROVE  Sized'
<1>1. \A f \in Files : Measured(f)
  BY DEF Measured, InSession
<1>. QED BY <1>1 DEF Session, Sized, InSession

\* What is behind the position is the end of the log.
LEMMA ReadingEnds ==
  ASSUME Types, Session, NEW k \in 1..NumFiles, Reading(k)
  PROVE  ~ses.grew => \E u \in Seq(Ids) : Upto(NumFiles) = u \o ses.got
<1>1. k - 1 \in 0..NumFiles /\ Ring[k] \in Files
  BY NumbersFacts, RingFacts DEF Numbers, Types
<1>2. PICK v, c, p : v = Upto(k - 1) /\ c = content[Ring[k]] /\ p = ses.pos
  OBVIOUS
<1>3. v \in Seq(Ids) /\ c \in Seq(Ids) /\ p \in Nat
  BY <1>1, <1>2, UptoFacts DEF Types, Session, SessionType
<1>4. p <= Len(c)
  BY <1>2 DEF Reading
<1>5. SubSeq(c, 1, p) \in Seq(Ids)
  BY <1>3, <1>4, SplitAt
<1>6. v \o SubSeq(c, 1, p) \in Seq(Ids)
  BY <1>3, <1>5, ConcatProperties
<1>. QED BY <1>2, <1>6 DEF Reading

\* Announcing the length changes nothing of the walk.
LEMMA RespondSession ==
  ASSUME Types, Types', Session, Respond
  PROVE  Session'
<1>1. at = "respond" /\ UNCHANGED <<content, current, hollow, astray>>
  BY DEF Respond, files, ring
<1>2. CASE Return
  BY <1>2, IdleSession DEF Return
<1>3. CASE ~Return
  <2>1. ses' = ses /\ at' = IF ses.promised = 0 THEN "end" ELSE "read"
    BY <1>3 DEF Respond
  <2>2. PICK k \in 1..NumFiles : Reading(k)
    BY <1>1 DEF Session, Walk
  <2>3. Ring' = Ring /\ \A j : Rest(j)' = Rest(j) /\ Upto(j)' = Upto(j)
    BY <1>1, <2>1 DEF Ring, Rest, Upto
  <2>4. Total(Rest(k))' = Total(Rest(k))
    BY <2>3 DEF Total
  <2>5. ses.promised \in Nat
    BY DEF Session, SessionType
  <2>6. at' = "read" => Reading(k)'
    <3>1. at' = "read" => ses'.promised > 0
      BY <2>1, <2>5
    <3>2. ses'.promised = Least(Total(Rest(k))', ses'.asked)
      BY <2>1, <2>2, <2>4 DEF Reading
    <3>3. /\ ses'.index = Ring'[k] /\ ses'.left <= ses'.pos /\ ses'.left <= ses'.sizes[ses'.index]
          /\ ses'.pos <= Len(content'[ses'.index])
          /\ ~ses'.grew => /\ ses'.left = ses'.pos
                           /\ Upto(NumFiles)' = (Upto(k - 1)' \o SubSeq(content'[Ring'[k]], 1, ses'.pos)) \o ses'.got
      BY <1>1, <2>1, <2>2, <2>3 DEF Reading
    <3>. QED BY <3>1, <3>2, <3>3 DEF Reading, Least
  <2>7. at' = "end" /\ ~ses'.grew => \E u \in Seq(Ids) : Upto(NumFiles)' = u \o ses'.got
    BY <2>1, <2>2, <2>3, ReadingEnds
  <2>8. Walk'
    BY <2>1, <2>6, <2>7 DEF Walk
  <2>9. Sized'
    BY <1>1, <2>1, SizedKept DEF InSession
  <2>10. SessionType'
    BY <2>1 DEF Session, SessionType
  <2>. QED BY <2>8, <2>9, <2>10 DEF Session
<1>. QED BY <1>2, <1>3

\* The oldest file is never left: when it has been read nothing is promised any more.
LEMMA NextFileSession ==
  ASSUME Types, Types', Session, NextFile
  PROVE  Session'
<1>1. /\ at = "read" /\ at' = "reopen" /\ ses.left = 0 /\ UNCHANGED <<content, current, hollow, astray>>
      /\ ses' = [ses EXCEPT !.index = Previous(ses.index)]
  BY DEF NextFile, files, ring, faults
<1>2. /\ ses'.asked = ses.asked /\ ses'.sizes = ses.sizes /\ ses'.index = Previous(ses.index)
      /\ ses'.promised = ses.promised /\ ses'.got = ses.got /\ ses'.grew = ses.grew
  BY <1>1 DEF Session, SessionType
<1>3. SessionType'
  BY <1>1, FollowingType DEF Session, SessionType
<1>4. Sized'
  BY <1>1, <1>2, SizedKept DEF InSession
<1>5. PICK k \in 1..NumFiles : Reading(k)
  BY <1>1 DEF Session, Walk
<1>6. /\ NumFiles \in Nat /\ k \in Nat /\ \A i \in 1..NumFiles : Ring[i] \in Files
      /\ \A i \in 2..NumFiles : Previous(Ring[i]) = Ring[i - 1]
  BY NumbersFacts, RingFacts DEF Numbers, Types
<1>7. \A f \in Files : Rest(k)[f] = IF \E i \in 1..(k - 1) : f = Ring[i] THEN ses.sizes[f] ELSE 0
  <2>1. ASSUME NEW f \in Files, f = Ring[k], NEW i \in 1..(k - 1), f = Ring[i]
        PROVE  FALSE
    <3>1. i \in 1..NumFiles /\ i # k
      BY <1>6
    <3>. QED BY <2>1, <3>1, RingFacts DEF Types
  <2>. QED BY <1>1, <2>1 DEF Rest
<1>8. k # 1
  <2>1. SUFFICES ASSUME k = 1 PROVE FALSE
    OBVIOUS
  <2>2. PICK c : c = Rest(k)
    OBVIOUS
  <2>3. DOMAIN c = Files /\ \A f \in Files : c[f] = 0
    BY <1>7, <2>1, <2>2 DEF Rest
  <2>4. Total(c) = 0
    BY <2>3, TotalNone
  <2>5. ses.promised = Least(0, ses.asked) /\ ses.promised > 0 /\ ses.asked \in Nat
    BY <1>1, <1>5, <2>2, <2>4 DEF Reading, Session, SessionType
  <2>. QED BY <2>5 DEF Least
<1>9. k \in 2..NumFiles /\ k - 1 \in 1..NumFiles /\ k - 1 < NumFiles /\ k - 1 \in 0..NumFiles
  BY <1>6, <1>8
<1>10. PICK j : j = k - 1
  OBVIOUS
<1>11. Ring' = Ring
  BY <1>1 DEF Ring
<1>12. Before(j)' = Rest(k)
  <2>1. Before(j)' = [f \in Files |-> IF \E i \in 1..j : f = Ring[i] THEN ses.sizes[f] ELSE 0]
    BY <1>2, <1>11 DEF Before
  <2>2. Rest(k) = [f \in Files |-> Rest(k)[f]]
    BY DEF Rest
  <2>. QED BY <1>7, <1>10, <2>1, <2>2
<1>13. Total(Before(j))' = Total(Rest(k))
  <2>1. Total(Before(j))' = Total(Before(j)')
    BY DEF Total
  <2>. QED BY <1>12, <2>1
<1>14. \A i : Upto(i)' = Upto(i)
  BY <1>1, <1>11 DEF Upto
<1>15. ~ses.grew => Upto(NumFiles) = Upto(j) \o ses.got
  <2>1. SUFFICES ASSUME ~ses.grew PROVE Upto(NumFiles) = Upto(j) \o ses.got
    OBVIOUS
  <2>2. PICK v, c : v = Upto(j) /\ c = content[Ring[k]]
    OBVIOUS
  <2>3. v \in Seq(Ids) /\ c \in Seq(Ids)
    BY <1>6, <1>9, <1>10, <2>2, UptoFacts DEF Types
  <2>4. ses.pos = 0
    BY <1>1, <1>5, <2>1 DEF Reading
  <2>5. SubSeq(c, 1, 0) = <<>>
    BY <2>3, SubSeqEmpty
  <2>6. v \o <<>> = v
    BY <2>3, ConcatEmptySeq
  <2>7. Upto(NumFiles) = (v \o SubSeq(c, 1, 0)) \o ses.got
    BY <1>5, <1>10, <2>1, <2>2, <2>4 DEF Reading
  <2>. QED BY <2>2, <2>5, <2>6, <2>7
<1>16. Reopening(j)'
  <2>1. ses'.index = Ring'[j] /\ j < NumFiles
    BY <1>2, <1>5, <1>6, <1>9, <1>10, <1>11 DEF Reading
  <2>2. ses'.promised = Least(Total(Before(j))', ses'.asked) /\ ses'.promised > 0
    BY <1>1, <1>2, <1>5, <1>13 DEF Reading
  <2>3. ~ses'.grew => Upto(NumFiles)' = Upto(j)' \o ses'.got
    BY <1>2, <1>14, <1>15
  <2>. QED BY <2>1, <2>2, <2>3 DEF Reopening, Least
<1>17. Walk'
  BY <1>1, <1>9, <1>10, <1>16 DEF Walk
<1>. QED BY <1>3, <1>4, <1>17 DEF Session

\* What is left is worth reading: the chunk is not empty, and not more than what is left.
LEMMA ChunkFacts ==
  ASSUME Types, Session, at = "read", ses.left > 0, NEW k \in 1..NumFiles, Reading(k)
  PROVE  /\ ChunkLength \in Nat /\ ChunkLength > 0 /\ ChunkLength <= ses.left /\ ChunkLength <= ses.asked
         /\ ses.left <= Total(Rest(k)) /\ Total(Rest(k)) \in Nat /\ ChunkLength <= ses.promised
         /\ Ring[k] \in Files /\ Rest(k) \in [Files -> Nat] /\ Rest(k)[Ring[k]] = ses.left
<1>1. Ring[k] \in Files
  BY RingFacts DEF Types
<1>2. ses.left \in Nat /\ ses.asked \in Nat /\ ses.sizes \in [Files -> Nat]
  BY DEF Session, SessionType
<1>3. Rest(k) \in [Files -> Nat] /\ Rest(k)[Ring[k]] = ses.left
  BY <1>1, <1>2 DEF Rest
<1>4. PICK c : c = Rest(k)
  OBVIOUS
<1>5. IsFiniteSet(Cells(c)) /\ Total(c) \in Nat
  BY <1>3, <1>4, TotalFiles
<1>6. PICK f : f = Ring[k]
  OBVIOUS
<1>7. c[f] <= Total(c)
  <2>1. PICK m \in Nat : m = 0
    OBVIOUS
  <2>. QED BY <1>1, <1>3, <1>4, <1>5, <1>6, <2>1, TotalExcept
<1>8. ses.promised = Least(Total(c), ses.asked) /\ ses.promised > 0
  BY <1>4 DEF Reading
<1>9. ses.asked > 0
  BY <1>2, <1>5, <1>8 DEF Least
<1>10. ChunkSize \in Nat /\ ChunkSize > 0
  BY LogFilesAssumption
<1>11. /\ ChunkLength \in Nat /\ ChunkLength > 0 /\ ChunkLength <= ses.left /\ ChunkLength <= ses.asked
  BY <1>2, <1>9, <1>10 DEF ChunkLength, Least
<1>12. ChunkLength <= ses.promised
  BY <1>2, <1>3, <1>4, <1>5, <1>6, <1>7, <1>8, <1>11 DEF Least
<1>. QED BY <1>1, <1>3, <1>4, <1>5, <1>6, <1>7, <1>11, <1>12

\* A chunk passes from what is to be read to what has been sent.
LEMMA ReadSession ==
  ASSUME Types, Types', Session, Read
  PROVE  Session'
<1>1. at = "read" /\ ses.left > 0 /\ UNCHANGED <<content, current, hollow, astray>>
  BY DEF Read, Chunk, files, ring, faults
<1>2. PICK k \in 1..NumFiles : Reading(k)
  BY <1>1 DEF Session, Walk
<1>3. PICK n, f, c, t, g : /\ n = ChunkLength /\ f = Ring[k] /\ c = content[f]
                           /\ t = SubSeq(c, ses.pos - n + 1, ses.pos) /\ g = ses.got
  OBVIOUS
<1>4. /\ n \in Nat /\ n > 0 /\ n <= ses.left /\ n <= ses.asked /\ n <= ses.promised
      /\ ses.left <= Total(Rest(k)) /\ Total(Rest(k)) \in Nat
      /\ f \in Files /\ Rest(k) \in [Files -> Nat] /\ Rest(k)[f] = ses.left
  BY <1>1, <1>2, <1>3, ChunkFacts
<1>5. /\ ses.asked \in Nat /\ ses.left \in Nat /\ ses.pos \in Nat /\ ses.promised \in Nat
      /\ g \in Seq(Ids) /\ c \in Seq(Ids) /\ Len(c) \in Nat
  <2>1. c \in Seq(Ids)
    BY <1>3, <1>4 DEF Types
  <2>. QED BY <1>3, <2>1 DEF Session, SessionType
<1>6. ses.index = f /\ ses.left <= ses.pos /\ ses.pos <= Len(c)
  BY <1>2, <1>3 DEF Reading
<1>7. ses.pos - n \in Nat /\ ses.left - n \in Nat /\ ses.asked - n \in Nat /\ ses.promised - n \in Nat
      /\ n \in 0..ses.pos /\ ses.pos \in 0..Len(c)
  <2>1. PICK a, l, p, m, z : a = ses.asked /\ l = ses.left /\ p = ses.pos /\ m = ses.promised /\ z = Len(c)
    OBVIOUS
  <2>2. a \in Nat /\ l \in Nat /\ p \in Nat /\ m \in Nat /\ z \in Nat /\ n \in Nat
    BY <1>4, <1>5, <2>1
  <2>3. n <= l /\ n <= a /\ n <= m /\ l <= p /\ p <= z
    BY <1>4, <1>6, <2>1
  <2>4. p - n \in Nat /\ l - n \in Nat /\ a - n \in Nat /\ m - n \in Nat /\ n \in 0..p /\ p \in 0..z
    BY <2>2, <2>3
  <2>. QED BY <2>1, <2>4
<1>8. /\ SubSeq(c, 1, ses.pos) \in Seq(Ids) /\ t \in Seq(Ids) /\ SubSeq(c, 1, ses.pos - n) \in Seq(Ids)
      /\ SubSeq(c, 1, ses.pos) = SubSeq(c, 1, ses.pos - n) \o t
  <2>1. PICK p : p = ses.pos
    OBVIOUS
  <2>2. PICK q : q = p - n
    OBVIOUS
  <2>3. p \in 0..Len(c) /\ n \in 0..p /\ q \in 0..Len(c) /\ 0 \in 0..q
    BY <1>5, <1>7, <2>1, <2>2
  <2>4. /\ SubSeq(c, 1, p) \in Seq(Ids) /\ SubSeq(c, p - n + 1, p) \in Seq(Ids)
        /\ SubSeq(c, 1, p) = SubSeq(c, 1, p - n) \o SubSeq(c, p - n + 1, p)
    BY <1>5, <2>3, SplitAt
  <2>5. SubSeq(c, 1, q) \in Seq(Ids)
    <3>1. PICK z : z \in 0..q
      BY <2>3
    <3>. QED BY <1>5, <2>3, <3>1, SplitAt
  <2>. QED BY <1>3, <2>1, <2>2, <2>4, <2>5
<1>9. PICK read : read = [ses EXCEPT !.pos = ses.pos - n, !.left = ses.left - n, !.asked = ses.asked - n]
  OBVIOUS
<1>10. \/ /\ ses' = [read EXCEPT !.got = t \o g, !.promised = ses.promised - n]
          /\ at' = IF ses.promised = n THEN "end" ELSE "read"
       \/ at' = "end" /\ ses' = read
  BY <1>3, <1>6, <1>9 DEF Read, Chunk, Session, SessionType
<1>11. /\ read.asked = ses.asked - n /\ read.sizes = ses.sizes /\ read.index = f /\ read.left = ses.left - n
       /\ read.pos = ses.pos - n /\ read.promised = ses.promised /\ read.got = g /\ read.grew = ses.grew
       /\ read \in [asked : Nat, sizes : [Files -> Nat], index : Files, left : Nat, pos : Nat,
                    promised : Nat, got : Seq(Ids), grew : BOOLEAN]
  BY <1>3, <1>6, <1>7, <1>9 DEF Session, SessionType
<1>12. Ring' = Ring /\ \A j : Upto(j)' = Upto(j)
  BY <1>1 DEF Ring, Upto
<1>13. CASE at' = "end" /\ ses' = read
  <2>1. Sized'
    BY <1>1, <1>11, <1>13, SizedKept DEF InSession
  <2>2. ~ses.grew => \E u \in Seq(Ids) : Upto(NumFiles) = u \o ses.got
    BY <1>2, ReadingEnds
  <2>3. Walk'
    BY <1>3, <1>11, <1>12, <1>13, <2>2 DEF Walk
  <2>4. SessionType'
    BY <1>11, <1>13 DEF SessionType
  <2>. QED BY <2>1, <2>3, <2>4 DEF Session
<1>14. CASE /\ ses' = [read EXCEPT !.got = t \o g, !.promised = ses.promised - n]
            /\ at' = IF ses.promised = n THEN "end" ELSE "read"
  <2>1. t \o g \in Seq(Ids)
    BY <1>5, <1>8, ConcatProperties
  <2>2. /\ ses'.asked = ses.asked - n /\ ses'.sizes = ses.sizes /\ ses'.index = f /\ ses'.left = ses.left - n
        /\ ses'.pos = ses.pos - n /\ ses'.promised = ses.promised - n /\ ses'.got = t \o g /\ ses'.grew = ses.grew
        /\ SessionType'
    BY <1>7, <1>11, <1>14, <2>1 DEF SessionType
  <2>3. Sized'
    BY <1>1, <1>14, <2>2, SizedKept DEF InSession
  <2>4. Rest(k)' = [Rest(k) EXCEPT ![f] = ses.left - n]
    BY <1>3, <1>4, <1>12, <2>2 DEF Rest
  <2>5. Total(Rest(k))' = Total(Rest(k)) - n
    <3>1. PICK r, m : r = Rest(k) /\ m = ses.left - n
      OBVIOUS
    <3>2. IsFiniteSet(Cells(r))
      BY <1>4, <3>1, TotalFiles
    <3>3. Total([r EXCEPT ![f] = m]) = Total(r) - r[f] + m
      BY <1>4, <1>7, <3>1, <3>2, TotalExcept
    <3>4. Total(Rest(k))' = Total(Rest(k)')
      BY DEF Total
    <3>5. Total(Rest(k))' = Total(Rest(k)) - ses.left + (ses.left - n)
      BY <1>4, <2>4, <3>1, <3>3, <3>4
    <3>. QED BY <1>4, <1>5, <3>5
  <2>6. ses.promised - n = Least(Total(Rest(k)) - n, ses.asked - n)
    BY <1>2, <1>4, <1>5 DEF Reading, Least
  <2>7. ~ses.grew => /\ ses.left - n = ses.pos - n
                     /\ Upto(NumFiles) = (Upto(k - 1) \o SubSeq(c, 1, ses.pos - n)) \o (t \o g)
    <3>1. SUFFICES ASSUME ~ses.grew
                   PROVE  /\ ses.left - n = ses.pos - n
                          /\ Upto(NumFiles) = (Upto(k - 1) \o SubSeq(c, 1, ses.pos - n)) \o (t \o g)
      OBVIOUS
    <3>2. PICK v, x, y : v = Upto(k - 1) /\ x = SubSeq(c, 1, ses.pos - n) /\ y = SubSeq(c, 1, ses.pos)
      OBVIOUS
    <3>3. v \in Seq(Ids)
      <4>1. k - 1 \in 0..NumFiles
        BY NumbersFacts DEF Numbers
      <4>. QED BY <3>2, <4>1, UptoFacts
    <3>4. x \in Seq(Ids) /\ y = x \o t
      BY <1>8, <3>2
    <3>5. v \o x \in Seq(Ids)
      BY <3>3, <3>4, ConcatProperties
    <3>6. v \o (x \o t) = (v \o x) \o t
      BY <1>8, <3>3, <3>4, IdsAssociative
    <3>7. ((v \o x) \o t) \o g = (v \o x) \o (t \o g)
      BY <1>5, <1>8, <3>5, IdsAssociative
    <3>8. ses.left = ses.pos /\ Upto(NumFiles) = (v \o y) \o g
      BY <1>2, <1>3, <3>1, <3>2 DEF Reading
    <3>. QED BY <3>2, <3>4, <3>6, <3>7, <3>8
  <2>8. Reading(k)'
    <3>1. ses'.index = Ring'[k] /\ ses'.left <= ses'.pos /\ ses'.pos <= Len(content'[ses'.index])
      <4>1. ses'.index = f /\ Ring'[k] = f /\ content'[f] = c
        BY <1>1, <1>3, <1>12, <2>2
      <4>2. ses.left - n <= ses.pos - n /\ ses.pos - n <= Len(c)
        BY <1>4, <1>5, <1>6
      <4>. QED BY <2>2, <4>1, <4>2
    <3>2. ses'.left <= ses'.sizes[ses'.index]
      <4>1. ses.sizes[f] \in Nat /\ ses.left <= ses.sizes[f]
        BY <1>2, <1>4, <1>6 DEF Reading, Session, SessionType
      <4>. QED BY <1>4, <1>5, <2>2, <4>1
    <3>3. ses'.promised = Least(Total(Rest(k))', ses'.asked)
      BY <2>2, <2>5, <2>6
    <3>4. at' = "read" => ses'.promised > 0
      BY <1>4, <1>5, <1>14, <2>2
    <3>5. ~ses'.grew => /\ ses'.left = ses'.pos
                        /\ Upto(NumFiles)' = (Upto(k - 1)' \o SubSeq(content'[Ring'[k]], 1, ses'.pos)) \o ses'.got
      BY <1>1, <1>3, <1>12, <2>2, <2>7
    <3>. QED BY <3>1, <3>2, <3>3, <3>4, <3>5 DEF Reading, Least
  <2>9. at' = "end" /\ ~ses'.grew => \E u \in Seq(Ids) : Upto(NumFiles)' = u \o ses'.got
    <3>1. PICK v, x : v = Upto(k - 1) /\ x = SubSeq(c, 1, ses.pos - n)
      OBVIOUS
    <3>2. v \o x \in Seq(Ids)
      <4>1. k - 1 \in 0..NumFiles
        BY NumbersFacts DEF Numbers
      <4>2. v \in Seq(Ids) /\ x \in Seq(Ids)
        BY <1>8, <3>1, <4>1, UptoFacts
      <4>. QED BY <4>2, ConcatProperties
    <3>. QED BY <1>12, <2>2, <2>7, <3>1, <3>2
  <2>10. Walk'
    BY <1>14, <2>8, <2>9 DEF Walk
  <2>. QED BY <2>2, <2>3, <2>10 DEF Session
<1>. QED BY <1>10, <1>13, <1>14

\* A file that was empty at the start has none before it that was not, unless it was left so or a
\* restart has gone astray.
LEMMA ReopenSession ==
  ASSUME Types, Types', Filled, Session, Reopen
  PROVE  Session'
<1>1. /\ at = "reopen" /\ UNCHANGED <<content, current, hollow, astray>>
      /\ ses' = [ses EXCEPT !.pos = Len(content[ses.index]), !.left = ses.sizes[ses.index]]
      /\ at' = IF ses.sizes[ses.index] = 0 THEN "short" ELSE "read"
  BY DEF Reopen, files, ring, faults
<1>2. PICK k \in 1..NumFiles : Reopening(k)
  BY <1>1 DEF Session, Walk
<1>3. PICK f, c : f = Ring[k] /\ c = content[f]
  OBVIOUS
<1>4. /\ NumFiles \in Nat /\ k \in Nat /\ k < NumFiles /\ NumFiles \in 1..NumFiles
      /\ \A i \in 1..NumFiles : Ring[i] \in Files
      /\ Ring[NumFiles] = current
      /\ \A i, j \in 1..NumFiles : Ring[i] = Ring[j] => i = j
  BY <1>2, NumbersFacts, RingFacts DEF Numbers, Types, Reopening
<1>5. f \in Files /\ ses.index = f /\ c \in Seq(Ids) /\ Len(c) \in Nat /\ ses.sizes[f] \in Nat
  <2>1. f \in Files /\ ses.index = f
    BY <1>2, <1>3, <1>4 DEF Reopening
  <2>2. c \in Seq(Ids)
    BY <1>3, <2>1 DEF Types
  <2>. QED BY <2>1, <2>2 DEF Session, SessionType
<1>6. /\ ses'.asked = ses.asked /\ ses'.sizes = ses.sizes /\ ses'.index = f /\ ses'.left = ses.sizes[f]
      /\ ses'.pos = Len(c) /\ ses'.promised = ses.promised /\ ses'.got = ses.got /\ ses'.grew = ses.grew
      /\ SessionType'
  BY <1>1, <1>3, <1>5 DEF Session, SessionType
<1>7. Sized'
  BY <1>1, <1>6, SizedKept DEF InSession
<1>8. Ring' = Ring /\ \A j : Upto(j)' = Upto(j)
  BY <1>1 DEF Ring, Upto
<1>9. ses.sizes[f] <= Len(c) /\ (~ses.grew => ses.sizes[f] = Len(c))
  BY <1>1, <1>3, <1>5 DEF Session, Sized, Measured
<1>10. CASE ses.sizes[f] = 0
  <2>1. at' = "short"
    BY <1>1, <1>5, <1>10
  <2>2. astray \/ f \in hollow
    <3>1. SUFFICES ASSUME ~astray, f \notin hollow PROVE FALSE
      OBVIOUS
    <3>2. f # current
      BY <1>3, <1>4
    <3>3. c = <<>>
      BY <1>1, <1>3, <1>5, <1>10, <3>1, <3>2 DEF Session, Sized, Measured
    <3>4. ASSUME NEW g \in Files, NEW i \in 1..k, g = Ring[i]
          PROVE  ses.sizes[g] = 0
      <4>1. i = k \/ (i < k /\ i \in 1..NumFiles)
        BY <1>4
      <4>2. CASE i = k
        BY <1>3, <1>10, <3>4, <4>2
      <4>3. CASE i < k /\ i \in 1..NumFiles
        <5>1. Precedes(g, f)
          BY <1>3, <3>4, <4>3 DEF Precedes
        <5>2. g # current
          BY <1>4, <3>4, <4>3
        <5>3. content[g] = <<>>
          BY <1>3, <1>5, <3>1, <3>2, <3>3, <5>1, <5>2 DEF Filled
        <5>4. ses.sizes[g] <= Len(content[g]) /\ ses.sizes[g] \in Nat
          BY DEF Session, Sized, SessionType
        <5>5. Len(content[g]) = 0
          BY <5>3, EmptySeq
        <5>. QED BY <5>4, <5>5
      <4>. QED BY <4>1, <4>2, <4>3
    <3>5. PICK b : b = Before(k)
      OBVIOUS
    <3>6. DOMAIN b = Files /\ \A g \in Files : b[g] = 0
      BY <3>4, <3>5 DEF Before
    <3>7. Total(b) = 0
      BY <3>6, TotalNone
    <3>8. ses.promised = Least(0, ses.asked) /\ ses.promised > 0 /\ ses.asked \in Nat
      BY <1>2, <3>5, <3>7 DEF Reopening, Session, SessionType
    <3>. QED BY <3>8 DEF Least
  <2>3. ~ses'.grew => \E u \in Seq(Ids) : Upto(NumFiles)' = u \o ses'.got
    <3>1. PICK u : u = Upto(k)
      OBVIOUS
    <3>2. u \in Seq(Ids)
      <4>1. k \in 0..NumFiles
        BY <1>4
      <4>. QED BY <3>1, <4>1, UptoFacts
    <3>. QED BY <1>2, <1>6, <1>8, <3>1, <3>2 DEF Reopening
  <2>4. Walk'
    BY <1>1, <1>6, <2>1, <2>2, <2>3 DEF Walk
  <2>. QED BY <1>6, <1>7, <2>4 DEF Session
<1>11. CASE ses.sizes[f] # 0
  <2>1. at' = "read"
    BY <1>1, <1>5, <1>11
  <2>2. Rest(k)' = Before(k)
    <3>1. \A g \in Files : (\E i \in 1..k : g = Ring[i]) <=> (g = f \/ \E i \in 1..(k - 1) : g = Ring[i])
      <4>1. \A i \in 1..k : i = k \/ i \in 1..(k - 1)
        BY <1>4
      <4>2. k \in 1..k /\ \A i \in 1..(k - 1) : i \in 1..k
        BY <1>4
      <4>. QED BY <1>3, <4>1, <4>2
    <3>2. Rest(k)' = [g \in Files |-> IF g = f THEN ses.sizes[f]
                                      ELSE IF \E i \in 1..(k - 1) : g = Ring[i] THEN ses.sizes[g] ELSE 0]
      BY <1>3, <1>6, <1>8 DEF Rest
    <3>. QED BY <3>1, <3>2 DEF Before
  <2>3. Total(Rest(k))' = Total(Before(k))
    <3>1. Total(Rest(k))' = Total(Rest(k)')
      BY DEF Total
    <3>. QED BY <2>2, <3>1
  <2>4. ~ses.grew => Upto(NumFiles) = (Upto(k - 1) \o SubSeq(c, 1, Len(c))) \o ses.got
    <3>1. Upto(k) = Upto(k - 1) \o c
      BY <1>3, UptoFacts
    <3>2. SubSeq(c, 1, Len(c)) = c
      BY <1>5, SubSeqFull
    <3>. QED BY <1>2, <3>1, <3>2 DEF Reopening
  <2>5. Reading(k)'
    <3>1. ses'.index = Ring'[k] /\ ses'.left <= ses'.pos /\ ses'.pos <= Len(content'[ses'.index])
          /\ ses'.left <= ses'.sizes[ses'.index] /\ (~ses'.grew => ses'.left = ses'.pos)
      BY <1>1, <1>3, <1>5, <1>6, <1>8, <1>9
    <3>2. ses'.promised = Least(Total(Rest(k))', ses'.asked) /\ ses'.promised > 0
      BY <1>2, <1>6, <2>3 DEF Reopening
    <3>3. ~ses'.grew => Upto(NumFiles)' = (Upto(k - 1)' \o SubSeq(content'[Ring'[k]], 1, ses'.pos)) \o ses'.got
      BY <1>1, <1>3, <1>6, <1>8, <2>4
    <3>. QED BY <3>1, <3>2, <3>3 DEF Reading, Least
  <2>6. Walk'
    BY <2>1, <2>5 DEF Walk
  <2>. QED BY <1>6, <1>7, <2>6 DEF Session
<1>. QED BY <1>10, <1>11

LEMMA SessionInit == Init => Session
<1>. SUFFICES ASSUME Init PROVE Session
  OBVIOUS
<1>1. at = "idle" /\ ses = NoSession
  BY DEF Init
<1>2. Types
  BY TypesInit
<1>3. 0 \in Files /\ <<>> \in Seq(Ids)
  BY EmptySeq, NumbersFacts DEF Numbers, Files
<1>4. SessionType
  BY <1>1, <1>3 DEF SessionType, NoSession
<1>5. ses.got = <<>> /\ \A f \in Files : ses.sizes[f] = 0 /\ Len(content[f]) \in Nat
  BY <1>1, <1>2 DEF NoSession, Types
<1>6. Sized
  BY <1>1, <1>5 DEF Sized, Measured
<1>7. Walk
  BY <1>1 DEF Walk
<1>. QED BY <1>4, <1>6, <1>7 DEF Session

LEMMA SessionNext ==
  ASSUME IInv, Stored, Session, Types', [Next]_vars
  PROVE  Session'
<1>1. Types
  BY DEF Stored
<1>2. CASE \E l \in Loggers : LoggerStep(l)
  BY <1>2, LoggerSession
<1>3. CASE FlushStep \/ UNCHANGED vars
  BY <1>3, FlushSession
<1>4. CASE Begin
  BY <1>1, <1>4, BeginSession
<1>5. CASE SessionStep
  <2>1. CASE FileSize
    BY <1>1, <2>1, FileSizeSession
  <2>2. CASE OpenCurrent
    BY <1>1, <2>2, OpenCurrentSession
  <2>3. CASE Respond
    BY <1>1, <2>3, RespondSession
  <2>4. CASE Read
    BY <1>1, <2>4, ReadSession
  <2>5. CASE NextFile
    BY <1>1, <2>5, NextFileSession
  <2>6. CASE Reopen
    BY <1>1, <2>6, ReopenSession DEF Stored
  <2>7. CASE BeginTimeout \/ BeginFails \/ ReopenTimeout \/ ReadFails \/ End
    <3>1. Return
      BY <2>7 DEF BeginTimeout, BeginFails, ReopenTimeout, ReadFails, End
    <3>. QED BY <3>1, IdleSession DEF Return
  <2>. QED BY <1>5, <2>1, <2>2, <2>3, <2>4, <2>5, <2>6, <2>7 DEF SessionStep
<1>6. CASE Restart
  <2>1. Return
    BY <1>6 DEF Restart
  <2>. QED BY <2>1, IdleSession DEF Return
<1>. QED BY <1>2, <1>3, <1>4, <1>5, <1>6 DEF Next

Whole == IInv /\ Held /\ Stored /\ Session

LEMMA WholeInvariant == Spec => []Whole
<1>1. Init => Whole
  BY InitIInv, HeldInit, StoredInit, SessionInit DEF Whole
<1>2. Whole /\ [Next]_vars => Whole'
  <2>. SUFFICES ASSUME Whole, [Next]_vars PROVE Whole'
    OBVIOUS
  <2>1. IInv' /\ Held'
    BY NextIInv, HeldNext DEF Whole
  <2>2. Stored'
    BY StoredNext DEF Whole
  <2>3. Session'
    BY <2>2, SessionNext DEF Whole, Stored
  <2>. QED BY <2>1, <2>2, <2>3 DEF Whole
<1>. QED BY <1>1, <1>2, PTL DEF Spec

\* What is not needed for the files and the session.
Counters ==
  /\ sessions \in 0..MaxSessions /\ restarts \in 0..MaxRestarts /\ failures \in 0..MaxFailures

LEMMA CountersNext ==
  ASSUME Counters, [Next]_vars
  PROVE  Counters'
<1>1. {MaxSessions, MaxRestarts, MaxFailures} \subseteq Nat
  BY LogFilesAssumption
<1>2. \/ UNCHANGED <<sessions, restarts, failures>>
      \/ sessions < MaxSessions /\ sessions' = sessions + 1 /\ UNCHANGED <<restarts, failures>>
      \/ restarts < MaxRestarts /\ restarts' = restarts + 1 /\ UNCHANGED <<sessions, failures>>
      \/ failures < MaxFailures /\ failures' = failures + 1 /\ UNCHANGED <<sessions, restarts>>
  <2>1. CASE \E l \in Loggers : LoggerStep(l)
    BY <2>1 DEF LoggerStep, Reserve, Rotate, Advance, Open, OpenTimeout, Zero, Zeroed, ZeroFails, Enqueue,
                command, faults
  <2>2. CASE FlushStep \/ UNCHANGED vars
    BY <2>2 DEF FlushStep, Flush, FlushFile, FlushFails, FlushEnds, vars, command, faults
  <2>3. CASE Begin \/ SessionStep
    BY <2>3 DEF Begin, SessionStep, FileSize, OpenCurrent, OpenedAt, BeginTimeout, BeginFails, Respond, Read,
                Chunk, NextFile, Reopen, ReopenTimeout, ReadFails, End, faults
  <2>4. CASE Restart
    BY <2>4 DEF Restart
  <2>. QED BY <2>1, <2>2, <2>3, <2>4 DEF Next
<1>. QED BY <1>1, <1>2 DEF Counters

\* Every variable stays in its type; no count runs over.
THEOREM TypeCorrect == Spec => []TypeOK
<1>1. Init => Counters
  BY LogFilesAssumption DEF Init, Counters
<1>2. Counters /\ [Next]_vars => Counters'
  BY CountersNext
<1>3. Whole /\ Counters => TypeOK
  <2>. SUFFICES ASSUME Whole, Counters PROVE TypeOK
    OBVIOUS
  <2>1. IInv /\ Types /\ SessionType
    BY DEF Whole, Stored, Session
  <2>2. /\ content \in [Files -> Seq(1..MaxLogs)] /\ pending \in Seq(Records) /\ batch \in Seq(Records)
        /\ current \in Files /\ size \in 0..MaxSize /\ rec \in [Loggers -> Records \cup {NoRecord}]
        /\ astray \in BOOLEAN /\ {unzeroed, hollow, repeated} \subseteq SUBSET Files /\ saved \in 0..MaxLogs
    BY <2>1 DEF Types, Ids
  <2>3. /\ pc \in [Loggers -> {"idle", "open", "zero", "enqueue"}] /\ fsm \in Holders /\ logm \in Holders
        /\ at \in {"idle", "sizes", "open"} \cup InSession /\ reading \in BOOLEAN /\ leaked \in BOOLEAN
    BY <2>1 DEF IInv, Places
  <2>4. ses \in [asked : Nat, sizes : [Files -> Nat], index : Files, left : Nat, pos : Nat,
                 promised : Nat, got : Seq(1..MaxLogs), grew : BOOLEAN]
    BY <2>1 DEF SessionType, Ids
  <2>. QED BY <2>2, <2>3, <2>4 DEF TypeOK, Counters, Holders, InSession
<1>. QED BY <1>1, <1>2, <1>3, WholeInvariant, PTL DEF Spec

\* A log file never grows beyond FS_LOGGING_MAX_FILE_SIZE, whatever the write cache holds back and
\* loses, unless it was not zeroed when its turn came, waited then for records of an earlier one, or a
\* flush that failed has written one of its records twice.
THEOREM SizeBoundedCorrect == Spec => []SizeBounded
<1>1. Whole => SizeBounded
  <2>. SUFFICES ASSUME Whole, NEW f \in Files \ (unzeroed \cup repeated) PROVE Len(content[f]) <= MaxSize
    BY DEF SizeBounded
  <2>. USE DEF Whole, Stored
  <2>1. /\ content[f] \in Seq(Ids) /\ UnitsOf(Coming(f)) \in Seq(Ids) /\ Reserved(f) \in [Loggers -> Nat]
    BY DerivedTypes
  <2>2. PICK s, u, c : s = content[f] /\ u = UnitsOf(Coming(f)) /\ c = Reserved(f)
    OBVIOUS
  <2>3. Len(s \o u) = Len(s) + Len(u) /\ Len(s) \in Nat /\ Len(u) \in Nat
    BY <2>1, <2>2, ConcatProperties
  <2>4. Total(c) \in Nat
    <3>1. IsFiniteSet(Cells(c))
      BY <2>2 DEF Counted
    <3>. QED BY <3>1, FS_CardinalityType DEF Total, Cells
  <2>5. Len(s \o u) + Total(c) <= Limit(f)
    BY <2>2 DEF Bounded, Planned
  <2>6. Limit(f) \in Nat /\ Limit(f) <= MaxSize /\ MaxSize \in Nat
    BY Sizes DEF Limit, Types
  <2>. QED BY <2>2, <2>3, <2>4, <2>5, <2>6
<1>. QED BY <1>1, WholeInvariant, PTL

\* The files hold the records in order, whichever task logs first and whichever record is flushed
\* first, whatever is lost or written twice, until a restart resumes at another file.
THEOREM FilesInOrderCorrect == Spec => []FilesInOrder
<1>1. Whole => FilesInOrder
  <2>. SUFFICES ASSUME Whole, ~astray, NEW i \in 1..NumFiles, NEW j \in 1..NumFiles,
                       i < j, {Ring[i], Ring[j]} \cap unzeroed = {},
                       NEW a \in ToSet(content[Ring[i]]), NEW b \in ToSet(content[Ring[j]])
                PROVE  a < b
    BY DEF FilesInOrder
  <2>. USE DEF Whole, Stored
  <2>1. PICK f, g : f = Ring[i] /\ g = Ring[j]
    OBVIOUS
  <2>2. f \in Files \ unzeroed /\ g \in Files \ unzeroed /\ Precedes(f, g)
    BY <2>1, RingFacts DEF Types, Precedes
  <2>3. ASSUME NEW h \in Files PROVE ToSet(content[h]) \subseteq Has(h)
    <3>1. PICK s, u : s = content[h] /\ u = UnitsOf(Coming(h))
      OBVIOUS
    <3>2. s \in Seq(Ids) /\ u \in Seq(Ids)
      BY <3>1, DerivedTypes
    <3>3. Range(s \o u) = Range(s) \cup Range(u)
      BY <3>2, RangeConcatenation
    <3>4. ToSet(s) = Range(s)
      BY DEF ToSet, Range
    <3>. QED BY <3>1, <3>3, <3>4 DEF Has, Planned
  <2>4. a \in Has(f) /\ b \in Has(g)
    BY <2>1, <2>2, <2>3
  <2>. QED BY <2>2, <2>4 DEF Ordered
<1>. QED BY <1>1, WholeInvariant, PTL

\* What a session has sent, put back in order, is the end of the log: no unit is left out or sent
\* twice on the way back through the ring, unless a flush fell into the session.
THEOREM ReadsBackwardsCorrect == Spec => []ReadsBackwards
<1>1. Whole => ReadsBackwards
  <2>. SUFFICES ASSUME Whole, at \in {"read", "reopen", "end", "short"}, ~ses.grew
                PROVE  IsSuffix(ses.got, Upto(NumFiles))
    BY DEF ReadsBackwards, Upto
  <2>. USE DEF Whole, Stored
  <2>1. \E u \in Seq(Ids) : Upto(NumFiles) = u \o ses.got
    <3>1. CASE at = "read"
      <4>1. PICK k \in 1..NumFiles : Reading(k)
        BY <3>1 DEF Session, Walk
      <4>. QED BY <4>1, ReadingEnds
    <3>2. CASE at = "reopen"
      <4>1. PICK k \in 1..NumFiles : Reopening(k)
        BY <3>2 DEF Session, Walk
      <4>2. k \in 0..NumFiles
        BY NumbersFacts DEF Numbers
      <4>. QED BY <4>1, <4>2, UptoFacts DEF Reopening
    <3>3. CASE at \in {"end", "short"}
      BY <3>3 DEF Session, Walk
    <3>. QED BY <3>1, <3>2, <3>3
  <2>2. PICK u \in Seq(Ids) : Upto(NumFiles) = u \o ses.got
    BY <2>1
  <2>3. PICK g : g = ses.got
    OBVIOUS
  <2>4. g \in Seq(Ids)
    BY <2>3 DEF Session, SessionType
  <2>5. IsSuffix(g, u \o g)
    BY <2>4, SuffixOfConcat
  <2>. QED BY <2>2, <2>3, <2>5
<1>. QED BY <1>1, WholeInvariant, PTL

\* The length that is announced is sent, unless the output refuses a chunk, a restart resumed at
\* another file, or the way back comes to a file that was left when nothing of it was in flash:
\* nothing else cuts it short, and no chunk begins before its file does.
THEOREM PromiseKeptCorrect == Spec => []PromiseKept
<1>1. Whole => PromiseKept
  <2>. SUFFICES ASSUME Whole PROVE PromiseKept
    OBVIOUS
  <2>1. at = "short" => astray \/ ses.index \in hollow
    BY DEF Whole, Session, Walk
  <2>2. at = "read" => ses.left <= ses.pos
    BY DEF Whole, Session, Walk, Reading
  <2>. QED BY <2>1, <2>2 DEF PromiseKept
<1>. QED BY <1>1, WholeInvariant, PTL

=============================================================================
