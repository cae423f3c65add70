----------------------------- MODULE ListingProofs -----------------------------
(***************************************************************************)
(* Theorems about what all lists have in common.                            *)
(*                                                                         *)
(* The order of a list is a strict total order on rows with different ids.  *)
(* A list holds the rows that match, each once, in that order, so that      *)
(* there is one list whatever order the rows came in; and the bounds of a    *)
(* page are those of a slice of it, whatever page is asked for.             *)
(***************************************************************************)
EXTENDS Listing, FiniteSetTheorems, SequenceTheorems, WellFoundedInduction, TLAPS

-----------------------------------------------------------------------------
(* Induction over numbers and finite sets, and what folds compute *)

(* Every set of numbers that is not empty has a least one. *)
LEMMA LeastNat ==
    ASSUME NEW T \in SUBSET Nat, T /= {}
    PROVE  \E n \in T : \A m \in T : n <= m
<1> DEFINE R == OpToRel(<, Nat)
<1>1. IsWellFoundedOn(R, Nat)
    BY NatLessThanWellFounded
<1>2. \A m, n \in Nat : m < n => <<m, n>> \in R
    BY DEF OpToRel
<1> HIDE DEF R
<1>3. PICK n \in T : \A m \in T : ~(<<m, n>> \in R)
    BY <1>1, WFMin
<1>4. \A m \in T : ~(m < n)
    BY <1>2, <1>3, Zenon
<1> QED
    BY <1>4

(* A set that 0 is in, and with every number the next, has all numbers. *)
LEMMA NatSetInduction ==
    ASSUME NEW T, 0 \in T, \A n \in Nat : n \in T => n + 1 \in T
    PROVE  Nat \subseteq T
<1> DEFINE U == {n \in Nat : n \notin T}
<1> SUFFICES ASSUME U /= {} PROVE FALSE
    OBVIOUS
<1>1. PICK n \in U : \A m \in U : n <= m
    BY LeastNat
<1>2. n /= 0 /\ n - 1 \in Nat /\ n - 1 \notin U
    BY <1>1
<1>3. n - 1 \in T
    BY <1>2
<1> QED
    BY <1>1, <1>2, <1>3

(* A set of subsets of a finite set has them all if it has the empty one, and has *)
(* every other when it has what is left of it without any of its elements.        *)
LEMMA SubsetInduction ==
    ASSUME NEW S, IsFiniteSet(S), NEW T, {} \in T,
           \A s \in SUBSET S : s /= {} /\ (\A x \in s : s \ {x} \in T) => s \in T
    PROVE  SUBSET S \subseteq T
<1> DEFINE N == {n \in Nat : \A s \in SUBSET S : Cardinality(s) = n => s \in T}
<1>1. \A s \in SUBSET S : IsFiniteSet(s) /\ Cardinality(s) \in Nat
    BY FS_Subset, FS_CardinalityType
<1>2. 0 \in N
    BY <1>1, FS_EmptySet
<1>3. ASSUME NEW n \in Nat, n \in N PROVE n + 1 \in N
  <2> SUFFICES ASSUME NEW s \in SUBSET S, Cardinality(s) = n + 1 PROVE s \in T
      OBVIOUS
  <2>1. s /= {}
      BY <1>1, FS_EmptySet
  <2>2. ASSUME NEW x \in s PROVE s \ {x} \in T
    <3>1. Cardinality(s \ {x}) = n
        BY <1>1, FS_RemoveElement
    <3> QED
        BY <1>3, <3>1
  <2> QED
      BY <2>1, <2>2
<1> HIDE DEF N
<1>4. Nat \subseteq N
    BY <1>2, <1>3, NatSetInduction
<1> QED
    BY <1>1, <1>4 DEF N

(* What a fold computes, by the elements that are picked of each set. *)
Folding(g, S, pick, base, step) ==
    g = [s \in SUBSET S |-> IF s = {} THEN base ELSE step[<<pick[s], g[s \ {pick[s]}]>>]]

(* What a fold over a finite set computes, subset by subset. *)
LEMMA FoldingExists ==
    ASSUME NEW S, IsFiniteSet(S), NEW pick, \A s \in SUBSET S : s /= {} => pick[s] \in s,
           NEW A, NEW base \in A, NEW step \in [S \X A -> A]
    PROVE  \E g \in [SUBSET S -> A] : Folding(g, S, pick, base, step)
<1> DEFINE Upto(n) == {s \in SUBSET S : Cardinality(s) <= n}
           Value(g, s) == IF s = {} THEN base ELSE step[<<pick[s], g[s \ {pick[s]}]>>]
           Folded(n) == \E g \in [Upto(n) -> A] : \A s \in Upto(n) : g[s] = Value(g, s)
           N == {n \in Nat : Folded(n)}
<1>1. \A s \in SUBSET S : IsFiniteSet(s) /\ Cardinality(s) \in Nat
    BY FS_Subset, FS_CardinalityType
<1>2. 0 \in N
  <2> DEFINE g == [s \in Upto(0) |-> base]
  <2>1. \A s \in Upto(0) : s = {}
      BY <1>1, FS_EmptySet
  <2>2. g \in [Upto(0) -> A] /\ \A s \in Upto(0) : g[s] = Value(g, s)
      BY <2>1
  <2> QED
      BY <2>2
<1>3. ASSUME NEW n \in Nat, n \in N PROVE n + 1 \in N
  <2>1. PICK g \in [Upto(n) -> A] : \A s \in Upto(n) : g[s] = Value(g, s)
      BY <1>3
  <2> DEFINE h == [s \in Upto(n + 1) |-> Value(g, s)]
  <2>2. ASSUME NEW s \in Upto(n + 1), s /= {}
        PROVE  s \ {pick[s]} \in Upto(n) /\ s \ {pick[s]} \in Upto(n + 1) /\ pick[s] \in S
    <3>1. pick[s] \in s
        BY <2>2
    <3>2. Cardinality(s \ {pick[s]}) = Cardinality(s) - 1
        BY <1>1, <3>1, FS_RemoveElement
    <3>3. Cardinality(s) \in Nat /\ Cardinality(s) <= n + 1
        BY <1>1
    <3> QED
        BY <3>1, <3>2, <3>3
  <2>3. \A s \in Upto(n + 1) : Value(g, s) \in A
      BY <2>2
  <2>4. h \in [Upto(n + 1) -> A]
      BY <2>3
  <2>5. \A s \in Upto(n) : s \in Upto(n + 1) /\ h[s] = g[s]
    <3>1. \A s \in Upto(n) : s \in Upto(n + 1)
        BY <1>1
    <3> QED
        BY <2>1, <3>1
  <2>6. ASSUME NEW s \in Upto(n + 1) PROVE h[s] = Value(h, s)
    <3>1. CASE s = {}
        BY <3>1
    <3>2. CASE s /= {}
      <4>1. h[s \ {pick[s]}] = g[s \ {pick[s]}]
          BY <2>2, <2>5, <3>2
      <4> QED
          BY <3>2, <4>1
    <3> QED
        BY <3>1, <3>2
  <2>7. Folded(n + 1)
    <3> HIDE DEF h, Value, Upto
    <3> QED
        BY <2>4, <2>6
  <2> HIDE DEF Folded
  <2> QED
      BY <2>7
<1> HIDE DEF N
<1>4. Cardinality(S) \in N
    BY <1>1, <1>2, <1>3, NatSetInduction
<1>5. PICK g \in [Upto(Cardinality(S)) -> A] : \A s \in Upto(Cardinality(S)) : g[s] = Value(g, s)
    BY <1>4 DEF N
<1>6. Upto(Cardinality(S)) = SUBSET S
    BY FS_Subset
<1>7. g = [s \in SUBSET S |-> Value(g, s)]
    BY <1>5, <1>6
<1>8. g \in [SUBSET S -> A]
    BY <1>5, <1>6
<1>9. Folding(g, S, pick, base, step)
    BY <1>7 DEF Folding
<1> QED
    BY <1>8, <1>9

(* A fold over a sequence takes the largest index off, and what is left is an interval. *)
LEMMA MaxOf ==
    ASSUME NEW n \in Nat, NEW s \in SUBSET (1 .. n), s /= {}
    PROVE  Max(s) \in s /\ \A i \in s : i <= Max(s)
<1> DEFINE above == {m \in Nat : \A i \in s : i <= m}
<1>1. n \in above
    OBVIOUS
<1>2. PICK m \in above : \A k \in above : m <= k
    BY <1>1, LeastNat
<1>3. m \in s
  <2>1. m /= 0
    <3>1. PICK i \in s : TRUE
        OBVIOUS
    <3>2. i >= 1 /\ i <= m
        OBVIOUS
    <3> QED
        BY <3>2
  <2>2. CASE m \notin s
    <3>1. m - 1 \in Nat /\ \A i \in s : i <= m - 1
        BY <1>2, <2>1, <2>2
    <3> QED
        BY <1>2, <3>1
  <2> QED
      BY <2>2
<1>4. \E x \in s : \A y \in s : x >= y
    BY <1>2, <1>3
<1> QED
    BY <1>4 DEF Max

(* The largest of the numbers from 1 to n. *)
LEMMA MaxUpto ==
    ASSUME NEW n \in Nat \ {0}
    PROVE  Max(1 .. n) = n /\ (1 .. n) \ {n} = 1 .. n - 1
<1>1. n \in 1 .. n
    OBVIOUS
<1>2. Max(1 .. n) \in 1 .. n /\ n <= Max(1 .. n)
    BY <1>1, MaxOf
<1> QED
    BY <1>2

(* There is a function that takes the steps of a fold over a sequence. *)
FoldingLeft(g, seq, base, step) ==
    g = [s \in SUBSET (DOMAIN seq) |->
           IF s = {} THEN base ELSE step[<<seq[Max(s)], g[s \ {Max(s)}]>>]]

(* What a fold over a list computes, from its beginning on. *)
LEMMA FoldLeftExists ==
    ASSUME NEW X, NEW seq \in Seq(X), NEW A, NEW base \in A, NEW step \in [X \X A -> A]
    PROVE  \E g \in [SUBSET (DOMAIN seq) -> A] : FoldingLeft(g, seq, base, step)
<1> DEFINE S == DOMAIN seq
           pick == [s \in SUBSET S |-> Max(s)]
           indexed == [p \in S \X A |-> step[<<seq[p[1]], p[2]>>]]
<1>1. S = 1 .. Len(seq) /\ Len(seq) \in Nat /\ \A i \in S : seq[i] \in X
    OBVIOUS
<1>2. IsFiniteSet(S)
    BY <1>1, FS_Interval
<1>3. ASSUME NEW s \in SUBSET S, s /= {} PROVE Max(s) \in s
    BY <1>1, <1>3, MaxOf
<1>4. \A s \in SUBSET S : s /= {} => pick[s] \in s
    BY <1>3
<1>5. indexed \in [S \X A -> A]
    BY <1>1
<1>6. PICK g \in [SUBSET S -> A] : Folding(g, S, pick, base, indexed)
  <2> HIDE DEF pick, indexed, S
  <2> QED
      BY <1>2, <1>4, <1>5, FoldingExists
<1>7. ASSUME NEW s \in SUBSET S, s /= {}
      PROVE  indexed[<<pick[s], g[s \ {pick[s]}]>>] = step[<<seq[Max(s)], g[s \ {Max(s)}]>>]
    BY <1>3, <1>7
<1>8. g = [s \in SUBSET S |-> IF s = {} THEN base ELSE step[<<seq[Max(s)], g[s \ {Max(s)}]>>]]
  <2>1. g = [s \in SUBSET S |-> IF s = {} THEN base ELSE indexed[<<pick[s], g[s \ {pick[s]}]>>]]
      BY <1>6 DEF Folding
  <2> QED
      BY <1>7, <2>1
<1> QED
    BY <1>8 DEF FoldingLeft

-----------------------------------------------------------------------------
(* Lists without repetition. *)

(* A list with a row at place q that another does not have. *)
HasAt(longer, list, q, row) ==
    /\ Len(longer) = Len(list) + 1
    /\ \A i \in 1 .. Len(list) + 1 :
          longer[i] = IF i < q THEN list[i] ELSE IF i = q THEN row ELSE list[i - 1]

(* A list with a row inserted. *)
LEMMA InsertAtIs ==
    ASSUME NEW T, NEW list \in Seq(T), NEW row \in T, NEW q \in 1 .. Len(list) + 1
    PROVE  InsertAt(list, q, row) \in Seq(T) /\ HasAt(InsertAt(list, q, row), list, q, row)
<1> DEFINE left == SubSeq(list, 1, q - 1)
           both == left \o <<row>>
           right == SubSeq(list, q, Len(list))
           all == both \o right
<1>1. Len(list) \in Nat /\ \A i \in 1 .. Len(list) : list[i] \in T
    OBVIOUS
<1>2. left \in Seq(T) /\ Len(left) = q - 1 /\ \A i \in 1 .. q - 1 : left[i] = list[i]
    BY <1>1, SubSeqProperties
<1>3. /\ right \in Seq(T) /\ Len(right) = Len(list) - q + 1
      /\ \A i \in 1 .. Len(list) - q + 1 : right[i] = list[q + i - 1]
    BY <1>1, SubSeqProperties
<1>4. <<row>> \in Seq(T) /\ Len(<<row>>) = 1 /\ <<row>>[1] = row
    OBVIOUS
<1> HIDE DEF left, right
<1>5. both \in Seq(T) /\ Len(both) = q /\ (\A i \in 1 .. q - 1 : both[i] = list[i]) /\ both[q] = row
    BY <1>2, <1>4, ConcatProperties
<1> HIDE DEF both
<1>6. /\ all \in Seq(T)
      /\ Len(all) = Len(list) + 1
      /\ \A i \in 1 .. q : all[i] = both[i]
      /\ \A i \in q + 1 .. Len(list) + 1 : all[i] = right[i - q]
    BY <1>1, <1>3, <1>5, ConcatProperties
<1>7. InsertAt(list, q, row) = all
    BY DEF InsertAt, left, both, right
<1> HIDE DEF all
<1>8. \A i \in q + 1 .. Len(list) + 1 : all[i] = list[i - 1]
    BY <1>1, <1>3, <1>6
<1>9. \A i \in 1 .. Len(list) + 1 : all[i] = IF i < q THEN list[i] ELSE IF i = q THEN row ELSE list[i - 1]
    BY <1>1, <1>5, <1>6, <1>8
<1> QED
    BY <1>6, <1>7, <1>9 DEF HasAt

(* Where a row is inserted: past the last row that it is not before. *)
LEMMA InsertedIs ==
    ASSUME NEW T, NEW list \in Seq(T), NEW row \in T, NEW before
    PROVE  \E q \in 1 .. Len(list) + 1 :
              /\ Inserted(list, row, before) = InsertAt(list, q, row)
              /\ q > 1 => ~before[<<row, list[q - 1]>>]
              /\ \A i \in q .. Len(list) : before[<<row, list[i]>>]
<1> DEFINE stays == {i \in DOMAIN list : ~before[<<row, list[i]>>]}
           places == {n \in Nat : \A i \in stays : i <= n}
           place == CHOOSE n \in stays \cup {0} : \A i \in stays : i <= n
<1>1. DOMAIN list = 1 .. Len(list) /\ Len(list) \in Nat
    OBVIOUS
<1>2. stays \subseteq 1 .. Len(list)
    BY <1>1
<1>3. \A i \in 1 .. Len(list) : i \notin stays => before[<<row, list[i]>>]
    BY <1>1
<1>4. \A i \in stays : ~before[<<row, list[i]>>]
    OBVIOUS
<1>5. Inserted(list, row, before) = InsertAt(list, place + 1, row)
    BY DEF Inserted
<1> HIDE DEF stays
<1>6. PICK m \in places : \A k \in places : m <= k
  <2>1. Len(list) \in places
      BY <1>1, <1>2
  <2> QED
      BY <2>1, LeastNat
<1>7. m \in stays \cup {0}
  <2>1. CASE m = 0
      BY <2>1
  <2>2. CASE m /= 0 /\ m \notin stays
    <3>1. m - 1 \in places
        BY <1>1, <1>2, <2>2
    <3> QED
        BY <1>6, <3>1
  <2> QED
      BY <2>1, <2>2
<1>8. place \in stays \cup {0} /\ \A i \in stays : i <= place
    BY <1>7
<1> HIDE DEF place
<1>9. place + 1 \in 1 .. Len(list) + 1 /\ (place + 1) - 1 = place
    BY <1>1, <1>2, <1>8
<1>10. place + 1 > 1 => ~before[<<row, list[(place + 1) - 1]>>]
    BY <1>1, <1>2, <1>4, <1>8, <1>9
<1>11. \A i \in place + 1 .. Len(list) : before[<<row, list[i]>>]
    BY <1>1, <1>2, <1>3, <1>8, <1>9
<1> QED
    BY <1>5, <1>9, <1>10, <1>11

(* A sequence of a set without repetition, and what it lists. *)
Once(T) == {list \in Seq(T) : IsInjective(list)}

(* No two places of such a list have the same row. *)
LEMMA OnceIs ==
    ASSUME NEW T, NEW list \in Seq(T)
    PROVE  /\ list \in Once(T) <=> \A i, j \in 1 .. Len(list) : list[i] = list[j] => i = j
           /\ Range(list) = {list[i] : i \in 1 .. Len(list)}
           /\ \A x : x \in Range(list) <=> \E i \in 1 .. Len(list) : list[i] = x
           /\ Range(list) \subseteq T
<1>1. DOMAIN list = 1 .. Len(list) /\ \A i \in 1 .. Len(list) : list[i] \in T
    OBVIOUS
<1> QED
    BY <1>1 DEF Once, IsInjective, Range

(* A row that is new is inserted once. *)
LEMMA InsertedOnce ==
    ASSUME NEW T, NEW list \in Once(T), NEW row \in T, row \notin Range(list), NEW before
    PROVE  /\ Inserted(list, row, before) \in Once(T)
           /\ Range(Inserted(list, row, before)) = Range(list) \cup {row}
<1>1. list \in Seq(T) /\ Len(list) \in Nat
    BY DEF Once
<1>2. PICK q \in 1 .. Len(list) + 1 : Inserted(list, row, before) = InsertAt(list, q, row)
    BY <1>1, InsertedIs
<1> DEFINE r == InsertAt(list, q, row)
<1>3. /\ r \in Seq(T)
      /\ Len(r) = Len(list) + 1
      /\ \A i \in 1 .. Len(list) + 1 : r[i] = IF i < q THEN list[i] ELSE IF i = q THEN row ELSE list[i - 1]
  <2>1. r \in Seq(T) /\ HasAt(r, list, q, row)
      BY <1>1, InsertAtIs
  <2> HIDE DEF r
  <2> QED
      BY <2>1 DEF HasAt
<1> HIDE DEF r
<1>4. \A i, j \in 1 .. Len(list) : list[i] = list[j] => i = j
    BY <1>1, OnceIs
<1>5. \A i \in 1 .. Len(list) : list[i] /= row
    BY <1>1, OnceIs
<1>6. \A i, j \in 1 .. Len(r) : r[i] = r[j] => i = j
  <2> TAKE i, j \in 1 .. Len(r)
  <2> DEFINE at(k) == IF k < q THEN k ELSE k - 1
  <2>1. /\ i /= q => r[i] = list[at(i)] /\ at(i) \in 1 .. Len(list)
        /\ j /= q => r[j] = list[at(j)] /\ at(j) \in 1 .. Len(list)
        /\ i = q => r[i] = row
        /\ j = q => r[j] = row
      BY <1>1, <1>3
  <2>2. CASE i = q \/ j = q
      BY <1>5, <2>1, <2>2
  <2>3. CASE i /= q /\ j /= q
    <3>1. r[i] = r[j] => at(i) = at(j)
        BY <1>4, <2>1, <2>3
    <3> QED
        BY <1>1, <2>3, <3>1
  <2> QED
      BY <2>2, <2>3
<1>7. r \in Once(T)
    BY <1>3, <1>6, OnceIs
<1>8. \A x : x \in Range(r) => x \in Range(list) \cup {row}
  <2> TAKE x
  <2> HAVE x \in Range(r)
  <2>1. PICK i \in 1 .. Len(r) : r[i] = x
      BY <1>3, OnceIs
  <2>2. i < q => i \in 1 .. Len(list)
      BY <1>1, <1>3
  <2>3. i > q => i - 1 \in 1 .. Len(list)
      BY <1>1, <1>3
  <2>4. r[i] = IF i < q THEN list[i] ELSE IF i = q THEN row ELSE list[i - 1]
      BY <1>3
  <2>5. \A k \in 1 .. Len(list) : list[k] \in Range(list)
      BY <1>1, OnceIs
  <2> QED
      BY <2>1, <2>2, <2>3, <2>4, <2>5
<1>9. \A x : x \in Range(list) \cup {row} => x \in Range(r)
  <2>1. q \in 1 .. Len(r) /\ r[q] = row
      BY <1>1, <1>3
  <2>2. ASSUME NEW i \in 1 .. Len(list) PROVE \E j \in 1 .. Len(r) : r[j] = list[i]
    <3>1. CASE i < q
      <4>1. i \in 1 .. Len(r) /\ r[i] = list[i]
          BY <1>1, <1>3, <3>1
      <4> QED
          BY <4>1
    <3>2. CASE i >= q
      <4>1. i + 1 \in 1 .. Len(r) /\ r[i + 1] = list[i]
          BY <1>1, <1>3, <3>2
      <4> QED
          BY <4>1
    <3> QED
        BY <1>1, <3>1, <3>2
  <2>3. \A x : x \in Range(r) <=> \E i \in 1 .. Len(r) : r[i] = x
      BY <1>3, OnceIs
  <2>4. \A x : x \in Range(list) <=> \E i \in 1 .. Len(list) : list[i] = x
      BY <1>1, OnceIs
  <2> QED
      BY <2>1, <2>2, <2>3, <2>4, Zenon
<1> QED
    BY <1>2, <1>7, <1>8, <1>9 DEF r

(* The rows of a snapshot that match, in its order. *)
LEMMA SelectedSteps ==
    ASSUME NEW T, NEW ids \in Seq(T), NEW matching
    PROVE  \E h : /\ h[1 .. 0] = <<>>
                  /\ \A n \in 1 .. Len(ids) :
                        h[1 .. n] = IF ids[n] \in matching THEN Append(h[1 .. n - 1], ids[n]) ELSE h[1 .. n - 1]
                  /\ Selected(ids, matching) = h[1 .. Len(ids)]
<1> DEFINE S == DOMAIN ids
           Eq(h) == h = [s \in SUBSET S |->
                           IF s = {} THEN <<>>
                           ELSE IF ids[Max(s)] \in matching
                                THEN Append(h[s \ {Max(s)}], ids[Max(s)]) ELSE h[s \ {Max(s)}]]
           step == [p \in T \X Seq(T) |-> IF p[1] \in matching THEN Append(p[2], p[1]) ELSE p[2]]
<1>1. S = 1 .. Len(ids) /\ Len(ids) \in Nat /\ \A i \in S : ids[i] \in T
    OBVIOUS
<1>2. \E h : Eq(h)
  <2>1. step \in [T \X Seq(T) -> Seq(T)] /\ <<>> \in Seq(T)
      OBVIOUS
  <2>2. PICK g \in [SUBSET S -> Seq(T)] : FoldingLeft(g, ids, <<>>, step)
    <3> HIDE DEF step
    <3> QED
        BY <2>1, FoldLeftExists
  <2>3. ASSUME NEW s \in SUBSET S, s /= {}
        PROVE  step[<<ids[Max(s)], g[s \ {Max(s)}]>>] =
                   IF ids[Max(s)] \in matching THEN Append(g[s \ {Max(s)}], ids[Max(s)]) ELSE g[s \ {Max(s)}]
    <3>1. Max(s) \in S
        BY <1>1, <2>3, MaxOf
    <3> QED
        BY <1>1, <3>1
  <2>4. Eq(g)
    <3> HIDE DEF step
    <3> QED
        BY <2>2, <2>3 DEF FoldingLeft
  <2> QED
      BY <2>4
<1>3. Selected(ids, matching) = (CHOOSE h : Eq(h))[S]
    BY DEF Selected, FoldLeft, MapThenFoldSet
<1>4. PICK h : Eq(h) /\ Selected(ids, matching) = h[S]
  <2> HIDE DEF Eq, S
  <2> QED
      BY <1>2, <1>3
<1>5. h[1 .. 0] = <<>>
    BY <1>4
<1>6. ASSUME NEW n \in 1 .. Len(ids)
      PROVE  h[1 .. n] = IF ids[n] \in matching THEN Append(h[1 .. n - 1], ids[n]) ELSE h[1 .. n - 1]
  <2>1. 1 .. n \in SUBSET S /\ 1 .. n /= {} /\ Max(1 .. n) = n /\ (1 .. n) \ {n} = 1 .. n - 1
      BY <1>1, MaxUpto
  <2> QED
      BY <1>4, <2>1
<1> QED
    BY <1>1, <1>4, <1>5, <1>6

(* The empty list, and a list with one more row. *)
LEMMA EmptyOnce == ASSUME NEW T PROVE <<>> \in Once(T) /\ Range(<<>>) = {}
<1>1. <<>> \in Seq(T) /\ DOMAIN <<>> = {}
    OBVIOUS
<1>2. <<>> \in Once(T)
    BY <1>1 DEF Once, IsInjective
<1>3. Range(<<>>) = {}
    BY <1>1 DEF Range
<1> QED
    BY <1>2, <1>3

LEMMA AppendOnce ==
    ASSUME NEW T, NEW list \in Once(T), NEW row \in T, row \notin Range(list)
    PROVE  Append(list, row) \in Once(T) /\ Range(Append(list, row)) = Range(list) \cup {row}
<1> DEFINE r == Append(list, row)
<1>1. list \in Seq(T) /\ Len(list) \in Nat
    BY DEF Once
<1>2. /\ r \in Seq(T) /\ Len(r) = Len(list) + 1 /\ r[Len(list) + 1] = row
      /\ \A i \in 1 .. Len(list) : r[i] = list[i]
    BY <1>1, AppendProperties
<1> HIDE DEF r
<1>3. /\ \A i, j \in 1 .. Len(list) : list[i] = list[j] => i = j
      /\ \A i \in 1 .. Len(list) : list[i] /= row
      /\ \A x : x \in Range(list) <=> \E i \in 1 .. Len(list) : list[i] = x
    BY <1>1, OnceIs
<1>4. \A i, j \in 1 .. Len(r) : r[i] = r[j] => i = j
    BY <1>1, <1>2, <1>3
<1>5. r \in Once(T) /\ \A x : x \in Range(r) <=> \E i \in 1 .. Len(r) : r[i] = x
    BY <1>2, <1>4, OnceIs
<1>6. \A x : x \in Range(r) <=> x \in Range(list) \cup {row}
  <2>1. \A i : i \in 1 .. Len(r) <=> i \in 1 .. Len(list) \/ i = Len(list) + 1
      BY <1>1, <1>2
  <2> QED
      BY <1>2, <1>3, <1>5, <2>1
<1> QED
    BY <1>5, <1>6 DEF r

(* The rows that match, each once. *)
LEMMA SelectedIs ==
    ASSUME NEW T, NEW ids \in Once(T), NEW matching
    PROVE  /\ Selected(ids, matching) \in Once(T)
           /\ Range(Selected(ids, matching)) = Range(ids) \cap matching
<1>1. ids \in Seq(T) /\ Len(ids) \in Nat /\ \A i \in 1 .. Len(ids) : ids[i] \in T
    BY DEF Once
<1>2. /\ \A i, j \in 1 .. Len(ids) : ids[i] = ids[j] => i = j
      /\ Range(ids) = {ids[i] : i \in 1 .. Len(ids)}
    BY <1>1, OnceIs
<1>3. PICK h : /\ h[1 .. 0] = <<>>
               /\ \A n \in 1 .. Len(ids) :
                     h[1 .. n] = IF ids[n] \in matching THEN Append(h[1 .. n - 1], ids[n]) ELSE h[1 .. n - 1]
               /\ Selected(ids, matching) = h[1 .. Len(ids)]
    BY <1>1, SelectedSteps
<1> DEFINE First(n) == {ids[i] : i \in 1 .. n}
           Good(n) == h[1 .. n] \in Once(T) /\ Range(h[1 .. n]) = First(n) \cap matching
           N == {n \in Nat : n <= Len(ids) => Good(n)}
<1>4. 0 \in N
    BY <1>3, EmptyOnce
<1>5. ASSUME NEW n \in Nat, n \in N PROVE n + 1 \in N
  <2> SUFFICES ASSUME n + 1 <= Len(ids) PROVE Good(n + 1)
      OBVIOUS
  <2>1. Good(n) /\ n + 1 \in 1 .. Len(ids) /\ (n + 1) - 1 = n
      BY <1>1, <1>5
  <2>2. h[1 .. n + 1] = IF ids[n + 1] \in matching THEN Append(h[1 .. n], ids[n + 1]) ELSE h[1 .. n]
      BY <1>3, <2>1
  <2>3. First(n + 1) = First(n) \cup {ids[n + 1]}
    <3>1. \A i : i \in 1 .. n + 1 <=> i \in 1 .. n \/ i = n + 1
        OBVIOUS
    <3> QED
        BY <3>1
  <2>4. ids[n + 1] \notin First(n) /\ ids[n + 1] \in T
      BY <1>1, <1>2, <2>1
  <2> HIDE DEF First
  <2>5. CASE ids[n + 1] \in matching
    <3>1. Append(h[1 .. n], ids[n + 1]) \in Once(T)
          /\ Range(Append(h[1 .. n], ids[n + 1])) = Range(h[1 .. n]) \cup {ids[n + 1]}
        BY <2>1, <2>4, AppendOnce
    <3> QED
        BY <2>1, <2>2, <2>3, <2>5, <3>1
  <2>6. CASE ids[n + 1] \notin matching
      BY <2>1, <2>2, <2>3, <2>6
  <2> QED
      BY <2>5, <2>6
<1> HIDE DEF N
<1>6. Len(ids) \in N
    BY <1>1, <1>4, <1>5, NatSetInduction
<1> QED
    BY <1>2, <1>3, <1>6 DEF N

(* A sort is a row inserted after another. *)
LEMMA SortedSteps ==
    ASSUME NEW T, NEW ids \in Seq(T), NEW before
    PROVE  \E h : /\ h[1 .. 0] = <<>>
                  /\ \A n \in 1 .. Len(ids) : h[1 .. n] = Inserted(h[1 .. n - 1], ids[n], before)
                  /\ Sorted(ids, before) = h[1 .. Len(ids)]
<1> DEFINE S == DOMAIN ids
           Eq(h) == h = [s \in SUBSET S |->
                           IF s = {} THEN <<>> ELSE Inserted(h[s \ {Max(s)}], ids[Max(s)], before)]
           step == [p \in T \X Seq(T) |-> Inserted(p[2], p[1], before)]
<1>1. S = 1 .. Len(ids) /\ Len(ids) \in Nat /\ \A i \in S : ids[i] \in T
    OBVIOUS
<1>2. \E h : Eq(h)
  <2>1. step \in [T \X Seq(T) -> Seq(T)] /\ <<>> \in Seq(T)
    <3>1. ASSUME NEW row \in T, NEW list \in Seq(T) PROVE Inserted(list, row, before) \in Seq(T)
      <4>1. PICK q \in 1 .. Len(list) + 1 : Inserted(list, row, before) = InsertAt(list, q, row)
          BY InsertedIs
      <4> QED
          BY <4>1, InsertAtIs
    <3> QED
        BY <3>1
  <2>2. PICK g \in [SUBSET S -> Seq(T)] : FoldingLeft(g, ids, <<>>, step)
    <3> HIDE DEF step
    <3> QED
        BY <2>1, FoldLeftExists
  <2>3. ASSUME NEW s \in SUBSET S, s /= {}
        PROVE  step[<<ids[Max(s)], g[s \ {Max(s)}]>>] = Inserted(g[s \ {Max(s)}], ids[Max(s)], before)
    <3>1. Max(s) \in S
        BY <1>1, <2>3, MaxOf
    <3> QED
        BY <1>1, <3>1
  <2>4. Eq(g)
    <3> HIDE DEF step
    <3> QED
        BY <2>2, <2>3 DEF FoldingLeft
  <2> QED
      BY <2>4
<1>3. Sorted(ids, before) = (CHOOSE h : Eq(h))[S]
    BY DEF Sorted, FoldLeft, MapThenFoldSet
<1>4. PICK h : Eq(h) /\ Sorted(ids, before) = h[S]
  <2> HIDE DEF Eq, S
  <2> QED
      BY <1>2, <1>3
<1>5. h[1 .. 0] = <<>>
    BY <1>4
<1>6. ASSUME NEW n \in 1 .. Len(ids)
      PROVE  h[1 .. n] = Inserted(h[1 .. n - 1], ids[n], before)
  <2>1. 1 .. n \in SUBSET S /\ 1 .. n /= {} /\ Max(1 .. n) = n /\ (1 .. n) \ {n} = 1 .. n - 1
      BY <1>1, MaxUpto
  <2> QED
      BY <1>4, <2>1
<1> QED
    BY <1>1, <1>4, <1>5, <1>6

(* Whatever rows are compared by, a sort loses and repeats none. *)
LEMMA SortedIs ==
    ASSUME NEW T, NEW ids \in Once(T), NEW before
    PROVE  Sorted(ids, before) \in Once(T) /\ Range(Sorted(ids, before)) = Range(ids)
<1>1. ids \in Seq(T) /\ Len(ids) \in Nat /\ \A i \in 1 .. Len(ids) : ids[i] \in T
    BY DEF Once
<1>2. /\ \A i, j \in 1 .. Len(ids) : ids[i] = ids[j] => i = j
      /\ Range(ids) = {ids[i] : i \in 1 .. Len(ids)}
    BY <1>1, OnceIs
<1>3. PICK h : /\ h[1 .. 0] = <<>>
               /\ \A n \in 1 .. Len(ids) : h[1 .. n] = Inserted(h[1 .. n - 1], ids[n], before)
               /\ Sorted(ids, before) = h[1 .. Len(ids)]
    BY <1>1, SortedSteps
<1> DEFINE First(n) == {ids[i] : i \in 1 .. n}
           Good(n) == h[1 .. n] \in Once(T) /\ Range(h[1 .. n]) = First(n)
           N == {n \in Nat : n <= Len(ids) => Good(n)}
<1>4. 0 \in N
    BY <1>3, EmptyOnce
<1>5. ASSUME NEW n \in Nat, n \in N PROVE n + 1 \in N
  <2> SUFFICES ASSUME n + 1 <= Len(ids) PROVE Good(n + 1)
      OBVIOUS
  <2>1. Good(n) /\ n + 1 \in 1 .. Len(ids) /\ (n + 1) - 1 = n
      BY <1>1, <1>5
  <2>2. h[1 .. n + 1] = Inserted(h[1 .. n], ids[n + 1], before)
      BY <1>3, <2>1
  <2>3. First(n + 1) = First(n) \cup {ids[n + 1]}
    <3>1. \A i : i \in 1 .. n + 1 <=> i \in 1 .. n \/ i = n + 1
        OBVIOUS
    <3> QED
        BY <3>1
  <2>4. ids[n + 1] \notin First(n) /\ ids[n + 1] \in T
      BY <1>1, <1>2, <2>1
  <2> HIDE DEF First
  <2>5. Inserted(h[1 .. n], ids[n + 1], before) \in Once(T)
        /\ Range(Inserted(h[1 .. n], ids[n + 1], before)) = Range(h[1 .. n]) \cup {ids[n + 1]}
      BY <2>1, <2>4, InsertedOnce
  <2> QED
      BY <2>1, <2>2, <2>3, <2>5
<1> HIDE DEF N
<1>6. Len(ids) \in N
    BY <1>1, <1>4, <1>5, NatSetInduction
<1> QED
    BY <1>2, <1>3, <1>6 DEF N

(* Of any two of T one is before the other, and of three in a row the first before the last. *)
IsOrder(T, before) ==
    \A x, y \in T : /\ x /= y => (before[<<x, y>>] <=> ~before[<<y, x>>])
                    /\ \A z \in T : before[<<x, y>>] /\ before[<<y, z>>] => before[<<x, z>>]

(* Every row of a list is before those after it. *)
Ordered(list, before) == \A i, j \in 1 .. Len(list) : i < j => before[<<list[i], list[j]>>]

(* A row is inserted where it belongs, and so the sorted list is in order. *)
LEMMA InsertedOrdered ==
    ASSUME NEW T, NEW before, IsOrder(T, before),
           NEW list \in Once(T), Ordered(list, before), NEW row \in T, row \notin Range(list)
    PROVE  Ordered(Inserted(list, row, before), before)
<1>1. list \in Seq(T) /\ Len(list) \in Nat /\ \A i \in 1 .. Len(list) : list[i] \in T
    BY DEF Once
<1>2. PICK q \in 1 .. Len(list) + 1 :
          /\ Inserted(list, row, before) = InsertAt(list, q, row)
          /\ q > 1 => ~before[<<row, list[q - 1]>>]
          /\ \A i \in q .. Len(list) : before[<<row, list[i]>>]
    BY <1>1, InsertedIs
<1>3. InsertAt(list, q, row) \in Seq(T) /\ HasAt(InsertAt(list, q, row), list, q, row)
    BY <1>1, InsertAtIs
<1>4. \A i \in 1 .. Len(list) : list[i] /= row
    BY <1>1, OnceIs
<1>5. ASSUME NEW i \in 1 .. Len(list), i < q PROVE before[<<list[i], row>>]
  <2>1. q - 1 \in 1 .. Len(list) /\ i <= q - 1 /\ q > 1
      BY <1>1, <1>5
  <2>2. before[<<list[q - 1], row>>]
    <3>1. list[q - 1] \in T /\ list[q - 1] /= row /\ ~before[<<row, list[q - 1]>>]
        BY <1>1, <1>2, <1>4, <2>1
    <3> QED
        BY <3>1 DEF IsOrder
  <2>3. CASE i = q - 1
      BY <2>2, <2>3
  <2>4. CASE i < q - 1
    <3>1. before[<<list[i], list[q - 1]>>]
        BY <2>1, <2>4 DEF Ordered
    <3>2. list[i] \in T /\ list[q - 1] \in T
        BY <1>1, <2>1
    <3> QED
        BY <2>2, <3>1, <3>2 DEF IsOrder
  <2> QED
      BY <2>1, <2>3, <2>4
<1> DEFINE r == InsertAt(list, q, row)
<1>6. /\ Len(r) = Len(list) + 1
      /\ \A i \in 1 .. Len(list) + 1 : r[i] = IF i < q THEN list[i] ELSE IF i = q THEN row ELSE list[i - 1]
    BY <1>3 DEF HasAt
<1> HIDE DEF r
<1>7. ASSUME NEW i \in 1 .. Len(r), NEW j \in 1 .. Len(r), i < j PROVE before[<<r[i], r[j]>>]
  <2>1. CASE j < q
    <3>1. i \in 1 .. Len(list) /\ j \in 1 .. Len(list) /\ r[i] = list[i] /\ r[j] = list[j]
        BY <1>1, <1>6, <1>7, <2>1
    <3> QED
        BY <1>7, <3>1 DEF Ordered
  <2>2. CASE j = q
    <3>1. i \in 1 .. Len(list) /\ i < q /\ r[i] = list[i] /\ r[j] = row
        BY <1>1, <1>6, <1>7, <2>2
    <3> QED
        BY <1>5, <3>1
  <2>3. CASE j > q /\ i = q
    <3>1. j - 1 \in q .. Len(list) /\ r[i] = row /\ r[j] = list[j - 1]
        BY <1>1, <1>6, <1>7, <2>3
    <3> QED
        BY <1>2, <3>1
  <2>4. CASE j > q /\ i < q
    <3>1. i \in 1 .. Len(list) /\ j - 1 \in 1 .. Len(list) /\ i < j - 1 /\ r[i] = list[i] /\ r[j] = list[j - 1]
        BY <1>1, <1>6, <1>7, <2>4
    <3> QED
        BY <3>1 DEF Ordered
  <2>5. CASE i > q
    <3>1. /\ i - 1 \in 1 .. Len(list) /\ j - 1 \in 1 .. Len(list) /\ i - 1 < j - 1
          /\ r[i] = list[i - 1] /\ r[j] = list[j - 1]
        BY <1>1, <1>6, <1>7, <2>5
    <3> QED
        BY <3>1 DEF Ordered
  <2> QED
      BY <1>1, <1>6, <1>7, <2>1, <2>2, <2>3, <2>4, <2>5
<1>8. Ordered(r, before)
    BY <1>7 DEF Ordered
<1> QED
    BY <1>2, <1>8 DEF r

LEMMA SortedOrdered ==
    ASSUME NEW T, NEW ids \in Once(T), NEW before, IsOrder(T, before)
    PROVE  Ordered(Sorted(ids, before), before)
<1>1. ids \in Seq(T) /\ Len(ids) \in Nat /\ \A i \in 1 .. Len(ids) : ids[i] \in T
    BY DEF Once
<1>2. \A i, j \in 1 .. Len(ids) : ids[i] = ids[j] => i = j
    BY <1>1, OnceIs
<1>3. PICK h : /\ h[1 .. 0] = <<>>
               /\ \A n \in 1 .. Len(ids) : h[1 .. n] = Inserted(h[1 .. n - 1], ids[n], before)
               /\ Sorted(ids, before) = h[1 .. Len(ids)]
    BY <1>1, SortedSteps
<1> DEFINE First(n) == {ids[i] : i \in 1 .. n}
           Good(n) == h[1 .. n] \in Once(T) /\ Range(h[1 .. n]) = First(n) /\ Ordered(h[1 .. n], before)
           N == {n \in Nat : n <= Len(ids) => Good(n)}
<1>4. 0 \in N
  <2>1. Ordered(<<>>, before)
      BY DEF Ordered
  <2> QED
      BY <1>3, <2>1, EmptyOnce
<1>5. ASSUME NEW n \in Nat, n \in N PROVE n + 1 \in N
  <2> SUFFICES ASSUME n + 1 <= Len(ids) PROVE Good(n + 1)
      OBVIOUS
  <2>1. Good(n) /\ n + 1 \in 1 .. Len(ids) /\ (n + 1) - 1 = n
      BY <1>1, <1>5
  <2>2. h[1 .. n + 1] = Inserted(h[1 .. n], ids[n + 1], before)
      BY <1>3, <2>1
  <2>3. First(n + 1) = First(n) \cup {ids[n + 1]}
    <3>1. \A i : i \in 1 .. n + 1 <=> i \in 1 .. n \/ i = n + 1
        OBVIOUS
    <3> QED
        BY <3>1
  <2>4. ids[n + 1] \notin First(n) /\ ids[n + 1] \in T
      BY <1>1, <1>2, <2>1
  <2> HIDE DEF First
  <2>5. Inserted(h[1 .. n], ids[n + 1], before) \in Once(T)
        /\ Range(Inserted(h[1 .. n], ids[n + 1], before)) = Range(h[1 .. n]) \cup {ids[n + 1]}
      BY <2>1, <2>4, InsertedOnce
  <2>6. Ordered(Inserted(h[1 .. n], ids[n + 1], before), before)
      BY <2>1, <2>4, InsertedOrdered
  <2> QED
      BY <2>1, <2>2, <2>3, <2>5, <2>6
<1> HIDE DEF N
<1>6. Len(ids) \in N
    BY <1>1, <1>4, <1>5, NatSetInduction
<1> QED
    BY <1>3, <1>6 DEF N

(* There is one way only to put rows in order. *)
LEMMA OneOrder ==
    ASSUME NEW T, NEW before, IsOrder(T, before), NEW a \in Once(T), NEW b \in Once(T),
           Ordered(a, before), Ordered(b, before), Range(a) = Range(b)
    PROVE  a = b
<1>1. /\ a \in Seq(T) /\ Len(a) \in Nat /\ \A i \in 1 .. Len(a) : a[i] \in T
      /\ b \in Seq(T) /\ Len(b) \in Nat /\ \A i \in 1 .. Len(b) : b[i] \in T
    BY DEF Once
<1>2. /\ \A i, j \in 1 .. Len(a) : a[i] = a[j] => i = j
      /\ \A x : x \in Range(a) <=> \E i \in 1 .. Len(a) : a[i] = x
    BY <1>1, OnceIs
<1>3. /\ \A i, j \in 1 .. Len(b) : b[i] = b[j] => i = j
      /\ \A x : x \in Range(b) <=> \E i \in 1 .. Len(b) : b[i] = x
    BY <1>1, OnceIs
<1>4. /\ \A i \in 1 .. Len(a) : \E j \in 1 .. Len(b) : b[j] = a[i]
      /\ \A j \in 1 .. Len(b) : \E i \in 1 .. Len(a) : a[i] = b[j]
    BY <1>2, <1>3
<1> DEFINE differ == {n \in Nat : /\ n \in 1 .. Len(a) \cup 1 .. Len(b)
                              /\ ~(n \in 1 .. Len(a) /\ n \in 1 .. Len(b) /\ a[n] = b[n])}
<1>5. differ = {}
  <2> SUFFICES ASSUME differ /= {} PROVE FALSE
      OBVIOUS
  <2>1. PICK n \in differ : \A m \in differ : n <= m
      BY LeastNat
  <2>2. n \in Nat /\ (n \in 1 .. Len(a) \/ n \in 1 .. Len(b)) /\ n >= 1
      BY <1>1
  <2>3. ~(n \in 1 .. Len(a) /\ n \in 1 .. Len(b) /\ a[n] = b[n])
      OBVIOUS
  <2>4. ASSUME NEW m \in 1 .. n - 1 PROVE m \in 1 .. Len(a) /\ m \in 1 .. Len(b) /\ a[m] = b[m]
    <3>1. m \notin differ
        BY <2>1, <2>2
    <3>2. m \in Nat /\ (m \in 1 .. Len(a) \/ m \in 1 .. Len(b))
        BY <1>1, <2>2
    <3> QED
        BY <3>1, <3>2
  <2> HIDE DEF differ
  <2>5. ASSUME n \in 1 .. Len(a) PROVE \E k \in n .. Len(b) : b[k] = a[n]
    <3>1. PICK k \in 1 .. Len(b) : b[k] = a[n]
        BY <1>4, <2>5
    <3>2. k >= n
      <4>1. CASE k < n
        <5>1. k \in 1 .. Len(a) /\ a[k] = b[k]
            BY <1>1, <2>2, <2>4, <4>1
        <5>2. a[k] = a[n] => k = n
            BY <1>2, <2>5, <5>1
        <5> QED
            BY <3>1, <4>1, <5>1, <5>2
      <4> QED
          BY <1>1, <2>2, <4>1
    <3> QED
        BY <1>1, <2>2, <3>1, <3>2
  <2>6. ASSUME n \in 1 .. Len(b) PROVE \E l \in n .. Len(a) : a[l] = b[n]
    <3>1. PICK l \in 1 .. Len(a) : a[l] = b[n]
        BY <1>4, <2>6
    <3>2. l >= n
      <4>1. CASE l < n
        <5>1. l \in 1 .. Len(b) /\ a[l] = b[l]
            BY <1>1, <2>2, <2>4, <4>1
        <5>2. b[l] = b[n] => l = n
            BY <1>3, <2>6, <5>1
        <5> QED
            BY <3>1, <4>1, <5>1, <5>2
      <4> QED
          BY <1>1, <2>2, <4>1
    <3> QED
        BY <1>1, <2>2, <3>1, <3>2
  <2>7. n \in 1 .. Len(a) /\ n \in 1 .. Len(b)
      BY <1>1, <2>2, <2>5, <2>6
  <2>8. PICK k \in n .. Len(b) : b[k] = a[n]
      BY <2>5, <2>7
  <2>9. PICK l \in n .. Len(a) : a[l] = b[n]
      BY <2>6, <2>7
  <2>10. k > n /\ l > n
      BY <1>1, <2>2, <2>3, <2>7, <2>8, <2>9
  <2>11. before[<<b[n], b[k]>>] /\ before[<<a[n], a[l]>>]
      BY <1>1, <2>2, <2>7, <2>8, <2>9, <2>10 DEF Ordered
  <2>12. before[<<b[n], a[n]>>] /\ before[<<a[n], b[n]>>]
      BY <2>8, <2>9, <2>11
  <2>13. a[n] \in T /\ b[n] \in T /\ a[n] /= b[n]
      BY <1>1, <2>3, <2>7
  <2> QED
      BY <2>12, <2>13 DEF IsOrder
<1>6. \A n \in Nat : n \in 1 .. Len(a) \/ n \in 1 .. Len(b) =>
          n \in 1 .. Len(a) /\ n \in 1 .. Len(b) /\ a[n] = b[n]
    BY <1>5
<1>7. Len(a) = Len(b)
  <2>1. Len(a) > 0 => Len(a) \in 1 .. Len(a)
      BY <1>1
  <2>2. Len(b) > 0 => Len(b) \in 1 .. Len(b)
      BY <1>1
  <2>3. Len(a) <= Len(b) /\ Len(b) <= Len(a)
      BY <1>1, <1>6, <2>1, <2>2
  <2> QED
      BY <1>1, <2>3
<1>8. \A n \in 1 .. Len(a) : a[n] = b[n]
    BY <1>1, <1>6
<1> QED
    BY <1>1, <1>7, <1>8, SeqEqual

(* As many rows are listed as there are. *)
LEMMA OnceCounts ==
    ASSUME NEW T, NEW list \in Once(T)
    PROVE  IsFiniteSet(Range(list)) /\ Len(list) = Cardinality(Range(list))
<1>1. list \in Seq(T) /\ Len(list) \in Nat /\ DOMAIN list = 1 .. Len(list) /\ IsInjective(list)
    BY DEF Once
<1>2. IsFiniteSet(1 .. Len(list)) /\ Cardinality(1 .. Len(list)) = Len(list)
    BY <1>1, FS_Interval
<1>3. list \in Surjection(1 .. Len(list), Range(list)) /\ list \in Injection(1 .. Len(list), Range(list))
    BY <1>1 DEF Surjection, Injection, Range
<1> QED
    BY <1>2, <1>3, FS_Surjection

-----------------------------------------------------------------------------
(* The order of a list *)

(* What is compared of a row: at most two numbers, as many for each row. *)
Keyed(n) == [id : Int, present : BOOLEAN, keys : [1 .. n -> Int]]

(* The comparison in full. *)
LEMMA CompareOne ==
    ASSUME NEW a \in [1 .. 1 -> Int], NEW b \in [1 .. 1 -> Int]
    PROVE  Compare(a, b) = a[1] - b[1]
<1> DEFINE differ == {i \in DOMAIN a : a[i] /= b[i]}
<1>1. DOMAIN a = {1} /\ a[1] \in Int /\ b[1] \in Int
    OBVIOUS
<1>2. CASE differ = {}
    BY <1>1, <1>2 DEF Compare
<1>3. CASE differ /= {}
  <2>1. differ = {1}
      BY <1>1, <1>3
  <2>2. (CHOOSE i \in differ : \A j \in differ : i <= j) = 1
      BY <2>1
  <2> QED
      BY <1>3, <2>2 DEF Compare
<1> QED
    BY <1>2, <1>3

(* Of two numbers the first that differs counts. *)
LEMMA CompareTwo ==
    ASSUME NEW a \in [1 .. 2 -> Int], NEW b \in [1 .. 2 -> Int]
    PROVE  Compare(a, b) = IF a[1] /= b[1] THEN a[1] - b[1] ELSE a[2] - b[2]
<1> DEFINE differ == {i \in DOMAIN a : a[i] /= b[i]}
<1>1. DOMAIN a = {1, 2} /\ a[1] \in Int /\ b[1] \in Int /\ a[2] \in Int /\ b[2] \in Int
    OBVIOUS
<1>2. CASE differ = {}
    BY <1>1, <1>2 DEF Compare
<1>3. CASE 1 \in differ
  <2>1. \A j \in differ : 1 <= j
      BY <1>1
  <2>2. (CHOOSE i \in differ : \A j \in differ : i <= j) = 1
    <3>1. \A i \in differ : (\A j \in differ : i <= j) => i = 1
        BY <1>1, <1>3
    <3> QED
        BY <1>3, <2>1, <3>1
  <2> QED
      BY <1>1, <1>3, <2>2 DEF Compare
<1>4. CASE differ /= {} /\ 1 \notin differ
  <2>1. differ = {2}
      BY <1>1, <1>4
  <2>2. (CHOOSE i \in differ : \A j \in differ : i <= j) = 2
      BY <2>1
  <2> QED
      BY <1>1, <1>4, <2>1, <2>2 DEF Compare
<1> QED
    BY <1>2, <1>3, <1>4

(* So a comparison is that of two numbers of a linear order. *)
LEMMA CompareSign ==
    ASSUME NEW n \in {1, 2}, NEW a \in [1 .. n -> Int], NEW b \in [1 .. n -> Int]
    PROVE  Compare(a, b) \in Int /\ (Compare(a, b) < 0 <=> Compare(b, a) > 0)
<1>1. CASE n = 1
    BY <1>1, CompareOne
<1>2. CASE n = 2
  <2>1. a[1] \in Int /\ a[2] \in Int /\ b[1] \in Int /\ b[2] \in Int
      BY <1>2
  <2> QED
      BY <1>2, <2>1, CompareTwo
<1> QED
    BY <1>1, <1>2

(* The outcome of three comparisons. *)
InOrder(ab, bc, ac) ==
    /\ ab <= 0 /\ bc <= 0 => ac <= 0 /\ (ac = 0 => ab = 0 /\ bc = 0)
    /\ ab = 0 /\ bc = 0 => ac = 0

(* What is compared first to last is compared in order. *)
LEMMA CompareInOrder ==
    ASSUME NEW n \in {1, 2},
           NEW a \in [1 .. n -> Int], NEW b \in [1 .. n -> Int], NEW c \in [1 .. n -> Int]
    PROVE  InOrder(Compare(a, b), Compare(b, c), Compare(a, c))
<1>1. CASE n = 1
    BY <1>1, CompareOne DEF InOrder
<1>2. CASE n = 2
  <2>1. a[1] \in Int /\ a[2] \in Int /\ b[1] \in Int /\ b[2] \in Int /\ c[1] \in Int /\ c[2] \in Int
      BY <1>2
  <2> QED
      BY <1>2, <2>1, CompareTwo DEF InOrder
<1> QED
    BY <1>1, <1>2

-----------------------------------------------------------------------------
(***************************************************************************)
(* The order of every list but those by address (see AddressesInOrder),      *)
(* ascending and descending, whether some rows lack what it is sorted by or  *)
(* not, is a strict total order of rows with different ids                   *)
(* (sortRabbitMQNodes and its like): no row before itself, of two one before *)
(* the other but not both, and transitive.                                   *)
(***************************************************************************)
THEOREM ListsTotallyOrdered ==
    ASSUME NEW n \in {1, 2}, NEW order,
           NEW x \in Keyed(n), NEW y \in Keyed(n), NEW z \in Keyed(n)
    PROVE  /\ ~Before(x, x, order)
           /\ x.id /= y.id => (Before(x, y, order) <=> ~Before(y, x, order))
           /\ Before(x, y, order) /\ Before(y, z, order) => Before(x, z, order)
<1>1. /\ x.id \in Int /\ y.id \in Int /\ z.id \in Int
      /\ x.present \in BOOLEAN /\ y.present \in BOOLEAN /\ z.present \in BOOLEAN
      /\ x.keys \in [1 .. n -> Int] /\ y.keys \in [1 .. n -> Int] /\ z.keys \in [1 .. n -> Int]
    BY DEF Keyed
<1>2. PICK xx, xy, yx, yz, zy, xz, zx :
          /\ xx = Compare(x.keys, x.keys) /\ xy = Compare(x.keys, y.keys) /\ yx = Compare(y.keys, x.keys)
          /\ yz = Compare(y.keys, z.keys) /\ zy = Compare(z.keys, y.keys)
          /\ xz = Compare(x.keys, z.keys) /\ zx = Compare(z.keys, x.keys)
    OBVIOUS
<1>3. xx = 0
  <2>1. xx \in Int /\ (xx < 0 <=> xx > 0)
      BY <1>1, <1>2, CompareSign
  <2> QED
      BY <2>1
<1>4. /\ xy \in Int /\ yx \in Int /\ yz \in Int /\ zy \in Int /\ xz \in Int /\ zx \in Int
      /\ xy < 0 <=> yx > 0
      /\ yx < 0 <=> xy > 0
      /\ yz < 0 <=> zy > 0
      /\ zy < 0 <=> yz > 0
      /\ xz < 0 <=> zx > 0
      /\ zx < 0 <=> xz > 0
    BY <1>1, <1>2, CompareSign
<1>5. InOrder(xy, yz, xz)
    BY <1>1, <1>2, CompareInOrder
<1>6. InOrder(zy, yx, zx)
    BY <1>1, <1>2, CompareInOrder
<1>7. /\ Before(x, x, order) <=> IF xx = 0 THEN x.id < x.id ELSE IF order = "desc" THEN xx > 0 ELSE xx < 0
      /\ Before(x, y, order) <=>
            IF x.present /= y.present THEN x.present
            ELSE IF xy = 0 THEN x.id < y.id ELSE IF order = "desc" THEN xy > 0 ELSE xy < 0
      /\ Before(y, x, order) <=>
            IF y.present /= x.present THEN y.present
            ELSE IF yx = 0 THEN y.id < x.id ELSE IF order = "desc" THEN yx > 0 ELSE yx < 0
      /\ Before(y, z, order) <=>
            IF y.present /= z.present THEN y.present
            ELSE IF yz = 0 THEN y.id < z.id ELSE IF order = "desc" THEN yz > 0 ELSE yz < 0
      /\ Before(x, z, order) <=>
            IF x.present /= z.present THEN x.present
            ELSE IF xz = 0 THEN x.id < z.id ELSE IF order = "desc" THEN xz > 0 ELSE xz < 0
    BY <1>2 DEF Before
<1>8. ~Before(x, x, order)
    BY <1>1, <1>3, <1>7
<1>9. x.id /= y.id => (Before(x, y, order) <=> ~Before(y, x, order))
    BY <1>1, <1>4, <1>7
<1>10. Before(x, y, order) /\ Before(y, z, order) => Before(x, z, order)
    BY <1>1, <1>4, <1>5, <1>6, <1>7 DEF InOrder
<1> QED
    BY <1>8, <1>9, <1>10

-----------------------------------------------------------------------------
(* The slices of a page *)

(* What is left over of a division is less than the divisor. *)
LEMMA Quotient ==
    ASSUME NEW m \in Nat, NEW d \in Nat \ {0}
    PROVE  m \div d \in Nat /\ d * (m \div d) <= m /\ m < d * (m \div d) + d
OBVIOUS

(* A number an int can hold is stored as it is. *)
LEMMA HeldByInt == ASSUME NEW m \in 0 .. MaxInt PROVE Wrapped(m) = m
<1>1. MaxInt \in Nat
    BY ListingAssumption
<1>2. m + MaxInt + 1 \in 0 .. 2 * (MaxInt + 1) - 1
    BY <1>1
<1>3. (m + MaxInt + 1) % (2 * (MaxInt + 1)) = m + MaxInt + 1
    BY <1>1, <1>2
<1> QED
    BY <1>1, <1>3 DEF Wrapped

(* The offset of a page that does not overflow. *)
LEMMA OffsetHeld ==
    ASSUME NEW p \in Nat, NEW d \in Nat \ {0}, p <= MaxInt \div d
    PROVE  p * d \in 0 .. MaxInt
<1> DEFINE top == MaxInt \div d
<1>1. MaxInt \in Nat
    BY ListingAssumption
<1>2. top \in Nat /\ d * top <= MaxInt
    BY <1>1, Quotient
<1> HIDE DEF top
<1>3. p * d <= top * d /\ p * d \in Nat
    BY <1>2 DEF top
<1> QED
    BY <1>1, <1>2, <1>3 DEF top

(***************************************************************************)
(* Whatever page is asked for, once it is accepted (normalizeDiskQuery and  *)
(* its like) or clamped (Service.Hosts, MySQLService.Instances), the slice  *)
(* that is taken of a list lies within it and within the page size, as long *)
(* as the list and a page together are counted by an int.                   *)
(***************************************************************************)
THEOREM PagesWithinLists ==
    ASSUME NEW q, q.page \in Nat \ {0}, q.size \in Nat \ {0},
           NEW total \in Nat, total + q.size <= MaxInt
    PROVE  /\ ~Overflows(q) => PageStart(q, total) \in 0 .. total
           /\ ClampedStart(q, total) \in 0 .. total
           /\ \A start \in 0 .. total :
                 /\ Lesser(Wrapped(start + q.size), total) \in start .. total
                 /\ Lesser(Wrapped(start + q.size), total) <= start + q.size
<1>1. MaxInt \in Nat
    BY ListingAssumption
<1>2. ASSUME q.page - 1 <= MaxInt \div q.size PROVE PageStart(q, total) \in 0 .. total
  <2>1. (q.page - 1) * q.size \in 0 .. MaxInt
    <3>1. q.page - 1 \in Nat
        OBVIOUS
    <3> QED
        BY <1>2, <3>1, OffsetHeld
  <2>2. Wrapped((q.page - 1) * q.size) = (q.page - 1) * q.size
      BY <2>1, HeldByInt
  <2> QED
      BY <2>1, <2>2 DEF PageStart, Lesser
<1>3. ~Overflows(q) => PageStart(q, total) \in 0 .. total
  <2>1. MaxInt \div q.size \in Int
      BY <1>1, Quotient
  <2> QED
      BY <1>2, <2>1 DEF Overflows
<1>4. ClampedStart(q, total) \in 0 .. total
  <2>1. total \div q.size <= MaxInt \div q.size
    <3>1. PICK s, t \in Nat : s = total \div q.size /\ t = MaxInt \div q.size
        BY <1>1, Quotient
    <3>2. q.size * s <= total /\ MaxInt < q.size * t + q.size
        BY <1>1, <3>1, Quotient
    <3>3. q.size * s < q.size * (t + 1)
        BY <1>1, <3>1, <3>2
    <3>4. s < t + 1
        BY <3>1, <3>3
    <3> QED
        BY <3>1, <3>4
  <2>2. total \div q.size \in Int /\ MaxInt \div q.size \in Int
      BY <1>1, Quotient
  <2>3. CASE q.page - 1 <= total \div q.size
      BY <1>2, <2>1, <2>2, <2>3 DEF ClampedStart
  <2>4. CASE ~(q.page - 1 <= total \div q.size)
      BY <2>4 DEF ClampedStart
  <2> QED
      BY <2>3, <2>4
<1>5. ASSUME NEW start \in 0 .. total
      PROVE  /\ Lesser(Wrapped(start + q.size), total) \in start .. total
             /\ Lesser(Wrapped(start + q.size), total) <= start + q.size
  <2>1. start + q.size \in 0 .. MaxInt
      BY <1>1
  <2>2. Wrapped(start + q.size) = start + q.size
      BY <2>1, HeldByInt
  <2> QED
      BY <2>1, <2>2 DEF Lesser
<1> QED
    BY <1>3, <1>4, <1>5

-----------------------------------------------------------------------------
(* One list, and its pages *)

(* What a list is sorted by: every row's key, and its id for equal ones. *)
Keys(n) == [present : BOOLEAN, keys : [1 .. n -> Int]]

(* The order by keys, as Listed has it, is one. *)
KeyOrder(keys, order) ==
    LET keyed(i) == [id |-> i, present |-> keys[i].present, keys |-> keys[i].keys]
    IN  [p \in (DOMAIN keys) \X (DOMAIN keys) |-> Before(keyed(p[1]), keyed(p[2]), order)]

LEMMA KeyOrderIs ==
    ASSUME NEW n \in {1, 2}, NEW T \in SUBSET Int, NEW keys \in [T -> Keys(n)], NEW order
    PROVE  IsOrder(T, KeyOrder(keys, order))
<1> DEFINE keyed(i) == [id |-> i, present |-> keys[i].present, keys |-> keys[i].keys]
           before == KeyOrder(keys, order)
<1>1. \A i \in T : keyed(i) \in Keyed(n) /\ keyed(i).id = i
    BY DEF Keyed, Keys
<1>2. \A x, y \in T : before[<<x, y>>] <=> Before(keyed(x), keyed(y), order)
    BY DEF KeyOrder
<1> HIDE DEF keyed, before
<1>3. ASSUME NEW x \in T, NEW y \in T, x /= y
      PROVE  Before(keyed(x), keyed(y), order) <=> ~Before(keyed(y), keyed(x), order)
    BY <1>1, <1>3, ListsTotallyOrdered
<1>4. ASSUME NEW x \in T, NEW y \in T, NEW z \in T,
             Before(keyed(x), keyed(y), order), Before(keyed(y), keyed(z), order)
      PROVE  Before(keyed(x), keyed(z), order)
    BY <1>1, <1>4, ListsTotallyOrdered
<1>5. IsOrder(T, before)
  <2> SUFFICES ASSUME NEW x \in T, NEW y \in T
               PROVE  /\ x /= y => (before[<<x, y>>] <=> ~before[<<y, x>>])
                      /\ \A z \in T : before[<<x, y>>] /\ before[<<y, z>>] => before[<<x, z>>]
      BY DEF IsOrder
  <2>1. x /= y => (before[<<x, y>>] <=> ~before[<<y, x>>])
      BY <1>2, <1>3, Zenon
  <2>2. ASSUME NEW z \in T, before[<<x, y>>], before[<<y, z>>] PROVE before[<<x, z>>]
      BY <1>2, <1>4, <2>2, Zenon
  <2> QED
      BY <2>1, <2>2
<1> QED
    BY <1>5 DEF before

(***************************************************************************)
(* The list of the rows that match is the same in whatever order the rows   *)
(* of the snapshot came (the stable sorts of the services, with ties        *)
(* broken by the id).                                                       *)
(***************************************************************************)
THEOREM OneList ==
    ASSUME NEW T, NEW before, IsOrder(T, before), NEW matching,
           NEW a \in Once(T), NEW b \in Once(T), Range(a) = Range(b)
    PROVE  Sorted(Selected(a, matching), before) = Sorted(Selected(b, matching), before)
<1> DEFINE left == Sorted(Selected(a, matching), before)
           right == Sorted(Selected(b, matching), before)
<1>1. /\ left \in Once(T) /\ Ordered(left, before)
      /\ Range(left) = Range(a) \cap matching
    BY SelectedIs, SortedIs, SortedOrdered
<1>2. /\ right \in Once(T) /\ Ordered(right, before)
      /\ Range(right) = Range(b) \cap matching
    BY SelectedIs, SortedIs, SortedOrdered
<1> HIDE DEF left, right
<1>3. left = right
    BY <1>1, <1>2, OneOrder
<1> QED
    BY <1>3 DEF left, right

-----------------------------------------------------------------------------
(* The slice of a page, as far as an int counts. *)
Offset(q, total) == Lesser((q.page - 1) * q.size, total)

(* Where a page begins is where the rows of the pages before it end. *)
LEMMA StartIs ==
    ASSUME NEW q, q.page \in Nat \ {0}, q.size \in 1 .. MaxInt, NEW total \in 0 .. MaxInt
    PROVE  /\ Offset(q, total) \in 0 .. total
           /\ (q.page - 1) * q.size <= MaxInt => PageStart(q, total) = Offset(q, total)
           /\ ClampedStart(q, total) = Offset(q, total)
<1>1. MaxInt \in Nat /\ q.page - 1 \in Nat /\ q.size \in Nat \ {0}
    BY ListingAssumption
<1>2. PICK m : m = (q.page - 1) * q.size
    OBVIOUS
<1>3. m \in Nat
    BY <1>1, <1>2
<1>4. m <= MaxInt => PageStart(q, total) = Offset(q, total)
    BY <1>1, <1>2, <1>3, HeldByInt DEF PageStart, Offset
<1>5. PICK d \in Nat : d = total \div q.size /\ q.size * d <= total /\ total < q.size * d + q.size
  <2>1. total \in Nat
      BY <1>1
  <2>2. /\ total \div q.size \in Nat /\ q.size * (total \div q.size) <= total
        /\ total < q.size * (total \div q.size) + q.size
      BY <1>1, <2>1, Quotient
  <2> QED
      BY <2>2
<1>6. CASE q.page - 1 <= d
  <2>1. m <= d * q.size
      BY <1>1, <1>2, <1>5, <1>6
  <2>2. m <= MaxInt
      BY <1>1, <1>3, <1>5, <2>1
  <2> QED
      BY <1>2, <1>3, <1>4, <1>5, <1>6, <2>2 DEF ClampedStart, Offset, Lesser
<1>7. CASE ~(q.page - 1 <= d)
  <2>1. q.page - 1 >= d + 1
      BY <1>1, <1>5, <1>7
  <2>2. m >= (d + 1) * q.size
      BY <1>1, <1>2, <1>5, <2>1
  <2>3. m > total
      BY <1>1, <1>3, <1>5, <2>2
  <2>4. ClampedStart(q, total) = total
      BY <1>5, <1>7 DEF ClampedStart
  <2> QED
      BY <1>2, <1>3, <1>4, <2>3, <2>4 DEF Offset, Lesser
<1> QED
    BY <1>6, <1>7

(* A page that is within the bounds of an int. *)
LEMMA PagedIs ==
    ASSUME NEW list, Len(list) \in Nat, NEW start \in 0 .. Len(list), NEW size \in Nat \ {0},
           start + size <= MaxInt
    PROVE  /\ Paged(list, start, size).total = Len(list)
           /\ Paged(list, start, size).ids = SubSeq(list, start + 1, Lesser(start + size, Len(list)))
           /\ \A n \in Nat \ {0} : n < Paged(list, start, size).pages <=> n * size < Len(list)
<1>1. MaxInt \in Nat /\ Wrapped(start + size) = start + size
    BY ListingAssumption, HeldByInt
<1>2. start \in 0 .. Lesser(start + size, Len(list))
    BY DEF Lesser
<1>3. /\ Paged(list, start, size).total = Len(list)
      /\ Paged(list, start, size).ids = SubSeq(list, start + 1, Lesser(start + size, Len(list)))
      /\ Paged(list, start, size).pages = IF Len(list) = 0 THEN 0 ELSE (Len(list) + size - 1) \div size
    BY <1>1, <1>2 DEF Paged
<1>4. ASSUME NEW n \in Nat \ {0}
      PROVE  n < Paged(list, start, size).pages <=> n * size < Len(list)
  <2>1. CASE Len(list) = 0
    <3>1. n * size > 0
        OBVIOUS
    <3> QED
        BY <1>3, <2>1, <3>1
  <2>2. CASE Len(list) /= 0
    <3> DEFINE m == Len(list) + size - 1
    <3>1. m \in Nat
        OBVIOUS
    <3>2. PICK d \in Nat : d = m \div size /\ size * d <= m /\ m < size * d + size
        BY <3>1, Quotient
    <3>3. n < d => n * size < Len(list)
      <4>1. n < d => size * (n + 1) <= size * d
          BY <3>2
      <4> QED
          BY <3>2, <4>1
    <3>4. ~(n < d) => ~(n * size < Len(list))
      <4>1. ~(n < d) => size * n >= size * d
          BY <3>2
      <4> QED
          BY <3>2, <4>1
    <3> QED
        BY <1>3, <2>2, <3>2, <3>3, <3>4
  <2> QED
      BY <2>1, <2>2
<1> QED
    BY <1>3, <1>4

(* Pages that follow each other. *)
LEMMA SlicesJoin ==
    ASSUME NEW T, NEW list \in Seq(T), NEW a \in 0 .. Len(list), NEW b \in a .. Len(list)
    PROVE  SubSeq(list, 1, a) \o SubSeq(list, a + 1, b) = SubSeq(list, 1, b)
<1> DEFINE left == SubSeq(list, 1, a)
           right == SubSeq(list, a + 1, b)
           both == SubSeq(list, 1, b)
           joined == left \o right
<1>1. Len(list) \in Nat /\ \A i \in 1 .. Len(list) : list[i] \in T
    OBVIOUS
<1>2. left \in Seq(T) /\ Len(left) = a /\ \A i \in 1 .. a : left[i] = list[i]
    BY <1>1, SubSeqProperties
<1>3. right \in Seq(T) /\ Len(right) = b - a /\ \A i \in 1 .. b - a : right[i] = list[a + i]
    BY <1>1, SubSeqProperties
<1>4. both \in Seq(T) /\ Len(both) = b /\ \A i \in 1 .. b : both[i] = list[i]
    BY <1>1, SubSeqProperties
<1> HIDE DEF left, right, both
<1>5. /\ joined \in Seq(T) /\ Len(joined) = Len(left) + Len(right)
      /\ \A i \in 1 .. Len(left) + Len(right) :
            joined[i] = IF i <= Len(left) THEN left[i] ELSE right[i - Len(left)]
    BY <1>2, <1>3, ConcatProperties
<1> HIDE DEF joined
<1>6. ASSUME NEW i \in 1 .. b PROVE joined[i] = both[i]
  <2>1. joined[i] = IF i <= a THEN left[i] ELSE right[i - a]
      BY <1>1, <1>2, <1>3, <1>5
  <2>2. i > a => i - a \in 1 .. b - a /\ a + (i - a) = i
      BY <1>1
  <2> QED
      BY <1>1, <1>2, <1>3, <1>4, <2>1, <2>2
<1>7. joined = both
  <2>1. Len(joined) = b
      BY <1>1, <1>2, <1>3, <1>5
  <2> QED
      BY <1>4, <1>5, <1>6, <2>1, SeqEqual
<1> QED
    BY <1>7 DEF joined, left, right, both

(* The slice of all of a list, and the slice of nothing. *)
LEMMA WholeSlice ==
    ASSUME NEW T, NEW list \in Seq(T)
    PROVE  SubSeq(list, 1, Len(list)) = list /\ SubSeq(list, 1, 0) = <<>>
<1> DEFINE whole == SubSeq(list, 1, Len(list))
<1>1. Len(list) \in Nat /\ \A i \in 1 .. Len(list) : list[i] \in T
    OBVIOUS
<1>2. whole \in Seq(T) /\ Len(whole) = Len(list) /\ \A i \in 1 .. Len(list) : whole[i] = list[i]
    BY <1>1, SubSeqProperties
<1> HIDE DEF whole
<1>3. whole = list
    BY <1>2, SeqEqual
<1>4. SubSeq(list, 1, 0) = <<>>
    BY SubSeqEmpty
<1> QED
    BY <1>3, <1>4 DEF whole
=============================================================================
