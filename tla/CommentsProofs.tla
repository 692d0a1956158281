--------------------------- MODULE CommentsProofs ---------------------------
(***************************************************************************)
(* Proofs about the comments of a post: the rows are the array until a     *)
(* deletion completes, no comment is listed twice, the ones that exist are *)
(* newest first, and an idle main thread has all of them on the screen.    *)
(*                                                                         *)
(* The lists are put together from sets (NewestFirst) and thinned out      *)
(* (Kept), so the first part is about Nth, the n-th smallest member of a   *)
(* finite set of numbers.  The invariant of the queue is that of an event  *)
(* log: later snapshots know what is still alive of the earlier ones, and  *)
(* the last one is the present.                                            *)
(***************************************************************************)
EXTENDS Comments, FiniteSetTheorems, SequenceTheorems, TLAPS

-----------------------------------------------------------------------------
(* What Nth, NewestFirst and Kept give.                                     *)

Smaller(S, m) == {i \in S : i < m}

LEMMA SmallerFinite ==
  ASSUME NEW S \in SUBSET Int, IsFiniteSet(S), NEW m \in S
  PROVE  /\ IsFiniteSet(Smaller(S, m))
         /\ Cardinality(Smaller(S, m)) \in 0..Cardinality(S) - 1
<1>1. Cardinality(S) \in Nat
  BY FS_CardinalityType
<1>2. IsFiniteSet(S \ {m}) /\ Cardinality(S \ {m}) = Cardinality(S) - 1
  BY FS_RemoveElement
<1>3. Smaller(S, m) \in SUBSET (S \ {m})
  BY DEF Smaller
<1>4. IsFiniteSet(Smaller(S, m)) /\ Cardinality(Smaller(S, m)) <= Cardinality(S) - 1
  BY <1>2, <1>3, FS_Subset
<1> QED
  BY <1>1, <1>4, FS_CardinalityType

LEMMA SmallerGrows ==
  ASSUME NEW S \in SUBSET Int, IsFiniteSet(S), NEW m \in S, NEW n \in S, m < n
  PROVE  Cardinality(Smaller(S, m)) < Cardinality(Smaller(S, n))
<1>1. IsFiniteSet(Smaller(S, n)) /\ IsFiniteSet(Smaller(S, m))
  BY SmallerFinite
<1>6. m \in Int /\ n \in Int /\ \A i \in S : i \in Int
  OBVIOUS
<1>7. ASSUME NEW i \in Smaller(S, m)
      PROVE  i \in Smaller(S, n)
  <2>1. i \in S /\ i < m
    BY DEF Smaller
  <2>2. i \in Int
    BY <1>6, <2>1
  <2>3. i < n
    BY <1>6, <2>1, <2>2
  <2> QED
    BY <2>1, <2>3 DEF Smaller
<1>2. Smaller(S, m) \in SUBSET Smaller(S, n)
  BY <1>7
<1>3. m \in Smaller(S, n) /\ m \notin Smaller(S, m)
  BY <1>6 DEF Smaller
<1>4. Cardinality(Smaller(S, m)) <= Cardinality(Smaller(S, n))
      /\ Cardinality(Smaller(S, m)) # Cardinality(Smaller(S, n))
  BY <1>1, <1>2, <1>3, FS_Subset
<1>5. Cardinality(Smaller(S, m)) \in Nat /\ Cardinality(Smaller(S, n)) \in Nat
  BY <1>1, FS_CardinalityType
<1> QED
  BY <1>4, <1>5

\* The n-th member is one of the set, with n - 1 smaller ones.
LEMMA NthMember ==
  ASSUME NEW S \in SUBSET Int, IsFiniteSet(S), NEW n \in 1..Cardinality(S)
  PROVE  Nth(S, n) \in S /\ Cardinality(Smaller(S, Nth(S, n))) = n - 1
<1> DEFINE size == Cardinality(S)
           rank == [m \in S |-> Cardinality(Smaller(S, m))]
<1>1. size \in Nat
  BY FS_CardinalityType
<1>2. rank \in [S -> 0..size - 1]
  BY SmallerFinite
<1>3. \A a, b \in S : rank[a] = rank[b] => a = b
  <2> SUFFICES ASSUME NEW a \in S, NEW b \in S, rank[a] = rank[b]
               PROVE  a = b
    OBVIOUS
  <2>1. rank[a] \in Int /\ rank[b] \in Int
    BY <1>1, <1>2
  <2>2. ~(a < b) /\ ~(b < a)
    BY <2>1, SmallerGrows
  <2> QED
    BY <2>2
<1>4. rank \in Injection(S, 0..size - 1)
  BY <1>2, <1>3 DEF Injection, IsInjective
<1>5. IsFiniteSet(0..size - 1) /\ Cardinality(0..size - 1) = size
  <2> HIDE DEF size
  <2> QED
    BY <1>1, FS_Interval
<1>6. rank \in Surjection(S, 0..size - 1)
  BY <1>4, <1>5, FS_Injection
<1>7. n - 1 \in 0..size - 1
  BY <1>1
<1>8. PICK m \in S : rank[m] = n - 1
  BY <1>6, <1>7 DEF Surjection
<1>9. m \in S /\ Cardinality({i \in S : i < m}) = n - 1
  BY <1>8 DEF Smaller
<1> QED
  BY <1>9 DEF Nth, Smaller

\* It is the only such one.
LEMMA NthIs ==
  ASSUME NEW S \in SUBSET Int, IsFiniteSet(S), NEW m \in S,
         NEW n \in 1..Cardinality(S), Cardinality(Smaller(S, m)) = n - 1
  PROVE  Nth(S, n) = m
<1>1. Nth(S, n) \in S /\ Cardinality(Smaller(S, Nth(S, n))) = n - 1
  BY NthMember
<1> DEFINE k == Nth(S, n)
<1> HIDE DEF k
<1>2. k \in S /\ Cardinality(Smaller(S, k)) = Cardinality(Smaller(S, m))
      /\ Cardinality(Smaller(S, m)) \in Nat
  BY <1>1, SmallerFinite, FS_CardinalityType DEF k
<1>3. ~(m < k) /\ ~(k < m)
  BY <1>2, SmallerGrows
<1>4. m \in Int /\ k \in Int
  BY <1>2
<1>5. k = m
  BY <1>3, <1>4
<1> QED
  BY <1>5 DEF k

LEMMA NthOrder ==
  ASSUME NEW S \in SUBSET Int, IsFiniteSet(S),
         NEW i \in 1..Cardinality(S), NEW j \in 1..Cardinality(S), i < j
  PROVE  Nth(S, i) < Nth(S, j)
<1>1. /\ Nth(S, i) \in S /\ Cardinality(Smaller(S, Nth(S, i))) = i - 1
      /\ Nth(S, j) \in S /\ Cardinality(Smaller(S, Nth(S, j))) = j - 1
  BY NthMember
<1> DEFINE a == Nth(S, i)
           b == Nth(S, j)
<1> HIDE DEF a, b
<1>2. /\ a \in S /\ b \in S /\ Cardinality(S) \in Nat
      /\ Cardinality(Smaller(S, a)) = i - 1 /\ Cardinality(Smaller(S, b)) = j - 1
  BY <1>1, FS_CardinalityType DEF a, b
<1>3. a # b /\ ~(b < a)
  BY <1>2, SmallerGrows
<1>4. a \in Int /\ b \in Int
  BY <1>2
<1>5. a < b
  BY <1>3, <1>4
<1> QED
  BY <1>5 DEF a, b

\* Every member is some n-th one.
LEMMA NthAll ==
  ASSUME NEW S \in SUBSET Int, IsFiniteSet(S), NEW m \in S
  PROVE  \E n \in 1..Cardinality(S) : Nth(S, n) = m
<1> DEFINE n == Cardinality(Smaller(S, m)) + 1
<1>1. Cardinality(S) \in Nat
  BY FS_CardinalityType
<1>2. n \in 1..Cardinality(S) /\ Cardinality(Smaller(S, m)) = n - 1
  BY <1>1, SmallerFinite
<1> HIDE DEF n
<1>3. Nth(S, n) = m
  BY <1>2, NthIs
<1> QED
  BY <1>2, <1>3

\* All the comments of a set, each once, the newest first.
LEMMA NewestFirstLists ==
  ASSUME NEW S \in SUBSET Int, IsFiniteSet(S)
  PROVE  /\ NewestFirst(S) \in Seq(S)
         /\ Len(NewestFirst(S)) = Cardinality(S)
         /\ ToSet(NewestFirst(S)) = S
         /\ \A i, j \in DOMAIN NewestFirst(S) :
              i < j => NewestFirst(S)[i] > NewestFirst(S)[j]
<1> DEFINE size == Cardinality(S)
           s == NewestFirst(S)
<1>1. size \in Nat
  BY FS_CardinalityType
<1>2. \A i \in 1..size : size - i + 1 \in 1..size
  BY <1>1
<1>3. s \in [1..size -> S] /\ \A i \in 1..size : s[i] = Nth(S, size - i + 1)
  BY <1>2, NthMember DEF NewestFirst
<1> HIDE DEF s
<1>4. s \in Seq(S) /\ Len(s) = size
  <2>1. s \in Seq(S)
    BY <1>1, <1>3, SeqDef
  <2>2. DOMAIN s = 1..size /\ DOMAIN s = 1..Len(s) /\ Len(s) \in Nat
    BY <1>3, <2>1, LenProperties
  <2> QED
    BY <1>1, <2>1, <2>2
<1>5. ASSUME NEW m \in S
      PROVE  \E i \in DOMAIN s : s[i] = m
  <2>1. PICK n \in 1..size : Nth(S, n) = m
    BY NthAll
  <2>2. size - n + 1 \in 1..size /\ size - (size - n + 1) + 1 = n
    BY <1>1
  <2> QED
    BY <1>3, <2>1, <2>2
<1>6. ToSet(s) = S
  BY <1>3, <1>5 DEF ToSet
<1>7. ASSUME NEW i \in DOMAIN s, NEW j \in DOMAIN s, i < j
      PROVE  s[i] > s[j]
  <2>1. i \in 1..size /\ j \in 1..size
    BY <1>3
  <2>2. size - j + 1 < size - i + 1
    BY <1>1, <1>7, <2>1
  <2>3. Nth(S, size - j + 1) < Nth(S, size - i + 1)
    BY <1>2, <2>1, <2>2, NthOrder
  <2>4. s[i] \in Int /\ s[j] \in Int
    BY <1>3, <2>1
  <2> QED
    BY <1>3, <2>1, <2>3, <2>4
<1> QED
  BY <1>4, <1>6, <1>7 DEF s

\* Kept leaves a list in its order: every entry comes from a place of the list
\* that is not left out, and the places follow each other.
LEMMA KeptLists ==
  ASSUME NEW S, NEW s \in Seq(S), NEW T
  PROVE  /\ Kept(s, T) \in Seq(S)
         /\ ToSet(Kept(s, T)) = ToSet(s) \ T
         /\ \A i, j \in DOMAIN Kept(s, T) : i < j =>
              \E a, b \in DOMAIN s : a < b /\ s[a] = Kept(s, T)[i] /\ s[b] = Kept(s, T)[j]
<1> DEFINE places == {i \in DOMAIN s : s[i] \notin T}
           size == Cardinality(places)
           t == Kept(s, T)
<1>1. DOMAIN s = 1..Len(s) /\ Len(s) \in Nat /\ \A i \in DOMAIN s : s[i] \in S
  BY LenProperties, ElementOfSeq
<1>2. places \in SUBSET Int /\ IsFiniteSet(places)
  <2>1. IsFiniteSet(1..Len(s))
    BY <1>1, FS_Interval
  <2> QED
    BY <1>1, <2>1, FS_Subset
<1>3. size \in Nat
  BY <1>2, FS_CardinalityType
<1>4. t = [i \in 1..size |-> s[Nth(places, i)]]
  BY DEF Kept
<1>5. \A n \in places : n \in DOMAIN s /\ s[n] \notin T
  OBVIOUS
<1>10. \A n \in DOMAIN s : s[n] \notin T => n \in places
  OBVIOUS
<1> HIDE DEF places, t, size
<1>6. \A i \in 1..size : Nth(places, i) \in places
  BY <1>2, NthMember DEF size
<1>7. t \in Seq(S) /\ DOMAIN t = 1..size
  <2>1. t \in [1..size -> S]
    BY <1>1, <1>4, <1>5, <1>6
  <2> QED
    BY <1>3, <2>1, SeqDef
<1>8. ToSet(t) = ToSet(s) \ T
  <2>1. ASSUME NEW x \in ToSet(t)
        PROVE  x \in ToSet(s) \ T
    <3>1. PICK i \in 1..size : x = s[Nth(places, i)]
      BY <1>4, <1>7 DEF ToSet
    <3> QED
      BY <1>5, <1>6, <3>1 DEF ToSet
  <2>2. ASSUME NEW x \in ToSet(s) \ T
        PROVE  x \in ToSet(t)
    <3>1. PICK n \in DOMAIN s : s[n] = x
      BY DEF ToSet
    <3>2. n \in places
      BY <1>10, <3>1
    <3>3. PICK i \in 1..size : Nth(places, i) = n
      BY <1>2, <3>2, NthAll DEF size
    <3>4. t[i] = x
      BY <1>4, <3>1, <3>3
    <3> QED
      BY <1>7, <3>4 DEF ToSet
  <2> QED
    BY <2>1, <2>2
<1>9. ASSUME NEW i \in DOMAIN t, NEW j \in DOMAIN t, i < j
      PROVE  \E a, b \in DOMAIN s : a < b /\ s[a] = t[i] /\ s[b] = t[j]
  <2>1. i \in 1..size /\ j \in 1..size
    BY <1>7
  <2>2. Nth(places, i) < Nth(places, j)
    BY <1>2, <1>9, <2>1, NthOrder DEF size
  <2>3. t[i] = s[Nth(places, i)] /\ t[j] = s[Nth(places, j)]
    BY <1>4, <2>1
  <2>4. Nth(places, i) \in DOMAIN s /\ Nth(places, j) \in DOMAIN s
    BY <1>5, <1>6, <2>1
  <2> QED
    BY <2>2, <2>3, <2>4
<1> QED
  BY <1>7, <1>8, <1>9 DEF t

\* No comment twice.
Distinct(s) == \A i, j \in DOMAIN s : i # j => s[i] # s[j]

\* Taking a comment off a list that has it once is taking out its place.
LEMMA WithoutOne ==
  ASSUME NEW S, NEW s \in Seq(S), Distinct(s), NEW i \in DOMAIN s
  PROVE  Without(s, s[i]) = RemoveAt(s, i)
<1> DEFINE places == {j \in DOMAIN s : s[j] \notin {s[i]}}
           n == Len(s)
           at(j) == IF j < i THEN j ELSE j + 1
<1>1. DOMAIN s = 1..n /\ n \in Nat /\ i \in 1..n /\ \A j \in DOMAIN s : s[j] \in S
  BY LenProperties, ElementOfSeq
<1>2. places = (1..n) \ {i}
  BY <1>1 DEF Distinct
<1>3. IsFiniteSet(places) /\ Cardinality(places) = n - 1 /\ places \in SUBSET Int
  <2>1. IsFiniteSet(1..n) /\ Cardinality(1..n) = n
    <3> HIDE DEF n
    <3> QED
      BY <1>1, FS_Interval
  <2>2. IsFiniteSet((1..n) \ {i}) /\ Cardinality((1..n) \ {i}) = n - 1
    <3> DEFINE D == 1..n
    <3>1. i \in D /\ IsFiniteSet(D) /\ Cardinality(D) = n
      BY <1>1, <2>1
    <3> HIDE DEF D
    <3>2. IsFiniteSet(D \ {i}) /\ Cardinality(D \ {i}) = n - 1
      BY <3>1, FS_RemoveElement
    <3> QED
      BY <3>2 DEF D
  <2>3. (1..n) \ {i} \in SUBSET Int
    OBVIOUS
  <2> QED
    BY <1>2, <2>2, <2>3
<1>4. Without(s, s[i]) = [j \in 1..n - 1 |-> s[Nth(places, j)]]
  BY <1>3 DEF Without, Kept
<1> HIDE DEF places
<1>5. ASSUME NEW j \in 1..n - 1
      PROVE  Nth(places, j) = at(j)
  <2>1. at(j) \in places
    BY <1>1, <1>2
  <2>2. CASE j < i
    <3>1. Smaller(places, at(j)) = 1..j - 1
      BY <1>1, <1>2, <2>2 DEF Smaller
    <3>2. Cardinality(1..j - 1) = j - 1
      BY <1>1, FS_Interval
    <3> QED
      BY <1>3, <2>1, <3>1, <3>2, NthIs
  <2>3. CASE ~(j < i)
    <3>1. Smaller(places, at(j)) = (1..j) \ {i}
      BY <1>1, <1>2, <2>3 DEF Smaller
    <3>2. IsFiniteSet(1..j) /\ Cardinality(1..j) = j
      BY <1>1, FS_Interval
    <3>4. i \in 1..j
      BY <1>1, <2>3
    <3>3. Cardinality((1..j) \ {i}) = j - 1
      BY <3>2, <3>4, FS_RemoveElement
    <3> QED
      BY <1>3, <2>1, <3>1, <3>3, NthIs
  <2> QED
    BY <2>2, <2>3
<1>6. Without(s, s[i]) = [j \in 1..n - 1 |-> s[at(j)]]
  BY <1>4, <1>5
<1>7. /\ SubSeq(s, 1, i - 1) \in Seq(S) /\ SubSeq(s, i + 1, n) \in Seq(S)
      /\ Len(SubSeq(s, 1, i - 1)) = i - 1 /\ Len(SubSeq(s, i + 1, n)) = n - i
      /\ \A j \in 1..i - 1 : SubSeq(s, 1, i - 1)[j] = s[j]
      /\ \A j \in 1..n - i : SubSeq(s, i + 1, n)[j] = s[j + i]
  <2>1. \A j \in 1..i - 1 : s[j] \in S
    BY <1>1
  <2>2. \A j \in i + 1..n : s[j] \in S
    BY <1>1
  <2> QED
    BY <1>1, <2>1, <2>2, SubSeqProperties
<1>8. /\ RemoveAt(s, i) \in Seq(S) /\ Len(RemoveAt(s, i)) = n - 1
      /\ \A j \in 1..n - 1 : RemoveAt(s, i)[j] =
           IF j <= i - 1 THEN SubSeq(s, 1, i - 1)[j] ELSE SubSeq(s, i + 1, n)[j - (i - 1)]
  <2> DEFINE front == SubSeq(s, 1, i - 1)
             back == SubSeq(s, i + 1, n)
  <2>1. RemoveAt(s, i) = front \o back
    BY DEF RemoveAt
  <2> HIDE DEF front, back
  <2>2. front \in Seq(S) /\ back \in Seq(S) /\ Len(front) = i - 1 /\ Len(back) = n - i
    BY <1>7 DEF front, back
  <2>3. /\ front \o back \in Seq(S) /\ Len(front \o back) = Len(front) + Len(back)
        /\ \A j \in 1..Len(front) + Len(back) : (front \o back)[j] =
             IF j <= Len(front) THEN front[j] ELSE back[j - Len(front)]
    BY <2>2, ConcatProperties
  <2>4. Len(front) + Len(back) = n - 1
    BY <1>1, <2>2
  <2>5. /\ RemoveAt(s, i) \in Seq(S) /\ Len(RemoveAt(s, i)) = n - 1
        /\ \A j \in 1..n - 1 : RemoveAt(s, i)[j] =
             IF j <= i - 1 THEN front[j] ELSE back[j - (i - 1)]
    BY <2>1, <2>2, <2>3, <2>4
  <2> QED
    BY <2>5 DEF front, back
<1>9. ASSUME NEW j \in 1..n - 1
      PROVE  RemoveAt(s, i)[j] = s[at(j)]
  <2>1. CASE j < i
    <3>1. j \in 1..i - 1 /\ j <= i - 1
      BY <1>1, <2>1
    <3> QED
      BY <1>7, <1>8, <2>1, <3>1
  <2>2. CASE ~(j < i)
    <3>1. j - (i - 1) \in 1..n - i /\ ~(j <= i - 1) /\ (j - (i - 1)) + i = j + 1
      BY <1>1, <2>2
    <3> QED
      BY <1>7, <1>8, <2>2, <3>1
  <2> QED
    BY <2>1, <2>2
<1>10. RemoveAt(s, i) = [j \in 1..n - 1 |-> RemoveAt(s, i)[j]]
  BY <1>1, <1>8, LenProperties
<1> QED
  BY <1>6, <1>9, <1>10

-----------------------------------------------------------------------------
(* Lists of comments.                                                       *)

\* The comments of L are in the list with the newer ones first.
NewerFirst(s, L) ==
  \A i, j \in DOMAIN s : i < j /\ {s[i], s[j]} \subseteq L => s[i] > s[j]

LEMMA NaturalSet ==
  ASSUME NEW n \in Nat, NEW S \in SUBSET (1..n)
  PROVE  S \in SUBSET Int /\ IsFiniteSet(S)
<1>1. IsFiniteSet(1..n)
  BY FS_Interval
<1>2. IsFiniteSet(S)
  BY <1>1, FS_Subset
<1>3. \A i \in S : i \in Int
  OBVIOUS
<1> QED
  BY <1>2, <1>3

LEMMA ListedType ==
  ASSUME NEW S, NEW s \in Seq(S)
  PROVE  ToSet(s) \in SUBSET S /\ DOMAIN s = 1..Len(s) /\ Len(s) \in Nat
         /\ \A i \in DOMAIN s : s[i] \in S
BY LenProperties, ElementOfSeq DEF ToSet

LEMMA KeptOrder ==
  ASSUME NEW S, NEW s \in Seq(S), NEW T
  PROVE  /\ Distinct(s) => Distinct(Kept(s, T))
         /\ \A L : NewerFirst(s, L) => NewerFirst(Kept(s, T), L)
<1> DEFINE t == Kept(s, T)
<1>1. \A i, j \in DOMAIN t : i < j => \E a, b \in DOMAIN s : a < b /\ s[a] = t[i] /\ s[b] = t[j]
  BY KeptLists
<1>2. t \in Seq(S)
  BY KeptLists
<1> HIDE DEF t
<1>3. DOMAIN t = 1..Len(t) /\ Len(t) \in Nat /\ DOMAIN s = 1..Len(s) /\ Len(s) \in Nat
  BY <1>2, LenProperties
<1>4. ASSUME Distinct(s), NEW i \in DOMAIN t, NEW j \in DOMAIN t, i # j
      PROVE  t[i] # t[j]
  <2>1. i < j \/ j < i
    BY <1>3, <1>4
  <2>2. ASSUME NEW x \in DOMAIN t, NEW y \in DOMAIN t, x < y
        PROVE  t[x] # t[y]
    <3>1. PICK a \in DOMAIN s, b \in DOMAIN s : a < b /\ s[a] = t[x] /\ s[b] = t[y]
      BY <1>1, <2>2
    <3>2. a # b
      BY <1>3, <3>1
    <3> QED
      BY <1>4, <3>1, <3>2 DEF Distinct
  <2> QED
    BY <2>1, <2>2
<1>5. ASSUME NEW L, NewerFirst(s, L), NEW i \in DOMAIN t, NEW j \in DOMAIN t, i < j,
             {t[i], t[j]} \subseteq L
      PROVE  t[i] > t[j]
  <2>1. PICK a \in DOMAIN s, b \in DOMAIN s : a < b /\ s[a] = t[i] /\ s[b] = t[j]
    BY <1>1, <1>5
  <2> QED
    BY <1>5, <2>1 DEF NewerFirst
<1> QED
  BY <1>4, <1>5 DEF Distinct, NewerFirst, t

\* A list filled from a snapshot S: what is not in S stays in front, and S
\* follows, the newest first.
LEMMA JoinedLists ==
  ASSUME NEW n \in Nat, NEW old \in Seq(1..n), NEW S \in SUBSET (1..n)
  PROVE  LET t == Kept(old, S) \o NewestFirst(S) IN
         /\ t \in Seq(1..n)
         /\ ToSet(t) = (ToSet(old) \ S) \cup S
         /\ Distinct(old) => Distinct(t)
         /\ \A i, j \in DOMAIN t : i < j /\ t[i] \in S => t[i] > t[j]
<1> DEFINE k == Kept(old, S)
           f == NewestFirst(S)
           t == k \o f
<1>1. S \in SUBSET Int /\ IsFiniteSet(S)
  BY NaturalSet
<1>2. k \in Seq(1..n) /\ ToSet(k) = ToSet(old) \ S /\ (Distinct(old) => Distinct(k))
  BY KeptLists, KeptOrder
<1>3. f \in Seq(S) /\ ToSet(f) = S /\ \A i, j \in DOMAIN f : i < j => f[i] > f[j]
  BY <1>1, NewestFirstLists
<1>4. f \in Seq(1..n)
  BY <1>3, SeqMonotonic
<1> HIDE DEF k, f
<1>5. /\ t \in Seq(1..n) /\ Len(t) = Len(k) + Len(f)
      /\ \A i \in 1..Len(k) + Len(f) : t[i] = IF i <= Len(k) THEN k[i] ELSE f[i - Len(k)]
  BY <1>2, <1>4, ConcatProperties
<1>6. /\ DOMAIN k = 1..Len(k) /\ Len(k) \in Nat /\ DOMAIN f = 1..Len(f) /\ Len(f) \in Nat
      /\ DOMAIN t = 1..Len(k) + Len(f)
  BY <1>2, <1>4, <1>5, LenProperties
<1> HIDE DEF t
<1>7. ASSUME NEW i \in DOMAIN t
      PROVE  \/ i \in DOMAIN k /\ t[i] = k[i] /\ t[i] \in ToSet(old) \ S
             \/ i > Len(k) /\ i - Len(k) \in DOMAIN f /\ t[i] = f[i - Len(k)] /\ t[i] \in S
  <2>1. CASE i <= Len(k)
    <3>1. i \in DOMAIN k /\ t[i] = k[i]
      BY <1>5, <1>6, <2>1
    <3> QED
      BY <1>2, <3>1 DEF ToSet
  <2>2. CASE ~(i <= Len(k))
    <3>1. i > Len(k) /\ i - Len(k) \in DOMAIN f /\ t[i] = f[i - Len(k)]
      BY <1>5, <1>6, <2>2
    <3> QED
      BY <1>3, <3>1 DEF ToSet
  <2> QED
    BY <2>1, <2>2
<1>8. ToSet(t) = (ToSet(old) \ S) \cup S
  <2>1. ASSUME NEW x \in ToSet(old) \ S
        PROVE  x \in ToSet(t)
    <3>1. PICK i \in DOMAIN k : k[i] = x
      BY <1>2 DEF ToSet
    <3>2. i \in DOMAIN t /\ t[i] = x
      BY <1>5, <1>6, <3>1
    <3> QED
      BY <3>2 DEF ToSet
  <2>2. ASSUME NEW x \in S
        PROVE  x \in ToSet(t)
    <3>1. PICK i \in DOMAIN f : f[i] = x
      BY <1>3 DEF ToSet
    <3>2. i + Len(k) \in DOMAIN t /\ t[i + Len(k)] = f[(i + Len(k)) - Len(k)]
          /\ (i + Len(k)) - Len(k) = i
      BY <1>5, <1>6
    <3> QED
      BY <3>1, <3>2 DEF ToSet
  <2> QED
    BY <1>7, <2>1, <2>2 DEF ToSet
<1>9. ASSUME NEW i \in DOMAIN t, NEW j \in DOMAIN t, i < j, t[i] \in S
      PROVE  t[i] > t[j]
  <2>1. i > Len(k) /\ i - Len(k) \in DOMAIN f /\ t[i] = f[i - Len(k)]
    BY <1>7, <1>9
  <2>2. j > Len(k)
    BY <1>6, <1>9, <2>1
  <2>3. j - Len(k) \in DOMAIN f /\ t[j] = f[j - Len(k)]
    BY <1>6, <1>7, <2>2
  <2>4. i - Len(k) < j - Len(k)
    BY <1>6, <1>9
  <2> QED
    BY <1>3, <2>1, <2>3, <2>4
<1>10. ASSUME Distinct(old), NEW i \in DOMAIN t, NEW j \in DOMAIN t, i # j
       PROVE  t[i] # t[j]
  <2>1. \A x \in S, y \in S : x > y => x # y
    BY <1>1
  <2>2. i < j \/ j < i
    BY <1>6, <1>10
  <2>3. ASSUME NEW x \in DOMAIN t, NEW y \in DOMAIN t, x < y
        PROVE  t[x] # t[y]
    <3>1. CASE t[x] \in S /\ t[y] \in S
      BY <1>9, <2>1, <2>3, <3>1
    <3>2. CASE t[x] \notin S /\ t[y] \notin S
      <4>1. x \in DOMAIN k /\ t[x] = k[x] /\ y \in DOMAIN k /\ t[y] = k[y]
        BY <1>7, <3>2
      <4>2. x # y
        BY <1>6, <2>3
      <4> QED
        BY <1>2, <1>10, <4>1, <4>2 DEF Distinct
    <3> QED
      BY <3>1, <3>2
  <2> QED
    BY <2>2, <2>3
<1>11. t \in Seq(1..n)
  BY <1>5
<1> QED
  BY <1>8, <1>9, <1>10, <1>11 DEF Distinct, t, k, f

\* The list a listener hands over holds the same comments.
LEMMA HandedLists ==
  ASSUME NEW n \in Nat, NEW s \in Seq(1..n), NEW l
  PROVE  /\ Handed(l, s) \in Seq(1..n)
         /\ ToSet(Handed(l, s)) = ToSet(s)
         /\ Distinct(s) => Distinct(Handed(l, s))
         /\ \A L : NewerFirst(s, L) => NewerFirst(Handed(l, s), L)
<1>1. CASE l # 1
  BY <1>1 DEF Handed
<1>2. CASE l = 1
  <2> DEFINE f == NewestFirst(ToSet(s))
  <2>1. ToSet(s) \in SUBSET (1..n)
    BY ListedType
  <2>2. ToSet(s) \in SUBSET Int /\ IsFiniteSet(ToSet(s))
    BY <2>1, NaturalSet
  <2>3. f \in Seq(ToSet(s)) /\ ToSet(f) = ToSet(s) /\ \A i, j \in DOMAIN f : i < j => f[i] > f[j]
    BY <2>2, NewestFirstLists
  <2> HIDE DEF f
  <2>4. f \in Seq(1..n)
    BY <2>1, <2>3, SeqMonotonic
  <2>5. Distinct(f)
    <3>1. DOMAIN f = 1..Len(f) /\ Len(f) \in Nat /\ \A i \in DOMAIN f : f[i] \in 1..n
      BY <2>4, ListedType
    <3> SUFFICES ASSUME NEW i \in DOMAIN f, NEW j \in DOMAIN f, i # j
                 PROVE  f[i] # f[j]
      BY DEF Distinct
    <3>2. i < j \/ j < i
      BY <3>1
    <3>3. f[i] > f[j] \/ f[j] > f[i]
      BY <2>3, <3>2
    <3>4. f[i] \in Int /\ f[j] \in Int
      BY <3>1
    <3> QED
      BY <3>3, <3>4
  <2>6. Handed(l, s) = f
    BY <1>2 DEF Handed, f
  <2> QED
    BY <2>3, <2>4, <2>5, <2>6 DEF NewerFirst
<1> QED
  BY <1>1, <1>2

-----------------------------------------------------------------------------
(* Types. *)

News(i) == mainQueue[i].kind = "snapshot"

\* Callbacks are about comments that were posted.
QueueTyped ==
  \A i \in DOMAIN mainQueue :
    /\ mainQueue[i].docs \subseteq 1..posted
    /\ ~News(i) => mainQueue[i].of \in 1..posted

TypeInv == TypeOK /\ QueueTyped

LEMMA SnapType ==
  ASSUME NEW l \in Listeners, NEW S \in SUBSET Ids
  PROVE  /\ Snap(l, S) \in Events /\ Snap(l, S).kind = "snapshot"
         /\ Snap(l, S).of = l /\ Snap(l, S).docs = S
BY DEF Snap, Events

\* A queue to which only snapshots of the same comments are added.
LEMMA QueueLonger ==
  ASSUME TypeInv, posted' \in Nat, posted <= posted', DOMAIN temp \subseteq DOMAIN temp',
         NEW tail \in Seq(Events), mainQueue' = mainQueue \o tail,
         \A i \in DOMAIN tail : /\ tail[i].kind = "snapshot" /\ tail[i].of \in DOMAIN temp'
                                /\ tail[i].docs = live',
         live' \subseteq 1..posted'
  PROVE  /\ mainQueue' \in Seq(Events)
         /\ \A i \in DOMAIN mainQueue' :
              mainQueue'[i].kind = "snapshot" => mainQueue'[i].of \in DOMAIN temp'
         /\ QueueTyped'
         /\ DOMAIN mainQueue' = 1..Len(mainQueue) + Len(tail)
         /\ DOMAIN mainQueue = 1..Len(mainQueue)
         /\ Len(mainQueue) \in Nat /\ Len(tail) \in Nat
         /\ \A i \in DOMAIN mainQueue : mainQueue'[i] = mainQueue[i]
         /\ \A i \in DOMAIN mainQueue' : i > Len(mainQueue) =>
              mainQueue'[i].kind = "snapshot" /\ mainQueue'[i].docs = live'
<1> DEFINE q == mainQueue
<1>1. q \in Seq(Events)
  BY DEF TypeInv, TypeOK
<1>2. /\ mainQueue' \in Seq(Events) /\ Len(mainQueue') = Len(q) + Len(tail)
      /\ \A i \in 1..Len(q) + Len(tail) :
           mainQueue'[i] = IF i <= Len(q) THEN q[i] ELSE tail[i - Len(q)]
  BY <1>1, ConcatProperties
<1>3. /\ DOMAIN q = 1..Len(q) /\ DOMAIN tail = 1..Len(tail)
      /\ DOMAIN mainQueue' = 1..Len(q) + Len(tail)
      /\ Len(q) \in Nat /\ Len(tail) \in Nat
  BY <1>1, <1>2, LenProperties
<1>4. \A i \in DOMAIN q : i \in DOMAIN mainQueue' /\ mainQueue'[i] = q[i]
  BY <1>2, <1>3
<1>5. ASSUME NEW i \in DOMAIN mainQueue', ~(i <= Len(q))
      PROVE  /\ mainQueue'[i].kind = "snapshot" /\ mainQueue'[i].of \in DOMAIN temp'
             /\ mainQueue'[i].docs = live'
  <2>1. i - Len(q) \in DOMAIN tail /\ mainQueue'[i] = tail[i - Len(q)]
    BY <1>2, <1>3, <1>5
  <2> QED
    BY <2>1
<1>6. \A i \in DOMAIN mainQueue' : i \in DOMAIN q \/ ~(i <= Len(q))
  BY <1>3
<1>7. \A x \in 1..posted : x \in 1..posted'
  BY DEF TypeInv, TypeOK
<1>8. \A i \in DOMAIN q : /\ q[i].docs \subseteq 1..posted
                          /\ q[i].kind # "snapshot" => q[i].of \in 1..posted
                          /\ q[i].kind = "snapshot" => q[i].of \in DOMAIN temp
  BY DEF TypeInv, TypeOK, QueueTyped, News
<1>9. QueueTyped'
  <2> SUFFICES ASSUME NEW i \in DOMAIN mainQueue'
               PROVE  /\ mainQueue'[i].docs \subseteq 1..posted'
                      /\ mainQueue'[i].kind # "snapshot" => mainQueue'[i].of \in 1..posted'
    BY DEF QueueTyped, News
  <2>1. CASE i \in DOMAIN q
    BY <1>4, <1>7, <1>8, <2>1
  <2>2. CASE ~(i <= Len(q))
    BY <1>5, <2>2
  <2> QED
    BY <1>6, <2>1, <2>2
<1>10. \A i \in DOMAIN mainQueue' :
         mainQueue'[i].kind = "snapshot" => mainQueue'[i].of \in DOMAIN temp'
  BY <1>4, <1>5, <1>6, <1>8
<1>11. \A i \in DOMAIN mainQueue' : i > Len(q) => ~(i <= Len(q))
  BY <1>3
<1> QED
  BY <1>2, <1>3, <1>4, <1>5, <1>9, <1>10, <1>11

\* What Notify adds.
LEMMA NotifyType ==
  ASSUME TypeInv, live' \in SUBSET Ids
  PROVE  \E tail \in Seq(Events) :
           /\ Notify(mainQueue, live') = mainQueue \o tail
           /\ Len(tail) = Len(temp) /\ tail # <<>>
           /\ \A i \in DOMAIN tail : /\ tail[i].kind = "snapshot" /\ tail[i].of \in DOMAIN temp
                                     /\ tail[i].docs = live'
<1> DEFINE tail == [l \in DOMAIN temp |-> Snap(l, live')]
<1>1. DOMAIN temp = 1..Len(temp) /\ Len(temp) \in Nat /\ Len(temp) \in Listeners
  BY LenProperties DEF TypeInv, TypeOK
<1>2. \A l \in DOMAIN temp : l \in Listeners
  BY <1>1, CommentsAssumption DEF Listeners
<1>3. tail \in [1..Len(temp) -> Events]
  BY <1>1, <1>2, SnapType
<1>4. \A i \in DOMAIN temp : /\ tail[i].kind = "snapshot" /\ tail[i].of = i
                             /\ tail[i].docs = live'
  BY <1>2, SnapType
<1>5. Notify(mainQueue, live') = mainQueue \o tail
  BY DEF Notify
<1>6. DOMAIN tail = DOMAIN temp
  OBVIOUS
<1> HIDE DEF tail
<1>7. tail \in Seq(Events)
  BY <1>1, <1>3, SeqDef
<1>8. Len(tail) = Len(temp)
  BY <1>1, <1>6, <1>7, LenProperties
<1>9. tail # <<>>
  BY <1>1, <1>8, EmptySeq DEF Listeners
<1>10. \A i \in DOMAIN tail : /\ tail[i].kind = "snapshot" /\ tail[i].of \in DOMAIN temp
                              /\ tail[i].docs = live'
  BY <1>4, <1>6
<1> QED
  BY <1>5, <1>7, <1>8, <1>9, <1>10

LEMMA QueueTail ==
  ASSUME TypeInv, mainQueue # <<>>
  PROVE  LET q == Tail(mainQueue) IN
         /\ Head(mainQueue) = mainQueue[1] /\ 1 \in DOMAIN mainQueue
         /\ q \in Seq(Events) /\ DOMAIN q = 1..Len(mainQueue) - 1
         /\ DOMAIN mainQueue = 1..Len(mainQueue) /\ Len(mainQueue) \in Nat
         /\ \A i \in DOMAIN q : i + 1 \in DOMAIN mainQueue /\ q[i] = mainQueue[i + 1]
<1>1. mainQueue \in Seq(Events)
  BY DEF TypeInv, TypeOK
<1>2. Len(mainQueue) \in Nat \ {0} /\ DOMAIN mainQueue = 1..Len(mainQueue)
  BY <1>1, EmptySeq, LenProperties
<1>3. Tail(mainQueue) \in Seq(Events) /\ Len(Tail(mainQueue)) = Len(mainQueue) - 1
      /\ \A i \in 1..Len(Tail(mainQueue)) : Tail(mainQueue)[i] = mainQueue[i + 1]
  BY <1>1, HeadTailProperties
<1>4. DOMAIN Tail(mainQueue) = 1..Len(mainQueue) - 1
  BY <1>3, LenProperties
<1>5. Head(mainQueue) = mainQueue[1]
  BY <1>1
<1> QED
  BY <1>2, <1>3, <1>4, <1>5

-----------------------------------------------------------------------------
LEMMA TypeInitially == Init => TypeInv
<1> SUFFICES ASSUME Init PROVE TypeInv
  OBVIOUS
<1>1. posted \in Nat /\ live = 1..posted /\ live \in SUBSET Ids
  BY CommentsAssumption DEF Init, Ids
<1>2. 1 \in Listeners
  BY CommentsAssumption DEF Listeners
<1>3. Snap(1, live) \in Events /\ Snap(1, live).kind = "snapshot" /\ Snap(1, live).of = 1
      /\ Snap(1, live).docs = live
  BY <1>1, <1>2, SnapType
<1>4. mainQueue = <<Snap(1, live)>> /\ temp = << <<>> >> /\ shown = <<>> /\ table = <<>>
  BY DEF Init
<1> DEFINE e == Snap(1, live)
<1> HIDE DEF e
<1>5. mainQueue \in Seq(Events) /\ DOMAIN mainQueue = {1} /\ mainQueue[1] = e
  BY <1>3, <1>4 DEF e
<1>6. DOMAIN temp = {1} /\ temp \in Seq(Seq(1..posted)) /\ Len(temp) = 1
  BY <1>4
<1>7. QueueTyped
  BY <1>1, <1>3, <1>5 DEF QueueTyped, News, e
<1>8. \A i \in DOMAIN mainQueue : mainQueue[i].kind = "snapshot" => mainQueue[i].of \in DOMAIN temp
  BY <1>3, <1>5, <1>6 DEF e
<1>9. shown \in Seq(1..posted) /\ table \in Seq(1..posted)
  BY <1>4
<1>10. Len(temp) \in Listeners
  BY <1>2, <1>6
<1>11. /\ posted \in 0..MaxComments /\ live \subseteq 1..posted /\ unsigned \subseteq 1..posted
       /\ pending = {} /\ acked = {} /\ deletes \in 0..MaxDeletes
       /\ isDelete \in BOOLEAN /\ fetchingMore \in BOOLEAN /\ crashed \in BOOLEAN
  <2>1. posted \in 0..MaxComments /\ live \subseteq 1..posted /\ unsigned \subseteq 1..posted
    BY DEF Init
  <2>2. 0 \in 0..MaxDeletes
    BY CommentsAssumption
  <2>3. pending = {} /\ acked = {} /\ deletes = 0
        /\ isDelete = FALSE /\ fetchingMore = TRUE /\ crashed = FALSE
    BY DEF Init
  <2> QED
    BY <2>1, <2>2, <2>3
<1> QED
  BY <1>5, <1>6, <1>7, <1>8, <1>9, <1>10, <1>11 DEF TypeInv, TypeOK

LEMMA FilledType ==
  ASSUME TypeInv, NEW l \in DOMAIN temp, NEW S \in SUBSET (1..posted)
  PROVE  /\ Filled(l, S) \in Seq(1..posted)
         /\ S \subseteq ToSet(Filled(l, S)) /\ ToSet(Filled(l, S)) \subseteq ToSet(temp[l]) \cup S
         /\ Distinct(temp[l]) => Distinct(Filled(l, S))
         /\ \A i, j \in DOMAIN Filled(l, S) :
              i < j /\ Filled(l, S)[i] \in S => Filled(l, S)[i] > Filled(l, S)[j]
<1> DEFINE old == IF Cleared(S) THEN <<>> ELSE temp[l]
<1>1. posted \in Nat /\ temp[l] \in Seq(1..posted)
  <2>1. temp \in Seq(Seq(1..posted)) /\ posted \in Nat
    BY DEF TypeInv, TypeOK
  <2> QED
    BY <2>1, ListedType
<1>2. old \in Seq(1..posted) /\ ToSet(old) \subseteq ToSet(temp[l])
      /\ (Distinct(temp[l]) => Distinct(old))
  <2>1. CASE Cleared(S)
    <3>1. old = <<>> /\ DOMAIN <<>> = {}
      BY <2>1
    <3> HIDE DEF old
    <3> QED
      BY <3>1 DEF ToSet, Distinct
  <2>2. CASE ~Cleared(S)
    BY <1>1, <2>2
  <2> QED
    BY <2>1, <2>2
<1>3. Filled(l, S) = Kept(old, S) \o NewestFirst(S)
  BY DEF Filled
<1> HIDE DEF old
<1> DEFINE t == Kept(old, S) \o NewestFirst(S)
<1>4. /\ t \in Seq(1..posted)
      /\ ToSet(t) = (ToSet(old) \ S) \cup S
      /\ Distinct(old) => Distinct(t)
      /\ \A i, j \in DOMAIN t : i < j /\ t[i] \in S => t[i] > t[j]
  BY <1>1, <1>2, JoinedLists
<1> HIDE DEF t
<1>5. Filled(l, S) = t
  BY <1>3 DEF t
<1> QED
  BY <1>2, <1>4, <1>5

\* Comments without a sender stay, and others come.
LEMMA UnsignedStay ==
  ASSUME TypeOK, [Next]_vars
  PROVE  unsigned \subseteq unsigned' /\ unsigned' \subseteq 1..posted'
<1>1. posted \in Nat /\ unsigned \subseteq 1..posted
  BY DEF TypeOK
<1>2. ASSUME NEW signed \in BOOLEAN, Post(signed)
      PROVE  unsigned \subseteq unsigned' /\ unsigned' \subseteq 1..posted'
  BY <1>1, <1>2 DEF Post
<1>3. CASE UNCHANGED <<posted, unsigned>>
  BY <1>1, <1>3
<1>4. ASSUME ~\E signed \in BOOLEAN : Post(signed)
      PROVE  UNCHANGED <<posted, unsigned>>
  BY <1>4 DEF Next, vars, data, screen, RemoteDelete, Acknowledge, ScrollToEnd, RowAgain, Delete,
     DeleteCrashes, Snapshot, SnapshotCrashes, Completed
<1> QED
  BY <1>2, <1>3, <1>4

LEMMA TypeStep ==
  ASSUME TypeInv, [Next]_vars
  PROVE  TypeInv'
<1> USE DEF TypeInv
<1>signed. unsigned' \subseteq 1..posted'
  BY UnsignedStay
<1>0. /\ posted \in Nat /\ posted <= MaxComments /\ live \subseteq 1..posted
      /\ pending \subseteq 1..posted /\ acked \subseteq 1..posted
      /\ shown \in Seq(1..posted) /\ table \in Seq(1..posted)
      /\ temp \in Seq(Seq(1..posted)) /\ Len(temp) \in Listeners
  BY CommentsAssumption DEF TypeOK
<1>1. DOMAIN temp = 1..Len(temp)
  BY <1>0, LenProperties
<1>2. \A i \in 1..posted : i \in Ids
  BY <1>0, CommentsAssumption DEF Ids
<1>3. ASSUME UNCHANGED <<posted, live, temp, pending, acked, deletes, shown, table,
                         isDelete, fetchingMore, crashed>>,
             mainQueue' \in Seq(Events),
             \A i \in DOMAIN mainQueue' :
               mainQueue'[i].kind = "snapshot" => mainQueue'[i].of \in DOMAIN temp,
             QueueTyped'
      PROVE  TypeInv'
  BY <1>signed, <1>3 DEF TypeOK
<1>4. ASSUME NEW signed \in BOOLEAN, Post(signed)
      PROVE  TypeInv'
  <2>1. posted' = posted + 1 /\ live' = live \cup {posted'} /\ posted' \in 0..MaxComments
    BY <1>0, <1>4, CommentsAssumption DEF Post
  <2>2. live' \subseteq 1..posted' /\ live' \in SUBSET Ids
    BY <1>0, <1>2, <2>1, CommentsAssumption DEF Ids
  <2>3. PICK tail \in Seq(Events) :
           /\ mainQueue' = mainQueue \o tail
           /\ \A i \in DOMAIN tail : /\ tail[i].kind = "snapshot" /\ tail[i].of \in DOMAIN temp
                                     /\ tail[i].docs = live'
    BY <1>4, <2>2, NotifyType DEF Post
  <2>4. temp' = temp
    BY <1>4 DEF Post
  <2>5. mainQueue' \in Seq(Events) /\ QueueTyped' /\ \A i \in DOMAIN mainQueue' :
              mainQueue'[i].kind = "snapshot" => mainQueue'[i].of \in DOMAIN temp'
    <3>1. /\ posted' \in Nat /\ posted <= posted' /\ DOMAIN temp \subseteq DOMAIN temp'
          /\ \A i \in DOMAIN tail : /\ tail[i].kind = "snapshot" /\ tail[i].of \in DOMAIN temp'
                                    /\ tail[i].docs = live'
      BY <1>0, <2>1, <2>3, <2>4
    <3> QED
      BY <2>2, <2>3, <3>1, QueueLonger
  <2>6. 1..posted \subseteq 1..posted'
    BY <1>0, <2>1
  <2>7. shown \in Seq(1..posted') /\ table \in Seq(1..posted')
    BY <1>0, <2>6, SeqMonotonic
  <2>8. Seq(1..posted) \subseteq Seq(1..posted')
    BY <2>6, SeqMonotonic
  <2>9. temp \in Seq(Seq(1..posted'))
    BY <1>0, <2>8, SeqMonotonic
  <2>10. UNCHANGED <<temp, pending, acked, deletes, shown, table, isDelete, fetchingMore, crashed>>
    BY <1>4 DEF Post, screen
  <2> QED
    BY <1>signed, <1>0, <2>1, <2>2, <2>5, <2>6, <2>7, <2>9, <2>10 DEF TypeOK
<1>5. ASSUME NEW c \in live, RemoteDelete(c)
      PROVE  TypeInv'
  <2>1. live' \subseteq 1..posted /\ live' \in SUBSET Ids
    BY <1>0, <1>2, <1>5 DEF RemoteDelete
  <2>2. PICK tail \in Seq(Events) :
           /\ mainQueue' = mainQueue \o tail
           /\ \A i \in DOMAIN tail : /\ tail[i].kind = "snapshot" /\ tail[i].of \in DOMAIN temp
                                     /\ tail[i].docs = live'
    BY <1>5, <2>1, NotifyType DEF RemoteDelete
  <2>3. UNCHANGED <<posted, temp, pending, acked, deletes, shown, table, isDelete, fetchingMore, crashed>>
    BY <1>5 DEF RemoteDelete, screen
  <2>4. mainQueue' \in Seq(Events) /\ QueueTyped' /\ \A i \in DOMAIN mainQueue' :
              mainQueue'[i].kind = "snapshot" => mainQueue'[i].of \in DOMAIN temp'
    <3>1. /\ posted' \in Nat /\ posted <= posted' /\ DOMAIN temp \subseteq DOMAIN temp'
          /\ live' \subseteq 1..posted'
          /\ \A i \in DOMAIN tail : /\ tail[i].kind = "snapshot" /\ tail[i].of \in DOMAIN temp'
                                    /\ tail[i].docs = live'
      BY <1>0, <2>1, <2>2, <2>3
    <3> QED
      BY <2>2, <3>1, QueueLonger
  <2> QED
    BY <1>signed, <2>1, <2>3, <2>4 DEF TypeOK
<1>6. ASSUME NEW c \in pending, Acknowledge(c)
      PROVE  TypeInv'
  <2> DEFINE q == mainQueue
  <2>1. q \in Seq(Events) /\ Ack(c) \in Events /\ Ack(c).kind = "ack" /\ Ack(c).of = c
        /\ Ack(c).docs = {}
    BY <1>0, <1>2 DEF TypeOK, Ack, Events
  <2>2. UNCHANGED <<posted, live, temp, acked, deletes, shown, table, isDelete, fetchingMore, crashed>>
        /\ mainQueue' = Append(q, Ack(c)) /\ pending' = pending \ {c}
    BY <1>6 DEF Acknowledge, screen
  <2>3. /\ mainQueue' \in Seq(Events) /\ DOMAIN mainQueue' = 1..Len(q) + 1
        /\ Len(q) \in Nat /\ DOMAIN q = 1..Len(q)
        /\ mainQueue'[Len(q) + 1] = Ack(c) /\ \A i \in 1..Len(q) : mainQueue'[i] = q[i]
    BY <2>1, <2>2, AppendProperties, LenProperties
  <2>4. \A i \in DOMAIN mainQueue' : \/ i \in DOMAIN q /\ mainQueue'[i] = q[i]
                                     \/ mainQueue'[i] = Ack(c)
    BY <2>3
  <2>5. QueueTyped'
    <3> SUFFICES ASSUME NEW i \in DOMAIN mainQueue'
                 PROVE  /\ mainQueue'[i].docs \subseteq 1..posted'
                        /\ mainQueue'[i].kind # "snapshot" => mainQueue'[i].of \in 1..posted'
      BY DEF QueueTyped, News
    <3> QED
      BY <1>0, <2>1, <2>2, <2>4 DEF QueueTyped, News
  <2>6. \A i \in DOMAIN mainQueue' :
              mainQueue'[i].kind = "snapshot" => mainQueue'[i].of \in DOMAIN temp'
    BY <2>1, <2>2, <2>4 DEF TypeOK
  <2>7. pending' \subseteq 1..posted
    BY <1>0, <2>2
  <2> QED
    BY <1>signed, <2>2, <2>3, <2>5, <2>6, <2>7 DEF TypeOK
<1>7. CASE ScrollToEnd
  <2>1. UNCHANGED <<posted, live, pending, acked, deletes, shown, table, isDelete, crashed>>
        /\ temp' = Append(temp, shown) /\ mainQueue' = Append(mainQueue, Snap(Len(temp'), live))
        /\ fetchingMore' = TRUE /\ Len(temp) < MaxListeners
    BY <1>7 DEF ScrollToEnd, data
  <2>2. temp' \in Seq(Seq(1..posted)) /\ Len(temp') = Len(temp) + 1
        /\ DOMAIN temp' = 1..Len(temp) + 1
    BY <1>0, <2>1, AppendProperties, LenProperties
  <2>3. Len(temp') \in Listeners /\ Len(temp') \in DOMAIN temp' /\ DOMAIN temp \subseteq DOMAIN temp'
    BY <1>0, <1>1, <2>1, <2>2, CommentsAssumption DEF Listeners
  <2> DEFINE e == Snap(Len(temp'), live)
  <2>4. live \in SUBSET Ids
    BY <1>0, <1>2
  <2>5. e \in Events /\ e.kind = "snapshot" /\ e.of \in DOMAIN temp' /\ e.docs = live'
    BY <2>1, <2>3, <2>4, SnapType
  <2>6. mainQueue' = Append(mainQueue, e)
    BY <2>1
  <2> HIDE DEF e
  <2>7. mainQueue' = mainQueue \o <<e>>
    BY <2>5, <2>6, AppendIsConcat DEF TypeOK
  <2>8. <<e>> \in Seq(Events) /\ \A i \in DOMAIN <<e>> : <<e>>[i] = e
    BY <2>5
  <2> DEFINE tail == <<e>>
  <2>9. /\ tail \in Seq(Events) /\ mainQueue' = mainQueue \o tail
        /\ \A i \in DOMAIN tail : /\ tail[i].kind = "snapshot" /\ tail[i].of \in DOMAIN temp'
                                  /\ tail[i].docs = live'
    BY <2>5, <2>7, <2>8
  <2> HIDE DEF tail
  <2>10. posted' \in Nat /\ posted <= posted' /\ live' \subseteq 1..posted'
    BY <1>0, <2>1
  <2>11. mainQueue' \in Seq(Events) /\ QueueTyped' /\ \A i \in DOMAIN mainQueue' :
              mainQueue'[i].kind = "snapshot" => mainQueue'[i].of \in DOMAIN temp'
    BY <2>3, <2>9, <2>10, QueueLonger
  <2> QED
    BY <1>signed, <2>1, <2>2, <2>3, <2>11 DEF TypeOK
<1>8. ASSUME NEW i \in DOMAIN table, RowAgain(i)
      PROVE  TypeInv'
  <2>1. UNCHANGED <<posted, live, pending, deletes, temp, mainQueue, acked, shown, isDelete, fetchingMore>>
    BY <1>8 DEF RowAgain, data
  <2>2. table' \in Seq(1..posted) /\ crashed' \in BOOLEAN
    <3>1. CASE i <= Len(shown)
      <4>1. i \in 1..Len(table) /\ Len(table) \in Nat /\ Len(shown) \in Nat
            /\ DOMAIN table = 1..Len(table)
        BY <1>0, LenProperties
      <4>2. shown[i] \in 1..posted
        BY <1>0, <3>1, <4>1, ElementOfSeq
      <4>3. table' = [table EXCEPT ![i] = shown[i]] /\ crashed' = crashed
        BY <1>8, <3>1 DEF RowAgain
      <4>4. table' \in Seq(1..posted)
        BY <1>0, <4>1, <4>2, <4>3, ExceptSeq
      <4> QED
        BY <4>3, <4>4 DEF TypeOK
    <3>2. CASE ~(i <= Len(shown))
      BY <1>0, <1>8, <3>2 DEF RowAgain
    <3> QED
      BY <3>1, <3>2
  <2> QED
    BY <1>signed, <2>1, <2>2 DEF TypeOK, QueueTyped, News
<1>9. ASSUME NEW i \in DOMAIN table, Delete(i)
      PROVE  TypeInv'
  <2>1. /\ UNCHANGED <<posted, temp, acked, fetchingMore>>
        /\ live' = live \ {shown[i]} /\ pending' = pending \cup {shown[i]}
        /\ deletes' = deletes + 1 /\ deletes < MaxDeletes /\ isDelete' = TRUE
        /\ shown' = Without(shown, shown[i]) /\ table' = RemoveAt(table, i)
        /\ crashed' \in BOOLEAN
    BY <1>9 DEF Delete
  <2>2. i \in 1..Len(table) /\ i \in DOMAIN shown /\ shown[i] \in 1..posted
        /\ Len(table) \in Nat /\ \A j \in 1..Len(table) : table[j] \in 1..posted
    <3>1. DOMAIN table = 1..Len(table) /\ DOMAIN shown = 1..Len(shown)
          /\ Len(table) \in Nat /\ Len(shown) \in Nat
          /\ (\A j \in DOMAIN shown : shown[j] \in 1..posted)
          /\ (\A j \in DOMAIN table : table[j] \in 1..posted)
      BY <1>0, ListedType
    <3> QED
      BY <1>9, <3>1 DEF Delete
  <2>3. shown' \in Seq(1..posted)
    BY <1>0, <2>1, KeptLists DEF Without
  <2>4. table' \in Seq(1..posted)
    <3>1. \A j \in 1..i - 1 : table[j] \in 1..posted
      BY <2>2
    <3>2. \A j \in i + 1..Len(table) : table[j] \in 1..posted
      BY <2>2
    <3>3. SubSeq(table, 1, i - 1) \in Seq(1..posted)
      BY <2>2, <3>1, SubSeqProperties
    <3>4. SubSeq(table, i + 1, Len(table)) \in Seq(1..posted)
      BY <2>2, <3>2, SubSeqProperties
    <3> QED
      BY <2>1, <3>3, <3>4, ConcatProperties DEF RemoveAt
  <2>5. live' \subseteq 1..posted /\ live' \in SUBSET Ids /\ pending' \subseteq 1..posted
    BY <1>0, <1>2, <2>1, <2>2
  <2>6. deletes' \in 0..MaxDeletes
    BY <2>1, CommentsAssumption DEF TypeOK
  <2>7. mainQueue' \in Seq(Events) /\ QueueTyped' /\ \A j \in DOMAIN mainQueue' :
              mainQueue'[j].kind = "snapshot" => mainQueue'[j].of \in DOMAIN temp'
    <3>1. CASE mainQueue' = mainQueue
      BY <2>1, <3>1 DEF TypeOK, QueueTyped, News
    <3>2. CASE mainQueue' = Notify(mainQueue, live')
      <4>1. PICK tail \in Seq(Events) :
               /\ mainQueue' = mainQueue \o tail
               /\ \A j \in DOMAIN tail : /\ tail[j].kind = "snapshot" /\ tail[j].of \in DOMAIN temp
                                         /\ tail[j].docs = live'
        BY <2>5, <3>2, NotifyType
      <4> QED
        <5>1. /\ posted' \in Nat /\ posted <= posted' /\ DOMAIN temp \subseteq DOMAIN temp'
              /\ live' \subseteq 1..posted'
              /\ \A j \in DOMAIN tail : /\ tail[j].kind = "snapshot" /\ tail[j].of \in DOMAIN temp'
                                        /\ tail[j].docs = live'
          <6>1. posted' = posted /\ temp' = temp
            BY <2>1
          <6>2. posted' \in Nat /\ posted <= posted' /\ live' \subseteq 1..posted'
            BY <1>0, <2>5, <6>1
          <6> QED
            BY <4>1, <6>1, <6>2
        <5> QED
          BY <4>1, <5>1, QueueLonger
    <3> QED
      BY <1>9, <3>1, <3>2 DEF Delete
  <2> QED
    BY <1>signed, <1>0, <2>1, <2>3, <2>4, <2>5, <2>6, <2>7 DEF TypeOK
<1>10. ASSUME NEW i \in DOMAIN table, DeleteCrashes(i)
       PROVE  TypeInv'
  BY <1>signed, <1>10 DEF DeleteCrashes, data, screen, TypeOK, QueueTyped, News
<1>11. ASSUME mainQueue # <<>>, mainQueue' = Tail(mainQueue), UNCHANGED posted,
              DOMAIN temp' = DOMAIN temp
       PROVE  mainQueue' \in Seq(Events) /\ QueueTyped' /\ \A j \in DOMAIN mainQueue' :
                mainQueue'[j].kind = "snapshot" => mainQueue'[j].of \in DOMAIN temp'
  <2>1. /\ mainQueue' \in Seq(Events)
        /\ \A i \in DOMAIN mainQueue' : i + 1 \in DOMAIN mainQueue /\ mainQueue'[i] = mainQueue[i + 1]
    BY <1>11, QueueTail
  <2>2. QueueTyped'
    <3> SUFFICES ASSUME NEW i \in DOMAIN mainQueue'
                 PROVE  /\ mainQueue'[i].docs \subseteq 1..posted'
                        /\ mainQueue'[i].kind # "snapshot" => mainQueue'[i].of \in 1..posted'
      BY DEF QueueTyped, News
    <3> QED
      BY <1>11, <2>1 DEF QueueTyped, News
  <2> QED
    BY <1>signed, <1>11, <2>1, <2>2 DEF TypeOK
<1>12. CASE Snapshot
  <2> DEFINE l == Head(mainQueue).of
             S == Head(mainQueue).docs
             f == Filled(l, S)
  <2>1. /\ UNCHANGED <<posted, live, pending, deletes, acked, crashed>>
        /\ mainQueue # <<>> /\ mainQueue' = Tail(mainQueue)
        /\ temp' = [temp EXCEPT ![l] = f] /\ shown' = Handed(l, temp'[l]) /\ table' = shown'
        /\ isDelete' \in BOOLEAN /\ fetchingMore' = FALSE
    BY <1>12 DEF Snapshot, data, Releases
  <2>2. l \in DOMAIN temp /\ S \in SUBSET (1..posted)
    BY <1>12, <2>1, QueueTail DEF Snapshot, TypeOK, QueueTyped, News
  <2>3. f \in Seq(1..posted)
    BY <2>2, FilledType
  <2> HIDE DEF l, S, f
  <2>4. temp' \in Seq(Seq(1..posted)) /\ Len(temp') = Len(temp) /\ temp'[l] = f
        /\ DOMAIN temp' = DOMAIN temp
    BY <1>0, <1>1, <2>1, <2>2, <2>3, ExceptSeq
  <2>5. shown' \in Seq(1..posted)
    BY <1>0, <2>1, <2>3, <2>4, HandedLists
  <2>6. mainQueue' \in Seq(Events) /\ QueueTyped' /\ \A j \in DOMAIN mainQueue' :
              mainQueue'[j].kind = "snapshot" => mainQueue'[j].of \in DOMAIN temp'
    BY <1>11, <2>1, <2>4
  <2> QED
    BY <1>signed, <2>1, <2>4, <2>5, <2>6 DEF TypeOK
<1>13. CASE Completed
  <2> DEFINE c == Head(mainQueue).of
  <2>1. /\ UNCHANGED <<posted, live, pending, deletes, temp, table, isDelete, fetchingMore, crashed>>
        /\ mainQueue # <<>> /\ mainQueue' = Tail(mainQueue)
        /\ shown' = Without(shown, c) /\ acked' = acked \cup {c}
    BY <1>13 DEF Completed, data
  <2>2. c \in 1..posted
    BY <1>13, <2>1, QueueTail DEF Completed, QueueTyped, News
  <2> HIDE DEF c
  <2>3. shown' \in Seq(1..posted)
    BY <1>0, <2>1, KeptLists DEF Without
  <2>4. mainQueue' \in Seq(Events) /\ QueueTyped' /\ \A j \in DOMAIN mainQueue' :
              mainQueue'[j].kind = "snapshot" => mainQueue'[j].of \in DOMAIN temp'
    BY <1>11, <2>1
  <2>5. acked' \subseteq 1..posted
    BY <1>0, <2>1, <2>2
  <2> QED
    BY <1>signed, <2>1, <2>3, <2>4, <2>5 DEF TypeOK
<1>14. CASE SnapshotCrashes
  BY <1>signed, <1>14 DEF SnapshotCrashes, data, screen, TypeOK, QueueTyped, News
<1>15. CASE UNCHANGED vars
  BY <1>signed, <1>15 DEF vars, TypeOK, QueueTyped, News
<1> QED
  BY <1>4, <1>5, <1>6, <1>7, <1>8, <1>9, <1>10, <1>12, <1>13, <1>14, <1>15 DEF Next

-----------------------------------------------------------------------------
(* What the callbacks in the queue still bring.                             *)

\* Everything on a list of this screen.
Listed == ToSet(shown) \cup UNION {ToSet(temp[l]) : l \in DOMAIN temp}

\* A comment that still exists and is on some list, or in some snapshot, is in
\* every later snapshot; the last one brings every comment there is, and with no
\* snapshot to come everything is shown.  Comments taken back stay away.
QueueInv ==
  /\ \A i \in DOMAIN mainQueue : News(i) => Listed \cap live \subseteq mainQueue[i].docs
  /\ \A i, j \in DOMAIN mainQueue : News(i) /\ News(j) /\ i < j =>
       mainQueue[i].docs \cap live \subseteq mainQueue[j].docs
  /\ \A i \in DOMAIN mainQueue :
       News(i) /\ (\A j \in DOMAIN mainQueue : i < j => ~News(j)) =>
         live \subseteq mainQueue[i].docs
  /\ (\A i \in DOMAIN mainQueue : ~News(i)) => live \subseteq ToSet(shown)
  /\ \A i \in DOMAIN mainQueue : ~News(i) => mainQueue[i].of \notin live
  /\ pending \cap live = {}

LEMMA ListedPosted ==
  ASSUME TypeInv
  PROVE  Listed \subseteq 1..posted /\ \A l \in DOMAIN temp : temp[l] \in Seq(1..posted)
<1>1. \A l \in DOMAIN temp : temp[l] \in Seq(1..posted)
  BY ListedType DEF TypeInv, TypeOK
<1>2. \A l \in DOMAIN temp : ToSet(temp[l]) \subseteq 1..posted
  BY <1>1, ListedType
<1>3. ToSet(shown) \subseteq 1..posted
  BY ListedType DEF TypeInv, TypeOK
<1> QED
  BY <1>1, <1>2, <1>3 DEF Listed

\* More snapshots of what there is now.
LEMMA QueueInvLonger ==
  ASSUME TypeInv, QueueInv, posted' \in Nat, posted <= posted',
         DOMAIN temp \subseteq DOMAIN temp',
         NEW tail \in Seq(Events), tail # <<>>, mainQueue' = mainQueue \o tail,
         \A i \in DOMAIN tail : /\ tail[i].kind = "snapshot" /\ tail[i].of \in DOMAIN temp'
                                /\ tail[i].docs = live',
         live' \subseteq 1..posted', live' \cap 1..posted \subseteq live,
         Listed' \subseteq Listed, pending' \cap live' = {}
  PROVE  QueueInv'
<1> DEFINE q == mainQueue
<1>1. /\ DOMAIN mainQueue' = 1..Len(q) + Len(tail)
      /\ DOMAIN q = 1..Len(q) /\ Len(q) \in Nat /\ Len(tail) \in Nat
      /\ \A i \in DOMAIN q : mainQueue'[i] = q[i]
      /\ \A i \in DOMAIN mainQueue' : i > Len(q) =>
           mainQueue'[i].kind = "snapshot" /\ mainQueue'[i].docs = live'
  BY QueueLonger
<1>2. Len(tail) # 0
  BY EmptySeq
<1>3. \A i \in DOMAIN mainQueue' : i \in DOMAIN q \/ i > Len(q)
  BY <1>1
<1>4. Len(q) + 1 \in DOMAIN mainQueue' /\ Len(q) + 1 > Len(q)
      /\ \A i \in DOMAIN q : i < Len(q) + 1
  BY <1>1, <1>2
<1>5. /\ \A i \in DOMAIN q : q[i].docs \subseteq 1..posted
      /\ \A i \in DOMAIN q : q[i].kind # "snapshot" => q[i].of \in 1..posted
  BY DEF TypeInv, QueueTyped, News
<1>6. Listed \subseteq 1..posted
  BY ListedPosted
<1>7. ASSUME NEW i \in DOMAIN mainQueue', mainQueue'[i].kind = "snapshot"
      PROVE  Listed' \cap live' \subseteq mainQueue'[i].docs
  <2>1. CASE i \in DOMAIN q
    <3>1. Listed \cap live \subseteq q[i].docs
      BY <1>1, <1>7, <2>1 DEF QueueInv, News
    <3> QED
      BY <1>1, <1>6, <2>1, <3>1
  <2>2. CASE i > Len(q)
    BY <1>1, <2>2
  <2> QED
    BY <1>3, <2>1, <2>2
<1>8. ASSUME NEW i \in DOMAIN mainQueue', NEW j \in DOMAIN mainQueue', i < j,
             mainQueue'[i].kind = "snapshot", mainQueue'[j].kind = "snapshot"
      PROVE  mainQueue'[i].docs \cap live' \subseteq mainQueue'[j].docs
  <2>1. CASE j \in DOMAIN q
    <3>1. i \in DOMAIN q
      BY <1>1, <1>8, <2>1
    <3>2. q[i].docs \cap live \subseteq q[j].docs
      BY <1>1, <1>8, <2>1, <3>1 DEF QueueInv, News
    <3> QED
      BY <1>1, <1>5, <2>1, <3>1, <3>2
  <2>2. CASE j > Len(q)
    BY <1>1, <2>2
  <2> QED
    BY <1>3, <2>1, <2>2
<1>9. ASSUME NEW i \in DOMAIN mainQueue',
             \A j \in DOMAIN mainQueue' : i < j => mainQueue'[j].kind # "snapshot"
      PROVE  live' \subseteq mainQueue'[i].docs
  <2>1. i \notin DOMAIN q
    BY <1>1, <1>4, <1>9
  <2> QED
    BY <1>1, <1>3, <2>1
<1>10. ASSUME NEW i \in DOMAIN mainQueue', mainQueue'[i].kind # "snapshot"
       PROVE  mainQueue'[i].of \notin live'
  <2>1. i \in DOMAIN q
    BY <1>1, <1>3, <1>10
  <2>2. q[i].of \notin live /\ q[i].of \in 1..posted
    BY <1>1, <1>5, <1>10, <2>1 DEF QueueInv, News
  <2> QED
    BY <1>1, <2>1, <2>2
<1>11. \E i \in DOMAIN mainQueue' : mainQueue'[i].kind = "snapshot"
  BY <1>1, <1>4
<1> QED
  BY <1>7, <1>8, <1>9, <1>10, <1>11 DEF QueueInv, News

\* The queue stays as it is.
LEMMA QueueInvKept ==
  ASSUME QueueInv, UNCHANGED <<mainQueue, live>>, Listed' \subseteq Listed,
         ToSet(shown) \cap live \subseteq ToSet(shown'), pending' \cap live = {}
  PROVE  QueueInv'
<1>1. /\ \A i \in DOMAIN mainQueue : News(i) => Listed' \cap live \subseteq mainQueue[i].docs
      /\ (\A i \in DOMAIN mainQueue : ~News(i)) => live \subseteq ToSet(shown')
  BY DEF QueueInv
<1> QED
  BY <1>1 DEF QueueInv, News

\* The oldest callback has been run.
LEMMA QueueInvShorter ==
  ASSUME TypeInv, QueueInv, mainQueue # <<>>, mainQueue' = Tail(mainQueue),
         UNCHANGED <<live, pending>>,
         \A i \in DOMAIN mainQueue : i > 1 /\ News(i) =>
           Listed' \cap live \subseteq mainQueue[i].docs,
         (\A i \in DOMAIN mainQueue : i > 1 => ~News(i)) => live \subseteq ToSet(shown')
  PROVE  QueueInv'
<1>1. /\ DOMAIN mainQueue' = 1..Len(mainQueue) - 1
      /\ DOMAIN mainQueue = 1..Len(mainQueue) /\ Len(mainQueue) \in Nat
      /\ \A i \in DOMAIN mainQueue' : i + 1 \in DOMAIN mainQueue /\ mainQueue'[i] = mainQueue[i + 1]
  BY QueueTail
<1>2. \A i \in DOMAIN mainQueue' : i + 1 > 1 /\ i \in Int
  BY <1>1
<1>3. \A i \in DOMAIN mainQueue : i > 1 => i - 1 \in DOMAIN mainQueue' /\ (i - 1) + 1 = i
  BY <1>1
<1>4. \A i, j \in DOMAIN mainQueue' : i < j => i + 1 < j + 1
  BY <1>2
<1>5. \A i \in DOMAIN mainQueue' : mainQueue'[i].kind = "snapshot" => News(i + 1)
  BY <1>1 DEF News
<1>6. \A i \in DOMAIN mainQueue' : mainQueue'[i].kind # "snapshot" => ~News(i + 1)
  BY <1>1 DEF News
<1>7. ASSUME NEW i \in DOMAIN mainQueue', mainQueue'[i].kind = "snapshot",
             \A j \in DOMAIN mainQueue' : i < j => mainQueue'[j].kind # "snapshot"
      PROVE  live \subseteq mainQueue'[i].docs
  <2>1. ASSUME NEW j \in DOMAIN mainQueue, i + 1 < j
        PROVE  ~News(j)
    <3>1. j > 1 /\ i < j - 1
      BY <1>1, <1>2, <2>1
    <3>2. j - 1 \in DOMAIN mainQueue' /\ (j - 1) + 1 = j
      BY <1>3, <3>1
    <3> QED
      BY <1>6, <1>7, <3>1, <3>2
  <2> QED
    BY <1>1, <1>5, <1>7, <2>1 DEF QueueInv
<1>8. (\A i \in DOMAIN mainQueue' : mainQueue'[i].kind # "snapshot") => live \subseteq ToSet(shown')
  BY <1>3, <1>6
<1>9. \A i \in DOMAIN mainQueue' : mainQueue'[i].kind = "snapshot" =>
        Listed' \cap live \subseteq mainQueue'[i].docs
  BY <1>1, <1>2, <1>5
<1>10. \A i, j \in DOMAIN mainQueue' :
         mainQueue'[i].kind = "snapshot" /\ mainQueue'[j].kind = "snapshot" /\ i < j =>
           mainQueue'[i].docs \cap live \subseteq mainQueue'[j].docs
  BY <1>1, <1>4, <1>5 DEF QueueInv
<1>11. \A i \in DOMAIN mainQueue' : mainQueue'[i].kind # "snapshot" => mainQueue'[i].of \notin live
  BY <1>1, <1>6 DEF QueueInv
<1>12. pending' \cap live' = {}
  BY DEF QueueInv
<1> QED
  BY <1>7, <1>8, <1>9, <1>10, <1>11, <1>12 DEF QueueInv, News

-----------------------------------------------------------------------------
(* The lists, and the invariant. *)

ListsInv ==
  /\ Distinct(shown) /\ NewerFirst(shown, live)
  /\ \A l \in DOMAIN temp : Distinct(temp[l])

CommentsInv == TypeInv /\ QueueInv /\ ListsInv /\ RowsMatch

\* A list from which something was taken.
LEMMA WithoutLists ==
  ASSUME TypeInv, NEW c
  PROVE  /\ ToSet(Without(shown, c)) = ToSet(shown) \ {c}
         /\ Distinct(shown) => Distinct(Without(shown, c))
         /\ \A L : NewerFirst(shown, L) => NewerFirst(Without(shown, c), L)
<1>1. shown \in Seq(1..posted)
  BY DEF TypeInv, TypeOK
<1> QED
  BY <1>1, KeptLists, KeptOrder DEF Without

\* Fewer comments, or none but the newest, keep the order.
LEMMA NewerFirstFewer ==
  ASSUME NEW s, NEW L, NEW M, NewerFirst(s, L), M \cap ToSet(s) \subseteq L
  PROVE  NewerFirst(s, M)
BY DEF NewerFirst, ToSet

LEMMA SnapshotLists ==
  ASSUME CommentsInv, Snapshot
  PROVE  LET S == mainQueue[1].docs IN
         /\ mainQueue # <<>> /\ mainQueue' = Tail(mainQueue) /\ 1 \in DOMAIN mainQueue /\ News(1)
         /\ Listed' \subseteq Listed \cup S /\ S \subseteq ToSet(shown')
         /\ ListsInv' /\ table' = shown'
<1> USE DEF CommentsInv
<1> DEFINE l == Head(mainQueue).of
           S == Head(mainQueue).docs
           f == Filled(l, S)
<1>1. /\ UNCHANGED <<live, posted>> /\ mainQueue # <<>> /\ mainQueue' = Tail(mainQueue)
      /\ temp' = [temp EXCEPT ![l] = f] /\ shown' = Handed(l, temp'[l]) /\ table' = shown'
      /\ Head(mainQueue).kind = "snapshot"
  BY DEF Snapshot, data
<1>2. Head(mainQueue) = mainQueue[1] /\ 1 \in DOMAIN mainQueue
  BY <1>1, QueueTail
<1>3. News(1) /\ S = mainQueue[1].docs /\ l \in DOMAIN temp /\ S \in SUBSET (1..posted)
  BY <1>1, <1>2 DEF TypeInv, TypeOK, QueueTyped, News
<1> HIDE DEF l, S, f
<1>a. posted \in Nat /\ Distinct(temp[l])
  BY <1>3 DEF TypeInv, TypeOK, ListsInv
<1>b. f = Filled(l, S)
  BY DEF f
<1>4. /\ f \in Seq(1..posted)
      /\ S \subseteq ToSet(f) /\ ToSet(f) \subseteq ToSet(temp[l]) \cup S
      /\ Distinct(f)
      /\ \A i, j \in DOMAIN f : i < j /\ f[i] \in S => f[i] > f[j]
  BY <1>3, <1>a, <1>b, FilledType
<1>5. temp'[l] = f /\ DOMAIN temp' = DOMAIN temp
      /\ \A m \in DOMAIN temp : m # l => temp'[m] = temp[m]
  BY <1>1, <1>3
<1>6. shown' = Handed(l, f)
  BY <1>1, <1>5
<1>7. /\ ToSet(shown') = ToSet(f) /\ Distinct(shown')
      /\ \A L : NewerFirst(f, L) => NewerFirst(shown', L)
  <2>1. \A n \in Nat : \A s \in Seq(1..n) : \A m :
          Distinct(s) => /\ ToSet(Handed(m, s)) = ToSet(s) /\ Distinct(Handed(m, s))
                         /\ \A L : NewerFirst(s, L) => NewerFirst(Handed(m, s), L)
    BY HandedLists
  <2> QED
    BY <1>a, <1>4, <1>6, <2>1
<1>8. ToSet(temp[l]) \cap live \subseteq S
  BY <1>2, <1>3 DEF QueueInv, Listed
<1>9. NewerFirst(f, live)
  <2> SUFFICES ASSUME NEW i \in DOMAIN f, NEW j \in DOMAIN f, i < j, f[i] \in live
               PROVE  f[i] > f[j]
    BY DEF NewerFirst
  <2>1. f[i] \in ToSet(f)
    BY DEF ToSet
  <2>2. f[i] \in S
    BY <1>4, <1>8, <2>1
  <2> QED
    BY <1>4, <2>2
<1>10. Listed' \subseteq Listed \cup S
  <2>1. ASSUME NEW m \in DOMAIN temp
        PROVE  ToSet(temp'[m]) \subseteq ToSet(temp[m]) \cup ToSet(temp[l]) \cup S
    BY <1>4, <1>5, <2>1
  <2>2. ToSet(shown') \subseteq ToSet(temp[l]) \cup S
    BY <1>4, <1>7
  <2> QED
    BY <1>3, <1>5, <2>1, <2>2 DEF Listed
<1>11. S \subseteq ToSet(shown')
  BY <1>4, <1>7
<1>12. ListsInv'
  <2>1. \A m \in DOMAIN temp' : Distinct(temp'[m])
    BY <1>4, <1>5 DEF ListsInv
  <2>2. NewerFirst(shown', live')
    BY <1>1, <1>7, <1>9
  <2> QED
    BY <1>7, <2>1, <2>2 DEF ListsInv, Distinct, NewerFirst
<1> QED
  BY <1>1, <1>2, <1>3, <1>10, <1>11, <1>12

LEMMA InvStep ==
  ASSUME CommentsInv, [Next]_vars
  PROVE  (QueueInv /\ ListsInv /\ RowsMatch)'
<1> USE DEF CommentsInv
<1> DEFINE Goal == (QueueInv /\ ListsInv /\ RowsMatch)'
<1> SUFFICES Goal
  BY DEF Goal
<1> HIDE DEF Goal
<1>signed. unsigned # {} => unsigned' # {}
  BY UnsignedStay DEF TypeInv
<1>0. /\ posted \in Nat /\ live \subseteq 1..posted /\ pending \subseteq 1..posted
      /\ shown \in Seq(1..posted) /\ table \in Seq(1..posted)
      /\ temp \in Seq(Seq(1..posted))
      /\ pending \cap live = {}
  BY DEF TypeInv, TypeOK, QueueInv
<1>1. /\ DOMAIN shown = 1..Len(shown) /\ Len(shown) \in Nat /\ ToSet(shown) \subseteq 1..posted
      /\ \A i \in DOMAIN shown : shown[i] \in 1..posted /\ shown[i] \in ToSet(shown)
      /\ DOMAIN table = 1..Len(table) /\ Len(table) \in Nat
  BY <1>0, ListedType DEF ToSet
<1>2. \A i \in 1..posted : i \in Ids
  BY CommentsAssumption DEF Ids, TypeInv, TypeOK
<1>3. UNCHANGED <<temp, shown>> => Listed' = Listed
  BY DEF Listed
<1>4. ASSUME NEW signed \in BOOLEAN, Post(signed)
      PROVE  Goal
  <2>1. posted' = posted + 1 /\ live' = live \cup {posted'} /\ posted < MaxComments
        /\ UNCHANGED <<temp, pending, acked, shown, table, crashed>>
    BY <1>4 DEF Post, screen
  <2>2. live' \subseteq 1..posted' /\ live' \in SUBSET Ids
    BY <1>0, <1>2, <2>1, CommentsAssumption DEF Ids
  <2>3. PICK tail \in Seq(Events) :
           /\ mainQueue' = mainQueue \o tail /\ tail # <<>>
           /\ \A i \in DOMAIN tail : /\ tail[i].kind = "snapshot" /\ tail[i].of \in DOMAIN temp
                                     /\ tail[i].docs = live'
    BY <1>4, <2>2, NotifyType DEF Post
  <2>4. posted' \in Nat /\ posted <= posted' /\ posted' \notin 1..posted
    BY <1>0, <2>1
  <2>5. live' \cap 1..posted \subseteq live /\ pending' \cap live' = {}
    BY <1>0, <2>1, <2>4
  <2>6. QueueInv'
    <3>1. /\ DOMAIN temp \subseteq DOMAIN temp' /\ Listed' \subseteq Listed
          /\ \A i \in DOMAIN tail : /\ tail[i].kind = "snapshot" /\ tail[i].of \in DOMAIN temp'
                                    /\ tail[i].docs = live'
      BY <1>3, <2>1, <2>3
    <3> QED
      BY <2>2, <2>3, <2>4, <2>5, <3>1, QueueInvLonger
  <2>7. live' \cap ToSet(shown) \subseteq live
    BY <1>1, <2>5
  <2>8. NewerFirst(shown, live')
    BY <2>7, NewerFirstFewer DEF ListsInv
  <2>9. ListsInv'
    BY <2>1, <2>8 DEF ListsInv, Distinct, NewerFirst
  <2>10. RowsMatch'
    BY <1>signed, <2>1 DEF RowsMatch
  <2> QED
    BY <2>6, <2>9, <2>10 DEF Goal
<1>5. ASSUME NEW c \in live, RemoteDelete(c)
      PROVE  Goal
  <2>1. posted' = posted /\ live' = live \ {c}
        /\ UNCHANGED <<temp, pending, acked, shown, table, crashed>>
    BY <1>5 DEF RemoteDelete, screen
  <2>2. live' \subseteq 1..posted' /\ live' \in SUBSET Ids
    BY <1>0, <1>2, <2>1
  <2>3. PICK tail \in Seq(Events) :
           /\ mainQueue' = mainQueue \o tail /\ tail # <<>>
           /\ \A i \in DOMAIN tail : /\ tail[i].kind = "snapshot" /\ tail[i].of \in DOMAIN temp
                                     /\ tail[i].docs = live'
    BY <1>5, <2>2, NotifyType DEF RemoteDelete
  <2>4. posted' \in Nat /\ posted <= posted'
        /\ live' \cap 1..posted \subseteq live /\ pending' \cap live' = {}
    BY <1>0, <2>1
  <2>6. QueueInv'
    <3>1. /\ DOMAIN temp \subseteq DOMAIN temp' /\ Listed' \subseteq Listed
          /\ \A i \in DOMAIN tail : /\ tail[i].kind = "snapshot" /\ tail[i].of \in DOMAIN temp'
                                    /\ tail[i].docs = live'
      BY <1>3, <2>1, <2>3
    <3> QED
      BY <2>2, <2>3, <2>4, <3>1, QueueInvLonger
  <2>8. NewerFirst(shown, live')
    <3>1. live' \cap ToSet(shown) \subseteq live
      BY <2>1
    <3> QED
      BY <3>1, NewerFirstFewer DEF ListsInv
  <2>9. ListsInv'
    BY <2>1, <2>8 DEF ListsInv, Distinct, NewerFirst
  <2>10. RowsMatch'
    BY <1>signed, <2>1 DEF RowsMatch
  <2> QED
    BY <2>6, <2>9, <2>10 DEF Goal
<1>6. ASSUME NEW c \in pending, Acknowledge(c)
      PROVE  Goal
  <2> DEFINE q == mainQueue
  <2>1. Ack(c) \in Events /\ Ack(c).kind = "ack" /\ Ack(c).of = c
    BY <1>0, <1>2 DEF Ack, Events
  <2>2. UNCHANGED <<posted, live, temp, acked, shown, table, crashed>>
        /\ mainQueue' = Append(q, Ack(c)) /\ pending' = pending \ {c}
    BY <1>6 DEF Acknowledge, screen
  <2>3. /\ DOMAIN mainQueue' = 1..Len(q) + 1
        /\ Len(q) \in Nat /\ DOMAIN q = 1..Len(q)
        /\ mainQueue'[Len(q) + 1] = Ack(c) /\ \A i \in 1..Len(q) : mainQueue'[i] = q[i]
    BY <2>1, <2>2, AppendProperties, LenProperties DEF TypeInv, TypeOK
  <2>4. /\ \A i \in DOMAIN mainQueue' : \/ i \in DOMAIN q /\ mainQueue'[i] = q[i]
                                        \/ mainQueue'[i] = Ack(c)
        /\ \A i \in DOMAIN q : i \in DOMAIN mainQueue' /\ mainQueue'[i] = q[i]
    BY <2>3
  <2>5. /\ \A i \in DOMAIN mainQueue' : mainQueue'[i].kind = "snapshot" => i \in DOMAIN q /\ News(i)
        /\ \A i \in DOMAIN q : News(i) => mainQueue'[i].kind = "snapshot"
    BY <2>1, <2>4 DEF News
  <2>6. \A i \in DOMAIN mainQueue' : mainQueue'[i].kind # "snapshot" => mainQueue'[i].of \notin live'
    BY <1>0, <2>1, <2>2, <2>4 DEF QueueInv, News
  <2>7. /\ \A i \in DOMAIN mainQueue' : mainQueue'[i].kind = "snapshot" =>
             Listed' \cap live' \subseteq mainQueue'[i].docs
        /\ (\A i \in DOMAIN mainQueue' : mainQueue'[i].kind # "snapshot") =>
             live' \subseteq ToSet(shown')
    BY <1>3, <2>2, <2>4, <2>5 DEF QueueInv
  <2>8. \A i, j \in DOMAIN mainQueue' :
          mainQueue'[i].kind = "snapshot" /\ mainQueue'[j].kind = "snapshot" /\ i < j =>
            mainQueue'[i].docs \cap live' \subseteq mainQueue'[j].docs
    BY <2>2, <2>4, <2>5 DEF QueueInv
  <2>9. ASSUME NEW i \in DOMAIN mainQueue', mainQueue'[i].kind = "snapshot",
               \A j \in DOMAIN mainQueue' : i < j => mainQueue'[j].kind # "snapshot"
        PROVE  live' \subseteq mainQueue'[i].docs
    <3>1. i \in DOMAIN q /\ News(i) /\ \A j \in DOMAIN q : i < j => ~News(j)
      BY <2>4, <2>5, <2>9
    <3> QED
      BY <2>2, <2>4, <3>1 DEF QueueInv
  <2>10. pending' \cap live' = {}
    BY <1>0, <2>2
  <2>11. QueueInv'
    BY <2>6, <2>7, <2>8, <2>9, <2>10 DEF QueueInv, News
  <2>12. (ListsInv /\ RowsMatch)'
    BY <1>signed, <2>2 DEF ListsInv, Distinct, NewerFirst, RowsMatch
  <2> QED
    BY <2>11, <2>12 DEF Goal
<1>7. CASE ScrollToEnd
  <2>1. UNCHANGED <<posted, live, pending, acked, shown, table, crashed>>
        /\ temp' = Append(temp, shown) /\ mainQueue' = Append(mainQueue, Snap(Len(temp'), live))
        /\ Len(temp) < MaxListeners
    BY <1>7 DEF ScrollToEnd, data
  <2>2. /\ Len(temp') = Len(temp) + 1 /\ Len(temp) \in Nat
        /\ DOMAIN temp' = 1..Len(temp) + 1 /\ DOMAIN temp = 1..Len(temp)
        /\ temp'[Len(temp) + 1] = shown /\ \A l \in 1..Len(temp) : temp'[l] = temp[l]
    BY <1>0, <2>1, AppendProperties, LenProperties
  <2>3. Len(temp') \in Listeners /\ Len(temp') \in DOMAIN temp' /\ DOMAIN temp \subseteq DOMAIN temp'
    BY <2>1, <2>2, CommentsAssumption DEF Listeners
  <2>4. \A l \in DOMAIN temp' : (l \in DOMAIN temp /\ temp'[l] = temp[l]) \/ temp'[l] = shown
    BY <2>2
  <2> DEFINE e == Snap(Len(temp'), live)
  <2>5. live \in SUBSET Ids
    BY <1>0, <1>2
  <2>6. e \in Events /\ e.kind = "snapshot" /\ e.of \in DOMAIN temp' /\ e.docs = live'
    BY <2>1, <2>3, <2>5, SnapType
  <2>7. mainQueue' = Append(mainQueue, e)
    BY <2>1
  <2> HIDE DEF e
  <2>8. mainQueue' = mainQueue \o <<e>>
    BY <2>6, <2>7, AppendIsConcat DEF TypeInv, TypeOK
  <2> DEFINE tail == <<e>>
  <2>9. /\ tail \in Seq(Events) /\ mainQueue' = mainQueue \o tail /\ tail # <<>>
        /\ \A i \in DOMAIN tail : /\ tail[i].kind = "snapshot" /\ tail[i].of \in DOMAIN temp'
                                  /\ tail[i].docs = live'
    BY <2>6, <2>8
  <2> HIDE DEF tail
  <2>10. Listed' \subseteq Listed
    BY <2>1, <2>4 DEF Listed
  <2>11. /\ posted' \in Nat /\ posted <= posted' /\ live' \subseteq 1..posted'
         /\ live' \cap 1..posted \subseteq live /\ pending' \cap live' = {}
    BY <1>0, <2>1
  <2>12. QueueInv'
    BY <2>3, <2>9, <2>10, <2>11, QueueInvLonger
  <2>13. ListsInv'
    BY <2>1, <2>4 DEF ListsInv, Distinct, NewerFirst
  <2>14. RowsMatch'
    BY <1>signed, <2>1 DEF RowsMatch
  <2> QED
    BY <2>12, <2>13, <2>14 DEF Goal
<1>8. ASSUME NEW i \in DOMAIN table, RowAgain(i)
      PROVE  Goal
  <2>1. UNCHANGED <<posted, live, pending, temp, mainQueue, acked, shown>>
    BY <1>8 DEF RowAgain, data
  <2>2. QueueInv'
    BY <1>0, <1>3, <2>1, QueueInvKept
  <2>3. ListsInv'
    BY <2>1 DEF ListsInv, Distinct, NewerFirst
  <2>4. RowsMatch'
    <3> SUFFICES ASSUME acked = {} PROVE table' = shown /\ ~crashed'
      BY <2>1 DEF RowsMatch
    <3>1. table = shown /\ ~crashed
      BY <1>8 DEF RowsMatch, RowAgain
    <3>2. i <= Len(shown)
      BY <1>1, <3>1
    <3>3. table' = [table EXCEPT ![i] = shown[i]] /\ crashed' = crashed
      BY <1>8, <3>2 DEF RowAgain
    <3>4. [shown EXCEPT ![i] = shown[i]] = shown
      BY <1>0, <1>1, <3>1
    <3> QED
      BY <3>1, <3>3, <3>4
  <2> QED
    BY <2>2, <2>3, <2>4 DEF Goal
<1>9. ASSUME NEW i \in DOMAIN table, Delete(i)
      PROVE  Goal
  <2> DEFINE c == shown[i]
  <2>1. /\ UNCHANGED <<posted, temp, acked>>
        /\ live' = live \ {c} /\ pending' = pending \cup {c}
        /\ shown' = Without(shown, c) /\ table' = RemoveAt(table, i)
        /\ crashed' = (Len(shown') # Len(table'))
        /\ mainQueue' = IF c \in live THEN Notify(mainQueue, live') ELSE mainQueue
    BY <1>9 DEF Delete
  <2>2. i \in DOMAIN shown /\ c \in 1..posted
    BY <1>1, <1>9 DEF Delete
  <2> HIDE DEF c
  <2>3. /\ ToSet(shown') = ToSet(shown) \ {c} /\ Distinct(shown')
        /\ NewerFirst(shown', live)
    BY <2>1, WithoutLists DEF ListsInv
  <2>4. Listed' \subseteq Listed
    BY <2>1, <2>3 DEF Listed
  <2>5. QueueInv'
    <3>1. CASE c \in live
      <4>1. live' \subseteq 1..posted' /\ live' \in SUBSET Ids
        BY <1>0, <1>2, <2>1
      <4>2. PICK tail \in Seq(Events) :
           /\ mainQueue' = mainQueue \o tail /\ tail # <<>>
           /\ \A j \in DOMAIN tail : /\ tail[j].kind = "snapshot" /\ tail[j].of \in DOMAIN temp
                                     /\ tail[j].docs = live'
        BY <2>1, <3>1, <4>1, NotifyType
      <4>3. /\ posted' \in Nat /\ posted <= posted' /\ DOMAIN temp \subseteq DOMAIN temp'
            /\ live' \cap 1..posted \subseteq live /\ pending' \cap live' = {}
        <5>1. posted' = posted /\ temp' = temp /\ live' = live \ {c} /\ pending' = pending \cup {c}
          BY <2>1
        <5>2. pending' \cap live' = {}
          BY <1>0, <5>1
        <5> QED
          BY <1>0, <5>1, <5>2
      <4>4. \A j \in DOMAIN tail : /\ tail[j].kind = "snapshot" /\ tail[j].of \in DOMAIN temp'
                                   /\ tail[j].docs = live'
        BY <2>1, <4>2
      <4> QED
        BY <2>4, <4>1, <4>2, <4>3, <4>4, QueueInvLonger
    <3>2. CASE c \notin live
      <4>1. UNCHANGED <<mainQueue, live>> /\ pending' \cap live = {}
            /\ ToSet(shown) \cap live \subseteq ToSet(shown')
        BY <1>0, <2>1, <2>3, <3>2
      <4> QED
        BY <2>4, <4>1, QueueInvKept
    <3> QED
      BY <3>1, <3>2
  <2>6. NewerFirst(shown', live')
    <3>1. live' \cap ToSet(shown') \subseteq live
      BY <2>1
    <3> QED
      BY <2>3, <3>1, NewerFirstFewer
  <2>7. ListsInv'
    BY <2>1, <2>3, <2>6 DEF ListsInv, Distinct, NewerFirst
  <2>8. RowsMatch'
    <3> SUFFICES ASSUME acked = {} PROVE table' = shown' /\ ~crashed'
      BY <2>1 DEF RowsMatch
    <3>1. table = shown
      BY DEF RowsMatch
    <3>2. Without(shown, shown[i]) = RemoveAt(shown, i)
      BY <1>0, <2>2, WithoutOne DEF ListsInv
    <3> QED
      BY <2>1, <3>1, <3>2 DEF c
  <2> QED
    BY <2>5, <2>7, <2>8 DEF Goal
<1>10. ASSUME NEW i \in DOMAIN table, DeleteCrashes(i)
       PROVE  Goal
  <2>1. UNCHANGED <<posted, live, pending, temp, mainQueue, acked, shown, table>>
        /\ i > Len(shown)
    BY <1>10 DEF DeleteCrashes, data, screen
  <2>2. QueueInv'
    BY <1>0, <1>3, <2>1, QueueInvKept
  <2>3. ListsInv'
    BY <2>1 DEF ListsInv, Distinct, NewerFirst
  <2>4. acked # {}
    BY <1>1, <2>1 DEF RowsMatch
  <2> QED
    BY <2>1, <2>2, <2>3, <2>4 DEF Goal, RowsMatch
<1>11. CASE Snapshot
  <2> DEFINE S == mainQueue[1].docs
  <2>1. /\ mainQueue # <<>> /\ mainQueue' = Tail(mainQueue) /\ 1 \in DOMAIN mainQueue /\ News(1)
        /\ Listed' \subseteq Listed \cup S /\ S \subseteq ToSet(shown')
        /\ ListsInv' /\ table' = shown'
    BY <1>11, SnapshotLists
  <2>2. UNCHANGED <<live, pending, acked, crashed>>
    BY <1>11 DEF Snapshot, data
  <2>3. ASSUME NEW i \in DOMAIN mainQueue, i > 1, News(i)
        PROVE  Listed' \cap live \subseteq mainQueue[i].docs
    <3>1. Listed \cap live \subseteq mainQueue[i].docs
      BY <2>3 DEF QueueInv
    <3>2. 1 < i
      BY <2>3, QueueTail, <2>1
    <3>3. S \cap live \subseteq mainQueue[i].docs
      BY <2>1, <2>3, <3>2 DEF QueueInv
    <3> QED
      BY <2>1, <3>1, <3>3
  <2>4. ASSUME \A i \in DOMAIN mainQueue : i > 1 => ~News(i)
        PROVE  live \subseteq ToSet(shown')
    <3>1. \A i \in DOMAIN mainQueue : 1 < i => i > 1
      BY <2>1, QueueTail
    <3>2. live \subseteq S
      BY <2>1, <2>4, <3>1 DEF QueueInv
    <3> QED
      BY <2>1, <3>2
  <2>5. QueueInv'
    BY <2>1, <2>2, <2>3, <2>4, QueueInvShorter
  <2>6. RowsMatch'
    BY <1>signed, <2>1, <2>2 DEF RowsMatch
  <2> QED
    BY <2>1, <2>5, <2>6 DEF Goal
<1>12. CASE Completed
  <2> DEFINE c == Head(mainQueue).of
  <2>1. /\ UNCHANGED <<live, pending, temp>>
        /\ mainQueue # <<>> /\ mainQueue' = Tail(mainQueue)
        /\ shown' = Without(shown, c) /\ acked' = acked \cup {c}
        /\ Head(mainQueue).kind = "ack"
    BY <1>12 DEF Completed, data
  <2>2. Head(mainQueue) = mainQueue[1] /\ 1 \in DOMAIN mainQueue
    BY <2>1, QueueTail
  <2>3. ~News(1) /\ c \notin live
    BY <2>1, <2>2 DEF QueueInv, News
  <2> HIDE DEF c
  <2>4. /\ ToSet(shown') = ToSet(shown) \ {c} /\ Distinct(shown')
        /\ NewerFirst(shown', live)
    BY <2>1, WithoutLists DEF ListsInv
  <2>5. Listed' \subseteq Listed
    BY <2>1, <2>4 DEF Listed
  <2>6. \A i \in DOMAIN mainQueue : i > 1 /\ News(i) => Listed' \cap live \subseteq mainQueue[i].docs
    BY <2>5 DEF QueueInv
  <2>7. ASSUME \A i \in DOMAIN mainQueue : i > 1 => ~News(i)
        PROVE  live \subseteq ToSet(shown')
    <3>1. \A i \in DOMAIN mainQueue : i = 1 \/ i > 1
      BY <2>1, QueueTail
    <3>2. live \subseteq ToSet(shown)
      BY <2>3, <2>7, <3>1 DEF QueueInv
    <3> QED
      BY <2>3, <2>4, <3>2
  <2>8. QueueInv'
    BY <2>1, <2>6, <2>7, QueueInvShorter
  <2>9. ListsInv'
    BY <2>1, <2>4 DEF ListsInv, Distinct, NewerFirst
  <2>10. RowsMatch'
    BY <1>signed, <2>1 DEF RowsMatch
  <2> QED
    BY <2>8, <2>9, <2>10 DEF Goal
<1>13. CASE SnapshotCrashes
  <2>1. UNCHANGED <<posted, live, unsigned, pending, temp, mainQueue, acked, shown, table>>
        /\ unsigned # {}
    BY <1>13 DEF SnapshotCrashes, Senderless, data, screen
  <2>2. QueueInv'
    BY <1>0, <1>3, <2>1, QueueInvKept
  <2>3. ListsInv'
    BY <2>1 DEF ListsInv, Distinct, NewerFirst
  <2> QED
    BY <2>1, <2>2, <2>3 DEF Goal, RowsMatch
<1>14. CASE UNCHANGED vars
  BY <1>14 DEF vars, Goal, QueueInv, News, Listed, ListsInv, Distinct, NewerFirst, RowsMatch
<1>15. Goal
  BY <1>4, <1>5, <1>6, <1>7, <1>8, <1>9, <1>10, <1>11, <1>12, <1>13, <1>14 DEF Next
<1> QED
  BY <1>15

LEMMA InvInitially == Init => CommentsInv
<1> SUFFICES ASSUME Init PROVE CommentsInv
  OBVIOUS
<1>1. TypeInv
  BY TypeInitially
<1>2. /\ temp = << <<>> >> /\ shown = <<>> /\ table = <<>> /\ pending = {} /\ ~crashed
      /\ mainQueue = <<Snap(1, live)>>
  BY DEF Init
<1>3. DOMAIN mainQueue = {1} /\ mainQueue[1].kind = "snapshot" /\ mainQueue[1].docs = live
  BY <1>2 DEF Snap
<1>4. DOMAIN temp = {1} /\ temp[1] = <<>> /\ DOMAIN <<>> = {}
  BY <1>2
<1>5. Listed = {}
  BY <1>2, <1>4 DEF Listed, ToSet
<1>6. QueueInv
  BY <1>2, <1>3, <1>5 DEF QueueInv, News
<1>7. ListsInv
  BY <1>2, <1>4 DEF ListsInv, Distinct, NewerFirst
<1> QED
  BY <1>1, <1>2, <1>6, <1>7 DEF CommentsInv, RowsMatch

THEOREM CommentsInvariant == Spec => []CommentsInv
<1>1. CommentsInv /\ [Next]_vars => CommentsInv'
  <2> SUFFICES ASSUME CommentsInv, [Next]_vars PROVE CommentsInv'
    OBVIOUS
  <2> QED
    BY TypeStep, InvStep DEF CommentsInv
<1> QED
  BY <1>1, InvInitially, PTL DEF Spec

\* Every variable keeps its type.
THEOREM TypeCorrect == Spec => []TypeOK
<1>1. CommentsInv => TypeOK
  BY DEF CommentsInv, TypeInv
<1> QED
  BY <1>1, CommentsInvariant, PTL

\* Until the completion of a deletion runs, the rows are the array and the app traps
\* only on a comment without a sender (RowsMatch).
THEOREM RowsHold == Spec => []RowsMatch
<1>1. CommentsInv => RowsMatch
  BY DEF CommentsInv
<1> QED
  BY <1>1, CommentsInvariant, PTL

\* No comment is listed twice, and the ones that exist come newest first,
\* whichever listener handed over its list last.
THEOREM OrderHolds == Spec => []InOrder
<1>1. CommentsInv => InOrder
  <2> SUFFICES ASSUME CommentsInv, NEW i \in DOMAIN shown, NEW j \in DOMAIN shown, i < j
               PROVE  /\ shown[i] # shown[j]
                      /\ {shown[i], shown[j]} \subseteq live => shown[i] > shown[j]
    BY DEF InOrder
  <2>1. i # j
    BY ListedType DEF CommentsInv, TypeInv, TypeOK
  <2> QED
    BY <2>1 DEF CommentsInv, ListsInv, Distinct, NewerFirst
<1> QED
  BY <1>1, CommentsInvariant, PTL

\* With no callback waiting, every comment that exists is listed.
THEOREM NothingIsMissing == Spec => []NothingMissing
<1>1. CommentsInv => NothingMissing
  <2> SUFFICES ASSUME CommentsInv, mainQueue = <<>>
               PROVE  live \subseteq ToSet(shown)
    BY DEF NothingMissing
  <2>1. DOMAIN mainQueue = {}
    OBVIOUS
  <2> QED
    BY <2>1 DEF CommentsInv, QueueInv
<1> QED
  BY <1>1, CommentsInvariant, PTL
=============================================================================
