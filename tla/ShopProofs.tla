----------------------------- MODULE ShopProofs -----------------------------
(***************************************************************************)
(* The cart by itself, whatever the catalogue, costs and the limit; then   *)
(* the list and the cart together: whatever the list does, the cart makes  *)
(* steps of Cart, so that all that is proved of Cart holds in the shop.    *)
(*                                                                         *)
(* Four facts about lists of rows carry the proofs of Cart: what replacing *)
(* a row, appending one and taking one out do to a list without repeated   *)
(* names.                                                                  *)
(***************************************************************************)
EXTENDS Shop, TLAPS, SequenceTheorems

(* The cart. *)

\* No name occurs twice.
Unique(rows) == \A i, j \in DOMAIN rows : rows[i].name = rows[j].name => i = j

\* The row of a name is the one with that name.
LEMMA RowFound ==
  ASSUME NEW s \in Seq(Item), Unique(s), NEW i \in 1..Len(s)
  PROVE  /\ s[i].name \in NamesOf(s)
         /\ RowOf(s, s[i].name) = i
         /\ Quantities(s)[s[i].name] = s[i].qty
<1>1. DOMAIN s = 1..Len(s)
  BY LenProperties
<1>2. s[i].name \in NamesOf(s)
  BY <1>1 DEF NamesOf
<1>3. RowOf(s, s[i].name) = i
  BY <1>1 DEF RowOf, Unique
<1> QED
  BY <1>2, <1>3 DEF Quantities

\* A listed name is the name of a row.
LEMMA NameOfRow ==
  ASSUME NEW s \in Seq(Item), NEW n \in NamesOf(s)
  PROVE  \E i \in 1..Len(s) : s[i].name = n
BY LenProperties DEF NamesOf

\* The quantities with one of them set.
Set(q, n, k) == [m \in DOMAIN q \cup {n} |-> IF m = n THEN k ELSE q[m]]

\* Another row of the same name in a row's place.
LEMMA Replaced ==
  ASSUME NEW s \in Seq(Item), Unique(s), NEW i \in 1..Len(s),
         NEW r \in Item, r.name = s[i].name
  PROVE  LET t == [s EXCEPT ![i] = r]
         IN  /\ t \in Seq(Item) /\ Len(t) = Len(s)
             /\ \A j \in 1..Len(s) : t[j] = IF j = i THEN r ELSE s[j]
             /\ Unique(t)
             /\ Quantities(t) = Set(Quantities(s), s[i].name, r.qty)
<1> DEFINE t == [s EXCEPT ![i] = r]
<1>1. /\ t \in Seq(Item) /\ Len(t) = Len(s)
      /\ \A j \in 1..Len(s) : t[j] = IF j = i THEN r ELSE s[j]
  BY ExceptSeq
<1>2. DOMAIN s = 1..Len(s) /\ DOMAIN t = 1..Len(s)
  BY <1>1, LenProperties
<1> HIDE DEF t
<1>3. \A j \in 1..Len(s) : t[j].name = s[j].name
  BY <1>1
<1>4. Unique(t)
  BY <1>2, <1>3 DEF Unique
<1>5. NamesOf(t) = NamesOf(s)
  BY <1>2, <1>3 DEF NamesOf
<1>6. ASSUME NEW n \in NamesOf(s)
      PROVE  Quantities(t)[n] = IF n = s[i].name THEN r.qty ELSE Quantities(s)[n]
  <2>1. PICK j \in 1..Len(s) : s[j].name = n
    BY NameOfRow
  <2>2. Quantities(t)[n] = t[j].qty /\ Quantities(s)[n] = s[j].qty
    BY <1>1, <1>3, <1>4, <2>1, RowFound
  <2>3. n = s[i].name <=> j = i
    BY <1>2, <2>1 DEF Unique
  <2> QED
    BY <1>1, <2>2, <2>3
<1>7. s[i].name \in NamesOf(s)
  BY <1>2 DEF NamesOf
<1>8. Quantities(t) = Set(Quantities(s), s[i].name, r.qty)
  BY <1>5, <1>6, <1>7 DEF Quantities, Set
<1> QED
  BY <1>1, <1>4, <1>8 DEF t

\* A row of a new name at the end.
LEMMA Appended ==
  ASSUME NEW s \in Seq(Item), Unique(s), NEW r \in Item, r.name \notin NamesOf(s)
  PROVE  LET t == Append(s, r)
         IN  /\ t \in Seq(Item) /\ Len(t) = Len(s) + 1
             /\ \A j \in 1..Len(s) + 1 : t[j] = IF j = Len(s) + 1 THEN r ELSE s[j]
             /\ Unique(t)
             /\ Quantities(t) = Set(Quantities(s), r.name, r.qty)
<1> DEFINE t == Append(s, r)
<1>1. /\ t \in Seq(Item) /\ Len(t) = Len(s) + 1
      /\ \A j \in 1..Len(s) + 1 : t[j] = IF j = Len(s) + 1 THEN r ELSE s[j]
  BY AppendProperties, LenProperties
<1>2. /\ Len(s) \in Nat /\ DOMAIN s = 1..Len(s) /\ DOMAIN t = 1..Len(s) + 1
  BY <1>1, LenProperties
<1> HIDE DEF t
<1>3. \A j \in 1..Len(s) : s[j].name \in NamesOf(s)
  BY <1>2 DEF NamesOf
<1>4. Unique(t)
  <2> SUFFICES ASSUME NEW j \in 1..Len(s) + 1, NEW k \in 1..Len(s) + 1,
                      t[j].name = t[k].name
               PROVE  j = k
    BY <1>2 DEF Unique
  <2>1. CASE j \in 1..Len(s) /\ k \in 1..Len(s)
    BY <1>1, <1>2, <2>1 DEF Unique
  <2>2. CASE j = Len(s) + 1 \/ k = Len(s) + 1
    BY <1>1, <1>2, <1>3, <2>2
  <2> QED
    BY <1>2, <2>1, <2>2
<1>5. NamesOf(t) = NamesOf(s) \cup {r.name}
  <2>1. ASSUME NEW n \in NamesOf(t) PROVE n \in NamesOf(s) \cup {r.name}
    BY <1>1, <1>2, <1>3, <2>1 DEF NamesOf
  <2>2. ASSUME NEW n \in NamesOf(s) PROVE n \in NamesOf(t)
    <3>1. PICK j \in 1..Len(s) : s[j].name = n
      BY NameOfRow
    <3>2. j \in 1..Len(s) + 1 /\ t[j] = s[j]
      BY <1>1, <1>2
    <3> QED
      BY <1>2, <3>1, <3>2 DEF NamesOf
  <2>3. r.name \in NamesOf(t)
    <3>1. Len(s) + 1 \in 1..Len(s) + 1
      BY <1>2
    <3> QED
      BY <1>1, <1>2, <3>1 DEF NamesOf
  <2> QED
    BY <2>1, <2>2, <2>3
<1>6. ASSUME NEW n \in NamesOf(t)
      PROVE  Quantities(t)[n] = IF n = r.name THEN r.qty ELSE Quantities(s)[n]
  <2>1. PICK j \in 1..Len(s) + 1 : t[j].name = n
    BY <1>1, NameOfRow
  <2>2. Quantities(t)[n] = t[j].qty
    BY <1>1, <1>4, <2>1, RowFound
  <2>3. CASE j = Len(s) + 1
    BY <1>1, <2>1, <2>2, <2>3
  <2>4. CASE j \in 1..Len(s)
    <3>1. t[j] = s[j]
      BY <1>1, <1>2, <2>4
    <3>2. Quantities(s)[n] = s[j].qty
      BY <2>1, <2>4, <3>1, RowFound
    <3>3. n # r.name
      BY <1>3, <2>1, <2>4, <3>1
    <3> QED
      BY <2>2, <3>1, <3>2, <3>3
  <2> QED
    BY <1>2, <2>3, <2>4
<1>7. Quantities(t) = Set(Quantities(s), r.name, r.qty)
  BY <1>5, <1>6 DEF Quantities, Set
<1> QED
  BY <1>1, <1>4, <1>7 DEF t

\* The rows after row i.
LEMMA RowsAfter ==
  ASSUME NEW S, NEW s \in Seq(S), NEW n \in Nat, n = Len(s), NEW i \in 1..n
  PROVE  LET v == SubSeq(s, i + 1, n)
         IN  v \in Seq(S) /\ Len(v) = n - i /\ \A j \in 1..n - i : v[j] = s[i + j]
<1> DEFINE v == SubSeq(s, i + 1, n)
<1>1. \A j \in i + 1..n : s[j] \in S
  BY ElementOfSeq
<1> HIDE DEF v
<1>2. /\ v \in Seq(S)
      /\ Len(v) = IF i + 1 <= n THEN n - (i + 1) + 1 ELSE 0
      /\ \A j \in 1..n - (i + 1) + 1 : v[j] = s[i + 1 + j - 1]
  BY <1>1, SubSeqProperties DEF v
<1>3. /\ n - (i + 1) + 1 = n - i
      /\ i + 1 <= n \/ n - i = 0
  OBVIOUS
<1>4. Len(v) = n - i
  BY <1>2, <1>3
<1>5. ASSUME NEW j \in 1..n - i
      PROVE  v[j] = s[i + j]
  <2>1. i + 1 + j - 1 = i + j
    OBVIOUS
  <2>2. v[j] = s[i + 1 + j - 1]
    BY <1>2, <1>3
  <2> QED
    BY <2>1, <2>2
<1> QED
  BY <1>2, <1>4, <1>5 DEF v

\* A row taken out.
LEMMA TakenOut ==
  ASSUME NEW s \in Seq(Item), Unique(s), NEW i \in 1..Len(s)
  PROVE  LET t == RemoveAt(s, i)
         IN  /\ t \in Seq(Item) /\ Len(t) = Len(s) - 1
             /\ \A j \in 1..Len(s) - 1 : t[j] = IF j < i THEN s[j] ELSE s[j + 1]
             /\ Unique(t)
             /\ Quantities(t) = [m \in DOMAIN Quantities(s) \ {s[i].name} |-> Quantities(s)[m]]
<1> DEFINE u == SubSeq(s, 1, i - 1)
           v == SubSeq(s, i + 1, Len(s))
           t == RemoveAt(s, i)
<1>1. Len(s) \in Nat /\ DOMAIN s = 1..Len(s) /\ i \in Int
  BY LenProperties
<1>2. /\ u \in Seq(Item) /\ Len(u) = i - 1
      /\ \A j \in 1..i - 1 : u[j] = s[j]
  <2>1. \A j \in 1..i - 1 : s[j] \in Item
    BY <1>1, ElementOfSeq
  <2> QED
    BY <1>1, <2>1, SubSeqProperties
<1>3. /\ v \in Seq(Item) /\ Len(v) = Len(s) - i
      /\ \A j \in 1..Len(s) - i : v[j] = s[i + j]
  BY <1>1, RowsAfter
<1>4. t = u \o v
  BY DEF RemoveAt
<1> HIDE DEF t, u, v
<1>5. /\ t \in Seq(Item) /\ Len(t) = Len(s) - 1
      /\ \A j \in 1..Len(s) - 1 : t[j] = IF j < i THEN s[j] ELSE s[j + 1]
  <2>1. /\ t \in Seq(Item) /\ Len(t) = Len(u) + Len(v)
        /\ \A j \in 1..Len(u) + Len(v) : t[j] = IF j <= Len(u) THEN u[j] ELSE v[j - Len(u)]
    BY <1>2, <1>3, <1>4, ConcatProperties
  <2>2. Len(u) + Len(v) = Len(s) - 1
    BY <1>1, <1>2, <1>3
  <2>3. ASSUME NEW j \in 1..Len(s) - 1
        PROVE  t[j] = IF j < i THEN s[j] ELSE s[j + 1]
    <3>1. CASE j < i
      <4>1. j <= Len(u) /\ j \in 1..i - 1
        BY <1>1, <1>2, <3>1
      <4> QED
        BY <1>2, <2>1, <2>2, <3>1, <4>1
    <3>2. CASE ~(j < i)
      <4>1. ~(j <= Len(u)) /\ j - Len(u) = j - i + 1 /\ j - i + 1 \in 1..Len(s) - i
        BY <1>1, <1>2, <3>2
      <4>2. v[j - i + 1] = s[j + 1]
        <5>1. i + (j - i + 1) = j + 1
          BY <1>1
        <5> QED
          BY <1>3, <4>1, <5>1
      <4> QED
        BY <2>1, <2>2, <3>2, <4>1, <4>2
    <3> QED
      BY <3>1, <3>2
  <2> QED
    BY <2>1, <2>2, <2>3
<1>6. DOMAIN t = 1..Len(s) - 1
  BY <1>5, LenProperties
\* Where row j of t was in s.
<1> DEFINE old(j) == IF j < i THEN j ELSE j + 1
<1>7. \A j \in 1..Len(s) - 1 : old(j) \in 1..Len(s) /\ old(j) # i /\ t[j] = s[old(j)]
  BY <1>1, <1>5
<1>8. Unique(t)
  <2> SUFFICES ASSUME NEW j \in 1..Len(s) - 1, NEW k \in 1..Len(s) - 1,
                      t[j].name = t[k].name
               PROVE  j = k
    BY <1>6 DEF Unique
  <2>1. old(j) = old(k)
    <3> HIDE DEF old
    <3> QED
      BY <1>1, <1>7 DEF Unique
  <2> QED
    BY <1>1, <2>1
<1>9. ASSUME NEW n \in NamesOf(t)
      PROVE  n \in NamesOf(s) \ {s[i].name} /\ Quantities(t)[n] = Quantities(s)[n]
  <2>1. PICK j \in 1..Len(s) - 1 : t[j].name = n
    BY <1>5, NameOfRow
  <2>2. Quantities(t)[n] = t[j].qty
    BY <1>5, <1>8, <2>1, RowFound
  <2> HIDE DEF old
  <2>3. n \in NamesOf(s) /\ Quantities(s)[n] = t[j].qty
    BY <1>7, <2>1, RowFound
  <2>4. n # s[i].name
    BY <1>1, <1>7, <2>1 DEF Unique
  <2> QED
    BY <2>2, <2>3, <2>4
<1>10. ASSUME NEW n \in NamesOf(s) \ {s[i].name}
       PROVE  n \in NamesOf(t)
  <2>1. PICK k \in 1..Len(s) : s[k].name = n
    BY NameOfRow
  <2>2. k # i
    BY <2>1
  <2>3. CASE k < i
    <3>1. k \in 1..Len(s) - 1 /\ t[k] = s[k]
      BY <1>1, <1>5, <2>3
    <3> QED
      BY <1>6, <2>1, <3>1 DEF NamesOf
  <2>4. CASE k > i
    <3>1. k - 1 \in 1..Len(s) - 1 /\ ~(k - 1 < i) /\ (k - 1) + 1 = k
      BY <1>1, <2>4
    <3>2. t[k - 1] = s[k]
      BY <1>5, <3>1
    <3> QED
      BY <1>6, <2>1, <3>1, <3>2 DEF NamesOf
  <2> QED
    BY <1>1, <2>2, <2>3, <2>4
<1>11. Quantities(t) = [m \in DOMAIN Quantities(s) \ {s[i].name} |-> Quantities(s)[m]]
  <2>1. NamesOf(t) = NamesOf(s) \ {s[i].name}
    BY <1>9, <1>10
  <2>2. DOMAIN Quantities(s) = NamesOf(s)
    BY DEF Quantities
  <2>3. Quantities(t) = [m \in NamesOf(t) |-> Quantities(t)[m]]
    BY DEF Quantities
  <2> QED
    BY <1>9, <2>1, <2>2, <2>3
<1> QED
  BY <1>5, <1>8, <1>11 DEF t

-----------------------------------------------------------------------------
(* The invariant, and what a step does to the rows. *)

\* A total made of the row's own cost.
AtOwnCost(r) == \E q \in 0..Limit : r.total = q * r.cost

CartInv == TypeOK /\ Unique(cart) /\ TotalAtOwnCost

\* One more below the limit, and one less above zero, are quantities.
LEMMA Countable ==
  ASSUME NEW q \in 0..Limit
  PROVE  /\ q < Limit => q + 1 \in 0..Limit
         /\ q # 0 => q - 1 \in 0..Limit
<1>1. Limit \in Int
  BY CartAssumption
<1> QED
  BY <1>1

\* A row counted anew is a row at its own cost.
LEMMA CountedRow ==
  ASSUME NEW r \in Item, NEW q \in 0..Limit
  PROVE  /\ Counted(r, q) \in Item /\ AtOwnCost(Counted(r, q))
         /\ Counted(r, q).name = r.name /\ Counted(r, q).cost = r.cost
<1>1. r.cost \in Costs /\ r.cost \in Nat
  BY CartAssumption DEF Item
<1>2. q * r.cost \in Nat
  BY <1>1
<1>3. Counted(r, q) \in Item
  BY <1>2 DEF Counted, Item
<1>4. /\ Counted(r, q).name = r.name
      /\ Counted(r, q).cost = r.cost
      /\ Counted(r, q).total = q * r.cost
  BY DEF Counted, Item
<1> QED
  BY <1>3, <1>4 DEF AtOwnCost

\* What the rows are after a step: the same, or one replaced by another of its
\* name and cost, one more of a new name, the one in the detail, or one fewer that
\* counted nothing.
Effect ==
  \/ cart' = cart
  \/ \E i \in 1..Len(cart), r \in Item :
       /\ r.name = cart[i].name /\ r.cost = cart[i].cost
       /\ AtOwnCost(r) /\ cart' = [cart EXCEPT ![i] = r]
  \/ \E r \in Item :
       /\ r.name \notin NamesOf(cart) /\ r.qty # 0 /\ AtOwnCost(r)
       /\ screen = "detail" /\ r.name = opened.name /\ r.cost = opened.cost
       /\ cart' = Append(cart, r)
  \/ \E i \in 1..Len(cart) : cart[i].qty = 0 /\ cart' = RemoveAt(cart, i)

LEMMA StepEffect ==
  ASSUME CartInv, [Next]_vars
  PROVE  Effect
<1>1. /\ cart \in Seq(Item) /\ opened \in Piece /\ label \in 0..Limit
      /\ Unique(cart) /\ DOMAIN cart = 1..Len(cart)
  BY LenProperties DEF CartInv, TypeOK
<1>2. \A i \in 1..Len(cart) : cart[i] \in Item /\ AtOwnCost(cart[i])
  BY <1>1, ElementOfSeq DEF CartInv, TotalAtOwnCost, AtOwnCost
<1>3. CASE UNCHANGED cart
  BY <1>3 DEF Effect
<1>4. CASE Requantify
  <2>1. PICK i \in 1..Len(cart) : cart[i].name = opened.name
    BY <1>1, <1>4, NameOfRow DEF Requantify, Listed
  <2>2. RowOf(cart, opened.name) = i
    BY <1>1, <2>1, RowFound
  <2> DEFINE r == [cart[i] EXCEPT !.qty = label]
  <2>3. /\ r \in Item /\ r.name = cart[i].name
        /\ r.total = cart[i].total /\ r.cost = cart[i].cost
    BY <1>1, <1>2 DEF Item
  <2>4. AtOwnCost(r)
    BY <1>2, <2>3 DEF AtOwnCost
  <2>5. cart' = [cart EXCEPT ![i] = r]
    BY <1>4, <2>2 DEF Requantify
  <2> QED
    BY <2>3, <2>4, <2>5 DEF Effect
<1>5. CASE AddNew
  <2> DEFINE r == [name |-> opened.name, cost |-> opened.cost, qty |-> label,
                   total |-> opened.cost * label]
  <2>1. opened.name \in Names /\ opened.cost \in Costs /\ opened.cost \in Nat
    BY <1>1, CartAssumption DEF Piece
  <2>2. opened.cost * label \in Nat /\ opened.cost * label = label * opened.cost
    BY <1>1, <2>1
  <2>3. r \in Item /\ AtOwnCost(r)
    BY <1>1, <2>1, <2>2 DEF Item, AtOwnCost
  <2>4. r.name \notin NamesOf(cart) /\ r.qty # 0
    BY <1>1, <1>5 DEF AddNew, Listed
  <2>5. cart' = Append(cart, r) /\ screen = "detail"
    BY <1>5 DEF AddNew
  <2> QED
    BY <2>3, <2>4, <2>5 DEF Effect
<1>6. ASSUME NEW i \in DOMAIN cart, Plus(i) \/ Minus(i)
      PROVE  Effect
  <2>1. i \in 1..Len(cart) /\ cart[i] \in Item
    BY <1>1, <1>2
  <2>2. cart[i].qty \in 0..Limit
    BY <2>1 DEF Item
  <2>3. PICK q \in 0..Limit : cart' = [cart EXCEPT ![i] = Counted(cart[i], q)]
    <3>1. CASE Plus(i)
      <4>1. cart[i].qty + 1 \in 0..Limit
        BY <2>2, <3>1, Countable DEF Plus
      <4> QED
        BY <3>1, <4>1 DEF Plus
    <3>2. CASE Minus(i)
      <4>1. cart[i].qty - 1 \in 0..Limit
        BY <2>2, <3>2, Countable DEF Minus
      <4> QED
        BY <3>2, <4>1 DEF Minus
    <3> QED
      BY <1>6, <3>1, <3>2
  <2> QED
    BY <2>1, <2>3, CountedRow DEF Effect
<1>7. ASSUME NEW i \in DOMAIN cart, TakeOut(i)
      PROVE  Effect
  BY <1>1, <1>7 DEF TakeOut, Without, Effect
<1> QED
  BY <1>3, <1>4, <1>5, <1>6, <1>7
  DEF Next, vars, Open, Increase, Decrease, Forward, Back, Order

LEMMA CartInitially == Init => CartInv
BY CartAssumption DEF Init, CartInv, TypeOK, Unique, TotalAtOwnCost

\* The label of a screen that appears is a quantity.
LEMMA LabelIsQuantity ==
  ASSUME CartInv, NEW n, NEW old \in 0..Limit
  PROVE  LabelFor(n, old) \in 0..Limit
<1>1. CASE n \in Listed
  <2>1. cart \in Seq(Item) /\ Unique(cart)
    BY DEF CartInv, TypeOK
  <2>2. PICK i \in 1..Len(cart) : cart[i].name = n
    BY <1>1, <2>1, NameOfRow DEF Listed
  <2>3. RowOf(cart, n) = i /\ cart[i] \in Item
    BY <2>1, <2>2, RowFound, ElementOfSeq
  <2> QED
    BY <1>1, <2>3 DEF LabelFor, Item
<1> QED
  BY <1>1 DEF LabelFor

LEMMA CartStep == CartInv /\ [Next]_vars => CartInv'
<1> SUFFICES ASSUME CartInv, [Next]_vars PROVE CartInv'
  OBVIOUS
<1>1. cart \in Seq(Item) /\ Unique(cart) /\ DOMAIN cart = 1..Len(cart)
  BY LenProperties DEF CartInv, TypeOK
<1>2. \A i \in 1..Len(cart) : AtOwnCost(cart[i])
  BY <1>1 DEF CartInv, TotalAtOwnCost, AtOwnCost
<1>3. /\ cart' \in Seq(Item) /\ Unique(cart')
      /\ \A i \in 1..Len(cart') : AtOwnCost(cart'[i])
  <2>1. CASE cart' = cart
    BY <1>1, <1>2, <2>1
  <2>2. ASSUME NEW i \in 1..Len(cart), NEW r \in Item, r.name = cart[i].name,
               AtOwnCost(r), cart' = [cart EXCEPT ![i] = r]
        PROVE  <1>3!:
    BY <1>1, <1>2, <2>2, Replaced
  <2>3. ASSUME NEW r \in Item, r.name \notin NamesOf(cart),
               AtOwnCost(r), cart' = Append(cart, r)
        PROVE  <1>3!:
    BY <1>1, <1>2, <2>3, Appended
  <2>4. ASSUME NEW i \in 1..Len(cart), cart' = RemoveAt(cart, i)
        PROVE  <1>3!:
    <3>1. /\ cart' \in Seq(Item) /\ Unique(cart') /\ Len(cart') = Len(cart) - 1
          /\ \A j \in 1..Len(cart) - 1 : cart'[j] = IF j < i THEN cart[j] ELSE cart[j + 1]
      BY <1>1, <2>4, TakenOut
    <3>2. \A j \in 1..Len(cart) - 1 : j \in 1..Len(cart) /\ j + 1 \in 1..Len(cart)
      BY <1>1, LenProperties
    <3>3. ASSUME NEW j \in 1..Len(cart) - 1 PROVE AtOwnCost(cart'[j])
      BY <1>2, <3>1, <3>2
    <3> QED
      BY <3>1, <3>3
  <2> QED
    BY <2>1, <2>2, <2>3, <2>4, StepEffect DEF Effect
<1>4. Unique(cart)' /\ TotalAtOwnCost'
  BY <1>3, LenProperties DEF Unique, TotalAtOwnCost, AtOwnCost
<1>5. /\ screen' \in {"list", "detail", "cart", "checkout"}
      /\ opened' \in Piece /\ label' \in 0..Limit
  <2>1. opened \in Piece /\ label \in 0..Limit /\ 0 \in 0..Limit
    BY CartAssumption DEF CartInv, TypeOK
  <2>2. \A n : LabelFor(n, 0) \in 0..Limit /\ LabelFor(n, label) \in 0..Limit
    BY <2>1, LabelIsQuantity
  <2>3. CASE Increase \/ Decrease
    BY <2>1, <2>3, CartAssumption DEF Increase, Decrease, CartInv, TypeOK
  <2> QED
    BY <2>1, <2>2, <2>3
    DEF Next, vars, Open, Requantify, AddNew, Plus, Minus, TakeOut, Forward, Back, Order,
        CartInv, TypeOK
<1> QED
  BY <1>3, <1>4, <1>5 DEF CartInv, TypeOK

THEOREM CartInvariant == Spec => []CartInv
BY CartInitially, CartStep, PTL DEF Spec

-----------------------------------------------------------------------------
(* The theorems. *)

\* The state of the three screens keeps its type: a quantity never leaves
\* 0..Limit, on the label or in a row (incrementCounter, Minus, Add).
THEOREM CartTypes == Spec => []TypeOK
BY CartInvariant, PTL DEF CartInv

\* A piece has one row (addToCartBtnAction).
THEOREM OneRowHolds == Spec => []OneRow
<1>1. CartInv => OneRow
  BY DEF CartInv, Unique, OneRow
<1> QED
  BY <1>1, CartInvariant, PTL

\* A total is made of the row's own cost (addToCartBtnAction, Add, Minus).
THEOREM TotalHolds == Spec => []TotalAtOwnCost
BY CartInvariant, PTL DEF CartInv

\* A step of the cart is a step of the basket, or none.
LEMMA BasketStep == CartInv /\ [Next]_vars => [B!Next]_(Quantities(cart))
<1> SUFFICES ASSUME CartInv, [Next]_vars
             PROVE  [B!Next]_(Quantities(cart))
  OBVIOUS
<1>1. cart \in Seq(Item) /\ Unique(cart) /\ DOMAIN cart = 1..Len(cart)
  BY LenProperties DEF CartInv, TypeOK
<1>2. DOMAIN Quantities(cart) = NamesOf(cart)
  BY DEF Quantities
<1>0. Quantities(cart)' = Quantities(cart')
  BY DEF Quantities, NamesOf, RowOf
<1>3. CASE cart' = cart
  BY <1>0, <1>3
<1>4. ASSUME NEW i \in 1..Len(cart), NEW r \in Item, r.name = cart[i].name,
             cart' = [cart EXCEPT ![i] = r]
      PROVE  B!Next
  <2>1. Quantities(cart)' = Set(Quantities(cart), r.name, r.qty)
    <3>1. Quantities([cart EXCEPT ![i] = r]) = Set(Quantities(cart), cart[i].name, r.qty)
      BY <1>1, <1>4, Replaced
    <3> QED
      BY <1>0, <1>4, <3>1
  <2>2. r.name \in Names /\ r.qty \in 0..Limit /\ r.name \in NamesOf(cart)
    BY <1>1, <1>4, RowFound DEF Item
  <2>3. B!Change(r.name, r.qty)
    BY <1>2, <2>1, <2>2 DEF B!Change, B!With, Set
  <2> QED
    BY <2>2, <2>3 DEF B!Next
<1>5. ASSUME NEW r \in Item, r.name \notin NamesOf(cart), r.qty # 0,
             cart' = Append(cart, r)
      PROVE  B!Next
  <2>1. Quantities(cart)' = Set(Quantities(cart), r.name, r.qty)
    BY <1>0, <1>1, <1>5, Appended
  <2>2. r.name \in Names /\ r.qty \in 0..Limit
    BY DEF Item
  <2>3. r.qty \in 1..Limit
    BY <1>5, <2>2
  <2>4. B!Enter(r.name, r.qty)
    BY <1>2, <1>5, <2>1, <2>3 DEF B!Enter, B!With, Set
  <2> QED
    BY <2>2, <2>4 DEF B!Next
<1>6. ASSUME NEW i \in 1..Len(cart), cart[i].qty = 0, cart' = RemoveAt(cart, i)
      PROVE  B!Next
  <2>1. Quantities(cart)'
          = [m \in DOMAIN Quantities(cart) \ {cart[i].name} |-> Quantities(cart)[m]]
    BY <1>0, <1>1, <1>6, TakenOut
  <2>2. cart[i].name \in Names
    <3>1. cart[i] \in Item
      BY <1>1, ElementOfSeq
    <3> QED
      BY <3>1 DEF Item
  <2>3. cart[i].name \in NamesOf(cart) /\ Quantities(cart)[cart[i].name] = 0
    BY <1>1, <1>6, RowFound
  <2>4. B!Leave(cart[i].name)
    BY <1>2, <2>1, <2>3 DEF B!Leave
  <2> QED
    BY <2>2, <2>4 DEF B!Next
<1> QED
  BY <1>3, <1>4, <1>5, <1>6, StepEffect DEF Effect

\* The cart implements the basket (Global.cart).
THEOREM BasketHolds == Spec => BasketSpec
<1>1. Init => B!Init
  BY DEF Init, B!Init, Quantities, NamesOf
<1> QED
  BY <1>1, BasketStep, CartInvariant, PTL DEF Spec, BasketSpec, B!Spec

-----------------------------------------------------------------------------
(* The list and the cart together. *)

\* The rows the list keeps are pieces; the rows of a search are rows of the last
\* reading; the list is not edited while a screen covers it.
ShelfInv ==
  /\ beerArrRef \subseteq Piece
  /\ beerData \subseteq beerArrRef
  /\ editing => searchArr \subseteq beerArrRef
  /\ screen # "list" => opened \in beerData /\ ~editing
  /\ fetches \in Nat \ {0}

\* As long as the file was read once the cart has its costs.
FirstCosts ==
  fetches = 1 =>
    \A i \in 1..Len(cart) : [name |-> cart[i].name, cost |-> cart[i].cost] \in beerArrRef

\* The rows read are pieces.
LEMMA PricedPieces ==
  ASSUME NEW c \in [Names -> Costs]
  PROVE  L!Priced(c) \subseteq Piece
BY DEF L!Priced, Piece

\* A list that appears is as it was, or read once more.
LEMMA Appearing ==
  ASSUME ShelfInv, L!Appears
  PROVE  /\ beerArrRef' \subseteq Piece /\ beerData' \subseteq beerArrRef'
         /\ fetches' \in Nat \ {0}
         /\ fetches' = 1 => beerArrRef' = beerArrRef /\ fetches = 1
<1>1. CASE beerData # {}
  BY <1>1 DEF ShelfInv, L!Appears
<1>2. CASE beerData = {}
  <2>1. PICK c \in [Names -> Costs] : L!Fetched(c)
    BY <1>2 DEF L!Appears
  <2>2. beerArrRef' = L!Priced(c) /\ beerData' = L!Priced(c) /\ fetches' = fetches + 1
    BY <2>1 DEF L!Fetched
  <2>3. fetches' \in Nat \ {0} /\ fetches' # 1
    BY <2>2 DEF ShelfInv
  <2> QED
    BY <1>2, <2>2, <2>3, PricedPieces
<1> QED
  BY <1>1, <1>2

\* A step of the shop is a step of the cart, or none.
LEMMA ShopIsCart ==
  ASSUME ShelfInv, [ShopNext]_<<vars, shelf>>
  PROVE  [Next]_vars
<1>1. CASE Browse
  BY <1>1 DEF Browse
<1>2. ASSUME NEW p \in beerData, Select(p) PROVE Next
  <2>1. p \in Piece
    BY DEF ShelfInv
  <2> QED
    BY <1>2, <2>1 DEF Select, Next
<1>3. CASE Above
  BY <1>3 DEF Above, Next
<1>4. CASE Uncover
  BY <1>4 DEF Uncover, Next
<1> QED
  BY <1>1, <1>2, <1>3, <1>4 DEF ShopNext

\* The shelf's facts are kept.
LEMMA ShelfStep ==
  ASSUME ShelfInv, [ShopNext]_<<vars, shelf>>
  PROVE  ShelfInv'
<1>1. CASE Browse
  <2>1. screen = "list" /\ screen' = "list"
    BY <1>1 DEF Browse, vars
  <2>2. CASE L!SwitchTabs
    BY <2>1, <2>2, Appearing DEF ShelfInv, L!SwitchTabs
  <2>3. CASE L!BeginEditing
    BY <2>1, <2>3 DEF ShelfInv, L!BeginEditing
  <2>4. CASE L!EndEditing
    BY <2>1, <2>4 DEF ShelfInv, L!EndEditing
  <2>5. ASSUME NEW text \in SUBSET Names, L!TextChanged(text) PROVE ShelfInv'
    BY <2>1, <2>5 DEF ShelfInv, L!TextChanged, L!Matching
  <2> QED
    BY <1>1, <2>2, <2>3, <2>4, <2>5 DEF Browse
<1>2. ASSUME NEW p \in beerData, Select(p) PROVE ShelfInv'
  BY <1>2 DEF Select, Open, L!Leave, ShelfInv
<1>3. CASE Above
  <2>1. UNCHANGED shelf /\ screen # "list" /\ opened' = opened
    BY <1>3 DEF Above, Increase, Decrease, Requantify, AddNew, Plus, Minus, TakeOut,
       Forward, Back
  <2> QED
    BY <2>1 DEF shelf, ShelfInv
<1>4. CASE Uncover
  <2>1. screen # "list" /\ screen' = "list" /\ L!Appears /\ UNCHANGED <<searchArr, editing>>
    BY <1>4 DEF Uncover, Back, Order
  <2> QED
    BY <2>1, Appearing DEF ShelfInv
<1>5. CASE UNCHANGED <<vars, shelf>>
  BY <1>5 DEF vars, shelf, ShelfInv
<1> QED
  BY <1>1, <1>2, <1>3, <1>4, <1>5 DEF ShopNext

\* The shelf's facts hold throughout.
LEMMA ShelfHolds == ShopSpec => []ShelfInv
<1>1. OpenShop => ShelfInv
  <2> SUFFICES ASSUME OpenShop PROVE ShelfInv
    OBVIOUS
  <2>1. PICK c \in [Names -> Costs] : beerArrRef = L!Priced(c)
    BY DEF OpenShop, L!Init
  <2> QED
    BY <2>1, PricedPieces DEF OpenShop, L!Init, ShelfInv
<1> QED
  BY <1>1, ShelfStep, PTL DEF ShopSpec

-----------------------------------------------------------------------------
\* Whatever the list does, the cart makes steps of Cart (CartSpec;
\* FurnitureListView, FurnitureDetailViewController).
THEOREM CartHolds == ShopSpec => CartSpec
<1>1. OpenShop /\ ShelfInv => Init
  BY DEF OpenShop, ShelfInv, Init
<1> QED
  BY <1>1, ShopIsCart, ShelfHolds, PTL DEF ShopSpec, CartSpec, Spec

\* So the cart of the shop has one row a piece, at its own cost, and implements
\* the basket (OneRow, TotalAtOwnCost, BasketSpec).
THEOREM ShopKeepsBasket == ShopSpec => []OneRow /\ []TotalAtOwnCost /\ BasketSpec
BY CartHolds, OneRowHolds, TotalHolds, BasketHolds DEF CartSpec

-----------------------------------------------------------------------------
\* What the rows of the cart cost does not change.
LEMMA FirstCostsStep ==
  ASSUME CartInv, ShelfInv, FirstCosts, [ShopNext]_<<vars, shelf>>
  PROVE  FirstCosts'
<1>1. fetches' = 1 => beerArrRef' = beerArrRef /\ fetches = 1
  <2>1. CASE L!Appears
    BY <2>1, Appearing DEF ShelfInv
  <2>2. CASE UNCHANGED <<beerArrRef, fetches>>
    BY <2>2
  <2> QED
    BY <2>1, <2>2 DEF ShopNext, Browse, Select, Above, Uncover, shelf, L!SwitchTabs,
       L!BeginEditing, L!EndEditing, L!TextChanged, L!Leave
<1> SUFFICES ASSUME fetches' = 1, NEW i \in 1..Len(cart')
             PROVE  [name |-> cart'[i].name, cost |-> cart'[i].cost] \in beerArrRef
  BY <1>1 DEF FirstCosts
<1> DEFINE Priced(r) == [name |-> r.name, cost |-> r.cost] \in beerArrRef
<1>2. cart \in Seq(Item) /\ Unique(cart) /\ Len(cart) \in Nat
  BY LenProperties DEF CartInv, TypeOK
<1>3. \A j \in 1..Len(cart) : Priced(cart[j])
  BY <1>1 DEF FirstCosts
<1>4. CASE cart' = cart
  BY <1>3, <1>4
<1>5. ASSUME NEW j \in 1..Len(cart), NEW r \in Item, r.name = cart[j].name,
             r.cost = cart[j].cost, cart' = [cart EXCEPT ![j] = r]
      PROVE  Priced(cart'[i])
  <2>1. Priced(r)
    BY <1>3, <1>5
  <2>2. /\ Len(cart') = Len(cart)
        /\ \A k \in 1..Len(cart) : cart'[k] = IF k = j THEN r ELSE cart[k]
    BY <1>2, <1>5, Replaced
  <2> QED
    BY <1>3, <2>1, <2>2
<1>6. ASSUME NEW r \in Item, r.name \notin NamesOf(cart), screen = "detail",
             r.name = opened.name, r.cost = opened.cost, cart' = Append(cart, r)
      PROVE  Priced(cart'[i])
  <2>1. opened \in beerArrRef /\ opened \in Piece
    BY <1>6 DEF ShelfInv
  <2>2. [name |-> opened.name, cost |-> opened.cost] = opened
    BY <2>1 DEF Piece
  <2>3. Priced(r)
    BY <1>6, <2>1, <2>2
  <2>4. /\ Len(cart') = Len(cart) + 1
        /\ \A k \in 1..Len(cart) + 1 : cart'[k] = IF k = Len(cart) + 1 THEN r ELSE cart[k]
    BY <1>2, <1>6, Appended
  <2>5. i = Len(cart) + 1 \/ i \in 1..Len(cart)
    BY <1>2, <2>4
  <2> QED
    BY <1>3, <2>3, <2>4, <2>5
<1>7. ASSUME NEW j \in 1..Len(cart), cart' = RemoveAt(cart, j)
      PROVE  Priced(cart'[i])
  <2>1. /\ Len(cart') = Len(cart) - 1
        /\ \A k \in 1..Len(cart) - 1 : cart'[k] = IF k < j THEN cart[k] ELSE cart[k + 1]
    BY <1>2, <1>7, TakenOut
  <2>2. i \in 1..Len(cart) /\ i + 1 \in 1..Len(cart) /\ i \in 1..Len(cart) - 1
    BY <1>2, <2>1
  <2> QED
    BY <1>3, <2>1, <2>2
<1>8. Effect
  BY ShopIsCart, StepEffect
<1> QED
  BY <1>4, <1>5, <1>6, <1>7, <1>8 DEF Effect

\* The prices the customer meets are those of the list (PricesAgree;
\* viewWillAppear, textDidChange, addToCartBtnAction).
THEOREM PricesHold == ShopSpec => []PricesAgree
<1>1. OpenShop => FirstCosts
  BY DEF OpenShop, FirstCosts
<1>2. CartInv /\ ShelfInv /\ FirstCosts => PricesAgree
  BY LenProperties DEF CartInv, TypeOK, ShelfInv, FirstCosts, PricesAgree
<1>3. ShopSpec => []CartInv
  BY CartHolds, CartInvariant DEF CartSpec
<1> QED
  BY <1>1, <1>2, <1>3, FirstCostsStep, ShelfHolds, PTL DEF ShopSpec
=============================================================================
