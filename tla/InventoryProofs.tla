--------------------------- MODULE InventoryProofs ---------------------------
(***************************************************************************)
(* Proofs about Inventory, for any orders, materials, lots, bills of         *)
(* materials and quantities.                                                 *)
(***************************************************************************)
EXTENDS Inventory, Sums, SequenceTheorems, TLAPS

(* Quantities of rows, oldest first. *)
Rows == Seq(Nat \ {0})

-----------------------------------------------------------------------------
(* Induction up to a number, as a least counterexample *)

\* A non-empty set of numbers has a least one.
LEMMA Least ==
  ASSUME NEW B \in SUBSET Nat, B # {}
  PROVE  \E n \in B : \A k \in B : n <= k
<1>1. IsWellFoundedOn(OpToRel(<, Nat), Nat)
  BY NatLessThanWellFounded
<1>2. PICK n \in B : \A k \in B : ~(<<k, n>> \in OpToRel(<, Nat))
  BY <1>1, WFMin, Zenon
<1>3. \A k \in B : <<k, n>> \in OpToRel(<, Nat) <=> k < n
  BY DEF OpToRel
<1>4. \A k \in B : ~(k < n)
  BY <1>2, <1>3, Zenon
<1>5. QED
  BY <1>4

\* What holds of 0 and passes from each number to the next holds up to n.
LEMMA Induct ==
  ASSUME NEW n \in Nat, NEW G, 0 \in G, \A k \in 0..(n - 1) : k \in G => k + 1 \in G
  PROVE  \A k \in 0..n : k \in G
<1> DEFINE B == {k \in 0..n : k \notin G}
<1>1. SUFFICES ASSUME B # {} PROVE FALSE
  OBVIOUS
<1>2. PICK b \in B : \A k \in B : b <= k
  <2>1. B \in SUBSET Nat
    OBVIOUS
  <2> HIDE DEF B
  <2>2. QED
    BY <1>1, <2>1, Least
<1>3. b \in 0..n /\ b \notin G /\ b # 0
  BY <1>2
<1>4. b - 1 \in 0..(n - 1)
  BY <1>3
<1>5. b - 1 \in G
  BY <1>2, <1>3, <1>4
<1>6. (b - 1) + 1 \in G
  BY <1>4, <1>5
<1>7. QED
  BY <1>3, <1>6

-----------------------------------------------------------------------------
(* What a sum over rows is *)

\* The sum of no rows.
LEMMA UptoNone ==
  ASSUME NEW s
  PROVE  Upto(s, 0) = 0
<1>1. 1..0 = {} /\ IsFiniteSet({})
  BY FS_EmptySet
<1>2. QED
  BY <1>1, SumZero DEF Upto

\* One row more adds its quantity.
LEMMA UptoNext ==
  ASSUME NEW n \in Nat, NEW s, \A i \in 1..(n + 1) : s[i] \in Int
  PROVE  Upto(s, n + 1) = Upto(s, n) + s[n + 1]
<1>1. IsFiniteSet(1..n) /\ n + 1 \notin 1..n /\ 1..(n + 1) = (1..n) \cup {n + 1}
  BY FS_Interval
<1>2. \A y \in (1..n) \cup {n + 1} : s[y] \in Int
  BY <1>1
<1>3. SumFunctionOnSet(s, (1..n) \cup {n + 1}) = SumFunctionOnSet(s, 1..n) + s[n + 1]
  <2> DEFINE T == 1..n
             x == n + 1
  <2>1. IsFiniteSet(T) /\ x \notin T /\ \A y \in T \cup {x} : s[y] \in Int
    BY <1>1, <1>2
  <2> HIDE DEF T, x
  <2>2. SumFunctionOnSet(s, T \cup {x}) = SumFunctionOnSet(s, T) + s[x]
    BY <2>1, SumAdd
  <2>3. QED
    BY <2>2 DEF T, x
<1>4. QED
  BY <1>1, <1>3 DEF Upto

\* The sum of the first rows depends on these rows only.
LEMMA UptoEqual ==
  ASSUME NEW n \in Nat, NEW s, NEW t, \A i \in 1..n : s[i] = t[i]
  PROVE  Upto(s, n) = Upto(t, n)
<1>1. IsFiniteSet(1..n)
  BY FS_Interval
<1>2. QED
  BY <1>1, SumEqual DEF Upto

\* It is a number, and each row adds to it.
LEMMA UptoGrows ==
  ASSUME NEW s \in Rows
  PROVE  /\ \A n \in 0..Len(s) : Upto(s, n) \in Nat
         /\ \A n \in 0..(Len(s) - 1) : Upto(s, n + 1) = Upto(s, n) + s[n + 1]
         /\ \A n \in 1..Len(s) : s[n] \in Nat \ {0}
<1>1. Len(s) \in Nat /\ \A n \in 1..Len(s) : s[n] \in Nat \ {0}
  BY LenProperties, ElementOfSeq DEF Rows
<1>2. ASSUME NEW n \in 0..(Len(s) - 1)
      PROVE  Upto(s, n + 1) = Upto(s, n) + s[n + 1]
  <2>1. n \in Nat /\ \A i \in 1..(n + 1) : s[i] \in Int
    BY <1>1
  <2>2. QED
    BY <2>1, UptoNext
<1> DEFINE G == {n \in 0..Len(s) : Upto(s, n) \in Nat}
<1>3. 0 \in G
  BY <1>1, UptoNone
<1>4. ASSUME NEW k \in 0..(Len(s) - 1), k \in G PROVE k + 1 \in G
  <2>1. Upto(s, k) \in Nat /\ k + 1 \in 1..Len(s)
    BY <1>1, <1>4
  <2>2. Upto(s, k + 1) = Upto(s, k) + s[k + 1]
    BY <1>2
  <2>3. s[k + 1] \in Nat
    BY <1>1, <2>1
  <2>4. QED
    BY <2>1, <2>2, <2>3
<1>5. \A k \in 0..Len(s) : k \in G
  <2> HIDE DEF G
  <2>1. QED
    BY <1>1, <1>3, <1>4, Induct
<1>6. QED
  BY <1>1, <1>2, <1>5

\* A total of reservations is a natural number.
LEMMA TotalNat ==
  ASSUME NEW s \in Rows
  PROVE  Total(s) \in Nat
<1>1. Len(s) \in Nat
  BY LenProperties DEF Rows
<1>2. QED
  BY <1>1, UptoGrows DEF Total

\* An order without rows has nothing reserved.
LEMMA TotalNone == <<>> \in Rows /\ Len(<<>>) = 0 /\ Total(<<>>) = 0
<1>1. <<>> \in Rows /\ Len(<<>>) = 0
  BY EmptySeq DEF Rows
<1>2. QED
  BY <1>1, UptoNone DEF Total

\* A single row is its own total.
LEMMA TotalOne ==
  ASSUME NEW q \in Nat \ {0}
  PROVE  <<q>> \in Rows /\ <<q>> # <<>> /\ Total(<<q>>) = q
<1>1. <<q>> \in Rows /\ Len(<<q>>) = 1 /\ <<q>>[1] = q
  BY DEF Rows
<1>2. Upto(<<q>>, 0) = 0
  BY UptoNone
<1>3. Upto(<<q>>, 0 + 1) = Upto(<<q>>, 0) + <<q>>[0 + 1]
  <2>1. \A i \in 1..(0 + 1) : <<q>>[i] \in Int
    BY <1>1
  <2>2. QED
    BY <2>1, UptoNext
<1>4. Total(<<q>>) = q
  BY <1>1, <1>2, <1>3 DEF Total
<1>5. <<q>> # <<>>
  BY <1>1, TotalNone
<1>6. QED
  BY <1>1, <1>4, <1>5

\* create_reservation adds its quantity.
LEMMA TotalAppend ==
  ASSUME NEW s \in Rows, NEW q \in Nat \ {0}
  PROVE  Append(s, q) \in Rows /\ Total(Append(s, q)) = Total(s) + q
<1> DEFINE t == Append(s, q)
<1>1. /\ t \in Rows /\ Len(t) = Len(s) + 1 /\ t[Len(s) + 1] = q
      /\ \A i \in 1..Len(s) : t[i] = s[i]
  BY AppendProperties DEF Rows
<1>2. Len(s) \in Nat /\ Len(s) \in 0..(Len(t) - 1)
  BY <1>1, LenProperties DEF Rows
<1> HIDE DEF t
<1>3. Upto(t, Len(s) + 1) = Upto(t, Len(s)) + t[Len(s) + 1]
  BY <1>1, <1>2, UptoGrows
<1>4. Upto(t, Len(s)) = Upto(s, Len(s))
  BY <1>1, <1>2, UptoEqual
<1>5. t \in Rows /\ Total(t) = Total(s) + q
  BY <1>1, <1>3, <1>4 DEF Total
<1>6. QED
  BY <1>5 DEF t

\* release_reservation takes off the row it removes, and nothing else.
LEMMA TotalRemoved ==
  ASSUME NEW s \in Rows, NEW i \in 1..Len(s)
  PROVE  RemoveAt(s, i) \in Rows /\ Total(RemoveAt(s, i)) = Total(s) - s[i]
<1> DEFINE a == SubSeq(s, 1, i - 1)
           b == SubSeq(s, i + 1, Len(s))
           t == a \o b
<1>1. Len(s) \in Nat /\ \A k \in 1..Len(s) : s[k] \in Nat \ {0}
  BY UptoGrows, LenProperties DEF Rows
<1>2. a \in Rows /\ Len(a) = i - 1 /\ \A k \in 1..(i - 1) : a[k] = s[k]
  <2>1. \A k \in 1..(i - 1) : s[k] \in Nat \ {0}
    BY <1>1
  <2>2. 1 \in Int /\ i - 1 \in Int
    BY <1>1
  <2>3. QED
    BY <1>1, <2>1, <2>2, SubSeqProperties DEF Rows
<1>3. b \in Rows /\ Len(b) = Len(s) - i /\ \A k \in 1..(Len(s) - i) : b[k] = s[i + k]
  <2>1. \A k \in (i + 1)..Len(s) : s[k] \in Nat \ {0}
    BY <1>1
  <2>2. i + 1 \in Int /\ Len(s) \in Int
    BY <1>1
  <2>3. /\ b \in Rows
        /\ Len(b) = IF i + 1 <= Len(s) THEN Len(s) - (i + 1) + 1 ELSE 0
        /\ \A k \in 1..(Len(s) - (i + 1) + 1) : b[k] = s[i + 1 + k - 1]
    BY <2>1, <2>2, SubSeqProperties DEF Rows
  <2> HIDE DEF b
  <2>4. Len(b) = Len(s) - i /\ Len(s) - (i + 1) + 1 = Len(s) - i
    BY <1>1, <2>3
  <2>5. \A k \in 1..(Len(s) - i) : i + 1 + k - 1 = i + k
    BY <1>1
  <2>6. QED
    BY <2>3, <2>4, <2>5
<1> HIDE DEF a, b
<1>4. /\ t \in Rows
      /\ Len(t) = Len(s) - 1
      /\ \A k \in 1..(Len(s) - 1) : t[k] = IF k < i THEN s[k] ELSE s[k + 1]
  <2>1. /\ t \in Rows
        /\ Len(t) = Len(a) + Len(b)
        /\ \A k \in 1..(Len(a) + Len(b)) : t[k] = IF k <= Len(a) THEN a[k] ELSE b[k - Len(a)]
    BY <1>2, <1>3, ConcatProperties DEF Rows
  <2> HIDE DEF t
  <2>2. Len(a) + Len(b) = Len(s) - 1
    BY <1>1, <1>2, <1>3
  <2>3. ASSUME NEW k \in 1..(Len(s) - 1), k < i PROVE t[k] = s[k]
    BY <1>1, <1>2, <2>1, <2>2, <2>3
  <2>4. ASSUME NEW k \in 1..(Len(s) - 1), ~(k < i) PROVE t[k] = s[k + 1]
    <3>1. k - (i - 1) \in 1..(Len(s) - i) /\ i + (k - (i - 1)) = k + 1 /\ ~(k <= i - 1)
      BY <1>1, <2>4
    <3>2. t[k] = b[k - (i - 1)]
      BY <1>2, <2>1, <2>2, <3>1
    <3>3. b[k - (i - 1)] = s[i + (k - (i - 1))]
      BY <1>3, <3>1
    <3>4. QED
      BY <3>1, <3>2, <3>3
  <2>5. QED
    BY <2>1, <2>2, <2>3, <2>4
<1>5. t = RemoveAt(s, i)
  BY DEF RemoveAt, a, b
<1> HIDE DEF t
<1>6. /\ \A n \in 0..Len(s) : Upto(s, n) \in Nat
      /\ \A n \in 0..(Len(s) - 1) : Upto(s, n + 1) = Upto(s, n) + s[n + 1]
  BY UptoGrows
<1>7. \A n \in 0..(Len(t) - 1) : Upto(t, n + 1) = Upto(t, n) + t[n + 1]
  BY <1>4, UptoGrows
<1>8. i \in Nat /\ i >= 1 /\ i <= Len(s)
  BY <1>1
<1> DEFINE G == {k \in 0..(Len(s) - 1) :
                   Upto(t, k) = IF k < i THEN Upto(s, k) ELSE Upto(s, k + 1) - s[i]}
<1>9. 0 \in G
  <2>1. Upto(t, 0) = 0 /\ Upto(s, 0) = 0
    BY UptoNone
  <2>2. QED
    BY <1>1, <1>8, <2>1
<1>10. ASSUME NEW k \in 0..(Len(s) - 2), k \in G PROVE k + 1 \in G
  <2>1. /\ k \in Nat /\ k + 1 \in 0..(Len(s) - 1) /\ k + 1 \in 1..(Len(s) - 1)
        /\ k \in 0..(Len(t) - 1) /\ k \in 0..(Len(s) - 1)
        /\ k \in 0..Len(s) /\ k + 1 \in 0..Len(s) /\ k + 1 + 1 \in 0..Len(s)
        /\ k + 1 \in 1..Len(s) /\ k + 1 + 1 \in 1..Len(s)
    BY <1>1, <1>4
  <2>2. Upto(t, k + 1) = Upto(t, k) + t[k + 1]
    BY <1>7, <2>1
  <2>3. Upto(s, k + 1) = Upto(s, k) + s[k + 1]
    BY <1>6, <2>1
  <2>4. Upto(s, k + 1 + 1) = Upto(s, k + 1) + s[k + 1 + 1]
    BY <1>6, <2>1
  <2>5. Upto(t, k) = IF k < i THEN Upto(s, k) ELSE Upto(s, k + 1) - s[i]
    BY <1>10
  <2>6. t[k + 1] = IF k + 1 < i THEN s[k + 1] ELSE s[k + 1 + 1]
    BY <1>4, <2>1
  <2>7. /\ Upto(s, k) \in Nat /\ Upto(s, k + 1) \in Nat /\ Upto(s, k + 1 + 1) \in Nat
        /\ s[k + 1] \in Nat /\ s[k + 1 + 1] \in Nat /\ s[i] \in Nat
    BY <1>1, <1>6, <2>1
  <2>8. CASE k + 1 < i
    <3>1. Upto(t, k + 1) = Upto(s, k + 1)
      BY <1>8, <2>1, <2>2, <2>3, <2>5, <2>6, <2>8
    <3>2. QED
      BY <2>1, <2>8, <3>1
  <2>9. CASE k + 1 = i
    <3>1. Upto(t, k + 1) = Upto(s, k) + s[k + 1 + 1] /\ s[i] = s[k + 1]
      BY <1>8, <2>1, <2>2, <2>5, <2>6, <2>9
    <3>2. Upto(t, k + 1) = Upto(s, k + 1 + 1) - s[i]
      BY <2>3, <2>4, <2>7, <3>1
    <3>3. ~(k + 1 < i)
      BY <1>8, <2>9
    <3>4. QED
      BY <2>1, <3>2, <3>3
  <2>10. CASE k + 1 > i
    <3>1. ~(k < i) /\ ~(k + 1 < i)
      BY <1>8, <2>1, <2>10
    <3>2. Upto(t, k + 1) = Upto(s, k + 1) - s[i] + s[k + 1 + 1]
      BY <2>2, <2>5, <2>6, <3>1
    <3>3. Upto(t, k + 1) = Upto(s, k + 1 + 1) - s[i]
      BY <2>4, <2>7, <3>2
    <3>4. QED
      BY <2>1, <3>1, <3>3
  <2>11. QED
    BY <1>8, <2>1, <2>8, <2>9, <2>10
<1>11. \A k \in 0..(Len(s) - 1) : k \in G
  <2>1. Len(s) - 1 \in Nat
    BY <1>1, <1>8
  <2>2. \A k \in 0..((Len(s) - 1) - 1) : k \in G => k + 1 \in G
    <3>1. (Len(s) - 1) - 1 = Len(s) - 2
      BY <1>1
    <3> HIDE DEF G
    <3>2. QED
      BY <1>10, <3>1
  <2> HIDE DEF G
  <2>3. QED
    BY <1>9, <2>1, <2>2, Induct
<1>12. Upto(t, Len(s) - 1) = Upto(s, Len(s)) - s[i]
  <2>2. Len(s) - 1 \in 0..(Len(s) - 1) /\ (Len(s) - 1) + 1 = Len(s)
    BY <1>1, <1>8
  <2>3. Upto(t, Len(s) - 1) = IF Len(s) - 1 < i THEN Upto(s, Len(s) - 1) ELSE Upto(s, Len(s)) - s[i]
    BY <1>11, <2>2
  <2>4. CASE Len(s) - 1 < i
    <3>1. i = Len(s)
      BY <1>1, <1>8, <2>4
    <3>2. Upto(s, Len(s)) = Upto(s, Len(s) - 1) + s[Len(s)]
      BY <1>6, <2>2
    <3>3. Upto(s, Len(s) - 1) \in Nat /\ s[Len(s)] \in Nat
      BY <1>1, <1>6, <1>8, <2>2, <3>1
    <3>4. QED
      BY <2>3, <2>4, <3>1, <3>2, <3>3
  <2>5. QED
    BY <2>3, <2>4
<1>13. QED
  BY <1>4, <1>5, <1>12 DEF Total

\* What is left of a row that an issue used in part, and the rows after it.
LEMMA UsedUpIs ==
  ASSUME NEW s \in Rows, NEW q \in Nat
  PROVE  /\ UsedUp(s, q) \in 0..Len(s)
         /\ Upto(s, UsedUp(s, q)) <= q
         /\ UsedUp(s, q) = Len(s) \/ q < Upto(s, UsedUp(s, q) + 1)
<1>1. Len(s) \in Nat /\ \A n \in 0..Len(s) : Upto(s, n) \in Nat
  BY UptoGrows, LenProperties DEF Rows
<1>2. \E n \in 0..Len(s) : Upto(s, n) <= q /\ (n = Len(s) \/ q < Upto(s, n + 1))
  <2> DEFINE B == {n \in 0..Len(s) : q < Upto(s, n)}
  <2>1. CASE B = {}
    <3>1. Len(s) \in 0..Len(s) /\ ~(q < Upto(s, Len(s)))
      BY <1>1, <2>1
    <3>2. Upto(s, Len(s)) <= q
      BY <1>1, <3>1
    <3>3. QED
      BY <3>1, <3>2
  <2>2. CASE B # {}
    <3>1. PICK b \in B : \A k \in B : b <= k
      <4>1. B \in SUBSET Nat
        OBVIOUS
      <4> HIDE DEF B
      <4>2. QED
        BY <2>2, <4>1, Least
    <3>2. b \in 0..Len(s) /\ q < Upto(s, b) /\ b # 0
      <4>1. Upto(s, 0) = 0
        BY UptoNone
      <4>2. QED
        BY <3>1, <4>1
    <3>3. b - 1 \in 0..Len(s) /\ (b - 1) + 1 = b
      BY <1>1, <3>2
    <3>4. b - 1 \notin B
      BY <3>1, <3>3
    <3>5. Upto(s, b - 1) <= q
      BY <1>1, <3>3, <3>4
    <3>6. QED
      BY <3>2, <3>3, <3>5
  <2>3. QED
    BY <2>1, <2>2
<1>3. QED
  BY <1>2 DEF UsedUp

\* _consume_reservations takes off exactly what is issued against them.
LEMMA TotalConsumed ==
  ASSUME NEW s \in Rows, NEW q \in Nat, q <= Total(s)
  PROVE  Consumed(s, q) \in Rows /\ Total(Consumed(s, q)) = Total(s) - q
<1>1. PICK n : n = UsedUp(s, q)
  OBVIOUS
<1>2. n \in 0..Len(s) /\ Upto(s, n) <= q /\ (n = Len(s) \/ q < Upto(s, n + 1))
  BY <1>1, UsedUpIs
<1>3. /\ Len(s) \in Nat
      /\ \A k \in 1..Len(s) : s[k] \in Nat \ {0}
      /\ \A k \in 0..Len(s) : Upto(s, k) \in Nat
      /\ \A k \in 0..(Len(s) - 1) : Upto(s, k + 1) = Upto(s, k) + s[k + 1]
  BY UptoGrows, LenProperties DEF Rows
<1>4. CASE n = Len(s)
  <2>1. Consumed(s, q) = <<>>
    BY <1>1, <1>4 DEF Consumed
  <2>2. Total(s) = q
    BY <1>2, <1>3, <1>4 DEF Total
  <2>3. QED
    BY <2>1, <2>2, TotalNone
<1>5. CASE n # Len(s)
  <2> DEFINE left == Upto(s, n + 1) - q
             b == SubSeq(s, n + 2, Len(s))
             t == <<left>> \o b
  <2>1. n \in Nat /\ n + 1 \in 0..Len(s) /\ n + 1 \in 1..Len(s) /\ n < Len(s)
    BY <1>2, <1>3, <1>5
  <2>2. left \in Nat \ {0}
    <3>1. q < Upto(s, n + 1) /\ Upto(s, n + 1) \in Nat
      BY <1>2, <1>3, <1>5, <2>1
    <3>2. QED
      BY <3>1
  <2>3. b \in Rows /\ Len(b) = Len(s) - n - 1 /\ \A k \in 1..(Len(s) - n - 1) : b[k] = s[n + k + 1]
    <3>1. \A k \in (n + 2)..Len(s) : s[k] \in Nat \ {0}
      BY <1>3, <2>1
    <3>2. n + 2 \in Int /\ Len(s) \in Int
      BY <1>3, <2>1
    <3>3. /\ b \in Rows
          /\ Len(b) = IF n + 2 <= Len(s) THEN Len(s) - (n + 2) + 1 ELSE 0
          /\ \A k \in 1..(Len(s) - (n + 2) + 1) : b[k] = s[n + 2 + k - 1]
      BY <3>1, <3>2, SubSeqProperties DEF Rows
    <3> HIDE DEF b
    <3>4. Len(b) = Len(s) - n - 1 /\ Len(s) - (n + 2) + 1 = Len(s) - n - 1
      BY <1>3, <2>1, <3>3
    <3>5. \A k \in 1..(Len(s) - n - 1) : n + 2 + k - 1 = n + k + 1
      BY <1>3, <2>1
    <3>6. QED
      BY <3>3, <3>4, <3>5
  <2>4. <<left>> \in Rows /\ Len(<<left>>) = 1 /\ <<left>>[1] = left
    BY <2>2 DEF Rows
  <2> HIDE DEF b
  <2>5. /\ t \in Rows
        /\ Len(t) = Len(s) - n
        /\ t[1] = left
        /\ \A k \in 2..(Len(s) - n) : t[k] = s[n + k]
    <3> HIDE DEF left
    <3>1. /\ t \in Rows
          /\ Len(t) = Len(<<left>>) + Len(b)
          /\ \A k \in 1..(Len(<<left>>) + Len(b)) :
               t[k] = IF k <= Len(<<left>>) THEN <<left>>[k] ELSE b[k - Len(<<left>>)]
      BY <2>3, <2>4, ConcatProperties DEF Rows
    <3> HIDE DEF t
    <3>2. Len(t) = Len(s) - n
      BY <1>3, <2>1, <2>3, <2>4, <3>1
    <3>3. t[1] = left
      BY <1>3, <2>1, <2>3, <2>4, <3>1
    <3>4. ASSUME NEW k \in 2..(Len(s) - n) PROVE t[k] = s[n + k]
      <4>1. k - 1 \in 1..(Len(s) - n - 1) /\ ~(k <= 1) /\ k \in 1..(1 + Len(b)) /\ n + (k - 1) + 1 = n + k
        BY <1>3, <2>1, <2>3, <3>4
      <4>2. t[k] = b[k - 1]
        BY <2>4, <3>1, <4>1
      <4>3. b[k - 1] = s[n + (k - 1) + 1]
        BY <2>3, <4>1
      <4>4. QED
        BY <4>1, <4>2, <4>3
    <3>5. QED
      BY <3>1, <3>2, <3>3, <3>4
  <2>6. t = Consumed(s, q)
    BY <1>1, <1>5 DEF Consumed, b
  <2> HIDE DEF t
  <2>7. \A k \in 0..(Len(t) - 1) : Upto(t, k + 1) = Upto(t, k) + t[k + 1]
    BY <2>5, UptoGrows
  <2> DEFINE G == {k \in 0..(Len(s) - n - 1) : Upto(t, k + 1) = Upto(s, n + k + 1) - q}
  <2>8. 0 \in G
    <3>1. Upto(t, 0) = 0
      BY UptoNone
    <3>2. 0 \in 0..(Len(t) - 1) /\ 0 \in 0..(Len(s) - n - 1)
      BY <1>3, <2>1, <2>5
    <3>3. Upto(t, 0 + 1) = Upto(t, 0) + t[0 + 1]
      BY <2>7, <3>2
    <3>4. Upto(s, n + 1) \in Nat /\ n + 0 + 1 = n + 1
      BY <1>3, <2>1
    <3>5. Upto(t, 0 + 1) = Upto(s, n + 1) - q
      BY <2>5, <3>1, <3>3, <3>4
    <3>6. QED
      BY <3>2, <3>4, <3>5
  <2>9. ASSUME NEW k \in 0..((Len(s) - n - 1) - 1), k \in G PROVE k + 1 \in G
    <3>1. /\ k \in Nat /\ k + 1 \in 0..(Len(s) - n - 1) /\ k + 1 \in 0..(Len(t) - 1)
          /\ n + k + 1 \in 0..(Len(s) - 1) /\ n + k + 1 + 1 \in 1..Len(s)
          /\ n + k + 1 \in 0..Len(s) /\ k + 1 + 1 \in 2..(Len(s) - n)
          /\ n + (k + 1 + 1) = n + k + 1 + 1 /\ n + (k + 1) + 1 = n + k + 1 + 1
      BY <1>3, <2>1, <2>5
    <3>2. Upto(t, k + 1 + 1) = Upto(t, k + 1) + t[k + 1 + 1]
      BY <2>7, <3>1
    <3>3. t[k + 1 + 1] = s[n + k + 1 + 1]
      BY <2>5, <3>1
    <3>4. Upto(s, n + k + 1 + 1) = Upto(s, n + k + 1) + s[n + k + 1 + 1]
      BY <1>3, <3>1
    <3>5. Upto(t, k + 1) = Upto(s, n + k + 1) - q
      BY <2>9
    <3>6. Upto(s, n + k + 1) \in Nat /\ s[n + k + 1 + 1] \in Nat
      BY <1>3, <3>1
    <3>7. Upto(t, k + 1 + 1) = Upto(s, n + k + 1 + 1) - q
      BY <3>2, <3>3, <3>4, <3>5, <3>6
    <3>8. QED
      BY <3>1, <3>7
  <2>10. \A k \in 0..(Len(s) - n - 1) : k \in G
    <3>1. Len(s) - n - 1 \in Nat
      BY <1>3, <2>1
    <3> HIDE DEF G
    <3>2. QED
      BY <2>8, <2>9, <3>1, Induct
  <2>11. Upto(t, Len(t)) = Upto(s, Len(s)) - q
    <3>1. Len(s) - n - 1 \in 0..(Len(s) - n - 1) /\ (Len(s) - n - 1) + 1 = Len(t)
          /\ n + (Len(s) - n - 1) + 1 = Len(s)
      BY <1>3, <2>1, <2>5
    <3>2. Len(s) - n - 1 \in G
      BY <2>10, <3>1
    <3>3. QED
      BY <3>1, <3>2
  <2>12. QED
    BY <2>5, <2>6, <2>11 DEF Total
<1>6. QED
  BY <1>4, <1>5

-----------------------------------------------------------------------------
(* What recompute_material_states finds *)

MaterialStates == {"UNKNOWN", "READY", "AT_RISK", "SHORTAGE"}

\* The most severe state found is one of them, and UNKNOWN is the most severe.
LEMMA WorstFound ==
  ASSUME NEW found \in SUBSET MaterialStates, found # {}
  PROVE  \E i \in 1..4 :
           /\ Severity[i] \in found /\ \A j \in 1..4 : Severity[j] \in found => j <= i
           /\ "UNKNOWN" \in found => i = 4
<1>1. /\ Severity[1] = "READY" /\ Severity[2] = "AT_RISK"
      /\ Severity[3] = "SHORTAGE" /\ Severity[4] = "UNKNOWN"
  BY DEF Severity
<1>2. \A j \in 1..4 : j = 1 \/ j = 2 \/ j = 3 \/ j = 4
  OBVIOUS
<1>3. CASE "UNKNOWN" \in found
  BY <1>1, <1>2, <1>3
<1>4. CASE "UNKNOWN" \notin found /\ "SHORTAGE" \in found
  BY <1>1, <1>2, <1>4
<1>5. CASE "UNKNOWN" \notin found /\ "SHORTAGE" \notin found /\ "AT_RISK" \in found
  BY <1>1, <1>2, <1>5
<1>6. CASE found = {"READY"}
  BY <1>1, <1>2, <1>6
<1>7. QED
  BY <1>3, <1>4, <1>5, <1>6 DEF MaterialStates

\* readiness gives one of the four states.
LEMMA LineStateType ==
  ASSUME NEW o, NEW m, NEW b, NEW rows
  PROVE  LineState(o, m, b, rows) \in MaterialStates
  BY DEF LineState, MaterialStates

\* The worst state is a state, and a missing balance makes it UNKNOWN.
LEMMA AssessFound ==
  ASSUME NEW o \in Orders, NEW b, NEW rows
  PROVE  /\ Assess(o, b, rows) \in MaterialStates
         /\ \A m \in Bom[o] : ~b[m].exists => Assess(o, b, rows) = "UNKNOWN"
<1> DEFINE found == {LineState(o, m, b, rows) : m \in Bom[o]}
           worst == CHOOSE i \in 1..4 :
                      Severity[i] \in found /\ \A j \in 1..4 : Severity[j] \in found => j <= i
<1>1. found \in SUBSET MaterialStates
  BY LineStateType
<1>2. Assess(o, b, rows) = IF found = {} THEN "UNKNOWN" ELSE Severity[worst]
  BY DEF Assess
<1>3. ASSUME NEW m \in Bom[o], ~b[m].exists PROVE "UNKNOWN" \in found
  <2>1. LineState(o, m, b, rows) = "UNKNOWN"
    BY <1>3 DEF LineState
  <2>2. QED
    BY <2>1
<1>4. CASE found = {}
  BY <1>2, <1>4 DEF MaterialStates
<1>5. CASE found # {}
  <2> HIDE DEF found
  <2>1. PICK i \in 1..4 :
          /\ Severity[i] \in found /\ \A j \in 1..4 : Severity[j] \in found => j <= i
          /\ "UNKNOWN" \in found => i = 4
    BY <1>1, <1>5, WorstFound
  <2>2. /\ worst \in 1..4 /\ Severity[worst] \in found
        /\ \A j \in 1..4 : Severity[j] \in found => j <= worst
    BY <2>1
  <2> HIDE DEF worst
  <2>3. "UNKNOWN" \in found => worst = 4
    BY <2>1, <2>2
  <2>4. Severity[4] = "UNKNOWN"
    BY DEF Severity
  <2>5. QED
    BY <1>1, <1>2, <1>3, <1>5, <2>2, <2>3, <2>4
<1>6. QED
  BY <1>4, <1>5

\* An order's state depends on the balances of its own materials and on its own
\* reservations of them.
LEMMA AssessSame ==
  ASSUME NEW o \in Orders, NEW b, NEW c, NEW rows, NEW now,
         \A m \in Bom[o] : b[m] = c[m] /\ rows[o][m] = now[o][m]
  PROVE  Assess(o, b, rows) = Assess(o, c, now)
<1>1. \A m \in Bom[o] : LineState(o, m, b, rows) = LineState(o, m, c, now)
  BY DEF LineState
<1>2. {LineState(o, m, b, rows) : m \in Bom[o]} = {LineState(o, m, c, now) : m \in Bom[o]}
  BY <1>1
<1> DEFINE worst(found) == CHOOSE i \in 1..4 :
             Severity[i] \in found /\ \A j \in 1..4 : Severity[j] \in found => j <= i
           A == {LineState(o, m, b, rows) : m \in Bom[o]}
           B == {LineState(o, m, c, now) : m \in Bom[o]}
<1>3. Assess(o, b, rows) = IF A = {} THEN "UNKNOWN" ELSE Severity[worst(A)]
  BY DEF Assess
<1>4. Assess(o, c, now) = IF B = {} THEN "UNKNOWN" ELSE Severity[worst(B)]
  BY DEF Assess
<1>5. A = B
  BY <1>2
<1> HIDE DEF A, B, worst
<1>6. QED
  BY <1>3, <1>4, <1>5

-----------------------------------------------------------------------------
(* The inductive invariant *)

\* An order that was never created shows nothing.
NewIsUnknown == \A o \in Orders : state[o] = "ABSENT" => mstate[o] = "UNKNOWN"

\* The balances, the rows they are sums of, and the types of all.
Stock == TypeOK /\ LedgerAgrees /\ ReservationsAgree /\ NewIsUnknown

IInv == Stock /\ OnlyMissedAreStale

\* A balance, its fields, and what makes one.
LEMMA BalanceIs ==
  ASSUME TypeOK, NEW m \in Materials
  PROVE  /\ bal[m].exists \in BOOLEAN /\ bal[m].onHand \in Nat /\ bal[m].reserved \in Nat
         /\ bal[m].reserved <= bal[m].onHand
  BY DEF TypeOK, BalanceRows

\* The CHECK of material_balances, for a row that is written in full.
LEMMA BalanceMade ==
  ASSUME NEW e \in BOOLEAN, NEW h \in Nat, NEW r \in Nat, r <= h
  PROVE  [exists |-> e, onHand |-> h, reserved |-> r] \in BalanceRows
  BY DEF BalanceRows

\* ensure_balance leaves what the row counts.
LEMMA EnsuredIs ==
  ASSUME TypeOK, NEW m \in Materials
  PROVE  /\ Ensured(m) \in BalanceRows /\ Ensured(m).exists
         /\ Ensured(m).onHand = bal[m].onHand /\ Ensured(m).reserved = bal[m].reserved
<1>1. PICK b \in BalanceRows : b = bal[m]
  BY DEF TypeOK
<1>2. [b EXCEPT !.exists = TRUE] \in BalanceRows
  BY DEF BalanceRows
<1>3. /\ [b EXCEPT !.exists = TRUE].onHand = b.onHand
      /\ [b EXCEPT !.exists = TRUE].reserved = b.reserved
      /\ [b EXCEPT !.exists = TRUE].exists
  BY DEF BalanceRows
<1>4. QED
  BY <1>1, <1>2, <1>3 DEF Ensured

\* Writing one quantity of a balance leaves the other.
LEMMA OnHandWritten ==
  ASSUME NEW b \in BalanceRows, NEW d \in Int, NEW c, c = [b EXCEPT !.onHand = @ + d]
  PROVE  /\ c.onHand = b.onHand + d /\ c.reserved = b.reserved /\ c.exists = b.exists
         /\ b.onHand + d >= b.reserved => c \in BalanceRows
  BY DEF BalanceRows

\* Adding to reserved leaves the rest of the row and keeps its CHECK when it fits.
LEMMA ReservedWritten ==
  ASSUME NEW b \in BalanceRows, NEW d \in Int, NEW c, c = [b EXCEPT !.reserved = @ + d]
  PROVE  /\ c.reserved = b.reserved + d /\ c.onHand = b.onHand /\ c.exists = b.exists
         /\ b.reserved + d \in 0..b.onHand => c \in BalanceRows
  BY DEF BalanceRows

\* Taking from reserved what is there keeps the CHECK.
LEMMA ReservedTaken ==
  ASSUME NEW b \in BalanceRows, NEW d \in Nat, d <= b.reserved, NEW c,
         c = [b EXCEPT !.reserved = @ - d]
  PROVE  /\ c.reserved = b.reserved - d /\ c.onHand = b.onHand /\ c.exists = b.exists
         /\ c \in BalanceRows
  BY DEF BalanceRows

\* What an order has reserved is part of the balance's total.
LEMMA OwnIsPart ==
  ASSUME TypeOK, ReservationsAgree, NEW o \in Orders, NEW m \in Materials
  PROVE  /\ active[o][m] \in Rows
         /\ Total(active[o][m]) \in Nat
         /\ Total(active[o][m]) <= bal[m].reserved
<1>1. \A p \in Orders : active[p][m] \in Rows
  BY DEF TypeOK, ReservationRows, Rows
<1>2. \A p \in Orders : Total(active[p][m]) \in Nat
  BY <1>1, TotalNat
<1>3. ReservedBy(m) \in [Orders -> Nat] /\ ReservedBy(m)[o] = Total(active[o][m])
  BY <1>2 DEF ReservedBy
<1>4. ReservedBy(m)[o] <= SumFunctionOnSet(ReservedBy(m), Orders)
  BY <1>3, SumAtLeast, InventoryAssumption
<1>5. QED
  BY <1>1, <1>2, <1>3, <1>4 DEF ReservationsAgree

\* A command that writes one lot moves the balance of its material by what the
\* lot counts more or less.
Counts(status, n) == IF status = "ACCEPTED" THEN n ELSE 0

\* A command that moves one lot, and the balance by as much as the lot counts more or less.
LEMMA LedgerMoves ==
  ASSUME TypeOK, LedgerAgrees, NEW l \in Lots, net' \in MovementRows,
         \A k \in Lots : k # l => lot'[k] = lot[k] /\ net'[k] = net[k],
         \A m \in Materials :
           bal'[m].onHand = IF m = LotOf[l]
                            THEN bal[m].onHand + Counts(lot'[l], net'[l]) - Counts(lot[l], net[l])
                            ELSE bal[m].onHand
  PROVE  LedgerAgrees'
<1>1. SUFFICES ASSUME NEW m \in Materials
               PROVE  bal'[m].onHand = SumFunctionOnSet(Accepted(m)', Lots)
  BY DEF LedgerAgrees
<1>2. PICK f : f = Accepted(m)
  OBVIOUS
<1>3. PICK e : e = Accepted(m)'
  OBVIOUS
<1>4. f = [k \in Lots |-> IF LotOf[k] = m /\ lot[k] = "ACCEPTED" THEN net[k] ELSE 0]
  BY <1>2 DEF Accepted
<1>5. e = [k \in Lots |-> IF LotOf[k] = m /\ lot'[k] = "ACCEPTED" THEN net'[k] ELSE 0]
  BY <1>3 DEF Accepted
<1>6. f \in [Lots -> Int] /\ e \in [Lots -> Int]
  BY <1>4, <1>5 DEF TypeOK, MovementRows
<1>7. AgreeBut(f, e, Lots, l)
  BY <1>4, <1>5 DEF AgreeBut
<1>8. SumFunctionOnSet(e, Lots) = SumFunctionOnSet(f, Lots) - f[l] + e[l]
  <2>1. IsFiniteSet(Lots)
    BY InventoryAssumption
  <2>2. QED
    BY <1>6, <1>7, <2>1, SumOne
<1>9. bal[m].onHand = SumFunctionOnSet(f, Lots) /\ bal[m].onHand \in Nat
  BY <1>2, BalanceIs DEF LedgerAgrees
<1>10. f[l] \in Int /\ e[l] \in Int
  BY <1>6
<1>11. CASE m = LotOf[l]
  <2>1. f[l] = Counts(lot[l], net[l]) /\ e[l] = Counts(lot'[l], net'[l])
    BY <1>4, <1>5, <1>11 DEF Counts
  <2>2. QED
    BY <1>3, <1>8, <1>9, <1>10, <1>11, <2>1
<1>12. CASE m # LotOf[l]
  <2>1. f[l] = 0 /\ e[l] = 0
    BY <1>4, <1>5, <1>12
  <2>2. QED
    BY <1>3, <1>8, <1>9, <1>12, <2>1
<1>13. QED
  BY <1>11, <1>12

\* A command that leaves the lots and what is on hand leaves the ledger.
LEMMA LedgerStays ==
  ASSUME LedgerAgrees, UNCHANGED stock, \A m \in Materials : bal'[m].onHand = bal[m].onHand
  PROVE  LedgerAgrees'
  BY DEF LedgerAgrees, Accepted, stock

\* The sums of the reservations; the rows of one order move them by as much.
ReservedAgrees == \A m \in Materials : bal[m].reserved = SumFunctionOnSet(ReservedBy(m), Orders)

\* A command that moves the rows of one order, and every balance by the difference.
LEMMA ReservedMoves ==
  ASSUME TypeOK, ReservationsAgree, NEW o \in Orders, active' \in ReservationRows,
         \A p \in Orders, m \in Materials : p # o => active'[p][m] = active[p][m],
         \A m \in Materials :
           bal'[m].reserved = bal[m].reserved - Total(active[o][m]) + Total(active'[o][m])
  PROVE  ReservedAgrees'
<1>1. SUFFICES ASSUME NEW m \in Materials
               PROVE  bal'[m].reserved = SumFunctionOnSet(ReservedBy(m)', Orders)
  BY DEF ReservedAgrees
<1>2. PICK f : f = ReservedBy(m)
  OBVIOUS
<1>3. PICK e : e = ReservedBy(m)'
  OBVIOUS
<1>4. f = [p \in Orders |-> Total(active[p][m])]
  BY <1>2 DEF ReservedBy
<1>5. e = [p \in Orders |-> Total(active'[p][m])]
  BY <1>3 DEF ReservedBy
<1>6. \A p \in Orders : active[p][m] \in Rows /\ active'[p][m] \in Rows
  BY DEF TypeOK, ReservationRows, Rows
<1>7. \A p \in Orders : Total(active[p][m]) \in Nat /\ Total(active'[p][m]) \in Nat
  BY <1>6, TotalNat
<1>8. f \in [Orders -> Int] /\ e \in [Orders -> Int]
  BY <1>4, <1>5, <1>7
<1>9. AgreeBut(f, e, Orders, o)
  BY <1>4, <1>5 DEF AgreeBut
<1>10. SumFunctionOnSet(e, Orders) = SumFunctionOnSet(f, Orders) - f[o] + e[o]
  <2>1. IsFiniteSet(Orders)
    BY InventoryAssumption
  <2>2. QED
    BY <1>8, <1>9, <2>1, SumOne
<1>11. bal[m].reserved = SumFunctionOnSet(f, Orders)
  BY <1>2 DEF ReservationsAgree
<1>12. f[o] = Total(active[o][m]) /\ e[o] = Total(active'[o][m])
  BY <1>4, <1>5
<1>13. QED
  BY <1>3, <1>10, <1>11, <1>12

\* A command that moves no row and no reserved quantity.
LEMMA ReservedStays ==
  ASSUME ReservationsAgree, active' = active, \A m \in Materials : bal'[m].reserved = bal[m].reserved
  PROVE  ReservedAgrees'
  BY DEF ReservationsAgree, ReservedAgrees, ReservedBy

\* A cancelled order has no rows; nothing else writes rows of a cancelled one.
CancelledHoldsNone ==
  \A o \in Orders : state[o] = "CANCELLED" => \A m \in Materials : active[o][m] = <<>>

\* The two halves of what reserved quantities promise.
LEMMA ReservationsMeans == ReservationsAgree <=> ReservedAgrees /\ CancelledHoldsNone
  BY DEF ReservationsAgree, ReservedAgrees, CancelledHoldsNone, Holds

\* The same after a step.
LEMMA ReservationsMeansNext == ReservationsAgree' <=> ReservedAgrees' /\ CancelledHoldsNone'
  BY DEF ReservationsAgree, ReservedAgrees, CancelledHoldsNone, Holds

\* Recomputing writes the locked orders that are kept up to date, and no other.
LEMMA RecomputeIs ==
  ASSUME TypeOK, NEW S, Recompute(S)
  PROVE  /\ mstate' \in [Orders -> MaterialStates]
         /\ \A o \in Orders :
              mstate'[o] = IF o \in S /\ state'[o] \in {"DRAFT", "VALIDATED", "PLANNED"}
                           THEN Assess(o, bal', active') ELSE mstate[o]
<1>1. \A o \in Orders : Assess(o, bal', active') \in MaterialStates
  BY AssessFound
<1>2. \A o \in Orders : mstate[o] \in MaterialStates
  BY DEF TypeOK, MaterialStates
<1>3. \A o \in Orders :
        (IF o \in S /\ state'[o] \in {"DRAFT", "VALIDATED", "PLANNED"}
         THEN Assess(o, bal', active') ELSE mstate[o]) \in MaterialStates
  BY <1>1, <1>2
<1>4. mstate' = [o \in Orders |->
        IF o \in S /\ state'[o] \in {"DRAFT", "VALIDATED", "PLANNED"}
        THEN Assess(o, bal', active') ELSE mstate[o]]
  BY DEF Recompute
<1>5. QED
  BY <1>3, <1>4

\* The types of what transactions have selected.
SelectionsTyped ==
  selected \in [Callers -> Selections] /\ cutoff \in Cutoffs /\ overlooked \subseteq Orders

\* An idle transaction has selected nothing.
LEMMA IdleIs == Idle \in Selections
  BY DEF Idle, Selections

\* A transaction that leaves is idle; the others keep all but what may be late.
LEMMA LeaveIs ==
  ASSUME TypeOK, NEW p \in Callers, NEW missed \in SUBSET Orders, Leave(p, missed)
  PROVE  /\ selected' \in [Callers -> Selections]
         /\ \A q \in Callers : q # p =>
              selected'[q].job = selected[q].job /\ selected'[q].materials = selected[q].materials
<1>1. selected \in [Callers -> Selections]
  BY DEF TypeOK
<1>2. selected' = [q \in Callers |->
        IF q = p \/ selected[q] = Idle THEN Idle
        ELSE [selected[q] EXCEPT !.late = @ \cup missed]]
  BY DEF Leave
<1>3. ASSUME NEW q \in Callers
      PROVE  LET r == [selected[q] EXCEPT !.late = @ \cup missed]
             IN  r \in Selections /\ r.job = selected[q].job /\ r.materials = selected[q].materials
  <2>1. PICK r \in Selections : r = selected[q]
    BY <1>1
  <2>2. r.late \cup missed \in SUBSET Orders
    BY DEF Selections
  <2>3. /\ [r EXCEPT !.late = @ \cup missed] \in Selections
        /\ [r EXCEPT !.late = @ \cup missed].job = r.job
        /\ [r EXCEPT !.late = @ \cup missed].materials = r.materials
    BY <2>2 DEF Selections
  <2>4. QED
    BY <2>1, <2>3
<1>4. QED
  BY <1>2, <1>3, IdleIs

\* A transaction that settles recomputes what it locked; every other order that
\* uses its materials is overlooked, and what was overlooked stays so.
LEMMA SettleIs ==
  ASSUME TypeOK, NEW p \in Callers, NEW own, Settle(p, own)
  PROVE  /\ SelectionsTyped'
         /\ Recompute(selected[p].known \cup own)
         /\ Using(selected[p].materials) \ (selected[p].known \cup own) \subseteq overlooked'
         /\ overlooked \ (selected[p].known \cup own) \subseteq overlooked'
         /\ \A q \in Callers : q # p =>
              selected'[q].job = selected[q].job /\ selected'[q].materials = selected[q].materials
<1> DEFINE locked == selected[p].known \cup own
           missed == Using(selected[p].materials) \ locked
<1>1. /\ Recompute(locked)
      /\ overlooked' = (overlooked \cup missed) \ (locked \ selected[p].late)
      /\ Leave(p, missed)
      /\ cutoff' = cutoff
  BY DEF Settle
<1>2. missed \in SUBSET Orders
  BY DEF Using, Kept
<1>3. /\ selected' \in [Callers -> Selections]
      /\ \A q \in Callers : q # p =>
           selected'[q].job = selected[q].job /\ selected'[q].materials = selected[q].materials
  <2> HIDE DEF missed
  <2>1. QED
    BY <1>1, <1>2, LeaveIs
<1>4. overlooked' \subseteq Orders /\ cutoff' \in Cutoffs
  BY <1>1, <1>2 DEF TypeOK
<1>5. QED
  BY <1>1, <1>3, <1>4 DEF SelectionsTyped

\* A refresh job that waits or runs goes on to do so when another leaves.
LEMMA PendingStays ==
  ASSUME NEW p \in Callers, refresh \subseteq refresh',
         \A q \in Callers : q # p =>
           selected'[q].job = selected[q].job /\ selected'[q].materials = selected[q].materials
  PROVE  Pending \subseteq Pending' \cup {selected[p].materials}
<1>1. SUFFICES ASSUME NEW ms \in Pending, ms # selected[p].materials PROVE ms \in Pending'
  OBVIOUS
<1>2. CASE ms \in refresh
  BY <1>2 DEF Pending
<1>3. CASE ms \notin refresh
  <2>1. PICK q \in Callers : selected[q].job /\ ms = selected[q].materials
    BY <1>1, <1>3 DEF Pending
  <2>2. selected'[q].job /\ ms = selected'[q].materials
    BY <1>1, <2>1
  <2>3. QED
    BY <2>2 DEF Pending
<1>4. QED
  BY <1>2, <1>3

\* A transaction on some materials that recomputes the orders it locked leaves
\* every order that it did not overlook with what its materials are.
LEMMA StatesFollow ==
  ASSUME TypeOK, OnlyMissedAreStale, NEW ms \in SUBSET Materials, NEW S, Recompute(S),
         state' = state, Using(ms) \ S \subseteq overlooked', overlooked \ S \subseteq overlooked',
         Pending \subseteq Pending' \cup {ms},
         \A k \in Materials \ ms : bal'[k] = bal[k],
         \A o \in Orders, k \in Materials \ ms : active'[o][k] = active[o][k]
  PROVE  OnlyMissedAreStale'
<1>1. SUFFICES ASSUME NEW o \in Orders, state[o] \in {"DRAFT", "VALIDATED", "PLANNED"},
                      o \notin overlooked', Stale(o)'
               PROVE  FALSE
  BY DEF OnlyMissedAreStale, Kept
<1>2. /\ mstate'[o] # "UNKNOWN" /\ mstate'[o] # Assess(o, bal', active')
      /\ \A k \in Pending' : k \cap Bom[o] = {}
  BY <1>1 DEF Stale
<1>3. mstate'[o] = IF o \in S /\ state'[o] \in {"DRAFT", "VALIDATED", "PLANNED"}
                   THEN Assess(o, bal', active') ELSE mstate[o]
  BY RecomputeIs
<1>4. o \notin S /\ mstate'[o] = mstate[o]
  BY <1>1, <1>2, <1>3
<1>5. ms \cap Bom[o] = {} /\ o \notin overlooked /\ o \in Kept
  BY <1>1, <1>4 DEF Using, Kept
<1>6. \A k \in Pending : k \cap Bom[o] = {}
  BY <1>2, <1>5
<1>7. mstate[o] = Assess(o, bal, active)
  BY <1>2, <1>4, <1>5, <1>6 DEF OnlyMissedAreStale, Stale
<1>8. \A k \in Bom[o] : bal[k] = bal'[k] /\ active[o][k] = active'[o][k]
  BY <1>5, InventoryAssumption
<1>9. Assess(o, bal, active) = Assess(o, bal', active')
  BY <1>8, AssessSame
<1>10. QED
  BY <1>2, <1>4, <1>7, <1>9

\* The lot and order columns that every command leaves or writes within type.
LEMMA TypeOfRest ==
  ASSUME TypeOK, NEW S, Recompute(S), NewIsUnknown, state' = state
  PROVE  /\ mstate' \in [Orders -> {"UNKNOWN", "READY", "AT_RISK", "SHORTAGE"}]
         /\ NewIsUnknown'
<1>1. /\ mstate' \in [Orders -> MaterialStates]
      /\ \A o \in Orders :
           mstate'[o] = IF o \in S /\ state'[o] \in {"DRAFT", "VALIDATED", "PLANNED"}
                        THEN Assess(o, bal', active') ELSE mstate[o]
  BY RecomputeIs
<1>2. QED
  BY <1>1 DEF NewIsUnknown, MaterialStates

-----------------------------------------------------------------------------
(* The steps: balances, rows and ledger *)

\* The empty factory.
LEMMA StockInit == Init => Stock
<1> SUFFICES ASSUME Init PROVE Stock
  OBVIOUS
<1> USE DEF Init
<1>1. TypeOK
  <2>1. bal \in [Materials -> BalanceRows]
    BY DEF BalanceRows
  <2>2. active \in ReservationRows
    BY EmptySeq DEF ReservationRows
  <2>3. selected \in [Callers -> Selections] /\ overlooked \subseteq Orders
    BY IdleIs
  <2>4. QED
    BY <2>1, <2>2, <2>3 DEF TypeOK, LotRows, MovementRows, States
<1>2. LedgerAgrees
  <2>1. SUFFICES ASSUME NEW m \in Materials PROVE bal[m].onHand = SumFunctionOnSet(Accepted(m), Lots)
    BY DEF LedgerAgrees
  <2>2. \A l \in Lots : Accepted(m)[l] = 0
    BY DEF Accepted
  <2>3. SumFunctionOnSet(Accepted(m), Lots) = 0
    BY <2>2, SumZero, InventoryAssumption
  <2>4. QED
    BY <2>3
<1>3. ReservedAgrees
  <2>1. SUFFICES ASSUME NEW m \in Materials
                 PROVE  bal[m].reserved = SumFunctionOnSet(ReservedBy(m), Orders)
    BY DEF ReservedAgrees
  <2>2. \A o \in Orders : ReservedBy(m)[o] = 0
    BY TotalNone DEF ReservedBy
  <2>3. SumFunctionOnSet(ReservedBy(m), Orders) = 0
    BY <2>2, SumZero, InventoryAssumption
  <2>4. QED
    BY <2>3
<1>4. CancelledHoldsNone /\ NewIsUnknown
  BY DEF CancelledHoldsNone, NewIsUnknown
<1>5. QED
  BY <1>1, <1>2, <1>3, <1>4, ReservationsMeans DEF Stock

\* What a command that writes the balance of one material and recomputes must
\* keep, in one place: the types of all but that balance and the rows.
LEMMA TypesOfCommand ==
  ASSUME TypeOK, NewIsUnknown, NEW p \in Callers, NEW own, Settle(p, own), NEW m \in Materials,
         NEW row \in BalanceRows,
         bal' = [bal EXCEPT ![m] = row], active' \in ReservationRows,
         lot' \in LotRows, net' \in MovementRows, state' = state, refresh' = refresh
  PROVE  TypeOK' /\ NewIsUnknown'
<1>1. /\ mstate' \in [Orders -> {"UNKNOWN", "READY", "AT_RISK", "SHORTAGE"}]
      /\ NewIsUnknown' /\ SelectionsTyped'
  BY SettleIs, TypeOfRest
<1>2. bal' \in [Materials -> BalanceRows]
  BY DEF TypeOK
<1>3. QED
  BY <1>1, <1>2 DEF TypeOK, SelectionsTyped

\* record_receipt: the lot and the balance grow alike, or the lot stays quarantined.
LEMMA ReceiveStock ==
  ASSUME Stock, NEW who \in Callers, NEW l \in Lots, NEW q \in Amounts, NEW accept \in BOOLEAN,
         Receive(who, l, q, accept)
  PROVE  Stock'
<1> DEFINE m == LotOf[l]
           joins == CASE lot[l] = "ACCEPTED" -> q
                      [] lot[l] # "ACCEPTED" /\ accept -> net[l] + q
                      [] OTHER -> 0
           row == [Ensured(m) EXCEPT !.onHand = @ + joins]
<1>1. m \in Materials /\ q \in Nat
  BY InventoryAssumption
<1>2. TypeOK /\ LedgerAgrees /\ ReservationsAgree /\ NewIsUnknown
  BY DEF Stock
<1>3. net[l] \in Nat /\ net[l] + q \in Nat
  BY <1>1, <1>2 DEF TypeOK, MovementRows
<1>4. joins \in Nat
  <2>1. joins \in {0, q, net[l] + q}
    OBVIOUS
  <2>2. QED
    BY <1>1, <1>3, <2>1
<1>5. /\ lot' = [lot EXCEPT ![l] = IF accept \/ @ = "ACCEPTED" THEN "ACCEPTED" ELSE "QUARANTINE"]
      /\ net' = [net EXCEPT ![l] = @ + q]
      /\ bal' = [bal EXCEPT ![m] = [Ensured(m) EXCEPT !.onHand = @ + joins]]
      /\ active' = active /\ state' = state /\ refresh' = refresh
      /\ Settle(who, {})
  BY DEF Receive
<1> HIDE DEF m, joins
<1>6. /\ bal[m].onHand \in Nat /\ bal[m].reserved \in Nat /\ bal[m].reserved <= bal[m].onHand
  BY <1>1, <1>2, BalanceIs
<1>7. /\ Ensured(m) \in BalanceRows
      /\ Ensured(m).onHand = bal[m].onHand /\ Ensured(m).reserved = bal[m].reserved
  BY <1>1, <1>2, EnsuredIs
<1>8. /\ row \in BalanceRows
      /\ row.onHand = bal[m].onHand + joins /\ row.reserved = bal[m].reserved
  BY <1>4, <1>6, <1>7, OnHandWritten
<1> HIDE DEF row
<1>9. /\ \A k \in Materials : bal'[k] = IF k = m THEN row ELSE bal[k]
      /\ bal' = [bal EXCEPT ![m] = row]
  BY <1>2, <1>5 DEF TypeOK, row
<1>10. /\ \A k \in Materials : bal'[k].reserved = bal[k].reserved
       /\ \A k \in Materials : bal'[k].onHand = IF k = m THEN bal[m].onHand + joins ELSE bal[k].onHand
  BY <1>8, <1>9
<1>11. /\ \A k \in Lots : k # l => lot'[k] = lot[k] /\ net'[k] = net[k]
       /\ net'[l] = net[l] + q
       /\ lot'[l] = IF accept \/ lot[l] = "ACCEPTED" THEN "ACCEPTED" ELSE "QUARANTINE"
       /\ lot' \in LotRows /\ net' \in MovementRows
  BY <1>2, <1>3, <1>5 DEF TypeOK, LotRows, MovementRows
<1>12. TypeOK' /\ NewIsUnknown'
  <2>1. active' \in ReservationRows
    BY <1>2, <1>5 DEF TypeOK
  <2>2. QED
    BY <1>1, <1>2, <1>5, <1>8, <1>9, <1>11, <2>1, TypesOfCommand
<1>13. LedgerAgrees'
  <2>1. bal[m].onHand + Counts(lot'[l], net'[l]) - Counts(lot[l], net[l]) = bal[m].onHand + joins
    BY <1>1, <1>3, <1>6, <1>11 DEF Counts, joins
  <2>2. \A k \in Materials :
          bal'[k].onHand = IF k = LotOf[l]
                           THEN bal[k].onHand + Counts(lot'[l], net'[l]) - Counts(lot[l], net[l])
                           ELSE bal[k].onHand
    BY <1>10, <2>1 DEF m
  <2>3. QED
    BY <1>2, <1>11, <2>2, LedgerMoves
<1>14. ReservedAgrees' /\ CancelledHoldsNone'
  BY <1>2, <1>5, <1>10, ReservedStays, ReservationsMeans DEF CancelledHoldsNone
<1>15. QED
  BY <1>12, <1>13, <1>14, ReservationsMeansNext DEF Stock

\* accept_lot: the balance grows by all the lot holds.
LEMMA AcceptLotStock ==
  ASSUME Stock, NEW who \in Callers, NEW l \in Lots, AcceptLot(who, l)
  PROVE  Stock'
<1> DEFINE m == LotOf[l]
           row == [Ensured(m) EXCEPT !.onHand = @ + net[l]]
<1>1. m \in Materials
  BY InventoryAssumption
<1>2. TypeOK /\ LedgerAgrees /\ ReservationsAgree /\ NewIsUnknown
  BY DEF Stock
<1>3. net[l] \in Nat
  BY <1>2 DEF TypeOK, MovementRows
<1>4. /\ lot[l] = "QUARANTINE"
      /\ lot' = [lot EXCEPT ![l] = "ACCEPTED"]
      /\ net' = net
      /\ bal' = [bal EXCEPT ![m] = [Ensured(m) EXCEPT !.onHand = @ + net[l]]]
      /\ active' = active /\ state' = state /\ refresh' = refresh
      /\ Settle(who, {})
  BY DEF AcceptLot
<1> HIDE DEF m
<1>5. /\ bal[m].onHand \in Nat /\ bal[m].reserved \in Nat /\ bal[m].reserved <= bal[m].onHand
  BY <1>1, <1>2, BalanceIs
<1>6. /\ Ensured(m) \in BalanceRows
      /\ Ensured(m).onHand = bal[m].onHand /\ Ensured(m).reserved = bal[m].reserved
  BY <1>1, <1>2, EnsuredIs
<1>7. /\ row \in BalanceRows
      /\ row.onHand = bal[m].onHand + net[l] /\ row.reserved = bal[m].reserved
  BY <1>3, <1>5, <1>6, OnHandWritten
<1> HIDE DEF row
<1>8. /\ \A k \in Materials : bal'[k] = IF k = m THEN row ELSE bal[k]
      /\ bal' = [bal EXCEPT ![m] = row]
  BY <1>2, <1>4 DEF TypeOK, row
<1>9. /\ \A k \in Materials : bal'[k].reserved = bal[k].reserved
      /\ \A k \in Materials : bal'[k].onHand = IF k = m THEN bal[m].onHand + net[l] ELSE bal[k].onHand
  BY <1>7, <1>8
<1>10. /\ \A k \in Lots : k # l => lot'[k] = lot[k] /\ net'[k] = net[k]
       /\ net'[l] = net[l] /\ lot'[l] = "ACCEPTED"
       /\ lot' \in LotRows /\ net' \in MovementRows
  BY <1>2, <1>3, <1>4 DEF TypeOK, LotRows, MovementRows
<1>11. TypeOK' /\ NewIsUnknown'
  <2>1. active' \in ReservationRows
    BY <1>2, <1>4 DEF TypeOK
  <2>2. QED
    BY <1>1, <1>2, <1>4, <1>7, <1>8, <1>10, <2>1, TypesOfCommand
<1>12. LedgerAgrees'
  <2>1. bal[m].onHand + Counts(lot'[l], net'[l]) - Counts(lot[l], net[l]) = bal[m].onHand + net[l]
    BY <1>3, <1>4, <1>5, <1>10 DEF Counts
  <2>2. \A k \in Materials :
          bal'[k].onHand = IF k = LotOf[l]
                           THEN bal[k].onHand + Counts(lot'[l], net'[l]) - Counts(lot[l], net[l])
                           ELSE bal[k].onHand
    BY <1>9, <2>1 DEF m
  <2>3. QED
    BY <1>2, <1>10, <2>2, LedgerMoves
<1>13. ReservedAgrees' /\ CancelledHoldsNone'
  BY <1>2, <1>4, <1>9, ReservedStays, ReservationsMeans DEF CancelledHoldsNone
<1>14. QED
  BY <1>11, <1>12, <1>13, ReservationsMeansNext DEF Stock

\* correct_stock: an accepted lot and its balance move alike, and not below what is reserved.
LEMMA CorrectStock ==
  ASSUME Stock, NEW who \in Callers, NEW l \in Lots, NEW delta \in Int, Correct(who, l, delta)
  PROVE  Stock'
<1> DEFINE m == LotOf[l]
           joins == IF lot[l] = "ACCEPTED" THEN delta ELSE 0
           row == [Ensured(m) EXCEPT !.onHand = @ + joins]
<1>1. m \in Materials
  BY InventoryAssumption
<1>2. TypeOK /\ LedgerAgrees /\ ReservationsAgree /\ NewIsUnknown
  BY DEF Stock
<1>3. net[l] \in Nat /\ net[l] + delta \in Nat
  <2>1. net[l] \in Nat
    BY <1>2 DEF TypeOK, MovementRows
  <2>2. net[l] + delta \in 0..MaxLot
    BY DEF Correct
  <2>3. QED
    BY <2>1, <2>2
<1>4. /\ lot[l] = "ACCEPTED" => bal[m].onHand + delta >= bal[m].reserved
      /\ net' = [net EXCEPT ![l] = @ + delta]
      /\ bal' = [bal EXCEPT ![m] = [Ensured(m) EXCEPT !.onHand = @ + joins]]
      /\ lot' = lot /\ active' = active /\ state' = state /\ refresh' = refresh
      /\ Settle(who, {})
  BY DEF Correct
<1> HIDE DEF m
<1>5. /\ bal[m].onHand \in Nat /\ bal[m].reserved \in Nat /\ bal[m].reserved <= bal[m].onHand
  BY <1>1, <1>2, BalanceIs
<1>6. joins \in Int /\ bal[m].onHand + joins \in Nat /\ bal[m].reserved <= bal[m].onHand + joins
  BY <1>4, <1>5
<1> HIDE DEF joins
<1>7. /\ Ensured(m) \in BalanceRows
      /\ Ensured(m).onHand = bal[m].onHand /\ Ensured(m).reserved = bal[m].reserved
  BY <1>1, <1>2, EnsuredIs
<1>8. /\ row \in BalanceRows
      /\ row.onHand = bal[m].onHand + joins /\ row.reserved = bal[m].reserved
  BY <1>5, <1>6, <1>7, OnHandWritten
<1> HIDE DEF row
<1>9. /\ \A k \in Materials : bal'[k] = IF k = m THEN row ELSE bal[k]
      /\ bal' = [bal EXCEPT ![m] = row]
  BY <1>2, <1>4 DEF TypeOK, row
<1>10. /\ \A k \in Materials : bal'[k].reserved = bal[k].reserved
       /\ \A k \in Materials : bal'[k].onHand = IF k = m THEN bal[m].onHand + joins ELSE bal[k].onHand
  BY <1>8, <1>9
<1>11. /\ \A k \in Lots : k # l => lot'[k] = lot[k] /\ net'[k] = net[k]
       /\ net'[l] = net[l] + delta /\ lot'[l] = lot[l]
       /\ lot' \in LotRows /\ net' \in MovementRows
  BY <1>2, <1>3, <1>4 DEF TypeOK, LotRows, MovementRows
<1>12. TypeOK' /\ NewIsUnknown'
  <2>1. active' \in ReservationRows
    BY <1>2, <1>4 DEF TypeOK
  <2>2. QED
    BY <1>1, <1>2, <1>4, <1>8, <1>9, <1>11, <2>1, TypesOfCommand
<1>13. LedgerAgrees'
  <2>1. bal[m].onHand + Counts(lot'[l], net'[l]) - Counts(lot[l], net[l]) = bal[m].onHand + joins
    BY <1>3, <1>5, <1>11 DEF Counts, joins
  <2>2. \A k \in Materials :
          bal'[k].onHand = IF k = LotOf[l]
                           THEN bal[k].onHand + Counts(lot'[l], net'[l]) - Counts(lot[l], net[l])
                           ELSE bal[k].onHand
    BY <1>10, <2>1 DEF m
  <2>3. QED
    BY <1>2, <1>11, <2>2, LedgerMoves
<1>14. ReservedAgrees' /\ CancelledHoldsNone'
  BY <1>2, <1>4, <1>10, ReservedStays, ReservationsMeans DEF CancelledHoldsNone
<1>15. QED
  BY <1>12, <1>13, <1>14, ReservationsMeansNext DEF Stock

\* Rows of one order for one material are written.
LEMMA OneRowWritten ==
  ASSUME TypeOK, NEW o \in Orders, NEW m \in Materials, NEW rows \in Rows,
         active' = [active EXCEPT ![o][m] = rows]
  PROVE  /\ active' \in ReservationRows
         /\ \A p \in Orders, k \in Materials :
              active'[p][k] = IF p = o /\ k = m THEN rows ELSE active[p][k]
  BY DEF TypeOK, ReservationRows, Rows

\* An issue that is not for an order, or for one.
IssueFor(l, q, consumed) ==
  /\ lot[l] = "ACCEPTED"
  /\ q <= net[l]
  /\ bal[LotOf[l]].onHand - q - (bal[LotOf[l]].reserved - consumed) >= 0
  /\ net' = [net EXCEPT ![l] = @ - q]
  /\ bal' = [bal EXCEPT ![LotOf[l]] = [bal[LotOf[l]] EXCEPT !.onHand = @ - q, !.reserved = @ - consumed]]
  /\ lot' = lot /\ state' = state /\ refresh' = refresh

\* What every issue writes, whatever it consumes of an order's reservations.
LEMMA IssueParts ==
  ASSUME TypeOK, NEW l \in Lots, NEW q \in Nat, NEW consumed \in Nat,
         consumed <= bal[LotOf[l]].reserved, IssueFor(l, q, consumed)
  PROVE  /\ net' \in MovementRows /\ net'[l] = net[l] - q
         /\ \A k \in Lots : k # l => net'[k] = net[k]
         /\ bal' = [bal EXCEPT ![LotOf[l]] = bal'[LotOf[l]]]
         /\ bal'[LotOf[l]] \in BalanceRows
         /\ bal'[LotOf[l]].onHand = bal[LotOf[l]].onHand - q
         /\ bal'[LotOf[l]].reserved = bal[LotOf[l]].reserved - consumed
         /\ \A k \in Materials : k # LotOf[l] => bal'[k] = bal[k]
<1>1. LotOf[l] \in Materials
  BY InventoryAssumption
<1>2. net[l] \in Nat /\ net[l] - q \in Nat
  BY DEF TypeOK, MovementRows, IssueFor
<1>3. /\ net' \in MovementRows /\ net'[l] = net[l] - q
      /\ \A k \in Lots : k # l => net'[k] = net[k]
  BY <1>2 DEF TypeOK, MovementRows, IssueFor
<1>4. PICK b \in BalanceRows : b = bal[LotOf[l]]
  BY <1>1 DEF TypeOK
<1>5. PICK c : c = [b EXCEPT !.onHand = @ - q, !.reserved = @ - consumed]
  OBVIOUS
<1>6. b.onHand \in Nat /\ b.reserved \in Nat /\ b.exists \in BOOLEAN
  BY <1>4 DEF BalanceRows
<1>7. c.onHand = b.onHand - q /\ c.reserved = b.reserved - consumed
  BY <1>4, <1>5 DEF BalanceRows
<1>8. b.reserved - consumed \in Nat /\ b.onHand - q \in Nat /\ b.reserved - consumed <= b.onHand - q
  BY <1>4, <1>6 DEF IssueFor
<1>9. c \in BalanceRows
  BY <1>4, <1>5, <1>8 DEF BalanceRows
<1>10. bal' = [bal EXCEPT ![LotOf[l]] = c]
  BY <1>4, <1>5 DEF IssueFor
<1>11. bal'[LotOf[l]] = c /\ \A k \in Materials : k # LotOf[l] => bal'[k] = bal[k]
  BY <1>1, <1>10 DEF TypeOK
<1>12. QED
  BY <1>3, <1>4, <1>7, <1>9, <1>10, <1>11

\* issue_material: on hand by what is issued, reserved by what is consumed of the rows.
LEMMA IssueStock ==
  ASSUME Stock, NEW who \in Callers, NEW l \in Lots, NEW q \in Amounts,
         NEW o \in Orders \cup {NoOrder}, Issue(who, l, q, o)
  PROVE  Stock'
<1> DEFINE m == LotOf[l]
           own == IF o = NoOrder THEN 0 ELSE Total(active[o][m])
           consumed == IF own < q THEN own ELSE q
<1>1. m \in Materials /\ q \in Nat
  BY InventoryAssumption
<1>2. TypeOK /\ LedgerAgrees /\ ReservationsAgree /\ NewIsUnknown
  BY DEF Stock
<1>3. own \in Nat /\ own <= bal[m].reserved
  <2>1. bal[m].reserved \in Nat
    BY <1>1, <1>2, BalanceIs
  <2>2. CASE o = NoOrder
    BY <2>1, <2>2
  <2>3. CASE o # NoOrder
    <3>1. Total(active[o][m]) \in Nat /\ Total(active[o][m]) <= bal[m].reserved
      BY <1>1, <1>2, <2>3, OwnIsPart
    <3>2. QED
      BY <2>3, <3>1
  <2>4. QED
    BY <2>2, <2>3
<1>4. consumed \in Nat /\ consumed <= own /\ consumed <= q /\ consumed <= bal[m].reserved
  <2>1. bal[m].reserved \in Nat
    BY <1>1, <1>2, BalanceIs
  <2> HIDE DEF own, m
  <2>2. QED
    BY <1>1, <1>3, <2>1
<1>5. PICK b \in BalanceRows : b = bal[m]
  BY <1>1, <1>2 DEF TypeOK
<1>6. PICK after : after = [b EXCEPT !.onHand = @ - q, !.reserved = @ - consumed]
  OBVIOUS
<1>7. after.onHand = b.onHand - q /\ after.reserved = b.reserved - consumed
  BY <1>5, <1>6 DEF BalanceRows
<1>8. Issue(who, l, q, o) =>
        /\ lot[l] = "ACCEPTED" /\ q <= net[l] /\ Available(after) >= 0
        /\ net' = [net EXCEPT ![l] = @ - q]
        /\ bal' = [bal EXCEPT ![m] = after]
        /\ active' = (IF o = NoOrder THEN active
                      ELSE [active EXCEPT ![o][m] = Consumed(@, consumed)])
        /\ lot' = lot /\ state' = state /\ refresh' = refresh
        /\ Settle(who, {o} \cap Orders)
  BY <1>5, <1>6 DEF Issue
<1>9. IssueFor(l, q, consumed)
  BY <1>5, <1>6, <1>7, <1>8 DEF IssueFor, Available
<1>10. Settle(who, {o} \cap Orders)
  BY <1>8
<1>11. active' = (IF o = NoOrder THEN active ELSE [active EXCEPT ![o][m] = Consumed(@, consumed)])
  BY <1>8
<1> DEFINE c == bal'[m]
<1>12. /\ net' \in MovementRows /\ net'[l] = net[l] - q
       /\ \A k \in Lots : k # l => net'[k] = net[k]
       /\ bal' = [bal EXCEPT ![m] = c] /\ c \in BalanceRows
       /\ c.onHand = bal[m].onHand - q /\ c.reserved = bal[m].reserved - consumed
       /\ \A k \in Materials : k # m => bal'[k] = bal[k]
  <2>1. consumed <= bal[LotOf[l]].reserved
    BY <1>4
  <2> HIDE DEF consumed
  <2>2. QED
    BY <1>1, <1>2, <1>4, <1>9, <2>1, IssueParts
<1>13. lot[l] = "ACCEPTED" /\ lot' = lot /\ state' = state /\ refresh' = refresh
  BY <1>9 DEF IssueFor
<1>14. active' \in ReservationRows /\ ReservedAgrees' /\ CancelledHoldsNone'
  <2>1. CASE o = NoOrder
    <3>1. active' = active /\ consumed = 0
      BY <1>1, <1>11, <2>1
    <3>2. \A k \in Materials : bal'[k].reserved = bal[k].reserved
      <4>1. bal[m].reserved \in Nat
        BY <1>1, <1>2, BalanceIs
      <4> HIDE DEF m, consumed
      <4>2. QED
        BY <1>12, <3>1, <4>1
    <3>3. active' \in ReservationRows
      BY <1>2, <3>1 DEF TypeOK
    <3>4. ReservedAgrees'
      BY <1>2, <3>1, <3>2, ReservedStays
    <3>5. CancelledHoldsNone'
      BY <1>2, <1>13, <3>1, ReservationsMeans DEF CancelledHoldsNone
    <3>6. QED
      BY <3>3, <3>4, <3>5
  <2>2. CASE o # NoOrder
    <3>1. o \in Orders
      BY <2>2
    <3>2. active[o][m] \in Rows /\ consumed <= Total(active[o][m]) /\ Total(active[o][m]) \in Nat
      BY <1>1, <1>2, <1>4, <2>2, <3>1, OwnIsPart
    <3> DEFINE rows == Consumed(active[o][m], consumed)
    <3>3. rows \in Rows /\ Total(rows) = Total(active[o][m]) - consumed
      <4> HIDE DEF consumed
      <4>1. QED
        BY <1>4, <3>2, TotalConsumed
    <3>4. active' = [active EXCEPT ![o][m] = rows]
      BY <1>11, <2>2
    <3> HIDE DEF rows
    <3>5. /\ active' \in ReservationRows
          /\ \A p \in Orders, k \in Materials :
               active'[p][k] = IF p = o /\ k = m THEN rows ELSE active[p][k]
      BY ZenonT(40), <1>1, <1>2, <3>1, <3>3, <3>4, OneRowWritten
    <3>6. \A k \in Materials :
            bal'[k].reserved = bal[k].reserved - Total(active[o][k]) + Total(active'[o][k])
      <4>1. SUFFICES ASSUME NEW k \in Materials
                     PROVE  bal'[k].reserved = bal[k].reserved - Total(active[o][k]) + Total(active'[o][k])
        OBVIOUS
      <4>2. bal[k].reserved \in Nat /\ Total(active[o][k]) \in Nat
        BY <1>2, <3>1, BalanceIs, OwnIsPart
      <4>3. CASE k = m
        <5>1. active'[o][k] = rows
          BY <1>1, <3>1, <3>5, <4>3
        <5> HIDE DEF m, consumed
        <5>2. QED
          BY <1>4, <1>12, <3>3, <4>2, <4>3, <5>1
      <4>4. CASE k # m
        <5>1. active'[o][k] = active[o][k]
          BY <3>1, <3>5, <4>4
        <5>2. QED
          BY <1>12, <4>2, <4>4, <5>1
      <4>5. QED
        BY <4>3, <4>4
    <3>7. ReservedAgrees'
      <4>1. \A p \in Orders, k \in Materials : p # o => active'[p][k] = active[p][k]
        BY <3>5
      <4>2. QED
        BY <1>2, <3>1, <3>5, <3>6, <4>1, ReservedMoves
    <3>8. state[o] = "CANCELLED" => rows = <<>>
      <4>1. SUFFICES ASSUME state[o] = "CANCELLED" PROVE rows = <<>>
        OBVIOUS
      <4>2. active[o][m] = <<>>
        BY <1>1, <1>2, <3>1, <4>1, ReservationsMeans DEF CancelledHoldsNone
      <4>3. UsedUp(active[o][m], consumed) = Len(active[o][m])
        <5> HIDE DEF consumed
        <5>1. UsedUp(active[o][m], consumed) \in 0..Len(active[o][m])
          BY <1>4, <3>2, UsedUpIs
        <5>2. Len(active[o][m]) = 0
          BY <4>2, TotalNone
        <5>3. QED
          BY <5>1, <5>2
      <4>4. QED
        BY <4>3 DEF rows, Consumed
    <3>9. CancelledHoldsNone'
      <4>1. CancelledHoldsNone
        BY <1>2, ReservationsMeans
      <4>2. QED
        BY <1>13, <3>5, <3>8, <4>1 DEF CancelledHoldsNone
    <3>10. QED
      BY <3>5, <3>7, <3>9
  <2>3. QED
    BY <2>1, <2>2
<1>15. TypeOK' /\ NewIsUnknown'
  <2>1. lot' \in LotRows
    BY <1>2, <1>13 DEF TypeOK
  <2> HIDE DEF c, m
  <2>2. QED
    BY <1>1, <1>2, <1>10, <1>12, <1>13, <1>14, <2>1, TypesOfCommand
<1>16. LedgerAgrees'
  <2>1. net[l] \in Nat /\ bal[m].onHand \in Nat
    BY <1>1, <1>2, BalanceIs DEF TypeOK, MovementRows
  <2>2. bal[m].onHand + Counts(lot'[l], net'[l]) - Counts(lot[l], net[l]) = bal[m].onHand - q
    BY <1>1, <1>12, <1>13, <2>1 DEF Counts
  <2>3. \A k \in Materials :
          bal'[k].onHand = IF k = LotOf[l]
                           THEN bal[k].onHand + Counts(lot'[l], net'[l]) - Counts(lot[l], net[l])
                           ELSE bal[k].onHand
    BY <1>12, <2>2
  <2>4. \A k \in Lots : k # l => lot'[k] = lot[k] /\ net'[k] = net[k]
    BY <1>12, <1>13
  <2>5. QED
    BY <1>2, <1>12, <2>3, <2>4, LedgerMoves
<1>17. QED
  BY <1>14, <1>15, <1>16, ReservationsMeansNext DEF Stock

\* A command that writes rows of one order for one material, and what the
\* balance reserves by as much.
LEMMA ReservationCommand ==
  ASSUME Stock, NEW o \in Orders, NEW m \in Materials, NEW row \in BalanceRows, NEW rows \in Rows,
         NEW who \in Callers, NEW own, Settle(who, own),
         state[o] = "CANCELLED" => rows = <<>>,
         row.onHand = bal[m].onHand,
         row.reserved = bal[m].reserved - Total(active[o][m]) + Total(rows),
         bal' = [bal EXCEPT ![m] = row], active' = [active EXCEPT ![o][m] = rows],
         UNCHANGED stock, state' = state, refresh' = refresh
  PROVE  Stock'
<1>1. TypeOK /\ LedgerAgrees /\ ReservationsAgree /\ NewIsUnknown
  BY DEF Stock
<1>2. /\ active' \in ReservationRows
      /\ \A p \in Orders, k \in Materials :
           active'[p][k] = IF p = o /\ k = m THEN rows ELSE active[p][k]
  BY <1>1, OneRowWritten
<1>3. \A k \in Materials : bal'[k] = IF k = m THEN row ELSE bal[k]
  BY <1>1 DEF TypeOK
<1>4. TypeOK' /\ NewIsUnknown'
  <2>1. lot' \in LotRows /\ net' \in MovementRows
    BY <1>1 DEF TypeOK, stock
  <2>2. QED
    BY <1>1, <1>2, <2>1, TypesOfCommand
<1>5. LedgerAgrees'
  <2>1. \A k \in Materials : bal'[k].onHand = bal[k].onHand
    BY <1>3
  <2>2. QED
    BY <1>1, <2>1, LedgerStays
<1>6. ReservedAgrees'
  <2>1. \A k \in Materials :
          bal'[k].reserved = bal[k].reserved - Total(active[o][k]) + Total(active'[o][k])
    <3>1. SUFFICES ASSUME NEW k \in Materials
                   PROVE  bal'[k].reserved = bal[k].reserved - Total(active[o][k]) + Total(active'[o][k])
      OBVIOUS
    <3>2. bal[k].reserved \in Nat /\ Total(active[o][k]) \in Nat
      BY <1>1, BalanceIs, OwnIsPart
    <3>3. CASE k = m
      BY <1>2, <1>3, <3>3
    <3>4. CASE k # m
      <4>1. active'[o][k] = active[o][k]
        BY <1>2, <3>4
      <4>2. QED
        BY <1>3, <3>2, <3>4, <4>1
    <3>5. QED
      BY <3>3, <3>4
  <2>2. \A p \in Orders, k \in Materials : p # o => active'[p][k] = active[p][k]
    BY <1>2
  <2>3. QED
    BY <1>1, <1>2, <2>1, <2>2, ReservedMoves
<1>7. CancelledHoldsNone'
  <2>1. CancelledHoldsNone
    BY <1>1, ReservationsMeans
  <2>2. QED
    BY <1>2, <2>1 DEF CancelledHoldsNone
<1>8. QED
  BY <1>4, <1>5, <1>6, <1>7, ReservationsMeansNext DEF Stock

\* reserve_material: one row and the same quantity more.
LEMMA ReserveStock ==
  ASSUME Stock, NEW who \in Callers, NEW o \in Orders, NEW m \in Materials, NEW q \in Amounts,
         Reserve(who, o, m, q)
  PROVE  Stock'
<1>1. q \in Nat \ {0}
  BY InventoryAssumption
<1>2. TypeOK /\ ReservationsAgree
  BY DEF Stock
<1> DEFINE row == [Ensured(m) EXCEPT !.reserved = @ + q]
           rows == Append(active[o][m], q)
<1>3. /\ Ensured(m) \in BalanceRows
      /\ Ensured(m).onHand = bal[m].onHand /\ Ensured(m).reserved = bal[m].reserved
      /\ bal[m].onHand \in Nat /\ bal[m].reserved \in Nat
  BY <1>2, EnsuredIs, BalanceIs
<1>4. Ensured(m).reserved + q \in 0..Ensured(m).onHand
  BY <1>1, <1>3 DEF Reserve, Available
<1>5. /\ row \in BalanceRows
      /\ row.onHand = bal[m].onHand /\ row.reserved = bal[m].reserved + q
  BY <1>1, <1>3, <1>4, ReservedWritten
<1>6. /\ active[o][m] \in Rows /\ Total(active[o][m]) \in Nat
      /\ rows \in Rows /\ Total(rows) = Total(active[o][m]) + q
  BY <1>1, <1>2, OwnIsPart, TotalAppend
<1>7. /\ bal' = [bal EXCEPT ![m] = row] /\ active' = [active EXCEPT ![o][m] = rows]
      /\ UNCHANGED stock /\ state' = state /\ refresh' = refresh
      /\ Settle(who, {o})
      /\ state[o] # "CANCELLED"
  BY DEF Reserve
<1> HIDE DEF row, rows
<1>8. row.reserved = bal[m].reserved - Total(active[o][m]) + Total(rows)
  BY <1>1, <1>3, <1>5, <1>6
<1>9. QED
  BY <1>5, <1>6, <1>7, <1>8, ReservationCommand

\* release_reservation: one row and its quantity less.
LEMMA ReleaseStock ==
  ASSUME Stock, NEW who \in Callers, NEW o \in Orders, NEW m \in Materials,
         NEW i \in DOMAIN active[o][m], Release(who, o, m, i)
  PROVE  Stock'
<1>1. TypeOK /\ ReservationsAgree
  BY DEF Stock
<1> DEFINE q == active[o][m][i]
           row == [bal[m] EXCEPT !.reserved = @ - q]
           rows == RemoveAt(active[o][m], i)
<1>2. /\ active[o][m] \in Rows /\ Total(active[o][m]) \in Nat
      /\ Total(active[o][m]) <= bal[m].reserved
  BY <1>1, OwnIsPart
<1>3. i \in 1..Len(active[o][m]) /\ q \in Nat \ {0}
  <2>1. DOMAIN active[o][m] = 1..Len(active[o][m])
    BY <1>2, LenProperties DEF Rows
  <2>2. QED
    BY <1>2, <2>1, UptoGrows
<1>4. rows \in Rows /\ Total(rows) = Total(active[o][m]) - q /\ Total(rows) \in Nat
  BY <1>2, <1>3, TotalRemoved, TotalNat
<1>5. state[o] # "CANCELLED"
  <2>1. active[o][m] # <<>>
    BY <1>3, TotalNone
  <2>2. QED
    BY <1>1, <2>1, ReservationsMeans DEF CancelledHoldsNone
<1>6. bal' = [bal EXCEPT ![m] = row] /\ active' = [active EXCEPT ![o][m] = rows]
  BY <1>1 DEF Release, TypeOK
<1>7. /\ UNCHANGED stock /\ state' = state /\ refresh' = refresh
      /\ Settle(who, {o})
  BY DEF Release
<1>8. bal[m] \in BalanceRows /\ bal[m].reserved \in Nat
  BY <1>1, BalanceIs DEF TypeOK
<1> HIDE DEF q, rows
<1>9. /\ row \in BalanceRows
      /\ row.onHand = bal[m].onHand /\ row.reserved = bal[m].reserved - q
  <2>1. q \in Nat /\ q <= bal[m].reserved
    BY <1>2, <1>3, <1>4, <1>8
  <2>2. QED
    BY <1>8, <2>1, ReservedTaken
<1> HIDE DEF row
<1>10. row.reserved = bal[m].reserved - Total(active[o][m]) + Total(rows)
  BY <1>2, <1>3, <1>4, <1>8, <1>9
<1>11. QED
  BY <1>4, <1>5, <1>6, <1>7, <1>9, <1>10, ReservationCommand

\* release_order_reservations gives every balance back what the order had.
LEMMA FreedIs ==
  ASSUME TypeOK, ReservationsAgree, NEW o \in Orders, NEW m \in Materials
  PROVE  /\ Freed(o)[m] \in BalanceRows
         /\ Freed(o)[m].onHand = bal[m].onHand /\ Freed(o)[m].exists = bal[m].exists
         /\ Freed(o)[m].reserved = bal[m].reserved - Total(active[o][m])
<1>1. Total(active[o][m]) \in Nat /\ Total(active[o][m]) <= bal[m].reserved /\ bal[m] \in BalanceRows
  BY OwnIsPart DEF TypeOK
<1>2. Freed(o)[m] = [bal[m] EXCEPT !.reserved = @ - Total(active[o][m])]
  BY DEF Freed
<1>3. QED
  BY <1>1, <1>2, ReservedTaken

\* All rows of one order are written, and each balance by as much.
LEMMA OrderRowsWritten ==
  ASSUME Stock, NEW o \in Orders, active' = [active EXCEPT ![o] = active'[o]],
         active'[o] \in [Materials -> Rows], bal' \in [Materials -> BalanceRows], UNCHANGED stock,
         \A m \in Materials :
           /\ bal'[m].onHand = bal[m].onHand
           /\ bal'[m].reserved = bal[m].reserved - Total(active[o][m]) + Total(active'[o][m]),
         state' \in [Orders -> States], \A p \in Orders : p # o => state'[p] = state[p],
         state'[o] # "ABSENT", state'[o] = "CANCELLED" => \A m \in Materials : active'[o][m] = <<>>,
         mstate' \in [Orders -> MaterialStates], \A p \in Orders : p # o => mstate'[p] = mstate[p],
         refresh' \in SUBSET SUBSET Materials, SelectionsTyped'
  PROVE  Stock'
<1>1. TypeOK /\ LedgerAgrees /\ ReservationsAgree /\ NewIsUnknown
  BY DEF Stock
<1>2. /\ active' \in ReservationRows
      /\ \A p \in Orders, m \in Materials : p # o => active'[p][m] = active[p][m]
  BY <1>1 DEF TypeOK, ReservationRows, Rows
<1>3. TypeOK'
  BY <1>1, <1>2 DEF TypeOK, MaterialStates, stock, SelectionsTyped
<1>4. LedgerAgrees'
  BY <1>1, LedgerStays
<1>5. ReservedAgrees'
  BY <1>1, <1>2, ReservedMoves
<1>6. CancelledHoldsNone'
  <2>1. CancelledHoldsNone
    BY <1>1, ReservationsMeans
  <2>2. QED
    BY <1>2, <2>1 DEF CancelledHoldsNone
<1>7. NewIsUnknown'
  BY <1>1 DEF NewIsUnknown
<1>8. QED
  BY <1>3, <1>4, <1>5, <1>6, <1>7, ReservationsMeansNext DEF Stock

\* apply: the order's rows are replaced by those of the plan, material by material.
LEMMA ApplyPlanStock ==
  ASSUME Stock, NEW o \in Orders, NEW plan \in [Materials -> Amounts \cup {0}], ApplyPlan(o, plan)
  PROVE  Stock'
<1> DEFINE chosen == {m \in Bom[o] : plan[m] > 0}
           touched == Bom[o] \cup Holds(o)
           asked(m) == IF m \in chosen THEN plan[m] ELSE 0
<1>1. TypeOK /\ ReservationsAgree
  BY DEF Stock
<1>2. /\ state[o] \in {"VALIDATED", "PLANNED"}
      /\ \A m \in chosen : plan[m] <= Available(Freed(o)[m])
      /\ bal' = [m \in Materials |->
           [exists |-> bal[m].exists \/ m \in touched, onHand |-> bal[m].onHand,
            reserved |-> Freed(o)[m].reserved + asked(m)]]
      /\ active' = [active EXCEPT ![o] =
           [m \in Materials |-> IF m \in chosen THEN <<plan[m]>> ELSE <<>>]]
      /\ state' = [state EXCEPT ![o] = "PLANNED"]
      /\ refresh' = IF touched = {} THEN refresh ELSE refresh \cup {touched}
      /\ UNCHANGED <<stock, selected, cutoff>>
      /\ Recompute({o}) /\ overlooked' = overlooked \ {o}
  BY DEF ApplyPlan
<1>3. Bom[o] \subseteq Materials /\ \A m \in Materials : plan[m] \in Nat
  <2>1. Bom[o] \subseteq Materials
    BY InventoryAssumption
  <2>2. Amounts \cup {0} \subseteq Nat
    BY InventoryAssumption
  <2>3. \A m \in Materials : plan[m] \in Amounts \cup {0}
    OBVIOUS
  <2>4. QED
    BY <2>1, <2>2, <2>3
<1>4. touched \in SUBSET Materials /\ chosen \subseteq Materials
  BY <1>3 DEF Holds
<1>5. ASSUME NEW m \in Materials
      PROVE  /\ asked(m) \in Nat
             /\ Freed(o)[m].reserved \in Nat /\ bal[m].onHand \in Nat
             /\ Freed(o)[m].reserved + asked(m) <= bal[m].onHand
  <2>1. /\ Freed(o)[m] \in BalanceRows /\ Freed(o)[m].onHand = bal[m].onHand
    BY <1>1, FreedIs
  <2>2. Freed(o)[m].reserved \in Nat /\ bal[m].onHand \in Nat /\ Freed(o)[m].reserved <= bal[m].onHand
    BY <2>1 DEF BalanceRows
  <2>3. CASE m \in chosen
    BY <1>2, <1>3, <2>1, <2>2, <2>3 DEF Available
  <2>4. CASE m \notin chosen
    BY <2>2, <2>4
  <2>5. QED
    BY <2>3, <2>4
<1>6. ASSUME NEW m \in Materials
      PROVE  /\ bal'[m] \in BalanceRows
             /\ bal'[m].onHand = bal[m].onHand
             /\ bal'[m].reserved = Freed(o)[m].reserved + asked(m)
  <2>1. (bal[m].exists \/ m \in touched) \in BOOLEAN
    OBVIOUS
  <2>2. bal'[m] = [exists |-> bal[m].exists \/ m \in touched, onHand |-> bal[m].onHand,
                   reserved |-> Freed(o)[m].reserved + asked(m)]
    BY <1>2
  <2>3. bal'[m].onHand = bal[m].onHand /\ bal'[m].reserved = Freed(o)[m].reserved + asked(m)
    BY <2>2
  <2>4. asked(m) \in Nat /\ Freed(o)[m].reserved + asked(m) \in Nat
    BY <1>5
  <2> HIDE DEF asked, touched
  <2>5. bal'[m] \in BalanceRows
    BY <1>5, <2>1, <2>2, <2>4, BalanceMade
  <2>6. QED
    BY <2>3, <2>5
<1>7. ASSUME NEW m \in Materials
      PROVE  active'[o][m] \in Rows /\ Total(active'[o][m]) = asked(m)
  <2>1. active'[o][m] = IF m \in chosen THEN <<plan[m]>> ELSE <<>>
    BY <1>1, <1>2 DEF TypeOK, ReservationRows
  <2>2. CASE m \in chosen
    <3>1. plan[m] \in Nat \ {0}
      BY <1>3, <2>2
    <3>2. QED
      BY <2>1, <2>2, <3>1, TotalOne
  <2>3. CASE m \notin chosen
    BY <2>1, <2>3, TotalNone
  <2>4. QED
    BY <2>2, <2>3
<1>8. active' = [active EXCEPT ![o] = active'[o]] /\ active'[o] \in [Materials -> Rows]
  <2>1. active'[o] = [m \in Materials |-> IF m \in chosen THEN <<plan[m]>> ELSE <<>>]
    BY <1>1, <1>2 DEF TypeOK, ReservationRows
  <2>2. active'[o] \in [Materials -> Rows]
    <3>1. \A m \in Materials : (IF m \in chosen THEN <<plan[m]>> ELSE <<>>) \in Rows
      BY <1>7, <2>1
    <3>2. QED
      BY <2>1, <3>1
  <2>3. QED
    BY <1>2, <2>1, <2>2
<1>9. bal' \in [Materials -> BalanceRows]
  <2>1. bal' = [m \in Materials |-> bal'[m]]
    BY <1>2
  <2>2. QED
    BY <1>6, <2>1
<1>10. \A m \in Materials :
         /\ bal'[m].onHand = bal[m].onHand
         /\ bal'[m].reserved = bal[m].reserved - Total(active[o][m]) + Total(active'[o][m])
  <2>1. SUFFICES ASSUME NEW m \in Materials
                 PROVE  /\ bal'[m].onHand = bal[m].onHand
                        /\ bal'[m].reserved = bal[m].reserved - Total(active[o][m]) + Total(active'[o][m])
    OBVIOUS
  <2>2. Freed(o)[m].reserved = bal[m].reserved - Total(active[o][m])
    BY <1>1, FreedIs
  <2> HIDE DEF asked
  <2>3. QED
    BY <1>6, <1>7, <2>2
<1>11. /\ state' \in [Orders -> States] /\ state'[o] = "PLANNED"
       /\ \A p \in Orders : p # o => state'[p] = state[p]
  BY <1>1, <1>2 DEF TypeOK, States
<1>12. /\ mstate' \in [Orders -> MaterialStates]
       /\ \A p \in Orders : p # o => mstate'[p] = mstate[p]
  <2>1. TypeOK /\ Recompute({o})
    BY <1>1, <1>2
  <2>2. /\ mstate' \in [Orders -> MaterialStates]
        /\ \A p \in Orders :
             mstate'[p] = IF p \in {o} /\ state'[p] \in {"DRAFT", "VALIDATED", "PLANNED"}
                          THEN Assess(p, bal', active') ELSE mstate[p]
    BY <2>1, RecomputeIs
  <2>3. QED
    BY <2>2
<1>13. refresh' \in SUBSET SUBSET Materials
  BY <1>1, <1>2, <1>4 DEF TypeOK
<1>14. UNCHANGED stock /\ SelectionsTyped'
  BY <1>1, <1>2 DEF TypeOK, SelectionsTyped
<1>15. QED
  BY <1>8, <1>9, <1>10, <1>11, <1>12, <1>13, <1>14, OrderRowsWritten

\* cancel: every row of the order is given back.
LEMMA CancelStock ==
  ASSUME Stock, NEW o \in Orders, Cancel(o)
  PROVE  Stock'
<1>1. TypeOK /\ ReservationsAgree
  BY DEF Stock
<1>2. /\ state' = [state EXCEPT ![o] = "CANCELLED"]
      /\ bal' = Freed(o)
      /\ active' = [active EXCEPT ![o] = [m \in Materials |-> <<>>]]
      /\ refresh' = IF Holds(o) = {} THEN refresh ELSE refresh \cup {Holds(o)}
      /\ UNCHANGED <<stock, selections>> /\ mstate' = mstate
  BY DEF Cancel, RowsWithout
<1>3. active'[o] = [m \in Materials |-> <<>>]
  BY <1>1, <1>2 DEF TypeOK, ReservationRows
<1>4. active'[o] \in [Materials -> Rows] /\ active' = [active EXCEPT ![o] = active'[o]]
  BY <1>2, <1>3, TotalNone
<1>5. bal' \in [Materials -> BalanceRows]
  <2>1. \A m \in Materials : Freed(o)[m] \in BalanceRows
    BY <1>1, FreedIs
  <2>2. Freed(o) = [m \in Materials |-> Freed(o)[m]]
    BY DEF Freed
  <2>3. QED
    BY <1>2, <2>1, <2>2
<1>6. \A m \in Materials :
        /\ bal'[m].onHand = bal[m].onHand
        /\ bal'[m].reserved = bal[m].reserved - Total(active[o][m]) + Total(active'[o][m])
  <2>1. SUFFICES ASSUME NEW m \in Materials
                 PROVE  /\ bal'[m].onHand = bal[m].onHand
                        /\ bal'[m].reserved = bal[m].reserved - Total(active[o][m]) + Total(active'[o][m])
    OBVIOUS
  <2>2. /\ Freed(o)[m].onHand = bal[m].onHand
        /\ Freed(o)[m].reserved = bal[m].reserved - Total(active[o][m])
        /\ bal[m].reserved \in Nat /\ Total(active[o][m]) \in Nat
    BY <1>1, FreedIs, BalanceIs, OwnIsPart
  <2>3. Total(active'[o][m]) = 0
    BY <1>3, TotalNone
  <2>4. QED
    BY <1>2, <2>2, <2>3
<1>7. /\ state' \in [Orders -> States] /\ state'[o] # "ABSENT"
      /\ \A p \in Orders : p # o => state'[p] = state[p]
  BY <1>1, <1>2 DEF TypeOK, States
<1>8. mstate' \in [Orders -> MaterialStates] /\ \A p \in Orders : p # o => mstate'[p] = mstate[p]
  BY <1>1, <1>2 DEF TypeOK, MaterialStates
<1>9. refresh' \in SUBSET SUBSET Materials
  BY <1>1, <1>2 DEF TypeOK, Holds
<1>10. UNCHANGED stock /\ SelectionsTyped' /\ \A m \in Materials : active'[o][m] = <<>>
  BY <1>1, <1>2, <1>3 DEF TypeOK, SelectionsTyped, selections
<1>11. QED
  BY <1>4, <1>5, <1>6, <1>7, <1>8, <1>9, <1>10, OrderRowsWritten

\* Steps that leave the rows and the quantities of the balances.
LEMMA QuietStock ==
  ASSUME Stock, UNCHANGED stock, active' = active, bal' \in [Materials -> BalanceRows],
         \A m \in Materials : bal'[m].onHand = bal[m].onHand /\ bal'[m].reserved = bal[m].reserved,
         state' \in [Orders -> States],
         \A o \in Orders : state'[o] = "CANCELLED" => state[o] = "CANCELLED",
         mstate' \in [Orders -> MaterialStates], NewIsUnknown',
         refresh' \in SUBSET SUBSET Materials, SelectionsTyped'
  PROVE  Stock'
<1>1. TypeOK /\ LedgerAgrees /\ ReservationsAgree
  BY DEF Stock
<1>2. TypeOK'
  BY <1>1 DEF TypeOK, MaterialStates, stock, SelectionsTyped
<1>3. LedgerAgrees'
  BY <1>1, LedgerStays
<1>4. ReservedAgrees'
  BY <1>1, ReservedStays
<1>5. CancelledHoldsNone'
  BY <1>1, ReservationsMeans DEF CancelledHoldsNone
<1>6. QED
  BY <1>2, <1>3, <1>4, <1>5, ReservationsMeansNext DEF Stock

\* A refused plan, a creation and a transition leave stock and reservations alone.
LEMMA QuietSteps ==
  ASSUME Stock, NEW o \in Orders, RefusePlan(o) \/ Create(o) \/ Transition(o)
  PROVE  Stock'
<1>1. TypeOK /\ NewIsUnknown
  BY DEF Stock
<1>2. mstate \in [Orders -> MaterialStates]
  BY <1>1 DEF TypeOK, MaterialStates
<1>3. CASE RefusePlan(o)
  <2>1. /\ bal' = [m \in Materials |-> IF m \in Bom[o] THEN Ensured(m) ELSE bal[m]]
        /\ UNCHANGED <<stock, active, state, mstate, refresh, selections>>
    BY <1>3 DEF RefusePlan
  <2>2. \A m \in Materials :
          /\ bal'[m] \in BalanceRows
          /\ bal'[m].onHand = bal[m].onHand /\ bal'[m].reserved = bal[m].reserved
    BY <1>1, <2>1, EnsuredIs DEF TypeOK
  <2>3. bal' \in [Materials -> BalanceRows]
    <3>1. bal' = [m \in Materials |-> bal'[m]]
      BY <2>1
    <3>2. QED
      BY <2>2, <3>1
  <2>4. /\ state' \in [Orders -> States] /\ mstate' \in [Orders -> MaterialStates]
        /\ NewIsUnknown' /\ SelectionsTyped' /\ refresh' \in SUBSET SUBSET Materials
    BY <1>1, <1>2, <2>1 DEF TypeOK, NewIsUnknown, SelectionsTyped, selections
  <2>5. QED
    BY <2>1, <2>2, <2>3, <2>4, QuietStock
<1>4. CASE Create(o) \/ Transition(o)
  <2>1. /\ UNCHANGED <<stock, bal, active, mstate, refresh, selections>>
        /\ state' \in [Orders -> States]
        /\ \A p \in Orders : state'[p] = "CANCELLED" => state[p] = "CANCELLED"
        /\ \A p \in Orders : state'[p] = "ABSENT" => state[p] = "ABSENT"
    BY <1>1, <1>4 DEF Create, Transition, TypeOK, States
  <2>2. /\ bal' \in [Materials -> BalanceRows] /\ mstate' \in [Orders -> MaterialStates]
        /\ NewIsUnknown' /\ SelectionsTyped' /\ refresh' \in SUBSET SUBSET Materials
    BY <1>1, <1>2, <2>1 DEF TypeOK, NewIsUnknown, SelectionsTyped, selections
  <2>3. QED
    BY <2>1, <2>2, QuietStock
<1>5. QED
  BY <1>3, <1>4

\* A selection, its end, and a refresh job write states and selections only.
LEMMA SelectionStock ==
  ASSUME Stock, NEW p \in Callers,
         \/ \E m \in Materials : Select(p, m)
         \/ \E ms \in refresh : StartRefresh(p, ms)
         \/ Abandon(p) \/ FinishRefresh(p) \/ RefreshFails(p)
  PROVE  Stock'
<1>1. TypeOK /\ NewIsUnknown
  BY DEF Stock
<1>2. UNCHANGED <<stock, bal, active, state>> /\ refresh' \in SUBSET SUBSET Materials
  <2>1. selected[p].materials \in SUBSET Materials
    BY <1>1 DEF TypeOK, Selections
  <2>2. QED
    BY <1>1, <2>1 DEF Select, StartRefresh, Selecting, Abandon, FinishRefresh, RefreshFails, TypeOK
<1>3. mstate' \in [Orders -> MaterialStates] /\ NewIsUnknown' /\ SelectionsTyped'
  <2>1. CASE FinishRefresh(p)
    <3>1. Settle(p, {})
      BY <2>1 DEF FinishRefresh
    <3>2. QED
      BY <1>1, <1>2, <3>1, SettleIs, TypeOfRest DEF MaterialStates
  <2>2. CASE \E ms \in SUBSET Materials, isJob \in BOOLEAN : Selecting(p, ms, isJob)
    <3>1. PICK ms \in SUBSET Materials, isJob \in BOOLEAN : Selecting(p, ms, isJob)
      BY <2>2
    <3> DEFINE r == [materials |-> ms, known |-> Earliest(Using(ms)), late |-> {}, job |-> isJob]
    <3>2. r \in Selections
      BY DEF Selections, Earliest, Using, Kept
    <3>3. selected' = [selected EXCEPT ![p] = r] /\ UNCHANGED <<mstate, cutoff, overlooked, state>>
      BY <3>1 DEF Selecting
    <3> HIDE DEF r
    <3>4. QED
      BY <1>1, <3>2, <3>3 DEF TypeOK, MaterialStates, NewIsUnknown, SelectionsTyped
  <2>3. CASE Abandon(p)
    <3>1. Leave(p, {}) /\ UNCHANGED <<mstate, cutoff, overlooked, state>>
      BY <2>3 DEF Abandon
    <3>2. selected' \in [Callers -> Selections]
      BY <1>1, <3>1, LeaveIs
    <3>3. QED
      BY <1>1, <3>1, <3>2 DEF TypeOK, MaterialStates, NewIsUnknown, SelectionsTyped
  <2>4. CASE RefreshFails(p)
    <3>1. PICK missed \in SUBSET Orders : Leave(p, missed) /\ overlooked' \subseteq overlooked \cup missed
      BY <2>4 DEF RefreshFails, Using, Kept
    <3>2. selected' \in [Callers -> Selections]
      BY <1>1, <3>1, LeaveIs
    <3>3. UNCHANGED <<mstate, cutoff, state>>
      BY <2>4 DEF RefreshFails
    <3>4. QED
      BY <1>1, <3>1, <3>2, <3>3 DEF TypeOK, MaterialStates, NewIsUnknown, SelectionsTyped
  <2>5. QED
    <3>1. \A m \in Materials : {m} \in SUBSET Materials
      OBVIOUS
    <3>2. \A ms \in refresh : ms \in SUBSET Materials
      BY <1>1 DEF TypeOK
    <3>3. (\E m \in Materials : Select(p, m)) \/ (\E ms \in refresh : StartRefresh(p, ms))
            => \E ms \in SUBSET Materials, isJob \in BOOLEAN : Selecting(p, ms, isJob)
      BY <3>1, <3>2 DEF Select, StartRefresh
    <3>4. QED
      BY <2>1, <2>2, <2>3, <2>4, <3>3
<1>4. bal' \in [Materials -> BalanceRows] /\ state' \in [Orders -> States]
  BY <1>1, <1>2 DEF TypeOK
<1>5. QED
  BY <1>2, <1>3, <1>4, QuietStock

-----------------------------------------------------------------------------
(* The steps: material states *)

\* A transaction that settles, whatever it wrote to its own materials.
LEMMA SettledStates ==
  ASSUME IInv, NEW p \in Callers, NEW own, Settle(p, own), state' = state,
         refresh \subseteq refresh',
         \A k \in Materials \ selected[p].materials : bal'[k] = bal[k],
         \A o \in Orders, k \in Materials \ selected[p].materials : active'[o][k] = active[o][k]
  PROVE  OnlyMissedAreStale'
<1>1. TypeOK /\ OnlyMissedAreStale
  BY DEF IInv, Stock
<1>2. PICK ms \in SUBSET Materials : ms = selected[p].materials
  BY <1>1 DEF TypeOK, Selections
<1>3. PICK S : S = selected[p].known \cup own
  OBVIOUS
<1>4. /\ Recompute(S) /\ Using(ms) \ S \subseteq overlooked' /\ overlooked \ S \subseteq overlooked'
      /\ \A q \in Callers : q # p =>
           selected'[q].job = selected[q].job /\ selected'[q].materials = selected[q].materials
  BY <1>1, <1>2, <1>3, SettleIs
<1>5. Pending \subseteq Pending' \cup {ms}
  BY <1>2, <1>4, PendingStays
<1>6. QED
  BY <1>1, <1>2, <1>4, <1>5, StatesFollow

\* Every command on one material recomputes the orders it locked.
LEMMA CommandStates ==
  ASSUME IInv, NEW who \in Callers, NEW l \in Lots, NEW q, NEW accept, NEW d, NEW p,
         Receive(who, l, q, accept) \/ AcceptLot(who, l) \/ Issue(who, l, q, p) \/ Correct(who, l, d)
  PROVE  OnlyMissedAreStale'
<1> DEFINE m == LotOf[l]
<1>1. m \in Materials
  BY InventoryAssumption
<1>2. TypeOK
  BY DEF IInv, Stock
<1>3. /\ \A k \in Materials : k # m => bal'[k] = bal[k]
      /\ \A o \in Orders, k \in Materials : k # m => active'[o][k] = active[o][k]
      /\ state' = state /\ refresh' = refresh
      /\ selected[who].materials = {m}
      /\ \E own : Settle(who, own)
  <2>1. CASE Receive(who, l, q, accept)
    BY <1>2, <2>1 DEF Receive, Runs, TypeOK
  <2>2. CASE AcceptLot(who, l)
    BY <1>2, <2>2 DEF AcceptLot, Runs, TypeOK
  <2>3. CASE Correct(who, l, d)
    BY <1>2, <2>3 DEF Correct, Runs, TypeOK
  <2>4. CASE Issue(who, l, q, p)
    <3>1. PICK after, consumed :
            /\ bal' = [bal EXCEPT ![m] = after]
            /\ active' = (IF p = NoOrder THEN active
                          ELSE [active EXCEPT ![p][m] = Consumed(@, consumed)])
            /\ state' = state /\ refresh' = refresh
            /\ Runs(who, m) /\ Settle(who, {p} \cap Orders)
      BY <2>4 DEF Issue
    <3>2. \A o \in Orders, k \in Materials : k # m => active'[o][k] = active[o][k]
      BY <1>2, <3>1 DEF TypeOK, ReservationRows
    <3>3. QED
      BY <1>2, <3>1, <3>2 DEF TypeOK, Runs
  <2>5. QED
    BY <2>1, <2>2, <2>3, <2>4
<1> HIDE DEF m
<1>4. PICK own : Settle(who, own)
  BY <1>3
<1>5. QED
  BY <1>1, <1>3, <1>4, SettledStates

\* Reserve and release recompute the orders they locked.
LEMMA ReservationStates ==
  ASSUME IInv, NEW who \in Callers, NEW o \in Orders, NEW m \in Materials, NEW q, NEW i,
         Reserve(who, o, m, q) \/ Release(who, o, m, i)
  PROVE  OnlyMissedAreStale'
<1>1. TypeOK
  BY DEF IInv, Stock
<1>2. /\ \A k \in Materials : k # m => bal'[k] = bal[k]
      /\ \A p \in Orders, k \in Materials : k # m => active'[p][k] = active[p][k]
      /\ state' = state /\ refresh' = refresh
      /\ selected[who].materials = {m}
      /\ Settle(who, {o})
  <2>1. CASE Reserve(who, o, m, q)
    BY <1>1, <2>1 DEF Reserve, Runs, TypeOK, ReservationRows
  <2>2. CASE Release(who, o, m, i)
    BY <1>1, <2>2 DEF Release, Runs, TypeOK, ReservationRows
  <2>3. QED
    BY <2>1, <2>2
<1>3. QED
  BY <1>2, SettledStates

\* An order that is not stale, whose state, materials and rows are as they were,
\* and of whose refresh jobs none has gone, is not stale.
LEMMA StatesStay ==
  ASSUME OnlyMissedAreStale, NEW p \in Kept, p \notin overlooked, mstate'[p] = mstate[p],
         \A m \in Bom[p] : bal'[m] = bal[m] /\ active'[p][m] = active[p][m],
         \A ms \in Pending : ms \cap Bom[p] # {} => ms \in Pending'
  PROVE  ~Stale(p)'
<1>1. SUFFICES ASSUME Stale(p)' PROVE FALSE
  OBVIOUS
<1>2. /\ mstate[p] # "UNKNOWN" /\ mstate[p] # Assess(p, bal', active')
      /\ \A ms \in Pending' : ms \cap Bom[p] = {}
  BY <1>1 DEF Stale
<1>3. mstate[p] = Assess(p, bal, active)
  BY <1>2 DEF OnlyMissedAreStale, Stale
<1>4. p \in Orders
  BY DEF Kept
<1>5. Assess(p, bal, active) = Assess(p, bal', active')
  BY <1>4, AssessSame
<1>6. QED
  BY <1>2, <1>3, <1>5

\* Refresh jobs that wait are added to; those at work go on.
LEMMA PendingGrows ==
  ASSUME UNCHANGED selected, refresh \subseteq refresh'
  PROVE  Pending \subseteq Pending'
  BY DEF Pending

\* Cancelling an order and applying its plan queue a refresh of what they move.
LEMMA CancelStates ==
  ASSUME IInv, NEW o \in Orders, Cancel(o)
  PROVE  OnlyMissedAreStale'
<1>1. TypeOK /\ ReservationsAgree /\ OnlyMissedAreStale
  BY DEF IInv, Stock
<1>2. SUFFICES ASSUME NEW p \in Orders, state'[p] \in {"DRAFT", "VALIDATED", "PLANNED"},
                      p \notin overlooked', \A ms \in Pending' : ms \cap Bom[p] = {}
               PROVE  ~Stale(p)'
  BY DEF OnlyMissedAreStale, Kept, Stale
<1>3. /\ state' = [state EXCEPT ![o] = "CANCELLED"]
      /\ bal' = Freed(o)
      /\ active' = [active EXCEPT ![o] = [m \in Materials |-> <<>>]]
      /\ refresh' = IF Holds(o) = {} THEN refresh ELSE refresh \cup {Holds(o)}
      /\ mstate' = mstate /\ UNCHANGED selections
  BY DEF Cancel, RowsWithout
<1>4. p # o /\ p \in Kept
  BY <1>1, <1>2, <1>3 DEF TypeOK, Kept
<1>5. Holds(o) \cap Bom[p] = {}
  BY <1>2, <1>3 DEF Pending
<1>6. Bom[p] \subseteq Materials
  BY InventoryAssumption
<1>7. ASSUME NEW m \in Bom[p] PROVE bal'[m] = bal[m] /\ active'[p][m] = active[p][m]
  <2>1. m \in Materials /\ active[o][m] = <<>>
    BY <1>5, <1>6 DEF Holds
  <2>2. bal'[m] = [bal[m] EXCEPT !.reserved = @ - Total(active[o][m])]
    BY <1>3, <2>1 DEF Freed
  <2>3. Total(active[o][m]) = 0
    BY <2>1, TotalNone
  <2>4. bal[m] \in BalanceRows
    BY <1>1, <2>1 DEF TypeOK
  <2>5. bal'[m] = bal[m]
    BY <2>2, <2>3, <2>4 DEF BalanceRows
  <2>6. active'[p][m] = active[p][m]
    BY <1>1, <1>3, <1>4 DEF TypeOK, ReservationRows
  <2>7. QED
    BY <2>5, <2>6
<1>8. p \notin overlooked /\ mstate'[p] = mstate[p] /\ Pending \subseteq Pending'
  BY <1>2, <1>3, PendingGrows DEF selections
<1>9. QED
  BY <1>1, <1>4, <1>7, <1>8, StatesStay

\* apply recomputes its own order and queues a refresh for the rest.
LEMMA ApplyPlanStates ==
  ASSUME IInv, NEW o \in Orders, NEW plan \in [Materials -> Amounts \cup {0}], ApplyPlan(o, plan)
  PROVE  OnlyMissedAreStale'
<1> DEFINE chosen == {m \in Bom[o] : plan[m] > 0}
           touched == Bom[o] \cup Holds(o)
<1>1. TypeOK /\ ReservationsAgree /\ OnlyMissedAreStale
  BY DEF IInv, Stock
<1>2. SUFFICES ASSUME NEW p \in Orders, state'[p] \in {"DRAFT", "VALIDATED", "PLANNED"},
                      p \notin overlooked', \A ms \in Pending' : ms \cap Bom[p] = {}
               PROVE  ~Stale(p)'
  BY DEF OnlyMissedAreStale, Kept, Stale
<1>3. /\ bal' = [m \in Materials |->
           [exists |-> bal[m].exists \/ m \in touched, onHand |-> bal[m].onHand,
            reserved |-> Freed(o)[m].reserved + IF m \in chosen THEN plan[m] ELSE 0]]
      /\ active' = [active EXCEPT ![o] =
           [m \in Materials |-> IF m \in chosen THEN <<plan[m]>> ELSE <<>>]]
      /\ state' = [state EXCEPT ![o] = "PLANNED"]
      /\ refresh' = IF touched = {} THEN refresh ELSE refresh \cup {touched}
      /\ Recompute({o}) /\ selected' = selected /\ overlooked' = overlooked \ {o}
  BY DEF ApplyPlan
<1>4. mstate'[p] = IF p \in {o} /\ state'[p] \in {"DRAFT", "VALIDATED", "PLANNED"}
                   THEN Assess(p, bal', active') ELSE mstate[p]
  BY <1>1, <1>3, RecomputeIs
<1>5. CASE p = o
  BY <1>2, <1>4, <1>5 DEF Stale
<1>6. CASE p # o
  <2>1. p \in Kept /\ mstate'[p] = mstate[p]
    BY <1>1, <1>2, <1>3, <1>4, <1>6 DEF TypeOK, Kept
  <2>2. touched \cap Bom[p] = {}
    BY <1>2, <1>3 DEF Pending
  <2>3. Bom[p] \subseteq Materials
    BY InventoryAssumption
  <2>4. ASSUME NEW m \in Bom[p] PROVE bal'[m] = bal[m] /\ active'[p][m] = active[p][m]
    <3>1. m \in Materials /\ active[o][m] = <<>> /\ m \notin touched /\ m \notin chosen
      BY <2>2, <2>3, <2>4 DEF Holds
    <3>2. Freed(o)[m].reserved = bal[m].reserved - Total(active[o][m])
      BY <1>1, <3>1, FreedIs
    <3>3. Total(active[o][m]) = 0 /\ bal[m].reserved \in Nat
      BY <1>1, <3>1, TotalNone, BalanceIs
    <3>4. Freed(o)[m].reserved + 0 = bal[m].reserved
      BY <3>2, <3>3
    <3>5. bal'[m] = [exists |-> bal[m].exists \/ m \in touched, onHand |-> bal[m].onHand,
                     reserved |-> Freed(o)[m].reserved + IF m \in chosen THEN plan[m] ELSE 0]
      BY <1>3, <3>1
    <3>6. bal[m] \in [exists : BOOLEAN, onHand : Nat, reserved : Nat]
      BY <1>1, <3>1 DEF TypeOK, BalanceRows
    <3> HIDE DEF touched, chosen
    <3>7. bal'[m] = [exists |-> bal[m].exists \/ m \in touched, onHand |-> bal[m].onHand,
                     reserved |-> bal[m].reserved]
      BY <3>1, <3>4, <3>5
    <3>8. bal[m].exists \in BOOLEAN
      BY <3>6
    <3>9. (bal[m].exists \/ m \in touched) = bal[m].exists
      BY <3>1, <3>8
    <3>10. bal'[m] = [exists |-> bal[m].exists, onHand |-> bal[m].onHand, reserved |-> bal[m].reserved]
      BY <3>7, <3>9
    <3>11. bal'[m] = bal[m]
      BY <3>6, <3>10
    <3>12. active'[p][m] = active[p][m]
      BY <1>1, <1>3, <1>6 DEF TypeOK, ReservationRows
    <3>13. QED
      BY <3>11, <3>12
  <2>5. p \notin overlooked /\ Pending \subseteq Pending'
    BY <1>2, <1>3, <1>6, PendingGrows
  <2>6. QED
    BY <1>1, <2>1, <2>4, <2>5, StatesStay
<1>7. QED
  BY <1>5, <1>6

\* A refused plan creates balances only; an order that shows anything but
\* UNKNOWN had all of its own.
LEMMA QuietStates ==
  ASSUME IInv, NEW o \in Orders, RefusePlan(o) \/ Create(o) \/ Transition(o)
  PROVE  OnlyMissedAreStale'
<1>1. TypeOK /\ OnlyMissedAreStale /\ NewIsUnknown
  BY DEF IInv, Stock
<1>2. SUFFICES ASSUME NEW p \in Orders, state'[p] \in {"DRAFT", "VALIDATED", "PLANNED"},
                      p \notin overlooked', mstate'[p] # "UNKNOWN",
                      \A ms \in Pending' : ms \cap Bom[p] = {}
               PROVE  ~Stale(p)'
  BY DEF OnlyMissedAreStale, Kept, Stale
<1>3. mstate' = mstate /\ active' = active /\ refresh' = refresh /\ UNCHANGED selections
  BY DEF RefusePlan, Create, Transition
<1>4. p \in Kept
  <2>1. CASE Create(o)
    <3>1. p # o
      BY <1>1, <1>2, <1>3, <2>1 DEF Create, NewIsUnknown
    <3>2. QED
      BY <1>1, <1>2, <2>1, <3>1 DEF Create, TypeOK, Kept
  <2>2. CASE RefusePlan(o) \/ Transition(o)
    BY <1>1, <1>2, <2>2 DEF RefusePlan, Transition, TypeOK, Kept
  <2>3. QED
    BY <2>1, <2>2
<1>5. mstate[p] = Assess(p, bal, active) /\ mstate[p] # "UNKNOWN"
  <2>1. mstate[p] # "UNKNOWN"
    BY <1>2, <1>3
  <2>2. p \notin overlooked /\ \A ms \in Pending : ms \cap Bom[p] = {}
    BY <1>2, <1>3, PendingGrows DEF selections
  <2>3. QED
    BY <1>1, <1>4, <2>1, <2>2 DEF OnlyMissedAreStale, Stale
<1>6. \A m \in Bom[p] : bal[m].exists /\ m \in Materials
  <2>1. \A m \in Bom[p] : ~bal[m].exists => Assess(p, bal, active) = "UNKNOWN"
    BY AssessFound
  <2>2. Bom[p] \subseteq Materials
    BY InventoryAssumption
  <2>3. QED
    BY <1>5, <2>1, <2>2
<1>7. ASSUME NEW m \in Bom[p] PROVE bal'[m] = bal[m] /\ active'[p][m] = active[p][m]
  <2>1. CASE RefusePlan(o)
    <3>1. bal'[m] = IF m \in Bom[o] THEN [bal[m] EXCEPT !.exists = TRUE] ELSE bal[m]
      BY <1>6, <2>1 DEF RefusePlan, Ensured
    <3>2. bal[m] \in [exists : BOOLEAN, onHand : Nat, reserved : Nat] /\ bal[m].exists
      BY <1>1, <1>6 DEF TypeOK, BalanceRows
    <3>3. bal[m].exists = TRUE
      BY <3>2
    <3>4. [bal[m] EXCEPT !.exists = TRUE] = bal[m]
      BY <3>2, <3>3
    <3>5. QED
      BY <1>3, <3>1, <3>4
  <2>2. CASE Create(o) \/ Transition(o)
    BY <2>2 DEF Create, Transition
  <2>3. QED
    BY <2>1, <2>2
<1>8. p \notin overlooked /\ Pending \subseteq Pending'
  BY <1>2, <1>3, PendingGrows DEF selections
<1>9. QED
  BY <1>1, <1>3, <1>4, <1>7, <1>8, StatesStay

\* A selection keeps its refresh job pending, a failed attempt leaves it to the
\* next or overlooks its orders, and one that succeeds recomputes them.
LEMMA SelectionStates ==
  ASSUME IInv, NEW p \in Callers,
         \/ \E m \in Materials : Select(p, m)
         \/ \E ms \in refresh : StartRefresh(p, ms)
         \/ Abandon(p) \/ FinishRefresh(p) \/ RefreshFails(p)
  PROVE  OnlyMissedAreStale'
<1>1. TypeOK /\ OnlyMissedAreStale
  BY DEF IInv, Stock
<1>2. CASE FinishRefresh(p)
  <2>1. Settle(p, {}) /\ UNCHANGED <<bal, active, state, refresh>>
    BY <1>2 DEF FinishRefresh
  <2>2. QED
    BY <2>1, SettledStates
<1>3. CASE ~FinishRefresh(p)
  <2>1. UNCHANGED <<bal, active, state, mstate>>
    BY <1>3 DEF Select, StartRefresh, Selecting, Abandon, RefreshFails
  <2>2. /\ overlooked \subseteq overlooked'
        /\ \A ms \in Pending : ms \in Pending' \/ Using(ms) \subseteq overlooked'
    <3>1. CASE Abandon(p)
      <4>1. /\ overlooked' = overlooked /\ refresh' = refresh
            /\ \A q \in Callers : q # p =>
                 selected'[q].job = selected[q].job /\ selected'[q].materials = selected[q].materials
        BY <1>1, <3>1, LeaveIs DEF Abandon
      <4>2. ~selected[p].job
        BY <3>1 DEF Abandon
      <4>3. QED
        BY <4>1, <4>2 DEF Pending
    <3>2. CASE RefreshFails(p)
      <4>1. PICK ms : ms = selected[p].materials
        OBVIOUS
      <4>2. PICK missed \in SUBSET Orders :
              /\ Leave(p, missed) /\ overlooked \subseteq overlooked' /\ refresh \subseteq refresh'
              /\ ms \in refresh' \/ Using(ms) \subseteq overlooked'
        BY <3>2, <4>1 DEF RefreshFails, Using, Kept
      <4>3. \A q \in Callers : q # p =>
              selected'[q].job = selected[q].job /\ selected'[q].materials = selected[q].materials
        BY <1>1, <4>2, LeaveIs
      <4>4. Pending \subseteq Pending' \cup {ms}
        BY <4>1, <4>2, <4>3, PendingStays
      <4>5. ms \in Pending' \/ Using(ms) \subseteq overlooked'
        BY <4>2 DEF Pending
      <4>6. QED
        BY <4>2, <4>4, <4>5
    <3>3. CASE \E ms, isJob : Selecting(p, ms, isJob) /\ refresh \ refresh' \subseteq {ms}
                            /\ (refresh' # refresh => isJob = TRUE)
      <4>1. PICK ms, isJob : /\ Selecting(p, ms, isJob) /\ refresh \ refresh' \subseteq {ms}
                             /\ refresh' # refresh => isJob = TRUE
        BY <3>3
      <4> DEFINE r == [materials |-> ms, known |-> Earliest(Using(ms)), late |-> {}, job |-> isJob]
      <4>2. /\ selected[p] = Idle /\ selected' = [selected EXCEPT ![p] = r]
            /\ overlooked' = overlooked
        BY <4>1 DEF Selecting
      <4>3. r.materials = ms /\ r.job = isJob
        OBVIOUS
      <4> HIDE DEF r
      <4>4. selected'[p] = r /\ \A q \in Callers : q # p => selected'[q] = selected[q]
        BY <1>1, <4>2 DEF TypeOK
      <4>5. ~selected[p].job
        BY <4>2 DEF Idle
      <4>6. ASSUME NEW k \in Pending PROVE k \in Pending'
        <5>1. CASE k \in refresh'
          BY <5>1 DEF Pending
        <5>2. CASE k \in refresh /\ k \notin refresh'
          <6>1. k = ms /\ isJob = TRUE
            BY <4>1, <5>2
          <6>2. QED
            BY <4>3, <4>4, <6>1 DEF Pending
        <5>3. CASE k \notin refresh
          <6>1. PICK q \in Callers : selected[q].job /\ k = selected[q].materials
            BY <5>3 DEF Pending
          <6>2. selected'[q] = selected[q]
            BY <4>4, <4>5, <6>1
          <6>3. QED
            BY <6>1, <6>2 DEF Pending
        <5>4. QED
          BY <5>1, <5>2, <5>3
      <4>7. QED
        BY <4>2, <4>6
    <3>4. QED
      <4>1. ASSUME NEW m, Select(p, m)
            PROVE  \E ms, isJob : /\ Selecting(p, ms, isJob) /\ refresh \ refresh' \subseteq {ms}
                                  /\ refresh' # refresh => isJob = TRUE
        BY <4>1 DEF Select
      <4>2. ASSUME NEW m, StartRefresh(p, m)
            PROVE  \E ms, isJob : /\ Selecting(p, ms, isJob) /\ refresh \ refresh' \subseteq {ms}
                                  /\ refresh' # refresh => isJob = TRUE
        BY <4>2 DEF StartRefresh
      <4>3. QED
        BY <1>3, <3>1, <3>2, <3>3, <4>1, <4>2
  <2>3. SUFFICES ASSUME NEW o \in Kept', o \notin overlooked', Stale(o)'
                 PROVE  FALSE
    BY DEF OnlyMissedAreStale
  <2>4. o \in Kept /\ o \notin overlooked
    BY <2>1, <2>2, <2>3 DEF Kept
  <2>5. \A ms \in Pending : ms \cap Bom[o] # {} => ms \in Pending'
    BY <2>2, <2>3, <2>4 DEF Using
  <2>6. QED
    BY <1>1, <2>1, <2>3, <2>4, <2>5, StatesStay
<1>4. QED
  BY <1>2, <1>3

\* No order exists at first.
LEMMA StatesInit == Init => OnlyMissedAreStale
  BY DEF Init, OnlyMissedAreStale, Kept

-----------------------------------------------------------------------------
(* The invariant *)

\* The invariant under stuttering.
LEMMA Unmoved ==
  ASSUME IInv, UNCHANGED vars
  PROVE  IInv'
<1>1. /\ lot' = lot /\ net' = net /\ bal' = bal /\ active' = active
      /\ state' = state /\ mstate' = mstate /\ refresh' = refresh
      /\ selected' = selected /\ cutoff' = cutoff /\ overlooked' = overlooked
  BY DEF vars
<1>2. Stock'
  <2>1. Stock /\ TypeOK /\ NewIsUnknown
    BY DEF IInv, Stock
  <2>2. /\ bal' \in [Materials -> BalanceRows] /\ state' \in [Orders -> States]
        /\ mstate' \in [Orders -> MaterialStates]
    BY <1>1, <2>1 DEF TypeOK, MaterialStates
  <2>3. /\ UNCHANGED stock /\ NewIsUnknown' /\ SelectionsTyped'
        /\ refresh' \in SUBSET SUBSET Materials
    BY <1>1, <2>1 DEF stock, NewIsUnknown, SelectionsTyped, TypeOK
  <2>4. QED
    BY <1>1, <2>1, <2>2, <2>3, QuietStock
<1>3. OnlyMissedAreStale'
  BY <1>1 DEF IInv, OnlyMissedAreStale, Kept, Stale, Pending
<1>4. QED
  BY <1>2, <1>3 DEF IInv

\* The invariant under every action.
LEMMA Step ==
  ASSUME IInv, Next
  PROVE  IInv'
<1>1. Stock
  BY DEF IInv
<1>2. ASSUME NEW p \in Callers, Works(p)
      PROVE  IInv'
  <2>1. ASSUME NEW l \in Lots, NEW q \in Amounts, NEW accept \in BOOLEAN, Receive(p, l, q, accept)
        PROVE  IInv'
    BY <1>1, <2>1, ReceiveStock, CommandStates DEF IInv
  <2>2. ASSUME NEW l \in Lots, NEW q \in Amounts, NEW o \in Orders \cup {NoOrder}, Issue(p, l, q, o)
        PROVE  IInv'
    BY <1>1, <2>2, IssueStock, CommandStates DEF IInv
  <2>3. ASSUME NEW l \in Lots, NEW q \in Amounts, Correct(p, l, q) \/ Correct(p, l, -q)
        PROVE  IInv'
    <3>1. q \in Int /\ -q \in Int
      BY InventoryAssumption
    <3>2. PICK d \in Int : Correct(p, l, d)
      BY <2>3, <3>1
    <3>3. Stock'
      BY <1>1, <3>2, CorrectStock
    <3>4. OnlyMissedAreStale'
      BY <3>2, CommandStates
    <3>5. QED
      BY <3>3, <3>4 DEF IInv
  <2>4. ASSUME NEW l \in Lots, AcceptLot(p, l) PROVE IInv'
    BY <1>1, <2>4, AcceptLotStock, CommandStates DEF IInv
  <2>5. ASSUME NEW o \in Orders, NEW m \in Materials, NEW q \in Amounts, Reserve(p, o, m, q)
        PROVE  IInv'
    BY <1>1, <2>5, ReserveStock, ReservationStates DEF IInv
  <2>6. ASSUME NEW o \in Orders, NEW m \in Materials, NEW i \in DOMAIN active[o][m],
               Release(p, o, m, i)
        PROVE  IInv'
    BY <1>1, <2>6, ReleaseStock, ReservationStates DEF IInv
  <2>7. ASSUME \/ \E m \in Materials : Select(p, m)
               \/ \E ms \in refresh : StartRefresh(p, ms)
               \/ Abandon(p) \/ FinishRefresh(p) \/ RefreshFails(p)
        PROVE  IInv'
    BY <1>1, <2>7, SelectionStock, SelectionStates DEF IInv
  <2>8. QED
    BY <1>2, <2>1, <2>2, <2>3, <2>4, <2>5, <2>6, <2>7 DEF Works
<1>3. ASSUME NEW o \in Orders, NEW plan \in [Materials -> Amounts \cup {0}], ApplyPlan(o, plan)
      PROVE  IInv'
  BY <1>1, <1>3, ApplyPlanStock, ApplyPlanStates DEF IInv
<1>4. ASSUME NEW o \in Orders, RefusePlan(o) \/ Create(o) \/ Transition(o)
      PROVE  IInv'
  BY <1>1, <1>4, QuietSteps, QuietStates DEF IInv
<1>5. ASSUME NEW o \in Orders, Cancel(o) PROVE IInv'
  BY <1>1, <1>5, CancelStock, CancelStates DEF IInv
<1>6. QED
  BY <1>2, <1>3, <1>4, <1>5 DEF Next

\* Balances, rows and material states keep the inductive invariant through every command.
THEOREM Invariance == Spec => []IInv
<1>1. Init => IInv
  BY StockInit, StatesInit DEF IInv
<1>2. IInv /\ [Next]_vars => IInv'
  BY Step, Unmoved
<1>3. QED
  BY <1>1, <1>2, PTL DEF Spec

\* Every balance is what its accepted lots hold and what its ACTIVE reservations
\* take of it, whatever is received, accepted, issued in parts, corrected,
\* reserved, released, applied and cancelled (inventory/service.py).
THEOREM BalancesAgree == Spec => []StockAgrees
<1>1. IInv => StockAgrees
  BY DEF IInv, Stock, StockAgrees
<1>2. QED
  BY <1>1, Invariance, PTL

\* An order shows what its materials no longer are only when a selection missed
\* it, or its refresh job was given up, and nothing has recomputed it since: for
\* any number of transactions at work, orders and materials, and any limit
\* (readiness.py, orders/service.py, approvals/service.py).
THEOREM OnlyMissedGoStale == Spec => []OnlyMissedAreStale
<1>1. IInv => OnlyMissedAreStale
  BY DEF IInv
<1>2. QED
  BY <1>1, Invariance, PTL
=============================================================================
