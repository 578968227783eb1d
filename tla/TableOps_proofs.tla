--------------------------- MODULE TableOps_proofs --------------------------
(***************************************************************************)
(* How the operations on the arrays of FTK change the number of times a    *)
(* value occurs in them. Reference counting rests on these lemmas: one     *)
(* reference is held for every occurrence.                                 *)
(***************************************************************************)
EXTENDS TableOps, FiniteSetTheorems, FunctionTheorems, WellFoundedInduction, TLAPS

\* The slots that hold x.
SlotsOf(q, x) == {k \in DOMAIN q : q[k] = x}

\* A table has finitely many slots, so occurrences are counted by a natural
\* number, which is 0 just when the value is nowhere.
LEMMA OccType ==
    ASSUME NEW S, NEW q \in Seq(S), NEW x
    PROVE  /\ IsFiniteSet(SlotsOf(q, x))
           /\ Occ(q, x) = Cardinality(SlotsOf(q, x))
           /\ Occ(q, x) \in Nat
           /\ Occ(q, x) = 0 <=> (\A k \in DOMAIN q : q[k] # x)
<1>1. IsFiniteSet(1 .. Len(q))
  BY FS_Interval, Len(q) \in Nat
<1>2. SlotsOf(q, x) \in SUBSET (1 .. Len(q))
  BY DEF SlotsOf
<1>3. IsFiniteSet(SlotsOf(q, x))
  BY <1>1, <1>2, FS_Subset
<1>4. Occ(q, x) = Cardinality(SlotsOf(q, x))
  BY DEF Occ, SlotsOf
<1>5. Cardinality(SlotsOf(q, x)) \in Nat
  BY <1>3, FS_CardinalityType
<1>6. Cardinality(SlotsOf(q, x)) = 0 <=> SlotsOf(q, x) = {}
  BY <1>3, FS_EmptySet
<1>7. SlotsOf(q, x) = {} <=> (\A k \in DOMAIN q : q[k] # x)
  BY DEF SlotsOf
<1> QED
  BY <1>3, <1>4, <1>5, <1>6, <1>7

\* An empty table holds nothing.
LEMMA OccEmpty ==
    ASSUME NEW x
    PROVE  Occ(<<>>, x) = 0
<1>1. SlotsOf(<<>>, x) = {}
  BY DEF SlotsOf
<1> QED
  BY <1>1, FS_EmptySet DEF Occ, SlotsOf

LEMMA OccSingleton ==
    ASSUME NEW x, NEW y
    PROVE  Occ(<<y>>, x) = IF x = y THEN 1 ELSE 0
<1>1. DOMAIN <<y>> = {1} /\ <<y>>[1] = y
  OBVIOUS
<1>2. SlotsOf(<<y>>, x) = IF x = y THEN {1} ELSE {}
  BY <1>1 DEF SlotsOf
<1>3. Cardinality({1}) = 1 /\ Cardinality({}) = 0
  BY FS_Singleton, FS_EmptySet
<1> QED
  BY <1>2, <1>3 DEF Occ, SlotsOf

\* Writing a value behind the last slot adds one occurrence of that value.
LEMMA OccAppend ==
    ASSUME NEW S, NEW q \in Seq(S), NEW y \in S, NEW x
    PROVE  Occ(Append(q, y), x) = Occ(q, x) + (IF y = x THEN 1 ELSE 0)
<1> DEFINE n == Len(q) + 1
<1>1. Append(q, y) \in Seq(S) /\ Len(Append(q, y)) = n
  OBVIOUS
<1>2. n \notin SlotsOf(q, x)
  BY DEF SlotsOf
<1>3. SlotsOf(Append(q, y), x) = IF y = x THEN SlotsOf(q, x) \cup {n} ELSE SlotsOf(q, x)
  BY <1>1 DEF SlotsOf
<1>4. IsFiniteSet(SlotsOf(q, x)) /\ Occ(q, x) = Cardinality(SlotsOf(q, x)) /\ Occ(q, x) \in Nat
  BY OccType
<1>5. Occ(Append(q, y), x) = Cardinality(SlotsOf(Append(q, y), x))
  BY <1>1, OccType
<1>6. Cardinality(SlotsOf(q, x) \cup {n}) = Cardinality(SlotsOf(q, x)) + 1
  BY <1>2, <1>4, FS_AddElement
<1> QED
  BY <1>3, <1>4, <1>5, <1>6

\* Closing the gap at slot k removes the occurrence that slot held and keeps all
\* the others, each in its own slot.
LEMMA OccShiftDown ==
    ASSUME NEW S, NEW q \in Seq(S), NEW k \in 1 .. Len(q), NEW x
    PROVE  /\ ShiftDown(q, k) \in Seq(S)
           /\ Len(ShiftDown(q, k)) = Len(q) - 1
           /\ Occ(ShiftDown(q, k), x) = Occ(q, x) - (IF q[k] = x THEN 1 ELSE 0)
<1> DEFINE r == ShiftDown(q, k)
           A == SlotsOf(r, x)
           B == SlotsOf(q, x) \ {k}
           F == [j \in A |-> IF j < k THEN j ELSE j + 1]
<1>1. Len(q) \in Nat /\ Len(q) - 1 \in Nat
  OBVIOUS
<1>2. r \in [1 .. (Len(q) - 1) -> S]
  BY <1>1 DEF ShiftDown
<1>3. r \in Seq(S) /\ Len(r) = Len(q) - 1
  BY <1>1, <1>2
<1>4. \A j \in 1 .. (Len(q) - 1) : r[j] = IF j < k THEN q[j] ELSE q[j + 1]
  BY DEF ShiftDown
<1>5. A = {j \in 1 .. (Len(q) - 1) : r[j] = x}
  BY <1>2 DEF SlotsOf
<1>6. B = {j \in 1 .. Len(q) : q[j] = x /\ j # k}
  BY DEF SlotsOf
<1>7. F \in [A -> B]
  <2> SUFFICES ASSUME NEW j \in A PROVE F[j] \in B
    OBVIOUS
  <2>1. j \in 1 .. (Len(q) - 1) /\ r[j] = x
    BY <1>5
  <2>2. F[j] = IF j < k THEN j ELSE j + 1
    OBVIOUS
  <2>3. F[j] \in 1 .. Len(q) /\ F[j] # k
    BY <1>1, <2>1, <2>2
  <2>4. q[F[j]] = x
    BY <1>4, <2>1, <2>2
  <2> QED
    BY <1>6, <2>3, <2>4
<1>8. \A a, b \in A : F[a] = F[b] => a = b
  BY <1>1, <1>5
<1>9. \A t \in B : \E a \in A : F[a] = t
  <2> SUFFICES ASSUME NEW t \in B PROVE \E a \in A : F[a] = t
    OBVIOUS
  <2>1. t \in 1 .. Len(q) /\ q[t] = x /\ t # k
    BY <1>6
  <2>2. CASE t < k
    <3>1. t \in A
      BY <1>1, <1>4, <1>5, <2>1, <2>2
    <3> QED
      BY <2>2, <3>1
  <2>3. CASE t > k
    <3>1. t - 1 \in A
      BY <1>1, <1>4, <1>5, <2>1, <2>3
    <3>2. F[t - 1] = t
      BY <1>1, <2>1, <2>3, <3>1
    <3> QED
      BY <3>1, <3>2
  <2> QED
    BY <2>1, <2>2, <2>3
<1>10. F \in Bijection(A, B)
  BY <1>7, <1>8, <1>9, Fun_IsBij
<1>11. ExistsBijection(A, B)
  BY <1>10, Fun_ExistsBij
<1>12. IsFiniteSet(A) /\ Occ(r, x) = Cardinality(A)
  BY <1>3, OccType
<1>13. Cardinality(B) = Cardinality(A)
  BY <1>11, <1>12, FS_Bijection
<1>14. IsFiniteSet(SlotsOf(q, x)) /\ Occ(q, x) = Cardinality(SlotsOf(q, x)) /\ Occ(q, x) \in Nat
  BY OccType
<1>15. Cardinality(B) = IF k \in SlotsOf(q, x) THEN Cardinality(SlotsOf(q, x)) - 1
                                               ELSE Cardinality(SlotsOf(q, x))
  BY <1>14, FS_RemoveElement
<1>16. k \in SlotsOf(q, x) <=> q[k] = x
  BY DEF SlotsOf
<1> QED
  BY <1>3, <1>12, <1>13, <1>14, <1>15, <1>16

\* Reading the head of a queue takes its occurrence out.
LEMMA OccTail ==
    ASSUME NEW S, NEW q \in Seq(S), q # <<>>, NEW x
    PROVE  /\ Tail(q) \in Seq(S)
           /\ Occ(Tail(q), x) = Occ(q, x) - (IF Head(q) = x THEN 1 ELSE 0)
<1>1. Len(q) \in Nat /\ Len(q) > 0
  OBVIOUS
<1>2. 1 \in 1 .. Len(q) /\ Head(q) = q[1]
  BY <1>1
<1>3. Tail(q) = ShiftDown(q, 1)
  <2> DEFINE t == Tail(q)
             r == ShiftDown(q, 1)
  <2>1. t \in Seq(S) /\ Len(t) = Len(q) - 1
    BY <1>1
  <2>2. r \in Seq(S) /\ Len(r) = Len(q) - 1
    BY <1>1, <1>2, OccShiftDown
  <2>3. \A j \in 1 .. (Len(q) - 1) : t[j] = q[j + 1]
    BY <1>1
  <2>4. \A j \in 1 .. (Len(q) - 1) : r[j] = q[j + 1]
    BY <1>1 DEF ShiftDown
  <2>5. \A w \in Seq(S) : w \in [1 .. Len(w) -> S]
    OBVIOUS
  <2> HIDE DEF t, r
  <2>6. t = r
    BY <2>1, <2>2, <2>3, <2>4, <2>5
  <2> QED
    BY <2>6 DEF t, r
<1> QED
  BY <1>2, <1>3, OccShiftDown

\* The search for x ends at a slot that holds x.
LEMMA FirstSlotFound ==
    ASSUME NEW S, NEW q \in Seq(S), NEW x, \E k \in DOMAIN q : q[k] = x
    PROVE  FirstSlot(q, x) \in 1 .. Len(q) /\ q[FirstSlot(q, x)] = x
<1> DEFINE T == {k \in 1 .. Len(q) : q[k] = x}
<1>1. T \subseteq Nat /\ T # {}
  OBVIOUS
<1>2. PICK m \in T : \A y \in T : ~ (<<y, m>> \in OpToRel(<, Nat))
  BY <1>1, NatLessThanWellFounded, WFMin
<1>3. \A y \in T : ~ (y < m)
  BY <1>1, <1>2 DEF OpToRel
<1>4. \A j \in 1 .. (m - 1) : q[j] # x
  BY <1>3
<1>5. \E k \in DOMAIN q : q[k] = x /\ \A j \in 1 .. (k - 1) : q[j] # x
  BY <1>4
<1>6. /\ FirstSlot(q, x) \in DOMAIN q
      /\ q[FirstSlot(q, x)] = x
  BY <1>5 DEF FirstSlot
<1> QED
  BY <1>6
\* Every value has one slot at most.
NoRepeat(q) == \A j, k \in DOMAIN q : q[j] = q[k] => j = k

Holds(q, x) == \E k \in DOMAIN q : q[k] = x

\* Of some slots one is the last.
LEMMA LastOf ==
    ASSUME NEW n \in Nat, NEW T \in SUBSET (1 .. n), T # {}
    PROVE  \E k \in T : \A j \in T : j <= k
<1> DEFINE U == {n - k : k \in T}
<1>1. U \subseteq Nat /\ U # {}
  <2>1. \A k \in T : n - k \in Nat
    OBVIOUS
  <2>2. PICK k \in T : TRUE
    OBVIOUS
  <2>3. n - k \in U
    BY <2>2
  <2> QED BY <2>1, <2>3, Zenon
<1>2. PICK m \in U : \A y \in U : ~ (<<y, m>> \in OpToRel(<, Nat))
  BY <1>1, NatLessThanWellFounded, WFMin
<1>3. \A y \in U : ~ (y < m)
  BY <1>1, <1>2 DEF OpToRel
<1>4. PICK k \in T : m = n - k
  OBVIOUS
<1>5. ASSUME NEW j \in T PROVE j <= k
  <2>1. ~ (n - j < n - k)
    BY <1>3, <1>4
  <2> QED BY <2>1
<1> QED BY <1>5

\* Closing the gap at slot k takes the value of that slot out, and no other.
LEMMA ShiftDownHolds ==
    ASSUME NEW S, NEW q \in Seq(S), NoRepeat(q), NEW k \in 1 .. Len(q)
    PROVE  /\ ShiftDown(q, k) \in Seq(S)
           /\ NoRepeat(ShiftDown(q, k))
           /\ \A x : Holds(ShiftDown(q, k), x) <=> Holds(q, x) /\ x # q[k]
<1> DEFINE r == ShiftDown(q, k)
<1>1. Len(q) \in Nat /\ DOMAIN q = 1 .. Len(q)
  OBVIOUS
<1>2. r \in Seq(S) /\ Len(r) = Len(q) - 1
  BY OccShiftDown
<1>3. DOMAIN r = 1 .. (Len(q) - 1)
  BY <1>2
<1>4. \A j \in DOMAIN r : r[j] = q[IF j < k THEN j ELSE j + 1]
  BY <1>3 DEF ShiftDown
<1> HIDE DEF r
<1>5. NoRepeat(r)
  <2> SUFFICES ASSUME NEW i \in DOMAIN r, NEW j \in DOMAIN r, r[i] = r[j]
               PROVE  i = j
    BY DEF NoRepeat
  <2>1. (IF i < k THEN i ELSE i + 1) = (IF j < k THEN j ELSE j + 1)
    BY <1>1, <1>3, <1>4 DEF NoRepeat
  <2> QED BY <1>1, <1>3, <2>1
<1>6. ASSUME NEW x, Holds(r, x) PROVE Holds(q, x) /\ x # q[k]
  <2>1. PICK j \in DOMAIN r : r[j] = x
    BY <1>6 DEF Holds
  <2>2. PICK i \in DOMAIN q : i = (IF j < k THEN j ELSE j + 1) /\ i # k
    BY <1>1, <1>3
  <2>3. q[i] = x
    BY <1>4, <2>1, <2>2
  <2> QED BY <1>1, <2>2, <2>3 DEF Holds, NoRepeat
<1>7. ASSUME NEW x, Holds(q, x), x # q[k] PROVE Holds(r, x)
  <2>1. PICK i \in DOMAIN q : q[i] = x /\ i # k
    BY <1>7 DEF Holds
  <2>2. PICK j \in DOMAIN r : i = (IF j < k THEN j ELSE j + 1)
    <3>1. CASE i < k
      <4>1. i \in DOMAIN r
        BY <1>1, <1>3, <2>1, <3>1
      <4> QED BY <3>1, <4>1
    <3>2. CASE i > k
      <4>1. i - 1 \in DOMAIN r /\ ~(i - 1 < k) /\ i = (i - 1) + 1
        BY <1>1, <1>3, <2>1, <3>2
      <4> QED BY <4>1
    <3> QED BY <1>1, <2>1, <3>1, <3>2
  <2> QED BY <1>4, <2>1, <2>2 DEF Holds
<1> QED BY <1>2, <1>5, <1>6, <1>7 DEF r

\* Moving a slot keeps every value.
LEMMA MoveSlotHolds ==
    ASSUME NEW S, NEW q \in Seq(S), NoRepeat(q),
           NEW k \in 1 .. Len(q), NEW n \in 1 .. Len(q)
    PROVE  /\ MoveSlot(q, k, n) \in Seq(S)
           /\ NoRepeat(MoveSlot(q, k, n))
           /\ \A x : Holds(MoveSlot(q, k, n), x) <=> Holds(q, x)
<1> DEFINE r == MoveSlot(q, k, n)
           From(j) == IF j = n THEN k
                      ELSE IF k <= j /\ j < n THEN j + 1
                      ELSE IF n < j /\ j <= k THEN j - 1 ELSE j
           To(i) == IF i = k THEN n
                    ELSE IF k < i /\ i <= n THEN i - 1
                    ELSE IF n <= i /\ i < k THEN i + 1 ELSE i
<1>1. Len(q) \in Nat /\ DOMAIN q = 1 .. Len(q) /\ q \in [1 .. Len(q) -> S]
  OBVIOUS
<1>2. DOMAIN r = 1 .. Len(q)
  BY <1>1 DEF MoveSlot
<1>3. \A j \in 1 .. Len(q) : From(j) \in 1 .. Len(q) /\ To(From(j)) = j
  BY <1>1
<1>4. \A i \in 1 .. Len(q) : To(i) \in 1 .. Len(q) /\ From(To(i)) = i
  BY <1>1
<1>5. \A j \in 1 .. Len(q) : r[j] = q[From(j)]
  BY <1>1 DEF MoveSlot
<1> HIDE DEF r, From, To
<1>6. r \in Seq(S)
  <2>1. r \in [1 .. Len(q) -> S]
    <3>1. r = [j \in 1 .. Len(q) |-> r[j]]
      BY <1>1 DEF r, MoveSlot
    <3> QED BY <1>1, <1>3, <1>5, <3>1
  <2> QED BY <1>1, <2>1
<1>7. NoRepeat(r)
  BY <1>1, <1>2, <1>3, <1>5 DEF NoRepeat
<1>8. \A x : Holds(r, x) <=> Holds(q, x)
  BY <1>1, <1>2, <1>3, <1>4, <1>5 DEF Holds
<1> QED BY <1>6, <1>7, <1>8 DEF r

\* Every slot of a longer table is one of the table, or the new one.
LEMMA AppendSlots ==
    ASSUME NEW S, NEW q \in Seq(S), NEW y \in S
    PROVE  \A k \in DOMAIN Append(q, y) :
                \/ k \in DOMAIN q /\ Append(q, y)[k] = q[k]
                \/ k = Len(q) + 1 /\ Append(q, y)[k] = y
<1>1. Len(q) \in Nat /\ DOMAIN q = 1 .. Len(q) /\ DOMAIN Append(q, y) = 1 .. (Len(q) + 1)
  OBVIOUS
<1>2. \A k \in 1 .. (Len(q) + 1) : k \in 1 .. Len(q) \/ k = Len(q) + 1
  BY <1>1
<1>3. \A k \in 1 .. Len(q) : Append(q, y)[k] = q[k]
  OBVIOUS
<1>4. Append(q, y)[Len(q) + 1] = y
  OBVIOUS
<1> QED BY <1>1, <1>2, <1>3, <1>4

\* A value written behind the last slot.
LEMMA AppendHolds ==
    ASSUME NEW S, NEW q \in Seq(S), NEW y \in S, ~Holds(q, y), NoRepeat(q)
    PROVE  /\ Append(q, y) \in Seq(S)
           /\ NoRepeat(Append(q, y))
           /\ \A x : Holds(Append(q, y), x) <=> Holds(q, x) \/ x = y
<1> DEFINE r == Append(q, y)
           n == Len(q)
<1>1. n \in Nat /\ DOMAIN q = 1 .. n /\ r \in Seq(S) /\ DOMAIN r = 1 .. (n + 1)
  OBVIOUS
<1>2. r[n + 1] = y /\ \A j \in 1 .. n : r[j] = q[j]
  OBVIOUS
<1> HIDE DEF r, n
<1>3. \A j \in 1 .. (n + 1) : j \in 1 .. n \/ j = n + 1
  BY <1>1
<1>4. NoRepeat(r)
  BY <1>1, <1>2, <1>3 DEF NoRepeat, Holds
<1>5. ASSUME NEW x PROVE Holds(r, x) <=> Holds(q, x) \/ x = y
  <2>1. n + 1 \in 1 .. (n + 1) /\ \A j \in 1 .. n : j \in 1 .. (n + 1)
    BY <1>1
  <2> QED BY <1>1, <1>2, <1>3, <2>1 DEF Holds
<1> QED BY <1>1, <1>4, <1>5 DEF r

\* Without its last slot a table has lost one occurrence of what was there.
LEMMA OccFront ==
    ASSUME NEW S, NEW q \in Seq(S), q # <<>>, NEW x
    PROVE  /\ SubSeq(q, 1, Len(q) - 1) \in Seq(S)
           /\ Len(SubSeq(q, 1, Len(q) - 1)) = Len(q) - 1
           /\ Occ(SubSeq(q, 1, Len(q) - 1), x) = Occ(q, x) - (IF q[Len(q)] = x THEN 1 ELSE 0)
<1> DEFINE f == SubSeq(q, 1, Len(q) - 1)
           r == ShiftDown(q, Len(q))
<1>1. Len(q) \in Nat /\ Len(q) > 0 /\ Len(q) \in 1 .. Len(q)
  OBVIOUS
<1>2. f \in Seq(S) /\ Len(f) = Len(q) - 1 /\ \A j \in 1 .. (Len(q) - 1) : f[j] = q[j]
  <2>1. q \in [1 .. Len(q) -> S] /\ Len(q) - 1 \in Nat
    BY <1>1
  <2>2. f = [j \in 1 .. (Len(q) - 1) |-> q[j]]
    BY <1>1, <2>1
  <2>3. \A j \in 1 .. (Len(q) - 1) : q[j] \in S
    BY <1>1, <2>1
  <2> HIDE DEF f
  <2>4. f \in [1 .. (Len(q) - 1) -> S]
    BY <2>2, <2>3
  <2> QED BY <2>1, <2>2, <2>4
<1>3. r \in Seq(S) /\ Len(r) = Len(q) - 1
  BY <1>1, OccShiftDown
<1>4. \A j \in 1 .. (Len(q) - 1) : r[j] = q[j]
  BY <1>1 DEF ShiftDown
<1>5. \A w \in Seq(S) : w \in [1 .. Len(w) -> S]
  OBVIOUS
<1> HIDE DEF f, r
<1>6. f = r
  BY <1>2, <1>3, <1>4, <1>5
<1>7. Occ(r, x) = Occ(q, x) - (IF q[Len(q)] = x THEN 1 ELSE 0)
  BY <1>1, OccShiftDown DEF r
<1> QED BY <1>2, <1>6, <1>7 DEF f

=============================================================================
