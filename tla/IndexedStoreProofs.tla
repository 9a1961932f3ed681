------------------------- MODULE IndexedStoreProofs -------------------------
(***************************************************************************)
(* What the operations of a segment do, for any rows, posting keys and     *)
(* identity hashes: Segment is what they keep, and on a segment the        *)
(* identity index finds exactly the live rows and the posting lists yield  *)
(* exactly the live rows of a key.                                         *)
(***************************************************************************)
EXTENDS IndexedStore, SequenceTheorems, FunctionTheorems, FiniteSetTheorems, TLAPS

-----------------------------------------------------------------------------
(* Ordered.  An element's rank is its place in the order.                  *)

Below(I, i) == {j \in I : j <= i}
Rank(I, i) == Cardinality(Below(I, i))

LEMMA RankFacts ==
    ASSUME NEW I \in SUBSET Nat, IsFiniteSet(I)
    PROVE  /\ Cardinality(I) \in Nat
           /\ \A i \in I : Rank(I, i) \in 1..Cardinality(I)
           /\ \A i, j \in I : i < j => Rank(I, i) < Rank(I, j)
           /\ \A i, j \in I : Rank(I, i) = Rank(I, j) => i = j
<1>1. Cardinality(I) \in Nat
  BY FS_CardinalityType
<1>2. ASSUME NEW i \in I
      PROVE  /\ IsFiniteSet(Below(I, i)) /\ Rank(I, i) \in Nat
             /\ Rank(I, i) <= Cardinality(I) /\ Rank(I, i) # 0
  <2>1. Below(I, i) \in SUBSET I /\ i \in Below(I, i)
    BY DEF Below
  <2>2. IsFiniteSet(Below(I, i)) /\ Rank(I, i) <= Cardinality(I)
    BY <2>1, FS_Subset DEF Rank
  <2>3. Rank(I, i) \in Nat /\ (Rank(I, i) = 0 <=> Below(I, i) = {})
    BY <2>2, FS_CardinalityType, FS_EmptySet DEF Rank
  <2> QED BY <2>1, <2>2, <2>3
<1>3. ASSUME NEW i \in I, NEW j \in I, i < j PROVE Rank(I, i) < Rank(I, j)
  <2>0. I \subseteq Nat /\ i \in Nat /\ j \in Nat
    OBVIOUS
  <2>1. Below(I, i) \in SUBSET Below(I, j) /\ j \in Below(I, j) /\ j \notin Below(I, i)
    <3>1. \A k \in I : k <= i => k <= j
      BY <1>3, <2>0
    <3>2. j <= j /\ ~(j <= i)
      BY <1>3, <2>0
    <3> QED BY <3>1, <3>2 DEF Below
  <2>2. Rank(I, i) <= Rank(I, j) /\ Rank(I, i) # Rank(I, j)
    BY <1>2, <2>1, FS_Subset DEF Rank
  <2> QED BY <1>2, <2>2
<1>4. \A i \in I : Rank(I, i) \in 1..Cardinality(I)
  BY <1>1, <1>2
<1>5. ASSUME NEW i \in I, NEW j \in I, Rank(I, i) = Rank(I, j) PROVE i = j
  <2>1. ~(i < j) /\ ~(j < i)
    BY <1>2, <1>3, <1>5
  <2> QED BY <2>1
<1> QED BY <1>1, <1>3, <1>4, <1>5

(* Every place is taken.                                                   *)
LEMMA RankOnto ==
    ASSUME NEW I \in SUBSET Nat, IsFiniteSet(I), NEW k \in 1..Cardinality(I)
    PROVE  \E i \in I : Rank(I, i) = k
<1> DEFINE n == Cardinality(I)
           f == [i \in I |-> Rank(I, i)]
<1>1. f \in [I -> 1..n] /\ n \in Nat
  BY RankFacts
<1>2. \A i, j \in I : f[i] = f[j] => i = j
  BY RankFacts
<1>3. f \in Injection(I, 1..n)
  BY <1>1, <1>2, Fun_IsInj
<1>4. IsFiniteSet(1..n) /\ Cardinality(1..n) = n
  BY <1>1, FS_Interval
<1>5. f \in Surjection(I, 1..n)
  BY <1>3, <1>4, FS_Injection
<1> QED BY <1>5 DEF Surjection

LEMMA OrderedFacts ==
    ASSUME NEW I \in SUBSET Nat, IsFiniteSet(I)
    PROVE  /\ Ordered(I) \in Seq(I) /\ Len(Ordered(I)) = Cardinality(I)
           /\ Cardinality(I) \in Nat
           /\ \A k \in 1..Cardinality(I) : Ordered(I)[k] \in I /\ Rank(I, Ordered(I)[k]) = k
           /\ \A i \in I : Ordered(I)[Rank(I, i)] = i /\ Rank(I, i) \in 1..Cardinality(I)
           /\ \A k, m \in 1..Cardinality(I) : Ordered(I)[k] = Ordered(I)[m] => k = m
           /\ \A k, m \in 1..Cardinality(I) : k < m => Ordered(I)[k] < Ordered(I)[m]
<1> DEFINE n == Cardinality(I)
<1>0. n \in Nat
  BY RankFacts
<1>1. Ordered(I) = [k \in 1..n |-> CHOOSE i \in I : Rank(I, i) = k]
  BY DEF Ordered, Rank, Below
<1>2. \A k \in 1..n : Ordered(I)[k] \in I /\ Rank(I, Ordered(I)[k]) = k
  <2> TAKE k \in 1..n
  <2>1. \E i \in I : Rank(I, i) = k
    BY RankOnto
  <2> QED BY <1>1, <2>1
<1> HIDE DEF n
<1>3. Ordered(I) \in Seq(I) /\ Len(Ordered(I)) = n
  <2>1. Ordered(I) \in [1..n -> I]
    BY <1>1, <1>2
  <2> QED BY <1>0, <2>1, SeqDef
<1>4. \A i \in I : Ordered(I)[Rank(I, i)] = i /\ Rank(I, i) \in 1..n
  <2> TAKE i \in I
  <2>1. Rank(I, i) \in 1..n
    BY RankFacts DEF n
  <2>2. Ordered(I)[Rank(I, i)] \in I /\ Rank(I, Ordered(I)[Rank(I, i)]) = Rank(I, i)
    BY <1>2, <2>1
  <2>3. \A j \in I : Rank(I, j) = Rank(I, i) => j = i
    BY RankFacts
  <2>4. Ordered(I)[Rank(I, i)] = i
    BY <2>2, <2>3, Zenon
  <2> QED BY <2>1, <2>4
<1>5. \A k, m \in 1..n : Ordered(I)[k] = Ordered(I)[m] => k = m
  BY <1>2
<1>6. ASSUME NEW k \in 1..n, NEW m \in 1..n, k < m PROVE Ordered(I)[k] < Ordered(I)[m]
  <2>1. Ordered(I)[k] \in Nat /\ Ordered(I)[m] \in Nat
    BY <1>2
  <2>2. ~(Ordered(I)[m] < Ordered(I)[k])
    <3> SUFFICES ASSUME Ordered(I)[m] < Ordered(I)[k] PROVE FALSE
      OBVIOUS
    <3>1. Rank(I, Ordered(I)[m]) < Rank(I, Ordered(I)[k])
      BY <1>2, RankFacts
    <3>2. m < k
      BY <1>2, <3>1
    <3> QED BY <1>0, <1>6, <3>2
  <2>3. Ordered(I)[m] # Ordered(I)[k]
    BY <1>0, <1>5, <1>6
  <2> QED BY <2>1, <2>2, <2>3
<1> QED BY <1>0, <1>2, <1>3, <1>4, <1>5, <1>6 DEF n

(* A new last element goes to the end.                                     *)
LEMMA OrderedAppend ==
    ASSUME NEW I \in SUBSET Nat, IsFiniteSet(I), NEW x \in Nat, \A i \in I : i < x
    PROVE  Ordered(I \cup {x}) = Append(Ordered(I), x)
<1> DEFINE J == I \cup {x}
           n == Cardinality(I)
<1>1. J \in SUBSET Nat /\ x \notin I /\ IsFiniteSet(J) /\ Cardinality(J) = n + 1 /\ n \in Nat
  BY FS_AddElement, FS_CardinalityType
<1>2. \A i \in I : Rank(J, i) = Rank(I, i)
  <2> TAKE i \in I
  <2>1. Below(J, i) = Below(I, i)
    BY DEF Below
  <2> QED BY <2>1 DEF Rank
<1>3. Rank(J, x) = n + 1
  <2>1. \A j \in J : j <= x
    BY <1>1
  <2>2. Below(J, x) = J
    BY <2>1 DEF Below
  <2> QED BY <1>1, <2>2 DEF Rank
<1> HIDE DEF J
<1>4. \A k \in 1..n : Ordered(J)[k] = Ordered(I)[k]
  <2> TAKE k \in 1..n
  <2>1. Ordered(I)[k] \in I /\ Rank(I, Ordered(I)[k]) = k
    BY OrderedFacts
  <2>2. Ordered(I)[k] \in J /\ Rank(J, Ordered(I)[k]) = k
    BY <1>2, <2>1 DEF J
  <2> QED BY <1>1, <2>2, OrderedFacts
<1>5. Ordered(J)[n + 1] = x
  <2>1. x \in J
    BY DEF J
  <2> QED BY <1>1, <1>3, <2>1, OrderedFacts
<1>6. Ordered(J) \in Seq(Nat) /\ Len(Ordered(J)) = n + 1 /\ Ordered(I) \in Seq(Nat)
      /\ Len(Ordered(I)) = n
  BY <1>1, OrderedFacts, SeqMonotonic
<1>7. /\ Append(Ordered(I), x) \in Seq(Nat) /\ Len(Append(Ordered(I), x)) = n + 1
      /\ \A k \in 1..n : Append(Ordered(I), x)[k] = Ordered(I)[k]
      /\ Append(Ordered(I), x)[n + 1] = x
  BY <1>6, AppendProperties
<1>8. \A k \in 1..(n + 1) : Ordered(J)[k] = Append(Ordered(I), x)[k]
  <2> TAKE k \in 1..(n + 1)
  <2>1. k \in 1..n \/ k = n + 1
    BY <1>1
  <2> QED BY <1>4, <1>5, <1>7, <2>1
<1>9. Ordered(J) = Append(Ordered(I), x)
  BY <1>6, <1>7, <1>8, SeqEqual
<1> QED BY <1>9 DEF J

-----------------------------------------------------------------------------
(* One hash of the identity index: the primary p and the bucket b hold the *)
(* slots of B, each once.                                                  *)

BucketOK(p, b, B) ==
    /\ p = 0 => b = <<>>
    /\ \A i \in 1..Len(b) : b[i] # p
    /\ \A i, j \in 1..Len(b) : b[i] = b[j] => i = j
    /\ \A x : x \in B <=> (p # 0 /\ x = p) \/ \E i \in 1..Len(b) : b[i] = x

LEMMA BucketAdd ==
    ASSUME NEW p \in Nat, NEW b \in Seq(Nat \ {0}), NEW B, BucketOK(p, b, B),
           NEW id \in Nat \ {0}, id \notin B
    PROVE  /\ p = 0 => BucketOK(id, b, B \cup {id})
           /\ p # 0 => BucketOK(p, Append(b, id), B \cup {id})
<1>1. ASSUME p = 0 PROVE BucketOK(id, b, B \cup {id})
  <2>1. b = <<>> /\ Len(b) = 0 /\ 1..Len(b) = {}
    BY <1>1 DEF BucketOK
  <2> QED BY <1>1, <2>1 DEF BucketOK
<1>2. ASSUME p # 0 PROVE BucketOK(p, Append(b, id), B \cup {id})
  <2> DEFINE c == Append(b, id)
             n == Len(b)
  <2>1. /\ n \in Nat /\ Len(c) = n + 1
        /\ \A i \in 1..n : c[i] = b[i]
        /\ c[n + 1] = id
    BY AppendProperties
  <2>2. \A i \in 1..Len(c) : i \in 1..n \/ i = n + 1
    BY <2>1
  <2>3. \A i \in 1..n : i \in 1..Len(c) /\ i # n + 1
    BY <2>1
  <2>4. n + 1 \in 1..Len(c)
    BY <2>1
  <2>5. id # p /\ \A i \in 1..n : b[i] # id
    BY <1>2 DEF BucketOK
  <2> HIDE DEF c, n
  <2>6. \A i \in 1..n : b[i] # p
    BY DEF BucketOK, n
  <2>7. \A i, j \in 1..n : b[i] = b[j] => i = j
    BY DEF BucketOK, n
  <2>8. \A x : x \in B <=> x = p \/ \E i \in 1..n : b[i] = x
    BY <1>2 DEF BucketOK, n
  <2>9. \A i \in 1..Len(c) : c[i] # p
    BY <2>1, <2>2, <2>5, <2>6
  <2>10. \A i, j \in 1..Len(c) : c[i] = c[j] => i = j
    BY <2>1, <2>2, <2>5, <2>7
  <2>11. \A x : x \in B \cup {id} <=> x = p \/ \E i \in 1..Len(c) : c[i] = x
    BY <2>1, <2>2, <2>3, <2>4, <2>8
  <2> QED BY <1>2, <2>9, <2>10, <2>11 DEF BucketOK, c
<1> QED BY <1>1, <1>2

LEMMA FrontFacts ==
    ASSUME NEW S, NEW q \in Seq(S), q # <<>>
    PROVE  /\ Len(q) \in Nat \ {0} /\ q[Len(q)] \in S
           /\ Front(q) \in Seq(S) /\ Len(Front(q)) = Len(q) - 1
           /\ \A i \in 1..Len(q) - 1 : Front(q)[i] = q[i]
<1>1. Len(q) \in Nat \ {0}
  BY EmptySeq
<1>2. \A i \in 1..Len(q) : q[i] \in S
  BY ElementOfSeq
<1>3. \A i \in 1..Len(q) - 1 : q[i] \in S /\ 1 + i - 1 = i
  BY <1>1, <1>2
<1>4. /\ Front(q) \in Seq(S)
      /\ Len(Front(q)) = IF 1 <= Len(q) - 1 THEN (Len(q) - 1) - 1 + 1 ELSE 0
      /\ \A i \in 1..((Len(q) - 1) - 1 + 1) : Front(q)[i] = q[1 + i - 1]
  BY <1>1, <1>3, SubSeqProperties DEF Front
<1>5. (Len(q) - 1) - 1 + 1 = Len(q) - 1 /\ Len(q) \in 1..Len(q)
  BY <1>1
<1>6. q[Len(q)] \in S
  BY <1>2, <1>5
<1>7. Len(Front(q)) = Len(q) - 1
  <2>1. \A n \in Nat \ {0} : \A m :
            m = (IF 1 <= n - 1 THEN (n - 1) - 1 + 1 ELSE 0) => m = n - 1
    OBVIOUS
  <2>2. Len(Front(q)) = (IF 1 <= Len(q) - 1 THEN (Len(q) - 1) - 1 + 1 ELSE 0)
    BY <1>4
  <2> QED BY <1>1, <2>1, <2>2
<1>8. \A i \in 1..Len(q) - 1 : Front(q)[i] = q[i]
  <2> TAKE i \in 1..Len(q) - 1
  <2>1. i \in 1..((Len(q) - 1) - 1 + 1)
    BY <1>5
  <2>2. Front(q)[i] = q[1 + i - 1]
    BY <1>4, <2>1
  <2> QED BY <1>3, <2>2
<1> QED BY <1>1, <1>4, <1>6, <1>7, <1>8

(* The last of the bucket becomes primary.                                 *)
LEMMA BucketDropPrimary ==
    ASSUME NEW p \in Nat, NEW b \in Seq(Nat \ {0}), NEW B, BucketOK(p, b, B), p # 0
    PROVE  /\ b = <<>> => BucketOK(0, b, B \ {p})
           /\ b # <<>> => BucketOK(b[Len(b)], Front(b), B \ {p})
<1>1. ASSUME b = <<>> PROVE BucketOK(0, b, B \ {p})
  <2>1. Len(b) = 0 /\ 1..Len(b) = {}
    BY <1>1
  <2> QED BY <1>1, <2>1 DEF BucketOK
<1>2. ASSUME b # <<>> PROVE BucketOK(b[Len(b)], Front(b), B \ {p})
  <2> DEFINE n == Len(b)
             c == Front(b)
             last == b[n]
  <2>1. /\ n \in Nat \ {0} /\ last \in Nat \ {0} /\ Len(c) = n - 1
        /\ \A i \in 1..n - 1 : c[i] = b[i]
    BY <1>2, FrontFacts
  <2>2. n \in 1..n /\ \A i \in 1..n - 1 : i \in 1..n /\ i # n
    BY <2>1
  <2>3. \A i \in 1..n : i \in 1..n - 1 \/ i = n
    BY <2>1
  <2> HIDE DEF c
  <2>4. /\ \A i \in 1..n : b[i] # p
        /\ \A i, j \in 1..n : b[i] = b[j] => i = j
        /\ \A x : x \in B <=> x = p \/ \E i \in 1..n : b[i] = x
    BY DEF BucketOK
  <2> HIDE DEF n, last
  <2>5. last = b[n]
    BY DEF last
  <2>6. \A i \in 1..Len(c) : c[i] # last
    BY <2>1, <2>2, <2>4, <2>5
  <2>7. \A i, j \in 1..Len(c) : c[i] = c[j] => i = j
    BY <2>1, <2>2, <2>4
  <2>8. \A x : x \in B \ {p} <=> x = last \/ \E i \in 1..Len(c) : c[i] = x
    BY <2>1, <2>2, <2>3, <2>4, <2>5
  <2>9. last # 0
    BY <2>1
  <2> QED BY <2>6, <2>7, <2>8, <2>9 DEF BucketOK, last, c, n
<1> QED BY <1>1, <1>2

(* The last of the bucket takes the place of the removed one.              *)
LEMMA SwapRemoveFacts ==
    ASSUME NEW S, NEW q \in Seq(S), NEW i \in 1..Len(q)
    PROVE  /\ SwapRemove(q, i) \in Seq(S) /\ Len(SwapRemove(q, i)) = Len(q) - 1
           /\ \A j \in 1..Len(q) - 1 :
                 SwapRemove(q, i)[j] = IF j = i THEN q[Len(q)] ELSE q[j]
<1> DEFINE n == Len(q)
           c == [q EXCEPT ![i] = q[n]]
<1>1. n \in Nat /\ n \in 1..n /\ q[n] \in S
  BY ElementOfSeq, LenProperties
<1>2. /\ c \in Seq(S) /\ Len(c) = n
      /\ \A j \in 1..n : c[j] = IF j = i THEN q[n] ELSE q[j]
  BY <1>1, ExceptSeq
<1> HIDE DEF c
<1>3. c # <<>>
  BY <1>1, <1>2
<1>4. Front(c) \in Seq(S) /\ Len(Front(c)) = n - 1 /\ \A j \in 1..n - 1 : Front(c)[j] = c[j]
  BY <1>2, <1>3, FrontFacts
<1>5. \A j \in 1..n - 1 : j \in 1..n
  BY <1>1
<1> QED BY <1>2, <1>4, <1>5 DEF SwapRemove, c

LEMMA BucketDropPlace ==
    ASSUME NEW p \in Nat, NEW b \in Seq(Nat \ {0}), NEW B, BucketOK(p, b, B),
           NEW i \in 1..Len(b)
    PROVE  BucketOK(p, SwapRemove(b, i), B \ {b[i]})
<1> DEFINE n == Len(b)
           c == SwapRemove(b, i)
<1>1. /\ n \in Nat /\ n \in 1..n /\ Len(c) = n - 1
      /\ \A j \in 1..n - 1 : c[j] = IF j = i THEN b[n] ELSE b[j]
  BY SwapRemoveFacts, LenProperties
<1>2. \A j \in 1..n - 1 : j \in 1..n /\ j # n
  BY <1>1
<1>3. \A j \in 1..n : j \in 1..n - 1 \/ j = n
  BY <1>1
<1>4. p # 0
  BY <1>1 DEF BucketOK
<1>5. /\ \A j \in 1..n : b[j] # p
      /\ \A j, k \in 1..n : b[j] = b[k] => j = k
      /\ \A x : x \in B <=> x = p \/ \E j \in 1..n : b[j] = x
  BY <1>4 DEF BucketOK
<1> HIDE DEF c, n
<1>6. i \in 1..n
  BY DEF n
<1>7. \A j \in 1..Len(c) : c[j] # p
  BY <1>1, <1>2, <1>5
<1>8. \A j, k \in 1..Len(c) : c[j] = c[k] => j = k
  BY <1>1, <1>2, <1>5, <1>6
<1>9. ASSUME NEW x, x \in B \ {b[i]} PROVE x = p \/ \E j \in 1..Len(c) : c[j] = x
  <2> SUFFICES ASSUME x # p PROVE \E j \in 1..Len(c) : c[j] = x
    OBVIOUS
  <2>1. PICK j \in 1..n : b[j] = x /\ j # i
    BY <1>5, <1>9
  <2>2. CASE j = n
    <3>1. i \in 1..n - 1
      BY <1>3, <1>6, <2>1, <2>2
    <3> QED BY <1>1, <2>1, <2>2, <3>1
  <2>3. CASE j # n
    BY <1>1, <1>3, <2>1, <2>3
  <2> QED BY <2>2, <2>3
<1>10. ASSUME NEW j \in 1..Len(c) PROVE c[j] \in B /\ c[j] # b[i]
  BY <1>1, <1>2, <1>5, <1>6
<1>11. p \in B /\ p # b[i]
  BY <1>5, <1>6
<1>12. \A x : x \in B \ {b[i]} <=> x = p \/ \E j \in 1..Len(c) : c[j] = x
  BY <1>9, <1>10, <1>11
<1> QED BY <1>4, <1>7, <1>8, <1>12 DEF BucketOK, c

-----------------------------------------------------------------------------
(* What every operation of a segment keeps: a row's slot is posted under   *)
(* each of its keys, in order, and the identity index, where there is one, *)
(* holds the live slots of each hash.                                      *)

Slots(s, k) == {i \in 1..Len(s.rows) : k \in KeysOf[s.rows[i]]}

Bucket(s, h) == {i \in s.live : HashOf[s.rows[i]] = h}

Filed(s) ==
    /\ s \in Store
    /\ s.live \subseteq 1..Len(s.rows)
    /\ \A k \in Keys : s.postings[k] = Ordered(Slots(s, k))

Segment(s) ==
    /\ Filed(s)
    /\ s.unique = "ready" =>
           \A h \in Hashes : BucketOK(s.primary[h], s.collisions[h], Bucket(s, h))

LEMMA RowFacts ==
    ASSUME NEW r \in Relationships
    PROVE  HashOf[r] \in Hashes /\ KeysOf[r] \subseteq Keys
BY RowsIndexed DEF Hashes, Keys, Range

(* A set of slots of a sequence can be put in order.                       *)
LEMMA SlotSets ==
    ASSUME NEW S, NEW q \in Seq(S), NEW I \in SUBSET (1..Len(q))
    PROVE  I \in SUBSET Nat /\ IsFiniteSet(I)
<1>1. Len(q) \in Nat
  BY LenProperties
<1>2. IsFiniteSet(1..Len(q))
  BY <1>1, FS_Interval
<1>3. IsFiniteSet(I)
  BY <1>2, FS_Subset
<1>4. I \in SUBSET Nat
  BY <1>1
<1> QED BY <1>3, <1>4

LEMMA SegmentFacts ==
    ASSUME NEW s, Filed(s)
    PROVE  /\ s.rows \in Seq(Relationships) /\ Len(s.rows) \in Nat
           /\ \A i \in 1..Len(s.rows) : s.rows[i] \in Relationships
           /\ \A i \in s.live : i \in 1..Len(s.rows) /\ i \in Nat \ {0}
                                 /\ s.rows[i] \in Relationships /\ s.rows[i] \in LiveRows(s)
           /\ IsFiniteSet(s.live)
           /\ LiveRows(s) \in SUBSET Relationships /\ IsFiniteSet(LiveRows(s))
           /\ \A k : Slots(s, k) \in SUBSET Nat /\ IsFiniteSet(Slots(s, k))
           /\ \A h \in Hashes : s.primary[h] \in Nat /\ s.collisions[h] \in Seq(Nat \ {0})
<1>1. s.rows \in Seq(Relationships) /\ s.live \in SUBSET (1..Len(s.rows))
      /\ s.primary \in [Hashes -> Nat] /\ s.collisions \in [Hashes -> Seq(Nat \ {0})]
  BY DEF Filed, Store
<1>2. Len(s.rows) \in Nat
  BY <1>1, LenProperties
<1>3. \A i \in 1..Len(s.rows) : s.rows[i] \in Relationships
  BY <1>1, ElementOfSeq
<1>4. \A i \in s.live : i \in 1..Len(s.rows) /\ i \in Nat \ {0}
                         /\ s.rows[i] \in Relationships /\ s.rows[i] \in LiveRows(s)
  BY <1>1, <1>2, <1>3 DEF LiveRows
<1>5. IsFiniteSet(s.live)
  BY <1>1, SlotSets
<1>6. LiveRows(s) \in SUBSET Relationships
  BY <1>4 DEF LiveRows
<1>7. IsFiniteSet(LiveRows(s))
  <2> DEFINE f == [i \in s.live |-> s.rows[i]]
  <2>1. f \in Surjection(s.live, LiveRows(s))
    BY DEF Surjection, LiveRows
  <2> HIDE DEF f
  <2> QED BY <1>5, <2>1, FS_Surjection
<1>8. ASSUME NEW k PROVE Slots(s, k) \in SUBSET Nat /\ IsFiniteSet(Slots(s, k))
  <2>1. Slots(s, k) \in SUBSET (1..Len(s.rows))
    BY DEF Slots
  <2> QED BY <1>1, <2>1, SlotSets
<1> QED BY <1>1, <1>2, <1>3, <1>4, <1>5, <1>6, <1>7, <1>8

-----------------------------------------------------------------------------
(* Segments that are built.                                                *)

(* In slot order, the first slot of a hash is primary.                     *)
LEMMA OrderedBucket ==
    ASSUME NEW B \in SUBSET (Nat \ {0}), IsFiniteSet(B)
    PROVE  LET q == Ordered(B)
               p == IF q = <<>> THEN 0 ELSE q[1]
               b == IF q = <<>> THEN <<>> ELSE Tail(q)
           IN  p \in Nat /\ b \in Seq(Nat \ {0}) /\ BucketOK(p, b, B)
<1> DEFINE q == Ordered(B)
           n == Cardinality(B)
<1>1. B \in SUBSET Nat
  OBVIOUS
<1>2. /\ q \in Seq(B) /\ Len(q) = n /\ n \in Nat
      /\ \A k \in 1..n : q[k] \in B
      /\ \A i \in B : q[Rank(B, i)] = i /\ Rank(B, i) \in 1..n
      /\ \A k, m \in 1..n : q[k] = q[m] => k = m
  BY <1>1, OrderedFacts
<1> HIDE DEF q
<1>3. CASE q = <<>>
  <2>1. n = 0 /\ 1..n = {}
    BY <1>2, <1>3
  <2>2. B = {}
    BY <1>2, <2>1
  <2>3. <<>> \in Seq(Nat \ {0}) /\ Len(<<>>) = 0
    BY EmptySeq
  <2> HIDE DEF n
  <2>4. BucketOK(0, <<>>, B)
    BY <2>2, <2>3 DEF BucketOK
  <2> QED BY <1>3, <2>3, <2>4 DEF q
<1>4. CASE q # <<>>
  <2> DEFINE b == Tail(q)
  <2>1. /\ b \in Seq(B) /\ Len(b) = n - 1
        /\ \A i \in 1..Len(b) : b[i] = q[i + 1]
    BY <1>2, <1>4, HeadTailProperties
  <2>2. n # 0
    BY <1>2, <1>4, EmptySeq
  <2> HIDE DEF b, n
  <2>3. b \in Seq(Nat \ {0})
    BY <2>1, SeqMonotonic
  <2>4. \A i \in 1..Len(b) : i + 1 \in 1..n /\ i + 1 # 1
    BY <1>2, <2>1, <2>2
  <2>5. \A k \in 1..n : k = 1 \/ (k - 1 \in 1..Len(b) /\ (k - 1) + 1 = k)
    BY <1>2, <2>1, <2>2
  <2>6. 1 \in 1..n /\ q[1] \in B /\ q[1] # 0
    BY <1>2, <2>2
  <2>7. \A i \in 1..Len(b) : b[i] # q[1]
    BY <1>2, <2>1, <2>4, <2>6
  <2>8. \A i, j \in 1..Len(b) : b[i] = b[j] => i = j
    <3> TAKE i, j \in 1..Len(b)
    <3> HAVE b[i] = b[j]
    <3>1. i + 1 = j + 1
      BY <1>2, <2>1, <2>4
    <3> QED BY <3>1
  <2>9. ASSUME NEW x \in B PROVE x = q[1] \/ \E i \in 1..Len(b) : b[i] = x
    <3>1. PICK k \in 1..n : q[k] = x
      BY <1>2
    <3> QED BY <2>1, <2>5, <3>1
  <2>10. \A i \in 1..Len(b) : b[i] \in B
    BY <1>2, <2>1, <2>4
  <2>11. \A x : x \in B <=> (q[1] # 0 /\ x = q[1]) \/ \E i \in 1..Len(b) : b[i] = x
    BY <2>6, <2>9, <2>10, Zenon
  <2>12. BucketOK(q[1], b, B)
    BY <2>6, <2>7, <2>8, <2>11 DEF BucketOK
  <2> QED BY <1>4, <2>3, <2>6, <2>12 DEF q, b
<1> QED BY <1>3, <1>4

(* Building the identity index changes nothing else.                       *)
LEMMA WithIdentityOK ==
    ASSUME NEW s, Filed(s)
    PROVE  /\ Segment(WithIdentity(s)) /\ WithIdentity(s).unique = "ready"
           /\ WithIdentity(s).rows = s.rows /\ WithIdentity(s).live = s.live
<1> DEFINE t == WithIdentity(s)
           q(h) == Ordered(Bucket(s, h))
           pr == [h \in Hashes |-> IF q(h) = <<>> THEN 0 ELSE q(h)[1]]
           co == [h \in Hashes |-> IF q(h) = <<>> THEN <<>> ELSE Tail(q(h))]
<1>1. t = [s EXCEPT !.unique = "ready", !.primary = pr, !.collisions = co]
  BY DEF WithIdentity, Bucket
<1>2. ASSUME NEW h \in Hashes
      PROVE  /\ pr[h] \in Nat /\ co[h] \in Seq(Nat \ {0})
             /\ BucketOK(pr[h], co[h], Bucket(s, h))
  <2>1. Bucket(s, h) \in SUBSET s.live
    BY DEF Bucket
  <2>2. Bucket(s, h) \in SUBSET (Nat \ {0}) /\ IsFiniteSet(Bucket(s, h))
    BY <2>1, SegmentFacts, FS_Subset
  <2> QED BY <2>2, OrderedBucket
<1>3. pr \in [Hashes -> Nat] /\ co \in [Hashes -> Seq(Nat \ {0})]
  BY <1>2
<1> HIDE DEF pr, co
<1>4. s \in Store
  BY DEF Filed
<1>5. /\ t \in Store /\ t.rows = s.rows /\ t.live = s.live /\ t.postings = s.postings
      /\ t.unique = "ready" /\ t.primary = pr /\ t.collisions = co
  BY <1>1, <1>3, <1>4 DEF Store
<1> HIDE DEF t
<1>6. \A k : Slots(t, k) = Slots(s, k)
  BY <1>5 DEF Slots
<1>7. \A h : Bucket(t, h) = Bucket(s, h)
  BY <1>5 DEF Bucket
<1>8. Segment(t)
  BY <1>2, <1>5, <1>6, <1>7 DEF Segment, Filed
<1> QED BY <1>5, <1>8 DEF t

LEMMA EnsureUniquenessOK ==
    ASSUME NEW s, Segment(s)
    PROVE  /\ Segment(EnsureUniqueness(s)) /\ EnsureUniqueness(s).unique = "ready"
           /\ EnsureUniqueness(s).rows = s.rows /\ EnsureUniqueness(s).live = s.live
BY WithIdentityOK DEF EnsureUniqueness, Segment

(* A loaded segment holds its rows, uniquely if no row is repeated.        *)
LEMMA DecodedOK ==
    ASSUME NEW q \in Seq(Relationships), NEW u \in {"ready", "known", "untrusted"}
    PROVE  /\ Filed(Decoded(q, u)) /\ Decoded(q, u).unique = u
           /\ Decoded(q, u).rows = q /\ Decoded(q, u).live = 1..Len(q)
<1> DEFINE d == Decoded(q, u)
           po == [k \in Keys |-> Ordered({i \in 1..Len(q) : k \in KeysOf[q[i]]})]
<1>1. Len(q) \in Nat
  BY LenProperties
<1>2. po \in [Keys -> Seq(Nat \ {0})]
  <2> SUFFICES ASSUME NEW k \in Keys PROVE po[k] \in Seq(Nat \ {0})
    OBVIOUS
  <2> DEFINE I == {i \in 1..Len(q) : k \in KeysOf[q[i]]}
  <2>1. I \in SUBSET (1..Len(q))
    OBVIOUS
  <2>2. I \in SUBSET Nat /\ IsFiniteSet(I) /\ I \subseteq Nat \ {0}
    BY <1>1, <2>1, SlotSets
  <2>3. po[k] = Ordered(I)
    OBVIOUS
  <2> HIDE DEF I, po
  <2> QED BY <2>2, <2>3, OrderedFacts, SeqMonotonic
<1>3. /\ d \in Store /\ d.rows = q /\ d.live = 1..Len(q) /\ d.unique = u
      /\ d.postings = po
  <2>1. [h \in Hashes |-> <<>>] \in [Hashes -> Seq(Nat \ {0})]
    BY EmptySeq
  <2>2. 1..Len(q) \in SUBSET (Nat \ {0})
    BY <1>1
  <2> HIDE DEF po
  <2>3. d = [rows |-> q, live |-> 1..Len(q), unique |-> u, postings |-> po,
             primary |-> [h \in Hashes |-> 0], collisions |-> [h \in Hashes |-> <<>>]]
    BY DEF Decoded, po
  <2> HIDE DEF d
  <2> QED BY <1>2, <2>1, <2>2, <2>3 DEF Store
<1> HIDE DEF d
<1>4. \A k \in Keys : d.postings[k] = Ordered(Slots(d, k))
  BY <1>3 DEF Slots
<1>5. Filed(d)
  BY <1>3, <1>4 DEF Filed
<1> QED BY <1>3, <1>5 DEF d

LEMMA StoreOfOK ==
    ASSUME NEW q \in Seq(Relationships)
    PROVE  /\ Segment(StoreOf(q)) /\ StoreOf(q).unique = "ready"
           /\ StoreOf(q).rows = q /\ StoreOf(q).live = 1..Len(q)
BY DecodedOK, WithIdentityOK DEF StoreOf

(* What is in a segment all of whose slots are live.                       *)
LEMMA AllLive ==
    ASSUME NEW s, NEW q \in Seq(Relationships), s.rows = q, s.live = 1..Len(q)
    PROVE  LiveRows(s) = Range(q) /\ (Unique(s) <=> IsInjective(q))
BY LenProperties DEF LiveRows, Range, Unique, IsInjective

LEMMA EmptyOK ==
    /\ Segment(Empty) /\ Empty.unique = "ready" /\ Unique(Empty) /\ LiveRows(Empty) = {}
    /\ Len(Empty.rows) = 0
<1>1. <<>> \in Seq(Relationships) /\ Len(<<>>) = 0 /\ 1..0 = {}
  BY EmptySeq
<1>2. Segment(Empty) /\ Empty.unique = "ready" /\ Empty.rows = <<>> /\ Empty.live = {}
  BY <1>1, StoreOfOK DEF Empty
<1> QED BY <1>1, <1>2 DEF Unique, LiveRows

-----------------------------------------------------------------------------
(* The identity index finds exactly the live rows.                         *)

(* A set of positions has a least one.                                     *)
LEMMA Least ==
    ASSUME NEW I \in SUBSET Nat, IsFiniteSet(I), I # {}
    PROVE  \E i \in I : \A j \in I : i <= j
<1> DEFINE n == Cardinality(I)
           q == Ordered(I)
<1>1. /\ n \in Nat
      /\ \A k \in 1..n : q[k] \in I
      /\ \A i \in I : q[Rank(I, i)] = i /\ Rank(I, i) \in 1..n
      /\ \A k, m \in 1..n : k < m => q[k] < q[m]
  BY OrderedFacts
<1> HIDE DEF n, q
<1>2. 1 \in 1..n
  <2>1. PICK i \in I : Rank(I, i) \in 1..n
    BY <1>1
  <2> QED BY <1>1, <2>1
<1>3. ASSUME NEW j \in I PROVE q[1] <= j
  <2>1. PICK k \in 1..n : q[k] = j
    BY <1>1
  <2>2. q[1] \in Nat /\ j \in Nat
    BY <1>1, <1>2
  <2>3. k = 1 \/ 1 < k
    BY <1>1
  <2> QED BY <1>1, <1>2, <2>1, <2>2, <2>3
<1> QED BY <1>1, <1>2, <1>3

LEMMA PlaceFacts ==
    ASSUME NEW s, Segment(s), NEW row \in Relationships
    PROVE  LET b == s.collisions[HashOf[row]]
           IN  \/ Place(s, row) = 0 /\ \A i \in 1..Len(b) : s.rows[b[i]] # row
               \/ /\ Place(s, row) \in 1..Len(b) /\ Place(s, row) # 0
                  /\ s.rows[b[Place(s, row)]] = row
<1> DEFINE b == s.collisions[HashOf[row]]
           at == {i \in 1..Len(b) : s.rows[b[i]] = row}
<1>1. b \in Seq(Nat \ {0}) /\ Len(b) \in Nat
  BY RowFacts, SegmentFacts, LenProperties DEF Segment
<1>2. Place(s, row) = IF at = {} THEN 0 ELSE CHOOSE i \in at : \A j \in at : i <= j
  BY DEF Place
<1>3. CASE at = {}
  BY <1>2, <1>3
<1>4. CASE at # {}
  <2>1. at \in SUBSET (1..Len(b))
    OBVIOUS
  <2>2. at \in SUBSET Nat /\ IsFiniteSet(at)
    BY <1>1, <2>1, SlotSets
  <2> HIDE DEF at
  <2>3. \E i \in at : \A j \in at : i <= j
    BY <1>4, <2>2, Least
  <2>4. Place(s, row) \in at
    BY <1>2, <1>4, <2>3
  <2> QED BY <1>1, <2>4 DEF at
<1> QED BY <1>3, <1>4

LEMMA FindOK ==
    ASSUME NEW s, Segment(s), s.unique = "ready", NEW row \in Relationships
    PROVE  /\ Find(s, row) # 0 <=> row \in LiveRows(s)
           /\ Contains(s, row) <=> row \in LiveRows(s)
           /\ row \in LiveRows(s) =>
                 Find(s, row) \in Bucket(s, HashOf[row]) /\ s.rows[Find(s, row)] = row
<1> DEFINE h == HashOf[row]
           p == s.primary[h]
           b == s.collisions[h]
           B == Bucket(s, h)
<1>1. h \in Hashes /\ Filed(s)
  BY RowFacts DEF Segment
<1>2. p \in Nat /\ b \in Seq(Nat \ {0}) /\ Len(b) \in Nat
  BY <1>1, SegmentFacts, LenProperties
<1>3. \A x : x \in B <=> (p # 0 /\ x = p) \/ \E i \in 1..Len(b) : b[i] = x
  BY <1>1 DEF Segment, BucketOK
<1>4. \A i \in B : i \in s.live /\ i # 0 /\ s.rows[i] \in LiveRows(s)
  BY <1>1, SegmentFacts DEF Bucket
<1>5. \A i \in s.live : s.rows[i] = row => i \in B
  BY DEF Bucket
<1> HIDE DEF h, p, b, B
<1>6. IsPrimary(s, row) <=> (p # 0 /\ s.rows[p] = row)
  BY DEF IsPrimary, p, h
<1>7. CASE IsPrimary(s, row)
  <2>1. Find(s, row) = p /\ p # 0 /\ s.rows[p] = row /\ p \in B
    BY <1>3, <1>6, <1>7 DEF Find, p, h
  <2>2. row \in LiveRows(s)
    BY <1>4, <2>1
  <2> QED BY <2>1, <2>2 DEF Contains, B, h
<1>8. CASE ~IsPrimary(s, row) /\ Place(s, row) # 0
  <2>1. Place(s, row) \in 1..Len(b) /\ s.rows[b[Place(s, row)]] = row
    BY <1>8, PlaceFacts DEF b, h
  <2>2. Find(s, row) = b[Place(s, row)]
    BY <1>8 DEF Find, b, h
  <2>3. Find(s, row) \in B /\ Find(s, row) # 0 /\ s.rows[Find(s, row)] = row
    BY <1>3, <1>4, <2>1, <2>2
  <2>4. row \in LiveRows(s)
    BY <1>4, <2>3
  <2> QED BY <2>3, <2>4 DEF Contains, B, h
<1>9. CASE ~IsPrimary(s, row) /\ Place(s, row) = 0
  <2>1. Find(s, row) = 0
    BY <1>9 DEF Find
  <2>2. \A i \in 1..Len(b) : s.rows[b[i]] # row
    <3>1. Place(s, row) \notin 1..Len(b) \/ Place(s, row) = 0
      BY <1>9
    <3> QED BY <1>9, PlaceFacts DEF b, h
  <2>3. \A i \in B : s.rows[i] # row
    BY <1>3, <1>6, <1>9, <2>2
  <2>4. row \notin LiveRows(s)
    BY <1>5, <2>3 DEF LiveRows
  <2> QED BY <2>1, <2>4 DEF Contains
<1> QED BY <1>7, <1>8, <1>9

-----------------------------------------------------------------------------
(* insert and delete.                                                      *)

LEMMA InsertFields ==
    ASSUME NEW s, Filed(s), NEW row \in Relationships
    PROVE  LET t == Insert(s, row)
               id == Len(s.rows) + 1
               g == HashOf[row]
           IN  /\ t \in Store /\ t.unique = s.unique
               /\ t.rows = Append(s.rows, row) /\ t.live = s.live \cup {id}
               /\ t.postings = Posted(s, id, row)
               /\ \A h \in Hashes : h # g => t.primary[h] = s.primary[h]
                                             /\ t.collisions[h] = s.collisions[h]
               /\ s.primary[g] = 0 => t.primary[g] = id /\ t.collisions[g] = s.collisions[g]
               /\ s.primary[g] # 0 /\ s.rows[s.primary[g]] # row =>
                     t.primary[g] = s.primary[g]
                     /\ t.collisions[g] = Append(s.collisions[g], id)
<1> DEFINE id == Len(s.rows) + 1
           g == HashOf[row]
           u == InsertIdentity(s, id, row)
           po == Posted(s, id, row)
<1>1. s \in Store /\ id \in Nat \ {0} /\ g \in Hashes /\ s.rows \in Seq(Relationships)
  BY RowFacts, SegmentFacts DEF Filed
<1>2. po \in [Keys -> Seq(Nat \ {0})]
  <2>1. \A k \in Keys : s.postings[k] \in Seq(Nat \ {0})
    BY <1>1 DEF Store
  <2>2. \A k \in Keys : Append(s.postings[k], id) \in Seq(Nat \ {0})
    BY <1>1, <2>1, AppendProperties
  <2> HIDE DEF id
  <2> QED BY <2>1, <2>2 DEF Posted
<1>3. Append(s.rows, row) \in Seq(Relationships)
  BY <1>1, AppendProperties
<1> HIDE DEF id, g, po
<1>4. Append(s.collisions[g], id) \in Seq(Nat \ {0})
  BY <1>1, AppendProperties DEF Store
<1>5. /\ u \in Store /\ u.unique = s.unique /\ u.rows = s.rows /\ u.live = s.live
      /\ \A h \in Hashes : h # g => u.primary[h] = s.primary[h]
                                    /\ u.collisions[h] = s.collisions[h]
      /\ s.primary[g] = 0 => u.primary[g] = id /\ u.collisions[g] = s.collisions[g]
      /\ s.primary[g] # 0 /\ s.rows[s.primary[g]] # row =>
            u.primary[g] = s.primary[g]
            /\ u.collisions[g] = Append(s.collisions[g], id)
  <2>1. CASE s.primary[g] = 0
    <3>1. u = [s EXCEPT !.primary[g] = id]
      BY <2>1 DEF InsertIdentity, g
    <3> HIDE DEF u
    <3> QED BY <1>1, <2>1, <3>1 DEF Store
  <2>2. CASE s.primary[g] # 0 /\ s.rows[s.primary[g]] # row
    <3>1. u = [s EXCEPT !.collisions[g] = Append(@, id)]
      BY <2>2 DEF InsertIdentity, g
    <3> HIDE DEF u
    <3> QED BY <1>1, <1>4, <2>2, <3>1 DEF Store
  <2>3. CASE s.primary[g] # 0 /\ s.rows[s.primary[g]] = row
    <3>1. u = s
      BY <2>3 DEF InsertIdentity, g
    <3> HIDE DEF u
    <3> QED BY <1>1, <2>3, <3>1 DEF Store
  <2> QED BY <2>1, <2>2, <2>3
<1> DEFINE R == Append(s.rows, row)
           L == s.live \cup {id}
<1>6. Insert(s, row) = [u EXCEPT !.postings = po, !.rows = R, !.live = L]
  BY <1>5, Zenon DEF Insert, u, id, po
<1> HIDE DEF u
<1>7. L \in SUBSET (Nat \ {0})
  BY <1>1 DEF Store
<1> HIDE DEF R, L
<1>8. LET t == Insert(s, row) IN
      /\ t \in Store /\ t.unique = u.unique /\ t.rows = R /\ t.live = L /\ t.postings = po
      /\ t.primary = u.primary /\ t.collisions = u.collisions
  BY <1>2, <1>3, <1>5, <1>6, <1>7 DEF Store, R
<1> QED BY <1>5, <1>8 DEF id, g, po, R, L

(* Inserting a row that is not live.                                       *)
LEMMA InsertOK ==
    ASSUME NEW s, Segment(s), s.unique = "ready", NEW row \in Relationships,
           row \notin LiveRows(s)
    PROVE  /\ Segment(Insert(s, row)) /\ Insert(s, row).unique = "ready"
           /\ LiveRows(Insert(s, row)) = LiveRows(s) \cup {row}
           /\ Unique(s) => Unique(Insert(s, row))
           /\ Len(Insert(s, row).rows) = Len(s.rows) + 1
<1> DEFINE t == Insert(s, row)
           n == Len(s.rows)
           id == n + 1
           g == HashOf[row]
<1>1. Filed(s) /\ s \in Store /\ n \in Nat /\ s.rows \in Seq(Relationships) /\ g \in Hashes
      /\ KeysOf[row] \subseteq Keys
  BY SegmentFacts, RowFacts DEF Segment, Filed
<1>2. /\ t \in Store /\ t.unique = "ready"
      /\ t.rows = Append(s.rows, row) /\ t.live = s.live \cup {id}
      /\ t.postings = Posted(s, id, row)
      /\ \A h \in Hashes : h # g => t.primary[h] = s.primary[h]
                                    /\ t.collisions[h] = s.collisions[h]
      /\ s.primary[g] = 0 => t.primary[g] = id /\ t.collisions[g] = s.collisions[g]
      /\ s.primary[g] # 0 /\ s.rows[s.primary[g]] # row =>
            t.primary[g] = s.primary[g]
            /\ t.collisions[g] = Append(s.collisions[g], id)
  BY <1>1, InsertFields
<1> HIDE DEF t
<1>3. /\ Len(t.rows) = n + 1 /\ t.rows[id] = row
      /\ \A i \in 1..n : t.rows[i] = s.rows[i]
  BY <1>1, <1>2, AppendProperties
<1>4. \A i \in s.live : i \in 1..n /\ s.rows[i] \in LiveRows(s)
  BY <1>1, SegmentFacts
<1> HIDE DEF n
<1>5. id \in Nat \ {0} /\ id \notin 1..n /\ \A i \in 1..n : i < id
  BY <1>1
<1>6. \A i : i \in 1..Len(t.rows) <=> i \in 1..n \/ i = id
  BY <1>1, <1>3
<1> HIDE DEF id, g
<1>7. t.live \subseteq 1..Len(t.rows)
  BY <1>2, <1>4, <1>6
<1>8. ASSUME NEW k \in Keys PROVE t.postings[k] = Ordered(Slots(t, k))
  <2>1. s.postings[k] = Ordered(Slots(s, k))
    BY <1>1 DEF Filed
  <2>2. CASE k \in KeysOf[row]
    <3>1. Slots(t, k) = Slots(s, k) \cup {id}
      BY <1>3, <1>6, <2>2 DEF Slots, n
    <3>2. \A i \in Slots(s, k) : i < id
      BY <1>5 DEF Slots, n
    <3>3. Slots(s, k) \in SUBSET Nat /\ IsFiniteSet(Slots(s, k))
      BY <1>1, SegmentFacts
    <3>4. Ordered(Slots(t, k)) = Append(Ordered(Slots(s, k)), id)
      BY <1>5, <3>1, <3>2, <3>3, OrderedAppend
    <3> QED BY <1>2, <2>1, <2>2, <3>4 DEF Posted
  <2>3. CASE k \notin KeysOf[row]
    <3>1. Slots(t, k) = Slots(s, k)
      BY <1>3, <1>6, <2>3 DEF Slots, n
    <3> QED BY <1>2, <2>1, <2>3, <3>1 DEF Posted
  <2> QED BY <2>2, <2>3
<1>9. Filed(t)
  BY <1>2, <1>7, <1>8 DEF Filed
<1>10. ASSUME NEW h \in Hashes PROVE BucketOK(t.primary[h], t.collisions[h], Bucket(t, h))
  <2>1. BucketOK(s.primary[h], s.collisions[h], Bucket(s, h))
    BY DEF Segment
  <2>2. CASE h # g
    <3>1. Bucket(t, h) = Bucket(s, h)
      BY <1>2, <1>3, <1>4, <2>2 DEF Bucket, g
    <3> QED BY <1>2, <2>1, <2>2, <3>1
  <2>3. CASE h = g
    <3> DEFINE p == s.primary[g]
               b == s.collisions[g]
    <3>1. Bucket(t, h) = Bucket(s, h) \cup {id} /\ id \notin Bucket(s, h)
      <4>1. HashOf[t.rows[id]] = h /\ id \notin s.live
        BY <1>3, <1>4, <1>5, <2>3 DEF g
      <4>2. \A i \in s.live : t.rows[i] = s.rows[i]
        BY <1>3, <1>4
      <4> QED BY <1>2, <4>1, <4>2 DEF Bucket
    <3>2. p \in Nat /\ b \in Seq(Nat \ {0})
      BY <1>1, SegmentFacts
    <3>3. p # 0 => s.rows[p] # row
      <4> SUFFICES ASSUME p # 0 PROVE s.rows[p] # row
        OBVIOUS
      <4>1. p \in Bucket(s, h)
        BY <2>1, <2>3 DEF BucketOK
      <4> QED BY <1>4, <4>1 DEF Bucket
    <3>4. /\ p = 0 => BucketOK(id, b, Bucket(t, h))
          /\ p # 0 => BucketOK(p, Append(b, id), Bucket(t, h))
      BY <1>5, <2>1, <2>3, <3>1, <3>2, BucketAdd
    <3> QED BY <1>2, <2>3, <3>3, <3>4
  <2> QED BY <2>2, <2>3
<1>11. Segment(t)
  BY <1>9, <1>10 DEF Segment
<1>12. LiveRows(t) = LiveRows(s) \cup {row}
  <2>1. \A i \in s.live : t.rows[i] = s.rows[i]
    BY <1>3, <1>4
  <2>2. id \in t.live /\ t.rows[id] = row /\ s.live \subseteq t.live
    BY <1>2, <1>3
  <2>3. \A i \in t.live : i \in s.live \/ i = id
    BY <1>2
  <2>4. LiveRows(t) \subseteq LiveRows(s) \cup {row}
    BY <2>1, <2>2, <2>3 DEF LiveRows
  <2>5. LiveRows(s) \cup {row} \subseteq LiveRows(t)
    BY <2>1, <2>2 DEF LiveRows
  <2> QED BY <2>4, <2>5
<1>13. ASSUME Unique(s) PROVE Unique(t)
  BY <1>2, <1>3, <1>4, <1>13 DEF Unique
<1> QED BY <1>2, <1>3, <1>11, <1>12, <1>13 DEF t, n

LEMMA DeleteFields ==
    ASSUME NEW s, Segment(s), s.unique = "ready", NEW row \in LiveRows(s)
    PROVE  LET t == Delete(s, row)
               g == HashOf[row]
           IN  /\ t \in Store /\ t.unique = "ready" /\ t.rows = s.rows
               /\ t.live = s.live \ {Find(s, row)} /\ t.postings = s.postings
               /\ \A h \in Hashes : h # g => t.primary[h] = s.primary[h]
                                             /\ t.collisions[h] = s.collisions[h]
               /\ BucketOK(t.primary[g], t.collisions[g], Bucket(s, g) \ {Find(s, row)})
<1> DEFINE g == HashOf[row]
           p == s.primary[g]
           b == s.collisions[g]
           u == RemoveIdentity(s, row)
<1>1. row \in Relationships /\ Filed(s) /\ s \in Store
  BY SegmentFacts DEF Segment, Filed
<1>2. g \in Hashes /\ p \in Nat /\ b \in Seq(Nat \ {0}) /\ Len(b) \in Nat
  BY <1>1, RowFacts, SegmentFacts, LenProperties
<1>3. BucketOK(p, b, Bucket(s, g))
  BY <1>2 DEF Segment
<1> DEFINE Same ==
      /\ u \in Store /\ u.unique = "ready" /\ u.rows = s.rows /\ u.live = s.live
      /\ u.postings = s.postings
      /\ \A h \in Hashes : h # g => u.primary[h] = s.primary[h]
                                    /\ u.collisions[h] = s.collisions[h]
      /\ BucketOK(u.primary[g], u.collisions[g], Bucket(s, g) \ {Find(s, row)})
<1> HIDE DEF u
<1>4. \A np \in Nat, nb \in Seq(Nat \ {0}) :
          /\ u = [s EXCEPT !.primary[g] = np, !.collisions[g] = nb]
          /\ BucketOK(np, nb, Bucket(s, g) \ {Find(s, row)})
          => Same
  <2> SUFFICES ASSUME NEW np \in Nat, NEW nb \in Seq(Nat \ {0}),
                      u = [s EXCEPT !.primary[g] = np, !.collisions[g] = nb],
                      BucketOK(np, nb, Bucket(s, g) \ {Find(s, row)})
               PROVE  Same
    BY Zenon
  <2> HIDE DEF g
  <2>1. u.primary[g] = np /\ u.collisions[g] = nb
    BY <1>1, <1>2 DEF Store
  <2>2. /\ u \in Store /\ u.unique = "ready" /\ u.rows = s.rows /\ u.live = s.live
        /\ u.postings = s.postings
        /\ \A h \in Hashes : h # g => u.primary[h] = s.primary[h]
                                      /\ u.collisions[h] = s.collisions[h]
    BY <1>1, <1>2 DEF Store
  <2> QED BY <2>1, <2>2
<1> HIDE DEF Same
<1>5. ASSUME IsPrimary(s, row) PROVE Same
  <2>1. Find(s, row) = p /\ p # 0
    BY <1>5 DEF Find, IsPrimary
  <2>2. CASE b = <<>>
    <3>1. BucketOK(0, b, Bucket(s, g) \ {p})
      BY <1>2, <1>3, <2>1, <2>2, BucketDropPrimary
    <3>2. u = [s EXCEPT !.primary[g] = 0]
      BY <1>5, <2>2 DEF RemoveIdentity, u
    <3>3. 0 \in Nat /\ u = [s EXCEPT !.primary[g] = 0, !.collisions[g] = b]
      <4> HIDE DEF g
      <4> QED BY <1>1, <1>2, <3>2 DEF Store
    <3> QED BY <1>2, <1>4, <2>1, <3>1, <3>3, Zenon
  <2>3. CASE b # <<>>
    <3>1. BucketOK(b[Len(b)], Front(b), Bucket(s, g) \ {p})
      BY <1>2, <1>3, <2>1, <2>3, BucketDropPrimary
    <3>2. b[Len(b)] \in Nat /\ Front(b) \in Seq(Nat \ {0})
      BY <1>2, <2>3, FrontFacts
    <3>3. u = [s EXCEPT !.primary[g] = b[Len(b)], !.collisions[g] = Front(b)]
      <4>1. u = [s EXCEPT !.primary[g] = b[Len(b)], !.collisions[g] = Front(@)]
        BY <1>5, <2>3 DEF RemoveIdentity, u
      <4> HIDE DEF g
      <4> QED BY <1>1, <1>2, <4>1 DEF Store
    <3> QED BY <1>4, <2>1, <3>1, <3>2, <3>3, Zenon
  <2> QED BY <2>2, <2>3
<1>6. ASSUME ~IsPrimary(s, row) PROVE Same
  <2> DEFINE i == Place(s, row)
  <2>1. i # 0 /\ i \in 1..Len(b)
    <3>1. Find(s, row) # 0
      BY <1>1, FindOK
    <3>2. i # 0
      BY <1>6, <3>1 DEF Find
    <3> QED BY <1>1, <3>2, PlaceFacts
  <2>2. Find(s, row) = b[i]
    BY <1>6, <2>1 DEF Find
  <2>3. BucketOK(p, SwapRemove(b, i), Bucket(s, g) \ {b[i]})
    BY <1>2, <1>3, <2>1, BucketDropPlace
  <2>4. SwapRemove(b, i) \in Seq(Nat \ {0})
    BY <1>2, <2>1, SwapRemoveFacts
  <2>5. u = [s EXCEPT !.primary[g] = p, !.collisions[g] = SwapRemove(b, i)]
    <3>1. u = [s EXCEPT !.collisions[g] = SwapRemove(@, i)]
      BY <1>6, <2>1 DEF RemoveIdentity, u
    <3> HIDE DEF g, i
    <3> QED BY <1>1, <1>2, <3>1 DEF Store
  <2> QED BY <1>2, <1>4, <2>2, <2>3, <2>4, <2>5, Zenon
<1>7. Same
  BY <1>5, <1>6
<1>8. Delete(s, row) = [u EXCEPT !.live = @ \ {Find(s, row)}]
  BY DEF Delete, u
<1>9. LET t == Delete(s, row) IN
      /\ t \in Store /\ t.unique = u.unique /\ t.rows = u.rows
      /\ t.live = u.live \ {Find(s, row)} /\ t.postings = u.postings
      /\ t.primary = u.primary /\ t.collisions = u.collisions
  BY <1>7, <1>8 DEF Store, Same
<1> QED BY <1>7, <1>9 DEF Same

(* Deleting a row that is live, once.                                      *)
LEMMA DeleteOK ==
    ASSUME NEW s, Segment(s), s.unique = "ready", NEW row \in LiveRows(s), Unique(s)
    PROVE  /\ Segment(Delete(s, row)) /\ Delete(s, row).unique = "ready"
           /\ LiveRows(Delete(s, row)) = LiveRows(s) \ {row}
           /\ Unique(Delete(s, row))
           /\ Delete(s, row).rows = s.rows
<1> DEFINE t == Delete(s, row)
           g == HashOf[row]
           x == Find(s, row)
<1>1. Filed(s) /\ row \in Relationships
  BY SegmentFacts DEF Segment
<1>2. /\ t \in Store /\ t.unique = "ready" /\ t.rows = s.rows
      /\ t.live = s.live \ {x} /\ t.postings = s.postings
      /\ \A h \in Hashes : h # g => t.primary[h] = s.primary[h]
                                    /\ t.collisions[h] = s.collisions[h]
      /\ BucketOK(t.primary[g], t.collisions[g], Bucket(s, g) \ {x})
  BY DeleteFields
<1>3. x \in s.live /\ s.rows[x] = row
  BY <1>1, FindOK DEF Bucket
<1> HIDE DEF t, x
<1>4. Filed(t)
  <2>1. \A k : Slots(t, k) = Slots(s, k)
    BY <1>2 DEF Slots
  <2> QED BY <1>1, <1>2, <2>1 DEF Filed
<1>5. ASSUME NEW h \in Hashes PROVE BucketOK(t.primary[h], t.collisions[h], Bucket(t, h))
  <2>1. CASE h # g
    <3>1. Bucket(t, h) = Bucket(s, h)
      BY <1>2, <1>3, <2>1 DEF Bucket
    <3>2. BucketOK(s.primary[h], s.collisions[h], Bucket(s, h))
      BY DEF Segment
    <3> QED BY <1>2, <2>1, <3>1, <3>2
  <2>2. CASE h = g
    <3>1. Bucket(t, h) = Bucket(s, g) \ {x}
      BY <1>2, <2>2 DEF Bucket
    <3> QED BY <1>2, <2>2, <3>1
  <2> QED BY <2>1, <2>2
<1>6. Segment(t)
  BY <1>4, <1>5 DEF Segment
<1>7. LiveRows(t) = LiveRows(s) \ {row}
  BY <1>2, <1>3 DEF LiveRows, Unique
<1>8. Unique(t)
  BY <1>2 DEF Unique
<1> QED BY <1>2, <1>6, <1>7, <1>8 DEF t

-----------------------------------------------------------------------------
(* Queries.  A filter's key is a key of every row it matches.              *)

Covers(f) == f \in Filter /\ \A r \in f.rows : f.key \in KeysOf[r]

Hits(s, f) == {id \in s.live : Matches(s, id, f)}

(* A list holds every slot the filter can hit, once.                       *)
LEMMA ListFacts ==
    ASSUME NEW s, Filed(s), NEW f, Covers(f)
    PROVE  LET list == Candidates(s, f)
           IN  /\ Len(list) \in Nat
               /\ \A i, j \in 1..Len(list) : list[i] = list[j] => i = j
               /\ \A id \in Hits(s, f) : \E j \in 1..Len(list) : list[j] = id
<1> DEFINE list == Candidates(s, f)
           I == Slots(s, f.key)
<1>1. f.key \in Keys /\ f.rows \in SUBSET Relationships
  BY DEF Covers, Filter
<1>2. list = Ordered(I)
  BY <1>1 DEF Candidates, Filed
<1>3. I \in SUBSET Nat /\ IsFiniteSet(I)
  BY SegmentFacts
<1>4. Hits(s, f) \subseteq I
  BY SegmentFacts DEF Hits, Matches, Slots, Covers
<1> HIDE DEF list, I
<1>5. /\ Len(list) = Cardinality(I) /\ Cardinality(I) \in Nat
      /\ \A i \in I : list[Rank(I, i)] = i /\ Rank(I, i) \in 1..Cardinality(I)
      /\ \A k, m \in 1..Cardinality(I) : list[k] = list[m] => k = m
  BY <1>2, <1>3, OrderedFacts
<1> QED BY <1>4, <1>5 DEF list

LEMMA YieldedBy ==
    ASSUME NEW s, NEW f, NEW r
    PROVE  LET list == Candidates(s, f)
           IN  r \in Yielded(s, f) <=>
                   \E j \in 1..Len(list) :
                       /\ list[j] \in Hits(s, f) /\ r = s.rows[list[j]]
                       /\ Cardinality({n \in 1..j : list[n] \in Hits(s, f)}) <= f.limit
BY DEF Yielded, FirstHits, Hits

(* With room for what matches, a segment yields all of it and no more.     *)
LEMMA YieldedExact ==
    ASSUME NEW s, Filed(s), Unique(s), NEW f, Covers(f),
           f.limit >= Cardinality(f.rows \cap LiveRows(s))
    PROVE  Yielded(s, f) = f.rows \cap LiveRows(s)
<1> DEFINE list == Candidates(s, f)
           M == f.rows \cap LiveRows(s)
           H(j) == {n \in 1..j : list[n] \in Hits(s, f)}
<1>1. /\ Len(list) \in Nat
      /\ \A i, j \in 1..Len(list) : list[i] = list[j] => i = j
      /\ \A id \in Hits(s, f) : \E j \in 1..Len(list) : list[j] = id
  BY ListFacts
<1>2. IsFiniteSet(M) /\ Cardinality(M) \in Nat /\ f.limit \in Nat
  <2>1. IsFiniteSet(M)
    BY SegmentFacts, FS_Subset
  <2> QED BY <2>1, FS_CardinalityType DEF Covers, Filter
<1>3. \A id : id \in Hits(s, f) => id \in s.live /\ s.rows[id] \in M
  BY SegmentFacts DEF Hits, Matches
<1>4. \A r \in M : \E id \in Hits(s, f) : s.rows[id] = r
  BY DEF Hits, Matches, LiveRows
<1> HIDE DEF list, M
<1>5. ASSUME NEW j \in 1..Len(list) PROVE Cardinality(H(j)) <= f.limit
  <2> DEFINE g == [n \in H(j) |-> s.rows[list[n]]]
  <2>0. H(j) \subseteq 1..Len(list)
    BY <1>1
  <2>1. g \in [H(j) -> M]
    BY <1>3
  <2>2. \A n, m \in H(j) : g[n] = g[m] => n = m
    <3> TAKE n, m \in H(j)
    <3> HAVE g[n] = g[m]
    <3>1. list[n] \in s.live /\ list[m] \in s.live /\ s.rows[list[n]] = s.rows[list[m]]
      BY <1>3
    <3>2. list[n] = list[m]
      BY <3>1 DEF Unique
    <3> QED BY <1>1, <2>0, <3>2
  <2>3. g \in Injection(H(j), M)
    BY <2>1, <2>2, Fun_IsInj
  <2>4. IsFiniteSet(H(j)) /\ Cardinality(H(j)) <= Cardinality(M)
    <3> HIDE DEF g
    <3> QED BY <1>2, <2>3, FS_Injection
  <2>5. Cardinality(H(j)) \in Nat
    BY <2>4, FS_CardinalityType
  <2>6. f.limit >= Cardinality(M)
    BY DEF M
  <2> HIDE DEF H
  <2> QED BY <1>2, <2>4, <2>5, <2>6
<1>6. \A r : r \in Yielded(s, f) <=>
          \E j \in 1..Len(list) : /\ list[j] \in Hits(s, f) /\ r = s.rows[list[j]]
                                  /\ Cardinality(H(j)) <= f.limit
  BY YieldedBy DEF list
<1> HIDE DEF H
<1>7. \A r \in Yielded(s, f) : r \in M
  BY <1>3, <1>6
<1>8. \A r \in M : r \in Yielded(s, f)
  <2> TAKE r \in M
  <2>1. PICK id \in Hits(s, f) : s.rows[id] = r
    BY <1>4
  <2>2. PICK j \in 1..Len(list) : list[j] = id
    BY <1>1
  <2> QED BY <1>5, <1>6, <2>1, <2>2
<1> QED BY <1>7, <1>8 DEF M

(* Whatever its limit, a segment yields a row if one matches.              *)
LEMMA YieldedSome ==
    ASSUME NEW s, Filed(s), NEW f, Covers(f)
    PROVE  /\ Yielded(s, f) \subseteq f.rows \cap LiveRows(s)
           /\ f.rows \cap LiveRows(s) # {} => Yielded(s, f) # {}
<1> DEFINE list == Candidates(s, f)
           H(j) == {n \in 1..j : list[n] \in Hits(s, f)}
           P == {j \in 1..Len(list) : list[j] \in Hits(s, f)}
<1>1. /\ Len(list) \in Nat
      /\ \A id \in Hits(s, f) : \E j \in 1..Len(list) : list[j] = id
  BY ListFacts
<1>2. \A r : r \in Yielded(s, f) <=>
          \E j \in 1..Len(list) : /\ list[j] \in Hits(s, f) /\ r = s.rows[list[j]]
                                  /\ Cardinality(H(j)) <= f.limit
  BY YieldedBy
<1> HIDE DEF list
<1>3. \A id \in Hits(s, f) : s.rows[id] \in f.rows \cap LiveRows(s)
  BY SegmentFacts DEF Hits, Matches
<1>4. ASSUME NEW r \in Yielded(s, f) PROVE r \in f.rows \cap LiveRows(s)
  <2>1. PICK j \in 1..Len(list) : list[j] \in Hits(s, f) /\ r = s.rows[list[j]]
    BY <1>2, Zenon
  <2> QED BY <1>3, <2>1
<1>5. ASSUME f.rows \cap LiveRows(s) # {} PROVE Yielded(s, f) # {}
  <2>1. \E id : id \in Hits(s, f)
    BY <1>5 DEF Hits, Matches, LiveRows
  <2>2. P # {} /\ P \in SUBSET (1..Len(list))
    BY <1>1, <2>1
  <2>3. P \in SUBSET Nat /\ IsFiniteSet(P)
    <3> HIDE DEF P
    <3>1. IsFiniteSet(1..Len(list)) /\ 1..Len(list) \subseteq Nat
      BY <1>1, FS_Interval
    <3>2. IsFiniteSet(P)
      BY <2>2, <3>1, FS_Subset
    <3> QED BY <2>2, <3>1, <3>2
  <2>4. PICK j \in P : \A m \in P : j <= m
    <3> HIDE DEF P
    <3> QED BY <2>2, <2>3, Least
  <2>5. H(j) = {j}
    BY <1>1, <2>4
  <2>6. Cardinality(H(j)) = 1
    BY <2>5, FS_Singleton
  <2>7. Cardinality(H(j)) <= f.limit
    BY <2>6 DEF Covers, Filter
  <2> QED BY <1>2, <2>4, <2>7
<1> QED BY <1>4, <1>5

(* A list without slots: no live row matches.                              *)
LEMMA NoCandidates ==
    ASSUME NEW s, Filed(s), NEW f, Covers(f), ~HasCandidates(s, f)
    PROVE  f.rows \cap LiveRows(s) = {}
<1>1. Len(Candidates(s, f)) = 0 /\ 1..0 = {}
  BY EmptySeq DEF HasCandidates
<1>2. \A id \in Hits(s, f) : FALSE
  BY <1>1, ListFacts
<1> QED BY <1>2 DEF Hits, Matches, LiveRows

-----------------------------------------------------------------------------
(* rows(): every live row, in as many places as it has live slots.         *)
LEMMA RowsOfOK ==
    ASSUME NEW s, s.rows \in Seq(Relationships), s.live \subseteq 1..Len(s.rows)
    PROVE  /\ RowsOf(s) \in Seq(Relationships)
           /\ Range(RowsOf(s)) = LiveRows(s)
           /\ Unique(s) => IsInjective(RowsOf(s))
<1> DEFINE ids == Ordered(s.live)
           n == Cardinality(s.live)
<1>1. s.live \in SUBSET Nat /\ IsFiniteSet(s.live)
  BY SlotSets
<1>2. /\ Len(ids) = n /\ n \in Nat
      /\ \A k \in 1..n : ids[k] \in s.live
      /\ \A i \in s.live : ids[Rank(s.live, i)] = i /\ Rank(s.live, i) \in 1..n
      /\ \A k, m \in 1..n : ids[k] = ids[m] => k = m
  BY <1>1, OrderedFacts
<1>3. RowsOf(s) = [k \in 1..n |-> s.rows[ids[k]]]
  BY <1>2 DEF RowsOf
<1> HIDE DEF ids, n
<1>4. \A k \in 1..n : s.rows[ids[k]] \in Relationships
  BY <1>2, ElementOfSeq
<1>5. RowsOf(s) \in Seq(Relationships)
  BY <1>2, <1>3, <1>4, SeqDef
<1>6. Range(RowsOf(s)) \subseteq LiveRows(s)
  BY <1>2, <1>3 DEF Range, LiveRows
<1>7. LiveRows(s) \subseteq Range(RowsOf(s))
  <2> SUFFICES ASSUME NEW i \in s.live PROVE s.rows[i] \in Range(RowsOf(s))
    BY DEF LiveRows
  <2>1. PICK k \in 1..n : ids[k] = i
    BY <1>2
  <2>2. RowsOf(s)[k] = s.rows[i] /\ k \in DOMAIN RowsOf(s)
    BY <1>3, <2>1
  <2> QED BY <2>2 DEF Range
<1>8. ASSUME Unique(s) PROVE IsInjective(RowsOf(s))
  BY <1>2, <1>3, <1>8 DEF Unique, IsInjective
<1> QED BY <1>5, <1>6, <1>7, <1>8

=============================================================================
