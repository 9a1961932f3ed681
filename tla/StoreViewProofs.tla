--------------------------- MODULE StoreViewProofs ---------------------------
(***************************************************************************)
(* Theorems about StoreView, for any rows, posting keys, hashes, filters,  *)
(* batches, loaded checkpoints and limits: its indexes are exact, each row *)
(* is stored once, the overlay is bounded, queries see the live rows, and  *)
(* the view implements RelationSet.                                        *)
(***************************************************************************)
EXTENDS StoreView, IndexedStoreProofs

-----------------------------------------------------------------------------
(* Lists of rows.                                                          *)

(* The list without tombstones: each row of the view, once if the          *)
(* checkpoint holds no row twice.                                          *)
LEMMA ListedOK ==
    ASSUME NEW c, Segment(c), NEW i, Segment(i), Unique(i), NEW d,
           LiveRows(i) \cap LiveRows(c) = {}
    PROVE  /\ Listed(c, i, d) \in Seq(Relationships)
           /\ Range(Listed(c, i, d)) = Live(c, i, d)
           /\ Unique(c) => IsInjective(Listed(c, i, d))
<1> DEFINE L == {x \in c.live : c.rows[x] \notin d}
           k == [c EXCEPT !.live = L]
           p == RowsOf(k)
           q == RowsOf(i)
<1>1. c \in Store /\ c.rows \in Seq(Relationships) /\ c.live \subseteq 1..Len(c.rows)
      /\ i.rows \in Seq(Relationships) /\ i.live \subseteq 1..Len(i.rows)
  BY DEF Segment, Filed, Store
<1>2. Listed(c, i, d) = p \o q
  BY DEF Listed
<1>3. k.rows = c.rows /\ k.live = L
  BY <1>1 DEF Store
<1> HIDE DEF k
<1>4. LiveRows(k) = LiveRows(c) \ d
  BY <1>3 DEF LiveRows
<1>5. Unique(c) => Unique(k)
  BY <1>3 DEF Unique
<1>6. /\ p \in Seq(Relationships) /\ Range(p) = LiveRows(k)
      /\ Unique(k) => IsInjective(p)
  <2>1. k.rows \in Seq(Relationships) /\ k.live \subseteq 1..Len(k.rows)
    BY <1>1, <1>3
  <2> QED BY <2>1, RowsOfOK
<1>7. q \in Seq(Relationships) /\ Range(q) = LiveRows(i) /\ IsInjective(q)
  BY <1>1, RowsOfOK
<1> HIDE DEF p, q
<1>8. /\ p \o q \in Seq(Relationships) /\ Len(p \o q) = Len(p) + Len(q)
      /\ Range(p \o q) = Range(p) \cup Range(q)
      /\ \A n \in 1..Len(p) + Len(q) :
            (p \o q)[n] = IF n <= Len(p) THEN p[n] ELSE q[n - Len(p)]
  BY <1>6, <1>7, ConcatProperties, RangeConcatenation
<1>9. Range(p \o q) = Live(c, i, d)
  BY <1>4, <1>6, <1>7, <1>8 DEF Live
<1>10. ASSUME Unique(c) PROVE IsInjective(p \o q)
  <2>1. /\ Len(p) \in Nat /\ Len(q) \in Nat /\ DOMAIN p = 1..Len(p) /\ DOMAIN q = 1..Len(q)
        /\ DOMAIN (p \o q) = 1..Len(p) + Len(q)
    BY <1>6, <1>7, <1>8, LenProperties
  <2>2. \A n \in 1..Len(p) : p[n] \in LiveRows(c)
    BY <1>4, <1>6, <2>1 DEF Range
  <2>3. \A n \in 1..Len(q) : q[n] \in LiveRows(i)
    BY <1>7, <2>1 DEF Range
  <2>4. \A n, m \in 1..Len(p) : p[n] = p[m] => n = m
    BY <1>5, <1>6, <1>10, <2>1 DEF IsInjective
  <2>5. \A n, m \in 1..Len(q) : q[n] = q[m] => n = m
    BY <1>7, <2>1 DEF IsInjective
  <2>6. ASSUME NEW n \in 1..Len(p) + Len(q), NEW m \in 1..Len(p) + Len(q),
               (p \o q)[n] = (p \o q)[m]
        PROVE  n = m
    <3>1. CASE n <= Len(p) /\ m <= Len(p)
      <4>1. n \in 1..Len(p) /\ m \in 1..Len(p)
        BY <2>1, <3>1
      <4> QED BY <1>8, <2>4, <2>6, <3>1, <4>1
    <3>2. CASE ~(n <= Len(p)) /\ ~(m <= Len(p))
      <4>1. n - Len(p) \in 1..Len(q) /\ m - Len(p) \in 1..Len(q)
        BY <2>1, <3>2
      <4>2. n - Len(p) = m - Len(p)
        BY <1>8, <2>5, <2>6, <3>2, <4>1
      <4> QED BY <2>1, <4>2
    <3>3. CASE n <= Len(p) /\ ~(m <= Len(p))
      <4>1. n \in 1..Len(p) /\ m - Len(p) \in 1..Len(q)
        BY <2>1, <3>3
      <4> QED BY <1>8, <2>2, <2>3, <2>6, <3>3, <4>1
    <3>4. CASE ~(n <= Len(p)) /\ m <= Len(p)
      <4>1. m \in 1..Len(p) /\ n - Len(p) \in 1..Len(q)
        BY <2>1, <3>4
      <4> QED BY <1>8, <2>2, <2>3, <2>6, <3>4, <4>1
    <3> QED BY <3>1, <3>2, <3>3, <3>4
  <2> QED BY <2>1, <2>6 DEF IsInjective
<1> QED BY <1>2, <1>8, <1>9, <1>10

(* Keeping each row where it comes first loses none and repeats none.      *)
LEMMA FirstOfEachOK ==
    ASSUME NEW q \in Seq(Relationships)
    PROVE  /\ FirstOfEach(q) \in Seq(Relationships)
           /\ Range(FirstOfEach(q)) = Range(q)
           /\ IsInjective(FirstOfEach(q))
<1> DEFINE I == {i \in 1..Len(q) : \A j \in 1..i - 1 : q[j] # q[i]}
           first == Ordered(I)
           n == Cardinality(I)
           e == FirstOfEach(q)
<1>1. Len(q) \in Nat /\ DOMAIN q = 1..Len(q)
  BY LenProperties
<1>2. I \in SUBSET Nat /\ IsFiniteSet(I) /\ I \in SUBSET (1..Len(q))
  <2>1. I \in SUBSET (1..Len(q))
    OBVIOUS
  <2> HIDE DEF I
  <2> QED BY <2>1, SlotSets
<1>3. \A i, j \in I : q[i] = q[j] => i = j
  <2> TAKE i, j \in I
  <2> HAVE q[i] = q[j]
  <2>1. i \in Nat /\ j \in Nat /\ i \in 1..Len(q) /\ j \in 1..Len(q)
    BY <1>2
  <2>2. ~(i < j)
    <3>1. i < j => i \in 1..j - 1
      BY <2>1
    <3> QED BY <3>1
  <2>3. ~(j < i)
    <3>1. j < i => j \in 1..i - 1
      BY <2>1
    <3> QED BY <3>1
  <2> QED BY <2>1, <2>2, <2>3
<1>4. \A i \in 1..Len(q) : \E j \in I : q[j] = q[i]
  <2> TAKE i \in 1..Len(q)
  <2> DEFINE J == {j \in 1..Len(q) : q[j] = q[i]}
  <2>1. J \in SUBSET (1..Len(q)) /\ i \in J
    OBVIOUS
  <2>2. J \in SUBSET Nat /\ IsFiniteSet(J)
    <3> HIDE DEF J
    <3> QED BY <2>1, SlotSets
  <2>3. PICK j \in J : \A m \in J : j <= m
    <3> HIDE DEF J
    <3> QED BY <2>1, <2>2, Least
  <2>4. ASSUME NEW m \in 1..j - 1 PROVE q[m] # q[j]
    <3>1. m \in 1..Len(q) /\ ~(j <= m)
      BY <1>1, <2>3
    <3>2. m \notin J
      BY <2>3, <3>1
    <3> QED BY <2>3, <3>1, <3>2
  <2> QED BY <2>3, <2>4
<1> HIDE DEF I
<1>5. /\ Len(first) = n /\ n \in Nat
      /\ \A k \in 1..n : first[k] \in I
      /\ \A i \in I : first[Rank(I, i)] = i /\ Rank(I, i) \in 1..n
      /\ \A k, m \in 1..n : first[k] = first[m] => k = m
  BY <1>2, OrderedFacts
<1>6. e = [k \in 1..n |-> q[first[k]]]
  BY <1>5 DEF FirstOfEach, I
<1> HIDE DEF first, n, e
<1>7. \A k \in 1..n : q[first[k]] \in Relationships /\ first[k] \in 1..Len(q)
  BY <1>2, <1>5, ElementOfSeq
<1>8. e \in Seq(Relationships)
  BY <1>5, <1>6, <1>7, SeqDef
<1>9. IsInjective(e)
  BY <1>3, <1>5, <1>6 DEF IsInjective
<1>10. Range(e) \subseteq Range(q)
  BY <1>1, <1>6, <1>7 DEF Range
<1>11. ASSUME NEW i \in 1..Len(q) PROVE q[i] \in Range(e)
  <2>1. PICK j \in I : q[j] = q[i]
    BY <1>4
  <2>2. PICK k \in 1..n : first[k] = j
    BY <1>5
  <2>3. k \in DOMAIN e /\ e[k] = q[i]
    BY <1>6, <2>1, <2>2
  <2> QED BY <2>3 DEF Range
<1>12. Range(q) \subseteq Range(e)
  BY <1>1, <1>11 DEF Range
<1> QED BY <1>8, <1>9, <1>10, <1>12 DEF e

-----------------------------------------------------------------------------
(* An overlay over a checkpoint, and what one mutation does to it.         *)

Overlay(c, i, d) ==
    /\ Segment(i) /\ i.unique = "ready" /\ Unique(i)
    /\ LiveRows(i) \cap LiveRows(c) = {}
    /\ d \subseteq LiveRows(c)

Size(i, d) == Len(i.rows) + Cardinality(d)

LEMMA OverlayFacts ==
    ASSUME NEW c, Segment(c), NEW i, NEW d, Overlay(c, i, d)
    PROVE  /\ d \in SUBSET Relationships /\ IsFiniteSet(d) /\ Cardinality(d) \in Nat
           /\ Len(i.rows) \in Nat /\ Size(i, d) \in Nat
           /\ LiveRows(i) \in SUBSET Relationships
           /\ Live(c, i, d) \in SUBSET Relationships
<1>1. LiveRows(c) \in SUBSET Relationships /\ IsFiniteSet(LiveRows(c))
  BY SegmentFacts DEF Segment
<1>2. d \in SUBSET LiveRows(c) /\ Filed(i)
  BY DEF Overlay, Segment
<1>3. IsFiniteSet(d) /\ Cardinality(d) \in Nat
  BY <1>1, <1>2, FS_Subset, FS_CardinalityType
<1>4. Len(i.rows) \in Nat /\ LiveRows(i) \in SUBSET Relationships
  BY <1>2, SegmentFacts
<1>5. Size(i, d) \in Nat
  BY <1>3, <1>4 DEF Size
<1> QED BY <1>1, <1>2, <1>3, <1>4, <1>5 DEF Live

LEMMA OverlayEmpty ==
    ASSUME NEW c
    PROVE  Overlay(c, Empty, {}) /\ Size(Empty, {}) = 0 /\ Live(c, Empty, {}) = LiveRows(c)
BY EmptyOK, FS_EmptySet DEF Overlay, Size, Live

(* A row neither the overlay nor the checkpoint holds is inserted.         *)
LEMMA OverlayInsert ==
    ASSUME NEW c, Segment(c), NEW i, NEW d, Overlay(c, i, d), NEW row \in Relationships,
           row \notin LiveRows(i), row \notin LiveRows(c)
    PROVE  /\ Overlay(c, Insert(i, row), d)
           /\ Live(c, Insert(i, row), d) = Live(c, i, d) \cup {row}
           /\ Size(Insert(i, row), d) <= Size(i, d) + 1
<1>1. /\ Segment(Insert(i, row)) /\ Insert(i, row).unique = "ready"
      /\ LiveRows(Insert(i, row)) = LiveRows(i) \cup {row}
      /\ Unique(Insert(i, row)) /\ Len(Insert(i, row).rows) = Len(i.rows) + 1
  BY InsertOK DEF Overlay
<1>2. Len(i.rows) \in Nat /\ Cardinality(d) \in Nat
  BY OverlayFacts
<1>3. Size(Insert(i, row), d) <= Size(i, d) + 1
  BY <1>1, <1>2 DEF Size
<1> QED BY <1>1, <1>3 DEF Overlay, Live

(* A tombstone is taken away.                                              *)
LEMMA OverlayRestore ==
    ASSUME NEW c, Segment(c), NEW i, NEW d, Overlay(c, i, d), NEW row \in d
    PROVE  /\ Overlay(c, i, d \ {row})
           /\ Live(c, i, d \ {row}) = Live(c, i, d) \cup {row}
           /\ Size(i, d \ {row}) <= Size(i, d) + 1
<1>1. Len(i.rows) \in Nat /\ Cardinality(d) \in Nat /\ IsFiniteSet(d)
  BY OverlayFacts
<1>2. Cardinality(d \ {row}) = Cardinality(d) - 1
  BY <1>1, FS_RemoveElement
<1>3. Size(i, d \ {row}) <= Size(i, d) + 1
  BY <1>1, <1>2 DEF Size
<1> QED BY <1>3 DEF Overlay, Live

(* A row the overlay inserted is deleted.                                  *)
LEMMA OverlayDelete ==
    ASSUME NEW c, Segment(c), NEW i, NEW d, Overlay(c, i, d), NEW row \in LiveRows(i)
    PROVE  /\ Overlay(c, Delete(i, row), d)
           /\ Live(c, Delete(i, row), d) = Live(c, i, d) \ {row}
           /\ Size(Delete(i, row), d) <= Size(i, d) + 1
<1>1. /\ Segment(Delete(i, row)) /\ Delete(i, row).unique = "ready"
      /\ LiveRows(Delete(i, row)) = LiveRows(i) \ {row}
      /\ Unique(Delete(i, row)) /\ Delete(i, row).rows = i.rows
  BY DeleteOK DEF Overlay
<1>2. Size(i, d) \in Nat /\ Size(Delete(i, row), d) = Size(i, d)
  BY <1>1, OverlayFacts DEF Size
<1> QED BY <1>1, <1>2 DEF Overlay, Live

(* A row of the checkpoint gets a tombstone.                               *)
LEMMA OverlayHide ==
    ASSUME NEW c, Segment(c), NEW i, NEW d, Overlay(c, i, d), NEW row \in LiveRows(c)
    PROVE  /\ Overlay(c, i, d \cup {row})
           /\ Live(c, i, d \cup {row}) = Live(c, i, d) \ {row}
           /\ Size(i, d \cup {row}) <= Size(i, d) + 1
<1>1. Len(i.rows) \in Nat /\ Cardinality(d) \in Nat /\ IsFiniteSet(d)
  BY OverlayFacts
<1>2. Cardinality(d \cup {row}) = Cardinality(d) \/ Cardinality(d \cup {row}) = Cardinality(d) + 1
  BY <1>1, FS_AddElement
<1>3. Size(i, d \cup {row}) <= Size(i, d) + 1
  BY <1>1, <1>2 DEF Size
<1> QED BY <1>3 DEF Overlay, Live

-----------------------------------------------------------------------------
(* A batch half applied: L is what the first n of muts make of L0.         *)

Deleted(muts, n, r) == \E i \in 1..n : muts[i].row = r /\ muts[i].kind = "delete"
Added(muts, n, r) == \E i \in 1..n : muts[i].row = r /\ muts[i].kind # "delete"

Done(L0, L, muts, n) ==
    /\ \A i \in 1..n : muts[i].kind = "create" => muts[i].row \notin L0
    /\ \A i \in 1..n : muts[i].kind = "delete" => muts[i].row \in L0
    /\ \A r : r \in L <=> Added(muts, n, r) \/ (r \in L0 /\ ~Deleted(muts, n, r))

OneRowEach(muts) == \A i, j \in 1..Len(muts) : muts[i].row = muts[j].row => i = j

LEMMA NothingDone ==
    ASSUME NEW L0, NEW muts
    PROVE  Done(L0, L0, muts, 0)
<1>1. 1..0 = {}
  OBVIOUS
<1> QED BY <1>1 DEF Done, Added, Deleted

(* The next mutation is the first of its row.                              *)
LEMMA NextIsFirst ==
    ASSUME NEW L0, NEW L, NEW muts \in Seq(Mutation), OneRowEach(muts), NEW n \in Nat,
           n + 1 \in 1..Len(muts), Done(L0, L, muts, n)
    PROVE  /\ \A i \in 1..n : muts[i].row # muts[n + 1].row
           /\ muts[n + 1].row \in L <=> muts[n + 1].row \in L0
<1>1. \A i \in 1..n : i \in 1..Len(muts) /\ i # n + 1
  <2>1. Len(muts) \in Nat
    BY LenProperties
  <2> QED BY <2>1
<1>2. \A i \in 1..n : muts[i].row # muts[n + 1].row
  BY <1>1 DEF OneRowEach
<1> QED BY <1>2 DEF Done, Added, Deleted

LEMMA OneMoreDone ==
    ASSUME NEW L0, NEW L, NEW M, NEW muts \in Seq(Mutation), OneRowEach(muts), NEW n \in Nat,
           n + 1 \in 1..Len(muts), Done(L0, L, muts, n),
           muts[n + 1].kind = "create" => muts[n + 1].row \notin L,
           muts[n + 1].kind = "delete" => muts[n + 1].row \in L,
           M = IF muts[n + 1].kind = "delete" THEN L \ {muts[n + 1].row}
               ELSE L \cup {muts[n + 1].row}
    PROVE  Done(L0, M, muts, n + 1)
<1> DEFINE m == muts[n + 1]
<1>1. \A i : i \in 1..n + 1 <=> i \in 1..n \/ i = n + 1
  OBVIOUS
<1>2. (\A i \in 1..n : muts[i].row # m.row) /\ (m.row \in L <=> m.row \in L0)
  BY NextIsFirst
<1>3. \A r : Added(muts, n + 1, r) <=> Added(muts, n, r) \/ (r = m.row /\ m.kind # "delete")
  BY <1>1 DEF Added
<1>4. \A r : Deleted(muts, n + 1, r) <=> Deleted(muts, n, r) \/ (r = m.row /\ m.kind = "delete")
  BY <1>1 DEF Deleted
<1>5. ~Added(muts, n, m.row)
  BY <1>2 DEF Added
<1>6. ASSUME NEW r
      PROVE  r \in M <=> Added(muts, n + 1, r) \/ (r \in L0 /\ ~Deleted(muts, n + 1, r))
  <2>1. r \in L <=> Added(muts, n, r) \/ (r \in L0 /\ ~Deleted(muts, n, r))
    BY DEF Done
  <2>2. CASE r = m.row
    BY <1>2, <1>3, <1>4, <1>5, <2>1, <2>2
  <2>3. CASE r # m.row
    BY <1>3, <1>4, <2>1, <2>3
  <2> QED BY <2>2, <2>3
<1>7. \A i \in 1..n + 1 : muts[i].kind = "create" => muts[i].row \notin L0
  BY <1>1, <1>2 DEF Done
<1>8. \A i \in 1..n + 1 : muts[i].kind = "delete" => muts[i].row \in L0
  BY <1>1, <1>2 DEF Done
<1> QED BY <1>6, <1>7, <1>8 DEF Done

(* All of it: the effect RelationSet has for the batch, and its reasons.   *)
LEMMA AllDone ==
    ASSUME NEW L0, NEW L, NEW muts \in Seq(Mutation), OneRowEach(muts),
           Done(L0, L, muts, Len(muts))
    PROVE  /\ L = Set!Effect(L0, muts)
           /\ Set!Targets(muts, {"create"}) \cap L0 = {}
           /\ Set!Targets(muts, {"delete"}) \subseteq L0
<1>1. \A i \in 1..Len(muts) : muts[i].kind \in {"create", "touch", "delete"}
  <2> TAKE i \in 1..Len(muts)
  <2>1. muts[i] \in Mutation
    BY ElementOfSeq
  <2> QED BY <2>1 DEF Mutation
<1>2. \A r : r \in Set!Targets(muts, {"create", "touch"}) <=> Added(muts, Len(muts), r)
  BY <1>1 DEF Set!Targets, Added
<1>3. \A r : r \in Set!Targets(muts, {"delete"}) <=> Deleted(muts, Len(muts), r)
  BY DEF Set!Targets, Deleted
<1>4. \A r : Added(muts, Len(muts), r) => ~Deleted(muts, Len(muts), r)
  BY DEF Added, Deleted, OneRowEach
<1>5. L = Set!Effect(L0, muts)
  BY <1>2, <1>3, <1>4 DEF Set!Effect, Done
<1>6. Set!Targets(muts, {"create"}) \cap L0 = {}
  BY DEF Set!Targets, Done
<1>7. Set!Targets(muts, {"delete"}) \subseteq L0
  BY DEF Set!Targets, Done
<1> QED BY <1>5, <1>6, <1>7

-----------------------------------------------------------------------------
(* The inductive invariant.  The view: its segments are sound, an overlay  *)
(* lies only over a checkpoint without duplicates, and each counted        *)
(* mutation paid for at most one slot or tombstone.                        *)
ViewOK ==
    /\ Segment(checkpoint)
    /\ checkpoint.unique # "untrusted" => Unique(checkpoint)
    /\ count \in Nat
    /\ count > 0 => Unique(checkpoint)
    /\ Overlay(checkpoint, inserted, deleted)
    /\ Size(inserted, deleted) <= count
    /\ count < MaxDeltaMutations
    /\ Cardinality(deleted) < MaxDeltaTombstones

(* The batch at work was admitted on this view, and the private copies are *)
(* what its first mutations make of the view.                              *)
WorkOK ==
    \/ work = Idle
    \/ /\ work.at \in 1..Len(batch.muts) + 1
       /\ batch # NoBatch /\ Admitted /\ batch.muts # <<>>
       /\ Unique(checkpoint)
       /\ Overlay(checkpoint, work.inserted, work.deleted)
       /\ Size(work.inserted, work.deleted) + 1 <= count + work.at
       /\ Done(Live(checkpoint, inserted, deleted),
               Live(checkpoint, work.inserted, work.deleted), batch.muts, work.at - 1)

Typed ==
    /\ batch \in Batches \cup {NoBatch}
    /\ work \in [at : Nat, inserted : Store, deleted : SUBSET Relationships]
    /\ outcome \in {"none", "applied", "refused"}

StoreInv == Typed /\ ViewOK /\ WorkOK

(* Everything a batch reads of the view.                                   *)
LEMMA AdmittedKept ==
    ASSUME Admitted, UNCHANGED <<checkpoint, inserted, deleted, batch>>
    PROVE  Admitted'
BY DEF Admitted, CheckPrecondition, AnyResourceMatch, Query

LEMMA ViewKept ==
    ASSUME ViewOK, UNCHANGED <<checkpoint, inserted, deleted, count>>
    PROVE  ViewOK'
BY DEF ViewOK

LEMMA BatchFacts ==
    ASSUME NEW b \in Batches
    PROVE  /\ b.muts \in Seq(Mutation) /\ Len(b.muts) \in Nat
           /\ \A i \in 1..Len(b.muts) :
                 b.muts[i].row \in Relationships /\ b.muts[i].kind \in {"create", "touch", "delete"}
           /\ b.pres \in Seq(Precondition)
           /\ \A i \in 1..Len(b.pres) :
                 b.pres[i].filter \in Filters /\ Covers(b.pres[i].filter)
<1>1. b \in Batch
  BY StoreConstants
<1>2. b.muts \in Seq(Mutation) /\ b.pres \in Seq(Precondition)
  BY <1>1 DEF Batch
<1>3. Len(b.muts) \in Nat
  BY <1>2, LenProperties
<1>4. \A i \in 1..Len(b.muts) : b.muts[i] \in Mutation
  BY <1>2, ElementOfSeq
<1>5. \A i \in 1..Len(b.pres) : b.pres[i] \in Precondition
  BY <1>2, ElementOfSeq
<1>6. \A i \in 1..Len(b.pres) :
         b.pres[i].filter \in Filters /\ Covers(b.pres[i].filter)
  BY <1>5, StoreConstants DEF Precondition, Covers
<1> QED BY <1>2, <1>3, <1>4, <1>6 DEF Mutation

LEMMA IdleFacts ==
    /\ Idle \in [at : Nat, inserted : Store, deleted : SUBSET Relationships]
    /\ Idle.at = 0 /\ Idle.inserted = Empty /\ Idle.deleted = {}
BY EmptyOK DEF Idle, Segment, Filed

(* The state a mutation is applied in.                                     *)
LEMMA AtWork ==
    ASSUME StoreInv, work.at # 0
    PROVE  /\ batch \in Batches /\ batch.muts \in Seq(Mutation) /\ Len(batch.muts) \in Nat
           /\ work.at \in 1..Len(batch.muts) + 1 /\ work.at \in Nat
           /\ Admitted /\ OneRowEach(batch.muts) /\ batch.muts # <<>>
           /\ Segment(checkpoint) /\ Unique(checkpoint) /\ count \in Nat
           /\ Overlay(checkpoint, work.inserted, work.deleted)
           /\ Size(work.inserted, work.deleted) + 1 <= count + work.at
           /\ Done(Live(checkpoint, inserted, deleted),
                   Live(checkpoint, work.inserted, work.deleted), batch.muts, work.at - 1)
<1>1. work # Idle
  BY IdleFacts
<1>2. batch \in Batches
  BY <1>1 DEF StoreInv, Typed, WorkOK
<1>3. OneRowEach(batch.muts)
  BY <1>1 DEF StoreInv, WorkOK, Admitted, OneRowEach
<1>4. work.at \in Nat /\ Segment(checkpoint) /\ count \in Nat
  BY DEF StoreInv, Typed, ViewOK
<1>5. WorkOK
  BY DEF StoreInv
<1> QED BY <1>1, <1>2, <1>3, <1>4, <1>5, BatchFacts DEF WorkOK

LEMMA LocationOK ==
    ASSUME StoreInv, work.at # 0, NEW row \in Relationships
    PROVE  /\ Location(row) \in {"inserted", "checkpointDeleted", "checkpointLive", "absent"}
           /\ Location(row) = "inserted" => row \in LiveRows(work.inserted)
           /\ Location(row) = "checkpointDeleted" => row \in work.deleted
           /\ Location(row) = "checkpointLive" =>
                 row \in LiveRows(checkpoint) /\ row \notin work.deleted
           /\ Location(row) = "absent" =>
                 row \notin LiveRows(work.inserted) /\ row \notin LiveRows(checkpoint)
<1>1. Segment(checkpoint) /\ Overlay(checkpoint, work.inserted, work.deleted)
  BY AtWork
<1>2. Contains(work.inserted, row) <=> row \in LiveRows(work.inserted)
  BY <1>1, FindOK DEF Overlay
<1>3. Contains(EnsureUniqueness(checkpoint), row) <=> row \in LiveRows(checkpoint)
  <2>1. LiveRows(EnsureUniqueness(checkpoint)) = LiveRows(checkpoint)
    BY <1>1, EnsureUniquenessOK DEF LiveRows
  <2> QED BY <1>1, <2>1, EnsureUniquenessOK, FindOK
<1> QED BY <1>2, <1>3 DEF Location

(* Whether a mutation finds its row.                                       *)
LEMMA PresentOK ==
    ASSUME StoreInv, work.at # 0, NEW row \in Relationships
    PROVE  Location(row) \in {"inserted", "checkpointLive"} <=>
               row \in Live(checkpoint, work.inserted, work.deleted)
<1>1. Overlay(checkpoint, work.inserted, work.deleted)
  BY AtWork
<1> QED BY <1>1, LocationOK DEF Overlay, Live

-----------------------------------------------------------------------------
(* Steps that keep the invariant.                                          *)

(* A batch ends.                                                           *)
LEMMA ReplyKeeps ==
    ASSUME StoreInv, NEW o \in {"applied", "refused"}, Reply(o), ViewOK'
    PROVE  StoreInv'
<1>1. Typed'
  BY IdleFacts DEF Typed, Reply, Idle, Empty
<1>2. WorkOK'
  BY DEF WorkOK, Reply, Idle, Empty
<1> QED BY <1>1, <1>2 DEF StoreInv

(* A mutation is applied to the copies.                                    *)
LEMMA StepKeeps ==
    ASSUME StoreInv, Applying, NEW i, NEW d,
           work' = [at |-> work.at + 1, inserted |-> i, deleted |-> d],
           UNCHANGED <<checkpoint, inserted, deleted, count, batch, outcome>>,
           Overlay(checkpoint, i, d),
           Size(i, d) <= Size(work.inserted, work.deleted) + 1,
           Mut.kind = "create" =>
               Mut.row \notin Live(checkpoint, work.inserted, work.deleted),
           Mut.kind = "delete" =>
               Mut.row \in Live(checkpoint, work.inserted, work.deleted),
           Live(checkpoint, i, d) =
               IF Mut.kind = "delete"
               THEN Live(checkpoint, work.inserted, work.deleted) \ {Mut.row}
               ELSE Live(checkpoint, work.inserted, work.deleted) \cup {Mut.row}
    PROVE  StoreInv'
<1> DEFINE n == work.at
           L0 == Live(checkpoint, inserted, deleted)
           L == Live(checkpoint, work.inserted, work.deleted)
<1>1. n \in Nat /\ n # 0 /\ n \in 1..Len(batch.muts)
  BY DEF Applying, StoreInv, Typed
<1>2. /\ batch \in Batches /\ batch.muts \in Seq(Mutation) /\ Len(batch.muts) \in Nat
      /\ Admitted /\ OneRowEach(batch.muts) /\ batch.muts # <<>>
      /\ Segment(checkpoint) /\ Unique(checkpoint) /\ count \in Nat
      /\ Overlay(checkpoint, work.inserted, work.deleted)
      /\ Size(work.inserted, work.deleted) + 1 <= count + work.at
      /\ Done(L0, L, batch.muts, n - 1)
  BY <1>1, AtWork
<1>3. n - 1 \in Nat /\ (n - 1) + 1 = n /\ (n + 1) - 1 = n
  BY <1>1
<1>4. work'.at = n + 1 /\ work'.inserted = i /\ work'.deleted = d
      /\ work' \in [at : Nat, inserted : Store, deleted : SUBSET Relationships]
  <2>1. i \in Store /\ d \in SUBSET Relationships
    BY <1>2, OverlayFacts DEF Overlay, Segment, Filed
  <2>2. work \in [at : Nat, inserted : Store, deleted : SUBSET Relationships]
    BY DEF StoreInv, Typed
  <2>3. n + 1 \in Nat
    BY <1>1
  <2> QED BY <2>1, <2>2, <2>3
<1>5. Done(L0, Live(checkpoint, i, d), batch.muts, n)
  <2>1. Mut = batch.muts[(n - 1) + 1]
    BY <1>3 DEF Mut
  <2> HIDE DEF L0, L
  <2>2. Done(L0, Live(checkpoint, i, d), batch.muts, (n - 1) + 1)
    BY <1>1, <1>2, <1>3, <2>1, OneMoreDone DEF L
  <2> QED BY <1>3, <2>2
<1>6. Size(i, d) + 1 <= count + (n + 1)
  BY <1>1, <1>2, OverlayFacts
<1>7. n + 1 \in 1..Len(batch.muts) + 1
  BY <1>1, <1>2
<1>8. Admitted'
  BY <1>2, AdmittedKept
<1>9. Typed'
  BY <1>2, <1>4 DEF StoreInv, Typed
<1>10. ViewOK'
  BY ViewKept DEF StoreInv
<1>11. /\ work'.at \in 1..Len(batch'.muts) + 1
       /\ batch' # NoBatch /\ Admitted' /\ batch'.muts # <<>>
       /\ Unique(checkpoint')
       /\ Overlay(checkpoint', work'.inserted, work'.deleted)
       /\ Size(work'.inserted, work'.deleted) + 1 <= count' + work'.at
       /\ Done(Live(checkpoint', inserted', deleted'),
               Live(checkpoint', work'.inserted, work'.deleted), batch'.muts, work'.at - 1)
  BY <1>2, <1>3, <1>4, <1>5, <1>6, <1>7, <1>8, StoreConstants DEF Unique
<1>12. WorkOK'
  BY <1>11 DEF WorkOK
<1> QED BY <1>9, <1>10, <1>12 DEF StoreInv

LEMMA WorkType ==
    ASSUME StoreInv
    PROVE  work \in [at : Nat, inserted : Store, deleted : SUBSET Relationships]
BY DEF StoreInv, Typed

(* A row that is not there is added, from a tombstone or in a new slot.    *)
LEMMA AddKeeps ==
    ASSUME StoreInv, Applying, Mut.kind # "delete",
           UNCHANGED <<checkpoint, inserted, deleted, count, batch, outcome>>,
           \/ /\ Location(Mut.row) = "checkpointDeleted"
              /\ work' = [work EXCEPT !.at = @ + 1, !.deleted = @ \ {Mut.row}]
           \/ /\ Location(Mut.row) = "absent"
              /\ work' = [work EXCEPT !.at = @ + 1, !.inserted = Insert(@, Mut.row)]
    PROVE  StoreInv'
<1>1. work.at # 0 /\ work.at \in 1..Len(batch.muts)
  BY DEF Applying, StoreInv, Typed
<1>2. /\ Mut.row \in Relationships /\ Segment(checkpoint)
      /\ Overlay(checkpoint, work.inserted, work.deleted)
  BY <1>1, AtWork, BatchFacts DEF Mut
<1>3. Location(Mut.row) \notin {"inserted", "checkpointLive"} =>
          Mut.row \notin Live(checkpoint, work.inserted, work.deleted)
  BY <1>1, <1>2, PresentOK
<1>4. CASE /\ Location(Mut.row) = "checkpointDeleted"
           /\ work' = [work EXCEPT !.at = @ + 1, !.deleted = @ \ {Mut.row}]
  <2> DEFINE d == work.deleted \ {Mut.row}
  <2>1. Mut.row \in work.deleted
    BY <1>1, <1>2, <1>4, LocationOK
  <2>2. /\ Overlay(checkpoint, work.inserted, d)
        /\ Live(checkpoint, work.inserted, d) =
              Live(checkpoint, work.inserted, work.deleted) \cup {Mut.row}
        /\ Size(work.inserted, d) <= Size(work.inserted, work.deleted) + 1
    BY <1>2, <2>1, OverlayRestore
  <2>3. work' = [at |-> work.at + 1, inserted |-> work.inserted, deleted |-> d]
    BY <1>4, WorkType
  <2> HIDE DEF d
  <2> QED BY <1>3, <1>4, <2>2, <2>3, StepKeeps
<1>5. CASE /\ Location(Mut.row) = "absent"
           /\ work' = [work EXCEPT !.at = @ + 1, !.inserted = Insert(@, Mut.row)]
  <2> DEFINE i == Insert(work.inserted, Mut.row)
  <2>1. Mut.row \notin LiveRows(work.inserted) /\ Mut.row \notin LiveRows(checkpoint)
    BY <1>1, <1>2, <1>5, LocationOK
  <2>2. /\ Overlay(checkpoint, i, work.deleted)
        /\ Live(checkpoint, i, work.deleted) =
              Live(checkpoint, work.inserted, work.deleted) \cup {Mut.row}
        /\ Size(i, work.deleted) <= Size(work.inserted, work.deleted) + 1
    BY <1>2, <2>1, OverlayInsert
  <2>3. work' = [at |-> work.at + 1, inserted |-> i, deleted |-> work.deleted]
    BY <1>5, WorkType
  <2> HIDE DEF i
  <2> QED BY <1>3, <1>5, <2>2, <2>3, StepKeeps
<1> QED BY <1>4, <1>5

(* What a mutation may do: refuse the batch, for its reason, or go on.     *)
LEMMA CreateSteps ==
    ASSUME StoreInv, CreateDelta
    PROVE  \/ /\ Reply("refused") /\ UNCHANGED <<checkpoint, inserted, deleted, count>>
              /\ Mut.row \in Live(checkpoint, work.inserted, work.deleted)
           \/ /\ StoreInv' /\ UNCHANGED <<checkpoint, inserted, deleted, count, batch, outcome>>
<1>1. Applying /\ Mut.kind = "create" /\ UNCHANGED <<checkpoint, inserted, deleted, count>>
      /\ InsertDelta(Reply("refused"))
  BY DEF CreateDelta
<1>2. work.at # 0 /\ work.at \in 1..Len(batch.muts)
  BY <1>1 DEF Applying, StoreInv, Typed
<1>3. Mut.row \in Relationships
  BY <1>2, AtWork, BatchFacts DEF Mut
<1>4. CASE Location(Mut.row) \in {"inserted", "checkpointLive"} /\ Reply("refused")
  BY <1>1, <1>2, <1>3, <1>4, PresentOK
<1>5. CASE /\ UNCHANGED <<batch, outcome>>
           /\ \/ /\ Location(Mut.row) = "checkpointDeleted"
                 /\ work' = [work EXCEPT !.at = @ + 1, !.deleted = @ \ {Mut.row}]
              \/ /\ Location(Mut.row) = "absent"
                 /\ work' = [work EXCEPT !.at = @ + 1, !.inserted = Insert(@, Mut.row)]
  <2>1. UNCHANGED <<checkpoint, inserted, deleted, count, batch, outcome>>
    BY <1>1, <1>5
  <2> QED BY <1>1, <1>5, <2>1, AddKeeps
<1> QED BY <1>1, <1>4, <1>5 DEF InsertDelta

LEMMA TouchSteps ==
    ASSUME StoreInv, TouchDelta
    PROVE  StoreInv' /\ UNCHANGED <<checkpoint, inserted, deleted, count, batch, outcome>>
<1> DEFINE Stay == work' = [work EXCEPT !.at = @ + 1] /\ UNCHANGED <<batch, outcome>>
<1>1. Applying /\ Mut.kind = "touch" /\ UNCHANGED <<checkpoint, inserted, deleted, count>>
      /\ InsertDelta(Stay)
  BY DEF TouchDelta
<1>2. work.at # 0 /\ work.at \in 1..Len(batch.muts)
  BY <1>1 DEF Applying, StoreInv, Typed
<1>3. /\ Mut.row \in Relationships /\ Segment(checkpoint)
      /\ Overlay(checkpoint, work.inserted, work.deleted)
  BY <1>2, AtWork, BatchFacts DEF Mut
<1>4. CASE Location(Mut.row) \in {"inserted", "checkpointLive"} /\ Stay
  <2>1. Mut.row \in Live(checkpoint, work.inserted, work.deleted)
    BY <1>2, <1>3, <1>4, PresentOK
  <2>2. Live(checkpoint, work.inserted, work.deleted) =
            Live(checkpoint, work.inserted, work.deleted) \cup {Mut.row}
    BY <2>1
  <2>3. work' = [at |-> work.at + 1, inserted |-> work.inserted, deleted |-> work.deleted]
    BY <1>4, WorkType
  <2>4. UNCHANGED <<checkpoint, inserted, deleted, count, batch, outcome>>
    BY <1>1, <1>4
  <2>5. Size(work.inserted, work.deleted) <= Size(work.inserted, work.deleted) + 1
    BY <1>3, OverlayFacts
  <2>6. StoreInv'
    BY <1>1, <1>3, <2>2, <2>3, <2>4, <2>5, StepKeeps
  <2> QED BY <2>4, <2>6
<1>5. CASE /\ UNCHANGED <<batch, outcome>>
           /\ \/ /\ Location(Mut.row) = "checkpointDeleted"
                 /\ work' = [work EXCEPT !.at = @ + 1, !.deleted = @ \ {Mut.row}]
              \/ /\ Location(Mut.row) = "absent"
                 /\ work' = [work EXCEPT !.at = @ + 1, !.inserted = Insert(@, Mut.row)]
  <2>1. UNCHANGED <<checkpoint, inserted, deleted, count, batch, outcome>>
    BY <1>1, <1>5
  <2> QED BY <1>1, <1>5, <2>1, AddKeeps
<1> QED BY <1>1, <1>4, <1>5 DEF InsertDelta

LEMMA DeleteSteps ==
    ASSUME StoreInv, DeleteDelta
    PROVE  \/ /\ Reply("refused") /\ UNCHANGED <<checkpoint, inserted, deleted, count>>
              /\ Mut.row \notin Live(checkpoint, work.inserted, work.deleted)
           \/ /\ StoreInv' /\ UNCHANGED <<checkpoint, inserted, deleted, count, batch, outcome>>
<1>1. Applying /\ Mut.kind = "delete" /\ UNCHANGED <<checkpoint, inserted, deleted, count>>
  BY DEF DeleteDelta
<1>2. work.at # 0 /\ work.at \in 1..Len(batch.muts)
  BY <1>1 DEF Applying, StoreInv, Typed
<1>3. /\ Mut.row \in Relationships /\ Segment(checkpoint)
      /\ Overlay(checkpoint, work.inserted, work.deleted)
  BY <1>2, AtWork, BatchFacts DEF Mut
<1>4. Location(Mut.row) \in {"inserted", "checkpointLive"} <=>
          Mut.row \in Live(checkpoint, work.inserted, work.deleted)
  BY <1>2, <1>3, PresentOK
<1>5. CASE /\ Location(Mut.row) = "inserted"
           /\ work' = [work EXCEPT !.at = @ + 1, !.inserted = Delete(@, Mut.row)]
           /\ UNCHANGED <<batch, outcome>>
  <2> DEFINE i == Delete(work.inserted, Mut.row)
  <2>1. Mut.row \in LiveRows(work.inserted)
    BY <1>2, <1>3, <1>5, LocationOK
  <2>2. /\ Overlay(checkpoint, i, work.deleted)
        /\ Live(checkpoint, i, work.deleted) =
              Live(checkpoint, work.inserted, work.deleted) \ {Mut.row}
        /\ Size(i, work.deleted) <= Size(work.inserted, work.deleted) + 1
    BY <1>3, <2>1, OverlayDelete
  <2>3. work' = [at |-> work.at + 1, inserted |-> i, deleted |-> work.deleted]
    BY <1>5, WorkType
  <2>4. UNCHANGED <<checkpoint, inserted, deleted, count, batch, outcome>>
    BY <1>1, <1>5
  <2> HIDE DEF i
  <2>5. StoreInv'
    BY <1>1, <1>4, <1>5, <2>2, <2>3, <2>4, StepKeeps
  <2> QED BY <2>4, <2>5
<1>6. CASE /\ Location(Mut.row) = "checkpointLive"
           /\ work' = [work EXCEPT !.at = @ + 1, !.deleted = @ \cup {Mut.row}]
           /\ UNCHANGED <<batch, outcome>>
  <2> DEFINE d == work.deleted \cup {Mut.row}
  <2>1. Mut.row \in LiveRows(checkpoint)
    BY <1>2, <1>3, <1>6, LocationOK
  <2>2. /\ Overlay(checkpoint, work.inserted, d)
        /\ Live(checkpoint, work.inserted, d) =
              Live(checkpoint, work.inserted, work.deleted) \ {Mut.row}
        /\ Size(work.inserted, d) <= Size(work.inserted, work.deleted) + 1
    BY <1>3, <2>1, OverlayHide
  <2>3. work' = [at |-> work.at + 1, inserted |-> work.inserted, deleted |-> d]
    BY <1>6, WorkType
  <2>4. UNCHANGED <<checkpoint, inserted, deleted, count, batch, outcome>>
    BY <1>1, <1>6
  <2> HIDE DEF d
  <2>5. StoreInv'
    BY <1>1, <1>4, <1>6, <2>2, <2>3, <2>4, StepKeeps
  <2> QED BY <2>4, <2>5
<1>7. CASE Location(Mut.row) \in {"checkpointDeleted", "absent"} /\ Reply("refused")
  BY <1>1, <1>4, <1>7
<1> QED BY <1>5, <1>6, <1>7 DEF DeleteDelta

(* A fresh checkpoint with no overlay.                                     *)
LEMMA FreshView ==
    ASSUME NEW c, Segment(c), c.unique # "untrusted" => Unique(c)
    PROVE  /\ Overlay(c, Empty, {}) /\ Size(Empty, {}) <= 0
           /\ 0 < MaxDeltaMutations /\ Cardinality({}) < MaxDeltaTombstones
           /\ Live(c, Empty, {}) = LiveRows(c)
BY OverlayEmpty, FS_EmptySet, StoreConstants

(* Folding a list without duplicates into a new checkpoint.                *)
LEMMA FoldKeeps ==
    ASSUME NEW q \in Seq(Relationships), IsInjective(q),
           checkpoint' = StoreOf(q), inserted' = Empty, deleted' = {}, count' = 0
    PROVE  ViewOK' /\ Unique(checkpoint') /\ Live(checkpoint', inserted', deleted') = Range(q)
<1> DEFINE c == StoreOf(q)
<1>1. Segment(c) /\ c.unique = "ready" /\ Unique(c) /\ LiveRows(c) = Range(q)
  BY StoreOfOK, AllLive
<1>2. /\ Overlay(c, Empty, {}) /\ Size(Empty, {}) <= 0
      /\ 0 < MaxDeltaMutations /\ Cardinality({}) < MaxDeltaTombstones
      /\ Live(c, Empty, {}) = LiveRows(c)
  BY <1>1, FreshView
<1>3. /\ Segment(checkpoint') /\ Unique(checkpoint') /\ count' \in Nat
      /\ Overlay(checkpoint', inserted', deleted') /\ Size(inserted', deleted') <= count'
      /\ count' < MaxDeltaMutations /\ Cardinality(deleted') < MaxDeltaTombstones
  BY <1>1, <1>2
<1>4. ViewOK'
  BY <1>3 DEF ViewOK
<1> QED BY <1>1, <1>2, <1>3, <1>4

LEMMA InitKeeps ==
    ASSUME Init
    PROVE  StoreInv
<1>1. Segment(checkpoint) /\ (checkpoint.unique # "untrusted" => Unique(checkpoint))
  <2>1. CASE checkpoint = Empty
    BY <2>1, EmptyOK
  <2>2. ASSUME NEW c \in Checkpoints, checkpoint = Decoded(c.rows, c.unique)
        PROVE  Segment(checkpoint) /\ (checkpoint.unique # "untrusted" => Unique(checkpoint))
    <3>1. c.rows \in Seq(Relationships) /\ c.unique \in {"known", "untrusted"}
          /\ (c.unique = "known" => IsInjective(c.rows))
      BY CheckpointsDistinct DEF Checkpoint
    <3>2. /\ Filed(checkpoint) /\ checkpoint.unique = c.unique
          /\ checkpoint.rows = c.rows /\ checkpoint.live = 1..Len(c.rows)
      BY <2>2, <3>1, DecodedOK
    <3>3. Unique(checkpoint) <=> IsInjective(c.rows)
      BY <3>1, <3>2, AllLive
    <3> QED BY <3>1, <3>2, <3>3 DEF Segment
  <2> QED BY <2>1, <2>2 DEF Init
<1>2. inserted = Empty /\ deleted = {} /\ count = 0 /\ batch = NoBatch /\ work = Idle
      /\ outcome = "none"
  BY DEF Init
<1>3. ViewOK
  BY <1>1, <1>2, FreshView DEF ViewOK
<1>4. Typed
  BY <1>2, IdleFacts DEF Typed
<1> QED BY <1>2, <1>3, <1>4 DEF StoreInv, WorkOK

LEMMA CopyKeeps ==
    ASSUME StoreInv, CopyDelta
    PROVE  StoreInv'
<1>1. /\ batch # NoBatch /\ Admitted /\ batch.muts # <<>> /\ MutationReady(checkpoint)
      /\ work' = [at |-> 1, inserted |-> inserted, deleted |-> deleted]
      /\ UNCHANGED <<checkpoint, inserted, deleted, count, batch, outcome>>
  BY DEF CopyDelta, Checking
<1>2. /\ Segment(checkpoint) /\ count \in Nat /\ Size(inserted, deleted) <= count
      /\ Overlay(checkpoint, inserted, deleted)
      /\ (checkpoint.unique # "untrusted" => Unique(checkpoint))
  BY DEF StoreInv, ViewOK
<1>3. Unique(checkpoint)
  BY <1>1, <1>2 DEF MutationReady
<1>4. batch \in Batches /\ batch.muts \in Seq(Mutation) /\ Len(batch.muts) \in Nat
  BY <1>1, BatchFacts DEF StoreInv, Typed
<1>5. 1 \in 1..Len(batch.muts) + 1 /\ 1 - 1 = 0
  BY <1>4
<1>6. Admitted'
  BY <1>1, AdmittedKept
<1>7. Size(inserted, deleted) + 1 <= count + 1 /\ deleted \in SUBSET Relationships
      /\ inserted \in Store
  BY <1>2, OverlayFacts DEF Overlay, Segment, Filed
<1>8. Done(Live(checkpoint, inserted, deleted), Live(checkpoint, inserted, deleted),
           batch.muts, 0)
  BY NothingDone
<1>9. work'.at = 1 /\ work'.inserted = inserted /\ work'.deleted = deleted
  BY <1>1
<1>10. /\ work'.at \in 1..Len(batch'.muts) + 1
       /\ batch' # NoBatch /\ Admitted' /\ batch'.muts # <<>>
       /\ Unique(checkpoint')
       /\ Overlay(checkpoint', work'.inserted, work'.deleted)
       /\ Size(work'.inserted, work'.deleted) + 1 <= count' + work'.at
       /\ Done(Live(checkpoint', inserted', deleted'),
               Live(checkpoint', work'.inserted, work'.deleted), batch'.muts, work'.at - 1)
  BY <1>1, <1>2, <1>3, <1>5, <1>6, <1>7, <1>8, <1>9 DEF Unique
<1>11. WorkOK'
  BY <1>10 DEF WorkOK
<1>12. ViewOK'
  BY <1>1, ViewKept DEF StoreInv
<1>13. Typed'
  BY <1>1, <1>7 DEF StoreInv, Typed
<1> QED BY <1>11, <1>12, <1>13 DEF StoreInv

(* The new view holds what the copies held, folded or not.                 *)
LEMMA PublishKeeps ==
    ASSUME StoreInv, Publish
    PROVE  /\ StoreInv' /\ Unique(checkpoint')
           /\ Live(checkpoint', inserted', deleted') =
                 Live(checkpoint, work.inserted, work.deleted)
<1> DEFINE n == count + Len(batch.muts)
           c == EnsureUniqueness(checkpoint)
<1>1. /\ batch # NoBatch /\ work.at = Len(batch.muts) + 1 /\ Reply("applied")
      /\ Install(n, work.inserted, work.deleted)
  BY DEF Publish
<1>2. batch \in Batches
  BY <1>1 DEF StoreInv, Typed
<1>3. Len(batch.muts) \in Nat /\ work.at # 0
  BY <1>1, <1>2, BatchFacts
<1>4. /\ Segment(checkpoint) /\ Unique(checkpoint) /\ count \in Nat
      /\ Overlay(checkpoint, work.inserted, work.deleted)
      /\ Size(work.inserted, work.deleted) + 1 <= count + work.at
  BY <1>3, AtWork
<1>5. n \in Nat /\ Size(work.inserted, work.deleted) <= n
  <2>1. Size(work.inserted, work.deleted) \in Nat
    BY <1>4, OverlayFacts
  <2> QED BY <1>1, <1>3, <1>4, <2>1
<1> HIDE DEF n
<1>6. CASE ShouldCheckpoint(n, work.deleted)
  <2> DEFINE q == Listed(checkpoint, work.inserted, work.deleted)
  <2>1. /\ q \in Seq(Relationships) /\ IsInjective(q)
        /\ Range(q) = Live(checkpoint, work.inserted, work.deleted)
    BY <1>4, ListedOK DEF Overlay
  <2>2. checkpoint' = StoreOf(q) /\ inserted' = Empty /\ deleted' = {} /\ count' = 0
    BY <1>1, <1>6 DEF Install
  <2> HIDE DEF q
  <2>3. /\ ViewOK' /\ Unique(checkpoint')
        /\ Live(checkpoint', inserted', deleted') = Range(q)
    BY <2>1, <2>2, FoldKeeps
  <2> QED BY <1>1, <2>1, <2>3, ReplyKeeps
<1>7. CASE ~ShouldCheckpoint(n, work.deleted)
  <2>1. checkpoint' = c /\ inserted' = work.inserted /\ deleted' = work.deleted /\ count' = n
    BY <1>1, <1>7 DEF Install
  <2>2. Segment(c) /\ c.rows = checkpoint.rows /\ c.live = checkpoint.live
    BY <1>4, EnsureUniquenessOK
  <2> HIDE DEF c
  <2>3. LiveRows(c) = LiveRows(checkpoint)
    BY <2>2 DEF LiveRows
  <2>4. Unique(c)
    BY <1>4, <2>2 DEF Unique
  <2>5. Overlay(c, work.inserted, work.deleted)
    BY <1>4, <2>3 DEF Overlay
  <2>6. Cardinality(work.deleted) \in Nat
    BY <1>4, OverlayFacts
  <2>7. n < MaxDeltaMutations /\ Cardinality(work.deleted) < MaxDeltaTombstones
    BY <1>5, <1>7, <2>6, StoreConstants DEF ShouldCheckpoint
  <2>8. Live(c, work.inserted, work.deleted) = Live(checkpoint, work.inserted, work.deleted)
    BY <2>3 DEF Live
  <2>9. /\ Segment(checkpoint') /\ Unique(checkpoint') /\ count' \in Nat
        /\ Overlay(checkpoint', inserted', deleted') /\ Size(inserted', deleted') <= count'
        /\ count' < MaxDeltaMutations /\ Cardinality(deleted') < MaxDeltaTombstones
    BY <1>5, <2>1, <2>2, <2>4, <2>5, <2>7
  <2>10. ViewOK'
    BY <2>9 DEF ViewOK
  <2>11. Live(checkpoint', inserted', deleted') = Live(checkpoint, work.inserted, work.deleted)
    BY <2>1, <2>8
  <2> QED BY <1>1, <2>9, <2>10, <2>11, ReplyKeeps
<1> QED BY <1>6, <1>7

(* Revalidation keeps the rows, each once.                                 *)
LEMMA RevalidateKeeps ==
    ASSUME StoreInv, Revalidate
    PROVE  /\ StoreInv' /\ Unique(checkpoint')
           /\ Live(checkpoint', inserted', deleted') = Live(checkpoint, inserted, deleted)
<1> DEFINE l == Listed(checkpoint, inserted, deleted)
           q == FirstOfEach(l)
<1>1. /\ batch = NoBatch /\ checkpoint' = StoreOf(q) /\ inserted' = Empty /\ deleted' = {}
      /\ count' = 0 /\ UNCHANGED <<batch, work, outcome>>
  BY DEF Revalidate
<1>2. Segment(checkpoint) /\ Overlay(checkpoint, inserted, deleted)
  BY DEF StoreInv, ViewOK
<1>3. l \in Seq(Relationships) /\ Range(l) = Live(checkpoint, inserted, deleted)
  BY <1>2, ListedOK DEF Overlay
<1> HIDE DEF l
<1>4. q \in Seq(Relationships) /\ IsInjective(q) /\ Range(q) = Range(l)
  BY <1>3, FirstOfEachOK
<1> HIDE DEF q
<1>5. ViewOK' /\ Unique(checkpoint') /\ Live(checkpoint', inserted', deleted') = Range(q)
  BY <1>1, <1>4, FoldKeeps
<1>6. work = Idle
  BY <1>1 DEF StoreInv, WorkOK
<1>7. WorkOK'
  BY <1>1, <1>6 DEF WorkOK, Idle, Empty
<1>8. Typed'
  BY <1>1 DEF StoreInv, Typed
<1> QED BY <1>3, <1>4, <1>5, <1>7, <1>8 DEF StoreInv

(* StoreInv is inductive.                                                  *)
LEMMA StepInvariant ==
    ASSUME StoreInv, [Next]_vars
    PROVE  StoreInv'
<1>1. CASE Revalidate
  BY <1>1, RevalidateKeeps
<1>2. CASE Submit
  <2>1. /\ batch = NoBatch /\ batch' \in Batches
        /\ UNCHANGED <<checkpoint, inserted, deleted, count, work, outcome>>
    BY <1>2 DEF Submit
  <2>2. work = Idle
    BY <2>1 DEF StoreInv, WorkOK
  <2>3. WorkOK'
    BY <2>1, <2>2 DEF WorkOK, Idle, Empty
  <2>4. Typed'
    BY <2>1 DEF StoreInv, Typed
  <2>5. ViewOK'
    BY <2>1, ViewKept DEF StoreInv
  <2> QED BY <2>3, <2>4, <2>5 DEF StoreInv
<1>3. CASE CheckFails \/ NothingToDo \/ NotReady
  <2>1. /\ Reply("refused") \/ Reply("applied")
        /\ UNCHANGED <<checkpoint, inserted, deleted, count>>
    BY <1>3 DEF CheckFails, NothingToDo, NotReady
  <2>2. ViewOK'
    BY <2>1, ViewKept DEF StoreInv
  <2> QED BY <2>1, <2>2, ReplyKeeps
<1>4. CASE CopyDelta
  BY <1>4, CopyKeeps
<1>5. CASE CreateDelta
  <2>1. CASE Reply("refused") /\ UNCHANGED <<checkpoint, inserted, deleted, count>>
    <3>1. ViewOK'
      BY <2>1, ViewKept DEF StoreInv
    <3> QED BY <2>1, <3>1, ReplyKeeps
  <2> QED BY <1>5, <2>1, CreateSteps
<1>6. CASE TouchDelta
  BY <1>6, TouchSteps
<1>7. CASE DeleteDelta
  <2>1. CASE Reply("refused") /\ UNCHANGED <<checkpoint, inserted, deleted, count>>
    <3>1. ViewOK'
      BY <2>1, ViewKept DEF StoreInv
    <3> QED BY <2>1, <3>1, ReplyKeeps
  <2> QED BY <1>7, <2>1, DeleteSteps
<1>8. CASE Publish
  BY <1>8, PublishKeeps
<1>9. CASE UNCHANGED vars
  <2>1. UNCHANGED <<checkpoint, inserted, deleted, count, batch, work, outcome>>
    BY <1>9 DEF vars
  <2>2. ViewOK'
    BY <2>1, ViewKept DEF StoreInv
  <2>3. Typed'
    BY <2>1 DEF StoreInv, Typed
  <2>4. Admitted => Admitted'
    BY <2>1, AdmittedKept
  <2>5. WorkOK'
    BY <2>1, <2>4 DEF StoreInv, WorkOK, Idle, Empty
  <2> QED BY <2>2, <2>3, <2>5 DEF StoreInv
<1> QED BY <1>1, <1>2, <1>3, <1>4, <1>5, <1>6, <1>7, <1>8, <1>9 DEF Next

THEOREM StoreInvariance == Spec => []StoreInv
<1>1. Init => StoreInv
  BY InitKeeps
<1>2. StoreInv /\ [Next]_vars => StoreInv'
  BY StepInvariant
<1> QED BY <1>1, <1>2, PTL DEF Spec

-----------------------------------------------------------------------------
(* What the invariant says.                                                *)

(* Every field of the view and of a batch at work has its type; a batch    *)
(* that got past its checks has no more than MaxMutations mutations        *)
(* (relationship.rs apply_mutations).                                      *)
THEOREM StoreTypes == Spec => []TypeOK
<1>1. StoreInv => TypeOK
  <2> SUFFICES ASSUME StoreInv PROVE TypeOK
    OBVIOUS
  <2>1. /\ Segment(checkpoint) /\ Overlay(checkpoint, inserted, deleted)
        /\ count \in Nat
    BY DEF StoreInv, ViewOK
  <2>2. checkpoint \in Store /\ inserted \in Store /\ deleted \in SUBSET Relationships
    BY <2>1, OverlayFacts DEF Overlay, Segment, Filed
  <2>3. work.at \in 0..MaxMutations + 1
    <3>1. CASE work.at = 0
      BY <3>1, StoreConstants
    <3>2. CASE work.at # 0
      <4>1. /\ work.at \in 1..Len(batch.muts) + 1 /\ Len(batch.muts) \in Nat
            /\ Len(batch.muts) <= MaxMutations
        BY <3>2, AtWork DEF Admitted
      <4> QED BY <4>1, StoreConstants
    <3> QED BY <3>1, <3>2
  <2>4. work \in [at : 0..MaxMutations + 1, inserted : Store, deleted : SUBSET Relationships]
    BY <2>3, WorkType
  <2> QED BY <2>1, <2>2, <2>4 DEF TypeOK, StoreInv, Typed
<1> QED BY <1>1, StoreInvariance, PTL

(* The primary slot and the bucket as one list.                            *)
LEMMA SegmentIndexed ==
    ASSUME NEW s, Segment(s)
    PROVE  Indexed(s)
<1>1. \A k \in Keys :
         s.postings[k] = Ordered({i \in 1..Len(s.rows) : k \in KeysOf[s.rows[i]]})
  BY DEF Segment, Filed, Slots
<1>2. ASSUME s.unique = "ready", NEW h \in Hashes
      PROVE  LET held == IF s.primary[h] = 0 THEN s.collisions[h]
                         ELSE <<s.primary[h]>> \o s.collisions[h]
             IN  /\ IsInjective(held)
                 /\ Range(held) = {i \in s.live : HashOf[s.rows[i]] = h}
                 /\ s.primary[h] = 0 => held = <<>>
  <2> DEFINE p == s.primary[h]
             b == s.collisions[h]
             B == Bucket(s, h)
             held == IF p = 0 THEN b ELSE <<p>> \o b
  <2>1. BucketOK(p, b, B)
    BY <1>2 DEF Segment
  <2>2. p \in Nat /\ b \in Seq(Nat \ {0}) /\ b \in Seq(Nat) /\ Len(b) \in Nat
    BY SegmentFacts, LenProperties, SeqMonotonic DEF Segment
  <2> HIDE DEF p, b, B
  <2>3. IsInjective(held) /\ (\A x : x \in Range(held) <=> x \in B) /\ (p = 0 => held = <<>>)
    <3>1. CASE p = 0
      <4>1. b = <<>> /\ held = <<>> /\ DOMAIN held = {} /\ Len(b) = 0 /\ 1..0 = {}
        BY <2>1, <3>1 DEF BucketOK
      <4>2. \A x : x \notin B
        BY <2>1, <3>1, <4>1 DEF BucketOK
      <4> HIDE DEF held
      <4> QED BY <4>1, <4>2 DEF IsInjective, Range
    <3>2. CASE p # 0
      <4> DEFINE n == Len(b)
      <4>1. <<p>> \in Seq(Nat) /\ Len(<<p>>) = 1 /\ <<p>>[1] = p
        BY <2>2
      <4>2. /\ held \in Seq(Nat) /\ Len(held) = 1 + n
            /\ \A i \in 1..1 + n : held[i] = IF i <= 1 THEN <<p>>[i] ELSE b[i - 1]
        BY <2>2, <3>2, <4>1, ConcatProperties
      <4>3. DOMAIN held = 1..1 + n
        BY <4>2, LenProperties
      <4> HIDE DEF held, n
      <4>4. n \in Nat /\ n = Len(b)
        BY <2>2 DEF n
      <4>5. 1 \in 1..1 + n /\ held[1] = p
        BY <4>1, <4>2, <4>4
      <4>6. \A i \in 1..1 + n : i = 1 \/ (i - 1 \in 1..n /\ held[i] = b[i - 1])
        BY <4>2, <4>4
      <4>7. \A i \in 1..n : i + 1 \in 1..1 + n /\ held[i + 1] = b[i]
        <5> TAKE i \in 1..n
        <5>1. i + 1 \in 1..1 + n /\ ~(i + 1 <= 1) /\ (i + 1) - 1 = i
          BY <4>4
        <5> QED BY <4>2, <5>1
      <4>8. /\ \A i \in 1..n : b[i] # p
            /\ \A i, j \in 1..n : b[i] = b[j] => i = j
            /\ \A x : x \in B <=> x = p \/ \E i \in 1..n : b[i] = x
        BY <2>1, <3>2, <4>4 DEF BucketOK
      <4>9. ASSUME NEW i \in 1..1 + n, NEW j \in 1..1 + n, held[i] = held[j] PROVE i = j
        <5>1. CASE i = 1 /\ j = 1
          BY <5>1
        <5>2. CASE i = 1 /\ j # 1
          BY <4>5, <4>6, <4>8, <4>9, <5>2
        <5>3. CASE i # 1 /\ j = 1
          BY <4>5, <4>6, <4>8, <4>9, <5>3
        <5>4. CASE i # 1 /\ j # 1
          <6>1. i - 1 \in 1..n /\ j - 1 \in 1..n /\ b[i - 1] = b[j - 1]
            BY <4>6, <4>9, <5>4
          <6>2. i - 1 = j - 1
            BY <4>8, <6>1
          <6> QED BY <4>4, <6>2
        <5> QED BY <5>1, <5>2, <5>3, <5>4
      <4>10. \A x : x \in Range(held) <=> \E i \in 1..1 + n : held[i] = x
        BY <4>3 DEF Range
      <4>11. \A x : x \in Range(held) => x \in B
        BY <4>5, <4>6, <4>8, <4>10
      <4>12. \A x : x \in B => x \in Range(held)
        BY <4>5, <4>7, <4>8, <4>10
      <4> QED BY <3>2, <4>3, <4>9, <4>11, <4>12 DEF IsInjective
    <3> QED BY <3>1, <3>2
  <2>4. Range(held) = B
    BY <2>3
  <2> HIDE DEF held
  <2> QED BY <2>3, <2>4 DEF held, p, b, B, Bucket
<1> QED BY <1>1, <1>2 DEF Indexed

(* The indexes of every segment are exact, whichever rows collided, were   *)
(* removed or came back, also in the copies of a batch at work             *)
(* (relationship.rs RelationshipIdentityIndex, PostingIndex).              *)
THEOREM IndexesAreExact == Spec => []IndexesAgree
<1>1. StoreInv => IndexesAgree
  <2> SUFFICES ASSUME StoreInv PROVE IndexesAgree
    OBVIOUS
  <2>1. Segment(checkpoint) /\ Segment(inserted)
    BY DEF StoreInv, ViewOK, Overlay
  <2>2. Segment(work.inserted)
    BY IdleFacts, EmptyOK DEF StoreInv, WorkOK, Overlay
  <2> QED BY <2>1, <2>2, SegmentIndexed DEF IndexesAgree
<1> QED BY <1>1, StoreInvariance, PTL

(* Each row is stored once: the overlay inserts no row the checkpoint      *)
(* holds, and hides only rows it holds (relationship.rs                    *)
(* relationship_location, apply_delta_mutation).                           *)
THEOREM RowsStoredOnce == Spec => []StoredOnce
<1>1. StoreInv => StoredOnce
  <2> SUFFICES ASSUME StoreInv PROVE StoredOnce
    OBVIOUS
  <2>1. OverlayDisjoint(inserted, deleted) /\ (count > 0 => Unique(checkpoint))
    BY DEF StoreInv, ViewOK, Overlay, OverlayDisjoint
  <2>2. ASSUME work.at # 0
        PROVE  OverlayDisjoint(work.inserted, work.deleted) /\ Unique(checkpoint)
    BY <2>2, AtWork DEF Overlay, OverlayDisjoint
  <2> QED BY <2>1, <2>2 DEF StoredOnce
<1> QED BY <1>1, StoreInvariance, PTL

(* The overlay a reader scans stays below its limits, dead slots included, *)
(* however the batches alternate (relationship.rs should_checkpoint).      *)
THEOREM OverlayIsBounded == Spec => []OverlayBounded
<1>1. StoreInv => OverlayBounded
  BY DEF StoreInv, ViewOK, OverlayBounded, Size
<1> QED BY <1>1, StoreInvariance, PTL

-----------------------------------------------------------------------------
(* Queries.                                                                *)

LEMMA FiltersCover ==
    ASSUME NEW f \in Filters
    PROVE  Covers(f)
BY StoreConstants DEF Covers

(* With room in both segments a query is exact.                            *)
LEMMA QueryFits ==
    ASSUME ViewOK, NEW f, Covers(f), Unique(checkpoint),
           f.limit >= Cardinality(f.rows \cap LiveRows(inserted)),
           f.limit >= Cardinality(f.rows \cap LiveRows(checkpoint))
    PROVE  Query(f) = f.rows \cap Live(checkpoint, inserted, deleted)
<1>1. Filed(checkpoint) /\ Filed(inserted) /\ Unique(inserted)
  BY DEF ViewOK, Overlay, Segment
<1>2. Yielded(checkpoint, f) = f.rows \cap LiveRows(checkpoint)
  BY <1>1, YieldedExact
<1>3. Yielded(inserted, f) = f.rows \cap LiveRows(inserted)
  BY <1>1, YieldedExact
<1>4. LiveRows(inserted) \cap deleted = {}
  BY DEF ViewOK, Overlay
<1> QED BY <1>2, <1>3, <1>4 DEF Query, Live

(* A query with room for what it matches sees exactly the live rows, and   *)
(* where there is no candidate there is no row (relationship.rs            *)
(* StoreViewCompactIter, has_reverse_subject_candidates).                  *)
THEOREM QueriesAreExact == Spec => []QueryExact
<1>1. StoreInv => QueryExact
  <2> SUFFICES ASSUME StoreInv, NEW f \in Filters
               PROVE  LET matching == f.rows \cap Live(checkpoint, inserted, deleted)
                          Fits(s) == f.limit >= Cardinality(f.rows \cap LiveRows(s))
                      IN  /\ Fits(inserted) /\ Fits(checkpoint) /\ Unique(checkpoint) =>
                                Query(f) = matching
                          /\ ~HasReverseCandidates(f) => matching = {}
    BY DEF QueryExact
  <2>1. ViewOK /\ Covers(f)
    BY FiltersCover DEF StoreInv
  <2>2. ASSUME ~HasReverseCandidates(f)
        PROVE  f.rows \cap Live(checkpoint, inserted, deleted) = {}
    <3>1. Filed(checkpoint) /\ Filed(inserted)
      BY <2>1 DEF ViewOK, Overlay, Segment
    <3>2. f.rows \cap LiveRows(checkpoint) = {} /\ f.rows \cap LiveRows(inserted) = {}
      BY <2>1, <2>2, <3>1, NoCandidates DEF HasReverseCandidates
    <3> QED BY <3>2 DEF Live
  <2> QED BY <2>1, <2>2, QueryFits
<1> QED BY <1>1, StoreInvariance, PTL

-----------------------------------------------------------------------------
(* The view implements RelationSet.                                        *)

(* A precondition with a wide filter is decided on the rows of the view.   *)
LEMMA WideQuery ==
    ASSUME ViewOK, NEW f, Covers(f), IsFiniteSet(f.rows), f.limit >= Cardinality(f.rows)
    PROVE  Query(f) # {} <=> f.rows \cap Live(checkpoint, inserted, deleted) # {}
<1>1. Filed(checkpoint) /\ Filed(inserted) /\ Segment(checkpoint)
      /\ Overlay(checkpoint, inserted, deleted) /\ count \in Nat
      /\ Size(inserted, deleted) <= count
  BY DEF ViewOK, Overlay, Segment
<1>2. CASE Unique(checkpoint)
  <2>1. ASSUME NEW R PROVE f.limit >= Cardinality(f.rows \cap R)
    <3>1. f.rows \cap R \in SUBSET f.rows
      OBVIOUS
    <3>2. /\ IsFiniteSet(f.rows \cap R) /\ Cardinality(f.rows \cap R) <= Cardinality(f.rows)
      BY <3>1, FS_Subset
    <3>3. Cardinality(f.rows) \in Nat /\ Cardinality(f.rows \cap R) \in Nat /\ f.limit \in Nat
      BY <3>2, FS_CardinalityType DEF Covers, Filter
    <3> QED BY <3>2, <3>3
  <2>2. /\ f.limit >= Cardinality(f.rows \cap LiveRows(inserted))
        /\ f.limit >= Cardinality(f.rows \cap LiveRows(checkpoint))
    BY <2>1
  <2> QED BY <1>2, <2>2, QueryFits
<1>3. CASE ~Unique(checkpoint)
  <2>1. count = 0
    BY <1>1, <1>3 DEF ViewOK
  <2>2. /\ Len(inserted.rows) \in Nat /\ Cardinality(deleted) \in Nat /\ IsFiniteSet(deleted)
        /\ Size(inserted, deleted) \in Nat
    BY <1>1, OverlayFacts
  <2>3. Len(inserted.rows) = 0 /\ Cardinality(deleted) = 0
    BY <1>1, <2>1, <2>2 DEF Size
  <2>4. deleted = {}
    BY <2>2, <2>3, FS_EmptySet
  <2>5. Query(f) = Yielded(inserted, f) \cup Yielded(checkpoint, f)
    BY <2>4 DEF Query
  <2>6. Live(checkpoint, inserted, deleted) = LiveRows(checkpoint) \cup LiveRows(inserted)
    BY <2>4 DEF Live
  <2>7. ASSUME NEW s, Filed(s) PROVE Yielded(s, f) # {} <=> f.rows \cap LiveRows(s) # {}
    BY <2>7, YieldedSome
  <2>8. /\ Yielded(inserted, f) # {} <=> f.rows \cap LiveRows(inserted) # {}
        /\ Yielded(checkpoint, f) # {} <=> f.rows \cap LiveRows(checkpoint) # {}
    BY <1>1, <2>7
  <2> QED BY <2>5, <2>6, <2>8
<1> QED BY <1>2, <1>3

LEMMA PreconditionsAgree ==
    ASSUME WidePreconditions, ViewOK, batch \in Batches, NEW i \in 1..Len(batch.pres)
    PROVE  CheckPrecondition(batch.pres[i]) <=>
               Set!Holds(Live(checkpoint, inserted, deleted), batch.pres[i])
<1> DEFINE f == batch.pres[i].filter
<1>1. Covers(f) /\ IsFiniteSet(f.rows) /\ f.limit >= Cardinality(f.rows)
  BY BatchFacts DEF WidePreconditions
<1>2. Query(f) # {} <=> f.rows \cap Live(checkpoint, inserted, deleted) # {}
  BY <1>1, WideQuery
<1> QED BY <1>2 DEF CheckPrecondition, AnyResourceMatch, Set!Holds

(* The checks made before anything is copied are those of RelationSet that *)
(* do not depend on what the mutations find.                               *)
LEMMA LegalIs ==
    ASSUME WidePreconditions, StoreInv, batch # NoBatch
    PROVE  Set!Legal(Live(checkpoint, inserted, deleted), batch) <=>
             /\ Admitted
             /\ Set!Targets(batch.muts, {"create"}) \cap Live(checkpoint, inserted, deleted) = {}
             /\ Set!Targets(batch.muts, {"delete"}) \subseteq Live(checkpoint, inserted, deleted)
             /\ Unique(checkpoint) \/ batch.muts = <<>>
<1>1. ViewOK /\ batch \in Batches
  BY DEF StoreInv, Typed
<1>2. \A i \in 1..Len(batch.pres) :
         CheckPrecondition(batch.pres[i]) <=>
             Set!Holds(Live(checkpoint, inserted, deleted), batch.pres[i])
  BY <1>1, PreconditionsAgree
<1> QED BY <1>2 DEF Set!Legal, Admitted

(* The batch at its mutation: its row is in the copies where it is in the  *)
(* view, for no earlier mutation named it.                                 *)
LEMMA RefusedForItsReason ==
    ASSUME WidePreconditions, StoreInv, Applying,
           \/ /\ Mut.kind = "create"
              /\ Mut.row \in Live(checkpoint, work.inserted, work.deleted)
           \/ /\ Mut.kind = "delete"
              /\ Mut.row \notin Live(checkpoint, work.inserted, work.deleted)
    PROVE  ~Set!Legal(Live(checkpoint, inserted, deleted), batch)
<1> DEFINE n == work.at
           L0 == Live(checkpoint, inserted, deleted)
           L == Live(checkpoint, work.inserted, work.deleted)
<1>1. n \in Nat /\ n # 0 /\ n \in 1..Len(batch.muts) /\ batch # NoBatch
  BY DEF Applying, StoreInv, Typed
<1>2. /\ batch.muts \in Seq(Mutation) /\ OneRowEach(batch.muts)
      /\ Done(L0, L, batch.muts, n - 1)
  BY <1>1, AtWork
<1>3. n - 1 \in Nat /\ (n - 1) + 1 = n
  BY <1>1
<1>4. Mut = batch.muts[(n - 1) + 1] /\ Mut = batch.muts[n]
  BY <1>3 DEF Mut
<1> HIDE DEF L0, L
<1>5. Mut.row \in L <=> Mut.row \in L0
  BY <1>1, <1>2, <1>3, <1>4, NextIsFirst
<1>6. Mut.row \in Set!Targets(batch.muts, {Mut.kind})
  BY <1>1, <1>4 DEF Set!Targets
<1> QED BY <1>1, <1>5, <1>6, LegalIs DEF L0, L

(* Each step of the view is a step of RelationSet, or leaves its rows, its *)
(* batch and its outcome as they were.                                     *)
LEMMA StepIsSetStep ==
    ASSUME WidePreconditions, StoreInv, [Next]_vars
    PROVE  [Set!Next]_(Set!vars)
<1> DEFINE L == Live(checkpoint, inserted, deleted)
<1>0. ASSUME UNCHANGED <<checkpoint, inserted, deleted>>
      PROVE  L' = L /\ Unique(checkpoint)' = Unique(checkpoint)
  BY <1>0 DEF Unique
<1>1. ASSUME Reply("refused"), UNCHANGED <<checkpoint, inserted, deleted, count>>,
             batch # NoBatch, ~Set!Legal(L, batch)
      PROVE  Set!Refuse
  BY <1>0, <1>1 DEF Set!Refuse, Reply
<1>2. ASSUME UNCHANGED <<checkpoint, inserted, deleted, batch, outcome>>
      PROVE  UNCHANGED Set!vars
  BY <1>0, <1>2 DEF Set!vars
<1>3. CASE Revalidate
  <2>1. Unique(checkpoint)' /\ L' = L
    BY <1>3, RevalidateKeeps
  <2>2. batch = NoBatch /\ UNCHANGED <<batch, outcome>>
    BY <1>3 DEF Revalidate
  <2>3. Unique(checkpoint)' = TRUE
    BY <2>1 DEF Unique
  <2>4. Set!Revalidate
    BY <2>1, <2>2, <2>3 DEF Set!Revalidate
  <2> QED BY <2>4 DEF Set!Next
<1>4. CASE Submit
  <2>1. Set!Submit
    BY <1>0, <1>4 DEF Submit, Set!Submit
  <2> QED BY <2>1 DEF Set!Next
<1>5. CASE CheckFails
  <2>1. batch # NoBatch /\ ~Admitted /\ Reply("refused")
        /\ UNCHANGED <<checkpoint, inserted, deleted, count>>
    BY <1>5 DEF CheckFails, Checking
  <2>2. ~Set!Legal(L, batch)
    BY <2>1, LegalIs
  <2> QED BY <1>1, <2>1, <2>2 DEF Set!Next
<1>6. CASE NothingToDo
  <2>1. batch # NoBatch /\ Admitted /\ batch.muts = <<>> /\ Reply("applied")
        /\ UNCHANGED <<checkpoint, inserted, deleted, count>>
    BY <1>6 DEF NothingToDo, Checking
  <2>2. Len(batch.muts) = 0 /\ 1..0 = {}
    BY <2>1, EmptySeq
  <2>3. \A kinds : Set!Targets(batch.muts, kinds) = {}
    BY <2>2 DEF Set!Targets
  <2>4. Set!Legal(L, batch)
    BY <2>1, <2>3, LegalIs
  <2>5. Set!Effect(L, batch.muts) = L
    BY <2>3 DEF Set!Effect
  <2>6. Set!Apply
    BY <1>0, <2>1, <2>4, <2>5 DEF Set!Apply, Reply
  <2> QED BY <2>6 DEF Set!Next
<1>7. CASE NotReady
  <2>1. /\ batch # NoBatch /\ batch.muts # <<>> /\ Reply("refused") /\ ~MutationReady(checkpoint)
        /\ UNCHANGED <<checkpoint, inserted, deleted, count>>
    BY <1>7 DEF NotReady, Checking
  <2>2. ~Set!Legal(L, batch)
    BY <2>1, LegalIs DEF MutationReady
  <2> QED BY <1>1, <2>1, <2>2 DEF Set!Next
<1>8. CASE CopyDelta
  <2>1. UNCHANGED <<checkpoint, inserted, deleted, batch, outcome>>
    BY <1>8 DEF CopyDelta
  <2> QED BY <1>2, <2>1
<1>9. CASE CreateDelta
  <2>1. Applying /\ Mut.kind = "create" /\ batch # NoBatch
    BY <1>9 DEF CreateDelta, Applying
  <2>2. CASE /\ Reply("refused") /\ UNCHANGED <<checkpoint, inserted, deleted, count>>
             /\ Mut.row \in Live(checkpoint, work.inserted, work.deleted)
    <3>1. ~Set!Legal(L, batch)
      BY <2>1, <2>2, RefusedForItsReason
    <3> QED BY <1>1, <2>1, <2>2, <3>1 DEF Set!Next
  <2>3. CASE UNCHANGED <<checkpoint, inserted, deleted, count, batch, outcome>>
    BY <1>2, <2>3
  <2> QED BY <1>9, <2>2, <2>3, CreateSteps
<1>10. CASE TouchDelta
  BY <1>2, <1>10, TouchSteps
<1>11. CASE DeleteDelta
  <2>1. Applying /\ Mut.kind = "delete" /\ batch # NoBatch
    BY <1>11 DEF DeleteDelta, Applying
  <2>2. CASE /\ Reply("refused") /\ UNCHANGED <<checkpoint, inserted, deleted, count>>
             /\ Mut.row \notin Live(checkpoint, work.inserted, work.deleted)
    <3>1. ~Set!Legal(L, batch)
      BY <2>1, <2>2, RefusedForItsReason
    <3> QED BY <1>1, <2>1, <2>2, <3>1 DEF Set!Next
  <2>3. CASE UNCHANGED <<checkpoint, inserted, deleted, count, batch, outcome>>
    BY <1>2, <2>3
  <2> QED BY <1>11, <2>2, <2>3, DeleteSteps
<1>12. CASE Publish
  <2> DEFINE n == work.at
             M == Live(checkpoint, work.inserted, work.deleted)
  <2>1. batch # NoBatch /\ n = Len(batch.muts) + 1 /\ Reply("applied")
    BY <1>12 DEF Publish
  <2>2. batch \in Batches
    BY <2>1 DEF StoreInv, Typed
  <2>3. Len(batch.muts) \in Nat /\ n # 0 /\ n - 1 = Len(batch.muts)
    BY <2>1, <2>2, BatchFacts
  <2>4. /\ Admitted /\ OneRowEach(batch.muts) /\ batch.muts \in Seq(Mutation)
        /\ Unique(checkpoint) /\ Done(L, M, batch.muts, n - 1)
    BY <2>3, AtWork
  <2>5. Unique(checkpoint') /\ L' = M
    BY <1>12, PublishKeeps
  <2>6. Done(L, M, batch.muts, Len(batch.muts))
    BY <2>3, <2>4
  <2>7. /\ M = Set!Effect(L, batch.muts)
        /\ Set!Targets(batch.muts, {"create"}) \cap L = {}
        /\ Set!Targets(batch.muts, {"delete"}) \subseteq L
    <3> HIDE DEF L, M
    <3> QED BY <2>4, <2>6, AllDone
  <2>8. Set!Legal(L, batch)
    BY <2>1, <2>4, <2>7, LegalIs
  <2>9. Unique(checkpoint)' = Unique(checkpoint)
    BY <2>4, <2>5 DEF Unique
  <2>10. Set!Apply
    BY <2>1, <2>5, <2>7, <2>8, <2>9 DEF Set!Apply, Reply
  <2> QED BY <2>10 DEF Set!Next
<1>13. CASE UNCHANGED vars
  <2>1. UNCHANGED <<checkpoint, inserted, deleted, batch, outcome>>
    BY <1>13 DEF vars
  <2> QED BY <1>2, <2>1
<1> QED BY <1>3, <1>4, <1>5, <1>6, <1>7, <1>8, <1>9, <1>10, <1>11, <1>12, <1>13 DEF Next

(* If the limits of preconditions' filters are no smaller than what they   *)
(* can match, the view is a set of rows with atomic batches: whatever was  *)
(* loaded, and however often the overlay is folded or the rows are         *)
(* revalidated, no batch is applied in part or refused without reason      *)
(* (relationship.rs apply_mutations).                                      *)
THEOREM ViewIsASet ==
    ASSUME WidePreconditions
    PROVE  Spec => ImplementsSet
<1>1. Init => Set!Init
  <2> SUFFICES ASSUME Init PROVE Set!Init
    OBVIOUS
  <2>1. StoreInv
    BY InitKeeps
  <2>2. Live(checkpoint, inserted, deleted) \in SUBSET Relationships
    BY <2>1, OverlayFacts DEF StoreInv, ViewOK
  <2>3. Unique(checkpoint) \in BOOLEAN
    BY DEF Unique
  <2> QED BY <2>2, <2>3 DEF Init, Set!Init
<1>2. StoreInv /\ [Next]_vars => [Set!Next]_(Set!vars)
  BY StepIsSetStep
<1> QED BY <1>1, <1>2, StoreInvariance, PTL DEF Spec, ImplementsSet, Set!Spec

=============================================================================
