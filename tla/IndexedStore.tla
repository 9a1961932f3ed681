---------------------------- MODULE IndexedStore ----------------------------
(***************************************************************************)
(* IndexedRelationshipStore (src/src/relationship.rs), a segment of a      *)
(* store view: rows in slots that are never reused, the slots that are     *)
(* live, posting lists for queries, and an identity index from a row's     *)
(* hash to its slot, with a bucket for the rows whose hashes collide.      *)
(*                                                                         *)
(* The seven posting indexes are one function from keys to lists of slots: *)
(* a row is posted under each of its keys, and a filter scans the list of  *)
(* one key.  An identifier that a segment has never interned has no rows   *)
(* in it.  A row's hash is taken over interned identifiers, so rows may    *)
(* collide in any way: HashOf is any function.                             *)
(***************************************************************************)
EXTENDS Naturals, Sequences, FiniteSets, Functions

CONSTANTS Relationships,   \* rows `object#relation@subject`
          KeysOf,          \* the posting keys of each row
          HashOf           \* RelationshipRow::identity_hash

ASSUME RowsIndexed ==
    /\ DOMAIN KeysOf = Relationships
    /\ DOMAIN HashOf = Relationships

Keys == UNION Range(KeysOf)

Hashes == Range(HashOf)

(* Slot 0 stands for none: a RowId is a NonZeroU32.                        *)
Store == [rows : Seq(Relationships), live : SUBSET (Nat \ {0}),
          postings : [Keys -> Seq(Nat \ {0})],
          unique : {"ready", "known", "untrusted"},
          primary : [Hashes -> Nat], collisions : [Hashes -> Seq(Nat \ {0})]]

(* The slots of I in order.                                                *)
Ordered(I) ==
    [k \in 1..Cardinality(I) |-> CHOOSE i \in I : Cardinality({j \in I : j <= i}) = k]

-----------------------------------------------------------------------------
(* RelationshipIdentityIndex.                                              *)

(* The first place of row in its bucket, 0 if it is not there.             *)
Place(s, row) ==
    LET bucket == s.collisions[HashOf[row]]
        at == {i \in 1..Len(bucket) : s.rows[bucket[i]] = row}
    IN  IF at = {} THEN 0 ELSE CHOOSE i \in at : \A j \in at : i <= j

IsPrimary(s, row) ==
    LET id == s.primary[HashOf[row]] IN id # 0 /\ s.rows[id] = row

(* find.                                                                   *)
Find(s, row) ==
    IF IsPrimary(s, row) THEN s.primary[HashOf[row]]
    ELSE IF Place(s, row) # 0 THEN s.collisions[HashOf[row]][Place(s, row)]
    ELSE 0

(* insert: the first row of a hash is primary, another one collides.       *)
InsertIdentity(s, id, row) ==
    LET h == HashOf[row]
    IN  IF s.primary[h] = 0 THEN [s EXCEPT !.primary[h] = id]
        ELSE IF s.rows[s.primary[h]] # row THEN [s EXCEPT !.collisions[h] = Append(@, id)]
        ELSE s

Front(q) == SubSeq(q, 1, Len(q) - 1)

(* Vec::swap_remove.                                                       *)
SwapRemove(q, i) == Front([q EXCEPT ![i] = q[Len(q)]])

(* Mutant: the rows that collide with a removed primary are forgotten.     *)
RemoveIdentityOnly(s, row) ==
    LET h == HashOf[row]
    IN  IF IsPrimary(s, row) THEN [s EXCEPT !.primary[h] = 0]
        ELSE IF Place(s, row) # 0 THEN [s EXCEPT !.collisions[h] = SwapRemove(@, Place(s, row))]
        ELSE s

(* remove: the last of the bucket takes the place of a removed primary.    *)
RemoveIdentity(s, row) ==
    LET h == HashOf[row]
        bucket == s.collisions[h]
    IN  IF IsPrimary(s, row)
        THEN IF bucket = <<>> THEN [s EXCEPT !.primary[h] = 0]
             ELSE [s EXCEPT !.primary[h] = bucket[Len(bucket)], !.collisions[h] = Front(@)]
        ELSE IF Place(s, row) # 0 THEN [s EXCEPT !.collisions[h] = SwapRemove(@, Place(s, row))]
        ELSE s

-----------------------------------------------------------------------------
(* The operations of a segment.                                            *)

Contains(s, row) == s.unique = "ready" /\ Find(s, row) # 0

(* index_relationship: the slot goes to the end of the row's lists.        *)
Posted(s, id, row) ==
    [k \in Keys |-> IF k \in KeysOf[row] THEN Append(s.postings[k], id) ELSE s.postings[k]]

(* insert: the identity index, the posting lists, then the slot itself.    *)
Insert(s, row) ==
    LET id == Len(s.rows) + 1
    IN  [InsertIdentity(s, id, row) EXCEPT !.postings = Posted(s, id, row),
                                           !.rows = Append(@, row),
                                           !.live = @ \cup {id}]

(* delete: the row keeps its slot and its postings.                        *)
Delete(s, row) == [RemoveIdentity(s, row) EXCEPT !.live = @ \ {Find(s, row)}]

LiveRows(s) == {s.rows[i] : i \in s.live}

(* rows(): the live rows in slot order.                                    *)
RowsOf(s) == LET ids == Ordered(s.live) IN [k \in 1..Len(ids) |-> s.rows[ids[k]]]

(* No live row is there twice.                                             *)
Unique(s) == \A i, j \in s.live : s.rows[i] = s.rows[j] => i = j

(* The identity index of the live rows, in slot order.                     *)
WithIdentity(s) ==
    LET ids(h) == Ordered({i \in s.live : HashOf[s.rows[i]] = h})
    IN  [s EXCEPT !.unique = "ready",
                  !.primary = [h \in Hashes |-> IF ids(h) = <<>> THEN 0 ELSE ids(h)[1]],
                  !.collisions = [h \in Hashes |-> IF ids(h) = <<>> THEN <<>> ELSE Tail(ids(h))]]

(* A loaded segment: posting lists and no identity index.                  *)
Decoded(rows, unique) ==
    [rows |-> rows, live |-> 1..Len(rows), unique |-> unique,
     postings |-> [k \in Keys |-> Ordered({i \in 1..Len(rows) : k \in KeysOf[rows[i]]})],
     primary |-> [h \in Hashes |-> 0], collisions |-> [h \in Hashes |-> <<>>]]

(* A new segment into which distinct rows are inserted one after another.  *)
StoreOf(rows) == WithIdentity(Decoded(rows, "ready"))

Empty == StoreOf(<<>>)

(* ensure_uniqueness_index: a scan, unless the index exists.               *)
MutationReady(s) == s.unique = "ready" \/ Unique(s)

EnsureUniqueness(s) == IF s.unique = "ready" THEN s ELSE WithIdentity(s)

-----------------------------------------------------------------------------
(* Queries.  A filter scans the posting list of its key, skips the dead    *)
(* slots and stops after `limit` rows that match.                          *)

Filter == [key : Keys, rows : SUBSET Relationships, limit : Nat \ {0}]

Candidates(s, f) == s.postings[f.key]

Matches(s, id, f) == s.rows[id] \in f.rows

(* The rows of the first `limit` slots of a list that are in hits.         *)
FirstHits(s, list, limit, hits) ==
    {s.rows[list[i]] : i \in
        {j \in 1..Len(list) :
            list[j] \in hits /\ Cardinality({n \in 1..j : list[n] \in hits}) <= limit}}

(* Mutant: dead slots are not skipped.                                     *)
YieldedDead(s, f) ==
    FirstHits(s, Candidates(s, f), f.limit, {id \in 1..Len(s.rows) : Matches(s, id, f)})

Yielded(s, f) ==
    FirstHits(s, Candidates(s, f), f.limit, {id \in s.live : Matches(s, id, f)})

(* has_subject_candidates: dead slots count.                               *)
HasCandidates(s, f) == Candidates(s, f) # <<>>

=============================================================================
