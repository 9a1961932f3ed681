------------------------------ MODULE StoreView ------------------------------
(***************************************************************************)
(* RelationshipStoreView (src/src/relationship.rs): an immutable, fully    *)
(* indexed checkpoint plus an overlay of inserted rows and tombstones.  A  *)
(* batch is checked, applied mutation by mutation to private copies of the *)
(* overlay, and published as a new view; an overlay that grew too large is *)
(* folded into a new checkpoint.  The checkpoint and the inserted rows are *)
(* segments of IndexedStore.                                               *)
(***************************************************************************)
EXTENDS IndexedStore

CONSTANTS Checkpoints,         \* checkpoints a view may be loaded with
          Batches,             \* batches the writer may submit
          Filters,             \* query and precondition filters
          MaxMutations,        \* MAX_MUTATIONS_PER_BATCH (10_000)
          MaxPreconditions,    \* MAX_PRECONDITIONS_PER_BATCH (100)
          MaxDeltaMutations,   \* STORE_VIEW_MAX_DELTA_MUTATIONS (100_000)
          MaxDeltaTombstones,  \* STORE_VIEW_MAX_DELTA_TOMBSTONES (100_000)
          NoBatch

Mutation == [kind : {"create", "touch", "delete"}, row : Relationships]

Precondition == [kind : {"mustMatch", "mustNotMatch"}, filter : Filters]

Batch == [muts : Seq(Mutation), pres : Seq(Precondition)]

(* known: loaded by a full validation that dropped the uniqueness index.   *)
(* untrusted: loaded without validation.                                   *)
Checkpoint == [rows : Seq(Relationships), unique : {"known", "untrusted"}]

ASSUME StoreConstants ==
    /\ Filters \subseteq Filter
    /\ \A f \in Filters : \A r \in f.rows : f.key \in KeysOf[r]
    /\ Batches \subseteq Batch
    /\ NoBatch \notin Batches
    /\ MaxMutations \in Nat
    /\ MaxDeltaMutations \in Nat \ {0}
    /\ MaxDeltaTombstones \in Nat \ {0}

ASSUME CheckpointsDistinct ==
    /\ Checkpoints \subseteq Checkpoint
    /\ \A c \in Checkpoints : c.unique = "known" => IsInjective(c.rows)

VARIABLES checkpoint,   \* the view's checkpoint
          inserted,     \* delta.inserted (empty when there is no delta)
          deleted,      \* delta.deleted
          count,        \* delta.mutation_count (0: no delta)
          batch,        \* the batch apply_mutations works on
          work,         \* its private copies: [at, inserted, deleted]
          outcome       \* how the previous call ended

vars == <<checkpoint, inserted, deleted, count, batch, work, outcome>>

Idle == [at |-> 0, inserted |-> Empty, deleted |-> {}]

(* rows(): checkpoint rows without tombstones, then the inserted ones.     *)
Live(ckpt, ins, del) == (LiveRows(ckpt) \ del) \cup LiveRows(ins)

Listed(ckpt, ins, del) ==
    RowsOf([ckpt EXCEPT !.live = {i \in @ : ckpt.rows[i] \notin del}]) \o RowsOf(ins)

Init ==
    /\ checkpoint \in {Decoded(c.rows, c.unique) : c \in Checkpoints} \cup {Empty}
    /\ inserted = Empty /\ deleted = {} /\ count = 0
    /\ batch = NoBatch /\ work = Idle /\ outcome = "none"

-----------------------------------------------------------------------------
(* Queries.  Each segment has the filter's limit to itself; tombstones are *)
(* applied to what the checkpoint yielded.                                 *)

Query(f) == Yielded(inserted, f) \cup (Yielded(checkpoint, f) \ deleted)

HasReverseCandidates(f) == HasCandidates(inserted, f) \/ HasCandidates(checkpoint, f)

AnyResourceMatch(f) == Query(f) # {}

CheckPrecondition(pre) == (pre.kind = "mustMatch") <=> AnyResourceMatch(pre.filter)

-----------------------------------------------------------------------------
(* apply_mutations.                                                        *)

Submit ==
    /\ batch = NoBatch
    /\ \E b \in Batches : batch' = b
    /\ UNCHANGED <<checkpoint, inserted, deleted, count, work, outcome>>

(* Mutant: a batch may name a row twice.                                   *)
AdmittedRepeats ==
    /\ Len(batch.pres) <= MaxPreconditions
    /\ \A i \in 1..Len(batch.pres) : CheckPrecondition(batch.pres[i])
    /\ Len(batch.muts) <= MaxMutations

(* Mutant: the length of a batch is not checked.                           *)
AdmittedAnyLength ==
    /\ Len(batch.pres) <= MaxPreconditions
    /\ \A i \in 1..Len(batch.pres) : CheckPrecondition(batch.pres[i])
    /\ \A i, j \in 1..Len(batch.muts) : batch.muts[i].row = batch.muts[j].row => i = j

(* The checks made before anything is copied.                              *)
Admitted ==
    /\ Len(batch.pres) <= MaxPreconditions
    /\ \A i \in 1..Len(batch.pres) : CheckPrecondition(batch.pres[i])
    /\ Len(batch.muts) <= MaxMutations
    /\ \A i, j \in 1..Len(batch.muts) : batch.muts[i].row = batch.muts[j].row => i = j

Checking == batch # NoBatch /\ work.at = 0

Reply(o) == batch' = NoBatch /\ work' = Idle /\ outcome' = o

CheckFails ==
    /\ Checking /\ ~Admitted
    /\ Reply("refused")
    /\ UNCHANGED <<checkpoint, inserted, deleted, count>>

(* A batch without mutations returns a clone of the view.                  *)
NothingToDo ==
    /\ Checking /\ Admitted /\ batch.muts = <<>>
    /\ Reply("applied")
    /\ UNCHANGED <<checkpoint, inserted, deleted, count>>

(* ensure_checkpoint_mutation_ready scans the checkpoint for duplicates.   *)
NotReady ==
    /\ Checking /\ Admitted /\ batch.muts # <<>> /\ ~MutationReady(checkpoint)
    /\ Reply("refused")
    /\ UNCHANGED <<checkpoint, inserted, deleted, count>>

CopyDelta ==
    /\ Checking /\ Admitted /\ batch.muts # <<>> /\ MutationReady(checkpoint)
    /\ work' = [at |-> 1, inserted |-> inserted, deleted |-> deleted]
    /\ UNCHANGED <<checkpoint, inserted, deleted, count, batch, outcome>>

(* Mutant: a checkpoint without an identity index is not searched.         *)
LocationIndexOnly(row) ==
    IF Contains(work.inserted, row) THEN "inserted"
    ELSE IF Contains(checkpoint, row)
    THEN IF row \in work.deleted THEN "checkpointDeleted" ELSE "checkpointLive"
    ELSE "absent"

Location(row) ==
    IF Contains(work.inserted, row) THEN "inserted"
    ELSE IF Contains(EnsureUniqueness(checkpoint), row)
    THEN IF row \in work.deleted THEN "checkpointDeleted" ELSE "checkpointLive"
    ELSE "absent"

Applying == batch # NoBatch /\ work.at \in 1..Len(batch.muts)

Mut == batch.muts[work.at]

(* create_ and touch_delta_relationship differ on a row that is present.   *)
InsertDelta(present) ==
    \/ /\ Location(Mut.row) \in {"inserted", "checkpointLive"}
       /\ present
    \/ /\ Location(Mut.row) = "checkpointDeleted"
       /\ work' = [work EXCEPT !.at = @ + 1, !.deleted = @ \ {Mut.row}]
       /\ UNCHANGED <<batch, outcome>>
    \/ /\ Location(Mut.row) = "absent"
       /\ work' = [work EXCEPT !.at = @ + 1, !.inserted = Insert(@, Mut.row)]
       /\ UNCHANGED <<batch, outcome>>

CreateDelta ==
    /\ Applying /\ Mut.kind = "create"
    /\ InsertDelta(Reply("refused"))
    /\ UNCHANGED <<checkpoint, inserted, deleted, count>>

TouchDelta ==
    /\ Applying /\ Mut.kind = "touch"
    /\ InsertDelta(work' = [work EXCEPT !.at = @ + 1] /\ UNCHANGED <<batch, outcome>>)
    /\ UNCHANGED <<checkpoint, inserted, deleted, count>>

DeleteDelta ==
    /\ Applying /\ Mut.kind = "delete"
    /\ \/ /\ Location(Mut.row) = "inserted"
          /\ work' = [work EXCEPT !.at = @ + 1, !.inserted = Delete(@, Mut.row)]
          /\ UNCHANGED <<batch, outcome>>
       \/ /\ Location(Mut.row) = "checkpointLive"
          /\ work' = [work EXCEPT !.at = @ + 1, !.deleted = @ \cup {Mut.row}]
          /\ UNCHANGED <<batch, outcome>>
       \/ /\ Location(Mut.row) \in {"checkpointDeleted", "absent"}
          /\ Reply("refused")
    /\ UNCHANGED <<checkpoint, inserted, deleted, count>>

(* Mutant: the mutation threshold is exclusive.                            *)
ShouldCheckpointLate(n, del) ==
    n > MaxDeltaMutations \/ Cardinality(del) >= MaxDeltaTombstones

(* The new view; canonical_store copies rows() into a fresh checkpoint.    *)
ShouldCheckpoint(n, del) == n >= MaxDeltaMutations \/ Cardinality(del) >= MaxDeltaTombstones

Install(n, ins, del) ==
    IF ShouldCheckpoint(n, del)
    THEN /\ checkpoint' = StoreOf(Listed(checkpoint, ins, del))
         /\ inserted' = Empty /\ deleted' = {} /\ count' = 0
    ELSE /\ checkpoint' = EnsureUniqueness(checkpoint)
         /\ inserted' = ins /\ deleted' = del /\ count' = n

Publish ==
    /\ batch # NoBatch /\ work.at = Len(batch.muts) + 1
    /\ Install(count + Len(batch.muts), work.inserted, work.deleted)
    /\ Reply("applied")

(* The rows of a list, each where it comes first.                          *)
FirstOfEach(list) ==
    LET first == Ordered({i \in 1..Len(list) : \A j \in 1..i - 1 : list[j] # list[i]})
    IN  [k \in 1..Len(first) |-> list[first[k]]]

(* A change of the schema touches the rows one by one into a new           *)
(* checkpoint; a row that was loaded twice is kept once.                   *)
Revalidate ==
    /\ batch = NoBatch
    /\ checkpoint' = StoreOf(FirstOfEach(Listed(checkpoint, inserted, deleted)))
    /\ inserted' = Empty /\ deleted' = {} /\ count' = 0
    /\ UNCHANGED <<batch, work, outcome>>

Next ==
    \/ Revalidate
    \/ Submit \/ CheckFails \/ NothingToDo \/ NotReady \/ CopyDelta
    \/ CreateDelta \/ TouchDelta \/ DeleteDelta \/ Publish

Spec == Init /\ [][Next]_vars

-----------------------------------------------------------------------------
(* Types.  A tombstone names a row, the batch at work is one a writer may  *)
(* submit and no longer than allowed.                                      *)
TypeOK ==
    /\ checkpoint \in Store
    /\ inserted \in Store
    /\ deleted \in SUBSET Relationships
    /\ count \in Nat
    /\ batch \in Batches \cup {NoBatch}
    /\ work \in [at : 0..MaxMutations + 1, inserted : Store, deleted : SUBSET Relationships]
    /\ outcome \in {"none", "applied", "refused"}

(* The indexes of a segment say what its slots say: each row is posted     *)
(* once, in slot order, under each of its keys, and the identity index     *)
(* holds each live slot once, under its hash, whichever of several rows    *)
(* with one hash were removed before.                                      *)
Indexed(s) ==
    /\ \A k \in Keys : s.postings[k] = Ordered({i \in 1..Len(s.rows) : k \in KeysOf[s.rows[i]]})
    /\ s.unique = "ready" => \A h \in Hashes :
           LET held == IF s.primary[h] = 0 THEN s.collisions[h]
                       ELSE <<s.primary[h]>> \o s.collisions[h]
           IN  /\ IsInjective(held)
               /\ Range(held) = {i \in s.live : HashOf[s.rows[i]] = h}
               /\ s.primary[h] = 0 => held = <<>>

(* The indexes of every segment are exact, also in the copies a batch is   *)
(* working on (relationship.rs RelationshipIdentityIndex, PostingIndex).   *)
IndexesAgree == Indexed(checkpoint) /\ Indexed(inserted) /\ Indexed(work.inserted)

OverlayDisjoint(ins, del) ==
    /\ Unique(ins)
    /\ LiveRows(ins) \cap LiveRows(checkpoint) = {}
    /\ del \subseteq LiveRows(checkpoint)

(* Rows are stored once: the overlay's rows are not in the checkpoint, a   *)
(* tombstone always has its row there, no segment holds a row twice, also  *)
(* in the copies a batch is working on.  Without this a row could be       *)
(* listed twice, or come back when its second copy survives a delete       *)
(* (relationship.rs relationship_location, apply_delta_mutation).          *)
StoredOnce ==
    /\ OverlayDisjoint(inserted, deleted)
    /\ work.at # 0 => OverlayDisjoint(work.inserted, work.deleted)
    /\ count > 0 \/ work.at # 0 => Unique(checkpoint)

(* The overlay readers scan stays bounded: at most one slot, dead ones     *)
(* included, or tombstone per counted mutation, fewer than the limit,      *)
(* however creates, touches and deletes of the same rows alternate         *)
(* (relationship.rs should_checkpoint).                                    *)
OverlayBounded ==
    /\ Len(inserted.rows) + Cardinality(deleted) <= count
    /\ count < MaxDeltaMutations
    /\ Cardinality(deleted) < MaxDeltaTombstones

(* A query whose limit is no smaller than what it matches in either        *)
(* segment sees exactly the live rows it matches, in whatever split        *)
(* between checkpoint, overlay, dead slots and tombstones they are, and a  *)
(* userset without candidates has none (relationship.rs                    *)
(* StoreViewCompactIter, has_reverse_subject_candidates).                  *)
QueryExact ==
    \A f \in Filters :
        LET matching == f.rows \cap Live(checkpoint, inserted, deleted)
            Fits(s) == f.limit >= Cardinality(f.rows \cap LiveRows(s))
        IN  /\ Fits(inserted) /\ Fits(checkpoint) /\ Unique(checkpoint) => Query(f) = matching
            /\ ~HasReverseCandidates(f) => matching = {}

Set == INSTANCE RelationSet
    WITH rows <- Live(checkpoint, inserted, deleted), writable <- Unique(checkpoint)

(* The limits of the filters of preconditions are no smaller than what     *)
(* they can match.                                                         *)
WidePreconditions ==
    \A b \in Batches : \A i \in 1..Len(b.pres) :
        LET f == b.pres[i].filter
        IN  IsFiniteSet(f.rows) /\ f.limit >= Cardinality(f.rows)

(* The view implements a set of rows with atomic batches: no batch is      *)
(* applied in part, none is refused without reason, and folding the        *)
(* overlay into a new checkpoint, or revalidating the rows, changes none.  *)
ImplementsSet == Set!Spec

-----------------------------------------------------------------------------
(* What the documents say of preconditions, and the query limit breaks:    *)
(* it is counted on checkpoint rows before tombstones are taken away.      *)

(* "`MustNotMatch`: succeeds when no relationship matches the filter"      *)
(* (specs/12), "No relationships may match" (relationship.rs): a batch     *)
(* that gets past its preconditions got past them on the rows of the view. *)
MustNotMatchHolds ==
    Checking /\ Admitted =>
        \A i \in 1..Len(batch.pres) : batch.pres[i].kind = "mustNotMatch" =>
            batch.pres[i].filter.rows \cap Live(checkpoint, inserted, deleted) = {}

=============================================================================
