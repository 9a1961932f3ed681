----------------------------- MODULE RelationSet -----------------------------
(***************************************************************************)
(* What a relationship store promises its writer: it is a set of rows, and *)
(* a batch of mutations with preconditions is applied to it as a whole or  *)
(* refused as a whole (src/src/relationship.rs, the doc comments of        *)
(* RelationshipMutation and Precondition).  No checkpoint, no overlay, no  *)
(* order of rows, no query limit.                                          *)
(***************************************************************************)
EXTENDS Naturals, Sequences

CONSTANTS Relationships,      \* rows `object#relation@subject`
          Batches,            \* batches a writer may submit
          MaxMutations,       \* MAX_MUTATIONS_PER_BATCH
          MaxPreconditions,   \* MAX_PRECONDITIONS_PER_BATCH
          NoBatch

VARIABLES rows,       \* the stored relationships
          writable,   \* FALSE: loaded without validation, and holding duplicates
          batch,      \* the batch being decided
          outcome     \* what became of the previous one

vars == <<rows, writable, batch, outcome>>

Targets(muts, kinds) == {muts[i].row : i \in {j \in 1..Len(muts) : muts[j].kind \in kinds}}

(* MustMatch: some stored row matches.  MustNotMatch: none does.           *)
Holds(R, pre) == (pre.kind = "mustMatch") <=> (pre.filter.rows \cap R # {})

Legal(R, b) ==
    /\ Len(b.pres) <= MaxPreconditions
    /\ Len(b.muts) <= MaxMutations
    /\ \A i \in 1..Len(b.pres) : Holds(R, b.pres[i])
    /\ \A i, j \in 1..Len(b.muts) : b.muts[i].row = b.muts[j].row => i = j
    /\ Targets(b.muts, {"create"}) \cap R = {}
    /\ Targets(b.muts, {"delete"}) \subseteq R
    /\ writable \/ b.muts = <<>>

Effect(R, muts) == (R \cup Targets(muts, {"create", "touch"})) \ Targets(muts, {"delete"})

Init ==
    /\ rows \in SUBSET Relationships
    /\ writable \in BOOLEAN
    /\ batch = NoBatch
    /\ outcome = "none"

Submit ==
    /\ batch = NoBatch
    /\ \E b \in Batches : batch' = b
    /\ UNCHANGED <<rows, writable, outcome>>

Apply ==
    /\ batch # NoBatch
    /\ Legal(rows, batch)
    /\ rows' = Effect(rows, batch.muts)
    /\ batch' = NoBatch
    /\ outcome' = "applied"
    /\ UNCHANGED writable

Refuse ==
    /\ batch # NoBatch
    /\ ~Legal(rows, batch)
    /\ batch' = NoBatch
    /\ outcome' = "refused"
    /\ UNCHANGED <<rows, writable>>

(* A change of the schema that every row survives: a copy without          *)
(* duplicates takes the place of the store.                                *)
Revalidate ==
    /\ batch = NoBatch
    /\ writable' = TRUE
    /\ UNCHANGED <<rows, batch, outcome>>

Next == Submit \/ Apply \/ Refuse \/ Revalidate

Spec == Init /\ [][Next]_vars
=============================================================================
