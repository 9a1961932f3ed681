SPECIFICATION Spec
CONSTANTS
  r1 = r1
  r2 = r2
  r3 = r3
  Relationships = {r1, r2, r3}
  KeysOf <- MCKeysOf
  HashOf <- OneHash
  Checkpoints <- Fresh
  Batches <- GuardedBatches
  Filters <- LimitedFilters
  MaxMutations = 2
  MaxPreconditions = 1
  MaxDeltaMutations = 4
  MaxDeltaTombstones = 2
  NoBatch = NoBatch
INVARIANTS MustNotMatchHolds
