SPECIFICATION Spec
CONSTANTS
  r1 = r1
  r2 = r2
  r3 = r3
  Relationships = {r1, r2, r3}
  KeysOf <- MCKeysOf
  HashOf <- OneHash
  Checkpoints <- Loaded
  Batches <- AllBatches
  Filters <- WideFilters
  MaxMutations = 2
  MaxPreconditions = 1
  MaxDeltaMutations = 4
  MaxDeltaTombstones = 2
  NoBatch = NoBatch
INVARIANTS TypeOK IndexesAgree StoredOnce OverlayBounded QueryExact
PROPERTIES ImplementsSet
