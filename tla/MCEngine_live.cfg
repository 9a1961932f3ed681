SPECIFICATION FairSpec
CONSTANTS
  Clients = {c1, c2, c3}
  c1 = c1
  c2 = c2
  c3 = c3
  QueueCapacity = 1
  NoCall = NoCall
  Namespaces = {"doc", "group"}
  RelationNames = {"viewer", "member"}
  Rewrites <- MCRewrites
  Relationships <- MCRelationships
  SchemaHash <- MCHash
  Hashes <- MCHashes
  Commands <- QueueCommands
  Requests <- LatestOnly
  Files <- NoFiles
  Retained = 2
  ImportBatch = 1
  MaxRevision = 1
  Malformed = Malformed
  NoSnapshot = NoSnapshot
  Direct = Direct
PROPERTIES QueuedWritesReturn DropTerminates
