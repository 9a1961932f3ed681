SPECIFICATION Spec
CONSTANTS
  Clients = {c1, c2}
  c1 = c1
  c2 = c2
  c3 = c3
  QueueCapacity = 1
  NoCall = NoCall
  Namespaces = {"doc", "group"}
  RelationNames = {"viewer", "member"}
  Rewrites <- MCRewrites
  Relationships <- MCRelationships
  SchemaHash <- MCHash
  Hashes <- MCHashes
  Commands <- RaceCommands
  Requests <- RaceRequests
  Files <- NoFiles
  Retained = 2
  ImportBatch = 1
  MaxRevision = 4
  Malformed = Malformed
  NoSnapshot = NoSnapshot
  Direct = Direct
INVARIANTS ReadYourWrites EveryWriteHeldOnce ShutdownDelivered
PROPERTIES Linearizable HeadAdvances
