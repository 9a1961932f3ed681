SPECIFICATION Spec
CONSTANTS
  Objects <- MCObjects
  RelationNames <- MCRelations
  NoRelation = NoRelation
  Parts <- MCParts
  Snapshots <- GroupSnapshots
  Subjects <- Alice
  Roots <- Candidates
  Depths = {12}
  MaxFanout = 2
  MemoCapacity = 3
  NoRequest = NoRequest
INVARIANTS MemoTransparent
