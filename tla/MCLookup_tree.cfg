SPECIFICATION Spec
CONSTANTS
  Objects <- MCObjects
  RelationNames <- MCRelations
  NoRelation = NoRelation
  Parts <- MCParts
  Snapshots <- TreeSnapshots
  Requests <- TreeRequests
  Users <- MCUsers
  Depths = {12}
  MaxFanout = 2
  MemoCapacity = 3
  MaxResults = 2
  SampleSize = 2
  MinPruned = 1
  NoRequest = NoRequest
INVARIANT LookupComplete
