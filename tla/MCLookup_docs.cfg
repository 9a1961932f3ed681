SPECIFICATION Spec
CONSTANTS
  Objects <- MCObjects
  RelationNames <- MCRelations
  NoRelation = NoRelation
  Parts <- MCParts
  Snapshots <- DocSnapshots
  Requests <- DocRequests
  Users <- MCUsers
  Depths = {1, 12}
  MaxFanout = 2
  MemoCapacity = 3
  MaxResults = 2
  SampleSize = 2
  MinPruned = 1
  NoRequest = NoRequest
INVARIANTS TypeOK ResourcesSound ResourcesComplete SubjectsExact ExpandExact
PROPERTIES SearchAdvances
