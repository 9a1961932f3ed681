SPECIFICATION Spec
CONSTANTS
  Objects <- MCObjects
  RelationNames <- MCRelations
  NoRelation = NoRelation
  Parts <- MCParts
  Snapshots <- AllSnapshots
  Subjects <- MCSubjects
  Roots <- AllRoots
  Depths = {3, 16}
  MaxFanout = 2
  MemoCapacity = 3
  NoRequest = NoRequest
INVARIANTS TypeOK CheckExact MemoExactWithoutCycles CyclesNeedNoDepth StepsAgree
