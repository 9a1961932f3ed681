SPECIFICATION Spec
CONSTANTS
    Names <- MCNames
    NoName = "-"
    HashValue <- MCHashValue
    FieldNames <- MCFieldNames
    ByteBase = 4
    Savers = {"s1", "s2"}
    Loaders = {"l"}
    ProcessOf <- MCProcessOf
    Published <- MCPublished
    Foreign <- MCForeign
    SaveOptions <- MCSaveOptions
    LoadOptions <- MCLoadOptions
    Levels = {3}
    Inodes = {1, 2, 3, 4, 5}
    MaxSaves = 2
INVARIANTS TypeOK LoadedWasSaved SavedLoads FullLoadExact
PROPERTY SavesAreAtomic
