CONSTANTS
    None = None
    Absent = Absent
    Null = Null
    Bad = Bad
    Unknown = Unknown
    PartNames = {"volume", "secret", "reader", "inventory", "profile", "scanner",
                 "segments", "disclosure", "census", "zip", "fragments"}
    Procs = {1, 2}
    Codes = {"c", "d"}
    Versions = {"v", "w"}
    Runners = {"r", "s"}
    MaxCrashes = 1
    MaxStarts = 3
    Slots = {1, 2}
    FirstKeys = {0}
    Tokens <- MCTokens
    MaxInvocations = 4
    Size = 3
    Window = 2
    Sources = {"version", "etag", "bridge"}
    Pin = 1
    LastGen = 2
    MaxCalls = 3
    Files <- MCFiles
    Scans = {1, 2}
    MaxBlocks = 2
    MaxWrites = 1
    MaxScans = 2
    Cols = {"a", "b"}
    Rows <- MCRows
    Infer <- MCInfer
    SchemaKind <- MCSchemaKind
    Sample = 2
    Limits = {1, 2}
    Drops = {{}, {"b"}}
    MaxRows = 3
    Listings <- MCListings
    Cells = {"1", "1.5", "PK", Null}
    CellKind <- MCCellKind
    Magic = "PK"
    FirstBlocks = 1
    Permission = j1
    Req = {r1, r2, r3}
    Ordered = ordered
    PayloadSize = 5
    ServeLimit = 1
    Isolated = 1
SYMMETRY RequestSymmetry
SPECIFICATION MCSpec
INVARIANTS SegmentsExact CoverageBounded ReadsPinnedBytes IdentityKept InventoryCurrent
    DescribesEveryRow SmallCountsHidden FactsOfOneContent CensusExact
\* Every part may come to its end.
CHECK_DEADLOCK FALSE
