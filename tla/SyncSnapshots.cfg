CONSTANTS
    None = None
    directory = directory
    grants = grants
    user = user
    asset = asset
    access = access
    MaxSeq = 4
    Sources = {directory}
    Objects = {user}
    Relationships = {}
    Home <- MCHome
    Ends <- MCEnds
    Foreign <- MCForeign
    Capabilities <- Everything
    SnapshotIds = {"live", "run"}
    Traffic <- SnapshotTraffic
    Deliveries = {d1, d2}
    Traversable = {}
    Legacy = {}
    Platform = {}

SPECIFICATION Spec
INVARIANT ReceiptsAreThePrefix
INVARIANT NoOrphanGeneration
PROPERTY ImplementsInventory
SYMMETRY Interchangeable
CHECK_DEADLOCK FALSE
