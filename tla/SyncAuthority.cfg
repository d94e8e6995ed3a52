CONSTANTS
    None = None
    directory = directory
    grants = grants
    user = user
    asset = asset
    access = access
    MaxSeq = 3
    Sources = {directory, grants}
    Objects = {user, asset}
    Relationships = {access}
    Home <- MCHome
    Ends <- MCEnds
    Foreign <- MCForeign
    Capabilities <- ChangesOnly
    SnapshotIds = {}
    Traffic <- GrantTraffic
    Deliveries = {d1, d2}
    Traversable = {access}
    Legacy = {grants}
    Platform = {grants}

SPECIFICATION Spec
INVARIANT GraphFollowsFacts
INVARIANT AuthorityHasEvidence
SYMMETRY Interchangeable
CHECK_DEADLOCK FALSE
