\* Two runs of one collector over a directory that changes, a network that
\* loses requests and answers, collectors and handlers that die.
SPECIFICATION FairDelivery
CONSTANTS
    entra = entra
    user = user
    group = group
    member = member
    None = None
    Sources = {entra}
    Objects = {user, group}
    Relationships = {member}
    Groups = {group}
    SnapshotIds = {r1, r2}
    Deliveries = {d1, d2}
    Traversable = {member}
    Platform = {entra}
    Legacy = {}
    Attempts = 2
    MaxChanges = 1
    MaxFaults = 2
    MaxSeq = 10
    Home <- MCHome
    Ends <- MCEnds
    GroupOf <- MCGroupOf
    Foreign <- MCForeign
    Capabilities <- SnapshotOnly
    Traffic <- MCTraffic
INVARIANTS
    OnlyTheRetainedIsInDoubt
    PublishedIsOneRun
    AnUndisturbedRunIsExact
    MembershipsHaveEnds
PROPERTIES
    CollectorsProgress
CHECK_DEADLOCK FALSE
