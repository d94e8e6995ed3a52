\* Two deliveries that overlap in every way, over what an earlier one has brought.
SPECIFICATION FairSpec
CONSTANTS
    None = None
    okta = okta
    sap = sap
    entra = entra
    ldap = ldap
    here = here
    there = there
    joins = joins
    owns = owns
    mine = mine
    adds = adds
    uses = uses
    roots = roots
    k1 = k1
    Sources = {okta, sap, entra, ldap}
    Versioned = {entra}
    Relationships = {joins, owns, mine, adds, uses, roots}
    Calls = {c1, c2}
    Keys = {k1}
    MaxAge = 0
    MaxBatch = 2
    MaxClock = 2
    Retired = {okta}
    TenantOf <- MCTenantOf
    Namespace <- MCNamespace
    Nodes <- MCNodes
    Existing <- MCExisting
    Ends <- MCEnds
    Requests <- MCRequests
    Tokens <- MCTokens
    Settings <- MCSettings
INVARIANTS
    AppliedOnce
    OneRowUnlessRaced
    SourcesKeepToTheirOwn
    PrincipalsAreVouchedFor
PROPERTIES
    EveryDeliveryEnds
CHECK_DEADLOCK FALSE
