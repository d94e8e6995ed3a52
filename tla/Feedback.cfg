\* Two analyzer runs and two decisions.
SPECIFICATION Spec
CONSTANTS
    None = None
    t1 = t1
    t2 = t2
    Tenants = {t1, t2}
    Patterns = {"ec2:describe*", "ec2:stop"}
    ApiCalls = {"ec2:describe"}
    Runs = {r1, r2}
    Deciders = {d1, d2}
    Threshold = 2
    Topics <- MCTopics
    Covers <- MCCovers
INVARIANTS
    RecommendedOnceUnlessRaced
    RowFollowsTheChain
    DecidedOnceUnlessRaced
SYMMETRY Interchangeable
CHECK_DEADLOCK FALSE
