\* Every document over five rules, every request, both backends and runners.
SPECIFICATION FairSpec
CONSTANTS
    Documents <- MCDocuments
    Asks <- MCAsks
    Skews <- MCSkews
    DefaultTtl = 3
    MinSession = 2
    Slack = 1
    MaxClock = 5
INVARIANTS
    IssuedWithinPolicy
    CredentialsDieWithTheGrant
    AnsweredJobsAreStopped
PROPERTIES
    RevocationHolds
    RequestEnds
CHECK_DEADLOCK FALSE
