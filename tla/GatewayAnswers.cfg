CONSTANTS
    None = None
    alice = alice
    bob = bob
    write = write
    read = read
    v1 = v1
    v2 = v2
    self = self
    Requests = {r1, r2}
    Decisions = {d1, d2}
    Keys = {k1}
    Payloads = {write, read}
    Versions = {v1}
    Principals = {alice, bob}
    Subject <- MCSubject
    Approver <- MCApprover
    ReadOnly = {read}
    Effects <- MCEffects
    Events = {}

SPECIFICATION FairSpec
PROPERTY AttemptsEnd
CHECK_DEADLOCK FALSE
