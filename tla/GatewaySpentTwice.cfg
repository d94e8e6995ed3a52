CONSTANTS
    None = None
    alice = alice
    bob = bob
    write = write
    read = read
    v1 = v1
    v2 = v2
    self = self
    Requests = {r1, r2, r3}
    Decisions = {d1, d2}
    Keys = {}
    Payloads = {write}
    Versions = {v1}
    Principals = {alice, bob}
    Subject <- MCSubject
    Approver <- MCApprover
    ReadOnly = {}
    Effects <- MCEffects
    Events = {}

SPECIFICATION Spec
INVARIANT ApprovalSpentOnce
SYMMETRY Interchangeable
CHECK_DEADLOCK FALSE
