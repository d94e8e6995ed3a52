CONSTANTS
    None = None
    alice = alice
    bob = bob
    write = write
    read = read
    v1 = v1
    v2 = v2
    self = self
    Requests = {r1, r2}
    Decisions = {d1, self}
    Keys = {}
    Payloads = {write}
    Versions = {v1, v2}
    Principals = {alice, bob}
    Subject <- MCSubject
    Approver <- MCApprover
    ReadOnly = {}
    Effects <- MCEffects
    Events = {"revoke", "expire", "activate"}

SPECIFICATION Spec
INVARIANT ApprovalCoversExecution
INVARIANT DecisionCoversExecution
PROPERTY OvertakenWritesAreFenced
CHECK_DEADLOCK FALSE
