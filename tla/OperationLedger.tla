--------------------------- MODULE OperationLedger ---------------------------
(***************************************************************************)
(* What the durable Execution rows promise, apart from how requests are    *)
(* served: an operation key is claimed by one attempt for good, its claim  *)
(* is durable before anything is done, at most one change is made for it   *)
(* and only by the attempt that owns it, and its outcome is written once   *)
(* and says "succeeded" only of a change that was made.                    *)
(***************************************************************************)
CONSTANTS Ops, Attempts, None

VARIABLES
    state,  \* state[o]: absent, authorized, running, succeeded, outcome_unknown
    owner,  \* owner[o]: the attempt that claimed o, or None
    acted   \* acted[o]: the attempts whose change for o was made

ledger == <<state, owner, acted>>

Init ==
    /\ state = [o \in Ops |-> "absent"]
    /\ owner = [o \in Ops |-> None]
    /\ acted = [o \in Ops |-> {}]

\* The first attempt to commit its intent owns the operation.
Claim(o) ==
    /\ state[o] = "absent" /\ state'[o] = "authorized"
    /\ owner'[o] \in Attempts
    /\ acted'[o] = acted[o]

Begin(o) ==
    /\ state[o] = "authorized" /\ state'[o] = "running"
    /\ owner'[o] = owner[o]
    /\ acted'[o] = acted[o]

\* The owner's change, which may still arrive after the outcome is given up on.
Act(o) ==
    /\ state[o] \in {"running", "outcome_unknown"}
    /\ acted[o] = {} /\ acted'[o] = {owner[o]}
    /\ owner'[o] = owner[o]
    /\ state'[o] = state[o]

Succeed(o) ==
    /\ state[o] = "running" /\ state'[o] = "succeeded"
    /\ acted[o] # {}
    /\ owner'[o] = owner[o]
    /\ acted'[o] = acted[o]

GiveUp(o) ==
    /\ state[o] \in {"authorized", "running"} /\ state'[o] = "outcome_unknown"
    /\ owner'[o] = owner[o]
    /\ acted'[o] = acted[o]

Same(o) ==
    /\ state'[o] = state[o]
    /\ owner'[o] = owner[o]
    /\ acted'[o] = acted[o]

\* Operations are independent: one step may move several, as recovery does.
Next ==
    \A o \in Ops : Claim(o) \/ Begin(o) \/ Act(o) \/ Succeed(o) \/ GiveUp(o) \/ Same(o)

Spec == Init /\ [][Next]_ledger
==============================================================================
