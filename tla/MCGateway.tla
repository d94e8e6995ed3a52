----------------------------- MODULE MCGateway -----------------------------
(* Instances of Gateway for TLC. *)
EXTENDS Gateway, TLC

CONSTANTS alice, bob,      \* requester and approver
          write, read,     \* payloads
          v1, v2,          \* policy versions
          self             \* a decision call by the requester

\* Every payload is alice's and every decision bob's, but for one that alice
\* makes herself.
MCSubject == [p \in Payloads |-> alice]
MCApprover == [d \in Decisions |-> IF d = self THEN alice ELSE bob]

\* v1 wants an approval for everything, v2 allows it; both deny without a path.
MCEffects ==
    [v \in Versions |-> [p \in Payloads |-> [path \in BOOLEAN |->
        IF ~path THEN {"deny", "allow"}
        ELSE IF v = v1 THEN {"require_approval", "allow"}
        ELSE {"allow"}]]]

\* Attempts that follow the same path are interchangeable; so are decisions.
Interchangeable == Permutations(Requests) \cup Permutations(Decisions)
=============================================================================
