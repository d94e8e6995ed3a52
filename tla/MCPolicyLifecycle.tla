-------------------------- MODULE MCPolicyLifecycle --------------------------
(* Instances of PolicyLifecycle for TLC. *)
EXTENDS PolicyLifecycle, TLC

CONSTANT standard  \* the default version

\* The versions an administrator proposes are interchangeable, and so are calls.
Interchangeable == Permutations(Versions \ {standard}) \cup Permutations(Calls)
=============================================================================
