------------------------------ MODULE MCFeedback ------------------------------
(* An instance of Feedback for TLC. *)
EXTENDS Feedback, TLC

CONSTANTS t1, t2

\* The same subject and action, seen in two tenants.
MCTopics == [kind : {"repeated_denials"}, about : {{"alice:stop"}}, tenant : Tenants]

\* A wildcard, and an action by its own name.
MCCovers == [p \in Patterns |-> IF p = "ec2:describe*" THEN {"ec2:describe"} ELSE {p} \cap ApiCalls]

Interchangeable == Permutations(Runs) \cup Permutations(Deciders)
=============================================================================
