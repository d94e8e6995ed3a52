----------------------------- MODULE MCAuditChain -----------------------------
(* Instances of AuditChain for TLC. *)
EXTENDS AuditChain, TLC

CONSTANTS w1, w2, w3,  \* writers
          first, second\* processes

\* Two writers share a process.
MCProcess == [w \in Writers |-> IF w = w3 THEN second ELSE first]

Interchangeable == Permutations({w1, w2}) \cup Permutations(Anchorers)
=============================================================================
