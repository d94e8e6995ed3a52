--------------------------- MODULE MCConnectorSync ---------------------------
(* Instances of ConnectorSync for TLC. *)
EXTENDS ConnectorSync, TLC

CONSTANTS directory, grants,   \* an identity source and a source of grants
          user, asset,         \* an object of each
          access,              \* the grant from user to asset, asserted by grants
          MaxSeq               \* bound: messages of a source

MCHome == [o \in Objects |-> IF o = user THEN directory ELSE grants]
MCEnds == [r \in Relationships |-> {user, asset}]
MCForeign == [s \in Sources |-> IF s = grants THEN {directory} ELSE {}]
Everything == [s \in Sources |-> {"changes", "snapshot"}]
ChangesOnly == [s \in Sources |-> {"changes"}]

Seen(t) == [at |-> t, plain |-> TRUE]
Says(k, e) == [Empty EXCEPT ![k] = e]
Nothing == [seq |-> 1, op |-> "delta", snap |-> None, puts |-> Empty, tombs |-> {},
            complete |-> FALSE]

\* One source, one object seen at two times: every operation, the identifiers
\* collectors choose, complete and partial coverage.
Snapshot(n) ==
    UNION {{[Nothing EXCEPT !.seq = n, !.op = "begin", !.snap = g],
            [Nothing EXCEPT !.seq = n, !.op = "page", !.snap = g, !.puts = Says(user, Seen(1))],
            [Nothing EXCEPT !.seq = n, !.op = "complete", !.snap = g, !.complete = TRUE],
            [Nothing EXCEPT !.seq = n, !.op = "abort", !.snap = g]} : g \in SnapshotIds}

Changes(n) ==
    {[Nothing EXCEPT !.seq = n, !.puts = Says(user, Seen(1))],
     [Nothing EXCEPT !.seq = n, !.puts = Says(user, Seen(2))],
     [Nothing EXCEPT !.seq = n, !.tombs = {user}]}

SnapshotTraffic == UNION {Snapshot(n) \cup Changes(n) : n \in 1 .. MaxSeq}

\* Two sources that only send changes: the user comes and goes; the grant is
\* made, and then renewed, made conditional or withdrawn.
Grant(n, e) == [Nothing EXCEPT !.seq = n, !.puts = [Says(asset, Seen(1)) EXCEPT ![access] = e]]

GrantTraffic ==
    UNION {{[Nothing EXCEPT !.seq = n, !.puts = Says(user, Seen(1))],
            [Nothing EXCEPT !.seq = n, !.tombs = {user}]} : n \in 1 .. MaxSeq}
    \cup {Grant(1, Seen(1)), Grant(2, Seen(2)), Grant(2, [at |-> 1, plain |-> FALSE]),
          [Nothing EXCEPT !.seq = 2, !.tombs = {access}]}

Interchangeable == Permutations(Deliveries)
=============================================================================
