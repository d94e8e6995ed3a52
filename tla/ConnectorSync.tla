---------------------------- MODULE ConnectorSync ----------------------------
(***************************************************************************)
(* The control plane's side of connector synchronisation: sync.py as the   *)
(* handler POST /relationship-sources/{id}/sync runs it, in threads of     *)
(* several processes over one PostgreSQL database in READ COMMITTED.       *)
(*                                                                         *)
(* A delivery is one call of apply_message.  Its steps are what happens    *)
(* between two points where another transaction can come in: the receipt   *)
(* is looked up, the connector row is read, the compare-and-swap on its    *)
(* sequence takes the row's lock and everything after it runs under that   *)
(* lock, the commit publishes.  The variables connector, facts, receipts   *)
(* and graph hold COMMITTED rows.  What a delivery has written and not     *)
(* committed follows from its message and the rows its lock protects, but  *)
(* for the edges it projects, which also depend on other sources' nodes:   *)
(* they are kept in its job.                                               *)
(*                                                                         *)
(* A delivery that is answered from a receipt, or refused because its      *)
(* sequence number has one with another digest (143-155), changes nothing. *)
(***************************************************************************)
EXTENDS SyncMessages

CONSTANTS
    Deliveries,    \* calls of apply_message under way at a time
    Traversable,   \* relationships whose relation transfers authority
    Platform,      \* sources whose manifest declares platform_relations
    Legacy         \* sources whose collectors also call POST .../ingest

ASSUME ProjectionAssumption ==
    /\ Traversable \subseteq Relationships
    /\ Platform \subseteq Sources
    /\ Legacy \subseteq Sources

VARIABLES
    connector,  \* ConnectorState rows
    facts,      \* ConnectorFact rows by source and generation
    receipts,   \* ConnectorReceipt rows: the messages accepted
    graph,      \* nodes and edges projected from each source
    job,        \* job[d]: the local state of delivery d
    ingesting,  \* the batch of each source that is past its check of the connector
    legacy,     \* edges that batches have left, each beside nodes of its own
    swept       \* history: sources that have published, from the DELETE on, when
                \* no batch was under way

vars == <<connector, facts, receipts, graph, job, ingesting, legacy, swept>>

rows == <<connector, facts, receipts, graph>>
batches == <<ingesting, legacy, swept>>

-----------------------------------------------------------------------------
(* Data *)

\* Rows are staged under the snapshot's identifier and live under "live".
Generations == SnapshotIds \cup {"live"}

ConnectorRow == [registered : BOOLEAN, seq : Nat, open : SnapshotIds \cup {None}]
Projection == [nodes : SUBSET Objects, edges : SUBSET Relationships]
Delivery == [at : {"idle", "looked", "read", "applied"}, source : Sources \cup {None},
             msg : Traffic \cup {None}, seen : ConnectorRow \cup {None},
             edges : SUBSET Relationships, found : SUBSET Relationships, last : BOOLEAN]

Unregistered == [registered |-> FALSE, seq |-> 0, open |-> None]
Idle == [at |-> "idle", source |-> None, msg |-> None, seen |-> None, edges |-> {},
         found |-> {}, last |-> FALSE]

\* The lock of a connector row is held from the UPDATE to the commit.
Locked(s) == \E d \in Deliveries : job[d].at = "applied" /\ job[d].source = s

\* The receipt a sequence number already has.
Receipted(s, n) == \E m \in receipts[s] : m.seq = n

\* The operations that end in _project.
PublishesOnComplete(m) == m.op = "complete"
Publishes(m) == m.op \in {"complete", "delta"}

\* abort: the rows staged for the snapshot are deleted.
DiscardNothing(s, g) == facts[s]
Discard(s, g) == [facts[s] EXCEPT ![g] = Empty]

\* complete: the live rows are deleted and the staged ones renamed.
PromoteMerging(s, g) ==
    [facts[s] EXCEPT !["live"] = Upsert(@, facts[s][g]), ![g] = Empty]
Promote(s, g) == [facts[s] EXCEPT !["live"] = facts[s][g], ![g] = Empty]

\* What the facts of s are once m is applied to them.
Applied(s, m) ==
    CASE m.op = "begin" -> facts[s]
      [] m.op = "page" -> [facts[s] EXCEPT ![m.snap] = Upsert(@, m.puts)]
      [] m.op = "complete" -> Promote(s, m.snap)
      [] m.op = "abort" -> Discard(s, m.snap)
      [] m.op = "delta" -> [facts[s] EXCEPT !["live"] = Upsert(Retract(@, m.tombs), m.puts)]

OpenAfter(m) == IF m.op \in {"begin", "page"} THEN m.snap ELSE None

\* The checks between the compare-and-swap and the writes.  `open` is the
\* snapshot the row held when it was READ, before the lock.
Acceptable(s, m, open) ==
    /\ Entitled(s, m)
    /\ m.snap # "live"
    /\ CASE m.op = "begin" -> open = None /\ facts[s][m.snap] = Empty
         [] m.op = "page" -> open = m.snap /\ NotOlder(facts[s][m.snap], m.puts)
         [] m.op = "complete" -> open = m.snap /\ m.complete
         [] m.op = "abort" -> open = m.snap
         [] m.op = "delta" -> open = None
                              /\ NotOlder(Retract(facts[s]["live"], m.tombs), m.puts)

NodesOf(inv) == {o \in Objects : inv[o] # None}

\* One conditional, unsupported or deny relationship silences the source.
AllPlain(inv) == \A r \in Relationships : inv[r] # None => inv[r].plain

\* _project: a relationship becomes an edge if both ends are nodes now, and
\* one that transfers authority only if every relationship of the source is
\* a plain allow.
EdgesOfEach(s, inv, nodes) ==
    {r \in Relationships :
        /\ inv[r] # None
        /\ Ends[r] \subseteq nodes
        /\ r \in Traversable => s \in Platform}
EdgesOf(s, inv, nodes) ==
    {r \in Relationships :
        /\ inv[r] # None
        /\ Ends[r] \subseteq nodes
        /\ r \in Traversable => s \in Platform /\ AllPlain(inv)}

\* What the DELETE of _project finds of the edges of batches: all that is
\* committed then.  Variant: only projected edges are deleted.
FoundNever(s, m) == {}
Found(s, m) == IF Publishes(m) THEN legacy[s] ELSE {}

OtherNodes(s) == UNION {graph[t].nodes : t \in Sources \ {s}}

-----------------------------------------------------------------------------
Init ==
    /\ connector = [s \in Sources |-> Unregistered]
    /\ facts = [s \in Sources |-> [g \in Generations |-> Empty]]
    /\ receipts = [s \in Sources |-> {}]
    /\ graph = [s \in Sources |-> [nodes |-> {}, edges |-> {}]]
    /\ job = [d \in Deliveries |-> Idle]
    /\ ingesting = [s \in Sources |-> {}]
    /\ legacy = [s \in Sources |-> {}]
    /\ swept = {}

\* register: the administrator approves a manifest, once.
Register(s) ==
    /\ ~connector[s].registered
    /\ connector' = [connector EXCEPT ![s].registered = TRUE]
    /\ UNCHANGED <<facts, receipts, graph, job, batches>>

\* A message arrives and its sequence number has no committed receipt.
Receive(d, s, m) ==
    /\ job[d].at = "idle"
    /\ ~Receipted(s, m.seq)
    /\ job' = [job EXCEPT ![d] = [Idle EXCEPT !.at = "looked", !.source = s, !.msg = m]]
    /\ UNCHANGED <<rows, batches>>

\* Variant: a message from further ahead is taken as well.
ReadStateAllowingGaps(d) ==
    /\ job[d].at = "looked"
    /\ connector[job[d].source].registered
    /\ job[d].msg.seq > connector[job[d].source].seq
    /\ job' = [job EXCEPT ![d].at = "read", ![d].seen = connector[job[d].source]]
    /\ UNCHANGED <<rows, batches>>

\* The connector row is read: its sequence must be the one before.
ReadState(d) ==
    LET s == job[d].source
        row == connector[s]
    IN  /\ job[d].at = "looked"
        /\ row.registered
        /\ job[d].msg.seq = row.seq + 1
        /\ job' = [job EXCEPT ![d].at = "read", ![d].seen = row]
        /\ UNCHANGED <<rows, batches>>

\* UPDATE ... WHERE sequence = <the sequence read> finds its row.
Swaps(d) == connector[job[d].source].seq = job[d].seen.seq

\* The row is locked, the message passes every check and its facts are
\* written and projected, all of it uncommitted.
Apply(d) ==
    LET s == job[d].source
        m == job[d].msg
        inv == Applied(s, m)["live"]
    IN  /\ job[d].at = "read"
        /\ ~Locked(s)
        /\ Swaps(d)
        /\ Acceptable(s, m, job[d].seen.open)
        /\ job' = [job EXCEPT
             ![d].at = "applied",
             ![d].edges = IF Publishes(m)
                          THEN EdgesOf(s, inv, NodesOf(inv) \cup OtherNodes(s))
                          ELSE graph[s].edges,
             ![d].found = Found(s, m),
             ![d].last = Publishes(m) /\ ingesting[s] = {}]
        /\ UNCHANGED <<rows, batches>>

\* The receipt and the audit record are added and everything is committed.  A
\* second receipt of the same sequence number would break its constraint.
Commit(d) ==
    LET s == job[d].source
        m == job[d].msg
    IN  /\ job[d].at = "applied"
        /\ ~Receipted(s, m.seq)
        /\ connector' = [connector EXCEPT ![s].seq = m.seq, ![s].open = OpenAfter(m)]
        /\ facts' = [facts EXCEPT ![s] = Applied(s, m)]
        /\ receipts' = [receipts EXCEPT ![s] = @ \cup {m}]
        /\ graph' = [graph EXCEPT ![s] =
             [nodes |-> IF Publishes(m) THEN NodesOf(Applied(s, m)["live"]) ELSE @.nodes,
              edges |-> job[d].edges]]
        /\ legacy' = [legacy EXCEPT ![s] = @ \ job[d].found]
        /\ swept' = IF job[d].last THEN swept \cup {s} ELSE swept
        /\ job' = [job EXCEPT ![d] = Idle]
        /\ UNCHANGED ingesting

\* The message is refused: 409, 403 or 422, and the transaction rolled back.
Refuse(d) ==
    LET s == job[d].source
        m == job[d].msg
    IN  /\ \/ job[d].at = "looked" /\ ~connector[s].registered
           \/ job[d].at = "looked" /\ m.seq # connector[s].seq + 1
           \/ job[d].at = "read" /\ ~Locked(s) /\ ~Swaps(d)
           \/ job[d].at = "read" /\ ~Locked(s) /\ Swaps(d)
              /\ ~Acceptable(s, m, job[d].seen.open)
        /\ job' = [job EXCEPT ![d] = Idle]
        /\ UNCHANGED <<rows, batches>>

\* The process dies or the database fails the transaction before it commits.
Fail(d) ==
    /\ job[d].at # "idle"
    /\ job' = [job EXCEPT ![d] = Idle]
    /\ UNCHANGED <<rows, batches>>

\* ingestion.ingest looks for a connector row, ...
CheckLegacy(s, batch) ==
    /\ s \in Legacy /\ ingesting[s] = {} /\ batch # {}
    /\ ~connector[s].registered
    /\ ingesting' = [ingesting EXCEPT ![s] = batch]
    /\ UNCHANGED <<rows, job, legacy, swept>>

\* ... and commits its nodes and edges without looking again.
CommitLegacy(s) ==
    /\ ingesting[s] # {}
    /\ ingesting' = [ingesting EXCEPT ![s] = {}]
    /\ legacy' = [legacy EXCEPT ![s] = @ \cup ingesting[s]]
    /\ UNCHANGED <<rows, job, swept>>

\* The batch is refused for another reason, or its transaction fails.
FailLegacy(s) ==
    /\ ingesting[s] # {}
    /\ ingesting' = [ingesting EXCEPT ![s] = {}]
    /\ UNCHANGED <<rows, job, legacy, swept>>

Next ==
    \/ \E s \in Sources : Register(s) \/ CommitLegacy(s) \/ FailLegacy(s)
    \/ \E s \in Sources, batch \in SUBSET Relationships : CheckLegacy(s, batch)
    \/ \E d \in Deliveries, s \in Sources, m \in Traffic : Receive(d, s, m)
    \/ \E d \in Deliveries : ReadState(d) \/ Apply(d) \/ Commit(d) \/ Refuse(d) \/ Fail(d)

Spec == Init /\ [][Next]_vars
-----------------------------------------------------------------------------
(* Properties *)

\* The rows and the locals keep their types.
TypeOK ==
    /\ connector \in [Sources -> ConnectorRow]
    /\ facts \in [Sources -> [Generations -> Inventory]]
    /\ receipts \in [Sources -> SUBSET Traffic]
    /\ graph \in [Sources -> Projection]
    /\ job \in [Deliveries -> Delivery]
    /\ ingesting \in [Sources -> SUBSET Relationships]
    /\ legacy \in [Sources -> SUBSET Relationships]
    /\ swept \subseteq Sources

\* Receipts are exactly the acknowledged prefix: one for every sequence
\* number up to the connector's, none beyond, so that a collector that
\* replays a message is answered from its receipt whenever it took effect,
\* and told of a gap only if it did not (sync.py 150-164, 222).
ReceiptsAreThePrefix ==
    \A s \in Sources :
        /\ {m.seq : m \in receipts[s]} = 1 .. connector[s].seq
        /\ \A m, n \in receipts[s] : m.seq = n.seq => m = n

\* Facts are staged only for the snapshot under way: an aborted, replaced or
\* completed run leaves nothing behind that a later one could publish, or
\* that would keep its identifier from being used (sync.py 174-201).
NoOrphanGeneration ==
    \A s \in Sources : \A g \in SnapshotIds \ {"live"} :
        facts[s][g] # Empty => connector[s].open = g

\* The edges of s that facts inv support, and those among them whose ends are
\* the source's own, so that no other source decides whether they are there.
Supported(s, inv) == EdgesOf(s, inv, Objects)
Owned(s, inv) ==
    {r \in Supported(s, inv) : (\A o \in Ends[r] : Home[o] = s) /\ Ends[r] \subseteq NodesOf(inv)}
Between(s, inv, edges) == Owned(s, inv) \subseteq edges /\ edges \subseteq Supported(s, inv)

\* The graph is the projection of the published facts: exactly their nodes,
\* no edge without a fact that supports it, and none withheld whose ends are
\* both the source's own (sync.py _project).
GraphFollowsFacts ==
    \A s \in Sources :
        /\ graph[s].nodes = NodesOf(facts[s]["live"])
        /\ Between(s, facts[s]["live"], graph[s].edges)

\* A projected edge counts while both its ends are projected nodes, whoever owns
\* them (access_graph.resolve_path drops the others).  An edge that a batch left
\* counts beside the nodes it brought: rows of other names and ids.
Nodes == UNION {graph[s].nodes : s \in Sources}
Projected(s) == {r \in graph[s].edges : Ends[r] \subseteq Nodes}
Usable(s) == Projected(s) \cup legacy[s]

\* The source backs the edge, with nothing conditional anywhere in that source,
\* and the owners of its ends have them.
Backed(s, r) ==
    /\ facts[s]["live"][r] # None
    /\ s \in Platform /\ AllPlain(facts[s]["live"])
    /\ \A o \in Ends[r] : facts[Home[o]]["live"][o] # None

\* Authority across sources: an edge that can be walked and transfers authority
\* is backed NOW, although owners publish on their own and an edge is projected
\* while they may (sync.py 75-140).  What batches have left is the one exception,
\* also after the source is registered, as a batch may commit behind its back;
\* it ends for good once the source publishes with no batch under way when that
\* begins to delete (ingestion.py:165, sync.py:83).
AuthorityHasEvidence ==
    \A s \in Sources : \A r \in Usable(s) \cap Traversable :
        Backed(s, r) \/ (r \in legacy[s] /\ s \notin swept)

\* The rows implement the inventory the protocol promises: what is staged is
\* what the open snapshot's generation holds.
Published == INSTANCE PublishedInventory WITH
    last <- [s \in Sources |-> connector[s].seq],
    accepted <- receipts,
    open <- [s \in Sources |-> connector[s].open],
    staged <- [s \in Sources |-> IF connector[s].open = None THEN Empty
                                 ELSE facts[s][connector[s].open]],
    live <- [s \in Sources |-> facts[s]["live"]]

\* Messages take effect one at a time, in sequence, once and whole; staged
\* facts are invisible; a complete snapshot replaces everything.
ImplementsInventory == Published!Spec
=============================================================================
