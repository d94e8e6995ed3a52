------------------------------ MODULE Ingestion ------------------------------
(***************************************************************************)
(* Collectors push batches of relationships (ingestion.py, and the handler *)
(* ingest_relationships of api.py); people are found among the nodes that  *)
(* result (identity_providers.py).  Deliveries overlap and are repeated.   *)
(*                                                                         *)
(* A delivery is one transaction of a READ COMMITTED database, which is    *)
(* not under src/: a statement sees what is committed and what its own     *)
(* transaction wrote, a written row is locked until the transaction ends,  *)
(* an insert waits for a rival of the same unique key, and of transactions *)
(* that wait for each other one is aborted.  SQLAlchemy writes a changed   *)
(* row before the next query, and only if a value has really changed.      *)
(*                                                                         *)
(* Checks of the shape of a batch are left out.  Sources with a manifest   *)
(* are refused here; their race with ingestion is in ConnectorSync.        *)
(***************************************************************************)
EXTENDS Integers, Sequences, FiniteSets

CONSTANTS
    Sources, TenantOf, Namespace, \* relationship_sources; the ids a source may name
    Versioned,      \* sources with a ConnectorState
    Nodes,          \* [kind, ext, name]; an external id is a sequence of its parts
    Existing,       \* nodes there from the start: seeded, projected, or of earlier batches
    Relationships, Ends,   \* and the two nodes of each
    Requests,       \* what collectors send
    Calls,          \* deliveries, each of one request
    Keys,           \* idempotency keys
    Tokens,         \* verified sessions: [issuer, tenant, ext]
    Settings,       \* of deployments: [tenant, directory, prefix, native], the first
                    \* two None where they are not configured
    MaxAge,         \* source_max_age_seconds
    MaxBatch,       \* ingest_max_batch
    MaxClock, Retired,  \* bounds: the time at which an instance stops looking, and
                    \* the sources an administrator may disable in it
    None

Edges == [relation : Relationships, by : Calls]   \* an edge row, and who inserted it
Edge(r, c) == [relation |-> r, by |-> c]
Rows == Nodes \cup Edges
Row == [source : Sources \cup {None}, tenant : {TenantOf[s] : s \in Sources},
        at : 0 .. MaxClock, attrs : Nat]
Request == [source : Sources, key : Keys \cup {None}, batch : Seq(Relationships),
            at : 0 .. MaxClock, attrs : Nat]
Write == [row : Rows, new : BOOLEAN, at : BOOLEAN, attrs : BOOLEAN]

ASSUME IngestionAssumption ==
    /\ Requests \subseteq Request /\ Versioned \subseteq Sources
    /\ DOMAIN Existing \subseteq Nodes /\ \A n \in DOMAIN Existing : Existing[n] \in Row
    /\ \A r \in Relationships : Ends[r] \in Nodes \X Nodes
    /\ MaxAge \in Nat /\ MaxBatch \in Nat /\ MaxClock \in Nat \ {0}
    /\ None \notin Calls \cup Requests
    /\ \A set \in Settings : set.directory \in Sources \cup {None}

\* Nodes and edges are rows of different tables, and a node is what it is called.
\* What ingestion has brought is named by its external id, and a source without
\* a manifest has brought nothing in another way (ingestion.py:133).
ASSUME NamesAssumption ==
    /\ None \notin Row /\ None \notin Write
    /\ Nodes \cap Edges = {}
    /\ \A m, n \in Nodes : m.kind = n.kind /\ m.ext = n.ext /\ m.name = n.name => m = n
    /\ \A r \in Relationships : \A n \in {Ends[r][1], Ends[r][2]} : n.name = n.ext
    /\ \A n \in DOMAIN Existing :
         Existing[n].source \in Sources \ Versioned => n.name = n.ext

VARIABLES
    clock,
    table,     \* access_nodes and access_edges, as committed
    sources,   \* enabled, last_sync_at
    receipts,  \* ingest_receipts: whose summary a source's key has
    calls      \* the deliveries

vars == <<clock, table, sources, receipts, calls>>

Call == [pc : {"idle", "look", "write", "lock", "commit", "ended"},
         request : Requests \cup {None}, last : 0 .. MaxClock \cup {None}, item : Nat,
         todo : Write \cup {None}, chain : BOOLEAN, own : [Rows -> Row \cup {None}],
         met : SUBSET Calls, told : Calls \cup {None},
         answer : {"none", "applied", "replayed", "refused", "error"}]

NoWrites == [k \in Rows |-> None]
Idle == [pc |-> "idle", request |-> None, last |-> None, item |-> 0, todo |-> None,
         chain |-> FALSE, own |-> NoWrites, met |-> {}, told |-> None, answer |-> "none"]

Known == Versioned \cup {Existing[n].source : n \in DOMAIN Existing}   \* synced before

Init ==
    /\ clock = 1
    /\ table = [k \in Rows |-> IF k \in DOMAIN Existing THEN Existing[k] ELSE None]
    /\ sources = [s \in Sources |->
          [enabled |-> TRUE, last |-> IF s \in Known THEN 1 ELSE None]]
    /\ receipts = [s \in Sources |-> [k \in Keys |-> None]]
    /\ calls = [c \in Calls |-> Idle]

Active == {c \in Calls : calls[c].pc \notin {"idle", "ended"}}

\* The rows that row k may not be beside: (kind, name) is unique among nodes.
Namesakes == [k \in Nodes |-> {n \in Nodes : n.kind = k.kind /\ n.name = k.name}]
Rivals(k) == IF k \in Nodes THEN Namesakes[k] ELSE {k}
Locks(d, k) == \E m \in Rivals(k) : calls[d].own[m] # None
Blocked(c, k) == \E d \in Active \ {c} : Locks(d, k)

Update(c, v) == calls' = [calls EXCEPT ![c] = v]

\* What a statement of c sees of a row.
Sees(c, k) == IF calls[c].own[k] # None THEN calls[c].own[k] ELSE table[k]

\* Variant: the lock of the chain belongs to the session.
FailLocked(c, answer) ==
    /\ Update(c, [calls[c] EXCEPT !.pc = "ended", !.answer = answer, !.own = NoWrites,
                                  !.todo = None])
    /\ UNCHANGED <<clock, table, sources, receipts>>

\* The transaction is rolled back; nothing of it is left.
Fail(c, answer) ==
    /\ Update(c, [calls[c] EXCEPT !.pc = "ended", !.answer = answer, !.own = NoWrites,
                                  !.todo = None, !.chain = FALSE])
    /\ UNCHANGED <<clock, table, sources, receipts>>

Refuse(c) == Fail(c, "refused")

-----------------------------------------------------------------------------
(* ingest_relationships *)

\* _validate, and the observation time, which may not be in the future.
Acceptable(r) ==
    /\ Len(r.batch) \in 1 .. MaxBatch
    /\ \A i \in DOMAIN r.batch : \A n \in {Ends[r.batch[i]][1], Ends[r.batch[i]][2]} :
         n.ext \in Namespace[r.source]
    /\ r.at <= clock

\* authenticate_collector, find_receipt, and the checks that need no graph.
Receive(c, r) ==
    LET call == [calls[c] EXCEPT !.request = r, !.met = Active]
        receipt == IF r.key = None THEN None ELSE receipts[r.source][r.key]
    IN  /\ calls[c].pc = "idle"
        /\ Update(c, IF ~sources[r.source].enabled
                     THEN [call EXCEPT !.pc = "ended", !.answer = "refused"]
                     ELSE IF receipt # None
                     THEN [call EXCEPT !.pc = "ended", !.answer = "replayed", !.told = receipt]
                     ELSE IF r.source \in Versioned \/ ~Acceptable(r)
                     THEN [call EXCEPT !.pc = "ended", !.answer = "refused"]
                     ELSE [call EXCEPT !.pc = "look", !.item = 1,
                                       !.last = sources[r.source].last])
        /\ UNCHANGED <<clock, table, sources, receipts>>

\* A relationship is three items of work: its subject, its target, its edge.
Req(c) == calls[c].request
LastItem(c) == 3 * Len(Req(c).batch)
RelationAt(c, i) == Req(c).batch[(i + 2) \div 3]
Relation(c) == RelationAt(c, calls[c].item)
OnEdge(c) == calls[c].item % 3 = 0
NodeAt(c, i) == Ends[RelationAt(c, i)][i % 3]
Node(c) == NodeAt(c, calls[c].item)

\* What the lookup leaves to write is written before the next query.  For the
\* last edge that query is the one for the head of the audit chain, whose lock
\* is taken first.
Looked(c, todo) ==
    /\ Update(c, IF calls[c].item = LastItem(c)
                 THEN [calls[c] EXCEPT !.pc = "lock", !.todo = todo]
                 ELSE IF todo = None THEN [calls[c] EXCEPT !.item = @ + 1]
                 ELSE [calls[c] EXCEPT !.pc = "write", !.todo = todo])
    /\ UNCHANGED <<clock, table, sources, receipts>>

Insertion(k) == [row |-> k, new |-> TRUE, at |-> TRUE, attrs |-> TRUE]
\* A change of row k, which c has read; None if there is nothing to change.
Change(c, k, attrs) ==
    LET at == Sees(c, k).at # Req(c).at
    IN  IF at \/ attrs THEN [row |-> k, new |-> FALSE, at |-> at, attrs |-> attrs] ELSE None

\* The nodes that _upsert_node's query may return, in whatever order.
FoundNodes(c) ==
    {n \in Nodes : /\ n.ext = Node(c).ext /\ Sees(c, n) # None
                   /\ Sees(c, n).tenant = TenantOf[Req(c).source]}

\* The node is in the cache of the batch, of the kind it was accepted with.
Cached(c) ==
    \E j \in 1 .. calls[c].item - 1 : j % 3 # 0 /\ NodeAt(c, j).ext = Node(c).ext
CachedKind(c) ==
    \A j \in 1 .. calls[c].item - 1 :
        j % 3 # 0 /\ NodeAt(c, j).ext = Node(c).ext => NodeAt(c, j).kind = Node(c).kind

\* Variant: any source may renew a node.
MayRenewAny(c, n) == n.kind = Node(c).kind
MayRenew(c, n) == Sees(c, n).source = Req(c).source /\ n.kind = Node(c).kind

LookForNode(c) ==
    /\ calls[c].pc = "look" /\ ~OnEdge(c)
    /\ \/ Cached(c) /\ (IF CachedKind(c) THEN Looked(c, None) ELSE Refuse(c))
       \/ ~Cached(c) /\ FoundNodes(c) = {} /\ Looked(c, Insertion(Node(c)))
       \/ ~Cached(c) /\ \E n \in FoundNodes(c) :
            IF MayRenew(c, n) THEN Looked(c, Change(c, n, FALSE)) ELSE Refuse(c)

\* Variant: an edge of another time is not found.
FoundEdgesOfTime(c) ==
    {e \in Edges : e.relation = Relation(c) /\ Sees(c, e) # None /\ Sees(c, e).at = Req(c).at}
FoundEdges(c) == {e \in Edges : e.relation = Relation(c) /\ Sees(c, e) # None}

LookForEdge(c) ==
    /\ calls[c].pc = "look" /\ OnEdge(c)
    /\ \/ FoundEdges(c) = {} /\ Looked(c, Insertion(Edge(Relation(c), c)))
       \/ \E e \in FoundEdges(c) :
            Looked(c, Change(c, e, Sees(c, e).attrs # Req(c).attrs))

NewRow(c, k) ==
    [source |-> Req(c).source, tenant |-> TenantOf[Req(c).source], at |-> Req(c).at,
     attrs |-> IF k \in Edges THEN Req(c).attrs ELSE 0]

Written(c) ==
    LET w == calls[c].todo
    IN  IF w.new THEN NewRow(c, w.row)
        ELSE [Sees(c, w.row) EXCEPT !.source = Req(c).source,
                                    !.at = IF w.at THEN Req(c).at ELSE @,
                                    !.attrs = IF w.attrs THEN Req(c).attrs ELSE @]

Taken(k) == \E m \in Rivals(k) : table[m] # None

\* The flush: it waits for the row and its rivals, and fails if one has come first.
Flush(c) ==
    /\ calls[c].pc = "write" /\ ~Blocked(c, calls[c].todo.row)
    /\ LET w == calls[c].todo
       IN  IF w.new /\ Taken(w.row) THEN Fail(c, "error")
           ELSE /\ Update(c, [calls[c] EXCEPT
                       !.own[w.row] = Written(c), !.todo = None,
                       !.pc = IF calls[c].chain THEN "commit" ELSE "look",
                       !.item = IF calls[c].chain THEN @ ELSE @ + 1])
                /\ UNCHANGED <<clock, table, sources, receipts>>

\* audit.append takes the lock of the chain, and holds it until the end.
LockChain(c) ==
    /\ calls[c].pc = "lock" /\ \A d \in Calls : ~calls[d].chain
    /\ Update(c, [calls[c] EXCEPT !.chain = TRUE,
                                  !.pc = IF calls[c].todo = None THEN "commit" ELSE "write"])
    /\ UNCHANGED <<clock, table, sources, receipts>>

\* Variant: a receipt that is there already is overwritten.
ReceiptTakenNever(c) == FALSE
ReceiptTaken(c) ==
    Req(c).key # None /\ receipts[Req(c).source][Req(c).key] # None

\* store_receipt and commit.  last_sync_at is written if it has changed.
Commit(c) ==
    LET r == Req(c)
    IN  /\ calls[c].pc = "commit"
        /\ IF ReceiptTaken(c) THEN Fail(c, "error")
           ELSE /\ table' = [k \in Rows |-> Sees(c, k)]
                /\ sources' = IF r.at = calls[c].last THEN sources
                              ELSE [sources EXCEPT ![r.source].last = r.at]
                /\ receipts' = IF r.key = None THEN receipts
                               ELSE [receipts EXCEPT ![r.source][r.key] = c]
                /\ Update(c, [calls[c] EXCEPT !.pc = "ended", !.answer = "applied",
                                              !.chain = FALSE])
                /\ UNCHANGED clock

-----------------------------------------------------------------------------
(* The database and the world *)

Waits(c) ==
    {d \in Active \ {c} :
        \/ calls[c].pc = "write" /\ Locks(d, calls[c].todo.row)
        \/ calls[c].pc = "lock" /\ calls[d].chain}

\* One of those that wait for each other is aborted.
Abort(c) ==
    /\ \E group \in SUBSET Active : c \in group /\ \A d \in group : Waits(d) \cap group # {}
    /\ Fail(c, "error")

Die(c) == c \in Active /\ Fail(c, "error")   \* the process, or its connection

Disable(s) ==
    /\ s \in Retired /\ sources[s].enabled
    /\ sources' = [sources EXCEPT ![s].enabled = FALSE]
    /\ UNCHANGED <<clock, table, receipts, calls>>

Tick ==
    /\ clock < MaxClock /\ clock' = clock + 1
    /\ UNCHANGED <<table, sources, receipts, calls>>

Step(c) == LookForNode(c) \/ LookForEdge(c) \/ Flush(c) \/ LockChain(c) \/ Commit(c)

Next ==
    \/ \E c \in Calls : (\E r \in Requests : Receive(c, r)) \/ Step(c) \/ Abort(c) \/ Die(c)
    \/ \E s \in Sources : Disable(s)
    \/ Tick

Spec == Init /\ [][Next]_vars

\* A handler goes on, and the database looks for deadlocks.
FairSpec == Spec /\ \A c \in Calls : WF_vars(Step(c)) /\ WF_vars(Abort(c))

-----------------------------------------------------------------------------
(* identity_providers *)

\* OidcIdentityProvider.verify: the tenant claim may not contradict the
\* configured tenant; one of the two there must be.  A dev session has its own.
Tenant(token, set) ==
    IF token.issuer # "dev" /\ set.tenant # None /\ token.tenant \notin {None, set.tenant}
    THEN None
    ELSE IF token.tenant # None \/ token.issuer = "dev" THEN token.tenant ELSE set.tenant

\* With a directory configured, tokens of other than dev sessions are bound to it.
Bound(token, set) == set.directory # None /\ token.issuer # "dev"

\* The provider's prefix makes way for that of the directory's native ids;
\* None if it is not there, or nothing is left.
Native(ext, set) ==
    LET n == Len(set.prefix)
        native == set.native \o SubSeq(ext, n + 1, Len(ext))
    IN  IF SubSeq(ext, 1, n) = set.prefix /\ native # <<>> THEN native ELSE None

\* The external id that is looked for.  Bound tokens are of the configured issuer.
Wanted(token, set) ==
    IF ~Bound(token, set) THEN token.ext
    ELSE IF token.issuer = "configured" THEN Native(token.ext, set) ELSE None

Candidates(token, set) ==
    {n \in Nodes :
        /\ n.kind = "user" /\ n.ext = Wanted(token, set) /\ table[n] # None
        /\ table[n].tenant = Tenant(token, set)
        /\ Bound(token, set) => table[n].source = set.directory}

\* Variant: the tenant of the source is not looked at.
VouchesAbroad(s, tenant) ==
    /\ sources[s].enabled /\ sources[s].last # None
    /\ clock - sources[s].last \in 0 .. MaxAge

Vouches(s, tenant) ==
    /\ sources[s].enabled /\ TenantOf[s] = tenant /\ sources[s].last # None
    /\ clock - sources[s].last \in 0 .. MaxAge

\* map_principal: the one candidate, if its source is enabled and has synced
\* lately; without a source only for a dev session.  None denies.  The code
\* reads the candidates, then the source: this is what it answers if the first
\* still holds at the second.  A row keeps its source and its tenant, so all that
\* can change between the two is that another candidate appears.
MapPrincipal(token, set) ==
    LET tenant == Tenant(token, set)
        candidates == Candidates(token, set)
    IN  IF tenant = None \/ Wanted(token, set) = None \/ Cardinality(candidates) # 1 THEN None
        ELSE LET n == CHOOSE m \in candidates : TRUE
                 s == table[n].source
             IN  IF IF s = None THEN token.issuer = "dev" ELSE Vouches(s, tenant)
                 THEN n ELSE None

-----------------------------------------------------------------------------
(* Properties *)

TypeOK ==
    /\ clock \in 0 .. MaxClock
    /\ table \in [Rows -> Row \cup {None}]
    /\ sources \in [Sources -> [enabled : BOOLEAN, last : 0 .. MaxClock \cup {None}]]
    /\ receipts \in [Sources -> [Keys -> Calls \cup {None}]]
    /\ calls \in [Calls -> Call]

Applied == {c \in Calls : calls[c].answer = "applied"}
Overlapped(c, d) == d \in calls[c].met \/ c \in calls[d].met
Wrote(c, k) == calls[c].own[k] # None

SameKey(c, d) ==
    /\ Req(c) # None /\ Req(d) # None /\ Req(c).key # None
    /\ Req(c).key = Req(d).key /\ Req(c).source = Req(d).source

\* Under one idempotency key a batch is applied at most once, however many
\* deliveries of it overlap, and a repeated one is told what that one did
\* (models.py:248).
AppliedOnce ==
    \A c \in Applied, d \in Calls : SameKey(c, d) =>
        /\ d \in Applied => c = d
        /\ calls[d].answer = "replayed" => calls[d].told = c

\* A relationship has one row, which a later batch therefore corrects, but for
\* deliveries that overlap and write no node of it in common: the rows of the
\* nodes serialise the others, as their observation times differ.  An external
\* id has one node in its tenant, whatever kinds batches give it, unless the
\* deliveries that brought two kinds overlapped (ingestion.py:126, 190).
OneRowUnlessRaced ==
    /\ \A r \in Relationships : \A c, d \in Calls :
         table[Edge(r, c)] # None /\ table[Edge(r, d)] # None /\ c # d =>
             /\ Overlapped(c, d)
             /\ \A n \in {Ends[r][1], Ends[r][2]} : ~(Wrote(c, n) /\ Wrote(d, n))
    /\ \A m, n \in {k \in Nodes : table[k] # None} :
         m.ext = n.ext /\ m # n /\ table[m].tenant = table[n].tenant =>
             \/ {m, n} \subseteq DOMAIN Existing
             \/ \E c, d \in Applied : Wrote(c, m) /\ Wrote(d, n) /\ Overlapped(c, d)

\* A source has the nodes it asserts edges of, and what other components have
\* written is theirs (ingestion.py:145).
SourcesKeepToTheirOwn ==
    /\ \A r \in Relationships : \A c \in Calls : table[Edge(r, c)] # None =>
         \A n \in {Ends[r][1], Ends[r][2]} :
             table[n] # None /\ table[n].source = table[Edge(r, c)].source
    /\ \A n \in DOMAIN Existing : table[n].source = Existing[n].source

ObservedBy(s) ==
    (IF s \in Known THEN {1} ELSE {}) \cup {Req(c).at : c \in {d \in Applied : Req(d).source = s}}

\* A token finds a user only of its own tenant, and only if an enabled source
\* that is of this tenant too has observed anything within the last MaxAge; of
\* the configured directory where there is one.  A seeded user answers to dev
\* sessions only (identity_providers.py:236).
PrincipalsAreVouchedFor ==
    \A set \in Settings, token \in Tokens :
      LET n == MapPrincipal(token, set)
          s == table[n].source
      IN  n # None =>
            /\ table[n].tenant = Tenant(token, set)
            /\ s = None => token.issuer = "dev"
            /\ s # None =>
                 /\ sources[s].enabled /\ TenantOf[s] = Tenant(token, set)
                 /\ n \in DOMAIN Existing \/ \E c \in Applied : Wrote(c, n)
                 /\ \E t \in ObservedBy(s) : clock - t \in 0 .. MaxAge
            /\ Bound(token, set) => token.issuer = "configured" /\ s = set.directory

\* Every delivery ends, also when deliveries wait for each other's rows.
EveryDeliveryEnds == \A c \in Calls : c \in Active ~> calls[c].pc = "ended"
=============================================================================
