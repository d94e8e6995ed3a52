------------------------- MODULE ConnectorSyncProofs -------------------------
(***************************************************************************)
(* Theorems about ConnectorSync, for any sets of sources, objects,         *)
(* relationships, snapshot identifiers, messages and deliveries, and for   *)
(* any manifests.                                                          *)
(***************************************************************************)
EXTENDS ConnectorSync, TLAPS

-----------------------------------------------------------------------------
(* The inductive invariant *)

\* A delivery under way has a source and a message.
DeliveriesHaveMessages ==
    \A d \in Deliveries : job[d].at # "idle" =>
        job[d].source \in Sources /\ job[d].msg \in Traffic

\* The row a delivery has read is still the row while its sequence is: this
\* is what makes the compare-and-swap on the sequence alone sufficient for
\* the snapshot identifier that was read with it.
ReadRowsAreCurrent ==
    \A d \in Deliveries : job[d].at \in {"read", "applied"} =>
        LET row == connector[job[d].source]
            seen == job[d].seen
        IN  /\ seen \in ConnectorRow
            /\ seen.registered
            /\ job[d].msg.seq = seen.seq + 1
            /\ seen.seq <= row.seq
            /\ seen.seq = row.seq => seen = row

\* What a delivery has been through when it holds its row: it is alone, the
\* row has not moved, and its message is acceptable to what the row protects.
HoldersAreExclusive ==
    \A d \in Deliveries, s \in Sources, m \in Traffic :
        job[d].at = "applied" /\ job[d].source = s /\ job[d].msg = m =>
            /\ connector[s].seq = job[d].seen.seq
            /\ Acceptable(s, m, connector[s].open)
            /\ \A e \in Deliveries : job[e].at = "applied" /\ job[e].source = s => e = d

\* The edges a delivery has projected fit the facts it will publish.
ProjectedEdgesFit ==
    \A d \in Deliveries, s \in Sources, m \in Traffic :
        job[d].at = "applied" /\ job[d].source = s /\ job[d].msg = m =>
            Between(s, Applied(s, m)["live"], job[d].edges)

\* Every fact is one its source may assert.
FactsAreEntitled ==
    \A s \in Sources, g \in Generations, k \in Keys : facts[s][g][k] # None => MayAssert(s, k)

IInv ==
    /\ TypeOK
    /\ DeliveriesHaveMessages
    /\ ReadRowsAreCurrent
    /\ HoldersAreExclusive
    /\ ProjectedEdgesFit
    /\ FactsAreEntitled
    /\ ReceiptsAreThePrefix
    /\ NoOrphanGeneration
    /\ GraphFollowsFacts

-----------------------------------------------------------------------------
(* Messages and inventories *)

\* What a message in transit looks like.
LEMMA TrafficType ==
    ASSUME NEW m \in Traffic
    PROVE  /\ m.seq \in Nat /\ m.op \in Operations /\ m.puts \in Inventory
           /\ m.snap \in SnapshotIds \cup {None} /\ m.tombs \subseteq Keys
           /\ m.op # "delta" => m.snap \in SnapshotIds
BY TrafficAssumption, AbsentAssumption DEF Message, WellFormed

\* The operations on one generation give an inventory.
LEMMA InventoryType ==
    /\ Empty \in Inventory
    /\ \A inv \in Inventory : \A keys : Retract(inv, keys) \in Inventory
    /\ \A inv, puts \in Inventory : Upsert(inv, puts) \in Inventory
BY DEF Inventory, Empty, Retract, Upsert

\* No evidence is None, so a key of Empty is the only kind without a fact.
LEMMA EmptyHasNothing == \A k \in Keys : Empty[k] = None
BY DEF Empty

\* Applying a message to a source's facts gives facts.
LEMMA AppliedType ==
    ASSUME facts \in [Sources -> [Generations -> Inventory]],
           NEW s \in Sources, NEW m \in Traffic
    PROVE  Applied(s, m) \in [Generations -> Inventory]
<1> USE InventoryType, TrafficType
<1>1. facts[s] \in [Generations -> Inventory]
    OBVIOUS
<1>2. CASE m.op = "begin"
    BY <1>1, <1>2 DEF Applied
<1>3. CASE m.op = "page"
  <2>1. m.snap \in Generations
      BY <1>3 DEF Generations
  <2>2. Upsert(facts[s][m.snap], m.puts) \in Inventory
      BY <1>1, <2>1
  <2>3. QED
      BY <1>1, <1>3, <2>1, <2>2 DEF Applied
<1>4. CASE m.op = "complete"
    BY <1>1, <1>4 DEF Applied, Promote, Generations
<1>5. CASE m.op = "abort"
    BY <1>1, <1>5 DEF Applied, Discard
<1>6. CASE m.op = "delta"
  <2>1. Upsert(Retract(facts[s]["live"], m.tombs), m.puts) \in Inventory
      BY <1>1 DEF Generations
  <2>2. QED
      BY <1>1, <1>6, <2>1 DEF Applied
<1>7. QED
    BY <1>2, <1>3, <1>4, <1>5, <1>6 DEF Operations

\* A message that does not publish leaves the live facts alone.
LEMMA AppliedLive ==
    ASSUME facts \in [Sources -> [Generations -> Inventory]],
           NEW s \in Sources, NEW m \in Traffic, m.snap # "live", ~Publishes(m)
    PROVE  Applied(s, m)["live"] = facts[s]["live"]
BY TrafficType DEF Applied, Publishes, Discard, Operations, Generations

\* An entitled message leaves a source only with facts it may assert.
LEMMA AppliedEntitled ==
    ASSUME facts \in [Sources -> [Generations -> Inventory]], FactsAreEntitled,
           NEW s \in Sources, NEW m \in Traffic, Entitled(s, m)
    PROVE  \A g \in Generations, k \in Keys : Applied(s, m)[g][k] # None => MayAssert(s, k)
<1> SUFFICES ASSUME NEW g \in Generations, NEW k \in Keys, Applied(s, m)[g][k] # None
             PROVE  MayAssert(s, k)
    OBVIOUS
<1> USE TrafficType, EmptyHasNothing
<1>1. m.puts[k] # None => MayAssert(s, k)
    BY DEF Entitled
<1>2. \A h \in Generations : facts[s][h][k] # None => MayAssert(s, k)
    BY DEF FactsAreEntitled
<1>3. CASE m.op = "begin"
    BY <1>2, <1>3 DEF Applied
<1>4. CASE m.op = "page"
    BY <1>1, <1>2, <1>4 DEF Applied, Upsert, Generations
<1>5. CASE m.op = "complete"
    BY <1>2, <1>5 DEF Applied, Promote, Generations
<1>6. CASE m.op = "abort"
    BY <1>2, <1>6 DEF Applied, Discard
<1>7. CASE m.op = "delta"
    BY <1>1, <1>2, <1>7 DEF Applied, Upsert, Retract, Generations
<1>8. QED
    BY <1>3, <1>4, <1>5, <1>6, <1>7 DEF Operations

\* What _project keeps is supported, and it keeps what only the source decides.
LEMMA ProjectionFits ==
    ASSUME NEW s \in Sources, NEW inv, NEW nodes
    PROVE  Between(s, inv, EdgesOf(s, inv, NodesOf(inv) \cup nodes))
BY KeysAssumption DEF Between, Owned, Supported, EdgesOf

-----------------------------------------------------------------------------
(* Type correctness *)

\* Assignments to the locals of a delivery keep their type.
LEMMA DeliveryUpdate ==
    /\ Idle \in Delivery
    /\ \A s \in Sources, m \in Traffic :
            [Idle EXCEPT !.at = "looked", !.source = s, !.msg = m] \in Delivery
    /\ \A j \in Delivery, row \in ConnectorRow : [j EXCEPT !.at = "read", !.seen = row] \in Delivery
    /\ \A j \in Delivery, E, F \in SUBSET Relationships, last \in BOOLEAN :
            [j EXCEPT !.at = "applied", !.edges = E, !.found = F, !.last = last] \in Delivery
BY DEF Delivery, Idle

\* Assignments to the columns of a connector row keep their type.
LEMMA RowUpdate ==
    /\ Unregistered \in ConnectorRow
    /\ \A row \in ConnectorRow : [row EXCEPT !.registered = TRUE] \in ConnectorRow
    /\ \A row \in ConnectorRow, n \in Nat, g \in SnapshotIds \cup {None} :
            [row EXCEPT !.seq = n, !.open = g] \in ConnectorRow
BY DEF ConnectorRow, Unregistered

\* A step of a legacy batch.
Batched(s) == \/ \E batch \in SUBSET Relationships : CheckLegacy(s, batch)
              \/ CommitLegacy(s) \/ FailLegacy(s)

\* It leaves the rows of connectors and the deliveries alone.
LEMMA BatchedLeaves ==
    ASSUME NEW s \in Sources, Batched(s)
    PROVE  /\ UNCHANGED <<connector, facts, receipts, graph, job, swept>>
           /\ \E batch \in SUBSET Relationships : ingesting' = [ingesting EXCEPT ![s] = batch]
           /\ legacy' \in {legacy, [legacy EXCEPT ![s] = @ \cup ingesting[s]]}
<1>1. ASSUME NEW batch \in SUBSET Relationships, CheckLegacy(s, batch)
      PROVE  /\ UNCHANGED <<connector, facts, receipts, graph, job, swept, legacy>>
             /\ ingesting' = [ingesting EXCEPT ![s] = batch]
    BY <1>1 DEF CheckLegacy, rows
<1>2. CASE CommitLegacy(s)
    BY <1>2 DEF CommitLegacy, rows
<1>3. CASE FailLegacy(s)
    BY <1>3 DEF FailLegacy, rows
<1>4. QED
    BY <1>1, <1>2, <1>3 DEF Batched

\* A refused or failed delivery is forgotten and nothing else changes.
Dropped(d) ==
    /\ job' = [job EXCEPT ![d] = Idle]
    /\ UNCHANGED <<rows, batches>>

\* Refusal and failure have the same outcome.
LEMMA RefuseOrFailDrops ==
    ASSUME NEW d \in Deliveries, Refuse(d) \/ Fail(d)
    PROVE  Dropped(d) /\ job[d].at # "idle"
BY DEF Refuse, Fail, Dropped

\* What an application does to the locals of its delivery; the rows wait for
\* the commit.
LEMMA ApplyValue ==
    ASSUME TypeOK, DeliveriesHaveMessages, NEW d \in Deliveries, Apply(d)
    PROVE  LET s == job[d].source
               m == job[d].msg
               inv == Applied(s, m)["live"]
           IN  /\ job[d].at = "read" /\ UNCHANGED <<rows, batches>>
               /\ job' \in [Deliveries -> Delivery]
               /\ \A e \in Deliveries \ {d} : job'[e] = job[e]
               /\ job'[d].at = "applied" /\ job'[d].source = s /\ job'[d].msg = m
               /\ job'[d].seen = job[d].seen
               /\ job'[d].edges = IF Publishes(m)
                                  THEN EdgesOf(s, inv, NodesOf(inv) \cup OtherNodes(s))
                                  ELSE graph[s].edges
               /\ job'[d].found = Found(s, m)
               /\ job'[d].last = (Publishes(m) /\ ingesting[s] = {})
<1> DEFINE s == job[d].source
           m == job[d].msg
           inv == Applied(s, m)["live"]
           E == IF Publishes(m) THEN EdgesOf(s, inv, NodesOf(inv) \cup OtherNodes(s))
                ELSE graph[s].edges
           F == Found(s, m)
           L == Publishes(m) /\ ingesting[s] = {}
<1>1. E \in SUBSET Relationships
  <2>1. graph[s].edges \in SUBSET Relationships
      BY DEF Apply, DeliveriesHaveMessages, TypeOK, Projection
  <2>2. QED
      BY <2>1 DEF EdgesOf
<1>2. F \in SUBSET Relationships
    BY DEF Apply, DeliveriesHaveMessages, TypeOK, Found
<1>3. L \in BOOLEAN
    OBVIOUS
<1>4. job' = [job EXCEPT ![d].at = "applied", ![d].edges = E, ![d].found = F, ![d].last = L]
    BY DEF Apply
<1>5. job[d].at = "read" /\ UNCHANGED <<rows, batches>>
    BY DEF Apply
<1> HIDE DEF E, F, L
<1> DEFINE j == [job[d] EXCEPT !.at = "applied", !.edges = E, !.found = F, !.last = L]
<1>6. job' = [job EXCEPT ![d] = j] /\ job[d] \in Delivery
    BY <1>4 DEF TypeOK
<1>7. /\ j \in Delivery /\ j.at = "applied" /\ j.source = s /\ j.msg = m /\ j.seen = job[d].seen
      /\ j.edges = E /\ j.found = F /\ j.last = L
    BY <1>1, <1>2, <1>3, <1>6 DEF Delivery
<1> HIDE DEF j
<1>8. /\ job' \in [Deliveries -> Delivery] /\ job'[d] = j
      /\ \A e \in Deliveries \ {d} : job'[e] = job[e]
    BY <1>6, <1>7 DEF TypeOK
<1>9. QED
    BY <1>5, <1>7, <1>8 DEF E, F, L

\* Message m of source s, which delivery d has applied, takes effect.
TakesEffect(d, s, m) ==
    /\ s = job[d].source /\ m = job[d].msg /\ job[d].at = "applied"
    /\ ~Receipted(s, m.seq)
    /\ connector' = [connector EXCEPT ![s] = [@ EXCEPT !.seq = m.seq, !.open = OpenAfter(m)]]
    /\ facts' = [facts EXCEPT ![s] = Applied(s, m)]
    /\ receipts' = [receipts EXCEPT ![s] = @ \cup {m}]
    /\ graph' = [graph EXCEPT ![s] =
          [nodes |-> IF Publishes(m) THEN NodesOf(Applied(s, m)["live"]) ELSE @.nodes,
           edges |-> job[d].edges]]
    /\ job' = [job EXCEPT ![d] = Idle]
    /\ ingesting' = ingesting
    /\ legacy' = [legacy EXCEPT ![s] = @ \ job[d].found]
    /\ swept' = IF job[d].last THEN swept \cup {s} ELSE swept

\* That is what a commit does.
LEMMA CommitValue ==
    ASSUME TypeOK, DeliveriesHaveMessages, NEW d \in Deliveries, Commit(d)
    PROVE  \E s \in Sources, m \in Traffic : TakesEffect(d, s, m)
<1>1. job[d].source \in Sources /\ job[d].msg \in Traffic
    BY DEF Commit, DeliveriesHaveMessages
<1>2. \A row \in ConnectorRow : \A n, g :
          [[row EXCEPT !.seq = n] EXCEPT !.open = g] = [row EXCEPT !.seq = n, !.open = g]
    OBVIOUS
<1>3. QED
    BY <1>1, <1>2 DEF Commit, TypeOK, TakesEffect

\* Init gives every variable a value of its type.
LEMMA InitType == Init => TypeOK
<1> SUFFICES ASSUME Init
             PROVE  TypeOK
    OBVIOUS
<1>1. connector \in [Sources -> ConnectorRow]
    BY RowUpdate DEF Init
<1>2. facts \in [Sources -> [Generations -> Inventory]]
    BY InventoryType DEF Init
<1>3. receipts \in [Sources -> SUBSET Traffic] /\ graph \in [Sources -> Projection]
    BY DEF Init, Projection
<1>4. job \in [Deliveries -> Delivery]
    BY DeliveryUpdate DEF Init
<1>5. QED
    BY <1>1, <1>2, <1>3, <1>4 DEF Init, TypeOK

\* Every step keeps the types.
LEMMA StepType == TypeOK /\ DeliveriesHaveMessages /\ [Next]_vars => TypeOK'
<1> SUFFICES ASSUME TypeOK, DeliveriesHaveMessages, [Next]_vars
             PROVE  TypeOK'
    OBVIOUS
<1>1. ASSUME NEW s \in Sources, Register(s)
      PROVE  TypeOK'
  <2>1. [connector[s] EXCEPT !.registered = TRUE] \in ConnectorRow
      BY RowUpdate DEF TypeOK
  <2>2. connector' \in [Sources -> ConnectorRow]
      BY <1>1, <2>1 DEF Register, TypeOK
  <2>3. QED
      BY <1>1, <2>2 DEF Register, TypeOK, batches
<1>2. ASSUME NEW d \in Deliveries, NEW s \in Sources, NEW m \in Traffic, Receive(d, s, m)
      PROVE  TypeOK'
    BY <1>2, DeliveryUpdate DEF Receive, TypeOK, rows, batches
<1>3. ASSUME NEW d \in Deliveries, ReadState(d)
      PROVE  TypeOK'
  <2>1. connector[job[d].source] \in ConnectorRow
      BY <1>3 DEF ReadState, DeliveriesHaveMessages, TypeOK
  <2>2. [job[d] EXCEPT !.at = "read", !.seen = connector[job[d].source]] \in Delivery
      BY <2>1, DeliveryUpdate DEF TypeOK
  <2>3. QED
      BY <1>3, <2>2 DEF ReadState, TypeOK, rows, batches
<1>4. ASSUME NEW d \in Deliveries, Apply(d)
      PROVE  TypeOK'
  <2>1. job' \in [Deliveries -> Delivery] /\ UNCHANGED <<rows, batches>>
      BY <1>4, ApplyValue
  <2>2. QED
      BY <2>1 DEF TypeOK, rows, batches
<1>5. ASSUME NEW d \in Deliveries, Commit(d)
      PROVE  TypeOK'
  <2>1. PICK s \in Sources, m \in Traffic : TakesEffect(d, s, m)
      BY <1>5, CommitValue
  <2>2. connector' \in [Sources -> ConnectorRow]
    <3>1. m.seq \in Nat /\ OpenAfter(m) \in SnapshotIds \cup {None}
        BY <2>1, TrafficType DEF OpenAfter
    <3>2. [connector[s] EXCEPT !.seq = m.seq, !.open = OpenAfter(m)] \in ConnectorRow
        BY <2>1, <3>1, RowUpdate DEF TypeOK
    <3>3. QED
        BY <2>1, <3>2 DEF TypeOK, TakesEffect
  <2>3. facts' \in [Sources -> [Generations -> Inventory]]
      BY <2>1, AppliedType DEF TypeOK, TakesEffect
  <2>4. receipts' \in [Sources -> SUBSET Traffic]
      BY <2>1 DEF TypeOK, TakesEffect
  <2>5. graph' \in [Sources -> Projection]
    <3>1. graph[s] \in Projection /\ job[d].edges \in SUBSET Relationships
        BY <2>1 DEF TypeOK, Delivery
    <3>2. [nodes |-> IF Publishes(m) THEN NodesOf(Applied(s, m)["live"]) ELSE graph[s].nodes,
           edges |-> job[d].edges] \in Projection
        BY <3>1 DEF Projection, NodesOf
    <3>3. QED
        BY <2>1, <3>2 DEF TypeOK, TakesEffect
  <2>6. job' \in [Deliveries -> Delivery]
      BY <2>1, DeliveryUpdate DEF TypeOK, TakesEffect
  <2>7. /\ ingesting' \in [Sources -> SUBSET Relationships]
        /\ legacy' \in [Sources -> SUBSET Relationships] /\ swept' \subseteq Sources
      BY <2>1 DEF TypeOK, TakesEffect
  <2>8. QED
      BY <2>2, <2>3, <2>4, <2>5, <2>6, <2>7 DEF TypeOK
<1>6. ASSUME NEW d \in Deliveries, Refuse(d) \/ Fail(d)
      PROVE  TypeOK'
    BY <1>6, RefuseOrFailDrops, DeliveryUpdate DEF Dropped, TypeOK, rows, batches
<1>7. ASSUME NEW s \in Sources, Batched(s)
      PROVE  TypeOK'
  <2>1. UNCHANGED <<connector, facts, receipts, graph, job, swept>>
      BY <1>7, BatchedLeaves
  <2>2. ingesting' \in [Sources -> SUBSET Relationships]
    <3>1. PICK batch \in SUBSET Relationships : ingesting' = [ingesting EXCEPT ![s] = batch]
        BY <1>7, BatchedLeaves
    <3>2. QED
        BY <3>1 DEF TypeOK
  <2>3. legacy' \in [Sources -> SUBSET Relationships]
    <3>1. legacy' = legacy \/ legacy' = [legacy EXCEPT ![s] = @ \cup ingesting[s]]
        BY <1>7, BatchedLeaves
    <3>2. legacy[s] \cup ingesting[s] \in SUBSET Relationships
        BY DEF TypeOK
    <3>3. QED
        BY <3>1, <3>2 DEF TypeOK
  <2>4. QED
      BY <2>1, <2>2, <2>3 DEF TypeOK
<1>8. CASE UNCHANGED vars
    BY <1>8 DEF vars, TypeOK
<1>9. QED
    BY <1>1, <1>2, <1>3, <1>4, <1>5, <1>6, <1>7, <1>8 DEF Next, Batched

-----------------------------------------------------------------------------
(* Deliveries and the rows they lock *)

\* Init has no delivery under way and no fact.
LEMMA InitDeliveries ==
    Init => DeliveriesHaveMessages /\ ReadRowsAreCurrent /\ HoldersAreExclusive /\ ProjectedEdgesFit
BY DEF Init, Idle, DeliveriesHaveMessages, ReadRowsAreCurrent, HoldersAreExclusive,
       ProjectedEdgesFit

\* A step keeps a source and a message with every delivery under way.
LEMMA StepMessages == TypeOK /\ DeliveriesHaveMessages /\ [Next]_vars => DeliveriesHaveMessages'
<1> SUFFICES ASSUME TypeOK, DeliveriesHaveMessages, [Next]_vars
             PROVE  DeliveriesHaveMessages'
    OBVIOUS
<1> USE DEF TypeOK, DeliveriesHaveMessages
<1>1. ASSUME NEW s \in Sources, Register(s) \/ Batched(s)
      PROVE  DeliveriesHaveMessages'
    BY <1>1, BatchedLeaves DEF Register
<1>2. ASSUME NEW d \in Deliveries, NEW s \in Sources, NEW m \in Traffic, Receive(d, s, m)
      PROVE  DeliveriesHaveMessages'
    BY <1>2 DEF Receive, Idle
<1>3. ASSUME NEW d \in Deliveries, ReadState(d)
      PROVE  DeliveriesHaveMessages'
    BY <1>3 DEF ReadState, Delivery
<1>4. ASSUME NEW d \in Deliveries, Apply(d)
      PROVE  DeliveriesHaveMessages'
  <2>1. /\ job[d].at = "read" /\ job'[d].source = job[d].source /\ job'[d].msg = job[d].msg
        /\ \A e \in Deliveries \ {d} : job'[e] = job[e]
      BY <1>4, ApplyValue
  <2>2. QED
      BY <2>1
<1>5. ASSUME NEW d \in Deliveries, Commit(d)
      PROVE  DeliveriesHaveMessages'
    BY <1>5 DEF Commit, Idle
<1>6. ASSUME NEW d \in Deliveries, Refuse(d) \/ Fail(d)
      PROVE  DeliveriesHaveMessages'
    BY <1>6, RefuseOrFailDrops DEF Dropped, Idle
<1>7. CASE UNCHANGED vars
    BY <1>7 DEF vars
<1>8. QED
    BY <1>1, <1>2, <1>3, <1>4, <1>5, <1>6, <1>7 DEF Next, Batched

\* A holder's message is the next one of its source.
LEMMA HoldersAreNext ==
    ASSUME TypeOK, DeliveriesHaveMessages, ReadRowsAreCurrent, HoldersAreExclusive,
           NEW d \in Deliveries, NEW s \in Sources, NEW m \in Traffic, TakesEffect(d, s, m)
    PROVE  m.seq = connector[s].seq + 1 /\ connector[s].registered
BY DEF TakesEffect, ReadRowsAreCurrent, HoldersAreExclusive

\* A step keeps read rows current: no commit comes without a new sequence.
LEMMA StepReads ==
    TypeOK /\ DeliveriesHaveMessages /\ ReadRowsAreCurrent /\ HoldersAreExclusive /\ [Next]_vars
        => ReadRowsAreCurrent'
<1> SUFFICES ASSUME TypeOK, DeliveriesHaveMessages, ReadRowsAreCurrent, HoldersAreExclusive,
                    [Next]_vars
             PROVE  ReadRowsAreCurrent'
    OBVIOUS
<1> USE DEF TypeOK, ReadRowsAreCurrent
<1>1. ASSUME NEW s \in Sources, Register(s)
      PROVE  ReadRowsAreCurrent'
  <2> SUFFICES ASSUME NEW e \in Deliveries, job[e].at \in {"read", "applied"}
               PROVE  /\ job[e].seen \in ConnectorRow /\ job[e].seen.registered
                      /\ job[e].msg.seq = job[e].seen.seq + 1
                      /\ job[e].seen.seq <= connector'[job[e].source].seq
                      /\ job[e].seen.seq = connector'[job[e].source].seq
                            => job[e].seen = connector'[job[e].source]
      BY <1>1 DEF Register
  <2>1. CASE job[e].source = s
      BY <1>1, <2>1 DEF Register, ConnectorRow
  <2>2. CASE job[e].source # s
      BY <1>1, <2>2 DEF Register, DeliveriesHaveMessages
  <2>3. QED
      BY <2>1, <2>2
<1>2. ASSUME NEW s \in Sources, Batched(s)
      PROVE  ReadRowsAreCurrent'
    BY <1>2, BatchedLeaves
<1>3. ASSUME NEW d \in Deliveries, NEW s \in Sources, NEW m \in Traffic, Receive(d, s, m)
      PROVE  ReadRowsAreCurrent'
    BY <1>3 DEF Receive, Idle, rows
<1>4. ASSUME NEW d \in Deliveries, ReadState(d)
      PROVE  ReadRowsAreCurrent'
  <2>1. /\ connector[job[d].source] \in ConnectorRow
        /\ connector[job[d].source].seq \in Nat
      BY <1>4 DEF ReadState, DeliveriesHaveMessages, ConnectorRow
  <2>2. QED
      BY <1>4, <2>1 DEF ReadState, Delivery, rows
<1>5. ASSUME NEW d \in Deliveries, Apply(d)
      PROVE  ReadRowsAreCurrent'
  <2>1. /\ job[d].at = "read" /\ job'[d].source = job[d].source /\ job'[d].msg = job[d].msg
        /\ job'[d].seen = job[d].seen /\ connector' = connector
        /\ \A e \in Deliveries \ {d} : job'[e] = job[e]
      BY <1>5, ApplyValue DEF rows
  <2>2. QED
      BY <2>1
<1>6. ASSUME NEW d \in Deliveries, Commit(d)
      PROVE  ReadRowsAreCurrent'
  <2>1. PICK s \in Sources, m \in Traffic : TakesEffect(d, s, m)
      BY <1>6, CommitValue
  <2>2. m.seq = connector[s].seq + 1
      BY <2>1, HoldersAreNext
  <2> SUFFICES ASSUME NEW e \in Deliveries, e # d, job[e].at \in {"read", "applied"}
               PROVE  /\ job[e].seen \in ConnectorRow /\ job[e].seen.registered
                      /\ job[e].msg.seq = job[e].seen.seq + 1
                      /\ job[e].seen.seq <= connector'[job[e].source].seq
                      /\ job[e].seen.seq = connector'[job[e].source].seq
                            => job[e].seen = connector'[job[e].source]
      BY <2>1 DEF TakesEffect, Idle
  <2>3. CASE job[e].source = s
    <3>1. connector'[s].seq = connector[s].seq + 1 /\ connector[s].seq \in Nat
        BY <2>1, <2>2 DEF TakesEffect, ConnectorRow
    <3>2. job[e].seen.seq \in Nat /\ job[e].seen.seq <= connector[s].seq
        BY <2>3 DEF ConnectorRow
    <3>3. job[e].seen.seq < connector'[s].seq
        BY <3>1, <3>2
    <3>4. QED
        BY <2>3, <3>1, <3>2, <3>3
  <2>4. CASE job[e].source # s
      BY <2>1, <2>4 DEF TakesEffect, DeliveriesHaveMessages
  <2>5. QED
      BY <2>3, <2>4
<1>7. ASSUME NEW d \in Deliveries, Refuse(d) \/ Fail(d)
      PROVE  ReadRowsAreCurrent'
    BY <1>7, RefuseOrFailDrops DEF Dropped, Idle, rows
<1>8. CASE UNCHANGED vars
    BY <1>8 DEF vars
<1>9. QED
    BY <1>1, <1>2, <1>3, <1>4, <1>5, <1>6, <1>7, <1>8 DEF Next, Batched

\* A source whose rows a step leaves alone, and whose deliveries under way it
\* leaves alone or forgets, keeps what its holder relies on.
LEMMA HoldersUndisturbed ==
    ASSUME HoldersAreExclusive, ProjectedEdgesFit, NEW s \in Sources,
           facts'[s] = facts[s],
           connector'[s].seq = connector[s].seq, connector'[s].open = connector[s].open,
           \A e \in Deliveries : job'[e].at = "applied" /\ job'[e].source = s => job'[e] = job[e]
    PROVE  \A d \in Deliveries, m \in Traffic :
               job'[d].at = "applied" /\ job'[d].source = s /\ job'[d].msg = m =>
                   /\ connector'[s].seq = job'[d].seen.seq
                   /\ Acceptable(s, m, connector[s].open)'
                   /\ \A e \in Deliveries : job'[e].at = "applied" /\ job'[e].source = s => e = d
                   /\ Between(s, Applied(s, m)["live"], job[d].edges)'
<1> SUFFICES ASSUME NEW d \in Deliveries, NEW m \in Traffic,
                    job'[d].at = "applied", job'[d].source = s, job'[d].msg = m
             PROVE  /\ connector'[s].seq = job'[d].seen.seq
                    /\ Acceptable(s, m, connector[s].open)'
                    /\ \A e \in Deliveries : job'[e].at = "applied" /\ job'[e].source = s => e = d
                    /\ Between(s, Applied(s, m)["live"], job[d].edges)'
    OBVIOUS
<1>1. job'[d] = job[d]
    OBVIOUS
<1>2. /\ connector[s].seq = job[d].seen.seq
      /\ Acceptable(s, m, connector[s].open)
      /\ \A e \in Deliveries : job[e].at = "applied" /\ job[e].source = s => e = d
    BY <1>1 DEF HoldersAreExclusive
<1>3. Acceptable(s, m, connector[s].open)'
    BY <1>2 DEF Acceptable
<1>4. \A e \in Deliveries : job'[e].at = "applied" /\ job'[e].source = s => e = d
    BY <1>2
<1>5. Applied(s, m)' = Applied(s, m)
    BY DEF Applied, Promote, Discard
<1>6. Between(s, Applied(s, m)["live"], job[d].edges)'
    BY <1>1, <1>5 DEF ProjectedEdgesFit, Between, Owned, Supported, EdgesOf, NodesOf
<1>7. QED
    BY <1>1, <1>2, <1>3, <1>4, <1>6

\* A delivery that takes the lock of its row is its only holder, and its
\* message is acceptable to the row as it is now.
LEMMA ApplyHolds ==
    ASSUME TypeOK, DeliveriesHaveMessages, ReadRowsAreCurrent, GraphFollowsFacts,
           NEW d \in Deliveries, Apply(d), NEW s \in Sources, s = job[d].source,
           NEW m \in Traffic, m = job[d].msg
    PROVE  /\ connector'[s].seq = job'[d].seen.seq
           /\ Acceptable(s, m, connector[s].open)'
           /\ \A e \in Deliveries : job'[e].at = "applied" /\ job'[e].source = s => e = d
           /\ Between(s, Applied(s, m)["live"], job[d].edges)'
<1> USE DEF TypeOK
<1>1. UNCHANGED <<connector, facts, graph>> /\ job[d].at = "read"
    BY DEF Apply, rows
<1>2. job[d].seen = connector[s]
    BY DEF Apply, Swaps, ReadRowsAreCurrent
<1>3. Acceptable(s, m, connector[s].open)
    BY <1>2 DEF Apply
<1>4. /\ job'[d].seen = job[d].seen
      /\ \A e \in Deliveries : e # d => job'[e] = job[e]
      /\ job'[d].edges = IF Publishes(m)
            THEN EdgesOf(s, Applied(s, m)["live"], NodesOf(Applied(s, m)["live"]) \cup OtherNodes(s))
            ELSE graph[s].edges
    BY DEF Apply, Delivery
<1>5. \A e \in Deliveries : job'[e].at = "applied" /\ job'[e].source = s => e = d
    BY <1>4 DEF Apply, Locked
<1>6. PICK inv, edges : inv = Applied(s, m)["live"] /\ edges = job'[d].edges
    OBVIOUS
<1>7. Between(s, inv, edges)
  <2>1. CASE Publishes(m)
    <3>1. PICK others : others = OtherNodes(s)
        OBVIOUS
    <3>2. edges = EdgesOf(s, inv, NodesOf(inv) \cup others)
        BY <1>4, <1>6, <2>1, <3>1
    <3>3. QED
        BY <3>2, ProjectionFits
  <2>2. CASE ~Publishes(m)
    <3>1. inv = facts[s]["live"]
        BY <1>3, <1>6, <2>2, AppliedLive DEF Acceptable
    <3>2. QED
        BY <1>4, <1>6, <2>2, <3>1 DEF GraphFollowsFacts
  <2>3. QED
      BY <2>1, <2>2
<1>8. Between(s, Applied(s, m)["live"], job[d].edges)'
  <2>1. Applied(s, m)' = Applied(s, m)
      BY <1>1 DEF Applied, Promote, Discard
  <2>2. QED
      BY <1>6, <1>7, <2>1 DEF Between, Owned, Supported, EdgesOf, NodesOf
<1>9. Acceptable(s, m, connector[s].open)'
    BY <1>1, <1>3 DEF Acceptable
<1>10. QED
    BY <1>1, <1>2, <1>4, <1>5, <1>8, <1>9

\* A step keeps holders exclusive and what they have projected fitting.
LEMMA StepHolders ==
    TypeOK /\ DeliveriesHaveMessages /\ ReadRowsAreCurrent /\ HoldersAreExclusive
        /\ ProjectedEdgesFit /\ GraphFollowsFacts /\ [Next]_vars
        => HoldersAreExclusive' /\ ProjectedEdgesFit'
<1> SUFFICES ASSUME TypeOK, DeliveriesHaveMessages, ReadRowsAreCurrent, HoldersAreExclusive,
                    ProjectedEdgesFit, GraphFollowsFacts, [Next]_vars
             PROVE  HoldersAreExclusive' /\ ProjectedEdgesFit'
    OBVIOUS
<1> DEFINE Kept(s) == \A d \in Deliveries, m \in Traffic :
               job'[d].at = "applied" /\ job'[d].source = s /\ job'[d].msg = m =>
                   /\ connector'[s].seq = job'[d].seen.seq
                   /\ Acceptable(s, m, connector[s].open)'
                   /\ \A e \in Deliveries : job'[e].at = "applied" /\ job'[e].source = s => e = d
                   /\ Between(s, Applied(s, m)["live"], job[d].edges)'
<1> DEFINE Undisturbed(s) ==
               /\ facts'[s] = facts[s]
               /\ connector'[s].seq = connector[s].seq /\ connector'[s].open = connector[s].open
               /\ \A e \in Deliveries :
                     job'[e].at = "applied" /\ job'[e].source = s => job'[e] = job[e]
<1>1. ASSUME NEW s \in Sources, Undisturbed(s)
      PROVE  Kept(s)
    BY <1>1, HoldersUndisturbed
<1>2. ASSUME NEW s \in Sources
      PROVE  Kept(s)
  <2> USE DEF TypeOK
  <2>1. ASSUME NEW t \in Sources, Register(t) \/ Batched(t)
        PROVE  Undisturbed(s)
      BY <2>1, BatchedLeaves DEF Register, ConnectorRow
  <2>2. ASSUME NEW d \in Deliveries, NEW t \in Sources, NEW m \in Traffic, Receive(d, t, m)
        PROVE  Undisturbed(s)
      BY <2>2 DEF Receive, Idle, rows
  <2>3. ASSUME NEW d \in Deliveries, ReadState(d)
        PROVE  Undisturbed(s)
      BY <2>3 DEF ReadState, Delivery, rows
  <2>4. ASSUME NEW d \in Deliveries, Apply(d)
        PROVE  Kept(s)
    <3>1. /\ job'[d].source = job[d].source /\ job'[d].msg = job[d].msg
          /\ \A e \in Deliveries : e # d => job'[e] = job[e]
          /\ UNCHANGED <<connector, facts>>
        BY <2>4 DEF Apply, Delivery, rows
    <3>2. CASE job[d].source = s
      <4>1. job[d].msg \in Traffic
          BY <2>4 DEF Apply, DeliveriesHaveMessages
      <4>2. \A e \in Deliveries : job'[e].at = "applied" /\ job'[e].source = s => e = d
          BY <2>4, <3>2, <4>1, ApplyHolds
      <4>3. QED
          BY <2>4, <3>1, <3>2, <4>1, <4>2, ApplyHolds
    <3>3. CASE job[d].source # s
      <4>1. Undisturbed(s)
          BY <3>1, <3>3
      <4>2. QED
          BY <1>1, <4>1
    <3>4. QED
        BY <3>2, <3>3
  <2>5. ASSUME NEW d \in Deliveries, Commit(d)
        PROVE  Kept(s)
    <3>1. PICK t \in Sources, m \in Traffic : TakesEffect(d, t, m)
        BY <2>5, CommitValue
    <3>2. CASE t = s
      <4>1. \A e \in Deliveries : ~(job'[e].at = "applied" /\ job'[e].source = s)
          BY <3>1, <3>2 DEF TakesEffect, Idle, HoldersAreExclusive
      <4>2. QED
          BY <4>1
    <3>3. CASE t # s
      <4>1. Undisturbed(s)
          BY <3>1, <3>3 DEF TakesEffect, Idle
      <4>2. QED
          BY <1>1, <4>1
    <3>4. QED
        BY <3>2, <3>3
  <2>6. ASSUME NEW d \in Deliveries, Refuse(d) \/ Fail(d)
        PROVE  Undisturbed(s)
      BY <2>6, RefuseOrFailDrops DEF Dropped, Idle, rows
  <2>7. CASE UNCHANGED vars
    <3>1. Undisturbed(s)
        BY <2>7 DEF vars
    <3>2. QED
        BY <1>1, <3>1
  <2>8. QED
      BY <1>1, <2>1, <2>2, <2>3, <2>4, <2>5, <2>6, <2>7 DEF Next, Batched
<1>3. HoldersAreExclusive'
    BY <1>2 DEF HoldersAreExclusive
<1>4. ProjectedEdgesFit'
    BY <1>2 DEF ProjectedEdgesFit
<1>5. QED
    BY <1>3, <1>4

-----------------------------------------------------------------------------
(* What commits do to the rows *)

\* No row changes but by a message taking effect; a registration leaves the
\* sequence and the open snapshot of its row alone.
LEMMA OnlyCommitsWrite ==
    ASSUME TypeOK, DeliveriesHaveMessages, [Next]_vars
    PROVE  \/ /\ UNCHANGED <<facts, receipts, graph>>
              /\ \A s \in Sources : connector'[s].seq = connector[s].seq
                                    /\ connector'[s].open = connector[s].open
           \/ \E d \in Deliveries, s \in Sources, m \in Traffic : TakesEffect(d, s, m)
<1> DEFINE Quiet == /\ UNCHANGED <<facts, receipts, graph>>
                    /\ \A s \in Sources : connector'[s].seq = connector[s].seq
                                          /\ connector'[s].open = connector[s].open
<1>1. ASSUME NEW s \in Sources, Register(s)
      PROVE  Quiet
    BY <1>1 DEF Register, TypeOK, ConnectorRow
<1>2. ASSUME NEW s \in Sources, Batched(s)
      PROVE  Quiet
    BY <1>2, BatchedLeaves
<1>3. ASSUME NEW d \in Deliveries, NEW s \in Sources, NEW m \in Traffic, Receive(d, s, m)
      PROVE  Quiet
    BY <1>3 DEF Receive, rows
<1>4. ASSUME NEW d \in Deliveries, ReadState(d) \/ Apply(d) \/ Refuse(d) \/ Fail(d)
      PROVE  Quiet
    BY <1>4 DEF ReadState, Apply, Refuse, Fail, rows
<1>5. ASSUME NEW d \in Deliveries, Commit(d)
      PROVE  \E s \in Sources, m \in Traffic : TakesEffect(d, s, m)
    BY <1>5, CommitValue
<1>6. CASE UNCHANGED vars
    BY <1>6 DEF vars
<1>7. QED
    BY <1>1, <1>2, <1>3, <1>4, <1>5, <1>6 DEF Next, Batched

\* When a message takes effect it is the next one, entitled and acceptable.
LEMMA EffectsAreChecked ==
    ASSUME IInv, NEW d \in Deliveries, NEW s \in Sources, NEW m \in Traffic, TakesEffect(d, s, m)
    PROVE  /\ m.seq = connector[s].seq + 1 /\ connector[s].seq \in Nat
           /\ Acceptable(s, m, connector[s].open)
           /\ Entitled(s, m) /\ m.snap # "live"
           /\ connector'[s].seq = m.seq /\ connector'[s].open = OpenAfter(m)
           /\ \A t \in Sources : t # s => connector'[t] = connector[t]
           /\ facts'[s] = Applied(s, m)
           /\ \A t \in Sources : t # s => facts'[t] = facts[t]
           /\ receipts'[s] = receipts[s] \cup {m}
           /\ \A t \in Sources : t # s => receipts'[t] = receipts[t]
<1>1. m.seq = connector[s].seq + 1
    BY HoldersAreNext DEF IInv
<1>2. Acceptable(s, m, connector[s].open)
    BY DEF IInv, HoldersAreExclusive, TakesEffect
<1>3. Entitled(s, m) /\ m.snap # "live"
    BY <1>2 DEF Acceptable
<1>4. QED
    BY <1>1, <1>2, <1>3 DEF IInv, TypeOK, ConnectorRow, TakesEffect

\* A step keeps every fact one its source may assert.
LEMMA StepEntitled ==
    ASSUME IInv, [Next]_vars
    PROVE  FactsAreEntitled'
<1>1. CASE UNCHANGED <<facts, receipts, graph>>
    BY <1>1 DEF IInv, FactsAreEntitled
<1>2. ASSUME NEW d \in Deliveries, NEW s \in Sources, NEW m \in Traffic, TakesEffect(d, s, m)
      PROVE  FactsAreEntitled'
  <2>1. \A g \in Generations, k \in Keys : Applied(s, m)[g][k] # None => MayAssert(s, k)
      BY <1>2, EffectsAreChecked, AppliedEntitled DEF IInv, TypeOK
  <2>2. QED
      BY <1>2, <2>1, EffectsAreChecked DEF IInv, FactsAreEntitled
<1>3. QED
    BY <1>1, <1>2, OnlyCommitsWrite DEF IInv

\* A step keeps the receipts a prefix.
LEMMA StepReceipts ==
    ASSUME IInv, [Next]_vars
    PROVE  ReceiptsAreThePrefix'
<1>1. CASE /\ UNCHANGED <<facts, receipts, graph>>
           /\ \A s \in Sources : connector'[s].seq = connector[s].seq
                                 /\ connector'[s].open = connector[s].open
    BY <1>1 DEF IInv, ReceiptsAreThePrefix
<1>2. ASSUME NEW d \in Deliveries, NEW s \in Sources, NEW m \in Traffic, TakesEffect(d, s, m)
      PROVE  ReceiptsAreThePrefix'
  <2> SUFFICES ASSUME NEW t \in Sources
               PROVE  /\ {n.seq : n \in receipts'[t]} = 1 .. connector'[t].seq
                      /\ \A n, p \in receipts'[t] : n.seq = p.seq => n = p
      BY DEF ReceiptsAreThePrefix
  <2>1. CASE t # s
      BY <1>2, <2>1, EffectsAreChecked DEF IInv, ReceiptsAreThePrefix
  <2>2. CASE t = s
    <3>1. {n.seq : n \in receipts[s]} = 1 .. connector[s].seq
        BY DEF IInv, ReceiptsAreThePrefix
    <3>2. {n.seq : n \in receipts'[s]} = {n.seq : n \in receipts[s]} \cup {m.seq}
        BY <1>2, EffectsAreChecked
    <3>3. 1 .. (connector[s].seq + 1) = (1 .. connector[s].seq) \cup {connector[s].seq + 1}
        BY <1>2, EffectsAreChecked
    <3>4. {n.seq : n \in receipts'[s]} = 1 .. connector'[s].seq
        BY <1>2, <3>1, <3>2, <3>3, EffectsAreChecked
    <3>5. \A n \in receipts[s] : n.seq # m.seq
        BY <1>2 DEF TakesEffect, Receipted
    <3>6. \A n, p \in receipts'[s] : n.seq = p.seq => n = p
        BY <1>2, <3>5, EffectsAreChecked DEF IInv, ReceiptsAreThePrefix
    <3>7. QED
        BY <2>2, <3>4, <3>6
  <2>3. QED
      BY <2>1, <2>2
<1>3. QED
    BY <1>1, <1>2, OnlyCommitsWrite DEF IInv

\* A step leaves no facts staged for anything but the open snapshot.
LEMMA StepStaged ==
    ASSUME IInv, [Next]_vars
    PROVE  NoOrphanGeneration'
<1>1. CASE /\ UNCHANGED <<facts, receipts, graph>>
           /\ \A s \in Sources : connector'[s].seq = connector[s].seq
                                 /\ connector'[s].open = connector[s].open
    BY <1>1 DEF IInv, NoOrphanGeneration
<1>2. ASSUME NEW d \in Deliveries, NEW s \in Sources, NEW m \in Traffic, TakesEffect(d, s, m)
      PROVE  NoOrphanGeneration'
  <2> SUFFICES ASSUME NEW t \in Sources, NEW g \in SnapshotIds \ {"live"}
               PROVE  facts'[t][g] # Empty => connector'[t].open = g
      BY DEF NoOrphanGeneration
  <2> USE EffectsAreChecked, TrafficType, AbsentAssumption
  <2>1. CASE t # s
      BY <1>2, <2>1 DEF IInv, NoOrphanGeneration
  <2>2. CASE t = s
    <3>1. facts'[s] = Applied(s, m) /\ connector'[s].open = OpenAfter(m)
        BY <1>2
    <3>2. facts[s][g] # Empty => connector[s].open = g
        BY DEF IInv, NoOrphanGeneration
    <3>3. facts[s] \in [Generations -> Inventory] /\ g \in Generations
        BY DEF IInv, TypeOK, Generations
    <3>4. Acceptable(s, m, connector[s].open) /\ m.snap # "live"
        BY <1>2
    <3>5. CASE m.op = "begin"
        BY <2>2, <3>1, <3>2, <3>4, <3>5 DEF Applied, Acceptable
    <3>6. CASE m.op = "page"
        BY <2>2, <3>1, <3>2, <3>3, <3>4, <3>6 DEF Applied, Acceptable, OpenAfter
    <3>7. CASE m.op = "complete"
        BY <2>2, <3>1, <3>2, <3>3, <3>4, <3>7 DEF Applied, Promote, Acceptable
    <3>8. CASE m.op = "abort"
        BY <2>2, <3>1, <3>2, <3>3, <3>4, <3>8 DEF Applied, Discard, Acceptable
    <3>9. CASE m.op = "delta"
        BY <2>2, <3>1, <3>2, <3>3, <3>4, <3>9 DEF Applied, Acceptable
    <3>10. QED
        BY <3>5, <3>6, <3>7, <3>8, <3>9 DEF Operations
  <2>3. QED
      BY <2>1, <2>2
<1>3. QED
    BY <1>1, <1>2, OnlyCommitsWrite DEF IInv

\* A step keeps the graph the projection of the facts.
LEMMA StepGraph ==
    ASSUME IInv, [Next]_vars
    PROVE  GraphFollowsFacts'
<1> USE DEF Between, Owned, Supported, EdgesOf, NodesOf
<1>1. CASE UNCHANGED <<facts, receipts, graph>>
    BY <1>1 DEF IInv, GraphFollowsFacts
<1>2. ASSUME NEW d \in Deliveries, NEW s \in Sources, NEW m \in Traffic, TakesEffect(d, s, m)
      PROVE  GraphFollowsFacts'
  <2> SUFFICES ASSUME NEW t \in Sources
               PROVE  /\ graph'[t].nodes = NodesOf(facts'[t]["live"])
                      /\ Between(t, facts[t]["live"], graph[t].edges)'
      BY DEF GraphFollowsFacts
  <2>1. CASE t # s
    <3>1. graph'[t] = graph[t] /\ facts'[t] = facts[t]
        BY <1>2, <2>1 DEF TakesEffect, IInv, TypeOK
    <3>2. QED
        BY <3>1 DEF IInv, GraphFollowsFacts
  <2>2. CASE t = s
    <3>1. PICK inv : inv = Applied(s, m)["live"]
        OBVIOUS
    <3>2. facts'[s]["live"] = inv
        BY <1>2, <3>1, EffectsAreChecked
    <3>3. Between(s, inv, job[d].edges)
        BY <1>2, <3>1 DEF IInv, ProjectedEdgesFit, TakesEffect
    <3>4. graph'[s].edges = job[d].edges
        BY <1>2 DEF TakesEffect, IInv, TypeOK
    <3>5. graph'[s].nodes = NodesOf(inv)
      <4>1. CASE Publishes(m)
          BY <1>2, <3>1, <4>1 DEF TakesEffect, IInv, TypeOK
      <4>2. CASE ~Publishes(m)
        <5>1. inv = facts[s]["live"]
            BY <1>2, <3>1, <4>2, AppliedLive, EffectsAreChecked DEF IInv, TypeOK
        <5>2. graph'[s].nodes = graph[s].nodes
            BY <1>2, <4>2 DEF TakesEffect, IInv, TypeOK
        <5>3. QED
            BY <5>1, <5>2 DEF IInv, GraphFollowsFacts
      <4>3. QED
          BY <4>1, <4>2
    <3>6. QED
        BY <2>2, <3>2, <3>3, <3>4, <3>5
  <2>3. QED
      BY <2>1, <2>2
<1>3. QED
    BY <1>1, <1>2, OnlyCommitsWrite DEF IInv

-----------------------------------------------------------------------------
(* The theorems *)

\* The invariant holds initially.
LEMMA InitInvariant == Init => IInv
<1> SUFFICES ASSUME Init
             PROVE  IInv
    OBVIOUS
<1>1. FactsAreEntitled
    BY EmptyHasNothing DEF Init, FactsAreEntitled
<1>2. ReceiptsAreThePrefix
  <2> SUFFICES ASSUME NEW s \in Sources
               PROVE  /\ {m.seq : m \in receipts[s]} = 1 .. connector[s].seq
                      /\ \A m, n \in receipts[s] : m.seq = n.seq => m = n
      BY DEF ReceiptsAreThePrefix
  <2>1. receipts[s] = {} /\ connector[s].seq = 0
      BY DEF Init, Unregistered
  <2>2. {m.seq : m \in receipts[s]} = {} /\ 1 .. 0 = {}
      BY <2>1
  <2>3. QED
      BY <2>1, <2>2
<1>3. NoOrphanGeneration
    BY DEF Init, NoOrphanGeneration, Generations
<1>4. GraphFollowsFacts
  <2>1. \A s \in Sources : NodesOf(facts[s]["live"]) = {} /\ Supported(s, facts[s]["live"]) = {}
      BY EmptyHasNothing DEF Init, NodesOf, Supported, EdgesOf, Generations, Keys
  <2>2. QED
      BY <2>1 DEF Init, GraphFollowsFacts, Between, Owned
<1>5. QED
    BY <1>1, <1>2, <1>3, <1>4, InitType, InitDeliveries DEF IInv

\* The invariant is inductive.
LEMMA StepInvariant == IInv /\ [Next]_vars => IInv'
<1> SUFFICES ASSUME IInv, [Next]_vars
             PROVE  IInv'
    OBVIOUS
<1>1. TypeOK' /\ DeliveriesHaveMessages' /\ ReadRowsAreCurrent'
    BY StepType, StepMessages, StepReads DEF IInv
<1>2. HoldersAreExclusive' /\ ProjectedEdgesFit'
    BY StepHolders DEF IInv
<1>3. QED
    BY <1>1, <1>2, StepEntitled, StepReceipts, StepStaged, StepGraph DEF IInv

\* Every reachable state satisfies it.
THEOREM Invariant == Spec => []IInv
BY InitInvariant, StepInvariant, PTL DEF Spec

\* The rows and the locals keep their types (models.py 263-290).
THEOREM TypeCorrect == Spec => []TypeOK
BY Invariant, PTL DEF IInv

\* Receipts are the acknowledged prefix, one for each sequence number, whatever
\* deliveries race, die or are repeated (sync.py 150-164, 222).
THEOREM ReceiptsHold == Spec => []ReceiptsAreThePrefix
BY Invariant, PTL DEF IInv

\* Facts are staged only for the snapshot under way (sync.py 174-201).
THEOREM StagingHolds == Spec => []NoOrphanGeneration
BY Invariant, PTL DEF IInv

\* The graph is the projection of the published facts (sync.py _project).
THEOREM GraphHolds == Spec => []GraphFollowsFacts
BY Invariant, PTL DEF IInv

\* A projected edge that can be walked is backed now by its source and by the
\* owners of its ends: a node of the graph is a fact of the one source that may
\* assert it.
LEMMA EvidenceFollows ==
    ASSUME IInv, NEW s \in Sources, NEW r \in Projected(s) \cap Traversable PROVE Backed(s, r)
<1>1. r \in Supported(s, facts[s]["live"])
    BY DEF Projected, IInv, GraphFollowsFacts, Between
<1>2. facts[s]["live"][r] # None /\ s \in Platform /\ AllPlain(facts[s]["live"])
    BY <1>1 DEF Supported, EdgesOf
<1>3. ASSUME NEW o \in Ends[r]
      PROVE  facts[Home[o]]["live"][o] # None
  <2>1. PICK t \in Sources : o \in graph[t].nodes
      BY DEF Projected, Nodes
  <2>2. o \in Objects /\ facts[t]["live"][o] # None
      BY <2>1 DEF IInv, GraphFollowsFacts, NodesOf
  <2>3. Home[o] = t
      BY <2>2 DEF IInv, FactsAreEntitled, MayAssert, Generations, Keys
  <2>4. QED
      BY <2>2, <2>3
<1>4. QED
    BY <1>2, <1>3 DEF Backed

\* A source that has been swept has nothing left of batches and can get no more,
\* and a publication that will have swept its source has found all there is.
SweepsAreFinal ==
    /\ \A s \in swept : connector[s].registered /\ ingesting[s] = {} /\ legacy[s] = {}
    /\ \A d \in Deliveries : job[d].at = "applied" /\ job[d].last =>
         LET s == job[d].source
         IN  connector[s].registered /\ ingesting[s] = {} /\ legacy[s] \subseteq job[d].found

LEMMA InitSweeps == Init => SweepsAreFinal
BY DEF Init, Idle, SweepsAreFinal

LEMMA StepSweeps == IInv /\ SweepsAreFinal /\ [Next]_vars => SweepsAreFinal'
<1> SUFFICES ASSUME IInv, SweepsAreFinal, [Next]_vars PROVE SweepsAreFinal'
    OBVIOUS
<1> USE DEF SweepsAreFinal
<1>1. TypeOK /\ DeliveriesHaveMessages /\ ReadRowsAreCurrent
    BY DEF IInv
<1>2. ASSUME NEW s \in Sources, Register(s) PROVE SweepsAreFinal'
  <2>1. /\ \A t \in Sources : connector[t].registered => connector'[t].registered
        /\ UNCHANGED <<job, ingesting, legacy, swept>>
      BY <1>1, <1>2 DEF Register, batches, TypeOK, ConnectorRow
  <2>2. QED
      BY <1>1, <2>1 DEF TypeOK, DeliveriesHaveMessages
<1>3. ASSUME NEW s \in Sources, NEW batch \in SUBSET Relationships, CheckLegacy(s, batch)
      PROVE  SweepsAreFinal'
  <2>1. /\ ~connector[s].registered /\ UNCHANGED <<connector, job, legacy, swept>>
        /\ \A t \in Sources \ {s} : ingesting'[t] = ingesting[t]
      BY <1>1, <1>3 DEF CheckLegacy, TypeOK, rows
  <2>2. QED
      BY <1>1, <2>1 DEF TypeOK, DeliveriesHaveMessages
<1>4. ASSUME NEW s \in Sources, CommitLegacy(s) \/ FailLegacy(s)
      PROVE  SweepsAreFinal'
  <2>1. /\ ingesting[s] # {} /\ ingesting'[s] = {} /\ UNCHANGED <<connector, job, swept>>
        /\ \A t \in Sources \ {s} : ingesting'[t] = ingesting[t] /\ legacy'[t] = legacy[t]
      BY <1>1, <1>4 DEF CommitLegacy, FailLegacy, TypeOK, rows
  <2>2. QED
      BY <1>1, <2>1 DEF TypeOK, DeliveriesHaveMessages
<1>5. ASSUME NEW d \in Deliveries, NEW s \in Sources, NEW m \in Traffic, Receive(d, s, m)
      PROVE  SweepsAreFinal'
    BY <1>1, <1>5 DEF Receive, Idle, rows, batches, TypeOK
<1>6. ASSUME NEW d \in Deliveries, ReadState(d) PROVE SweepsAreFinal'
  <2>1. job'[d].at = "read" /\ \A e \in Deliveries \ {d} : job'[e] = job[e]
      BY <1>1, <1>6 DEF ReadState, TypeOK, Delivery
  <2>2. UNCHANGED <<connector, ingesting, legacy, swept>>
      BY <1>6 DEF ReadState, rows, batches
  <2>3. QED
      BY <2>1, <2>2
<1>7. ASSUME NEW d \in Deliveries, Apply(d) PROVE SweepsAreFinal'
  <2> DEFINE s == job[d].source
             m == job[d].msg
  <2>1. /\ \A e \in Deliveries \ {d} : job'[e] = job[e]
        /\ job'[d].source = s /\ job'[d].found = Found(s, m)
        /\ job'[d].last = (Publishes(m) /\ ingesting[s] = {})
      BY <1>1, <1>7, ApplyValue
  <2>2. UNCHANGED <<connector, ingesting, legacy, swept>>
      BY <1>7 DEF Apply, rows, batches
  <2>3. connector[s].registered
      BY <1>1, <1>7 DEF Apply, Swaps, ReadRowsAreCurrent
  <2>4. job'[d].last => ingesting[s] = {} /\ legacy[s] \subseteq job'[d].found
      BY <2>1 DEF Found
  <2> HIDE DEF s, m
  <2>5. QED
      BY <2>1, <2>2, <2>3, <2>4
<1>8. ASSUME NEW d \in Deliveries, Commit(d) PROVE SweepsAreFinal'
  <2>1. PICK s \in Sources, m \in Traffic : TakesEffect(d, s, m)
      BY <1>1, <1>8, CommitValue
  <2>2. /\ s = job[d].source /\ job[d].at = "applied" /\ job'[d].at = "idle"
        /\ \A e \in Deliveries \ {d} : job'[e] = job[e]
        /\ \A t \in Sources : connector'[t].registered = connector[t].registered
        /\ ingesting' = ingesting
        /\ swept' = swept \/ (job[d].last /\ swept' = swept \cup {s})
        /\ legacy'[s] = legacy[s] \ job[d].found
        /\ \A t \in Sources \ {s} : legacy'[t] = legacy[t]
      BY <1>1, <2>1 DEF TakesEffect, TypeOK, Idle, ConnectorRow
  <2>3. \A t \in Sources : legacy'[t] \subseteq legacy[t]
      BY <2>2
  <2>4. ASSUME NEW t \in swept'
        PROVE  connector'[t].registered /\ ingesting'[t] = {} /\ legacy'[t] = {}
    <3>1. CASE t \in swept
        BY <1>1, <2>2, <2>3, <3>1 DEF TypeOK
    <3>2. CASE t = s /\ job[d].last
        BY <2>2, <3>2
    <3>3. QED
        BY <2>2, <3>1, <3>2
  <2>5. \A e \in Deliveries \ {d} : job[e].at # "idle" => job[e].source \in Sources
      BY <1>1 DEF DeliveriesHaveMessages
  <2>6. ASSUME NEW e \in Deliveries, job'[e].at = "applied", job'[e].last
        PROVE  /\ connector'[job'[e].source].registered /\ ingesting'[job'[e].source] = {}
               /\ legacy'[job'[e].source] \subseteq job'[e].found
    <3>1. e # d /\ job'[e] = job[e] /\ job[e].source \in Sources
        BY <2>2, <2>5, <2>6
    <3>2. QED
        BY <2>2, <2>3, <2>6, <3>1
  <2>7. QED
      BY <2>4, <2>6
<1>9. ASSUME NEW d \in Deliveries, Refuse(d) \/ Fail(d) PROVE SweepsAreFinal'
  <2>1. job' = [job EXCEPT ![d] = Idle] /\ UNCHANGED <<connector, ingesting, legacy, swept>>
      BY <1>9, RefuseOrFailDrops DEF Dropped, rows, batches
  <2>2. QED
      BY <1>1, <2>1 DEF Idle, TypeOK
<1>10. CASE UNCHANGED vars
    BY <1>10 DEF vars
<1>11. QED
    BY <1>2, <1>3, <1>4, <1>5, <1>6, <1>7, <1>8, <1>9, <1>10 DEF Next

\* What a DELETE found is gone, and what came after one is known: sweeps are final.
LEMMA AlwaysSwept == Spec => []SweepsAreFinal
BY Invariant, InitSweeps, StepSweeps, PTL DEF Spec

\* An edge that can be walked and transfers authority is backed now, or a batch
\* has left it and its source has not published since with no batch under way
\* (sync.py 75-140, ingestion.py:165).
THEOREM AuthorityHolds == Spec => []AuthorityHasEvidence
<1>1. IInv /\ SweepsAreFinal => AuthorityHasEvidence
  <2> SUFFICES ASSUME IInv, SweepsAreFinal, NEW s \in Sources, NEW r \in Usable(s) \cap Traversable
               PROVE  Backed(s, r) \/ (r \in legacy[s] /\ s \notin swept)
      BY DEF AuthorityHasEvidence
  <2>1. CASE r \in Projected(s)
      BY <2>1, EvidenceFollows
  <2>2. CASE r \in legacy[s]
      BY <2>2 DEF SweepsAreFinal
  <2>3. QED
      BY <2>1, <2>2 DEF Usable
<1>2. QED
    BY Invariant, AlwaysSwept, <1>1, PTL

-----------------------------------------------------------------------------
(* The refinement *)

\* What the mapping makes of the staged facts and the published ones.
stagedOf(s) == IF connector[s].open = None THEN Empty ELSE facts[s][connector[s].open]

\* The inventory's vocabulary, seen through the mapping, is the messages' own.
LEMMA SameVocabulary ==
    /\ Published!Empty = Empty
    /\ \A s, m : Published!Entitled(s, m) <=> Entitled(s, m)
    /\ \A inv, puts : Published!NotOlder(inv, puts) <=> NotOlder(inv, puts)
    /\ \A inv, puts : Published!Upsert(inv, puts) = Upsert(inv, puts)
    /\ \A inv, keys : Published!Retract(inv, keys) = Retract(inv, keys)
BY DEF Published!Empty, Published!Entitled, Published!NotOlder, Published!Upsert,
       Published!Retract, Published!MayAssert, Published!Keys,
       Empty, Entitled, NotOlder, Upsert, Retract, MayAssert, Keys

\* A message that takes effect in the rows takes effect in the inventory.
LEMMA EffectsImplement ==
    ASSUME IInv, NEW d \in Deliveries, NEW s \in Sources, NEW m \in Traffic, TakesEffect(d, s, m)
    PROVE  \/ Published!Begin(s, m) \/ Published!Page(s, m) \/ Published!Complete(s, m)
           \/ Published!Abort(s, m) \/ Published!Delta(s, m)
<1> USE TrafficType, AbsentAssumption, SameVocabulary
<1>1. /\ Acceptable(s, m, connector[s].open) /\ m.snap # "live"
      /\ facts'[s] = Applied(s, m) /\ connector'[s].open = OpenAfter(m)
      /\ facts[s] \in [Generations -> Inventory]
      /\ \A t \in Sources : t # s => connector'[t] = connector[t] /\ facts'[t] = facts[t]
    BY EffectsAreChecked DEF IInv, TypeOK
<1>2. Published!Accept(s, m)
  <2>1. m.seq = connector[s].seq + 1 /\ Entitled(s, m) /\ connector'[s].seq = m.seq
      BY EffectsAreChecked
  <2>2. [t \in Sources |-> connector'[t].seq]
            = [[t \in Sources |-> connector[t].seq] EXCEPT ![s] = m.seq]
      BY <1>1, <2>1
  <2>3. receipts' = [receipts EXCEPT ![s] = @ \cup {m}]
      BY DEF TakesEffect
  <2>4. QED
      BY <2>1, <2>2, <2>3 DEF Published!Accept
<1>3. \A t \in Sources : t # s => stagedOf(t)' = stagedOf(t)
    BY <1>1 DEF stagedOf
<1> DEFINE opens == [t \in Sources |-> connector[t].open]
           stage == [t \in Sources |-> stagedOf(t)]
           lives == [t \in Sources |-> facts[t]["live"]]
<1>4. /\ opens' = [opens EXCEPT ![s] = connector'[s].open]
      /\ stage' = [stage EXCEPT ![s] = stagedOf(s)']
      /\ lives' = [lives EXCEPT ![s] = facts'[s]["live"]]
      /\ opens[s] = connector[s].open /\ stage[s] = stagedOf(s) /\ lives[s] = facts[s]["live"]
    BY <1>1, <1>3
<1>5. stage = [t \in Sources |-> IF connector[t].open = None THEN Empty
                                  ELSE facts[t][connector[t].open]]
    BY DEF stagedOf
<1>6. stage' = [t \in Sources |-> IF connector'[t].open = None THEN Empty
                                   ELSE facts'[t][connector'[t].open]]
    BY DEF stagedOf
<1>7. CASE m.op = "begin"
  <2>1. connector[s].open = None /\ facts[s][m.snap] = Empty
      BY <1>1, <1>7 DEF Acceptable
  <2>2. connector'[s].open = m.snap /\ facts'[s] = facts[s]
      BY <1>1, <1>7 DEF OpenAfter, Applied
  <2>3. stagedOf(s)' = stagedOf(s)
      BY <1>7, <2>1, <2>2 DEF stagedOf
  <2>4. stage' = stage /\ lives' = lives
      BY <1>4, <2>2, <2>3
  <2>5. Published!Begin(s, m)
      BY <1>2, <1>4, <1>5, <1>6, <1>7, <2>1, <2>2, <2>4 DEF Published!Begin
  <2>6. QED
      BY <2>5
<1>8. CASE m.op = "page"
  <2>1. connector[s].open = m.snap /\ NotOlder(facts[s][m.snap], m.puts)
      BY <1>1, <1>8 DEF Acceptable
  <2>2. /\ connector'[s].open = m.snap
        /\ facts'[s] = [facts[s] EXCEPT ![m.snap] = Upsert(@, m.puts)]
      BY <1>1, <1>8 DEF OpenAfter, Applied
  <2>3. facts'[s]["live"] = facts[s]["live"]
      BY <1>1, <2>2
  <2>4. stagedOf(s) = facts[s][m.snap] /\ stagedOf(s)' = Upsert(stagedOf(s), m.puts)
      BY <1>1, <1>8, <2>1, <2>2 DEF stagedOf, Generations
  <2>5. opens' = opens /\ lives' = lives
    <3>1. connector'[s].open = connector[s].open
        BY <2>1, <2>2
    <3>2. opens' = opens
        BY <1>4, <3>1
    <3>3. lives' = lives
        BY <1>4, <2>3
    <3>4. QED
        BY <3>2, <3>3
  <2>6. stage' = [stage EXCEPT ![s] = Upsert(@, m.puts)] /\ NotOlder(stage[s], m.puts)
      BY <1>4, <2>1, <2>4
  <2>7. Published!Page(s, m)
      BY <1>2, <1>4, <1>5, <1>6, <1>8, <2>1, <2>5, <2>6 DEF Published!Page
  <2>8. QED
      BY <2>7
<1>9. CASE m.op = "complete"
  <2>1. connector[s].open = m.snap /\ m.complete
      BY <1>1, <1>9 DEF Acceptable
  <2>2. connector'[s].open = None /\ facts'[s]["live"] = facts[s][m.snap]
      BY <1>1, <1>9 DEF OpenAfter, Applied, Promote, Generations
  <2>3. stagedOf(s) = facts[s][m.snap] /\ stagedOf(s)' = Empty
      BY <1>9, <2>1, <2>2 DEF stagedOf
  <2>4. Published!Complete(s, m)
      BY <1>2, <1>4, <1>5, <1>6, <1>9, <2>1, <2>2, <2>3 DEF Published!Complete
  <2>5. QED
      BY <2>4
<1>10. CASE m.op = "abort"
  <2>1. connector[s].open = m.snap
      BY <1>1, <1>10 DEF Acceptable
  <2>2. connector'[s].open = None /\ facts'[s]["live"] = facts[s]["live"]
      BY <1>1, <1>10 DEF OpenAfter, Applied, Discard, Generations
  <2>3. stagedOf(s)' = Empty
      BY <2>2 DEF stagedOf
  <2>4. Published!Abort(s, m)
      BY <1>2, <1>4, <1>5, <1>6, <1>10, <2>1, <2>2, <2>3 DEF Published!Abort
  <2>5. QED
      BY <2>4
<1>11. CASE m.op = "delta"
  <2>1. connector[s].open = None /\ NotOlder(Retract(facts[s]["live"], m.tombs), m.puts)
      BY <1>1, <1>11 DEF Acceptable
  <2>2. /\ connector'[s].open = None
        /\ facts'[s]["live"] = Upsert(Retract(facts[s]["live"], m.tombs), m.puts)
      BY <1>1, <1>11 DEF OpenAfter, Applied, Generations
  <2>3. stagedOf(s)' = stagedOf(s)
      BY <2>1, <2>2 DEF stagedOf
  <2>4. opens' = opens /\ stage' = stage
    <3>1. connector'[s].open = connector[s].open
        BY <2>1, <2>2
    <3>2. opens' = opens
        BY <1>4, <3>1
    <3>3. stage' = stage
        BY <1>4, <2>3
    <3>4. QED
        BY <3>2, <3>3
  <2>5. lives' = [lives EXCEPT ![s] = Upsert(Retract(@, m.tombs), m.puts)]
      BY <1>4, <2>2
  <2>6. Published!Delta(s, m)
      BY <1>2, <1>4, <1>5, <1>6, <1>11, <2>1, <2>4, <2>5 DEF Published!Delta
  <2>7. QED
      BY <2>6
<1>12. QED
    BY <1>7, <1>8, <1>9, <1>10, <1>11 DEF Operations

\* The rows implement the inventory the protocol promises: messages take
\* effect one at a time, in sequence, once and whole, snapshots are invisible
\* until they complete (sync.py apply_message).
THEOREM InventoryImplemented == Spec => ImplementsInventory
<1>1. Init => Published!Init
    BY SameVocabulary DEF Init, Unregistered, Published!Init, Generations
<1>2. IInv /\ [Next]_vars => [Published!Next]_(Published!vars)
  <2> SUFFICES ASSUME IInv, [Next]_vars
               PROVE  [Published!Next]_(Published!vars)
      OBVIOUS
  <2>1. CASE /\ UNCHANGED <<facts, receipts, graph>>
             /\ \A s \in Sources : connector'[s].seq = connector[s].seq
                                   /\ connector'[s].open = connector[s].open
      BY <2>1 DEF Published!vars
  <2>2. ASSUME NEW d \in Deliveries, NEW s \in Sources, NEW m \in Traffic, TakesEffect(d, s, m)
        PROVE  Published!Next
      BY <2>2, EffectsImplement DEF Published!Next
  <2>3. QED
      BY <2>1, <2>2, OnlyCommitsWrite DEF IInv
<1>3. QED
    BY <1>1, <1>2, Invariant, PTL DEF Spec, ImplementsInventory, Published!Spec
=============================================================================
