---------------------------- MODULE IngestionProofs ----------------------------
(***************************************************************************)
(* Proofs about Ingestion, for any sources, nodes, relationships, requests *)
(* and deliveries: types, that a batch is applied once under its key,      *)
(* through which nodes tokens become principals, that sources keep to      *)
(* their own rows, and which races duplicate a row.                        *)
(***************************************************************************)
EXTENDS Ingestion, FiniteSetTheorems, TLAPS

-----------------------------------------------------------------------------
(* The inductive invariant *)

\* A delivery that has begun has its request, and its place in the batch.
PlacesHold ==
    \A c \in Calls :
        /\ calls[c].pc # "idle" => Req(c) \in Requests
        /\ calls[c].pc \in {"look", "write", "lock", "commit"} =>
             /\ Len(Req(c).batch) >= 1
             /\ calls[c].item \in 1 .. LastItem(c)
        /\ calls[c].pc = "write" =>
             /\ calls[c].todo # None
             /\ calls[c].chain \/ calls[c].item # LastItem(c)

\* What a delivery is about to change it still sees.
ChangesStand ==
    \A c \in Calls : LET w == calls[c].todo
                     IN  w # None => w.new \/ Sees(c, w.row) # None

\* Receipts say who applied the batch, and what the others were told.
ReceiptsTell ==
    \A c \in Calls :
        /\ calls[c].pc = "idle" => calls[c].answer = "none"
        /\ calls[c].answer = "applied" /\ Req(c) # None /\ Req(c).key # None =>
             receipts[Req(c).source][Req(c).key] = c
        /\ calls[c].answer = "replayed" /\ Req(c) # None =>
             /\ Req(c).key # None
             /\ calls[c].told # None
             /\ calls[c].told = receipts[Req(c).source][Req(c).key]

IInv == TypeOK /\ PlacesHold /\ ChangesStand /\ ReceiptsTell

LEMMA RequestFields ==
    \A r \in Requests : /\ r.source \in Sources /\ r.key \in Keys \cup {None}
                        /\ r.batch \in Seq(Relationships) /\ Len(r.batch) \in Nat
                        /\ r.at \in 0 .. MaxClock /\ r.attrs \in Nat
BY IngestionAssumption DEF Request

LEMMA CallFields ==
    ASSUME IInv, NEW c \in Calls
    PROVE  /\ calls \in [Calls -> Call] /\ calls[c] \in Call
           /\ calls[c].request \in Requests \cup {None} /\ calls[c].item \in Nat
           /\ calls[c].todo \in Write \cup {None} /\ calls[c].chain \in BOOLEAN
           /\ calls[c].own \in [Rows -> Row \cup {None}]
           /\ table \in [Rows -> Row \cup {None}]
           /\ \A k \in Rows : Sees(c, k) \in Row \cup {None}
BY DEF IInv, TypeOK, Call, Sees

LEMMA InitIInv == Init => IInv
<1> SUFFICES ASSUME Init PROVE IInv
    OBVIOUS
<1>1. \A c \in Calls : calls[c] = Idle
    BY DEF Init
<1>2. Idle \in Call
  <2>1. NoWrites \in [Rows -> Row \cup {None}]
    BY DEF NoWrites
  <2>2. QED
    BY <2>1 DEF Idle, Call
<1>3. TypeOK
  <2>1. 1 \in 0 .. MaxClock
    BY IngestionAssumption
  <2>2. table \in [Rows -> Row \cup {None}]
    BY IngestionAssumption DEF Init, Rows
  <2>3. QED
    BY <1>2, <2>1, <2>2 DEF Init, TypeOK
<1>4. PlacesHold /\ ChangesStand /\ ReceiptsTell
    BY <1>1 DEF PlacesHold, ChangesStand, ReceiptsTell, Idle
<1>5. QED
    BY <1>3, <1>4 DEF IInv

-----------------------------------------------------------------------------
(* Steps of one delivery that leave the tables alone *)

\* What the invariant says of one delivery, if v is its state.
Good(c, v) ==
    /\ v.pc # "idle" => v.request \in Requests
    /\ v.pc \in {"look", "write", "lock", "commit"} =>
         /\ Len(v.request.batch) >= 1
         /\ v.item \in 1 .. 3 * Len(v.request.batch)
    /\ v.pc = "write" =>
         /\ v.todo # None
         /\ v.chain \/ v.item # 3 * Len(v.request.batch)
    /\ v.todo # None => \/ v.todo.new \/ v.own[v.todo.row] # None
                        \/ table[v.todo.row] # None
    /\ v.pc = "idle" => v.answer = "none"
    /\ v.answer = "applied" /\ v.request # None /\ v.request.key # None =>
         receipts[v.request.source][v.request.key] = c
    /\ v.answer = "replayed" /\ v.request # None =>
         /\ v.request.key # None
         /\ v.told # None
         /\ v.told = receipts[v.request.source][v.request.key]

LEMMA GoodCalls ==
    PlacesHold /\ ChangesStand /\ ReceiptsTell <=> \A c \in Calls : Good(c, calls[c])
<1>1. ASSUME NEW c \in Calls
      PROVE  LET w == calls[c].todo
             IN  (w # None => w.new \/ Sees(c, w.row) # None)
                   <=> (w # None => \/ w.new \/ calls[c].own[w.row] # None
                                    \/ table[w.row] # None)
    BY DEF Sees
<1>2. QED
    BY <1>1 DEF PlacesHold, ChangesStand, ReceiptsTell, Good, Req, LastItem

LEMMA GoodCallsNext ==
    (\A c \in Calls : Good(c, calls[c]))' => PlacesHold' /\ ChangesStand' /\ ReceiptsTell'
BY GoodCalls, PTL

LEMMA UpdateStep ==
    ASSUME IInv, NEW c \in Calls, NEW v \in Call, Update(c, v), Good(c, v),
           UNCHANGED <<clock, table, sources, receipts>>
    PROVE  IInv'
<1>1. calls' = [calls EXCEPT ![c] = v] /\ calls \in [Calls -> Call]
    BY DEF Update, IInv, TypeOK
<1>2. calls'[c] = v /\ \A d \in Calls \ {c} : calls'[d] = calls[d]
    BY <1>1
<1>3. \A d \in Calls : Good(d, calls[d])
    BY GoodCalls DEF IInv
<1>4. \A d \in Calls : Good(d, calls'[d])
    BY <1>2, <1>3
<1>5. (\A d \in Calls : Good(d, calls[d]))'
    BY <1>4 DEF Good
<1>6. PlacesHold' /\ ChangesStand' /\ ReceiptsTell'
    BY <1>5, GoodCallsNext
<1>7. TypeOK'
    BY <1>1 DEF IInv, TypeOK
<1>8. QED
    BY <1>6, <1>7 DEF IInv

LEMMA GoodNow == ASSUME IInv, NEW c \in Calls PROVE Good(c, calls[c])
BY GoodCalls DEF IInv

LEMMA FailStep ==
    ASSUME IInv, NEW c \in Calls, calls[c].pc # "idle", NEW answer \in {"refused", "error"},
           Fail(c, answer)
    PROVE  IInv'
<1> DEFINE v == [calls[c] EXCEPT !.pc = "ended", !.answer = answer, !.own = NoWrites,
                                 !.todo = None, !.chain = FALSE]
<1>1. NoWrites \in [Rows -> Row \cup {None}] /\ calls[c] \in Call /\ FALSE \in BOOLEAN
    BY CallFields DEF NoWrites
<1>2. /\ v \in Call /\ v.pc = "ended" /\ v.answer = answer /\ v.todo = None
      /\ v.request = calls[c].request
    BY <1>1 DEF Call
<1>3. v.request \in Requests
    BY <1>2, GoodNow DEF Good
<1> HIDE DEF v
<1>4. Good(c, v)
    BY <1>2, <1>3 DEF Good
<1>5. Update(c, v) /\ UNCHANGED <<clock, table, sources, receipts>>
    BY DEF Fail, v
<1>6. QED
    BY <1>2, <1>4, <1>5, UpdateStep

LEMMA ReceiveStep ==
    ASSUME IInv, NEW c \in Calls, NEW r \in Requests, Receive(c, r)
    PROVE  IInv'
<1> DEFINE call == [calls[c] EXCEPT !.request = r, !.met = Active]
           receipt == IF r.key = None THEN None ELSE receipts[r.source][r.key]
           refused == [call EXCEPT !.pc = "ended", !.answer = "refused"]
           replayed == [call EXCEPT !.pc = "ended", !.answer = "replayed", !.told = receipt]
           begun == [call EXCEPT !.pc = "look", !.item = 1, !.last = sources[r.source].last]
<1>1. /\ r.source \in Sources /\ r.key \in Keys \cup {None} /\ Len(r.batch) \in Nat
      /\ r.batch \in Seq(Relationships)
    BY RequestFields
<1>2. Active \subseteq Calls /\ calls[c] \in Call /\ calls[c].pc = "idle" /\ Good(c, calls[c])
    BY CallFields, GoodNow DEF Active, Receive
<1>3. /\ call \in Call /\ call.request = r /\ call.pc = "idle" /\ call.answer = "none"
      /\ call.todo = calls[c].todo /\ call.own = calls[c].own
  <2>1. calls[c].answer = "none"
    BY <1>2 DEF Good
  <2>2. QED
    BY <1>2, <2>1 DEF Call
<1> HIDE DEF call
<1>4. Update(c, refused) => IInv'
  <2>1. /\ refused \in Call /\ refused.pc = "ended" /\ refused.answer = "refused"
        /\ refused.request = r /\ refused.todo = calls[c].todo /\ refused.own = calls[c].own
    BY <1>3 DEF Call
  <2> HIDE DEF refused
  <2>2. Good(c, refused)
    BY <2>1, <1>2 DEF Good
  <2>3. QED
    BY <2>1, <2>2, UpdateStep DEF Receive
<1>5. receipt # None /\ Update(c, replayed) => IInv'
  <2>0. HAVE receipt # None /\ Update(c, replayed)
  <2>1. receipt \in Calls /\ r.key # None /\ receipt = receipts[r.source][r.key]
    BY <2>0, <1>1 DEF IInv, TypeOK
  <2> HIDE DEF receipt
  <2>2. /\ replayed \in Call /\ replayed.pc = "ended" /\ replayed.answer = "replayed"
        /\ replayed.told = receipt
        /\ replayed.request = r /\ replayed.todo = calls[c].todo /\ replayed.own = calls[c].own
    BY <1>3, <2>1 DEF Call
  <2> HIDE DEF replayed
  <2>3. Good(c, replayed)
    BY <2>0, <2>1, <2>2, <1>2 DEF Good
  <2>4. QED
    BY <2>0, <2>2, <2>3, UpdateStep DEF Receive
<1>6. Acceptable(r) /\ Update(c, begun) => IInv'
  <2>0. HAVE Acceptable(r) /\ Update(c, begun)
  <2>1. Len(r.batch) >= 1 /\ 1 \in 1 .. 3 * Len(r.batch)
    BY <2>0, <1>1, IngestionAssumption DEF Acceptable
  <2>2. sources[r.source].last \in 0 .. MaxClock \cup {None}
    BY <1>1 DEF IInv, TypeOK
  <2>3. /\ begun \in Call /\ begun.pc = "look" /\ begun.answer = "none" /\ begun.item = 1
        /\ begun.request = r /\ begun.todo = calls[c].todo /\ begun.own = calls[c].own
    BY <1>3, <2>2 DEF Call
  <2> HIDE DEF begun
  <2>4. Good(c, begun)
    BY <2>1, <2>3, <1>2 DEF Good
  <2>5. QED
    BY <2>0, <2>3, <2>4, UpdateStep DEF Receive
<1> HIDE DEF refused, replayed, begun, receipt
<1>7. \/ Update(c, refused)
      \/ receipt # None /\ Update(c, replayed)
      \/ Acceptable(r) /\ Update(c, begun)
  <2>1. Update(c, IF ~sources[r.source].enabled THEN refused
                  ELSE IF receipt # None THEN replayed
                  ELSE IF r.source \in Versioned \/ ~Acceptable(r) THEN refused
                  ELSE begun)
    BY DEF Receive, call, receipt, refused, replayed, begun
  <2>2. QED
    BY <2>1
<1>8. QED
    BY <1>4, <1>5, <1>6, <1>7

\* What a delivery in the middle of its batch is at.
LEMMA ItemFields ==
    ASSUME IInv, NEW c \in Calls, calls[c].pc = "look"
    PROVE  /\ calls[c].item \in 1 .. LastItem(c) /\ LastItem(c) \in Nat
           /\ Relation(c) \in Relationships
           /\ ~OnEdge(c) => Node(c) \in Nodes
<1>1. Req(c) \in Requests /\ calls[c].item \in 1 .. LastItem(c)
    BY DEF IInv, PlacesHold
<1>2. Req(c).batch \in Seq(Relationships) /\ Len(Req(c).batch) \in Nat
    BY <1>1, RequestFields
<1>3. calls[c].item \in Nat /\ calls[c].item >= 1 /\ calls[c].item <= 3 * Len(Req(c).batch)
    BY <1>1, <1>2 DEF LastItem
<1>4. (calls[c].item + 2) \div 3 \in 1 .. Len(Req(c).batch)
    BY <1>2, <1>3
<1>5. Relation(c) \in Relationships
    BY <1>2, <1>4 DEF Relation, RelationAt
<1>6. ~OnEdge(c) => calls[c].item % 3 \in {1, 2}
    BY <1>3 DEF OnEdge
<1>7. Ends[Relation(c)] \in Nodes \X Nodes
    BY <1>5, IngestionAssumption
<1>8. ~OnEdge(c) => Node(c) \in Nodes
    BY <1>6, <1>7 DEF Node, NodeAt, Relation
<1>9. QED
    BY <1>1, <1>2, <1>5, <1>8 DEF LastItem

LEMMA LookedStep ==
    ASSUME IInv, NEW c \in Calls, calls[c].pc = "look", NEW todo \in Write \cup {None},
           Looked(c, todo), todo # None => todo.new \/ Sees(c, todo.row) # None
    PROVE  IInv'
<1> DEFINE lock == [calls[c] EXCEPT !.pc = "lock", !.todo = todo]
           next == [calls[c] EXCEPT !.item = @ + 1]
           write == [calls[c] EXCEPT !.pc = "write", !.todo = todo]
<1>1. /\ calls[c] \in Call /\ Good(c, calls[c])
      /\ calls[c].request \in Requests /\ LastItem(c) = 3 * Len(calls[c].request.batch)
      /\ calls[c].item \in 1 .. LastItem(c) /\ LastItem(c) \in Nat
    BY CallFields, GoodNow, ItemFields DEF Good, Req, LastItem
<1>2. todo # None => todo.new \/ calls[c].own[todo.row] # None \/ table[todo.row] # None
    BY DEF Sees
<1>3. Update(c, lock) => IInv'
  <2>1. /\ lock \in Call /\ lock.pc = "lock" /\ lock.todo = todo /\ lock.item = calls[c].item
        /\ lock.request = calls[c].request /\ lock.answer = calls[c].answer
        /\ lock.own = calls[c].own /\ lock.told = calls[c].told
    BY <1>1 DEF Call
  <2> HIDE DEF lock
  <2>2. Good(c, lock)
    BY <1>1, <1>2, <2>1 DEF Good
  <2>3. QED
    BY <2>1, <2>2, UpdateStep DEF Looked
<1>4. calls[c].item # LastItem(c) /\ Update(c, next) => IInv'
  <2>0. HAVE calls[c].item # LastItem(c) /\ Update(c, next)
  <2>1. /\ next \in Call /\ next.pc = "look" /\ next.item = calls[c].item + 1
        /\ next.request = calls[c].request /\ next.answer = calls[c].answer
        /\ next.own = calls[c].own /\ next.todo = calls[c].todo /\ next.told = calls[c].told
    BY <1>1 DEF Call
  <2>2. next.item \in 1 .. LastItem(c)
    BY <2>0, <2>1, <1>1
  <2> HIDE DEF next
  <2>3. Good(c, next)
    BY <1>1, <2>1, <2>2 DEF Good
  <2>4. QED
    BY <2>0, <2>1, <2>3, UpdateStep DEF Looked
<1>5. calls[c].item # LastItem(c) /\ todo # None /\ Update(c, write) => IInv'
  <2>0. HAVE calls[c].item # LastItem(c) /\ todo # None /\ Update(c, write)
  <2>1. /\ write \in Call /\ write.pc = "write" /\ write.todo = todo
        /\ write.item = calls[c].item /\ write.chain = calls[c].chain
        /\ write.request = calls[c].request /\ write.answer = calls[c].answer
        /\ write.own = calls[c].own /\ write.told = calls[c].told
    BY <1>1 DEF Call
  <2> HIDE DEF write
  <2>2. Good(c, write)
    BY <1>1, <1>2, <2>0, <2>1 DEF Good
  <2>3. QED
    BY <2>0, <2>1, <2>2, UpdateStep DEF Looked
<1> HIDE DEF lock, next, write
<1>6. \/ Update(c, lock)
      \/ calls[c].item # LastItem(c) /\ Update(c, next)
      \/ calls[c].item # LastItem(c) /\ todo # None /\ Update(c, write)
  <2>1. Update(c, IF calls[c].item = LastItem(c) THEN lock
                  ELSE IF todo = None THEN next ELSE write)
    BY DEF Looked, lock, next, write
  <2>2. QED
    BY <2>1
<1>7. QED
    BY <1>3, <1>4, <1>5, <1>6

LEMMA ChangeIsWrite ==
    ASSUME NEW c \in Calls, NEW k \in Rows, NEW attrs \in BOOLEAN
    PROVE  \/ Change(c, k, attrs) = None
           \/ Change(c, k, attrs) \in Write /\ Change(c, k, attrs).row = k
<1>1. ASSUME NEW a \in BOOLEAN, NEW b \in BOOLEAN
      PROVE  [row |-> k, new |-> FALSE, at |-> a, attrs |-> b] \in Write
    BY DEF Write
<1>2. PICK a \in BOOLEAN : a = (Sees(c, k).at # Req(c).at)
    OBVIOUS
<1>3. \/ Change(c, k, attrs) = None
      \/ Change(c, k, attrs) = [row |-> k, new |-> FALSE, at |-> a, attrs |-> attrs]
    BY <1>2, Zenon DEF Change
<1>4. \/ Change(c, k, attrs) = None
      \/ Change(c, k, attrs) \in Write
    BY <1>1, <1>3, Zenon
<1>5. \/ Change(c, k, attrs) = None
      \/ Change(c, k, attrs).row = k
  <2>1. \A e, b, n : [row |-> k, new |-> n, at |-> e, attrs |-> b].row = k
    OBVIOUS
  <2>2. QED
    BY <1>3, <2>1, Zenon
<1>6. QED
    BY <1>4, <1>5, Zenon

LEMMA LookForNodeStep ==
    ASSUME IInv, NEW c \in Calls, LookForNode(c) PROVE IInv'
<1>1. calls[c].pc = "look" /\ Node(c) \in Nodes
    BY ItemFields DEF LookForNode
<1>2. Refuse(c) => IInv'
    BY <1>1, FailStep DEF Refuse
<1>3. Looked(c, None) => IInv'
    BY <1>1, LookedStep
<1>4. Looked(c, Insertion(Node(c))) => IInv'
  <2>1. Insertion(Node(c)) \in Write /\ Insertion(Node(c)).new
    BY <1>1 DEF Insertion, Write, Rows
  <2>2. QED
    BY <1>1, <2>1, LookedStep
<1>5. ASSUME NEW n \in FoundNodes(c), Looked(c, Change(c, n, FALSE))
      PROVE  IInv'
  <2> DEFINE w == Change(c, n, FALSE)
  <2>1. n \in Rows /\ Sees(c, n) # None
    BY DEF FoundNodes, Rows
  <2>2. w = None \/ (w \in Write /\ w.row = n)
    BY <2>1, ChangeIsWrite
  <2> HIDE DEF w
  <2>3. QED
    BY <1>1, <1>5, <2>1, <2>2, LookedStep DEF w
<1>6. QED
    BY <1>2, <1>3, <1>4, <1>5 DEF LookForNode

LEMMA LookForEdgeStep ==
    ASSUME IInv, NEW c \in Calls, LookForEdge(c) PROVE IInv'
<1>1. calls[c].pc = "look" /\ Relation(c) \in Relationships
    BY ItemFields DEF LookForEdge
<1>2. Looked(c, Insertion(Edge(Relation(c), c))) => IInv'
  <2>1. /\ Insertion(Edge(Relation(c), c)) \in Write
        /\ Insertion(Edge(Relation(c), c)).new
    BY <1>1 DEF Insertion, Write, Rows, Edge, Edges
  <2>2. QED
    BY <1>1, <2>1, LookedStep
<1>3. ASSUME NEW e \in FoundEdges(c), Looked(c, Change(c, e, Sees(c, e).attrs # Req(c).attrs))
      PROVE  IInv'
  <2> DEFINE w == Change(c, e, Sees(c, e).attrs # Req(c).attrs)
  <2>1. e \in Rows /\ Sees(c, e) # None
    BY DEF FoundEdges, Rows
  <2>2. w = None \/ (w \in Write /\ w.row = e)
    BY <2>1, ChangeIsWrite
  <2> HIDE DEF w
  <2>3. QED
    BY <1>1, <1>3, <2>1, <2>2, LookedStep DEF w
<1>4. QED
    BY <1>2, <1>3 DEF LookForEdge

LEMMA WrittenIsRow ==
    ASSUME IInv, NEW c \in Calls, calls[c].pc = "write"
    PROVE  Written(c) \in Row /\ calls[c].todo \in Write /\ calls[c].todo.row \in Rows
<1> DEFINE w == calls[c].todo
<1>1. w \in Write /\ w.row \in Rows /\ (w.new \/ Sees(c, w.row) # None)
    BY CallFields DEF IInv, PlacesHold, ChangesStand, Write
<1>2. /\ Req(c).source \in Sources /\ Req(c).at \in 0 .. MaxClock /\ Req(c).attrs \in Nat
      /\ Sees(c, w.row) \in Row \cup {None}
    BY <1>1, CallFields, RequestFields DEF IInv, PlacesHold
<1>3. NewRow(c, w.row) \in Row
    BY <1>2 DEF NewRow, Row
<1>4. ~w.new => Written(c) \in Row
    BY <1>1, <1>2 DEF Written, Row
<1>5. QED
    BY <1>1, <1>3, <1>4 DEF Written

LEMMA FlushStep ==
    ASSUME IInv, NEW c \in Calls, Flush(c) PROVE IInv'
<1> DEFINE w == calls[c].todo
           chained == [calls[c] EXCEPT !.own = [@ EXCEPT ![w.row] = Written(c)],
                                       !.todo = None, !.pc = "commit"]
           next == [calls[c] EXCEPT !.own = [@ EXCEPT ![w.row] = Written(c)],
                                    !.todo = None, !.pc = "look", !.item = @ + 1]
<1>1. calls[c].pc = "write" /\ calls[c] \in Call /\ Good(c, calls[c])
    BY CallFields, GoodNow DEF Flush
<1>2. Written(c) \in Row /\ w \in Write /\ w.row \in Rows
    BY <1>1, WrittenIsRow
<1>3. Fail(c, "error") => IInv'
    BY <1>1, FailStep
<1>4. /\ calls[c].request \in Requests /\ calls[c].item \in 1 .. 3 * Len(calls[c].request.batch)
      /\ Len(calls[c].request.batch) \in Nat
      /\ calls[c].chain \/ calls[c].item # 3 * Len(calls[c].request.batch)
    BY <1>1, RequestFields DEF Good
<1>5. [calls[c].own EXCEPT ![w.row] = Written(c)] \in [Rows -> Row \cup {None}]
    BY <1>1, <1>2 DEF Call
<1> HIDE DEF w
<1>6. calls[c].chain /\ Update(c, chained) /\ UNCHANGED <<clock, table, sources, receipts>> => IInv'
  <2>1. /\ chained \in Call /\ chained.pc = "commit" /\ chained.item = calls[c].item
        /\ chained.todo = None /\ chained.request = calls[c].request
        /\ chained.answer = calls[c].answer /\ chained.told = calls[c].told
    BY <1>1, <1>5 DEF Call
  <2> HIDE DEF chained
  <2>2. Good(c, chained)
    BY <1>1, <1>4, <2>1 DEF Good
  <2>3. QED
    BY <2>1, <2>2, UpdateStep
<1>7. ~calls[c].chain /\ Update(c, next) /\ UNCHANGED <<clock, table, sources, receipts>> => IInv'
  <2>0. HAVE ~calls[c].chain /\ Update(c, next) /\ UNCHANGED <<clock, table, sources, receipts>>
  <2>1. /\ next \in Call /\ next.pc = "look" /\ next.item = calls[c].item + 1
        /\ next.todo = None /\ next.request = calls[c].request
        /\ next.answer = calls[c].answer /\ next.told = calls[c].told
    <3>1. calls[c].item + 1 \in Nat /\ None \in Write \cup {None}
      BY <1>4
    <3>2. QED
      BY <1>1, <1>5, <3>1 DEF Call
  <2> HIDE DEF next
  <2>2. next.item \in 1 .. 3 * Len(calls[c].request.batch)
    BY <2>0, <2>1, <1>4
  <2>3. Good(c, next)
    BY <1>1, <1>4, <2>1, <2>2 DEF Good
  <2>4. QED
    BY <2>0, <2>1, <2>3, UpdateStep
<1>8. \/ Fail(c, "error")
      \/ /\ UNCHANGED <<clock, table, sources, receipts>>
         /\ Update(c, [calls[c] EXCEPT
                !.own[w.row] = Written(c), !.todo = None,
                !.pc = IF calls[c].chain THEN "commit" ELSE "look",
                !.item = IF calls[c].chain THEN @ ELSE @ + 1])
    BY DEF Flush, w
<1>9. [calls[c] EXCEPT !.own[w.row] = Written(c), !.todo = None,
                       !.pc = IF calls[c].chain THEN "commit" ELSE "look",
                       !.item = IF calls[c].chain THEN @ ELSE @ + 1]
         = IF calls[c].chain THEN chained ELSE next
    BY <1>1 DEF Call
<1> HIDE DEF chained, next
<1>10. QED
    BY <1>3, <1>6, <1>7, <1>8, <1>9

LEMMA LockChainStep ==
    ASSUME IInv, NEW c \in Calls, LockChain(c) PROVE IInv'
<1> DEFINE pc == IF calls[c].todo = None THEN "commit" ELSE "write"
           v == [calls[c] EXCEPT !.chain = TRUE, !.pc = pc]
<1>1. calls[c].pc = "lock" /\ calls[c] \in Call /\ Good(c, calls[c]) /\ TRUE \in BOOLEAN
    BY CallFields, GoodNow DEF LockChain
<1>2. /\ v \in Call /\ v.pc = pc /\ v.chain = TRUE /\ v.item = calls[c].item
      /\ v.todo = calls[c].todo /\ v.request = calls[c].request /\ v.own = calls[c].own
      /\ v.answer = calls[c].answer /\ v.told = calls[c].told
    BY <1>1 DEF Call
<1>3. Update(c, v) /\ UNCHANGED <<clock, table, sources, receipts>>
    BY DEF LockChain
<1> HIDE DEF v
<1>4. Good(c, v)
    BY <1>1, <1>2 DEF Good
<1>5. QED
    BY <1>2, <1>3, <1>4, UpdateStep

LEMMA CommitStep ==
    ASSUME IInv, NEW c \in Calls, Commit(c) PROVE IInv'
<1> DEFINE r == Req(c)
           v == [calls[c] EXCEPT !.pc = "ended", !.answer = "applied", !.chain = FALSE]
<1>1. calls[c].pc = "commit" /\ calls[c] \in Call /\ Good(c, calls[c]) /\ FALSE \in BOOLEAN
    BY CallFields, GoodNow DEF Commit
<1>2. /\ r = calls[c].request /\ r \in Requests /\ r.source \in Sources
      /\ r.key \in Keys \cup {None} /\ r.at \in 0 .. MaxClock
    BY <1>1, RequestFields DEF Good, Req
<1>3. Fail(c, "error") => IInv'
    BY <1>1, FailStep
<1>4. ASSUME ~ReceiptTaken(c),
             table' = [k \in Rows |-> Sees(c, k)],
             sources' = IF r.at = calls[c].last THEN sources
                        ELSE [sources EXCEPT ![r.source].last = r.at],
             receipts' = IF r.key = None THEN receipts
                         ELSE [receipts EXCEPT ![r.source][r.key] = c],
             Update(c, v), clock' = clock
      PROVE  IInv'
  <2>1. /\ v \in Call /\ v.pc = "ended" /\ v.answer = "applied" /\ v.todo = calls[c].todo
        /\ v.request = r /\ v.own = calls[c].own
    BY <1>1, <1>2 DEF Call
  <2> HIDE DEF v
  <2>2. /\ calls \in [Calls -> Call] /\ calls' = [calls EXCEPT ![c] = v]
        /\ receipts \in [Sources -> [Keys -> Calls \cup {None}]]
    BY <1>4 DEF Update, IInv, TypeOK
  <2>3. calls'[c] = v /\ \A d \in Calls \ {c} : calls'[d] = calls[d]
    BY <2>2
  <2>4. \A s \in Sources : \A k \in Keys :
          receipts'[s][k] = IF r.key # None /\ s = r.source /\ k = r.key THEN c
                            ELSE receipts[s][k]
    BY <1>2, <1>4, <2>2
  <2>5. r.key # None => receipts[r.source][r.key] = None
    BY <1>4 DEF ReceiptTaken
  <2>6. \A k \in Rows : table[k] # None => table'[k] # None
    BY <1>4 DEF Sees
  <2>7. TypeOK'
    <3>1. table' \in [Rows -> Row \cup {None}]
      BY <1>4, CallFields
    <3>2. sources' \in [Sources -> [enabled : BOOLEAN, last : 0 .. MaxClock \cup {None}]]
      <4>1. sources \in [Sources -> [enabled : BOOLEAN, last : 0 .. MaxClock \cup {None}]]
        BY DEF IInv, TypeOK
      <4>2. [sources EXCEPT ![r.source].last = r.at]
              \in [Sources -> [enabled : BOOLEAN, last : 0 .. MaxClock \cup {None}]]
        BY <4>1, <1>2
      <4>3. QED
        BY <1>4, <4>1, <4>2
    <3>3. receipts' \in [Sources -> [Keys -> Calls \cup {None}]]
      BY <1>2, <1>4, <2>2
    <3>4. calls' \in [Calls -> Call]
      BY <2>1, <2>2
    <3>5. QED
      BY <3>1, <3>2, <3>3, <3>4, <1>4 DEF IInv, TypeOK
  <2>8. ASSUME NEW d \in Calls PROVE Good(d, calls[d])'
    <3>1. CASE d = c
      <4>1. v.todo # None => v.todo.new \/ v.own[v.todo.row] # None \/ table'[v.todo.row] # None
        <5>1. v.todo # None => v.todo.row \in Rows
          BY <2>1 DEF Call, Write
        <5>2. QED
          BY <5>1, <2>1, <2>6, <1>1 DEF Good
      <4>2. r.key # None => receipts'[r.source][r.key] = c
        BY <1>2, <2>4
      <4>3. QED
        BY <3>1, <4>1, <4>2, <1>2, <2>1, <2>3 DEF Good
    <3>2. CASE d # c
      <4>1. Good(d, calls[d]) /\ calls'[d] = calls[d] /\ calls[d] \in Call
        BY <3>2, <2>3, CallFields, GoodNow
      <4>2. ASSUME calls[d].todo # None
            PROVE  \/ calls[d].todo.new \/ calls[d].own[calls[d].todo.row] # None
                   \/ table'[calls[d].todo.row] # None
        <5>1. calls[d].todo.row \in Rows
          BY <4>1, <4>2 DEF Call, Write
        <5>2. QED
          BY <5>1, <4>1, <4>2, <2>6 DEF Good
      <4>3. ASSUME calls[d].request # None, calls[d].request.key # None,
                   receipts[calls[d].request.source][calls[d].request.key] # None
            PROVE  receipts'[calls[d].request.source][calls[d].request.key]
                     = receipts[calls[d].request.source][calls[d].request.key]
        <5>1. calls[d].request.source \in Sources /\ calls[d].request.key \in Keys
          BY <4>1, <4>3, RequestFields DEF Call
        <5>2. QED
          BY <5>1, <4>3, <2>4, <2>5
      <4>4. None \notin Calls
        BY IngestionAssumption
      <4>5. /\ calls[d].answer = "applied" /\ calls[d].request # None
                 /\ calls[d].request.key # None =>
               receipts'[calls[d].request.source][calls[d].request.key] = d
            /\ calls[d].answer = "replayed" /\ calls[d].request # None =>
               /\ calls[d].request.key # None
               /\ calls[d].told # None
               /\ calls[d].told = receipts'[calls[d].request.source][calls[d].request.key]
        BY <4>1, <4>3, <4>4 DEF Good
      <4>6. QED
        BY <4>1, <4>2, <4>5 DEF Good
    <3>3. QED
      BY <3>1, <3>2
  <2>9. (\A d \in Calls : Good(d, calls[d]))'
    BY <2>8
  <2>10. QED
    BY <2>7, <2>9, GoodCallsNext DEF IInv
<1>5. QED
    BY <1>3, <1>4, Zenon DEF Commit

LEMMA WorldStep ==
    ASSUME IInv, UNCHANGED <<table, receipts, calls>>, TypeOK' PROVE IInv'
<1>1. \A d \in Calls : Good(d, calls[d])
    BY GoodCalls DEF IInv
<1>2. (\A d \in Calls : Good(d, calls[d]))'
    BY <1>1 DEF Good
<1>3. QED
    BY <1>2, GoodCallsNext DEF IInv

LEMMA DisableStep ==
    ASSUME IInv, NEW s \in Sources, Disable(s) PROVE IInv'
<1> DEFINE Source == [enabled : BOOLEAN, last : 0 .. MaxClock \cup {None}]
<1>1. sources \in [Sources -> Source] /\ FALSE \in BOOLEAN
    BY DEF IInv, TypeOK
<1>2. sources' = [sources EXCEPT ![s] = [sources[s] EXCEPT !.enabled = FALSE]]
    BY DEF Disable
<1>3. [sources[s] EXCEPT !.enabled = FALSE] \in Source
    BY <1>1
<1>4. sources' \in [Sources -> Source]
    BY <1>1, <1>2, <1>3
<1>5. TypeOK'
    BY <1>4 DEF IInv, TypeOK, Disable
<1>6. QED
    BY <1>5, WorldStep DEF Disable

LEMMA TickStep == ASSUME IInv, Tick PROVE IInv'
<1>1. clock' \in 0 .. MaxClock
    BY IngestionAssumption DEF Tick, IInv, TypeOK
<1>2. TypeOK'
    BY <1>1 DEF IInv, TypeOK, Tick
<1>3. QED
    BY <1>2, WorldStep DEF Tick

LEMMA NextIInv == IInv /\ [Next]_vars => IInv'
<1> SUFFICES ASSUME IInv, [Next]_vars PROVE IInv'
    OBVIOUS
<1>1. CASE UNCHANGED vars
  <2>1. TypeOK'
    BY <1>1 DEF vars, IInv, TypeOK
  <2>2. QED
    BY <1>1, <2>1, WorldStep DEF vars
<1>2. ASSUME NEW c \in Calls, NEW r \in Requests, Receive(c, r) PROVE IInv'
    BY <1>2, ReceiveStep
<1>3. ASSUME NEW c \in Calls, Step(c) PROVE IInv'
    BY <1>3, LookForNodeStep, LookForEdgeStep, FlushStep, LockChainStep, CommitStep DEF Step
<1>4. ASSUME NEW c \in Calls, Abort(c) \/ Die(c) PROVE IInv'
  <2>1. c \in Active /\ Fail(c, "error")
    BY <1>4 DEF Abort, Die
  <2>2. calls[c].pc # "idle"
    BY <2>1 DEF Active
  <2>3. QED
    BY <2>1, <2>2, FailStep
<1>5. ASSUME NEW s \in Sources, Disable(s) PROVE IInv'
    BY <1>5, DisableStep
<1>6. CASE Tick
    BY <1>6, TickStep
<1>7. QED
    BY <1>1, <1>2, <1>3, <1>4, <1>5, <1>6 DEF Next

LEMMA Inductive == Spec => []IInv
BY InitIInv, NextIInv, PTL DEF Spec

-----------------------------------------------------------------------------
(* Who vouches for a node, and when a source was last heard of *)

Vouched ==
    /\ \A c \in Applied : calls[c].pc = "ended" /\ Req(c) \in Requests
    /\ \A n \in Nodes : table[n] # None =>
         n \in DOMAIN Existing \/ \E c \in Applied : Wrote(c, n)
    /\ \A s \in Sources : sources[s].last # None => sources[s].last \in ObservedBy(s)

LEMMA InitVouched == Init => Vouched
<1> SUFFICES ASSUME Init PROVE Vouched
    OBVIOUS
<1>1. Applied = {}
    BY DEF Init, Applied, Idle
<1>2. \A n \in Nodes : table[n] # None => n \in DOMAIN Existing
    BY DEF Init, Rows
<1>3. \A s \in Sources : sources[s].last # None => sources[s].last \in ObservedBy(s)
    BY DEF Init, ObservedBy
<1>4. QED
    BY <1>1, <1>2, <1>3 DEF Vouched

\* A step in which nothing is applied, and what was applied is left alone.
LEMMA VouchedKept ==
    ASSUME Vouched, table' = table, \A s \in Sources : sources'[s].last = sources[s].last,
           \A d \in Calls : calls[d].answer = "applied" => calls'[d] = calls[d],
           \A d \in Calls : calls'[d].answer = "applied" => calls[d].answer = "applied"
    PROVE  Vouched'
<1>1. Applied' = Applied
    BY DEF Applied
<1>2. \A d \in Applied : calls'[d] = calls[d]
    BY DEF Applied
<1>3. \A s \in Sources : ObservedBy(s)' = ObservedBy(s)
    BY <1>1, <1>2 DEF ObservedBy, Req
<1>4. \A n \in Nodes : (\E c \in Applied : Wrote(c, n)) => (\E c \in Applied : Wrote(c, n))'
    BY <1>1, <1>2 DEF Wrote
<1>5. QED
    BY <1>1, <1>2, <1>3, <1>4 DEF Vouched, Req

LEMMA VouchedUpdate ==
    ASSUME IInv, Vouched, NEW c \in Calls, calls[c].pc # "ended", NEW v, v.answer # "applied",
           Update(c, v), UNCHANGED <<table, sources>>
    PROVE  Vouched'
<1>1. calls'[c] = v /\ \A d \in Calls \ {c} : calls'[d] = calls[d]
    BY DEF Update, IInv, TypeOK
<1>2. calls[c].answer # "applied"
    BY DEF Vouched, Applied
<1>3. QED
    BY <1>1, <1>2, VouchedKept

LEMMA VouchedFail ==
    ASSUME IInv, Vouched, NEW c \in Calls, calls[c].pc # "ended",
           NEW answer \in {"refused", "error"}, Fail(c, answer)
    PROVE  Vouched'
<1> DEFINE v == [calls[c] EXCEPT !.pc = "ended", !.answer = answer, !.own = NoWrites,
                                 !.todo = None, !.chain = FALSE]
<1>1. v.answer = answer
    BY CallFields DEF Call
<1>2. Update(c, v) /\ UNCHANGED <<table, sources>>
    BY DEF Fail
<1> HIDE DEF v
<1>3. QED
    BY <1>1, <1>2, VouchedUpdate

LEMMA VouchedReceive ==
    ASSUME IInv, Vouched, NEW c \in Calls, NEW r \in Requests, Receive(c, r)
    PROVE  Vouched'
<1> DEFINE call == [calls[c] EXCEPT !.request = r, !.met = Active]
           receipt == IF r.key = None THEN None ELSE receipts[r.source][r.key]
           v == IF ~sources[r.source].enabled
                THEN [call EXCEPT !.pc = "ended", !.answer = "refused"]
                ELSE IF receipt # None
                THEN [call EXCEPT !.pc = "ended", !.answer = "replayed", !.told = receipt]
                ELSE IF r.source \in Versioned \/ ~Acceptable(r)
                THEN [call EXCEPT !.pc = "ended", !.answer = "refused"]
                ELSE [call EXCEPT !.pc = "look", !.item = 1, !.last = sources[r.source].last]
<1>1. calls[c].pc = "idle" /\ Update(c, v) /\ UNCHANGED <<table, sources>>
    BY DEF Receive
<1>2. calls[c] \in Call /\ calls[c].answer = "none"
    BY <1>1, CallFields DEF IInv, ReceiptsTell
<1>3. v.answer # "applied"
    BY <1>2 DEF Call
<1> HIDE DEF v
<1>4. QED
    BY <1>1, <1>3, VouchedUpdate

\* A step of a delivery that is not its commit.
LEMMA VouchedLooked ==
    ASSUME IInv, Vouched, NEW c \in Calls, calls[c].pc # "ended", NEW todo, Looked(c, todo)
    PROVE  Vouched'
<1> DEFINE v == IF calls[c].item = LastItem(c)
                THEN [calls[c] EXCEPT !.pc = "lock", !.todo = todo]
                ELSE IF todo = None THEN [calls[c] EXCEPT !.item = @ + 1]
                ELSE [calls[c] EXCEPT !.pc = "write", !.todo = todo]
<1>1. Update(c, v) /\ UNCHANGED <<table, sources>>
    BY DEF Looked
<1>2. calls[c] \in Call /\ calls[c].answer # "applied"
    BY CallFields DEF Vouched, Applied
<1>3. v.answer # "applied"
    BY <1>2 DEF Call
<1> HIDE DEF v
<1>4. QED
    BY <1>1, <1>3, VouchedUpdate

LEMMA VouchedStep ==
    ASSUME IInv, Vouched, NEW c \in Calls,
           LookForNode(c) \/ LookForEdge(c) \/ Flush(c) \/ LockChain(c)
    PROVE  Vouched'
<1>1. calls[c].pc # "ended" /\ calls[c] \in Call /\ calls[c].answer # "applied"
    BY CallFields DEF LookForNode, LookForEdge, Flush, LockChain, Vouched, Applied
<1>2. (\E todo : Looked(c, todo)) \/ Refuse(c) \/ Flush(c) \/ LockChain(c)
    BY DEF LookForNode, LookForEdge
<1>3. CASE Refuse(c)
    BY <1>1, <1>3, VouchedFail DEF Refuse
<1>4. CASE Flush(c)
  <2> DEFINE w == calls[c].todo
             v == [calls[c] EXCEPT !.own[w.row] = Written(c), !.todo = None,
                                   !.pc = IF calls[c].chain THEN "commit" ELSE "look",
                                   !.item = IF calls[c].chain THEN @ ELSE @ + 1]
  <2>1. Fail(c, "error") \/ (Update(c, v) /\ UNCHANGED <<table, sources>>)
    BY <1>4 DEF Flush
  <2>2. v.answer # "applied"
    BY <1>1 DEF Call
  <2> HIDE DEF v
  <2>3. QED
    BY <2>1, <2>2, <1>1, VouchedFail, VouchedUpdate
<1>5. CASE LockChain(c)
  <2> DEFINE v == [calls[c] EXCEPT !.chain = TRUE,
                                   !.pc = IF calls[c].todo = None THEN "commit" ELSE "write"]
  <2>1. Update(c, v) /\ UNCHANGED <<table, sources>>
    BY <1>5 DEF LockChain
  <2>2. v.answer # "applied"
    BY <1>1 DEF Call
  <2> HIDE DEF v
  <2>3. QED
    BY <2>1, <2>2, <1>1, VouchedUpdate
<1>6. QED
    BY <1>1, <1>2, <1>3, <1>4, <1>5, VouchedLooked

LEMMA VouchedCommit ==
    ASSUME IInv, Vouched, NEW c \in Calls, Commit(c) PROVE Vouched'
<1> DEFINE r == Req(c)
           v == [calls[c] EXCEPT !.pc = "ended", !.answer = "applied", !.chain = FALSE]
<1>1. calls[c].pc = "commit" /\ calls[c] \in Call /\ calls[c].answer # "applied" /\ r \in Requests
    BY CallFields DEF Commit, Vouched, Applied, IInv, PlacesHold
<1>2. CASE Fail(c, "error")
    BY <1>1, <1>2, VouchedFail
<1>3. CASE ~Fail(c, "error")
  <2>1. /\ table' = [k \in Rows |-> Sees(c, k)]
        /\ sources' = IF r.at = calls[c].last THEN sources
                      ELSE [sources EXCEPT ![r.source].last = r.at]
        /\ Update(c, v)
    BY <1>3, Zenon DEF Commit
  <2>2. v.pc = "ended" /\ v.answer = "applied" /\ v.request = r /\ v.own = calls[c].own
    BY <1>1 DEF Call, Req
  <2> HIDE DEF v
  <2>3. calls'[c] = v /\ \A d \in Calls \ {c} : calls'[d] = calls[d]
    BY <2>1 DEF Update, IInv, TypeOK
  <2>4. Applied' = Applied \cup {c} /\ \A d \in Applied : calls'[d] = calls[d]
    BY <2>2, <2>3, <1>1 DEF Applied
  <2>5. \A d \in Applied' : calls'[d].pc = "ended" /\ Req(d)' \in Requests
    BY <1>1, <2>2, <2>3, <2>4 DEF Vouched, Req
  <2>6. ASSUME NEW n \in Nodes, table'[n] # None, n \notin DOMAIN Existing
        PROVE  \E d \in Applied' : Wrote(d, n)'
    <3>1. table'[n] = Sees(c, n)
      BY <2>1 DEF Rows
    <3>2. CASE calls[c].own[n] # None
      BY <3>2, <2>2, <2>3, <2>4 DEF Wrote
    <3>3. CASE calls[c].own[n] = None
      <4>1. PICK d \in Applied : Wrote(d, n)
        BY <3>1, <3>3, <2>6 DEF Sees, Vouched
      <4>2. QED
        BY <4>1, <2>4 DEF Wrote
    <3>4. QED
      BY <3>2, <3>3
  <2>7. ASSUME NEW s \in Sources, sources'[s].last # None
        PROVE  sources'[s].last \in ObservedBy(s)'
    <3>1. \A t \in ObservedBy(s) : t \in ObservedBy(s)'
      BY <2>4 DEF ObservedBy, Req
    <3>2. r.source = s => r.at \in ObservedBy(s)'
      BY <2>2, <2>3, <2>4 DEF ObservedBy, Req
    <3>3. sources'[s].last = sources[s].last \/ (s = r.source /\ sources'[s].last = r.at)
      BY <2>1 DEF IInv, TypeOK
    <3>4. QED
      BY <3>1, <3>2, <3>3, <2>7 DEF Vouched
  <2>8. QED
    BY <2>5, <2>6, <2>7 DEF Vouched
<1>4. QED
    BY <1>2, <1>3

LEMMA NextVouched == IInv /\ Vouched /\ [Next]_vars => Vouched'
<1> SUFFICES ASSUME IInv, Vouched, [Next]_vars PROVE Vouched'
    OBVIOUS
<1>1. CASE UNCHANGED vars
    BY <1>1, VouchedKept DEF vars
<1>2. ASSUME NEW c \in Calls, NEW r \in Requests, Receive(c, r) PROVE Vouched'
    BY <1>2, VouchedReceive
<1>3. ASSUME NEW c \in Calls, Step(c) PROVE Vouched'
    BY <1>3, VouchedStep, VouchedCommit DEF Step
<1>4. ASSUME NEW c \in Calls, Abort(c) \/ Die(c) PROVE Vouched'
  <2>1. calls[c].pc # "ended" /\ Fail(c, "error")
    BY <1>4 DEF Abort, Die, Active
  <2>2. QED
    BY <2>1, VouchedFail
<1>5. ASSUME NEW s \in Sources, Disable(s) PROVE Vouched'
  <2>1. \A x \in Sources : sources'[x].last = sources[x].last
    BY <1>5 DEF Disable, IInv, TypeOK
  <2>2. table' = table /\ calls' = calls
    BY <1>5 DEF Disable
  <2>3. QED
    BY <2>1, <2>2, VouchedKept
<1>6. CASE Tick
    BY <1>6, VouchedKept DEF Tick
<1>7. QED
    BY <1>1, <1>2, <1>3, <1>4, <1>5, <1>6 DEF Next

LEMMA AlwaysVouched == Spec => []Vouched
BY Inductive, InitVouched, NextVouched, PTL DEF Spec

-----------------------------------------------------------------------------
(* Whose a row is: who has written it first, and what a delivery knows of it *)

\* v is the state of a delivery, t the tables as committed.
EndsOf(r) == {Ends[r][1], Ends[r][2]}
RelationIn(v, j) == v.request.batch[(j + 2) \div 3]
NodeIn(v, j) == Ends[RelationIn(v, j)][j % 3]
LastOf(v) == 3 * Len(v.request.batch)

\* The nodes a delivery has already looked up.
Before(v) == {j \in 1 .. v.item - 1 : j % 3 # 0}
Past(v, n) == \E j \in Before(v) : NodeIn(v, j) = n

SeenBy(v, t, k) == IF v.own[k] # None THEN v.own[k] ELSE t[k]
Same(a, b) == a.source = b.source /\ a.tenant = b.tenant

Mine(v, t, n) ==
    /\ SeenBy(v, t, n) # None
    /\ SeenBy(v, t, n).source = v.request.source
    /\ SeenBy(v, t, n).tenant = TenantOf[v.request.source]

\* The nodes looked up are the source's own.
Settled(v, t) == \A j \in Before(v) : Mine(v, t, NodeIn(v, j))

\* What is written is the source's own, and was if it was there; an edge comes
\* after its nodes.
OwnRows(v, t) ==
    /\ \A k \in Rows : v.own[k] # None =>
         /\ v.own[k].source = v.request.source
         /\ t[k] # None => Same(t[k], v.own[k])
    /\ \A n \in Nodes : v.own[n] # None => Past(v, n)
    /\ \A e \in Edges : v.own[e] # None => \A n \in EndsOf(e.relation) : Past(v, n)

\* What is about to be written is the row of the item at hand.
NextRow(v, t, w) ==
    w # None =>
      /\ v.item % 3 = 0 =>
           /\ w.row \in Edges /\ w.row.relation = RelationIn(v, v.item)
           /\ ~w.new => /\ SeenBy(v, t, w.row) # None
                        /\ SeenBy(v, t, w.row).source = v.request.source
      /\ v.item % 3 # 0 =>
           /\ w.row = NodeIn(v, v.item)
           /\ \A j \in Before(v) : NodeIn(v, j).ext # w.row.ext
           /\ ~w.new => Mine(v, t, w.row)

Proper(v, t) ==
    /\ v.request.source \notin Versioned
    /\ v.pc = "lock" => v.item % 3 = 0
    /\ v.chain => v.pc # "look" /\ v.item % 3 = 0
    /\ v.pc \in {"look", "commit"} => v.todo = None
    /\ Settled(v, t) /\ OwnRows(v, t) /\ NextRow(v, t, v.todo)

\* An edge is of the source of its nodes; what was there is still whose it was.
TableFits(t) ==
    /\ \A e \in Edges : t[e] # None =>
         \A n \in EndsOf(e.relation) : t[n] # None /\ t[n].source = t[e].source
    /\ \A n \in DOMAIN Existing : t[n] # None /\ Same(t[n], Existing[n])
    /\ \A n \in Nodes : t[n] # None => n \in DOMAIN Existing \/ n.name = n.ext

Locked == \A c, d \in Active : c # d => \A k \in Rows : ~(Wrote(c, k) /\ Wrote(d, k))

Unbegun ==
    \A c \in Calls : calls[c].pc = "idle" =>
        calls[c].own = NoWrites /\ calls[c].todo = None /\ ~calls[c].chain

Ownership ==
    /\ Unbegun /\ Locked /\ TableFits(table)
    /\ \A c \in Active : Proper(calls[c], table)

\* The places of a batch: each is of one of its relationships.
LEMMA PlaceFields ==
    ASSUME NEW v, v.request \in Requests, NEW j \in 1 .. LastOf(v)
    PROVE  /\ RelationIn(v, j) \in Relationships
           /\ j % 3 # 0 => NodeIn(v, j) \in EndsOf(RelationIn(v, j))
<1>1. v.request.batch \in Seq(Relationships) /\ Len(v.request.batch) \in Nat
    BY RequestFields
<1>2. (j + 2) \div 3 \in 1 .. Len(v.request.batch)
    BY <1>1 DEF LastOf
<1>3. j % 3 \in {0, 1, 2}
    BY <1>1 DEF LastOf
<1>4. QED
    BY <1>1, <1>2, <1>3 DEF RelationIn, NodeIn, EndsOf

LEMMA EndsFields ==
    ASSUME NEW r \in Relationships, NEW n \in EndsOf(r)
    PROVE  n \in Nodes /\ n \in Rows /\ n \notin Edges /\ n.name = n.ext
<1>1. n \in Nodes
    BY IngestionAssumption DEF EndsOf
<1>2. QED
    BY <1>1, NamesAssumption DEF EndsOf, Rows

LEMMA NodeFields ==
    ASSUME NEW v, v.request \in Requests, NEW j \in 1 .. LastOf(v), j % 3 # 0
    PROVE  NodeIn(v, j) \in Nodes /\ NodeIn(v, j) \in Rows /\ NodeIn(v, j).name = NodeIn(v, j).ext
BY PlaceFields, EndsFields

\* At its edge, both nodes of a relationship have been looked up.
LEMMA EndsArePast ==
    ASSUME NEW v, v.request \in Requests, v.item \in 1 .. LastOf(v), v.item % 3 = 0,
           NEW n \in EndsOf(RelationIn(v, v.item))
    PROVE  Past(v, n)
<1>1. Len(v.request.batch) \in Nat /\ v.item \in Nat /\ v.item >= 1
    BY RequestFields DEF LastOf
<1>2. /\ v.item - 2 \in Before(v) /\ v.item - 1 \in Before(v)
      /\ (v.item - 2) % 3 = 1 /\ (v.item - 1) % 3 = 2
    BY <1>1 DEF Before
<1>3. /\ ((v.item - 2) + 2) \div 3 = (v.item + 2) \div 3
      /\ ((v.item - 1) + 2) \div 3 = (v.item + 2) \div 3
    BY <1>1
<1>4. /\ NodeIn(v, v.item - 2) = Ends[RelationIn(v, v.item)][1]
      /\ NodeIn(v, v.item - 1) = Ends[RelationIn(v, v.item)][2]
    BY <1>2, <1>3 DEF NodeIn, RelationIn
<1>5. QED
    BY <1>2, <1>4 DEF EndsOf, Past

\* Nodes of one name are one node.
LEMMA NamedAlike ==
    ASSUME NEW m \in Nodes, NEW n \in Nodes, m.name = m.ext, n.name = n.ext,
           m.ext = n.ext, m.kind = n.kind
    PROVE  m = n
BY NamesAssumption

\* What a delivery knows of the rows outlives the commits of others.
LEMMA ProperLater ==
    ASSUME NEW v \in Call, NEW t, NEW u, Proper(v, t),
           v.request \in Requests, v.item \in 1 .. LastOf(v),
           \A k \in Rows : t[k] # None => u[k] # None /\ Same(u[k], t[k]),
           \A k \in Rows : v.own[k] # None => u[k] = t[k]
    PROVE  Proper(v, u)
<1>1. ASSUME NEW k \in Rows, SeenBy(v, t, k) # None
      PROVE  SeenBy(v, u, k) # None /\ Same(SeenBy(v, u, k), SeenBy(v, t, k))
    BY <1>1 DEF SeenBy, Same
<1>2. ASSUME NEW n \in Rows, Mine(v, t, n) PROVE Mine(v, u, n)
    BY <1>1, <1>2 DEF Mine, Same
<1>3. Settled(v, u)
  <2> SUFFICES ASSUME NEW j \in Before(v) PROVE Mine(v, u, NodeIn(v, j))
      BY DEF Settled
  <2>1. j \in 1 .. LastOf(v) /\ j % 3 # 0
    BY RequestFields DEF Before, LastOf
  <2>2. QED
    BY <2>1, <1>2, NodeFields DEF Proper, Settled
<1>4. OwnRows(v, u)
    BY DEF Proper, OwnRows
<1>5. NextRow(v, u, v.todo)
  <2> SUFFICES ASSUME v.todo # None PROVE NextRow(v, u, v.todo)
      BY DEF NextRow
  <2>1. v.todo.row \in Rows /\ NextRow(v, t, v.todo)
    BY DEF Call, Write, Proper
  <2>2. ~v.todo.new /\ v.item % 3 = 0 => /\ SeenBy(v, u, v.todo.row) # None
                                         /\ SeenBy(v, u, v.todo.row).source = v.request.source
    BY <2>1, <1>1 DEF NextRow, Same
  <2>3. ~v.todo.new /\ v.item % 3 # 0 => Mine(v, u, v.todo.row)
    BY <2>1, <1>2 DEF NextRow
  <2>4. QED
    BY <2>1, <2>2, <2>3 DEF NextRow
<1>6. QED
    BY <1>3, <1>4, <1>5 DEF Proper

\* What the invariant says of a delivery under way.
LEMMA ActiveFields ==
    ASSUME IInv, Ownership, NEW c \in Active
    PROVE  /\ c \in Calls /\ calls[c] \in Call /\ Proper(calls[c], table)
           /\ calls[c].request \in Requests /\ LastOf(calls[c]) \in Nat
           /\ calls[c].item \in 1 .. LastOf(calls[c])
           /\ LastOf(calls[c]) = LastItem(c) /\ LastOf(calls[c]) % 3 = 0
<1>1. c \in Calls /\ calls[c] \in Call /\ Good(c, calls[c])
    BY CallFields, GoodNow DEF Active
<1>2. calls[c].pc \in {"look", "write", "lock", "commit"}
    BY <1>1 DEF Active, Call
<1>3. calls[c].request \in Requests /\ calls[c].item \in 1 .. LastOf(calls[c])
    BY <1>1, <1>2 DEF Good, LastOf
<1>4. Len(calls[c].request.batch) \in Nat
    BY <1>3, RequestFields
<1>5. LastOf(calls[c]) \in Nat /\ LastOf(calls[c]) % 3 = 0
  <2>1. \A x \in Nat : 3 * x \in Nat /\ (3 * x) % 3 = 0
      OBVIOUS
  <2>2. QED
      BY <2>1, <1>4 DEF LastOf
<1>6. LastOf(calls[c]) = LastItem(c)
    BY DEF LastOf, LastItem, Req
<1>7. QED
    BY <1>1, <1>3, <1>5, <1>6 DEF Ownership

\* A step that changes one delivery, which then has ended or has locked only
\* rows that nobody had.
\* A row is the first of its rivals: who has written it locks it, and it is taken.
LEMMA RivalsFields ==
    ASSUME NEW k \in Rows
    PROVE  /\ \A d \in Calls : calls[d].own[k] # None => Locks(d, k)
           /\ table[k] # None => Taken(k)
<1>1. k \in Rivals(k)
    BY DEF Rivals, Namesakes
<1>2. QED
    BY <1>1 DEF Locks, Taken

LEMMA OwnershipUpdate ==
    ASSUME IInv, Ownership, NEW c \in Calls, NEW v, Update(c, v), table' = table,
           v.pc # "idle",
           \/ v.pc = "ended"
           \/ /\ Proper(v, table)
              /\ \A k \in Rows : v.own[k] # None =>
                    (c \in Active /\ Wrote(c, k)) \/ ~Blocked(c, k)
    PROVE  Ownership'
<1>1. calls'[c] = v /\ \A d \in Calls \ {c} : calls'[d] = calls[d]
    BY DEF Update, IInv, TypeOK
<1>2. Active' \subseteq Active \cup {c} /\ \A d \in Active' : d # c => d \in Active
    BY <1>1 DEF Active
<1>3. v.pc = "ended" => c \notin Active'
    BY <1>1 DEF Active
<1>4. Unbegun'
    BY <1>1 DEF Ownership, Unbegun
<1>5. Locked'
  <2> SUFFICES ASSUME NEW d \in Active', NEW e \in Active', d # e, NEW k \in Rows,
                      calls'[d].own[k] # None, calls'[e].own[k] # None
               PROVE  FALSE
      BY DEF Locked, Wrote
  <2>1. d \in Calls /\ e \in Calls
    BY DEF Active
  <2>2. ASSUME NEW x \in Active, x # c, calls[x].own[k] # None, c \in Active', v.own[k] # None
        PROVE  FALSE
    <3>1. \A y \in Active : y # c => calls[y].own[k] = None \/ ~(c \in Active /\ Wrote(c, k))
      BY DEF Ownership, Locked, Wrote
    <3>2. Blocked(c, k)
      BY <2>2, RivalsFields DEF Blocked, Active
    <3>3. QED
      BY <3>1, <3>2, <2>2, <1>3
  <2>3. CASE d = c
      BY <2>3, <2>1, <2>2, <1>1, <1>2
  <2>4. CASE e = c
      BY <2>4, <2>1, <2>2, <1>1, <1>2
  <2>5. CASE d # c /\ e # c
      BY <2>5, <2>1, <1>1, <1>2 DEF Ownership, Locked, Wrote
  <2>6. QED
    BY <2>3, <2>4, <2>5
<1>6. TableFits(table')
    BY DEF Ownership
<1>7. ASSUME NEW d \in Active' PROVE Proper(calls'[d], table')
    BY <1>1, <1>2, <1>3 DEF Ownership, Active
<1>8. QED
    BY <1>4, <1>5, <1>6, <1>7 DEF Ownership

LEMMA OwnershipFail ==
    ASSUME IInv, Ownership, NEW c \in Calls, NEW answer, Fail(c, answer)
    PROVE  Ownership'
<1> DEFINE v == [calls[c] EXCEPT !.pc = "ended", !.answer = answer, !.own = NoWrites,
                                 !.todo = None, !.chain = FALSE]
<1>1. v.pc = "ended"
    BY CallFields DEF Call
<1>2. Update(c, v) /\ table' = table
    BY DEF Fail
<1> HIDE DEF v
<1>3. QED
    BY <1>1, <1>2, OwnershipUpdate

LEMMA OwnershipReceive ==
    ASSUME IInv, Ownership, NEW c \in Calls, NEW r \in Requests, Receive(c, r)
    PROVE  Ownership'
<1> DEFINE call == [calls[c] EXCEPT !.request = r, !.met = Active]
           receipt == IF r.key = None THEN None ELSE receipts[r.source][r.key]
           refused == [call EXCEPT !.pc = "ended", !.answer = "refused"]
           replayed == [call EXCEPT !.pc = "ended", !.answer = "replayed", !.told = receipt]
           begun == [call EXCEPT !.pc = "look", !.item = 1, !.last = sources[r.source].last]
<1>1. /\ calls[c] \in Call /\ table' = table
      /\ calls[c].own = NoWrites /\ calls[c].todo = None /\ ~calls[c].chain
    BY CallFields DEF Receive, Ownership, Unbegun
<1>2. refused.pc = "ended" /\ replayed.pc = "ended"
    BY <1>1 DEF Call
<1>3. Update(c, refused) \/ Update(c, replayed) => Ownership'
    BY <1>1, <1>2, OwnershipUpdate
<1>4. r.source \notin Versioned /\ Update(c, begun) => Ownership'
  <2> HAVE r.source \notin Versioned /\ Update(c, begun)
  <2>1. /\ begun.pc = "look" /\ begun.item = 1 /\ begun.request = r
        /\ begun.own = NoWrites /\ begun.todo = None /\ ~begun.chain
    BY <1>1 DEF Call
  <2> HIDE DEF begun
  <2>2. Before(begun) = {}
    BY <2>1 DEF Before
  <2>3. \A k \in Rows : begun.own[k] = None
    BY <2>1 DEF NoWrites
  <2>4. Proper(begun, table)
    BY <2>1, <2>2, <2>3 DEF Proper, Settled, OwnRows, NextRow, Rows
  <2>5. QED
    BY <1>1, <2>1, <2>3, <2>4, OwnershipUpdate
<1>5. Update(c, IF ~sources[r.source].enabled THEN refused
                ELSE IF receipt # None THEN replayed
                ELSE IF r.source \in Versioned \/ ~Acceptable(r) THEN refused
                ELSE begun)
    BY DEF Receive
<1> HIDE DEF refused, replayed, begun, receipt
<1>6. QED
    BY <1>3, <1>4, <1>5

\* The three things said of a delivery's work are of its request, its place and
\* its own rows.
LEMMA SameWork ==
    ASSUME NEW v, NEW u, NEW t, u.request = v.request, u.own = v.own, u.item = v.item
    PROVE  /\ Settled(v, t) => Settled(u, t)
           /\ OwnRows(v, t) => OwnRows(u, t)
           /\ \A w : NextRow(v, t, w) => NextRow(u, t, w)
<1>1. Before(u) = Before(v)
    BY DEF Before
<1>2. \A j : RelationIn(u, j) = RelationIn(v, j) /\ NodeIn(u, j) = NodeIn(v, j)
    BY DEF RelationIn, NodeIn
<1>3. \A k : SeenBy(u, t, k) = SeenBy(v, t, k)
    BY DEF SeenBy
<1>4. \A n : (Mine(u, t, n) <=> Mine(v, t, n)) /\ (Past(u, n) <=> Past(v, n))
    BY <1>1, <1>2, <1>3 DEF Mine, Past
<1>5. Settled(v, t) => Settled(u, t)
    BY <1>1, <1>2, <1>4 DEF Settled
<1>6. OwnRows(v, t) => OwnRows(u, t)
    BY <1>4 DEF OwnRows
<1>7. ASSUME NEW w, NextRow(v, t, w) PROVE NextRow(u, t, w)
    BY <1>1, <1>2, <1>3, <1>4, <1>7 DEF NextRow
<1>8. QED
    BY <1>5, <1>6, <1>7

\* The delivery goes on to its next item; the node at hand was its source's.
LEMMA NextItem ==
    ASSUME NEW v, NEW u, NEW t, u.request = v.request, u.own = v.own,
           v.item \in Nat \ {0}, u.item = v.item + 1, Settled(v, t), OwnRows(v, t),
           v.item % 3 # 0 => Mine(v, t, NodeIn(v, v.item))
    PROVE  Settled(u, t) /\ OwnRows(u, t)
<1>1. Before(u) \subseteq Before(v) \cup {v.item} /\ Before(v) \subseteq Before(u)
      /\ \A j \in Before(u) : j % 3 # 0
    BY DEF Before
<1>2. \A j : NodeIn(u, j) = NodeIn(v, j)
    BY DEF RelationIn, NodeIn
<1>3. \A n : Mine(u, t, n) <=> Mine(v, t, n)
    BY DEF Mine, SeenBy
<1>4. Settled(u, t)
    BY <1>1, <1>2, <1>3 DEF Settled
<1>5. \A n : Past(v, n) => Past(u, n)
    BY <1>1, <1>2 DEF Past
<1>6. QED
    BY <1>4, <1>5 DEF OwnRows

\* A row is written: u is the delivery after it, at the same item or the next.
LEMMA Writing ==
    ASSUME NEW v, NEW u, NEW t, NEW k \in Rows, NEW x,
           v.own \in [Rows -> Row \cup {None}], v.request \in Requests,
           v.item \in 1 .. LastOf(v), u.request = v.request,
           u.own = [v.own EXCEPT ![k] = x], u.item \in {v.item, v.item + 1},
           x # None, x.source = v.request.source,
           k \in Nodes => x.tenant = TenantOf[v.request.source],
           t[k] # None => Same(t[k], x),
           k \in Nodes => Past(u, k),
           k \in Edges => \A n \in EndsOf(k.relation) : Past(u, n),
           u.item # v.item /\ v.item % 3 # 0 => k = NodeIn(v, v.item),
           Settled(v, t), OwnRows(v, t)
    PROVE  Settled(u, t) /\ OwnRows(u, t)
<1>0. v.item \in Nat \ {0} /\ LastOf(v) \in Nat
    BY RequestFields DEF LastOf
<1>1. Before(u) \subseteq Before(v) \cup (IF u.item # v.item THEN {v.item} ELSE {})
      /\ Before(v) \subseteq Before(u) /\ \A j \in Before(u) : j % 3 # 0 /\ j \in 1 .. LastOf(v)
    BY <1>0 DEF Before
<1>2. \A j : NodeIn(u, j) = NodeIn(v, j)
    BY DEF RelationIn, NodeIn
<1>3. /\ SeenBy(u, t, k) = x
      /\ \A m \in Rows : m # k => SeenBy(u, t, m) = SeenBy(v, t, m) /\ u.own[m] = v.own[m]
    BY DEF SeenBy
<1>4. Settled(u, t)
  <2> SUFFICES ASSUME NEW j \in Before(u) PROVE Mine(u, t, NodeIn(v, j))
      BY <1>2 DEF Settled
  <2>1. NodeIn(v, j) \in Nodes /\ NodeIn(v, j) \in Rows
    BY <1>1, NodeFields
  <2>2. CASE NodeIn(v, j) = k
    BY <2>1, <2>2, <1>3 DEF Mine
  <2>3. CASE NodeIn(v, j) # k
    <3>1. j \in Before(v)
      BY <1>1, <2>3
    <3>2. QED
      BY <2>1, <2>3, <3>1, <1>3 DEF Mine, Settled
  <2>4. QED
    BY <2>2, <2>3
<1>5. \A n : Past(v, n) => Past(u, n)
    BY <1>1, <1>2 DEF Past
<1>6. OwnRows(u, t)
  <2>1. ASSUME NEW m \in Rows, u.own[m] # None
        PROVE  u.own[m].source = u.request.source /\ (t[m] # None => Same(t[m], u.own[m]))
    <3>1. CASE m = k
      BY <3>1
    <3>2. CASE m # k
      BY <2>1, <3>2, <1>3 DEF OwnRows
    <3>3. QED
      BY <3>1, <3>2
  <2>2. ASSUME NEW n \in Nodes, u.own[n] # None PROVE Past(u, n)
    <3>1. n \in Rows
      BY DEF Rows
    <3>2. QED
      BY <2>2, <3>1, <1>3, <1>5 DEF OwnRows
  <2>3. ASSUME NEW e \in Edges, u.own[e] # None, NEW n \in EndsOf(e.relation) PROVE Past(u, n)
    <3>1. e \in Rows
      BY DEF Rows
    <3>2. QED
      BY <2>3, <3>1, <1>3, <1>5 DEF OwnRows
  <2>4. QED
    BY <2>1, <2>2, <2>3 DEF OwnRows
<1>7. QED
    BY <1>4, <1>6

LEMMA OwnershipLooked ==
    ASSUME IInv, Ownership, NEW c \in Calls, calls[c].pc = "look", NEW todo,
           Looked(c, todo), NextRow(calls[c], table, todo),
           todo = None /\ ~OnEdge(c) => Mine(calls[c], table, Node(c))
    PROVE  Ownership'
<1> DEFINE lock == [calls[c] EXCEPT !.pc = "lock", !.todo = todo]
           next == [calls[c] EXCEPT !.item = @ + 1]
           write == [calls[c] EXCEPT !.pc = "write", !.todo = todo]
<1>1. /\ c \in Active /\ calls[c] \in Call /\ Proper(calls[c], table) /\ table' = table
      /\ calls[c].item \in 1 .. LastOf(calls[c]) /\ LastOf(calls[c]) \in Nat
      /\ LastOf(calls[c]) = LastItem(c) /\ LastItem(c) % 3 = 0
      /\ ~calls[c].chain /\ calls[c].todo = None
  <2>1. c \in Active
    BY DEF Active
  <2>2. QED
    BY <2>1, ActiveFields DEF Looked, Proper
<1>2. calls[c].item = LastItem(c) /\ Update(c, lock) => Ownership'
  <2> HAVE calls[c].item = LastItem(c) /\ Update(c, lock)
  <2>1. /\ lock.pc = "lock" /\ lock.todo = todo /\ lock.item = calls[c].item
        /\ lock.request = calls[c].request /\ lock.own = calls[c].own
    BY <1>1 DEF Call
  <2> HIDE DEF lock
  <2>2. Proper(lock, table)
    BY <1>1, <2>1, SameWork DEF Proper
  <2>3. QED
    BY <1>1, <2>1, <2>2, OwnershipUpdate DEF Wrote
<1>3. calls[c].item # LastItem(c) /\ todo # None /\ Update(c, write) => Ownership'
  <2> HAVE calls[c].item # LastItem(c) /\ todo # None /\ Update(c, write)
  <2>1. /\ write.pc = "write" /\ write.todo = todo /\ write.item = calls[c].item
        /\ write.request = calls[c].request /\ write.own = calls[c].own /\ ~write.chain
    BY <1>1 DEF Call
  <2> HIDE DEF write
  <2>2. Proper(write, table)
    BY <1>1, <2>1, SameWork DEF Proper
  <2>3. QED
    BY <1>1, <2>1, <2>2, OwnershipUpdate DEF Wrote
<1>4. todo = None /\ Update(c, next) => Ownership'
  <2> HAVE todo = None /\ Update(c, next)
  <2>1. /\ next.pc = "look" /\ next.todo = None /\ next.item = calls[c].item + 1
        /\ next.request = calls[c].request /\ next.own = calls[c].own /\ ~next.chain
    BY <1>1 DEF Call
  <2> HIDE DEF next
  <2>2. calls[c].item % 3 # 0 => Mine(calls[c], table, NodeIn(calls[c], calls[c].item))
    BY DEF OnEdge, Node, NodeAt, NodeIn, RelationAt, RelationIn, Req
  <2>3. Settled(next, table) /\ OwnRows(next, table)
    <3>1. calls[c].item \in Nat \ {0} /\ Settled(calls[c], table) /\ OwnRows(calls[c], table)
      BY <1>1 DEF Proper
    <3>2. QED
      BY <2>1, <2>2, <3>1, NextItem
  <2>4. Proper(next, table)
    BY <1>1, <2>1, <2>3 DEF Proper, NextRow
  <2>5. QED
    BY <1>1, <2>1, <2>4, OwnershipUpdate DEF Wrote
<1>5. Update(c, IF calls[c].item = LastItem(c) THEN lock
                ELSE IF todo = None THEN next ELSE write)
    BY DEF Looked
<1> HIDE DEF lock, next, write
<1>6. QED
    BY <1>2, <1>3, <1>4, <1>5

\* The node that a lookup finds for a source's own is the node asked for: what
\* a source without a manifest has there is named by its external id.
LEMMA FoundIsAsked ==
    ASSUME IInv, Ownership, NEW c \in Active, calls[c].pc = "look", ~OnEdge(c),
           NEW n \in FoundNodes(c), MayRenew(c, n)
    PROVE  n = Node(c) /\ Mine(calls[c], table, n)
<1> DEFINE v == calls[c]
<1>1. /\ c \in Calls /\ Proper(v, table) /\ v.request \in Requests /\ v.request.source \in Sources
      /\ v.item \in 1 .. LastOf(v) /\ v.item % 3 # 0
    BY ActiveFields, RequestFields DEF OnEdge
<1>2. /\ Node(c) = NodeIn(v, v.item) /\ Node(c) \in Nodes /\ Node(c).name = Node(c).ext
    BY <1>1, NodeFields DEF Node, NodeAt, NodeIn, RelationAt, RelationIn, Req
<1>3. /\ n \in Nodes /\ n \in Rows /\ n.ext = Node(c).ext /\ n.kind = Node(c).kind
      /\ Sees(c, n) = SeenBy(v, table, n) /\ Mine(v, table, n)
    BY DEF FoundNodes, MayRenew, Mine, Sees, SeenBy, Req, Rows
<1>4. n.name = n.ext
  <2>1. CASE v.own[n] # None
    <3>1. Past(v, n)
      BY <1>1, <1>3, <2>1 DEF Proper, OwnRows
    <3>2. PICK j \in Before(v) : NodeIn(v, j) = n
      BY <3>1 DEF Past
    <3>3. j \in 1 .. LastOf(v) /\ j % 3 # 0
      BY <1>1, RequestFields DEF Before, LastOf
    <3>4. QED
      BY <1>1, <3>2, <3>3, NodeFields
  <2>2. CASE v.own[n] = None
    <3>1. table[n] # None /\ table[n].source = v.request.source
      BY <1>3, <2>2 DEF Mine, SeenBy
    <3>2. CASE n \in DOMAIN Existing
      <4>1. Existing[n].source = v.request.source
        BY <3>1, <3>2 DEF Ownership, TableFits, Same
      <4>2. QED
        BY <1>1, <3>2, <4>1, NamesAssumption DEF Proper
    <3>3. QED
      BY <1>3, <3>1, <3>2 DEF Ownership, TableFits
  <2>3. QED
    BY <2>1, <2>2
<1>5. QED
    BY <1>2, <1>3, <1>4, NamedAlike

LEMMA InsertionFields ==
    ASSUME NEW k \in Rows
    PROVE  Insertion(k).row = k /\ Insertion(k).new /\ Insertion(k) # None
<1>1. Insertion(k) \in Write
    BY DEF Insertion, Write
<1>2. QED
    BY <1>1, NamesAssumption DEF Insertion

LEMMA OwnershipLookForNode ==
    ASSUME IInv, Ownership, NEW c \in Calls, LookForNode(c) PROVE Ownership'
<1> DEFINE v == calls[c]
<1>0. c \in Active
    BY DEF Active, LookForNode
<1>1. /\ v.pc = "look" /\ ~OnEdge(c) /\ v.item % 3 # 0 /\ Proper(v, table)
      /\ v.request \in Requests /\ v.item \in 1 .. LastOf(v)
    BY <1>0, ActiveFields DEF LookForNode, OnEdge
<1>2. /\ \A j : NodeAt(c, j) = NodeIn(v, j)
      /\ Node(c) = NodeIn(v, v.item) /\ Node(c) \in Nodes /\ Node(c).name = Node(c).ext
    BY <1>1, NodeFields DEF Node, NodeAt, NodeIn, RelationAt, RelationIn, Req
<1>3. ASSUME Cached(c), CachedKind(c), Looked(c, None) PROVE Ownership'
  <2>1. PICK j \in 1 .. v.item - 1 : j % 3 # 0 /\ NodeAt(c, j).ext = Node(c).ext
    BY <1>3 DEF Cached
  <2>2. NodeAt(c, j).kind = Node(c).kind
    BY <1>3, <2>1 DEF CachedKind
  <2>3. j \in 1 .. LastOf(v) /\ j \in Before(v)
    BY <1>1, <2>1, RequestFields DEF Before, LastOf
  <2>4. NodeIn(v, j) \in Nodes /\ NodeIn(v, j).name = NodeIn(v, j).ext
    BY <1>1, <2>1, <2>3, NodeFields
  <2>5. NodeIn(v, j) = Node(c)
    BY <1>2, <2>1, <2>2, <2>4, NamedAlike
  <2>6. Mine(v, table, Node(c))
    BY <1>1, <2>3, <2>5 DEF Proper, Settled
  <2>7. NextRow(v, table, None)
    BY DEF NextRow
  <2>8. QED
    BY <1>1, <1>3, <2>6, <2>7, OwnershipLooked
<1>4. \A j \in Before(v) : ~Cached(c) => NodeIn(v, j).ext # Node(c).ext
    BY <1>2 DEF Cached, Before
<1>5. ASSUME ~Cached(c), Looked(c, Insertion(Node(c))) PROVE Ownership'
  <2>1. /\ Insertion(Node(c)).row = Node(c) /\ Insertion(Node(c)).new
        /\ Insertion(Node(c)) # None
    BY <1>2, InsertionFields DEF Rows
  <2>2. NextRow(v, table, Insertion(Node(c)))
    BY <1>1, <1>2, <1>4, <1>5, <2>1 DEF NextRow
  <2>3. QED
    BY <1>1, <1>5, <2>1, <2>2, OwnershipLooked
<1>6. ASSUME ~Cached(c), NEW n \in FoundNodes(c), MayRenew(c, n),
             Looked(c, Change(c, n, FALSE))
      PROVE  Ownership'
  <2> DEFINE w == Change(c, n, FALSE)
  <2>1. n = Node(c) /\ Mine(v, table, n)
    BY <1>0, <1>1, <1>6, FoundIsAsked
  <2>2. w # None => w.row = n
    <3>1. n \in Rows
      BY DEF FoundNodes, Rows
    <3>2. QED
      BY <3>1, ChangeIsWrite
  <2> HIDE DEF w
  <2>3. NextRow(v, table, w)
    BY <1>1, <1>2, <1>4, <1>6, <2>1, <2>2 DEF NextRow
  <2>4. QED
    BY <1>1, <1>6, <2>1, <2>3, OwnershipLooked DEF w
<1>7. QED
  <2>1. Refuse(c) => Ownership'
    BY OwnershipFail DEF Refuse
  <2>2. QED
    BY <1>3, <1>5, <1>6, <2>1 DEF LookForNode

\* An edge that a delivery finds between nodes of its source is of its source.
LEMMA FoundEdgeIsOwn ==
    ASSUME IInv, Ownership, NEW c \in Active, calls[c].pc = "look", OnEdge(c),
           NEW e \in FoundEdges(c)
    PROVE  Sees(c, e) # None /\ Sees(c, e).source = Req(c).source
<1> DEFINE v == calls[c]
<1>1. /\ Proper(v, table) /\ v.request \in Requests
      /\ v.item \in 1 .. LastOf(v) /\ v.item % 3 = 0
    BY ActiveFields DEF OnEdge
<1>2. /\ e \in Edges /\ e \in Rows /\ Sees(c, e) # None
      /\ e.relation = RelationIn(v, v.item) /\ RelationIn(v, v.item) \in Relationships
    BY <1>1, PlaceFields DEF FoundEdges, Rows, Relation, RelationAt, RelationIn, Req
<1>3. CASE v.own[e] # None
    BY <1>1, <1>2, <1>3 DEF Proper, OwnRows, Sees, Req
<1>4. CASE v.own[e] = None
  <2>1. PICK n : n \in EndsOf(e.relation)
    BY DEF EndsOf
  <2>2. n \in Rows /\ Past(v, n)
    BY <1>1, <1>2, <2>1, EndsFields, EndsArePast
  <2>3. Mine(v, table, n)
    BY <1>1, <2>2 DEF Past, Proper, Settled
  <2>4. table[e] # None /\ Sees(c, e) = table[e]
    BY <1>2, <1>4 DEF Sees
  <2>5. table[n] # None /\ table[n].source = table[e].source
    BY <1>2, <2>1, <2>4 DEF Ownership, TableFits
  <2>6. table[n].source = v.request.source
    BY <1>1, <2>2, <2>3, <2>5 DEF Mine, SeenBy, Proper, OwnRows, Same
  <2>7. QED
    BY <1>2, <2>4, <2>5, <2>6 DEF Req
<1>5. QED
    BY <1>3, <1>4

LEMMA OwnershipLookForEdge ==
    ASSUME IInv, Ownership, NEW c \in Calls, LookForEdge(c) PROVE Ownership'
<1> DEFINE v == calls[c]
<1>1. c \in Active /\ v.pc = "look" /\ OnEdge(c) /\ v.item % 3 = 0
    BY DEF Active, LookForEdge, OnEdge
<1>2. /\ Relation(c) = RelationIn(v, v.item) /\ Relation(c) \in Relationships
    BY <1>1, ActiveFields, PlaceFields DEF Relation, RelationAt, RelationIn, Req
<1>3. Looked(c, Insertion(Edge(Relation(c), c))) => Ownership'
  <2> DEFINE k == Edge(Relation(c), c)
  <2>1. k \in Edges /\ k \in Rows /\ k.relation = Relation(c)
    BY <1>2 DEF Edge, Edges, Rows
  <2> HIDE DEF k
  <2>2. Insertion(k).row = k /\ Insertion(k).new
    BY <2>1, InsertionFields
  <2>3. NextRow(v, table, Insertion(k))
    BY <1>1, <1>2, <2>1, <2>2 DEF NextRow
  <2>4. QED
    BY <1>1, <2>3, OwnershipLooked DEF k
<1>4. ASSUME NEW e \in FoundEdges(c), Looked(c, Change(c, e, Sees(c, e).attrs # Req(c).attrs))
      PROVE  Ownership'
  <2> DEFINE w == Change(c, e, Sees(c, e).attrs # Req(c).attrs)
  <2>1. e \in Edges /\ e \in Rows /\ e.relation = Relation(c)
    BY DEF FoundEdges, Rows
  <2>2. w # None => w.row = e
    BY <2>1, ChangeIsWrite
  <2> HIDE DEF w
  <2>3. SeenBy(v, table, e) # None /\ SeenBy(v, table, e).source = v.request.source
    BY <1>1, FoundEdgeIsOwn DEF Sees, SeenBy, Req
  <2>4. NextRow(v, table, w)
    BY <1>1, <1>2, <2>1, <2>2, <2>3 DEF NextRow
  <2>5. QED
    BY <1>1, <1>4, <2>4, OwnershipLooked DEF w
<1>5. QED
    BY <1>3, <1>4 DEF LookForEdge

\* What a flush writes is of the delivery's source, as the row was before.
LEMMA WrittenFields ==
    ASSUME IInv, Ownership, NEW c \in Active, calls[c].pc = "write",
           calls[c].todo.new => table[calls[c].todo.row] = None
    PROVE  LET k == calls[c].todo.row
               x == Written(c)
           IN  /\ calls[c].todo # None /\ k \in Rows /\ x # None
               /\ x.source = calls[c].request.source
               /\ k \in Nodes => x.tenant = TenantOf[calls[c].request.source]
               /\ table[k] # None => Same(table[k], x)
<1> DEFINE v == calls[c]
           k == calls[c].todo.row
           x == Written(c)
<1>1. /\ c \in Calls /\ v \in Call /\ Proper(v, table) /\ v.request \in Requests
      /\ x \in Row /\ k \in Rows /\ v.todo # None /\ x # None
      /\ v.item \in 1 .. LastOf(v)
    BY ActiveFields, WrittenIsRow, NamesAssumption DEF IInv, PlacesHold
<1>2. CASE v.todo.new
  <2>1. x.source = v.request.source /\ x.tenant = TenantOf[v.request.source]
    BY <1>2 DEF Written, NewRow, Req
  <2>2. QED
    BY <1>1, <1>2, <2>1
<1>3. CASE ~v.todo.new
  <2>1. SeenBy(v, table, k) # None /\ SeenBy(v, table, k).source = v.request.source
    BY <1>1, <1>3 DEF Proper, NextRow, Mine
  <2>2. Sees(c, k) = SeenBy(v, table, k) /\ Sees(c, k) \in Row
    BY <1>1, <2>1, CallFields DEF Sees, SeenBy
  <2>3. x.source = v.request.source /\ x.tenant = Sees(c, k).tenant
    BY <1>3, <2>2 DEF Written, Row, Req
  <2>4. k \in Nodes => x.tenant = TenantOf[v.request.source]
    <3>1. k \in Nodes => v.item % 3 # 0
      BY <1>1, NamesAssumption DEF Proper, NextRow
    <3>2. QED
      BY <1>1, <1>3, <2>2, <2>3, <3>1 DEF Proper, NextRow, Mine
  <2>5. table[k] # None => Same(table[k], x)
    BY <1>1, <2>1, <2>2, <2>3 DEF SeenBy, Same, Proper, OwnRows
  <2>6. QED
    BY <1>1, <2>3, <2>4, <2>5
<1>4. QED
    BY <1>2, <1>3

LEMMA OwnershipFlush ==
    ASSUME IInv, Ownership, NEW c \in Calls, Flush(c) PROVE Ownership'
<1> DEFINE v == calls[c]
           k == calls[c].todo.row
           x == Written(c)
           u == [calls[c] EXCEPT !.own[k] = x, !.todo = None,
                                 !.pc = IF calls[c].chain THEN "commit" ELSE "look",
                                 !.item = IF calls[c].chain THEN @ ELSE @ + 1]
<1>1. /\ c \in Active /\ v.pc = "write" /\ v \in Call /\ Proper(v, table)
      /\ v.request \in Requests /\ v.item \in 1 .. LastOf(v) /\ ~Blocked(c, k)
      /\ v.own \in [Rows -> Row \cup {None}] /\ k \in Rows
  <2>1. c \in Active
    BY DEF Flush, Active
  <2>2. QED
    BY <2>1, ActiveFields, CallFields, WrittenIsRow DEF Flush
<1>2. CASE Fail(c, "error")
    BY <1>2, OwnershipFail
<1>3. CASE ~(v.todo.new /\ table[k] # None) /\ Update(c, u) /\ table' = table
  <2>1. /\ v.todo # None /\ k \in Rows /\ x # None /\ x.source = v.request.source
        /\ k \in Nodes => x.tenant = TenantOf[v.request.source]
        /\ table[k] # None => Same(table[k], x)
    BY <1>1, <1>3, WrittenFields
  <2> HIDE DEF x
  <2>2. /\ u.own = [v.own EXCEPT ![k] = x] /\ u.todo = None /\ u.request = v.request
        /\ u.pc = (IF v.chain THEN "commit" ELSE "look") /\ u.chain = v.chain
        /\ u.item = (IF v.chain THEN v.item ELSE v.item + 1)
    BY <1>1 DEF Call
  <2> HIDE DEF u
  <2>3. v.item \in Nat \ {0} /\ v.item % 3 # 0 => ~v.chain /\ u.item = v.item + 1
    BY <1>1, <2>2 DEF Proper
  <2>4. /\ \A j : NodeIn(u, j) = NodeIn(v, j)
        /\ Before(v) \subseteq Before(u)
        /\ v.item % 3 # 0 => v.item \in Before(u)
    <3>1. v.item \in Nat \ {0}
      BY <1>1
    <3>2. QED
      BY <2>2, <2>3, <3>1 DEF NodeIn, RelationIn, Before
  <2>5. /\ v.item % 3 = 0 => k \in Edges /\ k.relation = RelationIn(v, v.item)
        /\ v.item % 3 # 0 => k = NodeIn(v, v.item)
    BY <1>1, <2>1 DEF Proper, NextRow
  <2>6. k \in Nodes => Past(u, k)
    BY <2>4, <2>5, NamesAssumption DEF Past
  <2>7. k \in Edges => \A n \in EndsOf(k.relation) : Past(u, n)
    <3>1. CASE v.item % 3 = 0
      BY <1>1, <2>4, <2>5, <3>1, EndsArePast DEF Past
    <3>2. CASE v.item % 3 # 0
      BY <1>1, <2>5, <3>2, NodeFields, NamesAssumption
    <3>3. QED
      BY <3>1, <3>2
  <2>8. Settled(u, table) /\ OwnRows(u, table)
    <3>1. Settled(v, table) /\ OwnRows(v, table) /\ u.item \in {v.item, v.item + 1}
      BY <1>1, <2>2 DEF Proper
    <3>2. u.item # v.item /\ v.item % 3 # 0 => k = NodeIn(v, v.item)
      BY <2>5
    <3> HIDE DEF k, v
    <3>3. QED
      BY <1>1, <2>1, <2>2, <2>6, <2>7, <3>1, <3>2, Writing
  <2>9. Proper(u, table)
    <3>1. NextRow(u, table, u.todo)
      BY <2>2 DEF NextRow
    <3>2. QED
      BY <1>1, <2>2, <2>8, <3>1 DEF Proper
  <2>10. \A m \in Rows : u.own[m] # None => Wrote(c, m) \/ ~Blocked(c, m)
    BY <1>1, <2>2 DEF Wrote
  <2>11. u.pc # "idle"
    BY <2>2
  <2>12. QED
    BY <1>1, <1>3, <2>9, <2>10, <2>11, OwnershipUpdate
<1>4. QED
    BY <1>1, <1>2, <1>3, RivalsFields DEF Flush

LEMMA OwnershipLockChain ==
    ASSUME IInv, Ownership, NEW c \in Calls, LockChain(c) PROVE Ownership'
<1> DEFINE v == calls[c]
           u == [calls[c] EXCEPT !.chain = TRUE,
                                 !.pc = IF calls[c].todo = None THEN "commit" ELSE "write"]
<1>1. /\ c \in Active /\ v.pc = "lock" /\ v \in Call /\ Proper(v, table)
  <2>1. c \in Active
    BY DEF LockChain, Active
  <2>2. QED
    BY <2>1, ActiveFields DEF LockChain
<1>2. /\ u.own = v.own /\ u.todo = v.todo /\ u.request = v.request /\ u.item = v.item
      /\ u.pc = (IF v.todo = None THEN "commit" ELSE "write") /\ u.chain = TRUE
    BY <1>1 DEF Call
<1>3. Update(c, u) /\ table' = table
    BY DEF LockChain
<1> HIDE DEF u
<1>4. Proper(u, table)
    BY <1>1, <1>2, SameWork DEF Proper
<1>5. QED
    BY <1>1, <1>2, <1>3, <1>4, OwnershipUpdate DEF Wrote

\* What a commit makes of the tables: what was there stays whose it was.
LEMMA CommitGrows ==
    ASSUME IInv, Ownership, NEW c \in Active, table' = [k \in Rows |-> Sees(c, k)]
    PROVE  /\ \A k \in Rows : table'[k] = SeenBy(calls[c], table, k)
           /\ \A k \in Rows : table[k] # None => table'[k] # None /\ Same(table'[k], table[k])
           /\ \A d \in Active : d # c =>
                \A k \in Rows : calls[d].own[k] # None => table'[k] = table[k]
<1>1. \A k \in Rows : table'[k] = SeenBy(calls[c], table, k)
    BY DEF Sees, SeenBy
<1>2. c \in Calls /\ OwnRows(calls[c], table)
    BY ActiveFields DEF Proper
<1>3. \A k \in Rows : table[k] # None => table'[k] # None /\ Same(table'[k], table[k])
    BY <1>1, <1>2 DEF SeenBy, OwnRows, Same
<1>4. ASSUME NEW d \in Active, d # c, NEW k \in Rows, calls[d].own[k] # None
      PROVE  table'[k] = table[k]
    BY <1>1, <1>4 DEF Ownership, Locked, Wrote, SeenBy
<1>5. QED
    BY <1>1, <1>3, <1>4

LEMMA CommitFits ==
    ASSUME IInv, Ownership, NEW c \in Active, table' = [k \in Rows |-> Sees(c, k)]
    PROVE  TableFits(table')
<1> DEFINE v == calls[c]
<1>1. /\ \A k \in Rows : table'[k] = SeenBy(v, table, k)
      /\ \A k \in Rows : table[k] # None => table'[k] # None /\ Same(table'[k], table[k])
      /\ Proper(v, table) /\ TableFits(table)
      /\ v.request \in Requests /\ v.item \in 1 .. LastOf(v)
    BY CommitGrows, ActiveFields DEF Ownership
<1>2. ASSUME NEW e \in Edges, table'[e] # None, NEW n \in EndsOf(e.relation)
      PROVE  table'[n] # None /\ table'[n].source = table'[e].source
  <2>1. e \in Rows /\ n \in Rows
    BY EndsFields DEF Rows, Edges
  <2>2. CASE v.own[e] # None
    <3>1. table'[e].source = v.request.source
      BY <1>1, <2>1, <2>2 DEF SeenBy, Proper, OwnRows
    <3>2. Mine(v, table, n)
      BY <1>1, <2>1, <2>2 DEF Proper, OwnRows, Settled, Past
    <3>3. QED
      BY <1>1, <2>1, <3>1, <3>2 DEF Mine
  <2>3. CASE v.own[e] = None
    <3>1. table'[e] = table[e]
      BY <1>1, <2>1, <2>3 DEF SeenBy
    <3>2. table[n] # None /\ table[n].source = table[e].source
      BY <1>1, <1>2, <3>1 DEF TableFits
    <3>3. QED
      BY <1>1, <2>1, <3>1, <3>2 DEF Same
  <2>4. QED
    BY <2>2, <2>3
<1>3. ASSUME NEW n \in DOMAIN Existing
      PROVE  table'[n] # None /\ Same(table'[n], Existing[n])
  <2>1. n \in Rows
    BY IngestionAssumption DEF Rows
  <2>2. QED
    BY <1>1, <2>1 DEF TableFits, Same
<1>4. ASSUME NEW n \in Nodes, table'[n] # None
      PROVE  n \in DOMAIN Existing \/ n.name = n.ext
  <2>1. n \in Rows
    BY DEF Rows
  <2>2. CASE v.own[n] # None
    <3>1. PICK j \in Before(v) : NodeIn(v, j) = n
      BY <1>1, <2>2 DEF Proper, OwnRows, Past
    <3>2. j \in 1 .. LastOf(v) /\ j % 3 # 0
      BY <1>1, RequestFields DEF Before, LastOf
    <3>3. QED
      BY <1>1, <3>1, <3>2, NodeFields
  <2>3. CASE v.own[n] = None
    BY <1>1, <1>4, <2>1, <2>3 DEF SeenBy, TableFits
  <2>4. QED
    BY <2>2, <2>3
<1>5. QED
    BY <1>2, <1>3, <1>4 DEF TableFits

LEMMA OwnershipCommit ==
    ASSUME IInv, Ownership, NEW c \in Calls, Commit(c) PROVE Ownership'
<1> DEFINE u == [calls[c] EXCEPT !.pc = "ended", !.answer = "applied", !.chain = FALSE]
<1>1. c \in Active /\ calls[c] \in Call
    BY CallFields DEF Commit, Active
<1>2. CASE Fail(c, "error")
    BY <1>2, OwnershipFail
<1>3. CASE table' = [k \in Rows |-> Sees(c, k)] /\ Update(c, u)
  <2>1. u.pc = "ended"
    BY <1>1 DEF Call
  <2> HIDE DEF u
  <2>2. calls'[c] = u /\ \A d \in Calls \ {c} : calls'[d] = calls[d]
    BY <1>3 DEF Update, IInv, TypeOK
  <2>3. Active' = Active \ {c} /\ \A d \in Active' : calls'[d] = calls[d]
    BY <2>1, <2>2 DEF Active
  <2>4. Unbegun'
    BY <2>1, <2>2 DEF Ownership, Unbegun
  <2>5. Locked'
    BY <2>3 DEF Ownership, Locked, Wrote
  <2>6. TableFits(table')
    BY <1>1, <1>3, CommitFits
  <2>7. ASSUME NEW d \in Active' PROVE Proper(calls'[d], table')
    <3>1. d \in Active /\ d # c /\ calls'[d] = calls[d]
      BY <2>3
    <3>2. /\ \A k \in Rows : table[k] # None => table'[k] # None /\ Same(table'[k], table[k])
          /\ \A k \in Rows : calls[d].own[k] # None => table'[k] = table[k]
      BY <1>1, <1>3, <3>1, CommitGrows
    <3>3. QED
      BY <3>1, <3>2, ActiveFields, ProperLater
  <2>8. QED
    BY <2>4, <2>5, <2>6, <2>7 DEF Ownership
<1>4. QED
    BY <1>2, <1>3, Zenon DEF Commit

LEMMA InitOwnership == Init => Ownership
<1> SUFFICES ASSUME Init PROVE Ownership
    OBVIOUS
<1>1. Active = {}
    BY DEF Init, Active, Idle
<1>2. Unbegun
    BY DEF Init, Unbegun, Idle
<1>3. DOMAIN Existing \subseteq Nodes /\ \A n \in DOMAIN Existing : Existing[n] # None
    BY IngestionAssumption, NamesAssumption
<1>4. \A n \in DOMAIN Existing : table[n] = Existing[n]
    BY <1>3 DEF Init, Rows
<1>5. \A k \in Rows : table[k] # None => k \in DOMAIN Existing
    BY DEF Init
<1>6. TableFits(table)
    BY <1>3, <1>4, <1>5, NamesAssumption DEF TableFits, Same, Rows
<1>7. QED
    BY <1>1, <1>2, <1>6 DEF Ownership, Locked

LEMMA NextOwnership == IInv /\ Ownership /\ [Next]_vars => Ownership'
<1> SUFFICES ASSUME IInv, Ownership, [Next]_vars PROVE Ownership'
    OBVIOUS
<1>1. CASE UNCHANGED <<table, calls>>
    BY <1>1 DEF Ownership, Unbegun, Locked, Active, Wrote
<1>2. ASSUME NEW c \in Calls, NEW r \in Requests, Receive(c, r) PROVE Ownership'
    BY <1>2, OwnershipReceive
<1>3. ASSUME NEW c \in Calls, Step(c) PROVE Ownership'
    BY <1>3, OwnershipLookForNode, OwnershipLookForEdge, OwnershipFlush, OwnershipLockChain,
       OwnershipCommit DEF Step
<1>4. ASSUME NEW c \in Calls, Abort(c) \/ Die(c) PROVE Ownership'
    BY <1>4, OwnershipFail DEF Abort, Die
<1>5. QED
    BY <1>1, <1>2, <1>3, <1>4 DEF Next, vars, Disable, Tick

LEMMA AlwaysOwnership == Spec => []Ownership
BY Inductive, InitOwnership, NextOwnership, PTL DEF Spec

-----------------------------------------------------------------------------
(* Two rows where there should be one: who did not see whom *)

\* The delivery v has brought row k, or is about to.
AddsTo(v, k) ==
    \/ v.own[k] # None /\ table[k] = None
    \/ v.todo # None /\ v.todo.new /\ v.todo.row = k

\* The edges a delivery writes are there already, or bear its name.
EdgesSigned(c, v) ==
    /\ \A e \in Edges : v.own[e] # None => e.by = c \/ table[e] # None
    /\ v.todo # None /\ v.todo.new /\ v.todo.row \in Edges => v.todo.row.by = c

\* Whoever has committed the same relationship did so meanwhile, and has
\* written none of its nodes that this delivery has.
EdgesNew(c, v) ==
    \A r \in Relationships : AddsTo(v, Edge(r, c)) =>
        \A d \in Calls \ {c} : table[Edge(r, d)] # None =>
            /\ Overlapped(c, d)
            /\ \A n \in EndsOf(r) : ~(v.own[n] # None /\ Wrote(d, n))

\* Whoever has committed another node of the same external id did so meanwhile.
NodesNew(c, v) ==
    \A n \in Nodes : AddsTo(v, n) =>
        \A m \in Nodes : /\ m # n /\ m.ext = n.ext /\ table[m] # None
                         /\ table[m].tenant = TenantOf[v.request.source]
            => \E d \in Applied : Wrote(d, m) /\ Overlapped(c, d)

\* A delivery writes one node of an external id.
OneNode(v) ==
    \A m, n \in Nodes : v.own[m] # None /\ v.own[n] # None /\ m.ext = n.ext => m = n

New(c, v) == EdgesSigned(c, v) /\ EdgesNew(c, v) /\ NodesNew(c, v) /\ OneNode(v)

EdgesAreBy == \A e \in Edges : table[e] # None => e.by \in Applied /\ Wrote(e.by, e)
ActiveMeet == \A c, d \in Active : c # d => Overlapped(c, d)

Races ==
    /\ EdgesAreBy /\ ActiveMeet /\ OneRowUnlessRaced
    /\ \A c \in Active : New(c, calls[c])

\* What a delivery has brought is as new as before if nothing was applied.
LEMMA StillNew ==
    ASSUME NEW c \in Calls, NEW v, New(c, v), EdgesAreBy, table' = table, Applied' = Applied,
           v = calls'[c], \A d \in Applied : calls'[d] = calls[d],
           \A d \in Applied : Overlapped(c, d) => Overlapped(c, d)'
    PROVE  New(c, calls[c])'
<1>1. \A k : AddsTo(calls[c], k)' <=> AddsTo(v, k)
    BY DEF AddsTo
<1>2. \A d \in Applied : \A k : Wrote(d, k)' <=> Wrote(d, k)
    BY DEF Wrote
<1>3. EdgesSigned(c, calls[c])'
    BY DEF New, EdgesSigned
<1>4. EdgesNew(c, calls[c])'
  <2> SUFFICES ASSUME NEW r \in Relationships, AddsTo(v, Edge(r, c)),
                      NEW d \in Calls \ {c}, table[Edge(r, d)] # None
               PROVE  /\ Overlapped(c, d)'
                      /\ \A n \in EndsOf(r) : ~(v.own[n] # None /\ Wrote(d, n)')
      BY <1>1 DEF EdgesNew
  <2>1. Edge(r, d) \in Edges /\ Edge(r, d).by = d
    BY DEF Edge, Edges
  <2>2. d \in Applied
    BY <2>1 DEF EdgesAreBy
  <2>3. QED
    BY <1>2, <2>2 DEF New, EdgesNew
<1>5. NodesNew(c, calls[c])'
  <2> SUFFICES ASSUME NEW n \in Nodes, AddsTo(v, n), NEW m \in Nodes,
                      m # n, m.ext = n.ext, table[m] # None,
                      table[m].tenant = TenantOf[v.request.source]
               PROVE  \E d \in Applied' : Wrote(d, m)' /\ Overlapped(c, d)'
      BY <1>1 DEF NodesNew
  <2>1. PICK d \in Applied : Wrote(d, m) /\ Overlapped(c, d)
    BY DEF New, NodesNew
  <2>2. QED
    BY <1>2, <2>1
<1>6. OneNode(calls[c])'
    BY DEF New, OneNode
<1>7. QED
    BY <1>3, <1>4, <1>5, <1>6 DEF New

\* Pairs that raced have raced, whatever happens to other deliveries.
LEMMA StillOneRow ==
    ASSUME OneRowUnlessRaced, EdgesAreBy, table' = table, Applied' = Applied,
           \A d \in Applied : calls'[d] = calls[d]
    PROVE  OneRowUnlessRaced'
<1>1. \A c, d \in Applied : Overlapped(c, d)' <=> Overlapped(c, d)
    BY DEF Overlapped
<1>2. \A d \in Applied : \A k : Wrote(d, k)' <=> Wrote(d, k)
    BY DEF Wrote
<1>3. ASSUME NEW r \in Relationships, NEW c \in Calls, NEW d \in Calls,
             table[Edge(r, c)] # None, table[Edge(r, d)] # None, c # d
      PROVE  /\ Overlapped(c, d)'
             /\ \A n \in {Ends[r][1], Ends[r][2]} : ~(Wrote(c, n)' /\ Wrote(d, n)')
  <2>1. /\ Edge(r, c) \in Edges /\ Edge(r, c).by = c
        /\ Edge(r, d) \in Edges /\ Edge(r, d).by = d
    BY DEF Edge, Edges
  <2>2. c \in Applied /\ d \in Applied
    BY <1>3, <2>1 DEF EdgesAreBy
  <2>3. /\ Overlapped(c, d)
        /\ \A n \in {Ends[r][1], Ends[r][2]} : ~(Wrote(c, n) /\ Wrote(d, n))
    BY <1>3 DEF OneRowUnlessRaced
  <2>4. QED
    BY <1>1, <1>2, <2>2, <2>3
<1>4. ASSUME NEW m \in {k \in Nodes : table[k] # None}, NEW n \in {k \in Nodes : table[k] # None},
             m.ext = n.ext, m # n, table[m].tenant = table[n].tenant
      PROVE  \/ {m, n} \subseteq DOMAIN Existing
             \/ \E c, d \in Applied' : Wrote(c, m)' /\ Wrote(d, n)' /\ Overlapped(c, d)'
  <2>1. \/ {m, n} \subseteq DOMAIN Existing
        \/ \E c, d \in Applied : Wrote(c, m) /\ Wrote(d, n) /\ Overlapped(c, d)
    BY <1>4 DEF OneRowUnlessRaced
  <2>2. QED
    BY <1>1, <1>2, <2>1
<1>5. QED
    BY <1>3, <1>4 DEF OneRowUnlessRaced

\* A step of one delivery that applies nothing.
LEMMA RacesUpdate ==
    ASSUME IInv, Vouched, Races, NEW c \in Calls, calls[c].pc # "ended", NEW u,
           Update(c, u), table' = table, u.answer # "applied",
           \/ u.pc = "ended"
           \/ c \in Active /\ u.met = calls[c].met /\ New(c, u)
           \/ u.met = Active /\ u.todo = None /\ \A k \in Rows : u.own[k] = None
    PROVE  Races'
<1>1. calls'[c] = u /\ \A d \in Calls \ {c} : calls'[d] = calls[d]
    BY DEF Update, IInv, TypeOK
<1>2. c \notin Applied
    BY DEF Vouched
<1>3. Applied' = Applied /\ \A d \in Applied : d \in Calls \ {c} /\ calls'[d] = calls[d]
    BY <1>1, <1>2 DEF Applied
<1>4. \A d \in Active' : d # c => d \in Active /\ calls'[d] = calls[d]
    BY <1>1 DEF Active
<1>5. \A d, e \in Calls \ {c} : Overlapped(d, e)' <=> Overlapped(d, e)
    BY <1>1 DEF Overlapped
<1>6. EdgesAreBy'
    BY <1>3 DEF Races, EdgesAreBy, Wrote
<1>7. ASSUME u.met = calls[c].met, NEW d \in Calls, Overlapped(c, d)
      PROVE  Overlapped(c, d)' /\ Overlapped(d, c)'
    BY <1>1, <1>7 DEF Overlapped
<1>8. ActiveMeet'
  <2> SUFFICES ASSUME NEW d \in Active', NEW e \in Active', d # e PROVE Overlapped(d, e)'
      BY DEF ActiveMeet
  <2>1. d \in Calls /\ e \in Calls
    BY DEF Active
  <2>2. CASE d # c /\ e # c
    BY <1>4, <1>5, <2>1, <2>2 DEF Races, ActiveMeet
  <2>3. ASSUME NEW x \in Active, x # c, c \in Active' PROVE Overlapped(c, x)' /\ Overlapped(x, c)'
    <3>1. u.pc # "ended" /\ x \in Calls
      BY <2>3, <1>1 DEF Active
    <3>2. CASE u.met = Active
      BY <1>1, <2>3, <3>2 DEF Overlapped
    <3>3. CASE c \in Active /\ u.met = calls[c].met
      BY <1>7, <2>3, <3>1, <3>3 DEF Races, ActiveMeet
    <3>4. QED
      BY <3>1, <3>2, <3>3
  <2>4. QED
    BY <1>4, <2>2, <2>3
<1>9. OneRowUnlessRaced'
    BY <1>3, StillOneRow DEF Races
<1>10. ASSUME NEW d \in Active' PROVE New(d, calls[d])'
  <2>1. d \in Calls
    BY DEF Active
  <2>2. CASE d # c
    <3>1. d \in Active /\ calls'[d] = calls[d] /\ New(d, calls[d])
      BY <1>4, <2>2 DEF Races
    <3>2. \A e \in Applied : Overlapped(d, e) => Overlapped(d, e)'
      BY <1>3, <1>5, <2>1, <2>2
    <3>3. QED
      BY <1>3, <2>1, <3>1, <3>2, StillNew DEF Races
  <2>3. CASE d = c /\ u.met = calls[c].met /\ New(c, u)
    <3>1. \A e \in Applied : Overlapped(c, e) => Overlapped(c, e)'
      BY <1>3, <1>7, <2>3
    <3>2. QED
      BY <1>1, <1>3, <2>3, <3>1, StillNew DEF Races
  <2>4. CASE d = c /\ u.todo = None /\ \A k \in Rows : u.own[k] = None
    <3>1. \A k \in Rows : ~AddsTo(calls[c], k)' /\ calls'[c].own[k] = None
      BY <1>1, <2>4 DEF AddsTo
    <3>2. \A r \in Relationships : Edge(r, c) \in Rows
      BY DEF Edge, Edges, Rows
    <3>3. QED
      BY <1>1, <2>4, <3>1, <3>2 DEF New, EdgesSigned, EdgesNew, NodesNew, OneNode, Rows
  <2>5. CASE d = c /\ u.pc = "ended"
    BY <1>1, <2>5 DEF Active
  <2>6. QED
    BY <2>2, <2>3, <2>4, <2>5
<1>11. QED
    BY <1>6, <1>8, <1>9, <1>10 DEF Races

LEMMA RacesFail ==
    ASSUME IInv, Vouched, Races, NEW c \in Calls, calls[c].pc # "ended",
           NEW answer \in {"refused", "error"}, Fail(c, answer)
    PROVE  Races'
<1> DEFINE v == [calls[c] EXCEPT !.pc = "ended", !.answer = answer, !.own = NoWrites,
                                 !.todo = None, !.chain = FALSE]
<1>1. v.pc = "ended" /\ v.answer # "applied"
    BY CallFields DEF Call
<1>2. Update(c, v) /\ table' = table
    BY DEF Fail
<1> HIDE DEF v
<1>3. QED
    BY <1>1, <1>2, RacesUpdate

LEMMA RacesReceive ==
    ASSUME IInv, Ownership, Vouched, Races, NEW c \in Calls, NEW r \in Requests, Receive(c, r)
    PROVE  Races'
<1> DEFINE call == [calls[c] EXCEPT !.request = r, !.met = Active]
           receipt == IF r.key = None THEN None ELSE receipts[r.source][r.key]
           refused == [call EXCEPT !.pc = "ended", !.answer = "refused"]
           replayed == [call EXCEPT !.pc = "ended", !.answer = "replayed", !.told = receipt]
           begun == [call EXCEPT !.pc = "look", !.item = 1, !.last = sources[r.source].last]
<1>1. /\ calls[c] \in Call /\ table' = table /\ calls[c].pc = "idle"
      /\ calls[c].own = NoWrites /\ calls[c].todo = None /\ calls[c].answer = "none"
    BY CallFields DEF Receive, Ownership, Unbegun, IInv, ReceiptsTell
<1>2. /\ refused.pc = "ended" /\ refused.answer = "refused"
      /\ replayed.pc = "ended" /\ replayed.answer = "replayed"
      /\ begun.met = Active /\ begun.todo = None /\ begun.own = NoWrites
      /\ begun.answer = "none"
    BY <1>1 DEF Call
<1>3. Update(c, IF ~sources[r.source].enabled THEN refused
                ELSE IF receipt # None THEN replayed
                ELSE IF r.source \in Versioned \/ ~Acceptable(r) THEN refused
                ELSE begun)
    BY DEF Receive
<1> HIDE DEF refused, replayed, begun, receipt
<1>4. \A k \in Rows : begun.own[k] = None
    BY <1>2 DEF NoWrites
<1>5. Update(c, refused) => Races'
    BY <1>1, <1>2, RacesUpdate
<1>6. Update(c, replayed) => Races'
    BY <1>1, <1>2, RacesUpdate
<1>7. Update(c, begun) => Races'
    BY <1>1, <1>2, <1>4, RacesUpdate
<1>8. QED
    BY <1>3, <1>5, <1>6, <1>7

\* Nothing of what is to be inserted has been seen.
Unseen(c, w) ==
    w # None /\ w.new =>
        /\ w.row \in Edges => /\ w.row.by = c
                              /\ \A d \in Calls : table[Edge(w.row.relation, d)] = None
        /\ \A m \in Nodes : /\ m.ext = w.row.ext /\ table[m] # None
                            /\ table[m].tenant = TenantOf[Req(c).source]
             => w.row \notin Nodes

LEMMA RacesLooked ==
    ASSUME IInv, Ownership, Vouched, Races, NEW c \in Calls, calls[c].pc = "look", NEW todo,
           Looked(c, todo), Unseen(c, todo)
    PROVE  Races'
<1> DEFINE v == calls[c]
           lock == [calls[c] EXCEPT !.pc = "lock", !.todo = todo]
           next == [calls[c] EXCEPT !.item = @ + 1]
           write == [calls[c] EXCEPT !.pc = "write", !.todo = todo]
<1>1. /\ c \in Active /\ v \in Call /\ v.todo = None /\ New(c, v) /\ table' = table
      /\ v.answer # "applied"
  <2>1. c \in Active /\ v.answer # "applied"
    BY DEF Active, Vouched, Applied
  <2>2. QED
    BY <2>1, ActiveFields DEF Looked, Proper, Races
<1>2. ASSUME NEW u, u.own = v.own, u.request = v.request, u.met = v.met,
             u.answer = v.answer, u.todo \in {todo, None}, Update(c, u)
      PROVE  Races'
  <2>1. ASSUME NEW k, AddsTo(u, k)
        PROVE  AddsTo(v, k) \/ (todo # None /\ todo.new /\ todo.row = k)
    BY <1>2, <2>1 DEF AddsTo
  <2>2. EdgesSigned(c, u)
    BY <1>1, <1>2 DEF New, EdgesSigned, Unseen
  <2>3. EdgesNew(c, u)
    <3> SUFFICES ASSUME NEW r \in Relationships, AddsTo(u, Edge(r, c)),
                        NEW d \in Calls \ {c}, table[Edge(r, d)] # None
                 PROVE  /\ Overlapped(c, d)
                        /\ \A n \in EndsOf(r) : ~(u.own[n] # None /\ Wrote(d, n))
        BY DEF EdgesNew
    <3>1. Edge(r, c) \in Edges /\ Edge(r, c).relation = r
      BY DEF Edge, Edges
    <3>2. AddsTo(v, Edge(r, c))
      BY <2>1, <3>1 DEF Unseen
    <3>3. QED
      BY <1>1, <1>2, <3>2 DEF New, EdgesNew
  <2>4. NodesNew(c, u)
    <3> SUFFICES ASSUME NEW n \in Nodes, AddsTo(u, n), NEW m \in Nodes, m # n,
                        m.ext = n.ext, table[m] # None,
                        table[m].tenant = TenantOf[u.request.source]
                 PROVE  \E d \in Applied : Wrote(d, m) /\ Overlapped(c, d)
        BY DEF NodesNew
    <3>1. AddsTo(v, n)
      BY <1>2, <2>1 DEF Unseen, Req
    <3>2. QED
      BY <1>1, <1>2, <3>1 DEF New, NodesNew
  <2>5. New(c, u)
    BY <1>1, <1>2, <2>2, <2>3, <2>4 DEF New, OneNode
  <2>6. QED
    BY <1>1, <1>2, <2>5, RacesUpdate
<1>3. /\ lock.own = v.own /\ lock.request = v.request /\ lock.met = v.met
      /\ lock.answer = v.answer /\ lock.todo = todo
      /\ write.own = v.own /\ write.request = v.request /\ write.met = v.met
      /\ write.answer = v.answer /\ write.todo = todo
      /\ next.own = v.own /\ next.request = v.request /\ next.met = v.met
      /\ next.answer = v.answer /\ next.todo = None
    BY <1>1 DEF Call
<1>4. Update(c, IF v.item = LastItem(c) THEN lock ELSE IF todo = None THEN next ELSE write)
    BY DEF Looked
<1> HIDE DEF lock, next, write
<1>5. Update(c, lock) \/ Update(c, next) \/ Update(c, write)
    BY <1>4
<1>6. QED
    BY <1>2, <1>3, <1>5

LEMMA ChangeIsOld ==
    ASSUME NEW c, NEW k, NEW attrs
    PROVE  Change(c, k, attrs) = None \/ ~Change(c, k, attrs).new
BY DEF Change

LEMMA RacesLookForNode ==
    ASSUME IInv, Ownership, Vouched, Races, NEW c \in Calls, LookForNode(c) PROVE Races'
<1>1. c \in Active /\ calls[c].pc = "look" /\ calls[c].pc # "ended"
    BY DEF Active, LookForNode
<1>2. Node(c) \in Nodes /\ Node(c) \in Rows
    BY <1>1, ItemFields DEF LookForNode, Rows
<1>3. Refuse(c) => Races'
    BY <1>1, RacesFail DEF Refuse
<1>4. Looked(c, None) => Races'
    BY <1>1, RacesLooked DEF Unseen
<1>5. FoundNodes(c) = {} /\ Looked(c, Insertion(Node(c))) => Races'
  <2> HAVE FoundNodes(c) = {} /\ Looked(c, Insertion(Node(c)))
  <2>1. ASSUME NEW m \in Nodes, m.ext = Node(c).ext, table[m] # None,
               table[m].tenant = TenantOf[Req(c).source]
        PROVE  FALSE
    <3>1. m \in Rows /\ OwnRows(calls[c], table)
      BY <1>1, ActiveFields DEF Proper, Rows
    <3>2. Sees(c, m) # None /\ Sees(c, m).tenant = TenantOf[Req(c).source]
      BY <2>1, <3>1 DEF Sees, OwnRows, Same
    <3>3. QED
      BY <2>1, <3>2 DEF FoundNodes
  <2>2. Insertion(Node(c)).row = Node(c) /\ Node(c) \notin Edges
    BY <1>2, InsertionFields, NamesAssumption
  <2>3. Unseen(c, Insertion(Node(c)))
    BY <2>1, <2>2 DEF Unseen
  <2>4. QED
    BY <1>1, <2>3, RacesLooked
<1>6. ASSUME NEW n \in FoundNodes(c), Looked(c, Change(c, n, FALSE)) PROVE Races'
  <2>1. Change(c, n, FALSE) = None \/ ~Change(c, n, FALSE).new
    BY ChangeIsOld
  <2>2. QED
    BY <1>1, <1>6, <2>1, RacesLooked DEF Unseen
<1>7. QED
    BY <1>3, <1>4, <1>5, <1>6 DEF LookForNode

LEMMA RacesLookForEdge ==
    ASSUME IInv, Ownership, Vouched, Races, NEW c \in Calls, LookForEdge(c) PROVE Races'
<1>1. c \in Active /\ calls[c].pc = "look"
    BY DEF Active, LookForEdge
<1>2. Relation(c) \in Relationships
    BY <1>1, ItemFields
<1>3. FoundEdges(c) = {} /\ Looked(c, Insertion(Edge(Relation(c), c))) => Races'
  <2> DEFINE k == Edge(Relation(c), c)
  <2> HAVE FoundEdges(c) = {} /\ Looked(c, Insertion(k))
  <2>1. k \in Edges /\ k \in Rows /\ k \notin Nodes /\ k.relation = Relation(c) /\ k.by = c
    BY <1>2, NamesAssumption DEF Edge, Edges, Rows
  <2>2. ASSUME NEW d \in Calls PROVE table[Edge(Relation(c), d)] = None
    <3> DEFINE e == Edge(Relation(c), d)
    <3>1. e \in Edges /\ e \in Rows /\ e.relation = Relation(c)
      BY <1>2 DEF Edge, Edges, Rows
    <3> HIDE DEF e
    <3>2. Sees(c, e) = None
      BY <3>1 DEF FoundEdges
    <3>3. table[e] = None
      BY <3>2 DEF Sees
    <3>4. QED
      BY <3>3 DEF e
  <2> HIDE DEF k
  <2>3. Insertion(k).row = k
    BY <2>1, InsertionFields
  <2>4. Unseen(c, Insertion(k))
    BY <2>1, <2>2, <2>3 DEF Unseen
  <2>5. QED
    BY <1>1, <2>4, RacesLooked
<1>4. ASSUME NEW e \in FoundEdges(c), Looked(c, Change(c, e, Sees(c, e).attrs # Req(c).attrs))
      PROVE  Races'
  <2> DEFINE w == Change(c, e, Sees(c, e).attrs # Req(c).attrs)
  <2>1. w = None \/ ~w.new
    BY ChangeIsOld
  <2> HIDE DEF w
  <2>2. QED
    BY <1>1, <1>4, <2>1, RacesLooked DEF Unseen, w
<1>5. QED
    BY <1>3, <1>4 DEF LookForEdge

LEMMA RacesFlush ==
    ASSUME IInv, Ownership, Vouched, Races, NEW c \in Calls, Flush(c) PROVE Races'
<1> DEFINE v == calls[c]
           k == calls[c].todo.row
           x == Written(c)
           u == [calls[c] EXCEPT !.own[k] = x, !.todo = None,
                                 !.pc = IF calls[c].chain THEN "commit" ELSE "look",
                                 !.item = IF calls[c].chain THEN @ ELSE @ + 1]
<1>1. /\ c \in Active /\ v.pc = "write" /\ v \in Call /\ Proper(v, table) /\ New(c, v)
      /\ v.request \in Requests /\ v.item \in 1 .. LastOf(v) /\ v.answer # "applied"
      /\ v.own \in [Rows -> Row \cup {None}] /\ v.todo # None /\ k \in Rows
  <2>1. c \in Active /\ v.pc = "write" /\ v.answer # "applied"
    BY DEF Flush, Active, Vouched, Applied
  <2>2. QED
    BY <2>1, ActiveFields, CallFields, WrittenIsRow DEF Races, IInv, PlacesHold
<1>2. CASE Fail(c, "error")
    BY <1>1, <1>2, RacesFail
<1>3. CASE ~(v.todo.new /\ table[k] # None) /\ Update(c, u) /\ table' = table
  <2>1. /\ u.own = [v.own EXCEPT ![k] = x] /\ u.todo = None /\ u.request = v.request
        /\ u.met = v.met /\ u.answer = v.answer
    BY <1>1 DEF Call
  <2> HIDE DEF u, x
  <2>2. \A m \in Rows : m # k => u.own[m] = v.own[m]
    BY <2>1
  <2>3. k \in Edges \/ (k \in Nodes /\ v.item % 3 # 0)
    BY <1>1 DEF Proper, NextRow, Rows
  <2>4. ~v.todo.new => v.own[k] # None \/ table[k] # None
    BY <1>1, GoodNow DEF Good
  <2>5. ASSUME NEW m \in Rows, AddsTo(u, m) PROVE AddsTo(v, m)
    BY <1>1, <2>1, <2>2, <2>4, <2>5 DEF AddsTo
  <2>6. EdgesSigned(c, u)
    <3> SUFFICES ASSUME NEW e \in Edges, u.own[e] # None PROVE e.by = c \/ table[e] # None
        BY <2>1 DEF EdgesSigned
    <3>1. e \in Rows
      BY DEF Rows
    <3>2. CASE e # k
      BY <1>1, <2>2, <3>1, <3>2 DEF New, EdgesSigned
    <3>3. CASE e = k
      BY <1>1, <2>4, <3>3 DEF New, EdgesSigned
    <3>4. QED
      BY <3>2, <3>3
  <2>7. EdgesNew(c, u)
    <3> SUFFICES ASSUME NEW r \in Relationships, AddsTo(u, Edge(r, c)),
                        NEW d \in Calls \ {c}, table[Edge(r, d)] # None,
                        NEW n \in EndsOf(r), u.own[n] # None, Wrote(d, n)
                 PROVE  FALSE
      <4>1. \A r \in Relationships : Edge(r, c) \in Rows
        BY DEF Edge, Edges, Rows
      <4>2. QED
        BY <4>1, <1>1, <2>5 DEF New, EdgesNew
    <3>1. Edge(r, c) \in Edges /\ Edge(r, c) \in Rows /\ Edge(r, c).relation = r
      BY DEF Edge, Edges, Rows
    <3>2. AddsTo(v, Edge(r, c)) /\ n \in Nodes /\ n \in Rows
      BY <2>5, <3>1, EndsFields
    <3>3. v.own[n] = None
      BY <1>1, <3>2 DEF New, EdgesNew
    <3>4. n = k
      BY <2>2, <3>2, <3>3
    <3>5. k \notin Edges /\ v.item % 3 # 0
      BY <2>3, <3>2, <3>4, NamesAssumption
    <3>6. v.own[Edge(r, c)] # None
      BY <3>1, <3>2, <3>5 DEF AddsTo
    <3>7. Past(v, n)
      BY <1>1, <3>1, <3>6 DEF Proper, OwnRows
    <3>8. QED
      BY <1>1, <3>4, <3>5, <3>7 DEF Past, Proper, NextRow
  <2>8. NodesNew(c, u)
    <3>1. ASSUME NEW n \in Nodes, AddsTo(u, n) PROVE AddsTo(v, n)
      BY <2>5, <3>1 DEF Rows
    <3>2. QED
      BY <1>1, <2>1, <3>1 DEF New, NodesNew
  <2>9. OneNode(u)
    <3>1. ASSUME NEW m \in Nodes, m # k, v.own[m] # None, k \in Nodes PROVE m.ext # k.ext
      <4>1. v.item % 3 # 0
        BY <2>3, <3>1, NamesAssumption
      <4>2. Past(v, m)
        BY <1>1, <3>1 DEF Proper, OwnRows
      <4>3. QED
        BY <1>1, <4>1, <4>2 DEF Past, Proper, NextRow
    <3>2. \A m \in Nodes : m \in Rows
      BY DEF Rows
    <3>3. QED
      BY <1>1, <2>2, <3>1, <3>2 DEF New, OneNode
  <2>10. New(c, u)
    BY <2>6, <2>7, <2>8, <2>9 DEF New
  <2>11. QED
    BY <1>1, <1>3, <2>1, <2>10, RacesUpdate
<1>4. QED
    BY <1>1, <1>2, <1>3, RivalsFields DEF Flush

LEMMA RacesLockChain ==
    ASSUME IInv, Vouched, Races, NEW c \in Calls, LockChain(c) PROVE Races'
<1> DEFINE v == calls[c]
           u == [calls[c] EXCEPT !.chain = TRUE,
                                 !.pc = IF calls[c].todo = None THEN "commit" ELSE "write"]
<1>1. c \in Active /\ v \in Call /\ v.pc = "lock" /\ v.answer # "applied" /\ New(c, v)
    BY CallFields DEF LockChain, Active, Vouched, Applied, Races
<1>2. /\ u.own = v.own /\ u.todo = v.todo /\ u.request = v.request /\ u.met = v.met
      /\ u.answer = v.answer
    BY <1>1 DEF Call
<1>3. Update(c, u) /\ table' = table
    BY DEF LockChain
<1> HIDE DEF u
<1>4. \A k : AddsTo(u, k) <=> AddsTo(v, k)
    BY <1>2 DEF AddsTo
<1>5. New(c, u)
    BY <1>1, <1>2, <1>4 DEF New, EdgesSigned, EdgesNew, NodesNew, OneNode
<1>6. QED
    BY <1>1, <1>2, <1>3, <1>5, RacesUpdate

\* What a delivery has written of nodes is of its tenant.
LEMMA OwnTenant ==
    ASSUME IInv, Ownership, NEW c \in Active, NEW n \in Nodes, calls[c].own[n] # None
    PROVE  calls[c].own[n].tenant = TenantOf[calls[c].request.source]
<1>1. Past(calls[c], n) /\ Settled(calls[c], table)
    BY ActiveFields DEF Proper, OwnRows
<1>2. Mine(calls[c], table, n)
    BY <1>1 DEF Past, Settled
<1>3. QED
    BY <1>2 DEF Mine, SeenBy

\* What a commit does, seen from the deliveries.
LEMMA CommitFields ==
    ASSUME IInv, Vouched, NEW c \in Calls, Commit(c), ~Fail(c, "error")
    PROVE  /\ c \in Active /\ c \notin Applied
           /\ table' = [k \in Rows |-> Sees(c, k)]
           /\ \A d \in Calls \ {c} : calls'[d] = calls[d]
           /\ calls'[c].own = calls[c].own /\ calls'[c].met = calls[c].met
           /\ Active' = Active \ {c} /\ Applied' = Applied \cup {c}
<1> DEFINE u == [calls[c] EXCEPT !.pc = "ended", !.answer = "applied", !.chain = FALSE]
<1>1. calls[c].pc = "commit" /\ calls[c] \in Call
    BY CallFields DEF Commit
<1>2. c \in Active /\ c \notin Applied
    BY <1>1 DEF Active, Vouched
<1>3. Update(c, u) /\ table' = [k \in Rows |-> Sees(c, k)]
    BY Zenon DEF Commit
<1>4. u.pc = "ended" /\ u.answer = "applied" /\ u.own = calls[c].own /\ u.met = calls[c].met
    BY <1>1 DEF Call
<1> HIDE DEF u
<1>5. calls'[c] = u /\ \A d \in Calls \ {c} : calls'[d] = calls[d]
    BY <1>3 DEF Update, IInv, TypeOK
<1>6. QED
    BY <1>2, <1>3, <1>4, <1>5 DEF Active, Applied

\* A row that a commit adds is one the delivery had brought.
LEMMA CommitAdds ==
    ASSUME IInv, Ownership, Vouched, Races, NEW c \in Calls, Commit(c), ~Fail(c, "error"),
           NEW k \in Rows, table'[k] # None, table[k] = None
    PROVE  calls[c].own[k] # None /\ AddsTo(calls[c], k) /\ (k \in Edges => k.by = c)
<1>1. c \in Active /\ table'[k] = SeenBy(calls[c], table, k)
    BY CommitFields, CommitGrows
<1>2. calls[c].own[k] # None
    BY <1>1 DEF SeenBy
<1>3. QED
    BY <1>1, <1>2 DEF AddsTo, Races, New, EdgesSigned

LEMMA RacesCommitEdges ==
    ASSUME IInv, Ownership, Vouched, Races, NEW c \in Calls, Commit(c), ~Fail(c, "error"),
           NEW r \in Relationships, NEW a \in Calls, NEW b \in Calls, a # b,
           table'[Edge(r, a)] # None, table'[Edge(r, b)] # None
    PROVE  /\ Overlapped(a, b)
           /\ \A n \in EndsOf(r) : ~(Wrote(a, n) /\ Wrote(b, n))
<1>1. /\ Edge(r, a) \in Rows /\ Edge(r, a) \in Edges /\ Edge(r, a).by = a
      /\ Edge(r, b) \in Rows /\ Edge(r, b) \in Edges /\ Edge(r, b).by = b
    BY DEF Edge, Edges, Rows
<1>2. c \in Active /\ New(c, calls[c])
    BY CommitFields DEF Races
<1>3. CASE table[Edge(r, a)] # None /\ table[Edge(r, b)] # None
    BY <1>3 DEF Races, OneRowUnlessRaced, EndsOf
<1>4. CASE table[Edge(r, a)] = None
  <2>1. a = c /\ AddsTo(calls[c], Edge(r, c))
    BY <1>1, <1>4, CommitAdds
  <2>2. table[Edge(r, b)] # None
    BY <1>1, <2>1, CommitAdds
  <2>3. QED
    BY <1>2, <2>1, <2>2 DEF New, EdgesNew, Wrote
<1>5. CASE table[Edge(r, b)] = None
  <2>1. b = c /\ AddsTo(calls[c], Edge(r, c))
    BY <1>1, <1>5, CommitAdds
  <2>2. table[Edge(r, a)] # None
    BY <1>1, <2>1, CommitAdds
  <2>3. QED
    BY <1>2, <2>1, <2>2 DEF New, EdgesNew, Wrote, Overlapped
<1>6. QED
    BY <1>3, <1>4, <1>5

LEMMA RacesCommitNodes ==
    ASSUME IInv, Ownership, Vouched, Races, NEW c \in Calls, Commit(c), ~Fail(c, "error"),
           NEW m \in Nodes, NEW n \in Nodes, m # n, m.ext = n.ext,
           table'[m] # None, table'[n] # None, table'[m].tenant = table'[n].tenant
    PROVE  \/ {m, n} \subseteq DOMAIN Existing
           \/ \E a, b \in Applied \cup {c} : Wrote(a, m) /\ Wrote(b, n) /\ Overlapped(a, b)
<1>1. m \in Rows /\ n \in Rows /\ c \in Active /\ New(c, calls[c])
    BY CommitFields DEF Races, Rows
<1>2. /\ \A k \in Rows : table'[k] = SeenBy(calls[c], table, k)
      /\ \A k \in Rows : table[k] # None => Same(table'[k], table[k])
    BY <1>1, CommitFields, CommitGrows
<1>3. CASE table[m] # None /\ table[n] # None
  <2>1. table[m].tenant = table[n].tenant
    BY <1>1, <1>2, <1>3 DEF Same
  <2>2. QED
    BY <1>3, <2>1 DEF Races, OneRowUnlessRaced
<1>4. ASSUME NEW x \in Nodes, NEW y \in Nodes, x # y, x.ext = y.ext, table[x] = None,
             table'[x] # None, table'[y] # None, table'[x].tenant = table'[y].tenant
      PROVE  \E d \in Applied : Wrote(d, y) /\ Overlapped(c, d) /\ Wrote(c, x)
  <2>1. x \in Rows /\ y \in Rows
    BY DEF Rows
  <2>2. calls[c].own[x] # None /\ AddsTo(calls[c], x)
    BY <1>4, <2>1, CommitAdds
  <2>3. table'[x].tenant = TenantOf[calls[c].request.source]
    BY <1>1, <1>2, <2>1, <2>2, OwnTenant DEF SeenBy
  <2>4. table[y] # None
    <3> SUFFICES ASSUME table[y] = None PROVE FALSE
        OBVIOUS
    <3>1. calls[c].own[y] # None
      BY <1>4, <2>1, CommitAdds
    <3>2. QED
      BY <1>1, <1>4, <2>2, <3>1 DEF New, OneNode
  <2>5. table[y].tenant = TenantOf[calls[c].request.source]
    BY <1>2, <1>4, <2>1, <2>3, <2>4 DEF Same
  <2>6. PICK d \in Applied : Wrote(d, y) /\ Overlapped(c, d)
    BY <1>1, <1>4, <2>2, <2>4, <2>5 DEF New, NodesNew
  <2>7. QED
    BY <2>2, <2>6 DEF Wrote
<1>5. CASE table[m] = None
    BY <1>4, <1>5
<1>6. CASE table[n] = None
  <2>1. PICK d \in Applied : Wrote(d, m) /\ Overlapped(c, d) /\ Wrote(c, n)
    BY <1>4, <1>6
  <2>2. QED
    BY <2>1 DEF Overlapped
<1>7. QED
    BY <1>3, <1>5, <1>6

\* The others still under way did not see what is committed now, and have met
\* whoever commits it.
LEMMA RacesCommitOthers ==
    ASSUME IInv, Ownership, Vouched, Races, NEW c \in Calls, Commit(c), ~Fail(c, "error"),
           NEW d \in Active, d # c
    PROVE  New(d, calls[d])'
<1> DEFINE v == calls[d]
<1>1. /\ c \in Active /\ d \in Calls /\ calls'[d] = calls[d] /\ New(d, v)
      /\ Applied' = Applied \cup {c}
      /\ Overlapped(d, c) /\ \A k \in Rows : ~(Wrote(c, k) /\ Wrote(d, k))
  <2>1. c \in Active /\ d \in Calls
    BY CommitFields DEF Active
  <2>2. QED
    BY <2>1, CommitFields DEF Races, ActiveMeet, Ownership, Locked
<1>2. \A x \in Calls : /\ \A k : Wrote(x, k)' <=> Wrote(x, k)
                       /\ \A y \in Calls : Overlapped(x, y)' <=> Overlapped(x, y)
  <2>1. \A x \in Calls : calls'[x].own = calls[x].own /\ calls'[x].met = calls[x].met
    BY CommitFields
  <2>2. QED
    BY <2>1 DEF Wrote, Overlapped
<1>3. \A k \in Rows : table[k] # None => table'[k] # None /\ Same(table'[k], table[k])
    BY <1>1, CommitFields, CommitGrows
<1>4. ASSUME NEW k \in Rows, AddsTo(v, k)' PROVE AddsTo(v, k)
    BY <1>1, <1>3, <1>4 DEF AddsTo
<1>5. EdgesSigned(d, calls[d])'
    BY <1>1, <1>3 DEF New, EdgesSigned, Rows
<1>6. EdgesNew(d, calls[d])'
  <2> SUFFICES ASSUME NEW r \in Relationships, AddsTo(v, Edge(r, d))',
                      NEW x \in Calls \ {d}, table'[Edge(r, x)] # None
               PROVE  /\ Overlapped(d, x)
                      /\ \A n \in EndsOf(r) : ~(v.own[n] # None /\ Wrote(x, n))
      BY <1>1, <1>2 DEF EdgesNew
  <2>1. /\ Edge(r, d) \in Rows
        /\ Edge(r, x) \in Rows /\ Edge(r, x) \in Edges /\ Edge(r, x).by = x
    BY <1>1 DEF Edge, Edges, Rows
  <2>2. AddsTo(v, Edge(r, d))
    BY <1>4, <2>1
  <2>3. CASE table[Edge(r, x)] # None
    BY <1>1, <2>2, <2>3 DEF New, EdgesNew
  <2>4. CASE table[Edge(r, x)] = None
    <3>1. x = c
      BY <2>1, <2>4, CommitAdds
    <3>2. QED
      BY <1>1, <3>1, EndsFields DEF Wrote
  <2>5. QED
    BY <2>3, <2>4
<1>7. NodesNew(d, calls[d])'
  <2> SUFFICES ASSUME NEW n \in Nodes, AddsTo(v, n)', NEW m \in Nodes,
                      m # n, m.ext = n.ext, table'[m] # None,
                      table'[m].tenant = TenantOf[v.request.source]
               PROVE  \E x \in Applied \cup {c} : Wrote(x, m) /\ Overlapped(d, x)
    <3>1. \A x \in Applied \cup {c} : x \in Calls
      BY DEF Applied
    <3>2. QED
      BY <1>1, <1>2, <3>1 DEF NodesNew
  <2>1. m \in Rows /\ AddsTo(v, n)
    BY <1>4 DEF Rows
  <2>2. CASE table[m] # None
    <3>1. table[m].tenant = TenantOf[v.request.source]
      BY <1>3, <2>1, <2>2 DEF Same
    <3>2. QED
      BY <1>1, <2>1, <2>2, <3>1 DEF New, NodesNew
  <2>3. CASE table[m] = None
    <3>1. Wrote(c, m)
      BY <2>1, <2>3, CommitAdds DEF Wrote
    <3>2. QED
      BY <1>1, <3>1
  <2>4. QED
    BY <2>2, <2>3
<1>8. OneNode(calls[d])'
    BY <1>1 DEF New, OneNode
<1>9. QED
    BY <1>5, <1>6, <1>7, <1>8 DEF New

LEMMA RacesCommit ==
    ASSUME IInv, Ownership, Vouched, Races, NEW c \in Calls, Commit(c) PROVE Races'
<1>1. CASE Fail(c, "error")
    BY <1>1, RacesFail DEF Commit
<1>2. CASE ~Fail(c, "error")
  <2>1. /\ c \in Active /\ Active' = Active \ {c} /\ Applied' = Applied \cup {c}
        /\ Applied \cup {c} \subseteq Calls
    BY <1>2, CommitFields DEF Applied
  <2>2. \A x \in Calls : /\ \A k : Wrote(x, k)' <=> Wrote(x, k)
                         /\ \A y \in Calls : Overlapped(x, y)' <=> Overlapped(x, y)
    <3>1. \A x \in Calls : calls'[x].own = calls[x].own /\ calls'[x].met = calls[x].met
      BY <1>2, CommitFields
    <3>2. QED
      BY <3>1 DEF Wrote, Overlapped
  <2>3. EdgesAreBy'
    <3> SUFFICES ASSUME NEW e \in Edges, table'[e] # None
                 PROVE  e.by \in Applied \cup {c} /\ Wrote(e.by, e)
        BY <2>1, <2>2 DEF EdgesAreBy
    <3>1. e \in Rows
      BY DEF Rows
    <3>2. CASE table[e] # None
      BY <3>2 DEF Races, EdgesAreBy
    <3>3. CASE table[e] = None
      BY <1>2, <3>1, <3>3, CommitAdds DEF Wrote
    <3>4. QED
      BY <3>2, <3>3
  <2>4. ActiveMeet'
    <3>1. \A d \in Active : d \in Calls
      BY DEF Active
    <3>2. QED
      BY <2>1, <2>2, <3>1 DEF Races, ActiveMeet
  <2>5. OneRowUnlessRaced'
    <3>1. ASSUME NEW r \in Relationships, NEW a \in Calls, NEW b \in Calls,
                 table'[Edge(r, a)] # None, table'[Edge(r, b)] # None, a # b
          PROVE  /\ Overlapped(a, b)'
                 /\ \A n \in {Ends[r][1], Ends[r][2]} : ~(Wrote(a, n)' /\ Wrote(b, n)')
      BY <1>2, <2>2, <3>1, RacesCommitEdges DEF EndsOf
    <3>2. ASSUME NEW m \in {k \in Nodes : table'[k] # None},
                 NEW n \in {k \in Nodes : table'[k] # None},
                 m.ext = n.ext, m # n, table'[m].tenant = table'[n].tenant
          PROVE  \/ {m, n} \subseteq DOMAIN Existing
                 \/ \E a, b \in Applied' : Wrote(a, m)' /\ Wrote(b, n)' /\ Overlapped(a, b)'
      <4>1. \/ {m, n} \subseteq DOMAIN Existing
            \/ \E a, b \in Applied \cup {c} : Wrote(a, m) /\ Wrote(b, n) /\ Overlapped(a, b)
        BY <1>2, <3>2, RacesCommitNodes
      <4>2. QED
        BY <2>1, <2>2, <4>1
    <3>3. QED
      BY <3>1, <3>2 DEF OneRowUnlessRaced
  <2>6. \A d \in Active' : New(d, calls[d])'
    BY <1>2, <2>1, RacesCommitOthers
  <2>7. QED
    BY <2>3, <2>4, <2>5, <2>6 DEF Races
<1>3. QED
    BY <1>1, <1>2

LEMMA InitRaces == Init => Races
<1> SUFFICES ASSUME Init PROVE Races
    OBVIOUS
<1>1. Active = {}
    BY DEF Init, Active, Idle
<1>2. \A k \in Rows : table[k] # None => k \in Nodes /\ k \notin Edges /\ k \in DOMAIN Existing
    BY IngestionAssumption, NamesAssumption DEF Init
<1>3. \A e \in Edges : e \in Rows /\ table[e] = None
    BY <1>2 DEF Rows
<1>4. \A r \in Relationships : \A c \in Calls : Edge(r, c) \in Edges
    BY DEF Edge, Edges
<1>5. \A n \in Nodes : table[n] # None => n \in DOMAIN Existing
    BY <1>2 DEF Rows
<1>6. OneRowUnlessRaced
    BY <1>3, <1>4, <1>5 DEF OneRowUnlessRaced
<1>7. QED
    BY <1>1, <1>3, <1>6 DEF Races, EdgesAreBy, ActiveMeet

LEMMA NextRaces == IInv /\ Ownership /\ Vouched /\ Races /\ [Next]_vars => Races'
<1> SUFFICES ASSUME IInv, Ownership, Vouched, Races, [Next]_vars PROVE Races'
    OBVIOUS
<1>1. CASE UNCHANGED <<table, calls>>
    BY <1>1 DEF Races, EdgesAreBy, ActiveMeet, OneRowUnlessRaced, Active, Applied, Wrote,
                Overlapped, New, EdgesSigned, EdgesNew, NodesNew, OneNode, AddsTo
<1>2. ASSUME NEW c \in Calls, NEW r \in Requests, Receive(c, r) PROVE Races'
    BY <1>2, RacesReceive
<1>3. ASSUME NEW c \in Calls, Step(c) PROVE Races'
    BY <1>3, RacesLookForNode, RacesLookForEdge, RacesFlush, RacesLockChain, RacesCommit
       DEF Step
<1>4. ASSUME NEW c \in Calls, Abort(c) \/ Die(c) PROVE Races'
    BY <1>4, RacesFail DEF Abort, Die, Active
<1>5. QED
    BY <1>1, <1>2, <1>3, <1>4 DEF Next, vars, Disable, Tick

LEMMA AlwaysRaces == Spec => []Races
BY Inductive, AlwaysOwnership, AlwaysVouched, InitRaces, NextRaces, PTL DEF Spec

-----------------------------------------------------------------------------
(* The theorems *)

\* The rows, the receipts and the deliveries keep their types.
THEOREM TypeCorrect == Spec => []TypeOK
<1>1. IInv => TypeOK
    BY DEF IInv
<1>2. QED
    BY Inductive, <1>1, PTL

\* Under one idempotency key a batch is applied once, and repeated deliveries
\* are told what that one did, however many overlap (models.py:248).
THEOREM AppliedOnceHolds == Spec => []AppliedOnce
<1>1. IInv => AppliedOnce
  <2>1. SUFFICES ASSUME IInv, NEW c \in Applied, NEW d \in Calls, SameKey(c, d)
                 PROVE  /\ d \in Applied => c = d
                        /\ calls[d].answer = "replayed" => calls[d].told = c
    BY DEF AppliedOnce
  <2>2. c \in Calls /\ receipts[Req(c).source][Req(c).key] = c
    BY <2>1 DEF IInv, ReceiptsTell, Applied, SameKey
  <2>3. receipts[Req(d).source][Req(d).key] = c
    BY <2>1, <2>2 DEF SameKey
  <2>4. QED
    BY <2>1, <2>3 DEF IInv, ReceiptsTell, Applied, SameKey
<1>2. QED
    BY Inductive, <1>1, PTL

\* Whatever the settings, no token becomes a principal but through a node of its
\* tenant, which an enabled source that is of this tenant too, and of the
\* configured directory where there is one, has named, and that source was heard
\* of lately; seeded users answer to dev sessions only (identity_providers.py:236).
THEOREM PrincipalsHold == Spec => []PrincipalsAreVouchedFor
<1>1. IInv /\ Vouched => PrincipalsAreVouchedFor
  <2>1. SUFFICES ASSUME IInv, Vouched, NEW set \in Settings, NEW token \in Tokens,
                        NEW n, n = MapPrincipal(token, set), n # None
                 PROVE  /\ table[n].tenant = Tenant(token, set)
                        /\ table[n].source = None => token.issuer = "dev"
                        /\ table[n].source # None =>
                             /\ sources[table[n].source].enabled
                             /\ TenantOf[table[n].source] = Tenant(token, set)
                             /\ n \in DOMAIN Existing \/ \E c \in Applied : Wrote(c, n)
                             /\ \E t \in ObservedBy(table[n].source) : clock - t \in 0 .. MaxAge
                        /\ Bound(token, set) =>
                             /\ token.issuer = "configured"
                             /\ table[n].source = set.directory
    BY DEF PrincipalsAreVouchedFor
  <2> DEFINE C == Candidates(token, set)
             m == CHOOSE x \in C : TRUE
             s == table[m].source
  <2>2. Cardinality(C) = 1 /\ Wanted(token, set) # None
    BY <2>1 DEF MapPrincipal
  <2>3. m \in C
    BY <2>2, FS_EmptySet
  <2>4. /\ n = m
        /\ s = None => token.issuer = "dev"
        /\ s # None => Vouches(s, Tenant(token, set))
    BY <2>1, <2>2 DEF MapPrincipal
  <2> HIDE DEF m
  <2>5. /\ m \in Nodes /\ table[m] # None /\ table[m].tenant = Tenant(token, set)
        /\ Bound(token, set) => table[m].source = set.directory
    BY <2>3 DEF Candidates
  <2>6. table[m] \in Row
    BY <2>1, <2>5 DEF IInv, TypeOK, Rows
  <2>7. s \in Sources \cup {None}
    BY <2>6 DEF Row
  <2>8. s # None => /\ sources[s].enabled /\ TenantOf[s] = Tenant(token, set)
                    /\ clock - sources[s].last \in 0 .. MaxAge
                    /\ sources[s].last \in ObservedBy(s)
    BY <2>1, <2>4, <2>7 DEF Vouches, Vouched
  <2>9. n \in DOMAIN Existing \/ \E c \in Applied : Wrote(c, n)
    BY <2>1, <2>4, <2>5 DEF Vouched
  <2>10. Bound(token, set) => token.issuer = "configured"
    BY <2>2 DEF Wanted
  <2>11. QED
    BY <2>4, <2>5, <2>8, <2>9, <2>10
<1>2. QED
    BY Inductive, AlwaysVouched, <1>1, PTL

\* A source has the nodes it asserts edges of, and what other components have
\* written stays theirs, whatever batches interleave (ingestion.py:145).
THEOREM SourcesHold == Spec => []SourcesKeepToTheirOwn
<1>1. Ownership => SourcesKeepToTheirOwn
  <2> SUFFICES ASSUME Ownership PROVE SourcesKeepToTheirOwn
      OBVIOUS
  <2>1. ASSUME NEW r \in Relationships, NEW c \in Calls, table[Edge(r, c)] # None,
               NEW n \in {Ends[r][1], Ends[r][2]}
        PROVE  table[n] # None /\ table[n].source = table[Edge(r, c)].source
    <3>1. Edge(r, c) \in Edges /\ Edge(r, c).relation = r
      BY DEF Edge, Edges
    <3>2. QED
      BY <2>1, <3>1 DEF Ownership, TableFits, EndsOf
  <2>2. \A n \in DOMAIN Existing : table[n].source = Existing[n].source
    BY DEF Ownership, TableFits, Same
  <2>3. QED
    BY <2>1, <2>2 DEF SourcesKeepToTheirOwn
<1>2. QED
    BY AlwaysOwnership, <1>1, PTL

\* A relationship has one row, and an external id one node of its tenant, but for
\* what deliveries that overlapped brought without seeing each other
\* (ingestion.py:126, 190).
THEOREM OneRowHolds == Spec => []OneRowUnlessRaced
<1>1. Races => OneRowUnlessRaced
    BY DEF Races
<1>2. QED
    BY AlwaysRaces, <1>1, PTL
=============================================================================
