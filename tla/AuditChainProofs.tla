--------------------------- MODULE AuditChainProofs ---------------------------
(***************************************************************************)
(* Proofs about AuditChain, for any writers, processes, anchorers and      *)
(* verifiers, both databases, and one edit at any time.                    *)
(***************************************************************************)
EXTENDS AuditChain, TLAPS

-----------------------------------------------------------------------------
(* Sets of rows *)

Prefix(a, b) == Len(a) <= Len(b) /\ \A n \in 1 .. Len(a) : a[n] = b[n]
HasZero(hash) == \E n \in 1 .. Len(hash) : hash[n] = 0

\* The rows have numbers of their own, and one of them is the last.
Numbered(R) ==
    /\ R \subseteq Record
    /\ \A r \in R : \A q \in R : r.seq = q.seq => r = q
    /\ R = {} \/ \E r \in R : IsLast(r, R)

\* A hash is longer by one than what it continues, and longer the later.
Ordered(R) ==
    /\ \A r \in R : Len(r.hash) = Len(r.prev_hash) + 1
    /\ \A r \in R : \A q \in R : r.seq <= q.seq => Len(r.hash) <= Len(q.hash)

Precedes(p, q, R) == p \in R /\ p.seq < q.seq /\ \A x \in R : x.seq < q.seq => x.seq <= p.seq
Follows(q, p, R) == Precedes(p, q, R) /\ q.prev_hash = p.hash
First(q, R) == q.prev_hash = GENESIS /\ \A x \in R : q.seq <= x.seq

\* One chain: each row continues the one before it, and covers all before it.
Linked(R) ==
    /\ \A q \in R : First(q, R) \/ \E p \in R : Follows(q, p, R)
    /\ R = {} \/ \E q \in R : q.prev_hash = GENESIS
    /\ \A p \in R : IsLast(p, R) \/ \E q \in R : Follows(q, p, R)
    /\ \A r \in R : \A q \in R : r.seq <= q.seq => Prefix(r.hash, q.hash)

Genuine(R) ==
    \A r \in R : /\ r.content # 0 /\ ~HasZero(r.hash)
                 /\ r.hash = RecordHash(r.content, r.prev_hash)

\* A row that was edited shows in the hash of every later one, unless a later
\* one does not continue its predecessor.
Broken(R) == \E q \in R : \E p \in R : Precedes(p, q, R) /\ q.prev_hash # p.hash
ZeroShows(R) ==
    \A r \in R : r.content = 0 =>
        Broken(R) \/ \A q \in R : r.seq <= q.seq => HasZero(q.hash)

LEMMA RecordFields ==
    \A r \in Record : /\ r.seq \in Nat /\ r.seq >= 1 /\ r.content \in Contents
                      /\ r.prev_hash \in Seq(Contents) /\ r.hash \in Seq(Contents)
BY AuditAssumption DEF Record, Numbers

\* HeadHash is the hash of the last row.
LEMMA HeadIs ==
    ASSUME NEW R, Numbered(R), NEW r \in R, IsLast(r, R)
    PROVE  HeadHash(R) = r.hash
<1> DEFINE c == CHOOSE x \in R : IsLast(x, R)
<1>1. c \in R /\ IsLast(c, R)
    OBVIOUS
<1>2. c.seq <= r.seq /\ r.seq <= c.seq /\ c.seq \in Nat /\ r.seq \in Nat
    BY <1>1, RecordFields DEF IsLast, Numbered
<1>3. c = r
    BY <1>1, <1>2 DEF Numbered
<1>4. QED
    BY <1>3 DEF HeadHash

LEMMA HeadType ==
    ASSUME NEW R, Numbered(R)
    PROVE  /\ HeadHash(R) \in Seq(Contents)
           /\ HeadHash(R) = GENESIS \/ \E r \in R : r.hash = HeadHash(R)
<1>1. CASE R = {}
    BY <1>1 DEF HeadHash, GENESIS
<1>2. CASE R # {}
  <2>1. PICK r \in R : IsLast(r, R)
    BY <1>2 DEF Numbered
  <2>2. HeadHash(R) = r.hash
    BY <2>1, HeadIs
  <2>3. QED
    BY <2>1, <2>2, RecordFields DEF Numbered
<1>3. QED
    BY <1>1, <1>2

\* A link in the sense of verify_chain.
LEMMA PredecessorIsHead ==
    ASSUME NEW R, Numbered(R), NEW q \in R, NEW p \in R, Precedes(p, q, R)
    PROVE  HeadHash({x \in R : x.seq < q.seq}) = p.hash
<1> DEFINE B == {x \in R : x.seq < q.seq}
<1>1. p \in B /\ IsLast(p, B)
    BY DEF Precedes, IsLast
<1>2. Numbered(B)
    BY <1>1 DEF Numbered
<1>3. QED
    BY <1>1, <1>2, HeadIs

LEMMA LinkedVerifies ==
    ASSUME NEW R, Numbered(R), Linked(R), Genuine(R)
    PROVE  Verifies(R)
<1>1. SUFFICES ASSUME NEW q \in R
               PROVE  q.prev_hash = HeadHash({x \in R : x.seq < q.seq})
    BY DEF Verifies, Genuine
<1>2. CASE First(q, R)
  <2>1. {x \in R : x.seq < q.seq} = {}
    BY <1>2, RecordFields DEF First, Numbered
  <2>2. QED
    BY <1>2, <2>1 DEF First, HeadHash
<1>3. ASSUME NEW p \in R, Follows(q, p, R)
      PROVE  q.prev_hash = HeadHash({x \in R : x.seq < q.seq})
    BY <1>3, PredecessorIsHead DEF Follows
<1>4. QED
    BY <1>2, <1>3 DEF Linked

LEMMA BrokenFails == ASSUME NEW R, Numbered(R), Broken(R) PROVE ~Verifies(R)
<1>1. PICK q \in R, p \in R : Precedes(p, q, R) /\ q.prev_hash # p.hash
    BY DEF Broken
<1>2. HeadHash({x \in R : x.seq < q.seq}) = p.hash
    BY <1>1, PredecessorIsHead
<1>3. QED
    BY <1>1, <1>2 DEF Verifies

-----------------------------------------------------------------------------
(* A row on top of the others *)

Above(n, R) == \A r \in R : r.seq < n.seq

LEMMA TopNumbered ==
    ASSUME NEW R, Numbered(R), NEW n \in Record, Above(n, R)
    PROVE  Numbered(R \cup {n}) /\ IsLast(n, R \cup {n})
<1>1. \A r \in R : r.seq \in Nat /\ n.seq \in Nat /\ r.seq < n.seq
    BY RecordFields DEF Numbered, Above
<1>2. n.seq <= n.seq
    BY RecordFields
<1>3. IsLast(n, R \cup {n})
    BY <1>1, <1>2 DEF IsLast
<1>4. \A r \in R \cup {n} : \A q \in R \cup {n} : r.seq = q.seq => r = q
    BY <1>1 DEF Numbered
<1>5. QED
    BY <1>3, <1>4 DEF Numbered

\* What it puts above does not come between others.
LEMMA TopPrecedes ==
    ASSUME NEW R, Numbered(R), NEW n \in Record, Above(n, R), NEW p, NEW q \in R,
           Precedes(p, q, R)
    PROVE  Precedes(p, q, R \cup {n})
<1>1. ~(n.seq < q.seq)
    BY RecordFields DEF Above, Numbered
<1>2. QED
    BY <1>1 DEF Precedes

LEMMA TopOrdered ==
    ASSUME NEW R, Numbered(R), Ordered(R), NEW n \in Record, Above(n, R),
           Len(n.hash) = Len(n.prev_hash) + 1,
           \A r \in R : Len(r.hash) <= Len(n.prev_hash)
    PROVE  Ordered(R \cup {n})
<1>1. \A r \in R : r.seq \in Nat /\ n.seq \in Nat /\ ~(n.seq <= r.seq)
    BY RecordFields DEF Numbered, Above
<1>2. \A r \in R \cup {n} : Len(r.hash) \in Nat /\ Len(r.prev_hash) \in Nat
    BY RecordFields DEF Numbered
<1>3. \A r \in R : Len(r.hash) <= Len(n.hash)
    BY <1>2
<1>4. QED
    BY <1>1, <1>2, <1>3 DEF Ordered

LEMMA TopLinked ==
    ASSUME NEW R, Numbered(R), Linked(R), NEW n \in Record, Above(n, R),
           Prefix(n.prev_hash, n.hash),
           \/ R = {} /\ n.prev_hash = GENESIS
           \/ \E p \in R : IsLast(p, R) /\ n.prev_hash = p.hash
    PROVE  Linked(R \cup {n})
<1>1. \A r \in R : r.seq \in Nat /\ n.seq \in Nat /\ r.seq < n.seq
    BY RecordFields DEF Numbered, Above
<1>2. \A p \in R : IsLast(p, R) /\ n.prev_hash = p.hash => Follows(n, p, R \cup {n})
    BY <1>1 DEF IsLast, Follows, Precedes
<1>3. \A p, q \in R : Follows(q, p, R) => Follows(q, p, R \cup {n})
    BY TopPrecedes DEF Follows
<1>4. \A q \in R : First(q, R) => First(q, R \cup {n})
    BY <1>1 DEF First
<1>5. R = {} => n.seq <= n.seq
    BY RecordFields
<1>6. R = {} /\ n.prev_hash = GENESIS => First(n, R \cup {n})
    BY <1>5 DEF First
<1>7. IsLast(n, R \cup {n})
    BY TopNumbered
<1>8. \A r \in R : Prefix(r.hash, n.hash)
  <2>1. SUFFICES ASSUME NEW r \in R PROVE Prefix(r.hash, n.hash)
    OBVIOUS
  <2>2. PICK p \in R : IsLast(p, R) /\ n.prev_hash = p.hash
    OBVIOUS
  <2>3. Prefix(r.hash, p.hash)
    BY <2>2 DEF Linked, IsLast
  <2>4. Len(r.hash) \in Nat /\ Len(p.hash) \in Nat /\ Len(n.hash) \in Nat
    BY RecordFields DEF Numbered
  <2>5. QED
    BY <2>2, <2>3, <2>4 DEF Prefix
<1>9. Prefix(n.hash, n.hash)
    BY RecordFields DEF Prefix
<1>10. \A q \in R \cup {n} : First(q, R \cup {n}) \/ \E p \in R \cup {n} : Follows(q, p, R \cup {n})
    BY <1>2, <1>3, <1>4, <1>6 DEF Linked
<1>11. \E q \in R \cup {n} : q.prev_hash = GENESIS
    BY DEF Linked
<1>12. \A p \in R \cup {n} : IsLast(p, R \cup {n}) \/ \E q \in R \cup {n} : Follows(q, p, R \cup {n})
  <2>1. SUFFICES ASSUME NEW p \in R PROVE \E q \in R \cup {n} : Follows(q, p, R \cup {n})
    BY <1>7
  <2>2. CASE IsLast(p, R)
    <3>1. PICK x \in R : IsLast(x, R) /\ n.prev_hash = x.hash
      OBVIOUS
    <3>2. x.seq = p.seq
      BY <2>2, <3>1, <1>1 DEF IsLast
    <3>3. x = p
      BY <3>2 DEF Numbered
    <3>4. QED
      BY <3>1, <3>3, <1>2
  <2>3. CASE \E q \in R : Follows(q, p, R)
    BY <2>3, <1>3
  <2>4. QED
    BY <2>2, <2>3 DEF Linked
<1>13. \A r \in R \cup {n} : \A q \in R \cup {n} : r.seq <= q.seq => Prefix(r.hash, q.hash)
  <2>1. \A r \in R : ~(n.seq <= r.seq)
    BY <1>1
  <2>2. QED
    BY <2>1, <1>8, <1>9 DEF Linked
<1>14. QED
    BY <1>10, <1>11, <1>12, <1>13 DEF Linked

LEMMA TopZeroShows ==
    ASSUME NEW R, Numbered(R), ZeroShows(R), NEW n \in Record, Above(n, R),
           n.content # 0, HasZero(n.prev_hash) => HasZero(n.hash)
    PROVE  ZeroShows(R \cup {n})
<1>1. SUFFICES ASSUME NEW r \in R, r.content = 0, ~Broken(R \cup {n})
               PROVE  \A q \in R \cup {n} : r.seq <= q.seq => HasZero(q.hash)
    BY DEF ZeroShows
<1>2. ~Broken(R)
  <2>1. \A q \in R : \A p \in R : Precedes(p, q, R) => Precedes(p, q, R \cup {n})
    BY TopPrecedes
  <2>2. QED
    BY <2>1, <1>1 DEF Broken
<1>3. \A q \in R : r.seq <= q.seq => HasZero(q.hash)
    BY <1>1, <1>2 DEF ZeroShows
<1>4. PICK p \in R : IsLast(p, R)
    BY DEF Numbered
<1>5. HasZero(p.hash)
    BY <1>3, <1>4 DEF IsLast
<1>6. Precedes(p, n, R \cup {n})
  <2>1. ~(n.seq < n.seq) /\ p.seq < n.seq
    BY RecordFields DEF Numbered, Above
  <2>2. QED
    BY <1>4, <2>1 DEF IsLast, Precedes
<1>7. n.prev_hash = p.hash
    BY <1>1, <1>6 DEF Broken
<1>8. QED
    BY <1>3, <1>5, <1>7

-----------------------------------------------------------------------------
(* Rows that are changed in place: f[r] is what becomes of r *)

LEMMA ChangedNumbered ==
    ASSUME NEW R, Numbered(R), NEW f, NEW S, S = {f[r] : r \in R},
           \A r \in R : f[r] \in Record /\ f[r].seq = r.seq
    PROVE  Numbered(S)
<1>1. \A x \in S : \E r \in R : x = f[r]
    OBVIOUS
<1>2. \A r \in R : f[r] \in S
    OBVIOUS
<1>3. \A r \in R : IsLast(r, R) => IsLast(f[r], S)
    BY <1>1, <1>2 DEF IsLast
<1>4. \A x \in S : \A y \in S : x.seq = y.seq => x = y
    BY <1>1 DEF Numbered
<1>5. S = {} \/ \E x \in S : IsLast(x, S)
    BY <1>1, <1>2, <1>3 DEF Numbered
<1>6. S \subseteq Record
    BY <1>1
<1>7. QED
    BY <1>4, <1>5, <1>6 DEF Numbered

LEMMA ChangedOrdered ==
    ASSUME NEW R, Ordered(R), NEW f, NEW S, S = {f[r] : r \in R},
           \A r \in R : /\ f[r].seq = r.seq /\ Len(f[r].hash) = Len(r.hash)
                       /\ Len(f[r].prev_hash) = Len(r.prev_hash)
    PROVE  Ordered(S)
<1>1. \A x \in S : \E r \in R : x = f[r]
    OBVIOUS
<1>2. QED
    BY <1>1 DEF Ordered

LEMMA ChangedPrecedes ==
    ASSUME NEW R, NEW f, NEW S, S = {f[r] : r \in R},
           \A r \in R : f[r].seq = r.seq,
           NEW p \in R, NEW q \in R, Precedes(p, q, R)
    PROVE  Precedes(f[p], f[q], S)
<1>1. \A x \in S : \E r \in R : x = f[r]
    OBVIOUS
<1>2. QED
    BY <1>1 DEF Precedes

LEMMA ChangedLinked ==
    ASSUME NEW R, Linked(R), NEW f, NEW S, S = {f[r] : r \in R},
           \A r \in R : /\ f[r].seq = r.seq /\ f[r].hash = r.hash
                       /\ f[r].prev_hash = r.prev_hash
    PROVE  Linked(S)
<1>1. \A x \in S : \E r \in R : x = f[r]
    OBVIOUS
<1>2. \A r \in R : f[r] \in S
    OBVIOUS
<1>3. \A q, p \in R : Follows(q, p, R) => Follows(f[q], f[p], S)
    BY ChangedPrecedes DEF Follows
<1>4. \A q \in R : First(q, R) => First(f[q], S)
    BY <1>1 DEF First
<1>5. \A p \in R : IsLast(p, R) => IsLast(f[p], S)
    BY <1>1, <1>2 DEF IsLast
<1>6. \A x \in S : First(x, S) \/ \E p \in S : Follows(x, p, S)
  <2>1. SUFFICES ASSUME NEW q \in R PROVE First(f[q], S) \/ \E p \in S : Follows(f[q], p, S)
    BY <1>1
  <2>2. QED
    BY <1>2, <1>3, <1>4 DEF Linked
<1>7. S = {} \/ \E x \in S : x.prev_hash = GENESIS
    BY <1>1, <1>2 DEF Linked
<1>8. \A x \in S : IsLast(x, S) \/ \E y \in S : Follows(y, x, S)
  <2>1. SUFFICES ASSUME NEW p \in R PROVE IsLast(f[p], S) \/ \E y \in S : Follows(y, f[p], S)
    BY <1>1
  <2>2. QED
    BY <1>2, <1>3, <1>5 DEF Linked
<1>9. \A x \in S : \A y \in S : x.seq <= y.seq => Prefix(x.hash, y.hash)
    BY <1>1 DEF Linked
<1>10. QED
    BY <1>6, <1>7, <1>8, <1>9 DEF Linked

-----------------------------------------------------------------------------
(* The inductive invariant *)

\* What a transaction can see: the committed rows, and its own.
Visible == {records} \cup {records \cup tx[w].mine : w \in Writers}

\* At a time one transaction has rows of its own, and on PostgreSQL one is open.
OneWrites ==
    /\ \A w \in Writers : tx[w].at = "idle" => tx[w].mine = {}
    /\ \A w, x \in Writers : tx[w].mine # {} /\ tx[x].mine # {} => w = x
    /\ dialect = "postgresql" =>
          \A w, x \in Writers : tx[w].at # "idle" /\ tx[x].at # "idle" => w = x

\* Rows are committed in the order of their numbers.
NumbersRise ==
    /\ \A R \in Visible : Numbered(R) /\ \A r \in R : r.seq <= drawn
    /\ \A w \in Writers : \A m \in tx[w].mine : \A r \in records : r.seq < m.seq

LengthsRise ==
    edited # "chain" \/ dialect = "postgresql" => \A R \in Visible : Ordered(R)

IsChain == edited # "chain" => \A R \in Visible : Linked(R)

\* What a writer has read was the hash of some row, and with the lock of the last.
HeadsAreRead ==
    /\ edited # "chain" =>
          \A w \in Writers : tx[w].at = "head" =>
              tx[w].prev = GENESIS \/ \E r \in records \cup tx[w].mine : r.hash = tx[w].prev
    /\ dialect = "postgresql" =>
          \A w \in Writers : tx[w].at = "head" =>
              \A r \in records \cup tx[w].mine : Len(r.hash) <= Len(tx[w].prev)

\* What the hashes say of the contents.
ContentsTell ==
    /\ edited = "nothing" =>
          /\ \A R \in Visible : Genuine(R)
          /\ \A v \in Verifiers : \A r \in check[v].rows : r.content # 0
    /\ edited = "row" => \E r \in records : r.hash # RecordHash(r.content, r.prev_hash)
    /\ edited = "chain" =>
          /\ \A R \in Visible : ZeroShows(R)
          /\ \A v \in Verifiers : ZeroShows(check[v].rows)

\* Every anchor, written or about to be, is of a committed row.
AnchorsKept ==
    edited # "chain" =>
        /\ \A i \in DOMAIN file : Matches(records, file[i])
        /\ \A k \in Anchorers : anchor[k].seq # 0 => Matches(records, anchor[k])

\* The rows a verifier has read were all there were, but for later ones.
SnapshotsKept ==
    \A v \in Verifiers :
        /\ Numbered(check[v].rows)
        /\ \A q \in check[v].rows : \E r \in records : r.seq = q.seq
        /\ check[v].at = "rows" /\ edited # "chain" =>
              \A r \in records :
                  \/ \E q \in check[v].rows : q.seq = r.seq /\ q.hash = r.hash
                  \/ \A q \in check[v].rows : q.seq < r.seq

IInv ==
    /\ TypeOK
    /\ OneWrites
    /\ NumbersRise
    /\ LengthsRise
    /\ IsChain
    /\ HeadsAreRead
    /\ ContentsTell
    /\ AnchorsKept
    /\ SnapshotsKept

LEMMA InitIInv == Init => IInv
<1> SUFFICES ASSUME Init PROVE IInv
    OBVIOUS
<1>1. GENESIS \in Seq(Contents) /\ NoWriter \in Writer
    BY DEF GENESIS, NoWriter, Writer
<1>2. TypeOK
  <2>1. 0 \in Contents
    BY AuditAssumption DEF Contents
  <2>2. file \in Seq(AnchorEntry)
    BY DEF Init
  <2>3. anchor \in [Anchorers -> AnchorEntry \cup {NoAnchor}] /\ check \in [Verifiers -> Check]
    BY DEF Init, Check
  <2>4. QED
    BY <1>1, <2>1, <2>2, <2>3 DEF Init, TypeOK
<1>3. /\ records = {} /\ edited = "nothing" /\ DOMAIN file = {}
      /\ \A w \in Writers : tx[w].at = "idle" /\ tx[w].mine = {}
      /\ \A k \in Anchorers : anchor[k].seq = 0
      /\ \A v \in Verifiers : check[v].rows = {} /\ check[v].at = "idle"
    BY DEF Init, NoWriter, NoAnchor
<1>4. \A R \in Visible : R = {}
    BY <1>3 DEF Visible
<1>5. Numbered({}) /\ Ordered({}) /\ Linked({}) /\ Genuine({})
    BY DEF Numbered, Ordered, Linked, Genuine
<1>6. OneWrites /\ NumbersRise /\ LengthsRise /\ IsChain /\ HeadsAreRead
    BY <1>3, <1>4, <1>5 DEF OneWrites, NumbersRise, LengthsRise, IsChain, HeadsAreRead
<1>7. ContentsTell /\ AnchorsKept /\ SnapshotsKept
    BY <1>3, <1>4, <1>5 DEF ContentsTell, AnchorsKept, SnapshotsKept
<1>8. QED
    BY <1>2, <1>6, <1>7 DEF IInv

\* The parts that speak of visible sets of rows, when no new one has come up.
LEMMA NothingNew ==
    ASSUME IInv, Visible' \subseteq Visible, UNCHANGED <<dialect, drawn, edited, check>>,
           edited = "row" => records \subseteq records'
    PROVE  /\ \A R \in Visible' : Numbered(R) /\ \A r \in R : r.seq <= drawn'
           /\ LengthsRise' /\ IsChain' /\ ContentsTell'
<1>1. \A R \in Visible' : Numbered(R) /\ \A r \in R : r.seq <= drawn'
    BY DEF IInv, NumbersRise
<1>2. LengthsRise' /\ IsChain'
    BY DEF IInv, LengthsRise, IsChain
<1>3. ContentsTell'
    BY DEF IInv, ContentsTell
<1>4. QED
    BY <1>1, <1>2, <1>3

\* A step that leaves the rows alone.
LEMMA ChainStep ==
    ASSUME IInv, UNCHANGED <<dialect, chain>>
    PROVE  OneWrites' /\ NumbersRise' /\ LengthsRise' /\ IsChain' /\ HeadsAreRead'
<1>1. records' = records /\ drawn' = drawn /\ edited' = edited /\ tx' = tx /\ dialect' = dialect
    BY DEF chain
<1>2. Visible' = Visible
    BY <1>1 DEF Visible
<1>3. QED
    BY <1>1, <1>2 DEF IInv, OneWrites, NumbersRise, LengthsRise, IsChain, HeadsAreRead

\* A step of a writer leaves the anchors and the verifiers alone.
LEMMA SameAnchors ==
    ASSUME IInv, records' = records, edited' = edited, UNCHANGED anchors
    PROVE  AnchorsKept' /\ SnapshotsKept'
BY DEF IInv, AnchorsKept, SnapshotsKept, anchors, Matches

-----------------------------------------------------------------------------
(* The writers *)

\* What the invariant says of a writer's rows, in one place.
LEMMA WriterRows ==
    ASSUME IInv, NEW w \in Writers
    PROVE  /\ tx \in [Writers -> Writer] /\ tx[w] \in Writer
           /\ records \in Visible /\ records \cup tx[w].mine \in Visible
           /\ Numbered(records) /\ Numbered(records \cup tx[w].mine)
           /\ tx[w].prev \in Seq(Contents) /\ tx[w].mine \subseteq Record
           /\ drawn \in Contents /\ records \subseteq Record
BY DEF IInv, TypeOK, NumbersRise, Visible, Writer

LEMMA TakeLockStep ==
    ASSUME NEW w \in Writers, IInv, TakeLock(w), dialect' = dialect
    PROVE  IInv'
<1>1. /\ tx \in [Writers -> Writer] /\ tx[w] \in Writer /\ tx[w].at = "idle"
      /\ tx' = [tx EXCEPT ![w] = [tx[w] EXCEPT !.at = "open"]]
    BY WriterRows DEF TakeLock
<1>2. records' = records /\ drawn' = drawn /\ edited' = edited /\ UNCHANGED anchors
    BY DEF TakeLock
<1>3. /\ \A x \in Writers : tx'[x].mine = tx[x].mine /\ tx'[x].prev = tx[x].prev
      /\ \A x \in Writers : x # w => tx'[x] = tx[x]
      /\ tx'[w].at = "open"
    BY <1>1 DEF Writer
<1>4. TypeOK'
  <2>1. tx' \in [Writers -> Writer]
    BY <1>1 DEF Writer
  <2>2. QED
    BY <1>2, <2>1 DEF IInv, TypeOK, anchors
<1>5. Visible' = Visible
    BY <1>2, <1>3 DEF Visible
<1>6. OneWrites'
    BY <1>1, <1>3 DEF IInv, OneWrites, TakeLock, Locked
<1>7. NumbersRise' /\ LengthsRise' /\ IsChain' /\ ContentsTell'
    BY <1>2, <1>3, <1>5, NothingNew DEF IInv, NumbersRise, anchors
<1>8. HeadsAreRead'
    BY <1>2, <1>3 DEF IInv, HeadsAreRead
<1>9. QED
    BY <1>2, <1>4, <1>6, <1>7, <1>8, SameAnchors DEF IInv

LEMMA ReadHeadStep ==
    ASSUME NEW w \in Writers, IInv, ReadHead(w), dialect' = dialect
    PROVE  IInv'
<1> DEFINE R == records \cup tx[w].mine
<1>1. /\ tx \in [Writers -> Writer] /\ tx[w] \in Writer /\ tx[w].at = "open"
      /\ tx' = [tx EXCEPT ![w] = [tx[w] EXCEPT !.at = "head", !.prev = HeadHash(R)]]
    BY WriterRows DEF ReadHead
<1>2. records' = records /\ drawn' = drawn /\ edited' = edited /\ UNCHANGED anchors
    BY DEF ReadHead
<1>3. HeadHash(R) \in Seq(Contents) /\ (HeadHash(R) = GENESIS \/ \E r \in R : r.hash = HeadHash(R))
    BY WriterRows, HeadType
<1>4. /\ \A x \in Writers : tx'[x].mine = tx[x].mine
      /\ \A x \in Writers : x # w => tx'[x] = tx[x]
      /\ tx'[w].at = "head" /\ tx'[w].prev = HeadHash(R)
    BY <1>1 DEF Writer
<1>5. TypeOK'
  <2>1. tx' \in [Writers -> Writer]
    BY <1>1, <1>3 DEF Writer
  <2>2. QED
    BY <1>2, <2>1 DEF IInv, TypeOK, anchors
<1>6. Visible' = Visible
    BY <1>2, <1>4 DEF Visible
<1>7. OneWrites'
    BY <1>1, <1>4 DEF IInv, OneWrites
<1>8. NumbersRise' /\ LengthsRise' /\ IsChain' /\ ContentsTell'
    BY <1>2, <1>4, <1>6, NothingNew DEF IInv, NumbersRise, anchors
<1>9. HeadsAreRead'
  <2>1. ASSUME dialect = "postgresql", NEW r \in R
        PROVE  Len(r.hash) <= Len(HeadHash(R))
    <3>1. PICK p \in R : IsLast(p, R)
      BY WriterRows DEF Numbered
    <3>2. HeadHash(R) = p.hash
      BY <3>1, WriterRows, HeadIs
    <3>3. Ordered(R)
      BY <2>1, WriterRows DEF IInv, LengthsRise
    <3>4. QED
      BY <3>1, <3>2, <3>3 DEF Ordered, IsLast
  <2>2. QED
    BY <2>1, <1>2, <1>3, <1>4 DEF IInv, HeadsAreRead
<1>10. QED
    BY <1>2, <1>5, <1>7, <1>8, <1>9, SameAnchors DEF IInv

\* The predecessor that nobody has taken is the last row.
LEMMA UntakenIsLast ==
    ASSUME NEW w \in Writers, IInv, edited # "chain", tx[w].at = "head", ~Taken(w)
    PROVE  LET R == records \cup tx[w].mine
           IN  \/ R = {} /\ tx[w].prev = GENESIS
               \/ \E p \in R : IsLast(p, R) /\ tx[w].prev = p.hash
<1> DEFINE R == records \cup tx[w].mine
<1>1. Linked(R) /\ \A q \in R : q.prev_hash # tx[w].prev
    BY WriterRows DEF IInv, IsChain, Taken
<1>2. tx[w].prev = GENESIS \/ \E r \in R : r.hash = tx[w].prev
    BY DEF IInv, HeadsAreRead
<1>3. CASE tx[w].prev = GENESIS
    BY <1>1, <1>3 DEF Linked
<1>4. ASSUME NEW r \in R, r.hash = tx[w].prev
      PROVE  IsLast(r, R)
    BY <1>1, <1>4 DEF Linked, Follows
<1>5. QED
    BY <1>2, <1>3, <1>4

LEMMA InsertStep ==
    ASSUME NEW w \in Writers, IInv, Insert(w), dialect' = dialect
    PROVE  IInv'
<1> DEFINE R == records \cup tx[w].mine
           prev == tx[w].prev
           n == [seq |-> drawn + 1, content |-> drawn + 1, prev_hash |-> prev,
                 hash |-> Append(prev, drawn + 1)]
<1>1. /\ tx \in [Writers -> Writer] /\ tx[w] \in Writer /\ tx[w].at = "head"
      /\ drawn \in Nat /\ drawn < MaxRecords /\ drawn' = drawn + 1
      /\ prev \in Seq(Contents) /\ Numbered(R) /\ R \in Visible /\ R \subseteq Record
      /\ ~Taken(w) /\ ~Written(w)
  <2>1. drawn \in Nat
    <3>1. drawn \in Contents
      BY WriterRows
    <3>2. QED
      BY <3>1, AuditAssumption DEF Contents
  <2>2. /\ tx \in [Writers -> Writer] /\ tx[w] \in Writer /\ prev \in Seq(Contents)
        /\ Numbered(R) /\ R \in Visible
    BY WriterRows
  <2>3. R \subseteq Record
    BY <2>2 DEF Numbered
  <2>4. /\ tx[w].at = "head" /\ drawn < MaxRecords /\ drawn' = drawn + 1
        /\ ~Taken(w) /\ ~Written(w)
    BY DEF Insert
  <2>5. QED
    BY <2>1, <2>2, <2>3, <2>4
<1>2. tx' = [tx EXCEPT ![w] = [tx[w] EXCEPT !.at = "open", !.mine = tx[w].mine \cup {n}]]
    BY <1>1 DEF Insert, RecordHash
<1>3. records' = records /\ edited' = edited /\ UNCHANGED anchors
    BY DEF Insert
<1>4. drawn + 1 \in Numbers /\ drawn + 1 \in Contents
    BY <1>1, AuditAssumption DEF Numbers, Contents
<1>5. /\ Append(prev, drawn + 1) \in Seq(Contents)
      /\ Len(Append(prev, drawn + 1)) = Len(prev) + 1 /\ Len(prev) \in Nat
      /\ \A i \in 1 .. Len(prev) : Append(prev, drawn + 1)[i] = prev[i]
      /\ Append(prev, drawn + 1)[Len(prev) + 1] = drawn + 1
    BY <1>1, <1>4
<1>6. /\ n \in Record /\ n.seq = drawn + 1 /\ n.content = drawn + 1
      /\ n.prev_hash = prev /\ n.hash = Append(prev, drawn + 1)
    BY <1>1, <1>4, <1>5 DEF Record
<1> HIDE DEF n
<1>7. /\ \A x \in Writers : x # w => tx'[x] = tx[x] /\ tx[x].mine = {}
      /\ tx'[w].at = "open" /\ tx'[w].mine = tx[w].mine \cup {n}
    BY <1>1, <1>2 DEF Writer, Written
<1>8. \A S \in Visible' : S \in Visible \/ S = R \cup {n}
    BY <1>3, <1>7 DEF Visible
<1>9. Above(n, R)
    BY <1>1, <1>6, RecordFields DEF Above, IInv, NumbersRise
<1>10. TypeOK'
  <2>1. tx' \in [Writers -> Writer]
    BY <1>1, <1>2, <1>6 DEF Writer
  <2>2. drawn' \in Contents
    BY <1>1, <1>4
  <2>3. QED
    BY <1>3, <2>1, <2>2 DEF IInv, TypeOK, anchors
<1>11. OneWrites'
    BY <1>1, <1>7 DEF IInv, OneWrites
<1>12. NumbersRise'
  <2>1. \A S \in Visible : Numbered(S) /\ \A r \in S : r.seq <= drawn + 1
    BY <1>1, RecordFields DEF IInv, NumbersRise, Numbered
  <2>2. Numbered(R \cup {n}) /\ \A r \in R \cup {n} : r.seq <= drawn + 1
    <3>1. Numbered(R \cup {n})
      BY <1>1, <1>6, <1>9, TopNumbered
    <3>2. (\A r \in R : r.seq <= drawn + 1) /\ n.seq <= drawn + 1
      BY <2>1, <1>1, <1>6
    <3>3. QED
      BY <3>1, <3>2
  <2>3. \A x \in Writers : \A m \in tx'[x].mine : \A r \in records : r.seq < m.seq
    BY <1>7, <1>9 DEF IInv, NumbersRise, Above
  <2>4. QED
    BY <2>1, <2>2, <2>3, <1>1, <1>3, <1>8 DEF NumbersRise
<1>13. edited # "chain" => (\/ R = {} /\ prev = GENESIS
                           \/ \E p \in R : IsLast(p, R) /\ prev = p.hash)
    BY <1>1, UntakenIsLast
<1>14. LengthsRise'
  <2>1. SUFFICES ASSUME edited # "chain" \/ dialect = "postgresql"
                 PROVE  Ordered(R \cup {n})
    BY <1>3, <1>8 DEF IInv, LengthsRise
  <2>2. Ordered(R)
    BY <2>1, <1>1 DEF IInv, LengthsRise
  <2>3. \A r \in R : Len(r.hash) <= Len(prev)
    <3>1. CASE dialect = "postgresql"
      BY <3>1, <1>1 DEF IInv, HeadsAreRead
    <3>2. CASE edited # "chain"
      BY <3>2, <2>2, <1>13 DEF Ordered, IsLast
    <3>3. QED
      BY <2>1, <3>1, <3>2
  <2>4. QED
    BY <2>2, <2>3, <1>1, <1>5, <1>6, <1>9, TopOrdered
<1>15. IsChain'
  <2>1. SUFFICES ASSUME edited # "chain" PROVE Linked(R \cup {n})
    BY <1>3, <1>8 DEF IInv, IsChain
  <2>2. Linked(R) /\ Prefix(n.prev_hash, n.hash)
    BY <2>1, <1>1, <1>5, <1>6 DEF IInv, IsChain, Prefix
  <2>3. QED
    BY <2>1, <2>2, <1>1, <1>6, <1>9, <1>13, TopLinked
<1>16. HeadsAreRead'
    BY <1>1, <1>3, <1>7 DEF IInv, HeadsAreRead
<1>17. ContentsTell'
  <2>1. ASSUME edited = "nothing" PROVE Genuine(R \cup {n})
    <3>1. Genuine(R)
      BY <2>1, <1>1 DEF IInv, ContentsTell
    <3>2. ~HasZero(prev)
      BY <2>1, <3>1, <1>13 DEF Genuine, HasZero, GENESIS
    <3>3. ~HasZero(n.hash)
      BY <3>2, <1>1, <1>5, <1>6 DEF HasZero
    <3>4. n.content # 0 /\ n.hash = RecordHash(n.content, n.prev_hash)
      BY <1>1, <1>6 DEF RecordHash
    <3>5. QED
      BY <3>1, <3>3, <3>4 DEF Genuine
  <2>2. ASSUME edited = "chain" PROVE ZeroShows(R \cup {n})
    <3>1. HasZero(n.prev_hash) => HasZero(n.hash)
      BY <1>5, <1>6 DEF HasZero
    <3>2. ZeroShows(R) /\ n.content # 0
      BY <2>2, <1>1, <1>6 DEF IInv, ContentsTell
    <3>3. QED
      BY <3>1, <3>2, <1>1, <1>6, <1>9, TopZeroShows
  <2>3. QED
    BY <2>1, <2>2, <1>3, <1>8 DEF IInv, ContentsTell, anchors
<1>18. QED
    BY <1>3, <1>10, <1>11, <1>12, <1>14, <1>15, <1>16, <1>17, SameAnchors DEF IInv

LEMMA CommitStep ==
    ASSUME NEW w \in Writers, IInv, Commit(w), dialect' = dialect
    PROVE  IInv'
<1>1. /\ tx \in [Writers -> Writer] /\ tx[w].mine # {} /\ tx[w].mine \subseteq Record
      /\ tx' = [tx EXCEPT ![w] = NoWriter] /\ records' = records \cup tx[w].mine
      /\ records \cup tx[w].mine \in Visible /\ Numbered(records \cup tx[w].mine)
    BY WriterRows DEF Commit
<1>2. drawn' = drawn /\ edited' = edited /\ UNCHANGED anchors
    BY DEF Commit
<1>3. /\ \A x \in Writers : x # w => tx'[x] = tx[x] /\ tx[x].mine = {}
      /\ tx'[w].at = "idle" /\ tx'[w].mine = {}
    BY <1>1 DEF IInv, OneWrites, NoWriter
<1>4. Visible' \subseteq Visible
    BY <1>1, <1>3 DEF Visible
<1>5. TypeOK'
  <2>1. tx' \in [Writers -> Writer]
    BY <1>1 DEF NoWriter, Writer, GENESIS
  <2>2. records' \subseteq Record
    BY <1>1 DEF IInv, TypeOK
  <2>3. QED
    BY <1>2, <2>1, <2>2 DEF IInv, TypeOK, anchors
<1>6. OneWrites'
    BY <1>3 DEF IInv, OneWrites
<1>7. LengthsRise' /\ IsChain' /\ ContentsTell' /\ NumbersRise'
  <2>1. \A x \in Writers : tx'[x].mine = {}
    BY <1>3
  <2>2. QED
    BY <2>1, <1>1, <1>2, <1>4, NothingNew DEF NumbersRise, anchors
<1>8. HeadsAreRead'
  <2>1. dialect = "postgresql" => \A x \in Writers : x # w => tx[x].at = "idle"
    BY <1>1 DEF IInv, OneWrites
  <2>2. QED
    BY <2>1, <1>1, <1>2, <1>3 DEF IInv, HeadsAreRead
<1>9. AnchorsKept'
    BY <1>1, <1>2 DEF IInv, AnchorsKept, Matches, anchors
<1>10. SnapshotsKept'
  <2>1. ASSUME NEW v \in Verifiers, NEW m \in tx[w].mine, NEW q \in check[v].rows
        PROVE  q.seq < m.seq
    BY DEF IInv, SnapshotsKept, NumbersRise
  <2>2. QED
    BY <2>1, <1>1, <1>2 DEF IInv, SnapshotsKept, anchors
<1>11. QED
    BY <1>5, <1>6, <1>7, <1>8, <1>9, <1>10 DEF IInv

LEMMA RollBackStep ==
    ASSUME NEW w \in Writers, IInv, RollBack(w), dialect' = dialect
    PROVE  IInv'
<1>1. tx \in [Writers -> Writer] /\ tx' = [tx EXCEPT ![w] = NoWriter]
    BY WriterRows DEF RollBack
<1>2. records' = records /\ drawn' = drawn /\ edited' = edited /\ UNCHANGED anchors
    BY DEF RollBack
<1>3. /\ \A x \in Writers : x # w => tx'[x] = tx[x]
      /\ tx'[w].at = "idle" /\ tx'[w].mine = {}
    BY <1>1 DEF NoWriter
<1>4. Visible' \subseteq Visible
    BY <1>2, <1>3 DEF Visible
<1>5. TypeOK'
  <2>1. tx' \in [Writers -> Writer]
    BY <1>1 DEF NoWriter, Writer, GENESIS
  <2>2. QED
    BY <1>2, <2>1 DEF IInv, TypeOK, anchors
<1>6. OneWrites' /\ HeadsAreRead'
    BY <1>2, <1>3 DEF IInv, OneWrites, HeadsAreRead
<1>7. NumbersRise' /\ LengthsRise' /\ IsChain' /\ ContentsTell'
    BY <1>2, <1>3, <1>4, NothingNew DEF IInv, NumbersRise, anchors
<1>8. QED
    BY <1>2, <1>5, <1>6, <1>7, SameAnchors DEF IInv

-----------------------------------------------------------------------------
(* Changes outside the program *)

LEMMA EditStep ==
    ASSUME NEW r \in records, IInv, Edit(r), dialect' = dialect
    PROVE  IInv'
<1> DEFINE e == [r EXCEPT !.content = 0]
           f(R) == [q \in R |-> IF q = r THEN e ELSE q]
<1>1. /\ edited = "nothing" /\ edited' = "row" /\ records' = (records \ {r}) \cup {e}
      /\ drawn' = drawn /\ tx' = tx /\ UNCHANGED anchors
    BY DEF Edit
<1>2. /\ records \subseteq Record /\ Numbered(records) /\ records \in Visible
      /\ \A w \in Writers : Numbered(records \cup tx[w].mine)
    BY DEF IInv, TypeOK, NumbersRise, Visible
<1>3. 0 \in Contents
    BY AuditAssumption DEF Contents
<1>4. /\ r \in Record /\ e \in Record /\ e.seq = r.seq /\ e.content = 0
      /\ e.prev_hash = r.prev_hash /\ e.hash = r.hash
    BY <1>2, <1>3 DEF Record
<1> HIDE DEF e
<1>5. \A w \in Writers : r \notin tx[w].mine
    BY RecordFields, <1>4 DEF IInv, NumbersRise
<1>6. ASSUME NEW S \in Visible'
      PROVE  \E R \in Visible : /\ S = {f(R)[q] : q \in R}
                               /\ \A q \in R : /\ f(R)[q] \in Record /\ f(R)[q].seq = q.seq
                                              /\ f(R)[q].hash = q.hash
                                              /\ f(R)[q].prev_hash = q.prev_hash
  <2>1. PICK R \in Visible : r \in R /\ R \subseteq Record /\ S = (R \ {r}) \cup {e}
    <3>1. CASE S = records'
      BY <3>1, <1>1, <1>2
    <3>2. ASSUME NEW w \in Writers, S = records' \cup tx'[w].mine
          PROVE  LET R == records \cup tx[w].mine
                 IN  R \in Visible /\ r \in R /\ R \subseteq Record /\ S = (R \ {r}) \cup {e}
      <4> DEFINE R == records \cup tx[w].mine
      <4>1. R \in Visible /\ r \in R /\ R \subseteq Record
        BY <1>2 DEF Visible, Numbered
      <4>2. S = (R \ {r}) \cup {e}
        BY <3>2, <1>1, <1>5
      <4>3. QED
        BY <4>1, <4>2
    <3>3. QED
      BY <3>1, <3>2 DEF Visible
  <2>2. S = {f(R)[q] : q \in R}
    BY <2>1
  <2>3. QED
    BY <2>1, <2>2, <1>4
<1> HIDE DEF f
<1>7. \A S \in Visible' : \E R \in Visible : \E g :
          /\ S = {g[q] : q \in R}
          /\ \A q \in R : /\ g[q] \in Record /\ g[q].seq = q.seq
                         /\ g[q].hash = q.hash /\ g[q].prev_hash = q.prev_hash
  <2>1. SUFFICES ASSUME NEW S \in Visible'
                 PROVE  \E R \in Visible : \E g :
                          /\ S = {g[q] : q \in R}
                          /\ \A q \in R : /\ g[q] \in Record /\ g[q].seq = q.seq
                                         /\ g[q].hash = q.hash /\ g[q].prev_hash = q.prev_hash
    OBVIOUS
  <2>2. PICK R \in Visible : /\ S = {f(R)[q] : q \in R}
                            /\ \A q \in R : /\ f(R)[q] \in Record /\ f(R)[q].seq = q.seq
                                           /\ f(R)[q].hash = q.hash
                                           /\ f(R)[q].prev_hash = q.prev_hash
    BY <1>6
  <2>3. PICK g : g = f(R)
    OBVIOUS
  <2>4. QED
    BY <2>2, <2>3
<1>8. TypeOK'
    BY <1>1, <1>2, <1>4 DEF IInv, TypeOK, anchors
<1>9. OneWrites'
    BY <1>1 DEF IInv, OneWrites
<1>10. ASSUME NEW S \in Visible'
       PROVE  Numbered(S) /\ (\A x \in S : x.seq <= drawn) /\ Ordered(S) /\ Linked(S)
  <2>1. PICK R \in Visible : \E g :
          /\ S = {g[q] : q \in R}
          /\ \A q \in R : /\ g[q] \in Record /\ g[q].seq = q.seq
                         /\ g[q].hash = q.hash /\ g[q].prev_hash = q.prev_hash
    BY <1>7
  <2>0. PICK g :
          /\ S = {g[q] : q \in R}
          /\ \A q \in R : /\ g[q] \in Record /\ g[q].seq = q.seq
                         /\ g[q].hash = q.hash /\ g[q].prev_hash = q.prev_hash
    BY <2>1
  <2>2. Numbered(R) /\ (\A q \in R : q.seq <= drawn) /\ Ordered(R) /\ Linked(R)
    BY <1>1 DEF IInv, NumbersRise, LengthsRise, IsChain
  <2>3. Numbered(S)
    BY <2>0, <2>2, ChangedNumbered
  <2>4. Ordered(S)
    BY <2>0, <2>2, ChangedOrdered
  <2>5. Linked(S)
    BY <2>0, <2>2, ChangedLinked
  <2>6. QED
    BY <2>0, <2>2, <2>3, <2>4, <2>5
<1>11. NumbersRise' /\ LengthsRise' /\ IsChain'
  <2>1. \A w \in Writers : \A m \in tx[w].mine : \A x \in records' : x.seq < m.seq
    BY <1>1, <1>4 DEF IInv, NumbersRise
  <2>2. QED
    BY <2>1, <1>1, <1>10 DEF NumbersRise, LengthsRise, IsChain
<1>12. \A x \in records : \E y \in records' : y.seq = x.seq /\ y.hash = x.hash
    BY <1>1, <1>4
<1>13. \A y \in records' : \E x \in records : y.seq = x.seq /\ y.hash = x.hash
    BY <1>1, <1>4
<1>14. HeadsAreRead'
  <2>1. ASSUME NEW w \in Writers, tx[w].at = "head"
        PROVE  \/ tx[w].prev = GENESIS
               \/ \E y \in records' \cup tx[w].mine : y.hash = tx[w].prev
    BY <2>1, <1>1, <1>12 DEF IInv, HeadsAreRead
  <2>2. ASSUME dialect = "postgresql", NEW w \in Writers, tx[w].at = "head",
               NEW y \in records' \cup tx[w].mine
        PROVE  Len(y.hash) <= Len(tx[w].prev)
    BY <2>2, <1>13 DEF IInv, HeadsAreRead
  <2>3. QED
    BY <2>1, <2>2, <1>1 DEF HeadsAreRead
<1>15. ContentsTell'
  <2>1. r.content # 0 /\ r.content \in Nat /\ r.hash = Append(r.prev_hash, r.content)
    BY <1>1, <1>2, <1>4, AuditAssumption DEF IInv, ContentsTell, Genuine, RecordHash, Record, Contents
  <2>2. r.prev_hash \in Seq(Contents) /\ Len(r.prev_hash) \in Nat
    BY <1>4, RecordFields
  <2>3. Append(r.prev_hash, r.content)[Len(r.prev_hash) + 1] = r.content
        /\ Append(r.prev_hash, 0)[Len(r.prev_hash) + 1] = 0
    BY <2>2
  <2>4. e.hash # RecordHash(e.content, e.prev_hash)
    BY <2>1, <2>3, <1>4 DEF RecordHash
  <2>5. QED
    BY <2>4, <1>1 DEF ContentsTell
<1>16. AnchorsKept'
    BY <1>1, <1>12 DEF IInv, AnchorsKept, Matches, anchors
<1>17. SnapshotsKept'
  <2>1. ASSUME NEW v \in Verifiers
        PROVE  /\ Numbered(check[v].rows)
               /\ \A q \in check[v].rows : \E y \in records' : y.seq = q.seq
               /\ check[v].at = "rows" => \A y \in records' :
                     \/ \E q \in check[v].rows : q.seq = y.seq /\ q.hash = y.hash
                     \/ \A q \in check[v].rows : q.seq < y.seq
    BY <1>1, <1>12, <1>13 DEF IInv, SnapshotsKept
  <2>2. QED
    BY <2>1, <1>1 DEF SnapshotsKept, anchors
<1>18. QED
    BY <1>8, <1>9, <1>11, <1>14, <1>15, <1>16, <1>17 DEF IInv

LEMMA RecomputeStep ==
    ASSUME NEW r \in records, IInv, Recompute(r), dialect' = dialect
    PROVE  IInv'
<1> DEFINE redo(hash) == IF Len(hash) < Len(r.hash) THEN hash ELSE [hash EXCEPT ![Len(r.hash)] = 0]
           redone(q) == [q EXCEPT !.content = IF q = r THEN 0 ELSE @,
                                  !.prev_hash = redo(@), !.hash = redo(@)]
<1>1. /\ edited = "nothing" /\ edited' = "chain"
      /\ drawn' = drawn /\ tx' = tx /\ UNCHANGED anchors
    BY DEF Recompute
<1>2. records' = {redone(q) : q \in records}
    BY DEF Recompute
<1>3. /\ records \subseteq Record /\ Numbered(records) /\ records \in Visible
      /\ \A w \in Writers : Numbered(records \cup tx[w].mine)
    BY DEF IInv, TypeOK, NumbersRise, Visible
<1>4. 0 \in Contents /\ Len(r.hash) \in Nat /\ Len(r.hash) >= 1
  <2>1. Len(r.hash) = Len(r.prev_hash) + 1 /\ r.prev_hash \in Seq(Contents)
    BY <1>1, <1>3, RecordFields DEF IInv, LengthsRise, Ordered
  <2>2. QED
    BY <2>1, AuditAssumption DEF Contents
<1>5. ASSUME NEW h \in Seq(Contents)
      PROVE  /\ redo(h) \in Seq(Contents) /\ Len(redo(h)) = Len(h)
             /\ Len(r.hash) <= Len(h) => HasZero(redo(h))
  <2>1. CASE Len(h) < Len(r.hash)
    BY <2>1, <1>4
  <2>2. CASE ~(Len(h) < Len(r.hash))
    <3>1. redo(h) = [h EXCEPT ![Len(r.hash)] = 0]
      BY <2>2
    <3>2. redo(h) \in Seq(Contents) /\ Len(redo(h)) = Len(h)
      BY <3>1, <1>4
    <3>3. Len(r.hash) \in 1 .. Len(h) /\ Len(h) \in Nat /\ DOMAIN h = 1 .. Len(h)
      BY <2>2, <1>4
    <3>4. redo(h)[Len(r.hash)] = 0
      BY <3>1, <3>3
    <3>5. QED
      BY <3>2, <3>3, <3>4 DEF HasZero
  <2>3. QED
    BY <2>1, <2>2
<1>6. ASSUME NEW q \in Record
      PROVE  /\ redone(q) \in Record /\ redone(q).seq = q.seq
             /\ redone(q).content = (IF q = r THEN 0 ELSE q.content)
             /\ redone(q).prev_hash = redo(q.prev_hash) /\ redone(q).hash = redo(q.hash)
  <2>1. redo(q.prev_hash) \in Seq(Contents) /\ redo(q.hash) \in Seq(Contents)
    BY <1>5, RecordFields
  <2> HIDE DEF redo
  <2>2. QED
    BY <2>1, <1>4 DEF Record
<1>0. PICK d : d = [q \in Record |-> redone(q)]
    OBVIOUS
<1>7. /\ \A q \in records : d[q] \in records'
      /\ \A y \in records' : \E q \in records : y = d[q]
    BY <1>2, <1>3, <1>0
<1>8. ASSUME NEW q \in Record
      PROVE  /\ d[q] \in Record /\ d[q].seq = q.seq /\ (d[q].content = 0 => q = r \/ q.content = 0)
             /\ Len(d[q].hash) = Len(q.hash) /\ Len(d[q].prev_hash) = Len(q.prev_hash)
             /\ Len(r.hash) <= Len(q.hash) => HasZero(d[q].hash)
  <2>1. d[q] = redone(q)
    BY <1>0
  <2> HIDE DEF redone
  <2>2. /\ d[q] \in Record /\ d[q].seq = q.seq /\ (d[q].content = 0 => q = r \/ q.content = 0)
        /\ d[q].prev_hash = redo(q.prev_hash) /\ d[q].hash = redo(q.hash)
    BY <2>1, <1>6
  <2>3. q.prev_hash \in Seq(Contents) /\ q.hash \in Seq(Contents)
    BY RecordFields
  <2>4. /\ Len(redo(q.hash)) = Len(q.hash) /\ Len(redo(q.prev_hash)) = Len(q.prev_hash)
        /\ Len(r.hash) <= Len(q.hash) => HasZero(redo(q.hash))
    BY <2>3, <1>5
  <2> HIDE DEF redo
  <2>5. QED
    BY <2>2, <2>4
<1> HIDE DEF redone, redo
<1>9. ASSUME NEW S \in Visible'
      PROVE  \E R \in Visible : \E g :
                 /\ \A q \in R : g[q] = IF q \in records THEN d[q] ELSE q
                 /\ S = {g[q] : q \in R} /\ records \subseteq R
                 /\ R = records \/ \E w \in Writers : R = records \cup tx[w].mine
  <2> DEFINE f(R) == [q \in R |-> IF q \in records THEN d[q] ELSE q]
  <2>1. S = records' \/ \E w \in Writers : S = records' \cup tx[w].mine
    BY <1>1 DEF Visible
  <2>2. PICK R \in Visible : \E M : /\ R = records \cup M /\ S = records' \cup M
                                    /\ M = {} \/ \E w \in Writers : M = tx[w].mine
    <3>1. CASE S = records'
      <4>1. records = records \cup {} /\ S = records' \cup {}
        BY <3>1
      <4>2. QED
        BY <4>1, <1>3
    <3>2. ASSUME NEW w \in Writers, S = records' \cup tx[w].mine
          PROVE  records \cup tx[w].mine \in Visible
      BY DEF Visible
    <3>3. QED
      BY <2>1, <3>1, <3>2
  <2>3. PICK M : /\ R = records \cup M /\ S = records' \cup M
                 /\ M = {} \/ \E w \in Writers : M = tx[w].mine
    BY <2>2
  <2>4. \A m \in M : m \notin records
    <3>1. SUFFICES ASSUME NEW m \in M, m \in records PROVE FALSE
      OBVIOUS
    <3>2. m.seq < m.seq
      BY <2>3, <3>1 DEF IInv, NumbersRise
    <3>3. m \in Record
      BY <1>3, <3>1
    <3>4. QED
      BY <3>2, <3>3, RecordFields
  <2>5. PICK g : g = f(R)
    OBVIOUS
  <2>6. \A q \in R : g[q] = IF q \in records THEN d[q] ELSE q
    BY <2>5
  <2> HIDE DEF f
  <2>7. \A q \in R : g[q] \in S
    BY <2>3, <2>6, <1>7
  <2>8. \A y \in S : \E q \in R : y = g[q]
    <3>1. SUFFICES ASSUME NEW y \in S PROVE \E q \in R : y = g[q]
      OBVIOUS
    <3>2. CASE y \in records'
      <4>1. PICK q \in records : y = d[q]
        BY <3>2, <1>7
      <4>2. QED
        BY <4>1, <2>3, <2>6
    <3>3. CASE y \in M
      <4>1. y \in R /\ y \notin records
        BY <3>3, <2>3, <2>4
      <4>2. QED
        BY <4>1, <2>6
    <3>4. QED
      BY <3>2, <3>3, <2>3
  <2>9. S = {g[q] : q \in R}
    BY <2>7, <2>8
  <2>10. R = records \/ \E w \in Writers : R = records \cup tx[w].mine
    BY <2>3
  <2>11. QED
    BY <2>3, <2>6, <2>9, <2>10
<1>10. ASSUME NEW S \in Visible'
       PROVE  Numbered(S) /\ (\A x \in S : x.seq <= drawn) /\ Ordered(S)
  <2>1. PICK R \in Visible : \E g : /\ \A q \in R : g[q] = IF q \in records THEN d[q] ELSE q
                                    /\ S = {g[q] : q \in R}
    BY <1>9
  <2>2. PICK g : /\ \A q \in R : g[q] = IF q \in records THEN d[q] ELSE q
                 /\ S = {g[q] : q \in R}
    BY <2>1
  <2>3. Numbered(R) /\ (\A q \in R : q.seq <= drawn) /\ Ordered(R)
    BY <1>1 DEF IInv, NumbersRise, LengthsRise
  <2>4. \A q \in R : /\ g[q] \in Record /\ g[q].seq = q.seq
                    /\ Len(g[q].hash) = Len(q.hash)
                    /\ Len(g[q].prev_hash) = Len(q.prev_hash)
    BY <2>2, <2>3, <1>8 DEF Numbered
  <2>5. Numbered(S)
    BY <2>2, <2>3, <2>4, ChangedNumbered
  <2>6. \A q \in R : /\ g[q].seq = q.seq /\ Len(g[q].hash) = Len(q.hash)
                    /\ Len(g[q].prev_hash) = Len(q.prev_hash)
    BY <2>4
  <2>7. S = {g[q] : q \in R}
    BY <2>2
  <2>8. Ordered(S)
    BY <2>3, <2>6, <2>7, ChangedOrdered
  <2>9. QED
    BY <2>2, <2>3, <2>4, <2>5, <2>8
<1>11. ASSUME NEW S \in Visible' PROVE ZeroShows(S)
  <2>1. PICK R \in Visible : \E g :
          /\ \A q \in R : g[q] = IF q \in records THEN d[q] ELSE q
          /\ S = {g[q] : q \in R} /\ records \subseteq R
          /\ R = records \/ \E w \in Writers : R = records \cup tx[w].mine
    BY <1>9
  <2>2. PICK g :
          /\ \A q \in R : g[q] = IF q \in records THEN d[q] ELSE q
          /\ S = {g[q] : q \in R} /\ records \subseteq R
          /\ R = records \/ \E w \in Writers : R = records \cup tx[w].mine
    BY <2>1
  <2>3. Numbered(R) /\ Ordered(R) /\ Linked(R) /\ Genuine(R) /\ R \subseteq Record
    BY <1>1 DEF IInv, NumbersRise, LengthsRise, IsChain, ContentsTell, Numbered
  <2>4. /\ \A q \in R : g[q].seq = q.seq /\ (g[q].content = 0 => q = r)
        /\ \A q \in records : Len(r.hash) <= Len(q.hash) => HasZero(g[q].hash)
        /\ \A q \in R : q \notin records => g[q] = q
    BY <2>2, <2>3, <1>8 DEF Genuine
  <2>5. (\A y \in S : \E q \in R : y = g[q]) /\ \A q \in R : g[q] \in S
    BY <2>2
  <2>6. \A q \in records : r.seq <= q.seq => HasZero(g[q].hash)
    <3>1. SUFFICES ASSUME NEW q \in records, r.seq <= q.seq PROVE HasZero(g[q].hash)
      OBVIOUS
    <3>2. q \in R /\ r \in R
      BY <2>2
    <3>3. Len(r.hash) <= Len(q.hash)
      BY <3>1, <3>2, <2>3 DEF Ordered
    <3>4. QED
      BY <3>3, <2>4
  <2>7. SUFFICES Broken(S) \/ \A y \in S : r.seq <= y.seq => HasZero(y.hash)
    <3>1. \A x \in S : x.content = 0 => x.seq = r.seq
      BY <2>4, <2>5
    <3>2. QED
      BY <3>1, <2>7 DEF ZeroShows
  <2>8. CASE R = records
    BY <2>4, <2>5, <2>6, <2>8
  <2>9. ASSUME NEW w \in Writers, R = records \cup tx[w].mine, R # records
        PROVE  Broken(S)
    <3>1. PICK last \in records : IsLast(last, records)
      BY <1>3 DEF Numbered
    <3>2. PICK m \in tx[w].mine : m \in R /\ last.seq < m.seq
      BY <2>9 DEF IInv, NumbersRise
    <3>3. ~IsLast(last, R)
      BY <3>2, <1>3, <2>3, RecordFields DEF IsLast, Numbered
    <3>4. last \in R /\ r.seq <= last.seq
      BY <2>2, <3>1 DEF IsLast
    <3>5. PICK q \in R : Follows(q, last, R)
      BY <2>3, <3>3, <3>4 DEF Linked
    <3>6. q \notin records
      BY <3>1, <3>5, <1>3, RecordFields DEF IsLast, Follows, Precedes
    <3>7. g[q] = q /\ HasZero(g[last].hash) /\ ~HasZero(last.hash)
      BY <2>3, <2>4, <2>6, <3>1, <3>4, <3>6 DEF Genuine
    <3>8. q.prev_hash = last.hash
      BY <3>5 DEF Follows
    <3>9. g[q].prev_hash # g[last].hash
      BY <3>7, <3>8
    <3>10. \A x \in R : g[x].seq = x.seq
      BY <2>4
    <3>11. S = {g[x] : x \in R}
      BY <2>2
    <3>12. Precedes(last, q, R)
      BY <3>5 DEF Follows
    <3>13. Precedes(g[last], g[q], S)
      BY <3>4, <3>10, <3>11, <3>12, ChangedPrecedes
    <3>14. QED
      BY <3>9, <3>13, <3>4, <2>5 DEF Broken
  <2>10. QED
    BY <2>2, <2>8, <2>9
<1>12. TypeOK'
  <2>1. records' \subseteq Record
    BY <1>3, <1>7, <1>8
  <2>2. QED
    BY <2>1, <1>1 DEF IInv, TypeOK, anchors
<1>13. OneWrites'
    BY <1>1 DEF IInv, OneWrites
<1>14. \A y \in records' : \E x \in records : y.seq = x.seq /\ Len(y.hash) = Len(x.hash)
    BY <1>3, <1>7, <1>8
<1>15. \A x \in records : \E y \in records' : y.seq = x.seq
    BY <1>3, <1>7, <1>8
<1>16. NumbersRise' /\ LengthsRise' /\ IsChain'
  <2>1. \A w \in Writers : \A m \in tx[w].mine : \A y \in records' : y.seq < m.seq
    BY <1>14 DEF IInv, NumbersRise
  <2>2. QED
    BY <2>1, <1>1, <1>10 DEF NumbersRise, LengthsRise, IsChain
<1>17. HeadsAreRead'
  <2>1. ASSUME dialect = "postgresql", NEW w \in Writers, tx[w].at = "head",
               NEW y \in records' \cup tx[w].mine
        PROVE  Len(y.hash) <= Len(tx[w].prev)
    BY <2>1, <1>14 DEF IInv, HeadsAreRead
  <2>2. QED
    BY <2>1, <1>1 DEF HeadsAreRead
<1>18. ContentsTell'
  <2>1. \A v \in Verifiers : ZeroShows(check[v].rows)
    BY <1>1 DEF IInv, ContentsTell, ZeroShows
  <2>2. QED
    BY <2>1, <1>1, <1>11 DEF ContentsTell, anchors
<1>19. AnchorsKept' /\ SnapshotsKept'
  <2>1. \A v \in Verifiers : /\ Numbered(check[v].rows)
                             /\ \A q \in check[v].rows : \E y \in records' : y.seq = q.seq
    BY <1>15 DEF IInv, SnapshotsKept
  <2>2. QED
    BY <2>1, <1>1 DEF AnchorsKept, SnapshotsKept, anchors
<1>20. QED
    BY <1>12, <1>13, <1>16, <1>17, <1>18, <1>19 DEF IInv

-----------------------------------------------------------------------------
(* Anchors and verifiers *)

LEMMA AnchorStep ==
    ASSUME IInv, UNCHANGED <<dialect, chain, check>>, TypeOK', AnchorsKept'
    PROVE  IInv'
<1>1. records' = records /\ edited' = edited /\ tx' = tx /\ check' = check
    BY DEF chain
<1>2. Visible' = Visible
    BY <1>1 DEF Visible
<1>3. ContentsTell' /\ SnapshotsKept'
    BY <1>1, <1>2 DEF IInv, ContentsTell, SnapshotsKept
<1>4. QED
    BY <1>3, ChainStep DEF IInv

LEMMA AnchorTypes ==
    ASSUME IInv, NEW k \in Anchorers
    PROVE  /\ anchor \in [Anchorers -> AnchorEntry \cup {NoAnchor}]
           /\ anchor[k].seq # 0 => anchor[k] \in AnchorEntry
           /\ anchor[k].at # 0 => anchor[k].seq # 0
           /\ file \in Seq(AnchorEntry) /\ clock \in Nat
<1>1. anchor[k] \in AnchorEntry \cup {NoAnchor}
    BY DEF IInv, TypeOK
<1>2. \A e \in AnchorEntry : e.seq # 0
    BY AuditAssumption DEF AnchorEntry, Numbers
<1>3. NoAnchor.seq = 0 /\ NoAnchor.at = 0
    BY DEF NoAnchor
<1>4. QED
    BY <1>1, <1>2, <1>3 DEF IInv, TypeOK

LEMMA TakeHeadStep ==
    ASSUME NEW k \in Anchorers, IInv, TakeHead(k), dialect' = dialect
    PROVE  IInv'
<1>1. PICK r \in records :
          anchor' = [anchor EXCEPT ![k] = [NoAnchor EXCEPT !.seq = r.seq, !.hash = r.hash]]
    BY DEF TakeHead
<1>2. UNCHANGED <<chain, file, clock, check>>
    BY DEF TakeHead
<1> DEFINE e == [NoAnchor EXCEPT !.seq = r.seq, !.hash = r.hash]
<1>3. e \in AnchorEntry /\ e.seq = r.seq /\ e.hash = r.hash
    BY DEF IInv, TypeOK, NoAnchor, AnchorEntry, Record
<1>4. TypeOK'
    BY <1>1, <1>2, <1>3, AnchorTypes DEF IInv, TypeOK, chain
<1>5. Matches(records, e)
    BY <1>3 DEF Matches
<1> HIDE DEF e
<1>6. anchor'[k] = e /\ \A j \in Anchorers : j # k => anchor'[j] = anchor[j]
    BY <1>1, AnchorTypes DEF e
<1>7. AnchorsKept'
    BY <1>2, <1>5, <1>6 DEF IInv, AnchorsKept, chain, Matches
<1>8. QED
    BY <1>2, <1>4, <1>7, AnchorStep

LEMMA StampStep ==
    ASSUME NEW k \in Anchorers, IInv, Stamp(k), dialect' = dialect
    PROVE  IInv'
<1>1. /\ anchor' = [anchor EXCEPT ![k] = [anchor[k] EXCEPT !.at = clock + 1]]
      /\ anchor[k].seq # 0 /\ clock' = clock + 1 /\ UNCHANGED <<chain, file, check>>
    BY AnchorTypes DEF Stamp
<1> DEFINE e == [anchor[k] EXCEPT !.at = clock + 1]
<1>2. anchor[k] \in AnchorEntry /\ clock \in Nat
    BY <1>1, AnchorTypes
<1>3. e \in AnchorEntry /\ e.seq = anchor[k].seq /\ e.hash = anchor[k].hash
    BY <1>2 DEF AnchorEntry
<1>4. TypeOK'
    BY <1>1, <1>2, <1>3, AnchorTypes DEF IInv, TypeOK, chain
<1>5. anchor'[k] = e /\ \A j \in Anchorers : j # k => anchor'[j] = anchor[j]
    BY <1>1, AnchorTypes
<1> HIDE DEF e
<1>6. AnchorsKept'
    BY <1>1, <1>3, <1>5 DEF IInv, AnchorsKept, chain, Matches
<1>7. QED
    BY <1>1, <1>4, <1>6, AnchorStep

LEMMA WriteStep ==
    ASSUME NEW k \in Anchorers, IInv, Write(k), dialect' = dialect
    PROVE  IInv'
<1>1. /\ file' = Append(file, anchor[k]) /\ anchor' = [anchor EXCEPT ![k] = NoAnchor]
      /\ anchor[k].at # 0 /\ UNCHANGED <<chain, clock, check>>
    BY DEF Write
<1>2. anchor[k] \in AnchorEntry /\ anchor[k].seq # 0 /\ file \in Seq(AnchorEntry)
    BY <1>1, AnchorTypes
<1>3. /\ file' \in Seq(AnchorEntry)
      /\ \A i \in DOMAIN file' : file'[i] = anchor[k] \/ (i \in DOMAIN file /\ file'[i] = file[i])
  <2>1. \A e \in AnchorEntry : /\ Append(file, e) \in Seq(AnchorEntry)
                             /\ \A i \in DOMAIN Append(file, e) :
                                  \/ Append(file, e)[i] = e
                                  \/ i \in DOMAIN file /\ Append(file, e)[i] = file[i]
    BY <1>2
  <2>2. QED
    BY <2>1, <1>1, <1>2
<1>4. TypeOK'
    BY <1>1, <1>3, AnchorTypes DEF IInv, TypeOK, chain
<1>5. anchor'[k].seq = 0 /\ \A j \in Anchorers : j # k => anchor'[j] = anchor[j]
    BY <1>1, AnchorTypes DEF NoAnchor
<1>6. AnchorsKept'
    BY <1>1, <1>2, <1>3, <1>5 DEF IInv, AnchorsKept, chain, Matches
<1>7. QED
    BY <1>1, <1>4, <1>6, AnchorStep

LEMMA VerifierStep ==
    ASSUME IInv, UNCHANGED <<dialect, chain, file, clock, anchor>>, NEW v \in Verifiers,
           NEW c \in Check, check' = [check EXCEPT ![v] = c],
           c.rows = {} \/ c.rows = records
    PROVE  IInv'
<1>1. records' = records /\ edited' = edited /\ tx' = tx /\ file' = file /\ anchor' = anchor
    BY DEF chain
<1>2. check'[v] = c /\ \A u \in Verifiers : u # v => check'[u] = check[u]
    BY DEF IInv, TypeOK
<1>3. TypeOK'
    BY DEF IInv, TypeOK, chain
<1>4. Visible' = Visible /\ records \in Visible
    BY <1>1 DEF Visible
<1>5. Numbered({}) /\ ZeroShows({})
    BY DEF Numbered, ZeroShows
<1>6. /\ Numbered(c.rows)
      /\ edited = "nothing" => \A r \in c.rows : r.content # 0
      /\ edited = "chain" => ZeroShows(c.rows)
    BY <1>4, <1>5 DEF IInv, NumbersRise, ContentsTell, Genuine
<1>7. ContentsTell'
    BY <1>1, <1>2, <1>4, <1>6 DEF IInv, ContentsTell
<1>8. SnapshotsKept'
  <2>1. ASSUME NEW u \in Verifiers
        PROVE  /\ Numbered(check'[u].rows)
               /\ \A q \in check'[u].rows : \E r \in records : r.seq = q.seq
               /\ check'[u].at = "rows" /\ edited # "chain" =>
                     \A r \in records :
                         \/ \E q \in check'[u].rows : q.seq = r.seq /\ q.hash = r.hash
                         \/ \A q \in check'[u].rows : q.seq < r.seq
    <3>1. CASE u = v
      BY <3>1, <1>2, <1>6
    <3>2. CASE u # v
      BY <3>2, <1>2 DEF IInv, SnapshotsKept
    <3>3. QED
      BY <3>1, <3>2
  <2>2. QED
    BY <2>1, <1>1 DEF SnapshotsKept
<1>9. AnchorsKept'
    BY <1>1 DEF IInv, AnchorsKept
<1>10. QED
    BY <1>3, <1>7, <1>8, <1>9, ChainStep DEF IInv

LEMMA ReadRowsStep ==
    ASSUME NEW v \in Verifiers, IInv, ReadRows(v), dialect' = dialect
    PROVE  IInv'
<1> DEFINE c == [check[v] EXCEPT !.at = "rows", !.rows = records]
<1>1. check' = [check EXCEPT ![v] = c]
    BY DEF ReadRows, IInv, TypeOK
<1>2. c \in Check /\ c.rows = records
    BY DEF IInv, TypeOK, Check
<1> HIDE DEF c
<1>3. QED
    BY <1>1, <1>2, VerifierStep DEF ReadRows

LEMMA CompareStep ==
    ASSUME NEW v \in Verifiers, IInv, Compare(v), dialect' = dialect
    PROVE  IInv'
<1> DEFINE c == [at |-> "idle", rows |-> {}, answer |-> AnchorsVerify(check[v].rows, file)]
<1>1. check' = [check EXCEPT ![v] = c]
    BY DEF Compare
<1>2. AnchorsVerify(check[v].rows, file) \in BOOLEAN
    BY DEF AnchorsVerify, InOrder
<1>3. c \in Check /\ c.rows = {}
    BY <1>2 DEF Check
<1> HIDE DEF c
<1>4. QED
    BY <1>1, <1>3, VerifierStep DEF Compare

LEMMA StutterStep == IInv /\ UNCHANGED vars => IInv'
<1> SUFFICES ASSUME IInv, UNCHANGED vars PROVE IInv'
    OBVIOUS
<1>1. /\ dialect' = dialect /\ UNCHANGED chain /\ check' = check
      /\ file' = file /\ clock' = clock /\ anchor' = anchor
    BY DEF vars, chain
<1>2. TypeOK' /\ AnchorsKept'
    BY <1>1 DEF IInv, TypeOK, AnchorsKept, chain
<1>3. QED
    BY <1>1, <1>2, AnchorStep

LEMMA NextIInv == IInv /\ [Next]_vars => IInv'
<1> SUFFICES ASSUME IInv, [Next]_vars PROVE IInv'
    OBVIOUS
<1>1. CASE UNCHANGED vars
    BY <1>1, StutterStep
<1>2. ASSUME Next, NEW w \in Writers,
             TakeLock(w) \/ ReadHead(w) \/ Insert(w) \/ Commit(w) \/ RollBack(w)
      PROVE  IInv'
    BY <1>2, TakeLockStep, ReadHeadStep, InsertStep, CommitStep, RollBackStep DEF Next
<1>3. ASSUME Next, NEW r \in records, Edit(r) \/ Recompute(r)
      PROVE  IInv'
    BY <1>3, EditStep, RecomputeStep DEF Next
<1>4. ASSUME Next, NEW k \in Anchorers, TakeHead(k) \/ Stamp(k) \/ Write(k)
      PROVE  IInv'
    BY <1>4, TakeHeadStep, StampStep, WriteStep DEF Next
<1>5. ASSUME Next, NEW v \in Verifiers, ReadRows(v) \/ Compare(v)
      PROVE  IInv'
    BY <1>5, ReadRowsStep, CompareStep DEF Next
<1>6. QED
    BY <1>1, <1>2, <1>3, <1>4, <1>5 DEF Next

LEMMA Inductive == Spec => []IInv
BY InitIInv, NextIInv, PTL DEF Spec
-----------------------------------------------------------------------------
(* The theorems *)

\* The rows, the writers, the file and what verifiers hold keep their types.
THEOREM TypeCorrect == Spec => []TypeOK
<1>1. IInv => TypeOK
    BY DEF IInv
<1>2. QED
    BY Inductive, <1>1, PTL

\* However transactions interleave, end or die, what is committed verifies; and
\* after an edit of one row it never does again (audit.py 3-5, 93-100).
THEOREM VerifiesHolds == Spec => []VerifiesUnlessEdited
<1>1. IInv => VerifiesUnlessEdited
  <2>1. SUFFICES ASSUME IInv
                 PROVE  /\ edited = "nothing" => Verifies(records)
                        /\ edited = "row" => ~Verifies(records)
    BY DEF VerifiesUnlessEdited
  <2>2. records \in Visible
    BY DEF Visible
  <2>3. edited = "nothing" => Numbered(records) /\ Linked(records) /\ Genuine(records)
    BY <2>1, <2>2 DEF IInv, NumbersRise, IsChain, ContentsTell
  <2>4. edited = "row" => \E r \in records : r.hash # RecordHash(r.content, r.prev_hash)
    BY <2>1 DEF IInv, ContentsTell
  <2>5. edited = "row" => ~Verifies(records)
    BY <2>4 DEF Verifies
  <2>6. QED
    BY <2>3, <2>5, LinkedVerifies
<1>2. QED
    BY Inductive, <1>1, PTL

LEMMA PrefixIsSubSeq ==
    ASSUME NEW a \in Seq(Contents), NEW b \in Seq(Contents), Prefix(a, b)
    PROVE  Len(a) <= Len(b) /\ a = SubSeq(b, 1, Len(a))
BY DEF Prefix

LEMMA HeadGrows ==
    ASSUME NEW R, NEW S, Numbered(R), Numbered(S), NEW p \in R, NEW q \in S,
           IsLast(p, R), IsLast(q, S), Prefix(p.hash, q.hash)
    PROVE  /\ Len(HeadHash(R)) <= Len(HeadHash(S))
           /\ HeadHash(R) = SubSeq(HeadHash(S), 1, Len(HeadHash(R)))
<1>1. HeadHash(R) = p.hash /\ HeadHash(S) = q.hash
    BY HeadIs
<1>2. p.hash \in Seq(Contents) /\ q.hash \in Seq(Contents)
    BY RecordFields DEF Numbered
<1>3. QED
    BY <1>1, <1>2, PrefixIsSubSeq

\* Short of a chain recomputed by somebody outside, the hash of the head covers
\* all that was ever committed, in its order (audit.py 72-90).
THEOREM HistoryHolds == Spec => HistoryGrows
<1> DEFINE Grows == LET was == HeadHash(records)
                        is == HeadHash(records')
                    IN  Len(was) <= Len(is) /\ was = SubSeq(is, 1, Len(was))
<1>1. ASSUME IInv, IInv', [Next]_vars, edited' # "chain", records' # records
      PROVE  Grows
  <2>1. Numbered(records) /\ Numbered(records')
    BY <1>1 DEF IInv, SnapshotsKept, NumbersRise, Visible
  <2>2. CASE records = {}
    <3>1. HeadHash(records) = <<>> /\ HeadHash(records') \in Seq(Contents)
      BY <2>1, <2>2, HeadType DEF HeadHash, GENESIS
    <3>2. \A s \in Seq(Contents) : Len(<<>>) <= Len(s) /\ <<>> = SubSeq(s, 1, Len(<<>>))
      OBVIOUS
    <3>3. QED
      BY <3>1, <3>2
  <2>3. ASSUME NEW p \in records, IsLast(p, records), NEW w \in Writers, Commit(w)
        PROVE  Grows
    <3>1. records' = records \cup tx[w].mine /\ edited' = edited
      BY <2>3 DEF Commit
    <3>2. Linked(records')
      BY <1>1 DEF IInv, IsChain, Visible
    <3>3. PICK q \in records' : IsLast(q, records')
      BY <2>1, <3>1 DEF Numbered
    <3>4. p \in records' /\ p.seq <= q.seq
      BY <3>1, <3>3 DEF IsLast
    <3>5. Prefix(p.hash, q.hash)
      BY <3>2, <3>3, <3>4 DEF Linked
    <3>6. QED
      BY <2>1, <2>3, <3>3, <3>5, HeadGrows
  <2>4. ASSUME NEW p \in records, IsLast(p, records), NEW r \in records, Edit(r)
        PROVE  Grows
    <3> DEFINE e == [r EXCEPT !.content = 0]
    <3>1. records' = (records \ {r}) \cup {e} /\ r \in Record /\ p \in Record
      BY <2>1, <2>4 DEF Edit, Numbered
    <3>2. e.seq = r.seq /\ e.hash = r.hash
      BY <3>1 DEF Record
    <3> HIDE DEF e
    <3>3. PICK q \in records' : q.seq = p.seq /\ q.hash = p.hash
      BY <3>1, <3>2
    <3>4. IsLast(q, records')
      BY <3>1, <3>2, <3>3, <2>4 DEF IsLast
    <3>5. Prefix(p.hash, q.hash)
      BY <3>1, <3>3, RecordFields DEF Prefix
    <3>6. QED
      BY <2>1, <2>4, <3>3, <3>4, <3>5, HeadGrows
  <2>5. CASE records # {}
    <3>1. PICK p \in records : IsLast(p, records)
      BY <2>1, <2>5 DEF Numbered
    <3>2. (\E w \in Writers : Commit(w)) \/ \E r \in records : Edit(r)
      BY <1>1 DEF Next, vars, chain, TakeLock, ReadHead, Insert, RollBack, Recompute,
                  TakeHead, Stamp, Write, ReadRows, Compare
    <3>3. QED
      BY <3>1, <3>2, <2>3, <2>4
  <2>6. QED
    BY <2>2, <2>5
<1>2. IInv /\ IInv' /\ [Next]_vars => [edited' # "chain" => Grows]_records
    BY <1>1
<1>3. QED
    BY Inductive, <1>2, PTL DEF HistoryGrows, Spec

\* With the advisory lock no writer's predecessor is taken under it, for any
\* number of transactions and processes (audit.py 75-78).
THEOREM NobodyLosesHolds == Spec => []NobodyLosesTheRace
<1>1. IInv => NobodyLosesTheRace
  <2>1. SUFFICES ASSUME IInv, dialect = "postgresql", NEW w \in Writers, tx[w].at = "head"
                 PROVE  ~Taken(w) /\ ~Written(w)
    BY DEF NobodyLosesTheRace
  <2>2. ~Written(w)
    BY <2>1 DEF IInv, OneWrites, Written
  <2>3. ASSUME NEW r \in records \cup tx[w].mine PROVE r.prev_hash # tx[w].prev
    <3>1. Len(r.hash) = Len(r.prev_hash) + 1
      BY <2>1, WriterRows DEF IInv, LengthsRise, Ordered
    <3>2. Len(r.hash) <= Len(tx[w].prev)
      BY <2>1 DEF IInv, HeadsAreRead
    <3>3. Len(r.prev_hash) \in Nat
      BY <2>1, WriterRows, RecordFields
    <3>4. QED
      BY <3>1, <3>2, <3>3
  <2>4. QED
    BY <2>2, <2>3 DEF Taken
<1>2. QED
    BY Inductive, <1>1, PTL

\* A verifier misses no anchor but those of rows newer than all it has read
\* (audit.py 123-147, 156-205).
THEOREM AnchorsHold == Spec => []OnlyNewAnchorsAreMissed
<1>1. IInv => OnlyNewAnchorsAreMissed
  <2>1. SUFFICES ASSUME IInv, NEW v \in Verifiers, NEW i \in DOMAIN file,
                        check[v].at = "rows", edited # "chain"
                 PROVE  \/ Matches(check[v].rows, file[i])
                        \/ \A r \in check[v].rows : r.seq < file[i].seq
    BY DEF OnlyNewAnchorsAreMissed
  <2>2. PICK r \in records : r.seq = file[i].seq /\ r.hash = file[i].hash
    BY <2>1 DEF IInv, AnchorsKept, Matches
  <2>3. \/ \E q \in check[v].rows : q.seq = r.seq /\ q.hash = r.hash
        \/ \A q \in check[v].rows : q.seq < r.seq
    BY <2>1 DEF IInv, SnapshotsKept
  <2>4. QED
    BY <2>2, <2>3 DEF Matches
<1>2. QED
    BY Inductive, <1>1, PTL

\* No recomputed chain passes both verifications once an anchor covers the row
\* it was recomputed from (audit.py 93-109, 149-151).
THEOREM RecomputedHolds == Spec => []RecomputedChainsAreCaught
<1>1. IInv => RecomputedChainsAreCaught
  <2>1. SUFFICES ASSUME IInv, NEW v \in Verifiers, NEW i \in DOMAIN file, edited = "chain",
                        NEW r \in check[v].rows, r.content = 0, Covers(file[i], r),
                        Verifies(check[v].rows), Matches(check[v].rows, file[i])
                 PROVE  FALSE
    BY DEF RecomputedChainsAreCaught, AnchorsVerify
  <2>2. Numbered(check[v].rows) /\ ZeroShows(check[v].rows)
    BY <2>1 DEF IInv, SnapshotsKept, ContentsTell
  <2>3. ~Broken(check[v].rows)
    BY <2>1, <2>2, BrokenFails
  <2>4. PICK q \in check[v].rows : q.seq = file[i].seq /\ q.hash = file[i].hash
    BY <2>1 DEF Matches
  <2>5. HasZero(q.hash)
    BY <2>1, <2>2, <2>3, <2>4 DEF ZeroShows, Covers
  <2>6. q.hash \in Seq(Contents)
    BY <2>2, RecordFields DEF Numbered
  <2>7. DOMAIN q.hash = 1 .. Len(q.hash)
    BY <2>6
  <2>8. QED
    BY <2>1, <2>4, <2>5, <2>7 DEF Covers, HasZero
<1>2. QED
    BY Inductive, <1>1, PTL
=============================================================================
