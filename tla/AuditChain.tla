------------------------------ MODULE AuditChain ------------------------------
(***************************************************************************)
(* The hash-chained audit log and its anchor file (audit.py).  Writers are *)
(* the transactions that call append, one or several times each, in the    *)
(* threads of several processes over one database.  On PostgreSQL append   *)
(* first takes an advisory lock that the transaction keeps; on SQLite it   *)
(* does not, and a second writer waits at its INSERT until the first ends. *)
(*                                                                         *)
(* Hashes do not collide: the hash of a record is the sequence of all the  *)
(* contents it covers, its predecessors' first.  A record's content is as  *)
(* unique as its id: the number it is inserted with stands for it.         *)
(*                                                                         *)
(* Left out of verify_anchors: signatures and keys, malformed lines, the   *)
(* age of the last anchor and the configured minimum.                      *)
(***************************************************************************)
EXTENDS Naturals, Sequences

CONSTANTS
    Writers,     \* transactions under way at a time
    Process,     \* Process[w]: the process that runs w
    Dialects,    \* the databases considered
    Anchorers,   \* calls of anchor_chain under way at a time
    Verifiers,   \* calls of verify_anchors under way at a time
    MaxRecords,  \* bound: records ever inserted
    MaxAnchors   \* bound: anchors ever signed

ASSUME AuditAssumption ==
    /\ Dialects \subseteq {"postgresql", "sqlite"}
    /\ MaxRecords \in Nat
    /\ MaxAnchors \in Nat

VARIABLES
    dialect,  \* the database, fixed
    records,  \* committed AuditRecord rows
    drawn,    \* the last value of the rows' number
    edited,   \* what somebody changed outside the program
    tx,       \* the local state of each writer
    file,     \* the anchor log
    clock,    \* the last time an anchor was given
    anchor,   \* the local state of each call of anchor_chain
    check     \* the local state of each call of verify_anchors, and its answer

vars == <<dialect, records, drawn, edited, tx, file, clock, anchor, check>>
chain == <<records, drawn, edited, tx>>
anchors == <<file, clock, anchor, check>>

-----------------------------------------------------------------------------
(* Data *)

GENESIS == <<>>
Contents == 0 .. MaxRecords
Numbers == 1 .. MaxRecords
Record == [seq : Numbers, content : Contents, prev_hash : Seq(Contents), hash : Seq(Contents)]

\* _record_hash
RecordHashAlone(content, prev_hash) == <<content>>   \* variant
RecordHash(content, prev_hash) == Append(prev_hash, content)

\* The last of a set of rows by number, and the hash a successor continues.
IsSome(r, rows) == r \in rows   \* variant
IsLast(r, rows) == r \in rows /\ \A q \in rows : q.seq <= r.seq
HeadHash(rows) ==
    IF rows = {} THEN GENESIS ELSE (CHOOSE r \in rows : IsLast(r, rows)).hash

\* A transaction: "open" holds the advisory lock, "head" has read its
\* predecessor and holds _append_lock.
Writer == [at : {"idle", "open", "head"}, prev : Seq(Contents), mine : SUBSET Record]
NoWriter == [at |-> "idle", prev |-> GENESIS, mine |-> {}]

AnchorEntry == [seq : Numbers, hash : Seq(Contents), at : Nat]
NoAnchor == [seq |-> 0, hash |-> GENESIS, at |-> 0]
Check == [at : {"idle", "rows"}, rows : SUBSET Record, answer : BOOLEAN]

\* Somebody else holds the advisory lock, _append_lock of the process, or the
\* right to write: an insertion that is not committed makes others wait.
LockedNever(w) == FALSE   \* variant
Locked(w) == \E x \in Writers \ {w} : tx[x].at # "idle"
ProcessLocked(w) == \E x \in Writers \ {w} : Process[x] = Process[w] /\ tx[x].at = "head"
Written(w) == \E x \in Writers \ {w} : tx[x].mine # {}

\* prev_hash has a unique constraint.
TakenNever(w) == FALSE   \* variant
Taken(w) == \E r \in records \cup tx[w].mine : r.prev_hash = tx[w].prev

\* verify_chain: by number, each row continues the one before it and its hash
\* covers its content.
VerifiesLinksOnly(rows) ==   \* variant
    \A r \in rows : r.prev_hash = HeadHash({q \in rows : q.seq < r.seq})
Verifies(rows) ==
    \A r \in rows :
        /\ r.prev_hash = HeadHash({q \in rows : q.seq < r.seq})
        /\ r.hash = RecordHash(r.content, r.prev_hash)

\* verify_anchors: entries in order of number and time, each one's hash that of
\* the row with its number.
InOrder(log) ==
    \A i, j \in DOMAIN log : i < j => log[i].seq <= log[j].seq /\ log[i].at <= log[j].at
MatchesNumber(rows, e) == \E r \in rows : r.seq = e.seq   \* variant
Matches(rows, e) == \E r \in rows : r.seq = e.seq /\ r.hash = e.hash
AnchorsVerify(rows, log) == InOrder(log) /\ \A i \in DOMAIN log : Matches(rows, log[i])

-----------------------------------------------------------------------------
Init ==
    /\ dialect \in Dialects
    /\ records = {}
    /\ drawn = 0
    /\ edited = "nothing"
    /\ tx = [w \in Writers |-> NoWriter]
    /\ file = <<>>
    /\ clock = 0
    /\ anchor = [k \in Anchorers |-> NoAnchor]
    /\ check = [v \in Verifiers |-> [at |-> "idle", rows |-> {}, answer |-> TRUE]]

\* append: pg_advisory_xact_lock, kept until the transaction ends.
TakeLock(w) ==
    /\ tx[w].at = "idle"
    /\ dialect = "postgresql" => ~Locked(w)
    /\ tx' = [tx EXCEPT ![w].at = "open"]
    /\ UNCHANGED <<records, drawn, edited, anchors>>

\* append, under _append_lock: the last record this transaction can see.
ReadHead(w) ==
    /\ tx[w].at = "open"
    /\ drawn < MaxRecords
    /\ ~ProcessLocked(w)
    /\ tx' = [tx EXCEPT ![w].at = "head", ![w].prev = HeadHash(records \cup tx[w].mine)]
    /\ UNCHANGED <<records, drawn, edited, anchors>>

\* append: the record is inserted; it waits for other insertions, and fails if
\* one of them took its predecessor.
Insert(w) ==
    /\ tx[w].at = "head"
    /\ drawn < MaxRecords
    /\ ~Written(w)
    /\ ~Taken(w)
    /\ drawn' = drawn + 1
    /\ LET r == [seq |-> drawn', content |-> drawn', prev_hash |-> tx[w].prev,
                 hash |-> RecordHash(drawn', tx[w].prev)]
       IN  tx' = [tx EXCEPT ![w].at = "open", ![w].mine = @ \cup {r}]
    /\ UNCHANGED <<records, edited, anchors>>

\* The handler commits.
Commit(w) ==
    /\ tx[w].at = "open" /\ tx[w].mine # {}
    /\ records' = records \cup tx[w].mine
    /\ tx' = [tx EXCEPT ![w] = NoWriter]
    /\ UNCHANGED <<drawn, edited, anchors>>

\* The transaction is rolled back: the constraint, SQLite's busy timeout, any
\* other exception, or the death of the process.
RollBack(w) ==
    /\ tx[w].at # "idle"
    /\ tx' = [tx EXCEPT ![w] = NoWriter]
    /\ UNCHANGED <<records, drawn, edited, anchors>>

\* Somebody changes a row outside the program ...
Edit(r) ==
    /\ edited = "nothing"
    /\ edited' = "row"
    /\ records' = (records \ {r}) \cup {[r EXCEPT !.content = 0]}
    /\ UNCHANGED <<drawn, tx, anchors>>

\* ... or a row and every hash that covers it.
Recompute(r) ==
    /\ edited = "nothing"
    /\ edited' = "chain"
    /\ LET Redone(hash) == IF Len(hash) < Len(r.hash) THEN hash
                           ELSE [hash EXCEPT ![Len(r.hash)] = 0]
       IN  records' = {[q EXCEPT !.content = IF q = r THEN 0 ELSE @,
                                 !.prev_hash = Redone(@), !.hash = Redone(@)] : q \in records}
    /\ UNCHANGED <<drawn, tx, anchors>>

\* Variant: the head includes rows that are not committed.
TakeHeadDirty(k) ==
    LET rows == records \cup UNION {tx[w].mine : w \in Writers}
    IN  /\ anchor[k] = NoAnchor
        /\ clock < MaxAnchors
        /\ \E r \in rows :
              /\ IsLast(r, rows)
              /\ anchor' = [anchor EXCEPT ![k] = [NoAnchor EXCEPT !.seq = r.seq, !.hash = r.hash]]
        /\ UNCHANGED <<chain, file, clock, check>>

\* anchor_chain reads the head ...
TakeHead(k) ==
    /\ anchor[k] = NoAnchor
    /\ clock < MaxAnchors
    /\ \E r \in records :
          /\ IsLast(r, records)
          /\ anchor' = [anchor EXCEPT ![k] = [NoAnchor EXCEPT !.seq = r.seq, !.hash = r.hash]]
    /\ UNCHANGED <<chain, file, clock, check>>

\* ... then the clock ...
Stamp(k) ==
    /\ anchor[k].seq # 0 /\ anchor[k].at = 0
    /\ clock < MaxAnchors
    /\ clock' = clock + 1
    /\ anchor' = [anchor EXCEPT ![k].at = clock']
    /\ UNCHANGED <<chain, file, check>>

\* ... and appends a line to the file.
Write(k) ==
    /\ anchor[k].at # 0
    /\ file' = Append(file, anchor[k])
    /\ anchor' = [anchor EXCEPT ![k] = NoAnchor]
    /\ UNCHANGED <<chain, clock, check>>

\* verify_anchors reads the rows ...
ReadRows(v) ==
    /\ check[v].at = "idle"
    /\ file # <<>>
    /\ check' = [check EXCEPT ![v].at = "rows", ![v].rows = records]
    /\ UNCHANGED <<chain, file, clock, anchor>>

\* ... then the file, and compares.
Compare(v) ==
    /\ check[v].at = "rows"
    /\ check' = [check EXCEPT ![v] = [at |-> "idle", rows |-> {},
                                      answer |-> AnchorsVerify(check[v].rows, file)]]
    /\ UNCHANGED <<chain, file, clock, anchor>>

Next ==
    /\ \/ \E w \in Writers : TakeLock(w) \/ ReadHead(w) \/ Insert(w) \/ Commit(w) \/ RollBack(w)
       \/ \E r \in records : Edit(r) \/ Recompute(r)
       \/ \E k \in Anchorers : TakeHead(k) \/ Stamp(k) \/ Write(k)
       \/ \E v \in Verifiers : ReadRows(v) \/ Compare(v)
    /\ UNCHANGED dialect

Spec == Init /\ [][Next]_vars

-----------------------------------------------------------------------------
(* Properties *)

\* The rows, the locals and the file keep their types.
TypeOK ==
    /\ dialect \in Dialects
    /\ records \subseteq Record
    /\ drawn \in Contents
    /\ edited \in {"nothing", "row", "chain"}
    /\ tx \in [Writers -> Writer]
    /\ file \in Seq(AnchorEntry)
    /\ clock \in Nat
    /\ anchor \in [Anchorers -> AnchorEntry \cup {NoAnchor}]
    /\ check \in [Verifiers -> Check]

\* verify_chain tells edits from concurrency: whatever transactions interleave,
\* end or die, the committed records are one chain, and after a row was edited
\* they never pass for one again, whatever is appended (audit.py 3-5, 93-100).
VerifiesUnlessEdited ==
    edited \in {"nothing", "row"} => (Verifies(records) <=> edited = "nothing")

\* What the log says is only ever added to: the hash of its head covers all
\* that was committed before (audit.py 72-90).
HistoryGrows ==
    [][edited' # "chain" =>
       LET was == HeadHash(records)
           is == HeadHash(records')
       IN  Len(was) <= Len(is) /\ was = SubSeq(is, 1, Len(was))]_records

\* On PostgreSQL the advisory lock is enough: no writer that has read its
\* predecessor finds it taken, so no transaction is lost to a race (audit.py 75-78).
NobodyLosesTheRace ==
    dialect = "postgresql" => \A w \in Writers : tx[w].at = "head" => ~Taken(w) /\ ~Written(w)

\* An anchor is a committed head and stays in the chain, so the rows that a
\* call of verify_anchors read, however long ago, have every anchor in the file
\* but the newer ones: it complains of a rewritten chain only of those
\* (audit.py 123-147, 156-205).
OnlyNewAnchorsAreMissed ==
    \A v \in Verifiers, i \in DOMAIN file :
        check[v].at = "rows" /\ edited # "chain" =>
            Matches(check[v].rows, file[i]) \/ \A r \in check[v].rows : r.seq < file[i].seq

\* What anchors are for: a chain that was recomputed from a row on never passes
\* both verifications once the file has an anchor of that row or a later one that
\* covers the old content.  verify_anchors alone is not enough: an append that was
\* under way may continue the old chain (audit.py 93-109, 149-151).
Covers(e, r) == r.seq <= e.seq /\ \A n \in DOMAIN e.hash : e.hash[n] # r.content
RecomputedChainsAreCaught ==
    \A v \in Verifiers, i \in DOMAIN file :
        edited = "chain" /\ (\E r \in check[v].rows : r.content = 0 /\ Covers(file[i], r)) =>
            ~Verifies(check[v].rows) \/ ~AnchorsVerify(check[v].rows, file)
=============================================================================
