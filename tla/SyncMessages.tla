----------------------------- MODULE SyncMessages -----------------------------
(***************************************************************************)
(* The connector protocol's data: what a collector may say about its       *)
(* source (contracts.py) and what a registered manifest lets it say        *)
(* (sync.py, _validate_fact).  A fact is named by the key the code derives *)
(* from its references; of its payload only the observation time and       *)
(* whether it is a plain, unconditional allow are kept.                    *)
(***************************************************************************)
EXTENDS Naturals

CONSTANTS
    Sources,        \* registered relationship sources of one tenant
    Objects,        \* keys of objects
    Relationships,  \* keys of relationships
    Home,           \* Home[o]: the source an object's reference names
    Ends,           \* Ends[r]: subject and target of a relationship
    Foreign,        \* Foreign[s]: sources whose objects s may refer to
    Capabilities,   \* Capabilities[s]: what the manifest of s allows it to send
    SnapshotIds,    \* snapshot identifiers collectors choose
    Traffic,        \* the messages collectors send in this instance
    None

Keys == Objects \cup Relationships

ASSUME KeysAssumption ==
    /\ Objects \cap Relationships = {}
    /\ Home \in [Objects -> Sources]
    /\ Ends \in [Relationships -> SUBSET Objects]
    /\ Foreign \in [Sources -> SUBSET Sources]
    /\ Capabilities \in [Sources -> SUBSET {"changes", "snapshot"}]

Evidence == [at : Nat, plain : BOOLEAN]

\* What one generation of a source says: its fact for each key, if any.
Inventory == [Keys -> Evidence \cup {None}]

\* None is neither a snapshot's name, nor a piece of evidence, nor an inventory.
ASSUME AbsentAssumption ==
    None \notin SnapshotIds /\ None \notin Evidence /\ None \notin Inventory
Empty == [k \in Keys |-> None]

Operations == {"begin", "page", "complete", "abort", "delta"}

Message == [seq : Nat, op : Operations, snap : SnapshotIds \cup {None},
            puts : Inventory, tombs : SUBSET Keys, complete : BOOLEAN]

\* SyncMessage.shape
WellFormed(m) ==
    /\ m.seq >= 1
    /\ (m.op = "delta") <=> (m.snap = None)
    /\ m.op \in {"begin", "complete", "abort"} => m.puts = Empty
    /\ m.op # "delta" => m.tombs = {}

ASSUME TrafficAssumption ==
    /\ Traffic \subseteq Message
    /\ \A m \in Traffic : WellFormed(m)

\* _validate_fact: a source speaks of its own objects, and of relationships
\* whose ends are its own or belong to a source its manifest names.
MayAssert(s, k) ==
    /\ k \in Objects => Home[k] = s
    /\ k \in Relationships => \A o \in Ends[k] : Home[o] \in Foreign[s] \cup {s}

Entitled(s, m) ==
    /\ (IF m.op = "delta" THEN "changes" ELSE "snapshot") \in Capabilities[s]
    /\ \A k \in Keys : m.puts[k] # None => MayAssert(s, k)

\* _upsert_fact refuses evidence observed before what the generation holds.
NotOlder(inv, puts) ==
    \A k \in Keys : inv[k] # None /\ puts[k] # None => puts[k].at >= inv[k].at

Retract(inv, keys) == [k \in Keys |-> IF k \in keys THEN None ELSE inv[k]]
Upsert(inv, puts) == [k \in Keys |-> IF puts[k] # None THEN puts[k] ELSE inv[k]]
=============================================================================
