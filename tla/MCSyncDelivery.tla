--------------------------- MODULE MCSyncDelivery ---------------------------
(* An instance of SyncDelivery for TLC: one directory with a user, a group   *)
(* and the user's membership.                                                *)
EXTENDS SyncDelivery

CONSTANTS entra, user, group, member,
          MaxSeq   \* bound: messages of a source

MCHome == [o \in Objects |-> entra]
MCEnds == [r \in Relationships |-> {user, group}]
MCGroupOf == [r \in Relationships |-> group]
MCForeign == [s \in Sources |-> {}]
SnapshotOnly == [s \in Sources |-> {"snapshot"}]

MCTraffic ==
    [seq : 1 .. MaxSeq, op : {"begin", "abort"}, snap : SnapshotIds, puts : {Empty},
     tombs : {{}}, complete : {FALSE}]
    \cup [seq : 1 .. MaxSeq, op : {"complete"}, snap : SnapshotIds, puts : {Empty},
          tombs : {{}}, complete : {TRUE}]
    \cup [seq : 1 .. MaxSeq, op : {"page"}, snap : SnapshotIds,
          puts : {Says(keys) : keys \in SUBSET Keys}, tombs : {{}}, complete : {FALSE}]
=============================================================================
