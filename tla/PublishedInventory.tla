-------------------------- MODULE PublishedInventory --------------------------
(***************************************************************************)
(* What connector synchronisation promises, with no transactions, rows or  *)
(* generations: each source's messages take effect one at a time, in       *)
(* sequence, each exactly once and whole; a snapshot is invisible until it *)
(* completes and then replaces everything; and a source publishes only     *)
(* what its manifest entitles it to.                                       *)
(***************************************************************************)
EXTENDS SyncMessages

VARIABLES
    last,      \* last[s]: sequence number of the last message that took effect
    accepted,  \* accepted[s]: the messages that took effect
    open,      \* open[s]: the snapshot under way
    staged,    \* staged[s]: what that snapshot has said so far
    live       \* live[s]: the published inventory

vars == <<last, accepted, open, staged, live>>

Init ==
    /\ last = [s \in Sources |-> 0]
    /\ accepted = [s \in Sources |-> {}]
    /\ open = [s \in Sources |-> None]
    /\ staged = [s \in Sources |-> Empty]
    /\ live = [s \in Sources |-> Empty]

\* The next message of source s takes effect.
Accept(s, m) ==
    /\ m.seq = last[s] + 1
    /\ Entitled(s, m)
    /\ last' = [last EXCEPT ![s] = m.seq]
    /\ accepted' = [accepted EXCEPT ![s] = @ \cup {m}]

Begin(s, m) ==
    /\ m.op = "begin" /\ open[s] = None
    /\ Accept(s, m)
    /\ open' = [open EXCEPT ![s] = m.snap]
    /\ UNCHANGED <<staged, live>>

Page(s, m) ==
    /\ m.op = "page" /\ open[s] = m.snap
    /\ NotOlder(staged[s], m.puts)
    /\ Accept(s, m)
    /\ staged' = [staged EXCEPT ![s] = Upsert(@, m.puts)]
    /\ UNCHANGED <<open, live>>

Complete(s, m) ==
    /\ m.op = "complete" /\ open[s] = m.snap /\ m.complete
    /\ Accept(s, m)
    /\ live' = [live EXCEPT ![s] = staged[s]]
    /\ staged' = [staged EXCEPT ![s] = Empty]
    /\ open' = [open EXCEPT ![s] = None]

Abort(s, m) ==
    /\ m.op = "abort" /\ open[s] = m.snap
    /\ Accept(s, m)
    /\ staged' = [staged EXCEPT ![s] = Empty]
    /\ open' = [open EXCEPT ![s] = None]
    /\ UNCHANGED live

Delta(s, m) ==
    /\ m.op = "delta" /\ open[s] = None
    /\ NotOlder(Retract(live[s], m.tombs), m.puts)
    /\ Accept(s, m)
    /\ live' = [live EXCEPT ![s] = Upsert(Retract(@, m.tombs), m.puts)]
    /\ UNCHANGED <<open, staged>>

Next == \E s \in Sources : \E m \in Traffic :
    Begin(s, m) \/ Page(s, m) \/ Complete(s, m) \/ Abort(s, m) \/ Delta(s, m)

Spec == Init /\ [][Next]_vars
=============================================================================
