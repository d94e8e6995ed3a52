----------------------------- MODULE SyncDelivery -----------------------------
(***************************************************************************)
(* Both sides of connector synchronisation: a collector that scans an      *)
(* Entra directory (entra.py) and sends what it reads as one snapshot      *)
(* (sdk.py, collect_snapshot) with SyncClient.send (client.py), and the    *)
(* handler of ConnectorSync that takes its messages.                       *)
(*                                                                         *)
(* In between is a network: an attempt may never arrive, or arrive and its *)
(* answer be lost, and the handler of an attempt the client gave up on     *)
(* goes on.  The collector may die at any time.  As client.py:1 and        *)
(* sdk.py:37 ask of it, it durably keeps the number last acknowledged, the *)
(* snapshot it has open and the message not yet acknowledged; the scan is  *)
(* in memory.                                                              *)
(***************************************************************************)
EXTENDS ConnectorSync

CONSTANTS
    Groups,     \* the objects that are groups; the others are users
    GroupOf,    \* GroupOf[r]: the group a membership r is of
    Attempts,   \* how often one call of send tries: range(4)
    MaxChanges, \* bound: changes of the directory
    MaxFaults   \* bound: attempts, scans, collectors and handlers that fail

Users == Objects \ Groups
Member(r) == Ends[r] \ {GroupOf[r]}

ASSUME DirectoryAssumption ==
    /\ Groups \subseteq Objects
    /\ {"users", "groups"} \cap Groups = {}   \* scan[s].read holds both kinds of name
    /\ GroupOf \in [Relationships -> Groups]
    /\ \A r \in Relationships : GroupOf[r] \in Ends[r]
    /\ Attempts \in Nat \ {0}
    /\ MaxChanges \in Nat /\ MaxFaults \in Nat
    /\ None \notin Deliveries \cup Traffic

VARIABLES
    directory,  \* the directory: the state of each object, the memberships,
                \* and how often it has changed
    scan,       \* scan[s]: how far the generator is, in the collector's memory
    notes,      \* notes[s]: what the collector keeps durably
    call,       \* call[s]: the call of send under way
    scanned,    \* scanned[g]: what the run named g has read (history)
    faults,     \* how often something has failed
    outdated    \* runs since whose beginning the directory changed (history)

remote == <<directory, scanned, outdated>>
world == <<remote, faults>>
collector == <<scan, notes, call>>
allVars == <<vars, world, collector>>

Accounts == {"absent", "enabled", "disabled"}
NoScan == [snap |-> None, read |-> {}, users |-> {}, disabled |-> {}, groups |-> {}]
NoCall == [attempt |-> 0, line |-> None]
Fresh == [acked |-> 0, open |-> None, outbox |-> None]

Observed == [at |-> 1, plain |-> TRUE]
Says(keys) == [k \in Keys |-> IF k \in keys THEN Observed ELSE None]

\* Groups are not disabled, and memberships go with their ends.
Directory ==
    {dir \in [account : [Objects -> Accounts], links : SUBSET Relationships,
              changes : 0 .. MaxChanges] :
        /\ \A o \in Groups : dir.account[o] # "disabled"
        /\ \A r \in dir.links : \A o \in Ends[r] : dir.account[o] # "absent"}

\* Where an instance starts: groups without members.
NewDirectory ==
    [account |-> [o \in Objects |-> IF o \in Groups THEN "enabled" ELSE "absent"],
     links |-> {}, changes |-> 0]

\* The message that follows the last one acknowledged.
Following(s, op, g, puts, complete) ==
    [seq |-> notes[s].acked + 1, op |-> op, snap |-> g, puts |-> puts, tombs |-> {},
     complete |-> complete]

InitDelivery ==
    /\ Init
    /\ directory = NewDirectory
    /\ scan = [s \in Sources |-> NoScan]
    /\ notes = [s \in Sources |-> Fresh]
    /\ call = [s \in Sources |-> NoCall]
    /\ scanned = [g \in SnapshotIds |-> None]
    /\ outdated = {}
    /\ faults = 0

\* Something fails.
Fault == faults < MaxFaults /\ faults' = faults + 1

-----------------------------------------------------------------------------
(* The directory *)

\* An account or group comes, goes, is disabled or enabled, or a membership
\* is made or ended.
ChangeDirectory ==
    /\ directory' \in Directory
    /\ directory'.changes = directory.changes + 1
    /\ outdated' = outdated \cup {g \in SnapshotIds : scanned[g] # None}
    /\ UNCHANGED <<vars, collector, scanned, faults>>

-----------------------------------------------------------------------------
(* The collector: the next message is made once the last is acknowledged *)

Ready(s) == notes[s].outbox = None /\ connector[s].registered
Retain(s, m) == notes' = [notes EXCEPT ![s].outbox = m]

\* A name no run has had (uuid4); the names may run out.
NamesLeft == \E g \in SnapshotIds : scanned[g] = None
Unused == CHOOSE g \in SnapshotIds : scanned[g] = None

\* A run begins, under a new name.
BeginRun(s, g) ==
    /\ Ready(s) /\ scan[s] = NoScan /\ notes[s].open = None
    /\ NamesLeft /\ g = Unused
    /\ scan' = [scan EXCEPT ![s].snap = g]
    /\ Retain(s, Following(s, "begin", g, Empty, FALSE))
    /\ scanned' = [scanned EXCEPT ![g] = Empty]
    /\ UNCHANGED <<vars, directory, outdated, faults, call>>

\* A page with facts about these keys.
Yield(s, keys) ==
    /\ Retain(s, Following(s, "page", scan[s].snap, Says(keys), FALSE))
    /\ scanned' = [scanned EXCEPT ![scan[s].snap] = Upsert(@, Says(keys))]
    /\ UNCHANGED <<vars, directory, outdated, faults, call>>

Scanning(s) == Ready(s) /\ scan[s] # NoScan

In(state) == {o \in Users : directory.account[o] = state}

\* Users come first; the disabled ones are remembered and not sent.
ReadUsers(s) ==
    /\ Scanning(s) /\ "users" \notin scan[s].read
    /\ scan' = [scan EXCEPT ![s].read = @ \cup {"users"},
                            ![s].users = In("enabled"), ![s].disabled = In("disabled")]
    /\ Yield(s, In("enabled"))

ReadGroups(s) ==
    LET groups == {o \in Groups : directory.account[o] # "absent"}
    IN  /\ Scanning(s) /\ "users" \in scan[s].read /\ "groups" \notin scan[s].read
        /\ scan' = [scan EXCEPT ![s].read = @ \cup {"groups"}, ![s].groups = groups]
        /\ Yield(s, groups)

\* The memberships of g now, but for those of disabled users.
Memberships(s, g) ==
    {r \in directory.links : GroupOf[r] = g /\ Member(r) \cap scan[s].disabled = {}}

KnownOrNew(s, r) == TRUE   \* variant: a member not listed before is accepted
Known(s, r) == Member(r) \subseteq scan[s].users \cup scan[s].groups

ReadMembers(s, g) ==
    /\ Scanning(s) /\ "groups" \in scan[s].read
    /\ g \in scan[s].groups \ scan[s].read
    /\ directory.account[g] # "absent"
    /\ \A r \in Memberships(s, g) : Known(s, r)
    /\ scan' = [scan EXCEPT ![s].read = @ \cup {g}]
    /\ Yield(s, Memberships(s, g))

\* The group is gone, or a member was not listed.
Contradicted(s) ==
    /\ "groups" \in scan[s].read
    /\ \E g \in scan[s].groups \ scan[s].read :
         directory.account[g] = "absent" \/ \E r \in Memberships(s, g) : ~Known(s, r)

\* The generator raises: "directory changed during scan; retry snapshot", or a
\* request failed.
ScanFails(s) ==
    /\ Scanning(s)
    /\ (Contradicted(s) /\ UNCHANGED faults) \/ Fault
    /\ scan' = [scan EXCEPT ![s] = NoScan]
    /\ UNCHANGED <<vars, remote, notes, call>>

SomeRead(s) == "users" \in scan[s].read   \* variant: pages left unread
AllRead(s) == {"users", "groups"} \cup scan[s].groups \subseteq scan[s].read

\* The generator is exhausted and collect_snapshot says so.
CompleteRun(s) ==
    /\ Scanning(s) /\ AllRead(s)
    /\ Retain(s, Following(s, "complete", scan[s].snap, Empty, TRUE))
    /\ scan' = [scan EXCEPT ![s] = NoScan]
    /\ UNCHANGED <<vars, world, call>>

\* An interrupted run is aborted before the next one.
AbortRun(s) ==
    /\ Ready(s) /\ scan[s] = NoScan /\ notes[s].open # None
    /\ Retain(s, Following(s, "abort", notes[s].open, Empty, FALSE))
    /\ UNCHANGED <<vars, world, scan, call>>

\* Variant: the message not yet acknowledged is not kept.
CollectorForgets(s) ==
    /\ Fault
    /\ scan[s] # NoScan \/ call[s] # NoCall
    /\ scan' = [scan EXCEPT ![s] = NoScan]
    /\ call' = [call EXCEPT ![s] = NoCall]
    /\ notes' = [notes EXCEPT ![s].outbox = None]
    /\ UNCHANGED <<vars, remote>>

CollectorDies(s) ==
    /\ Fault
    /\ scan[s] # NoScan \/ call[s] # NoCall
    /\ scan' = [scan EXCEPT ![s] = NoScan]
    /\ call' = [call EXCEPT ![s] = NoCall]
    /\ UNCHANGED <<vars, remote, notes>>

-----------------------------------------------------------------------------
(* SyncClient.send and the network *)

\* send is called, the first time or again after a DeliveryError.
Send(s) ==
    /\ notes[s].outbox # None /\ call[s] = NoCall
    /\ call' = [call EXCEPT ![s].attempt = 1]
    /\ UNCHANGED <<vars, world, scan, notes>>

\* The request reaches a handler, whichever is free, that finds no receipt.
Arrive(s) ==
    /\ call[s].attempt > 0 /\ call[s].line = None
    /\ \E d \in Deliveries : job[d] = Idle
    /\ LET d == CHOOSE e \in Deliveries : job[e] = Idle
       IN  Receive(d, s, notes[s].outbox) /\ call' = [call EXCEPT ![s].line = d]
    /\ UNCHANGED <<world, scan, notes>>

\* A transport error, or 429, 502, 503 or 504: the next attempt, or the end of
\* the call.  A handler that has the request goes on.
Unanswered(s) ==
    /\ Fault
    /\ call[s].attempt > 0
    /\ call' = [call EXCEPT ![s] = IF @.attempt < Attempts
                                   THEN [attempt |-> @.attempt + 1, line |-> None] ELSE NoCall]
    /\ UNCHANGED <<vars, remote, scan, notes>>

\* The acknowledgement matches the message, and the collector notes it.
Acknowledged(s) ==
    /\ notes' = [notes EXCEPT ![s] =
         [acked |-> @.outbox.seq, open |-> OpenAfter(@.outbox), outbox |-> None]]
    /\ call' = [call EXCEPT ![s] = NoCall]

\* Variant: a number that was used is a gap, whatever the message.
RefuseRepeated(s) ==
    /\ call[s].attempt > 0 /\ call[s].line = None
    /\ Receipted(s, notes[s].outbox.seq)
    /\ call' = [call EXCEPT ![s] = NoCall] /\ UNCHANGED notes
    /\ UNCHANGED <<vars, world, scan>>

\* The number has a receipt: acknowledged if it is of the same message, and
\* otherwise refused, which ends the call.
AnswerFromReceipt(s) ==
    /\ call[s].attempt > 0 /\ call[s].line = None
    /\ Receipted(s, notes[s].outbox.seq)
    /\ IF notes[s].outbox \in receipts[s]
       THEN Acknowledged(s)
       ELSE call' = [call EXCEPT ![s] = NoCall] /\ UNCHANGED notes
    /\ UNCHANGED <<vars, world, scan>>

\* Whose client still waits for delivery d.
Connected(d) == {s \in Sources : call[s].line = d}
HangUp(d) == call' = [s \in Sources |-> IF s \in Connected(d) THEN NoCall ELSE call[s]]

\* The handler's steps.  Its answer is the commit or the refusal; an answer
\* that is lost is an attempt Unanswered before it.
Read(d) == ReadState(d) /\ UNCHANGED <<world, collector>>
Write(d) == Apply(d) /\ UNCHANGED <<world, collector>>

Answer(d) ==
    /\ Commit(d)
    /\ IF Connected(d) = {} THEN UNCHANGED <<notes, call>>
       ELSE \E s \in Connected(d) : Acknowledged(s)
    /\ UNCHANGED <<world, scan>>

Reject(d) == Refuse(d) /\ HangUp(d) /\ UNCHANGED <<world, scan, notes>>

\* HTTP 500, or nothing if the client no longer waits.
HandlerDies(d) == Fault /\ Fail(d) /\ HangUp(d) /\ UNCHANGED <<remote, scan, notes>>

Administer(s) == Register(s) /\ UNCHANGED <<world, collector>>

ReadNext(s) == ReadUsers(s) \/ ReadGroups(s) \/ \E g \in Groups : ReadMembers(s, g)
Collect(s) == (\E g \in SnapshotIds : BeginRun(s, g)) \/ ReadNext(s) \/ CompleteRun(s) \/ AbortRun(s)

NextDelivery ==
    \/ ChangeDirectory
    \/ \E s \in Sources :
         \/ Administer(s) \/ Collect(s) \/ ScanFails(s) \/ CollectorDies(s)
         \/ Send(s) \/ Arrive(s) \/ Unanswered(s) \/ AnswerFromReceipt(s)
    \/ \E d \in Deliveries : Read(d) \/ Write(d) \/ Answer(d) \/ Reject(d) \/ HandlerDies(d)

DeliverySpec == InitDelivery /\ [][NextDelivery]_allVars

\* The collector, one process, goes on with what it has begun; the network
\* carries what it does not lose; handlers run.  New runs are not owed: they
\* are the operator's.
GoOn(s) == ReadNext(s) \/ ScanFails(s) \/ CompleteRun(s) \/ AbortRun(s) \/ Send(s)
Carry(s) == Arrive(s) \/ AnswerFromReceipt(s)
Handle(d) == Read(d) \/ Write(d) \/ Answer(d) \/ Reject(d)

FairDelivery ==
    /\ DeliverySpec
    /\ \A s \in Sources : WF_allVars(GoOn(s)) /\ WF_allVars(Carry(s))
    /\ \A d \in Deliveries : WF_allVars(Handle(d))

-----------------------------------------------------------------------------
(* Properties *)

\* What the collector keeps has its type, and a call has a message.
DeliveryTypeOK ==
    /\ TypeOK
    /\ directory \in Directory
    /\ notes \in [Sources -> [acked : Nat, open : SnapshotIds \cup {None},
                              outbox : Traffic \cup {None}]]
    /\ call \in [Sources -> [attempt : 0 .. Attempts, line : Deliveries \cup {None}]]
    /\ \A s \in Sources : call[s] # NoCall => notes[s].outbox # None

\* Whatever is lost, repeated or interrupted, the collector is never in doubt
\* about more than the message it retains: the server is where the collector
\* believes it is, or one further because exactly that message took effect
\* (client.py:49, "retain identical message for replay").
OnlyTheRetainedIsInDoubt ==
    \A s \in Sources :
        LET n == notes[s] IN
        \/ connector[s].seq = n.acked /\ connector[s].open = n.open
        \/ connector[s].seq = n.acked + 1 /\ n.outbox \in receipts[s]
           /\ n.outbox.seq = connector[s].seq

\* The last run the server completed.
Completed(s) == {m \in receipts[s] : m.op = "complete"}
LastCompleted(s) == CHOOSE m \in Completed(s) : \A n \in Completed(s) : n.seq <= m.seq

\* What is published is what one run read, all of it, and nothing of the runs
\* that were interrupted (sdk.py:35).
PublishedIsOneRun ==
    \A s \in Sources :
        facts[s]["live"] = IF Completed(s) = {} THEN Empty
                           ELSE scanned[LastCompleted(s).snap]

\* The objects and memberships the directory has, without disabled users.
Current ==
    LET there == {o \in Objects : directory.account[o] = "enabled"}
    IN  Says(there \cup {r \in directory.links : Ends[r] \subseteq there})

\* From end to end: if the directory has not changed since the published run
\* began, then what is published is the directory as it is, whatever happened
\* to messages, handlers and collectors on the way.
AnUndisturbedRunIsExact ==
    \A s \in Sources :
        Completed(s) # {} /\ LastCompleted(s).snap \notin outdated
            => facts[s]["live"] = Current

\* A directory that changes during the scan may make the run a mixture, but
\* never one with a membership whose member or group is not published with it
\* (entra.py:119).
MembershipsHaveEnds ==
    \A s \in Sources : \A r \in Relationships :
        facts[s]["live"][r] # None => Ends[r] \subseteq NodesOf(facts[s]["live"])

\* What the collector has begun is settled at last: the message it retains is
\* acknowledged, also if a handler it no longer listens to has applied it or a
\* retry was refused, and no run stays open for ever and keeps the source from
\* being published: it is completed, or aborted if its collector died
\* (client.py:49, sdk.py:38).
CollectorsProgress ==
    \A s \in Sources :
        notes[s].outbox # None \/ connector[s].open # None
            ~> notes[s].outbox = None /\ connector[s].open = None
=============================================================================
