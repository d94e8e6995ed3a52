-------------------------- MODULE SyncDeliveryProofs --------------------------
(***************************************************************************)
(* Proofs about SyncDelivery, for any sources, directories, numbers of     *)
(* attempts, deliveries and faults.  Traffic is a parameter of the server: *)
(* here it has to contain what collectors say.                             *)
(***************************************************************************)
EXTENDS SyncDelivery, ConnectorSyncProofs

\* The messages of a run, under any number and name.
Line(n, op, g, puts, complete) ==
    [seq |-> n, op |-> op, snap |-> g, puts |-> puts, tombs |-> {}, complete |-> complete]
TrafficSuffices ==
    \A n \in Nat \ {0}, g \in SnapshotIds :
        /\ Line(n, "begin", g, Empty, FALSE) \in Traffic
        /\ Line(n, "complete", g, Empty, TRUE) \in Traffic
        /\ Line(n, "abort", g, Empty, FALSE) \in Traffic
        /\ \A keys \in SUBSET Keys : Line(n, "page", g, Says(keys), FALSE) \in Traffic

-----------------------------------------------------------------------------
(* The inductive invariant *)

Note == [acked : Nat, open : SnapshotIds \cup {None}, outbox : Traffic \cup {None}]
CallState == [attempt : 0 .. Attempts, line : Deliveries \cup {None}]
ScanState ==
    [snap : SnapshotIds \cup {None}, read : SUBSET ({"users", "groups"} \cup Groups),
     users : SUBSET Users, disabled : SUBSET Users, groups : SUBSET Groups]

\* A scan that is under way has a name.
ScansHaveNames ==
    /\ scan \in [Sources -> ScanState]
    /\ \A s \in Sources : scan[s] # NoScan => scan[s].snap \in SnapshotIds

\* What is retained is the message after the last acknowledged; handlers that
\* still run have that one, or an older one.
NoneIsAhead ==
    /\ \A s \in Sources : notes[s].outbox # None => notes[s].outbox.seq = notes[s].acked + 1
    /\ \A d \in Deliveries : job[d].at # "idle" =>
         LET n == notes[job[d].source]
         IN  /\ job[d].msg.seq <= n.acked + 1
             /\ job[d].msg.seq = n.acked + 1 => job[d].msg = n.outbox

\* The handler a client waits for has the message the client retains.
LinesHold ==
    \A s \in Sources : call[s].line # None =>
        LET d == call[s].line
        IN  /\ d \in Deliveries
            /\ job[d].at # "idle" /\ job[d].source = s /\ job[d].msg = notes[s].outbox

\* The server is where the collector believes, or one message further.
Level(row, n) == row.seq = n.acked /\ row.open = n.open
OneFurther(row, n, taken) ==
    /\ n.outbox # None /\ n.outbox \in taken
    /\ row.seq = n.acked + 1 /\ n.outbox.seq = row.seq /\ row.open = OpenAfter(n.outbox)
InStep ==
    \A s \in Sources :
        Level(connector[s], notes[s]) \/ OneFurther(connector[s], notes[s], receipts[s])

DInv == IInv /\ DeliveryTypeOK /\ ScansHaveNames /\ NoneIsAhead /\ LinesHold /\ InStep

LEMMA DeliveryTypes ==
    ASSUME DInv, NEW s \in Sources
    PROVE  /\ TypeOK /\ DeliveriesHaveMessages
           /\ directory \in Directory
           /\ notes \in [Sources -> Note] /\ notes[s] \in Note /\ notes[s].acked \in Nat
           /\ notes[s].open \in SnapshotIds \cup {None}
           /\ notes[s].outbox \in Traffic \cup {None}
           /\ call \in [Sources -> CallState] /\ call[s] \in CallState
           /\ call[s] # NoCall => notes[s].outbox # None
           /\ scan \in [Sources -> ScanState] /\ scan[s] \in ScanState
           /\ None \notin Traffic /\ None \notin Deliveries
           /\ receipts[s] \subseteq Traffic /\ connector[s].seq \in Nat
BY DirectoryAssumption
   DEF DInv, IInv, DeliveryTypeOK, Note, CallState, ScansHaveNames, TypeOK, ConnectorRow

LEMMA InitDInv == InitDelivery => DInv
<1> SUFFICES ASSUME InitDelivery PROVE DInv
    OBVIOUS
<1>1. IInv
    BY InitInvariant DEF InitDelivery
<1>2. Fresh \in Note /\ NoCall \in CallState /\ NoScan \in ScanState
    BY DirectoryAssumption DEF Fresh, Note, NoCall, CallState, NoScan, ScanState
<1>3. NewDirectory \in Directory
  <2>1. NewDirectory \in [account : [Objects -> Accounts], links : SUBSET Relationships,
                          changes : 0 .. MaxChanges]
    BY DirectoryAssumption DEF NewDirectory, Accounts
  <2>2. /\ \A o \in Groups : NewDirectory.account[o] # "disabled"
        /\ NewDirectory.links = {}
    BY DirectoryAssumption DEF NewDirectory
  <2>3. QED
    BY <2>1, <2>2 DEF Directory
<1>4. /\ \A s \in Sources : notes[s] = Fresh /\ call[s] = NoCall /\ scan[s] = NoScan
      /\ \A d \in Deliveries : job[d].at = "idle"
      /\ \A s \in Sources : connector[s].seq = 0 /\ connector[s].open = None
    BY DEF InitDelivery, Init, Idle, Unregistered
<1>5. DeliveryTypeOK
    BY <1>1, <1>2, <1>3, <1>4 DEF InitDelivery, DeliveryTypeOK, IInv, Note, CallState
<1>6. ScansHaveNames
    BY <1>2, <1>4 DEF InitDelivery, ScansHaveNames
<1>7. NoneIsAhead /\ LinesHold
    BY <1>4 DEF NoneIsAhead, LinesHold, Fresh, NoCall
<1>8. InStep
  <2>1. Fresh.acked = 0 /\ Fresh.open = None
    BY DEF Fresh
  <2>2. \A s \in Sources : Level(connector[s], notes[s])
    BY <1>4, <2>1 DEF Level
  <2>3. QED
    BY <2>2 DEF InStep
<1>9. QED
    BY <1>1, <1>5, <1>6, <1>7, <1>8 DEF DInv

-----------------------------------------------------------------------------
(* Steps of the directory and the collector: the server does not move *)

LEMMA ServerStands ==
    ASSUME DInv, UNCHANGED vars PROVE IInv'
BY StepInvariant DEF DInv

\* The collector's notes and calls stay.
LEMMA NotesStand ==
    ASSUME DInv, UNCHANGED <<vars, notes, call>>, directory' \in Directory, ScansHaveNames'
    PROVE  DInv'
<1>1. IInv'
    BY ServerStands
<1>2. DeliveryTypeOK'
    BY <1>1 DEF DInv, IInv, DeliveryTypeOK
<1>3. NoneIsAhead' /\ LinesHold' /\ InStep'
    BY DEF DInv, NoneIsAhead, LinesHold, InStep, vars
<1>4. QED
    BY <1>1, <1>2, <1>3 DEF DInv

LEMMA RetainStep ==
    ASSUME DInv, NEW s \in Sources, NEW m \in Traffic, m.seq = notes[s].acked + 1,
           notes[s].outbox = None, Retain(s, m), UNCHANGED <<vars, call, directory>>,
           ScansHaveNames'
    PROVE  DInv'
<1>1. IInv'
    BY ServerStands
<1>2. /\ notes' = [notes EXCEPT ![s] = [notes[s] EXCEPT !.outbox = m]]
      /\ notes[s] \in Note /\ notes \in [Sources -> Note]
    BY DeliveryTypes DEF Retain
<1> DEFINE n == [notes[s] EXCEPT !.outbox = m]
<1>3. /\ n \in Note /\ n.outbox = m /\ n.acked = notes[s].acked /\ n.open = notes[s].open
    BY <1>2 DEF Note
<1>4. notes'[s] = n /\ \A t \in Sources \ {s} : notes'[t] = notes[t]
    BY <1>2
<1>5. notes' \in [Sources -> Note]
    BY <1>2, <1>3
<1> HIDE DEF n
<1>6. m # None /\ call[s] = NoCall
    BY DeliveryTypes
<1>7. DeliveryTypeOK'
  <2>1. \A t \in Sources : call'[t] # NoCall => notes'[t].outbox # None
    BY <1>3, <1>4, <1>6 DEF DInv, DeliveryTypeOK
  <2>2. QED
    BY <1>1, <1>5, <2>1 DEF DInv, IInv, DeliveryTypeOK, Note
<1>8. NoneIsAhead'
  <2>1. ASSUME NEW d \in Deliveries, job[d].at # "idle", job[d].source = s
        PROVE  job[d].msg.seq <= n.acked + 1 /\ job[d].msg.seq # n.acked + 1
    <3>1. job[d].msg \in Traffic
      BY <2>1 DEF DInv, IInv, DeliveriesHaveMessages
    <3>2. QED
      BY <2>1, <3>1, <1>3, DeliveryTypes DEF DInv, NoneIsAhead
  <2>2. \A d \in Deliveries : job[d].at # "idle" => job[d].source \in Sources
    BY DEF DInv, IInv, DeliveriesHaveMessages
  <2>3. QED
    BY <2>1, <2>2, <1>3, <1>4 DEF DInv, NoneIsAhead, vars
<1>9. LinesHold'
    BY <1>4, <1>6 DEF DInv, LinesHold, NoCall, vars
<1>10. InStep'
    BY <1>3, <1>4 DEF DInv, InStep, Level, OneFurther, vars
<1>11. QED
    BY <1>1, <1>7, <1>8, <1>9, <1>10 DEF DInv

LEMMA CallStep ==
    ASSUME DInv, NEW s \in Sources, NEW c \in CallState, call' = [call EXCEPT ![s] = c],
           c.line = None, c # NoCall => notes[s].outbox # None,
           UNCHANGED <<vars, notes, directory>>, ScansHaveNames'
    PROVE  DInv'
<1>1. IInv'
    BY ServerStands
<1>2. /\ call'[s] = c /\ \A t \in Sources \ {s} : call'[t] = call[t]
      /\ call' \in [Sources -> CallState]
    BY DeliveryTypes
<1>3. DeliveryTypeOK'
  <2>1. \A t \in Sources : call'[t] # NoCall => notes[t].outbox # None
    BY <1>2 DEF DInv, DeliveryTypeOK
  <2>2. QED
    BY <1>1, <1>2, <2>1 DEF DInv, IInv, DeliveryTypeOK, CallState
<1>4. NoneIsAhead' /\ InStep'
    BY DEF DInv, NoneIsAhead, InStep, vars
<1>5. LinesHold'
    BY <1>2 DEF DInv, LinesHold, vars
<1>6. QED
    BY <1>1, <1>3, <1>4, <1>5 DEF DInv

-----------------------------------------------------------------------------
(* What the collector says is traffic *)

LEMMA FollowingIsLine ==
    ASSUME DInv, NEW s \in Sources, NEW g \in SnapshotIds, TrafficSuffices
    PROVE  /\ Following(s, "begin", g, Empty, FALSE) \in Traffic
           /\ Following(s, "complete", g, Empty, TRUE) \in Traffic
           /\ Following(s, "abort", g, Empty, FALSE) \in Traffic
           /\ \A keys \in SUBSET Keys : Following(s, "page", g, Says(keys), FALSE) \in Traffic
           /\ \A op, puts, complete : Following(s, op, g, puts, complete).seq = notes[s].acked + 1
<1>1. notes[s].acked + 1 \in Nat \ {0}
    BY DeliveryTypes
<1>2. /\ Following(s, "begin", g, Empty, FALSE) \in Traffic
      /\ Following(s, "complete", g, Empty, TRUE) \in Traffic
      /\ Following(s, "abort", g, Empty, FALSE) \in Traffic
      /\ \A keys \in SUBSET Keys : Following(s, "page", g, Says(keys), FALSE) \in Traffic
    BY <1>1 DEF TrafficSuffices, Following, Line
<1>3. \A op, puts, complete : Following(s, op, g, puts, complete).seq = notes[s].acked + 1
    BY DEF Following
<1>4. QED
    BY <1>2, <1>3

LEMMA ScanUpdate ==
    ASSUME DInv, NEW s \in Sources, NEW c \in ScanState, scan' = [scan EXCEPT ![s] = c],
           c = NoScan \/ c.snap \in SnapshotIds
    PROVE  ScansHaveNames'
BY DEF DInv, ScansHaveNames

LEMMA NoScanType == NoScan \in ScanState
BY DEF NoScan, ScanState

LEMMA BeginRunStep ==
    ASSUME DInv, TrafficSuffices, NEW s \in Sources, NEW g \in SnapshotIds, BeginRun(s, g)
    PROVE  DInv'
<1> DEFINE c == [scan[s] EXCEPT !.snap = g]
<1>1. scan' = [scan EXCEPT ![s] = c] /\ notes[s].outbox = None
    BY DeliveryTypes DEF BeginRun, Ready
<1>2. c \in ScanState /\ c.snap \in SnapshotIds
    BY DeliveryTypes DEF ScanState
<1> HIDE DEF c
<1>3. ScansHaveNames'
    BY <1>1, <1>2, ScanUpdate
<1>4. /\ Retain(s, Following(s, "begin", g, Empty, FALSE))
      /\ UNCHANGED <<vars, call, directory>>
    BY DEF BeginRun
<1>5. QED
    BY <1>1, <1>3, <1>4, FollowingIsLine, RetainStep

\* A page about some keys; the scan goes on.
LEMMA YieldStep ==
    ASSUME DInv, TrafficSuffices, NEW s \in Sources, NEW keys \in SUBSET Keys,
           Scanning(s), Yield(s, keys), NEW c \in ScanState, c.snap = scan[s].snap,
           scan' = [scan EXCEPT ![s] = c]
    PROVE  DInv'
<1>1. scan[s].snap \in SnapshotIds /\ notes[s].outbox = None
    BY DEF DInv, ScansHaveNames, Scanning, Ready
<1>2. ScansHaveNames'
    BY <1>1, ScanUpdate
<1>3. QED
    BY <1>1, <1>2, FollowingIsLine, RetainStep DEF Yield

LEMMA ReadNextStep ==
    ASSUME DInv, TrafficSuffices, NEW s \in Sources, ReadNext(s) PROVE DInv'
<1>1. scan[s] \in ScanState /\ scan \in [Sources -> ScanState] /\ directory \in Directory
    BY DeliveryTypes
<1>2. \A state : In(state) \subseteq Users /\ In(state) \subseteq Keys
    BY DEF In, Users, Keys
<1>3. CASE ReadUsers(s)
  <2> DEFINE c == [scan[s] EXCEPT !.read = @ \cup {"users"},
                                  !.users = In("enabled"), !.disabled = In("disabled")]
  <2>1. scan' = [scan EXCEPT ![s] = c]
    BY <1>1, <1>3 DEF ReadUsers
  <2>2. c \in ScanState /\ c.snap = scan[s].snap
    BY <1>1, <1>2 DEF ScanState
  <2> HIDE DEF c
  <2>3. QED
    BY <1>2, <1>3, <2>1, <2>2, YieldStep DEF ReadUsers
<1>4. CASE ReadGroups(s)
  <2> DEFINE groups == {o \in Groups : directory.account[o] # "absent"}
             c == [scan[s] EXCEPT !.read = @ \cup {"groups"}, !.groups = groups]
  <2>1. scan' = [scan EXCEPT ![s] = c] /\ Yield(s, groups) /\ Scanning(s)
    BY <1>1, <1>4 DEF ReadGroups
  <2>2. c \in ScanState /\ c.snap = scan[s].snap
    BY <1>1 DEF ScanState
  <2>3. groups \subseteq Keys
    BY DirectoryAssumption DEF Keys
  <2> HIDE DEF c, groups
  <2>4. QED
    BY <2>1, <2>2, <2>3, YieldStep
<1>5. ASSUME NEW g \in Groups, ReadMembers(s, g) PROVE DInv'
  <2> DEFINE c == [scan[s] EXCEPT !.read = @ \cup {g}]
  <2>1. scan' = [scan EXCEPT ![s] = c] /\ Yield(s, Memberships(s, g)) /\ Scanning(s)
    BY <1>1, <1>5 DEF ReadMembers
  <2>2. c \in ScanState /\ c.snap = scan[s].snap
    BY <1>1 DEF ScanState
  <2>3. Memberships(s, g) \subseteq Keys
    BY <1>1 DEF Memberships, Directory, Keys
  <2> HIDE DEF c
  <2>4. QED
    BY <2>1, <2>2, <2>3, YieldStep
<1>6. QED
    BY <1>3, <1>4, <1>5 DEF ReadNext

LEMMA CompleteRunStep ==
    ASSUME DInv, TrafficSuffices, NEW s \in Sources, CompleteRun(s) PROVE DInv'
<1>1. scan[s].snap \in SnapshotIds /\ notes[s].outbox = None
    BY DEF DInv, ScansHaveNames, CompleteRun, Scanning, Ready
<1>2. ScansHaveNames'
    BY NoScanType, ScanUpdate DEF CompleteRun
<1>3. QED
    BY <1>1, <1>2, FollowingIsLine, RetainStep DEF CompleteRun, world, remote

LEMMA AbortRunStep ==
    ASSUME DInv, TrafficSuffices, NEW s \in Sources, AbortRun(s) PROVE DInv'
<1>1. notes[s].open \in SnapshotIds /\ notes[s].outbox = None
    BY DeliveryTypes DEF AbortRun, Ready
<1>2. ScansHaveNames'
    BY DEF DInv, ScansHaveNames, AbortRun
<1>3. QED
    BY <1>1, <1>2, FollowingIsLine, RetainStep DEF AbortRun, world, remote

\* The directory, scans, calls and collectors that fail.
LEMMA WorldStep ==
    ASSUME DInv, NEW s \in Sources,
           \/ ChangeDirectory \/ ScanFails(s) \/ CollectorDies(s) \/ Send(s) \/ Unanswered(s)
    PROVE  DInv'
<1>1. CASE ChangeDirectory
  <2>1. ScansHaveNames'
    BY <1>1 DEF DInv, ScansHaveNames, ChangeDirectory, collector
  <2>2. QED
    BY <1>1, <2>1, NotesStand DEF ChangeDirectory, collector
<1>2. CASE ScanFails(s)
  <2>1. ScansHaveNames'
    BY <1>2, NoScanType, ScanUpdate DEF ScanFails
  <2>2. directory' \in Directory
    BY <1>2 DEF DInv, DeliveryTypeOK, ScanFails, remote
  <2>3. QED
    BY <1>2, <2>1, <2>2, NotesStand DEF ScanFails
<1>3. NoCall \in CallState /\ NoCall.line = None
    BY DirectoryAssumption DEF NoCall, CallState
<1>4. CASE CollectorDies(s)
  <2>1. ScansHaveNames'
    BY <1>4, NoScanType, ScanUpdate DEF CollectorDies
  <2>2. QED
    BY <1>3, <1>4, <2>1, CallStep DEF CollectorDies, remote
<1>5. ScansHaveNames' \/ scan' # scan
    BY DEF DInv, ScansHaveNames
<1>6. CASE Send(s)
  <2> DEFINE c == [call[s] EXCEPT !.attempt = 1]
  <2>1. /\ call' = [call EXCEPT ![s] = c] /\ call[s] = NoCall /\ notes[s].outbox # None
        /\ scan' = scan /\ UNCHANGED <<vars, notes, directory>>
    BY <1>6, DeliveryTypes DEF Send, world, remote
  <2>2. c \in CallState /\ c.line = None
    BY <2>1, <1>3, DirectoryAssumption DEF CallState
  <2> HIDE DEF c
  <2>3. QED
    BY <1>5, <2>1, <2>2, CallStep
<1>7. CASE Unanswered(s)
  <2> DEFINE c == IF call[s].attempt < Attempts
                  THEN [attempt |-> call[s].attempt + 1, line |-> None] ELSE NoCall
  <2>1. /\ call' = [call EXCEPT ![s] = c] /\ call[s].attempt > 0 /\ call[s] \in CallState
        /\ scan' = scan /\ UNCHANGED <<vars, notes, directory>>
    BY <1>7, DeliveryTypes DEF Unanswered, remote
  <2>2. call[s] # NoCall
    BY <2>1 DEF NoCall
  <2>3. c \in CallState /\ c.line = None
    BY <2>1, <1>3, DirectoryAssumption DEF CallState
  <2> HIDE DEF c
  <2>4. QED
    BY <1>5, <2>1, <2>2, <2>3, DeliveryTypes, CallStep
<1>8. QED
    BY <1>1, <1>2, <1>4, <1>6, <1>7

-----------------------------------------------------------------------------
(* Steps of the server *)

\* They are steps of ConnectorSync.
LEMMA ServerStep ==
    ASSUME NEW d \in Deliveries, NEW s \in Sources
    PROVE  /\ Register(s) => Next
           /\ \A m \in Traffic : Receive(d, s, m) => Next
           /\ ReadState(d) \/ Apply(d) \/ Commit(d) \/ Refuse(d) \/ Fail(d) => Next
BY DEF Next

LEMMA ServerInvariant == DInv /\ Next => IInv'
BY StepInvariant DEF DInv

\* What is left to show when only the server's rows and jobs may have moved.
LEMMA ServerDInv ==
    ASSUME DInv, IInv', UNCHANGED <<directory, scan, notes>>, call' \in [Sources -> CallState],
           \A s \in Sources : call'[s] # NoCall => notes[s].outbox # None,
           NoneIsAhead', LinesHold', InStep'
    PROVE  DInv'
<1>1. DeliveryTypeOK'
    BY DEF DInv, IInv, DeliveryTypeOK, CallState
<1>2. ScansHaveNames'
    BY DEF DInv, ScansHaveNames
<1>3. QED
    BY <1>1, <1>2 DEF DInv

LEMMA AdministerStep ==
    ASSUME DInv, NEW s \in Sources, Administer(s) PROVE DInv'
<1>1. IInv'
    BY ServerInvariant DEF Administer, Next
<1>2. /\ UNCHANGED <<receipts, job, directory, scan, notes, call>>
      /\ \A t \in Sources :
           connector'[t].seq = connector[t].seq /\ connector'[t].open = connector[t].open
    BY DeliveryTypes DEF Administer, Register, world, remote, collector, TypeOK, ConnectorRow
<1>3. NoneIsAhead' /\ LinesHold'
    BY <1>2 DEF DInv, NoneIsAhead, LinesHold
<1>4. InStep'
    BY <1>2 DEF DInv, InStep, Level, OneFurther
<1>5. QED
    BY <1>1, <1>2, <1>3, <1>4, DeliveryTypes, ServerDInv DEF DInv, DeliveryTypeOK

\* A handler that was idle takes the message the collector retains.
LEMMA ArriveStep ==
    ASSUME DInv, NEW s \in Sources, Arrive(s) PROVE DInv'
<1> DEFINE m == notes[s].outbox
<1>1. PICK d \in Deliveries :
          /\ Receive(d, s, m) /\ call' = [call EXCEPT ![s].line = d]
          /\ UNCHANGED <<directory, scan, notes>>
    BY DEF Arrive, world, remote
<1>2. m \in Traffic /\ call[s] # NoCall
    BY DeliveryTypes DEF Arrive, NoCall
<1>3. IInv'
    BY <1>1, <1>2, ServerInvariant, ServerStep
<1>4. /\ UNCHANGED <<connector, receipts, directory, scan, notes>>
      /\ job[d].at = "idle"
      /\ job'[d].at = "looked" /\ job'[d].source = s /\ job'[d].msg = m
      /\ \A e \in Deliveries \ {d} : job'[e] = job[e]
  <2> DEFINE j == [Idle EXCEPT !.at = "looked", !.source = s, !.msg = m]
  <2>1. /\ job[d].at = "idle" /\ job' = [job EXCEPT ![d] = j]
        /\ UNCHANGED <<connector, receipts>>
    BY <1>1 DEF Receive, rows
  <2>2. j.at = "looked" /\ j.source = s /\ j.msg = m
    BY DEF Idle
  <2> HIDE DEF j
  <2>3. job'[d] = j /\ \A e \in Deliveries \ {d} : job'[e] = job[e]
    BY <2>1, DeliveryTypes DEF TypeOK
  <2>4. QED
    BY <1>1, <2>1, <2>2, <2>3
<1> DEFINE c == [call[s] EXCEPT !.line = d]
<1>5. c \in CallState /\ c.line = d
    BY DeliveryTypes DEF CallState
<1>6. call' = [call EXCEPT ![s] = c]
    BY <1>1
<1> HIDE DEF c
<1>7. /\ call' \in [Sources -> CallState] /\ call'[s].line = d
      /\ \A t \in Sources \ {s} : call'[t] = call[t]
    BY <1>5, <1>6, DeliveryTypes
<1>8. \A t \in Sources : call'[t] # NoCall => notes[t].outbox # None
    BY <1>2, <1>7, DeliveryTypes DEF DInv, DeliveryTypeOK
<1>9. NoneIsAhead'
  <2>1. m.seq = notes[s].acked + 1
    BY <1>2, DeliveryTypes DEF DInv, NoneIsAhead
  <2>2. m.seq <= notes[s].acked + 1
    BY <2>1, DeliveryTypes
  <2>3. QED
    BY <1>4, <2>1, <2>2 DEF DInv, NoneIsAhead
<1>10. LinesHold'
    BY <1>4, <1>7 DEF DInv, LinesHold
<1>11. InStep'
    BY <1>4 DEF DInv, InStep
<1>12. QED
    BY <1>3, <1>4, <1>7, <1>8, <1>9, <1>10, <1>11, ServerDInv

\* A handler goes on with its message.
LEMMA HandlerGoesOn ==
    ASSUME DInv, NEW d \in Deliveries, Read(d) \/ Write(d) PROVE DInv'
<1>1. IInv'
    BY ServerInvariant DEF Read, Write, Next
<1>2. /\ UNCHANGED <<connector, receipts, directory, scan, notes, call>>
      /\ job[d].at # "idle"
      /\ job'[d].at # "idle" /\ job'[d].source = job[d].source /\ job'[d].msg = job[d].msg
      /\ \A e \in Deliveries \ {d} : job'[e] = job[e]
    BY DeliveryTypes
       DEF Read, Write, ReadState, Apply, rows, world, remote, collector, DInv, IInv, TypeOK,
           Delivery
<1>3. NoneIsAhead' /\ LinesHold' /\ InStep'
    BY <1>2 DEF DInv, NoneIsAhead, LinesHold, InStep
<1>4. QED
    BY <1>1, <1>2, <1>3, ServerDInv DEF DInv, DeliveryTypeOK, CallState

\* The collector notes that the message it retains took effect.
LEMMA AcknowledgedStep ==
    ASSUME DInv, IInv', NEW s \in Sources, notes[s].outbox # None, Acknowledged(s),
           UNCHANGED <<directory, scan>>,
           connector'[s].seq = notes[s].outbox.seq,
           connector'[s].open = OpenAfter(notes[s].outbox),
           \A t \in Sources \ {s} :
               /\ connector'[t].seq = connector[t].seq
               /\ connector'[t].open = connector[t].open
               /\ receipts'[t] = receipts[t],
           \A d \in Deliveries : job'[d] = job[d] \/ job'[d].at = "idle",
           \A t \in Sources \ {s} : call[t].line # None => job'[call[t].line] = job[call[t].line]
    PROVE  DInv'
<1> DEFINE m == notes[s].outbox
           n == [acked |-> m.seq, open |-> OpenAfter(m), outbox |-> None]
<1>1. m \in Traffic /\ m.seq \in Nat /\ m.seq = notes[s].acked + 1 /\ notes[s].acked \in Nat
  <2>1. m \in Traffic
    BY DeliveryTypes
  <2>2. QED
    BY <2>1, TrafficType, DeliveryTypes DEF DInv, NoneIsAhead, Message
<1>2. OpenAfter(m) \in SnapshotIds \cup {None}
    BY <1>1, TrafficAssumption DEF OpenAfter, Message
<1>3. n \in Note /\ n.acked = m.seq /\ n.open = OpenAfter(m) /\ n.outbox = None
    BY <1>1, <1>2 DEF Note
<1>4. notes' = [notes EXCEPT ![s] = n] /\ call' = [call EXCEPT ![s] = NoCall]
    BY DEF Acknowledged
<1> HIDE DEF n
<1>5. /\ notes' \in [Sources -> Note] /\ notes'[s] = n
      /\ \A t \in Sources \ {s} : notes'[t] = notes[t]
    BY <1>3, <1>4, DeliveryTypes
<1>6. NoCall \in CallState /\ NoCall.line = None
    BY DirectoryAssumption DEF NoCall, CallState
<1>7. /\ call' \in [Sources -> CallState] /\ call'[s] = NoCall
      /\ \A t \in Sources \ {s} : call'[t] = call[t]
    BY <1>4, <1>6, DeliveryTypes
<1>8. DeliveryTypeOK'
  <2>1. \A t \in Sources : call'[t] # NoCall => notes'[t].outbox # None
    BY <1>5, <1>7 DEF DInv, DeliveryTypeOK
  <2>2. QED
    BY <1>5, <1>7, <2>1 DEF DInv, IInv, DeliveryTypeOK, Note, CallState
<1>9. NoneIsAhead'
  <2>1. \A t \in Sources : notes'[t].outbox # None => notes'[t].outbox.seq = notes'[t].acked + 1
    BY <1>3, <1>5 DEF DInv, NoneIsAhead
  <2>2. ASSUME NEW d \in Deliveries, job'[d].at # "idle"
        PROVE  /\ job'[d].msg.seq <= notes'[job'[d].source].acked + 1
               /\ job'[d].msg.seq = notes'[job'[d].source].acked + 1
                    => job'[d].msg = notes'[job'[d].source].outbox
    <3>1. job'[d] = job[d] /\ job[d].at # "idle"
      BY <2>2
    <3>2. job[d].source \in Sources /\ job[d].msg \in Traffic
      BY <3>1 DEF DInv, IInv, DeliveriesHaveMessages
    <3>3. CASE job[d].source = s
      <4>1. job[d].msg.seq \in Nat /\ job[d].msg.seq <= notes[s].acked + 1
        BY <3>1, <3>2, <3>3, TrafficType DEF DInv, NoneIsAhead, Message
      <4>2. QED
        BY <1>1, <1>3, <1>5, <3>1, <3>3, <4>1
    <3>4. CASE job[d].source # s
      BY <1>5, <3>1, <3>2, <3>4 DEF DInv, NoneIsAhead
    <3>5. QED
      BY <3>3, <3>4
  <2>3. QED
    BY <2>1, <2>2 DEF NoneIsAhead
<1>10. LinesHold'
    BY <1>5, <1>6, <1>7 DEF DInv, LinesHold
<1>11. InStep'
  <2>1. Level(connector[s], notes[s])'
    BY <1>3, <1>5 DEF Level
  <2>2. \A t \in Sources \ {s} :
            \/ Level(connector[t], notes[t])'
            \/ OneFurther(connector[t], notes[t], receipts[t])'
    BY <1>5 DEF DInv, InStep, Level, OneFurther
  <2>3. QED
    BY <2>1, <2>2 DEF InStep
<1>12. ScansHaveNames'
    BY DEF DInv, ScansHaveNames
<1>13. QED
    BY <1>8, <1>9, <1>10, <1>11, <1>12 DEF DInv

\* A number that has a receipt of the message retained has had its effect.
LEMMA AnswerFromReceiptStep ==
    ASSUME DInv, NEW s \in Sources, AnswerFromReceipt(s) PROVE DInv'
<1>1. /\ UNCHANGED vars /\ UNCHANGED <<directory, scan>>
      /\ call[s] # NoCall /\ notes[s].outbox # None
  <2>1. call[s] # NoCall
    BY DEF AnswerFromReceipt, NoCall
  <2>2. QED
    BY <2>1, DeliveryTypes DEF AnswerFromReceipt, world, remote
<1>2. IInv'
    BY <1>1, ServerStands
<1>3. CASE notes[s].outbox \in receipts[s]
  <2>1. notes[s].outbox.seq \in 1 .. connector[s].seq
    BY <1>3 DEF DInv, IInv, ReceiptsAreThePrefix
  <2>2. ~Level(connector[s], notes[s])
    BY <1>1, <2>1, DeliveryTypes DEF DInv, NoneIsAhead, Level
  <2>3. OneFurther(connector[s], notes[s], receipts[s])
    BY <2>2 DEF DInv, InStep
  <2>4. Acknowledged(s)
    BY <1>3 DEF AnswerFromReceipt
  <2>5. QED
    BY <1>1, <1>2, <2>3, <2>4, AcknowledgedStep DEF OneFurther, vars
<1>4. CASE notes[s].outbox \notin receipts[s]
  <2>1. call' = [call EXCEPT ![s] = NoCall] /\ UNCHANGED notes
    BY <1>4 DEF AnswerFromReceipt
  <2>2. NoCall \in CallState /\ NoCall.line = None
    BY DirectoryAssumption DEF NoCall, CallState
  <2>3. ScansHaveNames'
    BY <1>1 DEF DInv, ScansHaveNames
  <2>4. directory' \in Directory
    BY <1>1, DeliveryTypes
  <2>5. QED
    BY <1>1, <2>1, <2>2, <2>3, CallStep
<1>5. QED
    BY <1>3, <1>4

\* A message that takes effect is the one its collector retains.
LEMMA EffectIsRetained ==
    ASSUME DInv, NEW d \in Deliveries, NEW s \in Sources, NEW m \in Traffic,
           TakesEffect(d, s, m)
    PROVE  /\ m = notes[s].outbox /\ m # None
           /\ m.seq = notes[s].acked + 1
<1>1. m.seq = connector[s].seq + 1
    BY HoldersAreNext DEF DInv, IInv
<1>2. /\ m.seq <= notes[s].acked + 1
      /\ m.seq = notes[s].acked + 1 => m = notes[s].outbox
    BY DEF DInv, NoneIsAhead, TakesEffect
<1>3. connector[s].seq \in Nat /\ notes[s].acked \in Nat /\ m # None
    BY DeliveryTypes
<1>4. connector[s].seq = notes[s].acked
    BY <1>1, <1>2, <1>3 DEF DInv, InStep, Level, OneFurther
<1>5. QED
    BY <1>1, <1>2, <1>3, <1>4

LEMMA AnswerStep ==
    ASSUME DInv, NEW d \in Deliveries, Answer(d) PROVE DInv'
<1>1. PICK s \in Sources, m \in Traffic : TakesEffect(d, s, m)
    BY CommitValue DEF Answer, DInv, IInv
<1>2. m = notes[s].outbox /\ m # None /\ m.seq = notes[s].acked + 1
    BY <1>1, EffectIsRetained
<1>3. IInv'
    BY ServerInvariant DEF Answer, Next
<1>4. /\ job[d].source = s /\ job[d].at # "idle"
      /\ job'[d].at = "idle" /\ \A e \in Deliveries \ {d} : job'[e] = job[e]
    BY <1>1, DeliveryTypes DEF TakesEffect, TypeOK, Idle
<1>5. /\ connector'[s].seq = m.seq /\ connector'[s].open = OpenAfter(m)
      /\ m \in receipts'[s]
      /\ \A t \in Sources \ {s} : connector'[t] = connector[t] /\ receipts'[t] = receipts[t]
  <2>1. /\ connector'[s].seq = m.seq /\ connector'[s].open = OpenAfter(m)
        /\ m \in receipts'[s]
        /\ \A t \in Sources \ {s} : connector'[t] = connector[t]
    BY <1>1, EffectsAreChecked DEF DInv
  <2>2. \A t \in Sources \ {s} : receipts'[t] = receipts[t]
    BY <1>1, DeliveryTypes DEF TakesEffect, TypeOK
  <2>3. QED
    BY <2>1, <2>2
<1>6. UNCHANGED <<directory, scan>>
    BY DEF Answer, world, remote
<1>7. \A t \in Sources : call[t].line = d => t = s
    BY <1>4, DirectoryAssumption DEF DInv, LinesHold
<1>8. \A t \in Sources : call[t].line # None /\ call[t].line # d
                            => job'[call[t].line] = job[call[t].line]
    BY <1>4 DEF DInv, LinesHold
<1>9. CASE Connected(d) = {}
  <2>1. UNCHANGED <<notes, call>>
    BY <1>9 DEF Answer
  <2>2. \A t \in Sources : call[t].line # d
    BY <1>9 DEF Connected
  <2>3. NoneIsAhead'
    BY <1>4, <2>1 DEF DInv, NoneIsAhead
  <2>4. LinesHold'
    BY <1>8, <2>1, <2>2 DEF DInv, LinesHold
  <2>5. InStep'
    BY <1>2, <1>5, <2>1 DEF DInv, InStep, Level, OneFurther
  <2>6. QED
    BY <1>3, <1>6, <2>1, <2>3, <2>4, <2>5, ServerDInv DEF DInv, DeliveryTypeOK, CallState
<1>10. CASE Connected(d) # {}
  <2>1. PICK t \in Connected(d) : Acknowledged(t)
    BY <1>10 DEF Answer
  <2>2. t = s /\ Acknowledged(s)
    BY <1>7, <2>1 DEF Connected
  <2>3. \A e \in Deliveries : job'[e] = job[e] \/ job'[e].at = "idle"
    BY <1>4
  <2>4. \A u \in Sources \ {s} :
            /\ call[u].line # None => job'[call[u].line] = job[call[u].line]
            /\ connector'[u].seq = connector[u].seq /\ connector'[u].open = connector[u].open
            /\ receipts'[u] = receipts[u]
    BY <1>5, <1>7, <1>8
  <2>5. QED
    BY <1>2, <1>3, <1>5, <1>6, <2>2, <2>3, <2>4, AcknowledgedStep
<1>11. QED
    BY <1>9, <1>10

\* Refused or failed: whoever waits for it is told, and the message retained.
LEMMA HangUpStep ==
    ASSUME DInv, NEW d \in Deliveries, Reject(d) \/ HandlerDies(d) PROVE DInv'
<1>1. IInv'
    BY ServerInvariant DEF Reject, HandlerDies, Next
<1>2. /\ Dropped(d) /\ HangUp(d) /\ UNCHANGED <<directory, scan, notes>>
    BY RefuseOrFailDrops DEF Reject, HandlerDies, world, remote
<1>3. /\ UNCHANGED <<connector, receipts>> /\ job'[d].at = "idle"
      /\ \A e \in Deliveries \ {d} : job'[e] = job[e]
    BY <1>2 DEF Dropped, rows, DInv, IInv, TypeOK, Idle
<1>4. NoCall \in CallState /\ NoCall.line = None
    BY DirectoryAssumption DEF NoCall, CallState
<1>5. /\ call' \in [Sources -> CallState]
      /\ \A t \in Sources : call'[t] = NoCall \/ (call'[t] = call[t] /\ call[t].line # d)
  <2>1. call' = [t \in Sources |-> IF t \in Connected(d) THEN NoCall ELSE call[t]]
    BY <1>2 DEF HangUp
  <2>2. \A t \in Sources : call[t] \in CallState /\ (t \in Connected(d) <=> call[t].line = d)
    BY DeliveryTypes DEF Connected
  <2>3. \A t \in Sources : call'[t] = IF t \in Connected(d) THEN NoCall ELSE call[t]
    BY <2>1
  <2>4. \A t \in Sources : (IF t \in Connected(d) THEN NoCall ELSE call[t]) \in CallState
    BY <1>4, <2>2
  <2>5. call' \in [Sources -> CallState]
    BY <2>1, <2>4
  <2>6. ASSUME NEW t \in Sources
        PROVE  call'[t] = NoCall \/ (call'[t] = call[t] /\ call[t].line # d)
    <3>1. CASE t \in Connected(d)
      BY <2>3, <3>1
    <3>2. CASE t \notin Connected(d)
      BY <2>2, <2>3, <3>2
    <3>3. QED
      BY <3>1, <3>2
  <2>7. QED
    BY <2>5, <2>6
<1>6. \A t \in Sources : call'[t] # NoCall => notes[t].outbox # None
    BY <1>5 DEF DInv, DeliveryTypeOK
<1>7. NoneIsAhead'
    BY <1>2, <1>3 DEF DInv, NoneIsAhead
<1>8. LinesHold'
    BY <1>2, <1>3, <1>4, <1>5 DEF DInv, LinesHold
<1>9. InStep'
    BY <1>2, <1>3 DEF DInv, InStep
<1>10. QED
    BY <1>1, <1>2, <1>5, <1>6, <1>7, <1>8, <1>9, ServerDInv

-----------------------------------------------------------------------------
(* Theorems *)

LEMMA StepDInv == DInv /\ TrafficSuffices /\ [NextDelivery]_allVars => DInv'
<1> SUFFICES ASSUME DInv, TrafficSuffices, [NextDelivery]_allVars PROVE DInv'
    OBVIOUS
<1>1. CASE ChangeDirectory
  <2>1. ScansHaveNames' /\ directory' \in Directory
    BY <1>1 DEF DInv, ScansHaveNames, ChangeDirectory, collector
  <2>2. QED
    BY <1>1, <2>1, NotesStand DEF ChangeDirectory, collector
<1>2. ASSUME NEW s \in Sources,
             \/ ScanFails(s) \/ CollectorDies(s) \/ Send(s) \/ Unanswered(s)
      PROVE  DInv'
    BY <1>2, WorldStep
<1>3. ASSUME NEW s \in Sources, Collect(s) PROVE DInv'
    BY <1>3, BeginRunStep, ReadNextStep, CompleteRunStep, AbortRunStep DEF Collect
<1>4. ASSUME NEW s \in Sources, Administer(s) \/ Arrive(s) \/ AnswerFromReceipt(s) PROVE DInv'
    BY <1>4, AdministerStep, ArriveStep, AnswerFromReceiptStep
<1>5. ASSUME NEW d \in Deliveries, Read(d) \/ Write(d) \/ Answer(d) \/ Reject(d) \/ HandlerDies(d)
      PROVE  DInv'
    BY <1>5, HandlerGoesOn, AnswerStep, HangUpStep
<1>6. CASE UNCHANGED allVars
  <2>1. ScansHaveNames' /\ directory' \in Directory
    BY <1>6 DEF DInv, DeliveryTypeOK, ScansHaveNames, allVars, world, remote, collector
  <2>2. QED
    BY <1>6, <2>1, NotesStand DEF allVars, collector
<1>7. QED
    BY <1>1, <1>2, <1>3, <1>4, <1>5, <1>6 DEF NextDelivery

LEMMA StepIsServers == DInv /\ [NextDelivery]_allVars => [Next]_vars
<1> SUFFICES ASSUME DInv, NextDelivery \/ UNCHANGED allVars, ~UNCHANGED vars PROVE Next
    OBVIOUS
<1>1. ASSUME NEW s \in Sources, Collect(s) PROVE UNCHANGED vars
    BY <1>1 DEF Collect, BeginRun, ReadNext, ReadUsers, ReadGroups, ReadMembers, Yield,
                CompleteRun, AbortRun
<1>2. ASSUME NEW s \in Sources,
             ScanFails(s) \/ CollectorDies(s) \/ Send(s) \/ Unanswered(s) \/ AnswerFromReceipt(s)
      PROVE  UNCHANGED vars
    BY <1>2 DEF ScanFails, CollectorDies, Send, Unanswered, AnswerFromReceipt
<1>3. ChangeDirectory \/ UNCHANGED allVars => UNCHANGED vars
    BY DEF ChangeDirectory, allVars
<1>4. ASSUME NEW s \in Sources, Arrive(s) PROVE Next
  <2>1. PICK d \in Deliveries : Receive(d, s, notes[s].outbox)
    BY <1>4 DEF Arrive
  <2>2. notes[s].outbox \in Traffic
    BY <1>4, DeliveryTypes DEF Arrive, NoCall
  <2>3. QED
    BY <2>1, <2>2, ServerStep
<1>5. ASSUME NEW s \in Sources, Administer(s) PROVE Next
    BY <1>5 DEF Administer, Next
<1>6. ASSUME NEW d \in Deliveries, Read(d) \/ Write(d) \/ Answer(d) \/ Reject(d) \/ HandlerDies(d)
      PROVE  Next
    BY <1>6 DEF Read, Write, Answer, Reject, HandlerDies, Next
<1>7. QED
    BY <1>1, <1>2, <1>3, <1>4, <1>5, <1>6 DEF NextDelivery

\* With collectors that die and a network that loses, repeats and delays, the
\* invariant holds: handlers, clients and collectors stay in step.
LEMMA DeliveryInvariant == TrafficSuffices => (DeliverySpec => []DInv)
<1>1. TrafficSuffices /\ DeliverySpec => []DInv
  <2>1. TrafficSuffices /\ DInv /\ [NextDelivery]_allVars => DInv'
    BY StepDInv
  <2>2. ASSUME TrafficSuffices PROVE DeliverySpec => []DInv
    <3>1. DInv /\ [NextDelivery]_allVars => DInv'
      BY <2>1, <2>2
    <3>2. QED
      BY <3>1, InitDInv, PTL DEF DeliverySpec
  <2>3. QED
    BY <2>2
<1>2. QED
    BY <1>1

\* What the collector keeps and what its calls are has its type, whatever is
\* lost or dies (client.py, sdk.py).
THEOREM DeliveryTypeCorrect == TrafficSuffices => (DeliverySpec => []DeliveryTypeOK)
<1> SUFFICES ASSUME TrafficSuffices PROVE DeliverySpec => []DeliveryTypeOK
    OBVIOUS
<1>1. DInv => DeliveryTypeOK
    BY DEF DInv
<1>2. QED
    BY <1>1, DeliveryInvariant, PTL

\* The collector is in doubt about the message it retains and about nothing
\* else: the server has applied all it believes acknowledged, and at most that
\* one message more (client.py:49).
THEOREM RetainedHolds == TrafficSuffices => (DeliverySpec => []OnlyTheRetainedIsInDoubt)
<1> SUFFICES ASSUME TrafficSuffices PROVE DeliverySpec => []OnlyTheRetainedIsInDoubt
    OBVIOUS
<1>1. DInv => OnlyTheRetainedIsInDoubt
    BY DEF DInv, InStep, Level, OneFurther, OnlyTheRetainedIsInDoubt
<1>2. QED
    BY <1>1, DeliveryInvariant, PTL

\* Collectors, clients and the network are one environment of the server:
\* every behaviour of both sides is one of ConnectorSync, so that what is
\* proved of it, with messages nobody constrains, holds of the composition.
THEOREM DeliveryImplementsSync == TrafficSuffices => (DeliverySpec => Spec)
<1> SUFFICES ASSUME TrafficSuffices PROVE DeliverySpec => Spec
    OBVIOUS
<1>1. InitDelivery => Init
    BY DEF InitDelivery
<1>2. QED
    BY <1>1, DeliveryInvariant, StepIsServers, PTL DEF DeliverySpec, Spec

\* Messages take effect one at a time, in sequence, once and whole, also when
\* they come from collectors that retry and die.
THEOREM DeliveryImplementsInventory == TrafficSuffices => (DeliverySpec => ImplementsInventory)
BY DeliveryImplementsSync, InventoryImplemented
-----------------------------------------------------------------------------
(* What is published is what one run read *)

Retains(s, op) == notes[s].outbox # None /\ notes[s].outbox.op = op

\* The run s has begun and not ended, as far as s is concerned.
Running(s) == IF Retains(s, "begin") THEN notes[s].outbox.snap ELSE notes[s].open

\* A collector speaks of the run it has under way, and of nothing else; what
\* ends a run is said when nothing is being read.
Ordered(s) ==
    /\ notes[s].outbox # None =>
         /\ notes[s].outbox.op # "delta"
         /\ (notes[s].outbox.op = "begin") <=> (notes[s].open = None)
         /\ notes[s].outbox.op = "begin" => scanned[notes[s].outbox.snap] = Empty
         /\ notes[s].outbox.op # "begin" => notes[s].outbox.snap = notes[s].open
         /\ notes[s].outbox.op \in {"complete", "abort"} => scan[s] = NoScan
    /\ scan[s] # NoScan => scan[s].snap = Running(s)
InOrder == \A s \in Sources : Ordered(s)

\* No two runs have one name, and a completed run reads nothing more.
NamesApart ==
    /\ scanned \in [SnapshotIds -> Inventory \cup {None}]
    /\ \A s \in Sources : Running(s) # None => scanned[Running(s)] # None
    /\ \A s, t \in Sources : Running(s) # None /\ Running(t) = Running(s) => t = s
    /\ \A s \in Sources : \A m \in Completed(s) : scanned[m.snap] # None
    /\ \A s, t \in Sources : \A m \in Completed(s) :
         Running(t) = m.snap => t = s /\ Retains(s, "complete")

\* What the server has staged, with the page it may not have yet, is what the
\* run has read.
Pending(s) ==
    IF Retains(s, "page") /\ connector[s].seq = notes[s].acked THEN notes[s].outbox.puts
    ELSE Empty
StagedRead(s) ==
    connector[s].open # None =>
        Upsert(facts[s][connector[s].open], Pending(s)) = scanned[connector[s].open]
StagedIsRead == \A s \in Sources : StagedRead(s)

\* Of the runs completed, one is the last.
LastIsOne ==
    \A s \in Sources : Completed(s) = {}
        \/ \E m \in Completed(s) : \A n \in Completed(s) : n.seq <= m.seq

RunInv == InOrder /\ NamesApart /\ StagedIsRead /\ LastIsOne /\ PublishedIsOneRun

\* The kinds of step, as far as runs are concerned.  The server's rows stay:
ServerSame ==
    /\ UNCHANGED <<facts, receipts>>
    /\ \A s \in Sources :
         connector'[s].seq = connector[s].seq /\ connector'[s].open = connector[s].open

\* nothing of a run happens;
Idles == ServerSame /\ UNCHANGED <<scan, notes, scanned, directory, outdated>>

\* s reads no further;
Drops(s) ==
    /\ ServerSame /\ UNCHANGED <<notes, scanned, directory, outdated>>
    /\ scan'[s] = NoScan /\ \A t \in Sources \ {s} : scan'[t] = scan[t]

\* s retains a message of run g;
Writes(s, op, g, puts) ==
    /\ ServerSame /\ UNCHANGED <<directory, outdated>>
    /\ notes[s].outbox = None /\ notes'[s].outbox # None
    /\ notes'[s].outbox.op = op /\ notes'[s].outbox.snap = g /\ notes'[s].outbox.puts = puts
    /\ notes'[s].acked = notes[s].acked /\ notes'[s].open = notes[s].open
    /\ \A t \in Sources \ {s} : notes'[t] = notes[t] /\ scan'[t] = scan[t]

\* run g begins; it reads a page; it ends;
Begins(s, g) ==
    /\ g \in SnapshotIds /\ scanned[g] = None
    /\ scan[s] = NoScan /\ notes[s].open = None
    /\ Writes(s, "begin", g, Empty)
    /\ scan'[s] = [NoScan EXCEPT !.snap = g] /\ scanned' = [scanned EXCEPT ![g] = Empty]
Reads(s, keys) ==
    LET g == scan[s].snap
    IN  /\ scan[s] # NoScan /\ g \in SnapshotIds /\ keys \subseteq Keys
        /\ Writes(s, "page", g, Says(keys))
        /\ scan'[s] # NoScan /\ scan'[s].snap = g
        /\ scanned' = [scanned EXCEPT ![g] = Upsert(@, Says(keys))]
Closes(s) ==
    /\ notes[s].open # None
    /\ \/ Writes(s, "complete", notes[s].open, Empty) /\ scan[s] # NoScan /\ AllRead(s)
       \/ Writes(s, "abort", notes[s].open, Empty)
    /\ scan'[s] = NoScan /\ UNCHANGED scanned

\* s notes that its message took effect;
Notes(s) ==
    /\ notes'[s].acked = notes[s].outbox.seq /\ notes'[s].open = OpenAfter(notes[s].outbox)
    /\ notes'[s].outbox = None
    /\ \A t \in Sources \ {s} : notes'[t] = notes[t]
Settles(s) ==
    /\ ServerSame /\ UNCHANGED <<scan, scanned, directory, outdated>>
    /\ OneFurther(connector[s], notes[s], receipts[s])
    /\ Notes(s)

\* its message takes effect, which it notes or does not.
Lands(s) ==
    LET m == notes[s].outbox
    IN  /\ m \in Traffic /\ m.seq = notes[s].acked + 1
        /\ Level(connector[s], notes[s])
        /\ Acceptable(s, m, connector[s].open)
        /\ connector'[s].seq = m.seq /\ connector'[s].open = OpenAfter(m)
        /\ facts'[s] = Applied(s, m) /\ receipts'[s] = receipts[s] \cup {m}
        /\ \A t \in Sources \ {s} :
             connector'[t] = connector[t] /\ facts'[t] = facts[t] /\ receipts'[t] = receipts[t]
        /\ UNCHANGED <<scan, scanned, directory, outdated>>
        /\ (UNCHANGED notes) \/ Notes(s)

Kinds ==
    \/ Idles \/ ChangeDirectory
    \/ \E s \in Sources :
         \/ Drops(s) \/ (\E g \in SnapshotIds : Begins(s, g))
         \/ (\E keys \in SUBSET Keys : Reads(s, keys) /\ ReadNext(s))
         \/ Closes(s) \/ Settles(s) \/ Lands(s)

\* A message retained shows in the notes.
LEMMA RetainWrites ==
    ASSUME DInv, TrafficSuffices, NEW s \in Sources, NEW op, NEW g \in SnapshotIds, NEW puts,
           NEW complete, notes[s].outbox = None,
           Following(s, op, g, puts, complete) \in Traffic,
           Retain(s, Following(s, op, g, puts, complete)),
           \A t \in Sources \ {s} : scan'[t] = scan[t],
           UNCHANGED <<vars, directory, outdated>>
    PROVE  Writes(s, op, g, puts)
<1> DEFINE m == Following(s, op, g, puts, complete)
<1>1. m \in Traffic /\ m # None /\ m.op = op /\ m.snap = g /\ m.puts = puts
    BY DeliveryTypes DEF Following
<1> HIDE DEF m
<1>2. /\ notes'[s].outbox = m /\ notes'[s].acked = notes[s].acked
      /\ notes'[s].open = notes[s].open
      /\ \A t \in Sources \ {s} : notes'[t] = notes[t]
    BY DeliveryTypes DEF Retain, Note, m
<1>3. QED
    BY <1>1, <1>2 DEF Writes, ServerSame, vars

LEMMA BeginKind ==
    ASSUME DInv, TrafficSuffices, NEW s \in Sources, NEW g \in SnapshotIds, BeginRun(s, g)
    PROVE  Begins(s, g)
<1>1. scanned[g] = None
    BY DEF BeginRun, NamesLeft, Unused
<1>2. /\ scan[s] = NoScan /\ notes[s].open = None /\ notes[s].outbox = None
      /\ scan' = [scan EXCEPT ![s].snap = g] /\ scanned' = [scanned EXCEPT ![g] = Empty]
      /\ Retain(s, Following(s, "begin", g, Empty, FALSE))
      /\ UNCHANGED <<vars, directory, outdated>>
    BY DEF BeginRun, Ready
<1>3. scan'[s] = [NoScan EXCEPT !.snap = g] /\ \A t \in Sources \ {s} : scan'[t] = scan[t]
    BY <1>2, DeliveryTypes
<1>4. Writes(s, "begin", g, Empty)
    BY <1>2, <1>3, FollowingIsLine, RetainWrites
<1>5. QED
    BY <1>1, <1>2, <1>3, <1>4 DEF Begins

\* A page, with the scan that goes on.
LEMMA YieldKind ==
    ASSUME DInv, TrafficSuffices, NEW s \in Sources, NEW keys \in SUBSET Keys,
           Scanning(s), Yield(s, keys),
           scan'[s].snap = scan[s].snap, \A t \in Sources \ {s} : scan'[t] = scan[t]
    PROVE  Reads(s, keys)
<1>1. /\ scan[s] # NoScan /\ scan[s].snap \in SnapshotIds /\ notes[s].outbox = None
      /\ scan'[s] # NoScan
    BY AbsentAssumption DEF DInv, ScansHaveNames, Scanning, Ready, NoScan
<1>2. /\ Retain(s, Following(s, "page", scan[s].snap, Says(keys), FALSE))
      /\ scanned' = [scanned EXCEPT ![scan[s].snap] = Upsert(@, Says(keys))]
      /\ UNCHANGED <<vars, directory, outdated>>
    BY DEF Yield
<1>3. Following(s, "page", scan[s].snap, Says(keys), FALSE) \in Traffic
    BY <1>1, FollowingIsLine
<1>4. Writes(s, "page", scan[s].snap, Says(keys))
    BY <1>1, <1>2, <1>3, RetainWrites
<1>5. QED
    BY <1>1, <1>2, <1>4 DEF Reads

LEMMA ReadKind ==
    ASSUME DInv, TrafficSuffices, NEW s \in Sources, ReadNext(s)
    PROVE  \E keys \in SUBSET Keys : Reads(s, keys)
<1>1. scan[s] \in ScanState /\ scan \in [Sources -> ScanState] /\ directory \in Directory
    BY DeliveryTypes
<1>2. /\ In("enabled") \subseteq Keys
      /\ {o \in Groups : directory.account[o] # "absent"} \subseteq Keys
      /\ \A g : Memberships(s, g) \subseteq Keys
    BY <1>1, DirectoryAssumption DEF In, Users, Keys, Memberships, Directory
<1>3. scan'[s].snap = scan[s].snap /\ \A t \in Sources \ {s} : scan'[t] = scan[t]
    BY <1>1 DEF ReadNext, ReadUsers, ReadGroups, ReadMembers, ScanState
<1>4. CASE ReadUsers(s)
    BY <1>2, <1>3, <1>4, YieldKind DEF ReadUsers
<1>5. CASE ReadGroups(s)
    BY <1>2, <1>3, <1>5, YieldKind DEF ReadGroups
<1>6. ASSUME NEW g \in Groups, ReadMembers(s, g)
      PROVE  \E keys \in SUBSET Keys : Reads(s, keys)
    BY <1>2, <1>3, <1>6, YieldKind DEF ReadMembers
<1>7. QED
    BY <1>4, <1>5, <1>6 DEF ReadNext

LEMMA CloseKind ==
    ASSUME DInv, InOrder, TrafficSuffices, NEW s \in Sources, CompleteRun(s) \/ AbortRun(s)
    PROVE  Closes(s)
<1>1. notes[s].outbox = None /\ UNCHANGED <<vars, directory, outdated, scanned>>
    BY DEF CompleteRun, AbortRun, Scanning, Ready, world, remote
<1>2. notes[s].open \in SnapshotIds \cup {None}
    BY DeliveryTypes
<1>3. CASE CompleteRun(s)
  <2>1. /\ scan[s] # NoScan /\ AllRead(s)
        /\ Retain(s, Following(s, "complete", scan[s].snap, Empty, TRUE))
        /\ scan' = [scan EXCEPT ![s] = NoScan]
    BY <1>3 DEF CompleteRun, Scanning
  <2>2. scan[s].snap = notes[s].open /\ notes[s].open \in SnapshotIds
    BY <1>1, <2>1 DEF InOrder, Ordered, Running, Retains, DInv, ScansHaveNames
  <2>3. scan'[s] = NoScan /\ \A t \in Sources \ {s} : scan'[t] = scan[t]
    BY <2>1, DeliveryTypes
  <2>4. Writes(s, "complete", notes[s].open, Empty)
    BY <1>1, <2>1, <2>2, <2>3, FollowingIsLine, RetainWrites
  <2>5. QED
    BY <1>1, <2>1, <2>2, <2>3, <2>4, AbsentAssumption DEF Closes
<1>4. CASE AbortRun(s)
  <2>1. /\ scan[s] = NoScan /\ notes[s].open # None /\ scan' = scan
        /\ Retain(s, Following(s, "abort", notes[s].open, Empty, FALSE))
    BY <1>4 DEF AbortRun
  <2>2. Writes(s, "abort", notes[s].open, Empty)
    BY <1>1, <1>2, <2>1, FollowingIsLine, RetainWrites
  <2>3. QED
    BY <1>1, <2>1, <2>2 DEF Closes
<1>5. QED
    BY <1>3, <1>4

\* The notes of an acknowledgement.
LEMMA AcknowledgedNotes ==
    ASSUME DInv, NEW s \in Sources, Acknowledged(s) PROVE Notes(s)
BY DeliveryTypes DEF Acknowledged, Notes

LEMMA ReceiptKind ==
    ASSUME DInv, NEW s \in Sources, AnswerFromReceipt(s) PROVE Idles \/ Settles(s)
<1>1. /\ UNCHANGED vars /\ UNCHANGED <<directory, scan, scanned, outdated>>
      /\ call[s] # NoCall /\ notes[s].outbox # None
  <2>1. call[s] # NoCall
    BY DEF AnswerFromReceipt, NoCall
  <2>2. QED
    BY <2>1, DeliveryTypes DEF AnswerFromReceipt, world, remote
<1>2. ServerSame
    BY <1>1 DEF ServerSame, vars
<1>3. CASE notes[s].outbox \in receipts[s]
  <2>1. notes[s].outbox.seq \in 1 .. connector[s].seq
    BY <1>3 DEF DInv, IInv, ReceiptsAreThePrefix
  <2>2. ~Level(connector[s], notes[s])
    BY <1>1, <2>1, DeliveryTypes DEF DInv, NoneIsAhead, Level
  <2>3. OneFurther(connector[s], notes[s], receipts[s])
    BY <2>2 DEF DInv, InStep
  <2>4. Notes(s)
    BY <1>3, AcknowledgedNotes DEF AnswerFromReceipt
  <2>5. QED
    BY <1>1, <1>2, <2>3, <2>4 DEF Settles
<1>4. CASE notes[s].outbox \notin receipts[s]
    BY <1>1, <1>2, <1>4 DEF AnswerFromReceipt, Idles
<1>5. QED
    BY <1>3, <1>4

\* What a commit makes of its source, whose message it is.
LEMMA AnswerKind ==
    ASSUME DInv, NEW d \in Deliveries, Answer(d) PROVE \E s \in Sources : Lands(s)
<1>1. PICK s \in Sources, m \in Traffic : TakesEffect(d, s, m)
    BY CommitValue DEF Answer, DInv, IInv
<1>2. m = notes[s].outbox /\ m # None /\ m.seq = notes[s].acked + 1
    BY <1>1, EffectIsRetained
<1>3. /\ m.seq = connector[s].seq + 1 /\ connector[s].seq \in Nat
      /\ Acceptable(s, m, connector[s].open)
      /\ connector'[s].seq = m.seq /\ connector'[s].open = OpenAfter(m)
      /\ facts'[s] = Applied(s, m) /\ receipts'[s] = receipts[s] \cup {m}
      /\ \A t \in Sources \ {s} :
           connector'[t] = connector[t] /\ facts'[t] = facts[t] /\ receipts'[t] = receipts[t]
    BY <1>1, EffectsAreChecked DEF DInv
<1>4. Level(connector[s], notes[s])
    BY <1>2, <1>3, DeliveryTypes DEF DInv, InStep, Level, OneFurther
<1>5. UNCHANGED <<scan, scanned, directory, outdated>>
    BY DEF Answer, world, remote
<1>6. (UNCHANGED notes) \/ Notes(s)
  <2>1. \A t \in Sources : call[t].line = d => t = s
    BY <1>1, DirectoryAssumption DEF DInv, LinesHold, TakesEffect
  <2>2. QED
    BY <2>1, AcknowledgedNotes DEF Answer, Connected
<1>7. QED
    BY <1>2, <1>3, <1>4, <1>5, <1>6 DEF Lands

\* Every step is of a kind.
LEMMA StepIsOfAKind ==
    ASSUME DInv, InOrder, TrafficSuffices, [NextDelivery]_allVars PROVE Kinds
<1>1. \A s \in Sources, g \in SnapshotIds : BeginRun(s, g) => Kinds
    BY BeginKind DEF Kinds
<1>2. \A s \in Sources : ReadNext(s) => Kinds
    BY ReadKind DEF Kinds
<1>3. \A s \in Sources : CompleteRun(s) \/ AbortRun(s) => Kinds
    BY CloseKind DEF Kinds
<1>4. \A s \in Sources : AnswerFromReceipt(s) => Kinds
    BY ReceiptKind DEF Kinds
<1>5. \A d \in Deliveries : Answer(d) => Kinds
    BY AnswerKind DEF Kinds
<1>6. ASSUME NEW s \in Sources, ScanFails(s) \/ CollectorDies(s) PROVE Kinds
  <2>1. /\ UNCHANGED <<vars, notes, scanned, directory, outdated>>
        /\ scan' = [scan EXCEPT ![s] = NoScan]
    BY <1>6 DEF ScanFails, CollectorDies, remote
  <2>2. scan'[s] = NoScan /\ \A t \in Sources \ {s} : scan'[t] = scan[t]
    BY <2>1, DeliveryTypes
  <2>3. QED
    BY <2>1, <2>2 DEF Kinds, Drops, ServerSame, vars
<1>7. ASSUME NEW s \in Sources, Administer(s) PROVE Kinds
  <2>1. /\ UNCHANGED <<facts, receipts, directory, scan, notes, scanned, outdated>>
        /\ \A t \in Sources :
             connector'[t].seq = connector[t].seq /\ connector'[t].open = connector[t].open
    BY <1>7, DeliveryTypes
       DEF Administer, Register, world, remote, collector, TypeOK, ConnectorRow
  <2>2. QED
    BY <2>1 DEF Kinds, Idles, ServerSame
<1>8. ASSUME NEW s \in Sources, Send(s) \/ Arrive(s) \/ Unanswered(s) PROVE Idles
    BY <1>8 DEF Send, Arrive, Unanswered, Receive, world, remote, vars, rows, Idles, ServerSame
<1>9. ASSUME NEW d \in Deliveries, Read(d) \/ Write(d) \/ Reject(d) \/ HandlerDies(d) PROVE Idles
  <2>1. UNCHANGED <<rows, scan, notes, scanned, directory, outdated>>
    BY <1>9 DEF Read, Write, Reject, HandlerDies, ReadState, Apply, Refuse, Fail, world, remote,
                collector
  <2>2. QED
    BY <2>1 DEF rows, Idles, ServerSame
<1>10. CASE UNCHANGED allVars
    BY <1>10 DEF allVars, vars, world, remote, collector, Kinds, Idles, ServerSame
<1>11. QED
    BY <1>1, <1>2, <1>3, <1>4, <1>5, <1>6, <1>7, <1>8, <1>9, <1>10
       DEF NextDelivery, Collect, Kinds

\* What is retained is a message with a run's name, and not of the kind that
\* needs none.
LEMMA RetainedType ==
    ASSUME DInv, NEW s \in Sources, Ordered(s), notes[s].outbox # None
    PROVE  /\ notes[s].outbox \in Traffic
           /\ notes[s].outbox.op \in {"begin", "page", "complete", "abort"}
           /\ notes[s].outbox.snap \in SnapshotIds
           /\ Running(s) = notes[s].outbox.snap /\ Running(s) # None
<1>1. notes[s].outbox \in Traffic
    BY DeliveryTypes
<1>2. QED
    BY <1>1, TrafficType, AbsentAssumption DEF Ordered, Operations, Running, Retains

\* An acknowledgement ends the run or leaves it under way.
LEMMA NotesRunning ==
    ASSUME DInv, NEW s \in Sources, Ordered(s), notes[s].outbox # None, Notes(s)
    PROVE  /\ notes[s].outbox.op \in {"begin", "page"} => Running(s)' = Running(s)
           /\ notes[s].outbox.op \in {"complete", "abort"} => Running(s)' = None
BY RetainedType DEF Notes, OpenAfter, Running, Retains

\* Only a beginning gives a source a run, and only a completion that is noted
\* takes back what was said to complete it.
LEMMA RunningMoves ==
    ASSUME DInv, InOrder, Kinds, NEW t \in Sources
    PROVE  /\ \/ Running(t)' = Running(t) \/ Running(t)' = None
              \/ \E g \in SnapshotIds : Begins(t, g) /\ Running(t)' = g
           /\ Retains(t, "complete") => Retains(t, "complete")' \/ Running(t)' = None
<1>1. ASSUME notes'[t] = notes[t]
      PROVE  Running(t)' = Running(t) /\ Retains(t, "complete")' = Retains(t, "complete")
    BY <1>1 DEF Running, Retains
<1>2. CASE notes[t].outbox # None /\ Notes(t)
    BY <1>2, NotesRunning, RetainedType DEF InOrder, Retains
<1>3. ASSUME NEW op, NEW g, NEW puts, Writes(t, op, g, puts),
             op = "begin" \/ g = notes[t].open
      PROVE  /\ op # "begin" => Running(t)' = Running(t)
             /\ op = "begin" => Running(t)' = g
             /\ ~Retains(t, "complete")
    BY <1>3 DEF Writes, Running, Retains
<1>4. CASE Idles \/ ChangeDirectory
    BY <1>1, <1>4 DEF Idles, ChangeDirectory, collector
<1>5. ASSUME NEW s \in Sources, Drops(s) PROVE notes'[t] = notes[t]
    BY <1>5 DEF Drops
<1>6. ASSUME NEW s \in Sources, NEW g \in SnapshotIds, Begins(s, g), s # t
      PROVE  notes'[t] = notes[t]
    BY <1>6 DEF Begins, Writes
<1>7. ASSUME NEW g \in SnapshotIds, Begins(t, g)
      PROVE  Running(t)' = g /\ ~Retains(t, "complete")
    BY <1>3, <1>7 DEF Begins
<1>8. ASSUME NEW s \in Sources, NEW keys, Reads(s, keys) \/ Closes(s), s # t
      PROVE  notes'[t] = notes[t]
    BY <1>8 DEF Reads, Closes, Writes
<1>9. ASSUME NEW keys, Reads(t, keys)
      PROVE  Running(t)' = Running(t) /\ ~Retains(t, "complete")
  <2>1. scan[t] # NoScan /\ notes[t].outbox = None /\ Writes(t, "page", scan[t].snap, Says(keys))
    BY <1>9 DEF Reads, Writes
  <2>2. scan[t].snap = notes[t].open
    BY <2>1 DEF InOrder, Ordered, Running, Retains
  <2>3. QED
    BY <1>3, <2>1, <2>2
<1>10. ASSUME Closes(t) PROVE Running(t)' = Running(t) /\ ~Retains(t, "complete")
    BY <1>3, <1>10 DEF Closes
<1>11. ASSUME NEW s \in Sources, Settles(s) \/ Lands(s)
       PROVE  notes'[t] = notes[t] \/ (notes[t].outbox # None /\ Notes(t))
    BY <1>11, DeliveryTypes DEF Settles, Lands, Notes, OneFurther
<1>12. QED
    BY <1>1, <1>2, <1>4, <1>5, <1>6, <1>7, <1>8, <1>9, <1>10, <1>11 DEF Kinds

\* What changes of what runs have read: a new run's, and the run's of the
\* source that reads.
LEMMA ScannedMoves ==
    ASSUME DInv, InOrder, NamesApart, Kinds, NEW h \in SnapshotIds
    PROVE  \/ scanned'[h] = scanned[h]
           \/ scanned[h] = None /\ (\E s \in Sources : Begins(s, h)) /\ scanned'[h] = Empty
           \/ \E s \in Sources, keys \in SUBSET Keys :
                /\ Reads(s, keys) /\ ReadNext(s)
                /\ h = scan[s].snap /\ h = Running(s) /\ notes[s].outbox = None
                /\ scanned[h] # None /\ scanned'[h] = Upsert(scanned[h], Says(keys))
<1>1. CASE Idles \/ ChangeDirectory
    BY <1>1 DEF Idles, ChangeDirectory
<1>2. ASSUME NEW s \in Sources, Drops(s) \/ Closes(s) \/ Settles(s) \/ Lands(s)
      PROVE  scanned'[h] = scanned[h]
    BY <1>2 DEF Drops, Closes, Settles, Lands
<1>3. ASSUME NEW s \in Sources, NEW g \in SnapshotIds, Begins(s, g), scanned'[h] # scanned[h]
      PROVE  scanned[h] = None /\ Begins(s, h) /\ scanned'[h] = Empty
    BY <1>3 DEF Begins, NamesApart
<1>4. ASSUME NEW s \in Sources, NEW keys \in SUBSET Keys, Reads(s, keys),
             scanned'[h] # scanned[h]
      PROVE  /\ h = scan[s].snap /\ h = Running(s) /\ notes[s].outbox = None
             /\ scanned[h] # None /\ scanned'[h] = Upsert(scanned[h], Says(keys))
  <2>1. /\ scan[s] # NoScan /\ notes[s].outbox = None /\ scan[s].snap \in SnapshotIds
        /\ scanned' = [scanned EXCEPT ![scan[s].snap] = Upsert(@, Says(keys))]
    BY <1>4 DEF Reads, Writes
  <2>2. h = scan[s].snap /\ scanned'[h] = Upsert(scanned[h], Says(keys))
    BY <1>4, <2>1 DEF NamesApart
  <2>3. h = Running(s)
    BY <2>1, <2>2 DEF InOrder, Ordered
  <2>4. QED
    BY <2>1, <2>2, <2>3, AbsentAssumption DEF NamesApart
<1>5. QED
    BY <1>1, <1>2, <1>3, <1>4 DEF Kinds

\* What the begun run of one source has read is not another's to change.
LEMMA OrderedStays ==
    ASSUME DInv, InOrder, NamesApart, Kinds, NEW t \in Sources,
           notes'[t] = notes[t], scan'[t] = scan[t] \/ scan'[t] = NoScan
    PROVE  Ordered(t)'
<1>1. Running(t)' = Running(t) /\ Ordered(t)
    BY DEF Running, Retains, InOrder
<1>2. ASSUME Retains(t, "begin")
      PROVE  scanned'[notes[t].outbox.snap] = scanned[notes[t].outbox.snap]
  <2>1. notes[t].outbox.snap \in SnapshotIds /\ Running(t) = notes[t].outbox.snap
        /\ Running(t) # None
    BY <1>1, <1>2, RetainedType DEF Retains
  <2>2. scanned[Running(t)] # None
    BY <2>1 DEF NamesApart
  <2>3. ASSUME NEW s \in Sources, notes[s].outbox = None, Running(t) = Running(s) PROVE FALSE
    BY <1>2, <2>1, <2>3 DEF NamesApart, Retains
  <2>4. QED
    BY <2>1, <2>2, <2>3, ScannedMoves
<1>3. QED
    BY <1>1, <1>2 DEF Ordered, Retains

LEMMA StepInOrder == ASSUME DInv, RunInv, Kinds PROVE InOrder'
<1> USE DEF RunInv
<1>1. SUFFICES ASSUME NEW t \in Sources PROVE Ordered(t)'
    BY DEF InOrder
<1>2. CASE Idles \/ ChangeDirectory
    BY <1>2, OrderedStays DEF Idles, ChangeDirectory, collector
<1>3. ASSUME NEW s \in Sources, Drops(s) PROVE Ordered(t)'
    BY <1>3, OrderedStays DEF Drops
<1>4. ASSUME NEW s \in Sources, s # t, NEW g, NEW keys, Begins(s, g) \/ Reads(s, keys) \/ Closes(s)
      PROVE  Ordered(t)'
    BY <1>4, OrderedStays DEF Begins, Reads, Closes, Writes
<1>5. ASSUME NEW g \in SnapshotIds, Begins(t, g) PROVE Ordered(t)'
  <2>1. /\ notes'[t].outbox # None /\ notes'[t].outbox.op = "begin" /\ notes'[t].outbox.snap = g
        /\ notes'[t].open = None /\ scanned'[g] = Empty /\ scan'[t].snap = g
    BY <1>5 DEF Begins, Writes, NamesApart, NoScan
  <2>2. QED
    BY <2>1 DEF Ordered, Running, Retains
<1>6. ASSUME NEW keys \in SUBSET Keys, Reads(t, keys) PROVE Ordered(t)'
  <2>1. /\ notes'[t].outbox # None /\ notes'[t].outbox.op = "page"
        /\ notes'[t].outbox.snap = scan[t].snap
        /\ notes'[t].open = notes[t].open /\ scan'[t].snap = scan[t].snap
        /\ scan[t].snap \in SnapshotIds /\ scan[t] # NoScan /\ notes[t].outbox = None
    BY <1>6 DEF Reads, Writes
  <2>2. notes[t].open = scan[t].snap /\ notes[t].open # None
    BY <2>1, AbsentAssumption DEF InOrder, Ordered, Running, Retains
  <2>3. QED
    BY <2>1, <2>2 DEF Ordered, Running, Retains
<1>7. ASSUME Closes(t) PROVE Ordered(t)'
    BY <1>7 DEF Closes, Writes, Ordered, Running, Retains
<1>8. ASSUME NEW s \in Sources, Settles(s) \/ Lands(s), ~(notes[t].outbox # None /\ Notes(t))
      PROVE  Ordered(t)'
  <2>1. notes[s].outbox # None
    BY <1>8, DeliveryTypes DEF Settles, Lands, OneFurther
  <2>2. scan' = scan /\ notes'[t] = notes[t]
    BY <1>8, <2>1 DEF Settles, Lands, Notes
  <2>3. QED
    BY <2>2, OrderedStays
<1>9. ASSUME NEW s \in Sources, Settles(s) \/ Lands(s), notes[t].outbox # None, Notes(t)
      PROVE  Ordered(t)'
  <2>1. Ordered(t) /\ scan' = scan /\ notes'[t].outbox = None
    BY <1>9 DEF Settles, Lands, Notes, InOrder
  <2>2. scan[t] # NoScan => Running(t)' = Running(t)
    BY <1>9, <2>1, NotesRunning, RetainedType DEF Ordered
  <2>3. QED
    BY <2>1, <2>2 DEF Ordered
<1>10. QED
    BY <1>2, <1>3, <1>4, <1>5, <1>6, <1>7, <1>8, <1>9 DEF Kinds

\* What is completed was completed before or is so now.
LEMMA CompletedMoves ==
    ASSUME DInv, InOrder, Kinds, NEW s \in Sources
    PROVE  \/ receipts'[s] = receipts[s] /\ Completed(s)' = Completed(s)
           \/ /\ Lands(s) /\ notes[s].outbox.op # "complete"
              /\ Completed(s)' = Completed(s)
           \/ /\ Lands(s) /\ Retains(s, "complete")
              /\ Completed(s)' = Completed(s) \cup {notes[s].outbox}
<1>1. CASE receipts'[s] = receipts[s]
    BY <1>1 DEF Completed
<1>2. CASE receipts'[s] # receipts[s]
  <2>1. Lands(s)
    BY <1>2
       DEF Kinds, Idles, ServerSame, ChangeDirectory, vars, Drops, Begins, Reads, Closes, Writes,
           Settles, Lands
  <2>2. notes[s].outbox # None /\ receipts'[s] = receipts[s] \cup {notes[s].outbox}
    BY <2>1, DeliveryTypes DEF Lands
  <2>3. QED
    BY <2>1, <2>2 DEF Completed, Retains
<1>3. QED
    BY <1>1, <1>2

LEMMA StepNames == ASSUME DInv, RunInv, Kinds PROVE NamesApart'
<1> USE DEF RunInv
<1>1. \A keys \in SUBSET Keys : Says(keys) \in Inventory
    BY DEF Says, Observed, Inventory, Evidence
<1>2. \A h \in SnapshotIds : scanned[h] # None => scanned'[h] # None
  <2>1. \A h \in SnapshotIds, keys \in SUBSET Keys :
            scanned[h] # None => Upsert(scanned[h], Says(keys)) \in Inventory
    BY <1>1, InventoryType DEF NamesApart
  <2>2. QED
    BY <2>1, ScannedMoves, AbsentAssumption
<1>3. scanned' \in [SnapshotIds -> Inventory \cup {None}]
  <2>1. CASE scanned' = scanned
    BY <2>1 DEF NamesApart
  <2>2. ASSUME NEW s \in Sources, NEW g \in SnapshotIds, Begins(s, g)
        PROVE  scanned' \in [SnapshotIds -> Inventory \cup {None}]
    BY <2>2, InventoryType DEF NamesApart, Begins
  <2>3. ASSUME NEW s \in Sources, NEW keys \in SUBSET Keys, Reads(s, keys)
        PROVE  scanned' \in [SnapshotIds -> Inventory \cup {None}]
    <3>1. scan[s] # NoScan /\ scan[s].snap \in SnapshotIds
      BY <2>3 DEF Reads
    <3>2. scanned[scan[s].snap] # None
      BY <3>1, AbsentAssumption DEF NamesApart, InOrder, Ordered
    <3>3. Upsert(scanned[scan[s].snap], Says(keys)) \in Inventory
      BY <1>1, <3>1, <3>2, InventoryType DEF NamesApart
    <3>4. QED
      BY <2>3, <3>1, <3>3 DEF Reads, NamesApart
  <2>4. QED
    BY <2>1, <2>2, <2>3
       DEF Kinds, Idles, ChangeDirectory, Drops, Closes, Settles, Lands
<1>4. \A s \in Sources : Running(s) # None => Running(s) \in SnapshotIds
    BY RetainedType, DeliveryTypes DEF InOrder, Running, Retains
<1>5. ASSUME NEW s \in Sources, NEW g \in SnapshotIds, Begins(s, g)
      PROVE  /\ scanned[g] = None /\ Running(s)' = g /\ Running(s) = None
             /\ scanned'[g] # None /\ receipts' = receipts
             /\ \A t \in Sources \ {s} : Running(t)' = Running(t)
  <2>1. scanned[g] = None /\ scanned'[g] = Empty /\ receipts' = receipts
    BY <1>5 DEF Begins, NamesApart, Writes, ServerSame
  <2>2. Running(s)' = g /\ Running(s) = None
    BY <1>5 DEF Begins, Writes, Running, Retains
  <2>3. \A t \in Sources \ {s} : Running(t)' = Running(t)
    BY <1>5 DEF Begins, Writes, Running, Retains
  <2>4. QED
    BY <2>1, <2>2, <2>3, InventoryType, AbsentAssumption
<1>6. ASSUME NEW s \in Sources, Running(s)' # None PROVE scanned'[Running(s)'] # None
    BY <1>2, <1>4, <1>5, <1>6, RunningMoves DEF NamesApart
<1>7. ASSUME NEW s \in Sources, NEW t \in Sources, Running(s)' # None, Running(t)' = Running(s)'
      PROVE  t = s
  <2>1. CASE Running(s)' = Running(s) /\ Running(t)' = Running(t)
    BY <1>7, <2>1 DEF NamesApart
  <2>2. ASSUME NEW g \in SnapshotIds, Begins(s, g) \/ Begins(t, g), t # s PROVE FALSE
    BY <1>4, <1>5, <1>7, <2>2 DEF NamesApart
  <2>3. QED
    BY <1>7, <2>1, <2>2, RunningMoves
<1>8. ASSUME NEW s \in Sources, NEW m \in Completed(s)'
      PROVE  /\ m.snap \in SnapshotIds /\ scanned[m.snap] # None
             /\ m \in Completed(s) \/ (Lands(s) /\ Retains(s, "complete") /\ m = notes[s].outbox)
  <2>1. m \in Completed(s) \/ (Lands(s) /\ Retains(s, "complete") /\ m = notes[s].outbox)
    BY <1>8, CompletedMoves
  <2>2. CASE m \in Completed(s)
    <3>1. m \in Traffic /\ m.op = "complete"
      BY <2>2, DeliveryTypes DEF Completed
    <3>2. QED
      BY <2>2, <3>1, TrafficType DEF NamesApart
  <2>3. CASE Lands(s) /\ Retains(s, "complete") /\ m = notes[s].outbox
    BY <2>3, RetainedType DEF Retains, InOrder, NamesApart
  <2>4. QED
    BY <2>1, <2>2, <2>3
<1>9. \A s \in Sources : \A m \in Completed(s)' : scanned'[m.snap] # None
    BY <1>2, <1>8
<1>10. ASSUME NEW s \in Sources, NEW t \in Sources, NEW m \in Completed(s)',
              Running(t)' = m.snap
       PROVE  t = s /\ Retains(s, "complete")'
  <2>1. Running(t)' # None
    BY <1>8, <1>10, AbsentAssumption
  <2>2. Running(t)' = Running(t)
    BY <1>5, <1>8, <1>10, <2>1, RunningMoves
  <2>3. t = s /\ Retains(s, "complete")
    <3>1. CASE m \in Completed(s)
      BY <1>10, <2>2, <3>1 DEF NamesApart
    <3>2. CASE Lands(s) /\ Retains(s, "complete") /\ m = notes[s].outbox
      <4>1. Ordered(s) /\ notes[s].outbox # None
        BY <3>2 DEF InOrder, Retains
      <4>2. Running(s) = m.snap /\ Running(s) # None
        BY <3>2, <4>1, RetainedType
      <4>3. Running(t) = Running(s)
        BY <1>10, <2>2, <4>2
      <4>4. QED
        BY <3>2, <4>2, <4>3 DEF NamesApart
    <3>3. QED
      BY <1>8, <3>1, <3>2
  <2>4. QED
    BY <2>1, <2>3, RunningMoves
<1>11. QED
    BY <1>3, <1>6, <1>7, <1>9, <1>10 DEF NamesApart

\* Nothing put into an inventory leaves it.
LEMMA UpsertNothing == ASSUME NEW inv \in Inventory PROVE Upsert(inv, Empty) = inv
BY DEF Upsert, Empty, Inventory

\* A snapshot the server has open is the one its collector has under way.
LEMMA OpenIsRunning ==
    ASSUME DInv, InOrder, NEW s \in Sources, connector[s].open # None
    PROVE  connector[s].open = Running(s) /\ connector[s].open \in SnapshotIds
<1>1. CASE Level(connector[s], notes[s])
  <2>1. notes[s].open # None /\ connector[s].open = notes[s].open
    BY <1>1 DEF Level
  <2>2. ~Retains(s, "begin")
    BY <2>1 DEF InOrder, Ordered, Retains
  <2>3. QED
    BY <2>1, <2>2, DeliveryTypes DEF Running
<1>2. CASE OneFurther(connector[s], notes[s], receipts[s])
  <2>1. notes[s].outbox # None /\ connector[s].open = notes[s].outbox.snap
    BY <1>2 DEF OneFurther, OpenAfter
  <2>2. QED
    BY <2>1, RetainedType DEF InOrder
<1>3. QED
    BY <1>1, <1>2 DEF DInv, InStep

\* With the server's rows and the collector's message, what is staged stays.
LEMMA StagedReadStays ==
    ASSUME DInv, RunInv, Kinds, NEW t \in Sources,
           facts'[t] = facts[t], connector'[t].seq = connector[t].seq,
           connector'[t].open = connector[t].open, Pending(t)' = Pending(t),
           \A keys : ~Reads(t, keys)
    PROVE  StagedRead(t)'
<1> USE DEF RunInv
<1>1. ASSUME connector[t].open # None
      PROVE  scanned'[connector[t].open] = scanned[connector[t].open]
  <2>1. connector[t].open = Running(t) /\ connector[t].open \in SnapshotIds
    BY <1>1, OpenIsRunning
  <2>2. scanned[connector[t].open] # None
    BY <1>1, <2>1 DEF NamesApart
  <2>3. ASSUME NEW s \in Sources, connector[t].open = Running(s) PROVE s = t
    BY <1>1, <2>1, <2>3 DEF NamesApart
  <2>4. QED
    BY <2>1, <2>2, <2>3, ScannedMoves
<1>2. QED
    BY <1>1 DEF StagedRead, StagedIsRead

\* A message that lands leaves staged what the run has read.
LEMMA LandedIsStaged ==
    ASSUME DInv, RunInv, NEW t \in Sources, Lands(t), OpenAfter(notes[t].outbox) # None
    PROVE  StagedRead(t)'
<1> USE DEF RunInv
<1> DEFINE m == notes[t].outbox
           g == connector[t].open
<1>0. /\ facts[t] \in [Generations -> Inventory] /\ connector[t].seq \in Nat
      /\ notes[t].acked \in Nat /\ Ordered(t)
    BY DeliveryTypes DEF TypeOK, InOrder
<1>1. /\ m \in Traffic /\ m # None /\ Acceptable(t, m, g) /\ scanned' = scanned
      /\ m.seq = notes[t].acked + 1 /\ connector[t].seq = notes[t].acked
      /\ connector'[t].seq = m.seq /\ connector'[t].open = OpenAfter(m)
      /\ facts'[t] = Applied(t, m) /\ ((UNCHANGED notes) \/ Notes(t))
  BY DeliveryTypes DEF Lands, Level
<1>2. Pending(t)' = Empty
  BY <1>0, <1>1 DEF Pending, Retains, Notes
<1>3. m.op \in {"begin", "page"} /\ m.snap \in SnapshotIds /\ connector'[t].open = m.snap
  BY <1>0, <1>1, RetainedType DEF OpenAfter
<1>4. m.snap \in Generations /\ m.snap # "live"
  BY <1>1, <1>3 DEF Acceptable, Generations
<1>5. CASE m.op = "begin"
  <2>1. facts'[t][m.snap] = Empty
    BY <1>1, <1>5 DEF Applied, Acceptable
  <2>2. scanned[m.snap] = Empty
    BY <1>0, <1>1, <1>5 DEF Ordered
  <2>3. QED
    BY <1>1, <1>2, <1>3, <2>1, <2>2, UpsertNothing, InventoryType DEF StagedRead
<1>6. CASE m.op = "page"
  <2>1. g = m.snap
    BY <1>1, <1>6 DEF Acceptable
  <2>2. Pending(t) = m.puts
    BY <1>1, <1>6 DEF Pending, Retains
  <2>3. Upsert(facts[t][m.snap], m.puts) = scanned[m.snap]
    BY <1>3, <2>1, <2>2, AbsentAssumption DEF StagedIsRead, StagedRead
  <2>4. facts'[t][m.snap] = Upsert(facts[t][m.snap], m.puts)
    BY <1>0, <1>1, <1>4, <1>6 DEF Applied
  <2>5. Upsert(facts[t][m.snap], m.puts) \in Inventory
    BY <1>0, <1>1, <1>4, InventoryType, TrafficType
  <2>6. QED
    BY <1>1, <1>2, <1>3, <2>3, <2>4, <2>5, UpsertNothing DEF StagedRead
<1>7. QED
  BY <1>3, <1>5, <1>6

LEMMA StepStagedIsRead == ASSUME DInv, RunInv, Kinds PROVE StagedIsRead'
<1> USE DEF RunInv
<1>1. SUFFICES ASSUME NEW t \in Sources PROVE StagedRead(t)'
    BY DEF StagedIsRead
<1> DEFINE m == notes[t].outbox
           g == connector[t].open
<1>2. /\ facts[t] \in [Generations -> Inventory] /\ connector[t].seq \in Nat
      /\ notes[t].acked \in Nat /\ Ordered(t)
      /\ m = None => Level(connector[t], notes[t])
    BY DeliveryTypes DEF TypeOK, InOrder, DInv, InStep, OneFurther
<1>3. ASSUME notes'[t] = notes[t], ServerSame, \A keys : ~Reads(t, keys) PROVE StagedRead(t)'
  <2>1. Pending(t)' = Pending(t)
    BY <1>3 DEF Pending, Retains, ServerSame
  <2>2. QED
    BY <1>3, <2>1, StagedReadStays DEF ServerSame
<1>4. ASSUME NEW op, NEW h, NEW puts, Writes(t, op, h, puts)
      PROVE  /\ Pending(t) = Empty /\ Pending(t)' = IF op = "page" THEN puts ELSE Empty
             /\ ServerSame /\ Level(connector[t], notes[t])
    BY <1>2, <1>4 DEF Writes, Pending, Retains, ServerSame, Level
<1>5. CASE Idles \/ ChangeDirectory
  <2>1. ServerSame /\ notes' = notes /\ scan' = scan
    BY <1>5 DEF Idles, ChangeDirectory, vars, collector, ServerSame
  <2>2. \A keys : ~Reads(t, keys)
    BY <2>1 DEF Reads, Writes
  <2>3. QED
    BY <1>3, <2>1, <2>2
<1>6. ASSUME NEW s \in Sources, Drops(s) PROVE StagedRead(t)'
    BY <1>3, <1>6 DEF Drops, Reads, Writes
<1>7. ASSUME NEW s \in Sources, s # t, NEW h, NEW keys,
             Begins(s, h) \/ Reads(s, keys) \/ Closes(s)
      PROVE  StagedRead(t)'
  <2>1. ServerSame /\ notes'[t] = notes[t]
    BY <1>7 DEF Begins, Reads, Closes, Writes
  <2>2. \A ks : ~Reads(t, ks)
    BY <2>1 DEF Reads, Writes
  <2>3. QED
    BY <1>3, <2>1, <2>2
<1>8. ASSUME NEW h, Begins(t, h) \/ Closes(t) PROVE StagedRead(t)'
  <2>1. Pending(t)' = Pending(t) /\ ServerSame
    BY <1>4, <1>8 DEF Begins, Closes
  <2>2. \A keys : ~Reads(t, keys)
    BY <1>8 DEF Begins, Closes, Reads
  <2>3. QED
    BY <2>1, <2>2, StagedReadStays DEF ServerSame
<1>9. ASSUME NEW keys \in SUBSET Keys, Reads(t, keys) PROVE StagedRead(t)'
  <2>1. /\ Writes(t, "page", scan[t].snap, Says(keys)) /\ scan[t] # NoScan
        /\ scan[t].snap \in SnapshotIds /\ m = None
        /\ scanned' = [scanned EXCEPT ![scan[t].snap] = Upsert(@, Says(keys))]
    BY <1>9 DEF Reads, Writes
  <2>2. Pending(t) = Empty /\ Pending(t)' = Says(keys) /\ ServerSame /\ g = notes[t].open
    BY <1>4, <2>1 DEF Level
  <2>3. scan[t].snap = g
    BY <1>2, <2>1, <2>2 DEF Ordered, Running, Retains
  <2>4. facts[t][g] \in Inventory
    BY <1>2, <2>1, <2>3 DEF Generations
  <2>5. facts[t][g] = scanned[g]
    BY <2>1, <2>2, <2>3, <2>4, UpsertNothing, AbsentAssumption DEF StagedIsRead, StagedRead
  <2>6. scanned'[g] = Upsert(scanned[g], Says(keys))
    BY <2>1, <2>3 DEF NamesApart
  <2>7. QED
    BY <2>2, <2>5, <2>6 DEF StagedRead, ServerSame
<1>10. ASSUME NEW s \in Sources, s # t, Settles(s) \/ Lands(s) PROVE StagedRead(t)'
  <2>1. /\ notes'[t] = notes[t] /\ facts'[t] = facts[t] /\ scan' = scan
        /\ connector'[t].seq = connector[t].seq /\ connector'[t].open = connector[t].open
    BY <1>10 DEF Settles, Lands, ServerSame, Notes
  <2>2. Pending(t)' = Pending(t)
    BY <2>1 DEF Pending, Retains
  <2>3. \A keys : ~Reads(t, keys)
    BY <2>1 DEF Reads, Writes
  <2>4. QED
    BY <2>1, <2>2, <2>3, StagedReadStays
<1>11. CASE Settles(t)
  <2>1. Pending(t) = Empty /\ Pending(t)' = Empty
    BY <1>2, <1>11 DEF Settles, OneFurther, Notes, Pending, Retains
  <2>2. \A keys : ~Reads(t, keys)
    BY <1>11 DEF Settles, OneFurther, Reads, Writes
  <2>3. QED
    BY <1>11, <2>1, <2>2, StagedReadStays DEF Settles, ServerSame
<1>12. CASE Lands(t)
  <2>1. OpenAfter(m) = None => StagedRead(t)'
    BY <1>12 DEF Lands, StagedRead
  <2>2. OpenAfter(m) # None => StagedRead(t)'
    BY <1>12, LandedIsStaged
  <2>3. QED
    BY <2>1, <2>2
<1>13. QED
    BY <1>5, <1>6, <1>7, <1>8, <1>9, <1>10, <1>11, <1>12 DEF Kinds

\* The run completed last is completed.
LEMMA LastIsCompleted ==
    ASSUME LastIsOne, NEW s \in Sources, Completed(s) # {}
    PROVE  /\ LastCompleted(s) \in Completed(s)
           /\ \A n \in Completed(s) : n.seq <= LastCompleted(s).seq
BY DEF LastIsOne, LastCompleted

\* What landed as the end of a run is the last of the runs completed.
LEMMA LandedIsLast ==
    ASSUME DInv, InOrder, Kinds, NEW s \in Sources, Lands(s), Retains(s, "complete"),
           Completed(s)' = Completed(s) \cup {notes[s].outbox}
    PROVE  /\ \A n \in Completed(s)' : n.seq <= notes[s].outbox.seq
           /\ LastCompleted(s)' = notes[s].outbox
<1> DEFINE m == notes[s].outbox
<1>1. m \in Traffic /\ m.seq \in Nat /\ m.seq = connector[s].seq + 1
    BY DeliveryTypes, TrafficType DEF Lands, Level
<1>2. ASSUME NEW n \in Completed(s) PROVE n.seq \in Nat /\ n.seq < m.seq
  <2>1. n \in receipts[s]
    BY DEF Completed
  <2>2. n.seq \in 1 .. connector[s].seq
    BY <2>1 DEF DInv, IInv, ReceiptsAreThePrefix
  <2>3. QED
    BY <1>1, <2>2, DeliveryTypes
<1>3. m \in Completed(s)' /\ \A n \in Completed(s)' : n.seq <= m.seq
    BY <1>1, <1>2
<1>4. ASSUME NEW c \in Completed(s)', \A n \in Completed(s)' : n.seq <= c.seq PROVE c = m
    BY <1>1, <1>2, <1>3, <1>4
<1> DEFINE S == Completed(s)'
<1> HIDE DEF m, S
<1>5. (CHOOSE c \in S : \A n \in S : n.seq <= c.seq) = m
    BY <1>3, <1>4 DEF S
<1>6. QED
    BY <1>3, <1>5 DEF LastCompleted, S, m

\* What is stored of a source changes when a message of it lands.
LEMMA OnlyLandingWrites ==
    ASSUME Kinds, NEW s \in Sources, facts'[s] # facts[s] PROVE Lands(s)
<1>1. ~ServerSame
    BY DEF ServerSame
<1>2. ~Idles /\ ~ChangeDirectory
    BY <1>1 DEF Idles, ChangeDirectory, vars
<1>3. ASSUME NEW t \in Sources, NEW g, NEW keys
      PROVE  ~Drops(t) /\ ~Begins(t, g) /\ ~Reads(t, keys) /\ ~Closes(t) /\ ~Settles(t)
    BY <1>1 DEF Drops, Begins, Reads, Closes, Writes, Settles
<1>4. ASSUME NEW t \in Sources, Lands(t) PROVE t = s
    BY <1>4 DEF Lands
<1>5. QED
    BY <1>2, <1>3, <1>4 DEF Kinds

LEMMA StepPublished == ASSUME DInv, RunInv, Kinds PROVE LastIsOne' /\ PublishedIsOneRun'
<1> USE DEF RunInv
<1>1. SUFFICES ASSUME NEW s \in Sources
               PROVE  /\ \/ Completed(s)' = {}
                         \/ \E m \in Completed(s)' : \A n \in Completed(s)' : n.seq <= m.seq
                      /\ facts'[s]["live"] = IF Completed(s)' = {} THEN Empty
                                             ELSE scanned'[LastCompleted(s)'.snap]
    BY DEF LastIsOne, PublishedIsOneRun
<1>2. ASSUME Completed(s)' = Completed(s), facts'[s]["live"] = facts[s]["live"]
      PROVE  /\ \/ Completed(s)' = {}
                \/ \E m \in Completed(s)' : \A n \in Completed(s)' : n.seq <= m.seq
             /\ facts'[s]["live"] = IF Completed(s)' = {} THEN Empty
                                    ELSE scanned'[LastCompleted(s)'.snap]
  <2>1. LastCompleted(s)' = LastCompleted(s)
    BY <1>2 DEF LastCompleted
  <2>2. ASSUME Completed(s) # {}
        PROVE  scanned'[LastCompleted(s).snap] = scanned[LastCompleted(s).snap]
    <3> DEFINE m == LastCompleted(s)
    <3>1. m \in Completed(s) /\ m \in Traffic /\ m.op = "complete"
      BY <2>2, LastIsCompleted, DeliveryTypes DEF Completed
    <3> HIDE DEF m
    <3>2. m.snap \in SnapshotIds /\ scanned[m.snap] # None
      BY <3>1, TrafficType DEF NamesApart
    <3>3. ASSUME NEW t \in Sources, Running(t) = m.snap PROVE notes[t].outbox # None
      BY <3>1, <3>3 DEF NamesApart, Retains
    <3>4. scanned'[m.snap] = scanned[m.snap]
      BY <3>2, <3>3, ScannedMoves
    <3>5. QED
      BY <3>4 DEF m
  <2>3. QED
    BY <1>2, <2>1, <2>2 DEF LastIsOne, PublishedIsOneRun
<1>3. facts[s] \in [Generations -> Inventory]
    BY DeliveryTypes DEF TypeOK
<1>4. CASE receipts'[s] = receipts[s] /\ Completed(s)' = Completed(s)
  <2>1. CASE facts'[s] = facts[s]
    BY <1>2, <1>4, <2>1
  <2>2. ~Lands(s)
    <3>1. SUFFICES ASSUME Lands(s) PROVE FALSE
      OBVIOUS
    <3>2. notes[s].outbox \in receipts[s] /\ notes[s].outbox.seq = connector[s].seq + 1
      BY <1>4, <3>1 DEF Lands, Level
    <3>3. notes[s].outbox.seq \in 1 .. connector[s].seq
      BY <3>2 DEF DInv, IInv, ReceiptsAreThePrefix
    <3>4. QED
      BY <3>2, <3>3, DeliveryTypes
  <2>3. QED
    BY <2>1, <2>2, OnlyLandingWrites
<1>5. CASE Lands(s) /\ notes[s].outbox.op # "complete" /\ Completed(s)' = Completed(s)
  <2> DEFINE m == notes[s].outbox
  <2>1. /\ m \in Traffic /\ m # None /\ Acceptable(s, m, connector[s].open)
        /\ facts'[s] = Applied(s, m)
    BY <1>5, DeliveryTypes DEF Lands
  <2>2. m.snap # "live" /\ ~Publishes(m)
    BY <1>5, <2>1, RetainedType DEF Acceptable, Publishes, InOrder
  <2>3. Applied(s, m)["live"] = facts[s]["live"]
    BY <2>1, <2>2, AppliedLive, DeliveryTypes DEF TypeOK
  <2>4. QED
    BY <1>2, <1>5, <2>1, <2>3
<1>6. CASE Lands(s) /\ Retains(s, "complete")
           /\ Completed(s)' = Completed(s) \cup {notes[s].outbox}
  <2> DEFINE m == notes[s].outbox
  <2>1. /\ m \in Traffic /\ m # None /\ m.op = "complete"
        /\ Acceptable(s, m, connector[s].open)
        /\ facts'[s] = Applied(s, m) /\ scanned' = scanned
        /\ connector[s].seq = notes[s].acked
    BY <1>6, DeliveryTypes DEF Lands, Retains, Level
  <2>2. connector[s].open = m.snap /\ m.snap # "live" /\ m.snap \in SnapshotIds
    BY <2>1, TrafficType DEF Acceptable
  <2>3. facts'[s]["live"] = facts[s][m.snap]
    BY <1>3, <2>1, <2>2 DEF Applied, Promote, Generations
  <2>4. Pending(s) = Empty
    BY <2>1 DEF Pending, Retains
  <2>5. facts[s][m.snap] = scanned[m.snap]
    BY <1>3, <2>2, <2>4, UpsertNothing, AbsentAssumption
       DEF StagedIsRead, StagedRead, Generations
  <2>6. /\ \A n \in Completed(s)' : n.seq <= m.seq
        /\ LastCompleted(s)' = m
    BY <1>6, LandedIsLast
  <2>7. QED
    BY <1>6, <2>1, <2>3, <2>5, <2>6
<1>7. QED
    BY <1>4, <1>5, <1>6, CompletedMoves

LEMMA InitRunInv == InitDelivery => RunInv
<1> SUFFICES ASSUME InitDelivery PROVE RunInv
    OBVIOUS
<1>1. \A s \in Sources : notes[s] = Fresh /\ scan[s] = NoScan /\ receipts[s] = {}
                         /\ connector[s].open = None
                         /\ facts[s]["live"] = Empty
    BY DEF InitDelivery, Init, Unregistered, Generations
<1>2. ASSUME NEW s \in Sources
      PROVE  /\ notes[s].outbox = None /\ notes[s].open = None
             /\ Running(s) = None /\ Completed(s) = {}
  <2>1. notes[s].outbox = None /\ notes[s].open = None
    BY <1>1 DEF Fresh
  <2>2. Running(s) = None
    BY <2>1 DEF Running, Retains
  <2>3. Completed(s) = {}
    BY <1>1 DEF Completed
  <2>4. QED
    BY <2>1, <2>2, <2>3
<1>3. InOrder
    BY <1>1, <1>2 DEF InOrder, Ordered
<1>4. NamesApart
    BY <1>2 DEF NamesApart, InitDelivery
<1>5. StagedIsRead /\ LastIsOne /\ PublishedIsOneRun
    BY <1>1, <1>2 DEF StagedIsRead, StagedRead, LastIsOne, PublishedIsOneRun
<1>6. QED
    BY <1>3, <1>4, <1>5 DEF RunInv

LEMMA StepRunInv == DInv /\ RunInv /\ TrafficSuffices /\ [NextDelivery]_allVars => RunInv' /\ Kinds
BY StepIsOfAKind, StepInOrder, StepNames, StepStagedIsRead, StepPublished DEF RunInv

\* Every reachable state satisfies it, and every step is of a kind.
LEMMA RunInvariant == TrafficSuffices => (DeliverySpec => []RunInv)
<1> SUFFICES ASSUME TrafficSuffices PROVE DeliverySpec => []RunInv
    OBVIOUS
<1>1. DInv /\ RunInv /\ [NextDelivery]_allVars => RunInv'
    BY StepRunInv
<1>2. QED
    BY <1>1, InitRunInv, DeliveryInvariant, PTL DEF DeliverySpec

\* What is published is what one run read, all of it, and nothing of the runs
\* that were interrupted, whatever was lost, repeated or died (sdk.py:35).
THEOREM PublishedHolds == TrafficSuffices => (DeliverySpec => []PublishedIsOneRun)
<1> SUFFICES ASSUME TrafficSuffices PROVE DeliverySpec => []PublishedIsOneRun
    OBVIOUS
<1>1. RunInv => PublishedIsOneRun
    BY DEF RunInv
<1>2. QED
    BY <1>1, RunInvariant, PTL

-----------------------------------------------------------------------------
(* What a run has read is closed and, if nothing changed meanwhile, true *)

\* What is observed is something.
LEMMA ObservedIsThere == Observed # None
<1>1. Observed \in Evidence
    BY DEF Observed, Evidence
<1>2. QED
    BY <1>1, AbsentAssumption

\* What a page adds to what was read before.
LEMMA SaysMore ==
    ASSUME NEW inv, NEW keys \in SUBSET Keys, NEW k \in Keys
    PROVE  Upsert(inv, Says(keys))[k] = IF k \in keys THEN Observed ELSE inv[k]
BY ObservedIsThere DEF Upsert, Says

\* No membership without its ends.
HasEnds(inv) == \A r \in Relationships : inv[r] # None => Ends[r] \subseteq NodesOf(inv)

\* What a scan accepts members from, it has said.
ListedIsSaid(s) ==
    scan[s] # NoScan =>
        scan[s].users \cup scan[s].groups \subseteq NodesOf(scanned[scan[s].snap])

\* Whatever a run has read so far has its ends.
RunsHaveEnds ==
    /\ \A g \in SnapshotIds : scanned[g] # None => HasEnds(scanned[g])
    /\ \A s \in Sources : ListedIsSaid(s)

\* A page keeps it so: users and groups are no memberships, and a membership
\* is accepted between those listed.
LEMMA ReadKeepsEnds ==
    ASSUME DInv, RunInv, RunsHaveEnds, NEW s \in Sources, ReadNext(s)
    PROVE  HasEnds(scanned'[scan[s].snap]) /\ ListedIsSaid(s)'
<1> DEFINE c == scan[s]
           g == c.snap
           old == scanned[g]
           new == scanned'[g]
<1>1. c # NoScan /\ g \in SnapshotIds /\ c \in ScanState /\ scan \in [Sources -> ScanState]
    BY DeliveryTypes
       DEF ReadNext, ReadUsers, ReadGroups, ReadMembers, Scanning, DInv, ScansHaveNames
<1>2. old # None /\ old \in Inventory
    BY <1>1, AbsentAssumption DEF RunInv, InOrder, Ordered, NamesApart
<1>3. HasEnds(old) /\ c.users \cup c.groups \subseteq NodesOf(old)
    BY <1>1, <1>2 DEF RunsHaveEnds, ListedIsSaid
<1>4. ASSUME NEW keys \in SUBSET Keys, Yield(s, keys)
      PROVE  /\ \A k \in Keys : new[k] = IF k \in keys THEN Observed ELSE old[k]
             /\ Observed # None
             /\ NodesOf(new) = NodesOf(old) \cup (keys \cap Objects)
  <2>1. new = Upsert(old, Says(keys))
    BY <1>1, <1>4 DEF Yield, RunInv, NamesApart
  <2>2. \A k \in Keys : new[k] = IF k \in keys THEN Observed ELSE old[k]
    BY <2>1, SaysMore
  <2>3. Observed # None
    BY ObservedIsThere
  <2>4. Objects \subseteq Keys
    BY DEF Keys
  <2>5. QED
    BY <2>2, <2>3, <2>4 DEF NodesOf
<1>5. Objects \cap Relationships = {} /\ Relationships \subseteq Keys /\ Objects \subseteq Keys
    BY KeysAssumption DEF Keys
<1> HIDE DEF old, new, g
<1>6. ASSUME NEW keys \in SUBSET Objects, Yield(s, keys), scan'[s].snap = g,
             scan'[s].users \cup scan'[s].groups \subseteq c.users \cup c.groups \cup keys
      PROVE  HasEnds(new) /\ ListedIsSaid(s)'
  <2>1. /\ \A k \in Keys : new[k] = IF k \in keys THEN Observed ELSE old[k]
        /\ NodesOf(new) = NodesOf(old) \cup keys
    BY <1>4, <1>5, <1>6
  <2>2. \A r \in Relationships : new[r] = old[r]
    BY <1>5, <2>1
  <2>3. HasEnds(new)
    BY <1>3, <2>1, <2>2 DEF HasEnds
  <2>4. scan'[s].users \cup scan'[s].groups \subseteq NodesOf(new)
    BY <1>3, <1>6, <2>1
  <2>5. QED
    BY <1>6, <2>3, <2>4 DEF ListedIsSaid, NodesOf, new
<1>7. CASE ReadUsers(s)
  <2>1. /\ scan'[s].snap = g /\ scan'[s].users = In("enabled") /\ scan'[s].groups = c.groups
        /\ Yield(s, In("enabled"))
    BY <1>1, <1>7 DEF ReadUsers, ScanState, g
  <2>2. In("enabled") \subseteq Objects
    BY DEF In, Users
  <2>3. QED
    BY <1>6, <2>1, <2>2 DEF new, g
<1>8. CASE ReadGroups(s)
  <2> DEFINE groups == {o \in Groups : directory.account[o] # "absent"}
  <2>1. /\ scan'[s].snap = g /\ scan'[s].users = c.users /\ scan'[s].groups = groups
        /\ Yield(s, groups)
    BY <1>1, <1>8 DEF ReadGroups, ScanState, g
  <2>2. groups \subseteq Objects
    BY DirectoryAssumption
  <2> HIDE DEF groups
  <2>3. QED
    BY <1>6, <2>1, <2>2 DEF new, g
<1>9. ASSUME NEW h \in Groups, ReadMembers(s, h)
      PROVE  HasEnds(new) /\ ListedIsSaid(s)'
  <2> DEFINE keys == Memberships(s, h)
  <2>1. /\ scan'[s].snap = g /\ scan'[s].users = c.users /\ scan'[s].groups = c.groups
        /\ Yield(s, keys) /\ h \in c.groups /\ \A r \in keys : Known(s, r)
    BY <1>1, <1>9 DEF ReadMembers, ScanState, g
  <2>2. keys \subseteq Relationships /\ \A r \in keys : GroupOf[r] = h
    BY DeliveryTypes DEF Memberships, Directory
  <2>3. \A r \in keys : Ends[r] \subseteq NodesOf(old)
    BY <1>3, <2>1, <2>2, DirectoryAssumption DEF Known, Member
  <2> HIDE DEF keys
  <2>4. /\ \A r \in Relationships : r \notin keys => new[r] = old[r]
        /\ NodesOf(new) = NodesOf(old)
    BY <1>4, <1>5, <2>1, <2>2
  <2>5. HasEnds(new)
    BY <1>3, <2>3, <2>4 DEF HasEnds
  <2>6. scan'[s].users \cup scan'[s].groups \subseteq NodesOf(new)
    BY <1>3, <2>1, <2>4
  <2>7. QED
    BY <2>1, <2>5, <2>6 DEF ListedIsSaid, NodesOf, new
<1>10. QED
    BY <1>7, <1>8, <1>9 DEF ReadNext, new, g

\* What a scan that goes on has read stays, unless it reads.
LEMMA ScanStays ==
    ASSUME DInv, RunInv, Kinds, NEW t \in Sources, scan[t] # NoScan, ~ReadNext(t)
    PROVE  scan[t].snap \in SnapshotIds /\ scanned'[scan[t].snap] = scanned[scan[t].snap]
<1> USE DEF RunInv
<1>1. scan[t].snap \in SnapshotIds /\ scan[t].snap = Running(t) /\ Running(t) # None
    BY AbsentAssumption DEF DInv, ScansHaveNames, InOrder, Ordered
<1>2. scanned[scan[t].snap] # None
    BY <1>1 DEF NamesApart
<1>3. \A s \in Sources : scan[t].snap = Running(s) => s = t
    BY <1>1 DEF NamesApart
<1>4. QED
    BY <1>1, <1>2, <1>3, ScannedMoves

\* How the scan of a source can change.
LEMMA ScanMoves ==
    ASSUME Kinds, NEW t \in Sources
    PROVE  \/ scan'[t] = scan[t] \/ scan'[t] = NoScan \/ ReadNext(t)
           \/ \E g \in SnapshotIds : Begins(t, g)
<1>1. CASE Idles \/ ChangeDirectory
    BY <1>1 DEF Idles, ChangeDirectory, collector
<1>2. ASSUME NEW s \in Sources, Drops(s) \/ Closes(s) \/ Settles(s) \/ Lands(s)
      PROVE  scan'[t] = scan[t] \/ scan'[t] = NoScan
    BY <1>2 DEF Drops, Closes, Writes, Settles, Lands
<1>3. ASSUME NEW s \in Sources, s # t, NEW g, NEW keys, Begins(s, g) \/ Reads(s, keys)
      PROVE  scan'[t] = scan[t]
    BY <1>3 DEF Begins, Reads, Writes
<1>4. QED
    BY <1>1, <1>2, <1>3 DEF Kinds

LEMMA StepRunsHaveEnds == ASSUME DInv, RunInv, RunsHaveEnds, Kinds PROVE RunsHaveEnds'
<1>1. ASSUME NEW h \in SnapshotIds, scanned'[h] # None PROVE HasEnds(scanned'[h])
  <2>1. CASE scanned'[h] = scanned[h]
    BY <1>1, <2>1 DEF RunsHaveEnds
  <2>2. CASE scanned'[h] = Empty
    BY <2>2, EmptyHasNothing DEF HasEnds, Keys
  <2>3. ASSUME NEW s \in Sources, ReadNext(s), h = scan[s].snap PROVE HasEnds(scanned'[h])
    BY <2>3, ReadKeepsEnds
  <2>4. QED
    BY <2>1, <2>2, <2>3, ScannedMoves DEF RunInv
<1>2. ASSUME NEW t \in Sources PROVE ListedIsSaid(t)'
  <2>1. CASE ReadNext(t)
    BY <2>1, ReadKeepsEnds
  <2>2. CASE scan'[t] = NoScan
    BY <2>2 DEF ListedIsSaid
  <2>3. ASSUME NEW g \in SnapshotIds, Begins(t, g) PROVE ListedIsSaid(t)'
    BY <2>3 DEF Begins, ListedIsSaid, NoScan
  <2>4. CASE scan'[t] = scan[t] /\ scan[t] # NoScan /\ ~ReadNext(t)
    <3>1. scanned'[scan[t].snap] = scanned[scan[t].snap]
      BY <2>4, ScanStays
    <3>2. QED
      BY <2>4, <3>1 DEF RunsHaveEnds, ListedIsSaid, NodesOf
  <2>5. QED
    BY <2>1, <2>2, <2>3, <2>4, ScanMoves
<1>3. QED
    BY <1>1, <1>2 DEF RunsHaveEnds, HasEnds, NodesOf

\* The runs a source has ended, or is about to.
Ended(s) == Completed(s) \cup (IF Retains(s, "complete") THEN {notes[s].outbox} ELSE {})

\* What a scan has read and kept, if the directory has not changed since it
\* began, is the part of the directory it has come to.
Listed == {o \in Groups : directory.account[o] # "absent"}
Told(read) ==
    {k \in Keys :
        \/ "users" \in read /\ k \in In("enabled")
        \/ "groups" \in read /\ k \in Listed
        \/ k \in directory.links /\ GroupOf[k] \in read /\ Member(k) \cap In("disabled") = {}}
ReadTruly(s) ==
    LET c == scan[s]
    IN  c # NoScan /\ c.snap \notin outdated =>
            /\ "users" \in c.read => c.disabled = In("disabled")
            /\ "groups" \in c.read => c.groups = Listed /\ "users" \in c.read
            /\ c.read \cap Groups # {} => "groups" \in c.read
            /\ scanned[c.snap] = Says(Told(c.read))

\* An undisturbed run that has ended has read the directory.
RunsAreTrue ==
    /\ \A s \in Sources : ReadTruly(s)
    /\ \A s \in Sources : \A m \in Ended(s) : m.snap \notin outdated => scanned[m.snap] = Current

\* Saying more is saying all of it.
LEMMA SaysBoth ==
    ASSUME NEW A \in SUBSET Keys, NEW B \in SUBSET Keys
    PROVE  Upsert(Says(A), Says(B)) = Says(A \cup B)
<1>1. Observed # None
    BY ObservedIsThere
<1>2. \A k \in Keys : (IF Says(B)[k] # None THEN Says(B)[k] ELSE Says(A)[k])
                          = IF k \in A \cup B THEN Observed ELSE None
    BY <1>1 DEF Says
<1>3. /\ Says(A \cup B) = [k \in Keys |-> IF k \in A \cup B THEN Observed ELSE None]
      /\ Upsert(Says(A), Says(B))
           = [k \in Keys |-> IF Says(B)[k] # None THEN Says(B)[k] ELSE Says(A)[k]]
    BY DEF Says, Upsert
<1>4. QED
    BY <1>2, <1>3

\* Each page adds the part it is about.
LEMMA ReadStaysTrue ==
    ASSUME DInv, RunInv, RunsAreTrue, NEW s \in Sources, ReadNext(s) PROVE ReadTruly(s)'
<1> DEFINE c == scan[s]
           e == scan'[s]
           g == c.snap
<1>1. /\ c # NoScan /\ g \in SnapshotIds /\ c \in ScanState /\ scan \in [Sources -> ScanState]
      /\ UNCHANGED <<directory, outdated>>
    BY DeliveryTypes
       DEF ReadNext, ReadUsers, ReadGroups, ReadMembers, Scanning, Yield, DInv, ScansHaveNames
<1>2. /\ {"users", "groups"} \cap Groups = {} /\ Groups \subseteq Keys
      /\ \A r \in Relationships : GroupOf[r] \in Groups
      /\ directory.links \subseteq Relationships /\ Relationships \subseteq Keys
    BY DirectoryAssumption, DeliveryTypes DEF Keys, Directory
<1>3. SUFFICES ASSUME g \notin outdated, e.snap = g
               PROVE  /\ "users" \in e.read => e.disabled = In("disabled")
                      /\ "groups" \in e.read => e.groups = Listed /\ "users" \in e.read
                      /\ e.read \cap Groups # {} => "groups" \in e.read
                      /\ scanned'[g] = Says(Told(e.read))
  <2>1. e.snap = g
    BY <1>1 DEF ReadNext, ReadUsers, ReadGroups, ReadMembers, ScanState
  <2>2. /\ Listed' = Listed /\ In("disabled")' = In("disabled")
        /\ Told(scan[s].read)' = Told(e.read)
    BY <1>1 DEF Listed, In, Told
  <2>3. QED
    BY <1>1, <2>1, <2>2 DEF ReadTruly
<1>4. /\ "users" \in c.read => c.disabled = In("disabled")
      /\ "groups" \in c.read => c.groups = Listed /\ "users" \in c.read
      /\ c.read \cap Groups # {} => "groups" \in c.read
      /\ scanned[g] = Says(Told(c.read))
    BY <1>1, <1>3 DEF RunsAreTrue, ReadTruly
<1>5. ASSUME NEW keys \in SUBSET Keys, Yield(s, keys), Told(e.read) = Told(c.read) \cup keys
      PROVE  scanned'[g] = Says(Told(e.read))
  <2>1. scanned'[g] = Upsert(scanned[g], Says(keys))
    BY <1>1, <1>5 DEF Yield, RunInv, NamesApart
  <2>2. Told(c.read) \in SUBSET Keys
    BY DEF Told
  <2>3. QED
    BY <1>4, <1>5, <2>1, <2>2, SaysBoth
<1>6. CASE ReadUsers(s)
  <2>1. /\ "users" \notin c.read /\ e.read = c.read \cup {"users"}
        /\ e.disabled = In("disabled") /\ e.groups = c.groups
        /\ Yield(s, In("enabled"))
    BY <1>1, <1>6 DEF ReadUsers, ScanState
  <2>2. In("enabled") \subseteq Keys
    BY DEF In, Users, Keys
  <2>3. Told(e.read) = Told(c.read) \cup In("enabled")
    BY <1>2, <2>1, <2>2 DEF Told
  <2>4. QED
    BY <1>2, <1>4, <1>5, <2>1, <2>2, <2>3
<1>7. CASE ReadGroups(s)
  <2>1. /\ "users" \in c.read /\ e.read = c.read \cup {"groups"}
        /\ e.disabled = c.disabled /\ e.groups = Listed
        /\ Yield(s, Listed)
    BY <1>1, <1>7 DEF ReadGroups, ScanState, Listed
  <2>2. Listed \subseteq Keys
    BY <1>2 DEF Listed
  <2>3. Told(e.read) = Told(c.read) \cup Listed
    BY <1>2, <2>1, <2>2 DEF Told
  <2>4. QED
    BY <1>2, <1>4, <1>5, <2>1, <2>2, <2>3
<1>8. ASSUME NEW h \in Groups, ReadMembers(s, h)
      PROVE  /\ "users" \in e.read => e.disabled = In("disabled")
             /\ "groups" \in e.read => e.groups = Listed /\ "users" \in e.read
             /\ e.read \cap Groups # {} => "groups" \in e.read
             /\ scanned'[g] = Says(Told(e.read))
  <2>1. /\ "groups" \in c.read /\ e.read = c.read \cup {h}
        /\ e.disabled = c.disabled /\ e.groups = c.groups
        /\ Yield(s, Memberships(s, h))
    BY <1>1, <1>8 DEF ReadMembers, ScanState
  <2>2. Memberships(s, h)
           = {r \in directory.links : GroupOf[r] = h /\ Member(r) \cap In("disabled") = {}}
    BY <1>4, <2>1 DEF Memberships
  <2>3. Memberships(s, h) \subseteq Keys
    BY <1>2, <2>2
  <2>4. Told(e.read) = Told(c.read) \cup Memberships(s, h)
    BY <1>2, <2>1, <2>2 DEF Told
  <2>5. QED
    BY <1>2, <1>4, <1>5, <2>1, <2>3, <2>4
<1>9. QED
    BY <1>6, <1>7, <1>8 DEF ReadNext

\* All that a scan can tell is the directory as it is.
LEMMA AllIsCurrent ==
    ASSUME DInv, RunsAreTrue, NEW s \in Sources, scan[s] # NoScan, AllRead(s),
           scan[s].snap \notin outdated
    PROVE  scanned[scan[s].snap] = Current
<1> DEFINE read == scan[s].read
           there == {o \in Objects : directory.account[o] = "enabled"}
<1>1. /\ scan[s].groups = Listed /\ scanned[scan[s].snap] = Says(Told(read))
      /\ "users" \in read /\ "groups" \in read /\ Listed \subseteq read
    BY DEF RunsAreTrue, ReadTruly, AllRead
<1>2. /\ directory.account \in [Objects -> Accounts] /\ directory.links \subseteq Relationships
      /\ \A o \in Groups : directory.account[o] # "disabled"
      /\ \A r \in directory.links : \A o \in Ends[r] : directory.account[o] # "absent"
    BY DeliveryTypes DEF Directory
<1>3. /\ Groups \subseteq Objects
      /\ \A r \in Relationships :
           GroupOf[r] \in Groups /\ GroupOf[r] \in Ends[r] /\ Ends[r] \subseteq Objects
    BY DirectoryAssumption, KeysAssumption
<1>4. there = In("enabled") \cup Listed
    BY <1>2, <1>3 DEF In, Users, Listed, Accounts
<1>5. ASSUME NEW r \in directory.links
      PROVE  /\ GroupOf[r] \in read
             /\ Member(r) \cap In("disabled") = {} <=> Ends[r] \subseteq there
  <2>1. GroupOf[r] \in Listed
    BY <1>2, <1>3 DEF Listed
  <2>2. \A o \in Ends[r] : o \in there \/ o \in In("disabled")
    BY <1>2, <1>3 DEF In, Users, Accounts
  <2>3. GroupOf[r] \in there /\ there \cap In("disabled") = {}
    BY <1>4, <2>1 DEF In
  <2>4. QED
    BY <1>1, <2>1, <2>2, <2>3 DEF Member
<1>6. Told(read) = there \cup {r \in directory.links : Ends[r] \subseteq there}
  <2>1. there \subseteq Keys /\ directory.links \subseteq Keys
    BY <1>2 DEF Keys
  <2>2. QED
    BY <1>1, <1>4, <1>5, <2>1 DEF Told
<1>7. QED
    BY <1>1, <1>6 DEF Current

\* A source ends the run it closes, and no other.
LEMMA EndedMoves ==
    ASSUME DInv, RunInv, Kinds, NEW s \in Sources, NEW m \in Ended(s)'
    PROVE  m \in Ended(s) \/ (/\ scan[s] # NoScan /\ AllRead(s) /\ m.snap = scan[s].snap
                             /\ UNCHANGED <<directory, outdated, scanned>>)
<1>1. CASE m \in Completed(s)'
    BY <1>1, CompletedMoves DEF RunInv, Ended
<1>2. CASE Retains(s, "complete")' /\ m = notes'[s].outbox
  <2>1. ASSUME notes'[s] = notes[s] PROVE m \in Ended(s)
    BY <1>2, <2>1 DEF Ended, Retains
  <2>2. ASSUME NEW op, NEW g, NEW puts, Writes(s, op, g, puts) PROVE op = "complete"
    BY <1>2, <2>2 DEF Writes, Retains
  <2>3. ASSUME NEW g, NEW keys PROVE ~Begins(s, g) /\ ~Reads(s, keys)
    <3>1. "begin" # "complete" /\ "page" # "complete"
      OBVIOUS
    <3>2. QED
      BY <2>2, <3>1 DEF Begins, Reads
  <2>4. ASSUME Closes(s)
        PROVE  /\ scan[s] # NoScan /\ AllRead(s) /\ m.snap = scan[s].snap
               /\ UNCHANGED <<directory, outdated, scanned>>
    <3>1. "abort" # "complete"
      OBVIOUS
    <3>2. Writes(s, "complete", notes[s].open, Empty) /\ scan[s] # NoScan /\ AllRead(s)
      BY <2>2, <2>4, <3>1 DEF Closes
    <3>3. /\ m.snap = notes[s].open /\ notes[s].outbox = None
          /\ UNCHANGED <<directory, outdated, scanned>>
      BY <1>2, <2>4, <3>2 DEF Writes, Closes
    <3>4. scan[s].snap = notes[s].open
      BY <3>2, <3>3 DEF RunInv, InOrder, Ordered, Running, Retains
    <3>5. QED
      BY <3>2, <3>3, <3>4
  <2>5. ~Notes(s)
    BY <1>2 DEF Notes, Retains
  <2>6. CASE Idles \/ ChangeDirectory
    BY <2>1, <2>6 DEF Idles, ChangeDirectory, collector
  <2>7. ASSUME NEW t \in Sources, Drops(t) \/ Settles(t) \/ Lands(t) PROVE m \in Ended(s)
    BY <2>1, <2>5, <2>7 DEF Drops, Settles, Lands, Notes
  <2>8. ASSUME NEW t \in Sources, t # s, NEW g, NEW keys,
               Begins(t, g) \/ Reads(t, keys) \/ Closes(t)
        PROVE  m \in Ended(s)
    BY <2>1, <2>8 DEF Begins, Reads, Closes, Writes
  <2>9. QED
    BY <2>3, <2>4, <2>6, <2>7, <2>8 DEF Kinds
<1>3. QED
    BY <1>1, <1>2 DEF Ended

\* A run that has ended has a name, and reads no more.
LEMMA EndedIsOver ==
    ASSUME DInv, RunInv, NEW s \in Sources, NEW m \in Ended(s)
    PROVE  /\ m.snap \in SnapshotIds /\ scanned[m.snap] # None
           /\ \A t \in Sources : Running(t) = m.snap => notes[t].outbox # None
<1> USE DEF RunInv
<1>1. CASE m \in Completed(s)
  <2>1. m \in Traffic /\ m.op = "complete"
    BY <1>1, DeliveryTypes DEF Completed
  <2>2. QED
    BY <1>1, <2>1, TrafficType DEF NamesApart, Retains
<1>2. CASE Retains(s, "complete") /\ m = notes[s].outbox
  <2>1. m.snap \in SnapshotIds /\ Running(s) = m.snap /\ Running(s) # None
    BY <1>2, RetainedType DEF InOrder, Retains
  <2>2. QED
    BY <1>2, <2>1 DEF NamesApart, Retains
<1>3. QED
    BY <1>1, <1>2 DEF Ended

LEMMA EndedStays ==
    ASSUME DInv, RunInv, Kinds, NEW s \in Sources, NEW m \in Ended(s)
    PROVE  scanned'[m.snap] = scanned[m.snap]
BY EndedIsOver, ScannedMoves DEF RunInv

LEMMA StepRunsAreTrue == ASSUME DInv, RunInv, RunsAreTrue, Kinds PROVE RunsAreTrue'
<1> USE DEF RunInv
<1>1. (UNCHANGED <<directory, outdated>>) \/ ChangeDirectory
    BY DEF Kinds, Idles, Drops, Begins, Reads, Closes, Writes, Settles, Lands
<1>2. ASSUME ChangeDirectory
      PROVE  /\ UNCHANGED <<scan, notes, scanned>>
             /\ \A g \in SnapshotIds : scanned[g] # None => g \in outdated'
    BY <1>2 DEF ChangeDirectory, collector
<1>3. ASSUME NEW t \in Sources PROVE ReadTruly(t)'
  <2>1. CASE ReadNext(t)
    BY <2>1, ReadStaysTrue
  <2>2. CASE scan'[t] = NoScan
    BY <2>2 DEF ReadTruly
  <2>3. ASSUME NEW g \in SnapshotIds, Begins(t, g) PROVE ReadTruly(t)'
    <3>1. scan'[t].read = {} /\ scan'[t].snap = g /\ scanned'[g] = Empty
      BY <2>3 DEF Begins, NoScan, NamesApart
    <3>2. Told(scan[t].read)' = {}
      BY <3>1 DEF Told
    <3>3. Says({}) = Empty
      BY DEF Says, Empty
    <3>4. QED
      BY <3>1, <3>2, <3>3 DEF ReadTruly
  <2>4. CASE scan'[t] = scan[t] /\ scan[t] # NoScan /\ ~ReadNext(t)
    <3>1. scan[t].snap \in SnapshotIds /\ scanned'[scan[t].snap] = scanned[scan[t].snap]
      BY <2>4, ScanStays
    <3>2. CASE UNCHANGED <<directory, outdated>>
      <4>1. Listed' = Listed /\ In("disabled")' = In("disabled")
            /\ Told(scan[t].read)' = Told(scan[t].read)
        BY <2>4, <3>2 DEF Listed, In, Told
      <4>2. QED
        BY <2>4, <3>1, <3>2, <4>1 DEF RunsAreTrue, ReadTruly
    <3>3. CASE ChangeDirectory
      <4>1. scanned[scan[t].snap] # None
        BY <2>4, AbsentAssumption, <3>1 DEF NamesApart, InOrder, Ordered
      <4>2. QED
        BY <1>2, <2>4, <3>1, <3>3, <4>1 DEF ReadTruly
    <3>4. QED
      BY <1>1, <3>2, <3>3
  <2>5. QED
    BY <2>1, <2>2, <2>3, <2>4, ScanMoves
<1>4. ASSUME NEW s \in Sources, NEW m \in Ended(s)', m.snap \notin outdated'
      PROVE  scanned'[m.snap] = Current'
  <2>1. CASE m \in Ended(s)
    <3>1. m.snap \in SnapshotIds /\ scanned[m.snap] # None
      BY <2>1, EndedIsOver
    <3>2. UNCHANGED <<directory, outdated>>
      BY <1>1, <1>2, <1>4, <3>1
    <3>3. Current' = Current
      BY <3>2 DEF Current, Says
    <3>4. QED
      BY <1>4, <2>1, <3>2, <3>3, EndedStays DEF RunsAreTrue
  <2>2. CASE /\ scan[s] # NoScan /\ AllRead(s) /\ m.snap = scan[s].snap
             /\ UNCHANGED <<directory, outdated, scanned>>
    <3>1. Current' = Current
      BY <2>2 DEF Current, Says
    <3>2. QED
      BY <1>4, <2>2, <3>1, AllIsCurrent
  <2>3. QED
    BY <2>1, <2>2, EndedMoves
<1>5. QED
    BY <1>3, <1>4 DEF RunsAreTrue

LEMMA InitRuns == InitDelivery => RunsHaveEnds /\ RunsAreTrue
<1> SUFFICES ASSUME InitDelivery PROVE RunsHaveEnds /\ RunsAreTrue
    OBVIOUS
<1>1. ASSUME NEW s \in Sources
      PROVE  /\ notes[s].outbox = None /\ scan[s] = NoScan /\ receipts[s] = {}
    BY DEF InitDelivery, Init, Fresh
<1>2. ASSUME NEW s \in Sources PROVE Ended(s) = {}
    BY <1>1 DEF Ended, Completed, Retains
<1>3. \A g \in SnapshotIds : scanned[g] = None
    BY DEF InitDelivery
<1>4. QED
    BY <1>1, <1>2, <1>3 DEF RunsHaveEnds, RunsAreTrue, ListedIsSaid, ReadTruly

LEMMA RunsInvariant == TrafficSuffices => (DeliverySpec => [](RunInv /\ RunsHaveEnds /\ RunsAreTrue))
<1> SUFFICES ASSUME TrafficSuffices
             PROVE  DeliverySpec => [](RunInv /\ RunsHaveEnds /\ RunsAreTrue)
    OBVIOUS
<1>1. DInv /\ RunInv /\ RunsHaveEnds /\ RunsAreTrue /\ [NextDelivery]_allVars
        => RunsHaveEnds' /\ RunsAreTrue'
    BY StepRunInv, StepRunsHaveEnds, StepRunsAreTrue
<1>2. QED
    BY <1>1, InitRuns, RunInvariant, DeliveryInvariant, PTL DEF DeliverySpec

\* A membership is published with its member and its group, however the
\* directory changed during the scan (entra.py:119).
THEOREM MembershipsHold == TrafficSuffices => (DeliverySpec => []MembershipsHaveEnds)
<1> SUFFICES ASSUME TrafficSuffices PROVE DeliverySpec => []MembershipsHaveEnds
    OBVIOUS
<1>1. DInv /\ RunInv /\ RunsHaveEnds => MembershipsHaveEnds
  <2> SUFFICES ASSUME DInv, RunInv, RunsHaveEnds, NEW s \in Sources
               PROVE  HasEnds(facts[s]["live"])
      BY DEF MembershipsHaveEnds, HasEnds
  <2>1. CASE Completed(s) = {}
    <3>1. facts[s]["live"] = Empty
      BY <2>1 DEF RunInv, PublishedIsOneRun
    <3>2. QED
      BY <3>1, EmptyHasNothing DEF HasEnds, Keys
  <2>2. CASE Completed(s) # {}
    <3>1. LastCompleted(s) \in Completed(s)
      BY <2>2, LastIsCompleted DEF RunInv
    <3>2. facts[s]["live"] = scanned[LastCompleted(s).snap]
      BY <2>2 DEF RunInv, PublishedIsOneRun
    <3>3. scanned[LastCompleted(s).snap] # None /\ LastCompleted(s).snap \in SnapshotIds
      BY <3>1, EndedIsOver DEF Ended
    <3>4. QED
      BY <3>2, <3>3 DEF RunsHaveEnds
  <2>3. QED
    BY <2>1, <2>2
<1>2. QED
    BY <1>1, DeliveryInvariant, RunsInvariant, PTL

\* From end to end: what is published is the directory as it is, unless that
\* has changed since the published run began (sdk.py:35, entra.py:119).
THEOREM UndisturbedHolds == TrafficSuffices => (DeliverySpec => []AnUndisturbedRunIsExact)
<1> SUFFICES ASSUME TrafficSuffices PROVE DeliverySpec => []AnUndisturbedRunIsExact
    OBVIOUS
<1>1. RunInv /\ RunsAreTrue => AnUndisturbedRunIsExact
  <2> SUFFICES ASSUME RunInv, RunsAreTrue, NEW s \in Sources, Completed(s) # {},
                      LastCompleted(s).snap \notin outdated
               PROVE  facts[s]["live"] = Current
      BY DEF AnUndisturbedRunIsExact
  <2>1. LastCompleted(s) \in Ended(s)
    BY LastIsCompleted DEF RunInv, Ended
  <2>2. QED
    BY <2>1 DEF RunInv, PublishedIsOneRun, RunsAreTrue
<1>2. QED
    BY <1>1, RunsInvariant, PTL

=============================================================================
