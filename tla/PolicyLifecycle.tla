--------------------------- MODULE PolicyLifecycle ---------------------------
(***************************************************************************)
(* The life of policy versions (policy.py): proposed, activated, retired,  *)
(* rolled back to, and the default that a request creates when it finds no *)
(* policy outside production.  Administrators' calls and requests are      *)
(* transactions over one PostgreSQL database in READ COMMITTED.            *)
(*                                                                         *)
(* An activation reads the version, then the active one, and writes both   *)
(* when audit.append flushes the session, after it took the audit lock,    *)
(* which it holds to the commit: the writes and the commit are one step.   *)
(*                                                                         *)
(* Documents are left out: one that fails validation, or that somebody     *)
(* edited outside the program so that its checksum fails, is refused and   *)
(* changes nothing.                                                        *)
(***************************************************************************)
EXTENDS Naturals, FiniteSets

CONSTANTS
    Versions,        \* policy versions
    Default,         \* the version of DEFAULT_POLICY
    Calls,           \* calls under way at a time
    Lazy,            \* settings.environment is not "production"
    MaxActivations,  \* bound: activations that read the clock
    None

ASSUME VersionsAssumption ==
    /\ Default \in Versions
    /\ None \notin Versions
    /\ Lazy \in BOOLEAN
    /\ MaxActivations \in Nat

VARIABLES
    status,     \* PolicyRecord.status
    since,      \* PolicyRecord.activated_at, 0 for NULL
    clock,      \* the last value utcnow() gave
    job,        \* the local state of each call
    former,     \* history: the version in force before the latest change
    overlapped  \* history: a call began while another was under way

vars == <<status, since, clock, job, former, overlapped>>

-----------------------------------------------------------------------------
(* Data *)

Call == [at : {"idle", "read", "ready", "vacant", "inserted"},
         op : {"none", "activate", "rollback", "default"},
         version : Versions \cup {None},   \* record
         previous : Versions \cup {None},  \* previous
         stamp : Nat]                      \* utcnow()

Began(at, op, v) ==
    [at |-> at, op |-> op, version |-> v, previous |-> None, stamp |-> 0]
Idle == Began("idle", "none", None)

With(s) == {v \in Versions : status[v] = s}

\* Variant: oldest first.
OldestFirst(v) ==
    /\ v \in With("retired")
    /\ \A w \in With("retired") : since[v] <= since[w]

\* The first of the retired versions by descending activation time: PostgreSQL
\* puts NULL first.
NewestFirst(v) ==
    /\ v \in With("retired")
    /\ \/ since[v] = 0
       \/ \A w \in With("retired") : 0 < since[w] /\ since[w] <= since[v]

\* A version whose row was inserted and not committed.
Inserting == \E c \in Calls : job[c].at = "inserted"

\* A call is under way.
UnderWay == \E c \in Calls : job[c].at # "idle"

\* Variants: the old version is retired last, or not at all.
RetireLast(v, previous) ==
    [w \in Versions |-> CASE w = previous -> "retired"
                          [] w = v /\ w # previous -> "active"
                          [] OTHER -> status[w]]
RetireNothing(v, previous) == [status EXCEPT ![v] = "active"]

\* What the two UPDATEs make of the statuses.  If the version was activated by
\* somebody else after it was read, `previous` is the same object as `record`
\* and the assignment to record.status comes last.
Replace(v, previous) ==
    [w \in Versions |-> CASE w = v -> "active"
                          [] w = previous /\ w # v -> "retired"
                          [] OTHER -> status[w]]

NoRecords == [v \in Versions |-> "absent"]

-----------------------------------------------------------------------------
Init ==
    /\ status = NoRecords
    /\ since = [v \in Versions |-> 0]
    /\ clock = 0
    /\ job = [c \in Calls |-> Idle]
    /\ former = None
    /\ overlapped = FALSE

\* propose_policy: a new version is stored as a draft; an insertion of the same
\* version that is not committed makes it wait.
Propose(v) ==
    /\ status[v] = "absent"
    /\ ~(Inserting /\ v = Default)
    /\ status' = [status EXCEPT ![v] = "draft"]
    /\ UNCHANGED <<since, clock, job, former, overlapped>>

\* activate_policy reads the version, which must not be active.
ReadVersion(c, v) ==
    /\ job[c].at = "idle"
    /\ status[v] \in {"draft", "retired"}
    /\ job' = [job EXCEPT ![c] = Began("read", "activate", v)]
    /\ overlapped' = (overlapped \/ UnderWay)
    /\ UNCHANGED <<status, since, clock, former>>

\* rollback_policy reads its candidate; activate_policy's own query returns the
\* same object with the status first read.
ReadCandidate(c, v) ==
    /\ job[c].at = "idle"
    /\ NewestFirst(v)
    /\ job' = [job EXCEPT ![c] = Began("read", "rollback", v)]
    /\ overlapped' = (overlapped \/ UnderWay)
    /\ UNCHANGED <<status, since, clock, former>>

\* The active version, any one of them if there are several, and the clock.
ReadPrevious(c) ==
    /\ job[c].at = "read"
    /\ clock < MaxActivations
    /\ clock' = clock + 1
    /\ \E previous \in IF With("active") = {} THEN {None} ELSE With("active") :
          job' = [job EXCEPT ![c] = [job[c] EXCEPT !.at = "ready", !.previous = previous,
                                                   !.stamp = clock + 1]]
    /\ UNCHANGED <<status, since, former, overlapped>>

\* Under the audit lock: both rows are updated by primary key and committed.
Commit(c) ==
    /\ job[c].at = "ready"
    /\ status' = Replace(job[c].version, job[c].previous)
    /\ since' = [since EXCEPT ![job[c].version] = job[c].stamp]
    /\ former' = job[c].previous
    /\ job' = [job EXCEPT ![c] = Idle]
    /\ UNCHANGED <<clock, overlapped>>

\* active_policy in a request: no policy is active.
FindNone(c) ==
    /\ Lazy
    /\ job[c].at = "idle"
    /\ With("active") = {}
    /\ job' = [job EXCEPT ![c] = Began("vacant", "default", None)]
    /\ overlapped' = (overlapped \/ UnderWay)
    /\ UNCHANGED <<status, since, clock, former>>

\* The default is inserted; another insertion of it is waited for.
InsertDefault(c) ==
    /\ job[c].at = "vacant"
    /\ ~Inserting
    /\ status[Default] = "absent"
    /\ job' = [job EXCEPT ![c].at = "inserted"]
    /\ UNCHANGED <<status, since, clock, former, overlapped>>

\* The request commits.
CommitDefault(c) ==
    /\ job[c].at = "inserted"
    /\ status' = [status EXCEPT ![Default] = "active"]
    /\ former' = None
    /\ job' = [job EXCEPT ![c] = Idle]
    /\ UNCHANGED <<since, clock, overlapped>>

\* The call ends without a commit: the default's version is taken
\* (IntegrityError), the handler only reads, or its process dies.
Abandon(c) ==
    /\ job[c].at # "idle"
    /\ job' = [job EXCEPT ![c] = Idle]
    /\ UNCHANGED <<status, since, clock, former, overlapped>>

Next ==
    \/ \E v \in Versions : Propose(v)
    \/ \E c \in Calls, v \in Versions : ReadVersion(c, v) \/ ReadCandidate(c, v)
    \/ \E c \in Calls :
          \/ ReadPrevious(c) \/ Commit(c)
          \/ FindNone(c) \/ InsertDefault(c) \/ CommitDefault(c)
          \/ Abandon(c)

Spec == Init /\ [][Next]_vars

-----------------------------------------------------------------------------
(* Properties *)

\* The rows and the locals keep their types.
TypeOK ==
    /\ status \in [Versions -> {"absent", "draft", "active", "retired"}]
    /\ since \in [Versions -> Nat]
    /\ clock \in Nat
    /\ job \in [Calls -> Call]
    /\ former \in Versions \cup {None}
    /\ overlapped \in BOOLEAN

\* The lifecycle as policy.py:162 has it: an activation retires what was active,
\* so one version is in force.
OneInForce == \A v, w \in With("active") : v = w

\* It is, until calls overlap (policy.py 254-257).
OneActive == ~overlapped => OneInForce

\* rollback_policy's candidate, chosen by activation time, is the version that
\* was in force before the present one, unless the candidates include a
\* default that was never given a time, and while calls do not overlap
\* (policy.py 278-287).
Undoes ==
    \A c \in Calls :
        job[c].op = "rollback" /\ (\A v \in With("retired") : since[v] > 0) =>
            job[c].version = former
RollbackUndoes == ~overlapped => Undoes

\* Whatever calls overlap, a policy stays in force once one is: in production a
\* request that found none would be refused (policy.py 139-141, 254-258).
PolicyStaysInForce == [][With("active") # {} => With("active")' # {}]_vars
=============================================================================
