------------------------------- MODULE Feedback -------------------------------
(***************************************************************************)
(* The feedback loop (feedback.py): analyzer runs read the audit log and   *)
(* propose, people decide.  Neither holds a lock while it looks: runs and  *)
(* decisions overlap in any order, and only what a transaction commits is  *)
(* seen.  A decision appends to the audit chain before its row is written, *)
(* and the lock of the chain, held to the end of the transaction, makes    *)
(* these two and the commit one step.                                      *)
(*                                                                         *)
(* The log is kept as far as the analyzers look at it.                     *)
(***************************************************************************)
EXTENDS Integers, Sequences, FiniteSets

CONSTANTS
    Tenants,
    Topics,       \* [kind, about, tenant]: a subject and action, or an action
    Patterns,     \* authority that access paths prove, wildcards included
    ApiCalls,     \* calls that were made, and approvals that were decided
    Covers,       \* the calls that fnmatch finds a pattern to cover
    Runs,         \* requests to POST /feedback/run
    Deciders,     \* requests to decide a recommendation
    Threshold,    \* 3 in the code
    None

Topic == [kind : {"repeated_denials", "approval_bottleneck"}, about : SUBSET STRING, tenant : Tenants]

ASSUME FeedbackAssumption ==
    /\ Topics \subseteq Topic
    /\ Covers \in [Patterns -> SUBSET ApiCalls]
    /\ Threshold \in Nat \ {0}

\* What a run may find: a topic, or the patterns never exercised, which are
\* their own fingerprint and belong to no tenant.
Finding == Topics \cup [kind : {"least_privilege"}, about : SUBSET Patterns, tenant : {None}]

VARIABLES
    log,       \* the audit records the analyzers count and compare
    rows,      \* recommendations, by the run that proposed them
    decisions, \* the recommendation_decision records, in the order of the chain
    runs, deciders

vars == <<log, rows, decisions, runs, deciders>>

Log == [counts : [Topics -> 0 .. Threshold], proven : SUBSET Patterns,
        exercised : SUBSET ApiCalls]
RowId == [run : Runs, finding : Finding]
Status == {"proposed", "approved", "rejected"}
RecommendationRow == [id : RowId, status : Status, decided_by : Deciders \cup {None}]
Run == [pc : {"idle", "look", "ended", "died"}, found : SUBSET Finding,
        todo : SUBSET Finding, proposals : SUBSET Finding, met : SUBSET Runs]
Decider == [pc : {"idle", "decide", "done", "refused"}, id : RowId \cup {None},
            verdict : {"approved", "rejected", "none"}, met : SUBSET Deciders]

Init ==
    /\ log = [counts |-> [t \in Topics |-> 0], proven |-> {}, exercised |-> {}]
    /\ rows = {} /\ decisions = <<>>
    /\ runs = [r \in Runs |-> [pc |-> "idle", found |-> {}, todo |-> {}, proposals |-> {},
                               met |-> {}]]
    /\ deciders = [d \in Deciders |-> [pc |-> "idle", id |-> None, verdict |-> "none",
                                       met |-> {}]]

-----------------------------------------------------------------------------
(* What the rest of the system records *)

Observe(t) ==
    /\ log.counts[t] < Threshold
    /\ log' = [log EXCEPT !.counts[t] = @ + 1]
    /\ UNCHANGED <<rows, decisions, runs, deciders>>

Prove(p) ==
    /\ log' = [log EXCEPT !.proven = @ \cup {p}]
    /\ UNCHANGED <<rows, decisions, runs, deciders>>

Exercise(a) ==
    /\ log' = [log EXCEPT !.exercised = @ \cup {a}]
    /\ UNCHANGED <<rows, decisions, runs, deciders>>

-----------------------------------------------------------------------------
(* run_analyzers *)

Unused == {p \in log.proven : Covers[p] \cap log.exercised = {}}

Found ==
    {t \in Topics : log.counts[t] >= Threshold}
    \cup {f \in {[kind |-> "least_privilege", about |-> Unused, tenant |-> None]} : f.about # {}}

Running == {r \in Runs : runs[r].pc = "look"}

StartRun(r) ==
    /\ runs[r].pc = "idle"
    /\ runs' = [runs EXCEPT ![r] = [pc |-> "look", found |-> Found, todo |-> Found,
                                    proposals |-> {}, met |-> Running]]
    /\ UNCHANGED <<log, rows, decisions, deciders>>

\* The same kind and fingerprint, which names no tenant.
Alike(f, g) == f.kind = g.kind /\ f.about = g.about

\* Variant: what was decided is forgotten.
ExistingUndecided(f) ==
    \E row \in rows : Alike(row.id.finding, f) /\ row.status = "proposed"

\* _existing: the kind and the fingerprint, in whatever state, of any tenant.
Existing(f) == \E row \in rows : Alike(row.id.finding, f)

Look(r, f) ==
    /\ runs[r].pc = "look" /\ f \in runs[r].todo
    /\ runs' = [runs EXCEPT ![r].todo = @ \ {f},
                            ![r].proposals = IF Existing(f) THEN @ ELSE @ \cup {f}]
    /\ UNCHANGED <<log, rows, decisions, deciders>>

\* flush and commit
Propose(r) ==
    /\ runs[r].pc = "look" /\ runs[r].todo = {}
    /\ rows' = rows \cup {[id |-> [run |-> r, finding |-> f], status |-> "proposed",
                           decided_by |-> None] : f \in runs[r].proposals}
    /\ runs' = [runs EXCEPT ![r].pc = "ended"]
    /\ UNCHANGED <<log, decisions, deciders>>

\* The request dies, and its transaction with it.
RunDies(r) ==
    /\ runs[r].pc = "look"
    /\ runs' = [runs EXCEPT ![r].pc = "died", ![r].todo = {}, ![r].proposals = {}]
    /\ UNCHANGED <<log, rows, decisions, deciders>>

-----------------------------------------------------------------------------
(* decide *)

\* Variant: whatever has been decided may be decided.
UndecidedAlways(row) == TRUE
Undecided(row) == row.status = "proposed"

Deciding == {d \in Deciders : deciders[d].pc = "decide"}

ReadRecommendation(d, row, verdict) ==
    /\ deciders[d].pc = "idle"
    /\ deciders' = [deciders EXCEPT ![d] =
          [pc |-> IF Undecided(row) THEN "decide" ELSE "refused",
           id |-> row.id, verdict |-> verdict, met |-> Deciding]]
    /\ UNCHANGED <<log, rows, decisions, runs>>

\* Variant: the row is written only if it is undecided still, and nobody looks
\* whether it was.
WriteDecisionIfUndecided(d) ==
    {IF row.id = deciders[d].id /\ row.status = "proposed"
     THEN [row EXCEPT !.status = deciders[d].verdict, !.decided_by = d] ELSE row : row \in rows}

WriteDecision(d) ==
    {IF row.id = deciders[d].id
     THEN [row EXCEPT !.status = deciders[d].verdict, !.decided_by = d] ELSE row : row \in rows}

\* audit.append waits for the chain, writes the row and its record; commit.
Decide(d) ==
    /\ deciders[d].pc = "decide"
    /\ rows' = WriteDecision(d)
    /\ decisions' = Append(decisions, [id |-> deciders[d].id, verdict |-> deciders[d].verdict,
                                       by |-> d])
    /\ deciders' = [deciders EXCEPT ![d].pc = "done"]
    /\ UNCHANGED <<log, runs>>

Next ==
    \/ \E t \in Topics : Observe(t)
    \/ \E p \in Patterns : Prove(p)
    \/ \E a \in ApiCalls : Exercise(a)
    \/ \E r \in Runs : StartRun(r) \/ (\E f \in runs[r].todo : Look(r, f)) \/ Propose(r) \/ RunDies(r)
    \/ \E d \in Deciders :
          \/ \E row \in rows, v \in {"approved", "rejected"} : ReadRecommendation(d, row, v)
          \/ Decide(d)

Spec == Init /\ [][Next]_vars

-----------------------------------------------------------------------------
(* Properties *)

TypeOK ==
    /\ log \in Log
    /\ rows \subseteq RecommendationRow
    /\ decisions \in Seq([id : RowId, verdict : Status \ {"proposed"}, by : Deciders])
    /\ runs \in [Runs -> Run] /\ deciders \in [Deciders -> Decider]

Together(r, q) == r \in runs[q].met \/ q \in runs[r].met

\* Whatever a completed run has found is on record, if not for its tenant then
\* for another one; and it is proposed once, also if its recommendation was
\* rejected, but for runs that overlap, and for several tenants in one run
\* (feedback.py:59, OPERATIONS.md:48).
RecommendedOnceUnlessRaced ==
    /\ \A r \in Runs : runs[r].pc = "ended" =>
         \A f \in runs[r].found : \E row \in rows : Alike(row.id.finding, f)
    /\ \A a, b \in rows : Alike(a.id.finding, b.id.finding) =>
         a.id.run = b.id.run \/ Together(a.id.run, b.id.run)

Last(id) == LET S == {i \in DOMAIN decisions : decisions[i].id = id}
            IN  CHOOSE i \in S : \A j \in S : j <= i

\* A recommendation says what the last decision in the audit chain says, also
\* if several people decided it at once (feedback.py:173).
RowFollowsTheChain ==
    \A row \in rows :
        IF row.status = "proposed" THEN \A i \in DOMAIN decisions : decisions[i].id # row.id
        ELSE /\ \E i \in DOMAIN decisions : decisions[i].id = row.id
             /\ decisions[Last(row.id)].verdict = row.status
             /\ decisions[Last(row.id)].by = row.decided_by

\* A recommendation is decided once, unless decisions overlap (feedback.py:171).
DecidedOnceUnlessRaced ==
    \A i, j \in DOMAIN decisions : i < j /\ decisions[i].id = decisions[j].id =>
        LET c == decisions[i].by  d == decisions[j].by
        IN  c \in deciders[d].met \/ d \in deciders[c].met
=============================================================================
