------------------------------- MODULE Gateway -------------------------------
(***************************************************************************)
(* The governed request flow of gateway.py, as it runs in production:      *)
(* POST /requests and POST /approvals/{id}/decision are handled by threads *)
(* of several processes that share one PostgreSQL database in READ         *)
(* COMMITTED.  A step of this module is what a handler does between two    *)
(* points where another transaction can come in: a read sees the last      *)
(* committed values, an UPDATE takes its row lock, audit.append takes the  *)
(* chain's advisory lock, and a commit publishes the transaction and drops *)
(* its locks.  An exception or a killed process rolls the transaction back.*)
(*                                                                         *)
(* The variables approval and exec hold COMMITTED rows.  Of uncommitted    *)
(* writes only one is kept across steps: rowLock[a] = r says that attempt  *)
(* r has updated approval a to "consumed" and has not yet committed.       *)
(***************************************************************************)
EXTENDS Naturals

CONSTANTS
    Requests,     \* attempts: one call of handle_request, and its correlation id
    Decisions,    \* calls of decide_approval
    Keys,         \* Idempotency-Key values sent by clients
    Payloads,     \* what the request hash binds, the policy version apart
    Versions,     \* policy versions
    Principals,   \* requesters and approvers
    Subject,      \* Subject[p]: the principal that asks for payload p
    Approver,     \* Approver[d]: the principal behind decision call d
    ReadOnly,     \* payloads whose action is read-only
    Effects,      \* Effects[v][p][b]: effects of the rules of version v that match
                  \* payload p when an access path exists (b) or does not (~b)
    Events,       \* what the environment does in this instance: a subset of
                  \* {"revoke", "expire", "activate", "crash"}
    None          \* no value

RuleEffects == {"allow", "deny", "require_approval"}

ASSUME ConstantsAssumption ==
    /\ Subject \in [Payloads -> Principals]
    /\ Approver \in [Decisions -> Principals]
    /\ ReadOnly \subseteq Payloads
    /\ Effects \in [Versions -> [Payloads -> [BOOLEAN -> SUBSET RuleEffects]]]
    /\ Events \subseteq {"revoke", "expire", "activate", "crash"}

\* None is none of the values it stands in for.
ASSUME NoneAssumption ==
    /\ None \notin Requests
    /\ None \notin Decisions
    /\ None \notin Principals
    /\ None \notin Versions

\* A decision call is not a request, so that either can own the audit lock.
ASSUME ActorsAssumption == Requests \cap Decisions = {}

VARIABLES
    ask,        \* ask[r]: payload and operation key of attempt r, fixed
    pc,         \* pc[r]: where attempt r is in handle_request
    job,        \* job[r]: the local variables of attempt r
    approval,   \* committed Approval rows, named by the attempt that created them
    rowLock,    \* rowLock[a]: the attempt whose uncommitted UPDATE locks row a
    exec,       \* committed Execution rows by operation key
    effects,    \* attempts whose write reached the target system
    decision,   \* decision[d]: the local state of decision call d
    auditLock,  \* holder of the audit chain's advisory transaction lock
    audits,     \* committed audit records
    active,     \* the active policy version
    entitled,   \* payloads whose subject is mapped and has an access path; of the
                \* rows this rests on one comes and goes, the others stay
    capable,    \* principals with a path to the approval capability, likewise
    expired,    \* approvals past expires_at
    granted,    \* history: committed "approved" decisions of each approval
    spent       \* history: committed consumptions of each approval

vars == <<ask, pc, job, approval, rowLock, exec, effects, decision, auditLock,
          audits, active, entitled, capable, expired, granted, spent>>

world == <<active, entitled, capable, expired>>

-----------------------------------------------------------------------------
(* Data *)

Ops == Principals \X (Keys \cup Requests)

\* The operation key of an attempt: tenant, subject and Idempotency-Key, or
\* the attempt's own correlation id when the client sent no key.
Op(r) == <<Subject[ask[r].payload], ask[r].key>>

\* request_hash: the payload and the policy version read while binding.
Hash(r) == <<ask[r].payload, job[r].bound>>

Writes(r) == ask[r].payload \notin ReadOnly

ApprovalStatus == {"absent", "pending", "approved", "rejected", "consumed"}
ExecState == {"absent", "authorized", "running", "succeeded", "outcome_unknown"}
Labels == {"new", "bind", "lookup", "approval", "approver", "evaluate", "consume",
           "intent", "grant", "start", "recheck", "policy", "expiry", "capability",
           "execute", "await", "finish", "done", "crashed"}
Outcomes == {"denied", "approval_required", "allowed", "error", "replayed"}

\* The rows of the tables and the locals of the handlers.
Asked == [payload : Payloads, key : Keys \cup Requests]
Job == [approval : Requests \cup {None}, path : BOOLEAN, bound : Versions \cup {None},
        decided : Versions \cup {None}, valid : BOOLEAN, child : BOOLEAN,
        approver : Principals \cup {None}, outcome : Outcomes \cup {None}]
RequestHash == Payloads \X (Versions \cup {None})
ApprovalRow == [status : ApprovalStatus, hash : RequestHash \cup {None},
                approver : Principals \cup {None}]
ExecRow == [state : ExecState, corr : Requests \cup {None}, hash : RequestHash \cup {None},
            version : Versions \cup {None}, approval : Requests \cup {None}]
DecisionCall == [at : {"idle", "reviewed", "locked", "done"},
                 approval : Requests \cup {None}, verdict : {"approved", "rejected"}]
AuditRecord == [by : Requests \cup Decisions \cup {"recovery"}, corr : Requests \cup {None},
                result : Outcomes \cup {None, "authorized", "approved", "rejected",
                                       "outcome_unknown"}]

Ended(r) == pc[r] \in {"done", "crashed"}

NoApproval == [status |-> "absent", hash |-> None, approver |-> None]
NoExec == [state |-> "absent", corr |-> None, hash |-> None, version |-> None,
           approval |-> None]
Idle == [at |-> "idle", approval |-> None, verdict |-> "rejected"]

\* The attempt has committed its durable intent: `operation` is not None.
Opened(r) == exec[Op(r)].corr = r

\* Variant: an allow rule is looked for first.
EvaluateAllowFirst(matched, approvalPresent) ==
    IF "allow" \in matched THEN "allowed" ELSE "denied"

\* policy.evaluate: deny wins, then an unmet approval, then allow, else deny.
Evaluate(matched, approvalPresent) ==
    CASE "deny" \in matched -> "denied"
      [] "deny" \notin matched /\ "require_approval" \in matched /\ ~approvalPresent
           -> "approval_required"
      [] OTHER -> IF "allow" \in matched THEN "allowed" ELSE "denied"

-----------------------------------------------------------------------------
Init ==
    /\ ask \in [Requests -> Asked]
    /\ \A r \in Requests : ask[r].key \in Keys \cup {r}
    /\ pc = [r \in Requests |-> "new"]
    /\ job = [r \in Requests |-> [approval |-> None, path |-> FALSE, bound |-> None,
                                  decided |-> None, valid |-> FALSE, child |-> FALSE,
                                  approver |-> None, outcome |-> None]]
    /\ approval = [r \in Requests |-> NoApproval]
    /\ rowLock = [r \in Requests |-> None]
    /\ exec = [o \in Ops |-> NoExec]
    /\ effects = {}
    /\ decision = [d \in Decisions |-> Idle]
    /\ auditLock = None
    /\ audits = {}
    /\ active \in Versions
    /\ entitled = Payloads
    /\ capable = Principals
    /\ expired = {}
    /\ granted = [r \in Requests |-> 0]
    /\ spent = [r \in Requests |-> 0]

-----------------------------------------------------------------------------
(* Pieces of handle_request *)

Goto(r, label) == pc' = [pc EXCEPT ![r] = label]

\* `return finish(outcome)`: the audit record and the commit are Finish's.
Reply(r, outcome) ==
    /\ Goto(r, "finish")
    /\ job' = [job EXCEPT ![r].outcome = outcome]

\* The rows of attempt r's transaction that its commit publishes: the
\* consumption of the approval whose row it holds.
CommitConsumption(r) ==
    /\ approval' = [a \in Requests |->
                      IF rowLock[a] = r THEN [approval[a] EXCEPT !.status = "consumed"]
                      ELSE approval[a]]
    /\ spent' = [a \in Requests |-> IF rowLock[a] = r THEN spent[a] + 1 ELSE spent[a]]
    /\ rowLock' = [a \in Requests |-> IF rowLock[a] = r THEN None ELSE rowLock[a]]

\* Rollback: the row lock goes, the approval keeps its committed status.
RollBack(r) ==
    rowLock' = [a \in Requests |-> IF rowLock[a] = r THEN None ELSE rowLock[a]]

Record(who, corr, result) == [by |-> who, corr |-> corr, result |-> result]

\* Variant: no durable intent, and so no operation to mark as running.
AfterConsumeNoIntent(r) == "execute"

\* After the approval stage a write records its intent, a read does not.
AfterConsume(r) == IF Writes(r) THEN "intent" ELSE "grant"

-----------------------------------------------------------------------------
(* handle_request, one action per step *)

\* Session, principal, action and input checks, any of which can refuse, then
\* the access path; a missing path is left to the policy.  The client may name
\* any approval it has heard of.
Admit(r) ==
    /\ pc[r] = "new"
    /\ \E a \in {b \in Requests : approval[b].status # "absent"} \cup {None} :
         \/ /\ Goto(r, "bind")
            /\ job' = [job EXCEPT ![r].approval = a,
                                  ![r].path = ask[r].payload \in entitled]
         \/ Reply(r, "denied")
    /\ UNCHANGED <<ask, approval, rowLock, exec, effects, decision, auditLock,
                   audits, world, granted, spent>>

\* The active policy version goes into the request hash, unless there is none
\* or its content is not what was signed off.
BindPolicy(r) ==
    /\ pc[r] = "bind"
    /\ \/ Goto(r, "lookup") /\ job' = [job EXCEPT ![r].bound = active]
       \/ Reply(r, "denied")
    /\ UNCHANGED <<ask, approval, rowLock, exec, effects, decision, auditLock,
                   audits, world, granted, spent>>

\* A write whose operation key is known is answered from the stored execution,
\* with no audit record, or refused when the request differs.
LookupExecution(r) ==
    /\ pc[r] = "lookup"
    /\ IF ~Writes(r) \/ exec[Op(r)].state = "absent"
       THEN Goto(r, "approval") /\ UNCHANGED job
       ELSE IF exec[Op(r)].hash = Hash(r)
       THEN Goto(r, "done") /\ job' = [job EXCEPT ![r].outcome = "replayed"]
       ELSE Reply(r, "denied")
    /\ UNCHANGED <<ask, approval, rowLock, exec, effects, decision, auditLock,
                   audits, world, granted, spent>>

\* Variant: the request hash is not compared.
MatchesAnyRequest(r, a) == a # None /\ approval[a].status = "approved"

\* The row alone: approved, for exactly this request.
Matches(r, a) ==
    /\ a # None
    /\ approval[a].status = "approved"
    /\ approval[a].hash = Hash(r)

\* The approval named by the client is read and compared with this request.
ReadApproval(r) ==
    LET a == job[r].approval
    IN  /\ pc[r] = "approval"
        /\ \/ /\ Matches(r, a)
              /\ Goto(r, "approver")
              /\ job' = [job EXCEPT ![r].valid = TRUE, ![r].approver = approval[a].approver]
           \/ /\ ~Matches(r, a)
              /\ Goto(r, "evaluate")
              /\ job' = [job EXCEPT ![r].valid = FALSE]
        /\ UNCHANGED <<ask, approval, rowLock, exec, effects, decision, auditLock,
                       audits, world, granted, spent>>

\* Then the graph is asked whether who approved it can still approve, and the
\* clock whether it is in time.
JudgeApproval(r) ==
    /\ pc[r] = "approver"
    /\ Goto(r, "evaluate")
    /\ job' = [job EXCEPT ![r].valid = /\ job[r].valid
                                       /\ job[r].approver \in capable
                                       /\ job[r].approval \notin expired]
    /\ UNCHANGED <<ask, approval, rowLock, exec, effects, decision, auditLock,
                   audits, world, granted, spent>>

LookupApproval(r) == ReadApproval(r) \/ JudgeApproval(r)

\* policy.evaluate reads the active version again, or refuses it.
\* approval_required inserts the pending approval in the transaction that Finish
\* commits.
EvaluatePolicy(r) ==
    /\ pc[r] = "evaluate"
    /\ \/ Reply(r, "denied")
       \/ LET outcome == Evaluate(Effects[active][ask[r].payload][job[r].path], job[r].valid)
          IN  /\ job' = [job EXCEPT ![r].decided = active,
                                    ![r].outcome = IF outcome = "allowed" THEN None
                                                   ELSE outcome]
              /\ Goto(r, CASE outcome # "allowed" -> "finish"
                           [] outcome = "allowed" /\ job[r].valid -> "consume"
                           [] OTHER -> AfterConsume(r))
    /\ UNCHANGED <<ask, approval, rowLock, exec, effects, decision, auditLock,
                   audits, world, granted, spent>>

\* Variant: the update names the approval only.
ConsumableAlways(a) == TRUE

\* The condition on the row that makes consuming a compare-and-swap.
Consumable(a) == approval[a].status = "approved"

\* UPDATE approvals SET status = 'consumed' WHERE id = .. AND status = 'approved'.
\* The row lock is waited for and the condition is tested on the row as the
\* holder left it.
Consume(r) ==
    /\ pc[r] = "consume"
    /\ rowLock[job[r].approval] = None
    /\ \/ /\ Consumable(job[r].approval)
          /\ rowLock' = [rowLock EXCEPT ![job[r].approval] = r]
          /\ Goto(r, AfterConsume(r))
          /\ UNCHANGED job
       \/ /\ ~Consumable(job[r].approval)
          /\ Reply(r, "denied")
          /\ UNCHANGED rowLock
    /\ UNCHANGED <<ask, approval, exec, effects, decision, auditLock,
                   audits, world, granted, spent>>

\* Variant: the insert replaces a row that is already there.
KeyFreeUpsert(r) == TRUE

\* executions.id is a primary key: the operation key has no row yet.
KeyFree(r) == exec[Op(r)].state = "absent"

\* Intent, "authorized" audit record and consumption commit together.  The
\* insert happens under the audit lock; a key that is already taken is an
\* integrity error that rolls everything back.
CommitIntent(r) ==
    /\ pc[r] = "intent"
    /\ auditLock = None
    /\ \/ /\ KeyFree(r)
          /\ exec' = [exec EXCEPT ![Op(r)] =
                        [state |-> "authorized", corr |-> r, hash |-> Hash(r),
                         version |-> job[r].decided,
                         approval |-> IF job[r].valid THEN job[r].approval ELSE None]]
          /\ audits' = audits \cup {Record(r, r, "authorized")}
          /\ CommitConsumption(r)
          /\ Goto(r, "grant")
       \/ /\ ~KeyFree(r)
          /\ RollBack(r)
          /\ Goto(r, "crashed")
          /\ UNCHANGED <<exec, audits, approval, spent>>
    /\ UNCHANGED <<ask, job, effects, decision, auditLock, world, granted>>

\* The broker refuses, or issues the grant and the scoped context is built.
IssueGrant(r) ==
    /\ pc[r] = "grant"
    /\ \/ /\ Goto(r, IF Writes(r) THEN "start" ELSE "execute")
          /\ UNCHANGED job
       \/ Reply(r, "error")
    /\ UNCHANGED <<ask, approval, rowLock, exec, effects, decision, auditLock,
                   audits, world, granted, spent>>

\* The execution is committed as running before anything can take effect.
MarkRunning(r) ==
    /\ pc[r] = "start"
    /\ exec' = [exec EXCEPT ![Op(r)].state = "running"]
    /\ Goto(r, "recheck")
    /\ UNCHANGED <<ask, job, approval, rowLock, effects, decision, auditLock,
                   audits, world, granted, spent>>

\* Authority is looked at once more, one query after another in READ COMMITTED:
\* each sees its own moment, and the first that fails ends the attempt.
Passes(r, holds, next) ==
    /\ \/ holds /\ Goto(r, next) /\ UNCHANGED job
       \/ ~holds /\ Reply(r, "error")
    /\ UNCHANGED <<ask, approval, rowLock, exec, effects, decision, auditLock,
                   audits, world, granted, spent>>

\* The principal, and its access path.
RecheckPath(r) ==
    pc[r] = "recheck" /\ Passes(r, ask[r].payload \in entitled, "policy")

\* Variant: the policy version is not looked at again.
SamePolicyAlways(r) == TRUE

\* The policy that decided is the active one.
SamePolicy(r) == active = job[r].decided

RecheckPolicy(r) ==
    /\ pc[r] = "policy"
    /\ Passes(r, SamePolicy(r), IF job[r].approval = None THEN "execute" ELSE "expiry")

\* The approval the client named, if any: the row is read again, and the clock.
RecheckExpiry(r) ==
    LET a == job[r].approval
    IN  /\ pc[r] = "expiry"
        /\ \/ /\ a # None /\ a \notin expired
              /\ Goto(r, "capability")
              /\ job' = [job EXCEPT ![r].approver = approval[a].approver]
           \/ a \in expired /\ Reply(r, "error")
        /\ UNCHANGED <<ask, approval, rowLock, exec, effects, decision, auditLock,
                       audits, world, granted, spent>>

\* Who approved it can still approve.
RecheckApprover(r) ==
    pc[r] = "capability" /\ Passes(r, job[r].approver \in capable, "execute")

Recheck(r) == RecheckPath(r) \/ RecheckPolicy(r) \/ RecheckExpiry(r) \/ RecheckApprover(r)

\* actions.execute: refuses on the grant, answers a read, or hands a write to
\* the runner's child process.
Execute(r) ==
    /\ pc[r] = "execute"
    /\ \/ Reply(r, "error")
       \/ ~Writes(r) /\ Reply(r, "allowed")
       \/ Writes(r) /\ Goto(r, "await") /\ job' = [job EXCEPT ![r].child = TRUE]
    /\ UNCHANGED <<ask, approval, rowLock, exec, effects, decision, auditLock,
                   audits, world, granted, spent>>

\* Variant: dispatching the change counts as having made it.
AnsweredOnDispatch(r) == TRUE

\* The child reports success only after its handler returned.
Answered(r) == r \in effects

\* The child's answer, or its error, timeout or oversized output: after one of
\* these the change may or may not have been made, or still be on its way.
Settle(r) ==
    /\ pc[r] = "await"
    /\ \/ Answered(r) /\ Reply(r, "allowed")
       \/ Reply(r, "error")
    /\ UNCHANGED <<ask, approval, rowLock, exec, effects, decision, auditLock,
                   audits, world, granted, spent>>

\* finish(): operation state, audit record, commit.  approval_required commits
\* the pending row it inserted.
Finish(r) ==
    /\ pc[r] = "finish"
    /\ auditLock = None
    /\ exec' = IF Opened(r)
               THEN [exec EXCEPT ![Op(r)].state =
                       IF job[r].outcome = "allowed" THEN "succeeded" ELSE "outcome_unknown"]
               ELSE exec
    /\ audits' = audits \cup {Record(r, r, job[r].outcome)}
    /\ IF job[r].outcome = "approval_required"
       THEN /\ approval' = [approval EXCEPT ![r] =
                              [status |-> "pending", hash |-> Hash(r), approver |-> None]]
            /\ UNCHANGED <<rowLock, spent>>
       ELSE CommitConsumption(r)
    /\ Goto(r, "done")
    /\ UNCHANGED <<ask, job, effects, decision, auditLock, world, granted>>

-----------------------------------------------------------------------------
(* Failures of an attempt, and what outlives it *)

\* The child of a dispatched write makes its change: while its worker waits,
\* after the worker gave up on it, or after the worker died.
TakeEffect(r) ==
    /\ job[r].child
    /\ r \notin effects
    /\ effects' = effects \cup {r}
    /\ UNCHANGED <<ask, pc, job, approval, rowLock, exec, decision, auditLock,
                   audits, world, granted, spent>>

\* An exception nobody catches, or a killed process: the session is closed and
\* its transaction rolled back.  Committed intent stays as it is.
Crash(r) ==
    /\ "crash" \in Events
    /\ pc[r] # "new"
    /\ ~Ended(r)
    /\ Goto(r, "crashed")
    /\ RollBack(r)
    /\ UNCHANGED <<ask, job, approval, exec, effects, decision, auditLock,
                   audits, world, granted, spent>>

\* An operation with durable intent and no outcome.
InFlight(o) == exec[o].state \in {"authorized", "running"}

\* Variant: recovery runs beside live workers.
WorkersStoppedNever(o) == TRUE

\* "Run only after the corresponding workers are stopped."
WorkersStopped(o) == Ended(exec[o].corr)

\* mark_interrupted: those of the in-flight operations that are older than
\* `before` become outcome_unknown, each with its audit record.
MarkInterrupted(S) ==
    /\ S # {}
    /\ \A o \in S : WorkersStopped(o)
    /\ auditLock = None
    /\ exec' = [o \in Ops |-> IF o \in S THEN [exec[o] EXCEPT !.state = "outcome_unknown"]
                              ELSE exec[o]]
    /\ audits' = audits \cup {Record("recovery", exec[o].corr, "outcome_unknown") : o \in S}
    /\ UNCHANGED <<ask, pc, job, approval, rowLock, effects, decision, auditLock,
                   world, granted, spent>>

-----------------------------------------------------------------------------
(* decide_approval *)

\* Reads the row and refuses unless it is pending, in time, somebody else's and
\* within the approver's capability.
Review(d, a, verdict) ==
    /\ decision[d].at = "idle"
    /\ approval[a].status = "pending"
    /\ Approver[d] # Subject[ask[a].payload]
    /\ a \notin expired
    /\ Approver[d] \in capable
    /\ decision' = [decision EXCEPT ![d] = [at |-> "reviewed", approval |-> a,
                                            verdict |-> verdict]]
    /\ UNCHANGED <<ask, pc, job, approval, rowLock, exec, effects, auditLock,
                   audits, world, granted, spent>>

\* audit.append takes the advisory lock before the changed row is flushed.
TakeAuditLock(d) ==
    /\ decision[d].at = "reviewed"
    /\ auditLock = None
    /\ auditLock' = d
    /\ decision' = [decision EXCEPT ![d].at = "locked"]
    /\ UNCHANGED <<ask, pc, job, approval, rowLock, exec, effects, audits, world,
                   granted, spent>>

\* UPDATE approvals SET status = .. WHERE id = ..: no condition on the status
\* that was read.  The row lock is waited for; then everything commits.
RecordDecision(d) ==
    LET a == decision[d].approval
        verdict == decision[d].verdict
    IN  /\ decision[d].at = "locked"
        /\ rowLock[a] = None
        /\ approval' = [approval EXCEPT ![a].status = verdict, ![a].approver = Approver[d]]
        /\ granted' = IF verdict = "approved" THEN [granted EXCEPT ![a] = @ + 1] ELSE granted
        /\ audits' = audits \cup {Record(d, a, verdict)}
        /\ auditLock' = None
        /\ decision' = [decision EXCEPT ![d].at = "done"]
        /\ UNCHANGED <<ask, pc, job, rowLock, exec, effects, world, spent>>

\* The decision call fails, and with it its transaction.
AbandonDecision(d) ==
    /\ "crash" \in Events
    /\ decision[d].at \in {"reviewed", "locked"}
    /\ decision' = [decision EXCEPT ![d].at = "done"]
    /\ auditLock' = IF auditLock = d THEN None ELSE auditLock
    /\ UNCHANGED <<ask, pc, job, approval, rowLock, exec, effects, audits, world,
                   granted, spent>>

-----------------------------------------------------------------------------
(* The database and the environment *)

\* Variant: nothing detects the cycle.
DeadlockedUnseen(r, d) == FALSE

\* decide_approval takes the audit lock and then the approval's row; an attempt
\* that consumes takes the row and then the audit lock.
Deadlocked(r, d) ==
    /\ decision[d].at = "locked"
    /\ rowLock[decision[d].approval] = r
    /\ pc[r] \in {"intent", "finish"}

\* PostgreSQL's deadlock detector aborts one of the two transactions.
AbortDeadlock(r, d) ==
    /\ Deadlocked(r, d)
    /\ \/ /\ Goto(r, "crashed")
          /\ RollBack(r)
          /\ UNCHANGED <<decision, auditLock>>
       \/ /\ decision' = [decision EXCEPT ![d].at = "done"]
          /\ auditLock' = None
          /\ UNCHANGED <<pc, rowLock>>
    /\ UNCHANGED <<ask, job, approval, exec, effects, audits, world, granted, spent>>

\* Another policy version becomes active: a new one, or an older one again.
ActivatePolicy(v) ==
    /\ "activate" \in Events
    /\ v # active
    /\ active' = v
    /\ UNCHANGED <<entitled, capable, expired>>

\* Synchronisation takes authority away, or gives it back.
ChangeAuthority ==
    /\ "revoke" \in Events
    /\ \/ \E p \in Payloads :
            /\ entitled' = IF p \in entitled THEN entitled \ {p} ELSE entitled \cup {p}
            /\ UNCHANGED capable
       \/ \E s \in Principals :
            /\ capable' = IF s \in capable THEN capable \ {s} ELSE capable \cup {s}
            /\ UNCHANGED entitled
    /\ UNCHANGED <<active, expired>>

\* expires_at passes.
Expire(a) ==
    /\ "expire" \in Events
    /\ approval[a].status # "absent"
    /\ a \notin expired
    /\ expired' = expired \cup {a}
    /\ UNCHANGED <<active, entitled, capable>>

Environment ==
    /\ \/ \E v \in Versions : ActivatePolicy(v)
       \/ ChangeAuthority
       \/ \E a \in Requests : Expire(a)
    /\ UNCHANGED <<ask, pc, job, approval, rowLock, exec, effects, decision,
                   auditLock, audits, granted, spent>>

-----------------------------------------------------------------------------
\* What the thread that serves attempt r does next.
Serve(r) ==
    \/ BindPolicy(r) \/ LookupExecution(r) \/ LookupApproval(r) \/ EvaluatePolicy(r)
    \/ Consume(r) \/ CommitIntent(r) \/ IssueGrant(r) \/ MarkRunning(r) \/ Recheck(r)
    \/ Execute(r) \/ Settle(r) \/ Finish(r)

\* What the thread that serves decision call d does next.
Decide(d) == TakeAuditLock(d) \/ RecordDecision(d)

Next ==
    \/ \E r \in Requests : Admit(r) \/ Serve(r) \/ TakeEffect(r) \/ Crash(r)
    \/ \E S \in SUBSET {o \in Ops : InFlight(o)} : MarkInterrupted(S)
    \/ \E d \in Decisions : \/ \E a \in Requests, v \in {"approved", "rejected"} : Review(d, a, v)
                           \/ Decide(d)
                           \/ AbandonDecision(d)
    \/ \E r \in Requests, d \in Decisions : AbortDeadlock(r, d)
    \/ Environment

Spec == Init /\ [][Next]_vars

\* The thread pool keeps running the handlers it has started, the runner times
\* out, and the database resolves deadlocks.  Nothing obliges a client to send,
\* an approver to decide, an operator to recover or a change to take effect.
Fairness ==
    /\ \A r \in Requests : WF_vars(Serve(r))
    /\ \A d \in Decisions : WF_vars(Decide(d))
    /\ \A r \in Requests, d \in Decisions : WF_vars(AbortDeadlock(r, d))

FairSpec == Spec /\ Fairness

-----------------------------------------------------------------------------
(* Properties *)

TypeOK ==
    /\ ask \in [Requests -> Asked]
    /\ pc \in [Requests -> Labels]
    /\ job \in [Requests -> Job]
    /\ approval \in [Requests -> ApprovalRow]
    /\ rowLock \in [Requests -> Requests \cup {None}]
    /\ exec \in [Ops -> ExecRow]
    /\ effects \subseteq Requests
    /\ decision \in [Decisions -> DecisionCall]
    /\ auditLock \in Decisions \cup {None}
    /\ audits \subseteq AuditRecord
    /\ active \in Versions
    /\ entitled \subseteq Payloads
    /\ capable \subseteq Principals
    /\ expired \subseteq Requests
    /\ granted \in [Requests -> Nat]
    /\ spent \in [Requests -> Nat]

\* However often a client repeats an operation under one Idempotency-Key, and
\* whatever crashes in between, at most one attempt reaches the target system.
AtMostOneEffect ==
    \A r, s \in effects : Op(r) = Op(s) => r = s

\* A change in the target system always has committed intent behind it: the
\* execution row of that attempt, past "authorized", and its audit record.
IntentBeforeEffect ==
    \A r \in effects :
        /\ Opened(r)
        /\ exec[Op(r)].state \in {"running", "succeeded", "outcome_unknown"}
        /\ Record(r, r, "authorized") \in audits

\* Committed consumptions of an approval never outnumber the committed
\* decisions to grant it, however requests and decision calls overlap.
SpendsWithinGrants ==
    \A a \in Requests : spent[a] <= granted[a]

\* An execution that spent an approval was asked for exactly what the approval
\* was bound to, and was approved by somebody other than its requester.
ApprovalCoversExecution ==
    \A o \in Ops : exec[o].approval # None =>
        LET a == approval[exec[o].approval]
        IN  /\ exec[o].hash = a.hash
            /\ spent[exec[o].approval] > 0
            /\ a.approver # None
            /\ a.approver # o[1]

\* Nothing is recorded for execution that the policy version it was decided
\* under denies, does not allow, or wants an approval for that was not spent.
DecisionCoversExecution ==
    \A o \in Ops : exec[o].state # "absent" =>
        LET r == exec[o].corr
            matched == Effects[exec[o].version][ask[r].payload][job[r].path]
        IN  /\ "deny" \notin matched
            /\ "allow" \in matched
            /\ "require_approval" \in matched => exec[o].approval # None

\* The records that close the operation of attempt r.
Closing(r) ==
    {x \in audits : x.corr = r /\ x.result \in {"allowed", "error", "outcome_unknown"}}

\* What the execution row says, the audit trail says, and the target system
\* bears out: success means the change was made, and a resolved operation has
\* its closing record while one in flight has none.
OutcomeHasEvidence ==
    \A o \in Ops :
        LET r == exec[o].corr
        IN  /\ exec[o].state = "succeeded" =>
                   r \in effects /\ Closing(r) = {Record(r, r, "allowed")}
            /\ exec[o].state = "outcome_unknown" =>
                   Closing(r) \in {{Record(r, r, "error")}, {Record("recovery", r, "outcome_unknown")}}
            /\ InFlight(o) => Closing(r) = {}

\* The four reasons for which the decision of attempt r may no longer stand.
PathGone(r) == ask[r].payload \notin entitled
PolicyReplaced(r) == active # job[r].decided
ApprovalLapsed(r) == job[r].approval # None /\ job[r].approval \in expired
ApproverUnfit(r, s) ==
    /\ job[r].approval # None
    /\ approval[job[r].approval].approver = s
    /\ s \notin capable

\* Attempt r has its decision and has not begun to look at authority again.
AfterDecision(r) == pc[r] \in {"consume", "intent", "grant", "start", "recheck"}

\* A write that is overtaken after its decision and before the checks begin, and
\* stays overtaken for that one reason, never takes effect.  It says nothing of
\* reasons that relieve one another: a path may go when it has been looked at
\* and the old policy be active again when its turn comes (gateway.py:290).
OvertakenWritesAreFenced ==
    \A r \in Requests :
        /\ [](AfterDecision(r) /\ []PathGone(r) => [](r \notin effects))
        /\ [](AfterDecision(r) /\ []PolicyReplaced(r) => [](r \notin effects))
        /\ [](AfterDecision(r) /\ []ApprovalLapsed(r) => [](r \notin effects))
        /\ \A s \in Principals :
             [](AfterDecision(r) /\ []ApproverUnfit(r, s) => [](r \notin effects))

\* Every admitted attempt is answered: no overlap of row locks and the audit
\* lock leaves one waiting for ever.
AttemptsEnd == \A r \in Requests : (pc[r] # "new") ~> Ended(r)

\* The execution rows, as the requests above leave them, keep the promise of
\* OperationLedger.
Ledger == INSTANCE OperationLedger WITH
    Attempts <- Requests,
    state <- [o \in Ops |-> exec[o].state],
    owner <- [o \in Ops |-> exec[o].corr],
    acted <- [o \in Ops |-> {r \in effects : Op(r) = o}]

\* Whatever is repeated, delayed, interrupted or recovered, each operation key is
\* claimed, run, changed and resolved as OperationLedger allows: an outcome is
\* never revised and the row stays with the attempt that created it.
ImplementsLedger == Ledger!Spec

-----------------------------------------------------------------------------
(* What the documentation says of the flow, and the code does not do *)

\* "consumed atomically exactly once": an approval is never spent twice.
ApprovalSpentOnce == \A a \in Requests : spent[a] <= 1
=============================================================================
