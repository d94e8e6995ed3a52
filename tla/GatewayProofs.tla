---------------------------- MODULE GatewayProofs ----------------------------
(***************************************************************************)
(* Theorems about Gateway, for any sets of requests, decision calls, keys, *)
(* payloads, versions and principals, any policies and any environment.    *)
(***************************************************************************)
EXTENDS Gateway, TLAPS

\* The operation key of an attempt is one of the keys of exec.
LEMMA OpType ==
    ASSUME TypeOK, NEW r \in Requests
    PROVE  Op(r) \in Ops
BY ConstantsAssumption DEF TypeOK, Asked, Op, Ops

\* policy.evaluate answers with one of three decisions.
LEMMA EvaluateType ==
    ASSUME NEW matched, NEW present
    PROVE  Evaluate(matched, present) \in {"denied", "approval_required", "allowed"}
BY DEF Evaluate

\* Assignments to one local variable of a handler keep its type.
LEMMA JobUpdate ==
    ASSUME NEW j \in Job
    PROVE  /\ \A a \in Requests \cup {None}, b \in BOOLEAN :
                [j EXCEPT !.approval = a, !.path = b] \in Job
           /\ \A v \in Versions : [j EXCEPT !.bound = v] \in Job
           /\ \A v \in Versions, o \in Outcomes \cup {None} :
                [j EXCEPT !.decided = v, !.outcome = o] \in Job
           /\ \A b \in BOOLEAN : [j EXCEPT !.valid = b] \in Job
           /\ \A p \in Principals \cup {None} : [j EXCEPT !.approver = p] \in Job
           /\ \A b \in BOOLEAN, p \in Principals \cup {None} :
                [j EXCEPT !.valid = b, !.approver = p] \in Job
           /\ \A b \in BOOLEAN : [j EXCEPT !.child = b] \in Job
           /\ \A o \in Outcomes : [j EXCEPT !.outcome = o] \in Job
BY DEF Job

\* Assignments to one column of a row keep its type.
LEMMA RowUpdate ==
    /\ \A x \in ApprovalRow, s \in ApprovalStatus :
            [x EXCEPT !.status = s] \in ApprovalRow
    /\ \A x \in ApprovalRow, s \in ApprovalStatus, p \in Principals :
            [x EXCEPT !.status = s, !.approver = p] \in ApprovalRow
    /\ \A x \in ExecRow, s \in ExecState : [x EXCEPT !.state = s] \in ExecRow
    /\ \A x \in DecisionCall, l \in {"idle", "reviewed", "locked", "done"} :
            [x EXCEPT !.at = l] \in DecisionCall
BY DEF ApprovalRow, ExecRow, DecisionCall

\* finish() is entered with a well typed answer.
LEMMA ReplyType ==
    ASSUME TypeOK, NEW r \in Requests, NEW o \in Outcomes, Reply(r, o)
    PROVE  pc' \in [Requests -> Labels] /\ job' \in [Requests -> Job]
BY JobUpdate DEF TypeOK, Reply, Goto, Labels

\* What finish() and the next label find.
LEMMA ReplyValue ==
    ASSUME TypeOK, NEW r \in Requests, NEW o \in Outcomes, Reply(r, o)
    PROVE  pc'[r] = "finish" /\ job'[r].outcome = o /\ job'[r].child = job[r].child
BY DEF TypeOK, Job, Reply, Goto

\* Where a look at authority leads, and which of them let an attempt through.
LEMMA RecheckValue ==
    ASSUME TypeOK, NEW r \in Requests, Recheck(r)
    PROVE  /\ job'[r].child = job[r].child /\ job'[r].approval = job[r].approval
           /\ \/ pc'[r] = "finish" /\ job'[r].outcome = "error"
              \/ /\ pc[r] = "recheck" /\ pc'[r] = "policy"
                 /\ ask[r].payload \in entitled
              \/ /\ pc[r] = "policy" /\ active = job[r].decided
                 /\ \/ pc'[r] = "expiry"
                    \/ pc'[r] = "execute" /\ job[r].approval = None
              \/ /\ pc[r] = "expiry" /\ pc'[r] = "capability"
                 /\ job[r].approval \notin expired
                 /\ job'[r].approver = approval[job[r].approval].approver
              \/ /\ pc[r] = "capability" /\ pc'[r] = "execute"
                 /\ job[r].approver \in capable
           /\ pc[r] \in {"recheck", "policy", "expiry", "capability"}
<1>1. CASE RecheckPath(r)
    BY <1>1 DEF RecheckPath, Passes, TypeOK, Job, Reply, Goto
<1>2. CASE RecheckPolicy(r)
    BY <1>2 DEF RecheckPolicy, SamePolicy, Passes, TypeOK, Job, Reply, Goto
<1>3. CASE RecheckExpiry(r)
    BY <1>3 DEF RecheckExpiry, TypeOK, Job, Reply, Goto
<1>4. CASE RecheckApprover(r)
    BY <1>4 DEF RecheckApprover, Passes, TypeOK, Job, Reply, Goto
<1>5. QED
    BY <1>1, <1>2, <1>3, <1>4 DEF Recheck

\* An attempt that goes to a label is at that label.
LEMMA GotoValue ==
    ASSUME TypeOK, NEW r \in Requests, NEW l, Goto(r, l)
    PROVE  pc'[r] = l
BY DEF TypeOK, Goto

\* Committing or rolling back an attempt's transaction.
LEMMA CommitType ==
    ASSUME TypeOK, NEW r \in Requests, CommitConsumption(r)
    PROVE  /\ approval' \in [Requests -> ApprovalRow]
           /\ spent' \in [Requests -> Nat]
           /\ rowLock' \in [Requests -> Requests \cup {None}]
<1>1. \A a \in Requests : [approval[a] EXCEPT !.status = "consumed"] \in ApprovalRow
    BY RowUpdate DEF TypeOK, ApprovalStatus
<1>2. approval' \in [Requests -> ApprovalRow]
    BY <1>1 DEF TypeOK, CommitConsumption
<1>3. spent' \in [Requests -> Nat]
    BY DEF TypeOK, CommitConsumption
<1>4. rowLock' \in [Requests -> Requests \cup {None}]
    BY DEF TypeOK, CommitConsumption
<1>5. QED
    BY <1>2, <1>3, <1>4

\* A rollback leaves row locks with attempts or with nobody.
LEMMA RollBackType ==
    ASSUME TypeOK, NEW r \in Requests, RollBack(r)
    PROVE  rowLock' \in [Requests -> Requests \cup {None}]
BY DEF TypeOK, RollBack

\* Init gives every variable a value of its type.
LEMMA InitType == Init => TypeOK
BY ConstantsAssumption DEF Init, TypeOK, Labels, Asked, Job, ApprovalRow, ExecRow,
                           DecisionCall,
   ApprovalStatus, ExecState, NoApproval, NoExec, Idle

\* Every step keeps the types.
LEMMA StepType == TypeOK /\ [Next]_vars => TypeOK'
<1> SUFFICES ASSUME TypeOK, [Next]_vars
             PROVE  TypeOK'
    OBVIOUS
<1> USE DEF TypeOK, Labels
<1>1. ASSUME NEW r \in Requests, Admit(r)
      PROVE  TypeOK'
  <2>1. PICK a \in Requests \cup {None} :
            \/ /\ Goto(r, "bind")
               /\ job' = [job EXCEPT ![r].approval = a,
                                     ![r].path = ask[r].payload \in entitled]
            \/ Reply(r, "denied")
      BY <1>1 DEF Admit
  <2>2. pc' \in [Requests -> Labels] /\ job' \in [Requests -> Job]
    <3>1. CASE Reply(r, "denied")
        BY <3>1, ReplyType DEF Outcomes
    <3>2. CASE /\ Goto(r, "bind")
               /\ job' = [job EXCEPT ![r].approval = a,
                                     ![r].path = ask[r].payload \in entitled]
      <4>1. (ask[r].payload \in entitled) \in BOOLEAN
          OBVIOUS
      <4>2. [job[r] EXCEPT !.approval = a, !.path = ask[r].payload \in entitled] \in Job
          BY <4>1, JobUpdate
      <4>3. job' \in [Requests -> Job]
          BY <3>2, <4>2
      <4>4. QED
          BY <3>2, <4>3 DEF Goto
    <3>3. QED
        BY <2>1, <3>1, <3>2
  <2>3. QED
      BY <1>1, <2>2 DEF Admit, world
<1>2. ASSUME NEW r \in Requests, BindPolicy(r)
      PROVE  TypeOK'
  <2>1. CASE Reply(r, "denied")
      BY <1>2, <2>1, ReplyType DEF BindPolicy, Outcomes, world
  <2>2. CASE Goto(r, "lookup") /\ job' = [job EXCEPT ![r].bound = active]
      BY <1>2, <2>2, JobUpdate DEF BindPolicy, Goto, world
  <2>3. QED
      BY <1>2, <2>1, <2>2 DEF BindPolicy
<1>3. ASSUME NEW r \in Requests, LookupExecution(r)
      PROVE  TypeOK'
  <2>1. CASE Reply(r, "denied")
      BY <1>3, <2>1, ReplyType DEF LookupExecution, Outcomes, world
  <2>2. CASE Goto(r, "approval") /\ UNCHANGED job
      BY <1>3, <2>2 DEF LookupExecution, Goto, world
  <2>3. CASE Goto(r, "done") /\ job' = [job EXCEPT ![r].outcome = "replayed"]
      BY <1>3, <2>3, JobUpdate DEF LookupExecution, Goto, Outcomes, world
  <2>4. QED
      BY <1>3, <2>1, <2>2, <2>3 DEF LookupExecution
<1>4. ASSUME NEW r \in Requests, LookupApproval(r)
      PROVE  TypeOK'
  <2>1. CASE ReadApproval(r)
    <3> DEFINE a == job[r].approval
    <3>1. ASSUME Matches(r, a)
          PROVE  job' \in [Requests -> Job]
      <4>1. job' = [job EXCEPT ![r].valid = TRUE, ![r].approver = approval[a].approver]
          BY <2>1, <3>1 DEF ReadApproval
      <4>2. approval[a].approver \in Principals \cup {None}
          BY <3>1 DEF Matches, Job, ApprovalRow
      <4>3. [job[r] EXCEPT !.valid = TRUE, !.approver = approval[a].approver] \in Job
          BY <4>2, JobUpdate
      <4>4. QED
          BY <4>1, <4>3
    <3>2. ASSUME ~Matches(r, a)
          PROVE  job' \in [Requests -> Job]
      <4>1. job' = [job EXCEPT ![r].valid = FALSE]
          BY <2>1, <3>2 DEF ReadApproval
      <4>2. [job[r] EXCEPT !.valid = FALSE] \in Job
          BY JobUpdate
      <4>3. QED
          BY <4>1, <4>2
    <3>3. QED
        BY <2>1, <3>1, <3>2 DEF ReadApproval, Goto, world
  <2>2. CASE JudgeApproval(r)
    <3>1. (/\ job[r].valid
           /\ job[r].approver \in capable
           /\ job[r].approval \notin expired) \in BOOLEAN
        BY DEF Job
    <3>2. job' \in [Requests -> Job]
        BY <2>2, <3>1, JobUpdate DEF JudgeApproval
    <3>3. QED
        BY <2>2, <3>2 DEF JudgeApproval, Goto, world
  <2>3. QED
      BY <1>4, <2>1, <2>2 DEF LookupApproval
<1>5. ASSUME NEW r \in Requests, EvaluatePolicy(r)
      PROVE  TypeOK'
  <2> DEFINE outcome == Evaluate(Effects[active][ask[r].payload][job[r].path], job[r].valid)
  <2>1. (IF outcome = "allowed" THEN None ELSE outcome) \in Outcomes \cup {None}
      BY EvaluateType DEF Outcomes
  <2>2. CASE Reply(r, "denied")
      BY <1>5, <2>2, ReplyType DEF EvaluatePolicy, Outcomes, world
  <2>3. CASE ~Reply(r, "denied")
    <3>1. job' \in [Requests -> Job]
      <4> DEFINE o == IF outcome = "allowed" THEN None ELSE outcome
      <4>1. job' = [job EXCEPT ![r].decided = active, ![r].outcome = o]
          BY <1>5, <2>3 DEF EvaluatePolicy
      <4>2. o \in Outcomes \cup {None}
          BY <2>1
      <4>3. [job[r] EXCEPT !.decided = active, !.outcome = o] \in Job
          BY <4>2, JobUpdate
      <4> HIDE DEF o
      <4>4. QED
          BY <4>1, <4>3
    <3>2. pc' \in [Requests -> Labels]
        BY <1>5, <2>3 DEF EvaluatePolicy, AfterConsume, Goto
    <3>3. QED
        BY <1>5, <3>1, <3>2 DEF EvaluatePolicy, world
  <2>4. QED
      BY <2>2, <2>3
<1>6. ASSUME NEW r \in Requests, Consume(r)
      PROVE  TypeOK'
      BY <1>6, ReplyType DEF Consume, AfterConsume, Goto, Outcomes, world
<1>7. ASSUME NEW r \in Requests, CommitIntent(r)
      PROVE  TypeOK'
  <2>1. CASE KeyFree(r)
    <3>1. [state |-> "authorized", corr |-> r, hash |-> Hash(r), version |-> job[r].decided,
           approval |-> IF job[r].valid THEN job[r].approval ELSE None] \in ExecRow
        BY DEF ExecRow, ExecState, Hash, RequestHash, Job, Asked
    <3>2. exec' \in [Ops -> ExecRow]
        BY <1>7, <2>1, <3>1 DEF CommitIntent
    <3>3. audits' \subseteq AuditRecord
        BY <1>7, <2>1 DEF CommitIntent, Record, AuditRecord
    <3>4. QED
        BY <1>7, <2>1, <3>2, <3>3, CommitType DEF CommitIntent, Goto, world
  <2>2. CASE ~KeyFree(r)
      BY <1>7, <2>2, RollBackType DEF CommitIntent, Goto, world
  <2>3. QED
      BY <2>1, <2>2
<1>8. ASSUME NEW r \in Requests, IssueGrant(r)
      PROVE  TypeOK'
      BY <1>8, ReplyType DEF IssueGrant, Goto, Outcomes, world
<1>9. ASSUME NEW r \in Requests, MarkRunning(r)
      PROVE  TypeOK'
      BY <1>9, OpType, RowUpdate DEF MarkRunning, Goto, world, ExecState
<1>10. ASSUME NEW r \in Requests, Recheck(r)
      PROVE  TypeOK'
  <2>1. CASE Reply(r, "error")
      BY <1>10, <2>1, ReplyType DEF Recheck, RecheckPath, RecheckPolicy, RecheckExpiry,
                                    RecheckApprover, Passes, Outcomes, world
  <2>2. CASE RecheckExpiry(r) /\ ~Reply(r, "error")
    <3> DEFINE by == approval[job[r].approval].approver
    <3>1. job' = [job EXCEPT ![r].approver = by] /\ job[r].approval \in Requests
        BY <2>2 DEF RecheckExpiry, Job
    <3>2. by \in Principals \cup {None}
        BY <3>1 DEF ApprovalRow
    <3>3. [job[r] EXCEPT !.approver = by] \in Job
        BY <3>2, JobUpdate
    <3> HIDE DEF by
    <3>4. job' \in [Requests -> Job]
        BY <3>1, <3>3
    <3>5. QED
        BY <2>2, <3>4 DEF RecheckExpiry, Goto, world
  <2>3. CASE ~RecheckExpiry(r) /\ ~Reply(r, "error")
      BY <1>10, <2>3 DEF Recheck, RecheckPath, RecheckPolicy, RecheckApprover, Passes, Goto, world
  <2>4. QED
      BY <2>1, <2>2, <2>3
<1>11. ASSUME NEW r \in Requests, Execute(r)
      PROVE  TypeOK'
  <2>1. CASE Reply(r, "error") \/ Reply(r, "allowed")
      BY <1>11, <2>1, ReplyType DEF Execute, Outcomes, world
  <2>2. CASE Goto(r, "await") /\ job' = [job EXCEPT ![r].child = TRUE]
      BY <1>11, <2>2, JobUpdate DEF Execute, Goto, world
  <2>3. QED
      BY <1>11, <2>1, <2>2 DEF Execute
<1>12. ASSUME NEW r \in Requests, Settle(r)
      PROVE  TypeOK'
      BY <1>12, ReplyType DEF Settle, Goto, Outcomes, world
<1>13. ASSUME NEW r \in Requests, Finish(r)
      PROVE  TypeOK'
  <2>1. exec' \in [Ops -> ExecRow]
      BY <1>13, OpType, RowUpdate DEF Finish, ExecState
  <2>2. audits' \subseteq AuditRecord
      BY <1>13 DEF Finish, Record, AuditRecord, Job
  <2>3. [status |-> "pending", hash |-> Hash(r), approver |-> None] \in ApprovalRow
      BY DEF ApprovalRow, ApprovalStatus, Hash, RequestHash, Job, Asked
  <2>4. /\ approval' \in [Requests -> ApprovalRow]
        /\ spent' \in [Requests -> Nat]
        /\ rowLock' \in [Requests -> Requests \cup {None}]
      BY <1>13, <2>3, CommitType DEF Finish
  <2>5. QED
      BY <1>13, <2>1, <2>2, <2>4 DEF Finish, Goto, world
<1>14. ASSUME NEW r \in Requests, TakeEffect(r)
      PROVE  TypeOK'
      BY <1>14 DEF TakeEffect, world
<1>15. ASSUME NEW r \in Requests, Crash(r)
      PROVE  TypeOK'
      BY <1>15, RollBackType DEF Crash, Goto, world
<1>16. ASSUME NEW S \in SUBSET {o \in Ops : InFlight(o)}, MarkInterrupted(S)
      PROVE  TypeOK'
      BY <1>16 DEF MarkInterrupted, Record, world, ExecState, ExecRow, AuditRecord
<1>17. ASSUME NEW d \in Decisions, NEW a \in Requests,
              NEW v \in {"approved", "rejected"}, Review(d, a, v)
      PROVE  TypeOK'
      BY <1>17 DEF Review, world, DecisionCall
<1>18. ASSUME NEW d \in Decisions, TakeAuditLock(d)
      PROVE  TypeOK'
      BY <1>18, RowUpdate DEF TakeAuditLock, world
<1>19. ASSUME NEW d \in Decisions, RecordDecision(d)
      PROVE  TypeOK'
  <2> DEFINE a == decision[d].approval
             verdict == decision[d].verdict
  <2>1. verdict \in {"approved", "rejected"} /\ a \in Requests \cup {None}
      BY DEF DecisionCall
  <2>2. approval' \in [Requests -> ApprovalRow]
      BY <1>19, <2>1, RowUpdate, ConstantsAssumption DEF RecordDecision, ApprovalStatus
  <2>3. granted' \in [Requests -> Nat]
    <3>1. \/ granted' = granted
          \/ granted' = [granted EXCEPT ![a] = granted[a] + 1]
        BY <1>19 DEF RecordDecision
    <3>2. \A x \in Requests : granted[x] + 1 \in Nat
        OBVIOUS
    <3>3. granted \in [Requests -> Nat]
        OBVIOUS
    <3>4. ASSUME NEW x \in Requests
          PROVE  [granted EXCEPT ![a] = granted[a] + 1][x] \in Nat
        BY <3>2, <3>3
    <3>5. [granted EXCEPT ![a] = granted[a] + 1] \in [Requests -> Nat]
        BY <3>3, <3>4
    <3>6. QED
        BY <3>1, <3>3, <3>5
  <2>4. audits' \subseteq AuditRecord
      BY <1>19, <2>1 DEF RecordDecision, Record, AuditRecord
  <2>5. decision' \in [Decisions -> DecisionCall]
      BY <1>19, RowUpdate DEF RecordDecision
  <2>6. QED
      BY <1>19, <2>2, <2>3, <2>4, <2>5 DEF RecordDecision, world
<1>20. ASSUME NEW d \in Decisions, AbandonDecision(d)
      PROVE  TypeOK'
      BY <1>20, RowUpdate DEF AbandonDecision, world
<1>21. ASSUME NEW r \in Requests, NEW d \in Decisions, AbortDeadlock(r, d)
      PROVE  TypeOK'
  <2>1. CASE Goto(r, "crashed") /\ RollBack(r) /\ UNCHANGED <<decision, auditLock>>
      BY <1>21, <2>1, RollBackType DEF AbortDeadlock, Goto, world
  <2>2. CASE /\ decision' = [decision EXCEPT ![d].at = "done"]
             /\ auditLock' = None
             /\ UNCHANGED <<pc, rowLock>>
      BY <1>21, <2>2, RowUpdate DEF AbortDeadlock, world
  <2>3. QED
      BY <1>21, <2>1, <2>2 DEF AbortDeadlock
<1>22. CASE Environment
      BY <1>22 DEF Environment, ActivatePolicy, ChangeAuthority, Expire
<1>23. CASE UNCHANGED vars
      BY <1>23 DEF vars
<1>24. QED
      BY <1>1, <1>2, <1>3, <1>4, <1>5, <1>6, <1>7, <1>8, <1>9, <1>10, <1>11, <1>12,
         <1>13, <1>14, <1>15, <1>16, <1>17, <1>18, <1>19, <1>20, <1>21, <1>22, <1>23
      DEF Next, Serve, Decide

\* Every reachable state is well typed.
THEOREM TypeCorrect == Spec => []TypeOK
BY InitType, StepType, PTL DEF Spec

-----------------------------------------------------------------------------
(* Who owns an operation.  OperationLedger's promise is not inductive: it   *)
(* says nothing of an attempt between its steps.  Staged adds, for each     *)
(* label of an attempt, what its execution row holds.                       *)

Before ==
    {"new", "bind", "lookup", "approval", "approver", "evaluate", "consume", "intent"}

\* The last look at authority.
Checks == {"recheck", "policy", "expiry", "capability"}

\* A row is claimed exactly when it is present, by an attempt at that key.
RowsOwned ==
    \A o \in Ops :
        /\ exec[o].corr = None <=> exec[o].state = "absent"
        /\ exec[o].corr # None => Op(exec[o].corr) = o

\* What holds of attempt r at each label.
Staged(r) ==
    /\ pc[r] \in Before => ~Opened(r) /\ ~job[r].child
    /\ pc[r] \in {"grant", "start", "execute"} \cup Checks => ~job[r].child
    /\ pc[r] \in {"grant", "start"} /\ Writes(r) =>
            Opened(r) /\ exec[Op(r)].state = "authorized"
    /\ pc[r] \in {"intent", "start", "await"} \cup Checks => Writes(r)
    /\ pc[r] \in {"execute", "await"} \cup Checks /\ Writes(r) =>
            Opened(r) /\ exec[Op(r)].state = "running"
    /\ pc[r] = "finish" /\ Opened(r) =>
            /\ exec[Op(r)].state \in {"authorized", "running"}
            /\ job[r].outcome = "allowed" => exec[Op(r)].state = "running" /\ r \in effects
    /\ Opened(r) => Writes(r) /\ Record(r, r, "authorized") \in audits
    /\ job[r].child =>
            /\ Opened(r)
            /\ exec[Op(r)].state \in {"running", "succeeded", "outcome_unknown"}
            /\ exec[Op(r)].state = "succeeded" => r \in effects
    /\ r \in effects => job[r].child

Owned == RowsOwned /\ \A r \in Requests : Staged(r)

\* A step that leaves the rows alone leaves the attempts it does not serve as
\* they were.
LEMMA OthersUndisturbed ==
    ASSUME NEW s \in Requests, Staged(s),
           ask' = ask, exec' = exec, effects' = effects, audits \subseteq audits',
           pc'[s] = pc[s], job'[s] = job[s]
    PROVE  Staged(s)'
BY DEF Staged, Checks, Opened, Op, Writes, Record

\* A step that writes only the row of attempt r, whose it is afterwards,
\* does not disturb another attempt, even one at the same key.
LEMMA RivalsUndisturbed ==
    ASSUME TypeOK, NEW r \in Requests, NEW s \in Requests, s # r, Staged(s),
           exec[Op(r)].corr \in {None, r}, exec'[Op(r)].corr = r,
           \A o \in Ops : o # Op(r) => exec'[o] = exec[o],
           ask' = ask, effects' = effects, audits \subseteq audits',
           pc'[s] = pc[s], job'[s] = job[s]
    PROVE  Staged(s)'
<1>1. Op(s) \in Ops /\ Op(r) \in Ops
    BY OpType
<1>2. Op(s)' = Op(s) /\ Writes(s)' = Writes(s)
    BY DEF Op, Writes
<1>3. CASE Op(s) = Op(r)
  <2>1. ~Opened(s) /\ ~Opened(s)'
      BY <1>2, <1>3, NoneAssumption DEF Opened
  <2>2. QED
      BY <1>2, <2>1 DEF Staged
<1>4. CASE Op(s) # Op(r)
    BY <1>1, <1>2, <1>4 DEF Staged, Checks, Opened, Record
<1>5. QED
    BY <1>3, <1>4

\* Nothing is owned and nothing is done at the start.
LEMMA InitOwned == Init => Owned
<1> SUFFICES ASSUME Init
             PROVE  Owned
    OBVIOUS
<1>1. TypeOK
    BY InitType
<1>2. RowsOwned
    BY DEF Init, RowsOwned, NoExec
<1>3. ASSUME NEW r \in Requests
      PROVE  Staged(r)
  <2>1. Op(r) \in Ops
      BY <1>1, OpType
  <2>2. exec[Op(r)].corr = None /\ r # None
      BY <2>1, NoneAssumption DEF Init, NoExec
  <2>3. QED
      BY <2>2 DEF Init, Staged, Opened, Before, Checks
<1>4. QED
    BY <1>2, <1>3 DEF Owned

\* The steps of an attempt that touch no row: it moves on as its label allows.
LEMMA LocalStepOwned ==
    ASSUME TypeOK, Owned, NEW r \in Requests,
           ask' = ask, exec' = exec, effects' = effects, audits' = audits,
           \A s \in Requests \ {r} : pc'[s] = pc[s] /\ job'[s] = job[s],
           Opened(r)' = Opened(r) /\ Writes(r)' = Writes(r) /\ Op(r)' = Op(r) => Staged(r)'
    PROVE  Owned'
<1>1. RowsOwned'
    BY DEF Owned, RowsOwned, Op
<1>2. ASSUME NEW s \in Requests, s # r
      PROVE  Staged(s)'
    BY <1>2, OthersUndisturbed DEF Owned
<1>3. Opened(r)' = Opened(r) /\ Writes(r)' = Writes(r) /\ Op(r)' = Op(r)
    BY DEF Opened, Writes, Op
<1>4. QED
    BY <1>1, <1>2, <1>3 DEF Owned

\* Every step keeps the ownership of operations.
LEMMA StepOwned == TypeOK /\ Owned /\ [Next]_vars => Owned'
<1> SUFFICES ASSUME TypeOK, Owned, [Next]_vars
             PROVE  Owned'
    OBVIOUS
<1>1. ASSUME NEW r \in Requests, Admit(r)
      PROVE  Owned'
  <2>1. /\ ask' = ask /\ exec' = exec /\ effects' = effects /\ audits' = audits
        /\ \A s \in Requests \ {r} : pc'[s] = pc[s] /\ job'[s] = job[s]
      BY <1>1 DEF TypeOK, Admit, Reply, Goto
  <2>2. pc[r] = "new" /\ job'[r].child = job[r].child
      BY <1>1 DEF TypeOK, Admit, Reply, Job
  <2>3. pc'[r] \in {"bind", "finish"} /\ (pc'[r] = "finish" => job'[r].outcome = "denied")
      BY <1>1 DEF TypeOK, Job, Admit, Reply, Goto
  <2>4. QED
      BY <2>1, <2>2, <2>3, LocalStepOwned DEF Owned, Staged, Before, Checks
<1>2. ASSUME NEW r \in Requests, BindPolicy(r)
      PROVE  Owned'
  <2>1. /\ ask' = ask /\ exec' = exec /\ effects' = effects /\ audits' = audits
        /\ \A s \in Requests \ {r} : pc'[s] = pc[s] /\ job'[s] = job[s]
      BY <1>2 DEF TypeOK, BindPolicy, Goto, Reply
  <2>2. pc[r] = "bind" /\ job'[r].child = job[r].child
      BY <1>2 DEF TypeOK, BindPolicy, Reply, Job
  <2>3. pc'[r] \in {"lookup", "finish"} /\ (pc'[r] = "finish" => job'[r].outcome = "denied")
      BY <1>2 DEF TypeOK, Job, BindPolicy, Goto, Reply
  <2>4. QED
      BY <2>1, <2>2, <2>3, LocalStepOwned DEF Owned, Staged, Before, Checks
<1>3. ASSUME NEW r \in Requests, LookupExecution(r)
      PROVE  Owned'
  <2>1. /\ ask' = ask /\ exec' = exec /\ effects' = effects /\ audits' = audits
        /\ \A s \in Requests \ {r} : pc'[s] = pc[s] /\ job'[s] = job[s]
      BY <1>3 DEF TypeOK, LookupExecution, Reply, Goto
  <2>2. pc[r] = "lookup" /\ job'[r].child = job[r].child
      BY <1>3 DEF TypeOK, LookupExecution, Reply, Job
  <2>3. pc'[r] \in {"approval", "done", "finish"} /\ (pc'[r] = "finish" => job'[r].outcome = "denied")
      BY <1>3 DEF TypeOK, Job, LookupExecution, Reply, Goto
  <2>4. QED
      BY <2>1, <2>2, <2>3, LocalStepOwned DEF Owned, Staged, Before, Checks
<1>4. ASSUME NEW r \in Requests, LookupApproval(r)
      PROVE  Owned'
  <2>1. /\ ask' = ask /\ exec' = exec /\ effects' = effects /\ audits' = audits
        /\ \A s \in Requests \ {r} : pc'[s] = pc[s] /\ job'[s] = job[s]
      BY <1>4 DEF TypeOK, LookupApproval, ReadApproval, JudgeApproval, Goto
  <2>2. pc[r] \in {"approval", "approver"} /\ job'[r].child = job[r].child
      BY <1>4 DEF TypeOK, LookupApproval, ReadApproval, JudgeApproval, Job
  <2>3. pc'[r] \in {"approver", "evaluate"}
      BY <1>4 DEF TypeOK, Job, LookupApproval, ReadApproval, JudgeApproval, Goto
  <2>4. QED
      BY <2>1, <2>2, <2>3, LocalStepOwned DEF Owned, Staged, Before, Checks
<1>5. ASSUME NEW r \in Requests, EvaluatePolicy(r)
      PROVE  Owned'
  <2>1. /\ ask' = ask /\ exec' = exec /\ effects' = effects /\ audits' = audits
        /\ \A s \in Requests \ {r} : pc'[s] = pc[s] /\ job'[s] = job[s]
      BY <1>5 DEF TypeOK, EvaluatePolicy, AfterConsume, Reply, Goto
  <2>2. pc[r] = "evaluate" /\ job'[r].child = job[r].child
      BY <1>5 DEF TypeOK, EvaluatePolicy, AfterConsume, Reply, Job
  <2>3. \/ pc'[r] \in {"finish", "consume"}
        \/ pc'[r] = IF Writes(r) THEN "intent" ELSE "grant"
      BY <1>5 DEF TypeOK, Job, EvaluatePolicy, AfterConsume, Reply, Goto
  <2>4. QED
      BY <2>1, <2>2, <2>3, LocalStepOwned DEF Owned, Staged, Before, Checks
<1>6. ASSUME NEW r \in Requests, Consume(r)
      PROVE  Owned'
  <2>1. /\ ask' = ask /\ exec' = exec /\ effects' = effects /\ audits' = audits
        /\ \A s \in Requests \ {r} : pc'[s] = pc[s] /\ job'[s] = job[s]
      BY <1>6 DEF TypeOK, Consume, AfterConsume, Reply, Goto
  <2>2. pc[r] = "consume" /\ job'[r].child = job[r].child
      BY <1>6 DEF TypeOK, Consume, AfterConsume, Reply, Job
  <2>3. \/ pc'[r] = "finish"
        \/ pc'[r] = IF Writes(r) THEN "intent" ELSE "grant"
      BY <1>6 DEF TypeOK, Job, Consume, AfterConsume, Reply, Goto
  <2>4. QED
      BY <2>1, <2>2, <2>3, LocalStepOwned DEF Owned, Staged, Before, Checks
<1>7. ASSUME NEW r \in Requests, IssueGrant(r)
      PROVE  Owned'
  <2>1. /\ ask' = ask /\ exec' = exec /\ effects' = effects /\ audits' = audits
        /\ \A s \in Requests \ {r} : pc'[s] = pc[s] /\ job'[s] = job[s]
      BY <1>7 DEF TypeOK, IssueGrant, Reply, Goto
  <2>2. pc[r] = "grant" /\ job'[r].child = job[r].child
      BY <1>7 DEF TypeOK, IssueGrant, Reply, Job
  <2>3. \/ pc'[r] = IF Writes(r) THEN "start" ELSE "execute"
        \/ pc'[r] = "finish" /\ job'[r].outcome = "error"
    <3>1. CASE Reply(r, "error")
        BY <3>1, ReplyValue DEF Outcomes
    <3>2. CASE Goto(r, IF Writes(r) THEN "start" ELSE "execute")
        BY <3>2, GotoValue
    <3>3. QED
        BY <1>7, <3>1, <3>2 DEF IssueGrant
  <2>4. QED
      BY <2>1, <2>2, <2>3, LocalStepOwned DEF Owned, Staged, Before, Checks
<1>8. ASSUME NEW r \in Requests, Recheck(r)
      PROVE  Owned'
  <2>1. /\ ask' = ask /\ exec' = exec /\ effects' = effects /\ audits' = audits
        /\ \A s \in Requests \ {r} : pc'[s] = pc[s] /\ job'[s] = job[s]
      BY <1>8 DEF TypeOK, Recheck, RecheckPath, RecheckPolicy, RecheckExpiry,
                  RecheckApprover, Passes, Reply, Goto
  <2>2. QED
      BY <1>8, <2>1, RecheckValue, LocalStepOwned DEF Owned, Staged, Before, Checks
<1>9. ASSUME NEW r \in Requests, Settle(r)
      PROVE  Owned'
  <2>1. /\ ask' = ask /\ exec' = exec /\ effects' = effects /\ audits' = audits
        /\ \A s \in Requests \ {r} : pc'[s] = pc[s] /\ job'[s] = job[s]
      BY <1>9 DEF TypeOK, Settle, Answered, Reply, Goto
  <2>2. pc[r] = "await" /\ job'[r].child = job[r].child
      BY <1>9 DEF TypeOK, Settle, Answered, Reply, Job
  <2>3. pc'[r] = "finish" /\ (job'[r].outcome = "allowed" => r \in effects)
      BY <1>9 DEF TypeOK, Job, Settle, Answered, Reply, Goto
  <2>4. QED
      BY <2>1, <2>2, <2>3, LocalStepOwned DEF Owned, Staged, Before, Checks
<1>10. ASSUME NEW r \in Requests, Execute(r)
      PROVE  Owned'
  <2>1. /\ ask' = ask /\ exec' = exec /\ effects' = effects /\ audits' = audits
        /\ \A s \in Requests \ {r} : pc'[s] = pc[s] /\ job'[s] = job[s]
        /\ pc[r] = "execute"
      BY <1>10 DEF TypeOK, Execute, Reply, Goto
  <2>2. CASE Reply(r, "error")
    <3>1. pc'[r] = "finish" /\ job'[r].outcome = "error" /\ job'[r].child = job[r].child
        BY <2>2 DEF TypeOK, Job, Reply, Goto
    <3>2. QED
        BY <2>1, <3>1, LocalStepOwned DEF Owned, Staged, Before, Checks
  <2>3. CASE ~Writes(r) /\ Reply(r, "allowed")
    <3>1. pc'[r] = "finish" /\ job'[r].child = job[r].child
        BY <2>3 DEF TypeOK, Job, Reply, Goto
    <3>2. QED
        BY <2>1, <2>3, <3>1, LocalStepOwned DEF Owned, Staged, Before, Checks
  <2>4. CASE Writes(r) /\ Goto(r, "await") /\ job' = [job EXCEPT ![r].child = TRUE]
    <3>1. pc'[r] = "await"
        BY <2>4 DEF TypeOK, Goto
    <3>2. QED
        BY <2>1, <2>4, <3>1, LocalStepOwned DEF Owned, Staged, Before, Checks
  <2>5. QED
      BY <1>10, <2>2, <2>3, <2>4 DEF Execute
<1>11. ASSUME NEW r \in Requests, Crash(r)
      PROVE  Owned'
  <2>1. /\ ask' = ask /\ exec' = exec /\ effects' = effects /\ audits' = audits
        /\ job' = job /\ pc'[r] = "crashed"
        /\ \A s \in Requests \ {r} : pc'[s] = pc[s]
      BY <1>11 DEF TypeOK, Crash, Goto
  <2>2. QED
      BY <2>1, LocalStepOwned DEF Owned, Staged, Before, Checks
<1>12. ASSUME NEW r \in Requests, NEW d \in Decisions, AbortDeadlock(r, d)
      PROVE  Owned'
  <2>1. /\ ask' = ask /\ exec' = exec /\ effects' = effects /\ audits' = audits
        /\ job' = job /\ pc'[r] \in {pc[r], "crashed"}
        /\ \A s \in Requests \ {r} : pc'[s] = pc[s]
      BY <1>12 DEF TypeOK, AbortDeadlock, Goto
  <2>2. QED
      BY <2>1, LocalStepOwned DEF Owned, Staged, Before, Checks
<1>13. ASSUME NEW r \in Requests, CommitIntent(r)
      PROVE  Owned'
  <2>1. /\ ask' = ask /\ job' = job /\ effects' = effects /\ pc[r] = "intent"
        /\ \A s \in Requests \ {r} : pc'[s] = pc[s]
      BY <1>13 DEF TypeOK, CommitIntent, Goto
  <2>2. Op(r) \in Ops /\ Op(r)' = Op(r) /\ Writes(r)' = Writes(r)
      BY <2>1, OpType DEF Op, Writes
  <2>3. CASE ~KeyFree(r)
    <3>1. exec' = exec /\ audits' = audits /\ pc'[r] = "crashed"
        BY <1>13, <2>3 DEF TypeOK, CommitIntent, Goto
    <3>2. QED
        BY <2>1, <3>1, LocalStepOwned DEF Owned, Staged, Before, Checks
  <2>4. CASE KeyFree(r)
    <3>1. /\ audits' = audits \cup {Record(r, r, "authorized")}
          /\ pc'[r] = "grant"
          /\ \A o \in Ops : o # Op(r) => exec'[o] = exec[o]
          /\ exec'[Op(r)].corr = r /\ exec'[Op(r)].state = "authorized"
        BY <1>13, <2>2, <2>4 DEF TypeOK, CommitIntent, Goto
    <3>2. exec[Op(r)].corr = None
        BY <2>2, <2>4 DEF KeyFree, Owned, RowsOwned
    <3>3. RowsOwned'
        BY <2>1, <2>2, <3>1, NoneAssumption DEF Owned, RowsOwned, Op
    <3>4. Staged(r)'
      <4>1. Writes(r)
          BY <2>1 DEF Owned, Staged
      <4>2. Opened(r)' /\ Record(r, r, "authorized")' \in audits'
          BY <2>2, <3>1 DEF Opened, Record
      <4>3. ~job'[r].child /\ r \notin effects'
          BY <2>1 DEF Owned, Staged, Before, Checks
      <4>4. QED
          BY <2>1, <2>2, <3>1, <4>1, <4>2, <4>3 DEF Staged, Before, Checks
    <3>5. ASSUME NEW s \in Requests, s # r
          PROVE  Staged(s)'
        BY <2>1, <3>1, <3>2, <3>5, RivalsUndisturbed DEF Owned
    <3>6. QED
        BY <3>3, <3>4, <3>5 DEF Owned
  <2>5. QED
      BY <2>3, <2>4
<1>14. ASSUME NEW r \in Requests, MarkRunning(r)
      PROVE  Owned'
  <2>1. /\ ask' = ask /\ job' = job /\ effects' = effects /\ audits' = audits
        /\ pc[r] = "start" /\ pc'[r] = "recheck"
        /\ \A s \in Requests \ {r} : pc'[s] = pc[s]
      BY <1>14 DEF TypeOK, MarkRunning, Goto
  <2>2. Op(r) \in Ops /\ Op(r)' = Op(r) /\ Writes(r)' = Writes(r)
      BY <2>1, OpType DEF Op, Writes
  <2>3. Writes(r) /\ exec[Op(r)].corr = r /\ ~job[r].child
      BY <2>1 DEF Owned, Staged, Opened
  <2>4. /\ \A o \in Ops : o # Op(r) => exec'[o] = exec[o]
        /\ exec'[Op(r)].corr = r /\ exec'[Op(r)].state = "running"
      BY <1>14, <2>2, <2>3 DEF TypeOK, ExecRow, MarkRunning
  <2>5. RowsOwned'
      BY <2>1, <2>2, <2>4, NoneAssumption DEF Owned, RowsOwned, Op
  <2>6. Staged(r)'
      BY <2>1, <2>2, <2>3, <2>4 DEF Owned, Staged, Before, Checks, Opened, Record
  <2>7. ASSUME NEW s \in Requests, s # r
        PROVE  Staged(s)'
      BY <2>1, <2>3, <2>4, <2>7, RivalsUndisturbed DEF Owned
  <2>8. QED
      BY <2>5, <2>6, <2>7 DEF Owned
<1>15. ASSUME NEW r \in Requests, Finish(r)
      PROVE  Owned'
  <2>1. /\ ask' = ask /\ job' = job /\ effects' = effects
        /\ audits \subseteq audits'
        /\ pc[r] = "finish" /\ pc'[r] = "done"
        /\ \A s \in Requests \ {r} : pc'[s] = pc[s]
      BY <1>15 DEF TypeOK, Finish, Goto
  <2>2. Op(r) \in Ops /\ Op(r)' = Op(r) /\ Writes(r)' = Writes(r)
      BY <2>1, OpType DEF Op, Writes
  <2>3. CASE ~Opened(r)
    <3>1. exec' = exec
        BY <1>15, <2>3 DEF Finish
    <3>2. RowsOwned'
        BY <2>1, <3>1 DEF Owned, RowsOwned, Op
    <3>3. ~Opened(r)' /\ ~job[r].child
        BY <2>2, <2>3, <3>1 DEF Opened, Owned, Staged
    <3>4. Staged(r)'
        BY <2>1, <3>3 DEF Owned, Staged, Before, Checks
    <3>5. ASSUME NEW s \in Requests, s # r
          PROVE  Staged(s)'
        BY <2>1, <3>1, <3>5, OthersUndisturbed DEF Owned
    <3>6. QED
        BY <3>2, <3>4, <3>5 DEF Owned
  <2>4. CASE Opened(r)
    <3>1. /\ exec[Op(r)].corr = r
          /\ job[r].outcome = "allowed" => r \in effects
          /\ Writes(r) /\ Record(r, r, "authorized") \in audits
        BY <2>1, <2>4 DEF Owned, Staged, Opened
    <3>2. /\ \A o \in Ops : o # Op(r) => exec'[o] = exec[o]
          /\ exec'[Op(r)].corr = r
          /\ exec'[Op(r)].state \in {"succeeded", "outcome_unknown"}
          /\ exec'[Op(r)].state = "succeeded" => job[r].outcome = "allowed"
        BY <1>15, <2>2, <2>4, <3>1 DEF TypeOK, ExecRow, Finish
    <3>3. RowsOwned'
        BY <2>1, <2>2, <3>2, NoneAssumption DEF Owned, RowsOwned, Op
    <3>4. Opened(r)' /\ Record(r, r, "authorized")' \in audits'
        BY <2>1, <2>2, <3>1, <3>2 DEF Opened, Record
    <3>5. Staged(r)'
        BY <2>1, <2>2, <3>1, <3>2, <3>4 DEF Owned, Staged, Before, Checks
    <3>6. ASSUME NEW s \in Requests, s # r
          PROVE  Staged(s)'
        BY <2>1, <3>1, <3>2, <3>6, RivalsUndisturbed DEF Owned
    <3>7. QED
        BY <3>3, <3>5, <3>6 DEF Owned
  <2>5. QED
      BY <2>3, <2>4
<1>16. ASSUME NEW r \in Requests, TakeEffect(r)
      PROVE  Owned'
  <2>1. /\ ask' = ask /\ job' = job /\ exec' = exec /\ audits' = audits /\ pc' = pc
        /\ effects' = effects \cup {r} /\ job[r].child
      BY <1>16 DEF TakeEffect
  <2>2. RowsOwned'
      BY <2>1 DEF Owned, RowsOwned, Op
  <2>3. ASSUME NEW s \in Requests
        PROVE  Staged(s)'
    <3>1. Staged(s) /\ (s \in effects' => job[s].child)
        BY <2>1 DEF Owned, Staged
    <3>2. Opened(s)' = Opened(s) /\ Writes(s)' = Writes(s) /\ Op(s)' = Op(s)
        BY <2>1 DEF Opened, Writes, Op
    <3>3. Record(s, s, "authorized")' = Record(s, s, "authorized")
        BY DEF Record
    <3>4. QED
        BY <2>1, <3>1, <3>2, <3>3 DEF Staged
  <2>4. QED
      BY <2>2, <2>3 DEF Owned
<1>17. ASSUME NEW S \in SUBSET {o \in Ops : InFlight(o)}, MarkInterrupted(S)
      PROVE  Owned'
  <2>1. /\ ask' = ask /\ job' = job /\ effects' = effects /\ pc' = pc
        /\ audits \subseteq audits'
        /\ \A o \in S : Ended(exec[o].corr)
      BY <1>17 DEF MarkInterrupted, WorkersStopped
  <2>2. \A o \in Ops : /\ exec'[o].corr = exec[o].corr
                       /\ exec'[o].state = IF o \in S THEN "outcome_unknown" ELSE exec[o].state
                       /\ o \in S => exec[o].state \in {"authorized", "running"}
      BY <1>17 DEF TypeOK, ExecRow, MarkInterrupted, InFlight
  <2>3. RowsOwned'
      BY <2>1, <2>2 DEF Owned, RowsOwned, Op
  <2>4. ASSUME NEW s \in Requests
        PROVE  Staged(s)'
    <3>1. /\ Op(s) \in Ops /\ Op(s)' = Op(s) /\ Writes(s)' = Writes(s)
          /\ Record(s, s, "authorized")' = Record(s, s, "authorized")
        BY <2>1, OpType DEF Op, Writes, Record
    <3>2. Opened(s)' = Opened(s)
        BY <2>2, <3>1 DEF Opened
    <3>3. Opened(s) /\ Op(s) \in S => pc[s] \in {"done", "crashed"}
        BY <2>1 DEF Opened, Ended
    <3>4. Staged(s)
        BY DEF Owned
    <3>5. QED
        BY <2>1, <2>2, <3>1, <3>2, <3>3, <3>4 DEF Staged, Before, Checks
  <2>5. QED
      BY <2>3, <2>4 DEF Owned
<1>18. ASSUME ask' = ask, pc' = pc, job' = job, exec' = exec, effects' = effects,
              audits \subseteq audits'
      PROVE  Owned'
  <2>1. RowsOwned'
      BY <1>18 DEF Owned, RowsOwned, Op
  <2>2. ASSUME NEW s \in Requests
        PROVE  Staged(s)'
      BY <1>18, OthersUndisturbed DEF Owned
  <2>3. QED
      BY <2>1, <2>2 DEF Owned
<1>19. ASSUME NEW d \in Decisions, NEW a \in Requests,
              NEW v \in {"approved", "rejected"}, Review(d, a, v)
      PROVE  Owned'
      BY <1>18, <1>19 DEF Review
<1>20. ASSUME NEW d \in Decisions,
              TakeAuditLock(d) \/ RecordDecision(d) \/ AbandonDecision(d)
      PROVE  Owned'
      BY <1>18, <1>20 DEF TakeAuditLock, RecordDecision, AbandonDecision
<1>21. CASE Environment \/ UNCHANGED vars
      BY <1>18, <1>21 DEF Environment, vars
<1>22. QED
      BY <1>1, <1>2, <1>3, <1>4, <1>5, <1>6, <1>7, <1>8, <1>9, <1>10, <1>11, <1>12, <1>13,
         <1>14, <1>15, <1>16, <1>17, <1>19, <1>20, <1>21
      DEF Next, Serve, Decide

\* Ownership holds of every reachable state.
THEOREM OwnershipHolds == Spec => []Owned
BY TypeCorrect, InitType, InitOwned, StepOwned, PTL DEF Spec

\* Two attempts under one operation key never both reach the target system.
THEOREM AtMostOneEffectHolds == Spec => []AtMostOneEffect
<1>1. TypeOK /\ Owned => AtMostOneEffect
    BY NoneAssumption DEF TypeOK, Owned, Staged, Opened, AtMostOneEffect
<1>2. QED
    BY <1>1, TypeCorrect, OwnershipHolds, PTL

\* Every change in the target system has its committed intent.
THEOREM IntentBeforeEffectHolds == Spec => []IntentBeforeEffect
<1>1. TypeOK /\ Owned => IntentBeforeEffect
    BY DEF TypeOK, Owned, Staged, IntentBeforeEffect
<1>2. QED
    BY <1>1, TypeCorrect, OwnershipHolds, PTL

-----------------------------------------------------------------------------
(* What resolves an operation.  OutcomeHasEvidence says nothing of an        *)
(* attempt on its way, so Resolved adds that an attempt without a row leaves *)
(* no closing record before it ends, and that finish() of an opened          *)
(* operation can only answer "allowed" or "error".                           *)

Resolved(r) ==
    /\ pc[r] = "finish" /\ Opened(r) => job[r].outcome \in {"allowed", "error"}
    /\ ~Opened(r) /\ ~Ended(r) => Closing(r) = {}
    /\ Opened(r) /\ InFlight(Op(r)) => Closing(r) = {}
    /\ Opened(r) /\ exec[Op(r)].state = "succeeded" =>
            r \in effects /\ Closing(r) = {Record(r, r, "allowed")}
    /\ Opened(r) /\ exec[Op(r)].state = "outcome_unknown" =>
            Closing(r) \in {{Record(r, r, "error")}, {Record("recovery", r, "outcome_unknown")}}

AllResolved == \A r \in Requests : Resolved(r)

\* A record of another attempt, or one that closes nothing.
LEMMA ClosingKept ==
    ASSUME NEW r \in Requests, NEW who, NEW corr, NEW result,
           audits' = audits \cup {Record(who, corr, result)},
           corr # r \/ result \notin {"allowed", "error", "outcome_unknown"}
    PROVE  Closing(r)' = Closing(r)
BY DEF Closing, Record

\* A step that leaves the rows and the closing records of s alone.
LEMMA ResolvedKept ==
    ASSUME NEW s \in Requests, Resolved(s), ask' = ask, exec' = exec,
           effects \subseteq effects', Closing(s)' = Closing(s), Ended(s) => Ended(s)',
           pc'[s] = "finish" /\ Opened(s) => job'[s].outcome \in {"allowed", "error"}
    PROVE  Resolved(s)'
<1>1. Op(s)' = Op(s) /\ Opened(s)' = Opened(s) /\ InFlight(Op(s))' = InFlight(Op(s))
    BY DEF Op, Opened, InFlight
<1>2. QED
    BY <1>1 DEF Resolved, Record

\* A step that writes the row of attempt r, whose it is afterwards, and closing
\* records of r at most.
LEMMA RivalsResolved ==
    ASSUME TypeOK, NEW r \in Requests, NEW s \in Requests, s # r, Resolved(s),
           exec[Op(r)].corr \in {None, r}, exec'[Op(r)].corr = r,
           \A o \in Ops : o # Op(r) => exec'[o] = exec[o],
           ask' = ask, effects' = effects, Closing(s)' = Closing(s),
           pc'[s] = pc[s], job' = job
    PROVE  Resolved(s)'
<1>1. Op(s) \in Ops /\ Op(r) \in Ops /\ Op(s)' = Op(s) /\ Ended(s)' = Ended(s)
    BY OpType DEF Op, Ended
<1>2. CASE Op(s) = Op(r)
  <2>1. ~Opened(s) /\ ~Opened(s)'
      BY <1>1, <1>2, NoneAssumption DEF Opened
  <2>2. QED
      BY <1>1, <2>1 DEF Resolved, Record
<1>3. CASE Op(s) # Op(r)
  <2>1. Opened(s)' = Opened(s) /\ InFlight(Op(s))' = InFlight(Op(s))
        /\ exec'[Op(s)] = exec[Op(s)]
      BY <1>1, <1>3 DEF Opened, InFlight
  <2>2. QED
      BY <1>1, <2>1 DEF Resolved, Record
<1>4. QED
    BY <1>2, <1>3

\* There are no rows and no records at the start.
LEMMA InitResolved == Init => AllResolved
<1> SUFFICES ASSUME Init, NEW r \in Requests
             PROVE  Resolved(r)
    BY DEF AllResolved
<1>1. Op(r) \in Ops
    BY InitType, OpType
<1>2. ~Opened(r) /\ Closing(r) = {}
    BY <1>1, NoneAssumption DEF Init, NoExec, Opened, Closing
<1>3. QED
    BY <1>2 DEF Init, Resolved

\* Every step keeps what resolves an operation.
LEMMA StepResolved == TypeOK /\ Owned /\ AllResolved /\ [Next]_vars => AllResolved'
<1> SUFFICES ASSUME TypeOK, Owned, AllResolved, [Next]_vars
             PROVE  AllResolved'
    OBVIOUS
<1>1. ASSUME NEW s \in Requests
      PROVE  Resolved(s) /\ (audits' = audits => Closing(s)' = Closing(s))
    BY DEF AllResolved, Closing
<1>2. ASSUME NEW r \in Requests, ask' = ask, exec' = exec, effects' = effects,
             audits' = audits, ~Ended(r),
             \A s \in Requests \ {r} : pc'[s] = pc[s] /\ job'[s] = job[s],
             pc'[r] = "finish" /\ Opened(r) => job'[r].outcome \in {"allowed", "error"}
      PROVE  AllResolved'
  <2>1. ASSUME NEW s \in Requests
        PROVE  Resolved(s)'
    <3>1. CASE s = r
        BY <1>1, <1>2, <3>1, ResolvedKept
    <3>2. CASE s # r
      <4>1. pc'[s] = pc[s] /\ job'[s] = job[s] /\ Ended(s)' = Ended(s)
          BY <1>2, <3>2 DEF Ended
      <4>2. pc'[s] = "finish" /\ Opened(s) => job'[s].outcome \in {"allowed", "error"}
          BY <1>1, <4>1 DEF Resolved
      <4>3. QED
          BY <1>1, <1>2, <4>1, <4>2, ResolvedKept
    <3>3. QED
        BY <3>1, <3>2
  <2>2. QED
      BY <2>1 DEF AllResolved
<1>3. ASSUME NEW r \in Requests,
             \/ Admit(r) \/ BindPolicy(r) \/ LookupExecution(r) \/ LookupApproval(r)
             \/ EvaluatePolicy(r) \/ Consume(r)
      PROVE  AllResolved'
  <2>1. /\ ask' = ask /\ exec' = exec /\ effects' = effects /\ audits' = audits
        /\ pc[r] \in Before
      BY <1>3 DEF Admit, BindPolicy, LookupExecution, LookupApproval, ReadApproval,
                  JudgeApproval, EvaluatePolicy,
                  Consume, Before
  <2>2. \A s \in Requests \ {r} : pc'[s] = pc[s] /\ job'[s] = job[s]
      BY <1>3 DEF TypeOK, Admit, BindPolicy, LookupExecution, LookupApproval,
                  ReadApproval, JudgeApproval,
                  EvaluatePolicy, Consume, Goto, Reply
  <2>3. ~Opened(r) /\ ~Ended(r)
      BY <2>1 DEF Owned, Staged, Before, Checks, Ended
  <2>4. QED
      BY <1>2, <2>1, <2>2, <2>3
<1>4. ASSUME NEW r \in Requests,
             IssueGrant(r) \/ Recheck(r) \/ Execute(r) \/ Settle(r) \/ Crash(r)
      PROVE  AllResolved'
  <2>1. /\ ask' = ask /\ exec' = exec /\ effects' = effects /\ audits' = audits
        /\ ~Ended(r)
      BY <1>4 DEF IssueGrant, Recheck, RecheckPath, RecheckPolicy, RecheckExpiry,
                  RecheckApprover, Passes, Execute, Settle, Crash, Ended
  <2>2. \A s \in Requests \ {r} : pc'[s] = pc[s] /\ job'[s] = job[s]
      BY <1>4 DEF TypeOK, IssueGrant, Recheck, RecheckPath, RecheckPolicy, RecheckExpiry,
                  RecheckApprover, Passes, Execute, Settle, Crash, Goto, Reply
  <2>3. pc'[r] = "finish" => job'[r].outcome \in {"allowed", "error"}
      BY <1>4 DEF TypeOK, Job, IssueGrant, Recheck, RecheckPath, RecheckPolicy,
                  RecheckExpiry, RecheckApprover, Passes, Execute, Settle, Crash, Goto,
                  Reply
  <2>4. QED
      BY <1>2, <2>1, <2>2, <2>3
<1>5. ASSUME NEW r \in Requests, NEW d \in Decisions, AbortDeadlock(r, d)
      PROVE  AllResolved'
  <2>1. /\ ask' = ask /\ exec' = exec /\ effects' = effects /\ audits' = audits
        /\ job' = job /\ ~Ended(r) /\ pc'[r] \in {pc[r], "crashed"}
        /\ \A s \in Requests \ {r} : pc'[s] = pc[s]
      BY <1>5 DEF TypeOK, AbortDeadlock, Deadlocked, Goto, Ended
  <2>2. pc'[r] = "finish" /\ Opened(r) => job'[r].outcome \in {"allowed", "error"}
      BY <1>1, <2>1 DEF Resolved
  <2>3. QED
      BY <1>2, <2>1, <2>2
<1>6. ASSUME NEW r \in Requests, CommitIntent(r)
      PROVE  AllResolved'
  <2>1. /\ ask' = ask /\ job' = job /\ effects' = effects /\ pc[r] = "intent"
        /\ \A s \in Requests \ {r} : pc'[s] = pc[s]
      BY <1>6 DEF TypeOK, CommitIntent, Goto
  <2>2. Op(r) \in Ops /\ Op(r)' = Op(r) /\ ~Opened(r) /\ ~Ended(r)
      BY <2>1, OpType DEF Op, Owned, Staged, Before, Checks, Ended
  <2>3. CASE ~KeyFree(r)
    <3>1. exec' = exec /\ audits' = audits
        BY <1>6, <2>3 DEF CommitIntent
    <3>2. QED
        BY <1>2, <2>1, <2>2, <3>1
  <2>4. CASE KeyFree(r)
    <3>1. /\ audits' = audits \cup {Record(r, r, "authorized")}
          /\ pc'[r] = "grant"
          /\ \A o \in Ops : o # Op(r) => exec'[o] = exec[o]
          /\ exec'[Op(r)].corr = r /\ exec'[Op(r)].state = "authorized"
        BY <1>6, <2>2, <2>4 DEF TypeOK, CommitIntent, Goto
    <3>2. exec[Op(r)].corr = None
        BY <2>2, <2>4 DEF KeyFree, Owned, RowsOwned
    <3>3. ASSUME NEW s \in Requests
          PROVE  Closing(s)' = Closing(s)
        BY <3>1, ClosingKept
    <3>4. Resolved(r)'
      <4>1. Closing(r)' = {}
          BY <1>1, <2>2, <3>3 DEF Resolved
      <4>2. Opened(r)' /\ exec'[Op(r)'].state = "authorized"
          BY <2>2, <3>1 DEF Opened
      <4>3. QED
          BY <3>1, <4>1, <4>2 DEF Resolved
    <3>5. ASSUME NEW s \in Requests, s # r
          PROVE  Resolved(s)'
        BY <1>1, <2>1, <3>1, <3>2, <3>3, <3>5, RivalsResolved
    <3>6. QED
        BY <3>4, <3>5 DEF AllResolved
  <2>5. QED
      BY <2>3, <2>4
<1>7. ASSUME NEW r \in Requests, MarkRunning(r)
      PROVE  AllResolved'
  <2>1. /\ ask' = ask /\ job' = job /\ effects' = effects /\ audits' = audits
        /\ pc[r] = "start" /\ pc'[r] = "recheck"
        /\ \A s \in Requests \ {r} : pc'[s] = pc[s]
      BY <1>7 DEF TypeOK, MarkRunning, Goto
  <2>2. Op(r) \in Ops /\ Op(r)' = Op(r)
      BY <2>1, OpType DEF Op
  <2>3. exec[Op(r)].corr = r /\ exec[Op(r)].state = "authorized"
      BY <2>1 DEF Owned, Staged, Opened
  <2>4. /\ \A o \in Ops : o # Op(r) => exec'[o] = exec[o]
        /\ exec'[Op(r)].corr = r /\ exec'[Op(r)].state = "running"
      BY <1>7, <2>2, <2>3 DEF TypeOK, ExecRow, MarkRunning
  <2>5. Closing(r)' = {}
      BY <1>1, <2>1, <2>3 DEF Resolved, Opened, InFlight
  <2>6. Resolved(r)'
      BY <2>1, <2>2, <2>4, <2>5 DEF Resolved, Opened
  <2>7. ASSUME NEW s \in Requests, s # r
        PROVE  Resolved(s)'
      BY <1>1, <2>1, <2>3, <2>4, <2>7, RivalsResolved
  <2>8. QED
      BY <2>6, <2>7 DEF AllResolved
<1>8. ASSUME NEW r \in Requests, Finish(r)
      PROVE  AllResolved'
  <2>1. /\ ask' = ask /\ job' = job /\ effects' = effects
        /\ audits' = audits \cup {Record(r, r, job[r].outcome)}
        /\ pc[r] = "finish" /\ pc'[r] = "done"
        /\ \A s \in Requests \ {r} : pc'[s] = pc[s]
      BY <1>8 DEF TypeOK, Finish, Goto
  <2>2. Op(r) \in Ops /\ Op(r)' = Op(r)
      BY <2>1, OpType DEF Op
  <2>3. ASSUME NEW s \in Requests, s # r
        PROVE  Closing(s)' = Closing(s)
      BY <2>1, <2>3, ClosingKept
  <2>4. CASE ~Opened(r)
    <3>1. exec' = exec
        BY <1>8, <2>4 DEF Finish
    <3>2. ~Opened(r)' /\ Ended(r)'
        BY <2>1, <2>2, <2>4, <3>1 DEF Opened, Ended
    <3>3. Resolved(r)'
        BY <2>1, <3>2 DEF Resolved
    <3>4. ASSUME NEW s \in Requests, s # r
          PROVE  Resolved(s)'
      <4>1. pc'[s] = pc[s] /\ Ended(s)' = Ended(s) /\ Closing(s)' = Closing(s)
          BY <2>1, <2>3, <3>4 DEF Ended
      <4>2. pc'[s] = "finish" /\ Opened(s) => job'[s].outcome \in {"allowed", "error"}
          BY <1>1, <2>1, <4>1 DEF Resolved
      <4>3. QED
          BY <1>1, <2>1, <3>1, <4>1, <4>2, ResolvedKept
    <3>5. QED
        BY <3>3, <3>4 DEF AllResolved
  <2>5. CASE Opened(r)
    <3>1. /\ exec[Op(r)].corr = r /\ InFlight(Op(r))
          /\ job[r].outcome = "allowed" => r \in effects
        BY <2>1, <2>5 DEF Owned, Staged, Opened, InFlight
    <3>2. job[r].outcome \in {"allowed", "error"} /\ Closing(r) = {}
        BY <1>1, <2>1, <2>5, <3>1 DEF Resolved
    <3>3. /\ \A o \in Ops : o # Op(r) => exec'[o] = exec[o]
          /\ exec'[Op(r)].corr = r
          /\ exec'[Op(r)].state =
                IF job[r].outcome = "allowed" THEN "succeeded" ELSE "outcome_unknown"
        BY <1>8, <2>2, <2>5, <3>1 DEF TypeOK, ExecRow, Finish
    <3>4. Closing(r)' = {Record(r, r, job[r].outcome)}
      <4>1. /\ Record(r, r, job[r].outcome).corr = r
            /\ Record(r, r, job[r].outcome).result \in {"allowed", "error", "outcome_unknown"}
          BY <3>2 DEF Record
      <4>2. QED
          BY <2>1, <3>2, <4>1 DEF Closing
    <3>5. Resolved(r)'
        BY <2>1, <2>2, <3>1, <3>2, <3>3, <3>4 DEF Resolved, Opened, InFlight, Ended, Record
    <3>6. ASSUME NEW s \in Requests, s # r
          PROVE  Resolved(s)'
        BY <1>1, <2>1, <2>3, <3>1, <3>3, <3>6, RivalsResolved
    <3>7. QED
        BY <3>5, <3>6 DEF AllResolved
  <2>6. QED
      BY <2>4, <2>5
<1>9. ASSUME NEW S \in SUBSET {o \in Ops : InFlight(o)}, MarkInterrupted(S)
      PROVE  AllResolved'
  <2>1. /\ ask' = ask /\ job' = job /\ effects' = effects /\ pc' = pc
        /\ audits' = audits \cup {Record("recovery", exec[o].corr, "outcome_unknown") : o \in S}
        /\ \A o \in S : Ended(exec[o].corr)
      BY <1>9 DEF MarkInterrupted, WorkersStopped
  <2>2. \A o \in Ops : /\ exec'[o].corr = exec[o].corr
                       /\ exec'[o].state = IF o \in S THEN "outcome_unknown" ELSE exec[o].state
                       /\ o \in S => InFlight(o)
      BY <1>9 DEF TypeOK, ExecRow, MarkInterrupted
  <2>3. ASSUME NEW s \in Requests
        PROVE  Resolved(s)'
    <3>1. Op(s) \in Ops /\ Op(s)' = Op(s) /\ Ended(s)' = Ended(s)
        BY <2>1, OpType DEF Op, Ended
    <3>2. Opened(s)' = Opened(s)
        BY <2>2, <3>1 DEF Opened
    <3>3. CASE Opened(s) /\ Op(s) \in S
      <4>1. exec[Op(s)].corr = s /\ Closing(s) = {} /\ Ended(s)
          BY <1>1, <2>1, <2>2, <3>1, <3>3 DEF Resolved, Opened
      <4>2. Record("recovery", s, "outcome_unknown") \in audits'
          BY <2>1, <3>3, <4>1
      <4>3. Closing(s)' = {Record("recovery", s, "outcome_unknown")}
        <5>1. \A x \in audits' : x \in audits \/ \E o \in S :
                    x = Record("recovery", exec[o].corr, "outcome_unknown")
            BY <2>1
        <5>2. \A x \in Closing(s)' : x = Record("recovery", s, "outcome_unknown")
            BY <4>1, <5>1 DEF Closing, Record
        <5>3. Record("recovery", s, "outcome_unknown") \in Closing(s)'
            BY <4>2 DEF Closing, Record
        <5>4. QED
            BY <5>2, <5>3
      <4>4. exec'[Op(s)].state = "outcome_unknown"
          BY <2>2, <3>1, <3>3
      <4>5. QED
          BY <2>1, <3>1, <3>2, <4>1, <4>3, <4>4 DEF Resolved, Ended, InFlight, Record
    <3>4. CASE ~(Opened(s) /\ Op(s) \in S)
      <4>1. \A o \in S : exec[o].corr # s
          BY <3>4, NoneAssumption DEF Owned, RowsOwned, Opened
      <4>2. Closing(s)' = Closing(s)
          BY <2>1, <4>1 DEF Closing, Record
      <4>3. Opened(s) => exec'[Op(s)].state = exec[Op(s)].state
          BY <2>2, <3>1, <3>4
      <4>4. QED
          BY <1>1, <2>1, <3>1, <3>2, <4>2, <4>3 DEF Resolved, InFlight, Record
    <3>5. QED
        BY <3>3, <3>4
  <2>4. QED
      BY <2>3 DEF AllResolved
<1>10. ASSUME ask' = ask, pc' = pc, job' = job, exec' = exec, effects \subseteq effects',
              \A s \in Requests : Closing(s)' = Closing(s)
       PROVE  AllResolved'
  <2>1. ASSUME NEW s \in Requests
        PROVE  Resolved(s)'
      BY <1>1, <1>10, ResolvedKept DEF Resolved, Ended
  <2>2. QED
      BY <2>1 DEF AllResolved
<1>11. ASSUME NEW r \in Requests, TakeEffect(r)
       PROVE  AllResolved'
    BY <1>1, <1>10, <1>11 DEF TakeEffect
<1>12. ASSUME NEW d \in Decisions, NEW a \in Requests,
              NEW v \in {"approved", "rejected"}, Review(d, a, v)
       PROVE  AllResolved'
    BY <1>1, <1>10, <1>12 DEF Review
<1>13. ASSUME NEW d \in Decisions, TakeAuditLock(d) \/ AbandonDecision(d)
       PROVE  AllResolved'
    BY <1>1, <1>10, <1>13 DEF TakeAuditLock, AbandonDecision
<1>14. ASSUME NEW d \in Decisions, RecordDecision(d)
       PROVE  AllResolved'
  <2>1. audits' = audits \cup {Record(d, decision[d].approval, decision[d].verdict)}
        /\ decision[d].verdict \in {"approved", "rejected"}
      BY <1>14 DEF TypeOK, DecisionCall, RecordDecision
  <2>2. ASSUME NEW s \in Requests
        PROVE  Closing(s)' = Closing(s)
      BY <2>1, ClosingKept
  <2>3. QED
      BY <1>10, <1>14, <2>2 DEF RecordDecision
<1>15. CASE Environment \/ UNCHANGED vars
    BY <1>1, <1>10, <1>15 DEF Environment, vars
<1>16. QED
    BY <1>3, <1>4, <1>5, <1>6, <1>7, <1>8, <1>9, <1>11, <1>12, <1>13, <1>14, <1>15
    DEF Next, Serve, Decide

\* A resolved operation has exactly the record that says how it was resolved,
\* one in flight has none, and success means the change was made.
THEOREM OutcomeHasEvidenceHolds == Spec => []OutcomeHasEvidence
<1>1. ASSUME TypeOK, Owned, AllResolved, NEW o \in Ops, exec[o].state # "absent"
      PROVE  /\ exec[o].corr \in Requests /\ Op(exec[o].corr) = o
             /\ Opened(exec[o].corr) /\ Resolved(exec[o].corr)
    BY <1>1 DEF TypeOK, ExecRow, Owned, RowsOwned, AllResolved, Opened
<1>2. TypeOK /\ Owned /\ AllResolved => OutcomeHasEvidence
  <2> SUFFICES ASSUME TypeOK, Owned, AllResolved, NEW o \in Ops, exec[o].state # "absent"
               PROVE  /\ exec[o].state = "succeeded" =>
                            exec[o].corr \in effects
                            /\ Closing(exec[o].corr) = {Record(exec[o].corr, exec[o].corr, "allowed")}
                      /\ exec[o].state = "outcome_unknown" =>
                            Closing(exec[o].corr) \in
                                {{Record(exec[o].corr, exec[o].corr, "error")},
                                 {Record("recovery", exec[o].corr, "outcome_unknown")}}
                      /\ InFlight(o) => Closing(exec[o].corr) = {}
      BY DEF OutcomeHasEvidence, InFlight
  <2>1. QED
      BY <1>1 DEF Resolved
<1>3. QED
    BY <1>2, TypeCorrect, OwnershipHolds, InitResolved, StepResolved, PTL DEF Spec

-----------------------------------------------------------------------------
(* Approvals.  SpendsWithinGrants is not inductive either: an approval that *)
(* stands approved is a grant not yet spent, a row lock a spending under    *)
(* way, and a decision call may still write to what it read long ago.       *)

Funded ==
    /\ \A a \in Requests :
        /\ spent[a] + (IF approval[a].status = "approved" THEN 1 ELSE 0) <= granted[a]
        /\ rowLock[a] # None => approval[a].status = "approved"
        /\ approval[a].status # "absent" => pc[a] = "done"
    /\ \A d \in Decisions : decision[d].at \in {"reviewed", "locked"} =>
            decision[d].approval \in Requests /\ pc[decision[d].approval] = "done"

\* A step that moves only attempts that are not done, and neither approvals
\* nor decision calls.
LEMMA FundedUndisturbed ==
    ASSUME TypeOK, Funded, NEW r \in Requests, pc[r] # "done",
           \A s \in Requests \ {r} : pc'[s] = pc[s],
           \A a \in Requests : rowLock'[a] # None =>
                rowLock[a] # None \/ approval[a].status = "approved",
           approval' = approval, decision' = decision, spent' = spent, granted' = granted
    PROVE  Funded'
BY DEF Funded

\* What a commit does to each approval.
LEMMA CommitValue ==
    ASSUME TypeOK, NEW r \in Requests, CommitConsumption(r), NEW a \in Requests
    PROVE  /\ rowLock[a] = r => /\ approval'[a].status = "consumed"
                                /\ spent'[a] = spent[a] + 1
                                /\ rowLock'[a] = None
           /\ rowLock[a] # r => /\ approval'[a] = approval[a]
                                /\ spent'[a] = spent[a]
                                /\ rowLock'[a] = rowLock[a]
BY DEF TypeOK, CommitConsumption, ApprovalRow

\* A commit spends only what was approved.
LEMMA CommitFunded ==
    ASSUME TypeOK, Funded, NEW r \in Requests, pc[r] # "done", CommitConsumption(r),
           \A s \in Requests \ {r} : pc'[s] = pc[s],
           decision' = decision, granted' = granted
    PROVE  Funded'
<1>1. ASSUME NEW a \in Requests
      PROVE  /\ spent'[a] + (IF approval'[a].status = "approved" THEN 1 ELSE 0) <= granted'[a]
             /\ rowLock'[a] # None => approval'[a].status = "approved"
             /\ approval'[a].status # "absent" => pc'[a] = "done"
  <2>1. CASE rowLock[a] = r
    <3>1. approval[a].status = "approved" /\ pc[a] = "done" /\ a # r
        BY <2>1, NoneAssumption DEF Funded
    <3>2. spent[a] + 1 <= granted[a]
        BY <3>1 DEF Funded
    <3>3. QED
        BY <2>1, <3>1, <3>2, CommitValue DEF TypeOK
  <2>2. CASE rowLock[a] # r
      BY <2>2, CommitValue DEF TypeOK, Funded
  <2>3. QED
      BY <2>1, <2>2
<1>2. ASSUME NEW d \in Decisions, decision'[d].at \in {"reviewed", "locked"}
      PROVE  decision'[d].approval \in Requests /\ pc'[decision'[d].approval] = "done"
    BY <1>2 DEF Funded
<1>3. QED
    BY <1>1, <1>2 DEF Funded

\* Nothing is approved, locked or under decision at the start.
LEMMA InitFunded == Init => Funded
BY DEF Init, Funded, NoApproval, Idle

\* Every step keeps spending within what was granted.
LEMMA StepFunded == TypeOK /\ Funded /\ [Next]_vars => Funded'
<1> SUFFICES ASSUME TypeOK, Funded, [Next]_vars
             PROVE  Funded'
    OBVIOUS
<1>1. ASSUME NEW r \in Requests,
             \/ Admit(r) \/ BindPolicy(r) \/ LookupExecution(r) \/ LookupApproval(r)
             \/ EvaluatePolicy(r) \/ IssueGrant(r) \/ MarkRunning(r)
             \/ Recheck(r) \/ Execute(r) \/ Settle(r)
      PROVE  Funded'
  <2>1. /\ pc[r] # "done"
        /\ rowLock' = rowLock /\ approval' = approval /\ decision' = decision
        /\ spent' = spent /\ granted' = granted
      BY <1>1 DEF Admit, BindPolicy, LookupExecution, LookupApproval, ReadApproval,
                  JudgeApproval, EvaluatePolicy,
                  IssueGrant, MarkRunning, Recheck, RecheckPath, RecheckPolicy,
                  RecheckExpiry, RecheckApprover, Passes, Execute, Settle
  <2>2. \E l \in Labels : pc' = [pc EXCEPT ![r] = l]
      BY <1>1 DEF Admit, BindPolicy, LookupExecution, LookupApproval, ReadApproval,
                  JudgeApproval, EvaluatePolicy,
                  IssueGrant, MarkRunning, Recheck, RecheckPath, RecheckPolicy,
                  RecheckExpiry, RecheckApprover, Passes, Execute, Settle, Goto, Reply,
                  AfterConsume, Labels
  <2>3. QED
      BY <2>1, <2>2, FundedUndisturbed DEF TypeOK
<1>2. ASSUME NEW r \in Requests, Consume(r)
      PROVE  Funded'
  <2>1. /\ pc[r] # "done"
        /\ approval' = approval /\ decision' = decision
        /\ spent' = spent /\ granted' = granted
        /\ \A s \in Requests \ {r} : pc'[s] = pc[s]
      BY <1>2 DEF TypeOK, Consume, Goto, Reply
  <2>2. \A a \in Requests : rowLock'[a] # None =>
            rowLock[a] # None \/ approval[a].status = "approved"
      BY <1>2 DEF TypeOK, Consume, Consumable
  <2>3. QED
      BY <2>1, <2>2, FundedUndisturbed
<1>3. ASSUME NEW r \in Requests, CommitIntent(r)
      PROVE  Funded'
  <2>1. /\ pc[r] # "done" /\ decision' = decision /\ granted' = granted
        /\ \A s \in Requests \ {r} : pc'[s] = pc[s]
      BY <1>3 DEF TypeOK, CommitIntent, Goto
  <2>2. CASE KeyFree(r)
      BY <1>3, <2>1, <2>2, CommitFunded DEF CommitIntent
  <2>3. CASE ~KeyFree(r)
    <3>1. /\ approval' = approval /\ spent' = spent
          /\ \A a \in Requests : rowLock'[a] # None => rowLock[a] # None
        BY <1>3, <2>3 DEF TypeOK, CommitIntent, RollBack
    <3>2. QED
        BY <2>1, <3>1, FundedUndisturbed
  <2>4. QED
      BY <2>2, <2>3
<1>4. ASSUME NEW r \in Requests, Finish(r)
      PROVE  Funded'
  <2>1. /\ pc[r] # "done" /\ pc'[r] = "done" /\ decision' = decision /\ granted' = granted
        /\ \A s \in Requests \ {r} : pc'[s] = pc[s]
      BY <1>4 DEF TypeOK, Finish, Goto
  <2>2. CASE job[r].outcome # "approval_required"
      BY <1>4, <2>1, <2>2, CommitFunded DEF Finish
  <2>3. CASE job[r].outcome = "approval_required"
    <3>1. /\ rowLock' = rowLock /\ spent' = spent
          /\ approval'[r].status = "pending"
          /\ \A a \in Requests \ {r} : approval'[a] = approval[a]
        BY <1>4, <2>3 DEF TypeOK, Finish
    <3>2. rowLock[r] = None
        BY <2>1 DEF Funded
    <3>3. ASSUME NEW a \in Requests
          PROVE  /\ spent'[a] + (IF approval'[a].status = "approved" THEN 1 ELSE 0) <= granted'[a]
                 /\ rowLock'[a] # None => approval'[a].status = "approved"
                 /\ approval'[a].status # "absent" => pc'[a] = "done"
        BY <2>1, <3>1, <3>2 DEF TypeOK, Funded
    <3>4. ASSUME NEW d \in Decisions, decision'[d].at \in {"reviewed", "locked"}
          PROVE  decision'[d].approval \in Requests /\ pc'[decision'[d].approval] = "done"
        BY <2>1, <3>4 DEF Funded
    <3>5. QED
        BY <3>3, <3>4 DEF Funded
  <2>4. QED
      BY <2>2, <2>3
<1>5. ASSUME NEW r \in Requests, Crash(r)
      PROVE  Funded'
  <2>1. /\ pc[r] # "done"
        /\ approval' = approval /\ decision' = decision
        /\ spent' = spent /\ granted' = granted
        /\ \A s \in Requests \ {r} : pc'[s] = pc[s]
        /\ \A a \in Requests : rowLock'[a] # None => rowLock[a] # None
      BY <1>5 DEF TypeOK, Crash, RollBack, Goto, Ended
  <2>2. QED
      BY <2>1, FundedUndisturbed
<1>6. ASSUME NEW r \in Requests, NEW d \in Decisions, AbortDeadlock(r, d)
      PROVE  Funded'
  <2>1. /\ pc[r] # "done"
        /\ approval' = approval /\ spent' = spent /\ granted' = granted
        /\ \A s \in Requests \ {r} : pc'[s] = pc[s]
        /\ \A a \in Requests : rowLock'[a] # None => rowLock[a] # None
      BY <1>6 DEF TypeOK, AbortDeadlock, Deadlocked, RollBack, Goto
  <2>2. CASE decision' = decision
      BY <2>1, <2>2, FundedUndisturbed
  <2>3. CASE decision' = [decision EXCEPT ![d].at = "done"] /\ pc' = pc
      BY <2>1, <2>3 DEF TypeOK, DecisionCall, Funded
  <2>4. QED
      BY <1>6, <2>2, <2>3 DEF AbortDeadlock
<1>7. ASSUME NEW d \in Decisions, NEW a \in Requests,
             NEW v \in {"approved", "rejected"}, Review(d, a, v)
      PROVE  Funded'
  <2>1. /\ pc' = pc /\ rowLock' = rowLock /\ approval' = approval
        /\ spent' = spent /\ granted' = granted
        /\ pc[a] = "done"
        /\ decision' = [decision EXCEPT ![d] = [at |-> "reviewed", approval |-> a, verdict |-> v]]
      BY <1>7 DEF Review, Funded
  <2>2. QED
      BY <2>1 DEF TypeOK, DecisionCall, Funded
<1>8. ASSUME NEW d \in Decisions, TakeAuditLock(d) \/ AbandonDecision(d)
      PROVE  Funded'
  <2>1. /\ pc' = pc /\ rowLock' = rowLock /\ approval' = approval
        /\ spent' = spent /\ granted' = granted
        /\ \A e \in Decisions : decision'[e].approval = decision[e].approval
        /\ \A e \in Decisions : decision'[e].at \in {"reviewed", "locked"} =>
                decision[e].at \in {"reviewed", "locked"}
      BY <1>8 DEF TypeOK, DecisionCall, TakeAuditLock, AbandonDecision
  <2>2. QED
      BY <2>1 DEF Funded
<1>9. ASSUME NEW d \in Decisions, RecordDecision(d)
      PROVE  Funded'
  <2> DEFINE a == decision[d].approval
             verdict == decision[d].verdict
  <2>1. /\ pc' = pc /\ rowLock' = rowLock /\ spent' = spent
        /\ a \in Requests /\ pc[a] = "done" /\ rowLock[a] = None
        /\ verdict \in {"approved", "rejected"}
      BY <1>9 DEF RecordDecision, TypeOK, DecisionCall, Funded
  <2>2. /\ approval'[a].status = verdict
        /\ \A b \in Requests \ {a} : approval'[b] = approval[b]
      BY <1>9, <2>1 DEF TypeOK, ApprovalRow, RecordDecision
  <2>3. /\ granted'[a] = IF verdict = "approved" THEN granted[a] + 1 ELSE granted[a]
        /\ \A b \in Requests \ {a} : granted'[b] = granted[b]
      BY <1>9, <2>1 DEF TypeOK, RecordDecision
  <2>4. \A e \in Decisions : /\ decision'[e].approval = decision[e].approval
                             /\ decision'[e].at \in {decision[e].at, "done"}
      BY <1>9 DEF TypeOK, DecisionCall, RecordDecision
  <2>5. ASSUME NEW b \in Requests
        PROVE  /\ spent'[b] + (IF approval'[b].status = "approved" THEN 1 ELSE 0) <= granted'[b]
               /\ rowLock'[b] # None => approval'[b].status = "approved"
               /\ approval'[b].status # "absent" => pc'[b] = "done"
    <3>1. spent[b] \in Nat /\ granted[b] \in Nat /\ spent[b] <= granted[b]
        BY DEF TypeOK, Funded
    <3>2. CASE b = a
        BY <2>1, <2>2, <2>3, <3>1, <3>2
    <3>3. CASE b # a
        BY <2>1, <2>2, <2>3, <3>3 DEF Funded
    <3>4. QED
        BY <3>2, <3>3
  <2>6. ASSUME NEW e \in Decisions, decision'[e].at \in {"reviewed", "locked"}
        PROVE  decision'[e].approval \in Requests /\ pc'[decision'[e].approval] = "done"
      BY <2>1, <2>4, <2>6 DEF Funded
  <2>7. QED
      BY <2>5, <2>6 DEF Funded
<1>10. ASSUME pc' = pc, rowLock' = rowLock, approval' = approval, decision' = decision,
              spent' = spent, granted' = granted
       PROVE  Funded'
      BY <1>10 DEF Funded
<1>11. ASSUME NEW r \in Requests, TakeEffect(r)
       PROVE  Funded'
      BY <1>10, <1>11 DEF TakeEffect
<1>12. ASSUME NEW S \in SUBSET {o \in Ops : InFlight(o)}, MarkInterrupted(S)
       PROVE  Funded'
      BY <1>10, <1>12 DEF MarkInterrupted
<1>13. CASE Environment \/ UNCHANGED vars
      BY <1>10, <1>13 DEF Environment, vars
<1>14. QED
      BY <1>1, <1>2, <1>3, <1>4, <1>5, <1>6, <1>7, <1>8, <1>9, <1>11, <1>12, <1>13
      DEF Next, Serve, Decide

\* An approval is never spent more often than it was granted.
THEOREM SpendsWithinGrantsHolds == Spec => []SpendsWithinGrants
<1>1. ASSUME TypeOK, Funded, NEW a \in Requests
      PROVE  spent[a] <= granted[a]
  <2>1. spent[a] \in Nat /\ granted[a] \in Nat
      BY <1>1 DEF TypeOK
  <2>2. spent[a] + (IF approval[a].status = "approved" THEN 1 ELSE 0) <= granted[a]
      BY <1>1 DEF Funded
  <2>3. QED
      BY <2>1, <2>2
<1>2. TypeOK /\ Funded => SpendsWithinGrants
    BY <1>1 DEF SpendsWithinGrants
<1>3. QED
    BY <1>2, TypeCorrect, InitType, InitFunded, StepFunded, PTL DEF Spec

-----------------------------------------------------------------------------
(* What an execution rests on.  An approval that was decided stays decided,  *)
(* for the same request and by somebody else than its requester; an attempt  *)
(* carries what it has seen of its approval and its policy from the lookup   *)
(* to the commit of its intent, and the row keeps it.                        *)

Decided(a) == approval[a].status \in {"approved", "rejected", "consumed"}

\* What is committed of approvals, and what decision calls will write to them.
ApprovalsSound ==
    /\ \A a \in Requests :
        /\ approval[a].status # "absent" => approval[a].hash[1] = ask[a].payload
        /\ Decided(a) => approval[a].approver \notin {None, Subject[ask[a].payload]}
    /\ \A d \in Decisions : decision[d].at \in {"reviewed", "locked"} =>
            /\ approval[decision[d].approval].status # "absent"
            /\ Approver[d] # Subject[ask[decision[d].approval].payload]

\* The policy version v permits what attempt r asked for, with an approval that
\* is spent or without one.
Permits(v, r, spending) ==
    LET matched == Effects[v][ask[r].payload][job[r].path]
    IN  /\ "deny" \notin matched
        /\ "allow" \in matched
        /\ "require_approval" \in matched => spending

\* What attempt r relies on while it holds no row.
Argued(r) ==
    /\ pc[r] \in {"approver", "evaluate", "consume", "intent"} /\ job[r].valid =>
            /\ job[r].approval \in Requests
            /\ Decided(job[r].approval)
            /\ approval[job[r].approval].hash = Hash(r)
    /\ pc[r] \in {"consume", "intent"} => Permits(job[r].decided, r, job[r].valid)
    /\ pc[r] = "consume" => job[r].valid
    /\ pc[r] = "intent" /\ job[r].valid => rowLock[job[r].approval] = r

\* What the row of an execution rests on.
RowJustified(o) ==
    /\ exec[o].state # "absent" =>
            Permits(exec[o].version, exec[o].corr, exec[o].approval # None)
    /\ exec[o].approval # None =>
            /\ exec[o].approval \in Requests
            /\ Subject[exec[o].hash[1]] = o[1]
            /\ exec[o].hash = approval[exec[o].approval].hash
            /\ Decided(exec[o].approval)
            /\ spent[exec[o].approval] > 0

Justified ==
    /\ ApprovalsSound
    /\ \A r \in Requests : Argued(r)
    /\ \A o \in Ops : RowJustified(o)

\* The steps that may move attempt r or change its locals.
Own(r) ==
    Admit(r) \/ Serve(r) \/ Crash(r) \/ \E d \in Decisions : AbortDeadlock(r, d)

\* An attempt is moved by its own steps only, and keeps its row lock else.
LEMMA OthersStay ==
    ASSUME TypeOK, [Next]_vars, NEW r \in Requests, ~Own(r)
    PROVE  /\ pc'[r] = pc[r] /\ job'[r] = job[r]
           /\ \A a \in Requests : rowLock[a] = r => rowLock'[a] = r
<1>1. ASSUME NEW s \in Requests, Admit(s) \/ Serve(s) \/ Crash(s)
      PROVE  s # r
    BY <1>1 DEF Own
<1>2. ASSUME NEW s \in Requests, s # r,
             \/ Admit(s) \/ BindPolicy(s) \/ LookupExecution(s) \/ LookupApproval(s)
             \/ EvaluatePolicy(s) \/ IssueGrant(s) \/ MarkRunning(s)
             \/ Recheck(s) \/ Execute(s) \/ Settle(s)
      PROVE  pc'[r] = pc[r] /\ job'[r] = job[r] /\ rowLock' = rowLock
    BY <1>2 DEF TypeOK, Admit, BindPolicy, LookupExecution, LookupApproval, ReadApproval,
                JudgeApproval, EvaluatePolicy,
                IssueGrant, MarkRunning, Recheck, RecheckPath, RecheckPolicy,
                RecheckExpiry, RecheckApprover, Passes, Execute, Settle, Goto, Reply
<1>3. ASSUME NEW s \in Requests, s # r, Consume(s)
      PROVE  /\ pc'[r] = pc[r] /\ job'[r] = job[r]
             /\ \A a \in Requests : rowLock[a] = r => rowLock'[a] = r
    BY <1>3, NoneAssumption DEF TypeOK, Consume, Goto, Reply
<1>4. ASSUME NEW s \in Requests, s # r, CommitIntent(s) \/ Finish(s) \/ Crash(s)
      PROVE  /\ pc'[r] = pc[r] /\ job'[r] = job[r]
             /\ \A a \in Requests : rowLock[a] = r => rowLock'[a] = r
    BY <1>4 DEF TypeOK, CommitIntent, Finish, Crash, Goto, CommitConsumption, RollBack
<1>5. ASSUME NEW s \in Requests, NEW d \in Decisions, AbortDeadlock(s, d)
      PROVE  /\ pc'[r] = pc[r] /\ job'[r] = job[r]
             /\ \A a \in Requests : rowLock[a] = r => rowLock'[a] = r
  <2>1. s # r
      BY <1>5 DEF Own
  <2>2. QED
      BY <1>5, <2>1 DEF TypeOK, AbortDeadlock, Goto, RollBack
<1>6. ASSUME pc' = pc, job' = job, rowLock' = rowLock
      PROVE  /\ pc'[r] = pc[r] /\ job'[r] = job[r]
             /\ \A a \in Requests : rowLock[a] = r => rowLock'[a] = r
    BY <1>6
<1>7. ASSUME NEW s \in Requests, TakeEffect(s)
      PROVE  pc' = pc /\ job' = job /\ rowLock' = rowLock
    BY <1>7 DEF TakeEffect
<1>8. ASSUME NEW S \in SUBSET {o \in Ops : InFlight(o)}, MarkInterrupted(S)
      PROVE  pc' = pc /\ job' = job /\ rowLock' = rowLock
    BY <1>8 DEF MarkInterrupted
<1>9. ASSUME NEW d \in Decisions, NEW a \in Requests,
             NEW v \in {"approved", "rejected"}, Review(d, a, v)
      PROVE  pc' = pc /\ job' = job /\ rowLock' = rowLock
    BY <1>9 DEF Review
<1>10. ASSUME NEW d \in Decisions,
              TakeAuditLock(d) \/ RecordDecision(d) \/ AbandonDecision(d)
       PROVE  pc' = pc /\ job' = job /\ rowLock' = rowLock
    BY <1>10 DEF TakeAuditLock, RecordDecision, AbandonDecision
<1>11. ASSUME Environment \/ UNCHANGED vars
       PROVE  pc' = pc /\ job' = job /\ rowLock' = rowLock
    BY <1>11 DEF Environment, vars
<1>12. QED
    BY <1>1, <1>2, <1>3, <1>4, <1>5, <1>6, <1>7, <1>8, <1>9, <1>10, <1>11
    DEF Next, Serve, Decide

\* The request of an attempt never changes, and whether it has an access path
\* is settled when it is admitted.
LEMMA PathStays ==
    ASSUME TypeOK, [Next]_vars
    PROVE  /\ ask' = ask
           /\ \A r \in Requests : pc[r] # "new" => job'[r].path = job[r].path
<1>1. ask' = ask
    BY DEF Next, Serve, Decide, Admit, BindPolicy, LookupExecution, LookupApproval,
           ReadApproval, JudgeApproval,
           EvaluatePolicy, Consume, CommitIntent, IssueGrant, MarkRunning, Recheck,
           RecheckPath, RecheckPolicy, RecheckExpiry, RecheckApprover, Passes, Execute,
           Settle, Finish, TakeEffect, Crash, MarkInterrupted, Review, TakeAuditLock,
           RecordDecision, AbandonDecision, AbortDeadlock, Environment, vars
<1>2. ASSUME NEW r \in Requests, pc[r] # "new"
      PROVE  job'[r].path = job[r].path
  <2>1. CASE ~Own(r)
      BY <2>1, OthersStay
  <2>2. CASE Own(r)
    <3>1. \/ job' = job
          \/ \E v \in Versions : job' = [job EXCEPT ![r].bound = v]
          \/ \E b : job' = [job EXCEPT ![r].valid = b]
          \/ \E p : job' = [job EXCEPT ![r].approver = p]
          \/ \E b, p : job' = [job EXCEPT ![r].valid = b, ![r].approver = p]
          \/ \E v, x : job' = [job EXCEPT ![r].decided = v, ![r].outcome = x]
          \/ \E x : job' = [job EXCEPT ![r].outcome = x]
          \/ \E b : job' = [job EXCEPT ![r].child = b]
        BY <1>2, <2>2 DEF TypeOK, Own, Serve, Admit, BindPolicy, LookupExecution,
            LookupApproval, ReadApproval, JudgeApproval, EvaluatePolicy, Consume,
            CommitIntent, IssueGrant, MarkRunning, Recheck, RecheckPath, RecheckPolicy,
            RecheckExpiry, RecheckApprover, Passes, Execute, Settle, Finish, Crash,
            AbortDeadlock, Reply
    <3>2. ASSUME NEW b, NEW p, job' = [job EXCEPT ![r].valid = b, ![r].approver = p]
          PROVE  job'[r].path = job[r].path
        BY <3>2 DEF TypeOK, Job
    <3>3. ASSUME NEW v, NEW x, job' = [job EXCEPT ![r].decided = v, ![r].outcome = x]
          PROVE  job'[r].path = job[r].path
        BY <3>3 DEF TypeOK, Job
    <3>4. ASSUME NEW x, \/ job' = [job EXCEPT ![r].bound = x]
                        \/ job' = [job EXCEPT ![r].valid = x]
                        \/ job' = [job EXCEPT ![r].approver = x]
                        \/ job' = [job EXCEPT ![r].outcome = x]
                        \/ job' = [job EXCEPT ![r].child = x]
          PROVE  job'[r].path = job[r].path
        BY <3>4 DEF TypeOK, Job
    <3>5. QED
        BY <3>1, <3>2, <3>3, <3>4
  <2>3. QED
      BY <2>1, <2>2
<1>3. QED
    BY <1>1, <1>2

\* Each kind of change of the approvals.
LEMMA ApprovalSteps ==
    ASSUME TypeOK, [Next]_vars
    PROVE  \/ approval' = approval /\ spent' = spent
           \/ \E r \in Requests : CommitConsumption(r)
           \/ \E r \in Requests :
                /\ Finish(r) /\ job[r].outcome = "approval_required"
                /\ spent' = spent
           \/ \E d \in Decisions : RecordDecision(d) /\ spent' = spent
<1>1. ASSUME NEW r \in Requests,
             \/ Admit(r) \/ BindPolicy(r) \/ LookupExecution(r) \/ LookupApproval(r)
             \/ EvaluatePolicy(r) \/ Consume(r) \/ IssueGrant(r) \/ MarkRunning(r)
             \/ Recheck(r) \/ Execute(r) \/ Settle(r) \/ TakeEffect(r) \/ Crash(r)
      PROVE  approval' = approval /\ spent' = spent
    BY <1>1 DEF Admit, BindPolicy, LookupExecution, LookupApproval, ReadApproval,
                JudgeApproval, EvaluatePolicy, Consume,
                IssueGrant, MarkRunning, Recheck, RecheckPath, RecheckPolicy,
                RecheckExpiry, RecheckApprover, Passes, Execute, Settle, TakeEffect, Crash
<1>2. ASSUME NEW r \in Requests, CommitIntent(r) \/ Finish(r)
      PROVE  \/ approval' = approval /\ spent' = spent
             \/ CommitConsumption(r)
             \/ Finish(r) /\ job[r].outcome = "approval_required" /\ spent' = spent
    BY <1>2 DEF CommitIntent, Finish
<1>3. ASSUME NEW d \in Decisions, Decide(d) \/ AbandonDecision(d)
      PROVE  spent' = spent /\ (approval' = approval \/ RecordDecision(d))
    BY <1>3 DEF Decide, TakeAuditLock, RecordDecision, AbandonDecision
<1>4. ASSUME NEW S \in SUBSET {o \in Ops : InFlight(o)}, MarkInterrupted(S)
      PROVE  approval' = approval /\ spent' = spent
    BY <1>4 DEF MarkInterrupted
<1>5. ASSUME NEW d \in Decisions, NEW a \in Requests,
             NEW v \in {"approved", "rejected"}, Review(d, a, v)
      PROVE  approval' = approval /\ spent' = spent
    BY <1>5 DEF Review
<1>6. ASSUME NEW r \in Requests, NEW d \in Decisions, AbortDeadlock(r, d)
      PROVE  approval' = approval /\ spent' = spent
    BY <1>6 DEF AbortDeadlock
<1>7. CASE Environment \/ UNCHANGED vars
    BY <1>7 DEF Environment, vars
<1>8. QED
    BY <1>1, <1>2, <1>3, <1>4, <1>5, <1>6, <1>7 DEF Next, Serve

\* An approval keeps its request, a decision about it is never taken back, and
\* what was spent stays spent.
LEMMA ApprovalStays ==
    ASSUME TypeOK, Funded, [Next]_vars, NEW a \in Requests, approval[a].status # "absent"
    PROVE  /\ approval'[a].status # "absent" /\ approval'[a].hash = approval[a].hash
           /\ Decided(a) => Decided(a)'
           /\ spent[a] > 0 => spent'[a] > 0
<1>1. CASE approval' = approval /\ spent' = spent
    BY <1>1 DEF Decided
<1>2. ASSUME NEW r \in Requests, CommitConsumption(r)
      PROVE  /\ approval'[a].hash = approval[a].hash
             /\ approval'[a].status \in {approval[a].status, "consumed"}
             /\ spent'[a] \in {spent[a], spent[a] + 1}
    BY <1>2 DEF TypeOK, ApprovalRow, CommitConsumption
<1>3. ASSUME NEW r \in Requests, Finish(r), job[r].outcome = "approval_required", spent' = spent
      PROVE  approval'[a] = approval[a]
  <2>1. r # a
      BY <1>3 DEF Finish, Funded
  <2>2. QED
      BY <1>3, <2>1 DEF TypeOK, Finish
<1>4. ASSUME NEW d \in Decisions, RecordDecision(d), spent' = spent
      PROVE  /\ approval'[a].hash = approval[a].hash
             /\ approval'[a].status \in {approval[a].status, "approved", "rejected"}
    BY <1>4 DEF TypeOK, ApprovalRow, DecisionCall, RecordDecision
<1>5. CASE \E r \in Requests : CommitConsumption(r)
    BY <1>2, <1>5 DEF TypeOK, Decided
<1>6. QED
    BY <1>1, <1>3, <1>4, <1>5, ApprovalSteps DEF Decided

\* Every step keeps approvals and decision calls sound.
LEMMA StepApprovalsSound ==
    TypeOK /\ Funded /\ ApprovalsSound /\ [Next]_vars => ApprovalsSound'
<1> SUFFICES ASSUME TypeOK, Funded, ApprovalsSound, [Next]_vars
             PROVE  ApprovalsSound'
    OBVIOUS
<1>1. ask' = ask
    BY PathStays
<1>2. ASSUME NEW a \in Requests
      PROVE  /\ approval'[a].status # "absent" => approval'[a].hash[1] = ask[a].payload
             /\ Decided(a)' => approval'[a].approver \notin {None, Subject[ask[a].payload]}
  <2>1. CASE approval' = approval
      BY <2>1 DEF ApprovalsSound, Decided
  <2>2. ASSUME NEW r \in Requests, CommitConsumption(r)
        PROVE  /\ approval'[a].status # "absent" => approval'[a].hash[1] = ask[a].payload
               /\ Decided(a)' => approval'[a].approver \notin {None, Subject[ask[a].payload]}
    <3>1. CASE rowLock[a] = r
      <4>1. approval[a].status = "approved"
          BY <3>1, NoneAssumption DEF Funded
      <4>2. approval'[a].hash = approval[a].hash /\ approval'[a].approver = approval[a].approver
          BY <2>2, <3>1 DEF TypeOK, ApprovalRow, CommitConsumption
      <4>3. QED
          BY <4>1, <4>2 DEF ApprovalsSound, Decided
    <3>2. CASE rowLock[a] # r
        BY <2>2, <3>2, CommitValue DEF ApprovalsSound, Decided
    <3>3. QED
        BY <3>1, <3>2
  <2>3. ASSUME NEW r \in Requests, Finish(r), job[r].outcome = "approval_required"
        PROVE  /\ approval'[a].status # "absent" => approval'[a].hash[1] = ask[a].payload
               /\ Decided(a)' => approval'[a].approver \notin {None, Subject[ask[a].payload]}
    <3>1. approval' = [approval EXCEPT ![r] =
                          [status |-> "pending", hash |-> Hash(r), approver |-> None]]
        BY <2>3 DEF Finish
    <3>2. CASE a = r
        BY <3>1, <3>2 DEF TypeOK, Hash, Decided
    <3>3. CASE a # r
        BY <3>1, <3>3 DEF TypeOK, ApprovalsSound, Decided
    <3>4. QED
        BY <3>2, <3>3
  <2>4. ASSUME NEW d \in Decisions, RecordDecision(d)
        PROVE  /\ approval'[a].status # "absent" => approval'[a].hash[1] = ask[a].payload
               /\ Decided(a)' => approval'[a].approver \notin {None, Subject[ask[a].payload]}
    <3>1. CASE a # decision[d].approval
        BY <2>4, <3>1 DEF TypeOK, RecordDecision, ApprovalsSound, Decided
    <3>2. CASE a = decision[d].approval
      <4>1. approval'[a].hash = approval[a].hash /\ approval'[a].approver = Approver[d]
          BY <2>4, <3>2 DEF TypeOK, ApprovalRow, RecordDecision
      <4>2. /\ approval[a].status # "absent" /\ Approver[d] # Subject[ask[a].payload]
            /\ decision[d].at = "locked"
          BY <2>4, <3>2 DEF RecordDecision, ApprovalsSound
      <4>3. Approver[d] # None
          BY ConstantsAssumption, NoneAssumption
      <4>4. QED
          BY <4>1, <4>2, <4>3 DEF ApprovalsSound
    <3>3. QED
        BY <3>1, <3>2
  <2>5. QED
      BY <2>1, <2>2, <2>3, <2>4, ApprovalSteps
<1>3. ASSUME NEW d \in Decisions, decision'[d].at \in {"reviewed", "locked"}
      PROVE  /\ approval'[decision'[d].approval].status # "absent"
             /\ Approver[d] # Subject[ask[decision'[d].approval].payload]
  <2>1. \/ /\ decision[d].at \in {"reviewed", "locked"}
           /\ decision'[d].approval = decision[d].approval
        \/ \E a \in Requests, v \in {"approved", "rejected"} :
              Review(d, a, v) /\ decision'[d].approval = a
    <3>1. ASSUME decision' = decision
          PROVE  /\ decision[d].at \in {"reviewed", "locked"}
                 /\ decision'[d].approval = decision[d].approval
        BY <1>3, <3>1
    <3>2. ASSUME NEW e \in Decisions, NEW a \in Requests,
                 NEW v \in {"approved", "rejected"}, Review(e, a, v)
          PROVE  \/ decision'[d] = decision[d]
                 \/ e = d /\ decision'[d].approval = a
        BY <3>2 DEF TypeOK, Review
    <3>3. ASSUME NEW e \in Decisions,
                 \/ TakeAuditLock(e) \/ RecordDecision(e) \/ AbandonDecision(e)
                 \/ \E r \in Requests : AbortDeadlock(r, e) /\ decision' # decision
          PROVE  /\ decision[d].at \in {"reviewed", "locked"}
                 /\ decision'[d].approval = decision[d].approval
        BY <1>3, <3>3
        DEF TypeOK, DecisionCall, TakeAuditLock, RecordDecision, AbandonDecision,
            AbortDeadlock
    <3>4. ASSUME NEW r \in Requests, Admit(r) \/ Serve(r) \/ TakeEffect(r) \/ Crash(r)
          PROVE  decision' = decision
        BY <3>4 DEF Serve, Admit, BindPolicy, LookupExecution, LookupApproval,
                    ReadApproval, JudgeApproval, EvaluatePolicy,
                    Consume, CommitIntent, IssueGrant, MarkRunning, Recheck, RecheckPath,
                    RecheckPolicy, RecheckExpiry, RecheckApprover, Passes, Execute, Settle,
                    Finish, TakeEffect, Crash
    <3>5. ASSUME NEW S \in SUBSET {o \in Ops : InFlight(o)}, MarkInterrupted(S)
          PROVE  decision' = decision
        BY <3>5 DEF MarkInterrupted
    <3>6. CASE Environment \/ UNCHANGED vars
        BY <3>1, <3>6 DEF Environment, vars
    <3>7. QED
        BY <1>3, <3>1, <3>2, <3>3, <3>4, <3>5, <3>6 DEF Next, Decide
  <2>2. CASE decision[d].at \in {"reviewed", "locked"} /\ decision'[d].approval = decision[d].approval
      BY <2>2, ApprovalStays DEF Funded, ApprovalsSound
  <2>3. ASSUME NEW a \in Requests, NEW v \in {"approved", "rejected"},
               Review(d, a, v), decision'[d].approval = a
        PROVE  /\ approval'[decision'[d].approval].status # "absent"
               /\ Approver[d] # Subject[ask[decision'[d].approval].payload]
      BY <2>3 DEF Review
  <2>4. QED
      BY <2>1, <2>2, <2>3
<1>4. QED
    BY <1>1, <1>2, <1>3 DEF ApprovalsSound

\* The engine allows nothing that is denied, not allowed, or lacks its approval.
LEMMA EvaluateAllows ==
    ASSUME NEW matched, NEW present \in BOOLEAN, Evaluate(matched, present) = "allowed"
    PROVE  /\ "deny" \notin matched
           /\ "allow" \in matched
           /\ "require_approval" \in matched => present
BY DEF Evaluate

\* Every step keeps what attempts rely on.
LEMMA StepArgued ==
    ASSUME TypeOK, Funded, [Next]_vars, NEW r \in Requests, Argued(r)
    PROVE  Argued(r)'
<1>1. ask' = ask
    BY PathStays
<1>2. CASE ~Own(r)
  <2>1. /\ pc'[r] = pc[r] /\ job'[r] = job[r]
        /\ \A a \in Requests : rowLock[a] = r => rowLock'[a] = r
      BY <1>2, OthersStay
  <2>2. Hash(r)' = Hash(r) /\ \A v, b : Permits(v, r, b)' = Permits(v, r, b)
      BY <1>1, <2>1 DEF Hash, Permits
  <2>3. ASSUME NEW a \in Requests, Decided(a)
        PROVE  approval'[a].hash = approval[a].hash /\ Decided(a)'
      BY <2>3, ApprovalStays DEF Decided
  <2>4. QED
      BY <2>1, <2>2, <2>3 DEF Argued, Decided
<1>3. CASE pc'[r] \notin {"approver", "evaluate", "consume", "intent"}
    BY <1>3 DEF Argued
<1>4. CASE LookupApproval(r)
  <2>1. /\ pc'[r] \in {"approver", "evaluate"} /\ approval' = approval
        /\ job'[r].approval = job[r].approval /\ job'[r].bound = job[r].bound
      BY <1>4 DEF TypeOK, Job, LookupApproval, ReadApproval, JudgeApproval, Goto
  <2>2. Hash(r)' = Hash(r)
      BY <1>1, <2>1 DEF Hash
  <2>3. CASE ReadApproval(r)
    <3>1. job'[r].valid => Matches(r, job[r].approval)
        BY <2>3 DEF TypeOK, Job, ReadApproval
    <3>2. QED
        BY <2>1, <2>2, <3>1 DEF TypeOK, Job, Argued, Matches, Decided
  <2>4. CASE JudgeApproval(r)
    <3>1. pc[r] = "approver" /\ (job'[r].valid => job[r].valid)
        BY <2>4 DEF TypeOK, Job, JudgeApproval
    <3>2. QED
        BY <2>1, <2>2, <3>1 DEF Argued, Decided
  <2>5. QED
      BY <1>4, <2>3, <2>4 DEF LookupApproval
<1>5. ASSUME EvaluatePolicy(r), ~Reply(r, "denied")
      PROVE  Argued(r)'
  <2> DEFINE matched == Effects[active][ask[r].payload][job[r].path]
             outcome == Evaluate(matched, job[r].valid)
  <2>1. /\ pc[r] = "evaluate" /\ approval' = approval
        /\ job' = [job EXCEPT ![r].decided = active,
                              ![r].outcome = IF outcome = "allowed" THEN None ELSE outcome]
        /\ pc'[r] = CASE outcome # "allowed" -> "finish"
                      [] outcome = "allowed" /\ job[r].valid -> "consume"
                      [] OTHER -> AfterConsume(r)
      BY <1>5 DEF TypeOK, EvaluatePolicy, Goto
  <2>2. /\ job'[r].decided = active /\ job'[r].valid = job[r].valid
        /\ job'[r].approval = job[r].approval /\ job'[r].path = job[r].path
        /\ job'[r].bound = job[r].bound
      BY <2>1 DEF TypeOK, Job
  <2>3. /\ pc'[r] \in {"consume", "intent"} => outcome = "allowed"
        /\ pc'[r] = "consume" => job[r].valid
        /\ pc'[r] = "intent" => ~job[r].valid
      BY <2>1 DEF AfterConsume
  <2>4. job[r].valid \in BOOLEAN
      BY DEF TypeOK, Job
  <2>5. pc'[r] \in {"consume", "intent"} => Permits(job[r].decided, r, job[r].valid)'
      BY <1>1, <2>2, <2>3, <2>4, EvaluateAllows DEF Permits
  <2>6. Hash(r)' = Hash(r)
      BY <1>1, <2>2 DEF Hash
  <2>7. QED
      BY <2>1, <2>2, <2>3, <2>5, <2>6 DEF Argued, Decided
<1>6. CASE Consume(r) /\ pc'[r] = "intent"
  <2>1. /\ pc[r] = "consume" /\ job' = job /\ approval' = approval
        /\ rowLock' = [rowLock EXCEPT ![job[r].approval] = r]
      BY <1>6 DEF TypeOK, Consume, Reply, Goto
  <2>2. job[r].valid /\ job[r].approval \in Requests
      BY <2>1 DEF Argued
  <2>3. rowLock'[job[r].approval] = r
      BY <2>1, <2>2 DEF TypeOK
  <2>4. /\ Permits(job[r].decided, r, job[r].valid)' = Permits(job[r].decided, r, job[r].valid)
        /\ Hash(r)' = Hash(r)
      BY <1>1, <2>1 DEF Permits, Hash
  <2>5. QED
      BY <1>6, <2>1, <2>2, <2>3, <2>4 DEF Argued, Decided
<1>7. ASSUME \/ Admit(r) \/ BindPolicy(r) \/ LookupExecution(r) \/ CommitIntent(r)
             \/ IssueGrant(r) \/ MarkRunning(r) \/ Recheck(r) \/ Execute(r) \/ Settle(r)
             \/ Finish(r) \/ Crash(r) \/ (Consume(r) /\ pc'[r] # "intent")
             \/ Reply(r, "denied")
      PROVE  Argued(r)'
  <2>1. pc'[r] \notin {"approver", "evaluate", "consume", "intent"}
      BY <1>7 DEF TypeOK, Admit, BindPolicy, LookupExecution, CommitIntent, IssueGrant,
                  MarkRunning, Recheck, RecheckPath, RecheckPolicy, RecheckExpiry,
                  RecheckApprover, Passes, Execute, Settle, Finish, Crash, Consume,
                  AfterConsume,
                  Reply, Goto
  <2>2. QED
      BY <1>3, <2>1
<1>8. ASSUME NEW d \in Decisions, AbortDeadlock(r, d)
      PROVE  Argued(r)'
  <2>1. CASE pc'[r] = "crashed"
      BY <1>3, <2>1
  <2>2. CASE pc'[r] # "crashed"
    <3>1. pc' = pc /\ job' = job /\ approval' = approval /\ rowLock' = rowLock
        BY <1>8, <2>2 DEF TypeOK, AbortDeadlock, Goto
    <3>2. Hash(r)' = Hash(r) /\ \A v, b : Permits(v, r, b)' = Permits(v, r, b)
        BY <1>1, <3>1 DEF Hash, Permits
    <3>3. QED
        BY <3>1, <3>2 DEF Argued, Decided
  <2>3. QED
      BY <2>1, <2>2
<1>9. CASE Consume(r)
    BY <1>6, <1>7, <1>9
<1>10. CASE Serve(r)
    BY <1>4, <1>5, <1>7, <1>9, <1>10 DEF Serve
<1>11. CASE Admit(r) \/ Crash(r)
    BY <1>7, <1>11
<1>12. CASE \E d \in Decisions : AbortDeadlock(r, d)
    BY <1>8, <1>12
<1>13. QED
    BY <1>2, <1>10, <1>11, <1>12 DEF Own

\* The row of operation o keeps what it was inserted with.
RowKept(o) ==
    /\ exec'[o].corr = exec[o].corr /\ exec'[o].hash = exec[o].hash
    /\ exec'[o].version = exec[o].version /\ exec'[o].approval = exec[o].approval
    /\ exec[o].state = "absent" => exec'[o].state = "absent"

\* Every step keeps it, and only the commit of an intent inserts.
LEMMA RowStays ==
    ASSUME TypeOK, Owned, [Next]_vars, NEW o \in Ops
    PROVE  \/ RowKept(o)
           \/ \E r \in Requests : CommitIntent(r) /\ KeyFree(r) /\ o = Op(r)
<1>1. ASSUME NEW r \in Requests,
             \/ Admit(r) \/ BindPolicy(r) \/ LookupExecution(r) \/ LookupApproval(r)
             \/ EvaluatePolicy(r) \/ Consume(r) \/ IssueGrant(r) \/ Recheck(r) \/ Execute(r)
             \/ Settle(r) \/ TakeEffect(r) \/ Crash(r) \/ (CommitIntent(r) /\ ~KeyFree(r))
      PROVE  RowKept(o)
    BY <1>1 DEF Admit, BindPolicy, LookupExecution, LookupApproval, ReadApproval,
                JudgeApproval, EvaluatePolicy, Consume,
                IssueGrant, Recheck, RecheckPath, RecheckPolicy, RecheckExpiry,
                RecheckApprover, Passes, Execute, Settle, TakeEffect, Crash,
                CommitIntent, RowKept
<1>2. ASSUME NEW r \in Requests, CommitIntent(r), KeyFree(r), o # Op(r)
      PROVE  RowKept(o)
    BY <1>2 DEF TypeOK, CommitIntent, RowKept
<1>3. ASSUME NEW r \in Requests, MarkRunning(r) \/ Finish(r)
      PROVE  RowKept(o)
  <2>1. exec' = exec \/ \E s \in ExecState : exec' = [exec EXCEPT ![Op(r)].state = s]
      BY <1>3 DEF MarkRunning, Finish, ExecState
  <2>2. exec' # exec => Opened(r)
      BY <1>3 DEF MarkRunning, Finish, Owned, Staged
  <2>3. exec' # exec => exec[Op(r)].state # "absent"
      BY <2>2, OpType, NoneAssumption DEF Opened, Owned, RowsOwned
  <2>4. QED
      BY <2>1, <2>3 DEF TypeOK, ExecRow, RowKept
<1>4. ASSUME NEW S \in SUBSET {p \in Ops : InFlight(p)}, MarkInterrupted(S)
      PROVE  RowKept(o)
    BY <1>4 DEF TypeOK, ExecRow, MarkInterrupted, InFlight, RowKept
<1>5. ASSUME NEW d \in Decisions, Decide(d) \/ AbandonDecision(d)
      PROVE  RowKept(o)
    BY <1>5 DEF Decide, TakeAuditLock, RecordDecision, AbandonDecision, RowKept
<1>6. ASSUME NEW d \in Decisions, NEW a \in Requests,
             NEW v \in {"approved", "rejected"}, Review(d, a, v)
      PROVE  RowKept(o)
    BY <1>6 DEF Review, RowKept
<1>7. ASSUME NEW r \in Requests, NEW d \in Decisions, AbortDeadlock(r, d)
      PROVE  RowKept(o)
    BY <1>7 DEF AbortDeadlock, RowKept
<1>8. ASSUME Environment \/ UNCHANGED vars
      PROVE  RowKept(o)
    BY <1>8 DEF Environment, vars, RowKept
<1>9. ASSUME NEW r \in Requests, CommitIntent(r)
      PROVE  RowKept(o) \/ (CommitIntent(r) /\ KeyFree(r) /\ o = Op(r))
    BY <1>1, <1>2, <1>9
<1>10. ASSUME NEW r \in Requests, Serve(r)
      PROVE  RowKept(o) \/ (CommitIntent(r) /\ KeyFree(r) /\ o = Op(r))
    BY <1>1, <1>3, <1>9, <1>10 DEF Serve
<1>11. ASSUME NEW d \in Decisions,
              \/ \E a \in Requests, v \in {"approved", "rejected"} : Review(d, a, v)
              \/ Decide(d) \/ AbandonDecision(d)
       PROVE  RowKept(o)
    BY <1>5, <1>6, <1>11
<1>12. QED
    BY <1>1, <1>4, <1>7, <1>8, <1>10, <1>11 DEF Next

\* Every step keeps what rows rest on.
LEMMA StepRowJustified ==
    ASSUME TypeOK, Owned, Funded, Justified, [Next]_vars, NEW o \in Ops
    PROVE  RowJustified(o)'
<1>1. ask' = ask
    BY PathStays
<1>2. CASE RowKept(o)
  <2>1. ASSUME exec'[o].state # "absent"
        PROVE  Permits(exec[o].version, exec[o].corr, exec[o].approval # None)'
    <3> DEFINE r == exec[o].corr
    <3>1. exec[o].state # "absent"
        BY <1>2, <2>1 DEF RowKept
    <3>2. r \in Requests /\ Opened(r)
        BY <3>1 DEF TypeOK, ExecRow, Owned, RowsOwned, Opened
    <3>3. pc[r] # "new"
        BY <3>2 DEF Owned, Staged, Before, Checks
    <3>4. job'[r].path = job[r].path
        BY <3>2, <3>3, PathStays
    <3>5. Permits(exec[o].version, r, exec[o].approval # None)
        BY <3>1 DEF Justified, RowJustified
    <3>6. QED
        BY <1>1, <1>2, <3>4, <3>5 DEF Permits, RowKept
  <2>2. ASSUME exec'[o].approval # None
        PROVE  /\ exec'[o].approval \in Requests
               /\ Subject[exec'[o].hash[1]] = o[1]
               /\ exec'[o].hash = approval'[exec'[o].approval].hash
               /\ Decided(exec[o].approval)'
               /\ spent'[exec'[o].approval] > 0
    <3> PICK a : a = exec[o].approval
        OBVIOUS
    <3>1. /\ a \in Requests /\ Decided(a) /\ spent[a] > 0
          /\ Subject[exec[o].hash[1]] = o[1] /\ exec[o].hash = approval[a].hash
        BY <1>2, <2>2 DEF Justified, RowJustified, RowKept, Decided
    <3>2. approval[a].status # "absent"
        BY <3>1 DEF Decided
    <3>3. approval'[a].hash = approval[a].hash /\ Decided(a)' /\ spent'[a] > 0
        BY <3>1, <3>2, ApprovalStays
    <3>4. QED
        BY <1>2, <3>1, <3>3 DEF Decided, RowKept
  <2>3. QED
      BY <2>1, <2>2 DEF RowJustified
<1>3. ASSUME NEW r \in Requests, CommitIntent(r), KeyFree(r), o = Op(r)
      PROVE  RowJustified(o)'
  <2>1. /\ pc[r] = "intent" /\ job' = job /\ CommitConsumption(r)
        /\ exec' = [exec EXCEPT ![Op(r)] =
                      [state |-> "authorized", corr |-> r, hash |-> Hash(r),
                       version |-> job[r].decided,
                       approval |-> IF job[r].valid THEN job[r].approval ELSE None]]
      BY <1>3 DEF CommitIntent
  <2>2. exec'[o] = [state |-> "authorized", corr |-> r, hash |-> Hash(r),
                    version |-> job[r].decided,
                    approval |-> IF job[r].valid THEN job[r].approval ELSE None]
      BY <1>3, <2>1 DEF TypeOK
  <2>3. Argued(r)
      BY DEF Justified
  <2>4. Permits(job[r].decided, r, job[r].valid)
      BY <2>1, <2>3 DEF Argued
  <2>5. job[r].valid =>
            /\ job[r].approval \in Requests /\ Decided(job[r].approval)
            /\ approval[job[r].approval].hash = Hash(r)
            /\ rowLock[job[r].approval] = r
      BY <2>1, <2>3 DEF Argued
  <2>6. exec'[o].approval # None => job[r].valid
      BY <2>2
  <2>7. job[r].valid => exec'[o].approval = job[r].approval /\ exec'[o].approval # None
      BY <2>2, <2>5, NoneAssumption
  <2>8. Permits(exec[o].version, exec[o].corr, exec[o].approval # None)'
    <3>1. /\ exec'[o].version = job[r].decided /\ exec'[o].corr = r
          /\ job'[r].path = job[r].path /\ ask'[r] = ask[r]
        BY <1>1, <2>1, <2>2
    <3>2. job[r].valid => exec'[o].approval # None
        BY <2>7
    <3>3. QED
        BY <2>4, <3>1, <3>2 DEF Permits
  <2>9. ASSUME job[r].valid
        PROVE  /\ Decided(job[r].approval)'
               /\ spent'[job[r].approval] > 0
               /\ approval'[job[r].approval].hash = Hash(r)
    <3> DEFINE a == job[r].approval
    <3>1. /\ approval'[a].status = "consumed" /\ approval'[a].hash = approval[a].hash
          /\ spent'[a] = spent[a] + 1
        BY <2>1, <2>5, <2>9 DEF TypeOK, ApprovalRow, CommitConsumption
    <3>2. spent[a] \in Nat
        BY <2>5, <2>9 DEF TypeOK
    <3>3. QED
        BY <2>1, <2>5, <2>9, <3>1, <3>2 DEF Decided
  <2>10. Subject[Hash(r)[1]] = o[1]
      BY <1>3 DEF Hash, Op
  <2>11. Decided(job[r].approval)' /\ job[r].valid => Decided(exec[o].approval)'
      BY <2>1, <2>7 DEF Decided
  <2>12. QED
      BY <2>2, <2>5, <2>6, <2>7, <2>8, <2>9, <2>10, <2>11 DEF RowJustified
<1>4. QED
    BY <1>2, <1>3, RowStays

\* There is nothing to justify at the start.
LEMMA InitJustified == Init => Justified
BY DEF Init, Justified, ApprovalsSound, Argued, RowJustified, Decided, NoApproval,
       NoExec, Idle

\* Every execution that is reached is justified.
THEOREM JustifiedHolds == Spec => []Justified
<1>1. TypeOK /\ Owned /\ Funded /\ Justified /\ [Next]_vars => Justified'
    BY StepApprovalsSound, StepArgued, StepRowJustified DEF Justified
<1>2. QED
    BY <1>1, TypeCorrect, OwnershipHolds, InitType, InitFunded, StepFunded, InitJustified, PTL
    DEF Spec

\* A spent approval was bound to exactly what was executed and given by somebody
\* other than the requester.
THEOREM ApprovalCoversExecutionHolds == Spec => []ApprovalCoversExecution
<1>1. ASSUME TypeOK, Justified, NEW o \in Ops, exec[o].approval # None
      PROVE  LET a == approval[exec[o].approval]
             IN  /\ exec[o].hash = a.hash
                 /\ spent[exec[o].approval] > 0
                 /\ a.approver # None
                 /\ a.approver # o[1]
  <2> PICK a : a = exec[o].approval
      OBVIOUS
  <2>1. /\ a \in Requests /\ Decided(a) /\ spent[a] > 0
        /\ exec[o].hash = approval[a].hash /\ Subject[exec[o].hash[1]] = o[1]
      BY <1>1 DEF Justified, RowJustified, Decided
  <2>2. approval[a].status # "absent" /\ ApprovalsSound
      BY <1>1, <2>1 DEF Justified, Decided
  <2>3. /\ approval[a].hash[1] = ask[a].payload
        /\ approval[a].approver \notin {None, Subject[ask[a].payload]}
      BY <2>1, <2>2 DEF ApprovalsSound
  <2>4. QED
      BY <2>1, <2>3
<1>2. TypeOK /\ Justified => ApprovalCoversExecution
    BY <1>1 DEF ApprovalCoversExecution
<1>3. QED
    BY <1>2, TypeCorrect, JustifiedHolds, PTL

\* Nothing is executed that the policy version it was decided under denies,
\* does not allow, or wants an unspent approval for.
THEOREM DecisionCoversExecutionHolds == Spec => []DecisionCoversExecution
<1>1. Justified => DecisionCoversExecution
    BY DEF Justified, RowJustified, Permits, DecisionCoversExecution
<1>2. QED
    BY <1>1, JustifiedHolds, PTL

-----------------------------------------------------------------------------
(* A write that is overtaken and stays so never gets past the check that     *)
(* looks for the reason.                                                     *)

\* Attempt r has not handed its write to a child, and is not about to: of the
\* checks it has reached none but those in upto.
Held(r, upto) ==
    /\ pc[r] \in {"consume", "intent", "grant", "start", "execute", "finish", "done",
                  "crashed"} \cup upto
    /\ pc[r] = "execute" => ~Writes(r)
    /\ ~job[r].child

\* While the last of those checks fails it is held.
LEMMA StepHeld ==
    ASSUME TypeOK, [Next]_vars, NEW r \in Requests, NEW upto \in SUBSET Checks,
           "recheck" \in upto, Held(r, upto),
           Recheck(r) => pc'[r] \in upto \cup {"finish"}
    PROVE  Held(r, upto)'
<1>1. Writes(r)' = Writes(r)
    BY PathStays DEF Writes
<1>2. CASE ~Own(r)
    BY <1>1, <1>2, OthersStay DEF Held
<1>3. CASE Consume(r) \/ CommitIntent(r) \/ IssueGrant(r) \/ MarkRunning(r)
  <2>1. /\ pc'[r] \in {"intent", "grant", "start", "recheck", "execute", "finish", "crashed"}
        /\ pc'[r] = "execute" => ~Writes(r)
      BY <1>3 DEF TypeOK, Consume, CommitIntent, IssueGrant, MarkRunning, AfterConsume, Reply,
                  Goto
  <2>2. job'[r].child = job[r].child
      BY <1>3 DEF TypeOK, Job, Consume, CommitIntent, IssueGrant, MarkRunning, Reply
  <2>3. QED
      BY <1>1, <2>1, <2>2 DEF Held
<1>4. CASE Recheck(r)
  <2>1. pc'[r] # "execute"
      BY <1>4 DEF Checks
  <2>2. job'[r].child = job[r].child
      BY <1>4, RecheckValue
  <2>3. QED
      BY <1>4, <2>1, <2>2 DEF Held
<1>5. CASE Execute(r)
  <2>1. ~Writes(r)
      BY <1>5 DEF Execute, Held
  <2>2. pc'[r] = "finish" /\ job'[r].child = job[r].child
      BY <1>5, <2>1, ReplyValue DEF Execute, Outcomes
  <2>3. QED
      BY <2>2 DEF Held
<1>6. ASSUME Finish(r) \/ Crash(r) \/ \E d \in Decisions : AbortDeadlock(r, d)
      PROVE  Held(r, upto)'
  <2>1. job' = job /\ pc'[r] \in {pc[r], "done", "crashed"}
      BY <1>6 DEF TypeOK, Finish, Crash, AbortDeadlock, Goto
  <2>2. QED
      BY <1>1, <2>1 DEF Held
<1>7. ~(\/ Admit(r) \/ BindPolicy(r) \/ LookupExecution(r) \/ LookupApproval(r)
        \/ EvaluatePolicy(r) \/ Settle(r))
    BY DEF Held, Checks, Admit, BindPolicy, LookupExecution, LookupApproval, ReadApproval,
           JudgeApproval, EvaluatePolicy, Settle
<1>8. QED
    BY <1>2, <1>3, <1>4, <1>5, <1>6, <1>7 DEF Own, Serve

\* An attempt whose approver is unfit, as its last check will find.
HeldForApprover(r, s) ==
    /\ Held(r, Checks)
    /\ pc[r] = "capability" => job[r].approver = s

\* The check of the approver asks for the one the approval names.
LEMMA StepHeldForApprover ==
    ASSUME TypeOK, [Next]_vars, NEW r \in Requests, NEW s, HeldForApprover(r, s),
           ApproverUnfit(r, s)
    PROVE  HeldForApprover(r, s)'
<1>1. Held(r, Checks)'
  <2>1. Recheck(r) => pc'[r] \in Checks \cup {"finish"}
      BY RecheckValue DEF HeldForApprover, ApproverUnfit, Checks
  <2>2. QED
      BY <2>1, StepHeld DEF HeldForApprover, Checks
<1>2. ASSUME pc'[r] = "capability"
      PROVE  job'[r].approver = s
  <2>1. CASE ~Own(r)
      BY <1>2, <2>1, OthersStay DEF HeldForApprover
  <2>2. CASE Recheck(r)
      BY <1>2, <2>2, RecheckValue DEF ApproverUnfit
  <2>3. CASE \E d \in Decisions : AbortDeadlock(r, d)
      BY <1>2, <2>3 DEF TypeOK, AbortDeadlock, Deadlocked, Goto, HeldForApprover
  <2>4. CASE Admit(r) \/ Crash(r) \/ BindPolicy(r) \/ LookupExecution(r) \/ LookupApproval(r)
             \/ EvaluatePolicy(r) \/ Consume(r)
      BY <1>2, <2>4 DEF TypeOK, Admit, Crash, BindPolicy, LookupExecution, LookupApproval,
         ReadApproval, JudgeApproval, EvaluatePolicy, Consume, AfterConsume, Goto, Reply
  <2>5. CASE CommitIntent(r) \/ IssueGrant(r) \/ MarkRunning(r) \/ Execute(r) \/ Settle(r)
             \/ Finish(r)
      BY <1>2, <2>5 DEF TypeOK, CommitIntent, IssueGrant, MarkRunning, Execute, Settle, Finish,
                        Goto, Reply
  <2>6. QED
      BY <2>1, <2>2, <2>3, <2>4, <2>5 DEF Own, Serve
<1>3. QED
    BY <1>1, <1>2 DEF HeldForApprover

\* An attempt that has its decision is held before the checks, and an attempt
\* that is held has no effect.
LEMMA HeldBefore ==
    ASSUME Owned, NEW r \in Requests, NEW upto \in SUBSET Checks, "recheck" \in upto
    PROVE  /\ AfterDecision(r) => Held(r, upto)
           /\ Held(r, upto) => r \notin effects
BY DEF Owned, Staged, Before, Checks, Held, AfterDecision

\* A write that is overtaken between its decision and the last checks, and stays
\* overtaken for that reason, never takes effect.
THEOREM OvertakenFenced == Spec => OvertakenWritesAreFenced
<1>1. ASSUME NEW r \in Requests
      PROVE  Spec => [](AfterDecision(r) /\ []PathGone(r) => [](r \notin effects))
  <2> DEFINE Still == Held(r, {"recheck"})
  <2>1. TypeOK /\ [Next]_vars /\ Still /\ PathGone(r) => Still'
    <3> SUFFICES ASSUME TypeOK, [Next]_vars, Still, PathGone(r)
                 PROVE  Still'
        OBVIOUS
    <3>1. Recheck(r) => pc'[r] = "finish"
        BY RecheckValue DEF Held, PathGone
    <3>2. QED
        BY <3>1, StepHeld DEF Checks
  <2>2. Owned => (AfterDecision(r) => Still) /\ (Still => r \notin effects)
      BY HeldBefore DEF Checks
  <2> HIDE DEF Still
  <2>3. QED
      BY <2>1, <2>2, TypeCorrect, OwnershipHolds, PTL DEF Spec
<1>2. ASSUME NEW r \in Requests
      PROVE  Spec => [](AfterDecision(r) /\ []PolicyReplaced(r) => [](r \notin effects))
  <2> DEFINE Still == Held(r, {"recheck", "policy"})
  <2>1. TypeOK /\ [Next]_vars /\ Still /\ PolicyReplaced(r) => Still'
    <3> SUFFICES ASSUME TypeOK, [Next]_vars, Still, PolicyReplaced(r)
                 PROVE  Still'
        OBVIOUS
    <3>1. Recheck(r) => pc'[r] \in {"policy", "finish"}
        BY RecheckValue DEF Held, PolicyReplaced
    <3>2. QED
        BY <3>1, StepHeld DEF Checks
  <2>2. Owned => (AfterDecision(r) => Still) /\ (Still => r \notin effects)
      BY HeldBefore DEF Checks
  <2> HIDE DEF Still
  <2>3. QED
      BY <2>1, <2>2, TypeCorrect, OwnershipHolds, PTL DEF Spec
<1>3. ASSUME NEW r \in Requests
      PROVE  Spec => [](AfterDecision(r) /\ []ApprovalLapsed(r) => [](r \notin effects))
  <2> DEFINE Still == Held(r, {"recheck", "policy", "expiry"})
  <2>1. TypeOK /\ [Next]_vars /\ Still /\ ApprovalLapsed(r) => Still'
    <3> SUFFICES ASSUME TypeOK, [Next]_vars, Still, ApprovalLapsed(r)
                 PROVE  Still'
        OBVIOUS
    <3>1. Recheck(r) => pc'[r] \in {"policy", "expiry", "finish"}
        BY RecheckValue DEF Held, ApprovalLapsed
    <3>2. QED
        BY <3>1, StepHeld DEF Checks
  <2>2. Owned => (AfterDecision(r) => Still) /\ (Still => r \notin effects)
      BY HeldBefore DEF Checks
  <2> HIDE DEF Still
  <2>3. QED
      BY <2>1, <2>2, TypeCorrect, OwnershipHolds, PTL DEF Spec
<1>4. ASSUME NEW r \in Requests, NEW s \in Principals
      PROVE  Spec => [](AfterDecision(r) /\ []ApproverUnfit(r, s) => [](r \notin effects))
  <2>1. TypeOK /\ [Next]_vars /\ HeldForApprover(r, s) /\ ApproverUnfit(r, s)
            => HeldForApprover(r, s)'
      BY StepHeldForApprover
  <2>2. Owned => /\ AfterDecision(r) => HeldForApprover(r, s)
                 /\ HeldForApprover(r, s) => r \notin effects
      BY HeldBefore DEF Checks, HeldForApprover, AfterDecision
  <2>3. QED
      BY <2>1, <2>2, TypeCorrect, OwnershipHolds, PTL DEF Spec
<1>5. QED
    BY <1>1, <1>2, <1>3, <1>4 DEF OvertakenWritesAreFenced

-----------------------------------------------------------------------------
(* The execution rows implement OperationLedger. *)

\* The empty tables are the empty ledger.
LEMMA InitLedger == Init => Ledger!Init
BY DEF Init, NoExec, Ledger!Init

\* The ledger's state depends on nothing but rows, effects and requests.
LEMMA LedgerUndisturbed ==
    ASSUME ask' = ask, exec' = exec, effects' = effects
    PROVE  UNCHANGED Ledger!ledger
BY DEF Ledger!ledger, Op

\* A step that writes no effect moves the operations whose rows it writes.
LEMMA RowStep ==
    ASSUME ask' = ask, effects' = effects,
           \A o \in Ops :
                \/ exec'[o] = exec[o]
                \/ Ledger!Claim(o) \/ Ledger!Begin(o) \/ Ledger!Succeed(o) \/ Ledger!GiveUp(o)
    PROVE  Ledger!Next
<1>1. ASSUME NEW o \in Ops, exec'[o] = exec[o]
      PROVE  Ledger!Same(o)
    BY <1>1 DEF Ledger!Same, Op
<1>2. QED
    BY <1>1 DEF Ledger!Next

\* Every step of the gateway is a step of the ledger, or none.
LEMMA StepLedger == TypeOK /\ Owned /\ [Next]_vars => [Ledger!Next]_(Ledger!ledger)
<1> SUFFICES ASSUME TypeOK, Owned, [Next]_vars
             PROVE  Ledger!Next \/ UNCHANGED Ledger!ledger
    OBVIOUS
<1>1. ASSUME NEW r \in Requests,
             \/ Admit(r) \/ BindPolicy(r) \/ LookupExecution(r) \/ LookupApproval(r)
             \/ EvaluatePolicy(r) \/ Consume(r) \/ IssueGrant(r)
             \/ Recheck(r) \/ Execute(r) \/ Settle(r) \/ Crash(r)
      PROVE  UNCHANGED Ledger!ledger
    BY <1>1, LedgerUndisturbed
    DEF Admit, BindPolicy, LookupExecution, LookupApproval, ReadApproval, JudgeApproval,
        EvaluatePolicy, Consume,
        IssueGrant, Recheck, RecheckPath, RecheckPolicy, RecheckExpiry, RecheckApprover,
        Passes, Execute, Settle, Crash
<1>2. ASSUME NEW r \in Requests, CommitIntent(r)
      PROVE  Ledger!Next \/ UNCHANGED Ledger!ledger
  <2>1. ask' = ask /\ effects' = effects
      BY <1>2 DEF CommitIntent
  <2> PICK p \in Ops : p = Op(r)
      BY OpType
  <2>2. CASE ~KeyFree(r)
      BY <1>2, <2>1, <2>2, LedgerUndisturbed DEF CommitIntent
  <2>3. CASE KeyFree(r)
    <3>1. /\ \A o \in Ops : o # p => exec'[o] = exec[o]
          /\ exec'[p].corr = r /\ exec'[p].state = "authorized"
          /\ exec[p].state = "absent"
        BY <1>2, <2>3 DEF TypeOK, CommitIntent, KeyFree
    <3>2. Ledger!Claim(p)
        BY <2>1, <3>1 DEF Ledger!Claim, Op
    <3>3. QED
        BY <2>1, <3>1, <3>2, RowStep
  <2>4. QED
      BY <2>2, <2>3
<1>3. ASSUME NEW r \in Requests, MarkRunning(r)
      PROVE  Ledger!Next
  <2>1. ask' = ask /\ effects' = effects
      BY <1>3 DEF MarkRunning
  <2> PICK p \in Ops : p = Op(r)
      BY OpType
  <2>2. exec[p].state = "authorized"
    <3>1. pc[r] = "start"
        BY <1>3 DEF MarkRunning
    <3>2. QED
        BY <3>1 DEF Owned, Staged
  <2>3. /\ \A o \in Ops : o # p => exec'[o] = exec[o]
        /\ exec'[p].corr = exec[p].corr /\ exec'[p].state = "running"
      BY <1>3 DEF TypeOK, ExecRow, MarkRunning
  <2>4. Ledger!Begin(p)
      BY <2>1, <2>2, <2>3 DEF Ledger!Begin, Op
  <2>5. QED
      BY <2>1, <2>3, <2>4, RowStep
<1>4. ASSUME NEW r \in Requests, Finish(r)
      PROVE  Ledger!Next \/ UNCHANGED Ledger!ledger
  <2>1. ask' = ask /\ effects' = effects /\ pc[r] = "finish"
      BY <1>4 DEF Finish
  <2> PICK p \in Ops : p = Op(r)
      BY OpType
  <2>2. CASE ~Opened(r)
      BY <1>4, <2>1, <2>2, LedgerUndisturbed DEF Finish
  <2>3. CASE Opened(r)
    <3>1. /\ exec[p].state \in {"authorized", "running"}
          /\ job[r].outcome = "allowed" => exec[p].state = "running" /\ r \in effects
        BY <2>1, <2>3 DEF Owned, Staged
    <3>2. /\ \A o \in Ops : o # p => exec'[o] = exec[o]
          /\ exec'[p].corr = exec[p].corr
          /\ exec'[p].state =
                IF job[r].outcome = "allowed" THEN "succeeded" ELSE "outcome_unknown"
        BY <1>4, <2>3 DEF TypeOK, ExecRow, Finish
    <3>3. CASE job[r].outcome = "allowed"
      <4>1. Ledger!Succeed(p)
          BY <2>1, <3>1, <3>2, <3>3 DEF Ledger!Succeed, Op
      <4>2. QED
          BY <2>1, <3>2, <4>1, RowStep
    <3>4. CASE job[r].outcome # "allowed"
      <4>1. Ledger!GiveUp(p)
          BY <2>1, <3>1, <3>2, <3>4 DEF Ledger!GiveUp, Op
      <4>2. QED
          BY <2>1, <3>2, <4>1, RowStep
    <3>5. QED
        BY <3>3, <3>4
  <2>4. QED
      BY <2>2, <2>3
<1>5. ASSUME NEW r \in Requests, TakeEffect(r)
      PROVE  Ledger!Next
  <2>1. /\ ask' = ask /\ exec' = exec /\ effects' = effects \cup {r} /\ r \notin effects
        /\ job[r].child
      BY <1>5 DEF TakeEffect
  <2> PICK p \in Ops : p = Op(r)
      BY OpType
  <2>2. exec[p].corr = r /\ exec[p].state \in {"running", "outcome_unknown"}
      BY <2>1 DEF Owned, Staged, Opened
  <2>3. \A s \in effects : Op(s) # p
      BY <2>1, <2>2 DEF TypeOK, Owned, Staged, Opened
  <2>4. \A s \in Requests : Op(s)' = Op(s)
      BY <2>1 DEF Op
  <2>5. {s \in effects : Op(s) = p} = {} /\ {s \in effects' : Op(s)' = p} = {r}
      BY <2>1, <2>3, <2>4 DEF TypeOK
  <2>6. Ledger!Act(p)
      BY <2>1, <2>2, <2>5 DEF Ledger!Act
  <2>7. ASSUME NEW o \in Ops, o # p
        PROVE  Ledger!Same(o)
    <3>1. {s \in effects' : Op(s)' = o} = {s \in effects : Op(s) = o}
        BY <2>1, <2>4, <2>7 DEF TypeOK
    <3>2. QED
        BY <2>1, <3>1 DEF Ledger!Same
  <2>8. QED
      BY <2>6, <2>7 DEF Ledger!Next
<1>6. ASSUME NEW S \in SUBSET {o \in Ops : InFlight(o)}, MarkInterrupted(S)
      PROVE  Ledger!Next
  <2>1. ask' = ask /\ effects' = effects
      BY <1>6 DEF MarkInterrupted
  <2>2. \A o \in Ops \ S : exec'[o] = exec[o]
      BY <1>6 DEF MarkInterrupted
  <2>3. ASSUME NEW o \in S
        PROVE  Ledger!GiveUp(o)
    <3>1. /\ o \in Ops /\ exec[o].state \in {"authorized", "running"}
          /\ exec'[o].state = "outcome_unknown" /\ exec'[o].corr = exec[o].corr
        BY <1>6 DEF TypeOK, ExecRow, MarkInterrupted, InFlight
    <3>2. QED
        BY <2>1, <3>1 DEF Ledger!GiveUp, Op
  <2>4. QED
      BY <2>1, <2>2, <2>3, RowStep
<1>7. ASSUME NEW d \in Decisions, NEW a \in Requests,
             NEW v \in {"approved", "rejected"}, Review(d, a, v)
      PROVE  UNCHANGED Ledger!ledger
    BY <1>7, LedgerUndisturbed DEF Review
<1>8. ASSUME NEW d \in Decisions,
             TakeAuditLock(d) \/ RecordDecision(d) \/ AbandonDecision(d)
      PROVE  UNCHANGED Ledger!ledger
    BY <1>8, LedgerUndisturbed DEF TakeAuditLock, RecordDecision, AbandonDecision
<1>9. ASSUME NEW r \in Requests, NEW d \in Decisions, AbortDeadlock(r, d)
      PROVE  UNCHANGED Ledger!ledger
    BY <1>9, LedgerUndisturbed DEF AbortDeadlock
<1>10. CASE Environment \/ UNCHANGED vars
    BY <1>10, LedgerUndisturbed DEF Environment, vars
<1>11. QED
    BY <1>1, <1>2, <1>3, <1>4, <1>5, <1>6, <1>7, <1>8, <1>9, <1>10
    DEF Next, Serve, Decide

\* The execution rows keep OperationLedger's promise for every interleaving of
\* attempts, crashes, late effects and recovery.
THEOREM LedgerImplemented == Spec => ImplementsLedger
BY TypeCorrect, OwnershipHolds, InitLedger, StepLedger, PTL
DEF Spec, ImplementsLedger, Ledger!Spec
==============================================================================
