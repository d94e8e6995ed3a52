# Verification of the governed enterprise control plane

TLA+ models, model-checking runs and machine-checked proofs for the control
plane under `src/beta/src/eda`.

## 1. Inventory

The control plane is a FastAPI application whose synchronous handlers run in a
thread pool, in several processes, over one database (PostgreSQL in READ
COMMITTED; SQLite in development). Every handler gets a session that is rolled
back when it is closed without a commit (`db.py:30`).

| component | state it keeps | operations | hard behaviour |
|---|---|---|---|
| request gateway (`gateway.py`, `execution.py`) | `Approval`, `Execution` rows | `handle_request`, `decide_approval`, `finish`, `replay`, `mark_interrupted` | interleaved attempts, stale reads, two locks taken in both orders, crashes between commits, effects that outlive their worker |
| policy engine (`policy.py`) | `PolicyRecord` rows | `propose_policy`, `activate_policy`, `rollback_policy`, `active_policy`, `evaluate` | concurrent activation, lazy default, ordering of retired versions |
| actions and controlled runner (`actions.py`, `runner.py`, `container_runner.py`) | a child process or container | `execute`, `run_controlled`, `run_container` | timeout against a late change, cleanup that fails |
| authority broker and vault (`broker.py`) | `Grant` rows, in-memory vault | `issue_grant`, `validate_grant`, `fetch_credentials`, `revoke_grant` | expiry between issue and use, provider and local lifetimes |
| audit (`audit.py`) | `AuditRecord` chain, anchor log | `append`, `verify_chain`, `anchor_chain`, `verify_anchors` | forks, out-of-order anchors |
| connector synchronisation (`connectors/`) | `ConnectorState`, `ConnectorFact`, `ConnectorReceipt`, projected graph | `register`, `apply_message`, `_project`, `SyncClient.send`, `collect_snapshot` | lost, duplicated, reordered messages; collector restarts; concurrent deliveries |
| legacy ingestion (`ingestion.py`) | `IngestReceipt`, graph nodes and edges | `register_source`, `ingest` | duplicate batches, stale evidence |
| access graph (`access_graph.py`) | none (reads the graph) | `resolve_path`, `capability_path` | bounded search over a changing graph |
| object graph (`objects.py`) | none (reads the graph) | `scoped_context` | disclosure per node |
| identity (`identity.py`, `identity_providers.py`) | none | `verify`, `map_principal` | ambiguous or disabled principals |
| feedback (`feedback.py`) | `Recommendation` rows | `run_analyzers`, `decide` | duplicate runs, concurrent decisions |

Components interact by calls within one transaction (the gateway calls policy,
access graph, broker, objects, actions and audit), and through committed rows:
synchronisation rewrites the graph that the gateway resolves paths in, policy
activation changes what it evaluates, a decision call changes the approval it
will consume.

What makes each correct:

- gateway: one effect per operation key, durable intent before any effect, an
  approval spent at most as often as it was granted and only for the request it
  was bound to, outcomes that the audit trail and the target bear out, no effect
  of a write whose authority has lapsed, an answer for every attempt;
- policy: one active version, rollback to the version retired last;
- audit: one chain, anchors that verify unless the chain was changed;
- synchronisation: live facts are those of a complete snapshot plus later deltas,
  each message applied once, a retry changes nothing, delivery makes progress;
- broker: no credential is released after revocation or expiry;
- feedback and ingestion: once per fingerprint, once per receipt.

## 2. Modules

| module | what it is | section |
|---|---|---|
| `Gateway`, `OperationLedger` | the request gateway; what an execution row promises | 3 |
| `SyncMessages`, `PublishedInventory`, `ConnectorSync` | messages, the abstract inventory, the handler of synchronisation | 4 |
| `PolicyLifecycle` | versions of the policy | 5 |
| `AuditChain` | the audit log and its anchors | 6 |
| `SyncDelivery` | `ConnectorSync` composed with collector, client and network | 7 |
| `BrokeredExecution` | policy decision, grant, credentials, job | 8 |
| `Ingestion` | batches of relationships, and the principals found in them | 9 |
| `Feedback` | recommendations | 10 |

`MC...` modules give a module's constants their values for TLC. `...Proofs` modules
hold theorems about it (section 11). Type invariants (`TypeOK`) are proved, not run.

What could follow: `resolve_path`'s separate statements against publications that
commit between them, and the rules of disclosure of `scoped_context` as operators
against a reference definition.

## 3. Gateway

### Correspondence

A step of `Gateway` is what a handler does between two points where another
transaction can come in. `pc[r]` is the place of attempt `r` in
`handle_request`, `job[r]` its local variables (`approval_record`, whether a
path was found, `current_policy.version`, `decision.policy_version`,
`approval_valid`, whether a child was started, the outcome).

| action | code |
|---|---|
| `Admit` | verification, mapping, registry and input checks, access path (`gateway.py:83-147`) |
| `BindPolicy` | active policy into the request hash; denied on a `PolicyError` (149-160) |
| `LookupExecution` | existing execution: replay or conflict (162-167) |
| `LookupApproval` | the approval named by the client: the row is read (`ReadApproval`, 169-180), then its expiry and the capability of its approver (`JudgeApproval`, 181-185) |
| `EvaluatePolicy` | `policy.evaluate`, denied, also on a `PolicyError`, and approval_required (187-241) |
| `Consume` | `UPDATE approvals ... AND status = 'approved'` (243-255) |
| `CommitIntent` | execution row, "authorized" record, commit (257-265) |
| `IssueGrant` | broker and scoped context (267-281) |
| `MarkRunning` | running commit (283-288) |
| `RecheckPath`, `RecheckPolicy`, `RecheckExpiry`, `RecheckApprover` | the fresh look (289-298): one query after another, each of what is committed by then; the last two only with an approval |
| `Execute`, `Settle` | `actions.execute`, answer, error or timeout of the child (299-308) |
| `Finish` | `finish()`: operation state, audit record, commit (65-81) |
| `Review`, `TakeAuditLock`, `RecordDecision` | `decide_approval` (323-372) |
| `MarkInterrupted` | `mark_interrupted` (`execution.py:25-41`) |
| `Crash`, `AbandonDecision` | an exception nobody catches or a killed process |
| `TakeEffect` | the handler in the child makes its change (`actions.py:95-111`, called at `runner.py:38`), at any time after it was dispatched |
| `AbortDeadlock` | PostgreSQL's deadlock detector |
| `Environment` | policy activation, synchronisation, the passing of `expires_at` |

`approval` and `exec` hold committed rows. The one uncommitted write other
transactions can notice is the consumption of an approval: `rowLock[a]` names the
attempt that holds its row. Lock order is as in the code: `audit.append` takes
the advisory lock before the session flushes, so an attempt that consumes takes
row then audit lock, and a decision call takes audit lock then row.

The request hash is a pair of payload and policy version, `Payloads` standing
for everything else it binds. A rule's conditions are not evaluated: `Effects`
says which effects match a payload with and without an access path.

`OperationLedger` says what an execution row promises without saying how
requests are served; `ImplementsLedger` is the refinement.

`entitled` stands for the mapping of the principal and its access path, `capable` for
an approver's path to the capability. Each rests on several rows, of which one comes
and goes in the model, so the queries of one search (and of the mapping at
`gateway.py:290` with the path at 291) may be taken at one instant. If several rows
came and went, they could relieve one another as the reasons below do.

`granted` and `spent` are history variables; nothing reads them but properties.

### Runs

| run | instance | shows |
|---|---|---|
| `gateway_races` | 3 requests, 2 decisions, 1 key, crashes | `AtMostOneEffect`, `IntentBeforeEffect`, `SpendsWithinGrants`, `OutcomeHasEvidence`, refinement of `OperationLedger` |
| `gateway_changes` | 2 requests, 2 decisions, one of them by the requester, 2 policy versions, revocation, expiry, activation | `ApprovalCoversExecution`, `DecisionCoversExecution`, `OvertakenWritesAreFenced` |
| `gateway_answers` | 2 requests, 2 decisions, a read and a write | `AttemptsEnd` under `FairSpec` |
| `gateway_spent_twice` | 3 requests, 2 decisions | finding: an approval is consumed twice |

Bounds. Three requests are what the approval hazards need: one that creates the
approval and two that compete for it; two decision calls are what a lost update
needs; one key that two attempts may share, and attempts without a key, are what
an idempotency conflict needs. Two payloads, two versions and two principals are
the least that lets a request differ from the approved one, a decision differ
from the bound one and an approver from a requester. There is no bound on steps:
every attempt ends, and the environment's choices range over finite sets.
Requests, and decision calls, are interchangeable where no temporal property is
checked (`Interchangeable`). The runs switch deadlock checking off because the
system may really stop: when every attempt has ended nothing more has to happen.

### Fairness

`FairSpec` gives weak fairness to each attempt that was admitted and to each
decision call past its review (the thread pool runs what it has started, and
`run_controlled` waits for a child at most its timeout), and to the database's
deadlock detector. A client need not send, an approver need not decide, an
operator need not recover, and a change need not reach its target. A row lock
and the audit lock are held by an attempt that can itself proceed or that is
part of a cycle the detector breaks, so weak fairness is enough.

### Findings and observations

- Finding: an approval can be spent twice (`gateway.py:352`): two decision calls read it
  pending; the first approves, a request consumes it, the second one's
  unconditional update approves it again. What holds instead is
  `SpendsWithinGrants`: every spending was granted by somebody.
- Observed, no run of its own: the version an approval is bound to and the version that decides are two
  reads (`gateway.py:151`, `policy.py:301`). The fresh look at `gateway.py:293`
  compares with the deciding version, not with the bound one, and no property does.
- Observed, no run of its own: the fresh look (`gateway.py:290-297`) is several queries, and reasons
  that relieve one another get past it. While a newer policy is active the path is
  read intact; the path is then revoked, the deciding policy is activated again, and
  its version is read: the write passes although it was overtaken at every moment.
  `OvertakenWritesAreFenced` is therefore about one reason at a time, which stays.
- Observed, no run of its own: a replayed answer is not audited (`gateway.py:167`), while
  `beta/docs/OPERATIONS.md:39` calls each attempt an audited decision.

## 4. Connector synchronisation

Collectors send numbered messages about their source: a snapshot (`begin`,
`page`s, `complete` or `abort`) or a `delta`. `apply_message` takes each in one
transaction, and `_project` rebuilds the source's part of the graph the gateway
resolves paths in.

- `SyncMessages`: the vocabulary. A fact is a key with evidence, of which the
  observation time and whether it is a plain, unconditional allow are kept
  (`contracts.py`); `WellFormed` is `SyncMessage.shape`, `Entitled` the manifest's
  checks (`_validate_fact`), `NotOlder` and `Upsert` are `_upsert_fact`.
- `PublishedInventory`: the abstract specification. It has no transactions, no
  deliveries and no generations: a source's next message takes effect, whole, or
  does not.
- `ConnectorSync`: the code. Its refinement of `PublishedInventory` is the
  property `ImplementsInventory`.

### Correspondence

| action | code (`connectors/sync.py` where no file is named) |
|---|---|
| `Register` | `register` (21-34): once, by an administrator |
| `Receive` | a call of `apply_message` finds no receipt (143-155) |
| `ReadState` | the connector row is read and the sequence compared (156-160) |
| `Apply` | `UPDATE ... WHERE sequence = ...` finds its row and locks it; every check, write and projection (161-216), uncommitted |
| `Commit` | audit record, receipt, and the handler's commit (217-224, `api.py:424`) |
| `Refuse` | every `IngestError` after the receipt lookup, and the rollback |
| `Fail` | the process dies, or the database fails the transaction |
| `CheckLegacy`, `CommitLegacy`, `FailLegacy` | `ingestion.ingest`: its look at the connector row (165), its commit or the end of its transaction |

`connector`, `facts`, `receipts` and `graph` are committed rows. Between the
UPDATE and the commit a delivery holds its connector row (`Locked`); another
delivery of the source that reached the UPDATE waits, and then finds a changed
sequence or the same one, according to how the first ended. What the holder has
written follows from its message and from rows that nobody else can change
meanwhile. The exception is the edges: whether an end that belongs to another
source is a node is read inside `_project` (133-134), and that source may publish
before this one commits. So `Apply` records the edges in the delivery's job and
`Commit` stores them. `Apply` reads all foreign nodes at one instant, the code
one by one.

The snapshot's identifier is read with the sequence (156), before the lock, and
used after it (175, 183, 206). The model keeps it so: `Acceptable` is given
`job[d].seen.open`, not the row's present value.

Left out: the size limit, future timestamps, namespaces, kinds and attributes (a
message that breaks these rules is refused like one that breaks `MayAssert`); a
source that is disabled; two facts with one key in one message; deliveries that
are answered from a receipt, which change nothing; `coverage` in the answer, and
`last_sync_at`. `Foreign` gives the sources a manifest may refer to, not the
relations allowed for each. Edges of the object graph and of the access graph are
one set; `Traversable` distinguishes the ones that transfer authority.

`resolve_path` walks every edge of a source, whoever wrote it, so `Usable` has the
projected edges whose ends are nodes and, beside them, the edges that unversioned
batches left. `ingesting` has the edges of the batch under way and `legacy` those of
the batches that committed. `_project` deletes what it finds (83-86): `Found` is
taken at that instant and removed at the commit, so that a batch which commits
between the two survives. `legacy` errs on the large side: a batch's nodes have names
and ids of their own, and its edges count even if one of them was deleted. `swept` is
history: the sources that published with no batch under way at the DELETE.

### Runs

| run | instance | shows |
|---|---|---|
| `sync_snapshots` | 1 source, 1 object, snapshot names `run` and the reserved `live`, 2 deliveries of any well-formed messages numbered 1 to 4 | `ReceiptsAreThePrefix`, `NoOrphanGeneration`, refinement of `PublishedInventory` |
| `sync_authority` | 2 sources, one relationship across them, 2 deliveries, numbers 1 to 3, legacy batches | `GraphFollowsFacts`, `AuthorityHasEvidence` |

Bounds. Two deliveries are what a race on a connector row, or between a source
and the owner of a foreign end, needs; a third adds nothing but another that
waits. Four messages are a delta and a whole snapshot with a page (`delta`,
`begin`, `page`, `complete`), or an aborted snapshot and the beginning of the next
(`begin`, `page`, `abort`, `begin`), whose identifier may be the same. Messages are not sent by one
well-behaved collector: any message of the instance may arrive at any time and
any number of times, which covers loss, repetition, reordering and a collector
that lost its memory. In `sync_authority` the sources only send changes, since a
completed snapshot publishes through the same projection, and three messages
let an end come, go and come back. Deadlock checking is off because collectors
may stop sending and the instance's numbers (`MaxSeq`) run out.

### Observations

- Observed, no run of its own: older evidence can replace newer evidence
  (`sync.py:197`; line 68 says it cannot). The comparison of line 67 is made within one generation, so a complete snapshot, or a key that was
  retracted first, is not compared. What holds is the weaker guarantee in
  `PublishedInventory`: `NotOlder` within what is staged, or within what is live
  after the tombstones.
- Observed, no run of its own: a legacy batch can survive registration
  (`ingestion.py:165`): `ingest` looks for a connector row once, without a lock, and
  commits later. A registration and a first publication may come in between, and the
  batch's edges then stay until the source publishes again, out of reach of its
  tombstones, although `ingestion.py:166` says "versioned connector must use sync
  endpoint". `CheckLegacy` and `CommitLegacy` reach this in `sync_authority`, and
  `resolve_path` walks such edges. What holds is `AuthorityHasEvidence`: a traversable
  edge is backed by a published fact, or a batch left it and the source has not
  published since with no batch under way.

## 5. Policy lifecycle

`PolicyLifecycle` has the transactions that write `PolicyRecord` rows. They read
without locks and write when `audit.append` flushes the session, after it took
the audit lock, which is kept to the commit; that is why the writes and the commit
are one action.

| action | code (`policy.py`) |
|---|---|
| `Propose` | `propose_policy` (220-239) and its commit |
| `ReadVersion` | `activate_policy` reads the version (246-252) |
| `ReadCandidate` | `rollback_policy` picks the newest retired version (280-287) |
| `ReadPrevious` | the active version and the clock are read (254-258) |
| `Commit` | both rows are updated by primary key and committed (255-275) |
| `FindNone`, `InsertDefault`, `CommitDefault` | `active_policy` in a request outside production (137-150) |
| `Abandon` | the call ends without a commit (`IntegrityError` on the version, a handler that only reads, a crash) |

Two details of the session matter. `rollback_policy`'s object is the one that
`activate_policy`'s query returns, with the status first read. And if somebody
activated the version in the meantime, `previous` and `record` are one object and the
later assignment, `record.status = "active"`, decides: `Replace`.

`former` and `overlapped` are history variables. `OneActive` and `RollbackUndoes`
are stated until `overlapped`, that is, until a call begins (an administrator's, or a
request that finds no policy) while another is under way: that is what they need,
and what happens otherwise is below. `PolicyStaysInForce` needs no such
condition.

| run | instance | shows |
|---|---|---|
| `policy_lifecycle` | 2 calls, the default and 3 versions, 6 activations | `OneActive`, `RollbackUndoes`, `PolicyStaysInForce` |

Bounds. Three versions and the default let a rollback choose among several retired
ones; six activations let each come into force and be rolled back to. Two calls
are what an overlap needs. Proposed versions and calls are interchangeable. The
system may stop when the activations are used up, so deadlock checking is off.

Observed, no run of its own: two activations that overlap both retire the version
they found and leave two active (`policy.py:254`), which nothing repairs later, since
each activation retires one row; `policy.py:162` says "propose (validated draft) ->
activate (audited) -> retire". And the default that
`active_policy` creates has no activation time and comes first among the retired
versions in PostgreSQL's descending order, so that rollback prefers it to the
previous version (`policy.py:283`); `RollbackUndoes` excepts that case.

## 6. Audit chain

`AuditChain` has the transactions that append records and the calls that anchor
and verify.

| action | code (`audit.py`) |
|---|---|
| `TakeLock` | `pg_advisory_xact_lock` (75-76); nothing on SQLite |
| `ReadHead`, `Insert` | under `_append_lock`: predecessor, hash, insertion (77-89) |
| `Commit`, `RollBack` | the caller's commit; the constraint, a timeout, an exception or a crash |
| `TakeHead`, `Stamp`, `Write` | `anchor_chain` (129-147): the head, the clock, the file |
| `ReadRows`, `Compare` | `verify_anchors` (160-205): the rows, then the file |
| `Edit`, `Recompute` | somebody changes a row, or a row and every hash that covers it, outside the program |

A hash is the sequence of all contents it covers, which is what a hash without
collisions amounts to; the head's hash is then the whole log, and `HistoryGrows`
says that it is only added to. A second transaction that has inserted makes an
insertion wait, on SQLite because there is one writer and on PostgreSQL because of
the unique constraint, and the constraint then refuses it (`Taken`). `RollBack`
also stands for SQLite's busy timeout, which ends the wait of a writer that holds
`_append_lock` while the one it waits for wants to append again. `dialect` is
chosen in the initial state and never changes.

| run | instance | shows |
|---|---|---|
| `audit_chain` | either database, 3 writers in 2 processes, 3 records, 2 calls that anchor, 1 that verifies, one edit | `VerifiesUnlessEdited`, `NobodyLosesTheRace`, `OnlyNewAnchorsAreMissed`, `RecomputedChainsAreCaught`, `HistoryGrows` |

Bounds. Three writers let two race in one process and one in another; three records
let a transaction append twice and another in between or after; two anchors are what
an order needs. Insertions (`MaxRecords`) and anchors (`MaxAnchors`) run out, so
deadlock checking is off.

Observed, no run of its own: `anchor_chain` writes without a lock, so lines can reach the file in another
order than their heads and times, and `verify_anchors` refuses them for good
(`audit.py:145`, 186-189), while `beta/docs/OPERATIONS.md:63` wants every anchored
head to match. And `verify_anchors` reads the rows
before the file, so an anchor made in between is reported as a rewritten chain.
`OnlyNewAnchorsAreMissed` says that this is the only genuine anchor it misses.
`RecomputedChainsAreCaught` needs both verifications: with an append under way while
the chain is recomputed, the anchored head may still be there and only
`verify_chain` notices.

## 7. Delivery

`SyncDelivery` extends `ConnectorSync` with the other side: a collector that scans
an Entra directory and sends what it reads as a snapshot, and the network between.
Its actions use `ConnectorSync`'s for the handler, so the two are one system.

| action | code (`connectors/`) |
|---|---|
| `BeginRun` | `collect_snapshot` up to its first message (`sdk.py:41-48`) |
| `ReadUsers`, `ReadGroups`, `ReadMembers` | `EntraConnector.snapshot` (`entra.py:83-124`), each with the page `collect_snapshot` makes of it (`sdk.py:49-52`) |
| `ScanFails` | the scan contradicts itself (`entra.py:120`) or a request fails (50-76) |
| `CompleteRun` | the generator is exhausted (`sdk.py:53`) |
| `AbortRun` | what `sdk.py:38` asks of the caller, as in `src/sandbox/sync.py:29-31` |
| `Send`, `Arrive`, `Unanswered` | `SyncClient.send` and its attempts (`client.py:44-79`) |
| `Read`, `Write`, `Answer`, `Reject`, `HandlerDies` | `apply_message` and its handler (`sync.py:143-224`, `api.py:417-427`) |
| `AnswerFromReceipt` | a number that has a receipt (`sync.py:150-155`) |
| `CollectorDies` | the collector's process ends, and starts again as in `src/sandbox/sync.py:26-33` |
| `ChangeDirectory` | external: the directory |

The repository has one loop around these parts, `src/sandbox/sync.py:16-35`: it reads
the acknowledged number, aborts what is open, scans and applies, in one process with
a database session and one transaction for a source. The collector modelled is the
one over the network, which the repository has in parts (`SyncClient`,
`collect_snapshot`) whose docstrings say what their caller must do: keep the
acknowledged number, retain a message until it is acknowledged, abort what was
interrupted (`client.py:10`, `sdk.py:36-39`). Each commit of its own is the harder
case: the loop's transaction leaves nothing of an interrupted run behind. `notes` is what such a caller keeps, `scan` and `call` what it loses
when it dies. `scanned` and `outdated` are history.

`PublishedIsOneRun` says that what is published is what one run read, whole.
`AnUndisturbedRunIsExact` goes from end to end: unless the directory changed since
the run began, the published facts are the directory. If it changed, a run may be a
mixture of two states, and `MembershipsHaveEnds` says what the check at
`entra.py:120` achieves: never a membership without its ends.
`OnlyTheRetainedIsInDoubt` is why a retry is safe: the server is where the collector
believes it is, or one message further, and that message is the one retained.

`CollectorsProgress`: from any state with a retained message or an open run, a state
with neither is reached. It assumes weak fairness of three processes, not of single
steps: the collector goes on with what it has begun (`GoOn`), the network carries
what it does not lose (`Carry`), each handler runs (`Handle`). It does not assume that
a run succeeds or that a new one begins: those are the operator's. Failures are
bounded (`MaxFaults`): without a bound a network may lose everything.

| run | instance | shows |
|---|---|---|
| `sync_delivery` | a user, a group, a membership, 2 runs, 2 handlers, 1 change, 2 failures | the five properties above and `CollectorsProgress` |

Bounds. Two attempts of a call instead of four: the third and fourth differ from the
second in nothing but a pause. Two failures let an answer be lost and the collector
die with the message in doubt, or a late handler race the retry. One change is what
a mixture needs. Two runs let the second one follow an interrupted one. The
directory begins as a group without members. Names run out after two runs, so
deadlock checking is off.

Left out: `check_connection` and coverage; pages, since each listing is read at one
instant; waiting times. Entra's group kinds other than user and group are never
sent.

## 8. Brokered execution

`BrokeredExecution` follows one request from the policy's decision to the end of its
job, against a clock. Requests do not meet in this part of the code: each has its
own grant, its own vault entry and its own job.

| action | code |
|---|---|
| `Decide` | `policy.evaluate` and `_rule_matches` (`policy.py:290-336`), the grant's lifetime (`broker.py:158-164`) |
| `IssueCredentials` | the mock provider, or AssumeRole (`broker.py:68-137`) |
| `IssueNothing` | a refusal before AssumeRole is called (102-118), or an exception of AssumeRole itself (128) |
| `StampGrant` | the second reading of the clock, the comparison, the vault (170-193) |
| `Disclose`, `CommitGrant` | `scoped_context`'s check (`gateway.py:280`, `objects.py:43`), the running commit (284-287) |
| `Revoke` | `revoke_grant`, in this process or in another with a vault of its own (219-223) |
| `Validate`, `Fetch` | `validate_grant` and `fetch_credentials` in `actions.execute` (230-237) |
| `Direct` | a low-risk or native read (239-249, 264) |
| `JobUses`, `JobGoesOn` | the child or the container (`runner.py:30-46`, `runner_worker.py`): it answers and is still there, and ends, before or after that |
| `Settle`, `TimeOut` | the wait and what is accepted (`runner.py:78-101`, `container_runner.py:60-81`) |
| `Join`; `KillClient`, `Remove` | the two clean-ups (`runner.py:84-88`; `container_runner.py:82-88`) |

A document is any set of rules, a rule an effect, a set of conditions and a limit.
Being a set, it has no order of rules, so nothing is said of that. `Satisfied` has two
of the eight condition keys (`policy.py:97`, `101`); the other six compare one more
value with the request and are treated like a key that nobody knows, which does not
hold, as in `_rule_matches`. Expiry is compared at the granularity the
code forgives (`Slack`, a second), and the provider's clock may be off by any of
`Skews`. A job that has answered lives on until its clean-up or its own end. A
SIGTERM that is ignored and a `docker rm` that fails are both the system failing to
stop it (`resisted`). `recv_bytes` after `poll` (`runner.py:81`) is taken not to
block.

| run | instance | shows |
|---|---|---|
| `brokered_execution` | all documents over five rules, all requests, both backends, both runners, five seconds | `IssuedWithinPolicy`, `CredentialsDieWithTheGrant`, `AnsweredJobsAreStopped`, `RevocationHolds`, `RequestEnds` |

Bounds. The five rules have each effect, two allow rules that match together and
limit differently, and rules that match with and without a path, a write or an
approval. Lifetimes of one to three seconds, a minimum session of two and skews of
-1 to 2 put the provider's expiry on both sides of the grant's and of the slack. A
request that has ended stays ended, so deadlock checking is off.

`RequestEnds` assumes weak fairness of the request's thread only. Nothing is
expected of the job: `multiprocessing`'s `poll` and `Popen.wait` time out.

Observed, no run of its own:

- `AnsweredJobsAreStopped` excepts requests that end in an exception nobody catches:
  `proc.wait(5)` and `docker rm` may time out in the `finally`, the request is not
  answered, and the container may still run (`container_runner.py:85-88`).
- An exception of AssumeRole is no `GrantError` (`broker.py:128`), so nobody answers
  the request.
- A revocation in another process between `validate_grant` and `fetch_credentials`
  is not seen; `RevocationHolds` says when one is. `revoke_grant` has no caller
  under `eda`.
- `scoped_context` validates the grant outside the handler of `GrantError`
  (`gateway.py:280`): a grant that expires before it leaves the request unanswered.
- The obligations `read_only` and `controlled_runner` are recorded, and `execute`
  decides by the action's own risk.

## 9. Ingestion and the mapping of principals

`Ingestion` has the handler of relationship batches as one transaction with the
database's row locks, and `map_principal` as operators over what such batches leave.

| action | code |
|---|---|
| `Receive` | authentication, receipt, checks (`api.py:328-334`, `ingestion.py:70-111`, 165-173) |
| `LookForNode` | `_upsert_node` (114-153) |
| `LookForEdge` | the edge of a relationship (190-214) |
| `Flush` | SQLAlchemy writes what a lookup left to write, before the next query |
| `LockChain` | `audit.append` takes its lock before its own query flushes the last edge |
| `Commit` | the receipt and the commit (216-253, `api.py:340-342`) |
| `Abort`, `Die`, `Disable` | external: deadlock detection, a dead worker, an administrator |
| `MapPrincipal` | `map_principal` and the tenant of a token (`identity_providers.py:127-137`, 233-279), the bound directory, its prefix and the native id (247-252) included |

A row is written only if a value changed: a batch with the observation time the node
already has does not lock it. That is what `OneRowUnlessRaced` turns on: edges have no unique constraint, and what
keeps two overlapping batches from inserting the same edge twice is that they wait
for a node's row. Lookups choose among all rows that match, as `scalar` does. A
second row of an edge keeps what it says when a later batch corrects the other.
`Rivals` are the rows a new one may not stand beside: node rows are unique by kind and
name (`models.py:33`), whatever their external ids.

`Settings` are what an administrator configures: a fixed tenant, a directory, the
prefix of external ids and what replaces it. `map_principal` reads the node (263) and
its source (270) in two queries, which the model takes at one instant. A row keeps its
source and tenant, so all that can change for the first query before the second is
that another candidate appears; an answer that is given all the same still meets
`PrincipalsAreVouchedFor`, which asks nothing of other candidates.

| run | instance | shows |
|---|---|---|
| `ingestion` | 2 deliveries of any of 8 requests, 3 collectors of two tenants and a connector, seeded, projected and moved nodes, 3 settings | `AppliedOnce`, `OneRowUnlessRaced`, `SourcesKeepToTheirOwn`, `PrincipalsAreVouchedFor`, `EveryDeliveryEnds` |

Bounds. The requests of the first source share a key, an edge, both or neither; two
name the nodes in the other order, which is what a deadlock needs; one gives an
external id another kind; one names a node that exists twice; one names a user whose
name another row has. Two more come from another collector and from one of another
tenant, and share a key or a relationship with the first. Two deliveries are what
each race needs. `MaxAge` is zero, so that a source becomes stale within the two
seconds of the instance; `Retired`, the sources that may be disabled, has the first
collector. The settings have no directory, a collector as directory with a fixed
tenant and native ids, and the connector as directory. Tokens are of the configured
issuer, of another one and of dev sessions, of either tenant or none, with ids that
have the prefix, lack it or are nothing but it. One node's source has been moved to
another tenant since it was written, as in `beta/tests/test_foundation.py:94`. No edge
is there at the start, so no delivery waits for an edge's row, and connectors project
nothing during the run. Every delivery may have ended, so deadlock checking is off.
`EveryDeliveryEnds` assumes that handlers run and that the database looks for
deadlocks.

Observed, no run of its own:

- after such a race a batch is refused or not according to which of two nodes a
  lookup happens to return (`ingestion.py:126`, no order and no limit);
- the loser of a receipt's race and the victim of a deadlock get an exception nobody
  catches, which is a 500 to a collector that is told it can retry safely
  (`beta/docs/OPERATIONS.md:30-33`); nothing was applied, and a retry is safe;
- `map_principal` asks when the source last sent anything, not when it last named
  this user: one that a source no longer mentions does not lapse;
- `last_sync_at` and `observed_at` follow the batch that commits last, and go back if
  it is an older one.

## 10. Feedback

`Feedback` has analyzer runs and decisions as overlapping transactions, and the audit
log as far as the analyzers look at it: how often a topic was seen, which authority
was proven and which calls were made.

| action | code (`feedback.py`) |
|---|---|
| `Observe`, `Prove`, `Exercise` | audit records that the analyzers count and compare (53-58, 117-134) |
| `StartRun`, `Look`, `Propose` | `run_analyzers`: the records, each fingerprint, the insertions and the commit (47-164, `api.py:515-524`) |
| `RunDies` | the session closed without a commit |
| `ReadRecommendation`, `Decide` | `decide` (167-172; 173-187, `api.py:549-562`) |

`audit.append` takes the lock of the chain before it flushes the changed row, and the
lock is kept to the commit; so writing a decision and recording it are one action.

| run | instance | shows |
|---|---|---|
| `feedback` | 2 runs, 2 decisions, one topic in 2 tenants, 2 patterns of authority | `RecommendedOnceUnlessRaced`, `RowFollowsTheChain`, `DecidedOnceUnlessRaced` |

Bounds. Two of each are what an overlap needs; a topic in two tenants is what
fingerprints confuse; two patterns, one a wildcard, let a later run find less than an
earlier one. The threshold is two instead of three: counts below it make no
difference. Calls run out, so deadlock checking is off.

Observed, no run of its own:

- two runs that overlap propose the same finding twice, although
  `beta/docs/OPERATIONS.md:48` says "fingerprints prevent duplicate recommendations";
- two people who read the same proposal both succeed, and both are audited; the row
  agrees with the later record;
- a fingerprint names no tenant (`feedback.py:59`), so a recommendation of one
  tenant, decided or not, withholds the same one from another; unused authority is
  found over all tenants' records together and belongs to none.

## 11. Proofs

### Gateway

`GatewayProofs` proves, for any constants that satisfy the three assumptions of
`Gateway` (constants of the right kind, `None` different from what it stands in
for, requests different from decision calls):

- `TypeCorrect`: `Spec => []TypeOK`;
- `OwnershipHolds`: the inductive invariant `Owned`. `AtMostOneEffect` is not
  inductive: it says nothing of an attempt that is about to dispatch its child.
  `Staged(r)` adds, for each label of an attempt, what its execution row holds:
  before the intent is committed the row is not its own, from the grant to the
  child it is and its state moves from authorized to running, and an effect has a
  child and so a row behind it;
- `AtMostOneEffectHolds`, `IntentBeforeEffectHolds`: consequences of `Owned`;
- `SpendsWithinGrantsHolds`: by the invariant `Funded`, in which an approval that
  stands approved counts as a grant not yet spent, a locked row is approved, and
  a pending decision refers to an approval that was committed;
- `LedgerImplemented`: the initial states map to the ledger's, and each action
  maps to a step (`CommitIntent` to `Claim`, `MarkRunning` to `Begin`,
  `TakeEffect` to `Act`, `Finish` to `Succeed` or `GiveUp`, `MarkInterrupted` to
  `GiveUp` of a set) or to a stutter;
- `OutcomeHasEvidenceHolds`: by `Resolved(r)`, which counts the closing records of an
  operation: none before its row ends, exactly one afterwards, the one that says
  what the row says. An attempt without a row leaves none before it ends, and
  `finish` of an opened operation can only answer "allowed" or "error";
- `JustifiedHolds`: the inductive invariant `Justified`, in which a fact is carried
  from where it was checked to the row that rests on it: what approvals and decision
  calls are sound for (`ApprovalsSound`), what an attempt relies on between its
  lookups and its commit (`Argued`), what an execution row rests on
  (`RowJustified`). `ApprovalCoversExecutionHolds` and
  `DecisionCoversExecutionHolds` follow. An approval that was decided stays decided,
  for the same request and by the same person, which is why what an attempt saw at
  its lookup still holds when it consumes; from there to the commit of the intent
  it has the row's lock;
- `OvertakenFenced`: the temporal fence `OvertakenWritesAreFenced`, for each of its
  reasons. While a reason lasts, the check for it cannot be passed, so an attempt
  that had its decision before the checks stays among the places up to that check, or
  ends: `Held(r, upto)`. No fairness is involved.

### Connector synchronisation

`ConnectorSyncProofs` proves every property of the two passing runs for any
sources, keys, snapshot identifiers, traffic and number of deliveries, from the
assumptions of `SyncMessages` and `ConnectorSync` (constants of the right kind, no key
both an object and a relationship, a sentinel that is no snapshot, evidence or
inventory, well-formed messages). The
theorem `Invariant` establishes `IInv`, which adds to the three safety properties

- `DeliveriesHaveMessages`: a delivery under way has a source, a message and, once
  it has read, a row;
- `ReadRowsAreCurrent`: a row that a delivery read and whose sequence has not
  changed since has not changed at all. Every commit moves the sequence forward, so
  comparing the sequence alone validates the snapshot identifier read with it;
- `HoldersAreExclusive`: at most one delivery holds a connector row, and the row is
  as that delivery read it;
- `ProjectedEdgesFit`: the edges a holder is about to store fit the facts it is
  about to store, whichever nodes other sources had when they were computed;
- `FactsAreEntitled`: every stored fact is one its source may assert. It is what
  makes an end's owner the only source that can have it as a node, and with that
  a projected edge that can be walked is backed (`EvidenceFollows`).

For the edges of batches `AuthorityHolds` needs `SweepsAreFinal`, an invariant of its
own: a source that was swept, or is about to be by the delivery that holds its row,
has a manifest that no later batch gets past, no batch under way, and nothing left
but what the holder's DELETE has found.

`InventoryImplemented` maps `Commit` to the abstract action of its message's
operation and everything else to a stutter. The mapping reads `staged` from the
generation of the open snapshot; `NoOrphanGeneration` is why a new snapshot starts
with nothing staged.

### Policy lifecycle

`PolicyLifecycleProofs` proves type correctness, `OneActive`, `RollbackUndoes` and
`PolicyStaysInForce` for any versions and calls, assuming that the default is a
version and `None` is not. `OneActive` and `RollbackUndoes` follow from
`~overlapped => IInv`, which is inductive because a step that leaves `overlapped`
false leaves one call at most under way (`StepSerial`). `IInv` adds
`CallsAreCurrent` (what a call has read still holds, since nobody else changed
anything) and `TimesOrderVersions`: retired versions were
activated before the active one, and all but the former one before the former
one. That is why the newest activation time among the retired versions is the
previous version's.

### Delivery

`SyncDeliveryProofs` composes: it uses the theorems of `ConnectorSyncProofs` for the
handler and adds what relates collectors to it. Its one hypothesis beyond the
assumptions of the modules is `TrafficSuffices`: the set of messages the server is
modelled over contains what collectors say, under any number. (An instance bounds
the numbers; the run covers that.) The invariant `DInv` adds to `IInv`

- `InStep`: the server is where the collector believes it is, or one message further,
  the one retained, which then has a receipt. It is `OnlyTheRetainedIsInDoubt` and
  the open run that follows from that message;
- `NoneIsAhead`: handlers that still run, also those nobody waits for, have the
  retained message or an older one. It is what makes `InStep` inductive: whatever
  takes effect is the next message of its source, so it is the retained one;
- `LinesHold`: the handler a client waits for has that client's message, so a commit
  acknowledges what took effect.

`DeliveryImplementsSync` shows that every behaviour of the composition is one of
`ConnectorSync`, so that `AuthorityHolds`, `GraphHolds` and the other theorems, proved
for messages nobody constrains, hold of it; `DeliveryImplementsInventory` follows.

The other three properties relate what a run has read to messages sent long before,
and need a history that the server does not keep:

- `PublishedHolds` is by `RunInv`: a collector speaks of the run it has under way and
  ends it when nothing is being read (`InOrder`); no two runs have one name, and a
  completed run reads nothing more (`NamesApart`); what the server has staged,
  together with a page that may not have arrived, is what the run has read
  (`StagedIsRead`). So the message that completes a run promotes all of it, once;
- `MembershipsHold` is by `RunsHaveEnds`: at each moment of a run what it has read is
  closed under membership, because a scan accepts members only among the users and
  groups it has already said (`ListedIsSaid`). It does not matter what the directory
  did meanwhile;
- `UndisturbedHolds` is by `RunsAreTrue`: as long as the directory has not changed, what
  a scan has kept is the part of the directory it has come to (`ReadTruly`), and when
  it has come to all of it, that is the directory.

They need that the two listings are not named like a group (`DirectoryAssumption`),
since a scan notes listings and groups in one set.

### Audit chain

`AuditChainProofs` proves the five properties of the run for both dialects and any
numbers of writers, verifiers and anchorers. `IInv` says of every set of rows that a
transaction can see (the committed ones, with or without its own) that its numbers
are in the order of commit, that each row follows the one before it and, until
somebody edits, that contents and hashes agree. A fork is excluded in two ways: on
PostgreSQL one transaction at a time is past its lock, and its head is the longest
(`LengthsRise`); on SQLite the insertion takes the database's lock, and a hash read
before it may be an old one, which the unique constraint refuses (`HeadsAreRead`).
`AnchorsKept` and `SnapshotsKept` say what files and verifiers hold: hashes of rows
that are still there.

### Brokered execution

`BrokeredExecutionProofs` proves types and the four safety properties for any
documents, requests, lifetimes and clock skews. `IInv` has one part for each:
`AskedWithinPolicy` (the lifetime that was computed stays permitted while it is
used), `DiesInTime` (what is in the vault, or has been taken out of it, expires with
its grant), `JobIsWatched` (a job that is alive, also one that has answered, has a request that will still try to stop
it, or one that tried and failed), `RevocationIsSeen` (a revocation that came in time
has emptied the vault or will be met by `validate_grant`).

### Ingestion

`IngestionProofs` proves the four safety properties of the run, and types, for any
sources, nodes, batches and deliveries. `AppliedOnceHolds` follows from `ReceiptsTell`:
whoever applied a batch with a key is named by its receipt, and whoever was told of
one was told that. `PrincipalsHold` follows from `Vouched`, which needs `IInv`: the
time of a source's last observation is that of a batch it applied, and a node with a
source was there at the start or written by such a batch. That the row and its source
are of the token's tenant, and the source the bound directory if there is one, is
what `MapPrincipal` asks of both, under any settings.

`SourcesHold` is by `Ownership`, which follows a transaction through its batch. No two
transactions under way have written one row (`Locked`). `Proper` says of each of them
that the nodes of the items behind it are its source's, as it sees them (`Settled`);
that whatever it has written is of its source, and was if it was there (`OwnRows`);
and what it is about to write (`NextRow`). That makes an edge it finds its source's
too (`FoundEdgeIsOwn`): the edge has the source of its nodes, and those it has just
looked up. A commit of another transaction disturbs none of this, because it changes
no row's source and no row that is locked (`ProperLater`, `CommitGrows`).

`OneRowHolds` is by `Races`: whatever transactions have brought the same relationship,
or two nodes of one external id, have met, and did not see each other's. `EdgesNew`
is the part that rests on row locks: two that have written a node of the
relationship did so one after the other, and the later one looks for the edge after
it has written the node, so it finds the edge.

Both use `NamesAssumption`: nodes and edges are rows of different tables, a node is
its kind, external id and name, and what a source without a manifest has in the
graph came by ingestion, which names a node by its external id
(`ingestion.py:133`). Without it a lookup by external id could return another node
of the source than the one the batch names.

### Feedback

`FeedbackProofs` proves types and the three properties for any runs, people, tenants
and patterns. Both properties about races rest on who has met whom: `RunsOverlap`
says that runs under way at one time have met, and that a recommendation which a run
will add although it exists is of a run it has met; `DecidersMeet` says the same of
people who decide. `LastDecides` names the record a row agrees with.

## 12. What is only model-checked

- Liveness: `AttemptsEnd`, `CollectorsProgress`, `RequestEnds` and `EveryDeliveryEnds`
  rest on fairness, which is beyond the proof system's backends.
- `ApprovalSpentOnce` is the claim that `gateway_spent_twice` refutes.

Every other property of a run is a theorem.

## 13. What is not modelled

- `access_graph.resolve_path` and `capability_path`, and the disclosure rules of
  `objects.py`: one bounded traversal and one filter of rows that a transaction reads.
  The models say which edges count (`Usable`) and what their loss does to a request;
  the traversal is a sequential function without state.
- `register_source`, and edits of a source other than disabling it: single statements
  of an administrator.
- The collectors for AWS, PostgreSQL, Okta and directory exports: they page through an
  interface and translate records. What a scan must be (one run, closed under
  membership) is modelled for Entra, the only one that checks it.
- Verification of tokens and signatures, request parsing, validation of policy
  drafts, metrics: cryptography and formats.
- Migrations, infrastructure, deployment, the sandbox and the demonstration:
  configuration and scripts.
