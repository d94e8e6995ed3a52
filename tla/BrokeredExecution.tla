-------------------------- MODULE BrokeredExecution --------------------------
(***************************************************************************)
(* What becomes of one request after its path and approval are known: the  *)
(* policy decides (policy.py), the broker turns the decision into a grant  *)
(* with credentials in the vault (broker.py), and the action layer checks  *)
(* the grant, takes the credentials and hands them to a job, a child       *)
(* process or a container (actions.py, runner.py, container_runner.py).    *)
(* Requests do not meet here: each has its own grant and its own job.      *)
(*                                                                         *)
(* Time passes between any two steps.  Once the grant is committed anybody *)
(* may revoke it, in this process or in another one.  Jobs hang, die and   *)
(* resist being stopped.  The provider, which is not under src/, refuses   *)
(* credentials after their expiry.                                         *)
(***************************************************************************)
EXTENDS Integers

CONSTANTS
    Documents,    \* policy documents, each a set of rules
    Asks,         \* what the policy is told of a request
    Skews,        \* how far the provider's expiry may be from the one asked for
    DefaultTtl,   \* grant_default_ttl_seconds
    MinSession,   \* the shortest session AWS grants
    Slack,        \* what issue_grant forgives, one second
    MaxClock      \* bound: the time at which an instance stops looking

Never == -1   \* no time

Input == [access_path_exists : BOOLEAN, action_read_only : BOOLEAN,
          approval_present : BOOLEAN, high_risk : BOOLEAN]
Rule == [effect : {"deny", "require_approval", "allow"},
         when : SUBSET (STRING \X BOOLEAN), max_ttl : Nat]

ASSUME BrokerAssumption ==
    /\ Documents \subseteq SUBSET Rule
    /\ Asks \subseteq Input
    /\ Skews \subseteq Int /\ 0 \in Skews
    /\ {DefaultTtl, MinSession, Slack, MaxClock} \subseteq Nat

VARIABLES
    setup,    \* the document in force, what is asked, and the configuration
    clock,    \* seconds
    pc,       \* where the request is
    grant,    \* the grant and what became of it
    vault,    \* whether the vault of this process holds the credentials
    job,      \* the child process or container
    resisted, \* whether it could not be stopped (history)
    outcome   \* how the request ended

vars == <<setup, clock, pc, grant, vault, job, resisted, outcome>>

Setups == [document : Documents, ask : Asks, action : {"mock", "aws"}]
Grant == [ttl : Nat, provider : Int, expires : Int, committed : BOOLEAN,
          revoked : BOOLEAN, seen : BOOLEAN, lapsed : BOOLEAN,
          released : Int, used : Int]
NoGrant == [ttl |-> 0, provider |-> Never, expires |-> Never, committed |-> FALSE,
            revoked |-> FALSE, seen |-> FALSE, lapsed |-> FALSE,
            released |-> Never, used |-> Never]

Steps == {"decide", "issue", "stamp", "disclose", "commit", "validate", "fetch",
          "direct", "process", "container", "join", "kill", "remove", "ended"}

ask == setup.ask
Ended(o) == pc' = "ended" /\ outcome' = o

Init ==
    /\ setup \in Setups
    /\ clock = 0 /\ pc = "decide" /\ grant = NoGrant /\ vault = FALSE
    /\ job = "none" /\ resisted = FALSE /\ outcome = "none"

-----------------------------------------------------------------------------
(* policy.evaluate *)

\* A condition nobody knows does not hold.
Satisfied(c) == c[1] \in {"access_path_exists", "action_read_only"} /\ ask[c[1]] = c[2]
Matched == {r \in setup.document : \A c \in r.when : Satisfied(c)}
With(effect) == {r \in Matched : r.effect = effect}

\* Variant: an allow rule is enough.
EvaluateAllowFirst ==
    IF With("allow") # {} THEN "allowed"
    ELSE IF With("deny") # {} THEN "denied"
    ELSE IF With("require_approval") # {} THEN "approval_required" ELSE "denied"

Evaluate ==
    IF With("deny") # {} THEN "denied"
    ELSE IF With("require_approval") # {} /\ ~ask.approval_present THEN "approval_required"
    ELSE IF With("allow") # {} THEN "allowed" ELSE "denied"

\* The lifetime of the grant: the default, and no longer than any max_ttl_seconds
\* among the obligations of the matched allow rules (0 is an allow without one).
Limits == {DefaultTtl} \cup {r.max_ttl : r \in {x \in With("allow") : x.max_ttl > 0}}
Shortest(ttl) == \A limit \in Limits : ttl <= limit

Decide ==
    /\ pc = "decide"
    /\ IF Evaluate = "allowed"
       THEN /\ pc' = "issue" /\ UNCHANGED outcome
            /\ \E ttl \in Limits : Shortest(ttl) /\ grant' = [grant EXCEPT !.ttl = ttl]
       ELSE Ended(Evaluate) /\ UNCHANGED grant
    /\ UNCHANGED <<setup, clock, vault, job, resisted>>

-----------------------------------------------------------------------------
(* broker.issue_grant *)

\* AssumeRole refuses short sessions, and anything but the declared reads.
Issuable == setup.action = "aws" => grant.ttl >= MinSession /\ ask.action_read_only

\* The provider is called, and says when its credentials expire.
IssueCredentials ==
    /\ pc = "issue" /\ Issuable
    /\ \E skew \in IF setup.action = "aws" THEN Skews ELSE {0} :
         grant' = [grant EXCEPT !.provider = clock + grant.ttl + skew]
    /\ pc' = "stamp"
    /\ UNCHANGED <<setup, clock, vault, job, resisted, outcome>>

\* No credentials are asked for, or AssumeRole raises an error of its own, which
\* nobody catches.
IssueNothing ==
    /\ pc = "issue"
    /\ \/ ~Issuable /\ Ended("refused")
       \/ Issuable /\ setup.action = "aws" /\ Ended("unanswered")
    /\ UNCHANGED <<setup, clock, grant, vault, job, resisted>>

\* Variant: the provider's expiry is taken as it is.
OutlivesNever == FALSE
Outlives == grant.provider > clock + grant.ttl + Slack

\* The grant's own expiry counts from a later reading of the clock, and
\* credentials that would outlive it are dropped.
StampGrant ==
    /\ pc = "stamp"
    /\ grant' = [grant EXCEPT !.expires = clock + grant.ttl]
    /\ IF Outlives THEN Ended("refused") /\ UNCHANGED vault
       ELSE pc' = "disclose" /\ vault' = TRUE /\ UNCHANGED outcome
    /\ UNCHANGED <<setup, clock, job, resisted>>

Live == clock <= grant.expires

\* scoped_context validates the grant for itself; nobody catches its refusal.
Disclose ==
    /\ pc = "disclose"
    /\ IF Live THEN pc' = (IF ask.action_read_only THEN "validate" ELSE "commit")
                    /\ UNCHANGED outcome
       ELSE Ended("unanswered")
    /\ UNCHANGED <<setup, clock, grant, vault, job, resisted>>

\* A write commits that it is running, and its grant with it.
CommitGrant ==
    /\ pc = "commit"
    /\ grant' = [grant EXCEPT !.committed = TRUE]
    /\ pc' = "validate"
    /\ UNCHANGED <<setup, clock, vault, job, resisted, outcome>>

\* Variant: the row is marked and the vault forgotten.
RevokeRowOnly(here) ==
    /\ grant.committed /\ ~grant.revoked
    /\ grant' = [grant EXCEPT !.revoked = TRUE, !.lapsed = here \/ pc = "validate"]
    /\ UNCHANGED vault
    /\ UNCHANGED <<setup, clock, pc, job, resisted, outcome>>

\* revoke_grant, by a caller in this process or in one with another vault.
\* `lapsed` notes that it came in time: before the request has read the row, or
\* in its own process.
Revoke(here) ==
    /\ grant.committed /\ ~grant.revoked
    /\ grant' = [grant EXCEPT !.revoked = TRUE, !.lapsed = here \/ pc = "validate"]
    /\ vault' = (vault /\ ~here)
    /\ UNCHANGED <<setup, clock, pc, job, resisted, outcome>>

-----------------------------------------------------------------------------
(* actions.execute *)

\* The backend, then the grant, whose row a write has to read again.
Validate ==
    /\ pc = "validate"
    /\ grant' = [grant EXCEPT !.seen = grant.revoked]
    /\ IF (setup.action = "aws" => ask.action_read_only) /\ ~grant.revoked /\ Live
       THEN pc' = "fetch" /\ UNCHANGED outcome
       ELSE Ended("refused")
    /\ UNCHANGED <<setup, clock, vault, job, resisted>>

Controlled == ask.high_risk \/ ~ask.action_read_only

\* fetch_credentials looks at the row as it was read, and the vault at the
\* provider's expiry; what has expired is deleted.  runner_backend says where a
\* controlled job runs.
Fetch ==
    /\ pc = "fetch"
    /\ IF vault /\ ~grant.seen /\ clock <= grant.provider
       THEN /\ grant' = [grant EXCEPT !.released = clock]
            /\ IF setup.action # "aws" /\ Controlled
               THEN pc' \in {"process", "container"} /\ job' = "running"
               ELSE pc' = "direct" /\ UNCHANGED job
            /\ UNCHANGED <<vault, outcome>>
       ELSE /\ Ended("refused")
            /\ vault' = (vault /\ clock <= grant.provider)
            /\ UNCHANGED <<grant, job>>
    /\ UNCHANGED <<setup, clock, resisted>>

Accepted == clock <= grant.provider   \* the provider's own check

\* A low-risk read runs in the request's thread.
Direct ==
    /\ pc = "direct"
    /\ IF Accepted THEN grant' = [grant EXCEPT !.used = clock] /\ Ended("done")
       ELSE UNCHANGED grant /\ Ended("failed")
    /\ UNCHANGED <<setup, clock, vault, job, resisted>>

\* The handler in the job calls the provider.
JobUses ==
    /\ job = "running" /\ Accepted
    /\ grant' = [grant EXCEPT !.used = clock]
    /\ UNCHANGED <<setup, clock, pc, vault, job, resisted, outcome>>

\* The job answers, and is still there; it ends, before or after that.
JobGoesOn ==
    /\ \/ job = "running" /\ job' \in {"answering", "dead"}
       \/ job = "answering" /\ job' = "answered"
    /\ UNCHANGED <<setup, clock, pc, grant, vault, resisted, outcome>>

Alive == job \in {"running", "answering"}
Stopped == IF job = "answering" THEN "answered" ELSE "dead"

\* A process is waited for until it answers or ends, a container's client until
\* it ends.
Waiting == pc \in {"process", "container"}
Pending == job = "running" \/ (pc = "container" /\ job = "answering")
CleanUp(o) ==
    /\ pc' = (IF pc = "process" THEN "join" ELSE "kill") /\ outcome' = o
    /\ UNCHANGED <<setup, clock, grant, vault, job, resisted>>

\* run_controlled, run_container: an acceptable answer, or a RunnerError: an
\* oversized or failed one, credentials in it, or none at all.
Settle ==
    /\ Waiting /\ ~Pending
    /\ \E o \in {"done", "failed"} : (o = "done" => job # "dead") /\ CleanUp(o)

\* Variant: the wait has no limit.
TimeOutNever == Waiting /\ job = "answered" /\ CleanUp("failed")
TimeOut == Waiting /\ Pending /\ CleanUp("failed")

\* The attempt to stop the job, which the system may fail to do.
Stop ==
    /\ pc' = "ended"
    /\ job' \in {job, IF Alive THEN Stopped ELSE job}
    /\ resisted' = (Alive /\ job' = job)
    /\ UNCHANGED outcome

\* The process is terminated and joined for five seconds.
Join == pc = "join" /\ Stop /\ UNCHANGED <<setup, clock, grant, vault>>

\* Of a container, the client is killed; waiting for it may raise.
KillClient ==
    /\ pc = "kill"
    /\ (pc' = "remove" /\ UNCHANGED outcome) \/ Ended("unanswered")
    /\ UNCHANGED <<setup, clock, grant, vault, job, resisted>>

\* Variant: the client is all there is to stop.
RemoveNothing ==
    pc = "remove" /\ pc' = "ended" /\ UNCHANGED <<setup, clock, grant, vault, job, resisted, outcome>>

\* docker rm -f: it works, fails unnoticed (check=False) or times out.
Remove ==
    /\ pc = "remove"
    /\ Stop \/ (Ended("unanswered") /\ UNCHANGED <<job, resisted>>)
    /\ UNCHANGED <<setup, clock, grant, vault>>

Tick ==
    /\ clock < MaxClock
    /\ clock' = clock + 1
    /\ UNCHANGED <<setup, pc, grant, vault, job, resisted, outcome>>

Request ==
    \/ Decide \/ IssueCredentials \/ IssueNothing \/ StampGrant \/ Disclose \/ CommitGrant
    \/ Validate \/ Fetch \/ Direct \/ Settle \/ TimeOut \/ Join \/ KillClient \/ Remove

Next == Request \/ (\E here \in BOOLEAN : Revoke(here)) \/ JobUses \/ JobGoesOn \/ Tick

Spec == Init /\ [][Next]_vars

\* The thread of the request goes on.  Nothing is expected of the job.
FairSpec == Spec /\ WF_vars(Request)

-----------------------------------------------------------------------------
(* Properties *)

TypeOK ==
    /\ setup \in Setups /\ clock \in Nat /\ pc \in Steps
    /\ grant \in Grant /\ vault \in BOOLEAN
    /\ job \in {"none", "running", "answering", "answered", "dead"} /\ resisted \in BOOLEAN
    /\ outcome \in {"none", "denied", "approval_required", "refused", "unanswered",
                    "done", "failed"}

\* Credentials exist only for what the whole document allows, whatever else is
\* in it: no deny rule that holds, no approval missing, and a lifetime within
\* every matching limit (policy.py:301, broker.py:167).
IssuedWithinPolicy ==
    grant.provider # Never =>
        /\ \E r \in setup.document : r.effect = "allow" /\ \A c \in r.when : Satisfied(c)
        /\ \A r \in setup.document : (\A c \in r.when : Satisfied(c)) =>
             /\ r.effect # "deny"
             /\ r.effect = "require_approval" => ask.approval_present
             /\ r.effect = "allow" /\ r.max_ttl > 0 => grant.ttl <= r.max_ttl

\* Nothing is done with credentials after the grant's expiry, but for the
\* forgiven second: not released, and not used by a job that was given them in
\* time, hangs, and goes on after its request has ended (broker.py:10, 180).
CredentialsDieWithTheGrant ==
    grant.released # Never =>
        /\ grant.released <= grant.expires + Slack
        /\ grant.used <= grant.expires + Slack

\* A revocation keeps credentials from being released if it comes before the
\* grant is validated, and in the vault's own process also between that and
\* the release, although the row is not read again (broker.py:224).
RevocationHolds ==
    [][grant.lapsed /\ grant.released = Never => grant'.released = Never]_vars

\* A request that is answered leaves no job behind, not even one that has answered
\* in its turn, unless the operating system or the container runtime failed to stop
\* it (OPERATIONS.md:97).
AnsweredJobsAreStopped ==
    pc = "ended" /\ outcome # "unanswered" /\ ~resisted => ~Alive

\* Every request ends, also with a job that never answers.
RequestEnds == <>(pc = "ended")
=============================================================================
