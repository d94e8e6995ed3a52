---------------------- MODULE BrokeredExecutionProofs ----------------------
(***************************************************************************)
(* Proofs about BrokeredExecution, for any policy documents, requests and  *)
(* lifetimes, and however far the provider's clock is off.                 *)
(***************************************************************************)
EXTENDS BrokeredExecution, TLAPS

-----------------------------------------------------------------------------
(* The inductive invariant *)

\* Where the request has not put its credentials into the vault, has not got
\* them out of it, and has not committed its grant.
BeforeStamp == {"decide", "issue", "stamp"}
BeforeRelease == {"decide", "issue", "stamp", "disclose", "commit", "validate", "fetch"}
BeforeCommit == {"decide", "issue", "stamp", "disclose", "commit"}

Unreleased == grant.released = Never /\ grant.used = Never /\ job = "none"

\* What a grant with this lifetime needs of the policy.
Permitted(ttl) ==
    /\ \E r \in setup.document : r.effect = "allow" /\ \A c \in r.when : Satisfied(c)
    /\ \A r \in setup.document : (\A c \in r.when : Satisfied(c)) =>
         /\ r.effect # "deny"
         /\ r.effect = "require_approval" => ask.approval_present
         /\ r.effect = "allow" /\ r.max_ttl > 0 => ttl <= r.max_ttl

\* The request is allowed from the moment it leaves the policy.
AskedWithinPolicy == pc = "issue" \/ grant.provider # Never => Permitted(grant.ttl)

\* Credentials are in the vault only if they die with the grant, and what is
\* done with them is done while the provider takes them.
DiesInTime ==
    /\ pc \in BeforeStamp => vault = FALSE
    /\ pc \in BeforeRelease => Unreleased
    /\ vault => grant.provider <= grant.expires + Slack
    /\ grant.released = Never => job = "none" /\ pc # "direct" /\ grant.used = Never
    /\ grant.released # Never =>
         /\ grant.provider <= grant.expires + Slack
         /\ grant.released <= grant.provider /\ grant.used <= grant.provider

\* A running job has a request that will try to stop it, or has tried.
JobIsWatched ==
    /\ pc = "direct" => job = "none"
    /\ Alive =>
         \/ pc \in {"process", "container", "join", "kill", "remove"}
         \/ pc = "ended" /\ (outcome = "unanswered" \/ resisted)

\* A revocation that came in time has emptied the vault, or will be seen.
RevocationIsSeen ==
    /\ pc \in BeforeCommit => ~grant.committed
    /\ grant.lapsed => grant.committed /\ grant.revoked
    /\ grant.lapsed => vault = FALSE \/ pc = "validate" \/ pc \notin BeforeRelease

IInv ==
    /\ TypeOK
    /\ AskedWithinPolicy
    /\ DiesInTime
    /\ JobIsWatched
    /\ RevocationIsSeen

-----------------------------------------------------------------------------
(* Types *)

LEMMA LimitsAreLifetimes ==
    ASSUME setup \in Setups
    PROVE  Limits \subseteq Nat
<1>1. setup.document \subseteq Rule
    BY BrokerAssumption DEF Setups
<1>2. QED
    BY <1>1, BrokerAssumption DEF Limits, With, Matched, Rule

\* The records of grants that the actions build.
LEMMA GrantTypes ==
    ASSUME NEW g \in Grant
    PROVE  /\ \A n \in Nat : [g EXCEPT !.ttl = n] \in Grant
           /\ \A n \in Int : [g EXCEPT !.provider = n] \in Grant
           /\ \A n \in Int : [g EXCEPT !.expires = n] \in Grant
           /\ [g EXCEPT !.committed = TRUE] \in Grant
           /\ \A b \in BOOLEAN : [g EXCEPT !.revoked = TRUE, !.lapsed = b] \in Grant
           /\ \A b \in BOOLEAN : [g EXCEPT !.seen = b] \in Grant
           /\ \A n \in Int : [g EXCEPT !.released = n] \in Grant
           /\ \A n \in Int : [g EXCEPT !.used = n] \in Grant
BY DEF Grant

\* Their fields.
LEMMA GrantFields ==
    ASSUME NEW g \in Grant
    PROVE  /\ g.ttl \in Nat /\ g.provider \in Int /\ g.expires \in Int
           /\ g.released \in Int /\ g.used \in Int
           /\ g.committed \in BOOLEAN /\ g.revoked \in BOOLEAN
           /\ g.seen \in BOOLEAN /\ g.lapsed \in BOOLEAN
BY DEF Grant

LEMMA InitIInv == Init => IInv
<1> SUFFICES ASSUME Init PROVE IInv
    OBVIOUS
<1>1. NoGrant \in Grant
    BY DEF NoGrant, Grant, Never
<1>2. TypeOK
    BY <1>1 DEF Init, TypeOK, Steps
<1>3. QED
    BY <1>2 DEF Init, IInv, AskedWithinPolicy, DiesInTime, JobIsWatched, Alive, RevocationIsSeen,
                Unreleased, NoGrant, BeforeRelease, BeforeCommit

-----------------------------------------------------------------------------
(* One lemma per action *)

LEMMA DecideStep == IInv /\ Decide => IInv'
<1> SUFFICES ASSUME IInv, Decide PROVE IInv'
    OBVIOUS
<1>1. grant \in Grant /\ setup \in Setups /\ clock \in Nat /\ vault \in BOOLEAN
    BY DEF IInv, TypeOK
<1>2. TypeOK'
  <2>1. grant' \in Grant
    <3>1. CASE Evaluate = "allowed"
      <4>1. PICK ttl \in Limits : grant' = [grant EXCEPT !.ttl = ttl]
        BY <3>1 DEF Decide
      <4>2. ttl \in Nat
        BY <1>1, <4>1, LimitsAreLifetimes
      <4>3. QED
        BY <1>1, <4>1, <4>2 DEF Grant
    <3>2. CASE Evaluate # "allowed"
      BY <1>1, <3>2 DEF Decide
    <3>3. QED
      BY <3>1, <3>2
  <2>2. vault' \in BOOLEAN /\ resisted' \in BOOLEAN
    BY DEF IInv, TypeOK, Decide
  <2>3. setup' \in Setups /\ clock' \in Nat /\ pc' \in Steps
    BY <1>1 DEF IInv, TypeOK, Decide, Ended, Steps
  <2>4. outcome' \in {"none", "denied", "approval_required", "refused", "unanswered",
                      "done", "failed"}
        /\ job' = job
    BY DEF IInv, TypeOK, Decide, Ended, Evaluate
  <2>5. QED
    BY <2>1, <2>2, <2>3, <2>4 DEF IInv, TypeOK
<1>3. AskedWithinPolicy'
  <2>1. CASE Evaluate = "allowed"
    <3>1. PICK ttl \in Limits : Shortest(ttl) /\ grant' = [grant EXCEPT !.ttl = ttl]
      BY <2>1 DEF Decide
    <3>2. setup.document \subseteq Rule
      BY <1>1, BrokerAssumption DEF Setups
    <3>3. With("deny") = {} /\ With("allow") # {}
          /\ (With("require_approval") = {} \/ ask.approval_present)
      BY <2>1 DEF Evaluate
    <3>4. Permitted(ttl)
      BY <3>1, <3>2, <3>3 DEF Permitted, With, Matched, Shortest, Limits
    <3>5. grant'.ttl = ttl /\ setup' = setup
      BY <1>1, <3>1 DEF Decide, Grant
    <3>6. QED
      BY <3>4, <3>5 DEF AskedWithinPolicy, Permitted, Satisfied, ask
  <2>2. CASE Evaluate # "allowed"
    BY <2>2 DEF IInv, AskedWithinPolicy, Permitted, Satisfied, ask, Decide, Ended
  <2>3. QED
    BY <2>1, <2>2
<1>4. DiesInTime'
    BY <1>1, GrantFields, BrokerAssumption DEF IInv, DiesInTime, Decide, Ended, Unreleased, BeforeStamp, BeforeRelease, Grant, Never
<1>5. JobIsWatched'
    BY <1>1 DEF IInv, TypeOK, DiesInTime, JobIsWatched, Alive, Decide, Ended, Unreleased, BeforeStamp, BeforeRelease
<1>6. RevocationIsSeen'
    BY <1>1, GrantFields DEF IInv, RevocationIsSeen, Decide, Ended, BeforeCommit, BeforeRelease, Grant
<1>7. QED
    BY <1>2, <1>3, <1>4, <1>5, <1>6 DEF IInv

LEMMA IssueCredentialsStep == IInv /\ IssueCredentials => IInv'
<1> SUFFICES ASSUME IInv, IssueCredentials PROVE IInv'
    OBVIOUS
<1>1. grant \in Grant /\ setup \in Setups /\ clock \in Nat /\ vault \in BOOLEAN
    BY DEF IInv, TypeOK
<1>2. TypeOK'
  <2>1. grant' \in Grant
    <3>1. Skews \cup {0} \subseteq Int /\ grant.ttl \in Nat
      BY <1>1, BrokerAssumption, GrantFields
    <3>2. PICK skew \in Skews \cup {0} :
                 grant' = [grant EXCEPT !.provider = clock + grant.ttl + skew]
      BY DEF IssueCredentials
    <3>3. clock + grant.ttl + skew \in Int
      BY <1>1, <3>1
    <3>4. QED
      BY <1>1, <3>2, <3>3 DEF Grant
  <2>2. vault' \in BOOLEAN /\ resisted' \in BOOLEAN
    BY DEF IInv, TypeOK, IssueCredentials
  <2>3. setup' \in Setups /\ clock' \in Nat /\ pc' \in Steps
    BY <1>1 DEF IInv, TypeOK, IssueCredentials, Steps
  <2>4. QED
    BY <2>1, <2>2, <2>3 DEF IInv, TypeOK, IssueCredentials
<1>3. AskedWithinPolicy'
    BY <1>1, GrantFields DEF IInv, AskedWithinPolicy, Permitted, Satisfied, ask, IssueCredentials, Issuable, Grant
<1>4. DiesInTime'
  <2>1. grant'.released = grant.released /\ grant'.used = grant.used
        /\ pc = "issue" /\ pc' # "direct" /\ vault' = vault /\ job' = job
    BY <1>1 DEF IssueCredentials, Grant
  <2>2. Unreleased /\ vault = FALSE
    BY <2>1 DEF IInv, DiesInTime, BeforeRelease, BeforeStamp
  <2>3. QED
    BY <2>1, <2>2 DEF DiesInTime, Unreleased
<1>5. JobIsWatched'
    BY <1>1 DEF IInv, TypeOK, DiesInTime, JobIsWatched, Alive, IssueCredentials, Unreleased, BeforeStamp, BeforeRelease
<1>6. RevocationIsSeen'
    BY <1>1, GrantFields DEF IInv, RevocationIsSeen, IssueCredentials, BeforeCommit, BeforeRelease, Grant
<1>7. QED
    BY <1>2, <1>3, <1>4, <1>5, <1>6 DEF IInv

LEMMA IssueNothingStep == IInv /\ IssueNothing => IInv'
<1> SUFFICES ASSUME IInv, IssueNothing PROVE IInv'
    OBVIOUS
<1>1. grant \in Grant /\ setup \in Setups /\ clock \in Nat /\ vault \in BOOLEAN
    BY DEF IInv, TypeOK
<1>2. TypeOK'
    BY <1>1, GrantTypes, GrantFields, BrokerAssumption DEF IInv, TypeOK, IssueNothing, Ended, Steps
<1>3. AskedWithinPolicy'
    BY <1>1, GrantFields DEF IInv, AskedWithinPolicy, Permitted, Satisfied, ask, IssueNothing, Ended, Grant
<1>4. DiesInTime'
    BY <1>1, GrantFields, BrokerAssumption DEF IInv, DiesInTime, IssueNothing, Ended, Unreleased, BeforeStamp, BeforeRelease, Grant, Never
<1>5. JobIsWatched'
    BY <1>1 DEF IInv, TypeOK, DiesInTime, JobIsWatched, Alive, IssueNothing, Ended, Unreleased, BeforeStamp, BeforeRelease
<1>6. RevocationIsSeen'
    BY <1>1, GrantFields DEF IInv, RevocationIsSeen, IssueNothing, Ended, BeforeCommit, BeforeRelease, Grant
<1>7. QED
    BY <1>2, <1>3, <1>4, <1>5, <1>6 DEF IInv

LEMMA StampGrantStep == IInv /\ StampGrant => IInv'
<1> SUFFICES ASSUME IInv, StampGrant PROVE IInv'
    OBVIOUS
<1>1. grant \in Grant /\ setup \in Setups /\ clock \in Nat /\ vault \in BOOLEAN
    BY DEF IInv, TypeOK
<1>2. TypeOK'
  <2>1. grant' \in Grant
    <3>1. grant' = [grant EXCEPT !.expires = clock + grant.ttl]
      BY DEF StampGrant
    <3>2. [grant EXCEPT !.expires = clock + grant.ttl] \in Grant
      BY <1>1, GrantFields DEF Grant
    <3>3. QED
      BY <1>1, <3>1, <3>2
  <2>2. vault' \in BOOLEAN /\ resisted' \in BOOLEAN
    BY DEF IInv, TypeOK, StampGrant
  <2>3. setup' \in Setups /\ clock' \in Nat /\ pc' \in Steps
    BY <1>1 DEF IInv, TypeOK, StampGrant, Ended, Steps
  <2>4. QED
    BY <2>1, <2>2, <2>3 DEF IInv, TypeOK, StampGrant, Ended
<1>3. AskedWithinPolicy'
    BY <1>1, GrantFields DEF IInv, AskedWithinPolicy, Permitted, Satisfied, ask, StampGrant, Ended, Outlives, Live, Grant
<1>4. DiesInTime'
  <2>1. grant'.released = grant.released /\ grant'.used = grant.used /\ pc = "stamp"
        /\ grant'.provider = grant.provider /\ grant'.expires = clock + grant.ttl /\ job' = job
    BY <1>1 DEF StampGrant, Grant
  <2>2. Unreleased /\ pc' # "direct"
    BY <2>1 DEF IInv, DiesInTime, BeforeStamp, BeforeRelease, StampGrant, Ended
  <2>3. vault' => grant'.provider <= grant'.expires + Slack
    <3>1. CASE Outlives
      BY <3>1, <2>1, <1>1 DEF IInv, DiesInTime, StampGrant, BeforeStamp, BeforeRelease
    <3>2. CASE ~Outlives
      BY <3>2, <2>1, <1>1, GrantFields, BrokerAssumption DEF Outlives
    <3>3. QED
      BY <3>1, <3>2
  <2>4. pc' \notin BeforeStamp
    BY DEF StampGrant, Ended, BeforeStamp
  <2>5. QED
    BY <2>1, <2>2, <2>3, <2>4 DEF DiesInTime, Unreleased
<1>5. JobIsWatched'
    BY <1>1 DEF IInv, TypeOK, DiesInTime, JobIsWatched, Alive, StampGrant, Ended, Outlives, Live, Unreleased, BeforeStamp, BeforeRelease
<1>6. RevocationIsSeen'
    BY <1>1, GrantFields DEF IInv, RevocationIsSeen, StampGrant, Ended, Outlives, Live, BeforeCommit, BeforeRelease, Grant
<1>7. QED
    BY <1>2, <1>3, <1>4, <1>5, <1>6 DEF IInv

LEMMA DiscloseStep == IInv /\ Disclose => IInv'
<1> SUFFICES ASSUME IInv, Disclose PROVE IInv'
    OBVIOUS
<1>1. grant \in Grant /\ setup \in Setups /\ clock \in Nat /\ vault \in BOOLEAN
    BY DEF IInv, TypeOK
<1>2. TypeOK'
    BY <1>1, GrantTypes, GrantFields, BrokerAssumption DEF IInv, TypeOK, Disclose, Ended, Live, Steps
<1>3. AskedWithinPolicy'
    BY <1>1, GrantFields DEF IInv, AskedWithinPolicy, Permitted, Satisfied, ask, Disclose, Ended, Live, Grant
<1>4. DiesInTime'
    BY <1>1, GrantFields, BrokerAssumption DEF IInv, DiesInTime, Disclose, Ended, Live, Unreleased, BeforeStamp, BeforeRelease, Grant, Never
<1>5. JobIsWatched'
    BY <1>1 DEF IInv, TypeOK, DiesInTime, JobIsWatched, Alive, Disclose, Ended, Live, Unreleased, BeforeStamp, BeforeRelease
<1>6. RevocationIsSeen'
    BY <1>1, GrantFields DEF IInv, RevocationIsSeen, Disclose, Ended, Live, BeforeCommit, BeforeRelease, Grant
<1>7. QED
    BY <1>2, <1>3, <1>4, <1>5, <1>6 DEF IInv

LEMMA CommitGrantStep == IInv /\ CommitGrant => IInv'
<1> SUFFICES ASSUME IInv, CommitGrant PROVE IInv'
    OBVIOUS
<1>1. grant \in Grant /\ setup \in Setups /\ clock \in Nat /\ vault \in BOOLEAN
    BY DEF IInv, TypeOK
<1>2. TypeOK'
    BY <1>1, GrantTypes, GrantFields, BrokerAssumption DEF IInv, TypeOK, CommitGrant, Steps
<1>3. AskedWithinPolicy'
    BY <1>1, GrantFields DEF IInv, AskedWithinPolicy, Permitted, Satisfied, ask, CommitGrant, Grant
<1>4. DiesInTime'
    BY <1>1, GrantFields, BrokerAssumption DEF IInv, DiesInTime, CommitGrant, Unreleased, BeforeStamp, BeforeRelease, Grant, Never
<1>5. JobIsWatched'
    BY <1>1 DEF IInv, TypeOK, DiesInTime, JobIsWatched, Alive, CommitGrant, Unreleased, BeforeStamp, BeforeRelease
<1>6. RevocationIsSeen'
    BY <1>1, GrantFields DEF IInv, RevocationIsSeen, CommitGrant, BeforeCommit, BeforeRelease, Grant
<1>7. QED
    BY <1>2, <1>3, <1>4, <1>5, <1>6 DEF IInv

LEMMA ValidateStep == IInv /\ Validate => IInv'
<1> SUFFICES ASSUME IInv, Validate PROVE IInv'
    OBVIOUS
<1>1. grant \in Grant /\ setup \in Setups /\ clock \in Nat /\ vault \in BOOLEAN
    BY DEF IInv, TypeOK
<1>2. TypeOK'
    BY <1>1, GrantTypes, GrantFields, BrokerAssumption DEF IInv, TypeOK, Validate, Ended, Live, Steps
<1>3. AskedWithinPolicy'
    BY <1>1, GrantFields DEF IInv, AskedWithinPolicy, Permitted, Satisfied, ask, Validate, Ended, Live, Grant
<1>4. DiesInTime'
    BY <1>1, GrantFields, BrokerAssumption DEF IInv, DiesInTime, Validate, Ended, Live, Unreleased, BeforeStamp, BeforeRelease, Grant, Never
<1>5. JobIsWatched'
    BY <1>1 DEF IInv, TypeOK, DiesInTime, JobIsWatched, Alive, Validate, Ended, Live, Unreleased, BeforeStamp, BeforeRelease
<1>6. RevocationIsSeen'
    BY <1>1, GrantFields DEF IInv, RevocationIsSeen, Validate, Ended, Live, BeforeCommit, BeforeRelease, Grant
<1>7. QED
    BY <1>2, <1>3, <1>4, <1>5, <1>6 DEF IInv

LEMMA FetchStep == IInv /\ Fetch => IInv'
<1> SUFFICES ASSUME IInv, Fetch PROVE IInv'
    OBVIOUS
<1>1. grant \in Grant /\ setup \in Setups /\ clock \in Nat /\ vault \in BOOLEAN
    BY DEF IInv, TypeOK
<1>2. TypeOK'
  <2>1. grant' \in Grant
    <3>1. grant' = grant \/ grant' = [grant EXCEPT !.released = clock]
      BY DEF Fetch
    <3>2. [grant EXCEPT !.released = clock] \in Grant
      BY <1>1 DEF Grant
    <3>3. QED
      BY <1>1, <3>1, <3>2
  <2>2. vault' \in BOOLEAN /\ resisted' \in BOOLEAN
    BY DEF IInv, TypeOK, Fetch
  <2>3. setup' \in Setups /\ clock' \in Nat /\ pc' \in Steps
    BY <1>1 DEF IInv, TypeOK, Fetch, Ended, Steps
  <2>4. QED
    BY <2>1, <2>2, <2>3 DEF IInv, TypeOK, Fetch, Ended
<1>3. AskedWithinPolicy'
    BY <1>1, GrantFields DEF IInv, AskedWithinPolicy, Permitted, Satisfied, ask, Fetch, Ended, Controlled, Grant
<1>4. DiesInTime'
    BY <1>1, GrantFields, BrokerAssumption DEF IInv, DiesInTime, Fetch, Ended, Controlled, Unreleased, BeforeStamp, BeforeRelease, Grant, Never
<1>5. JobIsWatched'
    BY <1>1 DEF IInv, TypeOK, DiesInTime, JobIsWatched, Alive, Fetch, Ended, Controlled, Unreleased, BeforeStamp, BeforeRelease
<1>6. RevocationIsSeen'
    BY <1>1, GrantFields DEF IInv, RevocationIsSeen, Fetch, Ended, Controlled, BeforeCommit, BeforeRelease, Grant
<1>7. QED
    BY <1>2, <1>3, <1>4, <1>5, <1>6 DEF IInv

LEMMA DirectStep == IInv /\ Direct => IInv'
<1> SUFFICES ASSUME IInv, Direct PROVE IInv'
    OBVIOUS
<1>1. grant \in Grant /\ setup \in Setups /\ clock \in Nat /\ vault \in BOOLEAN
    BY DEF IInv, TypeOK
<1>2. TypeOK'
  <2>1. grant' \in Grant
    <3>1. grant' = grant \/ grant' = [grant EXCEPT !.used = clock]
      BY DEF Direct
    <3>2. [grant EXCEPT !.used = clock] \in Grant
      BY <1>1 DEF Grant
    <3>3. QED
      BY <1>1, <3>1, <3>2
  <2>2. vault' \in BOOLEAN /\ resisted' \in BOOLEAN
    BY DEF IInv, TypeOK, Direct
  <2>3. setup' \in Setups /\ clock' \in Nat /\ pc' \in Steps
    BY <1>1 DEF IInv, TypeOK, Direct, Ended, Steps
  <2>4. QED
    BY <2>1, <2>2, <2>3 DEF IInv, TypeOK, Direct, Ended
<1>3. AskedWithinPolicy'
    BY <1>1, GrantFields DEF IInv, AskedWithinPolicy, Permitted, Satisfied, ask, Direct, Ended, Accepted, Grant
<1>4. DiesInTime'
  <2>1. grant.released # Never /\ pc' = "ended" /\ vault' = vault /\ job' = job
    BY DEF IInv, DiesInTime, Direct, Ended
  <2>2. CASE Accepted
    <3>1. grant' = [grant EXCEPT !.used = clock]
      BY <2>2 DEF Direct
    <3>2. grant'.released = grant.released /\ grant'.used = clock
          /\ grant'.provider = grant.provider /\ grant'.expires = grant.expires
      BY <3>1, <1>1 DEF Grant
    <3>3. QED
      BY <2>1, <2>2, <3>2, <1>1, GrantFields DEF IInv, DiesInTime, Accepted, BeforeStamp, BeforeRelease
  <2>3. CASE ~Accepted
    BY <2>1, <2>3 DEF IInv, DiesInTime, Direct, BeforeStamp, BeforeRelease
  <2>4. QED
    BY <2>2, <2>3
<1>5. JobIsWatched'
    BY <1>1 DEF IInv, TypeOK, DiesInTime, JobIsWatched, Alive, Direct, Ended, Accepted, Unreleased, BeforeStamp, BeforeRelease
<1>6. RevocationIsSeen'
    BY <1>1, GrantFields DEF IInv, RevocationIsSeen, Direct, Ended, Accepted, BeforeCommit, BeforeRelease, Grant
<1>7. QED
    BY <1>2, <1>3, <1>4, <1>5, <1>6 DEF IInv

LEMMA SettleStep == IInv /\ Settle => IInv'
<1> SUFFICES ASSUME IInv, Settle PROVE IInv'
    OBVIOUS
<1>1. grant \in Grant /\ setup \in Setups /\ clock \in Nat /\ vault \in BOOLEAN
    BY DEF IInv, TypeOK
<1>2. TypeOK'
    BY <1>1, GrantTypes, GrantFields, BrokerAssumption DEF IInv, TypeOK, Settle, Waiting, Pending, CleanUp, Steps
<1>3. AskedWithinPolicy'
    BY <1>1, GrantFields DEF IInv, AskedWithinPolicy, Permitted, Satisfied, ask, Settle, Waiting, Pending, CleanUp, Grant
<1>4. DiesInTime'
    BY <1>1, GrantFields, BrokerAssumption DEF IInv, DiesInTime, Settle, Waiting, Pending, CleanUp, Unreleased, BeforeStamp, BeforeRelease, Grant, Never
<1>5. JobIsWatched'
    BY <1>1 DEF IInv, TypeOK, DiesInTime, JobIsWatched, Alive, Settle, Waiting, Pending, CleanUp, Unreleased, BeforeStamp, BeforeRelease
<1>6. RevocationIsSeen'
    BY <1>1, GrantFields DEF IInv, RevocationIsSeen, Settle, Waiting, Pending, CleanUp, BeforeCommit, BeforeRelease, Grant
<1>7. QED
    BY <1>2, <1>3, <1>4, <1>5, <1>6 DEF IInv

LEMMA TimeOutStep == IInv /\ TimeOut => IInv'
<1> SUFFICES ASSUME IInv, TimeOut PROVE IInv'
    OBVIOUS
<1>1. grant \in Grant /\ setup \in Setups /\ clock \in Nat /\ vault \in BOOLEAN
    BY DEF IInv, TypeOK
<1>2. TypeOK'
    BY <1>1, GrantTypes, GrantFields, BrokerAssumption DEF IInv, TypeOK, TimeOut, Waiting, Pending, CleanUp, Steps
<1>3. AskedWithinPolicy'
    BY <1>1, GrantFields DEF IInv, AskedWithinPolicy, Permitted, Satisfied, ask, TimeOut, Waiting, Pending, CleanUp, Grant
<1>4. DiesInTime'
    BY <1>1, GrantFields, BrokerAssumption DEF IInv, DiesInTime, TimeOut, Waiting, Pending, CleanUp, Unreleased, BeforeStamp, BeforeRelease, Grant, Never
<1>5. JobIsWatched'
    BY <1>1 DEF IInv, TypeOK, DiesInTime, JobIsWatched, Alive, TimeOut, Waiting, Pending, CleanUp, Unreleased, BeforeStamp, BeforeRelease
<1>6. RevocationIsSeen'
    BY <1>1, GrantFields DEF IInv, RevocationIsSeen, TimeOut, Waiting, Pending, CleanUp, BeforeCommit, BeforeRelease, Grant
<1>7. QED
    BY <1>2, <1>3, <1>4, <1>5, <1>6 DEF IInv

LEMMA JoinStep == IInv /\ Join => IInv'
<1> SUFFICES ASSUME IInv, Join PROVE IInv'
    OBVIOUS
<1>1. grant \in Grant /\ setup \in Setups /\ clock \in Nat /\ vault \in BOOLEAN
    BY DEF IInv, TypeOK
<1>2. TypeOK'
    BY <1>1, GrantTypes, GrantFields, BrokerAssumption DEF IInv, TypeOK, Join, Stop, Stopped, Alive, Steps
<1>3. AskedWithinPolicy'
    BY <1>1, GrantFields DEF IInv, AskedWithinPolicy, Permitted, Satisfied, ask, Join, Stop, Grant
<1>4. DiesInTime'
    BY <1>1, GrantFields, BrokerAssumption DEF IInv, DiesInTime, Join, Stop, Stopped, Alive, Unreleased, BeforeStamp, BeforeRelease, Grant, Never
<1>5. JobIsWatched'
    BY <1>1 DEF IInv, TypeOK, DiesInTime, JobIsWatched, Alive, Join, Stop, Stopped, Unreleased, BeforeStamp, BeforeRelease
<1>6. RevocationIsSeen'
    BY <1>1, GrantFields DEF IInv, RevocationIsSeen, Join, Stop, BeforeCommit, BeforeRelease, Grant
<1>7. QED
    BY <1>2, <1>3, <1>4, <1>5, <1>6 DEF IInv

LEMMA KillClientStep == IInv /\ KillClient => IInv'
<1> SUFFICES ASSUME IInv, KillClient PROVE IInv'
    OBVIOUS
<1>1. grant \in Grant /\ setup \in Setups /\ clock \in Nat /\ vault \in BOOLEAN
    BY DEF IInv, TypeOK
<1>2. TypeOK'
    BY <1>1, GrantTypes, GrantFields, BrokerAssumption DEF IInv, TypeOK, KillClient, Ended, Steps
<1>3. AskedWithinPolicy'
    BY <1>1, GrantFields DEF IInv, AskedWithinPolicy, Permitted, Satisfied, ask, KillClient, Ended, Grant
<1>4. DiesInTime'
    BY <1>1, GrantFields, BrokerAssumption DEF IInv, DiesInTime, KillClient, Ended, Unreleased, BeforeStamp, BeforeRelease, Grant, Never
<1>5. JobIsWatched'
    BY <1>1 DEF IInv, TypeOK, DiesInTime, JobIsWatched, Alive, KillClient, Ended, Unreleased, BeforeStamp, BeforeRelease
<1>6. RevocationIsSeen'
    BY <1>1, GrantFields DEF IInv, RevocationIsSeen, KillClient, Ended, BeforeCommit, BeforeRelease, Grant
<1>7. QED
    BY <1>2, <1>3, <1>4, <1>5, <1>6 DEF IInv

LEMMA RemoveStep == IInv /\ Remove => IInv'
<1> SUFFICES ASSUME IInv, Remove PROVE IInv'
    OBVIOUS
<1>1. grant \in Grant /\ setup \in Setups /\ clock \in Nat /\ vault \in BOOLEAN
    BY DEF IInv, TypeOK
<1>2. TypeOK'
    BY <1>1, GrantTypes, GrantFields, BrokerAssumption DEF IInv, TypeOK, Remove, Stop, Stopped, Alive, Ended, Steps
<1>3. AskedWithinPolicy'
    BY <1>1, GrantFields DEF IInv, AskedWithinPolicy, Permitted, Satisfied, ask, Remove, Stop, Ended, Grant
<1>4. DiesInTime'
    BY <1>1, GrantFields, BrokerAssumption DEF IInv, DiesInTime, Remove, Stop, Stopped, Alive, Ended, Unreleased, BeforeStamp, BeforeRelease, Grant, Never
<1>5. JobIsWatched'
    BY <1>1 DEF IInv, TypeOK, DiesInTime, JobIsWatched, Alive, Remove, Stop, Stopped, Ended, Unreleased, BeforeStamp, BeforeRelease
<1>6. RevocationIsSeen'
    BY <1>1, GrantFields DEF IInv, RevocationIsSeen, Remove, Stop, Ended, BeforeCommit, BeforeRelease, Grant
<1>7. QED
    BY <1>2, <1>3, <1>4, <1>5, <1>6 DEF IInv

LEMMA JobUsesStep == IInv /\ JobUses => IInv'
<1> SUFFICES ASSUME IInv, JobUses PROVE IInv'
    OBVIOUS
<1>1. grant \in Grant /\ setup \in Setups /\ clock \in Nat /\ vault \in BOOLEAN
    BY DEF IInv, TypeOK
<1>2. TypeOK'
  <2>1. grant' \in Grant
    <3>1. grant' = [grant EXCEPT !.used = clock]
      BY DEF JobUses
    <3>2. [grant EXCEPT !.used = clock] \in Grant
      BY <1>1 DEF Grant
    <3>3. QED
      BY <1>1, <3>1, <3>2
  <2>2. vault' \in BOOLEAN /\ resisted' \in BOOLEAN
    BY DEF IInv, TypeOK, JobUses
  <2>3. setup' \in Setups /\ clock' \in Nat /\ pc' \in Steps
    BY <1>1 DEF IInv, TypeOK, JobUses, Steps
  <2>4. QED
    BY <2>1, <2>2, <2>3 DEF IInv, TypeOK, JobUses
<1>3. AskedWithinPolicy'
    BY <1>1, GrantFields DEF IInv, AskedWithinPolicy, Permitted, Satisfied, ask, JobUses, Accepted, Grant
<1>4. DiesInTime'
    BY <1>1, GrantFields, BrokerAssumption DEF IInv, DiesInTime, JobUses, Accepted, Unreleased, BeforeStamp, BeforeRelease, Grant, Never
<1>5. JobIsWatched'
    BY <1>1 DEF IInv, TypeOK, DiesInTime, JobIsWatched, Alive, JobUses, Accepted, Unreleased, BeforeStamp, BeforeRelease
<1>6. RevocationIsSeen'
    BY <1>1, GrantFields DEF IInv, RevocationIsSeen, JobUses, Accepted, BeforeCommit, BeforeRelease, Grant
<1>7. QED
    BY <1>2, <1>3, <1>4, <1>5, <1>6 DEF IInv

LEMMA JobGoesOnStep == IInv /\ JobGoesOn => IInv'
<1> SUFFICES ASSUME IInv, JobGoesOn PROVE IInv'
    OBVIOUS
<1>1. grant \in Grant /\ setup \in Setups /\ clock \in Nat /\ vault \in BOOLEAN
    BY DEF IInv, TypeOK
<1>2. TypeOK'
    BY <1>1, GrantTypes, GrantFields, BrokerAssumption DEF IInv, TypeOK, JobGoesOn, Steps
<1>3. AskedWithinPolicy'
    BY <1>1, GrantFields DEF IInv, AskedWithinPolicy, Permitted, Satisfied, ask, JobGoesOn, Grant
<1>4. DiesInTime'
    BY <1>1, GrantFields, BrokerAssumption DEF IInv, DiesInTime, JobGoesOn, Unreleased, BeforeStamp, BeforeRelease, Grant, Never
<1>5. JobIsWatched'
    BY <1>1 DEF IInv, TypeOK, DiesInTime, JobIsWatched, Alive, JobGoesOn, Unreleased, BeforeStamp, BeforeRelease
<1>6. RevocationIsSeen'
    BY <1>1, GrantFields DEF IInv, RevocationIsSeen, JobGoesOn, BeforeCommit, BeforeRelease, Grant
<1>7. QED
    BY <1>2, <1>3, <1>4, <1>5, <1>6 DEF IInv

LEMMA TickStep == IInv /\ Tick => IInv'
<1> SUFFICES ASSUME IInv, Tick PROVE IInv'
    OBVIOUS
<1>1. grant \in Grant /\ setup \in Setups /\ clock \in Nat /\ vault \in BOOLEAN
    BY DEF IInv, TypeOK
<1>2. TypeOK'
  <2>1. grant' \in Grant
    BY <1>1 DEF Tick
  <2>2. vault' \in BOOLEAN /\ resisted' \in BOOLEAN
    BY DEF IInv, TypeOK, Tick
  <2>3. setup' \in Setups /\ clock' \in Nat /\ pc' \in Steps
    BY <1>1 DEF IInv, TypeOK, Tick, Steps
  <2>4. QED
    BY <2>1, <2>2, <2>3 DEF IInv, TypeOK, Tick
<1>3. AskedWithinPolicy'
    BY <1>1, GrantFields DEF IInv, AskedWithinPolicy, Permitted, Satisfied, ask, Tick, Grant
<1>4. DiesInTime'
    BY <1>1, GrantFields, BrokerAssumption DEF IInv, DiesInTime, Tick, Unreleased, BeforeStamp, BeforeRelease, Grant, Never
<1>5. JobIsWatched'
    BY <1>1 DEF IInv, TypeOK, DiesInTime, JobIsWatched, Alive, Tick, Unreleased, BeforeStamp, BeforeRelease
<1>6. RevocationIsSeen'
    BY <1>1, GrantFields DEF IInv, RevocationIsSeen, Tick, BeforeCommit, BeforeRelease, Grant
<1>7. QED
    BY <1>2, <1>3, <1>4, <1>5, <1>6 DEF IInv

LEMMA RevokeStep ==
    ASSUME NEW here \in BOOLEAN, IInv, Revoke(here)
    PROVE  IInv'
<1>1. grant \in Grant /\ setup \in Setups /\ clock \in Nat /\ vault \in BOOLEAN
    BY DEF IInv, TypeOK
<1>2. grant' = [grant EXCEPT !.revoked = TRUE, !.lapsed = here \/ pc = "validate"]
      /\ grant.committed
    BY DEF Revoke
<1>3. grant' \in Grant
    BY <1>1, <1>2 DEF Grant
<1>4. /\ grant'.ttl = grant.ttl /\ grant'.provider = grant.provider
      /\ grant'.expires = grant.expires /\ grant'.released = grant.released
      /\ grant'.used = grant.used /\ grant'.committed = grant.committed
      /\ grant'.revoked = TRUE /\ grant'.lapsed = (here \/ pc = "validate")
    BY <1>1, <1>2 DEF Grant
<1>5. vault' = (vault /\ ~here)
    BY DEF Revoke
<1>6. vault' \in BOOLEAN /\ (vault' => vault) /\ (here => vault' = FALSE)
    BY <1>1, <1>5
<1>7. setup' = setup /\ clock' = clock /\ pc' = pc /\ job' = job
      /\ resisted' = resisted /\ outcome' = outcome
    BY DEF Revoke
<1>8. TypeOK'
    BY <1>1, <1>3, <1>6, <1>7 DEF IInv, TypeOK
<1>9. AskedWithinPolicy'
    BY <1>4, <1>7 DEF IInv, AskedWithinPolicy, Permitted, Satisfied, ask
<1>10. DiesInTime'
    BY <1>1, <1>4, <1>6, <1>7 DEF IInv, DiesInTime, Unreleased
<1>11. JobIsWatched'
    BY <1>7 DEF IInv, JobIsWatched, Alive
<1>12. RevocationIsSeen'
    BY <1>2, <1>4, <1>6, <1>7 DEF IInv, RevocationIsSeen
<1>13. QED
    BY <1>8, <1>9, <1>10, <1>11, <1>12 DEF IInv

LEMMA StutterStep == IInv /\ UNCHANGED vars => IInv'
<1> SUFFICES ASSUME IInv, UNCHANGED vars PROVE IInv'
    OBVIOUS
<1>1. setup' = setup /\ clock' = clock /\ pc' = pc /\ grant' = grant
      /\ job' = job /\ outcome' = outcome
    BY DEF vars
<1>2. vault' = vault /\ resisted' = resisted
    BY DEF vars
<1>3. TypeOK'
    BY <1>1, <1>2 DEF IInv, TypeOK
<1>4. AskedWithinPolicy'
    BY <1>1 DEF IInv, AskedWithinPolicy, Permitted, Satisfied, ask
<1>5. DiesInTime' /\ JobIsWatched' /\ RevocationIsSeen'
    BY <1>1, <1>2 DEF IInv, DiesInTime, JobIsWatched, Alive, RevocationIsSeen, Unreleased
<1>6. QED
    BY <1>3, <1>4, <1>5 DEF IInv

LEMMA NextIInv == IInv /\ [Next]_vars => IInv'
<1> SUFFICES ASSUME IInv, [Next]_vars PROVE IInv'
    OBVIOUS
<1>1. CASE Request
    BY <1>1, DecideStep, IssueCredentialsStep, IssueNothingStep, StampGrantStep, DiscloseStep,
       CommitGrantStep, ValidateStep, FetchStep, DirectStep, SettleStep,
       TimeOutStep, JoinStep, KillClientStep, RemoveStep
       DEF Request
<1>2. CASE \E here \in BOOLEAN : Revoke(here)
    BY <1>2, RevokeStep
<1>3. CASE JobUses \/ JobGoesOn \/ Tick
    BY <1>3, JobUsesStep, JobGoesOnStep, TickStep
<1>4. CASE UNCHANGED vars
    BY <1>4, StutterStep
<1>5. QED
    BY <1>1, <1>2, <1>3, <1>4 DEF Next

LEMMA Inductive == Spec => []IInv
BY InitIInv, NextIInv, PTL DEF Spec

-----------------------------------------------------------------------------
(* What it gives *)

\* Every variable keeps its type, whatever documents, requests and provider
\* clocks there are (policy.py, broker.py, actions.py, runner.py).
THEOREM TypeCorrect == Spec => []TypeOK
<1>1. IInv => TypeOK
    BY DEF IInv
<1>2. QED
    BY Inductive, <1>1, PTL

\* No credentials are issued for what a matching deny rule forbids, what still
\* needs an approval, or for longer than a matching limit, for every document
\* and every request (policy.py:301, broker.py:167).
THEOREM IssuedWithinPolicyHolds == Spec => []IssuedWithinPolicy
<1>1. IInv => IssuedWithinPolicy
    BY DEF IInv, AskedWithinPolicy, Permitted, IssuedWithinPolicy
<1>2. QED
    BY Inductive, <1>1, PTL

\* Credentials are neither released nor used after the grant's expiry and the
\* forgiven second, however long a job hangs and however far the provider's
\* clock is off (broker.py:180, broker.py:224).
THEOREM CredentialsDieHolds == Spec => []CredentialsDieWithTheGrant
<1>1. IInv => CredentialsDieWithTheGrant
  <2>1. SUFFICES ASSUME IInv, grant.released # Never
                 PROVE  grant.released <= grant.expires + Slack
                        /\ grant.used <= grant.expires + Slack
    BY DEF CredentialsDieWithTheGrant
  <2>2. grant.provider <= grant.expires + Slack
        /\ grant.released <= grant.provider /\ grant.used <= grant.provider
    BY <2>1 DEF IInv, DiesInTime
  <2>3. /\ grant.provider \in Int /\ grant.expires \in Int
        /\ grant.released \in Int /\ grant.used \in Int
    BY <2>1 DEF IInv, TypeOK, Grant
  <2>4. QED
    BY <2>2, <2>3, BrokerAssumption
<1>2. QED
    BY Inductive, <1>1, PTL

\* The answer to a request leaves no job behind that was not beyond stopping
\* (runner.py:83, container_runner.py:85).
THEOREM AnsweredJobsHold == Spec => []AnsweredJobsAreStopped
<1>1. IInv => AnsweredJobsAreStopped
    BY DEF IInv, JobIsWatched, AnsweredJobsAreStopped
<1>2. QED
    BY Inductive, <1>1, PTL

\* After a revocation that came in time no step releases the credentials
\* (broker.py:224, broker.py:243).
THEOREM RevocationHoldsAlways == Spec => RevocationHolds
<1>1. IInv /\ [Next]_vars =>
        [grant.lapsed /\ grant.released = Never => grant'.released = Never]_vars
  <2> SUFFICES ASSUME IInv, [Next]_vars, grant.lapsed, grant.released = Never
               PROVE  grant'.released = Never
    OBVIOUS
  <2>1. grant \in Grant
    BY DEF IInv, TypeOK
  <2>2. CASE Fetch
    <3>1. vault = FALSE
      BY <2>2 DEF IInv, RevocationIsSeen, Fetch, BeforeRelease
    <3>2. QED
      BY <2>2, <3>1 DEF Fetch
  <2>3. CASE Decide \/ IssueCredentials \/ StampGrant \/ Validate \/ CommitGrant
    BY <2>1, <2>3 DEF Decide, IssueCredentials, StampGrant, Validate, CommitGrant, Grant
  <2>4. CASE Direct \/ JobUses \/ \E here \in BOOLEAN : Revoke(here)
    BY <2>1, <2>4 DEF Direct, JobUses, Revoke, Grant
  <2>5. CASE IssueNothing \/ Disclose \/ Settle \/ TimeOut \/ Join \/ KillClient \/ Remove
             \/ JobGoesOn \/ Tick \/ UNCHANGED vars
    BY <2>5 DEF IssueNothing, Disclose, Settle, TimeOut, CleanUp, Join, KillClient, Remove, JobGoesOn,
                Tick, vars
  <2>6. QED
    BY <2>2, <2>3, <2>4, <2>5 DEF Next, Request
<1>2. QED
    BY Inductive, <1>1, PTL DEF Spec, RevocationHolds
=============================================================================
