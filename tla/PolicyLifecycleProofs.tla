------------------------ MODULE PolicyLifecycleProofs ------------------------
(***************************************************************************)
(* Proofs about PolicyLifecycle, for any versions and any number of calls: *)
(* what holds until calls overlap, and what holds whatever they do.        *)
(***************************************************************************)
EXTENDS PolicyLifecycle, TLAPS

\* What a call knows: the version it read is not in force, and the previous one
\* is the version in force now.
CallsAreCurrent ==
    \A c \in Calls :
        /\ job[c].at \in {"read", "ready"} =>
               job[c].version \in Versions /\ status[job[c].version] \in {"draft", "retired"}
        /\ job[c].at = "ready" =>
               /\ With("active") = IF job[c].previous = None THEN {} ELSE {job[c].previous}
               /\ \A v \in Versions : since[v] < job[c].stamp
               /\ job[c].stamp <= clock
        /\ job[c].at \in {"vacant", "inserted"} =>
               job[c].op = "default" /\ With("active") = {}
        /\ job[c].at = "idle" => job[c].op = "none"

\* Activation times order the versions as they were in force: the retired ones
\* came before the active one, and the former one after the other retired ones.
TimesOrderVersions ==
    /\ \A v \in Versions : since[v] <= clock
    /\ \A v \in With("active"), w \in With("retired") : since[w] < since[v]
    /\ With("retired") # {} => With("active") # {} /\ former \in With("retired")
    /\ \A w \in With("retired") : w # former => since[w] < since[former]

\* One call at a time.
Serial == \A c, d \in Calls : job[c].at # "idle" /\ job[d].at # "idle" => c = d

\* What holds until calls overlap.
IInv ==
    /\ TypeOK
    /\ Serial
    /\ OneInForce
    /\ CallsAreCurrent
    /\ TimesOrderVersions
    /\ Undoes

-----------------------------------------------------------------------------
(* Types *)

\* The records of calls that the actions build, and their fields.
LEMMA CallTypes ==
    /\ Idle \in Call
    /\ \A v \in Versions : Began("read", "activate", v) \in Call
    /\ \A v \in Versions : Began("read", "rollback", v) \in Call
    /\ Began("vacant", "default", None) \in Call
    /\ \A j \in Call : [j EXCEPT !.at = "inserted"] \in Call
    /\ \A j \in Call : \A p \in Versions \cup {None} : \A n \in Nat :
          [j EXCEPT !.at = "ready", !.previous = p, !.stamp = n] \in Call
BY DEF Call, Idle, Began

LEMMA CallFields ==
    /\ Idle.at = "idle" /\ Idle.op = "none"
    /\ \A j \in Call :
          LET i == [j EXCEPT !.at = "inserted"]
          IN  i.at = "inserted" /\ i.op = j.op
    /\ \A j \in Call : \A p \in Versions \cup {None} : \A n \in Nat :
          LET r == [j EXCEPT !.at = "ready", !.previous = p, !.stamp = n]
          IN  /\ r.at = "ready" /\ r.op = j.op /\ r.version = j.version
              /\ r.previous = p /\ r.stamp = n
    /\ \A j \in Call :
          /\ j.at \in {"idle", "read", "ready", "vacant", "inserted"}
          /\ j.version \in Versions \cup {None} /\ j.previous \in Versions \cup {None}
          /\ j.stamp \in Nat
BY DEF Call, Idle, Began

LEMMA BeganFields ==
    \A a, o, v : /\ Began(a, o, v).at = a
                 /\ Began(a, o, v).op = o
                 /\ Began(a, o, v).version = v
BY DEF Began

LEMMA InitInvariant == Init => IInv
<1> SUFFICES ASSUME Init PROVE IInv
    OBVIOUS
<1>1. \A c \in Calls : job[c] = Idle
    BY DEF Init
<1>2. With("active") = {} /\ With("retired") = {}
    BY DEF Init, NoRecords, With
<1>3. TypeOK
    BY CallTypes DEF Init, NoRecords, TypeOK
<1>4. Serial /\ CallsAreCurrent /\ Undoes
    BY <1>1, CallFields DEF Serial, CallsAreCurrent, Undoes
<1>5. OneInForce /\ TimesOrderVersions
    BY <1>2 DEF Init, OneInForce, TimesOrderVersions
<1> QED BY <1>3, <1>4, <1>5 DEF IInv

-----------------------------------------------------------------------------
(* Steps *)

\* Types need no invariant.
LEMMA StepTypes == TypeOK /\ [Next]_vars => TypeOK'
<1> SUFFICES ASSUME TypeOK, [Next]_vars PROVE TypeOK'
    OBVIOUS
<1>1. CASE \E v \in Versions : Propose(v)
    BY <1>1 DEF TypeOK, Propose
<1>2. CASE \E c \in Calls, v \in Versions : ReadVersion(c, v) \/ ReadCandidate(c, v)
    BY <1>2, CallTypes DEF TypeOK, ReadVersion, ReadCandidate
<1>3. ASSUME NEW c \in Calls, ReadPrevious(c) PROVE TypeOK'
  <2>1. PICK p \in IF With("active") = {} THEN {None} ELSE With("active") :
            job' = [job EXCEPT ![c] = [job[c] EXCEPT !.at = "ready", !.previous = p,
                                                     !.stamp = clock + 1]]
      BY <1>3 DEF ReadPrevious
  <2>2. p \in Versions \cup {None} /\ clock + 1 \in Nat
      BY DEF TypeOK, With
  <2>3. job' \in [Calls -> Call]
      BY <2>1, <2>2, CallTypes DEF TypeOK
  <2> QED BY <1>3, <2>2, <2>3 DEF TypeOK, ReadPrevious
<1>4. ASSUME NEW c \in Calls, Commit(c) PROVE TypeOK'
    BY <1>4, CallTypes, CallFields DEF TypeOK, Commit, Replace
<1>5. ASSUME NEW c \in Calls,
             FindNone(c) \/ InsertDefault(c) \/ CommitDefault(c) \/ Abandon(c)
      PROVE  TypeOK'
  <2>1. CASE FindNone(c)
      BY <2>1, CallTypes DEF TypeOK, FindNone
  <2>2. CASE InsertDefault(c)
    <3>1. job' = [job EXCEPT ![c] = [job[c] EXCEPT !.at = "inserted"]]
        BY <2>2 DEF TypeOK, InsertDefault
    <3>2. job' \in [Calls -> Call]
        BY <3>1, CallTypes DEF TypeOK
    <3> QED BY <2>2, <3>2 DEF TypeOK, InsertDefault
  <2>3. CASE CommitDefault(c)
      BY <2>3, CallTypes DEF TypeOK, CommitDefault
  <2>4. CASE Abandon(c)
      BY <2>4, CallTypes DEF TypeOK, Abandon
  <2> QED BY <1>5, <2>1, <2>2, <2>3, <2>4
<1>6. CASE UNCHANGED vars
    BY <1>6 DEF TypeOK, vars
<1> QED BY <1>1, <1>2, <1>3, <1>4, <1>5, <1>6 DEF Next

\* A call that only reads or ends changes what calls know and nothing else.
LEMMA ReaderSteps ==
    ASSUME IInv, TypeOK', Serial', UNCHANGED <<status, since, former>>,
           clock' = clock \/ clock' = clock + 1,
           CallsAreCurrent', Undoes'
    PROVE  IInv'
<1>1. With("active")' = With("active") /\ With("retired")' = With("retired")
    BY DEF With
<1>2. clock \in Nat /\ since \in [Versions -> Nat]
    BY DEF IInv, TypeOK
<1>3. OneInForce'
    BY <1>1 DEF IInv, OneInForce
<1>4. TimesOrderVersions'
    BY <1>1, <1>2 DEF IInv, TimesOrderVersions
<1> QED BY <1>3, <1>4 DEF IInv

\* Under IInv a version read as the newest retired one is the former one.
LEMMA NewestIsFormer ==
    ASSUME IInv, NEW v \in Versions, NewestFirst(v),
           \A w \in With("retired") : since[w] > 0
    PROVE  v = former
<1>1. v \in With("retired") /\ former \in With("retired")
    BY DEF IInv, NewestFirst, TimesOrderVersions
<1>2. since[v] \in Nat /\ since[former] \in Nat
    BY <1>1 DEF IInv, TypeOK, With
<1>3. since[former] <= since[v]
    BY <1>1, <1>2 DEF NewestFirst
<1>4. v # former => since[v] < since[former]
    BY <1>1 DEF IInv, TimesOrderVersions
<1> QED BY <1>2, <1>3, <1>4

\* In a serial step, a call that is under way after it is the only one.
LEMMA OthersAreIdle ==
    ASSUME Serial', TypeOK', NEW c \in Calls, job'[c].at # "idle"
    PROVE  \A d \in Calls : d # c => job'[d].at = "idle"
BY DEF Serial

\* propose_policy adds a draft.
LEMMA ProposePreserves ==
    ASSUME IInv, TypeOK', Serial', NEW v \in Versions, Propose(v)
    PROVE  IInv'
<1>1. With("active")' = With("active") /\ With("retired")' = With("retired")
    BY DEF IInv, TypeOK, Propose, With
<1>2. OneInForce' /\ TimesOrderVersions' /\ Undoes'
    BY <1>1 DEF IInv, OneInForce, TimesOrderVersions, Undoes, Propose
<1>3. \A w \in Versions : status[w] \in {"draft", "retired"} =>
                              status'[w] \in {"draft", "retired"}
    BY DEF IInv, TypeOK, Propose
<1>4. CallsAreCurrent'
    BY <1>1, <1>3 DEF IInv, CallsAreCurrent, Propose
<1> QED BY <1>2, <1>4 DEF IInv

\* A call begins: an activation or a rollback reads its version, or a request
\* finds no policy.
LEMMA BeginPreserves ==
    ASSUME IInv, TypeOK', Serial', NEW c \in Calls,
           \/ \E v \in Versions : ReadVersion(c, v) \/ ReadCandidate(c, v)
           \/ FindNone(c)
    PROVE  IInv'
<1>1. UNCHANGED <<status, since, clock, former>>
    BY DEF ReadVersion, ReadCandidate, FindNone
<1>2. With("active")' = With("active") /\ With("retired")' = With("retired")
    BY <1>1 DEF With
<1>3. \A d \in Calls : d # c => job'[d] = job[d]
    BY DEF ReadVersion, ReadCandidate, FindNone, IInv, TypeOK
<1>4. CASE \E v \in Versions : ReadVersion(c, v)
  <2> PICK v \in Versions : ReadVersion(c, v)
      BY <1>4
  <2>1. job'[c].at = "read" /\ job'[c].op = "activate" /\ job'[c].version = v
      BY BeganFields DEF ReadVersion, IInv, TypeOK
  <2>2. CallsAreCurrent' /\ Undoes'
      BY <1>1, <1>2, <1>3, <2>1 DEF IInv, CallsAreCurrent, Undoes, ReadVersion
  <2> QED BY <1>1, <2>2, ReaderSteps
<1>5. CASE \E v \in Versions : ReadCandidate(c, v)
  <2> PICK v \in Versions : ReadCandidate(c, v)
      BY <1>5
  <2>1. job'[c].at = "read" /\ job'[c].op = "rollback" /\ job'[c].version = v
      BY BeganFields DEF ReadCandidate, IInv, TypeOK
  <2>2. status[v] = "retired"
      BY DEF ReadCandidate, NewestFirst, With
  <2>3. CallsAreCurrent'
      BY <1>1, <1>2, <1>3, <2>1, <2>2 DEF IInv, CallsAreCurrent
  <2>4. Undoes'
      BY <1>1, <1>2, <1>3, <2>1, NewestIsFormer DEF IInv, Undoes, ReadCandidate
  <2> QED BY <1>1, <2>3, <2>4, ReaderSteps
<1>6. CASE FindNone(c)
  <2>1. job'[c].at = "vacant" /\ job'[c].op = "default"
      BY <1>6, BeganFields DEF FindNone, IInv, TypeOK
  <2>2. CallsAreCurrent' /\ Undoes'
      BY <1>1, <1>2, <1>3, <1>6, <2>1 DEF IInv, CallsAreCurrent, Undoes, FindNone
  <2> QED BY <1>1, <2>2, ReaderSteps
<1> QED BY <1>4, <1>5, <1>6

\* A call goes on without a change to the policies, or ends.
LEMMA ProceedPreserves ==
    ASSUME IInv, TypeOK', Serial', NEW c \in Calls,
           ReadPrevious(c) \/ InsertDefault(c) \/ Abandon(c)
    PROVE  IInv'
<1>1. UNCHANGED <<status, since, former>>
    BY DEF ReadPrevious, InsertDefault, Abandon
<1>2. With("active")' = With("active") /\ With("retired")' = With("retired")
    BY <1>1 DEF With
<1>3. (\A d \in Calls : d # c => job'[d] = job[d]) /\ job[c] \in Call
    BY DEF ReadPrevious, InsertDefault, Abandon, IInv, TypeOK
<1>4. CASE ReadPrevious(c)
  <2>1. PICK p \in IF With("active") = {} THEN {None} ELSE With("active") :
            job' = [job EXCEPT ![c] = [job[c] EXCEPT !.at = "ready", !.previous = p,
                                                     !.stamp = clock + 1]]
      BY <1>4 DEF ReadPrevious
  <2>2. /\ p \in Versions \cup {None}
        /\ clock + 1 \in Nat /\ clock \in Nat /\ clock' = clock + 1
        /\ With("active") = IF p = None THEN {} ELSE {p}
      BY <1>4, <2>1, VersionsAssumption DEF IInv, TypeOK, OneInForce, With, ReadPrevious
  <2>3. job'[c] = [job[c] EXCEPT !.at = "ready", !.previous = p, !.stamp = clock + 1]
      BY <2>1 DEF IInv, TypeOK
  <2>4. /\ job'[c].at = "ready" /\ job'[c].op = job[c].op /\ job'[c].version = job[c].version
        /\ job'[c].previous = p /\ job'[c].stamp = clock + 1
      BY <1>3, <2>2, <2>3, CallFields
  <2>5. \A v \in Versions : since[v] < clock + 1
      BY <2>2 DEF IInv, TypeOK, TimesOrderVersions
  <2>6. \A d \in Calls : d # c => job[d].at = "idle"
      BY <1>4 DEF IInv, Serial, ReadPrevious
  <2>7. CallsAreCurrent'
    <3>1. job[c].version \in Versions /\ status[job[c].version] \in {"draft", "retired"}
        BY <1>4 DEF IInv, CallsAreCurrent, ReadPrevious
    <3>2. \A d \in Calls : d # c => job'[d].at = "idle" /\ job'[d].op = "none"
        BY <1>3, <2>6 DEF IInv, CallsAreCurrent
    <3> QED BY <1>1, <1>2, <2>2, <2>4, <2>5, <3>1, <3>2 DEF CallsAreCurrent
  <2>8. Undoes'
      BY <1>1, <1>2, <1>3, <2>4 DEF IInv, Undoes
  <2> QED BY <1>1, <2>2, <2>7, <2>8, ReaderSteps
<1>5. CASE InsertDefault(c)
  <2>1. job'[c] = [job[c] EXCEPT !.at = "inserted"]
      BY <1>5 DEF InsertDefault, IInv, TypeOK
  <2>2. job'[c].at = "inserted" /\ job'[c].op = job[c].op
      BY <1>3, <2>1, CallFields
  <2>3. CallsAreCurrent' /\ Undoes'
      BY <1>1, <1>2, <1>3, <1>5, <2>2
      DEF IInv, CallsAreCurrent, Undoes, InsertDefault
  <2>4. clock' = clock
      BY <1>5 DEF InsertDefault
  <2> QED BY <1>1, <2>3, <2>4, ReaderSteps
<1>6. CASE Abandon(c)
  <2>1. job'[c] = Idle /\ clock' = clock
      BY <1>6 DEF Abandon, IInv, TypeOK
  <2>2. CallsAreCurrent' /\ Undoes'
      BY <1>1, <1>2, <1>3, <2>1, CallFields
      DEF IInv, CallsAreCurrent, Undoes
  <2> QED BY <1>1, <2>1, <2>2, ReaderSteps
<1> QED BY <1>4, <1>5, <1>6

\* After a change every call has ended.
LEMMA ChangeEndsCalls ==
    ASSUME IInv, NEW c \in Calls, Commit(c) \/ CommitDefault(c)
    PROVE  CallsAreCurrent' /\ Undoes'
<1>1. \A d \in Calls : job'[d].at = "idle" /\ job'[d].op = "none"
    BY CallFields DEF IInv, TypeOK, Serial, CallsAreCurrent, Commit, CommitDefault
<1> QED BY <1>1 DEF CallsAreCurrent, Undoes

\* An activation replaces the version in force.
LEMMA CommitPreserves ==
    ASSUME IInv, TypeOK', Serial', NEW c \in Calls, Commit(c)
    PROVE  IInv'
<1> DEFINE v == job[c].version
           p == job[c].previous
<1>1. /\ v \in Versions /\ status[v] \in {"draft", "retired"}
      /\ With("active") = IF p = None THEN {} ELSE {p}
      /\ \A w \in Versions : since[w] < job[c].stamp
      /\ job[c].stamp <= clock
    BY DEF IInv, CallsAreCurrent, Commit
<1>2. /\ clock \in Nat /\ since \in [Versions -> Nat] /\ job[c].stamp \in Nat
      /\ status \in [Versions -> {"absent", "draft", "active", "retired"}]
    BY CallFields DEF IInv, TypeOK
<1>3. /\ since' = [since EXCEPT ![v] = job[c].stamp]
      /\ status' = Replace(v, p)
      /\ former' = p /\ clock' = clock
    BY DEF Commit
<1> HIDE DEF v, p
<1>4. p # v
    BY <1>1, VersionsAssumption DEF With
<1>5. With("active")' = {v}
    BY <1>1, <1>2, <1>3, <1>4 DEF With, Replace
<1>6. With("retired")' = (With("retired") \ {v}) \cup (IF p = None THEN {} ELSE {p})
    BY <1>1, <1>2, <1>3, <1>4, VersionsAssumption DEF With, Replace
<1>7. OneInForce'
    BY <1>5 DEF OneInForce
<1>8. since'[v] = job[c].stamp /\ \A w \in Versions : w # v => since'[w] = since[w]
    BY <1>1, <1>2, <1>3
<1>9. TimesOrderVersions'
  <2>1. \A w \in Versions : since'[w] <= clock'
      BY <1>1, <1>2, <1>3, <1>8 DEF IInv, TimesOrderVersions
  <2>2. \A u \in With("active")', w \in With("retired")' : since'[w] < since'[u]
      BY <1>1, <1>4, <1>5, <1>6, <1>8 DEF With
  <2>3. p = None => With("retired") = {}
      BY <1>1 DEF IInv, TimesOrderVersions
  <2>4. With("retired")' # {} => With("active")' # {} /\ former' \in With("retired")'
      BY <1>3, <1>5, <1>6, <2>3
  <2>5. \A w \in With("retired")' : w # former' => since'[w] < since'[former']
    <3> SUFFICES ASSUME NEW w \in With("retired")', w # p
                 PROVE  since'[w] < since'[p]
        BY <1>3
    <3>1. w \in With("retired") /\ w # v /\ p # None
        BY <1>6, <2>3
    <3>2. p \in With("active")
        BY <1>1, <3>1
    <3>3. since[w] < since[p]
        BY <3>1, <3>2 DEF IInv, TimesOrderVersions
    <3> QED BY <1>4, <1>8, <3>1, <3>2, <3>3 DEF With
  <2> QED BY <2>1, <2>2, <2>4, <2>5 DEF TimesOrderVersions
<1> QED BY <1>7, <1>9, ChangeEndsCalls DEF IInv

\* The default comes into force where nothing was.
LEMMA CommitDefaultPreserves ==
    ASSUME IInv, TypeOK', Serial', NEW c \in Calls, CommitDefault(c)
    PROVE  IInv'
<1>1. With("active") = {} /\ With("retired") = {}
    BY DEF IInv, CallsAreCurrent, TimesOrderVersions, CommitDefault
<1>2. With("active")' = {Default} /\ With("retired")' = {}
    BY <1>1, VersionsAssumption DEF IInv, TypeOK, CommitDefault, With
<1>3. OneInForce'
    BY <1>2 DEF OneInForce
<1>4. TimesOrderVersions'
    BY <1>2 DEF IInv, TimesOrderVersions, CommitDefault
<1> QED BY <1>3, <1>4, ChangeEndsCalls DEF IInv

\* While calls have not overlapped, a step leaves one at most under way.
LEMMA StepSerial ==
    ASSUME TypeOK, ~overlapped => Serial, Next, ~overlapped'
    PROVE  ~overlapped /\ Serial'
<1>1. ASSUME NEW c \in Calls, ~UnderWay, \A d \in Calls : d # c => job'[d] = job[d]
      PROVE  Serial'
    BY <1>1 DEF Serial, UnderWay
<1>2. CASE \E v \in Versions : Propose(v)
    BY <1>2 DEF Propose, Serial
<1>3. ASSUME NEW c \in Calls,
             (\E v \in Versions : ReadVersion(c, v) \/ ReadCandidate(c, v)) \/ FindNone(c)
      PROVE  ~overlapped /\ Serial'
  <2>1. ~overlapped /\ ~UnderWay
      BY <1>3 DEF ReadVersion, ReadCandidate, FindNone, TypeOK
  <2>2. \A d \in Calls : d # c => job'[d] = job[d]
      BY <1>3 DEF ReadVersion, ReadCandidate, FindNone, TypeOK
  <2> QED BY <2>1, <2>2, <1>1
<1>4. ASSUME NEW c \in Calls,
             \/ ReadPrevious(c) \/ Commit(c) \/ InsertDefault(c)
             \/ CommitDefault(c) \/ Abandon(c)
      PROVE  ~overlapped /\ Serial'
  <2>1. overlapped' = overlapped
      BY <1>4 DEF ReadPrevious, Commit, InsertDefault, CommitDefault, Abandon
  <2>2. job[c].at # "idle"
      BY <1>4 DEF ReadPrevious, Commit, InsertDefault, CommitDefault, Abandon
  <2>3. \A d \in Calls : d # c => job'[d] = job[d]
      BY <1>4 DEF ReadPrevious, Commit, InsertDefault, CommitDefault, Abandon, TypeOK
  <2>4. \A d \in Calls : d # c => job[d].at = "idle"
      BY <2>1, <2>2 DEF Serial
  <2> QED BY <2>1, <2>3, <2>4 DEF Serial
<1> QED BY <1>2, <1>3, <1>4 DEF Next

LEMMA StepInvariant ==
    TypeOK /\ (~overlapped => IInv) /\ [Next]_vars => (~overlapped => IInv)'
<1> SUFFICES ASSUME TypeOK, ~overlapped => IInv, [Next]_vars, ~overlapped' PROVE IInv'
    OBVIOUS
<1>1. CASE UNCHANGED vars
    BY <1>1 DEF IInv, TypeOK, Serial, OneInForce, CallsAreCurrent, TimesOrderVersions,
                Undoes, With, vars
<1>2. CASE Next
  <2>1. TypeOK'
      BY <1>2, StepTypes
  <2>2. IInv /\ Serial'
      BY <1>2, StepSerial DEF IInv
  <2> QED BY <1>2, <2>1, <2>2, ProposePreserves, BeginPreserves, ProceedPreserves,
             CommitPreserves, CommitDefaultPreserves DEF Next
<1> QED BY <1>1, <1>2

-----------------------------------------------------------------------------
(* Theorems *)

\* The rows and the locals keep their types, whatever calls overlap.
THEOREM TypeCorrect == Spec => []TypeOK
<1>1. Init => TypeOK
    BY InitInvariant DEF IInv
<1> QED BY <1>1, StepTypes, PTL DEF Spec

LEMMA Invariant == Spec => [](~overlapped => IInv)
<1> QED BY InitInvariant, StepInvariant, TypeCorrect, PTL DEF Spec

\* Until calls overlap one version is in force (policy.py 254-257).
THEOREM OneActiveHolds == Spec => []OneActive
<1>1. (~overlapped => IInv) => OneActive
    BY DEF IInv, OneActive
<1> QED BY <1>1, Invariant, PTL

\* Until calls overlap, rollback goes back to the version in force before, unless
\* a default without an activation time is among the retired ones: ordering by
\* activation time is ordering by retirement (policy.py 278-287).
THEOREM RollbackUndoesHolds == Spec => []RollbackUndoes
<1>1. (~overlapped => IInv) => RollbackUndoes
    BY DEF IInv, RollbackUndoes
<1> QED BY <1>1, Invariant, PTL

\* A call that has read a version knows it, whatever calls overlap.
CallsHaveVersions ==
    \A c \in Calls : job[c].at \in {"read", "ready"} => job[c].version \in Versions

LEMMA StepVersions == TypeOK /\ CallsHaveVersions /\ [Next]_vars => CallsHaveVersions'
<1> SUFFICES ASSUME TypeOK, CallsHaveVersions, [Next]_vars, NEW d \in Calls
             PROVE  job'[d].at \in {"read", "ready"} => job'[d].version \in Versions
    BY DEF CallsHaveVersions
<1>1. CASE job'[d] = job[d]
    BY <1>1 DEF CallsHaveVersions
<1>2. CASE \E v \in Versions : ReadVersion(d, v) \/ ReadCandidate(d, v)
    BY <1>2, BeganFields DEF ReadVersion, ReadCandidate, TypeOK
<1>3. CASE ReadPrevious(d)
  <2>1. PICK p \in IF With("active") = {} THEN {None} ELSE With("active") :
            job' = [job EXCEPT ![d] = [job[d] EXCEPT !.at = "ready", !.previous = p,
                                                     !.stamp = clock + 1]]
      BY <1>3 DEF ReadPrevious
  <2>2. job'[d] = [job[d] EXCEPT !.at = "ready", !.previous = p, !.stamp = clock + 1]
      BY <2>1 DEF TypeOK
  <2>3. p \in Versions \cup {None} /\ clock + 1 \in Nat /\ job[d] \in Call
      BY DEF TypeOK, With
  <2>4. job'[d].version = job[d].version
      BY <2>2, <2>3, CallFields
  <2> QED BY <1>3, <2>4 DEF CallsHaveVersions, ReadPrevious
<1>4. CASE FindNone(d)
    BY <1>4, BeganFields DEF FindNone, TypeOK
<1>5. CASE InsertDefault(d)
  <2>1. job'[d] = [job[d] EXCEPT !.at = "inserted"] /\ job[d] \in Call
      BY <1>5 DEF InsertDefault, TypeOK
  <2> QED BY <2>1, CallFields
<1>6. CASE Commit(d) \/ CommitDefault(d) \/ Abandon(d)
    BY <1>6, CallFields DEF Commit, CommitDefault, Abandon, TypeOK
<1>7. CASE \E v \in Versions : Propose(v)
    BY <1>1, <1>7 DEF Propose
<1>8. ASSUME NEW c \in Calls, c # d,
             \/ \E v \in Versions : ReadVersion(c, v) \/ ReadCandidate(c, v)
             \/ ReadPrevious(c) \/ Commit(c)
             \/ FindNone(c) \/ InsertDefault(c) \/ CommitDefault(c) \/ Abandon(c)
      PROVE  job'[d] = job[d]
    BY <1>8 DEF ReadVersion, ReadCandidate, ReadPrevious, Commit, FindNone, InsertDefault,
                CommitDefault, Abandon, TypeOK
<1> QED BY <1>1, <1>2, <1>3, <1>4, <1>5, <1>6, <1>7, <1>8 DEF Next, vars

\* Whatever calls overlap, a change never leaves the gateway without a policy
\* (policy.py 254-258).
THEOREM PolicyStays == Spec => PolicyStaysInForce
<1>1. ASSUME TypeOK, CallsHaveVersions, [Next]_vars
      PROVE  [With("active") # {} => With("active")' # {}]_vars
  <2> SUFFICES ASSUME With("active") # {}, With("active")' = {}
               PROVE  UNCHANGED vars
      OBVIOUS
  <2>1. PICK v \in Versions : status[v] = "active" /\ status'[v] # "active"
      BY DEF With
  <2>2. ASSUME NEW c \in Calls, Commit(c) PROVE FALSE
    <3>1. job[c].version \in Versions
        BY <1>1, <2>2 DEF CallsHaveVersions, Commit
    <3>2. status'[job[c].version] = "active"
        BY <2>2, <3>1 DEF Commit, Replace
    <3> QED BY <3>1, <3>2 DEF With
  <2>3. ASSUME NEW c \in Calls, CommitDefault(c) PROVE FALSE
    <3>1. status'[Default] = "active"
        BY <1>1, <2>3, VersionsAssumption DEF TypeOK, CommitDefault
    <3> QED BY <3>1, VersionsAssumption DEF With
  <2> QED BY <1>1, <2>1, <2>2, <2>3
          DEF Next, Propose, ReadVersion, ReadCandidate, ReadPrevious, FindNone,
              InsertDefault, Abandon, TypeOK, vars
<1>2. Init => CallsHaveVersions
    BY CallFields DEF Init, CallsHaveVersions
<1>3. Spec => []CallsHaveVersions
    BY <1>2, TypeCorrect, StepVersions, PTL DEF Spec
<1> QED BY <1>1, <1>3, TypeCorrect, PTL DEF Spec, PolicyStaysInForce
=============================================================================
