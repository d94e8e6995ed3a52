---------------------------- MODULE FeedbackProofs ----------------------------
(***************************************************************************)
(* Proofs about Feedback, for any number of analyzer runs, decisions,      *)
(* tenants, patterns and calls.                                            *)
(***************************************************************************)
EXTENDS Feedback, TLAPS

-----------------------------------------------------------------------------
(* The inductive invariant *)

Ids == {row.id : row \in rows}
OnRecord(f) == \E id \in Ids : Alike(id.finding, f)

Decision == [id : RowId, verdict : Status \ {"proposed"}, by : Deciders]

\* A run that looks has met every other run that looks; what it will propose is
\* new, but for what runs it has met have proposed; what it has found it will
\* look up, will propose, or knows to be on record.
RunsOverlap ==
    /\ \A id \in Ids : runs[id.run].pc = "ended"
    /\ \A r, q \in Runs :
          r # q /\ runs[r].pc = "look" /\ runs[q].pc = "look" => Together(r, q)
    /\ \A r \in Runs : runs[r].pc = "look" =>
          /\ \A f \in runs[r].proposals : \A id \in Ids :
                Alike(id.finding, f) => Together(id.run, r)
          /\ \A f \in runs[r].found :
                f \in runs[r].todo \/ f \in runs[r].proposals \/ OnRecord(f)
    /\ \A r \in Runs : runs[r].pc = "ended" => \A f \in runs[r].found : OnRecord(f)
    /\ \A a \in Ids : \A b \in Ids :
          Alike(a.finding, b.finding) => a.run = b.run \/ Together(a.run, b.run)

\* There is one row of each recommendation, and whoever decides has read it.
OneRowEach ==
    /\ \A a \in rows : \A b \in rows : a.id = b.id => a = b
    /\ \A d \in Deciders : deciders[d].pc = "decide" =>
          deciders[d].id \in Ids /\ deciders[d].verdict \in {"approved", "rejected"}

Decides(i, row) ==
    /\ i \in DOMAIN decisions /\ decisions[i].id = row.id
    /\ decisions[i].verdict = row.status /\ decisions[i].by = row.decided_by
    /\ \A j \in DOMAIN decisions : decisions[j].id = row.id => j <= i

\* A row says what its last decision says, and is undecided before there is one.
LastDecides ==
    \A row \in rows :
        \/ row.status = "proposed" /\ \A i \in DOMAIN decisions : decisions[i].id # row.id
        \/ row.status # "proposed" /\ \E i \in DOMAIN decisions : Decides(i, row)

Met(c, d) == c \in deciders[d].met \/ d \in deciders[c].met

\* Whoever decides has met everybody who decides at the time, or has decided the
\* same recommendation before.
DecidersMeet ==
    /\ \A c, d \in Deciders :
          c # d /\ deciders[c].pc = "decide" /\ deciders[d].pc = "decide" => Met(c, d)
    /\ \A i \in DOMAIN decisions :
          deciders[decisions[i].by].pc = "done" /\ decisions[i].id \in Ids
    /\ \A d \in Deciders : deciders[d].pc = "decide" =>
          \A i \in DOMAIN decisions :
              decisions[i].id = deciders[d].id => Met(decisions[i].by, d)

IInv ==
    /\ TypeOK
    /\ RunsOverlap
    /\ OneRowEach
    /\ LastDecides
    /\ DecidersMeet
    /\ DecidedOnceUnlessRaced

-----------------------------------------------------------------------------
(* Types *)

LEMMA InitIInv == Init => IInv
<1> SUFFICES ASSUME Init PROVE IInv
    OBVIOUS
<1>1. log \in Log
  <2>1. [t \in Topics |-> 0] \in [Topics -> 0 .. Threshold]
    BY FeedbackAssumption
  <2>2. QED
    BY <2>1 DEF Init, Log
<1>2. runs \in [Runs -> Run] /\ deciders \in [Deciders -> Decider]
    BY DEF Init, Run, Decider
<1>3. rows \subseteq RecommendationRow /\ decisions \in Seq(Decision)
    BY DEF Init
<1>4. TypeOK
    BY <1>1, <1>2, <1>3 DEF TypeOK, Decision
<1>5. rows = {} /\ Ids = {} /\ DOMAIN decisions = {}
      /\ (\A r \in Runs : runs[r].pc = "idle") /\ (\A d \in Deciders : deciders[d].pc = "idle")
    BY DEF Init, Ids
<1>6. RunsOverlap /\ OneRowEach /\ LastDecides /\ DecidersMeet /\ DecidedOnceUnlessRaced
    BY <1>5 DEF RunsOverlap, OneRowEach, LastDecides, DecidersMeet, DecidedOnceUnlessRaced
<1>7. QED
    BY <1>4, <1>6 DEF IInv

\* What the run's and the decider's parts of the invariant depend on.
LEMMA SameRuns ==
    ASSUME RunsOverlap, Ids' = Ids, runs' = runs
    PROVE  RunsOverlap'
BY DEF RunsOverlap, OnRecord, Together

LEMMA SameDecisions ==
    ASSUME OneRowEach, LastDecides, DecidersMeet, DecidedOnceUnlessRaced,
           rows' = rows, decisions' = decisions, deciders' = deciders
    PROVE  OneRowEach' /\ LastDecides' /\ DecidersMeet' /\ DecidedOnceUnlessRaced'
BY DEF OneRowEach, LastDecides, DecidersMeet, DecidedOnceUnlessRaced, Ids, Decides, Met

LEMMA FoundIsFinding == ASSUME log \in Log PROVE Found \subseteq Finding
BY DEF Found, Finding, Unused, Log

LEMMA DecisionsTyped ==
    ASSUME TypeOK
    PROVE  \A i \in DOMAIN decisions :
              decisions[i] \in Decision /\ decisions[i].by \in Deciders
<1>1. decisions \in Seq(Decision)
    BY DEF TypeOK, Decision
<1>2. \A i \in DOMAIN decisions : decisions[i] \in Decision
    BY <1>1
<1>3. QED
    BY <1>2 DEF Decision

\* A step that concerns the log alone.
LEMMA LogStep ==
    ASSUME IInv, log' \in Log, UNCHANGED <<rows, decisions, runs, deciders>>
    PROVE  IInv'
<1>1. TypeOK'
    BY DEF IInv, TypeOK
<1>2. RunsOverlap'
    BY SameRuns DEF IInv, Ids
<1>3. QED
    BY <1>1, <1>2, SameDecisions DEF IInv

LEMMA ObserveStep ==
    ASSUME NEW t \in Topics, IInv, Observe(t)
    PROVE  IInv'
<1>1. log \in Log /\ log.counts[t] < Threshold
    BY DEF IInv, TypeOK, Observe
<1>2. log.counts \in [Topics -> 0 .. Threshold]
    BY <1>1 DEF Log
<1>3. log.counts[t] + 1 \in 0 .. Threshold
    BY <1>1, <1>2, FeedbackAssumption
<1>4. [log.counts EXCEPT ![t] = @ + 1] \in [Topics -> 0 .. Threshold]
    BY <1>2, <1>3
<1>5. log' = [log EXCEPT !.counts = [log.counts EXCEPT ![t] = @ + 1]]
    BY <1>1 DEF Observe
<1>6. log' \in Log
    BY <1>1, <1>4, <1>5 DEF Log
<1>7. QED
    BY <1>6, LogStep DEF Observe

LEMMA ProveStep ==
    ASSUME NEW p \in Patterns, IInv, Prove(p)
    PROVE  IInv'
<1>1. log' \in Log
    BY DEF IInv, TypeOK, Prove, Log
<1>2. QED
    BY <1>1, LogStep DEF Prove

LEMMA ExerciseStep ==
    ASSUME NEW a \in ApiCalls, IInv, Exercise(a)
    PROVE  IInv'
<1>1. log' \in Log
    BY DEF IInv, TypeOK, Exercise, Log
<1>2. QED
    BY <1>1, LogStep DEF Exercise

-----------------------------------------------------------------------------
(* The analyzer runs *)

LEMMA StartRunStep ==
    ASSUME NEW r \in Runs, IInv, StartRun(r)
    PROVE  IInv'
<1> DEFINE started == [pc |-> "look", found |-> Found, todo |-> Found,
                       proposals |-> {}, met |-> Running]
<1>1. runs \in [Runs -> Run] /\ runs[r].pc = "idle" /\ runs' = [runs EXCEPT ![r] = started]
    BY DEF IInv, TypeOK, StartRun
<1>2. log' = log /\ rows' = rows /\ decisions' = decisions /\ deciders' = deciders
    BY DEF StartRun
<1>3. started \in Run
    BY FoundIsFinding DEF IInv, TypeOK, Run, Running
<1>4. TypeOK'
    BY <1>1, <1>2, <1>3 DEF IInv, TypeOK
<1>5. runs'[r] = started /\ \A q \in Runs : q # r => runs'[q] = runs[q]
    BY <1>1
<1>6. Ids' = Ids /\ \A id \in Ids : id.run \in Runs /\ id.run # r
    BY <1>1, <1>2 DEF IInv, TypeOK, RunsOverlap, Ids, RecommendationRow, RowId
<1>7. RunsOverlap'
  <2>1. \A id \in Ids' : runs'[id.run].pc = "ended"
    BY <1>5, <1>6 DEF IInv, RunsOverlap
  <2>2. \A q, s \in Runs : q # s /\ runs'[q].pc = "look" /\ runs'[s].pc = "look" => Together(q, s)'
    BY <1>5 DEF IInv, RunsOverlap, Together, Running
  <2>3. \A q \in Runs : runs'[q].pc = "look" =>
          /\ \A f \in runs'[q].proposals : \A id \in Ids' :
                Alike(id.finding, f) => Together(id.run, q)'
          /\ \A f \in runs'[q].found :
                f \in runs'[q].todo \/ f \in runs'[q].proposals \/ OnRecord(f)'
    BY <1>5, <1>6 DEF IInv, RunsOverlap, Together, OnRecord
  <2>4. \A q \in Runs : runs'[q].pc = "ended" => \A f \in runs'[q].found : OnRecord(f)'
    BY <1>5, <1>6 DEF IInv, RunsOverlap, OnRecord
  <2>5. \A a \in Ids' : \A b \in Ids' :
          Alike(a.finding, b.finding) => a.run = b.run \/ Together(a.run, b.run)'
    BY <1>5, <1>6 DEF IInv, RunsOverlap, Together
  <2>6. QED
    BY <2>1, <2>2, <2>3, <2>4, <2>5 DEF RunsOverlap
<1>8. QED
    BY <1>2, <1>4, <1>7, SameDecisions DEF IInv

LEMMA LookStep ==
    ASSUME NEW r \in Runs, NEW f \in runs[r].todo, IInv, Look(r, f)
    PROVE  IInv'
<1> DEFINE known == IF Existing(f) THEN runs[r].proposals ELSE runs[r].proposals \cup {f}
           looked == [runs[r] EXCEPT !.todo = @ \ {f}, !.proposals = known]
<1>1. runs \in [Runs -> Run] /\ runs[r].pc = "look" /\ runs[r] \in Run
    BY DEF IInv, TypeOK, Look
<1>2. runs' = [runs EXCEPT ![r] = looked]
    BY <1>1 DEF Look
<1>3. log' = log /\ rows' = rows /\ decisions' = decisions /\ deciders' = deciders
    BY DEF Look
<1>4. f \in Finding
    BY <1>1 DEF Run
<1>5. looked \in Run
    BY <1>1, <1>4 DEF Run
<1>6. TypeOK'
    BY <1>1, <1>2, <1>3, <1>5 DEF IInv, TypeOK
<1>7. /\ \A q \in Runs : q # r => runs'[q] = runs[q]
      /\ runs'[r].pc = "look" /\ runs'[r].met = runs[r].met /\ runs'[r].found = runs[r].found
      /\ runs'[r].todo = runs[r].todo \ {f} /\ runs'[r].proposals = known
    BY <1>1, <1>2 DEF Run
<1>8. Ids' = Ids /\ (\A id \in Ids : id.run \in Runs) /\ (Existing(f) <=> OnRecord(f))
    BY <1>3 DEF IInv, TypeOK, Ids, RecommendationRow, RowId, Existing, OnRecord
<1>9. \A a, b \in Runs : Together(a, b)' <=> Together(a, b)
    BY <1>7 DEF Together
<1>10. RunsOverlap'
  <2>1. \A id \in Ids' : runs'[id.run].pc = "ended"
    BY <1>1, <1>7, <1>8 DEF IInv, RunsOverlap
  <2>2. \A q, s \in Runs : q # s /\ runs'[q].pc = "look" /\ runs'[s].pc = "look" => Together(q, s)'
    BY <1>1, <1>7, <1>9 DEF IInv, RunsOverlap
  <2>3. ASSUME NEW q \in Runs, runs'[q].pc = "look"
        PROVE  /\ \A g \in runs'[q].proposals : \A id \in Ids' :
                     Alike(id.finding, g) => Together(id.run, q)'
               /\ \A g \in runs'[q].found :
                     g \in runs'[q].todo \/ g \in runs'[q].proposals \/ OnRecord(g)'
    <3>1. CASE q = r
      <4>1. \A g \in known : \A id \in Ids : Alike(id.finding, g) => Together(id.run, r)
        BY <1>1, <1>8 DEF IInv, RunsOverlap, OnRecord
      <4>2. \A g \in runs[r].found : g \in runs[r].todo \ {f} \/ g \in known \/ OnRecord(g)
        BY <1>1, <1>8 DEF IInv, RunsOverlap
      <4>3. \A g : OnRecord(g)' <=> OnRecord(g)
        BY <1>8 DEF OnRecord
      <4>4. QED
        BY <3>1, <4>1, <4>2, <4>3, <1>7, <1>8, <1>9
    <3>2. CASE q # r
      BY <3>2, <2>3, <1>7, <1>8, <1>9 DEF IInv, RunsOverlap, OnRecord
    <3>3. QED
      BY <3>1, <3>2
  <2>4. \A q \in Runs : runs'[q].pc = "ended" => \A g \in runs'[q].found : OnRecord(g)'
    BY <1>7, <1>8 DEF IInv, RunsOverlap, OnRecord
  <2>5. \A a \in Ids' : \A b \in Ids' :
          Alike(a.finding, b.finding) => a.run = b.run \/ Together(a.run, b.run)'
    BY <1>8, <1>9 DEF IInv, RunsOverlap
  <2>6. QED
    BY <2>1, <2>2, <2>3, <2>4, <2>5 DEF RunsOverlap
<1>11. QED
    BY <1>3, <1>6, <1>10, SameDecisions DEF IInv

LEMMA ProposeStep ==
    ASSUME NEW r \in Runs, IInv, Propose(r)
    PROVE  IInv'
<1> DEFINE id(f) == [run |-> r, finding |-> f]
           row(f) == [id |-> id(f), status |-> "proposed", decided_by |-> None]
           new == runs[r].proposals
<1>1. /\ runs \in [Runs -> Run] /\ runs[r].pc = "look" /\ runs[r].todo = {}
      /\ runs[r] \in Run /\ new \subseteq Finding
    BY DEF IInv, TypeOK, Propose, Run
<1>2. /\ rows' = rows \cup {row(f) : f \in new}
      /\ runs' = [runs EXCEPT ![r] = [runs[r] EXCEPT !.pc = "ended"]]
      /\ log' = log /\ decisions' = decisions /\ deciders' = deciders
    BY <1>1 DEF Propose
<1>3. /\ \A q \in Runs : q # r => runs'[q] = runs[q]
      /\ runs'[r].pc = "ended" /\ runs'[r].met = runs[r].met
      /\ runs'[r].found = runs[r].found
    BY <1>1, <1>2 DEF Run
<1>4. TypeOK'
  <2>1. runs' \in [Runs -> Run]
    BY <1>1, <1>2 DEF Run
  <2>2. \A f \in new : row(f) \in RecommendationRow
    BY <1>1 DEF RecommendationRow, RowId, Status
  <2>3. rows' \subseteq RecommendationRow
    BY <1>2, <2>2 DEF IInv, TypeOK
  <2>4. log' \in Log /\ deciders' \in [Deciders -> Decider] /\ decisions' \in Seq(Decision)
    BY <1>2 DEF IInv, TypeOK, Decision
  <2>5. QED
    BY <2>1, <2>3, <2>4 DEF TypeOK, Decision
<1>5. Ids' = Ids \cup {id(f) : f \in new}
  <2>1. \A f \in new : row(f) \in rows' /\ row(f).id = id(f)
    BY <1>2
  <2>2. \A a \in rows' : a \in rows \/ \E f \in new : a = row(f)
    BY <1>2
  <2>3. rows \subseteq rows'
    BY <1>2
  <2> HIDE DEF row, id
  <2>4. QED
    BY <2>1, <2>2, <2>3 DEF Ids
<1>6. \A x \in Ids : x.run \in Runs /\ x.run # r
    BY <1>1 DEF IInv, TypeOK, RunsOverlap, Ids, RecommendationRow, RowId
<1>7. \A f \in new : id(f).run = r /\ id(f).finding = f
    OBVIOUS
<1>8. \A a, b \in Runs : Together(a, b)' <=> Together(a, b)
    BY <1>3 DEF Together
<1>9. \A g : OnRecord(g) => OnRecord(g)'
    BY <1>5 DEF OnRecord
<1>10. RunsOverlap'
  <2>1. \A x \in Ids' : x.run \in Runs /\ runs'[x.run].pc = "ended"
    BY <1>3, <1>5, <1>6, <1>7 DEF IInv, RunsOverlap
  <2>2. \A q, s \in Runs : q # s /\ runs'[q].pc = "look" /\ runs'[s].pc = "look" => Together(q, s)'
    BY <1>3, <1>8 DEF IInv, RunsOverlap
  <2>3. ASSUME NEW q \in Runs, runs'[q].pc = "look"
        PROVE  /\ \A g \in runs'[q].proposals : \A x \in Ids' :
                     Alike(x.finding, g) => Together(x.run, q)'
               /\ \A g \in runs'[q].found :
                     g \in runs'[q].todo \/ g \in runs'[q].proposals \/ OnRecord(g)'
    <3>1. q # r /\ runs'[q] = runs[q] /\ Together(r, q)
      BY <2>3, <1>1, <1>3 DEF IInv, RunsOverlap
    <3>2. ASSUME NEW g \in runs'[q].proposals, NEW x \in Ids', Alike(x.finding, g)
          PROVE  Together(x.run, q)'
      <4>1. CASE x \in Ids
        BY <2>3, <3>1, <3>2, <4>1, <1>6, <1>8 DEF IInv, RunsOverlap
      <4>2. CASE x \in {id(f) : f \in new}
        BY <3>1, <4>2, <1>7, <1>8
      <4>3. QED
        BY <4>1, <4>2, <1>5
    <3>3. \A g \in runs'[q].found :
              g \in runs'[q].todo \/ g \in runs'[q].proposals \/ OnRecord(g)'
      BY <2>3, <3>1, <1>9 DEF IInv, RunsOverlap
    <3>4. QED
      BY <3>2, <3>3
  <2>4. ASSUME NEW q \in Runs, runs'[q].pc = "ended", NEW g \in runs'[q].found
        PROVE  OnRecord(g)'
    <3>1. CASE q = r
      <4>1. g \in new \/ OnRecord(g)
        BY <2>4, <3>1, <1>1, <1>3 DEF IInv, RunsOverlap
      <4>2. g \in new => id(g) \in Ids' /\ Alike(id(g).finding, g)
        BY <1>5, <1>7 DEF Alike
      <4>3. QED
        BY <4>1, <4>2, <1>9 DEF OnRecord
    <3>2. CASE q # r
      BY <2>4, <3>2, <1>3, <1>9 DEF IInv, RunsOverlap
    <3>3. QED
      BY <3>1, <3>2
  <2>5. ASSUME NEW a \in Ids', NEW b \in Ids', Alike(a.finding, b.finding)
        PROVE  a.run = b.run \/ Together(a.run, b.run)'
    <3>1. CASE a \in Ids /\ b \in Ids
      BY <2>5, <3>1, <1>6, <1>8 DEF IInv, RunsOverlap
    <3>2. CASE a \in Ids /\ b \notin Ids
      <4>1. PICK f \in new : b = id(f)
        BY <3>2, <1>5
      <4>2. Together(a.run, r)
        BY <2>5, <3>2, <4>1, <1>1 DEF IInv, RunsOverlap
      <4>3. QED
        BY <3>2, <4>1, <4>2, <1>6, <1>8
    <3>3. CASE a \notin Ids /\ b \in Ids
      <4>1. PICK f \in new : a = id(f)
        BY <3>3, <1>5
      <4>2. Alike(b.finding, f)
        BY <2>5, <4>1 DEF Alike
      <4>3. Together(b.run, r)
        BY <3>3, <4>1, <4>2, <1>1 DEF IInv, RunsOverlap
      <4>4. Together(r, b.run)
        BY <4>3 DEF Together
      <4>5. QED
        BY <3>3, <4>1, <4>4, <1>6, <1>8
    <3>4. CASE a \notin Ids /\ b \notin Ids
      BY <3>4, <1>5, <1>7
    <3>5. QED
      BY <3>1, <3>2, <3>3, <3>4
  <2>6. QED
    BY <2>1, <2>2, <2>3, <2>4, <2>5 DEF RunsOverlap
<1>11. \A x \in Ids : \A f \in new : x # id(f)
    BY <1>6, <1>7
<1>12. OneRowEach'
  <2>1. ASSUME NEW a \in rows', NEW b \in rows', a.id = b.id
        PROVE  a = b
    <3>1. CASE a \in rows /\ b \in rows
      BY <2>1, <3>1 DEF IInv, OneRowEach
    <3>2. CASE a \in rows /\ b \notin rows
      BY <2>1, <3>2, <1>2, <1>11 DEF Ids
    <3>3. CASE a \notin rows /\ b \in rows
      BY <2>1, <3>3, <1>2, <1>11 DEF Ids
    <3>4. CASE a \notin rows /\ b \notin rows
      BY <2>1, <3>4, <1>2, <1>7
    <3>5. QED
      BY <3>1, <3>2, <3>3, <3>4
  <2>2. QED
    BY <2>1, <1>2, <1>5 DEF IInv, OneRowEach
<1>13. LastDecides'
  <2>1. ASSUME NEW f \in new
        PROVE  \A i \in DOMAIN decisions : decisions[i].id # id(f)
    BY <1>11 DEF IInv, DecidersMeet
  <2>2. QED
    BY <2>1, <1>2 DEF IInv, LastDecides, Decides
<1>14. DecidersMeet' /\ DecidedOnceUnlessRaced'
    BY <1>2, <1>5 DEF IInv, DecidersMeet, DecidedOnceUnlessRaced, Met
<1>15. QED
    BY <1>4, <1>10, <1>12, <1>13, <1>14 DEF IInv

LEMMA RunDiesStep ==
    ASSUME NEW r \in Runs, IInv, RunDies(r)
    PROVE  IInv'
<1>1. runs \in [Runs -> Run] /\ runs[r].pc = "look" /\ runs[r] \in Run
    BY DEF IInv, TypeOK, RunDies
<1>2. /\ runs' = [runs EXCEPT ![r] = [runs[r] EXCEPT !.pc = "died", !.todo = {}, !.proposals = {}]]
      /\ log' = log /\ rows' = rows /\ decisions' = decisions /\ deciders' = deciders
    BY <1>1 DEF RunDies
<1>3. /\ \A q \in Runs : q # r => runs'[q] = runs[q]
      /\ runs'[r].pc = "died" /\ runs'[r].met = runs[r].met
    BY <1>1, <1>2 DEF Run
<1>4. TypeOK'
  <2>1. [runs[r] EXCEPT !.pc = "died", !.todo = {}, !.proposals = {}] \in Run
    BY <1>1 DEF Run
  <2>2. QED
    BY <1>1, <1>2, <2>1 DEF IInv, TypeOK
<1>5. Ids' = Ids /\ \A x \in Ids : x.run \in Runs /\ x.run # r
    BY <1>1, <1>2 DEF IInv, TypeOK, RunsOverlap, Ids, RecommendationRow, RowId
<1>6. RunsOverlap'
    BY <1>3, <1>5 DEF IInv, RunsOverlap, OnRecord, Together
<1>7. QED
    BY <1>2, <1>4, <1>6, SameDecisions DEF IInv

-----------------------------------------------------------------------------
(* The decisions *)

LEMMA ReadStep ==
    ASSUME NEW d \in Deciders, NEW row \in rows, NEW verdict \in {"approved", "rejected"},
           IInv, ReadRecommendation(d, row, verdict)
    PROVE  IInv'
<1> DEFINE read == [pc |-> IF Undecided(row) THEN "decide" ELSE "refused",
                    id |-> row.id, verdict |-> verdict, met |-> Deciding]
<1>1. /\ deciders \in [Deciders -> Decider] /\ deciders[d].pc = "idle"
      /\ deciders' = [deciders EXCEPT ![d] = read]
      /\ log' = log /\ rows' = rows /\ decisions' = decisions /\ runs' = runs
    BY DEF IInv, TypeOK, ReadRecommendation
<1>2. row.id \in RowId
    BY DEF IInv, TypeOK, RecommendationRow
<1>3. read \in Decider
    BY <1>2 DEF Decider, Deciding
<1>4. TypeOK'
    BY <1>1, <1>3 DEF IInv, TypeOK
<1>5. deciders'[d] = read /\ \A c \in Deciders : c # d => deciders'[c] = deciders[c]
    BY <1>1
<1>6. Ids' = Ids /\ RunsOverlap'
    BY <1>1, SameRuns DEF IInv, Ids
<1>7. OneRowEach'
    BY <1>1, <1>5, <1>6 DEF IInv, OneRowEach, Ids
<1>8. LastDecides'
    BY <1>1 DEF IInv, LastDecides, Decides
<1>9. \A i \in DOMAIN decisions : decisions[i].by \in Deciders /\ decisions[i].by # d
    BY <1>1, DecisionsTyped DEF IInv, DecidersMeet
<1>10. DecidersMeet'
  <2>1. \A b, c \in Deciders : b # c /\ deciders'[b].pc = "decide" /\ deciders'[c].pc = "decide"
                               => Met(b, c)'
    BY <1>5 DEF IInv, DecidersMeet, Met, Deciding
  <2>2. \A i \in DOMAIN decisions' :
          deciders'[decisions'[i].by].pc = "done" /\ decisions'[i].id \in Ids'
    BY <1>1, <1>5, <1>6, <1>9 DEF IInv, DecidersMeet
  <2>3. ASSUME NEW c \in Deciders, deciders'[c].pc = "decide", NEW i \in DOMAIN decisions',
               decisions'[i].id = deciders'[c].id
        PROVE  Met(decisions[i].by, c)'
    <3>1. CASE c = d
      BY <2>3, <3>1, <1>1, <1>5 DEF IInv, LastDecides, Undecided
    <3>2. CASE c # d
      BY <2>3, <3>2, <1>1, <1>5, <1>9 DEF IInv, DecidersMeet, Met
    <3>3. QED
      BY <3>1, <3>2
  <2>4. QED
    BY <2>1, <2>2, <2>3 DEF DecidersMeet
<1>11. DecidedOnceUnlessRaced'
    BY <1>1, <1>5, <1>9 DEF IInv, DecidedOnceUnlessRaced
<1>12. QED
    BY <1>4, <1>6, <1>7, <1>8, <1>10, <1>11 DEF IInv

LEMMA DecideStep ==
    ASSUME NEW d \in Deciders, IInv, Decide(d)
    PROVE  IInv'
<1> DEFINE it == deciders[d].id
           verdict == deciders[d].verdict
           decision == [id |-> it, verdict |-> verdict, by |-> d]
           n == Len(decisions) + 1
           written(row) == [row EXCEPT !.status = verdict, !.decided_by = d]
           after(row) == IF row.id = it THEN written(row) ELSE row
<1>1. /\ deciders \in [Deciders -> Decider] /\ deciders[d] \in Decider
      /\ deciders[d].pc = "decide" /\ decisions \in Seq(Decision)
      /\ it \in Ids /\ verdict \in {"approved", "rejected"}
    BY DEF IInv, TypeOK, OneRowEach, Decide, Decision
<1>2. /\ deciders' = [deciders EXCEPT ![d] = [deciders[d] EXCEPT !.pc = "done"]]
      /\ log' = log /\ runs' = runs
    BY <1>1 DEF Decide
<1>3. \A row \in rows : /\ row \in RecommendationRow /\ written(row) \in RecommendationRow
                        /\ written(row).id = row.id /\ written(row).status = verdict
                        /\ written(row).decided_by = d
    BY <1>1 DEF IInv, TypeOK, RecommendationRow, Status
<1>4. rows' = {after(row) : row \in rows}
    BY DEF Decide, WriteDecision
<1>5. \A row \in rows : after(row) \in RecommendationRow /\ after(row).id = row.id
    BY <1>3
<1>6. decisions' = Append(decisions, decision)
    BY DEF Decide
<1> HIDE DEF after
<1>7. it \in RowId /\ decision \in Decision
    BY <1>1 DEF IInv, TypeOK, Ids, RecommendationRow, Decision, Status
<1>8. /\ n \in Nat /\ DOMAIN decisions = 1 .. (n - 1) /\ DOMAIN decisions' = 1 .. n
      /\ decisions'[n] = decision
      /\ \A i \in DOMAIN decisions : i \in DOMAIN decisions' /\ i < n
                                    /\ decisions'[i] = decisions[i]
      /\ \A i \in DOMAIN decisions' : i \in DOMAIN decisions \/ i = n
  <2> HIDE DEF decision
  <2>1. QED
    BY <1>1, <1>6, <1>7
<1>9. /\ \A c \in Deciders : c # d => deciders'[c] = deciders[c]
      /\ deciders'[d].pc = "done" /\ deciders'[d].met = deciders[d].met
    BY <1>1, <1>2 DEF Decider
<1>10. \A b, c \in Deciders : Met(b, c)' <=> Met(b, c)
    BY <1>9 DEF Met
<1>11. TypeOK'
  <2>1. deciders' \in [Deciders -> Decider]
    BY <1>1, <1>2 DEF Decider
  <2>2. decisions' \in Seq(Decision)
    <3> HIDE DEF decision
    <3>1. QED
      BY <1>1, <1>6, <1>7
  <2>3. rows' \subseteq RecommendationRow
    BY <1>4, <1>5
  <2>4. log' \in Log /\ runs' \in [Runs -> Run]
    BY <1>2 DEF IInv, TypeOK
  <2>5. QED
    BY <2>1, <2>2, <2>3, <2>4 DEF TypeOK, Decision
<1>12. Ids' = Ids
    BY <1>4, <1>5 DEF Ids
<1>13. RunsOverlap'
    BY <1>2, <1>12, SameRuns DEF IInv
<1>14. OneRowEach'
  <2>1. \A a \in rows' : \E row \in rows : a.id = row.id /\ a = after(row)
    BY <1>4, <1>5
  <2>2. \A a, b \in rows' : a.id = b.id => a = b
    BY <2>1 DEF IInv, OneRowEach
  <2>3. \A c \in Deciders : deciders'[c].pc = "decide" =>
          deciders'[c].id \in Ids' /\ deciders'[c].verdict \in {"approved", "rejected"}
    BY <1>9, <1>12 DEF IInv, OneRowEach
  <2>4. QED
    BY <2>2, <2>3 DEF OneRowEach
<1>15. LastDecides'
  <2>1. SUFFICES ASSUME NEW a \in rows'
                 PROVE  \/ a.status = "proposed" /\ \A i \in DOMAIN decisions' : decisions'[i].id # a.id
                        \/ a.status # "proposed" /\ \E i \in DOMAIN decisions' : Decides(i, a)'
    BY DEF LastDecides
  <2>2. PICK row \in rows : a = after(row)
    BY <1>4
  <2>3. CASE row.id = it
    <3>1. a.id = it /\ a.status = verdict /\ a.decided_by = d
      BY <2>2, <2>3, <1>3 DEF after
    <3>2. n \in DOMAIN decisions' /\ \A j \in DOMAIN decisions' : j <= n
      BY <1>8
    <3>3. PICK m \in DOMAIN decisions' : m = n
      BY <3>2
    <3>4. Decides(m, a)'
      BY <3>1, <3>2, <3>3, <1>8 DEF Decides
    <3>5. QED
      BY <3>1, <3>4, <1>1
  <2>4. CASE row.id # it
    <3>1. a = row
      BY <2>2, <2>4 DEF after
    <3>2. \A j \in DOMAIN decisions' : decisions'[j].id = row.id =>
            j \in DOMAIN decisions /\ decisions[j].id = row.id
      BY <2>4, <1>8
    <3>3. \A i \in DOMAIN decisions : Decides(i, row) => Decides(i, row)'
      BY <3>2, <1>8 DEF Decides
    <3>4. QED
      BY <3>1, <3>2, <3>3, <1>8 DEF IInv, LastDecides
  <2>5. QED
    BY <2>3, <2>4
<1>16. DecidersMeet'
  <2>1. \A b, c \in Deciders : b # c /\ deciders'[b].pc = "decide" /\ deciders'[c].pc = "decide"
                               => Met(b, c)'
    BY <1>9, <1>10 DEF IInv, DecidersMeet
  <2>2. ASSUME NEW i \in DOMAIN decisions'
        PROVE  deciders'[decisions'[i].by].pc = "done" /\ decisions'[i].id \in Ids'
    <3>1. CASE i = n
      BY <3>1, <1>1, <1>8, <1>9, <1>12
    <3>2. CASE i \in DOMAIN decisions
      <4>1. decisions[i].by \in Deciders
        BY <3>2, DecisionsTyped DEF IInv
      <4>2. QED
        BY <3>2, <4>1, <1>8, <1>9, <1>12 DEF IInv, DecidersMeet
    <3>3. QED
      BY <3>1, <3>2, <1>8
  <2>3. ASSUME NEW c \in Deciders, deciders'[c].pc = "decide", NEW i \in DOMAIN decisions',
               decisions'[i].id = deciders'[c].id
        PROVE  Met(decisions[i].by, c)'
    <3>1. c # d /\ deciders'[c] = deciders[c]
      BY <2>3, <1>9
    <3>2. CASE i = n
      <4>1. Met(d, c)
        BY <2>3, <3>1, <1>1 DEF IInv, DecidersMeet
      <4>2. QED
        BY <3>2, <4>1, <1>8, <1>10
    <3>3. CASE i \in DOMAIN decisions
      <4>1. decisions[i].by \in Deciders
        BY <3>3, DecisionsTyped DEF IInv
      <4>2. Met(decisions[i].by, c)
        BY <2>3, <3>1, <3>3, <1>8 DEF IInv, DecidersMeet
      <4>3. QED
        BY <3>3, <4>1, <4>2, <1>8, <1>10
    <3>4. QED
      BY <3>2, <3>3, <1>8
  <2>4. QED
    BY <2>1, <2>2, <2>3 DEF DecidersMeet
<1>17. DecidedOnceUnlessRaced'
  <2>1. SUFFICES ASSUME NEW i \in DOMAIN decisions', NEW j \in DOMAIN decisions',
                        i < j, decisions'[i].id = decisions'[j].id
                 PROVE  Met(decisions[i].by, decisions[j].by)'
    BY DEF DecidedOnceUnlessRaced, Met
  <2>2. i \in DOMAIN decisions /\ decisions[i].by \in Deciders
    BY <2>1, <1>8, DecisionsTyped DEF IInv
  <2>3. CASE j = n
    <3>1. Met(decisions[i].by, d)
      BY <2>1, <2>2, <2>3, <1>1, <1>8 DEF IInv, DecidersMeet
    <3>2. QED
      BY <2>2, <2>3, <3>1, <1>8, <1>10
  <2>4. CASE j \in DOMAIN decisions
    <3>1. Met(decisions[i].by, decisions[j].by) /\ decisions[j].by \in Deciders
      BY <2>1, <2>2, <2>4, <1>8, DecisionsTyped DEF IInv, DecidedOnceUnlessRaced, Met
    <3>2. QED
      BY <2>2, <2>4, <3>1, <1>8, <1>10
  <2>5. QED
    BY <2>3, <2>4, <1>8
<1>18. QED
    BY <1>11, <1>13, <1>14, <1>15, <1>16, <1>17 DEF IInv

-----------------------------------------------------------------------------
(* What it gives *)

LEMMA NextIInv == IInv /\ [Next]_vars => IInv'
<1> SUFFICES ASSUME IInv, [Next]_vars PROVE IInv'
    OBVIOUS
<1>1. CASE UNCHANGED vars
    BY <1>1, LogStep DEF vars, IInv, TypeOK
<1>2. CASE Next
    BY <1>2, ObserveStep, ProveStep, ExerciseStep, StartRunStep, LookStep, ProposeStep,
       RunDiesStep, ReadStep, DecideStep DEF Next
<1>3. QED
    BY <1>1, <1>2

LEMMA Inductive == Spec => []IInv
BY InitIInv, NextIInv, PTL DEF Spec

\* Every variable keeps its type, for any runs, deciders, tenants and topics
\* (feedback.py).
THEOREM TypeCorrect == Spec => []TypeOK
<1>1. IInv => TypeOK
    BY DEF IInv
<1>2. QED
    BY Inductive, <1>1, PTL

\* A completed run's findings are on record, and two recommendations of one
\* fingerprint come from one run or from runs that overlapped, however many runs
\* and decisions there are (feedback.py:42, feedback.py:59).
THEOREM RecommendedOnceHolds == Spec => []RecommendedOnceUnlessRaced
<1>1. IInv => RecommendedOnceUnlessRaced
  <2>1. SUFFICES ASSUME IInv PROVE RecommendedOnceUnlessRaced
    OBVIOUS
  <2>2. \A r \in Runs : runs[r].pc = "ended" =>
          \A f \in runs[r].found : \E row \in rows : Alike(row.id.finding, f)
    BY <2>1 DEF IInv, RunsOverlap, OnRecord, Ids
  <2>3. \A a, b \in rows : Alike(a.id.finding, b.id.finding) =>
          a.id.run = b.id.run \/ Together(a.id.run, b.id.run)
    BY <2>1 DEF IInv, RunsOverlap, Ids
  <2>4. QED
    BY <2>2, <2>3 DEF RecommendedOnceUnlessRaced
<1>2. QED
    BY Inductive, <1>1, PTL

\* A recommendation's row agrees with the last of its decisions in the audit
\* chain, however decisions overlap (feedback.py:173).
THEOREM RowFollowsHolds == Spec => []RowFollowsTheChain
<1>1. IInv => RowFollowsTheChain
  <2>1. SUFFICES ASSUME IInv, NEW row \in rows, row.status # "proposed"
                 PROVE  /\ \E i \in DOMAIN decisions : decisions[i].id = row.id
                        /\ decisions[Last(row.id)].verdict = row.status
                        /\ decisions[Last(row.id)].by = row.decided_by
    BY DEF RowFollowsTheChain, IInv, LastDecides
  <2>2. PICK i \in DOMAIN decisions : Decides(i, row)
    BY <2>1 DEF IInv, LastDecides
  <2> DEFINE S == {j \in DOMAIN decisions : decisions[j].id = row.id}
  <2>3. S \subseteq Nat /\ i \in S /\ \A j \in S : j <= i
    BY <2>1, <2>2 DEF Decides, IInv, TypeOK
  <2>4. Last(row.id) \in S /\ \A j \in S : j <= Last(row.id)
    BY <2>3 DEF Last
  <2>5. Last(row.id) = i
    BY <2>3, <2>4
  <2>6. QED
    BY <2>2, <2>5 DEF Decides
<1>2. QED
    BY Inductive, <1>1, PTL

\* Two decisions of one recommendation come from requests that overlapped, for
\* any number of them (feedback.py:171).
THEOREM DecidedOnceHolds == Spec => []DecidedOnceUnlessRaced
<1>1. IInv => DecidedOnceUnlessRaced
    BY DEF IInv
<1>2. QED
    BY Inductive, <1>1, PTL
=============================================================================
