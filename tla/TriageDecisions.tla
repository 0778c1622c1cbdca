----------------------------- MODULE TriageDecisions ---------------------------
(***************************************************************************)
(* What the triage engine decides and what it must decide again: verdicts  *)
(* are about the content that is stored, provenance is what was read, and  *)
(* no message is forgotten, for any number of workers and engines.         *)
(***************************************************************************)
EXTENDS TriageLeases

--------------------------------------------------------------------------------
(* What a commit rests on *)

\* Whatever a busy worker has read has been assessed, or is its own message.
EvidenceAssessed ==
    \A w \in Workers, s \in Messages :
        Busy(w) /\ worker[w].seen[s] # Unseen => rev[s] > 0

\* Revisions never go back.
LEMMA RevisionsGrow ==
    ASSUME TypeOK, [Next]_vars, NEW m \in Messages
    PROVE  rev[m] <= rev'[m] /\ rev[m] \in Nat /\ rev'[m] \in Nat
<1>0. QueueTypeOK
  BY DEF TypeOK
<1>1. rev[m] \in Nat
  BY <1>0, RevAssumption DEF QueueTypeOK
<1>2. CASE Requesting \/ Assessing
  <2>1. PICK advance, asked \in SUBSET Messages :
          \E request \in [asked -> Requests] : Asks(advance, asked, request)
    BY <1>2 DEF Requesting, Assessing, Requested, Assessed
  <2>2. PICK request \in [asked -> Requests] : Asks(advance, asked, request)
    BY <2>1
  <2> QED BY <1>0, <2>2, AskedRev
<1>3. rev' = rev \/ Requesting \/ Assessing
  <2>1. ASSUME NEW w \in Workers, NEW j \in JobIds, ClaimJob(w, j) PROVE rev' = rev
    BY <2>1, ClaimShape
  <2>2. ASSUME NEW w \in Workers, Ends(w) PROVE rev' = rev
    BY <2>2 DEF Ends
  <2>3. ASSUME NEW j \in JobIds, Expire(j) PROVE rev' = rev
    BY <2>3 DEF Expire, LeaseExpires
  <2>4. Quiet => rev' = rev
    BY DEF Quiet
  <2> QED BY <2>1, <2>2, <2>3, <2>4, StepShapes
<1> QED BY <1>1, <1>2, <1>3

\* A message that is read while it has no state row is given one.
LEMMA ReadIsAssessed ==
    ASSUME TypeOK, RowsReached, NEW S \in SUBSET Messages, EnsureAssessed(S),
           NEW s \in S, Present(s), rev[s] = 0
    PROVE  rev'[s] > 0
<1>1. QueueTypeOK /\ \A j \in JobIds : j.rev \in Nat \ {0}
  BY DEF TypeOK, JobIds, Revs
<1>2. \A j \in JobIds : j.msg = s => job[j].state = "none"
  BY <1>1 DEF RowsReached
<1>3. s \in Unassessed(S)
  BY <1>2 DEF Unassessed, Active
<1> QED BY <1>1, <1>3, AssessSteps

\* A worker's notes only ever hold versions of assessed messages.
LEMMA EvidenceStep == TypeOK /\ LeaseInv /\ EvidenceAssessed /\ [Next]_vars => EvidenceAssessed'
<1> SUFFICES ASSUME TypeOK, LeaseInv, EvidenceAssessed, [Next]_vars,
                    NEW w \in Workers, NEW s \in Messages,
                    Busy(w)', worker'[w].seen[s] # Unseen
             PROVE  rev'[s] > 0
  BY DEF EvidenceAssessed, Unseen
<1>0. QueueTypeOK /\ worker[w] \in WorkerStates /\ (Busy(w) => worker[w].job \in JobIds)
  BY DEF TypeOK, Busy
<1>1. rev[s] <= rev'[s] /\ rev[s] \in Nat /\ rev'[s] \in Nat
  BY RevisionsGrow
<1>2. CASE Busy(w) /\ worker[w].seen[s] # Unseen
  BY <1>1, <1>2 DEF EvidenceAssessed
<1>3. CASE rev[s] > 0
  BY <1>1, <1>3
<1>4. CASE Begin(w) /\ rev[s] = 0
  <2> DEFINE read == {n \in Messages : FirstRead(w)[n] # Unseen}
             m    == worker[w].job.msg
  <2>1. worker'[w].seen = FirstRead(w)
    BY <1>0, <1>4 DEF Begin, TypeOK, WorkerStates
  <2>2. s \in read
    BY <2>1
  <2>3. Present(s) /\ (s = m \/ worker[w].kind = "triage")
    BY <2>1 DEF FirstRead
  <2>4. s # m
    <3>1. Busy(w)
      BY <1>4 DEF Begin, Busy
    <3>2. worker[w].job.rev \in Nat \ {0} /\ worker[w].job.rev <= rev[m]
      BY <1>0, <3>1 DEF LeaseInv, WorkReached, JobIds, Revs
    <3> QED BY <1>4, <3>2
  <2>5. EnsureAssessed(read)
    BY <1>4, <2>3, <2>4 DEF Begin
  <2>6. read \in SUBSET Messages
    OBVIOUS
  <2> HIDE DEF read
  <2> QED BY <1>4, <2>2, <2>3, <2>5, <2>6, ReadIsAssessed DEF LeaseInv
<1>5. ASSUME NEW n \in Messages, ReadEvidence(w, n), rev[s] = 0,
             ~(Busy(w) /\ worker[w].seen[s] # Unseen)
      PROVE  rev'[s] > 0
  <2>1. Busy(w) /\ worker[w].seen \in [Messages -> Versions]
    BY <1>0, <1>5 DEF ReadEvidence, Busy, WorkerStates
  <2>2. worker'[w].seen = [worker[w].seen EXCEPT ![n] = Version(n)]
    BY <1>0, <1>5 DEF ReadEvidence, TypeOK, WorkerStates
  <2>3. s = n
    BY <1>5, <2>1, <2>2
  <2>4. EnsureAssessed({s}) /\ Present(s)
    BY <1>5, <2>3 DEF ReadEvidence
  <2> QED BY <1>5, <2>4, ReadIsAssessed DEF LeaseInv
<1>6. ASSUME NEW v \in Workers, NEW j \in JobIds, ClaimJob(v, j)
      PROVE  Busy(w) /\ worker[w].seen[s] # Unseen
  BY <1>6, ClaimShape DEF Busy
<1>7. ASSUME NEW v \in Workers, Ends(v) PROVE Busy(w) /\ worker[w].seen[s] # Unseen
  BY <1>7 DEF Ends, Busy
<1>8. ASSUME NEW j \in JobIds, Expire(j) PROVE Busy(w) /\ worker[w].seen[s] # Unseen
  BY <1>0, <1>8 DEF Expire, Busy, WorkerStates
<1>9. ASSUME Steady
      PROVE  \/ Busy(w) /\ worker[w].seen[s] # Unseen
             \/ Begin(w) \/ \E n \in Messages : ReadEvidence(w, n)
  BY <1>9 DEF Steady, SameWork
<1>10. ASSUME UNCHANGED worker PROVE Busy(w) /\ worker[w].seen[s] # Unseen
  BY <1>10 DEF Busy
<1>11. rev[s] > 0 \/ rev[s] = 0
  BY <1>1
<1> QED
  BY <1>2, <1>3, <1>4, <1>5, <1>6, <1>7, <1>8, <1>9, <1>10, <1>11, StepShapes

\* What a commit may take for granted: its message's content is what it read,
\* and a decision's evidence is what is stored now.
LEMMA CommitRests ==
    ASSUME TypeOK, LeaseInv, EvidenceAssessed, NEW w \in Workers,
           NEW verdict, NEW revisit, Commit(w, verdict, revisit)
    PROVE  LET m == worker[w].job.msg
               read == {s \in Messages : worker[w].seen[s] # Unseen}
           IN  /\ m \in Messages /\ worker[w].job \in JobIds /\ Busy(w) /\ rev[m] > 0
               /\ worker[w].seen[m].rev = rev[m]
               /\ worker[w].kind = "triage" =>
                     \A s \in Messages : worker[w].seen[s].rev
                                           = IF s \in read \cup {m} THEN rev[s] ELSE 0
<1> DEFINE m    == worker[w].job.msg
           seen == worker[w].seen
           read == {s \in Messages : seen[s] # Unseen}
<1>1. /\ worker[w] \in WorkerStates /\ Busy(w) /\ worker[w].job \in JobIds /\ QueueTypeOK
      /\ ~Stale(w)
  BY DEF Commit, TypeOK, Busy
<1>2. m \in Messages /\ worker[w].job.rev \in Nat \ {0}
  BY <1>1 DEF JobIds, Revs
<1>3. \A s \in Messages : rev[s] \in Nat
  BY <1>1, RevAssumption DEF QueueTypeOK
<1>4. rev[m] > 0
  BY <1>1, <1>2, <1>3 DEF LeaseInv, WorkReached
<1>5. \A s \in Messages : rev[s] > 0 => Version(s).rev = rev[s] /\ Content(s) = rev[s]
  BY DEF Version, Content
<1>6. CASE worker[w].kind = "access"
  BY <1>1, <1>2, <1>4, <1>5, <1>6 DEF Stale
<1>7. CASE worker[w].kind = "triage"
  <2>1. \A s \in Messages : s \in Siblings(m) \/ s \in read => seen[s] = Version(s)
    BY <1>1, <1>7 DEF Stale
  <2>2. m \in Siblings(m)
    BY <1>2 DEF Siblings
  <2>3. \A s \in Messages : s \in read => rev[s] > 0
    BY <1>1 DEF EvidenceAssessed
  <2>4. \A s \in Messages : s \notin read => seen[s].rev = 0
    BY DEF Unseen
  <2> HIDE DEF m, seen, read
  <2>5. seen[m].rev = rev[m]
    BY <1>2, <1>4, <1>5, <2>1, <2>2
  <2>6. \A s \in Messages : seen[s].rev = IF s \in read \cup {m} THEN rev[s] ELSE 0
    BY <1>5, <2>1, <2>3, <2>4, <2>5
  <2> QED BY <1>1, <1>2, <1>4, <2>5, <2>6 DEF m, seen, read
<1>8. worker[w].kind \in Kinds
  BY <1>1 DEF WorkerStates
<1> QED BY <1>1, <1>2, <1>4, <1>6, <1>7, <1>8 DEF Kinds

\* The revisions of the evidence in a worker's notes.
Taken(w) == [s \in Messages |-> worker[w].seen[s].rev]

\* What a commit writes, beside its own row.
LEMMA CommitWrites ==
    ASSUME TypeOK, LeaseInv, EvidenceAssessed, NEW w \in Workers,
           NEW verdict \in Answers, NEW revisit \in BOOLEAN, Commit(w, verdict, revisit)
    PROVE  /\ human' = human /\ worker[w].job.msg \in Messages
           /\ access' = [access EXCEPT ![worker[w].job.msg] = Verdict(worker[w].job.msg, verdict)]
           /\ Verdict(worker[w].job.msg, verdict) \in Verdicts
           /\ judged' = [judged EXCEPT ![worker[w].job.msg] = rev[worker[w].job.msg]]
           /\ worker[w].kind = "access" => UNCHANGED <<sources, basis>>
           /\ worker[w].kind = "triage" =>
                 /\ basis' = [basis EXCEPT ![worker[w].job.msg] = Taken(w)]
                 /\ sources' = [sources EXCEPT ![worker[w].job.msg] = Taken(w)]
<1> DEFINE m    == worker[w].job.msg
           read == {s \in Messages : worker[w].seen[s] # Unseen}
<1>1. /\ m \in Messages /\ worker[w].seen[m].rev = rev[m]
      /\ worker[w].kind = "triage" =>
            \A s \in Messages : worker[w].seen[s].rev = IF s \in read \cup {m} THEN rev[s] ELSE 0
  BY CommitRests
<1>2. Verdict(m, verdict) \in Verdicts
  BY <1>1, InputAssumption DEF Verdict, TypeOK, QueueTypeOK
<1>3. /\ human' = human /\ access' = [access EXCEPT ![m] = Verdict(m, verdict)]
      /\ judged' = [judged EXCEPT ![m] = worker[w].seen[m].rev]
  BY DEF Commit, CommitAccess, CommitDecision
<1>4. worker[w].kind = "access" => UNCHANGED <<sources, basis>>
  BY DEF Commit, CommitAccess
<1>5. ASSUME worker[w].kind = "triage"
      PROVE  /\ basis' = [basis EXCEPT ![m] = Taken(w)]
             /\ sources' = [sources EXCEPT ![m] = Taken(w)]
  <2>1. /\ basis' = [basis EXCEPT ![m] = Taken(w)]
        /\ sources' = [sources EXCEPT ![m] =
                         [s \in Messages |-> IF s \in read \cup {m} THEN rev[s] ELSE 0]]
    BY <1>5 DEF Commit, CommitDecision, Taken
  <2>2. Taken(w) = [s \in Messages |-> IF s \in read \cup {m} THEN rev[s] ELSE 0]
    BY <1>1, <1>5 DEF Taken
  <2> QED BY <2>1, <2>2
<1> QED BY <1>1, <1>2, <1>3, <1>4, <1>5

\* A step commits, or leaves verdicts and decisions to the requests.
LEMMA OnlyCommitsWrite ==
    ASSUME TypeOK, [Next]_vars
    PROVE  \/ \E w \in Workers, verdict \in Answers, revisit \in BOOLEAN :
                 Commit(w, verdict, revisit) /\ rev' = rev
           \/ AccessFollows /\ UNCHANGED <<sources, Results>>
<1>1. ASSUME NEW w \in Workers, Ends(w), EndStep(w)
      PROVE  \/ \E verdict \in Answers, revisit \in BOOLEAN :
                   Commit(w, verdict, revisit) /\ rev' = rev
             \/ UNCHANGED <<Tables, Results, rev>>
  BY <1>1, OwnRowEnds DEF Ends, Deferred, Retried, Failed, Finished
<1>2. ASSUME NEW w \in Workers, NEW j \in JobIds, ClaimJob(w, j)
      PROVE  UNCHANGED <<Tables, Results, rev>>
  BY <1>2 DEF ClaimJob, Claim, Tables, Results
<1>3. ASSUME NEW j \in JobIds, Expire(j) PROVE UNCHANGED <<Tables, Results, rev>>
  BY <1>3 DEF Expire, LeaseExpires, Tables, Results, history
<1>4. UNCHANGED <<Tables, Results, rev>> => AccessFollows /\ UNCHANGED <<sources, Results>>
  BY DEF Tables, AccessFollows
<1>5. Quiet => rev' = rev
  BY DEF Quiet
<1> QED BY <1>1, <1>2, <1>3, <1>4, <1>5, StepShapes

\* An open or restricted verdict that no human gave is about the content that
\* is stored now: new content takes it back, and a commit checks what it read.
THEOREM VerdictsCurrent == Spec => []VerdictIsCurrent
<1>1. Init => EvidenceAssessed /\ VerdictIsCurrent
  BY DEF Init, QueueInit, EvidenceAssessed, VerdictIsCurrent, Busy, Idle
<1>2. TypeOK /\ LeaseInv /\ EvidenceAssessed /\ VerdictIsCurrent /\ [Next]_vars
        => VerdictIsCurrent'
  <2> SUFFICES ASSUME TypeOK, LeaseInv, EvidenceAssessed, VerdictIsCurrent, [Next]_vars,
                      NEW m \in Messages, access'[m] # "pending", human'[m] = "none"
               PROVE  judged'[m] = rev'[m]
    BY DEF VerdictIsCurrent
  <2>1. ASSUME NEW w \in Workers, NEW verdict \in Answers, NEW revisit \in BOOLEAN,
               Commit(w, verdict, revisit), rev' = rev
        PROVE  judged'[m] = rev'[m]
    <3>1. /\ human' = human
          /\ access' = [access EXCEPT ![worker[w].job.msg] = Verdict(worker[w].job.msg, verdict)]
          /\ judged' = [judged EXCEPT ![worker[w].job.msg] = rev[worker[w].job.msg]]
      BY <2>1, CommitWrites
    <3> QED BY <2>1, <3>1 DEF VerdictIsCurrent, TypeOK, QueueTypeOK
  <2>2. ASSUME AccessFollows, UNCHANGED Results PROVE judged'[m] = rev'[m]
    BY <2>2 DEF AccessFollows, Results, VerdictIsCurrent
  <2> QED BY <2>1, <2>2, OnlyCommitsWrite
<1> QED BY <1>1, <1>2, EvidenceStep, LeasesHold, TypeCorrect, PTL DEF Spec

\* The provenance recorded with a decision is what the model really read.
THEOREM ProvenanceIsHonest == Spec => []ProvenanceHonest
<1>1. Init => EvidenceAssessed /\ ProvenanceHonest
  BY DEF Init, QueueInit, EvidenceAssessed, ProvenanceHonest, Busy, Idle
<1>2. TypeOK /\ LeaseInv /\ EvidenceAssessed /\ ProvenanceHonest /\ [Next]_vars
        => ProvenanceHonest'
  <2> SUFFICES ASSUME TypeOK, LeaseInv, EvidenceAssessed, ProvenanceHonest, [Next]_vars
               PROVE  ProvenanceHonest'
    OBVIOUS
  <2>1. ASSUME NEW w \in Workers, NEW verdict \in Answers, NEW revisit \in BOOLEAN,
               Commit(w, verdict, revisit)
        PROVE  ProvenanceHonest'
    <3>1. \/ UNCHANGED <<sources, basis>>
          \/ /\ basis' = [basis EXCEPT ![worker[w].job.msg] = Taken(w)]
             /\ sources' = [sources EXCEPT ![worker[w].job.msg] = Taken(w)]
      <4>1. worker[w].kind \in {"triage", "access"}
        BY DEF TypeOK, WorkerStates, Kinds
      <4> QED BY <2>1, <4>1, CommitWrites
    <3> QED BY <3>1 DEF ProvenanceHonest, TypeOK, QueueTypeOK
  <2>2. ASSUME UNCHANGED <<sources, Results>> PROVE ProvenanceHonest'
    BY <2>2 DEF Results, ProvenanceHonest
  <2> QED BY <2>1, <2>2, OnlyCommitsWrite
<1> QED BY <1>1, <1>2, EvidenceStep, LeasesHold, TypeCorrect, PTL DEF Spec

--------------------------------------------------------------------------------
(* Nothing is forgotten *)

Outstanding == {"queued", "leased", "failed"}

\* How a batch of requests treats the current row of a message: a row that had
\* work keeps it, and the row of new content gets some.
LEMMA AskedCurrent ==
    ASSUME TypeOK, RowsReached, NEW advance, NEW asked, NEW request,
           Asks(advance, asked, request), NEW m \in Messages, rev'[m] > 0
    PROVE  LET now == NowJob(m, rev'[m])
               q   == request[m]
           IN  /\ now \in JobIds
               /\ m \in advance =>
                    q \in Requests /\ job'[now].state = "queued" /\ job'[now].kind = q.kind
               /\ m \notin advance =>
                    /\ rev'[m] = rev[m]
                    /\ \/ m \in asked /\ q \in Requests
                          /\ job'[now] = QueuedRow(job[now], q)
                          /\ followup'[now] = QueuedFollowup(job[now], followup[now], q)
                       \/ m \notin asked /\ job'[now] = job[now] /\ followup'[now] = followup[now]
<1> DEFINE now == NowJob(m, rev'[m])
           q   == request[m]
<1>1. QueueTypeOK
  BY DEF TypeOK
<1>2. /\ rev'[m] = IF m \in advance THEN rev[m] + 1 ELSE rev[m]
      /\ rev[m] \in Nat /\ rev'[m] \in Nat
  BY <1>1, AskedRev
<1>3. m \in advance => rev[m] < MaxRev /\ m \in asked
  BY DEF Asks
<1>4. now \in JobIds /\ now.msg = m /\ now.rev = rev'[m] /\ NowJob(now.msg, rev'[now.msg]) = now
  <2>1. rev'[m] \in Revs
    BY <1>1, <1>2, <1>3, RevAssumption DEF QueueTypeOK, Revs
  <2> QED BY <2>1 DEF NowJob, JobIds
<1>5. RowOK(job[now])
  BY <1>1, <1>4 DEF QueueTypeOK, RowOK
<1> HIDE DEF now
<1>6. \/ /\ m \in asked /\ q \in Requests
         /\ job'[now] = QueuedRow(job[now], q)
         /\ followup'[now] = QueuedFollowup(job[now], followup[now], q)
      \/ m \notin asked /\ job'[now] = job[now] /\ followup'[now] = followup[now]
  BY <1>1, <1>4, AskedRow
<1>7. ASSUME m \in advance
      PROVE  q \in Requests /\ job'[now].state = "queued" /\ job'[now].kind = q.kind
  <2>1. job[now].state = "none"
    BY <1>2, <1>4, <1>7 DEF RowsReached
  <2>2. q \in Requests /\ job'[now] = QueuedRow(job[now], q)
    BY <1>3, <1>6, <1>7
  <2> QED BY <1>5, <2>1, <2>2, QueuedRowCases DEF Restarts
<1> QED BY <1>2, <1>4, <1>6, <1>7 DEF now

\* A human's choice is never "pending".
LEMMA HumanChoiceStands ==
    ASSUME TypeOK, HumanChoiceWins, NEW m \in Messages, access[m] = "pending"
    PROVE  human[m] = "none"
BY DEF TypeOK, QueueTypeOK, HumanChoiceWins, Verdicts

\* The steps that ask for nothing.
WorkStep ==
    \/ \E w \in Workers, j \in JobIds : ClaimJob(w, j)
    \/ \E w \in Workers : Ends(w) /\ EndStep(w)
    \/ \E j \in JobIds : Expire(j)
    \/ Quiet /\ Steady /\ UNCHANGED <<Tables, Results>>

\* What they do to a row that has work outstanding.
LEMMA OutstandingRow ==
    ASSUME TypeOK, WorkStep,
           NEW j \in JobIds, job[j].state \in Outstanding
    PROVE  \/ job'[j].state \in Outstanding
           \/ \E w \in Workers, verdict \in Answers, revisit \in BOOLEAN :
                 Commit(w, verdict, revisit) /\ worker[w].job = j
<1>1. ASSUME NEW w \in Workers, Ends(w), EndStep(w)
      PROVE  \/ job'[j].state \in Outstanding
             \/ \E verdict \in Answers, revisit \in BOOLEAN :
                   Commit(w, verdict, revisit) /\ worker[w].job = j
  <2>1. CASE j # worker[w].job
    BY <1>1, <2>1 DEF Ends, Planted, Outstanding
  <2>2. CASE j = worker[w].job
    BY <1>1, <2>2, OwnRowEnds DEF Outstanding, Deferred, Retried, Failed, Finished
  <2> QED BY <2>1, <2>2
<1>2. ASSUME NEW w \in Workers, NEW k \in JobIds, ClaimJob(w, k)
      PROVE  job'[j].state \in Outstanding
  BY <1>2, ClaimShape DEF Outstanding
<1>3. ASSUME NEW k \in JobIds, Expire(k) PROVE job'[j].state \in Outstanding
  BY <1>3 DEF Expire, LeaseExpires, TypeOK, QueueTypeOK, Jobs
<1>4. Quiet => job'[j].state \in Outstanding
  BY DEF Quiet, SameRow
<1> QED BY <1>1, <1>2, <1>3, <1>4 DEF WorkStep

\* A message whose access is open keeps the job that will settle it.
LEMMA PendingStep ==
    /\ TypeOK /\ TypeOK' /\ LeaseInv /\ EvidenceAssessed /\ HumanChoiceWins'
    /\ PendingHasWork /\ [Next]_vars
    => PendingHasWork'
<1> SUFFICES ASSUME TypeOK, TypeOK', LeaseInv, EvidenceAssessed, HumanChoiceWins',
                    PendingHasWork, [Next]_vars,
                    NEW m \in Messages, rev'[m] > 0, access'[m] = "pending"
             PROVE  Current(m)'.state \in Outstanding
  BY DEF PendingHasWork, Outstanding
<1> DEFINE now == NowJob(m, rev'[m])
<1>0. QueueTypeOK /\ rev[m] \in Nat /\ Current(m)' = job'[now]
  BY RevAssumption DEF TypeOK, QueueTypeOK, Current, NowJob
<1>1. human'[m] = "none"
  BY HumanChoiceStands DEF TypeOK, QueueTypeOK, HumanChoiceWins, Verdicts
<1>2. ASSUME rev'[m] = rev[m], access[m] = "pending"
      PROVE  now \in JobIds /\ job[now].state \in Outstanding
  <2>1. job[now].state \in Outstanding
    BY <1>2 DEF PendingHasWork, Current, Outstanding
  <2>2. now \in JobIds
    BY <1>0, <1>2, RevAssumption DEF QueueTypeOK, NowJob, JobIds, Revs
  <2> QED BY <2>1, <2>2
<1>3. CASE (Requesting \/ Assessing) /\ AccessFollows
  <2>1. PICK advance, asked \in SUBSET Messages :
          \E request \in [asked -> Requests] : Asks(advance, asked, request)
    BY <1>3 DEF Requesting, Assessing, Requested, Assessed
  <2>2. PICK request \in [asked -> Requests] : Asks(advance, asked, request)
    BY <2>1
  <2>3. CASE m \in advance
    BY <1>0, <2>2, <2>3, AskedCurrent DEF LeaseInv, Outstanding
  <2>4. CASE m \notin advance
    <3>1. rev'[m] = rev[m]
      BY <1>0, <2>2, <2>4, AskedRev
    <3>2. access[m] = "pending"
      BY <1>1, <1>3, <3>1 DEF AccessFollows
    <3>3. now \in JobIds /\ job[now].state \in Outstanding
      BY <1>2, <3>1, <3>2
    <3> HIDE DEF now
    <3>4. RowOK(job[now])
      BY <1>0, <3>3 DEF QueueTypeOK, RowOK
    <3>5. \/ request[m] \in Requests /\ job'[now] = QueuedRow(job[now], request[m])
          \/ job'[now] = job[now]
      BY <2>2, <2>4, AskedCurrent DEF LeaseInv, now
    <3>6. job'[now].state \in Outstanding
      BY <3>3, <3>4, <3>5, QueuedRowCases DEF Outstanding
    <3> QED BY <1>0, <3>6
  <2> QED BY <2>3, <2>4
<1>4. CASE WorkStep
  <2>1. rev'[m] = rev[m]
    <3>1. ASSUME NEW w \in Workers, NEW j \in JobIds, ClaimJob(w, j) PROVE rev' = rev
      BY <3>1, ClaimShape
    <3>2. ASSUME NEW j \in JobIds, Expire(j) PROVE rev' = rev
      BY <3>2 DEF Expire, LeaseExpires
    <3> QED BY <1>4, <3>1, <3>2 DEF WorkStep, Ends, Quiet
  <2>2. CASE \E w \in Workers, verdict \in Answers, revisit \in BOOLEAN :
                Commit(w, verdict, revisit)
    <3>1. PICK w \in Workers, verdict \in Answers, revisit \in BOOLEAN :
             Commit(w, verdict, revisit)
      BY <2>2
    <3>2. /\ access' = [access EXCEPT ![worker[w].job.msg] = Verdict(worker[w].job.msg, verdict)]
          /\ Verdict(worker[w].job.msg, verdict) \in Verdicts
      BY <3>1, CommitWrites
    <3>3. worker[w].job.msg # m /\ access[m] = "pending"
      BY <1>0, <3>2 DEF QueueTypeOK, Verdicts
    <3>4. now \in JobIds /\ job[now].state \in Outstanding
      BY <1>2, <2>1, <3>3
    <3>5. Ends(w)
      BY <3>1, EndingsEnd DEF EndStep
    <3>6. worker[w].job # now
      BY <3>3 DEF NowJob
    <3>7. job'[now].state \in Outstanding
      BY <3>4, <3>5, <3>6 DEF Ends, Planted, Outstanding
    <3> QED BY <1>0, <3>7
  <2>3. CASE ~\E w \in Workers, verdict \in Answers, revisit \in BOOLEAN :
                Commit(w, verdict, revisit)
    <3>1. access[m] = "pending"
      BY <1>1, <2>1, <2>3, OnlyCommitsWrite DEF AccessFollows
    <3>2. now \in JobIds /\ job[now].state \in Outstanding
      BY <1>2, <2>1, <3>1
    <3> HIDE DEF now
    <3>3. job'[now].state \in Outstanding
      BY <1>4, <2>3, <3>2, OutstandingRow
    <3> QED BY <1>0, <3>3
  <2> QED BY <2>2, <2>3
<1> QED BY <1>3, <1>4, StepShapes DEF WorkStep

\* Reads are of assessed mail, whatever runs beside them.
LEMMA EvidenceHolds == Spec => []EvidenceAssessed
<1>1. Init => EvidenceAssessed
  BY DEF Init, EvidenceAssessed, Busy, Idle
<1> QED BY <1>1, EvidenceStep, LeasesHold, TypeCorrect, PTL DEF Spec

\* No message is orphaned as pending: no closing, finishing, merging or lost
\* lease leaves it without the job that will settle its access.
THEOREM PendingIsWorked == Spec => []PendingHasWork
<1>1. Init => PendingHasWork
  BY DEF Init, QueueInit, PendingHasWork
<1> QED
  BY <1>1, PendingStep, EvidenceHolds, LeasesHold, HumansOutrank, TypeCorrect, PTL DEF Spec

--------------------------------------------------------------------------------
(* A decision whose evidence changed is made again *)

\* Nothing but access reviews is ever asked, held or done for a sent copy.
SentRow(row, f) == /\ row.state # "none" => row.kind = "access"
                   /\ f.kind = "access"
SentInv ==
    /\ \A j \in JobIds : j.msg \in Sent => SentRow(job[j], followup[j])
    /\ \A w \in Workers : Busy(w) /\ worker[w].job.msg \in Sent => worker[w].kind = "access"

\* Decisions are made about received mail, from revisions that were reached.
BasisReached ==
    \A m, s \in Messages : /\ basis[m][s] <= rev[s]
                           /\ basis[m][s] > 0 => rev[m] > 0 /\ m \notin Sent

\* The row of a message whose decision must be made again: it will end in a
\* full investigation, the one under way or the one that waits behind it.
RedoRow(row, f) ==
    /\ row.state \in Outstanding
    /\ row.state = "queued" => row.kind = "triage"
    /\ row.state = "leased" => row.kind = "triage" \/ (f.some /\ f.kind = "triage")

Outdated(m) == \E s \in Messages : basis[m][s] > 0 /\ basis[m][s] < rev[s]
Redone == \A m \in Messages : Outdated(m) => RedoRow(Current(m), followup[NowJob(m, rev[m])])

DecisionInv == SentInv /\ BasisReached /\ Redone

\* A request for an access review leaves a sent copy's row one of its kind.
LEMMA SentRequest ==
    ASSUME NEW row, RowOK(row), NEW f, SentRow(row, f), NEW q \in Requests, q.kind = "access"
    PROVE  /\ SentRow(QueuedRow(row, q), QueuedFollowup(row, f, q))
           /\ SentRow(ClosedRow(row), NoFollowup)
<1>1. SentRow(ClosedRow(row), NoFollowup)
  BY DEF SentRow, ClosedRow, Completed, NoJob, NoFollowup, Active
<1>2. row.state # "none" => MergedKind(row.kind, q.kind) = "access"
  BY DEF SentRow, MergedKind
<1>3. QueuedRow(row, q).kind = "access"
  BY <1>2, QueuedRowCases DEF SentRow, Restarts
<1>4. QueuedFollowup(row, f, q).kind = "access"
  BY <1>2 DEF SentRow, QueuedFollowup, SomeFollowup, MergedKind
<1> QED BY <1>1, <1>3, <1>4 DEF SentRow

\* The row of a job that ends, seen by its kind.
LEMMA EndedKind ==
    ASSUME TypeOK, NEW w \in Workers, Ends(w), EndStep(w),
           OwnsLease(worker[w].job, worker[w].token)
    PROVE  LET j    == worker[w].job
               kind == MergedKind(job[j].kind, followup[j].kind)
           IN  /\ followup'[j] = NoFollowup
               /\ \/ job'[j].state = "queued" /\ job'[j].kind = kind
                  \/ job'[j].state = "failed" /\ job'[j].kind = job[j].kind
                  \/ /\ job'[j].state = "completed" /\ job'[j].kind = job[j].kind
                     /\ ~followup[j].some
                     /\ \E verdict \in Answers, revisit \in BOOLEAN : Commit(w, verdict, revisit)
<1> DEFINE j == worker[w].job
<1>1. RowOK(job[j]) /\ followup[j] \in Followups
  BY DEF Ends, TypeOK, Busy, QueueTypeOK, RowOK
<1>2. followup'[j] = NoFollowup /\ (Deferred(w) \/ Retried(w) \/ Failed(w) \/ Finished(w))
  BY OwnRowEnds
<1>3. CASE Finished(w)
  BY <1>1, <1>2, <1>3, FinishedRowShape DEF Finished, Followups
<1> QED BY <1>1, <1>2, <1>3 DEF Deferred, Retried, Failed, Merged

\* Whatever an engine, a human or new mail queues for a sent copy is an access review.
LEMMA SentStep == TypeOK /\ SentInv /\ [Next]_vars => SentInv'
<1> SUFFICES ASSUME TypeOK, SentInv, [Next]_vars PROVE SentInv'
  OBVIOUS
<1>0. /\ QueueTypeOK /\ \A j \in JobIds : RowOK(job[j]) /\ followup[j] \in Followups
      /\ \A w \in Workers : Busy(w) => worker[w].job \in JobIds
  BY DEF TypeOK, QueueTypeOK, RowOK, Busy
<1>1. ASSUME Requesting \/ Assessing, Steady PROVE SentInv'
  <2>1. PICK advance, asked \in SUBSET Messages :
          \E request \in [asked -> Requests] :
             /\ Asks(advance, asked, request)
             /\ \A n \in asked : n \in Sent => request[n].kind = "access"
    BY <1>1 DEF Requesting, Assessing, Requested, Assessed
  <2>2. PICK request \in [asked -> Requests] :
             /\ Asks(advance, asked, request)
             /\ \A n \in asked : n \in Sent => request[n].kind = "access"
    BY <2>1
  <2>3. ASSUME NEW j \in JobIds, j.msg \in Sent PROVE SentRow(job'[j], followup'[j])
    <3>1. SentRow(job[j], followup[j]) /\ RowOK(job[j])
      BY <1>0, <2>3 DEF SentInv
    <3>2. CASE job'[j] = ClosedRow(job[j]) /\ followup'[j] = NoFollowup
      BY <3>2, <3>1 DEF SentRow, ClosedRow, Completed, NoJob, NoFollowup, Active
    <3>3. CASE /\ j.msg \in asked /\ request[j.msg] \in Requests
               /\ job'[j] = QueuedRow(job[j], request[j.msg])
               /\ followup'[j] = QueuedFollowup(job[j], followup[j], request[j.msg])
      BY <2>2, <2>3, <3>1, <3>3, SentRequest
    <3>4. CASE job'[j] = job[j] /\ followup'[j] = followup[j]
      BY <3>1, <3>4
    <3> QED BY <1>0, <2>2, <3>2, <3>3, <3>4, AskedRow
  <2> QED BY <1>1, <2>3 DEF SentInv, Steady, SameWork
<1>2. ASSUME NEW w \in Workers, NEW j \in JobIds, ClaimJob(w, j) PROVE SentInv'
  <2>1. ASSUME NEW k \in JobIds, k.msg \in Sent PROVE SentRow(job'[k], followup'[k])
    BY <1>2, <2>1, ClaimShape DEF SentInv, SentRow, Active
  <2>2. ASSUME NEW v \in Workers, Busy(v)', worker'[v].job.msg \in Sent
        PROVE  worker'[v].kind = "access"
    BY <1>2, <2>2, ClaimShape DEF SentInv, SentRow, Active, Busy
  <2> QED BY <2>1, <2>2 DEF SentInv
<1>3. ASSUME NEW w \in Workers, Ends(w), EndStep(w) PROVE SentInv'
  <2>1. ASSUME NEW k \in JobIds, k.msg \in Sent PROVE SentRow(job'[k], followup'[k])
    <3>1. CASE k # worker[w].job \/ ~OwnsLease(worker[w].job, worker[w].token)
      BY <1>3, <2>1, <3>1 DEF Ends, SentInv
    <3>2. CASE k = worker[w].job /\ OwnsLease(worker[w].job, worker[w].token)
      <4>1. SentRow(job[k], followup[k]) /\ job[k].state # "none"
        BY <2>1, <3>2 DEF SentInv, OwnsLease
      <4>2. MergedKind(job[k].kind, followup[k].kind) = "access"
        BY <4>1 DEF SentRow, MergedKind
      <4> QED BY <1>3, <3>2, <4>1, <4>2, EndedKind DEF SentRow, NoFollowup
    <3> QED BY <3>1, <3>2
  <2> QED BY <1>3, <2>1 DEF SentInv, Ends, Busy
<1>4. ASSUME NEW j \in JobIds, Expire(j) PROVE SentInv'
  <2>1. \A k \in JobIds : /\ job'[k].state = job[k].state /\ job'[k].kind = job[k].kind
                          /\ followup'[k] = followup[k]
    BY <1>0, <1>4 DEF Expire, LeaseExpires, QueueTypeOK, Jobs
  <2>2. \A v \in Workers : /\ worker'[v].phase = worker[v].phase
                           /\ worker'[v].job = worker[v].job /\ worker'[v].kind = worker[v].kind
    BY <1>4 DEF Expire, TypeOK, WorkerStates
  <2> QED BY <2>1, <2>2 DEF SentInv, SentRow, Busy
<1>5. ASSUME Quiet, Steady PROVE SentInv'
  BY <1>5 DEF Quiet, SameRow, Steady, SameWork, SentInv, SentRow
<1>6. UNCHANGED worker => Steady
  BY DEF Steady, SameWork, Busy
<1> QED BY <1>1, <1>2, <1>3, <1>4, <1>5, <1>6, StepShapes

\* What a decision's recorded basis may become: what was just read of received
\* mail, all of it current, or what it was.
LEMMA BasisWrites ==
    ASSUME TypeOK, LeaseInv, EvidenceAssessed, SentInv, [Next]_vars, NEW m \in Messages
    PROVE  \/ basis'[m] = basis[m]
           \/ /\ rev' = rev /\ rev[m] > 0 /\ m \notin Sent
              /\ \A s \in Messages : basis'[m][s] \in {0, rev[s]}
<1>1. ASSUME NEW w \in Workers, NEW verdict \in Answers, NEW revisit \in BOOLEAN,
             Commit(w, verdict, revisit), rev' = rev, basis'[m] # basis[m]
      PROVE  /\ rev[m] > 0 /\ m \notin Sent
             /\ \A s \in Messages : basis'[m][s] \in {0, rev[s]}
  <2>1. worker[w].kind \in {"triage", "access"} /\ basis \in [Messages -> [Messages -> 0..MaxRev]]
    BY DEF TypeOK, WorkerStates, Kinds
  <2>2. /\ worker[w].kind = "triage" /\ worker[w].job.msg = m
        /\ basis'[m] = Taken(w)
    BY <1>1, <2>1, CommitWrites
  <2>3. /\ Busy(w) /\ rev[m] > 0
        /\ \A s \in Messages : worker[w].seen[s].rev \in {0, rev[s]}
    BY <1>1, <2>2, CommitRests
  <2>4. m \notin Sent
    BY <2>2, <2>3 DEF SentInv
  <2> QED BY <2>2, <2>3, <2>4 DEF Taken
<1>2. UNCHANGED Results => basis'[m] = basis[m]
  BY DEF Results
<1> QED BY <1>1, <1>2, OnlyCommitsWrite

\* A commit of a full investigation is of received mail and cites revisions of its snapshot.
LEMMA BasisStep ==
    TypeOK /\ LeaseInv /\ EvidenceAssessed /\ SentInv /\ BasisReached /\ [Next]_vars
        => BasisReached'
<1> SUFFICES ASSUME TypeOK, LeaseInv, EvidenceAssessed, SentInv, BasisReached, [Next]_vars,
                    NEW m \in Messages, NEW s \in Messages
             PROVE  /\ basis'[m][s] <= rev'[s]
                    /\ basis'[m][s] > 0 => rev'[m] > 0 /\ m \notin Sent
  BY DEF BasisReached
<1>1. /\ rev[m] <= rev'[m] /\ rev[m] \in Nat /\ rev'[m] \in Nat
      /\ rev[s] <= rev'[s] /\ rev[s] \in Nat /\ rev'[s] \in Nat
  BY RevisionsGrow
<1>2. basis[m][s] \in Nat
  BY RevAssumption DEF TypeOK
<1>3. CASE basis'[m] = basis[m]
  BY <1>1, <1>2, <1>3 DEF BasisReached
<1> QED BY <1>1, <1>3, BasisWrites

\* A request for an investigation sees to it that the row will make one, if it
\* comes with a change, or keeps a row that will.
LEMMA RequestRedoes ==
    ASSUME NEW row, RowOK(row), NEW f, NEW q \in Requests, q.kind = "triage",
           q.trig = "refresh" \/ RedoRow(row, f)
    PROVE  RedoRow(QueuedRow(row, q), QueuedFollowup(row, f, q))
<1>1. MergedKind(row.kind, q.kind) = "triage"
  BY DEF MergedKind
<1>2. CASE QueuedRow(row, q).state = "queued"
  <2>1. QueuedRow(row, q).kind = "triage"
    BY <1>1, <1>2, QueuedRowCases
  <2> QED BY <1>2, <2>1 DEF RedoRow, Outstanding
<1>3. CASE QueuedRow(row, q).state = "leased"
  <2>1. row.state = "leased"
    BY <1>3, QueuedRowCases
  <2>2. QueuedFollowup(row, f, q).some /\ QueuedFollowup(row, f, q).kind = "triage"
    BY <1>1, <2>1 DEF QueuedFollowup, SomeFollowup, MergedKind
  <2> QED BY <1>3, <2>2 DEF RedoRow, Outstanding
<1>4. CASE QueuedRow(row, q).state = "failed"
  BY <1>4 DEF RedoRow, Outstanding
<1>5. QueuedRow(row, q).state \in Outstanding
  BY QueuedRowCases DEF RedoRow, Outstanding, Restarts, IngestFamily, RowOK, Jobs, JobStates
<1> QED BY <1>2, <1>3, <1>4, <1>5 DEF Outstanding

\* The work steps keep the row of an outdated decision on its way.
LEMMA RedoWork ==
    ASSUME TypeOK, LeaseInv, ClaimedAs, WorkStep,
           NEW j \in JobIds, RedoRow(job[j], followup[j])
    PROVE  \/ RedoRow(job'[j], followup'[j])
           \/ \E w \in Workers, verdict \in Answers, revisit \in BOOLEAN :
                 Commit(w, verdict, revisit) /\ worker[w].job = j /\ worker[w].kind = "triage"
<1>0. /\ QueueTypeOK /\ RowOK(job[j]) /\ followup[j] \in Followups
      /\ \A w \in Workers : worker[w].kind \in Kinds
  BY DEF TypeOK, QueueTypeOK, RowOK, WorkerStates
<1>1. ASSUME NEW w \in Workers, Ends(w), EndStep(w)
      PROVE  \/ RedoRow(job'[j], followup'[j])
             \/ \E verdict \in Answers, revisit \in BOOLEAN :
                   Commit(w, verdict, revisit) /\ worker[w].job = j /\ worker[w].kind = "triage"
  <2>1. CASE j # worker[w].job \/ ~OwnsLease(worker[w].job, worker[w].token)
    BY <1>1, <2>1 DEF Ends, Planted, RedoRow, Outstanding
  <2>2. CASE j = worker[w].job /\ OwnsLease(worker[w].job, worker[w].token)
    <3>1. /\ job[j].state = "leased" /\ job[j].kind = worker[w].kind
          /\ job[j].kind = "triage" \/ (followup[j].some /\ followup[j].kind = "triage")
      BY <1>1, <2>2 DEF RedoRow, OwnsLease, ClaimedAs, Ends
    <3>2. MergedKind(job[j].kind, followup[j].kind) = "triage"
      BY <3>1 DEF MergedKind
    <3> QED BY <1>1, <2>2, <3>1, <3>2, EndedKind DEF RedoRow, Outstanding
  <2> QED BY <2>1, <2>2
<1>2. ASSUME NEW w \in Workers, NEW k \in JobIds, ClaimJob(w, k)
      PROVE  RedoRow(job'[j], followup'[j])
  BY <1>2, ClaimShape DEF RedoRow, Outstanding, Active
<1>3. ASSUME NEW k \in JobIds, Expire(k) PROVE RedoRow(job'[j], followup'[j])
  <2>1. /\ job'[j].state = job[j].state /\ job'[j].kind = job[j].kind
        /\ followup'[j] = followup[j]
    BY <1>0, <1>3 DEF Expire, LeaseExpires, QueueTypeOK, Jobs
  <2> QED BY <2>1 DEF RedoRow
<1>4. Quiet => RedoRow(job'[j], followup'[j])
  BY DEF Quiet, SameRow, RedoRow
<1> QED BY <1>1, <1>2, <1>3, <1>4 DEF WorkStep

\* Content that changes calls again for every decision that rests on it, and
\* nothing that happens later loses the call.
LEMMA RedoneStep ==
    /\ TypeOK /\ LeaseInv /\ ClaimedAs /\ EvidenceAssessed /\ ProvenanceHonest
    /\ DecisionInv /\ [Next]_vars
    => Redone'
<1> SUFFICES ASSUME TypeOK, LeaseInv, ClaimedAs, EvidenceAssessed, ProvenanceHonest,
                    SentInv, BasisReached, Redone, [Next]_vars,
                    NEW m \in Messages, NEW s \in Messages,
                    basis'[m][s] > 0, basis'[m][s] < rev'[s]
             PROVE  RedoRow(job'[NowJob(m, rev'[m])], followup'[NowJob(m, rev'[m])])
  BY DEF DecisionInv, Redone, Outdated, Current
<1> DEFINE now == NowJob(m, rev'[m])
<1>0. /\ QueueTypeOK /\ rev[m] \in Nat /\ rev[s] \in Nat /\ rev'[s] \in Nat
      /\ basis[m][s] \in Nat
  BY RevisionsGrow, RevAssumption DEF TypeOK
<1>1. basis'[m] = basis[m]
  BY <1>0, BasisWrites
<1>2. basis[m][s] > 0 /\ rev[m] > 0 /\ m \notin Sent /\ rev[s] > 0
  BY <1>0, <1>1 DEF BasisReached
<1>3. basis[m][s] < rev[s] => RedoRow(job[NowJob(m, rev[m])], followup[NowJob(m, rev[m])])
  BY <1>2 DEF Redone, Outdated, Current
<1>4. ASSUME rev'[m] = rev[m] PROVE now \in JobIds /\ RowOK(job[now])
  <2>1. now \in JobIds
    BY <1>0, <1>2, <1>4 DEF QueueTypeOK, NowJob, JobIds, Revs
  <2> QED BY <1>0, <2>1 DEF QueueTypeOK, RowOK
<1>5. CASE Requesting
  <2>1. PICK advance, asked \in SUBSET Messages :
          \E request \in [asked -> Requests] : Requested(advance, asked, request)
    BY <1>5 DEF Requesting
  <2>2. PICK request \in [asked -> Requests] : Requested(advance, asked, request)
    BY <2>1
  <2>3. Asks(advance, asked, request) /\ rev'[m] > 0
    BY <1>0, <1>2, <2>2, RevisionsGrow DEF Requested
  <2>4. m \in asked => request[m] \in Requests /\ request[m].kind = "triage"
    BY <1>2, <2>2 DEF Requested, Asks
  <2>5. CASE m \in advance
    <3>1. m \in asked
      BY <2>3, <2>5 DEF Asks
    <3>2. job'[now].state = "queued" /\ job'[now].kind = "triage"
      BY <2>3, <2>4, <2>5, <3>1, AskedCurrent DEF LeaseInv
    <3> QED BY <3>2 DEF RedoRow, Outstanding
  <2>6. CASE m \notin advance
    <3>1. rev'[m] = rev[m]
      BY <1>0, <2>3, <2>6, AskedRev
    <3>2. basis[m][s] < rev[s] \/ (m \in asked /\ request[m].trig = "refresh")
      <4>1. CASE s \in advance
        BY <1>2, <2>2, <2>6, <4>1 DEF Requested, ProvenanceHonest
      <4>2. CASE s \notin advance
        BY <1>0, <1>1, <2>3, <4>2, AskedRev
      <4> QED BY <4>1, <4>2
    <3>3. \/ /\ m \in asked /\ request[m] \in Requests
             /\ job'[now] = QueuedRow(job[now], request[m])
             /\ followup'[now] = QueuedFollowup(job[now], followup[now], request[m])
          \/ m \notin asked /\ job'[now] = job[now] /\ followup'[now] = followup[now]
      BY <2>3, <2>6, AskedCurrent DEF LeaseInv
    <3>4. basis[m][s] < rev[s] => RedoRow(job[now], followup[now])
      BY <1>3, <3>1
    <3>5. RowOK(job[now])
      BY <1>4, <3>1
    <3> HIDE DEF now
    <3>6. RedoRow(job'[now], followup'[now])
      BY <2>4, <3>2, <3>3, <3>4, <3>5, RequestRedoes
    <3> QED BY <3>6 DEF now
  <2> QED BY <2>5, <2>6
<1>6. CASE Assessing
  <2>1. PICK advance, asked \in SUBSET Messages :
          \E request \in [asked -> Requests] : Assessed(advance, asked, request)
    BY <1>6 DEF Assessing
  <2>2. PICK request \in [asked -> Requests] : Assessed(advance, asked, request)
    BY <2>1
  <2>3. m \notin advance /\ s \notin advance
    BY <1>2, <2>2 DEF Assessed
  <2>4. rev'[m] = rev[m] /\ rev'[s] = rev[s]
    BY <1>0, <2>2, <2>3, AskedRev DEF Assessed
  <2>5. RedoRow(job[now], followup[now]) /\ now \in JobIds
    BY <1>1, <1>3, <1>4, <2>4
  <2> HIDE DEF now
  <2>6. job'[now] = job[now] /\ followup'[now] = followup[now]
    BY <2>2, <2>5, AssessedRow DEF LeaseInv, RedoRow, Outstanding
  <2> QED BY <2>5, <2>6 DEF now
<1>7. CASE WorkStep
  <2>1. rev' = rev
    <3>1. ASSUME NEW w \in Workers, NEW j \in JobIds, ClaimJob(w, j) PROVE rev' = rev
      BY <3>1, ClaimShape
    <3>2. ASSUME NEW j \in JobIds, Expire(j) PROVE rev' = rev
      BY <3>2 DEF Expire, LeaseExpires
    <3> QED BY <1>7, <3>1, <3>2 DEF WorkStep, Ends, Quiet
  <2>2. RedoRow(job[now], followup[now]) /\ now \in JobIds
    BY <1>1, <1>3, <1>4, <2>1
  <2>3. ASSUME NEW w \in Workers, NEW verdict \in Answers, NEW revisit \in BOOLEAN,
               Commit(w, verdict, revisit), worker[w].job = now, worker[w].kind = "triage"
        PROVE  FALSE
    <3>1. worker[w].job.msg = m
      BY <2>3 DEF NowJob
    <3>2. basis'[m] = Taken(w)
      BY <2>3, <3>1, CommitWrites DEF TypeOK
    <3>3. worker[w].seen[s].rev \in {0, rev[s]}
      BY <2>3, CommitRests
    <3> QED BY <1>0, <2>1, <3>2, <3>3 DEF Taken
  <2> HIDE DEF now
  <2>4. RedoRow(job'[now], followup'[now])
    BY <1>7, <2>2, <2>3, RedoWork
  <2> QED BY <2>4 DEF now
<1> QED BY <1>5, <1>6, <1>7, StepShapes DEF WorkStep

\* Nothing is forgotten: a message that is pending, or whose decision rests on
\* evidence that has changed since, keeps a job that will come to it, or one
\* that has failed for good.
THEOREM DecisionsRedone == Spec => []NothingForgotten
<1>1. Init => ClaimedAs /\ DecisionInv
  <2> SUFFICES ASSUME Init PROVE ClaimedAs /\ DecisionInv
    OBVIOUS
  <2>1. \A j \in JobIds : job[j].state = "none" /\ followup[j].kind = "access"
    BY DEF Init, QueueInit, NoJob, NoFollowup
  <2>2. \A w \in Workers : ~Busy(w)
    BY DEF Init, Busy, Idle
  <2>3. \A m, s \in Messages : basis[m][s] = 0 /\ rev[s] = 0
    BY DEF Init, QueueInit
  <2> QED
    BY <2>1, <2>2, <2>3
    DEF ClaimedAs, DecisionInv, SentInv, SentRow, BasisReached, Redone, Outdated
<1>2. TypeOK /\ LeaseInv /\ ClaimedAs /\ EvidenceAssessed /\ ProvenanceHonest
        /\ DecisionInv /\ [Next]_vars => DecisionInv'
  BY SentStep, BasisStep, RedoneStep DEF DecisionInv
<1>3. DecisionInv => StaleDecisionQueued
  BY DEF DecisionInv, Redone, RedoRow, Outdated, Outstanding, StaleDecisionQueued
<1> QED
  BY <1>1, <1>2, <1>3, ClaimedAsStep, EvidenceHolds, ProvenanceIsHonest, PendingIsWorked,
     LeasesHold, TypeCorrect, PTL DEF Spec, NothingForgotten
================================================================================
