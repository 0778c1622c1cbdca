------------------------------ MODULE TriageLeases -----------------------------
(***************************************************************************)
(* Leases, attempts and follow-ups of the triage engine, for any number of *)
(* workers and engines.  Every step is one of six shapes (StepShapes): a   *)
(* batch of requests from mail or a human, a batch of access reviews for   *)
(* evidence, a claim, the ending of a worker's job, a lease that runs out, *)
(* or a step that touches no lease.  The inductive invariants are proved   *)
(* shape by shape.                                                         *)
(***************************************************************************)
EXTENDS TriageProofs

--------------------------------------------------------------------------------
(* Every step, by what it does to the queue *)

\* A batch of requests, as every door of the store issues it.
Asks(advance, asked, request) ==
    /\ advance \subseteq asked
    /\ asked \subseteq Messages
    /\ request \in [asked -> Requests]
    /\ \A n \in advance : rev[n] < MaxRev
    /\ Apply(advance, asked, request)

\* A worker that is still busy afterwards holds the same job as before, and has
\* seen more only by reading.
SameWork(v) ==
    /\ Busy(v)
    /\ worker'[v].job = worker[v].job /\ worker'[v].token = worker[v].token
    /\ worker'[v].kind = worker[v].kind /\ worker'[v].attempts = worker[v].attempts
    /\ worker[v].late => worker'[v].late
    /\ \/ worker'[v].seen = worker[v].seen
       \/ Begin(v) \/ \E s \in Messages : ReadEvidence(v, s)

Steady == \A v \in Workers : Busy(v)' => SameWork(v)

\* Nothing but availability and lanes changes.
SameRow(new, old) ==
    /\ new.state = old.state /\ new.token = old.token /\ new.kind = old.kind
    /\ new.attempts = old.attempts /\ new.live = old.live

Quiet ==
    /\ UNCHANGED <<rev, followup, charged>>
    /\ \A j \in JobIds : SameRow(job'[j], job[j])

\* A worker lets its job go.  Its own row changes only while it owns the lease;
\* beside it at most a revisit timer is planted.
Planted(j) == /\ job[j].state = "none" /\ job'[j].state = "queued"
              /\ job'[j].attempts = 0 /\ j.rev = rev[j.msg]

Ends(w) ==
    /\ Busy(w) /\ ~Busy(w)'
    /\ \A v \in Workers \ {w} : worker'[v] = worker[v]
    /\ rev' = rev
    /\ \A j \in JobIds \ {worker[w].job} :
          /\ \/ job'[j] = job[j]
             \/ /\ Planted(j)
                /\ j.msg = worker[w].job.msg /\ worker[w].kind # "access"
          /\ followup'[j] = followup[j]
    /\ ~OwnsLease(worker[w].job, worker[w].token) => UNCHANGED <<job, followup>>

\* What a batch of requests does to one row: its revision is over, it is asked
\* for, or it is left alone.
LEMMA AskedRow ==
    ASSUME QueueTypeOK, NEW advance, NEW asked, NEW request,
           Asks(advance, asked, request), NEW j \in JobIds
    PROVE  /\ rev'[j.msg] = IF j.msg \in advance THEN rev[j.msg] + 1 ELSE rev[j.msg]
           /\ \/ /\ j.msg \in advance /\ j.rev # rev'[j.msg]
                 /\ job'[j] = ClosedRow(job[j]) /\ followup'[j] = NoFollowup
              \/ /\ j.msg \in asked /\ j = NowJob(j.msg, rev'[j.msg])
                 /\ request[j.msg] \in Requests
                 /\ job'[j] = QueuedRow(job[j], request[j.msg])
                 /\ followup'[j] = QueuedFollowup(job[j], followup[j], request[j.msg])
              \/ /\ j.msg \in advance => j.rev = rev'[j.msg]
                 /\ ~(j.msg \in asked /\ j = NowJob(j.msg, rev'[j.msg]))
                 /\ job'[j] = job[j] /\ followup'[j] = followup[j]
<1> DEFINE next == [m \in Messages |-> IF m \in advance THEN rev[m] + 1 ELSE rev[m]]
           over(i)   == \E m \in advance : Superseded(m, next[m], i)
           closed(i) == IF over(i) THEN ClosedRow(job[i]) ELSE job[i]
           kept(i)   == IF over(i) THEN NoFollowup ELSE followup[i]
           hit(i)    == i.msg \in asked /\ i = NowJob(i.msg, next[i.msg])
<1>1. /\ rev' = next
      /\ job' = [i \in JobIds |->
                   IF hit(i) THEN QueuedRow(closed(i), request[i.msg]) ELSE closed(i)]
      /\ followup' = [i \in JobIds |->
                        IF hit(i) THEN QueuedFollowup(closed(i), kept(i), request[i.msg])
                        ELSE kept(i)]
  BY DEF Asks, Apply
<1>2. j.msg \in Messages
  BY DEF JobIds
<1>3. over(j) <=> j.msg \in advance /\ j.rev # next[j.msg]
  BY DEF Superseded
<1>4. hit(j) => ~over(j)
  <2>1. j = NowJob(j.msg, next[j.msg]) => j.rev = next[j.msg]
    BY DEF NowJob
  <2> QED BY <1>3, <2>1
<1>5. hit(j) => request[j.msg] \in Requests
  BY DEF Asks
<1>6. next[j.msg] = IF j.msg \in advance THEN rev[j.msg] + 1 ELSE rev[j.msg]
  BY <1>2
<1> HIDE DEF next, over, hit
<1> QED BY <1>1, <1>3, <1>4, <1>5, <1>6 DEF hit

\* What a request does to the row it names.
LEMMA QueuedRowCases ==
    ASSUME NEW row, RowOK(row), NEW q \in Requests
    PROVE  LET new  == QueuedRow(row, q)
               kind == MergedKind(row.kind, q.kind)
           IN  \/ /\ row.state = "none"
                  /\ new.state = "queued" /\ new.attempts = 0 /\ new.kind = q.kind
               \/ /\ Restarts(row, q.trig)
                  /\ new.state = "queued" /\ new.attempts = 0 /\ new.kind = kind
               \/ /\ row.state \in {"queued", "failed"} /\ ~Restarts(row, q.trig)
                  /\ new.state = row.state /\ new.attempts = row.attempts /\ new.kind = kind
               \/ /\ row.state \in {"leased", "completed"} /\ ~Restarts(row, q.trig)
                  /\ new = row
<1> DEFINE kind == MergedKind(row.kind, q.kind)
           fg   == q.requested /\ kind = "triage"
<1>1. CASE row.state = "none"
  BY <1>1 DEF QueuedRow, NoJob
<1>2. CASE row.state # "none" /\ Restarts(row, q.trig)
  <2>1. QueuedRow(row, q) = Requeued(row, kind, fg)
    BY <1>2 DEF QueuedRow
  <2> HIDE DEF kind, fg
  <2>2. /\ Requeued(row, kind, fg).state = "queued" /\ Requeued(row, kind, fg).attempts = 0
        /\ Requeued(row, kind, fg).kind = kind
    BY DEF RowOK, Jobs, Requeued
  <2> QED BY <1>2, <2>1, <2>2 DEF kind
<1>3. CASE row.state \in {"queued", "failed"} /\ ~Restarts(row, q.trig)
  <2> DEFINE up   == Unparks(row, q.requested, kind)
             fore == row.foreground \/ q.foreground
             due  == row.due \/ up
             park == row.parked /\ ~up
  <2>1. QueuedRow(row, q) = [row EXCEPT !.kind = kind, !.foreground = fore,
                                        !.due = due, !.parked = park]
    BY <1>3 DEF QueuedRow
  <2> HIDE DEF kind, up, fore, due, park
  <2>2. /\ QueuedRow(row, q).state = row.state /\ QueuedRow(row, q).attempts = row.attempts
        /\ QueuedRow(row, q).kind = kind
    BY <2>1 DEF RowOK, Jobs
  <2> QED BY <1>3, <2>2 DEF kind
<1>4. CASE row.state \in {"leased", "completed"} /\ ~Restarts(row, q.trig)
  BY <1>4 DEF QueuedRow
<1> QED BY <1>1, <1>2, <1>3, <1>4 DEF RowOK, Jobs, JobStates

\* Ingest, humans and cutover ask for whole investigations, and whoever's
\* decision rests on content that goes out of date is among those asked.
Requested(advance, asked, request) ==
    /\ Asks(advance, asked, request)
    /\ \A n \in asked : request[n].kind = IF n \in Sent THEN "access" ELSE "triage"
    /\ \A s \in advance, d \in Messages :
          rev[s] > 0 /\ sources[d][s] > 0 /\ d \notin advance
            => d \in asked /\ request[d].trig = "refresh"

Requesting == \E advance, asked \in SUBSET Messages :
                \E request \in [asked -> Requests] : Requested(advance, asked, request)

\* Reading evidence asks only for access reviews, of messages nothing is
\* recorded about.
Assessed(advance, asked, request) ==
    /\ Asks(advance, asked, request)
    /\ advance = {n \in asked : rev[n] = 0}
    /\ \A n \in asked : /\ request[n].kind = "access"
                        /\ request[n].trig = "source_access"
                        /\ rev[n] > 0 => Current(n).state = "none"

Assessing == \E advance, asked \in SUBSET Messages :
               \E request \in [asked -> Requests] : Assessed(advance, asked, request)

\* New content takes back a verdict that no human gave.
AccessFollows ==
    \A n \in Messages :
        human'[n] = "none" =>
            /\ human[n] = "none"
            /\ access'[n] = IF rev'[n] # rev[n] THEN "pending" ELSE access[n]

\* What a batch does to the revisions.
LEMMA AskedRev ==
    ASSUME QueueTypeOK, NEW advance, NEW asked, NEW request, Asks(advance, asked, request)
    PROVE  /\ \A n \in Messages : /\ rev'[n] = IF n \in advance THEN rev[n] + 1 ELSE rev[n]
                                  /\ rev'[n] # rev[n] <=> n \in advance
                                  /\ rev[n] \in Nat /\ rev'[n] \in Nat
BY RevAssumption DEF Asks, Apply, QueueTypeOK

\* Whatever rests on a source directly is one of its dependents.
LEMMA DirectDependents ==
    ASSUME NEW s \in Messages, NEW d \in Messages \ {s}, sources[d][s] > 0
    PROVE  d \in Dependents(s)
BY DEF Dependents

\* One call of the enqueue routine is a batch of requests.
LEMMA EnqueueAsks ==
    ASSUME QueueTypeOK, NEW m \in Messages, NEW newContent \in BOOLEAN,
           NEW trig \in Triggers \ {"source_access"}, NEW requested \in BOOLEAN,
           Enqueue(m, newContent, trig, requested)
    PROVE  /\ Requesting
           /\ \A n \in Messages :
                 human[n] = "none" =>
                    AccessAfterEnqueue(m, newContent, trig)[n]
                      = IF rev'[n] # rev[n] THEN "pending" ELSE access[n]
<1> DEFINE r       == NextRev(m, newContent)
           asked   == Called(m, newContent, trig)
                        \cup (IF Changes(m, newContent) THEN Dependents(m) ELSE {})
           advance == Advancing(m, newContent, trig)
           request == [n \in asked |-> IF n = m THEN Request(m, trig, r, requested)
                                       ELSE Request(n, "refresh", rev[n], FALSE)]
<1>1. r <= MaxRev /\ Apply(advance, asked, request)
  BY DEF Enqueue
<1>2. asked \in SUBSET Messages /\ advance \in SUBSET Messages /\ advance \subseteq asked
  BY DEF Called, Dependents, ReplyTarget, Siblings, Advancing
<1>3. \A n \in advance : rev[n] < MaxRev
  <2> SUFFICES ASSUME NEW n \in advance PROVE rev[n] < MaxRev
    OBVIOUS
  <2>1. CASE n = m
    <3>1. Changes(m, newContent)
      BY <2>1 DEF Advancing
    <3>2. r = rev[m] + 1
      BY <3>1 DEF NextRev
    <3> QED BY <1>1, <2>1, <3>2, RevAssumption DEF QueueTypeOK
  <2>2. CASE n # m
    BY <2>2, RevAssumption DEF Advancing
  <2> QED BY <2>1, <2>2
<1>4. request \in [asked -> Requests]
  BY RequestOK DEF Triggers
<1>5. \A n \in asked : request[n].kind = IF n \in Sent THEN "access" ELSE "triage"
  BY DEF Request
<1>6. ASSUME NEW s \in advance, NEW d \in Messages,
             rev[s] > 0, sources[d][s] > 0, d \notin advance
      PROVE  d \in asked /\ request[d].trig = "refresh"
  <2>1. s = m /\ Changes(m, newContent) /\ d # m
    BY <1>6 DEF Advancing
  <2>2. d \in Dependents(m)
    BY <1>6, <2>1, DirectDependents
  <2> QED BY <2>1, <2>2 DEF Request
<1>7. Asks(advance, asked, request)
  <2> HIDE DEF asked, advance, request
  <2> QED BY <1>1, <1>2, <1>3, <1>4 DEF Asks
<1>8. Requesting
  <2> HIDE DEF asked, advance, request
  <2>1. Requested(advance, asked, request)
    BY <1>5, <1>6, <1>7 DEF Requested
  <2> QED BY <1>2, <1>4, <2>1 DEF Requesting
<1>9. \A n \in Messages : rev'[n] # rev[n] <=> n \in advance
  <2> HIDE DEF asked, advance, request
  <2> QED BY <1>7, AskedRev
<1>10. ASSUME NEW n \in Messages, human[n] = "none"
       PROVE  AccessAfterEnqueue(m, newContent, trig)[n]
                = IF rev'[n] # rev[n] THEN "pending" ELSE access[n]
  BY <1>9, <1>10 DEF AccessAfterEnqueue, AccessAfter, Advancing
<1> QED BY <1>8, <1>10

\* Mail, humans and the first pass.
LEMMA DoorSteps ==
    ASSUME TypeOK
    PROVE  /\ \A m \in Messages, trig \in Origins : Arrive(m, trig) => Requesting /\ AccessFollows
           /\ \A m \in Messages : AskAgain(m) => Requesting /\ AccessFollows
           /\ \A m \in Messages, value \in Verdicts \cup {"none"} :
                 CorrectByHand(m, value) => Requesting /\ AccessFollows
           /\ \A S \in SUBSET Legacy : FirstPass(S) => Requesting /\ AccessFollows
<1>0. QueueTypeOK
  BY DEF TypeOK
<1>1. ASSUME NEW m \in Messages, NEW trig \in Origins, Arrive(m, trig)
      PROVE  Requesting /\ AccessFollows
  <2>1. /\ trig \in Triggers \ {"source_access"} /\ Enqueue(m, TRUE, trig, FALSE)
        /\ access' = AccessAfterEnqueue(m, TRUE, trig) /\ human' = human
    BY <1>1, InputAssumption DEF Arrive, Ingest, Triggers
  <2> QED BY <1>0, <2>1, EnqueueAsks DEF AccessFollows
<1>2. ASSUME NEW m \in Messages, AskAgain(m) PROVE Requesting /\ AccessFollows
  <2>1. /\ "manual" \in Triggers \ {"source_access"} /\ Enqueue(m, FALSE, "manual", TRUE)
        /\ access' = AccessAfterEnqueue(m, FALSE, "manual") /\ human' = human
    BY <1>2 DEF AskAgain, Retriage, Triggers
  <2> QED BY <1>0, <2>1, EnqueueAsks DEF AccessFollows
<1>3. ASSUME NEW m \in Messages, NEW value \in Verdicts \cup {"none"}, CorrectByHand(m, value)
      PROVE  Requesting /\ AccessFollows
  <2> DEFINE after == AccessAfterEnqueue(m, FALSE, "refresh")
  <2>1. "refresh" \in Triggers \ {"source_access"} /\ Enqueue(m, FALSE, "refresh", FALSE)
    BY <1>3 DEF CorrectByHand, Correct, Triggers
  <2>2. /\ Requesting
        /\ \A n \in Messages :
             human[n] = "none" => after[n] = IF rev'[n] # rev[n] THEN "pending" ELSE access[n]
    BY <1>0, <2>1, EnqueueAsks
  <2>3. DOMAIN after = Messages /\ DOMAIN human = Messages
    BY <1>0 DEF AccessAfterEnqueue, QueueTypeOK
  <2>4. CASE value = "none"
    <3>1. human' = human /\ access' = after
      BY <1>3, <2>4 DEF CorrectByHand, Correct
    <3> QED BY <2>2, <3>1 DEF AccessFollows
  <2>5. CASE value # "none"
    <3>1. human' = [human EXCEPT ![m] = value] /\ access' = [after EXCEPT ![m] = value]
      BY <1>3, <2>5 DEF CorrectByHand, Correct
    <3> HIDE DEF after
    <3>2. /\ human'[m] = value
          /\ \A n \in Messages \ {m} : human'[n] = human[n] /\ access'[n] = after[n]
      BY <2>3, <3>1
    <3> QED BY <2>2, <2>5, <3>2 DEF AccessFollows
  <2> QED BY <2>2, <2>4, <2>5
<1>4. ASSUME NEW S \in SUBSET Legacy, FirstPass(S) PROVE Requesting /\ AccessFollows
  <2> DEFINE asked   == Migrated(S)
             first   == {n \in asked : rev[n] = 0}
             request == [n \in asked |-> Request(n, "refresh", 1, FALSE)]
  <2>1. request \in [asked -> Requests]
    BY RequestOK DEF Triggers
  <2>2. asked \in SUBSET Messages /\ first \in SUBSET Messages
    BY LegacyAssumption DEF Migrated, ReplyTarget, Siblings
  <2>3. /\ Apply(first, asked, request) /\ human' = human
        /\ access' = [n \in Messages |->
                        IF n \in asked THEN AccessAfter(n, rev[n] = 0) ELSE access[n]]
    BY <1>4 DEF FirstPass, Cutover
  <2>4. \A n \in asked : request[n].kind = IF n \in Sent THEN "access" ELSE "triage"
    BY DEF Request
  <2>5. \A s \in first : rev[s] = 0
    OBVIOUS
  <2>6. first \subseteq asked /\ \A n \in asked : n \in first <=> rev[n] = 0
    OBVIOUS
  <2> HIDE DEF asked, first, request
  <2>7. Requested(first, asked, request)
    <3>1. \A n \in first : rev[n] < MaxRev
      BY <2>5, RevAssumption
    <3>2. Asks(first, asked, request)
      BY <2>1, <2>2, <2>3, <2>6, <3>1 DEF Asks
    <3> QED BY <2>4, <2>5, <3>2 DEF Requested
  <2>8. \A n \in Messages : rev'[n] # rev[n] <=> n \in first
    BY <1>0, <2>7, AskedRev DEF Requested
  <2>9. AccessFollows
    BY <2>3, <2>6, <2>8 DEF AccessFollows, AccessAfter
  <2> QED BY <2>1, <2>2, <2>7, <2>9 DEF Requesting
<1> QED BY <1>1, <1>2, <1>3, <1>4

\* Reading evidence: afterwards everything that was read has a state row.
LEMMA AssessSteps ==
    ASSUME QueueTypeOK, NEW S \in SUBSET Messages, EnsureAssessed(S)
    PROVE  /\ Assessing /\ AccessFollows
           /\ \A n \in S : n \in Unassessed(S) => rev'[n] > 0
<1> DEFINE new     == Unassessed(S)
           advance == {n \in new : rev[n] = 0}
           request == [n \in new |-> Request(n, "source_access", 1, FALSE)]
<1>1. new \in SUBSET Messages /\ advance \in SUBSET Messages /\ advance \subseteq new
  BY DEF Unassessed
<1>2. request \in [new -> Requests]
  BY RequestOK DEF Triggers
<1>3. /\ Apply(advance, new, request) /\ human' = human
      /\ access' = [n \in Messages |->
                      IF n \in new THEN AccessAfter(n, rev[n] = 0) ELSE access[n]]
  BY DEF EnsureAssessed
<1>4. \A n \in new : /\ request[n].kind = "access" /\ request[n].trig = "source_access"
                     /\ rev[n] > 0 => Current(n).state = "none"
                     /\ n \in advance <=> rev[n] = 0
  BY DEF Request, Unassessed
<1>5. advance = {n \in new : rev[n] = 0}
  OBVIOUS
<1> HIDE DEF new, advance, request
<1>6. Asks(advance, new, request)
  <2>1. \A n \in advance : rev[n] < MaxRev
    BY <1>5, RevAssumption
  <2> QED BY <1>1, <1>2, <1>3, <2>1 DEF Asks
<1>7. Assessed(advance, new, request)
  BY <1>4, <1>5, <1>6 DEF Assessed
<1>8. \A n \in Messages : /\ rev'[n] # rev[n] <=> n \in advance
                          /\ rev[n] \in Nat /\ rev'[n] = IF n \in advance THEN rev[n] + 1 ELSE rev[n]
  BY <1>6, AskedRev
<1>9. AccessFollows
  BY <1>3, <1>4, <1>1, <1>8 DEF AccessFollows, AccessAfter
<1>10. \A n \in S : n \in new => rev'[n] > 0
  BY <1>1, <1>4, <1>8
<1> QED BY <1>1, <1>2, <1>7, <1>9, <1>10 DEF Assessing, new

\* The endings of a worker's job.
EndStep(w) == \/ CoolDown(w) \/ BudgetRefused(w) \/ Outage(w) \/ RetryAgent(w)
              \/ \E verdict \in Answers, revisit \in BOOLEAN : Commit(w, verdict, revisit)

Tables  == <<sources, access, human>>
Results == <<basis, judged>>

\* A worker that leaves is idle, the others are as they were.
LEMMA LeaveEnds ==
    ASSUME TypeOK, NEW w \in Workers, Leave(w)
    PROVE  ~Busy(w)' /\ \A v \in Workers \ {w} : worker'[v] = worker[v]
BY DEF Leave, TypeOK, Busy, Idle

\* Only the job's own row is put back or failed, and only by its owner.
LEMMA ReturnsOneRow ==
    ASSUME QueueTypeOK, NEW j \in JobIds, NEW token,
           \/ \E parked \in BOOLEAN : Defer(j, token, parked)
           \/ Retry(j, token) \/ Fail(j, token)
    PROVE  /\ rev' = rev
           /\ \A k \in JobIds \ {j} : job'[k] = job[k] /\ followup'[k] = followup[k]
           /\ ~OwnsLease(j, token) => UNCHANGED <<job, followup>>
BY DEF Defer, Retry, Fail, Requeue, QueueTypeOK

\* Every ending of a job has the shape of one.
LEMMA EndingsEnd ==
    ASSUME TypeOK, NEW w \in Workers, EndStep(w)
    PROVE  Ends(w)
<1> DEFINE j     == worker[w].job
           token == worker[w].token
<1>0. QueueTypeOK
  BY DEF TypeOK
<1>1. Busy(w) /\ Leave(w)
  BY DEF EndStep, CoolDown, BudgetRefused, Outage, RetryAgent, Commit, Busy
<1>2. j \in JobIds
  BY <1>1 DEF TypeOK, Busy
<1>3. ~Busy(w)' /\ \A v \in Workers \ {w} : worker'[v] = worker[v]
  BY <1>1, LeaveEnds
<1>4. CASE CoolDown(w) \/ BudgetRefused(w) \/ Outage(w) \/ RetryAgent(w)
  <2>1. \/ \E parked \in BOOLEAN : Defer(j, token, parked)
        \/ Retry(j, token) \/ Fail(j, token)
    BY <1>4 DEF CoolDown, BudgetRefused, Outage, RetryAgent
  <2> HIDE DEF j, token
  <2>2. /\ rev' = rev
        /\ \A k \in JobIds \ {j} : job'[k] = job[k] /\ followup'[k] = followup[k]
        /\ ~OwnsLease(j, token) => UNCHANGED <<job, followup>>
    BY <1>0, <1>2, <2>1, ReturnsOneRow
  <2> QED BY <1>1, <1>3, <2>2 DEF Ends, j, token
<1>5. ASSUME NEW verdict \in Answers, NEW revisit \in BOOLEAN, Commit(w, verdict, revisit)
      PROVE  Ends(w)
  <2> DEFINE read == {s \in Messages : worker[w].seen[s] # Unseen}
  <2>1. OwnsLease(j, token)
    BY <1>5 DEF Commit, Leased, LiveLease, OwnsLease
  <2>2. CASE CommitAccess(j, verdict)
    <3>1. /\ rev' = rev
          /\ \A k \in JobIds \ {j} : job'[k] = job[k] /\ followup'[k] = followup[k]
      BY <1>0, <2>2 DEF CommitAccess, QueueTypeOK
    <3> QED BY <1>1, <1>3, <2>1, <3>1 DEF Ends
  <2>3. CASE CommitDecision(j, read, verdict, revisit) /\ worker[w].kind # "access"
    <3> DEFINE timer  == [msg |-> j.msg, rev |-> rev[j.msg], slot |-> "revisit"]
               wanted == revisit /\ MayRevisit(j.msg)
    <3>1. /\ rev' = rev
          /\ job' = [k \in JobIds |->
                       IF k = j THEN FinishedRow(job[j], followup[j])
                       ELSE IF k = timer THEN RevisitRow(job[k], wanted) ELSE job[k]]
          /\ followup' = [followup EXCEPT ![j] = NoFollowup]
      BY <2>3 DEF CommitDecision
    <3>2. timer.rev = rev[timer.msg] /\ timer.msg = j.msg
      OBVIOUS
    <3>3. \A k \in JobIds :
            \/ RevisitRow(job[k], wanted) = job[k]
            \/ /\ job[k].state = "none" /\ RevisitRow(job[k], wanted).state = "queued"
               /\ RevisitRow(job[k], wanted).attempts = 0
      BY DEF RevisitRow, NoJob
    <3> HIDE DEF timer, wanted, j
    <3>4. \A k \in JobIds \ {j} :
            /\ followup'[k] = followup[k]
            /\ job'[k] = job[k] \/ (Planted(k) /\ k.msg = j.msg)
      BY <1>0, <3>1, <3>2, <3>3 DEF QueueTypeOK, Planted
    <3> QED BY <1>1, <1>3, <2>1, <2>3, <3>1, <3>4 DEF Ends, j
  <2> QED BY <1>5, <2>2, <2>3 DEF Commit
<1> QED BY <1>4, <1>5 DEF EndStep

\* The steps a worker takes inside its own memory, and an access review's read.
LEMMA SilentSteady ==
    ASSUME TypeOK, NEW w \in Workers,
           Begin(w) \/ RefuseAccess(w) \/ Answer(w) \/ Error(w) \/ CommitRejected(w)
             \/ \E s \in Messages : ReadEvidence(w, s)
    PROVE  Steady /\ Busy(w)
<1>1. worker[w] \in WorkerStates /\ Busy(w)
  BY DEF Begin, RefuseAccess, Answer, Error, CommitRejected, ReadEvidence, TypeOK, Busy
<1>2. \A v \in Workers \ {w} : worker'[v] = worker[v]
  BY DEF Begin, RefuseAccess, Answer, Error, CommitRejected, ReadEvidence, TypeOK
<1>3. \E phase \in Phases : \E seen :
        /\ worker'[w] = [worker[w] EXCEPT !.phase = phase, !.seen = seen]
        /\ \/ seen = worker[w].seen
           \/ Begin(w) \/ \E s \in Messages : ReadEvidence(w, s)
  <2>1. CASE Begin(w)
    <3>1. worker'[w] = [worker[w] EXCEPT !.phase = "running", !.seen = FirstRead(w)]
      BY <2>1 DEF Begin, TypeOK
    <3> QED BY <2>1, <3>1 DEF Phases
  <2>2. CASE RefuseAccess(w) \/ Error(w) \/ CommitRejected(w)
    <3>1. worker'[w] = [worker[w] EXCEPT !.phase = "rejected"]
      BY <2>2 DEF RefuseAccess, Error, CommitRejected, TypeOK
    <3>2. worker'[w] = [worker[w] EXCEPT !.phase = "rejected", !.seen = worker[w].seen]
      BY <1>1, <3>1 DEF WorkerStates
    <3> QED BY <3>2 DEF Phases
  <2>3. CASE Answer(w)
    <3>1. worker'[w] = [worker[w] EXCEPT !.phase = "answered"]
      BY <2>3 DEF Answer, TypeOK
    <3>2. worker'[w] = [worker[w] EXCEPT !.phase = "answered", !.seen = worker[w].seen]
      BY <1>1, <3>1 DEF WorkerStates
    <3> QED BY <3>2 DEF Phases
  <2>4. CASE \E s \in Messages : ReadEvidence(w, s)
    <3>1. PICK s \in Messages : ReadEvidence(w, s)
      BY <2>4
    <3> DEFINE seen == [worker[w].seen EXCEPT ![s] = Version(s)]
    <3>2. worker'[w] = [worker[w] EXCEPT !.seen = seen]
      BY <1>1, <3>1 DEF ReadEvidence, TypeOK
    <3> HIDE DEF seen
    <3>3. worker'[w] = [worker[w] EXCEPT !.phase = worker[w].phase, !.seen = seen]
      BY <1>1, <3>2 DEF WorkerStates
    <3> QED BY <1>1, <2>4, <3>3 DEF WorkerStates
  <2> QED BY <2>1, <2>2, <2>3, <2>4
<1>4. SameWork(w)
  BY <1>1, <1>3 DEF SameWork, WorkerStates
<1> QED BY <1>1, <1>2, <1>4 DEF Steady, SameWork, Busy

\* Every step is a batch of requests, a claim, an ending, a lease that runs
\* out, or touches no lease at all.
LEMMA StepShapes ==
    ASSUME TypeOK, [Next]_vars
    PROVE  \/ /\ Requesting /\ AccessFollows
              /\ Recount /\ UNCHANGED <<worker, sources, Results>>
           \/ \E w \in Workers :
                /\ Assessing /\ AccessFollows /\ Steady
                /\ Begin(w) \/ \E s \in Messages : ReadEvidence(w, s)
                /\ UNCHANGED <<sources, charged, Results>>
           \/ \E w \in Workers, j \in JobIds : ClaimJob(w, j)
           \/ \E w \in Workers : Ends(w) /\ EndStep(w)
           \/ \E j \in JobIds : Expire(j)
           \/ Quiet /\ Steady /\ UNCHANGED <<Tables, Results>>
<1>0. QueueTypeOK
  BY DEF TypeOK
<1>1. ASSUME UNCHANGED queueVars, UNCHANGED history, Steady
      PROVE  Quiet /\ Steady /\ UNCHANGED <<Tables, Results>>
  BY <1>1 DEF queueVars, history, Quiet, SameRow, Tables, Results
<1>2. ASSUME NEW m \in Messages, NEW trig \in Origins, Arrive(m, trig)
      PROVE  /\ Requesting /\ AccessFollows
             /\ Recount /\ UNCHANGED <<worker, sources, Results>>
  BY <1>2, DoorSteps DEF Arrive, Ingest, engineVars, Results
<1>3. ASSUME NEW m \in Messages, AskAgain(m)
      PROVE  /\ Requesting /\ AccessFollows
             /\ Recount /\ UNCHANGED <<worker, sources, Results>>
  BY <1>3, DoorSteps DEF AskAgain, Retriage, Results
<1>4. ASSUME NEW m \in Messages, NEW value \in Verdicts \cup {"none"}, CorrectByHand(m, value)
      PROVE  /\ Requesting /\ AccessFollows
             /\ Recount /\ UNCHANGED <<worker, sources, Results>>
  BY <1>4, DoorSteps DEF CorrectByHand, Correct, engineVars, Results
<1>5. ASSUME NEW S \in SUBSET Legacy, FirstPass(S)
      PROVE  /\ Requesting /\ AccessFollows
             /\ Recount /\ UNCHANGED <<worker, sources, Results>>
  BY <1>5, DoorSteps DEF FirstPass, Cutover, engineVars, Results
<1>6. ASSUME NEW m \in Messages, FetchAgain(m)
      PROVE  Quiet /\ Steady /\ UNCHANGED <<Tables, Results>>
  <2>1. \A k \in JobIds : SameRow(job'[k], job[k])
    BY <1>0, <1>6 DEF FetchAgain, Refetch, QueueTypeOK, Jobs, SameRow
  <2>2. Steady
    BY <1>6 DEF FetchAgain, engineVars, Steady, SameWork, Busy
  <2> QED BY <1>6, <2>1, <2>2 DEF FetchAgain, Refetch, history, Quiet, Tables, Results
<1>7. ASSUME NEW w \in Workers, WorkerStep(w)
      PROVE  \/ /\ Assessing /\ AccessFollows /\ Steady
                /\ Begin(w) \/ \E s \in Messages : ReadEvidence(w, s)
                /\ UNCHANGED <<sources, charged, Results>>
             \/ \E j \in JobIds : ClaimJob(w, j)
             \/ Ends(w) /\ EndStep(w)
             \/ Quiet /\ Steady /\ UNCHANGED <<Tables, Results>>
  <2>1. CASE EndStep(w)
    BY <2>1, EndingsEnd
  <2>2. CASE Begin(w)
    <3> DEFINE read == {s \in Messages : FirstRead(w)[s] # Unseen}
    <3>1. Steady
      BY <2>2, SilentSteady
    <3>2. EnsureAssessed(read) \/ UNCHANGED queueVars
      BY <2>2 DEF Begin
    <3>3. read \in SUBSET Messages /\ UNCHANGED history
      BY <2>2 DEF Begin
    <3> HIDE DEF read
    <3>4. CASE EnsureAssessed(read)
      <4>1. Assessing /\ AccessFollows
        BY <1>0, <3>3, <3>4, AssessSteps
      <4> QED BY <2>2, <3>1, <3>3, <3>4, <4>1 DEF EnsureAssessed, history, Results
    <3> QED BY <1>1, <3>1, <3>2, <3>3, <3>4
  <2>3. CASE \E s \in Messages : ReadEvidence(w, s)
    <3>1. PICK s \in Messages : ReadEvidence(w, s)
      BY <2>3
    <3>2. Steady
      BY <3>1, SilentSteady
    <3>3. EnsureAssessed({s}) /\ UNCHANGED history
      BY <3>1 DEF ReadEvidence
    <3>4. Assessing /\ AccessFollows
      BY <1>0, <3>3, AssessSteps
    <3> QED BY <3>1, <3>2, <3>3, <3>4 DEF EnsureAssessed, history, Results
  <2>4. CASE RefuseAccess(w) \/ Answer(w) \/ Error(w) \/ CommitRejected(w)
    <3>1. Steady
      BY <2>4, SilentSteady
    <3>2. UNCHANGED queueVars /\ UNCHANGED history
      BY <2>4 DEF RefuseAccess, Answer, Error, CommitRejected
    <3> QED BY <1>1, <3>1, <3>2
  <2> QED BY <1>7, <2>1, <2>2, <2>3, <2>4 DEF WorkerStep, EndStep
<1>8. ASSUME NEW e \in Engines, NEW restart \in BOOLEAN, LosePass(e, restart)
      PROVE  Quiet /\ Steady /\ UNCHANGED <<Tables, Results>>
  <2>1. Steady
    BY <1>8 DEF LosePass, TypeOK, Steady, SameWork, Busy, Idle
  <2> QED BY <1>1, <1>8, <2>1 DEF LosePass
<1>9. ASSUME NEW e \in Engines, HalfOpen(e)
      PROVE  Quiet /\ Steady /\ UNCHANGED <<Tables, Results>>
  <2>1. Steady
    BY <1>9 DEF HalfOpen, Steady, SameWork, Busy
  <2> QED BY <1>1, <1>9, <2>1 DEF HalfOpen
<1>10. ASSUME NEW j \in JobIds, TimePasses(j)
       PROVE  Quiet /\ Steady /\ UNCHANGED <<Tables, Results>>
  <2>1. \A k \in JobIds : SameRow(job'[k], job[k])
    BY <1>0, <1>10 DEF TimePasses, BecomeDue, QueueTypeOK, Jobs, SameRow
  <2>2. Steady
    BY <1>10 DEF TimePasses, engineVars, Steady, SameWork, Busy
  <2> QED BY <1>10, <2>1, <2>2 DEF TimePasses, BecomeDue, history, Quiet, Tables, Results
<1>11. CASE UNCHANGED vars
  <2>1. Steady
    BY <1>11 DEF vars, engineVars, Steady, SameWork, Busy
  <2> QED BY <1>1, <1>11, <2>1 DEF vars
<1> QED
  BY <1>2, <1>3, <1>4, <1>5, <1>6, <1>7, <1>8, <1>9, <1>10, <1>11 DEF Next
--------------------------------------------------------------------------------
(* A lease holds for the worker that took it *)

\* Work exists only for revisions the message has reached.
RowsReached == \A j \in JobIds : job[j].state # "none" => j.rev <= rev[j.msg]

\* So does what a busy worker holds, under a token of its own.
WorkReached ==
    \A w \in Workers : Busy(w) => /\ worker[w].token \in Tokens
                                  /\ worker[w].job.rev <= rev[worker[w].job.msg]
TokensApart ==
    \A v, w \in Workers : Busy(v) /\ Busy(w) /\ worker[v].token = worker[w].token => v = w

LeaseInv == RowsReached /\ WorkReached /\ TokensApart /\ LeaseHonoured

\* Batches of requests leave every row of a revision that stays current, if it
\* is leased, exactly as it is, and revive no other.
LEMMA AskingReached ==
    ASSUME TypeOK, RowsReached, WorkReached, NEW advance, NEW asked, NEW request,
           Asks(advance, asked, request)
    PROVE  /\ RowsReached'
           /\ \A j \in JobIds : /\ job[j].state = "leased"
                                /\ j.rev <= rev[j.msg] /\ j.rev = rev'[j.msg]
                                => job'[j] = job[j]
           /\ Steady => WorkReached'
<1>0. QueueTypeOK
  BY DEF TypeOK
<1>rows. \A j \in JobIds : RowOK(job[j])
  BY <1>0 DEF QueueTypeOK, RowOK
<1>1. \A j \in JobIds : RowOK(job[j]) /\ j.msg \in Messages /\ j.rev \in Nat
  BY <1>rows DEF JobIds, Revs
<1>2. \A m \in Messages : rev[m] <= rev'[m] /\ rev[m] \in Nat /\ rev'[m] \in Nat
  BY <1>0, AskedRev
<1>3. RowsReached'
  <2> SUFFICES ASSUME NEW j \in JobIds, job'[j].state # "none" PROVE j.rev <= rev'[j.msg]
    BY DEF RowsReached
  <2>1. CASE job[j].state # "none"
    BY <1>1, <1>2, <2>1 DEF RowsReached
  <2>2. CASE job[j].state = "none"
    <3>1. ClosedRow(job[j]) = job[j]
      BY <2>2 DEF ClosedRow, Active
    <3>2. j = NowJob(j.msg, rev'[j.msg])
      BY <1>0, <2>2, <3>1, AskedRow
    <3> QED BY <1>1, <1>2, <3>2 DEF NowJob
  <2> QED BY <2>1, <2>2
<1>4. ASSUME NEW j \in JobIds, job[j].state = "leased", j.rev <= rev[j.msg], j.rev = rev'[j.msg]
      PROVE  job'[j] = job[j]
  <2>1. request[j.msg] \in Requests => QueuedRow(job[j], request[j.msg]) = job[j]
    BY <1>1, <1>4, QueuedRowKeeps
  <2> QED BY <1>0, <1>4, <2>1, AskedRow
<1>5. ASSUME Steady PROVE WorkReached'
  <2> SUFFICES ASSUME NEW w \in Workers, Busy(w)'
               PROVE  /\ worker'[w].token \in Tokens
                      /\ worker'[w].job.rev <= rev'[worker'[w].job.msg]
    BY DEF WorkReached
  <2>1. Busy(w) /\ worker'[w].job = worker[w].job /\ worker'[w].token = worker[w].token
    BY <1>5 DEF Steady, SameWork
  <2>2. worker[w].job \in JobIds
    BY <2>1 DEF TypeOK, Busy
  <2> QED BY <1>1, <1>2, <2>1, <2>2 DEF WorkReached
<1> QED BY <1>3, <1>4, <1>5

\* A claim, seen from the rows and from the workers.
LEMMA ClaimShape ==
    ASSUME TypeOK, NEW w \in Workers, NEW j \in JobIds, ClaimJob(w, j)
    PROVE  /\ rev' = rev /\ ~Busy(w) /\ Busy(w)' /\ followup' = followup
           /\ \A v \in Workers \ {w} : worker'[v] = worker[v]
           /\ \A k \in JobIds \ {j} : job'[k] = job[k]
           /\ worker'[w].job = j /\ worker'[w].token \in Tokens /\ ~worker'[w].late
           /\ worker'[w].attempts = job[j].attempts + 1 /\ worker'[w].kind = job[j].kind
           /\ worker'[w].seen = [m \in Messages |-> Unseen]
           /\ job[j].state \in Active /\ ~LiveLease(j)
           /\ job'[j].state = "leased" /\ job'[j].live
           /\ job'[j].token = worker'[w].token
           /\ job'[j].attempts = job[j].attempts + 1 /\ job'[j].kind = job[j].kind
           /\ \A k \in JobIds : job[k].token # worker'[w].token
           /\ \A v \in Workers \ {w} : Busy(v) => worker[v].token # worker'[w].token
<1>1. PICK t \in Tokens :
         /\ NextToken(t) /\ Claim(j, t)
         /\ worker' = [worker EXCEPT ![w] =
              [Idle EXCEPT !.phase = "claimed", !.job = j, !.kind = job[j].kind,
                           !.token = t, !.attempts = job[j].attempts + 1]]
  BY DEF ClaimJob
<1> DEFINE tries == job[j].attempts + 1
           new   == [Idle EXCEPT !.phase = "claimed", !.job = j, !.kind = job[j].kind,
                                 !.token = t, !.attempts = tries]
<1>2. /\ new.phase = "claimed" /\ new.job = j /\ new.kind = job[j].kind /\ new.token = t
      /\ new.attempts = tries /\ ~new.late /\ new.seen = [m \in Messages |-> Unseen]
  <2> HIDE DEF tries
  <2> QED BY DEF Idle
<1>3. worker'[w] = new /\ \A v \in Workers \ {w} : worker'[v] = worker[v]
  BY <1>1 DEF TypeOK
<1> HIDE DEF new
<1>4. job[j] \in Jobs
  BY DEF TypeOK, QueueTypeOK
<1>5. /\ job'[j] = LeasedRow(job[j], t) /\ rev' = rev /\ followup' = followup
      /\ \A k \in JobIds \ {j} : job'[k] = job[k]
      /\ Claimable(j)
  BY <1>1 DEF Claim, TypeOK, QueueTypeOK
<1>6. /\ job'[j].state = "leased" /\ job'[j].live /\ job'[j].token = t
      /\ job'[j].attempts = job[j].attempts + 1 /\ job'[j].kind = job[j].kind
  BY <1>4, <1>5 DEF LeasedRow, Jobs
<1>7. /\ \A k \in JobIds : job[k].token # t
      /\ \A v \in Workers \ {w} : Busy(v) => worker[v].token # t
  BY <1>1 DEF NextToken, FreshTokens, HeldBy
<1>8. ~Busy(w) /\ Busy(w)'
  BY <1>2, <1>3 DEF ClaimJob, MayClaim, Busy
<1> QED BY <1>2, <1>3, <1>5, <1>6, <1>7, <1>8 DEF Claimable, Active, LiveLease, tries

\* While its lease has not run out and its message has not changed, the row
\* stays in the worker's hands: no other engine's claim, retry, deferral or
\* commit, no request and no content of other mail takes it away.
LEMMA LeaseStep == TypeOK /\ LeaseInv /\ [Next]_vars => LeaseInv'
<1> SUFFICES ASSUME TypeOK, LeaseInv, [Next]_vars PROVE LeaseInv'
  OBVIOUS
<1> USE DEF LeaseInv
<1>0. /\ QueueTypeOK /\ \A w \in Workers : Busy(w) => worker[w].job \in JobIds
      /\ \A j \in JobIds : j.msg \in Messages /\ j.rev \in Nat
  BY DEF TypeOK, Busy, JobIds, Revs
<1>1. ASSUME Requesting \/ Assessing, Steady PROVE LeaseInv'
  <2>1. PICK advance, asked \in SUBSET Messages :
          \E request \in [asked -> Requests] : Asks(advance, asked, request)
    BY <1>1 DEF Requesting, Assessing, Requested, Assessed
  <2>2. PICK request \in [asked -> Requests] : Asks(advance, asked, request)
    BY <2>1
  <2>3. /\ RowsReached' /\ WorkReached'
        /\ \A j \in JobIds : /\ job[j].state = "leased"
                             /\ j.rev <= rev[j.msg] /\ j.rev = rev'[j.msg]
                             => job'[j] = job[j]
    BY <1>1, <2>2, AskingReached
  <2>4. TokensApart'
    BY <1>1 DEF TokensApart, Steady, SameWork
  <2>5. ASSUME NEW w \in Workers, Busy(w)', ~worker'[w].late,
               worker'[w].job.rev = rev'[worker'[w].job.msg]
        PROVE  Leased(worker[w].job, worker[w].token)'
    <3> DEFINE j == worker[w].job
    <3>1. /\ Busy(w) /\ ~worker[w].late
          /\ worker'[w].job = j /\ worker'[w].token = worker[w].token
      BY <1>1, <2>5 DEF Steady, SameWork
    <3>2. j \in JobIds /\ j.rev <= rev[j.msg]
      BY <1>0, <3>1 DEF WorkReached
    <3>3. j.rev = rev[j.msg]
      <4>1. \/ rev'[j.msg] = rev[j.msg] \/ rev'[j.msg] = rev[j.msg] + 1
        BY <1>0, <2>2, <3>2, AskedRev
      <4>2. rev[j.msg] \in Nat
        BY <1>0, <2>2, <3>2, AskedRev
      <4> QED BY <1>0, <2>5, <3>1, <3>2, <4>1, <4>2
    <3>4. Leased(j, worker[w].token)
      BY <3>1, <3>3 DEF LeaseHonoured
    <3>5. job'[j] = job[j]
      BY <2>3, <2>5, <3>1, <3>2, <3>4 DEF Leased, LiveLease
    <3> QED BY <3>1, <3>4, <3>5 DEF Leased, LiveLease
  <2> QED BY <2>3, <2>4, <2>5 DEF LeaseHonoured
<1>2. ASSUME NEW w \in Workers, NEW j \in JobIds, ClaimJob(w, j) PROVE LeaseInv'
  <2>1. RowsReached'
    BY <1>2, ClaimShape DEF RowsReached, Active
  <2>2. WorkReached'
    <3>1. j.rev <= rev[j.msg]
      BY <1>2, ClaimShape DEF RowsReached, Active
    <3> QED BY <1>2, <3>1, ClaimShape DEF WorkReached, Busy
  <2>3. TokensApart'
    BY <1>2, ClaimShape DEF TokensApart, Busy
  <2>4. ASSUME NEW v \in Workers, Busy(v)', ~worker'[v].late,
               worker'[v].job.rev = rev'[worker'[v].job.msg]
        PROVE  Leased(worker[v].job, worker[v].token)'
    <3>1. CASE v = w
      BY <1>2, <3>1, ClaimShape DEF Leased, LiveLease
    <3>2. CASE v # w
      <4>1. worker'[v] = worker[v] /\ Busy(v) /\ rev' = rev
        BY <1>2, <2>4, <3>2, ClaimShape DEF Busy
      <4>2. Leased(worker[v].job, worker[v].token) /\ worker[v].job \in JobIds
        BY <1>0, <2>4, <4>1 DEF LeaseHonoured
      <4>3. worker[v].job # j
        BY <1>2, <4>2, ClaimShape DEF Leased
      <4> QED BY <1>2, <4>1, <4>2, <4>3, ClaimShape DEF Leased, LiveLease
    <3> QED BY <3>1, <3>2
  <2> QED BY <2>1, <2>2, <2>3, <2>4 DEF LeaseHonoured
<1>3. ASSUME NEW w \in Workers, Ends(w) PROVE LeaseInv'
  <2> DEFINE own == worker[w].job
  <2>1. \A v \in Workers : Busy(v)' => v # w /\ Busy(v) /\ worker'[v] = worker[v]
    BY <1>3 DEF Ends, Busy
  <2>2. own \in JobIds /\ Busy(w) /\ rev' = rev
    BY <1>0, <1>3 DEF Ends
  <2>3. RowsReached'
    <3> SUFFICES ASSUME NEW k \in JobIds, job'[k].state # "none" PROVE k.rev <= rev[k.msg]
      BY <2>2 DEF RowsReached
    <3>1. CASE k = own
      BY <2>2, <3>1 DEF WorkReached
    <3>2. CASE k # own
      <4>1. job'[k] = job[k] \/ Planted(k)
        BY <1>3, <3>2 DEF Ends
      <4>2. rev[k.msg] \in Nat
        BY <1>0 DEF QueueTypeOK
      <4> QED BY <1>0, <4>1, <4>2 DEF Planted, RowsReached
    <3> QED BY <3>1, <3>2
  <2>4. WorkReached' /\ TokensApart'
    BY <2>1, <2>2 DEF WorkReached, TokensApart
  <2>5. ASSUME NEW v \in Workers, Busy(v)', ~worker'[v].late,
               worker'[v].job.rev = rev'[worker'[v].job.msg]
        PROVE  Leased(worker[v].job, worker[v].token)'
    <3>1. Busy(v) /\ v # w /\ worker'[v] = worker[v] /\ worker[v].job \in JobIds
      BY <1>0, <2>1, <2>5
    <3>2. Leased(worker[v].job, worker[v].token)
      BY <2>2, <2>5, <3>1 DEF LeaseHonoured
    <3>3. job'[worker[v].job] = job[worker[v].job]
      <4>1. CASE worker[v].job = own
        <5>1. ~OwnsLease(own, worker[w].token)
          BY <2>2, <3>1, <3>2, <4>1 DEF OwnsLease, Leased, TokensApart
        <5> QED BY <1>3, <5>1 DEF Ends
      <4>2. CASE worker[v].job # own
        BY <1>3, <3>1, <3>2, <4>2 DEF Ends, Planted, Leased, LiveLease
      <4> QED BY <4>1, <4>2
    <3> QED BY <3>1, <3>2, <3>3 DEF Leased, LiveLease
  <2> QED BY <2>3, <2>4, <2>5 DEF LeaseHonoured
<1>4. ASSUME NEW j \in JobIds, Expire(j) PROVE LeaseInv'
  <2> DEFINE holders == HeldBy(job[j].token)
  <2>1. /\ rev' = rev /\ job' = [job EXCEPT ![j].live = FALSE] /\ LiveLease(j)
        /\ worker' = [v \in Workers |->
                        IF v \in holders THEN [worker[v] EXCEPT !.late = TRUE] ELSE worker[v]]
    BY <1>4 DEF Expire, LeaseExpires
  <2>2. \A v \in Workers : worker[v] \in WorkerStates
    BY DEF TypeOK
  <2>3. \A v \in Workers : /\ worker'[v].phase = worker[v].phase
                           /\ worker'[v].job = worker[v].job
                           /\ worker'[v].token = worker[v].token
                           /\ v \in holders => worker'[v].late
                           /\ v \notin holders => worker'[v] = worker[v]
    BY <2>1, <2>2 DEF WorkerStates
  <2>4. \A k \in JobIds : /\ job'[k].state = job[k].state
                          /\ k # j => job'[k] = job[k]
    BY <1>0, <2>1 DEF QueueTypeOK, Jobs
  <2>5. RowsReached' /\ WorkReached' /\ TokensApart'
    BY <2>1, <2>3, <2>4 DEF RowsReached, WorkReached, TokensApart, Busy
  <2>6. ASSUME NEW v \in Workers, Busy(v)', ~worker'[v].late,
               worker'[v].job.rev = rev'[worker'[v].job.msg]
        PROVE  Leased(worker[v].job, worker[v].token)'
    <3>1. v \notin holders /\ worker'[v] = worker[v] /\ Busy(v)
      BY <2>3, <2>6 DEF Busy
    <3>2. Leased(worker[v].job, worker[v].token) /\ worker[v].job \in JobIds
      BY <1>0, <2>1, <2>6, <3>1 DEF LeaseHonoured
    <3>3. worker[v].job # j
      BY <3>1, <3>2 DEF HeldBy, Leased
    <3> QED BY <2>4, <3>1, <3>2, <3>3 DEF Leased, LiveLease
  <2> QED BY <2>5, <2>6 DEF LeaseHonoured
<1>5. ASSUME Quiet, Steady PROVE LeaseInv'
  <2>1. RowsReached' /\ WorkReached' /\ TokensApart'
    BY <1>5 DEF Quiet, SameRow, Steady, SameWork, RowsReached, WorkReached, TokensApart, Busy
  <2>2. ASSUME NEW v \in Workers, Busy(v)', ~worker'[v].late,
               worker'[v].job.rev = rev'[worker'[v].job.msg]
        PROVE  Leased(worker[v].job, worker[v].token)'
    <3>1. /\ Busy(v) /\ ~worker[v].late /\ rev' = rev
          /\ worker'[v].job = worker[v].job /\ worker'[v].token = worker[v].token
      BY <1>5, <2>2 DEF Quiet, Steady, SameWork
    <3>2. Leased(worker[v].job, worker[v].token) /\ worker[v].job \in JobIds
      BY <1>0, <2>2, <3>1 DEF LeaseHonoured
    <3> QED BY <1>5, <3>1, <3>2 DEF Quiet, SameRow, Leased, LiveLease
  <2> QED BY <2>1, <2>2 DEF LeaseHonoured
<1>6. UNCHANGED worker => Steady
  BY DEF Steady, SameWork, Busy
<1> QED BY <1>1, <1>2, <1>3, <1>4, <1>5, <1>6, StepShapes

\* No engine or worker loses a lease that has not run out.
THEOREM LeasesHold == Spec => []LeaseInv
<1>1. Init => LeaseInv
  <2> SUFFICES ASSUME Init PROVE LeaseInv
    OBVIOUS
  <2>1. \A j \in JobIds : job[j].state = "none"
    BY DEF Init, QueueInit, NoJob
  <2>2. \A w \in Workers : ~Busy(w)
    BY DEF Init, Busy, Idle
  <2> QED BY <2>1, <2>2 DEF LeaseInv, RowsReached, WorkReached, TokensApart, LeaseHonoured
<1> QED BY <1>1, LeaseStep, TypeCorrect, PTL DEF Spec

\* Fencing, as the run checks it.
THEOREM LeasesHonoured == Spec => []LeaseHonoured
<1>1. LeaseInv => LeaseHonoured
  BY DEF LeaseInv
<1> QED BY <1>1, LeasesHold, PTL
--------------------------------------------------------------------------------
(* What an ending leaves behind *)

\* A finished row starts over for its follow-up, or is completed.
LEMMA FinishedRowShape ==
    ASSUME NEW row, RowOK(row), NEW f \in Followups
    PROVE  LET new  == FinishedRow(row, f)
               kind == MergedKind(row.kind, f.kind)
           IN  /\ new.attempts = 0
               /\ ~f.some => new.state = "completed" /\ new.kind = row.kind
               /\ f.some => /\ new.state = "queued" /\ new.kind = kind
                            /\ f.foreground /\ kind = "triage" => new.foreground
<1> DEFINE done == Completed(row)
           kind == MergedKind(row.kind, f.kind)
           fg   == f.foreground /\ kind = "triage"
<1>1. done \in Jobs
  BY EndedRowsOK DEF RowOK
<1>2. done.state = "completed" /\ done.attempts = 0 /\ done.kind = row.kind
  BY DEF Completed, NoJob
<1>3. FinishedRow(row, f) = IF f.some THEN Requeued(done, kind, fg) ELSE done
  BY DEF FinishedRow
<1> HIDE DEF done, kind, fg
<1>4. /\ Requeued(done, kind, fg).state = "queued" /\ Requeued(done, kind, fg).attempts = 0
      /\ Requeued(done, kind, fg).kind = kind /\ Requeued(done, kind, fg).foreground = fg
  BY <1>1 DEF Requeued, Jobs
<1> QED BY <1>2, <1>3, <1>4 DEF kind, fg

\* Absorbing a follow-up widens the kind and keeps the human's lane.
LEMMA AbsorbedShape ==
    ASSUME NEW row, RowOK(row), NEW f \in Followups
    PROVE  /\ Absorbed(row, f).state = row.state /\ Absorbed(row, f).attempts = row.attempts
           /\ Absorbed(row, f).kind = MergedKind(row.kind, f.kind)
           /\ f.foreground => Absorbed(row, f).foreground
<1> DEFINE kind == MergedKind(row.kind, f.kind)
           fg   == row.foreground \/ f.foreground
           due  == row.due \/ (f.foreground /\ row.parked)
           park == row.parked /\ ~f.foreground
<1>1. Absorbed(row, f) = [row EXCEPT !.kind = kind, !.foreground = fg,
                                     !.due = due, !.parked = park]
  BY DEF Absorbed
<1>2. f.foreground => fg
  OBVIOUS
<1> HIDE DEF kind, fg, due, park
<1>3. /\ Absorbed(row, f).state = row.state /\ Absorbed(row, f).attempts = row.attempts
      /\ Absorbed(row, f).kind = kind /\ Absorbed(row, f).foreground = fg
  BY <1>1 DEF RowOK, Jobs
<1> QED BY <1>2, <1>3 DEF kind

\* A retried row keeps its attempts, a deferred one gets its last one back.
LEMMA ReleasedShape ==
    ASSUME NEW row, RowOK(row)
    PROVE  /\ RetriedRow(row).attempts = row.attempts /\ RetriedRow(row).kind = row.kind
           /\ \A parked \in BOOLEAN :
                 /\ DeferredRow(row, parked).kind = row.kind
                 /\ DeferredRow(row, parked).attempts
                      = IF row.attempts > 0 THEN row.attempts - 1 ELSE 0
<1>1. Released(row).attempts = row.attempts /\ Released(row).kind = row.kind
  BY DEF Released, RowOK, Jobs
<1>2. ASSUME NEW parked \in BOOLEAN
      PROVE  /\ DeferredRow(row, parked).kind = row.kind
             /\ DeferredRow(row, parked).attempts
                  = IF row.attempts > 0 THEN row.attempts - 1 ELSE 0
  <2> DEFINE rel  == Released(row)
             left == IF rel.attempts > 0 THEN rel.attempts - 1 ELSE 0
  <2>1. DeferredRow(row, parked) = [rel EXCEPT !.parked = parked, !.attempts = left]
    BY DEF DeferredRow
  <2>2. rel \in Jobs
    BY ReleasedOK DEF RetriedRow, RowOK
  <2> HIDE DEF rel, left
  <2>3. DeferredRow(row, parked).kind = rel.kind /\ DeferredRow(row, parked).attempts = left
    BY <2>1, <2>2 DEF Jobs
  <2> QED BY <1>1, <2>3 DEF rel, left
<1> QED BY <1>1, <1>2 DEF RetriedRow

\* A job put back carries its follow-up.
Merged(w) ==
    LET j == worker[w].job IN
    /\ job'[j].kind = MergedKind(job[j].kind, followup[j].kind)
    /\ followup[j].foreground => job'[j].foreground

\* The row of a job that ends while its worker owns it.
Deferred(w) ==
    /\ Merged(w)
    /\ job'[worker[w].job].state = "queued"
    /\ job'[worker[w].job].attempts
         = IF job[worker[w].job].attempts > 0 THEN job[worker[w].job].attempts - 1 ELSE 0
    /\ UNCHANGED <<Tables, Results, charged>>

Retried(w) ==
    /\ Merged(w)
    /\ job'[worker[w].job].state = "queued"
    /\ job'[worker[w].job].attempts = job[worker[w].job].attempts
    /\ charged' = [charged EXCEPT ![worker[w].job] = @ + 1]
    /\ UNCHANGED <<Tables, Results>>

Failed(w) ==
    /\ worker[w].attempts >= MaxAttempts
    /\ job'[worker[w].job].state = "failed"
    /\ job'[worker[w].job].attempts = job[worker[w].job].attempts
    /\ job'[worker[w].job].kind = job[worker[w].job].kind
    /\ charged' = [charged EXCEPT ![worker[w].job] = @ + 1]
    /\ UNCHANGED <<Tables, Results>>

Finished(w) ==
    /\ \E verdict \in Answers, revisit \in BOOLEAN : Commit(w, verdict, revisit)
    /\ job'[worker[w].job] = FinishedRow(job[worker[w].job], followup[worker[w].job])
    /\ Recount

\* The four ways an owned job ends.
LEMMA OwnRowEnds ==
    ASSUME TypeOK, NEW w \in Workers, EndStep(w)
    PROVE  /\ OwnsLease(worker[w].job, worker[w].token) =>
                /\ Deferred(w) \/ Retried(w) \/ Failed(w) \/ Finished(w)
                /\ followup'[worker[w].job] = NoFollowup
           /\ ~OwnsLease(worker[w].job, worker[w].token) =>
                UNCHANGED <<job, followup, charged, Tables, Results>>
<1> DEFINE j     == worker[w].job
           token == worker[w].token
           f     == followup[j]
<1>1. j \in JobIds
  BY DEF EndStep, CoolDown, BudgetRefused, Outage, RetryAgent, Commit, TypeOK
<1>2. RowOK(job[j]) /\ f \in Followups /\ job \in [JobIds -> Jobs]
      /\ followup \in [JobIds -> Followups]
  BY <1>1 DEF TypeOK, QueueTypeOK, RowOK
<1>3. CASE CoolDown(w) \/ BudgetRefused(w) \/ Outage(w)
  <2>1. PICK parked \in BOOLEAN : Defer(j, token, parked)
    BY <1>3 DEF CoolDown, BudgetRefused, Outage
  <2>2. UNCHANGED <<Tables, Results, charged>>
    BY <1>3, <2>1 DEF CoolDown, BudgetRefused, Outage, Defer, Tables, Results, history
  <2>3. CASE OwnsLease(j, token)
    <3> DEFINE row == DeferredRow(job[j], parked)
    <3>1. job' = [job EXCEPT ![j] = Absorbed(row, f)] /\ followup' = [followup EXCEPT ![j] = NoFollowup]
      BY <2>1, <2>3 DEF Defer, Requeue
    <3>2. RowOK(row) /\ row.state = "queued"
      BY <1>2, ReleasedOK
    <3>3. /\ row.kind = job[j].kind
          /\ row.attempts = IF job[j].attempts > 0 THEN job[j].attempts - 1 ELSE 0
      BY <1>2, ReleasedShape
    <3> HIDE DEF row, j, f
    <3>4. /\ job'[j].state = row.state /\ job'[j].attempts = row.attempts
          /\ job'[j].kind = MergedKind(row.kind, f.kind)
          /\ f.foreground => job'[j].foreground
          /\ followup'[j] = NoFollowup
      BY <1>1, <1>2, <3>1, <3>2, AbsorbedShape
    <3> QED BY <2>2, <2>3, <3>2, <3>3, <3>4 DEF Deferred, Merged, j, f
  <2>4. CASE ~OwnsLease(j, token)
    BY <2>1, <2>2, <2>4 DEF Defer
  <2> QED BY <2>3, <2>4
<1>4. CASE RetryAgent(w)
  <2>1. UNCHANGED <<Tables, Results>>
    BY <1>4 DEF RetryAgent, Retry, Fail, Tables, Results
  <2>2. CASE ~OwnsLease(j, token)
    BY <1>4, <2>1, <2>2 DEF RetryAgent, Retry, Fail, Charge
  <2>3. CASE OwnsLease(j, token) /\ Exhausted(w)
    <3>1. /\ job' = [job EXCEPT ![j] = FailedRow(job[j])]
          /\ followup' = [followup EXCEPT ![j] = NoFollowup]
          /\ charged' = [charged EXCEPT ![j] = @ + 1]
      BY <1>4, <2>3 DEF RetryAgent, Fail, Charge
    <3>2. /\ FailedRow(job[j]).state = "failed" /\ FailedRow(job[j]).attempts = job[j].attempts
          /\ FailedRow(job[j]).kind = job[j].kind
      BY <1>2 DEF FailedRow, RowOK, Jobs
    <3>3. job'[j] = FailedRow(job[j]) /\ followup'[j] = NoFollowup
      BY <1>1, <1>2, <3>1
    <3>4. Failed(w)
      BY <2>1, <2>3, <3>1, <3>2, <3>3 DEF Failed, Exhausted
    <3> QED BY <2>3, <3>3, <3>4
  <2>4. CASE OwnsLease(j, token) /\ ~Exhausted(w)
    <3> DEFINE row == RetriedRow(job[j])
    <3>1. /\ job' = [job EXCEPT ![j] = Absorbed(row, f)]
          /\ followup' = [followup EXCEPT ![j] = NoFollowup]
          /\ charged' = [charged EXCEPT ![j] = @ + 1]
      BY <1>4, <2>4 DEF RetryAgent, Retry, Requeue, Charge
    <3>2. RowOK(row) /\ row.state = "queued"
      BY <1>2, ReleasedOK
    <3>3. row.kind = job[j].kind /\ row.attempts = job[j].attempts
      BY <1>2, ReleasedShape
    <3> HIDE DEF row, j, f
    <3>4. /\ job'[j].state = row.state /\ job'[j].attempts = row.attempts
          /\ job'[j].kind = MergedKind(row.kind, f.kind)
          /\ f.foreground => job'[j].foreground
          /\ followup'[j] = NoFollowup
      BY <1>1, <1>2, <3>1, <3>2, AbsorbedShape
    <3> QED BY <2>1, <2>4, <3>1, <3>2, <3>3, <3>4 DEF Retried, Merged, j, f
  <2> QED BY <2>2, <2>3, <2>4
<1>5. ASSUME NEW verdict \in Answers, NEW revisit \in BOOLEAN, Commit(w, verdict, revisit)
      PROVE  /\ OwnsLease(j, token)
             /\ Finished(w) /\ followup'[j] = NoFollowup
  <2> DEFINE read == {s \in Messages : worker[w].seen[s] # Unseen}
  <2>1. OwnsLease(j, token) /\ Recount
    BY <1>5 DEF Commit, Leased, LiveLease, OwnsLease
  <2>2. CommitAccess(j, verdict) \/ CommitDecision(j, read, verdict, revisit)
    BY <1>5 DEF Commit
  <2>3. job'[j] = FinishedRow(job[j], f) /\ followup'[j] = NoFollowup
    BY <1>1, <1>2, <2>2 DEF CommitAccess, CommitDecision
  <2>4. Finished(w)
    BY <1>5, <2>1, <2>3 DEF Finished
  <2> QED BY <2>1, <2>3, <2>4
<1> QED BY <1>3, <1>4, <1>5 DEF EndStep
--------------------------------------------------------------------------------
(* Attempts *)

\* The attempts a row shows are those that were charged to it, and one more
\* while it is leased.
RowCharged(row, count) ==
    /\ row.state = "none" => count = 0
    /\ row.state = "queued" => row.attempts = count
    /\ row.state = "leased" => row.attempts = count + 1
    /\ row.state = "failed" => row.attempts = count /\ count >= MaxAttempts

RowsCharged == \A j \in JobIds : RowCharged(job[j], charged[j])

\* A worker that still owns its lease knows the row's attempts and kind.
ClaimedAs ==
    \A w \in Workers :
        Busy(w) /\ OwnsLease(worker[w].job, worker[w].token) =>
            /\ job[worker[w].job].attempts = worker[w].attempts
            /\ job[worker[w].job].kind = worker[w].kind

\* A batch of requests leaves a row leased only by leaving it alone.
LEMMA AskingLeases ==
    ASSUME QueueTypeOK, NEW advance, NEW asked, NEW request,
           Asks(advance, asked, request),
           NEW j \in JobIds, job'[j].state = "leased"
    PROVE  job'[j] = job[j]
<1>1. RowOK(job[j])
  BY DEF QueueTypeOK, RowOK
<1>2. ClosedRow(job[j]).state = "leased" => ClosedRow(job[j]) = job[j]
  BY DEF ClosedRow, Active, Completed, NoJob
<1>3. request[j.msg] \in Requests /\ QueuedRow(job[j], request[j.msg]).state = "leased"
        => QueuedRow(job[j], request[j.msg]) = job[j]
  BY <1>1, QueuedRowCases
<1> QED BY <1>2, <1>3, AskedRow

\* What a busy worker knows of its row stays true while it owns the lease.
LEMMA ClaimedAsStep == TypeOK /\ LeaseInv /\ ClaimedAs /\ [Next]_vars => ClaimedAs'
<1> SUFFICES ASSUME TypeOK, LeaseInv, ClaimedAs, [Next]_vars,
                    NEW w \in Workers, Busy(w)', OwnsLease(worker[w].job, worker[w].token)'
             PROVE  /\ job'[worker'[w].job].attempts = worker'[w].attempts
                    /\ job'[worker'[w].job].kind = worker'[w].kind
  BY DEF ClaimedAs
<1>0. QueueTypeOK /\ \A v \in Workers : Busy(v) => worker[v].job \in JobIds
  BY DEF TypeOK, Busy
<1> DEFINE j == worker[w].job
<1>1. ASSUME Steady, job'[j].state = "leased" => SameRow(job'[j], job[j])
      PROVE  /\ job'[worker'[w].job].attempts = worker'[w].attempts
             /\ job'[worker'[w].job].kind = worker'[w].kind
  <2>1. /\ Busy(w) /\ worker'[w].job = j /\ worker'[w].token = worker[w].token
        /\ worker'[w].attempts = worker[w].attempts /\ worker'[w].kind = worker[w].kind
    BY <1>1 DEF Steady, SameWork
  <2>2. job'[j].state = "leased" /\ job'[j].token = worker[w].token
    BY <2>1 DEF OwnsLease
  <2>3. OwnsLease(j, worker[w].token)
    BY <1>1, <2>2 DEF SameRow, OwnsLease
  <2> QED BY <1>1, <2>1, <2>2, <2>3 DEF ClaimedAs, SameRow
<1>2. CASE (Requesting \/ Assessing) /\ Steady
  <2>1. PICK advance, asked \in SUBSET Messages :
          \E request \in [asked -> Requests] : Asks(advance, asked, request)
    BY <1>2 DEF Requesting, Assessing, Requested, Assessed
  <2>2. PICK request \in [asked -> Requests] : Asks(advance, asked, request)
    BY <2>1
  <2>3. j \in JobIds
    BY <1>0, <1>2 DEF Steady, SameWork
  <2> HIDE DEF j
  <2>4. job'[j].state = "leased" => job'[j] = job[j]
    BY <1>0, <2>2, <2>3, AskingLeases
  <2> QED BY <1>1, <1>2, <2>4 DEF SameRow
<1>3. ASSUME NEW v \in Workers, NEW k \in JobIds, ClaimJob(v, k)
      PROVE  /\ job'[worker'[w].job].attempts = worker'[w].attempts
             /\ job'[worker'[w].job].kind = worker'[w].kind
  <2>1. CASE w = v
    BY <1>3, <2>1, ClaimShape
  <2>2. CASE w # v
    <3>1. worker'[w] = worker[w] /\ Busy(w) /\ j \in JobIds
      BY <1>0, <1>3, <2>2, ClaimShape DEF Busy
    <3>2. j # k
      BY <1>3, <2>2, <3>1, ClaimShape DEF OwnsLease
    <3>3. job'[j] = job[j]
      BY <1>3, <3>1, <3>2, ClaimShape
    <3> QED BY <3>1, <3>3 DEF ClaimedAs, OwnsLease
  <2> QED BY <2>1, <2>2
<1>4. ASSUME NEW v \in Workers, Ends(v), EndStep(v)
      PROVE  /\ job'[worker'[w].job].attempts = worker'[w].attempts
             /\ job'[worker'[w].job].kind = worker'[w].kind
  <2> DEFINE own == worker[v].job
  <2>1. w # v /\ worker'[w] = worker[w] /\ Busy(w) /\ Busy(v)
    BY <1>4 DEF Ends, Busy
  <2>2. j \in JobIds /\ own \in JobIds
    BY <1>0, <2>1
  <2>3. job'[j].state = "leased" /\ job'[j].token = worker[w].token
    BY <2>1 DEF OwnsLease
  <2>4. CASE j # own
    <3>1. job'[j] = job[j]
      BY <1>4, <2>2, <2>3, <2>4 DEF Ends, Planted
    <3> QED BY <2>1, <2>3, <3>1 DEF ClaimedAs, OwnsLease
  <2>5. CASE j = own
    <3>1. ~OwnsLease(own, worker[v].token)
      <4> SUFFICES ASSUME OwnsLease(own, worker[v].token) PROVE FALSE
        OBVIOUS
      <4>1. RowOK(job[own]) /\ followup[own] \in Followups
        BY <2>2 DEF TypeOK, QueueTypeOK, RowOK
      <4>2. FinishedRow(job[own], followup[own]).state # "leased"
        BY <4>1, EndedRowsKeep
      <4> QED BY <1>4, <2>3, <2>5, <4>2, OwnRowEnds DEF Deferred, Retried, Failed, Finished
    <3>2. job' = job
      BY <1>4, <3>1 DEF Ends
    <3> QED BY <2>1, <2>3, <3>2 DEF ClaimedAs, OwnsLease
  <2> QED BY <2>4, <2>5
<1>5. ASSUME NEW k \in JobIds, Expire(k)
      PROVE  /\ job'[worker'[w].job].attempts = worker'[w].attempts
             /\ job'[worker'[w].job].kind = worker'[w].kind
  <2>1. job' = [job EXCEPT ![k].live = FALSE]
    BY <1>5 DEF Expire, LeaseExpires
  <2>2. worker[w] \in WorkerStates
    BY DEF TypeOK
  <2>3. /\ worker'[w].phase = worker[w].phase /\ worker'[w].job = j
        /\ worker'[w].token = worker[w].token /\ worker'[w].kind = worker[w].kind
        /\ worker'[w].attempts = worker[w].attempts
    BY <1>5, <2>2 DEF Expire, WorkerStates
  <2>4. Busy(w) /\ j \in JobIds
    BY <1>0, <2>3 DEF Busy
  <2>5. /\ job'[j].state = job[j].state /\ job'[j].token = job[j].token
        /\ job'[j].kind = job[j].kind /\ job'[j].attempts = job[j].attempts
    BY <1>0, <2>1, <2>4 DEF QueueTypeOK, Jobs
  <2> QED BY <2>3, <2>4, <2>5 DEF ClaimedAs, OwnsLease
<1>6. CASE Quiet /\ Steady
  <2>1. j \in JobIds
    BY <1>0, <1>6 DEF Steady, SameWork
  <2> QED BY <1>1, <1>6, <2>1 DEF Quiet
<1>7. UNCHANGED worker => Steady
  BY DEF Steady, SameWork, Busy
<1> QED BY <1>2, <1>3, <1>4, <1>5, <1>6, <1>7, StepShapes

\* One row of a batch of requests, the history counter restarted with it.
LEMMA AskedCharge ==
    ASSUME QueueTypeOK, NEW advance, NEW asked, NEW request,
           Asks(advance, asked, request), NEW j \in JobIds,
           charged[j] \in Nat, RowCharged(job[j], charged[j])
    PROVE  /\ RowCharged(job'[j], IF job'[j].attempts = 0 THEN 0 ELSE charged[j])
           /\ job[j].state = "none" => RowCharged(job'[j], charged[j])
           /\ job'[j] = job[j] => RowCharged(job'[j], charged[j])
<1> DEFINE q == request[j.msg]
<1>1. RowOK(job[j]) /\ job[j].attempts \in Nat
  BY DEF QueueTypeOK, RowOK, Jobs
<1>2. \/ job'[j] = ClosedRow(job[j])
      \/ q \in Requests /\ job'[j] = QueuedRow(job[j], q)
      \/ job'[j] = job[j]
  BY AskedRow
<1>3. CASE job'[j] = job[j]
  BY <1>1, <1>3, AttemptAssumption DEF RowCharged
<1>4. CASE job'[j] = ClosedRow(job[j])
  BY <1>1, <1>3, <1>4 DEF ClosedRow, RowCharged, Completed, NoJob, Active
<1>5. CASE q \in Requests /\ job'[j] = QueuedRow(job[j], q)
  <2> HIDE DEF q
  <2>1. \/ job'[j].state = "queued" /\ job'[j].attempts = 0
        \/ /\ job[j].state \in {"queued", "failed"}
           /\ job'[j].state = job[j].state /\ job'[j].attempts = job[j].attempts
        \/ job'[j] = job[j]
    BY <1>1, <1>5, QueuedRowCases
  <2>2. CASE job'[j].state = "queued" /\ job'[j].attempts = 0
    BY <2>2 DEF RowCharged
  <2>3. CASE /\ job[j].state \in {"queued", "failed"}
             /\ job'[j].state = job[j].state /\ job'[j].attempts = job[j].attempts
    BY <1>1, <2>3, AttemptAssumption DEF RowCharged
  <2> QED BY <1>3, <2>1, <2>2, <2>3
<1> QED BY <1>2, <1>3, <1>4, <1>5

\* Evidence reads queue rows that did not exist, and close none.
LEMMA AssessedRow ==
    ASSUME TypeOK, RowsReached, NEW advance, NEW asked, NEW request,
           Assessed(advance, asked, request), NEW j \in JobIds
    PROVE  job[j].state = "none" \/ (job'[j] = job[j] /\ followup'[j] = followup[j])
<1>0. QueueTypeOK /\ Asks(advance, asked, request) /\ j.msg \in Messages /\ j.rev \in Nat \ {0}
  BY DEF TypeOK, Assessed, JobIds, Revs
<1>1. rev[j.msg] \in Nat
  BY <1>0, RevAssumption DEF QueueTypeOK
<1>2. ASSUME j.msg \in asked, rev[j.msg] = 0 PROVE job[j].state = "none"
  BY <1>0, <1>2 DEF RowsReached
<1>3. ASSUME j.msg \in asked, rev[j.msg] > 0, j = NowJob(j.msg, rev'[j.msg])
      PROVE  job[j].state = "none"
  <2>1. j.msg \notin advance
    BY <1>3 DEF Assessed
  <2>2. rev'[j.msg] = rev[j.msg]
    BY <1>0, <2>1, AskedRev
  <2> QED BY <1>3, <2>2 DEF Assessed, Current
<1>4. j.msg \in advance => j.msg \in asked /\ rev[j.msg] = 0
  BY DEF Assessed
<1>5. \/ j.msg \in advance
      \/ j.msg \in asked /\ j = NowJob(j.msg, rev'[j.msg])
      \/ job'[j] = job[j] /\ followup'[j] = followup[j]
  BY <1>0, AskedRow
<1> QED BY <1>1, <1>2, <1>3, <1>4, <1>5

\* Deferrals give their attempt back, everything else that ends an attempt is
\* counted, and only a restart sets the count back.
LEMMA ChargeStep ==
    TypeOK /\ LeaseInv /\ ClaimedAs /\ RowsCharged /\ [Next]_vars => RowsCharged'
<1> SUFFICES ASSUME TypeOK, LeaseInv, ClaimedAs, RowsCharged, [Next]_vars, NEW j \in JobIds
             PROVE  RowCharged(job'[j], charged'[j])
  BY DEF RowsCharged
<1>0. /\ QueueTypeOK /\ charged \in [JobIds -> Nat] /\ job[j].attempts \in Nat
      /\ RowOK(job[j]) /\ followup[j] \in Followups
  BY DEF TypeOK, QueueTypeOK, Jobs, RowOK
<1>1. RowCharged(job[j], charged[j])
  BY DEF RowsCharged
<1>2. CASE Requesting /\ Recount
  <2>1. PICK advance, asked \in SUBSET Messages :
          \E request \in [asked -> Requests] : Asks(advance, asked, request)
    BY <1>2 DEF Requesting, Requested
  <2>2. PICK request \in [asked -> Requests] : Asks(advance, asked, request)
    BY <2>1
  <2>3. charged'[j] = IF job'[j].attempts = 0 THEN 0 ELSE charged[j]
    BY <1>2 DEF Recount
  <2> QED BY <1>0, <1>1, <2>2, <2>3, AskedCharge
<1>3. CASE Assessing /\ UNCHANGED charged
  <2>1. PICK advance, asked \in SUBSET Messages :
          \E request \in [asked -> Requests] : Assessed(advance, asked, request)
    BY <1>3 DEF Assessing
  <2>2. PICK request \in [asked -> Requests] : Assessed(advance, asked, request)
    BY <2>1
  <2>3. job[j].state = "none" \/ job'[j] = job[j]
    BY <2>2, AssessedRow DEF LeaseInv
  <2> QED BY <1>0, <1>1, <1>3, <2>2, <2>3, AskedCharge DEF Assessed
<1>4. ASSUME NEW w \in Workers, NEW k \in JobIds, ClaimJob(w, k)
      PROVE  RowCharged(job'[j], charged'[j])
  <2>1. charged' = IF job[k].state = "leased" THEN [charged EXCEPT ![k] = @ + 1] ELSE charged
    BY <1>4 DEF ClaimJob
  <2>2. CASE j = k
    BY <1>0, <1>1, <1>4, <2>1, <2>2, ClaimShape DEF RowCharged, Active
  <2>3. CASE j # k
    BY <1>0, <1>1, <1>4, <2>1, <2>3, ClaimShape
  <2> QED BY <2>2, <2>3
<1>5. ASSUME NEW w \in Workers, Ends(w), EndStep(w) PROVE RowCharged(job'[j], charged'[j])
  <2> DEFINE own == worker[w].job
  <2>0. own \in JobIds /\ Busy(w)
    BY <1>5 DEF Ends, TypeOK, Busy
  <2>1. CASE ~OwnsLease(own, worker[w].token)
    BY <1>1, <1>5, <2>1, OwnRowEnds
  <2>2. CASE OwnsLease(own, worker[w].token) /\ j = own
    <3>1. /\ job[j].state = "leased" /\ job[j].attempts = worker[w].attempts
          /\ job[j].attempts = charged[j] + 1
      BY <1>1, <2>0, <2>2 DEF OwnsLease, ClaimedAs, RowCharged
    <3>2. CASE Deferred(w)
      <4>1. charged'[j] = charged[j] /\ charged[j] \in Nat
        BY <1>0, <3>2 DEF Deferred
      <4> QED BY <2>2, <3>1, <3>2, <4>1 DEF Deferred, RowCharged
    <3>3. CASE Retried(w)
      BY <1>0, <2>2, <3>1, <3>3 DEF Retried, RowCharged
    <3>4. CASE Failed(w)
      BY <1>0, <2>2, <3>1, <3>4 DEF Failed, RowCharged
    <3>5. CASE Finished(w)
      <4>1. job'[j] = FinishedRow(job[j], followup[j])
        BY <2>2, <3>5 DEF Finished
      <4>2. job'[j].attempts = 0 /\ job'[j].state \in {"queued", "completed"}
        BY <1>0, <4>1, FinishedRowShape
      <4>3. charged'[j] = 0
        BY <3>5, <4>2 DEF Finished, Recount
      <4> QED BY <4>2, <4>3 DEF RowCharged
    <3> QED BY <1>5, <2>2, <3>2, <3>3, <3>4, <3>5, OwnRowEnds
  <2>3. CASE OwnsLease(own, worker[w].token) /\ j # own
    <3>1. job'[j] = job[j] \/ Planted(j)
      BY <1>5, <2>3 DEF Ends
    <3>2. charged'[j] = charged[j] \/ charged'[j] = IF job'[j].attempts = 0 THEN 0 ELSE charged[j]
      <4>1. Deferred(w) \/ Retried(w) \/ Failed(w) \/ Finished(w)
        BY <1>5, <2>3, OwnRowEnds
      <4> QED BY <1>0, <2>3, <4>1 DEF Deferred, Retried, Failed, Finished, Recount
    <3>3. CASE job'[j] = job[j]
      BY <1>0, <1>1, <3>2, <3>3, AttemptAssumption DEF RowCharged
    <3>4. CASE Planted(j)
      BY <1>0, <1>1, <3>2, <3>4 DEF RowCharged, Planted
    <3> QED BY <3>1, <3>3, <3>4
  <2> QED BY <2>1, <2>2, <2>3
<1>6. ASSUME NEW k \in JobIds, Expire(k) PROVE RowCharged(job'[j], charged'[j])
  <2>1. job' = [job EXCEPT ![k].live = FALSE] /\ charged' = charged
    BY <1>6 DEF Expire, LeaseExpires, history
  <2>2. job'[j].state = job[j].state /\ job'[j].attempts = job[j].attempts
    BY <1>0, <2>1 DEF QueueTypeOK, Jobs
  <2> QED BY <1>1, <2>1, <2>2 DEF RowCharged
<1>7. CASE Quiet
  BY <1>1, <1>7 DEF Quiet, SameRow, RowCharged
<1> QED BY <1>2, <1>3, <1>4, <1>5, <1>6, <1>7, StepShapes

\* A job fails for good only after max_attempts attempts that really ended in
\* failure or a lost lease: outages, budget refusals and restarts cost none.
THEOREM AttemptsHonest == Spec => []AttemptsAccounted
<1>1. Init => ClaimedAs /\ RowsCharged
  <2> SUFFICES ASSUME Init PROVE ClaimedAs /\ RowsCharged
    OBVIOUS
  <2>1. \A j \in JobIds : job[j].state = "none" /\ charged[j] = 0
    BY DEF Init, QueueInit, NoJob
  <2>2. \A w \in Workers : ~Busy(w)
    BY DEF Init, Busy, Idle
  <2> QED BY <2>1, <2>2 DEF ClaimedAs, RowsCharged, RowCharged
<1>2. RowsCharged => AttemptsAccounted
  BY DEF RowsCharged, RowCharged, AttemptsAccounted
<1> QED BY <1>1, <1>2, ClaimedAsStep, ChargeStep, LeasesHold, TypeCorrect, PTL DEF Spec
--------------------------------------------------------------------------------
(* A follow-up is never lost on the way *)

\* A human's lane in a follow-up always comes with a full investigation.
FollowupLane == \A j \in JobIds : followup[j].foreground => followup[j].kind = "triage"

\* A request that finds the row leased joins its follow-up.
LEMMA QueuedFollowupShape ==
    ASSUME NEW row, NEW f, NEW q
    PROVE  LET new == QueuedFollowup(row, f, q) IN
           /\ row.state = "leased" =>
                 /\ new.some
                 /\ new.kind = MergedKind(MergedKind(row.kind, q.kind), f.kind)
                 /\ (f.foreground => f.kind = "triage") =>
                       (new.foreground => new.kind = "triage")
           /\ row.state # "leased" => new = f
BY DEF QueuedFollowup, SomeFollowup, MergedKind

\* What a step may do to a follow-up besides adding to it.
LEMMA FollowupStep ==
    ASSUME TypeOK, FollowupLane, [Next]_vars, NEW j \in JobIds
    PROVE  /\ followup'[j].foreground => followup'[j].kind = "triage"
           /\ Dropped(j) /\ job'[j].state # "failed" => CarriedAfter(j)
<1>0. /\ QueueTypeOK /\ RowOK(job[j]) /\ followup[j] \in Followups
      /\ \A w \in Workers : Busy(w) => worker[w].job \in JobIds
  BY DEF TypeOK, QueueTypeOK, RowOK, Busy
<1>1. followup[j].foreground => followup[j].kind = "triage"
  BY DEF FollowupLane
<1>2. CASE followup'[j] = followup[j]
  BY <1>1, <1>2 DEF Dropped
<1>3. CASE Requesting \/ Assessing
  <2>1. PICK advance, asked \in SUBSET Messages :
          \E request \in [asked -> Requests] : Asks(advance, asked, request)
    BY <1>3 DEF Requesting, Assessing, Requested, Assessed
  <2>2. PICK request \in [asked -> Requests] : Asks(advance, asked, request)
    BY <2>1
  <2>3. rev'[j.msg] # rev[j.msg] <=> j.msg \in advance
    BY <1>0, <2>2, AskedRev DEF JobIds
  <2>4. CASE j.msg \in advance /\ followup'[j] = NoFollowup
    BY <2>3, <2>4 DEF Dropped, NoFollowup
  <2>5. CASE followup'[j] = QueuedFollowup(job[j], followup[j], request[j.msg])
    BY <1>1, <2>5, QueuedFollowupShape DEF Dropped
  <2> QED BY <1>0, <1>2, <2>2, <2>4, <2>5, AskedRow
<1>4. ASSUME NEW w \in Workers, Ends(w), EndStep(w), followup'[j] # followup[j]
      PROVE  /\ followup'[j].foreground => followup'[j].kind = "triage"
             /\ Dropped(j) /\ job'[j].state # "failed" => CarriedAfter(j)
  <2>1. /\ j = worker[w].job /\ followup'[j] = NoFollowup
        /\ Deferred(w) \/ Retried(w) \/ Failed(w) \/ Finished(w)
    BY <1>4, OwnRowEnds DEF Ends
  <2>2. CASE Deferred(w) \/ Retried(w)
    BY <2>1, <2>2 DEF Deferred, Retried, Merged, MergedKind, CarriedAfter, NoFollowup
  <2>3. CASE Failed(w)
    BY <2>1, <2>3 DEF Failed, NoFollowup
  <2>4. CASE Finished(w)
    <3>1. job'[j] = FinishedRow(job[j], followup[j])
      BY <2>1, <2>4 DEF Finished
    <3>2. followup[j].some =>
            /\ job'[j].state = "queued"
            /\ job'[j].kind = MergedKind(job[j].kind, followup[j].kind)
            /\ followup[j].foreground /\ job'[j].kind = "triage" => job'[j].foreground
      BY <1>0, <3>1, FinishedRowShape
    <3> QED BY <1>1, <2>1, <3>2 DEF Dropped, CarriedAfter, MergedKind, NoFollowup
  <2> QED BY <2>1, <2>2, <2>3, <2>4
<1>5. ASSUME NEW w \in Workers, NEW k \in JobIds, ClaimJob(w, k) PROVE followup'[j] = followup[j]
  BY <1>5, ClaimShape
<1>6. ASSUME NEW k \in JobIds, Expire(k) PROVE followup'[j] = followup[j]
  BY <1>6 DEF Expire, LeaseExpires
<1>7. Quiet => followup'[j] = followup[j]
  BY DEF Quiet
<1> QED BY <1>2, <1>3, <1>4, <1>5, <1>6, <1>7, StepShapes

\* Every ending but terminal failure carries the waiting request over: the row
\* is queued again with the wider kind and the human's foreground lane.
THEOREM FollowupsCarried == Spec => FollowupCarried
<1>1. Init => FollowupLane
  BY DEF Init, QueueInit, NoFollowup, FollowupLane
<1>2. TypeOK /\ FollowupLane /\ [Next]_vars => FollowupLane'
  BY FollowupStep DEF FollowupLane
<1>3. TypeOK /\ FollowupLane /\ [Next]_vars
        => [\A j \in JobIds : Dropped(j) /\ job'[j].state # "failed" => CarriedAfter(j)]_vars
  BY FollowupStep
<1> QED BY <1>1, <1>2, <1>3, TypeCorrect, PTL DEF Spec, FollowupCarried
================================================================================
