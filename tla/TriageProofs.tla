------------------------------ MODULE TriageProofs -----------------------------
(***************************************************************************)
(* Theorems about the triage queue and its engines, for every set of       *)
(* messages and workers and every bound: the tables stay well formed,      *)
(* threads are never investigated twice at once, a waiting request always  *)
(* sits beside a lease, and a human's access choice is never overruled.    *)
(***************************************************************************)
EXTENDS TriageEngine, TLAPS

RowOK(row) == row \in Jobs /\ LeaseShape(row)

--------------------------------------------------------------------------------
(* The pure row operators keep a row well formed. *)

\* A new request leaves a well-formed row.
LEMMA QueuedRowOK ==
    ASSUME NEW row, RowOK(row), NEW q \in Requests
    PROVE  RowOK(QueuedRow(row, q))
<1> DEFINE kind == MergedKind(row.kind, q.kind)
<1>1. kind \in Kinds
  BY DEF MergedKind, Kinds
<1>2. NoToken \notin Tokens
  BY TokenAssumption
<1>3. CASE row.state = "none"
  BY <1>3, <1>2 DEF RowOK, QueuedRow, LeaseShape, Jobs, JobStates, NoJob, Requests
<1>4. CASE row.state # "none" /\ Restarts(row, q.trig)
  BY <1>4, <1>1, <1>2 DEF RowOK, QueuedRow, LeaseShape, Jobs, JobStates, Requeued, Requests, Restarts
<1>5. CASE row.state # "none" /\ ~Restarts(row, q.trig)
  BY <1>5, <1>1, <1>2 DEF RowOK, QueuedRow, LeaseShape, Jobs, JobStates, Requests, Unparks
<1> QED BY <1>3, <1>4, <1>5

\* A follow-up absorbed by a queued row keeps it well formed.
LEMMA AbsorbedOK ==
    ASSUME NEW row, RowOK(row), row.state = "queued", NEW f \in Followups
    PROVE  RowOK(Absorbed(row, f)) /\ Absorbed(row, f).state = "queued"
<1> DEFINE kind == MergedKind(row.kind, f.kind)
           fg   == row.foreground \/ f.foreground
           due  == row.due \/ (f.foreground /\ row.parked)
           park == row.parked /\ ~f.foreground
<1>1. kind \in Kinds
  BY DEF MergedKind, Kinds
<1>2. fg \in BOOLEAN /\ due \in BOOLEAN /\ park \in BOOLEAN
  OBVIOUS
<1>3. Absorbed(row, f) = [row EXCEPT !.kind = kind, !.foreground = fg,
                                     !.due = due, !.parked = park]
  BY DEF Absorbed
<1> HIDE DEF kind, fg, due, park
<1> QED BY <1>1, <1>2, <1>3 DEF RowOK, LeaseShape, Jobs

\* A row put back in the queue is well formed, deferred or not.
LEMMA ReleasedOK ==
    ASSUME NEW row, RowOK(row)
    PROVE  /\ RowOK(RetriedRow(row)) /\ RetriedRow(row).state = "queued"
           /\ \A parked \in BOOLEAN : /\ RowOK(DeferredRow(row, parked))
                                      /\ DeferredRow(row, parked).state = "queued"
<1>1. NoToken \notin Tokens
  BY TokenAssumption
<1>2. RowOK(Released(row)) /\ Released(row).state = "queued"
  BY <1>1 DEF RowOK, Released, LeaseShape, Jobs, JobStates
<1>3. \A parked \in BOOLEAN : /\ RowOK(DeferredRow(row, parked))
                              /\ DeferredRow(row, parked).state = "queued"
  <2> TAKE parked \in BOOLEAN
  <2> DEFINE rel == Released(row)
             left == IF rel.attempts > 0 THEN rel.attempts - 1 ELSE 0
  <2>1. rel \in Jobs /\ LeaseShape(rel) /\ rel.state = "queued"
    BY <1>2 DEF RowOK
  <2>2. left \in Nat
    BY <2>1 DEF Jobs
  <2>3. DeferredRow(row, parked) = [rel EXCEPT !.parked = parked, !.attempts = left]
    BY DEF DeferredRow
  <2> HIDE DEF rel, left
  <2> QED BY <2>1, <2>2, <2>3 DEF RowOK, LeaseShape, Jobs
<1> QED BY <1>2, <1>3 DEF RetriedRow

\* So is a row whose lease ends any other way.
LEMMA EndedRowsOK ==
    ASSUME NEW row, RowOK(row), NEW f \in Followups
    PROVE  /\ RowOK(Completed(row))
           /\ RowOK(ClosedRow(row))
           /\ RowOK(FinishedRow(row, f))
<1>1. NoToken \notin Tokens
  BY TokenAssumption
<1>2. RowOK(Completed(row))
  BY <1>1 DEF RowOK, Completed, NoJob, LeaseShape, Jobs, JobStates
<1>3. RowOK(ClosedRow(row))
  BY <1>2 DEF ClosedRow
<1>4. MergedKind(row.kind, f.kind) \in Kinds
  BY DEF MergedKind, Kinds
<1>5. RowOK(FinishedRow(row, f))
  <2> DEFINE done == Completed(row)
             kind == MergedKind(row.kind, f.kind)
             fg   == f.foreground /\ kind = "triage"
  <2>1. fg \in BOOLEAN
    OBVIOUS
  <2>2. done \in Jobs /\ LeaseShape(done) /\ done.state = "completed"
    BY <1>2 DEF RowOK, Completed, NoJob
  <2>3. FinishedRow(row, f) = IF f.some THEN Requeued(done, kind, fg) ELSE done
    BY DEF FinishedRow
  <2>4. RowOK(Requeued(done, kind, fg))
    <3> HIDE DEF done, kind, fg
    <3> QED BY <1>1, <1>4, <2>1, <2>2 DEF kind, RowOK, Requeued, LeaseShape, Jobs, JobStates
  <2> QED BY <1>2, <2>3, <2>4
<1> QED BY <1>2, <1>3, <1>5

--------------------------------------------------------------------------------
(* The store's transactions keep the tables well formed. *)

\* A follow-up request is well formed.
LEMMA QueuedFollowupOK ==
    ASSUME NEW row, RowOK(row), NEW f \in Followups, NEW q \in Requests
    PROVE  QueuedFollowup(row, f, q) \in Followups
<1> DEFINE kind == MergedKind(row.kind, q.kind)
           fg   == f.foreground \/ (q.requested /\ kind = "triage")
<1>1. MergedKind(kind, f.kind) \in Kinds
  BY DEF MergedKind, Kinds
<1>2. fg \in BOOLEAN
  OBVIOUS
<1>3. QueuedFollowup(row, f, q) =
        IF row.state = "leased" THEN SomeFollowup(MergedKind(kind, f.kind), fg) ELSE f
  BY DEF QueuedFollowup
<1> HIDE DEF fg
<1> QED BY <1>1, <1>2, <1>3 DEF SomeFollowup, Followups

\* There is a follow-up value that means none.
LEMMA NoFollowupOK == NoFollowup \in Followups
BY DEF NoFollowup, Followups, Kinds

\* Enqueueing for any set of messages that still have a revision to come.
LEMMA ApplyOK ==
    ASSUME QueueTypeOK,
           NEW advance \in SUBSET Messages, \A m \in advance : rev[m] < MaxRev,
           NEW asked \in SUBSET Messages, NEW request \in [asked -> Requests],
           Apply(advance, asked, request)
    PROVE  /\ rev' \in [Messages -> 0..MaxRev]
           /\ job' \in [JobIds -> Jobs] /\ \A j \in JobIds : LeaseShape(job'[j])
           /\ followup' \in [JobIds -> Followups]
<1> DEFINE next == [m \in Messages |-> IF m \in advance THEN rev[m] + 1 ELSE rev[m]]
           closed(j) == IF \E m \in advance : Superseded(m, next[m], j)
                          THEN ClosedRow(job[j]) ELSE job[j]
           kept(j)   == IF \E m \in advance : Superseded(m, next[m], j)
                          THEN NoFollowup ELSE followup[j]
           hit(j)    == j.msg \in asked /\ j = NowJob(j.msg, next[j.msg])
<1>1. /\ rev' = next
      /\ job' = [j \in JobIds |->
                   IF hit(j) THEN QueuedRow(closed(j), request[j.msg]) ELSE closed(j)]
      /\ followup' = [j \in JobIds |->
                        IF hit(j) THEN QueuedFollowup(closed(j), kept(j), request[j.msg])
                        ELSE kept(j)]
  BY DEF Apply
<1>2. next \in [Messages -> 0..MaxRev]
  BY RevAssumption DEF QueueTypeOK
<1>3. \A j \in JobIds : RowOK(job[j]) /\ followup[j] \in Followups
  BY DEF QueueTypeOK, RowOK
<1>4. \A j \in JobIds : RowOK(closed(j)) /\ kept(j) \in Followups
  BY <1>3, EndedRowsOK, NoFollowupOK
<1>5. \A j \in JobIds : hit(j) => request[j.msg] \in Requests
  OBVIOUS
<1> HIDE DEF closed, kept, hit, next
<1>6. \A j \in JobIds : /\ hit(j) => RowOK(QueuedRow(closed(j), request[j.msg]))
                        /\ hit(j) => QueuedFollowup(closed(j), kept(j), request[j.msg]) \in Followups
  BY <1>4, <1>5, QueuedRowOK, QueuedFollowupOK
<1>7. \A j \in JobIds : RowOK(job'[j]) /\ followup'[j] \in Followups
  BY <1>1, <1>4, <1>6
<1>8. job' \in [JobIds -> Jobs]
  BY <1>1, <1>7 DEF RowOK
<1>9. followup' \in [JobIds -> Followups]
  BY <1>1, <1>7
<1> QED BY <1>1, <1>2, <1>7, <1>8, <1>9 DEF RowOK

\* Every request the store builds is one.
LEMMA RequestOK ==
    ASSUME NEW m, NEW trig \in Triggers, NEW r, NEW requested \in BOOLEAN
    PROVE  Request(m, trig, r, requested) \in Requests
<1> DEFINE kind == IF m \in Sent \/ trig = "source_access" THEN "access" ELSE "triage"
           fg   == /\ kind = "triage"
                   /\ requested \/ UnclassifiedArrival(m) \/ (r = 1 /\ trig = "arrival")
<1>1. kind \in Kinds /\ fg \in BOOLEAN
  BY DEF Kinds
<1>2. Request(m, trig, r, requested) =
        [kind |-> kind, trig |-> trig, requested |-> requested, foreground |-> fg]
  BY DEF Request
<1> HIDE DEF kind, fg
<1> QED BY <1>1, <1>2 DEF Requests

\* The access column after an enqueue.
LEMMA AccessAfterOK ==
    ASSUME QueueTypeOK, NEW m \in Messages, NEW changed
    PROVE  AccessAfter(m, changed) \in Access
BY DEF QueueTypeOK, AccessAfter, Access, Verdicts

\* One enqueue call, whoever makes it.
LEMMA EnqueueOK ==
    ASSUME QueueTypeOK, NEW m \in Messages, NEW newContent \in BOOLEAN,
           NEW trig \in Triggers, NEW requested \in BOOLEAN,
           Enqueue(m, newContent, trig, requested)
    PROVE  /\ rev' \in [Messages -> 0..MaxRev]
           /\ job' \in [JobIds -> Jobs] /\ \A j \in JobIds : LeaseShape(job'[j])
           /\ followup' \in [JobIds -> Followups]
           /\ AccessAfterEnqueue(m, newContent, trig) \in [Messages -> Access]
<1> DEFINE r       == NextRev(m, newContent)
           asked   == Called(m, newContent, trig)
                        \cup (IF Changes(m, newContent) THEN Dependents(m) ELSE {})
           advance == Advancing(m, newContent, trig)
           request == [n \in asked |-> IF n = m THEN Request(m, trig, r, requested)
                                       ELSE Request(n, "refresh", rev[n], FALSE)]
<1>1. r <= MaxRev /\ Apply(advance, asked, request)
  BY DEF Enqueue
<1>2. Called(m, newContent, trig) \in SUBSET Messages
  BY DEF Called, ReplyTarget, Siblings
<1>3. asked \in SUBSET Messages /\ advance \in SUBSET Messages
  BY <1>2 DEF Dependents, Advancing
<1>4. \A n \in advance : rev[n] < MaxRev
  <2> SUFFICES ASSUME NEW n \in advance PROVE rev[n] < MaxRev
    OBVIOUS
  <2>1. CASE n = m
    <3>1. Changes(m, newContent)
      BY <2>1 DEF Advancing
    <3>2. r = rev[m] + 1
      BY <3>1 DEF NextRev
    <3> QED BY <1>1, <2>1, <3>2, RevAssumption DEF QueueTypeOK
  <2>2. CASE n # m
    BY <2>2, RevAssumption DEF Advancing
  <2> QED BY <2>1, <2>2
<1>5. request \in [asked -> Requests]
  BY RequestOK DEF Triggers
<1>6. AccessAfterEnqueue(m, newContent, trig) \in [Messages -> Access]
  <2>1. \A n \in Messages : /\ access[n] \in Access
                            /\ AccessAfter(n, n \in advance) \in Access
    BY AccessAfterOK DEF QueueTypeOK
  <2> QED BY <2>1 DEF AccessAfterEnqueue
<1> HIDE DEF asked, advance, request
<1> QED BY <1>1, <1>3, <1>4, <1>5, <1>6, ApplyOK

\* Replacing one row by a well-formed one.
LEMMA OneRowOK ==
    ASSUME QueueTypeOK, NEW j \in JobIds, NEW row, RowOK(row),
           job' = [job EXCEPT ![j] = row]
    PROVE  job' \in [JobIds -> Jobs] /\ \A k \in JobIds : LeaseShape(job'[k])
BY DEF QueueTypeOK, RowOK

\* A row goes back to the queue with its follow-up.
LEMMA RequeueOK ==
    ASSUME QueueTypeOK, NEW j \in JobIds, NEW row, RowOK(row), row.state = "queued",
           Requeue(j, row)
    PROVE  /\ job' \in [JobIds -> Jobs] /\ \A k \in JobIds : LeaseShape(job'[k])
           /\ followup' \in [JobIds -> Followups]
<1>1. followup[j] \in Followups
  BY DEF QueueTypeOK
<1>2. RowOK(Absorbed(row, followup[j]))
  BY <1>1, AbsorbedOK
<1>3. followup' \in [JobIds -> Followups]
  BY NoFollowupOK DEF Requeue, QueueTypeOK
<1> QED BY <1>2, <1>3, OneRowOK DEF Requeue

\* What mail and humans do.
LEMMA DoorsTypeOK ==
    ASSUME QueueTypeOK, NEW m \in Messages
    PROVE  /\ \A trig \in {"arrival", "backfill"} : Ingest(m, trig) => QueueTypeOK'
           /\ Refetch(m) => QueueTypeOK'
           /\ Retriage(m) => QueueTypeOK'
           /\ \A value \in Verdicts \cup {"none"} : Correct(m, value) => QueueTypeOK'
<1>1. ASSUME NEW trig \in {"arrival", "backfill"}, Ingest(m, trig) PROVE QueueTypeOK'
  <2>1. trig \in Triggers /\ Enqueue(m, TRUE, trig, FALSE)
    BY <1>1 DEF Ingest, Triggers
  <2> QED BY <1>1, <2>1, EnqueueOK DEF Ingest, QueueTypeOK
<1>2. ASSUME Refetch(m) PROVE QueueTypeOK'
  <2> DEFINE j == NowJob(m, 1)
             row == [job[j] EXCEPT !.foreground = TRUE]
  <2>1. j \in JobIds
    BY RevAssumption DEF NowJob, JobIds, Revs
  <2>2. RowOK(row)
    BY <2>1 DEF QueueTypeOK, RowOK, LeaseShape, Jobs
  <2>3. job' = [job EXCEPT ![j] = row]
    BY <1>2 DEF Refetch
  <2> HIDE DEF j, row
  <2>4. job' \in [JobIds -> Jobs] /\ \A k \in JobIds : LeaseShape(job'[k])
    BY <2>1, <2>2, <2>3, OneRowOK
  <2> QED BY <1>2, <2>4 DEF Refetch, QueueTypeOK
<1>3. ASSUME Retriage(m) PROVE QueueTypeOK'
  <2>1. "manual" \in Triggers /\ Enqueue(m, FALSE, "manual", TRUE)
    BY <1>3 DEF Retriage, Triggers
  <2> QED BY <1>3, <2>1, EnqueueOK DEF Retriage, QueueTypeOK
<1>4. ASSUME NEW value \in Verdicts \cup {"none"}, Correct(m, value) PROVE QueueTypeOK'
  <2> DEFINE after == AccessAfterEnqueue(m, FALSE, "refresh")
  <2>1. "refresh" \in Triggers /\ Enqueue(m, FALSE, "refresh", FALSE)
    BY <1>4 DEF Correct, Triggers
  <2>2. after \in [Messages -> Access]
    BY <2>1, EnqueueOK
  <2> HIDE DEF after
  <2>3. human' \in [Messages -> Verdicts \cup {"none"}] /\ access' \in [Messages -> Access]
    BY <1>4, <2>2 DEF after, Correct, QueueTypeOK, Verdicts, Access
  <2>4. corr' \in [Messages -> Nat]
    BY <1>4 DEF Correct, QueueTypeOK
  <2> QED BY <1>4, <2>1, <2>3, <2>4, EnqueueOK DEF Correct, QueueTypeOK
<1> QED BY <1>1, <1>2, <1>3, <1>4

\* Cutover, and the access jobs that reading evidence queues.
LEMMA BulkTypeOK ==
    ASSUME QueueTypeOK, NEW S \in SUBSET Messages
    PROVE  /\ Cutover(S) => QueueTypeOK'
           /\ EnsureAssessed(S) /\ UNCHANGED cutover => QueueTypeOK'
<1>1. ASSUME Cutover(S) PROVE QueueTypeOK'
  <2> DEFINE asked   == Migrated(S)
             first   == {n \in asked : rev[n] = 0}
             request == [n \in asked |-> Request(n, "refresh", 1, FALSE)]
  <2>1. request \in [asked -> Requests]
    BY RequestOK DEF Triggers
  <2>2. asked \in SUBSET Messages /\ first \in SUBSET Messages
    BY DEF Migrated, ReplyTarget, Siblings
  <2>3. \A m \in first : rev[m] < MaxRev
    BY RevAssumption
  <2>4. Apply(first, asked, request)
    BY <1>1 DEF Cutover
  <2>5. access' \in [Messages -> Access]
    <3>1. \A n \in Messages : /\ access[n] \in Access
                              /\ AccessAfter(n, rev[n] = 0) \in Access
      BY AccessAfterOK DEF QueueTypeOK
    <3> QED BY <1>1, <3>1 DEF Cutover
  <2> HIDE DEF request, asked, first
  <2> QED BY <1>1, <2>1, <2>2, <2>3, <2>4, <2>5, ApplyOK DEF Cutover, QueueTypeOK
<1>2. ASSUME EnsureAssessed(S), UNCHANGED cutover PROVE QueueTypeOK'
  <2> DEFINE new == Unassessed(S)
             first == {n \in new : rev[n] = 0}
             request == [n \in new |-> Request(n, "source_access", 1, FALSE)]
  <2>1. request \in [new -> Requests]
    BY RequestOK DEF Triggers
  <2>2. /\ new \in SUBSET Messages /\ first \in SUBSET Messages
        /\ \A m \in first : rev[m] < MaxRev
    BY RevAssumption DEF Unassessed
  <2>3. Apply(first, new, request)
    BY <1>2 DEF EnsureAssessed
  <2>4. access' \in [Messages -> Access]
    <3>1. \A n \in Messages : /\ access[n] \in Access
                              /\ AccessAfter(n, rev[n] = 0) \in Access
      BY AccessAfterOK DEF QueueTypeOK
    <3> QED BY <1>2, <3>1 DEF EnsureAssessed
  <2> HIDE DEF request, new, first
  <2> QED BY <1>2, <2>1, <2>2, <2>3, <2>4, ApplyOK DEF EnsureAssessed, QueueTypeOK
<1> QED BY <1>1, <1>2

\* What a worker and the clock do to one row.
LEMMA WorkTypeOK ==
    ASSUME QueueTypeOK, NEW j \in JobIds, NEW token \in Tokens \cup {NoToken}
    PROVE  /\ token \in Tokens /\ Claim(j, token) => QueueTypeOK'
           /\ Retry(j, token) => QueueTypeOK'
           /\ \A parked \in BOOLEAN : Defer(j, token, parked) => QueueTypeOK'
           /\ Fail(j, token) => QueueTypeOK'
           /\ \A verdict \in Verdicts : CommitAccess(j, verdict) => QueueTypeOK'
           /\ BecomeDue(j) => QueueTypeOK'
           /\ LeaseExpires(j) => QueueTypeOK'
<1>1. RowOK(job[j]) /\ followup[j] \in Followups
  BY DEF QueueTypeOK, RowOK
<1>2. ASSUME token \in Tokens, Claim(j, token) PROVE QueueTypeOK'
  <2>1. RowOK(LeasedRow(job[j], token))
    <3> DEFINE row == job[j]
               tries == row.attempts + 1
    <3>1. row \in Jobs /\ tries \in Nat /\ token # NoToken
      BY <1>1, <1>2, TokenAssumption DEF RowOK, Jobs
    <3>2. LeasedRow(row, token) = [row EXCEPT !.state = "leased", !.token = token,
                                              !.live = TRUE, !.attempts = tries]
      BY DEF LeasedRow
    <3> HIDE DEF row, tries
    <3> QED BY <1>2, <3>1, <3>2 DEF row, RowOK, LeaseShape, Jobs, JobStates
  <2>2. job' = [job EXCEPT ![j] = LeasedRow(job[j], token)]
    BY <1>2 DEF Claim
  <2>3. job' \in [JobIds -> Jobs] /\ \A k \in JobIds : LeaseShape(job'[k])
    BY <2>1, <2>2, OneRowOK
  <2> QED BY <1>2, <2>3 DEF Claim, QueueTypeOK
<1>3. ASSUME Retry(j, token) PROVE QueueTypeOK'
  <2>1. RowOK(RetriedRow(job[j])) /\ RetriedRow(job[j]).state = "queued"
    BY <1>1, ReleasedOK
  <2>2. /\ job' \in [JobIds -> Jobs] /\ \A k \in JobIds : LeaseShape(job'[k])
        /\ followup' \in [JobIds -> Followups]
    BY <1>3, <2>1, RequeueOK DEF Retry, QueueTypeOK
  <2> QED BY <1>3, <2>2 DEF Retry, QueueTypeOK
<1>4. ASSUME NEW parked \in BOOLEAN, Defer(j, token, parked) PROVE QueueTypeOK'
  <2>1. RowOK(DeferredRow(job[j], parked)) /\ DeferredRow(job[j], parked).state = "queued"
    BY <1>1, ReleasedOK
  <2>2. /\ job' \in [JobIds -> Jobs] /\ \A k \in JobIds : LeaseShape(job'[k])
        /\ followup' \in [JobIds -> Followups]
    BY <1>4, <2>1, RequeueOK DEF Defer, QueueTypeOK
  <2> QED BY <1>4, <2>2 DEF Defer, QueueTypeOK
<1>5. ASSUME Fail(j, token) PROVE QueueTypeOK'
  <2> DEFINE row == FailedRow(job[j])
  <2>1. RowOK(row)
    BY <1>1, TokenAssumption DEF FailedRow, RowOK, LeaseShape, Jobs, JobStates
  <2>2. CASE OwnsLease(j, token)
    <3>1. job' = [job EXCEPT ![j] = row]
      BY <1>5, <2>2 DEF Fail, QueueTypeOK
    <3> HIDE DEF row
    <3>2. job' \in [JobIds -> Jobs] /\ \A k \in JobIds : LeaseShape(job'[k])
      BY <2>1, <3>1, OneRowOK
    <3> QED BY <1>5, <2>2, <3>2, NoFollowupOK DEF Fail, QueueTypeOK
  <2>3. CASE ~OwnsLease(j, token)
    BY <1>5, <2>3 DEF Fail, QueueTypeOK
  <2> QED BY <2>2, <2>3
<1>6. ASSUME NEW verdict \in Verdicts, CommitAccess(j, verdict) PROVE QueueTypeOK'
  <2>1. j.msg \in Messages
    BY DEF JobIds
  <2>2. access' \in [Messages -> Access]
    BY <1>6, <2>1 DEF CommitAccess, Verdict, QueueTypeOK, Verdicts, Access
  <2>3. job' \in [JobIds -> Jobs] /\ \A k \in JobIds : LeaseShape(job'[k])
    BY <1>1, <1>6, EndedRowsOK, OneRowOK DEF CommitAccess
  <2> QED BY <1>6, <2>2, <2>3, NoFollowupOK DEF CommitAccess, QueueTypeOK
<1>7. ASSUME BecomeDue(j) PROVE QueueTypeOK'
  <2> DEFINE row == [job[j] EXCEPT !.due = TRUE]
  <2>1. RowOK(row) /\ job' = [job EXCEPT ![j] = row]
    BY <1>1, <1>7 DEF BecomeDue, RowOK, LeaseShape, Jobs, QueueTypeOK
  <2> HIDE DEF row
  <2> QED BY <1>7, <2>1, OneRowOK DEF BecomeDue, QueueTypeOK
<1>8. ASSUME LeaseExpires(j) PROVE QueueTypeOK'
  <2> DEFINE row == [job[j] EXCEPT !.live = FALSE]
  <2>1. RowOK(row) /\ job' = [job EXCEPT ![j] = row]
    BY <1>1, <1>8 DEF LeaseExpires, LiveLease, RowOK, LeaseShape, Jobs, QueueTypeOK
  <2> HIDE DEF row
  <2> QED BY <1>8, <2>1, OneRowOK DEF LeaseExpires, QueueTypeOK
<1> QED BY <1>2, <1>3, <1>4, <1>5, <1>6, <1>7, <1>8

\* The applied commit of a decision.
LEMMA CommitDecisionTypeOK ==
    ASSUME QueueTypeOK, NEW j \in JobIds, NEW evidence, NEW verdict \in Verdicts,
           NEW revisit, CommitDecision(j, evidence, verdict, revisit)
    PROVE  QueueTypeOK'
<1> DEFINE m     == j.msg
           timer == [msg |-> m, rev |-> rev[m], slot |-> "revisit"]
           next(k) == IF k = j THEN FinishedRow(job[j], followup[j])
                      ELSE IF k = timer THEN RevisitRow(job[k], revisit /\ MayRevisit(m))
                      ELSE job[k]
<1>1. m \in Messages
  BY DEF JobIds
<1>2. \A k \in JobIds : RowOK(job[k]) /\ followup[k] \in Followups
  BY DEF QueueTypeOK, RowOK
<1>3. \A k \in JobIds : RowOK(RevisitRow(job[k], revisit /\ MayRevisit(m)))
  BY <1>2, TokenAssumption DEF RevisitRow, NoJob, RowOK, LeaseShape, Jobs, JobStates, Kinds
<1>4. RowOK(FinishedRow(job[j], followup[j]))
  BY <1>2, EndedRowsOK
<1>5. \A k \in JobIds : RowOK(next(k))
  BY <1>2, <1>3, <1>4
<1>6. job' = [k \in JobIds |-> next(k)]
  BY DEF CommitDecision
<1> HIDE DEF next
<1>7. job' \in [JobIds -> Jobs] /\ \A k \in JobIds : LeaseShape(job'[k])
  BY <1>5, <1>6 DEF RowOK
<1>8. sources' \in [Messages -> [Messages -> 0..MaxRev]]
  BY <1>1, RevAssumption DEF CommitDecision, QueueTypeOK
<1>9. access' \in [Messages -> Access]
  BY <1>1 DEF CommitDecision, Verdict, QueueTypeOK, Verdicts, Access
<1> QED BY <1>7, <1>8, <1>9, NoFollowupOK DEF CommitDecision, QueueTypeOK

--------------------------------------------------------------------------------
(* Type correctness of the whole engine. *)

\* A snapshot is a version.
LEMMA VersionOK ==
    ASSUME QueueTypeOK, NEW s \in Messages
    PROVE  Version(s) \in Versions /\ Unseen \in Versions
BY RevAssumption DEF QueueTypeOK, Version, Content, Versions, Unseen

\* What a worker reads first is a function of snapshots.
LEMMA FirstReadOK ==
    ASSUME QueueTypeOK, NEW w
    PROVE  FirstRead(w) \in [Messages -> Versions]
BY VersionOK DEF FirstRead

\* An idle worker is well formed.
LEMMA IdleOK ==
    Idle \in WorkerStates /\ Idle.phase = "idle"
BY RevAssumption DEF Idle, WorkerStates, Phases, Kinds, Versions, Unseen

\* Letting a job go keeps the engines well formed.
LEMMA LeaveOK ==
    ASSUME TypeOK, NEW w \in Workers, Leave(w)
    PROVE  /\ worker' \in [Workers -> WorkerStates]
           /\ \A v \in Workers : worker'[v].phase # "idle" => worker'[v].job \in JobIds
           /\ pass' \in [Engines -> {"claiming", "running"}]
<1>1. EngineOf[w] \in Engines
  BY DEF Engines
<1> QED BY <1>1, IdleOK DEF Leave, TypeOK

\* The history counter stays a counter.
LEMMA RecountOK ==
    ASSUME TypeOK, Recount
    PROVE  charged' \in [JobIds -> Nat]
BY DEF Recount, TypeOK

\* One worker step.
LEMMA WorkerTypeOK ==
    ASSUME TypeOK, NEW w \in Workers, WorkerStep(w)
    PROVE  TypeOK'
<1> DEFINE me == worker[w]
<1>1. /\ EngineOf[w] \in Engines
      /\ me \in WorkerStates
      /\ me.token \in Tokens \cup {NoToken}
      /\ me.phase # "idle" => me.job \in JobIds
  BY DEF Engines, TypeOK, WorkerStates
<1>2. ASSUME NEW j \in JobIds, ClaimJob(w, j) PROVE TypeOK'
  <2>0. PICK t \in Tokens :
           /\ Claim(j, t)
           /\ worker' = [worker EXCEPT ![w] =
                [Idle EXCEPT !.phase = "claimed", !.job = j, !.kind = job[j].kind,
                             !.token = t, !.attempts = job[j].attempts + 1]]
    BY <1>2 DEF ClaimJob
  <2> DEFINE new == [Idle EXCEPT !.phase = "claimed", !.job = j, !.kind = job[j].kind,
                                 !.token = t, !.attempts = job[j].attempts + 1]
  <2>1. QueueTypeOK'
    BY <2>0, WorkTypeOK DEF TypeOK
  <2>2. job[j].kind \in Kinds /\ job[j].attempts + 1 \in Nat
    BY DEF TypeOK, QueueTypeOK, Jobs
  <2>3. new \in WorkerStates /\ new.job = j
    BY <2>2, IdleOK DEF WorkerStates, Phases
  <2> HIDE DEF new
  <2>4. worker' = [worker EXCEPT ![w] = new]
    BY <2>0 DEF new
  <2>5. charged' \in [JobIds -> Nat]
    BY <1>2 DEF ClaimJob, TypeOK
  <2> QED BY <1>2, <2>1, <2>3, <2>4, <2>5 DEF ClaimJob, TypeOK
<1>3. ASSUME Begin(w) PROVE TypeOK'
  <2> DEFINE read == {s \in Messages : FirstRead(w)[s] # Unseen}
  <2>1. QueueTypeOK'
    <3>1. CASE me.kind = "triage"
      <4>1. EnsureAssessed(read)
        BY <1>3, <3>1 DEF Begin
      <4>2. UNCHANGED cutover
        BY <4>1 DEF EnsureAssessed
      <4>3. read \in SUBSET Messages /\ QueueTypeOK
        BY DEF TypeOK
      <4> HIDE DEF read
      <4> QED BY <4>1, <4>2, <4>3, BulkTypeOK
    <3>2. CASE me.kind # "triage"
      BY <1>3, <3>2 DEF Begin, TypeOK, queueVars, QueueTypeOK
    <3> QED BY <3>1, <3>2
  <2>2. FirstRead(w) \in [Messages -> Versions]
    BY FirstReadOK DEF TypeOK
  <2>3. [me EXCEPT !.phase = "running", !.seen = FirstRead(w)] \in WorkerStates
    BY <1>1, <2>2 DEF WorkerStates, Phases
  <2>4. worker' = [worker EXCEPT ![w] = [me EXCEPT !.phase = "running", !.seen = FirstRead(w)]]
    BY <1>3 DEF Begin, TypeOK
  <2>5. me.job \in JobIds
    BY <1>1, <1>3 DEF Begin
  <2> QED BY <1>1, <1>3, <2>1, <2>3, <2>4, <2>5 DEF Begin, history, TypeOK, WorkerStates
<1>4. ASSUME RefuseAccess(w) \/ Error(w) \/ CommitRejected(w) \/ Answer(w) PROVE TypeOK'
  <2>1. PICK phase \in {"rejected", "answered"} : worker' = [worker EXCEPT ![w].phase = phase]
    BY <1>4 DEF RefuseAccess, Error, CommitRejected, Answer
  <2>2. [me EXCEPT !.phase = phase] \in WorkerStates /\ me.job \in JobIds
    BY <1>1, <1>4 DEF WorkerStates, Phases, RefuseAccess, Error, CommitRejected, Answer
  <2>3. worker' = [worker EXCEPT ![w] = [me EXCEPT !.phase = phase]]
    BY <2>1 DEF TypeOK
  <2>4. pass' \in [Engines -> {"claiming", "running"}] /\ circuit' \in [Engines -> Circuits]
    BY <1>1, <1>4 DEF RefuseAccess, Error, CommitRejected, Answer, TypeOK, Circuits
  <2>5. UNCHANGED <<queueVars, trouble, manuals, history>>
    BY <1>4 DEF RefuseAccess, Error, CommitRejected, Answer
  <2> QED BY <2>2, <2>3, <2>4, <2>5 DEF queueVars, history, TypeOK, QueueTypeOK, WorkerStates
<1>5. ASSUME CoolDown(w) \/ BudgetRefused(w) \/ Outage(w) PROVE TypeOK'
  <2>1. me.job \in JobIds
    BY <1>1, <1>5 DEF CoolDown, BudgetRefused, Outage
  <2>2. QueueTypeOK'
    BY <1>1, <1>5, <2>1, WorkTypeOK DEF CoolDown, BudgetRefused, Outage, TypeOK
  <2>3. Leave(w) /\ UNCHANGED <<manuals, history>>
    BY <1>5 DEF CoolDown, BudgetRefused, Outage
  <2>4. \/ UNCHANGED circuit
        \/ circuit' = [circuit EXCEPT ![EngineOf[w]] = "open"]
    BY <1>5 DEF CoolDown, BudgetRefused, Outage
  <2>5. circuit' \in [Engines -> Circuits]
    BY <1>1, <2>4 DEF TypeOK, Circuits
  <2>6. UNCHANGED trouble \/ trouble' = trouble + 1
    BY <1>5 DEF CoolDown, BudgetRefused, Outage, Mischief
  <2>7. trouble' \in Nat
    BY <2>6 DEF TypeOK
  <2> QED BY <2>2, <2>3, <2>5, <2>7, LeaveOK DEF history, TypeOK
<1>6. ASSUME NEW s \in Messages, ReadEvidence(w, s) PROVE TypeOK'
  <2>1. QueueTypeOK'
    <3>1. EnsureAssessed({s}) /\ UNCHANGED cutover
      BY <1>6 DEF ReadEvidence, EnsureAssessed
    <3>2. {s} \in SUBSET Messages /\ QueueTypeOK
      BY DEF TypeOK
    <3> QED BY <3>1, <3>2, BulkTypeOK
  <2>2. Version(s) \in Versions
    BY VersionOK DEF TypeOK
  <2>3. [me.seen EXCEPT ![s] = Version(s)] \in [Messages -> Versions]
    BY <1>1, <2>2 DEF WorkerStates
  <2>4. [me EXCEPT !.seen = [me.seen EXCEPT ![s] = Version(s)]] \in WorkerStates
    BY <1>1, <2>3 DEF WorkerStates
  <2>5. worker' = [worker EXCEPT ![w] = [me EXCEPT !.seen = [me.seen EXCEPT ![s] = Version(s)]]]
    BY <1>6 DEF ReadEvidence, TypeOK, WorkerStates
  <2> QED BY <1>6, <2>1, <2>4, <2>5 DEF ReadEvidence, history, TypeOK, WorkerStates
<1>7. ASSUME NEW verdict \in Answers, NEW revisit \in BOOLEAN, Commit(w, verdict, revisit)
      PROVE  TypeOK'
  <2>1. me.job \in JobIds /\ verdict \in Verdicts
    BY <1>1, <1>7, InputAssumption DEF Commit
  <2>2. me.job.msg \in Messages
    BY <2>1 DEF JobIds
  <2> DEFINE read == {s \in Messages : me.seen[s] # Unseen}
  <2>3. QueueTypeOK'
    <3>1. QueueTypeOK
      BY DEF TypeOK
    <3>2. \/ CommitAccess(me.job, verdict)
          \/ CommitDecision(me.job, read, verdict, revisit)
      BY <1>7 DEF Commit
    <3>3. ASSUME CommitAccess(me.job, verdict) PROVE QueueTypeOK'
      BY <2>1, <3>1, <3>3, WorkTypeOK
    <3>4. ASSUME CommitDecision(me.job, read, verdict, revisit) PROVE QueueTypeOK'
      <4> HIDE DEF read
      <4> QED BY <2>1, <3>1, <3>4, CommitDecisionTypeOK
    <3> QED BY <3>2, <3>3, <3>4
  <2>4. \A s \in Messages : me.seen[s].rev \in 0..MaxRev
    BY <1>1 DEF WorkerStates, Versions
  <2> DEFINE revs == [s \in Messages |-> me.seen[s].rev]
  <2>5. /\ revs \in [Messages -> 0..MaxRev]
        /\ UNCHANGED basis \/ basis' = [basis EXCEPT ![me.job.msg] = revs]
        /\ judged' = [judged EXCEPT ![me.job.msg] = revs[me.job.msg]]
    BY <1>7, <2>2, <2>4 DEF Commit
  <2>6. Recount /\ Leave(w) /\ UNCHANGED <<circuit, trouble, manuals>>
    BY <1>7 DEF Commit
  <2> HIDE DEF revs
  <2>7. basis' \in [Messages -> [Messages -> 0..MaxRev]] /\ judged' \in [Messages -> 0..MaxRev]
    BY <2>2, <2>5 DEF TypeOK
  <2> QED BY <2>3, <2>6, <2>7, LeaveOK, RecountOK DEF TypeOK
<1>8. ASSUME RetryAgent(w) PROVE TypeOK'
  <2>1. me.job \in JobIds
    BY <1>1, <1>8 DEF RetryAgent
  <2>2. QueueTypeOK'
    BY <1>1, <1>8, <2>1, WorkTypeOK DEF RetryAgent, TypeOK
  <2>3. charged' \in [JobIds -> Nat]
    BY <1>8, <2>1 DEF RetryAgent, Charge, TypeOK
  <2>4. Leave(w) /\ UNCHANGED <<circuit, trouble, manuals, basis, judged>>
    BY <1>8 DEF RetryAgent
  <2> QED BY <2>2, <2>3, <2>4, LeaveOK DEF TypeOK
<1> QED BY <1>2, <1>3, <1>4, <1>5, <1>6, <1>7, <1>8 DEF WorkerStep

\* Every state of the queue and its engines is well formed.
THEOREM TypeCorrect == Spec => []TypeOK
<1>1. Init => TypeOK
  <2> SUFFICES ASSUME Init PROVE TypeOK
    OBVIOUS
  <2>1. NoJob \in Jobs /\ LeaseShape(NoJob)
    BY TokenAssumption DEF NoJob, Jobs, JobStates, Kinds, LeaseShape
  <2>2. job \in [JobIds -> Jobs] /\ \A j \in JobIds : LeaseShape(job[j])
    BY <2>1 DEF Init, QueueInit
  <2>3. sources \in [Messages -> [Messages -> 0..MaxRev]]
    BY RevAssumption DEF Init, QueueInit
  <2>4. QueueTypeOK
    BY <2>2, <2>3, RevAssumption, NoFollowupOK DEF Init, QueueInit, QueueTypeOK, Access
  <2> QED BY <2>4, RevAssumption, IdleOK DEF Init, TypeOK, Circuits
<1>2. TypeOK /\ [Next]_vars => TypeOK'
  <2> SUFFICES ASSUME TypeOK, [Next]_vars PROVE TypeOK'
    OBVIOUS
  <2>1. QueueTypeOK
    BY DEF TypeOK
  <2>2. ASSUME NEW m \in Messages, NEW trig \in Origins, Arrive(m, trig) PROVE TypeOK'
    <3>1. trig \in {"arrival", "backfill"} /\ Ingest(m, trig)
      BY <2>2, InputAssumption DEF Arrive
    <3>2. QueueTypeOK'
      BY <2>1, <3>1, DoorsTypeOK
    <3> QED BY <2>2, <3>2, RecountOK DEF Arrive, TypeOK, engineVars
  <2>3. ASSUME NEW m \in Messages, FetchAgain(m) PROVE TypeOK'
    BY <2>1, <2>3, DoorsTypeOK DEF FetchAgain, TypeOK, engineVars, history
  <2>4. ASSUME NEW m \in Messages, AskAgain(m) PROVE TypeOK'
    BY <2>1, <2>4, DoorsTypeOK, RecountOK DEF AskAgain, TypeOK
  <2>5. ASSUME NEW m \in Messages, NEW value \in Verdicts \cup {"none"}, CorrectByHand(m, value)
        PROVE  TypeOK'
    BY <2>1, <2>5, DoorsTypeOK, RecountOK DEF CorrectByHand, TypeOK, engineVars
  <2>6. ASSUME NEW S \in SUBSET Legacy, FirstPass(S) PROVE TypeOK'
    <3>1. S \in SUBSET Messages
      BY LegacyAssumption
    <3> QED BY <2>1, <2>6, <3>1, BulkTypeOK, RecountOK DEF FirstPass, TypeOK, engineVars
  <2>7. ASSUME NEW w \in Workers, WorkerStep(w) PROVE TypeOK'
    BY <2>7, WorkerTypeOK
  <2>8. ASSUME NEW e \in Engines, NEW restart \in BOOLEAN, LosePass(e, restart) PROVE TypeOK'
    BY <2>8, IdleOK
    DEF LosePass, Mischief, TypeOK, QueueTypeOK, queueVars, history, Circuits
  <2>9. ASSUME NEW e \in Engines, HalfOpen(e) PROVE TypeOK'
    BY <2>9 DEF HalfOpen, TypeOK, QueueTypeOK, queueVars, history, Circuits
  <2>10. ASSUME NEW j \in JobIds, TimePasses(j) PROVE TypeOK'
    <3>1. QueueTypeOK'
      BY <2>1, <2>10, WorkTypeOK DEF TimePasses
    <3> QED BY <2>10, <3>1 DEF TimePasses, TypeOK, engineVars, history
  <2>11. ASSUME NEW j \in JobIds, Expire(j) PROVE TypeOK'
    <3>1. QueueTypeOK'
      BY <2>1, <2>11, WorkTypeOK DEF Expire
    <3>2. \A w \in Workers : /\ [worker[w] EXCEPT !.late = TRUE] \in WorkerStates
                             /\ [worker[w] EXCEPT !.late = TRUE].job = worker[w].job
                             /\ [worker[w] EXCEPT !.late = TRUE].phase = worker[w].phase
      BY DEF TypeOK, WorkerStates
    <3>3. /\ worker' \in [Workers -> WorkerStates]
          /\ \A w \in Workers : worker'[w].phase # "idle" => worker'[w].job \in JobIds
      BY <2>11, <3>2 DEF Expire, TypeOK
    <3>4. trouble' \in Nat
      BY <2>11 DEF Expire, Mischief, TypeOK
    <3> QED BY <2>11, <3>1, <3>3, <3>4 DEF Expire, TypeOK, history
  <2>12. CASE UNCHANGED vars
    BY <2>12 DEF vars, queueVars, engineVars, history, TypeOK, QueueTypeOK
  <2> QED BY <2>2, <2>3, <2>4, <2>5, <2>6, <2>7, <2>8, <2>9, <2>10, <2>11, <2>12 DEF Next
<1> QED BY <1>1, <1>2, PTL DEF Spec

--------------------------------------------------------------------------------
(* What every step but a claim leaves alone *)

\* Of every action of the engine but a claim: no row becomes leased, and no
\* expired lease comes back to life.
Keeps(new, old) ==
    new.state = "leased" =>
        /\ old.state = "leased"
        /\ new.token = old.token
        /\ new.live => old.live

NoNewLease == \A k \in JobIds : Keeps(job'[k], job[k])

\* Nor does a follow-up lose the lease it waits for.
Harmless == NoNewLease /\ (FollowupBesideLease => FollowupBesideLease')

--------------------------------------------------------------------------------
(* Leases come from claims *)

\* A request never leases a row, and leaves a leased row alone.
LEMMA QueuedRowKeeps ==
    ASSUME NEW row, RowOK(row), NEW q \in Requests
    PROVE  /\ Keeps(QueuedRow(row, q), row)
           /\ row.state = "leased" => QueuedRow(row, q) = row
<1> DEFINE kind == MergedKind(row.kind, q.kind)
           fg   == q.requested /\ kind = "triage"
<1>1. CASE row.state = "none"
  BY <1>1 DEF Keeps, QueuedRow, NoJob
<1>2. CASE row.state # "none" /\ Restarts(row, q.trig)
  <2>1. QueuedRow(row, q) = Requeued(row, kind, fg)
    BY <1>2 DEF QueuedRow
  <2>2. Requeued(row, kind, fg).state = "queued"
    BY DEF RowOK, Jobs, Requeued
  <2> QED BY <1>2, <2>1, <2>2 DEF Keeps, Restarts
<1>3. CASE row.state # "none" /\ ~Restarts(row, q.trig) /\ row.state \in {"queued", "failed"}
  <2> DEFINE up   == Unparks(row, q.requested, kind)
             fore == row.foreground \/ q.foreground
             due  == row.due \/ up
             park == row.parked /\ ~up
  <2>1. QueuedRow(row, q) = [row EXCEPT !.kind = kind, !.foreground = fore,
                                        !.due = due, !.parked = park]
    BY <1>3 DEF QueuedRow
  <2> HIDE DEF kind, up, fore, due, park
  <2>2. QueuedRow(row, q).state = row.state
    BY <2>1 DEF RowOK, Jobs
  <2> QED BY <1>3, <2>2 DEF Keeps
<1>4. CASE row.state # "none" /\ ~Restarts(row, q.trig) /\ row.state \notin {"queued", "failed"}
  BY <1>4 DEF Keeps, QueuedRow
<1> QED BY <1>1, <1>2, <1>3, <1>4 DEF Restarts

\* The rows that leave a lease are not leased.
LEMMA EndedRowsKeep ==
    ASSUME NEW row, RowOK(row), NEW f \in Followups
    PROVE  /\ Completed(row).state = "completed"
           /\ Keeps(ClosedRow(row), row)
           /\ FinishedRow(row, f).state # "leased"
<1>1. Completed(row).state = "completed"
  BY DEF Completed, NoJob
<1>2. Keeps(ClosedRow(row), row)
  BY <1>1 DEF ClosedRow, Keeps
<1>3. FinishedRow(row, f).state # "leased"
  <2> DEFINE done == Completed(row)
             kind == MergedKind(row.kind, f.kind)
             fg   == f.foreground /\ kind = "triage"
  <2>1. done \in Jobs
    BY EndedRowsOK DEF RowOK
  <2>2. FinishedRow(row, f) = IF f.some THEN Requeued(done, kind, fg) ELSE done
    BY DEF FinishedRow
  <2> HIDE DEF kind, fg
  <2>3. Requeued(done, kind, fg).state = "queued"
    <3> HIDE DEF done
    <3> QED BY <2>1 DEF Requeued, Jobs
  <2> QED BY <1>1, <2>2, <2>3
<1> QED BY <1>1, <1>2, <1>3

\* Enqueueing leases nothing, and leaves a follow-up only beside a lease.
LEMMA ApplyKeeps ==
    ASSUME QueueTypeOK,
           NEW advance \in SUBSET Messages,
           NEW asked \in SUBSET Messages, NEW request \in [asked -> Requests],
           Apply(advance, asked, request)
    PROVE  Harmless
<1> DEFINE next == [m \in Messages |-> IF m \in advance THEN rev[m] + 1 ELSE rev[m]]
           over(j)   == \E m \in advance : Superseded(m, next[m], j)
           closed(j) == IF over(j) THEN ClosedRow(job[j]) ELSE job[j]
           kept(j)   == IF over(j) THEN NoFollowup ELSE followup[j]
           hit(j)    == j.msg \in asked /\ j = NowJob(j.msg, next[j.msg])
<1>1. /\ job' = [j \in JobIds |->
                   IF hit(j) THEN QueuedRow(closed(j), request[j.msg]) ELSE closed(j)]
      /\ followup' = [j \in JobIds |->
                        IF hit(j) THEN QueuedFollowup(closed(j), kept(j), request[j.msg])
                        ELSE kept(j)]
  BY DEF Apply
<1>2. \A j \in JobIds : RowOK(job[j]) /\ followup[j] \in Followups
  BY DEF QueueTypeOK, RowOK
<1>3. \A j \in JobIds : RowOK(closed(j)) /\ Keeps(closed(j), job[j])
  BY <1>2, EndedRowsOK, EndedRowsKeep, NoFollowupOK DEF Keeps
<1>4. \A j \in JobIds : hit(j) => request[j.msg] \in Requests
  OBVIOUS
<1>5. FollowupBesideLease =>
        \A j \in JobIds : kept(j).some => closed(j).state = "leased"
  BY DEF FollowupBesideLease, NoFollowup
<1> HIDE DEF closed, kept, hit, over, next
<1>6. \A j \in JobIds : hit(j) =>
         /\ Keeps(QueuedRow(closed(j), request[j.msg]), closed(j))
         /\ closed(j).state = "leased" => QueuedRow(closed(j), request[j.msg]) = closed(j)
  BY <1>3, <1>4, QueuedRowKeeps
<1>7. NoNewLease
  BY <1>1, <1>3, <1>6 DEF NoNewLease, Keeps
<1>8. ASSUME FollowupBesideLease PROVE FollowupBesideLease'
  <2> SUFFICES ASSUME NEW j \in JobIds, followup'[j].some PROVE job'[j].state = "leased"
    BY DEF FollowupBesideLease
  <2>1. CASE hit(j)
    <3>1. closed(j).state = "leased"
      BY <1>1, <1>5, <1>8, <2>1 DEF QueuedFollowup
    <3> QED BY <1>1, <1>6, <2>1, <3>1
  <2>2. CASE ~hit(j)
    BY <1>1, <1>5, <1>8, <2>2
  <2> QED BY <2>1, <2>2
<1> QED BY <1>7, <1>8 DEF Harmless

\* Every door of the store is an Apply, or touches one row's lane.
LEMMA DoorsKeep ==
    ASSUME QueueTypeOK, NEW m \in Messages
    PROVE  /\ \A trig \in Triggers, newContent \in BOOLEAN, requested \in BOOLEAN :
                Enqueue(m, newContent, trig, requested)
                  => Harmless
           /\ Refetch(m) => Harmless
<1>1. ASSUME NEW trig \in Triggers, NEW newContent \in BOOLEAN, NEW requested \in BOOLEAN,
             Enqueue(m, newContent, trig, requested)
      PROVE  Harmless
  <2> DEFINE r       == NextRev(m, newContent)
             asked   == Called(m, newContent, trig)
                          \cup (IF Changes(m, newContent) THEN Dependents(m) ELSE {})
             request == [n \in asked |-> IF n = m THEN Request(m, trig, r, requested)
                                         ELSE Request(n, "refresh", rev[n], FALSE)]
             advance == Advancing(m, newContent, trig)
  <2>1. asked \in SUBSET Messages /\ advance \in SUBSET Messages
    BY DEF Called, Dependents, ReplyTarget, Siblings, Advancing
  <2>2. request \in [asked -> Requests]
    BY RequestOK DEF Triggers
  <2>3. Apply(advance, asked, request)
    BY <1>1 DEF Enqueue
  <2> HIDE DEF asked, advance, request
  <2> QED BY <2>1, <2>2, <2>3, ApplyKeeps
<1>2. ASSUME Refetch(m) PROVE Harmless
  <2>1. \A k \in JobIds :
          /\ job'[k].state = job[k].state /\ job'[k].token = job[k].token
          /\ job'[k].live = job[k].live
    BY <1>2 DEF Refetch, QueueTypeOK, Jobs
  <2> QED BY <1>2, <2>1 DEF Refetch, NoNewLease, Keeps, FollowupBesideLease, Harmless
<1> QED BY <1>1, <1>2

\* Cutover and evidence reads are Applies too.
LEMMA BulkKeep ==
    ASSUME QueueTypeOK, NEW S \in SUBSET Messages, Cutover(S) \/ EnsureAssessed(S)
    PROVE  Harmless
<1>1. CASE Cutover(S)
  <2> DEFINE asked   == Migrated(S)
             first   == {n \in asked : rev[n] = 0}
             request == [n \in asked |-> Request(n, "refresh", 1, FALSE)]
  <2>1. request \in [asked -> Requests]
    BY RequestOK DEF Triggers
  <2>2. asked \in SUBSET Messages /\ first \in SUBSET Messages
    BY DEF Migrated, ReplyTarget, Siblings
  <2>3. Apply(first, asked, request)
    BY <1>1 DEF Cutover
  <2> HIDE DEF request, asked, first
  <2> QED BY <2>1, <2>2, <2>3, ApplyKeeps
<1>2. CASE EnsureAssessed(S)
  <2> DEFINE new     == Unassessed(S)
             advance == {n \in new : rev[n] = 0}
             request == [n \in new |-> Request(n, "source_access", 1, FALSE)]
  <2>1. new \in SUBSET Messages /\ advance \in SUBSET Messages
    BY DEF Unassessed
  <2>2. request \in [new -> Requests]
    BY RequestOK DEF Triggers
  <2>3. Apply(advance, new, request)
    BY <1>2 DEF EnsureAssessed
  <2> HIDE DEF new, advance, request
  <2> QED BY <2>1, <2>2, <2>3, ApplyKeeps
<1> QED BY <1>1, <1>2

\* A job that goes back to the queue takes its follow-up along.
LEMMA RequeueKeeps ==
    ASSUME QueueTypeOK, NEW j \in JobIds, NEW row, RowOK(row), row.state = "queued",
           Requeue(j, row)
    PROVE  Harmless
<1>1. followup[j] \in Followups
  BY DEF QueueTypeOK
<1>2. Absorbed(row, followup[j]).state = "queued"
  BY <1>1, AbsorbedOK
<1>3. NoNewLease
  BY <1>2 DEF Requeue, QueueTypeOK, NoNewLease, Keeps
<1>4. \A k \in JobIds : k # j => job'[k] = job[k] /\ followup'[k] = followup[k]
  BY DEF Requeue, QueueTypeOK
<1>5. followup'[j] = NoFollowup
  BY DEF Requeue, QueueTypeOK
<1> QED BY <1>3, <1>4, <1>5 DEF FollowupBesideLease, NoFollowup, Harmless

\* The transactions that end or requeue a leased job.
LEMMA EndingsKeep ==
    ASSUME QueueTypeOK, NEW j \in JobIds, NEW token
    PROVE  /\ Retry(j, token) => Harmless
           /\ \A parked \in BOOLEAN : Defer(j, token, parked) => Harmless
           /\ Fail(j, token) => Harmless
           /\ \A verdict \in Verdicts : CommitAccess(j, verdict) => Harmless
           /\ \A evidence : \A verdict \in Verdicts, revisit \in BOOLEAN :
                CommitDecision(j, evidence, verdict, revisit) => Harmless
           /\ BecomeDue(j) \/ LeaseExpires(j) => Harmless
<1>1. RowOK(job[j]) /\ followup[j] \in Followups
  BY DEF QueueTypeOK, RowOK
<1>2. ASSUME UNCHANGED <<job, followup>> PROVE Harmless
  BY <1>2 DEF NoNewLease, Keeps, FollowupBesideLease, Harmless
<1>3. ASSUME Retry(j, token) PROVE Harmless
  <2>1. CASE OwnsLease(j, token)
    BY <1>1, <1>3, <2>1, ReleasedOK, RequeueKeeps DEF Retry
  <2>2. CASE ~OwnsLease(j, token)
    BY <1>2, <1>3, <2>2 DEF Retry
  <2> QED BY <2>1, <2>2
<1>4. ASSUME NEW parked \in BOOLEAN, Defer(j, token, parked) PROVE Harmless
  <2>1. CASE OwnsLease(j, token)
    BY <1>1, <1>4, <2>1, ReleasedOK, RequeueKeeps DEF Defer
  <2>2. CASE ~OwnsLease(j, token)
    BY <1>2, <1>4, <2>2 DEF Defer
  <2> QED BY <2>1, <2>2
<1>5. ASSUME Fail(j, token) PROVE Harmless
  <2>1. CASE OwnsLease(j, token)
    <3>1. FailedRow(job[j]).state = "failed"
      BY DEF FailedRow, QueueTypeOK, Jobs
    <3>2. /\ job' = [job EXCEPT ![j] = FailedRow(job[j])]
          /\ followup' = [followup EXCEPT ![j] = NoFollowup]
      BY <1>5, <2>1 DEF Fail
    <3>3. NoNewLease
      BY <3>1, <3>2 DEF QueueTypeOK, NoNewLease, Keeps
    <3>4. FollowupBesideLease => FollowupBesideLease'
      BY <3>2 DEF QueueTypeOK, FollowupBesideLease, NoFollowup
    <3> QED BY <3>3, <3>4 DEF Harmless
  <2>2. CASE ~OwnsLease(j, token)
    BY <1>2, <1>5, <2>2 DEF Fail
  <2> QED BY <2>1, <2>2
<1>6. ASSUME NEW verdict \in Verdicts, CommitAccess(j, verdict) PROVE Harmless
  <2>1. FinishedRow(job[j], followup[j]).state # "leased"
    BY <1>1, EndedRowsKeep
  <2> QED BY <1>6, <2>1
      DEF CommitAccess, QueueTypeOK, NoNewLease, Keeps, FollowupBesideLease, NoFollowup, Harmless
<1>7. ASSUME NEW evidence, NEW verdict \in Verdicts, NEW revisit \in BOOLEAN,
             CommitDecision(j, evidence, verdict, revisit)
      PROVE  Harmless
  <2> DEFINE wanted == revisit /\ MayRevisit(j.msg)
             timer  == [msg |-> j.msg, rev |-> rev[j.msg], slot |-> "revisit"]
  <2>1. FinishedRow(job[j], followup[j]).state # "leased"
    BY <1>1, EndedRowsKeep
  <2>2. \A k \in JobIds :
          \/ RevisitRow(job[k], wanted) = job[k]
          \/ job[k].state = "none" /\ RevisitRow(job[k], wanted).state = "queued"
    BY DEF RevisitRow, NoJob
  <2>3. /\ job' = [k \in JobIds |->
                     IF k = j THEN FinishedRow(job[j], followup[j])
                     ELSE IF k = timer THEN RevisitRow(job[k], wanted)
                     ELSE job[k]]
        /\ followup' = [followup EXCEPT ![j] = NoFollowup]
    BY <1>7 DEF CommitDecision
  <2> HIDE DEF wanted, timer
  <2>4. job'[j].state # "leased" /\ followup'[j] = NoFollowup
    BY <2>1, <2>3 DEF QueueTypeOK
  <2>5. \A k \in JobIds \ {j} :
          /\ followup'[k] = followup[k]
          /\ job'[k] = job[k] \/ (job[k].state = "none" /\ job'[k].state = "queued")
    BY <2>2, <2>3 DEF QueueTypeOK
  <2>6. NoNewLease
    BY <2>4, <2>5 DEF NoNewLease, Keeps
  <2>7. FollowupBesideLease => FollowupBesideLease'
    BY <2>4, <2>5 DEF FollowupBesideLease, NoFollowup
  <2> QED BY <2>6, <2>7 DEF Harmless
<1>8. ASSUME BecomeDue(j) \/ LeaseExpires(j) PROVE Harmless
  <2>1. \A k \in JobIds :
          /\ job'[k].state = job[k].state /\ job'[k].token = job[k].token
          /\ job'[k].live => job[k].live
    <3>1. CASE BecomeDue(j)
      BY <3>1 DEF BecomeDue, QueueTypeOK, Jobs
    <3>2. CASE LeaseExpires(j)
      <4>1. job[j].live
        BY <3>2 DEF LeaseExpires, LiveLease
      <4>2. job'[j] = [job[j] EXCEPT !.live = FALSE]
        BY <3>2 DEF LeaseExpires, QueueTypeOK
      <4>3. \A k \in JobIds : k # j => job'[k] = job[k]
        BY <3>2 DEF LeaseExpires, QueueTypeOK
      <4> QED BY <4>1, <4>2, <4>3 DEF QueueTypeOK, Jobs
    <3> QED BY <1>8, <3>1, <3>2
  <2>2. UNCHANGED followup
    BY <1>8 DEF BecomeDue, LeaseExpires
  <2>3. NoNewLease
    BY <2>1 DEF NoNewLease, Keeps
  <2> QED BY <2>1, <2>2, <2>3 DEF FollowupBesideLease, Harmless
<1> QED BY <1>3, <1>4, <1>5, <1>6, <1>7, <1>8
--------------------------------------------------------------------------------
(* Every step of the engine *)

\* A step is a claim, or creates no lease and orphans no follow-up.
LEMMA StepKeeps ==
    ASSUME TypeOK, [Next]_vars
    PROVE  \/ \E j \in JobIds, t \in Tokens : Claim(j, t)
           \/ Harmless
<1>1. QueueTypeOK
  BY DEF TypeOK
<1>2. ASSUME UNCHANGED queueVars PROVE Harmless
  BY <1>2 DEF queueVars, NoNewLease, Keeps, FollowupBesideLease, Harmless
<1>3. ASSUME NEW m \in Messages, NEW trig \in Origins, Arrive(m, trig) PROVE Harmless
  <2>1. trig \in Triggers /\ Enqueue(m, TRUE, trig, FALSE)
    BY <1>3, InputAssumption DEF Arrive, Ingest, Triggers
  <2> QED BY <1>1, <2>1, DoorsKeep
<1>4. ASSUME NEW m \in Messages, FetchAgain(m) PROVE Harmless
  BY <1>1, <1>4, DoorsKeep DEF FetchAgain
<1>5. ASSUME NEW m \in Messages, AskAgain(m) PROVE Harmless
  <2>1. "manual" \in Triggers /\ Enqueue(m, FALSE, "manual", TRUE)
    BY <1>5 DEF AskAgain, Retriage, Triggers
  <2> QED BY <1>1, <2>1, DoorsKeep
<1>6. ASSUME NEW m \in Messages, NEW value \in Verdicts \cup {"none"}, CorrectByHand(m, value)
      PROVE  Harmless
  <2>1. "refresh" \in Triggers /\ Enqueue(m, FALSE, "refresh", FALSE)
    BY <1>6 DEF CorrectByHand, Correct, Triggers
  <2> QED BY <1>1, <2>1, DoorsKeep
<1>7. ASSUME NEW S \in SUBSET Legacy, FirstPass(S) PROVE Harmless
  <2>1. S \in SUBSET Messages
    BY LegacyAssumption
  <2>2. Cutover(S)
    BY <1>7 DEF FirstPass
  <2> QED BY <1>1, <2>1, <2>2, BulkKeep
<1>8. ASSUME NEW w \in Workers, WorkerStep(w)
      PROVE  Harmless \/ \E j \in JobIds, t \in Tokens : Claim(j, t)
  <2> DEFINE j == worker[w].job
  <2>1. worker[w].phase # "idle" => j \in JobIds
    BY DEF TypeOK
  <2>2. ASSUME NEW k \in JobIds, ClaimJob(w, k) PROVE \E t \in Tokens : Claim(k, t)
    BY <2>2 DEF ClaimJob
  <2>3. ASSUME Begin(w) PROVE Harmless
    <3> DEFINE read == {s \in Messages : FirstRead(w)[s] # Unseen}
    <3>1. EnsureAssessed(read) \/ UNCHANGED queueVars
      BY <2>3 DEF Begin
    <3>2. read \in SUBSET Messages
      OBVIOUS
    <3> HIDE DEF read
    <3> QED BY <1>1, <1>2, <3>1, <3>2, BulkKeep
  <2>4. ASSUME NEW s \in Messages, ReadEvidence(w, s) PROVE Harmless
    <3>1. EnsureAssessed({s}) /\ {s} \in SUBSET Messages
      BY <2>4 DEF ReadEvidence
    <3> QED BY <1>1, <3>1, BulkKeep
  <2>5. ASSUME RefuseAccess(w) \/ Error(w) \/ CommitRejected(w) \/ Answer(w) PROVE Harmless
    <3>1. UNCHANGED queueVars
      BY <2>5 DEF RefuseAccess, Error, CommitRejected, Answer
    <3> QED BY <1>2, <3>1
  <2>6. ASSUME CoolDown(w) \/ BudgetRefused(w) \/ Outage(w) PROVE Harmless
    <3>1. worker[w].phase # "idle" /\ \E parked \in BOOLEAN : Defer(j, worker[w].token, parked)
      BY <2>6 DEF CoolDown, BudgetRefused, Outage
    <3> QED BY <1>1, <2>1, <3>1, EndingsKeep
  <2>7. ASSUME NEW verdict \in Answers, NEW revisit \in BOOLEAN, Commit(w, verdict, revisit)
        PROVE  Harmless
    <3> DEFINE read == {s \in Messages : worker[w].seen[s] # Unseen}
    <3>1. worker[w].phase # "idle" /\ verdict \in Verdicts
      BY <2>7, InputAssumption DEF Commit
    <3>2. CommitAccess(j, verdict) \/ CommitDecision(j, read, verdict, revisit)
      BY <2>7 DEF Commit
    <3> HIDE DEF read
    <3>3. CASE CommitAccess(j, verdict)
      BY <1>1, <2>1, <3>1, <3>3, EndingsKeep
    <3>4. CASE CommitDecision(j, read, verdict, revisit)
      <4>1. \E evidence : \E v \in Verdicts, r \in BOOLEAN : CommitDecision(j, evidence, v, r)
        BY <3>1, <3>4
      <4> QED BY <1>1, <2>1, <3>1, <4>1, EndingsKeep
    <3> QED BY <3>2, <3>3, <3>4
  <2>8. ASSUME RetryAgent(w) PROVE Harmless
    <3>1. worker[w].phase # "idle" /\ (Retry(j, worker[w].token) \/ Fail(j, worker[w].token))
      BY <2>8 DEF RetryAgent
    <3> QED BY <1>1, <2>1, <3>1, EndingsKeep
  <2> QED BY <1>8, <2>2, <2>3, <2>4, <2>5, <2>6, <2>7, <2>8 DEF WorkerStep
<1>9. ASSUME NEW e \in Engines, NEW restart \in BOOLEAN, LosePass(e, restart) PROVE Harmless
  BY <1>2, <1>9 DEF LosePass
<1>10. ASSUME NEW e \in Engines, HalfOpen(e) PROVE Harmless
  BY <1>2, <1>10 DEF HalfOpen
<1>11. ASSUME NEW j \in JobIds, TimePasses(j) \/ Expire(j) PROVE Harmless
  <2>1. BecomeDue(j) \/ LeaseExpires(j)
    BY <1>11 DEF TimePasses, Expire
  <2> QED BY <1>1, <2>1, EndingsKeep
<1>12. CASE UNCHANGED vars
  BY <1>2, <1>12 DEF vars
<1> QED
  BY <1>3, <1>4, <1>5, <1>6, <1>7, <1>8, <1>9, <1>10, <1>11, <1>12 DEF Next

\* A claim takes a row of a thread none of whose rows holds an unexpired lease.
LEMMA ClaimKeeps ==
    ASSUME QueueTypeOK, NEW j \in JobIds, NEW t \in Tokens, Claim(j, t)
    PROVE  /\ ~ThreadBusy(j)
           /\ job'[j].state = "leased" /\ UNCHANGED followup
           /\ \A k \in JobIds : k # j => job'[k] = job[k]
BY DEF Claim, Claimable, LeasedRow, QueueTypeOK, Jobs

\* Investigations of one thread are serialized, however many workers and
\* engines claim.
THEOREM ThreadsSerialized == Spec => []ThreadExclusive
<1>1. Init => ThreadExclusive
  BY DEF Init, QueueInit, NoJob, ThreadExclusive, LiveLease
<1>2. TypeOK /\ ThreadExclusive /\ [Next]_vars => ThreadExclusive'
  <2> SUFFICES ASSUME TypeOK, ThreadExclusive, [Next]_vars PROVE ThreadExclusive'
    OBVIOUS
  <2>1. ASSUME NoNewLease PROVE ThreadExclusive'
    <3>1. \A k \in JobIds : LiveLease(k)' => LiveLease(k)
      BY <2>1 DEF NoNewLease, Keeps, LiveLease
    <3> QED BY <3>1 DEF ThreadExclusive
  <2>2. ASSUME NEW j \in JobIds, NEW t \in Tokens, Claim(j, t) PROVE ThreadExclusive'
    <3>1. /\ ~ThreadBusy(j)
          /\ \A k \in JobIds : k # j => job'[k] = job[k]
      BY <2>2, ClaimKeeps DEF TypeOK
    <3>2. \A k \in JobIds : k # j => (LiveLease(k)' <=> LiveLease(k))
      BY <3>1 DEF LiveLease
    <3> QED BY <3>1, <3>2 DEF ThreadExclusive, ThreadBusy
  <2> QED BY <2>1, <2>2, StepKeeps DEF Harmless
<1> QED BY <1>1, <1>2, TypeCorrect, PTL DEF Spec

\* A waiting request always sits beside the lease whose end will deal with it:
\* superseding, retrying, deferring, failing and committing all clear it.
THEOREM FollowupsAttended == Spec => []FollowupBesideLease
<1>1. Init => FollowupBesideLease
  BY DEF Init, QueueInit, NoFollowup, FollowupBesideLease
<1>2. TypeOK /\ FollowupBesideLease /\ [Next]_vars => FollowupBesideLease'
  <2> SUFFICES ASSUME TypeOK, FollowupBesideLease, [Next]_vars PROVE FollowupBesideLease'
    OBVIOUS
  <2>1. ASSUME NEW j \in JobIds, NEW t \in Tokens, Claim(j, t) PROVE FollowupBesideLease'
    BY <2>1, ClaimKeeps DEF TypeOK, FollowupBesideLease
  <2> QED BY <2>1, StepKeeps DEF Harmless
<1> QED BY <1>1, <1>2, TypeCorrect, PTL DEF Spec
--------------------------------------------------------------------------------
(* A human's choice of access *)

\* What a call writes of access agrees with the human's choices.
LEMMA AccessAfterAgrees ==
    ASSUME HumanChoiceWins, NEW m \in Messages, NEW changed
    PROVE  human[m] # "none" => AccessAfter(m, changed) = human[m]
BY DEF AccessAfter, HumanChoiceWins

\* So does every row of an enqueue.
LEMMA EnqueueAgrees ==
    ASSUME HumanChoiceWins, NEW m \in Messages, NEW newContent, NEW trig,
           NEW n \in Messages, human[n] # "none"
    PROVE  AccessAfterEnqueue(m, newContent, trig)[n] = human[n]
BY AccessAfterAgrees DEF AccessAfterEnqueue, HumanChoiceWins

\* Mail, requests and corrections.
LEMMA DoorsAgree ==
    ASSUME HumanChoiceWins, QueueTypeOK, NEW m \in Messages
    PROVE  /\ \A trig : Ingest(m, trig) => HumanChoiceWins'
           /\ Refetch(m) => HumanChoiceWins'
           /\ Retriage(m) => HumanChoiceWins'
           /\ \A value \in Verdicts \cup {"none"} : Correct(m, value) => HumanChoiceWins'
<1>1. ASSUME NEW trig, Ingest(m, trig) PROVE HumanChoiceWins'
  <2>1. access' = AccessAfterEnqueue(m, TRUE, trig) /\ human' = human
    BY <1>1 DEF Ingest
  <2> QED BY <2>1, EnqueueAgrees DEF HumanChoiceWins
<1>2. ASSUME Refetch(m) PROVE HumanChoiceWins'
  BY <1>2 DEF Refetch, HumanChoiceWins
<1>3. ASSUME Retriage(m) PROVE HumanChoiceWins'
  <2>1. access' = AccessAfterEnqueue(m, FALSE, "manual") /\ human' = human
    BY <1>3 DEF Retriage
  <2> QED BY <2>1, EnqueueAgrees DEF HumanChoiceWins
<1>4. ASSUME NEW value \in Verdicts \cup {"none"}, Correct(m, value) PROVE HumanChoiceWins'
  <2> DEFINE after == AccessAfterEnqueue(m, FALSE, "refresh")
  <2>1. \A n \in Messages : human[n] # "none" => after[n] = human[n]
    BY EnqueueAgrees
  <2>2. DOMAIN after = Messages /\ DOMAIN human = Messages
    BY DEF AccessAfterEnqueue, QueueTypeOK
  <2>3. CASE value = "none"
    <3>1. human' = human /\ access' = after
      BY <1>4, <2>3 DEF Correct
    <3> QED BY <2>1, <3>1 DEF HumanChoiceWins
  <2>4. CASE value # "none"
    <3>1. human' = [human EXCEPT ![m] = value] /\ access' = [after EXCEPT ![m] = value]
      BY <1>4, <2>4 DEF Correct
    <3> HIDE DEF after
    <3>2. /\ human'[m] = value /\ access'[m] = value
          /\ \A n \in Messages \ {m} : human'[n] = human[n] /\ access'[n] = after[n]
      BY <2>2, <3>1
    <3> QED BY <2>1, <3>2 DEF HumanChoiceWins
  <2> QED BY <2>3, <2>4
<1> QED BY <1>1, <1>2, <1>3, <1>4

\* A human's external_access choice survives new content, cutover, and every
\* verdict, including one that was being prepared when the human chose.
THEOREM HumansOutrank == Spec => []HumanChoiceWins
<1>1. Init => HumanChoiceWins
  BY DEF Init, QueueInit, HumanChoiceWins
<1>2. TypeOK /\ HumanChoiceWins /\ [Next]_vars => HumanChoiceWins'
  <2> SUFFICES ASSUME TypeOK, HumanChoiceWins, [Next]_vars PROVE HumanChoiceWins'
    OBVIOUS
  <2>1. QueueTypeOK
    BY DEF TypeOK
  <2>2. ASSUME UNCHANGED <<access, human>> PROVE HumanChoiceWins'
    BY <2>2 DEF HumanChoiceWins
  <2>3. ASSUME NEW S \in SUBSET Messages, Cutover(S) \/ EnsureAssessed(S)
        PROVE  HumanChoiceWins'
    <3>1. \E T \in SUBSET Messages :
             /\ human' = human
             /\ \E changed \in [T -> BOOLEAN] :
                  access' = [n \in Messages |->
                               IF n \in T THEN AccessAfter(n, changed[n]) ELSE access[n]]
      <4>1. CASE Cutover(S)
        <5> DEFINE T == Migrated(S)
                   changed == [n \in T |-> rev[n] = 0]
        <5>1. T \in SUBSET Messages
          BY DEF Migrated, ReplyTarget, Siblings
        <5>2. access' = [n \in Messages |->
                           IF n \in T THEN AccessAfter(n, changed[n]) ELSE access[n]]
          BY <4>1 DEF Cutover
        <5>3. changed \in [T -> BOOLEAN]
          OBVIOUS
        <5> HIDE DEF T, changed
        <5> QED BY <4>1, <5>1, <5>2, <5>3 DEF Cutover
      <4>2. CASE EnsureAssessed(S)
        <5> DEFINE T == Unassessed(S)
                   changed == [n \in T |-> rev[n] = 0]
        <5>1. T \in SUBSET Messages
          BY DEF Unassessed
        <5>2. access' = [n \in Messages |->
                           IF n \in T THEN AccessAfter(n, changed[n]) ELSE access[n]]
          BY <4>2 DEF EnsureAssessed
        <5>3. changed \in [T -> BOOLEAN]
          OBVIOUS
        <5> HIDE DEF T, changed
        <5> QED BY <4>2, <5>1, <5>2, <5>3 DEF EnsureAssessed
      <4> QED BY <2>3, <4>1, <4>2
    <3> QED BY <3>1, AccessAfterAgrees DEF HumanChoiceWins
  <2>4. ASSUME NEW m \in Messages, NEW verdict \in Verdicts,
               access' = [access EXCEPT ![m] = Verdict(m, verdict)], human' = human
        PROVE  HumanChoiceWins'
    BY <2>1, <2>4 DEF Verdict, HumanChoiceWins, QueueTypeOK
  <2>5. ASSUME NEW m \in Messages, NEW trig \in Origins, Arrive(m, trig) PROVE HumanChoiceWins'
    BY <2>1, <2>5, DoorsAgree DEF Arrive
  <2>6. ASSUME NEW m \in Messages, FetchAgain(m) \/ AskAgain(m) PROVE HumanChoiceWins'
    BY <2>1, <2>6, DoorsAgree DEF FetchAgain, AskAgain
  <2>7. ASSUME NEW m \in Messages, NEW value \in Verdicts \cup {"none"}, CorrectByHand(m, value)
        PROVE  HumanChoiceWins'
    BY <2>1, <2>7, DoorsAgree DEF CorrectByHand
  <2>8. ASSUME NEW S \in SUBSET Legacy, FirstPass(S) PROVE HumanChoiceWins'
    <3>1. S \in SUBSET Messages /\ Cutover(S)
      BY <2>8, LegacyAssumption DEF FirstPass
    <3> QED BY <2>3, <3>1
  <2>9. ASSUME NEW w \in Workers, WorkerStep(w) PROVE HumanChoiceWins'
    <3>1. ASSUME NEW j \in JobIds, ClaimJob(w, j) PROVE HumanChoiceWins'
      BY <2>2, <3>1 DEF ClaimJob, Claim
    <3>2. ASSUME Begin(w) PROVE HumanChoiceWins'
      <4> DEFINE read == {s \in Messages : FirstRead(w)[s] # Unseen}
      <4>1. EnsureAssessed(read) \/ UNCHANGED queueVars
        BY <3>2 DEF Begin
      <4>2. read \in SUBSET Messages
        OBVIOUS
      <4> HIDE DEF read
      <4> QED BY <2>2, <2>3, <4>1, <4>2 DEF queueVars
    <3>3. ASSUME NEW s \in Messages, ReadEvidence(w, s) PROVE HumanChoiceWins'
      <4>1. EnsureAssessed({s}) /\ {s} \in SUBSET Messages
        BY <3>3 DEF ReadEvidence
      <4> QED BY <2>3, <4>1
    <3>4. ASSUME RefuseAccess(w) \/ Error(w) \/ CommitRejected(w) \/ Answer(w)
          PROVE  HumanChoiceWins'
      <4>1. UNCHANGED queueVars
        BY <3>4 DEF RefuseAccess, Error, CommitRejected, Answer
      <4> QED BY <2>2, <4>1 DEF queueVars
    <3>5. ASSUME CoolDown(w) \/ BudgetRefused(w) \/ Outage(w) PROVE HumanChoiceWins'
      <4>1. UNCHANGED <<access, human>>
        BY <3>5 DEF CoolDown, BudgetRefused, Outage, Defer
      <4> QED BY <2>2, <4>1
    <3>6. ASSUME NEW verdict \in Answers, NEW revisit \in BOOLEAN, Commit(w, verdict, revisit)
          PROVE  HumanChoiceWins'
      <4> DEFINE m == worker[w].job.msg
      <4>1. worker[w].phase # "idle" /\ verdict \in Verdicts
        BY <3>6, InputAssumption DEF Commit
      <4>2. m \in Messages
        BY <4>1 DEF TypeOK, JobIds
      <4>3. access' = [access EXCEPT ![m] = Verdict(m, verdict)] /\ human' = human
        BY <3>6 DEF Commit, CommitAccess, CommitDecision
      <4> QED BY <2>4, <4>1, <4>2, <4>3
    <3>7. ASSUME RetryAgent(w) PROVE HumanChoiceWins'
      <4>1. UNCHANGED <<access, human>>
        BY <3>7 DEF RetryAgent, Retry, Fail
      <4> QED BY <2>2, <4>1
    <3> QED BY <2>9, <3>1, <3>2, <3>3, <3>4, <3>5, <3>6, <3>7 DEF WorkerStep
  <2>10. ASSUME NEW e \in Engines, NEW restart \in BOOLEAN, LosePass(e, restart)
         PROVE  HumanChoiceWins'
    BY <2>2, <2>10 DEF LosePass, queueVars
  <2>11. ASSUME NEW e \in Engines, HalfOpen(e) PROVE HumanChoiceWins'
    BY <2>2, <2>11 DEF HalfOpen, queueVars
  <2>12. ASSUME NEW j \in JobIds, TimePasses(j) \/ Expire(j) PROVE HumanChoiceWins'
    BY <2>2, <2>12 DEF TimePasses, Expire, BecomeDue, LeaseExpires
  <2>13. CASE UNCHANGED vars
    BY <2>2, <2>13 DEF vars, queueVars
  <2> QED
    BY <2>5, <2>6, <2>7, <2>8, <2>9, <2>10, <2>11, <2>12, <2>13 DEF Next
<1> QED BY <1>1, <1>2, TypeCorrect, PTL DEF Spec
================================================================================
