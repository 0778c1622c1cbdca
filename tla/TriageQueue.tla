------------------------------ MODULE TriageQueue ------------------------------
(***************************************************************************)
(* The durable investigation queue of squelch-core: the rows of            *)
(* agent_triage_jobs, agent_job_lanes, agent_triage_followups,             *)
(* agent_message_state and agent_decision_sources, and the transactions    *)
(* of store/sqlite/agent_triage.rs that change them.  Each transaction     *)
(* runs under the store's one connection lock, so each is one step here.   *)
(*                                                                         *)
(* What is abstracted.  Clock comparisons become flags: "due" stands for   *)
(* available_at <= now and "live" for lease_until > now, and the flags     *)
(* move at any time.  The claim order (lane, availability, id) is left     *)
(* open, so every property holds for any order.  Notification rows share   *)
(* the table but no investigation statement touches them; NotifyLedger     *)
(* models them.  Thread attention and the FYE preference are not here.     *)
(* A trigger is one of five families; two requests of the families         *)
(* "manual" and "refresh" never carry the same trigger text, because the   *)
(* text holds the time or the revision that caused the request.            *)
(***************************************************************************)
EXTENDS Naturals, FiniteSets

CONSTANTS
    Messages,     \* message ids, ordered by arrival
    ThreadOf,     \* the thread of every message
    Sent,         \* sent copies: reviewed for external access only
    Legacy,       \* mail stored before the agent tables existed
    MaxRev,       \* bound: content revisions of one message
    MaxAttempts,  \* [triage.agent] max_attempts
    MaxRevisits,  \* [revisit] max_per_message_lifetime
    Tokens,       \* lease tokens (random 128-bit strings in the code)
    NoToken       \* lease_token IS NULL

ASSUME MessagesAssumption == Messages \subseteq Nat
ASSUME SentAssumption     == Sent \subseteq Messages
ASSUME LegacyAssumption   == Legacy \subseteq Messages
ASSUME RevAssumption      == MaxRev \in Nat \ {0}
ASSUME AttemptAssumption  == MaxAttempts \in Nat \ {0}
ASSUME RevisitAssumption  == MaxRevisits \in Nat
ASSUME TokenAssumption    == Tokens \subseteq Nat /\ NoToken \notin Tokens

VARIABLES
    rev,        \* agent_message_state.revision; 0: no state row
    access,     \* agent_message_state.access
    human,      \* the external_access correction, "none" when there is none
    corr,       \* how many corrections the message has had
    sources,    \* agent_decision_sources: revision of each source, 0: none
    job,        \* the investigation rows, with their lane
    followup,   \* agent_triage_followups
    cutover     \* agent_triage_cutover holds the account

queueVars == <<rev, access, human, corr, sources, job, followup, cutover>>

--------------------------------------------------------------------------------
(* Types *)

Revs      == 1..MaxRev
Kinds     == {"triage", "access"}
Triggers  == {"arrival", "backfill", "source_access", "refresh", "manual"}
Access    == {"pending", "allowed", "restricted"}
Verdicts  == {"allowed", "restricted"}
JobStates == {"none", "queued", "leased", "completed", "failed"}
Active    == {"queued", "leased"}

\* One row per message and revision for immediate work, and one for the
\* revisit timer that a decision about that revision may leave behind.
JobIds == [msg : Messages, rev : Revs, slot : {"now", "revisit"}]

Jobs == [state : JobStates, kind : Kinds, foreground : BOOLEAN,
         due : BOOLEAN,       \* available_at has passed
         parked : BOOLEAN,    \* last_error = 'daily_budget_exhausted'
         token : Tokens \cup {NoToken},
         live : BOOLEAN,      \* lease_until has not passed
         attempts : Nat]

NoJob == [state |-> "none", kind |-> "triage", foreground |-> FALSE,
          due |-> FALSE, parked |-> FALSE, token |-> NoToken,
          live |-> FALSE, attempts |-> 0]

Requests == [kind : Kinds, trig : Triggers, foreground : BOOLEAN, requested : BOOLEAN]

Followups  == [kind : Kinds, foreground : BOOLEAN, some : BOOLEAN]
NoFollowup == [kind |-> "access", foreground |-> FALSE, some |-> FALSE]
SomeFollowup(kind, fg) == [kind |-> kind, foreground |-> fg, some |-> TRUE]

\* A row has a token exactly while it is leased.
LeaseShape(row) == /\ row.state = "leased" <=> row.token # NoToken
                   /\ row.live => row.state = "leased"

QueueTypeOK ==
    /\ rev \in [Messages -> 0..MaxRev]
    /\ access \in [Messages -> Access]
    /\ human \in [Messages -> Verdicts \cup {"none"}]
    /\ corr \in [Messages -> Nat]
    /\ sources \in [Messages -> [Messages -> 0..MaxRev]]
    /\ job \in [JobIds -> Jobs]
    /\ \A j \in JobIds : LeaseShape(job[j])
    /\ followup \in [JobIds -> Followups]
    /\ cutover \in BOOLEAN

QueueInit ==
    /\ rev = [m \in Messages |-> 0]
    /\ access = [m \in Messages |-> "pending"]
    /\ human = [m \in Messages |-> "none"]
    /\ corr = [m \in Messages |-> 0]
    /\ sources = [m \in Messages |-> [s \in Messages |-> 0]]
    /\ job = [j \in JobIds |-> NoJob]
    /\ followup = [j \in JobIds |-> NoFollowup]
    /\ cutover = FALSE

--------------------------------------------------------------------------------
(* Reading the tables *)

Present(m)   == rev[m] > 0 \/ m \in Legacy
Content(m)   == IF rev[m] > 0 THEN rev[m] ELSE IF m \in Legacy THEN 1 ELSE 0
Version(m)   == [rev |-> Content(m), corr |-> corr[m]]
Siblings(m)  == {n \in Messages : ThreadOf[n] = ThreadOf[m]}
Decided(m)   == sources[m][m] > 0
NowJob(m, r) == [msg |-> m, rev |-> r, slot |-> "now"]
Current(m)   == job[NowJob(m, rev[m])]

LiveLease(j) == job[j].state = "leased" /\ job[j].live

\* leased(): the caller still owns an unexpired lease.
Leased(j, token) == LiveLease(j) /\ job[j].token = token

\* Fault: the token is not compared.
OwnsLeaseFault(j, token) == job[j].state = "leased"

\* The WHERE clause of retry, defer and fail: the lease may have expired, but
\* nobody else may have taken the job since.
OwnsLease(j, token) == job[j].state = "leased" /\ job[j].token = token

\* Fault: only the message's own rows are looked at.
ThreadBusyFault(j) == \E k \in JobIds : k # j /\ k.msg = j.msg /\ LiveLease(k)

\* NOT EXISTS(active ...): another investigation of the thread holds a lease.
ThreadBusy(j) ==
    \E k \in JobIds : /\ k # j
                      /\ ThreadOf[k.msg] = ThreadOf[j.msg]
                      /\ LiveLease(k)

\* Fault: an expired lease is never taken over.
ClaimableFault(j) == job[j].due /\ job[j].state = "queued" /\ ~ThreadBusy(j)

Claimable(j) ==
    /\ job[j].due
    /\ \/ job[j].state = "queued"
       \/ job[j].state = "leased" /\ ~job[j].live
    /\ ~ThreadBusy(j)

\* Some job row of the message has a foreground lane and no decision exists.
UnclassifiedArrival(m) ==
    /\ ~Decided(m)
    /\ \E j \in JobIds : j.msg = m /\ job[j].state # "none" /\ job[j].foreground

\* Fault: only the thread's own decisions are refreshed.
DependentsFault(s) == {d \in Siblings(s) \ {s} : sources[d][s] > 0}

\* Everything whose decision rests on s, directly or through other decisions:
\* the least set of messages closed under "has a source in the set".
Dependents(s) ==
    {d \in Messages \ {s} :
        \A closed \in SUBSET Messages :
            (\A n \in Messages :
                (\E e \in closed \cup {s} : sources[n][e] > 0) => n \in closed)
            => d \in closed}

\* A sent reply re-examines the newest inbound message of its thread.
ReplyTarget(m) ==
    LET inbound == {n \in Siblings(m) \ Sent : Present(n)}
    IN  {n \in inbound : \A k \in inbound : k <= n}

--------------------------------------------------------------------------------
(* queue_investigation(): merging a request into the row of its revision *)

IngestFamily == {"arrival", "backfill", "source_access"}

MergedKind(a, b) == IF "triage" \in {a, b} THEN "triage" ELSE "access"

Requeued(row, kind, fg) ==
    [row EXCEPT !.state = "queued", !.kind = kind, !.attempts = 0,
                !.due = TRUE, !.parked = FALSE, !.foreground = fg]

\* Restarting is for finished work under a new trigger; failed work restarts
\* only when a human asks.
Restarts(row, trig) ==
    \/ row.state = "completed" /\ trig \notin IngestFamily
    \/ row.state = "failed" /\ trig = "manual"

\* A human's one-message request lifts a daily-budget park, nothing else.
Unparks(row, requested, kind) ==
    requested /\ kind = "triage" /\ row.state = "queued" /\ row.parked

\* The row after a request [kind, trig, foreground, requested].
QueuedRow(row, q) ==
    LET kind == MergedKind(row.kind, q.kind) IN
    IF row.state = "none"
      THEN [NoJob EXCEPT !.state = "queued", !.kind = q.kind, !.due = TRUE,
                         !.foreground = q.foreground]
    ELSE IF Restarts(row, q.trig)
      THEN Requeued(row, kind, q.requested /\ kind = "triage")
    ELSE IF row.state \in {"queued", "failed"}
      THEN [row EXCEPT !.kind = kind, !.foreground = @ \/ q.foreground,
                       !.due = @ \/ Unparks(row, q.requested, kind),
                       !.parked = @ /\ ~Unparks(row, q.requested, kind)]
    ELSE row

\* A request that finds the row leased waits in its one follow-up.
QueuedFollowup(row, f, q) ==
    LET kind == MergedKind(row.kind, q.kind) IN
    IF row.state = "leased"
      THEN SomeFollowup(MergedKind(kind, f.kind),
                        f.foreground \/ (q.requested /\ kind = "triage"))
      ELSE f

--------------------------------------------------------------------------------
(* enqueue_agent_triage_lane() *)

\* A completed row keeps what later statements read of it: kind and lane.
Completed(row) ==
    [NoJob EXCEPT !.state = "completed", !.kind = row.kind, !.foreground = row.foreground]

\* Queued and leased work on older content is closed, its follow-ups dropped.
Superseded(m, r, j) == j.msg = m /\ j.rev # r

ClosedRow(row) == IF row.state \in Active THEN Completed(row) ELSE row

\* Fault: new content keeps the old verdict.
AccessAfterFault(m, changed) == IF human[m] # "none" THEN human[m] ELSE access[m]

\* Content changes put access back to pending; a human's explicit choice is
\* reapplied on every enqueue.
AccessAfter(m, changed) ==
    IF human[m] # "none" THEN human[m]
    ELSE IF changed THEN "pending" ELSE access[m]

Request(m, trig, r, requested) ==
    LET kind == IF m \in Sent \/ trig = "source_access" THEN "access" ELSE "triage"
    IN  [kind |-> kind, trig |-> trig, requested |-> requested,
         foreground |-> /\ kind = "triage"
                        /\ requested \/ UnclassifiedArrival(m)
                             \/ (r = 1 /\ trig = "arrival")]

\* The store after messages "advance" reach their next revision and every
\* message of "asked" is queued with its request.
Apply(advance, asked, request) ==
    LET next == [m \in Messages |-> IF m \in advance THEN rev[m] + 1 ELSE rev[m]]
        closed(j) == IF \E m \in advance : Superseded(m, next[m], j)
                       THEN ClosedRow(job[j]) ELSE job[j]
        kept(j)   == IF \E m \in advance : Superseded(m, next[m], j)
                       THEN NoFollowup ELSE followup[j]
        hit(j)    == j.msg \in asked /\ j = NowJob(j.msg, next[j.msg])
    IN  /\ rev' = next
        /\ job' = [j \in JobIds |->
                     IF hit(j) THEN QueuedRow(closed(j), request[j.msg]) ELSE closed(j)]
        /\ followup' = [j \in JobIds |->
                          IF hit(j) THEN QueuedFollowup(closed(j), kept(j), request[j.msg])
                          ELSE kept(j)]

\* One call for message m.  A message without a state row always counts as
\* changed.
Changes(m, newContent) == newContent \/ rev[m] = 0
NextRev(m, newContent) == IF Changes(m, newContent) THEN rev[m] + 1 ELSE rev[m]

\* The messages enqueued by name: m, and for a changed sent copy the newest
\* inbound message of its thread.
Called(m, newContent, trig) ==
    {m} \cup (IF Changes(m, newContent) /\ m \in Sent /\ trig # "source_access"
                THEN ReplyTarget(m) ELSE {})

Advancing(m, newContent, trig) ==
    {n \in Called(m, newContent, trig) : IF n = m THEN Changes(m, newContent)
                                                  ELSE rev[n] = 0}

\* Changed content also queues everything that rests on it.
Enqueue(m, newContent, trig, requested) ==
    LET r     == NextRev(m, newContent)
        asked == Called(m, newContent, trig)
                   \cup (IF Changes(m, newContent) THEN Dependents(m) ELSE {})
    IN  /\ r <= MaxRev
        /\ Apply(Advancing(m, newContent, trig), asked,
                 [n \in asked |-> IF n = m THEN Request(m, trig, r, requested)
                                  ELSE Request(n, "refresh", rev[n], FALSE)])

AccessAfterEnqueue(m, newContent, trig) ==
    [n \in Messages |->
        IF n \in Called(m, newContent, trig)
          THEN AccessAfter(n, n \in Advancing(m, newContent, trig)) ELSE access[n]]

\* ensure_source_assessments(): evidence that was never assessed gets an
\* access job, unless work is under way or has already ended.
Unassessed(S) ==
    {n \in S : /\ Present(n)
               /\ rev[n] = 0 \/ access[n] = "pending"
               /\ rev[n] > 0 => Current(n).state = "none"
               /\ ~\E j \in JobIds : j.msg = n /\ job[j].state \in Active}

EnsureAssessed(S) ==
    LET new == Unassessed(S)
    IN  /\ Apply({n \in new : rev[n] = 0}, new,
                 [n \in new |-> Request(n, "source_access", 1, FALSE)])
        /\ access' = [n \in Messages |->
                        IF n \in new THEN AccessAfter(n, rev[n] = 0) ELSE access[n]]
        /\ UNCHANGED <<human, corr, sources, cutover>>

--------------------------------------------------------------------------------
(* Ingest and the human doors *)

\* A new message, or new content for a stored one, in the ingest transaction.
Ingest(m, trig) ==
    /\ m \notin Legacy \/ rev[m] > 0
    /\ Enqueue(m, TRUE, trig, FALSE)
    /\ access' = AccessAfterEnqueue(m, TRUE, trig)
    /\ UNCHANGED <<human, corr, sources, cutover>>

\* The same content fetched again: nothing but the lane of a first, still
\* unclassified arrival can change.
Refetch(m) ==
    /\ rev[m] = 1 /\ m \notin Sent /\ ~Decided(m)
    /\ Current(m).state \in Active /\ Current(m).kind = "triage"
    /\ job' = [job EXCEPT ![NowJob(m, 1)].foreground = TRUE]
    /\ UNCHANGED <<rev, access, human, corr, sources, followup, cutover>>

\* retriage_reset() for one message: a human waits, so it is foreground.
Retriage(m) ==
    /\ Present(m)
    /\ Enqueue(m, FALSE, "manual", TRUE)
    /\ access' = AccessAfterEnqueue(m, FALSE, "manual")
    /\ UNCHANGED <<human, corr, sources, cutover>>

\* correct_agent_triage_conn(): the correction is queued as a refresh, stored,
\* and, for external_access, takes effect at once.  "none" is any other field.
Correct(m, value) ==
    LET after == AccessAfterEnqueue(m, FALSE, "refresh") IN
    /\ Present(m)
    /\ Enqueue(m, FALSE, "refresh", FALSE)
    /\ corr' = [corr EXCEPT ![m] = @ + 1]
    /\ IF value = "none"
         THEN human' = human /\ access' = after
         ELSE /\ human' = [human EXCEPT ![m] = value]
              /\ access' = [after EXCEPT ![m] = value]
    /\ UNCHANGED <<sources, cutover>>

\* initialize_agent_cutover(): stored mail without a state row is queued
\* silently, and a sent copy queues the newest inbound message of its thread.
Migrated(S) == S \cup UNION {ReplyTarget(m) : m \in S \cap Sent}

Cutover(S) ==
    LET asked   == Migrated(S)
        advance == {n \in asked : rev[n] = 0}
    IN  /\ ~cutover /\ cutover' = TRUE
        /\ S \subseteq {m \in Legacy : rev[m] = 0}
        /\ Apply(advance, asked, [n \in asked |-> Request(n, "refresh", 1, FALSE)])
        /\ access' = [n \in Messages |->
                        IF n \in asked THEN AccessAfter(n, rev[n] = 0) ELSE access[n]]
        /\ UNCHANGED <<human, corr, sources>>

--------------------------------------------------------------------------------
(* The worker's transactions *)

\* claim_agent_job(): state, token, deadline and attempt move together.
LeasedRow(row, token) == [row EXCEPT !.state = "leased", !.token = token,
                                     !.live = TRUE, !.attempts = @ + 1]

Claim(j, token) ==
    /\ Claimable(j)
    /\ job' = [job EXCEPT ![j] = LeasedRow(@, token)]
    /\ UNCHANGED <<rev, access, human, corr, sources, followup, cutover>>

\* Fault: the human's lane is not carried over.
AbsorbedFault(row, f) == [row EXCEPT !.kind = MergedKind(@, f.kind)]

\* absorb_followup(): the follow-up joins a job that goes back to the queue.
Absorbed(row, f) ==
    [row EXCEPT !.kind = MergedKind(@, f.kind), !.foreground = @ \/ f.foreground,
                !.due = @ \/ (f.foreground /\ row.parked),
                !.parked = @ /\ ~f.foreground]

\* Fault: the token stays on the row.
ReleasedFault(row) == [row EXCEPT !.state = "queued", !.live = FALSE,
                                  !.due = FALSE, !.parked = FALSE]

Released(row) == [row EXCEPT !.state = "queued", !.token = NoToken, !.live = FALSE,
                             !.due = FALSE, !.parked = FALSE]

\* retry_agent_job(): back off, keep the attempt count.
RetriedRow(row) == Released(row)

\* Fault: a deferral consumes the attempt.
DeferredRowFault(row, parked) == [Released(row) EXCEPT !.parked = parked]

\* defer_agent_job(): give back the attempt the claim took.
DeferredRow(row, parked) ==
    [Released(row) EXCEPT !.parked = parked,
                          !.attempts = IF @ > 0 THEN @ - 1 ELSE 0]

Requeue(j, row) ==
    /\ job' = [job EXCEPT ![j] = Absorbed(row, followup[j])]
    /\ followup' = [followup EXCEPT ![j] = NoFollowup]

Retry(j, token) ==
    /\ IF OwnsLease(j, token) THEN Requeue(j, RetriedRow(job[j]))
                              ELSE UNCHANGED <<job, followup>>
    /\ UNCHANGED <<rev, access, human, corr, sources, cutover>>

Defer(j, token, parked) ==
    /\ IF OwnsLease(j, token) THEN Requeue(j, DeferredRow(job[j], parked))
                              ELSE UNCHANGED <<job, followup>>
    /\ UNCHANGED <<rev, access, human, corr, sources, cutover>>

FailedRow(row) == [row EXCEPT !.state = "failed", !.token = NoToken, !.live = FALSE]

\* fail_agent_job(): terminal, and the follow-up is deleted with it.
Fail(j, token) ==
    /\ IF OwnsLease(j, token)
         THEN /\ job' = [job EXCEPT ![j] = FailedRow(@)]
              /\ followup' = [followup EXCEPT ![j] = NoFollowup]
         ELSE UNCHANGED <<job, followup>>
    /\ UNCHANGED <<rev, access, human, corr, sources, cutover>>

\* finish() and release_followup(): a waiting request restarts the row.
FinishedRow(row, f) ==
    LET kind == MergedKind(row.kind, f.kind)
    IN  IF f.some THEN Requeued(Completed(row), kind, f.foreground /\ kind = "triage")
                  ELSE Completed(row)

\* schedule_revisit(): lifetime cap, then one timer per revision.
MayRevisit(m) ==
    Cardinality({j \in JobIds : /\ j.msg = m /\ j.slot = "revisit"
                                /\ job[j].state # "none"}) < MaxRevisits

RevisitRow(row, wanted) ==
    IF wanted /\ row.state = "none" THEN [NoJob EXCEPT !.state = "queued"] ELSE row

\* Fault: the commit trusts the model.
VerdictFault(m, verdict) == verdict

\* The human's explicit choice outranks the model's verdict.
Verdict(m, verdict) == IF human[m] # "none" THEN human[m] ELSE verdict

\* The applied branch of commit_agent_decision_with_policy().
CommitDecision(j, evidence, verdict, revisit) ==
    LET m     == j.msg
        timer == [msg |-> m, rev |-> rev[m], slot |-> "revisit"]
    IN  /\ sources' = [sources EXCEPT ![m] =
                         [s \in Messages |-> IF s \in evidence \cup {m} THEN rev[s] ELSE 0]]
        /\ access' = [access EXCEPT ![m] = Verdict(m, verdict)]
        /\ job' = [k \in JobIds |->
                     IF k = j THEN FinishedRow(job[j], followup[j])
                     ELSE IF k = timer THEN RevisitRow(job[k], revisit /\ MayRevisit(m))
                     ELSE job[k]]
        /\ followup' = [followup EXCEPT ![j] = NoFollowup]
        /\ UNCHANGED <<rev, human, corr, cutover>>

\* Fault: the review finishes without storing its verdict.
CommitAccessFault(j, verdict) ==
    /\ job' = [job EXCEPT ![j] = FinishedRow(job[j], followup[j])]
    /\ followup' = [followup EXCEPT ![j] = NoFollowup]
    /\ UNCHANGED <<rev, access, human, corr, sources, cutover>>

\* The applied branch of commit_agent_access(): access and nothing else.
CommitAccess(j, verdict) ==
    /\ access' = [access EXCEPT ![j.msg] = Verdict(j.msg, verdict)]
    /\ job' = [job EXCEPT ![j] = FinishedRow(job[j], followup[j])]
    /\ followup' = [followup EXCEPT ![j] = NoFollowup]
    /\ UNCHANGED <<rev, human, corr, sources, cutover>>

--------------------------------------------------------------------------------
(* The clock *)

BecomeDue(j) ==
    /\ job[j].state = "queued" /\ ~job[j].due
    /\ job' = [job EXCEPT ![j].due = TRUE]
    /\ UNCHANGED <<rev, access, human, corr, sources, followup, cutover>>

LeaseExpires(j) ==
    /\ LiveLease(j)
    /\ job' = [job EXCEPT ![j].live = FALSE]
    /\ UNCHANGED <<rev, access, human, corr, sources, followup, cutover>>
================================================================================
