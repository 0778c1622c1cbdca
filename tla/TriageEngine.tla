------------------------------ MODULE TriageEngine -----------------------------
(***************************************************************************)
(* The triage worker of squelch-core (sync/triage_worker.rs) driving the   *)
(* queue of TriageQueue.  An engine is one daemon process serving the      *)
(* account; the store's lease protocol is written for any number of        *)
(* claimants, so two engines (an old process draining beside its           *)
(* successor) are allowed.  Each engine runs passes: it claims up to one   *)
(* job per worker, then runs the claimed jobs to the end (join_all) before *)
(* it claims again, with a shared provider-outage circuit.                 *)
(*                                                                         *)
(* Everything between two store transactions of a worker is a separate     *)
(* step, so ingest, humans, expiring leases and other engines run between  *)
(* any two.  The model's answer, its errors and the daily budget are       *)
(* nondeterministic here; AgentBudget models the counters.                 *)
(***************************************************************************)
EXTENDS TriageQueue

CONSTANTS
    Workers,      \* worker slots: [triage.agent] concurrency of every engine
    EngineOf,     \* the engine of every worker
    NoJobId,      \* an idle worker's job
    Origins,      \* how mail comes in: "arrival" (live sync), "backfill"
    Answers,      \* the access verdicts the model may give
    Editable,     \* bound: the messages whose content may change
    MaxTrouble,   \* bound: crashes, lost passes, overrun leases, outages, budget refusals
    MaxManual,    \* bound: human requests for one message
    MaxCorr       \* bound: human corrections of one message

Engines == {EngineOf[w] : w \in Workers}

ASSUME EngineAssumption == NoJobId \notin JobIds
ASSUME InputAssumption  == /\ Origins \subseteq {"arrival", "backfill"}
                           /\ Answers \subseteq Verdicts
ASSUME BoundAssumption  == {MaxTrouble, MaxManual, MaxCorr} \subseteq Nat

VARIABLES
    worker,     \* what each worker holds in memory
    pass,       \* per engine: claiming jobs, or running the claimed ones
    circuit,    \* per engine: agent_retry_after
    trouble,    \* how many environment faults have happened
    manuals,    \* how many human requests have been made
    charged,    \* history: attempts of a job that ended in failure or a lost lease
    basis,      \* history: the revisions the last committed decision was made from
    judged      \* history: the revision whose content the access verdict is about

engineVars == <<worker, pass, circuit, trouble, manuals>>
history    == <<charged, basis, judged>>
vars       == <<queueVars, engineVars, history>>

--------------------------------------------------------------------------------
(* Types *)

Phases   == {"idle", "claimed", "running", "answered", "rejected"}
Circuits == {"closed", "open", "halfopen"}
Versions == [rev : 0..MaxRev, corr : Nat]
Unseen   == [rev |-> 0, corr |-> 0]

WorkerStates ==
    [phase : Phases, job : JobIds \cup {NoJobId}, kind : Kinds,
     token : Tokens \cup {NoToken}, attempts : Nat,
     seen : [Messages -> Versions],   \* evidence snapshots, Unseen when not read
     late : BOOLEAN]                  \* its lease ran out while it worked

Idle == [phase |-> "idle", job |-> NoJobId, kind |-> "triage", token |-> NoToken,
         attempts |-> 0, seen |-> [m \in Messages |-> Unseen], late |-> FALSE]

TypeOK ==
    /\ QueueTypeOK
    /\ worker \in [Workers -> WorkerStates]
    /\ \A w \in Workers : worker[w].phase # "idle" => worker[w].job \in JobIds
    /\ pass \in [Engines -> {"claiming", "running"}]
    /\ circuit \in [Engines -> Circuits]
    /\ trouble \in Nat
    /\ manuals \in Nat
    /\ charged \in [JobIds -> Nat]
    /\ basis \in [Messages -> [Messages -> 0..MaxRev]]
    /\ judged \in [Messages -> 0..MaxRev]

Init ==
    /\ QueueInit
    /\ worker = [w \in Workers |-> Idle]
    /\ pass = [e \in Engines |-> "claiming"]
    /\ circuit = [e \in Engines |-> "closed"]
    /\ trouble = 0
    /\ manuals = 0
    /\ charged = [j \in JobIds |-> 0]
    /\ basis = [m \in Messages |-> [s \in Messages |-> 0]]
    /\ judged = [m \in Messages |-> 0]

--------------------------------------------------------------------------------
(* Helpers *)

Busy(w)  == worker[w].phase # "idle"
Crew(e)  == {w \in Workers : EngineOf[w] = e}
HeldBy(t) == {w \in Workers : Busy(w) /\ worker[w].token = t}

\* Tokens are random: a fresh one is on no row and in no worker's memory.
FreshTokens ==
    {t \in Tokens : HeldBy(t) = {} /\ \A j \in JobIds : job[j].token # t}
NextToken(t) == t \in FreshTokens /\ \A u \in FreshTokens : t <= u

Mischief == trouble < MaxTrouble /\ trouble' = trouble + 1

\* A worker that lets its job go; the last one to finish ends the pass.
Leave(w) ==
    LET e == EngineOf[w] IN
    /\ worker' = [worker EXCEPT ![w] = Idle]
    /\ pass' = IF \E v \in Crew(e) \ {w} : Busy(v)
                 THEN pass ELSE [pass EXCEPT ![e] = "claiming"]

Charge(w) ==
    LET j == worker[w].job IN
    charged' = IF OwnsLease(j, worker[w].token)
                 THEN [charged EXCEPT ![j] = @ + 1] ELSE charged

\* The history counter starts again when a request restarts a job.
Recount == charged' = [j \in JobIds |-> IF job'[j].attempts = 0 THEN 0 ELSE charged[j]]

--------------------------------------------------------------------------------
(* Mail and humans *)

Arrive(m, trig) ==
    /\ rev[m] > 0 => m \in Editable
    /\ Ingest(m, trig)
    /\ Recount
    /\ UNCHANGED <<engineVars, basis, judged>>

FetchAgain(m) ==
    /\ Refetch(m)
    /\ UNCHANGED <<engineVars, history>>

AskAgain(m) ==
    /\ manuals < MaxManual
    /\ manuals' = manuals + 1
    /\ Retriage(m)
    /\ Recount
    /\ UNCHANGED <<worker, pass, circuit, trouble, basis, judged>>

CorrectByHand(m, value) ==
    /\ corr[m] < MaxCorr
    /\ Correct(m, value)
    /\ Recount
    /\ UNCHANGED <<engineVars, basis, judged>>

--------------------------------------------------------------------------------
(* One pass of an engine *)

\* The claim loop of agent_triage_pass: none while the circuit is open, one
\* probe while it is half open.
MayClaim(w) ==
    LET e == EngineOf[w] IN
    /\ cutover /\ ~Busy(w) /\ pass[e] = "claiming" /\ circuit[e] # "open"
    /\ circuit[e] = "halfopen" => \A v \in Crew(e) : ~Busy(v)

\* The first pass queues the mail stored before, once the circuit permits a pass.
FirstPass(S) ==
    /\ \E e \in Engines : circuit[e] # "open"
    /\ Cutover(S)
    /\ Recount
    /\ UNCHANGED <<engineVars, basis, judged>>

ClaimJob(w, j) ==
    /\ MayClaim(w)
    /\ \E t \in Tokens :
        /\ NextToken(t)
        /\ Claim(j, t)
        /\ worker' = [worker EXCEPT ![w] =
              [Idle EXCEPT !.phase = "claimed", !.job = j, !.kind = job[j].kind,
                           !.token = t, !.attempts = job[j].attempts + 1]]
    \* A reclaimed lease is an attempt its last holder lost.
    /\ charged' = IF job[j].state = "leased"
                    THEN [charged EXCEPT ![j] = @ + 1] ELSE charged
    /\ UNCHANGED <<pass, circuit, trouble, manuals, basis, judged>>

\* What a worker's first read shows it: an access review reads one message,
\* an investigation the whole thread.
FirstRead(w) ==
    LET m == worker[w].job.msg IN
    [s \in Messages |->
        IF /\ Present(s)
           /\ s = m \/ (worker[w].kind = "triage" /\ s \in Siblings(m))
          THEN Version(s) ELSE Unseen]

\* Admission, the context read and the source snapshot, up to the model call.
Begin(w) ==
    LET j == worker[w].job
        e == EngineOf[w]
        read == {s \in Messages : FirstRead(w)[s] # Unseen}
    IN
    /\ worker[w].phase = "claimed"
    /\ circuit[e] # "open"
    /\ pass' = [pass EXCEPT ![e] = "running"]
    /\ worker' = [worker EXCEPT ![w].phase = "running", ![w].seen = FirstRead(w)]
    /\ worker[w].kind = "access" => Leased(j, worker[w].token)
    /\ IF worker[w].kind = "triage" THEN EnsureAssessed(read) ELSE UNCHANGED queueVars
    /\ UNCHANGED <<circuit, trouble, manuals, history>>

\* load_agent_access_message() refuses a lease that is gone.
RefuseAccess(w) ==
    /\ worker[w].phase = "claimed" /\ worker[w].kind = "access"
    /\ circuit[EngineOf[w]] # "open"
    /\ ~Leased(worker[w].job, worker[w].token)
    /\ pass' = [pass EXCEPT ![EngineOf[w]] = "running"]
    /\ worker' = [worker EXCEPT ![w].phase = "rejected"]
    /\ UNCHANGED <<queueVars, circuit, trouble, manuals, history>>

\* A job put back without a model call: the circuit is open, or the day's
\* budget refused the reservation.
CoolDown(w) ==
    /\ worker[w].phase = "claimed" /\ circuit[EngineOf[w]] = "open"
    /\ Defer(worker[w].job, worker[w].token, FALSE)
    /\ Leave(w)
    /\ UNCHANGED <<circuit, trouble, manuals, history>>

BudgetRefused(w) ==
    /\ worker[w].phase = "claimed" /\ circuit[EngineOf[w]] # "open"
    /\ Mischief
    /\ Defer(worker[w].job, worker[w].token, TRUE)
    /\ Leave(w)
    /\ UNCHANGED <<circuit, manuals, history>>

\* A tool call: the evidence is snapshotted when it is read.
ReadEvidence(w, s) ==
    /\ worker[w].phase = "running" /\ worker[w].kind = "triage"
    /\ Present(s) /\ worker[w].seen[s] = Unseen
    /\ worker' = [worker EXCEPT ![w].seen[s] = Version(s)]
    /\ EnsureAssessed({s})
    /\ UNCHANGED <<pass, circuit, trouble, manuals, history>>

\* The model answered: a half-open circuit closes.
Answer(w) ==
    LET e == EngineOf[w] IN
    /\ worker[w].phase = "running"
    /\ worker' = [worker EXCEPT ![w].phase = "answered"]
    /\ circuit' = IF circuit[e] = "halfopen" THEN [circuit EXCEPT ![e] = "closed"] ELSE circuit
    /\ UNCHANGED <<queueVars, pass, trouble, manuals, history>>

\* Invalid output, a timeout, a store error: the job's own failure.
Error(w) ==
    /\ worker[w].phase \in {"claimed", "running", "answered"}
    /\ worker' = [worker EXCEPT ![w].phase = "rejected"]
    /\ pass' = [pass EXCEPT ![EngineOf[w]] = "running"]
    /\ UNCHANGED <<queueVars, circuit, trouble, manuals, history>>

\* A provider outage: everyone cools down, the job keeps its attempt.
Outage(w) ==
    /\ worker[w].phase = "running"
    /\ Mischief
    /\ circuit' = [circuit EXCEPT ![EngineOf[w]] = "open"]
    /\ Defer(worker[w].job, worker[w].token, FALSE)
    /\ Leave(w)
    /\ UNCHANGED <<manuals, history>>

\* Fault: evidence outside the thread is not compared.
StaleFault(w) ==
    LET m == worker[w].job.msg IN
    IF worker[w].kind = "access"
      THEN Content(m) # worker[w].seen[m].rev
      ELSE \E s \in Siblings(m) : worker[w].seen[s] # Version(s)

\* The commit's staleness test.  A decision rests on its whole thread and on
\* every source it read; an access verdict on its message's content alone.
Stale(w) ==
    LET m == worker[w].job.msg IN
    IF worker[w].kind = "access"
      THEN Content(m) # worker[w].seen[m].rev
      ELSE \E s \in Messages : /\ s \in Siblings(m) \/ worker[w].seen[s] # Unseen
                               /\ worker[w].seen[s] # Version(s)

Commit(w, verdict, revisit) ==
    LET me == worker[w]
        m  == me.job.msg
    IN
    /\ me.phase = "answered"
    /\ Leased(me.job, me.token) /\ ~Stale(w)
    /\ IF me.kind = "access"
         THEN /\ CommitAccess(me.job, verdict)
              /\ UNCHANGED basis
         ELSE /\ CommitDecision(me.job, {s \in Messages : me.seen[s] # Unseen}, verdict, revisit)
              /\ basis' = [basis EXCEPT ![m] = [s \in Messages |-> me.seen[s].rev]]
    /\ judged' = [judged EXCEPT ![m] = me.seen[m].rev]
    /\ Recount
    /\ Leave(w)
    /\ UNCHANGED <<circuit, trouble, manuals>>

CommitRejected(w) ==
    /\ worker[w].phase = "answered"
    /\ ~Leased(worker[w].job, worker[w].token) \/ Stale(w)
    /\ worker' = [worker EXCEPT ![w].phase = "rejected"]
    /\ UNCHANGED <<queueVars, pass, circuit, trouble, manuals, history>>

\* retry_agent(): back off, or fail once the claimed attempt was the last.
Exhausted(w) == worker[w].attempts >= MaxAttempts

RetryAgent(w) ==
    /\ worker[w].phase = "rejected"
    /\ IF Exhausted(w) THEN Fail(worker[w].job, worker[w].token)
                       ELSE Retry(worker[w].job, worker[w].token)
    /\ Charge(w)
    /\ Leave(w)
    /\ UNCHANGED <<circuit, trouble, manuals, basis, judged>>

--------------------------------------------------------------------------------
(* The process and the clock *)

\* The process dies, or the supervising select! drops the pass mid-flight
\* (the in-memory circuit survives only the latter).
LosePass(e, restart) ==
    /\ \E w \in Crew(e) : Busy(w)
    /\ Mischief
    /\ worker' = [w \in Workers |-> IF w \in Crew(e) THEN Idle ELSE worker[w]]
    /\ pass' = [pass EXCEPT ![e] = "claiming"]
    /\ circuit' = IF restart THEN [circuit EXCEPT ![e] = "closed"] ELSE circuit
    /\ UNCHANGED <<queueVars, manuals, history>>

\* agent_retry_after passes; the next pass sends one probe.
HalfOpen(e) ==
    /\ circuit[e] = "open"
    /\ circuit' = [circuit EXCEPT ![e] = "halfopen"]
    /\ UNCHANGED <<queueVars, worker, pass, trouble, manuals, history>>

TimePasses(j) ==
    /\ BecomeDue(j)
    /\ UNCHANGED <<engineVars, history>>

\* A lease outlives its worker's own timeout by 30 seconds, so it runs out
\* under a live worker only when the process stalls.
Expire(j) ==
    LET holders == HeldBy(job[j].token) IN
    /\ LeaseExpires(j)
    /\ IF holders = {} THEN UNCHANGED trouble ELSE Mischief
    /\ worker' = [w \in Workers |->
                    IF w \in holders THEN [worker[w] EXCEPT !.late = TRUE] ELSE worker[w]]
    /\ UNCHANGED <<pass, circuit, manuals, history>>

--------------------------------------------------------------------------------

WorkerStep(w) ==
    \/ \E j \in JobIds : ClaimJob(w, j)
    \/ Begin(w) \/ RefuseAccess(w) \/ CoolDown(w) \/ BudgetRefused(w)
    \/ \E s \in Messages : ReadEvidence(w, s)
    \/ Answer(w) \/ Error(w) \/ Outage(w)
    \/ \E verdict \in Answers, revisit \in BOOLEAN : Commit(w, verdict, revisit)
    \/ CommitRejected(w) \/ RetryAgent(w)

Next ==
    \/ \E m \in Messages, trig \in Origins : Arrive(m, trig)
    \/ \E m \in Messages : FetchAgain(m) \/ AskAgain(m)
    \/ \E m \in Messages, value \in Verdicts \cup {"none"} : CorrectByHand(m, value)
    \/ \E S \in SUBSET Legacy : FirstPass(S)
    \/ \E w \in Workers : WorkerStep(w)
    \/ \E e \in Engines, restart \in BOOLEAN : LosePass(e, restart)
    \/ \E e \in Engines : HalfOpen(e)
    \/ \E j \in JobIds : TimePasses(j) \/ Expire(j)

Spec == Init /\ [][Next]_vars

(***************************************************************************)
(* Fairness.  The engine's loop keeps claiming while jobs are claimable; a *)
(* claimed job runs to an end because every await in it has a timeout;     *)
(* clocks advance.  Nothing is assumed of mail, humans or faults, and      *)
(* faults are bounded by MaxTrouble.                                       *)
(***************************************************************************)
Advance(w) ==
    \/ Begin(w) \/ RefuseAccess(w) \/ CoolDown(w) \/ Answer(w)
    \/ \E verdict \in Answers, revisit \in BOOLEAN : Commit(w, verdict, revisit)
    \/ CommitRejected(w) \/ RetryAgent(w)

Fairness ==
    /\ WF_vars(\E S \in SUBSET Legacy : FirstPass(S))
    /\ \A w \in Workers : /\ WF_vars(\E j \in JobIds : ClaimJob(w, j))
                          /\ WF_vars(Advance(w))
    /\ \A e \in Engines : WF_vars(HalfOpen(e))
    /\ \A j \in JobIds : /\ WF_vars(TimePasses(j))
                         /\ WF_vars(HeldBy(job[j].token) = {} /\ Expire(j))

FairSpec == Spec /\ Fairness

--------------------------------------------------------------------------------
(* Safety *)

\* Investigations of one thread are serialized: at most one unexpired lease.
ThreadExclusive ==
    \A j, k \in JobIds :
        LiveLease(j) /\ LiveLease(k) /\ ThreadOf[j.msg] = ThreadOf[k.msg] => j = k

\* Fencing.  While a worker's lease has not run out and its message has not
\* changed, the row stays in that worker's hands: no stale worker, retry,
\* deferral or second engine can take or finish it.
LeaseHonoured ==
    \A w \in Workers :
        LET me == worker[w] IN
        Busy(w) /\ ~me.late /\ me.job.rev = rev[me.job.msg]
            => Leased(me.job, me.token)

\* Access follows content: an open or restricted verdict that no human gave
\* is about the content stored now, never about an earlier revision.
VerdictIsCurrent ==
    \A m \in Messages : access[m] # "pending" /\ human[m] = "none" => judged[m] = rev[m]

\* A human's external_access choice survives content changes, late commits
\* and access reviews that were already running.
HumanChoiceWins ==
    \A m \in Messages : human[m] # "none" => access[m] = human[m]

\* The provenance recorded with a decision is what the model really read.
ProvenanceHonest == \A m \in Messages : sources[m] = basis[m]

\* A decision one of whose sources has changed since the model read it has
\* work outstanding, or its job has failed for good.
StaleDecisionQueued ==
    \A m, s \in Messages :
        basis[m][s] > 0 /\ basis[m][s] < rev[s]
            => Current(m).state \in {"queued", "leased", "failed"}

\* No message is orphaned as pending.
PendingHasWork ==
    \A m \in Messages :
        rev[m] > 0 /\ access[m] = "pending"
            => Current(m).state \in {"queued", "leased", "failed"}

\* Nothing is forgotten: what is undecided, or decided from evidence that has
\* changed, has a job that will come to it or that has failed for good.
NothingForgotten == StaleDecisionQueued /\ PendingHasWork

\* A follow-up waits only beside a leased row, where some ending will see it.
FollowupBesideLease ==
    \A j \in JobIds : followup[j].some => job[j].state = "leased"

\* Deferrals cost no attempt and nothing else is free: a job fails only after
\* max_attempts attempts that really ended in failure or a lost lease.
AttemptsAccounted ==
    \A j \in JobIds :
        /\ job[j].state = "queued" => job[j].attempts = charged[j]
        /\ job[j].state = "leased" => job[j].attempts = charged[j] + 1
        /\ job[j].state = "failed" => charged[j] >= MaxAttempts

(* Action properties *)

\* The step that removes a follow-up without a content change carries it: the
\* row is queued again with the wider kind and the human's foreground lane.
CarriedAfter(j) ==
    /\ job'[j].state = "queued"
    /\ followup[j].kind = "triage" => job'[j].kind = "triage"
    /\ followup[j].foreground => job'[j].foreground

Dropped(j) ==
    followup[j].some /\ ~followup'[j].some /\ rev'[j.msg] = rev[j.msg]

\* It holds for every ending but terminal failure.
FollowupCarried ==
    [][\A j \in JobIds : Dropped(j) /\ job'[j].state # "failed" => CarriedAfter(j)]_vars

(* Liveness *)

\* Every queued or leased job is eventually completed or failed.
JobsSettle ==
    \A j \in JobIds :
        job[j].state \in Active ~> job[j].state \in {"completed", "failed"}

\* No message stays pending for ever unless its job failed for good.
AccessSettles ==
    \A m \in Messages :
        rev[m] > 0 /\ access[m] = "pending"
            ~> \/ access[m] # "pending"
               \/ rev[m] > 0 /\ Current(m).state = "failed"

\* The queue drains, whatever dies or is refused on the way: neither a job nor a
\* message's access is left in the middle for good.
TriageSettles == JobsSettle /\ AccessSettles
================================================================================
