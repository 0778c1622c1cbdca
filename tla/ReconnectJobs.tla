----------------------------- MODULE ReconnectJobs -----------------------------
(***************************************************************************)
(* Durable reconnects of the control plane (src/squelch-control/src/       *)
(* reconnect.rs).  A consent queues its sealed credential in one row per   *)
(* label, a pass claims due rows under a lease, a detached job asks the    *)
(* warden to install the credential, and the outcome is saved unless a     *)
(* newer consent has replaced it meanwhile.                                *)
(*                                                                         *)
(* A row is named by the consent that inserted it and holds the number of  *)
(* the consent whose ciphertext is to be installed.  The client's wait for *)
(* the warden ends before the lease does: the lease is that wait and a     *)
(* minute.  Nothing bounds what comes after it: the warden is not told of  *)
(* a timeout or of a lost connection and may be at work still, with the    *)
(* lease released, and the write of an outcome may take any time.          *)
(***************************************************************************)
EXTENDS Naturals, FiniteSets

CONSTANTS Labels, Consents,   \* 1 .. n, in the order they are queued
          Workers,            \* slots of a process, and calls it left behind
          MaxConcurrent, MaxAttempts,
          MaxTrouble          \* crashes, lost results and closed accounts

VARIABLES job,       \* reconnect_jobs
          view,      \* reconnect_views: the row each consent's browser watches
          worker,    \* the calls under way, at the client or at the warden alone
          cluster,   \* the consent installed under each label
          closed,    \* labels the warden refuses
          misfires,
          doubt      \* history: labels a call that outlived its lease may set back, or has

vars == <<job, view, worker, cluster, closed, misfires, doubt>>

NoJob == [state |-> "none", label |-> 0, holds |-> 0, attempts |-> 0, due |-> FALSE, lease |-> "none"]
NoWork == [at |-> "idle", job |-> 0, holds |-> 0, before |-> 0, wrote |-> FALSE, answer |-> "none",
           loose |-> FALSE]   \* history: the lease it worked under has ended without it
Terminal == {"complete", "refused", "gave_up"}

Label(j) == job[j].label
Pending(l) == {j \in Consents : job[j].state = "pending" /\ Label(j) = l}
Unqueued == {c \in Consents : view[c] = 0 /\ \A d \in Consents : d < c => view[d] # 0}
Trouble == misfires < MaxTrouble /\ misfires' = misfires + 1

-----------------------------------------------------------------------------
\* a newer consent that also takes the lease away
JoinedFault(row, c) == [row EXCEPT !.holds = c, !.attempts = 0, !.due = TRUE, !.lease = "none"]
\* enqueue on a pending row: the newest ciphertext, from the start, under the old lease
Joined(row, c) == [row EXCEPT !.holds = c, !.attempts = 0, !.due = TRUE]

Enqueue(l, c) ==
  /\ c \in Unqueued /\ l \notin closed
  /\ \/ /\ Pending(l) = {}
        /\ job' = [job EXCEPT ![c] = [NoJob EXCEPT !.state = "pending", !.label = l,
                                                   !.holds = c, !.due = TRUE]]
        /\ view' = [view EXCEPT ![c] = c]
     \/ \E j \in Pending(l) : /\ job' = [job EXCEPT ![j] = Joined(@, c)]
                              /\ view' = [view EXCEPT ![c] = j]
  /\ UNCHANGED <<worker, cluster, closed, misfires>>

\* a claim that waits for the lease to be released
ClaimableFault(j) == job[j].state = "pending" /\ job[j].due /\ job[j].lease = "none"
Claimable(j) == job[j].state = "pending" /\ job[j].due /\ job[j].lease # "live"
Busy == {w \in Workers : worker[w].at \in {"calling", "answered", "cut"}}

\* run_pending: a slot (they are alike), and the oldest row that is due
Claim(w, j) ==
  /\ worker[w].at = "idle" /\ w = CHOOSE v \in Workers : worker[v].at = "idle"
  /\ Cardinality(Busy) < MaxConcurrent
  /\ Claimable(j) /\ \A k \in Consents : Claimable(k) => j <= k
  /\ job' = [job EXCEPT ![j].lease = "live"]
  /\ worker' = [worker EXCEPT ![w] = [NoWork EXCEPT !.at = "calling", !.job = j,
                                        !.holds = job[j].holds, !.before = job[j].attempts]]
  /\ UNCHANGED <<view, cluster, closed, misfires>>

\* the warden stores the credential, whether or not anybody still waits for it
Install(w) ==
  LET l == Label(worker[w].job)
  IN /\ worker[w].at \in {"calling", "cut", "orphan"} /\ ~worker[w].wrote /\ l \notin closed
     /\ cluster' = [cluster EXCEPT ![l] = worker[w].holds]
     /\ worker' = [worker EXCEPT ![w].wrote = TRUE]
     /\ UNCHANGED <<job, view, closed, misfires>>

\* an outcome the warden did not settle is tried again, up to a point
Unsettled(w) == IF worker[w].before + 1 < MaxAttempts THEN "pending" ELSE "gave_up"
Ends(w, place, answer) ==
  /\ worker[w].at = "calling"
  /\ worker' = [worker EXCEPT ![w].at = place, ![w].answer = answer]
  /\ UNCHANGED <<job, view, cluster, closed, misfires>>
\* the warden answers; a refusal and a 401 come before anything is written
Answer(w) ==
  \/ Ends(w, "answered", "complete") /\ worker[w].wrote
  \/ Ends(w, "answered", "refused") /\ ~worker[w].wrote /\ Label(worker[w].job) \in closed
  \/ Ends(w, "answered", "gave_up") /\ ~worker[w].wrote                      \* 401
  \/ Ends(w, "answered", Unsettled(w))                                       \* 5xx
\* a timeout or a lost connection: the warden is not told, and works on
Cut(w) == Ends(w, "cut", Unsettled(w))

\* what is left of a call when its client lets go of it: it may still install
Left(w, loose) ==
  IF worker[w].at = "answered" \/ worker[w].wrote THEN NoWork
  ELSE [NoWork EXCEPT !.at = "orphan", !.job = worker[w].job, !.holds = worker[w].holds,
                      !.loose = worker[w].loose \/ loose]

\* save: the lease goes whatever happened; the rest only for the same ciphertext
Saved(row, w) ==
  IF row.holds # worker[w].holds THEN [row EXCEPT !.lease = "none"]
  ELSE [row EXCEPT !.lease = "none", !.state = worker[w].answer, !.attempts = @ + 1,
                   !.due = FALSE, !.holds = IF worker[w].answer = "pending" THEN @ ELSE 0]
Save(w) ==
  LET j == worker[w].job
  IN /\ worker[w].at \in {"answered", "cut"}
     /\ job' = IF job[j].state = "pending" THEN [job EXCEPT ![j] = Saved(@, w)] ELSE job
     /\ worker' = [v \in Workers |-> IF v = w THEN Left(w, TRUE)
                                     ELSE [worker[v] EXCEPT !.loose = @ \/ worker[v].job = j]]
     /\ UNCHANGED <<view, cluster, closed, misfires>>
SaveFails(w) ==
  /\ worker[w].at \in {"answered", "cut"} /\ Trouble
  /\ worker' = [worker EXCEPT ![w] = Left(w, FALSE)]
  /\ UNCHANGED <<job, view, cluster, closed>>

\* the process dies; the warden may still be at work for it
Crash ==
  /\ Busy # {} /\ Trouble
  /\ worker' = [w \in Workers |-> IF w \in Busy THEN Left(w, FALSE) ELSE worker[w]]
  /\ UNCHANGED <<job, view, cluster, closed>>
OrphanEnds(w) ==
  /\ worker[w].at = "orphan" /\ worker' = [worker EXCEPT ![w] = NoWork]
  /\ UNCHANGED <<job, view, cluster, closed, misfires>>

BackoffEnds(j) ==
  /\ job[j].state = "pending" /\ ~job[j].due
  /\ job' = [job EXCEPT ![j].due = TRUE]
  /\ UNCHANGED <<view, worker, cluster, closed, misfires>>
\* not before the client's wait is over
LeaseExpires(j) ==
  /\ job[j].lease = "live"
  /\ \A w \in Workers : worker[w].job = j => worker[w].at # "calling"
  /\ job' = [job EXCEPT ![j].lease = "past"]
  /\ worker' = [w \in Workers |-> [worker[w] EXCEPT !.loose = @ \/ worker[w].job = j]]
  /\ UNCHANGED <<view, cluster, closed, misfires>>

\* a day later: nobody's view is left, and the row goes
Sweep(j) ==
  /\ job[j].state \in Terminal
  /\ job' = [job EXCEPT ![j].state = "gone"]
  /\ UNCHANGED <<view, worker, cluster, closed, misfires>>
\* the account is closed: the warden refuses its credentials from here on
Close(l) ==
  /\ l \notin closed /\ Trouble
  /\ closed' = closed \cup {l}
  /\ UNCHANGED <<job, view, worker, cluster>>

-----------------------------------------------------------------------------
Init ==
  /\ job = [c \in Consents |-> NoJob] /\ view = [c \in Consents |-> 0]
  /\ worker = [w \in Workers |-> NoWork]
  /\ cluster = [l \in Labels |-> 0] /\ closed = {} /\ misfires = 0 /\ doubt = {}

Step(w) == Install(w) \/ Answer(w) \/ Cut(w) \/ Save(w)
Acts ==
  \/ \E l \in Labels, c \in Consents : Enqueue(l, c)
  \/ \E w \in Workers : Step(w) \/ SaveFails(w) \/ OrphanEnds(w)
  \/ \E w \in Workers, j \in Consents : Claim(w, j)
  \/ \E j \in Consents : BackoffEnds(j) \/ LeaseExpires(j) \/ Sweep(j)
  \/ \E l \in Labels : Close(l)
  \/ Crash

Newest(l) == LET of == {c \in Consents : view[c] # 0 /\ Label(view[c]) = l}
             IN IF of = {} THEN 0 ELSE CHOOSE c \in of : \A d \in of : d <= c
\* a call with an older credential may still install it, though its lease has ended
Strays(l) == \E w \in Workers : /\ worker[w].at \in {"calling", "cut", "orphan"}
                                /\ worker[w].loose /\ ~worker[w].wrote
                                /\ Label(worker[w].job) = l /\ worker[w].holds < Newest(l)
Doubts == doubt' = {l \in Labels : Strays(l)' \/ (l \in doubt /\ (cluster[l] # Newest(l))')}
Next == Acts /\ Doubts
\* the passes of the runner, and clocks
Passes ==
  \/ \E w \in Workers : Answer(w) \/ Save(w) \/ OrphanEnds(w) \/ \E j \in Consents : Claim(w, j)
  \/ \E j \in Consents : BackoffEnds(j) \/ LeaseExpires(j)
Progress == Passes /\ Doubts
Spec == Init /\ [][Next]_vars /\ WF_vars(Progress)

-----------------------------------------------------------------------------
(* The newest consent wins: see NewestConsent.  The rows, the views and the cluster
   implement that promise through leases, retries, crashes, newer consents and calls that
   are answered late, short of the labels in doubt: while a call that outlived its lease
   may still install an older credential, and from when it has until the newest one is
   installed again.  The code prevents neither. *)
Watched(c) == IF view[c] = 0 THEN "none" ELSE job[view[c]].state
N == INSTANCE NewestConsent WITH asked <- [l \in Labels |-> Newest(l)], held <- cluster,
       told <- [c \in Consents |-> Watched(c)]
NewestWins == N!Promise

(* Retries end: every job is settled, through crashes and lost results, because a
   lease expires and attempts are counted. *)
JobsEnd == \A j \in Consents : job[j].state = "pending" ~> job[j].state # "pending"
================================================================================
