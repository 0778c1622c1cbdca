------------------------------- MODULE NotifyLane -------------------------------
(***************************************************************************)
(* Notification of new mail (sync/notify_lane.rs, and the lane that runs   *)
(* its jobs in sync/triage_worker.rs).  An arrival queues a fast job, which *)
(* asks a small model, and the decision about the message queues a          *)
(* deliberate one, which carries the advice of the investigation.  Either   *)
(* may append the one event of the message; each lane's first answer is     *)
(* kept in a ledger.                                                        *)
(*                                                                         *)
(* One task claims jobs of both kinds, runs them together and claims again  *)
(* when all have ended.  The process may die between any two writes, and a  *)
(* store call may fail.  Left out: what a notification says, the usage      *)
(* ledger, the set of messages in flight, which one task cannot collide     *)
(* in, and the waiting for a permit.                                        *)
(***************************************************************************)
EXTENDS Naturals, FiniteSets

CONSTANTS Mail,         \* arrivals with an eligibility stamp
          Cap,          \* calls of the model the day allows
          MaxAttempts,
          MaxTrouble    \* crashes, failed writes, overrun leases, healed bodies and new advice

VARIABLES task,    \* [state, tries]: the job of each kind
          run,     \* [at, answer, owns]: the task's work on it
          advice,  \* what the investigation says of a message
          ledger,  \* notify_decisions
          rangBy,  \* the lane whose event the message has; events is unique on it
          dealt,   \* messages opened, done or snoozed
          late,    \* messages past the rescue window
          used, paused, faults

vars == <<task, run, advice, ledger, rangBy, dealt, late, used, paused, faults>>
user == <<dealt, late>>

Lanes == {"fast", "deliberate"}
Settled == {"none", "done", "failed", "closed"}
NoRun == [at |-> "idle", answer |-> "none", owns |-> FALSE]
Fault == faults < MaxTrouble /\ faults' = faults + 1
Work(m, k, at, answer) == run' = [run EXCEPT ![m][k].at = at, ![m][k].answer = answer]

-----------------------------------------------------------------------------
(* Jobs *)

\* enqueue_agent_triage: an eligible arrival is to be assessed fast
Arrive(m) ==
  /\ task[m]["fast"].state = "none"
  /\ task' = [task EXCEPT ![m]["fast"].state = "queued"]
  /\ UNCHANGED <<run, advice, ledger, rangBy, user, used, paused, faults>>
\* commit_agent_decision: the advice of the decision, in a job of its own
Decide(m, verdict) ==
  /\ task[m]["fast"].state # "none" /\ task[m]["deliberate"].state \in Settled
  /\ IF task[m]["deliberate"].state \in {"none", "closed"} THEN UNCHANGED faults ELSE Fault
  /\ task' = [task EXCEPT ![m]["deliberate"] = [state |-> "queued", tries |-> 0]]
  /\ advice' = [advice EXCEPT ![m] = verdict]
  /\ UNCHANGED <<run, ledger, rangBy, user, used, paused>>

\* new content: jobs of the old revision close, and a pending arrival gets a new one
Heal(m) ==
  LET pending(k) == task[m][k].state \notin Settled
  IN /\ Fault /\ \E k \in Lanes : pending(k)
     /\ task' = [task EXCEPT
          ![m]["fast"] = IF pending("fast") THEN [state |-> "queued", tries |-> 0] ELSE @,
          ![m]["deliberate"].state = IF pending("deliberate") THEN "closed" ELSE @]
     /\ run' = [run EXCEPT ![m] = [k \in Lanes |-> [run[m][k] EXCEPT !.owns = @ /\ ~pending(k)]]]
     /\ UNCHANGED <<advice, ledger, rangBy, user, used, paused>>

Claimable(m, k) == task[m][k].state \in {"queued", "expired"}
\* agent_notification_lane: a round is claimed before any of it runs
Claim(m, k) ==
  /\ \A n \in Mail, j \in Lanes : run[n][j].at \in {"idle", "claimed"}
  /\ run[m][k].at = "idle" /\ Claimable(m, k)
  /\ task' = [task EXCEPT ![m][k] = [state |-> "leased", tries |-> IF @.tries > MaxAttempts THEN @.tries ELSE @.tries + 1]]
  /\ run' = [run EXCEPT ![m][k] = [at |-> "claimed", answer |-> "none", owns |-> TRUE]]
  /\ UNCHANGED <<advice, ledger, rangBy, user, used, paused, faults>>

\* complete_agent_job: only under a live lease of one's own
Complete(m, k) ==
  /\ run[m][k].at = "recorded"
  /\ task' = IF run[m][k].owns /\ task[m][k].state = "leased"
             THEN [task EXCEPT ![m][k].state = "done"] ELSE task
  /\ run' = [run EXCEPT ![m][k] = NoRun]
  /\ UNCHANGED <<advice, ledger, rangBy, user, used, paused, faults>>
\* retry_agent after a store call failed
Retry(m, k) ==
  /\ run[m][k].at # "idle" /\ Fault
  /\ task' = IF ~run[m][k].owns THEN task
             ELSE [task EXCEPT ![m][k].state = IF task[m][k].tries >= MaxAttempts THEN "failed" ELSE "queued"]
  /\ run' = [run EXCEPT ![m][k] = NoRun]
  /\ UNCHANGED <<advice, ledger, rangBy, user, used, paused>>

\* a lease outlives its run unless the run is held up
LeaseExpires(m, k) ==
  /\ task[m][k].state = "leased"
  /\ IF run[m][k].at # "idle" /\ run[m][k].owns THEN Fault ELSE UNCHANGED faults
  /\ task' = [task EXCEPT ![m][k].state = "expired"]
  /\ UNCHANGED <<run, advice, ledger, rangBy, user, used, paused>>
Crash ==
  /\ Fault /\ \E m \in Mail, k \in Lanes : run[m][k].at # "idle"
  /\ run' = [m \in Mail |-> [k \in Lanes |-> NoRun]] /\ paused' = FALSE
  /\ UNCHANGED <<task, advice, ledger, rangBy, user, used>>

-----------------------------------------------------------------------------
(* The two lanes *)

\* every append that did not fail is taken for a delivery
OutcomeFault(m, k) == "sent"
\* emit after append_event: what to call it when the event was not inserted
Outcome(m, k) ==
  IF rangBy[m] = "none" /\ m \notin dealt THEN "sent"
  ELSE IF rangBy[m] # "none" THEN "would_send" ELSE "suppressed"
\* emit: qualification, the append, and the answer to record
Emit(m, k, verdict) ==
  LET answer == CASE verdict = "unworthy" -> "declined"
                  [] verdict = "worthy" /\ m \in late -> IF rangBy[m] # "none" THEN "would_send" ELSE "expired"
                  [] OTHER -> Outcome(m, k)
  IN /\ Work(m, k, "answered", answer)
     /\ rangBy' = IF verdict = "worthy" /\ m \notin late \cup dealt /\ rangBy[m] = "none"
                  THEN [rangBy EXCEPT ![m] = k] ELSE rangBy

\* run and run_model up to the call: charged before it is made
StartFast(m) ==
  /\ run[m]["fast"].at = "claimed"
  /\ \/ ledger[m]["fast"] # "none" /\ Work(m, "fast", "recorded", "none") /\ UNCHANGED used
     \/ /\ ledger[m]["fast"] = "none"
        /\ IF paused \/ used >= Cap
           THEN Work(m, "fast", "answered", "unavailable") /\ UNCHANGED used
           ELSE Work(m, "fast", "asked", "none") /\ used' = used + 1
  /\ UNCHANGED <<task, advice, ledger, rangBy, user, paused, faults>>
\* the model answers, fails, or times out
AnswerFast(m) ==
  /\ run[m]["fast"].at = "asked"
  /\ \/ \E v \in {"worthy", "unworthy"} : Emit(m, "fast", v) /\ UNCHANGED <<used, paused>>
     \/ Work(m, "fast", "answered", "unavailable") /\ UNCHANGED <<rangBy, used, paused>>
     \/ /\ Work(m, "fast", "answered", "unavailable")          \* rejected at the door
        /\ used' = used - 1 /\ paused' = TRUE /\ UNCHANGED rangBy
  /\ UNCHANGED <<task, advice, ledger, user, faults>>
ResumeFast == paused /\ paused' = FALSE
              /\ UNCHANGED <<task, run, advice, ledger, rangBy, user, used, faults>>

\* the rescue stands back when the fast lane has answered
SpeaksFault(m) == ledger[m]["fast"] = "none"
\* request_assessed: the rescue does not ask what the fast lane said
Speaks(m) == TRUE
Rescue(m) ==
  /\ run[m]["deliberate"].at = "claimed"
  /\ IF Speaks(m) THEN Emit(m, "deliberate", advice[m])
     ELSE Work(m, "deliberate", "recorded", "none") /\ UNCHANGED rangBy
  /\ UNCHANGED <<task, advice, ledger, user, used, paused, faults>>

\* record_notify_decision: the first answer a lane gave is kept
Record(m, k) ==
  /\ run[m][k].at = "answered"
  /\ ledger' = IF ledger[m][k] = "none" THEN [ledger EXCEPT ![m][k] = run[m][k].answer] ELSE ledger
  /\ Work(m, k, "recorded", "none")
  /\ UNCHANGED <<task, advice, rangBy, user, used, paused, faults>>

\* the user deals with a message; its rescue window closes
DealWith(m) == m \notin dealt /\ dealt' = dealt \cup {m}
               /\ UNCHANGED <<task, run, advice, ledger, rangBy, late, used, paused, faults>>
WindowCloses(m) == m \notin late /\ late' = late \cup {m}
                   /\ UNCHANGED <<task, run, advice, ledger, rangBy, dealt, used, paused, faults>>

-----------------------------------------------------------------------------
Init ==
  /\ task = [m \in Mail |-> [k \in Lanes |-> [state |-> "none", tries |-> 0]]]
  /\ run = [m \in Mail |-> [k \in Lanes |-> NoRun]]
  /\ advice = [m \in Mail |-> "unworthy"]
  /\ ledger = [m \in Mail |-> [k \in Lanes |-> "none"]]
  /\ rangBy = [m \in Mail |-> "none"]
  /\ dealt = {} /\ late = {} /\ used = 0 /\ paused = FALSE /\ faults = 0
Running == \E m \in Mail :
  \/ StartFast(m) \/ AnswerFast(m) \/ Rescue(m) \/ \E k \in Lanes : Record(m, k) \/ Complete(m, k)
Next ==
  \/ Running \/ Crash \/ ResumeFast
  \/ \E m \in Mail : Arrive(m) \/ Heal(m) \/ DealWith(m) \/ WindowCloses(m)
                     \/ \E v \in {"worthy", "unworthy"} : Decide(m, v)
  \/ \E m \in Mail, k \in Lanes : Claim(m, k) \/ Retry(m, k) \/ LeaseExpires(m, k)
Spec == Init /\ [][Next]_vars

-----------------------------------------------------------------------------
(* The ledger never claims a notification that is not in the log, nor one that the
   other lane sent, although the event and its record are separate writes. *)
LedgerIsTrue == \A m \in Mail, k \in Lanes :
  /\ ledger[m][k] = "sent" => rangBy[m] = k
  /\ ledger[m][k] = "would_send" => rangBy[m] # "none"

(* A message the investigation finds worth a notification has had one when its job is
   done, whatever the fast lane answered or missed, unless the user was there first. *)
WorthyRings == \A m \in Mail :
  task[m]["deliberate"].state = "done" /\ advice[m] = "worthy" /\ m \notin dealt \cup late =>
    rangBy[m] # "none"

(* The two lanes of an arrival agree with each other, with the log and with the ledger. *)
LaneIsTrue == LedgerIsTrue /\ WorthyRings
=================================================================================
