-------------------------------- MODULE GroupSend ------------------------------
(***************************************************************************)
(* The fan-out of squelch-api (group_send.rs) over the group_sends tables  *)
(* (store/sqlite/groups.rs): one composition sent to every member of a     *)
(* group as a message of its own, by a detached task that settles one      *)
(* recipient row after another, and the crash recovery that every opening  *)
(* of the store runs (store/sqlite/migrate.rs).                            *)
(*                                                                         *)
(* What is abstracted.  A batch is one fan-out; its rows are written in    *)
(* one transaction and walked in any order.  The echo of a sent message    *)
(* is SyncCursor's and changes no row here.  run() cannot find its write   *)
(* credential gone, because the route holds the same one.                  *)
(***************************************************************************)
EXTENDS Naturals, FiniteSets

CONSTANTS
    Batches,     \* bound: the fan-outs ever started
    People,      \* addresses that can be in the group
    Nobody,      \* no recipient in hand
    MaxTrouble,  \* bound: crashes, dropped requests, failed row writes
    MaxOpens     \* bound: times another process opens the store

ASSUME NobodyAssumption == Nobody \notin People
ASSUME BoundAssumption  == MaxTrouble \in Nat /\ MaxOpens \in Nat

VARIABLES
    up,         \* the daemon serves
    members,    \* group_members, as it is now
    status,     \* group_send_recipients.status; "none": no row
    job,        \* the task of every batch
    accepted,   \* Gmail: messages of a batch accepted for a recipient
    trouble,    \* faults so far
    opens,      \* openings by another process so far
    unsaved     \* history: rows whose outcome nobody will write

faults == <<trouble, opens, unsaved>>
vars   == <<up, members, status, job, accepted, faults>>

Statuses == {"none", "pending", "sent", "failed"}
Outcomes == {"sent", "failed"}
Phases   == {"absent", "recorded", "walking", "settling", "over", "lost"}
Running  == {"walking", "settling"}

Jobs  == [phase : Phases, left : SUBSET People, who : People \cup {Nobody},
          outcome : Outcomes]
NoJob == [phase |-> "absent", left |-> {}, who |-> Nobody, outcome |-> "failed"]

TypeOK ==
    /\ up \in BOOLEAN
    /\ members \in SUBSET People
    /\ status \in [Batches -> [People -> Statuses]]
    /\ job \in [Batches -> Jobs]
    /\ \A b \in Batches : job[b].phase = "settling" => job[b].who \in People
    /\ accepted \in [Batches -> [People -> Nat]]
    /\ trouble \in Nat /\ opens \in Nat
    /\ unsaved \in SUBSET (Batches \X People)

Init ==
    /\ up = TRUE
    /\ members \in SUBSET People
    /\ status = [b \in Batches |-> [p \in People |-> "none"]]
    /\ job = [b \in Batches |-> NoJob]
    /\ accepted = [b \in Batches |-> [p \in People |-> 0]]
    /\ trouble = 0 /\ opens = 0 /\ unsaved = {}

Mischief == trouble < MaxTrouble /\ trouble' = trouble + 1

Audience(b)   == {p \in People : status[b][p] # "none"}
Holds(b, p)   == p \in job[b].left \/ p = job[b].who

--------------------------------------------------------------------------------
(* The groups page and the send route *)

\* update_send_group() replaces the membership; deleting the group empties it.
EditGroup(S) ==
    /\ up
    /\ members' = S
    /\ UNCHANGED <<up, status, job, accepted, faults>>

\* resolve() and record_group_send(): the audience is recorded as pending.
Record(b) ==
    /\ up /\ job[b].phase = "absent" /\ members # {}
    /\ status' = [status EXCEPT ![b] =
                    [p \in People |-> IF p \in members THEN "pending" ELSE "none"]]
    /\ job' = [job EXCEPT ![b] = [NoJob EXCEPT !.phase = "recorded", !.left = members]]
    /\ UNCHANGED <<up, members, accepted, faults>>

\* The audit write is awaited, then start() detaches the task.
Detach(b) ==
    /\ job[b].phase = "recorded"
    /\ job' = [job EXCEPT ![b].phase = "walking"]
    /\ UNCHANGED <<up, members, status, accepted, faults>>

\* The client hangs up during that await, and its request is dropped.
DropRequest(b) ==
    /\ job[b].phase = "recorded"
    /\ Mischief
    /\ job' = [job EXCEPT ![b] = [NoJob EXCEPT !.phase = "lost"]]
    /\ unsaved' = unsaved \cup ({b} \X job[b].left)
    /\ UNCHANGED <<up, members, status, accepted, opens>>

--------------------------------------------------------------------------------
(* The detached task *)

\* Fault: an answer lost on the way is sent again.
AttemptedFault(b, p, lost) == [job[b] EXCEPT !.left = IF lost THEN @ ELSE @ \ {p}]

\* run() walks the snapshot, never the group, and attempts each member once.
Attempted(b, p, lost) == [job[b] EXCEPT !.left = @ \ {p}]

\* send_one(): Gmail accepts the message or refuses it, or it accepts it and
\* the answer is lost, which reads as a refusal.
SendOne(b, p, taken, lost) ==
    /\ job[b].phase = "walking" /\ p \in job[b].left
    /\ lost => taken
    /\ accepted' = IF taken THEN [accepted EXCEPT ![b][p] = @ + 1] ELSE accepted
    /\ job' = [job EXCEPT ![b] =
                 [Attempted(b, p, lost) EXCEPT
                    !.phase = "settling", !.who = p,
                    !.outcome = IF taken /\ ~lost THEN "sent" ELSE "failed"]]
    /\ UNCHANGED <<up, members, status, faults>>

\* Fault: one refused recipient ends the batch.
NextRecipientFault(b) ==
    [job[b] EXCEPT !.phase = IF job[b].left # {} /\ job[b].outcome = "sent"
                               THEN "walking" ELSE "over",
                   !.who = Nobody]

\* No early return: the walk ends when the whole list has been attempted.
NextRecipient(b) ==
    [job[b] EXCEPT !.phase = IF job[b].left # {} THEN "walking" ELSE "over",
                   !.who = Nobody]

\* Fault: the outcome goes to every row of the recipient.
ResultFault(b, p, outcome) ==
    [c \in Batches |-> IF status[c][p] = "none" THEN status[c]
                       ELSE [status[c] EXCEPT ![p] = outcome]]

\* set_group_send_result(): the row of this batch, whatever it says now.
Result(b, p, outcome) == [status EXCEPT ![b][p] = outcome]

Settle(b) ==
    /\ job[b].phase = "settling"
    /\ status' = Result(b, job[b].who, job[b].outcome)
    /\ job' = [job EXCEPT ![b] = NextRecipient(b)]
    /\ UNCHANGED <<up, members, accepted, faults>>

\* The row write fails; it is logged, and the walk goes on.
SettleFails(b) ==
    /\ job[b].phase = "settling"
    /\ Mischief
    /\ unsaved' = unsaved \cup {<<b, job[b].who>>}
    /\ job' = [job EXCEPT ![b] = NextRecipient(b)]
    /\ UNCHANGED <<up, members, status, accepted, opens>>

--------------------------------------------------------------------------------
(* Processes *)

\* Fault: nothing is recovered.
NotRecovered(row) == row

\* migrate(): whatever is pending when the store opens failed.
Recovered(row) == IF row = "pending" THEN "failed" ELSE row

OpenStore ==
    status' = [b \in Batches |-> [p \in People |-> Recovered(status[b][p])]]

\* No task survives the process.
Crash ==
    /\ up /\ Mischief
    /\ up' = FALSE
    /\ job' = [b \in Batches |-> IF job[b].phase \in {"absent", "over"} THEN job[b]
                                 ELSE [NoJob EXCEPT !.phase = "lost"]]
    /\ UNCHANGED <<members, status, accepted, opens, unsaved>>

Restart ==
    /\ ~up /\ up' = TRUE
    /\ OpenStore
    /\ UNCHANGED <<members, job, accepted, faults>>

\* `squelchd token issue`, `pair`, the MCP server or the TUI opens the file.
OpenElsewhere ==
    /\ opens < MaxOpens /\ opens' = opens + 1
    /\ OpenStore
    /\ UNCHANGED <<up, members, job, accepted, trouble, unsaved>>

--------------------------------------------------------------------------------

TaskStep(b) ==
    \/ Detach(b)
    \/ \E p \in People, taken \in BOOLEAN, lost \in BOOLEAN : SendOne(b, p, taken, lost)
    \/ Settle(b)

Next ==
    \/ \E S \in SUBSET People : EditGroup(S)
    \/ \E b \in Batches : Record(b) \/ DropRequest(b) \/ SettleFails(b) \/ TaskStep(b)
    \/ Crash \/ Restart \/ OpenElsewhere

Spec == Init /\ [][Next]_vars

\* A spawned task is polled until it ends, every call in it has a timeout, and
\* the service manager restarts a dead daemon.
FairSpec == /\ Spec /\ WF_vars(Restart)
            /\ \A b \in Batches : WF_vars(TaskStep(b))

--------------------------------------------------------------------------------
(* Properties *)

\* A recipient recorded as reached was reached: after no crash, recovery or
\* interleaving of two batches does the history claim mail that did not go.
ClaimsAreTrue ==
    \A b \in Batches, p \in People : status[b][p] = "sent" => accepted[b][p] > 0

\* Nobody gets a composition twice, and nobody outside the recorded audience
\* gets it, however the group is edited and whatever the process survives.
OneCopyEach ==
    \A b \in Batches, p \in People :
        /\ accepted[b][p] <= 1
        /\ accepted[b][p] > 0 => p \in Audience(b)

\* A pending row has a task that will come to it, or its daemon is down, or
\* its outcome could not be written.
PendingIsHeld ==
    \A b \in Batches, p \in People :
        status[b][p] = "pending"
            => \/ ~up \/ <<b, p>> \in unsaved
               \/ job[b].phase \in Running \cup {"recorded"} /\ Holds(b, p)

\* Once reached, always reached: no recovery rewrites a settled history.
ReachedStays ==
    [][\A b \in Batches, p \in People :
          status[b][p] = "sent" => status'[b][p] = "sent"]_vars

\* Every recipient is settled one way or the other, even after others fail.
FanOutsSettle ==
    \A b \in Batches, p \in People :
        status[b][p] = "pending" ~> status[b][p] # "pending" \/ <<b, p>> \in unsaved
================================================================================
