------------------------------ MODULE GroupProofs ------------------------------
(***************************************************************************)
(* What a fan-out promises its recipients and its history, for any number  *)
(* of batches and people.                                                  *)
(***************************************************************************)
EXTENDS GroupSend, TLAPS

\* A recipient still to be attempted has no copy, and one in hand is recorded.
Task(b) ==
    /\ job[b].phase = "absent" => \A p \in People : status[b][p] = "none"
    /\ job[b].phase # "settling" => job[b].who = Nobody
    /\ job[b].who \notin job[b].left
    /\ \A p \in People : Holds(b, p) => status[b][p] \in {"pending", "failed"}
    /\ \A p \in job[b].left : accepted[b][p] = 0
    /\ job[b].phase = "settling" /\ job[b].outcome = "sent"
          => accepted[b][job[b].who] > 0

\* The inductive invariant.
GroupInv ==
    /\ TypeOK
    /\ ClaimsAreTrue
    /\ OneCopyEach
    /\ PendingIsHeld
    /\ \A b \in Batches : Task(b)

--------------------------------------------------------------------------------

LEMMA InitHolds == Init => GroupInv
  BY NobodyAssumption, BoundAssumption
  DEF Init, GroupInv, TypeOK, ClaimsAreTrue, OneCopyEach, PendingIsHeld, Task, Holds,
      Audience, Statuses, Jobs, NoJob, Phases, Outcomes

\* Only the membership moves: nothing the invariant reads but its type.
LEMMA EditKeeps ==
  ASSUME GroupInv, NEW S \in SUBSET People, EditGroup(S)
  PROVE  GroupInv'
  BY DEF EditGroup, faults, GroupInv, TypeOK, ClaimsAreTrue, OneCopyEach, PendingIsHeld,
         Task, Holds, Audience, Statuses, Jobs

LEMMA RecordKeeps ==
  ASSUME GroupInv, NEW b \in Batches, Record(b)
  PROVE  GroupInv'
  <1> USE NobodyAssumption DEF GroupInv, Record, faults
  <1>1. TypeOK'
    BY DEF TypeOK, Statuses, Jobs, NoJob, Phases, Outcomes
  <1>2. ClaimsAreTrue' /\ OneCopyEach'
    BY DEF TypeOK, ClaimsAreTrue, OneCopyEach, Audience, Task
  <1>3. PendingIsHeld'
    BY DEF TypeOK, PendingIsHeld, Holds, NoJob, Running
  <1>4. \A c \in Batches : Task(c)'
    BY DEF TypeOK, Task, Holds, NoJob, OneCopyEach, Audience
  <1> QED BY <1>1, <1>2, <1>3, <1>4

LEMMA DetachKeeps ==
  ASSUME GroupInv, NEW b \in Batches, Detach(b)
  PROVE  GroupInv'
  <1> USE NobodyAssumption DEF GroupInv, Detach, faults
  <1>1. TypeOK'
    BY DEF TypeOK, Jobs, Phases
  <1>2. ClaimsAreTrue' /\ OneCopyEach'
    BY DEF ClaimsAreTrue, OneCopyEach, Audience
  <1>3. PendingIsHeld'
    BY DEF TypeOK, Jobs, PendingIsHeld, Holds, Running
  <1>4. \A c \in Batches : Task(c)'
    BY DEF TypeOK, Jobs, Task, Holds
  <1> QED BY <1>1, <1>2, <1>3, <1>4

LEMMA DropKeeps ==
  ASSUME GroupInv, NEW b \in Batches, DropRequest(b)
  PROVE  GroupInv'
  <1> USE NobodyAssumption, BoundAssumption DEF GroupInv, DropRequest, Mischief
  <1>1. TypeOK'
    BY DEF TypeOK, Jobs, NoJob, Phases, Outcomes
  <1>2. ClaimsAreTrue' /\ OneCopyEach'
    BY DEF ClaimsAreTrue, OneCopyEach, Audience
  <1>3. PendingIsHeld'
    BY DEF TypeOK, Jobs, PendingIsHeld, Task, Holds, NoJob, Running
  <1>4. \A c \in Batches : Task(c)'
    BY DEF TypeOK, Jobs, Task, Holds, NoJob
  <1> QED BY <1>1, <1>2, <1>3, <1>4

LEMMA SendKeeps ==
  ASSUME GroupInv, NEW b \in Batches, NEW p \in People,
         NEW taken \in BOOLEAN, NEW lost \in BOOLEAN, SendOne(b, p, taken, lost)
  PROVE  GroupInv'
  <1> DEFINE out == IF taken /\ ~lost THEN "sent" ELSE "failed"
             new == [job[b] EXCEPT !.left = @ \ {p}, !.phase = "settling",
                                   !.who = p, !.outcome = out]
  <1>1. /\ job[b].phase = "walking" /\ p \in job[b].left
        /\ job' = [job EXCEPT ![b] = new]
        /\ accepted' = IF taken THEN [accepted EXCEPT ![b][p] = @ + 1] ELSE accepted
        /\ UNCHANGED <<up, members, status, trouble, opens, unsaved>>
    BY DEF SendOne, Attempted, faults, GroupInv, TypeOK, Jobs
  <1>2. out \in Outcomes /\ (out = "sent" => taken)
    BY DEF Outcomes
  <1> HIDE DEF out
  <1>3. accepted[b][p] = 0
    BY <1>1 DEF GroupInv, Task
  <1> USE NobodyAssumption DEF GroupInv
  <1>4. TypeOK'
    <2>1. new \in Jobs /\ new.phase = "settling" /\ new.who = p
      <3>1. job[b] \in Jobs
        BY DEF TypeOK
      <3> QED BY <1>2, <3>1 DEF Jobs, Phases
    <2> HIDE DEF new
    <2>2. job' \in [Batches -> Jobs]
      BY <1>1, <2>1 DEF TypeOK
    <2>3. \A c \in Batches : job'[c].phase = "settling" => job'[c].who \in People
      BY <1>1, <2>1 DEF TypeOK
    <2>4. accepted' \in [Batches -> [People -> Nat]]
      BY <1>1 DEF TypeOK
    <2> QED BY <1>1, <2>2, <2>3, <2>4 DEF TypeOK
  <1>5. \A c \in Batches, q \in People :
           accepted'[c][q] = IF c = b /\ q = p /\ taken THEN 1 ELSE accepted[c][q]
    BY <1>1, <1>3 DEF TypeOK
  <1>6. ClaimsAreTrue'
    BY <1>1, <1>5 DEF TypeOK, ClaimsAreTrue
  <1>7. OneCopyEach'
    <2>1. status[b][p] # "none"
      BY <1>1 DEF Task, Holds
    <2> QED BY <1>1, <1>5, <2>1 DEF TypeOK, OneCopyEach, Audience
  <1>8. PendingIsHeld'
    BY <1>1 DEF TypeOK, Jobs, PendingIsHeld, Task, Holds, Running
  <1>9. \A c \in Batches : Task(c)'
    BY <1>1, <1>2, <1>5 DEF TypeOK, Jobs, Task, Holds
  <1> QED BY <1>4, <1>6, <1>7, <1>8, <1>9

\* Settling and a failed row write move the task on in the same way.
LEMMA NextRecipientKeeps ==
  ASSUME GroupInv, NEW b \in Batches, job[b].phase = "settling",
         job' = [job EXCEPT ![b] = NextRecipient(b)],
         UNCHANGED <<up, members, accepted>>,
         NEW r \in {"pending", "failed", job[b].outcome},
         status' = [status EXCEPT ![b][job[b].who] = r],
         r = "pending" => <<b, job[b].who>> \in unsaved',
         unsaved \subseteq unsaved', trouble' \in Nat, opens' \in Nat,
         unsaved' \in SUBSET (Batches \X People)
  PROVE  GroupInv'
  <1> USE NobodyAssumption DEF GroupInv
  <1> DEFINE who == job[b].who
             new == [job[b] EXCEPT !.phase = IF job[b].left # {} THEN "walking" ELSE "over",
                                   !.who = Nobody]
  <1>1. who \in People /\ who \notin job[b].left /\ job' = [job EXCEPT ![b] = new]
    BY DEF TypeOK, Task, NextRecipient
  <1>2. r \in Statuses /\ r # "none" /\ (r = "sent" => accepted[b][who] > 0)
    BY DEF Task, Statuses, TypeOK, Jobs, Outcomes
  <1>3. /\ new \in Jobs /\ new.who = Nobody /\ new.left = job[b].left
        /\ IF new.left # {} THEN new.phase = "walking" ELSE new.phase = "over"
    BY DEF TypeOK, Jobs, Phases
  <1> HIDE DEF new
  <1>4. TypeOK'
    <2>1. job' \in [Batches -> Jobs]
      BY <1>1, <1>3 DEF TypeOK
    <2>2. \A c \in Batches : job'[c].phase = "settling" => job'[c].who \in People
      BY <1>1, <1>3 DEF TypeOK
    <2>3. status' \in [Batches -> [People -> Statuses]]
      BY <1>1, <1>2 DEF TypeOK
    <2> QED BY <2>1, <2>2, <2>3 DEF TypeOK
  <1>5. \A c \in Batches, q \in People :
           status'[c][q] = IF c = b /\ q = who THEN r ELSE status[c][q]
    BY <1>1 DEF TypeOK
  <1>6. ClaimsAreTrue'
    BY <1>1, <1>2, <1>5 DEF ClaimsAreTrue
  <1>7. OneCopyEach'
    BY <1>1, <1>2, <1>5 DEF OneCopyEach, Audience
  <1>8. PendingIsHeld'
    <2> SUFFICES ASSUME NEW c \in Batches, NEW q \in People,
                        status'[c][q] = "pending", up', <<c, q>> \notin unsaved'
                 PROVE  (job[c].phase \in Running \cup {"recorded"} /\ Holds(c, q))'
      BY DEF PendingIsHeld
    <2>1. status[c][q] = "pending" /\ ~(c = b /\ q = who)
      BY <1>5
    <2>2. job[c].phase \in Running \cup {"recorded"} /\ Holds(c, q)
      BY <2>1 DEF PendingIsHeld
    <2>3. CASE c # b
      BY <1>1, <2>2, <2>3 DEF TypeOK, Holds
    <2>4. CASE c = b
      <3>1. q \in job[b].left
        BY <2>1, <2>2, <2>4 DEF Holds
      <3> QED BY <1>1, <1>3, <2>4, <3>1 DEF TypeOK, Holds, Running
    <2> QED BY <2>3, <2>4
  <1>9. \A c \in Batches : Task(c)'
    <2> SUFFICES ASSUME NEW c \in Batches PROVE Task(c)'
      OBVIOUS
    <2>1. CASE c # b
      <3>1. job'[c] = job[c] /\ \A q \in People : status'[c][q] = status[c][q]
        BY <1>1, <1>5, <2>1 DEF TypeOK
      <3> QED BY <3>1 DEF TypeOK, Jobs, Task, Holds
    <2>2. CASE c = b
      <3>1. job'[c] = new
        BY <1>1, <2>2 DEF TypeOK
      <3>2. \A q \in People : q \in job[b].left => status'[c][q] = status[b][q]
        BY <1>1, <1>5, <2>2
      <3>3. Nobody \notin job[b].left /\ job[b].left \subseteq People
        BY DEF TypeOK, Jobs
      <3> QED BY <1>3, <2>2, <3>1, <3>2, <3>3 DEF Task, Holds
    <2> QED BY <2>1, <2>2
  <1> QED BY <1>4, <1>6, <1>7, <1>8, <1>9

LEMMA SettleKeeps ==
  ASSUME GroupInv, NEW b \in Batches, Settle(b)
  PROVE  GroupInv'
  <1>1. job[b].outcome \in {"sent", "failed"}
    BY DEF GroupInv, TypeOK, Jobs, Outcomes
  <1> QED BY <1>1, NextRecipientKeeps
          DEF GroupInv, TypeOK, Settle, Result, faults, Statuses

LEMMA SettleFailsKeeps ==
  ASSUME GroupInv, NEW b \in Batches, SettleFails(b)
  PROVE  GroupInv'
  <1> DEFINE who == job[b].who
  <1>1. who \in People /\ status[b][who] \in {"pending", "failed"}
    BY DEF GroupInv, TypeOK, SettleFails, Task, Holds
  <1>2. status' = [status EXCEPT ![b][who] = status[b][who]]
    BY <1>1 DEF SettleFails, GroupInv, TypeOK
  <1>3. /\ trouble' \in Nat /\ opens' \in Nat
        /\ unsaved' \in SUBSET (Batches \X People)
        /\ unsaved \subseteq unsaved' /\ <<b, who>> \in unsaved'
    BY <1>1, BoundAssumption DEF SettleFails, Mischief, GroupInv, TypeOK
  <1> QED BY <1>1, <1>2, <1>3, NextRecipientKeeps DEF SettleFails, Statuses

LEMMA CrashKeeps ==
  ASSUME GroupInv, Crash
  PROVE  GroupInv'
  <1> USE NobodyAssumption, BoundAssumption DEF GroupInv, Crash, Mischief
  <1>1. TypeOK'
    <2> DEFINE dead == [NoJob EXCEPT !.phase = "lost"]
    <2>1. dead \in Jobs /\ dead.phase # "settling"
      BY DEF Jobs, NoJob, Phases, Outcomes
    <2>2. job' = [c \in Batches |-> IF job[c].phase \in {"absent", "over"} THEN job[c]
                                     ELSE dead]
      OBVIOUS
    <2> HIDE DEF dead
    <2>3. job' \in [Batches -> Jobs]
      <3> HIDE DEF Crash
      <3> QED BY <2>1, <2>2 DEF TypeOK
    <2>4. \A c \in Batches : job'[c].phase = "settling" => job'[c].who \in People
      BY <2>1, <2>2 DEF TypeOK
    <2>5. /\ up' = FALSE /\ trouble' \in Nat
          /\ UNCHANGED <<members, status, accepted, opens, unsaved>>
      BY DEF TypeOK
    <2> HIDE DEF Crash
    <2> QED BY <2>3, <2>4, <2>5 DEF TypeOK
  <1>2. ClaimsAreTrue' /\ OneCopyEach' /\ PendingIsHeld'
    BY DEF ClaimsAreTrue, OneCopyEach, Audience, PendingIsHeld
  <1>3. \A c \in Batches : Task(c)'
    BY DEF TypeOK, Jobs, Task, Holds, NoJob
  <1> QED BY <1>1, <1>2, <1>3

\* Failing what is pending disturbs no claim and no copy.
LEMMA OpenStoreKeeps ==
  ASSUME GroupInv, OpenStore, UNCHANGED <<members, job, accepted, trouble, unsaved>>,
         opens' \in Nat, up' \in BOOLEAN
  PROVE  GroupInv'
  <1> USE DEF GroupInv
  <1>1. \A c \in Batches, q \in People :
           /\ status'[c][q] # "pending"
           /\ status'[c][q] = "sent" => status[c][q] = "sent"
           /\ status'[c][q] = "none" <=> status[c][q] = "none"
           /\ status[c][q] = "failed" => status'[c][q] = "failed"
           /\ status[c][q] = "pending" => status'[c][q] = "failed"
    BY DEF OpenStore, Recovered
  <1>2. TypeOK'
    BY DEF OpenStore, Recovered, TypeOK, Statuses
  <1>3. ClaimsAreTrue' /\ OneCopyEach' /\ PendingIsHeld'
    BY <1>1 DEF ClaimsAreTrue, OneCopyEach, Audience, PendingIsHeld
  <1>4. \A c \in Batches : Task(c)'
    BY <1>1 DEF Task, Holds
  <1> QED BY <1>2, <1>3, <1>4

LEMMA StepHolds == GroupInv /\ [Next]_vars => GroupInv'
  <1> SUFFICES ASSUME GroupInv, [Next]_vars PROVE GroupInv'
    OBVIOUS
  <1>1. ASSUME NEW S \in SUBSET People, EditGroup(S) PROVE GroupInv'
    BY <1>1, EditKeeps
  <1>2. ASSUME NEW b \in Batches, Record(b) PROVE GroupInv'
    BY <1>2, RecordKeeps
  <1>3. ASSUME NEW b \in Batches, DropRequest(b) PROVE GroupInv'
    BY <1>3, DropKeeps
  <1>4. ASSUME NEW b \in Batches, SettleFails(b) PROVE GroupInv'
    BY <1>4, SettleFailsKeeps
  <1>5. ASSUME NEW b \in Batches, TaskStep(b) PROVE GroupInv'
    BY <1>5, DetachKeeps, SendKeeps, SettleKeeps DEF TaskStep
  <1>6. CASE Crash
    BY <1>6, CrashKeeps
  <1>7. CASE Restart
    BY <1>7, OpenStoreKeeps DEF Restart, faults, GroupInv, TypeOK
  <1>8. CASE OpenElsewhere
    <2>1. opens' \in Nat /\ up' \in BOOLEAN
      BY <1>8, BoundAssumption DEF OpenElsewhere, GroupInv, TypeOK
    <2> QED BY <1>8, <2>1, OpenStoreKeeps DEF OpenElsewhere
  <1>9. CASE UNCHANGED vars
    BY <1>9 DEF vars, faults, GroupInv, TypeOK, ClaimsAreTrue, OneCopyEach, PendingIsHeld,
                Task, Holds, Audience
  <1> QED BY <1>1, <1>2, <1>3, <1>4, <1>5, <1>6, <1>7, <1>8, <1>9 DEF Next

LEMMA GroupInvariant == Spec => []GroupInv
  BY InitHolds, StepHolds, PTL DEF Spec

--------------------------------------------------------------------------------

\* The history of a group never claims a delivery that did not happen,
\* whatever crashes and whoever opens the store meanwhile.
THEOREM HistoryIsHonest == Spec => []ClaimsAreTrue
  <1>1. GroupInv => ClaimsAreTrue
    BY DEF GroupInv
  <1> QED BY <1>1, GroupInvariant, PTL

\* No recipient is written to twice, and nobody who was not in the group when
\* the batch was recorded is written to at all.
THEOREM EachOnce == Spec => []OneCopyEach
  <1>1. GroupInv => OneCopyEach
    BY DEF GroupInv
  <1> QED BY <1>1, GroupInvariant, PTL

\* Every pending row is accounted for.
THEOREM NothingLeftBehind == Spec => []PendingIsHeld
  <1>1. GroupInv => PendingIsHeld
    BY DEF GroupInv
  <1> QED BY <1>1, GroupInvariant, PTL

\* A recipient once recorded as reached stays reached.
THEOREM ReachedForGood == Spec => ReachedStays
  <1> DEFINE Keeps == \A b \in Batches, p \in People :
                         status[b][p] = "sent" => status'[b][p] = "sent"
  <1>1. GroupInv /\ [Next]_vars => Keeps
    <2> SUFFICES ASSUME GroupInv, [Next]_vars,
                        NEW b \in Batches, NEW p \in People, status[b][p] = "sent"
                 PROVE  status'[b][p] = "sent"
      OBVIOUS
    <2>1. CASE UNCHANGED status
      BY <2>1
    <2>2. CASE OpenStore
      BY <2>2 DEF OpenStore, Recovered
    <2>3. ASSUME NEW c \in Batches, Record(c) PROVE status'[b][p] = "sent"
      BY <2>3 DEF Record, GroupInv, TypeOK, Task
    <2>4. ASSUME NEW c \in Batches, Settle(c) PROVE status'[b][p] = "sent"
      BY <2>4 DEF Settle, Result, GroupInv, TypeOK, Task, Holds
    <2> QED
      BY <2>1, <2>2, <2>3, <2>4
      DEF Next, vars, faults, EditGroup, DropRequest, SettleFails, TaskStep, Detach,
          SendOne, Crash, Restart, OpenElsewhere
  <1>2. Keeps => [Keeps]_vars
    OBVIOUS
  <1> QED BY <1>1, <1>2, GroupInvariant, PTL DEF Spec, ReachedStays
================================================================================
