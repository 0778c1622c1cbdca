----------------------------- MODULE CarrierPoller -----------------------------
(***************************************************************************)
(* Parcels and the task that asks their carriers about them                *)
(* (src/squelch-core/src/carriers/poller.rs), beside the decisions that    *)
(* write, correct and retract the same rows                                *)
(* (src/squelch-core/src/store/sqlite/agent_deliveries.rs `reconcile`).    *)
(* A pass reads its queues once and may spend minutes on them, and an      *)
(* answer is written to the row id it was read with.  Durations are only   *)
(* told apart where the code compares them: a window of a call budget is   *)
(* counted in ticks; intervals and cooldowns end some day.                 *)
(***************************************************************************)
EXTENDS Integers, Sequences, FiniteSets, SequencesExt, TLC

CONSTANTS Numbers,     \* tracking numbers
          Legacy,      \* those whose row the projection does not own
          Poison,      \* those whose answer never parses
          Carriers, Budgeted, Limit, Window,
          Tolerance,   \* TRANSIENT_TOLERANCE
          MaxFailures,
          Statuses,    \* the ones mail and carriers speak of
          MaxId,       \* ids of shipments
          MaxMail,     \* decisions about parcels
          MaxTrouble   \* refusals, failed writes and restarts

VARIABLES row,      \* the shipments table, a function of the ids in use
          line,     \* ids by last_polled_at, oldest first; a row never polled is not in it
          resting,  \* ids polled less than their own interval ago
          queue,    \* the rows a pass has still to ask about, as it read them
          call,     \* the request under way
          spent,    \* the ages of a carrier's remembered calls, oldest first
          streak,   \* transient answers since the carrier last answered
          cooling,  \* carriers on cooldown
          asked,    \* history: the ages of this process's calls to a budgeted carrier, of the last window
          mails, trouble

vars == <<row, line, resting, queue, call, spent, streak, cooling, asked, mails, trouble>>
pacing == <<spent, streak, cooling, asked>>
table == <<row, line, resting>>

NoCall == [carrier |-> "none", id |-> 0, number |-> 0]
Empty == [c \in Carriers |-> <<>>]

Entry(i) == [id |-> i, number |-> row[i].number]
FirstRow(n, c, s) == [number |-> n, carrier |-> c, managed |-> n \notin Legacy, status |-> s,
                      said |-> FALSE, failures |-> 0]

-----------------------------------------------------------------------------
(* Statuses. *)
Rank == ("ordered" :> 0) @@ ("shipped" :> 1) @@ ("out_for_delivery" :> 2) @@ ("delivered" :> 3)

\* what mail does to a status it may not walk back
Merge(old, new) ==
  IF "delivered" \in {old, new} THEN "delivered"
  ELSE IF new = "exception" THEN new
  ELSE IF old = "exception" THEN (IF new = "out_for_delivery" THEN new ELSE old)
  ELSE IF Rank[new] > Rank[old] THEN new ELSE old

\* the carrier's word replaces, but a delivery is final
ReconcileCarrier(old, new) == IF old = "delivered" \/ new = "unmapped" THEN old ELSE new

-----------------------------------------------------------------------------
(* Decisions of the triage about one tracking number. *)
Rows(n) == {i \in DOMAIN row : row[i].number = n}

\* a carrier's word, once there is one, outranks every mail
MailedStatusFault(r, s) == IF r.managed THEN s ELSE Merge(r.status, s)
MailedStatus(r, s) ==
  IF r.said THEN r.status ELSE IF r.managed THEN s ELSE Merge(r.status, s)

\* `newer`: the mail is newer than what the row last showed
RecordNewerMail(r, c, s, newer) ==
  IF r.managed \/ newer
  THEN [r EXCEPT !.carrier = c, !.status = MailedStatus(r, s), !.failures = IF newer THEN 0 ELSE @]
  ELSE r

\* the rowid of a plain INTEGER PRIMARY KEY: one above the largest in use
NextId == 1 + CHOOSE i \in 0 .. MaxId : /\ i \in DOMAIN row \cup {0}
                                        /\ \A j \in DOMAIN row : j <= i

Reconcile(n, c, s, newer) ==
  /\ mails < MaxMail /\ mails' = mails + 1
  /\ \/ \E i \in Rows(n) : row' = [row EXCEPT ![i] = RecordNewerMail(@, c, s, newer)]
     \/ /\ Rows(n) = {} /\ NextId <= MaxId
        /\ row' = [i \in DOMAIN row \cup {NextId} |-> IF i = NextId THEN FirstRow(n, c, s) ELSE row[i]]
  /\ UNCHANGED <<line, resting, queue, call, pacing, trouble>>

\* the last proposal is gone: an owned row goes with it
Retract(n) ==
  /\ mails < MaxMail /\ mails' = mails + 1
  /\ \E i \in Rows(n) :
       /\ row[i].managed
       /\ row' = [j \in DOMAIN row \ {i} |-> row[j]]
       /\ line' = Remove(line, i) /\ resting' = resting \ {i}
  /\ UNCHANGED <<queue, call, pacing, trouble>>

-----------------------------------------------------------------------------
(* Pacing of a carrier. *)
ExpireFault(s) == IF s # <<>> /\ Head(s) >= Window THEN <<>> ELSE s
\* from the front, as far as the first that is still inside the window
Expire(s) ==
  LET inside == {k \in DOMAIN s : s[k] < Window}
      front == CHOOSE k \in inside \cup {Len(s) + 1} : \A j \in inside : k <= j
  IN SubSeq(s, front, Len(s))

Gated(c) == c \in cooling \/ (c \in Budgeted /\ Len(Expire(spent[c])) >= Limit)

Spend(c) ==
  IF c \notin Budgeted THEN UNCHANGED <<spent, asked>>
  ELSE /\ spent' = [spent EXCEPT ![c] = Append(Expire(@), 0)]
       /\ asked' = [asked EXCEPT ![c] = Append(@, 0)]

-----------------------------------------------------------------------------
(* A pass. *)
Pollable(i) == row[i].status # "delivered" /\ row[i].failures < MaxFailures

\* never polled first, then the one polled longest ago
Rotation == SetToSortSeq(DOMAIN row \ ToSet(line), <) \o line
DueRows(c) == SelectSeq(Rotation, LAMBDA i : row[i].carrier = c /\ Pollable(i) /\ i \notin resting)

Pass ==
  /\ call = NoCall /\ queue = Empty
  /\ queue' = [c \in Carriers |-> [k \in 1 .. Len(DueRows(c)) |-> Entry(DueRows(c)[k])]]
  /\ UNCHANGED <<table, call, pacing, mails, trouble>>

\* `next_up` takes the carrier that may go soonest: here any that may go
Open == {c \in Carriers : queue[c] # <<>> /\ ~Gated(c)}
PassEnds ==
  /\ call = NoCall /\ Open = {} /\ queue' = Empty
  /\ UNCHANGED <<table, call, pacing, mails, trouble>>

Ask(c) ==
  /\ call = NoCall /\ c \in Open
  /\ queue' = [queue EXCEPT ![c] = Tail(@)]
  /\ call' = Head(queue[c]) @@ [carrier |-> c]
  /\ Spend(c)
  /\ UNCHANGED <<table, streak, cooling, mails, trouble>>

\* an answer about a row stamps it, if it is still there; a write may fail
Stamped(i, r) == /\ row' = [row EXCEPT ![i] = r]
                 /\ line' = Append(Remove(line, i), i) /\ resting' = resting \cup {i}
Stamp(r) ==
  \/ call.id \in DOMAIN row /\ Stamped(call.id, r) /\ UNCHANGED trouble
  \/ call.id \notin DOMAIN row /\ UNCHANGED <<table, trouble>>
  \/ trouble < MaxTrouble /\ trouble' = trouble + 1 /\ UNCHANGED table
Asked == IF call.id \in DOMAIN row THEN row[call.id] ELSE FirstRow(0, "none", "shipped")

Ends == call' = NoCall /\ UNCHANGED <<queue, spent, asked, mails>>
Answered == /\ call # NoCall /\ call.number \notin Poison
            /\ streak' = [streak EXCEPT ![call.carrier] = 0] /\ UNCHANGED cooling
Cools == cooling' = cooling \cup {call.carrier}

Track(s) ==
  /\ Answered /\ Ends
  /\ Stamp([Asked EXCEPT !.status = ReconcileCarrier(@, s), !.said = TRUE, !.failures = 0])
\* counts against the row once it is older than NOT_FOUND_GRACE_HOURS
NotFound ==
  /\ Answered /\ Ends
  /\ \E counts \in {0, 1} : Stamp([Asked EXCEPT !.failures = @ + counts])

\* a run of them is about the carrier, one is about the row
Strikes ==
  IF streak[call.carrier] + 1 < Tolerance
  THEN streak' = [streak EXCEPT ![call.carrier] = @ + 1] /\ UNCHANGED cooling
  ELSE streak' = [streak EXCEPT ![call.carrier] = 0] /\ Cools
TransientFault == call # NoCall /\ Ends /\ Strikes /\ UNCHANGED <<table, trouble>>
Transient == call # NoCall /\ Ends /\ Strikes /\ Stamp(Asked)

\* a 429, or a key the carrier rejects: the row was not asked about
Refused ==
  /\ call # NoCall /\ Ends /\ Cools
  /\ trouble < MaxTrouble /\ trouble' = trouble + 1
  /\ UNCHANGED <<table, streak>>

Answer == Transient \/ NotFound \/ Refused \/ \E s \in Statuses \cup {"unmapped"} : Track(s)

-----------------------------------------------------------------------------
(* Time, and the process. *)
Older(s) == [k \in DOMAIN s |-> IF s[k] < Window THEN s[k] + 1 ELSE s[k]]
\* a call leaves the history when it leaves the window
LastWindow(ages) == SubSeq(ages, 1 + Cardinality({k \in DOMAIN ages : ages[k] >= Window}), Len(ages))
Tick ==
  /\ spent' = [c \in Carriers |-> Older(spent[c])]
  /\ asked' = [c \in Carriers |-> LastWindow(Older(asked[c]))]
  /\ UNCHANGED <<table, queue, call, streak, cooling, mails, trouble>>
Reopens(c) == /\ c \in cooling /\ cooling' = cooling \ {c}
              /\ UNCHANGED <<table, queue, call, spent, streak, asked, mails, trouble>>
Due(i) == /\ i \in resting /\ resting' = resting \ {i}
          /\ UNCHANGED <<row, line, queue, call, pacing, mails, trouble>>

\* all pacing is in memory
NoStreak == [c \in Carriers |-> 0]
Restart == /\ trouble < MaxTrouble /\ trouble' = trouble + 1
           /\ queue' = Empty /\ call' = NoCall /\ cooling' = {}
           /\ spent' = Empty /\ asked' = Empty /\ streak' = NoStreak
           /\ UNCHANGED <<table, mails>>

Init == /\ \E size \in 0 .. MaxId, carrier \in [Numbers -> Carriers] :
             \E number \in [1 .. size -> Numbers] :
               /\ \A i, j \in 1 .. size : i < j => number[i] < number[j]
               /\ Legacy \subseteq {number[i] : i \in 1 .. size}
               /\ row = [i \in 1 .. size |-> FirstRow(number[i], carrier[number[i]], "shipped")]
        /\ line = <<>> /\ resting = {} /\ mails = 0 /\ trouble = 0
        /\ queue = Empty /\ call = NoCall /\ cooling = {}
        /\ spent = Empty /\ asked = Empty /\ streak = NoStreak

Work == Pass \/ PassEnds \/ Answer \/ \E c \in Carriers : Ask(c)
Next == \/ Work \/ Tick \/ Restart
        \/ \E c \in Carriers : Reopens(c)
        \/ \E i \in 1 .. MaxId : Due(i)
        \/ \E n \in Numbers : \/ Retract(n)
                              \/ \E c \in Carriers, s \in Statuses, newer \in BOOLEAN :
                                   Reconcile(n, c, s, newer)
Spec == Init /\ [][Next]_vars

(* The task loops for ever, every request ends, and time passes. *)
Fairness == /\ WF_vars(Work) /\ WF_vars(Tick)
            /\ \A c \in Carriers : WF_vars(Reopens(c))
            /\ \A i \in 1 .. MaxId : WF_vars(Due(i))
FairSpec == Spec /\ Fairness
-----------------------------------------------------------------------------

(* "At most `limit` calls in ANY `window`-long stretch": of one process, whatever
   was asked, refused or found out, and however the calls lie over the window. *)
BudgetRolls == \A c \in Budgeted : Len(asked[c]) <= Limit

(* A parcel a carrier has spoken about and that is delivered stays delivered,
   whether a late mail is decided after it or an answer that was under way before
   it arrives, until its row is retracted. *)
DeliveredStands ==
  [][\A i \in DOMAIN row \cap DOMAIN row' :
       row[i].said /\ row[i].status = "delivered" => row'[i].status = "delivered"]_vars

(* Every parcel that may be polled is asked about again and again, although others
   at its carrier never get an answer that parses ("ONE such row can starve every
   other parcel behind it"). *)
NobodyStarves ==
  \A n \in Numbers : []<>(call.number = n \/ \A i \in Rows(n) : ~Pollable(i))
================================================================================
