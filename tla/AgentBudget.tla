------------------------------- MODULE AgentBudget ------------------------------
(***************************************************************************)
(* Daily limits on investigations (store/sqlite/agent_budget.rs), as the   *)
(* triage worker uses them (sync/triage_worker.rs).  A pass fixes its day,  *)
(* then runs its jobs side by side: each reserves one run under every      *)
(* limit that applies to it, in one transaction, and gives it back when    *)
(* the provider was never reached or refused the first call outright.      *)
(*                                                                         *)
(* A pass may outlive its day.  The process may die at any point, and a    *)
(* refund that fails is not tried again.                                   *)
(***************************************************************************)
EXTENDS Naturals, FiniteSets

CONSTANTS Jobs, MaxDay,
          Limits, Caps,   \* the keys of wake_budget, and what each allows in a day
          Kinds,          \* the limits that apply to a job of each kind
          MaxLosses       \* crashes and failed refunds

VARIABLES today,
          pass,    \* the day of the pass under way, 0 between passes
          work,    \* [at, kind]: the pass's work on each job
          used,    \* wake_budget
          ran,     \* history: runs the provider was asked for, by the day they are charged to
          losses

vars == <<today, pass, work, used, ran, losses>>

ASSUME BudgetAssumption ==
  /\ MaxDay \in Nat \ {0} /\ MaxLosses \in Nat /\ IsFiniteSet(Jobs)
  /\ Caps \in [Limits -> Nat] /\ Kinds \subseteq SUBSET Limits

Days == 1 .. MaxDay
Idle == [at |-> "idle", kind |-> {}]
Plus(counts, d, keys) == [counts EXCEPT ![d] = [k \in Limits |-> @[k] + IF k \in keys THEN 1 ELSE 0]]
Minus(counts, d, keys) ==
  [counts EXCEPT ![d] = [k \in Limits |-> IF k \in keys /\ @[k] > 0 THEN @[k] - 1 ELSE @[k]]]

-----------------------------------------------------------------------------
Midnight == today < MaxDay /\ today' = today + 1 /\ UNCHANGED <<pass, work, used, ran, losses>>

\* agent_triage_pass: the day is read once, for everything the pass will charge
Begin == pass = 0 /\ pass' = today /\ UNCHANGED <<today, work, used, ran, losses>>
End ==
  /\ pass # 0 /\ \A j \in Jobs : work[j].at = "idle"
  /\ pass' = 0 /\ UNCHANGED <<today, work, used, ran, losses>>

\* reserve: all of the limits or none
Charged(keys) ==
  IF \A k \in keys : used[pass][k] < Caps[k] THEN Plus(used, pass, keys) ELSE used
Reserve(j, keys) ==
  LET room == \A k \in keys : used[pass][k] < Caps[k]
  IN /\ pass # 0 /\ work[j].at = "idle"
     /\ used' = Charged(keys)
     /\ work' = IF room THEN [work EXCEPT ![j] = [at |-> "reserved", kind |-> keys]] ELSE work  \* deferred
     /\ UNCHANGED <<today, pass, ran, losses>>

\* run_agent: the provider takes the call
Ask(j) ==
  /\ work[j].at = "reserved"
  /\ work' = [work EXCEPT ![j].at = "asked"] /\ ran' = Plus(ran, pass, work[j].kind)
  /\ UNCHANGED <<today, pass, used, losses>>
Answered(j) ==
  /\ work[j].at = "asked" /\ work' = [work EXCEPT ![j] = Idle]
  /\ UNCHANGED <<today, pass, used, ran, losses>>

\* the day of the clock
RefundDayFault == today
\* the day that was charged
RefundDay == pass
\* the snapshot failed, nothing was sent, or the provider refused the first call
Refund(j) ==
  /\ work[j].at = "reserved" /\ work' = [work EXCEPT ![j] = Idle]
  /\ \/ used' = Minus(used, RefundDay, work[j].kind) /\ UNCHANGED losses
     \/ losses < MaxLosses /\ losses' = losses + 1 /\ UNCHANGED used
  /\ UNCHANGED <<today, pass, ran>>

Crash ==
  /\ pass # 0 /\ losses < MaxLosses
  /\ losses' = losses + Cardinality({j \in Jobs : work[j].at = "reserved"})
  /\ pass' = 0 /\ work' = [j \in Jobs |-> Idle]
  /\ UNCHANGED <<today, used, ran>>

-----------------------------------------------------------------------------
Init ==
  /\ today = 1 /\ pass = 0 /\ work = [j \in Jobs |-> Idle] /\ losses = 0
  /\ used = [d \in Days |-> [k \in Limits |-> 0]] /\ ran = used
Next ==
  \/ Midnight \/ Begin \/ End \/ Crash
  \/ \E j \in Jobs : Ask(j) \/ Answered(j) \/ Refund(j) \/ \E keys \in Kinds : Reserve(j, keys)
Spec == Init /\ [][Next]_vars

-----------------------------------------------------------------------------
Reserved(d, k) == {j \in Jobs : d = pass /\ work[j].at = "reserved" /\ k \in work[j].kind}
(* No limit is exceeded: what runs is charged to its day before the provider is asked,
   and stays charged whichever day an earlier run is given back on.  And no capacity
   leaks: a charge beyond what ran is under way, or was lost, once, to a crash or a
   failed refund. *)
LimitsAreExact == \A d \in Days, k \in Limits :
  /\ ran[d][k] + Cardinality(Reserved(d, k)) <= used[d][k]
  /\ used[d][k] <= Caps[k]
  /\ used[d][k] <= ran[d][k] + Cardinality(Reserved(d, k)) + losses
=================================================================================
