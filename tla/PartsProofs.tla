------------------------------- MODULE PartsProofs ------------------------------
(***************************************************************************)
(* What holds of each of the small protocols for any values of the         *)
(* constants: an inductive invariant per protocol, and the property the    *)
(* runs of Parts check.  A step of the whole is a step of one protocol and *)
(* leaves the variables of the others alone, so each argument looks at its *)
(* own protocol only.                                                      *)
(***************************************************************************)
EXTENDS Parts, FiniteSetTheorems, WellFoundedInduction, SequenceTheorems, TLAPS

-----------------------------------------------------------------------------
(* Least and greatest members. *)

\* A set of naturals has a least member.
LEMMA HasLeast ==
  ASSUME NEW T \in SUBSET Nat, T # {}
  PROVE  \E m \in T : \A j \in T : m <= j
<1>1. PICK m \in T : \A j \in T : ~(<<j, m>> \in OpToRel(<, Nat))
  BY NatLessThanWellFounded, WFMin
<1>2. \A j \in T : ~(j < m)
  BY <1>1 DEF OpToRel
<1> QED BY <1>2

\* A bounded one has a greatest.
LEMMA HasGreatest ==
  ASSUME NEW n \in Nat, NEW T \in SUBSET (0 .. n), T # {}
  PROVE  \E m \in T : \A j \in T : j <= m
<1> DEFINE Depths == {n - i : i \in T}
<1>1. Depths \in SUBSET Nat /\ Depths # {}
  <2>1. \A i \in T : n - i \in Nat OBVIOUS
  <2>2. PICK i \in T : TRUE OBVIOUS
  <2>3. n - i \in Depths BY <2>2
  <2> QED BY <2>1, <2>3
<1>2. PICK d \in Depths : \A e \in Depths : d <= e
  BY <1>1, HasLeast
<1>3. PICK m \in T : d = n - m
  BY <1>2
<1>4. ASSUME NEW j \in T PROVE j <= m
  <2>1. n - m <= n - j BY <1>2, <1>3
  <2> QED BY <2>1
<1> QED BY <1>4

-----------------------------------------------------------------------------
(* The daily limits *)

Counts == [Days -> [Limits -> Nat]]
Phases == {"idle", "reserved", "asked"}
TypeOK ==
  /\ pass \in Days \cup {0} /\ today \in Days /\ losses \in Nat
  /\ work \in [Jobs -> [at : Phases, kind : SUBSET Limits]]
  /\ used \in Counts /\ ran \in Counts

\* between passes nothing is reserved: what a crash or the end of a pass leaves
RestsBetween == pass = 0 => \A j \in Jobs : work[j].at = "idle"

\* inductive: a pass that begins adopts no reservation of an earlier one
BudgetInv == TypeOK /\ RestsBetween /\ LimitsAreExact

-----------------------------------------------------------------------------
(* How the counters change. *)

\* one more under each of some limits of one day, the rest as it was
LEMMA PlusCounts ==
  ASSUME NEW c \in Counts, NEW d \in Days, NEW keys \in SUBSET Limits
  PROVE  /\ Plus(c, d, keys) \in Counts
         /\ \A e \in Days, k \in Limits :
              Plus(c, d, keys)[e][k] = IF e = d /\ k \in keys THEN c[e][k] + 1 ELSE c[e][k]
<1>1. \A k \in Limits : c[d][k] \in Nat BY DEF Counts
<1>2. [k \in Limits |-> c[d][k] + IF k \in keys THEN 1 ELSE 0] \in [Limits -> Nat]
  BY <1>1
<1> QED BY <1>1, <1>2 DEF Plus, Counts

\* one less, where there is one
LEMMA MinusCounts ==
  ASSUME NEW c \in Counts, NEW d \in Days, NEW keys \in SUBSET Limits
  PROVE  /\ Minus(c, d, keys) \in Counts
         /\ \A e \in Days, k \in Limits :
              Minus(c, d, keys)[e][k] = IF e = d /\ k \in keys /\ c[e][k] > 0
                                        THEN c[e][k] - 1 ELSE c[e][k]
<1>1. \A k \in Limits : c[d][k] \in Nat BY DEF Counts
<1>2. [k \in Limits |-> IF k \in keys /\ c[d][k] > 0 THEN c[d][k] - 1 ELSE c[d][k]] \in [Limits -> Nat]
  BY <1>1
<1> QED BY <1>1, <1>2 DEF Minus, Counts

\* the jobs under way are counted by a natural number, none of them outside a pass
LEMMA ReservedCounts ==
  ASSUME NEW d, NEW k
  PROVE  IsFiniteSet(Reserved(d, k)) /\ Cardinality(Reserved(d, k)) \in Nat
<1>1. Reserved(d, k) \in SUBSET Jobs BY DEF Reserved
<1> QED BY BudgetAssumption, <1>1, FS_Subset, FS_CardinalityType

\* a job that stops being reserved leaves the sets it was in, and no other job moves
LEMMA ReservedShrinks ==
  ASSUME NEW j \in Jobs, NEW w, TypeOK, work[j].at = "reserved",
         w.at # "reserved", work' = [work EXCEPT ![j] = w], pass' = pass,
         NEW d \in Days, NEW k \in Limits
  PROVE  /\ Cardinality(Reserved(d, k)') \in Nat /\ Cardinality(Reserved(d, k)) \in Nat
         /\ Cardinality(Reserved(d, k)') = IF d = pass /\ k \in work[j].kind
                                           THEN Cardinality(Reserved(d, k)) - 1
                                           ELSE Cardinality(Reserved(d, k))
<1>1. Reserved(d, k)' = Reserved(d, k) \ {j}
  BY DEF Reserved, TypeOK
<1>2. j \in Reserved(d, k) <=> d = pass /\ k \in work[j].kind
  BY DEF Reserved
<1>3. IsFiniteSet(Reserved(d, k)) /\ Cardinality(Reserved(d, k)) \in Nat BY ReservedCounts
<1>4. IsFiniteSet(Reserved(d, k) \ {j}) /\ Cardinality(Reserved(d, k) \ {j}) \in Nat
  BY <1>3, FS_RemoveElement, FS_CardinalityType
<1> QED BY <1>1, <1>2, <1>3, <1>4, FS_RemoveElement

-----------------------------------------------------------------------------
(* The steps. *)

\* Nothing is counted before the first pass.
LEMMA BudgetStarts == Init => BudgetInv
<1> SUFFICES ASSUME Init PROVE BudgetInv
  OBVIOUS
<1>1. TypeOK
  BY BudgetAssumption DEF Init, TypeOK, Idle, Phases, Counts, Days
<1>2. RestsBetween BY DEF Init, RestsBetween, Idle
<1>3. \A d \in Days, k \in Limits : Cardinality(Reserved(d, k)) = 0
  <2>1. \A d \in Days, k \in Limits : Reserved(d, k) = {}
    BY DEF Init, Reserved, Idle
  <2> QED BY <2>1, FS_EmptySet
<1>4. LimitsAreExact
  <2>1. ASSUME NEW d \in Days, NEW k \in Limits
        PROVE  used[d][k] = 0 /\ ran[d][k] = 0 /\ losses = 0 /\ Caps[k] \in Nat
    BY BudgetAssumption DEF Init
  <2> QED BY <2>1, <1>3 DEF LimitsAreExact
<1> QED BY <1>1, <1>2, <1>4 DEF BudgetInv

\* all of the limits, or none
LEMMA ReserveExact ==
  ASSUME BudgetInv, NEW j \in Jobs, NEW keys \in Kinds, Reserve(j, keys)
  PROVE  BudgetInv'
<1> DEFINE room == \A k \in keys : used[pass][k] < Caps[k]
<1>1. keys \in SUBSET Limits /\ pass \in Days
  BY BudgetAssumption DEF BudgetInv, TypeOK, Reserve
<1>2. CASE ~room
  <2>1. UNCHANGED <<pass, work, used, ran, losses, today>> BY <1>2 DEF Reserve, Charged
  <2> QED BY <2>1 DEF BudgetInv, TypeOK, RestsBetween, LimitsAreExact, Reserved
<1>3. CASE room
  <2>1. used' = Plus(used, pass, keys) /\ work[j].at = "idle"
        /\ work' = [work EXCEPT ![j] = [at |-> "reserved", kind |-> keys]]
        /\ UNCHANGED <<today, pass, ran, losses>>
    BY <1>3 DEF Reserve, Charged
  <2>2. TypeOK'
    BY <1>1, <2>1, PlusCounts DEF BudgetInv, TypeOK, Phases
  <2>3. RestsBetween' BY <2>1, <1>1 DEF RestsBetween, Days
  <2>4. ASSUME NEW d \in Days, NEW k \in Limits
        PROVE  /\ Cardinality(Reserved(d, k)) \in Nat
               /\ Cardinality(Reserved(d, k)') = IF d = pass /\ k \in keys
                                                 THEN Cardinality(Reserved(d, k)) + 1
                                                 ELSE Cardinality(Reserved(d, k))
    <3>1. j \notin Reserved(d, k) BY <2>1 DEF Reserved
    <3>2. Reserved(d, k)' = IF d = pass /\ k \in keys THEN Reserved(d, k) \cup {j} ELSE Reserved(d, k)
      BY <2>1 DEF Reserved, BudgetInv, TypeOK
    <3>3. IsFiniteSet(Reserved(d, k)) /\ Cardinality(Reserved(d, k)) \in Nat BY ReservedCounts
    <3>4. Cardinality(Reserved(d, k) \cup {j}) = Cardinality(Reserved(d, k)) + 1
      BY <3>1, <3>3, FS_AddElement
    <3> QED BY <3>2, <3>3, <3>4
  <2>5. LimitsAreExact'
    <3> SUFFICES ASSUME NEW d \in Days, NEW k \in Limits
        PROVE  /\ ran'[d][k] + Cardinality(Reserved(d, k)') <= used'[d][k]
               /\ used'[d][k] <= Caps[k]
               /\ used'[d][k] <= ran'[d][k] + Cardinality(Reserved(d, k)') + losses'
      BY DEF LimitsAreExact, Reserved
    <3>1. used'[d][k] = IF d = pass /\ k \in keys THEN used[d][k] + 1 ELSE used[d][k]
      BY <2>1, <1>1, PlusCounts DEF BudgetInv, TypeOK
    <3>2. /\ used[d][k] \in Nat /\ ran[d][k] \in Nat /\ losses \in Nat /\ Caps[k] \in Nat
          /\ ran'[d][k] = ran[d][k] /\ losses' = losses
      BY BudgetAssumption, <2>1 DEF BudgetInv, TypeOK, Counts
    <3>3. d = pass /\ k \in keys => used[d][k] < Caps[k] BY <1>3
    <3>4. /\ ran[d][k] + Cardinality(Reserved(d, k)) <= used[d][k] /\ used[d][k] <= Caps[k]
          /\ used[d][k] <= ran[d][k] + Cardinality(Reserved(d, k)) + losses
      BY DEF BudgetInv, LimitsAreExact
    <3> QED BY <3>1, <3>2, <3>3, <3>4, <2>4
  <2> QED BY <2>2, <2>3, <2>5 DEF BudgetInv
<1> QED BY <1>2, <1>3

\* a reservation becomes a run under the limits it was charged to
LEMMA AskExact ==
  ASSUME BudgetInv, NEW j \in Jobs, Ask(j)
  PROVE  BudgetInv'
<1> DEFINE keys == work[j].kind
           charged == [work[j] EXCEPT !.at = "asked"]
<1>1. /\ work[j].at = "reserved" /\ ran' = Plus(ran, pass, keys)
      /\ work' = [work EXCEPT ![j] = charged]
      /\ UNCHANGED <<today, pass, used, losses>>
  BY DEF Ask
<1>2a. charged \in [at : Phases, kind : SUBSET Limits] /\ charged.at # "reserved"
  BY DEF BudgetInv, TypeOK, Phases
<1>2. keys \in SUBSET Limits /\ pass \in Days
  BY <1>1 DEF BudgetInv, TypeOK, RestsBetween
<1>3. TypeOK'
  <2>1. ran' \in Counts BY <1>1, <1>2, PlusCounts DEF BudgetInv, TypeOK
  <2>2. work' \in [Jobs -> [at : Phases, kind : SUBSET Limits]] BY <1>1, <1>2a DEF BudgetInv, TypeOK
  <2> HIDE DEF charged
  <2> QED BY <1>1, <2>1, <2>2 DEF BudgetInv, TypeOK
<1>4. RestsBetween' BY <1>1, <1>2 DEF RestsBetween, Days
<1>5. LimitsAreExact'
  <2> SUFFICES ASSUME NEW d \in Days, NEW k \in Limits
      PROVE  /\ ran'[d][k] + Cardinality(Reserved(d, k)') <= used'[d][k]
             /\ used'[d][k] <= Caps[k]
             /\ used'[d][k] <= ran'[d][k] + Cardinality(Reserved(d, k)') + losses'
    BY DEF LimitsAreExact, Reserved
  <2>1. ran'[d][k] = IF d = pass /\ k \in keys THEN ran[d][k] + 1 ELSE ran[d][k]
    BY <1>1, <1>2, PlusCounts DEF BudgetInv, TypeOK
  <2>2. /\ used[d][k] \in Nat /\ ran[d][k] \in Nat /\ losses \in Nat /\ Caps[k] \in Nat
        /\ used' = used /\ losses' = losses
    BY BudgetAssumption, <1>1 DEF BudgetInv, TypeOK, Counts
  <2>3. /\ ran[d][k] + Cardinality(Reserved(d, k)) <= used[d][k] /\ used[d][k] <= Caps[k]
        /\ used[d][k] <= ran[d][k] + Cardinality(Reserved(d, k)) + losses
    BY DEF BudgetInv, LimitsAreExact
  <2>4. /\ Cardinality(Reserved(d, k)') \in Nat /\ Cardinality(Reserved(d, k)) \in Nat
        /\ Cardinality(Reserved(d, k)') = IF d = pass /\ k \in keys
                                          THEN Cardinality(Reserved(d, k)) - 1
                                          ELSE Cardinality(Reserved(d, k))
    <3> HIDE DEF charged
    <3> QED BY <1>1, <1>2a, ReservedShrinks DEF BudgetInv
  <2> QED BY <2>1, <2>2, <2>3, <2>4
<1> QED BY <1>3, <1>4, <1>5 DEF BudgetInv

\* a reservation given back to its own day, or lost
LEMMA RefundExact ==
  ASSUME BudgetInv, NEW j \in Jobs, Refund(j)
  PROVE  BudgetInv'
<1> DEFINE keys == work[j].kind
<1>1. /\ work[j].at = "reserved" /\ work' = [work EXCEPT ![j] = Idle]
      /\ UNCHANGED <<today, pass, ran>>
      /\ \/ used' = Minus(used, pass, keys) /\ losses' = losses
         \/ losses' = losses + 1 /\ used' = used
  BY DEF Refund, RefundDay
<1>2. keys \in SUBSET Limits /\ pass \in Days
  BY <1>1 DEF BudgetInv, TypeOK, RestsBetween
<1>3. TypeOK'
  <2>1. used' \in Counts /\ losses' \in Nat BY <1>1, <1>2, MinusCounts DEF BudgetInv, TypeOK
  <2> QED BY <1>1, <1>2, <2>1 DEF BudgetInv, TypeOK, Phases, Idle
<1>4. RestsBetween' BY <1>1, <1>2 DEF RestsBetween, Days
<1>5. LimitsAreExact'
  <2> SUFFICES ASSUME NEW d \in Days, NEW k \in Limits
      PROVE  /\ ran'[d][k] + Cardinality(Reserved(d, k)') <= used'[d][k]
             /\ used'[d][k] <= Caps[k]
             /\ used'[d][k] <= ran'[d][k] + Cardinality(Reserved(d, k)') + losses'
    BY DEF LimitsAreExact, Reserved
  <2>1. \/ /\ used'[d][k] = IF d = pass /\ k \in keys /\ used[d][k] > 0
                            THEN used[d][k] - 1 ELSE used[d][k]
           /\ losses' = losses
        \/ used'[d][k] = used[d][k] /\ losses' = losses + 1
    BY <1>1, <1>2, MinusCounts DEF BudgetInv, TypeOK
  <2>2. /\ used[d][k] \in Nat /\ ran[d][k] \in Nat /\ losses \in Nat /\ Caps[k] \in Nat
        /\ ran' = ran
    BY BudgetAssumption, <1>1 DEF BudgetInv, TypeOK, Counts
  <2>3. /\ ran[d][k] + Cardinality(Reserved(d, k)) <= used[d][k] /\ used[d][k] <= Caps[k]
        /\ used[d][k] <= ran[d][k] + Cardinality(Reserved(d, k)) + losses
    BY DEF BudgetInv, LimitsAreExact
  <2>4. /\ Cardinality(Reserved(d, k)') \in Nat /\ Cardinality(Reserved(d, k)) \in Nat
        /\ Cardinality(Reserved(d, k)') = IF d = pass /\ k \in keys
                                          THEN Cardinality(Reserved(d, k)) - 1
                                          ELSE Cardinality(Reserved(d, k))
    BY <1>1, ReservedShrinks DEF BudgetInv, Idle
  <2> QED BY <2>1, <2>2, <2>3, <2>4
<1> QED BY <1>3, <1>4, <1>5 DEF BudgetInv

\* the end of a pass leaves nothing reserved; the start finds nothing
LEMMA PassExact ==
  ASSUME BudgetInv, Begin \/ End \/ Midnight
  PROVE  BudgetInv'
<1>1. TypeOK'
  <2>1. pass' \in Days \cup {0} BY DEF BudgetInv, TypeOK, Begin, End, Midnight
  <2>2. today' \in Days
    <3>1. CASE Midnight BY BudgetAssumption, <3>1 DEF BudgetInv, TypeOK, Midnight, Days
    <3>2. CASE Begin \/ End BY <3>2 DEF BudgetInv, TypeOK, Begin, End
    <3> QED BY <3>1, <3>2
  <2>3. UNCHANGED <<work, used, ran, losses>> BY DEF Begin, End, Midnight
  <2> QED BY <2>1, <2>2, <2>3 DEF BudgetInv, TypeOK
<1>2. RestsBetween' BY DEF BudgetInv, RestsBetween, Begin, End, Midnight, TypeOK, Days
<1>3. \A d \in Days, k \in Limits : Reserved(d, k)' = Reserved(d, k)
  <2>1. CASE Midnight BY <2>1 DEF Midnight, Reserved
  <2>2. CASE Begin \/ End
    <3>1. work' = work /\ \A j \in Jobs : work[j].at = "idle"
      BY <2>2 DEF Begin, End, BudgetInv, RestsBetween
    <3> QED BY <3>1 DEF Reserved
  <2> QED BY <2>1, <2>2
<1>4. UNCHANGED <<used, ran, losses>> BY DEF Begin, End, Midnight
<1>5. LimitsAreExact' BY <1>3, <1>4 DEF BudgetInv, LimitsAreExact
<1> QED BY <1>1, <1>2, <1>5 DEF BudgetInv

\* what a crash loses is counted: every reservation, whatever its limits
LEMMA CrashExact ==
  ASSUME BudgetInv, Crash
  PROVE  BudgetInv'
<1> DEFINE lostJobs == {j \in Jobs : work[j].at = "reserved"}
<1>1. IsFiniteSet(lostJobs) /\ Cardinality(lostJobs) \in Nat
  <2>1. lostJobs \in SUBSET Jobs OBVIOUS
  <2> QED BY BudgetAssumption, <2>1, FS_Subset, FS_CardinalityType
<1>2. /\ losses' = losses + Cardinality(lostJobs) /\ pass' = 0
      /\ work' = [j \in Jobs |-> Idle] /\ UNCHANGED <<today, used, ran>>
  BY DEF Crash
<1>3. TypeOK' BY <1>1, <1>2 DEF BudgetInv, TypeOK, Phases, Idle
<1>4. RestsBetween' BY <1>2 DEF RestsBetween, Idle
<1>5. LimitsAreExact'
  <2> SUFFICES ASSUME NEW d \in Days, NEW k \in Limits
      PROVE  /\ ran'[d][k] + Cardinality(Reserved(d, k)') <= used'[d][k]
             /\ used'[d][k] <= Caps[k]
             /\ used'[d][k] <= ran'[d][k] + Cardinality(Reserved(d, k)') + losses'
    BY DEF LimitsAreExact, Reserved
  <2>1. Cardinality(Reserved(d, k)') = 0
    <3>1. Reserved(d, k)' = {} BY <1>2 DEF Reserved, Idle
    <3> QED BY <3>1, FS_EmptySet
  <2>2. /\ Cardinality(Reserved(d, k)) \in Nat
        /\ Cardinality(Reserved(d, k)) <= Cardinality(lostJobs)
    <3>1. Reserved(d, k) \in SUBSET lostJobs BY DEF Reserved
    <3>2. Cardinality(Reserved(d, k)) <= Cardinality(lostJobs) BY <3>1, <1>1, FS_Subset
    <3> QED BY <3>2, ReservedCounts
  <2>3. /\ used[d][k] \in Nat /\ ran[d][k] \in Nat /\ losses \in Nat /\ Caps[k] \in Nat
        /\ used' = used /\ ran' = ran
    BY BudgetAssumption, <1>2 DEF BudgetInv, TypeOK, Counts
  <2>4. /\ ran[d][k] + Cardinality(Reserved(d, k)) <= used[d][k] /\ used[d][k] <= Caps[k]
        /\ used[d][k] <= ran[d][k] + Cardinality(Reserved(d, k)) + losses
    BY DEF BudgetInv, LimitsAreExact
  <2> QED BY <1>1, <1>2, <2>1, <2>2, <2>3, <2>4
<1> QED BY <1>3, <1>4, <1>5 DEF BudgetInv

\* An answered run was counted when it was asked for.
LEMMA AnsweredExact ==
  ASSUME BudgetInv, NEW j \in Jobs, Answered(j)
  PROVE  BudgetInv'
<1>1. /\ work[j].at = "asked" /\ work' = [work EXCEPT ![j] = Idle]
      /\ UNCHANGED <<today, pass, used, ran, losses>>
  BY DEF Answered
<1>2. TypeOK' BY <1>1 DEF BudgetInv, TypeOK, Phases, Idle
<1>3. RestsBetween' BY <1>1 DEF BudgetInv, RestsBetween, TypeOK, Idle
<1>4. \A d \in Days, k \in Limits : Reserved(d, k)' = Reserved(d, k)
  BY <1>1 DEF Reserved, BudgetInv, TypeOK, Idle
<1>5. LimitsAreExact' BY <1>1, <1>4 DEF BudgetInv, LimitsAreExact
<1> QED BY <1>2, <1>3, <1>5 DEF BudgetInv

\* Every step of the budget keeps the counters exact.
LEMMA BudgetSteps == BudgetInv /\ [Next]_vars => BudgetInv'
<1> SUFFICES ASSUME BudgetInv, [Next]_vars PROVE BudgetInv'
  OBVIOUS
<1>1. CASE Begin \/ End \/ Midnight BY <1>1, PassExact
<1>2. CASE Crash BY <1>2, CrashExact
<1>3. ASSUME NEW j \in Jobs, Ask(j) PROVE BudgetInv' BY <1>3, AskExact
<1>4. ASSUME NEW j \in Jobs, Answered(j) PROVE BudgetInv' BY <1>4, AnsweredExact
<1>5. ASSUME NEW j \in Jobs, Refund(j) PROVE BudgetInv' BY <1>5, RefundExact
<1>6. ASSUME NEW j \in Jobs, NEW keys \in Kinds, Reserve(j, keys) PROVE BudgetInv'
  BY <1>6, ReserveExact
<1>7. CASE UNCHANGED vars
  BY <1>7 DEF vars, BudgetInv, TypeOK, RestsBetween, LimitsAreExact, Reserved
<1> QED BY <1>1, <1>2, <1>3, <1>4, <1>5, <1>6, <1>7 DEF Next

\* A run of all the parts is, for the budget, a run of the budget.
LEMMA BudgetRuns == (PartsInit => Init) /\ ([PartsNext]_partsVars => [Next]_vars)
<1>1. PartsInit => Init
  BY DEF PartsInit
<1>2. PartsNext => Next \/ UNCHANGED vars
  BY DEF PartsNext, BesideReconnect, BesideBroker, BesideOpens, BesideLane,
         BesidePush, BesideStream, BesideCarriers, BesideHeal
<1> QED BY <1>1, <1>2 DEF partsVars

(* No daily limit of the investigations is exceeded and no capacity leaks, whichever
   jobs run side by side, across midnights, refunds and crashes (agent_budget.rs). *)
THEOREM BudgetHolds == PartsSpec => []LimitsAreExact
<1>1. PartsInit => BudgetInv BY BudgetRuns, BudgetStarts
<1>2. BudgetInv /\ [PartsNext]_partsVars => BudgetInv' BY BudgetRuns, BudgetSteps
<1>3. BudgetInv => LimitsAreExact BY DEF BudgetInv
<1> QED BY <1>1, <1>2, <1>3, PTL DEF PartsSpec

-----------------------------------------------------------------------------
(* The broker *)

\* A run of all the parts is, for the broker, a run of the broker.
LEMMA BrokerRuns == /\ PartsInit => B!Init
                    /\ [PartsNext]_partsVars => [B!Next]_(B!vars)
<1>1. PartsInit => B!Init
  BY DEF PartsInit
<1>2. PartsNext => B!Next \/ UNCHANGED brokerVars
  BY DEF PartsNext, BesideReconnect, BesideOpens, BesideBudget, BesideLane,
         BesidePush, BesideStream, BesideCarriers, BesideHeal
<1> QED BY <1>1, <1>2 DEF partsVars, brokerVars, B!vars

Answers == Handovers \cup {"unknown", "pending", "none", "cut"}
Gets == Handovers \cup {"nothing"}
Moved == [Flows -> [at : {"new", "polling", "asking", "told", "failed", "done"},
                    answer : Answers, got : Gets]]
BrokerTypes ==
  /\ session \in [Flows -> [at : {"none", "live"}, parked : Gets]]
  /\ flow \in Moved
  /\ shown \in [Flows -> SUBSET Handovers] /\ handed \in [Flows -> Nat]
\* What a session, its flow and its person agree on.  An outcome leaves the table with its
\* session, and a flow has one session in its life.
Agreed(s, w, told, times) ==
  /\ w.at = "new" => s.at = "none" /\ told = {} /\ times = 0
  /\ s.at = "none" => s.parked = "nothing"
  /\ s.at = "live" => /\ times = 0 /\ w.got = "nothing" /\ w.answer \notin Handovers
                      /\ told = IF s.parked = "nothing" THEN {} ELSE {s.parked}
  /\ w.answer \in Handovers => told = {w.answer}
  /\ w.got # "nothing" => told = {w.got}
  /\ times <= 1
BrokerInv == BrokerTypes /\ \A f \in Flows : Agreed(session[f], flow[f], shown[f], handed[f])

\* An outcome is none of the words the broker uses of its own.
LEMMA OutcomesAreNone == {"unknown", "pending", "nothing", "none", "cut"} \cap Handovers = {}
BY PartsAssumption

\* The broker starts with nothing to hand over.
LEMMA BrokerStarts == B!Init => BrokerInv
BY OutcomesAreNone DEF B!Init, B!NoSession, BrokerInv, BrokerTypes, Moved, Agreed, Answers, Gets

\* A flow that moves on, and one that also learns something, is still a flow.
LEMMA StillFlows ==
  ASSUME flow \in Moved, NEW f \in Flows,
         NEW at \in {"new", "polling", "asking", "told", "failed", "done"},
         NEW a \in Answers, NEW got \in Gets
  PROVE  /\ [flow EXCEPT ![f].at = at] \in Moved
         /\ [flow EXCEPT ![f].at = at, ![f].answer = a] \in Moved
         /\ [flow EXCEPT ![f].at = at, ![f].got = got] \in Moved
BY DEF Moved

\* Losing a session breaks nothing.
LEMMA AgreedWithout ==
  ASSUME NEW s, NEW w, NEW told, NEW times, Agreed(s, w, told, times)
  PROVE  Agreed(B!NoSession, w, told, times)
BY DEF Agreed, B!NoSession

\* An action of one flow, beside which sessions at most end.
LEMMA OneFlow ==
  ASSUME BrokerInv, NEW f \in Flows, BrokerTypes',
         \A g \in Flows \ {f} : /\ session'[g] \in {session[g], B!NoSession}
                                /\ flow'[g] = flow[g] /\ shown'[g] = shown[g] /\ handed'[g] = handed[g],
         Agreed(session'[f], flow'[f], shown'[f], handed'[f])
  PROVE  BrokerInv'
<1>1. ASSUME NEW g \in Flows PROVE Agreed(session'[g], flow'[g], shown'[g], handed'[g])
  <2>1. CASE g = f BY <2>1
  <2>2. CASE g # f
    <3>1. Agreed(session[g], flow[g], shown[g], handed[g]) BY DEF BrokerInv
    <3> QED BY <2>2, <3>1, AgreedWithout
  <2> QED BY <2>1, <2>2
<1> QED BY <1>1 DEF BrokerInv

\* A registration opens a session nobody has been told of.
LEMMA RegisterAgrees == ASSUME BrokerInv, NEW f \in Flows, B!Register(f) PROVE BrokerInv'
<1>1. /\ flow[f].at = "new" /\ UNCHANGED <<shown, handed>>
      /\ \/ session' = [B!Purged EXCEPT ![f].at = "live"] /\ flow' = [flow EXCEPT ![f].at = "polling"]
         \/ session' = B!Purged /\ flow' = [flow EXCEPT ![f].at = "failed"]
  BY DEF B!Register, B!Moves, B!person
<1>2. /\ B!Purged \in [Flows -> [at : {"none", "live"}, parked : Gets]]
      /\ \A g \in Flows : B!Purged[g] \in {session[g], B!NoSession}
  BY DEF B!Purged, BrokerInv, BrokerTypes, Moved, B!NoSession, Gets
<1>3. B!Purged[f].parked = "nothing" /\ B!Purged[f].at = "none"
  <2>1. session[f].parked = "nothing" /\ session[f].at = "none"
    BY <1>1 DEF BrokerInv, Agreed
  <2> QED BY <1>2, <2>1 DEF B!NoSession
<1>4. BrokerTypes'
  <2>1. session' \in [Flows -> [at : {"none", "live"}, parked : Gets]]
    <3>1. CASE session' = B!Purged BY <1>2, <3>1
    <3>2. CASE session' = [B!Purged EXCEPT ![f].at = "live"]
      <4>1. PICK p : p = B!Purged OBVIOUS
      <4>2. p \in [Flows -> [at : {"none", "live"}, parked : Gets]] BY <1>2, <4>1
      <4>3. session' = [p EXCEPT ![f].at = "live"] BY <3>2, <4>1
      <4> QED BY ONLY <4>2, <4>3
    <3> QED BY <1>1, <3>1, <3>2
  <2>2. flow' \in Moved
    <3>1. flow \in Moved /\ "none" \in Answers /\ "nothing" \in Gets
      BY DEF BrokerInv, BrokerTypes, Answers, Gets
    <3> QED BY <1>1, <3>1, StillFlows
  <2> QED BY <1>1, <2>1, <2>2 DEF BrokerInv, BrokerTypes, Moved
<1>5. \A g \in Flows \ {f} : /\ session'[g] \in {session[g], B!NoSession}
                             /\ flow'[g] = flow[g] /\ shown'[g] = shown[g] /\ handed'[g] = handed[g]
  BY <1>1, <1>2 DEF BrokerInv, BrokerTypes, Moved
<1>6. Agreed(session'[f], flow'[f], shown'[f], handed'[f])
  <2>1. /\ session'[f].parked = "nothing" /\ session'[f].at \in {"none", "live"}
        /\ flow'[f].at # "new" /\ flow'[f].answer = flow[f].answer /\ flow'[f].got = flow[f].got
    BY <1>1, <1>2, <1>3 DEF BrokerInv, BrokerTypes, Moved
  <2>2. Agreed(session[f], flow[f], shown[f], handed[f]) BY DEF BrokerInv
  <2> QED BY <1>1, <2>1, <2>2 DEF Agreed
<1> QED BY <1>4, <1>5, <1>6, OneFlow

\* A callback leaves one outcome, and tells it to its person.
LEMMA CallbackAgrees ==
  ASSUME BrokerInv, NEW f \in Flows, NEW o \in Handovers, B!Callback(f, o) PROVE BrokerInv'
<1>1. CASE B!Takes(f)
  <2>1. /\ session[f].at = "live" /\ session[f].parked = "nothing"
        /\ session' = [session EXCEPT ![f].parked = o] /\ shown' = [shown EXCEPT ![f] = @ \cup {o}]
        /\ UNCHANGED <<flow, handed>>
    BY <1>1 DEF B!Callback, B!Takes, B!Alive
  <2>2. o # "nothing" BY OutcomesAreNone
  <2>3. BrokerTypes' BY <2>1 DEF BrokerInv, BrokerTypes, Moved, Gets
  <2>4. /\ session'[f].at = "live" /\ session'[f].parked = o /\ shown'[f] = shown[f] \cup {o}
    BY <2>1 DEF BrokerInv, BrokerTypes, Moved
  <2>5. Agreed(session[f], flow[f], shown[f], handed[f]) BY DEF BrokerInv
  <2>6. Agreed(session'[f], flow'[f], shown'[f], handed'[f])
    BY <2>1, <2>2, <2>4, <2>5 DEF Agreed
  <2>7. \A g \in Flows \ {f} : session'[g] = session[g] /\ shown'[g] = shown[g]
    BY <2>1 DEF BrokerInv, BrokerTypes, Moved
  <2> QED BY <2>1, <2>3, <2>6, <2>7, OneFlow
<1>2. CASE ~B!Takes(f)
  <2>1. /\ session' = [session EXCEPT ![f] = IF B!Alive(f) THEN @ ELSE B!NoSession]
        /\ UNCHANGED <<flow, shown, handed>>
    BY <1>2 DEF B!Callback
  <2>2. BrokerTypes' BY <2>1 DEF BrokerInv, BrokerTypes, Moved, B!NoSession, Gets
  <2>3. \A g \in Flows : session'[g] \in {session[g], B!NoSession}
    BY <2>1 DEF BrokerInv, BrokerTypes, Moved
  <2>4. Agreed(session'[f], flow'[f], shown'[f], handed'[f])
    BY <2>1, <2>3, AgreedWithout DEF BrokerInv
  <2> QED BY <2>1, <2>2, <2>3, <2>4, OneFlow
<1> QED BY <1>1, <1>2

\* A claim, whoever hears its answer: an outcome goes with its session.
LEMMA ClaimHands ==
  ASSUME BrokerInv, NEW f \in Flows, session' = B!AfterClaim(f), B!Hands(f), shown' = shown
  PROVE  LET a == B!ClaimAnswer(f) IN
         /\ session' \in [Flows -> [at : {"none", "live"}, parked : Gets]]
         /\ handed' \in [Flows -> Nat] /\ a \in Answers
         /\ \A g \in Flows \ {f} : session'[g] = session[g] /\ handed'[g] = handed[g]
         /\ Agreed(session'[f], flow[f], shown'[f], handed'[f])
         /\ session'[f].at = "live" => a \notin Handovers
         /\ a \in Handovers => shown[f] = {a} /\ flow[f].got = "nothing" /\ flow[f].answer \notin Handovers
<1>1. /\ session' = [session EXCEPT ![f] = IF B!Alive(f) /\ session[f].parked = "nothing" THEN @ ELSE B!NoSession]
      /\ handed' = IF B!ClaimAnswer(f) \in Handovers THEN [handed EXCEPT ![f] = @ + 1] ELSE handed
  BY DEF B!AfterClaim, B!Hands
<1>2. Agreed(session[f], flow[f], shown[f], handed[f]) BY DEF BrokerInv
<1>3. session[f] \in [at : {"none", "live"}, parked : Gets] BY DEF BrokerInv, BrokerTypes, Moved
<1>4. CASE B!Alive(f) /\ session[f].parked # "nothing"
  <2>1. session[f].at = "live" /\ B!ClaimAnswer(f) = session[f].parked /\ session[f].parked \in Handovers
    BY <1>3, <1>4 DEF B!ClaimAnswer, B!Alive, Gets
  <2>2. session' = [session EXCEPT ![f] = B!NoSession] /\ handed' = [handed EXCEPT ![f] = @ + 1]
    BY <1>1, <1>4, <2>1
  <2>3. /\ session' \in [Flows -> [at : {"none", "live"}, parked : Gets]] /\ handed' \in [Flows -> Nat]
        /\ session'[f] = B!NoSession /\ handed'[f] = handed[f] + 1
        /\ \A g \in Flows \ {f} : session'[g] = session[g] /\ handed'[g] = handed[g]
    BY <2>2 DEF BrokerInv, BrokerTypes, Moved, B!NoSession, Gets
  <2> QED BY <1>2, <1>4, <2>1, <2>3, OutcomesAreNone DEF Agreed, B!NoSession, Answers
<1>5. CASE ~(B!Alive(f) /\ session[f].parked # "nothing")
  <2>1. B!ClaimAnswer(f) \in {"unknown", "pending"} /\ B!ClaimAnswer(f) \notin Handovers
    BY <1>5, OutcomesAreNone DEF B!ClaimAnswer
  <2>2. handed' = handed /\ session'[f] \in {session[f], B!NoSession}
        /\ session' \in [Flows -> [at : {"none", "live"}, parked : Gets]]
        /\ \A g \in Flows \ {f} : session'[g] = session[g]
    BY <1>1, <2>1 DEF BrokerInv, BrokerTypes, Moved, B!NoSession, Gets
  <2>3. Agreed(session'[f], flow[f], shown'[f], handed'[f])
    BY <1>2, <2>2, AgreedWithout
  <2> QED BY <2>1, <2>2, <2>3 DEF Answers, BrokerInv, BrokerTypes, Moved
<1> QED BY <1>4, <1>5

\* A claim takes the outcome away from the broker.
LEMMA ClaimAgrees == ASSUME BrokerInv, NEW f \in Flows, B!Claim(f) \/ B!LateClaim(f) PROVE BrokerInv'
<1>1. PICK a : a = B!ClaimAnswer(f) OBVIOUS
<1>2. session' = B!AfterClaim(f) /\ B!Hands(f) /\ shown' = shown
  BY DEF B!Claim, B!LateClaim, B!person
<1>3. /\ session' \in [Flows -> [at : {"none", "live"}, parked : Gets]]
      /\ handed' \in [Flows -> Nat] /\ a \in Answers
      /\ \A g \in Flows \ {f} : session'[g] = session[g] /\ handed'[g] = handed[g]
      /\ Agreed(session'[f], flow[f], shown'[f], handed'[f])
      /\ session'[f].at = "live" => a \notin Handovers
      /\ a \in Handovers => shown[f] = {a} /\ flow[f].got = "nothing" /\ flow[f].answer \notin Handovers
  BY <1>1, <1>2, ClaimHands
<1>4. CASE B!LateClaim(f)
  <2>1. flow' = flow BY <1>4 DEF B!LateClaim
  <2> QED BY <1>2, <1>3, <2>1, OneFlow DEF BrokerInv, BrokerTypes, Moved
<1>5. CASE B!Claim(f)
  <2>1. flow[f].at = "asking" /\ flow' = [flow EXCEPT ![f].at = "told", ![f].answer = a]
    BY <1>1, <1>5 DEF B!Claim
  <2>2. BrokerTypes'
    <3>1. flow \in Moved /\ "nothing" \in Gets BY DEF BrokerInv, BrokerTypes, Gets
    <3>2. flow' \in Moved BY <1>3, <2>1, <3>1, StillFlows
    <3> QED BY <1>2, <1>3, <3>2 DEF BrokerInv, BrokerTypes
  <2>3. /\ flow'[f].at = "told" /\ flow'[f].answer = a /\ flow'[f].got = flow[f].got
        /\ \A g \in Flows \ {f} : flow'[g] = flow[g]
    BY <2>1 DEF BrokerInv, BrokerTypes, Moved
  <2>4. Agreed(session'[f], flow'[f], shown'[f], handed'[f])
    BY <1>2, <1>3, <2>3 DEF Agreed
  <2> QED BY <1>2, <1>3, <2>2, <2>3, <2>4, OneFlow
<1> QED BY <1>4, <1>5

\* An answer reaches the daemon that claimed.
LEMMA ReceiveAgrees == ASSUME BrokerInv, NEW f \in Flows, B!Receive(f) PROVE BrokerInv'
<1> DEFINE answer == flow[f].answer
<1>1. PICK at \in {"polling", "failed", "done"} :
        flow' = [flow EXCEPT ![f].at = at, ![f].got = IF answer \in Handovers THEN answer ELSE "nothing"]
  <2>1. \E at \in {"polling", "failed", "done"} :
          at = CASE answer = "pending" -> "polling" [] answer \in {"unknown", "denied"} -> "failed"
                 [] OTHER -> "done"
    OBVIOUS
  <2> QED BY <2>1 DEF B!Receive
<1>2. flow[f].at = "told" /\ UNCHANGED <<session, shown, handed>>
  BY DEF B!Receive, B!person
<1>3. BrokerTypes'
  <2>1. /\ flow \in Moved /\ "none" \in Answers
        /\ (IF answer \in Handovers THEN answer ELSE "nothing") \in Gets
    BY DEF BrokerInv, BrokerTypes, Answers, Gets
  <2>2. flow' \in Moved BY <1>1, <2>1, StillFlows
  <2> QED BY <1>2, <2>2 DEF BrokerInv, BrokerTypes
<1>4. /\ flow'[f].at # "new" /\ flow'[f].answer = flow[f].answer
      /\ flow'[f].got = IF flow[f].answer \in Handovers THEN flow[f].answer ELSE "nothing"
      /\ \A g \in Flows \ {f} : flow'[g] = flow[g]
  BY <1>1 DEF BrokerInv, BrokerTypes, Moved
<1>5. Agreed(session[f], flow[f], shown[f], handed[f]) BY DEF BrokerInv
<1>6. Agreed(session'[f], flow'[f], shown'[f], handed'[f])
  BY <1>2, <1>4, <1>5, OutcomesAreNone DEF Agreed
<1> QED BY <1>2, <1>3, <1>4, <1>6, OneFlow

\* Every step of the broker keeps the agreement.
LEMMA BrokerSteps == BrokerInv /\ [B!Next]_(B!vars) => BrokerInv'
<1> SUFFICES ASSUME BrokerInv, [B!Next]_(B!vars) PROVE BrokerInv'
  OBVIOUS
<1>1. ASSUME NEW f \in Flows, B!Register(f) PROVE BrokerInv' BY <1>1, RegisterAgrees
<1>2. ASSUME NEW f \in Flows, B!Link(f) PROVE BrokerInv'
  <2>1. /\ session' \in {session, [session EXCEPT ![f] = B!NoSession]} /\ UNCHANGED <<flow, shown, handed>>
    BY <1>2 DEF B!Link
  <2>2. BrokerTypes'
    <3>1. B!NoSession \in [at : {"none", "live"}, parked : Gets] BY DEF B!NoSession, Gets
    <3>2. session' \in [Flows -> [at : {"none", "live"}, parked : Gets]]
      BY <2>1, <3>1 DEF BrokerInv, BrokerTypes
    <3> QED BY <2>1, <3>2 DEF BrokerInv, BrokerTypes
  <2>3. \A g \in Flows : session'[g] \in {session[g], B!NoSession}
    BY <2>1 DEF BrokerInv, BrokerTypes, Moved
  <2>4. Agreed(session'[f], flow'[f], shown'[f], handed'[f])
    BY <2>1, <2>3, AgreedWithout DEF BrokerInv
  <2> QED BY <2>1, <2>2, <2>3, <2>4, OneFlow
<1>3. ASSUME NEW f \in Flows, B!Poll(f) \/ B!Drop(f) \/ B!Deadline(f) PROVE BrokerInv'
  <2>1. PICK at \in {"asking", "polling", "failed"} :
          /\ flow' = [flow EXCEPT ![f].at = at]
          /\ flow[f].at # "new" /\ UNCHANGED <<session, shown, handed>>
    BY <1>3 DEF B!Poll, B!Drop, B!Deadline, B!Moves, B!AfterDrop, B!person
  <2>2. BrokerTypes' BY <2>1 DEF BrokerInv, BrokerTypes, Moved
  <2>3. /\ flow'[f].at = at /\ flow'[f].answer = flow[f].answer /\ flow'[f].got = flow[f].got
        /\ \A g \in Flows \ {f} : flow'[g] = flow[g]
    BY <2>1 DEF BrokerInv, BrokerTypes, Moved
  <2>4. Agreed(session[f], flow[f], shown[f], handed[f]) BY DEF BrokerInv
  <2>5. Agreed(session'[f], flow'[f], shown'[f], handed'[f])
    BY <2>1, <2>3, <2>4 DEF Agreed
  <2> QED BY <2>1, <2>2, <2>3, <2>5, OneFlow
<1>4. ASSUME NEW f \in Flows, B!Claim(f) \/ B!LateClaim(f) PROVE BrokerInv' BY <1>4, ClaimAgrees
<1>5. ASSUME NEW f \in Flows, B!Receive(f) PROVE BrokerInv' BY <1>5, ReceiveAgrees
<1>6. ASSUME NEW f \in Flows, NEW o \in Handovers, B!Callback(f, o) PROVE BrokerInv'
  BY <1>6, CallbackAgrees
<1>7. CASE B!RestartBroker \/ B!SweepExpired
  <2>1. /\ UNCHANGED <<flow, shown, handed>>
        /\ session' \in [Flows -> [at : {"none", "live"}, parked : Gets]]
        /\ \A g \in Flows : session'[g] \in {session[g], B!NoSession}
    BY <1>7 DEF B!RestartBroker, B!SweepExpired, B!Purged, B!person, BrokerInv, BrokerTypes, Moved, B!NoSession, Gets
  <2>2. \A g \in Flows : Agreed(session'[g], flow'[g], shown'[g], handed'[g])
    BY <2>1, AgreedWithout DEF BrokerInv
  <2> QED BY <2>1, <2>2 DEF BrokerInv, BrokerTypes, Moved
<1>8. ASSUME NEW f \in Flows, B!Age(f) PROVE BrokerInv'
  BY <1>8 DEF B!Age, B!person, BrokerInv, BrokerTypes, Moved
<1>9. CASE UNCHANGED B!vars
  BY <1>9 DEF B!vars, BrokerInv, BrokerTypes, Moved
<1>10. ASSUME NEW f \in Flows, B!CutOff(f) PROVE BrokerInv'
  <2>1. /\ flow' = [flow EXCEPT ![f].at = "failed", ![f].answer = "cut"]
        /\ flow[f].at = "told" /\ UNCHANGED <<session, shown, handed>>
    BY <1>10 DEF B!CutOff, B!person
  <2>2. BrokerTypes'
    <3>1. flow \in Moved /\ "nothing" \in Gets BY DEF BrokerInv, BrokerTypes, Gets
    <3>2. "cut" \in Answers BY DEF Answers
    <3>3. flow' \in Moved BY <2>1, <3>1, <3>2, StillFlows
    <3> QED BY <2>1, <3>3 DEF BrokerInv, BrokerTypes
  <2>3. /\ flow'[f].at = "failed" /\ flow'[f].answer = "cut" /\ flow'[f].got = flow[f].got
        /\ \A g \in Flows \ {f} : flow'[g] = flow[g]
    BY <2>1 DEF BrokerInv, BrokerTypes, Moved
  <2>4. Agreed(session[f], flow[f], shown[f], handed[f]) BY DEF BrokerInv
  <2>5. Agreed(session'[f], flow'[f], shown'[f], handed'[f])
    BY <2>1, <2>3, <2>4, OutcomesAreNone DEF Agreed
  <2> QED BY <2>1, <2>2, <2>3, <2>5, OneFlow
<1> QED BY <1>1, <1>2, <1>3, <1>4, <1>5, <1>6, <1>7, <1>8, <1>9, <1>10 DEF B!Next, B!Step

(* An outcome leaves the broker once and is the one its person was told of, for any flows,
   outcomes and table, and whatever is lost, late, expired or restarted (sessions.rs). *)
THEOREM HandedOnce == PartsSpec => []HandedOver
<1>1. PartsInit => BrokerInv BY BrokerRuns, BrokerStarts
<1>2. BrokerInv /\ [PartsNext]_partsVars => BrokerInv' BY BrokerRuns, BrokerSteps
<1>3. BrokerInv => HandedOver
  BY DEF BrokerInv, BrokerTypes, Moved, Agreed, HandedOver, B!HandedOver, Gets
<1> QED BY <1>1, <1>2, <1>3, PTL DEF PartsSpec

-----------------------------------------------------------------------------
(* The notification lane *)

\* A run of all the parts is, for the lane, a run of the lane.
LEMMA LaneRuns == /\ PartsInit => L!Init
                  /\ [PartsNext]_partsVars => [L!Next]_(L!vars)
<1>1. PartsInit => L!Init
  BY DEF PartsInit
<1>2. PartsNext => L!Next \/ UNCHANGED laneVars
  BY DEF PartsNext, BesideReconnect, BesideOpens, BesideBudget, BesideBroker,
         BesidePush, BesideStream, BesideCarriers, BesideHeal
<1> QED BY <1>1, <1>2 DEF partsVars, laneVars, L!vars

Two == {"fast", "deliberate"}
Said == {"none", "sent", "would_send", "suppressed", "declined", "expired", "unavailable"}
LaneJob == [state : {"none", "queued", "leased", "expired", "done", "failed", "closed"}, tries : Nat]
LaneRun == [at : {"idle", "claimed", "asked", "answered", "recorded"}, answer : Said, owns : BOOLEAN]
LaneTypes ==
  /\ task \in [Mail -> [Two -> LaneJob]] /\ run \in [Mail -> [Two -> LaneRun]]
  /\ advice \in [Mail -> {"worthy", "unworthy"}] /\ ledger \in [Mail -> [Two -> Said]]
  /\ rangBy \in [Mail -> Two \cup {"none"}]
\* What the jobs, the runs, the ledger and the log of one message agree on.  The answer a run
\* carries to the ledger is as true as one recorded, a run owns only a job under its lease,
\* and a rescue that has spoken of worthy mail leaves it rung.
Honest(t, r, adv, led, rung, spared) ==
  /\ \A k \in Two : /\ led[k] = "sent" => rung = k
                    /\ led[k] = "would_send" => rung # "none"
                    /\ r[k].answer = "sent" => rung = k
                    /\ r[k].answer = "would_send" => rung # "none"
                    /\ r[k].owns => r[k].at # "idle" /\ t[k].state \in {"leased", "expired"}
  /\ adv = "worthy" /\ ~spared
     /\ (\/ t["deliberate"].state = "done"
         \/ r["deliberate"].owns /\ r["deliberate"].at \in {"answered", "recorded"})
     => rung # "none"
HonestAt(m) == Honest(task[m], run[m], advice[m], ledger[m], rangBy[m], m \in dealt \cup late)
LaneInv == LaneTypes /\ \A m \in Mail : HonestAt(m)

\* The ledger starts empty.
LEMMA LaneStarts == L!Init => LaneInv
BY DEF L!Init, L!Lanes, L!NoRun, LaneInv, LaneTypes, HonestAt, Honest, Two, Said, LaneJob, LaneRun

\* An action about one message.
LEMMA OneMail ==
  ASSUME LaneInv, NEW m \in Mail, LaneTypes', HonestAt(m)',
         \A n \in Mail \ {m} : /\ task'[n] = task[n] /\ run'[n] = run[n] /\ advice'[n] = advice[n]
                               /\ ledger'[n] = ledger[n] /\ rangBy'[n] = rangBy[n]
                               /\ (n \in dealt' \cup late') = (n \in dealt \cup late)
  PROVE  LaneInv'
<1>1. ASSUME NEW n \in Mail PROVE HonestAt(n)'
  <2>1. CASE n = m BY <2>1
  <2>2. CASE n # m
    <3>1. HonestAt(n) BY DEF LaneInv
    <3> QED BY <2>2, <3>1 DEF HonestAt
  <2> QED BY <2>1, <2>2
<1> QED BY <1>1 DEF LaneInv

\* What writing one field of one message's entry does.
LEMMA TaskWrites ==
  ASSUME LaneTypes, NEW m \in Mail, NEW t \in [Two -> LaneJob], task' = [task EXCEPT ![m] = t]
  PROVE  /\ task' \in [Mail -> [Two -> LaneJob]] /\ task'[m] = t
         /\ \A n \in Mail \ {m} : task'[n] = task[n]
BY DEF LaneTypes
\* Writing one run.
LEMMA RunWrites ==
  ASSUME LaneTypes, NEW m \in Mail, NEW r \in [Two -> LaneRun], run' = [run EXCEPT ![m] = r]
  PROVE  /\ run' \in [Mail -> [Two -> LaneRun]] /\ run'[m] = r
         /\ \A n \in Mail \ {m} : run'[n] = run[n]
BY DEF LaneTypes

\* Recording that a run of one lane has got somewhere.
LEMMA WorkWrites ==
  ASSUME LaneTypes, NEW m \in Mail, NEW k \in Two, NEW at \in {"answered", "recorded", "asked"},
         NEW answer \in Said, L!Work(m, k, at, answer)
  PROVE  /\ run' \in [Mail -> [Two -> LaneRun]]
         /\ run'[m][k].at = at /\ run'[m][k].answer = answer
         /\ run'[m][k].owns = run[m][k].owns
         /\ \A j \in Two \ {k} : run'[m][j] = run[m][j]
         /\ \A n \in Mail \ {m} : run'[n] = run[n]
<1> DEFINE p == [run[m][k] EXCEPT !.at = at, !.answer = answer]
           r == [run[m] EXCEPT ![k] = p]
<1>1. run' = [run EXCEPT ![m] = r]
  BY DEF L!Work, LaneTypes
<1>2. run[m] \in [Two -> LaneRun] /\ run[m][k] \in LaneRun
  BY DEF LaneTypes
<1>3. p \in LaneRun /\ p.at = at /\ p.answer = answer /\ p.owns = run[m][k].owns
  BY <1>2 DEF LaneRun
<1>4. r \in [Two -> LaneRun] /\ r[k] = p /\ \A j \in Two \ {k} : r[j] = run[m][j]
  BY <1>2, <1>3
<1>5. run' \in [Mail -> [Two -> LaneRun]] /\ run'[m] = r /\ \A n \in Mail \ {m} : run'[n] = run[n]
  BY <1>1, <1>4, RunWrites
<1> QED BY <1>3, <1>4, <1>5

\* The jobs change and no run does.
LEMMA JobsOnly ==
  ASSUME LaneInv, NEW m \in Mail, NEW t \in [Two -> LaneJob], task' = [task EXCEPT ![m] = t],
         UNCHANGED <<run, ledger, rangBy, dealt, late>>,
         advice' \in [Mail -> {"worthy", "unworthy"}],
         \A n \in Mail \ {m} : advice'[n] = advice[n],
         \A k \in Two : run[m][k].owns => t[k].state \in {"leased", "expired"},
         t["deliberate"].state # "done" \/ t["deliberate"] = task[m]["deliberate"],
         run[m]["deliberate"].owns \/ t["deliberate"].state = "done" => advice'[m] = advice[m]
  PROVE  LaneInv'
<1>1. LaneTypes' /\ task'[m] = t /\ \A n \in Mail \ {m} : task'[n] = task[n]
  BY TaskWrites DEF LaneInv, LaneTypes
<1>2. HonestAt(m) BY DEF LaneInv
<1>3. HonestAt(m)'
  BY <1>1, <1>2 DEF HonestAt, Honest, Two
<1> QED BY <1>1, <1>3, OneMail

\* An arrival starts a task that has rung nobody.
LEMMA ArriveIsHonest == ASSUME LaneInv, NEW m \in Mail, L!Arrive(m) PROVE LaneInv'
<1> DEFINE t == [task[m] EXCEPT !["fast"].state = "queued"]
<1>1. /\ task[m]["fast"].state = "none" /\ task' = [task EXCEPT ![m] = t]
      /\ UNCHANGED <<run, advice, ledger, rangBy, dealt, late>>
  BY DEF L!Arrive, L!user, LaneInv, LaneTypes
<1>2. task[m] \in [Two -> LaneJob] /\ "fast" \in Two /\ task[m]["fast"] \in LaneJob
  BY DEF LaneInv, LaneTypes, Two
<1>3. [task[m]["fast"] EXCEPT !.state = "queued"] \in LaneJob BY <1>2 DEF LaneJob
<1>4. t \in [Two -> LaneJob] /\ t["deliberate"] = task[m]["deliberate"]
  BY <1>2, <1>3 DEF Two
<1>5. \A k \in Two : run[m][k].owns => t[k].state \in {"leased", "expired"}
  BY <1>1, <1>2, <1>4 DEF LaneInv, HonestAt, Honest, Two
<1>6. advice \in [Mail -> {"worthy", "unworthy"}] BY DEF LaneInv, LaneTypes
<1> HIDE DEF t
<1> QED BY <1>1, <1>4, <1>5, <1>6, JobsOnly

\* A decision is written before the phone rings.
LEMMA DecideIsHonest ==
  ASSUME LaneInv, NEW m \in Mail, NEW v \in {"worthy", "unworthy"}, L!Decide(m, v) PROVE LaneInv'
<1> DEFINE j == [state |-> "queued", tries |-> 0]
           t == [task[m] EXCEPT !["deliberate"] = j]
<1>1. /\ task[m]["deliberate"].state \in {"none", "done", "failed", "closed"}
      /\ task' = [task EXCEPT ![m] = t] /\ advice' = [advice EXCEPT ![m] = v]
      /\ UNCHANGED <<run, ledger, rangBy, dealt, late>>
  BY DEF L!Decide, L!Settled, L!user, LaneInv, LaneTypes
<1>2. task[m] \in [Two -> LaneJob] /\ "deliberate" \in Two /\ j \in LaneJob
  BY DEF LaneInv, LaneTypes, LaneJob, Two
<1>3. /\ t \in [Two -> LaneJob] /\ t["deliberate"].state = "queued"
      /\ t["fast"] = task[m]["fast"]
  BY <1>2 DEF Two
<1>4. HonestAt(m) BY DEF LaneInv
<1>5. ~run[m]["deliberate"].owns /\ \A k \in Two : run[m][k].owns => t[k].state \in {"leased", "expired"}
  BY <1>1, <1>3, <1>4 DEF HonestAt, Honest, Two
<1>6. /\ advice' \in [Mail -> {"worthy", "unworthy"}]
      /\ \A n \in Mail \ {m} : advice'[n] = advice[n]
  BY <1>1 DEF LaneInv, LaneTypes
<1> HIDE DEF t
<1> QED BY <1>1, <1>3, <1>5, <1>6, JobsOnly

\* A run that is given up counts as one that may have rung.
LEMMA ExpiryIsHonest ==
  ASSUME LaneInv, NEW m \in Mail, NEW k \in Two, L!LeaseExpires(m, k) PROVE LaneInv'
<1> DEFINE t == [task[m] EXCEPT ![k].state = "expired"]
<1>1. /\ task[m][k].state = "leased" /\ task' = [task EXCEPT ![m] = t]
      /\ UNCHANGED <<run, advice, ledger, rangBy, dealt, late>>
  BY DEF L!LeaseExpires, L!user, LaneInv, LaneTypes
<1>2. task[m] \in [Two -> LaneJob] /\ task[m][k] \in LaneJob
  BY DEF LaneInv, LaneTypes
<1>3. [task[m][k] EXCEPT !.state = "expired"] \in LaneJob BY <1>2 DEF LaneJob
<1>4. /\ t \in [Two -> LaneJob] /\ t[k].state = "expired"
      /\ \A j \in Two \ {k} : t[j] = task[m][j]
  BY <1>2, <1>3 DEF LaneJob
<1>5. HonestAt(m) /\ advice \in [Mail -> {"worthy", "unworthy"}] BY DEF LaneInv, LaneTypes
<1> HIDE DEF t
<1>6. /\ \A j \in Two : run[m][j].owns => t[j].state \in {"leased", "expired"}
      /\ t["deliberate"].state # "done" \/ t["deliberate"] = task[m]["deliberate"]
  BY <1>4, <1>5 DEF HonestAt, Honest, Two
<1> QED BY <1>1, <1>4, <1>5, <1>6, JobsOnly

\* A run stops, having completed its job or not.
LEMMA RunEnds ==
  ASSUME LaneInv, NEW m \in Mail, NEW k \in Two,
         NEW state \in {"done", "failed", "queued"},
         task' = task \/ (run[m][k].owns /\ task' = [task EXCEPT ![m][k].state = state]),
         run' = [run EXCEPT ![m][k] = L!NoRun],
         state = "done" => run[m][k].at = "recorded",
         UNCHANGED <<advice, ledger, rangBy, dealt, late>>
  PROVE  LaneInv'
<1> DEFINE r == [run[m] EXCEPT ![k] = L!NoRun]
           t == IF task' = task THEN task[m] ELSE [task[m] EXCEPT ![k].state = state]
<1>1. task[m] \in [Two -> LaneJob] /\ task[m][k] \in LaneJob /\ run[m] \in [Two -> LaneRun]
      /\ L!NoRun \in LaneRun
  BY DEF LaneInv, LaneTypes, L!NoRun, LaneRun, Said
<1>2. [task[m][k] EXCEPT !.state = state] \in LaneJob BY <1>1 DEF LaneJob
<1>3. r \in [Two -> LaneRun] /\ run' = [run EXCEPT ![m] = r] /\ r[k] = L!NoRun
      /\ \A j \in Two \ {k} : r[j] = run[m][j]
  BY <1>1 DEF LaneInv, LaneTypes
<1>4. /\ t \in [Two -> LaneJob] /\ task' = [task EXCEPT ![m] = t]
      /\ t[k] = task[m][k] \/ (run[m][k].owns /\ t[k].state = state)
      /\ \A j \in Two \ {k} : t[j] = task[m][j]
  <2>1. CASE task' = task BY <1>1, <2>1 DEF LaneInv, LaneTypes
  <2>2. CASE task' # task
    <3>1. run[m][k].owns /\ task' = [task EXCEPT ![m][k].state = state] BY <2>2
    <3>2. t = [task[m] EXCEPT ![k] = [task[m][k] EXCEPT !.state = state]] BY <2>2
    <3>3. task' = [task EXCEPT ![m] = t] BY <3>1, <3>2 DEF LaneInv, LaneTypes
    <3>4. t \in [Two -> LaneJob] /\ t[k].state = state /\ \A j \in Two \ {k} : t[j] = task[m][j]
      BY <1>1, <1>2, <3>2 DEF LaneJob
    <3> QED BY <3>1, <3>3, <3>4
  <2> QED BY <2>1, <2>2
<1> HIDE DEF r, t
<1>5. /\ LaneTypes' /\ task'[m] = t /\ run'[m] = r
      /\ \A n \in Mail \ {m} : task'[n] = task[n] /\ run'[n] = run[n]
  BY <1>3, <1>4, TaskWrites, RunWrites DEF LaneInv, LaneTypes
<1>6. HonestAt(m) BY DEF LaneInv
<1>7. HonestAt(m)'
  <2>1. L!NoRun.answer = "none" /\ L!NoRun.at = "idle" /\ ~L!NoRun.owns BY DEF L!NoRun
  <2>2. CASE k = "fast"
    BY <1>3, <1>4, <1>5, <1>6, <2>1, <2>2 DEF HonestAt, Honest, Two
  <2>3. CASE k = "deliberate"
    BY <1>3, <1>4, <1>5, <1>6, <2>1, <2>3 DEF HonestAt, Honest, Two
  <2> QED BY <2>2, <2>3 DEF Two
<1> QED BY <1>5, <1>7, OneMail

\* A run claims a job.
LEMMA ClaimIsHonest ==
  ASSUME LaneInv, NEW m \in Mail, NEW k \in Two, L!Claim(m, k) PROVE LaneInv'
<1> DEFINE j == [state |-> "leased",
                 tries |-> IF task[m][k].tries > MaxAttempts THEN task[m][k].tries ELSE task[m][k].tries + 1]
           c == [at |-> "claimed", answer |-> "none", owns |-> TRUE]
           t == [task[m] EXCEPT ![k] = j]
           r == [run[m] EXCEPT ![k] = c]
<1>1. task[m] \in [Two -> LaneJob] /\ task[m][k] \in LaneJob /\ run[m] \in [Two -> LaneRun]
  BY DEF LaneInv, LaneTypes
<1>2. j \in LaneJob /\ c \in LaneRun
  BY <1>1 DEF LaneJob, LaneRun, Said
<1>3. /\ task' = [task EXCEPT ![m] = t] /\ run' = [run EXCEPT ![m] = r]
      /\ UNCHANGED <<advice, ledger, rangBy, dealt, late>>
  BY DEF L!Claim, L!user, LaneInv, LaneTypes
<1>4. /\ t \in [Two -> LaneJob] /\ r \in [Two -> LaneRun]
      /\ t[k].state = "leased" /\ r[k].at = "claimed" /\ r[k].answer = "none"
      /\ \A i \in Two \ {k} : t[i] = task[m][i] /\ r[i] = run[m][i]
  BY <1>1, <1>2
<1> HIDE DEF r, t
<1>5. /\ LaneTypes' /\ task'[m] = t /\ run'[m] = r
      /\ \A n \in Mail \ {m} : task'[n] = task[n] /\ run'[n] = run[n]
  BY <1>3, <1>4, TaskWrites, RunWrites DEF LaneInv, LaneTypes
<1>6. HonestAt(m) BY DEF LaneInv
<1>7. HonestAt(m)'
  <2>1. CASE k = "fast"
    BY <1>3, <1>4, <1>5, <1>6, <2>1 DEF HonestAt, Honest, Two
  <2>2. CASE k = "deliberate"
    BY <1>3, <1>4, <1>5, <1>6, <2>2 DEF HonestAt, Honest, Two
  <2> QED BY <2>1, <2>2 DEF Two
<1> QED BY <1>3, <1>5, <1>7, OneMail

\* New content takes a run's job from it.
LEMMA HealIsHonest == ASSUME LaneInv, NEW m \in Mail, L!Heal(m) PROVE LaneInv'
<1> DEFINE pending(k) == task[m][k].state \notin L!Settled
           t == [task[m] EXCEPT
                   !["fast"] = IF pending("fast") THEN [state |-> "queued", tries |-> 0] ELSE @,
                   !["deliberate"].state = IF pending("deliberate") THEN "closed" ELSE @]
           r == [k \in Two |-> [run[m][k] EXCEPT !.owns = @ /\ ~pending(k)]]
<1>1. task[m] \in [Two -> LaneJob] /\ (\A k \in Two : task[m][k] \in LaneJob /\ run[m][k] \in LaneRun)
  BY DEF LaneInv, LaneTypes
<1>2. /\ task' = [task EXCEPT ![m] = t] /\ run' = [run EXCEPT ![m] = r]
      /\ UNCHANGED <<advice, ledger, rangBy, dealt, late>>
  BY DEF L!Heal, L!user, L!Lanes, Two, LaneInv, LaneTypes
<1>3. /\ t \in [Two -> LaneJob] /\ "fast" \in Two /\ "deliberate" \in Two
      /\ t["deliberate"].state = IF pending("deliberate") THEN "closed" ELSE task[m]["deliberate"].state
      /\ pending("fast") \/ t["fast"] = task[m]["fast"]
  <2>1. (IF pending("fast") THEN [state |-> "queued", tries |-> 0] ELSE task[m]["fast"]) \in LaneJob
    BY <1>1 DEF LaneJob, Two
  <2>2. [task[m]["deliberate"] EXCEPT !.state = IF pending("deliberate") THEN "closed" ELSE @] \in LaneJob
    BY <1>1 DEF LaneJob, Two
  <2> QED BY <1>1, <2>1, <2>2 DEF Two, LaneJob
<1>4. ASSUME NEW k \in Two
      PROVE  r[k] \in LaneRun /\ r[k].at = run[m][k].at /\ r[k].answer = run[m][k].answer
             /\ (r[k].owns => run[m][k].owns /\ ~pending(k))
  <2>1. run[m][k] \in LaneRun BY <1>1
  <2>2. PICK b \in BOOLEAN : b = (run[m][k].owns /\ ~pending(k)) OBVIOUS
  <2>3. r[k] = [run[m][k] EXCEPT !.owns = b] BY <2>2
  <2>4. r[k].owns = b /\ r[k] \in LaneRun /\ r[k].at = run[m][k].at /\ r[k].answer = run[m][k].answer
    BY <2>1, <2>3 DEF LaneRun
  <2> QED BY <2>2, <2>4
<1>5. r \in [Two -> LaneRun] BY <1>4
<1>6. HonestAt(m) BY DEF LaneInv
<1>7. ASSUME NEW k \in Two PROVE ~r[k].owns
  <2>1. run[m][k].owns => pending(k) BY <1>6 DEF HonestAt, Honest, L!Settled
  <2> QED BY <1>4, <2>1
<1>8. t["deliberate"].state = "done" => task[m]["deliberate"].state = "done"
  BY <1>3
<1> HIDE DEF r, t, pending
<1>9. /\ LaneTypes' /\ task'[m] = t /\ run'[m] = r
      /\ \A n \in Mail \ {m} : task'[n] = task[n] /\ run'[n] = run[n]
  BY <1>2, <1>3, <1>5, TaskWrites, RunWrites DEF LaneInv, LaneTypes
<1>10. HonestAt(m)'
  BY <1>2, <1>3, <1>4, <1>6, <1>7, <1>8, <1>9 DEF HonestAt, Honest
<1> QED BY <1>2, <1>9, <1>10, OneMail

\* A crash leaves what is written.
LEMMA CrashIsHonest == ASSUME LaneInv, L!Crash PROVE LaneInv'
<1>1. run' = [m \in Mail |-> [k \in Two |-> L!NoRun]] /\ UNCHANGED <<task, advice, ledger, rangBy, dealt, late>>
  BY DEF L!Crash, L!user, L!Lanes, Two
<1>2. L!NoRun.answer = "none" /\ ~L!NoRun.owns /\ L!NoRun \in LaneRun BY DEF L!NoRun, LaneRun, Said
<1>3. LaneTypes' BY <1>1, <1>2 DEF LaneInv, LaneTypes
<1>4. ASSUME NEW m \in Mail PROVE HonestAt(m)'
  <2>1. HonestAt(m) BY DEF LaneInv
  <2>2. \A k \in Two : run'[m][k] = L!NoRun BY <1>1
  <2> QED BY <1>1, <1>2, <2>1, <2>2 DEF HonestAt, Honest, Two
<1> QED BY <1>3, <1>4 DEF LaneInv

\* A run that only got further, carrying no claim of a notification, and if it is the rescue's,
\* having spoken before.
LEMMA RunGetsOn ==
  ASSUME LaneInv, NEW m \in Mail, NEW k \in Two, NEW at \in {"answered", "recorded", "asked"},
         NEW answer \in {"none", "unavailable"}, L!Work(m, k, at, answer),
         k = "fast" \/ run[m][k].at = "answered",
         ledger' \in [Mail -> [Two -> Said]], \A n \in Mail \ {m} : ledger'[n] = ledger[n],
         \A i \in Two : ledger'[m][i] \in {ledger[m][i], run[m][i].answer},
         UNCHANGED <<task, advice, rangBy, dealt, late>>
  PROVE  LaneInv'
<1>1. answer \in Said BY DEF Said
<1>2. /\ run' \in [Mail -> [Two -> LaneRun]]
      /\ run'[m][k].at = at /\ run'[m][k].answer = answer
      /\ run'[m][k].owns = run[m][k].owns
      /\ \A j \in Two \ {k} : run'[m][j] = run[m][j]
      /\ \A n \in Mail \ {m} : run'[n] = run[n]
  <2>1. LaneTypes BY DEF LaneInv
  <2> QED BY ONLY <1>1, <2>1, WorkWrites, m \in Mail, k \in Two, L!Work(m, k, at, answer),
                  at \in {"answered", "recorded", "asked"}
<1>3. LaneTypes' BY <1>2 DEF LaneInv, LaneTypes
<1>4. HonestAt(m) BY DEF LaneInv
<1>5. HonestAt(m)'
  <2>1. CASE k = "fast" BY <1>2, <1>4, <2>1 DEF HonestAt, Honest, Two
  <2>2. CASE k = "deliberate" BY <1>2, <1>4, <2>2 DEF HonestAt, Honest, Two
  <2> QED BY <2>1, <2>2 DEF Two
<1> QED BY <1>2, <1>3, <1>5, OneMail

\* The event, its answer and the log change together.
LEMMA EmitIsHonest ==
  ASSUME LaneInv, NEW m \in Mail, NEW k \in Two, NEW v \in {"worthy", "unworthy"},
         L!Emit(m, k, v), k = "deliberate" => v = advice[m],
         UNCHANGED <<task, advice, ledger, dealt, late>>
  PROVE  LaneInv'
<1>1. PICK answer \in Said :
        /\ L!Work(m, k, "answered", answer)
        /\ answer = "sent" => v = "worthy" /\ m \notin late \cup dealt /\ rangBy[m] = "none"
        /\ answer = "would_send" => rangBy[m] # "none"
  BY DEF L!Emit, L!Outcome, Said
<1>2. /\ rangBy' \in [Mail -> Two \cup {"none"}] /\ \A n \in Mail \ {m} : rangBy'[n] = rangBy[n]
      /\ rangBy[m] # "none" => rangBy'[m] = rangBy[m]
      /\ v = "worthy" /\ m \notin late \cup dealt /\ rangBy[m] = "none" => rangBy'[m] = k
  BY DEF L!Emit, LaneInv, LaneTypes
<1>3. /\ run' \in [Mail -> [Two -> LaneRun]]
      /\ run'[m][k].at = "answered" /\ run'[m][k].answer = answer
      /\ run'[m][k].owns = run[m][k].owns
      /\ \A j \in Two \ {k} : run'[m][j] = run[m][j]
      /\ \A n \in Mail \ {m} : run'[n] = run[n]
  <2>1. "answered" \in {"answered", "recorded", "asked"} /\ LaneTypes BY DEF LaneInv
  <2>2. L!Work(m, k, "answered", answer) BY <1>1
  <2> QED BY ONLY <2>1, <2>2, WorkWrites, m \in Mail, k \in Two, answer \in Said
<1>4. LaneTypes' BY <1>2, <1>3 DEF LaneInv, LaneTypes
<1>5. HonestAt(m) BY DEF LaneInv
<1>6. HonestAt(m)'
  <2>1. CASE k = "fast" BY <1>1, <1>2, <1>3, <1>5, <2>1 DEF HonestAt, Honest, Two
  <2>2. CASE k = "deliberate" BY <1>1, <1>2, <1>3, <1>5, <2>2 DEF HonestAt, Honest, Two
  <2> QED BY <2>1, <2>2 DEF Two
<1> QED BY <1>2, <1>3, <1>4, <1>6, OneMail

\* Every step of the lane keeps its ledger honest.
LEMMA LaneSteps == LaneInv /\ [L!Next]_(L!vars) => LaneInv'
<1> SUFFICES ASSUME LaneInv, [L!Next]_(L!vars) PROVE LaneInv'
  OBVIOUS
<1> USE DEF L!user
<1>1. ASSUME NEW m \in Mail, L!Arrive(m) PROVE LaneInv' BY <1>1, ArriveIsHonest
<1>2. ASSUME NEW m \in Mail, L!Heal(m) PROVE LaneInv' BY <1>2, HealIsHonest
<1>3. ASSUME NEW m \in Mail, L!DealWith(m) \/ L!WindowCloses(m) PROVE LaneInv'
  <2>1. UNCHANGED <<task, run, advice, ledger, rangBy>> /\ dealt \subseteq dealt' /\ late \subseteq late'
    BY <1>3 DEF L!DealWith, L!WindowCloses
  <2>2. ASSUME NEW n \in Mail PROVE HonestAt(n)'
    <3>1. HonestAt(n) /\ (n \in dealt \cup late => n \in dealt' \cup late') BY <2>1 DEF LaneInv
    <3> QED BY <2>1, <3>1 DEF HonestAt, Honest
  <2> QED BY <2>1, <2>2 DEF LaneInv, LaneTypes
<1>4. ASSUME NEW m \in Mail, NEW v \in {"worthy", "unworthy"}, L!Decide(m, v) PROVE LaneInv'
  BY <1>4, DecideIsHonest
<1>5. ASSUME NEW m \in Mail, NEW k \in Two, L!Claim(m, k) PROVE LaneInv' BY <1>5, ClaimIsHonest
<1>6. ASSUME NEW m \in Mail, NEW k \in Two, L!Retry(m, k) PROVE LaneInv'
  <2>1. PICK state \in {"failed", "queued"} : state = IF task[m][k].tries >= MaxAttempts THEN "failed" ELSE "queued"
    OBVIOUS
  <2>2. /\ task' = task \/ (run[m][k].owns /\ task' = [task EXCEPT ![m][k].state = state])
        /\ run' = [run EXCEPT ![m][k] = L!NoRun] /\ UNCHANGED <<advice, ledger, rangBy, dealt, late>>
    BY <1>6, <2>1 DEF L!Retry
  <2> QED BY <2>2, RunEnds
<1>7. ASSUME NEW m \in Mail, NEW k \in Two, L!LeaseExpires(m, k) PROVE LaneInv' BY <1>7, ExpiryIsHonest
<1>8. ASSUME NEW m \in Mail, NEW k \in Two, L!Complete(m, k) PROVE LaneInv'
  <2>1. /\ task' = task \/ (run[m][k].owns /\ task' = [task EXCEPT ![m][k].state = "done"])
        /\ run[m][k].at = "recorded"
        /\ run' = [run EXCEPT ![m][k] = L!NoRun] /\ UNCHANGED <<advice, ledger, rangBy, dealt, late>>
    BY <1>8 DEF L!Complete
  <2> QED BY <2>1, RunEnds
<1>9. ASSUME NEW m \in Mail, L!StartFast(m) PROVE LaneInv'
  <2>1. PICK at \in {"answered", "recorded", "asked"}, answer \in {"none", "unavailable"} :
          L!Work(m, "fast", at, answer)
    BY <1>9 DEF L!StartFast
  <2>2. UNCHANGED <<task, advice, ledger, rangBy, dealt, late>> BY <1>9 DEF L!StartFast
  <2>3. "fast" \in Two BY DEF Two
  <2> QED BY <2>1, <2>2, <2>3, RunGetsOn DEF LaneInv, LaneTypes
<1>10. ASSUME NEW m \in Mail, L!AnswerFast(m) PROVE LaneInv'
  <2>1. UNCHANGED <<task, advice, ledger, dealt, late>> /\ "fast" \in Two BY <1>10 DEF L!AnswerFast, Two
  <2>2. ASSUME NEW v \in {"worthy", "unworthy"}, L!Emit(m, "fast", v) PROVE LaneInv'
    BY <2>1, <2>2, EmitIsHonest
  <2>3. CASE L!Work(m, "fast", "answered", "unavailable") /\ rangBy' = rangBy
    BY <2>1, <2>3, RunGetsOn DEF LaneInv, LaneTypes
  <2> QED BY <1>10, <2>2, <2>3 DEF L!AnswerFast
<1>11. ASSUME NEW m \in Mail, L!Rescue(m) PROVE LaneInv'
  <2>1. UNCHANGED <<task, advice, ledger, dealt, late>> /\ "deliberate" \in Two
        /\ L!Emit(m, "deliberate", advice[m])
    BY <1>11 DEF L!Rescue, L!Speaks, Two
  <2>2. advice[m] \in {"worthy", "unworthy"} BY DEF LaneInv, LaneTypes
  <2> QED BY <2>1, <2>2, EmitIsHonest
<1>12. ASSUME NEW m \in Mail, NEW k \in Two, L!Record(m, k) PROVE LaneInv'
  <2>1. /\ run[m][k].at = "answered" /\ L!Work(m, k, "recorded", "none")
        /\ ledger' \in {ledger, [ledger EXCEPT ![m][k] = run[m][k].answer]}
        /\ UNCHANGED <<task, advice, rangBy, dealt, late>>
    BY <1>12 DEF L!Record
  <2>2. run[m][k].answer \in Said /\ ledger \in [Mail -> [Two -> Said]]
    BY DEF LaneInv, LaneTypes, LaneRun
  <2>3. /\ ledger' \in [Mail -> [Two -> Said]] /\ \A n \in Mail \ {m} : ledger'[n] = ledger[n]
        /\ \A i \in Two : ledger'[m][i] \in {ledger[m][i], run[m][i].answer}
    BY <2>1, <2>2
  <2> QED BY <2>1, <2>3, RunGetsOn
<1>13. CASE L!Crash BY <1>13, CrashIsHonest
<1>14. CASE L!ResumeFast \/ UNCHANGED L!vars
  BY <1>14 DEF L!ResumeFast, L!vars, LaneInv, LaneTypes, HonestAt
<1>15. L!Lanes = Two BY DEF L!Lanes, Two
<1> QED BY <1>1, <1>2, <1>3, <1>4, <1>5, <1>6, <1>7, <1>8, <1>9, <1>10, <1>11, <1>12, <1>13, <1>14, <1>15
        DEF L!Next, L!Running

(* The two lanes of an arrival agree with each other, with the log and with the ledger, for any
   mail, cap and attempts (squelchd's notify lane and its store): the ledger claims no
   notification that is not in the log, and mail an investigation found worthy has rung when
   the job is done. *)
THEOREM LanesAgree == PartsSpec => []LaneIsTrue
<1>1. PartsInit => LaneInv BY LaneRuns, LaneStarts
<1>2. LaneInv /\ [PartsNext]_partsVars => LaneInv' BY LaneRuns, LaneSteps
<1>3. LaneInv => LaneIsTrue
  <2> SUFFICES ASSUME LaneInv PROVE LaneIsTrue OBVIOUS
  <2>1. \A m \in Mail : HonestAt(m) BY DEF LaneInv
  <2>2. L!LedgerIsTrue BY <2>1 DEF L!LedgerIsTrue, L!Lanes, HonestAt, Honest, Two
  <2>3. L!WorthyRings BY <2>1 DEF L!WorthyRings, HonestAt, Honest, Two
  <2> QED BY <2>2, <2>3 DEF LaneIsTrue, L!LaneIsTrue
<1> QED BY <1>1, <1>2, <1>3, PTL DEF PartsSpec

-----------------------------------------------------------------------------
(* The pusher *)

\* A run of all the parts is, for the pusher, a run of the pusher.
LEMMA PushRuns == /\ PartsInit => P!Init
                  /\ [PartsNext]_partsVars => [P!Next]_(P!vars)
<1>1. PartsInit => P!Init
  BY DEF PartsInit
<1>2. PartsNext => P!Next \/ UNCHANGED pushVars
  BY DEF PartsNext, BesideReconnect, BesideBroker, BesideOpens, BesideBudget, BesideLane,
         BesideStream, BesideCarriers, BesideHeal
<1> QED BY <1>1, <1>2 DEF partsVars, pushVars, P!vars

Batches == [at : {"idle", "devices", "checking", "pushing"}, next : Nat, last : Nat,
            tokens : SUBSET Phones]
PushTypes ==
  /\ log \in Nat /\ cursor \in Nat /\ cursor <= log
  /\ devices \in SUBSET Phones /\ gone \in SUBSET Phones
  /\ since \in [Phones -> Nat] /\ \A t \in Phones : since[t] <= log
  /\ pusher \in Batches
\* a batch begins behind the cursor and ends in the log
BatchFollows ==
  pusher.at # "idle" => pusher.next = cursor + 1 /\ pusher.next <= pusher.last /\ pusher.last <= log
\* a phone that works and is not served by the batch came after all of it
LatecomersWait ==
  pusher.at \in {"checking", "pushing"} =>
    \A t \in devices \ gone : t \in pusher.tokens \/ since[t] >= pusher.last
Offered(e) == \/ e \in quiet
              \/ \E t \in Phones : <<t, e>> \in landed
              \/ \A t \in devices \ gone : since[t] >= e
PushInv == PushTypes /\ BatchFollows /\ LatecomersWait /\ \A e \in 1 .. cursor : Offered(e)

\* Nothing is passed before there is anything to push.
LEMMA PushStarts == P!Init => PushInv
BY DEF P!Init, P!NoBatch, PushInv, PushTypes, BatchFollows, LatecomersWait, Offered, Batches

\* A batch that starts inside the log ends inside it.
LEMMA EndsInLog == ASSUME NEW from \in Nat, log \in Nat, from < log
                   PROVE  P!End(from) \in Nat /\ from < P!End(from) /\ P!End(from) <= log
BY PartsAssumption DEF P!End

\* What was offered stays offered while phones only leave, and pushes only land.
LEMMA StaysOffered ==
  ASSUME PushTypes, NEW e \in Nat, Offered(e), quiet' = quiet, since' = since, gone' = gone,
         devices' \subseteq devices, landed \subseteq landed'
  PROVE  Offered(e)'
BY DEF Offered

\* Reading the devices offers nothing and passes nothing.
LEMMA CheckOffers == PushInv /\ P!Check => PushInv'
<1> SUFFICES ASSUME PushInv, P!Check PROVE PushInv'
  OBVIOUS
<1> DEFINE e == pusher.next
<1>1. /\ pusher.at = "checking"
      /\ cursor' = IF e \in quiet THEN e ELSE cursor
      /\ pusher' = IF e \in quiet THEN P!After(pusher.tokens) ELSE [pusher EXCEPT !.at = "pushing"]
      /\ UNCHANGED <<log, quiet, devices, gone, since, landed>>
  BY DEF P!Check, P!Passes
<1>2. e = cursor + 1 /\ e <= pusher.last /\ pusher.last <= log /\ e \in Nat /\ pusher.last \in Nat
  BY <1>1 DEF PushInv, BatchFollows, PushTypes, Batches
<1>3. CASE e \notin quiet
  <2>1. /\ pusher' = [pusher EXCEPT !.at = "pushing"] /\ cursor' = cursor /\ pusher \in Batches
    BY <1>1, <1>3 DEF PushInv, PushTypes
  <2>2. /\ pusher' \in Batches /\ pusher'.at = "pushing" /\ pusher'.next = pusher.next
        /\ pusher'.last = pusher.last /\ pusher'.tokens = pusher.tokens
    BY <2>1 DEF Batches
  <2>3. PushTypes' /\ BatchFollows' /\ LatecomersWait'
    BY <1>1, <1>2, <2>1, <2>2 DEF PushInv, PushTypes, BatchFollows, LatecomersWait
  <2> QED BY <1>1, <2>1, <2>3 DEF PushInv, Offered
<1>4. CASE e \in quiet
  <2>1. \/ pusher' = P!NoBatch
        \/ /\ e # pusher.last
           /\ pusher' = [pusher EXCEPT !.at = "checking", !.next = @ + 1, !.tokens = pusher.tokens]
    BY <1>1, <1>4 DEF P!After
  <2>2. /\ pusher' \in Batches
        /\ pusher'.at # "idle" => /\ pusher'.at = "checking" /\ pusher'.next = e + 1
                                  /\ e # pusher.last /\ pusher'.last = pusher.last
                                  /\ pusher'.tokens = pusher.tokens
    <3>1. CASE pusher' = P!NoBatch BY <3>1 DEF P!NoBatch, Batches
    <3>2. CASE e # pusher.last /\ pusher' = [pusher EXCEPT !.at = "checking", !.next = @ + 1, !.tokens = pusher.tokens]
      <4>1. pusher \in Batches BY DEF PushInv, PushTypes
      <4>2. pusher' = [at |-> "checking", next |-> e + 1, last |-> pusher.last, tokens |-> pusher.tokens]
        BY <3>2, <4>1 DEF Batches
      <4>3. e + 1 \in Nat /\ pusher.last \in Nat /\ pusher.tokens \in SUBSET Phones
        BY <1>2, <4>1 DEF Batches
      <4> QED BY <3>2, <4>2, <4>3 DEF Batches
    <3> QED BY <2>1, <3>1, <3>2
  <2>3. cursor' = e BY <1>1, <1>4
  <2>4. PushTypes' /\ BatchFollows' /\ LatecomersWait'
    BY <1>1, <1>2, <2>2, <2>3 DEF PushInv, PushTypes, BatchFollows, LatecomersWait, Batches
  <2>5. \A i \in 1 .. cursor' : Offered(i)'
    <3> SUFFICES ASSUME NEW i \in 1 .. cursor' PROVE Offered(i)'
      OBVIOUS
    <3>1. i = e \/ i \in 1 .. cursor BY <1>2, <2>3 DEF PushInv, PushTypes
    <3> QED BY <3>1, <1>1, <1>4 DEF PushInv, Offered
  <2> QED BY <2>4, <2>5 DEF PushInv
<1> QED BY <1>3, <1>4

\* A batch goes to the devices that were read, and is then passed.
LEMMA PushOffers == PushInv /\ P!Push => PushInv'
<1> SUFFICES ASSUME PushInv, P!Push PROVE PushInv'
  OBVIOUS
<1> DEFINE left == pusher.tokens \ gone
<1>0. PICK e : e = pusher.next
  OBVIOUS
<1>1. PICK took \in SUBSET left :
        /\ landed' = landed \cup {<<t, e>> : t \in took}
        /\ IF left = {} THEN cursor' = pusher.last /\ pusher' = P!NoBatch
           ELSE IF took = {} THEN UNCHANGED cursor /\ pusher' = P!NoBatch
           ELSE cursor' = e /\ pusher' = P!After(left)
  BY <1>0 DEF P!Push
<1>2. /\ pusher.at = "pushing" /\ devices' = devices \ (pusher.tokens \cap gone)
      /\ UNCHANGED <<log, quiet, gone, since>>
  BY DEF P!Push
<1>3. e = cursor + 1 /\ e <= pusher.last /\ pusher.last <= log /\ e \in Nat /\ pusher.last \in Nat
      /\ pusher.tokens \in SUBSET Phones /\ cursor \in Nat
  BY <1>0, <1>2 DEF PushInv, BatchFollows, PushTypes, Batches
<1>4. \A i \in 1 .. cursor : Offered(i)'
  <2>1. devices' \subseteq devices /\ landed \subseteq landed' BY <1>1, <1>2
  <2> QED BY <1>2, <1>3, <2>1, StaysOffered DEF PushInv
<1>5. CASE left = {}
  <2>1. cursor' = pusher.last /\ pusher' = P!NoBatch BY <1>1, <1>5
  <2>2. ASSUME NEW i \in 1 .. pusher.last PROVE Offered(i)'
    <3>1. \A t \in devices' \ gone' : since'[t] >= pusher.last
      BY <1>2, <1>5 DEF PushInv, LatecomersWait
    <3>2. \A t \in devices' \ gone' : since'[t] >= i
      BY <1>2, <1>3, <3>1 DEF PushInv, PushTypes
    <3> QED BY <3>2 DEF Offered
  <2>3. P!NoBatch \in Batches /\ P!NoBatch.at = "idle" BY DEF P!NoBatch, Batches
  <2> QED BY <1>2, <1>3, <2>1, <2>2, <2>3 DEF PushInv, PushTypes, BatchFollows, LatecomersWait
<1>6. CASE left # {} /\ took = {}
  <2>1. cursor' = cursor /\ pusher' = P!NoBatch BY <1>1, <1>6
  <2>3. P!NoBatch \in Batches /\ P!NoBatch.at = "idle" BY DEF P!NoBatch, Batches
  <2> QED BY <1>2, <1>4, <2>1, <2>3 DEF PushInv, PushTypes, BatchFollows, LatecomersWait
<1>7. CASE left # {} /\ took # {}
  <2>1. cursor' = e /\ pusher' = P!After(left) BY <1>1, <1>7
  <2>2. \/ pusher' = P!NoBatch
        \/ /\ e # pusher.last
           /\ pusher' = [pusher EXCEPT !.at = "checking", !.next = @ + 1, !.tokens = left]
    BY <1>0, <2>1 DEF P!After
  <2>3. /\ pusher' \in Batches
        /\ pusher'.at # "idle" => /\ pusher'.at = "checking" /\ pusher'.next = e + 1
                                  /\ e # pusher.last /\ pusher'.last = pusher.last
                                  /\ pusher'.tokens = left
    <3>1. CASE pusher' = P!NoBatch BY <3>1 DEF P!NoBatch, Batches
    <3>2. CASE e # pusher.last /\ pusher' = [pusher EXCEPT !.at = "checking", !.next = @ + 1, !.tokens = left]
      <4>1. pusher \in Batches /\ left \in SUBSET Phones BY <1>3 DEF PushInv, PushTypes
      <4>2. pusher' = [at |-> "checking", next |-> e + 1, last |-> pusher.last, tokens |-> left]
        BY <1>0, <3>2, <4>1 DEF Batches
      <4>3. e + 1 \in Nat BY <1>3
      <4> HIDE DEF left
      <4>4. pusher' \in Batches BY <1>3, <4>1, <4>2, <4>3 DEF Batches
      <4>5. /\ pusher'.at = "checking" /\ pusher'.next = e + 1 /\ pusher'.last = pusher.last
            /\ pusher'.tokens = left
        BY <4>2
      <4> QED BY <3>2, <4>4, <4>5
    <3> QED BY <2>2, <3>1, <3>2
  <2>4. PushTypes' BY <1>2, <1>3, <2>1, <2>3 DEF PushInv, PushTypes
  <2>5. BatchFollows' BY <1>2, <1>3, <2>1, <2>3 DEF BatchFollows
  <2>6. LatecomersWait'
    <3> SUFFICES ASSUME pusher'.at # "idle", NEW t \in devices' \ gone', t \notin left
                 PROVE  since'[t] >= pusher'.last
      BY <2>3 DEF LatecomersWait
    <3>1. t \in devices \ gone /\ t \notin pusher.tokens BY <1>2
    <3> QED BY <3>1, <1>2, <2>3 DEF PushInv, LatecomersWait
  <2>7. Offered(e)'
    <3>1. PICK t \in took : TRUE BY <1>7
    <3>2. t \in Phones /\ <<t, e>> \in landed' BY <1>1, <1>3, <3>1
    <3> QED BY <3>2 DEF Offered
  <2>8. \A i \in 1 .. cursor' : i = e \/ i \in 1 .. cursor BY <1>3, <2>1
  <2> QED BY <1>4, <2>4, <2>5, <2>6, <2>7, <2>8 DEF PushInv
<1> QED BY <1>5, <1>6, <1>7

\* Every step of the pusher keeps the relation.
LEMMA PushSteps == PushInv /\ [P!Next]_(P!vars) => PushInv'
<1> SUFFICES ASSUME PushInv, [P!Next]_(P!vars) PROVE PushInv'
  OBVIOUS
<1>0. P!NoBatch \in Batches /\ P!NoBatch.at = "idle" BY DEF P!NoBatch, Batches
<1>1. CASE P!Append
  <2>1. log' = log + 1 /\ UNCHANGED <<quiet, devices, gone, since, cursor, pusher, landed>>
    BY <1>1 DEF P!Append
  <2>2. PushTypes' BY <2>1 DEF PushInv, PushTypes
  <2>3. BatchFollows' BY <2>1 DEF PushInv, PushTypes, BatchFollows, Batches
  <2> QED BY <2>1, <2>2, <2>3 DEF PushInv, LatecomersWait, Offered
<1>2. CASE P!ReadEvents
  <2>1. /\ cursor < log
        /\ pusher' = [at |-> "devices", next |-> cursor + 1, last |-> P!End(cursor), tokens |-> {}]
        /\ UNCHANGED <<log, quiet, devices, gone, since, cursor, landed>>
    BY <1>2 DEF P!ReadEvents
  <2>2. P!End(cursor) \in Nat /\ cursor < P!End(cursor) /\ P!End(cursor) <= log
    BY <2>1, EndsInLog DEF PushInv, PushTypes
  <2>3. PushTypes' BY <2>1, <2>2 DEF PushInv, PushTypes, Batches
  <2>4. BatchFollows' /\ LatecomersWait'
    BY <2>1, <2>2 DEF BatchFollows, LatecomersWait, PushInv, PushTypes
  <2> QED BY <2>1, <2>3, <2>4 DEF PushInv, Offered
<1>3. CASE P!ReadDevices
  <2>1. pusher.at = "devices" /\ UNCHANGED <<log, quiet, devices, gone, since, landed>>
    BY <1>3 DEF P!ReadDevices
  <2>2. pusher.next = cursor + 1 /\ pusher.next <= pusher.last /\ pusher.last <= log /\ pusher.last \in Nat
    BY <2>1 DEF PushInv, BatchFollows, PushTypes, Batches
  <2>3. CASE devices = {}
    <3>1. cursor' = pusher.last /\ pusher' = P!NoBatch BY <1>3, <2>3 DEF P!ReadDevices
    <3> QED BY <1>0, <2>1, <2>2, <2>3, <3>1 DEF PushInv, PushTypes, BatchFollows, LatecomersWait, Offered
  <2>4. CASE devices # {}
    <3>1. cursor' = cursor /\ pusher' = [pusher EXCEPT !.at = "checking", !.tokens = devices]
      BY <1>3, <2>4 DEF P!ReadDevices
    <3>2. /\ pusher' \in Batches /\ pusher'.next = pusher.next /\ pusher'.last = pusher.last
          /\ pusher'.tokens = devices
      BY <3>1 DEF PushInv, PushTypes, Batches
    <3> QED BY <2>1, <2>2, <3>1, <3>2 DEF PushInv, PushTypes, BatchFollows, LatecomersWait, Offered
  <2> QED BY <2>3, <2>4
<1>4. CASE P!Check BY <1>4, CheckOffers
<1>5. CASE P!Push BY <1>5, PushOffers
<1>6. CASE P!PushBreaks
  <2>1. pusher' = P!NoBatch /\ landed \subseteq landed'
        /\ UNCHANGED <<log, quiet, devices, gone, since, cursor>>
    BY <1>6 DEF P!PushBreaks
  <2> QED BY <1>0, <2>1 DEF PushInv, PushTypes, BatchFollows, LatecomersWait, Offered
<1>7. ASSUME NEW e \in P!Ids, P!DealWith(e) PROVE PushInv'
  <2>1. quiet' = quiet \cup {e} /\ UNCHANGED <<log, devices, gone, since, cursor, pusher, landed>>
    BY <1>7 DEF P!DealWith
  <2> QED BY <2>1 DEF PushInv, PushTypes, BatchFollows, LatecomersWait, Offered
<1>8. ASSUME NEW t \in Phones, P!Register(t) PROVE PushInv'
  <2>1. /\ t \notin devices \cup gone /\ devices' = devices \cup {t} /\ since' = [since EXCEPT ![t] = log]
        /\ UNCHANGED <<log, quiet, gone, cursor, pusher, landed>>
    BY <1>8 DEF P!Register
  <2>2. PushTypes' /\ BatchFollows' BY <2>1 DEF PushInv, PushTypes, BatchFollows
  <2>3. since'[t] = log /\ \A d \in devices : since'[d] = since[d]
    BY <2>1 DEF PushInv, PushTypes
  <2>4. LatecomersWait'
    BY <2>1, <2>3 DEF PushInv, PushTypes, Batches, BatchFollows, LatecomersWait
  <2>5. ASSUME NEW e \in 1 .. cursor PROVE Offered(e)'
    <3>1. e <= log BY DEF PushInv, PushTypes
    <3> QED BY <2>1, <2>3, <3>1 DEF PushInv, Offered
  <2> QED BY <2>1, <2>2, <2>4, <2>5 DEF PushInv
<1>9. ASSUME NEW t \in Phones, P!Unregister(t) \/ P!Retire(t) PROVE PushInv'
  <2>1. /\ devices' \subseteq devices /\ gone' = gone \cup {t}
        /\ UNCHANGED <<log, quiet, since, cursor, pusher, landed>>
    BY <1>9 DEF P!Unregister, P!Retire
  <2> QED BY <2>1 DEF PushInv, PushTypes, BatchFollows, LatecomersWait, Offered
<1>10. CASE UNCHANGED P!vars
  BY <1>10 DEF P!vars, PushInv, PushTypes, BatchFollows, LatecomersWait, Offered
<1> QED BY <1>1, <1>2, <1>3, <1>4, <1>5, <1>6, <1>7, <1>8, <1>9, <1>10 DEF P!Next, P!Drain

(* The durable cursor passes an event only when some phone has it, its message was dealt
   with, or no working phone was there before it, for any phones and batches, and whichever
   tokens retire and requests fail (push.rs `drain`). *)
THEOREM OfferedBeforePassed == PartsSpec => []PassedWasOffered
<1>1. PartsInit => PushInv BY PushRuns, PushStarts
<1>2. PushInv /\ [PartsNext]_partsVars => PushInv' BY PushRuns, PushSteps
<1>3. PushInv => PassedWasOffered BY DEF PushInv, Offered, PassedWasOffered, P!PassedWasOffered
<1> QED BY <1>1, <1>2, <1>3, PTL DEF PartsSpec

-----------------------------------------------------------------------------
(* The event stream *)

\* A run of all the parts is, for the stream, a run of the stream.
LEMMA StreamRuns == /\ PartsInit => S!Init
                    /\ [PartsNext]_partsVars => [S!Next]_(S!vars)
<1>1. PartsInit => S!Init
  BY DEF PartsInit
<1>2. PartsNext => S!Next \/ UNCHANGED streamVars
  BY DEF PartsNext, BesideReconnect, BesideBroker, BesideOpens, BesideBudget, BesideLane,
         BesidePush, BesideCarriers, BesideHeal
<1> QED BY <1>1, <1>2 DEF partsVars, streamVars, S!vars

Reached == seen \cup wire          \* what the client has or will have, unless the connection ends
StreamTypes ==
  /\ entries \in Nat /\ seen \subseteq 1 .. entries /\ wire \subseteq 1 .. entries
  /\ stream \in [at : {"closed", "subscribed", "parked", "pumping"}, cursor : Nat, last : Nat,
                 more : BOOLEAN, wake : BOOLEAN]
  /\ stream.cursor <= entries /\ stream.last <= entries
Flowing == stream.at \in {"parked", "pumping"}
\* frames on their way come after what has arrived, and continue it without a gap
Continues ==
  /\ \A i \in seen, k \in wire : i < k
  /\ \A i, k \in Reached, e \in 1 .. entries : i < e /\ e < k => e \in Reached \cup settled
\* the connection has sent everything from there to its cursor, and nothing else
SentToCursor ==
  IF Flowing
  THEN \A i \in Reached : /\ i <= stream.cursor
                          /\ \A e \in 1 .. stream.cursor : i < e => e \in Reached \cup settled
  ELSE wire = {}
\* a connection that will not read again by itself has read everything or been hinted
WillRead ==
  /\ stream.at = "parked" /\ stream.cursor < entries => stream.wake
  /\ stream.at = "pumping" => /\ stream.cursor <= stream.last
                              /\ ~stream.more /\ stream.last < entries => stream.wake
                              /\ ~stream.more => stream.cursor < stream.last
StreamInv == StreamTypes /\ Continues /\ SentToCursor /\ WillRead

\* A stream starts having missed nothing.
LEMMA StreamStarts == S!Init => StreamInv
BY DEF S!Init, S!NoStream, StreamInv, StreamTypes, Continues, SentToCursor, WillRead, Flowing, Reached

\* One read of the log: the batch ends where it is said to, and a short one is the last.
LEMMA BatchReads ==
  ASSUME StreamTypes, NEW from \in 0 .. entries
  PROVE  LET b == S!Batched(from) IN
         /\ b \in [at : {"parked", "pumping"}, cursor : Nat, last : Nat, more : BOOLEAN, wake : BOOLEAN]
         /\ b.cursor = from /\ b.last \in from .. entries /\ b.wake = stream.wake
         /\ b.at = "parked" => from = entries
         /\ b.at = "pumping" => from < b.last
         /\ ~b.more => b.last = entries
<1>1. Batch \in Nat \ {0} BY PartsAssumption
<1>2. S!End(from) \in from .. entries /\ (S!End(from) = from => from = entries)
      /\ (S!End(from) # from + Batch => S!End(from) = entries)
  BY <1>1 DEF StreamTypes, S!End
<1> DEFINE b == S!Batched(from)
<1>3. /\ b = [stream EXCEPT !.at = IF S!End(from) = from THEN "parked" ELSE "pumping",
                           !.cursor = from, !.last = S!End(from), !.more = S!End(from) = from + Batch]
      /\ S!End(from) \in Nat /\ from \in Nat
  BY <1>2 DEF S!Batched, StreamTypes
<1>4. /\ b.cursor = from /\ b.last = S!End(from) /\ b.wake = stream.wake
      /\ b.at = IF S!End(from) = from THEN "parked" ELSE "pumping"
      /\ b.more = (S!End(from) = from + Batch)
  BY <1>3 DEF StreamTypes
<1>5. b \in [at : {"parked", "pumping"}, cursor : Nat, last : Nat, more : BOOLEAN, wake : BOOLEAN]
  BY <1>3 DEF StreamTypes
<1> QED BY <1>2, <1>4, <1>5 DEF StreamTypes

\* A connection that begins, or goes on, to read at a place up to which all is sent.
LEMMA ReadsOn ==
  ASSUME StreamInv, NEW from \in 0 .. entries,
         UNCHANGED <<entries, settled, wire, seen>>,
         stream' = S!Batched(from) \/ (stream' = S!Woken(stream) /\ from = stream.cursor),
         \A i \in Reached : /\ i <= from
                            /\ \A e \in 1 .. from : i < e => e \in Reached \cup settled
  PROVE  StreamInv'
<1> DEFINE b == S!Batched(from)
<1>1. /\ b \in [at : {"parked", "pumping"}, cursor : Nat, last : Nat, more : BOOLEAN, wake : BOOLEAN]
      /\ b.cursor = from /\ b.last \in from .. entries
      /\ b.at = "parked" => from = entries
      /\ b.at = "pumping" => from < b.last
      /\ ~b.more => b.last = entries
  BY BatchReads DEF StreamInv
<1>2. \E w \in BOOLEAN : stream' = [b EXCEPT !.wake = w]
  <2>1. CASE stream' = b BY <2>1, <1>1
  <2>2. CASE stream' = S!Woken(stream) /\ from = stream.cursor BY <2>2 DEF S!Woken
  <2> QED BY <2>1, <2>2
<1> HIDE DEF b
<1>3. /\ stream' \in [at : {"parked", "pumping"}, cursor : Nat, last : Nat, more : BOOLEAN, wake : BOOLEAN]
      /\ stream'.cursor = from /\ stream'.last = b.last /\ stream'.at = b.at /\ stream'.more = b.more
  BY <1>1, <1>2
<1>4. StreamTypes' BY <1>1, <1>3 DEF StreamInv, StreamTypes
<1>5. Continues' BY DEF StreamInv, Continues, Reached
<1>6. SentToCursor' BY <1>3 DEF SentToCursor, Reached, Flowing
<1>7. WillRead' BY <1>1, <1>3, <1>4 DEF WillRead, StreamTypes
<1> QED BY <1>4, <1>5, <1>6, <1>7 DEF StreamInv

\* A replay starts where the client says it stopped.
LEMMA ReadStartWhole == StreamInv /\ S!ReadStart => StreamInv'
<1> SUFFICES ASSUME StreamInv, S!ReadStart PROVE StreamInv'
  OBVIOUS
<1>1. stream.at = "subscribed" /\ stream' = S!Batched(S!Start) /\ UNCHANGED <<entries, settled, wire, seen>>
  BY DEF S!ReadStart
<1>2. wire = {} /\ Reached = seen
  BY <1>1 DEF StreamInv, SentToCursor, Flowing, Reached
<1>3. CASE seen = {}
  <2>1. S!Start = entries /\ entries \in 0 .. entries
    BY <1>3 DEF S!Start, StreamInv, StreamTypes
  <2> QED BY <1>1, <1>2, <1>3, <2>1, ReadsOn
<1>4. CASE seen # {}
  <2>1. seen \in SUBSET (0 .. entries) /\ entries \in Nat BY DEF StreamInv, StreamTypes
  <2>2. \E m \in seen : \A j \in seen : j <= m
    BY <1>4, <2>1, HasGreatest
  <2>3. S!Start \in seen /\ \A j \in seen : j <= S!Start
    BY <1>4, <2>2 DEF S!Start, S!Last
  <2>4. S!Start \in 0 .. entries BY <2>1, <2>3
  <2>5. \A i \in Reached : /\ i <= S!Start
                           /\ \A e \in 1 .. S!Start : i < e => e \in Reached \cup settled
    <3> SUFFICES ASSUME NEW i \in Reached, NEW e \in 1 .. S!Start, i < e, e # S!Start
                 PROVE  e \in Reached \cup settled
      BY <1>2, <2>3
    <3>1. e \in 1 .. entries /\ e < S!Start BY <2>1, <2>4
    <3> QED BY <1>2, <2>3, <3>1 DEF StreamInv, Continues
  <2> QED BY <1>1, <2>4, <2>5, ReadsOn
<1> QED BY <1>3, <1>4

\* A page is put on the wire behind what is already there.
LEMMA SendWhole == StreamInv /\ S!Send => StreamInv'
<1> SUFFICES ASSUME StreamInv, S!Send PROVE StreamInv'
  OBVIOUS
<1> DEFINE e == stream.cursor + 1
           sent == [stream EXCEPT !.cursor = e]
<1>1. /\ stream.at = "pumping" /\ e <= stream.last
      /\ stream' = IF e = stream.last /\ ~stream.more THEN [sent EXCEPT !.at = "parked"] ELSE sent
      /\ wire' = IF e \in settled THEN wire ELSE wire \cup {e}
      /\ UNCHANGED <<entries, settled, seen>>
  BY DEF S!Send
<1>2. e \in 1 .. entries /\ stream.cursor \in Nat /\ e = stream.cursor + 1
  BY <1>1 DEF StreamInv, StreamTypes
<1>3. /\ stream'.cursor = e /\ stream'.last = stream.last /\ stream'.more = stream.more
      /\ stream'.wake = stream.wake /\ stream'.at = IF e = stream.last /\ ~stream.more THEN "parked" ELSE "pumping"
  BY <1>1 DEF StreamInv, StreamTypes
<1>4. StreamTypes'
  <2>1. stream' \in [at : {"closed", "subscribed", "parked", "pumping"}, cursor : Nat, last : Nat,
                     more : BOOLEAN, wake : BOOLEAN]
    <3>1. sent = [stream EXCEPT !.cursor = e] /\ e \in Nat BY <1>2
    <3> HIDE DEF e, sent
    <3> QED BY <1>1, <3>1 DEF StreamInv, StreamTypes
  <2>2. wire' \subseteq 1 .. entries BY <1>1, <1>2 DEF StreamInv, StreamTypes
  <2> HIDE DEF e
  <2> QED BY <1>1, <1>2, <1>3, <2>1, <2>2 DEF StreamInv, StreamTypes
<1>5. \A i \in Reached : i < e /\ \A k \in 1 .. stream.cursor : i < k => k \in Reached \cup settled
  BY <1>1, <1>2 DEF StreamInv, SentToCursor, Flowing, StreamTypes, Reached
<1>6. Reached' = IF e \in settled THEN Reached ELSE Reached \cup {e}
  BY <1>1 DEF Reached
<1> HIDE DEF e
<1>7. Continues'
  <2>1. \A i \in seen', k \in wire' : i < k
    BY <1>1, <1>5 DEF StreamInv, Continues, Reached
  <2>2. ASSUME NEW i \in Reached', NEW k \in Reached', NEW x \in 1 .. entries, i < x, x < k
        PROVE  x \in Reached' \cup settled
    <3>0. Reached \subseteq 1 .. entries BY DEF StreamInv, StreamTypes, Reached
    <3>1. CASE k \in Reached
      <4>1. i \in Reached BY <1>5, <1>6, <1>2, <2>2, <3>0, <3>1
      <4> QED BY <4>1, <3>1, <2>2, <1>6 DEF StreamInv, Continues
    <3>2. CASE k = e
      <4>1. i \in Reached BY <1>6, <1>2, <2>2, <3>0, <3>2
      <4>2. x \in 1 .. stream.cursor BY <1>2, <2>2, <3>2
      <4> QED BY <4>1, <4>2, <1>5, <1>6, <2>2
    <3> QED BY <3>1, <3>2, <1>6, <2>2
  <2> QED BY <2>1, <2>2, <1>1 DEF Continues
<1>8. SentToCursor'
  <2>1. ASSUME NEW i \in Reached', NEW x \in 1 .. e, i < x PROVE x \in Reached' \cup settled
    <3>1. CASE x = e BY <3>1, <1>6
    <3>2. CASE x # e
      <4>1. x \in 1 .. stream.cursor BY <1>2, <3>2
      <4>2. i \in Reached BY <1>2, <1>6, <2>1
      <4> QED BY <4>1, <4>2, <1>5, <1>6, <2>1
    <3> QED BY <3>1, <3>2
  <2>2. \A i \in Reached' : i <= e
    <3>1. Reached \subseteq Nat BY DEF StreamInv, StreamTypes, Reached
    <3> QED BY <1>2, <1>5, <1>6, <3>1
  <2>3. Flowing' BY <1>3 DEF Flowing
  <2> QED BY <2>1, <2>2, <2>3, <1>1, <1>3 DEF SentToCursor
<1>9. WillRead'
  BY <1>1, <1>2, <1>3 DEF StreamInv, StreamTypes, WillRead
<1> QED BY <1>4, <1>7, <1>8, <1>9 DEF StreamInv

\* The client takes the oldest frame of the wire.
LEMMA ArriveWhole == StreamInv /\ S!Arrive => StreamInv'
<1> SUFFICES ASSUME StreamInv, S!Arrive PROVE StreamInv'
  OBVIOUS
<1>1. \E i \in wire : \A j \in wire : i <= j
  <2>1. wire # {} /\ wire \in SUBSET Nat BY DEF S!Arrive, StreamInv, StreamTypes
  <2> QED BY <2>1, HasLeast
<1>2. PICK e \in wire : /\ \A j \in wire : e <= j
                        /\ wire' = wire \ {e} /\ seen' = seen \cup {e}
                        /\ UNCHANGED <<entries, settled, stream>>
  BY <1>1 DEF S!Arrive
<1>3. Reached' = Reached BY <1>2 DEF Reached
<1>4. StreamTypes' BY <1>2 DEF StreamInv, StreamTypes
<1>5. Continues'
  BY <1>2, <1>3, <1>4 DEF StreamInv, Continues, StreamTypes
<1>6. SentToCursor' /\ WillRead'
  BY <1>2, <1>3 DEF StreamInv, SentToCursor, WillRead, Flowing
<1> QED BY <1>4, <1>5, <1>6 DEF StreamInv

\* Every step of a stream keeps it whole.
LEMMA StreamSteps == StreamInv /\ [S!Next]_(S!vars) => StreamInv'
<1> SUFFICES ASSUME StreamInv, [S!Next]_(S!vars) PROVE StreamInv'
  OBVIOUS
<1>1. CASE S!Append
  <2>1. /\ entries' = entries + 1 /\ UNCHANGED <<settled, wire, seen>>
        /\ stream' = IF stream.at = "closed" THEN stream ELSE [stream EXCEPT !.wake = TRUE]
    BY <1>1 DEF S!Append
  <2>3. /\ stream'.at = stream.at /\ stream'.cursor = stream.cursor /\ stream'.last = stream.last
        /\ stream'.more = stream.more
        /\ stream.at # "closed" => stream'.wake
    BY <2>1 DEF StreamInv, StreamTypes
  <2>2. StreamTypes'
    <3>1. stream' \in [at : {"closed", "subscribed", "parked", "pumping"}, cursor : Nat, last : Nat,
                       more : BOOLEAN, wake : BOOLEAN]
      BY <2>1 DEF StreamInv, StreamTypes
    <3>2. 1 .. entries \subseteq 1 .. entries' /\ entries' \in Nat
      BY <2>1 DEF StreamInv, StreamTypes
    <3> QED BY <2>1, <2>3, <3>1, <3>2 DEF StreamInv, StreamTypes
  <2>4. Continues'
    <3>1. \A i, k \in Reached, e \in 1 .. entries' : i < e /\ e < k => e \in 1 .. entries
      BY <2>1 DEF StreamInv, StreamTypes, Reached
    <3> QED BY <2>1, <3>1 DEF StreamInv, Continues, Reached
  <2>5. SentToCursor' BY <2>1, <2>3 DEF StreamInv, SentToCursor, Flowing, Reached
  <2>6. WillRead' BY <2>3 DEF StreamInv, WillRead
  <2> QED BY <2>2, <2>4, <2>5, <2>6 DEF StreamInv
<1>2. CASE S!Subscribe
  BY <1>2 DEF S!Subscribe, StreamInv, StreamTypes, Continues, SentToCursor, WillRead, Flowing, Reached
<1>3. CASE S!ReadStart BY <1>3, ReadStartWhole
<1>4. CASE S!Send BY <1>4, SendWhole
<1>5. CASE S!ReadMore \/ S!Wake
  <2>1. /\ stream' = S!Batched(stream.cursor) \/ stream' = S!Woken(stream)
        /\ Flowing /\ UNCHANGED <<entries, settled, wire, seen>>
    BY <1>5 DEF S!ReadMore, S!Wake, Flowing
  <2>2. stream.cursor \in 0 .. entries BY DEF StreamInv, StreamTypes
  <2>3. \A i \in Reached : /\ i <= stream.cursor
                           /\ \A e \in 1 .. stream.cursor : i < e => e \in Reached \cup settled
    BY <2>1 DEF StreamInv, SentToCursor
  <2> QED BY <2>1, <2>2, <2>3, ReadsOn
<1>6. CASE S!Arrive BY <1>6, ArriveWhole
<1>7. CASE S!Disconnect
  <2>1. /\ wire' = {} /\ UNCHANGED <<entries, settled, seen>>
        /\ stream' = [stream EXCEPT !.at = "closed", !.wake = FALSE]
    BY <1>7 DEF S!Disconnect
  <2>2. StreamTypes' BY <2>1 DEF StreamInv, StreamTypes
  <2>3. stream'.at = "closed" BY <2>1 DEF StreamInv, StreamTypes
  <2>4. Continues'
    <3> SUFFICES ASSUME NEW i \in seen, NEW k \in seen, NEW e \in 1 .. entries, i < e, e < k
                 PROVE  e \in seen \cup settled
      BY <2>1 DEF Continues, Reached
    <3>1. e \in Reached \cup settled BY DEF StreamInv, Continues, Reached
    <3>2. e \notin wire BY DEF StreamInv, Continues, StreamTypes
    <3> QED BY <3>1, <3>2 DEF Reached
  <2> QED BY <2>1, <2>2, <2>3, <2>4 DEF StreamInv, SentToCursor, WillRead, Flowing
<1>8. ASSUME NEW e \in S!Ids, S!DealWith(e) PROVE StreamInv'
  <2>1. settled' = settled \cup {e} /\ UNCHANGED <<entries, stream, wire, seen>>
    BY <1>8 DEF S!DealWith
  <2> QED BY <2>1 DEF StreamInv, StreamTypes, Continues, SentToCursor, WillRead, Flowing, Reached
<1>9. CASE UNCHANGED S!vars
  BY <1>9 DEF S!vars, StreamInv, StreamTypes, Continues, SentToCursor, WillRead, Flowing, Reached
<1> QED BY <1>1, <1>2, <1>3, <1>4, <1>5, <1>6, <1>7, <1>8, <1>9 DEF S!Next, S!Pump

(* A client that comes back with the last id it has is missing nothing in between, and a
   stream that rests has read the log or holds a hint, for any log and batch and however
   often connections end (events.rs `start_cursor`, `pump`). *)
THEOREM NothingMissed == PartsSpec => []StreamIsWhole
<1>1. PartsInit => StreamInv BY StreamRuns, StreamStarts
<1>2. StreamInv /\ [PartsNext]_partsVars => StreamInv' BY StreamRuns, StreamSteps
<1>3. StreamInv => StreamIsWhole
  <2> SUFFICES ASSUME StreamInv PROVE S!NoGaps /\ S!RestsAtTheHead
    BY DEF StreamIsWhole, S!StreamIsWhole
  <2>1. S!NoGaps
    <3> SUFFICES ASSUME NEW i \in seen, NEW k \in seen, NEW e \in 1 .. entries, i < e, e < k
                 PROVE  e \in seen \cup settled
      BY DEF S!NoGaps
    <3>1. e \in Reached \cup settled BY DEF StreamInv, Continues, Reached
    <3>2. e \notin wire BY DEF StreamInv, Continues, StreamTypes
    <3> QED BY <3>1, <3>2 DEF Reached
  <2>2. S!RestsAtTheHead BY DEF S!RestsAtTheHead, StreamInv, WillRead
  <2> QED BY <2>1, <2>2
<1> QED BY <1>1, <1>2, <1>3, PTL DEF PartsSpec

-----------------------------------------------------------------------------
(* Opens of sent mail *)

\* A run of all the parts is, for the opens, a run of the relay and its daemon.
LEMMA OpensRun == /\ PartsInit => O!Init
                  /\ [PartsNext]_partsVars => [O!Next]_(O!vars)
<1>1. PartsInit => O!Init
  BY DEF PartsInit
<1>2. PartsNext => O!Next \/ UNCHANGED opensVars
  BY DEF PartsNext, BesideReconnect, BesideBroker, BesideLane, BesideBudget,
         BesidePush, BesideStream, BesideCarriers, BesideHeal
<1> QED BY <1>1, <1>2 DEF partsVars, opensVars, O!vars

\* The relay counts as everybody does.
LEMMA OpensCard == \A T : O!Cardinality(T) = Cardinality(T)
BY DEF O!Cardinality, Cardinality

Fetched == [id : Nat, open : Opens, token : Tokens]
\* Rows of which no two have an id: the relay's, and the ones its daemon has in hand.
OneEach(rows) == \A x, y \in rows : x.id = y.id => x = y
SpoolInv ==
  /\ buffer \subseteq Fetched /\ IsFiniteSet(buffer) /\ OneEach(buffer)
  /\ nextId \in Nat /\ happened \in Nat /\ \A x \in buffer : x.id < nextId
\* What the daemon's cursor covers is kept.  A page is a prefix of the rows above the
\* cursor, so that the first of them is the only row its move covers.
DrainInv == disk =>
  /\ drained \in Nat /\ drained < nextId /\ stored \in [Opens -> Nat] /\ page \subseteq Fetched
  /\ OneEach(buffer \cup page)
  /\ \A q \in page : drained < q.id /\ q.id < nextId
  /\ \A x \in buffer : x.id <= drained => O!Kept(x.open)
  /\ \A x \in buffer, q \in page : drained < x.id /\ x.id <= q.id => x \in page
  /\ busy # 0 => page # {} /\ O!Kept(O!First(page).open)
  /\ acked \subseteq Opens /\ \A o \in acked : O!Kept(o)
OpensInv == SpoolInv /\ DrainInv

\* The relay starts with nothing recorded.
LEMMA OpensStart == O!Init => OpensInv
BY FS_EmptySet DEF O!Init, OpensInv, SpoolInv, DrainInv, OneEach

\* The oldest row of a page.
LEMMA FirstIsFirst ==
  ASSUME NEW rows \in SUBSET Fetched, rows # {}
  PROVE  O!First(rows) \in rows /\ \A q \in rows : O!First(rows).id <= q.id
<1>1. {q.id : q \in rows} \in SUBSET Nat /\ {q.id : q \in rows} # {} BY DEF Fetched
<1>2. PICK i \in {q.id : q \in rows} : \A j \in {q.id : q \in rows} : i <= j BY <1>1, HasLeast
<1>3. \E r \in rows : \A q \in rows : r.id <= q.id BY <1>2
<1> QED BY <1>3 DEF O!First

\* What a fetch leaves in the relay: rows it had, and at most one under the next id.
LEMMA FetchAdds ==
  ASSUME SpoolInv, NEW t \in Tokens, O!Fetch(t)
  PROVE  \E rows :
         /\ rows \subseteq Fetched /\ IsFiniteSet(rows) /\ OneEach(rows)
         /\ nextId' \in Nat /\ nextId <= nextId' /\ \A x \in rows : x.id < nextId'
         /\ happened' \in Nat /\ buffer \subseteq rows /\ \A x \in rows \ buffer : x.id = nextId
         /\ buffer' = rows \/ buffer' = O!Trimmed(rows)
<1>1. PICK new : new = O!Row(nextId, happened + 1, t) OBVIOUS
<1>2. happened + 1 \in Opens /\ happened' = happened + 1 BY DEF O!Fetch
<1>3. new \in Fetched /\ new.id = nextId BY <1>1, <1>2 DEF O!Row, Fetched, SpoolInv
<1>4. CASE O!Cardinality(O!OfToken(buffer, t)) < MaxPerToken
  <2> DEFINE rows == buffer \cup {new}
  <2>1. nextId' = nextId + 1 /\ (buffer' = rows \/ buffer' = O!Trimmed(rows))
    BY <1>1, <1>4 DEF O!Fetch
  <2>2. IsFiniteSet(rows) BY FS_AddElement DEF SpoolInv
  <2>3. OneEach(rows) BY <1>3 DEF OneEach, SpoolInv
  <2>4. rows \subseteq Fetched /\ \A x \in rows : x.id < nextId + 1
    BY <1>3 DEF SpoolInv, Fetched
  <2>5. nextId + 1 \in Nat /\ nextId <= nextId + 1 /\ happened' \in Nat BY <1>2 DEF SpoolInv
  <2>6. buffer \subseteq rows /\ \A x \in rows \ buffer : x.id = nextId BY <1>3
  <2> HIDE DEF rows
  <2> QED BY <2>1, <2>2, <2>3, <2>4, <2>5, <2>6
<1>5. CASE ~(O!Cardinality(O!OfToken(buffer, t)) < MaxPerToken)
  <2>1. nextId' = nextId /\ (buffer' = buffer \/ buffer' = O!Trimmed(buffer))
    BY <1>5 DEF O!Fetch
  <2> QED BY <1>2, <2>1 DEF SpoolInv
<1> QED BY <1>4, <1>5

\* How deep a row is in what its token has kept.
LEMMA DepthCounts ==
  ASSUME NEW rows \in SUBSET Fetched, IsFiniteSet(rows), NEW r \in rows
  PROVE  /\ O!Depth(rows, r) \in Nat
         /\ \A q \in rows : q.token = r.token /\ q.id < r.id => O!Depth(rows, r) >= 2
<1> DEFINE above == {q \in O!OfToken(rows, r.token) : q.id <= r.id}
<1>1. IsFiniteSet(above) /\ O!Depth(rows, r) = Cardinality(above)
  <2>1. above \subseteq rows BY DEF O!OfToken
  <2> QED BY <2>1, FS_Subset, OpensCard DEF O!Depth
<1>2. ASSUME NEW q \in rows, q.token = r.token, q.id < r.id PROVE Cardinality(above) >= 2
  <2>1. {q, r} \subseteq above /\ q # r BY <1>2 DEF O!OfToken, Fetched
  <2>2. IsFiniteSet({q}) /\ Cardinality({q}) = 1 BY FS_Singleton
  <2>3. {q, r} = {q} \cup {r} /\ r \notin {q} BY <2>1
  <2>4. Cardinality({q, r}) = 2 BY <2>2, <2>3, FS_AddElement
  <2>5. Cardinality({q, r}) <= Cardinality(above) BY <1>1, <2>1, FS_Subset
  <2>6. Cardinality(above) \in Nat BY <1>1, FS_CardinalityType
  <2> QED BY <2>4, <2>5, <2>6
<1> QED BY <1>1, <1>2, FS_CardinalityType

\* A trim that takes a first row leaves no token a second one.
LEMMA FirstGoesLast ==
  ASSUME NEW rows \in SUBSET Fetched, IsFiniteSet(rows), OneEach(rows),
         NEW r \in rows, O!Depth(rows, r) = 1, r \notin O!Trimmed(rows), NEW t
  PROVE  Cardinality(O!OfToken(O!Trimmed(rows), t)) <= 1
<1>1. ASSUME NEW a \in O!Trimmed(rows), NEW b \in O!Trimmed(rows), a.token = b.token, a.id < b.id
      PROVE  FALSE
  <2> DEFINE before(x) == {q \in rows : O!EvictedBefore(rows, q, x)}
  <2>1. a \in rows /\ b \in rows BY DEF O!Trimmed
  <2>2. O!Depth(rows, b) >= 2 /\ \A q \in rows : O!Depth(rows, q) \in Nat
    BY <1>1, <2>1, DepthCounts
  <2>3. before(b) \subseteq before(r)
    <3>1. ASSUME NEW q \in rows, O!EvictedBefore(rows, q, b) PROVE O!EvictedBefore(rows, q, r)
      <4>1. O!Depth(rows, q) >= O!Depth(rows, b) BY <2>1, <2>2, <3>1 DEF O!EvictedBefore
      <4> QED BY <2>1, <2>2, <4>1 DEF O!EvictedBefore
    <3> QED BY <3>1
  <2>4. before(r) \subseteq rows OBVIOUS
  <2>5. IsFiniteSet(before(r)) BY <2>4, FS_Subset
  <2>6. /\ Cardinality(before(b)) <= Cardinality(before(r)) /\ IsFiniteSet(before(b))
        /\ Cardinality(before(b)) \in Nat /\ Cardinality(before(r)) \in Nat
    BY <2>3, <2>5, FS_Subset, FS_CardinalityType
  <2>7. Cardinality(rows) \in Nat /\ MaxRows \in Nat BY FS_CardinalityType, PartsAssumption
  <2>8. ~(Cardinality(before(r)) + MaxRows >= Cardinality(rows)) BY OpensCard DEF O!Trimmed
  <2>9. Cardinality(before(b)) + MaxRows >= Cardinality(rows) BY OpensCard DEF O!Trimmed
  <2> HIDE DEF before
  <2> QED BY <2>6, <2>7, <2>8, <2>9
<1> DEFINE kept == O!OfToken(O!Trimmed(rows), t)
<1>2. \A a, b \in kept : a = b
  <2>1. kept \subseteq rows BY DEF O!OfToken, O!Trimmed
  <2>2. ASSUME NEW a \in kept, NEW b \in kept PROVE a = b
    <3>1. a.token = b.token /\ a \in O!Trimmed(rows) /\ b \in O!Trimmed(rows) BY DEF O!OfToken
    <3>2. ~(a.id < b.id) /\ ~(b.id < a.id) BY <1>1, <3>1
    <3>3. a.id \in Nat /\ b.id \in Nat BY <2>1 DEF Fetched
    <3> QED BY <2>1, <3>2, <3>3 DEF OneEach
  <2> QED BY <2>2
<1>3. CASE kept = {} BY <1>3, FS_EmptySet
<1>4. CASE kept # {}
  <2>1. PICK a \in kept : kept = {a} BY <1>2, <1>4
  <2>2. Cardinality({a}) = 1 BY FS_Singleton
  <2> HIDE DEF kept
  <2>3. Cardinality(kept) <= 1 BY <2>1, <2>2
  <2> QED BY <2>3 DEF kept
<1> QED BY <1>3, <1>4

\* A fetched pixel records one row, within its bounds.
LEMMA FetchKeeps == ASSUME OpensInv, NEW t \in Tokens, O!Fetch(t) PROVE OpensInv'
<1>1. PICK rows :
         /\ rows \subseteq Fetched /\ IsFiniteSet(rows) /\ OneEach(rows)
         /\ nextId' \in Nat /\ nextId <= nextId' /\ \A x \in rows : x.id < nextId'
         /\ happened' \in Nat /\ buffer \subseteq rows /\ \A x \in rows \ buffer : x.id = nextId
         /\ buffer' = rows \/ buffer' = O!Trimmed(rows)
  BY FetchAdds DEF OpensInv
<1>2. UNCHANGED <<disk, drained, page, busy, stored, refused, acked>>
  BY DEF O!Fetch, O!daemon
<1>3. buffer' \subseteq rows BY <1>1 DEF O!Trimmed
<1>4. SpoolInv'
  <2>1. IsFiniteSet(buffer') BY <1>1, <1>3, FS_Subset
  <2> QED BY <1>1, <1>3, <2>1 DEF SpoolInv, OneEach
<1>5. ASSUME disk PROVE DrainInv'
  <2>1. DrainInv /\ SpoolInv BY DEF OpensInv
  <2>2. \A q \in page : drained < q.id /\ q.id < nextId /\ q.id \in Nat
    BY <1>5, <2>1 DEF DrainInv, Fetched
  <2>3. \A x \in buffer' \ buffer : x.id = nextId BY <1>1, <1>3
  <2>4. nextId \in Nat /\ nextId' \in Nat /\ nextId <= nextId' /\ drained \in Nat /\ drained < nextId
    BY <1>1, <1>5, <2>1 DEF SpoolInv, DrainInv
  <2>5. OneEach(buffer' \cup page)
    <3>1. ASSUME NEW x \in buffer' \cup page, NEW y \in buffer' \cup page, x.id = y.id PROVE x = y
      <4>1. CASE x \in buffer' /\ y \in buffer' BY <1>4, <3>1, <4>1 DEF SpoolInv, OneEach
      <4>2. CASE x \in buffer \cup page /\ y \in buffer \cup page
        BY <1>5, <2>1, <3>1, <4>2 DEF DrainInv, OneEach
      <4>3. CASE x \in page /\ y \in buffer' \ buffer BY <2>2, <2>3, <2>4, <3>1, <4>3
      <4>4. CASE y \in page /\ x \in buffer' \ buffer BY <2>2, <2>3, <2>4, <3>1, <4>4
      <4> QED BY <4>1, <4>2, <4>3, <4>4
    <3> QED BY <3>1 DEF OneEach
  <2>6. \A q \in page : drained < q.id /\ q.id < nextId' BY <2>2, <2>4
  <2>7. \A x \in buffer', q \in page : drained < x.id /\ x.id <= q.id => x \in page
    <3>1. ASSUME NEW x \in buffer', NEW q \in page, drained < x.id, x.id <= q.id PROVE x \in page
      <4>1. x \in buffer BY <2>2, <2>3, <2>4, <3>1
      <4> QED BY <1>5, <2>1, <3>1, <4>1 DEF DrainInv
    <3> QED BY <3>1
  <2>8. \A x \in buffer' : x.id <= drained => O!Kept(x.open)
    <3>1. ASSUME NEW x \in buffer', x.id <= drained PROVE O!Kept(x.open)
      <4>1. CASE x \in buffer BY <1>5, <2>1, <3>1, <4>1 DEF DrainInv
      <4>2. CASE x \notin buffer
        <5>1. x.id = nextId BY <2>3, <4>2
        <5> QED BY <2>4, <3>1, <5>1
      <4> QED BY <4>1, <4>2
    <3> QED BY <3>1
  <2> QED BY <1>2, <1>5, <2>1, <2>4, <2>5, <2>6, <2>7, <2>8 DEF DrainInv, O!Kept
<1> QED BY <1>2, <1>4, <1>5 DEF OpensInv, DrainInv

\* A page is a prefix of the rows above the cursor.
LEMMA PageIsPrefix ==
  ASSUME NEW rows \in SUBSET Fetched, IsFiniteSet(rows),
         NEW x \in rows, NEW q \in O!Page(rows), x.id <= q.id
  PROVE  x \in O!Page(rows)
<1> DEFINE below(r) == {y \in rows : y.id < r.id}
<1>1. q \in rows /\ Cardinality(below(q)) < DrainLimit BY OpensCard DEF O!Page
<1>2. below(x) \subseteq below(q) /\ below(q) \subseteq rows BY <1>1 DEF Fetched
<1>3. IsFiniteSet(below(q)) BY <1>2, FS_Subset
<1>4. /\ Cardinality(below(x)) <= Cardinality(below(q)) /\ IsFiniteSet(below(x))
      /\ Cardinality(below(x)) \in Nat /\ Cardinality(below(q)) \in Nat
  BY <1>2, <1>3, FS_Subset, FS_CardinalityType
<1>5. DrainLimit \in Nat BY PartsAssumption
<1>6. Cardinality(below(x)) < DrainLimit
  <2> HIDE DEF below
  <2> QED BY <1>1, <1>4, <1>5
<1> QED BY <1>6, OpensCard DEF O!Page

\* A drained page is the oldest part of the buffer.
LEMMA DrainKeeps == ASSUME OpensInv, O!Drain PROVE OpensInv'
<1>1. /\ page = {} /\ busy = 0 /\ buffer' = {r \in buffer : r.id > drained}
      /\ acked' = acked \cup {r.open : r \in buffer \ buffer'}
      /\ page' = O!Page(buffer') \/ page' = {}
      /\ UNCHANGED <<disk, nextId, happened, drained, busy, stored, refused>>
  BY DEF O!Drain, O!Drained
<1>2. SpoolInv'
  <2>1. IsFiniteSet(buffer') BY <1>1, FS_Subset DEF OpensInv, SpoolInv
  <2> QED BY <1>1, <2>1 DEF OpensInv, SpoolInv, OneEach
<1>3. ASSUME disk PROVE DrainInv'
  <2>1. DrainInv /\ SpoolInv BY DEF OpensInv
  <2>2. page' \subseteq buffer' BY <1>1 DEF O!Page
  <2>3. OneEach(buffer' \cup page') /\ page' \subseteq Fetched
    BY <1>2, <2>2 DEF SpoolInv, OneEach
  <2>4. \A q \in page' : drained < q.id /\ q.id < nextId
    BY <1>1, <1>2, <1>3, <2>1, <2>2 DEF SpoolInv, DrainInv, Fetched
  <2>5. \A x \in buffer', q \in page' : drained < x.id /\ x.id <= q.id => x \in page'
    BY <1>1, <1>2, PageIsPrefix DEF SpoolInv
  <2>6. \A x \in buffer' : x.id <= drained => O!Kept(x.open)
    BY <1>1, <1>3, <2>1 DEF DrainInv
  <2>7. acked' \subseteq Opens /\ \A o \in acked' : O!Kept(o)
    <3>1. ASSUME NEW x \in buffer \ buffer' PROVE O!Kept(x.open)
      <4>1. ~(x.id > drained) /\ x.id \in Nat /\ drained \in Nat
        BY <1>1, <1>3, <2>1 DEF SpoolInv, DrainInv, Fetched
      <4> QED BY <1>3, <2>1, <4>1 DEF DrainInv
    <3> QED BY <1>1, <1>3, <2>1, <3>1 DEF DrainInv, SpoolInv, Fetched
  <2> QED BY <1>1, <1>3, <2>1, <2>3, <2>4, <2>5, <2>6, <2>7 DEF DrainInv, O!Kept
<1> QED BY <1>1, <1>2, <1>3 DEF OpensInv, DrainInv

\* The first row of the page is recorded, or turned down.
LEMMA RecordKeeps == ASSUME OpensInv, O!Record PROVE OpensInv'
<1>1. PICK r : r = O!First(page) OBVIOUS
<1>2. /\ page # {} /\ busy' = r.id
      /\ \/ stored' = [stored EXCEPT ![r.open] = @ + 1] /\ refused' = refused
         \/ refused' = refused \cup {r.open} /\ stored' = stored
      /\ UNCHANGED <<disk, buffer, nextId, happened, drained, page, acked>>
  BY <1>1 DEF O!Record
<1>3. ASSUME disk PROVE DrainInv'
  <2>1. DrainInv BY DEF OpensInv
  <2>2. r \in page /\ r.open \in Opens BY <1>1, <1>2, <1>3, <2>1, FirstIsFirst DEF DrainInv, Fetched
  <2>3. stored' \in [Opens -> Nat] BY <1>2, <1>3, <2>1 DEF DrainInv
  <2>4. \A o \in Opens : O!Kept(o) => O!Kept(o)'
    BY <1>2, <1>3, <2>1, <2>2 DEF DrainInv, O!Kept
  <2>5. O!Kept(r.open)' BY <1>2, <1>3, <2>1, <2>2 DEF DrainInv, O!Kept
  <2>6. busy' # 0 => page # {} /\ O!Kept(O!First(page).open)' BY <1>1, <1>2, <2>5
  <2>7. ASSUME NEW x \in buffer, x.id <= drained PROVE O!Kept(x.open)'
    BY <1>3, <2>1, <2>4, <2>7 DEF DrainInv, OpensInv, SpoolInv, Fetched
  <2>8. \A o \in acked : O!Kept(o)' BY <1>3, <2>1, <2>4 DEF DrainInv
  <2> QED BY <1>2, <1>3, <2>1, <2>3, <2>6, <2>7, <2>8 DEF DrainInv
<1> QED BY <1>2, <1>3 DEF OpensInv, DrainInv, SpoolInv

\* The cursor moves over the row that was recorded, and over no other.
LEMMA MoveKeeps == ASSUME OpensInv, O!MoveCursor PROVE OpensInv'
<1>1. PICK r : r = O!First(page) OBVIOUS
<1>2. /\ busy # 0 /\ busy' = 0 /\ page' = page \ {r} /\ drained' = r.id
      /\ UNCHANGED <<disk, buffer, nextId, happened, stored, refused, acked>>
  BY <1>1 DEF O!MoveCursor, O!CursorAfter
<1>3. ASSUME disk PROVE DrainInv'
  <2>1. DrainInv /\ SpoolInv BY DEF OpensInv
  <2>2. /\ r \in page /\ (\A q \in page : r.id <= q.id) /\ O!Kept(r.open)
        /\ r.id \in Nat /\ drained \in Nat /\ drained < r.id /\ r.id < nextId
    BY <1>1, <1>2, <1>3, <2>1, FirstIsFirst DEF DrainInv, Fetched
  <2>3. ASSUME NEW x \in buffer, x.id <= r.id PROVE O!Kept(x.open)
    <3>1. x.id \in Nat BY <2>1 DEF SpoolInv, Fetched
    <3>2. CASE x.id <= drained BY <1>3, <2>1, <3>2 DEF DrainInv
    <3>3. CASE drained < x.id
      <4>1. x \in page BY <1>3, <2>1, <2>2, <2>3, <3>3 DEF DrainInv
      <4>2. x.id = r.id BY <2>2, <2>3, <3>1, <4>1
      <4>3. x = r BY <1>3, <2>1, <2>2, <4>1, <4>2 DEF DrainInv, OneEach
      <4> QED BY <2>2, <4>3
    <3> QED BY <2>2, <3>1, <3>2, <3>3
  <2>4. ASSUME NEW q \in page \ {r} PROVE r.id < q.id /\ q.id < nextId
    <3>1. q.id # r.id BY <1>3, <2>1, <2>2 DEF DrainInv, OneEach
    <3>2. q.id \in Nat /\ r.id <= q.id /\ q.id < nextId BY <1>3, <2>1, <2>2 DEF DrainInv, Fetched
    <3> QED BY <2>2, <3>1, <3>2
  <2>5. ASSUME NEW x \in buffer, NEW q \in page \ {r}, r.id < x.id, x.id <= q.id
        PROVE  x \in page \ {r}
    <3>1. x.id \in Nat BY <2>1 DEF SpoolInv, Fetched
    <3>2. drained < x.id BY <2>2, <2>5, <3>1
    <3>3. x \in page BY <1>3, <2>1, <2>5, <3>2 DEF DrainInv
    <3> QED BY <2>2, <2>5, <3>3
  <2>6. OneEach(buffer \cup (page \ {r})) BY <1>3, <2>1 DEF DrainInv, OneEach
  <2> QED BY <1>2, <1>3, <2>1, <2>2, <2>3, <2>4, <2>5, <2>6 DEF DrainInv, O!Kept
<1> QED BY <1>2, <1>3 DEF OpensInv, DrainInv, SpoolInv

\* Every step of the relay and its daemon keeps the spool fair.
LEMMA OpensStep == OpensInv /\ [O!Next]_(O!vars) => OpensInv'
<1> SUFFICES ASSUME OpensInv, [O!Next]_(O!vars) PROVE OpensInv'
  OBVIOUS
<1>1. ASSUME NEW t \in Tokens, O!Fetch(t) PROVE OpensInv' BY <1>1, FetchKeeps
<1>2. CASE O!Drain BY <1>2, DrainKeeps
<1>3. CASE O!Record BY <1>3, RecordKeeps
<1>4. CASE O!MoveCursor BY <1>4, MoveKeeps
<1>5. CASE O!RestartRelay
  <2>1. /\ UNCHANGED <<disk, happened, drained, page, busy, stored, refused, acked>>
        /\ disk => buffer' = buffer /\ nextId' = nextId
        /\ ~disk => buffer' = {} /\ nextId' = 1
    BY <1>5 DEF O!RestartRelay, O!daemon
  <2>2. SpoolInv' BY <2>1, FS_EmptySet DEF OpensInv, SpoolInv, OneEach
  <2> QED BY <2>1, <2>2 DEF OpensInv, DrainInv, O!Kept
<1>6. CASE O!Interrupted
  <2>1. /\ page' = {} /\ busy' = 0
        /\ UNCHANGED <<disk, buffer, nextId, happened, drained, stored, refused, acked>>
    BY <1>6 DEF O!Interrupted
  <2> QED BY <2>1 DEF OpensInv, SpoolInv, DrainInv, OneEach, O!Kept
<1>7. CASE UNCHANGED O!vars
  BY <1>7 DEF O!vars, OpensInv, SpoolInv, DrainInv, OneEach, O!Kept
<1> QED BY <1>1, <1>2, <1>3, <1>4, <1>5, <1>6, <1>7 DEF O!Next, O!Pass

\* No step of the relay takes a first row while any token keeps a second.
LEMMA FloodsSpareFirsts ==
  ASSUME OpensInv, [O!Next]_(O!vars), NEW r \in buffer,
         O!Depth(buffer, r) = 1, r \notin buffer', happened' # happened, NEW t
  PROVE  O!Cardinality(O!OfToken(buffer', t)) <= 1
<1>1. PICK u \in Tokens : O!Fetch(u)
  BY DEF O!Next, O!Pass, O!Drain, O!Record, O!MoveCursor, O!RestartRelay, O!Interrupted, O!vars
<1>2. PICK rows :
         /\ rows \subseteq Fetched /\ IsFiniteSet(rows) /\ OneEach(rows)
         /\ buffer \subseteq rows /\ \A x \in rows \ buffer : x.id = nextId
         /\ buffer' = rows \/ buffer' = O!Trimmed(rows)
  BY <1>1, FetchAdds DEF OpensInv
<1>3. buffer' = O!Trimmed(rows) /\ r \in rows BY <1>2
<1>4. O!OfToken(buffer, r.token) \subseteq O!OfToken(rows, r.token) BY <1>2 DEF O!OfToken
<1>5. {q \in O!OfToken(rows, r.token) : q.id <= r.id} = {q \in O!OfToken(buffer, r.token) : q.id <= r.id}
  <2>1. r.id < nextId /\ r.id \in Nat /\ nextId \in Nat BY DEF OpensInv, SpoolInv, Fetched
  <2>2. \A q \in rows : q.id <= r.id => q \in buffer BY <1>2, <2>1
  <2> QED BY <1>2, <2>2 DEF O!OfToken
<1>6. O!Depth(rows, r) = 1 BY <1>5 DEF O!Depth
<1> QED BY <1>2, <1>3, <1>6, FirstGoesLast, OpensCard

(* An open leaves the relay's spool for a reason, for any allowance, table and page
   (the relay's opens.rs, the daemon's tracking.rs): one deleted as acknowledged is stored or
   turned down whatever is lost, dies or is evicted between, and no flood of fetches takes the
   first row of a token while any keeps a second. *)
THEOREM SpoolIsFair == PartsSpec => OpensStand
<1>1. PartsInit => OpensInv BY OpensRun, OpensStart
<1>2. OpensInv /\ [PartsNext]_partsVars => OpensInv' BY OpensRun, OpensStep
<1>3. OpensInv => O!AckedIsKept BY DEF OpensInv, DrainInv, O!AckedIsKept
<1>4. OpensInv /\ [PartsNext]_partsVars =>
        [\A r \in buffer : (O!Depth(buffer, r) = 1 /\ r \notin buffer' /\ happened' # happened) =>
           \A t \in Tokens : O!Cardinality(O!OfToken(buffer', t)) <= 1]_(O!vars)
  BY OpensRun, FloodsSpareFirsts
<1> QED BY <1>1, <1>2, <1>3, <1>4, PTL DEF PartsSpec, OpensStand, O!OpensStand, O!FirstRowsStand

-----------------------------------------------------------------------------
(* The healing sweep *)

\* A run of all the parts is, for the sweep, a run of the sweep.
LEMMA HealRuns == /\ PartsInit => H!Init
                  /\ [PartsNext]_partsVars => [H!Next]_(H!vars)
<1>1. PartsInit => H!Init
  BY DEF PartsInit
<1>2. PartsNext => H!Next \/ UNCHANGED healVars
  BY DEF PartsNext, BesideReconnect, BesideBroker, BesideOpens, BesideBudget, BesideLane,
         BesidePush, BesideStream, BesideCarriers
<1> QED BY <1>1, <1>2 DEF partsVars, healVars, H!vars

Sweeps == [at : {"none", "over", "scan", "fetch", "write", "save"}, below : Nat,
           todo : SUBSET H!Rows, next : Nat, fetched : Nat]
Healed == text \cup excused
DealtFrom(n) == \A m \in H!Rows : m >= n => m \in Healed
HealTypes == mark \in Nat /\ sweep \in Sweeps /\ sealed \subseteq excused
\* what the sweep has in hand: everything at or above its place that is not still to be done
SweepFine ==
  /\ sweep.at \in {"scan", "save"} => DealtFrom(sweep.below)
  /\ sweep.at \in {"fetch", "write"} =>
       /\ \A m \in H!Rows : m >= sweep.next => m \in Healed \cup sweep.todo
       /\ \A m \in sweep.todo : m >= sweep.next
  /\ sweep.at = "write" => sweep.todo # {}
HealInv == HealTypes /\ SweepFine /\ DealtFrom(mark)

\* Before the first sweep nothing is healed, sealed or passed.
LEMMA HealStarts == H!Init => HealInv
<1> SUFFICES ASSUME H!Init PROVE HealInv
  OBVIOUS
<1>1. Youngest \in Nat BY PartsAssumption
<1>2. DealtFrom(mark) /\ mark \in Nat BY <1>1 DEF H!Init, DealtFrom, H!Rows
<1>3. sweep = H!NoSweep /\ H!NoSweep \in Sweeps /\ sweep.at = "none"
  BY DEF H!Init, H!NoSweep, Sweeps
<1> QED BY <1>2, <1>3 DEF H!Init, HealInv, HealTypes, SweepFine

\* A sweep that is over is a sweep.
LEMMA SweepsRest == /\ H!Over \in Sweeps /\ H!Over.at = "over"
                    /\ H!NoSweep \in Sweeps /\ H!NoSweep.at = "none"
BY DEF H!Over, H!NoSweep, Sweeps

\* The row in hand is the newest of those to do.
LEMMA RowIsNewest ==
  ASSUME HealTypes, sweep.todo # {}
  PROVE  H!Row \in sweep.todo /\ H!Row \in H!Rows /\ \A m \in sweep.todo : m <= H!Row
<1>1. Youngest \in Nat /\ sweep.todo \in SUBSET (0 .. Youngest) /\ sweep.todo \subseteq H!Rows
  BY PartsAssumption DEF HealTypes, Sweeps, H!Rows
<1>2. \E m \in sweep.todo : \A k \in sweep.todo : k <= m
  BY <1>1, HasGreatest
<1> QED BY <1>1, <1>2 DEF H!Row

\* The sweep counts rows as this module does.
LEMMA HealCounts == \A T : H!Cardinality(T) = Cardinality(T)
BY DEF H!Cardinality, Cardinality

NextPlace == IF Cardinality(H!Readable) < Chunk THEN 0
             ELSE CHOOSE m \in H!Seen : \A k \in H!Seen : m <= k
\* A chunk leaves out nothing between its end and its beginning but what is healed.
LEMMA ChunkIsWhole ==
  ASSUME HealInv, sweep.at = "scan"
  PROVE  /\ NextPlace \in Nat /\ \A m \in H!Seen : m >= NextPlace
         /\ \A m \in H!Rows : m >= NextPlace => m \in Healed \cup (H!Seen \ text)
<1>1. Youngest \in Nat /\ Chunk \in Nat \ {0} BY PartsAssumption
<1>2. H!Readable \in SUBSET (0 .. Youngest) /\ H!Readable \subseteq H!Rows BY <1>1 DEF H!Readable, H!Rows
<1>3. IsFiniteSet(H!Readable) /\ Cardinality(H!Readable) \in Nat
  <2>1. IsFiniteSet(0 .. Youngest) BY <1>1, FS_Interval
  <2> QED BY <1>2, <2>1, FS_Subset, FS_CardinalityType
<1> DEFINE Above(m) == {k \in H!Readable : k > m}
<1>4. \A m : /\ IsFiniteSet(Above(m)) /\ Cardinality(Above(m)) \in Nat
             /\ Cardinality(Above(m)) <= Cardinality(H!Readable)
  BY <1>3, FS_Subset, FS_CardinalityType
<1>5. H!Seen = {m \in H!Readable : Cardinality(Above(m)) < Chunk}
  BY HealCounts DEF H!Seen
<1> HIDE DEF Above
<1>6. \A m \in H!Rows : m \in Healed \/ m \in H!Readable
  <2>1. DealtFrom(sweep.below) /\ sealed \subseteq excused
    BY DEF HealInv, SweepFine, HealTypes
  <2> SUFFICES ASSUME NEW m \in H!Rows, m \notin Healed PROVE m \in H!Readable
    OBVIOUS
  <2>2. ~(m >= sweep.below) /\ m \notin sealed BY <2>1 DEF DealtFrom, Healed
  <2>3. sweep.below \in Nat /\ m \in Nat BY DEF HealInv, HealTypes, Sweeps, H!Rows
  <2> QED BY <2>2, <2>3 DEF H!Readable
<1>7. CASE Cardinality(H!Readable) < Chunk
  <2>1. NextPlace = 0 BY <1>7 DEF NextPlace
  <2>2. H!Seen = H!Readable BY <1>1, <1>3, <1>4, <1>5, <1>7
  <2>3. \A m \in H!Seen : m >= NextPlace
    <3>1. \A m \in H!Readable : m \in Nat BY <1>2
    <3> QED BY <2>1, <2>2, <3>1
  <2>4. ASSUME NEW m \in H!Rows PROVE m \in Healed \cup (H!Seen \ text)
    BY <1>6, <2>2 DEF Healed
  <2>5. NextPlace \in Nat BY <2>1
  <2> QED BY <2>3, <2>4, <2>5
<1>8. CASE ~(Cardinality(H!Readable) < Chunk)
  <2>1. H!Readable # {} BY <1>1, <1>8, FS_EmptySet
  <2>2. PICK top \in H!Readable : \A j \in H!Readable : j <= top
    BY <1>1, <1>2, <2>1, HasGreatest
  <2>3. Above(top) = {}
    <3>1. \A k \in Above(top) : k \in H!Readable /\ k > top BY DEF Above
    <3>2. \A k \in H!Readable : k \in Nat BY <1>2
    <3> QED BY <2>2, <3>1, <3>2
  <2>4. top \in H!Seen
    <3>1. Cardinality(Above(top)) = 0 BY <2>3, FS_EmptySet
    <3> QED BY <1>1, <1>5, <2>2, <3>1
  <2>5. H!Seen \in SUBSET Nat /\ H!Seen # {}
    <3>1. \A k \in H!Readable : k \in Nat BY <1>2
    <3> QED BY <1>5, <2>4, <3>1
  <2>6. \E m \in H!Seen : \A k \in H!Seen : m <= k BY <2>5, HasLeast
  <2>7. NextPlace \in H!Seen /\ \A k \in H!Seen : NextPlace <= k BY <1>8, <2>6 DEF NextPlace
  <2>8. ASSUME NEW m \in H!Readable, m >= NextPlace PROVE m \in H!Seen
    <3>0. \A k \in H!Readable : k \in Nat BY <1>2
    <3>1. Above(m) \subseteq Above(NextPlace)
      <4> SUFFICES ASSUME NEW k \in Above(m) PROVE k \in Above(NextPlace)
        OBVIOUS
      <4>1. k \in H!Readable /\ k > m /\ k \in Nat /\ m \in Nat BY <2>8, <3>0 DEF Above
      <4>2. NextPlace \in Nat BY <2>5, <2>7
      <4> QED BY <2>8, <4>1, <4>2 DEF Above
    <3>2. Cardinality(Above(m)) <= Cardinality(Above(NextPlace)) BY <1>4, <3>1, FS_Subset
    <3> QED BY <1>1, <1>4, <1>5, <2>7, <2>8, <3>2
  <2> QED BY <1>6, <2>5, <2>7, <2>8 DEF Healed
<1> QED BY <1>7, <1>8

\* Choosing a chunk changes no row.
LEMMA ScanHeals == HealInv /\ H!Scan => HealInv'
<1> SUFFICES ASSUME HealInv, H!Scan PROVE HealInv'
  OBVIOUS
<1> DEFINE n == NextPlace
<1>1. /\ sweep.at = "scan" /\ UNCHANGED <<text, sealed, excused, mark>>
      /\ \/ sweep' = [sweep EXCEPT !.at = "fetch", !.todo = H!Seen \ text, !.next = n]
         \/ sweep' = H!Over
  BY HealCounts DEF H!Scan, H!At, H!mail, NextPlace
<1>2. /\ n \in Nat /\ \A m \in H!Seen : m >= n
      /\ \A m \in H!Rows : m >= n => m \in Healed \cup (H!Seen \ text)
  BY <1>1, ChunkIsWhole
<1> HIDE DEF n
<1>3. CASE sweep' = H!Over
  BY <1>1, <1>3, SweepsRest DEF HealInv, HealTypes, SweepFine, DealtFrom, Healed
<1>4. CASE sweep' = [sweep EXCEPT !.at = "fetch", !.todo = H!Seen \ text, !.next = n]
  <2>1. H!Seen \subseteq H!Rows BY DEF H!Seen, H!Readable
  <2>2. sweep \in Sweeps BY DEF HealInv, HealTypes
  <2>3. sweep' = [at |-> "fetch", below |-> sweep.below, todo |-> H!Seen \ text, next |-> n,
                  fetched |-> sweep.fetched]
    BY <1>4, <2>2 DEF Sweeps
  <2>4. sweep' \in Sweeps BY <1>2, <2>1, <2>2, <2>3 DEF Sweeps
  <2>5. SweepFine' BY <1>1, <1>2, <2>3 DEF SweepFine, Healed
  <2> QED BY <1>1, <2>4, <2>5 DEF HealInv, HealTypes, DealtFrom, Healed
<1> QED BY <1>1, <1>3, <1>4

\* What a row of the chunk may become.
LEMMA SweepRows ==
  ASSUME NEW at \in {"none", "over", "scan", "fetch", "write", "save"}, NEW b \in Nat,
         NEW rest \in SUBSET H!Rows, NEW n \in Nat, NEW f \in Nat
  PROVE  [at |-> at, below |-> b, todo |-> rest, next |-> n, fetched |-> f] \in Sweeps
BY DEF Sweeps

\* Going past the newest row to do, which is healed by now.
LEMMA PassedIsFine ==
  ASSUME HealInv, sweep.at \in {"fetch", "write"}, sweep.todo # {}, NEW n \in Nat,
         sweep' = [H!Passed EXCEPT !.fetched = n], mark' = mark,
         sealed' = sealed, Healed \subseteq Healed', excused \subseteq excused',
         H!Row \in Healed'
  PROVE  HealInv'
<1>1. sweep \in Sweeps BY DEF HealInv, HealTypes
<1>2. H!Row \in sweep.todo /\ H!Row \in H!Rows BY RowIsNewest DEF HealInv
<1>3. sweep' = [at |-> "fetch", below |-> sweep.below, todo |-> sweep.todo \ {H!Row},
                next |-> sweep.next, fetched |-> n]
  BY <1>1 DEF H!Passed, Sweeps
<1>4. PICK r : r = H!Row OBVIOUS
<1>5. sweep' \in Sweeps
  <2>1. sweep.todo \ {r} \in SUBSET H!Rows /\ sweep.below \in Nat /\ sweep.next \in Nat
    BY <1>1 DEF Sweeps
  <2>2. PICK rest \in SUBSET H!Rows : rest = sweep.todo \ {r} BY <2>1
  <2>3. sweep' = [at |-> "fetch", below |-> sweep.below, todo |-> rest, next |-> sweep.next, fetched |-> n]
    BY <1>3, <1>4, <2>2
  <2>4. sweep.below \in Nat /\ sweep.next \in Nat BY <2>1
  <2>5. [at |-> "fetch", below |-> sweep.below, todo |-> rest, next |-> sweep.next, fetched |-> n] \in Sweeps
    BY <2>4, SweepRows
  <2> HIDE DEF Sweeps
  <2> QED BY ONLY <2>3, <2>5
<1>6. SweepFine'
  BY <1>3, <1>4 DEF HealInv, SweepFine
<1> QED BY <1>5, <1>6 DEF HealInv, HealTypes, DealtFrom

\* Where a sweep may stop.
LEMMA StopIsFine ==
  ASSUME HealInv, sweep.at = "fetch", sweep.todo # {}, H!StopsAt,
         UNCHANGED <<text, sealed, excused, mark>>
  PROVE  HealInv'
<1>1. sweep \in Sweeps BY DEF HealInv, HealTypes
<1>2. H!Row \in sweep.todo /\ H!Row \in H!Rows /\ \A m \in sweep.todo : m <= H!Row
  BY RowIsNewest DEF HealInv
<1>3. H!Row \in Nat /\ sweep.next \in Nat BY <1>1, <1>2 DEF H!Rows, Sweeps
<1>4. sweep' = [sweep EXCEPT !.at = "save", !.below = H!Row + 1]
  BY DEF H!StopsAt
<1>5. sweep' \in Sweeps /\ sweep'.at = "save" /\ sweep'.below = H!Row + 1
  <2>1. PICK r \in Nat : r = H!Row + 1 BY <1>3
  <2>2. sweep' = [sweep EXCEPT !.at = "save", !.below = r] BY <1>4, <2>1
  <2>3. sweep' \in Sweeps BY <1>1, <2>1, <2>2 DEF Sweeps
  <2>4. sweep'.at = "save" /\ sweep'.below = r BY <1>1, <2>2 DEF Sweeps
  <2> QED BY <2>1, <2>3, <2>4
<1>6. ASSUME NEW m \in H!Rows, m >= H!Row + 1 PROVE m \in Healed
  <2>1. m >= sweep.next
    <3>1. H!Row >= sweep.next BY <1>2 DEF HealInv, SweepFine
    <3> QED BY <1>3, <1>6, <3>1 DEF H!Rows
  <2>2. m \notin sweep.todo BY <1>2, <1>3, <1>6 DEF H!Rows
  <2> QED BY <2>1, <2>2 DEF HealInv, SweepFine
<1>7. SweepFine' BY <1>5, <1>6 DEF SweepFine, DealtFrom, Healed
<1> QED BY <1>5, <1>7 DEF HealInv, HealTypes, DealtFrom, Healed

\* Writing one body heals the row that was fetched.
LEMMA WriteHeals == HealInv /\ H!WriteBody => HealInv'
<1> SUFFICES ASSUME HealInv, H!WriteBody PROVE HealInv'
  OBVIOUS
<1>1. sweep.at = "write" /\ UNCHANGED <<sealed, mark, excused>> /\ sweep.todo # {}
  BY DEF H!WriteBody, H!At, HealInv, SweepFine
<1>2. CASE sweep' = H!Over /\ text' = text
  BY <1>1, <1>2, SweepsRest DEF HealInv, HealTypes, SweepFine, DealtFrom, Healed
<1>3. CASE sweep' = H!Passed /\ text' = IF H!Allowed(H!Row) THEN text \cup {H!Row} ELSE text
  <2>1. sweep \in Sweeps BY DEF HealInv, HealTypes
  <2>2. sweep' = [H!Passed EXCEPT !.fetched = sweep.fetched] /\ sweep.fetched \in Nat
    BY <1>3, <2>1 DEF Sweeps, H!Passed
  <2>3. PICK r : r = H!Row OBVIOUS
  <2>4. r \in text' \cup excused
    BY <1>3, <2>3 DEF H!Allowed, HealInv, HealTypes
  <2>5. H!Row \in Healed' BY <1>1, <2>3, <2>4 DEF Healed
  <2>6. Healed \subseteq Healed' /\ excused \subseteq excused' BY <1>1, <1>3 DEF Healed
  <2> QED BY <1>1, <2>2, <2>5, <2>6, PassedIsFine
<1> QED BY <1>2, <1>3 DEF H!WriteBody

\* Every step of the sweep keeps its invariant.
LEMMA HealSteps == HealInv /\ [H!Next]_(H!vars) => HealInv'
<1> SUFFICES ASSUME HealInv, [H!Next]_(H!vars) PROVE HealInv'
  OBVIOUS
<1>0. sweep \in Sweeps /\ mark \in Nat BY DEF HealInv, HealTypes
<1>1. CASE H!Begin
  <2>1. /\ UNCHANGED <<text, sealed, excused, mark>>
        /\ sweep' = IF mark = 0 THEN H!Over ELSE [H!NoSweep EXCEPT !.at = "scan", !.below = mark]
    BY <1>1 DEF H!Begin, H!mail
  <2>2. CASE sweep' = H!Over
    BY <2>1, <2>2, SweepsRest DEF HealInv, HealTypes, SweepFine, DealtFrom, Healed
  <2>3. CASE sweep' = [H!NoSweep EXCEPT !.at = "scan", !.below = mark]
    <3>1. sweep' \in Sweeps /\ sweep'.at = "scan" /\ sweep'.below = mark
      BY <1>0, <2>3 DEF H!NoSweep, Sweeps
    <3> QED BY <2>1, <3>1 DEF HealInv, HealTypes, SweepFine, DealtFrom, Healed
  <2> QED BY <2>1, <2>2, <2>3
<1>2. CASE H!Scan BY <1>2, ScanHeals
<1>3. CASE H!Ceiling \/ H!GmailFails
  BY <1>3, StopIsFine DEF H!Ceiling, H!GmailFails, H!Fetching, H!At, H!mail
<1>4. CASE H!NothingToHeal
  <2>1. /\ sweep.at = "fetch" /\ sweep.todo # {} /\ excused' = excused \cup {H!Row}
        /\ UNCHANGED <<text, sealed, mark>>
        /\ sweep' = [H!Passed EXCEPT !.fetched = @ + 1]
    BY <1>4 DEF H!NothingToHeal, H!Fetching, H!At
  <2>2. sweep' = [H!Passed EXCEPT !.fetched = sweep.fetched + 1] /\ sweep.fetched + 1 \in Nat
    BY <1>0, <2>1 DEF Sweeps, H!Passed
  <2>3. PICK r : r = H!Row OBVIOUS
  <2>4. excused' = excused \cup {r} BY <2>1, <2>3
  <2>5. r \in text' \cup excused' BY <2>4
  <2>6. H!Row \in Healed' BY <2>3, <2>5 DEF Healed
  <2>7. Healed \subseteq Healed' /\ excused \subseteq excused' BY <2>1, <2>4 DEF Healed
  <2> QED BY <2>1, <2>2, <2>6, <2>7, PassedIsFine
<1>5. CASE H!Fetched
  <2>1. /\ sweep.at = "fetch" /\ sweep.todo # {}
        /\ UNCHANGED <<text, sealed, excused, mark>>
        /\ sweep' = [sweep EXCEPT !.at = "write", !.fetched = @ + 1]
    BY <1>5 DEF H!Fetched, H!Fetching, H!At, H!mail
  <2>2. /\ sweep' \in Sweeps /\ sweep'.at = "write" /\ sweep'.todo = sweep.todo
        /\ sweep'.next = sweep.next
    <3>1. sweep.fetched + 1 \in Nat BY <1>0 DEF Sweeps
    <3>2. sweep' = [at |-> "write", below |-> sweep.below, todo |-> sweep.todo,
                    next |-> sweep.next, fetched |-> sweep.fetched + 1]
      BY <1>0, <2>1 DEF Sweeps
    <3>3. sweep.below \in Nat /\ sweep.next \in Nat /\ sweep.todo \in SUBSET H!Rows
      BY <1>0 DEF Sweeps
    <3> QED BY <3>1, <3>2, <3>3 DEF Sweeps
  <2> QED BY <2>1, <2>2 DEF HealInv, HealTypes, SweepFine, DealtFrom, Healed
<1>6. CASE H!WriteBody BY <1>6, WriteHeals
<1>7. CASE H!NextChunk
  <2>1. /\ sweep.at = "fetch" /\ sweep.todo = {} /\ UNCHANGED <<text, sealed, excused>>
        /\ \/ mark' = sweep.next /\ sweep' = IF sweep.next = 0 THEN H!Over
                                             ELSE [sweep EXCEPT !.at = "scan", !.below = sweep.next]
           \/ mark' = mark /\ sweep' = H!Over
    BY <1>7 DEF H!NextChunk, H!At, H!mail
  <2>2. DealtFrom(sweep.next) /\ sweep.next \in Nat
    BY <1>0, <2>1 DEF HealInv, SweepFine, DealtFrom, Sweeps
  <2>3. PICK n \in Nat : n = sweep.next BY <2>2
  <2>4. DealtFrom(n)' BY <2>1, <2>2, <2>3 DEF DealtFrom, Healed
  <2>5. DealtFrom(mark)' /\ mark' \in Nat
    BY <1>0, <2>1, <2>3, <2>4 DEF HealInv, DealtFrom, Healed
  <2>6. CASE sweep' = H!Over
    BY <2>1, <2>5, <2>6, SweepsRest DEF HealInv, HealTypes, SweepFine
  <2>7. CASE sweep' = [sweep EXCEPT !.at = "scan", !.below = sweep.next]
    <3>1. sweep' \in Sweeps /\ sweep'.at = "scan" /\ sweep'.below = n
      BY <1>0, <2>3, <2>7 DEF Sweeps
    <3> QED BY <2>1, <2>4, <2>5, <3>1 DEF HealInv, HealTypes, SweepFine, DealtFrom
  <2> QED BY <2>1, <2>6, <2>7
<1>8. CASE H!Save
  <2>1. /\ sweep.at = "save" /\ UNCHANGED <<text, sealed, excused>> /\ sweep' = H!Over
        /\ mark' = sweep.below \/ mark' = mark
    BY <1>8 DEF H!Save, H!At, H!mail
  <2>2. DealtFrom(sweep.below) /\ sweep.below \in Nat
    BY <1>0, <2>1 DEF HealInv, SweepFine, Sweeps
  <2>3. DealtFrom(mark)' /\ mark' \in Nat
    BY <1>0, <2>1, <2>2 DEF HealInv, DealtFrom, Healed
  <2> QED BY <2>1, <2>3, SweepsRest DEF HealInv, HealTypes, SweepFine
<1>9. CASE H!Restart
  BY <1>9, SweepsRest DEF H!Restart, H!mail, HealInv, HealTypes, SweepFine, DealtFrom, Healed
<1>10. ASSUME NEW m \in H!Rows, H!Seal(m) \/ H!Resight(m) PROVE HealInv'
  <2>1. /\ UNCHANGED <<mark, sweep>> /\ text \subseteq text' /\ excused \subseteq excused'
        /\ sealed' \subseteq excused'
    BY <1>10 DEF H!Seal, H!Resight, HealInv, HealTypes
  <2>2. Healed \subseteq Healed' BY <2>1 DEF Healed
  <2> QED BY <2>1, <2>2 DEF HealInv, HealTypes, SweepFine, DealtFrom
<1>11. CASE UNCHANGED H!vars
  BY <1>11 DEF H!vars, HealInv, HealTypes, SweepFine, DealtFrom, Healed
<1> QED BY <1>1, <1>2, <1>3, <1>4, <1>5, <1>6, <1>7, <1>8, <1>9, <1>10, <1>11 DEF H!Next, H!Sweeps

(* Nothing at or above the persisted cursor is left blank, but what was sealed at some time
   or cannot be healed, for any mailbox, chunk and ceiling, wherever a start stopped and
   whatever failed (mod.rs `heal_blank_bodies`). *)
THEOREM NoneSteppedOver == PartsSpec => []PassedIsHealed
<1>1. PartsInit => HealInv BY HealRuns, HealStarts
<1>2. HealInv /\ [PartsNext]_partsVars => HealInv' BY HealRuns, HealSteps
<1>3. HealInv => PassedIsHealed
  BY DEF HealInv, DealtFrom, Healed, PassedIsHealed, H!PassedIsHealed
<1> QED BY <1>1, <1>2, <1>3, PTL DEF PartsSpec

(* No step of the sweep gives a body to a row that is sealed when it is taken, whatever the
   sweep had read of it before. *)
THEOREM SealsHold == PartsSpec => SealsStand
<1>1. [PartsNext]_partsVars =>
        [sweep' # sweep => \A m \in sealed : m \in text' => m \in text]_(H!vars)
  <2> SUFFICES ASSUME H!Next, sweep' # sweep, NEW m \in sealed, m \in text' PROVE m \in text
    BY HealRuns
  <2>1. CASE H!WriteBody BY <2>1 DEF H!WriteBody, H!Allowed
  <2>2. CASE ~H!WriteBody
    BY <2>2 DEF H!Next, H!Sweeps, H!Begin, H!Scan, H!Ceiling, H!GmailFails, H!NothingToHeal, H!Fetched,
            H!NextChunk, H!Save, H!Restart, H!Seal, H!Resight, H!mail
  <2> QED BY <2>1, <2>2
<1> QED BY <1>1, PTL DEF PartsSpec, SealsStand, H!SealsStand

-----------------------------------------------------------------------------
(* Parcels and carriers *)

\* A run of all the parts is, for the carriers, a run of the poller and its table.
LEMMA CarriersRun == /\ PartsInit => C!Init
                     /\ [PartsNext]_partsVars => [C!Next]_(C!vars)
<1>1. PartsInit => C!Init
  BY DEF PartsInit
<1>2. PartsNext => C!Next \/ UNCHANGED carrierVars
  BY DEF PartsNext, BesideReconnect, BesideBroker, BesideLane, BesideBudget,
         BesidePush, BesideStream, BesideOpens, BesideHeal
<1> QED BY <1>1, <1>2 DEF partsVars, carrierVars, C!vars

\* The poller counts as everybody does.
LEMMA CarriersCard == \A T : C!Cardinality(T) = Cardinality(T)
BY DEF C!Cardinality, Cardinality

\* Rows have the fields the decisions and the answers write.
Columns == {"number", "carrier", "managed", "status", "said", "failures"}
TableInv == /\ DOMAIN row \subseteq 1 .. MaxId
            /\ \A i \in DOMAIN row : DOMAIN row[i] = Columns
Final(r) == r.said /\ r.status = "delivered"

\* Nothing is delivered before anything is asked.
LEMMA TableStarts == C!Init => TableInv
<1> SUFFICES ASSUME C!Init PROVE TableInv OBVIOUS
<1>1. PICK size \in 0 .. MaxId : \E carrier, number :
        row = [i \in 1 .. size |-> C!FirstRow(number[i], carrier[number[i]], "shipped")]
  BY DEF C!Init
<1>2. \A n, c, s : DOMAIN C!FirstRow(n, c, s) = Columns BY DEF C!FirstRow, Columns
<1>3. 1 .. size \subseteq 1 .. MaxId BY PartsAssumption
<1>4. PICK carrier, number : row = [i \in 1 .. size |-> C!FirstRow(number[i], carrier[number[i]], "shipped")]
  BY <1>1
<1> QED BY <1>2, <1>3, <1>4 DEF TableInv

\* The id of a new row is above the ones in use.
LEMMA NextIsNew == TableInv => C!NextId \in Nat \ {0} /\ C!NextId \notin DOMAIN row
<1> SUFFICES ASSUME TableInv PROVE C!NextId \in Nat \ {0} /\ C!NextId \notin DOMAIN row OBVIOUS
<1> DEFINE T == DOMAIN row \cup {0}
<1>1. T \in SUBSET (0 .. MaxId) /\ T # {} /\ MaxId \in Nat BY PartsAssumption DEF TableInv
<1>2. PICK m \in T : \A j \in T : j <= m BY <1>1, HasGreatest
<1>3. \E i \in 0 .. MaxId : i \in T /\ \A j \in DOMAIN row : j <= i BY <1>1, <1>2
<1>4. PICK g : g = CHOOSE i \in 0 .. MaxId : i \in T /\ \A j \in DOMAIN row : j <= i OBVIOUS
<1>5. g \in 0 .. MaxId /\ \A j \in DOMAIN row : j <= g BY <1>3, <1>4
<1>6. C!NextId = 1 + g BY <1>4 DEF C!NextId
<1>7. 1 + g \notin DOMAIN row BY <1>5
<1> QED BY <1>5, <1>6, <1>7

\* An answer keeps a final row final, whatever it is.
LEMMA StampsStand ==
  ASSUME TableInv, NEW r, C!Stamp(r),
         call.id \in DOMAIN row => /\ DOMAIN r = Columns
                                   /\ Final(row[call.id]) => r.status = "delivered"
  PROVE  TableInv' /\ \A i \in DOMAIN row \cap DOMAIN row' : Final(row[i]) => row'[i].status = "delivered"
<1>1. CASE call.id \in DOMAIN row /\ C!Stamped(call.id, r)
  <2>1. row' = [row EXCEPT ![call.id] = r] BY <1>1 DEF C!Stamped
  <2>2. DOMAIN row' = DOMAIN row /\ \A i \in DOMAIN row : row'[i] = IF i = call.id THEN r ELSE row[i]
    BY <2>1
  <2> QED BY <1>1, <2>2 DEF TableInv, Final
<1>2. CASE row' = row BY <1>2 DEF TableInv, Final
<1> QED BY <1>1, <1>2 DEF C!Stamp, C!table

\* Every step of the poller keeps its deliveries.
LEMMA TableSteps ==
  ASSUME TableInv, [C!Next]_(C!vars)
  PROVE  TableInv' /\ \A i \in DOMAIN row \cap DOMAIN row' : Final(row[i]) => row'[i].status = "delivered"
<1> DEFINE Stands == TableInv' /\ \A i \in DOMAIN row \cap DOMAIN row' : Final(row[i]) => row'[i].status = "delivered"
<1>1. ASSUME NEW n, NEW c, NEW s, NEW newer, C!Reconcile(n, c, s, newer) PROVE Stands
  <2>1. ASSUME NEW i \in DOMAIN row, row' = [row EXCEPT ![i] = C!RecordNewerMail(@, c, s, newer)]
        PROVE  Stands
    <3> DEFINE r == C!RecordNewerMail(row[i], c, s, newer)
    <3>1. DOMAIN row[i] = Columns BY DEF TableInv
    <3>2. DOMAIN r = Columns /\ (Final(row[i]) => r.status = "delivered")
      BY <3>1 DEF C!RecordNewerMail, C!MailedStatus, Final, Columns
    <3>3. DOMAIN row' = DOMAIN row /\ \A j \in DOMAIN row : row'[j] = IF j = i THEN r ELSE row[j]
      BY <2>1
    <3> HIDE DEF r
    <3> QED BY <3>2, <3>3 DEF TableInv, Final
  <2>2. ASSUME C!NextId \notin DOMAIN row, C!NextId \in Nat \ {0}, C!NextId <= MaxId,
               row' = [i \in DOMAIN row \cup {C!NextId} |-> IF i = C!NextId THEN C!FirstRow(n, c, s) ELSE row[i]]
        PROVE  Stands
    <3>1. PICK next : next = C!NextId OBVIOUS
    <3>2. /\ DOMAIN row' = DOMAIN row \cup {next}
          /\ \A j \in DOMAIN row : row'[j] = row[j]
          /\ row'[next] = C!FirstRow(n, c, s) /\ next \in 1 .. MaxId
      BY <2>2, <3>1, PartsAssumption
    <3>3. DOMAIN C!FirstRow(n, c, s) = Columns BY DEF C!FirstRow, Columns
    <3> QED BY <3>2, <3>3 DEF TableInv, Final
  <2>4. C!NextId \in Nat \ {0} /\ C!NextId \notin DOMAIN row BY NextIsNew
  <2>3. C!Rows(n) \subseteq DOMAIN row BY DEF C!Rows
  <2> QED BY <1>1, <2>1, <2>2, <2>3, <2>4 DEF C!Reconcile
<1>2. ASSUME NEW n, C!Retract(n) PROVE Stands
  <2>1. PICK i : row' = [j \in DOMAIN row \ {i} |-> row[j]] BY <1>2 DEF C!Retract
  <2> QED BY <2>1 DEF TableInv, Final
<1>3. CASE C!Answer
  <2>1. CASE call.id \in DOMAIN row
    <3>1. C!Asked = row[call.id] /\ DOMAIN row[call.id] = Columns BY <2>1 DEF C!Asked, TableInv
    <3> QED BY <1>3, <3>1, StampsStand
            DEF C!Answer, C!Track, C!NotFound, C!Transient, C!Refused, C!table, C!ReconcileCarrier,
                TableInv, Final, Columns
  <2>2. CASE call.id \notin DOMAIN row
    <3>1. row' = row
      BY <1>3, <2>2 DEF C!Answer, C!Track, C!NotFound, C!Transient, C!Refused, C!Stamp, C!table
    <3> QED BY <3>1 DEF TableInv, Final
  <2> QED BY <2>1, <2>2
<1>4. CASE row' = row BY <1>4 DEF TableInv, Final
<1> QED BY <1>1, <1>2, <1>3, <1>4
        DEF C!Next, C!Work, C!Pass, C!PassEnds, C!Ask, C!Tick, C!Restart, C!Reopens, C!Due, C!table, C!vars

(* A parcel a carrier has spoken about and that is delivered stays delivered while its row
   lives, for any parcels, carriers, statuses and bounds (poller.rs, agent_deliveries.rs):
   neither a later mail nor an answer to an older call takes it back. *)
THEOREM DeliveriesStand == PartsSpec => DeliveredStands
<1>1. PartsInit => TableInv BY CarriersRun, TableStarts
<1>2. TableInv /\ [PartsNext]_partsVars => TableInv' BY CarriersRun, TableSteps
<1>3. TableInv /\ [PartsNext]_partsVars =>
        [\A i \in DOMAIN row \cap DOMAIN row' :
           row[i].said /\ row[i].status = "delivered" => row'[i].status = "delivered"]_(C!vars)
  BY CarriersRun, TableSteps DEF Final
<1> QED BY <1>1, <1>2, <1>3, PTL DEF PartsSpec, DeliveredStands, C!DeliveredStands

-----------------------------------------------------------------------------
(* The budget of a carrier *)

\* Ages with the oldest first.
Aged(s) == s \in Seq(Nat) /\ \A i, j \in 1 .. Len(s) : i <= j => s[j] <= s[i]
\* The calls inside the window begin at f.
From(s, f) == f \in 1 .. Len(s) + 1 /\ \A k \in 1 .. Len(s) : s[k] < Window <=> f <= k

\* They are the last ones.
LEMMA WindowIsATail == ASSUME NEW s, Aged(s) PROVE \E f : From(s, f)
<1> DEFINE inside == {k \in 1 .. Len(s) : s[k] < Window}
<1>1. Len(s) \in Nat /\ \A k \in 1 .. Len(s) : s[k] \in Nat
  BY LenProperties, ElementOfSeq DEF Aged
<1>2. CASE inside = {}
  <2>1. \A k \in 1 .. Len(s) : ~(s[k] < Window) /\ ~(Len(s) + 1 <= k) BY <1>1, <1>2
  <2> QED BY <1>1, <2>1 DEF From
<1>3. CASE inside # {}
  <2>1. PICK f \in inside : \A j \in inside : f <= j
    <3>1. inside \in SUBSET Nat BY <1>1
    <3> HIDE DEF inside
    <3> QED BY <1>3, <3>1, HasLeast
  <2>2. ASSUME NEW k \in 1 .. Len(s), f <= k PROVE s[k] < Window
    <3>1. s[k] <= s[f] /\ s[f] < Window /\ s[k] \in Nat /\ s[f] \in Nat BY <1>1, <2>1, <2>2 DEF Aged
    <3> QED BY <3>1, PartsAssumption
  <2>3. \A k \in 1 .. Len(s) : s[k] < Window => f <= k BY <2>1
  <2>4. f \in 1 .. Len(s) + 1 BY <1>1, <2>1
  <2> HIDE DEF inside
  <2> QED BY <2>2, <2>3, <2>4 DEF From
<1> QED BY <1>2, <1>3

\* `expire` leaves exactly those.
LEMMA ExpireKeepsWindow ==
  ASSUME NEW s, Aged(s), NEW f, From(s, f)
  PROVE  C!Expire(s) = SubSeq(s, f, Len(s))
<1>1. Len(s) \in Nat /\ DOMAIN s = 1 .. Len(s) BY LenProperties DEF Aged
<1> DEFINE inside == {k \in DOMAIN s : s[k] < Window}
<1>2. inside = {k \in 1 .. Len(s) : f <= k} /\ f \in 1 .. Len(s) + 1 BY <1>1 DEF From
<1>3. /\ f \in inside \cup {Len(s) + 1} /\ \A j \in inside : f <= j
      /\ \A g \in inside \cup {Len(s) + 1} : (\A j \in inside : g <= j) => g = f
  <2> HIDE DEF inside
  <2>1. f \in inside \cup {Len(s) + 1} /\ \A j \in inside : f <= j BY <1>1, <1>2
  <2>2. ASSUME NEW g \in inside \cup {Len(s) + 1}, \A j \in inside : g <= j PROVE g = f
    <3>1. CASE f = Len(s) + 1 BY <1>1, <1>2, <2>2, <3>1
    <3>2. CASE f # Len(s) + 1
      <4>1. f \in inside BY <2>1, <3>2
      <4>2. g <= f /\ g \in Nat /\ f \in Nat /\ f <= Len(s) BY <1>1, <1>2, <2>2, <4>1
      <4>3. g \in inside BY <1>1, <2>2, <4>2
      <4> QED BY <2>1, <4>2, <4>3
    <3> QED BY <3>1, <3>2
  <2> QED BY <2>1, <2>2
<1>4. (CHOOSE k \in inside \cup {Len(s) + 1} : \A j \in inside : k <= j) = f
  <2> HIDE DEF inside
  <2> QED BY <1>3
<1> QED BY <1>4 DEF C!Expire

\* Some of a paced list is paced.
LEMMA Kept ==
  ASSUME NEW s, Aged(s), NEW f, From(s, f)
  PROVE  /\ C!Expire(s) \in Seq(Nat) /\ Len(C!Expire(s)) = Len(s) - f + 1
         /\ \A i \in 1 .. Len(s) - f + 1 : C!Expire(s)[i] = s[f + i - 1]
<1>1. Len(s) \in Nat /\ f \in 1 .. Len(s) + 1 BY LenProperties DEF Aged, From
<1>2. \A i \in f .. Len(s) : s[i] \in Nat BY <1>1, ElementOfSeq DEF Aged
<1>3. /\ SubSeq(s, f, Len(s)) \in Seq(Nat)
      /\ Len(SubSeq(s, f, Len(s))) = IF f <= Len(s) THEN Len(s) - f + 1 ELSE 0
      /\ \A i \in 1 .. Len(s) - f + 1 : SubSeq(s, f, Len(s))[i] = s[f + i - 1]
  BY <1>1, <1>2, SubSeqProperties
<1>4. (IF f <= Len(s) THEN Len(s) - f + 1 ELSE 0) = Len(s) - f + 1 BY <1>1
<1> QED BY <1>3, <1>4, ExpireKeepsWindow

\* A new call joins what expiry left.
LEMMA SpendRolls ==
  ASSUME NEW s, Aged(s)
  PROVE  LET t == Append(C!Expire(s), 0)
         IN Aged(t) /\ C!Expire(t) = t /\ Len(t) = Len(C!Expire(s)) + 1
<1>1. PICK f : From(s, f) BY WindowIsATail
<1>2. PICK e : e = C!Expire(s) OBVIOUS
<1>3. /\ e \in Seq(Nat) /\ Len(e) = Len(s) - f + 1
      /\ \A i \in 1 .. Len(s) - f + 1 : e[i] = s[f + i - 1]
  BY <1>1, <1>2, Kept
<1>4. Len(s) \in Nat /\ f \in 1 .. Len(s) + 1 /\ \A k \in 1 .. Len(s) : s[k] \in Nat
  BY <1>1, LenProperties, ElementOfSeq DEF Aged, From
<1>5. ASSUME NEW i \in 1 .. Len(e) PROVE e[i] < Window /\ e[i] \in Nat
  <2>1. e[i] = s[f + i - 1] /\ f + i - 1 \in 1 .. Len(s) /\ f <= f + i - 1 BY <1>3, <1>4
  <2> QED BY <1>1, <1>4, <2>1 DEF From
<1>6. ASSUME NEW i \in 1 .. Len(e), NEW j \in 1 .. Len(e), i <= j PROVE e[j] <= e[i]
  <2>1. /\ e[i] = s[f + i - 1] /\ f + i - 1 \in 1 .. Len(s)
        /\ e[j] = s[f + j - 1] /\ f + j - 1 \in 1 .. Len(s) /\ f + i - 1 <= f + j - 1
    BY <1>3, <1>4, <1>6
  <2> QED BY <2>1 DEF Aged
<1>7. PICK t : t = Append(e, 0) OBVIOUS
<1>8. /\ t \in Seq(Nat) /\ Len(t) = Len(e) + 1 /\ Len(e) \in Nat
      /\ \A i \in 1 .. Len(e) : t[i] = e[i]
      /\ t[Len(e) + 1] = 0
  BY <1>3, <1>7, LenProperties
<1>9. ASSUME NEW i \in 1 .. Len(t), NEW j \in 1 .. Len(t), i <= j PROVE t[j] <= t[i]
  <2>1. CASE j = Len(e) + 1
    <3>1. t[j] = 0 /\ t[i] \in Nat BY <1>8, <2>1, ElementOfSeq
    <3> QED BY <3>1
  <2>2. CASE j # Len(e) + 1
    <3>1. i \in 1 .. Len(e) /\ j \in 1 .. Len(e) BY <1>8, <1>9, <2>2
    <3> QED BY <1>6, <1>8, <1>9, <3>1
  <2> QED BY <2>1, <2>2
<1>10. Aged(t) BY <1>8, <1>9 DEF Aged
<1>11. From(t, 1)
  <2>1. ASSUME NEW k \in 1 .. Len(t) PROVE t[k] < Window
    <3>1. CASE k = Len(e) + 1 BY <1>8, <3>1, PartsAssumption
    <3>2. CASE k # Len(e) + 1 BY <1>5, <1>8, <3>2
    <3> QED BY <3>1, <3>2
  <2> QED BY <1>8, <2>1 DEF From
<1>12. C!Expire(t) = t BY <1>8, <1>10, <1>11, ExpireKeepsWindow, SubSeqFull
<1> QED BY <1>2, <1>7, <1>8, <1>10, <1>12

\* As time passes, expiry keeps what the history keeps.
LEMMA TickRolls ==
  ASSUME NEW s, Aged(s), NEW a, a = C!Expire(s)
  PROVE  /\ Aged(C!Older(s)) /\ C!LastWindow(C!Older(a)) = C!Expire(C!Older(s))
         /\ Len(C!Expire(C!Older(s))) <= Len(a) /\ Len(a) \in Nat
         /\ Len(C!Expire(C!Older(s))) \in Nat
<1>1. PICK f : From(s, f) BY WindowIsATail
<1>2. /\ a \in Seq(Nat) /\ Len(a) = Len(s) - f + 1
      /\ \A i \in 1 .. Len(s) - f + 1 : a[i] = s[f + i - 1]
  BY <1>1, Kept
<1>3. /\ Len(s) \in Nat /\ f \in 1 .. Len(s) + 1 /\ (\A k \in 1 .. Len(s) : s[k] \in Nat)
      /\ DOMAIN s = 1 .. Len(s) /\ DOMAIN a = 1 .. Len(a) /\ Window \in Nat
  BY <1>1, <1>2, LenProperties, ElementOfSeq, PartsAssumption DEF Aged, From
<1> DEFINE next(n) == IF n < Window THEN n + 1 ELSE n
<1>4. PICK o : o = C!Older(s) OBVIOUS
<1>5. o \in Seq(Nat) /\ Len(o) = Len(s) /\ \A k \in 1 .. Len(s) : o[k] = next(s[k])
  BY <1>3, <1>4 DEF C!Older
<1>6. PICK b : b = C!Older(a) OBVIOUS
<1>7. b \in Seq(Nat) /\ Len(b) = Len(a) /\ \A k \in 1 .. Len(a) : b[k] = next(a[k])
  <2>1. \A k \in 1 .. Len(a) : a[k] \in Nat BY <1>2, ElementOfSeq
  <2>2. Len(a) \in Nat BY <1>2, <1>3
  <2> QED BY <1>3, <1>6, <2>1, <2>2 DEF C!Older
<1>8. Aged(o)
  <2>1. ASSUME NEW i \in 1 .. Len(s), NEW j \in 1 .. Len(s), i <= j PROVE o[j] <= o[i]
    <3>1. s[j] <= s[i] /\ s[i] \in Nat /\ s[j] \in Nat BY <1>3, <2>1 DEF Aged
    <3> QED BY <1>3, <1>5, <3>1
  <2> QED BY <1>5, <2>1 DEF Aged
<1>9. PICK g : From(o, g) BY <1>8, WindowIsATail
<1>10. g \in 1 .. Len(s) + 1 /\ f <= g
  <2>1. g \in 1 .. Len(s) + 1 BY <1>5, <1>9 DEF From
  <2>2. CASE g = Len(s) + 1 BY <1>3, <2>2
  <2>3. CASE g # Len(s) + 1
    <3>1. g \in 1 .. Len(s) BY <1>3, <2>1, <2>3
    <3>2. o[g] < Window BY <1>5, <1>9, <3>1 DEF From
    <3>3. s[g] < Window BY <1>3, <1>5, <3>1, <3>2
    <3> QED BY <1>1, <3>1, <3>3 DEF From
  <2> QED BY <2>1, <2>2, <2>3
<1>11. \A i \in 1 .. Len(b) : b[i] = o[f + i - 1] /\ f + i - 1 \in 1 .. Len(s)
  <2>1. ASSUME NEW i \in 1 .. Len(b) PROVE b[i] = o[f + i - 1] /\ f + i - 1 \in 1 .. Len(s)
    <3>1. i \in 1 .. Len(a) /\ i \in 1 .. Len(s) - f + 1 /\ f + i - 1 \in 1 .. Len(s)
      BY <1>2, <1>3, <1>7
    <3>2. b[i] = next(a[i]) /\ a[i] = s[f + i - 1] /\ o[f + i - 1] = next(s[f + i - 1])
      BY <1>2, <1>5, <1>7, <3>1
    <3> QED BY <3>1, <3>2
  <2> QED BY <2>1
<1>12. {k \in DOMAIN b : b[k] >= Window} = 1 .. g - f
  <2>1. DOMAIN b = 1 .. Len(b) /\ Len(b) = Len(s) - f + 1 BY <1>2, <1>7, LenProperties
  <2>2. \A k \in 1 .. Len(b) : o[f + k - 1] \in Nat /\ (o[f + k - 1] < Window <=> g <= f + k - 1)
    BY <1>5, <1>9, <1>11, ElementOfSeq DEF From
  <2>3. \A k \in 1 .. Len(b) : b[k] >= Window <=> k <= g - f
    BY <1>3, <1>10, <1>11, <2>1, <2>2
  <2>4. g - f <= Len(b) /\ g - f \in Nat BY <1>3, <1>10, <2>1
  <2> QED BY <1>3, <2>1, <2>3, <2>4
<1>13. C!Cardinality({k \in DOMAIN b : b[k] >= Window}) = g - f
  <2>1. g - f \in Nat /\ 1 \in Int /\ g - f \in Int BY <1>3, <1>10
  <2>2. Cardinality(1 .. g - f) = IF 1 > g - f THEN 0 ELSE (g - f) - 1 + 1 BY <2>1, FS_Interval
  <2>3. Cardinality(1 .. g - f) = g - f
    <3>1. PICK d \in Nat : d = g - f BY <2>1
    <3>2. Cardinality(1 .. d) = IF 1 > d THEN 0 ELSE d - 1 + 1 BY <2>2, <3>1
    <3> QED BY <3>1, <3>2
  <2> QED BY <1>12, <2>3, CarriersCard
<1>14. C!LastWindow(b) = SubSeq(b, 1 + g - f, Len(b))
  <2>1. 1 + (g - f) = 1 + g - f BY <1>3, <1>10
  <2> QED BY <1>13, <2>1 DEF C!LastWindow
<1>15. /\ C!LastWindow(b) \in Seq(Nat) /\ Len(C!LastWindow(b)) = Len(s) - g + 1
       /\ \A i \in 1 .. Len(s) - g + 1 : C!LastWindow(b)[i] = b[g - f + i]
  <2>1. 1 + g - f \in Int /\ Len(b) \in Int /\ Len(b) = Len(s) - f + 1 /\ 1 + g - f >= 1
    BY <1>2, <1>3, <1>7, <1>10
  <2>2. \A i \in 1 + g - f .. Len(b) : b[i] \in Nat BY <1>7, <2>1, ElementOfSeq
  <2>3. /\ SubSeq(b, 1 + g - f, Len(b)) \in Seq(Nat)
        /\ Len(SubSeq(b, 1 + g - f, Len(b)))
             = IF 1 + g - f <= Len(b) THEN Len(b) - (1 + g - f) + 1 ELSE 0
        /\ \A i \in 1 .. Len(b) - (1 + g - f) + 1 : SubSeq(b, 1 + g - f, Len(b))[i] = b[1 + g - f + i - 1]
    BY <2>1, <2>2, SubSeqProperties
  <2>4. Len(b) - (1 + g - f) + 1 = Len(s) - g + 1 BY <1>3, <1>10, <2>1
  <2>5. (IF 1 + g - f <= Len(b) THEN Len(b) - (1 + g - f) + 1 ELSE 0) = Len(s) - g + 1
    BY <1>3, <1>10, <2>1
  <2>6. \A i \in 1 .. Len(s) - g + 1 : 1 + g - f + i - 1 = g - f + i BY <1>3, <1>10
  <2> QED BY <1>14, <2>3, <2>4, <2>5, <2>6
<1>16. /\ C!Expire(o) \in Seq(Nat) /\ Len(C!Expire(o)) = Len(s) - g + 1
       /\ \A i \in 1 .. Len(s) - g + 1 : C!Expire(o)[i] = o[g + i - 1]
  BY <1>5, <1>8, <1>9, Kept
<1>17. \A i \in 1 .. Len(s) - g + 1 : C!LastWindow(b)[i] = C!Expire(o)[i]
  <2>1. ASSUME NEW i \in 1 .. Len(s) - g + 1 PROVE b[g - f + i] = o[g + i - 1]
    <3>1. g - f + i \in 1 .. Len(b) /\ f + (g - f + i) - 1 = g + i - 1
      BY <1>2, <1>3, <1>7, <1>10
    <3> QED BY <1>11, <3>1
  <2> QED BY <1>15, <1>16, <2>1
<1>18. C!LastWindow(b) = C!Expire(o) BY <1>15, <1>16, <1>17, SeqEqual
<1> QED BY <1>2, <1>3, <1>4, <1>6, <1>8, <1>10, <1>16, <1>18

\* What a carrier's budget remembers, the history agrees with once it is expired, and a call
\* is made only when that leaves room.
Paced(s, a) == Aged(s) /\ a = C!Expire(s) /\ Len(a) <= Limit
PaceInv == \A c \in Carriers : Paced(spent[c], asked[c])
PaceTypes == spent \in [Carriers -> Seq(Nat)] /\ asked \in [Carriers -> Seq(Nat)]

\* An empty window is in step with an empty history.
LEMMA NothingSpent == Paced(<<>>, <<>>)
<1>1. <<>> \in Seq(Nat) /\ Len(<<>>) = 0 BY EmptySeq
<1>2. Aged(<<>>) /\ From(<<>>, 1) BY <1>1 DEF Aged, From
<1>3. C!Expire(<<>>) = <<>>
  <2>1. C!Expire(<<>>) = SubSeq(<<>>, 1, 0) BY <1>1, <1>2, ExpireKeepsWindow
  <2> QED BY <2>1, SubSeqEmpty
<1> QED BY <1>1, <1>2, <1>3, PartsAssumption DEF Paced

\* Every step of the poller keeps the windows.
LEMMA PaceSteps ==
  ASSUME PaceTypes, PaceInv, [C!Next]_(C!vars)
  PROVE  PaceTypes' /\ PaceInv'
<1>1. ASSUME NEW c \in Carriers, C!Ask(c) PROVE PaceTypes' /\ PaceInv'
  <2>1. CASE c \notin Budgeted
    <3>1. UNCHANGED <<spent, asked>> BY <1>1, <2>1 DEF C!Ask, C!Spend
    <3> QED BY <3>1 DEF PaceTypes, PaceInv
  <2>2. CASE c \in Budgeted
    <3>1. /\ spent' = [spent EXCEPT ![c] = Append(C!Expire(spent[c]), 0)]
          /\ asked' = [asked EXCEPT ![c] = Append(asked[c], 0)]
          /\ ~(Len(C!Expire(spent[c])) >= Limit)
      BY <1>1, <2>2 DEF C!Ask, C!Spend, C!Open, C!Gated
    <3>2. Aged(spent[c]) /\ asked[c] = C!Expire(spent[c]) BY DEF PaceInv, Paced
    <3>3. PICK t : t = Append(C!Expire(spent[c]), 0) OBVIOUS
    <3>4. Aged(t) /\ C!Expire(t) = t /\ Len(t) = Len(asked[c]) + 1 BY <3>2, <3>3, SpendRolls
    <3>5. Len(asked[c]) \in Nat /\ Limit \in Nat BY LenProperties, PartsAssumption DEF PaceTypes
    <3>6. Paced(t, t) BY <3>1, <3>2, <3>4, <3>5 DEF Paced
    <3>7. t \in Seq(Nat) BY <3>4 DEF Aged
    <3>8. spent' = [spent EXCEPT ![c] = t] /\ asked' = [asked EXCEPT ![c] = t] BY <3>1, <3>2, <3>3
    <3> QED BY <3>6, <3>7, <3>8 DEF PaceTypes, PaceInv
  <2> QED BY <2>1, <2>2
<1>2. CASE C!Tick
  <2>1. /\ spent' = [c \in Carriers |-> C!Older(spent[c])]
        /\ asked' = [c \in Carriers |-> C!LastWindow(C!Older(asked[c]))]
    BY <1>2 DEF C!Tick
  <2>2. ASSUME NEW c \in Carriers
        PROVE  /\ spent'[c] \in Seq(Nat) /\ asked'[c] \in Seq(Nat) /\ Paced(spent'[c], asked'[c])
    <3>1. Aged(spent[c]) /\ asked[c] = C!Expire(spent[c]) /\ Len(asked[c]) <= Limit BY DEF PaceInv, Paced
    <3>2. PICK s, a : s = C!Older(spent[c]) /\ a = C!LastWindow(C!Older(asked[c])) OBVIOUS
    <3>3. /\ Aged(s) /\ a = C!Expire(s) /\ Len(a) <= Len(asked[c])
          /\ Len(a) \in Nat /\ Len(asked[c]) \in Nat
      BY <3>1, <3>2, TickRolls
    <3>4. Len(a) <= Limit BY <3>1, <3>3, PartsAssumption
    <3>5. a \in Seq(Nat) /\ s \in Seq(Nat)
      <4>1. PICK f : From(s, f) BY <3>3, WindowIsATail
      <4> QED BY <3>3, <4>1, Kept DEF Aged
    <3>6. spent'[c] = s /\ asked'[c] = a BY <2>1, <3>2
    <3> QED BY <3>3, <3>4, <3>5, <3>6 DEF Paced
  <2>3. PaceTypes'
    <3>1. DOMAIN spent' = Carriers /\ DOMAIN asked' = Carriers BY <2>1
    <3>2. spent' = [c \in Carriers |-> spent'[c]] /\ asked' = [c \in Carriers |-> asked'[c]] BY <2>1
    <3> QED BY <2>2, <3>2 DEF PaceTypes
  <2> QED BY <2>2, <2>3 DEF PaceInv
<1>3. CASE C!Restart
  <2>1. spent' = [c \in Carriers |-> <<>>] /\ asked' = [c \in Carriers |-> <<>>]
    BY <1>3 DEF C!Restart, C!Empty
  <2> QED BY <2>1, NothingSpent, EmptySeq DEF PaceTypes, PaceInv
<1>4. CASE UNCHANGED <<spent, asked>> BY <1>4 DEF PaceTypes, PaceInv
<1> QED BY <1>1, <1>2, <1>3, <1>4
        DEF C!Next, C!Work, C!Pass, C!PassEnds, C!Answer, C!Track, C!NotFound, C!Transient, C!Refused,
            C!Ends, C!pacing, C!Reopens, C!Due, C!Reconcile, C!Retract, C!vars

(* At most `limit` calls to a budgeted carrier in any window, for any limit and window and
   however the calls lie over it (poller.rs `Budget`): the memory is expired only from the
   front, and every call still inside the window is in it. *)
THEOREM WindowsHold == PartsSpec => []BudgetRolls
<1>1. PartsInit => PaceTypes /\ PaceInv
  <2> SUFFICES ASSUME PartsInit PROVE PaceTypes /\ PaceInv OBVIOUS
  <2>1. spent = [c \in Carriers |-> <<>>] /\ asked = [c \in Carriers |-> <<>>]
    BY CarriersRun DEF C!Init, C!Empty
  <2> QED BY <2>1, NothingSpent, EmptySeq DEF PaceTypes, PaceInv
<1>2. (PaceTypes /\ PaceInv) /\ [PartsNext]_partsVars => (PaceTypes /\ PaceInv)'
  BY CarriersRun, PaceSteps
<1>3. PaceInv => BudgetRolls
  BY PartsAssumption DEF PaceInv, Paced, BudgetRolls, C!BudgetRolls
<1> QED BY <1>1, <1>2, <1>3, PTL DEF PartsSpec

-----------------------------------------------------------------------------
(* Reconnects *)

\* A run of all the parts is, for the reconnects, a run of theirs.
LEMMA ReconnectsRun == /\ PartsInit => R!Init
                       /\ [PartsNext]_partsVars => [R!Next]_(R!vars)
<1>1. PartsInit => R!Init
  BY DEF PartsInit
<1>2. PartsNext => R!Next \/ UNCHANGED reconnectVars
  BY DEF PartsNext, BesideCarriers, BesideBroker, BesideLane, BesideBudget,
         BesidePush, BesideStream, BesideOpens, BesideHeal
<1> QED BY <1>1, <1>2 DEF partsVars, reconnectVars, R!vars

Ended == {"complete", "refused", "gave_up"}
JobRow == [state : {"none", "pending", "gone"} \cup Ended, label : Labels \cup {0},
           holds : Consents \cup {0}, attempts : Nat, due : BOOLEAN, lease : {"none", "live", "past"}]
CallRow == [at : {"idle", "calling", "answered", "cut", "orphan"}, job : Consents \cup {0},
            holds : Consents \cup {0}, before : Nat, wrote : BOOLEAN,
            answer : {"none", "pending"} \cup Ended, loose : BOOLEAN]
JobTypes ==
  /\ job \in [Consents -> JobRow] /\ worker \in [Workers -> CallRow]
  /\ view \in [Consents -> Consents \cup {0}] /\ cluster \in [Labels -> Consents \cup {0}]
\* The consents that asked for a label.
Asking(l) == {c \in Consents : view[c] # 0 /\ job[view[c]].label = l}
Greatest(T) == IF T = {} THEN 0 ELSE CHOOSE c \in T : \A d \in T : d <= c
\* The rows, the views and the cluster: a pending row holds the newest consent of its label.
RowsInv ==
  /\ \A c \in Consents : /\ view[c] = 0 => job[c].state = "none"
                         /\ view[c] # 0 => job[view[c]].state # "none"
                         /\ job[c].state # "none" => job[c].label \in Labels
                         /\ job[c].state = "none" => job[c].lease = "none"
                         /\ job[c].state = "pending" =>
                              /\ job[c].holds \in Consents /\ view[job[c].holds] = c
                              /\ \A d \in Asking(job[c].label) : d <= job[c].holds
  /\ \A c, d \in Consents : view[d] # 0 /\ c < d => view[c] # 0
  /\ \A l \in Labels : /\ cluster[l] # 0 => cluster[l] \in Asking(l)
                       /\ Asking(l) # {} => \E n \in Asking(l) : \A d \in Asking(l) : d <= n
Of(w) == job[worker[w].job].label
\* A call still under its lease is the only such call of its label, and brings nothing
\* older than what is installed or may be by others.
Firm(w) ==
  /\ job[worker[w].job].state = "pending" /\ job[worker[w].job].lease = "live"
  /\ cluster[Of(w)] <= worker[w].holds
  /\ \A v \in Workers \ {w} : worker[v].at # "idle" /\ Of(v) = Of(w) =>
                                worker[v].loose /\ worker[v].holds <= worker[w].holds
CallInv(w) ==
  worker[w].at # "idle" =>
    /\ worker[w].job \in Consents /\ worker[w].holds \in Asking(Of(w))
    /\ job[worker[w].job].state # "none"
    /\ worker[w].at \in {"answered", "cut"} => worker[w].answer # "none"
    /\ worker[w].answer = "complete" => worker[w].wrote
    /\ ~worker[w].loose => Firm(w)
JobsInv == JobTypes /\ RowsInv /\ \A w \in Workers : CallInv(w)
\* Short of doubt: what the newest consent's call installed stands, and nothing older strays.
Last(w) == \A d \in Asking(Of(w)) : d <= worker[w].holds
Landed(w) == worker[w].at # "idle" /\ worker[w].wrote /\ Last(w) => cluster[Of(w)] = worker[w].holds
Stray(w) == /\ worker[w].at \in {"calling", "cut", "orphan"}
            /\ worker[w].loose /\ ~worker[w].wrote /\ ~Last(w)
SureInv == \A w \in Workers : Of(w) \notin doubt => Landed(w) /\ ~Stray(w)
Lands == \A w \in Workers : Of(w)' \notin doubt => Landed(w)'

\* Consents are counted from one.
LEMMA ConsentsCount == Consents \subseteq Nat /\ 0 \notin Consents
BY PartsAssumption

\* No consent is older than itself.
LEMMA NotBeforeItself == \A c \in Consents : c <= c
BY ConsentsCount

\* The newest consent of a label is the greatest that asked.
LEMMA NewestIsGreatest ==
  ASSUME NEW l
  PROVE  R!Newest(l) = Greatest(Asking(l)) /\ R!Newest(l)' = Greatest(Asking(l)')
BY DEF R!Newest, R!Label, Asking, Greatest

\* A member above all others is the greatest.
LEMMA GreatestIs ==
  ASSUME NEW T \in SUBSET Nat, NEW n \in T, \A d \in T : d <= n
  PROVE  Greatest(T) = n
<1>1. \A c \in T : (\A d \in T : d <= c) => c = n OBVIOUS
<1> QED BY <1>1 DEF Greatest

\* No job, no call and no doubt to start with.
LEMMA JobsStart == R!Init => JobsInv /\ SureInv /\ doubt \subseteq Labels
BY ConsentsCount DEF R!Init, R!NoJob, R!NoWork, JobsInv, JobTypes, RowsInv, CallInv, SureInv,
   Landed, Stray, JobRow, CallRow, Asking, Ended

\* Pending rows of one label are one row.
LEMMA OnePending ==
  ASSUME JobsInv, NEW j \in Consents, NEW k \in Consents,
         job[j].state = "pending", job[k].state = "pending", job[j].label = job[k].label
  PROVE  j = k
<1>1. /\ job[j].holds \in Consents /\ view[job[j].holds] = j
      /\ job[k].holds \in Consents /\ view[job[k].holds] = k
  BY DEF JobsInv, RowsInv
<1>2. job[j].holds \in Asking(job[j].label) /\ job[k].holds \in Asking(job[k].label)
  BY <1>1, ConsentsCount DEF Asking
<1>3. job[j].holds <= job[k].holds /\ job[k].holds <= job[j].holds
  BY <1>2 DEF JobsInv, RowsInv
<1>4. job[j].holds = job[k].holds BY <1>1, <1>3, ConsentsCount
<1> QED BY <1>1, <1>4

\* Rows whose consents do not change stay right.
LEMMA RowsKept ==
  ASSUME JobsInv, view' = view,
         \A c \in Consents : /\ job'[c].label = job[c].label
                             /\ \/ job'[c].state = job[c].state
                                \/ job[c].state # "none" /\ job'[c].state \notin {"none", "pending"}
                             /\ job'[c].state = "pending" => job'[c].holds = job[c].holds
                             /\ job'[c].state = "none" => job'[c].lease = "none",
         \A l \in Labels : cluster'[l] # 0 => cluster'[l] \in Asking(l)
  PROVE  RowsInv' /\ \A l : Asking(l)' = Asking(l)
<1>1. \A l : Asking(l)' = Asking(l)
  BY DEF Asking, JobsInv, JobTypes
<1>2. ASSUME NEW c \in Consents
      PROVE  (/\ view[c] = 0 => job[c].state = "none"
              /\ view[c] # 0 => job[view[c]].state # "none"
              /\ job[c].state # "none" => job[c].label \in Labels
              /\ job[c].state = "none" => job[c].lease = "none"
              /\ job[c].state = "pending" =>
                   /\ job[c].holds \in Consents /\ view[job[c].holds] = c
                   /\ \A d \in Asking(job[c].label) : d <= job[c].holds)'
  <2>1. view[c] \in Consents \cup {0} BY DEF JobsInv, JobTypes
  <2> QED BY <1>1, <1>2, <2>1 DEF JobsInv, RowsInv
<1>3. RowsInv' BY <1>1, <1>2 DEF JobsInv, RowsInv
<1> QED BY <1>1, <1>3

\* The promise notices only the states and the cluster.
LEMMA Unnoticed ==
  ASSUME JobsInv, view' = view,
         \A c \in Consents : job'[c].label = job[c].label
  PROVE  /\ [l \in Labels |-> R!Newest(l)]' = [l \in Labels |-> R!Newest(l)]
         /\ \A c \in Consents : (view[c] = 0 \/ job'[view[c]].state = job[view[c]].state) =>
                                  R!Watched(c)' = R!Watched(c)
<1>1. \A l \in Labels : Asking(l)' = Asking(l) BY DEF Asking, JobsInv, JobTypes
<1>2. \A l \in Labels : R!Newest(l)' = R!Newest(l) BY <1>1, NewestIsGreatest
<1>3. \A c \in Consents : (view[c] = 0 \/ job'[view[c]].state = job[view[c]].state) =>
                            R!Watched(c)' = R!Watched(c)
  BY DEF R!Watched
<1> QED BY <1>2, <1>3

\* Steps that change no state, view or credential serve.
LEMMA Silent ==
  ASSUME JobsInv, UNCHANGED <<view, cluster>>,
         \A c \in Consents : job'[c].label = job[c].label /\ job'[c].state = job[c].state
  PROVE  R!N!Serve
<1>1. \A c \in Consents : view[c] = 0 \/ view[c] \in Consents BY DEF JobsInv, JobTypes
<1>2. \A c \in Consents : R!Watched(c)' = R!Watched(c) BY <1>1, Unnoticed
<1>3. [l \in Labels |-> R!Newest(l)]' = [l \in Labels |-> R!Newest(l)] BY Unnoticed
<1>4. [c \in Consents |-> R!Watched(c)]' = [c \in Consents |-> R!Watched(c)] BY <1>2
<1> QED BY <1>3, <1>4 DEF R!N!Serve

\* Writing one row.
LEMMA JobWrites ==
  ASSUME JobTypes, NEW j \in Consents, NEW r \in JobRow, job' = [job EXCEPT ![j] = r]
  PROVE  /\ job' \in [Consents -> JobRow] /\ job'[j] = r
         /\ \A k \in Consents \ {j} : job'[k] = job[k]
BY DEF JobTypes

\* A row that keeps its state, its label and what it holds.
LEMMA QuietRow ==
  ASSUME JobsInv, NEW j \in Consents, NEW r \in JobRow, job' = [job EXCEPT ![j] = r],
         r.state = job[j].state, r.label = job[j].label, r.holds = job[j].holds,
         job[j].state # "none", worker' \in [Workers -> CallRow], UNCHANGED <<view, cluster>>
  PROVE  /\ JobTypes' /\ RowsInv' /\ job'[j] = r /\ \A l : Asking(l)' = Asking(l)
         /\ \A k \in Consents \ {j} : job'[k] = job[k]
         /\ \A k \in Consents : /\ job'[k].state = job[k].state /\ job'[k].label = job[k].label
                                /\ job'[k].holds = job[k].holds
<1>1. JobTypes BY DEF JobsInv
<1>2. /\ job' \in [Consents -> JobRow] /\ job'[j] = r
      /\ \A k \in Consents \ {j} : job'[k] = job[k]
  BY <1>1, JobWrites
<1>3. \A k \in Consents : /\ job'[k].state = job[k].state /\ job'[k].label = job[k].label
                          /\ job'[k].holds = job[k].holds
  BY <1>2
<1>4. JobTypes' BY <1>1, <1>2 DEF JobTypes
<1>5. \A k \in Consents : job'[k].state = "none" => job'[k].lease = "none"
  BY <1>2 DEF JobsInv, RowsInv
<1>6. RowsInv' /\ \A l : Asking(l)' = Asking(l)
  <2>1. \A l \in Labels : cluster'[l] # 0 => cluster'[l] \in Asking(l) BY DEF JobsInv, RowsInv
  <2> QED BY <1>3, <1>5, <2>1, RowsKept
<1> QED BY <1>2, <1>3, <1>4, <1>6

\* A call that ends, or goes on under what it had, or has lost its lease.
Follows(v) ==
  \/ worker'[v].at = "idle"
  \/ /\ worker[v].at # "idle" /\ worker'[v].job = worker[v].job
     /\ worker'[v].holds = worker[v].holds /\ worker'[v].wrote = worker[v].wrote
     /\ worker[v].loose => worker'[v].loose
     /\ worker'[v].at \in {"answered", "cut"} => worker'[v].answer # "none"
     /\ worker'[v].answer = "complete" => worker'[v].wrote
     /\ \/ worker'[v].loose
        \/ /\ job'[worker[v].job].state = job[worker[v].job].state
           /\ job'[worker[v].job].lease = job[worker[v].job].lease
AllFollow ==
  /\ \A v \in Workers : Follows(v)
  /\ \A l : Asking(l)' = Asking(l)
  /\ \A k \in Consents : /\ job'[k].label = job[k].label
                         /\ job[k].state # "none" => job'[k].state # "none"
LEMMA CallsFollow ==
  ASSUME JobsInv, UNCHANGED cluster, AllFollow
  PROVE  (\A w \in Workers : CallInv(w)') /\ (SureInv => Lands)
<1>1. ASSUME NEW w \in Workers, worker'[w].at # "idle"
      PROVE  /\ worker[w].at # "idle" /\ worker'[w].job = worker[w].job /\ worker[w].job \in Consents
             /\ Of(w)' = Of(w) /\ worker'[w].holds = worker[w].holds
             /\ worker'[w].wrote = worker[w].wrote /\ (worker[w].loose => worker'[w].loose)
  <2>1. CallInv(w) /\ Follows(w) BY DEF JobsInv, AllFollow
  <2>2. worker[w].at # "idle" /\ worker'[w].job = worker[w].job /\ worker[w].job \in Consents
    BY <1>1, <2>1 DEF Follows, CallInv
  <2>3. Of(w)' = Of(w) BY <2>2 DEF Of, AllFollow
  <2> QED BY <1>1, <2>1, <2>2, <2>3 DEF Follows
<1>2. ASSUME NEW w \in Workers PROVE CallInv(w)'
  <2>1. SUFFICES ASSUME worker'[w].at # "idle" PROVE CallInv(w)'
    BY DEF CallInv
  <2>2. CallInv(w) /\ Follows(w) BY DEF JobsInv, AllFollow
  <2>3. /\ worker[w].at # "idle" /\ worker'[w].job = worker[w].job /\ worker[w].job \in Consents
        /\ Of(w)' = Of(w) /\ worker'[w].holds = worker[w].holds
    BY <1>1, <2>1
  <2>4. worker'[w].holds \in Asking(Of(w))'
    <3>1. Asking(Of(w))' = Asking(Of(w)) BY <2>3 DEF AllFollow, Asking
    <3> QED BY <2>2, <2>3, <3>1 DEF CallInv
  <2>5. job'[worker'[w].job].state # "none" BY <2>2, <2>3 DEF CallInv, AllFollow
  <2>6. ASSUME ~worker'[w].loose PROVE Firm(w)'
    <3>1. /\ ~worker[w].loose /\ job'[worker[w].job].state = job[worker[w].job].state
          /\ job'[worker[w].job].lease = job[worker[w].job].lease
      BY <2>1, <2>2, <2>6 DEF Follows
    <3>2. Firm(w) BY <2>2, <2>3, <3>1 DEF CallInv
    <3>3. ASSUME NEW v \in Workers \ {w}, worker'[v].at # "idle", Of(v)' = Of(w)'
          PROVE  worker'[v].loose /\ worker'[v].holds <= worker'[w].holds
      <4>1. /\ worker[v].at # "idle" /\ Of(v)' = Of(v) /\ worker'[v].holds = worker[v].holds
            /\ worker[v].loose => worker'[v].loose
        BY <1>1, <3>3
      <4> QED BY <2>3, <3>2, <3>3, <4>1 DEF Firm
    <3>4. cluster'[Of(w)'] <= worker'[w].holds BY <2>3, <3>2 DEF Firm
    <3> QED BY <2>3, <3>1, <3>2, <3>3, <3>4 DEF Firm
  <2> QED BY <2>1, <2>2, <2>3, <2>4, <2>5, <2>6 DEF CallInv, Follows
<1>3. ASSUME SureInv, NEW w \in Workers, Of(w)' \notin doubt PROVE Landed(w)'
  <2>1. SUFFICES ASSUME worker'[w].at # "idle", worker'[w].wrote, Last(w)'
                 PROVE  cluster'[Of(w)'] = worker'[w].holds
    BY DEF Landed
  <2>2. /\ worker[w].at # "idle" /\ Of(w)' = Of(w) /\ worker'[w].holds = worker[w].holds
        /\ worker'[w].wrote = worker[w].wrote
    BY <1>1, <2>1
  <2>3. Asking(Of(w))' = Asking(Of(w)) BY <2>2 DEF AllFollow, Asking
  <2>4. Last(w) BY <2>1, <2>2, <2>3 DEF Last
  <2> QED BY <1>3, <2>1, <2>2, <2>4 DEF SureInv, Landed
<1> QED BY <1>2, <1>3 DEF Lands

\* Calls that go on, are answered, or are over, beside unchanged rows.
LEMMA CallsOnly ==
  ASSUME JobsInv, SureInv, UNCHANGED <<job, view, cluster>>, worker' \in [Workers -> CallRow],
         \A v \in Workers : Follows(v)
  PROVE  JobsInv' /\ R!N!Serve /\ Lands
<1>1. JobTypes' /\ RowsInv' BY DEF JobsInv, JobTypes, RowsInv, Asking
<1>2. AllFollow BY DEF AllFollow, Asking
<1>3. (\A w \in Workers : CallInv(w)') /\ Lands BY <1>2, CallsFollow
<1> QED BY <1>1, <1>3, Silent DEF JobsInv

\* What losing its lease leaves of a call.
Loose(p, b) == [p EXCEPT !.loose = @ \/ b]
LEMMA Loosened ==
  ASSUME NEW p \in CallRow, NEW b \in BOOLEAN
  PROVE  /\ Loose(p, b) \in CallRow /\ Loose(p, b).at = p.at /\ Loose(p, b).job = p.job
         /\ Loose(p, b).holds = p.holds /\ Loose(p, b).wrote = p.wrote
         /\ Loose(p, b).answer = p.answer
         /\ (p.loose => Loose(p, b).loose) /\ (b => Loose(p, b).loose)
BY DEF CallRow, Loose

\* What the client's leaving leaves of a call.
LEMMA LeftBehind ==
  ASSUME worker \in [Workers -> CallRow], NEW w \in Workers, NEW b \in BOOLEAN, NEW q, q = R!Left(w, b)
  PROVE  /\ q \in CallRow
         /\ \/ q.at = "idle"
            \/ /\ q.at = "orphan" /\ q.job = worker[w].job /\ q.holds = worker[w].holds
               /\ q.wrote = worker[w].wrote /\ q.answer = "none"
               /\ (worker[w].loose => q.loose) /\ (b => q.loose)
<1>1. /\ R!NoWork \in CallRow /\ R!NoWork.at = "idle" /\ R!NoWork.answer = "none" /\ ~R!NoWork.wrote
  BY DEF R!NoWork, CallRow
<1>2. worker[w] \in CallRow OBVIOUS
<1>3. CASE q = R!NoWork BY <1>1, <1>3
<1>4. CASE /\ ~worker[w].wrote
           /\ q = [R!NoWork EXCEPT !.at = "orphan", !.job = worker[w].job, !.holds = worker[w].holds,
                                   !.loose = worker[w].loose \/ b]
  <2>1. /\ worker[w].job \in Consents \cup {0} /\ worker[w].holds \in Consents \cup {0}
        /\ worker[w].wrote = FALSE
    BY <1>2, <1>4 DEF CallRow
  <2>2. PICK l \in BOOLEAN : l = (worker[w].loose \/ b) OBVIOUS
  <2>3. (worker[w].loose => l) /\ (b => l) BY <2>2
  <2>4. q = [R!NoWork EXCEPT !.at = "orphan", !.job = worker[w].job, !.holds = worker[w].holds, !.loose = l]
    BY <1>4, <2>2
  <2>5. /\ q \in CallRow /\ q.at = "orphan" /\ q.job = worker[w].job /\ q.holds = worker[w].holds
        /\ q.wrote = R!NoWork.wrote /\ q.answer = R!NoWork.answer /\ q.loose = l
    BY ONLY <1>1, <2>1, <2>4, l \in BOOLEAN DEF CallRow
  <2>6. q.wrote = FALSE /\ q.answer = "none" BY <2>5 DEF R!NoWork
  <2> QED BY <2>1, <2>3, <2>5, <2>6
<1> QED BY <1>3, <1>4 DEF R!Left

\* The end of a wait, a lost save, the end of an orphan and a crash serve.
LEMMA CallEndsServe ==
  ASSUME JobsInv, SureInv,
         (\E w \in Workers : R!Answer(w) \/ R!Cut(w) \/ R!SaveFails(w) \/ R!OrphanEnds(w)) \/ R!Crash
  PROVE  JobsInv' /\ R!N!Serve /\ Lands
<1>1. worker \in [Workers -> CallRow] /\ R!NoWork \in CallRow /\ R!NoWork.at = "idle"
  BY DEF JobsInv, JobTypes, R!NoWork, CallRow
<1>2. \A v \in Workers : CallInv(v) BY DEF JobsInv
<1>3. ASSUME NEW w \in Workers, R!Answer(w) \/ R!Cut(w) PROVE JobsInv' /\ R!N!Serve /\ Lands
  <2>1. PICK a \in {"pending"} \cup Ended, place \in {"answered", "cut"} :
          R!Ends(w, place, a) /\ (a = "complete" => worker[w].wrote)
    BY <1>3 DEF R!Answer, R!Cut, R!Unsettled, Ended
  <2>2. worker[w].at = "calling" /\ UNCHANGED <<job, view, cluster>>
        /\ worker' = [worker EXCEPT ![w].at = place, ![w].answer = a]
    BY <2>1 DEF R!Ends
  <2>3. a # "none" BY <2>1 DEF Ended
  <2> DEFINE c == [worker[w] EXCEPT !.at = place, !.answer = a]
  <2>4. worker' = [worker EXCEPT ![w] = c] BY <1>1, <2>2
  <2>5. /\ c \in CallRow /\ c.at = place /\ c.answer = a /\ c.job = worker[w].job
        /\ c.holds = worker[w].holds /\ c.wrote = worker[w].wrote /\ c.loose = worker[w].loose
    BY <1>1, <2>1 DEF CallRow
  <2> HIDE DEF c
  <2>6. worker' \in [Workers -> CallRow] /\ worker'[w] = c /\ \A v \in Workers \ {w} : worker'[v] = worker[v]
    BY <1>1, <2>4, <2>5
  <2>7. \A v \in Workers : Follows(v)
    <3>1. Follows(w) BY <2>1, <2>2, <2>3, <2>5, <2>6 DEF Follows
    <3>2. ASSUME NEW v \in Workers \ {w} PROVE Follows(v)
      BY <1>2, <2>2, <2>6 DEF Follows, CallInv
    <3> QED BY <3>1, <3>2
  <2> QED BY <2>2, <2>6, <2>7, CallsOnly
<1>4. ASSUME NEW w \in Workers, R!SaveFails(w) \/ R!OrphanEnds(w) PROVE JobsInv' /\ R!N!Serve /\ Lands
  <2>1. PICK q : /\ q = R!NoWork \/ (q = R!Left(w, FALSE) /\ worker[w].at # "idle")
                 /\ worker' = [worker EXCEPT ![w] = q] /\ UNCHANGED <<job, view, cluster>>
    BY <1>4 DEF R!SaveFails, R!OrphanEnds
  <2>2. /\ q \in CallRow
        /\ \/ q.at = "idle"
           \/ /\ worker[w].at # "idle"
              /\ q.at = "orphan" /\ q.job = worker[w].job /\ q.holds = worker[w].holds
              /\ q.wrote = worker[w].wrote /\ q.answer = "none" /\ (worker[w].loose => q.loose)
    <3>1. CASE q = R!NoWork BY <1>1, <3>1
    <3>2. CASE q = R!Left(w, FALSE) /\ worker[w].at # "idle" BY <1>1, <3>2, LeftBehind
    <3> QED BY <2>1, <3>1, <3>2
  <2>3. /\ worker' \in [Workers -> CallRow] /\ worker'[w] = q
        /\ \A v \in Workers \ {w} : worker'[v] = worker[v]
    BY <1>1, <2>1, <2>2
  <2>4. \A v \in Workers : Follows(v)
    <3>1. Follows(w) BY <2>1, <2>2, <2>3 DEF Follows
    <3>2. ASSUME NEW v \in Workers \ {w} PROVE Follows(v)
      BY <1>2, <2>1, <2>3 DEF Follows, CallInv
    <3> QED BY <3>1, <3>2
  <2> QED BY <2>1, <2>3, <2>4, CallsOnly
<1>5. CASE R!Crash
  <2>1. /\ worker' = [v \in Workers |-> IF v \in R!Busy THEN R!Left(v, FALSE) ELSE worker[v]]
        /\ UNCHANGED <<job, view, cluster>>
    BY <1>5 DEF R!Crash
  <2>2. ASSUME NEW v \in Workers PROVE Follows(v) /\ worker'[v] \in CallRow
    <3>1. CASE v \in R!Busy
      <4>1. worker'[v] = R!Left(v, FALSE) /\ worker[v].at # "idle" BY <2>1, <3>1 DEF R!Busy
      <4>2. PICK q : q = worker'[v] OBVIOUS
      <4>3. /\ q \in CallRow
            /\ \/ q.at = "idle"
               \/ /\ q.at = "orphan" /\ q.job = worker[v].job /\ q.holds = worker[v].holds
                  /\ q.wrote = worker[v].wrote /\ q.answer = "none" /\ (worker[v].loose => q.loose)
        BY <1>1, <4>1, <4>2, LeftBehind
      <4> QED BY <2>1, <4>1, <4>2, <4>3 DEF Follows
    <3>2. CASE v \notin R!Busy
      <4>1. worker'[v] = worker[v] BY <2>1, <3>2
      <4> QED BY <1>1, <1>2, <2>1, <4>1 DEF Follows, CallInv
    <3> QED BY <3>1, <3>2
  <2>3. worker' \in [Workers -> CallRow] BY <2>1, <2>2
  <2> QED BY <2>1, <2>2, <2>3, CallsOnly
<1> QED BY <1>3, <1>4, <1>5

\* A lease that ends without its call takes the call's standing away.
LEMMA LeaseExpiresServes ==
  ASSUME JobsInv, SureInv, NEW j \in Consents, R!LeaseExpires(j)
  PROVE  JobsInv' /\ R!N!Serve /\ Lands
<1> DEFINE r == [job[j] EXCEPT !.lease = "past"]
<1>1. /\ job[j].lease = "live" /\ job' = [job EXCEPT ![j] = r] /\ UNCHANGED <<view, cluster>>
      /\ worker' = [w \in Workers |-> [worker[w] EXCEPT !.loose = @ \/ worker[w].job = j]]
  BY DEF R!LeaseExpires, JobsInv, JobTypes
<1>2. job[j] \in JobRow /\ job[j].state # "none" /\ worker \in [Workers -> CallRow]
  BY <1>1 DEF JobsInv, JobTypes, RowsInv
<1>3. r \in JobRow /\ r.state = job[j].state /\ r.label = job[j].label /\ r.holds = job[j].holds
  BY <1>2 DEF JobRow
<1> HIDE DEF r
<1>4. ASSUME NEW v \in Workers
      PROVE  /\ worker'[v] \in CallRow /\ worker'[v].at = worker[v].at /\ worker'[v].job = worker[v].job
             /\ worker'[v].holds = worker[v].holds /\ worker'[v].wrote = worker[v].wrote
             /\ worker'[v].answer = worker[v].answer
             /\ (worker[v].loose => worker'[v].loose) /\ (worker[v].job = j => worker'[v].loose)
  <2>1. PICK b \in BOOLEAN : b <=> worker[v].job = j OBVIOUS
  <2>2. worker'[v] = Loose(worker[v], b) BY <1>1, <2>1 DEF Loose
  <2> QED BY <1>2, <2>1, <2>2, Loosened
<1>5. worker' \in [Workers -> CallRow] BY <1>1, <1>4
<1>6. /\ JobTypes' /\ RowsInv' /\ \A l : Asking(l)' = Asking(l)
      /\ \A k \in Consents \ {j} : job'[k] = job[k]
      /\ \A k \in Consents : /\ job'[k].state = job[k].state /\ job'[k].label = job[k].label
                             /\ job'[k].holds = job[k].holds
  BY <1>1, <1>2, <1>3, <1>5, QuietRow
<1>7. ASSUME NEW v \in Workers PROVE Follows(v)
  <2>1. CallInv(v) BY DEF JobsInv
  <2>2. CASE worker[v].at = "idle" BY <1>4, <2>2 DEF Follows
  <2>3. CASE worker[v].at # "idle"
    <3>1. worker[v].job \in Consents BY <2>1, <2>3 DEF CallInv
    <3>2. worker'[v].loose \/ job'[worker[v].job] = job[worker[v].job] BY <1>4, <1>6, <3>1
    <3> QED BY <1>4, <2>1, <2>3, <3>2 DEF Follows, CallInv
  <2> QED BY <2>2, <2>3
<1>8. AllFollow BY <1>6, <1>7 DEF AllFollow
<1>9. (\A w \in Workers : CallInv(w)') /\ Lands BY <1>1, <1>8, CallsFollow
<1> QED BY <1>1, <1>6, <1>9, Silent DEF JobsInv

\* A row that becomes due again.
LEMMA BackoffServes ==
  ASSUME JobsInv, SureInv, NEW j \in Consents, R!BackoffEnds(j)
  PROVE  JobsInv' /\ R!N!Serve /\ Lands
<1> DEFINE r == [job[j] EXCEPT !.due = TRUE]
<1>1. /\ job[j].state = "pending" /\ job' = [job EXCEPT ![j] = r]
      /\ UNCHANGED <<view, worker, cluster>>
  BY DEF R!BackoffEnds, JobsInv, JobTypes
<1>2. job[j] \in JobRow /\ worker' \in [Workers -> CallRow]
  BY <1>1 DEF JobsInv, JobTypes
<1>3. /\ r \in JobRow /\ r.state = job[j].state /\ r.label = job[j].label /\ r.holds = job[j].holds
      /\ r.lease = job[j].lease
  BY <1>2 DEF JobRow
<1> HIDE DEF r
<1>4. /\ JobTypes' /\ RowsInv' /\ job'[j] = r /\ \A l : Asking(l)' = Asking(l)
      /\ \A k \in Consents \ {j} : job'[k] = job[k]
      /\ \A k \in Consents : /\ job'[k].state = job[k].state /\ job'[k].label = job[k].label
                             /\ job'[k].holds = job[k].holds
  BY <1>1, <1>2, <1>3, QuietRow
<1>5. \A k \in Consents : job'[k].lease = job[k].lease BY <1>3, <1>4
<1>6. ASSUME NEW v \in Workers PROVE Follows(v)
  <2>1. CallInv(v) BY DEF JobsInv
  <2> QED BY <1>1, <1>4, <1>5, <2>1 DEF Follows, CallInv
<1>7. AllFollow BY <1>4, <1>6 DEF AllFollow
<1>8. (\A w \in Workers : CallInv(w)') /\ Lands BY <1>1, <1>7, CallsFollow
<1> QED BY <1>1, <1>4, <1>8, Silent DEF JobsInv

\* A claim is not noticed, and the call it starts is the only firm one of its label.
LEMMA ClaimServes ==
  ASSUME JobsInv, SureInv, NEW w \in Workers, NEW j \in Consents, R!Claim(w, j)
  PROVE  JobsInv' /\ R!N!Serve /\ Lands
<1> DEFINE r == [job[j] EXCEPT !.lease = "live"]
           c == [R!NoWork EXCEPT !.at = "calling", !.job = j, !.holds = job[j].holds,
                                 !.before = job[j].attempts]
           l == job[j].label
<1>1. /\ job[j].state = "pending" /\ job[j].lease # "live" /\ job' = [job EXCEPT ![j] = r]
      /\ worker[w].at = "idle" /\ worker' = [worker EXCEPT ![w] = c]
      /\ UNCHANGED <<view, cluster>>
  BY DEF R!Claim, R!Claimable, JobsInv, JobTypes
<1>2. /\ job[j] \in JobRow /\ job[j].holds \in Consents /\ view[job[j].holds] = j
      /\ job[j].label \in Labels /\ worker \in [Workers -> CallRow]
      /\ \A d \in Asking(l) : d <= job[j].holds
  BY <1>1 DEF JobsInv, JobTypes, RowsInv
<1>3. /\ r \in JobRow /\ r.state = job[j].state /\ r.label = job[j].label /\ r.holds = job[j].holds
      /\ r.lease = "live"
      /\ c \in CallRow /\ c.at = "calling" /\ c.job = j /\ c.holds = job[j].holds
      /\ ~c.wrote /\ c.answer = "none"
  <2>1. /\ r \in JobRow /\ r.state = job[j].state /\ r.label = job[j].label /\ r.holds = job[j].holds
        /\ r.lease = "live"
    BY <1>2 DEF JobRow
  <2>2. job[j].attempts \in Nat /\ job[j].holds \in Consents BY <1>2 DEF JobRow
  <2>3. R!NoWork \in CallRow /\ ~R!NoWork.wrote /\ R!NoWork.answer = "none" BY DEF R!NoWork, CallRow
  <2>4. /\ c \in CallRow /\ c.at = "calling" /\ c.job = j /\ c.holds = job[j].holds
        /\ c.wrote = R!NoWork.wrote /\ c.answer = R!NoWork.answer
    BY <2>2, <2>3 DEF CallRow
  <2> QED BY <2>1, <2>3, <2>4
<1>4. /\ worker' \in [Workers -> CallRow] /\ worker'[w] = c
      /\ \A v \in Workers \ {w} : worker'[v] = worker[v]
  BY <1>1, <1>2, <1>3
<1> HIDE DEF r, c
<1>5. /\ JobTypes' /\ RowsInv' /\ job'[j] = r /\ \A m : Asking(m)' = Asking(m)
      /\ \A k \in Consents \ {j} : job'[k] = job[k]
      /\ \A k \in Consents : /\ job'[k].state = job[k].state /\ job'[k].label = job[k].label
                             /\ job'[k].holds = job[k].holds
  BY <1>1, <1>2, <1>3, <1>4, QuietRow
\* Every other call of the label has lost its lease, and brings nothing newer.
<1>6. ASSUME NEW v \in Workers, worker[v].at # "idle", Of(v) = l
      PROVE  worker[v].loose /\ worker[v].holds <= job[j].holds
  <2>1. CallInv(v) BY DEF JobsInv
  <2>2. ASSUME ~worker[v].loose PROVE FALSE
    <3>1. Firm(v) /\ worker[v].job \in Consents BY <1>6, <2>1, <2>2 DEF CallInv
    <3>2. worker[v].job = j BY <1>1, <1>6, <3>1, OnePending DEF Firm, Of
    <3> QED BY <1>1, <3>1, <3>2 DEF Firm
  <2>3. worker[v].holds \in Asking(l) BY <1>6, <2>1 DEF CallInv
  <2> QED BY <1>2, <2>2, <2>3
<1>7. /\ worker'[w].at = "calling" /\ worker'[w].job = j /\ worker'[w].holds = job[j].holds
      /\ ~worker'[w].wrote /\ worker'[w].answer = "none" /\ Of(w)' = l
  BY <1>3, <1>4, <1>5 DEF Of
<1>8. ASSUME NEW v \in Workers \ {w}, worker[v].at # "idle"
      PROVE  /\ worker[v].job \in Consents /\ Of(v)' = Of(v) /\ worker'[v] = worker[v] /\ CallInv(v)
  BY <1>4, <1>5, <1>8 DEF JobsInv, CallInv, Of
<1>9. ASSUME NEW v \in Workers \ {w} PROVE CallInv(v)' /\ (Of(v)' \notin doubt => Landed(v)')
  <2>1. CASE worker[v].at = "idle" BY <1>4, <2>1 DEF CallInv, Landed
  <2>2. CASE worker[v].at # "idle"
    <3>1. /\ worker[v].job \in Consents /\ Of(v)' = Of(v) /\ worker'[v] = worker[v]
          /\ CallInv(v) /\ Asking(Of(v))' = Asking(Of(v))
      BY <1>5, <1>8, <2>2 DEF Asking
    <3>2. ASSUME ~worker[v].loose PROVE Firm(v)'
      <4>1. Firm(v) /\ Of(v) # l BY <1>6, <2>2, <3>1, <3>2 DEF CallInv
      <4>2. worker[v].job # j BY <4>1 DEF Of
      <4>3. job'[worker[v].job] = job[worker[v].job] BY <1>5, <3>1, <4>2
      <4>4. ASSUME NEW u \in Workers \ {v}, worker'[u].at # "idle", Of(u)' = Of(v)'
            PROVE  worker'[u].loose /\ worker'[u].holds <= worker'[v].holds
        <5>1. u # w BY <1>7, <3>1, <4>1, <4>4
        <5> QED BY <1>4, <1>8, <3>1, <4>1, <4>4, <5>1 DEF Firm
      <4> QED BY <1>1, <3>1, <4>1, <4>3, <4>4 DEF Firm
    <3>3. Of(v)' \notin doubt => Landed(v)'
      BY <1>1, <3>1 DEF SureInv, Landed, Last
    <3> QED BY <1>5, <3>1, <3>2, <3>3 DEF CallInv
  <2> QED BY <2>1, <2>2
<1>10. CallInv(w)' /\ Landed(w)'
  <2>1. job[j].holds \in Asking(l)' BY <1>1, <1>2, <1>5, ConsentsCount DEF Asking
  <2>2. cluster[l] <= job[j].holds
    <3>1. CASE cluster[l] = 0
      <4>1. job[j].holds \in Nat BY <1>2, ConsentsCount
      <4> QED BY ONLY <3>1, <4>1
    <3>2. CASE cluster[l] # 0 BY <1>2, <3>2 DEF JobsInv, RowsInv
    <3> QED BY <3>1, <3>2
  <2>3. ASSUME NEW v \in Workers \ {w}, worker'[v].at # "idle", Of(v)' = l
        PROVE  worker'[v].loose /\ worker'[v].holds <= job[j].holds
    BY <1>4, <1>6, <1>8, <2>3
  <2>4. Firm(w)' BY <1>1, <1>3, <1>5, <1>7, <2>2, <2>3 DEF Firm
  <2>5. Asking(l)' = Asking(Of(w))'
    <3>1. l' = l BY <1>2, <1>5
    <3> QED BY <1>7, <3>1 DEF Asking
  <2> QED BY <1>1, <1>5, <1>7, <2>1, <2>4, <2>5 DEF CallInv, Landed
<1> QED BY <1>1, <1>5, <1>9, <1>10, Silent DEF JobsInv, Lands

\* A credential is installed: never an older one, short of doubt.
LEMMA InstallServes ==
  ASSUME JobsInv, SureInv, NEW w \in Workers, R!Install(w)
  PROVE  JobsInv' /\ R!N!Serve /\ Lands
<1> DEFINE j == worker[w].job
           l == Of(w)
           n == worker[w].holds
           c == [worker[w] EXCEPT !.wrote = TRUE]
<1>1. /\ worker[w].at \in {"calling", "cut", "orphan"} /\ ~worker[w].wrote
      /\ cluster' = [cluster EXCEPT ![l] = n]
      /\ worker' = [worker EXCEPT ![w] = c] /\ UNCHANGED <<job, view>>
  BY DEF R!Install, R!Label, JobsInv, JobTypes, Of
<1>2. worker \in [Workers -> CallRow] /\ worker[w] \in CallRow BY DEF JobsInv, JobTypes
<1>3. /\ c \in CallRow /\ c.at = worker[w].at /\ c.job = j /\ c.holds = n /\ c.wrote
      /\ c.answer = worker[w].answer /\ c.loose = worker[w].loose
  BY <1>2 DEF CallRow
<1>4. CallInv(w) BY DEF JobsInv
<1>5. /\ j \in Consents /\ n \in Asking(l) /\ n \in Consents /\ view[n] # 0
      /\ job[j].state # "none" /\ l \in Labels
  BY <1>1, <1>4 DEF CallInv, JobsInv, RowsInv, Of, Asking
<1>6. /\ worker' \in [Workers -> CallRow] /\ worker'[w] = c
      /\ \A v \in Workers \ {w} : worker'[v] = worker[v]
      /\ cluster' \in [Labels -> Consents \cup {0}] /\ cluster'[l] = n
      /\ \A m \in Labels \ {l} : cluster'[m] = cluster[m]
  BY <1>1, <1>2, <1>3, <1>5 DEF JobsInv, JobTypes
<1> HIDE DEF c
<1>7. JobTypes' BY <1>1, <1>6 DEF JobsInv, JobTypes
<1>8. RowsInv' /\ \A m : Asking(m)' = Asking(m)
  <2>1. \A m \in Labels : cluster'[m] # 0 => cluster'[m] \in Asking(m)
    BY <1>5, <1>6 DEF JobsInv, RowsInv
  <2>2. \A i \in Consents : job'[i].state = "none" => job'[i].lease = "none"
    BY <1>1 DEF JobsInv, RowsInv
  <2> QED BY <1>1, <2>1, <2>2, RowsKept
<1>9. \A v \in Workers : /\ worker'[v].at = worker[v].at /\ worker'[v].job = worker[v].job
                         /\ worker'[v].holds = worker[v].holds /\ worker'[v].loose = worker[v].loose
                         /\ worker'[v].answer = worker[v].answer /\ Of(v)' = Of(v)
                         /\ Asking(Of(v))' = Asking(Of(v))
  BY <1>1, <1>3, <1>6, <1>8 DEF Of, Asking
<1>10. ASSUME NEW v \in Workers PROVE CallInv(v)'
  <2>1. CallInv(v) BY DEF JobsInv
  <2>2. ASSUME worker[v].at # "idle", ~worker[v].loose PROVE Firm(v)'
    <3>1. Firm(v) /\ Of(v) \in Labels
      BY <2>1, <2>2 DEF CallInv, JobsInv, RowsInv, Of
    <3>2. cluster'[Of(v)] <= worker[v].holds
      <4>1. CASE v = w BY <1>5, <1>6, <4>1, NotBeforeItself
      <4>2. CASE v # w /\ Of(v) = l BY <1>1, <1>6, <3>1, <4>2 DEF Firm
      <4>3. CASE Of(v) # l BY <1>6, <3>1, <4>3 DEF Firm
      <4> QED BY <4>1, <4>2, <4>3
    <3>3. cluster'[Of(v)'] = cluster'[Of(v)] BY <1>9
    <3> QED BY <1>1, <1>9, <3>1, <3>2, <3>3 DEF Firm
  <2>3. worker[v].wrote => worker'[v].wrote BY <1>3, <1>6
  <2>4. worker'[v].holds \in Asking(Of(v))' <=> worker[v].holds \in Asking(Of(v)) BY <1>9
  <2> QED BY <1>1, <1>9, <2>1, <2>2, <2>3, <2>4 DEF CallInv
\* Short of doubt nobody strays, so that nothing newer is installed or may be.
<1>11. ASSUME l \notin doubt
       PROVE  /\ cluster[l] <= n
              /\ \A v \in Workers : /\ worker[v].at # "idle" /\ Of(v) = l
                                    /\ worker[v].wrote /\ Last(v)
                                    => worker[v].holds = n
  <2>1. CASE ~worker[w].loose
    <3>1. Firm(w) BY <1>1, <1>4, <2>1 DEF CallInv
    <3>2. ASSUME NEW v \in Workers, worker[v].at # "idle", Of(v) = l, worker[v].wrote, Last(v)
          PROVE  worker[v].holds = n
      <4>1. v # w BY <1>1, <3>2
      <4>2. worker[v].holds <= n BY <3>1, <3>2, <4>1 DEF Firm
      <4>3. n <= worker[v].holds BY <1>5, <3>2 DEF Last
      <4>4. worker[v].holds \in Consents BY <3>2 DEF JobsInv, CallInv, Asking
      <4>5. n \in Nat /\ worker[v].holds \in Nat BY <1>5, <4>4, ConsentsCount
      <4> QED BY ONLY <4>2, <4>3, <4>5
    <3> QED BY <3>1, <3>2 DEF Firm
  <2>2. CASE worker[w].loose
    <3>1. Last(w) BY <1>1, <1>11, <2>2 DEF SureInv, Stray
    <3>2. cluster[l] <= n
      <4>1. CASE cluster[l] = 0
        <5>1. n \in Nat BY <1>5, ConsentsCount
        <5> QED BY ONLY <4>1, <5>1
      <4>2. CASE cluster[l] # 0 BY <1>5, <3>1, <4>2 DEF JobsInv, RowsInv, Last
      <4> QED BY <4>1, <4>2
    <3>3. ASSUME NEW v \in Workers, worker[v].at # "idle", Of(v) = l, worker[v].wrote, Last(v)
          PROVE  worker[v].holds = n
      <4>1. worker[v].holds \in Asking(l) /\ worker[v].holds \in Consents
        BY <3>3 DEF JobsInv, CallInv, Asking
      <4>2. worker[v].holds <= n /\ n <= worker[v].holds BY <1>5, <3>1, <3>3, <4>1 DEF Last
      <4>3. n \in Nat /\ worker[v].holds \in Nat BY <1>5, <4>1, ConsentsCount
      <4> QED BY ONLY <4>2, <4>3
    <3> QED BY <3>2, <3>3
  <2> QED BY <2>1, <2>2
<1>12. ASSUME NEW v \in Workers, Of(v)' \notin doubt PROVE Landed(v)'
  <2>1. SUFFICES ASSUME worker'[v].at # "idle", worker'[v].wrote, Last(v)'
                 PROVE  cluster'[Of(v)'] = worker'[v].holds
    BY DEF Landed
  <2>2. worker[v].at # "idle" /\ Last(v) BY <1>9, <2>1 DEF Last
  <2>3. CASE v = w BY <1>3, <1>6, <1>9, <2>3
  <2>4. CASE v # w
    <3>1. worker[v].wrote /\ Of(v) \notin doubt /\ Landed(v)
      BY <1>6, <1>9, <1>12, <2>1, <2>4 DEF SureInv
    <3>2. CASE Of(v) = l BY <1>6, <1>9, <1>11, <2>2, <3>1, <3>2
    <3>3. CASE Of(v) # l
      <4>1. Of(v) \in Labels BY <2>2 DEF JobsInv, CallInv, RowsInv, Of
      <4> QED BY <1>6, <1>9, <2>2, <3>1, <3>3, <4>1 DEF Landed
    <3> QED BY <3>2, <3>3
  <2> QED BY <2>3, <2>4
<1>13. R!N!InstallNewer(l, n)
  <2>1. R!Watched(n) # "none" BY <1>5 DEF R!Watched, JobsInv, RowsInv
  <2>2. cluster[l] <= n \/ l \in doubt BY <1>11
  <2>3. \A i \in Consents : view[i] = 0 \/ view[i] \in Consents BY DEF JobsInv, JobTypes
  <2>4. \A i \in Consents : R!Watched(i)' = R!Watched(i) BY <1>1, <2>3, Unnoticed
  <2>5. [i \in Consents |-> R!Watched(i)]' = [i \in Consents |-> R!Watched(i)] BY <2>4
  <2>6. [m \in Labels |-> R!Newest(m)]' = [m \in Labels |-> R!Newest(m)] BY <1>1, Unnoticed
  <2>7. [i \in Consents |-> R!Watched(i)][n] # "none" BY <1>5, <2>1
  <2> QED BY <1>1, <2>2, <2>5, <2>6, <2>7 DEF R!N!InstallNewer
<1> QED BY <1>5, <1>7, <1>8, <1>10, <1>12, <1>13 DEF JobsInv, R!N!Serve, Lands

\* What a saved result makes of a row.
Outcome(p, a, h) ==
  [p EXCEPT !.lease = "none", !.state = a, !.attempts = @ + 1, !.due = FALSE, !.holds = h]
\* What a saved result makes of a row.
LEMMA SavedRow ==
  ASSUME NEW p \in JobRow, NEW a \in {"pending"} \cup Ended, NEW h \in Consents \cup {0}
  PROVE  /\ Outcome(p, a, h) \in JobRow /\ Outcome(p, a, h).lease = "none"
         /\ Outcome(p, a, h).state = a /\ Outcome(p, a, h).label = p.label
         /\ Outcome(p, a, h).holds = h
<1>1. p.attempts + 1 \in Nat BY DEF JobRow
<1>2. a \in {"none", "pending", "gone"} \cup Ended OBVIOUS
<1>3. Outcome(p, a, h) \in JobRow
  BY ONLY p \in JobRow, <1>1, <1>2, h \in Consents \cup {0} DEF JobRow, Outcome
<1>4. /\ Outcome(p, a, h).lease = "none" /\ Outcome(p, a, h).state = a
      /\ Outcome(p, a, h).label = p.label /\ Outcome(p, a, h).holds = h
  BY DEF JobRow, Outcome
<1> QED BY <1>3, <1>4

\* A result is saved: nothing new for a row that moved on, and otherwise its outcome.
LEMMA SaveServes ==
  ASSUME JobsInv, SureInv, NEW w \in Workers, R!Save(w)
  PROVE  JobsInv' /\ R!N!Serve /\ Lands
<1> DEFINE j == worker[w].job
           l == job[worker[w].job].label
           a == worker[w].answer
<1>1. /\ worker[w].at \in {"answered", "cut"}
      /\ worker' = [v \in Workers |-> IF v = w THEN R!Left(w, TRUE)
                                      ELSE [worker[v] EXCEPT !.loose = @ \/ worker[v].job = j]]
      /\ job' = IF job[j].state = "pending" THEN [job EXCEPT ![j] = R!Saved(job[j], w)] ELSE job
      /\ UNCHANGED <<view, cluster>>
  BY DEF R!Save, JobsInv, JobTypes
<1>2. worker \in [Workers -> CallRow] /\ a \in {"none", "pending"} \cup Ended
  BY DEF JobsInv, JobTypes, CallRow
<1>3. /\ worker'[w] \in CallRow
      /\ \/ worker'[w].at = "idle"
         \/ /\ worker'[w].at = "orphan" /\ worker'[w].job = j /\ worker'[w].holds = worker[w].holds
            /\ worker'[w].wrote = worker[w].wrote /\ worker'[w].answer = "none" /\ worker'[w].loose
  <2>1. worker'[w] = R!Left(w, TRUE) BY <1>1
  <2> QED BY <1>2, <2>1, LeftBehind
<1>4. CallInv(w) /\ j \in Consents /\ worker[w].holds \in Consents /\ a \in {"pending"} \cup Ended
      /\ job[j] \in JobRow /\ worker[w].at # "idle"
  BY <1>1, <1>2 DEF CallInv, JobsInv, JobTypes, Asking
<1>5. ASSUME NEW v \in Workers \ {w}
      PROVE  /\ worker'[v] \in CallRow /\ worker'[v].at = worker[v].at /\ worker'[v].job = worker[v].job
             /\ worker'[v].holds = worker[v].holds /\ worker'[v].wrote = worker[v].wrote
             /\ worker'[v].answer = worker[v].answer
             /\ (worker[v].loose => worker'[v].loose) /\ (worker[v].job = j => worker'[v].loose)
  <2>1. PICK b \in BOOLEAN : b <=> worker[v].job = j OBVIOUS
  <2>2. worker'[v] = Loose(worker[v], b) BY <1>1, <2>1 DEF Loose
  <2> QED BY <1>2, <2>1, <2>2, Loosened
<1>6. worker' \in [Workers -> CallRow] BY <1>1, <1>3, <1>5
<1>7. ASSUME \A k \in Consents \ {j} : job'[k] = job[k], NEW v \in Workers
      PROVE  Follows(v)
  <2>1. CASE v = w BY <1>3, <1>4, <2>1 DEF Follows
  <2>2. CASE v # w
    <3>1. CallInv(v) BY DEF JobsInv
    <3>2. worker[v].at # "idle" => worker'[v].loose \/ job'[worker[v].job] = job[worker[v].job]
      BY <1>5, <1>7, <2>2, <3>1 DEF CallInv
    <3> QED BY <1>5, <2>2, <3>1, <3>2 DEF Follows, CallInv
  <2> QED BY <2>1, <2>2
<1>8. CASE job[j].state # "pending"
  <2>1. job' = job BY <1>1, <1>8
  <2>2. \A v \in Workers : Follows(v) BY <1>7, <2>1
  <2> QED BY <1>1, <1>6, <2>1, <2>2, CallsOnly
<1>9. CASE job[j].state = "pending"
  <2>1. /\ l \in Labels /\ job[j].holds \in Consents /\ view[job[j].holds] = j
        /\ \A d \in Asking(l) : d <= job[j].holds
    BY <1>4, <1>9 DEF JobsInv, RowsInv
  <2>2. PICK r : r = R!Saved(job[j], w) OBVIOUS
  <2>3. job' = [job EXCEPT ![j] = r] BY <1>1, <1>9, <2>2
  <2>4. /\ r \in JobRow /\ r.lease = "none" /\ r.label = l
        /\ \/ r.state = "pending" /\ r.holds = job[j].holds
           \/ r.state = a /\ a \in Ended /\ job[j].holds = worker[w].holds
    <3>1. CASE job[j].holds # worker[w].holds
      <4>1. r = [job[j] EXCEPT !.lease = "none"] BY <2>2, <3>1 DEF R!Saved
      <4> QED BY <1>4, <1>9, <4>1 DEF JobRow
    <3>2. CASE job[j].holds = worker[w].holds
      <4>1. r = [job[j] EXCEPT !.lease = "none", !.state = a, !.attempts = @ + 1, !.due = FALSE,
                               !.holds = IF a = "pending" THEN @ ELSE 0]
        BY <2>2, <3>2 DEF R!Saved
      <4>2. CASE a = "pending"
        <5>1. r = Outcome(job[j], a, job[j].holds) BY <1>4, <4>1, <4>2 DEF JobRow, Outcome
        <5>2. job[j].holds \in Consents \cup {0} BY <2>1
        <5> QED BY <1>4, <1>9, <4>2, <5>1, <5>2, SavedRow
      <4>3. CASE a # "pending"
        <5>1. r = Outcome(job[j], a, 0) BY <4>1, <4>3 DEF Outcome
        <5>2. a \in Ended /\ 0 \in Consents \cup {0} BY <1>4, <4>3
        <5>3. /\ Outcome(job[j], a, 0) \in JobRow /\ Outcome(job[j], a, 0).lease = "none"
              /\ Outcome(job[j], a, 0).state = a /\ Outcome(job[j], a, 0).label = job[j].label
          <6>1. PICK p \in JobRow, b \in {"pending"} \cup Ended, h \in Consents \cup {0} :
                  p = job[j] /\ b = a /\ h = 0
            BY <1>4, <5>2
          <6>2. /\ Outcome(p, b, h) \in JobRow /\ Outcome(p, b, h).lease = "none"
                /\ Outcome(p, b, h).state = b /\ Outcome(p, b, h).label = p.label
            BY ONLY SavedRow, p \in JobRow, b \in {"pending"} \cup Ended, h \in Consents \cup {0}
          <6> QED BY <6>1, <6>2
        <5> QED BY <3>2, <5>1, <5>2, <5>3
      <4> QED BY <4>2, <4>3
    <3> QED BY <3>1, <3>2
  <2>5. /\ job' \in [Consents -> JobRow] /\ job'[j] = r
        /\ \A k \in Consents \ {j} : job'[k] = job[k]
    BY <1>4, <2>3, <2>4, JobWrites DEF JobsInv
  <2>6. JobTypes' BY <1>1, <1>6, <2>5 DEF JobsInv, JobTypes
  <2>7. r.state \notin {"none", "gone"} BY <2>4 DEF Ended
  <2>8. RowsInv' /\ \A m : Asking(m)' = Asking(m)
    <3>1. \A m \in Labels : cluster'[m] # 0 => cluster'[m] \in Asking(m) BY <1>1 DEF JobsInv, RowsInv
    <3>2. \A c \in Consents : /\ job'[c].label = job[c].label
                              /\ \/ job'[c].state = job[c].state
                                 \/ job[c].state # "none" /\ job'[c].state \notin {"none", "pending"}
                              /\ job'[c].state = "pending" => job'[c].holds = job[c].holds
                              /\ job'[c].state = "none" => job'[c].lease = "none"
      BY <1>9, <2>4, <2>5 DEF JobsInv, RowsInv, Ended
    <3> QED BY <1>1, <3>1, <3>2, RowsKept
  <2>9. AllFollow
    <3>1. \A k \in Consents : job'[k].label = job[k].label /\ (job[k].state # "none" => job'[k].state # "none")
      BY <2>4, <2>5, <2>7
    <3> QED BY <1>7, <2>5, <2>8, <3>1 DEF AllFollow
  <2>10. (\A v \in Workers : CallInv(v)') /\ Lands BY <1>1, <2>9, CallsFollow
  <2>11. \A c \in Consents : job'[c].label = job[c].label BY <2>4, <2>5
  <2>12. R!N!Serve
    <3>1. CASE r.state = "pending"
      <4>1. \A c \in Consents : job'[c].state = job[c].state BY <1>9, <2>5, <3>1
      <4> QED BY <1>1, <2>11, <4>1, Silent
    <3>2. CASE r.state = a /\ a \in Ended /\ job[j].holds = worker[w].holds
      <4> DEFINE waiting == {c \in Consents : view[c] = j}
      <4>1. job[j].holds \in Asking(l) /\ Asking(l) \in SUBSET Nat
        BY <1>4, <2>1, ConsentsCount DEF Asking
      <4>2. R!Newest(l) = job[j].holds BY <2>1, <4>1, NewestIsGreatest, GreatestIs
      <4>3. \A c \in Consents : view[c] = 0 \/ view[c] \in Consents BY DEF JobsInv, JobTypes
      <4>4. \A c \in waiting : R!Watched(c) = "pending" /\ R!Watched(c)' = a
        BY <1>1, <1>4, <1>9, <2>5, <3>2, ConsentsCount DEF R!Watched
      <4>5. \A c \in Consents \ waiting : R!Watched(c)' = R!Watched(c)
        BY <1>1, <2>5, <2>11, <4>3, Unnoticed
      <4>6. a = "complete" => cluster[l] = R!Newest(l) \/ l \in doubt
        <5>1. Of(w) = l BY DEF Of
        <5>2. Last(w) BY <2>1, <3>2, <5>1 DEF Last
        <5>3. a = "complete" /\ l \notin doubt => cluster[l] = worker[w].holds
          BY <1>4, <5>1, <5>2 DEF SureInv, Landed, CallInv
        <5> QED BY <3>2, <4>2, <5>3
      <4>7. [m \in Labels |-> R!Newest(m)]' = [m \in Labels |-> R!Newest(m)] BY <1>1, <2>11, Unnoticed
      <4>8. [c \in Consents |-> R!Watched(c)]'
              = [c \in Consents |-> IF c \in waiting THEN a ELSE [d \in Consents |-> R!Watched(d)][c]]
        BY <4>4, <4>5
      <4>9. [m \in Labels |-> R!Newest(m)][l] = job[j].holds /\ job[j].holds \in waiting
        BY <2>1, <4>2
      <4>10. \A c \in waiting : [d \in Consents |-> R!Watched(d)][c] = "pending" BY <4>4
      <4>11. a = "complete" => cluster[l] = [m \in Labels |-> R!Newest(m)][l] \/ l \in doubt
        BY <2>1, <4>6
      <4>12. waiting \in SUBSET Consents /\ a \in R!N!Outcomes BY <3>2 DEF R!N!Outcomes, Ended
      <4> HIDE DEF waiting
      <4>13. R!N!Settle(l, waiting, a)
        BY <1>1, <4>7, <4>8, <4>9, <4>10, <4>11 DEF R!N!Settle
      <4> QED BY <2>1, <4>12, <4>13 DEF R!N!Serve
    <3> QED BY <2>4, <3>1, <3>2
  <2> QED BY <2>6, <2>8, <2>10, <2>12 DEF JobsInv
<1> QED BY <1>8, <1>9

\* Forgetting a settled row.
LEMMA SweepServes ==
  ASSUME JobsInv, SureInv, NEW j \in Consents, R!Sweep(j)
  PROVE  JobsInv' /\ R!N!Serve /\ Lands
<1> DEFINE r == [job[j] EXCEPT !.state = "gone"]
           l == job[j].label
           forgotten == {c \in Consents : view[c] = j}
<1>1. job[j].state \in Ended /\ job' = [job EXCEPT ![j] = r] /\ UNCHANGED <<view, worker, cluster>>
  BY DEF R!Sweep, R!Terminal, JobsInv, JobTypes, Ended
<1>2. job[j] \in JobRow BY DEF JobsInv, JobTypes
<1>3. r \in JobRow /\ r.state = "gone" /\ r.label = l /\ r.holds = job[j].holds
  BY <1>2 DEF JobRow
<1> HIDE DEF r
<1>4. /\ job' \in [Consents -> JobRow] /\ job'[j] = r
      /\ \A k \in Consents \ {j} : job'[k] = job[k]
  BY <1>1, <1>3, JobWrites DEF JobsInv
<1>5. JobTypes' BY <1>1, <1>4 DEF JobsInv, JobTypes
<1>6. \A c \in Consents : job'[c].label = job[c].label BY <1>3, <1>4
<1>7. RowsInv' /\ \A m : Asking(m)' = Asking(m)
  <2>1. \A m \in Labels : cluster'[m] # 0 => cluster'[m] \in Asking(m) BY <1>1 DEF JobsInv, RowsInv
  <2>2. \A c \in Consents : /\ job'[c].label = job[c].label
                            /\ \/ job'[c].state = job[c].state
                               \/ job[c].state # "none" /\ job'[c].state \notin {"none", "pending"}
                            /\ job'[c].state = "pending" => job'[c].holds = job[c].holds
                            /\ job'[c].state = "none" => job'[c].lease = "none"
    BY <1>1, <1>3, <1>4, <1>6 DEF JobsInv, RowsInv, Ended
  <2> QED BY <1>1, <2>1, <2>2, RowsKept
<1>8. ASSUME NEW v \in Workers PROVE Follows(v)
  <2>1. CallInv(v) BY DEF JobsInv
  <2>2. CASE worker[v].at = "idle" BY <1>1, <2>2 DEF Follows
  <2>3. CASE worker[v].at # "idle" /\ worker[v].loose BY <1>1, <2>1, <2>3 DEF Follows, CallInv
  <2>4. CASE worker[v].at # "idle" /\ ~worker[v].loose
    <3>1. worker[v].job \in Consents /\ worker[v].job # j BY <1>1, <2>1, <2>4 DEF CallInv, Firm, Ended
    <3>2. job'[worker[v].job] = job[worker[v].job] BY <1>4, <3>1
    <3> QED BY <1>1, <2>1, <2>4, <3>2 DEF Follows, CallInv
  <2> QED BY <2>2, <2>3, <2>4
<1>9. (\A w \in Workers : CallInv(w)') /\ Lands
  <2>1. AllFollow
    <3>1. \A k \in Consents : job[k].state # "none" => job'[k].state # "none" BY <1>1, <1>3, <1>4
    <3> QED BY <1>6, <1>7, <1>8, <3>1 DEF AllFollow
  <2> QED BY <1>1, <2>1, CallsFollow
<1>10. R!N!Forget(forgotten)
  <2>1. \A c \in Consents : view[c] = 0 \/ view[c] \in Consents BY DEF JobsInv, JobTypes
  <2>2. \A c \in forgotten : R!Watched(c) \in Ended /\ R!Watched(c)' = "gone"
    BY <1>1, <1>3, <1>4, ConsentsCount DEF R!Watched
  <2>3. \A c \in Consents \ forgotten : R!Watched(c)' = R!Watched(c)
    BY <1>1, <1>4, <1>6, <2>1, Unnoticed
  <2>4. [m \in Labels |-> R!Newest(m)]' = [m \in Labels |-> R!Newest(m)] BY <1>1, <1>6, Unnoticed
  <2>5. [c \in Consents |-> R!Watched(c)]'
          = [c \in Consents |-> IF c \in forgotten THEN "gone" ELSE [d \in Consents |-> R!Watched(d)][c]]
    BY <2>2, <2>3
  <2>6. \A c \in forgotten : [d \in Consents |-> R!Watched(d)][c] \in R!N!Outcomes
    BY <2>2 DEF R!N!Outcomes, Ended
  <2> HIDE DEF forgotten
  <2> QED BY <1>1, <2>4, <2>5, <2>6 DEF R!N!Forget
<1>11. forgotten \in SUBSET Consents OBVIOUS
<1> HIDE DEF forgotten
<1> QED BY <1>5, <1>7, <1>9, <1>10, <1>11 DEF JobsInv, R!N!Serve


\* What is known of the next consent to be queued.
LEMMA NextConsent ==
  ASSUME JobsInv, NEW c \in Consents, c \in R!Unqueued
  PROVE  /\ view[c] = 0 /\ job[c].state = "none" /\ job[c].lease = "none"
         /\ \A d \in Consents : view[d] # c /\ (view[d] # 0 <=> d < c)
<1>1. view[c] = 0 /\ \A d \in Consents : d < c => view[d] # 0 BY DEF R!Unqueued
<1>2. job[c].state = "none" /\ job[c].lease = "none" BY <1>1 DEF JobsInv, RowsInv
<1>3. ASSUME NEW d \in Consents PROVE view[d] # c /\ (view[d] # 0 <=> d < c)
  <2>1. view[d] # c BY <1>2, ConsentsCount DEF JobsInv, RowsInv
  <2>2. c < d => view[d] = 0 BY <1>1 DEF JobsInv, RowsInv
  <2>3. c < d \/ d < c \/ c = d BY ConsentsCount
  <2> QED BY <1>1, <2>1, <2>2, <2>3
<1> QED BY <1>1, <1>2, <1>3

\* A consent is queued in a new row, or in the pending one of its label.
LEMMA AskServes ==
  ASSUME JobsInv, SureInv, NEW l \in Labels, NEW c \in Consents, c \in R!Unqueued, NEW k \in Consents,
         NEW r \in JobRow, r.state = "pending", r.label = l, r.holds = c, r.lease = job[k].lease,
         job' = [job EXCEPT ![k] = r], view' = [view EXCEPT ![c] = k],
         UNCHANGED <<worker, cluster>>,
         k = c \/ (job[k].state = "pending" /\ job[k].label = l),
         \A i \in Consents : job[i].state = "pending" /\ job[i].label = l => i = k
  PROVE  JobsInv' /\ R!N!Serve /\ Lands
<1>1. /\ job' \in [Consents -> JobRow] /\ job'[k] = r
      /\ \A i \in Consents \ {k} : job'[i] = job[i]
  BY JobWrites DEF JobsInv
<1>2. /\ view' \in [Consents -> Consents \cup {0}] /\ view'[c] = k
      /\ \A d \in Consents \ {c} : view'[d] = view[d]
  BY DEF JobsInv, JobTypes
<1>3. JobTypes' BY <1>1, <1>2 DEF JobsInv, JobTypes
<1>4. /\ view[c] = 0 /\ job[c].state = "none" /\ job[c].lease = "none"
      /\ \A d \in Consents : view[d] # c /\ (view[d] # 0 <=> d < c)
  BY NextConsent
<1>5. k # 0 /\ c \in Nat /\ c > 0 /\ \A d \in Consents : view[d] = 0 \/ view[d] \in Consents
  BY ConsentsCount DEF JobsInv, JobTypes
\* Every viewed row has the label and the state it had.
<1>6. \A d \in Consents : view[d] # 0 => /\ job'[view[d]].label = job[view[d]].label
                                        /\ job'[view[d]].state = job[view[d]].state
  <2>1. ASSUME NEW d \in Consents, view[d] # 0
        PROVE  /\ job'[view[d]].label = job[view[d]].label
               /\ job'[view[d]].state = job[view[d]].state
    <3>1. view[d] # c /\ view[d] \in Consents BY <1>4, <1>5, <2>1
    <3>2. CASE view[d] = k BY <1>1, <3>1, <3>2
    <3>3. CASE view[d] # k BY <1>1, <3>1, <3>3
    <3> QED BY <3>2, <3>3
  <2> QED BY <2>1
<1>7. \A m : Asking(m)' = IF m = l THEN Asking(l) \cup {c} ELSE Asking(m)
  <2>1. ASSUME NEW m, NEW d \in Consents
        PROVE  d \in Asking(m)' <=> d \in Asking(m) \/ (d = c /\ m = l)
    <3>1. CASE d = c BY <1>1, <1>2, <1>4, <1>5, <3>1 DEF Asking
    <3>2. CASE d # c BY <1>2, <1>6, <3>2 DEF Asking
    <3> QED BY <3>1, <3>2
  <2>2. \A m : Asking(m)' \subseteq Consents /\ Asking(m) \subseteq Consents BY DEF Asking
  <2>3. ASSUME NEW m PROVE Asking(m)' = IF m = l THEN Asking(l) \cup {c} ELSE Asking(m)
    <3>1. CASE m = l BY <2>1, <2>2, <3>1
    <3>2. CASE m # l BY <2>1, <2>2, <3>2
    <3> QED BY <3>1, <3>2
  <2> QED BY <2>3
<1>8. \A d \in Consents : view[d] # 0 => d <= c
  BY <1>4, ConsentsCount
<1>9. \A d \in Asking(l)' : d <= c
  BY <1>7, <1>8, NotBeforeItself DEF Asking
<1>10. cluster[l] <= c
  <2>1. cluster[l] # 0 => cluster[l] \in Consents /\ view[cluster[l]] # 0
    BY DEF JobsInv, JobTypes, RowsInv, Asking
  <2>2. cluster[l] = 0 => cluster[l] <= c BY <1>5
  <2> QED BY <1>8, <2>1, <2>2
<1>11. RowsInv'
  <2>1. ASSUME NEW i \in Consents
        PROVE  (/\ view[i] = 0 => job[i].state = "none"
                /\ view[i] # 0 => job[view[i]].state # "none"
                /\ job[i].state # "none" => job[i].label \in Labels
                /\ job[i].state = "none" => job[i].lease = "none"
                /\ job[i].state = "pending" =>
                     /\ job[i].holds \in Consents /\ view[job[i].holds] = i
                     /\ \A d \in Asking(job[i].label) : d <= job[i].holds)'
    <3>1. (view[i] = 0 => job[i].state = "none")'
      <4>1. view'[i] = 0 => i # c /\ view[i] = 0 /\ job[i].state = "none"
        BY <1>2, <1>5 DEF JobsInv, RowsInv
      <4>2. view'[i] = 0 => i # k
        BY <4>1
      <4> QED BY <1>1, <4>1, <4>2
    <3>2. (view[i] # 0 => job[view[i]].state # "none")'
      <4>1. CASE i = c BY <1>1, <1>2, <4>1
      <4>2. CASE i # c BY <1>2, <1>6, <4>2 DEF JobsInv, RowsInv
      <4> QED BY <4>1, <4>2
    <3>3. (/\ job[i].state # "none" => job[i].label \in Labels
           /\ job[i].state = "none" => job[i].lease = "none")'
      <4>1. CASE i = k BY <1>1, <4>1
      <4>2. CASE i # k BY <1>1, <4>2 DEF JobsInv, RowsInv
      <4> QED BY <4>1, <4>2
    <3>4. ASSUME job'[i].state = "pending"
          PROVE  /\ job'[i].holds \in Consents /\ view'[job'[i].holds] = i
                 /\ \A d \in Asking(job[i].label)' : d <= job'[i].holds
      <4>1. CASE i = k BY <1>1, <1>2, <1>9, <4>1
      <4>2. CASE i # k
        <5>1. job'[i] = job[i] /\ job[i].label # l BY <1>1, <3>4, <4>2
        <5>2. job[i].holds \in Consents /\ view[job[i].holds] = i
              /\ \A d \in Asking(job[i].label) : d <= job[i].holds
          BY <3>4, <5>1 DEF JobsInv, RowsInv
        <5>3. job[i].holds # c BY <1>4, <5>2, ConsentsCount
        <5>4. Asking(job[i].label)' = Asking(job[i].label) BY <1>7, <5>1
        <5> QED BY <1>2, <5>1, <5>2, <5>3, <5>4
      <4> QED BY <4>1, <4>2
    <3> QED BY <3>1, <3>2, <3>3, <3>4
  <2>2. \A d, e \in Consents : view'[e] # 0 /\ d < e => view'[d] # 0
    BY <1>2, <1>4, <1>5 DEF JobsInv, RowsInv
  <2>3. ASSUME NEW m \in Labels
        PROVE  /\ cluster'[m] # 0 => cluster'[m] \in Asking(m)'
               /\ Asking(m)' # {} => \E n \in Asking(m)' : \A d \in Asking(m)' : d <= n
    <3>1. cluster[m] # 0 => cluster[m] \in Asking(m) BY DEF JobsInv, RowsInv
    <3>2. cluster'[m] # 0 => cluster'[m] \in Asking(m)' BY <1>7, <3>1
    <3>3. CASE m = l
      <4>1. c \in Asking(m)' BY <1>7, <3>3
      <4> QED BY <1>9, <3>2, <3>3, <4>1
    <3>4. CASE m # l BY <1>7, <3>2, <3>4 DEF JobsInv, RowsInv
    <3> QED BY <3>3, <3>4
  <2> QED BY <2>1, <2>2, <2>3 DEF RowsInv
<1>12. ASSUME NEW w \in Workers PROVE CallInv(w)' /\ (Of(w)' \notin doubt => Landed(w)')
  <2>1. CASE worker[w].at = "idle" BY <2>1 DEF CallInv, Landed
  <2>2. CASE worker[w].at # "idle"
    <3>1. ASSUME NEW v \in Workers, worker[v].at # "idle"
          PROVE  /\ CallInv(v) /\ worker[v].job \in Consents /\ worker[v].job # c
                 /\ worker[v].holds \in Consents /\ worker[v].holds # c /\ worker[v].holds <= c
                 /\ job'[worker[v].job].state = job[worker[v].job].state
                 /\ job'[worker[v].job].lease = job[worker[v].job].lease
                 /\ Of(v)' = Of(v)
      <4>1. /\ CallInv(v) /\ worker[v].job \in Consents /\ worker[v].job # c
            /\ worker[v].holds \in Consents /\ worker[v].holds # c /\ worker[v].holds <= c
        BY <1>4, <1>8, <3>1 DEF JobsInv, CallInv, Asking
      <4>2. /\ job'[worker[v].job].state = job[worker[v].job].state
            /\ job'[worker[v].job].label = job[worker[v].job].label
            /\ job'[worker[v].job].lease = job[worker[v].job].lease
        <5>1. CASE worker[v].job = k BY <1>1, <4>1, <5>1
        <5>2. CASE worker[v].job # k BY <1>1, <4>1, <5>2
        <5> QED BY <5>1, <5>2
      <4> QED BY <4>1, <4>2 DEF Of
    <3>2. /\ CallInv(w) /\ worker[w].job \in Consents /\ worker[w].holds # c /\ worker[w].holds <= c
          /\ worker[w].holds \in Consents /\ Of(w)' = Of(w)
          /\ job'[worker[w].job].state = job[worker[w].job].state
          /\ job'[worker[w].job].lease = job[worker[w].job].lease
      BY <2>2, <3>1
    <3>3. worker[w].holds \in Asking(Of(w))'
      <4>1. worker[w].holds \in Asking(Of(w)) BY <2>2, <3>2 DEF CallInv
      <4>2. Asking(Of(w))' = IF Of(w)' = l THEN Asking(l) \cup {c} ELSE Asking(Of(w)') BY <1>7
      <4> QED BY <3>2, <4>1, <4>2
    <3>4. ASSUME ~worker[w].loose PROVE Firm(w)'
      <4>1. Firm(w) BY <2>2, <3>2, <3>4 DEF CallInv
      <4>2. ASSUME NEW v \in Workers \ {w}, worker[v].at # "idle", Of(v)' = Of(w)'
            PROVE  worker[v].loose /\ worker[v].holds <= worker[w].holds
        BY <3>1, <3>2, <4>1, <4>2 DEF Firm
      <4> QED BY <3>2, <4>1, <4>2 DEF Firm
    <3>5. CallInv(w)' BY <2>2, <3>2, <3>3, <3>4 DEF CallInv
    <3>6. ASSUME Of(w)' \notin doubt PROVE Landed(w)'
      <4>1. SUFFICES ASSUME worker[w].wrote, Last(w)' PROVE cluster[Of(w)'] = worker[w].holds
        BY DEF Landed
      <4>2. CASE Of(w) = l
        <5>1. c \in Asking(Of(w))'
          <6>1. Asking(Of(w))' = IF Of(w)' = l THEN Asking(l) \cup {c} ELSE Asking(Of(w)') BY <1>7
          <6> QED BY <3>2, <4>2, <6>1
        <5>2. c <= worker[w].holds BY <4>1, <5>1 DEF Last
        <5>3. c \in Nat /\ worker[w].holds \in Nat BY <3>2, ConsentsCount
        <5> QED BY <3>2, <5>2, <5>3
      <4>3. CASE Of(w) # l
        <5>1. Asking(Of(w))' = Asking(Of(w))
          <6>1. Asking(Of(w))' = IF Of(w)' = l THEN Asking(l) \cup {c} ELSE Asking(Of(w)') BY <1>7
          <6> QED BY <3>2, <4>3, <6>1
        <5>2. Last(w) BY <4>1, <5>1 DEF Last
        <5> QED BY <2>2, <3>2, <3>6, <4>1, <5>2 DEF SureInv, Landed
      <4> QED BY <4>2, <4>3
    <3> QED BY <3>5, <3>6
  <2> QED BY <2>1, <2>2
<1>14. R!N!Ask(l, c)
  <2>1. R!Watched(c) = "none" /\ R!Watched(c)' = "pending"
    BY <1>1, <1>2, <1>4, <1>5 DEF R!Watched
  <2>2. \A d \in Consents \ {c} : R!Watched(d)' = R!Watched(d)
    BY <1>2, <1>6 DEF R!Watched
  <2>3. [d \in Consents |-> R!Watched(d)]' = [[d \in Consents |-> R!Watched(d)] EXCEPT ![c] = "pending"]
    BY <2>1, <2>2
  <2>4. \A m \in Labels \ {l} : R!Newest(m)' = R!Newest(m) BY <1>7, NewestIsGreatest
  <2>5. R!Newest(l)' = c
    <3>1. c \in Asking(l)' BY <1>7
    <3>2. Asking(l)' \in SUBSET Nat BY ConsentsCount DEF Asking
    <3> QED BY <1>9, <3>1, <3>2, NewestIsGreatest, GreatestIs
  <2>6. R!Newest(l) \in Nat /\ R!Newest(l) < c
    <3>1. CASE Asking(l) = {} BY <1>5, <3>1, NewestIsGreatest DEF Greatest
    <3>2. CASE Asking(l) # {}
      <4>1. PICK n \in Asking(l) : \A d \in Asking(l) : d <= n BY <3>2 DEF JobsInv, RowsInv
      <4>2. Asking(l) \in SUBSET Nat BY ConsentsCount DEF Asking
      <4>3. R!Newest(l) = n BY <4>1, <4>2, NewestIsGreatest, GreatestIs
      <4> QED BY <1>4, <4>1, <4>2, <4>3 DEF Asking
    <3> QED BY <3>1, <3>2
  <2>7. [m \in Labels |-> R!Newest(m)]' = [[m \in Labels |-> R!Newest(m)] EXCEPT ![l] = c]
    BY <2>4, <2>5
  <2>8. /\ [d \in Consents |-> R!Watched(d)][c] = "none"
        /\ c > [m \in Labels |-> R!Newest(m)][l]
    <3>1. [m \in Labels |-> R!Newest(m)][l] = R!Newest(l) OBVIOUS
    <3> QED BY <1>5, <2>1, <2>6, <3>1
  <2> QED BY <2>3, <2>7, <2>8 DEF R!N!Ask
<1> QED BY <1>3, <1>11, <1>12, <1>14 DEF JobsInv, Lands, R!N!Serve

\* A consent is queued, in a new row or in the pending one of its label.
LEMMA EnqueueServes ==
  ASSUME JobsInv, SureInv, NEW l \in Labels, NEW c \in Consents, R!Enqueue(l, c)
  PROVE  JobsInv' /\ R!N!Serve /\ Lands
<1>1. c \in R!Unqueued /\ UNCHANGED <<worker, cluster>> BY DEF R!Enqueue
<1>2. view[c] = 0 /\ job[c].state = "none" /\ job[c].lease = "none" BY <1>1, NextConsent
<1>3. \A j \in Consents : j \in R!Pending(l) <=> job[j].state = "pending" /\ job[j].label = l
  BY DEF R!Pending, R!Label
<1>4. CASE /\ R!Pending(l) = {} /\ view' = [view EXCEPT ![c] = c]
           /\ job' = [job EXCEPT ![c] = [R!NoJob EXCEPT !.state = "pending", !.label = l,
                                                        !.holds = c, !.due = TRUE]]
  <2> DEFINE r == [R!NoJob EXCEPT !.state = "pending", !.label = l, !.holds = c, !.due = TRUE]
  <2>1. R!NoJob \in JobRow /\ R!NoJob.lease = "none" BY DEF R!NoJob, JobRow
  <2>2. /\ r \in JobRow /\ r.state = "pending" /\ r.label = l /\ r.holds = c
        /\ r.lease = "none"
    BY ONLY <2>1, l \in Labels, c \in Consents DEF JobRow
  <2>3. job' = [job EXCEPT ![c] = r] BY <1>4
  <2> HIDE DEF r
  <2>4. \A i \in Consents : job[i].state = "pending" /\ job[i].label = l => i = c BY <1>3, <1>4
  <2>5. PICK q \in JobRow : q = r BY <2>2
  <2>6. /\ q.state = "pending" /\ q.label = l /\ q.holds = c /\ q.lease = job[c].lease
        /\ job' = [job EXCEPT ![c] = q] /\ view' = [view EXCEPT ![c] = c]
    BY <1>2, <1>4, <2>2, <2>3, <2>5
  <2> QED BY ONLY JobsInv, SureInv, l \in Labels, c \in Consents, q \in JobRow, <1>1, <2>4, <2>6, AskServes
<1>5. CASE \E j \in R!Pending(l) : /\ job' = [job EXCEPT ![j] = R!Joined(@, c)]
                                   /\ view' = [view EXCEPT ![c] = j]
  <2>1. PICK j \in R!Pending(l) : /\ job' = [job EXCEPT ![j] = R!Joined(@, c)]
                                  /\ view' = [view EXCEPT ![c] = j]
    BY <1>5
  <2> DEFINE r == [job[j] EXCEPT !.holds = c, !.attempts = 0, !.due = TRUE]
  <2>2. j \in Consents /\ job[j].state = "pending" /\ job[j].label = l BY <2>1 DEF R!Pending, R!Label
  <2>3. job[j] \in JobRow BY <2>2 DEF JobsInv, JobTypes
  <2>4. /\ r \in JobRow /\ r.state = job[j].state /\ r.label = job[j].label /\ r.holds = c
        /\ r.lease = job[j].lease
    BY ONLY <2>3, c \in Consents DEF JobRow
  <2>5. job' = [job EXCEPT ![j] = r] BY <2>1, <2>2 DEF R!Joined, JobsInv, JobTypes
  <2> HIDE DEF r
  <2>6. \A i \in Consents : job[i].state = "pending" /\ job[i].label = l => i = j
    BY <2>2, OnePending
  <2>7. /\ r.state = "pending" /\ r.label = l /\ r.lease = job[j].lease
        /\ view' = [view EXCEPT ![c] = j]
    BY <2>1, <2>2, <2>4
  <2> QED BY ONLY JobsInv, SureInv, l \in Labels, c \in Consents, <1>1, <2>2, <2>4, <2>5, <2>6, <2>7, AskServes
<1> QED BY <1>4, <1>5 DEF R!Enqueue

\* Every act of the reconnects serves.
LEMMA ActServes ==
  ASSUME JobsInv, SureInv, R!Acts \/ UNCHANGED <<job, view, worker, cluster>>
  PROVE  JobsInv' /\ R!N!Serve /\ Lands
<1>1. ASSUME UNCHANGED <<job, view, worker, cluster>> PROVE JobsInv' /\ R!N!Serve /\ Lands
  <2>1. worker' \in [Workers -> CallRow] BY <1>1 DEF JobsInv, JobTypes
  <2>2. ASSUME NEW v \in Workers PROVE Follows(v)
    <3>1. CallInv(v) BY DEF JobsInv
    <3> QED BY <1>1, <3>1 DEF Follows, CallInv
  <2> QED BY <1>1, <2>1, <2>2, CallsOnly
<1>2. ASSUME NEW l \in Labels, NEW c \in Consents, R!Enqueue(l, c)
      PROVE  JobsInv' /\ R!N!Serve /\ Lands
  BY <1>2, EnqueueServes
<1>3. ASSUME NEW w \in Workers, R!Step(w) \/ R!SaveFails(w) \/ R!OrphanEnds(w)
      PROVE  JobsInv' /\ R!N!Serve /\ Lands
  BY <1>3, InstallServes, SaveServes, CallEndsServe DEF R!Step
<1>4. ASSUME NEW w \in Workers, NEW j \in Consents, R!Claim(w, j)
      PROVE  JobsInv' /\ R!N!Serve /\ Lands
  BY <1>4, ClaimServes
<1>5. ASSUME NEW j \in Consents, R!BackoffEnds(j) \/ R!LeaseExpires(j) \/ R!Sweep(j)
      PROVE  JobsInv' /\ R!N!Serve /\ Lands
  BY <1>5, BackoffServes, LeaseExpiresServes, SweepServes
<1>6. ASSUME NEW l \in Labels, R!Close(l) PROVE JobsInv' /\ R!N!Serve /\ Lands
  BY <1>1, <1>6 DEF R!Close
<1>7. ASSUME R!Crash PROVE JobsInv' /\ R!N!Serve /\ Lands BY <1>7, CallEndsServe
<1> QED BY <1>1, <1>2, <1>3, <1>4, <1>5, <1>6, <1>7 DEF R!Acts

\* A credential older than another consent of its label is not the newest.
StraysInv == \A w \in Workers : Stray(w) => Of(w) \in Labels /\ R!Strays(Of(w))
LEMMA StraysDoubted == JobsInv => StraysInv
<1> SUFFICES ASSUME JobsInv, NEW w \in Workers, Stray(w)
             PROVE  Of(w) \in Labels /\ R!Strays(Of(w))
  BY DEF StraysInv
<1> DEFINE l == Of(w)
<1>1. /\ worker[w].job \in Consents /\ worker[w].holds \in Asking(l) /\ worker[w].holds \in Consents
      /\ l \in Labels
  BY DEF Stray, JobsInv, CallInv, RowsInv, Of, Asking
<1>2. Asking(l) \in SUBSET Nat BY ConsentsCount DEF Asking
<1>3. PICK n \in Asking(l) : \A d \in Asking(l) : d <= n BY <1>1 DEF JobsInv, RowsInv
<1>4. R!Newest(l) = n BY <1>2, <1>3, NewestIsGreatest, GreatestIs
<1>5. PICK d \in Asking(l) : ~(d <= worker[w].holds) BY DEF Stray, Last
<1>6. worker[w].holds \in Nat /\ n \in Nat /\ d \in Nat /\ d <= n BY <1>1, <1>2, <1>3, <1>5
<1>7. worker[w].holds < R!Newest(l) BY <1>4, <1>5, <1>6
<1> QED BY <1>1, <1>7 DEF Stray, R!Strays, R!Label, Of

\* A label is doubted while a call may set it back, and until its newest consent is
\* installed: what is sure stays sure.
LEMMA SureStays ==
  ASSUME JobsInv', Lands, R!Doubts
  PROVE  SureInv'
<1> SUFFICES ASSUME NEW w \in Workers, Of(w)' \notin doubt' PROVE Landed(w)' /\ ~Stray(w)'
  BY DEF SureInv
<1>1. doubt' = {l \in Labels : R!Strays(l)' \/ (l \in doubt /\ cluster'[l] # R!Newest(l)')}
  BY DEF R!Doubts
<1>2. ~Stray(w)'
  <2>1. StraysInv' BY StraysDoubted, PTL
  <2> QED BY <1>1, <2>1 DEF StraysInv, R!Strays
<1>3. Landed(w)'
  <2>1. CASE Of(w)' \notin doubt BY <2>1 DEF Lands
  <2>2. CASE Of(w)' \in doubt
    <3>1. SUFFICES ASSUME worker'[w].at # "idle", Last(w)' PROVE cluster'[Of(w)'] = worker'[w].holds
      BY DEF Landed
    <3>2. Of(w)' \in Labels /\ worker'[w].holds \in Asking(Of(w))'
      BY <3>1 DEF JobsInv, CallInv, RowsInv, Of
    <3>3. cluster'[Of(w)'] = R!Newest(Of(w))' BY <1>1, <2>2, <3>2 DEF R!Newest
    <3>4. Asking(Of(w))' \in SUBSET Nat BY ConsentsCount DEF Asking
    <3>5. R!Newest(Of(w))' = worker'[w].holds BY <3>1, <3>2, <3>4, NewestIsGreatest, GreatestIs DEF Last
    <3> QED BY <3>3, <3>5
  <2> QED BY <2>1, <2>2
<1> QED BY <1>2, <1>3

\* Every step of the reconnects keeps the promise, or says nothing.
KeptInv == JobsInv /\ SureInv /\ doubt \subseteq Labels
LEMMA JobsStep == KeptInv /\ [R!Next]_(R!vars) => KeptInv' /\ [R!N!Keep]_(R!N!promise)
<1> SUFFICES ASSUME KeptInv, [R!Next]_(R!vars) PROVE KeptInv' /\ [R!N!Keep]_(R!N!promise)
  OBVIOUS
<1>1. JobsInv /\ SureInv BY DEF KeptInv
<1>2. JobsInv' /\ R!N!Serve /\ Lands BY <1>1, ActServes DEF R!Next, R!vars
<1>3. CASE R!Doubts
  <2>1. SureInv' BY <1>2, <1>3, SureStays
  <2>2. doubt' \subseteq Labels BY <1>3 DEF R!Doubts
  <2>3. ASSUME NEW l \in doubt \ doubt'
        PROVE  cluster'[l] = [m \in Labels |-> R!Newest(m)]'[l]
    <3>1. l \in Labels /\ cluster'[l] = R!Newest(l)' BY <1>3, <2>3 DEF KeptInv, R!Doubts
    <3> QED BY <3>1
  <2>4. R!N!Keep BY <1>2, <2>3 DEF R!N!Keep
  <2> QED BY <1>2, <2>1, <2>2, <2>4 DEF KeptInv
<1>4. CASE UNCHANGED R!vars
  <2>1. doubt' = doubt BY <1>4 DEF R!vars
  <2>2. UNCHANGED R!N!promise BY <1>4 DEF R!vars, R!N!promise, R!Newest, R!Watched, R!Label
  <2>3. SureInv' BY <1>1, <1>4 DEF R!vars, SureInv, Landed, Stray, Last, Of, Asking
  <2> QED BY <1>2, <2>1, <2>2, <2>3 DEF KeptInv
<1> QED BY <1>3, <1>4 DEF R!Next

\* The promise holds before anybody asked.
LEMMA JobsPromised == R!Init => R!N!Promised
BY DEF R!Init, R!N!Promised, R!Newest, R!Watched

(* The newest consent wins: a credential is not replaced by an older one and "complete"
   means that the newest is installed (reconnect.rs `enqueue`, `save`), for any number of
   labels, consents and calls, however these end, short of the labels that a call which
   outlived its lease may set back or has (ReconnectJobs.Doubts). *)
THEOREM NewestConsentWins == PartsSpec => NewestWins
<1>1. PartsInit => KeptInv /\ R!N!Promised BY ReconnectsRun, JobsStart, JobsPromised DEF KeptInv
<1>2. KeptInv /\ [PartsNext]_partsVars => KeptInv' /\ [R!N!Keep]_(R!N!promise)
  BY ReconnectsRun, JobsStep
<1> QED BY <1>1, <1>2, PTL DEF PartsSpec, NewestWins, R!NewestWins, R!N!Promise
================================================================================
