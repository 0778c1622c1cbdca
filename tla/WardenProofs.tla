----------------------------- MODULE WardenProofs ----------------------------
(***************************************************************************)
(* A closed account keeps its marker, a pod whose template names the       *)
(* stored credential has installed it, and a replaced credential is        *)
(* confirmed only while it serves, for any number of tenants and callers   *)
(* and any interleaving of their requests, with an unattended roll beside  *)
(* them or without.  A bad render that is rolled takes down one mailbox at *)
(* most while no key changes, and one with its key unchanged at any time,  *)
(* where no call gives a tenant back what it had.                          *)
(***************************************************************************)
EXTENDS FleetRoll, SequenceTheorems, FiniteSetTheorems, NaturalsInduction,
        WellFoundedInduction, TLAPS

--------------------------------------------------------------------------------
(* The scripts *)

CredOps == {"credentials", "replace", "reconnect"}
Named   == CredOps \cup {"create", "llm", "share", "unshare", "repair", "reconcile",
                         "converge", "delete", "sweep"}
Puts    == {"putCred", "putLlm", "putShare"}
Drops   == {"dropIngress", "dropService", "dropDeploy", "dropPolicy", "dropLlm", "mark"}
Requests == Puts \cup Drops \cup Kinds \cup
  {"dropShare", "mint", "identity", "admit", "read", "present", "deploy", "live", "remove", "gone",
   "absent", "rollout", "ready", "unmark", "confirm", "pair", "doomed", "collect"}

\* The step that stores the value a call brings in a slot.
PutOf(slot) == CASE slot = "cred" -> "putCred" [] slot = "llm" -> "putLlm"
                 [] slot = "share" -> "putShare"

\* Which calls have a step in their scripts.
Fits(op, step) ==
  /\ \A slot \in Slots : step = PutOf(slot) => slot \in Brings(op)
  /\ step \in Drops => op = "delete"
  /\ step = "dropShare" => op \in {"delete", "unshare"}
  /\ step = "unmark" => op = "credentials"
  /\ step \in {"doomed", "collect"} => op = "sweep"
  /\ step = "mint" => op = "create"
  /\ step = "admit" => op \in CredOps \cup {"reconcile", "converge"}
  /\ step = "live" => op \in {"reconcile", "converge"}
  /\ step \in {"read", "deploy"} => op \notin {"create", "delete", "sweep", "repair"}

\* No call stores twice, reads or renders before it has stored or been admitted, or
\* takes the marker off and then waits for a pod.
Forbidden(op, first, later) ==
  \/ first \in Puts \cup {"read", "deploy"} /\ later \in Puts
  \/ first = "unmark" /\ later = "ready"
  \/ /\ op \in CredOps /\ "admit" \in {first, later}
     /\ {first, later} \cap (Puts \cup {"read", "deploy"}) # {}

\* What is left of a call's script, "known" if it has its hashes from what is stored.
Shaped(op, todo, known) ==
  /\ todo \in Seq(Requests)
  /\ \A i \in 1..Len(todo) : Fits(op, todo[i])
  /\ \A i, j \in 1..Len(todo) : i < j => ~Forbidden(op, todo[i], todo[j])
  /\ \A j \in 1..Len(todo) : todo[j] = "deploy" => known \/ \E i \in 1..(j-1) : todo[i] = "read"

--------------------------------------------------------------------------------
(* Types *)

Hashes    == [Slots -> Nat]
Tmpls     == [hash : Hashes, render : Nat]
DepRows   == [tmpl : Tmpls, foreign : BOOLEAN, rolled : BOOLEAN, stands : BOOLEAN]
PodRows   == [tmpl : Tmpls, loaded : Hashes, phase : {"starting", "ready", "dying"},
              owned : BOOLEAN]
CallRows  == [op : Named \cup {"none"}, tenant : Tenants \cup {0}, todo : Seq(Requests),
              seen : Hashes, replacing : BOOLEAN, reopening : BOOLEAN, render : Nat]
SpentRows == [values : Nat, calls : Nat, faults : Nat, edits : Nat]

TypeOK ==
  /\ ident \in [Tenants -> {"none", "young", "old"}] /\ closed \in [Tenants -> BOOLEAN]
  /\ secret \in [Tenants -> Hashes] /\ up \in [Tenants -> SUBSET Kinds]
  /\ dep \in [Tenants -> DepRows] /\ pod \in [Tenants -> SUBSET PodRows]
  /\ call \in [Callers -> CallRows] /\ render \in Nat /\ spent \in SpentRows
  /\ torn \in [Tenants -> {"whole", "torn", "raced", "reopened"}]
  /\ stored \in [Tenants -> Seq(Nat)]

--------------------------------------------------------------------------------
(* The invariant *)

Known(t) == {stored[t][i] : i \in 1..Len(stored[t])}

\* The call has yet to store what it brings.
Ahead(c, slot) ==
  /\ slot \in Brings(call[c].op)
  /\ \E i \in 1..Len(call[c].todo) :
       \/ call[c].todo[i] = PutOf(slot)
       \/ slot = "cred" /\ call[c].todo[i] = "admit"

\* A call is left with a suffix of a script; it renders with a credential that has been
\* stored; its own value is new until it is; a teardown past its marker leaves the
\* account closed, or something has reopened it meanwhile.
CallFine(c) ==
  LET r == call[c]
  IN /\ r = NoCall \/ (r.op \in Named /\ r.tenant \in Tenants)
     /\ \A slot \in Slots : r.seen[slot] <= spent.values
     /\ Shaped(r.op, r.todo, r.seen["cred"] \in Known(r.tenant))
     /\ r.op \in CredOps => Ahead(c, "cred") \/ r.seen["cred"] \in Known(r.tenant)
     /\ Ahead(c, "cred") => /\ r.seen["cred"] > 0
                            /\ \A t \in Tenants : r.seen["cred"] \notin Known(t)
                            /\ \A d \in Callers \ {c} : Ahead(d, "cred") =>
                                 call[d].seen["cred"] # r.seen["cred"]
     /\ r.reopening => r.op \in {"credentials", "unshare"}
     /\ r.op = "delete" => At(c, "mark") \/ Cancelled(r.tenant) \/ torn[r.tenant] = "raced"

\* What is stored is the last of the credentials put there, all different; a pod has
\* installed the credential its template names, or a later one.
TenantFine(t) ==
  LET n == Len(stored[t])
  IN /\ torn[t] = "torn" => Cancelled(t)
     /\ \A slot \in Slots : secret[t][slot] <= spent.values
     /\ secret[t]["cred"] = IF n = 0 THEN 0 ELSE stored[t][n]
     /\ \A v \in Known(t) : v > 0 /\ v <= spent.values
     /\ \A i, j \in 1..n : stored[t][i] = stored[t][j] => i = j
     /\ Exists(t) => dep[t].tmpl.hash["cred"] \in Known(t)
     /\ \A p \in pod[t] : /\ p.tmpl.hash["cred"] \in Known(t)
                          /\ p.loaded["cred"] \in Since(t, p.tmpl.hash["cred"])

WardenInv == (\A c \in Callers : CallFine(c)) /\ \A t \in Tenants : TenantFine(t)

--------------------------------------------------------------------------------
(* Sequences of requests *)

\* What is left when the first request of a call has been made.
LEMMA TailShape ==
  ASSUME NEW op, NEW todo, NEW known \in BOOLEAN, Shaped(op, todo, known), todo # <<>>,
         NEW k \in BOOLEAN, known => k, Head(todo) = "read" => k
  PROVE  /\ Shaped(op, Tail(todo), k)
         /\ Len(Tail(todo)) = Len(todo) - 1 /\ Len(todo) > 0 /\ Head(todo) = todo[1]
         /\ \A i \in 1..Len(Tail(todo)) : i + 1 \in 1..Len(todo) /\ Tail(todo)[i] = todo[i + 1]
<1> DEFINE rest == Tail(todo)
<1>1. /\ todo \in Seq(Requests) /\ rest \in Seq(Requests) /\ Len(rest) = Len(todo) - 1
      /\ \A i \in 1..Len(rest) : rest[i] = todo[i + 1]
  BY HeadTailProperties DEF Shaped
<1>2. Len(todo) \in Nat /\ Len(todo) > 0 /\ Head(todo) = todo[1]
  BY <1>1, EmptySeq DEF Shaped
<1>3. \A i \in 1..Len(rest) : i + 1 \in 1..Len(todo)
  BY <1>1, <1>2
<1>4. \A i \in 1..Len(rest) : Fits(op, rest[i])
  BY <1>1, <1>3 DEF Shaped
<1>5. \A i, j \in 1..Len(rest) : i < j => ~Forbidden(op, rest[i], rest[j])
  <2> SUFFICES ASSUME NEW i \in 1..Len(rest), NEW j \in 1..Len(rest), i < j
               PROVE  ~Forbidden(op, rest[i], rest[j])
    OBVIOUS
  <2>1. i + 1 < j + 1
    OBVIOUS
  <2> QED BY <1>1, <1>3, <2>1 DEF Shaped
<1>6. ASSUME NEW j \in 1..Len(rest), rest[j] = "deploy"
      PROVE  k \/ \E i \in 1..(j-1) : rest[i] = "read"
  <2>1. CASE known \/ todo[1] = "read"
    BY <1>2, <2>1
  <2>2. CASE ~known /\ todo[1] # "read"
    <3>1. PICK i \in 1..((j + 1) - 1) : todo[i] = "read"
      BY <1>1, <1>3, <1>6, <2>2 DEF Shaped
    <3>2. i - 1 \in 1..(j - 1) /\ i - 1 \in 1..Len(rest) /\ (i - 1) + 1 = i
      BY <1>1, <1>2, <2>2, <3>1
    <3> QED BY <1>1, <3>1, <3>2
  <2> QED BY <2>1, <2>2
<1> QED BY <1>1, <1>2, <1>3, <1>4, <1>5, <1>6 DEF Shaped

\* The request that stores is the p-th if any, nothing is read or rendered up to it, the
\* r-th reads before any renders, the wait for a pod is among the first u and the marker
\* comes off after them.
Layout(op, todo, p, r, u) ==
  /\ todo \in Seq(Requests) /\ p \in Nat /\ u \in Nat
  /\ r \in 1..Len(todo) => r > p /\ todo[r] = "read"
  /\ \A i \in 1..Len(todo) :
       /\ Fits(op, todo[i])
       /\ todo[i] \in Puts => i = p
       /\ todo[i] = "read" => r \in 1..Len(todo) /\ i >= r
       /\ todo[i] = "deploy" => r \in 1..Len(todo) /\ i > r
       /\ todo[i] = "ready" => i <= u
       /\ todo[i] = "unmark" => i > u
  /\ \/ op \notin CredOps
     \/ \A i \in 1..Len(todo) : todo[i] # "admit"
     \/ \A i \in 1..Len(todo) : todo[i] \notin Puts \cup {"read", "deploy"}

\* A list so laid out is well shaped.
LEMMA Arranged ==
  ASSUME NEW op, NEW todo, NEW p, NEW r, NEW u, Layout(op, todo, p, r, u)
  PROVE  Shaped(op, todo, FALSE)
<1> USE DEF Layout
<1>1. Len(todo) \in Nat
  OBVIOUS
<1>2. ASSUME NEW i \in 1..Len(todo), NEW j \in 1..Len(todo), i < j, Forbidden(op, todo[i], todo[j])
      PROVE  FALSE
  <2>1. CASE todo[i] \in Puts \cup {"read", "deploy"} /\ todo[j] \in Puts
    BY <1>2, <2>1 DEF Puts
  <2>2. CASE todo[i] = "unmark" /\ todo[j] = "ready"
    BY <1>2, <2>2
  <2>3. CASE /\ op \in CredOps /\ "admit" \in {todo[i], todo[j]}
             /\ {todo[i], todo[j]} \cap (Puts \cup {"read", "deploy"}) # {}
    BY <2>3
  <2> QED BY <1>2, <2>1, <2>2, <2>3 DEF Forbidden
<1>3. ASSUME NEW j \in 1..Len(todo), todo[j] = "deploy" PROVE \E i \in 1..(j-1) : todo[i] = "read"
  <2>1. r \in 1..(j-1) /\ todo[r] = "read"
    BY <1>1, <1>3
  <2> QED BY <2>1
<1> QED BY <1>2, <1>3 DEF Shaped

\* Every call begins with a script of that shape.
LEMMA ScriptShape ==
  ASSUME NEW op \in Named
  PROVE  /\ Shaped(op, Script(op), FALSE) /\ Script(op) # <<>>
         /\ op = "delete" => Head(Script(op)) = "mark"
         /\ op \in CredOps => Script(op) = <<"identity", "admit">>
<1>1. CASE op = "create"
  <2> DEFINE q == <<"mint">>
  <2>1. Script(op) = q /\ q # <<>> /\ Head(q) = "mint"
    BY <1>1 DEF Script, Converge, Named, CredOps
  <2>2. /\ q \in Seq(Requests) /\ Len(q) = 1
        /\ q[1] = "mint"
    BY DEF Requests, Puts, Drops, Kinds
  <2> HIDE DEF q
  <2>3. Layout(op, q, 0, 0, 0)
    BY <1>1, <2>2 DEF Layout, Fits, PutOf, Puts, Drops, Slots, Brings, CredOps
  <2> QED BY <1>1, <2>1, <2>3, Arranged DEF CredOps
<1>2. CASE op \in CredOps
  <2> DEFINE q == <<"identity", "admit">>
  <2>1. Script(op) = q /\ q = <<"identity", "admit">> /\ q # <<>>
    BY <1>2 DEF Script, Converge, Named, CredOps
  <2>2. /\ q \in Seq(Requests) /\ Len(q) = 2
        /\ q[1] = "identity" /\ q[2] = "admit"
    BY DEF Requests, Puts, Drops, Kinds
  <2> HIDE DEF q
  <2>3. Layout(op, q, 0, 0, 0)
    BY <1>2, <2>2 DEF Layout, Fits, PutOf, Puts, Drops, Slots, Brings, CredOps
  <2> QED BY <1>2, <2>1, <2>3, Arranged DEF CredOps
<1>3. CASE op = "llm"
  <2> DEFINE q == <<"identity", "putLlm", "present", "read", "deploy">>
  <2>1. Script(op) = q /\ q # <<>> /\ Head(q) = "identity"
    BY <1>3 DEF Script, Converge, Named, CredOps
  <2>2. /\ q \in Seq(Requests) /\ Len(q) = 5
        /\ q[1] = "identity" /\ q[2] = "putLlm" /\ q[3] = "present" /\ q[4] = "read"
        /\ q[5] = "deploy"
    BY DEF Requests, Puts, Drops, Kinds
  <2> HIDE DEF q
  <2>3. Layout(op, q, 2, 4, 5)
    BY <1>3, <2>2 DEF Layout, Fits, PutOf, Puts, Drops, Slots, Brings, CredOps
  <2> QED BY <1>3, <2>1, <2>3, Arranged DEF CredOps
<1>4. CASE op = "share"
  <2> DEFINE q == <<"identity", "putShare", "present", "read", "deploy">>
  <2>1. Script(op) = q /\ q # <<>> /\ Head(q) = "identity"
    BY <1>4 DEF Script, Converge, Named, CredOps
  <2>2. /\ q \in Seq(Requests) /\ Len(q) = 5
        /\ q[1] = "identity" /\ q[2] = "putShare" /\ q[3] = "present" /\ q[4] = "read"
        /\ q[5] = "deploy"
    BY DEF Requests, Puts, Drops, Kinds
  <2> HIDE DEF q
  <2>3. Layout(op, q, 2, 4, 5)
    BY <1>4, <2>2 DEF Layout, Fits, PutOf, Puts, Drops, Slots, Brings, CredOps
  <2> QED BY <1>4, <2>1, <2>3, Arranged DEF CredOps
<1>5. CASE op = "unshare"
  <2> DEFINE q == <<"identity", "dropShare", "present", "read", "deploy">>
  <2>1. Script(op) = q /\ q # <<>> /\ Head(q) = "identity"
    BY <1>5 DEF Script, Converge, Named, CredOps
  <2>2. /\ q \in Seq(Requests) /\ Len(q) = 5
        /\ q[1] = "identity" /\ q[2] = "dropShare" /\ q[3] = "present" /\ q[4] = "read"
        /\ q[5] = "deploy"
    BY DEF Requests, Puts, Drops, Kinds
  <2> HIDE DEF q
  <2>3. Layout(op, q, 0, 4, 5)
    BY <1>5, <2>2 DEF Layout, Fits, PutOf, Puts, Drops, Slots, Brings, CredOps
  <2> QED BY <1>5, <2>1, <2>3, Arranged DEF CredOps
<1>6. CASE op = "repair"
  <2> DEFINE q == <<"identity", "rollout", "ready", "pair">>
  <2>1. Script(op) = q /\ q # <<>> /\ Head(q) = "identity"
    BY <1>6 DEF Script, Converge, Named, CredOps
  <2>2. /\ q \in Seq(Requests) /\ Len(q) = 4
        /\ q[1] = "identity" /\ q[2] = "rollout" /\ q[3] = "ready" /\ q[4] = "pair"
    BY DEF Requests, Puts, Drops, Kinds
  <2> HIDE DEF q
  <2>3. Layout(op, q, 0, 0, 4)
    BY <1>6, <2>2 DEF Layout, Fits, PutOf, Puts, Drops, Slots, Brings, CredOps
  <2> QED BY <1>6, <2>1, <2>3, Arranged DEF CredOps
<1>7. CASE op \in {"reconcile", "converge"}
  <2> DEFINE q == <<"identity", "admit", "read", "policy", "service", "live", "deploy", "ingress", "rollout">>
  <2>1. Script(op) = q /\ q # <<>> /\ Head(q) = "identity"
    BY <1>7 DEF Script, Converge, Named, CredOps
  <2>2. /\ q \in Seq(Requests) /\ Len(q) = 9
        /\ q[1] = "identity" /\ q[2] = "admit" /\ q[3] = "read" /\ q[4] = "policy"
        /\ q[5] = "service" /\ q[6] = "live" /\ q[7] = "deploy" /\ q[8] = "ingress"
        /\ q[9] = "rollout"
    BY DEF Requests, Puts, Drops, Kinds
  <2> HIDE DEF q
  <2>3. Layout(op, q, 0, 3, 9)
    BY <1>7, <2>2 DEF Layout, Fits, PutOf, Puts, Drops, Slots, Brings, CredOps
  <2> QED BY <1>7, <2>1, <2>3, Arranged DEF CredOps
<1>8. CASE op = "delete"
  <2> DEFINE q == <<"mark", "dropIngress", "dropService", "dropDeploy", "dropPolicy", "dropLlm", "dropShare">>
  <2>1. Script(op) = q /\ q # <<>> /\ Head(q) = "mark"
    BY <1>8 DEF Script, Converge, Named, CredOps
  <2>2. /\ q \in Seq(Requests) /\ Len(q) = 7
        /\ q[1] = "mark" /\ q[2] = "dropIngress" /\ q[3] = "dropService" /\ q[4] = "dropDeploy"
        /\ q[5] = "dropPolicy" /\ q[6] = "dropLlm" /\ q[7] = "dropShare"
    BY DEF Requests, Puts, Drops, Kinds
  <2> HIDE DEF q
  <2>3. Layout(op, q, 0, 0, 0)
    BY <1>8, <2>2 DEF Layout, Fits, PutOf, Puts, Drops, Slots, Brings, CredOps
  <2> QED BY <1>8, <2>1, <2>3, Arranged DEF CredOps
<1>9. CASE op = "sweep"
  <2> DEFINE q == <<"doomed", "collect">>
  <2>1. Script(op) = q /\ q # <<>> /\ Head(q) = "doomed"
    BY <1>9 DEF Script, Converge, Named, CredOps
  <2>2. /\ q \in Seq(Requests) /\ Len(q) = 2
        /\ q[1] = "doomed" /\ q[2] = "collect"
    BY DEF Requests, Puts, Drops, Kinds
  <2> HIDE DEF q
  <2>3. Layout(op, q, 0, 0, 0)
    BY <1>9, <2>2 DEF Layout, Fits, PutOf, Puts, Drops, Slots, Brings, CredOps
  <2> QED BY <1>9, <2>1, <2>3, Arranged DEF CredOps
<1> QED BY <1>1, <1>2, <1>3, <1>4, <1>5, <1>6, <1>7, <1>8, <1>9 DEF Named

\* One request more, or none.
Maybe(b, step) == b \in Seq(Requests) /\ Len(b) <= 1 /\ \A i \in 1..Len(b) : b[i] = step

Quiet(op, step) == Fits(op, step) /\ step \notin Puts \cup {"read", "deploy", "admit"}
Marked(q) == \A i \in 1..Len(q) : q[i] # "unmark"

\* A list stays well shaped with one more request that neither stores nor reads.
LEMMA JoinShape ==
  ASSUME NEW op, NEW a, NEW b, NEW step, Shaped(op, a, FALSE), a # <<>>, Maybe(b, step),
         Quiet(op, step) \/ b = <<>>, step # "ready" \/ Marked(a)
  PROVE  /\ Shaped(op, a \o b, FALSE) /\ a \o b # <<>> /\ (a \o b)[1] = a[1]
         /\ Marked(a) /\ step # "unmark" => Marked(a \o b)
<1> DEFINE q == a \o b
           n == Len(a)
<1>1. /\ a \in Seq(Requests) /\ n \in Nat /\ n > 0 /\ Len(b) \in Nat
      /\ q \in Seq(Requests) /\ Len(q) = n + Len(b)
      /\ \A i \in 1..Len(q) : q[i] = IF i <= n THEN a[i] ELSE b[i - n]
  <2>1. a \in Seq(Requests) /\ b \in Seq(Requests)
    BY DEF Shaped, Maybe
  <2> QED BY <2>1, ConcatProperties, LenProperties, EmptySeq
<1> HIDE DEF q
<1>2. ASSUME NEW i \in 1..Len(q)
      PROVE  \/ i \in 1..n /\ q[i] = a[i]
             \/ i > n /\ q[i] = step /\ Quiet(op, step)
  <2>1. CASE i <= n
    BY <1>1, <2>1
  <2>2. CASE i > n
    <3>1. i - n \in 1..Len(b) /\ q[i] = b[i - n]
      BY <1>1, <2>2
    <3>2. b # <<>>
      BY <3>1
    <3> QED BY <2>2, <3>1, <3>2 DEF Maybe
  <2> QED BY <1>1, <2>1, <2>2
<1>3. \A i \in 1..Len(q) : Fits(op, q[i])
  BY <1>2 DEF Shaped, Quiet
<1>4. ASSUME NEW i \in 1..Len(q), NEW j \in 1..Len(q), i < j, Forbidden(op, q[i], q[j])
      PROVE  FALSE
  <2>1. CASE j <= n
    BY <1>1, <1>2, <1>4, <2>1 DEF Shaped
  <2>2. CASE j > n
    <3>1. q[j] = step /\ Quiet(op, step)
      BY <1>1, <1>2, <2>2
    <3>2. q[j] \notin Puts \cup {"read", "deploy", "admit"}
      BY <3>1 DEF Quiet
    <3>3. ~(q[i] = "unmark" /\ q[j] = "ready")
      <4>1. CASE i \in 1..n /\ q[i] = a[i]
        BY <3>1, <4>1 DEF Marked
      <4>2. CASE q[i] = step
        BY <3>1, <4>2
      <4> QED BY <1>2, <4>1, <4>2
    <3>4. CASE op \in CredOps /\ q[i] = "admit"
      BY <1>4, <3>2, <3>4 DEF Forbidden, Puts
    <3> QED BY <1>4, <3>2, <3>3, <3>4 DEF Forbidden
  <2> QED BY <1>1, <2>1, <2>2
<1>5. ASSUME NEW j \in 1..Len(q), q[j] = "deploy" PROVE \E i \in 1..(j-1) : q[i] = "read"
  <2>1. j \in 1..n /\ a[j] = "deploy"
    BY <1>2, <1>5 DEF Quiet
  <2>2. PICK i \in 1..(j-1) : a[i] = "read"
    BY <2>1 DEF Shaped
  <2>3. i \in 1..Len(q) /\ i <= n
    BY <1>1, <2>1
  <2>4. q[i] = a[i]
    BY <1>1, <2>3
  <2> QED BY <2>2, <2>4
<1>6. q # <<>> /\ q[1] = a[1]
  BY <1>1, EmptySeq
<1>7. Marked(a) /\ step # "unmark" => Marked(q)
  BY <1>2 DEF Marked
<1> QED BY <1>1, <1>3, <1>4, <1>5, <1>6, <1>7 DEF Shaped, q

\* What an admitted call has to do is well shaped, and begins by storing the credential.
LEMMA InstallShape ==
  ASSUME NEW c, NEW replacing \in BOOLEAN, NEW reopening \in BOOLEAN, call[c].op \in CredOps,
         reopening => call[c].op = "credentials"
  PROVE  LET q == Install(c, replacing, reopening)
         IN Shaped(call[c].op, q, FALSE) /\ q # <<>> /\ q[1] = "putCred"
<1> DEFINE op == call[c].op
           core == <<"putCred", "policy", "service", "read", "deploy", "ingress">>
           b1 == IF replacing THEN <<"rollout">> ELSE <<>>
           b2 == <<"ready">>
           b3 == IF reopening THEN <<"unmark">> ELSE <<>>
           b4 == <<"confirm">>
           b5 == IF op = "reconnect" THEN <<>> ELSE <<"pair">>
           Good(q) == Shaped(op, q, FALSE) /\ q # <<>> /\ q[1] = "putCred"
<1>1. Install(c, replacing, reopening) = ((((core \o b1) \o b2) \o b3) \o b4) \o b5
  BY DEF Install
<1>2. Good(core) /\ Marked(core)
  <2> DEFINE q == core
  <2>1. /\ q \in Seq(Requests) /\ Len(q) = 6 /\ q # <<>>
        /\ q[1] = "putCred" /\ q[2] = "policy" /\ q[3] = "service" /\ q[4] = "read"
        /\ q[5] = "deploy" /\ q[6] = "ingress"
    BY DEF Requests, Puts, Drops, Kinds
  <2> HIDE DEF q
  <2>2. Layout(op, q, 1, 4, 6) /\ Marked(q)
    BY <2>1 DEF Layout, Fits, PutOf, Puts, Drops, Slots, Brings, CredOps, Marked
  <2> QED BY <2>1, <2>2, Arranged DEF q
<1>3. /\ Maybe(b1, "rollout") /\ Maybe(b2, "ready") /\ Maybe(b3, "unmark")
      /\ Maybe(b4, "confirm") /\ Maybe(b5, "pair")
  <2>1. \A step \in Requests : Maybe(<<step>>, step) /\ Maybe(<<>>, step)
    BY DEF Maybe
  <2>2. {"rollout", "ready", "unmark", "confirm", "pair"} \subseteq Requests
    BY DEF Requests
  <2> QED BY <2>1, <2>2
<1>4. \A step \in {"rollout", "ready", "confirm", "pair"} : Quiet(op, step)
  BY DEF Quiet, Fits, PutOf, Puts, Drops, Slots
<1>5. Quiet(op, "unmark") \/ b3 = <<>>
  BY DEF Quiet, Fits, PutOf, Puts, Drops, Slots
<1> HIDE DEF core, b1, b2, b3, b4, b5
<1>7. Good(core \o b1) /\ Marked(core \o b1)
  <2>1. Quiet(op, "rollout")
    BY <1>4
  <2>2. "rollout" # "unmark" /\ "rollout" # "ready"
    OBVIOUS
  <2> QED BY <1>2, <1>3, <2>1, <2>2, JoinShape
<1>8. Good((core \o b1) \o b2)
  BY <1>3, <1>4, <1>7, JoinShape
<1>9. Good(((core \o b1) \o b2) \o b3)
  BY <1>3, <1>5, <1>8, JoinShape
<1>10. Good((((core \o b1) \o b2) \o b3) \o b4)
  BY <1>3, <1>4, <1>9, JoinShape
<1>11. Good(((((core \o b1) \o b2) \o b3) \o b4) \o b5)
  BY <1>3, <1>4, <1>10, JoinShape
<1> QED BY <1>1, <1>11

\* A foreign workload is removed and its pods awaited before the rest.
LEMMA LiveShape ==
  ASSUME NEW op, NEW rest, NEW k \in BOOLEAN, Shaped(op, rest, k)
  PROVE  LET q == <<"remove", "gone", "absent">> \o rest IN Shaped(op, q, k)
<1> DEFINE pre == <<"remove", "gone", "absent">>
           q == pre \o rest
<1>1. /\ pre \in Seq(Requests) /\ Len(pre) = 3
      /\ \A i \in 1..3 : pre[i] \in {"remove", "gone", "absent"}
  BY DEF Requests
<1>2. rest \in Seq(Requests)
  BY DEF Shaped
<1> HIDE DEF pre
<1>3. /\ Len(rest) \in Nat /\ q \in Seq(Requests) /\ Len(q) = 3 + Len(rest)
      /\ \A i \in 1..Len(q) : q[i] = IF i <= 3 THEN pre[i] ELSE rest[i - 3]
  <2>1. /\ q \in Seq(Requests) /\ Len(q) = Len(pre) + Len(rest)
        /\ \A i \in 1..(Len(pre) + Len(rest)) : q[i] = IF i <= Len(pre) THEN pre[i]
                                                      ELSE rest[i - Len(pre)]
    BY <1>1, <1>2, ConcatProperties
  <2>2. Len(rest) \in Nat
    BY <1>2, LenProperties
  <2> QED BY <1>1, <2>1, <2>2
<1> HIDE DEF q
<1>4. ASSUME NEW i \in 1..Len(q)
      PROVE  \/ i \in 1..3 /\ q[i] \in {"remove", "gone", "absent"}
             \/ i > 3 /\ i - 3 \in 1..Len(rest) /\ q[i] = rest[i - 3]
  <2>1. CASE i <= 3
    BY <1>1, <1>3, <2>1
  <2>2. CASE i > 3
    BY <1>3, <2>2
  <2> QED BY <1>3, <2>1, <2>2
<1>5. \A step \in {"remove", "gone", "absent"} : Fits(op, step)
  BY DEF Fits, PutOf, Slots, Drops
<1>6. \A i \in 1..Len(q) : Fits(op, q[i])
  BY <1>4, <1>5 DEF Shaped
<1>7. ASSUME NEW i \in 1..Len(q), NEW j \in 1..Len(q), i < j, Forbidden(op, q[i], q[j])
      PROVE  FALSE
  <2>1. CASE i <= 3
    <3>1. q[i] \in {"remove", "gone", "absent"} /\ q[i] \notin Puts \cup {"read", "deploy", "unmark", "admit"}
      BY <1>4, <2>1 DEF Puts
    <3>2. op \in CredOps /\ q[j] = "admit" /\ {q[i], q[j]} \cap (Puts \cup {"read", "deploy"}) # {}
      BY <1>7, <3>1 DEF Forbidden
    <3> QED BY <3>1, <3>2 DEF Puts
  <2>2. CASE i > 3
    <3>1. i - 3 \in 1..Len(rest) /\ j - 3 \in 1..Len(rest) /\ i - 3 < j - 3
          /\ q[i] = rest[i - 3] /\ q[j] = rest[j - 3]
      BY <1>3, <1>4, <1>7, <2>2
    <3> QED BY <1>7, <3>1 DEF Shaped
  <2> QED BY <1>3, <2>1, <2>2
<1>8. ASSUME NEW j \in 1..Len(q), q[j] = "deploy" PROVE k \/ \E i \in 1..(j-1) : q[i] = "read"
  <2>1. j > 3 /\ j - 3 \in 1..Len(rest) /\ rest[j - 3] = "deploy"
    BY <1>4, <1>8
  <2>2. CASE ~k
    <3>1. PICK i \in 1..((j - 3) - 1) : rest[i] = "read"
      BY <2>1, <2>2 DEF Shaped
    <3>2. i + 3 \in 1..(j - 1) /\ i + 3 \in 1..Len(q) /\ q[i + 3] = rest[i]
      BY <1>3, <2>1, <3>1
    <3> QED BY <3>1, <3>2
  <2> QED BY <2>2
<1>9. Shaped(op, q, k)
  BY <1>3, <1>6, <1>7, <1>8 DEF Shaped
<1> QED BY <1>9 DEF pre, q

--------------------------------------------------------------------------------
(* What a request leaves of its call *)

\* The call goes on as its script says, and is ahead of what it was ahead of.
GoesOn(c, t) ==
  LET r == call[c]
      s == call'[c]
  IN /\ s \in CallRows /\ s # NoCall /\ s.op = r.op /\ s.tenant = t
     /\ s.reopening => s.op \in {"credentials", "unshare"}
     /\ Shaped(s.op, s.todo, s.seen["cred"] \in Known(t)')
     /\ s.op \in CredOps => Ahead(c, "cred")' \/ s.seen["cred"] \in Known(t)'
     /\ Ahead(c, "cred")' => /\ Ahead(c, "cred") /\ s.seen["cred"] = r.seen["cred"]
                             /\ ~At(c, "putCred")
     /\ \A slot \in Slots : s.seen[slot] <= spent.values
     /\ s.replacing \in BOOLEAN

\* Whoever else is at work is left alone.
OthersAlone(c) == /\ call' \in [Callers -> CallRows]
                  /\ \A d \in Callers \ {c} : call'[d] = call[d]

\* Only calls that bring a credential are ahead of one.
LEMMA AheadCred ==
  ASSUME NEW c \in Callers, call[c].op \in Named \cup {"none"}
  PROVE  Ahead(c, "cred") <=>
           /\ call[c].op \in CredOps
           /\ \E i \in 1..Len(call[c].todo) : call[c].todo[i] \in {"putCred", "admit"}
BY DEF Ahead, Brings, Named, CredOps, Slots, PutOf

\* A call that makes its first request and goes on.
LEMMA Proceeds ==
  ASSUME TypeOK, NEW c \in Callers, NEW t \in Tenants, call[c].tenant = t, call[c].op \in Named,
         CallFine(c), call[c].todo # <<>>, Known(t) \subseteq Known(t)',
         NEW r \in CallRows, r.op = call[c].op, r.tenant = t, r.todo = call[c].todo,
         r.reopening => r.op \in {"credentials", "unshare"},
         \A slot \in Slots : r.seen[slot] <= spent.values,
         r.seen = call[c].seen \/ At(c, "read"),
         At(c, "read") \/ At(c, "putCred") => r.seen["cred"] \in Known(t)',
         ~At(c, "admit") \/ r.op \notin CredOps,
         Goes(c, r)
  PROVE  OthersAlone(c) /\ GoesOn(c, t)
<1> DEFINE todo == call[c].todo
           rest == Tail(todo)
<1>1. call \in [Callers -> CallRows] /\ call[c] \in CallRows
  BY DEF TypeOK
<1>2. Shaped(r.op, todo, call[c].seen["cred"] \in Known(t))
  BY DEF CallFine
<1>3. (call[c].seen["cred"] \in Known(t)) => (r.seen["cred"] \in Known(t)')
  BY DEF At
<1>4. Head(todo) = "read" => r.seen["cred"] \in Known(t)'
  BY DEF At
<1>5. /\ Shaped(r.op, rest, r.seen["cred"] \in Known(t)')
      /\ Len(rest) = Len(todo) - 1 /\ Len(todo) > 0 /\ Head(todo) = todo[1]
      /\ \A i \in 1..Len(rest) : i + 1 \in 1..Len(todo) /\ rest[i] = todo[i + 1]
  <2> DEFINE k0 == call[c].seen["cred"] \in Known(t)
             k1 == r.seen["cred"] \in Known(t)'
  <2>1. k0 \in BOOLEAN /\ k1 \in BOOLEAN /\ (k0 => k1) /\ (Head(todo) = "read" => k1)
    BY <1>3, <1>4
  <2>2. Shaped(r.op, todo, k0)
    BY <1>2
  <2> HIDE DEF k0, k1
  <2>3. /\ Shaped(r.op, rest, k1)
        /\ Len(rest) = Len(todo) - 1 /\ Len(todo) > 0 /\ Head(todo) = todo[1]
        /\ \A i \in 1..Len(rest) : i + 1 \in 1..Len(todo) /\ rest[i] = todo[i + 1]
    BY <2>1, <2>2, TailShape
  <2> QED BY <2>3 DEF k1
<1>6. /\ call'[c] = [r EXCEPT !.todo = rest] /\ rest \in Seq(Requests)
      /\ \A d \in Callers \ {c} : call'[d] = call[d]
  BY <1>1, <1>5 DEF Goes, Shaped
<1>7. /\ call'[c] \in CallRows /\ call'[c].op = r.op /\ call'[c].tenant = t
      /\ call'[c].todo = rest /\ call'[c].seen = r.seen /\ call'[c].reopening = r.reopening
  BY <1>6 DEF CallRows
<1>8. OthersAlone(c)
  BY <1>1, <1>6, <1>7 DEF OthersAlone, Goes
<1>9. call'[c] # NoCall
  BY <1>7 DEF NoCall, Named, CredOps
<1>10. Len(todo) \in Nat
  BY <1>1 DEF CallRows
<1>11. ASSUME NEW i \in 1..Len(rest), rest[i] \in {"putCred", "admit"}, r.op \in CredOps
       PROVE  Ahead(c, "cred") /\ todo[1] \notin {"putCred", "read", "deploy"}
  <2>1. i + 1 \in 1..Len(todo) /\ todo[i + 1] \in {"putCred", "admit"} /\ 1 \in 1..Len(todo) /\ 1 < i + 1
    BY <1>5, <1>10, <1>11
  <2>2. ~Forbidden(r.op, todo[1], todo[i + 1])
    BY <1>2, <2>1 DEF Shaped
  <2>3. Ahead(c, "cred")
    BY <1>11, <2>1, AheadCred
  <2> QED BY <1>11, <2>1, <2>2, <2>3 DEF Forbidden, Puts
<1>12. Ahead(c, "cred")' => /\ Ahead(c, "cred") /\ r.seen["cred"] = call[c].seen["cred"]
                            /\ ~At(c, "putCred")
  <2> SUFFICES ASSUME Ahead(c, "cred")'
               PROVE  Ahead(c, "cred") /\ todo[1] \notin {"putCred", "read"}
    BY <1>5 DEF At
  <2>1. (call[c].op \in CredOps /\ \E i \in 1..Len(call[c].todo) : call[c].todo[i] \in {"putCred", "admit"})'
    BY <1>7 DEF Ahead, Brings, Named, CredOps, Slots, PutOf
  <2> QED BY <1>7, <1>11, <2>1
<1>13. r.op \in CredOps => Ahead(c, "cred")' \/ r.seen["cred"] \in Known(t)'
  <2> SUFFICES ASSUME r.op \in CredOps, r.seen["cred"] \notin Known(t)'
               PROVE  Ahead(c, "cred")'
    OBVIOUS
  <2>1. Ahead(c, "cred")
    BY <1>3 DEF CallFine
  <2>2. PICK i \in 1..Len(todo) : todo[i] \in {"putCred", "admit"}
    BY <2>1, AheadCred
  <2>3. i # 1
    BY <1>5, <2>2 DEF At
  <2>4. i - 1 \in 1..Len(rest) /\ (i - 1) + 1 = i
    BY <1>5, <1>10, <2>3
  <2>5. rest[i - 1] \in {"putCred", "admit"}
    BY <1>5, <2>2, <2>4
  <2> QED BY <1>7, <2>4, <2>5 DEF Ahead, Brings, CredOps, Slots, PutOf
<1>14. Shaped(r.op, rest, r.seen["cred"] \in Known(t)')
  BY <1>5
<1> HIDE DEF todo, rest
<1> QED BY <1>7, <1>8, <1>9, <1>12, <1>13, <1>14 DEF GoesOn, CallRows

\* Storing a credential adds it to what is known of the tenant, and nothing else does.
LEMMA KnownGrows ==
  ASSUME TypeOK
  PROVE  /\ UNCHANGED stored => \A t \in Tenants : Known(t)' = Known(t)
         /\ \A t \in Tenants, v \in Nat : stored' = [stored EXCEPT ![t] = Append(@, v)] =>
              /\ Known(t)' = Known(t) \cup {v}
              /\ \A u \in Tenants \ {t} : Known(u)' = Known(u) /\ stored'[u] = stored[u]
              /\ stored'[t] = Append(stored[t], v)
<1>1. UNCHANGED stored => \A t \in Tenants : Known(t)' = Known(t)
  BY DEF Known
<1>2. ASSUME NEW t \in Tenants, NEW v \in Nat, stored' = [stored EXCEPT ![t] = Append(@, v)]
      PROVE  /\ Known(t)' = Known(t) \cup {v}
             /\ \A u \in Tenants \ {t} : Known(u)' = Known(u) /\ stored'[u] = stored[u]
             /\ stored'[t] = Append(stored[t], v)
  <2> DEFINE q == stored[t]
  <2>1. q \in Seq(Nat) /\ stored'[t] = Append(q, v) /\ \A u \in Tenants \ {t} : stored'[u] = stored[u]
    BY <1>2 DEF TypeOK
  <2>2. /\ Len(q) \in Nat /\ Len(Append(q, v)) = Len(q) + 1
        /\ \A i \in 1..Len(q) : Append(q, v)[i] = q[i]
        /\ Append(q, v)[Len(q) + 1] = v
    BY <2>1
  <2> HIDE DEF q
  <2>3. {Append(q, v)[i] : i \in 1..Len(Append(q, v))} = {q[i] : i \in 1..Len(q)} \cup {v}
    <3>1. \A i \in 1..(Len(q) + 1) : i \in 1..Len(q) \/ i = Len(q) + 1
      BY <2>2
    <3>2. \A i \in 1..Len(q) : i \in 1..(Len(q) + 1)
      BY <2>2
    <3>3. Len(q) + 1 \in 1..(Len(q) + 1)
      BY <2>2
    <3> QED BY <2>2, <3>1, <3>2, <3>3
  <2> QED BY <2>1, <2>3 DEF Known, q
<1> QED BY <1>1, <1>2

\* A call that ends leaves nothing.
LEMMA EndsAlone ==
  ASSUME TypeOK, NEW c \in Callers, Ends(c)
  PROVE  OthersAlone(c) /\ call'[c] = NoCall
<1>1. NoCall \in CallRows
  BY DEF NoCall, CallRows, Hashes
<1> QED BY <1>1 DEF TypeOK, Ends, OthersAlone

\* Every request ends its call or goes on with it.
LEMMA RequestMoves ==
  ASSUME TypeOK, NEW c \in Callers, CallFine(c), NEW t \in Tenants, call[c].tenant = t,
         TenantFine(t), Request(c, t)
  PROVE  OthersAlone(c) /\ (call'[c] = NoCall \/ GoesOn(c, t))
<1> DEFINE row == call[c]
           op == call[c].op
<1>1. /\ call \in [Callers -> CallRows] /\ row \in CallRows /\ op \in Named /\ row # NoCall
      /\ row.reopening => op \in {"credentials", "unshare"}
      /\ \A slot \in Slots : row.seen[slot] <= spent.values
      /\ Shaped(op, row.todo, row.seen["cred"] \in Known(t))
      /\ secret[t] \in Hashes /\ closed[t] \in BOOLEAN
  BY DEF TypeOK, CallFine, Request
<1>2. \A i \in 1..Len(row.todo) : Fits(op, row.todo[i])
  BY <1>1 DEF Shaped
<1>3. row.todo # <<>> => 1 \in 1..Len(row.todo) /\ Head(row.todo) = row.todo[1]
  BY <1>1, EmptySeq DEF CallRows
\* Most requests change nothing of the call but what is left of it.
<1>4. ASSUME Goes(c, call[c]), row.todo # <<>>, UNCHANGED stored,
             Head(row.todo) \notin {"read", "admit", "putCred"}
      PROVE  OthersAlone(c) /\ GoesOn(c, t)
  <2>1. Known(t) \subseteq Known(t)'
    BY <1>4, KnownGrows
  <2>2. ~At(c, "read") /\ ~At(c, "admit") /\ ~At(c, "putCred")
    BY <1>4 DEF At
  <2> QED BY <1>1, <1>4, <2>1, <2>2, Proceeds
<1>5. ASSUME Ends(c) PROVE OthersAlone(c) /\ (call'[c] = NoCall \/ GoesOn(c, t))
  BY <1>5, EndsAlone
<1>6. ASSUME Steps(c) \/ Done(c), row.todo # <<>>, UNCHANGED stored,
             Head(row.todo) \notin {"read", "admit", "putCred"}
      PROVE  OthersAlone(c) /\ (call'[c] = NoCall \/ GoesOn(c, t))
  BY <1>4, <1>5, <1>6 DEF Steps, Done
<1>7. CASE Mint(c, t) \/ Pair(c) \/ Collect(c, t) \/ TimesOut(c)
  BY <1>5, <1>7 DEF Mint, Pair, Collect, TimesOut
<1>8. CASE ReadIdentity(c, t)
  <2>1. At(c, "identity") /\ UNCHANGED stored
    BY <1>8 DEF ReadIdentity, Reading, history
  <2>2. CASE Ends(c)
    BY <1>5, <2>2
  <2>3. CASE /\ Goes(c, [call[c] EXCEPT !.reopening = closed[t]])
             /\ closed[t] => op \in {"credentials", "unshare"}
    <3> DEFINE s == [call[c] EXCEPT !.reopening = closed[t]]
    <3>1. /\ s \in CallRows /\ s.op = op /\ s.tenant = t /\ s.todo = row.todo
          /\ s.seen = row.seen /\ s.reopening = closed[t]
      BY <1>1 DEF CallRows
    <3> HIDE DEF s
    <3>2. Known(t) \subseteq Known(t)'
      BY <2>1, KnownGrows
    <3>3. ~At(c, "read") /\ ~At(c, "admit") /\ ~At(c, "putCred") /\ row.todo # <<>>
      BY <2>1 DEF At
    <3>4. Goes(c, s)
      BY <2>3 DEF s
    <3>5. /\ s.reopening => s.op \in {"credentials", "unshare"}
          /\ \A slot \in Slots : s.seen[slot] <= spent.values
      BY <1>1, <2>3, <3>1
    <3>6. OthersAlone(c) /\ GoesOn(c, t)
      BY <1>1, <3>1, <3>2, <3>3, <3>4, <3>5, Proceeds
    <3> QED BY <3>6
  <2> QED BY <1>8, <2>2, <2>3 DEF ReadIdentity
<1>9. CASE Admit(c, t)
  <2>1. At(c, "admit") /\ UNCHANGED <<stored, spent>> /\ row.todo # <<>>
    BY <1>9 DEF Admit, Reading, history, At
  <2>2. Known(t)' = Known(t)
    BY <2>1, KnownGrows
  <2>3. CASE Ends(c)
    BY <1>5, <2>3
  <2>4. CASE Steps(c) /\ op \in {"reconcile", "converge"}
    <3>1. ~At(c, "read") /\ ~At(c, "putCred") /\ op \notin CredOps
      BY <2>1, <2>4 DEF At, CredOps
    <3> QED BY <1>1, <2>1, <2>2, <2>4, <3>1, Proceeds DEF Steps
  <2>5. ASSUME NEW replacing \in BOOLEAN, op \notin {"reconcile", "converge"},
               call' = [call EXCEPT ![c].replacing = replacing,
                                    ![c].todo = Install(c, replacing, call[c].reopening)]
        PROVE  OthersAlone(c) /\ GoesOn(c, t)
    <3> DEFINE q == Install(c, replacing, call[c].reopening)
    <3>1. op \in CredOps
      BY <1>2, <1>3, <2>1, <2>5 DEF At, Fits
    <3>2. row.reopening \in BOOLEAN /\ (row.reopening => op = "credentials")
      BY <1>1, <3>1 DEF CallRows, CredOps
    <3>3. Shaped(op, q, FALSE) /\ q # <<>> /\ q[1] = "putCred"
      BY <3>1, <3>2, InstallShape
    <3> HIDE DEF q
    <3>4. q \in Seq(Requests) /\ 1 \in 1..Len(q)
      BY <3>3, EmptySeq DEF Shaped
    <3>5. /\ call'[c] = [row EXCEPT !.replacing = replacing, !.todo = q]
          /\ \A d \in Callers \ {c} : call'[d] = call[d]
      BY <1>1, <2>5 DEF q
    <3>6. /\ call'[c] \in CallRows /\ call'[c].op = op /\ call'[c].tenant = t /\ call'[c].todo = q
          /\ call'[c].seen = row.seen /\ call'[c].reopening = row.reopening
      BY <1>1, <3>4, <3>5 DEF CallRows
    <3>7. OthersAlone(c)
      BY <1>1, <2>5, <3>5, <3>6 DEF OthersAlone
    <3>8. Ahead(c, "cred")'
      BY <3>1, <3>3, <3>4, <3>6 DEF Ahead, Brings, CredOps, Slots, PutOf
    <3>9. Ahead(c, "cred") /\ ~At(c, "putCred")
      <4>1. row.todo[1] = "admit" /\ 1 \in 1..Len(row.todo)
        BY <1>3, <2>1 DEF At
      <4>2. Ahead(c, "cred")
        BY <1>1, <3>1, <4>1, AheadCred
      <4> QED BY <2>1, <4>2 DEF At
    <3>10. Shaped(op, q, call'[c].seen["cred"] \in Known(t)')
      BY <3>3 DEF Shaped
    <3>11. call'[c] # NoCall /\ call'[c].replacing \in BOOLEAN
      BY <1>1, <3>6 DEF NoCall, Named, CredOps, CallRows
    <3> QED BY <1>1, <3>6, <3>7, <3>8, <3>9, <3>10, <3>11 DEF GoesOn
  <2>6. /\ Status(t) \in {"active", "failed"} => TRUE
        /\ (Status(t) \in {"active", "failed"}) \in BOOLEAN
    OBVIOUS
  <2> QED BY <1>9, <2>3, <2>4, <2>5, <2>6 DEF Admit
<1>10. CASE Write(c, t)
  <2>1. CASE At(c, "putCred") /\ Put(c, t, "cred")
    <3>1. /\ Goes(c, call[c]) /\ stored' = [stored EXCEPT ![t] = Append(@, row.seen["cred"])]
          /\ row.seen["cred"] \in Nat
      BY <1>1, <2>1 DEF Put, Steps, CallRows, Hashes, Slots
    <3>2. Known(t)' = Known(t) \cup {row.seen["cred"]}
      BY <3>1, KnownGrows
    <3>3. ~At(c, "admit") /\ ~At(c, "read") /\ row.todo # <<>>
      BY <2>1 DEF At
    <3> QED BY <1>1, <3>1, <3>2, <3>3, Proceeds
  <2>2. CASE (At(c, "putLlm") /\ Put(c, t, "llm")) \/ (At(c, "putShare") /\ Put(c, t, "share"))
    BY <1>6, <2>2 DEF At, Put
  <2> QED BY <1>10, <2>1, <2>2 DEF Write
<1>11. CASE DropSecret(c, t)
  BY <1>6, <1>11 DEF DropSecret, Drop, At, history
<1>12. CASE ReadHashes(c, t)
  <2> DEFINE own == IF op = "unshare" THEN {"share"} ELSE Brings(op)
             s == [call[c] EXCEPT !.seen = [slot \in Slots |-> IF slot \in own THEN @[slot] ELSE secret[t][slot]]]
  <2>1. At(c, "read") /\ UNCHANGED stored /\ row.todo # <<>>
    BY <1>12 DEF ReadHashes, Reading, history, At
  <2>2. Known(t)' = Known(t)
    BY <2>1, KnownGrows
  <2>3. CASE Ends(c)
    BY <1>5, <2>3
  <2>4. CASE Goes(c, s) /\ ("cred" \in own \/ secret[t]["cred"] # 0)
    <3>1. /\ s \in CallRows /\ s.op = op /\ s.tenant = t /\ s.todo = row.todo
          /\ s.reopening = row.reopening
          /\ \A slot \in Slots : s.seen[slot] = IF slot \in own THEN row.seen[slot] ELSE secret[t][slot]
      BY <1>1 DEF CallRows, Hashes
    <3>2. \A slot \in Slots : s.seen[slot] <= spent.values
      BY <1>1, <3>1 DEF TenantFine
    <3>3. s.seen["cred"] \in Known(t)
      <4>1. CASE "cred" \in own
        <5>1. op \in CredOps
          BY <1>1, <4>1 DEF Brings, Named, CredOps, Slots
        <5>2. ~Ahead(c, "cred")
          <6> SUFFICES ASSUME NEW i \in 1..Len(row.todo), row.todo[i] \in {"putCred", "admit"}
                       PROVE  FALSE
            BY <1>1, AheadCred
          <6>1. row.todo[1] = "read" /\ 1 \in 1..Len(row.todo)
            BY <1>3, <2>1 DEF At
          <6>2. 1 < i
            BY <6>1
          <6> QED BY <1>1, <5>1, <6>1, <6>2 DEF Shaped, Forbidden, Puts
        <5> QED BY <3>1, <4>1, <5>1, <5>2 DEF CallFine, Slots
      <4>2. CASE "cred" \notin own
        <5>1. s.seen["cred"] = secret[t]["cred"] /\ secret[t]["cred"] # 0
          BY <2>4, <3>1, <4>2 DEF Slots
        <5>2. Len(stored[t]) \in Nat
          BY DEF TypeOK
        <5>3. secret[t]["cred"] = IF Len(stored[t]) = 0 THEN 0 ELSE stored[t][Len(stored[t])]
          BY DEF TenantFine
        <5>4. Len(stored[t]) \in 1..Len(stored[t]) /\ s.seen["cred"] = stored[t][Len(stored[t])]
          BY <5>1, <5>2, <5>3
        <5> QED BY <5>4 DEF Known
      <4> QED BY <4>1, <4>2
    <3>4. ~At(c, "admit") /\ ~At(c, "putCred") /\ (s.reopening => s.op \in {"credentials", "unshare"})
      BY <1>1, <2>1, <3>1 DEF At
    <3> HIDE DEF s
    <3>5. Goes(c, s)
      BY <2>4
    <3> QED BY <1>1, <2>1, <2>2, <3>1, <3>2, <3>3, <3>4, <3>5, Proceeds
  <2> QED BY <1>12, <2>3, <2>4 DEF ReadHashes
<1>13. CASE Present(c, t)
  BY <1>5, <1>6, <1>13 DEF Present, At, Reading, history
<1>14. CASE Apply(c, t)
  BY <1>6, <1>14 DEF Apply, At, Kinds, history
<1>15. CASE Deploy(c, t)
  BY <1>6, <1>15 DEF Deploy, At, history
<1>16. CASE Live(c, t)
  <2>1. At(c, "live") /\ UNCHANGED stored /\ row.todo # <<>> /\ Head(row.todo) = "live"
    BY <1>16 DEF Live, Reading, history, At
  <2>2. CASE Ends(c) \/ Steps(c)
    BY <1>5, <1>6, <2>1, <2>2
  <2>3. CASE call' = [call EXCEPT ![c].todo = <<"remove", "gone", "absent">> \o Tail(@)]
    <3> DEFINE q == <<"remove", "gone", "absent">> \o Tail(row.todo)
    <3>1. op \in {"reconcile", "converge"}
      BY <1>2, <1>3, <2>1 DEF Fits
    <3>2. Known(t)' = Known(t)
      BY <2>1, KnownGrows
    <3>3. ASSUME NEW k \in BOOLEAN, Shaped(op, row.todo, k) PROVE Shaped(op, q, k)
      <4>1. Shaped(op, Tail(row.todo), k)
        BY <2>1, <3>3, TailShape
      <4> QED BY <4>1, LiveShape
    <3>4. Shaped(op, q, row.seen["cred"] \in Known(t)')
      <4> DEFINE k == row.seen["cred"] \in Known(t)
      <4>1. k \in BOOLEAN /\ k = (row.seen["cred"] \in Known(t)')
        BY <3>2
      <4>2. Shaped(op, row.todo, k)
        BY <1>1
      <4> HIDE DEF k
      <4>3. Shaped(op, q, k)
        BY <3>3, <4>1, <4>2
      <4> QED BY <4>1, <4>3
    <3>5. call'[c] = [row EXCEPT !.todo = q] /\ \A d \in Callers \ {c} : call'[d] = call[d]
      BY <1>1, <2>3
    <3> HIDE DEF q
    <3>6. q \in Seq(Requests)
      BY <3>4 DEF Shaped
    <3>7. /\ call'[c] \in CallRows /\ call'[c].op = op /\ call'[c].tenant = t /\ call'[c].todo = q
          /\ call'[c].seen = row.seen /\ call'[c].reopening = row.reopening
      BY <1>1, <3>5, <3>6 DEF CallRows
    <3>8. OthersAlone(c)
      BY <1>1, <2>3, <3>5, <3>7 DEF OthersAlone
    <3>9. op \notin CredOps /\ ~Ahead(c, "cred")'
      BY <3>1, <3>7 DEF Ahead, Brings, CredOps, Slots
    <3>10. call'[c] # NoCall /\ call'[c].replacing \in BOOLEAN
      BY <1>1, <3>7 DEF NoCall, Named, CredOps, CallRows
    <3> QED BY <1>1, <3>4, <3>7, <3>8, <3>9, <3>10 DEF GoesOn
  <2> QED BY <1>16, <2>2, <2>3 DEF Live
<1>17. CASE Remove(c, t)
  BY <1>6, <1>17 DEF Remove, Undeploy, At
<1>18. CASE PodsGone(c, t) \/ Absent(c, t) \/ Rollout(c, t) \/ ReadyPod(c, t) \/ Confirm(c, t)
            \/ Doomed(c, t)
  BY <1>5, <1>6, <1>18 DEF PodsGone, Absent, Rollout, ReadyPod, Confirm, Doomed, Reading, history, At
<1>19. CASE Mark(c, t) \/ Unmark(c, t)
  BY <1>6, <1>19 DEF Mark, Unmark, At, history
<1>20. CASE Delete(c, t)
  <2>1. UNCHANGED stored /\ Done(c)
    BY <1>20 DEF Delete, Undeploy
  <2>2. \E step \in {"dropIngress", "dropService", "dropPolicy", "dropDeploy"} : At(c, step)
    BY <1>20 DEF Delete
  <2> QED BY <1>6, <2>1, <2>2 DEF At
<1> QED
  BY <1>7, <1>8, <1>9, <1>10, <1>11, <1>12, <1>13, <1>14, <1>15, <1>16, <1>17, <1>18, <1>19, <1>20
  DEF Request

--------------------------------------------------------------------------------
(* Types are kept *)

\* A pod that is told to stop keeps its template and what it has installed.
LEMMA DyingRows ==
  ASSUME NEW p \in PodRows
  PROVE  LET q == [p EXCEPT !.phase = "dying"]
             s == [p EXCEPT !.phase = "dying", !.owned = FALSE]
         IN /\ q \in PodRows /\ q.tmpl = p.tmpl /\ q.loaded = p.loaded
            /\ s \in PodRows /\ s.tmpl = p.tmpl /\ s.loaded = p.loaded
BY DEF PodRows

\* A request leaves every variable its type.
LEMMA RequestTypes ==
  ASSUME TypeOK, NEW c \in Callers, NEW t \in Tenants, call[c].tenant = t, Request(c, t),
         call' \in [Callers -> CallRows]
  PROVE  TypeOK' /\ UNCHANGED <<spent, render>>
<1> USE DEF TypeOK
<1>1. call[c] \in CallRows
  OBVIOUS
<1>2. CASE \/ ReadIdentity(c, t) \/ Admit(c, t) \/ ReadHashes(c, t) \/ Present(c, t) \/ Live(c, t)
           \/ PodsGone(c, t) \/ Absent(c, t) \/ Rollout(c, t) \/ ReadyPod(c, t) \/ Confirm(c, t)
           \/ Pair(c) \/ Doomed(c, t) \/ TimesOut(c)
  <2>1. Reading
    BY <1>2 DEF ReadIdentity, Admit, ReadHashes, Present, Live, PodsGone, Absent, Rollout,
                ReadyPod, Confirm, Pair, Doomed, TimesOut
  <2> QED BY <2>1 DEF Reading, history
<1>3. CASE Mint(c, t) \/ Mark(c, t) \/ Unmark(c, t) \/ Collect(c, t)
  <2>1. \A as \in {"whole", "reopened"} : Restores(t, as) => torn' \in [Tenants -> {"whole", "torn", "raced", "reopened"}]
    BY DEF Restores
  <2> QED BY <1>3, <2>1 DEF Mint, Mark, Unmark, Collect, history
<1>4. CASE Write(c, t)
  <2>1. \A slot \in Slots : Put(c, t, slot) => TypeOK' /\ UNCHANGED <<spent, render>>
    BY <1>1 DEF Put, CallRows, Hashes
  <2> QED BY <1>4, <2>1 DEF Write, Slots
<1>5. CASE DropSecret(c, t)
  <2>1. \A slot \in Slots : Drop(c, t, slot) => TypeOK' /\ UNCHANGED <<spent, render>>
    BY DEF Drop, Hashes, history
  <2> QED BY <1>5, <2>1 DEF DropSecret, Slots
<1>6. CASE Apply(c, t)
  BY <1>6 DEF Apply, history
<1>7. \A ps \in SUBSET PodRows : \A tmpl : Condemned(ps, tmpl) \subseteq PodRows
  <2> SUFFICES ASSUME NEW ps \in SUBSET PodRows, NEW tmpl, NEW q \in Condemned(ps, tmpl)
               PROVE  q \in PodRows
    OBVIOUS
  <2>1. PICK p \in ps : q = IF p.owned /\ p.tmpl # tmpl THEN [p EXCEPT !.phase = "dying"] ELSE p
    BY DEF Condemned
  <2>2. p \in PodRows /\ [p EXCEPT !.phase = "dying"] \in PodRows
    BY DyingRows
  <2> QED BY <2>1, <2>2
<1>8. CASE Deploy(c, t)
  <2> DEFINE tmpl == [hash |-> call[c].seen, render |-> call[c].render]
  <2>1. tmpl \in Tmpls
    BY <1>1 DEF Tmpls, CallRows
  <2> HIDE DEF tmpl
  <2>2. /\ pod' = [pod EXCEPT ![t] = Condemned(@, tmpl)]
        /\ dep' = [dep EXCEPT ![t] =
                 [tmpl |-> tmpl, stands |-> TRUE, foreign |-> dep[t].foreign,
                  rolled |-> IF dep[t].tmpl = tmpl THEN dep[t].rolled ELSE call[c].op = "converge"]]
    BY <1>8 DEF Deploy, tmpl
  <2>3. pod' \in [Tenants -> SUBSET PodRows]
    BY <1>7, <2>2
  <2>4. dep' \in [Tenants -> DepRows]
    BY <2>1, <2>2 DEF DepRows
  <2> QED BY <1>8, <2>3, <2>4 DEF Deploy, record, history
<1>9. Undeploy(t) => /\ dep' \in [Tenants -> DepRows] /\ pod' \in [Tenants -> SUBSET PodRows]
                     /\ UNCHANGED <<record, render, spent, stored>>
  <2>1. NoDep \in DepRows
    BY DEF NoDep, DepRows, Tmpls, Hashes
  <2>2. {[p EXCEPT !.phase = "dying", !.owned = FALSE] : p \in pod[t]} \subseteq PodRows
    BY DyingRows
  <2>3. ASSUME Undeploy(t)
        PROVE  /\ dep' = [dep EXCEPT ![t] = NoDep] /\ UNCHANGED <<record, render, spent, stored>>
               /\ pod' = [pod EXCEPT ![t] = {[p EXCEPT !.phase = "dying", !.owned = FALSE] : p \in @}]
    BY <2>3 DEF Undeploy
  <2> DEFINE gone == {[p EXCEPT !.phase = "dying", !.owned = FALSE] : p \in pod[t]}
  <2> HIDE DEF NoDep
  <2>4. gone \in SUBSET PodRows
    BY <2>2
  <2>5. Undeploy(t) => pod' = [pod EXCEPT ![t] = gone]
    BY <2>3
  <2> HIDE DEF gone
  <2>6. Undeploy(t) => pod' \in [Tenants -> SUBSET PodRows]
    BY <2>4, <2>5
  <2> DEFINE none == NoDep
  <2> HIDE DEF none
  <2>7. Undeploy(t) => dep' \in [Tenants -> DepRows]
    <3>1. Undeploy(t) => dep' = [dep EXCEPT ![t] = none]
      BY <2>3 DEF none
    <3> QED BY <2>1, <3>1 DEF none
  <2> QED BY <2>3, <2>6, <2>7
<1>10. CASE Remove(c, t)
  BY <1>9, <1>10 DEF Remove, record
<1>11. CASE Delete(c, t)
  <2>1. \A something : Tears(t, something) => torn' \in [Tenants -> {"whole", "torn", "raced", "reopened"}]
    BY DEF Tears
  <2> QED BY <1>9, <1>11, <2>1 DEF Delete, record
<1> QED
  BY <1>2, <1>3, <1>4, <1>5, <1>6, <1>8, <1>10, <1>11 DEF Request

--------------------------------------------------------------------------------
(* Tenants *)

\* What is stored is the last of the known credentials.
LEMMA LastIsStored ==
  ASSUME TypeOK, NEW t \in Tenants, TenantFine(t), NEW v \in Known(t)
  PROVE  secret[t]["cred"] \in Since(t, v)
<1>1. PICK j \in 1..Len(stored[t]) : stored[t][j] = v
  BY DEF Known
<1>2. stored[t] \in Seq(Nat)
  BY DEF TypeOK
<1>3. /\ Len(stored[t]) \in Nat /\ DOMAIN stored[t] = 1..Len(stored[t])
      /\ Len(stored[t]) \in DOMAIN stored[t] /\ j \in 1..Len(stored[t])
  BY <1>1, <1>2
<1>4. secret[t]["cred"] = stored[t][Len(stored[t])]
  BY <1>3 DEF TenantFine
<1> QED BY <1>1, <1>3, <1>4 DEF Since

\* A pod that was there before has the template and the credential it had.
PodsFrom(t) == \A p \in pod'[t] : \E q \in pod[t] : p.tmpl = q.tmpl /\ p.loaded = q.loaded

\* A step that stores no credential leaves a tenant in order.
LEMMA TenantKept ==
  ASSUME TypeOK, NEW t \in Tenants, TenantFine(t), stored'[t] = stored[t],
         secret'[t]["cred"] = secret[t]["cred"],
         \A slot \in Slots : secret'[t][slot] <= spent'.values,
         spent.values \in Nat, spent'.values \in Nat, spent.values <= spent'.values,
         torn'[t] = "torn" => Cancelled(t)',
         Exists(t)' => dep'[t].tmpl.hash["cred"] \in Known(t),
         PodsFrom(t) \/ \A p \in pod'[t] : /\ p.tmpl.hash["cred"] \in Known(t)
                                           /\ p.loaded["cred"] \in Since(t, p.tmpl.hash["cred"])
  PROVE  TenantFine(t)'
<1>1. Known(t)' = Known(t) /\ \A v : Since(t, v)' = Since(t, v)
  BY DEF Known, Since
<1>2. \A p \in pod'[t] : /\ p.tmpl.hash["cred"] \in Known(t)'
                         /\ p.loaded["cred"] \in Since(t, p.tmpl.hash["cred"])'
  <2>1. CASE PodsFrom(t)
    BY <1>1, <2>1 DEF PodsFrom, TenantFine
  <2> QED BY <1>1, <2>1
<1>3. \A v \in Known(t) : v \in Nat
  BY DEF Known, TypeOK
<1> QED BY <1>1, <1>2, <1>3 DEF TenantFine

\* A step that stores a new credential leaves its tenant in order.
LEMMA TenantStores ==
  ASSUME TypeOK, NEW t \in Tenants, TenantFine(t), NEW v \in Nat,
         v > 0, v <= spent.values, v \notin Known(t),
         stored'[t] = Append(stored[t], v), secret'[t]["cred"] = v,
         \A slot \in Slots : secret'[t][slot] <= spent.values,
         UNCHANGED <<ident, closed, dep, pod, spent, torn>>
  PROVE  TenantFine(t)'
<1> DEFINE q == stored[t]
           n == Len(stored[t])
<1>1. /\ q \in Seq(Nat) /\ n \in Nat /\ Len(Append(q, v)) = n + 1
      /\ \A i \in 1..n : Append(q, v)[i] = q[i]
      /\ Append(q, v)[n + 1] = v
  BY DEF TypeOK
<1>2. \A i \in 1..(n + 1) : i \in 1..n \/ i = n + 1
  BY <1>1
<1>3. \A i \in 1..n : i \in 1..(n + 1)
  BY <1>1
<1>4. Known(t)' = Known(t) \cup {v}
  <2>1. n + 1 \in 1..(n + 1)
    BY <1>1
  <2> QED BY <1>1, <1>2, <1>3, <2>1 DEF Known
<1>5. \A u : Since(t, u) \subseteq Since(t, u)'
  <2> SUFFICES ASSUME NEW u, NEW i \in DOMAIN q, NEW j \in 1..i, q[j] = u
               PROVE  q[i] \in Since(t, u)'
    BY DEF Since
  <2>1. i \in 1..n /\ j \in 1..n
    BY <1>1
  <2>2. i \in DOMAIN Append(q, v) /\ Append(q, v)[i] = q[i] /\ Append(q, v)[j] = u
    BY <1>1, <2>1
  <2> QED BY <2>2 DEF Since
<1>6. \A i, j \in 1..(n + 1) : Append(q, v)[i] = Append(q, v)[j] => i = j
  BY <1>1, <1>2 DEF TenantFine, Known
<1>7. \A w \in Known(t)' : w > 0 /\ w <= spent.values
  BY <1>4 DEF TenantFine
<1>8. n + 1 # 0
  BY <1>1
<1> QED BY <1>1, <1>4, <1>5, <1>6, <1>7, <1>8 DEF TenantFine, Cancelled, Exists

\* No request loses the marker of a teardown.
LEMMA MarkerKept ==
  ASSUME TypeOK, WardenInv, NEW c \in Callers, NEW t \in Tenants, call[c].tenant = t,
         Request(c, t), call' \in [Callers -> CallRows]
  PROVE  /\ \A u \in Tenants : torn'[u] = "torn" => Cancelled(u)'
         /\ \A d \in Callers, u \in Tenants : call[d].op = "delete" /\ call[d].tenant = u =>
              (d # c /\ At(d, "mark")) \/ Cancelled(u)' \/ torn'[u] = "raced"
<1> DEFINE Good == /\ \A u \in Tenants : torn'[u] = "torn" => Cancelled(u)'
                   /\ \A d \in Callers, u \in Tenants : call[d].op = "delete" /\ call[d].tenant = u =>
                        (d # c /\ At(d, "mark")) \/ Cancelled(u)' \/ torn'[u] = "raced"
<1>1. /\ \A u \in Tenants : torn[u] = "torn" => Cancelled(u)
      /\ \A d \in Callers, u \in Tenants : call[d].op = "delete" /\ call[d].tenant = u =>
           At(d, "mark") \/ Cancelled(u) \/ torn[u] = "raced"
  <2>1. NoCall.op # "delete"
    BY DEF NoCall
  <2> QED BY <2>1 DEF WardenInv, CallFine, TenantFine
<1>2. /\ call[c] \in CallRows /\ call[c].todo \in Seq(Requests)
      /\ Shaped(call[c].op, call[c].todo, call[c].seen["cred"] \in Known(t))
      /\ ident \in [Tenants -> {"none", "young", "old"}] /\ closed \in [Tenants -> BOOLEAN]
      /\ torn \in [Tenants -> {"whole", "torn", "raced", "reopened"}]
  BY DEF TypeOK, CallRows, WardenInv, CallFine
<1>3. call[c].todo # <<>> => 1 \in 1..Len(call[c].todo) /\ Head(call[c].todo) = call[c].todo[1]
  BY <1>2, EmptySeq
<1>4. \A step : At(c, step) => Fits(call[c].op, step)
  BY <1>2, <1>3 DEF At, Shaped
\* Most requests say nothing about the marker.
<1>5. ASSUME NEW step, At(c, step), step # "mark", UNCHANGED <<ident, closed, torn>>
      PROVE  Good
  <2>1. ~At(c, "mark") /\ \A u : Cancelled(u)' <=> Cancelled(u)
    BY <1>5 DEF At, Cancelled
  <2>2. \A u \in Tenants : torn'[u] = "torn" => Cancelled(u)'
    BY <1>1, <1>5, <2>1
  <2>3. ASSUME NEW d \in Callers, NEW u \in Tenants, call[d].op = "delete", call[d].tenant = u
        PROVE  (d # c /\ At(d, "mark")) \/ Cancelled(u)' \/ torn'[u] = "raced"
    <3>1. At(d, "mark") => d # c
      BY <2>1
    <3>2. At(d, "mark") \/ Cancelled(u) \/ torn[u] = "raced"
      BY <1>1, <2>3
    <3> QED BY <1>5, <2>1, <3>1, <3>2
  <2> QED BY <2>2, <2>3
<1>6. ASSUME TimesOut(c) PROVE Good
  BY <1>5, <1>6 DEF TimesOut, Reading, history
<1>7. CASE ReadIdentity(c, t) \/ Admit(c, t) \/ ReadHashes(c, t) \/ Present(c, t) \/ Live(c, t)
  BY <1>5, <1>7 DEF ReadIdentity, Admit, ReadHashes, Present, Live, Reading, history
<1>8. CASE \/ PodsGone(c, t) \/ Absent(c, t) \/ Rollout(c, t) \/ ReadyPod(c, t) \/ Confirm(c, t)
           \/ Pair(c) \/ Doomed(c, t)
  BY <1>5, <1>8 DEF PodsGone, Absent, Rollout, ReadyPod, Confirm, Pair, Doomed, Reading, history
<1>9. CASE Write(c, t) \/ DropSecret(c, t)
  BY <1>5, <1>9 DEF Write, DropSecret, Put, Drop, history
<1>10. CASE Apply(c, t) \/ Deploy(c, t) \/ Remove(c, t)
  BY <1>5, <1>10 DEF Apply, Deploy, Remove, Undeploy, Kinds, record, history
\* A signup or a reopen beside a teardown takes the blame.
<1>11. ASSUME NEW as \in {"whole", "reopened"}, Restores(t, as),
              \A u \in Tenants \ {t} : ident'[u] = ident[u] /\ closed'[u] = closed[u],
              \A step : At(c, step) => step # "mark"
       PROVE  Good
  <2>1. \A u \in Tenants \ {t} : torn'[u] = torn[u] /\ (Cancelled(u)' <=> Cancelled(u))
    BY <1>2, <1>11 DEF Restores, Cancelled
  <2>2. torn'[t] = IF \E d \in Callers : call[d].op = "delete" /\ call[d].tenant = t
                   THEN "raced" ELSE as
    BY <1>2, <1>11 DEF Restores
  <2>3. \A u \in Tenants : torn'[u] = "torn" => Cancelled(u)'
    BY <1>1, <2>1, <2>2
  <2>4. ASSUME NEW d \in Callers, NEW u \in Tenants, call[d].op = "delete", call[d].tenant = u
        PROVE  (d # c /\ At(d, "mark")) \/ Cancelled(u)' \/ torn'[u] = "raced"
    <3>1. CASE u = t
      BY <2>2, <2>4, <3>1
    <3>2. CASE u # t
      <4>1. /\ u \in Tenants \ {t} /\ d # c
            /\ At(d, "mark") \/ Cancelled(u) \/ torn[u] = "raced"
        BY <1>1, <2>4, <3>2
      <4> QED BY <2>1, <4>1
    <3> QED BY <3>1, <3>2
  <2> QED BY <2>3, <2>4
<1>12. CASE Mint(c, t)
  <2>1. \A step : At(c, step) => step # "mark"
    BY <1>12 DEF Mint, At
  <2>2. CASE ident' = [ident EXCEPT ![t] = "young"] /\ Restores(t, "whole")
    BY <1>2, <1>11, <1>12, <2>1, <2>2 DEF Mint
  <2>3. CASE UNCHANGED <<ident, torn>>
    BY <1>5, <1>12, <2>3 DEF Mint
  <2> QED BY <1>12, <2>2, <2>3 DEF Mint
<1>13. CASE Unmark(c, t)
  <2>1. /\ At(c, "unmark") /\ UNCHANGED ident /\ closed' = [closed EXCEPT ![t] = FALSE]
        /\ \A step : At(c, step) => step # "mark"
    BY <1>13 DEF Unmark, At
  <2>2. ~\E i \in DOMAIN call[c].todo : call[c].todo[i] = "ready"
    <3> SUFFICES ASSUME NEW i \in 1..Len(call[c].todo), call[c].todo[i] = "ready" PROVE FALSE
      BY <1>2
    <3>1. call[c].todo[1] = "unmark" /\ 1 \in 1..Len(call[c].todo) /\ 1 < i
      BY <1>3, <2>1 DEF At
    <3> QED BY <1>2, <3>1 DEF Shaped, Forbidden
  <2>3. Restores(t, "reopened")
    BY <1>13, <2>2 DEF Unmark
  <2> QED BY <1>2, <1>11, <2>1, <2>3
<1>16. ASSUME UNCHANGED torn, Cancelled(t)',
              \A u \in Tenants \ {t} : Cancelled(u)' <=> Cancelled(u)
       PROVE  Good
  <2>1. \A u \in Tenants : torn'[u] = "torn" => Cancelled(u)'
    BY <1>1, <1>16
  <2>2. ASSUME NEW d \in Callers, NEW u \in Tenants, call[d].op = "delete", call[d].tenant = u
        PROVE  (d # c /\ At(d, "mark")) \/ Cancelled(u)' \/ torn'[u] = "raced"
    <3>1. CASE u = t
      BY <1>16, <3>1
    <3>2. CASE u # t
      <4>1. /\ u \in Tenants \ {t} /\ d # c
            /\ At(d, "mark") \/ Cancelled(u) \/ torn[u] = "raced"
        BY <1>1, <2>2, <3>2
      <4> QED BY <1>16, <4>1
    <3> QED BY <3>1, <3>2
  <2> QED BY <2>1, <2>2
<1>14. CASE Mark(c, t)
  <2>1. /\ UNCHANGED <<ident, torn>> /\ closed' = [closed EXCEPT ![t] = ident[t] # "none"]
    BY <1>14 DEF Mark, history
  <2>2. Cancelled(t)' /\ \A u \in Tenants \ {t} : Cancelled(u)' <=> Cancelled(u)
    BY <1>2, <2>1 DEF Cancelled
  <2> QED BY <1>16, <2>1, <2>2
<1>15. CASE Collect(c, t)
  <2>1. /\ UNCHANGED torn /\ ident' = [ident EXCEPT ![t] = "none"]
        /\ closed' = [closed EXCEPT ![t] = FALSE] /\ ~At(c, "mark")
    BY <1>15 DEF Collect, At, history
  <2>2. Cancelled(t)' /\ \A u \in Tenants \ {t} : Cancelled(u)' <=> Cancelled(u)
    BY <1>2, <2>1 DEF Cancelled
  <2> QED BY <1>16, <2>1, <2>2
<1>17. CASE Delete(c, t)
  <2>1. PICK step \in {"dropIngress", "dropService", "dropPolicy", "dropDeploy"} : At(c, step)
    BY <1>17 DEF Delete
  <2>2. PICK something : Tears(t, something)
    <3>1. CASE At(c, "dropDeploy") /\ Tears(t, Exists(t))
      BY <3>1
    <3>2. CASE Tears(t, "ingress" \in up[t]) \/ Tears(t, "service" \in up[t]) \/ Tears(t, "policy" \in up[t])
      BY <3>2
    <3> QED BY <1>17, <3>1, <3>2 DEF Delete
  <2>3. UNCHANGED <<ident, closed>>
    BY <1>17 DEF Delete, Undeploy, record
  <2>4. ~At(c, "mark") /\ call[c].op = "delete"
    BY <1>4, <2>1 DEF At, Fits, Drops
  <2>5. Cancelled(t) \/ torn[t] = "raced"
    BY <1>1, <2>4
  <2>6. /\ \A u \in Tenants \ {t} : torn'[u] = torn[u]
        /\ torn'[t] = IF something /\ torn[t] # "raced" THEN "torn" ELSE torn[t]
    BY <1>2, <2>2 DEF Tears
  <2>7. \A u : Cancelled(u)' <=> Cancelled(u)
    BY <2>3 DEF Cancelled
  <2>8. \A u \in Tenants : (torn'[u] = "torn" => Cancelled(u)')
    BY <1>1, <2>5, <2>6, <2>7
  <2>9. ASSUME NEW d \in Callers, NEW u \in Tenants, call[d].op = "delete", call[d].tenant = u
        PROVE  (d # c /\ At(d, "mark")) \/ Cancelled(u)' \/ torn'[u] = "raced"
    <3>1. CASE u = t
      BY <2>5, <2>6, <2>7, <3>1
    <3>2. CASE u # t
      <4>1. /\ u \in Tenants \ {t} /\ d # c
            /\ At(d, "mark") \/ Cancelled(u) \/ torn[u] = "raced"
        BY <1>1, <2>9, <3>2
      <4> QED BY <2>6, <2>7, <4>1
    <3> QED BY <3>1, <3>2
  <2> QED BY <2>8, <2>9
<1> QED
  BY <1>6, <1>7, <1>8, <1>9, <1>10, <1>12, <1>13, <1>14, <1>15, <1>17 DEF Request

\* The credential a request stores is new; the template it applies names a stored one.
LEMMA StoresNew ==
  ASSUME TypeOK, WardenInv, NEW c \in Callers, NEW t \in Tenants, call[c].tenant = t
  PROVE  /\ At(c, "putCred") => Ahead(c, "cred")
         /\ At(c, "deploy") => call[c].seen["cred"] \in Known(t)
         /\ At(c, "putLlm") \/ At(c, "putShare") => ~At(c, "putCred")
<1>1. /\ call[c].todo \in Seq(Requests)
      /\ Shaped(call[c].op, call[c].todo, call[c].seen["cred"] \in Known(t))
  BY DEF TypeOK, CallRows, WardenInv, CallFine
<1>2. \A step : At(c, step) => 1 \in 1..Len(call[c].todo) /\ call[c].todo[1] = step
  BY <1>1, EmptySeq DEF At
<1>3. At(c, "putCred") => Ahead(c, "cred")
  BY <1>1, <1>2 DEF Ahead, Shaped, Fits, Slots, PutOf
<1>4. At(c, "deploy") => call[c].seen["cred"] \in Known(t)
  <2>1. 1..(1-1) = {}
    OBVIOUS
  <2> QED BY <1>1, <1>2, <2>1 DEF Shaped
<1> QED BY <1>3, <1>4 DEF At

\* A request leaves every tenant in order.
LEMMA RequestTenants ==
  ASSUME TypeOK, TypeOK', WardenInv, NEW c \in Callers, NEW t \in Tenants, call[c].tenant = t,
         Request(c, t), call' \in [Callers -> CallRows]
  PROVE  /\ \A u \in Tenants : TenantFine(u)'
         /\ \/ UNCHANGED stored
            \/ At(c, "putCred") /\ stored' = [stored EXCEPT ![t] = Append(@, call[c].seen["cred"])]
<1> DEFINE Good == /\ \A u \in Tenants : TenantFine(u)'
                   /\ \/ UNCHANGED stored
                      \/ /\ At(c, "putCred")
                         /\ stored' = [stored EXCEPT ![t] = Append(@, call[c].seen["cred"])]
<1>1. /\ UNCHANGED spent /\ spent.values \in Nat
      /\ \A u \in Tenants : torn'[u] = "torn" => Cancelled(u)'
      /\ \A u \in Tenants : TenantFine(u)
      /\ secret \in [Tenants -> Hashes] /\ dep \in [Tenants -> DepRows]
      /\ pod \in [Tenants -> SUBSET PodRows] /\ call[c] \in CallRows
      /\ \A slot \in Slots : call[c].seen[slot] <= spent.values
  BY RequestTypes, MarkerKept DEF TypeOK, SpentRows, WardenInv, CallFine
<1>2. \A u \in Tenants : \A slot \in Slots : secret[u][slot] \in Nat /\ secret[u][slot] <= spent.values
  BY <1>1 DEF TenantFine, Hashes
<1>3. \A u \in Tenants : Exists(u) => dep[u].tmpl.hash["cred"] \in Known(u)
  BY <1>1 DEF TenantFine
\* Requests that store no credential and render nothing.
<1>4. ASSUME UNCHANGED stored, \A u \in Tenants : secret'[u]["cred"] = secret[u]["cred"],
             \A u \in Tenants : \A slot \in Slots : secret'[u][slot] <= spent.values,
             \A u \in Tenants : dep'[u] = dep[u] \/ dep'[u] = NoDep
                                  \/ dep'[u].tmpl.hash["cred"] \in Known(u),
             \A u \in Tenants : PodsFrom(u)
      PROVE  Good
  <2> SUFFICES ASSUME NEW u \in Tenants PROVE TenantFine(u)'
    BY <1>4
  <2>1. Exists(u)' => dep'[u].tmpl.hash["cred"] \in Known(u)
    <3>1. NoDep.stands = FALSE
      BY DEF NoDep
    <3> QED BY <1>3, <1>4, <3>1 DEF Exists
  <2> QED BY <1>1, <1>4, <2>1, TenantKept
<1>5. ASSUME UNCHANGED <<stored, secret, dep, pod>> PROVE Good
  <2>1. \A u \in Tenants : PodsFrom(u)
    BY <1>5 DEF PodsFrom
  <2>2. \A u \in Tenants : \A slot \in Slots : secret'[u][slot] <= spent.values
    BY <1>2, <1>5
  <2> QED BY <1>4, <1>5, <2>1, <2>2
<1>6. CASE \/ ReadIdentity(c, t) \/ Admit(c, t) \/ ReadHashes(c, t) \/ Present(c, t) \/ Live(c, t)
           \/ PodsGone(c, t) \/ Absent(c, t) \/ Rollout(c, t) \/ ReadyPod(c, t) \/ Confirm(c, t)
           \/ Pair(c) \/ Doomed(c, t) \/ TimesOut(c)
  <2>1. Reading
    BY <1>6 DEF ReadIdentity, Admit, ReadHashes, Present, Live, PodsGone, Absent, Rollout,
                ReadyPod, Confirm, Pair, Doomed, TimesOut
  <2> QED BY <1>5, <2>1 DEF Reading, history
<1>7. CASE Mint(c, t) \/ Apply(c, t) \/ Mark(c, t) \/ Unmark(c, t) \/ Collect(c, t)
  BY <1>5, <1>7 DEF Mint, Apply, Mark, Unmark, Collect, history
<1>8. CASE Write(c, t)
  <2>1. CASE At(c, "putCred") /\ Put(c, t, "cred")
    <3> DEFINE v == call[c].seen["cred"]
    <3>1. /\ Ahead(c, "cred") /\ v \in Nat /\ v <= spent.values
          /\ stored' = [stored EXCEPT ![t] = Append(@, v)]
          /\ secret' = [secret EXCEPT ![t]["cred"] = v]
          /\ UNCHANGED <<ident, closed, dep, pod, spent, torn>>
      BY <1>1, <2>1, StoresNew DEF Put, CallRows, Hashes, Slots
    <3>2. v > 0 /\ \A u \in Tenants : v \notin Known(u)
      BY <3>1 DEF WardenInv, CallFine
    <3> HIDE DEF v
    <3>3. /\ stored'[t] = Append(stored[t], v)
          /\ \A u \in Tenants \ {t} : stored'[u] = stored[u]
      BY <3>1, KnownGrows
    <3>4. /\ secret'[t]["cred"] = v
          /\ \A slot \in Slots : secret'[t][slot] <= spent.values
          /\ \A u \in Tenants \ {t} : secret'[u] = secret[u]
      BY <1>1, <1>2, <3>1 DEF Hashes, Slots
    <3>5. TenantFine(t)'
      BY <1>1, <3>1, <3>2, <3>3, <3>4, TenantStores
    <3>6. ASSUME NEW u \in Tenants \ {t} PROVE TenantFine(u)'
      <4>1. PodsFrom(u)
        BY <3>1 DEF PodsFrom
      <4>2. Exists(u)' => dep'[u].tmpl.hash["cred"] \in Known(u)
        BY <1>3, <3>1 DEF Exists
      <4> QED BY <1>1, <1>2, <3>3, <3>4, <4>1, <4>2, TenantKept
    <3> QED BY <2>1, <3>1, <3>5, <3>6 DEF v
  <2>2. ASSUME NEW slot \in {"llm", "share"}, Put(c, t, slot) PROVE Good
    <3>1. /\ secret' = [secret EXCEPT ![t][slot] = call[c].seen[slot]] /\ slot # "cred" /\ slot \in Slots
          /\ UNCHANGED <<stored, dep, pod>>
      BY <2>2 DEF Put, Slots
    <3>2. \A u \in Tenants : /\ secret'[u]["cred"] = secret[u]["cred"]
                             /\ \A s \in Slots : secret'[u][s] <= spent.values
      BY <1>1, <1>2, <3>1 DEF Hashes, Slots
    <3>3. \A u \in Tenants : PodsFrom(u)
      BY <3>1 DEF PodsFrom
    <3> QED BY <1>4, <3>1, <3>2, <3>3
  <2> QED BY <1>8, <2>1, <2>2 DEF Write
<1>9. CASE DropSecret(c, t)
  <2> SUFFICES ASSUME NEW slot \in {"llm", "share"}, Drop(c, t, slot) PROVE Good
    BY <1>9 DEF DropSecret
  <2>1. /\ secret' = [secret EXCEPT ![t][slot] = 0] /\ slot # "cred" /\ slot \in Slots
        /\ UNCHANGED <<stored, dep, pod>>
    BY DEF Drop, Slots, history
  <2>2. \A u \in Tenants : /\ secret'[u]["cred"] = secret[u]["cred"]
                           /\ \A s \in Slots : secret'[u][s] <= spent.values
    BY <1>1, <1>2, <2>1 DEF Hashes, Slots
  <2>3. \A u \in Tenants : PodsFrom(u)
    BY <2>1 DEF PodsFrom
  <2> QED BY <1>4, <2>1, <2>2, <2>3
<1>10. CASE Deploy(c, t)
  <2> DEFINE tmpl == [hash |-> call[c].seen, render |-> call[c].render]
  <2>1. /\ call[c].seen["cred"] \in Known(t) /\ UNCHANGED <<stored, secret>>
        /\ dep' = [dep EXCEPT ![t] =
                 [tmpl |-> tmpl, stands |-> TRUE, foreign |-> dep[t].foreign,
                  rolled |-> IF dep[t].tmpl = tmpl THEN dep[t].rolled ELSE call[c].op = "converge"]]
        /\ pod' = [pod EXCEPT ![t] = Condemned(@, tmpl)]
    BY <1>10, StoresNew DEF Deploy, record, history
  <2>2. \A u \in Tenants : dep'[u] = dep[u] \/ dep'[u].tmpl.hash["cred"] \in Known(u)
    BY <1>1, <2>1
  <2> HIDE DEF tmpl
  <2>3. \A u \in Tenants : PodsFrom(u)
    BY <1>1, <2>1 DEF PodsFrom, Condemned, PodRows
  <2>4. \A u \in Tenants : \A slot \in Slots : secret'[u][slot] <= spent.values
    BY <1>2, <2>1
  <2> QED BY <1>4, <2>1, <2>2, <2>3, <2>4
<1>11. ASSUME Undeploy(t) PROVE Good
  <2>1. /\ UNCHANGED <<stored, secret>> /\ dep' = [dep EXCEPT ![t] = NoDep]
        /\ pod' = [pod EXCEPT ![t] = {[p EXCEPT !.phase = "dying", !.owned = FALSE] : p \in @}]
    BY <1>11 DEF Undeploy, record
  <2>2. \A u \in Tenants : PodsFrom(u)
    <3> SUFFICES ASSUME NEW u \in Tenants, NEW p \in pod'[u]
                 PROVE  \E q \in pod[u] : p.tmpl = q.tmpl /\ p.loaded = q.loaded
      BY DEF PodsFrom
    <3>1. CASE u = t
      <4>1. PICK q \in pod[t] : p = [q EXCEPT !.phase = "dying", !.owned = FALSE]
        BY <1>1, <2>1, <3>1
      <4> QED BY <1>1, <3>1, <4>1, DyingRows
    <3>2. CASE u # t
      BY <1>1, <2>1, <3>2
    <3> QED BY <3>1, <3>2
  <2>3. \A u \in Tenants : dep'[u] = dep[u] \/ dep'[u] = NoDep
    BY <1>1, <2>1
  <2>4. \A u \in Tenants : \A slot \in Slots : secret'[u][slot] <= spent.values
    BY <1>2, <2>1
  <2> QED BY <1>4, <2>1, <2>2, <2>3, <2>4
<1>12. CASE Remove(c, t) \/ Delete(c, t)
  BY <1>5, <1>11, <1>12 DEF Remove, Delete
<1> QED
  BY <1>6, <1>7, <1>8, <1>9, <1>10, <1>12 DEF Request

--------------------------------------------------------------------------------
(* Calls *)

\* Knowing more of a tenant spoils no call.
LEMMA ShapedMore ==
  ASSUME NEW op, NEW todo, NEW k \in BOOLEAN, NEW m \in BOOLEAN, k => m, Shaped(op, todo, k)
  PROVE  Shaped(op, todo, m)
BY DEF Shaped

\* A caller with nothing to do is in order.
LEMMA Idle ==
  ASSUME NEW d \in Callers, call'[d] = NoCall, spent'.values \in Nat
  PROVE  CallFine(d)'
<1>1. /\ NoCall.op = "none" /\ NoCall.todo = <<>> /\ NoCall.reopening = FALSE
      /\ \A slot \in Slots : NoCall.seen[slot] = 0
  BY DEF NoCall
<1>2. \A op, k : Shaped(op, <<>>, k)
  BY DEF Shaped
<1>3. "none" \notin CredOps /\ "none" # "delete" /\ Brings("none") = {}
  BY DEF CredOps, Brings, Slots
<1>4. ~Ahead(d, "cred")'
  BY <1>1, <1>3 DEF Ahead
<1> HIDE DEF NoCall
<1>5. \A slot \in Slots : call'[d].seen[slot] <= spent'.values
  BY <1>1
<1> QED BY <1>1, <1>2, <1>3, <1>4, <1>5 DEF CallFine

\* A call nobody has touched stays in order.
LEMMA CallKept ==
  ASSUME TypeOK, NEW d \in Callers, CallFine(d), call'[d] = call[d],
         spent.values \in Nat, spent'.values \in Nat, spent.values <= spent'.values,
         \A t \in Tenants : Known(t) \subseteq Known(t)',
         \A u \in Tenants : call[d].op = "delete" /\ call[d].tenant = u =>
           At(d, "mark") \/ Cancelled(u)' \/ torn'[u] = "raced",
         Ahead(d, "cred") =>
           /\ \A t \in Tenants : call[d].seen["cred"] \notin Known(t)'
           /\ \A e \in Callers \ {d} : Ahead(e, "cred")' =>
                call'[e].seen["cred"] # call[d].seen["cred"]
  PROVE  CallFine(d)'
<1> DEFINE r == call[d]
<1>1. r \in CallRows /\ \A slot \in Slots : r.seen[slot] \in Nat
  BY DEF TypeOK, CallRows, Hashes
<1>2. \A slot \in Slots : r.seen[slot] <= spent'.values
  BY <1>1 DEF CallFine
<1>3. CASE r = NoCall
  BY <1>3, Idle
<1>4. CASE r # NoCall
  <2>1. r.op \in Named /\ r.tenant \in Tenants
    BY <1>4 DEF CallFine
  <2>2. (r.seen["cred"] \in Known(r.tenant)) => r.seen["cred"] \in Known(r.tenant)'
    BY <2>1
  <2>3. Shaped(r.op, r.todo, r.seen["cred"] \in Known(r.tenant)')
    <3> DEFINE k == r.seen["cred"] \in Known(r.tenant)
               m == r.seen["cred"] \in Known(r.tenant)'
    <3>1. k \in BOOLEAN /\ m \in BOOLEAN /\ (k => m)
      BY <2>2
    <3>2. Shaped(r.op, r.todo, k)
      BY DEF CallFine
    <3> HIDE DEF k, m
    <3>3. Shaped(r.op, r.todo, m)
      BY <3>1, <3>2, ShapedMore
    <3> QED BY <3>3 DEF m
  <2>4. (Ahead(d, "cred")' <=> Ahead(d, "cred")) /\ (At(d, "mark")' <=> At(d, "mark"))
    BY DEF Ahead, At
  <2>5. r.op \in CredOps => Ahead(d, "cred")' \/ r.seen["cred"] \in Known(r.tenant)'
    BY <2>2, <2>4 DEF CallFine
  <2>6. Ahead(d, "cred")' =>
          /\ r.seen["cred"] > 0 /\ \A t \in Tenants : r.seen["cred"] \notin Known(t)'
          /\ \A e \in Callers \ {d} : Ahead(e, "cred")' => call'[e].seen["cred"] # r.seen["cred"]
    BY <2>4 DEF CallFine
  <2>7. r.reopening => r.op \in {"credentials", "unshare"}
    BY DEF CallFine
  <2>8. r.op = "delete" => At(d, "mark")' \/ Cancelled(r.tenant)' \/ torn'[r.tenant] = "raced"
    BY <2>1, <2>4
  <2> QED BY <1>2, <2>1, <2>3, <2>5, <2>6, <2>7, <2>8 DEF CallFine
<1> QED BY <1>3, <1>4

\* A request, or its failure, leaves every call in order.
LEMMA CallsStep ==
  ASSUME TypeOK, WardenInv, NEW c \in Callers, NEW t \in Tenants, call[c].tenant = t,
         call[c] # NoCall, OthersAlone(c), call'[c] = NoCall \/ GoesOn(c, t), UNCHANGED spent.values,
         \/ UNCHANGED stored
         \/ At(c, "putCred") /\ stored' = [stored EXCEPT ![t] = Append(@, call[c].seen["cred"])],
         \A d \in Callers, u \in Tenants : call[d].op = "delete" /\ call[d].tenant = u =>
           (d # c /\ At(d, "mark")) \/ Cancelled(u)' \/ torn'[u] = "raced"
  PROVE  \A d \in Callers : CallFine(d)'
<1> DEFINE v == call[c].seen["cred"]
<1>1. /\ \A d \in Callers : CallFine(d) /\ call[d] \in CallRows
      /\ spent.values \in Nat /\ spent'.values \in Nat /\ v \in Nat
  BY DEF TypeOK, SpentRows, WardenInv, CallRows, Hashes, Slots
<1>2. /\ \A u \in Tenants : Known(u) \subseteq Known(u)'
      /\ \A u \in Tenants, w \in Nat : w \in Known(u)' =>
           w \in Known(u) \/ (At(c, "putCred") /\ w = v)
  BY <1>1, KnownGrows
<1>3. At(c, "putCred") => Ahead(c, "cred")
  BY StoresNew
<1>4. \A e \in Callers : Ahead(e, "cred")' => /\ Ahead(e, "cred")
                                              /\ call'[e].seen["cred"] = call[e].seen["cred"]
  <2> TAKE e \in Callers
  <2>1. CASE e # c
    BY <2>1 DEF OthersAlone, Ahead
  <2>2. CASE e = c /\ GoesOn(c, t)
    BY <2>2 DEF GoesOn
  <2>3. CASE e = c /\ call'[c] = NoCall
    <3>1. "cred" \notin Brings(NoCall.op)
      BY DEF NoCall, Brings, Slots
    <3> QED BY <2>3, <3>1 DEF Ahead
  <2> QED BY <2>1, <2>2, <2>3
<1>5. ASSUME NEW d \in Callers, Ahead(d, "cred"), d # c \/ ~At(c, "putCred")
      PROVE  /\ \A u \in Tenants : call[d].seen["cred"] \notin Known(u)'
             /\ \A e \in Callers \ {d} : Ahead(e, "cred")' =>
                  call'[e].seen["cred"] # call[d].seen["cred"]
  <2>1. /\ \A u \in Tenants : call[d].seen["cred"] \notin Known(u)
        /\ \A e \in Callers \ {d} : Ahead(e, "cred") =>
             call[e].seen["cred"] # call[d].seen["cred"]
        /\ call[d].seen["cred"] \in Nat
    BY <1>1, <1>5 DEF CallFine, CallRows, Hashes, Slots
  <2>2. At(c, "putCred") => call[d].seen["cred"] # v
    BY <1>3, <1>5, <2>1
  <2> QED BY <1>2, <1>4, <2>1, <2>2
<1>6. ASSUME NEW d \in Callers \ {c} PROVE CallFine(d)'
  <2>1. call'[d] = call[d]
    BY DEF OthersAlone
  <2>2. spent.values <= spent'.values
    BY <1>1
  <2> QED BY <1>1, <1>2, <1>5, <2>1, <2>2, CallKept
<1>7. CASE call'[c] = NoCall
  BY <1>1, <1>6, <1>7, Idle
<1>8. CASE GoesOn(c, t)
  <2> DEFINE s == call'[c]
  <2>1. /\ s \in CallRows /\ s.op = call[c].op /\ s.tenant = t
        /\ s.reopening => s.op \in {"credentials", "unshare"}
        /\ Shaped(s.op, s.todo, s.seen["cred"] \in Known(t)')
        /\ s.op \in CredOps => Ahead(c, "cred")' \/ s.seen["cred"] \in Known(t)'
        /\ Ahead(c, "cred")' => /\ Ahead(c, "cred") /\ s.seen["cred"] = call[c].seen["cred"]
                                /\ ~At(c, "putCred")
        /\ \A slot \in Slots : s.seen[slot] <= spent'.values
    BY <1>8 DEF GoesOn
  <2>2. s.op \in Named
    <3>1. call[c] # NoCall
      OBVIOUS
    <3> QED BY <1>1, <2>1, <3>1 DEF CallFine
  <2>3. Ahead(c, "cred")' =>
          /\ s.seen["cred"] > 0 /\ \A u \in Tenants : s.seen["cred"] \notin Known(u)'
          /\ \A e \in Callers \ {c} : Ahead(e, "cred")' => call'[e].seen["cred"] # s.seen["cred"]
    BY <1>1, <1>5, <2>1 DEF CallFine
  <2>4. s.op = "delete" => Cancelled(t)' \/ torn'[t] = "raced"
    BY <2>1
  <2>5. CallFine(c)'
    BY <2>1, <2>2, <2>3, <2>4 DEF CallFine
  <2> QED BY <1>6, <2>5
<1> QED BY <1>7, <1>8

\* A call that begins brings values nobody has seen.
LEMMA Begins ==
  ASSUME TypeOK, WardenInv, NEW c \in Callers, NEW op \in Named, NEW t \in Tenants,
         NEW s \in CallRows, s.op = op, s.tenant = t, s.todo = Script(op), ~s.reopening,
         call' = [call EXCEPT ![c] = s], UNCHANGED <<objects, history>>,
         spent'.values \in Nat, spent.values <= spent'.values,
         \A slot \in Slots : s.seen[slot] <= spent'.values,
         op \in CredOps => s.seen["cred"] > spent.values
  PROVE  call' \in [Callers -> CallRows] /\ \A d \in Callers : CallFine(d)'
<1>1. /\ call \in [Callers -> CallRows] /\ call'[c] = s /\ spent.values \in Nat
      /\ \A d \in Callers \ {c} : call'[d] = call[d]
      /\ \A d \in Callers : CallFine(d) /\ call[d].seen["cred"] \in Nat
      /\ s.seen["cred"] \in Nat
  BY DEF TypeOK, SpentRows, WardenInv, CallRows, Hashes, Slots
<1>2. /\ \A u \in Tenants : Known(u)' = Known(u)
      /\ \A u \in Tenants : \A v \in Known(u) : v <= spent.values
      /\ \A u : Cancelled(u)' <=> Cancelled(u)
      /\ UNCHANGED torn
  BY KnownGrows DEF history, objects, WardenInv, TenantFine, Cancelled
<1>3. /\ Shaped(op, Script(op), FALSE) /\ Script(op) # <<>>
      /\ op = "delete" => Head(Script(op)) = "mark"
      /\ op \in CredOps => Script(op) = <<"identity", "admit">>
  BY ScriptShape
<1>4. ASSUME NEW d \in Callers, Ahead(d, "cred")' PROVE d = c \/ Ahead(d, "cred")
  BY <1>1, <1>4 DEF Ahead
<1>5. Ahead(c, "cred")' => op \in CredOps
  BY <1>1 DEF Ahead, Brings, CredOps, Named, Slots
<1>6. ASSUME NEW d \in Callers, NEW u \in Tenants, call[d].op = "delete", call[d].tenant = u
      PROVE  At(d, "mark") \/ Cancelled(u)' \/ torn'[u] = "raced"
  BY <1>1, <1>2, <1>6 DEF CallFine
<1>7. ASSUME NEW d \in Callers \ {c} PROVE CallFine(d)'
  <2>1. ASSUME Ahead(d, "cred")
        PROVE  /\ \A u \in Tenants : call[d].seen["cred"] \notin Known(u)'
               /\ \A e \in Callers \ {d} : Ahead(e, "cred")' =>
                    call'[e].seen["cred"] # call[d].seen["cred"]
    <3>1. /\ \A u \in Tenants : call[d].seen["cred"] \notin Known(u)
          /\ \A e \in Callers \ {d} : Ahead(e, "cred") =>
               call[e].seen["cred"] # call[d].seen["cred"]
          /\ call[d].seen["cred"] <= spent.values
      BY <1>1, <2>1 DEF CallFine, Slots
    <3> QED BY <1>1, <1>2, <1>4, <1>5, <3>1
  <2> QED BY <1>1, <1>2, <1>6, <2>1, CallKept
<1>8. CallFine(c)'
  <2>1. Shaped(op, Script(op), s.seen["cred"] \in Known(t)')
    <3> DEFINE k == s.seen["cred"] \in Known(t)'
    <3>1. k \in BOOLEAN
      OBVIOUS
    <3> HIDE DEF k
    <3>2. Shaped(op, Script(op), k)
      BY <1>3, <3>1, ShapedMore
    <3> QED BY <3>2 DEF k
  <2>2. op \in CredOps => Ahead(c, "cred")'
    <3> SUFFICES ASSUME op \in CredOps PROVE Ahead(c, "cred")'
      OBVIOUS
    <3> DEFINE q == <<"identity", "admit">>
    <3>1. q[2] = "admit" /\ 2 \in 1..Len(q)
      OBVIOUS
    <3> HIDE DEF q
    <3>2. call'[c].todo = q /\ call'[c].op = op
      BY <1>1, <1>3 DEF q
    <3> QED BY <3>1, <3>2 DEF Ahead, Brings, CredOps, Slots
  <2>3. Ahead(c, "cred")' =>
          /\ s.seen["cred"] > 0 /\ \A u \in Tenants : s.seen["cred"] \notin Known(u)'
          /\ \A e \in Callers \ {c} : Ahead(e, "cred")' => call'[e].seen["cred"] # s.seen["cred"]
    <3> SUFFICES ASSUME Ahead(c, "cred")'
                 PROVE  /\ s.seen["cred"] > 0 /\ \A u \in Tenants : s.seen["cred"] \notin Known(u)'
                        /\ \A e \in Callers \ {c} : call'[e].seen["cred"] # s.seen["cred"]
      OBVIOUS
    <3>1. s.seen["cred"] > spent.values
      BY <1>5
    <3>2. \A e \in Callers : call[e].seen["cred"] <= spent.values
      BY <1>1 DEF CallFine, Slots
    <3> QED BY <1>1, <1>2, <3>1, <3>2
  <2>4. op = "delete" => At(c, "mark")'
    BY <1>1, <1>3 DEF At
  <2> QED BY <1>1, <2>1, <2>2, <2>3, <2>4 DEF CallFine
<1>9. call' \in [Callers -> CallRows]
  BY <1>1
<1> QED BY <1>7, <1>8, <1>9

\* A call that ends, and any other that does, leaves the calls in order.
LEMMA CallsEnd ==
  ASSUME TypeOK, WardenInv, UNCHANGED <<stored, torn, closed, spent.values>>,
         \A u \in Tenants : Cancelled(u) => Cancelled(u)',
         \A d \in Callers : call'[d] = call[d] \/ call'[d] = NoCall
  PROVE  \A d \in Callers : CallFine(d)'
<1>1. /\ \A u \in Tenants : Known(u)' = Known(u)
      /\ spent.values \in Nat /\ spent'.values = spent.values
      /\ \A d \in Callers : CallFine(d)
  BY KnownGrows DEF TypeOK, SpentRows, WardenInv
<1>2. \A e \in Callers : Ahead(e, "cred")' => Ahead(e, "cred") /\ call'[e] = call[e]
  <2>1. "cred" \notin Brings(NoCall.op)
    BY DEF NoCall, Brings, Slots
  <2> QED BY <2>1 DEF Ahead
<1> TAKE d \in Callers
<1>3. CASE call'[d] = NoCall
  BY <1>1, <1>3, Idle
<1>4. CASE call'[d] = call[d]
  <2>1. \A u \in Tenants : call[d].op = "delete" /\ call[d].tenant = u =>
          At(d, "mark") \/ Cancelled(u)' \/ torn'[u] = "raced"
    BY <1>1 DEF CallFine
  <2>2. Ahead(d, "cred") =>
          /\ \A t \in Tenants : call[d].seen["cred"] \notin Known(t)'
          /\ \A e \in Callers \ {d} : Ahead(e, "cred")' =>
               call'[e].seen["cred"] # call[d].seen["cred"]
    BY <1>1, <1>2 DEF CallFine
  <2> QED BY <1>1, <1>4, <2>1, <2>2, CallKept
<1> QED BY <1>3, <1>4

--------------------------------------------------------------------------------
(* The invariant is kept *)

WardenSafe == TypeOK /\ WardenInv

\* Nobody has done anything to the objects a call may change, except for pods that have
\* come from a Deployment that stands, or have gone.
LEMMA TenantsRest ==
  ASSUME TypeOK, WardenInv, UNCHANGED <<closed, secret, torn, stored, spent.values>>,
         \A u \in Tenants : Cancelled(u) => Cancelled(u)',
         \A u \in Tenants : dep'[u].tmpl = dep[u].tmpl /\ dep'[u].stands = dep[u].stands,
         \A u \in Tenants : \A p \in pod'[u] :
           \/ \E q \in pod[u] : p.tmpl = q.tmpl /\ p.loaded = q.loaded
           \/ Exists(u) /\ p.tmpl = dep[u].tmpl /\ p.loaded = secret[u]
  PROVE  \A u \in Tenants : TenantFine(u)'
<1> SUFFICES ASSUME NEW u \in Tenants PROVE TenantFine(u)'
  OBVIOUS
<1>1. /\ TenantFine(u) /\ spent.values \in Nat
      /\ secret[u] \in Hashes /\ \A slot \in Slots : secret[u][slot] <= spent.values
  BY DEF TypeOK, SpentRows, WardenInv, TenantFine
<1>2. Exists(u) => dep[u].tmpl.hash["cred"] \in Known(u)
  BY <1>1 DEF TenantFine
<1>3. ASSUME NEW p \in pod'[u]
      PROVE  p.tmpl.hash["cred"] \in Known(u) /\ p.loaded["cred"] \in Since(u, p.tmpl.hash["cred"])
  <2>1. CASE \E q \in pod[u] : p.tmpl = q.tmpl /\ p.loaded = q.loaded
    BY <1>1, <2>1 DEF TenantFine
  <2>2. CASE Exists(u) /\ p.tmpl = dep[u].tmpl /\ p.loaded = secret[u]
    BY <1>1, <1>2, <2>2, LastIsStored
  <2> QED BY <2>1, <2>2
<1>4. Exists(u)' => dep'[u].tmpl.hash["cred"] \in Known(u)
  BY <1>2 DEF Exists
<1>5. torn'[u] = "torn" => Cancelled(u)'
  BY <1>1 DEF TenantFine
<1> QED BY <1>1, <1>3, <1>4, <1>5, TenantKept

\* A request.
LEMMA RequestSafe ==
  ASSUME WardenSafe, NEW c \in Callers, Request(c, call[c].tenant)
  PROVE  WardenSafe'
<1> DEFINE t == call[c].tenant
<1>1. TypeOK /\ WardenInv /\ CallFine(c) /\ t \in Tenants /\ TenantFine(t) /\ call[c] # NoCall
  BY DEF WardenSafe, WardenInv, CallFine, Request
<1> HIDE DEF t
<1>2. Request(c, t) /\ call[c].tenant = t
  BY DEF t
<1>3. OthersAlone(c) /\ (call'[c] = NoCall \/ GoesOn(c, t))
  BY <1>1, <1>2, RequestMoves
<1>4. call' \in [Callers -> CallRows]
  BY <1>3 DEF OthersAlone
<1>5. TypeOK' /\ UNCHANGED <<spent, render>>
  BY <1>1, <1>2, <1>4, RequestTypes
<1>6. /\ \A u \in Tenants : TenantFine(u)'
      /\ \/ UNCHANGED stored
         \/ At(c, "putCred") /\ stored' = [stored EXCEPT ![t] = Append(@, call[c].seen["cred"])]
  BY <1>1, <1>2, <1>4, <1>5, RequestTenants
<1>7. \A d \in Callers, u \in Tenants : call[d].op = "delete" /\ call[d].tenant = u =>
        (d # c /\ At(d, "mark")) \/ Cancelled(u)' \/ torn'[u] = "raced"
  BY <1>1, <1>2, <1>4, MarkerKept
<1>8. \A d \in Callers : CallFine(d)'
  BY <1>1, <1>2, <1>3, <1>5, <1>6, <1>7, CallsStep
<1> QED BY <1>5, <1>6, <1>8 DEF WardenSafe, WardenInv

\* A step of the cluster, of time or of somebody with kubectl, and a failed request.
LEMMA AroundSafe ==
  ASSUME WardenSafe,
         Around \/ (\E t \in Tenants : Cluster(t)) \/ \E c \in Callers : Fails(c)
  PROVE  WardenSafe'
<1>1. TypeOK /\ WardenInv
  BY DEF WardenSafe
<1>2. /\ pod \in [Tenants -> SUBSET PodRows] /\ dep \in [Tenants -> DepRows] /\ spent \in SpentRows
      /\ call \in [Callers -> CallRows] /\ secret \in [Tenants -> Hashes]
      /\ ident \in [Tenants -> {"none", "young", "old"}] /\ render \in Nat
  BY <1>1 DEF TypeOK
\* What is enough of each.
<1>3. ASSUME UNCHANGED <<closed, secret, up, torn, stored, spent.values>>,
             ident' \in [Tenants -> {"none", "young", "old"}],
             \A u \in Tenants : ident[u] = "none" <=> ident'[u] = "none",
             dep' \in [Tenants -> DepRows],
             \A u \in Tenants : dep'[u].tmpl = dep[u].tmpl /\ dep'[u].stands = dep[u].stands,
             pod' \in [Tenants -> SUBSET PodRows],
             \A u \in Tenants : \A p \in pod'[u] :
               \/ \E q \in pod[u] : p.tmpl = q.tmpl /\ p.loaded = q.loaded
               \/ Exists(u) /\ p.tmpl = dep[u].tmpl /\ p.loaded = secret[u],
             call' \in [Callers -> CallRows],
             \A d \in Callers : call'[d] = call[d] \/ call'[d] = NoCall,
             render' \in Nat, spent' \in SpentRows
      PROVE  WardenSafe'
  <2>1. TypeOK'
    BY <1>1, <1>3 DEF TypeOK
  <2>2. \A u \in Tenants : Cancelled(u) => Cancelled(u)'
    BY <1>3 DEF Cancelled
  <2>3. \A u \in Tenants : TenantFine(u)'
    BY <1>1, <1>3, <2>2, TenantsRest
  <2>4. \A d \in Callers : CallFine(d)'
    BY <1>1, <1>3, <2>2, CallsEnd
  <2> QED BY <2>1, <2>3, <2>4 DEF WardenSafe, WardenInv
<1>4. NoCall \in CallRows
  BY DEF NoCall, CallRows, Hashes
<1>5. ASSUME NEW t \in Tenants, PodStarts(t) PROVE WardenSafe'
  <2> DEFINE new == [tmpl |-> dep[t].tmpl, loaded |-> secret[t], phase |-> "starting", owned |-> TRUE]
  <2>1. /\ pod' = [pod EXCEPT ![t] = @ \cup {new}] /\ Exists(t)
        /\ UNCHANGED <<record, dep, call, render, spent, history>>
    BY <1>5 DEF PodStarts
  <2>2. new \in PodRows /\ new.tmpl = dep[t].tmpl /\ new.loaded = secret[t]
    BY <1>2 DEF PodRows, DepRows
  <2> HIDE DEF new
  <2>3. pod' \in [Tenants -> SUBSET PodRows]
    BY <1>2, <2>1, <2>2
  <2>4. \A u \in Tenants : \A p \in pod'[u] :
          \/ \E q \in pod[u] : p.tmpl = q.tmpl /\ p.loaded = q.loaded
          \/ Exists(u) /\ p.tmpl = dep[u].tmpl /\ p.loaded = secret[u]
    BY <1>2, <2>1, <2>2
  <2> QED BY <1>2, <1>3, <2>1, <2>3, <2>4 DEF record, history
<1>6. ASSUME NEW t \in Tenants, NEW p \in pod[t], NEW phase \in {"starting", "ready"},
             pod' = [pod EXCEPT ![t] = (@ \ {p}) \cup {[p EXCEPT !.phase = phase]}],
             UNCHANGED <<record, dep, call, render, history, spent.values>>, spent' \in SpentRows
      PROVE  WardenSafe'
  <2> DEFINE new == [p EXCEPT !.phase = phase]
  <2>1. p \in PodRows /\ new \in PodRows /\ new.tmpl = p.tmpl /\ new.loaded = p.loaded
    <3>1. p \in PodRows
      BY <1>2
    <3> QED BY <3>1 DEF PodRows
  <2>2. pod' = [pod EXCEPT ![t] = (@ \ {p}) \cup {new}]
    BY <1>6
  <2> HIDE DEF new
  <2>3. pod' \in [Tenants -> SUBSET PodRows]
    BY <1>2, <2>1, <2>2
  <2>4. \A u \in Tenants : \A q \in pod'[u] : \E r \in pod[u] : q.tmpl = r.tmpl /\ q.loaded = r.loaded
    BY <1>2, <2>1, <2>2
  <2> QED BY <1>2, <1>3, <1>6, <2>3, <2>4 DEF record, history
<1>7. ASSUME NEW t \in Tenants, PodServes(t) PROVE WardenSafe'
  BY <1>2, <1>6, <1>7 DEF PodServes
<1>8. ASSUME NEW t \in Tenants, PodSickens(t) PROVE WardenSafe'
  <2>1. UNCHANGED spent.values /\ spent' \in SpentRows
    BY <1>2, <1>8 DEF PodSickens, SpentRows
  <2> QED BY <1>6, <1>8, <2>1 DEF PodSickens
<1>9. ASSUME NEW t \in Tenants, PodStops(t) PROVE WardenSafe'
  <2>1. PICK p \in pod[t] : pod' = [pod EXCEPT ![t] = @ \ {p}]
    BY <1>9 DEF PodStops
  <2>2. UNCHANGED <<record, dep, call, render, spent, history>>
    BY <1>9 DEF PodStops
  <2>3. pod' \in [Tenants -> SUBSET PodRows] /\ \A u \in Tenants : pod'[u] \subseteq pod[u]
    BY <1>2, <2>1
  <2> QED BY <1>2, <1>3, <2>2, <2>3 DEF record, history
<1>10. ASSUME NEW t \in Tenants, Ages(t) PROVE WardenSafe'
  BY <1>2, <1>3, <1>10 DEF Ages, history
<1>11. ASSUME NEW t \in Tenants, HandEdit(t) PROVE WardenSafe'
  <2>1. spent' \in SpentRows /\ UNCHANGED spent.values
    BY <1>2, <1>11 DEF HandEdit, SpentRows
  <2> DEFINE row == [dep[t] EXCEPT !.foreign = TRUE]
  <2>2. dep' = [dep EXCEPT ![t] = row]
    BY <1>11 DEF HandEdit
  <2>3. row \in DepRows /\ row.tmpl = dep[t].tmpl /\ row.stands = dep[t].stands
    <3>1. dep[t] \in DepRows
      BY <1>2
    <3> QED BY <3>1 DEF DepRows
  <2> HIDE DEF row
  <2>4. /\ dep' \in [Tenants -> DepRows]
        /\ \A u \in Tenants : dep'[u].tmpl = dep[u].tmpl /\ dep'[u].stands = dep[u].stands
    BY <1>2, <2>2, <2>3
  <2> QED BY <1>2, <1>3, <1>11, <2>1, <2>4 DEF HandEdit, record, history
<1>12. CASE NewRender
  <2>1. /\ call' \in [Callers -> CallRows] /\ \A d \in Callers : call'[d] = call[d] \/ call'[d] = NoCall
        /\ render' \in Nat /\ UNCHANGED <<objects, spent, history>>
    <3> HIDE DEF NoCall
    <3> QED BY <1>2, <1>4, <1>12 DEF NewRender
  <2> QED BY <1>2, <1>3, <2>1 DEF objects, history
<1>13. ASSUME NEW c \in Callers, Fails(c) PROVE WardenSafe'
  <2>1. OthersAlone(c) /\ call'[c] = NoCall
    BY <1>1, <1>13, EndsAlone DEF Fails
  <2>2. /\ UNCHANGED <<objects, render, history, spent.values>> /\ spent' \in SpentRows
    BY <1>2, <1>13 DEF Fails, SpentRows
  <2> QED BY <1>2, <1>3, <2>1, <2>2 DEF OthersAlone, objects, history
<1> QED BY <1>5, <1>7, <1>8, <1>9, <1>10, <1>11, <1>12, <1>13 DEF Around, Cluster

\* The control plane begins a call.
LEMMA StartSafe ==
  ASSUME WardenSafe, NEW c \in Callers, NEW op \in Ops, NEW t \in Tenants, Start(c, op, t)
  PROVE  WardenSafe'
<1> DEFINE fresh == spent.values + Cardinality(Brings(op))
           seen == [slot \in Slots |-> IF slot \in Brings(op) THEN fresh ELSE 0]
           s == [NoCall EXCEPT !.op = op, !.tenant = t, !.todo = Script(op), !.render = render,
                               !.seen = seen]
<1>1. /\ TypeOK /\ WardenInv /\ op \in Named /\ spent \in SpentRows /\ spent.values \in Nat
      /\ render \in Nat
  BY WardenAssumption DEF WardenSafe, TypeOK, SpentRows, Named, CredOps
<1>2. fresh \in Nat /\ fresh >= spent.values /\ (op \in CredOps => fresh > spent.values)
  <2>1. \A e : IsFiniteSet({e}) /\ Cardinality({e}) = 1
    BY FS_Singleton
  <2>2. Cardinality({}) = 0
    BY FS_EmptySet
  <2>3. Brings(op) = {} \/ \E e : Brings(op) = {e}
    <3>1. op \in CredOps => Brings(op) = {"cred"}
      BY DEF Brings, CredOps
    <3>2. op \notin CredOps => Brings(op) = {} \/ Brings(op) = {op}
      BY DEF Brings, CredOps
    <3> QED BY <3>1, <3>2
  <2>4. op \in CredOps => Brings(op) = {"cred"}
    BY DEF Brings, CredOps
  <2>5. CASE op \in CredOps
    <3>1. Cardinality(Brings(op)) = 1
      BY <2>1, <2>4, <2>5
    <3> QED BY <1>1, <3>1
  <2>6. CASE op \notin CredOps
    <3>1. Cardinality(Brings(op)) \in {0, 1}
      BY <2>1, <2>2, <2>3
    <3> QED BY <1>1, <2>6, <3>1
  <2> QED BY <2>5, <2>6
<1> HIDE DEF fresh
<1>3. /\ call' = [call EXCEPT ![c] = s] /\ UNCHANGED <<objects, render, history>>
      /\ spent' = [spent EXCEPT !.calls = @ + 1, !.values = fresh]
  BY DEF Start, fresh
<1>4. /\ seen \in Hashes /\ \A slot \in Slots : seen[slot] <= fresh
      /\ op \in CredOps => seen["cred"] = fresh
  BY <1>2 DEF Hashes, Brings, CredOps, Slots
<1> HIDE DEF seen
<1>5. Script(op) \in Seq(Requests)
  BY <1>1, ScriptShape DEF Shaped
<1>6. /\ s \in CallRows /\ s.op = op /\ s.tenant = t /\ s.todo = Script(op) /\ ~s.reopening
      /\ s.seen = seen
  BY <1>1, <1>4, <1>5 DEF NoCall, CallRows
<1> HIDE DEF s
<1>7. spent' \in SpentRows /\ spent'.values = fresh
  <2>1. spent.calls + 1 \in Nat
    BY <1>1 DEF SpentRows
  <2>2. spent' = [values |-> fresh, calls |-> spent.calls + 1, faults |-> spent.faults,
                  edits |-> spent.edits]
    BY <1>1, <1>3 DEF SpentRows
  <2> QED BY <1>1, <1>2, <2>1, <2>2 DEF SpentRows
<1>8. call' \in [Callers -> CallRows] /\ \A d \in Callers : CallFine(d)'
  BY <1>1, <1>2, <1>3, <1>4, <1>6, <1>7, Begins
<1>9. TypeOK'
  BY <1>1, <1>3, <1>7, <1>8 DEF TypeOK, objects, history
<1>10. ASSUME NEW u \in Tenants PROVE TenantFine(u)'
  <2>1. /\ TenantFine(u) /\ secret[u] \in Hashes
        /\ UNCHANGED <<ident, closed, secret, dep, pod, torn, stored>>
    BY <1>1, <1>3 DEF WardenInv, TypeOK, objects, history
  <2>2. \A slot \in Slots : secret'[u][slot] <= spent'.values
    BY <1>1, <1>2, <1>7, <2>1 DEF TenantFine, Hashes
  <2>3. /\ PodsFrom(u) /\ (torn'[u] = "torn" => Cancelled(u)')
        /\ (Exists(u)' => dep'[u].tmpl.hash["cred"] \in Known(u))
    BY <2>1 DEF PodsFrom, TenantFine, Cancelled, Exists
  <2>4. spent'.values \in Nat /\ spent.values <= spent'.values
    BY <1>1, <1>2, <1>7
  <2> QED BY <1>1, <2>1, <2>2, <2>3, <2>4, TenantKept
<1> QED BY <1>8, <1>9, <1>10 DEF WardenSafe, WardenInv

\* What the tenants may be at the start is in order.
LEMMA InitSafe ==
  ASSUME Init
  PROVE  WardenSafe
<1>1. PICK start \in [Tenants -> Starts] :
    /\ ident = [t \in Tenants |-> IF start[t] = "absent" THEN "none" ELSE "old"]
    /\ closed = [t \in Tenants |-> FALSE]
    /\ secret = [t \in Tenants |-> FirstValues(start[t])]
    /\ up = [t \in Tenants |-> IF start[t] = "serving" THEN Kinds ELSE {}]
    /\ dep = [t \in Tenants |-> IF start[t] = "serving"
                 THEN [NoDep EXCEPT !.tmpl = FirstTemplate, !.stands = TRUE] ELSE NoDep]
    /\ pod = [t \in Tenants |-> IF start[t] = "serving"
                THEN {[tmpl |-> FirstTemplate, loaded |-> FirstTemplate.hash,
                       phase |-> "ready", owned |-> TRUE]} ELSE {}]
    /\ call = [c \in Callers |-> NoCall]
    /\ render = 0 /\ torn = [t \in Tenants |-> "whole"]
    /\ stored = [t \in Tenants |-> IF start[t] = "serving" THEN <<1>> ELSE <<>>]
    /\ spent = [values |-> 1, calls |-> 0, faults |-> 0, edits |-> 0]
  BY DEF Init
<1>2. \A st : FirstValues(st) \in Hashes /\ \A slot \in Slots : FirstValues(st)[slot] <= 1
  BY DEF FirstValues, Hashes, Slots
<1>3. /\ FirstTemplate \in Tmpls /\ FirstTemplate.hash = FirstValues("serving")
      /\ FirstValues("serving")["cred"] = 1
      /\ \A st : st # "serving" => FirstValues(st)["cred"] = 0
  BY <1>2 DEF FirstTemplate, Tmpls, FirstValues, Slots
<1>4. /\ NoDep \in DepRows /\ NoDep.stands = FALSE
      /\ [NoDep EXCEPT !.tmpl = FirstTemplate, !.stands = TRUE] \in DepRows
      /\ [NoDep EXCEPT !.tmpl = FirstTemplate, !.stands = TRUE].tmpl = FirstTemplate
  BY <1>3 DEF NoDep, DepRows, Tmpls, Hashes
<1>5. NoCall \in CallRows
  BY DEF NoCall, CallRows, Hashes
<1> DEFINE first == [tmpl |-> FirstTemplate, loaded |-> FirstTemplate.hash,
                     phase |-> "ready", owned |-> TRUE]
           whole == [NoDep EXCEPT !.tmpl = FirstTemplate, !.stands = TRUE]
<1>6. first \in PodRows /\ first.tmpl = FirstTemplate /\ first.loaded = FirstTemplate.hash
  BY <1>2, <1>3 DEF PodRows
<1>7. /\ dep = [t \in Tenants |-> IF start[t] = "serving" THEN whole ELSE NoDep]
      /\ pod = [t \in Tenants |-> IF start[t] = "serving" THEN {first} ELSE {}]
      /\ whole \in DepRows /\ whole.tmpl = FirstTemplate
  BY <1>1, <1>4
<1> HIDE DEF first, whole, FirstTemplate, NoDep, NoCall
<1>8. spent \in SpentRows /\ spent.values = 1
  BY <1>1 DEF SpentRows
<1>9. <<1>> \in Seq(Nat) /\ <<>> \in Seq(Nat)
  OBVIOUS
<1>10. /\ dep \in [Tenants -> DepRows] /\ pod \in [Tenants -> SUBSET PodRows]
       /\ secret \in [Tenants -> Hashes] /\ stored \in [Tenants -> Seq(Nat)]
       /\ call \in [Callers -> CallRows]
  BY <1>1, <1>2, <1>4, <1>5, <1>6, <1>7, <1>9
<1>11. TypeOK
  BY <1>1, <1>8, <1>10 DEF TypeOK
<1>12. ASSUME NEW c \in Callers PROVE CallFine(c)
  <2>1. call[c] = NoCall
    BY <1>1
  <2>2. /\ NoCall.op = "none" /\ NoCall.todo = <<>> /\ NoCall.reopening = FALSE
        /\ \A slot \in Slots : NoCall.seen[slot] = 0
    BY DEF NoCall
  <2>3. \A op, k : Shaped(op, <<>>, k)
    BY DEF Shaped
  <2>4. "none" \notin CredOps /\ "none" # "delete" /\ Brings("none") = {}
    BY DEF CredOps, Brings, Slots
  <2>5. ~Ahead(c, "cred")
    BY <2>1, <2>2, <2>4 DEF Ahead
  <2> QED BY <1>8, <2>1, <2>2, <2>3, <2>4, <2>5 DEF CallFine
<1>13. ASSUME NEW t \in Tenants PROVE TenantFine(t)
  <2>1. /\ torn[t] # "torn" /\ secret[t] = FirstValues(start[t])
        /\ \A slot \in Slots : secret[t][slot] <= spent.values
    BY <1>1, <1>2, <1>8
  <2>2. CASE start[t] = "serving"
    <3>1. stored[t] = <<1>> /\ dep[t] = whole /\ pod[t] = {first} /\ secret[t]["cred"] = 1
      BY <1>1, <1>3, <1>7, <2>1, <2>2
    <3>2. Len(<<1>>) = 1 /\ <<1>>[1] = 1 /\ 1..1 = {1} /\ DOMAIN <<1>> = 1..1
      OBVIOUS
    <3>3. Known(t) = {1}
      BY <3>1, <3>2 DEF Known
    <3>4. 1 \in Since(t, 1)
      <4>1. 1 \in {i \in DOMAIN stored[t] : \E j \in 1..i : stored[t][j] = 1}
        BY <3>1, <3>2
      <4> QED BY <3>1, <3>2, <4>1 DEF Since
    <3>5. /\ dep[t].tmpl.hash["cred"] = 1
          /\ \A p \in pod[t] : p.tmpl.hash["cred"] = 1 /\ p.loaded["cred"] = 1
      BY <1>3, <1>6, <1>7, <3>1
    <3>6. secret[t]["cred"] = IF Len(stored[t]) = 0 THEN 0 ELSE stored[t][Len(stored[t])]
      BY <3>1, <3>2
    <3>7. \A i, j \in 1..Len(stored[t]) : stored[t][i] = stored[t][j] => i = j
      BY <3>1, <3>2
    <3> QED BY <1>8, <2>1, <3>3, <3>4, <3>5, <3>6, <3>7 DEF TenantFine
  <2>3. CASE start[t] # "serving"
    <3>1. stored[t] = <<>> /\ dep[t] = NoDep /\ pod[t] = {} /\ secret[t]["cred"] = 0
      BY <1>1, <1>3, <1>7, <2>1, <2>3
    <3>2. Len(stored[t]) = 0 /\ 1..0 = {}
      BY <3>1
    <3>3. Known(t) = {}
      BY <3>2 DEF Known
    <3> QED BY <1>4, <2>1, <3>1, <3>2, <3>3 DEF TenantFine, Exists
  <2> QED BY <2>2, <2>3
<1> QED BY <1>11, <1>12, <1>13 DEF WardenSafe, WardenInv

\* The invariant is kept by every step of the warden's calls and of the cluster.
LEMMA NextSafe ==
  ASSUME WardenSafe, [Next]_vars
  PROVE  WardenSafe'
<1>1. ASSUME NEW c \in Callers, WardenCall(c) PROVE WardenSafe'
  BY <1>1, StartSafe, RequestSafe, AroundSafe DEF WardenCall
<1>2. CASE UNCHANGED vars
  <2>1. UNCHANGED <<ident, closed, secret, up, dep, pod, call, render, spent, torn, stored>>
    BY <1>2 DEF vars
  <2>2. TypeOK'
    BY <2>1 DEF WardenSafe, TypeOK
  <2>3. ASSUME NEW c \in Callers PROVE CallFine(c)'
    <3>1. CallFine(c)
      BY DEF WardenSafe, WardenInv
    <3> QED BY <2>1, <3>1 DEF CallFine, Known, Ahead, At, Cancelled
  <2>4. ASSUME NEW t \in Tenants PROVE TenantFine(t)'
    <3>1. TenantFine(t)
      BY DEF WardenSafe, WardenInv
    <3> QED BY <2>1, <3>1 DEF TenantFine, Known, Since, Cancelled, Exists
  <2> QED BY <2>2, <2>3, <2>4 DEF WardenSafe, WardenInv
<1> QED BY <1>1, <1>2, AroundSafe DEF Next

--------------------------------------------------------------------------------
(* What it is worth *)

\* A tenant torn down reads as closed.
LEMMA SafeIsMarked == ASSUME WardenSafe PROVE ClosedIsMarked
BY DEF WardenSafe, WardenInv, TenantFine, ClosedIsMarked

\* A pod whose template names the stored credential has installed it: it has that one or
\* a later one, and there is none later.
LEMMA SafeIsLoaded == ASSUME WardenSafe PROVE StoredIsLoaded
<1> SUFFICES ASSUME NEW t \in Tenants, NEW p \in pod[t], p.tmpl.hash["cred"] = secret[t]["cred"]
             PROVE  p.loaded["cred"] = secret[t]["cred"]
  BY DEF StoredIsLoaded
<1> DEFINE n == Len(stored[t])
           v == secret[t]["cred"]
<1>1. TypeOK /\ TenantFine(t) /\ n \in Nat /\ DOMAIN stored[t] = 1..n
  BY DEF WardenSafe, TypeOK, WardenInv
<1>2. v \in Known(t) /\ p.loaded["cred"] \in Since(t, v)
  BY <1>1 DEF TenantFine
<1>3. n \in 1..n /\ v = stored[t][n]
  <2>1. n # 0
    BY <1>2 DEF Known
  <2> QED BY <1>1, <2>1 DEF TenantFine
<1>4. PICK i \in 1..n : p.loaded["cred"] = stored[t][i] /\ \E j \in 1..i : stored[t][j] = v
  BY <1>1, <1>2 DEF Since
<1>5. PICK j \in 1..i : stored[t][j] = v
  BY <1>4
<1>6. j = n
  <2>1. j \in 1..n
    BY <1>1, <1>5
  <2> QED BY <1>1, <1>3, <1>5, <2>1 DEF TenantFine
<1>7. i = n
  BY <1>1, <1>5, <1>6
<1> QED BY <1>3, <1>4, <1>7

\* What is confirmed in place of an older credential serves.
LEMMA SafeIsHonest == ASSUME WardenSafe PROVE ConfirmHonest
<1> SUFFICES ASSUME NEW c \in Callers, At(c, "confirm"), call[c].replacing,
                    Confirms(c, call[c].tenant)
             PROVE  \E p \in pod[call[c].tenant] :
                      /\ p.owned /\ p.phase = "ready"
                      /\ p.loaded["cred"] \in Since(call[c].tenant, call[c].seen["cred"])
  BY DEF ConfirmHonest
<1> DEFINE t == call[c].tenant
<1>1. t \in Tenants
  <2>1. NoCall.todo = <<>>
    BY DEF NoCall
  <2> QED BY <2>1 DEF At, WardenSafe, WardenInv, CallFine
<1>2. RolledOut(t) /\ dep[t].tmpl.hash["cred"] = call[c].seen["cred"]
  BY DEF Confirms
<1>3. PICK p \in pod[t] : p.owned /\ p.phase = "ready" /\ p.tmpl = dep[t].tmpl
  BY <1>2 DEF RolledOut
<1>4. p.loaded["cred"] \in Since(t, p.tmpl.hash["cred"])
  BY <1>1 DEF WardenSafe, WardenInv, TenantFine
<1> QED BY <1>2, <1>3, <1>4

\* The invariant of the warden's calls.
LEMMA WardenHolds == Spec => []WardenSafe
BY InitSafe, NextSafe, PTL DEF Spec

(* A teardown that stopped anywhere still reads as a closed account, until a reopen has
   finished: `delete` stamps before its first delete, `install_credentials` takes the
   marker off last. *)
THEOREM TornIsMarked == Spec => []ClosedIsMarked
BY WardenHolds, SafeIsMarked, PTL

(* A pod whose template carries the hash of the stored credential has installed that
   credential, whoever wrote Secret and Deployment in whatever order. *)
THEOREM HashedIsLoaded == Spec => []StoredIsLoaded
BY WardenHolds, SafeIsLoaded, PTL

(* `confirm_installed` answers for a replaced credential only while a pod serves that has
   installed it or a later one. *)
THEOREM ConfirmedServes == Spec => []ConfirmHonest
BY WardenHolds, SafeIsHonest, PTL

--------------------------------------------------------------------------------
(* The roll *)

\* Nobody tears a tenant down.
Lasting == Ops \cap {"delete", "sweep"} = {}

\* The roll has put the tenant on render r, and it still has exactly that workload.
On(t, r) == /\ Exists(t) /\ dep[t].rolled /\ dep[t].tmpl.render = r
            /\ dep[t].tmpl.hash = secret[t] /\ ~Cancelled(t)

\* An account that is closed, or has never had a credential.
Dead(t) == Cancelled(t) \/ secret[t]["cred"] = 0

\* Only the roll's process converges, and it is either reading the fleet or in a call.
RollerFine ==
  /\ unread \subseteq Tenants /\ queue \subseteq Tenants
  /\ \A c \in Callers \ {Timer} : call[c].op \in Ops \cup {"none"}
  /\ call[Timer].op \in {"none", "converge"}
  /\ rolling => call[Timer] = NoCall
  /\ began \in Nat

\* A pod that is not stopping is of the Deployment as it stands, and one that the roll has
\* put on a bad render does not serve.
DepFine(t) ==
  /\ \A slot \in Slots : dep[t].tmpl.hash[slot] <= spent.values
  /\ dep[t].rolled => dep[t].stands
  /\ \A p \in pod[t] : p.owned /\ p.phase # "dying" =>
       /\ Exists(t) /\ p.tmpl = dep[t].tmpl
       /\ p.phase = "ready" /\ p.tmpl.render \in BadRenders => ~dep[t].rolled

\* A value that has yet to be stored is nowhere.
NewFor(c, slot) ==
  /\ call[c].seen[slot] > 0
  /\ \A t \in Tenants : /\ dep[t].tmpl.hash[slot] # call[c].seen[slot]
                        /\ secret[t][slot] # call[c].seen[slot]
  /\ \A d \in Callers \ {c} : call[d].seen[slot] # call[c].seen[slot]
Unseen == \A c \in Callers, slot \in Slots : Ahead(c, slot) => NewFor(c, slot)

LifeFine(t) ==
  /\ ident[t] = "none" => secret[t]["cred"] = 0
  /\ Lasting => ~closed[t]

\* A janitor past its question, a teardown past its marker and an admitted re-consent are
\* at a tenant of which what they found still holds.
Backed(t) == secret[t]["cred"] > 0 \/ (Lasting /\ ident[t] # "none")
CallLife(c) ==
  LET r == call[c]
  IN /\ r.op = "sweep" => At(c, "doomed") \/ secret[r.tenant]["cred"] = 0
     /\ r.op = "delete" => At(c, "mark") \/ Dead(r.tenant)
     /\ r.op \in CredOps => \/ r.todo = <<"identity", "admit">>
                            \/ ~Lasting /\ r.todo = <<"admit">>
                            \/ Backed(r.tenant)

\* At most one tenant is on a bad render; while a tick of that render reads the fleet, the
\* tenant is yet to be read, and while such a tick's call runs it is the call's.
OneBad ==
  /\ \A r \in BadRenders : \A t, u \in Tenants : On(t, r) /\ On(u, r) => t = u
  /\ rolling /\ began \in BadRenders => \A u \in Tenants : On(u, began) => u \in unread
  /\ call[Timer] # NoCall /\ call[Timer].render \in BadRenders =>
       \A u \in Tenants : On(u, call[Timer].render) => u = call[Timer].tenant

\* While no key is changed, what is stored stays what it was; the roll's call has read it,
\* or will before it renders, and what the roll has put up was rendered with it.
HasRead == call[Timer].seen = secret[call[Timer].tenant]
WillRead == \E i \in 1..Len(call[Timer].todo) :
              /\ call[Timer].todo[i] = "read"
              /\ \A j \in 1..i : call[Timer].todo[j] # "deploy"
SameKeys ==
  /\ \A t \in Tenants : secret[t]["llm"] = 0 /\ secret[t]["share"] = 0
  /\ \A t \in Tenants : dep[t].rolled => dep[t].tmpl.hash = secret[t]
  /\ \A c \in Callers : Brings(call[c].op) = {}
  /\ call[Timer] = NoCall \/ HasRead \/ WillRead
Calm == spent.values >= 1 /\ (spent.values = 1 => SameKeys)

FleetInv == /\ RollerFine /\ Unseen /\ OneBad /\ Calm
            /\ \A t \in Tenants : DepFine(t) /\ LifeFine(t)
            /\ \A c \in Callers : CallLife(c)

--------------------------------------------------------------------------------
\* What a request may do to the objects.
LEMMA RequestFrames ==
  ASSUME NEW c \in Callers, NEW t, Request(c, t)
  PROVE  \/ UNCHANGED <<ident, closed, secret, dep, pod>>
         \/ Mint(c, t) \/ Mark(c, t) \/ Unmark(c, t) \/ Collect(c, t) \/ Deploy(c, t)
         \/ \E slot \in Slots : At(c, PutOf(slot)) /\ Put(c, t, slot)
         \/ \E slot \in {"llm", "share"} : /\ At(c, "dropShare") \/ At(c, "dropLlm")
                                          /\ Drop(c, t, slot)
         \/ Undeploy(t)
<1>1. CASE \/ ReadIdentity(c, t) \/ Admit(c, t) \/ ReadHashes(c, t) \/ Present(c, t) \/ Live(c, t)
           \/ PodsGone(c, t) \/ Absent(c, t) \/ Rollout(c, t) \/ ReadyPod(c, t) \/ Confirm(c, t)
           \/ Pair(c) \/ Doomed(c, t) \/ TimesOut(c)
  <2>1. Reading
    BY <1>1 DEF ReadIdentity, Admit, ReadHashes, Present, Live, PodsGone, Absent, Rollout,
                ReadyPod, Confirm, Pair, Doomed, TimesOut
  <2> QED BY <2>1 DEF Reading
<1>2. CASE Write(c, t)
  BY <1>2 DEF Write, Slots, PutOf
<1>3. CASE DropSecret(c, t)
  BY <1>3 DEF DropSecret
<1>4. CASE Apply(c, t) \/ Remove(c, t) \/ Delete(c, t)
  BY <1>4 DEF Apply, Remove, Delete
<1> QED BY <1>1, <1>2, <1>3, <1>4 DEF Request

\* What a request may do to the hashes its call works with.
LEMMA RequestSeen ==
  ASSUME TypeOK, NEW c \in Callers, NEW t \in Tenants, call[c].tenant = t, Request(c, t)
  PROVE  \/ call'[c] = NoCall
         \/ \A slot \in Slots : \/ call'[c].seen[slot] = call[c].seen[slot]
                                \/ /\ slot \notin Brings(call[c].op)
                                   /\ call'[c].seen[slot] = secret[t][slot]
<1>1. call \in [Callers -> CallRows] /\ call[c] \in CallRows
  BY DEF TypeOK
<1>2. ASSUME Ends(c) \/ Steps(c) \/ Done(c)
      PROVE  call'[c] = NoCall \/ call'[c].seen = call[c].seen
  BY <1>1, <1>2 DEF Ends, Steps, Done, Goes, CallRows
<1>3. CASE ReadHashes(c, t)
  <2> DEFINE own == IF call[c].op = "unshare" THEN {"share"} ELSE Brings(call[c].op)
             seen == [s \in Slots |-> IF s \in own THEN call[c].seen[s] ELSE secret[t][s]]
  <2>1. CASE Ends(c)
    BY <1>1, <2>1 DEF Ends
  <2>2. CASE Goes(c, [call[c] EXCEPT !.seen = seen])
    <3>1. call'[c].seen = seen
      <4> HIDE DEF seen
      <4> QED BY <1>1, <2>2 DEF Goes, CallRows
    <3>2. Brings("unshare") = {}
      BY DEF Brings, Slots
    <3> QED BY <3>1, <3>2
  <2>3. Ends(c) \/ Goes(c, [call[c] EXCEPT !.seen = seen])
    <3>1. call[c].seen \in Hashes
      BY <1>1 DEF CallRows
    <3> QED BY <1>3, <3>1 DEF ReadHashes, Hashes
  <2> QED BY <2>1, <2>2, <2>3
<1>4. CASE ReadIdentity(c, t)
  BY <1>1, <1>2, <1>4 DEF ReadIdentity, Goes, CallRows
<1>5. CASE Admit(c, t)
  BY <1>1, <1>2, <1>5 DEF Admit, CallRows
<1>6. CASE Live(c, t)
  BY <1>1, <1>2, <1>6 DEF Live, CallRows
<1>7. CASE Write(c, t) \/ DropSecret(c, t)
  BY <1>2, <1>7 DEF Write, Put, DropSecret, Drop
<1>8. CASE \/ Present(c, t) \/ Apply(c, t) \/ Deploy(c, t) \/ Remove(c, t)
           \/ PodsGone(c, t) \/ Absent(c, t) \/ Rollout(c, t) \/ ReadyPod(c, t)
  BY <1>2, <1>8 DEF Present, Apply, Deploy, Remove, PodsGone, Absent, Rollout, ReadyPod
<1>9. CASE \/ Mint(c, t) \/ Mark(c, t) \/ Unmark(c, t) \/ Confirm(c, t) \/ Pair(c) \/ Delete(c, t)
           \/ Doomed(c, t) \/ Collect(c, t) \/ TimesOut(c)
  BY <1>2, <1>9 DEF Mint, Mark, Unmark, Confirm, Pair, Delete, Doomed, Collect, TimesOut
<1> QED BY <1>2, <1>3, <1>4, <1>5, <1>6, <1>7, <1>8, <1>9 DEF Request

\* What a request leaves of its call's script.
LEMMA RequestTodo ==
  ASSUME TypeOK, NEW c \in Callers, NEW t \in Tenants, call[c].tenant = t, Request(c, t)
  PROVE  \/ call'[c] = NoCall
         \/ call'[c].todo = Tail(call[c].todo) /\ call[c].todo # <<>>
         \/ (At(c, "admit") /\ Admit(c, t)) \/ At(c, "live")
<1>1. call \in [Callers -> CallRows] /\ call[c] \in CallRows
  BY DEF TypeOK
<1>2. ASSUME Ends(c) \/ Steps(c) \/ Done(c)
      PROVE  call'[c] = NoCall \/ call'[c].todo = Tail(call[c].todo)
  <2>1. CASE Ends(c)
    BY <1>1, <2>1 DEF Ends
  <2>2. CASE Steps(c)
    <3>1. call'[c] = [call[c] EXCEPT !.todo = Tail(@)]
      BY <1>1, <2>2 DEF Steps, Goes
    <3> QED BY <1>1, <3>1 DEF CallRows
  <2> QED BY <1>2, <2>1, <2>2 DEF Done
<1>3. CASE ReadHashes(c, t) \/ ReadIdentity(c, t)
  <2>1. \A r \in CallRows : Goes(c, r) => call'[c].todo = Tail(r.todo)
    BY <1>1 DEF Goes, CallRows
  <2>2. call[c].seen \in Hashes /\ secret[t] \in Hashes /\ closed[t] \in BOOLEAN
    BY <1>1 DEF CallRows, TypeOK
  <2>3. CASE ReadHashes(c, t)
    <3> DEFINE own == IF call[c].op = "unshare" THEN {"share"} ELSE Brings(call[c].op)
               seen == [s \in Slots |-> IF s \in own THEN call[c].seen[s] ELSE secret[t][s]]
    <3>1. Ends(c) \/ Goes(c, [call[c] EXCEPT !.seen = seen])
      BY <2>2, <2>3 DEF ReadHashes, Hashes
    <3>2. seen \in Hashes
      BY <2>2 DEF Hashes
    <3> HIDE DEF seen
    <3>3. [call[c] EXCEPT !.seen = seen] \in CallRows /\ [call[c] EXCEPT !.seen = seen].todo = call[c].todo
      BY <1>1, <3>2 DEF CallRows
    <3> QED BY <1>2, <2>1, <2>3, <3>1, <3>3 DEF ReadHashes, At
  <2>4. CASE ReadIdentity(c, t)
    <3>1. Ends(c) \/ Goes(c, [call[c] EXCEPT !.reopening = closed[t]])
      BY <2>4 DEF ReadIdentity
    <3>2. /\ [call[c] EXCEPT !.reopening = closed[t]] \in CallRows
          /\ [call[c] EXCEPT !.reopening = closed[t]].todo = call[c].todo
      BY <1>1, <2>2 DEF CallRows
    <3> QED BY <1>2, <2>1, <2>4, <3>1, <3>2 DEF ReadIdentity, At
  <2> QED BY <1>3, <2>3, <2>4
<1>4. CASE Admit(c, t) \/ Live(c, t)
  BY <1>4 DEF Admit, Live
<1>5. CASE Write(c, t) \/ DropSecret(c, t)
  BY <1>2, <1>5 DEF Write, Put, DropSecret, Drop, At
<1>6. CASE \/ Present(c, t) \/ Apply(c, t) \/ Deploy(c, t) \/ Remove(c, t)
           \/ PodsGone(c, t) \/ Absent(c, t) \/ Rollout(c, t) \/ ReadyPod(c, t)
  BY <1>2, <1>6 DEF Present, Apply, Deploy, Remove, PodsGone, Absent, Rollout, ReadyPod, At
<1>7. CASE \/ Mint(c, t) \/ Mark(c, t) \/ Unmark(c, t) \/ Confirm(c, t) \/ Pair(c) \/ Delete(c, t)
           \/ Doomed(c, t) \/ Collect(c, t) \/ TimesOut(c)
  BY <1>2, <1>7 DEF Mint, Mark, Unmark, Confirm, Pair, Delete, Doomed, Collect, TimesOut, At
<1> QED BY <1>3, <1>4, <1>5, <1>6, <1>7 DEF Request

\* A request of a converging call leaves the rest of its script, the hashes it has found
\* and the render of its process.
LEMMA RollerCall ==
  ASSUME TypeOK, NEW c \in Callers, NEW t \in Tenants, call[c].tenant = t,
         call[c].op = "converge", Request(c, t)
  PROVE  \/ call'[c] = NoCall
         \/ /\ call'[c].todo = Tail(call[c].todo) /\ call[c].todo # <<>>
            /\ call'[c].render = call[c].render
            /\ call'[c].seen = IF At(c, "read") THEN secret[t] ELSE call[c].seen
<1>1. call \in [Callers -> CallRows] /\ call[c] \in CallRows
  BY DEF TypeOK
<1>2. ASSUME NEW s \in CallRows, Goes(c, s)
      PROVE  /\ call'[c].todo = Tail(s.todo) /\ call'[c].render = s.render
             /\ call'[c].seen = s.seen
  <2>1. call'[c] = [s EXCEPT !.todo = Tail(@)]
    BY <1>1, <1>2 DEF Goes
  <2> QED BY <2>1 DEF CallRows
<1>3. ASSUME Ends(c) \/ Steps(c) \/ Done(c)
      PROVE  \/ call'[c] = NoCall
             \/ /\ call'[c].todo = Tail(call[c].todo) /\ call'[c].render = call[c].render
                /\ call'[c].seen = call[c].seen
  <2>1. CASE Ends(c)
    BY <1>1, <2>1 DEF Ends
  <2> QED BY <1>1, <1>2, <1>3, <2>1 DEF Done, Steps
<1>4. CASE ReadHashes(c, t)
  <2> DEFINE seen == [s \in Slots |-> secret[t][s]]
             row == [call[c] EXCEPT !.seen = seen]
  <2>1. seen = secret[t] /\ seen \in Hashes
    BY DEF TypeOK, Hashes
  <2>2. Brings("converge") = {}
    BY DEF Brings, Slots
  <2>3. At(c, "read") /\ (Ends(c) \/ Goes(c, [call[c] EXCEPT !.seen = seen]))
    <3>1. \A own : own = {} => [s \in Slots |-> IF s \in own THEN call[c].seen[s] ELSE secret[t][s]] = seen
      OBVIOUS
    <3> QED BY <1>4, <2>2, <3>1 DEF ReadHashes
  <2> HIDE DEF seen
  <2>4. row \in CallRows /\ row.todo = call[c].todo /\ row.render = call[c].render /\ row.seen = seen
    BY <1>1, <2>1 DEF CallRows
  <2>5. Ends(c) \/ Goes(c, row)
    BY <2>3
  <2> HIDE DEF row
  <2>6. Ends(c) => call'[c] = NoCall
    BY <1>1 DEF Ends
  <2> QED BY <1>2, <2>1, <2>3, <2>4, <2>5, <2>6 DEF At
<1>5. CASE ReadIdentity(c, t)
  <2> DEFINE row == [call[c] EXCEPT !.reopening = closed[t]]
  <2>1. row \in CallRows /\ row.todo = call[c].todo /\ row.render = call[c].render /\ row.seen = call[c].seen
    BY <1>1 DEF CallRows, TypeOK
  <2>2. At(c, "identity") /\ (Ends(c) \/ Goes(c, row))
    BY <1>5 DEF ReadIdentity
  <2> HIDE DEF row
  <2> QED BY <1>2, <1>3, <2>1, <2>2 DEF At
<1>6. CASE Admit(c, t) \/ Live(c, t)
  BY <1>3, <1>6 DEF Admit, Live, At
<1>7. CASE Write(c, t) \/ DropSecret(c, t)
  BY <1>3, <1>7 DEF Write, Put, DropSecret, Drop, At
<1>8. CASE \/ Present(c, t) \/ Deploy(c, t) \/ Remove(c, t)
           \/ PodsGone(c, t) \/ Absent(c, t) \/ Rollout(c, t) \/ ReadyPod(c, t)
  BY <1>3, <1>8 DEF Present, Deploy, Remove, PodsGone, Absent, Rollout, ReadyPod, At
<1>9. CASE Apply(c, t)
  BY <1>3, <1>9 DEF Apply, At, Kinds
<1>10. CASE \/ Mint(c, t) \/ Mark(c, t) \/ Unmark(c, t) \/ Confirm(c, t) \/ Pair(c)
            \/ Doomed(c, t) \/ Collect(c, t) \/ TimesOut(c)
  BY <1>3, <1>10 DEF Mint, Mark, Unmark, Confirm, Pair, Doomed, Collect, TimesOut, At
<1>11. CASE Delete(c, t)
  BY <1>3, <1>11 DEF Delete, At
<1> QED BY <1>4, <1>5, <1>6, <1>7, <1>8, <1>9, <1>10, <1>11 DEF Request

\* The request a call is at is one its script may have.
LEMMA HeadFits ==
  ASSUME TypeOK, NEW c \in Callers, CallFine(c), NEW step, At(c, step)
  PROVE  /\ Fits(call[c].op, step) /\ Len(call[c].todo) \in Nat
         /\ 1 \in 1..Len(call[c].todo) /\ call[c].todo[1] = step /\ call[c] # NoCall
         /\ call[c].op \in Named /\ call[c].tenant \in Tenants
         /\ \A j \in 2..Len(call[c].todo) : ~Forbidden(call[c].op, step, call[c].todo[j])
<1>1. call[c].todo \in Seq(Requests) /\ call[c].todo # <<>> /\ Head(call[c].todo) = step
  BY DEF TypeOK, CallRows, At
<1>2. /\ Len(call[c].todo) \in Nat /\ Len(call[c].todo) > 0
      /\ Head(call[c].todo) = call[c].todo[1]
  BY <1>1, EmptySeq
<1>3. call[c] # NoCall
  <2>1. NoCall.todo = <<>>
    BY DEF NoCall
  <2> QED BY <1>1, <2>1
<1>4. 1 \in 1..Len(call[c].todo) /\ \A j \in 2..Len(call[c].todo) : j \in 1..Len(call[c].todo) /\ 1 < j
  BY <1>2
<1> QED BY <1>1, <1>2, <1>3, <1>4 DEF CallFine, Shaped

\* A call that renders has stored what it brings.
LEMMA RendersLast ==
  ASSUME TypeOK, NEW c \in Callers, CallFine(c), At(c, "deploy"), NEW slot \in Slots
  PROVE  ~Ahead(c, slot)
<1> SUFFICES ASSUME Ahead(c, slot) PROVE FALSE
  OBVIOUS
<1>1. /\ Len(call[c].todo) \in Nat /\ call[c].todo[1] = "deploy"
      /\ \A j \in 2..Len(call[c].todo) : ~Forbidden(call[c].op, "deploy", call[c].todo[j])
  BY HeadFits
<1>2. PICK i \in 1..Len(call[c].todo) : \/ call[c].todo[i] = PutOf(slot)
                                        \/ slot = "cred" /\ call[c].todo[i] = "admit"
  BY DEF Ahead
<1>3. PutOf(slot) \in Puts /\ PutOf(slot) # "deploy"
  BY DEF PutOf, Puts, Slots
<1>4. i # 1
  BY <1>1, <1>2, <1>3
<1>5. i \in 2..Len(call[c].todo)
  BY <1>1, <1>4
<1>6. CASE call[c].todo[i] = PutOf(slot)
  BY <1>1, <1>3, <1>5, <1>6 DEF Forbidden
<1>7. CASE slot = "cred" /\ call[c].todo[i] = "admit"
  <2>1. call[c].op \in CredOps
    BY <1>7 DEF Ahead, Brings, CredOps, Slots
  <2> QED BY <1>1, <1>5, <1>7, <2>1 DEF Forbidden
<1> QED BY <1>2, <1>6, <1>7

\* A call that is ahead of a value after a request was so before it, and has not stored it.
LEMMA AheadStays ==
  ASSUME WardenSafe, NEW c \in Callers, NEW t \in Tenants, call[c].tenant = t, Request(c, t),
         NEW slot \in Slots, Ahead(c, slot)'
  PROVE  Ahead(c, slot) /\ call'[c].seen[slot] = call[c].seen[slot] /\ ~At(c, PutOf(slot))
<1>1. TypeOK /\ CallFine(c) /\ TenantFine(t) /\ call[c] # NoCall /\ call[c] \in CallRows
  BY DEF WardenSafe, WardenInv, TypeOK, Request
<1>2. call'[c] # NoCall
  <2>1. Brings(NoCall.op) = {}
    BY DEF NoCall, Brings, Slots
  <2> QED BY <2>1 DEF Ahead
<1>3. GoesOn(c, t)
  BY <1>1, <1>2, RequestMoves
<1>4. CASE slot = "cred"
  BY <1>3, <1>4 DEF GoesOn, PutOf
<1>5. CASE slot # "cred"
  <2>1. call'[c].op = call[c].op /\ slot \in Brings(call[c].op) /\ call[c].op = slot
    BY <1>3, <1>5 DEF GoesOn, Ahead, Brings, Slots
  <2>2. call[c].op \in {"llm", "share"} /\ call[c].op \notin CredOps
    BY <1>5, <2>1 DEF Slots, CredOps
  <2>3. ~At(c, "admit") /\ ~At(c, "live")
    BY <1>1, <2>2, HeadFits DEF Fits
  <2>4. call'[c].todo = Tail(call[c].todo) /\ call[c].todo # <<>>
    BY <1>1, <1>2, <2>3, RequestTodo
  <2>5. call'[c].seen[slot] = call[c].seen[slot]
    BY <1>1, <1>2, <2>1, RequestSeen
  <2>6. PICK i \in 1..Len(Tail(call[c].todo)) : Tail(call[c].todo)[i] = PutOf(slot)
    BY <1>5, <2>4 DEF Ahead
  <2>7. /\ Len(call[c].todo) \in Nat /\ Len(call[c].todo) > 0
        /\ i + 1 \in 1..Len(call[c].todo) /\ Tail(call[c].todo)[i] = call[c].todo[i + 1]
    <3>1. call[c].todo \in Seq(Requests)
      BY <1>1 DEF CallRows
    <3> HIDE DEF Requests
    <3> QED BY <2>4, <2>6, <3>1
  <2>8. Ahead(c, slot)
    BY <2>1, <2>6, <2>7 DEF Ahead
  <2>9. ASSUME At(c, PutOf(slot)) PROVE FALSE
    <3>1. ~Forbidden(call[c].op, PutOf(slot), call[c].todo[i + 1])
      BY <1>1, <2>7, <2>9, HeadFits
    <3>2. PutOf(slot) \in Puts
      BY DEF PutOf, Puts, Slots
    <3> QED BY <2>6, <2>7, <3>1, <3>2 DEF Forbidden
  <2> QED BY <2>5, <2>8, <2>9
<1> QED BY <1>4, <1>5

\* What a request may do to the values that are stored and rendered.
LEMMA RequestValues ==
  ASSUME TypeOK, NEW c \in Callers, NEW t \in Tenants, call[c].tenant = t, Request(c, t),
         NEW u \in Tenants, NEW slot \in Slots
  PROVE  /\ \/ dep'[u].tmpl.hash[slot] \in {dep[u].tmpl.hash[slot], 0}
            \/ At(c, "deploy") /\ u = t /\ dep'[u].tmpl.hash[slot] = call[c].seen[slot]
         /\ \/ secret'[u][slot] \in {secret[u][slot], 0}
            \/ At(c, PutOf(slot)) /\ u = t /\ secret'[u][slot] = call[c].seen[slot]
<1>1. /\ dep \in [Tenants -> DepRows] /\ secret \in [Tenants -> Hashes]
      /\ call[c] \in CallRows
  BY DEF TypeOK
<1>2. CASE UNCHANGED <<ident, closed, secret, dep, pod>>
  BY <1>2
<1>3. CASE Mint(c, t) \/ Mark(c, t) \/ Unmark(c, t) \/ Collect(c, t)
  BY <1>3 DEF Mint, Mark, Unmark, Collect
<1>4. CASE Deploy(c, t)
  <2>1. dep'[t].tmpl.hash = call[c].seen /\ (u # t => dep'[u] = dep[u]) /\ secret' = secret
    BY <1>1, <1>4 DEF Deploy, record
  <2> QED BY <1>4, <2>1 DEF Deploy
<1>5. ASSUME NEW s \in Slots, At(c, PutOf(s)), Put(c, t, s)
      PROVE  /\ dep' = dep
             /\ secret'[u][slot] = IF u = t /\ slot = s THEN call[c].seen[s] ELSE secret[u][slot]
  BY <1>1, <1>5 DEF Put, Hashes
<1>6. ASSUME NEW s \in {"llm", "share"}, Drop(c, t, s)
      PROVE  dep' = dep /\ secret'[u][slot] \in {secret[u][slot], 0}
  BY <1>1, <1>6 DEF Drop, Hashes
<1>7. CASE Undeploy(t)
  <2>1. NoDep.tmpl.hash[slot] = 0
    BY DEF NoDep
  <2>2. dep'[u] \in {dep[u], NoDep} /\ secret' = secret
    <3> HIDE DEF NoDep
    <3> QED BY <1>1, <1>7 DEF Undeploy, record
  <2> QED BY <2>1, <2>2
<1> QED BY <1>2, <1>3, <1>4, <1>5, <1>6, <1>7, RequestFrames

\* A request leaves the values that have yet to be stored where they are: nowhere.
LEMMA RequestUnseen ==
  ASSUME WardenSafe, Unseen, NEW c \in Callers, NEW t \in Tenants, call[c].tenant = t,
         Request(c, t)
  PROVE  Unseen'
<1>1. /\ TypeOK /\ CallFine(c) /\ TenantFine(t) /\ call[c] # NoCall
      /\ \A d \in Callers, s \in Slots : call[d].seen[s] \in Nat
  BY DEF WardenSafe, WardenInv, TypeOK, CallRows, Hashes, Request
<1>2. \A d \in Callers \ {c} : call'[d] = call[d]
  BY <1>1, RequestMoves DEF OthersAlone
<1> SUFFICES ASSUME NEW d \in Callers, NEW slot \in Slots, Ahead(d, slot)'
             PROVE  NewFor(d, slot)'
  BY DEF Unseen
<1>3. /\ Ahead(d, slot) /\ call'[d].seen[slot] = call[d].seen[slot]
      /\ d = c => ~At(c, PutOf(slot)) /\ ~At(c, "deploy")
  <2>1. CASE d = c
    BY <1>1, <2>1, AheadStays, RendersLast
  <2>2. CASE d # c
    BY <1>2, <2>2 DEF Ahead
  <2> QED BY <2>1, <2>2
<1>4. /\ NewFor(d, slot)
      /\ \A e \in Callers \ {d} : call[e].seen[slot] # call[d].seen[slot]
  BY <1>3 DEF Unseen, NewFor
<1>5. ASSUME NEW u \in Tenants
      PROVE  /\ dep'[u].tmpl.hash[slot] # call[d].seen[slot]
             /\ secret'[u][slot] # call[d].seen[slot]
  BY <1>1, <1>3, <1>4, RequestValues DEF NewFor
<1>6. ASSUME NEW e \in Callers \ {d} PROVE call'[e].seen[slot] # call[d].seen[slot]
  <2>1. CASE e # c
    BY <1>2, <1>4, <2>1
  <2>2. CASE e = c
    <3>1. NoCall.seen[slot] = 0
      BY DEF NoCall
    <3>2. call'[c].seen[slot] \in {0, call[c].seen[slot], secret[t][slot]}
      BY <1>1, <3>1, RequestSeen
    <3> QED BY <1>4, <2>2, <3>2 DEF NewFor
  <2> QED BY <2>1, <2>2
<1> QED BY <1>3, <1>4, <1>5, <1>6 DEF NewFor

\* A request leaves the pods that are not stopping to their Deployment.
LEMMA RequestDeps ==
  ASSUME WardenSafe, RollerFine, \A u \in Tenants : DepFine(u),
         NEW c \in Callers, NEW t \in Tenants, call[c].tenant = t, Request(c, t)
  PROVE  \A u \in Tenants : DepFine(u)'
<1>1. /\ TypeOK /\ CallFine(c) /\ call[c] # NoCall /\ call[c] \in CallRows
      /\ dep \in [Tenants -> DepRows] /\ pod \in [Tenants -> SUBSET PodRows] /\ render \in Nat
      /\ spent.values \in Nat /\ \A s \in Slots : call[c].seen[s] <= spent.values
  BY DEF WardenSafe, WardenInv, TypeOK, SpentRows, CallFine, Request
<1>2. /\ call' \in [Callers -> CallRows] /\ UNCHANGED <<spent, render>>
  <2>1. call' \in [Callers -> CallRows]
    BY <1>1, RequestMoves DEF WardenSafe, WardenInv, OthersAlone
  <2> QED BY <1>1, <2>1, RequestTypes
<1>3. ASSUME NEW u \in Tenants, NEW s \in Slots PROVE dep'[u].tmpl.hash[s] <= spent'.values
  <2>1. dep[u].tmpl.hash[s] <= spent.values
    BY DEF DepFine
  <2> QED BY <1>1, <1>2, <2>1, RequestValues
<1> SUFFICES ASSUME NEW u \in Tenants
             PROVE  /\ dep'[u].rolled => dep'[u].stands
                    /\ \A p \in pod'[u] : p.owned /\ p.phase # "dying" =>
                         /\ dep'[u].stands /\ p.tmpl = dep'[u].tmpl
                         /\ p.phase = "ready" /\ p.tmpl.render \in BadRenders => ~dep'[u].rolled
  BY <1>2, <1>3 DEF DepFine, Exists
<1>4. DepFine(u)
  OBVIOUS
<1>5. CASE dep'[u] = dep[u] /\ pod'[u] = pod[u]
  BY <1>4, <1>5 DEF DepFine, Exists
<1>6. CASE Deploy(c, t) /\ u = t
  <2> DEFINE tmpl == [hash |-> call[c].seen, render |-> call[c].render]
  <2>1. /\ dep'[t].tmpl = tmpl /\ dep'[t].stands
        /\ dep'[t].rolled = IF dep[t].tmpl = tmpl THEN dep[t].rolled ELSE call[c].op = "converge"
        /\ pod'[t] = Condemned(pod[t], tmpl)
    BY <1>1, <1>6 DEF Deploy
  <2> HIDE DEF tmpl
  <2>3. ASSUME NEW p \in pod'[t], p.owned, p.phase # "dying"
        PROVE  p \in pod[t] /\ p.tmpl = tmpl
    <3>1. PICK q \in pod[t] : p = IF q.owned /\ q.tmpl # tmpl THEN [q EXCEPT !.phase = "dying"] ELSE q
      BY <2>1 DEF Condemned
    <3>2. q \in PodRows
      BY <1>1
    <3>3. [q EXCEPT !.phase = "dying"].phase = "dying"
      BY <3>2 DEF PodRows
    <3> QED BY <2>3, <3>1, <3>3
  <2>4. ASSUME NEW p \in pod'[t], p.owned, p.phase # "dying"
        PROVE  /\ p.tmpl = tmpl /\ dep[t].tmpl = tmpl
               /\ p.phase = "ready" /\ p.tmpl.render \in BadRenders => ~dep[t].rolled
    BY <1>4, <1>6, <2>3, <2>4 DEF DepFine
  <2> QED BY <1>1, <1>6, <2>1, <2>4
<1>7. CASE Undeploy(t) /\ u = t
  <2> DEFINE none == NoDep
  <2>1. ~none.rolled
    BY DEF NoDep
  <2>2. dep'[t] = none
    <3> HIDE DEF NoDep
    <3> QED BY <1>1, <1>7 DEF Undeploy
  <2> HIDE DEF none
  <2>3. ASSUME NEW p \in pod'[t] PROVE ~p.owned
    <3>1. PICK q \in pod[t] : p = [q EXCEPT !.phase = "dying", !.owned = FALSE]
      BY <1>1, <1>7 DEF Undeploy
    <3> QED BY <1>1, <3>1 DEF PodRows
  <2> QED BY <1>1, <1>7, <2>1, <2>2, <2>3
<1>8. \/ dep'[u] = dep[u] /\ pod'[u] = pod[u]
      \/ Deploy(c, t) /\ u = t
      \/ Undeploy(t) /\ u = t
  <2>1. CASE Deploy(c, t)
    BY <1>1, <2>1 DEF Deploy
  <2>2. CASE Undeploy(t)
    BY <1>1, <2>2 DEF Undeploy
  <2> QED BY <2>1, <2>2, RequestFrames DEF Mint, Mark, Unmark, Collect, Put, Drop
<1> QED BY <1>5, <1>6, <1>7, <1>8

\* A tenant with a Deployment has a credential.
LEMMA ExistsBacked ==
  ASSUME WardenSafe, NEW t \in Tenants
  PROVE  /\ secret[t]["cred"] \in Nat
         /\ Exists(t) => secret[t]["cred"] > 0 /\ dep[t].tmpl.hash["cred"] > 0
<1>1. TenantFine(t) /\ stored[t] \in Seq(Nat) /\ secret[t] \in Hashes
  BY DEF WardenSafe, WardenInv, TypeOK
<1>2. \A v \in Known(t) : v > 0
  BY <1>1 DEF TenantFine
<1>3. secret[t]["cred"] \in Nat
  BY <1>1 DEF Hashes, Slots
<1>4. ASSUME Exists(t) PROVE secret[t]["cred"] > 0 /\ dep[t].tmpl.hash["cred"] > 0
  <2>1. dep[t].tmpl.hash["cred"] \in Known(t)
    BY <1>1, <1>4 DEF TenantFine
  <2>2. Len(stored[t]) \in Nat /\ Len(stored[t]) # 0
    BY <1>1, <2>1 DEF Known
  <2>3. secret[t]["cred"] = stored[t][Len(stored[t])]
    BY <1>1, <2>2 DEF TenantFine
  <2>4. secret[t]["cred"] \in Known(t)
    BY <2>2, <2>3 DEF Known
  <2> QED BY <1>2, <2>1, <2>4
<1> QED BY <1>3, <1>4

\* A call makes the request it is at.
LEMMA RequestAt ==
  ASSUME NEW c \in Callers, NEW t, Request(c, t)
  PROVE  /\ At(c, "doomed") => Doomed(c, t)
         /\ At(c, "mark") => Mark(c, t)
         /\ At(c, "identity") => ReadIdentity(c, t)
         /\ At(c, "admit") => Admit(c, t)
<1> DEFINE head == Head(call[c].todo)
<1>1. Mint(c, t) \/ Unmark(c, t) \/ Collect(c, t) \/ Pair(c) \/ Confirm(c, t) =>
        head \in {"mint", "unmark", "collect", "pair", "confirm"}
  BY DEF Mint, Unmark, Collect, Pair, Confirm, At
<1>2. Write(c, t) \/ DropSecret(c, t) => head \in Puts \cup {"dropShare", "dropLlm"}
  BY DEF Write, DropSecret, At, Puts
<1>3. ReadHashes(c, t) \/ Present(c, t) \/ Deploy(c, t) \/ Live(c, t) =>
        head \in {"read", "present", "deploy", "live"}
  BY DEF ReadHashes, Present, Deploy, Live, At
<1>4. Apply(c, t) \/ Remove(c, t) \/ PodsGone(c, t) \/ Absent(c, t) =>
        head \in Kinds \cup {"remove", "gone", "absent"}
  BY DEF Apply, Remove, PodsGone, Absent, At
<1>5. Rollout(c, t) \/ ReadyPod(c, t) \/ TimesOut(c) => head \in {"rollout", "ready", "gone"}
  BY DEF Rollout, ReadyPod, TimesOut, At
<1>6. Delete(c, t) => head \in {"dropIngress", "dropService", "dropPolicy", "dropDeploy"}
  BY DEF Delete, At
<1>7. /\ Doomed(c, t) => head = "doomed"
      /\ Mark(c, t) => head = "mark"
      /\ ReadIdentity(c, t) => head = "identity"
      /\ Admit(c, t) => head = "admit"
  BY DEF Doomed, Mark, ReadIdentity, Admit, At
<1>8. \A step : At(c, step) => head = step
  BY DEF At
<1>9. \A step \in {"doomed", "mark", "identity", "admit"} :
        step \notin Puts \cup Kinds \cup {"dropShare", "dropLlm"}
  BY DEF Puts, Kinds
<1> HIDE DEF head
<1> QED BY <1>1, <1>2, <1>3, <1>4, <1>5, <1>6, <1>7, <1>8, <1>9 DEF Request

\* A request that stores a credential does so at a tenant that has one, or that nobody
\* tears down; no other changes the credential.
LEMMA CredKept ==
  ASSUME WardenSafe, NEW c \in Callers, CallLife(c), NEW t \in Tenants, call[c].tenant = t,
         Request(c, t)
  PROVE  \/ \A u \in Tenants : secret'[u]["cred"] = secret[u]["cred"]
         \/ /\ Backed(t) /\ secret'[t]["cred"] > 0 /\ UNCHANGED <<ident, closed, dep>>
            /\ \A u \in Tenants \ {t} : secret'[u] = secret[u]
<1>1. TypeOK /\ CallFine(c) /\ secret \in [Tenants -> Hashes]
  BY DEF WardenSafe, WardenInv, TypeOK
<1>2. CASE At(c, "putCred") /\ Put(c, t, "cred")
  <2>1. /\ call[c].op \in CredOps /\ call[c].op \in Named
        /\ 1 \in 1..Len(call[c].todo) /\ call[c].todo[1] = "putCred"
    <3>1. /\ Fits(call[c].op, "putCred") /\ call[c].op \in Named
          /\ 1 \in 1..Len(call[c].todo) /\ call[c].todo[1] = "putCred"
      BY <1>1, <1>2, HeadFits
    <3>2. "cred" \in Brings(call[c].op)
      BY <3>1 DEF Fits, PutOf, Slots
    <3> QED BY <3>1, <3>2 DEF Brings, CredOps, Named, Slots
  <2>2. Ahead(c, "cred")
    BY <2>1, AheadCred
  <2>3. call[c].seen["cred"] > 0
    BY <1>1, <2>2 DEF CallFine
  <2>4. Backed(t)
    <3>1. <<"identity", "admit">>[1] = "identity" /\ <<"admit">>[1] = "admit"
      OBVIOUS
    <3> QED BY <2>1, <3>1 DEF CallLife
  <2>5. /\ secret'[t]["cred"] = call[c].seen["cred"]
        /\ \A u \in Tenants \ {t} : secret'[u] = secret[u]
    BY <1>1, <1>2 DEF Put, Hashes, Slots
  <2> QED BY <1>2, <2>3, <2>4, <2>5 DEF Put
<1>3. ASSUME NEW s \in Slots, s # "cred", Put(c, t, s) \/ Drop(c, t, s)
      PROVE  \A u \in Tenants : secret'[u]["cred"] = secret[u]["cred"]
  BY <1>1, <1>3 DEF Put, Drop, Hashes, Slots
<1> QED BY <1>2, <1>3, RequestFrames DEF Mint, Mark, Unmark, Collect, Deploy, Undeploy, record,
                                         Slots, PutOf

\* Only calls that have been asked for are made, and the roll's.
LEMMA OpsAsked ==
  ASSUME RollerFine, NEW c \in Callers
  PROVE  call[c].op \in Ops \cup {"none", "converge"}
BY DEF RollerFine

\* What a request leaves of an identity and its marker.
LEMMA IdentKept ==
  ASSUME WardenSafe, NothingGivenBack, RollerFine, NEW c \in Callers, CallLife(c),
         NEW t \in Tenants, call[c].tenant = t, Request(c, t), NEW u \in Tenants, LifeFine(u)
  PROVE  /\ ident'[u] = "none" => ident[u] = "none" \/ (~Lasting /\ secret[u]["cred"] = 0)
         /\ ident[u] = "none" => ident'[u] = "none" \/ secret[u]["cred"] = 0
         /\ closed'[u] /\ ~closed[u] => ~Lasting
         /\ closed[u] => Cancelled(u)'
         /\ dep'[u] # dep[u] \/ secret'[u] # secret[u] => ident'[u] = ident[u] /\ closed'[u] = closed[u]
<1>1. /\ TypeOK /\ CallFine(c) /\ ident \in [Tenants -> {"none", "young", "old"}]
      /\ closed \in [Tenants -> BOOLEAN]
  BY DEF WardenSafe, WardenInv, TypeOK
<1>2. CASE Mint(c, t)
  BY <1>1, <1>2 DEF Mint, LifeFine, Cancelled
<1>3. CASE Mark(c, t)
  <2>1. call[c].op = "delete" /\ ~Lasting
    BY <1>1, <1>3, HeadFits, OpsAsked DEF Mark, Fits, Drops, Lasting
  <2> QED BY <1>1, <1>3, <2>1 DEF Mark, Cancelled
<1>4. CASE Unmark(c, t)
  <2>1. call[c].op = "credentials"
    BY <1>1, <1>4, HeadFits DEF Unmark, Fits
  <2>2. Lasting /\ ~closed[u]
    BY <2>1, OpsAsked DEF NothingGivenBack, Lasting, LifeFine
  <2> QED BY <1>1, <1>4, <2>2 DEF Unmark, Cancelled
<1>5. CASE Collect(c, t)
  <2>1. call[c].op = "sweep" /\ ~Lasting
    BY <1>1, <1>5, HeadFits, OpsAsked DEF Collect, Fits, Lasting
  <2>2. secret[t]["cred"] = 0
    BY <1>5, <2>1 DEF Collect, CallLife, At
  <2> QED BY <1>1, <1>5, <2>1, <2>2 DEF Collect, Cancelled
<1>6. CASE UNCHANGED <<ident, closed>>
  BY <1>6 DEF Cancelled
<1> QED BY <1>2, <1>3, <1>4, <1>5, <1>6, RequestFrames DEF Deploy, Put, Drop, Undeploy, record

\* What holds of a tenant's life after a request.
LEMMA LivesOn ==
  ASSUME WardenSafe, NothingGivenBack, RollerFine, NEW c \in Callers, CallLife(c),
         NEW t \in Tenants, call[c].tenant = t, Request(c, t), NEW u \in Tenants, LifeFine(u)
  PROVE  /\ LifeFine(u)' /\ (Backed(u) => Backed(u)')
         /\ ~Lasting => (Dead(u) => Dead(u)') /\ (secret[u]["cred"] = 0 => secret'[u]["cred"] = 0)
<1>1. /\ TypeOK /\ secret[u]["cred"] \in Nat
      /\ ident \in [Tenants -> {"none", "young", "old"}] /\ closed \in [Tenants -> BOOLEAN]
  BY ExistsBacked DEF WardenSafe, TypeOK
<1>2. /\ ident'[u] = "none" => ident[u] = "none" \/ (~Lasting /\ secret[u]["cred"] = 0)
      /\ ident[u] = "none" => ident'[u] = "none" \/ secret[u]["cred"] = 0
      /\ closed'[u] /\ ~closed[u] => ~Lasting
      /\ closed[u] => Cancelled(u)'
  BY IdentKept
<1>3. CASE secret'[u]["cred"] = secret[u]["cred"]
  BY <1>1, <1>2, <1>3 DEF LifeFine, Backed, Dead, Cancelled
<1>4. CASE Backed(u) /\ secret'[u]["cred"] > 0 /\ UNCHANGED <<ident, closed>>
  BY <1>1, <1>4 DEF LifeFine, Backed, Dead, Cancelled
<1>5. \/ secret'[u]["cred"] = secret[u]["cred"]
      \/ Backed(u) /\ secret'[u]["cred"] > 0 /\ UNCHANGED <<ident, closed>>
  BY CredKept
<1> QED BY <1>3, <1>4, <1>5

\* What the calls rely on holds after a request.
LEMMA RequestLives ==
  ASSUME WardenSafe, NothingGivenBack, RollerFine, \A d \in Callers : CallLife(d),
         \A u \in Tenants : LifeFine(u),
         NEW c \in Callers, NEW t \in Tenants, call[c].tenant = t, Request(c, t)
  PROVE  (\A u \in Tenants : LifeFine(u)') /\ \A d \in Callers : CallLife(d)'
<1>1. \A u \in Tenants : LifeFine(u)'
  BY LivesOn
<1>2. ASSUME NEW u \in Tenants
      PROVE  /\ Backed(u) => Backed(u)'
             /\ ~Lasting => (Dead(u) => Dead(u)') /\ (secret[u]["cred"] = 0 => secret'[u]["cred"] = 0)
  BY LivesOn
<1>3. ASSUME NEW d \in Callers
      PROVE  /\ call[d].op \in {"sweep", "delete"} => ~Lasting
             /\ call[d].op = "credentials" => Lasting
             /\ call[d] = NoCall \/ call[d].tenant \in Tenants
             /\ call[d] = NoCall => call[d].op = "none"
  <2>1. call[d].op \in Ops \cup {"none", "converge"} /\ CallFine(d)
    BY OpsAsked DEF WardenSafe, WardenInv
  <2> QED BY <2>1 DEF Lasting, NothingGivenBack, CallFine, NoCall
<1>4. /\ TypeOK /\ CallFine(c) /\ TenantFine(t) /\ call[c] # NoCall /\ call[c] \in CallRows
      /\ OthersAlone(c) /\ (call'[c] = NoCall \/ GoesOn(c, t))
  BY RequestMoves DEF WardenSafe, WardenInv, TypeOK, Request
<1>5. "none" \notin CredOps \cup {"sweep", "delete"}
  BY DEF CredOps
<1>6. ASSUME NEW d \in Callers \ {c} PROVE CallLife(d)'
  <2>1. call'[d] = call[d] /\ CallLife(d)
    BY <1>4 DEF OthersAlone
  <2>2. At(d, "doomed")' = At(d, "doomed") /\ At(d, "mark")' = At(d, "mark")
    BY <2>1 DEF At
  <2>3. CASE call[d] = NoCall
    BY <1>3, <1>5, <2>1, <2>3 DEF CallLife
  <2>4. CASE call[d].tenant \in Tenants
    BY <1>2, <1>3, <2>1, <2>2, <2>4 DEF CallLife
  <2> QED BY <1>3, <2>3, <2>4
<1>7. CASE call'[c] = NoCall
  <2>1. NoCall.op = "none"
    BY DEF NoCall
  <2>2. CallLife(c)'
    BY <1>5, <1>7, <2>1 DEF CallLife
  <2> QED BY <1>1, <1>6, <2>2
<1>8. CASE GoesOn(c, t)
  <2>1. call'[c].op = call[c].op /\ call'[c].tenant = t /\ call'[c] # NoCall
    BY <1>8 DEF GoesOn
  <2>2. ASSUME call[c].op = "sweep" PROVE secret'[t]["cred"] = 0
    <3>1. CASE At(c, "doomed")
      <4>1. Doomed(c, t)
        BY <3>1, RequestAt
      <4>2. CASE Ends(c)
        <5>1. call' = [call EXCEPT ![c] = NoCall]
          BY <4>2 DEF Ends
        <5>2. call'[c] = NoCall
          BY <1>4, <5>1 DEF TypeOK
        <5> QED BY <2>1, <5>2
      <4>3. CASE Status(t) = "pending"
        BY <4>1, <4>3, ExistsBacked DEF Doomed, Reading, Status
      <4> QED BY <4>1, <4>2, <4>3 DEF Doomed
    <3>2. CASE ~At(c, "doomed")
      BY <1>2, <1>3, <2>2, <3>2 DEF CallLife
    <3> QED BY <3>1, <3>2
  <2>3. ASSUME call[c].op = "delete" PROVE Dead(t)'
    <3>1. CASE At(c, "mark")
      <4>1. Mark(c, t)
        BY <3>1, RequestAt
      <4> QED BY <1>4, <4>1 DEF Mark, Dead, Cancelled, TypeOK
    <3>2. CASE ~At(c, "mark")
      BY <1>2, <1>3, <2>3, <3>2 DEF CallLife
    <3> QED BY <3>1, <3>2
  <2>4. ASSUME call[c].op \in CredOps
        PROVE  (~Lasting /\ call'[c].todo = <<"admit">>) \/ Backed(t)'
    <3>1. CASE Backed(t)
      BY <1>2, <3>1
    <3>2. CASE call[c].todo = <<"identity", "admit">>
      <4>1. At(c, "identity") /\ ~At(c, "admit") /\ ~At(c, "live")
        BY <3>2 DEF At
      <4>2. ReadIdentity(c, t)
        BY <4>1, RequestAt
      <4>3. call'[c].todo = Tail(call[c].todo)
        BY <1>4, <2>1, <4>1, RequestTodo
      <4>4. Tail(call[c].todo) = <<"admit">>
        BY <3>2
      <4>5. ident[t] # "none" /\ UNCHANGED ident
        <5>1. Ends(c) => call'[c] = NoCall
          BY <1>4 DEF Ends, TypeOK
        <5> QED BY <2>1, <4>2, <5>1 DEF ReadIdentity, Reading
      <4> QED BY <4>3, <4>4, <4>5 DEF Backed
    <3>3. CASE ~Lasting /\ call[c].todo = <<"admit">>
      <4>1. At(c, "admit") /\ Admit(c, t)
        <5>1. At(c, "admit")
          BY <3>3 DEF At
        <5> QED BY <5>1, RequestAt
      <4>2. Admits(call[c].op, Status(t), call[c].reopening, "service" \in up[t]) /\ UNCHANGED secret
        <5>1. Ends(c) => call'[c] = NoCall
          BY <1>4 DEF Ends, TypeOK
        <5> QED BY <2>1, <4>1, <5>1 DEF Admit, Reading
      <4>3. call[c].op \in {"replace", "reconnect"}
        BY <1>3, <2>4, <3>3 DEF CredOps
      <4>4. Exists(t)
        BY <4>2, <4>3 DEF Admits, Status
      <4> QED BY <4>2, <4>4, ExistsBacked DEF Backed
    <3> QED BY <2>4, <3>1, <3>2, <3>3 DEF CallLife
  <2>5. CallLife(c)'
    BY <2>1, <2>2, <2>3, <2>4 DEF CallLife
  <2> QED BY <1>1, <1>6, <2>5
<1> QED BY <1>4, <1>7, <1>8

\* A request puts no tenant on a render, or gives one back what it had there, but for the
\* roll's own, which puts its tenant on the one its process has.
LEMMA RequestShrinks ==
  ASSUME WardenSafe, NothingGivenBack, FleetInv, NEW c \in Callers, NEW t \in Tenants,
         call[c].tenant = t, Request(c, t), NEW u \in Tenants, NEW r, On(u, r)'
  PROVE  On(u, r) \/ (c = Timer /\ u = t /\ r = call[c].render)
<1>1. /\ TypeOK /\ CallFine(c) /\ call[c] \in CallRows /\ dep \in [Tenants -> DepRows]
      /\ secret \in [Tenants -> Hashes] /\ RollerFine /\ CallLife(c) /\ LifeFine(u) /\ DepFine(u)
      /\ Unseen
  BY DEF WardenSafe, WardenInv, TypeOK, FleetInv
<1>2. /\ dep'[u].stands /\ dep'[u].rolled /\ dep'[u].tmpl.render = r
      /\ dep'[u].tmpl.hash = secret'[u] /\ ~Cancelled(u)'
  BY DEF On, Exists
<1>3. CASE dep'[u] = dep[u] /\ secret'[u] = secret[u]
  <2>1. Exists(u) /\ secret[u]["cred"] > 0
    BY <1>2, <1>3, ExistsBacked DEF Exists
  <2>2. ~Cancelled(u)
    BY <1>1, <1>2, <2>1, IdentKept DEF Cancelled
  <2> QED BY <1>2, <1>3, <2>1, <2>2 DEF On
<1>4. CASE Deploy(c, t) /\ u = t
  <2> DEFINE tmpl == [hash |-> call[c].seen, render |-> call[c].render]
  <2>1. /\ dep'[t].tmpl = tmpl /\ UNCHANGED <<ident, closed, secret>>
        /\ dep'[t].rolled = IF dep[t].tmpl = tmpl THEN dep[t].rolled ELSE call[c].op = "converge"
    BY <1>1, <1>4 DEF Deploy, record
  <2>2. tmpl.render = call[c].render
    OBVIOUS
  <2> HIDE DEF tmpl
  <2>3. CASE dep[t].tmpl = tmpl
    BY <1>1, <1>2, <1>4, <2>1, <2>3 DEF On, Exists, DepFine, Cancelled
  <2>4. CASE dep[t].tmpl # tmpl
    <3>1. call[c].op = "converge"
      BY <1>2, <1>4, <2>1, <2>4
    <3>2. "converge" \notin Ops \cup {"none"}
      BY WardenAssumption
    <3> QED BY <1>1, <1>2, <1>4, <2>1, <2>2, <3>1, <3>2 DEF RollerFine
  <2> QED BY <2>3, <2>4
<1>5. ASSUME NEW slot \in Slots, At(c, PutOf(slot)), Put(c, t, slot), u = t PROVE FALSE
  <2>1. Ahead(c, slot)
    <3>1. /\ Fits(call[c].op, PutOf(slot)) /\ 1 \in 1..Len(call[c].todo)
          /\ call[c].todo[1] = PutOf(slot)
      BY <1>1, <1>5, HeadFits
    <3> QED BY <3>1 DEF Fits, Ahead
  <2>2. dep[t].tmpl.hash[slot] # call[c].seen[slot]
    BY <1>1, <2>1 DEF Unseen, NewFor
  <2>3. dep'[t] = dep[t] /\ secret'[t][slot] = call[c].seen[slot]
    BY <1>1, <1>5 DEF Put, Hashes
  <2> QED BY <1>2, <1>5, <2>2, <2>3
<1>6. ASSUME NEW slot \in {"llm", "share"}, At(c, "dropShare") \/ At(c, "dropLlm"), Drop(c, t, slot), u = t
      PROVE  FALSE
  <2>1. call[c].op \in {"delete", "unshare"}
    BY <1>1, <1>6, HeadFits DEF Fits, Drops
  <2>2. call[c].op = "delete" /\ ~Lasting
    BY <1>1, <2>1, OpsAsked DEF NothingGivenBack, Lasting
  <2>3. Dead(t)
    BY <1>1, <1>6, <2>2 DEF CallLife, At
  <2>4. Dead(t)'
    BY <1>1, <1>6, <2>2, <2>3, LivesOn
  <2>5. dep' = dep /\ Exists(t)
    BY <1>2, <1>6 DEF Drop, Exists
  <2>6. dep[t].tmpl.hash["cred"] > 0
    BY <2>5, ExistsBacked
  <2> QED BY <1>2, <1>6, <2>4, <2>5, <2>6 DEF Dead
<1>7. CASE Undeploy(t) /\ u = t
  <2>1. dep'[t].stands = FALSE
    BY <1>1, <1>7 DEF Undeploy, NoDep
  <2> QED BY <1>2, <1>7, <2>1
<1>8. \/ dep'[u] = dep[u] /\ secret'[u] = secret[u]
      \/ u = t /\ \/ Deploy(c, t) \/ Undeploy(t)
                  \/ \E slot \in Slots : At(c, PutOf(slot)) /\ Put(c, t, slot)
                  \/ \E slot \in {"llm", "share"} : /\ At(c, "dropShare") \/ At(c, "dropLlm")
                                                   /\ Drop(c, t, slot)
  <2>1. CASE Deploy(c, t) \/ Undeploy(t)
    BY <1>1, <2>1 DEF Deploy, Undeploy, record
  <2>2. ASSUME NEW slot \in Slots, Put(c, t, slot) \/ Drop(c, t, slot)
        PROVE  u # t => dep'[u] = dep[u] /\ secret'[u] = secret[u]
    BY <1>1, <2>2 DEF Put, Drop
  <2>3. {"llm", "share"} \subseteq Slots
    BY DEF Slots
  <2> QED BY <2>1, <2>2, <2>3, RequestFrames DEF Mint, Mark, Unmark, Collect
<1> QED BY <1>3, <1>4, <1>5, <1>6, <1>7, <1>8

\* A request keeps at most one tenant on a bad render.
LEMMA RequestOneBad ==
  ASSUME WardenSafe, NothingGivenBack, FleetInv, NEW c \in Callers, NEW t \in Tenants,
         call[c].tenant = t, Request(c, t), UNCHANGED roll
  PROVE  OneBad'
<1>1. /\ OneBad /\ RollerFine /\ UNCHANGED <<rolling, unread, began>> /\ call[c] # NoCall
      /\ OthersAlone(c) /\ (call'[c] = NoCall \/ GoesOn(c, t))
  <2>1. OthersAlone(c) /\ (call'[c] = NoCall \/ GoesOn(c, t))
    BY RequestMoves DEF WardenSafe, WardenInv, Request
  <2> QED BY <2>1 DEF FleetInv, Request, roll
<1>2. \A u \in Tenants : \A r : On(u, r)' => On(u, r) \/ (c = Timer /\ u = t /\ r = call[c].render)
  BY RequestShrinks
<1>3. c = Timer => call[c].op = "converge"
  BY <1>1 DEF RollerFine, WardenSafe, WardenInv, CallFine, Named, CredOps
<1>4. \A r \in BadRenders : \A u, v \in Tenants : On(u, r)' /\ On(v, r)' => u = v
  BY <1>1, <1>2 DEF OneBad
<1>5. ASSUME began \in BadRenders, rolling PROVE \A u \in Tenants : On(u, began)' => u \in unread
  <2>1. c # Timer
    BY <1>1, <1>5 DEF RollerFine
  <2> QED BY <1>1, <1>2, <1>5, <2>1 DEF OneBad
<1>6. ASSUME call'[Timer] # NoCall, NEW r \in BadRenders, call'[Timer].render = r
      PROVE  \A u \in Tenants : On(u, r)' => u = call'[Timer].tenant
  <2>1. /\ call[Timer] # NoCall /\ call'[Timer].tenant = call[Timer].tenant
        /\ call'[Timer].render = call[Timer].render
    <3>1. CASE c = Timer
      BY <1>1, <1>3, <1>6, <3>1, RollerCall DEF WardenSafe, GoesOn
    <3>2. CASE c # Timer
      BY <1>1, <1>6, <3>2, TimerAssumption DEF OthersAlone
    <3> QED BY <3>1, <3>2
  <2> QED BY <1>1, <1>2, <1>6, <2>1 DEF OneBad
<1> QED BY <1>1, <1>4, <1>5, <1>6 DEF OneBad, On, Exists, Cancelled

\* A step that leaves the values, the renderings and what each call is about, unless it ends
\* it, leaves what is relied on of them.
LEMMA CallsRest ==
  ASSUME WardenSafe, FleetInv, UNCHANGED <<closed, secret>>,
         \A u \in Tenants : ident'[u] = "none" <=> ident[u] = "none",
         \A u \in Tenants : /\ dep'[u].tmpl = dep[u].tmpl /\ dep'[u].stands = dep[u].stands
                            /\ dep'[u].rolled = dep[u].rolled,
         \A d \in Callers : call'[d] = call[d] \/ call'[d] = NoCall
  PROVE  /\ Unseen' /\ (\A u \in Tenants : LifeFine(u)') /\ (\A d \in Callers : CallLife(d)')
         /\ \A u \in Tenants : \A r : On(u, r)' <=> On(u, r)
<1>1. /\ Unseen /\ (\A u \in Tenants : LifeFine(u)) /\ (\A d \in Callers : CallLife(d))
      /\ \A d \in Callers, slot \in Slots : call[d].seen[slot] \in Nat
  BY DEF FleetInv, WardenSafe, TypeOK, CallRows, Hashes
<1>2. /\ NoCall.op = "none" /\ \A slot \in Slots : NoCall.seen[slot] = 0
      /\ Brings("none") = {} /\ "none" \notin CredOps \cup {"sweep", "delete"}
  BY DEF NoCall, Brings, Slots, CredOps
<1>3. ASSUME NEW u \in Tenants
      PROVE  /\ Cancelled(u)' <=> Cancelled(u)
             /\ Backed(u)' <=> Backed(u)
             /\ Dead(u)' <=> Dead(u)
  <2>1. ident'[u] = "none" <=> ident[u] = "none"
    OBVIOUS
  <2>2. Cancelled(u)' <=> Cancelled(u)
    BY <2>1 DEF Cancelled
  <2>3. Backed(u)' <=> Backed(u)
    BY <2>1 DEF Backed
  <2>4. Dead(u)' <=> Dead(u)
    BY <2>2 DEF Dead
  <2> QED BY <2>2, <2>3, <2>4
<1>4. \A u \in Tenants : LifeFine(u)'
  BY <1>1 DEF LifeFine
<1>5. ASSUME NEW u \in Tenants, NEW r PROVE On(u, r)' <=> On(u, r)
  <2>1. Exists(u)' <=> Exists(u)
    BY DEF Exists
  <2>2. dep'[u].tmpl = dep[u].tmpl /\ (dep'[u].rolled <=> dep[u].rolled)
    OBVIOUS
  <2> QED BY <1>3, <2>1, <2>2 DEF On
<1>6. ASSUME NEW d \in Callers, NEW slot \in Slots, Ahead(d, slot)' PROVE NewFor(d, slot)'
  <2>1. call'[d] # NoCall
    BY <1>2, <1>6 DEF Ahead
  <2>2. call'[d] = call[d] /\ Ahead(d, slot)
    BY <1>6, <2>1 DEF Ahead
  <2>3. NewFor(d, slot)
    BY <1>1, <2>2 DEF Unseen
  <2>4. \A e \in Callers \ {d} : call'[e].seen[slot] # call[d].seen[slot]
    BY <1>2, <2>3 DEF NewFor
  <2> QED BY <2>2, <2>3, <2>4 DEF NewFor
<1>7. ASSUME NEW d \in Callers PROVE CallLife(d)'
  <2>1. CASE call'[d] = NoCall
    BY <1>2, <2>1 DEF CallLife
  <2>2. CASE call'[d] = call[d] /\ call[d] # NoCall
    <3>1. At(d, "doomed")' = At(d, "doomed") /\ At(d, "mark")' = At(d, "mark")
      BY <2>2 DEF At
    <3>2. CallLife(d)
      BY <1>1
    <3>3. call[d].tenant \in Tenants
      BY <2>2 DEF WardenSafe, WardenInv, CallFine
    <3> QED BY <1>3, <2>2, <3>1, <3>2, <3>3 DEF CallLife
  <2> QED BY <2>1, <2>2
<1> QED BY <1>4, <1>5, <1>6, <1>7 DEF Unseen

\* A step that brings no pod into service on a bad render leaves the pods to their Deployments.
LEMMA DepsRest ==
  ASSUME TypeOK, \A u \in Tenants : DepFine(u),
         spent'.values \in Nat, spent.values <= spent'.values,
         \A u \in Tenants : /\ dep'[u].tmpl = dep[u].tmpl /\ dep'[u].stands = dep[u].stands
                            /\ dep'[u].rolled = dep[u].rolled,
         \A u \in Tenants : \A p \in pod'[u] : p.owned /\ p.phase # "dying" =>
           \/ p \in pod[u]
           \/ /\ p.phase # "ready" \/ p.tmpl.render \notin BadRenders
              /\ \/ Exists(u) /\ p.tmpl = dep[u].tmpl
                 \/ \E q \in pod[u] : q.owned /\ q.phase # "dying" /\ p.tmpl = q.tmpl
  PROVE  \A u \in Tenants : DepFine(u)'
<1> SUFFICES ASSUME NEW u \in Tenants PROVE DepFine(u)'
  OBVIOUS
<1>1. /\ DepFine(u) /\ dep[u].tmpl \in Tmpls /\ spent.values \in Nat
  BY DEF TypeOK, DepRows, SpentRows
<1>2. /\ \A slot \in Slots : dep[u].tmpl.hash[slot] \in Nat
  BY <1>1 DEF Tmpls, Hashes
<1>3. \A slot \in Slots : dep'[u].tmpl.hash[slot] <= spent'.values
  BY <1>1, <1>2 DEF DepFine
<1>4. ASSUME NEW p \in pod'[u], p.owned, p.phase # "dying"
      PROVE  /\ Exists(u) /\ p.tmpl = dep[u].tmpl
             /\ p.phase = "ready" /\ p.tmpl.render \in BadRenders => ~dep[u].rolled
  BY <1>1, <1>4 DEF DepFine
<1> QED BY <1>1, <1>3, <1>4 DEF DepFine, Exists

\* A step that stores nothing, and renders nothing in the roll's name, changes no key.
LEMMA CalmRests ==
  ASSUME Calm, UNCHANGED secret, spent.values \in Nat, spent'.values \in Nat,
         spent.values <= spent'.values,
         \A u \in Tenants : /\ dep'[u].tmpl = dep[u].tmpl /\ (dep'[u].rolled <=> dep[u].rolled),
         spent'.values = 1 => /\ \A d \in Callers : call'[d] = call[d] \/ Brings(call'[d].op) = {}
                              /\ \/ call'[Timer] = call[Timer]
                                 \/ call'[Timer] = NoCall \/ WillRead'
  PROVE  Calm'
<1> SUFFICES ASSUME spent'.values = 1 PROVE SameKeys'
  BY DEF Calm
<1>1. SameKeys
  BY DEF Calm
<1>2. call'[Timer] = NoCall \/ HasRead' \/ WillRead'
  BY <1>1 DEF SameKeys, HasRead, WillRead
<1> QED BY <1>1, <1>2 DEF SameKeys

\* A request changes no key unless its call has brought one.
LEMMA RequestCalm ==
  ASSUME WardenSafe, RollerFine, Calm, NEW c \in Callers, NEW t \in Tenants,
         call[c].tenant = t, Request(c, t)
  PROVE  Calm'
<1>1. /\ TypeOK /\ CallFine(c) /\ call[c] # NoCall /\ call[c] \in CallRows
      /\ dep \in [Tenants -> DepRows] /\ secret \in [Tenants -> Hashes]
      /\ OthersAlone(c) /\ (call'[c] = NoCall \/ GoesOn(c, t))
  <2>1. OthersAlone(c) /\ (call'[c] = NoCall \/ GoesOn(c, t))
    BY RequestMoves DEF WardenSafe, WardenInv, Request
  <2> QED BY <2>1 DEF WardenSafe, WardenInv, TypeOK, Request
<1>2. UNCHANGED spent
  BY <1>1, RequestTypes DEF OthersAlone
<1> SUFFICES ASSUME SameKeys PROVE SameKeys'
  BY <1>2 DEF Calm
<1>3. NoCall.op = "none" /\ Brings("none") = {} /\ "none" # "converge"
  BY DEF NoCall, Brings, Slots
<1>4. \A d \in Callers : Brings(call'[d].op) = {}
  BY <1>1, <1>3 DEF SameKeys, OthersAlone, GoesOn
<1>5. secret' = secret
  <2>1. ASSUME NEW slot \in Slots, At(c, PutOf(slot)), Put(c, t, slot) PROVE FALSE
    BY <1>1, <2>1, HeadFits DEF SameKeys, Fits
  <2>2. ASSUME NEW slot \in {"llm", "share"}, Drop(c, t, slot) PROVE secret' = secret
    <3>1. secret' = [secret EXCEPT ![t][slot] = 0] /\ secret[t][slot] = 0
      BY <2>2 DEF Drop, SameKeys
    <3>2. slot \in Slots
      BY DEF Slots
    <3> QED BY <1>1, <3>1, <3>2 DEF Hashes
  <2> QED BY <2>1, <2>2, RequestFrames DEF Mint, Mark, Unmark, Collect, Deploy, Undeploy, record
<1>6. c = Timer => call[c].op = "converge"
  BY <1>1 DEF RollerFine, CallFine, Named, CredOps
<1>7. call'[Timer] = NoCall \/ HasRead' \/ WillRead'
  <2>1. CASE c # Timer
    <3>1. call'[Timer] = call[Timer]
      BY <1>1, <2>1, TimerAssumption DEF OthersAlone
    <3> QED BY <1>5, <3>1 DEF SameKeys, HasRead, WillRead
  <2>2. CASE c = Timer /\ call'[c] # NoCall
    <3> DEFINE todo == call[c].todo
    <3>1. /\ call'[c].todo = Tail(todo) /\ todo # <<>> /\ call'[c].tenant = t
          /\ call'[c].seen = IF At(c, "read") THEN secret[t] ELSE call[c].seen
      BY <1>1, <1>6, <2>2, RollerCall DEF GoesOn
    <3>2. CASE At(c, "read") \/ HasRead
      BY <1>5, <2>2, <3>1, <3>2 DEF HasRead
    <3>3. CASE WillRead /\ ~At(c, "read")
      <4>1. /\ todo \in Seq(Requests) /\ Len(todo) \in Nat /\ Len(todo) > 0
            /\ Head(todo) = todo[1] /\ Len(Tail(todo)) = Len(todo) - 1
            /\ \A i \in 1..Len(Tail(todo)) : Tail(todo)[i] = todo[i + 1]
        <5>1. todo \in Seq(Requests)
          BY <1>1 DEF CallRows
        <5> HIDE DEF Requests, todo
        <5> QED BY <3>1, <5>1, EmptySeq, HeadTailProperties
      <4>2. PICK i \in 1..Len(todo) : todo[i] = "read" /\ \A j \in 1..i : todo[j] # "deploy"
        BY <2>2, <3>3 DEF WillRead
      <4>3. i # 1
        BY <3>1, <3>3, <4>1, <4>2 DEF At
      <4>4. /\ i - 1 \in 1..Len(Tail(todo)) /\ (i - 1) + 1 = i
            /\ \A j \in 1..(i - 1) : j + 1 \in 1..i /\ j \in 1..Len(Tail(todo))
        BY <4>1, <4>3
      <4>5. Tail(todo)[i - 1] = "read" /\ \A j \in 1..(i - 1) : Tail(todo)[j] # "deploy"
        BY <4>1, <4>2, <4>4
      <4> HIDE DEF todo
      <4> QED BY <2>2, <3>1, <4>4, <4>5 DEF WillRead
    <3> QED BY <1>1, <2>2, <3>2, <3>3 DEF SameKeys
  <2> QED BY <2>1, <2>2
<1>8. ASSUME NEW u \in Tenants, dep'[u].rolled PROVE dep'[u].tmpl.hash = secret[u]
  <2>1. CASE dep'[u] = dep[u]
    BY <1>8, <2>1 DEF SameKeys
  <2>2. CASE Deploy(c, t) /\ u = t
    <3> DEFINE tmpl == [hash |-> call[c].seen, render |-> call[c].render]
    <3>1. /\ dep'[t].tmpl = tmpl /\ At(c, "deploy")
          /\ dep'[t].rolled = IF dep[t].tmpl = tmpl THEN dep[t].rolled ELSE call[c].op = "converge"
      BY <1>1, <2>2 DEF Deploy
    <3>2. tmpl.hash = call[c].seen
      OBVIOUS
    <3> HIDE DEF tmpl
    <3>3. CASE dep[t].tmpl = tmpl
      BY <1>8, <2>2, <3>1, <3>3 DEF SameKeys
    <3>4. CASE dep[t].tmpl # tmpl
      <4>1. call[c].op = "converge"
        BY <1>8, <2>2, <3>1, <3>4
      <4>2. "converge" \notin Ops \cup {"none"}
        BY WardenAssumption
      <4>3. c = Timer
        BY <4>1, <4>2 DEF RollerFine
      <4>4. ~WillRead
        BY <3>1, <4>3 DEF WillRead, At, WardenSafe, TypeOK, CallRows
      <4> QED BY <1>1, <2>2, <3>1, <3>2, <4>3, <4>4 DEF SameKeys, HasRead
    <3> QED BY <3>3, <3>4
  <2>3. CASE Undeploy(t) /\ u = t
    <3>1. ~NoDep.rolled
      BY DEF NoDep
    <3>2. dep'[t] = NoDep
      <4> HIDE DEF NoDep
      <4> QED BY <1>1, <2>3 DEF Undeploy
    <3> QED BY <1>8, <2>3, <3>1, <3>2
  <2>4. dep'[u] = dep[u] \/ (u = t /\ (Deploy(c, t) \/ Undeploy(t)))
    <3>1. CASE Deploy(c, t) \/ Undeploy(t)
      BY <1>1, <3>1 DEF Deploy, Undeploy
    <3> QED BY <3>1, RequestFrames DEF Mint, Mark, Unmark, Collect, Put, Drop
  <2> QED BY <2>1, <2>2, <2>3, <2>4
<1> QED BY <1>4, <1>5, <1>7, <1>8 DEF SameKeys

\* A call that has found nothing yet and brings values newer than any.
BringsNew(s) ==
  \A slot \in Slots : /\ slot \in Brings(s.op) => s.seen[slot] > spent.values
                      /\ slot \notin Brings(s.op) => s.seen[slot] = 0

\* A call that begins brings values that are nowhere, and has found nothing yet.
LEMMA CallBegins ==
  ASSUME WardenSafe, FleetInv, NEW c \in Callers, NEW s \in CallRows, s.op \in Named,
         s.tenant \in Tenants, s.todo = Script(s.op),
         call' = [call EXCEPT ![c] = s], UNCHANGED <<objects, render>>,
         spent'.values \in Nat, spent.values <= spent'.values,
         BringsNew(s)
  PROVE  /\ Unseen' /\ (\A u \in Tenants : LifeFine(u)' /\ DepFine(u)')
         /\ (\A d \in Callers : CallLife(d)') /\ \A u \in Tenants : \A r : On(u, r)' <=> On(u, r)
<1>1. /\ TypeOK /\ call \in [Callers -> CallRows] /\ call'[c] = s
      /\ \A d \in Callers \ {c} : call'[d] = call[d]
      /\ UNCHANGED <<ident, closed, secret, dep, pod>> /\ spent.values \in Nat /\ render \in Nat
  BY DEF WardenSafe, TypeOK, SpentRows, objects
<1>2. \A d \in Callers, slot \in Slots : /\ call[d].seen[slot] \in Nat
                                         /\ call[d].seen[slot] <= spent.values
  BY <1>1 DEF WardenSafe, WardenInv, CallFine, CallRows, Hashes
<1>3. \A u \in Tenants, slot \in Slots :
        /\ secret[u][slot] \in Nat /\ secret[u][slot] <= spent.values
        /\ dep[u].tmpl.hash[slot] \in Nat /\ dep[u].tmpl.hash[slot] <= spent.values
  BY <1>1 DEF WardenSafe, WardenInv, TenantFine, FleetInv, DepFine, TypeOK, Hashes, DepRows, Tmpls
<1>4. \A u \in Tenants : LifeFine(u)' /\ \A r : On(u, r)' <=> On(u, r)
  BY <1>1 DEF FleetInv, LifeFine, On, Exists, Cancelled
<1>5. \A u \in Tenants : DepFine(u)'
  BY <1>1, DepsRest DEF FleetInv
<1>6. ASSUME NEW d \in Callers, NEW slot \in Slots, Ahead(d, slot)' PROVE NewFor(d, slot)'
  <2>1. CASE d = c
    <3>1. slot \in Brings(s.op)
      BY <1>1, <1>6, <2>1 DEF Ahead
    <3>2. s.seen[slot] > spent.values /\ s.seen[slot] \in Nat
      BY <3>1 DEF BringsNew, CallRows, Hashes
    <3>3. \A e \in Callers \ {c} : call'[e].seen[slot] # s.seen[slot]
      BY <1>1, <1>2, <3>2
    <3>4. \A u \in Tenants : secret[u][slot] # s.seen[slot] /\ dep[u].tmpl.hash[slot] # s.seen[slot]
      BY <1>1, <1>3, <3>2
    <3> QED BY <1>1, <2>1, <3>2, <3>3, <3>4 DEF NewFor
  <2>2. CASE d # c
    <3>1. Ahead(d, slot) /\ NewFor(d, slot)
      <4>1. Ahead(d, slot)
        BY <1>1, <1>6, <2>2 DEF Ahead
      <4> QED BY <4>1 DEF FleetInv, Unseen
    <3>2. s.seen[slot] # call[d].seen[slot]
      <4>1. s.seen[slot] \in Nat /\ call[d].seen[slot] > 0 /\ call[d].seen[slot] <= spent.values
        BY <1>2, <3>1 DEF NewFor, CallRows, Hashes
      <4> QED BY <1>1, <1>2, <4>1 DEF BringsNew
    <3> QED BY <1>1, <2>2, <3>1, <3>2 DEF NewFor
  <2> QED BY <2>1, <2>2
<1>7. ASSUME NEW d \in Callers PROVE CallLife(d)'
  <2>1. CASE d = c
    <3>1. /\ Script(s.op) # <<>>
          /\ s.op = "delete" => Head(Script(s.op)) = "mark"
          /\ s.op \in CredOps => Script(s.op) = <<"identity", "admit">>
      BY ScriptShape
    <3>2. s.op = "sweep" => Script(s.op) # <<>> /\ Head(Script(s.op)) = "doomed"
      BY DEF Script
    <3> QED BY <1>1, <2>1, <3>1, <3>2 DEF CallLife, At
  <2>2. CASE d # c
    <3>1. CallLife(d)
      BY DEF FleetInv
    <3> QED BY <1>1, <2>2, <3>1 DEF CallLife, At, Dead, Cancelled, Backed
  <2> QED BY <2>1, <2>2
<1> QED BY <1>4, <1>5, <1>6, <1>7 DEF Unseen

\* A step beside the calls and the roll keeps the invariant.
LEMMA FleetRests ==
  ASSUME WardenSafe, FleetInv, UNCHANGED <<closed, secret, roll, spent.values>>,
         \A u \in Tenants : ident'[u] = "none" <=> ident[u] = "none",
         \A u \in Tenants : /\ dep'[u].tmpl = dep[u].tmpl /\ dep'[u].stands = dep[u].stands
                            /\ dep'[u].rolled = dep[u].rolled,
         \A d \in Callers : call'[d] = call[d] \/ call'[d] = NoCall,
         \A u \in Tenants : \A p \in pod'[u] : p.owned /\ p.phase # "dying" =>
           \/ p \in pod[u]
           \/ /\ p.phase # "ready" \/ p.tmpl.render \notin BadRenders
              /\ \/ Exists(u) /\ p.tmpl = dep[u].tmpl
                 \/ \E q \in pod[u] : q.owned /\ q.phase # "dying" /\ p.tmpl = q.tmpl
  PROVE  FleetInv'
<1>1. /\ TypeOK /\ spent.values \in Nat /\ NoCall.op = "none" /\ Brings("none") = {}
      /\ RollerFine /\ OneBad /\ Calm /\ \A u \in Tenants : DepFine(u)
  BY DEF WardenSafe, TypeOK, SpentRows, FleetInv, NoCall, Brings, Slots
<1>2. /\ Unseen' /\ (\A u \in Tenants : LifeFine(u)') /\ (\A d \in Callers : CallLife(d)')
      /\ \A u \in Tenants : \A r : On(u, r)' <=> On(u, r)
  BY CallsRest
<1>3. \A u \in Tenants : DepFine(u)'
  BY <1>1, DepsRest
<1>4. RollerFine'
  BY <1>1, TimerAssumption DEF RollerFine, roll
<1>5. OneBad'
  <2>1. UNCHANGED <<rolling, unread, began>>
    BY DEF roll
  <2>2. call'[Timer] # NoCall => call'[Timer] = call[Timer]
    BY TimerAssumption
  <2> QED BY <1>1, <1>2, <2>1, <2>2 DEF OneBad
<1>6. Calm'
  <2>1. \A d \in Callers : call'[d] = call[d] \/ Brings(call'[d].op) = {}
    BY <1>1
  <2>2. call'[Timer] = call[Timer] \/ call'[Timer] = NoCall
    BY TimerAssumption
  <2> QED BY <1>1, <2>1, <2>2, CalmRests
<1> QED BY <1>2, <1>3, <1>4, <1>5, <1>6 DEF FleetInv

\* A step of the cluster, of time or of somebody with kubectl, and a failed request.
LEMMA FleetAround ==
  ASSUME WardenSafe, FleetInv, UNCHANGED roll,
         Around \/ (\E t \in Tenants : Cluster(t)) \/ \E c \in Callers : Fails(c)
  PROVE  FleetInv'
<1>1. /\ pod \in [Tenants -> SUBSET PodRows] /\ dep \in [Tenants -> DepRows] /\ spent \in SpentRows
      /\ call \in [Callers -> CallRows] /\ ident \in [Tenants -> {"none", "young", "old"}]
      /\ render \in Nat /\ spent.values \in Nat
  BY DEF WardenSafe, TypeOK, SpentRows
<1>2. ASSUME NEW t \in Tenants, PodStarts(t) PROVE FleetInv'
  <2> DEFINE new == [tmpl |-> dep[t].tmpl, loaded |-> secret[t], phase |-> "starting", owned |-> TRUE]
  <2>1. /\ pod' = [pod EXCEPT ![t] = @ \cup {new}] /\ Exists(t)
        /\ UNCHANGED <<ident, closed, secret, dep, call, render, spent>>
    BY <1>2 DEF PodStarts, record
  <2>2. new.tmpl = dep[t].tmpl /\ new.phase = "starting"
    OBVIOUS
  <2> HIDE DEF new
  <2>3. \A u \in Tenants : \A p \in pod'[u] :
          p \in pod[u] \/ (Exists(u) /\ p.tmpl = dep[u].tmpl /\ p.phase # "ready")
    BY <1>1, <2>1, <2>2
  <2> QED BY <2>1, <2>3, FleetRests
<1>3. ASSUME NEW t \in Tenants, NEW p \in pod[t], NEW phase \in {"starting", "ready"}, p.phase # "dying",
             phase = "ready" => p.tmpl.render \notin BadRenders,
             pod' = [pod EXCEPT ![t] = (@ \ {p}) \cup {[p EXCEPT !.phase = phase]}],
             UNCHANGED <<ident, closed, secret, dep, call, render, spent.values>>
      PROVE  FleetInv'
  <2> DEFINE new == [p EXCEPT !.phase = phase]
  <2>1. p \in PodRows /\ new.tmpl = p.tmpl /\ new.owned = p.owned /\ new.phase = phase
    <3>1. p \in PodRows
      BY <1>1
    <3> QED BY <3>1 DEF PodRows
  <2>2. pod' = [pod EXCEPT ![t] = (@ \ {p}) \cup {new}]
    BY <1>3
  <2> HIDE DEF new
  <2>3. \A u \in Tenants : \A q \in pod'[u] : q.owned /\ q.phase # "dying" =>
          \/ q \in pod[u]
          \/ /\ q.phase # "ready" \/ q.tmpl.render \notin BadRenders
             /\ \E o \in pod[u] : o.owned /\ o.phase # "dying" /\ q.tmpl = o.tmpl
    BY <1>1, <1>3, <2>1, <2>2
  <2> QED BY <1>3, <2>3, FleetRests
<1>4. ASSUME NEW t \in Tenants, PodServes(t) PROVE FleetInv'
  BY <1>3, <1>4 DEF PodServes, record
<1>5. ASSUME NEW t \in Tenants, PodSickens(t) PROVE FleetInv'
  <2>1. UNCHANGED spent.values
    BY <1>1, <1>5 DEF PodSickens, SpentRows
  <2> QED BY <1>3, <1>5, <2>1 DEF PodSickens, record
<1>6. ASSUME NEW t \in Tenants, PodStops(t) PROVE FleetInv'
  <2>1. /\ \A u \in Tenants : pod'[u] \subseteq pod[u]
        /\ UNCHANGED <<ident, closed, secret, dep, call, render, spent>>
    BY <1>1, <1>6 DEF PodStops, record
  <2> QED BY <2>1, FleetRests
<1>7. ASSUME NEW t \in Tenants, Ages(t) PROVE FleetInv'
  <2>1. /\ \A u \in Tenants : ident'[u] = "none" <=> ident[u] = "none"
        /\ UNCHANGED <<closed, secret, dep, pod, call, render, spent>>
    BY <1>1, <1>7 DEF Ages
  <2> QED BY <2>1, FleetRests
<1>8. ASSUME NEW t \in Tenants, HandEdit(t) PROVE FleetInv'
  <2>1. /\ UNCHANGED spent.values /\ UNCHANGED <<ident, closed, secret, pod, call, render>>
    BY <1>1, <1>8 DEF HandEdit, SpentRows, record
  <2>2. \A u \in Tenants : /\ dep'[u].tmpl = dep[u].tmpl /\ dep'[u].stands = dep[u].stands
                           /\ dep'[u].rolled = dep[u].rolled
    <3> DEFINE row == [dep[t] EXCEPT !.foreign = TRUE]
    <3>1. dep' = [dep EXCEPT ![t] = row]
      BY <1>8 DEF HandEdit
    <3>2. row.tmpl = dep[t].tmpl /\ row.stands = dep[t].stands /\ row.rolled = dep[t].rolled
      <4>1. dep[t] \in DepRows
        BY <1>1
      <4> QED BY <4>1 DEF DepRows
    <3> HIDE DEF row
    <3> QED BY <1>1, <3>1, <3>2
  <2> QED BY <2>1, <2>2, FleetRests
<1>9. ASSUME NEW c \in Callers, Fails(c) PROVE FleetInv'
  <2>1. /\ UNCHANGED spent.values /\ UNCHANGED <<ident, closed, secret, dep, pod, render>>
        /\ \A d \in Callers : call'[d] = call[d] \/ call'[d] = NoCall
    <3> HIDE DEF NoCall
    <3> QED BY <1>1, <1>9 DEF Fails, Ends, SpentRows, objects
  <2> QED BY <2>1, FleetRests
<1>10. CASE NewRender
  <2>1. /\ UNCHANGED <<ident, closed, secret, dep, pod, spent>>
        /\ \A d \in Callers : call'[d] = call[d] \/ call'[d] = NoCall
    <3> HIDE DEF NoCall
    <3> QED BY <1>10 DEF NewRender, objects
  <2> QED BY <2>1, FleetRests
<1> QED BY <1>2, <1>4, <1>5, <1>6, <1>7, <1>8, <1>9, <1>10 DEF Around, Cluster

\* A request.
LEMMA FleetRequest ==
  ASSUME WardenSafe, NothingGivenBack, FleetInv, UNCHANGED roll, NEW c \in Callers,
         Request(c, call[c].tenant)
  PROVE  FleetInv'
<1> DEFINE t == call[c].tenant
<1>1. t \in Tenants /\ call[c] # NoCall
  BY DEF WardenSafe, WardenInv, CallFine, Request
<1> HIDE DEF t
<1>2. Request(c, t) /\ call[c].tenant = t
  BY DEF t
<1>3. /\ RollerFine /\ Unseen /\ Calm /\ (\A u \in Tenants : DepFine(u) /\ LifeFine(u))
      /\ \A d \in Callers : CallLife(d)
  BY DEF FleetInv
<1>4. Unseen' /\ OneBad' /\ Calm' /\ (\A u \in Tenants : DepFine(u)')
  BY <1>1, <1>2, <1>3, RequestUnseen, RequestDeps, RequestOneBad, RequestCalm
<1>5. (\A u \in Tenants : LifeFine(u)') /\ \A d \in Callers : CallLife(d)'
  BY <1>1, <1>2, <1>3, RequestLives
<1>6. OthersAlone(c) /\ (call'[c] = NoCall \/ GoesOn(c, t))
  BY <1>1, <1>2, RequestMoves DEF WardenSafe, WardenInv
<1>7. RollerFine'
  <2>1. NoCall.op = "none"
    BY DEF NoCall
  <2>2. \A d \in Callers : call'[d].op \in {"none", call[d].op}
    BY <1>6, <2>1 DEF OthersAlone, GoesOn
  <2>3. rolling => c # Timer
    BY <1>1, <1>3 DEF RollerFine
  <2> QED BY <1>3, <1>6, <2>2, <2>3, TimerAssumption DEF RollerFine, roll, OthersAlone
<1> QED BY <1>4, <1>5, <1>7 DEF FleetInv

\* The tenant a tick takes first is one of those it has left.
LEMMA LeastOf ==
  ASSUME NEW S \in SUBSET Tenants, S # {}
  PROVE  Least(S) \in S
<1>1. S \in SUBSET Nat
  BY WardenAssumption
<1>2. PICK m \in S : \A u \in S : ~(<<u, m>> \in OpToRel(<, Nat))
  BY <1>1, NatLessThanWellFounded, WFMin
<1>3. \A u \in S : m <= u
  <2>1. \A u \in S : ~(u < m)
    BY <1>1, <1>2 DEF OpToRel
  <2> QED BY <1>1, <2>1
<1> QED BY <1>3 DEF Least

\* A tenant the roll has put on a bad render is a casualty to a tick of that render.
LEMMA BadIsCasualty ==
  ASSUME WardenSafe, FleetInv, NEW r \in BadRenders, NEW t \in Tenants, On(t, r)
  PROVE  Verdict(t, r) = "casualty"
<1>1. Exists(t) /\ secret[t]["cred"] > 0 /\ DepFine(t)
  BY ExistsBacked DEF On, FleetInv
<1>2. ~Ready(t)
  BY <1>1 DEF Ready, DepFine, On
<1>3. Status(t) = "failed"
  BY <1>1, <1>2 DEF Status
<1>4. ~Drifts(t, r)
  <2>1. dep[t].tmpl \in Tmpls
    BY DEF WardenSafe, TypeOK, DepRows
  <2> QED BY <2>1 DEF On, Drifts, Tmpls
<1> QED BY <1>1, <1>3, <1>4 DEF Verdict, On

\* A tick that begins, or reads a tenant, is nothing to the warden.
LEMMA ReadSafe ==
  ASSUME WardenSafe, Tick \/ Inspect \/ InspectFails
  PROVE  /\ WardenSafe' /\ UNCHANGED spent.values
         /\ UNCHANGED <<ident, closed, secret, dep, pod, call, render>>
<1>1. TypeOK /\ WardenInv /\ spent \in SpentRows
  BY DEF WardenSafe, TypeOK
<1>2. /\ UNCHANGED <<ident, closed, secret, up, dep, pod, call, render, torn, stored, spent.values>>
      /\ spent' \in SpentRows
  BY <1>1 DEF Tick, Inspect, InspectFails, vars, objects, history, SpentRows
<1>3. TypeOK'
  BY <1>1, <1>2 DEF TypeOK
<1>4. \A u \in Tenants : Cancelled(u) => Cancelled(u)'
  BY <1>2 DEF Cancelled
<1>5. (\A u \in Tenants : TenantFine(u)') /\ \A d \in Callers : CallFine(d)'
  BY <1>1, <1>2, <1>4, TenantsRest, CallsEnd
<1> QED BY <1>2, <1>3, <1>5 DEF WardenSafe, WardenInv

\* The roll's call, where a tick makes one.
LEMMA RollCalls ==
  ASSUME TypeOK, RollerFine, RollFirst
  PROVE  \/ UNCHANGED call
         \/ \E s \in CallRows :
              /\ call' = [call EXCEPT ![Timer] = s] /\ s.op = "converge" /\ s.tenant \in Tenants
              /\ s.todo = Script("converge") /\ ~s.reopening /\ \A slot \in Slots : s.seen[slot] = 0
              /\ s.render = began
<1>1. CASE queue = {}
  BY <1>1 DEF RollFirst
<1>2. CASE queue # {}
  <2> DEFINE t == Least(queue)
             s == [NoCall EXCEPT !.op = "converge", !.tenant = t, !.todo = Script("converge"),
                                 !.render = began]
  <2>1. began \in Nat /\ t \in Tenants /\ "converge" \in Named
    BY <1>2, LeastOf DEF RollerFine, Named
  <2>2. call' = [call EXCEPT ![Timer] = s]
    BY <1>2 DEF RollFirst
  <2> HIDE DEF t
  <2>3. Script("converge") \in Seq(Requests)
    BY <2>1, ScriptShape DEF Shaped
  <2>4. /\ s \in CallRows /\ s.op = "converge" /\ s.tenant = t /\ s.todo = Script("converge")
        /\ ~s.reopening /\ (\A slot \in Slots : s.seen[slot] = 0) /\ s.render = began
    BY <2>1, <2>3 DEF NoCall, CallRows, Hashes
  <2> HIDE DEF s
  <2> QED BY <2>1, <2>2, <2>4
<1> QED BY <1>1, <1>2

\* A call the roll begins is in order with the others.
LEMMA RollSafe ==
  ASSUME WardenSafe, RollerFine, RollFirst
  PROVE  WardenSafe'
<1>1. /\ TypeOK /\ WardenInv /\ call \in [Callers -> CallRows] /\ spent.values \in Nat
      /\ Timer \in Callers
  BY TimerAssumption DEF WardenSafe, TypeOK, SpentRows
<1>2. UNCHANGED <<objects, render, spent, history>>
  BY DEF RollFirst
<1>3. call' \in [Callers -> CallRows] /\ \A d \in Callers : CallFine(d)'
  <2>1. CASE UNCHANGED call
    <3>1. UNCHANGED <<stored, torn, closed, spent.values>> /\ \A d \in Callers : call'[d] = call[d]
      BY <1>2, <2>1 DEF objects, history
    <3>2. \A u \in Tenants : Cancelled(u) => Cancelled(u)'
      BY <1>2 DEF Cancelled, objects
    <3> QED BY <1>1, <2>1, <3>1, <3>2, CallsEnd
  <2>2. ASSUME NEW s \in CallRows, call' = [call EXCEPT ![Timer] = s], s.op = "converge",
               s.tenant \in Tenants, s.todo = Script("converge"), ~s.reopening,
               \A slot \in Slots : s.seen[slot] = 0
        PROVE  call' \in [Callers -> CallRows] /\ \A d \in Callers : CallFine(d)'
    <3>1. /\ UNCHANGED <<objects, history>> /\ spent'.values \in Nat /\ spent.values <= spent'.values
          /\ \A slot \in Slots : s.seen[slot] <= spent'.values
      BY <1>1, <1>2, <2>2
    <3> DEFINE op == "converge"
    <3>2. /\ op \in Named /\ s.op = op /\ s.todo = Script(op)
          /\ op \in CredOps => s.seen["cred"] > spent.values
      BY <2>2 DEF Named, CredOps
    <3> HIDE DEF op
    <3> QED BY <1>1, <2>2, <3>1, <3>2, Begins
  <2> QED BY <1>1, <2>1, <2>2, RollCalls
<1>4. UNCHANGED <<ident, closed, secret, up, dep, pod, render, spent, torn, stored>>
  BY <1>2 DEF objects, history
<1>5. TypeOK'
  BY <1>1, <1>3, <1>4 DEF TypeOK
<1>6. \A u \in Tenants : Cancelled(u) => Cancelled(u)'
  BY <1>4 DEF Cancelled
<1>7. \A u \in Tenants : TenantFine(u)'
  BY <1>1, <1>4, <1>6, TenantsRest
<1> QED BY <1>3, <1>5, <1>7 DEF WardenSafe, WardenInv

\* A tick that begins, or reads a tenant, leaves one on a bad render to be read.
LEMMA FleetReads ==
  ASSUME WardenSafe, FleetInv, Tick \/ Inspect \/ InspectFails
  PROVE  FleetInv'
<1>1. TypeOK /\ spent.values \in Nat /\ RollerFine /\ OneBad /\ Calm
  BY DEF WardenSafe, TypeOK, SpentRows, FleetInv
<1>2. UNCHANGED <<ident, closed, secret, dep, pod, call, render, spent.values>>
  BY ReadSafe
<1>4. /\ Unseen' /\ (\A u \in Tenants : LifeFine(u)') /\ (\A d \in Callers : CallLife(d)')
      /\ \A u \in Tenants : \A r : On(u, r)' <=> On(u, r)
  BY <1>2, CallsRest
<1>5. \A u \in Tenants : DepFine(u)'
  <2>1. \A u \in Tenants : DepFine(u)
    BY DEF FleetInv
  <2> QED BY <1>1, <1>2, <2>1, DepsRest
\* It is enough to know what is yet to be read.
<1>6. ASSUME unread' \subseteq Tenants, queue' \subseteq Tenants, rolling' => call[Timer] = NoCall,
             began' \in Nat,
             began' \in BadRenders /\ rolling' => \A u \in Tenants : On(u, began') => u \in unread'
      PROVE  FleetInv'
  <2>1. RollerFine'
    BY <1>1, <1>2, <1>6 DEF RollerFine
  <2>2. OneBad'
    BY <1>1, <1>2, <1>4, <1>6 DEF OneBad
  <2>3. Calm'
    BY <1>1, <1>2, CalmRests
  <2> QED BY <1>4, <1>5, <2>1, <2>2, <2>3 DEF FleetInv
<1>7. CASE Tick
  <2>1. ASSUME NEW u \in Tenants, NEW r, On(u, r) PROVE ident[u] # "none"
    BY <2>1 DEF On, Cancelled
  <2>2. began' = render /\ render \in Nat
    BY <1>1, <1>7 DEF Tick, TypeOK
  <2> QED BY <1>6, <1>7, <2>1, <2>2 DEF Tick
<1>8. CASE Inspect
  <2> DEFINE t == Least(unread)
  <2>1. /\ t \in unread /\ t \in Tenants /\ rolling /\ unread \subseteq Tenants
        /\ queue \subseteq Tenants /\ began \in Nat
    BY <1>1, <1>8, LeastOf DEF RollerFine, Inspect
  <2>2. CASE Stops
    BY <1>6, <2>2 DEF Stops
  <2>3. CASE /\ Verdict(t, began) # "casualty" /\ unread' = unread \ {t}
             /\ UNCHANGED <<rolling, began>>
             /\ queue' = IF Verdict(t, began) = "roll" THEN queue \cup {t} ELSE queue
    <3>1. ASSUME began \in BadRenders, NEW u \in Tenants, On(u, began) PROVE u \in unread \ {t}
      <4>1. u \in unread
        BY <1>1, <2>1, <3>1 DEF OneBad
      <4>2. u # t
        BY <2>3, <3>1, BadIsCasualty
      <4> QED BY <4>1, <4>2
    <3> QED BY <1>1, <1>6, <2>1, <2>3, <3>1 DEF RollerFine
  <2> QED BY <1>8, <2>2, <2>3 DEF Inspect
<1>9. CASE InspectFails
  BY <1>6, <1>9 DEF InspectFails, Stops
<1> QED BY <1>7, <1>8, <1>9

\* A tick that has read the fleet rolls a tenant while none is on a bad render.
LEMMA FleetRolls ==
  ASSUME WardenSafe, FleetInv, RollFirst
  PROVE  FleetInv'
<1>1. /\ TypeOK /\ spent.values \in Nat /\ RollerFine /\ OneBad /\ Calm /\ Timer \in Callers
      /\ call \in [Callers -> CallRows] /\ call[Timer] = NoCall
  BY TimerAssumption DEF WardenSafe, TypeOK, SpentRows, FleetInv, RollerFine, RollFirst
<1>2. /\ UNCHANGED <<objects, render, spent>> /\ rolling /\ unread = {}
      /\ ~rolling' /\ unread' = {} /\ queue' = {} /\ began' = 0
  BY DEF RollFirst, Stops
<1>3. /\ Unseen' /\ (\A u \in Tenants : LifeFine(u)' /\ DepFine(u)')
      /\ (\A d \in Callers : CallLife(d)') /\ \A u \in Tenants : \A r : On(u, r)' <=> On(u, r)
  <2>1. CASE UNCHANGED call
    <3>1. UNCHANGED <<ident, closed, secret, dep, pod, render, call, spent>>
      BY <1>2, <2>1 DEF objects
    <3>2. /\ Unseen' /\ (\A u \in Tenants : LifeFine(u)') /\ (\A d \in Callers : CallLife(d)')
          /\ \A u \in Tenants : \A r : On(u, r)' <=> On(u, r)
      BY <3>1, CallsRest
    <3>3. \A u \in Tenants : DepFine(u)'
      BY <3>1 DEF FleetInv, DepFine, Exists
    <3> QED BY <3>2, <3>3
  <2>2. ASSUME NEW s \in CallRows, call' = [call EXCEPT ![Timer] = s], s.op = "converge",
               s.tenant \in Tenants, s.todo = Script("converge"),
               \A slot \in Slots : s.seen[slot] = 0
        PROVE  /\ Unseen' /\ (\A u \in Tenants : LifeFine(u)' /\ DepFine(u)')
               /\ (\A d \in Callers : CallLife(d)') /\ \A u \in Tenants : \A r : On(u, r)' <=> On(u, r)
    <3>1. UNCHANGED <<objects, render>> /\ spent'.values \in Nat /\ spent.values <= spent'.values
      BY <1>1, <1>2
    <3>2. s.op \in Named /\ s.todo = Script(s.op)
      BY <2>2 DEF Named
    <3>3. BringsNew(s)
      BY <2>2 DEF BringsNew, Brings, Slots
    <3> QED BY <1>1, <2>2, <3>1, <3>2, <3>3, CallBegins
  <2> QED BY <1>1, <2>1, <2>2, RollCalls
<1>4. RollerFine'
  <2>1. \A d \in Callers \ {Timer} : call'[d] = call[d]
    BY <1>1, RollCalls
  <2>2. call'[Timer].op \in {"none", "converge"}
    BY <1>1, RollCalls DEF RollerFine
  <2> QED BY <1>1, <1>2, <2>1, <2>2 DEF RollerFine
<1>5. OneBad'
  <2>1. began \in BadRenders => \A u \in Tenants : ~On(u, began)
    BY <1>1, <1>2 DEF OneBad
  <2>2. call'[Timer] = NoCall \/ call'[Timer].render = began
    BY <1>1, RollCalls
  <2> QED BY <1>1, <1>2, <1>3, <2>1, <2>2 DEF OneBad
<1>6. Calm'
  <2>1. /\ \A d \in Callers : call'[d] = call[d] \/ call'[d].op = "converge"
        /\ call'[Timer] = NoCall \/ call'[Timer].todo = Script("converge")
    BY <1>1, RollCalls
  <2>2. Brings("converge") = {}
    BY DEF Brings, Slots
  <2>3. ASSUME call'[Timer].todo = Script("converge") PROVE WillRead'
    <3> DEFINE q == Script("converge")
    <3>1. Len(q) = 9 /\ q[1] = "identity" /\ q[2] = "admit" /\ q[3] = "read"
      BY DEF Script, Converge
    <3>2. 3 \in 1..Len(q) /\ \A j \in 1..3 : q[j] # "deploy"
      BY <3>1
    <3> HIDE DEF q
    <3>3. call'[Timer].todo = q
      BY <2>3 DEF q
    <3> QED BY <3>1, <3>2, <3>3 DEF WillRead
  <2>4. UNCHANGED <<secret, dep, spent>>
    BY <1>2 DEF objects
  <2> QED BY <1>1, <2>1, <2>2, <2>3, <2>4, CalmRests
<1> QED BY <1>3, <1>4, <1>5, <1>6 DEF FleetInv

\* A call the control plane begins.
LEMMA StartRow ==
  ASSUME WardenSafe, NEW c \in Callers, NEW op \in Ops, NEW t \in Tenants, Start(c, op, t)
  PROVE  \E s \in CallRows :
           /\ call' = [call EXCEPT ![c] = s] /\ s.op = op /\ s.op \in Named /\ s.tenant = t
           /\ s.todo = Script(s.op) /\ BringsNew(s)
           /\ spent'.values \in Nat /\ spent.values <= spent'.values
           /\ \A slot \in Slots : s.seen[slot] <= spent'.values
<1> DEFINE fresh == spent.values + Cardinality(Brings(op))
           seen == [slot \in Slots |-> IF slot \in Brings(op) THEN fresh ELSE 0]
           s == [NoCall EXCEPT !.op = op, !.tenant = t, !.todo = Script(op), !.render = render,
                               !.seen = seen]
<1>1. op \in Named /\ spent \in SpentRows /\ spent.values \in Nat /\ render \in Nat
  BY WardenAssumption DEF WardenSafe, TypeOK, SpentRows, Named, CredOps
<1>2. fresh \in Nat /\ fresh >= spent.values /\ (Brings(op) # {} => fresh > spent.values)
  <2>1. Brings(op) = {} \/ \E e : Brings(op) = {e}
    BY DEF Brings
  <2>2. /\ Brings(op) = {} => Cardinality(Brings(op)) = 0
        /\ Brings(op) # {} => Cardinality(Brings(op)) = 1
    BY <2>1, FS_Singleton, FS_EmptySet
  <2> QED BY <1>1, <2>2
<1> HIDE DEF fresh
<1>3. call' = [call EXCEPT ![c] = s] /\ spent' = [spent EXCEPT !.calls = @ + 1, !.values = fresh]
  BY DEF Start, fresh
<1>4. seen \in Hashes
  BY <1>2 DEF Hashes
<1>5. \A slot \in Slots : /\ slot \in Brings(op) => seen[slot] > spent.values
                          /\ slot \notin Brings(op) => seen[slot] = 0
                          /\ seen[slot] <= fresh
  BY <1>2
<1> HIDE DEF seen
<1>6. Script(op) \in Seq(Requests)
  BY <1>1, ScriptShape DEF Shaped
<1>7. s \in CallRows /\ s.op = op /\ s.tenant = t /\ s.todo = Script(op) /\ s.seen = seen
  BY <1>1, <1>4, <1>6 DEF NoCall, CallRows
<1> HIDE DEF s
<1>8. BringsNew(s)
  BY <1>5, <1>7 DEF BringsNew
<1>9. spent'.values = fresh
  BY <1>1, <1>3 DEF SpentRows
<1> QED BY <1>1, <1>2, <1>3, <1>5, <1>7, <1>8, <1>9

\* A call of the control plane that begins beside the roll.
LEMMA FleetStarts ==
  ASSUME WardenSafe, FleetInv, NEW c \in Callers \ {Timer}, NEW op \in Ops, NEW t \in Tenants,
         Start(c, op, t), UNCHANGED roll
  PROVE  FleetInv'
<1>1. PICK s \in CallRows :
        /\ call' = [call EXCEPT ![c] = s] /\ s.op = op /\ s.op \in Named /\ s.tenant = t
        /\ s.todo = Script(s.op) /\ BringsNew(s)
        /\ spent'.values \in Nat /\ spent.values <= spent'.values
        /\ \A slot \in Slots : s.seen[slot] <= spent'.values
  BY StartRow
<1>2. /\ UNCHANGED <<objects, render>> /\ UNCHANGED <<rolling, unread, queue, began>>
      /\ call \in [Callers -> CallRows] /\ RollerFine /\ OneBad /\ Calm /\ spent.values \in Nat
  BY DEF Start, roll, WardenSafe, TypeOK, SpentRows, FleetInv
<1>3. /\ Unseen' /\ (\A u \in Tenants : LifeFine(u)' /\ DepFine(u)')
      /\ (\A d \in Callers : CallLife(d)') /\ \A u \in Tenants : \A r : On(u, r)' <=> On(u, r)
  <2>1. UNCHANGED <<objects, render>> /\ s.tenant \in Tenants
    BY <1>1, <1>2
  <2> QED BY <1>1, <2>1, CallBegins
<1>4. call'[c].op \in Ops /\ \A d \in Callers \ {c} : call'[d] = call[d]
  BY <1>1, <1>2
<1>5. RollerFine'
  BY <1>2, <1>4, TimerAssumption DEF RollerFine
<1>6. OneBad'
  BY <1>2, <1>3, <1>4, TimerAssumption DEF OneBad
<1>7. Calm'
  <2>1. spent'.values = 1 => Brings(s.op) = {}
    <3>1. spent.values >= 1
      BY <1>2 DEF Calm
    <3>2. ASSUME NEW slot \in Brings(s.op) PROVE spent'.values > 1
      <4>1. slot \in Slots
        BY <1>1 DEF Brings, Slots
      <4>2. s.seen[slot] > spent.values /\ s.seen[slot] \in Nat
        BY <1>1, <4>1 DEF BringsNew, CallRows, Hashes
      <4>3. s.seen[slot] <= spent'.values
        BY <1>1, <4>1
      <4> QED BY <1>1, <1>2, <3>1, <4>2, <4>3
    <3> QED BY <1>1, <3>2
  <2>2. \A d \in Callers : call'[d] = call[d] \/ call'[d] = s
    BY <1>1, <1>2
  <2>3. UNCHANGED <<secret, dep>> /\ call'[Timer] = call[Timer]
    BY <1>2, <1>4, TimerAssumption DEF objects
  <2>4. spent'.values = 1 => \A d \in Callers : call'[d] = call[d] \/ Brings(call'[d].op) = {}
    BY <2>1, <2>2
  <2> QED BY <1>1, <1>2, <2>3, <2>4, CalmRests
<1> QED BY <1>3, <1>5, <1>6, <1>7 DEF FleetInv

\* At the start nothing has been rolled and nobody is in a call.
LEMMA FleetBegins ==
  ASSUME FleetInit
  PROVE  WardenSafe /\ FleetInv
<1>1. PICK start \in [Tenants -> Starts] :
    /\ ident = [t \in Tenants |-> IF start[t] = "absent" THEN "none" ELSE "old"]
    /\ closed = [t \in Tenants |-> FALSE]
    /\ secret = [t \in Tenants |-> FirstValues(start[t])]
    /\ dep = [t \in Tenants |-> IF start[t] = "serving"
                 THEN [NoDep EXCEPT !.tmpl = FirstTemplate, !.stands = TRUE] ELSE NoDep]
    /\ pod = [t \in Tenants |-> IF start[t] = "serving"
                THEN {[tmpl |-> FirstTemplate, loaded |-> FirstTemplate.hash,
                       phase |-> "ready", owned |-> TRUE]} ELSE {}]
    /\ call = [c \in Callers |-> NoCall] /\ render = 0 /\ spent.values = 1
  BY DEF FleetInit, Init
<1>2. ~rolling /\ unread = {} /\ queue = {} /\ began = 0 /\ WardenSafe
  BY InitSafe DEF FleetInit
<1>3. /\ NoCall.op = "none" /\ Brings("none") = {} /\ "none" \notin CredOps \cup {"sweep", "delete"}
  BY DEF NoCall, Brings, Slots, CredOps
<1>4. \A c \in Callers : call[c] = NoCall /\ call[c].op = "none"
  BY <1>1, <1>3
<1>5. RollerFine
  BY <1>2, <1>4, TimerAssumption DEF RollerFine
<1>6. Unseen
  BY <1>3, <1>4 DEF Unseen, Ahead
<1>7. \A c \in Callers : CallLife(c)
  BY <1>3, <1>4 DEF CallLife
<1> DEFINE whole == [NoDep EXCEPT !.tmpl = FirstTemplate, !.stands = TRUE]
           first == [tmpl |-> FirstTemplate, loaded |-> FirstTemplate.hash,
                     phase |-> "ready", owned |-> TRUE]
<1>8. /\ whole.tmpl = FirstTemplate /\ whole.stands /\ ~whole.rolled
      /\ ~NoDep.rolled /\ \A slot \in Slots : NoDep.tmpl.hash[slot] <= 1
  BY DEF NoDep
<1>9. \A slot \in Slots : FirstTemplate.hash[slot] <= 1
  BY DEF FirstTemplate, FirstValues
<1>10. first.tmpl = FirstTemplate
  OBVIOUS
<1>11. /\ dep = [t \in Tenants |-> IF start[t] = "serving" THEN whole ELSE NoDep]
       /\ pod = [t \in Tenants |-> IF start[t] = "serving" THEN {first} ELSE {}]
  BY <1>1
<1> HIDE DEF whole, first, NoDep, FirstTemplate
<1>12. ASSUME NEW t \in Tenants PROVE DepFine(t) /\ LifeFine(t) /\ ~dep[t].rolled
  <2>1. /\ ~dep[t].rolled
        /\ \A slot \in Slots : dep[t].tmpl.hash[slot] <= spent.values
    BY <1>1, <1>8, <1>9, <1>11
  <2>2. \A p \in pod[t] : dep[t] = whole /\ p = first
    BY <1>11
  <2>3. DepFine(t)
    BY <1>8, <1>10, <2>1, <2>2 DEF DepFine, Exists
  <2>4. LifeFine(t)
    BY <1>1 DEF LifeFine, FirstValues, Slots
  <2> QED BY <2>1, <2>3, <2>4
<1>13. OneBad
  BY <1>2, <1>12 DEF OneBad, On
<1>14. Calm
  <2>1. \A t \in Tenants : secret[t]["llm"] = 0 /\ secret[t]["share"] = 0
    BY <1>1 DEF FirstValues, Slots
  <2> QED BY <1>1, <1>3, <1>4, <1>12, <2>1, TimerAssumption DEF Calm, SameKeys
<1> QED BY <1>2, <1>5, <1>6, <1>7, <1>12, <1>13, <1>14 DEF FleetInv

\* The roll's process makes one call at a time, and reads the fleet between its calls.
LEMMA RollerKept ==
  ASSUME WardenSafe, RollerFine, [FleetNext]_fleetVars
  PROVE  RollerFine'
<1>1. /\ call \in [Callers -> CallRows] /\ TypeOK /\ NoCall.op = "none" /\ Timer \in Callers
  BY TimerAssumption DEF WardenSafe, TypeOK, NoCall
\* It is enough that calls that go on are still what they were, and the roll's begins none.
<1>2. ASSUME UNCHANGED roll, NEW c \in Callers, OthersAlone(c), call[c] # NoCall,
             call'[c].op \in {"none", call[c].op}
      PROVE  RollerFine'
  <2>1. \A d \in Callers : call'[d].op \in {"none", call[d].op}
    BY <1>2 DEF OthersAlone
  <2>2. rolling => c # Timer
    BY <1>2 DEF RollerFine
  <2> QED BY <1>1, <1>2, <2>1, <2>2 DEF RollerFine, roll, OthersAlone
<1>3. ASSUME UNCHANGED roll, \A d \in Callers : call'[d] = call[d] \/ call'[d] = NoCall
      PROVE  RollerFine'
  BY <1>1, <1>3 DEF RollerFine, roll
<1>4. ASSUME UNCHANGED roll, NEW c \in Callers, Request(c, call[c].tenant) PROVE RollerFine'
  <2>1. /\ call[c] # NoCall /\ call[c].tenant \in Tenants /\ CallFine(c)
        /\ TenantFine(call[c].tenant)
    BY <1>4 DEF Request, WardenSafe, WardenInv, CallFine
  <2>2. OthersAlone(c) /\ (call'[c] = NoCall \/ GoesOn(c, call[c].tenant))
    BY <1>1, <1>4, <2>1, RequestMoves
  <2> QED BY <1>1, <1>2, <1>4, <2>1, <2>2 DEF GoesOn
<1>5. ASSUME UNCHANGED roll, NEW c \in Callers, Fails(c) PROVE RollerFine'
  BY <1>1, <1>3, <1>5 DEF Fails, Ends
<1>6. ASSUME UNCHANGED roll, NEW c \in Callers \ {Timer}, NEW op \in Ops, NEW t \in Tenants, Start(c, op, t)
      PROVE  RollerFine'
  <2>1. call'[c].op = op /\ \A d \in Callers \ {c} : call'[d] = call[d]
    BY <1>1, <1>6, StartRow
  <2> QED BY <1>1, <1>6, <2>1 DEF RollerFine, roll
<1>7. CASE Beside
  <2>1. ASSUME \E t \in Tenants : Cluster(t) PROVE UNCHANGED call
    BY <2>1 DEF Cluster, PodStarts, PodServes, PodStops, PodSickens, Ages, HandEdit, record
  <2>2. ASSUME Around PROVE \A d \in Callers : call'[d] = call[d] \/ call'[d] = NoCall
    BY <2>2 DEF Around, NewRender, PodSickens, HandEdit, Ages, record
  <2> QED BY <1>1, <1>3, <1>4, <1>5, <1>6, <1>7, <2>1, <2>2 DEF Beside, WardenCall
<1>8. CASE Tick \/ Inspect \/ InspectFails
  <2>1. UNCHANGED call
    BY <1>8, ReadSafe
  <2>2. CASE Tick
    BY <1>1, <2>1, <2>2 DEF Tick, RollerFine, TypeOK
  <2>3. CASE Inspect
    <3>1. Least(unread) \in Tenants
      BY <2>3, LeastOf DEF Inspect, RollerFine
    <3>2. /\ rolling /\ (rolling' => rolling) /\ unread' \subseteq unread
          /\ queue' \subseteq queue \cup {Least(unread)} /\ began' \in {began, 0}
      BY <2>3 DEF Inspect, Stops
    <3> QED BY <2>1, <3>1, <3>2 DEF RollerFine
  <2>4. CASE InspectFails
    BY <2>1, <2>4 DEF InspectFails, Stops, RollerFine
  <2> QED BY <1>8, <2>2, <2>3, <2>4
<1>9. CASE RollFirst
  <2>1. \A d \in Callers \ {Timer} : call'[d] = call[d]
    BY <1>1, <1>9, RollCalls
  <2>2. call'[Timer].op \in {"none", "converge"}
    BY <1>1, <1>9, RollCalls DEF RollerFine
  <2> QED BY <1>1, <1>9, <2>1, <2>2 DEF RollerFine, RollFirst, Stops
<1>10. CASE UNCHANGED fleetVars
  BY <1>10 DEF fleetVars, vars, RollerFine
<1> QED BY <1>7, <1>8, <1>9, <1>10 DEF FleetNext

\* The warden's invariant is kept by every step, the roll's included.
LEMMA BesideSafe ==
  ASSUME WardenSafe, RollerFine, [FleetNext]_fleetVars
  PROVE  WardenSafe'
<1>1. CASE Beside
  <2>1. ASSUME NEW c \in Callers, WardenCall(c) PROVE WardenSafe'
    BY <2>1, StartSafe, RequestSafe, AroundSafe DEF WardenCall
  <2> QED BY <1>1, <2>1, TimerAssumption, RequestSafe, AroundSafe DEF Beside
<1>2. CASE UNCHANGED fleetVars
  <2>1. UNCHANGED vars
    BY <1>2 DEF fleetVars
  <2> QED BY <2>1, NextSafe
<1> QED BY <1>1, <1>2, ReadSafe, RollSafe DEF FleetNext

\* The roll's invariant is kept by every step where nothing is given back.
LEMMA FleetKept ==
  ASSUME WardenSafe, NothingGivenBack, FleetInv, [FleetNext]_fleetVars
  PROVE  FleetInv'
<1>1. CASE Beside
  <2>1. UNCHANGED roll
    BY <1>1 DEF Beside
  <2>2. ASSUME NEW c \in Callers \ {Timer}, WardenCall(c) PROVE FleetInv'
    BY <2>1, <2>2, FleetStarts, FleetRequest, FleetAround DEF WardenCall
  <2> QED BY <1>1, <2>1, <2>2, TimerAssumption, FleetRequest, FleetAround DEF Beside
<1>2. CASE UNCHANGED fleetVars
  <2>1. UNCHANGED <<roll, ident, closed, secret, dep, pod, call, spent>>
    BY <1>2 DEF fleetVars, vars, roll
  <2> QED BY <2>1, FleetRests
<1> QED BY <1>1, <1>2, FleetReads, FleetRolls DEF FleetNext

\* What the roll's invariant is worth.
LEMMA BadIsOne ==
  ASSUME FleetInv
  PROVE  BadRenderCostsOne
<1> SUFFICES ASSUME NEW r \in BadRenders
             PROVE  /\ spent.values = 1 => Cardinality(Down(r)) <= 1
                    /\ Cardinality({t \in Down(r) : dep[t].tmpl.hash = secret[t]}) <= 1
  BY DEF BadRenderCostsOne
<1> DEFINE D == {t \in Down(r) : dep[t].tmpl.hash = secret[t]}
<1>1. \A t \in D : t \in Tenants /\ On(t, r)
  BY DEF Down, On
<1>2. \A t, u \in D : t = u
  BY <1>1 DEF FleetInv, OneBad
<1>3. spent.values = 1 => Down(r) = D
  BY DEF FleetInv, Calm, SameKeys, Down
<1> HIDE DEF D
<1>4. D = {} \/ \E e : D = {e}
  BY <1>2
<1>5. \A e : Cardinality({e}) = 1
  BY FS_Singleton
<1>6. Cardinality(D) = 0 \/ Cardinality(D) = 1
  BY <1>4, <1>5, FS_EmptySet
<1>7. Cardinality(D) <= 1
  BY <1>6
<1> QED BY <1>3, <1>7 DEF D

\* The warden's invariant, beside a roll.
LEMMA WardenHoldsBeside == FleetSpec => [](WardenSafe /\ RollerFine)
<1>1. FleetInit => WardenSafe /\ RollerFine
  BY FleetBegins DEF FleetInv
<1>2. WardenSafe /\ RollerFine /\ [FleetNext]_fleetVars => (WardenSafe /\ RollerFine)'
  BY BesideSafe, RollerKept
<1> QED BY <1>1, <1>2, PTL DEF FleetSpec

(* What the warden promises of teardowns, of what a pod has loaded and of a confirmation
   holds beside the unattended roll too (`roll` and the calls it makes of `reconcile`). *)
THEOREM PromisesBesideRoll == FleetSpec => [](ClosedIsMarked /\ StoredIsLoaded /\ ConfirmHonest)
BY WardenHoldsBeside, SafeIsMarked, SafeIsLoaded, SafeIsHonest, PTL

(* However often the roll ticks, a render whose pods never report Ready takes down one
   mailbox at most while no key is changed, and of those it takes down all but one have
   been given a new Secret since: `read_pass` stops at a casualty and `roll` takes one
   tenant a tick.  It needs calls that give nothing back. *)
THEOREM BadRenderStays == ASSUME NothingGivenBack PROVE FleetSpec => []BadRenderCostsOne
<1>1. FleetInit => WardenSafe /\ FleetInv
  BY FleetBegins
<1>2. (WardenSafe /\ RollerFine) /\ FleetInv /\ [FleetNext]_fleetVars => FleetInv'
  BY FleetKept
<1> QED BY <1>1, <1>2, WardenHoldsBeside, BadIsOne, PTL DEF FleetSpec
================================================================================
