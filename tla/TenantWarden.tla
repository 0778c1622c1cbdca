---------------------------- MODULE TenantWarden ----------------------------
(***************************************************************************)
(* The hosting warden (src/squelch-warden/src/provision.rs): calls that    *)
(* converge, replace and tear down one tenant's objects in a cluster.  The *)
(* warden keeps no state; a call is a list of cluster requests, any of     *)
(* which may fail, and a failed call ends with nothing undone.  Requests   *)
(* of different calls, the cluster's controllers and people with kubectl   *)
(* interleave freely.                                                      *)
(*                                                                         *)
(* A secret is the number of the value it holds, 0 for none, and its hash  *)
(* is that number: every value is new, as each ciphertext is sealed afresh *)
(* and each key minted.  The label, address and ciphertext checks reject   *)
(* a call before it touches anything and are left out with such calls.     *)
(* Reads that decide one question together are one request.                *)
(***************************************************************************)
EXTENDS Integers, Sequences, FiniteSets

CONSTANTS Tenants, Callers, Ops,      \* Ops: the calls the control plane makes
          Starts,                     \* what the tenants may be at the start
          BadRenders,                 \* renders whose pods never become ready
          MaxValue, MaxCalls, MaxFaults, MaxRender, MaxEdits

ASSUME WardenAssumption ==
  /\ Tenants \subseteq Nat /\ Starts \subseteq {"absent", "reserved", "serving"}
  /\ {MaxValue, MaxCalls, MaxFaults, MaxRender, MaxEdits} \subseteq Nat
  /\ Ops \subseteq {"create", "credentials", "replace", "reconnect", "llm", "share", "unshare",
                    "repair", "reconcile", "delete", "sweep"}

VARIABLES ident,     \* the identity Secret: "none", "young" or past pending_ttl
          closed,    \* its cancelled-at annotation
          secret,    \* values of the credential, llm and control Secrets
          up,        \* which of Ingress, Service and NetworkPolicy stand
          dep, pod,  \* the Deployment, and every pod with the tenant's labels
          call,      \* what each caller is in the middle of
          render,    \* what this warden's image renders
          spent,     \* the environment's budgets
          torn,      \* history: what teardowns and reopens have done to the tenant
          stored     \* history: the credentials stored, in order

vars == <<ident, closed, secret, up, dep, pod, call, render, spent, torn, stored>>
history == <<torn, stored>>
objects == <<ident, closed, secret, up, dep, pod>>
record == <<ident, closed, secret, up>>

Slots == {"cred", "llm", "share"}
Values == [Slots -> 0..MaxValue]
Templates == [hash : Values, render : 0..MaxRender]
NoDep == [tmpl |-> [hash |-> [s \in Slots |-> 0], render |-> 0],
          foreign |-> FALSE, rolled |-> FALSE, stands |-> FALSE]
Deployments == [tmpl : Templates, foreign : BOOLEAN, rolled : BOOLEAN, stands : BOOLEAN]
Pods == [tmpl : Templates, loaded : Values, phase : {"starting", "ready", "dying"}, owned : BOOLEAN]
NoCall == [op |-> "none", tenant |-> 0, todo |-> <<>>, seen |-> [s \in Slots |-> 0],
           replacing |-> FALSE, reopening |-> FALSE,
           render |-> 0]       \* of the process the call runs in

Kinds == {"ingress", "service", "policy"}

-----------------------------------------------------------------------------
(* What the requests answer. *)

Exists(t) == dep[t].stands
Ready(t) == \E p \in pod[t] : p.owned /\ p.phase = "ready"
Status(t) == IF Exists(t) THEN IF Ready(t) THEN "active" ELSE "failed"
             ELSE IF secret[t]["cred"] > 0 THEN "stopped" ELSE "pending"
Cancelled(t) == ident[t] = "none" \/ closed[t]

\* rollout_complete: the pod of the present template serves, no older one is left
RolledOut(t) == /\ Exists(t)
                /\ \E p \in pod[t] : p.owned /\ p.phase = "ready" /\ p.tmpl = dep[t].tmpl
\* the drift of the live template from what a process with render r would apply
Drifts(t, r) == dep[t].tmpl # [hash |-> secret[t], render |-> r]

(* The requests each call makes, in order. *)

\* the marker taken off on the way in
MarkerFirst(c, replacing, reopening) ==
  (IF reopening THEN <<"unmark">> ELSE <<>>)
  \o <<"putCred", "policy", "service", "read", "deploy", "ingress", "ready", "confirm">>
\* the ciphertext stored once the workload that mounts it is up to date
SecretLast(c, replacing, reopening) ==
  <<"policy", "service", "read", "deploy", "putCred", "ingress", "ready", "confirm">>
Install(c, replacing, reopening) ==
  <<"putCred", "policy", "service", "read", "deploy", "ingress">>
  \o (IF replacing THEN <<"rollout">> ELSE <<>>) \o <<"ready">>
  \o (IF reopening THEN <<"unmark">> ELSE <<>>) \o <<"confirm">>
  \o (IF call[c].op = "reconnect" THEN <<>> ELSE <<"pair">>)
Converge == <<"identity", "admit", "read", "policy", "service",
              "live", "deploy", "ingress", "rollout">>
Script(op) ==
  CASE op = "create" -> <<"mint">>
    [] op \in {"credentials", "replace", "reconnect"} -> <<"identity", "admit">>
    [] op = "llm" -> <<"identity", "putLlm", "present", "read", "deploy">>
    [] op = "share" -> <<"identity", "putShare", "present", "read", "deploy">>
    [] op = "unshare" -> <<"identity", "dropShare", "present", "read", "deploy">>
    [] op = "repair" -> <<"identity", "rollout", "ready", "pair">>
    [] op \in {"reconcile", "converge"} -> Converge
    [] op = "delete" -> <<"mark", "dropIngress", "dropService", "dropDeploy", "dropPolicy",
                          "dropLlm", "dropShare">>
    [] op = "sweep" -> <<"doomed", "collect">>

-----------------------------------------------------------------------------
At(c, step) == call[c].todo # <<>> /\ Head(call[c].todo) = step
Goes(c, r) == call' = [call EXCEPT ![c] = [r EXCEPT !.todo = Tail(@)]]
Steps(c) == Goes(c, call[c])
Ends(c) == call' = [call EXCEPT ![c] = NoCall]
\* the last request of a call ends it
Done(c) == IF Len(call[c].todo) = 1 THEN Ends(c) ELSE Steps(c)
Reading == UNCHANGED <<ident, closed, secret, up, dep, pod, render, spent, history>>

\* history: a tenant that lives again, unless a teardown is under way
Restores(t, as) ==
  torn' = [torn EXCEPT ![t] =
    IF \E d \in Callers : call[d].op = "delete" /\ call[d].tenant = t THEN "raced" ELSE as]

\* the value a call brings, which no other call has
Brings(op) == IF op \in {"credentials", "replace", "reconnect"} THEN {"cred"} ELSE {op} \cap Slots
Start(c, op, t) ==
  LET fresh == spent.values + Cardinality(Brings(op))
  IN /\ call[c] = NoCall /\ spent.calls < MaxCalls /\ fresh <= MaxValue
     /\ op = "sweep" => ident[t] = "old"
     /\ call' = [call EXCEPT ![c] =
          [NoCall EXCEPT !.op = op, !.tenant = t, !.todo = Script(op), !.render = render,
                         !.seen = [s \in Slots |-> IF s \in Brings(op) THEN fresh ELSE 0]]]
     /\ spent' = [spent EXCEPT !.calls = @ + 1, !.values = fresh]
     /\ UNCHANGED <<objects, render, history>>

\* phase one: an existing identity is reused or refused, and nothing is written
Mint(c, t) ==
  /\ At(c, "mint") /\ Ends(c)
  /\ IF ident[t] = "none" THEN ident' = [ident EXCEPT ![t] = "young"] /\ Restores(t, "whole")
     ELSE UNCHANGED <<ident, torn>>
  /\ UNCHANGED <<closed, secret, up, dep, pod, render, spent, stored>>

\* the marker refuses every call but a re-consent and the removal of a token
ReadIdentity(c, t) ==
  /\ At(c, "identity") /\ Reading
  /\ IF ident[t] = "none" \/ (closed[t] /\ call[c].op \notin {"credentials", "unshare"})
     THEN Ends(c)
     ELSE Goes(c, [call[c] EXCEPT !.reopening = closed[t]])

Admits(op, status, reopening, service) ==
  CASE op = "credentials" -> reopening \/ status # "active"
    [] op \in {"replace", "reconnect"} -> status \in {"active", "failed"}
    [] OTHER -> status \in {"active", "failed"} \/ (status = "stopped" /\ service)
Admit(c, t) ==
  LET op == call[c].op
      replacing == Status(t) \in {"active", "failed"}
  IN /\ At(c, "admit") /\ Reading
     /\ IF ~Admits(op, Status(t), call[c].reopening, "service" \in up[t]) THEN Ends(c)
        ELSE IF op \in {"reconcile", "converge"} THEN Steps(c)
        ELSE call' = [call EXCEPT ![c].replacing = replacing,
                                  ![c].todo = Install(c, replacing, call[c].reopening)]

Put(c, t, slot) ==
  /\ secret' = [secret EXCEPT ![t][slot] = call[c].seen[slot]]
  /\ stored' = IF slot = "cred" THEN [stored EXCEPT ![t] = Append(@, call[c].seen[slot])] ELSE stored
  /\ Steps(c)
  /\ UNCHANGED <<ident, closed, up, dep, pod, render, spent, torn>>
Write(c, t) == \/ At(c, "putCred") /\ Put(c, t, "cred")
               \/ At(c, "putLlm") /\ Put(c, t, "llm")
               \/ At(c, "putShare") /\ Put(c, t, "share")

Drop(c, t, slot) ==
  /\ secret' = [secret EXCEPT ![t][slot] = 0]
  /\ Done(c)
  /\ UNCHANGED <<ident, closed, up, dep, pod, render, spent, history>>
DropSecret(c, t) == \/ At(c, "dropShare") /\ Drop(c, t, "share")
                    \/ At(c, "dropLlm") /\ Drop(c, t, "llm")

\* the hashes of what is stored now beside the call's own; a workload with no
\* credential is refused
ReadHashes(c, t) ==
  LET own == IF call[c].op = "unshare" THEN {"share"} ELSE Brings(call[c].op)
  IN /\ At(c, "read") /\ Reading
     /\ IF "cred" \notin own /\ secret[t]["cred"] = 0 THEN Ends(c)
        ELSE Goes(c, [call[c] EXCEPT !.seen = [s \in Slots |-> IF s \in own THEN @[s] ELSE secret[t][s]]])

\* a rotation re-renders only a workload that is there
Present(c, t) ==
  /\ At(c, "present") /\ Reading
  /\ IF Exists(t) THEN Steps(c) ELSE Ends(c)

Apply(c, t) ==
  \E k \in Kinds : /\ At(c, k) /\ up' = [up EXCEPT ![t] = @ \cup {k}] /\ Done(c)
                   /\ UNCHANGED <<ident, closed, secret, dep, pod, render, spent, history>>

\* Recreate: a new template condemns the pods of the old one
Condemned(ps, tmpl) == {IF p.owned /\ p.tmpl # tmpl THEN [p EXCEPT !.phase = "dying"] ELSE p : p \in ps}
Deploy(c, t) ==
  LET tmpl == [hash |-> call[c].seen, render |-> call[c].render]
  IN /\ At(c, "deploy") /\ Done(c)
     /\ dep' = [dep EXCEPT ![t] =
                 [tmpl |-> tmpl, stands |-> TRUE, foreign |-> dep[t].foreign,
                  rolled |-> IF dep[t].tmpl = tmpl THEN dep[t].rolled ELSE call[c].op = "converge"]]
     /\ pod' = [pod EXCEPT ![t] = Condemned(@, tmpl)]
     /\ UNCHANGED <<record, render, spent, history>>

\* DELETE answers while the pods terminate behind it
Undeploy(t) ==
  /\ dep' = [dep EXCEPT ![t] = NoDep]
  /\ pod' = [pod EXCEPT ![t] = {[p EXCEPT !.phase = "dying", !.owned = FALSE] : p \in @}]
  /\ UNCHANGED <<record, render, spent, stored>>

\* the read that decides between converging, creating, recreating and refusing
Live(c, t) ==
  /\ At(c, "live") /\ Reading
  /\ IF Exists(t) /\ dep[t].foreign
     THEN IF call[c].op = "reconcile"
          THEN call' = [call EXCEPT ![c].todo = <<"remove", "gone", "absent">> \o Tail(@)]
          ELSE Ends(c)
     ELSE IF ~Exists(t) /\ Cancelled(t) THEN Ends(c) ELSE Steps(c)

Remove(c, t) == At(c, "remove") /\ Steps(c) /\ Undeploy(t) /\ UNCHANGED torn
PodsGone(c, t) == At(c, "gone") /\ pod[t] = {} /\ Steps(c) /\ Reading
Absent(c, t) == /\ At(c, "absent") /\ Reading
                /\ IF Exists(t) THEN Ends(c) ELSE Steps(c)

Rollout(c, t) == At(c, "rollout") /\ RolledOut(t) /\ Done(c) /\ Reading

\* a terminating pod is listed, and Ready, until its container stops
ReadyPod(c, t) ==
  At(c, "ready") /\ Steps(c) /\ Reading /\ \E p \in pod[t] : p.phase \in {"ready", "dying"}

Mark(c, t) ==
  /\ At(c, "mark") /\ Done(c)
  /\ closed' = [closed EXCEPT ![t] = ident[t] # "none"]
  /\ UNCHANGED <<ident, secret, up, dep, pod, render, spent, history>>
Unmark(c, t) ==
  /\ At(c, "unmark") /\ Steps(c)
  /\ closed' = [closed EXCEPT ![t] = FALSE]
  /\ IF \E i \in DOMAIN call[c].todo : call[c].todo[i] = "ready" THEN UNCHANGED torn
     ELSE Restores(t, "reopened")
  /\ UNCHANGED <<ident, secret, up, dep, pod, render, spent, stored>>

\* the rollout is not looked at again
ConfirmsFault(c, t) == Exists(t) /\ dep[t].tmpl.hash["cred"] = call[c].seen["cred"]
Confirms(c, t) == /\ Exists(t) /\ dep[t].tmpl.hash["cred"] = call[c].seen["cred"]
                  /\ call[c].replacing => RolledOut(t)
Confirm(c, t) ==
  /\ At(c, "confirm") /\ Reading
  /\ IF Confirms(c, t) THEN Done(c) ELSE Ends(c)
Pair(c) == At(c, "pair") /\ Ends(c) /\ Reading

Tears(t, something) ==
  torn' = [torn EXCEPT ![t] = IF something /\ @ # "raced" THEN "torn" ELSE @]
Delete(c, t) ==
  \/ \E k \in {<<"dropIngress", "ingress">>, <<"dropService", "service">>, <<"dropPolicy", "policy">>} :
       /\ At(c, k[1]) /\ up' = [up EXCEPT ![t] = @ \ {k[2]}] /\ Done(c) /\ Tears(t, k[2] \in up[t])
       /\ UNCHANGED <<ident, closed, secret, dep, pod, render, spent, stored>>
  \/ At(c, "dropDeploy") /\ Done(c) /\ Undeploy(t) /\ Tears(t, Exists(t))

\* the janitor: the status is read, then the identity deleted
Doomed(c, t) ==
  /\ At(c, "doomed") /\ Reading
  /\ IF Status(t) = "pending" THEN Steps(c) ELSE Ends(c)
Collect(c, t) ==
  /\ At(c, "collect") /\ Ends(c)
  /\ ident' = [ident EXCEPT ![t] = "none"] /\ closed' = [closed EXCEPT ![t] = FALSE]
  /\ UNCHANGED <<secret, up, dep, pod, render, spent, history>>

\* a request the cluster does not answer, and a wait that runs out
Fails(c) == /\ call[c] # NoCall /\ spent.faults < MaxFaults /\ Ends(c)
            /\ spent' = [spent EXCEPT !.faults = @ + 1]
            /\ UNCHANGED <<objects, render, history>>
TimesOut(c) == /\ \E step \in {"rollout", "ready", "gone"} : At(c, step)
               /\ Ends(c) /\ Reading

Request(c, t) ==
  /\ call[c] # NoCall
  /\ \/ Mint(c, t) \/ ReadIdentity(c, t) \/ Admit(c, t) \/ Write(c, t) \/ DropSecret(c, t)
     \/ ReadHashes(c, t) \/ Present(c, t) \/ Apply(c, t) \/ Deploy(c, t) \/ Live(c, t)
     \/ Remove(c, t) \/ PodsGone(c, t) \/ Absent(c, t) \/ Rollout(c, t) \/ ReadyPod(c, t)
     \/ Mark(c, t) \/ Unmark(c, t) \/ Confirm(c, t) \/ Pair(c) \/ Delete(c, t)
     \/ Doomed(c, t) \/ Collect(c, t) \/ TimesOut(c)

-----------------------------------------------------------------------------
(* The cluster and the people around it. *)

\* one pod per Deployment; it mounts its Secrets once, when it starts
PodStarts(t) ==
  /\ Exists(t) /\ ident[t] # "none" /\ \A p \in pod[t] : ~p.owned
  /\ pod' = [pod EXCEPT ![t] = @ \cup {[tmpl |-> dep[t].tmpl, loaded |-> secret[t],
                                        phase |-> "starting", owned |-> TRUE]}]
  /\ UNCHANGED <<record, dep, call, render, spent, history>>
PodServes(t) ==
  \E p \in pod[t] : /\ p.phase = "starting" /\ p.tmpl.render \notin BadRenders
                    /\ pod' = [pod EXCEPT ![t] = (@ \ {p}) \cup {[p EXCEPT !.phase = "ready"]}]
                    /\ UNCHANGED <<record, dep, call, render, spent, history>>
PodStops(t) ==
  \E p \in pod[t] : /\ p.phase = "dying"
                    /\ pod' = [pod EXCEPT ![t] = @ \ {p}]
                    /\ UNCHANGED <<record, dep, call, render, spent, history>>
PodSickens(t) ==
  \E p \in pod[t] : /\ p.phase = "ready" /\ spent.faults < MaxFaults
                    /\ pod' = [pod EXCEPT ![t] = (@ \ {p}) \cup {[p EXCEPT !.phase = "starting"]}]
                    /\ spent' = [spent EXCEPT !.faults = @ + 1]
                    /\ UNCHANGED <<record, dep, call, render, history>>
Ages(t) == /\ ident[t] = "young" /\ ident' = [ident EXCEPT ![t] = "old"]
           /\ UNCHANGED <<closed, secret, up, dep, pod, call, render, spent, history>>
HandEdit(t) == /\ Exists(t) /\ ~dep[t].foreign /\ spent.edits < MaxEdits
               /\ dep' = [dep EXCEPT ![t].foreign = TRUE]
               /\ spent' = [spent EXCEPT !.edits = @ + 1]
               /\ UNCHANGED <<record, pod, call, render, history>>
\* the warden's Deployment is Recreate: its calls die with the old image; the roll is a
\* job of its own, and goes on with the image it was started from
NewRender == /\ render < MaxRender /\ render' = render + 1
             /\ call' = [c \in Callers |-> IF call[c].op = "converge" THEN call[c] ELSE NoCall]
             /\ UNCHANGED <<objects, spent, history>>

Cluster(t) == PodStarts(t) \/ PodServes(t) \/ PodStops(t)
Around == NewRender \/ \E t \in Tenants : PodSickens(t) \/ Ages(t) \/ HandEdit(t)

\* a tenant serves since before, has an old reservation, or is unknown
FirstValues(start) == [s \in Slots |-> IF s = "cred" /\ start = "serving" THEN 1 ELSE 0]
FirstTemplate == [hash |-> FirstValues("serving"), render |-> 0]
Init ==
  \E start \in [Tenants -> Starts] :
    /\ ident = [t \in Tenants |-> IF start[t] = "absent" THEN "none" ELSE "old"]
    /\ closed = [t \in Tenants |-> FALSE]
    /\ secret = [t \in Tenants |-> FirstValues(start[t])]
    /\ up = [t \in Tenants |-> IF start[t] = "serving" THEN Kinds ELSE {}]
    /\ dep = [t \in Tenants |-> IF start[t] = "serving"
                 THEN [NoDep EXCEPT !.tmpl = FirstTemplate, !.stands = TRUE] ELSE NoDep]
    /\ pod = [t \in Tenants |-> IF start[t] = "serving"
                THEN {[tmpl |-> FirstTemplate, loaded |-> FirstTemplate.hash,
                       phase |-> "ready", owned |-> TRUE]} ELSE {}]
    /\ call = [c \in Callers |-> NoCall]
    /\ render = 0 /\ torn = [t \in Tenants |-> "whole"]
    /\ stored = [t \in Tenants |-> IF start[t] = "serving" THEN <<1>> ELSE <<>>]
    /\ spent = [values |-> 1, calls |-> 0, faults |-> 0, edits |-> 0]

WardenCall(c) == \/ \E op \in Ops, t \in Tenants : Start(c, op, t)
                 \/ Request(c, call[c].tenant)
                 \/ Fails(c)
Next == \/ \E c \in Callers : WardenCall(c)
        \/ \E t \in Tenants : Cluster(t)
        \/ Around
Spec == Init /\ [][Next]_vars
-----------------------------------------------------------------------------

(* A teardown that stopped anywhere still reads as a closed account, until a
   reopen has finished; only a reopen or a new signup that ran beside the teardown
   may lose the marker (`delete` stamps before its first delete, `install_credentials` takes
   the marker off last). *)
ClosedIsMarked == \A t \in Tenants : torn[t] = "torn" => Cancelled(t)

(* If the hash on a pod's template is that of the stored credential, the pod has
   installed that credential, whoever wrote Secret and Deployment in whatever
   order: the mechanism by which a re-consent reaches the daemon. *)
StoredIsLoaded ==
  \A t \in Tenants : \A p \in pod[t] :
    p.tmpl.hash["cred"] = secret[t]["cred"] => p.loaded["cred"] = secret[t]["cred"]

\* the credentials stored at or after v
Since(t, v) == {stored[t][i] : i \in {i \in DOMAIN stored[t] : \E j \in 1..i : stored[t][j] = v}}
(* A replaced credential is confirmed only while a pod serves that has installed
   it or a later one, although another call may re-render the workload between
   the rollout wait and the confirmation. *)
ConfirmHonest ==
  \A c \in Callers :
    At(c, "confirm") /\ call[c].replacing /\ Confirms(c, call[c].tenant) =>
      \E p \in pod[call[c].tenant] : /\ p.owned /\ p.phase = "ready"
                                     /\ p.loaded["cred"] \in Since(call[c].tenant, call[c].seen["cred"])
=============================================================================
