----------------------------- MODULE FleetRoll -----------------------------
(***************************************************************************)
(* The unattended roll of a fleet onto a new render                        *)
(* (src/squelch-warden/src/provision.rs `roll`, `read_pass`, `inspect`),   *)
(* beside the calls of TenantWarden.  A tick reads every tenant in order,  *)
(* then hands the first one that is behind to a reconcile that may not     *)
(* delete anything, and ends whatever that answers; the next tick starts   *)
(* over.  The CronJob does not start a tick while one is running.          *)
(***************************************************************************)
EXTENDS TenantWarden

CONSTANTS Timer   \* the roll's own process, one of the callers

ASSUME TimerAssumption == Timer \in Callers

VARIABLES rolling, unread, queue,
          began   \* the render of the tick's process

fleetVars == <<vars, rolling, unread, queue, began>>
roll == <<rolling, unread, queue, began>>

Least(S) == CHOOSE t \in S : \A u \in S : t <= u

-----------------------------------------------------------------------------
\* the question about owners asked first
VerdictFault(t, r) ==
  IF Cancelled(t) \/ Status(t) = "pending" THEN "inactive"
  ELSE IF Status(t) = "stopped" THEN IF "service" \in up[t] THEN "stranded" ELSE "inactive"
  ELSE IF dep[t].foreign THEN "foreign"
  ELSE IF Status(t) = "failed" /\ ~Drifts(t, r) THEN "casualty"
  ELSE IF Drifts(t, r) THEN "roll" ELSE "current"

\* a tenant that is down stops every run, also when a newer render may help it
VerdictStuck(t, r) ==
  IF Cancelled(t) \/ Status(t) = "pending" THEN "inactive"
  ELSE IF Status(t) = "stopped" THEN IF "service" \in up[t] THEN "stranded" ELSE "inactive"
  ELSE IF Status(t) = "failed" THEN "casualty"
  ELSE IF dep[t].foreign THEN "foreign"
  ELSE IF Drifts(t, r) THEN "roll" ELSE "current"

(* `verdict_of` and what `inspect` asks before it. *)
Verdict(t, r) ==
  IF Cancelled(t) \/ Status(t) = "pending" THEN "inactive"
  ELSE IF Status(t) = "stopped" THEN IF "service" \in up[t] THEN "stranded" ELSE "inactive"
  ELSE IF secret[t]["cred"] = 0 THEN "unrenderable"
  ELSE IF Status(t) = "failed" /\ ~Drifts(t, r) THEN "casualty"
  ELSE IF dep[t].foreign THEN "foreign"
  ELSE IF Drifts(t, r) THEN "roll" ELSE "current"

\* the fleet is listed from the identity Secrets
Tick ==
  /\ ~rolling /\ call[Timer] = NoCall
  /\ rolling' = TRUE /\ queue' = {} /\ began' = render
  /\ unread' = {t \in Tenants : ident[t] # "none"}
  /\ UNCHANGED vars

Stops == rolling' = FALSE /\ unread' = {} /\ queue' = {} /\ began' = 0

Inspect ==
  /\ rolling /\ unread # {}
  /\ LET t == Least(unread)
     IN IF Verdict(t, began) = "casualty" THEN Stops
        ELSE /\ unread' = unread \ {t}
             /\ queue' = IF Verdict(t, began) = "roll" THEN queue \cup {t} ELSE queue
             /\ UNCHANGED <<rolling, began>>
  /\ UNCHANGED vars
InspectFails ==
  /\ rolling /\ unread # {} /\ spent.faults < MaxFaults
  /\ Stops /\ spent' = [spent EXCEPT !.faults = @ + 1]
  /\ UNCHANGED <<objects, call, render, history>>

\* at most one tenant a tick
RollFirst ==
  /\ rolling /\ unread = {} /\ Stops
  /\ call' = IF queue = {} THEN call
             ELSE [call EXCEPT ![Timer] = [NoCall EXCEPT !.op = "converge", !.tenant = Least(queue),
                                                         !.todo = Script("converge"), !.render = began]]
  /\ UNCHANGED <<objects, render, spent, history>>

-----------------------------------------------------------------------------
FleetInit == Init /\ rolling = FALSE /\ unread = {} /\ queue = {} /\ began = 0
Beside == /\ \/ \E c \in Callers \ {Timer} : WardenCall(c)
             \/ Request(Timer, call[Timer].tenant)
             \/ Fails(Timer)
             \/ \E t \in Tenants : Cluster(t)
             \/ Around
          /\ UNCHANGED roll
FleetNext == Beside \/ Tick \/ Inspect \/ InspectFails \/ RollFirst
FleetSpec == FleetInit /\ [][FleetNext]_fleetVars

(* The CronJob keeps firing, the roll's requests are answered or time out, and the
   kubelet starts, readies and stops pods.  Nobody must call, edit or fail, and a
   call of the control plane may stop for good anywhere. *)
TimerStep == Tick \/ Inspect \/ RollFirst \/ (Request(Timer, call[Timer].tenant) /\ UNCHANGED roll)
Fairness ==
  /\ WF_fleetVars(TimerStep)
  /\ \A t \in Tenants : WF_fleetVars(Cluster(t) /\ UNCHANGED roll)
FleetFairSpec == FleetSpec /\ Fairness

-----------------------------------------------------------------------------
\* the mailboxes the roll put on render r and that still run it, their owners not gone
Down(r) == {t \in Tenants : /\ Exists(t) /\ dep[t].rolled /\ dep[t].tmpl.render = r
                            /\ ~Cancelled(t)}
(* While every key stays what it was, a render whose pods never report Ready takes
   down one mailbox and no second one, tick after tick, whatever people edit, recreate
   or close meanwhile.  A mailbox whose key is changed while it is down is read as one
   that is behind, or as a foreign one, and the roll goes on to the next: then of all
   the mailboxes down only one has the Secret it was rolled with. *)
BadRenderCostsOne ==
  \A r \in BadRenders :
    /\ spent.values = 1 => Cardinality(Down(r)) <= 1
    /\ Cardinality({t \in Down(r) : dep[t].tmpl.hash = secret[t]}) <= 1

(* The calls beside which it is one.  A share taken back, two reopenings of a closed
   account of which one ends late, or a reservation made anew where the janitor took a
   serving tenant's identity give a tenant back what it was rolled with, and can make a
   second mailbox match a bad render. *)
NothingGivenBack ==
  /\ "unshare" \notin Ops
  /\ "credentials" \notin Ops \/ Ops \cap {"delete", "sweep"} = {}

(* When edits, calls and new renders have stopped, every tick's work comes to an
   end: no tenant stays behind the render for ever, unless the render is one
   whose pods do not come up. *)
RollConverges ==
  <>[](render \in BadRenders \/ \A t \in Tenants : Verdict(t, render) \notin {"roll", "casualty"})
=============================================================================
