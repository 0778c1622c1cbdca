----------------------------- MODULE BrokerSessions ----------------------------
(***************************************************************************)
(* The consent broker (src/squelch-broker) and the daemon's flow through   *)
(* it (squelch-core, auth::run_broker_flow).  The daemon registers a       *)
(* session and polls for its outcome; a person opens the link, consents at *)
(* Google, and the redirect parks a code or a refusal at the broker.       *)
(*                                                                         *)
(* Every operation of the broker is one step under its lock.  A request    *)
(* may be lost, its answer may be lost before it begins, which the daemon  *)
(* waits out, or be cut off in its body, which ends the flow.  A request   *)
(* the daemon has stopped waiting for may still be served.  Ids and tokens *)
(* are random, so a session is named by its flow and only its own flow can *)
(* claim it.                                                               *)
(***************************************************************************)
EXTENDS Naturals, FiniteSets

CONSTANTS Flows,        \* runs of `squelchd auth` from one address
          Outcomes,     \* codes Google may issue, and "denied"
          MaxSessions,  \* the per-client cap, or the table's
          MaxLost       \* lost messages and restarts of the broker

VARIABLES session,  \* [at, parked]: the table; an expired row stays until it is met
          old,      \* flows registered ten minutes ago or more
          flow,     \* [at, answer, got]: the daemon's side
          late,     \* flows with a request at the broker nobody waits for
          opened,   \* flows whose link has been followed to the consent screen
          shown,    \* outcomes each flow's person was told had been collected
          handed,   \* how often the broker has put an outcome into an answer
          wasted,   \* flows whose outcome was lost on the way
          lost

vars == <<session, old, flow, late, opened, shown, handed, wasted, lost>>
person == <<opened, shown>>

NoSession == [at |-> "none", parked |-> "nothing"]
Trouble == lost < MaxLost /\ lost' = lost + 1
Alive(f) == session[f].at = "live" /\ f \notin old
Purged == [f \in Flows |-> IF Alive(f) THEN session[f] ELSE NoSession]
Moves(f, place) == flow' = [flow EXCEPT ![f].at = place]

-----------------------------------------------------------------------------
\* register: the sweep comes first, so only live sessions count
Register(f) ==
  /\ flow[f].at = "new"
  /\ LET room == Cardinality({g \in Flows : Alive(g)}) < MaxSessions
     IN /\ session' = IF room THEN [Purged EXCEPT ![f].at = "live"] ELSE Purged
        /\ IF room THEN Moves(f, "polling") ELSE Moves(f, "failed")
  /\ UNCHANGED <<old, late, person, handed, wasted, lost>>

\* link: the consent URL of a live session
Link(f) ==
  /\ session[f].at = "live" /\ f \notin opened
  /\ IF Alive(f) THEN opened' = opened \cup {f} /\ UNCHANGED session
     ELSE session' = [session EXCEPT ![f] = NoSession] /\ UNCHANGED opened
  /\ UNCHANGED <<old, flow, late, shown, handed, wasted, lost>>

\* park without the look at what is parked
TakesFault(f) == Alive(f)
\* park: the first write wins
Takes(f) == Alive(f) /\ session[f].parked = "nothing"
\* callback: a redirect comes when the person consents, and again when they reload
Callback(f, outcome) ==
  /\ f \in opened
  /\ IF Takes(f)
     THEN /\ session' = [session EXCEPT ![f].parked = outcome]
          /\ shown' = [shown EXCEPT ![f] = @ \cup {outcome}]
     ELSE /\ session' = [session EXCEPT ![f] = IF Alive(f) THEN @ ELSE NoSession]
          /\ UNCHANGED shown
  /\ UNCHANGED <<old, flow, late, opened, handed, wasted, lost>>

\* a claim empties the session unless it is still pending
AfterClaim(f) ==
  [session EXCEPT ![f] = IF Alive(f) /\ session[f].parked = "nothing" THEN @ ELSE NoSession]
ClaimAnswer(f) == IF ~Alive(f) THEN "unknown"
                  ELSE IF session[f].parked = "nothing" THEN "pending" ELSE session[f].parked
Hands(f) == handed' = IF ClaimAnswer(f) \in Outcomes THEN [handed EXCEPT ![f] = @ + 1] ELSE handed

Poll(f) ==
  /\ flow[f].at = "polling" /\ Moves(f, "asking")
  /\ UNCHANGED <<session, old, late, person, handed, wasted, lost>>
Claim(f) ==
  /\ flow[f].at = "asking"
  /\ flow' = [flow EXCEPT ![f].at = "told", ![f].answer = ClaimAnswer(f)]
  /\ session' = AfterClaim(f) /\ Hands(f)
  /\ UNCHANGED <<old, late, person, wasted, lost>>
\* the request the daemon gave up on arrives after all
LateClaim(f) ==
  /\ f \in late /\ late' = late \ {f}
  /\ session' = AfterClaim(f) /\ Hands(f)
  /\ wasted' = IF ClaimAnswer(f) \in Outcomes THEN wasted \cup {f} ELSE wasted
  /\ UNCHANGED <<old, flow, person, lost>>

\* a poll whose failure ends the flow
AfterDropFault == "failed"
\* an error of send() is waited out
AfterDrop == "polling"
\* interpret_claim
Receive(f) ==
  LET answer == flow[f].answer
  IN /\ flow[f].at = "told"
     /\ flow' = [flow EXCEPT ![f].at = CASE answer = "pending" -> "polling"
                                         [] answer \in {"unknown", "denied"} -> "failed"
                                         [] OTHER -> "done",
                             ![f].got = IF answer \in Outcomes THEN answer ELSE "nothing"]
     /\ UNCHANGED <<session, old, late, person, handed, wasted, lost>>
Wastes(f) == wasted' = IF flow[f].at = "told" /\ flow[f].answer \in Outcomes
                       THEN wasted \cup {f} ELSE wasted
\* the connection goes before an answer has begun to arrive
Drop(f) ==
  /\ flow[f].at \in {"asking", "told"} /\ Trouble /\ Moves(f, AfterDrop)
  /\ Wastes(f)
  /\ late' \in {late, IF flow[f].at = "asking" THEN late \cup {f} ELSE late}
  /\ UNCHANGED <<session, old, person, handed>>
\* read_capped: the connection goes in the middle of the body, whatever it says
CutOff(f) ==
  /\ flow[f].at = "told" /\ Trouble
  /\ flow' = [flow EXCEPT ![f].at = "failed", ![f].answer = "cut"]
  /\ Wastes(f)
  /\ UNCHANGED <<session, old, late, person, handed>>

Deadline(f) ==
  /\ f \in old /\ flow[f].at = "polling" /\ Moves(f, "failed")
  /\ UNCHANGED <<session, old, late, person, handed, wasted, lost>>
Age(f) ==
  /\ flow[f].at # "new" /\ f \notin old /\ old' = old \cup {f}
  /\ UNCHANGED <<session, flow, late, person, handed, wasted, lost>>
\* sessions are in memory only
RestartBroker ==
  /\ Trouble /\ session' = [f \in Flows |-> NoSession]
  /\ wasted' = wasted \cup {f \in Flows : session[f].parked # "nothing"}
  /\ UNCHANGED <<old, flow, late, person, handed>>
SweepExpired ==
  /\ session # Purged /\ session' = Purged
  /\ UNCHANGED <<old, flow, late, person, handed, wasted, lost>>

-----------------------------------------------------------------------------
Init ==
  /\ session = [f \in Flows |-> NoSession] /\ old = {} /\ late = {}
  /\ flow = [f \in Flows |-> [at |-> "new", answer |-> "none", got |-> "nothing"]]
  /\ opened = {} /\ shown = [f \in Flows |-> {}] /\ handed = [f \in Flows |-> 0]
  /\ wasted = {} /\ lost = 0

Step(f) == Poll(f) \/ Claim(f) \/ Receive(f) \/ Deadline(f)
Next ==
  \/ \E f \in Flows : Register(f) \/ Link(f) \/ Step(f) \/ LateClaim(f) \/ Age(f)
                      \/ Drop(f) \/ CutOff(f)
  \/ \E f \in Flows, o \in Outcomes : Callback(f, o)
  \/ RestartBroker \/ SweepExpired
Spec == Init /\ [][Next]_vars /\ \A f \in Flows : WF_vars(Step(f))

-----------------------------------------------------------------------------
(* One outcome is handed over, once, and it is the one its person was told of: of two
   polls only one has it, and no second redirect replaces what "collected" was said of. *)
HandedOver == \A f \in Flows : /\ handed[f] <= 1
                                /\ \A o \in shown[f] : flow[f].got \in {"nothing", o}

(* A consent that was collected ends the daemon's wait with it, unless its ten minutes
   ran out, the broker restarted, the one answer that carried it was lost, or the body
   of some answer was cut off, if only that of a "pending": a request that is lost or
   served late, and an answer lost before it begins, end nothing (`poll_for_code`). *)
CollectedArrives ==
  \A f \in Flows : shown[f] # {} ~> \/ flow[f].got # "nothing" \/ f \in wasted \cup old
                                    \/ flow[f].answer = "cut"
================================================================================
