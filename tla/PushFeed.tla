-------------------------------- MODULE PushFeed --------------------------------
(***************************************************************************)
(* The APNs pusher (squelch-core/src/push.rs).  It reads the event log     *)
(* past a durable cursor, in batches, asks before each event whether its   *)
(* message still deserves an interruption, and pushes it to every          *)
(* registered phone through the relay.                                     *)
(*                                                                         *)
(* Events are numbered as they are appended, one for each message; the     *)
(* cursor joined the log while it was empty.  The process may die, and the *)
(* relay and APNs may fail.  Left out: tags, chunks of one push, and what  *)
(* is in it.                                                               *)
(***************************************************************************)
EXTENDS Naturals, FiniteSets

CONSTANTS MaxLog, Phones, Batch,
          MaxBreaks   \* failures and restarts

VARIABLES log,      \* the number of events
          quiet,    \* events whose message the user has dealt with
          devices,  \* registered tokens
          gone,     \* tokens that no longer reach anybody
          since,    \* history: the length of the log when a token was registered
          cursor,   \* apns_push_cursor
          pusher,   \* [at, next, last, tokens]: the batch in hand
          landed,   \* pushes APNs accepted
          breaks

vars == <<log, quiet, devices, gone, since, cursor, pusher, landed, breaks>>

Ids == 1 .. MaxLog
Broken == breaks < MaxBreaks /\ breaks' = breaks + 1
NoBatch == [at |-> "idle", next |-> 0, last |-> 0, tokens |-> {}]
End(from) == IF from + Batch < log THEN from + Batch ELSE log

-----------------------------------------------------------------------------
\* append_event; the hint it sends is only a hint
Append ==
  /\ log < MaxLog /\ log' = log + 1
  /\ UNCHANGED <<quiet, devices, gone, since, cursor, pusher, landed, breaks>>
\* the message is opened, done or snoozed
DealWith(e) ==
  /\ e \in 1 .. log \ quiet /\ quiet' = quiet \cup {e}
  /\ UNCHANGED <<log, devices, gone, since, cursor, pusher, landed, breaks>>

Register(t) ==
  /\ t \notin devices \cup gone
  /\ devices' = devices \cup {t} /\ since' = [since EXCEPT ![t] = log]
  /\ UNCHANGED <<log, quiet, gone, cursor, pusher, landed, breaks>>
Unregister(t) ==
  /\ t \in devices /\ devices' = devices \ {t} /\ gone' = gone \cup {t}
  /\ UNCHANGED <<log, quiet, since, cursor, pusher, landed, breaks>>
Retire(t) ==    \* the app is deleted: APNs will say so
  /\ t \in devices \ gone /\ gone' = gone \cup {t}
  /\ UNCHANGED <<log, quiet, devices, since, cursor, pusher, landed, breaks>>

\* drain: the events first, then who is to have them
ReadEvents ==
  /\ pusher.at = "idle" /\ cursor < log
  /\ pusher' = [at |-> "devices", next |-> cursor + 1, last |-> End(cursor), tokens |-> {}]
  /\ UNCHANGED <<log, quiet, devices, gone, since, cursor, landed, breaks>>
ReadDevices ==
  /\ pusher.at = "devices"
  /\ IF devices = {}
     THEN cursor' = pusher.last /\ pusher' = NoBatch          \* history, not backlog
     ELSE pusher' = [pusher EXCEPT !.at = "checking", !.tokens = devices] /\ UNCHANGED cursor
  /\ UNCHANGED <<log, quiet, devices, gone, since, landed, breaks>>

After(tokens) ==
  IF pusher.next = pusher.last THEN NoBatch
  ELSE [pusher EXCEPT !.at = "checking", !.next = @ + 1, !.tokens = tokens]
\* the cursor moves ahead of the push, as the stream's does
PassesFault(e) == TRUE
\* an event that is not to be delivered leaves the cursor alone
PassesNever(e) == FALSE
\* before its push an event is passed only if it is not to be delivered
Passes(e) == e \in quiet
\* notification_delivery_allowed
Check ==
  LET e == pusher.next
  IN /\ pusher.at = "checking"
     /\ cursor' = IF Passes(e) THEN e ELSE cursor
     /\ pusher' = IF e \in quiet THEN After(pusher.tokens) ELSE [pusher EXCEPT !.at = "pushing"]
     /\ UNCHANGED <<log, quiet, devices, gone, since, landed, breaks>>

\* push_event answered: some tokens took it, some are retired, the others failed
Push ==
  LET e == pusher.next
      left == pusher.tokens \ gone
  IN /\ pusher.at = "pushing"
     /\ \E took \in SUBSET left :
          /\ IF took = left THEN UNCHANGED breaks ELSE Broken
          /\ landed' = landed \cup {<<t, e>> : t \in took}
          /\ IF left = {} THEN cursor' = pusher.last /\ pusher' = NoBatch
             ELSE IF took = {} THEN UNCHANGED cursor /\ pusher' = NoBatch   \* nothing_landed
             ELSE cursor' = e /\ pusher' = After(left)
     /\ devices' = devices \ (pusher.tokens \cap gone)
     /\ UNCHANGED <<log, quiet, gone, since>>
\* the relay fails after some of the tokens, or the process dies before the cursor is written
PushBreaks ==
  /\ pusher.at # "idle" /\ Broken
  /\ \E took \in SUBSET (pusher.tokens \ gone) :
       landed' = IF pusher.at = "pushing" THEN landed \cup {<<t, pusher.next>> : t \in took} ELSE landed
  /\ pusher' = NoBatch
  /\ UNCHANGED <<log, quiet, devices, gone, since, cursor>>

-----------------------------------------------------------------------------
Init ==
  /\ log = 0 /\ quiet = {} /\ breaks = 0
  /\ devices = {} /\ gone = {} /\ since = [t \in Phones |-> 0]
  /\ cursor = 0 /\ pusher = NoBatch /\ landed = {}
Drain == ReadEvents \/ ReadDevices \/ Check \/ Push
Next ==
  \/ Append \/ Drain \/ PushBreaks
  \/ \E e \in Ids : DealWith(e)
  \/ \E t \in Phones : Register(t) \/ Unregister(t) \/ Retire(t)
Spec == Init /\ [][Next]_vars /\ WF_vars(Drain)

-----------------------------------------------------------------------------
(* The durable cursor passes an event only when it has landed on some phone, its
   message has been dealt with, or no phone that works was registered before it. *)
PassedWasOffered == \A e \in 1 .. cursor :
  \/ e \in quiet
  \/ \E t \in Phones : <<t, e>> \in landed
  \/ \A t \in devices \ gone : since[t] >= e

(* Every event gets past the pusher, whichever phones die and however the relay fails. *)
PusherCatchesUp == \A e \in Ids : log >= e ~> cursor >= e
=================================================================================
