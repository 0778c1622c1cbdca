------------------------------- MODULE EventStream ------------------------------
(***************************************************************************)
(* One client's event stream (squelch-api/src/events.rs).  A connection    *)
(* subscribes to hints, settles where to start, and sends what the log     *)
(* holds past its cursor, in batches; an event whose message the user has  *)
(* dealt with is passed over.  Nothing about a connection is persisted:    *)
(* the client brings back the last id it has.                              *)
(*                                                                         *)
(* Events are numbered as they are appended.  Frames travel in order, and  *)
(* a connection that ends, or a daemon that stops, takes with it those on  *)
(* their way.                                                              *)
(***************************************************************************)
EXTENDS Naturals

CONSTANTS MaxLog, Batch,
          MaxBreaks   \* connections that end

VARIABLES log,      \* the number of events
          quiet,    \* events whose message the user has dealt with
          stream,   \* [at, cursor, last, more, wake]
          wire,     \* frames on their way
          seen,     \* ids the client has
          breaks

vars == <<log, quiet, stream, wire, seen, breaks>>

Ids == 1 .. MaxLog
NoStream == [at |-> "closed", cursor |-> 0, last |-> 0, more |-> FALSE, wake |-> FALSE]
End(from) == IF from + Batch < log THEN from + Batch ELSE log

-----------------------------------------------------------------------------
\* append_event, and its hint to whoever has subscribed
Append ==
  /\ log < MaxLog /\ log' = log + 1
  /\ stream' = IF stream.at = "closed" THEN stream ELSE [stream EXCEPT !.wake = TRUE]
  /\ UNCHANGED <<quiet, wire, seen, breaks>>
\* the message is opened, done or snoozed
DealWith(e) ==
  /\ e \in 1 .. log \ quiet /\ quiet' = quiet \cup {e}
  /\ UNCHANGED <<log, stream, wire, seen, breaks>>

Last(ids) == IF ids = {} THEN 0 ELSE CHOOSE i \in ids : \A j \in ids : j <= i
\* events_stream: the subscription comes before the cursor is read
Subscribe ==
  /\ stream.at = "closed"
  /\ stream' = [stream EXCEPT !.at = "subscribed"]
  /\ UNCHANGED <<log, quiet, wire, seen, breaks>>
\* the server's own position, which frames lost on the way are below
StartFault == IF seen = {} THEN log ELSE stream.cursor
\* start_cursor: what the client has, or the head for one that has nothing
Start == IF seen = {} THEN log ELSE Last(seen)
\* pump: one read of the log; a short batch is the last one
Batched(from) ==
  [stream EXCEPT !.at = IF End(from) = from THEN "parked" ELSE "pumping",
                 !.cursor = from, !.last = End(from), !.more = End(from) = from + Batch]
ReadStart ==
  /\ stream.at = "subscribed" /\ stream' = Batched(Start)
  /\ UNCHANGED <<log, quiet, wire, seen, breaks>>
Send ==
  LET e == stream.cursor + 1
      sent == [stream EXCEPT !.cursor = e]
  IN /\ stream.at = "pumping" /\ e <= stream.last
     /\ stream' = IF e = stream.last /\ ~stream.more THEN [sent EXCEPT !.at = "parked"] ELSE sent
     /\ wire' = IF e \in quiet THEN wire ELSE wire \cup {e}
     /\ UNCHANGED <<log, quiet, seen, breaks>>
ReadMore ==
  /\ stream.at = "pumping" /\ stream.cursor = stream.last
  /\ stream' = Batched(stream.cursor)
  /\ UNCHANGED <<log, quiet, wire, seen, breaks>>
\* a stream that reads before it takes the hint, and so parks beside a stale log
WokenFault(s) == [s EXCEPT !.at = "parked", !.wake = FALSE]
\* the hint is taken before the log is read again
Woken(s) == [Batched(s.cursor) EXCEPT !.wake = FALSE]
Wake ==
  /\ stream.at = "parked" /\ stream.wake /\ stream' = Woken(stream)
  /\ UNCHANGED <<log, quiet, wire, seen, breaks>>

\* frames arrive in order; a connection that ends takes its frames with it
Arrive ==
  /\ wire # {}
  /\ LET e == CHOOSE i \in wire : \A j \in wire : i <= j
     IN wire' = wire \ {e} /\ seen' = seen \cup {e}
  /\ UNCHANGED <<log, quiet, stream, breaks>>
Disconnect ==
  /\ stream.at # "closed" /\ breaks < MaxBreaks /\ breaks' = breaks + 1
  /\ stream' = [stream EXCEPT !.at = "closed", !.wake = FALSE] /\ wire' = {}
  /\ UNCHANGED <<log, quiet, seen>>

-----------------------------------------------------------------------------
Init == log = 0 /\ quiet = {} /\ breaks = 0 /\ stream = NoStream /\ wire = {} /\ seen = {}
Pump == ReadStart \/ Send \/ ReadMore \/ Wake
Next ==
  \/ Append \/ Subscribe \/ Pump \/ Arrive \/ Disconnect
  \/ \E e \in Ids : DealWith(e)
Spec == Init /\ [][Next]_vars

-----------------------------------------------------------------------------
(* A client that reconnects with the last id it has misses nothing in between: frames
   lost with a connection are sent again. *)
NoGaps == \A i, k \in seen, e \in 1 .. log : i < e /\ e < k => e \in seen \cup quiet

(* Hints may be coalesced and the log may grow while a batch is sent, yet a stream
   never rests beside an event it has not read without a hint to wake it. *)
RestsAtTheHead == stream.at = "parked" /\ stream.cursor < log => stream.wake

(* Replay, hints and reconnections together lose no event a client was owed. *)
StreamIsWhole == NoGaps /\ RestsAtTheHead
=================================================================================
