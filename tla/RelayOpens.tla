------------------------------- MODULE RelayOpens ------------------------------
(***************************************************************************)
(* Opens of sent mail: the relay's buffer (src/squelch-relay/src/opens.rs) *)
(* and the daemon that drains it (src/squelch-core/src/tracking.rs).       *)
(* Every fetch of a pixel is a row under a rising id; presenting a cursor  *)
(* deletes what it covers and returns the next page; the daemon stores a   *)
(* row and then makes its id the cursor.                                   *)
(*                                                                         *)
(* Each operation of the relay is one step under its lock.  Answers may be *)
(* lost, the daemon may die between any two writes, and the relay restarts *)
(* with its file or, when it has none, with nothing.  Opens are numbered   *)
(* as they happen.  Left out: the purge of rows after 90 days, and the     *)
(* nudge for a newly opened message, which is best effort.                 *)
(***************************************************************************)
EXTENDS Naturals, FiniteSets

CONSTANTS Opens,        \* 1 .. n
          Tokens, Sent, \* shapes of tokens, and those of this daemon's mail
          MaxPerToken, MaxRows, DrainLimit,
          MaxTrouble    \* lost answers, crashes and restarts

VARIABLES disk,     \* whether the relay has a file; never changes
          buffer,   \* rows [id, open, token]
          nextId, happened,
          cursor, page, busy, \* the daemon's cursor, the rows in hand, the one just recorded
          stored,   \* how often each open has been recorded
          refused,  \* opens record_open has turned down
          acked,    \* history: opens deleted because a cursor covered them
          dropped,  \* history: opens lost with the memory of a relay
          trouble

vars == <<disk, buffer, nextId, happened, cursor, page, busy, stored, refused, acked, dropped, trouble>>
daemon == <<cursor, page, busy, stored, refused>>

Row(i, o, t) == [id |-> i, open |-> o, token |-> t]
OfToken(rows, t) == {r \in rows : r.token = t}
First(rows) == CHOOSE r \in rows : \A q \in rows : r.id <= q.id
Trouble == trouble < MaxTrouble /\ trouble' = trouble + 1

-----------------------------------------------------------------------------
(* The relay *)

Depth(rows, r) == Cardinality({q \in OfToken(rows, r.token) : q.id <= r.id})
\* the newest rows go, whoever they are from
EvictedBeforeFault(rows, q, r) == q.id > r.id
\* trim_to: the deepest rows of a token first, then the newest
EvictedBefore(rows, q, r) ==
  \/ Depth(rows, q) > Depth(rows, r)
  \/ Depth(rows, q) = Depth(rows, r) /\ q.id > r.id
Trimmed(rows) ==
  {r \in rows : Cardinality({q \in rows : EvictedBefore(rows, q, r)}) + MaxRows >= Cardinality(rows)}

\* record: silently nothing past the token's allowance; the trim runs on a clock
Fetch(t) ==
  LET o == happened + 1
      room == Cardinality(OfToken(buffer, t)) < MaxPerToken
      rows == IF room THEN buffer \cup {Row(nextId, o, t)} ELSE buffer
  IN /\ o \in Opens /\ happened' = o
     /\ nextId' = IF room THEN nextId + 1 ELSE nextId
     /\ buffer' \in {rows, Trimmed(rows)}
     /\ UNCHANGED <<disk, daemon, acked, dropped, trouble>>

\* the rows a drain returns, oldest first
Page(rows) == {r \in rows : Cardinality({q \in rows : q.id < r.id}) < DrainLimit}
\* drain: the delete is the acknowledgement, one transaction with the read
Drained == {r \in buffer : r.id > cursor}
Drain ==
  /\ page = {} /\ busy = 0 /\ buffer # {}
  /\ buffer' = Drained
  /\ acked' = acked \cup {r.open : r \in buffer \ Drained}
  /\ \/ page' = Page(Drained) /\ UNCHANGED trouble
     \/ page' = {} /\ Trouble                             \* the answer is lost
  /\ UNCHANGED <<disk, nextId, happened, cursor, busy, stored, refused, dropped>>

RestartRelay ==
  /\ Trouble
  /\ buffer' = IF disk THEN buffer ELSE {}
  /\ nextId' = IF disk THEN nextId ELSE 1
  /\ dropped' = IF disk THEN dropped ELSE dropped \cup {r.open : r \in buffer}
  /\ UNCHANGED <<disk, happened, daemon, acked>>

-----------------------------------------------------------------------------
(* The daemon *)

\* the cursor is where the page ends as soon as its first row is stored
CursorAfterFault(r) == LET ids == {q.id : q \in page} IN CHOOSE i \in ids : \A j \in ids : j <= i
\* every row moves the cursor, one at a time, recorded or not
CursorAfter(r) == r.id

\* record_open: only for a token of ours, and only so many
Record ==
  LET r == First(page)
  IN /\ page # {} /\ busy = 0
     /\ IF r.token \in Sent
        THEN stored' = [stored EXCEPT ![r.open] = @ + 1] /\ UNCHANGED refused
        ELSE refused' = refused \cup {r.open} /\ UNCHANGED stored
     /\ busy' = r.id
     /\ UNCHANGED <<disk, buffer, nextId, happened, cursor, page, acked, dropped, trouble>>
MoveCursor ==
  LET r == First(page)
  IN /\ busy # 0 /\ busy' = 0 /\ page' = page \ {r}
     /\ cursor' = CursorAfter(r)
     /\ UNCHANGED <<disk, buffer, nextId, happened, stored, refused, acked, dropped, trouble>>

\* the process dies, or a write fails, which ends the pass
Interrupted ==
  /\ page # {} /\ Trouble
  /\ page' = {} /\ busy' = 0
  /\ UNCHANGED <<disk, buffer, nextId, happened, cursor, stored, refused, acked, dropped>>

-----------------------------------------------------------------------------
Init ==
  /\ disk \in BOOLEAN /\ buffer = {} /\ nextId = 1 /\ happened = 0
  /\ cursor = 0 /\ page = {} /\ busy = 0
  /\ stored = [o \in Opens |-> 0] /\ refused = {}
  /\ acked = {} /\ dropped = {} /\ trouble = 0
Pass == Drain \/ Record \/ MoveCursor
Next == (\E t \in Tokens : Fetch(t)) \/ Pass \/ RestartRelay \/ Interrupted
Spec == Init /\ [][Next]_vars

-----------------------------------------------------------------------------
Kept(o) == stored[o] > 0 \/ o \in refused

(* A relay with a file deletes nothing as acknowledged that its daemon has not
   stored or turned down, whatever is lost or dies in between. *)
AckedIsKept == disk => \A o \in acked : Kept(o)

(* The ceiling is paid by whoever fills the table: while a token keeps a second row,
   no other token loses its first, so a flood cannot choose what is deleted. *)
FirstRowsStand ==
  [][ \A r \in buffer : (Depth(buffer, r) = 1 /\ r \notin buffer' /\ happened' # happened) =>
        \A t \in Tokens : Cardinality(OfToken(buffer', t)) <= 1 ]_vars

(* An open leaves the spool for a reason: it is kept, or its token has had its share. *)
OpensStand == []AckedIsKept /\ FirstRowsStand
================================================================================
