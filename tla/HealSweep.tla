------------------------------- MODULE HealSweep -------------------------------
(***************************************************************************)
(* The one-time sweep that gives a body to mail stored with a blank one    *)
(* (src/squelch-core/src/sync/mod.rs `heal_blank_bodies`), newest first in *)
(* chunks, with a persisted cursor and a ceiling of fetches per start,     *)
(* while people seal and unseal messages, walks ingest them again, and the *)
(* process stops anywhere.                                                 *)
(***************************************************************************)
EXTENDS Integers, FiniteSets

CONSTANTS Newest,     \* ids of the HTML mail in the store are 1 .. Newest
          Written,    \* those whose body was never blank
          Hopeless,   \* those whose HTML is blank as well
          Chunk, MaxFetches,
          MaxSeals,   \* human rulings on sensitivity
          MaxTrouble  \* refusals, failed writes and restarts

Rows == 1 .. Newest

VARIABLES text,     \* rows with a body
          sealed,   \* rows whose sensitivity is not normal
          cursor,   \* sync_state: every row at or above it has been dealt with
          sweep,    \* the sweep of this process
          excused,  \* history: rows somebody sealed, and rows there was nothing to heal from
          seals, trouble

vars == <<text, sealed, cursor, sweep, excused, seals, trouble>>
mail == <<text, sealed, excused>>

\* below: resume under this id; todo: candidates as scanned; next: where the next chunk starts, 0 at the end
NoSweep == [at |-> "none", below |-> 0, todo |-> {}, next |-> 0, fetched |-> 0]
Over == [NoSweep EXCEPT !.at = "over"]
At(step) == sweep.at = step

-----------------------------------------------------------------------------
Begin ==
  /\ At("none")
  /\ sweep' = IF cursor = 0 THEN Over ELSE [NoSweep EXCEPT !.at = "scan", !.below = cursor]
  /\ UNCHANGED <<mail, cursor, seals, trouble>>

\* one chunk of the rows that may be healed, newest first; only the blank ones are kept,
\* and a short chunk is the last one
Readable == {m \in Rows : m < sweep.below /\ m \notin sealed}
Seen == {m \in Readable : Cardinality({k \in Readable : k > m}) < Chunk}
Scan ==
  /\ At("scan")
  /\ \/ /\ sweep' = [sweep EXCEPT !.at = "fetch", !.todo = Seen \ text,
                       !.next = IF Cardinality(Readable) < Chunk THEN 0
                                ELSE CHOOSE m \in Seen : \A k \in Seen : m <= k]
        /\ UNCHANGED trouble
     \/ trouble < MaxTrouble /\ trouble' = trouble + 1 /\ sweep' = Over
  /\ UNCHANGED <<mail, cursor, seals>>

Row == CHOOSE m \in sweep.todo : \A k \in sweep.todo : k <= m
Passed == [sweep EXCEPT !.todo = @ \ {Row}, !.at = "fetch"]

\* the row stays below the cursor: it is read again on the next start
StopsAtFault == sweep' = [sweep EXCEPT !.at = "save", !.below = Row]
StopsAt == sweep' = [sweep EXCEPT !.at = "save", !.below = Row + 1]

Fetching == At("fetch") /\ sweep.todo # {}
Ceiling ==
  /\ Fetching /\ sweep.fetched >= MaxFetches /\ StopsAt
  /\ UNCHANGED <<mail, cursor, seals, trouble>>
GmailFails ==
  /\ Fetching /\ sweep.fetched < MaxFetches /\ StopsAt
  /\ trouble < MaxTrouble /\ trouble' = trouble + 1
  /\ UNCHANGED <<mail, cursor, seals>>
\* not at Gmail any more, not decodable, or blank in HTML as well
NothingToHeal ==
  /\ Fetching /\ sweep.fetched < MaxFetches
  /\ \/ Row \in Hopeless /\ UNCHANGED trouble
     \/ Row \notin Hopeless /\ trouble < MaxTrouble /\ trouble' = trouble + 1
  /\ sweep' = [Passed EXCEPT !.fetched = @ + 1]
  /\ excused' = excused \cup {Row}
  /\ UNCHANGED <<text, sealed, cursor, seals>>
Fetched ==
  /\ Fetching /\ sweep.fetched < MaxFetches /\ Row \notin Hopeless
  /\ sweep' = [sweep EXCEPT !.at = "write", !.fetched = @ + 1]
  /\ UNCHANGED <<mail, cursor, seals, trouble>>

\* `ingest_message_fresh` looks at the row as it is now
AllowedFault(m) == m \in Rows
Allowed(m) == m \notin sealed
WriteBody ==
  /\ At("write")
  /\ \/ /\ text' = IF Allowed(Row) THEN text \cup {Row} ELSE text
        /\ sweep' = Passed /\ UNCHANGED trouble
     \/ /\ trouble < MaxTrouble /\ trouble' = trouble + 1
        /\ sweep' = Over /\ UNCHANGED text
  /\ UNCHANGED <<sealed, cursor, excused, seals>>

\* the cursor follows each chunk; 0 stands for the flag of a finished sweep
NextChunk ==
  /\ At("fetch") /\ sweep.todo = {}
  /\ \/ /\ cursor' = sweep.next /\ UNCHANGED trouble
        /\ sweep' = IF sweep.next = 0 THEN Over
                    ELSE [sweep EXCEPT !.at = "scan", !.below = sweep.next]
     \/ /\ trouble < MaxTrouble /\ trouble' = trouble + 1
        /\ sweep' = Over /\ UNCHANGED cursor
  /\ UNCHANGED <<mail, seals>>
Save ==
  /\ At("save") /\ sweep' = Over
  /\ \/ cursor' = sweep.below /\ UNCHANGED trouble
     \/ trouble < MaxTrouble /\ trouble' = trouble + 1 /\ UNCHANGED cursor
  /\ UNCHANGED <<mail, seals>>

Sweeps == \/ Begin \/ Scan \/ Ceiling \/ GmailFails \/ NothingToHeal \/ Fetched
          \/ WriteBody \/ NextChunk \/ Save

-----------------------------------------------------------------------------
(* Everybody else. *)
Seal(m) == /\ seals < MaxSeals /\ seals' = seals + 1
           /\ IF m \in sealed THEN sealed' = sealed \ {m} /\ UNCHANGED excused
              ELSE sealed' = sealed \cup {m} /\ excused' = excused \cup {m}
           /\ UNCHANGED <<text, cursor, sweep, trouble>>
\* a walk stores the message again, with today's choice of a body
Resight(m) == /\ m \notin text \cup Hopeless /\ text' = text \cup {m}
              /\ UNCHANGED <<sealed, cursor, sweep, excused, seals, trouble>>
Restart == /\ trouble < MaxTrouble /\ trouble' = trouble + 1
           /\ sweep' = NoSweep
           /\ UNCHANGED <<mail, cursor, seals>>

Init == /\ text = Written /\ sealed = {} /\ excused = {}
        /\ cursor = Newest + 1 /\ sweep = NoSweep /\ seals = 0 /\ trouble = 0
Next == Sweeps \/ Restart \/ \E m \in Rows : Seal(m) \/ Resight(m)
Spec == Init /\ [][Next]_vars
-----------------------------------------------------------------------------

(* What the cursor says is dealt with has its body, unless it was sealed at some
   time or there is nothing to heal it from: wherever a start stopped, and whatever
   write failed, no blank row is stepped over for good. *)
PassedIsHealed == \A m \in Rows : m >= cursor => m \in text \cup excused

(* A seal given while the sweep held an older view of the row wins over the
   sweep's write. *)
SealsStand ==
  [][sweep' # sweep => \A m \in sealed : m \in text' => m \in text]_vars
================================================================================
