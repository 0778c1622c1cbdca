------------------------------- MODULE SyncCursor ------------------------------
(***************************************************************************)
(* The Gmail poll lane of squelch-core (sync/mod.rs): how a mailbox is      *)
(* copied into the store under one persisted history cursor.  A pass is    *)
(* the first backfill, an incremental history walk, or a catch-up; each    *)
(* is an INBOX half and then a SENT half, and each Gmail call and each     *)
(* message ingest is a step of its own, so mail arrives and is deleted,    *)
(* history expires, sends are echoed, calls fail and the process dies      *)
(* between any two.                                                        *)
(*                                                                         *)
(* What is abstracted.  Message m is the m-th record of the mailbox's      *)
(* history, so its history id is m and the newest id is "head"; records    *)
(* other than messageAdded only let the cursor pass over nothing.  A       *)
(* history.list or messages.list call is one page.  All mail is inside     *)
(* the backfill window, decodes, and is outside SPAM (fetched on demand,   *)
(* never under the cursor).  What ingest does to triage is TriageQueue's.  *)
(***************************************************************************)
EXTENDS Naturals

CONSTANTS
    MaxMail,       \* bound: messages that ever reach the mailbox
    InboxMail,     \* messages under the INBOX label
    SentMail,      \* messages under the SENT label; self-addressed ones have both
    Unsubscribed,  \* inbound mail from a sender the user left, past the grace
    MaxTrouble,    \* bound: failed calls and crashes
    MaxBumps       \* bound: the violation counter saturates here

Mail == 1..MaxMail

ASSUME MailAssumption  == MaxMail \in Nat \ {0}
ASSUME LabelAssumption == /\ InboxMail \cup SentMail = Mail
                          /\ Unsubscribed \subseteq InboxMail
ASSUME BoundAssumption == MaxTrouble \in Nat /\ MaxBumps \in Nat

VARIABLES
    head,      \* Gmail: the newest history id
    floor,     \* Gmail: the oldest start id history.list still serves
    deleted,   \* Gmail: messages that are gone
    row,       \* messages: no row, is_sent = 1, or is_sent = 0
    bumps,     \* unsubscribes.violation_count, by the message that raised it
    cursor,    \* sync_state['history'].last_uid; 0: no row
    pc,        \* where the lane is
    mode,      \* which kind of pass it is in
    todo,      \* ids still to be fetched in this half
    claimed,   \* ids the INBOX half returned
    seen,      \* the newest history id this walk has observed
    trouble,   \* faults so far
    raced      \* history: mail that arrived after the listing that would show it

gmail  == <<head, floor, deleted>>
store  == <<row, bumps, cursor>>
lane   == <<pc, mode, todo, claimed, seen>>
vars   == <<gmail, store, lane, trouble, raced>>

--------------------------------------------------------------------------------

Rows   == {"none", "sent", "visible"}
Places == {"down", "idle", "listing", "inbox", "sent"}
Modes  == {"backfill", "walk", "catchup"}

TypeOK ==
    /\ head \in Mail /\ floor \in Mail /\ floor <= head
    /\ deleted \in SUBSET Mail
    /\ row \in [Mail -> Rows]
    /\ bumps \in [Mail -> 0..MaxBumps]
    /\ cursor \in 0..MaxMail /\ cursor <= head
    /\ pc \in Places /\ mode \in Modes
    /\ todo \in SUBSET Mail /\ claimed \in SUBSET Mail
    /\ seen \in 0..MaxMail
    /\ trouble \in Nat
    /\ raced \in SUBSET Mail

\* A first start on a mailbox that already holds some mail.
Init ==
    /\ head \in Mail /\ floor = 1 /\ deleted = {}
    /\ row = [m \in Mail |-> "none"]
    /\ bumps = [m \in Mail |-> 0]
    /\ cursor = 0
    /\ pc = "down" /\ mode = "walk" /\ todo = {} /\ claimed = {} /\ seen = 0
    /\ trouble = 0
    /\ raced = {}

--------------------------------------------------------------------------------
(* Gmail and the send path *)

Arrived == 1..head
Stored  == {m \in Mail : row[m] # "none"}

\* history.list: every message added after the start under the label, deleted
\* ones included; it answers 404 when the start has expired.
Added(label)  == {m \in label : cursor < m /\ m <= head}
HistoryExpired == cursor < floor

\* messages.list: what is under the label now.
Listed(label) == {m \in label : m <= head} \ deleted

\* The listing that would have shown the message is already over: in a walk
\* the INBOX one, in a backfill or catch-up any.
TooLate(m) == \/ pc = "inbox" /\ m \in InboxMail
              \/ pc = "sent" /\ mode # "walk"

Arrive ==
    /\ head < MaxMail
    /\ head' = head + 1
    /\ raced' = IF TooLate(head + 1) THEN raced \cup {head + 1} ELSE raced
    /\ UNCHANGED <<floor, deleted, store, lane, trouble>>

Delete(m) ==
    /\ m \in Arrived \ deleted
    /\ deleted' = deleted \cup {m}
    /\ UNCHANGED <<head, floor, store, lane, trouble, raced>>

HistoryExpires ==
    /\ floor < head
    /\ floor' = head
    /\ UNCHANGED <<head, deleted, store, lane, trouble, raced>>

\* Fault: the last sighting's label wins.
UpsertFault(m, box) == [row EXCEPT ![m] = IF box = "inbox" THEN "visible" ELSE "sent"]

\* upsert_message_conn(): is_sent keeps the minimum of all sightings.
Upsert(m, box) ==
    [row EXCEPT ![m] = IF box = "inbox" \/ @ = "visible" THEN "visible" ELSE "sent"]

\* bump_unsub_violation_conn(): every inbound ingest counts, seen before or not.
Bumped(m, box) ==
    IF box = "inbox" /\ m \in Unsubscribed /\ bumps[m] < MaxBumps
      THEN [bumps EXCEPT ![m] = @ + 1] ELSE bumps

\* echo_sent(): the API stores what it has just sent.
Echo(m) ==
    /\ m \in (SentMail \cap Arrived) \ deleted
    /\ row' = Upsert(m, "sent")
    /\ UNCHANGED <<gmail, bumps, cursor, lane, trouble, raced>>

--------------------------------------------------------------------------------
(* Where the lane goes *)

Reset(place, kind) ==
    /\ pc' = place /\ mode' = kind
    /\ todo' = {} /\ claimed' = {} /\ seen' = 0

GoDown     == Reset("down", "walk")      \* run(): back off, then run_once again
NextTick   == Reset("idle", "walk")      \* poll_once() returned Ok
GoCatchUp  == Reset("listing", "catchup")

\* run_once(): no cursor yet means a backfill first.
RunOnce ==
    /\ pc = "down"
    /\ IF cursor = 0 THEN Reset("listing", "backfill") ELSE NextTick
    /\ UNCHANGED <<gmail, store, trouble, raced>>

\* poll_once() and the INBOX walk, or its 404.
PollOnce ==
    /\ pc = "idle"
    /\ IF HistoryExpired
         THEN GoCatchUp
         ELSE /\ pc' = "inbox" /\ mode' = "walk"
              /\ todo' = Added(InboxMail) /\ claimed' = Added(InboxMail)
              /\ seen' = head
    /\ UNCHANGED <<gmail, store, trouble, raced>>

\* backfill_inner() and catch_up_inner(): the INBOX listing.
ListInbox ==
    /\ pc = "listing"
    /\ pc' = "inbox"
    /\ todo' = Listed(InboxMail) /\ claimed' = Listed(InboxMail)
    /\ UNCHANGED <<gmail, store, mode, seen, trouble, raced>>

\* history_walk_label() sorts its ids; listings come in any order.
Upcoming(m) == m \in todo /\ (mode = "walk" => \A k \in todo : m <= k)

\* One message of fetch_raw_and_ingest(); pc is also the mailbox it is under.
Fetch(m) ==
    /\ pc \in {"inbox", "sent"} /\ Upcoming(m) /\ m \notin deleted
    /\ row' = Upsert(m, pc)
    /\ bumps' = Bumped(m, pc)
    /\ todo' = todo \ {m}
    /\ UNCHANGED <<gmail, cursor, pc, mode, claimed, seen, trouble, raced>>

\* Fault: a missing INBOX message bounces the lane like any other error.
OnMissingFault == IF pc = "sent" /\ mode = "walk" THEN NextTick ELSE GoDown

\* A single message's 404 is the same CoreError::NotFound as an expired
\* cursor's: in a walk's INBOX half it falls back to a catch-up, in its SENT
\* half it holds the cursor, elsewhere it bounces the lifecycle.
OnMissing ==
    IF mode # "walk" THEN GoDown ELSE IF pc = "inbox" THEN GoCatchUp ELSE NextTick

FetchMissing(m) ==
    /\ pc \in {"inbox", "sent"} /\ Upcoming(m) /\ m \in deleted
    /\ OnMissing
    /\ UNCHANGED <<gmail, store, trouble, raced>>

\* The SENT half: a walk and a catch-up take out what INBOX returned.
SentIds == IF mode = "walk" THEN Added(SentMail) \ claimed
           ELSE IF mode = "catchup" THEN Listed(SentMail) \ claimed
           ELSE Listed(SentMail)

ListSent ==
    /\ pc = "inbox" /\ todo = {}
    /\ IF mode = "walk" /\ HistoryExpired
         THEN GoCatchUp
         ELSE /\ pc' = "sent" /\ todo' = SentIds
              /\ seen' = IF mode = "walk" THEN head ELSE seen
              /\ UNCHANGED <<mode, claimed>>
    /\ UNCHANGED <<gmail, store, trouble, raced>>

\* advance_history_cursor(): a walk never moves the cursor backwards.
AdvanceHistoryCursor(observed) == IF observed > cursor THEN observed ELSE cursor

\* The one cursor write: what a walk observed, or the profile's id read last.
Commit ==
    /\ pc = "sent" /\ todo = {}
    /\ cursor' = IF mode = "walk" THEN AdvanceHistoryCursor(seen) ELSE head
    /\ NextTick
    /\ UNCHANGED <<gmail, row, bumps, trouble, raced>>

\* Fault: a failed SENT half still commits what INBOX observed.
CallFailsFault ==
    /\ trouble < MaxTrouble /\ trouble' = trouble + 1
    /\ pc # "down"
    /\ IF mode = "walk" /\ pc \in {"inbox", "sent"}
         THEN NextTick /\ cursor' = AdvanceHistoryCursor(seen)
         ELSE GoDown /\ UNCHANGED cursor
    /\ UNCHANGED <<gmail, row, bumps, raced>>

\* The walk's SENT half is the part whose failure only holds the cursor.
Holding == /\ mode = "walk"
           /\ \/ pc = "inbox" /\ todo = {}
              \/ pc = "sent" /\ todo # {}

\* A Gmail call fails (quota, network, server error).
CallFails ==
    /\ trouble < MaxTrouble /\ trouble' = trouble + 1
    /\ pc # "down"
    /\ IF Holding THEN NextTick ELSE GoDown
    /\ UNCHANGED <<gmail, store, raced>>

\* The process dies, is shut down mid-pass, or the store refuses a write.
Crash ==
    /\ trouble < MaxTrouble /\ trouble' = trouble + 1
    /\ pc # "down"
    /\ GoDown
    /\ UNCHANGED <<gmail, store, raced>>

--------------------------------------------------------------------------------

LaneStep ==
    \/ RunOnce \/ PollOnce \/ ListInbox \/ ListSent \/ Commit
    \/ \E m \in Mail : Fetch(m) \/ FetchMissing(m)

Next ==
    \/ Arrive \/ HistoryExpires
    \/ \E m \in Mail : Delete(m) \/ Echo(m)
    \/ LaneStep
    \/ CallFails \/ Crash

Spec == Init /\ [][Next]_vars

\* The lane never stops: every await in it ends, every error leads to another
\* run_once, every poll to the next tick.  Nothing is assumed of Gmail.
FairSpec == Spec /\ WF_vars(LaneStep)

--------------------------------------------------------------------------------
(* Properties *)

\* Crash safety of the single cursor commit.  Mail behind the cursor is in
\* the store, unless Gmail no longer has it or it arrived after the listing
\* that would have shown it.
OnlyRacersSkipped ==
    \A m \in Mail : m <= cursor => m \in Stored \cup deleted \cup raced

\* Mail behind the cursor that the user received is visible, whatever other
\* label, echo or re-fetch it was also seen under.
InboundIsVisible ==
    \A m \in InboxMail :
        m <= cursor /\ row[m] = "sent" => m \in deleted \cup raced

\* A walk steps over no INBOX history: "so the next poll re-walks both labels
\* from the same start rather than stepping over INBOX history" (history_walk).
WalkStepsOverNothing ==
    [][\A m \in InboxMail :
          /\ pc = "sent" /\ mode = "walk"
          /\ cursor < m /\ m <= cursor' /\ m \notin deleted
          => row[m] # "none"]_vars

\* A stuck SENT half starves no INBOX mail: what arrives under INBOX is
\* stored, unless it is deleted or arrived between two halves of a pass.
InboxLands ==
    \A m \in InboxMail :
        m <= head ~> m \in Stored \cup deleted \cup raced

\* Mail the user writes elsewhere lands too, but a vanished SENT message can
\* hold it back until the history that names it expires, as Gmail's does.
SentLands ==
    []<>(floor = head) =>
        \A m \in SentMail :
            m <= head ~> m \in Stored \cup deleted \cup raced

\* All mail lands in the end, although a single message's 404 looks like an
\* expired cursor and the SENT half may fail on every poll meanwhile.
MailLands == InboxLands /\ SentLands
================================================================================
