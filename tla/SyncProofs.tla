------------------------------- MODULE SyncProofs ------------------------------
(***************************************************************************)
(* Proofs about SyncCursor, for a mailbox of any size: types, and the two  *)
(* promises of the single cursor commit.                                   *)
(*                                                                         *)
(* The promises speak of mail behind the cursor, which only Commit moves;  *)
(* what makes them inductive is what a pass owes before it may commit.     *)
(* Due(m) is mail this pass has to account for.  After the INBOX listing   *)
(* every due inbound message was claimed, and whatever was claimed and is  *)
(* no longer to do is visible; after the SENT listing every due inbound    *)
(* message is visible and every due sent one is stored or still to do.     *)
(***************************************************************************)
EXTENDS SyncCursor, TLAPS

Excused == deleted \cup raced

\* What the current pass may commit up to, and what it must account for.
Horizon == IF mode = "walk" THEN seen ELSE head
Due(m)  == m <= Horizon /\ (mode = "walk" => cursor < m)

Bounds ==
    /\ pc \in {"inbox", "sent"} /\ mode = "walk" => seen <= head
    /\ pc = "listing" => mode # "walk"

InboxHalf ==
    pc = "inbox" =>
        /\ claimed \subseteq InboxMail /\ todo \subseteq claimed
        /\ \A m \in claimed : m \in todo \/ row[m] = "visible"
        /\ \A m \in InboxMail :
              m <= head /\ (mode = "walk" => cursor < m) => m \in claimed \cup Excused

SentHalf ==
    pc = "sent" =>
        /\ \A m \in InboxMail : Due(m) => row[m] = "visible" \/ m \in Excused
        /\ \A m \in SentMail : Due(m) => m \in Stored \cup todo \cup Excused

CursorInv == TypeOK /\ Bounds /\ InboxHalf /\ SentHalf /\ OnlyRacersSkipped /\ InboundIsVisible

--------------------------------------------------------------------------------

LEMMA InitCursor == Init => CursorInv
<1> USE MailAssumption, LabelAssumption, BoundAssumption
<1> SUFFICES ASSUME Init PROVE CursorInv
  OBVIOUS
<1>1. TypeOK
  BY DEF Init, TypeOK, Mail, Rows, Places, Modes
<1> QED
  BY <1>1 DEF Init, CursorInv, Bounds, InboxHalf, SentHalf, OnlyRacersSkipped,
              InboundIsVisible, Mail, TypeOK

\* An upsert loses nothing: what is stored stays stored, what is visible stays
\* visible.
LEMMA UpsertKeeps ==
    ASSUME NEW m \in Mail, NEW box, TypeOK, row' = Upsert(m, box)
    PROVE  /\ row' \in [Mail -> Rows]
           /\ \A n \in Mail : row[n] = "visible" => row'[n] = "visible"
           /\ \A n \in Mail : row[n] # "none" => row'[n] # "none"
           /\ row'[m] # "none"
           /\ box = "inbox" => row'[m] = "visible"
           /\ \A n \in Mail : row'[n] = "sent" => row[n] = "sent" \/ (n = m /\ row[n] = "none")
  BY DEF TypeOK, Upsert, Rows

LEMMA TypeStep == TypeOK /\ Bounds /\ [Next]_vars => TypeOK'
<1> USE MailAssumption, LabelAssumption, BoundAssumption
<1> SUFFICES ASSUME TypeOK, Bounds, [Next]_vars PROVE TypeOK'
  OBVIOUS
<1>a. \A S : Added(S) \cap S \in SUBSET S
  OBVIOUS
<1>b. Added(InboxMail) \in SUBSET Mail /\ Listed(InboxMail) \in SUBSET Mail
  BY DEF Added, Listed
<1>c. SentIds \in SUBSET Mail
  BY DEF SentIds, Added, Listed
<1>1. CASE Arrive
  BY <1>1 DEF Arrive, TypeOK, Mail, store, lane
<1>2. CASE HistoryExpires
  BY <1>2 DEF HistoryExpires, TypeOK, Mail, store, lane
<1>3. CASE \E m \in Mail : Delete(m)
  BY <1>3 DEF Delete, TypeOK, Mail, store, lane, Arrived
<1>4. CASE \E m \in Mail : Echo(m)
  <2> PICK m \in Mail : Echo(m)
    BY <1>4
  <2>1. row' \in [Mail -> Rows]
    BY UpsertKeeps DEF Echo
  <2> QED
    BY <2>1 DEF Echo, TypeOK, gmail, lane
<1>5. CASE RunOnce
  BY <1>5 DEF RunOnce, TypeOK, Reset, NextTick, Places, Modes, gmail, store
<1>6. CASE PollOnce
  BY <1>6, <1>b DEF PollOnce, TypeOK, Reset, GoCatchUp, Places, Modes, gmail, store, Mail
<1>7. CASE ListInbox
  BY <1>7, <1>b DEF ListInbox, TypeOK, Places, gmail, store
<1>8. CASE ListSent
  <2>1. CASE mode = "walk" /\ HistoryExpired
    BY <1>8, <2>1 DEF ListSent, TypeOK, Reset, GoCatchUp, Places, Modes, gmail, store
  <2>2. CASE ~(mode = "walk" /\ HistoryExpired)
    <3>1. pc' = "sent" /\ todo' = SentIds /\ UNCHANGED <<mode, claimed, gmail, store, trouble, raced>>
      BY <1>8, <2>2 DEF ListSent
    <3>2. seen' \in 0..MaxMail
      BY <1>8, <2>2 DEF ListSent, TypeOK, Mail
    <3> QED
      BY <3>1, <3>2, <1>c DEF TypeOK, Places, gmail, store
  <2> QED
    BY <2>1, <2>2
<1>9. CASE Commit
  BY <1>9 DEF Commit, TypeOK, Bounds, Reset, NextTick, Places, Modes, gmail,
              AdvanceHistoryCursor, Mail
<1>10. CASE \E m \in Mail : Fetch(m)
  <2> PICK m \in Mail : Fetch(m)
    BY <1>10
  <2>1. row' \in [Mail -> Rows]
    BY UpsertKeeps DEF Fetch
  <2>2. bumps' \in [Mail -> 0..MaxBumps]
    BY DEF Fetch, Bumped, TypeOK
  <2> QED
    BY <2>1, <2>2 DEF Fetch, TypeOK, gmail
<1>11. CASE \E m \in Mail : FetchMissing(m)
  BY <1>11 DEF FetchMissing, OnMissing, GoDown, GoCatchUp, NextTick, Reset, TypeOK,
               Places, Modes, gmail, store
<1>12. CASE CallFails
  BY <1>12 DEF CallFails, GoDown, NextTick, Reset, TypeOK, Places, Modes, gmail, store
<1>13. CASE Crash
  BY <1>13 DEF Crash, GoDown, Reset, TypeOK, Places, Modes, gmail, store
<1>14. CASE UNCHANGED vars
  BY <1>14 DEF vars, gmail, store, lane, TypeOK
<1> QED
  BY <1>1, <1>2, <1>3, <1>4, <1>5, <1>6, <1>7, <1>8, <1>9, <1>10, <1>11, <1>12, <1>13, <1>14
     DEF Next, LaneStep

--------------------------------------------------------------------------------

\* Leaving a pass owes nothing: no half is open and the store is untouched.
LEMMA LeavingKeeps ==
    ASSUME CursorInv, TypeOK', UNCHANGED <<gmail, store, raced>>,
           pc' \in {"down", "idle", "listing"}, pc' = "listing" => mode' # "walk"
    PROVE  CursorInv'
  BY DEF CursorInv, Bounds, InboxHalf, SentHalf, OnlyRacersSkipped, InboundIsVisible,
         gmail, store, Stored

\* Mail comes and goes and is echoed; the lane does not move.
LEMMA OutsideKeeps ==
    ASSUME CursorInv, TypeOK', UNCHANGED <<lane, cursor>>,
           Arrive \/ HistoryExpires \/ \E m \in Mail : Delete(m) \/ Echo(m)
    PROVE  CursorInv'
<1> USE MailAssumption, LabelAssumption
<1>0. TypeOK /\ CursorInv
  BY DEF CursorInv
<1>1. \A n \in Mail : /\ row[n] = "visible" => row'[n] = "visible"
                      /\ row[n] # "none" => row'[n] # "none"
  BY <1>0, UpsertKeeps DEF Arrive, HistoryExpires, Delete, Echo, store
<1>2. deleted \subseteq deleted' /\ raced \subseteq raced'
  BY DEF Arrive, HistoryExpires, Delete, Echo, gmail
<1>3. head' = head \/ (head' = head + 1 /\ Arrive)
  BY DEF Arrive, HistoryExpires, Delete, Echo, gmail
<1>4. \A m \in Mail : m > head /\ m <= head' /\ TooLate(m) => m \in raced'
  BY <1>0, <1>3 DEF Arrive, TypeOK, Mail
<1>5. \A m \in Mail : row'[m] = "sent" => row[m] \in {"sent", "none"}
  BY <1>0, UpsertKeeps DEF Arrive, HistoryExpires, Delete, Echo, store
<1>6. Bounds'
  BY <1>0, <1>3 DEF CursorInv, Bounds, TypeOK, Mail, lane
<1>7. InboxHalf'
  <2> SUFFICES ASSUME pc = "inbox"
               PROVE /\ claimed \subseteq InboxMail /\ todo \subseteq claimed
                     /\ \A m \in claimed : m \in todo \/ row'[m] = "visible"
                     /\ \A m \in InboxMail :
                          m <= head' /\ (mode = "walk" => cursor < m)
                            => m \in claimed \cup Excused'
    BY DEF InboxHalf, lane
  <2>1. claimed \subseteq InboxMail /\ todo \subseteq claimed
    BY <1>0 DEF CursorInv, InboxHalf
  <2>2. \A m \in claimed : m \in todo \/ row'[m] = "visible"
    BY <1>0, <1>1, <2>1 DEF CursorInv, InboxHalf
  <2>3. ASSUME NEW m \in InboxMail, m <= head', mode = "walk" => cursor < m
        PROVE  m \in claimed \cup Excused'
    <3>1. CASE m <= head
      BY <3>1, <2>3, <1>0, <1>2 DEF CursorInv, InboxHalf, Excused
    <3>2. CASE ~(m <= head)
      <4>1. TooLate(m) /\ m \in Mail /\ m > head
        BY <3>2, <1>0 DEF TooLate, TypeOK, Mail
      <4> QED
        BY <4>1, <2>3, <1>4 DEF Excused
    <3> QED
      BY <3>1, <3>2
  <2> QED
    BY <2>1, <2>2, <2>3
<1>8. SentHalf'
  <2> SUFFICES ASSUME pc = "sent"
               PROVE /\ \A m \in InboxMail :
                          Due(m)' => row'[m] = "visible" \/ m \in Excused'
                     /\ \A m \in SentMail :
                          Due(m)' => m \in Stored' \cup todo \cup Excused'
    BY DEF SentHalf, lane
  <2>1. ASSUME NEW m \in Mail, Due(m)', ~Due(m)
        PROVE  m \in Excused'
    <3>1. mode # "walk" /\ m > head /\ m <= head'
      BY <2>1, <1>0 DEF Due, Horizon, TypeOK, Mail, lane
    <3> QED
      BY <3>1, <1>4 DEF TooLate, Excused
  <2>2. ASSUME NEW m \in InboxMail, Due(m)' PROVE row'[m] = "visible" \/ m \in Excused'
    BY <2>1, <2>2, <1>0, <1>1, <1>2 DEF CursorInv, SentHalf, Excused
  <2>3. ASSUME NEW m \in SentMail, Due(m)' PROVE m \in Stored' \cup todo \cup Excused'
    BY <2>1, <2>3, <1>0, <1>1, <1>2 DEF CursorInv, SentHalf, Excused, Stored
  <2> QED
    BY <2>2, <2>3
<1>9. OnlyRacersSkipped'
  BY <1>0, <1>1, <1>2 DEF CursorInv, OnlyRacersSkipped, Stored
<1>10. InboundIsVisible'
  <2> SUFFICES ASSUME NEW m \in InboxMail, m <= cursor, row'[m] = "sent"
               PROVE  m \in deleted' \cup raced'
    BY DEF InboundIsVisible
  <2>1. m \in Stored \cup deleted \cup raced
    BY <1>0 DEF CursorInv, OnlyRacersSkipped
  <2>2. CASE row[m] = "sent"
    BY <2>2, <1>0, <1>2 DEF CursorInv, InboundIsVisible
  <2>3. CASE row[m] = "none"
    BY <2>1, <2>3, <1>2 DEF Stored
  <2> QED
    BY <2>2, <2>3, <1>5
<1> QED
  BY <1>6, <1>7, <1>8, <1>9, <1>10 DEF CursorInv

--------------------------------------------------------------------------------

\* An INBOX listing or walk starts a half with everything due in it.
LEMMA ListingKeeps ==
    ASSUME CursorInv, TypeOK', PollOnce \/ ListInbox
    PROVE  CursorInv'
<1> USE MailAssumption, LabelAssumption
<1>0. TypeOK
  BY DEF CursorInv
<1>1. CASE pc' \in {"down", "idle", "listing"}
  BY <1>1, LeavingKeeps DEF PollOnce, ListInbox, GoCatchUp, Reset
<1>2. CASE pc' = "inbox"
  <2>1. /\ UNCHANGED <<gmail, store, raced>> /\ todo' = claimed' /\ claimed' \subseteq InboxMail
        /\ mode' = "walk" => seen' = head
        /\ \A m \in InboxMail :
              m <= head /\ (mode' = "walk" => cursor < m) => m \in claimed' \cup deleted
    <3>1. CASE PollOnce
      BY <1>2, <3>1 DEF PollOnce, GoCatchUp, Reset, Added
    <3>2. CASE ListInbox
      <4>1. mode # "walk" /\ mode' # "walk"
        BY <3>2 DEF ListInbox, CursorInv, Bounds
      <4> QED
        BY <3>2, <4>1 DEF ListInbox, Listed
    <3> QED
      BY <3>1, <3>2
  <2> QED
    BY <1>2, <2>1, <1>0 DEF CursorInv, Bounds, InboxHalf, SentHalf, Excused, OnlyRacersSkipped,
                      InboundIsVisible, Stored, gmail, store, TypeOK, Mail
<1> QED
  BY <1>1, <1>2 DEF PollOnce, ListInbox, GoCatchUp, Reset

\* One message ingested: it leaves the list because it is in the store.
LEMMA FetchKeeps ==
    ASSUME CursorInv, TypeOK', NEW m \in Mail, Fetch(m)
    PROVE  CursorInv'
<1> USE MailAssumption, LabelAssumption
<1>0. TypeOK /\ row' = Upsert(m, pc) /\ todo' = todo \ {m} /\ pc \in {"inbox", "sent"}
      /\ UNCHANGED <<gmail, cursor, pc, mode, claimed, seen, raced>>
  BY DEF CursorInv, Fetch
<1>1. /\ \A n \in Mail : row[n] = "visible" => row'[n] = "visible"
      /\ \A n \in Mail : row[n] # "none" => row'[n] # "none"
      /\ row'[m] # "none"
      /\ pc = "inbox" => row'[m] = "visible"
      /\ \A n \in Mail : row'[n] = "sent" => row[n] = "sent" \/ (n = m /\ row[n] = "none")
  BY <1>0, UpsertKeeps
<1>2. Bounds'
  BY <1>0 DEF CursorInv, Bounds, gmail
<1>3. InboxHalf'
  BY <1>0, <1>1 DEF CursorInv, InboxHalf, Excused, gmail, TypeOK
<1>4. SentHalf'
  BY <1>0, <1>1 DEF CursorInv, SentHalf, Excused, Due, Horizon, Stored, gmail, TypeOK
<1>5. OnlyRacersSkipped'
  BY <1>0, <1>1 DEF CursorInv, OnlyRacersSkipped, Stored, gmail
<1>6. InboundIsVisible'
  BY <1>0, <1>1 DEF CursorInv, InboundIsVisible, OnlyRacersSkipped, Stored, gmail
<1> QED
  BY <1>2, <1>3, <1>4, <1>5, <1>6 DEF CursorInv

\* The INBOX half is over: everything it claimed is visible.
LEMMA ListSentKeeps ==
    ASSUME CursorInv, TypeOK', ListSent, pc' = "sent"
    PROVE  CursorInv'
<1> USE MailAssumption, LabelAssumption
<1>0. /\ TypeOK /\ pc = "inbox" /\ todo = {} /\ todo' = SentIds
      /\ UNCHANGED <<gmail, store, mode, claimed, raced>>
      /\ mode = "walk" => seen' = head
  BY DEF CursorInv, ListSent, GoCatchUp, Reset
<1>1. \A n \in claimed : row[n] = "visible"
  BY <1>0 DEF CursorInv, InboxHalf
<1>2. \A n \in Mail : Due(n)' <=> n <= head /\ (mode = "walk" => cursor < n)
  BY <1>0 DEF Due, Horizon, gmail, store
<1>3. Bounds'
  BY <1>0 DEF CursorInv, Bounds, gmail, store, TypeOK, Mail
<1>4. ASSUME NEW n \in InboxMail, Due(n)' PROVE row'[n] = "visible" \/ n \in Excused'
  <2>1. n \in claimed \cup Excused
    BY <1>0, <1>2, <1>4 DEF CursorInv, InboxHalf
  <2> QED
    BY <2>1, <1>0, <1>1 DEF Excused, gmail, store
<1>5. ASSUME NEW n \in SentMail, Due(n)' PROVE n \in Stored' \cup todo' \cup Excused'
  <2>1. n \in claimed => n \in Stored
    BY <1>1 DEF Stored
  <2>2. n \in SentIds \cup claimed \cup deleted
    BY <1>2, <1>5 DEF SentIds, Added, Listed
  <2> QED
    BY <2>1, <2>2, <1>0 DEF Stored, Excused, gmail, store
<1>6. SentHalf'
  BY <1>4, <1>5 DEF SentHalf
<1> QED
  BY <1>0, <1>3, <1>6 DEF CursorInv, InboxHalf, OnlyRacersSkipped, InboundIsVisible, Stored,
                          gmail, store

\* The commit: the pass owes nothing up to where the cursor goes.
LEMMA CommitKeeps ==
    ASSUME CursorInv, TypeOK', Commit
    PROVE  CursorInv'
<1> USE MailAssumption, LabelAssumption
<1>0. /\ TypeOK /\ pc = "sent" /\ todo = {} /\ pc' = "idle"
      /\ UNCHANGED <<gmail, row, raced>>
      /\ cursor' = IF mode = "walk" THEN AdvanceHistoryCursor(seen) ELSE head
  BY DEF CursorInv, Commit, NextTick, Reset
<1>1. Bounds'
  BY <1>0 DEF CursorInv, Bounds, AdvanceHistoryCursor, gmail, TypeOK, Mail
<1>2. \A m \in Mail : m <= cursor' => m <= cursor \/ Due(m)
  BY <1>0 DEF Due, Horizon, AdvanceHistoryCursor, TypeOK, Mail
<1>3. OnlyRacersSkipped'
  <2> SUFFICES ASSUME NEW m \in Mail, m <= cursor'
               PROVE  m \in Stored \cup deleted \cup raced
    BY <1>0 DEF OnlyRacersSkipped, Stored, gmail
  <2>1. CASE m <= cursor
    BY <2>1 DEF CursorInv, OnlyRacersSkipped
  <2>2. CASE Due(m)
    BY <2>2, <1>0 DEF CursorInv, SentHalf, Excused, Stored
  <2> QED
    BY <2>1, <2>2, <1>2
<1>4. InboundIsVisible'
  <2> SUFFICES ASSUME NEW m \in InboxMail, m <= cursor', row[m] = "sent"
               PROVE  m \in deleted \cup raced
    BY <1>0 DEF InboundIsVisible, gmail
  <2>1. CASE m <= cursor
    BY <2>1 DEF CursorInv, InboundIsVisible
  <2>2. CASE Due(m)
    BY <2>2, <1>0 DEF CursorInv, SentHalf, Excused
  <2> QED
    BY <2>1, <2>2, <1>2
<1> QED
  BY <1>0, <1>1, <1>3, <1>4 DEF CursorInv, InboxHalf, SentHalf

LEMMA CursorStep == CursorInv /\ [Next]_vars => CursorInv'
<1> SUFFICES ASSUME CursorInv, [Next]_vars PROVE CursorInv'
  OBVIOUS
<1>0. TypeOK'
  BY TypeStep DEF CursorInv
<1>1. CASE Arrive \/ HistoryExpires \/ \E m \in Mail : Delete(m) \/ Echo(m)
  BY <1>0, <1>1, OutsideKeeps DEF Arrive, HistoryExpires, Delete, Echo, store
<1>2. CASE PollOnce \/ ListInbox
  BY <1>0, <1>2, ListingKeeps
<1>3. CASE \E m \in Mail : Fetch(m)
  BY <1>0, <1>3, FetchKeeps
<1>4. CASE ListSent /\ pc' = "sent"
  BY <1>0, <1>4, ListSentKeeps
<1>5. CASE Commit
  BY <1>0, <1>5, CommitKeeps
<1>6. CASE \/ RunOnce \/ CallFails \/ Crash
           \/ \E m \in Mail : FetchMissing(m)
           \/ ListSent /\ pc' # "sent"
  <2>1. UNCHANGED <<gmail, store, raced>>
    BY <1>6 DEF RunOnce, CallFails, Crash, FetchMissing, ListSent
  <2>2. pc' \in {"down", "idle", "listing"} /\ (pc' = "listing" => mode' # "walk")
    BY <1>6 DEF RunOnce, CallFails, Crash, FetchMissing, ListSent, OnMissing,
                GoDown, NextTick, GoCatchUp, Reset
  <2> QED
    BY <1>0, <2>1, <2>2, LeavingKeeps
<1>7. CASE UNCHANGED vars
  BY <1>7 DEF vars, gmail, store, lane, CursorInv, TypeOK, Bounds, InboxHalf, SentHalf, Due,
              Horizon, Excused, Stored, OnlyRacersSkipped, InboundIsVisible
<1> QED
  BY <1>1, <1>2, <1>3, <1>4, <1>5, <1>6, <1>7 DEF Next, LaneStep

--------------------------------------------------------------------------------

LEMMA CursorAlways == Spec => []CursorInv
  BY InitCursor, CursorStep, PTL DEF Spec

\* The lane's, the store's and Gmail's variables keep their types, and the
\* stored cursor never runs ahead of the mailbox.
THEOREM SyncTypes == Spec => []TypeOK
<1>1. CursorInv => TypeOK
  BY DEF CursorInv
<1> QED
  BY <1>1, CursorAlways, PTL

\* Whatever fails, dies, expires or is deleted, the cursor (one write, at the
\* end of history_walk, catch_up_inner or backfill_inner) never passes mail
\* that was there to be listed and is not in the store.
THEOREM CursorIsCrashSafe == Spec => []OnlyRacersSkipped
<1>1. CursorInv => OnlyRacersSkipped
  BY DEF CursorInv
<1> QED
  BY <1>1, CursorAlways, PTL

\* INBOX first, the subtraction and upsert_message_conn's MIN together: mail
\* the user received is never left hidden as a sent copy behind the cursor.
THEOREM InboundStaysVisible == Spec => []InboundIsVisible
<1>1. CursorInv => InboundIsVisible
  BY DEF CursorInv
<1> QED
  BY <1>1, CursorAlways, PTL
================================================================================
