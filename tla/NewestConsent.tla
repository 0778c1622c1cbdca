----------------------------- MODULE NewestConsent -----------------------------
(***************************************************************************)
(* What the hosted control plane promises somebody who reconnects a        *)
(* mailbox: THE NEWEST CONSENT WINS.  A credential is never replaced by an *)
(* older one, everybody who is waiting gets the same answer at once, and   *)
(* "complete" means that the newest consent is the installed one.          *)
(*                                                                         *)
(* Nothing is promised of what is installed under a label in doubt.  Any   *)
(* step may bring doubt about; it ends only with the newest consent        *)
(* installed.  ReconnectJobs implements this specification, and its Doubts *)
(* says when a label is in doubt: a call has outlived its lease.           *)
(***************************************************************************)
EXTENDS Naturals

CONSTANTS Labels, Consents     \* consents are numbered in the order they land

VARIABLES asked,   \* the newest consent of each label, 0 before the first
          held,    \* the consent whose credential is installed
          told,    \* what the browser of each consent is shown
          doubt    \* labels of which nothing is promised about what is installed

promise == <<asked, held, told, doubt>>
Outcomes == {"complete", "refused", "gave_up"}

Promised ==
  /\ asked = [l \in Labels |-> 0] /\ held = [l \in Labels |-> 0]
  /\ told = [c \in Consents |-> "none"] /\ doubt = {}

Ask(l, c) ==
  /\ told[c] = "none" /\ c > asked[l]
  /\ asked' = [asked EXCEPT ![l] = c]
  /\ told' = [told EXCEPT ![c] = "pending"]
  /\ UNCHANGED held

InstallNewer(l, c) ==
  /\ told[c] # "none"
  /\ held[l] <= c \/ l \in doubt
  /\ held' = [held EXCEPT ![l] = c]
  /\ UNCHANGED <<asked, told>>

\* the newest consent and every one that waits with it
Settle(l, waiting, outcome) ==
  /\ asked[l] \in waiting
  /\ \A c \in waiting : told[c] = "pending"
  /\ outcome = "complete" => held[l] = asked[l] \/ l \in doubt
  /\ told' = [c \in Consents |-> IF c \in waiting THEN outcome ELSE told[c]]
  /\ UNCHANGED <<asked, held>>

Forget(forgotten) ==
  /\ \A c \in forgotten : told[c] \in Outcomes
  /\ told' = [c \in Consents |-> IF c \in forgotten THEN "gone" ELSE told[c]]
  /\ UNCHANGED <<asked, held>>

Serve ==
  \/ \E l \in Labels, c \in Consents : Ask(l, c) \/ InstallNewer(l, c)
  \/ \E l \in Labels, waiting \in SUBSET Consents, o \in Outcomes : Settle(l, waiting, o)
  \/ \E forgotten \in SUBSET Consents : Forget(forgotten)
  \/ UNCHANGED <<asked, held, told>>
Keep == Serve /\ \A l \in doubt \ doubt' : held'[l] = asked'[l]
Promise == Promised /\ [][Keep]_promise
================================================================================
