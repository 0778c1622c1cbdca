------------------------------ MODULE SignupFlow ------------------------------
(***************************************************************************)
(* Invites, signup and the funnel of the hosted control plane              *)
(* (src/squelch-control/src: handlers.rs, admin.rs, store.rs, sessions.rs).*)
(* A person posts a code and an address, consents at Google, and the       *)
(* callback has the warden reserve the address, then install the           *)
(* credential, records the tenant, spends the code and notes the signup.  *)
(* An operator approves people, mails codes, replaces and revokes them.    *)
(*                                                                         *)
(* Every SQL statement and every call of another service is one step, and  *)
(* anything may run between two.  Codes are minted fresh.  Left out: the   *)
(* expiry of an unspent code after weeks, which only a new hold asks       *)
(* about; the fail-soft key mints between the two warden calls; validation *)
(* and rate limits, which reject a request before it reads anything.       *)
(***************************************************************************)
EXTENDS Naturals, FiniteSets

CONSTANTS Codes,       \* invite rows, in the order they are inserted
          People,      \* rows of the users table, which are also mailboxes
          Mailboxes, Labels,
          Signups,     \* browsers at the signup form
          Presses,     \* requests of the admin page
          MaxTrouble   \* faults, and uses of the command line

ASSUME SignupAssumption ==
  /\ People \subseteq Codes /\ People \subseteq Mailboxes
  /\ Codes \subseteq Nat \ {0} /\ MaxTrouble \in Nat
  /\ 0 \notin Signups \cup Labels \cup Mailboxes

VARIABLES code,    \* [state, by, live]: invite_codes; by the holder, live its hold
          person,  \* [status, invite, told]: users
          tenant,  \* the mailbox of each recorded label, 0 without a row
          pod,     \* [mail, state]: what the warden has under the label
          signup,  \* [at, code, label, mail]: a browser and its callback
          press,   \* [at, person, prior, code]
          trouble,
          mailed,  \* history: codes delivered, and to whom
          bought,  \* history: codes and the labels recorded with them
          lapsed,  \* history: codes whose hold ran out under a callback
          missed   \* history: codes a replacement found held, and then did not

vars == <<code, person, tenant, pod, signup, press, trouble,
          mailed, bought, lapsed, missed>>
history == <<mailed, bought, lapsed, missed>>
cluster == <<tenant, pod>>

NoSignup == [at |-> "new", code |-> 0, label |-> 0, mail |-> 0]
NoPress == [at |-> "new", person |-> 0, prior |-> 0, code |-> 0]

-----------------------------------------------------------------------------
(* Invite codes *)

Held(c) == code[c].by # 0 /\ code[c].live
Available(c) == code[c].state = "open" /\ ~Held(c)
Fresh == {c \in Codes : code[c].state = "none" /\ \A d \in Codes : d < c => code[d].state # "none"}
Insert(c) == code' = [code EXCEPT ![c].state = "open"]
Unhold(c) == [code EXCEPT ![c].by = 0, ![c].live = FALSE]
Revoked(c) == [code EXCEPT ![c] = [state |-> "gone", by |-> 0, live |-> FALSE]]

\* reserve_invite without the look at the other holder
ReservesFault(c) == code[c].state = "open"
\* reserve_invite repeats every check of the form's gate in one statement
Reserves(c) == Available(c)

Goes(s, place) ==
  signup' = [signup EXCEPT ![s] = IF place = "over" THEN [NoSignup EXCEPT !.at = place]
                                  ELSE [@ EXCEPT !.at = place]]

\* nobody knows a code the admin page has minted before it is delivered
Known(c) == \A p \in Presses : press[p].code = c => \E u \in People : <<c, u>> \in mailed
\* the form: the code's gate, the label here and at the warden
Post(s, c, l) ==
  /\ signup[s].at = "new" /\ Available(c) /\ Known(c)
  /\ tenant[l] = 0 /\ pod[l].state # "serving"
  /\ signup' = [signup EXCEPT ![s] = [NoSignup EXCEPT !.at = "posted", !.code = c, !.label = l]]
  /\ UNCHANGED <<code, person, cluster, press, trouble, history>>

\* the hold, and the session it is held for; the table may be full
Hold(s) ==
  LET c == signup[s].code
  IN /\ signup[s].at = "posted"
     /\ IF Reserves(c)
        THEN /\ code' = [code EXCEPT ![c].by = s, ![c].live = TRUE]
             /\ Goes(s, "consent") \/ Goes(s, "release")
        ELSE Goes(s, "over") /\ UNCHANGED code
     /\ UNCHANGED <<person, cluster, press, trouble, history>>

\* a callback takes its session; whatever is wrong with it hands the code back
Callback(s, m) ==
  /\ signup[s].at = "consent"
  /\ \/ signup' = [signup EXCEPT ![s].at = "lookup", ![s].mail = m]
     \/ Goes(s, "release")
  /\ lapsed' = IF code[signup[s].code].by = s /\ code[signup[s].code].live
               THEN lapsed ELSE lapsed \cup {signup[s].code}
  /\ UNCHANGED <<code, person, cluster, press, trouble, mailed, bought, missed>>

\* release_invite: only by the holder
Release(s) ==
  LET c == signup[s].code
  IN /\ signup[s].at = "release" /\ Goes(s, "over")
     /\ code' = IF code[c].by = s /\ code[c].state = "open" THEN Unhold(c) ELSE code
     /\ UNCHANGED <<person, cluster, press, trouble, history>>

LookUp(s) ==
  /\ signup[s].at = "lookup"
  /\ Goes(s, IF \E l \in Labels : tenant[l] = signup[s].mail THEN "release" ELSE "create")
  /\ UNCHANGED <<code, person, cluster, press, trouble, history>>

\* the tenant recorded once its address is reserved
AfterCreateFault == "record"
\* where a callback goes when the warden has minted the tenant's identity
AfterCreate == "install"
\* call 1: a pending address is re-issued to the mailbox that reserved it
Create(s) ==
  LET l == signup[s].label
      mine == pod[l] = [mail |-> signup[s].mail, state |-> "pending"]
  IN /\ signup[s].at = "create"
     /\ IF pod[l].state = "none" \/ mine
        THEN /\ pod' = [pod EXCEPT ![l] = [mail |-> signup[s].mail, state |-> "pending"]]
             /\ Goes(s, AfterCreate) \/ Goes(s, "release")      \* the seal may fail
        ELSE Goes(s, "release") /\ UNCHANGED pod
     /\ UNCHANGED <<code, person, tenant, press, trouble, history>>

\* call 2: the address serves already, or it does now
Install(s) ==
  LET l == signup[s].label
  IN /\ signup[s].at = "install"
     /\ IF pod[l].state = "pending"
        THEN pod' = [pod EXCEPT ![l].state = "serving"] /\ Goes(s, "record")
        ELSE Goes(s, "release") /\ UNCHANGED pod
     /\ UNCHANGED <<code, person, tenant, press, trouble, history>>

\* insert_tenant: both constraints; a refused row keeps the hold
Record(s) ==
  LET l == signup[s].label
      taken == tenant[l] # 0 \/ \E k \in Labels : tenant[k] = signup[s].mail
  IN /\ signup[s].at = "record"
     /\ IF taken THEN Goes(s, "over") /\ UNCHANGED <<tenant, bought>>
        ELSE /\ tenant' = [tenant EXCEPT ![l] = signup[s].mail]
             /\ bought' = bought \cup {<<signup[s].code, l>>}
             /\ Goes(s, "spend")
     /\ UNCHANGED <<code, person, pod, press, trouble, mailed, lapsed, missed>>

Spent(c) == [Unhold(c) EXCEPT ![c].state = "used"]
\* consume_invite: by the holder, however late
Spend(s) ==
  LET c == signup[s].code
  IN /\ signup[s].at = "spend" /\ Goes(s, "funnel")
     /\ code' = IF code[c].state = "open" /\ code[c].by = s
                THEN Spent(c) ELSE code
     /\ UNCHANGED <<person, cluster, press, trouble, history>>

\* record_signup: the row that names the code, else the mailbox's own
Funnel(s) ==
  /\ signup[s].at = "funnel" /\ Goes(s, "over")
  /\ person' = LET named == {p \in People : person[p].invite = signup[s].code}
                   own == IF named = {} THEN {p \in People : p = signup[s].mail} ELSE named
               IN [p \in People |-> IF p \in own
                     THEN [person[p] EXCEPT !.status = "approved"] ELSE person[p]]
  /\ UNCHANGED <<code, cluster, press, trouble, history>>

\* a service does not answer; whether it did the work is unknown
Fault == trouble < MaxTrouble /\ trouble' = trouble + 1
CallFails(s) ==
  /\ Fault
  /\ \/ /\ signup[s].at \in {"lookup", "create", "install"} /\ Goes(s, "release")
        /\ \/ UNCHANGED pod
           \/ /\ signup[s].at = "install" /\ pod[signup[s].label].state = "pending"
              /\ pod' = [pod EXCEPT ![signup[s].label].state = "serving"]
     \/ /\ signup[s].at \in {"record", "release", "funnel"} /\ Goes(s, "over") /\ UNCHANGED pod
     \/ /\ signup[s].at = "spend" /\ Goes(s, "funnel") /\ UNCHANGED pod
  /\ UNCHANGED <<code, person, tenant, press, history>>

\* the session's clock starts a moment after its hold's
Expires(s) ==
  /\ signup[s].at = "consent" /\ ~(code[signup[s].code].by = s /\ code[signup[s].code].live)
  /\ Goes(s, "over")
  /\ UNCHANGED <<code, person, cluster, press, trouble, history>>
Lapses(c) ==
  /\ Held(c) /\ code' = [code EXCEPT ![c].live = FALSE]
  /\ lapsed' = IF signup[code[c].by].at \in {"consent", "release"} THEN lapsed ELSE lapsed \cup {c}
  /\ UNCHANGED <<person, cluster, signup, press, trouble, mailed, bought, missed>>

-----------------------------------------------------------------------------
(* The operator *)

Turns(p, place) ==
  press' = [press EXCEPT ![p] = IF place = "over" THEN [NoPress EXCEPT !.at = place, !.code = press[p].code]
                                ELSE [@ EXCEPT !.at = place]]
Idle(p) == press[p].at = "new"

\* approve_user and invite_directly: the winner of one statement mints
Approve(p, u) ==
  /\ Idle(p) /\ person[u].status # "approved"
  /\ person' = [person EXCEPT ![u].status = "approved"]
  /\ press' = [press EXCEPT ![p] = [NoPress EXCEPT !.at = "mint", !.person = u]]
  /\ UNCHANGED <<code, cluster, signup, trouble, history>>

\* send: the row is read, then its old code is taken away
Send(p, u) ==
  /\ Idle(p) /\ person[u].status = "approved"
  /\ press' = [press EXCEPT ![p] = [NoPress EXCEPT !.person = u, !.prior = person[u].invite,
                 !.at = IF person[u].invite = 0 THEN "mint" ELSE "revoke"]]
  /\ UNCHANGED <<code, person, cluster, signup, trouble, history>>
RevokeUnheld(p) ==
  LET c == press[p].prior
  IN /\ press[p].at = "revoke"
     /\ IF Available(c) THEN code' = Revoked(c) /\ Turns(p, "mint")
        ELSE Turns(p, "why") /\ UNCHANGED code
     /\ UNCHANGED <<person, cluster, signup, trouble, history>>
\* why it declined, asked afterwards: held and spent refuse, gone does not
AskWhy(p) ==
  LET c == press[p].prior
  IN /\ press[p].at = "why"
     /\ Turns(p, IF code[c].state = "used" \/ (code[c].state = "open" /\ Held(c))
                 THEN "over" ELSE "mint")
     /\ missed' = IF Available(c) THEN missed \cup {c} ELSE missed
     /\ UNCHANGED <<code, person, cluster, signup, trouble, mailed, bought, lapsed>>

Mint(p) ==
  \E c \in Fresh :
    /\ press[p].at = "mint" /\ Insert(c)
    /\ press' = [press EXCEPT ![p].at = "point", ![p].code = c]
    /\ UNCHANGED <<person, cluster, signup, trouble, history>>

\* set_user_invite without the comparison
PointsFault(p) == TRUE
\* set_user_invite: only from the pointer the press has read
Points(p) == person[press[p].person].invite = press[p].prior
Point(p) ==
  /\ press[p].at = "point"
  /\ IF Points(p)
     THEN /\ person' = [person EXCEPT ![press[p].person].invite = press[p].code,
                                      ![press[p].person].told = FALSE]
          /\ Turns(p, "mail")
     ELSE Turns(p, "discard") /\ UNCHANGED person
  /\ UNCHANGED <<code, cluster, signup, trouble, history>>
Discard(p) ==
  LET c == press[p].code
  IN /\ press[p].at = "discard" /\ Turns(p, "over")
     /\ code' = IF code[c].state = "open" THEN Revoked(c) ELSE code
     /\ UNCHANGED <<person, cluster, signup, trouble, history>>

\* the provider takes the mail and says so, takes it silently, or refuses
Mail(p) ==
  /\ press[p].at = "mail"
  /\ \/ /\ mailed' = mailed \cup {<<press[p].code, press[p].person>>}
        /\ Turns(p, "stamp") \/ Turns(p, "over")
     \/ Turns(p, "over") /\ UNCHANGED mailed
  /\ UNCHANGED <<code, person, cluster, signup, trouble, bought, lapsed, missed>>

\* mark_user_notified names the code it stamps for
Stamps(p) == person[press[p].person].invite = press[p].code
Stamp(p) ==
  /\ press[p].at = "stamp" /\ Turns(p, "over")
  /\ person' = IF Stamps(p) THEN [person EXCEPT ![press[p].person].told = TRUE] ELSE person
  /\ UNCHANGED <<code, cluster, signup, trouble, history>>

\* a statement of a press fails, which ends it; a failed pointer write discards
PressFails(p) ==
  /\ Fault
  /\ \/ press[p].at \in {"revoke", "why", "mint", "discard", "stamp"} /\ Turns(p, "over")
     \/ press[p].at = "point" /\ Turns(p, "discard")
  /\ UNCHANGED <<code, person, cluster, signup, history>>

\* the command line, which overrides holds
Issue == \E c \in Fresh : /\ Fault /\ Insert(c)
                          /\ UNCHANGED <<person, cluster, signup, press, history>>
Revoke(c) == /\ code[c].state = "open" /\ Fault
             /\ code' = Revoked(c)
             /\ UNCHANGED <<person, cluster, signup, press, history>>

\* the process dies: sessions are in memory, holds are not
Crash ==
  /\ Fault
  /\ signup' = [s \in Signups |-> IF signup[s].at = "new" THEN NoSignup
                               ELSE [NoSignup EXCEPT !.at = "over"]]
  /\ press' = [p \in Presses |-> IF press[p].at = "new" THEN NoPress 
                              ELSE [NoPress EXCEPT !.at = "over", !.code = press[p].code]]
  /\ UNCHANGED <<code, person, cluster, history>>

-----------------------------------------------------------------------------
\* an empty board, or everybody approved and the first codes delivered
FirstCode(c, sent) == [state |-> IF sent /\ c \in People THEN "open" ELSE "none", by |-> 0, live |-> FALSE]
FirstRow(u, sent) == [status |-> IF sent THEN "approved" ELSE "pending",
                      invite |-> IF sent THEN u ELSE 0, told |-> sent]
Init ==
  \E sent \in BOOLEAN :
    /\ code = [c \in Codes |-> FirstCode(c, sent)]
    /\ person = [u \in People |-> FirstRow(u, sent)]
    /\ tenant = [l \in Labels |-> 0] /\ pod = [l \in Labels |-> [mail |-> 0, state |-> "none"]]
    /\ signup = [s \in Signups |-> NoSignup] /\ press = [p \in Presses |-> NoPress]
    /\ trouble = 0
    /\ mailed = IF sent THEN {<<u, u>> : u \in People} ELSE {}
    /\ bought = {} /\ lapsed = {} /\ missed = {}

SignupStep(s) ==
  \/ \E c \in Codes, l \in Labels : Post(s, c, l)
  \/ \E m \in Mailboxes : Callback(s, m)
  \/ Hold(s) \/ Release(s) \/ LookUp(s) \/ Create(s) \/ Install(s) \/ Record(s)
  \/ Spend(s) \/ Funnel(s) \/ CallFails(s) \/ Expires(s)
PressStep(p) ==
  \/ \E u \in People : Approve(p, u) \/ Send(p, u)
  \/ RevokeUnheld(p) \/ AskWhy(p) \/ Mint(p) \/ Point(p) \/ Discard(p)
  \/ Mail(p) \/ Stamp(p) \/ PressFails(p)
Next ==
  \/ \E s \in Signups : SignupStep(s)
  \/ \E p \in Presses : PressStep(p)
  \/ \E c \in Codes : Lapses(c) \/ Revoke(c)
  \/ Issue \/ Crash
Spec == Init /\ [][Next]_vars

-----------------------------------------------------------------------------

(* A code buys one mailbox and is off the shelf once it has, so nobody shares its
   price.  The exception is the one consume_invite names: the hold ran out while its
   callback was at work, or after it had been lost. *)
Buys(c) == {l \in Labels : <<c, l>> \in bought}
CodeBuysOnce ==
  \A c \in Codes \ lapsed : /\ Cardinality(Buys(c)) <= 1
                            /\ Available(c) => Buys(c) = {}

(* What the control plane records is served for the mailbox it names, through
   concurrent signups for one address and lost answers. *)
RecordedServes ==
  \A l \in Labels : tenant[l] # 0 => pod[l] = [mail |-> tenant[l], state |-> "serving"]

Live(u) == {c \in Codes : <<c, u>> \in mailed /\ code[c].state = "open"}
(* A live code in somebody's mail is the one their row names, however the presses
   of the admin page interleave ("a live code no row points at is a code the
   dashboard cannot name"); codes that were held when a replacement tried to revoke
   them are the exception.  The board says "invited" only for a code delivered. *)
BoardIsTrue == \A u \in People :
  /\ \A c \in Live(u) \ missed : person[u].invite = c
  /\ person[u].told => <<person[u].invite, u>> \in mailed
=============================================================================
