------------------------------ MODULE SignupProofs -----------------------------
(***************************************************************************)
(* A code buys one mailbox, what is recorded is served, and the board      *)
(* names the codes that are out, for any number of codes, browsers,        *)
(* presses and faults.                                                     *)
(***************************************************************************)
EXTENDS SignupFlow, FiniteSetTheorems, TLAPS

Early  == {"lookup", "create", "install", "record"}
Late   == Early \cup {"spend"}
Places == {"new", "posted", "consent", "release", "funnel", "over"} \cup Late
Desks  == {"new", "revoke", "why", "mint", "point", "mail", "stamp", "discard", "over"}

CodeRows == [state : {"none", "open", "used", "gone"}, by : Signups \cup {0}, live : BOOLEAN]
Users    == [status : {"pending", "approved"}, invite : Codes \cup {0}, told : BOOLEAN]
Pods     == [mail : Mailboxes \cup {0}, state : {"none", "pending", "serving"}]
Browsers == [at : Places, code : Codes \cup {0}, label : Labels \cup {0},
             mail : Mailboxes \cup {0}]
PressRows == [at : Desks, person : People \cup {0}, prior : Codes \cup {0},
              code : Codes \cup {0}]

\* A browser on its way has a code and an address, after its callback a mailbox.
BrowserOK(b) ==
  /\ b \in Browsers
  /\ b.at \notin {"new", "over"} => b.code \in Codes /\ b.label \in Labels
  /\ b.at \in Late \cup {"funnel"} => b.mail \in Mailboxes

\* A press at work is about a person, has read a pointer, or has minted a code.
PressOK(q) ==
  /\ q \in PressRows
  /\ q.at \notin {"new", "over"} => q.person \in People
  /\ q.at \in {"revoke", "why"} => q.prior \in Codes
  /\ q.at \in {"point", "mail", "stamp", "discard"} => q.code \in Codes

TypeOK ==
  /\ code \in [Codes -> CodeRows]
  /\ \A c \in Codes : code[c].by # 0 => code[c].state = "open"
  /\ person \in [People -> Users]
  /\ tenant \in [Labels -> Mailboxes \cup {0}]
  /\ pod \in [Labels -> Pods]
  /\ signup \in [Signups -> Browsers] /\ \A s \in Signups : BrowserOK(signup[s])
  /\ press \in [Presses -> PressRows] /\ \A p \in Presses : PressOK(press[p])
  /\ trouble \in Nat
  /\ mailed \subseteq Codes \X People /\ bought \subseteq Codes \X Labels
  /\ lapsed \subseteq Codes /\ missed \subseteq Codes

--------------------------------------------------------------------------------
(* The moves *)

\* Where a browser goes it takes what it has along, unless it is over.
LEMMA GoesShape ==
  ASSUME signup \in [Signups -> Browsers], NEW s \in Signups, NEW place \in Places, Goes(s, place)
  PROVE  /\ signup' \in [Signups -> Browsers] /\ signup'[s].at = place
         /\ \A r \in Signups \ {s} : signup'[r] = signup[r]
         /\ place # "over" => /\ signup'[s].code = signup[s].code
                              /\ signup'[s].label = signup[s].label
                              /\ signup'[s].mail = signup[s].mail
<1>1. [NoSignup EXCEPT !.at = "over"] \in Browsers
  BY DEF NoSignup, Browsers, Places
<1>2. [signup[s] EXCEPT !.at = place] \in Browsers
  BY DEF Browsers
<1>3. CASE place = "over"
  <2>1. signup' = [signup EXCEPT ![s] = [NoSignup EXCEPT !.at = "over"]]
    BY <1>3 DEF Goes
  <2> QED BY <1>1, <1>3, <2>1 DEF NoSignup
<1>4. CASE place # "over"
  <2>1. signup' = [signup EXCEPT ![s] = [signup[s] EXCEPT !.at = place]]
    BY <1>4 DEF Goes
  <2> QED BY <1>2, <1>4, <2>1 DEF Browsers
<1> QED BY <1>3, <1>4

\* So does a press.
LEMMA TurnsShape ==
  ASSUME press \in [Presses -> PressRows], NEW p \in Presses, NEW place \in Desks, Turns(p, place)
  PROVE  /\ press' \in [Presses -> PressRows] /\ press'[p].at = place
         /\ press'[p].code = press[p].code
         /\ \A q \in Presses \ {p} : press'[q] = press[q]
         /\ place # "over" => /\ press'[p].person = press[p].person
                              /\ press'[p].prior = press[p].prior
<1>1. [NoPress EXCEPT !.at = "over", !.code = press[p].code] \in PressRows
  BY DEF NoPress, PressRows, Desks
<1>2. [press[p] EXCEPT !.at = place] \in PressRows
  BY DEF PressRows
<1>3. CASE place = "over"
  <2>1. press' = [press EXCEPT ![p] = [NoPress EXCEPT !.at = "over", !.code = press[p].code]]
    BY <1>3 DEF Turns
  <2> QED BY <1>1, <1>3, <2>1 DEF NoPress, PressRows
<1>4. CASE place # "over"
  <2>1. press' = [press EXCEPT ![p] = [press[p] EXCEPT !.at = place]]
    BY <1>4 DEF Turns
  <2> QED BY <1>2, <1>4, <2>1 DEF PressRows
<1> QED BY <1>3, <1>4

\* What the statements on the codes table leave of a row.
LEMMA CodeRowShapes ==
  ASSUME code \in [Codes -> CodeRows], NEW c \in Codes
  PROVE  /\ Insert(c) => /\ code' \in [Codes -> CodeRows]
                         /\ code'[c].state = "open" /\ code'[c].by = code[c].by
                         /\ code'[c].live = code[c].live
                         /\ \A d \in Codes \ {c} : code'[d] = code[d]
         /\ LET new == Unhold(c) IN
              /\ new \in [Codes -> CodeRows] /\ new[c].by = 0 /\ new[c].state = code[c].state
              /\ \A d \in Codes \ {c} : new[d] = code[d]
         /\ LET new == Spent(c) IN
              /\ new \in [Codes -> CodeRows] /\ new[c].by = 0 /\ new[c].state = "used"
              /\ \A d \in Codes \ {c} : new[d] = code[d]
         /\ LET new == Revoked(c) IN
              /\ new \in [Codes -> CodeRows] /\ new[c].by = 0 /\ new[c].state = "gone"
              /\ \A d \in Codes \ {c} : new[d] = code[d]
<1>1. /\ Unhold(c)[c] = [code[c] EXCEPT !.by = 0, !.live = FALSE]
      /\ DOMAIN Unhold(c) = Codes /\ \A d \in Codes \ {c} : Unhold(c)[d] = code[d]
  BY DEF Unhold
<1>2. [code[c] EXCEPT !.by = 0, !.live = FALSE] \in CodeRows
  BY DEF CodeRows
<1>3. Unhold(c) \in [Codes -> CodeRows]
  BY <1>1, <1>2 DEF Unhold
<1>4. Unhold(c)[c].by = 0 /\ Unhold(c)[c].state = code[c].state
  BY <1>1 DEF CodeRows
<1>5. /\ Spent(c) \in [Codes -> CodeRows] /\ Spent(c)[c].by = 0 /\ Spent(c)[c].state = "used"
      /\ \A d \in Codes \ {c} : Spent(c)[d] = code[d]
  <2> DEFINE row == [Unhold(c)[c] EXCEPT !.state = "used"]
  <2>1. Unhold(c)[c] \in CodeRows
    BY <1>3
  <2>2. row \in CodeRows /\ row.by = Unhold(c)[c].by /\ row.state = "used"
    BY <2>1 DEF CodeRows
  <2>3. Spent(c) = [Unhold(c) EXCEPT ![c] = row]
    BY DEF Spent
  <2> HIDE DEF row
  <2> QED BY <1>1, <1>3, <1>4, <2>2, <2>3
<1>6. /\ Revoked(c) \in [Codes -> CodeRows] /\ Revoked(c)[c].by = 0
      /\ Revoked(c)[c].state = "gone" /\ \A d \in Codes \ {c} : Revoked(c)[d] = code[d]
  BY DEF Revoked, CodeRows
<1>7. Insert(c) => /\ code' \in [Codes -> CodeRows]
                   /\ code'[c].state = "open" /\ code'[c].by = code[c].by
                   /\ code'[c].live = code[c].live
                   /\ \A d \in Codes \ {c} : code'[d] = code[d]
  BY DEF Insert, CodeRows
<1> QED BY <1>1, <1>3, <1>4, <1>5, <1>6, <1>7

--------------------------------------------------------------------------------
(* Types *)

\* What a step leaves of the browsers, if it changes one of them at most.
OthersStay(s) == /\ signup' \in [Signups -> Browsers]
                 /\ \A r \in Signups \ {s} : signup'[r] = signup[r]
OthersWait(p) == /\ press' \in [Presses -> PressRows]
                 /\ \A q \in Presses \ {p} : press'[q] = press[q]

\* A browser's step keeps everything well formed.
LEMMA SignupTypes ==
  ASSUME TypeOK, NEW s \in Signups, SignupStep(s) PROVE TypeOK'
<1> DEFINE c == signup[s].code
           l == signup[s].label
<1>1. /\ signup \in [Signups -> Browsers] /\ signup[s] \in Browsers /\ BrowserOK(signup[s])
      /\ code \in [Codes -> CodeRows] /\ pod \in [Labels -> Pods]
      /\ \A d \in Codes : code[d].by # 0 => code[d].state = "open"
  BY DEF TypeOK
<1>2. ASSUME OthersStay(s), BrowserOK(signup[s])', UNCHANGED <<person, press>>,
             code' \in [Codes -> CodeRows],
             \A d \in Codes : code'[d].by # 0 => code'[d].state = "open",
             tenant' \in [Labels -> Mailboxes \cup {0}], pod' \in [Labels -> Pods],
             trouble' \in Nat, UNCHANGED <<mailed, missed>>,
             bought' \subseteq Codes \X Labels, lapsed' \subseteq Codes
      PROVE  TypeOK'
  BY <1>2 DEF TypeOK, OthersStay
<1>3. ASSUME NEW place \in Places, Goes(s, place), signup[s].at \notin {"new", "over"},
             place \in Late \cup {"funnel"} => signup[s].mail \in Mailboxes
      PROVE  OthersStay(s) /\ BrowserOK(signup[s])'
  BY <1>1, <1>3, GoesShape DEF OthersStay, BrowserOK, Browsers, Late, Early
<1>4. ASSUME NEW d \in Codes, NEW k \in Labels, Post(s, d, k) PROVE TypeOK'
  <2> DEFINE b == [NoSignup EXCEPT !.at = "posted", !.code = d, !.label = k]
  <2>1. signup' = [signup EXCEPT ![s] = b]
    BY <1>4 DEF Post
  <2>2. BrowserOK(b) /\ b \in Browsers
    BY DEF BrowserOK, Browsers, NoSignup, Places, Late, Early
  <2> HIDE DEF b
  <2>3. OthersStay(s) /\ BrowserOK(signup[s])'
    BY <1>1, <2>1, <2>2 DEF OthersStay
  <2> QED BY <1>2, <1>4, <2>3 DEF Post, cluster, history, TypeOK
<1>5. CASE Hold(s)
  <2>1. c \in Codes
    BY <1>1, <1>5 DEF Hold, BrowserOK
  <2>2. OthersStay(s) /\ BrowserOK(signup[s])'
    <3>1. \E place \in {"consent", "release", "over"} : Goes(s, place)
      BY <1>5 DEF Hold
    <3> QED BY <1>3, <1>5, <3>1 DEF Hold, Places, Late, Early
  <2>3. /\ code' \in [Codes -> CodeRows]
        /\ \A d \in Codes : code'[d].by # 0 => code'[d].state = "open"
    <3>1. CASE Reserves(c)
      <4> DEFINE row == [code[c] EXCEPT !.by = s, !.live = TRUE]
      <4>1. code' = [code EXCEPT ![c] = row] /\ code[c].state = "open"
        BY <1>5, <3>1 DEF Hold, Reserves, Available
      <4>2. row \in CodeRows /\ row.state = "open"
        BY <1>1, <2>1, <4>1 DEF CodeRows
      <4> HIDE DEF row
      <4> QED BY <1>1, <2>1, <4>1, <4>2
    <3>2. CASE ~Reserves(c)
      BY <1>1, <1>5, <3>2 DEF Hold
    <3> QED BY <3>1, <3>2
  <2> QED BY <1>2, <1>5, <2>2, <2>3 DEF Hold, cluster, history, TypeOK
<1>6. ASSUME NEW m \in Mailboxes, Callback(s, m) PROVE TypeOK'
  <2>1. c \in Codes
    BY <1>1, <1>6 DEF Callback, BrowserOK
  <2>2. OthersStay(s) /\ BrowserOK(signup[s])'
    <3>1. CASE Goes(s, "release")
      BY <1>3, <1>6, <3>1 DEF Callback, Places, Late, Early
    <3>2. CASE signup' = [signup EXCEPT ![s].at = "lookup", ![s].mail = m]
      <4> DEFINE b == [signup[s] EXCEPT !.at = "lookup", !.mail = m]
      <4>1. signup' = [signup EXCEPT ![s] = b]
        BY <1>1, <3>2
      <4>2. b \in Browsers /\ BrowserOK(b)
        BY <1>1, <1>6 DEF Browsers, BrowserOK, Places, Late, Early, Callback
      <4> HIDE DEF b
      <4> QED BY <1>1, <4>1, <4>2 DEF OthersStay
    <3> QED BY <1>6, <3>1, <3>2 DEF Callback
  <2> QED BY <1>2, <1>6, <2>1, <2>2 DEF Callback, cluster, TypeOK
<1>7. CASE Release(s)
  <2>1. c \in Codes /\ OthersStay(s) /\ BrowserOK(signup[s])'
    BY <1>1, <1>3, <1>7 DEF Release, BrowserOK, Places, Late, Early
  <2>2. code' = Unhold(c) \/ code' = code
    BY <1>7 DEF Release
  <2>3. /\ code' \in [Codes -> CodeRows]
        /\ \A d \in Codes : code'[d].by # 0 => code'[d].state = "open"
    BY <1>1, <2>1, <2>2, CodeRowShapes
  <2> QED BY <1>2, <1>7, <2>1, <2>3 DEF Release, cluster, history, TypeOK
<1>8. CASE LookUp(s)
  <2>1. \E place \in {"release", "create"} : Goes(s, place)
    BY <1>8 DEF LookUp
  <2>2. OthersStay(s) /\ BrowserOK(signup[s])'
    BY <1>1, <1>3, <1>8, <2>1 DEF LookUp, BrowserOK, Places, Late, Early
  <2> QED BY <1>2, <1>8, <2>2 DEF LookUp, cluster, history, TypeOK
<1>9. CASE Create(s)
  <2>1. /\ \E place \in {"release", "install"} : Goes(s, place)
        /\ signup[s].mail \in Mailboxes /\ l \in Labels
    BY <1>1, <1>9 DEF Create, AfterCreate, BrowserOK, Late, Early
  <2>2. OthersStay(s) /\ BrowserOK(signup[s])'
    BY <1>3, <1>9, <2>1 DEF Create, Places, Late, Early
  <2>3. pod' \in [Labels -> Pods]
    BY <1>1, <1>9, <2>1 DEF Create, Pods
  <2> QED BY <1>2, <1>9, <2>2, <2>3 DEF Create, history, TypeOK
<1>10. CASE Install(s)
  <2>1. /\ \E place \in {"release", "record"} : Goes(s, place)
        /\ signup[s].mail \in Mailboxes /\ l \in Labels
    BY <1>1, <1>10 DEF Install, BrowserOK, Late, Early
  <2>2. OthersStay(s) /\ BrowserOK(signup[s])'
    BY <1>3, <1>10, <2>1 DEF Install, Places, Late, Early
  <2>3. pod' \in [Labels -> Pods]
    BY <1>1, <1>10, <2>1 DEF Install, Pods
  <2> QED BY <1>2, <1>10, <2>2, <2>3 DEF Install, history, TypeOK
<1>11. CASE Record(s)
  <2>1. /\ \E place \in {"over", "spend"} : Goes(s, place)
        /\ signup[s].mail \in Mailboxes /\ l \in Labels /\ c \in Codes
    BY <1>1, <1>11 DEF Record, BrowserOK, Late, Early
  <2>2. OthersStay(s) /\ BrowserOK(signup[s])'
    BY <1>3, <1>11, <2>1 DEF Record, Places, Late, Early
  <2>3. tenant' \in [Labels -> Mailboxes \cup {0}] /\ bought' \subseteq Codes \X Labels
    BY <1>11, <2>1 DEF Record, TypeOK
  <2> QED BY <1>2, <1>11, <2>2, <2>3 DEF Record, TypeOK
<1>12. CASE Spend(s)
  <2>1. c \in Codes /\ OthersStay(s) /\ BrowserOK(signup[s])'
    BY <1>1, <1>3, <1>12 DEF Spend, BrowserOK, Places, Late, Early
  <2>2. code' = Spent(c) \/ code' = code
    BY <1>12 DEF Spend
  <2>3. /\ code' \in [Codes -> CodeRows]
        /\ \A d \in Codes : code'[d].by # 0 => code'[d].state = "open"
    BY <1>1, <2>1, <2>2, CodeRowShapes
  <2> QED BY <1>2, <1>12, <2>1, <2>3 DEF Spend, cluster, history, TypeOK
<1>13. CASE Funnel(s)
  <2>1. OthersStay(s) /\ BrowserOK(signup[s])'
    BY <1>3, <1>13 DEF Funnel, Places, Late, Early
  <2>2. person' \in [People -> Users]
    <3>1. \A p \in People : [person[p] EXCEPT !.status = "approved"] \in Users
      BY DEF TypeOK, Users
    <3> QED BY <1>13, <3>1 DEF Funnel, TypeOK
  <2> QED BY <1>1, <1>13, <2>1, <2>2 DEF Funnel, cluster, history, TypeOK, OthersStay
<1>14. CASE CallFails(s)
  <2>1. /\ \E place \in {"release", "over", "funnel"} : Goes(s, place)
        /\ signup[s].at \notin {"new", "over"}
        /\ signup[s].at = "spend" \/ ~Goes(s, "funnel") \/ Goes(s, "over") \/ Goes(s, "release")
    BY <1>14 DEF CallFails
  <2>2. OthersStay(s) /\ BrowserOK(signup[s])'
    <3>1. CASE Goes(s, "release") \/ Goes(s, "over")
      BY <1>3, <2>1, <3>1 DEF Places, Late, Early
    <3>2. CASE Goes(s, "funnel") /\ signup[s].at = "spend"
      BY <1>1, <1>3, <3>2 DEF Places, Late, Early, BrowserOK
    <3> QED BY <2>1, <3>1, <3>2
  <2>3. pod' \in [Labels -> Pods]
    BY <1>1, <1>14 DEF CallFails, Pods
  <2>4. trouble' \in Nat
    BY <1>14 DEF CallFails, Fault, TypeOK
  <2> QED BY <1>2, <1>14, <2>2, <2>3, <2>4 DEF CallFails, history, TypeOK
<1>15. CASE Expires(s)
  <2>1. OthersStay(s) /\ BrowserOK(signup[s])'
    BY <1>3, <1>15 DEF Expires, Places, Late, Early
  <2> QED BY <1>2, <1>15, <2>1 DEF Expires, cluster, history, TypeOK
<1> QED
  BY <1>4, <1>5, <1>6, <1>7, <1>8, <1>9, <1>10, <1>11, <1>12, <1>13, <1>14, <1>15 DEF SignupStep

\* So does a step of the admin page.
LEMMA PressTypes ==
  ASSUME TypeOK, NEW p \in Presses, PressStep(p) PROVE TypeOK'
<1>1. /\ press \in [Presses -> PressRows] /\ press[p] \in PressRows /\ PressOK(press[p])
      /\ code \in [Codes -> CodeRows] /\ person \in [People -> Users]
      /\ \A d \in Codes : code[d].by # 0 => code[d].state = "open"
  BY DEF TypeOK
<1>2. ASSUME OthersWait(p), PressOK(press[p])', UNCHANGED <<cluster, signup>>,
             code' \in [Codes -> CodeRows],
             \A d \in Codes : code'[d].by # 0 => code'[d].state = "open",
             person' \in [People -> Users], trouble' \in Nat, UNCHANGED <<bought, lapsed>>,
             mailed' \subseteq Codes \X People, missed' \subseteq Codes
      PROVE  TypeOK'
  BY <1>2 DEF TypeOK, OthersWait, cluster
<1>3. ASSUME NEW place \in Desks, Turns(p, place), press[p].at \notin {"new", "over"},
             place \in {"revoke", "why"} => press[p].prior \in Codes,
             place \in {"point", "mail", "stamp", "discard"} => press[p].code \in Codes
      PROVE  OthersWait(p) /\ PressOK(press[p])'
  BY <1>1, <1>3, TurnsShape DEF OthersWait, PressOK, PressRows
<1>4. ASSUME NEW u \in People, Approve(p, u) PROVE TypeOK'
  <2> DEFINE q == [NoPress EXCEPT !.at = "mint", !.person = u]
  <2>1. press' = [press EXCEPT ![p] = q] /\ q \in PressRows /\ PressOK(q)
    BY <1>4 DEF Approve, NoPress, PressRows, PressOK, Desks
  <2>2. person' \in [People -> Users]
    BY <1>1, <1>4 DEF Approve, Users
  <2> HIDE DEF q
  <2>3. OthersWait(p) /\ PressOK(press[p])'
    BY <1>1, <2>1 DEF OthersWait
  <2> QED BY <1>1, <1>2, <1>4, <2>2, <2>3 DEF Approve, history, TypeOK
<1>5. ASSUME NEW u \in People, Send(p, u) PROVE TypeOK'
  <2> DEFINE q == [NoPress EXCEPT !.person = u, !.prior = person[u].invite,
                     !.at = IF person[u].invite = 0 THEN "mint" ELSE "revoke"]
  <2>1. press' = [press EXCEPT ![p] = q]
    BY <1>5 DEF Send
  <2>2. q \in PressRows /\ PressOK(q)
    BY <1>1 DEF NoPress, PressRows, PressOK, Desks, Users
  <2> HIDE DEF q
  <2>3. OthersWait(p) /\ PressOK(press[p])'
    BY <1>1, <2>1, <2>2 DEF OthersWait
  <2> QED BY <1>1, <1>2, <1>5, <2>3 DEF Send, history, TypeOK
<1>6. CASE RevokeUnheld(p)
  <2> DEFINE c == press[p].prior
  <2>1. c \in Codes /\ \E place \in {"mint", "why"} : Turns(p, place)
    BY <1>1, <1>6 DEF RevokeUnheld, PressOK
  <2>2. OthersWait(p) /\ PressOK(press[p])'
    BY <1>3, <1>6, <2>1 DEF RevokeUnheld, Desks
  <2>3. code' = Revoked(c) \/ code' = code
    BY <1>6 DEF RevokeUnheld
  <2>4. /\ code' \in [Codes -> CodeRows]
        /\ \A d \in Codes : code'[d].by # 0 => code'[d].state = "open"
    BY <1>1, <2>1, <2>3, CodeRowShapes
  <2> QED BY <1>2, <1>6, <2>2, <2>4 DEF RevokeUnheld, history, TypeOK
<1>7. CASE AskWhy(p)
  <2>1. press[p].prior \in Codes /\ \E place \in {"mint", "over"} : Turns(p, place)
    BY <1>1, <1>7 DEF AskWhy, PressOK
  <2>2. OthersWait(p) /\ PressOK(press[p])'
    BY <1>3, <1>7, <2>1 DEF AskWhy, Desks
  <2> QED BY <1>2, <1>7, <2>1, <2>2 DEF AskWhy, TypeOK
<1>8. CASE Mint(p)
  <2>1. PICK c \in Fresh :
          Insert(c) /\ press' = [press EXCEPT ![p].at = "point", ![p].code = c]
    BY <1>8 DEF Mint
  <2>2. c \in Codes /\ code[c].by = 0
    BY <1>1 DEF Fresh
  <2>3. /\ code' \in [Codes -> CodeRows]
        /\ \A d \in Codes : code'[d].by # 0 => code'[d].state = "open"
    BY <1>1, <2>1, <2>2, CodeRowShapes
  <2> DEFINE q == [press[p] EXCEPT !.at = "point", !.code = c]
  <2>4. press' = [press EXCEPT ![p] = q]
    BY <1>1, <2>1
  <2>5. q \in PressRows /\ PressOK(q)
    BY <1>1, <1>8, <2>2 DEF PressRows, PressOK, Desks, Mint
  <2> HIDE DEF q
  <2>6. OthersWait(p) /\ PressOK(press[p])'
    BY <1>1, <2>4, <2>5 DEF OthersWait
  <2> QED BY <1>2, <1>8, <2>3, <2>6 DEF Mint, history, TypeOK
<1>9. CASE Point(p)
  <2>1. /\ press[p].person \in People /\ press[p].code \in Codes
        /\ \E place \in {"mail", "discard"} : Turns(p, place)
    BY <1>1, <1>9 DEF Point, PressOK
  <2>2. OthersWait(p) /\ PressOK(press[p])'
    BY <1>3, <1>9, <2>1 DEF Point, Desks
  <2>3. person' \in [People -> Users]
    <3> DEFINE u == press[p].person
    <3>1. /\ [person[u] EXCEPT !.invite = press[p].code, !.told = FALSE] \in Users
      BY <1>1, <2>1 DEF Users
    <3>2. \/ person' = person
          \/ person' = [person EXCEPT ![u] = [person[u] EXCEPT !.invite = press[p].code,
                                                               !.told = FALSE]]
      BY <1>1, <1>9 DEF Point
    <3> QED BY <1>1, <3>1, <3>2
  <2> QED BY <1>1, <1>2, <1>9, <2>2, <2>3 DEF Point, history, TypeOK
<1>10. CASE Discard(p)
  <2> DEFINE c == press[p].code
  <2>1. c \in Codes /\ Turns(p, "over")
    BY <1>1, <1>10 DEF Discard, PressOK
  <2>2. OthersWait(p) /\ PressOK(press[p])'
    BY <1>3, <1>10, <2>1 DEF Discard, Desks
  <2>3. code' = Revoked(c) \/ code' = code
    BY <1>10 DEF Discard
  <2>4. /\ code' \in [Codes -> CodeRows]
        /\ \A d \in Codes : code'[d].by # 0 => code'[d].state = "open"
    BY <1>1, <2>1, <2>3, CodeRowShapes
  <2> QED BY <1>2, <1>10, <2>2, <2>4 DEF Discard, history, TypeOK
<1>11. CASE Mail(p)
  <2>1. /\ press[p].person \in People /\ press[p].code \in Codes
        /\ \E place \in {"stamp", "over"} : Turns(p, place)
    BY <1>1, <1>11 DEF Mail, PressOK
  <2>2. OthersWait(p) /\ PressOK(press[p])'
    BY <1>3, <1>11, <2>1 DEF Mail, Desks
  <2>3. mailed' \subseteq Codes \X People
    BY <1>11, <2>1 DEF Mail, TypeOK
  <2> QED BY <1>1, <1>2, <1>11, <2>2, <2>3 DEF Mail, TypeOK
<1>12. CASE Stamp(p)
  <2>1. press[p].person \in People /\ Turns(p, "over")
    BY <1>1, <1>12 DEF Stamp, PressOK
  <2>2. OthersWait(p) /\ PressOK(press[p])'
    BY <1>3, <1>12, <2>1 DEF Stamp, Desks
  <2>3. person' \in [People -> Users]
    BY <1>1, <1>12, <2>1 DEF Stamp, Users
  <2> QED BY <1>1, <1>2, <1>12, <2>2, <2>3 DEF Stamp, history, TypeOK
<1>13. CASE PressFails(p)
  <2>1. OthersWait(p) /\ PressOK(press[p])'
    <3>1. CASE Turns(p, "over") /\ press[p].at \notin {"new", "over"}
      BY <1>3, <3>1 DEF Desks
    <3>2. CASE Turns(p, "discard") /\ press[p].at = "point"
      BY <1>1, <1>3, <3>2 DEF Desks, PressOK
    <3> QED BY <1>13, <3>1, <3>2 DEF PressFails
  <2>2. trouble' \in Nat
    BY <1>13 DEF PressFails, Fault, TypeOK
  <2> QED BY <1>1, <1>2, <1>13, <2>1, <2>2 DEF PressFails, history, TypeOK
<1> QED
  BY <1>4, <1>5, <1>6, <1>7, <1>8, <1>9, <1>10, <1>11, <1>12, <1>13 DEF PressStep

\* The tables of signups and of the admin page stay well formed.
LEMMA SignupTypesHold == Spec => []TypeOK
<1>1. Init => TypeOK
  <2> SUFFICES ASSUME NEW sent \in BOOLEAN,
                      code = [c \in Codes |-> FirstCode(c, sent)],
                      person = [u \in People |-> FirstRow(u, sent)],
                      tenant = [l \in Labels |-> 0],
                      pod = [l \in Labels |-> [mail |-> 0, state |-> "none"]],
                      signup = [s \in Signups |-> NoSignup],
                      press = [p \in Presses |-> NoPress], trouble = 0,
                      mailed = IF sent THEN {<<u, u>> : u \in People} ELSE {},
                      bought = {}, lapsed = {}, missed = {}
               PROVE  TypeOK
    BY DEF Init
  <2>1. \A c \in Codes : FirstCode(c, sent) \in CodeRows /\ FirstCode(c, sent).by = 0
    BY DEF FirstCode, CodeRows
  <2>2. \A u \in People : FirstRow(u, sent) \in Users /\ u \in Codes
    BY SignupAssumption DEF FirstRow, Users
  <2>3. NoSignup \in Browsers /\ BrowserOK(NoSignup)
    BY DEF NoSignup, Browsers, BrowserOK, Places, Late, Early
  <2>4. NoPress \in PressRows /\ PressOK(NoPress)
    BY DEF NoPress, PressRows, PressOK, Desks
  <2>5. [mail |-> 0, state |-> "none"] \in Pods
    BY DEF Pods
  <2> QED BY <2>1, <2>2, <2>3, <2>4, <2>5 DEF TypeOK
<1>2. TypeOK /\ [Next]_vars => TypeOK'
  <2> SUFFICES ASSUME TypeOK, [Next]_vars PROVE TypeOK'
    OBVIOUS
  <2>0. /\ code \in [Codes -> CodeRows]
        /\ \A d \in Codes : code[d].by # 0 => code[d].state = "open"
    BY DEF TypeOK
  <2>1. ASSUME NEW c \in Codes, Lapses(c) PROVE TypeOK'
    <3> DEFINE row == [code[c] EXCEPT !.live = FALSE]
    <3>1. code' = [code EXCEPT ![c] = row] /\ row \in CodeRows
      BY <2>1 DEF Lapses, TypeOK, CodeRows
    <3>2. row.state = code[c].state /\ row.by = code[c].by
      BY DEF TypeOK, CodeRows
    <3> HIDE DEF row
    <3>3. /\ code' \in [Codes -> CodeRows]
          /\ \A d \in Codes : code'[d].by # 0 => code'[d].state = "open"
      BY <3>1, <3>2 DEF TypeOK
    <3> QED BY <2>1, <3>3 DEF Lapses, cluster, TypeOK
  <2>2. ASSUME NEW c \in Codes, Revoke(c) PROVE TypeOK'
    <3>1. /\ code' \in [Codes -> CodeRows]
          /\ \A d \in Codes : code'[d].by # 0 => code'[d].state = "open"
      BY <2>0, <2>2, CodeRowShapes DEF Revoke
    <3> QED BY <2>2, <3>1 DEF Revoke, Fault, cluster, history, TypeOK
  <2>3. CASE Issue
    <3>1. PICK c \in Fresh : Insert(c)
      BY <2>3 DEF Issue
    <3>2. c \in Codes /\ code[c].by = 0
      BY DEF Fresh, TypeOK
    <3>3. /\ code' \in [Codes -> CodeRows]
          /\ \A d \in Codes : code'[d].by # 0 => code'[d].state = "open"
      BY <2>0, <3>1, <3>2, CodeRowShapes
    <3> QED BY <2>3, <3>3 DEF Issue, Fault, cluster, history, TypeOK
  <2>4. CASE Crash
    <3>1. /\ NoSignup \in Browsers /\ BrowserOK(NoSignup)
          /\ [NoSignup EXCEPT !.at = "over"] \in Browsers
          /\ BrowserOK([NoSignup EXCEPT !.at = "over"])
      BY DEF NoSignup, Browsers, BrowserOK, Places, Late, Early
    <3>2. \A p \in Presses :
            /\ [NoPress EXCEPT !.at = "over", !.code = press[p].code] \in PressRows
            /\ PressOK([NoPress EXCEPT !.at = "over", !.code = press[p].code])
      BY DEF TypeOK, NoPress, PressRows, PressOK, Desks
    <3>3. NoPress \in PressRows /\ PressOK(NoPress)
      BY DEF NoPress, PressRows, PressOK, Desks
    <3>4. (signup \in [Signups -> Browsers] /\ \A s \in Signups : BrowserOK(signup[s]))'
      BY <2>4, <3>1 DEF Crash
    <3>5. (press \in [Presses -> PressRows] /\ \A p \in Presses : PressOK(press[p]))'
      BY <2>4, <3>2, <3>3 DEF Crash
    <3>6. UNCHANGED <<code, person, cluster, history>> /\ Fault
      BY <2>4 DEF Crash
    <3>7. trouble' \in Nat
      BY <3>6 DEF Fault, TypeOK
    <3> QED BY <3>4, <3>5, <3>6, <3>7 DEF cluster, history, TypeOK
  <2>5. CASE UNCHANGED vars
    BY <2>5 DEF vars, cluster, history, TypeOK
  <2> QED BY <2>1, <2>2, <2>3, <2>4, <2>5, SignupTypes, PressTypes DEF Next
<1> QED BY <1>1, <1>2, PTL DEF Spec

--------------------------------------------------------------------------------
(* One code, one mailbox *)

Sold == {"spend", "funnel", "over"}
HeldBy(c, s) == code[c].by = s /\ code[c].live
OnCode(c, places) == {s \in Signups : signup[s].at \in places /\ signup[s].code = c}

\* A callback at work with a code holds it still, or an operator has taken the code
\* away; no other has it; until it records a tenant the code has bought nothing; and
\* what has bought is used, gone, or held by the browser that is past recording.
CodeInv(c) ==
  /\ \A s \in OnCode(c, Late) : HeldBy(c, s) \/ code[c].state = "gone"
  /\ \A s, r \in OnCode(c, Late) : s = r
  /\ OnCode(c, Early) # {} => Buys(c) = {}
  /\ \A k, l \in Buys(c) : k = l
  /\ Buys(c) # {} => \/ code[c].state \in {"used", "gone"}
                     \/ \E s \in Signups : HeldBy(c, s) /\ signup[s].at \in Sold
CodesInv == \A c \in Codes \ lapsed : CodeInv(c)

\* No browser starts to work with a code, and none turns back after recording.
Calm(c) == \A s \in Signups :
  /\ s \in OnCode(c, Late)' => s \in OnCode(c, Late)
  /\ s \in OnCode(c, Early)' => s \in OnCode(c, Early)
  /\ signup[s].at \in Sold => signup'[s].at \in Sold

\* A step from place to place is calm for every code.
LEMMA GoesCalmly ==
  ASSUME TypeOK, NEW s \in Signups, NEW place \in Places, Goes(s, place),
         place \in Late => signup[s].at \in Late, place \in Early => signup[s].at \in Early,
         signup[s].at \in Sold => place \in Sold
  PROVE  \A c \in Codes : Calm(c)
<1>1. /\ signup \in [Signups -> Browsers]
      /\ signup'[s].at = place /\ \A r \in Signups \ {s} : signup'[r] = signup[r]
      /\ place # "over" => signup'[s].code = signup[s].code
  BY GoesShape DEF TypeOK
<1> QED BY <1>1 DEF Calm, OnCode, Late, Early

\* Nothing is lost to a code by calm steps that insert it or take it away.
LEMMA CalmKeeps ==
  ASSUME TypeOK, NEW c \in Codes, CodeInv(c), Calm(c), Buys(c)' = Buys(c),
         \/ code'[c] = code[c] \/ code'[c].state = "gone"
         \/ code[c].state = "none"
  PROVE  CodeInv(c)'
<1>1. ASSUME code'[c].state = "gone" PROVE CodeInv(c)'
  BY <1>1 DEF CodeInv, Calm, OnCode
<1>2. ASSUME code'[c] = code[c] PROVE CodeInv(c)'
  <2>1. \A s : HeldBy(c, s)' <=> HeldBy(c, s)
    BY <1>2 DEF HeldBy
  <2> QED BY <1>2, <2>1 DEF CodeInv, Calm, OnCode
<1>3. ASSUME code[c].state = "none" PROVE CodeInv(c)'
  <2>1. \A s \in Signups : ~HeldBy(c, s)
    BY <1>3, SignupAssumption DEF TypeOK, HeldBy
  <2>2. OnCode(c, Late) = {} /\ Buys(c) = {}
    BY <1>3, <2>1 DEF CodeInv, OnCode
  <2>3. OnCode(c, Late)' = {} /\ OnCode(c, Early)' = {} /\ Buys(c)' = {}
    BY <2>2 DEF Calm, OnCode, Late
  <2> QED BY <2>3 DEF CodeInv
<1> QED BY <1>1, <1>2, <1>3

\* With nobody at work on a code and nothing bought there is nothing to keep.
LEMMA IdleCode ==
  ASSUME NEW c \in Codes, OnCode(c, Late)' = {}, Buys(c)' = {} PROVE CodeInv(c)'
<1>1. OnCode(c, Early)' = {}
  BY DEF OnCode, Late
<1> QED BY <1>1 DEF CodeInv

\* A code that is held by a browser before it has recorded, or by nobody, is idle.
LEMMA FreeCode ==
  ASSUME TypeOK, NEW c \in Codes, CodeInv(c), code[c].state = "open",
         \A s \in Signups : HeldBy(c, s) => signup[s].at \notin Late \cup Sold
  PROVE  OnCode(c, Late) = {} /\ Buys(c) = {}
BY DEF CodeInv, OnCode

\* A browser's step keeps what is known of every code.
LEMMA SignupKeepsCodes ==
  ASSUME TypeOK, CodesInv, NEW s \in Signups, SignupStep(s) PROVE CodesInv'
<1> DEFINE own == signup[s].code
<1>1. /\ signup \in [Signups -> Browsers] /\ BrowserOK(signup[s])
      /\ code \in [Codes -> CodeRows]
      /\ \A d \in Codes : code[d].by # 0 => code[d].state = "open"
      /\ 0 \notin Signups
  BY SignupAssumption DEF TypeOK
<1>2. ASSUME NEW place \in Places, Goes(s, place),
             place \in Late => signup[s].at \in Late, place \in Early => signup[s].at \in Early,
             signup[s].at \in Sold => place \in Sold,
             UNCHANGED bought, lapsed \subseteq lapsed',
             \A c \in Codes \ lapsed' : code'[c] = code[c]
      PROVE  CodesInv'
  <2> SUFFICES ASSUME NEW c \in Codes \ lapsed' PROVE CodeInv(c)'
    BY DEF CodesInv
  <2>1. Calm(c) /\ Buys(c)' = Buys(c) /\ CodeInv(c) /\ code'[c] = code[c]
    BY <1>2, GoesCalmly DEF Buys, CodesInv
  <2> QED BY <2>1, CalmKeeps
<1>3. ASSUME NEW d \in Codes, NEW l \in Labels, Post(s, d, l) PROVE CodesInv'
  <2>1. \A c \in Codes : Calm(c)
    BY <1>1, <1>3 DEF Post, Calm, OnCode, NoSignup, Late, Early, Sold
  <2>2. UNCHANGED <<code, bought, lapsed>>
    BY <1>3 DEF Post, history
  <2>3. \A c \in Codes : Buys(c)' = Buys(c) /\ code'[c] = code[c]
    BY <2>2 DEF Buys
  <2> QED BY <2>1, <2>2, <2>3, CalmKeeps DEF CodesInv
<1>4. CASE Hold(s)
  <2>1. own \in Codes /\ UNCHANGED <<bought, lapsed>> /\ signup[s].at = "posted"
    BY <1>1, <1>4 DEF Hold, BrowserOK, history
  <2>2. PICK place \in {"consent", "release", "over"} : Goes(s, place)
    BY <1>4 DEF Hold
  <2>3. \A c \in Codes : Calm(c)
    BY <2>1, <2>2, GoesCalmly DEF Places, Late, Early, Sold
  <2> SUFFICES ASSUME NEW c \in Codes \ lapsed' PROVE CodeInv(c)'
    BY DEF CodesInv
  <2>4. Buys(c)' = Buys(c) /\ CodeInv(c)
    BY <2>1 DEF Buys, CodesInv
  <2>5. CASE code'[c] = code[c]
    BY <2>3, <2>4, <2>5, CalmKeeps
  <2>6. CASE code'[c] # code[c]
    <3>1. c = own /\ Available(c)
      BY <1>1, <1>4, <2>1, <2>6 DEF Hold, Reserves
    <3>2. \A r \in Signups : ~HeldBy(c, r)
      BY <1>1, <3>1 DEF Available, Held, HeldBy
    <3>3. OnCode(c, Late) = {} /\ Buys(c) = {}
      BY <2>4, <3>1, <3>2, FreeCode DEF Available
    <3>4. OnCode(c, Late)' = {}
      BY <2>3, <3>3 DEF Calm, OnCode
    <3> QED BY <2>4, <3>3, <3>4, IdleCode
  <2> QED BY <2>5, <2>6
<1>5. ASSUME NEW m \in Mailboxes, Callback(s, m) PROVE CodesInv'
  <2>1. /\ own \in Codes /\ UNCHANGED <<code, bought>> /\ lapsed \subseteq lapsed'
        /\ signup[s].at = "consent"
    BY <1>1, <1>5 DEF Callback, BrowserOK
  <2>2. CASE Goes(s, "release")
    BY <1>2, <2>1, <2>2 DEF Places, Late, Early, Sold
  <2>3. CASE signup' = [signup EXCEPT ![s].at = "lookup", ![s].mail = m]
    <3> SUFFICES ASSUME NEW c \in Codes \ lapsed' PROVE CodeInv(c)'
      BY DEF CodesInv
    <3>1. Buys(c)' = Buys(c) /\ CodeInv(c)
      BY <2>1 DEF Buys, CodesInv
    <3>2. /\ signup'[s].at = "lookup" /\ signup'[s].code = own
          /\ \A r \in Signups \ {s} : signup'[r] = signup[r]
      BY <1>1, <2>3 DEF Browsers
    <3>3. CASE c # own
      <4>1. Calm(c)
        BY <2>1, <3>2, <3>3 DEF Calm, OnCode, Sold
      <4> QED BY <2>1, <3>1, <4>1, CalmKeeps
    <3>4. CASE c = own
      <4>1. HeldBy(c, s) /\ code[c].state = "open"
        BY <1>1, <1>5, <3>4 DEF Callback, HeldBy
      <4>2. \A r \in Signups : HeldBy(c, r) => r = s
        BY <4>1 DEF HeldBy
      <4>3. OnCode(c, Late) = {} /\ Buys(c) = {}
        BY <2>1, <3>1, <4>1, <4>2, FreeCode DEF Late, Early, Sold
      <4>4. OnCode(c, Late)' = {s} /\ HeldBy(c, s)'
        BY <2>1, <3>2, <3>4, <4>1, <4>3 DEF OnCode, HeldBy, Late, Early
      <4> QED BY <3>1, <4>3, <4>4 DEF CodeInv
    <3> QED BY <3>3, <3>4
  <2> QED BY <1>5, <2>2, <2>3 DEF Callback
<1>6. CASE Release(s)
  <2>1. /\ own \in Codes /\ UNCHANGED <<bought, lapsed>>
        /\ signup[s].at = "release" /\ Goes(s, "over")
    BY <1>1, <1>6 DEF Release, BrowserOK, history
  <2>2. \A c \in Codes : Calm(c)
    BY <2>1, GoesCalmly DEF Places, Late, Early, Sold
  <2> SUFFICES ASSUME NEW c \in Codes \ lapsed' PROVE CodeInv(c)'
    BY DEF CodesInv
  <2>3. Buys(c)' = Buys(c) /\ CodeInv(c)
    BY <2>1 DEF Buys, CodesInv
  <2>4. CASE code'[c] = code[c]
    BY <2>2, <2>3, <2>4, CalmKeeps
  <2>5. CASE code'[c] # code[c]
    <3>1. c = own /\ code[c].by = s /\ code[c].state = "open"
      BY <1>1, <1>6, <2>1, <2>5, CodeRowShapes DEF Release
    <3>2. OnCode(c, Late) = {} /\ Buys(c) = {}
      BY <2>1, <2>3, <3>1, FreeCode DEF HeldBy, Late, Early, Sold
    <3>3. OnCode(c, Late)' = {}
      BY <2>2, <3>2 DEF Calm, OnCode
    <3> QED BY <2>3, <3>2, <3>3, IdleCode
  <2> QED BY <2>4, <2>5
<1>7. CASE LookUp(s)
  <2>1. \E place \in {"release", "create"} : Goes(s, place)
    BY <1>7 DEF LookUp
  <2> QED BY <1>2, <1>7, <2>1 DEF LookUp, history, Places, Late, Early, Sold
<1>8. CASE Create(s)
  <2>1. \E place \in {"release", "install"} : Goes(s, place)
    BY <1>8 DEF Create, AfterCreate
  <2> QED BY <1>2, <1>8, <2>1 DEF Create, history, Places, Late, Early, Sold
<1>9. CASE Install(s)
  <2>1. \E place \in {"release", "record"} : Goes(s, place)
    BY <1>9 DEF Install
  <2> QED BY <1>2, <1>9, <2>1 DEF Install, history, Places, Late, Early, Sold
<1>10. CASE Record(s)
  <2>1. /\ own \in Codes /\ signup[s].label \in Labels /\ UNCHANGED <<code, lapsed>>
        /\ signup[s].at = "record"
    BY <1>1, <1>10 DEF Record, BrowserOK, Late, Early
  <2>2. CASE Goes(s, "over") /\ bought' = bought
    BY <1>2, <2>1, <2>2 DEF Places, Late, Early, Sold
  <2>3. CASE Goes(s, "spend") /\ bought' = bought \cup {<<own, signup[s].label>>}
    <3>1. /\ \A c \in Codes : Calm(c)
      BY <2>1, <2>3, GoesCalmly DEF Places, Late, Early, Sold
    <3>2. signup'[s].at = "spend" /\ signup'[s].code = own
      BY <1>1, <2>3, GoesShape DEF Places, Late, Early
    <3> SUFFICES ASSUME NEW c \in Codes \ lapsed' PROVE CodeInv(c)'
      BY DEF CodesInv
    <3>3. CodeInv(c)
      BY <2>1 DEF CodesInv
    <3>4. CASE c # own
      <4>1. Buys(c)' = Buys(c)
        BY <2>3, <3>4 DEF Buys
      <4> QED BY <2>1, <3>1, <3>3, <4>1, CalmKeeps
    <3>5. CASE c = own
      <4>1. s \in OnCode(c, Late) /\ s \in OnCode(c, Early)
        BY <2>1, <3>5 DEF OnCode, Late, Early
      <4>2. Buys(c)' = {signup[s].label}
        BY <2>1, <2>3, <3>3, <3>5, <4>1 DEF Buys, CodeInv
      <4>3. /\ \A r \in OnCode(c, Late)' : r = s
            /\ OnCode(c, Early)' = {}
        BY <3>1, <3>2, <3>3, <4>1 DEF Calm, CodeInv, OnCode, Late, Early
      <4>4. HeldBy(c, s)' \/ code'[c].state = "gone"
        BY <2>1, <3>3, <4>1 DEF CodeInv, HeldBy
      <4> QED BY <3>2, <4>2, <4>3, <4>4 DEF CodeInv, Sold
    <3> QED BY <3>4, <3>5
  <2> QED BY <1>10, <2>2, <2>3 DEF Record
<1>11. CASE Spend(s)
  <2>1. /\ own \in Codes /\ UNCHANGED <<bought, lapsed>>
        /\ signup[s].at = "spend" /\ Goes(s, "funnel")
    BY <1>1, <1>11 DEF Spend, BrowserOK, history, Late, Early
  <2>2. \A c \in Codes : Calm(c)
    BY <2>1, GoesCalmly DEF Places, Late, Early, Sold
  <2> SUFFICES ASSUME NEW c \in Codes \ lapsed' PROVE CodeInv(c)'
    BY DEF CodesInv
  <2>3. Buys(c)' = Buys(c) /\ CodeInv(c)
    BY <2>1 DEF Buys, CodesInv
  <2>4. CASE code'[c] = code[c]
    BY <2>2, <2>3, <2>4, CalmKeeps
  <2>5. CASE code'[c] # code[c]
    <3>1. c = own /\ code'[c].state = "used"
      BY <1>1, <1>11, <2>1, <2>5, CodeRowShapes DEF Spend
    <3>2. s \in OnCode(c, Late) /\ signup'[s].at = "funnel"
      BY <1>1, <2>1, <3>1, GoesShape DEF OnCode, Places, Late, Early
    <3>3. OnCode(c, Late)' = {} /\ OnCode(c, Early)' = {}
      BY <2>2, <2>3, <3>2 DEF Calm, CodeInv, OnCode, Late, Early
    <3> QED BY <2>3, <3>1, <3>3 DEF CodeInv
  <2> QED BY <2>4, <2>5
<1>12. CASE Funnel(s)
  BY <1>2, <1>12 DEF Funnel, history, Places, Late, Early, Sold
<1>13. CASE CallFails(s)
  <2>1. /\ UNCHANGED <<code, bought, lapsed>>
        /\ \/ Goes(s, "release") /\ signup[s].at \in {"lookup", "create", "install"}
           \/ Goes(s, "over")
           \/ Goes(s, "funnel") /\ signup[s].at = "spend"
    BY <1>13 DEF CallFails, history
  <2> QED BY <1>2, <2>1 DEF Places, Late, Early, Sold
<1>14. CASE Expires(s)
  BY <1>2, <1>14 DEF Expires, history, Places, Late, Early, Sold
<1> QED
  BY <1>3, <1>4, <1>5, <1>6, <1>7, <1>8, <1>9, <1>10, <1>11, <1>12, <1>13, <1>14 DEF SignupStep

\* What steps other than a browser's do to the codes table: a row is inserted, taken
\* away or left, or the hold on it runs out.
LEMMA OtherCodeMoves ==
  ASSUME TypeOK, NEW p \in Presses, PressStep(p)
  PROVE  /\ \A c \in Codes :
              code'[c] = code[c] \/ code'[c].state = "gone" \/ code[c].state = "none"
         /\ UNCHANGED <<cluster, signup, bought, lapsed>>
<1>1. code \in [Codes -> CodeRows] /\ PressOK(press[p])
  BY DEF TypeOK
<1>2. ASSUME NEW u \in People, Approve(p, u) \/ Send(p, u)
      PROVE  UNCHANGED <<code, cluster, signup, bought, lapsed>>
  BY <1>2 DEF Approve, Send, history
<1>3. CASE RevokeUnheld(p)
  BY <1>1, <1>3, CodeRowShapes DEF RevokeUnheld, PressOK, history
<1>4. CASE Mint(p)
  BY <1>1, <1>4, CodeRowShapes DEF Mint, Fresh, history
<1>5. CASE Discard(p)
  BY <1>1, <1>5, CodeRowShapes DEF Discard, PressOK, history
<1>6. CASE AskWhy(p) \/ Point(p) \/ Mail(p) \/ Stamp(p) \/ PressFails(p)
  BY <1>6 DEF AskWhy, Point, Mail, Stamp, PressFails, history
<1> QED BY <1>2, <1>3, <1>4, <1>5, <1>6 DEF PressStep

\* Every step does.
LEMMA CodesInvStep ==
  ASSUME TypeOK, CodesInv, [Next]_vars PROVE CodesInv'
<1>1. /\ code \in [Codes -> CodeRows] /\ signup \in [Signups -> Browsers]
      /\ \A d \in Codes : code[d].by # 0 => code[d].state = "open"
      /\ 0 \notin Signups
  BY SignupAssumption DEF TypeOK
<1>2. ASSUME UNCHANGED <<bought, lapsed>>, \A c \in Codes : Calm(c),
             \A c \in Codes : code'[c] = code[c] \/ code'[c].state = "gone" \/ code[c].state = "none"
      PROVE  CodesInv'
  <2>1. \A c \in Codes : Buys(c)' = Buys(c)
    BY <1>2 DEF Buys
  <2> QED BY <1>2, <2>1, CalmKeeps DEF CodesInv
<1>3. UNCHANGED signup => \A c \in Codes : Calm(c)
  BY DEF Calm, OnCode
<1>4. ASSUME NEW p \in Presses, PressStep(p) PROVE CodesInv'
  BY <1>2, <1>3, <1>4, OtherCodeMoves
<1>5. ASSUME NEW d \in Codes, Lapses(d) PROVE CodesInv'
  <2>1. UNCHANGED <<signup, bought>> /\ lapsed \subseteq lapsed'
    BY <1>5 DEF Lapses
  <2> SUFFICES ASSUME NEW c \in Codes \ lapsed' PROVE CodeInv(c)'
    BY DEF CodesInv
  <2>2. Calm(c) /\ Buys(c)' = Buys(c) /\ CodeInv(c)
    BY <1>3, <2>1 DEF Buys, CodesInv
  <2>3. CASE c # d
    BY <1>1, <1>5, <2>2, <2>3, CalmKeeps DEF Lapses
  <2>4. CASE c = d
    <3>1. /\ code[c].by \in Signups /\ code[c].state = "open"
          /\ signup[code[c].by].at \in {"consent", "release"}
      BY <1>1, <1>5, <2>4 DEF Lapses, Held, CodeRows
    <3>2. OnCode(c, Late) = {} /\ Buys(c) = {}
      BY <2>2, <3>1, FreeCode DEF HeldBy, Late, Early, Sold
    <3>3. OnCode(c, Late)' = {}
      BY <2>2, <3>2 DEF Calm, OnCode
    <3> QED BY <2>2, <3>2, <3>3, IdleCode
  <2> QED BY <2>3, <2>4
<1>6. ASSUME NEW d \in Codes, Revoke(d) PROVE CodesInv'
  BY <1>1, <1>2, <1>3, <1>6, CodeRowShapes DEF Revoke, history
<1>7. CASE Issue
  BY <1>1, <1>2, <1>3, <1>7, CodeRowShapes DEF Issue, Fresh, history
<1>8. CASE Crash
  <2>1. \A s \in Signups : signup'[s].at \in {"new", "over"}
                           /\ (signup[s].at # "new" => signup'[s].at = "over")
    BY <1>8 DEF Crash, NoSignup
  <2>2. \A c \in Codes : Calm(c)
    BY <2>1 DEF Calm, OnCode, Late, Early, Sold
  <2>3. UNCHANGED <<code, bought, lapsed>>
    BY <1>8 DEF Crash, history
  <2> QED BY <1>2, <2>2, <2>3
<1>9. CASE UNCHANGED vars
  BY <1>2, <1>3, <1>9 DEF vars, history
<1> QED BY <1>4, <1>5, <1>6, <1>7, <1>8, <1>9, SignupKeepsCodes DEF Next

\* A code buys one mailbox and is off the shelf once it has, unless its hold has run
\* out under a callback: reserve_invite and consume_invite take it for one browser only.
THEOREM CodesBuyOnce == Spec => []CodeBuysOnce
<1>1. Init => CodesInv
  <2> SUFFICES ASSUME Init PROVE \A c \in Codes : CodeInv(c)
    BY DEF CodesInv
  <2>1. \A s \in Signups : signup[s].at = "new"
    BY DEF Init, NoSignup
  <2>2. bought = {}
    BY DEF Init
  <2> QED BY <2>1, <2>2 DEF CodeInv, OnCode, Buys, Late, Early
<1>2. TypeOK /\ CodesInv => CodeBuysOnce
  <2> SUFFICES ASSUME TypeOK, NEW c \in Codes \ lapsed, CodeInv(c)
               PROVE  Cardinality(Buys(c)) <= 1 /\ (Available(c) => Buys(c) = {})
    BY DEF CodesInv, CodeBuysOnce
  <2>1. Cardinality(Buys(c)) <= 1
    <3>1. CASE Buys(c) = {}
      BY <3>1, FS_EmptySet
    <3>2. CASE Buys(c) # {}
      <4>1. PICK l \in Buys(c) : TRUE
        BY <3>2
      <4>2. Buys(c) = {l}
        BY <4>1 DEF CodeInv
      <4>3. Cardinality(Buys(c)) = 1
        BY <4>2, FS_Singleton
      <4> QED BY <4>3
    <3> QED BY <3>1, <3>2
  <2>2. Available(c) => Buys(c) = {}
    BY SignupAssumption DEF CodeInv, Available, Held, HeldBy
  <2> QED BY <2>1, <2>2
<1> QED BY <1>1, <1>2, CodesInvStep, SignupTypesHold, PTL DEF Spec

--------------------------------------------------------------------------------
(* What is recorded is served *)

\* Between the warden's two calls the address is the caller's mailbox's, and after the
\* second it serves it: nothing re-issues an address that is not pending for the caller.
Reserved(s) ==
  LET b == signup[s]
  IN /\ b.at = "record" => pod[b.label] = [mail |-> b.mail, state |-> "serving"]
     /\ b.at = "install" => /\ pod[b.label].mail = b.mail
                            /\ pod[b.label].state \in {"pending", "serving"}
PodInv == RecordedServes /\ \A s \in Signups : Reserved(s)

\* A pod that stays as it was keeps what is known, if the browser needs no more of it.
LEMMA PodsKept ==
  ASSUME TypeOK, PodInv, UNCHANGED cluster,
         \A s \in Signups : signup'[s] = signup[s] \/ signup'[s].at \notin {"record", "install"}
  PROVE  PodInv'
BY DEF PodInv, Reserved, RecordedServes, cluster

\* A browser's step keeps what is served.
LEMMA SignupKeepsPods ==
  ASSUME TypeOK, PodInv, NEW s \in Signups, SignupStep(s) PROVE PodInv'
<1> DEFINE l == signup[s].label
           m == signup[s].mail
<1>1. /\ signup \in [Signups -> Browsers] /\ BrowserOK(signup[s]) /\ pod \in [Labels -> Pods]
      /\ tenant \in [Labels -> Mailboxes \cup {0}]
      /\ \A r \in Signups : signup[r] \in Browsers /\ BrowserOK(signup[r])
  BY DEF TypeOK
<1>2. ASSUME NEW place \in Places \ {"record", "install"}, Goes(s, place)
      PROVE  /\ \A r \in Signups : signup'[r] = signup[r] \/ signup'[r].at \notin {"record", "install"}
             /\ \A r \in Signups \ {s} : signup'[r] = signup[r]
  BY <1>1, <1>2, GoesShape
\* A pending address of the caller's begins to serve.
<1>3. ASSUME l \in Labels, pod[l] = [mail |-> m, state |-> "pending"],
             pod' = [pod EXCEPT ![l].state = "serving"], UNCHANGED tenant,
             \A r \in Signups \ {s} : signup'[r] = signup[r], Reserved(s)'
      PROVE  PodInv'
  <2>1. /\ pod'[l] = [mail |-> m, state |-> "serving"]
        /\ \A k \in Labels \ {l} : pod'[k] = pod[k]
    BY <1>1, <1>3 DEF Pods
  <2>2. RecordedServes'
    BY <1>3, <2>1 DEF PodInv, RecordedServes
  <2>3. ASSUME NEW r \in Signups \ {s} PROVE Reserved(r)'
    <3>1. Reserved(r) /\ BrowserOK(signup[r]) /\ signup'[r] = signup[r]
      BY <1>1, <1>3 DEF PodInv
    <3>2. CASE signup[r].label = l
      BY <1>3, <2>1, <3>1, <3>2 DEF Reserved
    <3>3. CASE signup[r].label # l
      BY <2>1, <3>1, <3>3 DEF Reserved, BrowserOK, Late, Early
    <3> QED BY <3>2, <3>3
  <2> QED BY <1>3, <2>2, <2>3 DEF PodInv
<1>4. ASSUME NEW d \in Codes, NEW k \in Labels, Post(s, d, k) PROVE PodInv'
  <2>1. \A r \in Signups : signup'[r] = signup[r] \/ signup'[r].at \notin {"record", "install"}
    BY <1>1, <1>4 DEF Post, NoSignup
  <2> QED BY <1>4, <2>1, PodsKept DEF Post
<1>5. ASSUME NEW n \in Mailboxes, Callback(s, n) PROVE PodInv'
  <2>1. CASE Goes(s, "release")
    BY <1>2, <1>5, <2>1, PodsKept DEF Callback, Places, Late, Early
  <2>2. CASE signup' = [signup EXCEPT ![s].at = "lookup", ![s].mail = n]
    <3>1. \A r \in Signups : signup'[r] = signup[r] \/ signup'[r].at \notin {"record", "install"}
      BY <1>1, <2>2 DEF Browsers
    <3> QED BY <1>5, <3>1, PodsKept DEF Callback
  <2> QED BY <1>5, <2>1, <2>2 DEF Callback
<1>6. CASE Hold(s) \/ Release(s) \/ LookUp(s) \/ Spend(s) \/ Funnel(s) \/ Expires(s)
  <2>1. /\ UNCHANGED cluster
        /\ \E place \in {"consent", "release", "over", "create", "funnel"} : Goes(s, place)
    BY <1>6 DEF Hold, Release, LookUp, Spend, Funnel, Expires
  <2> QED BY <1>2, <2>1, PodsKept DEF Places, Late, Early
<1>7. CASE Create(s)
  <2>1. l \in Labels /\ m \in Mailboxes /\ signup[s].at = "create" /\ UNCHANGED tenant
    BY <1>1, <1>7 DEF Create, BrowserOK, Late, Early
  <2>2. CASE UNCHANGED pod /\ Goes(s, "release")
    BY <1>2, <2>1, <2>2, PodsKept DEF cluster, Places, Late, Early
  <2>3. CASE /\ pod[l].state = "none" \/ pod[l] = [mail |-> m, state |-> "pending"]
             /\ pod' = [pod EXCEPT ![l] = [mail |-> m, state |-> "pending"]]
             /\ Goes(s, "install") \/ Goes(s, "release")
    <3>1. /\ pod'[l] = [mail |-> m, state |-> "pending"]
          /\ \A k \in Labels \ {l} : pod'[k] = pod[k]
      BY <1>1, <2>1, <2>3
    <3>2. tenant[l] = 0
      <4>1. pod[l].state # "serving"
        BY <2>3
      <4>2. tenant[l] # 0 => pod[l] = [mail |-> tenant[l], state |-> "serving"]
        BY <2>1 DEF PodInv, RecordedServes
      <4> QED BY <4>1, <4>2
    <3>3. RecordedServes'
      BY <2>1, <3>1, <3>2 DEF PodInv, RecordedServes
    <3>4. Reserved(s)'
      <4>1. signup'[s].at \in {"install", "release"}
            /\ signup'[s].label = l /\ signup'[s].mail = m
        BY <1>1, <2>3, GoesShape DEF Places, Late, Early
      <4> QED BY <3>1, <4>1 DEF Reserved
    <3>5. ASSUME NEW r \in Signups \ {s} PROVE Reserved(r)'
      <4>1. Reserved(r) /\ BrowserOK(signup[r]) /\ signup'[r] = signup[r]
        BY <1>1, <2>3, GoesShape DEF PodInv, Places, Late, Early
      <4>2. CASE signup[r].label = l
        BY <2>3, <3>1, <4>1, <4>2 DEF Reserved
      <4>3. CASE signup[r].label # l
        BY <3>1, <4>1, <4>3 DEF Reserved, BrowserOK, Late, Early
      <4> QED BY <4>2, <4>3
    <3> QED BY <3>3, <3>4, <3>5 DEF PodInv
  <2> QED BY <1>7, <2>2, <2>3 DEF Create, AfterCreate
<1>8. CASE Install(s)
  <2>1. l \in Labels /\ m \in Mailboxes /\ signup[s].at = "install" /\ UNCHANGED tenant
        /\ Reserved(s) /\ pod[l] \in Pods
    BY <1>1, <1>8 DEF Install, BrowserOK, Late, Early, PodInv
  <2>2. CASE UNCHANGED pod /\ Goes(s, "release")
    BY <1>2, <2>1, <2>2, PodsKept DEF cluster, Places, Late, Early
  <2>3. CASE /\ pod[l].state = "pending" /\ pod' = [pod EXCEPT ![l].state = "serving"]
             /\ Goes(s, "record")
    <3>1. pod[l] = [mail |-> m, state |-> "pending"]
      BY <2>1, <2>3 DEF Reserved, Pods
    <3>2. /\ signup'[s].at = "record" /\ signup'[s].label = l /\ signup'[s].mail = m
          /\ \A r \in Signups \ {s} : signup'[r] = signup[r]
      BY <1>1, <2>3, GoesShape DEF Places, Late, Early
    <3>3. Reserved(s)'
      BY <1>1, <2>1, <2>3, <3>1, <3>2 DEF Reserved, Pods
    <3> QED BY <1>3, <2>1, <2>3, <3>1, <3>2, <3>3
  <2> QED BY <1>8, <2>2, <2>3 DEF Install
<1>9. CASE Record(s)
  <2>1. /\ l \in Labels /\ m \in Mailboxes /\ signup[s].at = "record" /\ UNCHANGED pod
        /\ pod[l] = [mail |-> m, state |-> "serving"]
    BY <1>1, <1>9 DEF Record, BrowserOK, Late, Early, PodInv, Reserved
  <2>2. PICK place \in {"over", "spend"} : Goes(s, place)
    BY <1>9 DEF Record
  <2>3. tenant' = tenant \/ tenant' = [tenant EXCEPT ![l] = m]
    BY <1>9 DEF Record
  <2>4. RecordedServes'
    BY <1>1, <2>1, <2>3 DEF PodInv, RecordedServes
  <2>5. \A r \in Signups : Reserved(r)'
    BY <1>2, <2>1, <2>2 DEF PodInv, Reserved, Places, Late, Early
  <2> QED BY <2>4, <2>5 DEF PodInv
<1>10. CASE CallFails(s)
  <2>1. /\ \E place \in {"release", "over", "funnel"} : Goes(s, place)
        /\ UNCHANGED tenant
    BY <1>10 DEF CallFails
  <2>2. CASE UNCHANGED pod
    BY <1>2, <2>1, <2>2, PodsKept DEF cluster, Places, Late, Early
  <2>3. CASE /\ signup[s].at = "install" /\ pod[l].state = "pending"
             /\ pod' = [pod EXCEPT ![l].state = "serving"]
    <3>1. l \in Labels /\ pod[l] = [mail |-> m, state |-> "pending"]
      <4>1. l \in Labels /\ Reserved(s) /\ pod[l] \in Pods
        BY <1>1, <2>3 DEF BrowserOK, PodInv
      <4> QED BY <2>3, <4>1 DEF Reserved, Pods
    <3>2. /\ signup'[s].at \notin {"record", "install"}
          /\ \A r \in Signups \ {s} : signup'[r] = signup[r]
      BY <1>1, <2>1, GoesShape DEF Places, Late, Early
    <3>3. Reserved(s)'
      BY <3>2 DEF Reserved
    <3> QED BY <1>3, <2>1, <2>3, <3>1, <3>2, <3>3
  <2> QED BY <1>10, <2>2, <2>3 DEF CallFails
<1> QED
  BY <1>4, <1>5, <1>6, <1>7, <1>8, <1>9, <1>10 DEF SignupStep

\* What the control plane records is served for the mailbox it names: the label is
\* reserved for one mailbox before anything is recorded, and stays its own.
THEOREM RecordedIsServed == Spec => []RecordedServes
<1>1. Init => PodInv
  <2> SUFFICES ASSUME Init PROVE PodInv
    OBVIOUS
  <2>1. \A s \in Signups : signup[s].at = "new"
    BY DEF Init, NoSignup
  <2>2. \A l \in Labels : tenant[l] = 0
    BY DEF Init
  <2> QED BY <2>1, <2>2 DEF PodInv, Reserved, RecordedServes
<1>2. TypeOK /\ PodInv /\ [Next]_vars => PodInv'
  <2> SUFFICES ASSUME TypeOK, PodInv, [Next]_vars PROVE PodInv'
    OBVIOUS
  <2>1. ASSUME NEW p \in Presses, PressStep(p) PROVE PodInv'
    BY <2>1, OtherCodeMoves, PodsKept
  <2>2. ASSUME NEW c \in Codes, Lapses(c) \/ Revoke(c) PROVE PodInv'
    BY <2>2, PodsKept DEF Lapses, Revoke
  <2>3. CASE Issue
    BY <2>3, PodsKept DEF Issue
  <2>4. CASE Crash
    <3>1. \A s \in Signups : signup'[s].at \notin {"record", "install"}
      BY <2>4 DEF Crash, NoSignup
    <3> QED BY <2>4, <3>1, PodsKept DEF Crash
  <2>5. CASE UNCHANGED vars
    <3>1. UNCHANGED <<tenant, pod, signup>>
      BY <2>5 DEF vars, cluster
    <3> QED BY <3>1, PodsKept DEF cluster
  <2> QED BY <2>1, <2>2, <2>3, <2>4, <2>5, SignupKeepsPods DEF Next
<1>3. PodInv => RecordedServes
  BY DEF PodInv
<1> QED BY <1>1, <1>2, <1>3, SignupTypesHold, PTL DEF Spec

--------------------------------------------------------------------------------
(* The board *)

\* Codes go from unminted to open, and from open to used or gone.
Advances(c) ==
  \/ code'[c].state = code[c].state
  \/ code[c].state = "open" /\ code'[c].state \in {"used", "gone"}
  \/ code[c].state = "none" /\ code'[c].state = "open"

\* No longer live, or excused because it was held when its replacement looked.
Settled(c) == code[c].state \in {"used", "gone"} \/ c \in missed

\* A press minting for a person has settled the code it read; until it has mailed its
\* own, the row names that one or it is settled; it stamps what it has mailed.
PressFine(p) ==
  LET q == press[p]
  IN /\ q.prior # 0 => code[q.prior].state # "none"
     /\ q.code # 0 => code[q.code].state # "none"
     /\ q.at \in {"mint", "point"} /\ q.prior # 0 => Settled(q.prior)
     /\ q.at = "mail" => person[q.person].invite = q.code \/ Settled(q.code)
     /\ q.at = "stamp" => <<q.code, q.person>> \in mailed
RowFine(u) ==
  /\ \A c \in Live(u) \ missed : person[u].invite = c
  /\ person[u].told => <<person[u].invite, u>> \in mailed
  /\ person[u].invite # 0 => code[person[u].invite].state # "none"
  /\ \A c \in Codes : <<c, u>> \in mailed => code[c].state # "none"
BoardInv == (\A u \in People : RowFine(u)) /\ \A p \in Presses : PressFine(p)

\* Every step takes codes forward only.
LEMMA StatesAdvance ==
  ASSUME TypeOK, [Next]_vars PROVE \A c \in Codes : Advances(c)
<1> SUFFICES ASSUME NEW c \in Codes PROVE Advances(c)
  OBVIOUS
<1>1. /\ code \in [Codes -> CodeRows] /\ \A s \in Signups : BrowserOK(signup[s])
      /\ \A p \in Presses : PressOK(press[p])
  BY DEF TypeOK
<1>2. UNCHANGED code => Advances(c)
  BY DEF Advances
<1>3. ASSUME NEW s \in Signups, SignupStep(s) PROVE Advances(c)
  <2>1. CASE Hold(s)
    <3>1. CASE Reserves(signup[s].code)
      BY <1>1, <2>1, <3>1 DEF Hold, Advances, CodeRows
    <3>2. CASE ~Reserves(signup[s].code)
      BY <1>2, <2>1, <3>2 DEF Hold
    <3> QED BY <3>1, <3>2
  <2>2. CASE Release(s)
    <3>1. signup[s].code \in Codes
      BY <1>1, <2>2 DEF Release, BrowserOK
    <3> QED BY <1>1, <2>2, <3>1, CodeRowShapes DEF Release, Advances
  <2>3. CASE Spend(s)
    <3>1. signup[s].code \in Codes
      BY <1>1, <2>3 DEF Spend, BrowserOK
    <3> QED BY <1>1, <2>3, <3>1, CodeRowShapes DEF Spend, Advances
  <2>4. CASE ~(Hold(s) \/ Release(s) \/ Spend(s))
    <3>1. UNCHANGED code
      BY <1>3, <2>4 DEF SignupStep, Post, Callback, LookUp, Create, Install, Record,
                        Funnel, CallFails, Expires
    <3> QED BY <1>2, <3>1
  <2> QED BY <2>1, <2>2, <2>3, <2>4
<1>4. ASSUME NEW p \in Presses, PressStep(p) PROVE Advances(c)
  <2>1. CASE RevokeUnheld(p)
    <3>1. press[p].prior \in Codes
      BY <1>1, <2>1 DEF RevokeUnheld, PressOK
    <3> QED BY <1>1, <2>1, <3>1, CodeRowShapes DEF RevokeUnheld, Available, Advances
  <2>2. CASE Mint(p)
    BY <1>1, <2>2, CodeRowShapes DEF Mint, Fresh, Advances
  <2>3. CASE Discard(p)
    <3>1. press[p].code \in Codes
      BY <1>1, <2>3 DEF Discard, PressOK
    <3> QED BY <1>1, <2>3, <3>1, CodeRowShapes DEF Discard, Advances
  <2>4. CASE ~(RevokeUnheld(p) \/ Mint(p) \/ Discard(p))
    <3>1. UNCHANGED code
      BY <1>4, <2>4 DEF PressStep, Approve, Send, AskWhy, Point, Mail, Stamp, PressFails
    <3> QED BY <1>2, <3>1
  <2> QED BY <2>1, <2>2, <2>3, <2>4
<1>5. ASSUME NEW d \in Codes, Lapses(d) PROVE Advances(c)
  BY <1>1, <1>5 DEF Lapses, Advances, CodeRows
<1>6. ASSUME NEW d \in Codes, Revoke(d) PROVE Advances(c)
  BY <1>1, <1>6, CodeRowShapes DEF Revoke, Advances
<1>7. CASE Issue
  BY <1>1, <1>7, CodeRowShapes DEF Issue, Fresh, Advances
<1>8. CASE Crash \/ UNCHANGED vars
  BY <1>2, <1>8 DEF Crash, vars
<1> QED BY <1>3, <1>4, <1>5, <1>6, <1>7, <1>8 DEF Next

\* A row that a step leaves alone stays fine, mail or no mail to others.
LEMMA RowsKept ==
  ASSUME TypeOK, NEW u \in People, RowFine(u), \A c \in Codes : Advances(c),
         missed \subseteq missed', mailed \subseteq mailed',
         \A c \in Codes : <<c, u>> \in mailed' => <<c, u>> \in mailed,
         person'[u].invite = person[u].invite, person'[u].told = person[u].told
  PROVE  RowFine(u)'
<1>1. person[u].invite \in Codes \cup {0}
  BY DEF TypeOK, Users
<1>2. \A c \in Live(u)' : c \in Live(u)
  BY DEF Live, Advances, RowFine
<1>3. person[u].invite # 0 => code'[person[u].invite].state # "none"
  BY <1>1 DEF RowFine, Advances
<1>4. \A c \in Codes : <<c, u>> \in mailed => code'[c].state # "none"
  BY DEF RowFine, Advances
<1> QED BY <1>2, <1>3, <1>4 DEF RowFine

\* So does a press that waits.
LEMMA PressKept ==
  ASSUME TypeOK, NEW p \in Presses, PressFine(p), \A c \in Codes : Advances(c),
         missed \subseteq missed', mailed \subseteq mailed', press'[p] = press[p],
         press[p].at = "mail" => \/ person'[press[p].person].invite = person[press[p].person].invite
                                 \/ Settled(press[p].code)
  PROVE  PressFine(p)'
<1>1. PressOK(press[p]) /\ press[p].prior \in Codes \cup {0} /\ press[p].code \in Codes \cup {0}
  BY DEF TypeOK, PressOK, PressRows
<1>2. \A c \in Codes : /\ code[c].state # "none" => code'[c].state # "none"
                       /\ Settled(c) => Settled(c)'
  BY DEF Advances, Settled
<1>3. /\ (press[p].prior # 0 => code[press[p].prior].state # "none")'
      /\ (press[p].code # 0 => code[press[p].code].state # "none")'
  BY <1>1, <1>2 DEF PressFine
<1>4. (press[p].at \in {"mint", "point"} /\ press[p].prior # 0 => Settled(press[p].prior))'
  <2> SUFFICES ASSUME press[p].at \in {"mint", "point"}, press[p].prior # 0
               PROVE  Settled(press[p].prior)'
    OBVIOUS
  <2>1. press[p].prior \in Codes /\ Settled(press[p].prior)
    BY <1>1 DEF PressFine
  <2> QED BY <1>2, <2>1
<1>5. (press[p].at = "mail" =>
         person[press[p].person].invite = press[p].code \/ Settled(press[p].code))'
  <2> SUFFICES ASSUME press[p].at = "mail"
               PROVE  \/ person'[press[p].person].invite = press[p].code
                      \/ Settled(press[p].code)'
    OBVIOUS
  <2>1. /\ press[p].code \in Codes
        /\ person[press[p].person].invite = press[p].code \/ Settled(press[p].code)
    BY <1>1 DEF PressFine, PressOK
  <2> QED BY <1>2, <2>1
<1>6. (press[p].at = "stamp" => <<press[p].code, press[p].person>> \in mailed)'
  BY DEF PressFine
<1> QED BY <1>3, <1>4, <1>5, <1>6 DEF PressFine

\* A press that has left its desks has nothing to keep but the codes it knows.
LEMMA PressRests ==
  ASSUME TypeOK, NEW p \in Presses, PressFine(p), \A c \in Codes : Advances(c),
         press'[p].at \notin {"mint", "point", "mail", "stamp"},
         press'[p].prior \in {0, press[p].prior}, press'[p].code \in {0, press[p].code}
  PROVE  PressFine(p)'
<1>1. press[p].prior \in Codes \cup {0} /\ press[p].code \in Codes \cup {0}
  BY DEF TypeOK, PressRows
<1> QED BY <1>1 DEF PressFine, Advances

\* A step that leaves the admin page and the rows' pointers alone keeps the board.
LEMMA BoardKept ==
  ASSUME TypeOK, BoardInv, \A c \in Codes : Advances(c), UNCHANGED <<press, mailed, missed>>,
         \A u \in People : /\ person'[u].invite = person[u].invite
                           /\ person'[u].told = person[u].told
  PROVE  BoardInv'
<1>1. ASSUME NEW u \in People PROVE RowFine(u)'
  BY RowsKept DEF BoardInv
<1>2. ASSUME NEW p \in Presses PROVE PressFine(p)'
  <2>1. press[p].at = "mail" => press[p].person \in People
    BY DEF TypeOK, PressOK
  <2> QED BY <2>1, PressKept DEF BoardInv
<1> QED BY <1>1, <1>2 DEF BoardInv

\* A step of the admin page keeps the board.
LEMMA PressKeepsBoard ==
  ASSUME TypeOK, BoardInv, NEW p \in Presses, PressStep(p), \A c \in Codes : Advances(c)
  PROVE  BoardInv'
<1> DEFINE q == press[p]
<1>1. /\ press \in [Presses -> PressRows] /\ press[p] \in PressRows /\ PressOK(press[p])
      /\ PressFine(p) /\ code \in [Codes -> CodeRows] /\ person \in [People -> Users]
      /\ \A r \in Presses : PressOK(press[r]) /\ PressFine(r)
      /\ \A u \in People : RowFine(u)
  BY DEF TypeOK, BoardInv
\* The other presses wait, and rows keep their pointers.
<1>2. ASSUME \A u \in People : /\ person'[u].invite = person[u].invite
                               /\ person'[u].told = person[u].told,
             \A r \in Presses \ {p} : press'[r] = press[r],
             missed \subseteq missed', UNCHANGED mailed, PressFine(p)'
      PROVE  BoardInv'
  <2>1. ASSUME NEW u \in People PROVE RowFine(u)'
    BY <1>1, <1>2, RowsKept
  <2>2. ASSUME NEW r \in Presses \ {p} PROVE PressFine(r)'
    <3>1. press[r].at = "mail" => press[r].person \in People
      BY <1>1 DEF PressOK
    <3> QED BY <1>1, <1>2, <3>1, PressKept
  <2> QED BY <1>2, <2>1, <2>2 DEF BoardInv
<1>3. ASSUME NEW place \in {"why", "discard", "over"}, Turns(p, place)
      PROVE  PressFine(p)' /\ \A r \in Presses \ {p} : press'[r] = press[r]
  <2>1. /\ press'[p].at = place /\ press'[p].code = press[p].code
        /\ \A r \in Presses \ {p} : press'[r] = press[r]
        /\ press'[p].prior \in {0, press[p].prior}
    <3>1. CASE place = "over"
      BY <1>1, <1>3, <3>1, TurnsShape DEF Turns, NoPress, Desks
    <3>2. CASE place # "over"
      BY <1>1, <1>3, <3>2, TurnsShape DEF Desks
    <3> QED BY <3>1, <3>2
  <2> QED BY <1>1, <1>3, <2>1, PressRests
<1>4. ASSUME NEW u \in People, Approve(p, u) PROVE BoardInv'
  <2>1. /\ press'[p].at = "mint" /\ press'[p].prior = 0 /\ press'[p].code = 0
        /\ \A r \in Presses \ {p} : press'[r] = press[r]
    BY <1>1, <1>4 DEF Approve, NoPress
  <2>2. \A v \in People : person'[v].invite = person[v].invite /\ person'[v].told = person[v].told
    BY <1>1, <1>4 DEF Approve, Users
  <2>3. PressFine(p)'
    BY <2>1 DEF PressFine
  <2> QED BY <1>2, <1>4, <2>1, <2>2, <2>3 DEF Approve, history
<1>5. ASSUME NEW u \in People, Send(p, u) PROVE BoardInv'
  <2>1. /\ press'[p].prior = person[u].invite /\ press'[p].code = 0
        /\ press'[p].at = IF person[u].invite = 0 THEN "mint" ELSE "revoke"
        /\ \A r \in Presses \ {p} : press'[r] = press[r]
    BY <1>1, <1>5 DEF Send, NoPress
  <2>2. UNCHANGED <<person, code, mailed, missed>> /\ RowFine(u)
    BY <1>1, <1>5 DEF Send, history
  <2>3. PressFine(p)'
    BY <2>1, <2>2 DEF PressFine, RowFine
  <2> QED BY <1>2, <2>1, <2>2, <2>3
\* A press turns to mint when what it has read is settled.
<1>6. ASSUME Turns(p, "mint"), q.at \in {"revoke", "why"},
             NEW c \in Codes, c = q.prior, Settled(c)'
      PROVE  PressFine(p)' /\ \A r \in Presses \ {p} : press'[r] = press[r]
  <2>1. /\ press'[p].at = "mint" /\ press'[p].prior = q.prior /\ press'[p].code = q.code
        /\ \A r \in Presses \ {p} : press'[r] = press[r]
    BY <1>1, <1>6, TurnsShape DEF Desks
  <2>2. c # 0 /\ code[c].state # "none" /\ q.code \in Codes \cup {0}
    BY <1>1, <1>6, SignupAssumption DEF PressFine, PressRows
  <2>3. code'[c].state # "none" /\ (q.code # 0 => code'[q.code].state # "none")
    BY <1>1, <2>2 DEF PressFine, Advances
  <2> QED BY <1>6, <2>1, <2>3 DEF PressFine
<1>7. CASE RevokeUnheld(p)
  <2>1. UNCHANGED <<person, mailed, missed>> /\ q.at = "revoke" /\ q.prior \in Codes
    BY <1>1, <1>7 DEF RevokeUnheld, history, PressOK
  <2>2. CASE Turns(p, "why")
    BY <1>2, <1>3, <2>1, <2>2
  <2>3. CASE code' = Revoked(q.prior) /\ Turns(p, "mint")
    <3>1. PICK c \in Codes : c = q.prior
      BY <2>1
    <3>2. Settled(c)'
      BY <1>1, <2>3, <3>1, CodeRowShapes DEF Settled
    <3> QED BY <1>2, <1>6, <2>1, <2>3, <3>1, <3>2
  <2> QED BY <1>7, <2>2, <2>3 DEF RevokeUnheld
<1>8. CASE AskWhy(p)
  <2>1. /\ UNCHANGED <<code, person, mailed>> /\ q.at = "why" /\ q.prior \in Codes
        /\ missed \subseteq missed'
    BY <1>1, <1>8 DEF AskWhy, PressOK
  <2>2. CASE Turns(p, "over")
    BY <1>2, <1>3, <2>1, <2>2
  <2>3. CASE Turns(p, "mint") /\ ~(code[q.prior].state = "used"
                                     \/ (code[q.prior].state = "open" /\ Held(q.prior)))
    <3>1. code[q.prior].state \in {"none", "open", "used", "gone"} /\ code[q.prior].state # "none"
      BY <1>1, <2>1, SignupAssumption DEF CodeRows, PressFine
    <3>2. PICK c \in Codes : c = q.prior
      BY <2>1
    <3>3. Settled(c)'
      BY <1>8, <2>1, <2>3, <3>1, <3>2 DEF AskWhy, Available, Settled
    <3> QED BY <1>2, <1>6, <2>1, <2>3, <3>2, <3>3
  <2> QED BY <1>8, <2>2, <2>3 DEF AskWhy
<1>9. CASE Mint(p)
  <2>1. UNCHANGED <<person, mailed, missed>> /\ q.at = "mint"
    BY <1>9 DEF Mint, history
  <2>2. PICK c \in Fresh : Insert(c) /\ press' = [press EXCEPT ![p].at = "point", ![p].code = c]
    BY <1>9 DEF Mint
  <2>3. code'[c].state = "open" /\ c \in Codes
    BY <1>1, <2>2, CodeRowShapes DEF Fresh
  <2>4. /\ press'[p].at = "point" /\ press'[p].prior = q.prior /\ press'[p].code = c
        /\ \A r \in Presses \ {p} : press'[r] = press[r]
    BY <1>1, <2>2 DEF PressRows
  <2>5. q.prior # 0 => q.prior \in Codes /\ code[q.prior].state # "none" /\ Settled(q.prior)
    BY <1>1, <2>1 DEF PressFine, PressRows
  <2>6. \A d \in Codes : d = q.prior => code'[d].state # "none" /\ Settled(d)'
    <3>1. \A d \in Codes : d = q.prior => d # 0
      BY SignupAssumption
    <3> QED BY <2>1, <2>5, <3>1 DEF Advances, Settled
  <2>7. PressFine(p)'
    BY <2>3, <2>4, <2>5, <2>6 DEF PressFine
  <2> QED BY <1>2, <2>1, <2>4, <2>7
<1>10. CASE Point(p)
  <2>0. PICK u \in People : u = q.person
    BY <1>1, <1>10 DEF Point, PressOK
  <2>1. /\ UNCHANGED <<code, mailed, missed>> /\ q.at = "point"
        /\ q.code \in Codes /\ q.prior \in Codes \cup {0}
    BY <1>1, <1>10 DEF Point, history, PressOK, PressRows
  <2>2. CASE Turns(p, "discard") /\ UNCHANGED person
    BY <1>2, <1>3, <2>1, <2>2
  <2>3. CASE /\ person[u].invite = q.prior /\ Turns(p, "mail")
             /\ person' = [person EXCEPT ![u].invite = q.code, ![u].told = FALSE]
    <3>1. /\ person'[u].invite = q.code /\ ~person'[u].told
          /\ \A v \in People \ {u} : person'[v] = person[v]
      BY <1>1, <2>1, <2>3 DEF Users
    <3>2. /\ press'[p].at = "mail" /\ press'[p].prior = q.prior
          /\ press'[p].code = q.code /\ press'[p].person = u
          /\ \A r \in Presses \ {p} : press'[r] = press[r]
      BY <1>1, <2>0, <2>3, TurnsShape DEF Desks
    <3>3. q.prior # 0 => Settled(q.prior)
      BY <1>1, <2>1 DEF PressFine
    <3>4. Live(u) \ missed = {}
      <4> SUFFICES ASSUME NEW c \in Live(u) \ missed PROVE FALSE
        OBVIOUS
      <4>1. c = q.prior /\ c # 0 /\ code[c].state = "open" /\ c \notin missed
        BY <1>1, <2>1, <2>3, SignupAssumption DEF RowFine, Live
      <4> QED BY <3>3, <4>1 DEF Settled
    <3>5. RowFine(u)'
      <4>1. (Live(u) \ missed)' = {}
        BY <2>1, <3>4 DEF Live
      <4>2. code'[q.code].state # "none" /\ \A c \in Codes : <<c, u>> \in mailed => code'[c].state # "none"
        BY <1>1, <2>1, SignupAssumption DEF PressFine, RowFine
      <4> QED BY <2>1, <3>1, <4>1, <4>2 DEF RowFine
    <3>6. ASSUME NEW v \in People \ {u} PROVE RowFine(v)'
      BY <1>1, <2>1, <3>1, RowsKept
    <3>7. PressFine(p)'
      BY <1>1, <2>1, <3>1, <3>2 DEF PressFine
    <3>8. ASSUME NEW r \in Presses \ {p} PROVE PressFine(r)'
      <4> SUFFICES ASSUME press[r].at = "mail"
                   PROVE  \/ person'[press[r].person].invite = person[press[r].person].invite
                          \/ Settled(press[r].code)
        BY <1>1, <2>1, <3>2, PressKept
      <4>1. press[r].person \in People /\ press[r].code \in Codes /\ press[r].code # 0
        BY <1>1, SignupAssumption DEF PressOK
      <4>2. CASE press[r].person # u
        BY <3>1, <4>1, <4>2
      <4>3. CASE press[r].person = u
        BY <1>1, <2>3, <3>3, <4>1, <4>3 DEF PressFine
      <4> QED BY <4>2, <4>3
    <3> QED BY <3>5, <3>6, <3>7, <3>8 DEF BoardInv
  <2> QED BY <1>10, <2>0, <2>2, <2>3 DEF Point, Points
<1>11. CASE Discard(p)
  <2>1. UNCHANGED <<person, mailed, missed>> /\ Turns(p, "over")
    BY <1>11 DEF Discard, history
  <2> QED BY <1>2, <1>3, <2>1
<1>12. CASE Mail(p)
  <2>0. PICK u \in People : u = q.person
    BY <1>1, <1>12 DEF Mail, PressOK
  <2>1. /\ UNCHANGED <<code, person, missed>> /\ q.at = "mail" /\ q.code \in Codes
    BY <1>1, <1>12 DEF Mail, PressOK
  <2>2. CASE Turns(p, "over") /\ UNCHANGED mailed
    BY <1>2, <1>3, <2>1, <2>2
  <2>3. CASE /\ mailed' = mailed \cup {<<q.code, u>>}
             /\ Turns(p, "stamp") \/ Turns(p, "over")
    <3>1. PressFine(p)' /\ \A r \in Presses \ {p} : press'[r] = press[r]
      <4>1. CASE Turns(p, "over")
        BY <1>3, <4>1
      <4>2. CASE Turns(p, "stamp")
        <5>1. /\ press'[p].at = "stamp" /\ press'[p].prior = q.prior
              /\ press'[p].code = q.code /\ press'[p].person = u
              /\ \A r \in Presses \ {p} : press'[r] = press[r]
          BY <1>1, <2>0, <4>2, TurnsShape DEF Desks
        <5> QED BY <1>1, <2>1, <2>3, <5>1 DEF PressFine
      <4> QED BY <2>3, <4>1, <4>2
    <3>2. ASSUME NEW r \in Presses \ {p} PROVE PressFine(r)'
      BY <1>1, <2>1, <2>3, <3>1, PressKept
    <3>3. ASSUME NEW v \in People \ {u} PROVE RowFine(v)'
      BY <1>1, <2>1, <2>3, RowsKept
    <3>4. RowFine(u)'
      <4>1. q.code # 0 /\ code[q.code].state # "none"
        BY <1>1, <2>1, SignupAssumption DEF PressFine
      <4>2. person[u].invite = q.code \/ Settled(q.code)
        BY <1>1, <2>0, <2>1 DEF PressFine
      <4>3. ASSUME NEW c \in Codes \ missed, <<c, u>> \in mailed', code[c].state = "open"
            PROVE  person[u].invite = c
        <5>1. CASE c = q.code
          BY <4>2, <4>3, <5>1 DEF Settled
        <5>2. CASE c # q.code
          BY <1>1, <2>1, <2>3, <4>3, <5>2 DEF RowFine, Live
        <5> QED BY <5>1, <5>2
      <4>4. (\A c \in Live(u) \ missed : person[u].invite = c)'
        BY <2>1, <4>3 DEF Live
      <4>5. \A c \in Codes : <<c, u>> \in mailed' => code[c].state # "none"
        BY <1>1, <2>1, <2>3, <4>1 DEF RowFine
      <4> QED BY <1>1, <2>1, <2>3, <4>4, <4>5 DEF RowFine
    <3> QED BY <3>1, <3>2, <3>3, <3>4 DEF BoardInv
  <2> QED BY <1>12, <2>0, <2>2, <2>3 DEF Mail
<1>13. CASE Stamp(p)
  <2>0. PICK u \in People : u = q.person
    BY <1>1, <1>13 DEF Stamp, PressOK
  <2>1. /\ UNCHANGED <<code, mailed, missed>> /\ q.at = "stamp"
        /\ Turns(p, "over")
    BY <1>1, <1>13 DEF Stamp, history, PressOK
  <2>2. CASE UNCHANGED person
    BY <1>2, <1>3, <2>1, <2>2
  <2>3. CASE person[u].invite = q.code /\ person' = [person EXCEPT ![u].told = TRUE]
    <3>1. /\ person'[u].invite = person[u].invite /\ person'[u].told
          /\ \A v \in People : person'[v].invite = person[v].invite
          /\ \A v \in People \ {u} : person'[v] = person[v]
      BY <1>1, <2>1, <2>3 DEF Users
    <3>2. PressFine(p)' /\ \A r \in Presses \ {p} : press'[r] = press[r]
      BY <1>3, <2>1
    <3>3. ASSUME NEW r \in Presses \ {p} PROVE PressFine(r)'
      <4>1. press[r].at = "mail" => press[r].person \in People
        BY <1>1 DEF PressOK
      <4> QED BY <1>1, <2>1, <3>1, <3>2, <4>1, PressKept
    <3>4. ASSUME NEW v \in People \ {u} PROVE RowFine(v)'
      BY <1>1, <2>1, <3>1, RowsKept
    <3>5. RowFine(u)'
      <4>1. <<person[u].invite, u>> \in mailed
        BY <1>1, <2>0, <2>1, <2>3 DEF PressFine
      <4>2. Live(u)' = Live(u)
        BY <2>1 DEF Live
      <4> QED BY <1>1, <2>1, <3>1, <4>1, <4>2 DEF RowFine
    <3> QED BY <3>2, <3>3, <3>4, <3>5 DEF BoardInv
  <2> QED BY <1>13, <2>0, <2>2, <2>3 DEF Stamp, Stamps
<1>14. CASE PressFails(p)
  <2>1. /\ UNCHANGED <<person, mailed, missed>>
        /\ \E place \in {"discard", "over"} : Turns(p, place)
    BY <1>14 DEF PressFails, history
  <2> QED BY <1>2, <1>3, <2>1
<1> QED
  BY <1>4, <1>5, <1>7, <1>8, <1>9, <1>10, <1>11, <1>12, <1>13, <1>14 DEF PressStep

\* A live code in somebody's mail is the one their row names, and the board says
\* "invited" only for a code delivered: set_user_invite compares the pointer it replaces,
\* mark_user_notified the code it stamps.
THEOREM BoardStaysTrue == Spec => []BoardIsTrue
<1>1. Init => BoardInv
  <2> SUFFICES ASSUME NEW sent \in BOOLEAN,
                      code = [c \in Codes |-> FirstCode(c, sent)],
                      person = [u \in People |-> FirstRow(u, sent)],
                      press = [p \in Presses |-> NoPress],
                      mailed = IF sent THEN {<<u, u>> : u \in People} ELSE {}
               PROVE  BoardInv
    BY DEF Init
  <2>1. \A p \in Presses : PressFine(p)
    BY DEF PressFine, NoPress
  <2>2. ASSUME NEW u \in People PROVE RowFine(u)
    <3>1. u \in Codes /\ u # 0
      BY SignupAssumption
    <3>2. CASE sent
      <4>1. /\ person[u].invite = u /\ person[u].told /\ code[u].state = "open"
            /\ \A c : <<c, u>> \in mailed <=> c = u
        BY <3>1, <3>2 DEF FirstCode, FirstRow
      <4> QED BY <4>1 DEF RowFine, Live
    <3>3. CASE ~sent
      BY <3>3 DEF RowFine, Live, FirstRow
    <3> QED BY <3>2, <3>3
  <2> QED BY <2>1, <2>2 DEF BoardInv
<1>2. TypeOK /\ BoardInv /\ [Next]_vars => BoardInv'
  <2> SUFFICES ASSUME TypeOK, BoardInv, [Next]_vars PROVE BoardInv'
    OBVIOUS
  <2>1. \A c \in Codes : Advances(c)
    BY StatesAdvance
  <2>2. ASSUME UNCHANGED <<person, press, mailed, missed>> PROVE BoardInv'
    BY <2>1, <2>2, BoardKept
  <2>3. ASSUME NEW s \in Signups, SignupStep(s) PROVE BoardInv'
    <3>1. CASE Funnel(s)
      <4>1. \A u \in People : /\ person'[u].invite = person[u].invite
                              /\ person'[u].told = person[u].told
        <5>1. \A u \in People : /\ [person[u] EXCEPT !.status = "approved"].invite = person[u].invite
                                /\ [person[u] EXCEPT !.status = "approved"].told = person[u].told
          BY DEF TypeOK, Users
        <5> QED BY <3>1, <5>1 DEF Funnel
      <4>2. UNCHANGED <<press, mailed, missed>>
        BY <3>1 DEF Funnel, history
      <4> QED BY <2>1, <4>1, <4>2, BoardKept
    <3>2. CASE ~Funnel(s)
      <4>1. UNCHANGED <<person, press, mailed, missed>>
        BY <2>3, <3>2 DEF SignupStep, Post, Hold, Callback, Release, LookUp, Create, Install,
                          Record, Spend, CallFails, Expires, history
      <4> QED BY <2>2, <4>1
    <3> QED BY <3>1, <3>2
  <2>4. ASSUME NEW p \in Presses, PressStep(p) PROVE BoardInv'
    BY <2>1, <2>4, PressKeepsBoard
  <2>5. ASSUME NEW c \in Codes, Lapses(c) \/ Revoke(c) PROVE BoardInv'
    BY <2>2, <2>5 DEF Lapses, Revoke, history
  <2>6. CASE Issue
    BY <2>2, <2>6 DEF Issue, history
  <2>7. CASE Crash
    <3>1. UNCHANGED <<person, mailed, missed>>
      BY <2>7 DEF Crash, history
    <3>2. ASSUME NEW u \in People PROVE RowFine(u)'
      BY <2>1, <3>1, RowsKept DEF BoardInv
    <3>3. ASSUME NEW p \in Presses PROVE PressFine(p)'
      <4>1. \/ press'[p] = NoPress
            \/ press'[p] = [NoPress EXCEPT !.at = "over", !.code = press[p].code]
        BY <2>7 DEF Crash
      <4>2. /\ press'[p].at \notin {"mint", "point", "mail", "stamp"}
            /\ press'[p].prior = 0 /\ press'[p].code \in {0, press[p].code}
        <5>1. /\ NoPress.at = "new" /\ NoPress.prior = 0 /\ NoPress.code = 0
              /\ LET gone == [NoPress EXCEPT !.at = "over", !.code = press[p].code]
                 IN gone.at = "over" /\ gone.prior = 0 /\ gone.code = press[p].code
          BY DEF NoPress
        <5>2. CASE press'[p] = NoPress
          BY <5>1, <5>2
        <5>3. CASE press'[p] = [NoPress EXCEPT !.at = "over", !.code = press[p].code]
          BY <5>1, <5>3
        <5> QED BY <4>1, <5>2, <5>3
      <4> QED BY <2>1, <4>2, PressRests DEF BoardInv
    <3> QED BY <3>2, <3>3 DEF BoardInv
  <2>8. CASE UNCHANGED vars
    BY <2>2, <2>8 DEF vars, history
  <2> QED BY <2>3, <2>4, <2>5, <2>6, <2>7, <2>8 DEF Next
<1>3. BoardInv => BoardIsTrue
  BY DEF BoardInv, RowFine, BoardIsTrue
<1> QED BY <1>1, <1>2, <1>3, SignupTypesHold, PTL DEF Spec
================================================================================
