---------------------------------- MODULE Parts ---------------------------------
(***************************************************************************)
(* The small protocols side by side: the budget's, which this module       *)
(* extends, and eight more.  They share no state in the program or here: a *)
(* behaviour belongs to one of them, chosen at the start, and the others   *)
(* stay as they begin.  Fairness is each module's own.                     *)
(***************************************************************************)
EXTENDS AgentBudget

CONSTANTS Checked,   \* the parts of a run
          Faults,    \* the failures each of them may meet
          Labels, Consents, Workers, MaxConcurrent, MaxAttempts,       \* reconnects, the lane
          Flows, Handovers, MaxSessions,                               \* the broker
          Opens, Tokens, Sent, MaxPerToken, MaxRows, DrainLimit,       \* opens
          Mail, Cap,                                                   \* the lane
          Phones, Batch, MaxPushed, MaxStreamed,                       \* the event log's readers
          Parcels, Legacy, Mute, Carriers, Budgeted, Limit, Window,    \* carriers
          Tolerance, MaxFailures, Statuses, MaxId, MaxMail, MaxUpsets,
          Youngest, Written, Hopeless, Chunk, MaxFetches, MaxSeals     \* healing

ASSUME PartsAssumption ==
  /\ Consents \subseteq Nat \ {0}
  /\ {"unknown", "pending", "nothing", "none", "cut"} \cap Handovers = {}
  /\ Opens \subseteq Nat /\ {MaxRows, DrainLimit} \subseteq Nat
  /\ {Batch, Chunk} \subseteq Nat \ {0} /\ {MaxPushed, MaxStreamed} \subseteq Nat
  /\ Budgeted \subseteq Carriers /\ Limit \in Nat /\ Window \in Nat \ {0} /\ MaxId \in Nat
  /\ Youngest \in Nat /\ Written \subseteq 1 .. Youngest

VARIABLES part,
  job, view, worker, cluster, closed, misfires, doubt,
  session, old, flow, lateClaims, opened, shown, handed, wasted, lost,
  disk, buffer, nextId, happened, drained, page, busy, stored, refused, acked, dropped, trouble,
  task, run, advice, ledger, rangBy, dealt, late, calls, paused, faults,
  log, quiet, devices, gone, since, cursor, pusher, landed, breaks,
  entries, settled, stream, wire, seen, cuts,
  row, line, resting, queue, call, spent, streak, cooling, asked, mails, upsets,
  text, sealed, mark, sweep, excused, seals, hitches

(* Reconnects of the control plane *)
R == INSTANCE ReconnectJobs WITH MaxTrouble <- Faults
(* Consents through the broker *)
B == INSTANCE BrokerSessions WITH MaxLost <- Faults, late <- lateClaims, Outcomes <- Handovers
(* Opens of sent mail *)
O == INSTANCE RelayOpens WITH MaxTrouble <- Faults, cursor <- drained
(* Notifications of one arrival *)
L == INSTANCE NotifyLane WITH MaxTrouble <- Faults, used <- calls
(* The event log, pushed to phones *)
P == INSTANCE PushFeed WITH MaxLog <- MaxPushed, MaxBreaks <- Faults
(* The event log, streamed to a client *)
S == INSTANCE EventStream WITH MaxLog <- MaxStreamed, MaxBreaks <- Faults,
       log <- entries, quiet <- settled, breaks <- cuts
(* Parcels and their carriers *)
C == INSTANCE CarrierPoller WITH Numbers <- Parcels, Poison <- Mute,
       MaxTrouble <- MaxUpsets, trouble <- upsets
(* Mail stored with a blank body *)
H == INSTANCE HealSweep WITH Newest <- Youngest, MaxTrouble <- Faults, cursor <- mark,
       trouble <- hitches

reconnectVars == <<job, view, worker, cluster, closed, misfires, doubt>>
brokerVars    == <<session, old, flow, lateClaims, opened, shown, handed, wasted, lost>>
opensVars     == <<disk, buffer, nextId, happened, drained, page, busy, stored, refused, acked, dropped, trouble>>
laneVars      == <<task, run, advice, ledger, rangBy, dealt, late, calls, paused, faults>>
pushVars      == <<log, quiet, devices, gone, since, cursor, pusher, landed, breaks>>
streamVars    == <<entries, settled, stream, wire, seen, cuts>>
carrierVars   == <<row, line, resting, queue, call, spent, streak, cooling, asked, mails, upsets>>
healVars      == <<text, sealed, mark, sweep, excused, seals, hitches>>
partsVars == <<part, reconnectVars, brokerVars, opensVars, vars, laneVars,
               pushVars, streamVars, carrierVars, healVars>>

PartsInit ==
  /\ part \in Checked
  /\ R!Init /\ B!Init /\ O!Init /\ Init /\ L!Init /\ P!Init /\ S!Init
  /\ C!Init /\ H!Init
  /\ disk \/ part = "opens"
  /\ DOMAIN row = 1 .. Cardinality(Legacy) \/ part = "carriers"

BesideReconnect == <<part, brokerVars, opensVars, vars, laneVars,
  pushVars, streamVars, carrierVars, healVars>>
BesideBroker == <<part, reconnectVars, opensVars, vars, laneVars,
  pushVars, streamVars, carrierVars, healVars>>
BesideOpens == <<part, reconnectVars, brokerVars, vars, laneVars,
  pushVars, streamVars, carrierVars, healVars>>
BesideBudget == <<part, reconnectVars, brokerVars, opensVars, laneVars,
  pushVars, streamVars, carrierVars, healVars>>
BesideLane == <<part, reconnectVars, brokerVars, opensVars, vars,
  pushVars, streamVars, carrierVars, healVars>>
BesidePush == <<part, reconnectVars, brokerVars, opensVars, vars,
  laneVars, streamVars, carrierVars, healVars>>
BesideStream == <<part, reconnectVars, brokerVars, opensVars, vars,
  laneVars, pushVars, carrierVars, healVars>>
BesideCarriers == <<part, reconnectVars, brokerVars, opensVars, vars,
  laneVars, pushVars, streamVars, healVars>>
BesideHeal == <<part, reconnectVars, brokerVars, opensVars, vars,
  laneVars, pushVars, streamVars, carrierVars>>

PartsNext ==
  \/ part = "reconnect" /\ R!Next /\ UNCHANGED BesideReconnect
  \/ part = "broker" /\ B!Next /\ UNCHANGED BesideBroker
  \/ part = "opens" /\ O!Next /\ UNCHANGED BesideOpens
  \/ part = "budget" /\ Next /\ UNCHANGED BesideBudget
  \/ part = "lane" /\ L!Next /\ UNCHANGED BesideLane
  \/ part = "push" /\ P!Next /\ UNCHANGED BesidePush
  \/ part = "stream" /\ S!Next /\ UNCHANGED BesideStream
  \/ part = "carriers" /\ C!Next /\ UNCHANGED BesideCarriers
  \/ part = "heal" /\ H!Next /\ UNCHANGED BesideHeal

Progress ==
  \/ part = "reconnect" /\ R!Progress /\ UNCHANGED BesideReconnect
  \/ part = "broker" /\ (\E f \in Flows : B!Step(f)) /\ UNCHANGED BesideBroker
  \/ part = "push" /\ P!Drain /\ UNCHANGED BesidePush
  \/ part = "carriers" /\ C!Work /\ UNCHANGED BesideCarriers
Hours == part = "carriers" /\ C!Tick /\ UNCHANGED BesideCarriers
Reopening(c) == part = "carriers" /\ C!Reopens(c) /\ UNCHANGED BesideCarriers
Ripening(i) == part = "carriers" /\ C!Due(i) /\ UNCHANGED BesideCarriers

PartsSpec == PartsInit /\ [][PartsNext]_partsVars
FairSpec ==   \* with one flow
  /\ PartsSpec /\ WF_partsVars(Progress) /\ WF_partsVars(Hours)
  /\ \A c \in Carriers : WF_partsVars(Reopening(c))
  /\ \A i \in 1 .. MaxId : WF_partsVars(Ripening(i))

-----------------------------------------------------------------------------
(* Reconnects: the newest consent wins (NewestConsent); every job ends. *)
NewestWins == R!NewestWins
JobsEnd == R!JobsEnd

(* The broker: an outcome leaves it once, and is the one its person was told of; a
   collected consent reaches the daemon. *)
HandedOver == B!HandedOver
CollectedArrives == B!CollectedArrives

(* Opens: a durable relay forgets only what is kept; the first rows of a token stand. *)
OpensStand == O!OpensStand

(* The notification lane: the ledger is true; a worthy arrival rings. *)
LaneIsTrue == L!LaneIsTrue

(* The pusher: its cursor passes what was offered; it gets past everything. *)
PassedWasOffered == P!PassedWasOffered
PusherCatchesUp == P!PusherCatchesUp

(* The stream: a returning client misses nothing; a resting stream will be woken. *)
StreamIsWhole == S!StreamIsWhole

(* Carriers: a budget rolls; a delivery stands; no parcel starves behind another. *)
BudgetRolls == C!BudgetRolls
DeliveredStands == C!DeliveredStands
NobodyStarves == part = "carriers" => C!NobodyStarves

(* Healing: no blank row is stepped over for good; a seal wins over the sweep. *)
PassedIsHealed == H!PassedIsHealed
SealsStand == H!SealsStand
================================================================================
