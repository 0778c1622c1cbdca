# Squelch and Passband: a TLA+ verification project

This directory specifies the concurrent core of the squelch daemon, and the protocols
of the services around it, in TLA+. TLC
checks it on small instances and TLAPS proves its safety properties for every value of
the constants. File names are relative to the repository, and line numbers refer
to the commit the project was written against.

Contents: [The system](#the-system) · [Modules](#modules) ·
[Runs](#runs-and-bounds) · [Fairness](#fairness) · [Proofs](#proofs) ·
[Disagreements found](#disagreements-between-code-and-comments) ·
[Not modelled](#not-modelled) · [Plan](#plan)

## The system

`squelchd` copies one Gmail mailbox into SQLite, has a language model investigate
each message, and serves the result through an agent door (`/mcp`, read only) and a
human door (`/client`). Around it stand a few small services for hosting, OAuth
hand-over, push and open tracking, and the Passband clients.

| Component | State it keeps | Operations | Talks to |
| --- | --- | --- | --- |
| Gmail poll lane (`squelch-core/src/sync/mod.rs`) | one history cursor, lifecycle | backfill, walk, catch-up, spam walk, healing sweep | Gmail, ingest |
| Ingest and message store (`store/sqlite/messages.rs`) | messages, unsubscribe ledger | upsert, heal, rescue from spam | queue (same transaction) |
| Investigation queue (`store/sqlite/agent_triage.rs`) | revisions, access, corrections, jobs, lanes, follow-ups, sources | enqueue, claim, retry, defer, fail, commit, correct, cutover | everything that changes a message |
| Triage worker (`sync/triage_worker.rs`) | claimed jobs, provider circuit | claim loop, snapshot, model call, commit | queue, budget, model provider |
| Agent budget (`store/sqlite/agent_budget.rs`) | daily call counters | reserve, refund | worker |
| Notification lane (`sync/notify_lane.rs`) | in-flight set, decisions, events | decide, append event, push | poll lane, queue, relay |
| Send groups (`squelch-api/src/group_send.rs`, `store/sqlite/groups.rs`) | membership, sends, recipient rows | record, fan out, settle, recover on open | Gmail, sync (echo) |
| Human door (`squelch-api`), agent door (`squelch-mcp`), TUI | tokens, pairing | mostly one store call each | store |
| Carriers and shipments (`carriers/poller.rs`, `store/sqlite/agent_deliveries.rs`) | one row per parcel, queues and pacing per carrier | poll, apply an answer, project, correct, retract | carriers, decisions |
| Healing sweep (`heal_blank_bodies` in `sync/mod.rs`) | a persisted cursor, a chunk | scan, fetch, write, stop, resume | Gmail, ingest, humans |
| Broker (`squelch-broker/src/sessions.rs`) | one-time OAuth sessions | register, link, park, claim, sweep | daemons, browsers, Google |
| Relay (`squelch-relay`) | spool of opens | record, drain, trim, purge; push | daemons, APNs |
| Pusher (`squelch-core/src/push.rs`) and event stream (`squelch-api/src/events.rs`) | a durable cursor; a cursor per connection | drain, push, replay, follow | event log, relay, clients |
| Control (`squelch-control`) | invites, users, tenants, sessions, reconnect jobs | signup, approve, send, revoke, reconnect, import | browsers, operator, warden |
| Warden (`squelch-warden`) | none of its own: the tenant's cluster objects | create, install, rotate, repair, reconcile, delete, roll | control, Kubernetes |

`PROJECT.json` lists every component with what is modelled of it.

Where correctness is hard:

- **The queue.** Ingest, humans and several workers change the same rows between
  any two steps of an investigation that takes minutes. A worker may outlive its
  lease, the content it read, or its process. What must hold: one investigation per
  thread; a late worker cannot touch a job it no longer owns; a decision is
  committed only from what was really read and is redone when that changes; a
  human's choice wins; attempts are counted exactly; no request and no message is
  forgotten; every job ends.
- **The cursor.** Two listings made at different moments are committed under one
  number. What must hold: after any crash, failure, deletion or expiry nothing
  behind the cursor is missing, received mail is never hidden as sent, and all mail
  lands in the end.
- **The fan-out.** A detached task sends real mail and then writes down what it
  did, in a process that may die and beside other processes that open its store.
  What must hold: nobody is written to twice, the history claims nothing that did
  not happen, and nothing stays "in progress" for ever.
- **The notification lane, the pusher, the event stream.** Each writes an effect and
  then a record of it, or moves a cursor past it. What must hold: at most one ring and
  a true ledger; a cursor never passes what nobody was offered; a client that returns
  misses nothing; a stream never rests beside an unread event.
- **Budget.** Runs are charged before they happen and given back when they did not.
  What must hold: no limit is exceeded and no capacity leaks, across midnight.
- **Carriers.** Answers come back minutes after their row was read, and decisions about
  mail rewrite or retract it meanwhile. What must hold: a quota is never exceeded in any
  window; no parcel starves behind one that never gets an answer; a delivery stands.
- **The sweep.** It stops anywhere and goes on at the next start. What must hold: no
  blank row is stepped over, and a seal wins over a write prepared before it.
- **Broker and relay.** One-time hand-over and acknowledgement by cursor over
  connections that drop. What must hold: an outcome leaves once, to the flow whose
  person was told so; nothing is acknowledged that is not stored.
- **The hosted plane.** A signup is a dozen statements and three calls of other
  services, beside an operator, other browsers and a clock. What must hold: a code
  buys one mailbox; a recorded tenant is served; a live code is the one on the board;
  of several consents the newest wins. The warden turns each call into a sequence of
  cluster requests that other calls interleave with, and an unattended timer hands new
  renders to every tenant. What must hold: what was stored is what is confirmed and
  loaded, a torn-down tenant is marked so, one bad render costs one mailbox (as long as
  nobody changes a key: disagreement 17).

## Modules

| Module | Models | Uses |
| --- | --- | --- |
| `TriageQueue` | the queue's tables and transactions | |
| `TriageEngine` | the worker and its interleavings with mail and humans; properties | `TriageQueue` |
| `TriageProofs` | type correctness, one lease per thread, human choices | `TriageEngine` |
| `TriageLeases` | leases, attempts and follow-ups, proved step shape by step shape | `TriageProofs` |
| `TriageDecisions` | verdicts, provenance and what must be decided again | `TriageLeases` |
| `SyncCursor` | the poll lane, the mailbox, the store's message rows; properties | |
| `SyncProofs` | the cursor's theorems | `SyncCursor` |
| `GroupSend` | the fan-out, its rows, the recovery on open; properties | |
| `GroupProofs` | the fan-out's theorems | `GroupSend` |
| `AgentBudget` | daily limits of investigations | |
| `NotifyLane` | notification jobs, the two lanes, the ledger | |
| `PushFeed` | the pusher, phones, the relay's answers | |
| `EventStream` | one client's stream and its reconnections | |
| `BrokerSessions` | the broker's table and the daemon's flow through it | |
| `RelayOpens` | the relay's spool and the daemon's drain | |
| `CarrierPoller` | parcels, the poller, the decisions that write the same rows | |
| `HealSweep` | the sweep over blank bodies, seals, re-ingests | |
| `NewestConsent` | what a reconnecting person is promised | |
| `ReconnectJobs` | reconnect jobs, views, workers, the warden's side effect | refines `NewestConsent` |
| `SignupFlow` | invites, signup, the operator, the funnel | |
| `SignupProofs` | its theorems | `SignupFlow` |
| `TenantWarden` | the warden's calls and the cluster objects of a tenant | |
| `FleetRoll` | the unattended roll over a fleet | `TenantWarden` |
| `WardenProofs` | the theorems about the warden's calls and the roll | `FleetRoll` |
| `Parts` | the nine small protocols side by side | the nine |
| `PartsProofs` | their theorems | `Parts` |
| `MCTriage`, `MCSync`, `MCGroupSend`, `MCSignup`, `MCWarden`, `MCParts` | model values, and symmetry where it is sound, for TLC | their system |

An operator whose name ends in `Fault` (and `NotRecovered`, `MarkerFirst`,
`SecretLast`, `VerdictStuck`, `PassesNever`) is the
definition after it with one plausible mistake; `PROJECT.json` pairs it with the
property that notices it (a property of two parts has a mistake for each where it can). No behaviour uses it.

### TriageQueue and TriageEngine

`job` maps a message, a revision and a slot to a row of `agent_triage_jobs` joined
with its lane. `queue_investigation` keeps one immediate row per message and
revision, so that triple is the row's identity. Every store transaction runs under
the store's one connection lock and is one action. Between two transactions of a
worker anything else may run, so an investigation is several actions: `ClaimJob`,
`Begin` (context, budget reservation and snapshot up to the model call),
`ReadEvidence` for each tool call, `Answer` or `Error` or `Outage`, then `Commit`
or `CommitRejected`, and `RetryAgent`.

| Code | Definition |
| --- | --- |
| `enqueue_agent_triage_lane` and what it calls | `Enqueue`, `Apply`, `QueuedRow`, `QueuedFollowup`, `Dependents`, `ReplyTarget` |
| `retriage_reset`, `correct_agent_triage_conn`, `initialize_agent_cutover` | `Retriage`, `Correct`, `Cutover` |
| `CLAIM_JOB_SQL`, `claim_agent_job` | `Claimable`, `ThreadBusy`, `Claim` |
| `retry_`, `defer_`, `fail_agent_job`, `finish` with the follow-up | `Retry`, `Defer`, `Fail`, `FinishedRow` |
| `commit_agent_decision_with_policy`, `commit_agent_access` | `Stale`, `CommitDecision`, `CommitAccess` |
| `agent_triage_pass`, `process_agent_job`, `handle_agent_failure` | the actions of `TriageEngine` |

Abstractions. Deadlines are flags (`due`, `live`) that time moves whenever it likes.
The claim order is open, so nothing depends on it. Lease tokens are drawn fresh, as
random 128-bit strings are. Five families stand for trigger texts; texts of the
families "manual" and "refresh" contain a time or a revision and never repeat. One
revisit timer per revision is a bound. Spent and refunded budget is a
nondeterministic refusal. `charged`, `basis` and `judged` are history variables: no
guard reads them.

### SyncCursor

Message `m` is the `m`-th history record of the mailbox, so message ids and history
ids coincide. `pc` is where the lane is and also the mailbox it is in; `todo` and
`claimed` are the id lists of the current half. A Gmail call, the ingest of one
message and the commit are one step each, and `Arrive`, `Delete`, `HistoryExpires`,
`Echo`, `CallFails` and `Crash` happen between any two. `raced` is a history
variable: the mail that arrived after the listing that would have shown it.

| Code | Definition |
| --- | --- |
| `run`, `run_once`, `poll_lane`, `poll_once` | `RunOnce`, `GoDown`, `NextTick`, `PollOnce`, `GoCatchUp` |
| `backfill_inner`, `catch_up_inner` | `ListInbox`, `ListSent`, `Fetch`, `Commit` with `mode` other than `"walk"` |
| `history_walk`, `history_walk_label` | `PollOnce`, `Added`, `Upcoming`, `ListSent`, `SentIds`, `Holding`, `Commit` |
| a 404 of one message | `FetchMissing`, `OnMissing` |
| `upsert_message_conn`, `bump_unsub_violation_conn` | `Upsert`, `Bumped` |

Abstractions. One page per listing, all mail inside the backfill window, decodable
and outside SPAM. Gmail's own steps are external.

### GroupSend

`status` is the recipient table, `job` the task of each batch, `accepted` what Gmail
took. `Record` and `Detach` are separate, because the handler awaits an audit write
between its store write and the spawn and its request may be dropped there. A
recipient takes two steps, `SendOne` and `Settle`, and the process may die in between.
`OpenElsewhere` is any other program of the repository opening the database file,
which runs `migrate()` like the daemon does. `unsaved` is a history variable: rows
whose outcome nobody will write.

### The small protocols

Each of these modules is one protocol with its own variables, `Init`, `Next` and
fairness. `Parts` extends `AgentBudget` and instantiates the other eight; the frozen variable
`part` says which of them a behaviour is about, and the others stay at their start. It
composes nothing: it lets one run of TLC (through `MCParts`), and one module of proofs,
ask the questions of all nine. Its parameters are theirs, and `PartsAssumption` is what is
assumed of them.

| Module | Code | Worth knowing |
| --- | --- | --- |
| `AgentBudget` | `reserve`, `refund`; `agent_triage_pass`, `process_agent_job` | the day is read once per pass; `ran` is history: runs the provider was asked for |
| `NotifyLane` | `NotifyLane::run`, `request_assessed`, `emit`; `agent_notification_lane`; `append_event` | one task claims a round of jobs of both kinds; event and record are separate writes; `dealt` and `late` are what makes a delivery pointless |
| `PushFeed` | `Pusher::drain`, `push_event`; `upsert_device`, `delete_device_by_token` | events are read before phones; a push may land on some phones and then fail |
| `EventStream` | `events_stream`, `start_cursor`, `pump`, `run` | frames in flight are lost with a connection; the client's own last id is the only state that survives |
| `BrokerSessions` | `SessionStore`, the handlers; `run_broker_flow`, `poll_for_code`, `interpret_claim` | a request the daemon gave up on may still be served (`late`); an answer lost before it begins is waited out (`Drop`), one whose body is cut off ends the flow (`CutOff`) |
| `RelayOpens` | `OpenStore`; `OpensPoller::drain`, `record_open` | the delete is the acknowledgement; `disk` says whether the relay has a file |
| `ReconnectJobs` | `enqueue`, `run_pending`, `run_job`, `save`, `sweep`; `reconnect_credentials` of the warden | a client that times out or is cut off (`Cut`) or dies does not stop the warden's write (`orphan`), and `Save` releases the lease under it; `loose` and `doubt` are history: calls whose lease ended without them, labels such a call may set back or has |
| `CarrierPoller` | `ShipmentPoller::pass`, `poll_one`, `Budget`, `CarrierState`; `apply_carrier_track`, `record_poll_outcome`; `reconcile` and `record_newer_mail` | a pass reads its queues once, and an answer is written to the id it read; a call is one step before its answer and one after; `asked` is history |
| `HealSweep` | `heal_blank_bodies`, `blank_body_messages`, the pre-check of `ingest_message_fresh`; `correct_triage` | the fetch and the write are two steps; `excused` is history: rows sealed at some time, and rows there is nothing to heal from |

Abstractions of these two. In `CarrierPoller` a budget's window is counted in ticks,
intervals and cooldowns end some day, a 404 counts against its row or not (the
pre-manifest grace), and rows do not age out; whatever is in memory only is lost with
the process, as the module's doc accepts. In `HealSweep` only HTML mail outside SENT
and SPAM is in the model, as in the query, and newer mail arrives with its body.

`ReconnectJobs` implements `NewestConsent` under the mapping in its last section: the
newest consent asked for, the credential held by the cluster, and what every browser
is told. The abstract specification says that no step replaces a credential by an
older one and that "complete" is only said when the newest consent is installed. It
promises neither of a label in doubt. `Doubts` is when that is: from the moment a call
with an older credential has outlived its lease (the lease ran out, or `save` released it
while the warden was still at work) and may still install, until the newest consent is
installed. The code prevents neither the late install nor the "complete" that may stand
beside it (disagreement 15), so this is as much as it keeps.

### SignupFlow

`code`, `person` and `tenant` are the three tables, `pod` what the warden has under a
label, `signup` and `press` the requests under way. Every SQL statement and every call
of another service is one action, and a hold may lapse, a session expire, a call fail
with or without effect, or the process die between any two. `Reserves`, `Spent`,
`Points` and `Stamps` are the guards of the compare-and-set statements.

### TenantWarden and FleetRoll

A call is a record of the requests it has still to make (`todo`), and each request is
one action on the tenant's objects: the identity Secret with its marker, the three
value Secrets, Ingress, Service, NetworkPolicy, the Deployment and its pods. Templates
are the hashes of the three values and the generation of the render, which is all the
code compares. The kubelet is external: one pod per Deployment, which mounts the
Secrets as they are when it starts, and a new template condemns the old pod before a
new one starts. `FleetRoll` adds the timer: it reads every tenant in order, then gives
the first that is behind to a reconcile that may delete nothing. A tick compares with and
deploys the render of its own process (`began`, and the call's `render`), whatever image
the warden is given meanwhile.

A bad render is one whose pods never report Ready. A pod that reports Ready and dies
later is read as serving, and the code leaves that case to the schedule on purpose
(`provision.rs:2029-2038`), so no property speaks of it.

## Runs and bounds

All passing runs together fire every action. Names are those in `PROJECT.json`.

| Run | Asks | Bounds |
| --- | --- | --- |
| `triage_leases` | one lease per thread, fencing, follow-ups, attempts | two messages of one thread, two engines, two attempts |
| `triage_sources` | provenance and staleness across threads; no message pending without work | two threads citing each other and a sent copy, one message stored before the agent tables, two revisions |
| `triage_human` | access against content, commits and humans | one message, two revisions, a correction, a request, two engines |
| `triage_drain` | every job ends; no message stays pending | one message, two revisions, a request and a revisit, two workers, two attempts, one fault |
| `sync_mailbox` | crash safety of the cursor, visibility, mail lands | four messages, one with both labels, one fault |
| `sync_walk` | the first disagreement below | the smallest instance that shows it |
| `group_fan_out` | honest history, one copy each, all settled | two fan-outs to two people, one fault, one foreign opening |
| `signup` | one mailbox per code, served tenants, the board's truth | the instance of `MCSignup`: two people, two signups, an operator, one fault |
| `warden_calls` | marked teardowns, stored is loaded, honest confirmations | any three calls of two callers on one tenant, one fault, one hand edit, one new render, which ends the calls of the old warden but not a roll under way |
| `fleet_roll` | one mailbox per bad render while no key changes, and one that is as it was rolled when one does; convergence | two tenants, a bad render and its repair, another call, a closing, a hand edit |
| `parts_safety` | the safety of the nine small protocols | below |
| `parts_liveness` | their progress | below |

Why these are enough. The conflicts in the queue are between two claimants, two
messages (a source and what rests on it, or two siblings) and two revisions; a third
adds no new kind of pair, and the theorems cover the safety part for any number. A
walk goes wrong with one message before, one inside and one after a listing, under
either label; four messages contain all of these together with a self-addressed one.
A signup conflicts with a second signup about its code, its label or its mailbox, and
with one press about its code. Two of the warden's calls can interleave with each
other, and a third finds what they left. In the small protocols the instances are two
consents of one label with two attempts, two slots for calls (one at a time for progress,
where the second slot is for the call left behind) and two faults; two flows with one place in
the broker's table; four opens, two tokens, two rows, pages of two; two jobs under
three nested limits over two days; one arrival with both of its jobs; two events,
batches of two and two phones; four events and batches of two on the stream; three
parcels and two ids at one carrier with two calls per window, two decisions about mail
and one fault; three parcels of which two never get an answer that parses, for progress;
five messages in chunks of two, two fetches per start, two seals and two faults. Each has a
queue that fills, a page that ends inside it and an actor beside the one under test.

`MaxTrouble`, `MaxManual`, `MaxCorr`, `MaxBumps`, `MaxOpens`, `MaxCalls`, `MaxFaults`,
`MaxEdits`, `MaxRender`, `MaxValue`, `MaxLost`, `MaxLosses`, `MaxBreaks`, `MaxLog`,
`MaxDay`, `MaxMail`, `MaxSeals`, `MaxId`, and `Faults` and `MaxUpsets` of `Parts`, bound how often the environment acts,
and each is large enough for the event to meet every state the others can produce.
Deadlock checking is off where inputs are bounded and a system with nothing left to do
may stop (the triage runs, `signup`, the warden and the parts). The others check it.

## Fairness

- `TriageEngine!FairSpec`: weak fairness for claiming, for each worker's advance to
  an end, for the circuit's half-opening, for deadlines and for the first pass. The
  refine lane loops for ever, each model call has a timeout, and time passes. Errors,
  outages, refusals and crashes are never required; outages, refusals and crashes are
  bounded by `MaxTrouble`.
- `SyncCursor!FairSpec`: weak fairness of the lane as a whole. Every await ends,
  every error backs off into another `run_once`, every poll into the next tick.
  Nothing is assumed of Gmail. `SentLands` itself has the premise that history keeps
  expiring: a SENT message deleted between listing and fetch makes the SENT half fail
  on every poll until its history id has expired. `InboxLands` needs no premise.
  `MailLands` is both.
- `GroupSend!FairSpec`: a spawned task is polled to its end and the service manager
  restarts a dead daemon.
- `FleetRoll!FleetFairSpec`: ticks come, requests are answered, and the cluster starts
  and stops pods. Edits, new renders and calls are bounded and never required.
- `Parts!FairSpec`: weak fairness of the loops of each protocol, and of nothing its
  environment does: the reconnect runner, the end of every wait for the warden (an answer;
  a timeout counts as one), back-offs and leases; the daemon's poll of
  the broker; the pusher; the carrier poller. A consent, a phone or a restart is never
  required. It is one weak fairness condition over the disjunction, which for the
  broker's flow is the module's own condition because the run has one flow. For the
  poller, the passing of time, the end of the cooldown and the end of each row's interval
  are fair each by itself; answers are fair only in that each request gets one, and which
  one is open. Refusals (a 429, a rejected key) are bounded: with a carrier that always
  refuses nobody is asked about, rightly.

## Proofs

TLAPS checks all theorems with Z3, Zenon and LS4. They hold for any number of
messages, threads, workers, engines, tokens, revisions, batches, people, tenants,
callers and so on, under the named assumptions of the modules (typed constants, distinct
"nothing" values, labels that cover the mailbox, consents counted from one), which TLC
evaluates with the constants of each run. Every safety property a run checks is stated by
a theorem.

| Theorem | Module | Says |
| --- | --- | --- |
| `TypeCorrect` | `TriageProofs` | `Spec => []TypeOK`; a row has a token exactly while leased |
| `ThreadsSerialized` | `TriageProofs` | one unexpired lease per thread |
| `FollowupsAttended` | `TriageProofs` | a follow-up only waits beside a lease |
| `HumansOutrank` | `TriageProofs` | a human's choice is the access verdict |
| `LeasesHonoured` | `TriageLeases` | a live lease of the current revision stays with its worker |
| `AttemptsHonest` | `TriageLeases` | attempts are counted exactly |
| `FollowupsCarried` | `TriageLeases` | no step drops the request that waits beside a lease |
| `VerdictsCurrent` | `TriageDecisions` | a verdict is about the content stored now |
| `ProvenanceIsHonest` | `TriageDecisions` | what a decision says it read was read |
| `PendingIsWorked`, `DecisionsRedone` | `TriageDecisions` | no message waits without work; a stale decision is queued again |
| `SyncTypes`, `CursorIsCrashSafe`, `InboundStaysVisible` | `SyncProofs` | types; nothing behind the cursor is missing; received mail is visible |
| `HistoryIsHonest`, `EachOnce`, `NothingLeftBehind`, `ReachedForGood` | `GroupProofs` | the fan-out's promises |
| `CodesBuyOnce`, `RecordedIsServed`, `BoardStaysTrue` | `SignupProofs` | one mailbox per code; recorded tenants are served; the board is true |
| `TornIsMarked`, `HashedIsLoaded`, `ConfirmedServes` | `WardenProofs` | closings are marked; stored is loaded; a confirmed value serves |
| `PromisesBesideRoll` | `WardenProofs` | the same three under `FleetSpec`, where the roll begins calls too |
| `BadRenderStays` | `WardenProofs` | `NothingGivenBack` implies `FleetSpec => []BadRenderCostsOne`: one mailbox per bad render while no key changes, one that is as it was rolled when keys do |
| `BudgetHolds` | `PartsProofs` | no limit is exceeded and no capacity leaks |
| `HandedOnce` | `PartsProofs` | an outcome leaves the broker once, and is the one its person was told of |
| `LanesAgree` | `PartsProofs` | the ledger of notifications is true; worthy mail rings |
| `OfferedBeforePassed` | `PartsProofs` | the pusher's cursor passes what was offered |
| `NothingMissed` | `PartsProofs` | a returning client misses nothing; a resting stream will be woken |
| `SpoolIsFair` | `PartsProofs` | an acknowledged open is kept; the first row of a token stands |
| `NoneSteppedOver`, `SealsHold` | `PartsProofs` | the sweep leaves no blank row behind, and a seal wins over it |
| `DeliveriesStand`, `WindowsHold` | `PartsProofs` | a delivery stands; a quota holds in every window |
| `NewestConsentWins` | `PartsProofs` | the reconnect jobs implement `NewestConsent`, timed-out calls included; labels in doubt are excepted |

The arguments:

- *Triage, types and leases.* `TypeOK` is inductive by itself; every action is a
  rewriting of rows, and the lemmas about `QueuedRow`, `ClosedRow` and `FinishedRow` say
  which rows they can produce. `ThreadBusy` is evaluated in the transaction that leases a
  row, no other action makes a lease live, and every action that takes a row out of
  "leased" also removes or absorbs its follow-up. For the rest `TriageLeases` first shows
  that every step has one of six shapes (`StepShapes`): requests from mail or a human,
  access reviews, a claim, the end of a worker's job, a lease that runs out, or a step
  that touches no lease. `LeaseInv` is inductive shape by shape: rows and busy workers speak
  of revisions that exist (`RowsReached`, `WorkReached`), and no two busy workers hold one
  token (`TokensApart`), so that only the ending of a worker's own job, its expiry or newer
  content takes the row from it. Attempts are exact because the row's counter is `charged`,
  what really ended in failure or a lost lease, and one more while it is leased
  (`RowsCharged`), which needs that a worker remembers the attempts of the row it owns
  (`ClaimedAs`).
- *Triage, decisions.* A verdict goes with its revision: a commit re-reads the revision in
  its own transaction, and every request for newer content takes the verdict back in the
  step that raises the revision. Provenance rests on `EvidenceAssessed`: whatever a busy
  worker has read has been assessed or is its own message. `DecisionInv` (nothing but
  access reviews is ever asked for a sent copy, decisions rest on revisions that were
  reached, and one whose sources moved on has a row or a follow-up that will end in a full
  investigation) is inductive because the request that changes a source queues its
  dependents in the same transaction (`Dependents`).
- *Sync.* `OnlyRacersSkipped` speaks of mail behind the cursor, which only `Commit`
  moves, and is not inductive. `CursorInv` adds what a pass owes before it may
  commit: after the INBOX listing every due inbound message is claimed, whatever is
  claimed and no longer to do is visible, and after the SENT listing every due sent
  message is stored or still to do. `Commit` needs `todo = {}`, which closes the gap.
- *Fan-out.* `GroupInv` adds that a recipient still on the list has no copy, that one
  in hand is recorded as pending or failed, and that an outcome "sent" has a copy.
- *Signup.* `CodesInv` says of each code whose hold did not lapse under a callback that a
  callback at work with it holds it still, unless an operator has taken it away; that no
  other has it; and that until a tenant is recorded it has bought nothing. `PodInv` adds to
  `RecordedServes` that between the warden's two calls the address is the caller's
  mailbox's, and after the second serves it. `BoardInv` adds what a press under way has
  settled or mailed; codes only move forward (`Advances`).
- *Warden.* `CallFine` describes every call by what is left of its script (`Shaped`): it
  renders with a credential that has been stored, its own value is new until then, and a
  teardown past its marker leaves the account closed or reopened by somebody. `TenantFine`
  says of every tenant that the stored credential is the last of those put there, all
  different, and that a pod has installed the one its template names or a later one.
  `WardenInv` is both, for all calls and tenants.
- *Roll.* `WardenInv` is kept by the roll's steps as by everybody's (`BesideSafe`), from
  `RollerFine`: the roll's process converges and does nothing else, and it reads the fleet
  only between its calls. `FleetInv` is what keeps a bad render to one mailbox. `OneBad` says
  that at most one tenant is on each bad render (`On`: as it was rolled, with the Secret it
  was rolled with), that while a tick reads the fleet a tenant on the tick's own render
  (`began`), if that is bad, is among those it has yet to read, and that while it rolls
  a tenant no other one is on it. A tick that comes to such a tenant finds a casualty and stops
  (`BadIsCasualty`), because no pod the roll has put on a bad render serves (`DepFine`); so a
  tick that has read everything has found none. The other half is that no request puts a tenant
  back on a render it had left (`RequestShrinks`): a value that is stored is one no Secret,
  template or other call holds (`Unseen`), and a tenant that is closed or has lost its
  credential stays so under the calls that go on for it (`LifeFine`, `CallLife`). That is the
  second half of `BadRenderCostsOne`. The first follows by `Calm`: while no second value has
  been stored, nothing changes a Secret, so whatever the roll has put up still has the
  Secret it was rolled with (`SameKeys`), which needs that the roll's call has read that
  Secret or will before it deploys.
- *Budget.* `LimitsAreExact` counts the reservations under way, so it is a statement
  about sets that grow and shrink by one job; the lemmas `PlusCounts`, `MinusCounts` and
  `ReservedShrinks` say by how much. It is inductive once it is known that nothing is
  reserved between passes (`RestsBetween`): otherwise a pass would adopt, under its own
  day, reservations charged to another.
- *Broker.* `Agreed` ties, per flow, the broker's session, the daemon's flow, what the
  person was told and the number of hand-overs: a live session has handed over nothing and
  has told what it has parked; an answer with an outcome is what was told.
- *Notifications.* `Honest` says of each message what each lane's record, answer and claim
  prove about the ring, and what a finished investigation proves when nothing made the
  delivery pointless.
- *Pusher and stream.* The pusher's batch follows its cursor (`BatchFollows`), and a phone
  registered after the batch was read starts behind it (`LatecomersWait`). On the stream
  the frames in flight continue the client's last id (`Continues`), end at the server's
  cursor (`SentToCursor`), and an unread event has a hint or a read ahead of it (`WillRead`).
- *Opens.* `SpoolInv` gives every row an id of its own. `DrainInv` says, of a relay with a
  file, that what the daemon's cursor covers is kept, and that a page is a prefix of the
  rows above the cursor, so that its first row is the only one the cursor's move covers.
  The first row of a token goes last because the eviction order puts every deeper row of
  any token before it (`FirstGoesLast`).
- *Healing.* `SweepFine` says that everything at or above the sweep's place is healed,
  excused or still to be done in this chunk.
- *Carriers.* `WindowsHold` needs that the remembered calls are in order of age and that
  the memory, once expired, is exactly the history of the last window (`Paced`);
  `DeliveriesStand` is inductive step by step over rows that keep their columns.
- *Reconnects.* `JobsInv` says that the consents which asked are the first ones; that a
  pending row holds the newest consent of its label and is the only pending one; that a
  call whose lease has not ended without it works for a pending row under a live lease and
  is the only such call of its label, with a consent not newer than the row's (`Firm`,
  `CallInv`). `SureInv` is of labels without doubt: no call that lost its lease may still
  install an older consent (`Stray`), and a call that has installed the newest one has not
  been overwritten (`Landed`). Each action is then one step of
  `NewestConsent`: `Enqueue` is `Ask`, `Install` is `InstallNewer`, `Save` is `Settle` or
  nothing, `Sweep` is `Forget`, and the others are not noticed; a label comes to be in doubt
  with any of them, and leaves doubt only with the newest consent installed.

The inductive invariants of the triage engine, of signup, of the warden, of the roll and of
the reconnects were first checked by TLC as invariants of the same instances.

Only model-checked: all liveness (`TriageSettles`, `MailLands`, `FanOutsSettle`,
`RollConverges`, `JobsEnd`, `CollectedArrives`, `PusherCatchesUp`, `NobodyStarves`), which
is out of the prover's reach. `CollectedArrives` excepts the four ways in which a consent that
was collected does end without it: ten minutes, a restart of the broker, the loss of the
one answer that carried it, and any answer cut off in its body (disagreement 10).

What `BadRenderStays` assumes. `NothingGivenBack` is a condition on the constant `Ops`, the
calls that are made beside the roll: no share is taken back, and re-consents are not mixed
with closings or with the janitor. The run's own set meets it. The condition is there because
the property fails without it, which TLC showed on three instances, each with two tenants:

- a tenant is rolled, its share is set, the other tenant is rolled first by the next tick,
  and the share is taken back: both match the render (33 states);
- a tenant is closed and opened again by two re-consents at once, which both get past the
  wait for a pod on a pod that is still stopping. One takes the marker off, the tenant is
  rolled and closed once more, the roll goes on to the other tenant, and the second re-consent
  takes off the new marker (49 states);
- the janitor finds a reservation without a credential, a re-consent serves it and the
  roll takes it, the janitor deletes its identity, the roll goes on to the other tenant,
  and a new signup makes the identity anew (46 states).

## Disagreements between code and comments

The first has a run, `sync_walk`. The others were found while modelling; the behaviour
is in the models, but no property that holds excludes it.

1. `sync_walk`. A walk stores the larger of its two history ids
   (`sync/mod.rs:1481`). INBOX mail that arrives between the two listings is behind it
   and is never fetched.
2. A catch-up, and the backfill, read the profile's history id after the listings
   (`sync/mod.rs:1656`), with the same effect for mail that arrives meanwhile, although
   the sent half is re-listed "or mail the user wrote from another client during it is
   lost for good" (1543).
3. Re-walking is said to change nothing (`sync/mod.rs:1426`), but it bumps the
   unsubscribe ledger again (`messages.rs:37`).
4. A human's request waiting behind the last attempt of a job is deleted when the job
   fails (`agent_triage.rs:1327`), although it "keeps its foreground lane through the
   wait, whichever way the running job ends" (445).
5. "Nothing is in flight at open" (`migrate.rs:478`) is not so: the command line, the
   MCP server and the TUI open the file while the daemon sends.
6. `OnMissing`: one deleted INBOX message is taken for an expired history id and starts
   a full catch-up (`sync/mod.rs:1376`).
7. `SettleFails`: the crash guard of `groups.rs:550` is not called on the way out of
   the job, so a recipient whose row write failed stays pending until a process opens
   the store.
8. A relay without a file numbers its opens from 1 after a restart, while the daemon
   keeps its cursor, so opens below the cursor are deleted unseen. `opens.rs:90` says a
   restart drops what had not been drained; this drops what comes after it.
9. "SUBSCRIBE BEFORE READING THE CURSOR ... cannot drop an event" (`events.rs:193`)
   holds for a client that brings a cursor; a live-only client is not sent an event
   appended between its subscription and the read of the latest id.
10. "The deadline, not a single failure, ends the flow" (`auth/mod.rs`, above
    `poll_for_code`), but a dropped answer that carried the code leaves a session that
    is gone, and the next poll's 404 ends the flow. And only an error of `send()` is waited
    out: a connection that goes while a body is read, if only that of a "pending", ends the
    flow at once (`read_capped(..)?`, 1077), although "a dropped connection mid-flight is
    NOT fatal" (1055) and "a dropped connection is weather" (1073). `CutOff` does that.
11. A pass that spans midnight reserves on the day it began; refused there, a job is
    deferred to the day after the clock's, and so skips a fresh day.
12. A crash between a notification's event and its record, followed by another answer
    of the model, leaves "declined" in the ledger of a message that rang.
13. Resending an invite: a hold that is released or lapses between the refused
    revocation and the question whether the code is held (`admin.rs:437-495`) ends in a
    second live invite for one approval.
14. Two concurrent signups of one mailbox put up two daemons before `insert_tenant`
    refuses the second.
15. A credential refused as "nothing changed" (`reconnect.rs:76`) may follow an
    unsettled attempt that did install; and a result saved after its lease ran out
    clears the lease of a newer claim. "THE NEWEST CONSENT WINS" (183), and a worker at the
    end of its lease "has hit the client timeout already" (56-57), but after a timeout or a
    lost connection (376-387) `save` releases the lease at once (409) while the warden, which
    is not told and "may still be working" (`control/warden.rs:92-103`), goes on. A newer
    consent's call then runs beside it, and the older credential may be installed last, with
    "complete" already shown. Such a label is in `doubt`.
16. A key rotation, or a deletion with a reopening, beside a recreation starts a second
    pod while the first still holds the volume (`cluster.rs:322-333` waits for old pods
    only on the recreation's own path).
17. A tenant that is down under today's render drifts as soon as one of its keys is
    changed. Edited by somebody as well, it is a foreign skip; else it is behind, and is
    rolled again unless one before it in the order is. Either way a bad render reaches a
    second mailbox while the first is down, although such a tenant "stops the run whoever
    has touched it since" (`provision.rs:333-337`) and "a bad render costs exactly one
    tenant" (2060). `BadRenderCostsOne` therefore promises one mailbox only while no key is
    changed, and else that only one of those down still has the Secret it was rolled with.
18. The janitor deletes the identity of a reservation it read as pending even when
    credentials are installed on it between the two requests.
19. A carrier's answer is written to the id its row was read with. A retraction
    (`agent_deliveries.rs:324`) frees the largest id, a plain `INTEGER PRIMARY KEY`, and
    the next insert takes it again, so an answer under way, or queued, about a retracted
    number is recorded on another parcel, although `schema.sql:348` calls it "The
    carrier's own latest status string".
20. The shipments table says a status "never regresses a delivered shipment"
    (`schema.sql:328`); a newer proposal does walk a row the projection owns back from
    delivered (`agent_deliveries.rs:360-369`). When an answer that was under way lands
    first, it cannot any more, and the row is not polled again either.
21. The healing pre-check is there because "the on-demand spam walk or a human seal may
    have ruled on the row since" (`messages.rs:742-748`), but a stored visible row never
    becomes spam (`MIN` in the upsert), so only the seal half can refuse anything.

## Not modelled

Data (MIME, prompts, ranking, search, embeddings, rendering), single-statement writes
without interaction, read-only projections and the Swift clients. Of the modelled
components: thread attention and the FYE preference, spam rescue, list
pagination and catch-up windows, the to/bcc group modes, pairing codes and bearer
tokens, the carriers' HTTP clients, tracking-number detection and order links, logins
and the waitlist form, the minting of gateway keys, the import of an old
control database, tags and chunks of a push, the age limits of spooled opens and unspent
invites. `PROJECT.json` gives the reason for each.

## Plan

Done: the queue, the engine, the cursor, the fan-out, signup, the warden's calls and the
nine small protocols, with proofs of their safety; the refinement of `NewestConsent`; the
unattended roll.

Next, in order:

1. An abstract queue ("every request is answered by an investigation of at least the
   content it asked about") with `TriageEngine` refining it, and an abstract mailbox
   copy refined by `SyncCursor`.
2. The `heal` and `not_spam` triggers added to the queue, and the on-demand spam walk.
3. Pairing codes and bearer tokens: each operation is one transaction, so little can
   interleave; worth a module only together with the devices that hold the tokens.
