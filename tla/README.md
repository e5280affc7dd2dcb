# TLA+ models of task-flow

task-flow is a multi-tenant work platform: an HTTP/tRPC api (`apps/api`), a
socket server (`apps/realtime`), a collaborative-editing server
(`apps/collab`), a background worker (`apps/worker`), web and mobile clients,
and shared packages over one Postgres database and Redis. Almost every write of
the api is one transaction that also appends domain events to an outbox. What
is hard to test lies behind that transaction: several processes that drain one
table, retry loops over rows that stay visible, requests that read without a
lock and write later, a document that lives in memory, in a log and in
snapshots at once, and two services outside (a payment processor, a telephone
carrier) that are asked first and report later, in any order. These are the
parts modelled here.

## Inventory

| part | state | operations | what is hard | what makes it correct |
|---|---|---|---|---|
| outbox (`packages/db/src/outbox.ts`, migrations 0006, 0015) | event rows, one dispatch row per consumer | append, claim, mark, record a failure | the claim filters on a snapshot and locks afterwards; consumers share the row locks | no row worked on twice at once, nothing marked that was not done |
| relays (`apps/realtime/src/relay.ts`, search, analytics, automation) | the batch of a drain | claim, act outside the database, mark | crash between act and mark, rows that always fail, other instances | at-least-once, bounded repeats, everything in the end sent |
| audit projection (`apps/api/src/tenancy/audit.projection.ts`, 0007) | audit log, one hash-chain head per org | drain a batch in one transaction | chain-head locks of two projectors, doubly claimed events | exactly once, chains without gaps, no deadlock, append-only |
| webhooks (`apps/worker/src/webhooks`, `webhook.service.ts`, 0049) | endpoints with failure counts, delivery rows | register, enqueue, claim, request, mark, count and disable | every step is its own transaction while the row stays pending and due | retry budget, one charge per dead delivery, in the end settled |
| calls (`apps/api/src/rtc`, 0041, 0042) | session row, roster, seat and consent counters | start, join, leave, decline, cancel, recording consent, forced leave | unlocked read, later write; counters beside rows | counters are the roster, one answer, no empty live call, a ringing call can be answered |
| automation (`apps/worker/src/automation`) | rules, queue, hourly budget | claim, loop protection, run actions, mark | rules that trigger each other, services that restart the count of a chain, redelivery of half-run batches | chains bounded between restarts, runs bounded, queue drains |
| page content (`apps/collab`, `apps/api/src/docs/page-version.service.ts`, 0024) | write-ahead log, snapshots, live document | load, append, compact, prune, save, restore | commit order against start-time stamps, half-done compaction, JS Date truncation | acked edits survive, stripped content stays stripped |
| billing (`apps/api/src/billing`, `apps/worker/src/billing`) | the org row: status, plan, subscription, trial and grace deadlines, a parked change; usage periods, invoices | checkout, change, cancel, reconcile, processor webhooks, the sweep's ticks, the operator's override; period close | read, call the processor, write, with nothing held; events twice, late and out of order; a scan that is old when it is acted on | the row says only what was bought, and agrees with the processor once its events are in; deadlines met, none early |
| telephony (`apps/api/src/telephony`) | spend policy and ledger, calls, recordings, threads, opt-outs, webhook nonces | gate, book, dial, attach, callbacks, recording ingest, send and receive texts | the gate is a read before the write; effect and nonce are separate commits; callbacks in any order; claims that do not outlast their transaction | cap holds but for overlaps, every call and text booked, rows end as the carrier has them, STOP stands |
| board order (`apps/api/src/work/card.service.ts`, `rebalance.ts`, `packages/contracts/src/rank.ts`) | list and rank of each card | move, rebalance, create, archive | ranks read without a lock, ties, places with no rank between | a card lands where it was dropped, in one row; repair always helps |
| identity | users, sessions, refresh families, second factors | login, rotate, revoke, reset | rotation races with revocation and with itself | a revoked session yields no token |
| realtime gateway | sockets, rooms, presence | connect, subscribe, revoke, broadcast | a grant revoked while a socket is subscribed | nobody is in a room they may not read |
| tenancy, the rest of work, chat, docs structure, people | rows behind row-level security | single-transaction edits | few interleavings | constraints of the schema |
| notifications, search, analytics, standup | projections of the outbox, sweeps | drain, sweep | as the relays | as the relays |
| ai, integrations, api tokens, platform admin, attachments | settings, quotas, keys | calls to services outside | check-then-act quotas | caps hold |
| clients, shared packages, seed | - | rendering, pure functions, fixtures | - | - |

How they interact: a mutation appends events in its own transaction (Outbox);
relays of independent consumers drain them (OutboxRelay, AuditProjection,
AutomationEngine); an automation's action runs an api service, which appends
events again; `enqueueWebhookDelivery` queues the rows WebhookDelivery drains;
removing an org member forces the legs of RtcCall; api and collab server meet
on the page tables (DocsPage). The processor and the carrier are actors of
OrgBilling, CarrierCall and TextThread: the api calls them between two of its
transactions, they answer by webhooks, and worker sweeps pick up what is left.
Calls and texts of an org pass the same gate and ledger (SpendGate).

## Modules

Each model follows the code's transactions: statements of one transaction that
nothing else can see in between are one action, an `await` on which something
else may happen starts another. Variables are named after columns where there
is one. "History" variables are read by properties only.

- `Outbox` - the tables and the claim statement, in two halves: `BeginClaim`
  takes the statement's snapshot, `LockNext` locks row by row with SKIP LOCKED.
  Postgres does not re-read the joined dispatch row after locking (nobody
  updates the outbox row it locks), so `scan` may be stale: a second instance
  can claim an event that was just marked. `OutboxRelay`, `AuditProjection` and
  `AutomationEngine` extend it.
- `OutboxRelay` - the loop of `drainOnce`: dispatch each claimed row outside the
  database, leave failures out, mark, commit. `Poison` events always fail,
  others fail transiently up to `FailBound`.
- `AuditLog` - what the audit projection promises: events happen, a batch of
  them is recorded at the end of each org's chain, nothing else changes.
- `AuditProjection` - `drainOutbox` with the trigger `audit.chain_entry`: sorted
  batch, lock of the org's head until commit, primary key that refuses a second
  entry and aborts the transaction. It implements `AuditLog` (`RecordKept`, with
  the batch's commit mapped to one `Record` step). The hash is abstracted to the
  position it commits to.
- `WebhookDelivery` - registry, enqueue (its check and its insert are separate
  statements), and a worker's tick as one action per transaction. Time is the
  set of rows that are due.
- `RtcCall` - a request loads the session row (`loadSession`) and later commits
  what the service writes on the strength of it (`Commit`, one disjunct per
  operation). `declineSession` is three steps: the uncommitted write of its own
  row (`declineInvitation`), the count of the invitations it can see
  (`countInvited`), the commit; another decline may be anywhere in its own three.
  `crossed` is history: two of them overlapped.
- `AutomationEngine` - `drainAutomations` as it is: one transaction claims a
  batch (`StartDrain`, `ClaimRow`, `ClaimReturns`, the steps of `Outbox`), works
  on its rows one after another, and marks all of them at its end (`MarkBatch`).
  For each row the rules are loaded once (`LoadRules`), pass loop protection and
  budget, and run actions that commit one by one. A drain that is lost
  (`LoseDrain`), to a death or to a query that throws, leaves the whole batch
  pending and what its rules did in place; a lost database session shows in the
  drain's next query, so it is one of these. The row locks of other consumers
  are left out: they only delay a claim. An event carries the depth that its
  action's service copies (`CarriesDepth`), or zero, as that of
  `enqueueWebhookDelivery` does. `hops` and `restarts` are history: the actions
  between an event and a person, and those of them that dropped the depth.
- `DocsPage` - a document is a set of operations (a Yjs update only ever adds;
  stripping disallowed content is another operation). A writing transaction is
  split into its start, which takes `created_at`, and its commit. `Truncate` is
  the trip of a timestamp through a JS Date, `clock` ticks are finer than that.
  `Observe`, a conjunct of every action, writes the history: `exposed` updates
  (those the code gives no promise for), what a save `owed`, and saves
  `disturbed` by another version.
- `OrgBilling` - `identity.orgs` and everything that writes it. Prices are one
  number per plan, dates are none, ahead or passed. The processor's
  subscriptions are external state; its actions append to `event`, and a
  delivery is a replay check (`AcceptDelivery`) and later the effect with the id
  recorded in the same transaction (`applyBillingWebhookEvent`). An owner's call
  is a record of what it read and which step it has reached: decide
  (`createCheckoutSession`, `changePlan`, `schedulePlan`, `ReadProcessor`), call
  the processor, write the row; it may be abandoned at each step. A tick of the
  sweep scans, then goes through its transitions one transaction at a time.
  History: what was `bought`, whether events were applied `orderly`, and whether
  a grace period began after the scan (`renewedGrace`).
- `SpendGate` - the ledger of one window and the gate's two checks. A row is held
  at its estimate or released at 0, as in the code, which writes no other actual
  cost. `saw` is the gate's reading of both sums, kept until the action is
  booked; an action is `overtaken` if the sum that bounds it has grown past that
  reading by then. A window that opens past 80% of its cap was warned in.
- `Outbound` - what calls and texts share: the request, the row, the action at
  the carrier, its status callbacks and their nonces. It extends `SpendGate`;
  `CarrierCall` and `TextThread` extend it, so that one invariant about the
  ledger serves both.
- `CarrierCall` - `placeCall` in its transactions: gate, book with the row, dial,
  attach the carrier's id or release; the carrier's own progress and its
  callbacks, each applied and its nonce recorded separately; the recording sweep
  with its claim, fetch and settlement. Deaths of a process lose the carrier's
  answer or a claim. History names who was overtaken, astray, shared or dropped.
- `TextThread` - `sendSms` and `receiveSms` of one thread: opt-out check, gate,
  send, then row and ledger; inbound texts whose counting overlaps; STOP and
  START; delivery twice and out of order. Its definitions carry the prefix
  `Text` where `CarrierCall` has one of the same name.
- `Rank` - `rank.ts` on sequences of digits, with base and head range as
  constants: integer part with carry and borrow, midpoint of fractions,
  `beforeRank`, `afterRank`, `between`, `rankSequence`.
- `BoardOrder` - `moveCard`, `rebalanceList`, `createCard`, `archiveCard` as
  READ COMMITTED transactions. A request that finds no room reads the list
  (`ReadColumn`), rewrites it row by row (`RewriteRow`, each row in `writes` and
  locked until commit) and tries again. Requests that wait for each other in a
  circle are what Postgres ends by aborting one (`Abort`): the drag fails, and
  nothing of it is kept.
  History: the list as the person saw it (`shown`), requests that others
  overtook (`stale`).
- `MC*` - definitions for the configurations; `*Proofs` - the theorems.

## Runs

All bounds are named constants: `CrashBound`, `FaultBound`, `FailBound` (lost
transactions and failures), `HumanBound` (events caused by people), `EmitBound`
(events of one action), `HistoryBound` (where histories stop counting),
`EventBound` and `RequestBound`
(events of the processor, requests of the owner), `MoveBound` (requests on a
board), and the sets themselves; the `CONSTRAINT` `OneMovesOn` lets two calls or
texts reach the carrier and one of them be reported on. Deadlock is checked
except where the system may really stop: no more calls, edits or requests is a
legal end. `BoardOrder` stops when `MoveBound` requests are over, not in a circle
of requests: `Abort` is enabled there.

Several properties exempt a case in which the code does go wrong: the overlap of
two declines, of two sweeps, of two counts of unread texts; the grace period that
began after a scan; the answer of the carrier that is lost; the request that was
overtaken. Such a property says that nothing else goes wrong. The case itself is
under "Findings".

| run | instance | asks |
|---|---|---|
| `outbox_relay` | 2 consumers, one with 2 instances and a crash, 2 events, one poisoned, batch of 2 | marked implies sent; sends bounded by crashes and stale claims; every event that can be sent is in the end sent to each consumer |
| `audit_projection` | 2 projectors, 5 events of 2 orgs (one never audited), batch of 2, a crash | exactly once, chains intact, chain heads taken in ascending order, implements `AuditLog`, everything recorded |
| `webhook_loops` | 2 workers, 2 deliveries, 2 attempts, a crash | an attempt is one worker's and made once, one charge per dead delivery, no early death |
| `webhook_live` | 1 worker with a crash, batch of 2 | everything settles but a row whose last attempt died with its worker; a failing endpoint is disabled |
| `rtc_calls` | 3 users, 2 requests in flight, 3 seats | seats, single answer, somebody left to answer unless declines crossed, no dead call, consent counter |
| `automation_engine` | 1 worker, batch of 2, a cycle of two rules that carry the depth, beside it an action that drops the depth into a rule that could trigger itself, depth cap 2, budget 2, a lost drain | between two actions that drop the depth chains are capped; a rule runs on an event once more per lost drain, within the budget; the queue drains |
| `docs_page` | 2 updates, one disallowed, 1 api request, 2 ticks per ms, one crash or failed statement | loss needs an overlap, saves faithful, autosaves grow |
| `org_billing` | 2 plans, 2 subscriptions, 1 owner, 2 delivery processes, 3 events, 2 requests; from a trial, or from an org already subscribed | nothing invented, agreement with the processor, purchases kept, grace honoured, deadlines met |
| `carrier_calls` | 2 calls, one recorded behind an announcement, one placed by a rule, cap 2, windows that open below, near or above it, 2 sweeps, 2 attempts, a death | overspend and a missed warning need an overlap; ledger and row follow the carrier; stored stays stored; a stranded recording needs a death |
| `text_thread` | 2 outbound texts, one of two segments and placed by a rule, 3 inbound ones (STOP, plain, START), cap 2 with 0 or 1 spent before, a death | STOP stands unless an older word came after it; unread count off only by an overlap; thread and ledger follow the carrier |
| `text_replay` (violation) | 2 inbound texts, START and then STOP | the replay that `receiveSms` calls a no-op |
| `board_ranks` | 4 cards (one to be created) in 2 lists, 2 movers, 3 requests, base 3, heads -2 to 0; boards fresh, tied, crowded or tied in both lists | a card lands where it was dropped; a drag nobody overtook fails only against a repair that is crossing its own; ties need an overlap |

Why these bounds are enough to be interesting: a stale claim needs two instances
of one consumer and one event; a circle of chain heads needs two batches of two
that meet their orgs in opposite orders, hence four audited events (with the
sort removed TLC finds heads taken out of order). Two attempts make "first",
"last" and "one in between crash and retry" different; the program's 6 and 5
only repeat the middle. Three users are a group call and a 1:1 call with an
onlooker. Cap 2 lets a cycle go round once and be cut; the action that drops the
depth makes chains with and without a restart. One worker and one lost drain
redo both rows of a batch; the stale snapshot of a second worker, which costs
one more run, is beyond five minutes of TLC with these rules and covered by the
theorem for any number of workers. For pages two updates put one inside and one
outside of each window; one fault reaches every half-done compaction, since each
is followed by a full recovery. Three events are a start, a failure and an end,
two of them in any order and at two processes at once; the second initial state
of `org_billing` spends the two requests on what comes after a subscription
(`Spec` reaches it in three). Two calls at a cap of two cents pass the gate
together; one is automated, so both caps are met; what was spent before (0, 1 or
3) makes the cap reached by two calls, by one, or by none. Base 3 with three
heads makes carry, borrow, the last integer and a place without room appear
within a few drops; two movers are one in the middle of a repair and one that
moves under it. Each property is known to be able to fail: for every one
PROJECT.json names a plausible slip in the code's translation (a dropped guard,
a missing reset, a swapped order) under which TLC reports it violated. These
alternative bodies stand in the modules just before what they replace.

Fairness is weak fairness of the steps of each running loop: every relay, worker
and projector polls on an interval timer and carries a batch through
(`startRealtimeRelay`, `startAuditRelay`, `startWebhookDeliveryLoop`,
`startAutomationEngine`), requests end by a timeout, and a back-off elapses; so
does the billing sweep (`startBillingSweep`, `SweepFairness`). The billing model
has one org and no tick that fails; in the code an error ends the tick for all
the orgs behind (`sweep.ts:182-189`), so `DeadlinesAreMet` supposes that the
errors of other orgs do not end every tick before this one's turn.
Appending events, people, api requests, the processor, the carrier, the clock,
crashes and failures get none. `RtcCall`, `DocsPage`, `CarrierCall`, `TextThread`
and `BoardOrder` state no fairness: what they ask is what may never happen.

## Findings

One run shows what the code does against what it says of itself (`text_replay`):
`receiveSms` says that a replay lands as a no-op. The message does, but its
keyword is classified and applied again: the person texts START and then STOP,
and the START, delivered once more before its nonce is written, takes the STOP
back.

Noted while reading, not the subject of a run. The ones marked * were confirmed
with TLC on these models: stated as the comment has it, the property is violated.

- Outbox: `outbox.ts:247` says poison must not starve younger events; as many
  poison events as a batch do, since the claim has no attempts filter
  (`outbox.ts:186`). * `automation/relay.ts:35` says a redelivery needs the
  process to die; a query that throws anywhere in the drain redelivers its whole
  batch, and a second instance with a stale snapshot redelivers as well.
  `outbox.ts:160` says that different consumers
  never contended; they lock the same outbox rows.
- Webhooks: a death in the last attempt strands a pending row
  (`delivery.ts:215` against `:72`), and with two loops so does a late failure;
  a late failure sets a succeeded row back to pending; `failure_count` is never
  reset by a success although `delivery.ts:95` says "in a row"; two deaths at
  once append `webhook.auto_disabled` twice; a second disable meets the
  notification of the first and is not announced.
- Calls: the consents that a recording needs may be those of people who have
  left (migration 0042 speaks of every participant); a decline that read
  `ringing` ends a call answered meanwhile; two last declines at once each see
  the other invited and leave the call ringing; a join racing an end leaves a
  `joined` row in an ended session; two starts of a recording insert two rows; a
  join in flight may commit after `removeMember`.
- Pages: an update whose append started before a snapshot's transaction but was
  not in the encoded document is acked and read by no later load
  (`versions.ts:59`, `page-version.service.ts:32`, `compaction.ts:38`); a manual
  save that overlaps a compaction becomes the latest version without its content;
  a restore is undone by the next autosave of an open session (the header of
  `page-version.service.ts` says so in part); log rows older than a manual
  version are never pruned; disallowed content folded into a manual save is
  stripped only after a further edit.
- Automation: * `enqueueWebhookDelivery` restarts the causation depth at zero
  (`webhook.service.ts:77`), so a cycle of two rules through `call_webhook` passes
  the cap that "stops the TWO-RULE mutual cycle" (`loop-protection.ts:119`).
  What is left is the hourly budget, which at the default poll of 2 s ends the
  cycle until the next hour, and at slower polls is never reached.
- Billing: * "a row already moved on by something else simply matches zero rows"
  (`sweep.service.ts:20`): one that moved on and came back matches, and a new
  grace period is ended for the deadline of an old one (`sweep.service.ts:209`).
  The sweep calls `applyPendingPlanChange` only for orgs whose trial
  expired, so a parked downgrade is never applied (`org-billing.service.ts:555`
  against `sweep.ts:92`); "every transition is conditional" leaves out activation
  and cancellation, and a reconcile writes unconditionally; two deliveries of one
  event both pass the replay check; an ended subscription stays on the row;
  `expireGracePeriod` and `resolve.ts:180` disagree on whether canceled is
  terminal; the usage close claims a period before charging it
  (`overage.service.ts:216`), so a death in between leaves it uncharged; a
  second checkout opened beside a first one can buy two subscriptions.
- Telephony: * "it only ever moves a row forward" (`call.service.ts:258`): a
  late `ringing` reopens a call that is over. * What `releaseUnplacedCall`
  settles at nothing is "a call the carrier never accepted"
  (`call.service.ts:391`), but a placement that only timed out is settled so
  too, and the call happens. * The version check of a recording's claim
  (`recording-ingest.ts:148`) keeps two claims from crossing, not a second claim
  after the first: two sweeps fetch the recording, and the slower failure
  overwrites `stored`. * A death in the last attempt leaves a recording pending
  for good, "a silent drop" (`recording-ingest.ts:47`). A callback before the
  carrier's id is attached is dropped and its nonce kept; a death between
  sending a text and recording it leaves it unbooked; the gate estimates one
  segment and the ledger books all; two overlapping actions can miss the warning
  at 80%; nothing asks the carrier to report an announcement, so a recording
  that needs one is always refused; `reconcileSpend` and the pruning of nonces
  have no caller; incoming calls get no status callback and stay `ringing`.
- Boards: moves ignore that the target list is archived; a drop beside archived
  cards may share a rank; a drop between neighbours that are out of order by now
  fails although "rebalancing fixes it" (`card.service.ts:852`); * so does a
  drag whose neighbours stand, when it repairs its list, another request repairs
  another one, and each wants a card the other has rewritten: Postgres aborts
  one and nothing retries it. * A repair writes by card id the rows it read: a
  card that left the list meanwhile gets a rank of the list it left, and changes
  its place in the one it is in, although a repair "must preserve what the user
  arranged" (`rebalance.ts:51`). `listNeedsRebalance` has no caller; lists and
  pages use the same ranks without repair.
- Identity (read, not modelled): losing a refresh race returns `tokenReused`
  without revoking; rotation is not conditional on the session's revocation.
- Gateway (read, not modelled): a join in flight during a revocation sweep stays
  subscribed; a leave may be overtaken by the join before it.

## Proofs

TLAPS proves the following for every value of the constants that the
assumptions in the modules allow (sets of any size, any batch, cap and bound).
The assumptions say only what the code fixes: events are numbered in claim
order, an instance serves one consumer, amounts and bounds are naturals, and
what is counted, summed or sorted is finite (instances, workers, users, calls,
cards). Every safety invariant and action property of the passing runs is proved,
two of `BoardOrder` under a condition named there. One assumption is a
convention the code does not enforce: `BillingAssumption` has the default plan
not for sale (`Default \notin Paid`), and `setDefaultPlan` takes any plan that
is not archived.

- `RelayProofs`, the relays: types; `RowLockExclusion` (a lock is taken only if no
  other instance has it); `NothingMarkedUnsent`, for which the invariant adds
  that whatever is in `delivered` was sent; and that with one instance per
  consumer a second send needs a lost transaction (`RedeliveryOnlyByCrash`).
  `SendsBounded` needs a bound on sends to come: `SendsLeft` gives a marked event
  as many as there are instances that still have it in a snapshot or in hand
  (`MaySend`), and an unmarked one the send of one open transaction.
- `AuditProjectionProofs`: the invariant `IInv` joins row exclusion, `BatchHeld`
  (the drafts are the audited part of the batch already passed, and not yet
  recorded), `HeadsExclusive` (one holder per chain head), `DraftsDense` (the
  drafts continue the committed chain up to `tip`) and `InOrder` (what is drafted
  comes before what is left). `RecordedIffDispatched` and `ChainIntact` are not
  inductive without them: a commit publishes drafts, so their shape must be known
  before. `WaitsClimb` follows from `InOrder` and the sort; the refinement of
  `AuditLog` and `AppendOnly` follow step by step.
- `RelayProofs`, the automation engine: `DrainInv` is types, row exclusion and what
  a worker holds (`InHand`). `ChainsCapped` adds "a run belongs to a row below the
  cap" (`CauseIsBelowCap`), which lets `depth + 1` stay within the cap, and
  `DepthIsDistance`: the depth an event carries is at least its distance from the
  last action that dropped it. Nothing is supposed of the services: if all of them
  copied the depth, `restarts` would be zero and the cap that the code speaks of
  would hold. For `RunsBounded` the invariant counts, for a rule and an event, the
  runs there were with those that workers may still begin from what they hold or
  have in an old snapshot (`MayRun`, `RunsLeft`): a mark leaves only the latter,
  and a lost drain raises the bound by one.
- `WebhookDeliveryProofs`: `AttemptsAreMadeOnce` from the tokens of the
  compare-and-set: holders of one row have different ones (`OneHolder`), and
  sends plus claims not yet requested never exceed the attempts (`SendsClaimed`).
  `ChargedOnce` counts the charges that are still owed: a worker that overwrites
  another's count is within the bound because both are among the workers about to
  charge (`ChargesOwed`), one for each exhausted delivery (`ExhaustedOnce`).
  `NoEarlyDeath` needs to know why a worker gave up (`RefusedMarked`).
- `DocsPageProofs`: `LossIsOverlap`. The invariant says that transaction starts
  are in the past and an update shares its with no version (`Stamps`,
  `Distinct`), that a row leaves the log only behind a version that started
  later (`Log`), and that every version that started after an unexposed update
  holds it (`Covered`). `Memory` and `Saves` carry that through the live
  document and the draft of a save, `History` ties `exposed` to the present
  state, `Quiet` says that an unloaded page has no message under way. A load then
  either finds the update in the snapshot or finds its row past the boundary,
  which truncation only moves earlier. `SaveIsFaithful` needs two facts more: no
  two writers start at one time, so there is one latest version (`OneStart`), and
  while no version is committed what the page holds past it only grows
  (`SinceGrows`), though rows are pruned. `AutosavesGrow` is carried by `Grown`:
  without requests the live document and the draft hold every version.
- `RtcCallProofs`: all five properties of the run, in one invariant. The counters
  are cardinalities of the rows (`CountersCount`). What a request has read may be
  stale by its commit, so the invariant says which part of it cannot be: a call
  that rings was never anything else (`RingingWasRead`), an uncommitted decline
  holds an invitation, each row locked once (`DeclinesHoldRows`), and while no
  declines crossed, the one that counted is still right (`CountIsTrue`).
  `RingingHasInvitee` follows from the last at the commit.
- `TelephonyProofs`, calls: types, the four invariants and `StoredIsKept`. The first
  part is about sums over the ledger: what one more row adds, and that more rows
  sum to no less, shown by a least counterexample since induction over sets is
  out of reach. `OverspendIsOverlap` is not inductive: a call past the gate is
  bounded by what it read (`GateRead`), and only what is booked by now can have
  gone beyond (`BookedBeyond`). `LedgerFollowsCarrier` needs where request, ledger
  and carrier stand together (`RequestFollows`); `RowFollowsCarrier` that the
  callbacks sent end in the carrier's status (`CarrierReports`) and that a row
  shows the latest one applied (`RowFollowsCallbacks`); `StoredIsKept` that a
  sweep never holds a stored recording, but for shared ones (`OneSweep`).
- `TelephonyProofs`, texts: `OverspendIsOverlap` again, of the other
  specification: a text is booked only after the carrier took it, so what the
  gate read must hold on past that (`TextsWereAllowed`). `ThreadFollowsCarrier`
  needs how far request, row, ledger and carrier are with each other
  (`SendFollows`), that callbacks lead up to the carrier's status
  (`ReportsFollow`) and a row shows the latest of them (`RowShowsLatest`).
  `OptOutStands` follows from `LastWordCounts`: unless an older keyword was
  applied late, the list shows the latest stored. `UnreadNeedsOverlap` is not
  inductive, since the count is read one transaction before it is written:
  `CountIsCurrent` says of that reading what it will be worth.
- `OrgBillingProofs`: the theorems hold for any number of owners' tabs,
  delivery processes, subscriptions and events. `NothingIsInvented` speaks of the
  row, but a row is written from an event or from what a request read earlier, so
  `IInv` says of each of them what the row needs: events are of subscriptions
  somebody paid for and name plans that were sold (`EventsAreFounded`), live
  subscriptions are of plans that were sold (`SalesAreBought`), requests past the
  processor hold such a plan or subscription (`CallsAreFounded`), and a parked
  change has its plan (`RowIsFounded`). All of it survives any step under which
  sales only grow (`Growing`). `RowIsCoherent` (grace exactly while past due, no
  trial with a subscription) gives `PurchaseIsKept`: the sweep's `expireTrial`
  cannot meet a subscribed org. `TickIsCoherent` (past the scan, a deadline not
  reached was set after it) gives `GraceIsHonoured`. `GraceIffPastDue` is proved
  and is in no run. `AgreesWithProcessor` relates the row to events to the
  processor: the events tell its state (`EventsTell`: a cancellation is the last
  event of its subscription, a failure that is the last event of all still
  stands), and the row has taken the events so far (`AppliedInOrder`: past due
  only if the last one applied was a failure, canceled while it tracks a
  subscription whose end was applied, and no reconcile can put one back).
- `BoardOrderProofs`: the longest of the modules, since what is proved about a
  board rests on what the arithmetic of ranks gives. A rank is an integer and a
  fraction (`Split`, `Join`); strings compare by the first place where they
  differ (`IntegersDecide`, `TailsDecide`); `Increment` and `Decrement` say what
  carry and borrow do, `MidpointIs` that the fraction found lies strictly
  between, and `BetweenIs` puts that together: `between` throws exactly if its
  neighbours are out of order, and else what it returns is a rank strictly
  between them. The recursion of `rankSequence` is a recursive function, of
  which `RankSequenceIs` shows by a least counterexample that it rises.
  `InOrderIs`, `OnlyOneOrder` and `SplicedIsListed` are about sorting cards:
  there is one order of a set of cards, and a card that fits between two
  neighbours of it can be put there. The invariant is `Shapes` (types, and that
  uncommitted ranks are ranks of cards that exist) and `Fresh`: a request that
  nobody overtook was made on the board as it is now, so its neighbours are
  still side by side (`DropStands`), the rows it read are the list in order, and
  the ranks it has rewritten so far are those of the front of that list (`Rows`,
  `Rewritten`). A fresh request therefore finds room at the latest in the
  rewritten list (`PlaceFinds`); what is left is the abort. A request in a
  circle is waited for, so it holds rows. No row is held twice (`Apart`), and a
  fresh repair that holds any row holds the first of its list (`HoldsFirst`), so
  two fresh repairs of one list cannot both hold some: that is
  `OnlyCrossingRepairsFail`. What a fresh request commits splices its card in
  (`Put`), which is `LandsWhereDropped`; that the fit is strict (`PutIsStrict`)
  gives `TiesNeedOverlap`. The last two suppose `[]AboveBottom`: no card has the
  rank `SMALLEST_INTEGER`. Without that they are false, because `beforeRank` of
  it appends a fraction and so returns a rank above, not "below `after`"
  (`rank.ts`). The code meets such a rank after roughly 62^27 drops (its own
  comment's figure) to the front of a list, so the condition is about any board
  there is; it is stated rather than proved since the count of drops would need
  the value of a rank as a number.

Only model-checked: the liveness properties (`EventuallyDispatched`,
`EventuallyRecorded`, `EventuallySettled`, `EventuallyDisabled`, `Drains`,
`DeadlinesAreMet`). `Drains` speaks of rules no cycle of which goes through an
action that drops the depth (`RestartsEnd`). Liveness under fairness and ENABLED
are outside what the prover handles. Induction over data is too, as a scheme:
where a proof needs it (sums of a ledger, first places of difference,
`rankSequence`) it argues by a least counterexample among the naturals. No
module here declares a RECURSIVE operator.

Trying to prove corrected the models twice. A decline counted and committed in
one step in `RtcCall`, where the code lets others act in between. And
`OverspendIsOverlap` took every grown sum for an excuse: an action counts as
overtaken now only if the sum that bounds it grew past its reading, and an
underestimate excuses a missed warning only if that action was booked.

## Not modelled

Identity, tenancy, the realtime gateway and the rest of the table above are
listed in PROJECT.json with the reason. Most of the repository by size is web and
mobile screens, fixtures and single-transaction edits behind row-level security,
in which there is nothing for a state machine to say. In the modelled parts:
the payload and filter of an event, hashes and signatures, the address checks of
a webhook request (a request may fail), the upload of call recordings and TURN
credentials, invoices, mails and usage periods, incoming calls, menus and number
purchase, velocity limits and destinations of the gate, the order of lists and
pages, what an action changes besides its events, Yjs encoding, and access
control in front of each operation.

## Plan

1. Done: the outbox and its consumers, webhooks, calls, automation, page
   content, an org's billing state, outbound calls and texts, the order of a
   board.
2. Done: the theorems above, for every invariant and action property of the
   passing runs. Proofs next: a bound on the drops that keeps every card
   `AboveBottom`, and `AgreesWithProcessor` restated as a refinement.
3. Then, as modules: `RoomAccess` (subscription against revocation in the
   gateway), `RefreshFamily` (rotation, reuse, revocation), and usage periods
   ("a claimed period is in the end charged" against the window at
   `overage.service.ts:216`, the hazard no property covers).
