# A TLA+ model of the procurement workflow assistant

The repository holds two programs. The **backend** (`backend/app`, FastAPI on
MySQL and Redis) owns purchase requests and everything that happens to them. The
**agent** (`src/procurement_platform`) talks to people through Feishu: it turns
messages, cards and a language model's tool calls into calls of the backend, and
delivers the backend's notifications. Paths below are relative to the root of
the repository.

## 1. Inventory

### Components, their state and operations

| component | state | operations |
|---|---|---|
| procurement workflow (`services/procurement.py`, `services/workflow.py`, `services/fulfillment.py`) | one request: status, handler, version, legacy header; its items, review rounds and lines, executions, receipts, operation log | 17 handlers, from `create_draft` to `complete`: item replacement, header saves, submit and resubmit, review saves, reject, approve, start, purchase saves (per item and the single-item bridge), hand-over to the warehouse, receipts (per item and bridge), completion |
| database transactions (`db/session.py`, `api/dependencies.py`) | read view of each open call | open with the first SELECT, compare-and-swap, commit, roll back |
| notification outbox and dispatcher (`services/notifications.py`, `workers/notifications.py`, `integrations/notification_sender.py`) | outbox rows: status, retries, next retry; rows locked and results staged by a running batch | claim a batch, dispatch one, send, give up waiting, commit, resend |
| notification gateway (`application/notifications`, `adapters/persistence/redis_stores.py`) | delivery record per dedup key | `deliver`: try_start, render, send, mark |
| agent sessions (`services/agent_sessions.py`) | conversations, messages and snapshots in MySQL, working state in Redis | get or create, append message, read and write state, bind a request, end |
| suppliers and blacklist (`services/suppliers.py`) | suppliers, blacklist entries | blacklist, lift, list |
| recommendations (`services/recommendation/`) | none | candidate building, scoring, deduplication, fallback |
| identity and signing (`core/gateway_auth.py`, `services/identity.py`) | used nonces | verify a signed identity once |
| assets and records | none written at run time | queries |
| Feishu webhook and inbound handlers (`interfaces/http/feishu_webhook.py`, `application/inbound`) | dedup record per event, the running calls | try_start, handle under the user's lock, reply, mark completed or failed |
| conversation locks (`adapters/persistence`) | table of locks in the process, or a lease in Redis | acquire, wait, release; claim, release, expiry |
| assistant service and runtime (`application/assistant`) | the turn being run; its state lives in agent sessions | append, run tools up to a budget, answer, save state |
| agents, capabilities and tools (`application/assistant/tooling`, `capabilities`) | none; they read and write the session and the requests | search, recommend, draft, fill in a price, a review, a receipt |
| fault guidance (`application/fault_guidance`) | fault state in Redis: asset, candidates | ask, validate, propose, create a draft in three backend calls |
| role card workflows (`application/applicant`, `building_manager`, `purchaser`, `warehouse`) | what a card carries: version, token, chosen employee | per button a read, at most one change, and a second look |
| backend client (`adapters/backend/http_client.py`, `mapper.py`) | none | transport, signing, mapping |
| fake backend (`adapters/backend/fake_client.py`) | an in-memory requirement, its result caches, conversations | the methods of the client, without HTTP |

`PROJECT.json` lists them with their files, and the parts that are not the
program's own logic: migrations, scripts, the demo frontend, the Feishu and
language-model adapters, the knowledge files.

### How they interact

    Feishu -> webhook -> event dedup -> inbound handlers -> conversation lock
                                             |                    |
                                       card workflows      assistant turn, tools
                                             \                    /
                                              backend client (HTTP, signed)
                                                      |
     backend: get_current_user -> handler -> one transaction on one request
                                                      |   (same transaction)
                                            notification_outbox row
                                                      |
     worker: claim rows -> HTTP -> agent's gateway -> Redis record -> Feishu

A call of the backend is one MySQL transaction under REPEATABLE READ. Its first
SELECT authenticates the caller and fixes the read view, so everything a handler
checks later is as old as that SELECT; only the final
`UPDATE ... WHERE version = ? AND status IN (...)` looks at the current row. The
outbox row of a hand-over is written in the same transaction. A dispatch
transaction holds its rows locked through one HTTP call per row; the gateway's
call outlives it when it stops waiting.

### What is hard here, and what correctness means

* *Concurrent calls on one request.* Items, reviews, executions and receipts are
  tables of their own, checked in an old view. Correct means: as if the calls ran
  one at a time, the approved scope stays as approved, receipts stay within the
  purchase.
* *Long legal call sequences.* Rejection rounds, edits during the review,
  per-item endpoints mixed with the single-item bridges. Correct means: the
  rounds tell the status, a request that completed got what it asked for, each
  step was by the person the request was with, and the outbox says of every
  hand-over and completion what the code means to announce (a rejection it does
  not announce, against the documents: `RejectionIsAnnounced`).
* *Crashes, timeouts and lost answers of the delivery.* Correct means: no two
  sends at once, nothing booked as sent that nobody got, duplicates only when the
  gateway could not know, nothing left in the queue.
* *Messages that are delivered again.* Feishu repeats an event whose answer is late
  or an error; the dedup record may be lost, expire, or say failed of a call that
  had done all its work; locks have leases. Correct means: one call per event, one
  turn of the assistant per message, nothing closed of which the user heard nothing,
  a user's turns one after the other.
* *State in two stores.* The working state of a conversation in Redis with a copy
  in MySQL, written by one call of which only one half rolls back. Correct means:
  what MySQL has can be restored, and what is completed stays closed.
* *Old cards.* A card stays in the chat, its button is pressed later, twice, or
  beside another press. Correct means: a press acts on what its card showed, what
  is announced happened, the confirmations of an approval, of a hand-over to the
  warehouse and of a completion, and the button that starts a purchase, are
  honoured, and somebody always has a button that leads on. The confirmations of a
  submission and of a rejection are prepared without these checks and promise
  nothing (`EveryConfirmationIsHonoured`).
* *A model that decides.* The language model chooses tools and arguments, and may
  try again after an error. Correct means: the program's limits hold whatever it
  chooses: one request per turn, nothing ordered that was not proposed, nothing
  proposed lost when a hand-over fails half-way.
* *Blacklists beside purchases.* Both are checked in old views. Correct means: a
  blacklist has grounds, is lifted once, and displaces no other supplier from the
  candidates of a recommendation. A recommendation is a snapshot: no
  rule of the code protects the time between it and the purchase.

`PROJECT.json` "hazards" lists each of these at its line with the properties that
watch it, and the hazards still without one.

## 2. Plan

Built in this order, the most important behaviour first.

| module | what | state |
|---|---|---|
| `ProcurementWorkflow` | one request, every handler | done |
| `ProcurementTransactions` | the same handlers with stale views; implements `ProcurementWorkflow` | done |
| `NotificationDelivery` | outbox to Feishu with faults; implements `NotificationPromise` | done |
| `ConversationLock` | the operations of the in-process lock table and of the Redis lease | done |
| `InboundEvents` | webhook retries, dedup record, a turn under the lock, its failures; extends `ConversationLock` | done |
| `CardWorkflow` | the cards of all roles over `ProcurementWorkflow` (extends it) | done |
| `RequirementFlow` | what any backend promises the agent of one requirement; implemented by `ProcurementWorkflow` and by `FakeBackend` | done |
| `FakeBackend` | the in-memory backend of the tests | done |
| `AgentSessions` | conversations and state over MySQL and Redis | done |
| `Suppliers` | suppliers and blacklists beside purchases | done |
| `Recommendation` | what is recommended from the rows of `Suppliers` (extends it) | done |
| `AssistantTurn` | turns of the assistant: fault guidance, tool loop, session | done |

Abstract specifications: `NotificationPromise`, implemented by
`NotificationDelivery`; `ProcurementWorkflow`, implemented by
`ProcurementTransactions`; `RequirementFlow`.

Theorems (section 5): every invariant and every action property that a run checks is
proved. Still worth proving: that receipts in the fake backend stay within its
executions, and that `LegacySuppliers` orders by how often a supplier was used.

## 3. The modules

### ProcurementWorkflow

`db` is one record with the rows of one request. Every public method of
`ProcurementService` that writes is one action with the method's name in
CamelCase (`save_review_items` is `SaveReviewItems`); the private helpers are
operators (`_get_or_create_review` is `WithActiveReview`, `_ensure_review_snapshots`
is `EnsureSnapshots`, `WorkflowService.transition` is `CanTransition` and
`Transitioned`). An action takes the view `v` it reads and writes `db`; here they
are the same. A handler that raises rolls back, so every error path is a guard.

What is abstracted, and why it is enough:

* Text is a model value; of names only "blank" matters. Of the proposed supplier a
  review keeps whether it is `named` and whether it is `linked`
  (`proposed_supplier_id`); which supplier it is, prices, tax and contact snapshots
  are left out. A total is represented by the quantity it
  was computed from, which is exactly what can be stale in it.
* An inactive item is absent: only its reactivation reads it, and that overwrites
  all of its columns.
* Roles, building membership, identities and Feishu reachability are constants.
* Action tokens are numbered by the log entry that uses them; a client may send a
  fresh one or any used one. The bridge derives its token from the version, so
  its tokens are kept apart by a flag. Tokens are tested both in the view and in
  the current rows (the UNIQUE constraint).
* A request has its own operation log. In the code tokens are unique across
  requests; a token of another request only makes a call fail.

The proposed supplier is the one column group that two people write. The manager
names it (`SaveReviewFields` with a `SupplierProposal`: a name that is sent takes
an id sent with it away, as the code resets the id whenever the payload has a
name). A purchase without a `supplier_id` (`byName`) takes the supplier that the
latest review names, fails if it names none, and writes its id on that review,
which is approved by then (`WithSupplier`). A purchase that names its supplier
leaves the reviews alone; whether that supplier exists and may be bought from is in
`Suppliers`.

`Next` lets any employee call any handler with any payload. The version is capped
by `MaxVersion`, inside the guard of the compare-and-swap.

Properties: `ReviewRoundsMatchStatus`, `PurchasesMatchItems`,
`ReceiptsWithinPurchase`, `CompletionIsFulfilled`, `HandlerFitsStatus`,
`LogIsCustodyChain`, `OutboxMatchesLog` (invariants), `DecidedReviewsImmutable`,
`ApprovedScopeFrozen` (of every step). Each is preceded by what it says. The last
two name their one exception, `SupplierFilledIn`: the `proposed_supplier_id` of the
latest review, written by a purchase. `OutboxMatchesLog` is an equality: the outbox
is what `Announced` computes from the log, completion receivers included, and
nothing for a rejection.

Definitions whose comment starts with "A bug" (or "Two bugs") are not part of the
model: each is a plausible mistake in the definition that follows it, and TLC
finds the property named with it in `PROJECT.json` violated when it is put in
place.

### ProcurementTransactions

Adds `view`, the read view of each open transaction: `Begin` takes it, `Commit`
runs one handler of `ProcurementWorkflow` on it, `Rollback` drops it. The UPDATE
takes the row lock and the transaction commits before anyone else passes its own
compare-and-swap, so the writes of a handler are one step. `append_receipt` reads
one row FOR UPDATE, that is from `db`, and the sum of its receipts from the view:
the lock alone would not protect the sum, the version does.

`VersionGuardsView` is the reason the design works: every write to any row of the
request advances the version, so a view with the current version is the current
rows. `SerialisedWorkflow` is the specification of `ProcurementWorkflow` checked
as a property of the concurrent one.

### NotificationDelivery and NotificationPromise

`outbox` are the committed rows, `claimed` and `staged` the open dispatch
transactions, `call` the running `deliver` calls of the gateway, `record` the
Redis delivery records. `accepted` counts the messages the channel has taken and
`lost` how often the gateway could not know it (history variables).
`Claim`/`Send`/`Timeout`/`Commit` are `dispatch_due` and the sender,
`DispatchOne` and `Resend` the administrator's endpoints, `TryStart`/`Channel`/
`Mark` the steps of `deliver` between its awaits. Faults: `SendFails`, `Timeout`,
`WorkerCrash`, `ChannelTimeout`, `StoreFails` (with or without effect),
`GatewayCrash`, `Expire`.

`next_retry_at` is only before or after now; `Expire` is the record's lifetime
(days) ending and never happens during a delivery (seconds).

`NotificationPromise` says what the people concerned may rely on: queued, then
sent only after the channel took a message, or given up and then queued again
only by an administrator. `KeepsPromise` checks it with `outcome` and `told`
computed from `outbox` and `accepted`. It speaks of all notifications in one
step, because a batch commits many rows at once.

*Fairness.* A dispatcher is run again and again and finishes its batch (`Claim`,
`Send`, `Commit`), a call that reached the gateway goes on by itself (`Deliver`),
time passes (`RetryTimeArrives`). Weak fairness is enough: none of these is
disabled for ever by another. Nothing is assumed of faults, of administrators or
of the channel, which may refuse every time: a notification settles as sent or
as given up.

### ConversationLock and InboundEvents

One user and one conversation: users share no lock key and no rows, and the agent
never ends a conversation. `ConversationLock` has the operations of both managers,
each everything up to the next point where the coroutine can be suspended.
`table`, `holder` and `queue` are `LocalConversationLockManager._locks` and the
asyncio locks: `LocalAcquire` takes a free lock at once, `LocalWait` joins its
waiters, `LocalWake` is the woken waiter running, `LocalRelease` the release with
the removal from the table. `lease` is the Redis key, `Stray` an owner that will
never release (its process died, or it was told that the call failed). `Locks`
bounds the lock objects alive at once; an object is only used while a call holds
or awaits it, so as many objects as calls never bind.

`InboundEvents` makes these steps for webhook calls. `call[c].at` is the point
between two awaits at which a call stands: `Deliver` is `try_start` with its two
positive answers (the other two answer "accepted" and change nothing),
`EnterLocal`/`EnterRedis`/`GiveUpLease` the lock, `Open` the beginning of
`AssistantService.handle` up to the append of the message and the replay of a
duplicate, `Run` the rest of the turn, `StoreAnswer` the row of the answer,
`Reply` the channel, `Leave` the release, `MarkCompleted`/`MarkFailed` the record.
`settings` picks the two stores at start. Failures: `Raise` is an exception of any
awaited call, with or without its effect; `LeaseRaises`, `MarkRaises` and
`StartRaises` the same for Redis; `LeaseEnds`, `Expire` and `Crash` time and
processes. A crash with the memory store or the local lock takes all calls, since
these need a single process. `MaxFaults` bounds the failures together.

What is abstracted: which branch the turn takes (an answer with a row, an answer
without one, `AssistantError`); the streaming card, whose failure the code
swallows or replaces by a plain reply; an effect that arrives after its exception
was seen is taken to arrive with it. `Open` is one step although it awaits the
append and the lookup: by `OneCallPerEvent` nobody else writes the rows of its
message. A dedup record does not expire under a running call: its lifetime is a
day, a call lasts minutes. `turns`, `told` and `lapsed` are history variables.

*Fairness.* A call that was started goes on by itself: `WF_vars(Step(c))` for each
call, which the event loop gives. Nothing is assumed of redeliveries or faults.
`CallsEnd` needs no more, although calls contend for the lock: a waiter's turn
comes because asyncio wakes waiters in order, and a call that polls the lease
gives up.

### RequirementFlow

The promise behind `ports/backend_client.py`: status, version and handler of one
requirement, with the edges of `RequirementStatus`. `Save` keeps status and
handler, `Move` takes an edge and leaves somebody to act. `KeepsFlow` is checked
in `ProcurementWorkflow` and in `FakeBackend` with their own state substituted.
`Closed` differs: the backend accepts nothing after COMPLETED, the fake still
accepts saves.

### CardWorkflow

Extends `ProcurementWorkflow` with the buttons on cards in the chats (`buttons`)
and the running presses (`press`). A button is a record of what it carries: the
action, the user, the detail it was built from (`seen`, for its version), the
employee chosen, the token. `ApplicantDetail`, `ManagerDetail`, `PurchaserDetail`
and `WarehouseDetail` are the cards as sets of buttons, the `...Confirmation`
operators the second cards, and `ApplicantPrepares` to `WarehousePrepares` the
checks of the `prepare_...` methods.

`Open` shows the detail card, `Prepare` is a press that only reads and shows the
next card. A press that changes the request is `Start` (with the first read, where
the code reads first), then `Change` (the backend takes the call), `Conflict` (it
refuses) or `Fail` (no answer, with or without effect), then `Answer` (the second
look and the card shown). `RefusalIsHandled` says which refusals are answered with
a fresh card and `IsDone` when a duplicate or a conflict counts as success
(`_transition_after_retry`, `_transition_after_duplicate`).

Whatever other clients of the backend do is what other presses do: all changes go
through the handlers of `ProcurementWorkflow`. Candidates never change, since role
bindings are constants.

### FakeBackend

One action per method of `FakeBackendClient` that changes something, with the
version the caller sends as a parameter. `detail` is the stored requirement with
the fields the fake sets by hand: `complete` is `fields_complete`, `allowed` is
`allowed_actions`, `form`, `review`, `purchase` and `warehouse` the groups of
fields abstracted to whether they are filled. `_action_results` and
`_completion_results` are the sets of tokens answered from the cache. The session
methods stand beside them: `get_or_create_agent_conversation`, messages, state,
snapshot, completion. No property speaks of that half: it has its type, and what
there is to get wrong in sessions (two stores, concurrency, rollback) the fake does
not have; `AgentSessions` has it.

### AgentSessions

`rows` are the committed rows, `redis` the working state, `call` the running
calls with the read view each opened. Every route is a chain of actions between
its awaits (`LockEmployee`, `Insert`, `CommitInsert` for `get_or_create_active`
and so on). `FOR UPDATE` reads the rows of now and is held to the end of the call;
plain reads see the view. `Fail` is an error or a crash at any point: MySQL
forgets, Redis does not. `Expire` is the TTL of a state.

### Suppliers and Recommendation

`Suppliers` has `create`, `create_blacklist`, `release_blacklist` and
`save_purchase_item`, each in two steps: `Begin...` opens the view and decides
what plain reads decide, the second step does what meets the rows of now
(`FOR UPDATE`, UNIQUE, the version). `EndAtPasses` is time. `Recommendation` are
functions of the rows: `SupplierCandidates`, `Pool`, `StopLevel` and
`ChosenSuppliers` for the widening search, `Score` and `TieBreak` for the ranker,
`RecommendedProducts`, and `LegacySuppliers` for the older endpoint. Scores are
integers that order as the decimals do. `AskedFor` are the products for which the
suppliers of a line can be asked: any of its category, as specific or generic as the
client selects it.

`BlacklistExcludesOneSupplier` compares what a call would be recommended before and
after a blacklist is registered. It is not evident, since blacklisted candidates keep
their place in the pool while the widening counts only those that are left: a new
blacklist can make the match wider, never narrower, and the pool of a narrower
match is part of the wider one's. It speaks of the candidates that are ranked: those
that widening brings in may rank before them and fill a short list. Nor does it say
that every eligible supplier is found: one of a lower match stays out while
blacklisted ones fill the pool.

### AssistantTurn

The turns of one employee's conversation, one after another. `session` is the
state in the backend (active request, items of the draft, collected price),
`fault` the fault state in Redis, `drafts` and `orders` the requests, `turn` the
local variables of the turn that is running. `BeginTurn` is
`AssistantService.handle` up to its dispatch. `ResolveAsset`, `Decide`,
`CreateFaultDraft`, `FillFaultDraft`, `DeleteFault`, `ReplyToFault` and
`RememberFaultDraft` are `FaultGuidanceService.handle_message`. The rest are the
tools of `AssistantRuntime.run`: `MayCall` is the budget, the role policy and the
limit of one mutating call; each mutating tool is its calls in order, with
`FailTurn` possible between any two. `RefuseCall` is a tool that refused before it
changed anything. `MustLookUp` is the grounding policy. Beside a turn the user
works on cards (`CardEdits`, `CardSubmits`, `CardPrices`) and both states may
expire. The model's decisions and arguments are free choices.


## 4. The runs

| run | instance | what it shows |
|---|---|---|
| `workflow_one_item` | 1 item, quantities 1 and 2, 4 employees with shared roles, 8 writes | the invariants of the request, over rejection rounds, self-review by a manager who applies, an ADMIN outside Feishu, partial receipts; and that the backend keeps `RequirementFlow` |
| `workflow_two_items` | 2 items, quantity 1, 4 employees, 11 writes | items that differ in warehouse need and progress |
| `concurrent_transactions` | 1 item, 2 open transactions, 7 writes | stale views: serialisability, the version guards every row, the approved scope is frozen |
| `notification_delivery` | 2 rows, 2 dispatchers, 2 calls, batch 2, 2 retries, 2 faults, 1 resend | delivery under faults, and that every row settles |
| `inbound_events` | 2 messages, 2 calls, both stores, both locks, 2 faults | redelivered messages: exclusive events, one turn per message, nothing closed untold, the lease keeps turns apart, every call ends |
| `card_workflow` | 1 item, 4 employees, 2 presses at once, 1 old button, up to version 9 | cards over the whole workflow with conflicts, failures and lost answers |
| `fake_backend` | 1 item, quantities 1 and 2, 3 users, 1 conversation, up to version 10 | the fake keeps `RequirementFlow`, and accepts what it lists as allowed |
| `agent_sessions` | 1 user, 1 conversation, 2 calls at once, 1 request | rollbacks after Redis was written, a state lost at any time |
| `recommendation` | 4 requests with 5 lines, 4 suppliers, 1 blacklist, 2 calls at once, pool of 3, target of 2 | blacklists beside purchases, what is recommended in every state they leave, and what a new blacklist changes in it |
| `assistant_turn` | 2 drafts, 1 order, 2 kinds of items, 2 assets, 1 price, every role, 2 calls a turn | the limits of a turn whatever the model decides and wherever it fails |
| `changed_after_rejection` | 2 items, one request rejected in its first round | finding 1 |
| `price_of_another_order` | 2 orders, 1 draft | finding 2 |

*Bounds.* A request reaches COMPLETED through the warehouse in 8 writes (items,
submit, approve, start, purchase, hand-over, receipt, complete) and without it in
6, which leaves room in the same bound for a rejection and a resubmission; a
second item costs two more writes, a purchase and a receipt.
Two quantities are enough to tell a short, a full and an excessive receipt; two
employees for a role, or one with two roles, to tell the handler from a colleague.
`concurrent_transactions` stops at 7 writes: it reaches the purchase and the
warehouse, and the theorems of section 5 cover every longer run. Two calls of the
gateway are enough for a timed-out call to meet its retry, two faults for a crash
followed by a lost answer. By `OneCallPerEvent` more calls than messages would
stay idle in `inbound_events`; two faults are a lost mark followed by a crash, or
a lapsed lease followed by a failure of either turn.

`card_workflow` begins with three requests that share the version bound (a draft
saved a few times, one just approved that needs no warehouse, one being purchased
for the warehouse), because a request needs nine versions and two presses for
each: together they cover every stage. One old button beside the card just
shown is enough to meet a newer version; two presses meet each other between the
read and the change. `fake_backend` leaves room for a rejection and the whole
course. One conversation is enough for `agent_sessions`, whose properties speak
of one; with two, `OneActivePerAction` fails (below). `recommendation` starts when
three lines have been bought, from three suppliers, and one of their requests is
completed, so that a blacklist can be registered; the fourth supplier comes by name
or by `create`. The terms of five lines make a dearer, a slower and a
better-matching supplier; prices and ages are fixed because purchases decide which
lines count. Four candidates exceed the pool of three, and the target of two is met
at different levels. One blacklist can be registered, so a supplier has at most
one; the theorem has no such bound. In `assistant_turn`
two drafts and two calls are the least with which a turn could write two
requests; longer turns repeat the same steps with fresh locals. It has one order,
as no property of that run compares two; `price_of_another_order` has two.

`CHECK_DEADLOCK FALSE` stands where the system may stop: a completed request, a
request at its version bound, a settled outbox, an inbox whose messages are all
answered, conversations and blacklists at their bounds. Symmetry is used for
items, transactions, presses and calls, which no property tells apart; no run
with a liveness property uses it.

### Findings

1. `ResubmittedRequestCanBeApproved`: the manager's card compares the items of all
   review rounds with the active items. After a rejection the applicant removes or
   replaces an item and submits again: the old round still names it, and the
   manager is never offered the approval. With one item it does not occur, which is
   why `AdvanceIsOffered` speaks of requests of one item.
2. `PriceIsItsOwn`: the price collected for one order stays in the session when
   another becomes active, and the next update of that one without a price saves
   it there.

`PROJECT.json` quotes the documents they contradict.

These are stated in the modules too and are false of the code; each was found
violated by TLC on the instance of its module (with three messages, two
conversations or two blacklists where the list says so). They are in no run.

* `RejectionIsAnnounced`: `CODEX_PROJECT_SPEC.md:837` says that a rejection writes
  an outbox row and that the applicant is notified; `reject` returns without one,
  so the applicant learns of it only by looking.
* `EveryConfirmationIsHonoured`: the confirmation of a submission
  (`confirm_handler` of the applicant) and of a rejection (`prepare_reject` of the
  manager) is prepared without a look at status and handler. An old selection or an
  old detail then leads to a card whose step the backend refuses.
* `EstimateMatchesQuantity`: a quantity edited during the review leaves the
  approved line with the total of the old quantity.
* `OmittedQuantityKept`: a header save that omits the quantity resets the item's
  quantity to a stale header.
* `SubmittedFormIsComplete`: a request is submitted with the documented mandatory
  header fields empty.
* `SavedWarehouseFieldsAllowCompletion`: the documented short receipt with a remark
  leaves a request that cannot be completed by the bridge.
* `SentOnce`: a lost answer of the channel makes the retry send a second message.
* `LocalTurnsAreSerial`: the release of the in-process lock only schedules the
  waiter it wakes, so the lock looks idle and its entry is removed; the next
  message of the user gets a fresh lock. It takes three messages of one user.
* `ProcessingMeansProcessing`: a redelivery of a message whose turn failed tells
  the user that it is being processed and closes the event; nobody works on it.
* `NothingBoughtFromBlacklisted`: the purchase looks at the blacklist in its view,
  and not at all when it finds the supplier by name.
* `OneActivePerAction`: two first messages make two active conversations.
* Two effective blacklists of one supplier arise in the same way, with
  `MaxBlacklists = 2`; nothing that reads them tells one from two.

## 5. What is proved

TLAPS checks these for every value of the constants that satisfies the named
assumptions of the modules. They say: bounds and sizes are natural numbers and
quantities positive; roles, staff, candidates and seeds are of the employees and
names there are; `None` and `Stray` are none of the values they stand beside;
`ItemsAssumption` and the finiteness in `CardAssumption` and
`RecommendationAssumption`: a request has finitely many items, a user presses
finitely many buttons at once, there are finitely many lines; there is an item to
ask for and a `current_action` for a conversation; drafts and orders are different
requests. TLC evaluates each assumption on the instance of its run.

* **ProcurementWorkflowProofs**, one handler at a time. `WorkflowTyped`: `TypeOK`
  is inductive, one lemma per handler. `PurchasesMatch`, `NoOverReceipt` and
  `CompletionFulfils` follow from one inductive invariant, `Fulfilment`: the types
  and these three together. None of the three is inductive alone: an execution is
  made from a frozen item, a receipt is bounded by its execution, and both roads to
  COMPLETED check what the other two say cannot be undone. Before the first
  purchase there is no execution, so the items are free to change (`EarlyStep`).

  `HandlerFits`, `CustodyChain` and `OutboxMatches` follow from `Custody`, the
  types with these three and `CompletionEndsLog`: a step is by the handler of the
  moment, so its log entry continues the chain, and it hands over to an employee the
  next status admits, so the next step can. That a completion is the last entry is
  what makes the outbox exact: what it announces depends on who reviewed last and
  who bought first, and until then nothing in the log refers to them
  (`LogAnnounced`, `AppendAnnounced`), and afterwards they do not change. Every
  handler either saves (status, handler, log and outbox stay) or logs one step
  (`Saves`, `Logs`); that split also gives
  `WorkflowKeepsFlow`, the refinement of `RequirementFlow`. `RoundsMatchStatus`
  and `DecidedStayDecided` rest on `Rounds` (`Custody` with the agreement of rounds
  and status), where a handler keeps the rounds, writes the active one or closes
  it. `ScopeIsFrozen` is a property of every single step. Both allow a purchase to
  fill in the supplier id (`FilledInKeepsDecision`, `ReviewsKept`).
* **ProcurementWorkflowProofs**, concurrent transactions. Every handler compares
  the version of its view and advances it by one (`HandleBumps`). Hence
  `VersionGuardsView` is inductive (`ViewsGuarded`); a commit therefore read the
  current rows, so it is a step of `ProcurementWorkflow` (`Serialisable`); hence
  the invariants proved there hold with stale views
  (`ConcurrentCompletionFulfils`, `ConcurrentNoOverReceipt`,
  `ConcurrentScopeIsFrozen`, `ConcurrentCustodyChain`,
  `ConcurrentRoundsMatchStatus`).
* **NotificationDeliveryProofs.** `DeliveryTyped`; `DeliveriesDoNotOverlap` and
  `DuplicatesPaidFor` from the inductive invariant `GatewayInv`: with `OneDelivery`
  it says what the record remembers (`Remembered`): a call that is delivering has
  a record `started`, and what was accepted is explained by the record, the
  running call or a loss. `NothingBookedUntaken` adds that a result staged as sent
  is of a message taken (`BookedWasTaken`). The row locks are a third invariant,
  `LockInv`: a locked row has one holder and was eligible, a staged result is one
  of the locked row, a worker waits for one call of its own batch. It gives
  `BudgetKept`, `AttemptsAreSerial` and, with `BookedWasTaken`, `PromiseKept`:
  every step of the delivery is a step of `NotificationPromise` or a stutter.
* **InboundEventsProofs.** `InboundTyped`. `EventsAreExclusive` from `EventInv`: a
  running call keeps the record of its event started, or completed when Redis lost
  the answer, so nobody else starts it. On it rests `MessagesRunOnce` (`TurnInv`): a
  call is at work only on a message whose row is stored and which has had no turn
  before, and a row is never removed. `NothingClosedUntold` (`ToldInv`): a call that
  leaves the lock or marks completed has told the user. `LeaseExcludes`
  (`LeaseInv`): whoever is inside owns the lease or is marked as having outlived
  it; a release deletes the lease only of its owner. `TableForgetsIdle`
  (`TableInv`): the table holds no object but one that a call is inside of, and a
  call is inside of one object only.
* **CardWorkflowProofs.** The invariant is `CardInv`. Its first half, `RequestInv`,
  is about the request: every call of a card is a call of a handler with some
  token, so `Custody` and `Fulfilment` hold under cards too, and with them that the
  log explains the status. Its second half, `ButtonsInv`, is about what is on the
  screens: what a button carries was true of the request it was made from, that
  request is the present one or has a lower version, and whoever confirms is in
  charge of the step or has taken it. A property of what is shown is not inductive
  without the second half, since a button may be pressed at any later time.
  `PressesActOnWhatWasShown`, `AnnouncementsAreTrue` and `PromisesAreKept` (of the
  four steps that are checked before they are offered) follow;
  `AnnouncedStepsHappened` distinguishes one case, which is the code's: a building
  manager whose call was refused may be told of the step another manager took.
  `CardsLeadOn` is `AdvanceIsOffered` wherever the code keeps it: every request but
  one that finding 1 describes (`ResubmittedRequestCanBeApproved`), and
  `SingleItemLeadsOn` is the case of one item, where that cannot occur.
  `CardsKeepFlow` is the refinement of `RequirementFlow` once more.
* **FakeBackendProofs.** `FakeAcceptsWhatItAllows` and `FakeKeepsFlow` from
  `FakeInv`: the type of the requirement and that it lists only steps its status and
  its fields allow. Each method saves or takes an edge (`SaveKeeps`, `MoveKeeps`),
  and it is the type that says a copy with some fields changed keeps the others.
* **AgentSessionsProofs.** `SessionsTyped`, `SessionsRestorable` and
  `CompletedIsClosed` from `SessionInv`. The rows alone are not inductive: what a
  call writes at its commit was decided before. So the invariant says what a
  running call may rely on: one that holds the lock of a conversation is alone with
  it and the conversation is active, one that has inserted a conversation has its
  id for itself.
* **AssistantTurnProofs.** `TurnWritesOneRequest`, `OrdersWhatWasProposed` and
  `CandidatesOutliveHandOver` from `AssistantInv`, which says for every step of a
  turn what the steps before it established (`WritesOne`: what was written is the
  request the turn works on, and nothing before the first mutating call; `Guided`:
  what is ordered is what the fault state held before the message, and the state
  still holds it until the request has its items).
* **RecommendationProofs.** `BlacklistsAreGrounded` and `LiftedOnce` from
  `SupplierInv`: the types; that a call about to register a blacklist has grounds in
  the rows of now, although it looked at them in its view; that no row refers to a
  supplier or blacklist that is not there; and that what the log says was lifted is
  lifted. `BlacklistsExcludeOne` compares the rows before and after a registration: the
  history is the same and one supplier more is excluded, so every pool is the same,
  the search stops no earlier, and a later pool holds the candidates of an earlier
  one. `RecommendationsAreByMerit` is about the functions alone and
  holds in any state: a candidate that matches better than a chosen one would have
  been in the same pool, which has its best matches first (`NoneLeftOut`); equal
  match and confidence leave the order to price and days, which are positive
  medians, so that the scores compare as fractions (`CheaperFirst`; a median is
  found because ranks in a finite set are a bijection, `NthIsValue`); and a product
  that is better in one respect and worse in none has the higher score
  (`BetterProductFirst`).

*Only model-checked:* liveness (`EveryNotificationSettles`, `CallsEnd`), which is
out of the prover's reach, as it needs `ENABLED`. `AdvanceIsOffered` for requests of
several items is proved as far as it holds (`CardsLeadOn`). The two findings are
counterexamples of TLC. `IdleLocksRemoved` is proved (`TableForgetsIdle`) and in no
run. The type invariants of the modules are conjuncts of the invariants above and,
but for that of `ProcurementWorkflow`, in no run.

## 6. What is not modelled

* Reads: listing, paging, detail and permission-filtered queries, assets and
  purchase records. They change nothing; what a decision rests on is part of the
  action that decides.
* Wording, card layout, the reasons given with a recommendation, prompts, history
  and the composition of the model's context.
* Identity, roles and request signing: who is who is a constant; the one-time
  nonce of a signature keeps no state that a property here reaches.
* The Feishu and language-model adapters: their outcomes are free choices of the
  actions that call them. The HTTP surface adds no state.
* Migrations, seeds, operator scripts and the demo frontend: not part of the
  running system. The knowledge files are read once at start.
* Lengths of columns, among them that of `dedup_key`.
* What Feishu still redelivers once it was told that an event is accepted: a
  matter of Feishu, so `InboundEvents` redelivers without bound.
* The fake backend's suppliers, records, recommendations and seed data.
