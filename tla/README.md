# StellarFlow: specification and proofs

StellarFlow is a payment platform on Stellar/Soroban: three contracts written in
Rust (`src/contracts`), an indexer that copies their events into Postgres and
streams them (`src/services/event-indexer`), a TypeScript SDK
(`src/packages/sdk`), a Next.js web app (`src/apps/web`), and the scripts that
deploy and seed it.  This directory holds TLA+ modules of the parts where order,
failure and money matter, the TLC configurations that check them, and proofs of
what holds for every instance.

Run a check with `tlc -workers 2 -config X.cfg M`, a proof with `tlapm M.tla`.

## The system

| Part | State | Operations | Hard because |
|---|---|---|---|
| escrow contract (`contracts/escrow`) | admin, id counter, escrow records; token balances; events | initialize, create_escrow, release, refund, dispute, resolve_dispute | funds of all escrows lie in one balance; record and counter are written before the transfer is tried; rights change with the status; the counter overflows |
| registry contract (`contracts/registry`) | admin, address per key | initialize, register, remove, get_contract | anybody may register its own address; an entry may move between two lookups |
| payment contract (`contracts/payment`) | admin, registry address, counter, payments | initialize, create_payment, approve_payment, execute_payment, cancel_payment | execution calls registry and escrow contract and must be all or nothing; deadlines; it stores the escrow id but not the contract it belongs to, and trusts the answer of whatever is registered |
| indexer: listener, store, broker | cursor in memory; `contract_events`, `indexer_state`; subscribers | start, poll, insertEvent, setCursor, publish | every await can fail, be interrupted by a crash, or see the network grow; batches are cut by the RPC |
| indexer: HTTP/SSE server | connections | streamEvents, recent, health | replay query races live events |
| SDK client (`packages/sdk`) | cached client promise | read, write, phases, error codes | timeouts while a transaction is still under way; errors travel as texts of several authors |
| calls of the web app | a status per operation, the submit flag of a form | `useContractCall`, forms, cards | two calls of one button overlap; late phases of the first |
| lists of the web app | records, a loading flag, the confirm step of each card | `usePayments`, `useEscrow`, cards | overlapping reads, visits that begin and end, statuses that cross two encodings |
| wallet session | wallet info, cached clients, the extension's own selection | connect, disconnect, sign | four awaits in connect; the user switches account and network unseen |
| activity feed | feed, connection, timer | `useActivity` | reconnects, a history and a stream for one list |
| notifications | toasts and timers | notify, dismiss | the list is cut, the timers are not |
| scripts | deployed contracts, `.env.contracts`, `.env` | deploy, verify, seed | partial failure and re-runs; strangers between two steps; two ways to find one contract |
| config, types, test-utils, UI components | configuration cache | parsing, rendering | little |

How they interact: a client signs an invocation; the contracts call each other
synchronously inside it (payment → registry → escrow → token) and the host rolls
the whole invocation back when it fails.  The contracts publish events; the
listener polls them from an RPC node, stores them and hands them to the broker,
which feeds the open SSE connections, which the web app merges with the history
it reads over HTTP.  Forms and cards of the web app, and the seed script, call
the contracts through the SDK, which signs with the wallet; the lists are read
through it too.

What makes each part correct:

- escrow: it never owes more than it owns; every escrow is paid once, in full, to
  one of its parties, by somebody entitled to; an open escrow can always be
  settled; events tell the truth.
- registry: an entry is never taken over.
- payment: it is executed once, after approval, and exactly when an escrow of its
  own was funded on its terms, if an escrow contract is what it asked for it.
- indexer: every event is stored (it may not be, in two ways, see below); what is
  published is stored, once and in order; no ledger is passed over whole.
- feed: no gap between replay and live events, a lost connection is made again, what
  is sent is shown (it is not, see below).
- SDK and calls: what the user is told of the outcome of a call is true and stays
  true; every call ends; an amount arrives as it was typed; a refusal keeps its name
  (it does not, see below).
- lists and cards: a list is one answer, nothing is disabled for good, what is shown
  is what was answered (it is not, see below).
- wallet: nobody is connected behind their back, and a write acts as the account
  and on the network shown.
- scripts: what deploy writes works, and seed releases what it locked when it is used
  so.

## The modules

| Module | Models | Uses |
|---|---|---|
| `Ledger` | external: clock, balances, signatures of the host the contracts run on | |
| `Sums` | sum of a function on `1..n`, powers of ten | |
| `Lists` | a list without some of its members (`filter`) | |
| `Escrow` | `contracts/escrow/src/contract.rs`, at every address of `Contracts` | `Ledger`, `Sums`, `Custody` |
| `Custody` | what an escrow service promises (abstract) | |
| `Registry` | `contracts/registry/src/contract.rs` | `Ledger` |
| `Payment` | `contracts/payment/src/contract.rs`, and the system of all three contracts | `Escrow`, `Registry` |
| `Indexer` | listener, store, broker and life of the indexer process | |
| `Feed` | SSE server (`http/server.ts`) and the hook `useActivity` of the web app | `Lists` |
| `Errors` | error codes and how the SDK recognizes them in a message | |
| `Records` | payments and escrows as the SDK and the cards see them: statuses and how they are decoded, what operations take and give, what cards offer | |
| `Service` | what a caller of the SDK may rely on (abstract) | |
| `Calls` | forms and cards, `useContractCall`, the SDK's `write`, the prompt of the wallet, the transaction | `Errors`, `Records`, `Service`, `Sums` |
| `Pages` | the lists with their overlapping reads, and the two-step buttons of the cards | `Records` |
| `Session` | wallet provider, extension, cached clients, signer; notifications | `Lists` |
| `Deploy` | `deploy.ts`, `.env`, `verify.ts`, the seed script, and strangers | |
| `MCEscrow`, `MCPayment` | constants for TLC | |
| `MCTab` | `Pages`, `Feed` and `Session` side by side, one of which goes on in each behaviour | `Pages`, `Feed`, `Session` |
| `RecursionTheorems` | lemmas about recursive functions (`SumTo`, `TenTo`, `Without`, the reading of digits) and least members, proved | `Sums`, `Lists` |
| `EscrowProofs`, `PaymentProofs`, `IndexerProofs`, `CallsProofs`, `PagesProofs`, `DeployProofs` | theorems, proved | the module they are named after |
| `TabProofs` | theorems, proved | `Feed`, `Session` |

The other modules are instantiated by their configuration directly.  Operators
commented *Injected fault* are no part of any specification: each is a form a
definition might have taken, and shows that a property would notice.

### Contracts

One action is one invocation: Soroban runs invocations one at a time, and an
invocation that returns an error or panics leaves nothing behind.  So a failing
call is a stuttering step, and an action describes a call that succeeds.  That the
roll-back is complete is the host's promise, assumed here and not checked; it is what
makes `create_escrow` safe, which writes the record before it tries the transfer.  Each
operation has a `...Fault` operator that walks through the code's checks in the
code's order and yields the error of the first that fails; the action's guard is
that it yields `"ok"`.  The operators are used again in the property
`Settleable` and by `Payment`, where `execute_payment` maps every error of
`create_escrow` to `EscrowCallFailed`.

| Code | Model |
|---|---|
| `DataKey::Admin`, `NextId`, `Escrow(id)` of the escrow at address c | `admin[c]`, `nextId[c]`, `escrows[c][id]` |
| `env.events().publish` about an id | `events[c][id]` |
| `env.ledger().timestamp()` | `now`, advanced by `Tick` |
| `require_auth` | `signer'`: the caller signed this step.  `signer` records who did, so that properties can speak of it |
| `token.balance`, `try_transfer` | `bal`, `Refused`, `Moved`; a token may also refuse for reasons of its own (`willing`) |
| `next_id` beyond the range of its integer | ids are `1..MaxId`; at the end `id + 1` overflows, which panics (`overflow-checks` is on in the release profile) |
| registry `Entry(key)` | `entries[k]`; `GetContract` yields `Nobody` for `NotFound` |
| payment `DataKey`s | `payAdmin`, `payRegistry`, `payNextId`, `payments[p]` |

`lockedAt` is a history variable: the contract a payment was executed at, which
the code does not store.  Users may also pay each other and the contracts
directly (`Pay`), and do other things (`Elsewhere`).

Anything may be named as the registry (`initialize` does not look), and anybody may
register itself under a free key, so that `execute_payment` may call a contract of
other code (`Foreign`), which authorizes calls of its own like an account does.  An
account or a token in that place fails.  A foreign contract answers what it likes:
as a registry any address (`Resolved`), as an escrow contract any id, with no escrow
behind it (`Lock`).  The payment contract believes it.  So the properties of payments
are about those that were executed at an escrow contract of this code (`Funded`), and
`GenuineIsFunded` says what a deployment has to see to for these to be all.  What a
foreign contract does besides when it is called is a step of its own (`Pay`,
`CreateEscrow`, `Register`, ...); the host does not let it call back into the caller.

Left out: the contract-level "initialized", "registered" and "removed" events,
the getters, TTL of storage, fees, and the payloads of the payment events (their
topics are kept).

### Indexer

Each await in `poll` and `start` ends a step, `pc` says which one is next, so
that `CloseLedger` (the network) and the failures fall between any two.

| Code | Model |
|---|---|
| `this.cursor` | `cursor` |
| `response.events` not yet handled | `log[at..upto]`; `full` is `length === batchSize` |
| `contract_events`, `indexer_state` | `db`, `dbCursor` (0 for no row) |
| `broker.publish` | `live`, what a subscriber connected since the start has heard |
| `getLatestLedger`, `getEvents` | `GetLatestLedger`, `GetEvents`; the answer is the first `BatchSize` events from ledger `cursor + 1` |
| reverted calls and foreign topics (`continue`) | `Skip`, for events of kind `"skipped"` |
| `insertEvent` / `publish` and `cursor = max` / `setCursor` | `InsertEvent` / `Publish` / `SetCursor` |
| recursion on a full batch, `sleep`, the `catch` in `start` | `pc' = "poll"`, `"sleep"`, the failure actions |
| SIGTERM, `process.exit(1)`, restart by the supervisor | `Crash`, `Boot` |

`latest` may be behind the log's growth when a batch is fetched, as in the code.
A query that fails may have taken effect (`InsertFails`, `SaveFails`).

### Feed

One browser tab and the server.  The indexer is reduced to what `Indexer` shows of
it: events 1, 2, .. enter the table in order, and each is published after it is
stored (`Store`, `PublishEvent`).

| Code | Model |
|---|---|
| `streamEvents`: query sent, listener added / query answered / replay written | `Accept` / `ReadReplay` / `WriteReplay` |
| `res.write` of a frame | `Frame`, appended to `wire`; `received` have arrived |
| `req.on("close", unsubscribe)` | `NoConnection`, in the steps that end one |
| `recent(limit)` | `RecentOf`, newest first |
| the effect, `onopen`, `onmessage`, `onerror`, the timer, the cleanup | `Mount`, `OnOpen`, `OnFrame`, `OnError`, `Reconnect`, `Unmount` |
| `loadRecent`: the request is handled / its answer arrives | `ReadHistory` / `ShowHistory` |

The server names every frame `activity`; an `EventSource` hands named frames to
listeners for that name, and the hook has `onmessage` only.  So today the feed shows
history and nothing else (`OnFrame`), and no property speaks of the order in which
history and live events meet: they do not.  A repair has to mind that the replay is
written newest first and each frame is prepended.

When the request for history fails, `fetchRecentActivity` answers with no events
(`lib/api/client.ts:31-33`), though the hook's comment speaks of a fallback to the
local route (`useActivity.ts:15`); `ReadHistory` does what the code does.

Left out: `new EventSource` throwing, and malformed frames.

### Calls

One tab, one contract (`family`: the payment or the escrow contract; hooks, forms,
cards and SDK clients of the two are the same code twice, so that one definition
stands for both and the map names one of them).

A *run* is one call of a form or a card, from the click to its end.  It has two
lives, and the module is about their difference: `step` and `outcome` are what the
tab awaits and is told, `tx` is what becomes of the transaction.  A timeout ends
the first only.

| Code | Model |
|---|---|
| `getClient`: a cached promise | `spec[c]` per component with a client; a rejection stays |
| `write`: method lookup, simulation | `Method`, `Simulated` or `SimulationFails`: `fn` returns in both |
| `signAndSend` | `Prompt`, or `Refused` when the simulation failed: it throws the host's text (stellar-sdk 12.3) |
| `withTimeout` | `Timeout`, in the two places it is used; the spec's fetch has none |
| `sent.result` | `Settle`, once the transaction is on the ledger |
| errors of the RPC | `NetworkDown` |
| Freighter's prompt, the Stellar SDK's submission, the network, the ledger | `Approve`, `Reject`, `Lose`, `Include` (external) |
| `setState` of `useContractCall` | `call[h]`, for each of the hooks of a page; a phase of any run writes its hook's status |
| `submitted` and `loading` of the forms | `submitted`, `PaymentLoading`, `EscrowLoading` |
| `toStellarFlowError`, `preserveErrorCode` | the same in `Errors`: of a message the model keeps the words that are looked for and the canonical message it quotes; the texts of the host (`HostTexts`) quote none, and may have the word "balance" of a token's own error |
| amount of `createPaymentSchema`, `amountToStroops` | the same: an amount is a whole part and a sequence of decimal digits; `Decimals` stands for the 7 of Stellar |

`chain` keeps the status of each record; `Escrow` and `Payment` have the rest of
the contracts.  Other errors than a wrong status or amount come from
`OtherFaults` at will.  `errorTypes` is not in the model: it takes effect where the
result of a read is unwrapped, and a write that is refused does not get there.  The wallet opens its prompt at once when `signAndSend` asks
for it, so that a timeout finds it open (`Prompt` before `Timeout`).  The contract's
spec has all methods the SDK calls.

### Pages

The page of the payments or of the escrows with one wallet account; `role` is what
that account is to each record.  A read of the list is asked, answered with the
statuses of that moment, decoded (`toPayment`, `toEscrow`), and shown later or never, and several overlap: a connect
makes a new client and with it a new read, a disconnect may, and another visit of
the page starts a hook of its own, for which answers to the former come too late.  A
card shows a confirm step (`confirming`) and makes calls on the status of the list.
`End` closes the confirm step whatever it shows by then.  `ConnectWallet` and
`DisconnectWallet` are the wallet's changes as the page sees them.

The status enums of the contracts have unit variants without values, which travel as
the variant's name.  What they are decoded to is an object, `Number` of it is `NaN`,
and the SDK takes the first status for what it has no name for.  The lists therefore
show `Created` or `Locked` whatever was answered, and the cards offer accordingly:
`Show` does what the code does.

Left out: the reads each card makes of a list of its own on mounting and after a
success, which nothing shows; an app without contract ids (`client` null); and what
`Calls` has.

### Session

| Code | Model |
|---|---|
| account and network selected in Freighter | `account`, `network`; `Switch` changes them and tells nobody |
| `info`, `isConnecting` of `WalletProvider` | the same |
| the awaits of `connectWallet` and `getWalletInfo` | `Access` (two of them), `GetPublicKey`, `GetNetworkDetails`; `ConnectFails` at any |
| blank answers of `getNetworkDetails` | `GetNetworkDetails(i, TRUE)`: testnet, and the app's passphrase |
| `cachedClient` of `lib/contracts` | `cached`, by its signer; `client` |
| `createFreighterSigner` | `Sign`: signs with the account selected now, for the passphrase of the signer |
| `notify`, `dismiss`, `setTimeout` | the same, `Timer`; `nextToast` is `nextId` |

A passphrase is identified with the name Freighter has for its network.  The ledger
applies a transaction that its source signed for the ledger's own passphrase.

### Deploy

The eight calls of `deploy.ts` are the steps of `Script`.  A step succeeds, or fails
before or after its effect on the ledger, and a script that failed is run again
from the start with new contracts: run r's contracts are known by r.  Between any two
steps a stranger may initialize a contract or register an address of its own.
`.env.contracts` is `file`, `.env` is `env` with the run each id comes from; it is
copied, or edited by hand.  `keychain` is the account behind the CLI's key alias,
which `ensureKey` never replaces.  The seed script reads `.env` once, and finds the
escrow contract twice: by the registry when the payment is executed, and by `.env`
when the escrow is released.  With a `.env` that mixes two deployments these differ,
and nothing in the code prevents it; that a copied one is safe is `SeedReleasesItsOwn`.
The deployer does not remove or replace the entry
of "escrow" by hand.

## The runs

All configurations switch the deadlock check off: users may stop calling, and
clock, ids, ledgers, calls and runs are bounded, so the models do stop.

| Run | Module, configuration | Instance | Shows |
|---|---|---|---|
| `escrow` | `MCEscrow`, `MCEscrow.cfg` | one contract, two users (one of them admin as well as party), the contract itself as a payee, two ids, amounts 0 to 2 of a balance of 2, clock 0..2, timeout 2 | types, `Solvency`, `Settleable`, `CreationOrder`, `AuditTrail`, `OwnFundsOnly`, `SettledByRight`, refinement of `Custody` |
| `system` | `MCPayment`, `MCSystem.cfg` | two payments, two escrow contracts with one id each, from the initialization of registry and payment contract on; a foreign contract that may pose as the registry or register itself; the registry entry moved at will | types, `ExecutedBacked`, `OneEscrowEach`, `PaymentTrail`, `NoTakeover` |
| `indexer` | `Indexer`, `Indexer.cfg` | three ledgers of up to two events, batches of three, three failures of any kind | types, `LiveInOrder`, `NoLedgerSkipped`, `EventuallyReached` |
| `calls` | `Calls`, `Calls.cfg` | the payment or the escrow contract, one card and the form, two calls, two records, amounts of up to three decimals where two are allowed | types, `OutcomeIsTrue`, `ScreenFollowsRuns`, `CallsEnd`, refinement of `Service` |
| `tab` | `MCTab`, `MCTab.cfg` | one of: the list of payments or escrows with one record, two reads and a call of its card; the feed with three events, replay and history of two, a feed of three and two failures; the session with two accounts, three networks (Freighter's name for one is unknown to the app), three attempts and one write | types, `ListIsOneAnswer`, `LoadingIsHonest`, `NoGap`, `Reconnects`, `ActsAsShown`, `NoGhostConnect`, `ToastsGo` |
| `deploy` | `Deploy`, `Deploy.cfg` | two runs of the script by one account or two, a stranger, a `.env` that is copied or edited, the seed script | types, `EnvWorks` |
| `indexer_truncated` | `Indexer`, `IndexerTruncated.cfg` | two ledgers of two events, batches of two, nothing fails | `NothingMissed` violated |
| `indexer_stuck` | `Indexer`, `IndexerStuck.cfg` | two ledgers of one event, batches of one, nothing fails | `EventuallyIndexed` violated |
| `feed_silent` | `Feed`, `FeedSilent.cfg` | the feed as in `tab`, nothing fails | `SentIsShown` violated |
| `calls_refused` | `Calls`, `CallsRefused.cfg` | as `calls` | `FaultIsNamed` violated |
| `pages_status` | `Pages`, `PagesStatus.cfg` | one record, one read | `ShownWasAnswered` violated |
| `registry_overwrite` | `MCPayment`, `MCOverwrite.cfg` | as `system`, one payment | `AdminOverwrites` violated |

Why the bounds are enough: two escrows are the fewest of which one can be paid
out of the other's deposit, and two ids with a third asked for reach the end of
the counter.  A clock of three values has a before, an at and (for timeouts) the
boundary itself.  Two contracts are the fewest between which a payment can lose
its way, two payments the fewest that can share an escrow; each address then
needs one id.  `system` starts where the deployment script has initialized the escrow
contracts, whose own initialization is in `escrow`; registry and payment contract are
initialized in it, with whatever registry is named.  Its escrow contracts are alike,
and are permuted (`MCSymmetry`).  For the indexer, a batch of three over ledgers of two
events may be full, or cut inside a ledger, or full of events to pass over, and three
failures allow a failure, a crash and another failure while recovering.  The parts of
`tab` share no state (`MCTab`), so that their interleavings have nothing to show: one
goes on in each behaviour, and its fairness is that of its own specification.  For the feed, three events and lists of two have an event that
is too old for replay and history, and two failures allow a lost connection and a
refused one, or a lost one and a failed query.  Gifts of one unit suffice to make a
balance differ from what is owed.

For the calls, two runs are what it takes to overlap on one button, on the form
and a card, or on two operations of one card, and two records make a form's
payment differ from the card's.  Amounts of no, one, two and three decimals are
short of, at and beyond the limit, and a zero whole part lets an amount be
nothing; the digit 5 shows its place.  One of `OtherFaults` stands for the
others in the run: the code that recognizes an error never sees the number.  For the
pages, two reads are two that overlap, or one of this visit and one of a later one.
For the session, three attempts overlap with what the first two left behind and make
six notifications, one more than are shown.  For the deployment, two runs are what it
takes to mix up contracts of two deployments, one half done.

Fairness is assumed for the indexer, the feed, the calls and the notifications only.
`WF(Step)`: the event loop resumes an
await once it is answered, and the client libraries end every call with an
answer or an error.  `WF(Boot)`: in production the service runs as a systemd unit or a container
(`docs/deployment.md:76`), which is started again.  Nothing makes ledgers close, so `EventuallyReached`
speaks of events of ledgers that did.  Failures are finite in number
(`MaxFaults`), for a service that always fails indexes nothing.
`EventuallyReached` is what the listener guarantees of progress: something of each ledger
that has an activity event reaches the table, however batches are cut and calls fail,
unless the listener is `Stuck` before it.  It is stuck at a cursor after which comes a
whole batch of events it passes over; the cursors that count are those it may have on the
way to the ledger (`CursorsBefore`).
`FeedSpec` is weakly fair to the hook's timer and to each request, answer and frame
that is under way (it arrives, or the connection or query fails); users need not
leave the page, connections need not be lost, and nothing makes events appear.
`CallsSpec` is fair to the timers of `withTimeout` and to what the Stellar SDK does
by itself between simulation and prompt; network, wallet, user and ledger owe the
tab nothing.  `SessionSpec` is fair to the timers of notifications.

### Where code and documentation disagree

- `indexer_truncated`: when the RPC's limit cuts a batch inside a ledger, the
  next request starts after that ledger; the rest of it is never indexed
  (`contract-listener.ts:59,76`, and the comment at 84).
- `indexer_stuck`: the cursor moves with events that are stored
  (`contract-listener.ts:76`), not with those that are passed over (69-72).  A batch full
  of the latter leaves it where it is, and what the comment at 84 calls to "keep going"
  fetches the same batch for ever.
- `feed_silent`: the hook is to "prepend events to the feed" (`useActivity.ts:13`,
  `docs/frontend.md:74`).  The server names its frames (`http/server.ts:80,86`),
  and the hook's `onmessage` (`useActivity.ts:62`) is not called for named ones:
  events sent over the open connection are never shown.
- `pages_status`: a status is decoded to an object, of which `Number` makes `NaN`
  (`payments.ts:32`, `escrow.ts:31`), so that every payment reads `Created` and every
  escrow `Locked`.  `docs/demo.md:51` has the status become `Approved`; it never does,
  and Execute is never offered.  The SDK's tests decode records with numbers as
  statuses (`packages/sdk/tests/payments.test.ts:53`).
- `calls_refused`: the client is to "preserve typed error codes" (`client.ts:75`), which it
  looks for among canonical messages.  A refused write throws the host's text of the
  simulation (`client.ts:170`), which quotes none of them: whatever its number, a refusal
  ends as `CONTRACT_CALL_FAILED`, or as `INSUFFICIENT_BALANCE` if the text has the word.
- `registry_overwrite`: `register` is documented to "Register (or overwrite)"
  (`registry/src/contract.rs:46`, `docs/contracts.md:16`).  It refuses a key in use, the
  admin's calls included (60); the admin must remove the entry first.

What the listener does guarantee in spite of the first is `NoLedgerSkipped`: however
batches are cut and calls fail, an event can be missing behind the saved cursor
only when an earlier event of its own ledger was stored.  And `EventuallyReached` says
that the second is the only way to get stuck.

### Found while modelling

Observations that are no runs of their own.

Contracts and indexer:

- `packages/types/src/index.ts:48` calls the timeout of an escrow the "Ledger
  timestamp after which the escrow can be disputed".  `dispute`
  (`escrow/src/contract.rs:180-193`) does not look at it, nor does anything else
  after creation.
- The payment contract completes a payment when whatever is registered under "escrow"
  answers an id (`payment/src/contract.rs:156-173`), and anybody may register itself
  there while the key is free.
- The listener's cursor in memory moves with each event (`contract-listener.ts:76`).
  If a later event of the same ledger fails to be stored, the retry starts after
  the ledger.
- `config.ts:10` calls `startLedger` the first ledger to index, and a fresh listener
  asks from the one after it.  The properties of the indexer are stated for the
  ledgers after `StartLedger`.

SDK and calls:

- `ESCROW_CONTRACT_ERRORS` is to "mirror the Rust enums" (`errors.ts:82`) and has no
  entry for InvalidDeadline, number 9.  For writes it makes no difference, see
  `calls_refused`.
- The button of `EscrowForm` is not disabled while the status is "submitting", and
  an edit of `PaymentForm` resets `submitted`: in both a second create may be sent
  while the first is under way.  `PaymentForm`'s button stays disabled after a
  failure until a field is edited.
- "pending" is reported when the wallet opens its prompt (`client.ts:172-174`), where
  `docs/frontend.md:46-47` and `useContractCall.ts:8-9` have it after the approval.
- `getClient` has no timeout (`client.ts:41`) and keeps a rejected promise: all later
  calls of that client fail.
- A network error after the transaction was sent reads as if nothing had happened.
- `PaymentCard` shows failures of approve and execute, not of cancel
  (`PaymentCard.tsx:72-77`).
- `reset` of `useContractCall` is called by nobody.

Pages and wallet:

- Cards refresh a list of their own, not the one of the page
  (`docs/demo.md:47-50` has it otherwise): the page shows the old status until its
  Refresh button is pressed.
- An older answer may overwrite a newer list; `ListIsOneAnswer` says what remains.
- An earlier call that ends closes the confirm step of a later choice.
- A failing connect from `WalletButton` is notified twice, by its handler and by its
  effect; one made by a form is notified by that effect when it fails, and by nothing
  when it succeeds.
- `isFreighterInstalled` tests whether the npm package is there, not the extension.
- Networks the app does not know, and blank answers, are shown as Testnet.  On an app
  configured for mainnet a blank answer therefore shows Testnet while writes apply on
  mainnet, which is why the theorem about `ActsAsShown` assumes an app for a test
  network.
- Account and network are asked for at different moments and may be a pair that never
  was selected.

Scripts:

- `verify.ts` asks each contract for an answer and compares none: a `.env` with
  contracts of different deployments passes.  The seed script then releases an escrow
  that is not the one its payment was locked in, or none.
- `ensureKey` ignores the secret key it is given when the alias exists.
- A stranger may initialize a contract first, or occupy "escrow" in the registry with
  an address of its own; the script then fails, and the next run starts over.
- `upgrade.ts` calls an upgrade entry point that no contract has.

## The proofs

TLC's runs show their properties on small instances.  The theorems below hold for
every value of the constants that meets the assumption of the module
(`LedgerAssumption`, `EscrowAssumption`, `RegistryAssumption`, `PaymentAssumption`,
`IndexerAssumption`, `FeedAssumption`, `CallsAssumption`, `PagesAssumption`,
`SessionAssumption`, `DeployAssumption`; TLC evaluates each in a run).  They say what
kind of value a constant is, and little else: sizes of lists and batches are at least 1,
the first visit of a page may read its list, numbers of errors are those a contract has.
Four theorems have a hypothesis besides, stated in them and discussed below:
`WritesActAsShown`, `NothingMissedOneEach`, `MissedOnlyInsideLedgers` and
`GenuineIsFunded`.

Every safety invariant, every action property and both refinements that a passing run
checks are stated by a theorem.

### Escrow

| Theorem | Statement |
|---|---|
| `TypeCorrect` | `EscrowSpec => []EscrowTypeOK` |
| `Solvent` | `EscrowSpec => []Solvency` |
| `CreatedInOrder` | `EscrowSpec => []CreationOrder` |
| `NeverStranded` | `EscrowSpec => []Settleable` |
| `SpentByOwner` | `EscrowSpec => OwnFundsOnly` |
| `MovedByRight` | `EscrowSpec => SettledByRight` |
| `EventsTellTheTruth` | `EscrowSpec => []AuditTrail` |
| `KeepsCustody` | `EscrowSpec => ImplementsCustody` |

`EscrowTypeOK` is inductive by itself: a transfer that is not refused leaves no
balance negative (`MovedType`), a counter that may still be advanced stays within
its bound.

`Solvency` is not inductive: `create_escrow` would overwrite an open escrow, and
so change what a contract owes by the wrong amount, if the next id were in use.
It is not, because ids are dense (`IdsDense`); and that is preserved by
`initialize`, which sets the counter back to 1, only because a contract without
an admin has not handed out an id yet (`Fresh`).  The inductive invariant is
`EscrowInv == EscrowTypeOK /\ Fresh /\ IdsDense /\ AgesOrdered /\ Solvency`, with
one lemma per operation (`InvInitialize`, `InvCreate`, `InvRelease`, ...).  The
three payouts share `InvPayOut`: what a contract loses is what the escrow it
closes no longer ties up.  That needs the sum over all escrows to change by the
change of one summand, `SumToUpdate` in `RecursionTheorems`.

`Settleable` follows from the invariant: an open escrow is covered, because a sum
of naturals is at least each summand (`SumToNat`); its depositor may release or
refund it while it is Locked; and there is an admin, by `Fresh` and `IdsDense`.

`SumTo` is a recursive function.  Its defining equation is not an axiom for the
prover: `PartialSumsExist` shows by the least-number principle (`LeastOf`, from
the well-foundedness of `<` on the naturals) that a function satisfying it
exists.  The lemmas then go by `ClimbTo`, induction over a finite range stated
for a set instead of a predicate.  `RecursionExists` does the same once for every
function that is defined from its value one step before, and `PowersExist` (`TenTo`),
`ReadingExists` (the digits of an amount) and `WithoutIsFiltering` (`filter`) take it from
there.  The modules write these three as recursive functions for that reason: the prover
has no definition of `^` and none of the operators `SelectSeq` and folds take.

`AuditTrail` is kept because a call opens an escrow that was not found, or lets one proceed
that is open (`Opens`, `Proceeds`): an open escrow has published no payout yet
(`NoPayoutYet`), so the new event may be one, and its status is what the last event
says, so that a resolution comes right after a dispute (`StoryGrows`).

`KeepsCustody` maps a state of the contracts to one of the ideal custody: the deals
are the escrows without their times, and the wealth of a contract is its balance
less its open deposits.  It needs `Solvency` (that wealth is a natural number) and
`IdsDense` (a deal is opened once).  One lemma per abstract action: `OpenStep`
(create), `CloseStep` (the three payouts, by `CloseNext`), `ContestStep` (dispute) and
`GiveStep` (gifts and payments).

### The system of contracts

| Theorem | Statement |
|---|---|
| `SystemIsEscrow` | `SystemSpec => EscrowSpec` |
| `SystemIsSolvent` | `SystemSpec => []Solvency` |
| `PaymentTypeCorrect` | `SystemSpec => []PaymentTypeOK` |
| `EventsTellTheStory` | `SystemSpec => []PaymentTrail` |
| `PaidIsBacked` | `SystemSpec => []ExecutedBacked` |
| `NoEscrowTwice` | `SystemSpec => []OneEscrowEach` |
| `GenuineIsFunded` | `SystemSpec /\ []GenuineRoute => []AllFunded` |
| `EntriesAreKept` | `SystemSpec => NoTakeover` |

`StepRefines` shows that each step of the whole is a step of the escrow contracts or
leaves them alone: `execute_payment` is a `create_escrow` signed by the payer
(`ExecuteCreates`), or at a foreign contract nothing they see.  With it every theorem
above holds of the whole; `SystemIsSolvent` is one.

`ExecutedBacked` is inductive only together with five other facts, in `SystemInv`: the
escrows keep their invariant; a stored payment has terms an escrow may have (`Terms`);
ids of payments are dense (`PayDense`, and `PayFresh` for `initialize`), so that
`create_payment` overwrites none; an open escrow keeps its terms (`TermsStay`, by which
`StaysBacked`), and a new one is not one of those in use (`LocksBacked`), because its
contract had not handed out its id.  `StepKinds` reduces the steps of the payment
contract to three kinds of change to one record (`Created`, `Settled`, `Locks`), on which
the lemmas go by cases.  `PaymentTrail` is kept because the status of a payment tells its
events (`StoryOf`), and each change of status appends the topic that leads from one story
to the other (`Stories`).

`PaidIsBacked` and `NoEscrowTwice` are about payments executed at an escrow contract, with
foreign contracts registered before, between and after.  `GenuineIsFunded` adds when these
are all: as long as the payment contract asks the registry and "escrow" names an escrow
contract or nothing (`GenuineRoute`).  That is the hypothesis the code makes and does not
check; without it a payment may be executed with no funds behind it.

The run `system` starts with two escrow contracts initialized to keep its instance small;
the theorems are about `SystemSpec`, where nothing is initialized.

### Indexer

| Theorem | Statement |
|---|---|
| `IndexerTypeCorrect` | `IndexerSafety => []IndexerTypeOK` |
| `HeardInOrder` | `IndexerSafety => []LiveInOrder` |
| `LedgersAreStarted` | `IndexerSafety => []NoLedgerSkipped` |
| `NothingMissedOneEach` | `PerLedger <= 1 => (IndexerSafety => []NothingMissed)` |
| `MissedOnlyInsideLedgers` | `IndexerSafety /\ [][LeavesWhole]_indexerVars => []NothingMissed` |

`IndexerSafety` is the specification without its fairness.  `LiveInOrder` needs to know
what a subscriber has heard when the next event is published: it is all in the table and
behind the cursor in memory (`Behind`), ascending (`Ascending`), while what remains
of the batch is of later ledgers or of the ledger just being handled (`InBatch`).
Because a log is sorted by ledger (`Sorted`), the events after a cursor are its tail
(`AfterIsTail`).  `NoLedgerSkipped` speaks of the saved cursor; as that is copied from
the one in memory, and read back after a crash, `Started` is kept for both.

`NothingMissed` is false of the code, as `indexer_truncated` shows, and the last two
theorems say when it is true.  `LeavesWhole`: the listener leaves a batch, done or given
up, only where the next event is of a ledger its cursor is not in yet.  That is all that can
go wrong.  What is complete is then the saved cursor always, the one in memory between
batches, and what lies before the event at hand inside one (`WholeInv`); `CompleteAtBorder`
leads from the last to the second.  Crashes, failures of the RPC node and of saving
the cursor need no hypothesis.  `LeavesWhole` excludes two steps of the code: to end a
batch that the limit has cut inside a ledger, and to give one up because an insert failed
behind an event of the same ledger.  Neither exists where a ledger has one event at most,
whatever the batch size and the failures: that is `NothingMissedOneEach`.

### Feed

| Theorem | Statement |
|---|---|
| `FeedTypeCorrect` | `FeedSpec => []FeedTypeOK` |
| `NothingBetween` | `FeedSpec => []NoGap` |
| `LossIsRetried` | `FeedSpec => [](Retrying /\ OpenIsWanted)` |

`NoGap` speaks of a replay that is written.  `FeedInv` adds what holds on the way to it: the
query is made for a connection that is listened for (`Listening`), so that from its answer
on what is published is sent as well (`LiveSent`), and what the answer goes back to is sent
when it is written (`ReplaySent`).

`Retrying` and `OpenIsWanted` are the safety part of `Reconnects`: while the page is open
there is a timer just when the connection is lost, and none when the page is gone.  Neither
is a loss forgotten, nor do two connections stand side by side, however losses, timers, visits
and cleanups follow each other.

### Calls, pages, session and deployment

| Theorem | Statement |
|---|---|
| `CallsTypeCorrect` | `CallsSpec => []CallsTypeOK` |
| `ToldIsTrue` | `CallsSpec => []OutcomeIsTrue` |
| `SDKServes` | `CallsSpec => ImplementsService` |
| `ScreenIsTrue` | `CallsSpec => []ScreenFollowsRuns` |
| `PagesTypeCorrect` | `PagesSpec => []PagesTypeOK` |
| `ListedIsOneAnswer` | `PagesSpec => []ListIsOneAnswer` |
| `RefreshIsEnabledAgain` | `PagesSpec => []LoadingIsHonest` |
| `NobodyBehindTheirBack` | `SessionSpec => []NoGhostConnect` |
| `WritesActAsShown` | `networkFromFreighter(AppNetwork) = "testnet" => (SessionSpec => []ActsAsShown)` |
| `EveryNoteHasItsTimer` | `SessionSpec => []OwnTimer` |
| `SessionTypeCorrect` | `SessionSpec => []SessionTypeOK` |
| `DeployTypeCorrect` | `DeploySpec => []DeployTypeOK` |
| `EnvAlwaysWorks` | `DeploySpec => []EnvWorks` |
| `SeedReleasesItsOwn` | `DeploySpec => []SeedReleasesOwn` |

*Calls.*  `Progress` shows that a step moves no run or takes one run one of the
ways of `GoesOn` (begun, sent, given up, declined, confirmed, or its transaction moved).
`ToldIsTrue` and `SDKServes` are then about one run: `TrueRuns` adds to `OutcomeIsTrue` what is known of
the transaction while the call is under way, and `RunServes` gives the step of the
abstract request.  A refusal counts among the failures that are definite: `Refused` needs
that no transaction was made.

`ScreenIsTrue` has two halves.  `ShownOK` names for each status of a button the run that
put it there and has not been replaced in that: an earlier run that ends, or goes on, while
a later one is under way takes the button over, and then is the one.  `FitsOK` is about
amounts: what passed `createPaymentSchema` and was converted by `amountToStroops` is worth
what was typed (`AmountIsWorth`).  The code reads the whole part and the digits, padded to
`Decimals`, as one number; the property's `Worth` is a sum of digits times powers of
ten; `ReadingIsWorth` shows by induction over the digits that they agree, for any number of
decimals, digits and whole part.

*Pages.*  `PagesInv` has both properties, the types, which need that what the SDK makes of
a decoded status is one of its own page, and that the calls of the cards fit the
page (`CallsFit`).  A list is replaced as a whole by one answer, and dropped with the
visit whose reads it came from.  The first visit needs one read for `LoadingIsHonest`,
which is why `PagesAssumption` asks for `MaxReads > 0`.

*Session.*  `OneOpen`: while `isConnecting`, exactly one attempt awaits the extension and
nobody is connected; otherwise none does.  `ShownTruly`: whoever is shown on the passphrase
of the app is shown on its network.  The hypothesis of `WritesActAsShown` is not
idle, see the observation on blank answers above.

`OwnTimer` is the safety part of `ToastsGo`: whichever notifications the list drops when a
sixth comes, or the user dismisses, those shown have their timers, each its own.  It needs
that ids are handed out once (`NotesOK`).  `SessionTypeOK` bounds the ids by the attempts:
each that is over was told of twice at most, and `Over` is a finite set that grows by one
(`FiniteSetTheorems`).

*Deployment.*  `DeployInv` says of each run what the steps it has passed have
achieved (`Achieved`): they are in order, none can be undone by a stranger, and only the
contracts of a run that is over are written to `.env.contracts`, `.env` or the seed
script's configuration (`OfOver`).

### Only model-checked

- `EventuallyReached`, `Reconnects`, `CallsEnd` and `ToastsGo`: liveness under fairness is
  beyond the prover, as is `ENABLED`, of which fairness is made.  `Settleable` says the same of
  open escrows as an invariant, without it.
- The six violated properties are false of the code: `EventuallyIndexed`, `SentIsShown`,
  `AdminOverwrites`, `ShownWasAnswered`, `FaultIsNamed`, and `NothingMissed` of ledgers that
  are cut.
- What recursive definitions compute for every input, but for the four that
  `RecursionTheorems` is about.

## Not modelled, and the plan

Not modelled, because they keep no state that matters or only format:

- summaries of events in the indexer's `processors`, its health endpoint and routing;
- `resolveDispute` and `registry.ts` of the SDK, which go through the `read` and `write`
  that `Calls` has, and which nothing but tests calls;
- `upgrade.ts`, whose entry point no contract has, and `setup`, which checks tools and
  copies example files;
- the dashboard and the rendering of all pages; the list each card reads for itself,
  which nothing shows;
- the format of addresses, dates and memos in forms; defaults and validation of the
  configuration; type declarations and fixtures.

External, and modelled as the code uses it: the host and its rollback, the token
contract, the RPC node, Freighter, the Stellar SDK's submission, Postgres, `EventSource`.

What is left, in order of importance:

1. The listener over an RPC node that prunes old ledgers while the service is down.
2. One composition of `Calls` with `Payment`, so that what a tab is told is related to
   the contracts' own state rather than to a status.
