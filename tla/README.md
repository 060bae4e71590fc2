# Infinitech: money, sessions, calls and caches, modelled, checked and proved

This directory holds TLA+ modules for the parts of the Infinitech monorepo
(release 1.0.2) whose steps interleave: those that move money in the Go core, and
those of the JavaScript servers and clients that share a call, a login, a session
or a cache. TLC configurations model-check them on small instances, and TLAPS
proofs show what matters most for every value of the constants. It is read beside
`src/`: `PROJECT.json` maps each definition to the lines it stands for.

Start with *The system* for what there is, *The modules* for how a module
corresponds to the code, *The runs* and *The proofs* for what is known.

## The system

A delivery platform: customer, merchant and rider apps, an admin console, a Go
core API in front of one SQL database, a Node BFF that proxies to it, a Node
socket server for realtime traffic, and two sidecars that speak to Alipay and to
a bank. The Go API runs several HTTP handlers at once and four background
workers (rider income, mobile push, RTC retention, withdraw reconcile). In
production the database is PostgreSQL at READ COMMITTED; SQLite and MySQL are
supported.

| Component | State it keeps | Operations | Interacts with |
| --- | --- | --- | --- |
| Wallet withdrawals (`wallet_service.go`, `withdraw_payout.go`) | `wallet_accounts` (balance, frozen, total, version), `withdraw_requests`, `wallet_transactions` with `response_data` | `Withdraw`; `ReviewWithdraw` with ten actions; retry and restore | gateways (HTTP call), callbacks and worker (shared rows) |
| Withdraw reconcile worker (`withdraw_reconcile*.go`, `withdraw_retry.go`) | the retry counter, delay and budget inside `response_data` | a refresh pass and a retry pass per tick | gateways, `ReviewWithdraw` |
| Payment callbacks (`payment_service.go` `RecordCallback`) | `payment_callbacks`, and the rows a notice settles | success and failure of payments, refunds, recharges, deposits, withdrawals | gateways (repeated, late, unordered notices) |
| Order payment and refunds (`payment_service.go`, `after_sales_service.go`, `payment_gateway.go`, `unified_external_id.go`) | `orders.payment_status`, `refund_transaction_id`; `after_sales_requests` | `PayOrder`, `RefundOrder`, `UpdateStatus` of a claim | wallets, gateways, settlement |
| Settlement (`settlement_runtime.go`) | snapshot and ledger of an order, its income columns | prepare at payment, settle at delivery, reverse at refund | called by payment, delivery and refund |
| Delivery and rider income (`cmd/main.go`) | `orders.status`, a frozen income transaction per order | accept, dispatch, pickup, deliver; the minute ticker | rider wallet, settlement, deposit |
| Rider deposits (`wallet_pay_center.go`) | `rider_deposit_records` | pay intent, refresh, lock on acceptance, withdraw | callbacks, withdrawals, delivery |
| Mobile push (`mobile_push_*.go`, `admin_service.go`) | delivery rows per message and device | materialise, claim, send, retry, acknowledge | push provider, devices |
| RTC calls (`rtcNamespace.js`, `rtc-call-page.js`, `rtc-contact.js`, `socket-io.js`, `adminRtc.js`, `rtc_call_audit_service.go`) | timers in the memory of the socket server, the page of each side, audit rows | start, accept, reject, cancel, end, time out | two sockets, the API |
| Admin QR login (`bff/.../qrLogin.js`, `loginPageHelpers.js`) | a session per code in Redis with a copy in memory; the timers of the page | create, scan, confirm, poll, refresh | Redis, the console, the app of an administrator |
| Consumer session (`consumer-request-interceptor.js`, `consumer-app-session.js`) | tokens in the storage of the device, `isRefreshing` and its subscribers | login, logout, request, refresh, check at launch | the API |
| Offline data sync (`sync-service.js`, `local-db.js`, `consumer-cache.js`, `sync_service.go`) | tables and `sync_versions` in the phone, `updated_at` on the server | sync at launch, caching of what pages fetch, clearing, schema upgrade | the API, SQLite |
| Unified ids (`idkit/`) | a sequence row per bucket | next id | every create |
| Coupons, vouchers, points | counters, statuses, a ledger | issue, use, refund, redeem | orders, platform budget |
| SMS codes | one-time codes | create, verify | Redis, database |
| Realtime gateway (support chat, presence), BFF, other pages, content | presence, rate counters, CRUD rows | forwarding and rendering | |

### What is hard about it

- *Check before lock.* Handlers load a row, decide on its status, and only then
  lock the account or start the transaction; the update has no status condition
  (`wallet_service.go:1585` against `1635`, `wallet_pay_center.go:1048` against
  `1089`). Between the two, another reviewer, a callback or the worker may act.
- *One frozen number.* `frozen_balance` of an account is shared by all its open
  requests and incomes; nothing compares it with the rows it stands for.
- *Two systems of record.* The gateway and the database change in separate steps:
  a reply is lost, a process dies in between, a notice comes twice, late, or about
  an earlier attempt.
- *Blind merges.* `response_data` holds the retry counter and the trace of a
  submission, and some writers merge into it while others replace it.
- *Two writes for one fact.* A refund is stored, then the claim that asked for it;
  an order is accepted, then the deposit is locked.
- *Order of independent events.* Delivery settles, a refund reverses, and either
  may come first; a partial refund, a second claim and a failure notice mix.
- *Progress.* Incomes and payouts nobody announces are ended by tickers alone.
- *State across an await.* Pages and Node handlers read, wait, and write what they
  read: the QR session is stored whole over a newer one, an accept is sent when the
  microphone is there, a refresh stores its tokens after a logout.
- *Timers against answers.* The ring timers of server and pages, the ten seconds of
  the QR page and its polls cross with late answers of the API.
- *A version that stands for data.* The phone keeps one number for what it has seen;
  two reads of the server, pages with another clock, and a clearing all bear on it.

`PROJECT.json` lists 40 such hazards, each at its line, with the properties that
would catch it or a note why none does yet.

### What makes each component correct

- Withdrawals: no money appears or disappears; an amount leaves an account once,
  or comes back once; frozen money is exactly that of the open requests; platform
  and gateway agree on who has the money; automatic retries end at their budget;
  a payout the gateway works on is settled.
- Payment, refund, settlement: wallets are the sum of their journals; an order is
  split at most once, and at most that is taken back; the order shows the state of
  the refund it names; a claim is refunded once and knows it; income columns follow
  the ledger; every frozen income and every gateway refund ends.
- Deposits: only a paid deposit lets a rider work; a deposit is on its way back
  exactly while its request is; no withdrawal starts while he has an order; one
  withdrawal per deposit; what is on its way is frozen.
- Push: a delivery is sent at least once and its final state is not overwritten.
- Calls: a call does not ring unwatched or for ever; both sides talk or neither does.
- QR login: a token is granted only by an approval and reaches the page; the page
  never stalls.
- Consumer session: one refresh runs for all requests and wakes those that wait; the
  stored session is of the user on the screen.
- Offline data: the cache misses no change that its version says it has seen.
- Coupons, vouchers, points, codes: each is consumed once.

## The plan

Order of work, most important behaviour first.

1. **WalletWithdraw**, with **WithdrawEscrow** as the promise it implements (done).
2. **OrderRefund**: payment, settlement, delivery, refund, claims (done).
3. **RiderDeposit**: the deposit, and the withdrawals that name it (done).
4. **RtcCall**: two sides, the socket server with its ring timer, rows saved whole,
   restarts and lost connections (done).
5. **QrLogin**: the sessions of the codes and the login page (done).
6. **ConsumerSession**: the interceptor, its shared refresh, the launch (done).
7. **OfflineSync**: the version-based cache of a dataset (done).
8. **SupportChat**: rooms, acknowledgements, resends and history of
   `supportNamespaces.js` and `message-chat-page.js`; presence with it. Several
   properties one would wish fail there already on reading: an answer of the history
   replaces newer messages, a message sent again is shown twice, an
   acknowledgement is sent although the API did not store the message.
9. **PushDelivery**: materialise, claim, dispatch, acknowledge and re-queue over
   delivery rows, workers that die after the claim.
10. **RechargeCallback**: recharge and callback rows, with concurrent repeated
   notices; every recharge credited once.
11. **SettlementPlan**: the rule steps of `computeSettlementPlan` as functions,
   checked against a reference (parts add up to the order, none negative).
12. Smaller one-time resources over one abstract "consumed once": **SmsCode**,
   **Vouchers**, **Coupons**, **Points**; then **UnifiedId** and **WithdrawLocks**
   (the order of row locks, for deadlock).

Composition: OrderRefund and RiderDeposit each contain the part of delivery and of
the rider's wallet they share; RiderDeposit takes the steps of WalletWithdraw as
single steps, and its races are those of WalletWithdraw plus its own.

Every safety property a passing run checks is stated by a theorem. Still worth proving:
`PaidXorReturned` with an operator who settles by hand only what the gateway has ended,
and an abstract settlement (prepared, settled, taken back) that OrderRefund implements.

## The modules

| Module | What it is | Checked by | Proofs |
| --- | --- | --- | --- |
| `WithdrawEscrow` | the promise: an amount is held once, then paid or given back | as a property of WalletWithdraw | |
| `WalletWithdraw` | withdrawals, reviews, payouts, callbacks, the worker | `MCWalletWithdraw` | `WalletWithdrawProofs` |
| `OrderRefund` | payment, settlement, delivery, rider income, claims, refunds | `MCOrderRefund` | `OrderRefundProofs` |
| `RiderDeposit` | the rider's deposit and its withdraw request | `MCRiderDeposit` | `RiderDepositProofs` |
| `RtcCall` | one voice call: two sides, the socket server, the row of the call | itself | `RtcCallProofs` |
| `QrLogin` | login to the console by QR code: sessions and page | `MCQrLogin` | `QrLoginProofs` |
| `ConsumerSession` | tokens, shared refresh, launch, login and logout of the consumer apps | itself | `ConsumerSessionProofs` |
| `OfflineSync` | the cached dataset of a phone and its sync | `MCOfflineSync` | `OfflineSyncProofs` |
| `SetSums` | lemmas on totals over a finite set, for the proofs about money | | itself |

### Granularity of the database modules

A database transaction that starts by locking a row is one step. What a handler
read *before* that lock is kept in its `session`, and every statement that is not
inside the transaction is a step of its own. So each interleaving that two
handlers can produce by deciding on stale rows is a behaviour of the model, and
none that the row lock excludes is. Where a database has no `FOR UPDATE` (SQLite),
the version compare-and-set of the accounts has the same effect for the account
and the loser sees an error; the model has the row lock only. A handler that dies
(`Crash`) loses its session; a transaction it had open is rolled back.

### WalletWithdraw

*State.* `wallet` is the row of an account; `request` the status of a request and
whether a gateway reference is stored; `txn` its transaction with the part of
`response_data` that decides (retries, due, submitted). `payout` and `notices`
are the gateway's: the state of a payout and everything it has ever announced.
`outflow` is history only: what left an account.

*Actions.* `Withdraw` is one transaction. `ReviewWithdraw(s, r, action)` is the
load and the status check of each action; it sends the session to the statement of
that action: `ReviewApprove`, `ReviewReject`, `ReviewMarkProcessing`,
`ReviewComplete`; `execute` to the payout call (`PayoutAccepted`,
`PayoutPaidAtOnce`, `PayoutRefused`, `PayoutError`) and then `ReviewExecuted`.
`retry_payout` goes through `RetryHold` (its own transaction), `RetryReload`, the
same call, and `RetryRestore` when that failed. `GatewayCallback` and the
supplement actions run `CallbackSettleRead`/`SettleRead`, `Settle`,
`CallbackFailRead`, `FailRead`, `Fail`. `WorkerRefresh` and
`sync_gateway_status` ask the gateway (`RefreshQuery`), then settle, fail, or
write progress in the two statements outside a transaction (`ProgressRecord`,
`ProgressData`).

*Left out.* Fees (the amount is what moves), account status and risk checks (they
refuse before anything changes), admin operation rows, notifications, the
rider-deposit side effect (RiderDeposit has it), the legacy status `pending`, which
nothing writes, the dedupe of callbacks by fingerprint, and the bank sidecar:
`bank_card` is the manual batch. A retry that is submitted again under the same
number is one payout that may start over after a failure.

### OrderRefund

*State.* `order` (progress, payment status and method, the refund it names, the
income columns), `payment` and `refund` (wallet transactions of these types),
`balance` of each buyer, `snapshot` and `ledger` of the settlement, `rider` (wallet
and the income transaction of each order), `claim`, and `gateway`: the refunds it
took on.

*Actions.* `PayOrder` and `PaymentNotice` pay and prepare the settlement
(`PrepareSettlement`). `Accept`, `Dispatch`, `Pickup`, `Deliver`; `Deliver` settles
the order and freezes the rider's income in one transaction, `SettleRiderIncome` is
the ticker. A decision on a claim is `UpdateStatus` (read and check), `RefundOrder`
(read the order), `CallGateway`, `CommitRefund` (store), `WriteClaim`. A notice is
`SuccessNotice` then `CompleteRefund`, or `FailureNotice`. The reversal is
`EndRefund`: entries in proportion, rounded half up each, and income columns
computed from the order the handler read before.

*Left out.* The split is the constant `Share`; prices are whole cents; refunded
amount and time columns of an order, which nothing reads to decide; group-buy
redeem rules; the backfill of incomes at start-up. `rejected` stands for every
decision that allows no refund. The number of refunds is bounded by `Refunds`.

### RiderDeposit

*State.* One rider: `deposit` records in the order of their creation, with the
status, the request they name, whether an order was accepted since the lock, and
whether the rest is over; `payment`, `request`, `wallet`, `order`.

*Actions.* `RefreshRead`, `RefreshCount`, `RefreshWrite` are
`refreshRiderDepositState`; `Resume` says what each caller does with the record it
gets: nothing, `AcceptOrder` then `MarkRiderAccepted`, `CreatePayIntent`, or
`WithdrawRiderDeposit`. `NoticeRead` and `PaymentSucceeds`, `PaymentFails` are the
callbacks. `Submit`, `Complete`, `Fail`, `Retry` are the withdraw request; each
moves the deposit that names it (`Linked`). `Rest` is the passing of the unlock
days.

*Left out.* The payment status of an order (an accepted order is a paid one), the
races inside a withdraw request (WalletWithdraw has them), fee previews, the
choice of a method. `MarkRiderAccepted` reads the latest record and writes it in
one step.

### RtcCall

*State.* `row` is the status in the audit row; `announced` and `ring` what the socket
server knows (call created and invite sent, ring timer set); `job` what each of its
handlers awaits. `up` and `down` are the events under way, `sock` the connection of a
side. `stage`, `shown`, `timer`, `accepting` and `closed` are the page. `kind` says
whether a side is a mobile app (`rtc-call-page.js`) or the console (`adminRtc.js`):
the client of the apps drops what is sent while it is not connected, that of the
console keeps it.

*Actions.* `RtcStartCall`, `RtcStatusEvent` and `RingTimer` take up an event or the
timer up to the first await; `ApiAnswers` and `ApiFails` are the request to the API,
`AfterCreate`, `AfterMark`, `Announce`, `AfterStatus`, `AfterFetch`, `AfterFailure`
what follows it. `PlaceCall`/`StartSession`, `OpenInvited`/`JoinSession`,
`ConsoleStart` and `ConsoleInvited` open a page; `PageEvent`, `PageTimer`,
`LeavePage`, `Cancel`, `Reject`, `End`, `Accept`/`AcceptReady` are the rest of it.
`ServerRestarts` loses timers, handlers and events; nothing brings the timers back.

*Left out.* Sound and its signalling, the list and retention of the audit, several
devices of one user, and the record of `rtc_joined`, which the page does not look at.
An event or a request takes less time than the ring timeout as long as nothing failed.

### QrLogin

*State.* `redis` and `local` are the two copies of the session of a code, `age` its
two minutes and the time it is kept; `job` the requests under way, each with the copy
of the session it has read; the rest is the login page.

*Actions.* `Arrive` is the read a request makes when it comes in (`AdminActs`,
`PollStatus`); `Scan`, `Confirm`, `HandOut` and `Decline` what it does when the answer
is there, each with `Persist` of the whole session; `PollAnswer` and `PollFails` are the
page. `RefreshTimer`, `ToggleMode`, `Created`, `CreateFails` are its timers and its mode.
`Restart` empties `local`.

*Left out.* The token itself, login by password and SMS on the same page, the
deployment that lacks the route. A code that is forgotten may be used again and stands
for a fresh one.

### ConsumerSession

*State.* `stored` is the session in the storage (owner, whether the app finds it near its
end, whether the server still takes it), `user` who is on the screen, `req` the requests
(the waiting ones are `refreshSubscribers`), `launch` the check of `verifySession`.
`crossed` is history: a session was cleared while a refresh was under way.

*Actions.* `Begin`, `Judge`, `Handle401`, `Handle401LoggedOut`, `RefreshAnswers`,
`RefreshFails` and `RequestFails` are the interceptor; `LaunchApp`, `LaunchRefreshed`,
`LaunchRefreshFails`, `Verified`, `VerifyRefused` the launch; `Login`, `Logout`, and
`ExpiresSoon` and `Expire` for the two clocks, that of the device and that of the server.

*Left out.* A page that closes while the app starts, the profile that is fetched beside
the token, and the caches a logout clears (OfflineSync has the clearing).

### OfflineSync

*State.* `row` holds content, second of `updated_at` and status of each row; `cache` and
`version` are the tables of one dataset in the phone. `Ahead` is `Date.now()`, which is
in milliseconds and later than any second. `pc`, `local`, `newVersion` and `pulled` are
the one sync of a launch. `passed` is history: the records a change of which the client
passed over in one of the ways `NoChangeMissed` names.

*Actions.* `Change`, `Switch`, `Delete` and `Tick` are the server; `SyncStart`,
`StateAnswer`, `SetBack`, `UpToDate`, `AskChanges`, `PullVersion`, `PullChanges`,
`SavePull` and `SyncFails` are `syncInBackground` with the two reads of `GetSyncData`;
`PageSave` is `getData`; `Clear`, `AppStart` (with the schema upgrade) and `Kill` the app.
A save is one step that may leave any part of its rows unwritten, which covers the prefix a
kill leaves and the statement that fails. What a page caches may be any content the row
has had, since the lists are served from Redis copies of up to ten minutes.

*Left out.* `forceSync` and `LocalDB.clearCache`, which nothing calls; the queries on the
cache; that records of different datasets share one loop, whose failure in one dataset
ends it for the next (`SyncFails`). Every change is assumed to be committed in the second
of its `updated_at`: a transaction that commits later can be missed as well.

## The runs

`Last`, `Requests`, `Handlers`, `Slots`, `MaxCrashes`, `MaxFaults`, `MaxTaps`,
`RetryBound`, `Refunds`, `MaxEdits`, and `Ahead` as the end of the clock, are bounds of
the models, not of the code. The deadlock check is on where the system never stops
(`session_*`, `offline_sync`: users and rows go on). The other configurations say
`CHECK_DEADLOCK FALSE`: requests, orders, deposits, taps and codes are used up, and a
system without work really stops.

| Run | Question | Instance | Result |
| --- | --- | --- | --- |
| `withdraw_race_one` | can a race of handlers and worker pay twice or lose money? | 1 request, 2 handlers and the worker, one manual retry, lost replies | holds (1.8 M states) |
| `withdraw_sequential` | is the service an escrow when nobody races? | 2 requests of one account, WeChat and bank, all ten actions, a crash, late notices | holds, with the refinement |
| `withdraw_gateway` | do platform and gateway agree, and does the worker finish? | 2 requests, Alipay and WeChat, 2 crashes, fairness | holds |
| `refund_race` | do wallets, ledger and order survive two handlers? | 1 order, 2 payments, 1 claim, 2 refunds, 2 handlers, a crash | holds (0.8 M states) |
| `refund_serial` | do claims, incomes and notices come out right? | 1 order, 2 claims, 2 refunds, 1 handler, fairness | holds |
| `deposit_serial` | does the deposit follow payment, request and work? | 2 deposits, 2 requests, 2 orders, a crash | holds |
| `rtc_ring` | does a call ring unwatched, for ever, or one-sided? | every pairing of app and console, 2 handlers, a tap per side, a fault, fairness | holds (0.45 M states) |
| `rtc_start` | is a call that was placed started? | the same without faults | **violated**: the event is dropped |
| `qr_login` | who gets a token, and does the page go on? | 2 codes, 2 administrators, 2 requests, a fault | holds (3.6 M states) |
| `session_refresh` | one refresh for all, and the right session? | 2 requests and the launch, 2 accounts, a fault, fairness | holds (0.16 M states) |
| `session_logout` | does a logout last? | the same without faults | **violated**: a late refresh logs in again |
| `offline_sync` | does a sync miss a change? | 2 records, 3 seconds, 2 contents each, kills and failing statements without bound | holds (1.7 M states) |

*Why the bounds are enough.* Two handlers and the worker give every pair of
conflicting statements and a third actor to change what both read; one retry
reaches the second life of a request, which every stale reader of the first can
meet. Two requests with different amounts on one account, with a deposit that
covers both, are the least in which one request's money can be taken for the
other's. Two refunds with a half and a full amount reach partial-then-full,
full-then-partial, failed-then-again and rounding (the split has odd parts). Two
deposits reach the "latest record" rule; two orders let one be active while
another's income is due. In a call, one tap per side and two handlers let each pair of
events cross on the server; a fault reaches the restart between any two of them. Two
codes are the one the page shows and the one it showed before; two requests are the
read and the write that crosses it. Two requests and the launch are the one that
refreshes, the one that waits, and the refresh that knows nothing of either. Two
records, one of which moves the version while the other changes, and three seconds
(before, at and after a version) reach both sides of each comparison. A larger
instance of each multiplies the same cases.

*Operating assumptions.* `Exclusive` (WalletWithdraw) and `Serial` (OrderRefund,
RiderDeposit) say that two handlers do not work on the same request, order or rider
at once. The code does not enforce this; it is how operators work. Properties that
need it are checked with it and are known to fail without it (`StartsAtRest`,
`HoldMatchesStatus` and `IncomeMatchesLedger` fail with two handlers). The
properties of `withdraw_race_one` and `refund_race` do not need it, and are proved
without it; those of `withdraw_sequential`, `withdraw_gateway`, `refund_serial` and
`deposit_serial` are proved with it, but for liveness and the `TypeOK` of RiderDeposit.
`LateNotices` and `ReplyLoss` are off in `withdraw_gateway` only, where the question is
whether two sides agree when the answers do arrive.

*Fairness.* `FairSpec` of WalletWithdraw: a handler that has started runs on (weak,
per session step); the gateway ends a payout (weak); the worker's two passes are
strongly fair per request, since the ticker fires for ever and looks at the oldest
50 rows: this holds while no more than 50 requests are in flight, and the
starvation beyond that is a listed hazard. `FairSpec` of OrderRefund: the minute
ticker (weak), the gateway (weak) and its notices (strong, because it repeats them
until one is answered, and the number of handlers is only a bound of the model),
handlers run on (weak). RtcCall: handlers run on, a socket opens, an event reaches its
page and a timer fires (all weak). ConsumerSession: a request is answered and its
answer handled (weak). Nothing is assumed of users and operators.

Every property of a passing run has a mutant in `PROJECT.json`: a plausible bug,
defined in the module and marked as a mutant, under which TLC finds the property
violated.

## The findings

Each violation run states what a test of the repository says, and TLC finds a behaviour
of the code that does otherwise.

- A call placed from a mobile app emits `rtc_start_call` in the step that creates the
  socket; the client drops it, since it is not connected yet (`rtc-contact.js:270`,
  `socket-io.js:168`). The caller sees a call that the server neither announces nor times.
- The answer of a refresh stores new tokens after a logout
  (`consumer-request-interceptor.js:98`).

### Known divergences

Found while modelling, without a run of their own: the model shows each of them when the
property in brackets is checked without its condition.

- A crash between `RefundOrder` and the write of the claim leads to a second refund
  (`after_sales_service.go:547`); the idempotency key meant to stop it is replaced by
  a fresh id before the look-up, `unified_external_id.go:42-64` (`RefundedOnce` with a
  crash).
- For the same reason a payment repeated with one key is charged again
  (`payment_service.go:105`; the two payments of `refund_race` carry one key).
- Several claims may refund an order beyond its price (`payment_service.go:343`).
- An Alipay payout that succeeds in the reply to `execute` is recorded as a success and
  its amount stays frozen (`wallet_service.go:1705`; `HoldMatchesStatus` with an
  Alipay request).
- The refresh of a deposit overwrites "withdrawing", so that two handlers withdraw one
  deposit twice (`wallet_pay_center.go:1089`; `DepositFollowsRequest` without `Serial`).
- A deposit withdrawal freezes nothing, and each way to end it lowers the frozen balance,
  which is that of incomes (`wallet_pay_center.go:1329`).
- An approval given to the code the QR page has just replaced is granted and never
  polled (`loginPageHelpers.js:266`).
- A page that caches what it fetched sets the version of the cache ahead of the server's,
  in milliseconds; the next sync sets it back to the server's and asks for nothing, so
  that what changed since the last sync stays stale until it changes again
  (`sync-service.js:364`, `306`). `sync_service.go:44` says that versions are computed
  from the database "避免 Redis 长缓存导致新增数据不同步" (so that new data does not stay
  unsynchronised). (`NoChangeMissed` without `passed`.)
- A cache cleared while a sync is under way, or whose clearing is cut short, keeps a version
  that stands for records it no longer has (`consumer-cache.js:55`).
- A row that is hard-deleted on the server stays in the cache of the phone: no sync tells
  of it (`shop_repository.go:824`).
- A row whose statement fails is skipped by the version written after it
  (`local-db.js:543`).

## The proofs

Proved by TLAPS for every value of the constants that satisfies `ConstantsOK`: any
number of accounts, requests, orders, claims, deposits, codes, records, handlers and
faults. `ConstantsOK` only gives the constants their types (an amount is positive, an
owner is an account, and so on). What a theorem about the database modules assumes beyond
that stands in its statement, and is what the code needs:

| Theorem | States | Assumes | Because otherwise |
| --- | --- | --- | --- |
| `TypeCorrect`, `Conservation`, `LoneRequestPaysOnce`, `LedgerSound`, `OrderFollows`, `RefundTakesBack`, `WalletsAddUp` | `TypeOK`, `MoneyConserved`, `LonePaysOnce`, `LedgerMatchesSnapshot`, `OrderFollowsRefund`, `RefundTakesSplitBack`, `WalletsMatchJournal` | nothing | |
| `TransactionFollows`, `EscrowImplemented`, `HoldsAddUp` | `TxnFollowsRequest`, `ImplementsEscrow`, `HoldMatchesStatus` | `Exclusive`, no request on Alipay | a handler overwrites the status another wrote; a transfer answered as paid keeps its hold |
| `PaidOrReturned` | `PaidXorReturned` | `Exclusive`; no settling by hand, no lost reply, no late notice | the platform decides on what the gateway did not say, or said of an earlier attempt |
| `RetriesWithinBudget` | `AutoRetryBudget` | `Exclusive`; no manual retry | two passes retry on one due date; an operator may retry beyond the budget |
| `IncomeFollowsLedger` | `IncomeMatchesLedger` | `Serial` | the columns are computed from an order that changed meanwhile |
| `ClaimsKnown` | `ClaimKnowsRefund` | `Serial`, no crash | a refund is stored one step before its claim |
| `RefundsOnce` | `RefundedOnce` | `Serial`, no crash, no lost reply | an accepted refund that was not stored is made again |
| `SerialHeldWasPaid`, `SerialDepositFollows`, `SerialStartsAtRest` | `HeldWasPaid`, `DepositFollowsRequest`, `StartsAtRest` | `Serial` | a second handler changes what the first has read |

The theorems of the JavaScript components assume nothing; their properties name the faults
they except. Each assumption is a setting of the constants of the model, and the
configuration of the run that checks the property has that setting.

*WalletWithdrawProofs.* Every step of `Next` is abstracted by `Moves`: the wallet
stays, or one amount goes from balance to frozen, back, out, or is spent, each with
its guard (`StepMoves`). `TypeCorrect` (`TypeOK`) and `Conservation`
(`MoneyConserved`) follow from `Moves` and the types of the rows, one lemma per group
of actions. `LoneRequestPaysOnce` needs the strengthening `LoneInv`: for a request
that is alone on its account, the frozen balance is nothing or its amount, what left
is nothing or its amount, never both are there, and a session about to write the
reply of a payout or to undo a hold may do so only in a state in which that is
harmless. It is inductive although the status of the request may be anything in
between: the frozen balance, checked under the lock, is what protects the money.

Under `Exclusive` one handler works on a request (`Alone`), so the status it finds at
its statement is one its action takes (`StatusFound`, a table from points to statuses).
With `Accepted`, that the reply about to be written is "transferring", and
`TxnFollowsRequest` this is inductive (`SoloInv`), and `TransactionFollows` is a part of
it. For `EscrowImplemented` each step moves the stage of one request as WithdrawEscrow
does, with the money that goes with it, or moves none (`StageStep`, `StageNext`).
`HoldsAddUp` uses the same lemma: a step that moves a stage adds an amount to the open
requests of an account exactly when it adds it to the frozen balance (`HoldSums`).
`PaidOrReturned` needs what a session knows of the payout, a table from points and
statuses to states of the payout (`PayInv`); `RetriesWithinBudget` that every copy of the
retry counter, those in sessions included, is within the budget and due only below it, and
that a handler about to retry still finds it due (`BudgetInv`).

*SetSums.* `HoldMatchesStatus` and `WalletsMatchJournal` sum over sets, and a sum is
defined by a recursion over the subsets of a set. The provers cannot apply an induction
rule; the lemmas take a smallest subset for which the claim would fail instead
(`SmallestSubset`, from the well-foundedness of strict inclusion on a finite set). They
show that a sum does not depend on the order in which elements are taken (`SumIs`), and
what adding or removing an element does to it (`SumAdd`, `SumRemove`).

*OrderRefundProofs.* `Typed` is `TypeOK` with `Holds`: a session that works on a
refund names one. Its arithmetic core is `PartBound`: the rounded part of an entry
is never more than the entry. `LedgerSound` (`LedgerMatchesSnapshot`) follows from
that and from the reversal taking place once (`ReversedOnce`). `OrderFollows`
(`OrderFollowsRefund`) needs `Fresh`, that a refund a handler has reserved is not
stored and reserved by no other, and so `StableRefund`, that a stored refund changes
only as its notices say; and `Follows`, which says the same of the refund an order
names while its notices are handled. `RefundTakesBack` (`RefundTakesSplitBack`)
adds `Prepared` (an order that is paid has a prepared settlement), `Closed` (after a
refund succeeded, an order is not split any more) and `Explained` (what was taken
back is the part of one of its refunds).

`WalletsAddUp` rests on `Sources`: a payment from the wallet is never pending, an income
exists only for a delivered order, a refund that waits is one of the gateway. So each
transaction enters the sum of its wallet once, in the step that moves the money
(`BuyerStep`, `RiderStep`). The sets of journal entries stay finite, since a step adds one
entry at most, so the sets of constants need not be.

Under `Serial` a handler is alone with its order (`Alone`), and nothing but its own
reversal changes the income of that order (`IncomeWhileWorking`); so the order it has
read still has the income it read (`Seen`), and `IncomeFollowsLedger` is arithmetic.
`ClaimsKnown` needs `Known`: the refunds made for a claim agree with the record of the
handler about to write the claim, or else with the claim (`Records`); a handler about to
store a refund knows that the claim has none (`Empties`); a claim names a refund of its
own (`Names`); a handler at a notice finds the refund waiting (`Waits`). `RefundsOnce`
adds the gateway's side (`Booked`): what it took on is stored, or a handler is about to
store it. (These invariants were checked on the instance of `refund_serial` with two
handlers before they were proved.)

*RiderDepositProofs.* `TypeCorrect` (`TypeOK`) holds in every interleaving.
Under `Serial`, `HeldWasPaid`, `DepositFollowsRequest` and `StartsAtRest` follow from
`Rows` and `Sessions`, which are inductive together. `Rows` says that a deposit not
paid yet is not held and names no request (`PaidFirst`), that deposits are created
in order (`InOrder`, so that the next one is new) and that a request not created yet
is named by no deposit (`Fresh`). `Sessions` says that one handler runs (`Solo`) and
that what it goes on with is still so (`SessionFacts`): the deposit it read is the
latest and held, the rider is at rest when it starts a withdrawal, the payment it
settles is pending. These are the facts that a second handler takes away. (`Rows` and `Sessions` were checked on the instance of
`deposit_serial` with two handlers before they were proved.)

*QrLoginProofs.* `QrTyping`, `QrSessionsCoherent`, `QrTokenNotLost` and `QrPageAlive`
come from one inductive invariant: every copy of a session, the stale ones in requests
included, is coherent, and a reply that carries a token exists wherever a session is
consumed and nothing failed.

*ConsumerSessionProofs.* All four safety properties. The invariant adds that the tokens
requests and launch hold are of the user on the screen unless `crossed`, and that a
request that refreshes holds a refresh token.

*OfflineSyncProofs.* `TypeCorrect` and `NothingElseMissed` (`NoChangeMissed`) from
`IInv`: what a sync has pulled is right for the version the server read just before
(`Answer`), because a row that changes later changes in that second or after it; what it
did not pull was right for the version it started from (`Started`), and that stays so
while pages and the user write over the cache; a part of an answer does no harm to a
cache that keeps its version (`Part`). Reading the changes before the version, or
comparing whole seconds, breaks `Answer`.

*RtcCallProofs.* `RtcTyping`, `RtcRingWatched` and `RtcTalkingTogether`. For the first
two: the start of a call is in one queue once and one handler takes it up (`Once`), so
nothing makes an announced call wait again; whoever clears the ring timer goes on to
settle the call, and a handler that gives up read a status that stays settled
(`Handlers`). For the third (`Links`, `Talk`): without faults the caller of an announced
call stays connected, nothing in the system says "accepted" until the callee is connected
too, and from then on every status goes to both. `Links` also shows what the finding
`rtc_start` means here: without faults the caller of an announced call is a console.

*Model-checked only.* Liveness under fairness (`WorkerSettles`, `IncomeAndRefundsEnd`,
`WaitingEnds`, `RequestsEnd`): it needs ENABLED, which the prover does not reach.

## Not modelled

Most of the JavaScript of the repository (some 174 000 lines) is not about state that
steps of several actors share, and no module can stand for it faithfully: tables of
settings and of API documentation (`system-settings-resources.js`,
`api-documentation-resources.js`, `payment-center-resources.js`), pages that load, render
and submit what the API holds, formatting and normalisation of payloads, management and
verification scripts, and tests. A map of it would be wide lines under thin definitions.
What the map covers are the files whose state machines are modelled, and it remains a
small part of the lines.

Content, shop, official site and dining-buddy services are rows with create, read, update
and delete. The BFF forwards, apart from the QR sessions. HTTP, signatures and encodings
of gateways and sidecars are outside what the properties are about. Support chat, push,
recharge, coupons, vouchers, points, codes and ids are planned in the order given above.

Hazards of these parts, beside those in `PROJECT.json`: coupons, points
(`points_service.go:195`) and vouchers compare a counter before the statement that changes
it; a push delivery that is claimed stays so when its worker dies
(`mobile_push_dispatcher.go:483`); the amount to pay truncates where settlement rounds
(`payment_service.go:149`); the bank sidecar keeps its payouts in memory
(`bank-payout-sidecar/server.js:10`); a retried withdrawal keeps the trace of its first
submission (`wallet_service.go:2121`); reviews, retries and failure callbacks lock rows in
different orders (`payment_service.go:785`).
