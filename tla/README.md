# AugmintCore in TLA+

A TLA+ model of the AugmintCore backend (`src/app`), a FastAPI service for
crypto portfolios: TLC checks small instances, TLAPS proves the central safety
properties for every instance.  All paths below are relative to `src/app`.

## 1. The system

One process and one asyncio event loop run HTTP handlers, websocket sessions
and background tasks; code between two `await`s is not interrupted.
PostgreSQL (one session per request), redis (pub/sub and a cache), Coinbase,
Stripe and AWS are outside.

| Component | State | Operations | What makes it hard | What makes it correct |
|---|---|---|---|---|
| Symbol workers (`websocket/background/coinbase_worker.py`, `handlers/market_price.py`) | `symbol_workers` (registry), `symbol_subscribers` (count), one task per worker and per handler | `ensure_symbol_worker`, `remove_symbol_subscriber`, `stop_symbol_worker`, the worker's connect/relay/retry loop | handlers interleave at every await, the last one awaits the worker it cancels, tasks are cancelled anywhere | count = holders, one publisher per symbol, holders are served, a stopped feed has no worker, no wait is for a worker that goes on, feeds come back |
| Market websocket (`websocket/router.py` `/ws`) | the session, `active_tasks`, `current_symbol`, three stream tasks, a ping task | authenticate, subscribe, unsubscribe, change symbol, disconnect | client messages race the streams' own failures; the closing of a socket is noticed late | every running stream is tracked or cancelled, follows the symbol, ends with the client |
| Dashboard websocket (`/ws/dashboard`) | none of its own | read `dashboard:<user>` every 2 s | - | - |
| Payments (`api/payment_routes.py`, `services/payment_service.py`) | `subscriptions`, `transactions`; Stripe's subscriptions and undelivered events | checkout / update / renewal / deletion webhooks, cancel, create a checkout session | redelivery, reordering, concurrent deliveries, partial failure between Stripe and the database | a payment is recorded once, never acknowledged unrecorded; rows are paid for; a plan shown as cancelled is cancelled at Stripe, but for one race |
| Background tasks (`main.py`, `dashboard_worker.py`, `portfolio_snapshot_worker.py`, `top10_listener.py`) | dashboards in redis, `portfolio_snapshots`, `price_store`, three tasks | start, per-user cycles, reconnect with backoff, shutdown | one user's failure against the others', exceptions that end a task, cancellation against a finally block | no user is starved, cycles are stored whole, the shutdown ends and leaves nothing running |
| Exchange account (`api/exchange_routers.py`, `coinbase/coinbase_cctx.py`, orders and queries in `coinbase/exchange.py`) | `user_exchanges`, the secret in Secrets Manager, `exchange_orders`, clients with open connections | connect, build a client (3 attempts, fallback), order, query, candles, volatility | check-then-act over network calls, answers lost, several stores written in turn | an order is placed once and recorded or reported as failed; clients are closed; connected users have keys |
| Calculations (`coinbase/exchange.py`, `candels.py`) | none | portfolio value, profit and loss, candles, volatility | boundary sizes, gaps in data | agree with their definitions |
| Accounts (`api/router.py`, `auth/user.py`, `settings_service.py`) | `users`, `addresses`; customers at Stripe; mails handed over | signup, resend, verify, address, MFA, forgot and reset, change the profile, check out | every request commits what it derived from a row read earlier, without a lock; Stripe and two commits in one request | e-mail addresses are unique, a one-time password keeps its expiry and is mailed, a verified user has a customer and keeps it, nothing achieved is withdrawn and nothing replaced returns |
| The rest of the settings, Secrets Manager and KMS wrappers, market data REST, redis helpers, configuration, schemas, e-mail | rows of one user or none | single calls | - | - |

Interaction: a market session creates stream tasks; its `market_price` task
takes and releases symbol workers and hears them through redis pub/sub; the
dashboard websocket reads what the dashboard worker wrote to redis; dashboard,
snapshots and orders all go through `get_keys` and
`get_working_coinbase_exchange`, and so depend on what `connect_exchange`
stored.

The hazards of this code, each at its line and with the properties that watch
over it, are listed in `PROJECT.json`.

## 2. The modules

| Module | Models | Code |
|---|---|---|
| `FeedLease` | what the symbol workers promise: a feed that is leased, live while leased | abstract |
| `SymbolWorkers` | workers, counter and handlers | `coinbase_worker.py`, `market_price.py` |
| `SymbolWorkers_proofs` | proofs about it | |
| `StreamPanel` | what a market connection promises: one stream per category, silence after an announced end | abstract |
| `MarketSession` | one `/ws` connection with its tasks | `websocket/router.py`, `order_book.py`, `top_10.py` |
| `MarketSession_proofs` | proofs about it | |
| `PaymentLedger` | what the payment service promises: booked once, then reported, shown as cancelled only after some purchase was stopped at Stripe | abstract |
| `Subscriptions` | one user's plan, Stripe, concurrent webhooks and cancellations | `payment_routes.py`, `payment_service.py` |
| `Subscriptions_proofs` | proofs about it | |
| `OrderlyStop` | what the application promises about its tasks and its engine | abstract |
| `BackgroundTasks` | the three tasks and the shutdown | `main.py` and the workers |
| `TradingDesk` | what an exchange account promises: keys, link, acceptance, record, confirmation, in this order | abstract |
| `ExchangeAccounts` | connect, order and query requests of one user | `exchange_routers.py`, `coinbase_cctx.py`, `exchange.py` |
| `BackgroundTasks_proofs`, `ExchangeAccounts_proofs` | proofs about them | |
| `UserRegistry` | what the users table promises: one user per address, verified with a customer of its own | abstract |
| `Accounts` | the users table and the requests that write it | `api/router.py`, `auth/user.py`, `settings_service.py`, `payment_service.py`, `exchange_routers.py` |
| `Accounts_proofs`, `AccountsRegistry_proofs` | proofs about it; that it implements `UserRegistry` | |
| `MC...` | the instances TLC checks | |

**Steps.** An action is the code between two awaits of one task.  Where several
awaits touch nothing shared they are one action (an order's markets, ticker and
balance; a worker's connect and subscribe).  Every await may raise, and a
cancellation arrives at an await.

`SymbolWorkers`.  `EnsureSymbolWorker`, `DropSubscriber`, `StopSymbolWorker` are
the code's functions up to their first await.  A handler is identified by the
task; its state says which await it is in (`subscribe`, `listen`, `unsubscribe`,
`stopping`).  A worker is named after the handler that started it, so
that several workers of one symbol can exist and be told apart.

`MarketSession`.  `kind`, `symbol`, `state` and `cancels` describe each stream task
the session may create; `active_tasks` names one of them per category, or none.  `Replace` is `cancel_task` followed by
`create_task`.  The order book's set-up (keys, client, markets) either returns
or raises in one step.

`Subscriptions`.  A request remembers the row it read and the value of
`cancel_at_period_end` it saw: the ORM writes only attributes that changed since
then, so a late commit keeps another request's flag.  `status` is written by every
commit: the handlers assign a string, the value read is a member of a plain
`Enum` (`models/user.py:96`), and the two are never equal.  A commit is atomic and
`stripe_event_id` is unique.  Renewal and deletion events change nothing: both
handlers raise before they write and the route swallows it.

`BackgroundTasks`.  A cancelled task gets `CancelledError` in its current await.  If
the finally block then fails to close the client, that exception takes its
place: the dashboard worker's per-user `except` takes it for a failure of the user
and goes on, the snapshot worker ends with it.

`ExchangeAccounts`.  Each request is used once.  Secrets Manager and KMS are
called without an await, so storing the secret and sending the commit are one
step, the commit's outcome is another.  `clients` counts the exchange clients a
request has built and not closed; a query's markets, balance and tickers are
one step, since only the retry of the balance does something else after a failure.
The older candle endpoint never closes its client, the volatility does so only
after its candles were fetched; `LeavesOpen` names these two.

`Accounts`.  A request is three steps: read the row, check it and assign (one
action per endpoint); commit; refresh and answer.  What lies between the read
and the first commit either waits for nothing (Stripe's client blocks the event
loop) or only reads other rows.  `req` keeps the row as it was read and as the
request wants it.  `Flush` is what SQLAlchemy's unit of work sends: the
attributes whose value differs from the one read, and no others, so a column
that another request has changed meanwhile keeps its new value unless this
request assigns it too.  `ConnectExchange` is what `connect_exchange` assigns to
the user, the onboarding step; the rest of that request is in `ExchangeAccounts`.
`create_address` commits twice (`AddressCommits`,
`Commits`).  A mail carries the one-time password that the refresh has read.
`Fails` ends a request at any await.  Whatever a request draws (one-time
password, secret, hash, customer) is named after the request, so two requests
never draw the same.  Requests that only read (login, tokens, logout, the MFA
check at login) and rejected ones change nothing and are left out, and so is
the phone number, which is checked and constrained the way the address is.

**Abstract specifications.**  Each component ends with the promise it keeps:
an `INSTANCE` of its abstract module with the mapping, and the property
`Implements...`, `Keeps...` or `StopsInOrder`.  The abstract modules know
neither requests nor tasks, so the mapping tells what a step of the code means
to a user.

| Property | Mapping | What a step may never do |
|---|---|---|
| `ImplementsLease` | the holders of a symbol, the number of workers that can publish it | leave a leased feed without its one publisher, or one that nobody leases with any |
| `KeepsPanel` | `Sending`: all tasks of a category that can still send, with their symbols | let two streams of a category send, or one after its announced end |
| `KeepsLedger` | the rows' subscriptions and marks, the payments recorded, the checkouts not yet acknowledged, Stripe's subscriptions | book twice, acknowledge before booking, drop a plan, show a cancellation before Stripe was told to stop some purchase of the user |
| `StopsInOrder` | the tasks that have not ended, a snapshot task that died, the place of the shutdown | dispose of the engine under a worker, revive a task |
| `KeepsDesk` | the secret, `connected`, orders at the exchange and in the table, the answers | accept twice or before linking, confirm what is not booked |
| `KeepsRegistry` | the columns of committed rows and Stripe's customers | change two users at once, take an address that is not free, withdraw anything |

In a module, an operator whose comment begins with "Slip" is not part of the
specification: it is a plausible mistake in the code, kept beside the definition
it would replace, and TLC finds the property named in `PROJECT.json` violated
with it.

## 3. The runs

| Run | Instance | Shows |
|---|---|---|
| `workers` | 3 handlers, 1 symbol, fair | typing, `CountMatchesHolders`, `HoldersAreServed`, `OnePublisherPerSymbol`, `WaitsEnd`, that `SymbolWorkers` implements `FeedLease`, and `CancelledHandlerEnds`, `FeedComesBack` |
| `workers_count` | 2 symbols | finding: a handler cancelled at SUBSCRIBE stays counted |
| `session` | 3 task slots, 2 symbols, fair | `StreamsAreTracked`, that the session implements `StreamPanel` (`KeepsPanel`), `CancelledOnce`, `AllStreamsFollowSymbol`, `AuthIsDecided`, `GoneClientIsForgotten` |
| `session_close` | 1 symbol | finding: a `market_price` task outlives its session |
| `payments` | 2 purchases, 2 requests in progress, symmetric | that `Subscriptions` implements `PaymentLedger` (`KeepsLedger`), `RowsArePaidFor`, `AcknowledgedIsRecorded`, and which purchase a cancellation is about (`UntoldOnlyByStaleRow`) |
| `payments_mark` | the same | finding: an announced cancellation is answered but not marked |
| `background` | 3 users, one without a working exchange, 2 failing calls | that the tasks implement `OrderlyStop` (`StopsInOrder`), `CycleIsStored`, `HealthyUsersRefreshed`, `Top10KeepsTrying`, `ShutdownEnds` |
| `background_dispose` | the same | finding: a dead snapshot task prevents the engine's disposal |
| `exchange` | 3 requests, 3 attempts | `ClientsClosed`, that the account implements `TradingDesk` (`KeepsDesk`), `ConnectedHasKeys`, `RequestsEnd` |
| `exchange_once` | the same | finding: two concurrent connects store two rows |
| `accounts` | 4 requests, 2 in progress, 2 addresses, symmetric | that `Accounts` implements `UserRegistry` (`KeepsRegistry`), `OtpKeepsItsExpiry`, `VerifiedIsComplete`, `FilledHasAddress`, `AnsweredOtpWasMailed`, `CustomerReplacedByRivalOnly`, `NoOldValueReturns`, `MfaTornByStaleReadOnly` |
| `accounts_expiry` | 3 requests | finding: an expired reset one-time password is accepted |

**Bounds.**  Three handlers are the least with which one stops a worker, one
starts the next and a third comes in between.  The second symbol only shows that symbols
do not disturb each other; the theorems have any number of them.  Three slots hold
the streams of the three categories, or one with its cancelled predecessors and
another; the theorems have any number of slots.  Two requests on a subscription
let an event race its own repetition, another purchase or a cancellation; two
purchases give the second row.  Of three users one
fails always and two can be in a cycle together; the first failing call can
break a session, the second end a task.  Two connects race while a third
request uses the account, and `Attempts` has the code's value.
Four requests on the users table are a signup and three that race on its row,
or two users and a request of each; `MaxActive` = 2 lets one request commit over
another's row and a third start from the result.  `MaxFaults` (`BackgroundTasks`)
is the only bound on failures; the other modules
let every call fail any number of times.  `CHECK_DEADLOCK FALSE` stands where the
system does stop: every session closed, every request answered, the
application down.

**Fairness.**  Weak fairness of what the event loop runs without anyone's help:
a runnable task is run, `asyncio.sleep` and `wait_for` end, a call returns or
raises, a closed socket fails to send.  No fairness for clients, for Coinbase
sending messages, for redis publishing, for Stripe or for the decision to shut
down.  `HealthyUsersRefreshed` rests on the bounded number of failing calls;
`ShutdownEnds` is stated for shutdowns in which closing a client does not raise,
since a raising close swallows the cancellation of the dashboard worker
(section 2).

## 4. What is proved

Every invariant and every action property that a run checks, and all six
refinements, are theorems for every value of the constants.  Each component has an
inductive invariant `IInv` (`Invariance`): none of the properties is inductive
alone.  The step proof has one case per action, and each property then follows
from `IInv` in a few lines.

`SymbolWorkers_proofs`, for any finite set of handlers and any set of symbols:
`TypeCorrect`, `CountCorrect`, `HoldersServed`, `SinglePublisher`, `NoDeadlock`, and
`LeaseImplemented`.  Whether a handler leaves a worker
behind depends on the counter being exactly the number of holders, and whether the
counter reaches zero for the right handler depends on who holds and on which
worker is registered.  `IInv` joins them, with the relation between registry,
workers and their starters; the cardinality facts about the counter are separate
lemmas.  `NoDeadlock` proves `WaitsEnd`: a handler that awaits a worker awaits a
cancelled one, no two await the same, and every cancelled worker is awaited.
`HandlersRun` gives the handler's places a rank that falls with every step.

`Subscriptions_proofs`, for any set of purchases and any number of concurrent
requests: `TypeCorrect`, `RecordedOnce`, `PaidFor`, `UntoldByRaceOnly`,
`NoPaymentForgotten`, `LedgerKept`.  The strengthening is `Held`, what a request
may rely on at each step: the row it read still exists, its event is the one it
was started for, the event of an answered checkout is recorded, and Stripe was
told before a cancellation is committed.  `NothingIsLost` (rows, records and
cancellations are never withdrawn) carries `Held` over the steps of the other
requests.  `UntoldByRaceOnly` goes through the three kinds of commit: a row that
is left as it was stays told, since Stripe never resumes a purchase; an update
event sets no mark; a checkout or a cancellation that does leave a purchase untold
held a row that another request had changed.  The ledger needs more: that a commit which gives a row another
subscription replaces one plan by one, rests on no two rows showing the same
subscription (`PlansDiffer`); that Stripe stops billing a booked purchase only,
on `CancelsBooked`; that an event is about a purchase that was paid, on
`CheckoutsPaid`.

`ExchangeAccounts_proofs`, for any requests and any number of attempts:
`TypeCorrect`, `NoClientLeft`, `OrdersOnce`, `KeysStored`, `DeskKept`.  The
strengthening says how far a request has come: `StepsOfOp` (a request stays on the
steps of its operation), `ClientHeld` (it has one open client exactly at the
steps that use one), `OrderProgress` (an order is at the exchange exactly from
`persist` on) and `KeysBeforeRow` (the secret is stored before the row is
committed, and never withdrawn).  The desk adds that an order in progress is of
a connected account and that a booked order's request has ended.  `StepsRunOut`
ranks the requests by the steps left (at most `Attempts` + 6): every step of
the system lowers the rank of one request and touches no other.
`LockedOutForGood` follows the double connect: two rows stay, and whoever asks
for keys is refused.

`BackgroundTasks_proofs`, for any users, broken ones among them, and any number of
faults: `TypeCorrect`, `DisposedSafely`, `CycleStored`, `StopOrdered`.
`ShutdownOrder` ties the place of the shutdown to the workers that have ended; a
worker that has ended takes no step, so the relation survives every
interleaving.  `StopOrdered` adds that the dashboard worker never dies of an
exception and that the snapshot worker was cancelled before the engine is disposed of.
`NothingElseHangs`: what the shutdown waits for has been cancelled or has ended,
unless a close raised; and the listener ends in a shutdown only.

`MarketSession_proofs`, for any number of task slots and any symbols:
`TypeCorrect`, `Tracked`, `Silent`, `OneCancel`, `StreamsFollow`, `PanelKept`.
The strengthening ties `active_tasks` to the tasks: an entry is of the category it
is filed under (`EntriesMatch`), a stream the client was told has stopped has no
entry, and a cancelled task has none either (`CancelledAreForgotten`), so that
popping an entry always finds a task that was not cancelled before.  The panel needs
nothing beyond it: a task that sends is the entry of its category
(`SendingIsEntry`), before a step and after it.  `SessionRunsDown` ranks the stream
tasks and the endpoint by the steps they have left: no cancel sends a task back, and
only an open connection starts one.

`Accounts_proofs` and `AccountsRegistry_proofs`, for any requests, addresses and
number of requests in progress: `TypeCorrect`, `EmailUnique`, `ExpiryKept`,
`VerifiedComplete`, `AddressStored`, `OtpMailed`, `CustomerKept`,
`NothingReturns`, `MfaCoherent`, `RegistryKept`.  All of them are about a commit
over a row that may have changed since it was read.  `GoodEdit`
says what an operation may assign, given the row it read: one-time password and
expiry together or not at all, a customer only with a verification, and every new
value the request's own.  `Held` says what a request in progress relies on until
it is answered, whatever others commit: its customer exists, its address is
stored, a customer or step that it saw has not gone.  `RowMaker` and `OtpMaker`
say which request a row and a one-time password come from.  The registry adds what an
operation may assign to the columns the registry knows (`RegistryEdit`), that
every request in progress holds such an edit, and that a customer belongs to the
request that had it made (`CustomerMaker`), so that no two users share one.
`AloneIsPlain` and `CommitsCommute` are about `Flush`, the unit of work, itself:
without a rival it is a plain write, and requests that assign different columns
can be committed in either order.

The assumptions are those named in the modules: the null values differ from
the data (`NoSubFresh` and the like), the set of handlers is finite.

Implied by a refinement, still proved, and no longer properties of a run:
`PaymentRecordedOnce`, `SilentAfterUnsubscribe`, `DisposedOnlyWhenIdle`,
`OrdersAccountedFor`, `OneUserPerEmail`.

**Only model-checked.**  The eight liveness properties, since fairness and ENABLED are
beyond the prover.  For six of them a theorem states the part that is safety:

| Property | What is proved of it |
|---|---|
| `CancelledHandlerEnds` | `NoDeadlock`, `HandlersRun` |
| `RequestsEnd` | `StepsRunOut` |
| `ShutdownEnds`, `Top10KeepsTrying` | `NothingElseHangs` |
| `AuthIsDecided`, `GoneClientIsForgotten` | `SessionRunsDown` |
| `FeedComesBack`, `HealthyUsersRefreshed` | - |

The findings' properties are violated, so there is nothing to prove of them but
their consequences (`LockedOutForGood`).

## 5. Findings

- `market_price.py:30`: the subscriber is counted before the `try` whose
  `finally` releases it; a cancellation or redis error there leaves the count and the worker
  for good, against "Track number of active websocket subscribers per symbol".
- `router.py:203`: the session's clean-up announced at line 206 is commented out.
- `payment_service.py:158`: "cancelled" is not in `SubscriptionStatus`; the commit
  raises, the route answers Stripe with success, the row stays active.
- `main.py:132`: a snapshot task that died makes the shutdown raise before the
  engine is disposed of.
- `exchange_routers.py:79`: two concurrent connects both pass "Check duplicate";
  with two rows `get_keys` raises ever after (`LockedOutForGood` proves that it
  does: no request gets a client again).
- `api/router.py:468`: the expiry of a reset one-time password is compared with
  itself; "OTP expired" is never answered.

`MfaTornByStaleReadOnly` is stated as what the code does keep: a verification that
commits over a concurrent disabling leaves MFA enabled without a secret
(`router.py:237`), and no other interleaving does.  `UntoldOnlyByStaleRow` and
`CustomerReplacedByRivalOnly` are of the same kind.  A cancellation that awaits Stripe
(`payment_service.py:251`) while a checkout puts another purchase in its row ends
with that purchase shown as cancelled and billed on, in whichever order the two
commit.  Two verifications with one one-time password (`auth/user.py:77`) make two customers,
and the one committed first is given up.  The repository says nothing about
either race, so they are not findings; the properties say that nothing else
leads there.

## 6. Not modelled, and the plan

Not modelled: payload formats, wording and logging; durations (a key may expire
and a sleep may end at any time, so the 40 second life of a dashboard against
its refresh cycle is only listed as a hazard); several processes; the disabled
code (`api/websocket_routers.py`, the second half of `coinbase_worker.py`).

The other components that `PROJECT.json` lists as not modelled, and why:

- The dashboard websocket reads one redis key every two seconds and changes no
  state; who writes the key, and when it expires, is in `BackgroundTasks`.
- Portfolio values, profit and loss, volatility and candles are arithmetic in
  floating point over what an exchange answered, without state.  The calls around
  it, their failures and their clients are in `ExchangeAccounts` and
  `BackgroundTasks`.
- Settings: editing the columns of an existing address and the upload of an
  image touch nothing another component reads; the rest is reads.
- The wrappers of Secrets Manager, KMS, redis and of the public market data
  APIs hold no state; what their failure does is modelled where they are called.
- Declarations, schemas, configuration; `get_real_profit_loss`
  (`coinbase/exchange.py:1152`), which nothing calls.

The plan of sections 1 and 2 is carried out: the symbol workers with their
abstract lease, the market session, the subscriptions, the background tasks,
the exchange account and the accounts, each with an abstract specification that
it is proved to implement.  What could follow:

1. `SessionsAndWorkers`: several `MarketSession`s over one `SymbolWorkers`, with a
   refinement to the feed each client was promised.
2. `CandlePages`: a client that walks back through the candle page by
   `next_before`, over histories with gaps.
3. The phone number in `Accounts`, if its checks come to differ from those of the
   address.
