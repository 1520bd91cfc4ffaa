--------------------------- MODULE ExchangeAccounts ---------------------------
(***************************************************************************)
(* One user's Coinbase account: connecting it                              *)
(* (app/api/exchange_routers.py), the client every operation builds from   *)
(* the stored keys (app/coinbase/coinbase_cctx.py), the orders placed with *)
(* it and the queries answered through it (app/coinbase/exchange.py).      *)
(*                                                                         *)
(* Requests interleave at their awaits.  The calls to Secrets Manager and  *)
(* KMS block the event loop, so nothing happens between them and the       *)
(* statement before the next await.                                        *)
(***************************************************************************)
EXTENDS Naturals, FiniteSets

CONSTANTS
    Requests,   \* requests, each with its own keys, order or query
    None,       \* no secret
    Attempts    \* how often fetch_accounts is tried

ASSUME NoneIsNoRequest == None \notin Requests
ASSUME AttemptsIsPositive == Attempts \in Nat \ {0}

VARIABLES
    req,        \* per request: its operation, step, attempt and answer
    clients,    \* exchange clients a request has built and not closed
    rows,       \* user_exchanges rows, named after the request that inserted them
    secret,     \* the request whose keys Secrets Manager holds for the user
    connected,  \* user.is_exchange_connected
    placed,     \* orders the exchange accepted, per request
    recorded    \* requests with an exchange_orders row

vars == <<req, clients, rows, secret, connected, placed, recorded>>
account == <<rows, secret, connected>>
orders == <<placed, recorded>>

------------------------------------------------------------------------------
ConnectSteps == {"check", "validate", "fallback", "commit"}
OrderSteps == {"keys", "accounts", "sandbox", "prepare", "create", "persist"}
QuerySteps == {"keys", "accounts", "sandbox", "fetch"}    \* account value, order lists
PortfolioSteps == {"keys", "balance"}                     \* prices, portfolio, profit
CandleSteps == {"keys", "primary", "binance"}             \* the candle page
HistorySteps == {"keys", "pages"}                         \* the older candle endpoint
VolatilitySteps == {"keys", "hourly"}

\* The operations that begin with the stored keys, and where they go from there.
FirstStep == [order |-> "accounts", query |-> "accounts",
              portfolio |-> "balance", candles |-> "primary",
              history |-> "pages", volatility |-> "hourly"]
KeyedOps == DOMAIN FirstStep

Steps == {"new", "ended"} \cup ConnectSteps \cup OrderSteps \cup QuerySteps
             \cup PortfolioSteps \cup CandleSteps
             \cup HistorySteps \cup VolatilitySteps

BalanceAttempts == 2

Request == [op : {"new", "connect"} \cup KeyedOps, at : Steps,
            attempt : 0..Attempts \cup 0..BalanceAttempts,
            answer : {"none", "success", "error"}]

TypeOK ==
    /\ req \in [Requests -> Request]
    /\ clients \in [Requests -> 0..2]
    /\ rows \in SUBSET Requests
    /\ secret \in Requests \cup {None}
    /\ connected \in BOOLEAN
    /\ placed \in [Requests -> 0..2]
    /\ recorded \in SUBSET Requests

Init ==
    /\ req = [w \in Requests |-> [op |-> "new", at |-> "new", attempt |-> 0, answer |-> "none"]]
    /\ clients = [w \in Requests |-> 0]
    /\ rows = {} /\ secret = None /\ connected = FALSE
    /\ placed = [w \in Requests |-> 0] /\ recorded = {}

At(w, step) == req[w].at = step
Goes(w, step) == req' = [req EXCEPT ![w].at = step]
Answers(w, answer) == req' = [req EXCEPT ![w].at = "ended", ![w].answer = answer]
Opens(w) == clients' = [clients EXCEPT ![w] = @ + 1]
Closes(w) == clients' = [clients EXCEPT ![w] = @ - 1]

\* The answer of a request that has a client: its finally block closes it.
Finishes(w, answer) == Answers(w, answer) /\ Closes(w)

------------------------------------------------------------------------------
(* Connecting the exchange.                                                  *)

ConnectBegins(w) ==
    /\ At(w, "new")
    /\ req' = [req EXCEPT ![w].op = "connect", ![w].at = "check"]
    /\ UNCHANGED <<clients, account, orders>>

\* Step 2 of the handler looks for a row of the user.  Two of them make the
\* select raise, and it may fail.
ConnectChecks(w) ==
    /\ At(w, "check")
    /\ \/ rows = {} /\ Goes(w, "validate")
       \/ Cardinality(rows) = 1 /\ Answers(w, "success")
       \/ Answers(w, "error")
    /\ UNCHANGED <<clients, account, orders>>

\* Secrets Manager is updated first, then the keys are encrypted for the row.
\* Either call may raise.
StoresKeys(w) ==
    \/ secret' = w /\ Goes(w, "commit")
    \/ secret' = w /\ Answers(w, "error")
    \/ UNCHANGED secret /\ Answers(w, "error")

\* validate_coinbase_api with Coinbase Advanced: if the balance can be fetched,
\* the client is returned as it is.
ConnectValidates(w) ==
    /\ At(w, "validate")
    /\ \/ StoresKeys(w) /\ Opens(w)
       \/ Goes(w, "fallback") /\ UNCHANGED <<secret, clients>>
    /\ UNCHANGED <<rows, connected, orders>>

\* The second client, in sandbox mode, is closed whatever happens.
ConnectFallsBack(w) ==
    /\ At(w, "fallback")
    /\ StoresKeys(w) \/ (Answers(w, "error") /\ UNCHANGED secret)
    /\ UNCHANGED <<clients, rows, connected, orders>>

\* Slip: the user is marked as connected in a transaction of its own, before.
ConnectMarksFirst(w) ==
    /\ At(w, "commit")
    /\ \/ ~connected /\ connected' = TRUE /\ UNCHANGED <<rows, req>>
       \/ connected /\ rows' = rows \cup {w} /\ UNCHANGED connected /\ Answers(w, "success")
    /\ UNCHANGED <<clients, secret, orders>>

\* One commit inserts the row and marks the user, or fails; a refresh that fails
\* after it turns the answer into an error.
ConnectCommits(w) ==
    /\ At(w, "commit")
    /\ \/ /\ rows' = rows \cup {w} /\ connected' = TRUE
          /\ \E a \in {"success", "error"} : Answers(w, a)
       \/ UNCHANGED <<rows, connected>> /\ Answers(w, "error")
    /\ UNCHANGED <<clients, secret, orders>>

------------------------------------------------------------------------------
(* What an order or a query does until it has a client.                      *)

Begins(w) ==
    /\ At(w, "new")
    /\ \E op \in KeyedOps : req' = [req EXCEPT ![w].op = op, ![w].at = "keys"]
    /\ UNCHANGED <<clients, account, orders>>

\* get_keys wants exactly one row.  Reading it may fail.  Portfolios and candles
\* use a client of the single exchange as it is.
GetsKeys(w) ==
    /\ At(w, "keys")
    /\ \/ /\ Cardinality(rows) = 1
          /\ Opens(w)
          /\ req' = [req EXCEPT ![w].at = FirstStep[req[w].op], ![w].attempt = 1]
       \/ Answers(w, "error") /\ UNCHANGED clients
    /\ UNCHANGED <<account, orders>>

\* What a working client is used for.
Served(w) == IF req[w].op = "order" THEN "prepare" ELSE "fetch"

\* get_working_coinbase_exchange fetches the accounts.
AccountsFetched(w) ==
    /\ At(w, "accounts")
    /\ Goes(w, Served(w))
    /\ UNCHANGED <<clients, account, orders>>

\* Slip: after the last attempt the count starts again.
AccountsRetriedForever(w) ==
    /\ At(w, "accounts")
    /\ req' = [req EXCEPT ![w].attempt = (@ % Attempts) + 1]
    /\ UNCHANGED <<clients, account, orders>>

\* Slip: the bound is off by one.
AccountsRetriedOnceMore(w) ==
    /\ At(w, "accounts") /\ req[w].attempt <= Attempts
    /\ req' = [req EXCEPT ![w].attempt = @ + 1]
    /\ UNCHANGED <<clients, account, orders>>

\* After an authentication or exchange error the clock is synchronised and the
\* accounts are fetched again.
AccountsRetried(w) ==
    /\ At(w, "accounts") /\ req[w].attempt < Attempts
    /\ req' = [req EXCEPT ![w].attempt = @ + 1]
    /\ UNCHANGED <<clients, account, orders>>

\* Slip: the failed client is replaced without closing it.
AccountsAbandoned(w) ==
    /\ At(w, "accounts")
    /\ Goes(w, "sandbox") \/ Answers(w, "error")
    /\ UNCHANGED <<clients, account, orders>>

\* The last attempt, or one with another exception, closes the client.  Without
\* a passphrase there is no fallback and no client to work with.
AccountsFail(w) ==
    /\ At(w, "accounts")
    /\ Closes(w)
    /\ Goes(w, "sandbox") \/ Answers(w, "error")
    /\ UNCHANGED <<account, orders>>

\* The fallback client is returned, or closed.
SandboxAnswers(w) ==
    /\ At(w, "sandbox")
    /\ \/ Opens(w) /\ Goes(w, Served(w))
       \/ Answers(w, "error") /\ UNCHANGED clients
    /\ UNCHANGED <<account, orders>>

------------------------------------------------------------------------------
(* Placing an order.                                                         *)

\* The order is checked and completed with markets, ticker and balance.
OrderPrepared(w) ==
    /\ At(w, "prepare")
    /\ \/ Goes(w, "create") /\ UNCHANGED clients
       \/ Finishes(w, "error")
    /\ UNCHANGED <<account, orders>>

\* Slip: a create_order that raises is tried again.
OrderCreatedAgain(w) ==
    /\ At(w, "create")
    /\ \/ placed' = [placed EXCEPT ![w] = IF @ = 2 THEN 2 ELSE @ + 1] /\ Goes(w, "persist")
       \/ placed' = [placed EXCEPT ![w] = IF @ = 2 THEN 2 ELSE @ + 1] /\ UNCHANGED req
    /\ UNCHANGED <<clients, account, recorded>>

\* create_order: accepted and answered, accepted with the answer lost, or not
\* accepted.
OrderCreated(w) ==
    /\ At(w, "create")
    /\ \/ /\ placed' = [placed EXCEPT ![w] = @ + 1]
          /\ Goes(w, "persist") /\ UNCHANGED clients
       \/ placed' = [placed EXCEPT ![w] = @ + 1] /\ Finishes(w, "error")
       \/ UNCHANGED placed /\ Finishes(w, "error")
    /\ UNCHANGED <<account, recorded>>

\* The commit of the exchange_orders row, or its failure, and the refresh after
\* it, which may fail too.
OrderPersisted(w) ==
    /\ At(w, "persist")
    /\ \/ recorded' = recorded \cup {w} /\ (\E a \in {"success", "error"} : Finishes(w, a))
       \/ UNCHANGED recorded /\ Finishes(w, "error")
    /\ UNCHANGED <<account, placed>>

------------------------------------------------------------------------------
(* Queries.                                                                  *)

\* The balance, or a list of orders, is fetched or not.
QueryAnswers(w) ==
    /\ At(w, "fetch")
    /\ \E a \in {"success", "error"} : Finishes(w, a)
    /\ UNCHANGED <<account, orders>>

\* The balance is fetched a second time after an authentication or exchange error.
BalanceRetried(w) ==
    /\ At(w, "balance") /\ req[w].attempt < BalanceAttempts
    /\ req' = [req EXCEPT ![w].attempt = @ + 1]
    /\ UNCHANGED <<clients, account, orders>>

\* Balance and tickers are valued, or one of the calls raises.
PortfolioAnswers(w) ==
    /\ At(w, "balance")
    /\ \E a \in {"success", "error"} : Finishes(w, a)
    /\ UNCHANGED <<account, orders>>

\* Candles of the user's exchange.  If there are none, or it failed, its client is
\* closed and one for Binance takes its place.
CandlesFetched(w) ==
    /\ At(w, "primary")
    /\ \/ \E a \in {"success", "error"} : Finishes(w, a)
       \/ Goes(w, "binance") /\ UNCHANGED clients
    /\ UNCHANGED <<account, orders>>

\* Without candles the page is empty.  Only closing the client can raise.
BinanceAnswers(w) ==
    /\ At(w, "binance")
    /\ \E a \in {"success", "error"} : Finishes(w, a)
    /\ UNCHANGED <<account, orders>>

\* Page after page is fetched until one is empty or reaches the present, or a
\* call raises.  Nothing closes the client.
HistoryAnswers(w) ==
    /\ At(w, "pages")
    /\ \E a \in {"success", "error"} : Answers(w, a)
    /\ UNCHANGED <<clients, account, orders>>

\* If the candles are fetched the client is closed, and then exactly two candles
\* make the last of no points raise.  If not, it stays open.
VolatilityAnswers(w) ==
    /\ At(w, "hourly")
    /\ \/ \E a \in {"success", "error"} : Finishes(w, a)
       \/ Answers(w, "error") /\ UNCHANGED clients
    /\ UNCHANGED <<account, orders>>

------------------------------------------------------------------------------
ConnectMoves(w) ==
    ConnectChecks(w) \/ ConnectValidates(w) \/ ConnectFallsBack(w) \/ ConnectCommits(w)

ClientMoves(w) ==
    GetsKeys(w) \/ AccountsFetched(w) \/ AccountsRetried(w) \/ AccountsFail(w) \/ SandboxAnswers(w)

OrderMoves(w) == OrderPrepared(w) \/ OrderCreated(w) \/ OrderPersisted(w)

QueryMoves(w) ==
    \/ QueryAnswers(w) \/ BalanceRetried(w) \/ PortfolioAnswers(w)
    \/ CandlesFetched(w) \/ BinanceAnswers(w) \/ HistoryAnswers(w) \/ VolatilityAnswers(w)

Moves(w) == ConnectMoves(w) \/ ClientMoves(w) \/ OrderMoves(w) \/ QueryMoves(w)

Next == \E w \in Requests : ConnectBegins(w) \/ Begins(w) \/ Moves(w)

Spec == Init /\ [][Next]_vars

\* Every call ends in an answer, an error or a timeout, and the loop goes on.
FairSpec == Spec /\ \A w \in Requests : WF_vars(Moves(w))

------------------------------------------------------------------------------
(* Properties.                                                               *)

\* The requests whose code has a path that closes nothing (exchange.py:831, 1106).
LeavesOpen(w) ==
    \/ req[w].op = "history"
    \/ req[w].op = "volatility" /\ req[w].answer = "error"

\* Whichever of the clients failed, an order or query that has been answered leaves
\* none of them open: retry, fallback and finally close each exactly where they must.
\* The older candle endpoint and a volatility that failed are known not to.
ClientsClosed ==
    \A w \in Requests :
        req[w].op \in KeyedOps /\ At(w, "ended") /\ ~LeavesOpen(w) => clients[w] = 0

\* An order reaches the exchange once at most, only accepted orders are recorded,
\* and only recorded ones are answered with success.
OrdersAccountedFor ==
    \A w \in Requests :
        /\ placed[w] <= 1
        /\ w \in recorded => placed[w] = 1
        /\ req[w].op = "order" /\ req[w].answer = "success" => w \in recorded

\* A user is marked as connected exactly if there are keys to connect with, in
\* the database and in Secrets Manager.
ConnectedHasKeys == /\ connected <=> rows # {}
                    /\ rows # {} => secret # None

\* Every request is answered; no sequence of refusals retries for ever.
RequestsEnd == \A w \in Requests : ~At(w, "new") ~> At(w, "ended")

\* "Check duplicate" (exchange_routers.py:70): an exchange that is connected is
\* not connected a second time.
ConnectedOnce == Cardinality(rows) <= 1

------------------------------------------------------------------------------
(* What the account promises: a desk where orders are placed.                *)

Confirmed == {w \in Requests : req[w].op = "order" /\ req[w].answer = "success"}

Desk == INSTANCE TradingDesk WITH
    Orders <- Requests, vault <- secret # None, linked <- connected,
    accepted <- placed, booked <- recorded, confirmed <- Confirmed

\* Whatever is retried, falls back or loses its answer, and whoever connects in
\* the meantime: an order reaches the exchange once at most and only from a
\* connected account, the row follows the exchange's acceptance, and success is
\* answered in the step that commits it (exchange.py:559-726).
KeepsDesk == Desk!Spec
=============================================================================
