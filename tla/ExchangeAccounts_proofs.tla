------------------------ MODULE ExchangeAccounts_proofs ------------------------
(***************************************************************************)
(* Safety of ExchangeAccounts for any number of concurrent requests and    *)
(* attempts.                                                               *)
(*                                                                         *)
(* What must be added to the invariants is how far a request has come: the *)
(* keys are in Secrets Manager before the row is committed, an order is at *)
(* the exchange once, and not yet recorded, when it is persisted, and an   *)
(* order or query has one open client exactly at the steps that use it.    *)
(***************************************************************************)
EXTENDS ExchangeAccounts, FiniteSetTheorems, TLAPS

\* A request takes the steps of its operation and has an answer at the end.
StepsOfOp ==
    \A w \in Requests :
        /\ req[w].op = "new" => At(w, "new")
        /\ req[w].op = "connect" => req[w].at \in ConnectSteps \cup {"ended"}
        /\ req[w].op = "order" => req[w].at \in OrderSteps \cup {"ended"}
        /\ req[w].op = "query" => req[w].at \in QuerySteps \cup {"ended"}
        /\ req[w].op = "portfolio" => req[w].at \in PortfolioSteps \cup {"ended"}
        /\ req[w].op = "candles" => req[w].at \in CandleSteps \cup {"ended"}
        /\ req[w].op = "history" => req[w].at \in HistorySteps \cup {"ended"}
        /\ req[w].op = "volatility" => req[w].at \in VolatilitySteps \cup {"ended"}
        /\ ~At(w, "ended") => req[w].answer = "none"

\* The steps at which a request has a client to close.
Holding == {"accounts", "prepare", "create", "persist", "fetch", "balance", "primary", "binance",
            "pages", "hourly"}

\* An order or query has one open client while it uses it and none afterwards,
\* unless it is of those that leave it open; a connect has none before it has
\* validated the keys.
ClientHeld ==
    \A w \in Requests :
        /\ req[w].op \in KeyedOps /\ ~(At(w, "ended") /\ LeavesOpen(w)) =>
               clients[w] = IF req[w].at \in Holding THEN 1 ELSE 0
        /\ clients[w] <= 1
        /\ req[w].at \in {"new", "check", "validate", "fallback"} => clients[w] = 0

\* How far the order of a request has come.
OrderProgress ==
    \A w \in Requests :
        /\ placed[w] = 1 => req[w].op = "order" /\ req[w].at \in {"persist", "ended"}
        /\ At(w, "persist") => placed[w] = 1

\* A row is committed after the keys were stored.
KeysBeforeRow == \A w \in Requests : At(w, "commit") => secret # None

IInv ==
    /\ TypeOK
    /\ StepsOfOp
    /\ ClientHeld
    /\ OrderProgress
    /\ KeysBeforeRow
    /\ OrdersAccountedFor
    /\ ConnectedHasKeys

\* A user without a request has no client, no keys and no orders.
LEMMA InitHolds == Init => IInv
  <1> SUFFICES ASSUME Init PROVE IInv
    OBVIOUS
  <1> USE DEF Init
  <1>1. TypeOK
    <2>1. req \in [Requests -> Request]
      BY AttemptsIsPositive DEF Request, Steps, BalanceAttempts
    <2>2. placed \in [Requests -> 0..2] /\ clients \in [Requests -> 0..2]
      OBVIOUS
    <2> QED
      BY <2>1, <2>2 DEF TypeOK
  <1>2. StepsOfOp /\ ClientHeld
    BY DEF StepsOfOp, ClientHeld, LeavesOpen, At, KeyedOps, FirstStep
  <1>3. OrderProgress /\ KeysBeforeRow
    BY DEF OrderProgress, KeysBeforeRow, At
  <1>4. OrdersAccountedFor /\ ConnectedHasKeys
    BY DEF OrdersAccountedFor, ConnectedHasKeys, At
  <1> QED
    BY <1>1, <1>2, <1>3, <1>4 DEF IInv

------------------------------------------------------------------------------
(* One step.  The requests that do not move keep their slot, clients and     *)
(* order.                                                                    *)

\* What the ways to move a request leave in its slot.
LEMMA RequestTyped ==
  ASSUME TypeOK, NEW w \in Requests
  PROVE  /\ \A a \in {"success", "error"} : Answers(w, a) => req' \in [Requests -> Request]
         /\ \A at \in Steps : Goes(w, at) => req' \in [Requests -> Request]
         /\ \A at \in Steps, n \in 0..Attempts \cup 0..BalanceAttempts :
                req' = [req EXCEPT ![w].at = at, ![w].attempt = n] => req' \in [Requests -> Request]
         /\ \A n \in 0..Attempts \cup 0..BalanceAttempts :
                req' = [req EXCEPT ![w].attempt = n] => req' \in [Requests -> Request]
         /\ \A op \in {"connect"} \cup KeyedOps, at \in Steps :
                req' = [req EXCEPT ![w].op = op, ![w].at = at] => req' \in [Requests -> Request]
  <1> USE DEF TypeOK
  <1>0. req[w] \in Request
    OBVIOUS
  <1>1. ASSUME NEW a \in {"success", "error"}, Answers(w, a) PROVE req' \in [Requests -> Request]
    <2>1. [req[w] EXCEPT !.at = "ended", !.answer = a] \in Request
      BY <1>0 DEF Request, Steps
    <2> QED
      BY <1>1, <2>1 DEF Answers
  <1>2. ASSUME NEW at \in Steps, Goes(w, at) PROVE req' \in [Requests -> Request]
    <2>1. [req[w] EXCEPT !.at = at] \in Request
      BY <1>0 DEF Request
    <2> QED
      BY <1>2, <2>1 DEF Goes
  <1>3. ASSUME NEW at \in Steps, NEW n \in 0..Attempts \cup 0..BalanceAttempts,
               req' = [req EXCEPT ![w].at = at, ![w].attempt = n]
        PROVE  req' \in [Requests -> Request]
    <2>1. [req[w] EXCEPT !.at = at, !.attempt = n] \in Request
      BY <1>0 DEF Request
    <2> QED
      BY <1>3, <2>1
  <1>4. ASSUME NEW n \in 0..Attempts \cup 0..BalanceAttempts, req' = [req EXCEPT ![w].attempt = n]
        PROVE  req' \in [Requests -> Request]
    <2>1. [req[w] EXCEPT !.attempt = n] \in Request
      BY <1>0 DEF Request
    <2> QED
      BY <1>4, <2>1
  <1>5. ASSUME NEW op \in {"connect"} \cup KeyedOps, NEW at \in Steps,
               req' = [req EXCEPT ![w].op = op, ![w].at = at]
        PROVE  req' \in [Requests -> Request]
    <2>1. [req[w] EXCEPT !.op = op, !.at = at] \in Request
      BY <1>0 DEF Request
    <2> QED
      BY <1>5, <2>1
  <1> QED
    BY <1>1, <1>2, <1>3, <1>4, <1>5

\* A request that holds a client has one, so that opening and closing stay in range.
LEMMA ClientsTyped ==
  ASSUME TypeOK, StepsOfOp, ClientHeld, NEW w \in Requests
  PROVE  /\ Opens(w) => clients' \in [Requests -> 0..2]
         /\ req[w].at \in Holding /\ Closes(w) => clients' \in [Requests -> 0..2]
  <1> USE DEF TypeOK, ClientHeld
  <1>1. ASSUME Opens(w) PROVE clients' \in [Requests -> 0..2]
    <2>1. clients[w] + 1 \in 0..2
      OBVIOUS
    <2> QED
      BY <1>1, <2>1 DEF Opens
  <1>2. ASSUME req[w].at \in Holding, Closes(w) PROVE clients' \in [Requests -> 0..2]
    <2>1. req[w].op \in KeyedOps /\ ~At(w, "ended")
      BY <1>2 DEF Holding, At, StepsOfOp, ConnectSteps, Request, KeyedOps
    <2>2. clients[w] - 1 \in 0..2
      BY <1>2, <2>1
    <2> QED
      BY <1>2, <2>2 DEF Closes
  <1> QED
    BY <1>1, <1>2

\* Every step keeps the variables well typed.
LEMMA TypeStep == IInv /\ [Next]_vars => TypeOK'
  <1> SUFFICES ASSUME IInv, [Next]_vars PROVE TypeOK'
    OBVIOUS
  <1>0. TypeOK /\ StepsOfOp /\ ClientHeld /\ OrderProgress /\ OrdersAccountedFor
    BY DEF IInv
  <1>a. {"new", "ended", "keys", "fallback", "commit", "validate", "check", "sandbox", "prepare",
         "create", "persist", "fetch", "binance"} \subseteq Steps
    BY DEF Steps, ConnectSteps, OrderSteps, QuerySteps, PortfolioSteps, CandleSteps,
        HistorySteps, VolatilitySteps
  <1>1. ASSUME NEW w \in Requests, ConnectBegins(w) PROVE TypeOK'
    <2>1. req' \in [Requests -> Request]
      BY <1>0, <1>1, <1>a, RequestTyped DEF ConnectBegins
    <2> QED
      BY <1>0, <1>1, <2>1 DEF ConnectBegins, TypeOK, account, orders
  <1>2. ASSUME NEW w \in Requests, Begins(w) PROVE TypeOK'
    <2>1. req' \in [Requests -> Request]
      BY <1>0, <1>2, <1>a, RequestTyped DEF Begins
    <2> QED
      BY <1>0, <1>2, <2>1 DEF Begins, TypeOK, account, orders
  <1>3. ASSUME NEW w \in Requests, ConnectMoves(w) PROVE TypeOK'
    <2>1. CASE ConnectChecks(w)
      <3>1. Goes(w, "validate") \/ Answers(w, "success") \/ Answers(w, "error")
        BY <2>1 DEF ConnectChecks, Finishes
      <3>2. req' \in [Requests -> Request]
        BY <1>0, <1>a, <3>1, RequestTyped
      <3> QED
        BY <1>0, <2>1, <3>2 DEF ConnectChecks, TypeOK, account, orders
    <2>2. CASE ConnectValidates(w)
      <3>1. Goes(w, "commit") \/ Goes(w, "fallback") \/ Answers(w, "error")
        BY <2>2 DEF ConnectValidates, StoresKeys, Finishes
      <3>2. req' \in [Requests -> Request]
        BY <1>0, <1>a, <3>1, RequestTyped
      <3>3. clients' \in [Requests -> 0..2] /\ secret' \in Requests \cup {None}
        BY <1>0, <2>2, ClientsTyped DEF ConnectValidates, StoresKeys, TypeOK, At, Holding, Finishes
      <3> QED
        BY <1>0, <2>2, <3>2, <3>3 DEF ConnectValidates, StoresKeys, TypeOK, account, orders
    <2>3. CASE ConnectFallsBack(w)
      <3>1. Goes(w, "commit") \/ Answers(w, "error")
        BY <2>3 DEF ConnectFallsBack, StoresKeys, Finishes
      <3>2. req' \in [Requests -> Request]
        BY <1>0, <1>a, <3>1, RequestTyped
      <3>3. secret' \in Requests \cup {None}
        BY <1>0, <2>3 DEF ConnectFallsBack, StoresKeys, TypeOK, At
      <3> QED
        BY <1>0, <2>3, <3>2, <3>3 DEF ConnectFallsBack, StoresKeys, TypeOK, account, orders
    <2>4. CASE ConnectCommits(w)
      <3>1. Answers(w, "success") \/ Answers(w, "error")
        BY <2>4 DEF ConnectCommits, Finishes
      <3>2. req' \in [Requests -> Request]
        BY <1>0, <1>a, <3>1, RequestTyped
      <3>3. rows' \in SUBSET Requests /\ connected' \in BOOLEAN
        BY <1>0, <2>4 DEF ConnectCommits, TypeOK, At
      <3> QED
        BY <1>0, <2>4, <3>2, <3>3 DEF ConnectCommits, TypeOK, account, orders
    <2> QED
      BY <1>3, <2>1, <2>2, <2>3, <2>4 DEF ConnectMoves
  <1>4. ASSUME NEW w \in Requests, ClientMoves(w) PROVE TypeOK'
    <2>1. CASE GetsKeys(w)
      <3>1. /\ FirstStep[req[w].op] \in Steps /\ 1 \in 0..BalanceAttempts
            /\ \/ Answers(w, "error")
               \/ req' = [req EXCEPT ![w].at = FirstStep[req[w].op], ![w].attempt = 1]
        BY <1>0, <2>1
        DEF GetsKeys, BalanceAttempts, Steps, TypeOK, Request, At, StepsOfOp, KeyedOps, FirstStep,
            ConnectSteps, OrderSteps, QuerySteps, PortfolioSteps, CandleSteps, HistorySteps, VolatilitySteps
      <3>2. req' \in [Requests -> Request]
        BY <1>0, <1>a, <3>1, RequestTyped
      <3>3. clients' \in [Requests -> 0..2]
        BY <1>0, <2>1, ClientsTyped DEF GetsKeys, TypeOK, At, Holding, Finishes
      <3> QED
        BY <1>0, <2>1, <3>2, <3>3 DEF GetsKeys, TypeOK, account, orders
    <2>2. CASE AccountsFetched(w)
      <3>1. Goes(w, "prepare") \/ Goes(w, "fetch")
        BY <2>2 DEF AccountsFetched, Served, Finishes
      <3>2. req' \in [Requests -> Request]
        BY <1>0, <1>a, <3>1, RequestTyped
      <3> QED
        BY <1>0, <2>2, <3>2 DEF AccountsFetched, Served, TypeOK, account, orders
    <2>3. CASE AccountsRetried(w)
      <3>1. req[w].attempt + 1 \in 0..Attempts /\ req' = [req EXCEPT ![w].attempt = req[w].attempt + 1]
        BY <1>0, <2>3, AttemptsIsPositive DEF AccountsRetried, TypeOK, Request, BalanceAttempts
      <3>2. req' \in [Requests -> Request]
        BY <1>0, <3>1, RequestTyped
      <3> QED
        BY <1>0, <2>3, <3>2 DEF AccountsRetried, TypeOK, account, orders
    <2>4. CASE AccountsFail(w)
      <3>1. Goes(w, "sandbox") \/ Answers(w, "error")
        BY <2>4 DEF AccountsFail, Finishes
      <3>2. req' \in [Requests -> Request]
        BY <1>0, <1>a, <3>1, RequestTyped
      <3>3. clients' \in [Requests -> 0..2]
        BY <1>0, <2>4, ClientsTyped DEF AccountsFail, TypeOK, At, Holding, Finishes
      <3> QED
        BY <1>0, <2>4, <3>2, <3>3 DEF AccountsFail, TypeOK, account, orders
    <2>5. CASE SandboxAnswers(w)
      <3>1. Goes(w, "prepare") \/ Goes(w, "fetch") \/ Answers(w, "error")
        BY <2>5 DEF SandboxAnswers, Served, Finishes
      <3>2. req' \in [Requests -> Request]
        BY <1>0, <1>a, <3>1, RequestTyped
      <3>3. clients' \in [Requests -> 0..2]
        BY <1>0, <2>5, ClientsTyped DEF SandboxAnswers, Served, TypeOK, At, Holding, Finishes
      <3> QED
        BY <1>0, <2>5, <3>2, <3>3 DEF SandboxAnswers, Served, TypeOK, account, orders
    <2> QED
      BY <1>4, <2>1, <2>2, <2>3, <2>4, <2>5 DEF ClientMoves
  <1>5. ASSUME NEW w \in Requests, OrderMoves(w) PROVE TypeOK'
    <2>1. CASE OrderPrepared(w)
      <3>1. Goes(w, "create") \/ Answers(w, "error")
        BY <2>1 DEF OrderPrepared, Finishes
      <3>2. req' \in [Requests -> Request]
        BY <1>0, <1>a, <3>1, RequestTyped
      <3>3. clients' \in [Requests -> 0..2]
        BY <1>0, <2>1, ClientsTyped DEF OrderPrepared, TypeOK, At, Holding, Finishes
      <3> QED
        BY <1>0, <2>1, <3>2, <3>3 DEF OrderPrepared, TypeOK, account, orders
    <2>2. CASE OrderCreated(w)
      <3>1. Goes(w, "persist") \/ Answers(w, "error")
        BY <2>2 DEF OrderCreated, Finishes
      <3>2. req' \in [Requests -> Request]
        BY <1>0, <1>a, <3>1, RequestTyped
      <3>3. clients' \in [Requests -> 0..2]
        BY <1>0, <2>2, ClientsTyped DEF OrderCreated, TypeOK, At, Holding, Finishes
      <3>4. placed' \in [Requests -> 0..2]
        BY <1>0, <2>2 DEF OrderCreated, OrderProgress, OrdersAccountedFor, At, TypeOK
      <3> QED
        BY <1>0, <2>2, <3>2, <3>3, <3>4 DEF OrderCreated, TypeOK, account, orders
    <2>3. CASE OrderPersisted(w)
      <3>1. Answers(w, "success") \/ Answers(w, "error")
        BY <2>3 DEF OrderPersisted, Finishes
      <3>2. req' \in [Requests -> Request]
        BY <1>0, <1>a, <3>1, RequestTyped
      <3>3. clients' \in [Requests -> 0..2]
        BY <1>0, <2>3, ClientsTyped DEF OrderPersisted, TypeOK, At, Holding, Finishes
      <3>4. recorded' \in SUBSET Requests
        BY <1>0, <2>3 DEF OrderPersisted, TypeOK, At
      <3> QED
        BY <1>0, <2>3, <3>2, <3>3, <3>4 DEF OrderPersisted, TypeOK, account, orders
    <2> QED
      BY <1>5, <2>1, <2>2, <2>3 DEF OrderMoves
  <1>6. ASSUME NEW w \in Requests, QueryMoves(w) PROVE TypeOK'
    <2>1. CASE QueryAnswers(w)
      <3>1. Answers(w, "success") \/ Answers(w, "error")
        BY <2>1 DEF QueryAnswers, Finishes
      <3>2. req' \in [Requests -> Request]
        BY <1>0, <1>a, <3>1, RequestTyped
      <3>3. clients' \in [Requests -> 0..2]
        BY <1>0, <2>1, ClientsTyped DEF QueryAnswers, TypeOK, At, Holding, Finishes
      <3> QED
        BY <1>0, <2>1, <3>2, <3>3 DEF QueryAnswers, TypeOK, account, orders
    <2>2. CASE BalanceRetried(w)
      <3>1. /\ req[w].attempt + 1 \in 0..BalanceAttempts
            /\ req' = [req EXCEPT ![w].attempt = req[w].attempt + 1]
        BY <1>0, <2>2, AttemptsIsPositive DEF BalanceRetried, TypeOK, Request, BalanceAttempts
      <3>2. req' \in [Requests -> Request]
        BY <1>0, <3>1, RequestTyped
      <3> QED
        BY <1>0, <2>2, <3>2 DEF BalanceRetried, TypeOK, account, orders
    <2>3. CASE PortfolioAnswers(w)
      <3>1. Answers(w, "success") \/ Answers(w, "error")
        BY <2>3 DEF PortfolioAnswers, Finishes
      <3>2. req' \in [Requests -> Request]
        BY <1>0, <1>a, <3>1, RequestTyped
      <3>3. clients' \in [Requests -> 0..2]
        BY <1>0, <2>3, ClientsTyped DEF PortfolioAnswers, TypeOK, At, Holding, Finishes
      <3> QED
        BY <1>0, <2>3, <3>2, <3>3 DEF PortfolioAnswers, TypeOK, account, orders
    <2>4. CASE CandlesFetched(w)
      <3>1. Goes(w, "binance") \/ Answers(w, "success") \/ Answers(w, "error")
        BY <2>4 DEF CandlesFetched, Finishes
      <3>2. req' \in [Requests -> Request]
        BY <1>0, <1>a, <3>1, RequestTyped
      <3>3. clients' \in [Requests -> 0..2]
        BY <1>0, <2>4, ClientsTyped DEF CandlesFetched, TypeOK, At, Holding, Finishes
      <3> QED
        BY <1>0, <2>4, <3>2, <3>3 DEF CandlesFetched, TypeOK, account, orders
    <2>5. CASE BinanceAnswers(w)
      <3>1. Answers(w, "success") \/ Answers(w, "error")
        BY <2>5 DEF BinanceAnswers, Finishes
      <3>2. req' \in [Requests -> Request]
        BY <1>0, <1>a, <3>1, RequestTyped
      <3>3. clients' \in [Requests -> 0..2]
        BY <1>0, <2>5, ClientsTyped DEF BinanceAnswers, TypeOK, At, Holding, Finishes
      <3> QED
        BY <1>0, <2>5, <3>2, <3>3 DEF BinanceAnswers, TypeOK, account, orders
    <2>6. CASE HistoryAnswers(w)
      <3>1. Answers(w, "success") \/ Answers(w, "error")
        BY <2>6 DEF HistoryAnswers
      <3>2. req' \in [Requests -> Request]
        BY <1>0, <1>a, <3>1, RequestTyped
      <3> QED
        BY <1>0, <2>6, <3>2 DEF HistoryAnswers, TypeOK, account, orders
    <2>7. CASE VolatilityAnswers(w)
      <3>1. Answers(w, "success") \/ Answers(w, "error")
        BY <2>7 DEF VolatilityAnswers, Finishes
      <3>2. req' \in [Requests -> Request]
        BY <1>0, <1>a, <3>1, RequestTyped
      <3>3. clients' \in [Requests -> 0..2]
        BY <1>0, <2>7, ClientsTyped DEF VolatilityAnswers, TypeOK, At, Holding, Finishes
      <3> QED
        BY <1>0, <2>7, <3>2, <3>3 DEF VolatilityAnswers, TypeOK, account, orders
    <2> QED
      BY <1>6, <2>1, <2>2, <2>3, <2>4, <2>5, <2>6, <2>7 DEF QueryMoves
  <1>7. CASE UNCHANGED vars
    BY <1>0, <1>7 DEF vars, TypeOK
  <1> QED
    BY <1>1, <1>2, <1>3, <1>4, <1>5, <1>6, <1>7 DEF Next, Moves

\* Every request keeps to the steps of its operation.
LEMMA StepsStep == IInv /\ [Next]_vars => StepsOfOp'
  <1> SUFFICES ASSUME IInv, [Next]_vars PROVE StepsOfOp'
    OBVIOUS
  <1> USE DEF IInv, TypeOK, Request, StepsOfOp, At, Goes, Answers, Finishes,
          ConnectSteps, OrderSteps, QuerySteps, PortfolioSteps, CandleSteps,
          HistorySteps, VolatilitySteps, KeyedOps, FirstStep
  <1>1. ASSUME NEW w \in Requests, ConnectBegins(w) PROVE StepsOfOp'
    BY <1>1 DEF ConnectBegins
  <1>2. ASSUME NEW w \in Requests, Begins(w) PROVE StepsOfOp'
    BY <1>2 DEF Begins
  <1>3. ASSUME NEW w \in Requests, ConnectMoves(w) PROVE StepsOfOp'
    <2>1. CASE ConnectChecks(w)
      BY <2>1 DEF ConnectChecks
    <2>2. CASE ConnectValidates(w)
      BY <2>2 DEF ConnectValidates, StoresKeys
    <2>3. CASE ConnectFallsBack(w)
      BY <2>3 DEF ConnectFallsBack, StoresKeys
    <2>4. CASE ConnectCommits(w)
      BY <2>4 DEF ConnectCommits
    <2> QED
      BY <1>3, <2>1, <2>2, <2>3, <2>4 DEF ConnectMoves
  <1>4. ASSUME NEW w \in Requests, ClientMoves(w) PROVE StepsOfOp'
    <2>1. CASE GetsKeys(w)
      BY <2>1 DEF GetsKeys, FirstStep
    <2>2. CASE AccountsFetched(w)
      BY <2>2 DEF AccountsFetched, Served
    <2>3. CASE AccountsRetried(w)
      BY <2>3 DEF AccountsRetried
    <2>4. CASE AccountsFail(w)
      BY <2>4 DEF AccountsFail
    <2>5. CASE SandboxAnswers(w)
      BY <2>5 DEF SandboxAnswers, Served
    <2> QED
      BY <1>4, <2>1, <2>2, <2>3, <2>4, <2>5 DEF ClientMoves
  <1>5. ASSUME NEW w \in Requests, OrderMoves(w) PROVE StepsOfOp'
    <2>1. CASE OrderPrepared(w)
      BY <2>1 DEF OrderPrepared
    <2>2. CASE OrderCreated(w)
      BY <2>2 DEF OrderCreated
    <2>3. CASE OrderPersisted(w)
      BY <2>3 DEF OrderPersisted
    <2> QED
      BY <1>5, <2>1, <2>2, <2>3 DEF OrderMoves
  <1>6. ASSUME NEW w \in Requests, QueryMoves(w) PROVE StepsOfOp'
    <2>1. CASE QueryAnswers(w)
      BY <2>1 DEF QueryAnswers
    <2>2. CASE BalanceRetried(w)
      BY <2>2 DEF BalanceRetried, BalanceAttempts
    <2>3. CASE PortfolioAnswers(w)
      BY <2>3 DEF PortfolioAnswers
    <2>4. CASE CandlesFetched(w)
      BY <2>4 DEF CandlesFetched
    <2>5. CASE BinanceAnswers(w)
      BY <2>5 DEF BinanceAnswers
    <2>6. CASE HistoryAnswers(w)
      BY <2>6 DEF HistoryAnswers
    <2>7. CASE VolatilityAnswers(w)
      BY <2>7 DEF VolatilityAnswers
    <2> QED
      BY <1>6, <2>1, <2>2, <2>3, <2>4, <2>5, <2>6, <2>7 DEF QueryMoves
  <1>7. CASE UNCHANGED vars
    BY <1>7 DEF vars
  <1> QED
    BY <1>1, <1>2, <1>3, <1>4, <1>5, <1>6, <1>7 DEF Next, Moves

\* Each step opens and closes what it must.
LEMMA ClientsStep == IInv /\ [Next]_vars => ClientHeld'
  <1> SUFFICES ASSUME IInv, [Next]_vars PROVE ClientHeld'
    OBVIOUS
  <1> USE DEF IInv, TypeOK, Request, StepsOfOp, ClientHeld, LeavesOpen, Holding, At, Goes, Answers,
          Opens, Closes, Finishes,
          ConnectSteps, OrderSteps, QuerySteps, PortfolioSteps, CandleSteps,
          HistorySteps, VolatilitySteps, KeyedOps, FirstStep
  <1>1. ASSUME NEW w \in Requests, ConnectBegins(w) PROVE ClientHeld'
    BY <1>1 DEF ConnectBegins
  <1>2. ASSUME NEW w \in Requests, Begins(w) PROVE ClientHeld'
    BY <1>2 DEF Begins
  <1>3. ASSUME NEW w \in Requests, ConnectMoves(w) PROVE ClientHeld'
    <2>1. CASE ConnectChecks(w)
      BY <2>1 DEF ConnectChecks
    <2>2. CASE ConnectValidates(w)
      <3>1. req[w].op = "connect" /\ clients[w] = 0
        BY <2>2 DEF ConnectValidates
      <3>2. CASE Opens(w) /\ (Goes(w, "commit") \/ Answers(w, "error"))
        BY <3>1, <3>2
      <3>3. CASE Goes(w, "fallback") /\ UNCHANGED clients
        BY <3>1, <3>3
      <3> QED
        BY <2>2, <3>2, <3>3 DEF ConnectValidates, StoresKeys
    <2>3. CASE ConnectFallsBack(w)
      BY <2>3 DEF ConnectFallsBack, StoresKeys
    <2>4. CASE ConnectCommits(w)
      BY <2>4 DEF ConnectCommits
    <2> QED
      BY <1>3, <2>1, <2>2, <2>3, <2>4 DEF ConnectMoves
  <1>4. ASSUME NEW w \in Requests, ClientMoves(w) PROVE ClientHeld'
    <2>1. CASE GetsKeys(w)
      <3>1. req[w].op \in KeyedOps /\ clients[w] = 0
        BY <2>1 DEF GetsKeys
      <3>2. CASE Answers(w, "error") /\ UNCHANGED clients
        BY <3>1, <3>2
      <3>3. CASE Opens(w) /\ req' = [req EXCEPT ![w].at = FirstStep[req[w].op], ![w].attempt = 1]
        <4>1. FirstStep[req[w].op] \in Holding
          BY <3>1
        <4> QED
          BY <3>1, <3>3, <4>1
      <3> QED
        BY <2>1, <3>2, <3>3 DEF GetsKeys
    <2>2. CASE AccountsFetched(w)
      BY <2>2 DEF AccountsFetched, Served
    <2>3. CASE AccountsRetried(w)
      BY <2>3 DEF AccountsRetried
    <2>4. CASE AccountsFail(w)
      BY <2>4 DEF AccountsFail
    <2>5. CASE SandboxAnswers(w)
      BY <2>5 DEF SandboxAnswers, Served
    <2> QED
      BY <1>4, <2>1, <2>2, <2>3, <2>4, <2>5 DEF ClientMoves
  <1>5. ASSUME NEW w \in Requests, OrderMoves(w) PROVE ClientHeld'
    <2>1. CASE OrderPrepared(w)
      BY <2>1 DEF OrderPrepared
    <2>2. CASE OrderCreated(w)
      BY <2>2 DEF OrderCreated
    <2>3. CASE OrderPersisted(w)
      BY <2>3 DEF OrderPersisted
    <2> QED
      BY <1>5, <2>1, <2>2, <2>3 DEF OrderMoves
  <1>6. ASSUME NEW w \in Requests, QueryMoves(w) PROVE ClientHeld'
    <2>1. CASE QueryAnswers(w)
      BY <2>1 DEF QueryAnswers
    <2>2. CASE BalanceRetried(w)
      BY <2>2 DEF BalanceRetried, BalanceAttempts
    <2>3. CASE PortfolioAnswers(w)
      BY <2>3 DEF PortfolioAnswers
    <2>4. CASE CandlesFetched(w)
      BY <2>4 DEF CandlesFetched
    <2>5. CASE BinanceAnswers(w)
      BY <2>5 DEF BinanceAnswers
    <2>6. CASE HistoryAnswers(w)
      BY <2>6 DEF HistoryAnswers
    <2>7. CASE VolatilityAnswers(w)
      BY <2>7 DEF VolatilityAnswers
    <2> QED
      BY <1>6, <2>1, <2>2, <2>3, <2>4, <2>5, <2>6, <2>7 DEF QueryMoves
  <1>7. CASE UNCHANGED vars
    BY <1>7 DEF vars
  <1> QED
    BY <1>1, <1>2, <1>3, <1>4, <1>5, <1>6, <1>7 DEF Next, Moves

\* A step that places nothing, of a request that has placed nothing.
LEMMA NothingPlaced ==
  ASSUME IInv, NEW w \in Requests, placed[w] = 0, UNCHANGED <<placed, recorded>>,
         \/ \E at \in Steps \ {"persist"} : Goes(w, at)
         \/ Answers(w, "error")
         \/ req[w].op # "order" /\ Answers(w, "success")
  PROVE  (OrderProgress /\ OrdersAccountedFor)'
  <1> USE DEF IInv, TypeOK, OrderProgress, OrdersAccountedFor, At
  <1>1. ASSUME NEW at \in Steps \ {"persist"}, Goes(w, at)
        PROVE  (OrderProgress /\ OrdersAccountedFor)'
    BY <1>1 DEF Goes, StepsOfOp
  <1>2. CASE Answers(w, "error")
    BY <1>2 DEF Answers
  <1>3. CASE req[w].op # "order" /\ Answers(w, "success")
    BY <1>3 DEF Answers
  <1> QED
    BY <1>1, <1>2, <1>3

\* Only an order places and records anything, and in this order.
LEMMA OrdersStep == IInv /\ [Next]_vars => (OrderProgress /\ OrdersAccountedFor)'
  <1> SUFFICES ASSUME IInv, [Next]_vars PROVE (OrderProgress /\ OrdersAccountedFor)'
    OBVIOUS
  <1> USE DEF IInv, TypeOK, Request, StepsOfOp, OrderProgress, OrdersAccountedFor, At, Goes, Answers, Finishes,
          account, orders, ConnectSteps, OrderSteps, QuerySteps, PortfolioSteps, CandleSteps,
          HistorySteps, VolatilitySteps, KeyedOps, FirstStep
  <1>1. ASSUME NEW w \in Requests, ConnectBegins(w) PROVE (OrderProgress /\ OrdersAccountedFor)'
    BY <1>1 DEF ConnectBegins
  <1>2. ASSUME NEW w \in Requests, Begins(w) PROVE (OrderProgress /\ OrdersAccountedFor)'
    BY <1>2 DEF Begins
  <1>3. ASSUME NEW w \in Requests, ConnectMoves(w) PROVE (OrderProgress /\ OrdersAccountedFor)'
    <2>1. CASE ConnectChecks(w)
      <3>1. placed[w] = 0 /\ UNCHANGED <<placed, recorded>>
        BY <2>1 DEF ConnectChecks
      <3>2. \/ Goes(w, "validate") \/ Answers(w, "error")
            \/ req[w].op # "order" /\ Answers(w, "success")
        BY <2>1 DEF ConnectChecks
      <3> HIDE DEF IInv, TypeOK, OrderProgress, OrdersAccountedFor, Goes, Answers
      <3> QED
        BY <3>1, <3>2, NothingPlaced DEF Steps
    <2>2. CASE ConnectValidates(w)
      <3>1. placed[w] = 0 /\ UNCHANGED <<placed, recorded>>
        BY <2>2 DEF ConnectValidates
      <3>2. Goes(w, "commit") \/ Goes(w, "fallback") \/ Answers(w, "error")
        BY <2>2 DEF ConnectValidates, StoresKeys
      <3> HIDE DEF IInv, TypeOK, OrderProgress, OrdersAccountedFor, Goes, Answers
      <3> QED
        BY <3>1, <3>2, NothingPlaced DEF Steps
    <2>3. CASE ConnectFallsBack(w)
      <3>1. placed[w] = 0 /\ UNCHANGED <<placed, recorded>>
        BY <2>3 DEF ConnectFallsBack
      <3>2. Goes(w, "commit") \/ Answers(w, "error")
        BY <2>3 DEF ConnectFallsBack, StoresKeys
      <3> HIDE DEF IInv, TypeOK, OrderProgress, OrdersAccountedFor, Goes, Answers
      <3> QED
        BY <3>1, <3>2, NothingPlaced DEF Steps
    <2>4. CASE ConnectCommits(w)
      BY <2>4 DEF ConnectCommits
    <2> QED
      BY <1>3, <2>1, <2>2, <2>3, <2>4 DEF ConnectMoves
  <1>4. ASSUME NEW w \in Requests, ClientMoves(w) PROVE (OrderProgress /\ OrdersAccountedFor)'
    <2>1. CASE GetsKeys(w)
      <3>1. placed[w] = 0 /\ UNCHANGED <<placed, recorded>>
        BY <2>1 DEF GetsKeys
      <3>2. CASE Answers(w, "error")
        BY <3>1, <3>2, NothingPlaced
      <3>3. CASE req' = [req EXCEPT ![w].at = FirstStep[req[w].op], ![w].attempt = 1]
        <4>1. FirstStep[req[w].op] # "persist"
          BY <2>1 DEF GetsKeys
        <4> QED
          BY <3>1, <3>3, <4>1
      <3> QED
        BY <2>1, <3>2, <3>3 DEF GetsKeys
    <2>2. CASE AccountsFetched(w)
      BY <2>2 DEF AccountsFetched, Served
    <2>3. CASE AccountsRetried(w)
      BY <2>3 DEF AccountsRetried
    <2>4. CASE AccountsFail(w)
      <3>1. placed[w] = 0 /\ UNCHANGED <<placed, recorded>>
        BY <2>4 DEF AccountsFail
      <3>2. Goes(w, "sandbox") \/ Answers(w, "error")
        BY <2>4 DEF AccountsFail
      <3> HIDE DEF IInv, TypeOK, OrderProgress, OrdersAccountedFor, Goes, Answers
      <3> QED
        BY <3>1, <3>2, NothingPlaced DEF Steps
    <2>5. CASE SandboxAnswers(w)
      <3>1. placed[w] = 0 /\ UNCHANGED <<placed, recorded>>
        BY <2>5 DEF SandboxAnswers
      <3>2. Goes(w, "prepare") \/ Goes(w, "fetch") \/ Answers(w, "error")
        BY <2>5 DEF SandboxAnswers, Served
      <3> HIDE DEF IInv, TypeOK, OrderProgress, OrdersAccountedFor, Goes, Answers
      <3> QED
        BY <3>1, <3>2, NothingPlaced DEF Steps
    <2> QED
      BY <1>4, <2>1, <2>2, <2>3, <2>4, <2>5 DEF ClientMoves
  <1>5. ASSUME NEW w \in Requests, OrderMoves(w) PROVE (OrderProgress /\ OrdersAccountedFor)'
    <2>1. CASE OrderPrepared(w)
      <3>1. placed[w] = 0 /\ UNCHANGED <<placed, recorded>>
        BY <2>1 DEF OrderPrepared
      <3>2. Goes(w, "create") \/ Answers(w, "error")
        BY <2>1 DEF OrderPrepared
      <3> HIDE DEF IInv, TypeOK, OrderProgress, OrdersAccountedFor, Goes, Answers
      <3> QED
        BY <3>1, <3>2, NothingPlaced DEF Steps
    <2>2. CASE OrderCreated(w)
      <3>1. placed[w] = 0 /\ w \notin recorded
        BY <2>2 DEF OrderCreated
      <3>2. placed' = [placed EXCEPT ![w] = 1] \/ placed' = placed
        BY <2>2, <3>1 DEF OrderCreated
      <3> QED
        BY <2>2, <3>1, <3>2 DEF OrderCreated
    <2>3. CASE OrderPersisted(w)
      BY <2>3 DEF OrderPersisted
    <2> QED
      BY <1>5, <2>1, <2>2, <2>3 DEF OrderMoves
  <1>6. ASSUME NEW w \in Requests, QueryMoves(w) PROVE (OrderProgress /\ OrdersAccountedFor)'
    <2>1. CASE QueryAnswers(w)
      BY <2>1 DEF QueryAnswers
    <2>2. CASE BalanceRetried(w)
      BY <2>2 DEF BalanceRetried, BalanceAttempts
    <2>3. CASE PortfolioAnswers(w)
      BY <2>3 DEF PortfolioAnswers
    <2>4. CASE CandlesFetched(w)
      BY <2>4 DEF CandlesFetched
    <2>5. CASE BinanceAnswers(w)
      BY <2>5 DEF BinanceAnswers
    <2>6. CASE HistoryAnswers(w)
      BY <2>6 DEF HistoryAnswers
    <2>7. CASE VolatilityAnswers(w)
      BY <2>7 DEF VolatilityAnswers
    <2> QED
      BY <1>6, <2>1, <2>2, <2>3, <2>4, <2>5, <2>6, <2>7 DEF QueryMoves
  <1>7. CASE UNCHANGED vars
    BY <1>7 DEF vars
  <1> QED
    BY <1>1, <1>2, <1>3, <1>4, <1>5, <1>6, <1>7 DEF Next, Moves

\* The secret never goes away again, and a commit sets the row and the mark.
LEMMA KeysStep == IInv /\ [Next]_vars => (KeysBeforeRow /\ ConnectedHasKeys)'
  <1> SUFFICES ASSUME IInv, [Next]_vars PROVE (KeysBeforeRow /\ ConnectedHasKeys)'
    OBVIOUS
  <1> USE NoneIsNoRequest
      DEF IInv, TypeOK, Request, StepsOfOp, KeysBeforeRow, ConnectedHasKeys, At, Goes, Answers, Finishes,
          account, orders, ConnectSteps, OrderSteps, QuerySteps, PortfolioSteps, CandleSteps,
          HistorySteps, VolatilitySteps, KeyedOps, FirstStep
  <1>1. ASSUME NEW w \in Requests, ConnectBegins(w) PROVE (KeysBeforeRow /\ ConnectedHasKeys)'
    BY <1>1 DEF ConnectBegins
  <1>2. ASSUME NEW w \in Requests, Begins(w) PROVE (KeysBeforeRow /\ ConnectedHasKeys)'
    BY <1>2 DEF Begins
  <1>3. ASSUME NEW w \in Requests, ConnectMoves(w) PROVE (KeysBeforeRow /\ ConnectedHasKeys)'
    <2>1. CASE ConnectChecks(w)
      <3>1. \/ Goes(w, "validate") \/ Answers(w, "success") \/ Answers(w, "error")
        BY <2>1 DEF ConnectChecks
      <3>2. UNCHANGED <<rows, secret, connected>>
        BY <2>1 DEF ConnectChecks
      <3>3. \A u \in Requests : req'[u].at = "commit" => req[u].at = "commit"
        BY <3>1
      <3> QED
        BY <3>2, <3>3
    <2>2. CASE ConnectValidates(w)
      BY <2>2 DEF ConnectValidates, StoresKeys
    <2>3. CASE ConnectFallsBack(w)
      BY <2>3 DEF ConnectFallsBack, StoresKeys
    <2>4. CASE ConnectCommits(w)
      BY <2>4 DEF ConnectCommits
    <2> QED
      BY <1>3, <2>1, <2>2, <2>3, <2>4 DEF ConnectMoves
  <1>4. ASSUME NEW w \in Requests, ClientMoves(w) PROVE (KeysBeforeRow /\ ConnectedHasKeys)'
    <2>1. CASE GetsKeys(w)
      BY <2>1 DEF GetsKeys, FirstStep
    <2>2. CASE AccountsFetched(w)
      BY <2>2 DEF AccountsFetched, Served
    <2>3. CASE AccountsRetried(w)
      BY <2>3 DEF AccountsRetried
    <2>4. CASE AccountsFail(w)
      BY <2>4 DEF AccountsFail
    <2>5. CASE SandboxAnswers(w)
      BY <2>5 DEF SandboxAnswers, Served
    <2> QED
      BY <1>4, <2>1, <2>2, <2>3, <2>4, <2>5 DEF ClientMoves
  <1>5. ASSUME NEW w \in Requests, OrderMoves(w) PROVE (KeysBeforeRow /\ ConnectedHasKeys)'
    <2>1. CASE OrderPrepared(w)
      BY <2>1 DEF OrderPrepared
    <2>2. CASE OrderCreated(w)
      BY <2>2 DEF OrderCreated
    <2>3. CASE OrderPersisted(w)
      BY <2>3 DEF OrderPersisted
    <2> QED
      BY <1>5, <2>1, <2>2, <2>3 DEF OrderMoves
  <1>6. ASSUME NEW w \in Requests, QueryMoves(w) PROVE (KeysBeforeRow /\ ConnectedHasKeys)'
    <2>1. CASE QueryAnswers(w)
      BY <2>1 DEF QueryAnswers
    <2>2. CASE BalanceRetried(w)
      BY <2>2 DEF BalanceRetried, BalanceAttempts
    <2>3. CASE PortfolioAnswers(w)
      BY <2>3 DEF PortfolioAnswers
    <2>4. CASE CandlesFetched(w)
      BY <2>4 DEF CandlesFetched
    <2>5. CASE BinanceAnswers(w)
      BY <2>5 DEF BinanceAnswers
    <2>6. CASE HistoryAnswers(w)
      BY <2>6 DEF HistoryAnswers
    <2>7. CASE VolatilityAnswers(w)
      BY <2>7 DEF VolatilityAnswers
    <2> QED
      BY <1>6, <2>1, <2>2, <2>3, <2>4, <2>5, <2>6, <2>7 DEF QueryMoves
  <1>7. CASE UNCHANGED vars
    BY <1>7 DEF vars
  <1> QED
    BY <1>1, <1>2, <1>3, <1>4, <1>5, <1>6, <1>7 DEF Next, Moves

------------------------------------------------------------------------------
\* The strengthened invariant holds in every state.
THEOREM Invariance == Spec => []IInv
  <1>1. IInv /\ [Next]_vars => IInv'
    BY TypeStep, StepsStep, ClientsStep, OrdersStep, KeysStep DEF IInv
  <1> QED
    BY InitHolds, <1>1, PTL DEF Spec

\* The variables keep their types for any number of requests and attempts.
THEOREM TypeCorrect == Spec => []TypeOK
  <1>1. IInv => TypeOK
    BY DEF IInv
  <1> QED
    BY <1>1, Invariance, PTL

\* No order or query that was answered leaves an exchange client open.
THEOREM NoClientLeft == Spec => []ClientsClosed
  <1>1. IInv => ClientsClosed
    BY DEF IInv, ClientHeld, ClientsClosed, Holding, At
  <1> QED
    BY <1>1, Invariance, PTL

\* One order at most per request, recorded if it was answered with success.
THEOREM OrdersOnce == Spec => []OrdersAccountedFor
  <1>1. IInv => OrdersAccountedFor
    BY DEF IInv
  <1> QED
    BY <1>1, Invariance, PTL

\* A user marked as connected has keys in the database and in Secrets Manager.
THEOREM KeysStored == Spec => []ConnectedHasKeys
  <1>1. IInv => ConnectedHasKeys
    BY DEF IInv
  <1> QED
    BY <1>1, Invariance, PTL

------------------------------------------------------------------------------
(* The account is a trading desk.                                            *)

\* An order past its keys belongs to a connected account: rows are never deleted.
LinkedOrders ==
    \A w \in Requests :
        req[w].op = "order" /\ req[w].at \in OrderSteps \ {"keys"} => rows # {}

\* An order is booked by the step that ends it.
BookedEnded == \A w \in recorded : At(w, "ended")

DInv == IInv /\ LinkedOrders /\ BookedEnded

\* What a step of a request leaves alone: the other requests, the rows that are
\* there, and, unless it persists, the booked orders.  It brings an order past
\* its keys only if there is a row.
LEMMA RequestEffect ==
    ASSUME DInv, NEW w \in Requests, ConnectBegins(w) \/ Begins(w) \/ Moves(w)
    PROVE  /\ \A u \in Requests \ {w} : req'[u] = req[u]
           /\ rows \subseteq rows' /\ ~At(w, "ended")
           /\ ~OrderPersisted(w) => recorded' = recorded
           /\ req'[w].op = "order" /\ req'[w].at \in OrderSteps \ {"keys"} => rows # {}
  <1> USE DEF DInv, IInv, TypeOK, Request, StepsOfOp, LinkedOrders, At, Goes, Answers, Finishes,
          account, orders, ConnectSteps, OrderSteps, QuerySteps, PortfolioSteps, CandleSteps,
          HistorySteps, VolatilitySteps, KeyedOps, FirstStep
  <1>1. CASE ConnectBegins(w)
    BY <1>1 DEF ConnectBegins
  <1>2. CASE Begins(w)
    <2>1. req'[w].at = "keys" /\ \A u \in Requests \ {w} : req'[u] = req[u]
      <3>1. req \in [Requests -> Request]
        OBVIOUS
      <3> HIDE DEF DInv, IInv, TypeOK, KeyedOps, FirstStep
      <3>2. PICK op \in KeyedOps : req' = [req EXCEPT ![w].op = op, ![w].at = "keys"]
        BY <1>2 DEF Begins
      <3> QED
        BY <3>1, <3>2
    <2> QED
      BY <1>2, <2>1 DEF Begins
  <1>3. CASE ConnectMoves(w)
    <2>1. CASE ConnectChecks(w)
      BY <2>1 DEF ConnectChecks
    <2>2. CASE ConnectValidates(w)
      BY <2>2 DEF ConnectValidates, StoresKeys
    <2>3. CASE ConnectFallsBack(w)
      BY <2>3 DEF ConnectFallsBack, StoresKeys
    <2>4. CASE ConnectCommits(w)
      BY <2>4 DEF ConnectCommits
    <2> QED
      BY <1>3, <2>1, <2>2, <2>3, <2>4 DEF ConnectMoves
  <1>4. CASE ClientMoves(w)
    <2>1. CASE GetsKeys(w)
      <3>1. Cardinality({}) = 0
        BY FS_EmptySet
      <3>2. UNCHANGED <<rows, recorded>> /\ ~At(w, "ended")
        BY <2>1 DEF GetsKeys
      <3>3. CASE Answers(w, "error")
        BY <3>2, <3>3
      <3>4. CASE Cardinality(rows) = 1 /\ req' = [req EXCEPT ![w].at = FirstStep[req[w].op], ![w].attempt = 1]
        <4>1. \A u \in Requests \ {w} : req'[u] = req[u]
          BY <3>4
        <4> HIDE DEF DInv, IInv, TypeOK, KeyedOps, FirstStep
        <4>2. rows # {}
          BY <3>1, <3>4
        <4> QED
          BY <3>2, <4>1, <4>2
      <3> QED
        BY <2>1, <3>3, <3>4 DEF GetsKeys
    <2>2. CASE AccountsFetched(w)
      BY <2>2 DEF AccountsFetched, Served
    <2>3. CASE AccountsRetried(w)
      BY <2>3 DEF AccountsRetried
    <2>4. CASE AccountsFail(w)
      BY <2>4 DEF AccountsFail
    <2>5. CASE SandboxAnswers(w)
      BY <2>5 DEF SandboxAnswers, Served
    <2> QED
      BY <1>4, <2>1, <2>2, <2>3, <2>4, <2>5 DEF ClientMoves
  <1>5. CASE OrderMoves(w)
    <2>1. CASE OrderPrepared(w)
      BY <2>1 DEF OrderPrepared
    <2>2. CASE OrderCreated(w)
      BY <2>2 DEF OrderCreated
    <2>3. CASE OrderPersisted(w)
      BY <2>3 DEF OrderPersisted
    <2> QED
      BY <1>5, <2>1, <2>2, <2>3 DEF OrderMoves
  <1>6. CASE QueryMoves(w)
    <2>1. CASE QueryAnswers(w)
      BY <2>1 DEF QueryAnswers
    <2>2. CASE BalanceRetried(w)
      BY <2>2 DEF BalanceRetried, BalanceAttempts
    <2>3. CASE PortfolioAnswers(w)
      BY <2>3 DEF PortfolioAnswers
    <2>4. CASE CandlesFetched(w)
      BY <2>4 DEF CandlesFetched
    <2>5. CASE BinanceAnswers(w)
      BY <2>5 DEF BinanceAnswers
    <2>6. CASE HistoryAnswers(w)
      BY <2>6 DEF HistoryAnswers
    <2>7. CASE VolatilityAnswers(w)
      BY <2>7 DEF VolatilityAnswers
    <2> QED
      BY <1>6, <2>1, <2>2, <2>3, <2>4, <2>5, <2>6, <2>7 DEF QueryMoves
  <1> HIDE DEF DInv
  <1> QED
    BY <1>1, <1>2, <1>3, <1>4, <1>5, <1>6 DEF Moves

\* The strengthened invariant of the desk is inductive.
LEMMA DeskInvariance == Spec => []DInv
  <1>1. Init => DInv
    BY InitHolds DEF Init, DInv, LinkedOrders, BookedEnded
  <1>2. DInv /\ [Next]_vars => DInv'
    <2> SUFFICES ASSUME DInv, [Next]_vars PROVE DInv'
      OBVIOUS
    <2>0. IInv /\ IInv' /\ TypeOK
      BY TypeStep, StepsStep, ClientsStep, OrdersStep, KeysStep DEF IInv, DInv
    <2>1. ASSUME NEW w \in Requests, ConnectBegins(w) \/ Begins(w) \/ Moves(w)
          PROVE  (LinkedOrders /\ BookedEnded)'
      <3>1. LinkedOrders'
        BY <2>1, RequestEffect DEF DInv, LinkedOrders
      <3>2. BookedEnded'
        <4>1. CASE OrderPersisted(w)
          <5>1. recorded' \subseteq recorded \cup {w} /\ req'[w].at = "ended"
            BY <2>0, <4>1 DEF OrderPersisted, Finishes, Answers, TypeOK, Request
          <5> QED
            BY <2>0, <2>1, <5>1, RequestEffect DEF DInv, BookedEnded, At, TypeOK
        <4>2. CASE ~OrderPersisted(w)
          BY <2>0, <2>1, <4>2, RequestEffect DEF DInv, BookedEnded, At, TypeOK
        <4> QED
          BY <4>1, <4>2
      <3> QED
        BY <3>1, <3>2
    <2>2. CASE UNCHANGED vars
      <3>1. LinkedOrders' /\ BookedEnded'
        BY <2>2 DEF vars, DInv, LinkedOrders, BookedEnded, At
      <3> QED
        BY <2>0, <3>1 DEF DInv
    <2> QED
      BY <2>0, <2>1, <2>2 DEF Next, DInv
  <1> QED
    BY <1>1, <1>2, PTL DEF Spec

\* No other request becomes a confirmed order, and the one that moves does only
\* if it is an order that ends with success.
LEMMA OthersConfirmed ==
    ASSUME DInv, NEW w \in Requests, ConnectBegins(w) \/ Begins(w) \/ Moves(w)
    PROVE  Confirmed' = IF req'[w].op = "order" /\ req'[w].answer = "success"
                        THEN Confirmed \cup {w} ELSE Confirmed
  <1>1. w \notin Confirmed
    BY RequestEffect DEF DInv, IInv, StepsOfOp, Confirmed
  <1>2. \A u \in Requests \ {w} : req'[u] = req[u]
    BY RequestEffect
  <1> QED
    BY <1>1, <1>2 DEF Confirmed

\* Connecting stores keys, links the account, or leaves the desk alone.
LEMMA ConnectStep ==
    ASSUME DInv, NEW w \in Requests, ConnectBegins(w) \/ ConnectMoves(w)
    PROVE  [Desk!Next]_(Desk!vars)
  <1> USE DEF DInv, IInv, TypeOK, Request, StepsOfOp, At, Goes, Answers, account, orders,
          ConnectSteps, OrderSteps, QuerySteps, PortfolioSteps, CandleSteps, HistorySteps, VolatilitySteps
  <1>1. Confirmed' = Confirmed
    <2>1. ~(req'[w].op = "order")
      BY DEF ConnectBegins, ConnectMoves, ConnectChecks, ConnectValidates, ConnectFallsBack,
             ConnectCommits, StoresKeys, KeyedOps, FirstStep
    <2> HIDE DEF DInv
    <2> QED
      BY <2>1, OthersConfirmed DEF Moves
  <1>2. CASE ConnectBegins(w) \/ ConnectChecks(w)
    BY <1>1, <1>2 DEF ConnectBegins, ConnectChecks, Desk!vars
  <1>3. CASE ConnectValidates(w) \/ ConnectFallsBack(w)
    <2>1. UNCHANGED <<rows, connected, placed, recorded>> /\ (secret' = w \/ secret' = secret)
      BY <1>3 DEF ConnectValidates, ConnectFallsBack, StoresKeys
    <2>2. CASE secret' = w
      <3>1. Desk!Store
        BY <1>1, <2>1, <2>2, NoneIsNoRequest DEF Desk!Store
      <3> QED
        BY <3>1 DEF Desk!Next
    <2>3. CASE secret' = secret
      BY <1>1, <2>1, <2>3 DEF Desk!vars
    <2> QED
      BY <2>1, <2>2, <2>3
  <1>4. CASE ConnectCommits(w)
    <2>1. /\ UNCHANGED <<secret, placed, recorded>> /\ secret # None
          /\ connected' = TRUE \/ connected' = connected
      BY <1>4 DEF ConnectCommits, KeysBeforeRow
    <2>2. CASE connected' = TRUE
      <3>1. Desk!Link
        BY <1>1, <2>1, <2>2 DEF Desk!Link
      <3> QED
        BY <3>1 DEF Desk!Next
    <2>3. CASE connected' = connected
      BY <1>1, <2>1, <2>3 DEF Desk!vars
    <2> QED
      BY <2>1, <2>2, <2>3
  <1> QED
    BY <1>2, <1>3, <1>4 DEF ConnectMoves

\* The client and the queries leave the desk alone.
LEMMA ClientStep ==
    ASSUME DInv, NEW w \in Requests,
           Begins(w) \/ ClientMoves(w) \/ OrderPrepared(w) \/ QueryMoves(w)
    PROVE  UNCHANGED Desk!vars
  <1> USE DEF DInv, IInv, TypeOK, Request, StepsOfOp, At, Goes, Answers, Finishes, account, orders,
          ConnectSteps, OrderSteps, QuerySteps, PortfolioSteps, CandleSteps, HistorySteps, VolatilitySteps
  <1>1. UNCHANGED <<rows, secret, connected, placed, recorded>>
    BY DEF Begins, ClientMoves, GetsKeys, AccountsFetched, AccountsRetried, AccountsFail,
           SandboxAnswers, OrderPrepared, QueryMoves, QueryAnswers, BalanceRetried, PortfolioAnswers,
           CandlesFetched, BinanceAnswers, HistoryAnswers, VolatilityAnswers
  <1>2. ~(req'[w].op = "order" /\ req'[w].answer = "success")
    <2>1. CASE Begins(w)
      BY <2>1 DEF Begins
    <2>2. CASE ClientMoves(w)
      BY <2>2 DEF ClientMoves, GetsKeys, AccountsFetched, AccountsRetried, AccountsFail, SandboxAnswers
    <2>3. CASE OrderPrepared(w)
      BY <2>3 DEF OrderPrepared
    <2>4. CASE QueryMoves(w)
      <3>1. req[w].op # "order"
        BY <2>4 DEF QueryMoves, QueryAnswers, BalanceRetried, PortfolioAnswers, CandlesFetched,
                    BinanceAnswers, HistoryAnswers, VolatilityAnswers
      <3>2. req'[w].op = req[w].op
        BY <2>4 DEF QueryMoves, QueryAnswers, BalanceRetried, PortfolioAnswers, CandlesFetched,
                    BinanceAnswers, HistoryAnswers, VolatilityAnswers
      <3> QED
        BY <3>1, <3>2
    <2> QED
      BY <2>1, <2>2, <2>3, <2>4
  <1>3. Confirmed' = Confirmed
    <2> HIDE DEF DInv
    <2> QED
      BY <1>2, OthersConfirmed DEF Moves, OrderMoves
  <1> QED
    BY <1>1, <1>3 DEF Desk!vars

\* create_order is the exchange's acceptance, whether its answer arrives or not.
LEMMA CreateStep ==
    ASSUME DInv, NEW w \in Requests, OrderCreated(w)
    PROVE  [Desk!Next]_(Desk!vars)
  <1> USE DEF DInv, IInv, TypeOK, Request, StepsOfOp, At, Goes, Answers, Finishes, account, OrderCreated
  <1>1. UNCHANGED <<rows, secret, connected, recorded>>
    OBVIOUS
  <1>2. req[w].op = "order" /\ connected /\ placed[w] = 0
    BY DEF LinkedOrders, ConnectedHasKeys, OrderProgress, OrdersAccountedFor, OrderSteps,
           ConnectSteps, QuerySteps, PortfolioSteps, CandleSteps, HistorySteps, VolatilitySteps,
           KeyedOps, FirstStep
  <1>3. Confirmed' = Confirmed
    <2>1. req'[w].answer # "success"
      OBVIOUS
    <2> HIDE DEF DInv, OrderCreated
    <2> QED
      BY <2>1, OthersConfirmed DEF Moves, OrderMoves
  <1>4. CASE placed' = [placed EXCEPT ![w] = @ + 1]
    <2>1. Desk!Accept(w)
      BY <1>1, <1>2, <1>3, <1>4 DEF Desk!Accept
    <2> QED
      BY <2>1 DEF Desk!Next
  <1>5. CASE placed' = placed
    BY <1>1, <1>3, <1>5 DEF Desk!vars
  <1> QED
    BY <1>4, <1>5

\* The commit books the order in the step that may confirm it.
LEMMA PersistStep ==
    ASSUME DInv, NEW w \in Requests, OrderPersisted(w)
    PROVE  [Desk!Next]_(Desk!vars)
  <1>1. UNCHANGED <<rows, secret, connected, placed>>
    BY DEF OrderPersisted, account
  <1>2. placed[w] = 1 /\ w \notin recorded
    BY DEF DInv, IInv, OrderPersisted, OrderProgress, BookedEnded, At
  <1>3. Confirmed' \in {Confirmed, Confirmed \cup {w}}
    BY OthersConfirmed DEF Moves, OrderMoves
  <1>4. CASE recorded' = recorded \cup {w}
    <2>1. Desk!Book(w)
      BY <1>1, <1>2, <1>3, <1>4 DEF Desk!Book
    <2> QED
      BY <2>1 DEF Desk!Next
  <1>5. CASE recorded' = recorded /\ Finishes(w, "error")
    <2>1. req'[w].answer = "error"
      BY <1>5 DEF Finishes, Answers, DInv, IInv, TypeOK, Request
    <2>2. Confirmed' = Confirmed
      BY <2>1, OthersConfirmed DEF Moves, OrderMoves
    <2> QED
      BY <1>1, <1>5, <2>2 DEF Desk!vars
  <1> QED
    BY <1>4, <1>5 DEF OrderPersisted

\* The account is a trading desk for any number of requests and attempts: an
\* order reaches the exchange once at most and only from a connected account,
\* its row follows the acceptance, and success is answered in the step that
\* commits it.
THEOREM DeskKept == Spec => KeepsDesk
  <1>1. Init => Desk!Init
    BY DEF Init, Desk!Init, Confirmed
  <1>2. DInv /\ [Next]_vars => [Desk!Next]_(Desk!vars)
    <2> SUFFICES ASSUME DInv, [Next]_vars PROVE [Desk!Next]_(Desk!vars)
      OBVIOUS
    <2>1. ASSUME NEW w \in Requests, ConnectBegins(w) \/ Begins(w) \/ Moves(w)
          PROVE  [Desk!Next]_(Desk!vars)
      <3>1. CASE ConnectBegins(w) \/ ConnectMoves(w)
        BY <3>1, ConnectStep
      <3>2. CASE Begins(w) \/ ClientMoves(w) \/ OrderPrepared(w) \/ QueryMoves(w)
        BY <3>2, ClientStep
      <3>3. CASE OrderCreated(w)
        BY <3>3, CreateStep
      <3>4. CASE OrderPersisted(w)
        BY <3>4, PersistStep
      <3> QED
        BY <2>1, <3>1, <3>2, <3>3, <3>4 DEF Moves, OrderMoves
    <2>2. CASE UNCHANGED vars
      BY <2>2 DEF vars, Desk!vars, Confirmed
    <2> QED
      BY <2>1, <2>2 DEF Next
  <1> QED
    BY <1>1, <1>2, DeskInvariance, PTL DEF Spec, KeepsDesk, Desk!Spec

------------------------------------------------------------------------------
(* Every step brings a request nearer to its answer.                         *)

\* How many steps a request is from its answer at most.
Left(r) ==
    CASE r.at = "new" -> Attempts + 6
      [] r.at = "keys" -> Attempts + 5
      [] r.at = "accounts" -> (Attempts - r.attempt) + 5
      [] r.at \in {"check", "sandbox"} -> 4
      [] r.at \in {"validate", "prepare"} -> 3
      [] r.at = "balance" -> (BalanceAttempts - r.attempt) + 1
      [] r.at \in {"fallback", "create", "primary"} -> 2
      [] r.at \in {"commit", "persist", "fetch", "binance", "pages", "hourly"} -> 1
      [] r.at = "ended" -> 0

\* A retry counts its attempts up to the bound.
AttemptsCounted ==
    \A w \in Requests :
        /\ At(w, "accounts") => req[w].attempt \in 1..Attempts
        /\ At(w, "balance") => req[w].attempt \in 1..BalanceAttempts

VInv == DInv /\ AttemptsCounted

\* Request w alone moves, and is nearer to its answer.
Nearer(w) ==
    /\ \A u \in Requests \ {w} : req'[u] = req[u]
    /\ Left(req[w]) \in Nat /\ Left(req'[w]) \in Nat
    /\ Left(req'[w]) < Left(req[w])

\* No retry and no fallback is a way back: each step of the system uses up one of
\* the steps that some request has left, Attempts + 6 at the start, so that the
\* requests end whatever fails (coinbase_cctx.py:48, exchange.py:273, 369).
RunsDown == [][\E w \in Requests : Nearer(w)]_vars

\* Only an answer has no steps left.
LEMMA LeftBounded ==
    ASSUME VInv, NEW w \in Requests
    PROVE  /\ Left(req[w]) \in Nat
           /\ ~At(w, "ended") => Left(req[w]) >= 1
  <1>1. req[w].at \in Steps
    BY DEF VInv, DInv, IInv, TypeOK, Request
  <1>2. CASE At(w, "accounts")
    BY <1>2, AttemptsIsPositive DEF VInv, AttemptsCounted, Left, At
  <1>3. CASE At(w, "balance")
    BY <1>3 DEF VInv, AttemptsCounted, Left, At, BalanceAttempts
  <1>4. CASE ~At(w, "accounts") /\ ~At(w, "balance")
    BY <1>1, <1>4, AttemptsIsPositive
    DEF Left, At, Steps, ConnectSteps, OrderSteps, QuerySteps, PortfolioSteps, CandleSteps,
        HistorySteps, VolatilitySteps
  <1> QED
    BY <1>2, <1>3, <1>4

\* A request that is answered has no step left.
LEMMA AnswerNears ==
    ASSUME VInv, NEW w \in Requests, NEW a, Answers(w, a), ~At(w, "ended")
    PROVE  req'[w].at = "ended" /\ Left(req'[w]) = 0 /\ Left(req'[w]) < Left(req[w])
  <1>1. req'[w].at = "ended"
    BY DEF VInv, DInv, IInv, TypeOK, Request, Answers
  <1>2. Left(req'[w]) = 0
    BY <1>1 DEF Left
  <1> QED
    BY <1>1, <1>2, LeftBounded

\* The steps left at each step.
LEMMA LeftOf ==
    ASSUME NEW r
    PROVE  /\ r.at = "new" => Left(r) = Attempts + 6
           /\ r.at = "keys" => Left(r) = Attempts + 5
           /\ r.at = "accounts" => Left(r) = (Attempts - r.attempt) + 5
           /\ r.at \in {"check", "sandbox"} => Left(r) = 4
           /\ r.at \in {"validate", "prepare"} => Left(r) = 3
           /\ r.at = "balance" => Left(r) = (BalanceAttempts - r.attempt) + 1
           /\ r.at \in {"fallback", "create", "primary"} => Left(r) = 2
           /\ r.at \in {"commit", "persist", "fetch", "binance", "pages", "hourly"} => Left(r) = 1
  BY DEF Left

\* A step of a request leaves it fewer steps, and the attempts in their range.
LEMMA StepNears ==
    ASSUME VInv, NEW w \in Requests, ConnectBegins(w) \/ Begins(w) \/ Moves(w)
    PROVE  /\ Left(req'[w]) \in Nat /\ Left(req'[w]) < Left(req[w])
           /\ req'[w].at = "accounts" => req'[w].attempt \in 1..Attempts
           /\ req'[w].at = "balance" => req'[w].attempt \in 1..BalanceAttempts
  <1> DEFINE Near == /\ Left(req'[w]) \in Nat /\ Left(req'[w]) < Left(req[w])
                     /\ req'[w].at = "accounts" => req'[w].attempt \in 1..Attempts
                     /\ req'[w].at = "balance" => req'[w].attempt \in 1..BalanceAttempts
  <1>0. /\ req \in [Requests -> Request] /\ req[w] \in Request /\ req[w].at \in Steps
        /\ Attempts \in Nat /\ Attempts >= 1
    BY AttemptsIsPositive DEF VInv, DInv, IInv, TypeOK, Request
  <1>r. /\ At(w, "accounts") => req[w].attempt \in 1..Attempts
        /\ At(w, "balance") => req[w].attempt \in 1..BalanceAttempts
    BY DEF VInv, AttemptsCounted
  <1>a. ASSUME NEW a, Answers(w, a) PROVE Near
    <2>1. ~At(w, "ended")
      BY RequestEffect DEF VInv
    <2>2. req'[w].at = "ended" /\ Left(req'[w]) = 0 /\ Left(req'[w]) < Left(req[w])
      BY <1>a, <2>1, AnswerNears
    <2> QED
      BY <2>2
  <1>g. ASSUME NEW at \in Steps, Goes(w, at) PROVE req'[w].at = at
    BY <1>0, <1>g DEF Goes
  <1>s. /\ {"validate", "fallback", "commit", "sandbox", "prepare", "create", "persist"} \subseteq Steps
        /\ {"fetch", "binance"} \subseteq Steps
    BY DEF Steps, ConnectSteps, OrderSteps, QuerySteps, CandleSteps
  <1>1. CASE ConnectBegins(w)
    <2>1. req[w].at = "new" /\ req'[w].at = "check"
      BY <1>0, <1>1 DEF ConnectBegins, At
    <2> QED
      BY <1>0, <2>1, LeftOf
  <1>2. CASE Begins(w)
    <2>1. req[w].at = "new" /\ req'[w].at = "keys"
      <3>1. PICK op \in KeyedOps : req' = [req EXCEPT ![w].op = op, ![w].at = "keys"]
        BY <1>2 DEF Begins
      <3>2. req[w].at = "new"
        BY <1>2 DEF Begins, At
      <3> HIDE DEF KeyedOps
      <3> QED
        BY <1>0, <3>1, <3>2
    <2> QED
      BY <1>0, <2>1, LeftOf
  <1>3. CASE ConnectMoves(w)
    <2>1. CASE ConnectChecks(w)
      <3>1. CASE Goes(w, "validate")
        <4>1. req[w].at = "check" /\ req'[w].at = "validate"
          BY <1>g, <1>s, <2>1, <3>1 DEF ConnectChecks, At
        <4> QED
          BY <4>1, LeftOf
      <3> QED
        BY <1>a, <2>1, <3>1 DEF ConnectChecks
    <2>2. CASE ConnectValidates(w)
      <3>1. CASE Goes(w, "commit") \/ Goes(w, "fallback")
        <4>1. req[w].at = "validate" /\ req'[w].at \in {"commit", "fallback"}
          BY <1>g, <1>s, <2>2, <3>1 DEF ConnectValidates, At
        <4> QED
          BY <4>1, LeftOf
      <3> QED
        BY <1>a, <2>2, <3>1 DEF ConnectValidates, StoresKeys
    <2>3. CASE ConnectFallsBack(w)
      <3>1. CASE Goes(w, "commit")
        <4>1. req[w].at = "fallback" /\ req'[w].at = "commit"
          BY <1>g, <1>s, <2>3, <3>1 DEF ConnectFallsBack, At
        <4> QED
          BY <4>1, LeftOf
      <3> QED
        BY <1>a, <2>3, <3>1 DEF ConnectFallsBack, StoresKeys
    <2>4. CASE ConnectCommits(w)
      BY <1>a, <2>4 DEF ConnectCommits
    <2> QED
      BY <1>3, <2>1, <2>2, <2>3, <2>4 DEF ConnectMoves
  <1>4. CASE ClientMoves(w)
    <2>1. CASE GetsKeys(w)
      <3>1. CASE req' = [req EXCEPT ![w].at = FirstStep[req[w].op], ![w].attempt = 1]
        <4>1. /\ req[w].at = "keys" /\ req'[w].attempt = 1
              /\ req'[w].at = FirstStep[req[w].op]
          BY <1>0, <2>1, <3>1 DEF GetsKeys, At, Request
        <4>2. req[w].op \in KeyedOps
          BY <4>1 DEF VInv, DInv, IInv, StepsOfOp, At, TypeOK, Request, ConnectSteps
        <4>3. FirstStep[req[w].op] \in {"accounts", "balance", "primary", "pages", "hourly"}
          BY <4>2 DEF KeyedOps, FirstStep
        <4> HIDE DEF FirstStep
        <4> QED
          BY <1>0, <4>1, <4>3, LeftOf DEF BalanceAttempts
      <3> QED
        BY <1>a, <2>1, <3>1 DEF GetsKeys
    <2>2. CASE AccountsFetched(w)
      <3>1. req[w].at = "accounts" /\ req'[w].at \in {"prepare", "fetch"}
        BY <1>g, <1>s, <2>2 DEF AccountsFetched, Served, At
      <3> QED
        BY <1>0, <1>r, <3>1, LeftOf DEF At
    <2>3. CASE AccountsRetried(w)
      <3>1. /\ req[w].at = "accounts" /\ req'[w].at = "accounts"
            /\ req'[w].attempt = req[w].attempt + 1 /\ req[w].attempt < Attempts
        BY <1>0, <2>3 DEF AccountsRetried, At, Request
      <3> QED
        BY <1>0, <1>r, <3>1, LeftOf DEF At
    <2>4. CASE AccountsFail(w)
      <3>1. CASE Goes(w, "sandbox")
        <4>1. req[w].at = "accounts" /\ req'[w].at = "sandbox"
          BY <1>g, <1>s, <2>4, <3>1 DEF AccountsFail, At
        <4> QED
          BY <1>0, <1>r, <4>1, LeftOf DEF At
      <3> QED
        BY <1>a, <2>4, <3>1 DEF AccountsFail
    <2>5. CASE SandboxAnswers(w)
      <3>1. CASE Goes(w, Served(w))
        <4>1. req[w].at = "sandbox" /\ req'[w].at \in {"prepare", "fetch"}
          BY <1>g, <1>s, <2>5, <3>1 DEF SandboxAnswers, Served, At
        <4> QED
          BY <4>1, LeftOf
      <3> QED
        BY <1>a, <2>5, <3>1 DEF SandboxAnswers
    <2> QED
      BY <1>4, <2>1, <2>2, <2>3, <2>4, <2>5 DEF ClientMoves
  <1>5. CASE OrderMoves(w)
    <2>1. CASE OrderPrepared(w)
      <3>1. CASE Goes(w, "create")
        <4>1. req[w].at = "prepare" /\ req'[w].at = "create"
          BY <1>g, <1>s, <2>1, <3>1 DEF OrderPrepared, At
        <4> QED
          BY <4>1, LeftOf
      <3> QED
        BY <1>a, <2>1, <3>1 DEF OrderPrepared, Finishes
    <2>2. CASE OrderCreated(w)
      <3>1. CASE Goes(w, "persist")
        <4>1. req[w].at = "create" /\ req'[w].at = "persist"
          BY <1>g, <1>s, <2>2, <3>1 DEF OrderCreated, At
        <4> QED
          BY <4>1, LeftOf
      <3> QED
        BY <1>a, <2>2, <3>1 DEF OrderCreated, Finishes
    <2>3. CASE OrderPersisted(w)
      BY <1>a, <2>3 DEF OrderPersisted, Finishes
    <2> QED
      BY <1>5, <2>1, <2>2, <2>3 DEF OrderMoves
  <1>6. CASE QueryMoves(w)
    <2>1. CASE BalanceRetried(w)
      <3>1. /\ req[w].at = "balance" /\ req'[w].at = "balance"
            /\ req'[w].attempt = req[w].attempt + 1 /\ req[w].attempt < BalanceAttempts
        BY <1>0, <2>1 DEF BalanceRetried, At, Request
      <3> QED
        BY <1>r, <3>1, LeftOf DEF At, BalanceAttempts
    <2>2. CASE CandlesFetched(w)
      <3>1. CASE Goes(w, "binance")
        <4>1. req[w].at = "primary" /\ req'[w].at = "binance"
          BY <1>g, <1>s, <2>2, <3>1 DEF CandlesFetched, At
        <4> QED
          BY <4>1, LeftOf
      <3> QED
        BY <1>a, <2>2, <3>1 DEF CandlesFetched, Finishes
    <2>3. CASE QueryAnswers(w) \/ PortfolioAnswers(w) \/ BinanceAnswers(w)
      BY <1>a, <2>3 DEF QueryAnswers, PortfolioAnswers, BinanceAnswers, Finishes
    <2>4. CASE HistoryAnswers(w) \/ VolatilityAnswers(w)
      BY <1>a, <2>4 DEF HistoryAnswers, VolatilityAnswers, Finishes
    <2> QED
      BY <1>6, <2>1, <2>2, <2>3, <2>4 DEF QueryMoves
  <1> QED
    BY <1>1, <1>2, <1>3, <1>4, <1>5, <1>6 DEF Moves

\* The attempts stay in their range.
LEMMA AttemptsInvariance == Spec => []VInv
  <1>1. Init => AttemptsCounted
    BY DEF Init, AttemptsCounted, At
  <1>2. DInv /\ AttemptsCounted /\ [Next]_vars => AttemptsCounted'
    <2> SUFFICES ASSUME VInv, [Next]_vars PROVE AttemptsCounted'
      BY DEF VInv
    <2>1. ASSUME NEW w \in Requests, ConnectBegins(w) \/ Begins(w) \/ Moves(w)
          PROVE  AttemptsCounted'
      <3>1. \A u \in Requests \ {w} : req'[u] = req[u]
        BY <2>1, RequestEffect DEF VInv
      <3> QED
        BY <2>1, <3>1, StepNears DEF VInv, AttemptsCounted, At
    <2>2. CASE UNCHANGED vars
      BY <2>2 DEF vars, VInv, AttemptsCounted, At
    <2> QED
      BY <2>1, <2>2 DEF Next
  <1> QED
    BY <1>1, <1>2, DeskInvariance, PTL DEF Spec, VInv

\* Every step of the system takes one of the steps that some request has left:
\* the requests run down for any number of them and of attempts.
THEOREM StepsRunOut == Spec => RunsDown
  <1>1. VInv /\ [Next]_vars => [\E w \in Requests : Nearer(w)]_vars
    <2> SUFFICES ASSUME VInv, Next PROVE \E w \in Requests : Nearer(w)
      OBVIOUS
    <2>1. PICK w \in Requests : ConnectBegins(w) \/ Begins(w) \/ Moves(w)
      BY DEF Next
    <2>2. Nearer(w)
      BY <2>1, RequestEffect, StepNears, LeftBounded DEF VInv, Nearer
    <2> QED
      BY <2>2
  <1> QED
    BY <1>1, AttemptsInvariance, PTL DEF Spec, RunsDown

------------------------------------------------------------------------------
(* An account that was connected twice is never served again.                *)

TwoRows == \E a, b \in rows : a # b

RowsFinite == IsFiniteSet(rows)

\* With two rows get_keys refuses whoever asks, and nothing takes a row away: what
\* a double connect leaves behind lasts (exchange.py:153, exchange_routers.py:79).
LockedOut ==
    [][TwoRows =>
         /\ TwoRows'
         /\ \A w \in Requests :
                At(w, "keys") /\ req'[w] # req[w] => Answers(w, "error")]_vars

\* Whoever wants the keys of a user with two rows is refused.
LEMMA KeysRefused ==
    ASSUME DInv, RowsFinite, TwoRows, NEW w \in Requests, At(w, "keys"),
           ConnectBegins(w) \/ Begins(w) \/ Moves(w)
    PROVE  Answers(w, "error")
  <1>1. Cardinality(rows) # 1
    BY FS_Singleton DEF RowsFinite, TwoRows
  <1>2. GetsKeys(w)
    BY DEF At, ConnectBegins, Begins, Moves, ConnectMoves, ConnectChecks, ConnectValidates,
           ConnectFallsBack, ConnectCommits, ClientMoves, AccountsFetched, AccountsRetried,
           AccountsFail, SandboxAnswers, OrderMoves, OrderPrepared, OrderCreated, OrderPersisted,
           QueryMoves, QueryAnswers, BalanceRetried, PortfolioAnswers, CandlesFetched,
           BinanceAnswers, HistoryAnswers, VolatilityAnswers
  <1> QED
    BY <1>1, <1>2 DEF GetsKeys

\* A commit adds one row at most.
LEMMA RowsStayFinite == Spec => []RowsFinite
  <1>1. Init => RowsFinite
    BY FS_EmptySet DEF Init, RowsFinite
  <1>2. RowsFinite /\ [Next]_vars => RowsFinite'
    <2> SUFFICES ASSUME RowsFinite, [Next]_vars PROVE RowsFinite'
      OBVIOUS
    <2>1. rows' = rows \/ \E w : rows' = rows \cup {w}
      BY DEF Next, vars, ConnectBegins, Begins, Moves, ConnectMoves, ConnectChecks, ConnectValidates,
           ConnectFallsBack, ConnectCommits, ClientMoves, GetsKeys, AccountsFetched, AccountsRetried,
           AccountsFail, SandboxAnswers, OrderMoves, OrderPrepared, OrderCreated, OrderPersisted,
           QueryMoves, QueryAnswers, BalanceRetried, PortfolioAnswers, CandlesFetched,
           BinanceAnswers, HistoryAnswers, VolatilityAnswers, account
    <2> QED
      BY <2>1, FS_AddElement DEF RowsFinite
  <1> QED
    BY <1>1, <1>2, PTL DEF Spec

\* For any number of requests: once an account has two rows, no request gets a
\* client any more.
THEOREM LockedOutForGood == Spec => LockedOut
  <1>1. /\ DInv /\ RowsFinite /\ [Next]_vars
        => [TwoRows => /\ TwoRows'
                       /\ \A w \in Requests :
                             At(w, "keys") /\ req'[w] # req[w] => Answers(w, "error")]_vars
    <2> SUFFICES ASSUME DInv, RowsFinite, Next, TwoRows
                 PROVE  /\ TwoRows'
                        /\ \A w \in Requests :
                              At(w, "keys") /\ req'[w] # req[w] => Answers(w, "error")
      OBVIOUS
    <2>1. PICK u \in Requests : ConnectBegins(u) \/ Begins(u) \/ Moves(u)
      BY DEF Next
    <2>2. rows \subseteq rows' /\ \A w \in Requests \ {u} : req'[w] = req[w]
      BY <2>1, RequestEffect
    <2>3. TwoRows'
      BY <2>2 DEF TwoRows
    <2>4. At(u, "keys") => Answers(u, "error")
      BY <2>1, KeysRefused
    <2> QED
      BY <2>2, <2>3, <2>4
  <1> QED
    BY <1>1, DeskInvariance, RowsStayFinite, PTL DEF Spec, LockedOut
================================================================================
