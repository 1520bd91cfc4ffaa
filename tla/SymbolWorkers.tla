---------------------------- MODULE SymbolWorkers ----------------------------
(***************************************************************************)
(* The per-symbol market data workers and the handlers that share them.    *)
(*                                                                         *)
(* app/websocket/background/coinbase_worker.py keeps two module-level      *)
(* dictionaries: symbol_subscribers counts the subscribers of a symbol and *)
(* symbol_workers holds the one asyncio task that relays the symbol's feed *)
(* to redis.  app/websocket/handlers/market_price.py takes a subscription  *)
(* (ensure_symbol_worker), listens on the redis channel, and gives the     *)
(* subscription back (remove_symbol_subscriber) in a finally block.        *)
(*                                                                         *)
(* Everything runs on one event loop, so code between two awaits is one    *)
(* step.  Each await is a state of the task, and each awaited call may     *)
(* fail or be cancelled there.  A cancelled task runs nothing of its own   *)
(* before CancelledError reaches it, so Cancel delivers it at once.        *)
(***************************************************************************)
EXTENDS Naturals, FiniteSets

CONSTANTS
    Handlers,   \* the market_price tasks the sessions ever create
    Symbols,    \* trading pairs, already in upper case (market_price.py:21)
    NoTask,     \* no asyncio task
    NoSymbol    \* the symbol of a handler that does not exist yet

ASSUME HandlersFinite == IsFiniteSet(Handlers)
ASSUME NoTaskFresh == NoTask \notin Handlers
ASSUME NoSymbolFresh == NoSymbol \notin Symbols

VARIABLES
    pc,                 \* where each handler task is suspended
    sym,                \* the symbol each handler was created for
    awaits,             \* stop_symbol_worker's local "task" of each handler
    cancelled,          \* the handlers whose session called task.cancel()
    worker,             \* state of the worker task that h's ensure created
    symbol_subscribers, \* the count per symbol; 0 stands for an absent key
    symbol_workers      \* the task per symbol; NoTask stands for an absent key

vars == <<pc, sym, awaits, cancelled, worker, symbol_subscribers, symbol_workers>>

registry == <<symbol_subscribers, symbol_workers>>

------------------------------------------------------------------------------
(* States of the tasks.                                                      *)

\* A handler that has called ensure_symbol_worker and still has to call
\* remove_symbol_subscriber.
Holding == {"subscribing", "listening", "unsubscribing", "closing"}

\* "leaked": the task ended between ensure and remove, so remove never ran.
HandlerStates == {"idle", "created", "stopping", "done", "leaked"} \cup Holding

\* A worker task that still relays the feed, or is on its way to.
Active == {"scheduled", "connecting", "streaming", "backoff"}

WorkerStates == {"none", "cancelled", "done"} \cup Active

\* The handlers whose subscription to s has not been given back.
Holders(s) == {h \in Handlers : pc[h] \in Holding \cup {"leaked"} /\ sym[h] = s}

TypeOK ==
    /\ pc \in [Handlers -> HandlerStates]
    /\ sym \in [Handlers -> Symbols \cup {NoSymbol}]
    /\ awaits \in [Handlers -> Handlers \cup {NoTask}]
    /\ cancelled \in SUBSET Handlers
    /\ worker \in [Handlers -> WorkerStates]
    /\ symbol_subscribers \in [Symbols -> Nat]
    /\ symbol_workers \in [Symbols -> Handlers \cup {NoTask}]
    /\ \A h \in Handlers : pc[h] = "idle" <=> sym[h] = NoSymbol

Init ==
    /\ pc = [h \in Handlers |-> "idle"]
    /\ sym = [h \in Handlers |-> NoSymbol]
    /\ awaits = [h \in Handlers |-> NoTask]
    /\ cancelled = {}
    /\ worker = [h \in Handlers |-> "none"]
    /\ symbol_subscribers = [s \in Symbols |-> 0]
    /\ symbol_workers = [s \in Symbols |-> NoTask]

------------------------------------------------------------------------------
(* The registry, coinbase_worker.py.                                         *)

\* Slip: only the subscriber that starts the worker is counted.
EnsureCountsStarterOnly(h, s) ==
    IF symbol_workers[s] # NoTask
    THEN UNCHANGED <<worker, registry>>
    ELSE /\ symbol_subscribers' = [symbol_subscribers EXCEPT ![s] = @ + 1]
         /\ symbol_workers' = [symbol_workers EXCEPT ![s] = h]
         /\ worker' = [worker EXCEPT ![h] = "scheduled"]

\* Slip: a worker is started without looking for a running one.
EnsureAlwaysStarts(h, s) ==
    /\ symbol_subscribers' = [symbol_subscribers EXCEPT ![s] = @ + 1]
    /\ symbol_workers' = [symbol_workers EXCEPT ![s] = h]
    /\ worker' = [worker EXCEPT ![h] = "scheduled"]

\* ensure_symbol_worker(s), called by handler h: count the subscriber, and
\* start a worker task unless a registered one is still running.
EnsureSymbolWorker(h, s) ==
    LET existing == symbol_workers[s]
        running  == existing # NoTask /\ worker[existing] # "done"
    IN  /\ symbol_subscribers' = [symbol_subscribers EXCEPT ![s] = @ + 1]
        /\ symbol_workers' = IF running THEN symbol_workers
                             ELSE [symbol_workers EXCEPT ![s] = h]
        /\ worker' = IF running THEN worker
                     ELSE [worker EXCEPT ![h] = "scheduled"]

\* Slip: the worker is stopped one subscriber too early.
IsLastButOne(s) == symbol_subscribers[s] \in {1, 2}

\* Does remove_symbol_subscriber(s) bring the count to zero?
IsLast(s) == symbol_subscribers[s] = 1

\* Slip: the task is unregistered and awaited, and never cancelled.
StopWithoutCancel(h, s) ==
    /\ symbol_workers' = [symbol_workers EXCEPT ![s] = NoTask]
    /\ awaits' = [awaits EXCEPT ![h] = symbol_workers[s]]
    /\ pc' = [pc EXCEPT ![h] = "stopping"]
    /\ UNCHANGED worker

\* Slip: the task is cancelled and awaited while it is still registered.
StopUnregistersLate(h, s) ==
    LET task == symbol_workers[s]
        live == task # NoTask /\ worker[task] # "done"
    IN  /\ worker' = IF live THEN [worker EXCEPT ![task] = "cancelled"] ELSE worker
        /\ awaits' = IF live THEN [awaits EXCEPT ![h] = task] ELSE awaits
        /\ pc' = [pc EXCEPT ![h] = IF live THEN "stopping" ELSE "done"]
        /\ UNCHANGED symbol_workers

\* stop_symbol_worker(s), called by handler h: unregister the task, cancel it
\* and wait for it, unless it is absent or already done.
StopSymbolWorker(h, s) ==
    LET task == symbol_workers[s]
        live == task # NoTask /\ worker[task] # "done"
    IN  /\ symbol_workers' = [symbol_workers EXCEPT ![s] = NoTask]
        /\ worker' = IF live THEN [worker EXCEPT ![task] = "cancelled"] ELSE worker
        /\ awaits' = IF live THEN [awaits EXCEPT ![h] = task] ELSE awaits
        /\ pc' = [pc EXCEPT ![h] = IF live THEN "stopping" ELSE "done"]

\* Slip: the key is deleted although other subscribers remain.
DropForgetsSymbol(h, s) ==
    /\ symbol_subscribers' = [r \in Symbols \ {s} |-> symbol_subscribers[r]]
    /\ pc' = [pc EXCEPT ![h] = "done"]
    /\ UNCHANGED <<symbol_workers, worker, awaits>>

\* remove_symbol_subscriber(s) by handler h when other subscribers remain, or
\* when the symbol is not counted at all (the early return).
DropSubscriber(h, s) ==
    /\ symbol_subscribers' =
           [symbol_subscribers EXCEPT ![s] = IF @ = 0 THEN 0 ELSE @ - 1]
    /\ pc' = [pc EXCEPT ![h] = "done"]
    /\ UNCHANGED <<symbol_workers, worker, awaits>>

\* remove_symbol_subscriber(s) by the last subscriber: forget the count, stop.
DropLastSubscriber(h, s) ==
    /\ symbol_subscribers' = [symbol_subscribers EXCEPT ![s] = 0]
    /\ StopSymbolWorker(h, s)

RemoveSubscriber(h, s) ==
    IF IsLast(s) THEN DropLastSubscriber(h, s) ELSE DropSubscriber(h, s)

------------------------------------------------------------------------------
(* The handler task, handle_market_price.                                    *)

\* Handler h's await raises: the state it is left in.  Before the try block,
\* and inside the finally block, the exception ends the task.
AfterRaise(state) ==
    CASE state = "created"   -> "done"
      [] state = "listening" -> "unsubscribing"
      [] state \in {"subscribing", "unsubscribing", "closing"} -> "leaked"
      [] OTHER -> state

\* A session creates the task; its body has not started yet.
Create(h, s) ==
    /\ pc[h] = "idle"
    /\ pc' = [pc EXCEPT ![h] = "created"]
    /\ sym' = [sym EXCEPT ![h] = s]
    /\ UNCHANGED <<awaits, cancelled, worker, registry>>

\* The task body runs up to "await pubsub.subscribe(channel)".
Begin(h) ==
    /\ pc[h] = "created"
    /\ pc' = [pc EXCEPT ![h] = "subscribing"]
    /\ EnsureSymbolWorker(h, sym[h])
    /\ UNCHANGED <<sym, awaits, cancelled>>

\* The redis SUBSCRIBE is answered; the task enters the listen loop.
Subscribed(h) ==
    /\ pc[h] = "subscribing"
    /\ pc' = [pc EXCEPT ![h] = "listening"]
    /\ UNCHANGED <<sym, awaits, cancelled, worker, registry>>

\* An awaited redis or websocket call of h raises an exception.
Raise(h) ==
    /\ pc[h] \in Holding
    /\ pc' = [pc EXCEPT ![h] = AfterRaise(@)]
    /\ UNCHANGED <<sym, awaits, cancelled, worker, registry>>

\* finally: the redis UNSUBSCRIBE is answered.
Unsubscribed(h) ==
    /\ pc[h] = "unsubscribing"
    /\ pc' = [pc EXCEPT ![h] = "closing"]
    /\ UNCHANGED <<sym, awaits, cancelled, worker, registry>>

\* finally: aclose returns and the subscription is given back.
Release(h) ==
    /\ pc[h] = "closing"
    /\ RemoveSubscriber(h, sym[h])
    /\ UNCHANGED <<sym, cancelled>>

\* "await task" in stop_symbol_worker returns: the cancelled worker is done.
WorkerStopped(h) ==
    /\ pc[h] = "stopping"
    /\ worker[awaits[h]] = "done"
    /\ pc' = [pc EXCEPT ![h] = "done"]
    /\ UNCHANGED <<sym, awaits, cancelled, worker, registry>>

\* The session cancels the task; it forgets the task as it does, so it cancels
\* each task once at most.  A task in "stopping" swallows the CancelledError
\* (coinbase_worker.py:187), one that ended ignores it.
Cancel(h) ==
    /\ pc[h] # "idle"
    /\ h \notin cancelled
    /\ cancelled' = cancelled \cup {h}
    /\ pc' = [pc EXCEPT ![h] = AfterRaise(@)]
    /\ UNCHANGED <<sym, awaits, worker, registry>>

------------------------------------------------------------------------------
(* The worker task, CoinbaseSymbolWorker._market_listener.  Nothing calls    *)
(* CoinbaseSymbolWorker.stop, so only a cancellation ends its loop.          *)

WorkerMoves(w, from, to) ==
    /\ worker[w] = from
    /\ worker' = [worker EXCEPT ![w] = to]
    /\ UNCHANGED <<pc, sym, awaits, cancelled, registry>>

\* The task takes its first step and opens the exchange websocket.
WorkerStarts(w) == WorkerMoves(w, "scheduled", "connecting")

\* The connection is up and both channels are requested.
WorkerConnects(w) == WorkerMoves(w, "connecting", "streaming")

\* Slip: the retry loop is left at the first exception.
WorkerGivesUp(w) ==
    \E from \in {"connecting", "streaming"} : WorkerMoves(w, from, "done")

\* Connecting, receiving, decoding or publishing raised: sleep(backoff).
WorkerFails(w) ==
    \E from \in {"connecting", "streaming"} : WorkerMoves(w, from, "backoff")

\* The exchange closed the connection cleanly: reconnect without a pause.
WorkerDisconnects(w) == WorkerMoves(w, "streaming", "connecting")

WorkerRetries(w) == WorkerMoves(w, "backoff", "connecting")

\* The cancelled task has closed its connection (close_timeout) and ended.
WorkerEnds(w) == WorkerMoves(w, "cancelled", "done")

------------------------------------------------------------------------------
HandlerStep(h) ==
    \/ Begin(h) \/ Subscribed(h) \/ Raise(h) \/ Unsubscribed(h)
    \/ Release(h) \/ WorkerStopped(h)

WorkerStep(w) ==
    \/ WorkerStarts(w) \/ WorkerConnects(w) \/ WorkerFails(w)
    \/ WorkerDisconnects(w) \/ WorkerRetries(w) \/ WorkerEnds(w)

\* Nobody is connected and no worker runs: the server waits for clients.
Quiet ==
    /\ \A h \in Handlers : pc[h] = "done" /\ worker[h] \in {"none", "done"}
    /\ UNCHANGED vars

Next ==
    \/ Quiet
    \/ \E h \in Handlers :
           \/ \E s \in Symbols : Create(h, s)
           \/ Cancel(h)
           \/ HandlerStep(h)
    \/ \E w \in Handlers : WorkerStep(w)

\* Handler h's awaited call is answered or raises; listening may go on forever.
AwaitReturns(h) ==
    \/ Begin(h) \/ Subscribed(h) \/ Unsubscribed(h) \/ Release(h)
    \/ WorkerStopped(h) \/ (pc[h] # "listening" /\ Raise(h))

\* The event loop runs every ready task, redis calls return or raise, the
\* connect timeout, the back-off sleep and close_timeout bound the worker.
Fairness ==
    /\ \A h \in Handlers : WF_vars(AwaitReturns(h))
    /\ \A w \in Handlers :
           /\ WF_vars(WorkerStarts(w))
           /\ WF_vars(WorkerConnects(w) \/ WorkerMoves(w, "connecting", "backoff"))
           /\ WF_vars(WorkerRetries(w))
           /\ WF_vars(WorkerEnds(w))

Spec == Init /\ [][Next]_vars

FairSpec == Spec /\ Fairness

------------------------------------------------------------------------------
(* Properties.                                                               *)

\* The count of a symbol is the number of tasks that took a subscription to it
\* and have not given it back (symbol_subscribers, coinbase_worker.py:16).
CountMatchesHolders ==
    \A s \in Symbols : symbol_subscribers[s] = Cardinality(Holders(s))

\* Whatever the other handlers do meanwhile, a handler between
\* ensure_symbol_worker and remove_symbol_subscriber has a registered worker
\* for its own symbol that nobody has cancelled.
HoldersAreServed ==
    \A h \in Handlers : pc[h] \in Holding =>
        LET task == symbol_workers[sym[h]]
        IN  task # NoTask /\ sym[task] = sym[h] /\ worker[task] \in Active

\* A worker that can publish is the registered one of its symbol, so a channel
\* never has two publishers, not even while a cancelled worker is unwinding.
OnePublisherPerSymbol ==
    \A w \in Handlers : worker[w] \in Active => symbol_workers[sym[w]] = w

\* A handler that stops a worker waits for a cancelled one of its own symbol.
StopsWaitForCancelled ==
    \A h \in Handlers : pc[h] = "stopping" =>
        /\ awaits[h] \in Handlers /\ sym[awaits[h]] = sym[h]
        /\ worker[awaits[h]] \in {"cancelled", "done"}

\* No two handlers wait for the same worker.
StopsWaitAlone ==
    \A g, h \in Handlers :
        pc[g] = "stopping" /\ pc[h] = "stopping" /\ awaits[g] = awaits[h] => g = h

\* A cancelled worker is awaited until it has ended.
CancelledIsAwaited ==
    \A w \in Handlers : worker[w] = "cancelled" =>
        \E h \in Handlers : pc[h] = "stopping" /\ awaits[h] = w

\* A handler that was cancelled takes no further subscription and listens no more.
CancelledLeaves ==
    \A h \in cancelled : pc[h] \in {"unsubscribing", "closing", "stopping", "done", "leaked"}

\* The wait of stop_symbol_worker (coinbase_worker.py:185) is never for a worker
\* that goes on, no worker unwinds unattended, and a cancelled handler is on its
\* way out: waiting cannot become a deadlock.
WaitsEnd == StopsWaitForCancelled /\ StopsWaitAlone /\ CancelledIsAwaited /\ CancelledLeaves

\* A cancelled handler ends: its finally block and its wait for the worker it
\* stopped come to an end.
CancelledHandlerEnds ==
    \A h \in Handlers : h \in cancelled ~> pc[h] \in {"done", "leaked"}

\* While a handler listens its feed is not given up: again and again the
\* registered worker is connecting or streaming.
FeedComesBack ==
    \A h \in Handlers :
        pc[h] = "listening" ~>
            \/ pc[h] # "listening"
            \/ \E w \in Handlers :
                   /\ symbol_workers[sym[h]] = w
                   /\ worker[w] \in {"connecting", "streaming"}

\* coinbase_worker.py:15 says the dictionary tracks the number of ACTIVE
\* websocket subscribers: the count of a symbol never exceeds the tasks that
\* are alive.  A task cancelled or failing outside the try block breaks it.
CountsActiveSubscribersOnly ==
    \A s \in Symbols :
        symbol_subscribers[s] <=
            Cardinality({h \in Handlers : sym[h] = s /\ pc[h] \notin {"done", "leaked"}})

------------------------------------------------------------------------------
(* What the registry promises: a lease on the symbol's feed.                 *)

Publishers(s) == {w \in Handlers : worker[w] \in Active /\ sym[w] = s}

Lease == INSTANCE FeedLease WITH
    holders <- [s \in Symbols |-> Holders(s)],
    publishers <- [s \in Symbols |-> Cardinality(Publishers(s))]

\* The counters and the registered tasks implement the lease: the feed of a
\* symbol has exactly one publisher while its lease is held, and none otherwise.
ImplementsLease == Lease!Spec
=============================================================================
