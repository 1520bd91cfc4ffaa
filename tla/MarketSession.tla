---------------------------- MODULE MarketSession ----------------------------
(***************************************************************************)
(* One connection to the unified market websocket, from accept to close:   *)
(* unified_market_ws (app/websocket/router.py), its keep_alive task, and   *)
(* the stream tasks it starts and cancels (app/websocket/handlers).        *)
(*                                                                         *)
(* The session never awaits its stream tasks.  It only remembers the       *)
(* latest one of each category in active_tasks and cancels it when the     *)
(* client unsubscribes, resubscribes or changes the symbol.  Connections   *)
(* share no session state, so one connection is modelled; what its         *)
(* market_price tasks share with other connections' is SymbolWorkers.      *)
(***************************************************************************)
EXTENDS Naturals

CONSTANTS
    Tasks,          \* the stream tasks the session may create
    Symbols,        \* trading pairs, in upper case (router.py:109)
    DefaultSymbol,  \* DEFAULT_SYMBOL, router.py:21
    NoTask          \* no entry in active_tasks

ASSUME DefaultIsSymbol == DefaultSymbol \in Symbols
ASSUME NoTaskFresh == NoTask \notin Tasks

VARIABLES
    client,         \* is the peer still connected?
    phase,          \* where the session coroutine is
    keepalive,      \* the keep_alive task: "running" or "done"
    current_symbol,
    active_tasks,   \* category -> task; NoTask stands for an absent key
    told,           \* categories whose end was acknowledged to the client
    kind,           \* category of each stream task
    symbol,         \* symbol each stream task was started with
    state,          \* where each stream task is
    cancels         \* how often the session called cancel() on each task

session == <<phase, current_symbol, active_tasks, told>>
streams == <<kind, symbol, state, cancels>>
vars == <<client, phase, keepalive, current_symbol, active_tasks, told,
          kind, symbol, state, cancels>>

------------------------------------------------------------------------------
Categories == {"market_price", "order_book", "top_10"}

\* The categories whose stream has a symbol.
SymbolStreams == {"market_price", "order_book"}

Phases == {"auth", "checking", "refusing", "open", "closed"}

\* "setup" is ensure_symbol_worker and SUBSCRIBE, or build_exchange; "cleanup"
\* is the finally block of handle_market_price or handle_order_book.
StreamStates == {"idle", "created", "setup", "streaming", "cleanup", "done"}

\* A task that still sends frames, or will.
Live(t) == state[t] \in {"created", "setup", "streaming"}

\* Once the endpoint has returned the server closes the socket: sends raise.
CanSend == client /\ phase # "closed"

TypeOK ==
    /\ client \in BOOLEAN
    /\ phase \in Phases
    /\ keepalive \in {"running", "done"}
    /\ current_symbol \in Symbols
    /\ active_tasks \in [Categories -> Tasks \cup {NoTask}]
    /\ told \in SUBSET Categories
    /\ kind \in [Tasks -> Categories \cup {"none"}]
    /\ symbol \in [Tasks -> Symbols]
    /\ state \in [Tasks -> StreamStates]
    /\ cancels \in [Tasks -> 0..2]
    /\ \A t \in Tasks : kind[t] = "none" <=> state[t] = "idle"

Init ==
    /\ client = TRUE
    /\ phase = "auth"
    /\ keepalive = "running"
    /\ current_symbol = DefaultSymbol
    /\ active_tasks = [k \in Categories |-> NoTask]
    /\ told = {}
    /\ kind = [t \in Tasks |-> "none"]
    /\ symbol = [t \in Tasks |-> DefaultSymbol]
    /\ state = [t \in Tasks |-> "idle"]
    /\ cancels = [t \in Tasks |-> 0]

------------------------------------------------------------------------------
(* The peer and the authentication exchange.                                 *)

ClientLeaves ==
    /\ client
    /\ client' = FALSE
    /\ UNCHANGED <<keepalive, session, streams>>

PhaseMoves(from, to) ==
    /\ phase = from
    /\ phase' = to
    /\ UNCHANGED <<client, keepalive, current_symbol, active_tasks, told, streams>>

\* The first message carries a token: look the user up.
TokenReceived == PhaseMoves("auth", "checking")

\* Slip: receive_text is awaited without wait_for.
NoTimeout == FALSE /\ PhaseMoves("auth", "refusing")

\* wait_for raises TimeoutError after ten seconds.
AuthTimeout == PhaseMoves("auth", "refusing")

\* No token, not JSON, or not an object: answer with an error and close.
TokenMissing == PhaseMoves("auth", "refusing")

\* receive_text raises, the error report raises too: the endpoint is left.
AuthDisconnects == ~client /\ PhaseMoves("auth", "closed")

UserFound == PhaseMoves("checking", "open")

\* No such user, or the lookup raised.
UserRefused == PhaseMoves("checking", "refusing")

\* The error is sent and the socket closed, or either raises.
Refused == PhaseMoves("refusing", "closed")

\* iter_text ends the loop; the finally block leaves the tasks alone.
Disconnects == ~client /\ PhaseMoves("open", "closed")

\* A message that is no object, or whose symbol is null, raises (router.py:109).
SessionRaises == PhaseMoves("open", "closed")

\* Slip: a failed ping does not end the loop.
PingFailsOnce == FALSE /\ keepalive' = "done" /\ UNCHANGED <<client, session, streams>>

\* keep_alive: a ping that cannot be sent ends the task.
PingFails ==
    /\ keepalive = "running"
    /\ ~CanSend
    /\ keepalive' = "done"
    /\ UNCHANGED <<client, session, streams>>

------------------------------------------------------------------------------
(* Stream tasks, seen from the session.                                      *)

\* The task's await raises CancelledError, or another exception: where it is
\* next.  handle_top_10 has no finally block; a task that is already in its
\* finally block finishes with it or is torn out of it.
AfterRaise(t) ==
    IF state[t] = "streaming" /\ kind[t] \in SymbolStreams THEN "cleanup"
    ELSE IF state[t] = "cleanup" THEN "cleanup" ELSE "done"

\* Slip: cancel_task looks the task up and leaves it in the dictionary.
KeepKeys(ks) == active_tasks

\* cancel_task pops the entries of the categories ks ...
PopKeys(ks) == [k \in Categories |-> IF k \in ks THEN NoTask ELSE active_tasks[k]]

\* Slip: no task is cancelled.
NoneCancelled(ks) == {}

\* ... and cancels those of their tasks that are not done.
TasksCancelled(ks) ==
    {t \in {active_tasks[k] : k \in ks} \ {NoTask} : state[t] # "done"}

\* cancel_task for the categories ks, then create_task with symbol s for the
\* categories of new, which names an unused task for each.
Replace(ks, new, s) ==
    LET stopped == TasksCancelled(ks)
        started == {new[k] : k \in DOMAIN new}
    IN  /\ \A j, k \in DOMAIN new : state[new[k]] = "idle" /\ (new[j] = new[k] => j = k)
        /\ active_tasks' = [k \in Categories |->
               IF k \in DOMAIN new THEN new[k] ELSE PopKeys(ks)[k]]
        /\ state' = [t \in Tasks |->
               IF t \in started THEN "created"
               ELSE IF t \in stopped THEN AfterRaise(t) ELSE state[t]]
        /\ cancels' = [t \in Tasks |->
               IF t \in stopped /\ cancels[t] < 2 THEN cancels[t] + 1 ELSE cancels[t]]
        /\ kind' = [t \in Tasks |->
               IF t \in started THEN CHOOSE k \in DOMAIN new : new[k] = t ELSE kind[t]]
        /\ symbol' = [t \in Tasks |-> IF t \in started THEN s ELSE symbol[t]]

\* subscribe_market_price and subscribe_order_book.
Subscribe(k, t, s) ==
    /\ phase = "open"
    /\ current_symbol' = s
    /\ told' = told \ {k}
    /\ Replace({k}, [x \in {k} |-> t], s)
    /\ UNCHANGED <<client, phase, keepalive>>

\* Slip: the new task is entered into active_tasks under a misspelt category.
SubscribeTop10Untyped(t) ==
    /\ phase = "open"
    /\ told' = told \ {"top_10"}
    /\ Replace({"top_10"}, [x \in {"top10"} |-> t], DefaultSymbol)
    /\ UNCHANGED <<client, phase, keepalive, current_symbol>>

\* subscribe_top_10: the stream has no symbol.
SubscribeTop10(t) ==
    /\ phase = "open"
    /\ told' = told \ {"top_10"}
    /\ Replace({"top_10"}, [x \in {"top_10"} |-> t], DefaultSymbol)
    /\ UNCHANGED <<client, phase, keepalive, current_symbol>>

Unsubscribe(k) ==
    /\ phase = "open"
    /\ told' = told \cup {k}
    /\ Replace({k}, [x \in {} |-> NoTask], current_symbol)
    /\ UNCHANGED <<client, phase, keepalive, current_symbol>>

\* Slip: change_symbol starts both symbol streams whatever the client asked for.
RestartBoth == SymbolStreams

\* The categories change_symbol restarts: those with an entry in active_tasks,
\* whether or not the task behind it is still running.
Restarted == {k \in SymbolStreams : active_tasks[k] # NoTask}

ChangeSymbol(s) ==
    /\ phase = "open"
    /\ current_symbol' = s
    /\ \E new \in [Restarted -> Tasks] : Replace(Restarted, new, s)
    /\ UNCHANGED <<client, phase, keepalive, told>>

------------------------------------------------------------------------------
(* The stream tasks.                                                         *)

StreamMoves(t, from, to) ==
    /\ state[t] = from
    /\ state' = [state EXCEPT ![t] = to]
    /\ UNCHANGED <<client, keepalive, session, kind, symbol, cancels>>

\* The task takes its first step.
StreamStarts(t) ==
    StreamMoves(t, "created", IF kind[t] = "top_10" THEN "streaming" ELSE "setup")

SetupReturns(t) == StreamMoves(t, "setup", "streaming")

\* SUBSCRIBE or build_exchange raises: neither is inside a try with a finally.
SetupRaises(t) == StreamMoves(t, "setup", "done")

\* A frame cannot be sent, or a redis or exchange call of the loop raises.
StreamRaises(t) ==
    /\ kind[t] = "top_10" => ~CanSend
    /\ StreamMoves(t, "streaming", AfterRaise(t))

CleanupEnds(t) == StreamMoves(t, "cleanup", "done")

StreamStep(t) ==
    \/ StreamStarts(t) \/ SetupReturns(t) \/ SetupRaises(t)
    \/ StreamRaises(t) \/ CleanupEnds(t)

\* Nothing is left to run on behalf of this connection.
Over ==
    /\ phase = "closed" /\ ~client /\ keepalive = "done"
    /\ \A t \in Tasks : state[t] \in {"idle", "done"}
    /\ UNCHANGED vars

Next ==
    \/ ClientLeaves \/ TokenReceived \/ AuthTimeout \/ TokenMissing \/ AuthDisconnects
    \/ UserFound \/ UserRefused \/ Refused \/ Disconnects \/ SessionRaises
    \/ PingFails \/ Over
    \/ \E s \in Symbols :
           \/ ChangeSymbol(s)
           \/ \E k \in SymbolStreams, t \in Tasks : Subscribe(k, t, s)
    \/ \E t \in Tasks : SubscribeTop10(t)
    \/ \E k \in Categories : Unsubscribe(k)
    \/ \E t \in Tasks : StreamStep(t)

\* The event loop runs every ready task, database, redis and exchange calls
\* return or raise, wait_for and the sleeps of the polling streams expire.  A
\* market_price task waits for a message for as long as none is published.
Fairness ==
    /\ WF_vars(AuthTimeout) /\ WF_vars(UserFound \/ UserRefused) /\ WF_vars(Refused)
    /\ WF_vars(Disconnects) /\ WF_vars(PingFails)
    /\ \A t \in Tasks :
           /\ WF_vars(StreamStarts(t))
           /\ WF_vars(SetupReturns(t) \/ SetupRaises(t))
           /\ WF_vars(CleanupEnds(t))
           /\ WF_vars(~CanSend /\ kind[t] # "market_price" /\ StreamRaises(t))

Spec == Init /\ [][Next]_vars

FairSpec == Spec /\ Fairness

------------------------------------------------------------------------------
(* Properties.                                                               *)

\* Every task that can still send frames is the one active_tasks holds for its
\* category: no message sequence leaves a stream nobody can cancel, and no
\* category streams twice (router.py:112-191).
StreamsAreTracked ==
    \A t \in Tasks : Live(t) => active_tasks[kind[t]] = t

\* Once the client has been told that a category ended, nothing sends frames of
\* it until the client subscribes again; change_symbol does not revive it.
SilentAfterUnsubscribe ==
    \A t \in Tasks : Live(t) => kind[t] \notin told

\* The session cancels a task once at most, so a finally block that a failed
\* send or a first cancel started is hit by one further cancel at most.
\* SymbolWorkers!Cancel relies on it.
CancelledOnce == \A t \in Tasks : cancels[t] <= 1

\* change_symbol moves all streams of a symbol: after it none that can still
\* send was started with another symbol (router.py:165).
AllStreamsFollowSymbol ==
    [][\A s \in Symbols : ChangeSymbol(s) =>
          \A t \in Tasks : Live(t)' /\ kind'[t] \in SymbolStreams => symbol'[t] = s]_vars

\* A connection does not stay unauthenticated: it is opened or closed.
AuthIsDecided == phase = "auth" ~> phase \in {"open", "closed"}

\* When the client is gone the session notices, the ping task ends, and so do
\* the polling streams, although nobody cancels them (router.py:203).
GoneClientIsForgotten ==
    ~client ~>
        /\ phase = "closed"
        /\ keepalive = "done"
        /\ \A t \in Tasks : kind[t] \in {"order_book", "top_10"} => state[t] = "done"

\* router.py:206, in the finally block of the session: "cancel market_price
\* worker for this user".  The code below it is disabled, and the task of a
\* quiet symbol waits for its next message forever.
DisconnectEndsMarketPrice ==
    phase = "closed" ~> \A t \in Tasks : kind[t] = "market_price" => state[t] = "done"

------------------------------------------------------------------------------
(* What the client is promised: a panel of streams.                          *)

Door == CASE phase = "open" -> "open" [] phase = "closed" -> "shut" [] OTHER -> "waiting"

\* What category k sends: every task of it that can still send a frame.
Sending(k) == {<<t, symbol[t]>> : t \in {x \in Tasks : Live(x) /\ kind[x] = k}}

Panel == INSTANCE StreamPanel WITH
    Moving <- SymbolStreams, Streams <- Tasks,
    door <- Door, shown <- [k \in Categories |-> Sending(k)], ended <- told

\* Whatever the client sends and whichever of its tasks fail, the session is a
\* panel: a task that was cancelled, lost or replaced sends nothing next to its
\* successor, and no message starts a stream the client was told has ended
\* (router.py:104-191).
KeepsPanel == Panel!Spec
=============================================================================
