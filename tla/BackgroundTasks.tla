--------------------------- MODULE BackgroundTasks ---------------------------
(***************************************************************************)
(* The tasks the application starts and stops with itself (app/main.py):   *)
(* the dashboard worker that caches every user's dashboard in redis, the   *)
(* portfolio snapshot worker that stores one row per user and cycle, the   *)
(* top-10 price listener, and the shutdown that cancels and awaits them.   *)
(*                                                                         *)
(* Any await may raise.  A cancelled task gets CancelledError at the await *)
(* it is in, before it does anything else; a finally block that raises an  *)
(* exception of its own replaces it.                                       *)
(***************************************************************************)
EXTENDS Naturals

CONSTANTS
    Users,      \* rows of the users table
    Broken,     \* users without exchange keys, or with keys Coinbase refuses
    NoUser,     \* nobody
    MaxFaults   \* bound on the database, redis and ticker calls that fail

ASSUME BrokenAreUsers == Broken \subseteq Users
ASSUME MaxFaultsIsNat == MaxFaults \in Nat

VARIABLES
    app,        \* where the application's shutdown is
    engine,     \* the database engine: "open" or "disposed"
    dash,       \* the dashboard worker: its step, users left, its session
    cached,     \* users whose dashboard is in redis
    snap,       \* the snapshot worker
    valued,     \* users the current snapshot cycle could value
    stored,     \* users with a row committed by the current cycle
    top10,      \* the top-10 listener
    faults,     \* calls that have failed
    closeRaised \* closing a client has failed

vars == <<app, engine, dash, cached, snap, valued, stored, top10, faults, closeRaised>>
shutdownVars == <<app, engine>>
dashVars == <<dash, cached>>
snapVars == <<snap, valued, stored>>
faultVars == <<faults, closeRaised>>

------------------------------------------------------------------------------
\* A task has ended with CancelledError or with another exception.
Ended == {"cancelled", "dead"}

Worker(steps) == [at : steps \cup Ended, left : SUBSET Users, user : Users \cup {NoUser},
                  session : {"ok", "failed"}]

TypeOK ==
    /\ app \in {"up", "stopping", "dashStopped", "dispose", "down"}
    /\ engine \in {"open", "disposed"}
    /\ dash \in Worker({"select", "next", "compute", "sleep"})
    /\ cached \in SUBSET Users
    /\ snap \in Worker({"select", "next", "value", "close", "sleep"})
    /\ valued \in SUBSET Users /\ stored \in SUBSET Users
    /\ top10 \in {"connecting", "listening", "backoff", "ended"}
    /\ faults \in 0..MaxFaults
    /\ closeRaised \in BOOLEAN

Started == [at |-> "select", left |-> {}, user |-> NoUser, session |-> "ok"]

\* _on_startup creates the three tasks.
Init ==
    /\ app = "up" /\ engine = "open"
    /\ dash = Started /\ cached = {}
    /\ snap = Started /\ valued = {} /\ stored = {}
    /\ top10 = "connecting"
    /\ faults = 0 /\ closeRaised = FALSE

\* A database, redis or ticker call fails, or none does.
Fault ==
    /\ faults < MaxFaults
    /\ faults' = faults + 1
    /\ UNCHANGED closeRaised

NoFault == UNCHANGED faultVars

------------------------------------------------------------------------------
(* The dashboard worker.                                                     *)

\* select(User) in a new session; an error skips the cycle.
DashSelects ==
    /\ dash.at = "select"
    /\ \/ NoFault /\ dash' = [Started EXCEPT !.at = "next", !.left = Users]
       \/ Fault /\ dash' = [Started EXCEPT !.at = "sleep"]
    /\ UNCHANGED <<shutdownVars, cached, snapVars, top10>>

\* calculate_dashboard begins with get_keys and the exchange client.
DashTakes(u) ==
    /\ dash.at = "next" /\ u \in dash.left
    /\ dash' = [dash EXCEPT !.at = "compute", !.left = @ \ {u}, !.user = u]
    /\ NoFault
    /\ UNCHANGED <<shutdownVars, cached, snapVars, top10>>

\* Slip: the per-user except is missing, the cycle's own except ends the cycle.
DashFailsCycle ==
    /\ dash.at = "compute"
    /\ dash.session = "failed" \/ dash.user \in Broken
    /\ NoFault
    /\ dash' = [dash EXCEPT !.at = "sleep", !.user = NoUser]
    /\ UNCHANGED <<shutdownVars, cached, snapVars, top10>>

\* The user's dashboard cannot be computed or stored.  The per-user except goes
\* on with the next user; after a database error the session refuses every
\* statement of the users that follow.
DashFails ==
    /\ dash.at = "compute"
    /\ \E session \in {dash.session, "failed"} :
           /\ \/ Fault
              \/ /\ dash.session = "failed" \/ dash.user \in Broken
                 /\ NoFault /\ session = dash.session
           /\ dash' = [dash EXCEPT !.at = "next", !.user = NoUser, !.session = session]
    /\ UNCHANGED <<shutdownVars, cached, snapVars, top10>>

\* Slip: the key is built after the loop has moved on.
DashStoresNobody ==
    /\ dash.at = "compute"
    /\ dash.session = "ok" /\ dash.user \notin Broken
    /\ cached' = cached \cup {NoUser}
    /\ dash' = [dash EXCEPT !.at = "next", !.user = NoUser]
    /\ NoFault
    /\ UNCHANGED <<shutdownVars, snapVars, top10>>

\* SETEX with its time to live.
DashStores ==
    /\ dash.at = "compute"
    /\ dash.session = "ok" /\ dash.user \notin Broken
    /\ cached' = cached \cup {dash.user}
    /\ dash' = [dash EXCEPT !.at = "next", !.user = NoUser]
    /\ NoFault
    /\ UNCHANGED <<shutdownVars, snapVars, top10>>

DashSleeps ==
    /\ dash.at = "next" /\ dash.left = {}
    /\ dash' = [dash EXCEPT !.at = "sleep"]
    /\ NoFault
    /\ UNCHANGED <<shutdownVars, cached, snapVars, top10>>

\* asyncio.sleep(DASHBOARD_REFRESH) is over.
DashWakes ==
    /\ dash.at = "sleep"
    /\ dash' = [dash EXCEPT !.at = "select"]
    /\ NoFault
    /\ UNCHANGED <<shutdownVars, cached, snapVars, top10>>

\* redis drops a key when its time to live is over.
Expires(u) ==
    /\ u \in cached
    /\ cached' = cached \ {u}
    /\ UNCHANGED <<shutdownVars, dash, snapVars, top10, faultVars>>

------------------------------------------------------------------------------
(* The snapshot worker.  It catches CancelledError only: what select, close  *)
(* or commit raises ends the task.                                           *)

SnapDies == snap' = [Started EXCEPT !.at = "dead"]

SnapSelects ==
    /\ snap.at = "select"
    /\ \/ NoFault /\ snap' = [Started EXCEPT !.at = "next", !.left = Users]
       \/ Fault /\ SnapDies
    /\ valued' = {} /\ stored' = {}
    /\ UNCHANGED <<shutdownVars, dashVars, top10>>

\* get_keys reads the user's row; a database error leaves the session unusable.
\* A user without keys or client is skipped.
SnapTakes(u) ==
    /\ snap.at = "next" /\ u \in snap.left
    /\ \/ /\ snap.session = "ok" /\ u \notin Broken /\ NoFault
          /\ snap' = [snap EXCEPT !.at = "value", !.left = @ \ {u}, !.user = u]
       \/ \E session \in {snap.session, "failed"} :
              /\ \/ Fault
                 \/ /\ snap.session = "failed" \/ u \in Broken
                    /\ NoFault /\ session = snap.session
              /\ snap' = [snap EXCEPT !.left = @ \ {u}, !.session = session]
    /\ UNCHANGED <<shutdownVars, dashVars, valued, stored, top10>>

\* The tickers are fetched and the row is added, or one of them fails.
SnapValues ==
    /\ snap.at = "value"
    /\ \/ NoFault /\ valued' = valued \cup {snap.user}
       \/ Fault /\ UNCHANGED valued
    /\ snap' = [snap EXCEPT !.at = "close"]
    /\ UNCHANGED <<shutdownVars, dashVars, stored, top10>>

\* The finally block closes the client.
SnapCloses ==
    /\ snap.at = "close"
    /\ \/ NoFault /\ snap' = [snap EXCEPT !.at = "next", !.user = NoUser]
       \/ Fault /\ SnapDies
    /\ UNCHANGED <<shutdownVars, dashVars, valued, stored, top10>>

\* Slip: an error of the commit is swallowed.
SnapCommitsSilently ==
    /\ snap.at = "next" /\ snap.left = {}
    /\ snap' = [snap EXCEPT !.at = "sleep"]
    /\ \/ NoFault /\ snap.session = "ok" /\ stored' = valued
       \/ NoFault /\ snap.session = "failed" /\ UNCHANGED stored
       \/ Fault /\ UNCHANGED stored
    /\ UNCHANGED <<shutdownVars, dashVars, valued, top10>>

\* One commit stores the whole cycle.  On an unusable session it raises, unless
\* there is nothing to store.
SnapCommits ==
    /\ snap.at = "next" /\ snap.left = {}
    /\ \/ /\ snap.session = "ok" \/ valued = {}
          /\ NoFault /\ stored' = valued /\ snap' = [snap EXCEPT !.at = "sleep"]
       \/ /\ \/ snap.session = "failed" /\ NoFault
             \/ snap.session = "ok" /\ Fault
          /\ UNCHANGED stored /\ SnapDies
    /\ UNCHANGED <<shutdownVars, dashVars, valued, top10>>

\* asyncio.sleep(SNAPSHOT_INTERVAL) is over.
SnapWakes ==
    /\ snap.at = "sleep"
    /\ snap' = [snap EXCEPT !.at = "select"]
    /\ NoFault
    /\ UNCHANGED <<shutdownVars, dashVars, valued, stored, top10>>

------------------------------------------------------------------------------
(* The top-10 listener.  app # "up" stands for _shutdown_event.              *)

Top10Moves(from, to) ==
    /\ top10 = from /\ top10' = to
    /\ UNCHANGED <<shutdownVars, dashVars, snapVars, faultVars>>

Top10Connects == Top10Moves("connecting", "listening")

\* Slip: the exception leaves the loop.
Top10GivesUp == Top10Moves("connecting", "ended") \/ Top10Moves("listening", "ended")

\* connect, send or a message raises.
Top10Fails == Top10Moves("connecting", "backoff") \/ Top10Moves("listening", "backoff")

\* The loop's condition, after the backoff, or after the stream ended in order
\* or was left at the first message after the stop.
Top10Loops(from) == Top10Moves(from, IF app = "up" THEN "connecting" ELSE "ended")
Top10StreamEnds == Top10Loops("listening")
Top10Retries == Top10Loops("backoff")

------------------------------------------------------------------------------
(* Shutdown.                                                                 *)

\* Slip: the per-user except takes the cancellation itself for a failure.
CancellationSwallowed ==
    /\ app = "up"
    /\ app' = "stopping"
    /\ dash' = IF dash.at = "compute" THEN [dash EXCEPT !.at = "next", !.user = NoUser]
               ELSE [Started EXCEPT !.at = "cancelled"]
    /\ UNCHANGED <<engine, cached, snapVars, top10, faultVars>>

\* stop_top10_listener, then dashboard_task.cancel().  The task's finally block
\* closes the client it has open; if that raises, the per-user except takes it
\* for a failure of the user and the worker goes on.
ShutdownBegins ==
    /\ app = "up"
    /\ app' = "stopping"
    /\ \/ dash' = [Started EXCEPT !.at = "cancelled"] /\ UNCHANGED closeRaised
       \/ /\ dash.at = "compute"
          /\ dash' = [dash EXCEPT !.at = "next", !.user = NoUser]
          /\ closeRaised' = TRUE
    /\ UNCHANGED <<engine, cached, snapVars, top10, faults>>

\* Slip: the cancelled dashboard task is not awaited.
DashboardNotAwaited ==
    /\ app = "stopping"
    /\ app' = "dashStopped"
    /\ snap' = IF snap.at = "dead" THEN snap ELSE [Started EXCEPT !.at = "cancelled"]
    /\ UNCHANGED <<engine, dashVars, valued, stored, top10, faultVars>>

\* await dashboard_task has returned; snapshot_task.cancel().  A client that
\* cannot be closed replaces CancelledError.
DashboardStopped ==
    /\ app = "stopping" /\ dash.at \in Ended
    /\ app' = "dashStopped"
    /\ \/ /\ snap' = IF snap.at = "dead" THEN snap ELSE [Started EXCEPT !.at = "cancelled"]
          /\ UNCHANGED closeRaised
       \/ snap.at = "value" /\ SnapDies /\ closeRaised' = TRUE
    /\ UNCHANGED <<engine, dashVars, valued, stored, top10, faults>>

\* await snapshot_task: only CancelledError is caught, anything else ends the
\* shutdown there.
SnapshotStopped ==
    /\ app = "dashStopped" /\ snap.at \in Ended
    /\ app' = IF snap.at = "cancelled" THEN "dispose" ELSE "down"
    /\ UNCHANGED <<engine, dashVars, snapVars, top10, faultVars>>

Disposes ==
    /\ app = "dispose"
    /\ app' = "down" /\ engine' = "disposed"
    /\ UNCHANGED <<dashVars, snapVars, top10, faultVars>>

------------------------------------------------------------------------------
DashMoves ==
    \/ DashSelects \/ (\E u \in Users : DashTakes(u)) \/ DashFails \/ DashStores
    \/ DashSleeps \/ DashWakes
SnapMoves ==
    \/ SnapSelects \/ (\E u \in Users : SnapTakes(u)) \/ SnapValues \/ SnapCloses
    \/ SnapCommits \/ SnapWakes
ShutdownMoves == DashboardStopped \/ SnapshotStopped \/ Disposes

Next ==
    \/ app # "down" /\ (DashMoves \/ SnapMoves)
    \/ app # "down" /\ (Top10Connects \/ Top10Fails \/ Top10Retries \/ Top10StreamEnds)
    \/ \E u \in Users : Expires(u)
    \/ ShutdownBegins \/ ShutdownMoves

Spec == Init /\ [][Next]_vars

\* Every task that can run does; a shutdown once begun goes on.  Nothing makes
\* the application stop, and no message need ever arrive.
FairSpec ==
    /\ Spec
    /\ WF_vars(app # "down" /\ DashMoves)
    /\ WF_vars(app # "down" /\ SnapMoves)
    /\ WF_vars(app # "down" /\ Top10Retries)
    /\ WF_vars(ShutdownMoves)

------------------------------------------------------------------------------
(* Properties.                                                               *)

\* The engine is disposed of only after both workers that use it have ended,
\* whatever closing their clients raised.
DisposedOnlyWhenIdle == engine = "disposed" => {dash.at, snap.at} \subseteq Ended

\* A snapshot cycle the worker survives has stored every user it could value:
\* an error of one user loses the cycle of all only together with the worker.
CycleIsStored == snap.at = "sleep" => stored = valued

\* While the application is up, a user whose exchange works gets a dashboard
\* again after it expired, whatever the other users' exchanges do.
HealthyUsersRefreshed ==
    \A u \in Users \ Broken : u \notin cached ~> u \in cached \/ app # "up"

\* The listener "runs forever" (top10_listener.py:32): no failure ends it while
\* the application is up, and after one it connects again or the application stops.
Top10KeepsTrying ==
    /\ [](top10 = "ended" => app # "up")
    /\ top10 = "backoff" ~> top10 \in {"connecting", "ended"} \/ app = "down"

\* A shutdown comes to an end unless closing a client raised.
ShutdownEnds == app # "up" ~> app = "down" \/ closeRaised

\* The comment at main.py:142 has the shutdown "dispose engine (cleanup)".
ShutdownDisposes == app = "down" => engine = "disposed"

------------------------------------------------------------------------------
(* What the application promises: an orderly stop.                           *)

Running ==
    {t \in {"dashboard", "snapshot", "top10"} :
        \/ t = "dashboard" /\ dash.at \notin Ended
        \/ t = "snapshot" /\ snap.at \notin Ended
        \/ t = "top10" /\ top10 # "ended"}

Crashed == {t \in {"snapshot"} : snap.at = "dead"}

Stop == INSTANCE OrderlyStop WITH
    Workers <- {"dashboard", "snapshot"}, Fragile <- {"snapshot"}, Listeners <- {"top10"},
    running <- Running,
    crashed <- Crashed,
    asked <- app # "up",
    over <- app = "down",
    disposed <- engine = "disposed"

\* Whatever fails while the tasks run, are cancelled and are awaited, the stop is
\* orderly: the dashboard worker and the listener run until it is asked for, no
\* task comes back, no worker is left to use the engine when it is disposed of,
\* and it stays open only if the snapshot worker died (main.py:113-149).
StopsInOrder == Stop!Spec
=============================================================================
