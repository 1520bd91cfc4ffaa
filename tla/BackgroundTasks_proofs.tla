------------------------ MODULE BackgroundTasks_proofs ------------------------
(***************************************************************************)
(* Safety of BackgroundTasks for any set of users, of which any number is  *)
(* broken, and any number of failing calls.                                *)
(*                                                                         *)
(* Shutdown is safe because it proceeds in one order: where it is tells    *)
(* which of the workers have ended, and a worker that has ended takes no   *)
(* further step.                                                           *)
(***************************************************************************)
EXTENDS BackgroundTasks, TLAPS

\* A worker that computes something does so for a user.
WorkersHaveUsers ==
    /\ dash.at = "compute" => dash.user \in Users
    /\ snap.at = "value" => snap.user \in Users

\* How far the shutdown is tells which workers have ended.
ShutdownOrder ==
    /\ app \in {"dashStopped", "dispose", "down"} => dash.at \in Ended
    /\ app \in {"dispose", "down"} => snap.at \in Ended
    /\ engine = "disposed" => app = "down"

IInv == TypeOK /\ WorkersHaveUsers /\ ShutdownOrder /\ CycleIsStored

\* Both workers start with a new session and no user.
LEMMA StartedTyped ==
    /\ Started \in Worker({"select", "next", "compute", "sleep"})
    /\ Started \in Worker({"select", "next", "value", "close", "sleep"})
    /\ \A at \in Ended \cup {"sleep"} :
           /\ [Started EXCEPT !.at = at] \in Worker({"select", "next", "compute", "sleep"})
           /\ [Started EXCEPT !.at = at] \in Worker({"select", "next", "value", "close", "sleep"})
           /\ [Started EXCEPT !.at = at].at = at
    /\ \A at \in {"next"} :
           /\ [Started EXCEPT !.at = at, !.left = Users]
                  \in Worker({"select", "next", "compute", "sleep"})
           /\ [Started EXCEPT !.at = at, !.left = Users]
                  \in Worker({"select", "next", "value", "close", "sleep"})
           /\ [Started EXCEPT !.at = at, !.left = Users].at = at
  BY DEF Started, Worker, Ended

\* The application starts with the engine open and the workers running.
LEMMA InitHolds == Init => IInv
  <1> SUFFICES ASSUME Init PROVE IInv
    OBVIOUS
  <1>1. TypeOK
    <2>1. /\ dash \in Worker({"select", "next", "compute", "sleep"})
          /\ snap \in Worker({"select", "next", "value", "close", "sleep"})
      BY StartedTyped DEF Init
    <2>2. faults \in 0..MaxFaults
      BY MaxFaultsIsNat DEF Init
    <2> QED
      BY <2>1, <2>2 DEF Init, TypeOK
  <1> QED
    BY <1>1 DEF Init, IInv, Started, WorkersHaveUsers, ShutdownOrder, CycleIsStored

\* A call that fails is counted up to the bound.
LEMMA FaultsTyped ==
    ASSUME TypeOK, Fault \/ NoFault
    PROVE  faults' \in 0..MaxFaults /\ closeRaised' \in BOOLEAN
  BY MaxFaultsIsNat DEF TypeOK, Fault, NoFault, faultVars

------------------------------------------------------------------------------
\* The dashboard worker touches neither the shutdown nor the snapshots.
LEMMA DashStep ==
    ASSUME IInv, DashMoves, app # "down"
    PROVE  IInv'
  <1> USE DEF IInv, TypeOK, Worker, shutdownVars, snapVars
  <1>1. CASE DashSelects
    <2>1. dash.at \notin Ended /\ UNCHANGED <<app, engine, snap, valued, stored, cached, top10>>
      BY <1>1 DEF DashSelects, Ended
    <2>2. /\ dash' \in Worker({"select", "next", "compute", "sleep"})
          /\ dash'.at # "compute"
          /\ Fault \/ NoFault
      BY <1>1, StartedTyped DEF DashSelects
    <2>3. faults' \in 0..MaxFaults /\ closeRaised' \in BOOLEAN
      BY <2>2, FaultsTyped
    <2> QED
      BY <2>1, <2>2, <2>3 DEF WorkersHaveUsers, ShutdownOrder, CycleIsStored
  <1>2. ASSUME NEW u \in Users, DashTakes(u) PROVE IInv'
    <2>1. /\ dash' \in Worker({"select", "next", "compute", "sleep"})
          /\ dash'.user \in Users
          /\ dash.at \notin Ended
      BY <1>2 DEF DashTakes, Ended
    <2> QED
      BY <1>2, <2>1 DEF DashTakes, NoFault, faultVars, WorkersHaveUsers, ShutdownOrder, CycleIsStored
  <1>3. CASE DashFails
    <2>1. /\ dash' \in Worker({"select", "next", "compute", "sleep"})
          /\ dash'.at = "next" /\ dash.at \notin Ended
          /\ Fault \/ NoFault
          /\ UNCHANGED <<app, engine, snap, valued, stored, cached, top10>>
      BY <1>3 DEF DashFails, Ended
    <2>2. faults' \in 0..MaxFaults /\ closeRaised' \in BOOLEAN
      BY <2>1, FaultsTyped
    <2> QED
      BY <2>1, <2>2 DEF WorkersHaveUsers, ShutdownOrder, CycleIsStored
  <1>4. CASE DashStores
    <2>1. /\ dash' \in Worker({"select", "next", "compute", "sleep"})
          /\ dash'.at = "next" /\ dash.at \notin Ended
          /\ cached' \in SUBSET Users
      BY <1>4 DEF DashStores, Ended, WorkersHaveUsers
    <2> QED
      BY <1>4, <2>1 DEF DashStores, NoFault, faultVars, WorkersHaveUsers, ShutdownOrder, CycleIsStored
  <1>5. CASE DashSleeps \/ DashWakes
    <2>1. /\ dash' \in Worker({"select", "next", "compute", "sleep"})
          /\ dash'.at # "compute" /\ dash.at \notin Ended
      BY <1>5 DEF DashSleeps, DashWakes, Ended
    <2> QED
      BY <1>5, <2>1 DEF DashSleeps, DashWakes, NoFault, faultVars, WorkersHaveUsers, ShutdownOrder,
         CycleIsStored
  <1> QED
    BY <1>1, <1>2, <1>3, <1>4, <1>5 DEF DashMoves

\* The snapshot worker sleeps only after a commit that stored the cycle.
LEMMA SnapStep ==
    ASSUME IInv, SnapMoves, app # "down"
    PROVE  IInv'
  <1> USE DEF IInv, TypeOK, Worker, shutdownVars, dashVars
  <1> DEFINE SnapWorker == Worker({"select", "next", "value", "close", "sleep"})
  <1>1. CASE SnapSelects
    <2>1. /\ snap' \in SnapWorker /\ snap'.at \in {"next", "dead"}
          /\ snap.at \notin Ended
          /\ Fault \/ NoFault
          /\ valued' = {} /\ stored' = {}
          /\ UNCHANGED <<app, engine, dash, cached, top10>>
      BY <1>1, StartedTyped DEF SnapSelects, SnapDies, Ended
    <2>2. faults' \in 0..MaxFaults /\ closeRaised' \in BOOLEAN
      BY <2>1, FaultsTyped
    <2> QED
      BY <2>1, <2>2 DEF WorkersHaveUsers, ShutdownOrder, CycleIsStored, Ended
  <1>2. ASSUME NEW u \in Users, SnapTakes(u) PROVE IInv'
    <2>1. /\ snap' \in SnapWorker /\ snap'.at \in {"next", "value"}
          /\ snap'.at = "value" => snap'.user \in Users
          /\ snap.at \notin Ended
          /\ Fault \/ NoFault
          /\ UNCHANGED <<app, engine, dash, cached, valued, stored, top10>>
      BY <1>2 DEF SnapTakes, Ended
    <2>2. faults' \in 0..MaxFaults /\ closeRaised' \in BOOLEAN
      BY <2>1, FaultsTyped
    <2> QED
      BY <2>1, <2>2 DEF WorkersHaveUsers, ShutdownOrder, CycleIsStored, Ended
  <1>3. CASE SnapValues
    <2>1. /\ snap' \in SnapWorker /\ snap'.at = "close"
          /\ snap.at \notin Ended
          /\ Fault \/ NoFault
          /\ valued' \in SUBSET Users
          /\ UNCHANGED <<app, engine, dash, cached, stored, top10>>
      BY <1>3 DEF SnapValues, WorkersHaveUsers, Ended
    <2>2. faults' \in 0..MaxFaults /\ closeRaised' \in BOOLEAN
      BY <2>1, FaultsTyped
    <2> QED
      BY <2>1, <2>2 DEF WorkersHaveUsers, ShutdownOrder, CycleIsStored, Ended
  <1>4. CASE SnapCloses
    <2>1. /\ snap' \in SnapWorker /\ snap'.at \in {"next", "dead"}
          /\ snap.at \notin Ended
          /\ Fault \/ NoFault
          /\ UNCHANGED <<app, engine, dash, cached, valued, stored, top10>>
      BY <1>4, StartedTyped DEF SnapCloses, SnapDies, Ended
    <2>2. faults' \in 0..MaxFaults /\ closeRaised' \in BOOLEAN
      BY <2>1, FaultsTyped
    <2> QED
      BY <2>1, <2>2 DEF WorkersHaveUsers, ShutdownOrder, CycleIsStored, Ended
  <1>5. CASE SnapCommits
    <2>1. /\ snap' \in SnapWorker /\ snap'.at \in {"sleep", "dead"}
          /\ snap'.at = "sleep" => stored' = valued
          /\ snap.at \notin Ended
          /\ stored' \in SUBSET Users
          /\ Fault \/ NoFault
          /\ UNCHANGED <<app, engine, dash, cached, valued, top10>>
      BY <1>5, StartedTyped DEF SnapCommits, SnapDies, Ended
    <2>2. faults' \in 0..MaxFaults /\ closeRaised' \in BOOLEAN
      BY <2>1, FaultsTyped
    <2> QED
      BY <2>1, <2>2 DEF WorkersHaveUsers, ShutdownOrder, CycleIsStored, Ended
  <1>6. CASE SnapWakes
    <2>1. snap' \in SnapWorker /\ snap'.at = "select" /\ snap.at \notin Ended
      BY <1>6 DEF SnapWakes, Ended
    <2> QED
      BY <1>6, <2>1 DEF SnapWakes, NoFault, faultVars, WorkersHaveUsers, ShutdownOrder,
         CycleIsStored, Ended
  <1> QED
    BY <1>1, <1>2, <1>3, <1>4, <1>5, <1>6 DEF SnapMoves

\* The shutdown waits for a worker before it goes on.
LEMMA ShutdownStep ==
    ASSUME IInv, ShutdownBegins \/ ShutdownMoves
    PROVE  IInv'
  <1> USE DEF IInv, TypeOK, Worker
  <1>1. CASE ShutdownBegins
    <2>1. /\ dash' \in Worker({"select", "next", "compute", "sleep"})
          /\ dash'.at \in {"cancelled", "next"}
          /\ closeRaised' \in BOOLEAN
      BY <1>1, StartedTyped DEF ShutdownBegins, Ended
    <2> QED
      BY <1>1, <2>1 DEF ShutdownBegins, snapVars, WorkersHaveUsers, ShutdownOrder, CycleIsStored
  <1>2. CASE DashboardStopped
    <2>1. \/ snap' = snap /\ snap.at = "dead"
          \/ snap' = [Started EXCEPT !.at = "cancelled"]
          \/ snap' = [Started EXCEPT !.at = "dead"]
      BY <1>2 DEF DashboardStopped, SnapDies
    <2>2. snap' \in Worker({"select", "next", "value", "close", "sleep"}) /\ snap'.at \in Ended
      <3>1. CASE snap' = snap /\ snap.at = "dead"
        BY <3>1 DEF Ended
      <3>2. ASSUME NEW at \in Ended, snap' = [Started EXCEPT !.at = at]
            PROVE  snap' \in Worker({"select", "next", "value", "close", "sleep"}) /\ snap'.at \in Ended
        <4> HIDE DEF IInv, TypeOK, Worker
        <4> QED
          BY <3>2, StartedTyped
      <3> QED
        BY <2>1, <3>1, <3>2 DEF Ended
    <2>3. closeRaised' \in BOOLEAN
      BY <1>2 DEF DashboardStopped
    <2> QED
      BY <1>2, <2>2, <2>3 DEF DashboardStopped, dashVars, WorkersHaveUsers, ShutdownOrder, CycleIsStored,
         Ended
  <1>3. CASE SnapshotStopped
    BY <1>3 DEF SnapshotStopped, dashVars, snapVars, faultVars, WorkersHaveUsers, ShutdownOrder,
       CycleIsStored
  <1>4. CASE Disposes
    BY <1>4 DEF Disposes, dashVars, snapVars, faultVars, WorkersHaveUsers, ShutdownOrder,
       CycleIsStored
  <1> QED
    BY <1>1, <1>2, <1>3, <1>4 DEF ShutdownMoves

\* The listener and redis touch nothing the workers or the shutdown depend on.
LEMMA OtherStep ==
    ASSUME IInv,
           \/ Top10Connects \/ Top10Fails \/ Top10Retries \/ Top10StreamEnds
           \/ \E u \in Users : Expires(u)
           \/ UNCHANGED vars
    PROVE  IInv'
  <1> USE DEF IInv, TypeOK, WorkersHaveUsers, ShutdownOrder, CycleIsStored
  <1>1. CASE Top10Connects \/ Top10Fails \/ Top10Retries \/ Top10StreamEnds
    <2>1. /\ top10' \in {"connecting", "listening", "backoff", "ended"}
          /\ UNCHANGED <<shutdownVars, dashVars, snapVars, faultVars>>
      BY <1>1 DEF Top10Connects, Top10Fails, Top10Retries, Top10StreamEnds, Top10Loops, Top10Moves
    <2> QED
      BY <2>1 DEF shutdownVars, dashVars, snapVars, faultVars
  <1>2. CASE \E u \in Users : Expires(u)
    BY <1>2 DEF Expires, shutdownVars, snapVars, faultVars
  <1>3. CASE UNCHANGED vars
    BY <1>3 DEF vars
  <1> QED
    BY <1>1, <1>2, <1>3

------------------------------------------------------------------------------
\* The strengthened invariant holds in every state.
THEOREM Invariance == Spec => []IInv
  <1>1. IInv /\ [Next]_vars => IInv'
    BY DashStep, SnapStep, ShutdownStep, OtherStep DEF Next
  <1> QED
    BY InitHolds, <1>1, PTL DEF Spec

\* The variables keep their types for any users and any number of faults.
THEOREM TypeCorrect == Spec => []TypeOK
  <1>1. IInv => TypeOK
    BY DEF IInv
  <1> QED
    BY <1>1, Invariance, PTL

\* The engine is disposed of only when no worker can use it any more.
THEOREM DisposedSafely == Spec => []DisposedOnlyWhenIdle
  <1>1. IInv => DisposedOnlyWhenIdle
    BY DEF IInv, ShutdownOrder, DisposedOnlyWhenIdle
  <1> QED
    BY <1>1, Invariance, PTL

\* A cycle of snapshots the worker survives is stored as a whole.
THEOREM CycleStored == Spec => []CycleIsStored
  <1>1. IInv => CycleIsStored
    BY DEF IInv
  <1> QED
    BY <1>1, Invariance, PTL

------------------------------------------------------------------------------
(* The orderly stop.  The dashboard worker never dies, and the shutdown gets *)
(* to the engine only if the snapshot worker obeyed.                         *)

SInv ==
    /\ IInv
    /\ dash.at # "dead"
    /\ app = "dispose" => snap.at = "cancelled"

\* The dashboard worker does not end by itself.
LEMMA DashGoesOn ==
    ASSUME IInv, DashMoves
    PROVE  dash.at \notin Ended /\ dash'.at \notin Ended /\ UNCHANGED <<app, engine, snap, top10>>
  <1> USE DEF IInv, TypeOK, Worker, shutdownVars, snapVars
  <1>1. dash.at \in {"select", "next", "compute", "sleep"}
    BY DEF DashMoves, DashSelects, DashTakes, DashFails, DashStores, DashSleeps, DashWakes
  <1>2. dash'.at \in {"select", "next", "compute", "sleep"}
    <2>1. CASE DashSelects
      BY <2>1, StartedTyped DEF DashSelects
    <2>2. CASE ~DashSelects
      BY <2>2 DEF DashMoves, DashTakes, DashFails, DashStores, DashSleeps, DashWakes
    <2> QED
      BY <2>1, <2>2
  <1>3. UNCHANGED <<app, engine, snap, top10>>
    BY DEF DashMoves, DashSelects, DashTakes, DashFails, DashStores, DashSleeps, DashWakes
  <1> QED
    BY <1>1, <1>2, <1>3 DEF Ended

\* The snapshot worker goes on or dies; it does not leave before it is told to.
LEMMA SnapGoesOnOrDies ==
    ASSUME IInv, SnapMoves
    PROVE  /\ snap.at \notin Ended /\ (snap'.at \notin Ended \/ snap'.at = "dead")
           /\ UNCHANGED <<app, engine, dash, top10>>
  <1> USE DEF IInv, TypeOK, Worker, shutdownVars, dashVars
  <1>1. snap.at \in {"select", "next", "value", "close", "sleep"}
    BY DEF SnapMoves, SnapSelects, SnapTakes, SnapValues, SnapCloses, SnapCommits, SnapWakes
  <1>2. snap'.at \in {"select", "next", "value", "close", "sleep", "dead"}
    <2>1. ASSUME SnapDies PROVE snap'.at = "dead"
      BY <2>1, StartedTyped DEF SnapDies, Ended
    <2>2. CASE SnapSelects
      BY <2>1, <2>2, StartedTyped DEF SnapSelects
    <2>3. CASE SnapCloses \/ SnapCommits
      BY <2>1, <2>3 DEF SnapCloses, SnapCommits
    <2>4. CASE (\E u \in Users : SnapTakes(u)) \/ SnapValues \/ SnapWakes
      BY <2>4 DEF SnapTakes, SnapValues, SnapWakes
    <2> QED
      BY <2>2, <2>3, <2>4 DEF SnapMoves
  <1>3. UNCHANGED <<app, engine, dash, top10>>
    BY DEF SnapMoves, SnapSelects, SnapTakes, SnapValues, SnapCloses, SnapCommits, SnapWakes
  <1> QED
    BY <1>1, <1>2, <1>3 DEF Ended

\* What the steps of the shutdown leave of the two workers.
LEMMA ShutdownEffect ==
    ASSUME SInv, ShutdownBegins \/ ShutdownMoves
    PROVE  /\ top10' = top10
           /\ ShutdownBegins => /\ app = "up" /\ app' = "stopping"
                                /\ snap' = snap /\ engine' = engine
                                /\ \/ dash'.at = "cancelled"
                                   \/ dash.at \notin Ended /\ dash'.at \notin Ended
           /\ DashboardStopped => /\ app = "stopping" /\ app' = "dashStopped"
                                  /\ dash' = dash /\ engine' = engine
                                  /\ \/ snap' = snap
                                     \/ snap'.at = "cancelled" /\ snap.at # "dead"
                                     \/ snap'.at = "dead" /\ snap.at \notin Ended
           /\ SnapshotStopped => /\ app = "dashStopped" /\ dash' = dash /\ snap' = snap
                                 /\ engine' = engine
                                 /\ \/ snap.at = "cancelled" /\ app' = "dispose"
                                    \/ snap.at = "dead" /\ app' = "down"
           /\ Disposes => /\ app = "dispose" /\ app' = "down" /\ engine' = "disposed"
                          /\ dash' = dash /\ snap' = snap
  <1> USE DEF SInv, IInv, TypeOK, Worker
  <1>1. top10' = top10
    BY DEF ShutdownBegins, ShutdownMoves, DashboardStopped, SnapshotStopped, Disposes
  <1>2. ASSUME ShutdownBegins
        PROVE  /\ app = "up" /\ app' = "stopping"
               /\ snap' = snap /\ engine' = engine
               /\ \/ dash'.at = "cancelled"
                  \/ dash.at \notin Ended /\ dash'.at \notin Ended
    BY <1>2, StartedTyped DEF ShutdownBegins, snapVars, Ended
  <1>3. ASSUME DashboardStopped
        PROVE  /\ app = "stopping" /\ app' = "dashStopped"
               /\ dash' = dash /\ engine' = engine
               /\ \/ snap' = snap
                  \/ snap'.at = "cancelled" /\ snap.at # "dead"
                  \/ snap'.at = "dead" /\ snap.at \notin Ended
    BY <1>3, StartedTyped DEF DashboardStopped, SnapDies, dashVars, Ended
  <1>4. ASSUME SnapshotStopped
        PROVE  /\ app = "dashStopped" /\ dash' = dash /\ snap' = snap
               /\ engine' = engine
               /\ \/ snap.at = "cancelled" /\ app' = "dispose"
                  \/ snap.at = "dead" /\ app' = "down"
    BY <1>4 DEF SnapshotStopped, dashVars, snapVars, Ended
  <1>5. ASSUME Disposes
        PROVE  /\ app = "dispose" /\ app' = "down" /\ engine' = "disposed"
               /\ dash' = dash /\ snap' = snap
    BY <1>5 DEF Disposes, dashVars, snapVars
  <1> QED
    BY <1>1, <1>2, <1>3, <1>4, <1>5

\* The listener and redis leave the workers and the shutdown alone, and the
\* listener ends only when it sees the stop.
LEMMA OtherEffect ==
    ASSUME \/ Top10Connects \/ Top10Fails \/ Top10Retries \/ Top10StreamEnds
           \/ \E u \in Users : Expires(u)
           \/ UNCHANGED vars
    PROVE  /\ UNCHANGED <<app, engine, dash, snap>>
           /\ top10' # top10 => top10 # "ended" /\ (top10' = "ended" => app # "up")
  BY DEF Top10Connects, Top10Fails, Top10Retries, Top10StreamEnds, Top10Loops, Top10Moves, Expires,
     vars, shutdownVars, dashVars, snapVars

\* The strengthened invariant of the stop is inductive.
LEMMA StopInvariance == Spec => []SInv
  <1>1. Init => SInv
    BY InitHolds DEF SInv, Init, Started
  <1>2. SInv /\ [Next]_vars => SInv'
    <2> SUFFICES ASSUME SInv, [Next]_vars PROVE SInv'
      OBVIOUS
    <2>0. IInv /\ IInv'
      BY DashStep, SnapStep, ShutdownStep, OtherStep DEF Next, SInv
    <2>1. CASE DashMoves
      BY <2>0, <2>1, DashGoesOn DEF SInv, Ended
    <2>2. CASE SnapMoves
      BY <2>0, <2>2, SnapGoesOnOrDies DEF SInv, Ended
    <2>3. CASE ShutdownBegins \/ ShutdownMoves
      BY <2>0, <2>3, ShutdownEffect DEF SInv, Ended, ShutdownMoves
    <2>4. CASE \/ Top10Connects \/ Top10Fails \/ Top10Retries \/ Top10StreamEnds
               \/ \E u \in Users : Expires(u)
               \/ UNCHANGED vars
      BY <2>0, <2>4, OtherEffect DEF SInv
    <2> QED
      BY <2>1, <2>2, <2>3, <2>4 DEF Next
  <1> QED
    BY <1>1, <1>2, PTL DEF Spec

\* Every step of the application's tasks is a step of an orderly stop or none.
LEMMA StopStep == SInv /\ [Next]_vars => [Stop!Next]_(Stop!vars)
  <1> SUFFICES ASSUME SInv, [Next]_vars PROVE Stop!Next \/ UNCHANGED Stop!vars
    OBVIOUS
  <1>0. IInv /\ TypeOK /\ ShutdownOrder
    BY DEF SInv, IInv
  <1>1. CASE DashMoves
    BY <1>0, <1>1, DashGoesOn DEF Stop!vars, Running, Crashed
  <1>2. CASE SnapMoves /\ app # "down"
    <2>1. CASE snap'.at \notin Ended
      BY <1>0, <1>2, <2>1, SnapGoesOnOrDies DEF Stop!vars, Running, Crashed, Ended
    <2>2. CASE snap'.at = "dead"
      <3>1. /\ "snapshot" \in Running /\ Running' = Running \ {"snapshot"}
            /\ Crashed' = Crashed \cup {"snapshot"}
        BY <1>0, <1>2, <2>2, SnapGoesOnOrDies DEF Running, Crashed, Ended
      <3>2. Stop!Crash("snapshot")
        BY <1>0, <1>2, <3>1, SnapGoesOnOrDies DEF Stop!Crash
      <3> QED
        BY <3>2 DEF Stop!Next
    <2> QED
      BY <1>0, <1>2, <2>1, <2>2, SnapGoesOnOrDies
  <1>3. CASE ShutdownBegins
    <2>1. Running' \in {Running, Running \ {"dashboard"}} /\ Crashed' = Crashed
      BY <1>3, ShutdownEffect DEF Running, Crashed, Ended
    <2>2. Stop!Ask
      BY <1>3, <2>1, ShutdownEffect DEF Stop!Ask
    <2> QED
      BY <2>2 DEF Stop!Next
  <1>4. CASE DashboardStopped
    <2>0. /\ app = "stopping" /\ app' = "dashStopped"
          /\ dash' = dash /\ engine' = engine /\ top10' = top10
      BY <1>4, ShutdownEffect DEF ShutdownMoves
    <2>1. CASE snap' = snap \/ (snap'.at = "cancelled" /\ snap.at = "cancelled")
      BY <2>0, <2>1 DEF Stop!vars, Running, Crashed, Ended
    <2>2. CASE snap'.at = "cancelled" /\ snap.at \notin Ended
      <3>1. "snapshot" \in Running /\ Running' = Running \ {"snapshot"} /\ Crashed' = Crashed
        BY <2>0, <2>2 DEF Running, Crashed, Ended
      <3>2. Stop!Leave("snapshot")
        BY <2>0, <3>1 DEF Stop!Leave
      <3> QED
        BY <3>2 DEF Stop!Next
    <2>3. CASE snap'.at = "dead" /\ snap.at \notin Ended
      <3>1. /\ "snapshot" \in Running /\ Running' = Running \ {"snapshot"}
            /\ Crashed' = Crashed \cup {"snapshot"}
        BY <2>0, <2>3 DEF Running, Crashed, Ended
      <3>2. Stop!Crash("snapshot")
        BY <2>0, <3>1 DEF Stop!Crash
      <3> QED
        BY <3>2 DEF Stop!Next
    <2> QED
      BY <1>4, <2>1, <2>2, <2>3, ShutdownEffect DEF ShutdownMoves, Ended
  <1>5. CASE SnapshotStopped
    <2>0. /\ app = "dashStopped" /\ dash' = dash /\ snap' = snap
          /\ engine' = engine /\ top10' = top10
      BY <1>5, ShutdownEffect DEF ShutdownMoves
    <2>1. Running' = Running /\ Crashed' = Crashed
      BY <2>0 DEF Running, Crashed
    <2>2. CASE app' = "dispose"
      BY <2>0, <2>1, <2>2 DEF Stop!vars
    <2>3. CASE snap.at = "dead" /\ app' = "down"
      <3>1. Running \cap {"dashboard", "snapshot"} = {} /\ Crashed # {}
        BY <1>0, <2>0, <2>3 DEF ShutdownOrder, Running, Crashed, Ended
      <3>2. engine # "disposed"
        BY <1>0, <2>0 DEF ShutdownOrder
      <3>3. Stop!Finish
        BY <2>0, <2>1, <2>3, <3>1, <3>2 DEF Stop!Finish
      <3> QED
        BY <3>3 DEF Stop!Next
    <2> QED
      BY <1>5, <2>2, <2>3, ShutdownEffect DEF ShutdownMoves
  <1>6. CASE Disposes
    <2>0. /\ app = "dispose" /\ app' = "down" /\ engine' = "disposed"
          /\ dash' = dash /\ snap' = snap /\ top10' = top10
      BY <1>6, ShutdownEffect DEF ShutdownMoves
    <2>1. Running' = Running /\ Crashed' = Crashed
      BY <2>0 DEF Running, Crashed
    <2>2. Running \cap {"dashboard", "snapshot"} = {} /\ Crashed = {}
      BY <1>0, <2>0 DEF SInv, ShutdownOrder, Running, Crashed, Ended
    <2>3. Stop!Finish
      BY <2>0, <2>1, <2>2 DEF Stop!Finish
    <2> QED
      BY <2>3 DEF Stop!Next
  <1>7. CASE app # "down" /\ (Top10Connects \/ Top10Fails \/ Top10Retries \/ Top10StreamEnds)
    <2>1. CASE top10' = "ended" /\ top10 # "ended"
      <3>1. "top10" \in Running /\ Running' = Running \ {"top10"} /\ Crashed' = Crashed
        BY <1>7, <2>1, OtherEffect DEF Running, Crashed
      <3>2. Stop!Leave("top10")
        BY <1>7, <2>1, <3>1, OtherEffect DEF Stop!Leave
      <3> QED
        BY <3>2 DEF Stop!Next
    <2>2. CASE top10' = "ended" <=> top10 = "ended"
      BY <1>7, <2>2, OtherEffect DEF Stop!vars, Running, Crashed
    <2> QED
      BY <1>7, <2>1, <2>2, OtherEffect
  <1>8. CASE (\E u \in Users : Expires(u)) \/ UNCHANGED vars
    BY <1>8 DEF Stop!vars, Running, Crashed, Expires, vars, shutdownVars, snapVars
  <1> QED
    BY <1>1, <1>2, <1>3, <1>4, <1>5, <1>6, <1>7, <1>8 DEF Next, ShutdownMoves

\* The application stops as OrderlyStop says, for any users and faults: no task
\* comes back, no worker outlives the engine, and the engine outlives the
\* application only if the snapshot worker died.
THEOREM StopOrdered == Spec => StopsInOrder
  <1>1. Init => Stop!Init
    BY DEF Init, Started, Stop!Init, Running, Crashed, Ended
  <1>2. SInv /\ [Next]_vars => [Stop!Next]_(Stop!vars)
    BY StopStep
  <1> QED
    BY <1>1, <1>2, StopInvariance, PTL DEF Spec, StopsInOrder, Stop!Spec

------------------------------------------------------------------------------
(* What the shutdown can wait for.                                           *)

\* The task the shutdown awaits has ended, or there is none.
Awaited ==
    \/ app = "stopping" /\ dash.at \in Ended
    \/ app = "dashStopped" /\ snap.at \in Ended
    \/ app = "dispose"

\* A shutdown that has begun can take its next step (main.py:124, 133), unless a
\* client could not be closed when the dashboard worker was cancelled.
HangsOnlyOnClose ==
    app \notin {"up", "down"} => Awaited \/ (app = "stopping" /\ closeRaised)

\* No failure ends the listener while the application is up (top10_listener.py:32).
ListenerStays == top10 = "ended" => app # "up"

\* Nothing unsays that a close has raised.
LEMMA CloseStaysRaised ==
    ASSUME [Next]_vars
    PROVE  closeRaised => closeRaised'
  BY DEF Next, vars, DashMoves, DashSelects, DashTakes, DashFails, DashStores, DashSleeps, DashWakes,
         SnapMoves, SnapSelects, SnapTakes, SnapValues, SnapCloses, SnapCommits, SnapWakes,
         Top10Connects, Top10Fails, Top10Retries, Top10StreamEnds, Top10Loops, Top10Moves, Expires,
         ShutdownBegins, ShutdownMoves, DashboardStopped, SnapshotStopped, Disposes,
         Fault, NoFault, faultVars

\* Cancelling a worker that runs ends it, or its client could not be closed.
LEMMA CancelEffect ==
    ASSUME IInv
    PROVE  /\ ShutdownBegins => dash'.at \in Ended \/ closeRaised'
           /\ DashboardStopped => snap'.at \in Ended
  <1>1. ASSUME ShutdownBegins PROVE dash'.at \in Ended \/ closeRaised'
    BY <1>1, StartedTyped DEF ShutdownBegins, Ended
  <1>2. ASSUME DashboardStopped PROVE snap'.at \in Ended
    BY <1>2, StartedTyped DEF DashboardStopped, SnapDies, Ended
  <1> QED
    BY <1>1, <1>2

\* For any users and faults the shutdown cannot hang but on a close that raised,
\* and the listener tries on until the shutdown begins.
THEOREM NothingElseHangs == Spec => [](HangsOnlyOnClose /\ ListenerStays)
  <1>1. Init => HangsOnlyOnClose /\ ListenerStays
    BY DEF Init, HangsOnlyOnClose, ListenerStays
  <1>2. /\ SInv /\ HangsOnlyOnClose /\ ListenerStays /\ [Next]_vars
        => (HangsOnlyOnClose /\ ListenerStays)'
    <2> SUFFICES ASSUME SInv, HangsOnlyOnClose, ListenerStays, [Next]_vars
                 PROVE  HangsOnlyOnClose' /\ ListenerStays'
      OBVIOUS
    <2>0. IInv /\ (closeRaised => closeRaised')
      BY CloseStaysRaised DEF SInv
    <2>1. CASE DashMoves
      BY <2>0, <2>1, DashGoesOn DEF HangsOnlyOnClose, ListenerStays, Awaited
    <2>2. CASE SnapMoves
      BY <2>0, <2>2, SnapGoesOnOrDies DEF HangsOnlyOnClose, ListenerStays, Awaited
    <2>3. CASE ShutdownBegins
      <3>1. app' = "stopping" /\ (dash'.at \in Ended \/ closeRaised')
        BY <2>0, <2>3, CancelEffect, ShutdownEffect
      <3> QED
        BY <3>1 DEF HangsOnlyOnClose, ListenerStays, Awaited
    <2>4. CASE DashboardStopped
      <3>1. app' = "dashStopped" /\ snap'.at \in Ended
        BY <2>0, <2>4, CancelEffect, ShutdownEffect DEF ShutdownMoves
      <3> QED
        BY <3>1 DEF HangsOnlyOnClose, ListenerStays, Awaited
    <2>5. CASE SnapshotStopped \/ Disposes
      <3>1. app' \in {"dispose", "down"}
        BY <2>5, ShutdownEffect DEF ShutdownMoves
      <3> QED
        BY <3>1 DEF HangsOnlyOnClose, ListenerStays, Awaited
    <2>6. CASE \/ Top10Connects \/ Top10Fails \/ Top10Retries \/ Top10StreamEnds
               \/ \E u \in Users : Expires(u)
               \/ UNCHANGED vars
      BY <2>0, <2>6, OtherEffect DEF HangsOnlyOnClose, ListenerStays, Awaited
    <2> QED
      BY <2>1, <2>2, <2>3, <2>4, <2>5, <2>6 DEF Next, ShutdownMoves
  <1> QED
    BY <1>1, <1>2, StopInvariance, PTL DEF Spec
================================================================================
