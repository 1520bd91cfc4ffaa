------------------------ MODULE MarketSession_proofs ------------------------
(***************************************************************************)
(* Safety of MarketSession for any tasks and symbols.  Which tasks stream  *)
(* depends on active_tasks naming exactly one task of each category, on    *)
(* told categories having no entry, and on cancelled tasks being forgotten *)
(* at once: IInv adds these to the properties.                             *)
(***************************************************************************)
EXTENDS MarketSession, TLAPS

\* An entry of active_tasks names a task of its category.
EntriesMatch ==
    \A k \in Categories :
        active_tasks[k] # NoTask => kind[active_tasks[k]] = k

\* A category whose end was acknowledged has no entry.
ToldHaveNoEntry == \A k \in told : active_tasks[k] = NoTask

\* A task that was cancelled once is no entry any more, and was started.
CancelledAreForgotten ==
    \A t \in Tasks :
        /\ \A k \in Categories : active_tasks[k] = t => cancels[t] = 0
        /\ state[t] = "idle" => cancels[t] = 0

IInv ==
    /\ TypeOK
    /\ StreamsAreTracked
    /\ EntriesMatch
    /\ ToldHaveNoEntry
    /\ CancelledAreForgotten
    /\ CancelledOnce

THEOREM InitHolds == Init => IInv
  <1> SUFFICES ASSUME Init PROVE IInv
    OBVIOUS
  <1>1. TypeOK
    BY DefaultIsSymbol DEF Init, TypeOK, Phases, StreamStates
  <1>2. StreamsAreTracked /\ EntriesMatch /\ ToldHaveNoEntry
    BY DEF Init, StreamsAreTracked, Live, EntriesMatch, ToldHaveNoEntry
  <1>3. CancelledAreForgotten /\ CancelledOnce
    BY DEF Init, CancelledAreForgotten, CancelledOnce
  <1> QED
    BY <1>1, <1>2, <1>3 DEF IInv

------------------------------------------------------------------------------
(* Replacing tasks.                                                          *)

\* What Replace leaves in active_tasks.
LEMMA EntriesAfter ==
    ASSUME IInv, NEW ks \in SUBSET Categories, NEW D \in SUBSET ks,
           NEW new \in [D -> Tasks], NEW s \in Symbols, Replace(ks, new, s)
    PROVE  /\ active_tasks' \in [Categories -> Tasks \cup {NoTask}]
           /\ \A k \in D : active_tasks'[k] = new[k]
           /\ \A k \in ks \ D : active_tasks'[k] = NoTask
           /\ \A k \in Categories \ ks : active_tasks'[k] = active_tasks[k]
  <1>1. active_tasks' = [k \in Categories |->
                            IF k \in D THEN new[k] ELSE PopKeys(ks)[k]]
    BY DEF Replace
  <1>2. active_tasks \in [Categories -> Tasks \cup {NoTask}]
    BY DEF IInv, TypeOK
  <1> QED
    BY <1>1, <1>2 DEF PopKeys

\* What Replace does to a task: started, cancelled or left alone.  A task that
\* is started was idle, and one that is cancelled was an entry of ks.
LEMMA TasksAfter ==
    ASSUME IInv, NEW ks \in SUBSET Categories, NEW D \in SUBSET ks,
           NEW new \in [D -> Tasks], NEW s \in Symbols, Replace(ks, new, s),
           NEW t \in Tasks
    PROVE  \/ /\ \E k \in D : new[k] = t /\ kind'[t] = k
              /\ state[t] = "idle" /\ kind[t] = "none"
              /\ state'[t] = "created" /\ symbol'[t] = s
              /\ cancels'[t] = cancels[t]
           \/ /\ \A k \in D : new[k] # t
              /\ \E k \in ks : active_tasks[k] = t
              /\ state[t] # "done"
              /\ kind'[t] = kind[t] /\ symbol'[t] = symbol[t]
              /\ state'[t] = AfterRaise(t)
              /\ cancels[t] = 0 /\ cancels'[t] = 1
           \/ /\ \A k \in D : new[k] # t
              /\ \A k \in ks : active_tasks[k] = t => state[t] = "done"
              /\ kind'[t] = kind[t] /\ symbol'[t] = symbol[t]
              /\ state'[t] = state[t] /\ cancels'[t] = cancels[t]
  <1> DEFINE started == {new[k] : k \in D}
             stopped == TasksCancelled(ks)
  <1>1. DOMAIN new = D
    OBVIOUS
  <1>2. /\ \A k \in D : state[new[k]] = "idle"
        /\ state'[t] = IF t \in started THEN "created"
                       ELSE IF t \in stopped THEN AfterRaise(t) ELSE state[t]
        /\ cancels'[t] = IF t \in stopped /\ cancels[t] < 2 THEN cancels[t] + 1 ELSE cancels[t]
        /\ kind'[t] = IF t \in started THEN CHOOSE k \in D : new[k] = t ELSE kind[t]
        /\ symbol'[t] = IF t \in started THEN s ELSE symbol[t]
    BY <1>1 DEF Replace
  <1>3. /\ state \in [Tasks -> StreamStates]
        /\ cancels \in [Tasks -> 0..2]
        /\ active_tasks \in [Categories -> Tasks \cup {NoTask}]
        /\ \A x \in Tasks : kind[x] = "none" <=> state[x] = "idle"
    BY DEF IInv, TypeOK
  <1>4. t \in stopped <=> state[t] # "done" /\ \E k \in ks : active_tasks[k] = t
    BY <1>3, NoTaskFresh DEF TasksCancelled
  <1>5. t \in stopped => state[t] # "idle" /\ cancels[t] = 0
    <2> SUFFICES ASSUME t \in stopped PROVE state[t] # "idle" /\ cancels[t] = 0
      OBVIOUS
    <2>1. PICK k \in ks : active_tasks[k] = t
      BY <1>4
    <2>2. kind[t] = k
      BY <2>1, NoTaskFresh DEF IInv, EntriesMatch
    <2>3. cancels[t] = 0
      BY <2>1 DEF IInv, CancelledAreForgotten
    <2> QED
      BY <2>2, <2>3, <1>3 DEF Categories
  <1>6. CASE t \in started
    <2>1. PICK j \in D : new[j] = t
      BY <1>6
    <2>2. \E k \in D : new[k] = t /\ (CHOOSE x \in D : new[x] = t) = k
      BY <2>1
    <2>3. state[t] = "idle" /\ t \notin stopped
      BY <1>2, <2>1, <1>5
    <2> QED
      BY <1>2, <1>3, <1>6, <2>2, <2>3
  <1>7. CASE t \notin started /\ t \in stopped
    BY <1>2, <1>3, <1>4, <1>5, <1>7
  <1>8. CASE t \notin started /\ t \notin stopped
    BY <1>2, <1>3, <1>4, <1>8
  <1> QED
    BY <1>6, <1>7, <1>8

\* A task whose await raised does not send again.
LEMMA RaisedIsSilent ==
    ASSUME NEW t, state[t] \in StreamStates \ {"idle"}
    PROVE  AfterRaise(t) \in {"cleanup", "done"}
  BY DEF AfterRaise

\* A replacement keeps the invariant, if categories whose end is acknowledged
\* lose their entry and those that are started are not among them.
LEMMA ReplaceKeeps ==
    ASSUME IInv, NEW ks \in SUBSET Categories, NEW D \in SUBSET ks,
           NEW new \in [D -> Tasks], NEW s \in Symbols, Replace(ks, new, s),
           UNCHANGED <<client, phase, keepalive>>,
           current_symbol' \in Symbols,
           told' \in SUBSET Categories,
           told' \subseteq (told \cup ks) \ D
    PROVE  IInv'
  <1>1. /\ active_tasks' \in [Categories -> Tasks \cup {NoTask}]
        /\ \A k \in D : active_tasks'[k] = new[k]
        /\ \A k \in ks \ D : active_tasks'[k] = NoTask
        /\ \A k \in Categories \ ks : active_tasks'[k] = active_tasks[k]
    BY EntriesAfter
  <1> DEFINE Started(t) == /\ \E k \in D : new[k] = t /\ kind'[t] = k
                           /\ state[t] = "idle" /\ kind[t] = "none"
                           /\ state'[t] = "created" /\ symbol'[t] = s
                           /\ cancels'[t] = cancels[t]
             Stopped(t) == /\ \A k \in D : new[k] # t
                           /\ \E k \in ks : active_tasks[k] = t
                           /\ state[t] # "done"
                           /\ kind'[t] = kind[t] /\ symbol'[t] = symbol[t]
                           /\ state'[t] = AfterRaise(t)
                           /\ cancels[t] = 0 /\ cancels'[t] = 1
             Left(t) == /\ \A k \in D : new[k] # t
                        /\ \A k \in ks : active_tasks[k] = t => state[t] = "done"
                        /\ kind'[t] = kind[t] /\ symbol'[t] = symbol[t]
                        /\ state'[t] = state[t] /\ cancels'[t] = cancels[t]
  <1>2. \A t \in Tasks : Started(t) \/ Stopped(t) \/ Left(t)
    BY TasksAfter
  <1>t. TypeOK /\ \A t \in Tasks : cancels[t] <= 1
    BY DEF IInv, CancelledOnce
  <1>k. \A t \in Tasks, k \in Categories : active_tasks[k] = t => kind[t] = k /\ cancels[t] = 0
    BY NoTaskFresh DEF IInv, EntriesMatch, CancelledAreForgotten
  <1>s. \A t \in Tasks : Stopped(t) =>
            /\ state[t] # "idle" /\ kind[t] # "none"
            /\ state'[t] \in {"cleanup", "done"}
    <2> SUFFICES ASSUME NEW t \in Tasks, Stopped(t)
                 PROVE  /\ state[t] # "idle" /\ kind[t] # "none"
                        /\ state'[t] \in {"cleanup", "done"}
      OBVIOUS
    <2>1. kind[t] \in Categories
      BY <1>k
    <2>2. state[t] \in StreamStates \ {"idle"} /\ kind[t] # "none"
      BY <2>1, <1>t DEF TypeOK, Categories
    <2> QED
      BY <2>2, RaisedIsSilent
  <1>3. TypeOK'
    <2>1. kind' \in [Tasks -> Categories \cup {"none"}]
      <3>1. kind' = [t \in Tasks |-> kind'[t]]
        BY DEF Replace
      <3>2. \A t \in Tasks : kind'[t] \in Categories \cup {"none"}
        BY <1>2, <1>t DEF TypeOK
      <3> QED
        BY <3>1, <3>2
    <2>2. symbol' \in [Tasks -> Symbols]
      <3>1. symbol' = [t \in Tasks |-> symbol'[t]]
        BY DEF Replace
      <3>2. \A t \in Tasks : symbol'[t] \in Symbols
        BY <1>2, <1>t DEF TypeOK
      <3> QED
        BY <3>1, <3>2
    <2>3. state' \in [Tasks -> StreamStates]
      <3>1. state' = [t \in Tasks |-> state'[t]]
        BY DEF Replace
      <3>2. \A t \in Tasks : state'[t] \in StreamStates
        BY <1>2, <1>t, <1>s DEF TypeOK, StreamStates
      <3> QED
        BY <3>1, <3>2
    <2>4. cancels' \in [Tasks -> 0..2]
      <3>1. cancels' = [t \in Tasks |-> cancels'[t]]
        BY DEF Replace
      <3>2. \A t \in Tasks : cancels'[t] \in 0..2
        BY <1>2, <1>t DEF TypeOK
      <3> QED
        BY <3>1, <3>2
    <2>5. \A t \in Tasks : kind'[t] = "none" <=> state'[t] = "idle"
      BY <1>2, <1>t, <1>s DEF TypeOK, Categories
    <2>6. /\ client' \in BOOLEAN /\ phase' \in Phases
          /\ keepalive' \in {"running", "done"}
      BY <1>t DEF TypeOK
    <2> QED
      BY <1>1, <2>1, <2>2, <2>3, <2>4, <2>5, <2>6 DEF TypeOK
  <1>4. StreamsAreTracked'
    <2> SUFFICES ASSUME NEW t \in Tasks, state'[t] \in {"created", "setup", "streaming"}
                 PROVE  active_tasks'[kind'[t]] = t
      BY DEF StreamsAreTracked, Live
    <2>1. CASE Started(t)
      BY <1>1, <2>1
    <2>2. CASE Stopped(t)
      BY <2>2, <1>s
    <2>3. CASE Left(t)
      <3>1. active_tasks[kind[t]] = t
        BY <2>3 DEF IInv, StreamsAreTracked, Live
      <3>2. kind[t] \in Categories
        BY <2>3, <1>t DEF TypeOK
      <3>3. kind[t] \notin ks
        BY <3>1, <2>3
      <3> QED
        BY <3>1, <3>2, <3>3, <2>3, <1>1
    <2> QED
      BY <1>2, <2>1, <2>2, <2>3
  <1>5. EntriesMatch'
    <2> SUFFICES ASSUME NEW k \in Categories, active_tasks'[k] # NoTask
                 PROVE  kind'[active_tasks'[k]] = k
      BY DEF EntriesMatch
    <2>1. active_tasks'[k] \in Tasks
      BY <1>1
    <2>2. CASE k \in D
      <3>1. \A j \in D : new[j] = new[k] => j = k
        BY <2>2 DEF Replace
      <3> QED
        BY <1>1, <1>2, <2>1, <2>2, <3>1
    <2>3. CASE k \notin ks
      <3>1. kind[active_tasks'[k]] = k
        BY <1>1, <1>k, <2>1, <2>3
      <3>2. ~Started(active_tasks'[k])
        BY <3>1, <2>1 DEF Categories
      <3> QED
        BY <1>2, <2>1, <3>1, <3>2
    <2> QED
      BY <1>1, <2>2, <2>3
  <1>6. ToldHaveNoEntry'
    BY <1>1 DEF IInv, ToldHaveNoEntry
  <1>7. CancelledAreForgotten'
    <2> SUFFICES ASSUME NEW t \in Tasks
                 PROVE  /\ \A k \in Categories : active_tasks'[k] = t => cancels'[t] = 0
                        /\ state'[t] = "idle" => cancels'[t] = 0
      BY DEF CancelledAreForgotten
    <2>1. CASE Started(t)
      BY <2>1 DEF IInv, CancelledAreForgotten
    <2>2. CASE Stopped(t)
      <3>1. ASSUME NEW k \in Categories PROVE active_tasks'[k] # t
        <4>1. CASE k \in D
          BY <4>1, <1>1, <2>2
        <4>2. CASE k \in ks \ D
          BY <4>2, <1>1, NoTaskFresh
        <4>3. CASE k \notin ks
          BY <4>3, <1>1, <1>k, <2>2
        <4> QED
          BY <4>1, <4>2, <4>3
      <3> QED
        BY <3>1, <2>2, <1>s
    <2>3. CASE Left(t)
      <3>1. ASSUME NEW k \in Categories, active_tasks'[k] = t PROVE cancels[t] = 0
        <4>1. k \notin ks
          BY <3>1, <1>1, <2>3, NoTaskFresh
        <4> QED
          BY <3>1, <4>1, <1>1, <1>k
      <3> QED
        BY <3>1, <2>3 DEF IInv, CancelledAreForgotten
    <2> QED
      BY <1>2, <2>1, <2>2, <2>3
  <1>8. CancelledOnce'
    BY <1>2, <1>t DEF CancelledOnce
  <1> QED
    BY <1>3, <1>4, <1>5, <1>6, <1>7, <1>8 DEF IInv

------------------------------------------------------------------------------
(* One lemma per kind of step.                                               *)

LEMMA SubscribeKeeps ==
    ASSUME IInv, NEW k \in SymbolStreams, NEW t \in Tasks, NEW s \in Symbols, Subscribe(k, t, s)
    PROVE  IInv'
  <1> DEFINE new == [x \in {k} |-> t]
  <1>1. {k} \in SUBSET Categories /\ new \in [{k} -> Tasks]
    BY DEF SymbolStreams, Categories
  <1>2. /\ Replace({k}, new, s) /\ UNCHANGED <<client, phase, keepalive>>
        /\ current_symbol' \in Symbols /\ told' = told \ {k}
    BY DEF Subscribe
  <1>3. told \in SUBSET Categories
    BY DEF IInv, TypeOK
  <1> HIDE DEF new
  <1> QED
    BY <1>1, <1>2, <1>3, ReplaceKeeps

LEMMA SubscribeTop10Keeps ==
    ASSUME IInv, NEW t \in Tasks, SubscribeTop10(t)
    PROVE  IInv'
  <1> DEFINE new == [x \in {"top_10"} |-> t]
  <1>1. {"top_10"} \in SUBSET Categories /\ new \in [{"top_10"} -> Tasks]
    BY DEF Categories
  <1>2. told \in SUBSET Categories /\ current_symbol \in Symbols
    BY DEF IInv, TypeOK
  <1>3. /\ Replace({"top_10"}, new, DefaultSymbol) /\ UNCHANGED <<client, phase, keepalive>>
        /\ current_symbol' \in Symbols /\ told' = told \ {"top_10"}
    BY <1>2 DEF SubscribeTop10
  <1> HIDE DEF new
  <1> QED
    BY <1>1, <1>2, <1>3, DefaultIsSymbol, ReplaceKeeps

LEMMA UnsubscribeKeeps ==
    ASSUME IInv, NEW k \in Categories, Unsubscribe(k)
    PROVE  IInv'
  <1> DEFINE new == [x \in {} |-> NoTask]
  <1>1. {k} \in SUBSET Categories /\ {} \in SUBSET {k} /\ new \in [{} -> Tasks]
    OBVIOUS
  <1>2. told \in SUBSET Categories /\ current_symbol \in Symbols
    BY DEF IInv, TypeOK
  <1>3. /\ Replace({k}, new, current_symbol) /\ UNCHANGED <<client, phase, keepalive>>
        /\ current_symbol' \in Symbols /\ told' = told \cup {k}
    BY <1>2 DEF Unsubscribe
  <1> HIDE DEF new
  <1> QED
    BY <1>1, <1>2, <1>3, ReplaceKeeps

LEMMA ChangeSymbolKeeps ==
    ASSUME IInv, NEW s \in Symbols, ChangeSymbol(s)
    PROVE  IInv'
  <1>1. PICK new \in [Restarted -> Tasks] : Replace(Restarted, new, s)
    BY DEF ChangeSymbol
  <1>2. Restarted \in SUBSET Categories
    BY DEF Restarted, SymbolStreams, Categories
  <1>3. UNCHANGED <<client, phase, keepalive>> /\ current_symbol' = s /\ told' = told
    BY DEF ChangeSymbol
  <1>4. told \in SUBSET Categories /\ told \cap Restarted = {}
    BY DEF IInv, TypeOK, ToldHaveNoEntry, Restarted
  <1> QED
    BY <1>1, <1>2, <1>3, <1>4, ReplaceKeeps

\* A step of a stream task makes no other task send, and none that did not.
LEMMA StreamStepKeeps ==
    ASSUME IInv, NEW t \in Tasks, StreamStep(t)
    PROVE  IInv'
  <1>1. PICK to \in StreamStates \ {"idle"} :
            /\ state' = [state EXCEPT ![t] = to]
            /\ state[t] # "idle"
            /\ to \in {"created", "setup", "streaming"} => Live(t)
            /\ UNCHANGED <<client, keepalive, session, kind, symbol, cancels>>
    <2>1. CASE StreamStarts(t) \/ SetupReturns(t)
      BY <2>1 DEF StreamStarts, SetupReturns, StreamMoves, StreamStates, Live
    <2>2. CASE SetupRaises(t) \/ CleanupEnds(t)
      BY <2>2 DEF SetupRaises, CleanupEnds, StreamMoves, StreamStates, Live
    <2>3. CASE StreamRaises(t)
      <3>1. state[t] \in StreamStates \ {"idle"}
        BY <2>3 DEF StreamRaises, StreamMoves, StreamStates
      <3>2. AfterRaise(t) \in {"cleanup", "done"}
        BY <3>1, RaisedIsSilent
      <3> QED
        BY <2>3, <3>1, <3>2 DEF StreamRaises, StreamMoves, StreamStates, Live
    <2> QED
      BY <2>1, <2>2, <2>3 DEF StreamStep
  <1>2. TypeOK'
    BY <1>1 DEF IInv, TypeOK, session
  <1>3. StreamsAreTracked'
    BY <1>1 DEF IInv, TypeOK, StreamsAreTracked, Live, session
  <1>4. EntriesMatch' /\ ToldHaveNoEntry'
    BY <1>1 DEF IInv, EntriesMatch, ToldHaveNoEntry, session
  <1>5. CancelledAreForgotten' /\ CancelledOnce'
    BY <1>1 DEF IInv, TypeOK, CancelledAreForgotten, CancelledOnce, session
  <1> QED
    BY <1>2, <1>3, <1>4, <1>5 DEF IInv

\* The client, the authentication and the ping task leave the streams alone.
LEMMA SessionStepKeeps ==
    ASSUME IInv,
           \/ ClientLeaves \/ TokenReceived \/ AuthTimeout \/ TokenMissing \/ AuthDisconnects
           \/ UserFound \/ UserRefused \/ Refused \/ Disconnects \/ SessionRaises
           \/ PingFails \/ Over \/ UNCHANGED vars
    PROVE  IInv'
  <1>1. /\ client' \in BOOLEAN /\ phase' \in Phases /\ keepalive' \in {"running", "done"}
        /\ UNCHANGED <<current_symbol, active_tasks, told, streams>>
    BY DEF IInv, TypeOK, Phases, ClientLeaves, TokenReceived, AuthTimeout, TokenMissing,
           AuthDisconnects, UserFound, UserRefused, Refused, Disconnects, SessionRaises,
           PhaseMoves, PingFails, Over, session, streams, vars
  <1>2. TypeOK'
    BY <1>1 DEF IInv, TypeOK, streams
  <1>3. StreamsAreTracked' /\ EntriesMatch' /\ ToldHaveNoEntry'
    BY <1>1 DEF IInv, StreamsAreTracked, Live, EntriesMatch, ToldHaveNoEntry, streams
  <1>4. CancelledAreForgotten' /\ CancelledOnce'
    BY <1>1 DEF IInv, CancelledAreForgotten, CancelledOnce, streams
  <1> QED
    BY <1>2, <1>3, <1>4 DEF IInv

------------------------------------------------------------------------------
(* The theorems.                                                             *)

\* Every step keeps the invariant.
THEOREM StepHolds == IInv /\ [Next]_vars => IInv'
  <1> SUFFICES ASSUME IInv, [Next]_vars PROVE IInv'
    OBVIOUS
  <1> USE DEF Next
  <1>1. CASE \E s \in Symbols : ChangeSymbol(s)
    BY <1>1, ChangeSymbolKeeps
  <1>2. CASE \E s \in Symbols, k \in SymbolStreams, t \in Tasks : Subscribe(k, t, s)
    BY <1>2, SubscribeKeeps
  <1>3. CASE \E t \in Tasks : SubscribeTop10(t)
    BY <1>3, SubscribeTop10Keeps
  <1>4. CASE \E k \in Categories : Unsubscribe(k)
    BY <1>4, UnsubscribeKeeps
  <1>5. CASE \E t \in Tasks : StreamStep(t)
    BY <1>5, StreamStepKeeps
  <1>6. CASE \/ ClientLeaves \/ TokenReceived \/ AuthTimeout \/ TokenMissing
             \/ AuthDisconnects \/ UserFound \/ UserRefused \/ Refused
             \/ Disconnects \/ SessionRaises \/ PingFails \/ Over \/ UNCHANGED vars
    BY <1>6, SessionStepKeeps
  <1> QED
    BY <1>1, <1>2, <1>3, <1>4, <1>5, <1>6

THEOREM Invariance == Spec => []IInv
  BY InitHolds, StepHolds, PTL DEF Spec

\* The variables keep their types, whatever tasks and symbols there are.
THEOREM TypeCorrect == Spec => []TypeOK
  <1>1. IInv => TypeOK
    BY DEF IInv
  <1> QED
    BY <1>1, Invariance, PTL

\* No message sequence leaves a stream that nobody can cancel, and no category
\* streams twice (websocket/router.py:112-191).
THEOREM Tracked == Spec => []StreamsAreTracked
  <1>1. IInv => StreamsAreTracked
    BY DEF IInv
  <1> QED
    BY <1>1, Invariance, PTL

\* A category that was acknowledged as ended is silent until it is subscribed
\* again: a stream that sends has an entry, and such a category has none.
THEOREM Silent == Spec => []SilentAfterUnsubscribe
  <1>1. IInv => SilentAfterUnsubscribe
    BY NoTaskFresh DEF IInv, StreamsAreTracked, ToldHaveNoEntry, SilentAfterUnsubscribe
  <1> QED
    BY <1>1, Invariance, PTL

\* The session cancels a task once at most: cancel_task forgets what it cancels.
THEOREM OneCancel == Spec => []CancelledOnce
  <1>1. IInv => CancelledOnce
    BY DEF IInv
  <1> QED
    BY <1>1, Invariance, PTL

\* After change_symbol every stream of a symbol that can still send is one it
\* started: the others had an entry, so they were cancelled.
THEOREM StreamsFollow == Spec => AllStreamsFollowSymbol
  <1> DEFINE Follow == \A s \in Symbols : ChangeSymbol(s) =>
          \A t \in Tasks : Live(t)' /\ kind'[t] \in SymbolStreams => symbol'[t] = s
  <1>1. ASSUME IInv, [Next]_vars PROVE Follow
    <2> SUFFICES ASSUME NEW s \in Symbols, ChangeSymbol(s), NEW t \in Tasks,
                        state'[t] \in {"created", "setup", "streaming"},
                        kind'[t] \in SymbolStreams
                 PROVE  symbol'[t] = s
      BY DEF Live
    <2>1. PICK new \in [Restarted -> Tasks] : Replace(Restarted, new, s)
      BY DEF ChangeSymbol
    <2>2. Restarted \in SUBSET Categories
      BY DEF Restarted, SymbolStreams, Categories
    <2>3. \/ symbol'[t] = s
          \/ /\ \E k \in Restarted : active_tasks[k] = t
             /\ state[t] # "done" /\ state'[t] = AfterRaise(t)
          \/ /\ \A k \in Restarted : active_tasks[k] = t => state[t] = "done"
             /\ kind'[t] = kind[t] /\ state'[t] = state[t]
      BY <1>1, <2>1, <2>2, TasksAfter
    <2>4. CASE \E k \in Restarted : active_tasks[k] = t /\ state'[t] = AfterRaise(t)
      <3>1. state[t] \in StreamStates \ {"idle"}
        <4>1. PICK k \in Restarted : active_tasks[k] = t
          BY <2>4
        <4>2. kind[t] = k /\ k \in SymbolStreams
          BY <1>1, <4>1, NoTaskFresh, <2>2 DEF IInv, EntriesMatch, Restarted
        <4> QED
          BY <1>1, <4>2 DEF IInv, TypeOK, SymbolStreams
      <3> QED
        BY <2>4, <3>1, RaisedIsSilent
    <2>5. CASE /\ \A k \in Restarted : active_tasks[k] = t => state[t] = "done"
               /\ kind'[t] = kind[t] /\ state'[t] = state[t]
      <3>1. active_tasks[kind[t]] = t
        BY <1>1, <2>5 DEF IInv, StreamsAreTracked, Live
      <3>2. kind[t] \in Restarted
        BY <2>5, <3>1, NoTaskFresh DEF Restarted
      <3> QED
        BY <2>5, <3>1, <3>2
    <2> QED
      BY <2>3, <2>4, <2>5
  <1>2. IInv /\ [Next]_vars => [Follow]_vars
    BY <1>1
  <1> QED
    BY <1>2, Invariance, PTL DEF Spec, AllStreamsFollowSymbol

------------------------------------------------------------------------------
(* The session is a panel of streams.                                        *)

\* What a category sends is its entry in active_tasks, while that is alive.
LEMMA SendingIsEntry ==
    ASSUME TypeOK, StreamsAreTracked, EntriesMatch, NEW k \in Categories
    PROVE  LET a == active_tasks[k]
           IN  Sending(k) = IF a # NoTask /\ Live(a) THEN {<<a, symbol[a]>>} ELSE {}
  <1> DEFINE a == active_tasks[k]
  <1>1. a \in Tasks \cup {NoTask} /\ (a # NoTask => kind[a] = k)
    BY DEF TypeOK, EntriesMatch
  <1>2. \A t \in Tasks : Live(t) /\ kind[t] = k => t = a
    BY DEF StreamsAreTracked
  <1> HIDE DEF a
  <1>3. {x \in Tasks : Live(x) /\ kind[x] = k} = IF a # NoTask /\ Live(a) THEN {a} ELSE {}
    BY <1>1, <1>2, NoTaskFresh
  <1> QED
    BY <1>3 DEF Sending, a

\* The same after a step.
LEMMA SendingIsEntryNext ==
    ASSUME (TypeOK /\ StreamsAreTracked /\ EntriesMatch)', NEW k \in Categories
    PROVE  LET a == active_tasks'[k]
           IN  Sending(k)' = IF a # NoTask /\ state'[a] \in {"created", "setup", "streaming"}
                             THEN {<<a, symbol'[a]>>} ELSE {}
  <1> DEFINE a == active_tasks'[k]
  <1>1. a \in Tasks \cup {NoTask} /\ (a # NoTask => kind'[a] = k)
    BY DEF TypeOK, EntriesMatch
  <1>2. \A t \in Tasks : state'[t] \in {"created", "setup", "streaming"} /\ kind'[t] = k => t = a
    BY DEF StreamsAreTracked, Live
  <1> HIDE DEF a
  <1>3. {x \in Tasks : state'[x] \in {"created", "setup", "streaming"} /\ kind'[x] = k}
            = IF a # NoTask /\ state'[a] \in {"created", "setup", "streaming"} THEN {a} ELSE {}
    BY <1>1, <1>2, NoTaskFresh
  <1> QED
    BY <1>3 DEF Sending, Live, a

\* An idle task is no stream of the panel.
LEMMA IdleIsFresh ==
    ASSUME TypeOK, NEW t \in Tasks, state[t] = "idle"
    PROVE  Panel!Fresh(t)
  <1>1. ~Live(t)
    BY DEF Live
  <1>2. ASSUME NEW k \in Categories, NEW s \in Symbols PROVE <<t, s>> \notin Sending(k)
    BY <1>1 DEF Sending
  <1> QED
    BY <1>2 DEF Panel!Fresh

\* What a replacement leaves on the panel: the started streams with symbol s,
\* nothing of the other categories it was about, and the rest as it was.
LEMMA PanelAfter ==
    ASSUME IInv, IInv', NEW ks \in SUBSET Categories, NEW D \in SUBSET ks,
           NEW new \in [D -> Tasks], NEW s \in Symbols, Replace(ks, new, s)
    PROVE  /\ \A k \in D : Sending(k)' = {<<new[k], s>>}
           /\ \A k \in ks \ D : Sending(k)' = {}
           /\ \A k \in Categories \ ks : Sending(k)' = Sending(k)
           /\ \A j, k \in D : Panel!Fresh(new[k]) /\ (new[j] = new[k] => j = k)
  <1>1. /\ \A k \in D : active_tasks'[k] = new[k]
        /\ \A k \in ks \ D : active_tasks'[k] = NoTask
        /\ \A k \in Categories \ ks : active_tasks'[k] = active_tasks[k]
    BY EntriesAfter
  <1>t. ASSUME NEW t \in Tasks
        PROVE  /\ (\E k \in D : new[k] = t) => state'[t] = "created" /\ symbol'[t] = s
               /\ kind[t] # "none" /\ (\A k \in ks : active_tasks[k] # t) =>
                      state'[t] = state[t] /\ symbol'[t] = symbol[t]
    <2>1. \/ /\ \E k \in D : new[k] = t /\ kind'[t] = k
             /\ state[t] = "idle" /\ kind[t] = "none"
             /\ state'[t] = "created" /\ symbol'[t] = s
             /\ cancels'[t] = cancels[t]
          \/ /\ \A k \in D : new[k] # t
             /\ \E k \in ks : active_tasks[k] = t
             /\ state[t] # "done"
             /\ kind'[t] = kind[t] /\ symbol'[t] = symbol[t]
             /\ state'[t] = AfterRaise(t)
             /\ cancels[t] = 0 /\ cancels'[t] = 1
          \/ /\ \A k \in D : new[k] # t
             /\ \A k \in ks : active_tasks[k] = t => state[t] = "done"
             /\ kind'[t] = kind[t] /\ symbol'[t] = symbol[t]
             /\ state'[t] = state[t] /\ cancels'[t] = cancels[t]
      BY TasksAfter
    <2> QED
      BY <2>1
  <1>2. ASSUME NEW k \in D PROVE Sending(k)' = {<<new[k], s>>}
    <2>1. new[k] \in Tasks /\ new[k] # NoTask
      BY NoTaskFresh
    <2>2. state'[new[k]] = "created" /\ symbol'[new[k]] = s
      BY <2>1, <1>t
    <2> QED
      BY <1>1, <2>1, <2>2, SendingIsEntryNext DEF IInv
  <1>3. ASSUME NEW k \in ks \ D PROVE Sending(k)' = {}
    BY <1>1, SendingIsEntryNext DEF IInv
  <1>4. ASSUME NEW k \in Categories \ ks PROVE Sending(k)' = Sending(k)
    <2> DEFINE a == active_tasks[k]
    <2>1. CASE a = NoTask
      BY <1>1, <2>1, SendingIsEntry, SendingIsEntryNext DEF IInv
    <2>2. CASE a # NoTask
      <3>1. a \in Tasks /\ kind[a] = k
        BY <2>2 DEF IInv, TypeOK, EntriesMatch
      <3>2. kind[a] # "none" /\ \A j \in ks : active_tasks[j] # a
        BY <3>1, NoTaskFresh DEF IInv, EntriesMatch, Categories
      <3>3. symbol'[a] = symbol[a] /\ state'[a] = state[a]
        BY <3>1, <3>2, <1>t
      <3>4. Sending(k) = IF a # NoTask /\ Live(a) THEN {<<a, symbol[a]>>} ELSE {}
        BY SendingIsEntry DEF IInv
      <3>5. Sending(k)' = IF a # NoTask /\ state'[a] \in {"created", "setup", "streaming"}
                          THEN {<<a, symbol'[a]>>} ELSE {}
        BY <1>1, SendingIsEntryNext DEF IInv
      <3> QED
        BY <3>3, <3>4, <3>5 DEF Live
    <2> QED
      BY <2>1, <2>2
  <1>5. \A j, k \in D : state[new[k]] = "idle" /\ (new[j] = new[k] => j = k)
    BY DEF Replace
  <1>6. \A k \in D : Panel!Fresh(new[k])
    BY <1>5, IdleIsFresh DEF IInv
  <1> QED
    BY <1>2, <1>3, <1>4, <1>5, <1>6

\* A message of the client is what the panel does.
LEMMA SubscribeShows ==
    ASSUME IInv, IInv', NEW k \in Categories, NEW t \in Tasks, NEW s \in Symbols,
           phase = "open", phase' = phase, told' = told \ {k},
           Replace({k}, [x \in {k} |-> t], s)
    PROVE  Panel!Next
  <1> DEFINE new == [x \in {k} |-> t]
  <1>1. /\ new \in [{k} -> Tasks] /\ new[k] = t /\ Replace({k}, new, s)
        /\ {k} \in SUBSET Categories /\ {k} \in SUBSET {k}
    OBVIOUS
  <1> HIDE DEF new
  <1>2. /\ Sending(k)' = {<<t, s>>} /\ Panel!Fresh(t)
        /\ \A j \in Categories \ {k} : Sending(j)' = Sending(j)
    BY <1>1, PanelAfter
  <1>3. Panel!Show(k, t, s)
    BY <1>2 DEF Panel!Show, Door
  <1> QED
    BY <1>3 DEF Panel!Next

LEMMA UnsubscribeEnds ==
    ASSUME IInv, IInv', NEW k \in Categories, Unsubscribe(k)
    PROVE  Panel!Next
  <1> DEFINE new == [x \in {} |-> NoTask]
  <1>1. /\ new \in [{} -> Tasks] /\ Replace({k}, new, current_symbol)
        /\ {k} \in SUBSET Categories /\ {} \in SUBSET {k} /\ current_symbol \in Symbols
    BY DEF Unsubscribe, IInv, TypeOK
  <1> HIDE DEF new
  <1>2. /\ Sending(k)' = {}
        /\ \A j \in Categories \ {k} : Sending(j)' = Sending(j)
    BY <1>1, PanelAfter
  <1>3. Panel!End(k)
    BY <1>2 DEF Panel!End, Unsubscribe, Door
  <1> QED
    BY <1>3 DEF Panel!Next

LEMMA ChangeSwitches ==
    ASSUME IInv, IInv', NEW s \in Symbols, ChangeSymbol(s)
    PROVE  Panel!Next
  <1>1. PICK new \in [Restarted -> Tasks] : Replace(Restarted, new, s)
    BY DEF ChangeSymbol
  <1>2. Restarted \in SUBSET Categories /\ Restarted \in SUBSET SymbolStreams
    BY DEF Restarted, SymbolStreams, Categories
  <1>3. /\ \A k \in Restarted : Sending(k)' = {<<new[k], s>>}
        /\ \A k \in Categories \ Restarted : Sending(k)' = Sending(k)
        /\ \A j, k \in Restarted : Panel!Fresh(new[k]) /\ (new[j] = new[k] => j = k)
    BY <1>1, <1>2, PanelAfter
  <1>4. Restarted \cap told = {}
    BY DEF IInv, ToldHaveNoEntry, Restarted
  <1>5. \A k \in SymbolStreams \ Restarted : Sending(k) = {}
    BY SendingIsEntry DEF IInv, Restarted, SymbolStreams, Categories
  <1>6. DOMAIN new = Restarted
    OBVIOUS
  <1>7. Panel!Switch(new, s)
    BY <1>2, <1>3, <1>4, <1>5, <1>6 DEF Panel!Switch, ChangeSymbol, Door, SymbolStreams, Categories
  <1> QED
    BY <1>1, <1>2, <1>7 DEF Panel!Next

\* A stream goes on, or breaks.
LEMMA StreamStepBreaks ==
    ASSUME IInv, IInv', NEW t \in Tasks, StreamStep(t)
    PROVE  [Panel!Next]_(Panel!vars)
  <1>1. PICK to \in StreamStates \ {"idle"} :
            /\ state' = [state EXCEPT ![t] = to]
            /\ state[t] # "idle"
            /\ to \in {"created", "setup", "streaming"} => Live(t)
            /\ UNCHANGED <<client, keepalive, session, kind, symbol, cancels>>
    <2>1. CASE StreamStarts(t) \/ SetupReturns(t)
      BY <2>1 DEF StreamStarts, SetupReturns, StreamMoves, StreamStates, Live
    <2>2. CASE SetupRaises(t) \/ CleanupEnds(t)
      BY <2>2 DEF SetupRaises, CleanupEnds, StreamMoves, StreamStates, Live
    <2>3. CASE StreamRaises(t)
      <3>1. state[t] \in StreamStates \ {"idle"}
        BY <2>3 DEF StreamRaises, StreamMoves, StreamStates
      <3>2. AfterRaise(t) \in {"cleanup", "done"}
        BY <3>1, RaisedIsSilent
      <3> QED
        BY <2>3, <3>1, <3>2 DEF StreamRaises, StreamMoves, StreamStates, Live
    <2> QED
      BY <2>1, <2>2, <2>3 DEF StreamStep
  <1>2. PICK k \in Categories : kind[t] = k
    BY <1>1 DEF IInv, TypeOK
  <1>3. \A j \in Categories \ {k} : Sending(j)' = Sending(j)
    <2> SUFFICES ASSUME NEW j \in Categories \ {k} PROVE Sending(j)' = Sending(j)
      OBVIOUS
    <2>1. active_tasks[j] # t
      BY <1>2, NoTaskFresh DEF IInv, EntriesMatch
    <2>2. active_tasks'[j] = active_tasks[j] /\ symbol' = symbol
      BY <1>1 DEF session
    <2>3. active_tasks[j] # NoTask => state'[active_tasks[j]] = state[active_tasks[j]]
      BY <1>1, <2>1 DEF IInv, TypeOK
    <2> QED
      BY <2>2, <2>3, SendingIsEntry, SendingIsEntryNext DEF IInv, Live
  <1>4. Sending(k)' = Sending(k) \/ Sending(k)' = {}
    <2>1. active_tasks'[k] = active_tasks[k] /\ symbol' = symbol
      BY <1>1 DEF session
    <2>4. Sending(k) = IF active_tasks[k] # NoTask /\ Live(active_tasks[k])
                       THEN {<<active_tasks[k], symbol[active_tasks[k]]>>} ELSE {}
      BY <1>2, SendingIsEntry DEF IInv
    <2>5. Sending(k)' = IF active_tasks'[k] # NoTask
                             /\ state'[active_tasks'[k]] \in {"created", "setup", "streaming"}
                        THEN {<<active_tasks'[k], symbol'[active_tasks'[k]]>>} ELSE {}
      BY <1>2, SendingIsEntryNext DEF IInv
    <2>2. CASE active_tasks[k] # t
      <3>1. active_tasks[k] # NoTask => state'[active_tasks[k]] = state[active_tasks[k]]
        BY <1>1, <1>2, <2>2 DEF IInv, TypeOK
      <3> QED
        BY <2>1, <2>4, <2>5, <3>1 DEF Live
    <2>3. CASE active_tasks[k] = t
      <3>1. state'[t] \in {"created", "setup", "streaming"} => Live(t)
        BY <1>1 DEF IInv, TypeOK
      <3> QED
        BY <2>1, <2>3, <2>4, <2>5, <3>1 DEF Live
    <2> QED
      BY <2>2, <2>3
  <1>5. UNCHANGED <<phase, told>>
    BY <1>1 DEF session
  <1>6. CASE Sending(k)' = Sending(k)
    <2>1. \A j \in Categories : Sending(j)' = Sending(j)
      BY <1>3, <1>6
    <2> QED
      BY <1>5, <2>1 DEF Panel!vars, Door
  <1>7. CASE Sending(k)' = {}
    <2>1. \A j \in Categories : Sending(j)' = IF j = k THEN {} ELSE Sending(j)
      BY <1>3, <1>7
    <2>2. Panel!Break(k)
      BY <1>2, <1>5, <2>1 DEF Panel!Break, Door
    <2> QED
      BY <1>2, <2>2 DEF Panel!Next
  <1> QED
    BY <1>4, <1>6, <1>7

\* The client, the authentication and the ping task open or shut the door.
LEMMA SessionStepOpens ==
    ASSUME IInv,
           \/ ClientLeaves \/ TokenReceived \/ AuthTimeout \/ TokenMissing \/ AuthDisconnects
           \/ UserFound \/ UserRefused \/ Refused \/ Disconnects \/ SessionRaises
           \/ PingFails \/ Over \/ UNCHANGED vars
    PROVE  [Panel!Next]_(Panel!vars)
  <1>1. /\ \/ phase' = phase
           \/ phase \in {"auth", "checking"} /\ phase' \in {"checking", "refusing", "open"}
           \/ phase # "closed" /\ phase' = "closed"
        /\ UNCHANGED <<told, streams>>
    BY DEF ClientLeaves, TokenReceived, AuthTimeout, TokenMissing,
           AuthDisconnects, UserFound, UserRefused, Refused, Disconnects, SessionRaises,
           PhaseMoves, PingFails, Over, session, streams, vars
  <1>2. \A k \in Categories : Sending(k)' = Sending(k)
    BY <1>1 DEF Sending, Live, streams
  <1>3. CASE Door' = Door
    BY <1>1, <1>2, <1>3 DEF Panel!vars
  <1>4. CASE Door = "waiting" /\ Door' = "open"
    <2>1. Panel!Open
      BY <1>1, <1>2, <1>4 DEF Panel!Open
    <2> QED
      BY <2>1 DEF Panel!Next
  <1>5. CASE Door # "shut" /\ Door' = "shut"
    <2>1. Panel!Shut
      BY <1>1, <1>2, <1>5 DEF Panel!Shut
    <2> QED
      BY <2>1 DEF Panel!Next
  <1> QED
    BY <1>1, <1>3, <1>4, <1>5 DEF Door

\* A market connection is a panel of streams, for any tasks and symbols: one
\* stream of a category sends at most, in the place of the one before it, all of
\* them move when the symbol changes, and none begins that the client was told
\* has ended, or before the connection was opened or after it was closed.
THEOREM PanelKept == Spec => KeepsPanel
  <1>1. Init => Panel!Init
    BY DEF Init, Panel!Init, Door, Sending, Live
  <1>2. IInv /\ IInv' /\ [Next]_vars => [Panel!Next]_(Panel!vars)
    <2> SUFFICES ASSUME IInv, IInv', [Next]_vars PROVE [Panel!Next]_(Panel!vars)
      OBVIOUS
    <2>1. CASE \E s \in Symbols : ChangeSymbol(s)
      BY <2>1, ChangeSwitches
    <2>2. CASE \E s \in Symbols, k \in SymbolStreams, t \in Tasks : Subscribe(k, t, s)
      BY <2>2, SubscribeShows DEF Subscribe, SymbolStreams, Categories
    <2>3. CASE \E t \in Tasks : SubscribeTop10(t)
      BY <2>3, SubscribeShows, DefaultIsSymbol DEF SubscribeTop10, Categories
    <2>4. CASE \E k \in Categories : Unsubscribe(k)
      BY <2>4, UnsubscribeEnds
    <2>5. CASE \E t \in Tasks : StreamStep(t)
      BY <2>5, StreamStepBreaks
    <2>6. CASE \/ ClientLeaves \/ TokenReceived \/ AuthTimeout \/ TokenMissing
               \/ AuthDisconnects \/ UserFound \/ UserRefused \/ Refused
               \/ Disconnects \/ SessionRaises \/ PingFails \/ Over \/ UNCHANGED vars
      BY <2>6, SessionStepOpens
    <2> QED
      BY <2>1, <2>2, <2>3, <2>4, <2>5, <2>6 DEF Next
  <1> QED
    BY <1>1, <1>2, Invariance, PTL DEF Spec, KeepsPanel, Panel!Spec

------------------------------------------------------------------------------
(* A connection runs down.                                                   *)

\* How many steps a stream task is from its end at most.
StepsAhead(at) ==
    CASE at = "created" -> 4
      [] at = "setup" -> 3
      [] at = "streaming" -> 2
      [] at = "cleanup" -> 1
      [] at = "done" -> 0

\* How many steps the endpoint is from its end at most, messages aside.
PhasesAhead(at) ==
    CASE at = "auth" -> 3
      [] at = "checking" -> 2
      [] at \in {"refusing", "open"} -> 1
      [] at = "closed" -> 0

TasksAdvance ==
    \A t \in Tasks : state[t] # "idle" /\ state'[t] # state[t] =>
        StepsAhead(state'[t]) < StepsAhead(state[t])

PhaseAdvances == phase' # phase => PhasesAhead(phase') < PhasesAhead(phase)

\* Only an open connection starts tasks.
OnlyOpenStarts == phase # "open" => \A t \in Tasks : state[t] = "idle" => state'[t] = "idle"

PeerStaysAway ==
    /\ ~client => ~client'
    /\ keepalive = "done" => keepalive' = "done"

\* A connection goes one way, whatever its client sends and whichever cancel
\* meets whichever failure: no task is cancelled back into its set-up, and once
\* the endpoint has refused or left, none is started (router.py:49-206).
ConnectionRunsDown ==
    [][TasksAdvance /\ PhaseAdvances /\ OnlyOpenStarts /\ PeerStaysAway]_vars

\* A cancelled task goes on to its clean-up or ends; one in its clean-up stays there.
LEMMA RaisedAdvances ==
    ASSUME NEW t, state[t] \in StreamStates \ {"idle"}, AfterRaise(t) # state[t]
    PROVE  StepsAhead(AfterRaise(t)) < StepsAhead(state[t])
  BY DEF AfterRaise, StepsAhead, StreamStates

\* A replacement starts idle tasks, and moves others on.
LEMMA ReplaceAdvances ==
    ASSUME IInv, NEW ks \in SUBSET Categories, NEW D \in SUBSET ks,
           NEW new \in [D -> Tasks], NEW s \in Symbols, Replace(ks, new, s)
    PROVE  TasksAdvance
  <1> SUFFICES ASSUME NEW t \in Tasks, state[t] # "idle", state'[t] # state[t]
               PROVE  StepsAhead(state'[t]) < StepsAhead(state[t])
    BY DEF TasksAdvance
  <1>1. state'[t] = AfterRaise(t)
    BY TasksAfter
  <1>2. state[t] \in StreamStates \ {"idle"}
    BY DEF IInv, TypeOK
  <1> QED
    BY <1>1, <1>2, RaisedAdvances

\* For any number of task slots and messages a connection runs down.
THEOREM SessionRunsDown == Spec => ConnectionRunsDown
  <1> DEFINE A == TasksAdvance /\ PhaseAdvances /\ OnlyOpenStarts /\ PeerStaysAway
  <1>1. ASSUME IInv, Next PROVE A
    <2> USE DEF Next
    <2>0. /\ \A t \in Tasks : state[t] \in StreamStates
          /\ phase \in Phases
      BY <1>1 DEF IInv, TypeOK
    <2>1. CASE \E s \in Symbols : ChangeSymbol(s)
      <3>1. PICK s \in Symbols : ChangeSymbol(s)
        BY <2>1
      <3>2. PICK new \in [Restarted -> Tasks] : Replace(Restarted, new, s)
        BY <3>1 DEF ChangeSymbol
      <3>3. Restarted \in SUBSET Categories
        BY DEF Restarted, SymbolStreams, Categories
      <3>4. TasksAdvance
        BY <1>1, <3>2, <3>3, ReplaceAdvances
      <3> QED
        BY <3>1, <3>4 DEF ChangeSymbol, PhaseAdvances, OnlyOpenStarts, PeerStaysAway
    <2>2. CASE \E s \in Symbols, k \in SymbolStreams, t \in Tasks : Subscribe(k, t, s)
      <3>1. PICK s \in Symbols, k \in SymbolStreams, t \in Tasks : Subscribe(k, t, s)
        BY <2>2
      <3>2. Replace({k}, [x \in {k} |-> t], s) /\ k \in Categories
        BY <3>1 DEF Subscribe, SymbolStreams, Categories
      <3>3. TasksAdvance
        <4>1. [x \in {k} |-> t] \in [{k} -> Tasks]
          OBVIOUS
        <4> QED
          BY <1>1, <3>2, <4>1, ReplaceAdvances
      <3> QED
        BY <3>1, <3>3 DEF Subscribe, PhaseAdvances, OnlyOpenStarts, PeerStaysAway
    <2>3. CASE \E t \in Tasks : SubscribeTop10(t)
      <3>1. PICK t \in Tasks : SubscribeTop10(t)
        BY <2>3
      <3>2. Replace({"top_10"}, [x \in {"top_10"} |-> t], DefaultSymbol)
        BY <3>1 DEF SubscribeTop10
      <3>3. TasksAdvance
        <4>1. [x \in {"top_10"} |-> t] \in [{"top_10"} -> Tasks] /\ {"top_10"} \in SUBSET Categories
          BY DEF Categories
        <4> QED
          BY <1>1, <3>2, <4>1, DefaultIsSymbol, ReplaceAdvances
      <3> QED
        BY <3>1, <3>3 DEF SubscribeTop10, PhaseAdvances, OnlyOpenStarts, PeerStaysAway
    <2>4. CASE \E k \in Categories : Unsubscribe(k)
      <3>1. PICK k \in Categories : Unsubscribe(k)
        BY <2>4
      <3>2. Replace({k}, [x \in {} |-> NoTask], current_symbol) /\ current_symbol \in Symbols
        BY <1>1, <3>1 DEF Unsubscribe, IInv, TypeOK
      <3>3. TasksAdvance
        <4>1. [x \in {} |-> NoTask] \in [{} -> Tasks] /\ {} \in SUBSET {k}
          OBVIOUS
        <4> QED
          BY <1>1, <3>2, <4>1, ReplaceAdvances
      <3> QED
        BY <3>1, <3>3 DEF Unsubscribe, PhaseAdvances, OnlyOpenStarts, PeerStaysAway
    <2>5. CASE \E t \in Tasks : StreamStep(t)
      <3>1. PICK t \in Tasks : StreamStep(t)
        BY <2>5
      <3>2. PICK to : /\ state[t] # "idle" /\ state' = [state EXCEPT ![t] = to]
                      /\ to # state[t] => StepsAhead(to) < StepsAhead(state[t])
        <4>1. CASE StreamStarts(t)
          <5> DEFINE next == IF kind[t] = "top_10" THEN "streaming" ELSE "setup"
          <5>1. state[t] = "created" /\ state' = [state EXCEPT ![t] = next]
            BY <4>1 DEF StreamStarts, StreamMoves
          <5>2. next \in {"streaming", "setup"}
            OBVIOUS
          <5>3. StepsAhead(next) < StepsAhead(state[t])
            <6> HIDE DEF next
            <6> QED
              BY <5>1, <5>2 DEF StepsAhead
          <5> QED
            BY <5>1, <5>3
        <4>2. CASE SetupReturns(t) \/ SetupRaises(t) \/ CleanupEnds(t)
          BY <4>2 DEF SetupReturns, SetupRaises, CleanupEnds, StreamMoves, StepsAhead
        <4>3. CASE StreamRaises(t)
          <5>1. state[t] = "streaming" /\ state' = [state EXCEPT ![t] = AfterRaise(t)]
            BY <4>3 DEF StreamRaises, StreamMoves
          <5>2. AfterRaise(t) # state[t] => StepsAhead(AfterRaise(t)) < StepsAhead(state[t])
            BY <5>1, <2>0, RaisedAdvances
          <5> QED
            BY <5>1, <5>2
        <4> QED
          BY <3>1, <4>1, <4>2, <4>3 DEF StreamStep
      <3>3. TasksAdvance /\ OnlyOpenStarts
        BY <3>2, <1>1 DEF TasksAdvance, OnlyOpenStarts, IInv, TypeOK
      <3>4. UNCHANGED <<client, keepalive, phase>>
        BY <3>1 DEF StreamStep, StreamStarts, SetupReturns, SetupRaises, StreamRaises,
                    CleanupEnds, StreamMoves, session
      <3> QED
        BY <3>3, <3>4 DEF PhaseAdvances, PeerStaysAway
    <2>6. CASE \/ ClientLeaves \/ TokenReceived \/ AuthTimeout \/ TokenMissing
               \/ AuthDisconnects \/ UserFound \/ UserRefused \/ Refused
               \/ Disconnects \/ SessionRaises \/ PingFails \/ Over
      <3>1. state' = state
        BY <2>6 DEF ClientLeaves, TokenReceived, AuthTimeout, TokenMissing, AuthDisconnects,
                    UserFound, UserRefused, Refused, Disconnects, SessionRaises, PingFails, Over,
                    PhaseMoves, streams, vars
      <3>2. PhaseAdvances
        BY <2>6 DEF ClientLeaves, TokenReceived, AuthTimeout, TokenMissing, AuthDisconnects,
                    UserFound, UserRefused, Refused, Disconnects, SessionRaises, PingFails, Over,
                    PhaseMoves, session, vars, PhaseAdvances, PhasesAhead
      <3>3. PeerStaysAway
        BY <2>6 DEF ClientLeaves, TokenReceived, AuthTimeout, TokenMissing, AuthDisconnects,
                    UserFound, UserRefused, Refused, Disconnects, SessionRaises, PingFails, Over,
                    PhaseMoves, vars, PeerStaysAway
      <3> QED
        BY <3>1, <3>2, <3>3 DEF TasksAdvance, OnlyOpenStarts
    <2> QED
      BY <1>1, <2>1, <2>2, <2>3, <2>4, <2>5, <2>6
  <1>2. IInv /\ [Next]_vars => [A]_vars
    BY <1>1
  <1> QED
    BY <1>2, Invariance, PTL DEF Spec, ConnectionRunsDown
=============================================================================
