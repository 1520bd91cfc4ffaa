------------------------ MODULE SymbolWorkers_proofs -------------------------
(***************************************************************************)
(* Proofs about SymbolWorkers, for every finite set of handlers and every  *)
(* set of symbols.  The inductive invariant is IInv: the type invariant,   *)
(* the counter's meaning, and the facts that tie the registered task of a  *)
(* symbol, the active workers and the counter together.                    *)
(***************************************************************************)
EXTENDS SymbolWorkers, FiniteSetTheorems, TLAPS

\* A task that has not run yet has not started a worker.
NoWorkerYet ==
    \A h \in Handlers : pc[h] \in {"idle", "created"} => worker[h] = "none"

\* The task a symbol has registered relays that symbol and is not cancelled.
RegisteredIsActive ==
    \A s \in Symbols : symbol_workers[s] # NoTask =>
        /\ sym[symbol_workers[s]] = s
        /\ worker[symbol_workers[s]] \in Active

\* A symbol has a registered task exactly while it is counted.
RegisteredIffCounted ==
    \A s \in Symbols : symbol_workers[s] # NoTask <=> symbol_subscribers[s] # 0

IInv ==
    /\ TypeOK
    /\ CountMatchesHolders
    /\ NoWorkerYet
    /\ RegisteredIsActive
    /\ RegisteredIffCounted
    /\ OnePublisherPerSymbol

\* The states of a handler whose subscription is not given back.
Held == Holding \cup {"leaked"}

------------------------------------------------------------------------------
(* Facts about Holders.                                                      *)

\* The holders of a symbol are finitely many, so the counter counts them.
LEMMA HoldersFinite ==
    \A s : IsFiniteSet(Holders(s)) /\ Cardinality(Holders(s)) \in Nat
<1> TAKE s
<1>1. Holders(s) \subseteq Handlers
  BY DEF Holders
<1> QED
  BY <1>1, HandlersFinite, FS_Subset, FS_CardinalityType

\* A step that moves no handler into or out of Held and that renames no symbol
\* of a handler in Held leaves every set of holders as it is.
LEMMA HoldersUnchanged ==
    ASSUME \A h \in Handlers : /\ pc'[h] \in Held <=> pc[h] \in Held
                               /\ pc[h] \in Held => sym'[h] = sym[h]
    PROVE  \A s : Holders(s)' = Holders(s)
BY DEF Holders, Held

\* A counter that stays put keeps counting the holders in such a step.
LEMMA CountUnchanged ==
    ASSUME CountMatchesHolders,
           symbol_subscribers' = symbol_subscribers,
           \A h \in Handlers : /\ pc'[h] \in Held <=> pc[h] \in Held
                               /\ pc[h] \in Held => sym'[h] = sym[h]
    PROVE  CountMatchesHolders'
BY HoldersUnchanged DEF CountMatchesHolders

------------------------------------------------------------------------------
(* Init and the steps, one lemma for each kind of step.                      *)

LEMMA InitIInv == Init => IInv
<1> SUFFICES ASSUME Init PROVE IInv
  OBVIOUS
<1>1. TypeOK
  BY NoTaskFresh, NoSymbolFresh DEF Init, TypeOK, HandlerStates, WorkerStates
<1>2. CountMatchesHolders
  <2>1. \A s \in Symbols : Holders(s) = {}
    BY DEF Init, Holders, Holding
  <2> QED
    BY <2>1, FS_EmptySet DEF Init, CountMatchesHolders
<1>3. NoWorkerYet /\ OnePublisherPerSymbol
  BY DEF Init, NoWorkerYet, OnePublisherPerSymbol, Active
<1>4. RegisteredIsActive /\ RegisteredIffCounted
  BY DEF Init, RegisteredIsActive, RegisteredIffCounted
<1> QED
  BY <1>1, <1>2, <1>3, <1>4 DEF IInv

\* A step of a handler that touches neither worker nor registry and keeps the
\* handler on its side of Held.
LEMMA HandlerMoveIInv ==
    ASSUME IInv, NEW h \in Handlers, NEW to \in HandlerStates,
           pc[h] # "idle", to \notin {"idle", "created"},
           pc[h] \in Held <=> to \in Held,
           pc' = [pc EXCEPT ![h] = to],
           cancelled' \in SUBSET Handlers,
           UNCHANGED <<sym, awaits, worker, registry>>
    PROVE  IInv'
<1> USE DEF registry
<1>1. TypeOK'
  BY DEF IInv, TypeOK
<1>2. CountMatchesHolders'
  <2>1. \A g \in Handlers : /\ pc'[g] \in Held <=> pc[g] \in Held
                            /\ pc[g] \in Held => sym'[g] = sym[g]
    BY DEF IInv, TypeOK
  <2> QED
    BY <2>1, CountUnchanged DEF IInv
<1>3. NoWorkerYet'
  BY DEF IInv, TypeOK, NoWorkerYet
<1>4. RegisteredIsActive' /\ RegisteredIffCounted' /\ OnePublisherPerSymbol'
  BY DEF IInv, RegisteredIsActive, RegisteredIffCounted, OnePublisherPerSymbol
<1> QED
  BY <1>1, <1>2, <1>3, <1>4 DEF IInv

\* A worker task moves between two active states, or ends after a cancellation.
LEMMA WorkerMoveIInv ==
    ASSUME IInv, NEW w \in Handlers, NEW from, NEW to,
           WorkerMoves(w, from, to),
           \/ from \in Active /\ to \in Active
           \/ from = "cancelled" /\ to = "done"
    PROVE  IInv'
<1> USE DEF WorkerMoves, registry
<1>1. TypeOK'
  BY DEF IInv, TypeOK, WorkerStates, Active
<1>2. CountMatchesHolders'
  BY CountUnchanged DEF IInv
<1>3. NoWorkerYet'
  BY DEF IInv, TypeOK, NoWorkerYet, Active
<1>4. RegisteredIsActive' /\ RegisteredIffCounted'
  BY DEF IInv, TypeOK, RegisteredIsActive, RegisteredIffCounted, Active
<1>5. OnePublisherPerSymbol'
  BY DEF IInv, TypeOK, OnePublisherPerSymbol, Active
<1> QED
  BY <1>1, <1>2, <1>3, <1>4, <1>5 DEF IInv

\* create_task: the new handler is outside Held, before and after.
LEMMA CreateIInv ==
    ASSUME IInv, NEW h \in Handlers, NEW s \in Symbols, Create(h, s)
    PROVE  IInv'
<1> USE DEF Create, registry
<1>1. TypeOK'
  BY NoSymbolFresh DEF IInv, TypeOK, HandlerStates
<1>2. CountMatchesHolders'
  <2>1. \A g \in Handlers : /\ pc'[g] \in Held <=> pc[g] \in Held
                            /\ pc[g] \in Held => sym'[g] = sym[g]
    BY DEF IInv, TypeOK, Held, Holding
  <2> QED
    BY <2>1, CountUnchanged DEF IInv
<1>3. NoWorkerYet'
  BY DEF IInv, TypeOK, NoWorkerYet
<1>4. worker[h] = "none"
  BY DEF IInv, NoWorkerYet
<1>5. RegisteredIsActive' /\ RegisteredIffCounted' /\ OnePublisherPerSymbol'
  BY <1>4 DEF IInv, TypeOK, RegisteredIsActive, RegisteredIffCounted,
              OnePublisherPerSymbol, Active
<1> QED
  BY <1>1, <1>2, <1>3, <1>5 DEF IInv

\* ensure_symbol_worker: h joins the holders of its symbol, and starts a worker
\* exactly when the symbol had none.
LEMMA BeginIInv ==
    ASSUME IInv, NEW h \in Handlers, Begin(h)
    PROVE  IInv'
<1>0. PICK s \in Symbols : s = sym[h]
  BY DEF Begin, IInv, TypeOK
<1>1. worker[h] = "none"
  BY DEF Begin, IInv, NoWorkerYet
<1>2. symbol_workers[s] # NoTask => worker[symbol_workers[s]] # "done"
  BY DEF IInv, RegisteredIsActive, Active
<1>3. /\ pc' = [pc EXCEPT ![h] = "subscribing"]
      /\ sym' = sym /\ awaits' = awaits /\ cancelled' = cancelled
      /\ symbol_subscribers' = [symbol_subscribers EXCEPT ![s] = @ + 1]
      /\ symbol_workers' = IF symbol_workers[s] # NoTask THEN symbol_workers
                           ELSE [symbol_workers EXCEPT ![s] = h]
      /\ worker' = IF symbol_workers[s] # NoTask THEN worker
                   ELSE [worker EXCEPT ![h] = "scheduled"]
  BY <1>0, <1>2 DEF Begin, EnsureSymbolWorker
<1>4. TypeOK'
  BY <1>3 DEF IInv, TypeOK, HandlerStates, Holding, WorkerStates, Active, Begin
<1>5. CountMatchesHolders'
  <2>1. Holders(s)' = Holders(s) \cup {h} /\ h \notin Holders(s)
    BY <1>0, <1>3 DEF IInv, TypeOK, Begin, Holders, Holding
  <2>2. \A r \in Symbols \ {s} : Holders(r)' = Holders(r)
    BY <1>0, <1>3 DEF IInv, TypeOK, Begin, Holders, Holding
  <2>3. Cardinality(Holders(s)') = Cardinality(Holders(s)) + 1
    BY <2>1, HoldersFinite, FS_AddElement
  <2> QED
    BY <1>3, <2>2, <2>3 DEF IInv, TypeOK, CountMatchesHolders
<1>6. NoWorkerYet'
  BY <1>3 DEF IInv, TypeOK, NoWorkerYet
<1>7. RegisteredIsActive'
  BY <1>0, <1>1, <1>3 DEF IInv, TypeOK, RegisteredIsActive, Active
<1>8. RegisteredIffCounted'
  BY <1>3, NoTaskFresh DEF IInv, TypeOK, RegisteredIffCounted
<1>9. OnePublisherPerSymbol'
  <2> SUFFICES ASSUME NEW w \in Handlers, worker'[w] \in Active
               PROVE  symbol_workers'[sym[w]] = w
    BY <1>3 DEF OnePublisherPerSymbol
  <2>1. CASE symbol_workers[s] # NoTask
    BY <2>1, <1>3 DEF IInv, OnePublisherPerSymbol
  <2>2. CASE symbol_workers[s] = NoTask /\ w = h
    BY <2>2, <1>0, <1>3 DEF IInv, TypeOK
  <2>3. CASE symbol_workers[s] = NoTask /\ w # h
    <3>1. worker[w] \in Active /\ symbol_workers[sym[w]] = w
      BY <2>3, <1>3 DEF IInv, TypeOK, OnePublisherPerSymbol
    <3>2. sym[w] # s
      BY <2>3, <3>1, NoTaskFresh
    <3> QED
      BY <2>3, <1>3, <3>1, <3>2 DEF IInv, TypeOK
  <2> QED
    BY <2>1, <2>2, <2>3
<1> QED
  BY <1>4, <1>5, <1>6, <1>7, <1>8, <1>9 DEF IInv

\* A handler that ends its subscription leaves the holders of its symbol and
\* nobody else's, so the count goes down by one.
LEMMA ReleaseHolders ==
    ASSUME IInv, NEW h \in Handlers, NEW s \in Symbols,
           pc[h] = "closing", sym[h] = s,
           NEW to \in {"stopping", "done"},
           pc' = [pc EXCEPT ![h] = to], sym' = sym
    PROVE  /\ symbol_subscribers[s] \in Nat \ {0}
           /\ Cardinality(Holders(s)') = symbol_subscribers[s] - 1
           /\ \A r \in Symbols \ {s} : Holders(r)' = Holders(r)
<1>1. h \in Holders(s) /\ Holders(s)' = Holders(s) \ {h}
  BY DEF IInv, TypeOK, Holders, Holding
<1>2. \A r \in Symbols \ {s} : Holders(r)' = Holders(r)
  BY DEF IInv, TypeOK, Holders, Holding
<1>3. Cardinality(Holders(s)') = Cardinality(Holders(s)) - 1
  BY <1>1, HoldersFinite, FS_RemoveElement
<1>4. Cardinality(Holders(s)) # 0
  BY <1>1, HoldersFinite, FS_EmptySet
<1>5. symbol_subscribers[s] = Cardinality(Holders(s))
  BY DEF IInv, CountMatchesHolders
<1> QED
  BY <1>2, <1>3, <1>4, <1>5, HoldersFinite

\* remove_symbol_subscriber by a handler that is not the last: a count of at
\* least one remains, and with it the registered worker.
LEMMA DropSubscriberIInv ==
    ASSUME IInv, NEW h \in Handlers, Release(h), ~IsLast(sym[h])
    PROVE  IInv'
<1>0. PICK s \in Symbols : s = sym[h]
  BY DEF Release, IInv, TypeOK
<1>1. /\ pc[h] = "closing" /\ pc' = [pc EXCEPT ![h] = "done"]
      /\ symbol_subscribers' =
             [symbol_subscribers EXCEPT ![s] = IF @ = 0 THEN 0 ELSE @ - 1]
      /\ UNCHANGED <<sym, awaits, cancelled, worker, symbol_workers>>
  BY <1>0 DEF Release, RemoveSubscriber, DropSubscriber
<1>2. /\ symbol_subscribers[s] \in Nat \ {0}
      /\ Cardinality(Holders(s)') = symbol_subscribers[s] - 1
      /\ \A r \in Symbols \ {s} : Holders(r)' = Holders(r)
  BY <1>0, <1>1, ReleaseHolders
<1>3. symbol_subscribers[s] # 1
  BY <1>0 DEF IsLast
<1>4. symbol_subscribers' = [symbol_subscribers EXCEPT ![s] = symbol_subscribers[s] - 1]
  BY <1>1, <1>2
<1>5. TypeOK'
  BY <1>1, <1>2, <1>4 DEF IInv, TypeOK, HandlerStates
<1>6. CountMatchesHolders'
  BY <1>2, <1>4 DEF IInv, TypeOK, CountMatchesHolders
<1>7. RegisteredIffCounted'
  BY <1>1, <1>2, <1>3, <1>4 DEF IInv, TypeOK, RegisteredIffCounted
<1>8. NoWorkerYet' /\ RegisteredIsActive' /\ OnePublisherPerSymbol'
  BY <1>1 DEF IInv, TypeOK, NoWorkerYet, RegisteredIsActive, OnePublisherPerSymbol
<1> QED
  BY <1>5, <1>6, <1>7, <1>8 DEF IInv

\* remove_symbol_subscriber by the last handler: the registered worker is the
\* only active one of the symbol, and it is cancelled as it is unregistered.
LEMMA DropLastIInv ==
    ASSUME IInv, NEW h \in Handlers, Release(h), IsLast(sym[h])
    PROVE  IInv'
<1>0. PICK s \in Symbols : s = sym[h]
  BY DEF Release, IInv, TypeOK
<1>1. symbol_subscribers[s] = 1
  BY <1>0 DEF IsLast
<1>2. PICK task \in Handlers : /\ task = symbol_workers[s] /\ task # NoTask
                              /\ sym[task] = s /\ worker[task] \in Active
  BY <1>1 DEF IInv, TypeOK, RegisteredIffCounted, RegisteredIsActive
<1>3. /\ pc[h] = "closing" /\ pc' = [pc EXCEPT ![h] = "stopping"]
      /\ awaits' = [awaits EXCEPT ![h] = task]
      /\ worker' = [worker EXCEPT ![task] = "cancelled"]
      /\ symbol_subscribers' = [symbol_subscribers EXCEPT ![s] = 0]
      /\ symbol_workers' = [symbol_workers EXCEPT ![s] = NoTask]
      /\ UNCHANGED <<sym, cancelled>>
  BY <1>0, <1>1, <1>2
     DEF Release, RemoveSubscriber, DropLastSubscriber, StopSymbolWorker, IsLast, Active
<1>4. /\ Cardinality(Holders(s)') = 0
      /\ \A r \in Symbols \ {s} : Holders(r)' = Holders(r)
  <2>1. /\ Cardinality(Holders(s)') = symbol_subscribers[s] - 1
        /\ \A r \in Symbols \ {s} : Holders(r)' = Holders(r)
    BY <1>0, <1>3, ReleaseHolders
  <2> QED
    BY <1>1, <2>1
<1>5. TypeOK'
  BY <1>3 DEF IInv, TypeOK, HandlerStates, WorkerStates
<1>6. CountMatchesHolders'
  BY <1>3, <1>4 DEF IInv, TypeOK, CountMatchesHolders
<1>7. NoWorkerYet'
  <2>1. pc[task] \notin {"idle", "created"}
    BY <1>2 DEF IInv, NoWorkerYet, Active
  <2> QED
    BY <1>3, <2>1 DEF IInv, TypeOK, NoWorkerYet
<1>8. RegisteredIsActive'
  <2> SUFFICES ASSUME NEW r \in Symbols, symbol_workers'[r] # NoTask
               PROVE  /\ sym[symbol_workers'[r]] = r
                      /\ worker'[symbol_workers'[r]] \in Active
    BY <1>3 DEF RegisteredIsActive
  <2>1. r # s /\ symbol_workers'[r] = symbol_workers[r]
    BY <1>3 DEF IInv, TypeOK
  <2>2. sym[symbol_workers[r]] = r /\ worker[symbol_workers[r]] \in Active
    BY <2>1 DEF IInv, RegisteredIsActive
  <2>3. symbol_workers[r] # task
    BY <1>2, <2>1, <2>2
  <2> QED
    BY <1>3, <2>1, <2>2, <2>3 DEF IInv, TypeOK
<1>9. RegisteredIffCounted'
  BY <1>3 DEF IInv, TypeOK, RegisteredIffCounted
<1>10. OnePublisherPerSymbol'
  <2> SUFFICES ASSUME NEW w \in Handlers, worker'[w] \in Active
               PROVE  symbol_workers'[sym[w]] = w
    BY <1>3 DEF OnePublisherPerSymbol
  <2>1. w # task /\ worker[w] \in Active
    BY <1>3 DEF IInv, TypeOK, Active
  <2>2. symbol_workers[sym[w]] = w
    BY <2>1 DEF IInv, OnePublisherPerSymbol
  <2>3. sym[w] # s
    BY <1>2, <2>1, <2>2
  <2> QED
    BY <1>3, <2>2, <2>3 DEF IInv, TypeOK
<1> QED
  BY <1>5, <1>6, <1>7, <1>8, <1>9, <1>10 DEF IInv

------------------------------------------------------------------------------
(* The invariant is inductive.                                               *)

LEMMA HandlerStepIInv ==
    ASSUME IInv, NEW h \in Handlers, HandlerStep(h) \/ Cancel(h)
    PROVE  IInv'
<1>1. CASE Begin(h)
  BY <1>1, BeginIInv
<1>2. CASE Subscribed(h)
  BY <1>2, HandlerMoveIInv DEF Subscribed, HandlerStates, Holding, Held, IInv, TypeOK
<1>3. CASE Raise(h)
  BY <1>3, HandlerMoveIInv
     DEF Raise, AfterRaise, HandlerStates, Holding, Held, IInv, TypeOK
<1>4. CASE Unsubscribed(h)
  BY <1>4, HandlerMoveIInv DEF Unsubscribed, HandlerStates, Holding, Held, IInv, TypeOK
<1>5. CASE Release(h)
  BY <1>5, DropSubscriberIInv, DropLastIInv
<1>6. CASE WorkerStopped(h)
  BY <1>6, HandlerMoveIInv DEF WorkerStopped, HandlerStates, Holding, Held, IInv, TypeOK
<1>7. CASE Cancel(h)
  <2>1. AfterRaise(pc[h]) \in HandlerStates \ {"idle", "created"}
    BY <1>7 DEF Cancel, AfterRaise, HandlerStates, Holding, IInv, TypeOK
  <2>2. pc[h] \in Held <=> AfterRaise(pc[h]) \in Held
    BY <1>7 DEF Cancel, AfterRaise, HandlerStates, Holding, Held, IInv, TypeOK
  <2>3. cancelled' \in SUBSET Handlers
    BY <1>7 DEF Cancel, IInv, TypeOK
  <2> QED
    BY <1>7, <2>1, <2>2, <2>3, HandlerMoveIInv DEF Cancel
<1> QED
  BY <1>1, <1>2, <1>3, <1>4, <1>5, <1>6, <1>7 DEF HandlerStep

LEMMA WorkerStepIInv ==
    ASSUME IInv, NEW w \in Handlers, WorkerStep(w)
    PROVE  IInv'
<1>1. \E from, to : /\ WorkerMoves(w, from, to)
                    /\ \/ from \in Active /\ to \in Active
                       \/ from = "cancelled" /\ to = "done"
  BY DEF WorkerStep, WorkerStarts, WorkerConnects, WorkerFails, WorkerDisconnects,
         WorkerRetries, WorkerEnds, Active
<1> QED
  BY <1>1, WorkerMoveIInv

LEMMA NextIInv == IInv /\ [Next]_vars => IInv'
<1> SUFFICES ASSUME IInv, [Next]_vars PROVE IInv'
  OBVIOUS
<1>1. CASE UNCHANGED vars
  <2>1. TypeOK' /\ NoWorkerYet' /\ RegisteredIsActive' /\ RegisteredIffCounted'
    BY <1>1 DEF vars, IInv, TypeOK, NoWorkerYet, RegisteredIsActive, RegisteredIffCounted
  <2>2. CountMatchesHolders' /\ OnePublisherPerSymbol'
    BY <1>1, CountUnchanged DEF vars, IInv, OnePublisherPerSymbol
  <2> QED
    BY <2>1, <2>2 DEF IInv
<1>2. ASSUME NEW h \in Handlers, NEW s \in Symbols, Create(h, s) PROVE IInv'
  BY <1>2, CreateIInv
<1>3. ASSUME NEW h \in Handlers, HandlerStep(h) \/ Cancel(h) PROVE IInv'
  BY <1>3, HandlerStepIInv
<1>4. ASSUME NEW w \in Handlers, WorkerStep(w) PROVE IInv'
  BY <1>4, WorkerStepIInv
<1> QED
  BY <1>1, <1>2, <1>3, <1>4 DEF Next, Quiet

\* IInv holds in every reachable state of SymbolWorkers, and with it TypeOK,
\* CountMatchesHolders and OnePublisherPerSymbol.
THEOREM Invariance == Spec => []IInv
BY InitIInv, NextIInv, PTL DEF Spec

\* Every reachable state is well typed.
THEOREM TypeCorrect == Spec => []TypeOK
<1>1. IInv => TypeOK
  BY DEF IInv
<1> QED
  BY <1>1, Invariance, PTL

\* The counter of a symbol (coinbase_worker.py:16) is the number of handlers
\* that took a subscription and have not given it back.
THEOREM CountCorrect == Spec => []CountMatchesHolders
<1>1. IInv => CountMatchesHolders
  BY DEF IInv
<1> QED
  BY <1>1, Invariance, PTL

\* The registry never lets two workers publish for one symbol: any worker that
\* is not cancelled is the registered one.
THEOREM SinglePublisher == Spec => []OnePublisherPerSymbol
<1>1. IInv => OnePublisherPerSymbol
  BY DEF IInv
<1> QED
  BY <1>1, Invariance, PTL

\* A handler that holds a subscription makes the counter positive, so a worker
\* of its own symbol is registered and active.
THEOREM HoldersServed == Spec => []HoldersAreServed
<1>1. IInv => HoldersAreServed
  <2> SUFFICES ASSUME IInv, NEW h \in Handlers, pc[h] \in Holding
               PROVE  LET task == symbol_workers[sym[h]]
                      IN  task # NoTask /\ sym[task] = sym[h] /\ worker[task] \in Active
    BY DEF HoldersAreServed
  <2>1. sym[h] \in Symbols /\ h \in Holders(sym[h])
    BY DEF IInv, TypeOK, Holders, Holding
  <2>2. symbol_subscribers[sym[h]] # 0
    BY <2>1, HoldersFinite, FS_EmptySet DEF IInv, CountMatchesHolders
  <2> QED
    BY <2>1, <2>2 DEF IInv, RegisteredIffCounted, RegisteredIsActive
<1> QED
  BY <1>1, Invariance, PTL

------------------------------------------------------------------------------
(* The registry implements the lease.                                        *)

\* The registered task of a symbol is its one publisher.
RegisteredPublishes ==
    \A s \in Symbols :
        Cardinality(Publishers(s)) = IF symbol_workers[s] = NoTask THEN 0 ELSE 1

LEMMA PublisherCount == IInv => RegisteredPublishes
<1> SUFFICES ASSUME IInv, NEW s \in Symbols
             PROVE  Cardinality(Publishers(s)) = IF symbol_workers[s] = NoTask THEN 0 ELSE 1
  BY DEF RegisteredPublishes
<1>1. CASE symbol_workers[s] = NoTask
  <2>1. Publishers(s) = {}
    BY <1>1, NoTaskFresh DEF Publishers, IInv, OnePublisherPerSymbol
  <2> QED
    BY <1>1, <2>1, FS_EmptySet
<1>2. CASE symbol_workers[s] # NoTask
  <2>1. Publishers(s) = {symbol_workers[s]}
    BY <1>2 DEF Publishers, IInv, TypeOK, OnePublisherPerSymbol, RegisteredIsActive
  <2> QED
    BY <1>2, <2>1, FS_Singleton
<1> QED
  BY <1>1, <1>2

LEMMA LeaseInit == Init => Lease!Init
<1> SUFFICES ASSUME Init PROVE Lease!Init
  OBVIOUS
<1>1. IInv
  BY InitIInv
<1>2. \A s \in Symbols : Holders(s) = {}
  BY DEF Init, Holders, Holding
<1>3. \A s \in Symbols : Cardinality(Publishers(s)) = 0
  BY <1>1, PublisherCount DEF Init, RegisteredPublishes
<1> QED
  BY <1>2, <1>3 DEF Lease!Init

\* A step that leaves the holders and the registered tasks alone is a stutter
\* of the lease.
LEMMA LeaseStutters ==
    ASSUME IInv, IInv', symbol_workers' = symbol_workers,
           \A s \in Symbols : Holders(s)' = Holders(s)
    PROVE  UNCHANGED <<[s \in Symbols |-> Holders(s)],
                       [s \in Symbols |-> Cardinality(Publishers(s))]>>
<1>1. (IInv => RegisteredPublishes)'
  BY PublisherCount, PTL
<1>2. \A s \in Symbols : Cardinality(Publishers(s))' = Cardinality(Publishers(s))
  BY <1>1, PublisherCount DEF RegisteredPublishes
<1> QED
  BY <1>2

\* ensure_symbol_worker is Take: whether it starts a worker or shares one, the
\* symbol has one publisher afterwards.
LEMMA BeginTakes ==
    ASSUME IInv, IInv', NEW h \in Handlers, Begin(h)
    PROVE  Lease!Next
<1>0. PICK s \in Symbols : s = sym[h]
  BY DEF Begin, IInv, TypeOK
<1>1. (IInv => RegisteredPublishes)'
  BY PublisherCount, PTL
<1>2. \A r \in Symbols : h \notin Holders(r)
  BY DEF Begin, Holders, Holding
<1>3. Holders(s)' = Holders(s) \cup {h}
  BY <1>0 DEF Begin, IInv, TypeOK, Holders, Holding
<1>4. \A r \in Symbols \ {s} : Holders(r)' = Holders(r)
  BY <1>0 DEF Begin, IInv, TypeOK, Holders, Holding
<1>5. \A r \in Symbols \ {s} : symbol_workers'[r] = symbol_workers[r]
  BY <1>0 DEF Begin, EnsureSymbolWorker, IInv, TypeOK
<1>6. symbol_workers'[s] # NoTask
  BY <1>0, NoTaskFresh DEF Begin, EnsureSymbolWorker, IInv, TypeOK
<1>7. Cardinality(Publishers(s))' = 1
  BY <1>1, <1>6 DEF RegisteredPublishes
<1>8. \A r \in Symbols \ {s} : Cardinality(Publishers(r))' = Cardinality(Publishers(r))
  BY <1>1, <1>5, PublisherCount DEF RegisteredPublishes
<1>9. Lease!Take(h, s)
  BY <1>2, <1>3, <1>4, <1>7, <1>8 DEF Lease!Take
<1> QED
  BY <1>9 DEF Lease!Next

\* remove_symbol_subscriber is Return: it stops the publisher exactly when the
\* handler is the only holder left.
LEMMA ReleaseReturns ==
    ASSUME IInv, IInv', NEW h \in Handlers, Release(h)
    PROVE  Lease!Next
<1>0. PICK s \in Symbols : s = sym[h]
  BY DEF Release, IInv, TypeOK
<1>1. (IInv => RegisteredPublishes)'
  BY PublisherCount, PTL
<1>2. PICK to \in {"stopping", "done"} : pc' = [pc EXCEPT ![h] = to]
  BY DEF Release, RemoveSubscriber, DropLastSubscriber, StopSymbolWorker, DropSubscriber
<1>3. pc[h] = "closing" /\ sym' = sym
  BY DEF Release
<1>4. h \in Holders(s) /\ Holders(s)' = Holders(s) \ {h}
  BY <1>0, <1>2, <1>3 DEF IInv, TypeOK, Holders, Holding
<1>5. \A r \in Symbols \ {s} : Holders(r)' = Holders(r)
  BY <1>0, <1>2, <1>3 DEF IInv, TypeOK, Holders, Holding
<1>6. \A r \in Symbols \ {s} : symbol_workers'[r] = symbol_workers[r]
  BY <1>0 DEF Release, RemoveSubscriber, DropLastSubscriber, StopSymbolWorker,
              DropSubscriber, IInv, TypeOK
<1>7. \A r \in Symbols \ {s} : Cardinality(Publishers(r))' = Cardinality(Publishers(r))
  BY <1>1, <1>6, PublisherCount DEF RegisteredPublishes
<1>8. symbol_subscribers[s] = Cardinality(Holders(s))
  BY DEF IInv, CountMatchesHolders
<1>9. IsLast(s) <=> Holders(s) = {h}
  BY <1>4, <1>8, HoldersFinite, FS_Singleton DEF IsLast
<1>10. Cardinality(Publishers(s))' =
           IF Holders(s) = {h} THEN 0 ELSE Cardinality(Publishers(s))
  <2>1. CASE IsLast(s)
    <3>1. symbol_workers'[s] = NoTask
      BY <1>0, <2>1 DEF Release, RemoveSubscriber, DropLastSubscriber, StopSymbolWorker,
                        IInv, TypeOK
    <3> QED
      BY <1>1, <1>9, <2>1, <3>1 DEF RegisteredPublishes
  <2>2. CASE ~IsLast(s)
    <3>1. symbol_workers' = symbol_workers
      BY <1>0, <2>2 DEF Release, RemoveSubscriber, DropSubscriber
    <3> QED
      BY <1>1, <1>9, <2>2, <3>1, PublisherCount DEF RegisteredPublishes
  <2> QED
    BY <2>1, <2>2
<1>11. Lease!Return(h, s)
  BY <1>4, <1>5, <1>7, <1>10 DEF Lease!Return
<1> QED
  BY <1>11 DEF Lease!Next

\* Every other step of a handler keeps it on its side of Held.
LEMMA OtherHandlerStepsStutter ==
    ASSUME IInv, NEW h \in Handlers,
           \/ Subscribed(h) \/ Raise(h) \/ Unsubscribed(h) \/ WorkerStopped(h)
           \/ Cancel(h) \/ \E s \in Symbols : Create(h, s)
    PROVE  /\ symbol_workers' = symbol_workers
           /\ \A s : Holders(s)' = Holders(s)
<1>1. symbol_workers' = symbol_workers
  BY DEF Subscribed, Raise, Unsubscribed, WorkerStopped, Cancel, Create, registry
<1>2. \A g \in Handlers : /\ pc'[g] \in Held <=> pc[g] \in Held
                          /\ pc[g] \in Held => sym'[g] = sym[g]
  BY DEF Subscribed, Raise, Unsubscribed, WorkerStopped, Cancel, Create, AfterRaise,
         IInv, TypeOK, HandlerStates, Holding, Held
<1> QED
  BY <1>1, <1>2, HoldersUnchanged

LEMMA LeaseStep ==
    IInv /\ IInv' /\ [Next]_vars =>
        [Lease!Next]_<<[s \in Symbols |-> Holders(s)],
                       [s \in Symbols |-> Cardinality(Publishers(s))]>>
<1> SUFFICES ASSUME IInv, IInv', [Next]_vars
             PROVE  [Lease!Next]_<<[s \in Symbols |-> Holders(s)],
                                   [s \in Symbols |-> Cardinality(Publishers(s))]>>
  OBVIOUS
<1>1. CASE \E h \in Handlers : Begin(h)
  BY <1>1, BeginTakes
<1>2. CASE \E h \in Handlers : Release(h)
  BY <1>2, ReleaseReturns
<1>3. CASE \E h \in Handlers :
              \/ Subscribed(h) \/ Raise(h) \/ Unsubscribed(h) \/ WorkerStopped(h)
              \/ Cancel(h) \/ \E s \in Symbols : Create(h, s)
  BY <1>3, OtherHandlerStepsStutter, LeaseStutters
<1>4. CASE (\E w \in Handlers : WorkerStep(w)) \/ UNCHANGED vars
  <2>1. pc' = pc /\ sym' = sym /\ symbol_workers' = symbol_workers
    BY <1>4 DEF WorkerStep, WorkerStarts, WorkerConnects, WorkerFails, WorkerDisconnects,
                WorkerRetries, WorkerEnds, WorkerMoves, registry, vars
  <2> QED
    BY <2>1, HoldersUnchanged, LeaseStutters
<1> QED
  BY <1>1, <1>2, <1>3, <1>4 DEF Next, HandlerStep, Quiet

\* The counters and tasks of coinbase_worker.py implement the lease of
\* FeedLease: one publisher while the lease of a symbol is held, none otherwise.
THEOREM LeaseImplemented == Spec => ImplementsLease
<1>1. Init => Lease!Init
  BY LeaseInit
<1>2. IInv /\ IInv' /\ [Next]_vars =>
          [Lease!Next]_<<[s \in Symbols |-> Holders(s)],
                         [s \in Symbols |-> Cardinality(Publishers(s))]>>
  BY LeaseStep
<1> QED
  BY <1>1, <1>2, Invariance, PTL DEF Spec, ImplementsLease, Lease!Spec

------------------------------------------------------------------------------
(* Handlers end: nobody waits for a worker that was not told to end.         *)

\* How many steps a handler is from its end at most.
Ahead(state) ==
    CASE state = "created" -> 6
      [] state = "subscribing" -> 5
      [] state = "listening" -> 4
      [] state = "unsubscribing" -> 3
      [] state = "closing" -> 2
      [] state = "stopping" -> 1
      [] state \in {"done", "leaked"} -> 0

\* Neither failures nor cancellations send a handler back: it takes six steps at
\* most, and waits longer only to listen (market_price.py:18-45).
HandlersRunDown ==
    [][\A h \in Handlers : pc[h] # "idle" /\ pc'[h] # pc[h] => Ahead(pc'[h]) < Ahead(pc[h])]_vars

\* A step of a handler that stays away from the workers and from "stopping".
LEMMA MoveWaits ==
    ASSUME IInv, WaitsEnd, NEW h \in Handlers, NEW to \in HandlerStates,
           pc[h] # "stopping", to # "stopping",
           pc' = [pc EXCEPT ![h] = to],
           h \in cancelled' => to \in {"unsubscribing", "closing", "done", "leaked"},
           cancelled' \subseteq cancelled \cup {h},
           UNCHANGED <<sym, awaits, worker>>
    PROVE  WaitsEnd'
<1> USE DEF WaitsEnd, IInv, TypeOK
<1>1. \A g \in Handlers : pc'[g] = "stopping" <=> pc[g] = "stopping"
  OBVIOUS
<1>2. StopsWaitForCancelled' /\ StopsWaitAlone' /\ CancelledIsAwaited'
  BY <1>1 DEF StopsWaitForCancelled, StopsWaitAlone, CancelledIsAwaited
<1>3. CancelledLeaves'
  BY DEF CancelledLeaves
<1> QED
  BY <1>2, <1>3

\* Taking a subscription: a new task has no worker that anyone could wait for.
LEMMA TakeWaits ==
    ASSUME IInv, WaitsEnd, NEW h \in Handlers, Begin(h) \/ \E s \in Symbols : Create(h, s)
    PROVE  WaitsEnd'
<1> USE DEF WaitsEnd, IInv, TypeOK
<1>1. /\ pc[h] \in {"idle", "created"} /\ worker[h] = "none" /\ h \notin cancelled
      /\ cancelled' = cancelled /\ awaits' = awaits
  BY DEF Begin, Create, NoWorkerYet, CancelledLeaves
<1>2. /\ \A g \in Handlers \ {h} : pc'[g] = pc[g] /\ sym'[g] = sym[g] /\ worker'[g] = worker[g]
      /\ pc'[h] \in {"created", "subscribing"} /\ worker'[h] # "cancelled"
  BY <1>1 DEF Begin, Create, EnsureSymbolWorker
<1>3. \A g \in Handlers : pc[g] = "stopping" => awaits[g] # h
  BY <1>1 DEF StopsWaitForCancelled
<1>4. StopsWaitForCancelled' /\ StopsWaitAlone'
  BY <1>1, <1>2, <1>3 DEF StopsWaitForCancelled, StopsWaitAlone
<1>5. CancelledIsAwaited' /\ CancelledLeaves'
  BY <1>1, <1>2 DEF CancelledIsAwaited, CancelledLeaves
<1> QED
  BY <1>4, <1>5

\* Giving a subscription back: the worker that is stopped was still active, so no
\* other handler waits for it.
LEMMA ReleaseWaits ==
    ASSUME IInv, WaitsEnd, NEW h \in Handlers, Release(h)
    PROVE  WaitsEnd'
<1> USE DEF WaitsEnd, IInv, TypeOK
<1>0. PICK s \in Symbols : s = sym[h]
  BY DEF Release
<1>1. pc[h] = "closing" /\ UNCHANGED <<sym, cancelled>>
  BY DEF Release
<1>2. CASE pc' = [pc EXCEPT ![h] = "done"] /\ UNCHANGED <<worker, awaits>>
  BY <1>1, <1>2, MoveWaits DEF HandlerStates, Holding
<1>3. CASE /\ symbol_workers[s] # NoTask
           /\ worker' = [worker EXCEPT ![symbol_workers[s]] = "cancelled"]
           /\ awaits' = [awaits EXCEPT ![h] = symbol_workers[s]]
           /\ pc' = [pc EXCEPT ![h] = "stopping"]
  <2>1. PICK w \in Handlers : w = symbol_workers[s]
    BY <1>3
  <2>2. worker[w] \in Active /\ sym[w] = s
    BY <1>3, <2>1 DEF RegisteredIsActive
  <2>3. \A g \in Handlers : pc[g] = "stopping" => awaits[g] # w
    BY <2>2 DEF StopsWaitForCancelled, Active
  <2>4. /\ \A g \in Handlers \ {h} : pc'[g] = pc[g] /\ awaits'[g] = awaits[g]
        /\ pc'[h] = "stopping" /\ awaits'[h] = w
        /\ \A g \in Handlers \ {w} : worker'[g] = worker[g]
        /\ worker'[w] = "cancelled"
    BY <1>3, <2>1
  <2>5. StopsWaitForCancelled'
    BY <1>0, <1>1, <2>2, <2>4 DEF StopsWaitForCancelled
  <2>6. StopsWaitAlone'
    BY <2>3, <2>4 DEF StopsWaitAlone
  <2>7. CancelledIsAwaited'
    BY <1>1, <2>4 DEF CancelledIsAwaited
  <2>8. CancelledLeaves'
    BY <1>1, <2>4 DEF CancelledLeaves
  <2> QED
    BY <2>5, <2>6, <2>7, <2>8
<1> QED
  BY <1>0, <1>2, <1>3 DEF Release, RemoveSubscriber, DropSubscriber, DropLastSubscriber, StopSymbolWorker

\* "await task" returns after the worker has ended: no cancelled worker loses the
\* handler that waits for it.
LEMMA StoppedWaits ==
    ASSUME IInv, WaitsEnd, NEW h \in Handlers, WorkerStopped(h)
    PROVE  WaitsEnd'
<1> USE DEF WaitsEnd, IInv, TypeOK, WorkerStopped
<1>1. /\ \A g \in Handlers \ {h} : pc'[g] = pc[g]
      /\ pc'[h] = "done" /\ worker[awaits[h]] = "done"
      /\ UNCHANGED <<sym, awaits, worker, cancelled>>
  OBVIOUS
<1>2. StopsWaitForCancelled' /\ StopsWaitAlone'
  BY <1>1 DEF StopsWaitForCancelled, StopsWaitAlone
<1>3. CancelledIsAwaited'
  BY <1>1 DEF CancelledIsAwaited
<1>4. CancelledLeaves'
  BY <1>1 DEF CancelledLeaves
<1> QED
  BY <1>2, <1>3, <1>4

\* A cancelled worker can only end, and the others are awaited by nobody.
LEMMA WorkerWaits ==
    ASSUME IInv, WaitsEnd, NEW w \in Handlers, WorkerStep(w)
    PROVE  WaitsEnd'
<1> USE DEF WaitsEnd, IInv, TypeOK
<1>1. /\ UNCHANGED <<pc, sym, awaits, cancelled>>
      /\ \A v \in Handlers \ {w} : worker'[v] = worker[v]
      /\ worker'[w] # "cancelled"
      /\ worker[w] \in {"cancelled", "done"} => worker'[w] = "done"
  BY DEF WorkerStep, WorkerStarts, WorkerConnects, WorkerFails, WorkerDisconnects, WorkerRetries,
         WorkerEnds, WorkerMoves
<1>2. StopsWaitForCancelled'
  BY <1>1 DEF StopsWaitForCancelled
<1>3. StopsWaitAlone' /\ CancelledLeaves'
  BY <1>1 DEF StopsWaitAlone, CancelledLeaves
<1>4. CancelledIsAwaited'
  BY <1>1 DEF CancelledIsAwaited
<1> QED
  BY <1>2, <1>3, <1>4

\* Whichever handlers share, hand over, fail and are cancelled: who waits for a
\* worker waits for one that ends, and alone.
THEOREM NoDeadlock == Spec => []WaitsEnd
<1>1. Init => WaitsEnd
  BY DEF Init, WaitsEnd, StopsWaitForCancelled, StopsWaitAlone, CancelledIsAwaited, CancelledLeaves
<1>2. IInv /\ WaitsEnd /\ [Next]_vars => WaitsEnd'
  <2> SUFFICES ASSUME IInv, WaitsEnd, [Next]_vars PROVE WaitsEnd'
    OBVIOUS
  <2>1. ASSUME NEW h \in Handlers, NEW s \in Symbols, Create(h, s) PROVE WaitsEnd'
    BY <2>1, TakeWaits
  <2>2. ASSUME NEW h \in Handlers, Cancel(h) PROVE WaitsEnd'
    <3>1. CASE pc[h] = "stopping"
      <4>1. UNCHANGED <<pc, sym, awaits, worker>> /\ cancelled' = cancelled \cup {h}
        BY <2>2, <3>1 DEF Cancel, AfterRaise, IInv, TypeOK
      <4>2. StopsWaitForCancelled' /\ StopsWaitAlone' /\ CancelledIsAwaited'
        BY <4>1 DEF WaitsEnd, StopsWaitForCancelled, StopsWaitAlone, CancelledIsAwaited
      <4>3. CancelledLeaves'
        BY <3>1, <4>1 DEF WaitsEnd, CancelledLeaves
      <4> QED
        BY <4>2, <4>3 DEF WaitsEnd
    <3>2. CASE pc[h] # "stopping"
      <4>1. PICK to : to = AfterRaise(pc[h])
        OBVIOUS
      <4>2. to \in {"unsubscribing", "done", "leaked"}
        BY <2>2, <3>2, <4>1 DEF Cancel, AfterRaise, IInv, TypeOK, HandlerStates, Holding
      <4>3. /\ pc' = [pc EXCEPT ![h] = to] /\ cancelled' = cancelled \cup {h}
            /\ UNCHANGED <<sym, awaits, worker>>
        BY <2>2, <4>1 DEF Cancel
      <4> QED
        BY <3>2, <4>2, <4>3, MoveWaits DEF HandlerStates, Holding
    <3> QED
      BY <3>1, <3>2
  <2>3. ASSUME NEW h \in Handlers, HandlerStep(h) PROVE WaitsEnd'
    <3>1. CASE Subscribed(h) \/ Raise(h) \/ Unsubscribed(h)
      <4>1. pc[h] \in Holding /\ UNCHANGED <<sym, awaits, worker, cancelled>>
        BY <3>1 DEF Subscribed, Raise, Unsubscribed, Holding
      <4>2. PICK to \in {"listening", "unsubscribing", "closing", "leaked"} :
                /\ pc' = [pc EXCEPT ![h] = to]
                /\ pc[h] \in {"unsubscribing", "closing"} => to \in {"closing", "leaked"}
        BY <3>1 DEF Subscribed, Raise, Unsubscribed, AfterRaise, Holding
      <4>3. h \in cancelled => pc[h] \in {"unsubscribing", "closing"}
        BY <4>1 DEF WaitsEnd, CancelledLeaves, Holding
      <4> QED
        BY <4>1, <4>2, <4>3, MoveWaits DEF HandlerStates, Holding
    <3> QED
      BY <2>3, <3>1, TakeWaits, ReleaseWaits, StoppedWaits DEF HandlerStep
  <2>4. CASE UNCHANGED vars
    BY <2>4 DEF vars, WaitsEnd, StopsWaitForCancelled, StopsWaitAlone, CancelledIsAwaited, CancelledLeaves
  <2> QED
    BY <2>1, <2>2, <2>3, <2>4, WorkerWaits DEF Next, Quiet
<1> QED
  BY <1>1, <1>2, Invariance, PTL DEF Spec

\* Six steps end any handler, for any number of handlers that share its worker.
THEOREM HandlersRun == Spec => HandlersRunDown
<1>1. IInv /\ [Next]_vars =>
        [\A h \in Handlers : pc[h] # "idle" /\ pc'[h] # pc[h] => Ahead(pc'[h]) < Ahead(pc[h])]_vars
  <2> SUFFICES ASSUME IInv, Next, NEW h \in Handlers, pc[h] # "idle", pc'[h] # pc[h]
               PROVE  Ahead(pc'[h]) < Ahead(pc[h])
    OBVIOUS
  <2>1. pc \in [Handlers -> HandlerStates]
    BY DEF IInv, TypeOK
  <2>2. HandlerStep(h) \/ Cancel(h)
    BY <2>1 DEF Next, Quiet, vars, HandlerStep, Begin, Subscribed, Raise, Unsubscribed, Release,
                RemoveSubscriber, DropSubscriber, DropLastSubscriber, StopSymbolWorker, WorkerStopped,
                Cancel, Create, WorkerStep, WorkerStarts, WorkerConnects, WorkerFails,
                WorkerDisconnects, WorkerRetries, WorkerEnds, WorkerMoves
  <2>3. \/ pc'[h] = AfterRaise(pc[h])
        \/ <<pc[h], pc'[h]>> \in {<<"created", "subscribing">>, <<"subscribing", "listening">>,
                                  <<"unsubscribing", "closing">>, <<"closing", "stopping">>,
                                  <<"closing", "done">>, <<"stopping", "done">>}
    BY <2>1, <2>2
    DEF HandlerStep, Begin, Subscribed, Raise, Unsubscribed, Release, RemoveSubscriber, DropSubscriber,
        DropLastSubscriber, StopSymbolWorker, WorkerStopped, Cancel
  <2>4. /\ Ahead("created") = 6 /\ Ahead("subscribing") = 5 /\ Ahead("listening") = 4
        /\ Ahead("unsubscribing") = 3 /\ Ahead("closing") = 2 /\ Ahead("stopping") = 1
        /\ Ahead("done") = 0 /\ Ahead("leaked") = 0
    BY DEF Ahead
  <2> HIDE DEF Ahead
  <2>5. CASE pc'[h] = AfterRaise(pc[h])
    BY <2>1, <2>4, <2>5 DEF AfterRaise, HandlerStates, Holding
  <2> QED
    BY <2>3, <2>4, <2>5
<1> QED
  BY <1>1, Invariance, PTL DEF Spec, HandlersRunDown
=============================================================================
