SPECIFICATION FairSpec
CONSTANTS
    t1 = t1  t2 = t2  t3 = t3
    btc = btc  eth = eth
    Tasks <- MCTasks
    Symbols <- MCSymbols
    DefaultSymbol = btc
    NoTask = NoTask
INVARIANTS
    TypeOK
    StreamsAreTracked
    CancelledOnce
PROPERTIES
    AllStreamsFollowSymbol
    KeepsPanel
    AuthIsDecided
    GoneClientIsForgotten
