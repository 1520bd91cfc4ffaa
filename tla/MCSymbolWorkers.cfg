SPECIFICATION FairSpec
CONSTANTS
    h1 = h1  h2 = h2  h3 = h3
    btc = btc  eth = eth
    Handlers <- MCHandlers
    Symbols <- OneSymbol
    NoTask = NoTask
    NoSymbol = NoSymbol
INVARIANTS
    TypeOK
    CountMatchesHolders
    HoldersAreServed
    OnePublisherPerSymbol
    WaitsEnd
PROPERTIES
    ImplementsLease
    CancelledHandlerEnds
    FeedComesBack
