SPECIFICATION FairSpec
CONSTANTS
    t1 = t1  t2 = t2  t3 = t3
    btc = btc  eth = eth
    Tasks <- MCTasks
    Symbols <- OneSymbol
    DefaultSymbol = btc
    NoTask = NoTask
PROPERTY DisconnectEndsMarketPrice
