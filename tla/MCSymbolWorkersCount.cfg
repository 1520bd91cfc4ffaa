SPECIFICATION Spec
CONSTANTS
    h1 = h1  h2 = h2  h3 = h3
    btc = btc  eth = eth
    Handlers <- MCHandlers
    Symbols <- MCSymbols
    NoTask = NoTask
    NoSymbol = NoSymbol
SYMMETRY Symmetry
INVARIANT CountsActiveSubscribersOnly
