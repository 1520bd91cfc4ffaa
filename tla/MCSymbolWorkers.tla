--------------------------- MODULE MCSymbolWorkers ---------------------------
(***************************************************************************)
(* Instances of SymbolWorkers for TLC.  Three handlers are enough for two  *)
(* to share a worker while a third takes or returns a lease.               *)
(***************************************************************************)
EXTENDS SymbolWorkers, TLC

CONSTANTS h1, h2, h3, btc, eth

MCHandlers == {h1, h2, h3}
MCSymbols == {btc, eth}

\* No handler and no worker touches an entry of another symbol: one symbol is
\* enough where liveness is checked.
OneSymbol == {btc}

\* Handlers are interchangeable, and so are symbols.  Used for safety only.
Symmetry == Permutations(MCHandlers) \cup Permutations(MCSymbols)
=============================================================================
