--------------------------- MODULE MCMarketSession ---------------------------
(***************************************************************************)
(* Instances of MarketSession for TLC.  Three tasks let a category be      *)
(* replaced while another streams, or all three stream at once.            *)
(***************************************************************************)
EXTENDS MarketSession

CONSTANTS t1, t2, t3, btc, eth

MCTasks == {t1, t2, t3}
MCSymbols == {btc, eth}

\* For the run about the end of the session: which symbol a stream has plays no
\* part in whether it ends.
OneSymbol == {btc}
=============================================================================
