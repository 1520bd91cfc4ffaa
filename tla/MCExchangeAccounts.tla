------------------------- MODULE MCExchangeAccounts -------------------------
(***************************************************************************)
(* Instances of ExchangeAccounts for TLC: three requests, so that two      *)
(* connects can race while an order is placed.                             *)
(***************************************************************************)
EXTENDS ExchangeAccounts

CONSTANTS w1, w2, w3

MCRequests == {w1, w2, w3}
=============================================================================
