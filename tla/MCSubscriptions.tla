--------------------------- MODULE MCSubscriptions ---------------------------
(***************************************************************************)
(* Instances of Subscriptions for TLC.  Two purchases and two requests in  *)
(* progress let a delivery race its own repetition, another purchase, and  *)
(* a cancellation.                                                         *)
(***************************************************************************)
EXTENDS Subscriptions, TLC

CONSTANTS s1, s2, w1, w2

MCSubs == {s1, s2}
MCRequests == {w1, w2}

\* Purchases and requests are interchangeable.
Symmetry == Permutations(MCSubs) \cup Permutations(MCRequests)
=============================================================================
