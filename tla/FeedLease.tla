------------------------------ MODULE FeedLease ------------------------------
(***************************************************************************)
(* What the symbol worker registry promises to its users, without counters *)
(* or tasks: whoever holds a lease on a symbol has the symbol's feed, the  *)
(* first lease starts it, the last one returned stops it, and a feed never *)
(* has a second publisher.  A holder that dies without returning its lease *)
(* holds it forever.                                                       *)
(***************************************************************************)
EXTENDS Naturals

CONSTANTS Handlers, Symbols

VARIABLES
    holders,    \* the holders of each symbol's lease
    publishers  \* how many publishers each symbol's feed has

Init ==
    /\ holders = [s \in Symbols |-> {}]
    /\ publishers = [s \in Symbols |-> 0]

Take(h, s) ==
    /\ \A r \in Symbols : h \notin holders[r]
    /\ holders' = [holders EXCEPT ![s] = @ \cup {h}]
    /\ publishers' = [publishers EXCEPT ![s] = 1]

Return(h, s) ==
    /\ h \in holders[s]
    /\ holders' = [holders EXCEPT ![s] = @ \ {h}]
    /\ publishers' = [publishers EXCEPT ![s] = IF holders[s] = {h} THEN 0 ELSE @]

Next == \E h \in Handlers, s \in Symbols : Take(h, s) \/ Return(h, s)

Spec == Init /\ [][Next]_<<holders, publishers>>
=============================================================================
