----------------------------- MODULE TradingDesk -----------------------------
(***************************************************************************)
(* What a user's exchange account promises, without requests, clients,     *)
(* retries and fallbacks: there are keys before the account is linked, the *)
(* exchange gets an order once at most and only from a linked account, an  *)
(* order is booked only after it was accepted, and only booked orders are  *)
(* confirmed.  Nothing is taken back.                                      *)
(***************************************************************************)
EXTENDS Naturals

CONSTANT Orders

VARIABLES
    vault,      \* are keys stored for the user?
    linked,     \* is the account marked as connected?
    accepted,   \* how often the exchange has accepted each order
    booked,     \* orders in the database
    confirmed   \* orders the user was told have succeeded

vars == <<vault, linked, accepted, booked, confirmed>>

Init ==
    /\ vault = FALSE /\ linked = FALSE
    /\ accepted = [o \in Orders |-> 0]
    /\ booked = {} /\ confirmed = {}

Store ==
    /\ vault' = TRUE
    /\ UNCHANGED <<linked, accepted, booked, confirmed>>

Link ==
    /\ vault /\ linked' = TRUE
    /\ UNCHANGED <<vault, accepted, booked, confirmed>>

Accept(o) ==
    /\ linked /\ accepted[o] = 0
    /\ accepted' = [accepted EXCEPT ![o] = 1]
    /\ UNCHANGED <<vault, linked, booked, confirmed>>

\* The answer may say that the order failed although it is booked.
Book(o) ==
    /\ accepted[o] = 1 /\ o \notin booked
    /\ booked' = booked \cup {o}
    /\ confirmed' \in {confirmed, confirmed \cup {o}}
    /\ UNCHANGED <<vault, linked, accepted>>

Next == Store \/ Link \/ \E o \in Orders : Accept(o) \/ Book(o)

Spec == Init /\ [][Next]_vars
=============================================================================
