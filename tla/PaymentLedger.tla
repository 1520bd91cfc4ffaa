---------------------------- MODULE PaymentLedger ----------------------------
(***************************************************************************)
(* What the payment service promises about a user's purchases, without     *)
(* requests, events or rows: a payment is booked once, Stripe is told that *)
(* a purchase is done only after it was booked, a plan that is shown stays *)
(* until a later purchase takes its place, and no plan is shown as         *)
(* cancelled before Stripe was told to stop billing some purchase of the   *)
(* user.  It need not be the one shown: a purchase may have replaced it.   *)
(***************************************************************************)
EXTENDS Naturals

CONSTANT Purchases

VARIABLES
    paid,       \* purchases the user has paid for
    booked,     \* how often the database holds the payment of a purchase
    told,       \* purchases Stripe was told are done
    stopped,    \* purchases Stripe was told to stop billing
    plans,      \* purchases the database shows as the user's plans
    marked      \* plans it shows as cancelled

vars == <<paid, booked, told, stopped, plans, marked>>

Init ==
    /\ paid = {} /\ told = {} /\ stopped = {}
    /\ booked = [p \in Purchases |-> 0]
    /\ plans = {} /\ marked = {}

Pay(p) ==
    /\ p \notin paid
    /\ paid' = paid \cup {p}
    /\ UNCHANGED <<booked, told, stopped, plans, marked>>

\* The plan that p takes the place of hands its mark on: a cancellation that
\* was committed in the meantime is not lost, it now shows on p.
Replaces(p, q) ==
    /\ plans' = (plans \ {q}) \cup {p}
    /\ marked' = IF q \in marked THEN (marked \ {q}) \cup {p} ELSE marked

Book(p) ==
    /\ p \in paid /\ booked[p] = 0
    /\ booked' = [booked EXCEPT ![p] = 1]
    /\ \/ plans' = plans \cup {p} /\ UNCHANGED marked
       \/ \E q \in plans : Replaces(p, q)
    /\ UNCHANGED <<paid, told, stopped>>

Tell(p) ==
    /\ booked[p] = 1 /\ p \notin told
    /\ told' = told \cup {p}
    /\ UNCHANGED <<paid, booked, stopped, plans, marked>>

Stop(p) ==
    /\ booked[p] = 1
    /\ stopped' = stopped \cup {p}
    /\ UNCHANGED <<paid, booked, told, plans, marked>>

\* A cancellation that went through at Stripe is shown, on the plan that is there
\* by now.
Mark(p) ==
    /\ p \in plans /\ stopped # {}
    /\ marked' = marked \cup {p}
    /\ UNCHANGED <<paid, booked, told, stopped, plans>>

\* Stripe reports the plan as running again.
Unmark(p) ==
    /\ marked' = marked \ {p}
    /\ UNCHANGED <<paid, booked, told, stopped, plans>>

Next ==
    \E p \in Purchases : Pay(p) \/ Book(p) \/ Tell(p) \/ Stop(p) \/ Mark(p) \/ Unmark(p)

Spec == Init /\ [][Next]_vars
=============================================================================
