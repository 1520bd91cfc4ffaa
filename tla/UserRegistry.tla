----------------------------- MODULE UserRegistry -----------------------------
(***************************************************************************)
(* What the users table promises, without requests, one-time passwords and *)
(* sessions: a user appears with an e-mail address that is free and gives  *)
(* it up only for another free one, is verified together with a Stripe     *)
(* customer that exists and is nobody's yet, and is marked as having an    *)
(* address after there is one.  Nothing else happens to a user, and        *)
(* nothing of it is taken back.                                            *)
(***************************************************************************)
CONSTANTS Users, Emails, Customers, Nothing

VARIABLES
    email,      \* per user: its e-mail address, Nothing before it has signed up
    verified,   \* users whose e-mail address was verified
    customer,   \* per user: its customer at Stripe, or Nothing
    issued,     \* customers Stripe has made
    housed,     \* users with an address
    filled      \* users marked as having one

vars == <<email, verified, customer, issued, housed, filled>>

Init ==
    /\ email = [u \in Users |-> Nothing]
    /\ verified = {}
    /\ customer = [u \in Users |-> Nothing]
    /\ issued = {} /\ housed = {} /\ filled = {}

IsUser(u) == email[u] # Nothing
Free(e) == \A u \in Users : email[u] # e

Register(u, e) ==
    /\ ~IsUser(u) /\ Free(e)
    /\ email' = [email EXCEPT ![u] = e]
    /\ UNCHANGED <<verified, customer, issued, housed, filled>>

Move(u, e) ==
    /\ IsUser(u) /\ Free(e)
    /\ email' = [email EXCEPT ![u] = e]
    /\ UNCHANGED <<verified, customer, issued, housed, filled>>

Issue(c) ==
    /\ c \notin issued
    /\ issued' = issued \cup {c}
    /\ UNCHANGED <<email, verified, customer, housed, filled>>

\* A user that is verified once more gets the customer of that verification.
Verify(u, c) ==
    /\ IsUser(u)
    /\ c \in issued /\ \A v \in Users : customer[v] # c
    /\ verified' = verified \cup {u}
    /\ customer' = [customer EXCEPT ![u] = c]
    /\ UNCHANGED <<email, issued, housed, filled>>

House(u) ==
    /\ IsUser(u)
    /\ housed' = housed \cup {u}
    /\ UNCHANGED <<email, verified, customer, issued, filled>>

Fill(u) ==
    /\ u \in housed
    /\ filled' = filled \cup {u}
    /\ UNCHANGED <<email, verified, customer, issued, housed>>

Next ==
    \/ \E u \in Users :
           \/ \E e \in Emails : Register(u, e) \/ Move(u, e)
           \/ \E c \in Customers : Verify(u, c)
           \/ House(u) \/ Fill(u)
    \/ \E c \in Customers : Issue(c)

Spec == Init /\ [][Next]_vars
=============================================================================
