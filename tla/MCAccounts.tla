----------------------------- MODULE MCAccounts -----------------------------
(***************************************************************************)
(* Instances of Accounts for TLC.  Four requests are a signup and three    *)
(* that race on its row, or two signups and two requests on either row;    *)
(* two addresses let a user move to another one.                           *)
(***************************************************************************)
EXTENDS Accounts, TLC

CONSTANTS r1, r2, r3, r4, home, work

MCRequests == {r1, r2, r3, r4}
ThreeRequests == {r1, r2, r3}
MCEmails == {home, work}

\* Requests are interchangeable, and so are addresses.
Symmetry == Permutations(MCRequests) \cup Permutations(MCEmails)
=============================================================================
