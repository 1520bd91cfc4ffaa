---------------------------- MODULE Subscriptions ----------------------------
(***************************************************************************)
(* One user's plan: the checkout and update webhooks Stripe delivers       *)
(* (app/api/payment_routes.py), the cancellation the user asks for, and    *)
(* the subscription and transaction rows they write                        *)
(* (app/services/payment_service.py).                                      *)
(*                                                                         *)
(* Requests run concurrently, each in a database session of its own: what  *)
(* a request read may have changed when it commits.  A commit is atomic.   *)
(* Stripe delivers an event again until it is answered with success, in    *)
(* any order.  The renewal and the deletion events change no row: both     *)
(* handlers raise before they write (an un-awaited execute, a missing      *)
(* argument), and the route swallows it.                                   *)
(*                                                                         *)
(* A commit writes the attributes that differ from what was read.  The     *)
(* status always does: the handlers assign a string, and what was read is  *)
(* a member of the enumeration (models/user.py:96).  A checkout always     *)
(* changes the purchase.  cancel_at_period_end is compared as a Boolean.   *)
(***************************************************************************)
EXTENDS Naturals, FiniteSets

CONSTANTS
    Subs,       \* Stripe subscriptions the user may buy
    Requests,   \* slots for requests in progress
    NoSub       \* no subscription, no row

ASSUME NoSubFresh == NoSub \notin Subs

VARIABLES
    stripe,     \* Stripe's view of each subscription
    pending,    \* events Stripe delivers until they are acknowledged
    rows,       \* subscriptions table; a row is named after the purchase
                \* that inserted it
    recorded,   \* transactions per checkout event (stripe_event_id)
    req         \* the requests in progress

db == <<rows, recorded>>
vars == <<stripe, pending, rows, recorded, req>>

------------------------------------------------------------------------------
Checkout(s) == [type |-> "checkout", sub |-> s, cancel |-> FALSE]
Updated(s, c) == [type |-> "updated", sub |-> s, cancel |-> c]

Events ==
    [type : {"checkout"}, sub : Subs, cancel : {FALSE}]
        \cup [type : {"updated"}, sub : Subs, cancel : BOOLEAN]

NoRow == [sub |-> NoSub, status |-> "none", cancel |-> FALSE]

Statuses == {"active", "canceled"}

Row == [sub : Subs, status : Statuses, cancel : BOOLEAN]

UserRows == {r \in Subs : rows[r] # NoRow}

\* stripe_sub["status"].
StripeStatus(s) == IF stripe[s] = "ended" THEN "canceled" ELSE "active"

\* A request remembers the row it read and that row's cancel_at_period_end, and
\* the status Stripe gave for the subscription.
Idle == [op |-> "idle", at |-> "none", event |-> NoSub, row |-> NoSub,
         status |-> "active", cancel |-> FALSE]

\* "read": about to select the user's row; "modify": about to call Stripe;
\* "write": about to commit; "answer": committed, the response is not sent.
Request ==
    [op : {"idle", "checkout", "updated", "cancel"},
     at : {"none", "read", "modify", "write", "answer"},
     event : Events \cup {NoSub},
     row : Subs \cup {NoSub},
     status : Statuses,
     cancel : BOOLEAN]

TypeOK ==
    /\ stripe \in [Subs -> {"none", "live", "ending", "ended"}]
    /\ pending \in SUBSET Events
    /\ rows \in [Subs -> Row \cup {NoRow}]
    /\ recorded \in [Subs -> 0..2]
    /\ req \in [Requests -> Request]

Init ==
    /\ stripe = [s \in Subs |-> "none"]
    /\ pending = {}
    /\ rows = [r \in Subs |-> NoRow]
    /\ recorded = [s \in Subs |-> 0]
    /\ req = [w \in Requests |-> Idle]

------------------------------------------------------------------------------
(* Stripe.                                                                   *)

\* The user completes a checkout session.
Purchase(s) ==
    /\ stripe[s] = "none"
    /\ stripe' = [stripe EXCEPT ![s] = "live"]
    /\ pending' = pending \cup {Checkout(s)}
    /\ UNCHANGED <<db, req>>

\* A change of the subscription, such as a new period, is reported.
Renew(s) ==
    /\ stripe[s] \in {"live", "ending"}
    /\ pending' = pending \cup {Updated(s, stripe[s] = "ending")}
    /\ UNCHANGED <<stripe, db, req>>

\* The last paid period is over.
PeriodEnds(s) ==
    /\ stripe[s] = "ending"
    /\ stripe' = [stripe EXCEPT ![s] = "ended"]
    /\ UNCHANGED <<pending, db, req>>

------------------------------------------------------------------------------
(* Requests.                                                                 *)

Advance(w, at) == req' = [req EXCEPT ![w].at = at]

\* The request holds row r from now on.
Selects(w, at, r) ==
    req' = [req EXCEPT ![w].at = at, ![w].row = r, ![w].cancel = rows[r].cancel]

Finish(w) == req' = [req EXCEPT ![w] = Idle]
In(w, op, at) == req[w].op = op /\ req[w].at = at

\* A delivery of event e arrives.  For a checkout the route first retrieves the
\* subscription from Stripe.
Deliver(w, e) ==
    /\ req[w] = Idle
    /\ e \in pending
    /\ req' = [req EXCEPT ![w] =
           [Idle EXCEPT !.op = e.type, !.at = "read", !.event = e,
                        !.status = IF e.type = "checkout" THEN StripeStatus(e.sub) ELSE "active"]]
    /\ UNCHANGED <<stripe, pending, db>>

\* Slip: every exception of the checkout branch is caught and answered.
FailAnswersAll(w) ==
    /\ req[w] # Idle
    /\ pending' = pending \ {req[w].event}
    /\ Finish(w)
    /\ UNCHANGED <<stripe, db>>

\* A Stripe or database call raises, the request is dropped, or the process
\* dies: no response, and Stripe keeps the event.
Fail(w) ==
    /\ req[w] # Idle
    /\ Finish(w)
    /\ UNCHANGED <<stripe, pending, db>>

\* The response is sent: Stripe is done with the event.
Answer(w) ==
    /\ req[w].at = "answer"
    /\ pending' = pending \ {req[w].event}
    /\ Finish(w)
    /\ UNCHANGED <<stripe, db>>

\* handle_subscription selects the user's row.  More than one row makes
\* scalar_one_or_none raise; a cancelled row is not reused.
CheckoutReads(w) ==
    LET reusable == {r \in UserRows : ~rows[r].cancel}
    IN  /\ In(w, "checkout", "read")
        /\ Cardinality(UserRows) <= 1
        /\ \/ reusable = {} /\ Advance(w, "write")
           \/ \E r \in reusable : Selects(w, "write", r)
        /\ UNCHANGED <<stripe, pending, db>>

\* Slip: stripe_event_id is not unique.
CommitUnchecked(w) ==
    LET s == req[w].event.sub
        target == IF req[w].row = NoSub THEN s ELSE req[w].row
    IN  /\ In(w, "checkout", "write")
        /\ rows' = [rows EXCEPT ![target] = [@ EXCEPT !.sub = s, !.status = req[w].status]]
        /\ recorded' = [recorded EXCEPT ![s] = IF @ = 2 THEN 2 ELSE @ + 1]
        /\ Advance(w, "answer")
        /\ UNCHANGED <<stripe, pending>>

\* Slip: the subscription is committed before the transaction is added.
CommitInTwoSteps(w) ==
    LET s == req[w].event.sub
        target == IF req[w].row = NoSub THEN s ELSE req[w].row
    IN  /\ In(w, "checkout", "write")
        /\ rows' = [rows EXCEPT ![target] = [@ EXCEPT !.sub = s, !.status = req[w].status]]
        /\ UNCHANGED <<stripe, pending, recorded>>
        /\ Finish(w)

\* handle_subscription updates the row it read, or inserts one, together with
\* the transaction.  The unique stripe_event_id makes a second commit for one
\* event raise.
CheckoutCommits(w) ==
    LET s == req[w].event.sub
        target == IF req[w].row = NoSub THEN s ELSE req[w].row
    IN  /\ In(w, "checkout", "write")
        /\ recorded[s] = 0
        /\ rows' = [rows EXCEPT ![target] = [@ EXCEPT !.sub = s, !.status = req[w].status]]
        /\ recorded' = [recorded EXCEPT ![s] = 1]
        /\ Advance(w, "answer")
        /\ UNCHANGED <<stripe, pending>>

\* handle_subscription_updated selects the row of the subscription.
UpdateReads(w) ==
    /\ In(w, "updated", "read")
    /\ \E r \in Subs : rows[r].sub = req[w].event.sub /\ Selects(w, "write", r)
    /\ UNCHANGED <<stripe, pending, db>>

\* Slip: the status the handler assigns is stored as it is.
UpdateWritesCancelled(w) ==
    /\ In(w, "updated", "write")
    /\ rows' = [rows EXCEPT ![req[w].row].status =
                    IF req[w].event.cancel THEN "cancelled" ELSE "active"]
    /\ Advance(w, "answer")
    /\ UNCHANGED <<stripe, pending, recorded>>

\* A reactivation is written; the session writes cancel_at_period_end only if it
\* differs from the value read.  A scheduled cancellation is not written:
\* "cancelled" is no value of the column's enumeration, so the commit raises.
UpdateCommits(w) ==
    /\ In(w, "updated", "write")
    /\ ~req[w].event.cancel
    /\ rows' = [rows EXCEPT ![req[w].row].status = "active",
                            ![req[w].row].cancel = @ /\ ~req[w].cancel]
    /\ Advance(w, "answer")
    /\ UNCHANGED <<stripe, pending, recorded>>

\* Whatever the update handler raises, the route answers with success.
UpdateSwallows(w) ==
    /\ req[w].op = "updated"
    /\ req[w].at \in {"read", "write"}
    /\ pending' = pending \ {req[w].event}
    /\ Finish(w)
    /\ UNCHANGED <<stripe, db>>

\* The user asks for the cancellation.
CancelAsked(w) ==
    /\ req[w] = Idle
    /\ req' = [req EXCEPT ![w] = [Idle EXCEPT !.op = "cancel", !.at = "read"]]
    /\ UNCHANGED <<stripe, pending, db>>

\* handle_cancel_subscription_at_period_end selects the user's only row.
CancelReads(w) ==
    /\ In(w, "cancel", "read")
    /\ Cardinality(UserRows) = 1
    /\ \E r \in UserRows :
           req' = [req EXCEPT ![w] =
               [@ EXCEPT !.at = "modify", !.row = r, !.cancel = rows[r].cancel,
                         !.event = Updated(rows[r].sub, TRUE)]]
    /\ UNCHANGED <<stripe, pending, db>>

\* Slip: Stripe is asked about the purchase the row was inserted for.
ModifiesFirstPurchase(w) ==
    LET s == req[w].row
    IN  /\ In(w, "cancel", "modify")
        /\ stripe[s] \in {"live", "ending"}
        /\ stripe' = [stripe EXCEPT ![s] = "ending"]
        /\ pending' = pending \cup {Updated(s, TRUE)}
        /\ Advance(w, "write")
        /\ UNCHANGED db

\* stripe.Subscription.modify(cancel_at_period_end=True) for the subscription
\* the row named when it was read; Stripe reports the change.
CancelModifies(w) ==
    LET s == req[w].event.sub
    IN  /\ In(w, "cancel", "modify")
        /\ stripe[s] \in {"live", "ending"}
        /\ stripe' = [stripe EXCEPT ![s] = "ending"]
        /\ pending' = pending \cup {Updated(s, TRUE)}
        /\ Advance(w, "write")
        /\ UNCHANGED db

\* The flag is written unless it was set when the row was read.
CancelCommits(w) ==
    /\ In(w, "cancel", "write")
    /\ rows' = [rows EXCEPT ![req[w].row].status = "canceled",
                            ![req[w].row].cancel = @ \/ ~req[w].cancel]
    /\ Finish(w)
    /\ UNCHANGED <<stripe, pending, recorded>>

------------------------------------------------------------------------------
Next ==
    \/ \E s \in Subs : Purchase(s) \/ Renew(s) \/ PeriodEnds(s)
    \/ \E w \in Requests :
           \/ \E e \in Events : Deliver(w, e)
           \/ Fail(w) \/ Answer(w) \/ CheckoutReads(w) \/ CheckoutCommits(w)
           \/ UpdateReads(w) \/ UpdateCommits(w) \/ UpdateSwallows(w)
           \/ CancelAsked(w) \/ CancelReads(w) \/ CancelModifies(w) \/ CancelCommits(w)

Spec == Init /\ [][Next]_vars

------------------------------------------------------------------------------
(* Properties.                                                               *)

\* However often and however concurrently a checkout event is delivered, its
\* payment is recorded once at most (models/user.py:144).
PaymentRecordedOnce == \A s \in Subs : recorded[s] <= 1

\* Row and transaction are committed together: the purchase a row stands for,
\* and the one that inserted it, are recorded payments.
RowsArePaidFor ==
    \A r \in UserRows : recorded[r] > 0 /\ recorded[rows[r].sub] > 0

\* A row shows a cancellation, and Stripe goes on billing the purchase it names.
Untold(r) ==
    /\ rows[r] # NoRow /\ rows[r].cancel
    /\ stripe[rows[r].sub] \notin {"ending", "ended"}

\* The row changed since the request read it: a cancellation called Stripe for
\* the purchase of then, a checkout takes the row because it was not cancelled.
Stale(w) ==
    \/ req[w].op = "cancel" /\ rows[req[w].row].sub # req[w].event.sub
    \/ req[w].op = "checkout" /\ rows[req[w].row].cancel # req[w].cancel

\* A cancellation the user sees is one Stripe was told about, for this very
\* purchase, except after one race: a cancellation awaits Stripe while a checkout
\* puts another purchase in its row, and whichever of the two commits last writes
\* over a row it read before the other (payment_service.py:96-104, 251-262).  No
\* failure, repetition or update event leads there.
UntoldOnlyByStaleRow ==
    [][\A r \in Subs : ~Untold(r) /\ Untold(r)' =>
           \E w \in Requests :
               /\ req[w].row = r /\ Stale(w)
               /\ CancelCommits(w) \/ CheckoutCommits(w)]_vars

\* Stripe is never told that a checkout is done before its payment is recorded:
\* every failure on the way leaves the event to be delivered again.
AcknowledgedIsRecorded ==
    \A s \in Subs :
        stripe[s] # "none" /\ Checkout(s) \notin pending => recorded[s] > 0

\* payment_service.py:158-160 says of a subscription whose update event announces
\* its cancellation "Mark as cancelled": an event answered with success after
\* its row was found leaves that row marked.
CancellationIsMarked ==
    [][\A w \in Requests :
           /\ In(w, "updated", "write") /\ req[w].event.cancel
           /\ req[w].event \in pending /\ req[w].event \notin pending'
           => rows'[req[w].row].cancel]_vars

------------------------------------------------------------------------------
(* What the service promises: a ledger of the purchases.                     *)

Paid == {s \in Subs : stripe[s] # "none"}
Told == {s \in Paid : Checkout(s) \notin pending}
Stopped == {s \in Subs : stripe[s] \in {"ending", "ended"}}
Plans == {rows[r].sub : r \in UserRows}
Marked == {rows[r].sub : r \in {q \in UserRows : rows[q].cancel}}

Ledger == INSTANCE PaymentLedger WITH
    Purchases <- Subs, paid <- Paid, booked <- recorded, told <- Told, stopped <- Stopped,
    plans <- Plans, marked <- Marked

\* However requests race, fail and are repeated, what they leave behind is a
\* ledger: every payment is booked once and before Stripe is told that it is
\* done, it becomes a plan beside or in place of one other, no two rows show the
\* same purchase, only a booked purchase is cancelled at Stripe, and no plan
\* shows a cancellation before Stripe was asked to stop one of them; which one is
\* UntoldOnlyByStaleRow's (payment_service.py:89-143, 256-262, payment_routes.py:104).
KeepsLedger == Ledger!Spec
=============================================================================
