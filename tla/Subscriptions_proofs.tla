------------------------- MODULE Subscriptions_proofs -------------------------
(***************************************************************************)
(* Safety of Subscriptions for any set of purchases and any number of      *)
(* concurrent requests.                                                    *)
(*                                                                         *)
(* None of the invariants is inductive alone.  What a request will do      *)
(* depends on what it holds, so Held states it: the row a request read is  *)
(* still there (rows are never deleted), an event is answered as a         *)
(* checkout only after its payment was recorded, and a cancellation is     *)
(* committed only after Stripe was told of the purchase it is about.       *)
(***************************************************************************)
EXTENDS Subscriptions, TLAPS

\* What a request holds at each of its steps.
EventMatches(w) ==
    /\ req[w].op = "checkout" => \E s \in Subs : req[w].event = Checkout(s)
    /\ req[w].op = "updated" => \E s \in Subs, c \in BOOLEAN : req[w].event = Updated(s, c)
    /\ req[w].op = "cancel" /\ req[w].at # "read" => \E s \in Subs : req[w].event = Updated(s, TRUE)

RowMatches(w) ==
    /\ req[w].row # NoSub => req[w].row \in UserRows
    /\ req[w].op \in {"updated", "cancel"} /\ req[w].at \in {"modify", "write"}
       => req[w].row # NoSub
    /\ req[w].op = "checkout" => ~req[w].cancel

StepMatches(w) ==
    /\ req[w].op \in {"idle", "cancel"} => req[w].at # "answer"
    /\ req[w].op = "checkout" /\ req[w].at = "answer" => recorded[req[w].event.sub] > 0
    /\ req[w].op = "cancel" /\ req[w].at = "write"
       => stripe[req[w].event.sub] \in {"ending", "ended"}

Held == \A w \in Requests : EventMatches(w) /\ RowMatches(w) /\ StepMatches(w)

IInv ==
    /\ TypeOK
    /\ Held
    /\ PaymentRecordedOnce
    /\ RowsArePaidFor
    /\ AcknowledgedIsRecorded

------------------------------------------------------------------------------
\* The invariant holds before the first purchase.
LEMMA InitHolds == Init => IInv
  <1> SUFFICES ASSUME Init PROVE IInv
    OBVIOUS
  <1> USE DEF Init
  <1>1. UserRows = {}
    BY DEF UserRows
  <1>2. TypeOK
    BY DEF TypeOK, Idle, Statuses, Request
  <1>3. Held
    BY NoSubFresh DEF Held, EventMatches, RowMatches, StepMatches, Idle
  <1> QED
    BY <1>1, <1>2, <1>3 DEF IInv, PaymentRecordedOnce, RowsArePaidFor,
       AcknowledgedIsRecorded

\* A stored row is a proper one, and the empty place of a row is not.
LEMMA StoredRows ==
    ASSUME TypeOK
    PROVE  /\ NoRow \notin Row
           /\ \A r \in UserRows : r \in Subs /\ rows[r] \in Row
           /\ \A r \in Subs : rows[r] \in Row => r \in UserRows
  BY NoSubFresh DEF TypeOK, UserRows, NoRow, Row

------------------------------------------------------------------------------
(* One step.  Requests other than the one that moves keep what they hold.     *)

\* The steps of one request.
Moves(w) ==
    \/ \E e \in Events : Deliver(w, e)
    \/ Fail(w) \/ Answer(w) \/ CheckoutReads(w) \/ CheckoutCommits(w)
    \/ UpdateReads(w) \/ UpdateCommits(w) \/ UpdateSwallows(w)
    \/ CancelAsked(w) \/ CancelReads(w) \/ CancelModifies(w) \/ CancelCommits(w)

\* Events are the ones Stripe sends, and each names a subscription.
LEMMA EventsSent ==
    /\ \A s \in Subs : Checkout(s) \in Events
    /\ \A s \in Subs, c \in BOOLEAN : Updated(s, c) \in Events
    /\ \A e \in Events : /\ e.sub \in Subs
                        /\ \/ e.type = "checkout" /\ e = Checkout(e.sub)
                           \/ e.type = "updated" /\ e = Updated(e.sub, e.cancel) /\ e.cancel \in BOOLEAN
  <1>1. /\ \A s \in Subs : Checkout(s) \in Events
        /\ \A s \in Subs, c \in BOOLEAN : Updated(s, c) \in Events
    BY DEF Events, Checkout, Updated
  <1>2. ASSUME NEW e \in [type : {"checkout"}, sub : Subs, cancel : {FALSE}]
        PROVE  e.sub \in Subs /\ e.type = "checkout" /\ e = Checkout(e.sub)
    BY DEF Checkout
  <1>3. ASSUME NEW e \in [type : {"updated"}, sub : Subs, cancel : BOOLEAN]
        PROVE  /\ e.sub \in Subs /\ e.type = "updated"
               /\ e = Updated(e.sub, e.cancel) /\ e.cancel \in BOOLEAN
    BY DEF Updated
  <1> QED
    BY <1>1, <1>2, <1>3 DEF Events

\* What the three ways to move a request leave in its slot.
LEMMA RequestTyped ==
    ASSUME TypeOK, NEW w \in Requests
    PROVE  /\ Finish(w) => req' \in [Requests -> Request]
           /\ \A at \in {"none", "read", "modify", "write", "answer"} :
                  Advance(w, at) => req' \in [Requests -> Request]
           /\ \A r \in UserRows : Selects(w, "write", r) => req' \in [Requests -> Request]
  <1>1. Idle \in Request
    BY DEF Idle, Request, Statuses
  <1>2. ASSUME NEW at \in {"none", "read", "modify", "write", "answer"}, Advance(w, at)
        PROVE  req' \in [Requests -> Request]
    <2>1. [req[w] EXCEPT !.at = at] \in Request
      BY DEF TypeOK, Request
    <2> QED
      BY <1>2, <2>1 DEF TypeOK, Advance
  <1>3. ASSUME NEW r \in UserRows, Selects(w, "write", r)
        PROVE  req' \in [Requests -> Request]
    <2>1. r \in Subs /\ rows[r].cancel \in BOOLEAN
      BY StoredRows DEF Row
    <2>2. [req[w] EXCEPT !.at = "write", !.row = r, !.cancel = rows[r].cancel] \in Request
      BY <2>1 DEF TypeOK, Request
    <2> QED
      BY <1>3, <2>2 DEF TypeOK, Selects
  <1> QED
    BY <1>1, <1>2, <1>3 DEF Finish, TypeOK

\* Every step keeps the variables well typed.
LEMMA TypeStep == IInv /\ [Next]_vars => TypeOK'
  <1> SUFFICES ASSUME IInv, [Next]_vars PROVE TypeOK'
    OBVIOUS
  <1>0. TypeOK /\ Held
    BY DEF IInv
  <1> USE <1>0
  <1>1. ASSUME NEW s \in Subs, Purchase(s) \/ Renew(s) \/ PeriodEnds(s) PROVE TypeOK'
    <2>1. Checkout(s) \in Events /\ Updated(s, stripe[s] = "ending") \in Events
      BY EventsSent
    <2> QED
      BY <1>1, <2>1 DEF TypeOK, Purchase, Renew, PeriodEnds, db
  <1>2. ASSUME NEW w \in Requests, Moves(w) PROVE TypeOK'
    <2>1. ASSUME NEW e \in Events, Deliver(w, e) PROVE TypeOK'
      <3>1. e.type \in {"checkout", "updated"}
        BY EventsSent
      <3>2. [Idle EXCEPT !.op = e.type, !.at = "read", !.event = e,
                !.status = IF e.type = "checkout" THEN StripeStatus(e.sub) ELSE "active"] \in Request
        BY <3>1 DEF Idle, Request, Statuses, StripeStatus
      <3> QED
        BY <2>1, <3>2 DEF Deliver, TypeOK, db
    <2>2. CASE Fail(w)
      BY <2>2, RequestTyped DEF Fail, TypeOK, db
    <2>3. CASE Answer(w) \/ UpdateSwallows(w)
      BY <2>3, RequestTyped DEF Answer, UpdateSwallows, TypeOK, db
    <2>4. CASE CancelAsked(w)
      <3>1. [Idle EXCEPT !.op = "cancel", !.at = "read"] \in Request
        BY DEF Idle, Request, Statuses
      <3> QED
        BY <2>4, <3>1 DEF CancelAsked, TypeOK, db
    <2>5. CASE CheckoutReads(w)
      <3>1. req' \in [Requests -> Request]
        BY <2>5, RequestTyped DEF CheckoutReads
      <3> QED
        BY <2>5, <3>1 DEF CheckoutReads, TypeOK, db
    <2>6. CASE UpdateReads(w)
      <3>1. PICK r \in Subs : rows[r].sub = req[w].event.sub /\ Selects(w, "write", r)
        BY <2>6 DEF UpdateReads
      <3>2. req[w].event.sub \in Subs
        <4>1. PICK s \in Subs, c \in BOOLEAN : req[w].event = Updated(s, c)
          BY <2>6 DEF UpdateReads, Held, EventMatches, In
        <4> QED
          BY <4>1 DEF Updated
      <3>3. r \in UserRows
        BY <3>1, <3>2, NoSubFresh DEF UserRows, NoRow
      <3>4. req' \in [Requests -> Request]
        BY <3>1, <3>3, RequestTyped
      <3> QED
        BY <2>6, <3>4 DEF UpdateReads, TypeOK, db
    <2>7. CASE CheckoutCommits(w)
      <3>1. PICK s \in Subs : req[w].event = Checkout(s)
        BY <2>7 DEF CheckoutCommits, Held, EventMatches, In
      <3>2. req[w].event.sub = s /\ req[w].status \in Statuses
        BY <3>1 DEF Checkout, TypeOK, Request
      <3>3. \A r \in Subs : [rows[r] EXCEPT !.sub = s, !.status = req[w].status] \in Row
        <4> SUFFICES ASSUME NEW r \in Subs
                     PROVE  [rows[r] EXCEPT !.sub = s, !.status = req[w].status] \in Row
          OBVIOUS
        <4>1. CASE rows[r] \in Row
          BY <3>2, <4>1 DEF Row
        <4>2. CASE rows[r] = NoRow
          <5>1. NoRow \in [sub : {NoSub}, status : {"none"}, cancel : {FALSE}]
            BY DEF NoRow
          <5> QED
            BY <3>2, <4>2, <5>1 DEF Row
        <4> QED
          BY <4>1, <4>2 DEF TypeOK
      <3>4. rows' \in [Subs -> Row \cup {NoRow}]
        BY <2>7, <3>2, <3>3 DEF CheckoutCommits, TypeOK
      <3>5. recorded' \in [Subs -> 0..2]
        BY <2>7, <3>2 DEF CheckoutCommits, TypeOK
      <3>6. req' \in [Requests -> Request]
        BY <2>7, RequestTyped DEF CheckoutCommits
      <3> QED
        BY <2>7, <3>4, <3>5, <3>6 DEF CheckoutCommits, TypeOK
    <2>8. CASE UpdateCommits(w) \/ CancelCommits(w)
      <3>1. req[w].row \in UserRows
        BY <2>8 DEF UpdateCommits, CancelCommits, Held, RowMatches, In
      <3>2. rows[req[w].row] \in Row /\ req[w].row \in Subs
        BY <3>1, StoredRows
      <3>3. \A c \in BOOLEAN, st \in Statuses :
               [rows[req[w].row] EXCEPT !.status = st, !.cancel = c] \in Row
        BY <3>2 DEF Row
      <3>4. rows' \in [Subs -> Row \cup {NoRow}]
        BY <2>8, <3>2 DEF UpdateCommits, CancelCommits, TypeOK, Row, Statuses
      <3>5. req' \in [Requests -> Request]
        BY <2>8, RequestTyped DEF UpdateCommits, CancelCommits
      <3> QED
        BY <2>8, <3>4, <3>5 DEF UpdateCommits, CancelCommits, TypeOK
    <2>9. CASE CancelReads(w)
      <3>1. PICK r \in UserRows : req' = [req EXCEPT ![w] =
               [@ EXCEPT !.at = "modify", !.row = r, !.cancel = rows[r].cancel,
                         !.event = Updated(rows[r].sub, TRUE)]]
        BY <2>9 DEF CancelReads
      <3>2. r \in Subs /\ rows[r].sub \in Subs /\ rows[r].cancel \in BOOLEAN
        BY StoredRows DEF Row
      <3>3. [req[w] EXCEPT !.at = "modify", !.row = r, !.cancel = rows[r].cancel,
                 !.event = Updated(rows[r].sub, TRUE)] \in Request
        <4>1. Updated(rows[r].sub, TRUE) \in Events \cup {NoSub} /\ r \in Subs \cup {NoSub}
          BY <3>2, EventsSent
        <4>2. req[w] \in Request
          BY DEF TypeOK
        <4> QED
          BY <3>2, <4>1, <4>2 DEF Request
      <3> QED
        BY <2>9, <3>1, <3>3 DEF CancelReads, TypeOK, db
    <2>10. CASE CancelModifies(w)
      <3>1. PICK s \in Subs : req[w].event = Updated(s, TRUE)
        BY <2>10 DEF CancelModifies, Held, EventMatches, In
      <3>2. req[w].event.sub = s /\ Updated(s, TRUE) \in Events
        BY <3>1, EventsSent DEF Updated
      <3>3. req' \in [Requests -> Request]
        BY <2>10, RequestTyped DEF CancelModifies
      <3> QED
        BY <2>10, <3>2, <3>3 DEF CancelModifies, TypeOK, db
    <2> QED
      BY <1>2, <2>1, <2>2, <2>3, <2>4, <2>5, <2>6, <2>7, <2>8, <2>9, <2>10 DEF Moves
  <1>3. CASE UNCHANGED vars
    BY <1>3 DEF vars, TypeOK
  <1> QED
    BY <1>1, <1>2, <1>3 DEF Next, Moves

\* Rows are never deleted, records never lost, a cancellation never withdrawn.
LEMMA NothingIsLost ==
    IInv /\ [Next]_vars => /\ \A r \in UserRows : r \in UserRows'
                           /\ \A s \in Subs : recorded[s] > 0 => recorded'[s] > 0
                           /\ \A s \in Subs : stripe[s] \in {"ending", "ended"}
                                             => stripe'[s] \in {"ending", "ended"}
  <1> SUFFICES ASSUME IInv, [Next]_vars
               PROVE  /\ \A r \in UserRows : r \in UserRows'
                      /\ \A s \in Subs : recorded[s] > 0 => recorded'[s] > 0
                      /\ \A s \in Subs : stripe[s] \in {"ending", "ended"}
                                        => stripe'[s] \in {"ending", "ended"}
    OBVIOUS
  <1>0. TypeOK /\ Held
    BY DEF IInv
  <1> USE <1>0
  <1>1. CASE rows' = rows /\ recorded' = recorded
    <2>1. UserRows' = UserRows
      BY <1>1 DEF UserRows
    <2>2. \A s \in Subs : stripe[s] \in {"ending", "ended"} => stripe'[s] \in {"ending", "ended"}
      BY DEF TypeOK, Next, vars, Purchase, Renew, PeriodEnds, Deliver, Fail, Answer, CheckoutReads,
         CheckoutCommits, UpdateReads, UpdateCommits, UpdateSwallows, CancelAsked, CancelReads,
         CancelModifies, CancelCommits, db
    <2> QED
      BY <1>1, <2>1, <2>2
  <1>2. ASSUME NEW w \in Requests, CheckoutCommits(w) \/ UpdateCommits(w) \/ CancelCommits(w)
        PROVE  /\ \A r \in UserRows : r \in UserRows'
               /\ \A s \in Subs : recorded[s] > 0 => recorded'[s] > 0
               /\ stripe' = stripe
    <2>1. CASE CheckoutCommits(w)
      <3>1. PICK s \in Subs : req[w].event = Checkout(s)
        BY <2>1 DEF CheckoutCommits, Held, EventMatches, In
      <3>2. req[w].event.sub = s /\ s # NoSub
        BY <3>1, NoSubFresh DEF Checkout
      <3>3. ASSUME NEW r \in UserRows PROVE rows'[r] # NoRow
        <4>1. rows'[r].sub \in Subs
          BY <2>1, <3>2, <3>3, StoredRows DEF CheckoutCommits, Row, TypeOK
        <4> QED
          BY <4>1, NoSubFresh DEF NoRow
      <3>4. \A r \in UserRows : r \in UserRows'
        BY <3>3 DEF UserRows
      <3> QED
        BY <2>1, <3>2, <3>4 DEF CheckoutCommits, TypeOK
    <2>2. CASE UpdateCommits(w) \/ CancelCommits(w)
      <3>1. ASSUME NEW r \in UserRows PROVE rows'[r] # NoRow
        <4>1. rows'[r].sub \in Subs
          BY <2>2, <3>1, StoredRows DEF UpdateCommits, CancelCommits, Row, TypeOK
        <4> QED
          BY <4>1, NoSubFresh DEF NoRow
      <3>2. \A r \in UserRows : r \in UserRows'
        BY <3>1 DEF UserRows
      <3> QED
        BY <2>2, <3>2 DEF UpdateCommits, CancelCommits
    <2> QED
      BY <1>2, <2>1, <2>2
  <1>3. \/ rows' = rows /\ recorded' = recorded
        \/ \E w \in Requests : CheckoutCommits(w) \/ UpdateCommits(w) \/ CancelCommits(w)
    BY DEF Next, vars, Purchase, Renew, PeriodEnds, Deliver, Fail, Answer, CheckoutReads,
       UpdateReads, UpdateSwallows, CancelAsked, CancelReads, CancelModifies, db
  <1> QED
    BY <1>1, <1>2, <1>3

\* The requests that do not move, and those that end, hold what they must.
LEMMA OthersHold ==
    ASSUME IInv, [Next]_vars, NEW v \in Requests, req'[v] = req[v] \/ req'[v] = Idle
    PROVE  (EventMatches(v) /\ RowMatches(v) /\ StepMatches(v))'
  <1>0. TypeOK /\ EventMatches(v) /\ RowMatches(v) /\ StepMatches(v)
    BY DEF IInv, Held
  <1>1. CASE req'[v] = Idle
    BY <1>1 DEF Idle, EventMatches, RowMatches, StepMatches
  <1>2. CASE req'[v] = req[v]
    <2>1. EventMatches(v)'
      BY <1>0, <1>2 DEF EventMatches
    <2>2. RowMatches(v)'
      BY <1>0, <1>2, NothingIsLost DEF RowMatches
    <2>3. StepMatches(v)'
      <3>1. req[v].op = "checkout" \/ (req[v].op = "cancel" /\ req[v].at = "write")
            => req[v].event.sub \in Subs
        <4>1. \A s \in Subs : Checkout(s).sub = s /\ Updated(s, TRUE).sub = s
          BY DEF Checkout, Updated
        <4> QED
          BY <1>0, <4>1 DEF EventMatches
      <3> QED
        BY <1>0, <1>2, <3>1, NothingIsLost DEF StepMatches
    <2> QED
      BY <2>1, <2>2, <2>3
  <1> QED
    BY <1>1, <1>2

\* Selecting a row changes only the step, the row and the flag read with it.
LEMMA SelectsOnly ==
    ASSUME TypeOK, NEW v \in Requests, NEW r \in Subs, Selects(v, "write", r)
    PROVE  /\ req'[v].op = req[v].op /\ req'[v].event = req[v].event
           /\ req'[v].at = "write" /\ req'[v].row = r /\ req'[v].cancel = rows[r].cancel
  <1>1. req'[v] = [req[v] EXCEPT !.at = "write", !.row = r, !.cancel = rows[r].cancel]
    BY DEF TypeOK, Selects
  <1>2. req[v] \in Request
    BY DEF TypeOK
  <1> QED
    BY <1>1, <1>2 DEF Request

\* Every step leaves every request holding what it must.
LEMMA HeldStep == IInv /\ [Next]_vars => Held'
  <1> SUFFICES ASSUME IInv, [Next]_vars, NEW v \in Requests
               PROVE  (EventMatches(v) /\ RowMatches(v) /\ StepMatches(v))'
    BY DEF Held
  <1>0. TypeOK /\ Held /\ EventMatches(v) /\ RowMatches(v) /\ StepMatches(v)
    BY DEF IInv, Held
  <1>r. /\ req \in [Requests -> Request]
        /\ \A s \in Subs : Checkout(s).sub = s
        /\ \A s \in Subs, c \in BOOLEAN : Updated(s, c).sub = s
    BY <1>0 DEF TypeOK, Checkout, Updated
  <1>1. CASE req'[v] = req[v] \/ req'[v] = Idle
    BY <1>1, OthersHold
  <1>2. ASSUME NEW e \in Events, Deliver(v, e)
        PROVE  (EventMatches(v) /\ RowMatches(v) /\ StepMatches(v))'
    <2>1. /\ req'[v].op = e.type /\ req'[v].at = "read"
          /\ req'[v].event = e /\ req'[v].row = NoSub /\ req'[v].cancel = FALSE
      BY <1>r, <1>2 DEF Deliver, Idle
    <2>2. e.type \in {"checkout", "updated"}
      BY EventsSent
    <2>3. EventMatches(v)'
      BY <2>1, <2>2, EventsSent DEF EventMatches
    <2> QED
      BY <2>1, <2>2, <2>3 DEF RowMatches, StepMatches
  <1>3. CASE CheckoutReads(v)
    <2>1. /\ req'[v].op = "checkout" /\ req'[v].at = "write" /\ req'[v].event = req[v].event
          /\ req'[v].row = req[v].row \/ req'[v].row \in UserRows
          /\ ~req'[v].cancel
      <3>1. CASE Advance(v, "write")
        BY <1>0, <1>r, <1>3, <3>1 DEF CheckoutReads, Advance, In, RowMatches, Request
      <3>2. ASSUME NEW r \in UserRows, ~rows[r].cancel, Selects(v, "write", r)
            PROVE  /\ req'[v].op = "checkout" /\ req'[v].at = "write"
                   /\ req'[v].event = req[v].event /\ req'[v].row \in UserRows
                   /\ ~req'[v].cancel
        <4>1. r \in Subs
          BY DEF UserRows
        <4> QED
          BY <1>0, <1>3, <3>2, <4>1, SelectsOnly DEF CheckoutReads, In
      <3> QED
        BY <1>3, <3>1, <3>2 DEF CheckoutReads
    <2>2. req[v].op = "checkout"
      BY <1>3 DEF CheckoutReads, In
    <2> QED
      BY <1>0, <2>1, <2>2, NothingIsLost DEF EventMatches, RowMatches, StepMatches
  <1>4. CASE CheckoutCommits(v)
    <2>1. /\ req'[v].op = "checkout" /\ req'[v].at = "answer" /\ req'[v].event = req[v].event
          /\ req'[v].row = req[v].row /\ req[v].op = "checkout"
          /\ req'[v].cancel = req[v].cancel
      BY <1>r, <1>4 DEF CheckoutCommits, Advance, In
    <2>2. PICK s \in Subs : req[v].event = Checkout(s)
      BY <1>0, <2>1 DEF EventMatches
    <2>3. req[v].event.sub = s
      BY <1>r, <2>2
    <2>4. recorded'[s] = 1
      BY <1>0, <1>4, <2>3 DEF CheckoutCommits, TypeOK
    <2> QED
      BY <1>0, <2>1, <2>2, <2>3, <2>4, NothingIsLost DEF EventMatches, RowMatches, StepMatches
  <1>5. CASE UpdateReads(v)
    <2>1. PICK r \in Subs : rows[r].sub = req[v].event.sub /\ Selects(v, "write", r)
      BY <1>5 DEF UpdateReads
    <2>2. PICK s \in Subs, c \in BOOLEAN : req[v].event = Updated(s, c)
      BY <1>0, <1>5 DEF UpdateReads, EventMatches, In
    <2>3. r \in UserRows
      BY <1>r, <2>1, <2>2, NoSubFresh DEF UserRows, NoRow
    <2>4. /\ req'[v].op = "updated" /\ req'[v].at = "write" /\ req'[v].event = req[v].event
          /\ req'[v].row = r
      BY <1>0, <1>5, <2>1, SelectsOnly DEF UpdateReads, In
    <2> QED
      BY <2>2, <2>3, <2>4, NoSubFresh, NothingIsLost
      DEF EventMatches, RowMatches, StepMatches, UserRows
  <1>6. CASE UpdateCommits(v)
    <2>1. /\ req'[v].op = "updated" /\ req'[v].at = "answer" /\ req'[v].event = req[v].event
          /\ req'[v].row = req[v].row /\ req[v].op = "updated"
      BY <1>r, <1>6 DEF UpdateCommits, Advance, In
    <2> QED
      BY <1>0, <2>1, NothingIsLost DEF EventMatches, RowMatches, StepMatches
  <1>7. CASE CancelAsked(v)
    <2>1. req'[v].op = "cancel" /\ req'[v].at = "read" /\ req'[v].row = NoSub
      BY <1>r, <1>7 DEF CancelAsked, Idle
    <2> QED
      BY <2>1 DEF EventMatches, RowMatches, StepMatches
  <1>8. CASE CancelReads(v)
    <2>1. PICK r \in UserRows : req' = [req EXCEPT ![v] =
             [@ EXCEPT !.at = "modify", !.row = r, !.cancel = rows[r].cancel,
                       !.event = Updated(rows[r].sub, TRUE)]]
      BY <1>8 DEF CancelReads
    <2>2. /\ req'[v].op = "cancel" /\ req'[v].at = "modify" /\ req'[v].row = r
          /\ req'[v].event = Updated(rows[r].sub, TRUE)
      BY <1>r, <1>8, <2>1 DEF CancelReads, In, Request
    <2>3. rows[r].sub \in Subs /\ r # NoSub
      BY <1>0, StoredRows, NoSubFresh DEF Row
    <2> QED
      BY <2>2, <2>3, NothingIsLost DEF EventMatches, RowMatches, StepMatches
  <1>9. CASE CancelModifies(v)
    <2>1. /\ req'[v].op = "cancel" /\ req'[v].at = "write" /\ req'[v].event = req[v].event
          /\ req'[v].row = req[v].row /\ req[v].op = "cancel" /\ req[v].at = "modify"
      BY <1>r, <1>9 DEF CancelModifies, Advance, In
    <2>2. PICK s \in Subs : req[v].event = Updated(s, TRUE)
      BY <1>0, <2>1 DEF EventMatches
    <2>3. req[v].event.sub = s
      BY <2>2 DEF Updated
    <2>4. stripe'[s] = "ending"
      BY <1>0, <1>9, <2>3 DEF CancelModifies, TypeOK
    <2>5. req'[v].event.sub = s
      BY <2>1, <2>3
    <2> QED
      BY <1>0, <2>1, <2>2, <2>4, <2>5, NothingIsLost DEF EventMatches, RowMatches, StepMatches
  <1>10. \/ req'[v] = req[v] \/ req'[v] = Idle
         \/ \E e \in Events : Deliver(v, e)
         \/ CheckoutReads(v) \/ CheckoutCommits(v) \/ UpdateReads(v) \/ UpdateCommits(v)
         \/ CancelAsked(v) \/ CancelReads(v) \/ CancelModifies(v)
    <2>1. CASE UNCHANGED vars
      BY <2>1 DEF vars
    <2>2. ASSUME NEW s \in Subs, Purchase(s) \/ Renew(s) \/ PeriodEnds(s)
          PROVE  req' = req
      BY <2>2 DEF Purchase, Renew, PeriodEnds
    <2>3. ASSUME NEW w \in Requests, Moves(w), w # v
          PROVE  req'[v] = req[v]
      BY <1>r, <2>3 DEF Moves, Deliver, Fail, Answer, CheckoutReads, CheckoutCommits, UpdateReads,
         UpdateCommits, UpdateSwallows, CancelAsked, CancelReads, CancelModifies, CancelCommits,
         Advance, Selects, Finish
    <2>4. CASE Fail(v) \/ Answer(v) \/ UpdateSwallows(v) \/ CancelCommits(v)
      BY <1>r, <2>4 DEF Fail, Answer, UpdateSwallows, CancelCommits, Finish
    <2> QED
      BY <2>1, <2>2, <2>3, <2>4 DEF Next, Moves
  <1> QED
    BY <1>1, <1>2, <1>3, <1>4, <1>5, <1>6, <1>7, <1>8, <1>9, <1>10

\* The payment of an event is not recorded twice: the unique event id refuses it.
LEMMA RecordedStep == IInv /\ [Next]_vars => PaymentRecordedOnce'
  <1> SUFFICES ASSUME IInv, [Next]_vars PROVE PaymentRecordedOnce'
    OBVIOUS
  <1>0. TypeOK /\ PaymentRecordedOnce
    BY DEF IInv
  <1>1. CASE recorded' = recorded
    BY <1>0, <1>1 DEF PaymentRecordedOnce
  <1>2. ASSUME NEW w \in Requests, CheckoutCommits(w) PROVE PaymentRecordedOnce'
    BY <1>0, <1>2 DEF CheckoutCommits, PaymentRecordedOnce, TypeOK
  <1>3. recorded' = recorded \/ \E w \in Requests : CheckoutCommits(w)
    BY DEF Next, vars, Purchase, Renew, PeriodEnds, Deliver, Fail, Answer, CheckoutReads,
       UpdateReads, UpdateCommits, UpdateSwallows, CancelAsked, CancelReads, CancelModifies,
       CancelCommits, db
  <1> QED
    BY <1>1, <1>2, <1>3

\* A row is only written together with the payment it stands for.
LEMMA PaidStep == IInv /\ [Next]_vars => RowsArePaidFor'
  <1> SUFFICES ASSUME IInv, [Next]_vars, NEW r \in UserRows'
               PROVE  recorded'[r] > 0 /\ recorded'[rows'[r].sub] > 0
    BY DEF RowsArePaidFor
  <1>0. TypeOK /\ Held /\ RowsArePaidFor /\ r \in Subs
    BY DEF IInv, UserRows
  <1>1. CASE rows' = rows
    <2>1. r \in UserRows /\ rows[r].sub \in Subs
      BY <1>0, <1>1, StoredRows DEF UserRows, Row
    <2> QED
      BY <1>0, <1>1, <2>1, NothingIsLost DEF RowsArePaidFor
  <1>2. ASSUME NEW w \in Requests, CheckoutCommits(w)
        PROVE  recorded'[r] > 0 /\ recorded'[rows'[r].sub] > 0
    <2>1. PICK s \in Subs : req[w].event = Checkout(s)
      BY <1>0, <1>2 DEF CheckoutCommits, Held, EventMatches, In
    <2>2. req[w].event.sub = s /\ recorded' = [recorded EXCEPT ![s] = 1]
      BY <1>2, <2>1 DEF CheckoutCommits, Checkout
    <2> DEFINE target == IF req[w].row = NoSub THEN s ELSE req[w].row
    <2>3. rows' = [rows EXCEPT ![target] = [@ EXCEPT !.sub = s, !.status = req[w].status]]
      BY <1>2, <2>2 DEF CheckoutCommits
    <2>4. recorded'[s] = 1
      BY <1>0, <2>2 DEF TypeOK
    <2>5. CASE r = target
      <3>1. rows'[r].sub = s
        <4>1. CASE rows[r] = NoRow
          <5>1. NoRow \in [sub : {NoSub}, status : {"none"}, cancel : {FALSE}]
            BY DEF NoRow
          <5> QED
            BY <1>0, <2>3, <2>5, <4>1, <5>1 DEF TypeOK
        <4>2. CASE rows[r] \in Row
          BY <1>0, <2>3, <2>5, <4>2 DEF TypeOK, Row
        <4> QED
          BY <1>0, <4>1, <4>2 DEF TypeOK
      <3>2. r = s \/ r \in UserRows
        BY <1>0, <2>5 DEF Held, RowMatches
      <3>3. recorded'[r] > 0
        BY <1>0, <2>4, <3>2, NothingIsLost DEF RowsArePaidFor
      <3> QED
        BY <2>4, <3>1, <3>3
    <2>6. CASE r # target
      <3>1. rows'[r] = rows[r]
        BY <1>0, <2>3, <2>6 DEF TypeOK
      <3>2. r \in UserRows
        BY <1>0, <3>1 DEF UserRows
      <3>3. rows[r].sub \in Subs
        BY <1>0, <3>2, StoredRows DEF Row
      <3> QED
        BY <1>0, <3>1, <3>2, <3>3, NothingIsLost DEF RowsArePaidFor
    <2> QED
      BY <2>5, <2>6
  <1>3. ASSUME NEW w \in Requests, UpdateCommits(w) \/ CancelCommits(w)
        PROVE  recorded'[r] > 0 /\ recorded'[rows'[r].sub] > 0
    <2>1. req[w].row \in UserRows
      BY <1>0, <1>3 DEF UpdateCommits, CancelCommits, Held, RowMatches, In
    <2>2. rows[req[w].row] \in Row /\ req[w].row \in Subs
      BY <1>0, <2>1, StoredRows
    <2>3. rows'[r].sub = rows[r].sub /\ r \in UserRows
      BY <1>0, <1>3, <2>1, <2>2 DEF UpdateCommits, CancelCommits, TypeOK, Row, UserRows
    <2>4. rows[r].sub \in Subs
      BY <1>0, <2>3, StoredRows DEF Row
    <2> QED
      BY <1>0, <2>3, <2>4, NothingIsLost DEF RowsArePaidFor
  <1>4. \/ rows' = rows
        \/ \E w \in Requests : CheckoutCommits(w) \/ UpdateCommits(w) \/ CancelCommits(w)
    BY DEF Next, vars, Purchase, Renew, PeriodEnds, Deliver, Fail, Answer, CheckoutReads,
       UpdateReads, UpdateSwallows, CancelAsked, CancelReads, CancelModifies, db
  <1> QED
    BY <1>1, <1>2, <1>3, <1>4

\* A checkout event leaves Stripe's queue only after its payment was recorded.
LEMMA AcknowledgedStep == IInv /\ [Next]_vars => AcknowledgedIsRecorded'
  <1> SUFFICES ASSUME IInv, [Next]_vars, NEW s \in Subs,
                      stripe'[s] # "none", Checkout(s) \notin pending'
               PROVE  recorded'[s] > 0
    BY DEF AcknowledgedIsRecorded
  <1>0. TypeOK /\ Held /\ AcknowledgedIsRecorded
    BY DEF IInv
  <1>1. CASE stripe[s] # "none" /\ Checkout(s) \notin pending
    BY <1>0, <1>1, NothingIsLost DEF AcknowledgedIsRecorded
  <1>2. CASE stripe[s] = "none"
    <2>1. ASSUME NEW t \in Subs, Purchase(t) PROVE FALSE
      BY <1>0, <1>2, <2>1 DEF Purchase, TypeOK
    <2>2. ASSUME NEW w \in Requests, CancelModifies(w) PROVE FALSE
      <3>1. PICK t \in Subs : req[w].event = Updated(t, TRUE)
        BY <1>0, <2>2 DEF CancelModifies, Held, EventMatches, In
      <3>2. req[w].event.sub = t
        BY <3>1 DEF Updated
      <3> QED
        BY <1>0, <1>2, <2>2, <3>2 DEF CancelModifies, TypeOK
    <2>3. ASSUME NEW t \in Subs, PeriodEnds(t) PROVE FALSE
      BY <1>0, <1>2, <2>3 DEF PeriodEnds, TypeOK
    <2> QED
      BY <1>2, <2>1, <2>2, <2>3 DEF Next, vars, Renew, Deliver, Fail, Answer, CheckoutReads,
         CheckoutCommits, UpdateReads, UpdateCommits, UpdateSwallows, CancelAsked, CancelReads,
         CancelCommits, db
  <1>3. CASE Checkout(s) \in pending
    <2>1. PICK w \in Requests : /\ Answer(w) \/ UpdateSwallows(w)
                                /\ req[w].event = Checkout(s)
      BY <1>3 DEF Next, vars, Purchase, Renew, PeriodEnds, Deliver, Fail, Answer, CheckoutReads,
         CheckoutCommits, UpdateReads, UpdateCommits, UpdateSwallows, CancelAsked, CancelReads,
         CancelModifies, CancelCommits
    <2>2. \A t \in Subs, c \in BOOLEAN : Checkout(s) # Updated(t, c)
      BY DEF Checkout, Updated
    <2>3. req[w].op # "updated"
      BY <1>0, <2>1, <2>2 DEF Held, EventMatches
    <2>4. Answer(w) /\ req[w].at = "answer" /\ req[w] \in Request
      BY <1>0, <2>1, <2>3 DEF UpdateSwallows, Answer, TypeOK
    <2>5. req[w].op = "checkout"
      BY <1>0, <2>3, <2>4 DEF Held, StepMatches, Request
    <2>6. recorded[req[w].event.sub] > 0
      BY <1>0, <2>4, <2>5 DEF Held, StepMatches
    <2>7. req[w].event.sub = s
      BY <2>1 DEF Checkout
    <2> QED
      BY <2>6, <2>7, NothingIsLost
  <1> QED
    BY <1>1, <1>2, <1>3

------------------------------------------------------------------------------
\* The invariant holds in every reachable state.
THEOREM Invariance == Spec => []IInv
  <1>1. Init => IInv
    BY InitHolds
  <1>2. IInv /\ [Next]_vars => IInv'
    BY TypeStep, HeldStep, RecordedStep, PaidStep, AcknowledgedStep DEF IInv
  <1> QED
    BY <1>1, <1>2, PTL DEF Spec

\* Every reachable state is well typed.
THEOREM TypeCorrect == Spec => []TypeOK
  BY Invariance, PTL DEF IInv

\* However a checkout event is delivered, repeated or raced, its payment is
\* recorded once at most.
THEOREM RecordedOnce == Spec => []PaymentRecordedOnce
  BY Invariance, PTL DEF IInv

\* Every subscription row stands for, and was inserted by, a recorded payment.
THEOREM PaidFor == Spec => []RowsArePaidFor
  BY Invariance, PTL DEF IInv

\* Stripe stops delivering a checkout only after its payment was recorded.
THEOREM NoPaymentForgotten == Spec => []AcknowledgedIsRecorded
  BY Invariance, PTL DEF IInv

------------------------------------------------------------------------------
(* The ledger.  Three facts more than the invariant are needed: no two rows  *)
(* show the same purchase, what is cancelled at Stripe is booked, and a      *)
(* checkout that is delivered was paid for.                                  *)

PlansDiffer == \A q, r \in UserRows : rows[q].sub = rows[r].sub => q = r

CancelsBooked ==
    \A w \in Requests :
        req[w].op = "cancel" /\ req[w].at \in {"modify", "write"} => recorded[req[w].event.sub] > 0

CheckoutsPaid ==
    /\ \A s \in Subs : Checkout(s) \in pending => stripe[s] # "none"
    /\ \A w \in Requests : req[w].op = "checkout" => stripe[req[w].event.sub] # "none"

LInv == IInv /\ PlansDiffer /\ CancelsBooked /\ CheckoutsPaid

\* A checkout that commits fills one row, its own or the one it read, and the
\* row keeps the mark it has by then.
LEMMA CheckoutFillsRow ==
    ASSUME IInv, NEW w \in Requests, CheckoutCommits(w)
    PROVE  \E s, t \in Subs :
               /\ req[w].op = "checkout" /\ req[w].event.sub = s
               /\ recorded[s] = 0 /\ recorded' = [recorded EXCEPT ![s] = 1]
               /\ t = s \/ t = req[w].row
               /\ t \in UserRows \/ rows[t] = NoRow
               /\ UserRows' = UserRows \cup {t}
               /\ rows'[t].sub = s /\ rows'[t].cancel = rows[t].cancel
               /\ \A r \in UserRows \ {t} : rows'[r] = rows[r]
  <1>0. TypeOK /\ Held /\ RowsArePaidFor
    BY DEF IInv
  <1>1. PICK s \in Subs : req[w].event = Checkout(s)
    BY <1>0 DEF CheckoutCommits, Held, EventMatches, In
  <1>2. req[w].event.sub = s
    BY <1>1 DEF Checkout
  <1> DEFINE t == IF req[w].row = NoSub THEN s ELSE req[w].row
  <1>3. /\ t \in Subs /\ req[w].op = "checkout"
        /\ recorded[s] = 0 /\ recorded' = [recorded EXCEPT ![s] = 1]
        /\ rows' = [rows EXCEPT ![t] = [@ EXCEPT !.sub = s, !.status = req[w].status]]
    BY <1>0, <1>2 DEF CheckoutCommits, TypeOK, Request, In
  <1>4. NoRow \in [sub : {NoSub}, status : {"none"}, cancel : {FALSE}]
    BY DEF NoRow
  <1>5. rows'[t].sub = s /\ rows'[t].cancel = rows[t].cancel
    BY <1>0, <1>3, <1>4 DEF TypeOK, Row
  <1>6. \A r \in Subs \ {t} : rows'[r] = rows[r]
    BY <1>0, <1>3 DEF TypeOK
  <1>7. rows'[t] # NoRow
    BY <1>5, NoSubFresh DEF NoRow
  <1>8. UserRows' = UserRows \cup {t}
    BY <1>3, <1>6, <1>7 DEF UserRows
  <1>9. t \in UserRows \/ rows[t] = NoRow
    BY <1>3 DEF UserRows
  <1>10. t = s \/ t = req[w].row
    OBVIOUS
  <1>11. \A r \in UserRows \ {t} : rows'[r] = rows[r]
    BY <1>6 DEF UserRows
  <1> HIDE DEF t
  <1> QED
    BY <1>2, <1>3, <1>5, <1>8, <1>9, <1>10, <1>11

\* Updates and cancellations leave the rows and their purchases as they are.
LEMMA CommitKeepsPlans ==
    ASSUME IInv, NEW w \in Requests, UpdateCommits(w) \/ CancelCommits(w)
    PROVE  /\ req[w].row \in UserRows
           /\ UserRows' = UserRows
           /\ \A r \in UserRows : rows'[r].sub = rows[r].sub
           /\ \A r \in UserRows \ {req[w].row} : rows'[r] = rows[r]
           /\ UpdateCommits(w) => rows'[req[w].row].cancel = (rows[req[w].row].cancel /\ ~req[w].cancel)
           /\ CancelCommits(w) => rows'[req[w].row].cancel = (rows[req[w].row].cancel \/ ~req[w].cancel)
  <1>0. TypeOK /\ Held
    BY DEF IInv
  <1>1. req[w].row \in UserRows
    BY <1>0 DEF UpdateCommits, CancelCommits, Held, RowMatches, In
  <1>2. rows[req[w].row] \in Row /\ req[w].row \in Subs
    BY <1>0, <1>1, StoredRows
  <1>3. /\ rows'[req[w].row].sub = rows[req[w].row].sub
        /\ UpdateCommits(w) => rows'[req[w].row].cancel = (rows[req[w].row].cancel /\ ~req[w].cancel)
        /\ CancelCommits(w) => rows'[req[w].row].cancel = (rows[req[w].row].cancel \/ ~req[w].cancel)
    BY <1>0, <1>2 DEF UpdateCommits, CancelCommits, TypeOK, Row
  <1>4. \A r \in Subs \ {req[w].row} : rows'[r] = rows[r]
    BY <1>0, <1>2 DEF UpdateCommits, CancelCommits, TypeOK
  <1>5. rows'[req[w].row] # NoRow
    BY <1>2, <1>3, NoSubFresh DEF Row, NoRow
  <1>6. UserRows' = UserRows
    BY <1>1, <1>2, <1>4, <1>5 DEF UserRows
  <1> QED
    BY <1>1, <1>3, <1>4, <1>6 DEF UserRows

\* Only these steps write rows.
LEMMA RowWriters ==
    [Next]_vars => \/ rows' = rows /\ recorded' = recorded
                   \/ \E w \in Requests : CheckoutCommits(w) \/ UpdateCommits(w) \/ CancelCommits(w)
  BY DEF Next, vars, Purchase, Renew, PeriodEnds, Deliver, Fail, Answer, CheckoutReads,
     UpdateReads, UpdateSwallows, CancelAsked, CancelReads, CancelModifies, db

------------------------------------------------------------------------------
(* Which purchase a cancellation is about.                                   *)

\* A purchase that was stopped stays stopped, and neither a reading request nor
\* Stripe marks a row.
LEMMA RowsKeptStayTold ==
    ASSUME IInv, [Next]_vars, NEW r \in Subs, rows'[r] = rows[r], ~Untold(r)
    PROVE  ~Untold(r)'
  <1>0. TypeOK
    BY DEF IInv
  <1>1. rows[r] # NoRow => rows[r].sub \in Subs
    BY <1>0, StoredRows DEF Row, UserRows
  <1> QED
    BY <1>1, NothingIsLost DEF Untold

\* A checkout that marks a row as untold took it for one that is not cancelled.
LEMMA CheckoutLeavesTold ==
    ASSUME IInv, [Next]_vars, NEW w \in Requests, CheckoutCommits(w),
           NEW r \in Subs, ~Untold(r), Untold(r)'
    PROVE  req[w].row = r /\ Stale(w)
  <1>0. TypeOK /\ Held
    BY DEF IInv
  <1>1. PICK s, t \in Subs :
            /\ req[w].op = "checkout"
            /\ t = s \/ t = req[w].row
            /\ recorded[s] = 0
            /\ t \in UserRows \/ rows[t] = NoRow
            /\ rows'[t].cancel = rows[t].cancel
            /\ \A q \in UserRows \ {t} : rows'[q] = rows[q]
            /\ UserRows' = UserRows \cup {t}
    BY CheckoutFillsRow
  <1>2. r \in UserRows'
    BY DEF Untold, UserRows
  <1>3. r = t
    BY <1>1, <1>2, RowsKeptStayTold
  <1>4. rows[t].cancel /\ t \in UserRows
    BY <1>1, <1>3 DEF Untold, NoRow
  <1>5. t # s
    BY <1>0, <1>1, <1>4 DEF IInv, RowsArePaidFor
  <1>6. req[w].row = r
    BY <1>1, <1>3, <1>5
  <1>7. ~req[w].cancel
    BY <1>0, <1>1 DEF Held, RowMatches
  <1> QED
    BY <1>1, <1>3, <1>4, <1>6, <1>7 DEF Stale

\* A cancellation that marks a row as untold called Stripe for another purchase.
LEMMA CancellationLeavesTold ==
    ASSUME IInv, [Next]_vars, NEW w \in Requests, CancelCommits(w),
           NEW r \in Subs, ~Untold(r), Untold(r)'
    PROVE  req[w].row = r /\ Stale(w)
  <1>0. TypeOK /\ Held
    BY DEF IInv
  <1>1. /\ req[w].row \in UserRows /\ UserRows' = UserRows
        /\ \A q \in UserRows : rows'[q].sub = rows[q].sub
        /\ \A q \in UserRows \ {req[w].row} : rows'[q] = rows[q]
    BY CommitKeepsPlans
  <1>2. r \in UserRows
    BY <1>1 DEF Untold, UserRows
  <1>3. req[w].row = r
    BY <1>1, <1>2, RowsKeptStayTold
  <1>4. req[w].op = "cancel" /\ stripe[req[w].event.sub] \in {"ending", "ended"} /\ stripe' = stripe
    BY <1>0 DEF CancelCommits, In, Held, StepMatches
  <1>5. rows[r].sub # req[w].event.sub
    BY <1>1, <1>2, <1>4 DEF Untold
  <1> QED
    BY <1>3, <1>4, <1>5 DEF Stale

\* News from Stripe mark nothing.
LEMMA UpdateLeavesTold ==
    ASSUME IInv, [Next]_vars, NEW w \in Requests, UpdateCommits(w), NEW r \in Subs, ~Untold(r)
    PROVE  ~Untold(r)'
  <1>1. /\ req[w].row \in UserRows /\ UserRows' = UserRows
        /\ \A q \in UserRows : rows'[q].sub = rows[q].sub
        /\ \A q \in UserRows \ {req[w].row} : rows'[q] = rows[q]
        /\ rows'[req[w].row].cancel = (rows[req[w].row].cancel /\ ~req[w].cancel)
    BY CommitKeepsPlans
  <1>2. stripe' = stripe
    BY DEF UpdateCommits
  <1>3. CASE r # req[w].row \/ r \notin UserRows
    BY <1>1, <1>3, RowsKeptStayTold DEF Untold, UserRows
  <1>4. CASE r = req[w].row
    BY <1>1, <1>2, <1>4 DEF Untold, UserRows
  <1> QED
    BY <1>3, <1>4

\* A row shows the cancellation of a purchase that Stripe goes on billing only
\* after the race of a cancellation with a checkout that replaced the purchase:
\* for any purchases, any number of requests, and whatever fails in between.
THEOREM UntoldByRaceOnly == Spec => UntoldOnlyByStaleRow
  <1> DEFINE Race == \A r \in Subs : ~Untold(r) /\ Untold(r)' =>
                 \E w \in Requests :
                     /\ req[w].row = r /\ Stale(w)
                     /\ CancelCommits(w) \/ CheckoutCommits(w)
  <1>1. ASSUME IInv, [Next]_vars PROVE Race
    <2> SUFFICES ASSUME NEW r \in Subs, ~Untold(r), Untold(r)'
                 PROVE  \E w \in Requests :
                            /\ req[w].row = r /\ Stale(w)
                            /\ CancelCommits(w) \/ CheckoutCommits(w)
      OBVIOUS
    <2>1. rows' # rows
      BY <1>1, RowsKeptStayTold
    <2>2. PICK w \in Requests : CheckoutCommits(w) \/ UpdateCommits(w) \/ CancelCommits(w)
      BY <1>1, <2>1, RowWriters
    <2>3. ~UpdateCommits(w)
      BY <1>1, UpdateLeavesTold
    <2> QED
      BY <1>1, <2>2, <2>3, CheckoutLeavesTold, CancellationLeavesTold
  <1>2. IInv /\ [Next]_vars => [Race]_vars
    BY <1>1
  <1> QED
    BY <1>2, Invariance, PTL DEF Spec, UntoldOnlyByStaleRow

------------------------------------------------------------------------------
(* The strengthened invariant of the ledger is inductive.                    *)

\* A purchase whose payment was not booked before cannot be in another row.
LEMMA PlansStep == LInv /\ [Next]_vars => PlansDiffer'
  <1> SUFFICES ASSUME LInv, [Next]_vars PROVE PlansDiffer'
    OBVIOUS
  <1>0. IInv /\ TypeOK /\ RowsArePaidFor /\ PlansDiffer
    BY DEF LInv, IInv
  <1>1. CASE rows' = rows
    BY <1>0, <1>1 DEF PlansDiffer, UserRows
  <1>2. ASSUME NEW w \in Requests, CheckoutCommits(w) PROVE PlansDiffer'
    <2>1. PICK s, t \in Subs : /\ recorded[s] = 0
                               /\ UserRows' = UserRows \cup {t}
                               /\ rows'[t].sub = s
                               /\ \A r \in UserRows \ {t} : rows'[r] = rows[r]
      BY <1>0, <1>2, CheckoutFillsRow
    <2>2. \A r \in UserRows : rows[r].sub # s
      BY <1>0, <2>1 DEF RowsArePaidFor
    <2> QED
      BY <1>0, <2>1, <2>2 DEF PlansDiffer
  <1>3. ASSUME NEW w \in Requests, UpdateCommits(w) \/ CancelCommits(w) PROVE PlansDiffer'
    BY <1>0, <1>3, CommitKeepsPlans DEF PlansDiffer
  <1> QED
    BY <1>1, <1>2, <1>3, RowWriters

\* Going on to the next step changes neither the operation nor its event.
LEMMA MovesOnKeepingEvent ==
    ASSUME TypeOK, NEW v \in Requests, NEW at, NEW r, Advance(v, at) \/ Selects(v, at, r)
    PROVE  req'[v].op = req[v].op /\ req'[v].event = req[v].event
  <1>1. req[v] \in Request /\ req \in [Requests -> Request]
    BY DEF TypeOK
  <1>2. CASE Advance(v, at)
    BY <1>1, <1>2 DEF Advance, Request
  <1>3. CASE Selects(v, at, r)
    BY <1>1, <1>3 DEF Selects, Request
  <1> QED
    BY <1>2, <1>3

\* The purchase a cancellation names is that of a row, which is paid for.
LEMMA CancelsStep == LInv /\ [Next]_vars => CancelsBooked'
  <1> SUFFICES ASSUME LInv, [Next]_vars, NEW v \in Requests,
                      req'[v].op = "cancel", req'[v].at \in {"modify", "write"}
               PROVE  recorded'[req'[v].event.sub] > 0
    BY DEF CancelsBooked
  <1>0. IInv /\ TypeOK /\ Held /\ RowsArePaidFor /\ CancelsBooked
    BY DEF LInv, IInv
  <1>1. CASE req[v].op = "cancel" /\ req[v].at \in {"modify", "write"} /\ req'[v].event = req[v].event
    <2>1. PICK s \in Subs : req[v].event = Updated(s, TRUE)
      BY <1>0, <1>1 DEF Held, EventMatches
    <2>2. req[v].event.sub = s
      BY <2>1 DEF Updated
    <2> QED
      BY <1>0, <1>1, <2>2, NothingIsLost DEF CancelsBooked
  <1>2. CASE CancelReads(v)
    <2>1. PICK r \in UserRows : req' = [req EXCEPT ![v] =
             [@ EXCEPT !.at = "modify", !.row = r, !.cancel = rows[r].cancel,
                       !.event = Updated(rows[r].sub, TRUE)]]
      BY <1>2 DEF CancelReads
    <2>2. req[v] \in Request
      BY <1>0 DEF TypeOK
    <2>3. req'[v].event = Updated(rows[r].sub, TRUE)
      BY <1>0, <2>1, <2>2 DEF TypeOK, Request
    <2>4. req'[v].event.sub = rows[r].sub /\ rows[r].sub \in Subs
      BY <1>0, <2>3, StoredRows DEF Updated, Row
    <2>5. recorded[rows[r].sub] > 0
      BY <1>0 DEF RowsArePaidFor
    <2> QED
      BY <1>0, <2>4, <2>5, NothingIsLost
  <1>3. CancelReads(v) \/ (req[v].op = "cancel" /\ req[v].at \in {"modify", "write"} /\ req'[v].event = req[v].event)
    <2>r. req[v] \in Request /\ req \in [Requests -> Request]
      BY <1>0 DEF TypeOK
    <2>1. CASE req'[v] = req[v]
      BY <2>1
    <2>2. req'[v] # Idle
      BY DEF Idle
    <2>3. ASSUME NEW e \in Events, Deliver(v, e) PROVE FALSE
      <3>1. e.type \in {"checkout", "updated"} /\ req'[v].op = e.type
        BY <2>r, <2>3, EventsSent DEF Deliver, Idle
      <3> QED
        BY <3>1
    <2>4. ~CancelAsked(v)
      BY <2>r DEF CancelAsked, Idle
    <2>5. ASSUME CheckoutReads(v) \/ UpdateReads(v) \/ CheckoutCommits(v) \/ UpdateCommits(v) PROVE FALSE
      <3>1. req[v].op \in {"checkout", "updated"}
        BY <2>5 DEF CheckoutReads, UpdateReads, CheckoutCommits, UpdateCommits, In
      <3>2. req'[v].op = req[v].op
        BY <1>0, <2>5, MovesOnKeepingEvent DEF CheckoutReads, UpdateReads, CheckoutCommits, UpdateCommits
      <3> QED
        BY <3>1, <3>2
    <2>6. CASE CancelModifies(v)
      BY <2>r, <2>6 DEF CancelModifies, In, Advance, Request
    <2>7. ASSUME NEW w \in Requests, Moves(w), w # v PROVE req'[v] = req[v]
      BY <2>r, <2>7 DEF Moves, Deliver, Fail, Answer, CheckoutReads, CheckoutCommits, UpdateReads,
         UpdateCommits, UpdateSwallows, CancelAsked, CancelReads, CancelModifies, CancelCommits,
         Advance, Selects, Finish
    <2>8. ASSUME Fail(v) \/ Answer(v) \/ UpdateSwallows(v) \/ CancelCommits(v) PROVE FALSE
      BY <2>r, <2>2, <2>8 DEF Fail, Answer, UpdateSwallows, CancelCommits, Finish
    <2>9. ASSUME NEW s \in Subs, Purchase(s) \/ Renew(s) \/ PeriodEnds(s) PROVE req' = req
      BY <2>9 DEF Purchase, Renew, PeriodEnds
    <2> QED
      BY <2>1, <2>3, <2>4, <2>5, <2>6, <2>7, <2>8, <2>9 DEF Next, Moves, vars
  <1> QED
    BY <1>1, <1>2, <1>3

\* Stripe delivers a checkout of a purchase that was paid for, and no purchase is
\* undone.
LEMMA CheckoutsStep == LInv /\ [Next]_vars => CheckoutsPaid'
  <1> SUFFICES ASSUME LInv, [Next]_vars PROVE CheckoutsPaid'
    OBVIOUS
  <1>0. IInv /\ TypeOK /\ Held /\ CheckoutsPaid
    BY DEF LInv, IInv
  <1>1. \A s \in Subs : stripe[s] # "none" => stripe'[s] # "none"
    BY <1>0 DEF TypeOK, Next, vars, Purchase, Renew, PeriodEnds, Deliver, Fail, Answer, CheckoutReads,
       CheckoutCommits, UpdateReads, UpdateCommits, UpdateSwallows, CancelAsked, CancelReads,
       CancelModifies, CancelCommits, db
  <1>2. ASSUME NEW s \in Subs, Checkout(s) \in pending' PROVE stripe'[s] # "none"
    <2>1. CASE Checkout(s) \in pending
      BY <1>0, <1>1, <2>1 DEF CheckoutsPaid
    <2>2. CASE Checkout(s) \notin pending
      <3>1. \A t \in Subs, c \in BOOLEAN : Checkout(s) # Updated(t, c)
        BY DEF Checkout, Updated
      <3>2. ASSUME NEW w \in Requests, CancelModifies(w) PROVE FALSE
        <4>1. PICK t \in Subs : req[w].event = Updated(t, TRUE)
          BY <1>0, <3>2 DEF CancelModifies, Held, EventMatches, In
        <4>2. req[w].event.sub = t
          BY <4>1 DEF Updated
        <4> QED
          BY <1>2, <2>2, <3>1, <3>2, <4>2 DEF CancelModifies
      <3>3. ASSUME NEW t \in Subs, Renew(t) PROVE FALSE
        BY <1>2, <2>2, <3>1, <3>3 DEF Renew
      <3>4. ASSUME NEW t \in Subs, Purchase(t) PROVE stripe'[s] # "none"
        <4>1. t = s
          BY <1>2, <2>2, <3>4 DEF Purchase, Checkout
        <4> QED
          BY <1>0, <3>4, <4>1 DEF Purchase, TypeOK
      <3> QED
        BY <1>2, <2>2, <3>2, <3>3, <3>4 DEF Next, vars, PeriodEnds, Deliver, Fail, Answer,
           CheckoutReads, CheckoutCommits, UpdateReads, UpdateCommits, UpdateSwallows, CancelAsked,
           CancelReads, CancelCommits
    <2> QED
      BY <2>1, <2>2
  <1>3. ASSUME NEW v \in Requests, req'[v].op = "checkout" PROVE stripe'[req'[v].event.sub] # "none"
    <2>r. req[v] \in Request /\ req \in [Requests -> Request]
      BY <1>0 DEF TypeOK
    <2>1. CASE req[v].op = "checkout" /\ req'[v].event = req[v].event
      <3>1. PICK s \in Subs : req[v].event = Checkout(s)
        BY <1>0, <2>1 DEF Held, EventMatches
      <3>2. req[v].event.sub = s
        BY <3>1 DEF Checkout
      <3> QED
        BY <1>0, <1>1, <2>1, <3>2 DEF CheckoutsPaid
    <2>2. ASSUME NEW e \in Events, Deliver(v, e) PROVE stripe'[req'[v].event.sub] # "none"
      <3>1. req'[v].op = e.type /\ req'[v].event = e /\ stripe' = stripe /\ e \in pending
        BY <2>r, <2>2 DEF Deliver, Idle
      <3>2. e.sub \in Subs /\ e = Checkout(e.sub)
        BY <1>3, <3>1, EventsSent
      <3> QED
        BY <1>0, <3>1, <3>2 DEF CheckoutsPaid
    <2>3. req'[v] # Idle /\ ~CancelAsked(v)
      <3>1. req'[v] # Idle
        BY <1>3 DEF Idle
      <3>2. ASSUME CancelAsked(v) PROVE FALSE
        <4>1. req'[v].op = "cancel"
          BY <2>r, <3>2 DEF CancelAsked, Idle
        <4> QED
          BY <1>3, <4>1
      <3> QED
        BY <3>1, <3>2
    <2>4. CASE /\ req'[v] # req[v]
               /\ \/ CheckoutReads(v) \/ CheckoutCommits(v) \/ UpdateReads(v) \/ UpdateCommits(v)
                  \/ CancelReads(v) \/ CancelModifies(v)
      <3>1. req'[v].op = req[v].op
        <4>1. CASE CancelReads(v)
          <5>1. PICK r \in UserRows : req' = [req EXCEPT ![v] =
                   [@ EXCEPT !.at = "modify", !.row = r, !.cancel = rows[r].cancel,
                             !.event = Updated(rows[r].sub, TRUE)]]
            BY <4>1 DEF CancelReads
          <5> QED
            BY <2>r, <5>1 DEF Request
        <4>2. CASE ~CancelReads(v)
          BY <1>0, <2>4, <4>2, MovesOnKeepingEvent DEF CheckoutReads, CheckoutCommits, UpdateReads,
             UpdateCommits, CancelModifies
        <4> QED
          BY <4>1, <4>2
      <3>2. CheckoutReads(v) \/ CheckoutCommits(v)
        BY <1>3, <2>4, <3>1 DEF UpdateReads, UpdateCommits, CancelReads, CancelModifies, In
      <3>3. req'[v].event = req[v].event
        BY <1>0, <3>2, MovesOnKeepingEvent DEF CheckoutReads, CheckoutCommits
      <3> QED
        BY <1>3, <2>1, <3>1, <3>3
    <2>5. ASSUME NEW w \in Requests, Moves(w), w # v PROVE req'[v] = req[v]
      BY <2>r, <2>5 DEF Moves, Deliver, Fail, Answer, CheckoutReads, CheckoutCommits, UpdateReads,
         UpdateCommits, UpdateSwallows, CancelAsked, CancelReads, CancelModifies, CancelCommits,
         Advance, Selects, Finish
    <2>6. ASSUME Fail(v) \/ Answer(v) \/ UpdateSwallows(v) \/ CancelCommits(v) PROVE FALSE
      BY <2>r, <2>3, <2>6 DEF Fail, Answer, UpdateSwallows, CancelCommits, Finish
    <2>7. ASSUME NEW s \in Subs, Purchase(s) \/ Renew(s) \/ PeriodEnds(s) PROVE req' = req
      BY <2>7 DEF Purchase, Renew, PeriodEnds
    <2>8. CASE req'[v] = req[v]
      BY <1>3, <2>1, <2>8
    <2> QED
      BY <2>2, <2>3, <2>4, <2>5, <2>6, <2>7, <2>8 DEF Next, Moves, vars
  <1> QED
    BY <1>2, <1>3 DEF CheckoutsPaid

\* The strengthened invariant of the ledger holds in every reachable state.
LEMMA LedgerInvariance == Spec => []LInv
  <1>1. Init => LInv
    <2> SUFFICES ASSUME Init PROVE LInv
      OBVIOUS
    <2>1. UserRows = {} /\ \A w \in Requests : req[w].op = "idle"
      BY DEF Init, UserRows, Idle
    <2> QED
      BY <2>1, InitHolds DEF LInv, PlansDiffer, CancelsBooked, CheckoutsPaid, Init
  <1>2. LInv /\ [Next]_vars => LInv'
    BY TypeStep, HeldStep, RecordedStep, PaidStep, AcknowledgedStep, PlansStep,
       CancelsStep, CheckoutsStep DEF LInv, IInv
  <1> QED
    BY <1>1, <1>2, PTL DEF Spec

------------------------------------------------------------------------------
(* Every step of the requests is a step of the ledger or none.               *)

\* What a step leaves alone looks the same in the ledger.
LEMMA RowsLookTheSame ==
    ASSUME rows' = rows
    PROVE  Plans' = Plans /\ Marked' = Marked
  BY DEF Plans, Marked, UserRows

\* Stripe's view and its queue of checkouts determine who paid and was told.
LEMMA StripeLooksTheSame ==
    ASSUME stripe' = stripe,
           \A s \in Subs : Checkout(s) \in pending' <=> Checkout(s) \in pending
    PROVE  Paid' = Paid /\ Told' = Told /\ Stopped' = Stopped
  BY DEF Paid, Told, Stopped

\* No checkout event is an update event.
LEMMA EventsDiffer ==
    /\ \A s, t \in Subs, c \in BOOLEAN : Checkout(s) # Updated(t, c)
    /\ \A s, t \in Subs : Checkout(s) = Checkout(t) => s = t
  BY DEF Checkout, Updated

\* Nobody has paid, nothing is booked.
LEMMA LedgerInit == Init => Ledger!Init
  <1> SUFFICES ASSUME Init PROVE Ledger!Init
    OBVIOUS
  <1>1. Paid = {} /\ Told = {} /\ Stopped = {}
    BY DEF Init, Paid, Told, Stopped
  <1>2. UserRows = {}
    BY DEF Init, UserRows
  <1>3. Plans = {} /\ Marked = {}
    BY <1>2 DEF Plans, Marked
  <1> QED
    BY <1>1, <1>3 DEF Init, Ledger!Init

\* A completed checkout session is a payment.
LEMMA PurchasePays ==
    ASSUME LInv, NEW s \in Subs, Purchase(s)
    PROVE  Ledger!Pay(s)
  <1>0. TypeOK
    BY DEF LInv, IInv
  <1>1. /\ stripe[s] = "none" /\ stripe' = [stripe EXCEPT ![s] = "live"]
        /\ pending' = pending \cup {Checkout(s)}
        /\ rows' = rows /\ recorded' = recorded
    BY DEF Purchase, db
  <1>2. s \notin Paid /\ Paid' = Paid \cup {s}
    BY <1>0, <1>1 DEF Paid, TypeOK
  <1>3. Stopped' = Stopped
    BY <1>0, <1>1 DEF Stopped, TypeOK
  <1>4. Told' = Told
    BY <1>0, <1>1, <1>2, EventsDiffer DEF Told, Paid, TypeOK
  <1> QED
    BY <1>1, <1>2, <1>3, <1>4, RowsLookTheSame DEF Ledger!Pay

\* The answer to a checkout tells Stripe that the purchase is done; Stripe may
\* know that from an earlier answer.
LEMMA AnswerTells ==
    ASSUME LInv, NEW w \in Requests, Answer(w)
    PROVE  (\E s \in Subs : Ledger!Tell(s)) \/ UNCHANGED Ledger!vars
  <1>0. TypeOK /\ Held /\ PaymentRecordedOnce
    BY DEF LInv, IInv
  <1>1. /\ req[w].at = "answer" /\ pending' = pending \ {req[w].event}
        /\ stripe' = stripe /\ rows' = rows /\ recorded' = recorded
    BY DEF Answer, db
  <1>2. req[w].op \in {"checkout", "updated"}
    BY <1>0, <1>1 DEF Held, StepMatches, TypeOK, Request
  <1>3. Paid' = Paid /\ Stopped' = Stopped
    BY <1>1 DEF Paid, Stopped
  <1>4. CASE \E s \in Told' : s \notin Told
    <2>1. PICK s \in Subs : s \in Told' /\ s \notin Told
      BY <1>4, <1>3 DEF Told, Paid
    <2>2. req[w].event = Checkout(s)
      BY <1>1, <1>3, <2>1 DEF Told
    <2>3. req[w].op = "checkout" /\ req[w].event.sub = s
      <3>1. req[w].op # "updated"
        BY <1>0, <2>2, EventsDiffer DEF Held, EventMatches
      <3>2. req[w].event.sub = s
        BY <2>2 DEF Checkout
      <3> QED
        BY <1>2, <3>1, <3>2
    <2>4. recorded[s] = 1
      BY <1>0, <1>1, <2>3 DEF Held, StepMatches, PaymentRecordedOnce, TypeOK
    <2>5. Told' = Told \cup {s}
      BY <1>1, <1>3, <2>1, <2>2, EventsDiffer DEF Told, Paid
    <2> QED
      BY <1>1, <1>3, <2>1, <2>4, <2>5, RowsLookTheSame DEF Ledger!Tell
  <1>5. CASE \A s \in Told' : s \in Told
    <2>1. Told' = Told
      BY <1>1, <1>3, <1>5 DEF Told
    <2> QED
      BY <1>1, <1>3, <2>1, RowsLookTheSame DEF Ledger!vars
  <1> QED
    BY <1>4, <1>5

\* The modification at Stripe stops the billing of a purchase that is booked.
LEMMA ModificationStops ==
    ASSUME LInv, NEW w \in Requests, CancelModifies(w)
    PROVE  \E s \in Subs : Ledger!Stop(s)
  <1>0. TypeOK /\ Held /\ PaymentRecordedOnce /\ CancelsBooked
    BY DEF LInv, IInv
  <1>1. PICK s \in Subs : req[w].event = Updated(s, TRUE)
    BY <1>0 DEF CancelModifies, Held, EventMatches, In
  <1>2. req[w].event.sub = s
    BY <1>1 DEF Updated
  <1>3. /\ stripe[s] \in {"live", "ending"} /\ stripe' = [stripe EXCEPT ![s] = "ending"]
        /\ pending' = pending \cup {Updated(s, TRUE)}
        /\ rows' = rows /\ recorded' = recorded
    BY <1>2 DEF CancelModifies, db
  <1>4. recorded[s] = 1
    BY <1>0, <1>2 DEF CancelModifies, CancelsBooked, PaymentRecordedOnce, TypeOK, In
  <1>5. Paid' = Paid /\ Stopped' = Stopped \cup {s}
    BY <1>0, <1>3 DEF Paid, Stopped, TypeOK
  <1>6. Told' = Told
    BY <1>3, <1>5, EventsDiffer DEF Told, Paid
  <1> QED
    BY <1>3, <1>4, <1>5, <1>6, RowsLookTheSame DEF Ledger!Stop

\* The commit of a checkout books the payment and shows it, in a row of its own
\* or in place of what the row it read shows by now.
LEMMA CheckoutBooks ==
    ASSUME LInv, NEW w \in Requests, CheckoutCommits(w)
    PROVE  \E s \in Subs : Ledger!Book(s)
  <1>0. IInv /\ PlansDiffer /\ CheckoutsPaid
    BY DEF LInv
  <1>1. PICK s, t \in Subs :
            /\ req[w].op = "checkout" /\ req[w].event.sub = s
            /\ recorded[s] = 0 /\ recorded' = [recorded EXCEPT ![s] = 1]
            /\ t \in UserRows \/ rows[t] = NoRow
            /\ UserRows' = UserRows \cup {t}
            /\ rows'[t].sub = s /\ rows'[t].cancel = rows[t].cancel
            /\ \A r \in UserRows \ {t} : rows'[r] = rows[r]
    BY <1>0, CheckoutFillsRow
  <1>2. stripe' = stripe /\ pending' = pending
    BY DEF CheckoutCommits
  <1>3. Paid' = Paid /\ Told' = Told /\ Stopped' = Stopped
    BY <1>2, StripeLooksTheSame
  <1>4. s \in Paid
    BY <1>0, <1>1 DEF CheckoutsPaid, Paid
  <1>5. CASE t \in UserRows
    <2>1. Plans' = (Plans \ {rows[t].sub}) \cup {s}
      BY <1>0, <1>1, <1>5 DEF Plans, PlansDiffer
    <2>2. Marked' = IF rows[t].sub \in Marked THEN (Marked \ {rows[t].sub}) \cup {s} ELSE Marked
      <3>1. rows[t].sub \in Marked <=> rows[t].cancel
        BY <1>0, <1>5 DEF Marked, PlansDiffer
      <3>2. Marked' = {rows'[r].sub : r \in {q \in UserRows : rows'[q].cancel}}
        BY <1>1, <1>5 DEF Marked
      <3>3. \A q \in UserRows : rows'[q].cancel = rows[q].cancel
        BY <1>1
      <3> QED
        BY <1>0, <1>1, <1>5, <3>1, <3>2, <3>3 DEF Marked, PlansDiffer
    <2>3. rows[t].sub \in Plans
      BY <1>5 DEF Plans
    <2> QED
      BY <1>1, <1>3, <1>4, <2>1, <2>2, <2>3 DEF Ledger!Book, Ledger!Replaces
  <1>6. CASE t \notin UserRows
    <2>1. rows[t] = NoRow /\ ~rows'[t].cancel
      BY <1>1, <1>6 DEF NoRow
    <2>2. Plans' = Plans \cup {s}
      BY <1>1, <1>6 DEF Plans
    <2>3. Marked' = Marked
      BY <1>1, <1>6, <2>1 DEF Marked
    <2> QED
      BY <1>1, <1>3, <1>4, <2>2, <2>3 DEF Ledger!Book
  <1> QED
    BY <1>5, <1>6

\* Stripe's news of a running plan takes a mark away, or changes nothing.
LEMMA UpdateUnmarks ==
    ASSUME LInv, NEW w \in Requests, UpdateCommits(w)
    PROVE  (\E s \in Subs : Ledger!Unmark(s)) \/ UNCHANGED Ledger!vars
  <1>0. IInv /\ TypeOK /\ PlansDiffer
    BY DEF LInv, IInv
  <1> DEFINE t == req[w].row
  <1>1. /\ t \in UserRows /\ UserRows' = UserRows
        /\ \A r \in UserRows : rows'[r].sub = rows[r].sub
        /\ \A r \in UserRows \ {t} : rows'[r] = rows[r]
        /\ rows'[t].cancel = (rows[t].cancel /\ ~req[w].cancel)
    BY <1>0, CommitKeepsPlans
  <1> HIDE DEF t
  <1>2. stripe' = stripe /\ pending' = pending /\ recorded' = recorded
    BY DEF UpdateCommits
  <1>3. Paid' = Paid /\ Told' = Told /\ Stopped' = Stopped
    BY <1>2, StripeLooksTheSame
  <1>4. Plans' = Plans
    BY <1>1 DEF Plans
  <1>5. rows[t].sub \in Subs
    BY <1>0, <1>1, StoredRows DEF Row
  <1>6. CASE rows'[t].cancel = rows[t].cancel
    <2>1. Marked' = Marked
      BY <1>1, <1>6 DEF Marked
    <2> QED
      BY <1>2, <1>3, <1>4, <2>1 DEF Ledger!vars
  <1>7. CASE rows'[t].cancel # rows[t].cancel
    <2>1. ~rows'[t].cancel
      BY <1>1, <1>7
    <2>2. Marked' = Marked \ {rows[t].sub}
      BY <1>0, <1>1, <2>1 DEF Marked, PlansDiffer
    <2> QED
      BY <1>2, <1>3, <1>4, <1>5, <2>2 DEF Ledger!Unmark
  <1> QED
    BY <1>6, <1>7

\* A cancellation is marked after Stripe was told, or was marked before.
LEMMA CancellationMarks ==
    ASSUME LInv, NEW w \in Requests, CancelCommits(w)
    PROVE  (\E s \in Subs : Ledger!Mark(s)) \/ UNCHANGED Ledger!vars
  <1>0. IInv /\ TypeOK /\ Held /\ PlansDiffer
    BY DEF LInv, IInv
  <1> DEFINE t == req[w].row
  <1>1. /\ t \in UserRows /\ UserRows' = UserRows
        /\ \A r \in UserRows : rows'[r].sub = rows[r].sub
        /\ \A r \in UserRows \ {t} : rows'[r] = rows[r]
        /\ rows'[t].cancel = (rows[t].cancel \/ ~req[w].cancel)
    BY <1>0, CommitKeepsPlans
  <1> HIDE DEF t
  <1>2. stripe' = stripe /\ pending' = pending /\ recorded' = recorded
    BY DEF CancelCommits
  <1>3. Paid' = Paid /\ Told' = Told /\ Stopped' = Stopped
    BY <1>2, StripeLooksTheSame
  <1>4. Plans' = Plans /\ rows[t].sub \in Plans
    BY <1>1 DEF Plans
  <1>5. rows[t].sub \in Subs
    BY <1>0, <1>1, StoredRows DEF Row
  <1>6. CASE rows'[t].cancel = rows[t].cancel
    <2>1. Marked' = Marked
      BY <1>1, <1>6 DEF Marked
    <2> QED
      BY <1>2, <1>3, <1>4, <2>1 DEF Ledger!vars
  <1>7. CASE rows'[t].cancel # rows[t].cancel
    <2>1. rows'[t].cancel /\ ~rows[t].cancel
      <3>1. rows[t].cancel \in BOOLEAN
        BY <1>0, <1>1, StoredRows DEF Row
      <3> QED
        BY <1>1, <1>7, <3>1
    <2>2. Marked' = Marked \cup {rows[t].sub}
      BY <1>1, <2>1 DEF Marked
    <2>3. Stopped # {}
      <3>1. PICK s \in Subs : req[w].event = Updated(s, TRUE)
        BY <1>0 DEF CancelCommits, Held, EventMatches, In
      <3>2. req[w].event.sub = s
        BY <3>1 DEF Updated
      <3> QED
        BY <1>0, <3>2 DEF CancelCommits, Held, StepMatches, In, Stopped
    <2> QED
      BY <1>2, <1>3, <1>4, <1>5, <2>2, <2>3 DEF Ledger!Mark
  <1> QED
    BY <1>6, <1>7

\* The other steps write no row, and neither pay nor acknowledge a checkout.
LEMMA OtherStepsStutter ==
    ASSUME LInv,
           \/ \E s \in Subs : Renew(s) \/ PeriodEnds(s)
           \/ \E w \in Requests :
                  \/ \E e \in Events : Deliver(w, e)
                  \/ Fail(w) \/ CheckoutReads(w) \/ UpdateReads(w) \/ UpdateSwallows(w)
                  \/ CancelAsked(w) \/ CancelReads(w)
           \/ UNCHANGED vars
    PROVE  UNCHANGED Ledger!vars
  <1>0. TypeOK /\ Held
    BY DEF LInv, IInv
  <1>1. rows' = rows /\ recorded' = recorded
    BY DEF Renew, PeriodEnds, Deliver, Fail, CheckoutReads, UpdateReads, UpdateSwallows, CancelAsked,
       CancelReads, db, vars
  <1>2. \A s \in Subs : Checkout(s) \in pending' <=> Checkout(s) \in pending
    <2>1. ASSUME NEW w \in Requests, UpdateSwallows(w)
          PROVE  \A s \in Subs : Checkout(s) \in pending' <=> Checkout(s) \in pending
      <3>1. \A s \in Subs : req[w].event # Checkout(s)
        BY <1>0, <2>1, EventsDiffer DEF UpdateSwallows, Held, EventMatches
      <3> QED
        BY <2>1, <3>1 DEF UpdateSwallows
    <2>2. ASSUME NEW s \in Subs, Renew(s)
          PROVE  \A t \in Subs : Checkout(t) \in pending' <=> Checkout(t) \in pending
      BY <2>2, EventsDiffer DEF Renew
    <2> QED
      BY <2>1, <2>2 DEF PeriodEnds, Deliver, Fail, CheckoutReads, UpdateReads, CancelAsked,
         CancelReads, vars
  <1>3. CASE stripe' = stripe
    BY <1>1, <1>2, <1>3, RowsLookTheSame, StripeLooksTheSame DEF Ledger!vars
  <1>4. ASSUME NEW s \in Subs, PeriodEnds(s) PROVE UNCHANGED Ledger!vars
    <2>1. Paid' = Paid /\ Stopped' = Stopped
      BY <1>0, <1>4 DEF PeriodEnds, Paid, Stopped, TypeOK
    <2>2. Told' = Told
      BY <1>2, <2>1 DEF Told, Paid
    <2> QED
      BY <1>1, <2>1, <2>2, RowsLookTheSame DEF Ledger!vars
  <1> QED
    BY <1>3, <1>4 DEF Renew, Deliver, Fail, CheckoutReads, UpdateReads, UpdateSwallows, CancelAsked,
       CancelReads, vars

\* Every step of the requests, of Stripe and of the user is one of the ledger.
LEMMA LedgerStep == LInv /\ [Next]_vars => [Ledger!Next]_(Ledger!vars)
  <1> SUFFICES ASSUME LInv, [Next]_vars PROVE Ledger!Next \/ UNCHANGED Ledger!vars
    OBVIOUS
  <1>1. CASE \E s \in Subs : Purchase(s)
    BY <1>1, PurchasePays DEF Ledger!Next
  <1>2. CASE \E w \in Requests : Answer(w)
    BY <1>2, AnswerTells DEF Ledger!Next
  <1>3. CASE \E w \in Requests : CheckoutCommits(w)
    BY <1>3, CheckoutBooks DEF Ledger!Next
  <1>4. CASE \E w \in Requests : UpdateCommits(w)
    BY <1>4, UpdateUnmarks DEF Ledger!Next
  <1>5. CASE \E w \in Requests : CancelModifies(w)
    BY <1>5, ModificationStops DEF Ledger!Next
  <1>6. CASE \E w \in Requests : CancelCommits(w)
    BY <1>6, CancellationMarks DEF Ledger!Next
  <1> QED
    BY <1>1, <1>2, <1>3, <1>4, <1>5, <1>6, OtherStepsStutter DEF Next

\* The payment service keeps the ledger of PaymentLedger: for any purchases and
\* any number of requests, deliveries and failures, each payment is booked once
\* and before Stripe is told, and no plan shows a cancellation before Stripe was
\* told to stop billing a purchase of the user.
THEOREM LedgerKept == Spec => KeepsLedger
  <1>1. Init => Ledger!Init
    BY LedgerInit
  <1>2. LInv /\ [Next]_vars => [Ledger!Next]_(Ledger!vars)
    BY LedgerStep
  <1> QED
    BY <1>1, <1>2, LedgerInvariance, PTL DEF Spec, KeepsLedger, Ledger!Spec
=============================================================================
