------------------------------ MODULE Accounts ------------------------------
(***************************************************************************)
(* The users table and the requests that write it: signup, one-time        *)
(* passwords, e-mail verification, address, MFA and password               *)
(* (app/api/router.py, app/auth/user.py), the profile                      *)
(* (app/services/settings_service.py), the Stripe customer a checkout      *)
(* makes (app/services/payment_service.py), and the onboarding step that   *)
(* connecting an exchange sets (app/api/exchange_routers.py).              *)
(*                                                                         *)
(* Requests run concurrently, each in a database session of its own.  A    *)
(* request reads the row once (the second select of an authenticated       *)
(* request finds the object in the session), checks what it read, assigns  *)
(* attributes, commits, and reads the row again (db.refresh).  A commit    *)
(* is atomic and writes only the attributes whose value differs from the   *)
(* one read.  A request that is rejected, and one that only reads, changes *)
(* nothing and is left out.                                                *)
(*                                                                         *)
(* Whatever a request makes (a one-time password and the time it expires   *)
(* at, a password, an MFA secret, a Stripe customer) is named after it:    *)
(* two requests never draw the same number.  Phone numbers are unique in   *)
(* the way e-mail addresses are and are left out.                          *)
(***************************************************************************)
EXTENDS Naturals, FiniteSets

CONSTANTS
    Requests,   \* HTTP requests; each is made at most once
    Emails,     \* e-mail addresses
    None,       \* NULL
    MaxActive   \* requests in progress at once: a bound

ASSUME NoneFresh == None \notin Requests \cup Emails

VARIABLES
    users,      \* the users table; a row is named after the signup that made it
    addresses,  \* rows of the addresses table per user
    customers,  \* customers Stripe has made
    expired,    \* expiry times that have passed
    mailed,     \* one-time passwords handed to send_verification_email
    req         \* the requests

vars == <<users, addresses, customers, expired, mailed, req>>

------------------------------------------------------------------------------
Made == Requests \cup {None}

\* otp and expiry stand for email_otp and email_otp_expiry, secret and enabled
\* for mfa_secret and is_mfa_enabled, filled for is_address_filled.
User ==
    [email : Emails \cup {None}, password : Made, otp : Made, expiry : Made,
     verified : BOOLEAN, step : 0..4, customer : Made, filled : BOOLEAN,
     secret : Made, enabled : BOOLEAN]

NoUser ==
    [email |-> None, password |-> None, otp |-> None, expiry |-> None,
     verified |-> FALSE, step |-> 0, customer |-> None, filled |-> FALSE,
     secret |-> None, enabled |-> FALSE]

Exists(u) == users[u].email # None

Taken(e) == \E u \in Requests : users[u].email = e

\* "address": about to insert the address; "commit": about to commit the user's
\* attributes; "refresh": committed, about to read the row again.
Steps == {"none", "address", "commit", "refresh", "done", "failed"}

\* The one-time password of these goes out by e-mail when they are answered.
MailingOps == {"signup", "resend_otp", "forgot_password"}

Ops == MailingOps \cup
    {"none", "verify_email", "create_address", "enable_mfa", "verify_mfa",
     "disable_mfa", "reset_mfa", "forgot_password_verify", "reset_password",
     "update_profile", "connect_exchange"}

\* A request remembers the row as it read it and as it wants it.
Request == [op : Ops, at : Steps, user : Made, saw : User, new : User]

Blank == [op |-> "none", at |-> "none", user |-> None, saw |-> NoUser, new |-> NoUser]

TypeOK ==
    /\ users \in [Requests -> User]
    /\ addresses \in [Requests -> SUBSET Requests]
    /\ customers \in SUBSET Requests
    /\ expired \in SUBSET Requests
    /\ mailed \in SUBSET Made
    /\ req \in [Requests -> Request]

Init ==
    /\ users = [u \in Requests |-> NoUser]
    /\ addresses = [u \in Requests |-> {}]
    /\ customers = {}
    /\ expired = {}
    /\ mailed = {}
    /\ req = [w \in Requests |-> Blank]

------------------------------------------------------------------------------
(* A request reads its user's row, checks it and assigns attributes.         *)

InProgress(w) == req[w].at \in {"address", "commit", "refresh"}

Starts(w, op, at, u, new) ==
    /\ req[w] = Blank
    /\ Cardinality({v \in Requests : InProgress(v)}) < MaxActive
    /\ req' = [req EXCEPT ![w] =
           [op |-> op, at |-> at, user |-> u, saw |-> users[u], new |-> new]]
    /\ UNCHANGED <<users, addresses, expired, mailed>>

\* The row of an existing user is to become new.
Edits(w, op, u, new) ==
    /\ Exists(u)
    /\ Starts(w, op, "commit", u, new)

\* get_by_email and get_by_phone find nobody.
Signup(w, e) ==
    /\ ~Taken(e)
    /\ Starts(w, "signup", "commit", w,
           [NoUser EXCEPT !.email = e, !.password = w, !.otp = w, !.expiry = w])
    /\ UNCHANGED customers

\* Slip: the expiry is left as it was.
ResendKeepsExpiry(w, u) ==
    /\ ~users[u].verified
    /\ Edits(w, "resend_otp", u, [users[u] EXCEPT !.otp = w])
    /\ UNCHANGED customers

ResendOtp(w, u) ==
    /\ ~users[u].verified
    /\ Edits(w, "resend_otp", u, [users[u] EXCEPT !.otp = w, !.expiry = w])
    /\ UNCHANGED customers

\* The client gives the row's one-time password.  Comparing an expiry of NULL
\* with the time raises, in this operation and in forgot_password_verify.
GivesOtp(u) == users[u].otp # None /\ users[u].expiry # None

\* Slip: when Stripe raises, the user is verified all the same.
VerifyWithoutCustomer(w, u) ==
    /\ ~users[u].verified
    /\ GivesOtp(u)
    /\ users[u].expiry \notin expired
    /\ Edits(w, "verify_email", u,
           [users[u] EXCEPT !.verified = TRUE, !.step = 1, !.otp = None, !.expiry = None])
    /\ UNCHANGED customers

\* Slip: whether the user is verified already is not checked.
VerifyAgain(w, u) ==
    /\ GivesOtp(u)
    /\ users[u].expiry \notin expired
    /\ Edits(w, "verify_email", u,
           [users[u] EXCEPT !.verified = TRUE, !.step = 1, !.customer = w,
                            !.otp = None, !.expiry = None])
    /\ customers' = customers \cup {w}

\* The customer is made at Stripe before the commit that stores it.
VerifyEmail(w, u) ==
    /\ ~users[u].verified
    /\ GivesOtp(u)
    /\ users[u].expiry \notin expired
    /\ Edits(w, "verify_email", u,
           [users[u] EXCEPT !.verified = TRUE, !.step = 1, !.customer = w,
                            !.otp = None, !.expiry = None])
    /\ customers' = customers \cup {w}

\* Slip: the user is marked first and the address inserted afterwards.
MarkBeforeAddress(w, u) ==
    /\ Edits(w, "create_address", u, [users[u] EXCEPT !.filled = TRUE, !.step = 2])
    /\ UNCHANGED customers

\* The address is committed on its own, the user's attributes after it.
CreateAddress(w, u) ==
    /\ Exists(u)
    /\ Starts(w, "create_address", "address", u,
           [users[u] EXCEPT !.filled = TRUE, !.step = 2])
    /\ UNCHANGED customers

EnableMfa(w, u) ==
    /\ Edits(w, "enable_mfa", u, [users[u] EXCEPT !.secret = w, !.enabled = FALSE])
    /\ UNCHANGED customers

\* The client proves that it knows the secret.
VerifyMfa(w, u) ==
    /\ users[u].secret # None
    /\ Edits(w, "verify_mfa", u, [users[u] EXCEPT !.enabled = TRUE, !.step = 4])
    /\ UNCHANGED customers

\* Slip: only the secret is cleared.
DisableKeepsEnabled(w, u) ==
    /\ users[u].secret # None
    /\ Edits(w, "disable_mfa", u, [users[u] EXCEPT !.secret = None])
    /\ UNCHANGED customers

\* Slip: the secret is cleared with False instead of None.
DisableAssignsFalse(w, u) ==
    /\ users[u].secret # None
    /\ Edits(w, "disable_mfa", u, [users[u] EXCEPT !.secret = FALSE, !.enabled = FALSE])
    /\ UNCHANGED customers

DisableMfa(w, u) ==
    /\ users[u].secret # None
    /\ Edits(w, "disable_mfa", u, [users[u] EXCEPT !.secret = None, !.enabled = FALSE])
    /\ UNCHANGED customers

\* is_mfa_verified, which the code also resets, is no column.
ResetMfa(w, u) ==
    /\ Edits(w, "reset_mfa", u, [users[u] EXCEPT !.secret = w, !.enabled = TRUE])
    /\ UNCHANGED customers

ForgotPassword(w, u) ==
    /\ Edits(w, "forgot_password", u, [users[u] EXCEPT !.otp = w, !.expiry = w])
    /\ UNCHANGED customers

\* The expiry is compared with itself (router.py:468), never with the time.
ForgotPasswordVerify(w, u) ==
    /\ GivesOtp(u)
    /\ Edits(w, "forgot_password_verify", u,
           [users[u] EXCEPT !.otp = None, !.expiry = None])
    /\ UNCHANGED customers

ResetPassword(w, u) ==
    /\ Edits(w, "reset_password", u, [users[u] EXCEPT !.password = w])
    /\ UNCHANGED customers

\* connect_exchange, after the keys were checked and stored.  The rest of what it
\* writes is ExchangeAccounts'.
ConnectExchange(w, u) ==
    /\ Edits(w, "connect_exchange", u, [users[u] EXCEPT !.step = 3])
    /\ UNCHANGED customers

\* update_user_profile with a new address that nobody has.
UpdateProfile(w, u, e) ==
    /\ ~Taken(e)
    /\ Edits(w, "update_profile", u, [users[u] EXCEPT !.email = e])
    /\ UNCHANGED customers

------------------------------------------------------------------------------
(* What follows the read.                                                    *)

Finish(w, at) == req' = [req EXCEPT ![w] = [Blank EXCEPT !.at = at]]

\* create_checkout_session of a user without a customer: one is made, assigned
\* to the object, and never committed.
Checkout(w, u) ==
    /\ req[w] = Blank
    /\ Exists(u)
    /\ users[u].customer = None
    /\ customers' = customers \cup {w}
    /\ Finish(w, "done")
    /\ UNCHANGED <<users, addresses, expired, mailed>>

\* AuthUser.create_address commits.
AddressCommits(w) ==
    /\ req[w].at = "address"
    /\ addresses' = [addresses EXCEPT ![req[w].user] = @ \cup {w}]
    /\ req' = [req EXCEPT ![w].at = "commit"]
    /\ UNCHANGED <<users, customers, expired, mailed>>

\* One attribute in an UPDATE.
Set(row, saw, new) == IF new # saw THEN new ELSE row

\* Slip: the UPDATE writes every attribute of the object.
FlushAll(row, saw, new) == new

\* The row after the unit of work is flushed: what the request did not change
\* keeps the value other requests have given it since.
Flush(row, saw, new) ==
    [email    |-> Set(row.email, saw.email, new.email),
     password |-> Set(row.password, saw.password, new.password),
     otp      |-> Set(row.otp, saw.otp, new.otp),
     expiry   |-> Set(row.expiry, saw.expiry, new.expiry),
     verified |-> Set(row.verified, saw.verified, new.verified),
     step     |-> Set(row.step, saw.step, new.step),
     customer |-> Set(row.customer, saw.customer, new.customer),
     filled   |-> Set(row.filled, saw.filled, new.filled),
     secret   |-> Set(row.secret, saw.secret, new.secret),
     enabled  |-> Set(row.enabled, saw.enabled, new.enabled)]

Flushed(w) == Flush(users[req[w].user], req[w].saw, req[w].new)

\* Slip: the column has no unique constraint.
NoConstraint(w) == TRUE

\* users.email is unique: otherwise the commit raises.
EmailIsFree(w) ==
    \A u \in Requests \ {req[w].user} : users[u].email # Flushed(w).email

Commits(w) ==
    /\ req[w].at = "commit"
    /\ EmailIsFree(w)
    /\ users' = [users EXCEPT ![req[w].user] = Flushed(w)]
    /\ req' = [req EXCEPT ![w].at = "refresh"]
    /\ UNCHANGED <<addresses, customers, expired, mailed>>

\* Slip: the mail is queued with the one-time password of the row as read.
MailsOldOtp(w) == req[w].saw.otp

\* The mail carries what db.refresh read, whoever wrote it.
MailedOtp(w) == users[req[w].user].otp

\* The row is read again and the request answered.
Refreshes(w) ==
    /\ req[w].at = "refresh"
    /\ mailed' = IF req[w].op \in MailingOps THEN mailed \cup {MailedOtp(w)} ELSE mailed
    /\ Finish(w, "done")
    /\ UNCHANGED <<users, addresses, customers, expired>>

\* A call raises, or the client goes away.
Fails(w) ==
    /\ InProgress(w)
    /\ Finish(w, "failed")
    /\ UNCHANGED <<users, addresses, customers, expired, mailed>>

\* Five minutes have passed since request r set the expiry.
OtpExpires(r) ==
    /\ r \notin expired
    /\ \E u \in Requests : users[u].expiry = r
    /\ expired' = expired \cup {r}
    /\ UNCHANGED <<users, addresses, customers, mailed, req>>

Next ==
    \/ \E w \in Requests, e \in Emails :
           Signup(w, e) \/ \E u \in Requests : UpdateProfile(w, u, e)
    \/ \E w \in Requests, u \in Requests :
           \/ ResendOtp(w, u) \/ VerifyEmail(w, u) \/ CreateAddress(w, u)
           \/ EnableMfa(w, u) \/ VerifyMfa(w, u) \/ DisableMfa(w, u) \/ ResetMfa(w, u)
           \/ ForgotPassword(w, u) \/ ForgotPasswordVerify(w, u) \/ ResetPassword(w, u)
           \/ ConnectExchange(w, u) \/ Checkout(w, u)
    \/ \E w \in Requests :
           AddressCommits(w) \/ Commits(w) \/ Refreshes(w) \/ Fails(w) \/ OtpExpires(w)

Spec == Init /\ [][Next]_vars

------------------------------------------------------------------------------
(* Properties.                                                               *)

\* Two signups, or a signup and a profile change, that both found an address
\* free do not both get it (router.py:60, settings_service.py:25).
OneUserPerEmail ==
    \A u, v \in Requests : Exists(u) /\ users[u].email = users[v].email => u = v

\* The expiry in a row is the one that was set with the one-time password in
\* it, and goes with it: no interleaving of resend, verify and forgot combines
\* the one's password with the other's time (auth/user.py:63, 97, router.py:471).
OtpKeepsItsExpiry == \A u \in Requests : users[u].otp = users[u].expiry

\* A verified user has a customer that exists at Stripe and has left step 0,
\* although Stripe is called in between and may fail (auth/user.py:92).
VerifiedIsComplete ==
    \A u \in Requests : users[u].verified =>
        users[u].customer \in customers /\ users[u].step > 0

\* Whoever is marked as having an address has one, whichever of the two commits
\* of create_address failed (router.py:154).
FilledHasAddress == \A u \in Requests : users[u].filled => addresses[u] # {}

\* A one-time password that is in force after its request was answered was
\* mailed, although requests mail what they read and not what they drew.
AnsweredOtpWasMailed ==
    \A u \in Requests :
        LET o == users[u].otp IN o # None /\ req[o].at = "done" => o \in mailed

\* The customer that a user's payments belong to is given up only for that of a
\* rival verification, which read the row before it was verified: no one-time
\* password of a later resend or forgotten password, and no stale commit of
\* another operation, replaces it (auth/user.py:77, 95-97).
CustomerReplacedByRivalOnly ==
    [][\A u \in Requests : users[u].customer \notin {None, users'[u].customer} =>
          \E w \in Requests :
              /\ Commits(w) /\ req[w].user = u
              /\ req[w].op = "verify_email" /\ ~req[w].saw.verified]_vars

\* A one-time password, password or MFA secret that was used up or replaced
\* does not come back: what a row gets is made by the request that commits.
NoOldValueReturns ==
    [][\A u \in Requests :
          LET Own(old, new) ==
                  new \in {old, None} \/ \E w \in Requests : new = w /\ Commits(w)
          IN  /\ Own(users[u].otp, users'[u].otp)
              /\ Own(users[u].password, users'[u].password)
              /\ Own(users[u].secret, users'[u].secret)]_vars

\* MFA that is enabled has a secret to check against: a request that works on
\* the row as it is keeps it so.  Only a commit over a row that changed after it
\* was read can break it, a verification over a disabling (router.py:237, 314).
MfaTornByStaleReadOnly ==
    [][\A u \in Requests :
          LET Torn(row) == row.enabled /\ row.secret = None
              Stale(w) == \/ req[w].saw.secret # users[u].secret
                          \/ req[w].saw.enabled # users[u].enabled
          IN  Torn(users'[u]) /\ ~Torn(users[u]) =>
                  \E w \in Requests : Commits(w) /\ req[w].user = u /\ Stale(w)]_vars

\* forgot_password_verify refuses a one-time password whose five minutes are
\* over: "OTP expired" (router.py:469).
ResetOtpInTime ==
    [][\A w, u \in Requests : ForgotPasswordVerify(w, u) => users[u].expiry \notin expired]_vars

------------------------------------------------------------------------------
(* What the table promises: a registry of users.                             *)

EmailOf == [u \in Requests |-> users[u].email]
CustomerOf == [u \in Requests |-> users[u].customer]
Verified == {u \in Requests : users[u].verified}
Housed == {u \in Requests : addresses[u] # {}}
Filled == {u \in Requests : users[u].filled}

Registry == INSTANCE UserRegistry WITH
    Users <- Requests, Customers <- Requests, Nothing <- None,
    email <- EmailOf, verified <- Verified, customer <- CustomerOf,
    issued <- customers, housed <- Housed, filled <- Filled

\* However the requests interleave between what they read and what they commit,
\* each commit is one step of a registry: it takes an address that is free, or
\* verifies with a customer of its own that exists, or marks an address that is
\* there, and leaves everything else of every user alone (router.py:60, 154,
\* auth/user.py:92, settings_service.py:25).
KeepsRegistry == Registry!Spec
=============================================================================
