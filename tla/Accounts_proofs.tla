--------------------------- MODULE Accounts_proofs ---------------------------
(***************************************************************************)
(* Safety of Accounts for any requests and addresses.  What a commit may   *)
(* do to a row that others have written since it was read follows from     *)
(* what each operation assigns (GoodEdit), from what a request may rely on *)
(* until it is answered (Held), and from who made a one-time password      *)
(* (OtpMaker).                                                             *)
(***************************************************************************)
EXTENDS Accounts, TLAPS

\* What an operation that read saw may assign.
GoodEdit(w, op, saw, new) ==
    /\ new.email # None
    /\ new.otp = new.expiry
    /\ new.otp \in {saw.otp, None} \/ (new.otp = w /\ op \in MailingOps)
    /\ new.password \in {saw.password, w}
    /\ new.secret \in {saw.secret, w, None}
    /\ saw.verified => new.verified
    /\ saw.filled => new.filled
    /\ new.customer = saw.customer \/ (new.customer = w /\ op = "verify_email" /\ ~saw.verified)
    /\ new.verified => saw.verified \/ (new.customer = w /\ new.step > 0 /\ op = "verify_email")
    /\ new.step = saw.step \/ new.step > 0
    /\ new.filled => saw.filled \/ op = "create_address"
    /\ new.enabled /\ new.secret = None => saw.enabled /\ saw.secret = None

\* What a request in progress relies on; r is its record.
Held(w, r) ==
    /\ r.user \in Requests
    /\ req[r.user].at # "none"
    /\ r.op # "none"
    /\ r.saw.otp = r.saw.expiry
    /\ GoodEdit(w, r.op, r.saw, r.new)
    /\ r.op = "verify_email" => w \in customers
    /\ r.op = "create_address" /\ r.at # "address" => addresses[r.user] # {}
    /\ r.at = "address" => r.op = "create_address"
    /\ r.saw.customer # None => users[r.user].customer # None
    /\ r.saw.step > 0 => users[r.user].step > 0

RequestsHeld == \A w \in Requests : InProgress(w) => Held(w, req[w])

\* The customer of a row exists at Stripe, and a verified row has one.
CustomersExist ==
    \A u \in Requests :
        /\ users[u].customer \in customers \cup {None}
        /\ users[u].verified => users[u].customer # None /\ users[u].step > 0

\* A one-time password in a row was committed by the request it is named after.
OtpMaker ==
    \A u \in Requests :
        LET o == users[u].otp
        IN  o # None =>
                /\ req[o].at \in {"refresh", "done", "failed"}
                /\ req[o].at = "refresh" => req[o].op \in MailingOps /\ req[o].user = u

\* A row appears when the signup it is named after commits.
RowMaker == \A u \in Requests : req[u].at = "none" => users[u] = NoUser

IInv ==
    /\ TypeOK
    /\ RowMaker
    /\ OneUserPerEmail
    /\ OtpKeepsItsExpiry
    /\ CustomersExist
    /\ FilledHasAddress
    /\ OtpMaker
    /\ AnsweredOtpWasMailed
    /\ RequestsHeld

THEOREM InitHolds == Init => IInv
  <1> SUFFICES ASSUME Init PROVE IInv
    OBVIOUS
  <1>1. NoUser \in User
    BY DEF NoUser, User, Made
  <1>2. Blank \in Request
    BY <1>1 DEF Blank, Request, Ops, Steps, Made
  <1>3. TypeOK
    BY <1>1, <1>2 DEF Init, TypeOK
  <1>4. \A u \in Requests :
            /\ users[u].email = None /\ users[u].otp = None /\ users[u].expiry = None
            /\ ~users[u].verified /\ ~users[u].filled /\ users[u].customer = None
    BY DEF Init, NoUser
  <1>5. \A w \in Requests : req[w].at = "none"
    BY DEF Init, Blank
  <1>r. RowMaker
    BY DEF Init, RowMaker
  <1>6. OneUserPerEmail /\ OtpKeepsItsExpiry /\ CustomersExist /\ FilledHasAddress
    BY <1>4 DEF OneUserPerEmail, Exists, OtpKeepsItsExpiry, CustomersExist, FilledHasAddress
  <1>7. OtpMaker /\ AnsweredOtpWasMailed
    BY <1>4 DEF OtpMaker, AnsweredOtpWasMailed
  <1>8. RequestsHeld
    BY <1>5 DEF RequestsHeld, InProgress
  <1> QED
    BY <1>3, <1>r, <1>6, <1>7, <1>8 DEF IInv

------------------------------------------------------------------------------
(* Rows and requests have their types.                                       *)

LEMMA UserFields ==
    ASSUME NEW row \in User
    PROVE  /\ row.email \in Emails \cup {None}
           /\ row.password \in Made /\ row.otp \in Made /\ row.expiry \in Made
           /\ row.customer \in Made /\ row.secret \in Made
           /\ row.verified \in BOOLEAN /\ row.filled \in BOOLEAN /\ row.enabled \in BOOLEAN
           /\ row.step \in 0..4
  BY DEF User

\* Two of the assignments that are made to a row.
LEMMA StepAssigned ==
    ASSUME NEW row \in User
    PROVE  /\ [row EXCEPT !.step = 1] \in User
           /\ [row EXCEPT !.step = 2] \in User
           /\ [row EXCEPT !.step = 3] \in User
           /\ [row EXCEPT !.step = 4] \in User
  <1>1. \A n \in 0..4 : [row EXCEPT !.step = n] \in User
    BY DEF User
  <1>2. 1 \in 0..4 /\ 2 \in 0..4 /\ 3 \in 0..4 /\ 4 \in 0..4
    OBVIOUS
  <1> QED
    BY <1>1, <1>2, Zenon

LEMMA FlagAssigned ==
    ASSUME NEW row \in User, NEW b \in BOOLEAN
    PROVE  /\ [row EXCEPT !.verified = b] \in User
           /\ [row EXCEPT !.filled = b] \in User
           /\ [row EXCEPT !.enabled = b] \in User
  BY DEF User

\* A flushed row takes each attribute from the row or from the object.
LEMMA FlushType ==
    ASSUME NEW row \in User, NEW saw \in User, NEW new \in User
    PROVE  Flush(row, saw, new) \in User
  <1>1. \A a, b, c : Set(a, b, c) \in {a, c}
    BY DEF Set
  <1>2. /\ Set(row.email, saw.email, new.email) \in Emails \cup {None}
        /\ Set(row.password, saw.password, new.password) \in Made
        /\ Set(row.otp, saw.otp, new.otp) \in Made
        /\ Set(row.expiry, saw.expiry, new.expiry) \in Made
        /\ Set(row.customer, saw.customer, new.customer) \in Made
        /\ Set(row.secret, saw.secret, new.secret) \in Made
        /\ Set(row.step, saw.step, new.step) \in 0..4
    BY <1>1, UserFields
  <1>3. /\ Set(row.verified, saw.verified, new.verified) \in BOOLEAN
        /\ Set(row.filled, saw.filled, new.filled) \in BOOLEAN
        /\ Set(row.enabled, saw.enabled, new.enabled) \in BOOLEAN
    BY <1>1, UserFields
  <1> QED
    BY <1>2, <1>3 DEF Flush, User

LEMMA RequestFields ==
    ASSUME NEW r \in Request
    PROVE  /\ r.op \in Ops /\ r.at \in Steps /\ r.user \in Made
           /\ r.saw \in User /\ r.new \in User
  BY DEF Request

\* The step of a request in its place among the others.
LEMMA OthersUnchanged ==
    ASSUME TypeOK, NEW w \in Requests, NEW r \in Request, req' = [req EXCEPT ![w] = r]
    PROVE  /\ req' \in [Requests -> Request]
           /\ req'[w] = r
           /\ \A v \in Requests : v # w => req'[v] = req[v]
  BY DEF TypeOK

LEMMA BlankTyped ==
    ASSUME NEW at \in Steps
    PROVE  /\ [Blank EXCEPT !.at = at] \in Request
           /\ [Blank EXCEPT !.at = at].at = at
  <1>1. NoUser \in User
    BY DEF NoUser, User, Made
  <1>2. Blank \in Request
    BY <1>1 DEF Blank, Request, Ops, Steps, Made
  <1> QED
    BY <1>2 DEF Request

------------------------------------------------------------------------------
(* A request starts.                                                         *)

\* Starting with a good edit keeps the invariant.
LEMMA StartKeeps ==
    ASSUME IInv, NEW w \in Requests, NEW op \in Ops \ {"none"}, NEW u \in Requests,
           NEW at \in {"address", "commit"}, NEW new \in User,
           Starts(w, op, at, u, new),
           GoodEdit(w, op, users[u], new),
           customers' = customers \/ customers' = customers \cup {w},
           op = "verify_email" => w \in customers',
           (at = "address") <=> (op = "create_address"),
           req[u].at # "none" \/ u = w
    PROVE  IInv'
  <1> DEFINE r == [op |-> op, at |-> at, user |-> u, saw |-> users[u], new |-> new]
  <1>1. TypeOK /\ users \in [Requests -> User]
    BY DEF IInv, TypeOK
  <1>2. r \in Request
    BY <1>1 DEF Request, Steps, Made
  <1>3. /\ req[w] = Blank /\ req' = [req EXCEPT ![w] = r]
        /\ UNCHANGED <<users, addresses, expired, mailed>>
    BY DEF Starts
  <1>4. /\ r.op = op /\ r.at = at /\ r.user = u /\ r.saw = users[u] /\ r.new = new
    OBVIOUS
  <1> HIDE DEF r
  <1>5. /\ req' \in [Requests -> Request] /\ req'[w] = r
        /\ \A v \in Requests : v # w => req'[v] = req[v]
    BY <1>1, <1>2, <1>3, OthersUnchanged
  <1>6. req[w].at = "none"
    BY <1>3 DEF Blank
  <1>7. TypeOK'
    BY <1>1, <1>3, <1>5 DEF TypeOK
  <1>r. RowMaker'
    BY <1>3, <1>4, <1>5 DEF IInv, RowMaker
  <1>8. OneUserPerEmail' /\ OtpKeepsItsExpiry' /\ FilledHasAddress'
    BY <1>3 DEF IInv, OneUserPerEmail, Exists, OtpKeepsItsExpiry, FilledHasAddress
  <1>9. CustomersExist'
    BY <1>3 DEF IInv, CustomersExist
  <1>10. ASSUME NEW v \in Requests, users[v].otp # None
         PROVE  users[v].otp \in Requests /\ users[v].otp # w
    <2>1. users[v].otp \in Requests
      BY <1>1, <1>10, UserFields DEF Made
    <2> QED
      BY <2>1, <1>10, <1>6 DEF IInv, OtpMaker
  <1>11. OtpMaker'
    BY <1>3, <1>5, <1>10 DEF IInv, OtpMaker
  <1>12. AnsweredOtpWasMailed'
    BY <1>3, <1>5, <1>10 DEF IInv, AnsweredOtpWasMailed
  <1>13. RequestsHeld'
    <2>1. ASSUME NEW v \in Requests, v # w, InProgress(v)' PROVE Held(v, req[v])'
      <3>1. Held(v, req[v])
        BY <2>1, <1>5 DEF IInv, RequestsHeld, InProgress
      <3>2. req'[v] = req[v]
        BY <2>1, <1>5
      <3>3. req'[req[v].user].at # "none"
        BY <3>1, <1>4, <1>5 DEF Held
      <3> QED
        BY <3>1, <3>2, <3>3, <1>3 DEF Held
    <2>2. Held(w, req[w])'
      BY <1>3, <1>4, <1>5 DEF Held, IInv, OtpKeepsItsExpiry
    <2> QED
      BY <2>1, <2>2 DEF RequestsHeld
  <1> QED
    BY <1>7, <1>r, <1>8, <1>9, <1>11, <1>12, <1>13 DEF IInv

\* A row that exists was made by a request that has started.
LEMMA ExistingRow ==
    ASSUME IInv, NEW u \in Requests, Exists(u)
    PROVE  req[u].at # "none"
  BY DEF IInv, RowMaker, Exists, NoUser

\* Every operation that edits an existing row starts with a good edit.
LEMMA EditKeeps ==
    ASSUME IInv, NEW w \in Requests, NEW u \in Requests, NEW new \in User,
           NEW op \in Ops \ {"none", "create_address", "verify_email"},
           Edits(w, op, u, new), UNCHANGED customers,
           GoodEdit(w, op, users[u], new)
    PROVE  IInv'
  <1>1. Starts(w, op, "commit", u, new) /\ req[u].at # "none"
    BY ExistingRow DEF Edits
  <1> QED
    BY <1>1, StartKeeps

LEMMA SignupKeeps ==
    ASSUME IInv, NEW w \in Requests, NEW e \in Emails, Signup(w, e)
    PROVE  IInv'
  <1> DEFINE new == [NoUser EXCEPT !.email = e, !.password = w, !.otp = w, !.expiry = w]
  <1>0. NoUser \in User /\ w \in Made /\ e \in Emails
    BY DEF NoUser, User, Made
  <1>1. new \in User
    <2>1. [NoUser EXCEPT !.email = e, !.password = w] \in User
      BY <1>0 DEF User
    <2>2. [[NoUser EXCEPT !.email = e, !.password = w] EXCEPT !.otp = w, !.expiry = w] \in User
      BY <2>1, <1>0 DEF User
    <2> QED
      BY <2>2
  <1>2. /\ new.email = e /\ new.otp = w /\ new.expiry = w /\ new.password = w
        /\ new.secret = None /\ new.customer = None /\ ~new.verified /\ ~new.filled
        /\ ~new.enabled /\ new.step = 0
    BY DEF NoUser
  <1>3. Starts(w, "signup", "commit", w, new) /\ UNCHANGED customers
    BY DEF Signup
  <1> HIDE DEF new
  <1>4. req[w].at = "none"
    BY <1>3 DEF Starts, Blank
  <1>5. users[w] = NoUser
    BY <1>4 DEF IInv, RowMaker
  <1>6. e # None /\ "signup" \in MailingOps /\ "signup" \in Ops \ {"none"}
    BY NoneFresh DEF MailingOps, Ops
  <1>7. GoodEdit(w, "signup", users[w], new)
    BY <1>2, <1>5, <1>6 DEF GoodEdit, NoUser
  <1> QED
    BY <1>1, <1>3, <1>6, <1>7, StartKeeps

\* Resending a one-time password and forgetting one assign the same.
LEMMA NewOtpKeeps ==
    ASSUME IInv, NEW w \in Requests, NEW u \in Requests,
           ResendOtp(w, u) \/ ForgotPassword(w, u)
    PROVE  IInv'
  <1> DEFINE new == [users[u] EXCEPT !.otp = w, !.expiry = w]
  <1>1. users[u] \in User
    BY DEF IInv, TypeOK
  <1>2. new \in User
    BY <1>1 DEF User, Made
  <1>3. users[u].email # None
    BY DEF ResendOtp, ForgotPassword, Edits, Exists
  <1>4. \A op \in MailingOps : GoodEdit(w, op, users[u], new)
    BY <1>1, <1>3 DEF GoodEdit, User
  <1>5. MailingOps \subseteq Ops \ {"none", "create_address", "verify_email"}
    BY DEF MailingOps, Ops
  <1>6. \E op \in MailingOps : Edits(w, op, u, new) /\ UNCHANGED customers
    BY DEF ResendOtp, ForgotPassword, MailingOps
  <1> HIDE DEF new
  <1> QED
    BY <1>2, <1>4, <1>5, <1>6, EditKeeps

LEMMA VerifyEmailKeeps ==
    ASSUME IInv, NEW w \in Requests, NEW u \in Requests, VerifyEmail(w, u)
    PROVE  IInv'
  <1> DEFINE new == [users[u] EXCEPT !.verified = TRUE, !.step = 1, !.customer = w,
                                     !.otp = None, !.expiry = None]
  <1>1. users[u] \in User
    BY DEF IInv, TypeOK
  <1>2. new \in User
    <2> DEFINE one == [users[u] EXCEPT !.verified = TRUE]
               two == [one EXCEPT !.step = 1]
    <2>1. one \in User
      BY <1>1, FlagAssigned
    <2>2. two \in User
      BY <2>1, StepAssigned
    <2>3. [two EXCEPT !.customer = w, !.otp = None, !.expiry = None] \in User
      <3> HIDE DEF two
      <3> QED
        BY <2>2 DEF User, Made
    <2> QED
      BY <2>3
  <1>3. users[u].email # None /\ ~users[u].verified
    BY DEF VerifyEmail, Edits, Exists
  <1>4. GoodEdit(w, "verify_email", users[u], new)
    BY <1>1, <1>3 DEF GoodEdit, User
  <1>5. Starts(w, "verify_email", "commit", u, new) /\ customers' = customers \cup {w}
    BY DEF VerifyEmail, Edits
  <1>6. "verify_email" \in Ops \ {"none"} /\ req[u].at # "none"
    BY <1>3, ExistingRow DEF Ops, Exists
  <1> HIDE DEF new
  <1> QED
    BY <1>2, <1>4, <1>5, <1>6, StartKeeps

LEMMA CreateAddressKeeps ==
    ASSUME IInv, NEW w \in Requests, NEW u \in Requests, CreateAddress(w, u)
    PROVE  IInv'
  <1> DEFINE new == [users[u] EXCEPT !.filled = TRUE, !.step = 2]
  <1>1. users[u] \in User
    BY DEF IInv, TypeOK
  <1>2. new \in User
    <2>1. [users[u] EXCEPT !.filled = TRUE] \in User
      BY <1>1, FlagAssigned
    <2>2. [[users[u] EXCEPT !.filled = TRUE] EXCEPT !.step = 2] \in User
      BY <2>1, StepAssigned
    <2> QED
      BY <2>2
  <1>3. users[u].email # None
    BY DEF CreateAddress, Exists
  <1>4. GoodEdit(w, "create_address", users[u], new)
    BY <1>1, <1>3 DEF GoodEdit, User, IInv, OtpKeepsItsExpiry
  <1>5. Starts(w, "create_address", "address", u, new) /\ customers' = customers
    BY DEF CreateAddress
  <1>6. "create_address" \in Ops \ {"none"} /\ req[u].at # "none"
    BY <1>3, ExistingRow DEF Ops, Exists
  <1> HIDE DEF new
  <1> QED
    BY <1>2, <1>4, <1>5, <1>6, StartKeeps

LEMMA MfaKeeps ==
    ASSUME IInv, NEW w \in Requests, NEW u \in Requests,
           EnableMfa(w, u) \/ VerifyMfa(w, u) \/ DisableMfa(w, u) \/ ResetMfa(w, u)
    PROVE  IInv'
  <1>1. users[u] \in User /\ users[u].otp = users[u].expiry
    BY DEF IInv, TypeOK, OtpKeepsItsExpiry
  <1>2. users[u].email # None
    BY DEF EnableMfa, VerifyMfa, DisableMfa, ResetMfa, Edits, Exists
  <1>o. {"enable_mfa", "verify_mfa", "disable_mfa", "reset_mfa"}
            \subseteq Ops \ {"none", "create_address", "verify_email"}
    BY DEF Ops, MailingOps
  <1>3. CASE EnableMfa(w, u)
    <2> DEFINE new == [users[u] EXCEPT !.secret = w, !.enabled = FALSE]
    <2>1. new \in User /\ GoodEdit(w, "enable_mfa", users[u], new)
      BY <1>1, <1>2 DEF GoodEdit, User, Made
    <2>2. Edits(w, "enable_mfa", u, new) /\ UNCHANGED customers
      BY <1>3 DEF EnableMfa
    <2> HIDE DEF new
    <2> QED
      BY <1>o, <2>1, <2>2, EditKeeps
  <1>4. CASE VerifyMfa(w, u)
    <2> DEFINE new == [users[u] EXCEPT !.enabled = TRUE, !.step = 4]
    <2>1. new \in User
      <3>1. [users[u] EXCEPT !.enabled = TRUE] \in User
        BY <1>1, FlagAssigned
      <3>2. [[users[u] EXCEPT !.enabled = TRUE] EXCEPT !.step = 4] \in User
        BY <3>1, StepAssigned
      <3> QED
        BY <3>2
    <2>4. users[u].secret # None
      BY <1>4 DEF VerifyMfa
    <2>2. GoodEdit(w, "verify_mfa", users[u], new)
      BY <1>1, <1>2, <2>4 DEF GoodEdit, User, Made
    <2>3. Edits(w, "verify_mfa", u, new) /\ UNCHANGED customers
      BY <1>4 DEF VerifyMfa
    <2> HIDE DEF new
    <2> QED
      BY <1>o, <2>1, <2>2, <2>3, EditKeeps
  <1>5. CASE DisableMfa(w, u)
    <2> DEFINE new == [users[u] EXCEPT !.secret = None, !.enabled = FALSE]
    <2>1. new \in User /\ GoodEdit(w, "disable_mfa", users[u], new)
      BY <1>1, <1>2 DEF GoodEdit, User, Made
    <2>2. Edits(w, "disable_mfa", u, new) /\ UNCHANGED customers
      BY <1>5 DEF DisableMfa
    <2> HIDE DEF new
    <2> QED
      BY <1>o, <2>1, <2>2, EditKeeps
  <1>6. CASE ResetMfa(w, u)
    <2> DEFINE new == [users[u] EXCEPT !.secret = w, !.enabled = TRUE]
    <2>1. new \in User
      BY <1>1 DEF User, Made
    <2>2. w # None
      BY NoneFresh
    <2>3. GoodEdit(w, "reset_mfa", users[u], new)
      BY <1>1, <1>2, <2>2 DEF GoodEdit, User, Made
    <2>4. Edits(w, "reset_mfa", u, new) /\ UNCHANGED customers
      BY <1>6 DEF ResetMfa
    <2> HIDE DEF new
    <2> QED
      BY <1>o, <2>1, <2>3, <2>4, EditKeeps
  <1> QED
    BY <1>3, <1>4, <1>5, <1>6

LEMMA ProfileKeeps ==
    ASSUME IInv, NEW w \in Requests, NEW u \in Requests,
           \/ ForgotPasswordVerify(w, u) \/ ResetPassword(w, u) \/ ConnectExchange(w, u)
           \/ \E e \in Emails : UpdateProfile(w, u, e)
    PROVE  IInv'
  <1>1. users[u] \in User /\ users[u].otp = users[u].expiry
    BY DEF IInv, TypeOK, OtpKeepsItsExpiry
  <1>2. users[u].email # None
    BY DEF ForgotPasswordVerify, ResetPassword, ConnectExchange, UpdateProfile, Edits, Exists
  <1>o. {"forgot_password_verify", "reset_password", "update_profile", "connect_exchange"}
            \subseteq Ops \ {"none", "create_address", "verify_email"}
    BY DEF Ops, MailingOps
  <1>3. CASE ForgotPasswordVerify(w, u)
    <2> DEFINE new == [users[u] EXCEPT !.otp = None, !.expiry = None]
    <2>1. new \in User /\ GoodEdit(w, "forgot_password_verify", users[u], new)
      BY <1>1, <1>2 DEF GoodEdit, User, Made
    <2>2. Edits(w, "forgot_password_verify", u, new) /\ UNCHANGED customers
      BY <1>3 DEF ForgotPasswordVerify
    <2> HIDE DEF new
    <2> QED
      BY <1>o, <2>1, <2>2, EditKeeps
  <1>4. CASE ResetPassword(w, u)
    <2> DEFINE new == [users[u] EXCEPT !.password = w]
    <2>1. new \in User /\ GoodEdit(w, "reset_password", users[u], new)
      BY <1>1, <1>2 DEF GoodEdit, User, Made
    <2>2. Edits(w, "reset_password", u, new) /\ UNCHANGED customers
      BY <1>4 DEF ResetPassword
    <2> HIDE DEF new
    <2> QED
      BY <1>o, <2>1, <2>2, EditKeeps
  <1>5. ASSUME NEW e \in Emails, UpdateProfile(w, u, e) PROVE IInv'
    <2> DEFINE new == [users[u] EXCEPT !.email = e]
    <2>1. new \in User /\ e # None
      BY <1>1, NoneFresh DEF User
    <2>2. GoodEdit(w, "update_profile", users[u], new)
      BY <1>1, <1>2, <2>1 DEF GoodEdit, User, Made
    <2>3. Edits(w, "update_profile", u, new) /\ UNCHANGED customers
      BY <1>5 DEF UpdateProfile
    <2> HIDE DEF new
    <2> QED
      BY <1>o, <2>1, <2>2, <2>3, EditKeeps
  <1>6. CASE ConnectExchange(w, u)
    <2> DEFINE new == [users[u] EXCEPT !.step = 3]
    <2>1. new \in User
      BY <1>1, StepAssigned
    <2>2. GoodEdit(w, "connect_exchange", users[u], new)
      BY <1>1, <1>2 DEF GoodEdit, User
    <2>3. Edits(w, "connect_exchange", u, new) /\ UNCHANGED customers
      BY <1>6 DEF ConnectExchange
    <2> HIDE DEF new
    <2> QED
      BY <1>o, <2>1, <2>2, <2>3, EditKeeps
  <1> QED
    BY <1>3, <1>4, <1>5, <1>6

------------------------------------------------------------------------------
(* A request commits.                                                        *)

LEMMA FlushFields ==
    ASSUME NEW row, NEW saw, NEW new
    PROVE  /\ Flush(row, saw, new).email = Set(row.email, saw.email, new.email)
           /\ Flush(row, saw, new).password = Set(row.password, saw.password, new.password)
           /\ Flush(row, saw, new).otp = Set(row.otp, saw.otp, new.otp)
           /\ Flush(row, saw, new).expiry = Set(row.expiry, saw.expiry, new.expiry)
           /\ Flush(row, saw, new).verified = Set(row.verified, saw.verified, new.verified)
           /\ Flush(row, saw, new).step = Set(row.step, saw.step, new.step)
           /\ Flush(row, saw, new).customer = Set(row.customer, saw.customer, new.customer)
           /\ Flush(row, saw, new).filled = Set(row.filled, saw.filled, new.filled)
           /\ Flush(row, saw, new).secret = Set(row.secret, saw.secret, new.secret)
           /\ Flush(row, saw, new).enabled = Set(row.enabled, saw.enabled, new.enabled)
  BY DEF Flush

\* What a commit makes of the row, attribute by attribute.
LEMMA CommitWrites ==
    ASSUME IInv, NEW w \in Requests, Commits(w)
    PROVE  LET u == req[w].user
               old == users[u]
               row == users'[u]
           IN  /\ u \in Requests /\ row \in User
               /\ users' = [users EXCEPT ![u] = row]
               /\ old.email # None => row.email # None
               /\ row.otp = old.otp \/ row.otp = None
                     \/ (row.otp = w /\ req[w].op \in MailingOps)
               /\ row.otp = row.expiry
               /\ row.password \in {old.password, w}
               /\ row.secret \in {old.secret, w, None}
               /\ row.customer = old.customer \/ (row.customer = w /\ w \in customers)
               /\ old.verified => row.verified
               /\ row.verified => row.customer # None /\ row.step > 0
               /\ old.step > 0 => row.step > 0
               /\ old.filled => row.filled
               /\ row.filled => addresses[u] # {}
  <1> DEFINE u == req[w].user
             old == users[u]
             row == users'[u]
             saw == req[w].saw
             new == req[w].new
  <1>1. req[w].at = "commit" /\ InProgress(w)
    BY DEF Commits, InProgress
  <1>2. Held(w, req[w])
    BY <1>1 DEF IInv, RequestsHeld
  <1>3. u \in Requests /\ GoodEdit(w, req[w].op, saw, new) /\ saw.otp = saw.expiry
    BY <1>2 DEF Held
  <1>4. old \in User /\ saw \in User /\ new \in User
    BY <1>3, RequestFields DEF IInv, TypeOK
  <1>5. users' = [users EXCEPT ![u] = Flush(old, saw, new)] /\ row = Flush(old, saw, new)
    BY <1>3 DEF Commits, Flushed, IInv, TypeOK
  <1>6. row \in User
    BY <1>4, <1>5, FlushType
  <1>7. /\ row.email = Set(old.email, saw.email, new.email)
        /\ row.password = Set(old.password, saw.password, new.password)
        /\ row.otp = Set(old.otp, saw.otp, new.otp)
        /\ row.expiry = Set(old.expiry, saw.expiry, new.expiry)
        /\ row.step = Set(old.step, saw.step, new.step)
        /\ row.customer = Set(old.customer, saw.customer, new.customer)
        /\ row.secret = Set(old.secret, saw.secret, new.secret)
    BY <1>5, FlushFields
  <1>8. /\ row.verified = Set(old.verified, saw.verified, new.verified)
        /\ row.filled = Set(old.filled, saw.filled, new.filled)
    BY <1>5, FlushFields
  <1>9. /\ old.otp = old.expiry
        /\ old.verified => old.customer # None /\ old.step > 0
        /\ old.filled => addresses[u] # {}
    BY <1>3 DEF IInv, OtpKeepsItsExpiry, CustomersExist, FilledHasAddress
  <1>b. /\ old.verified \in BOOLEAN /\ saw.verified \in BOOLEAN /\ new.verified \in BOOLEAN
        /\ old.filled \in BOOLEAN /\ saw.filled \in BOOLEAN /\ new.filled \in BOOLEAN
    BY <1>4, UserFields
  <1>n. old.step \in 0..4 /\ saw.step \in 0..4 /\ new.step \in 0..4
    BY <1>4, UserFields
  <1> HIDE DEF u, old, row, saw, new
  <1>10. old.email # None => row.email # None
    BY <1>3, <1>7 DEF GoodEdit, Set
  <1>11. row.otp = old.otp \/ row.otp = None \/ (row.otp = w /\ req[w].op \in MailingOps)
    BY <1>3, <1>7 DEF GoodEdit, Set
  <1>12. row.otp = row.expiry
    BY <1>3, <1>7, <1>9 DEF GoodEdit, Set
  <1>13. row.password \in {old.password, w} /\ row.secret \in {old.secret, w, None}
    BY <1>3, <1>7 DEF GoodEdit, Set
  <1>14. row.customer = old.customer \/ (row.customer = w /\ w \in customers)
    BY <1>2, <1>3, <1>7 DEF GoodEdit, Set, Held
  <1>15. old.step > 0 => row.step > 0
    <2>1. row.step = old.step \/ (row.step = new.step /\ new.step # saw.step)
      BY <1>7 DEF Set
    <2>2. new.step = saw.step \/ new.step > 0
      BY <1>3 DEF GoodEdit
    <2> QED
      BY <2>1, <2>2, <1>n
  <1>16. old.verified => row.verified
    BY <1>3, <1>8, <1>b DEF GoodEdit, Set
  <1>17. old.filled => row.filled
    BY <1>3, <1>8, <1>b DEF GoodEdit, Set
  <1>18. row.filled => addresses[u] # {}
    <2>1. row.filled => old.filled \/ (new.filled /\ ~saw.filled)
      BY <1>8, <1>b DEF Set
    <2>2. new.filled /\ ~saw.filled => req[w].op = "create_address"
      BY <1>3 DEF GoodEdit
    <2> QED
      BY <2>1, <2>2, <1>1, <1>2, <1>9 DEF Held, u
  <1>19. row.verified => row.customer # None /\ row.step > 0
    <2>1. row.verified => old.verified \/ (new.verified /\ ~saw.verified)
      BY <1>8, <1>b DEF Set
    <2>2. CASE old.verified
      BY <2>2, <1>9, <1>14, <1>15, NoneFresh
    <2>3. CASE new.verified /\ ~saw.verified
      <3>1. new.customer = w /\ new.step > 0
        BY <2>3, <1>3 DEF GoodEdit
      <3>2. saw.customer # None => old.customer # None
        BY <1>2 DEF Held, u, saw, old
      <3>3. saw.step > 0 => old.step > 0
        BY <1>2 DEF Held, u, saw, old
      <3>4. row.customer # None
        BY <3>1, <3>2, <1>7, NoneFresh DEF Set
      <3>5. (row.step = old.step /\ new.step = saw.step) \/ row.step = new.step
        BY <1>7 DEF Set
      <3> QED
        BY <3>1, <3>3, <3>4, <3>5, <1>n
    <2> QED
      BY <2>1, <2>2, <2>3
  <1>20. users' = [users EXCEPT ![u] = row]
    BY <1>5
  <1> QED
    BY <1>3, <1>6, <1>10, <1>11, <1>12, <1>13, <1>14, <1>15, <1>16, <1>17, <1>18, <1>19, <1>20
       DEF u, old, row

LEMMA CommitKeeps ==
    ASSUME IInv, NEW w \in Requests, Commits(w)
    PROVE  IInv'
  <1> DEFINE u == req[w].user
             r == [req[w] EXCEPT !.at = "refresh"]
  <1>1. TypeOK /\ req[w] \in Request
    BY DEF IInv, TypeOK
  <1>2. /\ r \in Request /\ r.op = req[w].op /\ r.user = u /\ r.at = "refresh"
        /\ r.saw = req[w].saw /\ r.new = req[w].new
    BY <1>1 DEF Request, Steps
  <1>3. /\ req' = [req EXCEPT ![w] = r] /\ req[w].at = "commit"
        /\ UNCHANGED <<addresses, customers, expired, mailed>>
    BY DEF Commits
  <1> HIDE DEF r
  <1>4. /\ req' \in [Requests -> Request] /\ req'[w] = r
        /\ \A v \in Requests : v # w => req'[v] = req[v]
    BY <1>1, <1>2, <1>3, OthersUnchanged
  <1>5. Held(w, req[w])
    BY <1>3 DEF IInv, RequestsHeld, InProgress
  <1> DEFINE old == users[u]
             row == users'[u]
  <1>6. /\ u \in Requests /\ row \in User
        /\ users' = [users EXCEPT ![u] = row]
        /\ old.email # None => row.email # None
        /\ row.otp = old.otp \/ row.otp = None \/ (row.otp = w /\ req[w].op \in MailingOps)
        /\ row.otp = row.expiry
        /\ row.customer = old.customer \/ (row.customer = w /\ w \in customers)
        /\ row.verified => row.customer # None /\ row.step > 0
        /\ old.step > 0 => row.step > 0
        /\ row.filled => addresses[u] # {}
    BY CommitWrites
  <1>7. \A v \in Requests : v # u => users'[v] = users[v]
    BY <1>1, <1>6 DEF TypeOK
  <1>8. req[u].at # "none"
    BY <1>5 DEF Held
  <1>e. \A v \in Requests : v # u => users[v].email # row.email
    BY <1>6, <1>1 DEF Commits, EmailIsFree, TypeOK
  <1> HIDE DEF u, old, row
  <1>9. TypeOK'
    BY <1>1, <1>3, <1>4, <1>6 DEF TypeOK
  <1>10. RowMaker'
    BY <1>2, <1>4, <1>7, <1>8 DEF IInv, RowMaker
  <1>11. OneUserPerEmail'
    <2> SUFFICES ASSUME NEW a \in Requests, NEW b \in Requests,
                        users'[a].email # None, users'[a].email = users'[b].email
                 PROVE  a = b
      BY DEF OneUserPerEmail, Exists
    <2>1. CASE a = u \/ b = u
      BY <2>1, <1>7, <1>e DEF row
    <2>2. CASE a # u /\ b # u
      BY <2>2, <1>7 DEF IInv, OneUserPerEmail, Exists
    <2> QED
      BY <2>1, <2>2
  <1>12. OtpKeepsItsExpiry'
    BY <1>6, <1>7 DEF IInv, OtpKeepsItsExpiry, row
  <1>13. CustomersExist'
    BY <1>3, <1>6, <1>7 DEF IInv, CustomersExist, row, old
  <1>14. FilledHasAddress'
    BY <1>3, <1>6, <1>7 DEF IInv, FilledHasAddress, row
  <1>15. ASSUME NEW v \in Requests, users'[v].otp # None
         PROVE  \/ /\ users'[v].otp = users[v].otp /\ users[v].otp # w
                   /\ users[v].otp \in Requests
                \/ v = u /\ users'[v].otp = w /\ req[w].op \in MailingOps
    <2>1. \/ users'[v].otp = users[v].otp
          \/ v = u /\ users'[v].otp = w /\ req[w].op \in MailingOps
      BY <1>15, <1>6, <1>7 DEF row, old
    <2>2. users[v].otp = w => users[v].otp = None
      BY <1>3 DEF IInv, OtpMaker
    <2>3. users[v].otp \in Made
      BY <1>1, UserFields DEF TypeOK
    <2> QED
      BY <2>1, <2>2, <2>3, <1>15 DEF Made
  <1>16. OtpMaker'
    BY <1>2, <1>4, <1>15 DEF IInv, OtpMaker
  <1>17. AnsweredOtpWasMailed'
    BY <1>2, <1>3, <1>4, <1>15 DEF IInv, AnsweredOtpWasMailed
  <1>18. RequestsHeld'
    <2>1. \A v \in Requests :
              /\ users[v].customer # None => users'[v].customer # None
              /\ users[v].step > 0 => users'[v].step > 0
      BY <1>6, <1>7, NoneFresh DEF row, old
    <2>2. \A v \in Requests : req[v].at # "none" => req'[v].at # "none"
      BY <1>2, <1>4
    <2>3. ASSUME NEW v \in Requests, InProgress(v)' PROVE Held(v, req[v])'
      <3>1. CASE v = w
        <4>1. req'[v] = r
          BY <3>1, <1>4
        <4> QED
          BY <4>1, <3>1, <1>2, <1>3, <1>5, <2>1, <2>2 DEF Held, u
      <3>2. CASE v # w
        <4>1. req'[v] = req[v]
          BY <3>2, <1>4
        <4>2. Held(v, req[v])
          BY <4>1, <2>3 DEF IInv, RequestsHeld, InProgress
        <4> QED
          BY <4>1, <4>2, <1>3, <2>1, <2>2 DEF Held
      <3> QED
        BY <3>1, <3>2
    <2> QED
      BY <2>3 DEF RequestsHeld
  <1> QED
    BY <1>9, <1>10, <1>11, <1>12, <1>13, <1>14, <1>16, <1>17, <1>18 DEF IInv

------------------------------------------------------------------------------
(* The other steps of a request.                                             *)

\* A request that ends keeps the invariant, if it mailed the one-time password
\* that is still in force and named after it.
LEMMA FinishKeeps ==
    ASSUME IInv, NEW w \in Requests, NEW at \in {"done", "failed"}, Finish(w, at),
           UNCHANGED <<users, addresses, expired>>,
           customers' \in SUBSET Requests, customers \subseteq customers',
           mailed' \in SUBSET Made, mailed \subseteq mailed',
           at = "done" => \A u \in Requests : users[u].otp = w => w \in mailed'
    PROVE  IInv'
  <1> DEFINE r == [Blank EXCEPT !.at = at]
  <1>1. TypeOK /\ r \in Request /\ r.at = at
    BY BlankTyped DEF IInv, Steps
  <1>2. req' = [req EXCEPT ![w] = r]
    BY DEF Finish
  <1> HIDE DEF r
  <1>3. /\ req' \in [Requests -> Request] /\ req'[w] = r
        /\ \A v \in Requests : v # w => req'[v] = req[v]
    BY <1>1, <1>2, OthersUnchanged
  <1>4. TypeOK'
    BY <1>1, <1>3 DEF TypeOK
  <1>5. RowMaker' /\ OneUserPerEmail' /\ OtpKeepsItsExpiry' /\ FilledHasAddress'
    BY <1>1, <1>3 DEF IInv, RowMaker, OneUserPerEmail, Exists, OtpKeepsItsExpiry, FilledHasAddress
  <1>6. CustomersExist'
    BY DEF IInv, CustomersExist
  <1>7. \A u \in Requests : users[u].otp # None => users[u].otp \in Requests
    BY <1>1, UserFields DEF TypeOK, Made
  <1>8. OtpMaker'
    BY <1>1, <1>3, <1>7 DEF IInv, OtpMaker
  <1>9. AnsweredOtpWasMailed'
    BY <1>1, <1>3, <1>7 DEF IInv, AnsweredOtpWasMailed
  <1>10. RequestsHeld'
    <2>1. ASSUME NEW v \in Requests, InProgress(v)' PROVE Held(v, req[v])'
      <3>1. v # w /\ req'[v] = req[v]
        BY <2>1, <1>1, <1>3 DEF InProgress
      <3>2. Held(v, req[v])
        BY <2>1, <3>1 DEF IInv, RequestsHeld, InProgress
      <3>3. req'[req[v].user].at # "none"
        BY <3>2, <1>1, <1>3 DEF Held
      <3> QED
        BY <3>1, <3>2, <3>3 DEF Held
    <2> QED
      BY <2>1 DEF RequestsHeld
  <1> QED
    BY <1>4, <1>5, <1>6, <1>8, <1>9, <1>10 DEF IInv

LEMMA RefreshKeeps ==
    ASSUME IInv, NEW w \in Requests, Refreshes(w)
    PROVE  IInv'
  <1>1. req[w].at = "refresh" /\ Finish(w, "done") /\ UNCHANGED <<users, addresses, expired>>
    BY DEF Refreshes
  <1>2. req[w].user \in Requests
    BY <1>1 DEF IInv, RequestsHeld, InProgress, Held
  <1>3. users[req[w].user].otp \in Made
    BY <1>2, UserFields DEF IInv, TypeOK
  <1>4. mailed' \in SUBSET Made /\ mailed \subseteq mailed'
    BY <1>3 DEF Refreshes, MailedOtp, IInv, TypeOK
  <1>5. ASSUME NEW u \in Requests, users[u].otp = w PROVE w \in mailed'
    <2>1. w # None
      BY NoneFresh
    <2>2. req[w].op \in MailingOps /\ req[w].user = u
      BY <1>1, <1>5, <2>1 DEF IInv, OtpMaker
    <2> QED
      BY <1>5, <2>2 DEF Refreshes, MailedOtp
  <1>6. customers' = customers /\ customers \in SUBSET Requests
    BY DEF Refreshes, IInv, TypeOK
  <1> QED
    BY <1>1, <1>4, <1>5, <1>6, FinishKeeps

LEMMA FailKeeps ==
    ASSUME IInv, NEW w \in Requests, Fails(w)
    PROVE  IInv'
  <1>1. Finish(w, "failed") /\ UNCHANGED <<users, addresses, customers, expired, mailed>>
    BY DEF Fails
  <1>2. customers \in SUBSET Requests /\ mailed \in SUBSET Made
    BY DEF IInv, TypeOK
  <1> QED
    BY <1>1, <1>2, FinishKeeps

LEMMA CheckoutKeeps ==
    ASSUME IInv, NEW w \in Requests, NEW u \in Requests, Checkout(w, u)
    PROVE  IInv'
  <1>1. /\ Finish(w, "done") /\ UNCHANGED <<users, addresses, expired, mailed>>
        /\ customers' = customers \cup {w}
    BY DEF Checkout
  <1>2. customers \in SUBSET Requests /\ mailed \in SUBSET Made
    BY DEF IInv, TypeOK
  <1>3. req[w].at = "none" /\ w # None
    BY NoneFresh DEF Checkout, Blank
  <1>4. \A v \in Requests : users[v].otp # w
    BY <1>3 DEF IInv, OtpMaker
  <1> QED
    BY <1>1, <1>2, <1>4, FinishKeeps

LEMMA AddressKeeps ==
    ASSUME IInv, NEW w \in Requests, AddressCommits(w)
    PROVE  IInv'
  <1> DEFINE r == [req[w] EXCEPT !.at = "commit"]
             u == req[w].user
  <1>1. TypeOK /\ req[w] \in Request
    BY DEF IInv, TypeOK
  <1>2. /\ r \in Request /\ r.op = req[w].op /\ r.user = u /\ r.at = "commit"
        /\ r.saw = req[w].saw /\ r.new = req[w].new
    BY <1>1 DEF Request, Steps
  <1>3. /\ req' = [req EXCEPT ![w] = r] /\ req[w].at = "address"
        /\ addresses' = [addresses EXCEPT ![u] = @ \cup {w}]
        /\ UNCHANGED <<users, customers, expired, mailed>>
    BY DEF AddressCommits
  <1>4. Held(w, req[w])
    BY <1>3 DEF IInv, RequestsHeld, InProgress
  <1>5. u \in Requests
    BY <1>4 DEF Held
  <1> HIDE DEF r, u
  <1>6. /\ req' \in [Requests -> Request] /\ req'[w] = r
        /\ \A v \in Requests : v # w => req'[v] = req[v]
    BY <1>1, <1>2, <1>3, OthersUnchanged
  <1>7. /\ addresses' \in [Requests -> SUBSET Requests]
        /\ addresses'[u] # {}
        /\ \A v \in Requests : addresses[v] # {} => addresses'[v] # {}
    BY <1>1, <1>3, <1>5 DEF TypeOK
  <1>8. TypeOK'
    BY <1>1, <1>3, <1>6, <1>7 DEF TypeOK
  <1>9. RowMaker' /\ OneUserPerEmail' /\ OtpKeepsItsExpiry' /\ CustomersExist'
    BY <1>2, <1>3, <1>6 DEF IInv, RowMaker, OneUserPerEmail, Exists, OtpKeepsItsExpiry,
       CustomersExist
  <1>10. FilledHasAddress'
    BY <1>3, <1>7 DEF IInv, FilledHasAddress
  <1>11. \A v \in Requests : users[v].otp # None => users[v].otp \in Requests /\ users[v].otp # w
    BY <1>1, <1>3, UserFields DEF TypeOK, Made, IInv, OtpMaker
  <1>12. OtpMaker' /\ AnsweredOtpWasMailed'
    BY <1>3, <1>6, <1>11 DEF IInv, OtpMaker, AnsweredOtpWasMailed
  <1>13. RequestsHeld'
    <2>1. \A v \in Requests : req[v].at # "none" => req'[v].at # "none"
      BY <1>2, <1>6
    <2>2. ASSUME NEW v \in Requests, InProgress(v)' PROVE Held(v, req[v])'
      <3>1. CASE v = w
        <4>1. req'[v] = r
          BY <3>1, <1>6
        <4> QED
          BY <4>1, <3>1, <1>2, <1>3, <1>4, <1>7, <2>1 DEF Held, u
      <3>2. CASE v # w
        <4>1. req'[v] = req[v]
          BY <3>2, <1>6
        <4>2. Held(v, req[v])
          BY <4>1, <2>2 DEF IInv, RequestsHeld, InProgress
        <4> QED
          BY <4>1, <4>2, <1>3, <1>7, <2>1 DEF Held
      <3> QED
        BY <3>1, <3>2
    <2> QED
      BY <2>2 DEF RequestsHeld
  <1> QED
    BY <1>8, <1>9, <1>10, <1>12, <1>13 DEF IInv

LEMMA ExpiryKeeps ==
    ASSUME IInv, (\E r \in Requests : OtpExpires(r)) \/ UNCHANGED vars
    PROVE  IInv'
  <1>1. UNCHANGED <<users, addresses, customers, mailed, req>>
    BY DEF OtpExpires, vars
  <1>2. expired' \in SUBSET Requests
    BY DEF OtpExpires, vars, IInv, TypeOK
  <1>3. TypeOK' /\ RowMaker' /\ OneUserPerEmail' /\ OtpKeepsItsExpiry' /\ CustomersExist'
    BY <1>1, <1>2 DEF IInv, TypeOK, RowMaker, OneUserPerEmail, Exists, OtpKeepsItsExpiry,
       CustomersExist
  <1>4. FilledHasAddress' /\ OtpMaker' /\ AnsweredOtpWasMailed'
    BY <1>1 DEF IInv, FilledHasAddress, OtpMaker, AnsweredOtpWasMailed
  <1>5. RequestsHeld'
    BY <1>1 DEF IInv, RequestsHeld, InProgress, Held
  <1> QED
    BY <1>3, <1>4, <1>5 DEF IInv

------------------------------------------------------------------------------
(* The theorems.                                                             *)

\* Every step keeps the invariant.
THEOREM StepHolds == IInv /\ [Next]_vars => IInv'
  <1> SUFFICES ASSUME IInv, [Next]_vars PROVE IInv'
    OBVIOUS
  <1>1. CASE \E w \in Requests, e \in Emails : Signup(w, e)
    BY <1>1, SignupKeeps
  <1>2. CASE \E w \in Requests, u \in Requests : ResendOtp(w, u) \/ ForgotPassword(w, u)
    BY <1>2, NewOtpKeeps
  <1>3. CASE \E w \in Requests, u \in Requests : VerifyEmail(w, u)
    BY <1>3, VerifyEmailKeeps
  <1>4. CASE \E w \in Requests, u \in Requests : CreateAddress(w, u)
    BY <1>4, CreateAddressKeeps
  <1>5. CASE \E w \in Requests, u \in Requests :
                EnableMfa(w, u) \/ VerifyMfa(w, u) \/ DisableMfa(w, u) \/ ResetMfa(w, u)
    BY <1>5, MfaKeeps
  <1>6. CASE \E w \in Requests, u \in Requests :
                \/ ForgotPasswordVerify(w, u) \/ ResetPassword(w, u) \/ ConnectExchange(w, u)
                \/ \E e \in Emails : UpdateProfile(w, u, e)
    BY <1>6, ProfileKeeps
  <1>7. CASE \E w \in Requests, u \in Requests : Checkout(w, u)
    BY <1>7, CheckoutKeeps
  <1>8. CASE \E w \in Requests : AddressCommits(w) \/ Refreshes(w) \/ Fails(w)
    BY <1>8, AddressKeeps, RefreshKeeps, FailKeeps
  <1>9. CASE \E w \in Requests : Commits(w)
    BY <1>9, CommitKeeps
  <1>10. CASE (\E r \in Requests : OtpExpires(r)) \/ UNCHANGED vars
    BY <1>10, ExpiryKeeps
  <1> QED
    BY <1>1, <1>2, <1>3, <1>4, <1>5, <1>6, <1>7, <1>8, <1>9, <1>10 DEF Next

THEOREM Invariance == Spec => []IInv
  BY InitHolds, StepHolds, PTL DEF Spec

\* The tables and the requests keep their types, whatever requests are made.
THEOREM TypeCorrect == Spec => []TypeOK
  <1>1. IInv => TypeOK
    BY DEF IInv
  <1> QED
    BY <1>1, Invariance, PTL

\* However many signups and profile changes found an address free, one user
\* has it (models/user.py:21).
THEOREM EmailUnique == Spec => []OneUserPerEmail
  <1>1. IInv => OneUserPerEmail
    BY DEF IInv
  <1> QED
    BY <1>1, Invariance, PTL

\* A one-time password and its expiry stay together under every interleaving.
THEOREM ExpiryKept == Spec => []OtpKeepsItsExpiry
  <1>1. IInv => OtpKeepsItsExpiry
    BY DEF IInv
  <1> QED
    BY <1>1, Invariance, PTL

\* A verified user has a Stripe customer, whatever failed (auth/user.py:92-101).
THEOREM VerifiedComplete == Spec => []VerifiedIsComplete
  <1>1. IInv => VerifiedIsComplete
    <2> SUFFICES ASSUME IInv, NEW u \in Requests, users[u].verified
                 PROVE  users[u].customer \in customers /\ users[u].step > 0
      BY DEF VerifiedIsComplete
    <2>1. /\ users[u].customer \in customers \cup {None}
          /\ users[u].customer # None /\ users[u].step > 0
      BY DEF IInv, CustomersExist
    <2> QED
      BY <2>1
  <1> QED
    BY <1>1, Invariance, PTL

\* A user who is marked as having an address has one (router.py:144-160).
THEOREM AddressStored == Spec => []FilledHasAddress
  <1>1. IInv => FilledHasAddress
    BY DEF IInv
  <1> QED
    BY <1>1, Invariance, PTL

\* The one-time password in force was mailed once its request is answered.
THEOREM OtpMailed == Spec => []AnsweredOtpWasMailed
  <1>1. IInv => AnsweredOtpWasMailed
    BY DEF IInv
  <1> QED
    BY <1>1, Invariance, PTL

------------------------------------------------------------------------------
\* Nothing but a commit writes the table.
LEMMA OnlyCommitsWrite ==
    ASSUME [Next]_vars
    PROVE  users' = users \/ \E w \in Requests : Commits(w)
  <1>1. CASE UNCHANGED vars
    BY <1>1 DEF vars
  <1>2. ASSUME NEW w \in Requests, NEW op, NEW at, NEW u, NEW new, Starts(w, op, at, u, new)
        PROVE  users' = users
    BY <1>2 DEF Starts
  <1>3. ASSUME NEW w \in Requests, NEW e \in Emails,
               Signup(w, e) \/ \E u \in Requests : UpdateProfile(w, u, e)
        PROVE  users' = users
    BY <1>2, <1>3 DEF Signup, UpdateProfile, Edits
  <1>4. ASSUME NEW w \in Requests, NEW u \in Requests,
               \/ ResendOtp(w, u) \/ VerifyEmail(w, u) \/ CreateAddress(w, u)
               \/ EnableMfa(w, u) \/ VerifyMfa(w, u)
        PROVE  users' = users
    BY <1>2, <1>4 DEF ResendOtp, VerifyEmail, CreateAddress, EnableMfa, VerifyMfa, Edits
  <1>5. ASSUME NEW w \in Requests, NEW u \in Requests,
               \/ DisableMfa(w, u) \/ ResetMfa(w, u) \/ ForgotPassword(w, u)
               \/ ForgotPasswordVerify(w, u) \/ ResetPassword(w, u) \/ ConnectExchange(w, u)
        PROVE  users' = users
    BY <1>2, <1>5 DEF DisableMfa, ResetMfa, ForgotPassword, ForgotPasswordVerify, ResetPassword,
                      ConnectExchange, Edits
  <1>6. ASSUME NEW w \in Requests,
               \/ AddressCommits(w) \/ Refreshes(w) \/ Fails(w) \/ OtpExpires(w)
               \/ \E u \in Requests : Checkout(w, u)
        PROVE  users' = users
    BY <1>6 DEF AddressCommits, Refreshes, Fails, OtpExpires, Checkout
  <1> QED
    BY <1>1, <1>3, <1>4, <1>5, <1>6 DEF Next

\* A commit leaves the other rows alone.
LEMMA OtherRowsUnchanged ==
    ASSUME IInv, NEW w \in Requests, Commits(w), NEW u \in Requests, u # req[w].user
    PROVE  users'[u] = users[u]
  <1>1. users' = [users EXCEPT ![req[w].user] = users'[req[w].user]]
    BY CommitWrites
  <1> QED
    BY <1>1 DEF IInv, TypeOK

\* A customer gives way only to that of a verification which read the row before
\* it was verified.
THEOREM CustomerKept == Spec => CustomerReplacedByRivalOnly
  <1> DEFINE Rival == \A u \in Requests : users[u].customer \notin {None, users'[u].customer} =>
                 \E w \in Requests :
                     /\ Commits(w) /\ req[w].user = u
                     /\ req[w].op = "verify_email" /\ ~req[w].saw.verified
  <1>1. ASSUME IInv, [Next]_vars PROVE Rival
    <2> SUFFICES ASSUME NEW u \in Requests, users'[u].customer # users[u].customer
                 PROVE  \E w \in Requests :
                            /\ Commits(w) /\ req[w].user = u
                            /\ req[w].op = "verify_email" /\ ~req[w].saw.verified
      OBVIOUS
    <2>1. PICK w \in Requests : Commits(w)
      BY <1>1, OnlyCommitsWrite
    <2>2. req[w].user = u
      BY <1>1, <2>1, OtherRowsUnchanged
    <2>3. Held(w, req[w])
      BY <1>1, <2>1 DEF Commits, InProgress, IInv, RequestsHeld
    <2>4. users'[u] = Flush(users[u], req[w].saw, req[w].new)
      BY <1>1, <2>1, <2>2 DEF Commits, Flushed, IInv, TypeOK
    <2>5. users'[u].customer = Set(users[u].customer, req[w].saw.customer, req[w].new.customer)
      BY <2>4, FlushFields
    <2>6. req[w].new.customer # req[w].saw.customer
      BY <2>5 DEF Set
    <2>7. req[w].op = "verify_email" /\ ~req[w].saw.verified
      BY <2>3, <2>6 DEF Held, GoodEdit
    <2> QED
      BY <2>1, <2>2, <2>7
  <1>2. IInv /\ [Next]_vars => [Rival]_vars
    BY <1>1
  <1> QED
    BY <1>2, Invariance, PTL DEF Spec, CustomerReplacedByRivalOnly

\* A one-time password, password or secret that was replaced does not return.
THEOREM NothingReturns == Spec => NoOldValueReturns
  <1> DEFINE Own(old, new) == new \in {old, None} \/ \E w \in Requests : new = w /\ Commits(w)
             Fresh == \A u \in Requests :
                 /\ Own(users[u].otp, users'[u].otp)
                 /\ Own(users[u].password, users'[u].password)
                 /\ Own(users[u].secret, users'[u].secret)
  <1>1. ASSUME IInv, [Next]_vars PROVE Fresh
    <2> SUFFICES ASSUME NEW u \in Requests
                 PROVE  /\ Own(users[u].otp, users'[u].otp)
                        /\ Own(users[u].password, users'[u].password)
                        /\ Own(users[u].secret, users'[u].secret)
      OBVIOUS
    <2>1. CASE users' = users
      BY <2>1
    <2>2. ASSUME NEW w \in Requests, Commits(w), u # req[w].user PROVE users'[u] = users[u]
      BY <1>1, <2>2, OtherRowsUnchanged
    <2>3. ASSUME NEW w \in Requests, Commits(w), u = req[w].user
          PROVE  /\ Own(users[u].otp, users'[u].otp)
                 /\ Own(users[u].password, users'[u].password)
                 /\ Own(users[u].secret, users'[u].secret)
      <3>1. /\ users'[u].otp \in {users[u].otp, None, w}
            /\ users'[u].password \in {users[u].password, w}
            /\ users'[u].secret \in {users[u].secret, w, None}
        BY <1>1, <2>3, CommitWrites
      <3> QED
        BY <3>1, <2>3
    <2> QED
      BY <1>1, <2>1, <2>2, <2>3, OnlyCommitsWrite
  <1>2. IInv /\ [Next]_vars => [Fresh]_vars
    BY <1>1
  <1> QED
    BY <1>2, Invariance, PTL DEF Spec, NoOldValueReturns

\* A request whose view of the MFA columns is current leaves them coherent.
THEOREM MfaCoherent == Spec => MfaTornByStaleReadOnly
  <1> DEFINE Torn(row) == row.enabled /\ row.secret = None
             Stale(w, u) == \/ req[w].saw.secret # users[u].secret
                            \/ req[w].saw.enabled # users[u].enabled
             Race == \A u \in Requests : Torn(users'[u]) /\ ~Torn(users[u]) =>
                 \E w \in Requests : Commits(w) /\ req[w].user = u /\ Stale(w, u)
  <1>1. ASSUME IInv, [Next]_vars PROVE Race
    <2> SUFFICES ASSUME NEW u \in Requests, Torn(users'[u]), ~Torn(users[u])
                 PROVE  \E w \in Requests : Commits(w) /\ req[w].user = u /\ Stale(w, u)
      OBVIOUS
    <2>1. PICK w \in Requests : Commits(w)
      BY <1>1, OnlyCommitsWrite
    <2>2. req[w].user = u
      BY <1>1, <2>1, OtherRowsUnchanged
    <2> DEFINE old == users[u]
               row == users'[u]
               saw == req[w].saw
               new == req[w].new
    <2>3. Held(w, req[w])
      BY <1>1, <2>1 DEF Commits, InProgress, IInv, RequestsHeld
    <2>4. new.enabled /\ new.secret = None => saw.enabled /\ saw.secret = None
      BY <2>3 DEF Held, GoodEdit
    <2>5. row = Flush(old, saw, new)
      BY <1>1, <2>1, <2>2 DEF Commits, Flushed, IInv, TypeOK
    <2> HIDE DEF row, old, saw, new
    <2>6. row.secret = Set(old.secret, saw.secret, new.secret)
      BY <2>5, FlushFields
    <2>7. row.enabled = Set(old.enabled, saw.enabled, new.enabled)
      BY <2>5, FlushFields
    <2>8. ASSUME saw.secret = old.secret, saw.enabled = old.enabled PROVE FALSE
      <3>1. row.secret = new.secret
        BY <2>6, <2>8 DEF Set
      <3>2. row.enabled = new.enabled
        BY <2>7, <2>8 DEF Set
      <3>3. row.enabled /\ row.secret = None /\ ~(old.enabled /\ old.secret = None)
        BY DEF row, old
      <3>4. saw.enabled /\ saw.secret = None
        BY <3>1, <3>2, <3>3, <2>4
      <3> QED
        BY <3>3, <3>4, <2>8
    <2> QED
      BY <2>1, <2>2, <2>8 DEF saw, old
  <1>2. IInv /\ [Next]_vars => [Race]_vars
    BY <1>1
  <1> QED
    BY <1>2, Invariance, PTL DEF Spec, MfaTornByStaleReadOnly

------------------------------------------------------------------------------
(* What interleaved commits make of a row.                                   *)

Attributes == DOMAIN NoUser

\* Two requests that assign different attributes of the rows they read.
Apart(sawA, newA, sawB, newB) ==
    \A f \in Attributes : newA[f] = sawA[f] \/ newB[f] = sawB[f]

\* A flush, attribute by attribute.
LEMMA FlushAttribute ==
    ASSUME NEW row \in User, NEW saw \in User, NEW new \in User
    PROVE  \A f \in Attributes : Flush(row, saw, new)[f] = Set(row[f], saw[f], new[f])
  <1>1. Attributes = {"email", "password", "otp", "expiry", "verified", "step", "customer",
                      "filled", "secret", "enabled"}
    BY DEF Attributes, NoUser
  <1> QED
    BY <1>1, FlushFields

\* Rows that agree on every attribute are the same.
LEMMA SameRow ==
    ASSUME NEW a \in User, NEW b \in User, \A f \in Attributes : a[f] = b[f]
    PROVE  a = b
  BY DEF Attributes, NoUser, User

\* A commit over the row that the request read makes of it what the request
\* wants: without a rival the unit of work (db/session.py:26) is a plain write.
THEOREM AloneIsPlain ==
    ASSUME NEW saw \in User, NEW new \in User
    PROVE  Flush(saw, saw, new) = new
  <1>1. \A f \in Attributes : Flush(saw, saw, new)[f] = new[f]
    BY FlushAttribute DEF Set
  <1> QED
    BY <1>1, FlushType, SameRow

\* The commits of two requests that assign different attributes leave the same row
\* in either order, whatever it was when they read it and has become since: only
\* rivals for an attribute can lose anything to each other.
THEOREM CommitsCommute ==
    ASSUME NEW row \in User, NEW sawA \in User, NEW newA \in User,
           NEW sawB \in User, NEW newB \in User,
           Apart(sawA, newA, sawB, newB)
    PROVE  Flush(Flush(row, sawA, newA), sawB, newB) = Flush(Flush(row, sawB, newB), sawA, newA)
  <1> DEFINE a == Flush(row, sawA, newA)
             b == Flush(row, sawB, newB)
             ab == Flush(a, sawB, newB)
             ba == Flush(b, sawA, newA)
  <1>1. a \in User /\ b \in User
    BY FlushType
  <1>2. ab \in User /\ ba \in User
    BY <1>1, FlushType
  <1>3. \A f \in Attributes :
            /\ a[f] = Set(row[f], sawA[f], newA[f])
            /\ b[f] = Set(row[f], sawB[f], newB[f])
    BY FlushAttribute
  <1> HIDE DEF a, b
  <1>4. \A f \in Attributes :
            /\ ab[f] = Set(a[f], sawB[f], newB[f])
            /\ ba[f] = Set(b[f], sawA[f], newA[f])
    BY <1>1, FlushAttribute
  <1> HIDE DEF ab, ba
  <1>5. ASSUME NEW f \in Attributes PROVE ab[f] = ba[f]
    BY <1>3, <1>4 DEF Apart, Set
  <1>6. ab = ba
    BY <1>2, <1>5, SameRow
  <1> QED
    BY <1>6 DEF a, b, ab, ba
=============================================================================
