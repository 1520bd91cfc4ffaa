------------------------ MODULE AccountsRegistry_proofs ------------------------
(***************************************************************************)
(* Accounts implements UserRegistry, for any requests and addresses.       *)
(*                                                                         *)
(* A commit writes what the request changed in the row it read, into a row *)
(* that others may have written since.  That this is one step of the       *)
(* registry rests on what each operation changes (RegistryEdit), on whose  *)
(* row it is and whether that exists (RowHeld), and on a customer being    *)
(* given away by the request that made it and no other (CustomerMaker).    *)
(***************************************************************************)
EXTENDS Accounts_proofs

\* What an operation changes of the columns the registry speaks of.
RegistryEdit(w, op, saw, new) ==
    /\ new.email # saw.email => op \in {"signup", "update_profile"}
    /\ new.verified # saw.verified => op = "verify_email"
    /\ new.customer # saw.customer => op = "verify_email"
    /\ new.filled # saw.filled => op = "create_address"
    /\ op = "verify_email" => /\ new.verified /\ ~saw.verified
                              /\ new.customer = w /\ saw.customer # w

\* A signup is about to make the row named after it; any other request works on
\* a row that exists.
RowHeld(w, op, at, u) ==
    IF op = "signup" THEN u = w /\ (at # "refresh" => ~Exists(u)) ELSE Exists(u)

EditsHeld ==
    \A w \in Requests : InProgress(w) =>
        /\ RegistryEdit(w, req[w].op, req[w].saw, req[w].new)
        /\ RowHeld(w, req[w].op, req[w].at, req[w].user)

\* A customer in a row was put there by the request that made it, when it committed.
CustomerMaker ==
    \A u \in Requests :
        users[u].customer # None => req[users[u].customer].at \in {"refresh", "done", "failed"}

\* A request that has not begun has made no customer.
IssuedMaker == \A c \in customers : req[c].at # "none"

RInv ==
    /\ IInv
    /\ EditsHeld
    /\ CustomerMaker
    /\ IssuedMaker

------------------------------------------------------------------------------
(* The strengthened invariant is inductive.                                  *)

LEMMA RegistryInit == Init => RInv
  <1> SUFFICES ASSUME Init PROVE RInv
    OBVIOUS
  <1>1. /\ \A w \in Requests : req[w].at = "none" /\ users[w].customer = None
        /\ customers = {}
    BY DEF Init, Blank, NoUser
  <1> QED
    BY <1>1, InitHolds DEF RInv, EditsHeld, CustomerMaker, IssuedMaker, InProgress

\* Where the customer of a row comes from.
LEMMA CustomerTyped ==
    ASSUME IInv, NEW u \in Requests, users[u].customer # None
    PROVE  users[u].customer \in Requests
  BY UserFields DEF IInv, TypeOK, Made

\* A request that starts holds what it needs, and disturbs no other.
LEMMA StartHeld ==
    ASSUME RInv, NEW w \in Requests, NEW op, NEW at \in {"address", "commit"},
           NEW u \in Requests, NEW new,
           Starts(w, op, at, u, new),
           RegistryEdit(w, op, users[u], new), RowHeld(w, op, at, u),
           customers' = customers \/ customers' = customers \cup {w}
    PROVE  (EditsHeld /\ CustomerMaker /\ IssuedMaker)'
  <1> DEFINE r == [op |-> op, at |-> at, user |-> u, saw |-> users[u], new |-> new]
  <1>1. req[w].at = "none" /\ users' = users
    BY DEF Starts, Blank
  <1>2. r.op = op /\ r.at = at /\ r.user = u /\ r.saw = users[u] /\ r.new = new
    OBVIOUS
  <1>3. /\ req'[w] = r
        /\ \A v \in Requests : v # w => req'[v] = req[v]
    BY DEF Starts, RInv, IInv, TypeOK
  <1> HIDE DEF r
  <1>4. EditsHeld'
    <2>1. ASSUME NEW v \in Requests, InProgress(v)'
          PROVE  (RegistryEdit(v, req[v].op, req[v].saw, req[v].new)
                    /\ RowHeld(v, req[v].op, req[v].at, req[v].user))'
      <3>1. CASE v = w
        BY <1>1, <1>2, <1>3, <3>1 DEF RegistryEdit, RowHeld, Exists
      <3>2. CASE v # w
        BY <1>1, <1>3, <2>1, <3>2 DEF RInv, EditsHeld, InProgress, RegistryEdit, RowHeld, Exists
      <3> QED
        BY <3>1, <3>2
    <2> QED
      BY <2>1 DEF EditsHeld
  <1>5. CustomerMaker'
    <2>1. ASSUME NEW v \in Requests, users[v].customer # None
          PROVE  req'[users[v].customer].at \in {"refresh", "done", "failed"}
      <3>1. users[v].customer \in Requests
        BY <2>1, CustomerTyped DEF RInv
      <3> QED
        BY <1>1, <1>3, <2>1, <3>1 DEF RInv, CustomerMaker
    <2> QED
      BY <1>1, <2>1 DEF CustomerMaker
  <1>6. IssuedMaker'
    <2>1. ASSUME NEW c \in customers' PROVE req'[c].at # "none"
      <3>1. CASE c = w
        BY <1>2, <1>3, <3>1
      <3>2. CASE c # w
        <4>1. c \in customers /\ c \in Requests
          BY <3>2 DEF RInv, IInv, TypeOK
        <4> QED
          BY <1>3, <3>2, <4>1 DEF RInv, IssuedMaker
      <3> QED
        BY <3>1, <3>2
    <2> QED
      BY <2>1 DEF IssuedMaker
  <1> QED
    BY <1>4, <1>5, <1>6

\* The columns the registry speaks of, left as they were read.
SameStanding(saw, new) ==
    /\ new.email = saw.email /\ new.verified = saw.verified
    /\ new.customer = saw.customer /\ new.filled = saw.filled

\* One-time passwords, MFA, passwords and the onboarding step are none of the
\* registry's business.
LEMMA QuietHeld ==
    ASSUME RInv, NEW w \in Requests, NEW u \in Requests,
           \/ ResendOtp(w, u) \/ ForgotPassword(w, u) \/ ForgotPasswordVerify(w, u)
           \/ ResetPassword(w, u) \/ EnableMfa(w, u) \/ VerifyMfa(w, u)
           \/ DisableMfa(w, u) \/ ResetMfa(w, u) \/ ConnectExchange(w, u)
    PROVE  (EditsHeld /\ CustomerMaker /\ IssuedMaker)'
  <1>1. ASSUME NEW op \in Ops \ {"signup", "verify_email"}, NEW new,
               Edits(w, op, u, new), SameStanding(users[u], new), UNCHANGED customers
        PROVE  (EditsHeld /\ CustomerMaker /\ IssuedMaker)'
    BY <1>1, StartHeld DEF Edits, RegistryEdit, RowHeld, SameStanding
  <1>2. users[u] \in User
    BY DEF RInv, IInv, TypeOK
  <1>3. \A row \in User :
            /\ SameStanding(row, [row EXCEPT !.otp = w, !.expiry = w])
            /\ SameStanding(row, [row EXCEPT !.otp = None, !.expiry = None])
            /\ SameStanding(row, [row EXCEPT !.password = w])
    BY DEF User, SameStanding
  <1>4. \A row \in User :
            /\ SameStanding(row, [row EXCEPT !.secret = w, !.enabled = FALSE])
            /\ SameStanding(row, [row EXCEPT !.enabled = TRUE, !.step = 4])
            /\ SameStanding(row, [row EXCEPT !.secret = None, !.enabled = FALSE])
            /\ SameStanding(row, [row EXCEPT !.secret = w, !.enabled = TRUE])
            /\ SameStanding(row, [row EXCEPT !.step = 3])
    BY DEF User, SameStanding
  <1>5. {"resend_otp", "forgot_password", "forgot_password_verify", "reset_password",
         "enable_mfa", "verify_mfa", "disable_mfa", "reset_mfa", "connect_exchange"}
            \subseteq Ops \ {"signup", "verify_email"}
    BY DEF Ops, MailingOps
  <1>6. CASE ResendOtp(w, u) \/ ForgotPassword(w, u)
    BY <1>1, <1>2, <1>3, <1>5, <1>6 DEF ResendOtp, ForgotPassword
  <1>7. CASE ForgotPasswordVerify(w, u) \/ ResetPassword(w, u)
    BY <1>1, <1>2, <1>3, <1>5, <1>7 DEF ForgotPasswordVerify, ResetPassword
  <1>8. CASE EnableMfa(w, u) \/ VerifyMfa(w, u) \/ DisableMfa(w, u) \/ ResetMfa(w, u)
    BY <1>1, <1>2, <1>4, <1>5, <1>8 DEF EnableMfa, VerifyMfa, DisableMfa, ResetMfa
  <1>9. CASE ConnectExchange(w, u)
    BY <1>1, <1>2, <1>4, <1>5, <1>9 DEF ConnectExchange
  <1> QED
    BY <1>6, <1>7, <1>8, <1>9

\* The four operations that do change what the registry speaks of.
LEMMA SpokenHeld ==
    ASSUME RInv, NEW w \in Requests, NEW u \in Requests, NEW e,
           \/ e \in Emails /\ (Signup(w, e) \/ UpdateProfile(w, u, e))
           \/ VerifyEmail(w, u) \/ CreateAddress(w, u)
    PROVE  (EditsHeld /\ CustomerMaker /\ IssuedMaker)'
  <1>0. users[u] \in User /\ TypeOK
    BY DEF RInv, IInv, TypeOK
  <1>1. CASE Signup(w, e)
    <2> DEFINE new == [NoUser EXCEPT !.email = e, !.password = w, !.otp = w, !.expiry = w]
    <2>1. Starts(w, "signup", "commit", w, new) /\ UNCHANGED customers
      BY <1>1 DEF Signup
    <2>2. users[w] = NoUser
      BY <2>1 DEF Starts, Blank, RInv, IInv, RowMaker
    <2>3. RegistryEdit(w, "signup", users[w], new) /\ RowHeld(w, "signup", "commit", w)
      BY <2>2 DEF RegistryEdit, RowHeld, Exists, NoUser
    <2> HIDE DEF new
    <2> QED
      BY <2>1, <2>3, StartHeld
  <1>2. CASE UpdateProfile(w, u, e)
    <2>1. \A row \in User : RegistryEdit(w, "update_profile", row, [row EXCEPT !.email = e])
      BY DEF RegistryEdit, User
    <2> QED
      BY <1>0, <1>2, <2>1, StartHeld DEF UpdateProfile, Edits, RowHeld
  <1>3. CASE VerifyEmail(w, u)
    <2> DEFINE new == [users[u] EXCEPT !.verified = TRUE, !.step = 1, !.customer = w,
                                       !.otp = None, !.expiry = None]
    <2>1. /\ Starts(w, "verify_email", "commit", u, new) /\ Exists(u)
          /\ ~users[u].verified /\ customers' = customers \cup {w}
      BY <1>3 DEF VerifyEmail, Edits
    <2>2. users[u].customer # w
      <3>1. req[w].at = "none" /\ w # None
        BY <2>1, NoneFresh DEF Starts, Blank
      <3> QED
        BY <3>1 DEF RInv, CustomerMaker
    <2>3. RegistryEdit(w, "verify_email", users[u], new)
      BY <1>0, <2>1, <2>2 DEF RegistryEdit, User
    <2> HIDE DEF new
    <2> QED
      BY <2>1, <2>3, StartHeld DEF RowHeld
  <1>4. CASE CreateAddress(w, u)
    <2>1. \A row \in User :
              RegistryEdit(w, "create_address", row, [row EXCEPT !.filled = TRUE, !.step = 2])
      BY DEF RegistryEdit, User
    <2> QED
      BY <1>0, <1>4, <2>1, StartHeld DEF CreateAddress, RowHeld
  <1> QED
    BY <1>1, <1>2, <1>3, <1>4

\* A request that is answered, or that fails, holds nothing.
LEMMA FinishHeld ==
    ASSUME RInv, NEW w \in Requests, NEW at \in {"done", "failed"}, Finish(w, at),
           UNCHANGED users, customers' \subseteq customers \cup {w}
    PROVE  (EditsHeld /\ CustomerMaker /\ IssuedMaker)'
  <1>1. /\ req'[w].at = at
        /\ \A v \in Requests : v # w => req'[v] = req[v]
    BY DEF Finish, Blank, RInv, IInv, TypeOK
  <1>2. EditsHeld'
    <2>1. ASSUME NEW v \in Requests, InProgress(v)' PROVE v # w /\ req'[v] = req[v]
      BY <1>1, <2>1 DEF InProgress
    <2> QED
      BY <2>1 DEF EditsHeld, InProgress, RInv, RegistryEdit, RowHeld, Exists
  <1>3. CustomerMaker'
    <2>1. ASSUME NEW u \in Requests, users[u].customer # None
          PROVE  req'[users[u].customer].at \in {"refresh", "done", "failed"}
      <3>1. users[u].customer \in Requests
        BY <2>1, CustomerTyped DEF RInv
      <3> QED
        BY <1>1, <2>1, <3>1 DEF RInv, CustomerMaker
    <2> QED
      BY <2>1 DEF CustomerMaker
  <1>4. IssuedMaker'
    BY <1>1 DEF RInv, IInv, TypeOK, IssuedMaker
  <1> QED
    BY <1>2, <1>3, <1>4

LEMMA AddressHeld ==
    ASSUME RInv, NEW w \in Requests, AddressCommits(w)
    PROVE  (EditsHeld /\ CustomerMaker /\ IssuedMaker)'
  <1>1. /\ req[w].at = "address" /\ UNCHANGED <<users, customers>>
        /\ \A v \in Requests : v # w => req'[v] = req[v]
    BY DEF AddressCommits, RInv, IInv, TypeOK
  <1>2. /\ req'[w].at = "commit" /\ req'[w].op = req[w].op /\ req'[w].user = req[w].user
        /\ req'[w].saw = req[w].saw /\ req'[w].new = req[w].new
    BY DEF AddressCommits, RInv, IInv, TypeOK, Request
  <1>3. EditsHeld'
    <2>1. ASSUME NEW v \in Requests, InProgress(v)' PROVE InProgress(v)
      BY <1>1, <1>2, <2>1 DEF InProgress
    <2>2. ASSUME NEW v \in Requests, InProgress(v)
          PROVE  (RegistryEdit(v, req[v].op, req[v].saw, req[v].new)
                    /\ RowHeld(v, req[v].op, req[v].at, req[v].user))'
      <3>1. CASE v = w
        BY <1>1, <1>2, <2>2, <3>1 DEF RInv, EditsHeld, RegistryEdit, RowHeld, Exists
      <3>2. CASE v # w
        BY <1>1, <2>2, <3>2 DEF RInv, EditsHeld, RegistryEdit, RowHeld, Exists
      <3> QED
        BY <3>1, <3>2
    <2> QED
      BY <2>1, <2>2 DEF EditsHeld
  <1>4. CustomerMaker'
    <2>1. ASSUME NEW u \in Requests, users[u].customer # None
          PROVE  req'[users[u].customer].at \in {"refresh", "done", "failed"}
      <3>1. users[u].customer \in Requests
        BY <2>1, CustomerTyped DEF RInv
      <3> QED
        BY <1>1, <2>1, <3>1 DEF RInv, CustomerMaker
    <2> QED
      BY <1>1, <2>1 DEF CustomerMaker
  <1>5. IssuedMaker'
    BY <1>1, <1>2 DEF RInv, IInv, TypeOK, IssuedMaker
  <1> QED
    BY <1>3, <1>4, <1>5

\* What a commit makes of the columns the registry speaks of.
LEMMA CommitStanding ==
    ASSUME RInv, NEW w \in Requests, Commits(w)
    PROVE  LET u == req[w].user
               saw == req[w].saw
               new == req[w].new
               old == users[u]
               row == users'[u]
           IN  /\ u \in Requests /\ old \in User /\ row \in User
               /\ users' = [users EXCEPT ![u] = row]
               /\ \A v \in Requests : v # u => users'[v] = users[v]
               /\ row.email = Set(old.email, saw.email, new.email)
               /\ row.verified = Set(old.verified, saw.verified, new.verified)
               /\ row.customer = Set(old.customer, saw.customer, new.customer)
               /\ row.filled = Set(old.filled, saw.filled, new.filled)
               /\ \A v \in Requests \ {u} : users[v].email # row.email
               /\ new.email # None
               /\ old.email # None => row.email # None
               /\ row.filled => addresses[u] # {}
               /\ req[w].op = "verify_email" => w \in customers
               /\ RegistryEdit(w, req[w].op, saw, new)
               /\ RowHeld(w, req[w].op, "commit", u)
               /\ req' = [req EXCEPT ![w].at = "refresh"]
               /\ req[w].at = "commit"
               /\ UNCHANGED <<addresses, customers>>
  <1> DEFINE u == req[w].user
             saw == req[w].saw
             new == req[w].new
             old == users[u]
             row == users'[u]
  <1>1. req[w].at = "commit" /\ InProgress(w)
    BY DEF Commits, InProgress
  <1>2. Held(w, req[w])
    BY <1>1 DEF RInv, IInv, RequestsHeld
  <1>3. /\ u \in Requests /\ new.email # None
        /\ req[w].op = "verify_email" => w \in customers
    BY <1>2 DEF Held, GoodEdit
  <1>4. /\ row \in User /\ users' = [users EXCEPT ![u] = row]
        /\ old.email # None => row.email # None
        /\ row.filled => addresses[u] # {}
    BY CommitWrites DEF RInv
  <1>5. old \in User /\ \A v \in Requests : v # u => users'[v] = users[v]
    BY <1>3, <1>4 DEF RInv, IInv, TypeOK
  <1>6. row = Flush(old, saw, new)
    BY <1>3 DEF Commits, Flushed, RInv, IInv, TypeOK
  <1>7. \A v \in Requests \ {u} : users[v].email # row.email
    BY <1>6 DEF Commits, EmailIsFree, Flushed
  <1>8. RegistryEdit(w, req[w].op, saw, new) /\ RowHeld(w, req[w].op, "commit", u)
    BY <1>1 DEF RInv, EditsHeld
  <1>9. req' = [req EXCEPT ![w].at = "refresh"] /\ UNCHANGED <<addresses, customers>>
    BY DEF Commits
  <1> HIDE DEF u, saw, new, old, row
  <1>10. /\ row.email = Set(old.email, saw.email, new.email)
         /\ row.verified = Set(old.verified, saw.verified, new.verified)
         /\ row.customer = Set(old.customer, saw.customer, new.customer)
         /\ row.filled = Set(old.filled, saw.filled, new.filled)
    BY <1>6, FlushFields
  <1> QED
    BY <1>1, <1>3, <1>4, <1>5, <1>7, <1>8, <1>9, <1>10 DEF u, saw, new, old, row

LEMMA CommitHeld ==
    ASSUME RInv, NEW w \in Requests, Commits(w)
    PROVE  (EditsHeld /\ CustomerMaker /\ IssuedMaker)'
  <1> DEFINE u == req[w].user
             row == users'[u]
  <1>1. /\ u \in Requests /\ row \in User
        /\ \A v \in Requests : v # u => users'[v] = users[v]
        /\ row.email = Set(users[u].email, req[w].saw.email, req[w].new.email)
        /\ users[u].email # None => row.email # None
        /\ req[w].at = "commit" /\ UNCHANGED customers
        /\ RegistryEdit(w, req[w].op, req[w].saw, req[w].new)
        /\ RowHeld(w, req[w].op, "commit", u)
    BY CommitStanding
  <1>2. row.customer = users[u].customer \/ row.customer = w
    BY CommitStanding DEF Set, RegistryEdit
  <1>3. /\ \A v \in Requests : v # w => req'[v] = req[v]
        /\ req'[w].at = "refresh" /\ req'[w].op = req[w].op /\ req'[w].user = u
        /\ req'[w].saw = req[w].saw /\ req'[w].new = req[w].new
    BY DEF Commits, RInv, IInv, TypeOK, Request
  <1>4. \A v \in Requests : Exists(v) => Exists(v)'
    BY <1>1 DEF Exists
  <1> HIDE DEF u, row
  <1>5. EditsHeld'
    <2>1. ASSUME NEW v \in Requests, InProgress(v)', v # w
          PROVE  (RegistryEdit(v, req[v].op, req[v].saw, req[v].new)
                    /\ RowHeld(v, req[v].op, req[v].at, req[v].user))'
      <3>1. /\ req'[v] = req[v]
            /\ RegistryEdit(v, req[v].op, req[v].saw, req[v].new)
            /\ RowHeld(v, req[v].op, req[v].at, req[v].user)
        BY <1>3, <2>1 DEF RInv, EditsHeld, InProgress
      <3>2. CASE req[v].op = "signup"
        <4>1. req[v].at # "refresh" => u # v
          BY <1>1, <2>1, <3>1, <3>2 DEF RowHeld
        <4>2. req[v].at # "refresh" => ~Exists(v)'
          BY <1>1, <3>1, <3>2, <4>1 DEF RowHeld, Exists
        <4> QED
          BY <3>1, <3>2, <4>2 DEF RegistryEdit, RowHeld
      <3>3. CASE req[v].op # "signup"
        <4>1. req[v].user \in Requests
          BY <2>1, <3>1 DEF RInv, IInv, RequestsHeld, InProgress, Held
        <4> QED
          BY <1>4, <3>1, <3>3, <4>1 DEF RegistryEdit, RowHeld
      <3> QED
        BY <3>2, <3>3
    <2>2. RegistryEdit(w, req[w].op, req[w].saw, req[w].new)'
      BY <1>1, <1>3 DEF RegistryEdit
    <2>3. RowHeld(w, req[w].op, req[w].at, req[w].user)'
      BY <1>1, <1>3, <1>4 DEF RowHeld
    <2> QED
      BY <2>1, <2>2, <2>3 DEF EditsHeld
  <1>6. CustomerMaker'
    <2>1. ASSUME NEW v \in Requests, users'[v].customer # None
          PROVE  req'[users'[v].customer].at \in {"refresh", "done", "failed"}
      <3>1. CASE users'[v].customer = w
        BY <1>3, <3>1
      <3>2. CASE users'[v].customer # w
        <4>1. users'[v].customer = users[v].customer
          BY <1>1, <1>2, <3>2 DEF row
        <4>2. users[v].customer \in Requests
          BY <2>1, <4>1, CustomerTyped DEF RInv
        <4> QED
          BY <1>3, <2>1, <3>2, <4>1, <4>2 DEF RInv, CustomerMaker
      <3> QED
        BY <3>1, <3>2
    <2> QED
      BY <2>1 DEF CustomerMaker
  <1>7. IssuedMaker'
    BY <1>1, <1>3 DEF RInv, IInv, TypeOK, IssuedMaker
  <1> QED
    BY <1>5, <1>6, <1>7

LEMMA RegistryInvariance == Spec => []RInv
  <1>1. RInv /\ [Next]_vars => RInv'
    <2> SUFFICES ASSUME RInv, [Next]_vars PROVE RInv'
      OBVIOUS
    <2>0. IInv'
      BY StepHolds DEF RInv
    <2>1. CASE \E w \in Requests, u \in Requests :
                  \/ ResendOtp(w, u) \/ ForgotPassword(w, u) \/ ForgotPasswordVerify(w, u)
                  \/ ResetPassword(w, u) \/ EnableMfa(w, u) \/ VerifyMfa(w, u)
                  \/ DisableMfa(w, u) \/ ResetMfa(w, u) \/ ConnectExchange(w, u)
      BY <2>0, <2>1, QuietHeld DEF RInv
    <2>2. CASE \E w \in Requests, e \in Emails :
                  Signup(w, e) \/ \E u \in Requests : UpdateProfile(w, u, e)
      BY <2>0, <2>2, SpokenHeld DEF RInv
    <2>3. ASSUME NEW w \in Requests, NEW u \in Requests, VerifyEmail(w, u) \/ CreateAddress(w, u)
          PROVE  RInv'
      BY <2>0, <2>3, SpokenHeld DEF RInv
    <2>4. CASE \E w \in Requests :
                  Refreshes(w) \/ Fails(w) \/ \E u \in Requests : Checkout(w, u)
      BY <2>0, <2>4, FinishHeld DEF RInv, Refreshes, Fails, Checkout
    <2>5. CASE \E w \in Requests : AddressCommits(w)
      BY <2>0, <2>5, AddressHeld DEF RInv
    <2>6. CASE \E w \in Requests : Commits(w)
      BY <2>0, <2>6, CommitHeld DEF RInv
    <2>7. CASE (\E r \in Requests : OtpExpires(r)) \/ UNCHANGED vars
      BY <2>0, <2>7
      DEF RInv, OtpExpires, vars, EditsHeld, CustomerMaker, IssuedMaker, InProgress, RegistryEdit,
          RowHeld, Exists
    <2> QED
      BY <2>1, <2>2, <2>3, <2>4, <2>5, <2>6, <2>7 DEF Next
  <1> QED
    BY RegistryInit, <1>1, PTL DEF Spec

------------------------------------------------------------------------------
(* Step by step, the requests do what a registry does.                       *)

\* The registry sees nothing but the tables and Stripe.
LEMMA RegistryStutters ==
    ASSUME UNCHANGED <<users, addresses, customers>>
    PROVE  UNCHANGED Registry!vars
  BY DEF Registry!vars, EmailOf, CustomerOf, Verified, Housed, Filled

\* Stripe makes a customer for a request that has not made one.
LEMMA CustomerIssued ==
    ASSUME RInv, NEW w \in Requests, req[w] = Blank,
           customers' = customers \cup {w}, UNCHANGED <<users, addresses>>
    PROVE  Registry!Next
  <1>1. w \notin customers
    BY DEF RInv, IssuedMaker, Blank
  <1>2. Registry!Issue(w)
    BY <1>1 DEF Registry!Issue, EmailOf, CustomerOf, Verified, Housed, Filled
  <1> QED
    BY <1>2 DEF Registry!Next

LEMMA AddressHouses ==
    ASSUME RInv, NEW w \in Requests, AddressCommits(w)
    PROVE  Registry!Next
  <1> DEFINE u == req[w].user
  <1>1. InProgress(w) /\ req[w].op = "create_address" /\ u \in Requests
    BY DEF AddressCommits, InProgress, RInv, IInv, RequestsHeld, Held
  <1>2. Exists(u)
    BY <1>1 DEF RInv, EditsHeld, RowHeld
  <1>3. Housed' = Housed \cup {u}
    <2>1. addresses' = [addresses EXCEPT ![u] = @ \cup {w}] /\ addresses \in [Requests -> SUBSET Requests]
      BY DEF AddressCommits, RInv, IInv, TypeOK
    <2> HIDE DEF u
    <2> QED
      BY <1>1, <2>1 DEF Housed
  <1>4. Registry!House(u)
    BY <1>1, <1>2, <1>3
    DEF Registry!House, Registry!IsUser, Exists, AddressCommits, EmailOf, CustomerOf, Verified, Filled
  <1> HIDE DEF u
  <1> QED
    BY <1>1, <1>4 DEF Registry!Next

\* A commit over any row others have written meanwhile.
LEMMA CommitRegisters ==
    ASSUME RInv, NEW w \in Requests, Commits(w)
    PROVE  [Registry!Next]_(Registry!vars)
  <1> DEFINE u == req[w].user
             op == req[w].op
             saw == req[w].saw
             new == req[w].new
             old == users[u]
             row == users'[u]
  <1>1. /\ u \in Requests /\ old \in User /\ row \in User
        /\ users' = [users EXCEPT ![u] = row]
        /\ \A v \in Requests : v # u => users'[v] = users[v]
    BY CommitStanding
  <1>2. /\ row.email = Set(old.email, saw.email, new.email)
        /\ row.verified = Set(old.verified, saw.verified, new.verified)
        /\ row.customer = Set(old.customer, saw.customer, new.customer)
        /\ row.filled = Set(old.filled, saw.filled, new.filled)
    BY CommitStanding
  <1>3. /\ \A v \in Requests \ {u} : users[v].email # row.email
        /\ new.email # None /\ (old.email # None => row.email # None)
        /\ row.filled => addresses[u] # {}
        /\ op = "verify_email" => w \in customers
        /\ UNCHANGED <<addresses, customers>>
    BY CommitStanding
  <1>4. RegistryEdit(w, op, saw, new) /\ RowHeld(w, op, "commit", u)
    BY CommitStanding
  <1>5. \A v \in Requests : users[v].customer # w
    <2>1. req[w].at = "commit" /\ w # None
      BY NoneFresh DEF Commits
    <2> QED
      BY <2>1 DEF RInv, CustomerMaker
  <1>t. /\ row.email \in Emails \cup {None} /\ old.email \in Emails \cup {None}
        /\ row.verified \in BOOLEAN /\ old.verified \in BOOLEAN
        /\ row.filled \in BOOLEAN /\ old.filled \in BOOLEAN
    BY <1>1, UserFields
  <1>h. Housed' = Housed
    BY <1>3 DEF Housed
  <1> HIDE DEF u, op, saw, new, old, row
  <1>u. \A v \in Requests : users'[v] = IF v = u THEN row ELSE users[v]
    BY <1>1 DEF row
  <1>6. CASE row.email # old.email
    <2>1. /\ op # "verify_email" /\ op # "create_address"
          /\ row.email # None
      BY <1>2, <1>3, <1>4, <1>6 DEF Set, RegistryEdit
    <2>2. row.verified = old.verified /\ row.customer = old.customer /\ row.filled = old.filled
      BY <1>2, <1>4, <2>1 DEF Set, RegistryEdit
    <2>3. /\ EmailOf' = [EmailOf EXCEPT ![u] = row.email]
          /\ UNCHANGED <<Verified, CustomerOf, Filled>>
      <3>1. EmailOf' = [EmailOf EXCEPT ![u] = row.email]
        <4>1. \A v \in Requests : users'[v].email = IF v = u THEN row.email ELSE users[v].email
          BY <1>u
        <4> QED
          BY <1>1, <4>1 DEF EmailOf
      <3>2. CustomerOf' = CustomerOf
        BY <1>1, <1>u, <2>2 DEF CustomerOf, old
      <3>3. Verified' = Verified /\ Filled' = Filled
        BY <1>1, <1>u, <2>2 DEF Verified, Filled, old
      <3> QED
        BY <3>1, <3>2, <3>3
    <2>4. \A v \in Requests : EmailOf[v] # row.email
      BY <1>3, <1>6 DEF EmailOf, old
    <2>5. CASE old.email = None
      <3>1. Registry!Register(u, row.email)
        BY <1>1, <1>3, <1>h, <2>3, <2>4, <2>5
        DEF Registry!Register, Registry!IsUser, Registry!Free, EmailOf, old
      <3> QED
        BY <1>1, <1>t, <2>1, <3>1 DEF Registry!Next
    <2>6. CASE old.email # None
      <3>1. Registry!Move(u, row.email)
        BY <1>1, <1>3, <1>h, <2>3, <2>4, <2>6
        DEF Registry!Move, Registry!IsUser, Registry!Free, EmailOf, old
      <3> QED
        BY <1>1, <1>t, <2>1, <3>1 DEF Registry!Next
    <2> QED
      BY <2>5, <2>6
  <1>7. CASE row.email = old.email /\ op = "verify_email"
    <2>1. row.verified /\ row.customer = w /\ row.filled = old.filled
      BY <1>2, <1>4, <1>7 DEF Set, RegistryEdit
    <2>2. /\ EmailOf' = EmailOf /\ Filled' = Filled
          /\ Verified' = Verified \cup {u}
          /\ CustomerOf' = [CustomerOf EXCEPT ![u] = w]
      <3>1. EmailOf' = EmailOf
        BY <1>1, <1>u, <1>7 DEF EmailOf, old
      <3>2. Filled' = Filled
        BY <1>1, <1>u, <2>1 DEF Filled, old
      <3>3. Verified' = Verified \cup {u}
        BY <1>1, <1>u, <2>1 DEF Verified
      <3>4. CustomerOf' = [CustomerOf EXCEPT ![u] = w]
        <4>1. \A v \in Requests : users'[v].customer = IF v = u THEN w ELSE users[v].customer
          BY <1>u, <2>1
        <4> QED
          BY <1>1, <4>1 DEF CustomerOf
      <3> QED
        BY <3>1, <3>2, <3>3, <3>4
    <2>3. EmailOf[u] # None
      BY <1>1, <1>4, <1>7 DEF RowHeld, Exists, EmailOf
    <2>4. Registry!Verify(u, w)
      BY <1>1, <1>3, <1>5, <1>7, <1>h, <2>2, <2>3
      DEF Registry!Verify, Registry!IsUser, CustomerOf
    <2> QED
      BY <1>1, <2>4 DEF Registry!Next
  <1>8. CASE row.email = old.email /\ op # "verify_email"
    <2>1. row.verified = old.verified /\ row.customer = old.customer
      BY <1>2, <1>4, <1>8 DEF Set, RegistryEdit
    <2>2. EmailOf' = EmailOf /\ Verified' = Verified /\ CustomerOf' = CustomerOf
      <3>1. EmailOf' = EmailOf
        BY <1>1, <1>u, <1>8 DEF EmailOf, old
      <3>2. CustomerOf' = CustomerOf
        BY <1>1, <1>u, <2>1 DEF CustomerOf, old
      <3>3. Verified' = Verified
        BY <1>1, <1>u, <2>1 DEF Verified, old
      <3> QED
        BY <3>1, <3>2, <3>3
    <2>3. CASE row.filled
      <3>1. Filled' = Filled \cup {u} /\ u \in Housed
        BY <1>1, <1>3, <1>u, <2>3 DEF Filled, Housed
      <3>2. Registry!Fill(u)
        BY <1>3, <1>h, <2>2, <3>1 DEF Registry!Fill
      <3> QED
        BY <1>1, <3>2 DEF Registry!Next
    <2>4. CASE ~row.filled
      <3>1. ~old.filled
        BY CommitWrites, <2>4 DEF RInv, old, row, u
      <3>2. Filled' = Filled
        BY <1>1, <1>u, <2>4, <3>1 DEF Filled, old
      <3> QED
        BY <1>3, <1>h, <2>2, <3>2 DEF Registry!vars
    <2> QED
      BY <2>3, <2>4
  <1> QED
    BY <1>6, <1>7, <1>8

\* Requests that start leave the tables alone; one that verifies an address has
\* had a customer made.
LEMMA StartRegisters ==
    ASSUME RInv, NEW w \in Requests, NEW u \in Requests, NEW e,
           \/ e \in Emails /\ (Signup(w, e) \/ UpdateProfile(w, u, e))
           \/ ResendOtp(w, u) \/ VerifyEmail(w, u) \/ CreateAddress(w, u)
           \/ EnableMfa(w, u) \/ VerifyMfa(w, u) \/ DisableMfa(w, u) \/ ResetMfa(w, u)
           \/ ForgotPassword(w, u) \/ ForgotPasswordVerify(w, u) \/ ResetPassword(w, u)
           \/ ConnectExchange(w, u)
    PROVE  [Registry!Next]_(Registry!vars)
  <1>1. CASE VerifyEmail(w, u)
    <2>1. req[w] = Blank /\ customers' = customers \cup {w} /\ UNCHANGED <<users, addresses>>
      BY <1>1 DEF VerifyEmail, Edits, Starts
    <2> QED
      BY <2>1, CustomerIssued
  <1>2. ASSUME NEW op, NEW at, NEW v, NEW new, Starts(w, op, at, v, new), UNCHANGED customers
        PROVE  UNCHANGED Registry!vars
    BY <1>2, RegistryStutters DEF Starts
  <1>3. CASE Signup(w, e) \/ UpdateProfile(w, u, e) \/ CreateAddress(w, u)
    BY <1>2, <1>3 DEF Signup, UpdateProfile, CreateAddress, Edits
  <1>4. CASE ResendOtp(w, u) \/ ForgotPassword(w, u) \/ ForgotPasswordVerify(w, u) \/ ResetPassword(w, u)
    BY <1>2, <1>4 DEF ResendOtp, ForgotPassword, ForgotPasswordVerify, ResetPassword, Edits
  <1>5. CASE EnableMfa(w, u) \/ VerifyMfa(w, u) \/ DisableMfa(w, u) \/ ResetMfa(w, u)
    BY <1>2, <1>5 DEF EnableMfa, VerifyMfa, DisableMfa, ResetMfa, Edits
  <1>6. CASE ConnectExchange(w, u)
    BY <1>2, <1>6 DEF ConnectExchange, Edits
  <1> QED
    BY <1>1, <1>3, <1>4, <1>5, <1>6

\* The users table is a registry, whatever requests interleave: an address is
\* one user's until it moves, whoever is verified has a customer that exists and
\* is nobody else's, whoever is marked as having an address has one, and no
\* commit takes anything back.
THEOREM RegistryKept == Spec => KeepsRegistry
  <1>1. Init => Registry!Init
    BY DEF Init, NoUser, Registry!Init, EmailOf, CustomerOf, Verified, Housed, Filled
  <1>2. RInv /\ [Next]_vars => [Registry!Next]_(Registry!vars)
    <2> SUFFICES ASSUME RInv, [Next]_vars PROVE [Registry!Next]_(Registry!vars)
      OBVIOUS
    <2>1. CASE \E w \in Requests, e \in Emails :
                  Signup(w, e) \/ \E u \in Requests : UpdateProfile(w, u, e)
      BY <2>1, StartRegisters
    <2>2. CASE \E w \in Requests, u \in Requests :
                  \/ ResendOtp(w, u) \/ VerifyEmail(w, u) \/ CreateAddress(w, u)
                  \/ EnableMfa(w, u) \/ VerifyMfa(w, u) \/ DisableMfa(w, u) \/ ResetMfa(w, u)
                  \/ ForgotPassword(w, u) \/ ForgotPasswordVerify(w, u) \/ ResetPassword(w, u)
                  \/ ConnectExchange(w, u)
      BY <2>2, StartRegisters
    <2>3. CASE \E w \in Requests, u \in Requests : Checkout(w, u)
      BY <2>3, CustomerIssued DEF Checkout
    <2>4. CASE \E w \in Requests : AddressCommits(w)
      BY <2>4, AddressHouses
    <2>5. CASE \E w \in Requests : Commits(w)
      BY <2>5, CommitRegisters
    <2>6. CASE \/ \E w \in Requests : Refreshes(w) \/ Fails(w) \/ OtpExpires(w)
               \/ UNCHANGED vars
      BY <2>6, RegistryStutters DEF Refreshes, Fails, OtpExpires, vars
    <2> QED
      BY <2>1, <2>2, <2>3, <2>4, <2>5, <2>6 DEF Next
  <1> QED
    BY <1>1, <1>2, RegistryInvariance, PTL DEF Spec, KeepsRegistry, Registry!Spec
=============================================================================
