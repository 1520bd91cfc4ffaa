SPECIFICATION Spec
CONSTANTS
    r1 = r1  r2 = r2  r3 = r3  r4 = r4
    home = home  work = work
    Requests <- MCRequests
    Emails <- MCEmails
    None = None
    MaxActive = 2
SYMMETRY Symmetry
INVARIANTS
    TypeOK
    OtpKeepsItsExpiry
    VerifiedIsComplete
    FilledHasAddress
    AnsweredOtpWasMailed
PROPERTIES
    CustomerReplacedByRivalOnly
    KeepsRegistry
    NoOldValueReturns
    MfaTornByStaleReadOnly
CHECK_DEADLOCK FALSE
