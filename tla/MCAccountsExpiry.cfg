SPECIFICATION Spec
CONSTANTS
    r1 = r1  r2 = r2  r3 = r3  r4 = r4
    home = home  work = work
    Requests <- ThreeRequests
    Emails <- MCEmails
    None = None
    MaxActive = 2
PROPERTY ResetOtpInTime
CHECK_DEADLOCK FALSE
