SPECIFICATION Spec
CONSTANTS
    u1 = u1  u2 = u2  u3 = u3
    Users <- MCUsers
    Broken <- MCBroken
    NoUser = NoUser
    MaxFaults = 2
CHECK_DEADLOCK FALSE
INVARIANT ShutdownDisposes
