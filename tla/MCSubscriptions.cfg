SPECIFICATION Spec
CONSTANTS
    s1 = s1  s2 = s2  w1 = w1  w2 = w2
    Subs <- MCSubs
    Requests <- MCRequests
    NoSub = NoSub
SYMMETRY Symmetry
INVARIANTS
    TypeOK
    RowsArePaidFor
    AcknowledgedIsRecorded
PROPERTIES
    KeepsLedger
    UntoldOnlyByStaleRow
