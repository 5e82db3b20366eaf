\* Two overlapping requests, sessions that expire, end and are created anew.
SPECIFICATION Spec
CONSTANTS
    a = a
    q1 = q1
    q2 = q2
    Callers <- OneCaller
    Requests <- TwoRequests
    Ttl = 1
    MaxTime = 2
    MaxSessions = 2
INVARIANTS
    NoReuseAfterCompletion
    PushedKeysVerify
    ExpiredOnArrivalRejected
SYMMETRY RequestSymmetry
\* Every request may have been answered.
CHECK_DEADLOCK FALSE
