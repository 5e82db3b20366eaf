\* Two waits, one of them timed, two request ids, two connections, a stash of one.
SPECIFICATION Spec
CONSTANTS
    c1 = c1
    w1 = w1
    w2 = w2
    r1 = r1
    r2 = r2
    NoWait = NoWait
    Blank = Blank
    Calls <- None
    Waits <- TwoWaits
    Rids <- TwoRids
    StashMax = 1
    TimedTasks <- OneWait
    LateTimers = FALSE
    MaxConns = 2
    MaxEnvelopes = 3
INVARIANTS
    NoLostWakeup
    ReceiptAccounted
PROPERTY
    IsMailbox
SYMMETRY RidSymmetry
\* Every wait may have ended.
CHECK_DEADLOCK FALSE
