\* A timed call and an untimed wait, over two connections.
SPECIFICATION FairSpec
CONSTANTS
    c1 = c1
    w1 = w1
    w2 = w2
    r1 = r1
    r2 = r2
    NoWait = NoWait
    Blank = Blank
    Calls <- OneCall
    Waits <- OneWait
    Rids <- OneRid
    StashMax = 1
    TimedTasks <- OneCall
    LateTimers = TRUE
    MaxConns = 2
    MaxEnvelopes = 1
INVARIANTS
    TypeOK
    NoLeakedEntry
    AwaitsCurrentConnection
PROPERTY
    DisconnectWakesAll
\* The call and the wait may have ended.
CHECK_DEADLOCK FALSE
