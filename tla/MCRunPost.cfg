\* A body of two chunks, receipts of the command's request id and of another.
SPECIFICATION PSpec
CONSTANTS
    w1 = w1
    r1 = r1
    r2 = r2
    NoWait = NoWait
    Blank = Blank
    Parts = 2
    Waiter = w1
    Rid = r1
    Calls <- TwoParts
    Waits <- OneWait
    Rids <- TwoRids
    TimedTasks <- AllTasks
    StashMax = 1
    LateTimers = TRUE
    MaxConns = 1
    MaxEnvelopes = 2
INVARIANTS
    NothingLeftBehind
    ResultSound
    PostsInOrder
PROPERTY
    RunEnds
\* The command has ended.
CHECK_DEADLOCK FALSE
