\* Four pipelines, one with a chunked reply, for two slots.
SPECIFICATION HSpec
CONSTANTS
    r1 = r1
    NoWait = NoWait
    Blank = Blank
    Calls <- FourCalls
    Parts <- FourReplies
    MaxInflight = 2
    Waits <- None
    Rids <- OneRid
    StashMax = 1
    TimedTasks <- TimedCalls
    LateTimers = FALSE
    MaxConns = 1
    MaxEnvelopes = 4
INVARIANTS
    SlotsConserved
    NoIdleSlot
    StartedInOrder
    RepliesWhole
\* Every pipeline may have ended.
CHECK_DEADLOCK FALSE
