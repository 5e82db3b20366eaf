\* The reader fails while the command serves.
SPECIFICATION SSpec
CONSTANTS
    r1 = r1
    NoWait = NoWait
    Blank = Blank
    Token = Token
    Calls <- AllCalls
    Parts <- Replies
    MaxInflight = 1
    Waits <- None
    Rids <- OneRid
    StashMax = 1
    TimedTasks <- PostCalls
    LateTimers = FALSE
    MaxConns = 1
    MaxEnvelopes = 2
INVARIANT
    CloseReleasesAll
\* The command has ended.
CHECK_DEADLOCK FALSE
