\* Two envelopes for one slot, a disconnect, a failing reader, Ctrl-C.
SPECIFICATION SSpec
CONSTANTS
    r1 = r1
    NoWait = NoWait
    Blank = Blank
    Token = Token
    Calls <- AllCalls
    Parts <- Replies
    MaxInflight = 1
    Waits <- None
    Rids <- OneRid
    StashMax = 1
    TimedTasks <- PostCalls
    LateTimers = FALSE
    MaxConns = 1
    MaxEnvelopes = 2
INVARIANT
    SessionReleased
PROPERTIES
    ServeEnds
    PipelinesEnd
\* The command has ended.
CHECK_DEADLOCK FALSE
