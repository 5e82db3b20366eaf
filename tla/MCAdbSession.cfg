\* Two shell commands, a ping or screenshot, and close(); every command may need a new shell.
SPECIFICATION FairSpec
CONSTANTS
    c1 = c1
    c2 = c2
    s1 = s1
    Closer = Closer
    Commands <- TwoCommands
    Shots <- OneShot
    MaxShells = 2
INVARIANTS
    OutputIsOwn
    StraysAccounted
PROPERTY
    CommandsAnswered
\* Every command may have ended.
CHECK_DEADLOCK FALSE
