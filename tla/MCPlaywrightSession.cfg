\* Three concurrent commands, close(), and every failure.
SPECIFICATION Spec
CONSTANTS
    c1 = c1
    c2 = c2
    c3 = c3
    Closer = Closer
    Commands <- ThreeCommands
    MaxObjects = 3
INVARIANTS
    BrowserOwned
    DriversAccounted
    PagesTracked
SYMMETRY CommandSymmetry
\* Every command may have ended.
CHECK_DEADLOCK FALSE
