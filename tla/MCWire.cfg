\* Two calls in each direction, two frames of the peer.
SPECIFICATION WSpec
CONSTANTS
    i1 = i1
    i2 = i2
    Ids <- TwoIds
    Methods <- SomeMethods
    MaxFrames = 2
INVARIANTS
    OwnResult
    RepliesExpected
PROPERTIES
    PeerCallsAnswered
    AnswersArrive
\* Everything sent may have been read.
CHECK_DEADLOCK FALSE
