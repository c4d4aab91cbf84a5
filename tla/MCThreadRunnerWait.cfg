SPECIFICATION Spec
CONSTANTS
    Owner = Owner
    w1 = w1
    w2 = w2
    Workers = {w1, w2}
    Helpers = {h}
    Null = Null
    StopCodes <- MCStopCodes
    PreErrors <- MCPreErrors
    LoopErrors <- MCLoopErrors
    PostResults <- MCPostResults
INVARIANT WaitWaits
CHECK_DEADLOCK FALSE
