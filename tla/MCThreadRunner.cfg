SPECIFICATION FairSpec
CONSTANTS
    Owner = Owner
    w1 = w1
    w2 = w2
    Workers = {w1, w2}
    Helpers = {h}
    Null = Null
    StopCodes <- MCStopCodes
    PreErrors <- MCPreErrors
    LoopErrors <- MCLoopErrors
    PostResults <- MCPostResults
INVARIANTS TypeOK  QuietAfterJoin FailureSurfaces
PROPERTIES  StopEndsRuns FinishReturns
\* A destroyed object makes no step.
CHECK_DEADLOCK FALSE
