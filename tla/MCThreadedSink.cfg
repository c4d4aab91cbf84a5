SPECIFICATION FairSpec
CONSTANTS
    c = c
    u = u
    Sinks = {c, u}
    Root = c
    Targets <- MCTargets
    Batch = 2
    MaxItems = 3
INVARIANTS TypeOK OnlySpuriousPop BoundedAfterStop
PROPERTIES ChannelSpec Delivery StepReturns
\* A stopped or failed sink does nothing more.
CHECK_DEADLOCK FALSE
