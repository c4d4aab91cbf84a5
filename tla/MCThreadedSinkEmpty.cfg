SPECIFICATION Spec
CONSTANTS
    c = c
    u = u
    Sinks = {c, u}
    Root = c
    Targets <- MCTargets
    Batch = 2
    MaxItems = 3
INVARIANT NoPopFromEmpty
\* A stopped or failed sink does nothing more.
CHECK_DEADLOCK FALSE
