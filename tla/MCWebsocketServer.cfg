SPECIFICATION FairSpec
CONSTANTS
    Connections = {c1, c2}
    Written = {c1}
    Nobody = Nobody
INVARIANTS TypeOK OneOperation DisconnectIsLast StuckMeansLost WholeMessages
PROPERTIES OpensOrEnds
\* A server that was stopped, and whose sessions are stuck, makes no step.
CHECK_DEADLOCK FALSE
