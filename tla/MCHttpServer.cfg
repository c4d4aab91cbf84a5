SPECIFICATION FairSpec
CONSTANTS
    Handlers = {"area", "inner", "open"}
    Root = "root"
    Tree <- MCTree
    Connections = {c1, c2}
    Requests <- MCRequests
    Nobody = Nobody
    MaxRequests = 2
INVARIANTS TypeOK OneOperation NoOrphans StuckMeansLost Authorised
 
\* A server that was stopped, and whose sessions are stuck, makes no step.
CHECK_DEADLOCK FALSE
