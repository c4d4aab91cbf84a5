SPECIFICATION FairSpec
CONSTANTS
    Readers = {r1, r2}
    Kinds = {"mean", "median", "variance", "stddev"}
    Windows = {1, 2}
    MaxAdds = 3
    MaxResets = 1
    MaxGets = 2
    Null = Null
INVARIANTS TypeOK WindowIsLatest StaleOnlyByRace
 
\* Readers that asked for everything and a series that is full make no step.
CHECK_DEADLOCK FALSE
