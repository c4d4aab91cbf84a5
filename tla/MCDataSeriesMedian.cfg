SPECIFICATION Spec
CONSTANTS
    Readers = {r1, r2}
    Kinds = {"mean", "median", "variance", "stddev"}
    Windows = {1, 2}
    MaxAdds = 3
    MaxResets = 1
    MaxGets = 2
    Null = Null
INVARIANT MedianIsMedian
CHECK_DEADLOCK FALSE
