SPECIFICATION Spec
CONSTANTS
    Sizes = {1, 2, 3}
    Bounds <- MCBounds
    BinWidths = {1, 2}
    Values <- MCValues
    MaxValues = 4
    MaxColumns = 4
    MaxLabels = 5
    Tags = {t1}
    Fields = {f1, f2, bad}
    Unwritable = {bad}
    MaxAdds = 3
    MaxCommits = 3
    Configs = {c1, c2}
    MaxSetups = 3
    MaxTries = 2
    a = a
    b = b
    ab = ab
    Topics = {a, b}
    Subscribers = {a, b, ab}
    Matching <- MCMatching
    Callbacks <- MCCallbacks
    Lines = {l1, l2}
    Blank = blank
    MaxMessages = 2
    MaxContents = 2
INVARIANTS
    BinsCount
    PercentileCounts
    
    WrittenOnce
    
    
\* Every part may stop: an entry is written, an option set is complete.
CHECK_DEADLOCK FALSE
