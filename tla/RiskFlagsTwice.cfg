SPECIFICATION TwiceSpec
CONSTANTS
    Rows = {r1, r2}
    Suspects = {r1}
    Workers = {w1, w2}
    NoRow = NoRow
    MaxRetries = 1
    MaxFaults = 1
CHECK_DEADLOCK FALSE
INVARIANT FlaggedOnce
