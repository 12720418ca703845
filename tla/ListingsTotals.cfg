SPECIFICATION Spec
CONSTANTS
    r1 = r1
    r2 = r2
    r3 = r3
    Rows <- MCRows
    Suspects <- MCSuspects
    Mine <- MCMine
    Workers = {w1}
    NoRow = NoRow
    MaxRetries = 1
    MaxFaults = 1
    Limit = 1
CHECK_DEADLOCK FALSE
INVARIANT TotalsAreEnough
