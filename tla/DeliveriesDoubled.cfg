SPECIFICATION Spec
CONSTANTS
    Records = {d1}
    Workers = {w1, w2}
    NoRecord = NoRecord
    MaxAttempts = 2
    BatchLimit = 2
    MaxFaults = 0
CHECK_DEADLOCK FALSE
PROPERTY DeliveredForGood
