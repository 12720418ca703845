SPECIFICATION SingleSpec
CONSTANTS
    Records = {d1, d2}
    Workers = {w1, w2}
    NoRecord = NoRecord
    MaxAttempts = 3
    BatchLimit = 1
    MaxFaults = 2
CHECK_DEADLOCK FALSE
INVARIANTS
    TypeOK
    DeliveredIsReceived
    AttemptsBounded
PROPERTIES
    DeliveredForGood
    RetriesWait
    EveryRetrySettled
