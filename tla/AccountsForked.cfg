SPECIFICATION Spec
CONSTANTS
    Requests = {r1, r2, r3, r4}
    Emails = {e1, e2}
    NoEmail = NoEmail
    NoToken = NoToken
CHECK_DEADLOCK FALSE
INVARIANT OneLiveToken
