SPECIFICATION Spec
CONSTANTS
    Users = {x, y}
    Admins = {x, y}
    Submissions = {s1, s2}
    Reviews = {r1, r2}
    MaxTier = 2
    Nobody = Nobody
    NoSubmission = NoSubmission
CHECK_DEADLOCK FALSE
PROPERTY ReviewIsFinal
