SPECIFICATION OrderlySpec
CONSTANTS
    Users = {x, y}
    Admins = {x, y}
    Submissions = {s1, s2, s3}
    Reviews = {r1, r2, r3}
    MaxTier = 2
    Nobody = Nobody
    NoSubmission = NoSubmission
SYMMETRY MCSymmetry
CHECK_DEADLOCK FALSE
INVARIANTS
    TypeOK
    OneActiveSubmission
    TierIsEarned
PROPERTY ReviewIsFinal
