SPECIFICATION FormSpec
CONSTANTS
    Calls = {c1, c2, c3, c4, c5}
    NoAccount = NoAccount
SYMMETRY MCSymmetry
CHECK_DEADLOCK FALSE
INVARIANTS
    TypeOK
    DefaultsKept
