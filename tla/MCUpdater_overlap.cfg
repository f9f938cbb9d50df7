SPECIFICATION Spec
CONSTANTS
    Updates = {u1, u2}
    Old = old
    None = none
    Overlap = TRUE
CHECK_DEADLOCK FALSE
INVARIANT OnlyVerifiedInstalled
