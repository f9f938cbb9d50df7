SPECIFICATION FairSpec
CONSTANTS
    Updates = {u1, u2, u3}
    Old = old
    None = none
    Overlap = FALSE
CHECK_DEADLOCK FALSE
INVARIANTS OnlyVerifiedInstalled BackupHeld
PROPERTIES AnswerMatchesFiles UpdateEnds
