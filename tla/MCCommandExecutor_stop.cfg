SPECIFICATION FairSpec
CONSTANTS
    Commands = {c1}
    Kinds = {"simple"}
CHECK_DEADLOCK FALSE
PROPERTY StopReturns
