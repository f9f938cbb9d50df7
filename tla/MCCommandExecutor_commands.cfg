SPECIFICATION FairSpec
CONSTANTS
    Commands = {c1, c2}
    Kinds = {"malformed", "illtyped", "rejected", "simple", "shell", "hang", "update"}
CHECK_DEADLOCK FALSE
INVARIANTS Lifecycle OneAtATime NoSleepOnWork
PROPERTIES EveryCommandAnswered StopWhileBusyReturns
