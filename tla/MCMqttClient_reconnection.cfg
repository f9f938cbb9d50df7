SPECIFICATION FairSpec
CONSTANTS
    Main = main
    Loops = {l1, l2}
    Topics = {commands, update}
    WithSink = TRUE
    MaxLosses = 2
CHECK_DEADLOCK FALSE
INVARIANTS OneDialer NoDialWhileUp SubscribedOnceSetUp UpIsKnown
PROPERTY LoopConnects
