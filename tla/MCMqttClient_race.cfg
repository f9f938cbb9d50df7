SPECIFICATION FairSpec
CONSTANTS
    Main = main
    Loops = {l1, l2}
    Topics = {commands}
    WithSink = FALSE
    MaxLosses = 2
CHECK_DEADLOCK FALSE
PROPERTY Reconnects
