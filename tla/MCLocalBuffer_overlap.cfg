SPECIFICATION Spec
CONSTANTS
    Flushers = {f1, f2}
    MaxId = 4
    BatchSize = 2
    MaxMessages = 3
    PruneExtra = 1
    FaultyDb = TRUE
SYMMETRY FlusherSymmetry
INVARIANTS TypeOK NoLoss HandedOverInOrder DuplicateWindow
PROPERTIES RemovalJustified OutboxSpec
