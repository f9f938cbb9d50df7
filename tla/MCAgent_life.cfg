SPECIFICATION FairSpec
CONSTANTS
    Ids = {i1, i2}
    None = none
    Lost = lost
    MaxRestarts = 1
    WithScanner = FALSE
CONSTRAINT IdsInOrder
CHECK_DEADLOCK FALSE
INVARIANTS RunsRegistered NoSleepOverTrigger TakenDownInOrder TokenSurvives
PROPERTIES CredentialsKept RegistrationEnds ShutdownDisconnects OfflineAtLast
