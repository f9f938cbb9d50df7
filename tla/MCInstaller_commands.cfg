SPECIFICATION Spec
CONSTANTS
    Codes = {c1, c2}
    Servers = {s1, s2}
    Localhost = localhost
    None = none
    Cut = cut
    MaxCommands = 3
CHECK_DEADLOCK FALSE
PROPERTIES ProtectedUntilRemoved InstalledRuns
