SPECIFICATION Spec
CONSTANTS
    Threads = {t1, t2, t3}
    None = none
CHECK_DEADLOCK FALSE
INVARIANTS NoDeadlock GuardIsScoped
