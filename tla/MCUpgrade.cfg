\* A reader arriving when active_ is exactly REQUIRED_BIT.
SPECIFICATION Spec
CONSTANTS
    Thread = {t1, t2, t3}
    REQUIRED_BIT = 8
    MaxCalls = 2
CHECK_DEADLOCK FALSE
INVARIANT UpgradeIsPermanent
