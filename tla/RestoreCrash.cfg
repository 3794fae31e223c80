\* Crashes only, as often as three times: atomicity and recovery.
CONSTANTS
    N = 2
    Content = {a, b}
    Absent = Absent
    None = None
    MaxCrashes = 3
    MaxFaults = 0
    MaxEdits = 0
SPECIFICATION FairSpec
PROPERTIES
    AtomicSpec
    RecoveryCompletes
