\* Two files, crashes, failed file operations and edits by another process.
CONSTANTS
    N = 2
    Content = {a, b, c}
    Absent = Absent
    None = None
    MaxCrashes = 1
    MaxFaults = 1
    MaxEdits = 1
SPECIFICATION Spec
INVARIANTS
    RestoreSound
    AllOrNothing
    EditSurvives
