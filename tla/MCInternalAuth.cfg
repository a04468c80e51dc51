SPECIFICATION Spec
CONSTANTS
    Calls = {c1, c2}
    Window = 2
    Keep = 4
    Skew = 3
    LastInstant = 5
    MaxRuns = 2
    MaxArrivals = 3
    Unsent = Unsent
INVARIANTS
    TypeOK
    AcceptedOncePerRun
    RefusedForCause
    RepeatsAreClose
CHECK_DEADLOCK FALSE
