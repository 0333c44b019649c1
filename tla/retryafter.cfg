\* Violated: a client comes back when it was told to and is refused again.
CONSTANTS
    Handlers = {h1}
    Limit = 2
    Window = 4
    MaxDelay = 1
    MaxTime = 9
    MaxCalls = 6
SPECIFICATION Spec
SYMMETRY Symmetry
INVARIANTS RetryAfterIsKept
CHECK_DEADLOCK FALSE
