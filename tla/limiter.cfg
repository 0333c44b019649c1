\* Overlapping calls of one client against failures of Redis.
CONSTANTS
    Handlers = {h1, h2}
    Limit = 2
    Window = 5
    MaxDelay = 2
    MaxTime = 8
    MaxCalls = 5
SPECIFICATION Spec
SYMMETRY Symmetry
INVARIANTS LimitUpToDelay DenialIsJustified
CHECK_DEADLOCK FALSE
