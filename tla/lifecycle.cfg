\* The life of two boards, and of their members, meanwhile.
CONSTANTS
    Users = {u1, u2}
    Boards = {b1, b2}
    Uids = {1, 2, 3, 4, 5, 6}
    Handlers = {h1, h2}
    None = None
    MaxServed = 6
    Ops <- LifecycleOps
SPECIFICATION Spec
SYMMETRY Symmetry
INVARIANTS RefIntegrity ArchivedIsAudited RequestsPerHandler
    CreatorsAreMembers
PROPERTIES GoneIsForever OneBoardAtATime ImplementsAccess
CHECK_DEADLOCK FALSE
