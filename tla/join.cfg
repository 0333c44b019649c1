\* Join requests and departures, three handlers on one board.
CONSTANTS
    Users = {u1, u2, u3}
    Boards = {b1}
    Uids = {1, 2, 3, 4, 5, 6}
    Handlers = {h1, h2, h3}
    None = None
    MaxServed = 7
    Ops <- JoinOps
SPECIFICATION Spec
SYMMETRY Symmetry
INVARIANTS TypeOK NobodyJoinsUnasked RequestLedger DecisionIsNotified
    PendingMeansUndecided MembershipLedger EndsPerHandler
PROPERTIES DuplicateIsPermanent DecidedStaysDecided
CHECK_DEADLOCK FALSE
