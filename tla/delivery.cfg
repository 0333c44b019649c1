SPECIFICATION FairSpec
CONSTANTS
    Users = {u1, u2}
    Clients = {u1}
    Sockets = {1, 2}
    Boards = {b1}
    Messages = {1, 2}
    Audiences = {{u1, u2}}
    Handlers = {h1, h2}
    None = None
INVARIANTS
    StoredIffAnswered
    HandledIsForgotten
    MissedIsReplaced
PROPERTIES
    AnsweredReachesAll
    DroppedIsForgotten
    CallsEnd
