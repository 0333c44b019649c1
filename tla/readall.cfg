\* Read-all against deletions: three messages on two boards, no sockets.
SPECIFICATION Spec
CONSTANTS
    Users = {u1, u2}
    Clients = {u1}
    Sockets = {}
    Boards = {b1, b2}
    Messages = {1, 2, 3}
    Audiences = {{u1, u2}}
    Handlers = {h1, h2}
    None = None
PROPERTIES
    ReadWasReturned
    ImplementsInbox
