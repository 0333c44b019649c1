\* Violated: two requests of one user for a board are both committed.
CONSTANTS
    Users = {u1, u2}
    Boards = {b1}
    Uids = {1, 2, 3, 4, 5}
    Handlers = {h1, h2}
    None = None
    MaxServed = 6
    Ops <- JoinOps
SPECIFICATION Spec
SYMMETRY Symmetry
INVARIANTS OneRequestPerUser
CHECK_DEADLOCK FALSE
