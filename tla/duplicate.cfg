\* Violated: a user ends with two memberships of a board.
CONSTANTS
    Users = {u1, u2}
    Boards = {b1}
    Uids = {1, 2, 3, 4, 5}
    Handlers = {h1, h2}
    None = None
    MaxServed = 6
    Ops <- JoinOps
SPECIFICATION Spec
SYMMETRY Symmetry
INVARIANTS OneMembershipPerUser
CHECK_DEADLOCK FALSE
