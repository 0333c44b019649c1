\* Invitations, roles and removals, two handlers on one board.
CONSTANTS
    Users = {u1, u2, u3}
    Boards = {b1}
    Uids = {1, 2, 3, 4, 5, 6}
    Handlers = {h1, h2}
    None = None
    MaxServed = 6
    Ops <- InviteOps
SPECIFICATION Spec
SYMMETRY Symmetry
INVARIANTS NobodyJoinsUnasked InvitationReachesRecipient RoleIsExplained
    MembershipLedger AcceptancesPerHandler
PROPERTIES ImplementsAccess SecondInvitationIsPermanent
CHECK_DEADLOCK FALSE
