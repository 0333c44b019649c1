\* Registration and links alone: three names for two handlers.
CONSTANTS
    Names = {n1, n2, n3}
    Emails = {e1, e2}
    Logins = {}
    Handlers = {h1, h2}
    None = None
    AccessTTL = 2
    RefreshTTL = 3
    JtiTTL = 2
    Skew = 1
    Delay = 1
    MaxTime = 0
SPECIFICATION Spec
SYMMETRY Symmetry
INVARIANTS LinkVerifiesItsOwner AccountsPerHandler
CHECK_DEADLOCK FALSE
