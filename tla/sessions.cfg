\* Two accounts that may share an e-mail, and a login between expiries.
CONSTANTS
    Names = {n1, n2}
    Emails = {e1, e2}
    Logins = {1}
    Handlers = {h1, h2}
    None = None
    AccessTTL = 2
    RefreshTTL = 3
    JtiTTL = 2
    Skew = 1
    Delay = 1
    MaxTime = 4
SPECIFICATION Spec
SYMMETRY Symmetry
INVARIANTS LogoutLasts BackAfterEntry
CHECK_DEADLOCK FALSE
