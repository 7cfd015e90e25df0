SPECIFICATION Spec
CONSTANTS
    t1 = t1
    alice = alice
    Tabs = {t1}
    Users = {alice}
    Allowed = {alice}
    Places = {"/page"}
    Rotates = FALSE
    OmitsRefresh = FALSE
    MaxActs = 1
    MaxIds = 9
    MaxExpiries = 0
INVARIANTS
    ReturnsWhereAsked
CHECK_DEADLOCK FALSE
