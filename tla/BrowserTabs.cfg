SPECIFICATION Spec
CONSTANTS
    t1 = t1
    t2 = t2
    alice = alice
    bob = bob
    eve = eve
    Tabs = {t1, t2}
    Users = {alice, bob, eve}
    Allowed = {alice, bob}
    Places = {"/page", "/oauth2/authorize"}
    Rotates = TRUE
    OmitsRefresh = FALSE
    MaxActs = 3
    MaxIds = 5
    MaxExpiries = 1
SYMMETRY TabUserSymmetry
INVARIANTS
    TypeOK
    TabsDoNotDisturb
    OneIdentity
    RefreshStaysGood
    SignOutHolds
    AuthorizeResumed
    OwnSessionSticks
CHECK_DEADLOCK FALSE
