SPECIFICATION FairSpec
CONSTANTS
    t1 = t1
    t2 = t2
    alice = alice
    eve = eve
    Tabs = {t1, t2}
    Users = {alice, eve}
    Allowed = {alice}
    Places = {"/", "/oauth2/authorize"}
    Rotates = FALSE
    OmitsRefresh = TRUE
    MaxActs = 2
    MaxIds = 5
    MaxExpiries = 1
PROPERTIES
    PagesSettle
CHECK_DEADLOCK FALSE
