SPECIFICATION FairSpec
\* The bounds of the model stop it.
CHECK_DEADLOCK FALSE
CONSTANTS
    t1 = t1
    alice = alice
    bob = bob
    eve = eve
    AccessTTL = 1
    RefreshTTL = 1
    CodeTTL = 1
    AuthReqTTL = 1
    Leeway = 1
    Consents = {}
    Verifiers = {}
    Tabs = {t1}
    Users = {alice, bob, eve}
    Allowed = {alice, bob}
    Clients = {"cimd", "dcr"}
    CimdClients = {"cimd"}
    Sub <- MCSub
    OddHosts = {"odd;example"}
    Resource <- MCResource
    ScopesSupported <- MCScopes
    Listings <- MCListings
    Requests <- AllRequests
    MaxTime = 3
    MaxFlows = 1
    MaxIds = 6
    MaxChanges = 2
INVARIANTS
    TypeOK
    CodesForApprover
    AnswersItsRequest
    SafeDelivery
PROPERTIES
    OnlyListedRedirects
    FlowEnds
