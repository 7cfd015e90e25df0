SPECIFICATION Spec
\* The bounds of the model stop it.
CHECK_DEADLOCK FALSE
CONSTANTS
    r1 = r1  r2 = r2  p1 = p1  p2 = p2
    Replicas <- OneReplica
    Procs <- OneProc
    ReplicaOf <- AllOnR1
    Skew <- NoSkew
    Config <- SameConfig
    Consents <- OneConsent
    Verifiers <- BothVerifiers
    Capacity = 8
    Prompt = TRUE
    SignMayFail = TRUE
    CodeTTL = 1  AuthReqTTL = 2  AccessTTL = 2  RefreshTTL = 3  Leeway = 1
    MaxTime = 5  MaxIds = 6  MaxBlobs = 2  MaxRestarts = 0
INVARIANTS GuardCoversRefreshes SlidingWindow
PROPERTIES PromiseKept
