SPECIFICATION Spec
\* The bounds of the model stop it.
CHECK_DEADLOCK FALSE
CONSTANTS
    r1 = r1  r2 = r2  p1 = p1  p2 = p2
    Replicas <- TwoReplicas
    Procs = {p1}
    ReplicaOf <- OneEach
    Skew <- R2Ahead
    Config <- SameConfig
    Consents <- OneConsent
    Verifiers <- BothVerifiers
    Capacity = 1
    Prompt = FALSE
    SignMayFail = FALSE
    CodeTTL = 2  AuthReqTTL = 1  AccessTTL = 1  RefreshTTL = 2  Leeway = 1
    MaxTime = 3  MaxIds = 7  MaxBlobs = 1  MaxRestarts = 0
INVARIANTS GuardInv GuardCoversCodes ReopenedOnlyByEviction LongLivedPortable
