SPECIFICATION Spec
\* The bounds of the model stop it.
CHECK_DEADLOCK FALSE
CONSTANTS
    r1 = r1  r2 = r2  p1 = p1  p2 = p2
    Replicas <- TwoReplicas
    Procs <- TwoProcs
    ReplicaOf <- AllOnR1
    Skew <- NoSkew
    Config <- OwnResource
    Consents <- TwoConsents
    Verifiers <- RightVerifier
    Capacity = 8
    Prompt = TRUE
    SignMayFail = FALSE
    CodeTTL = 1  AuthReqTTL = 1  AccessTTL = 1  RefreshTTL = 1  Leeway = 0
    MaxTime = 0  MaxIds = 8  MaxBlobs = 2  MaxRestarts = 1
SYMMETRY ProcSymmetry
INVARIANTS LineageKept FamilyIsOneSession LetThroughAsApproved
    RaceIsBounded RefreshBurnedOnlyByRotation
