SPECIFICATION FairSpec
\* Where nothing boots, nobody moves.
CHECK_DEADLOCK FALSE
CONSTANTS
    r1 = r1  r2 = r2
    Replicas = {r1, r2}
    Envs <- MCEnvs
    FirstEnvs <- MCFirst
    Wish <- MCWish
    MaxChanges = 2
INVARIANTS TypeOK RotationCutsOff ServedAsApproved AskedTwice
PROPERTIES MintedUsable Recovers
