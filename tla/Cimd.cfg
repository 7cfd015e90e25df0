SPECIFICATION Spec
\* The bounds of the model stop it.
CHECK_DEADLOCK FALSE
CONSTANTS
    p1 = p1  p2 = p2
    Procs = {p1, p2}
    ClientIds <- MCClientIds
    AllowedHosts <- MCAllowedHosts
    Subdomains <- MCSubdomains
    Documents <- MCDocuments
    MinTTL = 1  MaxTTL = 2  NegativeTTL = 1  DefaultTTL = 2
    CacheSize = 1
    Second = 4  Wrap = 64
    Timeout = 0
    MaxTime = 3  MaxChanges = 1
SYMMETRY Symmetry
INVARIANTS OwnDocument StalenessBounded FailureForgotten FetchesBounded
