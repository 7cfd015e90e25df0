--------------------------- MODULE MCTokenEndpoint ---------------------------
(* Values for the constants of TokenEndpoint.                              *)
EXTENDS TokenEndpoint, TLC

CONSTANTS r1, r2, p1, p2

OneReplica == {r1}
TwoReplicas == {r1, r2}
OneProc == {p1}
TwoProcs == {p1, p2}

AllOnR1 == [p \in Procs |-> r1]
\* Sound where every process is on the same replica.
ProcSymmetry == Permutations(Procs)
OneEach == [p \in Procs |-> IF p = p1 THEN r1 ELSE r2]

NoSkew == [r \in Replicas |-> 0]
R2Ahead == [r \in Replicas |-> IF r = r1 THEN 0 ELSE 1]

Conf(resource, required) ==
    [issuer |-> "as", resource |-> resource, required |-> required,
     allowed |-> {"ann"}]

SameConfig == [r \in Replicas |-> Conf("mcp", {"read"})]
\* One key signs for two resources, and r1 demands more scope.
OwnResource == [r \in Replicas |->
    IF r = r1 THEN Conf("mcp", {"read", "write"}) ELSE Conf("docs", {"read"})]

Consent(client, resource, scope) ==
    [sub |-> "ann", client |-> client, redirect |-> client,
     challenge |-> S256("v1"), resource |-> resource, scope |-> scope]

OneConsent == {Consent("c1", "mcp", {"read"})}
TwoConsents == {Consent("c1", "mcp", {"read"}),
                Consent("c1", "mcp", {"read", "write"})}

RightVerifier == {"v1"}
BothVerifiers == {"v1", "v2"}
=============================================================================
