---------------------------- MODULE MCDeployment ----------------------------
(* Values for the constants of Deployment.                                 *)
EXTENDS Deployment, TLC

CONSTANTS r1, r2

MCSymmetry == Permutations(Replicas)

Base ==
    [key |-> "k1", kid |-> Unset, enc |-> Unset, cimd |-> TRUE,
     issuer |-> Url("https", "as.example", <<"">>),
     resource |-> Url("https", "mcp.example", <<"mcp">>),
     supported |-> {{"read"}, {"write"}}, required |-> {{"read"}}]

\* The signing key is replaced: alone, under a name that stays, or with the
\* encryption key pinned.
Pinned(key) == [Base EXCEPT !.key = key, !.kid = "main", !.enc = "e", !.cimd = FALSE]

MCEnvs == {
    Base,
    [Base EXCEPT !.key = "k2"],
    Pinned("k1"), Pinned("k2"),
    \* More is required than before; less is supported, and no blank entry.
    [Base EXCEPT !.required = {{"read"}, {"write"}}],
    [Base EXCEPT !.supported = {{"write"}, {}}, !.required = {}, !.cimd = FALSE],
    \* The resource and the issuer move, or are only spelt differently.
    [Base EXCEPT !.resource = Url("https", "mcp.example", <<"v2", "mcp", "">>),
                 !.issuer = Url("https", "login.example", <<>>)],
    [Base EXCEPT !.resource.upper = TRUE],
    \* Mistakes: one that is refused at start-up and two that are not.
    [Base EXCEPT !.required = {{"admin"}}],
    [Base EXCEPT !.supported = @ \cup {{"read", "write"}},
                 !.required = {{"read", "write"}}],
    [Base EXCEPT !.issuer.path = <<"tenant1">>]}

\* Two roll-outs lead from here to the rest, by way of any other.
MCFirst == {Base}

MCWish == {"read"}
=============================================================================
