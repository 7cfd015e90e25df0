------------------------------ MODULE Artifacts ------------------------------
(***************************************************************************)
(* The self-contained artifacts of the MCP authorization server            *)
(* (internal/mcpauth/artifacts.go): what each one carries, how it is       *)
(* minted, and what each Verify function checks.  Keys are shared by all   *)
(* replicas, so a signature or a decryption succeeds exactly on a token    *)
(* that some replica minted; what is left to check is the claims.          *)
(*                                                                         *)
(* Instants are whole seconds, like the NumericDates of the claims.        *)
(***************************************************************************)
EXTENDS Naturals

CONSTANTS
    AccessTTL,      \* lifetimes, in ticks: as.AccessTTL and so on
    RefreshTTL,
    CodeTTL,
    AuthReqTTL,
    Leeway,         \* clockSkewLeeway
    Consents,       \* what a user may be asked to approve
    Verifiers       \* PKCE code verifiers

\* The claims a consent binds, all of them fixed before the user is asked.
ConsentFields ==
    {"sub", "client", "redirect", "challenge", "resource", "scope"}

ASSUME ArtifactsAssumption ==
    /\ AccessTTL \in Nat /\ RefreshTTL \in Nat
    /\ CodeTTL \in Nat /\ AuthReqTTL \in Nat
    /\ Leeway \in Nat
    /\ \A b \in Consents : DOMAIN b = ConsentFields

\* An absent JSON claim, or a form field that was not sent.
Absent == "absent"

\* The S256 transformation is injective as far as anyone can tell.
S256(v) == [sha256 |-> v]

VerifyPKCE(verifier, challenge) ==
    verifier # Absent /\ challenge = S256(verifier)

\* The part of a consent that the token pair carries on.
GrantOf(b) ==
    [sub |-> b.sub, client |-> b.client, resource |-> b.resource,
     scope |-> b.scope]

Grants == {GrantOf(b) : b \in Consents}

(***************************************************************************)
(* One record shape for the five claim structs.  "use" is token_use, "id"  *)
(* the jti; "by" (the minting replica), "parent" (the artifact it was      *)
(* issued for) and "root" (the consent blob it all started with) are       *)
(* history that no code reads.                                             *)
(***************************************************************************)
Artifact(use, id, clock, ttl, r, bind, from, iss, family) ==
    [use |-> use, id |-> id, iat |-> clock, exp |-> clock + ttl,
     bind |-> bind, iss |-> iss, family |-> family,
     by |-> r, parent |-> from.id, root |-> from.root]

MintAuthReq(id, clock, r, consent) ==
    Artifact("authreq", id, clock, AuthReqTTL, r, consent,
             [id |-> 0, root |-> id], Absent, 0)

MintCode(id, clock, r, req) ==
    Artifact("code", id, clock, CodeTTL, r, req.bind, req, Absent, 0)

\* IssueGrant(in): the pair minted for the code or refresh token "from".  A
\* code starts a rotation family, named here by the refresh token's jti.
AccessToken(id, clock, r, issuer, from) ==
    Artifact("access", id, clock, AccessTTL, r, GrantOf(from.bind), from, issuer, 0)

\* The family named after the consent and not after the code's first token.
RefreshToken_Bug(id, clock, r, from) ==
    Artifact("refresh", id, clock, RefreshTTL, r, GrantOf(from.bind), from,
             Absent, from.root)

RefreshToken(id, clock, r, from) ==
    Artifact("refresh", id, clock, RefreshTTL, r, GrantOf(from.bind), from,
             Absent, IF from.family = 0 THEN id ELSE from.family)

\* go-jose's ValidateWithLeeway: not issued in the future (nor before nbf,
\* which equals iat where it is set) and not expired.
ValidateWithLeeway(t, clock, leeway) ==
    /\ t.iat <= clock + leeway
    /\ clock <= t.exp + leeway

VerifyAuthReq_NoExpiry(t, clock) == t.use = "authreq"
VerifyAuthReq(t, clock) == t.use = "authreq" /\ ValidateWithLeeway(t, clock, 0)

VerifyCode_Lax(t, clock) == t.use = "code" /\ ValidateWithLeeway(t, clock, Leeway)
VerifyCode_AnyUse(t, clock) ==
    t.use \in {"code", "authreq"} /\ ValidateWithLeeway(t, clock, 0)
VerifyCode(t, clock) == t.use = "code" /\ ValidateWithLeeway(t, clock, 0)

VerifyRefreshToken_Eternal(t, clock) == t.use = "refresh"
VerifyRefreshToken_Strict(t, clock) ==
    t.use = "refresh" /\ ValidateWithLeeway(t, clock, 0)
VerifyRefreshToken(t, clock) ==
    t.use = "refresh" /\ ValidateWithLeeway(t, clock, Leeway)

VerifyAccessToken_AnyAudience(t, clock, config) ==
    t.use = "access" /\ t.iss = config.issuer /\ ValidateWithLeeway(t, clock, Leeway)

\* iss and aud are compared with the verifying replica's configuration.
VerifyAccessToken(t, clock, config) ==
    /\ t.use = "access"
    /\ t.iss = config.issuer
    /\ t.bind.resource = config.resource
    /\ ValidateWithLeeway(t, clock, Leeway)
=============================================================================
