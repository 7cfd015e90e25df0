----------------------------- MODULE Deployment -----------------------------
(***************************************************************************)
(* What a configuration change does to the clients: replicas read their    *)
(* environment when they start (cmd/oidc-proxy/main.go, internal/config,   *)
(* mcpauth.New) and keep nothing else, so a roll-out is a period in which  *)
(* replicas with different keys, scopes, issuers and resources answer the  *)
(* steps of one flow.  The load balancer sends each request anywhere.      *)
(*                                                                         *)
(* One MCP client, which follows the MCP authorization specification: it   *)
(* finds the server through the challenge of /mcp-verify and the two       *)
(* metadata documents, registers if it must, has its user approve, redeems *)
(* the code, refreshes once when it gets a 401, and otherwise starts over. *)
(*                                                                         *)
(* Time and single use are module TokenEndpoint's.  A scope list is a set  *)
(* of entries and an entry the set of its words, since a blank inside one  *)
(* survives start-up; the scope of a token is a set of words.              *)
(***************************************************************************)
EXTENDS Urls, Keys

CONSTANTS
    Replicas,
    Envs,           \* the environments an operator may roll out
    FirstEnvs,      \* those that the system may start with
    Wish,           \* the scope the client asks for when it is not told any
    MaxChanges      \* bound of the model: how many roll-outs

ASSUME DeploymentAssumption ==
    /\ FirstEnvs \subseteq Envs
    /\ \A env \in Envs : DOMAIN env.resource = DOMAIN NoUrl
    /\ MaxChanges \in Nat

VARIABLES
    target,     \* the environment that replicas are started with
    running,    \* the environment each replica was started with
    changes,
    step,       \* the client's next step
    ask,        \* the scope it will request; none at all if empty
    prm,        \* where the challenge says the resource metadata is
    site,       \* what the metadata documents say
    clientId,
    inHand,     \* the consent blob or the code of the flow under way
    tokens,
    renewed,    \* the tokens were refreshed and not accepted since
    asked       \* consent pages shown since the last restart (history)

deployed == <<target, running, changes>>
client == <<step, ask, prm, site, clientId, inHand, tokens, renewed>>
vars == <<target, running, changes, step, ask, prm, site, clientId, inHand,
          tokens, renewed, asked>>

\* Consent pages are counted up to here.
TooOften == 3

Down == [key |-> "none"]
Nothing == [use |-> "nothing"]
CimdId == [use |-> "client_id metadata document"]
-----------------------------------------------------------------------------
(***************************************************************************)
(* Start-up.                                                               *)
(***************************************************************************)
NormalizeScopes(entries) == entries \ {{}}

RequiredSupported_Unchecked(env) == TRUE

RequiredSupported(env) ==
    NormalizeScopes(env.required) \subseteq NormalizeScopes(env.supported)

\* Load, validateMCP, buildAS and New: what is refused never serves.
Boots(env) ==
    /\ NormalizeScopes(env.supported) # {}
    /\ env.key # Unset
    /\ RequireHTTPSURL(env.issuer)
    /\ RequireHTTPSURL(env.resource)
    /\ RequiredSupported(env)

New(env) ==
    [issuer |-> IssuerOf(env.issuer),
     resource |-> env.resource,
     supported |-> NormalizeScopes(env.supported),
     required |-> NormalizeScopes(env.required),
     cimd |-> env.cimd,
     keys |-> LoadKeys(env),
     prmURL |-> DerivePRMURL(env.resource),
     resourceSuffix |-> Trim(env.resource.path),
     issuerSuffix |-> Trim(env.issuer.path)]

Up == {r \in Replicas : running[r] # Down}
AS(r) == New(running[r])
-----------------------------------------------------------------------------
(***************************************************************************)
(* What the endpoints decide.                                              *)
(***************************************************************************)
ScopeIsSupported(as, words) == \A w \in words : {w} \in as.supported

GrantScope(as, words) == IF words = {} THEN UNION as.supported ELSE words

HasRequiredScopes(as, words) ==
    \A entry \in as.required : \E w \in words : entry = {w}

Challenge_NoScope(as) == {}

\* RequiredScope, as wwwAuthenticate announces it.
Challenge(as) == UNION as.required

ResolveClient(as, id) ==
    IF id = CimdId THEN as.cimd
    ELSE ParseSigned(as.keys, id) /\ id.claims.use = "client"

MintClientID(as) == SignClaims(as.keys, [use |-> "client"])

BoundResource_AsSent(as, sent) == sent

\* From here on the canonical MCP_RESOURCE is used, however it was spelt.
BoundResource(as, sent) == as.resource

\* "shown" is what the consent page displays, and history from then on.
MintAuthReq(as, sent, words) ==
    EncryptClaims(as.keys,
        [use |-> "authreq", resource |-> BoundResource(as, sent),
         scope |-> GrantScope(as, words),
         shown |-> [resource |-> as.resource, scope |-> GrantScope(as, words)]])

MintCode(as, blob) ==
    EncryptClaims(as.keys,
        [use |-> "code", resource |-> blob.claims.resource,
         scope |-> blob.claims.scope, shown |-> blob.claims.shown])

VerifySealed(as, tok, use) == ParseEncrypted(as.keys, tok) /\ tok.claims.use = use

Claims(use, iss, from, origin) ==
    [use |-> use, iss |-> iss, resource |-> from.resource, scope |-> from.scope,
     shown |-> from.shown, origin |-> origin]

\* The pair; "origin" is the signing key of the replica that redeemed the code.
IssueGrant(as, from, origin) ==
    [use |-> "tokens",
     access |-> SignClaims(as.keys, Claims("access", as.issuer, from, origin)),
     refresh |-> SignClaims(as.keys, Claims("refresh", NoUrl, from, origin))]

VerifyAccessToken(as, tok) ==
    /\ ParseSigned(as.keys, tok)
    /\ tok.claims.use = "access"
    /\ tok.claims.iss = as.issuer
    /\ tok.claims.resource = as.resource

VerifyRefreshToken(as, tok) ==
    ParseSigned(as.keys, tok) /\ tok.claims.use = "refresh"

RefreshedFrom_Regrant(as, claims) == [claims EXCEPT !.scope = UNION as.supported]

\* What a refresh carries over: resource and scope as they are.
RefreshedFrom(as, claims) == claims
-----------------------------------------------------------------------------
Init ==
    /\ target \in {env \in FirstEnvs : Boots(env)}
    /\ running = [r \in Replicas |-> target]
    /\ changes = 0
    /\ step = "call"
    /\ ask = Wish
    /\ prm = NoUrl
    /\ site = Nothing
    /\ clientId = Nothing
    /\ inHand = Nothing
    /\ tokens = Nothing
    /\ renewed = FALSE
    /\ asked = 0

Reconfigure ==
    /\ changes < MaxChanges
    /\ \E env \in Envs \ {target} : target' = env
    /\ changes' = changes + 1
    /\ UNCHANGED <<running, asked>>
    /\ UNCHANGED client

Restart_Unchecked(r) ==
    /\ running' = [running EXCEPT ![r] = target]
    /\ running' # running
    /\ asked' = 0
    /\ UNCHANGED <<target, changes>>
    /\ UNCHANGED client

\* A replica is replaced by one with the target environment, if that boots.
Restart(r) ==
    /\ running' = [running EXCEPT ![r] = IF Boots(target) THEN target ELSE Down]
    /\ running' # running
    /\ asked' = 0
    /\ UNCHANGED <<target, changes>>
    /\ UNCHANGED client

\* The client drops what it had under way and calls the MCP server again.
StartOver ==
    /\ step' = "call"
    /\ prm' = NoUrl
    /\ site' = Nothing
    /\ inHand' = Nothing
    /\ renewed' = FALSE
-----------------------------------------------------------------------------
(***************************************************************************)
(* A request for the MCP server: /mcp-verify.                              *)
(***************************************************************************)
Accepted(r) == tokens # Nothing /\ VerifyAccessToken(AS(r), tokens.access)

\* The challenged scope, if there is one, is what the client asks for next.
Challenged(r) ==
    /\ prm' = AS(r).prmURL
    /\ ask' = IF Challenge(AS(r)) = {} THEN ask ELSE Challenge(AS(r))

CallUnauthorized(r) ==
    /\ step \in {"call", "served"}
    /\ ~Accepted(r)
    /\ Challenged(r)
    /\ IF tokens # Nothing /\ ~renewed
       THEN step' = "refresh" /\ UNCHANGED tokens
       ELSE step' = "prm" /\ tokens' = Nothing
    /\ UNCHANGED <<site, clientId, inHand, renewed, asked>>

CallInsufficient(r) ==
    /\ step \in {"call", "served"}
    /\ Accepted(r)
    /\ ~HasRequiredScopes(AS(r), tokens.access.claims.scope)
    /\ Challenged(r)
    /\ step' = "prm"
    /\ tokens' = Nothing
    /\ UNCHANGED <<site, clientId, inHand, renewed, asked>>

CallServed(r) ==
    /\ step \in {"call", "served"}
    /\ Accepted(r)
    /\ HasRequiredScopes(AS(r), tokens.access.claims.scope)
    /\ step' = "served"
    /\ renewed' = FALSE
    /\ UNCHANGED <<ask, prm, site, clientId, inHand, tokens, asked>>

(***************************************************************************)
(* Discovery and registration.                                             *)
(***************************************************************************)
\* The two words of "/.well-known/<name>" are followed by the suffix.  The mux
\* redirects a request for a path with empty segments to the path without them.
Suffix(path) == SelectSeq(SubSeq(path, 3, Len(path)), LAMBDA segment : segment # "")

\* handlePRM.
FetchPRM(r) ==
    /\ step = "prm"
    /\ IF Suffix(prm.path) \in {<<>>, AS(r).resourceSuffix}
       THEN /\ site' = [use |-> "site", resource |-> AS(r).resource,
                        issuer |-> AS(r).issuer]
            /\ step' = "metadata"
            /\ UNCHANGED <<prm, inHand, renewed>>
       ELSE StartOver
    /\ UNCHANGED <<ask, clientId, tokens, asked>>

\* handleASMetadata, or handleOIDCConfig.  The client insists on the issuer it
\* asked about.
FetchASMetadata(r) ==
    /\ step = "metadata"
    /\ IF /\ site.issuer.path \in {<<>>, AS(r).issuerSuffix}
          /\ site.issuer = AS(r).issuer
       THEN /\ step' = IF \/ clientId \notin {Nothing, CimdId} \/ AS(r).cimd
                       THEN "authorize" ELSE "register"
            /\ clientId' = IF clientId = Nothing /\ AS(r).cimd THEN CimdId
                           ELSE clientId
            /\ UNCHANGED <<prm, site, inHand, renewed>>
       ELSE StartOver /\ UNCHANGED clientId
    /\ UNCHANGED <<ask, tokens, asked>>

\* The endpoints are advertised below the issuer and served below /oauth2/.
Routed == site.issuer.path = <<>>

NotFound ==
    /\ step \in {"register", "authorize"}
    /\ ~Routed
    /\ StartOver
    /\ UNCHANGED <<ask, clientId, tokens, asked>>

\* handleRegister, with metadata that it accepts.
Register(r) ==
    /\ step = "register"
    /\ Routed
    /\ clientId' = MintClientID(AS(r))
    /\ step' = "authorize"
    /\ UNCHANGED <<ask, prm, site, inHand, tokens, renewed, asked>>

(***************************************************************************)
(* Authorization.  The resource parameter may be spelt with a host name in *)
(* lower case, as URL libraries do.                                        *)
(***************************************************************************)
Spellings == {site.resource, Lower(site.resource)}

\* An error page: the user tries again with a client that registers anew.
GetUnknown(r) ==
    /\ step = "authorize" /\ Routed
    /\ ~ResolveClient(AS(r), clientId)
    /\ clientId' = Nothing
    /\ StartOver
    /\ UNCHANGED <<ask, tokens, asked>>

\* invalid_target, or invalid_scope: then the client asks for no scope at all.
GetInvalid(r) ==
    /\ step = "authorize" /\ Routed
    /\ ResolveClient(AS(r), clientId)
    /\ \E sent \in Spellings :
         LET targetOK == MatchesResource(AS(r).resource, sent) IN
         /\ ~targetOK \/ ~ScopeIsSupported(AS(r), ask)
         /\ ask' = IF targetOK THEN {} ELSE ask
    /\ StartOver
    /\ UNCHANGED <<clientId, tokens, asked>>

GetConsent(r) ==
    /\ step = "authorize" /\ Routed
    /\ ResolveClient(AS(r), clientId)
    /\ ScopeIsSupported(AS(r), ask)
    /\ \E sent \in Spellings :
         /\ MatchesResource(AS(r).resource, sent)
         /\ inHand' = MintAuthReq(AS(r), sent, ask)
    /\ step' = "consent"
    /\ asked' = IF asked < TooOften THEN asked + 1 ELSE asked
    /\ UNCHANGED <<ask, prm, site, clientId, tokens, renewed>>

\* The blob does not decrypt: an error page.  Or the client finds another iss
\* in the answer than the one it began with.
ApproveFails(r) ==
    /\ step = "consent"
    /\ \/ ~VerifySealed(AS(r), inHand, "authreq")
       \/ AS(r).issuer # site.issuer
    /\ StartOver
    /\ UNCHANGED <<ask, clientId, tokens, asked>>

Approve(r) ==
    /\ step = "consent"
    /\ VerifySealed(AS(r), inHand, "authreq")
    /\ AS(r).issuer = site.issuer
    /\ inHand' = MintCode(AS(r), inHand)
    /\ step' = "redeem"
    /\ UNCHANGED <<ask, prm, site, clientId, tokens, renewed, asked>>

(***************************************************************************)
(* The token endpoint.                                                     *)
(***************************************************************************)
Redeem(r) ==
    /\ step = "redeem"
    /\ StartOver
    /\ tokens' = IF VerifySealed(AS(r), inHand, "code")
                 THEN IssueGrant(AS(r), inHand.claims, running[r].key)
                 ELSE Nothing
    /\ UNCHANGED <<ask, clientId, asked>>

RefreshTokens(r) ==
    /\ step = "refresh"
    /\ LET claims == tokens.refresh.claims IN
       IF VerifyRefreshToken(AS(r), tokens.refresh)
       THEN /\ tokens' = IssueGrant(AS(r), RefreshedFrom(AS(r), claims),
                                    claims.origin)
            /\ renewed' = TRUE
       ELSE tokens' = Nothing /\ UNCHANGED renewed
    /\ step' = "call"
    /\ UNCHANGED <<ask, prm, site, clientId, inHand, asked>>
-----------------------------------------------------------------------------
Client(r) ==
    /\ running[r] # Down
    /\ \/ CallUnauthorized(r) \/ CallInsufficient(r) \/ CallServed(r)
       \/ FetchPRM(r) \/ FetchASMetadata(r) \/ NotFound \/ Register(r)
       \/ GetUnknown(r) \/ GetInvalid(r) \/ GetConsent(r)
       \/ Approve(r) \/ ApproveFails(r)
       \/ Redeem(r) \/ RefreshTokens(r)
    /\ UNCHANGED deployed

Next ==
    \/ Reconfigure
    \/ \E r \in Replicas : Restart(r)
    \/ \E r \in Replicas : Client(r)

Spec == Init /\ [][Next]_vars

\* A roll-out reaches every replica, and the client keeps trying.
Fairness ==
    /\ \A r \in Replicas : WF_vars(Restart(r))
    /\ WF_vars(\E r \in Replicas : Client(r))

FairSpec == Spec /\ Fairness
-----------------------------------------------------------------------------
(* Properties.                                                             *)

Steps == {"call", "served", "prm", "metadata", "register", "authorize",
          "consent", "redeem", "refresh"}

\* Types; only an environment that boots is ever running, and each step of the
\* client has what it needs at hand.
TypeOK ==
    /\ target \in Envs
    /\ \A r \in Up : running[r] \in Envs /\ Boots(running[r])
    /\ changes \in 0..MaxChanges
    /\ step \in Steps
    /\ tokens # Nothing => tokens.use = "tokens"
    /\ step \in {"served", "refresh"} => tokens # Nothing
    /\ step \in {"metadata", "register", "authorize"} => site # Nothing
    /\ step \in {"consent", "redeem"} =>
          inHand.claims.use = IF step = "consent" THEN "authreq" ELSE "code"
    /\ asked \in 0..TooOften

\* Replacing MCP_SIGNING_KEY ends every session at once, on the replicas that
\* have the new key, even if MCP_SIGNING_KID stays the same: what they let
\* through goes back to a code that was redeemed under that very key.
RotationCutsOff ==
    \A r \in Up : Accepted(r) => tokens.access.claims.origin = running[r].key

\* mcp.go:213-216, "so the token we mint is always usable": a token minted for
\* a consent page that named the minter's resource is accepted by the minter,
\* whoever rendered the page and however the client spells the resource.
MintedUsable ==
    [][\A r \in Up :
         /\ Redeem(r) \/ RefreshTokens(r)
         /\ tokens' # Nothing
         /\ tokens'.access.claims.shown.resource = AS(r).resource
         => VerifyAccessToken(AS(r), tokens'.access)]_vars

\* Whatever is let through is what some consent page showed: its resource is
\* the replica's and its scope neither widened nor narrowed, through roll-outs
\* that change the resource and the scopes in the middle of a flow.
ServedAsApproved ==
    \A r \in Up : Accepted(r) =>
        LET claims == tokens.access.claims IN
        /\ claims.shown = [resource |-> AS(r).resource, scope |-> claims.scope]

\* An environment whose issuer has no path, whose resource path has no empty
\* segments inside, which its metadata would not be found under, and whose
\* required scopes have no blanks; README, "Divergences", says why the others
\* cannot be served.
Usable(env) ==
    /\ Boots(env)
    /\ IssuerOf(env.issuer).path = <<>>
    /\ Suffix(DerivePRMURL(env.resource).path) \in {<<>>, Trim(env.resource.path)}
    /\ \A entry \in NormalizeScopes(env.required) : \E w \in entry : entry = {w}

\* Once a roll-out is complete the user is asked twice at most: on a page that
\* comes to nothing because the flow began before, and on one more.  Neither
\* a stale client_id nor a step-up for more scope makes it a third time.
AskedTwice ==
    (\A r \in Replicas : running[r] = target /\ Usable(target)) => asked <= 2

\* README:316-320, "Clients recover on their own by re-authorizing with the
\* challenged scope": after any roll-out, whatever the client was doing, it is
\* served again, without anybody's help.
Recovers == []<>(step = "served") \/ <>[]~Usable(target)
=============================================================================
